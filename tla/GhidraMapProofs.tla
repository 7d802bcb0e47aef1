-------------------------- MODULE GhidraMapProofs --------------------------
(***************************************************************************)
(* Proofs about GhidraMap, for any labels, addresses, segments, memory     *)
(* maps and map files, and whatever the bounds.                            *)
(*                                                                         *)
(* Whatever the threads do, the types are right, only ranges anchored by   *)
(* this process have a segment, an automatic anchor is on the byte found,  *)
(* and the two translations agree (IInv).  The run map_race shows that the *)
(* rest needs one caller at a time: then the position found for an entry   *)
(* is good when it is put in and the file follows the list (SoleInv), and, *)
(* if the files found at first hold disjoint spans, which the loader does  *)
(* not check, the span is still free (SpanInv); then GhidraMap implements  *)
(* the table of AddressMap.                                                *)
(***************************************************************************)
EXTENDS GhidraMap, AscendingProofs, TLAPS

-----------------------------------------------------------------------------
\* The inductive invariant

\* The call of t that has been admitted: the anchor lies in its span, and as
\* soon as it is known the range is the one made from it.
CallOK(t) ==
  LET r == entry[t].range
      a == entry[t].anchor
  IN  /\ pc[t] \in {"derive", "find", "store", "save", "replace"} =>
           r \in MapRange /\ a \in Anchor
      /\ pc[t] \in {"find", "store"} =>
           /\ a.seg \in Nat
           /\ r = NewRange(r.label, r.lo, r.hi, a)
      /\ pc[t] \in {"derive", "find", "store"} => r.lo <= a.g /\ a.g < r.hi

\* The history of anchors is a function from labels to anchors.
AnchorsOK ==
  /\ anchors = [l \in DOMAIN anchors |-> anchors[l]]
  /\ \A l \in DOMAIN anchors : anchors[l] \in Anchor

\* Locals are there for every thread.
LocalsOK ==
  /\ entry = [t \in Threads |-> entry[t]]
  /\ slot = [t \in Threads |-> slot[t]]
  /\ text = [t \in Threads |-> text[t]]

IInv ==
  /\ TypeOK
  /\ LocalsOK
  /\ AnchorsOK
  /\ \A t \in Threads : CallOK(t)
  /\ AnchoredThisSession

-----------------------------------------------------------------------------
\* One caller at a time

\* The bridge is asked for one anchor at a time.
OneCaller == \E t : Threads = {t}

\* No two spans of a file that are loaded share an address.
FileDisjoint(f) ==
  \A i, j \in Loadable(f) : i # j => ~(f[i].lo < f[j].hi /\ f[j].lo < f[i].hi)

UniqueLabels ==
  \A i, j \in DOMAIN ranges : i # j => ranges[i].label # ranges[j].label

\* The position found for the entry is still the one of its label.
SlotOK(t) ==
  pc[t] = "store" =>
    IF slot[t] = 0
    THEN \A i \in DOMAIN ranges : ranges[i].label # entry[t].range.label
    ELSE ranges[slot[t]].label = entry[t].range.label

AsSaved == [i \in DOMAIN ranges |-> Persisted(ranges[i])]

\* What is about to be written is the list, and what has been written is.
FileOK(t) ==
  /\ pc[t] = "replace" => text[t] = AsSaved
  /\ ~unsaved /\ pc[t] \in {"idle", "derive", "find", "store"} =>
       LoadRanges(file) = [i \in DOMAIN ranges |-> Unanchored(AsSaved[i])]

SoleInv ==
  /\ IInv
  /\ UniqueLabels
  /\ \A t \in Threads : SlotOK(t) /\ FileOK(t)

\* The entry overlaps no range of another label.
EntryFits(t) ==
  pc[t] \in {"derive", "find", "store"} =>
    ~Clashes(entry[t].range.lo, entry[t].range.hi, entry[t].range.label)

\* The anchor of a label is that of the range of that label.
AnchorOf(l) ==
  \E i \in DOMAIN ranges :
    /\ ranges[i].label = l
    /\ ranges[i].lo <= anchors[l].g /\ anchors[l].g < ranges[i].hi
    /\ anchors[l].seg \in Nat
    /\ ranges[i].delta = anchors[l].g - anchors[l].off
    /\ ranges[i].seg = anchors[l].seg

SpanInv ==
  /\ SoleInv
  /\ NoOverlap
  /\ FileDisjoint(file)
  /\ \A t \in Threads : EntryFits(t)
  /\ \A l \in DOMAIN anchors : AnchorOf(l)

-----------------------------------------------------------------------------
\* The operators

\* The first of a set of positions is one of them, and none is before it.
LEMMA FirstIsLeast ==
  ASSUME NEW n \in Nat, NEW S \in SUBSET (1..n), S # {}
  PROVE  /\ FirstIndex(S) \in S
         /\ \A j \in S : FirstIndex(S) <= j
<1>1. IsFiniteSet(S) /\ S \in SUBSET Int
  BY PositionsFinite
<1>2. \E i \in S : \A j \in S : i <= j
  BY <1>1, LeastExists
<1> QED
  BY <1>2, Zenon DEF FirstIndex

\* The ranges loaded from a file are those of its loadable entries, in their
\* order.
LEMMA LoadedFromFile ==
  ASSUME NEW f \in Seq(Saved)
  PROVE  \E order :
           /\ LoadRanges(f) = [k \in DOMAIN order |-> Unanchored(f[order[k]])]
           /\ \E n \in Nat : order \in [1..n -> Loadable(f)]
           /\ \A j, k \in DOMAIN order : j # k => order[j] # order[k]
<1> DEFINE S == Loadable(f)
           n == Cardinality(S)
           order == InOrder(S)
<1>1. S \in SUBSET (1..Len(f)) /\ Len(f) \in Nat
  <2>1. DOMAIN f = 1..Len(f) /\ Len(f) \in Nat
    OBVIOUS
  <2> QED
    BY <2>1 DEF Loadable
<1>2. IsFiniteSet(S) /\ S \in SUBSET Int
  BY <1>1, PositionsFinite
<1>3. /\ n \in Nat
      /\ order \in [1..n -> S]
      /\ \A j, k \in 1..n : j < k => order[j] < order[k]
  BY <1>2, InOrderListsAll
<1>4. ASSUME NEW j \in 1..n, NEW k \in 1..n, j # k
      PROVE  order[j] # order[k]
  <2> HIDE DEF order
  <2>1. order[j] \in Int /\ order[k] \in Int
    BY <1>2, <1>3
  <2>2. j < k \/ k < j
    BY <1>3, <1>4
  <2> QED
    BY <1>3, <2>1, <2>2
<1>5. DOMAIN order = 1..n
  BY <1>3
<1>6. LoadRanges(f) = [k \in DOMAIN order |-> Unanchored(f[order[k]])]
  BY DEF LoadRanges
<1> HIDE DEF order, S, n
<1>7. order \in [1..n -> Loadable(f)]
  BY <1>3 DEF S
<1> QED
  BY <1>3, <1>4, <1>5, <1>6, <1>7

\* They are ranges without a segment, no two of one label, and no two share
\* an address if no two entries that are loaded do.
LEMMA LoadedAreSound ==
  ASSUME NEW f \in Seq(Saved)
  PROVE  LET loaded == LoadRanges(f)
         IN  /\ loaded \in Seq(MapRange)
             /\ \A i \in DOMAIN loaded : loaded[i].seg = Null
             /\ \A i, j \in DOMAIN loaded : i # j =>
                  /\ loaded[i].label # loaded[j].label
                  /\ FileDisjoint(f) =>
                       ~Overlaps(loaded[i].lo, loaded[i].hi, loaded[j])
<1> DEFINE loaded == LoadRanges(f)
<1>1. PICK order :
           /\ loaded = [k \in DOMAIN order |-> Unanchored(f[order[k]])]
           /\ \E n \in Nat : order \in [1..n -> Loadable(f)]
           /\ \A j, k \in DOMAIN order : j # k => order[j] # order[k]
  BY LoadedFromFile
<1>2. PICK n \in Nat : order \in [1..n -> Loadable(f)]
  BY <1>1
<1>3. DOMAIN order = 1..n /\ DOMAIN loaded = 1..n
  BY <1>1, <1>2
<1> HIDE DEF loaded
<1>4. \A k \in 1..n : order[k] \in Loadable(f) /\ order[k] \in 1..Len(f)
  BY <1>2 DEF Loadable
<1>5. ASSUME NEW k \in 1..n
      PROVE  /\ loaded[k] = Unanchored(f[order[k]])
             /\ loaded[k] \in MapRange
             /\ loaded[k].seg = Null
             /\ loaded[k].label = f[order[k]].label
             /\ loaded[k].lo = f[order[k]].lo
             /\ loaded[k].hi = f[order[k]].hi
  <2>1. loaded[k] = Unanchored(f[order[k]])
    BY <1>1, <1>3
  <2>2. f[order[k]] \in Saved
    BY <1>4
  <2> QED
    BY <2>1, <2>2 DEF Unanchored, Saved, MapRange, Null
<1>6. loaded \in Seq(MapRange)
  <2>1. loaded = [k \in 1..n |-> loaded[k]]
    BY <1>1, <1>3
  <2>2. loaded \in [1..n -> MapRange]
    BY <1>5, <2>1
  <2> QED
    BY <1>2, <2>2
<1>7. ASSUME NEW i \in 1..n, NEW j \in 1..n, i # j
      PROVE  /\ loaded[i].label # loaded[j].label
             /\ FileDisjoint(f) =>
                  ~Overlaps(loaded[i].lo, loaded[i].hi, loaded[j])
  <2>1. order[i] # order[j] /\ order[i] \in Loadable(f)
        /\ order[j] \in Loadable(f)
        /\ order[i] \in 1..Len(f) /\ order[j] \in 1..Len(f)
    BY <1>1, <1>3, <1>4, <1>7
  <2>2. f[order[i]].label # f[order[j]].label
    <3>1. CASE order[i] < order[j]
      <4>1. order[i] \in 1..(order[j] - 1)
        BY <2>1, <3>1
      <4> QED
        BY <2>1, <4>1 DEF Loadable
    <3>2. CASE order[j] < order[i]
      <4>1. order[j] \in 1..(order[i] - 1)
        BY <2>1, <3>2
      <4> QED
        BY <2>1, <4>1 DEF Loadable
    <3> QED
      BY <2>1, <3>1, <3>2
  <2> QED
    BY <2>1, <2>2, <1>5 DEF FileDisjoint, Overlaps
<1>8. \A i \in DOMAIN loaded : loaded[i].seg = Null
  BY <1>3, <1>5
<1> QED
  BY <1>3, <1>6, <1>7, <1>8 DEF loaded

\* A list of ranges comes back from its own text as it was, but for the
\* segments.
LEMMA SavedComesBack ==
  ASSUME NEW r \in Seq(MapRange),
         \A i, j \in DOMAIN r : i # j => r[i].label # r[j].label
  PROVE  LET f == [i \in DOMAIN r |-> Persisted(r[i])]
         IN  /\ f \in Seq(Saved)
             /\ Loadable(f) = DOMAIN r
             /\ LoadRanges(f) = [i \in DOMAIN r |-> Unanchored(f[i])]
<1> DEFINE f == [i \in DOMAIN r |-> Persisted(r[i])]
           n == Len(r)
<1>1. n \in Nat /\ DOMAIN r = 1..n /\ DOMAIN f = 1..n
  OBVIOUS
<1>2. ASSUME NEW i \in 1..n
      PROVE  /\ f[i] \in Saved
             /\ f[i].ok
             /\ f[i].label = r[i].label
  <2>1. r[i] \in MapRange /\ f[i] = Persisted(r[i])
    BY <1>1
  <2> QED
    BY <2>1 DEF Persisted, MapRange, Saved
<1>3. f \in Seq(Saved)
  BY <1>1, <1>2
<1> HIDE DEF f, n
<1>4. Loadable(f) = 1..n
  <2>1. ASSUME NEW i \in 1..n
        PROVE  i \in Loadable(f)
    <3>1. ASSUME NEW j \in 1..(i - 1)
          PROVE  f[j].label # f[i].label
      <4>1. j \in 1..n /\ j # i
        BY <1>1
      <4> QED
        BY <1>1, <1>2, <4>1
    <3> QED
      BY <1>1, <1>2, <3>1 DEF Loadable
  <2> QED
    BY <1>1, <2>1 DEF Loadable
<1>5. LoadRanges(f) = [i \in 1..n |-> Unanchored(f[i])]
  <2> DEFINE order == InOrder(1..n)
  <2>1. order = [k \in 1..n |-> k]
    BY <1>1, InOrderOfInterval
  <2>2. LoadRanges(f) = [k \in DOMAIN order |-> Unanchored(f[order[k]])]
    BY <1>4 DEF LoadRanges
  <2> HIDE DEF order
  <2> QED
    BY <2>1, <2>2
<1> QED
  BY <1>1, <1>3, <1>4, <1>5 DEF f

-----------------------------------------------------------------------------
\* The inductive invariant is one

\* The bounds are natural numbers.
LEMMA BoundsType ==
  /\ MaxCalls \in Nat /\ MaxRestarts \in Nat
  /\ LastAddress \in Nat /\ LastOffset \in Nat
BY GhidraMapAssumption

\* The invariant holds at first, whatever the map file holds.
LEMMA InvInit == Init => IInv
<1> SUFFICES ASSUME Init
             PROVE  IInv
  OBVIOUS
<1>1. file \in Seq(Saved) /\ ranges = LoadRanges(file)
  BY GhidraMapAssumption DEF Init
<1>2. ranges \in Seq(MapRange) /\ \A i \in DOMAIN ranges : ranges[i].seg = Null
  BY <1>1, LoadedAreSound
<1>3. anchors = <<>> /\ DOMAIN anchors = {}
  BY DEF Init
<1>4. TypeOK
  <2>1. Len(ranges) \in Nat /\ <<>> \in Seq(Saved)
    BY <1>2
  <2>2. \A t \in Threads :
          pc[t] = "idle" /\ slot[t] \in 0..Len(ranges) /\ text[t] \in Seq(Saved)
    BY <2>1 DEF Init
  <2>3. /\ pc \in [Threads -> {"idle", "derive", "find", "store", "save",
                               "replace"}]
        /\ calls \in 0..MaxCalls /\ restarts \in 0..MaxRestarts
        /\ unsaved \in BOOLEAN
    <3>1. /\ pc = [t \in Threads |-> "idle"] /\ unsaved = FALSE
          /\ calls = 0 /\ restarts = 0
      BY DEF Init
    <3>2. calls \in 0..MaxCalls /\ restarts \in 0..MaxRestarts
      BY <3>1, BoundsType
    <3> QED
      BY ONLY <3>1, <3>2
  <2>4. DOMAIN anchors \subseteq Labels
    BY <1>3
  <2> QED
    BY ONLY <1>1, <1>2, <2>2, <2>3, <2>4 DEF TypeOK
<1>5. LocalsOK /\ AnchorsOK
  BY <1>3 DEF Init, LocalsOK, AnchorsOK
<1>6. \A t \in Threads : CallOK(t)
  BY DEF Init, CallOK
<1>7. AnchoredThisSession
  BY <1>2 DEF AnchoredThisSession
<1> QED
  BY <1>4, <1>5, <1>6, <1>7 DEF IInv

\* A range made from an anchor is a range.
LEMMA NewRangeType ==
  ASSUME NEW label \in Labels, NEW lo \in Bounds, NEW hi \in Bounds,
         NEW a \in Anchor
  PROVE  /\ NewRange(label, lo, hi, a) \in MapRange
         /\ NewRange(label, lo, hi, a).label = label
         /\ NewRange(label, lo, hi, a).lo = lo
         /\ NewRange(label, lo, hi, a).hi = hi
BY GhidraMapAssumption
   DEF NewRange, MapRange, Anchor, Addresses, Offsets, Deltas, Bounds

\* The anchor that the engine's answers give has the type of one, in code
\* above segment zero.
LEMMA ComAnchorType ==
  ASSUME NEW m \in Matches, NEW chain \in MemoryMaps, NEW g \in Addresses,
         NEW a \in ComAnchors(m, chain, g)
  PROVE  /\ a \in Anchor /\ a.g = g /\ a.seg \in Nat
         /\ a.seg * Para + a.off = m
         /\ \E i \in DOMAIN chain :
              /\ chain[i].psp = chain[i].segment + 1
              /\ m < chain[i].psp * Para + chain[i].size
              /\ m >= (chain[i].psp + ComPara) * Para
<1> DEFINE own == Owning(m, chain)
           i   == FirstIndex(own)
           b   == chain[i]
           seg == b.psp + ComPara
           off == m - seg * Para
<1>1. chain \in Seq(Block) /\ Len(chain) \in Nat
      /\ DOMAIN chain = 1..Len(chain)
  BY GhidraMapAssumption
<1>2. /\ own # {} /\ b.segment + 1 = b.psp
      /\ off \in Offsets
      /\ a = [g |-> g, seg |-> seg, off |-> off]
  BY DEF ComAnchors
<1>3. own \in SUBSET (1..Len(chain))
  BY <1>1 DEF Owning
<1>4. i \in own
  BY <1>1, <1>2, <1>3, FirstIsLeast
<1>5. b \in Block /\ i \in DOMAIN chain
  BY <1>1, <1>3, <1>4
<1>6. /\ b.segment \in Nat /\ b.size \in Nat /\ b.psp \in Nat
      /\ m \in Nat /\ ComPara \in Nat /\ Para \in Nat
  BY <1>5, GhidraMapAssumption DEF Block
<1>7. m < (b.segment + 1) * Para + b.size
  BY <1>4 DEF Owning
<1> HIDE DEF own, i, b
<1>8. seg \in Nat /\ seg * Para \in Nat
  BY <1>6
<1>9. m < b.psp * Para + b.size
  BY <1>2, <1>7
<1>10. a.seg * Para + a.off = m /\ m >= seg * Para
  <2>1. a.seg = seg /\ a.off = off /\ off >= 0
    BY <1>2, GhidraMapAssumption DEF Offsets
  <2> DEFINE p == seg * Para
  <2>2. p \in Nat /\ off = m - p /\ a.seg * Para = p
    BY <1>8, <2>1
  <2> HIDE DEF p, seg, off
  <2>3. p + (m - p) = m /\ m >= p
    BY <1>6, <2>1, <2>2
  <2> QED
    BY <2>1, <2>2, <2>3 DEF p
<1>11. a \in Anchor /\ a.g = g /\ a.seg \in Nat
  <2> HIDE DEF seg, off
  <2> QED
    BY <1>2, <1>8 DEF Anchor
<1>12. b.psp = b.segment + 1 /\ m >= (b.psp + ComPara) * Para
  BY <1>2, <1>10
<1> QED
  BY <1>5, <1>9, <1>10, <1>11, <1>12 DEF b

\* A step of one thread, by action: SetBase is called with an anchor.
Begin(t) ==
  \E label \in Labels, lo \in Addresses, hi \in 1..(LastAddress + 1) :
     \/ \E g \in Addresses : MapAuto(t, label, lo, hi, g)
     \/ \E a \in Anchor : a.seg \in Nat /\ SetBase(t, label, lo, hi, a)

StepOf(t) ==
  \/ Begin(t)
  \/ Derive(t) \/ FindSlot(t) \/ Store(t)
  \/ Save(t) \/ Replace(t) \/ SaveFails(t)

\* A step of a thread is one of those.
LEMMA StepIsStepOf ==
  ASSUME NEW t \in Threads, Step(t)
  PROVE  StepOf(t)
<1>1. ASSUME NEW label \in Labels, NEW lo \in Addresses,
             NEW hi \in 1..(LastAddress + 1), NEW g \in Addresses,
             NEW seg \in Segments, NEW off \in Offsets,
             SetBase(t, label, lo, hi, [g |-> g, seg |-> seg, off |-> off])
      PROVE  \E a \in Anchor : a.seg \in Nat /\ SetBase(t, label, lo, hi, a)
  <2>1. [g |-> g, seg |-> seg, off |-> off] \in Anchor /\ seg \in Nat
    BY GhidraMapAssumption DEF Anchor
  <2> QED
    BY <1>1, <2>1
<1> QED
  BY <1>1, Zenon DEF Step, StepOf, Begin

\* An admitted call has the anchor in its span.
LEMMA AdmittedType ==
  ASSUME NEW t \in Threads, NEW label \in Labels, NEW lo \in Addresses,
         NEW hi \in 1..(LastAddress + 1), NEW a \in Anchor,
         Admitted(t, label, lo, hi, a.g)
  PROVE  LET r == NewRange(label, lo, hi, a)
         IN  /\ r \in MapRange /\ r = NewRange(r.label, r.lo, r.hi, a)
             /\ r.lo <= a.g /\ a.g < r.hi
<1>1. lo \in Bounds /\ hi \in Bounds
  BY GhidraMapAssumption DEF Addresses, Bounds
<1> QED
  BY <1>1, NewRangeType DEF Admitted

\* Every step keeps it.
LEMMA InvStep == IInv /\ [Next]_vars => IInv'
<1> SUFFICES ASSUME IInv, [Next]_vars
             PROVE  IInv'
  OBVIOUS
<1> USE DEF Goto
<1>1. ASSUME NEW t \in Threads, StepOf(t)
      PROVE  IInv'
  <2>1. ASSUME NEW label \in Labels, NEW lo \in Addresses,
               NEW hi \in 1..(LastAddress + 1), NEW g \in Addresses,
               MapAuto(t, label, lo, hi, g)
        PROVE  IInv'
    <3> DEFINE a == [g |-> g, seg |-> Null, off |-> 0]
    <3>1. a \in Anchor
      BY GhidraMapAssumption DEF Anchor, Null, Offsets
    <3>2. NewRange(label, lo, hi, a) \in MapRange
          /\ NewRange(label, lo, hi, a).lo <= a.g
          /\ a.g < NewRange(label, lo, hi, a).hi
      BY <2>1, <3>1, AdmittedType DEF MapAuto
    <3>3. TypeOK'
      <4>1. calls' \in 0..MaxCalls
        BY <2>1, BoundsType DEF IInv, TypeOK, MapAuto, Admitted
      <4> QED
        BY <2>1, <3>2, <4>1 DEF IInv, TypeOK, LocalsOK, MapAuto
    <3>4. (LocalsOK /\ AnchorsOK /\ AnchoredThisSession)'
      BY <2>1 DEF IInv, LocalsOK, AnchorsOK, AnchoredThisSession, MapAuto
    <3>5. \A u \in Threads : CallOK(u)'
      BY <2>1, <3>1, <3>2 DEF IInv, TypeOK, LocalsOK, CallOK, MapAuto
    <3> QED
      BY <3>3, <3>4, <3>5 DEF IInv
  <2>2. ASSUME NEW label \in Labels, NEW lo \in Addresses,
               NEW hi \in 1..(LastAddress + 1), NEW a \in Anchor,
               a.seg \in Nat, SetBase(t, label, lo, hi, a)
        PROVE  IInv'
    <3> DEFINE r == NewRange(label, lo, hi, a)
    <3>2. /\ r \in MapRange /\ r = NewRange(r.label, r.lo, r.hi, a)
          /\ r.lo <= a.g /\ a.g < r.hi
      BY <2>2, AdmittedType DEF SetBase
    <3>3. TypeOK'
      <4>1. calls' \in 0..MaxCalls
        BY <2>2, BoundsType DEF IInv, TypeOK, SetBase, Admitted
      <4> QED
        BY <2>2, <3>2, <4>1 DEF IInv, TypeOK, LocalsOK, SetBase
    <3>4. (LocalsOK /\ AnchorsOK /\ AnchoredThisSession)'
      BY <2>2 DEF IInv, LocalsOK, AnchorsOK, AnchoredThisSession, SetBase
    <3>5. \A u \in Threads : CallOK(u)'
      BY <2>2, <3>2 DEF IInv, TypeOK, LocalsOK, CallOK, SetBase
    <3> QED
      BY <3>3, <3>4, <3>5 DEF IInv
  <2>3. CASE Derive(t)
    <3>4. (LocalsOK /\ AnchorsOK /\ AnchoredThisSession)'
      BY <2>3 DEF IInv, LocalsOK, AnchorsOK, AnchoredThisSession, Derive
    <3>3. TypeOK' /\ \A u \in Threads : CallOK(u)'
      <4>1. ASSUME NEW m \in Matches, NEW chain \in MemoryMaps,
                   NEW a \in ComAnchors(m, chain, entry[t].anchor.g),
                   LET r == entry[t].range
                   IN  entry' = [entry EXCEPT
                         ![t] = [range |-> NewRange(r.label, r.lo, r.hi, a),
                                 anchor |-> a]],
                   pc' = [pc EXCEPT ![t] = "find"]
            PROVE  TypeOK' /\ \A u \in Threads : CallOK(u)'
        <5> DEFINE r == entry[t].range
                   n == NewRange(r.label, r.lo, r.hi, a)
        <5>1. r \in MapRange /\ entry[t].anchor.g \in Addresses
              /\ r.lo <= entry[t].anchor.g /\ entry[t].anchor.g < r.hi
          BY <2>3 DEF IInv, CallOK, Derive, Anchor
        <5>2. a \in Anchor /\ a.g = entry[t].anchor.g /\ a.seg \in Nat
          BY <5>1, ComAnchorType
        <5>3. n \in MapRange /\ n = NewRange(n.label, n.lo, n.hi, a)
              /\ n.lo <= a.g /\ a.g < n.hi
          <6>1. r.label \in Labels /\ r.lo \in Bounds /\ r.hi \in Bounds
            BY <5>1 DEF MapRange
          <6>2. /\ n \in MapRange
                /\ n.label = r.label /\ n.lo = r.lo /\ n.hi = r.hi
            BY <5>2, <6>1, NewRangeType
          <6> QED
            BY <5>1, <5>2, <6>2
        <5>4. TypeOK'
          BY <2>3, <4>1, <5>2, <5>3 DEF IInv, TypeOK, LocalsOK, Derive
        <5>5. \A u \in Threads : CallOK(u)'
          BY <2>3, <4>1, <5>2, <5>3 DEF IInv, TypeOK, LocalsOK, CallOK, Derive
        <5> QED
          BY <5>4, <5>5
      <4>2. CASE pc' = [pc EXCEPT ![t] = "idle"]
                 /\ entry' = [entry EXCEPT ![t] = NoEntry]
        BY <2>3, <4>2 DEF IInv, TypeOK, LocalsOK, CallOK, Derive
      <4> QED
        BY <2>3, <4>1, <4>2 DEF Derive
    <3> QED
      BY <3>3, <3>4 DEF IInv
  <2>4. CASE FindSlot(t)
    <3> DEFINE same == {i \in DOMAIN ranges :
                         ranges[i].label = entry[t].range.label}
    <3>1. same # {} => FirstIndex(same) \in same
      <4>1. Len(ranges) \in Nat /\ same \in SUBSET (1..Len(ranges))
        BY DEF IInv, TypeOK
      <4> QED
        BY <4>1, FirstIsLeast
    <3>2. slot' = [slot EXCEPT ![t] = slot'[t]] /\ slot'[t] \in 0..Len(ranges)
      BY <2>4, <3>1 DEF IInv, TypeOK, LocalsOK, FindSlot
    <3>3. TypeOK'
      BY <2>4, <3>2 DEF IInv, TypeOK, LocalsOK, FindSlot, CallOK
    <3>4. (LocalsOK /\ AnchorsOK /\ AnchoredThisSession)'
      BY <2>4 DEF IInv, LocalsOK, AnchorsOK, AnchoredThisSession, FindSlot
    <3>5. \A u \in Threads : CallOK(u)'
      BY <2>4 DEF IInv, TypeOK, LocalsOK, CallOK, FindSlot
    <3> QED
      BY <3>3, <3>4, <3>5 DEF IInv
  <2>5. CASE Store(t)
    <3> DEFINE r == entry[t].range
               a == entry[t].anchor
    <3>1. r \in MapRange /\ a \in Anchor /\ r.label \in Labels
      BY <2>5 DEF IInv, CallOK, Store, MapRange
    <3>2. /\ ranges' \in Seq(MapRange) /\ Len(ranges) <= Len(ranges')
          /\ \A i \in DOMAIN ranges' :
               ranges'[i] = r \/ (i \in DOMAIN ranges /\ ranges'[i] = ranges[i])
      BY <2>5, <3>1 DEF IInv, TypeOK, Store
    <3>3. TypeOK'
      BY <2>5, <3>1, <3>2 DEF IInv, TypeOK, LocalsOK, Store
    <3>4. (LocalsOK /\ AnchorsOK)'
      BY <2>5, <3>1 DEF IInv, LocalsOK, AnchorsOK, Store
    <3>5. AnchoredThisSession'
      BY <2>5, <3>2 DEF IInv, AnchoredThisSession, Store
    <3>6. \A u \in Threads : CallOK(u)'
      BY <2>5 DEF IInv, TypeOK, LocalsOK, CallOK, Store
    <3> QED
      BY <3>3, <3>4, <3>5, <3>6 DEF IInv
  <2>6. CASE Save(t)
    <3>1. [i \in DOMAIN ranges |-> Persisted(ranges[i])] \in Seq(Saved)
      <4>1. \A r \in MapRange : Persisted(r) \in Saved
        BY DEF Persisted, MapRange, Saved
      <4> QED
        BY <4>1 DEF IInv, TypeOK
    <3>3. TypeOK'
      BY <2>6, <3>1 DEF IInv, TypeOK, LocalsOK, Save
    <3>4. (LocalsOK /\ AnchorsOK /\ AnchoredThisSession)'
      BY <2>6 DEF IInv, LocalsOK, AnchorsOK, AnchoredThisSession, Save
    <3>5. \A u \in Threads : CallOK(u)'
      BY <2>6 DEF IInv, TypeOK, LocalsOK, CallOK, Save
    <3> QED
      BY <3>3, <3>4, <3>5 DEF IInv
  <2>7. CASE Replace(t) \/ SaveFails(t)
    <3>1. <<>> \in Seq(Saved) /\ text[t] \in Seq(Saved)
      BY DEF IInv, TypeOK
    <3>3. TypeOK'
      BY <2>7, <3>1 DEF IInv, TypeOK, LocalsOK, Replace, SaveFails
    <3>4. (LocalsOK /\ AnchorsOK /\ AnchoredThisSession)'
      BY <2>7 DEF IInv, LocalsOK, AnchorsOK, AnchoredThisSession, Replace,
         SaveFails
    <3>5. \A u \in Threads : CallOK(u)'
      BY ZenonT(60), <2>7 DEF IInv, TypeOK, LocalsOK, CallOK, Replace,
         SaveFails
    <3> QED
      BY <3>3, <3>4, <3>5 DEF IInv
  <2> QED
    BY <1>1, <2>1, <2>2, <2>3, <2>4, <2>5, <2>6, <2>7 DEF StepOf, Begin
<1>2. CASE Restart
  <2>1. ranges' \in Seq(MapRange)
        /\ \A i \in DOMAIN ranges' : ranges'[i].seg = Null
    BY <1>2, LoadedAreSound DEF IInv, TypeOK, Restart
  <2>2. Len(ranges') \in Nat /\ <<>> \in Seq(Saved) /\ DOMAIN anchors' = {}
    BY <1>2, <2>1 DEF Restart
  <2>3. TypeOK'
    <3>1. /\ file' \in Seq(Saved)
          /\ pc' = [t \in Threads |-> "idle"] /\ slot' = [t \in Threads |-> 0]
          /\ text' = [t \in Threads |-> <<>>]
          /\ calls' \in 0..MaxCalls /\ unsaved' = FALSE
      BY <1>2 DEF IInv, TypeOK, Restart
    <3>2. restarts' \in 0..MaxRestarts
      BY <1>2, BoundsType DEF IInv, TypeOK, Restart
    <3> QED
      <4>1. \A t \in Threads :
              /\ pc'[t] = "idle" /\ text'[t] = <<>>
              /\ slot'[t] \in 0..Len(ranges')
        BY <2>2, <3>1
      <4>2. DOMAIN anchors' \subseteq Labels
        BY <2>2
      <4>3. /\ pc' \in [Threads -> {"idle", "derive", "find", "store", "save",
                                    "replace"}]
            /\ unsaved' \in BOOLEAN
        BY <3>1
      <4> QED
        BY ONLY <2>1, <2>2, <3>1, <3>2, <4>1, <4>2, <4>3 DEF TypeOK
  <2>4. (LocalsOK /\ AnchorsOK)'
    BY <1>2, <2>2 DEF LocalsOK, AnchorsOK, Restart
  <2>5. AnchoredThisSession'
    BY <2>1 DEF AnchoredThisSession
  <2>6. \A u \in Threads : CallOK(u)'
    BY <1>2 DEF CallOK, Restart
  <2> QED
    BY <2>3, <2>4, <2>5, <2>6 DEF IInv
<1>3. CASE UNCHANGED vars
  BY <1>3 DEF IInv, TypeOK, LocalsOK, AnchorsOK, CallOK, AnchoredThisSession,
     vars
<1> QED
  BY <1>1, <1>2, <1>3, StepIsStepOf DEF Next, Finished

-----------------------------------------------------------------------------
\* Any number of callers

\* The inductive invariant holds in every state.
THEOREM Invariance == Spec => []IInv
<1>1. Init => IInv
  BY InvInit
<1>2. IInv /\ [Next]_vars => IInv'
  BY InvStep
<1> QED
  BY <1>1, <1>2, PTL DEF Spec

\* The types are right whatever the file held at first.
THEOREM TypeCorrect == Spec => []TypeOK
<1>1. IInv => TypeOK
  BY DEF IInv
<1> QED
  BY <1>1, Invariance, PTL

\* A range answers only after this process has anchored it: what an earlier
\* process saved is without a segment until then, and no interleaving of calls
\* and restarts gives it one (_load_ranges, _upsert_range).
THEOREM OnlyAnchoredAnswer == Spec => []AnchoredThisSession
<1>1. IInv => AnchoredThisSession
  BY DEF IInv
<1> QED
  BY <1>1, Invariance, PTL

\* Whatever the engine reports to debug_map_auto, an anchor it takes lies on
\* the byte found, in code of a self-owned block: for every memory map, for
\* any sizes of paragraph and PSP.
THEOREM AutoAnchorIsSound == Spec => []AutoAnchorSound
<1>1. IInv => AutoAnchorSound
  <2> SUFFICES ASSUME IInv, NEW t \in Threads, NEW m \in Matches,
                      NEW chain \in MemoryMaps, pc[t] = "derive",
                      NEW a \in ComAnchors(m, chain, entry[t].anchor.g)
               PROVE  /\ a.seg * Para + a.off = m
                      /\ \E i \in DOMAIN chain :
                           /\ chain[i].psp = chain[i].segment + 1
                           /\ m < chain[i].psp * Para + chain[i].size
                           /\ m >= (chain[i].psp + ComPara) * Para
    BY DEF AutoAnchorSound
  <2>1. entry[t].anchor.g \in Addresses
    BY DEF IInv, CallOK, Anchor
  <2> QED
    BY <2>1, ComAnchorType
<1> QED
  BY <1>1, Invariance, PTL

\* A translation and the translation of its result agree, whatever ranges
\* overlap: debug_map_to_live and debug_map_to_ghidra read the same deltas.
THEOREM TranslationsAgree == Spec => []TranslatesBack
<1>1. IInv => TranslatesBack
  <2> SUFFICES ASSUME IInv, NEW g \in Addresses, NEW live \in ToLive(g)
               PROVE  LET back == Matching(live.seg, live.off)
                      IN  /\ FirstIndex(Covering(g)) \in back
                          /\ Cardinality(back) = 1 =>
                               ToGhidra(live.seg, live.off) = {g}
    BY DEF TranslatesBack
  <2> DEFINE i    == FirstIndex(Covering(g))
             back == Matching(live.seg, live.off)
  <2>1. Len(ranges) \in Nat /\ ranges \in Seq(MapRange)
        /\ DOMAIN ranges = 1..Len(ranges)
    BY DEF IInv, TypeOK
  <2>2. /\ Covering(g) # {}
        /\ live = [seg |-> ranges[i].seg, off |-> g - ranges[i].delta]
    BY DEF ToLive
  <2>3. i \in Covering(g)
    <3>1. Covering(g) \in SUBSET (1..Len(ranges))
      BY <2>1 DEF Covering
    <3> QED
      BY <2>1, <2>2, <3>1, FirstIsLeast
  <2>4. i \in DOMAIN ranges /\ ranges[i].lo <= g /\ g < ranges[i].hi
    BY <2>3 DEF Covering
  <2>5. live.off + ranges[i].delta = g
    <3>1. ranges[i].delta \in Int /\ g \in Int
      <4>1. ranges[i] \in MapRange
        BY <2>1, <2>4
      <4> QED
        BY <4>1, BoundsType DEF MapRange, Deltas, Addresses
    <3> QED
      BY <2>2, <3>1
  <2> HIDE DEF i
  <2>6. i \in back
    BY <2>2, <2>4, <2>5 DEF Matching
  <2>7. ASSUME Cardinality(back) = 1
        PROVE  ToGhidra(live.seg, live.off) = {g}
    <3>1. back \in SUBSET (1..Len(ranges))
      BY <2>1 DEF Matching
    <3>2. IsFiniteSet(back)
      BY <2>1, <3>1, PositionsFinite
    <3> HIDE DEF back
    <3>3. back = {i}
      BY <2>6, <2>7, <3>2, FS_Singleton
    <3>4. FirstIndex(back) = i
      BY <2>1, <3>1, <3>3, FirstIsLeast
    <3> QED
      BY <2>5, <3>3, <3>4 DEF ToGhidra, back
  <2> QED
    BY <2>6, <2>7 DEF i
<1> QED
  BY <1>1, Invariance, PTL

-----------------------------------------------------------------------------
\* One caller at a time

\* A call begins with an entry that fits between the ranges of other labels.
LEMMA BeginFits ==
  ASSUME IInv, NEW t \in Threads, Begin(t)
  PROVE  /\ pc[t] = "idle" /\ pc'[t] \in {"derive", "find"}
         /\ UNCHANGED <<ranges, file, unsaved, anchors>>
         /\ ~Clashes(entry'[t].range.lo, entry'[t].range.hi,
                     entry'[t].range.label)
<1>1. t \in DOMAIN pc /\ t \in DOMAIN entry
  BY DEF IInv, TypeOK, LocalsOK
<1>2. ASSUME NEW label \in Labels, NEW lo \in Addresses,
             NEW hi \in 1..(LastAddress + 1), NEW a,
             Admitted(t, label, lo, hi, a.g),
             entry' = [entry EXCEPT
               ![t] = [range |-> NewRange(label, lo, hi, a), anchor |-> a]]
      PROVE  /\ pc[t] = "idle"
             /\ ~Clashes(entry'[t].range.lo, entry'[t].range.hi,
                         entry'[t].range.label)
  BY <1>1, <1>2 DEF Admitted, NewRange
<1>3. ASSUME NEW label \in Labels, NEW lo \in Addresses,
             NEW hi \in 1..(LastAddress + 1), NEW g \in Addresses,
             MapAuto(t, label, lo, hi, g)
      PROVE  /\ pc[t] = "idle" /\ pc'[t] \in {"derive", "find"}
             /\ UNCHANGED <<ranges, file, unsaved, anchors>>
             /\ ~Clashes(entry'[t].range.lo, entry'[t].range.hi,
                         entry'[t].range.label)
  <2> DEFINE a == [g |-> g, seg |-> Null, off |-> 0]
  <2>1. /\ Admitted(t, label, lo, hi, a.g)
        /\ entry' = [entry EXCEPT
             ![t] = [range |-> NewRange(label, lo, hi, a), anchor |-> a]]
        /\ pc'[t] = "derive" /\ UNCHANGED <<ranges, file, unsaved, anchors>>
    BY <1>1, <1>3 DEF MapAuto, Goto
  <2> QED
    BY <1>2, <2>1
<1>4. ASSUME NEW label \in Labels, NEW lo \in Addresses,
             NEW hi \in 1..(LastAddress + 1), NEW a \in Anchor,
             SetBase(t, label, lo, hi, a)
      PROVE  /\ pc[t] = "idle" /\ pc'[t] \in {"derive", "find"}
             /\ UNCHANGED <<ranges, file, unsaved, anchors>>
             /\ ~Clashes(entry'[t].range.lo, entry'[t].range.hi,
                         entry'[t].range.label)
  BY <1>1, <1>2, <1>4 DEF SetBase, Goto
<1> QED
  BY <1>3, <1>4 DEF Begin

\* The position at which a call puts its entry in is the only one with its
\* label, and all others keep their range.
LEMMA StoredAt ==
  ASSUME OneCaller, SoleInv, NEW t \in Threads, Store(t)
  PROVE  \E k \in Nat :
           /\ DOMAIN ranges' = DOMAIN ranges \cup {k}
           /\ ranges'[k] = entry[t].range
           /\ \A i \in DOMAIN ranges :
                IF i = k THEN ranges[i].label = entry[t].range.label
                ELSE /\ ranges'[i] = ranges[i]
                     /\ ranges[i].label # entry[t].range.label
<1>1. /\ Len(ranges) \in Nat /\ ranges \in Seq(MapRange)
      /\ DOMAIN ranges = 1..Len(ranges)
      /\ slot[t] \in 0..Len(ranges)
      /\ SlotOK(t) /\ UniqueLabels
  BY DEF SoleInv, IInv, TypeOK
<1>2. CASE slot[t] = 0
  <2> DEFINE k == Len(ranges) + 1
  <2>1. ranges' = Append(ranges, entry[t].range)
    BY <1>2 DEF Store
  <2>2. DOMAIN ranges' = DOMAIN ranges \cup {k} /\ ranges'[k] = entry[t].range
        /\ \A i \in DOMAIN ranges : ranges'[i] = ranges[i]
    BY <1>1, <2>1
  <2> QED
    BY <1>1, <1>2, <2>2 DEF SlotOK, Store
<1>3. CASE slot[t] # 0
  <2> DEFINE k == slot[t]
  <2>1. ranges' = [ranges EXCEPT ![k] = entry[t].range]
    BY <1>3 DEF Store
  <2>2. k \in DOMAIN ranges /\ ranges[k].label = entry[t].range.label
    BY <1>1, <1>3 DEF SlotOK, Store
  <2>3. DOMAIN ranges' = DOMAIN ranges /\ ranges'[k] = entry[t].range
        /\ \A i \in DOMAIN ranges : i # k => ranges'[i] = ranges[i]
    BY <2>1, <2>2
  <2> QED
    BY <1>1, <2>2, <2>3 DEF UniqueLabels
<1> QED
  BY <1>2, <1>3

\* What is loaded from a file is what is saved of it, without segments.
LEMMA LoadedAsSaved ==
  ASSUME NEW f \in Seq(Saved)
  PROVE  LET r == LoadRanges(f)
         IN  r = [i \in DOMAIN r |-> Unanchored(Persisted(r[i]))]
<1> DEFINE r == LoadRanges(f)
<1>1. /\ r \in Seq(MapRange)
      /\ \A i \in DOMAIN r : r[i].seg = Null
  BY LoadedAreSound
<1>2. \A m \in MapRange : m.seg = Null => Unanchored(Persisted(m)) = m
  BY DEF MapRange, Unanchored, Persisted
<1> HIDE DEF r
<1>3. \A i \in DOMAIN r : Unanchored(Persisted(r[i])) = r[i]
  BY <1>1, <1>2
<1>4. r = [i \in DOMAIN r |-> r[i]]
  BY <1>1
<1> QED
  BY <1>3, <1>4 DEF r

\* A process starts with what its file holds.
LEMMA SoleInit == Init => SoleInv
<1> SUFFICES ASSUME Init
             PROVE  SoleInv
  OBVIOUS
<1>1. file \in Seq(Saved) /\ ranges = LoadRanges(file)
  BY GhidraMapAssumption DEF Init
<1>2. UniqueLabels
  BY <1>1, LoadedAreSound DEF UniqueLabels
<1>3. ranges = [i \in DOMAIN ranges |-> Unanchored(AsSaved[i])]
  BY <1>1, LoadedAsSaved DEF AsSaved
<1>4. \A t \in Threads : SlotOK(t) /\ FileOK(t)
  BY <1>1, <1>3 DEF Init, SlotOK, FileOK
<1> QED
  BY <1>2, <1>4, InvInit DEF SoleInv

\* With one caller every step keeps list, position and file together.
LEMMA SoleStep ==
  ASSUME OneCaller, SoleInv, [Next]_vars
  PROVE  SoleInv'
<1> USE DEF Goto
<1>1. IInv /\ IInv'
  BY InvStep DEF SoleInv
<1>2. ASSUME NEW t \in Threads, StepOf(t)
      PROVE  (UniqueLabels /\ SlotOK(t) /\ FileOK(t))'
  <2>1. UniqueLabels /\ SlotOK(t) /\ FileOK(t)
    BY DEF SoleInv
  <2>2. t \in DOMAIN pc /\ t \in DOMAIN slot /\ t \in DOMAIN text
    BY <1>1 DEF IInv, TypeOK, LocalsOK
  <2>3. CASE Begin(t)
    <3>1. /\ pc[t] = "idle" /\ pc'[t] \in {"derive", "find"}
          /\ UNCHANGED <<ranges, file, unsaved>>
      BY <1>1, <2>3, BeginFits
    <3> QED
      BY <2>1, <3>1 DEF UniqueLabels, SlotOK, FileOK, AsSaved
  <2>4. CASE Derive(t)
    <3>1. /\ pc[t] = "derive" /\ pc'[t] \in {"idle", "find"}
          /\ UNCHANGED <<ranges, file, unsaved>>
      BY <2>2, <2>4 DEF Derive
    <3> QED
      BY <2>1, <3>1 DEF UniqueLabels, SlotOK, FileOK, AsSaved
  <2>5. CASE FindSlot(t)
    <3> DEFINE same == {i \in DOMAIN ranges :
                         ranges[i].label = entry[t].range.label}
    <3>1. same # {} => FirstIndex(same) \in same
      <4>1. Len(ranges) \in Nat /\ same \in SUBSET (1..Len(ranges))
        BY <1>1 DEF IInv, TypeOK
      <4> QED
        BY <4>1, FirstIsLeast
    <3>2. slot'[t] = IF same = {} THEN 0 ELSE FirstIndex(same)
      BY <2>2, <2>5 DEF FindSlot
    <3>3. 0 \notin DOMAIN ranges
      BY <1>1 DEF IInv, TypeOK
    <3>4. SlotOK(t)'
      BY <2>5, <3>1, <3>2, <3>3 DEF SlotOK, FindSlot
    <3>5. /\ pc[t] = "find" /\ pc'[t] = "store"
          /\ UNCHANGED <<ranges, file, unsaved>>
      BY <2>2, <2>5 DEF FindSlot
    <3> QED
      BY <2>1, <3>4, <3>5 DEF UniqueLabels, FileOK, AsSaved
  <2>6. CASE Store(t)
    <3>1. PICK k \in Nat :
           /\ DOMAIN ranges' = DOMAIN ranges \cup {k}
           /\ ranges'[k] = entry[t].range
           /\ \A i \in DOMAIN ranges :
                IF i = k THEN ranges[i].label = entry[t].range.label
                ELSE /\ ranges'[i] = ranges[i]
                     /\ ranges[i].label # entry[t].range.label
      BY <2>6, StoredAt
    <3>2. pc'[t] = "save"
      BY <2>2, <2>6 DEF Store
    <3> QED
      BY <2>1, <3>1, <3>2 DEF UniqueLabels, SlotOK, FileOK
  <2>7. CASE Save(t)
    <3>1. pc'[t] = "replace" /\ text'[t] = AsSaved /\ ranges' = ranges
      BY <2>2, <2>7 DEF Save, AsSaved
    <3> QED
      BY <2>1, <3>1 DEF UniqueLabels, SlotOK, FileOK, AsSaved
  <2>8. CASE Replace(t)
    <3>1. /\ pc'[t] = "idle" /\ file' = AsSaved /\ ranges' = ranges
      BY <2>1, <2>2, <2>8 DEF Replace, FileOK
    <3>2. LoadRanges(AsSaved) = [i \in DOMAIN ranges |-> Unanchored(AsSaved[i])]
      BY <1>1, <2>1, SavedComesBack DEF IInv, TypeOK, UniqueLabels, AsSaved
    <3> QED
      BY <2>1, <3>1, <3>2 DEF UniqueLabels, SlotOK, FileOK, AsSaved
  <2>9. CASE SaveFails(t)
    <3>1. pc'[t] = "idle" /\ unsaved' /\ ranges' = ranges
      BY <2>2, <2>9 DEF SaveFails
    <3> QED
      BY <2>1, <3>1 DEF UniqueLabels, SlotOK, FileOK
  <2> QED
    BY <1>2, <2>3, <2>4, <2>5, <2>6, <2>7, <2>8, <2>9 DEF StepOf
<1>3. CASE \E t \in Threads : Step(t)
  <2>1. PICK t \in Threads : StepOf(t)
    BY <1>3, StepIsStepOf
  <2>2. \A u \in Threads : u = t
    BY DEF OneCaller
  <2> QED
    BY <1>1, <1>2, <2>1, <2>2 DEF SoleInv
<1>4. CASE Restart
  <2>1. file \in Seq(Saved) /\ ranges' = LoadRanges(file) /\ file' = file
    BY <1>1, <1>4 DEF IInv, TypeOK, Restart
  <2>2. UniqueLabels'
    BY <2>1, LoadedAreSound DEF UniqueLabels
  <2>3. (ranges = [i \in DOMAIN ranges |-> Unanchored(AsSaved[i])])'
    BY <2>1, LoadedAsSaved DEF AsSaved
  <2>4. \A t \in Threads : (SlotOK(t) /\ FileOK(t))'
    BY <1>4, <2>1, <2>3 DEF Restart, SlotOK, FileOK
  <2> QED
    BY <1>1, <2>2, <2>4 DEF SoleInv
<1>5. CASE UNCHANGED vars
  BY <1>1, <1>5 DEF SoleInv, UniqueLabels, SlotOK, FileOK, AsSaved, vars
<1> QED
  BY <1>3, <1>4, <1>5 DEF Next, Finished

\* The files found at first were written by this program, or edited with care:
\* the loader does not look for spans that overlap.
FilesDisjoint == \A f \in InitialFiles : FileDisjoint(f)

\* The ranges of the first process are disjoint if its file is.
LEMMA SpanInit ==
  ASSUME FilesDisjoint, Init
  PROVE  SpanInv
<1>1. /\ file \in Seq(Saved) /\ ranges = LoadRanges(file)
      /\ FileDisjoint(file)
  BY GhidraMapAssumption DEF Init, FilesDisjoint
<1>2. NoOverlap
  BY <1>1, LoadedAreSound DEF NoOverlap
<1>3. DOMAIN anchors = {}
  BY DEF Init
<1>4. \A t \in Threads : EntryFits(t)
  BY DEF Init, EntryFits
<1> QED
  BY <1>1, <1>2, <1>3, <1>4, SoleInit DEF SpanInv

\* Putting an entry in keeps the list disjoint and each label at its anchor.
LEMMA StoreKeepsSpans ==
  ASSUME OneCaller, SpanInv, NEW t \in Threads, Store(t)
  PROVE  NoOverlap' /\ \A l \in DOMAIN anchors' : AnchorOf(l)'
<1> DEFINE r == entry[t].range
           a == entry[t].anchor
<1>1. PICK k \in Nat :
        /\ DOMAIN ranges' = DOMAIN ranges \cup {k}
        /\ ranges'[k] = r
        /\ \A i \in DOMAIN ranges :
             IF i = k THEN ranges[i].label = r.label
             ELSE /\ ranges'[i] = ranges[i]
                  /\ ranges[i].label # r.label
  BY StoredAt DEF SpanInv
<1>2. /\ r = NewRange(r.label, r.lo, r.hi, a)
      /\ r.lo <= a.g /\ a.g < r.hi /\ a.seg \in Nat
  BY DEF SpanInv, SoleInv, IInv, CallOK, Store
<1>3. ~Clashes(r.lo, r.hi, r.label)
  BY DEF SpanInv, EntryFits, Store
<1>4. NoOverlap /\ \A l \in DOMAIN anchors : AnchorOf(l)
  BY DEF SpanInv
<1>5. /\ DOMAIN anchors' = DOMAIN anchors \cup {r.label}
      /\ anchors'[r.label] = a
      /\ \A l \in DOMAIN anchors : l # r.label => anchors'[l] = anchors[l]
  BY DEF Store
<1> HIDE DEF r, a
<1>6. NoOverlap'
  <2> SUFFICES ASSUME NEW i \in DOMAIN ranges', NEW j \in DOMAIN ranges', i # j
               PROVE  /\ ranges'[i].label # ranges'[j].label
                      /\ ~(/\ ranges'[i].lo < ranges'[j].hi
                           /\ ranges'[j].lo < ranges'[i].hi)
    BY DEF NoOverlap, Overlaps
  <2>1. CASE i = k
    BY <1>1, <1>3, <2>1 DEF Clashes, Overlaps
  <2>2. CASE j = k
    BY <1>1, <1>3, <2>2 DEF Clashes, Overlaps
  <2>3. CASE i # k /\ j # k
    BY <1>1, <1>4, <2>3 DEF NoOverlap, Overlaps
  <2> QED
    BY <2>1, <2>2, <2>3
<1>7. ASSUME NEW l \in DOMAIN anchors'
      PROVE  AnchorOf(l)'
  <2>1. CASE l = r.label
    <3>1. /\ ranges'[k].label = l
          /\ ranges'[k].lo <= anchors'[l].g /\ anchors'[l].g < ranges'[k].hi
          /\ anchors'[l].seg \in Nat
          /\ ranges'[k].delta = anchors'[l].g - anchors'[l].off
          /\ ranges'[k].seg = anchors'[l].seg
      BY <1>1, <1>2, <1>5, <2>1 DEF NewRange
    <3> QED
      BY <1>1, <3>1 DEF AnchorOf
  <2>2. CASE l # r.label
    <3>1. l \in DOMAIN anchors /\ AnchorOf(l) /\ anchors'[l] = anchors[l]
      BY <1>4, <1>5, <2>2
    <3>2. PICK i \in DOMAIN ranges :
            /\ ranges[i].label = l
            /\ ranges[i].lo <= anchors[l].g /\ anchors[l].g < ranges[i].hi
            /\ anchors[l].seg \in Nat
            /\ ranges[i].delta = anchors[l].g - anchors[l].off
            /\ ranges[i].seg = anchors[l].seg
      BY <3>1 DEF AnchorOf
    <3>3. i \in DOMAIN ranges' /\ ranges'[i] = ranges[i]
      <4>1. CASE i # k
        BY <1>1, <4>1
      <4>2. CASE i = k
        BY <1>1, <2>2, <3>2, <4>2
      <4> QED
        BY <4>1, <4>2
    <3> QED
      BY <3>1, <3>2, <3>3 DEF AnchorOf
  <2> QED
    BY <2>1, <2>2
<1> QED
  BY <1>6, <1>7

\* With one caller every step keeps the spans disjoint.
LEMMA SpanStep ==
  ASSUME OneCaller, SpanInv, [Next]_vars
  PROVE  SpanInv'
<1> USE DEF Goto
<1>1. SoleInv /\ SoleInv' /\ IInv
  BY SoleStep DEF SpanInv, SoleInv
<1>2. ASSUME NEW t \in Threads, StepOf(t)
      PROVE  /\ (NoOverlap /\ FileDisjoint(file) /\ EntryFits(t))'
             /\ \A l \in DOMAIN anchors' : AnchorOf(l)'
  <2>1. /\ NoOverlap /\ FileDisjoint(file) /\ EntryFits(t)
        /\ \A l \in DOMAIN anchors : AnchorOf(l)
    BY DEF SpanInv
  <2>2. t \in DOMAIN pc /\ t \in DOMAIN entry
    BY <1>1 DEF IInv, TypeOK, LocalsOK
  <2>3. CASE Begin(t)
    BY <1>1, <2>1, <2>3, BeginFits DEF NoOverlap, EntryFits, Clashes, AnchorOf
  <2>4. CASE Derive(t)
    <3>1. /\ pc[t] = "derive" /\ UNCHANGED <<ranges, file, anchors>>
      BY <2>4 DEF Derive
    <3>2. \/ pc'[t] = "idle"
          \/ /\ entry'[t].range.lo = entry[t].range.lo
             /\ entry'[t].range.hi = entry[t].range.hi
             /\ entry'[t].range.label = entry[t].range.label
      BY <2>2, <2>4 DEF Derive, NewRange
    <3> QED
      BY <2>1, <3>1, <3>2 DEF NoOverlap, EntryFits, Clashes, AnchorOf
  <2>5. CASE FindSlot(t)
    BY <2>1, <2>2, <2>5 DEF FindSlot, NoOverlap, EntryFits, Clashes, AnchorOf
  <2>6. CASE Store(t)
    <3>1. pc'[t] = "save" /\ file' = file
      BY <2>2, <2>6 DEF Store
    <3> QED
      BY <2>1, <2>6, <3>1, StoreKeepsSpans DEF EntryFits
  <2>7. CASE Save(t)
    BY <2>1, <2>2, <2>7 DEF Save, NoOverlap, EntryFits, AnchorOf
  <2>8. CASE Replace(t)
    <3>1. /\ pc'[t] = "idle" /\ file' = AsSaved
          /\ UNCHANGED <<ranges, anchors>>
      BY <1>1, <2>2, <2>8 DEF Replace, SoleInv, FileOK
    <3>2. Loadable(AsSaved) = DOMAIN ranges
      BY <1>1, SavedComesBack DEF SoleInv, IInv, TypeOK, UniqueLabels, AsSaved
    <3>3. \A i \in DOMAIN ranges :
            AsSaved[i].lo = ranges[i].lo /\ AsSaved[i].hi = ranges[i].hi
      BY DEF AsSaved, Persisted
    <3>4. FileDisjoint(AsSaved)
      BY <2>1, <3>2, <3>3 DEF FileDisjoint, NoOverlap, Overlaps
    <3> QED
      BY <2>1, <3>1, <3>4 DEF NoOverlap, EntryFits, AnchorOf
  <2>9. CASE SaveFails(t)
    BY <2>1, <2>2, <2>9 DEF SaveFails, NoOverlap, EntryFits, AnchorOf
  <2> QED
    BY <1>2, <2>3, <2>4, <2>5, <2>6, <2>7, <2>8, <2>9 DEF StepOf
<1>3. CASE \E t \in Threads : Step(t)
  <2>1. PICK t \in Threads : StepOf(t)
    BY <1>3, StepIsStepOf
  <2>2. \A u \in Threads : u = t
    BY DEF OneCaller
  <2> QED
    BY <1>1, <1>2, <2>1, <2>2 DEF SpanInv
<1>4. CASE Restart
  <2>1. /\ file \in Seq(Saved) /\ ranges' = LoadRanges(file) /\ file' = file
        /\ FileDisjoint(file)
    BY <1>1, <1>4 DEF SpanInv, IInv, TypeOK, Restart
  <2>2. NoOverlap'
    BY <2>1, LoadedAreSound DEF NoOverlap
  <2>3. DOMAIN anchors' = {}
    BY <1>4 DEF Restart
  <2>4. \A t \in Threads : EntryFits(t)'
    BY <1>4 DEF Restart, EntryFits
  <2> QED
    BY <1>1, <2>1, <2>2, <2>3, <2>4 DEF SpanInv
<1>5. CASE UNCHANGED vars
  BY <1>1, <1>5
     DEF SpanInv, NoOverlap, EntryFits, Clashes, AnchorOf, vars
<1> QED
  BY <1>3, <1>4, <1>5 DEF Next, Finished

-----------------------------------------------------------------------------

\* With one caller at a time a process that ends between calls leaves the next
\* one what it had, wherever in a call earlier ones ended and whatever the file
\* held at first, unless its last save failed.
THEOREM RestartKeepsRanges ==
  ASSUME OneCaller
  PROVE  Spec => []NothingLostByRestart
<1>1. SoleInv => NothingLostByRestart
  <2> SUFFICES ASSUME SoleInv, ~unsaved, \A t \in Threads : pc[t] = "idle"
               PROVE  LoadRanges(file) =
                        [i \in DOMAIN ranges |-> Unanchored(Persisted(ranges[i]))]
    BY DEF NothingLostByRestart
  <2> PICK t \in Threads : TRUE
    BY DEF OneCaller
  <2>1. LoadRanges(file) = [i \in DOMAIN ranges |-> Unanchored(AsSaved[i])]
    BY DEF SoleInv, FileOK
  <2> QED
    BY <2>1 DEF AsSaved
<1>2. Init => SoleInv
  BY SoleInit
<1>3. SoleInv /\ [Next]_vars => SoleInv'
  BY OneCaller, SoleStep
<1> QED
  BY <1>1, <1>2, <1>3, PTL DEF Spec

\* So both hold in every state.
LEMMA SpanInvariance ==
  ASSUME OneCaller, FilesDisjoint
  PROVE  Spec => []SpanInv
<1>1. Init => SpanInv
  BY FilesDisjoint, SpanInit
<1>2. SpanInv /\ [Next]_vars => SpanInv'
  BY OneCaller, SpanStep
<1> QED
  BY <1>1, <1>2, PTL DEF Spec

\* With one caller at a time, and files that hold disjoint spans, no Ghidra
\* address is in two ranges: the check before an entry is still good when it is
\* put in, and what is saved and loaded is as disjoint as the list.
THEOREM RangesDisjoint ==
  ASSUME OneCaller, FilesDisjoint
  PROVE  Spec => []NoOverlap
<1>1. SpanInv => NoOverlap
  BY DEF SpanInv
<1> QED
  BY <1>1, SpanInvariance, PTL

\* Then each label that was anchored still translates its anchor to the live
\* address it was anchored to.
THEOREM AnchorsTranslate ==
  ASSUME OneCaller, FilesDisjoint
  PROVE  Spec => []AnchorTranslates
<1>1. SpanInv => AnchorTranslates
  <2> SUFFICES ASSUME SpanInv, NEW l \in DOMAIN anchors
               PROVE  ToLive(anchors[l].g) =
                        {[seg |-> anchors[l].seg, off |-> anchors[l].off]}
    BY DEF AnchorTranslates
  <2> DEFINE a == anchors[l]
  <2>1. PICK i \in DOMAIN ranges :
          /\ ranges[i].lo <= a.g /\ a.g < ranges[i].hi
          /\ a.seg \in Nat
          /\ ranges[i].delta = a.g - a.off
          /\ ranges[i].seg = a.seg
    BY DEF SpanInv, AnchorOf
  <2>2. /\ Len(ranges) \in Nat /\ DOMAIN ranges = 1..Len(ranges)
        /\ \A j \in DOMAIN ranges : ranges[j] \in MapRange
    BY DEF SpanInv, SoleInv, IInv, TypeOK
  <2>3. a.g \in Nat /\ a.off \in Offsets /\ a.off \in Int
    BY BoundsType
       DEF SpanInv, SoleInv, IInv, AnchorsOK, Anchor, Addresses, Offsets
  <2>4. Covering(a.g) = {i}
    <3>1. i \in Covering(a.g)
      BY <2>1 DEF Covering
    <3>2. ASSUME NEW j \in Covering(a.g), j # i
          PROVE  FALSE
      <4>1. /\ j \in DOMAIN ranges /\ ranges[j].lo <= a.g
            /\ a.g < ranges[j].hi
        BY DEF Covering
      <4>2. /\ ranges[i].lo \in Int /\ ranges[i].hi \in Int
            /\ ranges[j].lo \in Int /\ ranges[j].hi \in Int
        BY <2>2, <4>1, BoundsType DEF MapRange, Bounds
      <4>3. ranges[i].lo < ranges[j].hi /\ ranges[j].lo < ranges[i].hi
        BY <2>1, <2>3, <4>1, <4>2
      <4> QED
        BY <3>2, <4>1, <4>3 DEF SpanInv, NoOverlap, Overlaps
    <3> QED
      BY <3>1, <3>2
  <2>5. FirstIndex(Covering(a.g)) = i
    BY ZenonT(60), <2>2, <2>4, FirstIsLeast
  <2>6. a.g - ranges[i].delta = a.off
    BY <2>1, <2>3
  <2>7. ranges[i].seg # Null
    BY <2>1 DEF Null
  <2> HIDE DEF a
  <2>8. ToLive(a.g) = {[seg |-> a.seg, off |-> a.off]}
    BY <2>1, <2>3, <2>4, <2>5, <2>6, <2>7 DEF ToLive
  <2> QED
    BY <2>8 DEF a
<1> QED
  BY <1>1, SpanInvariance, PTL

-----------------------------------------------------------------------------
\* The abstract map

\* Ranges in a list without overlaps are disjoint as a set.
LEMMA ListedDisjoint ==
  ASSUME NEW r \in Seq(MapRange),
         \A i, j \in DOMAIN r :
           i # j => /\ r[i].label # r[j].label
                    /\ ~Overlaps(r[i].lo, r[i].hi, r[j])
  PROVE  \A p, q \in Content(r) :
           p # q => p.label # q.label /\ (p.hi <= q.lo \/ q.hi <= p.lo)
<1> SUFFICES ASSUME NEW p \in Content(r), NEW q \in Content(r), p # q
             PROVE  p.label # q.label /\ (p.hi <= q.lo \/ q.hi <= p.lo)
  OBVIOUS
<1>1. PICK i \in DOMAIN r : p = r[i]
  BY DEF Content
<1>2. PICK j \in DOMAIN r : q = r[j]
  BY DEF Content
<1>3. i # j
  BY <1>1, <1>2
<1>4. p.label # q.label /\ ~(p.lo < q.hi /\ q.lo < p.hi)
  BY <1>1, <1>2, <1>3 DEF Overlaps
<1>5. p.lo \in Int /\ p.hi \in Int /\ q.lo \in Int /\ q.hi \in Int
  <2>1. p \in MapRange /\ q \in MapRange
    BY <1>1, <1>2
  <2> QED
    BY <2>1, BoundsType DEF MapRange, Bounds
<1> QED
  BY <1>4, <1>5

\* To save a range and to load it takes its segment away, and nothing else.
LEMMA LoadedIsUnanchored ==
  ASSUME NEW m \in MapRange
  PROVE  Unanchored(Persisted(m)) = [m EXCEPT !.seg = Null]
BY DEF MapRange, Unanchored, Persisted

\* The first process begins with the table that its file holds.
LEMMA TableInit ==
  ASSUME FilesDisjoint, Init
  PROVE  Table!Init
<1>1. SpanInv
  BY SpanInit
<1>2. ranges \in Seq(MapRange) /\ ranges = LoadRanges(file)
  BY <1>1 DEF Init, SpanInv, SoleInv, IInv, TypeOK
<1>3. Table!Disjoint
  BY <1>1, <1>2, ListedDisjoint DEF SpanInv, NoOverlap, Table!Disjoint
<1>4. Content(ranges) = {[r EXCEPT !.seg = Null] : r \in Content(ranges)}
  <2>1. file \in Seq(Saved)
    BY GhidraMapAssumption DEF Init
  <2>2. \A i \in DOMAIN ranges :
          ranges[i] \in MapRange /\ ranges[i].seg = Null
    BY <1>2, <2>1, LoadedAreSound
  <2>3. \A r \in Content(ranges) : [r EXCEPT !.seg = Null] = r
    <3>1. \A m \in MapRange : m.seg = Null => [m EXCEPT !.seg = Null] = m
      BY DEF MapRange
    <3> QED
      BY <2>2, <3>1 DEF Content
  <2> QED
    BY <2>3
<1>5. ~(unsaved \/ \E t \in Threads : pc[t] \in {"save", "replace"})
  BY DEF Init
<1> QED
  BY <1>2, <1>3, <1>4, <1>5 DEF Table!Init, Table!Unanchored

\* With one caller every step anchors a label, saves the table, begins a new
\* process with what was saved, or is none of the table's.
LEMMA TableStep ==
  ASSUME OneCaller, SpanInv, SpanInv', [Next]_vars
  PROVE  [Table!Next]_(Table!vars)
<1> USE DEF Goto
<1> DEFINE dirty == unsaved \/ \E t \in Threads : pc[t] \in {"save", "replace"}
<1>1. SoleInv /\ IInv /\ ranges \in Seq(MapRange) /\ ranges' \in Seq(MapRange)
  BY DEF SpanInv, SoleInv, IInv, TypeOK
<1>2. ASSUME UNCHANGED <<ranges, file>>, dirty' = dirty
      PROVE  UNCHANGED Table!vars
  BY <1>2 DEF Table!vars
<1>3. ASSUME NEW t \in Threads, StepOf(t)
      PROVE  [Table!Next]_(Table!vars)
  <2>1. /\ dirty = (unsaved \/ pc[t] \in {"save", "replace"})
        /\ dirty' = (unsaved' \/ pc'[t] \in {"save", "replace"})
    <3>1. \A u \in Threads : u = t
      BY DEF OneCaller
    <3> QED
      BY <3>1
  <2>2. t \in DOMAIN pc
    BY <1>1 DEF IInv, TypeOK
  <2> HIDE DEF dirty
  <2>3. CASE Begin(t)
    <3>1. /\ pc[t] = "idle" /\ pc'[t] \in {"derive", "find"}
          /\ UNCHANGED <<ranges, file, unsaved>>
      BY <1>1, <2>3, BeginFits
    <3> QED
      BY <1>2, <2>1, <3>1
  <2>4. CASE Derive(t) \/ FindSlot(t)
    <3>1. /\ pc[t] \in {"derive", "find"} /\ pc'[t] \in {"idle", "find", "store"}
          /\ UNCHANGED <<ranges, file, unsaved>>
      BY <2>2, <2>4 DEF Derive, FindSlot
    <3> QED
      BY <1>2, <2>1, <3>1
  <2>5. CASE Store(t)
    <3> DEFINE r == entry[t].range
               a == entry[t].anchor
    <3>1. /\ r \in MapRange /\ r = NewRange(r.label, r.lo, r.hi, a)
          /\ a.seg \in Nat
      BY <1>1, <2>5 DEF IInv, CallOK, Store
    <3>2. PICK k \in Nat :
           /\ DOMAIN ranges' = DOMAIN ranges \cup {k}
           /\ ranges'[k] = r
           /\ \A i \in DOMAIN ranges :
                IF i = k THEN ranges[i].label = r.label
                ELSE ranges'[i] = ranges[i] /\ ranges[i].label # r.label
      BY <1>1, <2>5, StoredAt
    <3> HIDE DEF r, a
    <3>3. PICK label \in Labels : label = r.label
      BY <3>1 DEF MapRange
    <3>4. r.seg # Null
      BY <3>1 DEF NewRange, Null
    <3>5. \E q \in Content(ranges)' : q.label = label /\ q.seg # Null
      BY <3>2, <3>3, <3>4 DEF Content
    <3>6. {q \in Content(ranges)' : q.label # label} =
            {q \in Content(ranges) : q.label # label}
      BY <3>2, <3>3 DEF Content
    <3>7. Table!Disjoint'
      BY <1>1, ListedDisjoint DEF SpanInv, NoOverlap, Table!Disjoint, Content
    <3>8. dirty' = TRUE /\ file' = file
      BY <2>1, <2>2, <2>5 DEF Store
    <3>9. Table!AnchorLabel(label)
      BY <3>5, <3>6, <3>7, <3>8
         DEF Table!AnchorLabel, Table!Others, dirty, Content
    <3> QED
      BY Zenon, <3>9 DEF Table!Next
  <2>6. CASE Save(t)
    <3>1. /\ pc[t] = "save" /\ pc'[t] = "replace"
          /\ UNCHANGED <<ranges, file, unsaved>>
      BY <2>2, <2>6 DEF Save
    <3> QED
      BY <1>2, <2>1, <3>1
  <2>7. CASE Replace(t)
    <3>1. /\ pc[t] = "replace" /\ pc'[t] = "idle" /\ unsaved' = FALSE
          /\ file' = AsSaved /\ ranges' = ranges
      BY <1>1, <2>2, <2>7 DEF Replace, SoleInv, FileOK
    <3>2. LoadRanges(AsSaved) = [i \in DOMAIN ranges |-> Unanchored(AsSaved[i])]
      BY <1>1, SavedComesBack DEF SoleInv, UniqueLabels, AsSaved
    <3>3. \A i \in DOMAIN ranges :
            Unanchored(AsSaved[i]) = [ranges[i] EXCEPT !.seg = Null]
      BY <1>1, LoadedIsUnanchored DEF AsSaved
    <3>4. Content(LoadRanges(file')) =
            {[r EXCEPT !.seg = Null] : r \in Content(ranges)}
      <4> DEFINE loaded == LoadRanges(AsSaved)
      <4>1. /\ DOMAIN loaded = DOMAIN ranges
            /\ \A i \in DOMAIN ranges : loaded[i] = [ranges[i] EXCEPT !.seg = Null]
        BY <3>2, <3>3
      <4> HIDE DEF loaded
      <4>2. Content(loaded) =
              {[r EXCEPT !.seg = Null] : r \in Content(ranges)}
        BY <4>1 DEF Content
      <4> QED
        BY <3>1, <4>2 DEF loaded
    <3>5. dirty = TRUE /\ dirty' = FALSE
      BY <2>1, <3>1
    <3>6. Table!Save
      BY <3>1, <3>4, <3>5 DEF Table!Save, Table!Unanchored, dirty
    <3> QED
      BY <3>6 DEF Table!Next
  <2>8. CASE SaveFails(t)
    <3>1. /\ pc[t] = "replace" /\ unsaved' /\ UNCHANGED <<ranges, file>>
      BY <2>8 DEF SaveFails
    <3> QED
      BY <1>2, <2>1, <3>1
  <2> QED
    BY <1>3, <2>3, <2>4, <2>5, <2>6, <2>7, <2>8 DEF StepOf
<1>4. CASE Restart
  <2>1. /\ ranges' = LoadRanges(file) /\ file' = file
        /\ unsaved' = FALSE /\ \A t \in Threads : pc'[t] = "idle"
    BY <1>4 DEF Restart
  <2>2. Content(ranges)' = Content(LoadRanges(file)) /\ dirty' = FALSE
    BY <2>1 DEF Content
  <2>3. Content(LoadRanges(file))' = Content(LoadRanges(file))
    BY <2>1
  <2> QED
    BY <2>2, <2>3 DEF Table!NextProcess, Table!Next
<1>5. CASE UNCHANGED vars
  BY <1>2, <1>5 DEF vars
<1> QED
  BY <1>3, <1>4, <1>5, StepIsStepOf DEF Next, Finished

\* With one caller, and files that hold disjoint spans, the list, the found
\* positions, the texts and the file are together the table of AddressMap: an
\* anchoring changes one label, and a process that ends loses at most what was
\* not reported as saved.
THEOREM Refinement ==
  ASSUME OneCaller, FilesDisjoint
  PROVE  Spec => ImplementsAddressMap
<1>1. Init => Table!Init
  BY FilesDisjoint, TableInit
<1>2. SpanInv /\ SpanInv' /\ [Next]_vars => [Table!Next]_(Table!vars)
  BY OneCaller, TableStep
<1> QED
  BY <1>1, <1>2, SpanInvariance, PTL
     DEF Spec, ImplementsAddressMap, Table!Spec

\* Then a translation goes by the only range an address lies in, wherever in
\* the list calls and restarts have put it.
THEOREM OrderIsIrrelevant ==
  ASSUME OneCaller, FilesDisjoint
  PROVE  Spec => []OrderNeverMatters
<1>1. SpanInv => OrderNeverMatters
  <2> SUFFICES ASSUME SpanInv, NEW g \in Addresses
               PROVE  ToLive(g) = Table!Translation(g)
    BY DEF OrderNeverMatters
  <2>1. /\ Len(ranges) \in Nat /\ DOMAIN ranges = 1..Len(ranges)
        /\ \A j \in DOMAIN ranges : ranges[j] \in MapRange
    BY DEF SpanInv, SoleInv, IInv, TypeOK
  <2> DEFINE in == {q \in Content(ranges) :
                      q.lo <= g /\ g < q.hi /\ q.seg # Null}
  <2>2. Table!Translation(g) =
          {live \in {[seg |-> r.seg, off |-> g - r.delta] : r \in in} :
             live.off \in Offsets}
    BY DEF Table!Translation
  <2>3. CASE Covering(g) = {}
    <3>1. in = {}
      BY <2>3 DEF Covering, Content
    <3>2. ToLive(g) = {}
      BY <2>3 DEF ToLive
    <3> QED
      BY <2>2, <3>1, <3>2
  <2>4. ASSUME NEW i \in Covering(g)
        PROVE  ToLive(g) = Table!Translation(g)
    <3>1. i \in DOMAIN ranges /\ ranges[i].lo <= g /\ g < ranges[i].hi
      BY <2>4 DEF Covering
    <3>2. ASSUME NEW j \in Covering(g), j # i
          PROVE  FALSE
      <4>1. /\ j \in DOMAIN ranges /\ ranges[j].lo <= g
            /\ g < ranges[j].hi
        BY DEF Covering
      <4>2. /\ ranges[i].lo \in Int /\ ranges[i].hi \in Int
            /\ ranges[j].lo \in Int /\ ranges[j].hi \in Int /\ g \in Int
        <5>1. ranges[i] \in MapRange /\ ranges[j] \in MapRange
          BY <2>1, <3>1, <4>1
        <5> QED
          BY <5>1, BoundsType DEF MapRange, Bounds, Addresses
      <4>3. ranges[i].lo < ranges[j].hi /\ ranges[j].lo < ranges[i].hi
        BY <3>1, <4>1, <4>2
      <4> QED
        BY <3>1, <3>2, <4>1, <4>3 DEF SpanInv, NoOverlap, Overlaps
    <3>3. Covering(g) = {i}
      BY <2>4, <3>2
    <3>4. FirstIndex(Covering(g)) = i
      BY ZenonT(60), <2>1, <3>1, <3>3, FirstIsLeast
    <3>5. in = IF ranges[i].seg = Null THEN {} ELSE {ranges[i]}
      <4>1. \A j \in DOMAIN ranges :
              ranges[j].lo <= g /\ g < ranges[j].hi => j = i
        BY <3>2 DEF Covering
      <4> QED
        BY <3>1, <4>1 DEF Content
    <3> HIDE DEF in
    <3>6. ToLive(g) =
            IF ranges[i].seg = Null \/ g - ranges[i].delta \notin Offsets
            THEN {} ELSE {[seg |-> ranges[i].seg, off |-> g - ranges[i].delta]}
      BY <2>4, <3>4 DEF ToLive
    <3>7. CASE ranges[i].seg = Null
      BY <2>2, <3>5, <3>6, <3>7
    <3>8. CASE ranges[i].seg # Null
      <4>1. in = {ranges[i]}
        BY <3>5, <3>8
      <4> QED
        BY <2>2, <3>6, <3>8, <4>1
    <3> QED
      BY <3>7, <3>8
  <2> QED
    BY <2>3, <2>4
<1> QED
  BY <1>1, SpanInvariance, PTL
=============================================================================
