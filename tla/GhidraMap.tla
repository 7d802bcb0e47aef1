------------------------------ MODULE GhidraMap ------------------------------
(***************************************************************************)
(* The Ghidra <-> live address map (tools/ghidra.py): ranges of Ghidra     *)
(* addresses, each tied to a live segment by one anchor, kept in a list in *)
(* memory and in a file.                                                   *)
(*                                                                         *)
(* debug_map_set_base and debug_map_auto check the new span against the    *)
(* list and then put it in; nothing keeps another thread from doing the    *)
(* same in between, least of all while debug_map_auto waits for the two    *)
(* answers of the engine it needs.  The bridge process may end at any      *)
(* time; the next one starts from the file.                                *)
(*                                                                         *)
(* Data abstraction.  Addresses are small numbers: LastOffset and          *)
(* LastSegment stand for 0xFFFF, Para for the 16 bytes of a paragraph and  *)
(* ComPara for the 0x10 paragraphs of a PSP.                               *)
(***************************************************************************)
EXTENDS Integers, Sequences, FiniteSets, Ascending

CONSTANTS
  Threads,      \* worker threads
  Tools,        \* what a thread may be asked, a subset of {"set_base", "auto"}
  Labels,       \* range labels
  LastAddress,  \* bound: Ghidra addresses are 0..LastAddress
  LastOffset,   \* the largest live offset
  LastSegment,  \* the largest live segment
  Segments,     \* live segments an anchor may name
  Para,         \* bytes in a paragraph
  ComPara,      \* paragraphs from a PSP to the code behind it
  Matches,      \* where a scan may find the signature, linear addresses
  MemoryMaps,   \* the MCB chains the engine may report
  InitialFiles, \* what the map file may hold at first
  MaxCalls,     \* bound: anchors asked for
  MaxRestarts   \* bound: bridge processes after the first

Null == -1     \* Python's None

Addresses == 0..LastAddress
Offsets   == 0..LastOffset
Deltas    == -LastOffset..LastAddress

Bounds    == 0..(LastAddress + 1)

\* A range, and what is saved of it; ok is FALSE of a malformed entry.
MapRange == [label : Labels, lo : Bounds, hi : Bounds, delta : Deltas,
             seg : Int]
Saved    == [label : Labels, lo : Bounds, hi : Bounds, delta : Deltas,
             ok : BOOLEAN]
Block == [segment : Nat, size : Nat, psp : Nat]
Anchor == [g : Addresses, seg : Int, off : Offsets]

ASSUME GhidraMapAssumption ==
  /\ Tools \subseteq {"set_base", "auto"}
  /\ LastAddress \in Nat /\ LastOffset \in Nat /\ LastSegment \in Nat
  /\ Segments \subseteq Nat
  /\ Para \in Nat \ {0} /\ ComPara \in Nat
  /\ Matches \subseteq Nat
  /\ \A m \in MemoryMaps : m \in Seq(Block)
  /\ \A f \in InitialFiles : f \in Seq(Saved)
  /\ MaxCalls \in Nat /\ MaxRestarts \in Nat

VARIABLES
  ranges,     \* state["ranges"]
  file,       \* the map file
  pc,         \* the statement a thread is about to execute
  entry,      \* the range it puts in and the anchor that range is made from
  slot,       \* the position found for it, 0 to append
  text,       \* the ranges it is about to write to the file
  calls, restarts,
  anchors,    \* history: the anchor of each label set in this process
  unsaved     \* history: did the last save fail?

vars == <<ranges, file, pc, entry, slot, text, calls, restarts, anchors,
          unsaved>>

NoEntry == [range |-> Null, anchor |-> Null]

TypeOK ==
  /\ ranges \in Seq(MapRange)
  /\ file \in Seq(Saved)
  /\ pc \in [Threads -> {"idle", "derive", "find", "store", "save",
                         "replace"}]
  /\ \A t \in Threads :
       /\ pc[t] \in {"store", "save", "replace"} =>
            entry[t].range \in MapRange /\ entry[t].anchor \in Anchor
       /\ slot[t] \in 0..Len(ranges)
       /\ text[t] \in Seq(Saved)
  /\ calls \in 0..MaxCalls /\ restarts \in 0..MaxRestarts
  /\ DOMAIN anchors \subseteq Labels
  /\ unsaved \in BOOLEAN

-----------------------------------------------------------------------------
\* Lookups

Overlaps(lo, hi, r) == lo < r.hi /\ r.lo < hi

\* Mutant of Clashes: only a range that starts inside the new one is seen.
ClashesByStart(lo, hi, label) ==
  \E i \in DOMAIN ranges :
    /\ ranges[i].label # label
    /\ lo <= ranges[i].lo /\ ranges[i].lo < hi

\* _check_no_overlap() refuses.
Clashes(lo, hi, label) ==
  \E i \in DOMAIN ranges :
    /\ ranges[i].label # label
    /\ Overlaps(lo, hi, ranges[i])

FirstIndex(S) == CHOOSE i \in S : \A j \in S : i <= j

Covering(g) ==
  {i \in DOMAIN ranges : ranges[i].lo <= g /\ g < ranges[i].hi}

\* debug_map_to_live: the segment and offset, or none where it refuses.
ToLive(g) ==
  IF Covering(g) = {} THEN {}
  ELSE LET r == ranges[FirstIndex(Covering(g))]
           offset == g - r.delta
       IN  IF r.seg = Null \/ offset \notin Offsets
           THEN {} ELSE {[seg |-> r.seg, off |-> offset]}

\* Mutant of Matching: the first address of a range does not belong to it.
MatchingExclusive(seg, off) ==
  {i \in DOMAIN ranges :
     /\ ranges[i].seg = seg
     /\ ranges[i].lo < off + ranges[i].delta
     /\ off + ranges[i].delta < ranges[i].hi}

\* The ranges that answer for a live address.  Unlike those that cover a Ghidra
\* address there may be several: only the Ghidra side is kept disjoint.
Matching(seg, off) ==
  {i \in DOMAIN ranges :
     /\ ranges[i].seg = seg
     /\ ranges[i].lo <= off + ranges[i].delta
     /\ off + ranges[i].delta < ranges[i].hi}

\* debug_map_to_ghidra, and the annotations of symbols.py.
ToGhidra(seg, off) ==
  IF Matching(seg, off) = {} THEN {}
  ELSE {off + ranges[FirstIndex(Matching(seg, off))].delta}

-----------------------------------------------------------------------------
\* The file

Persisted(r) == [label |-> r.label, lo |-> r.lo, hi |-> r.hi,
                 delta |-> r.delta, ok |-> TRUE]

Unanchored(s) == [label |-> s.label, lo |-> s.lo, hi |-> s.hi,
                  delta |-> s.delta, seg |-> Null]

\* The entries that are loaded: neither malformed nor of a label that an
\* earlier one has.
Loadable(f) ==
  {i \in DOMAIN f :
     f[i].ok /\ \A j \in 1..(i - 1) : f[j].ok => f[j].label # f[i].label}

\* No loaded range has a segment.
LoadRanges(f) ==
  LET order == InOrder(Loadable(f))
  IN  [k \in DOMAIN order |-> Unanchored(f[order[k]])]

-----------------------------------------------------------------------------
\* Anchoring

Goto(t, label) == pc' = [pc EXCEPT ![t] = label]

NewRange(label, lo, hi, a) ==
  [label |-> label, lo |-> lo, hi |-> hi, delta |-> a.g - a.off,
   seg |-> a.seg]

\* The checks both tools make first; a refused call changes nothing.
Admitted(t, label, lo, hi, g) ==
  /\ pc[t] = "idle"
  /\ calls < MaxCalls
  /\ lo < hi /\ lo <= g /\ g < hi
  /\ ~Clashes(lo, hi, label)
  /\ calls' = calls + 1

SetBase(t, label, lo, hi, a) ==
  /\ "set_base" \in Tools
  /\ Admitted(t, label, lo, hi, a.g)
  /\ a.seg \in 0..LastSegment /\ a.off \in Offsets
  /\ entry' = [entry EXCEPT ![t] = [range |-> NewRange(label, lo, hi, a),
                                    anchor |-> a]]
  /\ Goto(t, "find")
  /\ UNCHANGED <<ranges, file, slot, text, restarts, anchors, unsaved>>

\* debug_map_auto: the segment and the offset are still to be found.
MapAuto(t, label, lo, hi, g) ==
  /\ "auto" \in Tools
  /\ Admitted(t, label, lo, hi, g)
  /\ entry' = [entry EXCEPT
       ![t] = LET a == [g |-> g, seg |-> Null, off |-> 0]
              IN  [range |-> NewRange(label, lo, hi, a), anchor |-> a]]
  /\ Goto(t, "derive")
  /\ UNCHANGED <<ranges, file, slot, text, restarts, anchors, unsaved>>

\* The blocks of an MCB chain around an address; the first one counts.
Owning(m, chain) ==
  {i \in DOMAIN chain :
     LET start == (chain[i].segment + 1) * Para
     IN  start <= m /\ m < start + chain[i].size}

\* Mutant of ComAnchors: any block that names the PSP will do.
ComAnchorsAnyBlock(m, chain, g) ==
  LET own == Owning(m, chain)
      seg == chain[FirstIndex(own)].psp + ComPara
      off == m - seg * Para
  IN  IF own # {} /\ seg <= LastSegment /\ off \in Offsets
      THEN {[g |-> g, seg |-> seg, off |-> off]} ELSE {}

\* The segment and offset of a match in a .COM program: its block must be
\* self-owned, and the code starts ComPara paragraphs behind its PSP.
ComAnchors(m, chain, g) ==
  LET own == Owning(m, chain)
      b   == chain[FirstIndex(own)]
      seg == b.psp + ComPara
      off == m - seg * Para
  IN  IF /\ own # {} /\ b.segment + 1 = b.psp
         /\ seg <= LastSegment /\ off \in Offsets
      THEN {[g |-> g, seg |-> seg, off |-> off]} ELSE {}

\* The engine's answers to POST memory/scan and GET dos/internals give an
\* anchor, or (not found, found twice, no such block) none.
Derive(t) ==
  /\ pc[t] = "derive"
  /\ LET r == entry[t].range
     IN  \/ \E m \in Matches, chain \in MemoryMaps :
              \E a \in ComAnchors(m, chain, entry[t].anchor.g) :
                /\ entry' = [entry EXCEPT
                     ![t] = [range |-> NewRange(r.label, r.lo, r.hi, a),
                             anchor |-> a]]
                /\ Goto(t, "find")
         \/ Goto(t, "idle") /\ entry' = [entry EXCEPT ![t] = NoEntry]
  /\ UNCHANGED <<ranges, file, slot, text, calls, restarts, anchors, unsaved>>

\* Mutant of FindSlot: a new label gets the position behind the list.
FindSlotAtEnd(t) ==
  /\ pc[t] = "find"
  /\ LET same == {i \in DOMAIN ranges :
                    ranges[i].label = entry[t].range.label}
     IN  slot' = [slot EXCEPT ![t] = IF same = {} THEN Len(ranges) + 1
                                     ELSE FirstIndex(same)]
  /\ Goto(t, "store")
  /\ UNCHANGED <<ranges, file, entry, text, calls, restarts, anchors, unsaved>>

\* _upsert_range(): the position of the label in the list, then the write.
FindSlot(t) ==
  /\ pc[t] = "find"
  /\ LET same == {i \in DOMAIN ranges :
                    ranges[i].label = entry[t].range.label}
     IN  slot' = [slot EXCEPT ![t] = IF same = {} THEN 0 ELSE FirstIndex(same)]
  /\ Goto(t, "store")
  /\ UNCHANGED <<ranges, file, entry, text, calls, restarts, anchors, unsaved>>

\* Mutant of Store: the entry is always appended.
StoreAppending(t) ==
  /\ pc[t] = "store"
  /\ ranges' = Append(ranges, entry[t].range)
  /\ anchors' = [l \in DOMAIN anchors \cup {entry[t].range.label} |->
                   IF l = entry[t].range.label THEN entry[t].anchor
                   ELSE anchors[l]]
  /\ slot' = [slot EXCEPT ![t] = 0]
  /\ Goto(t, "save")
  /\ UNCHANGED <<file, entry, text, calls, restarts, unsaved>>

Store(t) ==
  /\ pc[t] = "store"
  /\ ranges' = IF slot[t] = 0 THEN Append(ranges, entry[t].range)
               ELSE [ranges EXCEPT ![slot[t]] = entry[t].range]
  /\ anchors' = [l \in DOMAIN anchors \cup {entry[t].range.label} |->
                   IF l = entry[t].range.label THEN entry[t].anchor
                   ELSE anchors[l]]
  /\ slot' = [slot EXCEPT ![t] = 0]
  /\ Goto(t, "save")
  /\ UNCHANGED <<file, entry, text, calls, restarts, unsaved>>

\* _save_ranges(): the list is turned into text, the text written to a new
\* file, and that one renamed over the old.
Save(t) ==
  /\ pc[t] = "save"
  /\ text' = [text EXCEPT
       ![t] = [i \in DOMAIN ranges |-> Persisted(ranges[i])]]
  /\ Goto(t, "replace")
  /\ UNCHANGED <<ranges, file, entry, slot, calls, restarts, anchors,
                 unsaved>>

Replace(t) ==
  /\ pc[t] = "replace"
  /\ file' = text[t]
  /\ text' = [text EXCEPT ![t] = <<>>]
  /\ entry' = [entry EXCEPT ![t] = NoEntry]
  /\ Goto(t, "idle")
  /\ unsaved' = FALSE
  /\ UNCHANGED <<ranges, slot, calls, restarts, anchors>>

\* Mutant of SaveFails: the error is swallowed.
SaveFailsSilently(t) ==
  /\ pc[t] = "replace"
  /\ unsaved' = FALSE
  /\ text' = [text EXCEPT ![t] = <<>>]
  /\ entry' = [entry EXCEPT ![t] = NoEntry]
  /\ Goto(t, "idle")
  /\ UNCHANGED <<ranges, file, slot, calls, restarts, anchors>>

\* An OSError: the call ends with it, the range stays in the list.
SaveFails(t) ==
  /\ pc[t] = "replace"
  /\ unsaved' = TRUE
  /\ text' = [text EXCEPT ![t] = <<>>]
  /\ entry' = [entry EXCEPT ![t] = NoEntry]
  /\ Goto(t, "idle")
  /\ UNCHANGED <<ranges, file, slot, calls, restarts, anchors>>

\* The bridge process ends, wherever its threads are, and another starts.
Restart ==
  /\ restarts < MaxRestarts
  /\ restarts' = restarts + 1
  /\ ranges' = LoadRanges(file)
  /\ pc' = [t \in Threads |-> "idle"]
  /\ entry' = [t \in Threads |-> NoEntry]
  /\ slot' = [t \in Threads |-> 0]
  /\ text' = [t \in Threads |-> <<>>]
  /\ anchors' = <<>>
  /\ unsaved' = FALSE
  /\ UNCHANGED <<file, calls>>

-----------------------------------------------------------------------------
\* The specification

Init ==
  /\ file \in InitialFiles
  /\ ranges = LoadRanges(file)
  /\ pc = [t \in Threads |-> "idle"]
  /\ entry = [t \in Threads |-> NoEntry]
  /\ slot = [t \in Threads |-> 0]
  /\ text = [t \in Threads |-> <<>>]
  /\ calls = 0 /\ restarts = 0
  /\ anchors = <<>> /\ unsaved = FALSE

Finished ==
  /\ \A t \in Threads : pc[t] = "idle"
  /\ calls = MaxCalls /\ restarts = MaxRestarts
  /\ UNCHANGED vars

Step(t) ==
  \/ \E label \in Labels, lo \in Addresses, hi \in 1..(LastAddress + 1),
        g \in Addresses :
       \/ MapAuto(t, label, lo, hi, g)
       \/ \E seg \in Segments, off \in Offsets :
            SetBase(t, label, lo, hi, [g |-> g, seg |-> seg, off |-> off])
  \/ Derive(t) \/ FindSlot(t) \/ Store(t)
  \/ Save(t) \/ Replace(t) \/ SaveFails(t)

Next == Restart \/ (\E t \in Threads : Step(t)) \/ Finished

Spec == Init /\ [][Next]_vars

-----------------------------------------------------------------------------
\* Properties

\* A label names one range, and no Ghidra address lies in two: a lookup never
\* depends on the order of the list.
NoOverlap ==
  \A i, j \in DOMAIN ranges :
    i # j => /\ ranges[i].label # ranges[j].label
             /\ ~Overlaps(ranges[i].lo, ranges[i].hi, ranges[j])

\* The address a range was anchored at translates to the live address it was
\* anchored to, whatever other ranges were added and replaced since.
AnchorTranslates ==
  \A l \in DOMAIN anchors :
    ToLive(anchors[l].g) = {[seg |-> anchors[l].seg, off |-> anchors[l].off]}

\* A range has a live segment only if it was anchored by this process: one
\* that comes from the file answers nothing until then.
AnchoredThisSession ==
  \A i \in DOMAIN ranges :
    ranges[i].seg # Null => ranges[i].label \in DOMAIN anchors

\* Between calls the file holds what is in memory, unless the last save has
\* failed: a process that ends now and the next one have the same ranges.
NothingLostByRestart ==
  ~unsaved /\ (\A t \in Threads : pc[t] = "idle") =>
    LoadRanges(file) =
      [i \in DOMAIN ranges |-> Unanchored(Persisted(ranges[i]))]

\* Whatever the engine answers a debug_map_auto that waits for it, the anchor
\* is on the byte where the signature was found, in code of a program's own
\* block behind its PSP.
AutoAnchorSound ==
  \A t \in Threads, m \in Matches, chain \in MemoryMaps :
    pc[t] = "derive" =>
      \A a \in ComAnchors(m, chain, entry[t].anchor.g) :
        /\ a.seg * Para + a.off = m
        /\ \E i \in DOMAIN chain :
             /\ chain[i].psp = chain[i].segment + 1
             /\ m < chain[i].psp * Para + chain[i].size
             /\ m >= (chain[i].psp + ComPara) * Para

\* A live address that a translation gave leads back to where it came from:
\* among the ranges that answer for it is the one that made it, and if that is
\* the only one the way back gives the same Ghidra address.
TranslatesBack ==
  \A g \in Addresses : \A live \in ToLive(g) :
    LET back == Matching(live.seg, live.off)
    IN  /\ FirstIndex(Covering(g)) \in back
        /\ Cardinality(back) = 1 => ToGhidra(live.seg, live.off) = {g}

\* Refinement: list, positions, texts and file are the table of AddressMap.
Content(list) == {list[i] : i \in DOMAIN list}

Table == INSTANCE AddressMap WITH
  table <- Content(ranges),
  saved <- Content(LoadRanges(file)),
  dirty <- unsaved \/ \E t \in Threads : pc[t] \in {"save", "replace"}

ImplementsAddressMap == Table!Spec

\* debug_map_to_live goes by the one range an address lies in: that it takes
\* the first one it finds in the list never matters.
OrderNeverMatters == \A g \in Addresses : ToLive(g) = Table!Translation(g)
=============================================================================
