---------------------------- MODULE SymbolsProofs ----------------------------
(***************************************************************************)
(* Proofs about Symbols, for any number of threads, any texts and queries, *)
(* any cap and reach, with loads and lookups interleaved at every access.  *)
(*                                                                         *)
(* ListOK is what lets a lookup do without a lock: every list that is or   *)
(* will be published is ascending, holds only addresses of the table, and  *)
(* holds all that are settled, because the table only grows and a load     *)
(* that settles it is alone.  CapOK counts the threads between the test of *)
(* the cap and the insertion.  LoadOK is what a lone load has done after   *)
(* the entries it has taken off its text.                                  *)
(***************************************************************************)
EXTENDS Symbols, AscendingProofs, TLAPS

-----------------------------------------------------------------------------
\* The inductive invariant

\* A table of symbols, an entry that was recognized, and what a lookup names.
Tables == UNION {[D -> STRING] : D \in SUBSET Nat}
Pair   == Nat \X STRING
Names  == STRING \cup {"none"}

Job == [at : {"idle", "check", "insert", "sort", "publish", "loaded",
              "search", "name", "found", "missed"},
        parsed : Seq(Pair), todo : Seq(Pair), dropped : Nat,
        addrs : Seq(Nat), query : Nat, base : Nat,
        name : Names,
        before : Tables, lone : BOOLEAN, owed : SUBSET Nat]

TypesOK ==
  /\ table \in Tables /\ IsFiniteSet(DOMAIN table)
  /\ sortedAddrs \in Seq(Nat)
  /\ job \in [Threads -> Job]
  /\ jobs \in 0..MaxJobs
  /\ settled \in SUBSET Nat
  /\ \A t \in Threads : job[t].at \in {"check", "insert"} => job[t].todo # <<>>

Ascends(q) == \A i, j \in DOMAIN q : i < j => q[i] < q[j]
Listed(q)  == {q[i] : i \in DOMAIN q}

\* A load that is alone has been alone since it began.
LoneOK ==
  \A t \in Threads : job[t].lone =>
    Loading(t) /\ \A u \in Threads : u # t => ~Loading(u)

\* The list that is searched, and those about to take its place.
ListOK ==
  /\ Ascends(sortedAddrs)
  /\ settled \subseteq Listed(sortedAddrs)
  /\ Listed(sortedAddrs) \subseteq DOMAIN table
  /\ \A t \in Threads : job[t].at = "publish" =>
       /\ Ascends(job[t].addrs)
       /\ settled \subseteq Listed(job[t].addrs)
       /\ Listed(job[t].addrs) \subseteq DOMAIN table
       /\ job[t].lone => Listed(job[t].addrs) = DOMAIN table

\* What a lookup owes is settled, and an answer is the nearest of it.
Near(j) == {a \in j.owed : a <= j.query /\ j.query - a <= MaxSymbolDistance}

LookupGood(j, s, d) ==
  /\ j.owed \subseteq s
  /\ j.at = "missed" => Near(j) = {}
  /\ j.at \in {"name", "found"} =>
       /\ \A a \in Near(j) : a <= j.base
       /\ j.query - j.base \in 0..MaxSymbolDistance
  /\ j.at = "name" => j.base \in d

LookupOK == \A t \in Threads : LookupGood(job[t], settled, DOMAIN table)

\* The threads that have passed the test of the cap with a new address.
Entering ==
  {t \in Threads :
     job[t].at = "insert" /\ Head(job[t].todo)[1] \notin DOMAIN table}

CapOK ==
  Cardinality(DOMAIN table) + Cardinality(Entering)
    <= MaxSymbols + Cardinality(Threads) - 1

IInv == TypesOK /\ LoneOK /\ ListOK /\ LookupOK /\ CapOK

-----------------------------------------------------------------------------
\* A lone load

\* The entries a load has taken off its text.
Taken(j) == Len(j.parsed) - Len(j.todo)

\* The addresses new to the table among the first k entries, and those of
\* them that the first k entries found room for.
New(j, k) == {j.parsed[i][1] : i \in 1..k} \ DOMAIN j.before
Room(j)   == MaxSymbols - Cardinality(DOMAIN j.before)
Fits(j, k) ==
  {j.parsed[i][1] : i \in {h \in 1..k : Cardinality(New(j, h)) <= Room(j)}}

\* The rest of the text is to be done, the addresses that fit are in, until
\* one does not the table is not full, and the names are the last given.
Named(parsed, before, names, k) ==
  \A a \in DOMAIN names :
    \/ \E i \in 1..k : /\ parsed[i] = <<a, names[a]>>
                       /\ \A h \in (i + 1)..k : parsed[h][1] # a
    \/ /\ names[a] = before[a]
       /\ \A h \in 1..k : parsed[h][1] # a

Loaded(j, names, k) ==
  /\ IsFiniteSet(DOMAIN j.before)
  /\ k \in 0..Len(j.parsed)
  /\ \A i \in 1..Len(j.todo) : j.todo[i] = j.parsed[k + i]
  /\ DOMAIN names = DOMAIN j.before \cup Fits(j, k)
  /\ Cardinality(New(j, k)) > Room(j) =>
       Cardinality(DOMAIN names) >= MaxSymbols
  /\ Named(j.parsed, j.before, names, k)

LoadedSoFar(j, names) == Loaded(j, names, Taken(j))

LoadOK ==
  \A t \in Threads : job[t].lone =>
    /\ LoadedSoFar(job[t], table)
    /\ job[t].at = "insert" => ~AtCap(Head(job[t].todo)[1])
    /\ job[t].at \in {"sort", "publish", "loaded"} => job[t].todo = <<>>

-----------------------------------------------------------------------------
\* The operators

\* The constants' types.
LEMMA ConstantTypes ==
  /\ IsFiniteSet(Threads) /\ Cardinality(Threads) \in Nat
  /\ MaxSymbols \in Nat /\ MaxSymbols >= 1
  /\ MaxSymbolDistance \in Nat /\ MaxJobs \in Nat
BY SymbolsAssumption, FS_CardinalityType

\* A text is parsed to a sequence of addresses with their names.
LEMMA ParsedType ==
  ASSUME NEW paste \in Pastes
  PROVE  Parsed(paste) \in Seq(Pair)
<1> DEFINE entries == paste.entries
           S       == {i \in DOMAIN entries : entries[i].ok}
           kept    == InOrder(S)
           pair(k) == <<ParseAddress(entries[kept[k]].token),
                        entries[kept[k]].name>>
<1>1. entries \in Seq(Entry) /\ Len(entries) \in Nat
      /\ DOMAIN entries = 1..Len(entries)
  BY SymbolsAssumption
<1>2. S \in SUBSET (1..Len(entries))
  BY <1>1
<1>3. IsFiniteSet(S) /\ S \in SUBSET Int
  BY ZenonT(60), <1>1, <1>2, PositionsFinite
<1>4. Cardinality(S) \in Nat /\ kept \in [1..Cardinality(S) -> S]
  BY <1>3, InOrderListsAll
<1>5. ASSUME NEW k \in 1..Cardinality(S)
      PROVE  pair(k) \in Pair
  <2> DEFINE e == entries[kept[k]]
  <2>1. e \in Entry
    <3> HIDE DEF kept
    <3>1. kept[k] \in S
      BY <1>4
    <3> QED
      BY <1>1, <1>2, <3>1
  <2> HIDE DEF e
  <2>2. e.token.seg \in Nat /\ e.token.off \in Nat /\ e.name \in STRING
    BY <2>1 DEF Entry
  <2>3. e.token.seg * 16 + e.token.off \in Nat
    BY <2>2
  <2>4. <<ParseAddress(e.token), e.name>> \in Pair
    BY <2>2, <2>3 DEF ParseAddress, Pair
  <2> QED
    BY <2>4 DEF e
<1> HIDE DEF pair, kept, S
<1>6. [k \in DOMAIN kept |-> pair(k)] \in Seq(Pair)
  BY <1>4, <1>5
<1>7. CASE paste.form = "otherJson"
  BY <1>7 DEF Parsed
<1>8. CASE paste.form # "otherJson"
  BY <1>6, <1>8 DEF Parsed, pair, kept, S
<1> QED
  BY <1>7, <1>8

\* The rest of a text, and where the loop goes on.
LEMMA LoopType ==
  ASSUME NEW todo \in Seq(Pair)
  PROVE  /\ Loop(todo) \in {"sort", "check"}
         /\ Loop(todo) = "check" => todo # <<>>
         /\ Loop(todo) = "sort" => todo = <<>>
BY DEF Loop

\* The keys of a table in order are an ascending list of them all.
LEMMA SortedKeys ==
  ASSUME NEW D \in SUBSET Nat, IsFiniteSet(D)
  PROVE  /\ InOrder(D) \in Seq(Nat)
         /\ Ascends(InOrder(D))
         /\ Listed(InOrder(D)) = D
<1>1. D \in SUBSET Int
  OBVIOUS
<1>2. /\ Cardinality(D) \in Nat
      /\ InOrder(D) \in [1..Cardinality(D) -> D]
      /\ \A a \in D : \E k \in 1..Cardinality(D) : InOrder(D)[k] = a
      /\ \A j, k \in 1..Cardinality(D) :
           j < k => InOrder(D)[j] < InOrder(D)[k]
  BY <1>1, InOrderListsAll
<1>3. InOrder(D) \in Seq(Nat)
  <2> DEFINE n == Cardinality(D)
             q == InOrder(D)
  <2>1. n \in Nat /\ q \in [1..n -> Nat]
    BY <1>2
  <2> HIDE DEF n, q
  <2>2. q \in Seq(Nat)
    BY <2>1
  <2> QED
    BY <2>2 DEF q
<1> QED
  BY <1>2, <1>3 DEF Ascends, Listed

\* The position found by the search separates the addresses up to the query
\* from those after it.
LEMMA Bisect ==
  ASSUME NEW addrs \in Seq(Nat), Ascends(addrs), NEW query \in Nat
  PROVE  /\ BisectRight(addrs, query) \in 0..Len(addrs)
         /\ \A i \in DOMAIN addrs :
              addrs[i] <= query <=> i <= BisectRight(addrs, query)
<1> DEFINE n == Len(addrs)
           S == {i \in DOMAIN addrs : addrs[i] <= query}
           C == (1..n) \ S
<1>1. n \in Nat /\ DOMAIN addrs = 1..n /\ \A i \in 1..n : addrs[i] \in Nat
  OBVIOUS
<1>2. BisectRight(addrs, query) = Cardinality(S)
  BY DEF BisectRight
<1> DEFINE idx == BisectRight(addrs, query)
<1> HIDE DEF idx
<1>3. CASE C = {}
  <2>1. S = 1..n /\ \A i \in 1..n : addrs[i] <= query
    BY <1>1, <1>3
  <2>2. Cardinality(S) = n
    BY <1>1, <2>1, InOrderOfInterval
  <2>3. idx = n
    BY <1>2, <2>2 DEF idx
  <2> HIDE DEF S, C
  <2>4. idx \in 0..n /\ \A i \in DOMAIN addrs : addrs[i] <= query <=> i <= idx
    BY <1>1, <2>1, <2>3
  <2> QED
    BY <2>4 DEF idx
<1>4. CASE C # {}
  <2>1. C \in SUBSET (1..n)
    OBVIOUS
  <2> HIDE DEF C, n
  <2>2. IsFiniteSet(C) /\ C \in SUBSET Int
    BY <1>1, <2>1, PositionsFinite
  <2>3. PICK m \in C : \A j \in C : m <= j
    BY <1>4, <2>2, LeastExists
  <2>4. m \in 1..n /\ ~(addrs[m] <= query)
    BY <1>1, <2>1, <2>3 DEF C
  <2>5. ASSUME NEW i \in 1..n
        PROVE  addrs[i] <= query <=> i < m
    <3>1. CASE i < m
      <4>1. i \notin C
        BY <1>1, <2>3, <2>4, <3>1
      <4> QED
        BY <1>1, <3>1, <4>1 DEF C
    <3>2. CASE i = m
      BY <1>1, <2>4, <3>2
    <3>3. CASE i > m
      <4>1. addrs[m] < addrs[i]
        BY <1>1, <2>4, <3>3 DEF Ascends
      <4> QED
        BY <1>1, <2>4, <3>3, <4>1
    <3> QED
      BY <1>1, <2>4, <3>1, <3>2, <3>3
  <2>6. S = 1..(m - 1) /\ m - 1 \in Nat
    BY <1>1, <2>4, <2>5
  <2>7. Cardinality(S) = m - 1
    BY <2>6, InOrderOfInterval
  <2>8. idx = m - 1
    BY <1>2, <2>7 DEF idx
  <2> HIDE DEF S
  <2>9. idx \in 0..n /\ \A i \in DOMAIN addrs : addrs[i] <= query <=> i <= idx
    BY <1>1, <2>4, <2>5, <2>8
  <2> QED
    BY <2>9 DEF idx, n
<1> QED
  BY <1>3, <1>4

\* An insertion leaves a table, with one more address at most.
LEMMA InsertType ==
  ASSUME TypesOK, NEW t \in Threads, Insert(t)
  PROVE  LET a == Head(job[t].todo)[1]
             n == Head(job[t].todo)[2]
         IN  /\ a \in Nat /\ n \in STRING
             /\ DOMAIN table' = DOMAIN table \cup {a}
             /\ table' \in Tables /\ IsFiniteSet(DOMAIN table')
             /\ table'[a] = n
             /\ \A b \in DOMAIN table : b # a => table'[b] = table[b]
<1> DEFINE a == Head(job[t].todo)[1]
           n == Head(job[t].todo)[2]
<1>1. job[t].todo \in Seq(Pair) /\ job[t].todo # <<>>
  BY DEF TypesOK, Job, Insert
<1>2. Head(job[t].todo) \in Pair
  BY <1>1
<1>3. a \in Nat /\ n \in STRING
  BY <1>2 DEF Pair
<1>4. table' = [b \in DOMAIN table \cup {a} |-> IF b = a THEN n ELSE table[b]]
  BY DEF Insert
<1> HIDE DEF a, n
<1>5. PICK D \in SUBSET Nat : table \in [D -> STRING]
  BY DEF TypesOK, Tables
<1>6. table' \in [D \cup {a} -> STRING] /\ D \cup {a} \in SUBSET Nat
  BY <1>3, <1>4, <1>5
<1>7. table' \in Tables
  BY <1>6 DEF Tables
<1>8. IsFiniteSet(DOMAIN table \cup {a})
  BY FS_AddElement DEF TypesOK
<1> QED
  BY <1>3, <1>4, <1>7, <1>8 DEF a, n

-----------------------------------------------------------------------------
\* The types

\* A thread at nothing is at a job, and no symbols are a table.
LEMMA NoJobType == NoJob \in Job /\ <<>> \in Tables
<1>1. <<>> \in Tables
  <2>1. <<>> \in [{} -> STRING]
    OBVIOUS
  <2> QED
    BY <2>1 DEF Tables
<1>2. <<>> \in Seq(Pair) /\ <<>> \in Seq(Nat) /\ {} \in SUBSET Nat
  <2>1. \A S : <<>> \in Seq(S)
    OBVIOUS
  <2> QED
    BY <2>1, Zenon
<1>3. NoJob \in Job
  <2> DEFINE Tabs == Tables
             Pairs == Seq(Pair)
             Addrs == Seq(Nat)
  <2>1. <<>> \in Tabs /\ <<>> \in Pairs /\ <<>> \in Addrs
    BY <1>1, <1>2
  <2>2. Job = [at : {"idle", "check", "insert", "sort", "publish", "loaded",
                     "search", "name", "found", "missed"},
               parsed : Pairs, todo : Pairs, dropped : Nat,
               addrs : Addrs, query : Nat, base : Nat,
               name : Names,
               before : Tabs, lone : BOOLEAN, owed : SUBSET Nat]
    BY DEF Job
  <2>3. {} \in SUBSET Nat /\ 0 \in Nat /\ FALSE \in BOOLEAN
    OBVIOUS
  <2>4. "none" \in Names
    BY DEF Names
  <2> HIDE DEF Tabs, Pairs, Addrs
  <2> QED
    BY ONLY <2>1, <2>2, <2>3, <2>4, Zenon DEF NoJob
<1> QED
  BY <1>1, <1>3

\* What the steps of a load or a lookup change of its job leaves a job.
LEMMA JobType ==
  ASSUME NEW j \in Job,
         NEW at \in {"insert", "publish", "loaded", "missed", "name", "found"},
         NEW q \in Seq(Nat), NEW base \in Nat, NEW name \in Names
  PROVE  /\ [j EXCEPT !.at = at] \in Job
         /\ [j EXCEPT !.at = at, !.addrs = q] \in Job
         /\ [j EXCEPT !.at = at, !.base = base] \in Job
         /\ [j EXCEPT !.at = at, !.name = name] \in Job
<1>1. [j EXCEPT !.at = at] \in Job
  BY DEF Job
<1>2. [j EXCEPT !.at = at, !.addrs = q] \in Job
  BY DEF Job
<1>3. [j EXCEPT !.at = at, !.base = base] \in Job
  BY DEF Job
<1>4. [j EXCEPT !.at = at, !.name = name] \in Job
  BY DEF Job
<1> QED
  BY <1>1, <1>2, <1>3, <1>4

\* Every step keeps the types.
LEMMA TypeStep ==
  ASSUME IInv, [SymbolsNext]_symbolVars
  PROVE  TypesOK'
<1> USE DEF TypesOK
<1>1. TypesOK /\ NoJob \in Job
  BY NoJobType DEF IInv
<1>2. ASSUME NEW t \in Threads, NEW paste \in Pastes, LoadText(t, paste)
      PROVE  TypesOK'
  <2> DEFINE lone == \A u \in Threads : ~Loading(u)
             new  == [NoJob EXCEPT !.at     = Loop(Parsed(paste)),
                                   !.parsed = Parsed(paste),
                                   !.todo   = Parsed(paste),
                                   !.before = table,
                                   !.lone   = lone]
  <2>1. Parsed(paste) \in Seq(Pair)
    BY ParsedType
  <2>2. new \in Job /\ new.at = Loop(Parsed(paste)) /\ new.todo = Parsed(paste)
    BY <1>1, <2>1, LoopType DEF Job
  <2>3. job' = [u \in Threads |-> IF u = t THEN new
                                 ELSE [job[u] EXCEPT !.lone = FALSE]]
    BY <1>2 DEF LoadText
  <2> HIDE DEF new
  <2>4. \A u \in Threads : job'[u] \in Job
    BY ZenonT(60), <1>1, <2>2, <2>3 DEF Job
  <2>5. \A u \in Threads : job'[u].at \in {"check", "insert"} => job'[u].todo # <<>>
    BY <1>1, <2>1, <2>2, <2>3, LoopType DEF Job
  <2>6. jobs' \in 0..MaxJobs
    <3>1. jobs < MaxJobs /\ jobs' = jobs + 1 /\ jobs \in 0..MaxJobs
      BY <1>1, <1>2 DEF LoadText, BeginJob
    <3> QED
      BY <3>1, ConstantTypes
  <2> QED
    BY <1>1, <1>2, <2>3, <2>4, <2>5, <2>6 DEF LoadText
<1>3. ASSUME NEW t \in Threads, Check(t)
      PROVE  TypesOK'
  <2>1. job[t] \in Job /\ job[t].todo \in Seq(Pair) /\ job[t].todo # <<>>
    BY <1>1, <1>3 DEF Check, Job
  <2>2. Tail(job[t].todo) \in Seq(Pair)
    BY <2>1
  <2>3. job' \in [Threads -> Job]
    <3>1. CASE AtCap(Head(job[t].todo)[1])
      <4>1. job' = [job EXCEPT ![t].at = Loop(Tail(job[t].todo)),
                               ![t].todo = Tail(@), ![t].dropped = @ + 1]
        BY <1>3, <3>1 DEF Check
      <4>2. Loop(Tail(job[t].todo)) \in {"sort", "check"}
            /\ job[t].dropped + 1 \in Nat
        <5>1. job[t].dropped + 1 \in Nat
          BY <2>1 DEF Job
        <5>2. Loop(Tail(job[t].todo)) \in {"sort", "check"}
          BY ONLY <2>2, LoopType
        <5> QED
          BY ONLY <5>1, <5>2
      <4> QED
        BY <1>1, <2>1, <2>2, <4>1, <4>2 DEF Job
    <3>2. CASE ~AtCap(Head(job[t].todo)[1])
      <4>1. [job[t] EXCEPT !.at = "insert"] \in Job
        <5>1. job[t] \in Job /\ job[t].addrs \in Seq(Nat)
              /\ job[t].base \in Nat /\ job[t].name \in Names
          BY <2>1 DEF Job
        <5> QED
          BY ONLY <5>1, JobType
      <4>2. job' = [job EXCEPT ![t].at = "insert"]
        BY <1>3, <3>2 DEF Check
      <4> QED
        BY <1>1, <4>1, <4>2
    <3> QED
      BY <3>1, <3>2
  <2>4. \A u \in Threads : job'[u].at \in {"check", "insert"} => job'[u].todo # <<>>
    BY <1>1, <1>3, <2>1, <2>2, LoopType DEF Check, Job
  <2> QED
    BY <1>1, <1>3, <2>3, <2>4 DEF Check
<1>4. ASSUME NEW t \in Threads, Insert(t)
      PROVE  TypesOK'
  <2>1. job[t] \in Job /\ job[t].todo \in Seq(Pair) /\ job[t].todo # <<>>
    BY <1>1, <1>4 DEF Insert, Job
  <2>2. Tail(job[t].todo) \in Seq(Pair)
    BY <2>1
  <2>3. job' \in [Threads -> Job]
    BY <1>1, <1>4, <2>1, <2>2, LoopType DEF Insert, Job
  <2>4. \A u \in Threads : job'[u].at \in {"check", "insert"} => job'[u].todo # <<>>
    BY <1>1, <1>4, <2>1, <2>2, LoopType DEF Insert, Job
  <2> QED
    BY <1>1, <1>4, <2>3, <2>4, InsertType DEF Insert
<1>5. ASSUME NEW t \in Threads, Sort(t)
      PROVE  TypesOK'
  <2>1. InOrder(DOMAIN table) \in Seq(Nat)
    <3>1. DOMAIN table \in SUBSET Nat
      BY <1>1 DEF Tables
    <3> QED
      BY <1>1, <3>1, SortedKeys
  <2>2. job' \in [Threads -> Job]
    <3> DEFINE q == InOrder(DOMAIN table)
    <3>1. job' = [job EXCEPT ![t].at = "publish", ![t].addrs = q]
      BY <1>5 DEF Sort
    <3> HIDE DEF q
    <3>2. [job[t] EXCEPT !.at = "publish", !.addrs = q] \in Job
      <4>1. job[t] \in Job /\ q \in Seq(Nat)
        BY <1>1, <2>1 DEF q
      <4>2. 0 \in Nat /\ "none" \in Names
        BY DEF Names
      <4> QED
        BY ONLY <4>1, <4>2, JobType
    <3> QED
      BY <1>1, <3>1, <3>2
  <2>3. \A u \in Threads : job'[u].at \in {"check", "insert"} => job'[u].todo # <<>>
    BY <1>1, <1>5 DEF Sort, Job
  <2> QED
    BY <1>1, <1>5, <2>2, <2>3 DEF Sort
<1>6. ASSUME NEW t \in Threads, Publish(t)
      PROVE  TypesOK'
  <2>1. job' \in [Threads -> Job] /\ job[t].addrs \in Seq(Nat)
    BY ZenonT(60), <1>1, <1>6 DEF Publish, Job
  <2>2. \A u \in Threads : job'[u].at \in {"check", "insert"} => job'[u].todo # <<>>
    BY <1>1, <1>6 DEF Publish, Job
  <2>3. DOMAIN table \in SUBSET Nat
    BY <1>1 DEF Tables
  <2> QED
    BY <1>1, <1>6, <2>1, <2>2, <2>3 DEF Publish
<1>7. ASSUME NEW t \in Threads, NEW query \in Queries, Lookup(t, query)
      PROVE  TypesOK'
  <2>1. query \in Nat
    BY SymbolsAssumption
  <2> DEFINE new == [NoJob EXCEPT !.at = IF DOMAIN table = {} THEN "missed"
                                         ELSE "search",
                                  !.query = query,
                                  !.owed = settled]
  <2>2. new \in Job /\ new.at \in {"missed", "search"}
    BY <1>1, <2>1 DEF Job
  <2>3. job' = [job EXCEPT ![t] = new]
    BY <1>7 DEF Lookup
  <2> HIDE DEF new
  <2>4. job' \in [Threads -> Job]
    BY <1>1, <2>2, <2>3
  <2>5. \A u \in Threads : job'[u].at \in {"check", "insert"} => job'[u].todo # <<>>
    BY <1>1, <2>2, <2>3
  <2>6. jobs' \in 0..MaxJobs
    BY <1>1, <1>7, ConstantTypes DEF Lookup, BeginJob
  <2> QED
    BY <1>1, <1>7, <2>4, <2>5, <2>6 DEF Lookup
<1>8. ASSUME NEW t \in Threads, Search(t)
      PROVE  TypesOK'
  <2> DEFINE idx == BisectRight(sortedAddrs, job[t].query)
  <2>1. CASE job' = [job EXCEPT ![t].at = "missed"]
    <3>1. [job[t] EXCEPT !.at = "missed"] \in Job
      <4>1. job[t] \in Job /\ job[t].addrs \in Seq(Nat)
            /\ job[t].base \in Nat /\ job[t].name \in Names
        BY <1>1 DEF Job
      <4> QED
        BY ONLY <4>1, JobType
    <3>2. job' \in [Threads -> Job]
      BY <1>1, <2>1, <3>1
    <3>3. \A u \in Threads : job'[u].at \in {"check", "insert"} => job'[u].todo # <<>>
      BY <1>1, <2>1 DEF Job
    <3> QED
      BY <1>1, <1>8, <3>2, <3>3 DEF Search
  <2>2. CASE job' = [job EXCEPT ![t].at = "name", ![t].base = sortedAddrs[idx]]
             /\ idx # 0
    <3>1. sortedAddrs[idx] \in Nat
      <4>1. idx \in 1..Len(sortedAddrs)
        <5>1. job[t].query \in Nat /\ Ascends(sortedAddrs)
          BY <1>1 DEF Job, IInv, ListOK
        <5>2. idx \in 0..Len(sortedAddrs) /\ Len(sortedAddrs) \in Nat
          BY SMTT(30), <1>1, <5>1, Bisect
        <5> QED
          BY <2>2, <5>2
      <4> QED
        BY <1>1, <4>1
    <3> DEFINE base == sortedAddrs[idx]
    <3> HIDE DEF base
    <3>2. job' = [job EXCEPT ![t].at = "name", ![t].base = base]
      BY <2>2 DEF base
    <3>3. [job[t] EXCEPT !.at = "name", !.base = base] \in Job
      <4>1. job[t] \in Job /\ base \in Nat /\ job[t].name \in Names /\ <<>> \in Seq(Nat)
        BY SMTT(30), <1>1, <3>1 DEF base, Job
      <4> QED
        BY ONLY <4>1, JobType
    <3>4. job' \in [Threads -> Job]
      BY <1>1, <3>2, <3>3
    <3>5. \A u \in Threads : job'[u].at \in {"check", "insert"} => job'[u].todo # <<>>
      BY <1>1, <3>2 DEF Job
    <3> QED
      BY <1>1, <1>8, <3>4, <3>5 DEF Search
  <2> QED
    BY <1>8, <2>1, <2>2 DEF Search
<1>9. ASSUME NEW t \in Threads, Name(t)
      PROVE  TypesOK'
  <2>1. job[t].base \in DOMAIN table
    BY <1>9 DEF IInv, LookupOK, LookupGood, Name
  <2>2. table[job[t].base] \in Names
    BY ZenonT(60), <1>1, <2>1 DEF Tables, Names
  <2>3. job' = [job EXCEPT ![t].at = "found", ![t].name = table[job[t].base]]
    BY <1>9 DEF Name
  <2> DEFINE name == table[job[t].base]
  <2> HIDE DEF name
  <2>4. [job[t] EXCEPT !.at = "found", !.name = name] \in Job
    <3>1. job[t] \in Job /\ job[t].base \in Nat /\ name \in Names /\ <<>> \in Seq(Nat)
      BY SMTT(30), <1>1, <2>2 DEF name, Job
    <3> QED
      BY ONLY <3>1, JobType
  <2>5. job' \in [Threads -> Job]
    BY <1>1, <2>3, <2>4 DEF name
  <2>6. \A u \in Threads : job'[u].at \in {"check", "insert"} => job'[u].todo # <<>>
    BY <1>1, <2>3 DEF Job
  <2> QED
    BY <1>1, <1>9, <2>5, <2>6 DEF Name
<1>10. ASSUME NEW t \in Threads, Done(t)
       PROVE  TypesOK'
  <2>1. job' = [job EXCEPT ![t] = NoJob] /\ NoJob.at = "idle"
    BY <1>10 DEF Done, NoJob
  <2>2. job' \in [Threads -> Job]
    BY <1>1, <2>1
  <2> QED
    BY <1>1, <1>10, <2>1, <2>2 DEF Done
<1>11. CASE UNCHANGED symbolVars
  BY <1>1, <1>11 DEF symbolVars
<1> QED
  BY <1>2, <1>3, <1>4, <1>5, <1>6, <1>7, <1>8, <1>9, <1>10, <1>11
     DEF SymbolsNext, SymbolsFinished

-----------------------------------------------------------------------------
\* A load that is alone

\* A step that only moves the caller leaves the others at what they were.
LEMMA LocalStep ==
  ASSUME TypesOK, NEW t \in Threads,
         Check(t) \/ Insert(t) \/ Sort(t) \/ Publish(t)
           \/ (\E query \in Queries : Lookup(t, query))
           \/ Search(t) \/ Name(t) \/ Done(t)
  PROVE  /\ \A u \in Threads : u # t => job'[u] = job[u]
         /\ job'[t].lone => job[t].lone
         /\ Loading(t) /\ job'[t].lone => Loading(t)'
         /\ ~Loading(t) => ~Loading(t)'
<1> USE DEF TypesOK, Job, Loading
<1> DEFINE rest == Loop(Tail(job[t].todo))
<1>1. CASE Check(t)
  <2>1. rest \in {"sort", "check"}
    BY DEF Loop
  <2>2. job' = IF AtCap(Head(job[t].todo)[1])
               THEN [job EXCEPT ![t].at = rest, ![t].todo = Tail(@),
                                ![t].dropped = @ + 1]
               ELSE [job EXCEPT ![t].at = "insert"]
    BY <1>1 DEF Check
  <2> HIDE DEF rest
  <2>3. job[t].at = "check"
    BY <1>1 DEF Check
  <2> QED
    BY <2>1, <2>2, <2>3
<1>2. CASE Insert(t)
  BY <1>2 DEF Insert, Loop
<1>3. CASE Sort(t)
  BY <1>3 DEF Sort
<1>4. CASE Publish(t)
  BY <1>4 DEF Publish
<1>5. CASE \E query \in Queries : Lookup(t, query)
  <2>1. PICK query \in Queries : Lookup(t, query)
    BY <1>5
  <2> DEFINE new == [NoJob EXCEPT !.at = IF DOMAIN table = {} THEN "missed"
                                         ELSE "search",
                                  !.query = query,
                                  !.owed = settled]
  <2>2. new.at \in {"missed", "search"} /\ new.lone = FALSE
    BY DEF NoJob
  <2>3. job' = [job EXCEPT ![t] = new] /\ job[t].at = "idle"
    BY <2>1 DEF Lookup, BeginJob
  <2> HIDE DEF new
  <2> QED
    BY <2>2, <2>3
<1>6. CASE Search(t)
  BY <1>6 DEF Search
<1>7. CASE Name(t)
  BY <1>7 DEF Name
<1>8. CASE Done(t)
  BY <1>8 DEF Done, NoJob
<1> QED
  BY <1>1, <1>2, <1>3, <1>4, <1>5, <1>6, <1>7, <1>8

\* Every step leaves a load that is alone alone.
LEMMA LoneStep ==
  ASSUME IInv, TypesOK', [SymbolsNext]_symbolVars
  PROVE  LoneOK'
<1>1. TypesOK /\ LoneOK
  BY DEF IInv
<1>2. ASSUME NEW t \in Threads, NEW paste \in Pastes, LoadText(t, paste)
      PROVE  LoneOK'
  <2>1. /\ \A u \in Threads : u # t => job'[u].lone = FALSE /\ job'[u].at = job[u].at
        /\ job'[t].lone <=> \A u \in Threads : ~Loading(u)
        /\ Loading(t)'
    <3> DEFINE lone == \A u \in Threads : ~Loading(u)
               new  == [NoJob EXCEPT !.at     = Loop(Parsed(paste)),
                                     !.parsed = Parsed(paste),
                                     !.todo   = Parsed(paste),
                                     !.before = table,
                                     !.lone   = lone]
    <3>1. new.at \in {"sort", "check"} /\ (new.lone <=> lone)
      BY DEF NoJob, Loop
    <3>2. job' = [u \in Threads |-> IF u = t THEN new
                                   ELSE [job[u] EXCEPT !.lone = FALSE]]
      BY <1>2 DEF LoadText
    <3> HIDE DEF new
    <3>3. \A u \in Threads : job[u] \in Job
      BY <1>1 DEF TypesOK
    <3>4. \A u \in Threads : u # t =>
            job'[u].lone = FALSE /\ job'[u].at = job[u].at
      BY <3>2, <3>3 DEF Job
    <3>5. job'[t] = new
      BY <3>2
    <3> QED
      BY <3>1, <3>4, <3>5 DEF Loading
  <2> QED
    BY <2>1 DEF LoneOK, Loading
<1>3. ASSUME NEW t \in Threads,
             Check(t) \/ Insert(t) \/ Sort(t) \/ Publish(t)
               \/ (\E query \in Queries : Lookup(t, query))
               \/ Search(t) \/ Name(t) \/ Done(t)
      PROVE  LoneOK'
  BY <1>1, <1>3, LocalStep DEF LoneOK, Loading
<1>4. CASE UNCHANGED symbolVars
  BY <1>1, <1>4 DEF symbolVars, LoneOK, Loading
<1> QED
  BY <1>2, <1>3, <1>4 DEF SymbolsNext, SymbolsFinished

-----------------------------------------------------------------------------
\* The lists

\* A step that changes neither the table nor the lists, and brings no thread
\* to publish, keeps the lists.
LEMMA SameLists ==
  ASSUME IInv, UNCHANGED <<table, sortedAddrs, settled>>,
         \A t \in Threads : job'[t].at = "publish" =>
           /\ job[t].at = "publish" /\ job'[t].addrs = job[t].addrs
           /\ job'[t].lone => job[t].lone
  PROVE  ListOK'
BY DEF IInv, ListOK

\* Every step keeps the lists ascending, within the table, and holding all
\* that is settled.
LEMMA ListStep ==
  ASSUME IInv, TypesOK', [SymbolsNext]_symbolVars
  PROVE  ListOK'
<1>1. TypesOK /\ LoneOK /\ ListOK
  BY DEF IInv
<1>2. ASSUME NEW t \in Threads, NEW paste \in Pastes, LoadText(t, paste)
      PROVE  ListOK'
  <2> DEFINE new == [NoJob EXCEPT !.at     = Loop(Parsed(paste)),
                                  !.parsed = Parsed(paste),
                                  !.todo   = Parsed(paste),
                                  !.before = table,
                                  !.lone   = \A u \in Threads : ~Loading(u)]
  <2>1. new.at # "publish"
    BY DEF NoJob, Loop
  <2>2. job' = [u \in Threads |-> IF u = t THEN new
                                 ELSE [job[u] EXCEPT !.lone = FALSE]]
    BY <1>2 DEF LoadText
  <2> HIDE DEF new
  <2>3. \A u \in Threads : job[u] \in Job
    BY <1>1 DEF TypesOK
  <2>4. \A u \in Threads : u # t =>
          /\ job'[u].lone = FALSE /\ job'[u].at = job[u].at
          /\ job'[u].addrs = job[u].addrs
    BY <2>2, <2>3 DEF Job
  <2>5. job'[t].at # "publish"
    BY <2>1, <2>2
  <2> QED
    BY <1>2, <2>4, <2>5, SameLists DEF LoadText
<1>3. ASSUME NEW t \in Threads,
             Check(t) \/ (\E query \in Queries : Lookup(t, query))
               \/ Search(t) \/ Name(t) \/ Done(t)
      PROVE  ListOK'
  <2>1. UNCHANGED <<table, sortedAddrs, settled>>
    BY <1>3 DEF Check, Lookup, Search, Name, Done
  <2>2. \A u \in Threads : u # t => job'[u] = job[u]
    BY <1>1, <1>3, LocalStep
  <2>3. job'[t].at # "publish"
    <3>1. job \in [Threads -> Job]
      BY <1>1 DEF TypesOK
    <3>2. CASE Check(t)
      BY <3>1, <3>2 DEF Check, Job, Loop
    <3>3. CASE \E query \in Queries : Lookup(t, query)
      BY <3>1, <3>3 DEF Lookup, NoJob
    <3>4. CASE Search(t)
      BY <3>1, <3>4 DEF Search, Job
    <3>5. CASE Name(t)
      BY <3>1, <3>5 DEF Name, Job
    <3>6. CASE Done(t)
      BY <3>1, <3>6 DEF Done, NoJob
    <3> QED
      BY <1>3, <3>2, <3>3, <3>4, <3>5, <3>6
  <2> QED
    BY <2>1, <2>2, <2>3, SameLists
<1>4. ASSUME NEW t \in Threads, Insert(t)
      PROVE  ListOK'
  <2>1. /\ DOMAIN table \subseteq DOMAIN table'
        /\ UNCHANGED <<sortedAddrs, settled>>
    BY <1>1, <1>4, InsertType DEF Insert
  <2>2. \A u \in Threads : u # t => job'[u] = job[u]
    BY <1>1, <1>4, LocalStep
  <2>3. job'[t].at # "publish"
    BY <1>1, <1>4 DEF Insert, Loop, TypesOK, Job
  <2>4. \A u \in Threads : job[u].at = "publish" => ~job[u].lone
    BY <1>1, <1>4 DEF LoneOK, Loading, Insert
  <2> QED
    BY <1>1, <2>1, <2>2, <2>3, <2>4 DEF ListOK
<1>5. ASSUME NEW t \in Threads, Sort(t)
      PROVE  ListOK'
  <2>1. \A u \in Threads : u # t => job'[u] = job[u]
    BY <1>1, <1>5, LocalStep
  <2>2. job'[t].addrs = InOrder(DOMAIN table)
    BY <1>1, <1>5 DEF Sort, TypesOK, Job
  <2>3. DOMAIN table \in SUBSET Nat /\ IsFiniteSet(DOMAIN table)
    BY <1>1 DEF TypesOK, Tables
  <2>4. Ascends(job'[t].addrs) /\ Listed(job'[t].addrs) = DOMAIN table
    BY <2>2, <2>3, SortedKeys
  <2>5. UNCHANGED <<table, sortedAddrs, settled>>
    BY <1>5 DEF Sort
  <2>6. settled \subseteq DOMAIN table
    BY <1>1 DEF ListOK
  <2> QED
    BY <1>1, <2>1, <2>4, <2>5, <2>6 DEF ListOK
<1>6. ASSUME NEW t \in Threads, Publish(t)
      PROVE  ListOK'
  <2>1. \A u \in Threads : u # t => job'[u] = job[u]
    BY <1>1, <1>6, LocalStep
  <2>2. /\ sortedAddrs' = job[t].addrs /\ table' = table
        /\ settled' = IF job[t].lone THEN DOMAIN table ELSE settled
        /\ job[t].at = "publish" /\ job'[t].at # "publish"
    BY <1>1, <1>6 DEF Publish, TypesOK, Job
  <2>3. /\ Ascends(job[t].addrs)
        /\ settled \subseteq Listed(job[t].addrs)
        /\ Listed(job[t].addrs) \subseteq DOMAIN table
        /\ job[t].lone => Listed(job[t].addrs) = DOMAIN table
    BY <1>1, <2>2 DEF ListOK
  <2>4. job[t].lone => \A u \in Threads : u # t => job[u].at # "publish"
    BY <1>1 DEF LoneOK, Loading
  <2>5. CASE job[t].lone
    BY <2>1, <2>2, <2>3, <2>4, <2>5 DEF ListOK
  <2>6. CASE ~job[t].lone
    BY <1>1, <2>1, <2>2, <2>3, <2>6 DEF ListOK
  <2> QED
    BY <2>5, <2>6
<1>7. CASE UNCHANGED symbolVars
  BY <1>7, SameLists DEF symbolVars
<1> QED
  BY <1>2, <1>3, <1>4, <1>5, <1>6, <1>7 DEF SymbolsNext, SymbolsFinished

\* What is settled stays settled, and is in the table.
LEMMA SettledGrows ==
  ASSUME IInv, [SymbolsNext]_symbolVars
  PROVE  /\ settled \subseteq settled'
         /\ DOMAIN table \subseteq DOMAIN table'
<1>1. TypesOK /\ settled \subseteq DOMAIN table
  BY DEF IInv, ListOK
<1>2. ASSUME NEW t \in Threads, Insert(t)
      PROVE  DOMAIN table \subseteq DOMAIN table' /\ settled' = settled
  BY <1>1, <1>2, InsertType DEF Insert
<1>3. ASSUME NEW t \in Threads, Publish(t)
      PROVE  settled \subseteq settled' /\ table' = table
  BY <1>1, <1>3 DEF Publish
<1>4. ASSUME NEW t \in Threads,
             (\E paste \in Pastes : LoadText(t, paste)) \/ Check(t) \/ Sort(t)
               \/ (\E query \in Queries : Lookup(t, query))
               \/ Search(t) \/ Name(t) \/ Done(t)
      PROVE  settled' = settled /\ table' = table
  BY <1>4 DEF LoadText, Check, Sort, Lookup, Search, Name, Done
<1> QED
  BY <1>2, <1>3, <1>4 DEF SymbolsNext, SymbolsFinished, symbolVars

-----------------------------------------------------------------------------
\* The lookups

\* Every step keeps the lookups sound.
LEMMA LookupStep ==
  ASSUME IInv, TypesOK', [SymbolsNext]_symbolVars
  PROVE  LookupOK'
<1> DEFINE Good(t) == LookupGood(job[t], settled, DOMAIN table)
<1>1. TypesOK /\ ListOK /\ \A t \in Threads : Good(t)
  BY DEF IInv, LookupOK, LookupGood
<1>2. settled \subseteq settled' /\ DOMAIN table \subseteq DOMAIN table'
  BY SettledGrows
<1>3. SUFFICES ASSUME NEW u \in Threads
               PROVE  LookupGood(job'[u], settled', DOMAIN table')
  BY DEF LookupOK, LookupGood, Near
<1>4. job[u] \in Job
  BY <1>1 DEF TypesOK
<1>5. ASSUME job'[u].at = job[u].at \/ job'[u].at \notin {"missed", "name", "found"},
             job'[u].owed = job[u].owed, job'[u].query = job[u].query,
             job'[u].base = job[u].base
      PROVE  LookupGood(job'[u], settled', DOMAIN table')
  BY <1>1, <1>2, <1>5 DEF LookupGood, Near
<1>6. ASSUME NEW t \in Threads, NEW paste \in Pastes, LoadText(t, paste)
      PROVE  LookupGood(job'[u], settled', DOMAIN table')
  <2> DEFINE new == [NoJob EXCEPT !.at     = Loop(Parsed(paste)),
                                  !.parsed = Parsed(paste),
                                  !.todo   = Parsed(paste),
                                  !.before = table,
                                  !.lone   = \A v \in Threads : ~Loading(v)]
  <2>1. new.at \in {"sort", "check"} /\ new.owed = {}
    BY DEF NoJob, Loop
  <2>2. job' = [v \in Threads |-> IF v = t THEN new
                                 ELSE [job[v] EXCEPT !.lone = FALSE]]
    BY <1>6 DEF LoadText
  <2> HIDE DEF new
  <2>3. CASE u = t
    BY <2>1, <2>2, <2>3 DEF LookupGood
  <2>4. CASE u # t
    BY <1>4, <1>5, <2>2, <2>4 DEF Job
  <2> QED
    BY <2>3, <2>4
<1>7. ASSUME NEW t \in Threads,
             Check(t) \/ Insert(t) \/ Sort(t) \/ Publish(t)
      PROVE  LookupGood(job'[u], settled', DOMAIN table')
  <2>1. CASE Check(t)
    BY ZenonT(120), <1>1, <1>4, <1>5, <2>1 DEF Check, TypesOK, Job, Loop
  <2>2. CASE Insert(t)
    BY <1>1, <1>4, <1>5, <2>2 DEF Insert, TypesOK, Job, Loop
  <2>3. CASE Sort(t)
    BY <1>1, <1>4, <1>5, <2>3 DEF Sort, TypesOK, Job
  <2>4. CASE Publish(t)
    BY <1>1, <1>4, <1>5, <2>4 DEF Publish, TypesOK, Job
  <2> QED
    BY <1>7, <2>1, <2>2, <2>3, <2>4
<1>8. ASSUME NEW t \in Threads, NEW query \in Queries, Lookup(t, query)
      PROVE  LookupGood(job'[u], settled', DOMAIN table')
  <2> DEFINE new == [NoJob EXCEPT !.at = IF DOMAIN table = {} THEN "missed"
                                         ELSE "search",
                                  !.query = query,
                                  !.owed = settled]
  <2>1. /\ new.at = IF DOMAIN table = {} THEN "missed" ELSE "search"
        /\ new.owed = settled
    BY DEF NoJob
  <2>2. job' = [job EXCEPT ![t] = new] /\ settled' = settled
    BY <1>8 DEF Lookup
  <2> HIDE DEF new
  <2>3. settled \subseteq DOMAIN table
    BY <1>1 DEF ListOK
  <2>4. CASE u = t
    BY <1>1, <2>1, <2>2, <2>3, <2>4 DEF LookupGood, Near, TypesOK
  <2>5. CASE u # t
    BY <1>1, <1>5, <2>2, <2>5 DEF TypesOK
  <2> QED
    BY <2>4, <2>5
<1>9. ASSUME NEW t \in Threads, Search(t)
      PROVE  LookupGood(job'[u], settled', DOMAIN table')
  <2> DEFINE query == job[t].query
             idx   == BisectRight(sortedAddrs, query)
             n     == Len(sortedAddrs)
  <2>1. /\ query \in Nat /\ n \in Nat /\ DOMAIN sortedAddrs = 1..n
        /\ \A i \in 1..n : sortedAddrs[i] \in Nat
    <3>1. query \in Nat
      BY <1>1 DEF TypesOK, Job
    <3>2. sortedAddrs \in Seq(Nat)
      BY <1>1 DEF TypesOK
    <3> HIDE DEF query
    <3> QED
      BY <3>1, <3>2
  <2>2. /\ idx \in 0..n
        /\ \A i \in 1..n : sortedAddrs[i] <= query <=> i <= idx
    <3>1. sortedAddrs \in Seq(Nat) /\ Ascends(sortedAddrs)
      BY <1>1 DEF TypesOK, ListOK
    <3> QED
      BY <2>1, <3>1, Bisect
  <2>3. job[t].owed \subseteq Listed(sortedAddrs)
    BY <1>1 DEF ListOK, LookupGood
  <2>4. \A a \in Near(job[t]) :
          /\ idx # 0
          /\ a <= sortedAddrs[idx] /\ a \in Nat
          /\ a <= query /\ query - a <= MaxSymbolDistance
    <3> SUFFICES ASSUME NEW a \in Near(job[t])
                 PROVE  /\ idx # 0
                        /\ a <= sortedAddrs[idx] /\ a \in Nat
                        /\ a <= query /\ query - a <= MaxSymbolDistance
      OBVIOUS
    <3>1. PICK i \in 1..n : sortedAddrs[i] = a
      BY <2>1, <2>3 DEF Near, Listed
    <3>2. a <= query /\ query - a <= MaxSymbolDistance
      BY DEF Near
    <3> HIDE DEF idx, n, query
    <3>3. i <= idx /\ idx \in 1..n
      BY <2>1, <2>2, <3>1, <3>2
    <3>4. a <= sortedAddrs[idx]
      <4>1. CASE i = idx
        BY <2>1, <3>1, <4>1
      <4>2. CASE i < idx
        BY <1>1, <2>1, <3>1, <3>3, <4>2 DEF ListOK, Ascends
      <4> QED
        BY <3>3, <4>1, <4>2, <2>1
    <3> QED
      BY <2>1, <3>1, <3>2, <3>3, <3>4
  <2>5. CASE u # t
    <3>1. job'[u] = job[u]
      BY <1>1, <1>9, <2>5, LocalStep
    <3> QED
      BY <1>5, <3>1
  <2>6. CASE u = t /\ (idx = 0 \/ query - sortedAddrs[idx] > MaxSymbolDistance)
    <3>1. job' = [job EXCEPT ![t].at = "missed"]
      BY <1>9, <2>6 DEF Search
    <3>2. /\ job'[u].at = "missed" /\ job'[u].owed = job[t].owed
          /\ job'[u].query = job[t].query
      BY <1>1, <1>4, <2>6, <3>1 DEF TypesOK, Job
    <3>3. Near(job[t]) = {}
      <4> SUFFICES ASSUME NEW a \in Near(job[t])
                   PROVE  FALSE
        OBVIOUS
      <4> HIDE DEF idx, n, query
      <4>1. idx \in 1..n /\ sortedAddrs[idx] \in Nat
        BY <2>1, <2>2, <2>4
      <4> QED
        BY <2>1, <2>4, <2>6, <4>1, ConstantTypes
    <3> QED
      BY <1>1, <1>2, <2>6, <3>2, <3>3 DEF LookupGood, Near
  <2>7. CASE u = t /\ ~(idx = 0 \/ query - sortedAddrs[idx] > MaxSymbolDistance)
    <3> DEFINE base == sortedAddrs[idx]
    <3>1. job' = [job EXCEPT ![t].at = "name", ![t].base = base]
      BY <1>9, <2>7 DEF Search
    <3>2. idx \in 1..n /\ base \in Nat /\ base <= query
      <4> HIDE DEF idx, n, query
      <4> QED
        BY <2>1, <2>2, <2>7
    <3>3. query - base \in 0..MaxSymbolDistance
      <4> HIDE DEF idx, query, base
      <4>1. ~(query - base > MaxSymbolDistance)
        BY <2>7 DEF base
      <4> QED
        BY <2>1, <3>2, <4>1, ConstantTypes
    <3>4. base \in DOMAIN table
      BY <1>1, <2>1, <3>2 DEF ListOK, Listed
    <3> HIDE DEF idx, base
    <3>5. /\ job'[u].at = "name" /\ job'[u].owed = job[t].owed
          /\ job'[u].query = job[t].query /\ job'[u].base = base
      BY <1>1, <1>4, <2>7, <3>1 DEF TypesOK, Job
    <3>6. \A a \in Near(job[t]) : a <= base
      BY <2>4 DEF base
    <3> QED
      BY <1>1, <1>2, <2>7, <3>3, <3>4, <3>5, <3>6 DEF LookupGood, Near
  <2> QED
    BY <2>5, <2>6, <2>7
<1>10. ASSUME NEW t \in Threads, Name(t)
       PROVE  LookupGood(job'[u], settled', DOMAIN table')
  <2>1. CASE u = t
    <3>1. /\ job'[u].at = "found" /\ job[u].at = "name"
          /\ job'[u].owed = job[u].owed /\ job'[u].query = job[u].query
          /\ job'[u].base = job[u].base
      BY <1>1, <1>4, <1>10, <2>1 DEF Name, TypesOK, Job
    <3> QED
      BY <1>1, <1>2, <3>1 DEF LookupGood, Near
  <2>2. CASE u # t
    BY <1>1, <1>5, <1>10, <2>2 DEF Name, TypesOK
  <2> QED
    BY <2>1, <2>2
<1>11. ASSUME NEW t \in Threads, Done(t)
       PROVE  LookupGood(job'[u], settled', DOMAIN table')
  <2>1. NoJob.at = "idle" /\ NoJob.owed = {}
    BY DEF NoJob
  <2>2. job' = [job EXCEPT ![t] = NoJob]
    BY <1>11 DEF Done
  <2>3. CASE u = t
    BY <1>1, <2>1, <2>2, <2>3 DEF LookupGood, TypesOK
  <2>4. CASE u # t
    BY <1>1, <1>5, <2>2, <2>4 DEF TypesOK
  <2> QED
    BY <2>3, <2>4
<1>12. CASE UNCHANGED symbolVars
  BY <1>5, <1>12 DEF symbolVars
<1> QED
  BY <1>6, <1>7, <1>8, <1>9, <1>10, <1>11, <1>12
     DEF SymbolsNext, SymbolsFinished

-----------------------------------------------------------------------------
\* The cap

\* There are no more threads between the test and the insertion than threads.
LEMMA EnteringType ==
  ASSUME TypesOK
  PROVE  /\ IsFiniteSet(Entering) /\ Cardinality(Entering) \in Nat
         /\ Cardinality(Entering) <= Cardinality(Threads)
         /\ Cardinality(DOMAIN table) \in Nat
<1>1. Entering \in SUBSET Threads
  BY DEF Entering
<1>2. IsFiniteSet(Entering) /\ Cardinality(Entering) <= Cardinality(Threads)
  BY <1>1, ConstantTypes, FS_Subset
<1> QED
  BY <1>2, FS_CardinalityType DEF TypesOK

\* A step that inserts nothing and sends no thread to insert keeps the cap.
LEMMA SameCap ==
  ASSUME IInv, TypesOK', table' = table,
         \A t \in Threads : job'[t].at = "insert" =>
           job[t].at = "insert" /\ job'[t].todo = job[t].todo
  PROVE  CapOK'
<1>1. TypesOK /\ CapOK
  BY DEF IInv
<1>2. Entering' \in SUBSET Entering
  BY DEF Entering
<1>3. IsFiniteSet(Entering) /\ Cardinality(Entering) \in Nat
      /\ Cardinality(DOMAIN table) \in Nat
  BY <1>1, EnteringType
<1>4. Cardinality(Entering') <= Cardinality(Entering)
  BY <1>2, <1>3, FS_Subset
<1>5. Cardinality(Entering') \in Nat
  BY <1>2, <1>3, FS_Subset, FS_CardinalityType
<1> QED
  BY <1>1, <1>3, <1>4, <1>5, ConstantTypes DEF CapOK

\* Every step keeps the count of entries and of those about to enter.
LEMMA CapStep ==
  ASSUME IInv, TypesOK', [SymbolsNext]_symbolVars
  PROVE  CapOK'
<1>1. TypesOK /\ CapOK
  BY DEF IInv
<1> DEFINE size == Cardinality(DOMAIN table)
           ents == Cardinality(Entering)
           most == Cardinality(Threads)
<1>2. /\ size \in Nat /\ ents \in Nat /\ most \in Nat /\ MaxSymbols \in Nat
      /\ size + ents <= MaxSymbols + most - 1
  BY <1>1, EnteringType, ConstantTypes DEF CapOK
<1>3. ASSUME NEW t \in Threads, NEW paste \in Pastes, LoadText(t, paste)
      PROVE  CapOK'
  <2> DEFINE new == [NoJob EXCEPT !.at     = Loop(Parsed(paste)),
                                  !.parsed = Parsed(paste),
                                  !.todo   = Parsed(paste),
                                  !.before = table,
                                  !.lone   = \A v \in Threads : ~Loading(v)]
  <2>1. new.at # "insert"
    BY DEF NoJob, Loop
  <2>2. job' = [v \in Threads |-> IF v = t THEN new
                                 ELSE [job[v] EXCEPT !.lone = FALSE]]
    BY <1>3 DEF LoadText
  <2> HIDE DEF new
  <2>3. \A u \in Threads : job[u] \in Job
    BY <1>1 DEF TypesOK
  <2>4. \A u \in Threads : u # t =>
          job'[u].at = job[u].at /\ job'[u].todo = job[u].todo
    BY <2>2, <2>3 DEF Job
  <2>5. job'[t].at # "insert"
    BY <2>1, <2>2
  <2> QED
    BY <1>3, <2>4, <2>5, SameCap DEF LoadText
<1>4. ASSUME NEW t \in Threads, Check(t)
      PROVE  CapOK'
  <2> DEFINE a == Head(job[t].todo)[1]
  <2>1. table' = table /\ \A u \in Threads : u # t => job'[u] = job[u]
    BY <1>1, <1>4, LocalStep DEF Check
  <2>2. CASE AtCap(a)
    <3>1. job'[t].at # "insert"
      BY ZenonT(60), <1>1, <1>4, <2>2 DEF Check, Loop, TypesOK, Job
    <3> QED
      BY <2>1, <3>1, SameCap
  <2>3. CASE a \in DOMAIN table
    <3>1. job' = [job EXCEPT ![t].at = "insert"]
      BY <1>4, <2>3 DEF Check, AtCap
    <3>2. job'[t].todo = job[t].todo /\ job'[t].at = "insert"
      BY <1>1, <3>1 DEF TypesOK, Job
    <3>3. Entering' = Entering
      BY <1>4, <2>1, <2>3, <3>2 DEF Entering, Check
    <3> QED
      BY <1>1, <2>1, <3>3 DEF CapOK
  <2>4. CASE ~AtCap(a) /\ a \notin DOMAIN table
    <3>1. size <= MaxSymbols - 1
      BY <1>2, <2>4 DEF AtCap
    <3>2. Cardinality(Entering)' \in Nat /\ Cardinality(Entering)' <= most
      <4>1. Entering' \in SUBSET Threads
        BY DEF Entering
      <4> QED
        BY <4>1, ConstantTypes, FS_Subset, FS_CardinalityType
    <3>3. Cardinality(DOMAIN table') = size
      BY <2>1
    <3> HIDE DEF size, most
    <3>4. Cardinality(DOMAIN table') + Cardinality(Entering)'
            <= MaxSymbols + most - 1
      BY <1>2, <3>1, <3>2, <3>3
    <3> QED
      BY <3>4 DEF CapOK, most
  <2> QED
    BY <2>2, <2>3, <2>4
<1>5. ASSUME NEW t \in Threads, Insert(t)
      PROVE  CapOK'
  <2> DEFINE a == Head(job[t].todo)[1]
  <2>1. DOMAIN table' = DOMAIN table \cup {a}
        /\ \A u \in Threads : u # t => job'[u] = job[u]
    BY <1>1, <1>5, LocalStep, InsertType
  <2>2. job'[t].at # "insert"
    BY <1>1, <1>5 DEF Insert, Loop, TypesOK, Job
  <2>3. Entering' \in SUBSET Entering /\ t \notin Entering'
    BY <2>1, <2>2 DEF Entering
  <2>4. IsFiniteSet(Entering) /\ IsFiniteSet(DOMAIN table)
    BY <1>1, EnteringType DEF TypesOK
  <2>5. Cardinality(Entering') \in Nat
    BY <2>3, <2>4, FS_Subset, FS_CardinalityType
  <2>6. CASE a \in DOMAIN table
    <3>1. Cardinality(Entering') <= ents
      BY <2>3, <2>4, FS_Subset
    <3>2. Cardinality(DOMAIN table') = size
      BY <2>1, <2>6
    <3> HIDE DEF size, ents, most
    <3>3. Cardinality(DOMAIN table') + Cardinality(Entering')
            <= MaxSymbols + most - 1
      BY <1>2, <2>5, <3>1, <3>2
    <3> QED
      BY <3>3 DEF CapOK, most
  <2>7. CASE a \notin DOMAIN table
    <3>1. t \in Entering
      BY <1>5, <2>7 DEF Entering, Insert
    <3>2. Cardinality(Entering') < ents
      BY <2>3, <2>4, <3>1, ProperSubsetIsSmaller
    <3>3. Cardinality(DOMAIN table') = size + 1
      BY <2>1, <2>4, <2>7, FS_AddElement
    <3> HIDE DEF size, ents, most
    <3>4. Cardinality(DOMAIN table') + Cardinality(Entering')
            <= MaxSymbols + most - 1
      BY <1>2, <2>5, <3>2, <3>3
    <3> QED
      BY <3>4 DEF CapOK, most
  <2> QED
    BY <2>6, <2>7
<1>6. ASSUME NEW t \in Threads,
             Sort(t) \/ Publish(t) \/ (\E query \in Queries : Lookup(t, query))
               \/ Search(t) \/ Name(t) \/ Done(t)
      PROVE  CapOK'
  <2>1. table' = table
    BY <1>6 DEF Sort, Publish, Lookup, Search, Name, Done
  <2>2. \A u \in Threads : u # t => job'[u] = job[u]
    BY <1>1, <1>6, LocalStep
  <2>3. job'[t].at # "insert"
    <3>1. job \in [Threads -> Job]
      BY <1>1 DEF TypesOK
    <3>2. CASE Sort(t)
      BY <3>1, <3>2 DEF Sort, Job
    <3>3. CASE Publish(t)
      BY <3>1, <3>3 DEF Publish, Job
    <3>4. CASE \E query \in Queries : Lookup(t, query)
      BY <3>1, <3>4 DEF Lookup, NoJob
    <3>5. CASE Search(t)
      BY <3>1, <3>5 DEF Search, Job
    <3>6. CASE Name(t)
      BY <3>1, <3>6 DEF Name, Job
    <3>7. CASE Done(t)
      BY <3>1, <3>7 DEF Done, NoJob
    <3> QED
      BY <1>6, <3>2, <3>3, <3>4, <3>5, <3>6, <3>7
  <2> QED
    BY <2>1, <2>2, <2>3, SameCap
<1>7. CASE UNCHANGED symbolVars
  BY <1>7, SameCap DEF symbolVars
<1> QED
  BY <1>3, <1>4, <1>5, <1>6, <1>7 DEF SymbolsNext, SymbolsFinished

-----------------------------------------------------------------------------
\* What a lone load has done

\* The addresses of the first entries are finitely many, and one entry adds
\* its own.
LEMMA NewType ==
  ASSUME NEW j \in Job, IsFiniteSet(DOMAIN j.before), NEW k \in 0..Len(j.parsed)
  PROVE  /\ IsFiniteSet(New(j, k)) /\ Cardinality(New(j, k)) \in Nat
         /\ Room(j) \in Int
         /\ Cardinality(DOMAIN j.before) \in Nat
<1> DEFINE T == {j.parsed[i][1] : i \in 1..k}
           f == [i \in 1..k |-> j.parsed[i][1]]
<1>1. k \in Nat
  BY DEF Job
<1>2. IsFiniteSet(1..k)
  BY <1>1, FS_Interval
<1>3. f \in Surjection(1..k, T)
  BY DEF Surjection
<1>4. IsFiniteSet(T)
  BY <1>2, <1>3, FS_Surjection
<1>5. IsFiniteSet(New(j, k))
  <2>1. New(j, k) \in SUBSET T
    BY DEF New
  <2> QED
    BY <1>4, <2>1, FS_Subset
<1>6. Cardinality(DOMAIN j.before) \in Nat
  BY FS_CardinalityType
<1> QED
  BY <1>5, <1>6, FS_CardinalityType, ConstantTypes DEF Room

\* The new addresses only get more.
LEMMA NewGrows ==
  ASSUME NEW j \in Job, IsFiniteSet(DOMAIN j.before),
         NEW k \in 0..Len(j.parsed), NEW h \in 0..k
  PROVE  Cardinality(New(j, h)) <= Cardinality(New(j, k))
<1>1. k \in Int /\ h \in Int /\ h <= k
  BY DEF Job
<1>2. New(j, h) \in SUBSET New(j, k)
  BY <1>1 DEF New
<1> QED
  BY <1>2, NewType, FS_Subset

\* What the next entry adds.
LEMMA NextEntry ==
  ASSUME NEW j \in Job, IsFiniteSet(DOMAIN j.before),
         NEW k \in 0..Len(j.parsed), k + 1 \in 0..Len(j.parsed)
  PROVE  LET a == j.parsed[k + 1][1]
         IN  /\ New(j, k + 1) = New(j, k) \cup ({a} \ DOMAIN j.before)
             /\ Cardinality(New(j, k + 1)) <= Cardinality(New(j, k)) + 1
             /\ Fits(j, k + 1) =
                  Fits(j, k) \cup (IF Cardinality(New(j, k + 1)) <= Room(j)
                                   THEN {a} ELSE {})
<1> DEFINE a == j.parsed[k + 1][1]
<1>1. k \in Nat /\ 1..(k + 1) = (1..k) \cup {k + 1}
  BY DEF Job
<1>2. New(j, k + 1) = New(j, k) \cup ({a} \ DOMAIN j.before)
  BY <1>1 DEF New
<1>3. Cardinality(New(j, k + 1)) <= Cardinality(New(j, k)) + 1
  <2>1. New(j, k + 1) \in SUBSET (New(j, k) \cup {a})
    BY <1>2
  <2>2. IsFiniteSet(New(j, k)) /\ Cardinality(New(j, k)) \in Nat
    BY NewType
  <2>3. /\ IsFiniteSet(New(j, k) \cup {a})
        /\ Cardinality(New(j, k) \cup {a}) \in
             {Cardinality(New(j, k)), Cardinality(New(j, k)) + 1}
    BY <2>2, FS_AddElement
  <2>4. Cardinality(New(j, k + 1)) <= Cardinality(New(j, k) \cup {a})
    BY <2>1, <2>3, FS_Subset
  <2>5. Cardinality(New(j, k + 1)) \in Nat
    BY NewType
  <2> HIDE DEF a
  <2> QED
    BY <2>2, <2>3, <2>4, <2>5
<1>4. Fits(j, k + 1) =
        Fits(j, k) \cup (IF Cardinality(New(j, k + 1)) <= Room(j)
                         THEN {a} ELSE {})
  BY <1>1 DEF Fits
<1> QED
  BY <1>2, <1>3, <1>4

\* While all that is new has room, all of it is in.
LEMMA AllFit ==
  ASSUME NEW j \in Job, IsFiniteSet(DOMAIN j.before),
         NEW k \in 0..Len(j.parsed), Cardinality(New(j, k)) <= Room(j)
  PROVE  /\ DOMAIN j.before \cup Fits(j, k) = DOMAIN j.before \cup New(j, k)
         /\ Cardinality(DOMAIN j.before \cup Fits(j, k)) =
              Cardinality(DOMAIN j.before) + Cardinality(New(j, k))
<1>1. ASSUME NEW h \in 1..k
      PROVE  Cardinality(New(j, h)) <= Room(j)
  <2>1. h \in 0..k /\ h \in 0..Len(j.parsed) /\ k \in Nat
    BY DEF Job
  <2> QED
    BY <2>1, NewGrows, NewType
<1>2. Fits(j, k) = {j.parsed[i][1] : i \in 1..k}
  BY <1>1 DEF Fits
<1>3. DOMAIN j.before \cup Fits(j, k) = DOMAIN j.before \cup New(j, k)
  BY <1>2 DEF New
<1>4. DOMAIN j.before \cap New(j, k) = {}
  BY DEF New
<1>5. Cardinality(DOMAIN j.before \cup New(j, k)) =
        Cardinality(DOMAIN j.before) + Cardinality(New(j, k)) - Cardinality({})
  BY <1>4, NewType, FS_Union
<1>6. /\ Cardinality(DOMAIN j.before) \in Nat
      /\ Cardinality(New(j, k)) \in Nat /\ Cardinality({}) = 0
  BY NewType, FS_EmptySet
<1>7. Cardinality(DOMAIN j.before \cup New(j, k)) =
        Cardinality(DOMAIN j.before) + Cardinality(New(j, k))
  BY ONLY <1>5, <1>6
<1> QED
  BY ONLY <1>3, <1>7

\* In a table with no room for one more, the entries that fit are as many as
\* there was room for.
LEMMA FullTable ==
  ASSUME NEW j \in Job, IsFiniteSet(DOMAIN j.before),
         NEW k \in 0..Len(j.parsed), k + 1 \in 0..Len(j.parsed),
         Cardinality(DOMAIN j.before \cup Fits(j, k)) >= MaxSymbols,
         j.parsed[k + 1][1] \notin DOMAIN j.before \cup Fits(j, k)
  PROVE  Cardinality(New(j, k + 1)) > Room(j)
<1> DEFINE a == j.parsed[k + 1][1]
           F == Fits(j, k) \ DOMAIN j.before
           B == DOMAIN j.before
<1>1. F \in SUBSET New(j, k) /\ a \notin F /\ a \notin B
  BY DEF New, Fits
<1>2. New(j, k + 1) = New(j, k) \cup ({a} \ B)
  BY NextEntry
<1>3. F \cup {a} \in SUBSET New(j, k + 1)
  BY <1>1, <1>2
<1> HIDE DEF a
<1>4. IsFiniteSet(F) /\ Cardinality(F) \in Nat
  BY <1>1, NewType, FS_Subset, FS_CardinalityType
<1>5. Cardinality(B \cup F) = Cardinality(B) + Cardinality(F) - Cardinality({})
  <2>1. B \cap F = {}
    OBVIOUS
  <2> HIDE DEF F
  <2> QED
    BY <1>4, <2>1, NewType, FS_Union
<1>6. B \cup F = B \cup Fits(j, k)
  OBVIOUS
<1>7. Cardinality(F \cup {a}) = Cardinality(F) + 1
  BY <1>1, <1>4, FS_AddElement
<1>8. Cardinality(F \cup {a}) <= Cardinality(New(j, k + 1))
  BY <1>3, NewType, FS_Subset
<1>9. Cardinality(B) + Cardinality(F) >= MaxSymbols
  <2>1. Cardinality(B) \in Nat /\ Cardinality({}) = 0
    BY NewType, FS_EmptySet
  <2>2. Cardinality(B \cup F) >= MaxSymbols
    BY <1>6
  <2> HIDE DEF B, F
  <2> QED
    BY <1>4, <1>5, <2>1, <2>2
<1>10. /\ Cardinality(B) \in Nat /\ Room(j) = MaxSymbols - Cardinality(B)
       /\ Cardinality(New(j, k + 1)) \in Nat
  BY NewType DEF Room
<1> HIDE DEF B, F
<1> QED
  BY <1>4, <1>7, <1>8, <1>9, <1>10, ConstantTypes

\* Where a lone load stands depends on its job and the table alone.
LEMMA SameLoad ==
  ASSUME NEW t \in Threads, LoadedSoFar(job[t], table), table' = table,
         job'[t].parsed = job[t].parsed, job'[t].todo = job[t].todo,
         job'[t].before = job[t].before
  PROVE  LoadedSoFar(job'[t], table')
<1> DEFINE i == job[t]
           j == job'[t]
           k == Taken(i)
<1>1. /\ j.parsed = i.parsed /\ j.todo = i.todo /\ j.before = i.before
      /\ Loaded(i, table, k)
  BY DEF LoadedSoFar
<1>2. Taken(j) = k
  BY <1>1 DEF Taken
<1> HIDE DEF i, j, k
<1>3. Fits(j, k) = Fits(i, k) /\ New(j, k) = New(i, k) /\ Room(j) = Room(i)
  BY <1>1 DEF Fits, New, Room
<1>4. Loaded(j, table, k)
  BY <1>1, <1>3 DEF Loaded
<1>5. LoadedSoFar(j, table')
  BY <1>2, <1>4 DEF LoadedSoFar
<1> QED
  BY <1>5 DEF j

\* A lone load takes one entry off its text: it is dropped by a full table,
\* or inserted.
LEMMA EntryTaken ==
  ASSUME IInv, TypesOK', NEW t \in Threads, LoadedSoFar(job[t], table),
         job[t].todo # <<>>,
         job'[t].parsed = job[t].parsed, job'[t].todo = Tail(job[t].todo),
         job'[t].before = job[t].before,
         \/ AtCap(Head(job[t].todo)[1]) /\ table' = table
         \/ ~AtCap(Head(job[t].todo)[1]) /\ Insert(t)
  PROVE  LoadedSoFar(job'[t], table')
<1> DEFINE j == job[t]
           n == Len(j.parsed)
           k == Taken(j)
           a == j.parsed[k + 1][1]
           B == DOMAIN j.before
           full == Cardinality(New(j, k + 1)) > Room(j)
<1>1. /\ j \in Job /\ j.parsed \in Seq(Pair) /\ j.todo \in Seq(Pair)
      /\ n \in Nat
  BY SMTT(30) DEF IInv, TypesOK, Job
<1>2. /\ IsFiniteSet(B) /\ k \in 0..n /\ k = n - Len(j.todo)
      /\ \A i \in 1..Len(j.todo) : j.todo[i] = j.parsed[k + i]
      /\ DOMAIN table = B \cup Fits(j, k)
      /\ Cardinality(New(j, k)) > Room(j) =>
           Cardinality(DOMAIN table) >= MaxSymbols
      /\ \A b \in DOMAIN table :
           \/ \E i \in 1..k : /\ j.parsed[i] = <<b, table[b]>>
                              /\ \A h \in (i + 1)..k : j.parsed[h][1] # b
           \/ /\ table[b] = j.before[b]
              /\ \A h \in 1..k : j.parsed[h][1] # b
  BY DEF LoadedSoFar, Loaded, Named, Taken
<1>3. /\ Len(j.todo) \in Nat \ {0} /\ k \in Nat /\ k + 1 \in 0..n
      /\ Head(j.todo) = j.parsed[k + 1]
  <2>1. Len(j.todo) \in Nat \ {0} /\ Head(j.todo) = j.todo[1]
    BY <1>1
  <2> HIDE DEF k, n
  <2>2. k \in Nat /\ k + 1 \in 0..n
    BY <1>1, <1>2, <2>1
  <2>3. j.todo[1] = j.parsed[k + 1]
    BY <1>2, <2>1
  <2> QED
    BY <2>1, <2>2, <2>3
<1>4. job'[t].parsed = j.parsed /\ job'[t].before = j.before
      /\ Taken(job'[t]) = k + 1
      /\ \A i \in 1..Len(job'[t].todo) : job'[t].todo[i] = j.parsed[k + 1 + i]
  <2> DEFINE todo == j.todo
             rest == Tail(todo)
  <2>1. todo \in Seq(Pair) /\ todo # <<>>
    BY <1>1
  <2> HIDE DEF todo
  <2>2. Len(rest) = Len(todo) - 1 /\ Len(todo) \in Nat \ {0}
        /\ \A i \in 1..Len(rest) : rest[i] = todo[i + 1]
    BY <2>1
  <2> HIDE DEF rest
  <2>3. n - Len(rest) = n - Len(todo) + 1
    BY <1>1, <2>2
  <2>4. Taken(job'[t]) = k + 1
    <3>1. job'[t].parsed = j.parsed /\ job'[t].todo = rest
      BY DEF rest, todo
    <3> QED
      BY <2>3, <3>1 DEF Taken, todo
  <2>5. ASSUME NEW i \in 1..Len(rest)
        PROVE  rest[i] = j.parsed[k + 1 + i]
    <3>1. rest[i] = todo[i + 1] /\ i + 1 \in 1..Len(todo)
      BY <2>2
    <3>2. todo[i + 1] = j.parsed[k + (i + 1)]
      BY <1>2, <3>1 DEF todo
    <3>3. k + (i + 1) = k + 1 + i
      BY <1>3, <2>2
    <3> QED
      BY <3>1, <3>2, <3>3
  <2>6. job'[t].todo = rest
    BY DEF rest, todo
  <2> QED
    BY <2>4, <2>5, <2>6
<1>5. /\ Fits(j, k + 1) = Fits(j, k) \cup (IF full THEN {} ELSE {a})
      /\ New(j, k + 1) = New(j, k) \cup ({a} \ B)
      /\ Cardinality(New(j, k + 1)) <= Cardinality(New(j, k)) + 1
      /\ Cardinality(New(j, k)) \in Nat /\ Cardinality(New(j, k + 1)) \in Nat
      /\ Room(j) = MaxSymbols - Cardinality(B) /\ Cardinality(B) \in Nat
      /\ Cardinality(DOMAIN table) \in Nat
  <2>1. /\ Cardinality(New(j, k)) \in Nat /\ Cardinality(New(j, k + 1)) \in Nat
        /\ Room(j) = MaxSymbols - Cardinality(B) /\ Cardinality(B) \in Nat
        /\ Cardinality(DOMAIN table) \in Nat /\ Room(j) \in Int
    BY <1>1, <1>2, <1>3, NewType, EnteringType DEF Room, IInv
  <2>2. Fits(j, k + 1) = Fits(j, k) \cup (IF Cardinality(New(j, k + 1)) <= Room(j)
                                          THEN {a} ELSE {})
        /\ New(j, k + 1) = New(j, k) \cup ({a} \ B)
        /\ Cardinality(New(j, k + 1)) <= Cardinality(New(j, k)) + 1
    BY <1>1, <1>2, <1>3, NextEntry
  <2>3. full <=> ~(Cardinality(New(j, k + 1)) <= Room(j))
    BY <2>1
  <2> QED
    BY <2>1, <2>2, <2>3
<1>6. \* What is in the table then.
      /\ DOMAIN table' = B \cup Fits(j, k + 1)
      /\ full => Cardinality(DOMAIN table') >= MaxSymbols
  <2>1. CASE AtCap(a) /\ table' = table
    <3>1. a \notin DOMAIN table /\ Cardinality(DOMAIN table) >= MaxSymbols
      BY <2>1 DEF AtCap
    <3>2. full
      BY <1>1, <1>2, <1>3, <3>1, FullTable
    <3> QED
      BY <1>2, <1>5, <2>1, <3>1, <3>2
  <2>2. CASE ~AtCap(a) /\ Insert(t)
    <3>1. DOMAIN table' = DOMAIN table \cup {a}
      BY <1>3, <2>2, InsertType DEF IInv
    <3>2. CASE ~full
      BY <1>2, <1>5, <3>1, <3>2
    <3>3. CASE full
      <4>1. Cardinality(New(j, k)) <= Room(j) =>
              /\ DOMAIN table = B \cup New(j, k)
              /\ Cardinality(DOMAIN table) = Cardinality(B) + Cardinality(New(j, k))
        BY ZenonT(60), <1>1, <1>2, AllFit
      <4>2. a \in DOMAIN table
        <5> SUFFICES ASSUME a \notin DOMAIN table
                     PROVE  FALSE
          OBVIOUS
        <5>1. ~(Cardinality(DOMAIN table) >= MaxSymbols)
          BY <2>2 DEF AtCap
        <5>2. ~(Cardinality(New(j, k)) > Room(j))
          BY <1>2, <5>1
        <5> DEFINE new  == Cardinality(New(j, k))
                   next == Cardinality(New(j, k + 1))
                   size == Cardinality(DOMAIN table)
                   bef  == Cardinality(B)
        <5>3. /\ new \in Nat /\ next \in Nat /\ bef \in Nat /\ size \in Nat
              /\ Room(j) = MaxSymbols - bef /\ next <= new + 1
              /\ new <= Room(j) => size = bef + new
              /\ ~(size >= MaxSymbols) /\ ~(new > Room(j)) /\ next > Room(j)
          BY <1>5, <3>3, <4>1, <5>1, <5>2
        <5> HIDE DEF new, next, size, bef
        <5> QED
          BY <5>3, ConstantTypes
      <4>3. Cardinality(DOMAIN table) >= MaxSymbols
        <5>1. CASE Cardinality(New(j, k)) > Room(j)
          BY <1>2, <5>1
        <5>2. CASE ~(Cardinality(New(j, k)) > Room(j))
          <6>1. Cardinality(New(j, k)) <= Room(j)
            <7> HIDE DEF k, j, B
            <7> QED
              BY <1>5, <5>2, ConstantTypes
          <6>2. {a} \ B \subseteq New(j, k)
            BY <4>1, <4>2, <6>1
          <6>3. New(j, k + 1) = New(j, k)
            BY <1>5, <6>2
          <6> QED
            BY <3>3, <5>2, <6>3
        <5> QED
          BY <5>1, <5>2
      <4>4. DOMAIN table' = DOMAIN table
        BY <3>1, <4>2
      <4> QED
        BY <1>2, <1>5, <3>3, <4>3, <4>4
    <3> QED
      BY <3>2, <3>3
  <2> QED
    BY <1>3, <2>1, <2>2
<1>7. \* And under which names.
      ASSUME NEW b \in DOMAIN table'
      PROVE  \/ \E i \in 1..(k + 1) :
                  /\ j.parsed[i] = <<b, table'[b]>>
                  /\ \A h \in (i + 1)..(k + 1) : j.parsed[h][1] # b
             \/ /\ table'[b] = j.before[b]
                /\ \A h \in 1..(k + 1) : j.parsed[h][1] # b
  <2>1. CASE b # a
    <3>1. b \in DOMAIN table /\ table'[b] = table[b]
      <4>1. Head(job[t].todo)[1] = a
        BY <1>3
      <4> HIDE DEF a
      <4>2. CASE Insert(t)
        BY <2>1, <4>1, <4>2, InsertType DEF IInv
      <4>3. CASE table' = table
        BY <4>3
      <4> QED
        BY <4>2, <4>3
    <3> HIDE DEF k, j
    <3>2. CASE \E i \in 1..k : /\ j.parsed[i] = <<b, table[b]>>
                               /\ \A h \in (i + 1)..k : j.parsed[h][1] # b
      <4>1. PICK i \in 1..k : /\ j.parsed[i] = <<b, table[b]>>
                              /\ \A h \in (i + 1)..k : j.parsed[h][1] # b
        BY <3>2
      <4>2. \A h \in (i + 1)..(k + 1) : h \in (i + 1)..k \/ h = k + 1
        BY <1>3
      <4>3. i \in 1..(k + 1)
        BY <1>3
      <4> QED
        BY <2>1, <3>1, <4>1, <4>2, <4>3
    <3>3. CASE /\ table[b] = j.before[b]
               /\ \A h \in 1..k : j.parsed[h][1] # b
      <4>1. \A h \in 1..(k + 1) : h \in 1..k \/ h = k + 1
        BY <1>3
      <4> QED
        BY <2>1, <3>1, <3>3, <4>1
    <3> QED
      BY <1>2, <3>1, <3>2, <3>3
  <2>2. CASE b = a
    <3>1. ~AtCap(a) /\ Insert(t)
      BY <1>3, <2>2 DEF AtCap
    <3>2. table'[a] = Head(j.todo)[2]
      BY <1>3, <3>1, InsertType DEF IInv
    <3>3. j.parsed[k + 1] = <<a, table'[a]>>
      <4>1. j.parsed[k + 1] \in Pair
        BY <1>1, <1>3
      <4>2. \A e \in Pair : e = <<e[1], e[2]>>
        BY DEF Pair
      <4> QED
        BY <1>3, <3>2, <4>1, <4>2
    <3> HIDE DEF k, j
    <3>4. k + 1 \in 1..(k + 1) /\ (k + 1 + 1)..(k + 1) = {}
      BY <1>3
    <3> QED
      BY <2>2, <3>3, <3>4
  <2> QED
    BY <2>1, <2>2
<1>8. /\ IsFiniteSet(B) /\ k + 1 \in 0..n
      /\ job'[t].parsed = j.parsed /\ job'[t].before = j.before
      /\ Taken(job'[t]) = k + 1
      /\ \A i \in 1..Len(job'[t].todo) : job'[t].todo[i] = j.parsed[k + 1 + i]
  BY <1>2, <1>3, <1>4
<1>9. /\ Fits(job'[t], k + 1) = Fits(j, k + 1)
      /\ New(job'[t], k + 1) = New(j, k + 1) /\ Room(job'[t]) = Room(j)
  BY <1>8 DEF Fits, New, Room
<1> DEFINE next == job'[t]
           m    == k + 1
<1>10. /\ IsFiniteSet(DOMAIN next.before) /\ m \in 0..Len(next.parsed)
       /\ Taken(next) = m
       /\ \A i \in 1..Len(next.todo) : next.todo[i] = next.parsed[m + i]
  BY <1>8
<1>11. /\ DOMAIN table' = DOMAIN next.before \cup Fits(next, m)
       /\ Cardinality(New(next, m)) > Room(next) =>
            Cardinality(DOMAIN table') >= MaxSymbols
  BY <1>6, <1>8, <1>9
<1>12. Named(next.parsed, next.before, table', m)
  <2>1. Named(j.parsed, j.before, table', m)
    BY <1>7 DEF Named
  <2> QED
    BY <1>8, <2>1
<1> HIDE DEF next, m
<1>13. Loaded(next, table', m)
  BY <1>10, <1>11, <1>12 DEF Loaded
<1>14. LoadedSoFar(next, table')
  BY <1>10, <1>13 DEF LoadedSoFar
<1> QED
  BY <1>14 DEF next

\* A load starts on the table it finds.
LEMMA LoadStarts ==
  ASSUME IInv, NEW j \in Job, j.todo = j.parsed, j.before = table
  PROVE  LoadedSoFar(j, table)
<1>1. TypesOK
  BY DEF IInv
<1>2. j.parsed \in Seq(Pair) /\ Len(j.parsed) \in Nat
  <2>1. j.parsed \in Seq(Pair)
    BY DEF Job
  <2> QED
    BY <2>1
<1>3. Taken(j) = 0
  BY <1>2 DEF Taken
<1>4. 1..0 = {} /\ \A S : S \cup {} = S
  OBVIOUS
<1>5. New(j, 0) = {} /\ Fits(j, 0) = {}
  BY <1>4 DEF New, Fits
<1>6. Cardinality(New(j, 0)) > Room(j) => Cardinality(DOMAIN table) >= MaxSymbols
  <2>1. Cardinality(New(j, 0)) = 0 /\ Room(j) = MaxSymbols - Cardinality(DOMAIN table)
        /\ Cardinality(DOMAIN table) \in Nat
    BY <1>1, <1>5, FS_EmptySet, EnteringType DEF Room
  <2> QED
    BY <2>1, ConstantTypes
<1>7. Named(j.parsed, j.before, table, 0)
  BY <1>4 DEF Named
<1>8. \A i \in 1..Len(j.todo) : j.todo[i] = j.parsed[0 + i]
  <2>1. \A i \in 1..Len(j.parsed) : 0 + i = i
    BY <1>2
  <2> QED
    BY <2>1
<1>9. Loaded(j, table, 0)
  <2>1. IsFiniteSet(DOMAIN j.before) /\ 0 \in 0..Len(j.parsed)
    BY <1>1, <1>2 DEF TypesOK
  <2>2. DOMAIN table = DOMAIN j.before \cup Fits(j, 0)
    BY <1>5
  <2> QED
    BY <1>6, <1>7, <1>8, <2>1, <2>2 DEF Loaded
<1> QED
  BY <1>3, <1>9 DEF LoadedSoFar

\* Every step keeps what a lone load has done.
LEMMA LoadStep ==
  ASSUME IInv, LoadOK, TypesOK', [SymbolsNext]_symbolVars
  PROVE  LoadOK'
<1>1. TypesOK /\ LoneOK
  BY DEF IInv
<1> DEFINE Good(j, names) ==
             /\ LoadedSoFar(j, names)
             /\ j.at = "insert" =>
                  ~( /\ Cardinality(DOMAIN names) >= MaxSymbols
                     /\ Head(j.todo)[1] \notin DOMAIN names )
             /\ j.at \in {"sort", "publish", "loaded"} => j.todo = <<>>
<1>2. \A u \in Threads : job[u].lone => Good(job[u], table)
  BY DEF LoadOK, AtCap
<1>3. SUFFICES ASSUME NEW u \in Threads, job'[u].lone
               PROVE  Good(job'[u], table')
  BY DEF LoadOK, AtCap
<1>4. job[u] \in Job /\ job'[u] \in Job
  BY <1>1 DEF TypesOK
<1>5. ASSUME NEW t \in Threads, NEW paste \in Pastes, LoadText(t, paste)
      PROVE  Good(job'[u], table')
  <2> DEFINE new == [NoJob EXCEPT !.at     = Loop(Parsed(paste)),
                                  !.parsed = Parsed(paste),
                                  !.todo   = Parsed(paste),
                                  !.before = table,
                                  !.lone   = \A v \in Threads : ~Loading(v)]
  <2>1. /\ new.at = Loop(Parsed(paste)) /\ new.todo = Parsed(paste)
        /\ new.parsed = Parsed(paste) /\ new.before = table
    BY DEF NoJob
  <2>2. job' = [v \in Threads |-> IF v = t THEN new
                                 ELSE [job[v] EXCEPT !.lone = FALSE]]
        /\ table' = table
    BY <1>5 DEF LoadText
  <2> HIDE DEF new
  <2>3. u = t
    BY <1>3, <1>4, <2>2 DEF Job
  <2>4. job'[u] = new
    BY <2>2, <2>3
  <2>5. LoadedSoFar(job'[u], table)
    BY <1>4, <2>1, <2>4, LoadStarts
  <2>6. new.at # "insert" /\ (new.at \in {"sort", "publish", "loaded"} => new.todo = <<>>)
    BY <2>1 DEF Loop
  <2> QED
    BY <2>2, <2>4, <2>5, <2>6
<1>6. ASSUME NEW t \in Threads,
             Check(t) \/ Insert(t) \/ Sort(t) \/ Publish(t)
               \/ (\E query \in Queries : Lookup(t, query))
               \/ Search(t) \/ Name(t) \/ Done(t)
      PROVE  Good(job'[u], table')
  <2>1. CASE u # t
    <3>1. job'[u] = job[u]
      BY <1>1, <1>6, <2>1, LocalStep
    <3>2. ~Loading(t)
      BY <1>1, <1>3, <2>1, <3>1 DEF LoneOK
    <3>3. table' = table
      BY <1>6, <3>2 DEF Loading, Check, Insert, Sort, Publish, Lookup, Search,
         Name, Done
    <3> QED
      BY <1>2, <1>3, <3>1, <3>3
  <2>2. CASE u = t
    <3>1. job[t].lone
      BY <1>1, <1>3, <1>6, <2>2, LocalStep
    <3>2. Loading(t) /\ Good(job[t], table) /\ job[t] \in Job /\ job \in [Threads -> Job]
      BY <1>1, <1>2, <3>1 DEF LoneOK, TypesOK
    <3> DEFINE rest == Loop(Tail(job[t].todo))
    <3>3. rest \in {"sort", "check"} /\ (rest = "sort" => Tail(job[t].todo) = <<>>)
      BY DEF Loop
    <3>4. CASE Check(t) /\ AtCap(Head(job[t].todo)[1])
      <4>1. job' = [job EXCEPT ![t].at = rest, ![t].todo = Tail(@),
                               ![t].dropped = @ + 1]
            /\ table' = table /\ job[t].at = "check"
        BY <3>4 DEF Check
      <4> HIDE DEF rest
      <4>2. /\ job'[t].parsed = job[t].parsed /\ job'[t].todo = Tail(job[t].todo)
            /\ job'[t].before = job[t].before /\ job'[t].at = rest
        BY <3>2, <4>1 DEF Job
      <4>3. job[t].todo # <<>>
        BY <1>1, <4>1 DEF TypesOK
      <4>4. LoadedSoFar(job'[t], table')
        BY <3>2, <3>4, <4>1, <4>2, <4>3, EntryTaken
      <4> QED
        BY <2>2, <3>3, <4>2, <4>4
    <3>5. CASE Check(t) /\ ~AtCap(Head(job[t].todo)[1])
      <4>1. job' = [job EXCEPT ![t].at = "insert"] /\ table' = table
        BY <3>5 DEF Check
      <4>2. /\ job'[t].parsed = job[t].parsed /\ job'[t].todo = job[t].todo
            /\ job'[t].before = job[t].before /\ job'[t].at = "insert"
        BY <3>2, <4>1 DEF Job
      <4>3. LoadedSoFar(job'[t], table')
        BY <3>2, <4>1, <4>2, SameLoad
      <4> QED
        BY <2>2, <3>5, <4>1, <4>2, <4>3 DEF AtCap
    <3>6. CASE Insert(t)
      <4>1. job' = [job EXCEPT ![t].at = rest, ![t].todo = Tail(@)]
            /\ job[t].at = "insert"
        BY <3>6 DEF Insert
      <4> HIDE DEF rest
      <4>2. /\ job'[t].parsed = job[t].parsed /\ job'[t].todo = Tail(job[t].todo)
            /\ job'[t].before = job[t].before /\ job'[t].at = rest
        BY <3>2, <4>1 DEF Job
      <4>3. job[t].todo # <<>> /\ ~AtCap(Head(job[t].todo)[1])
        BY <1>1, <3>2, <4>1 DEF TypesOK, AtCap
      <4>4. LoadedSoFar(job'[t], table')
        BY <3>2, <3>6, <4>2, <4>3, EntryTaken
      <4> QED
        BY <2>2, <3>3, <4>2, <4>4
    <3>7. CASE Sort(t) \/ Publish(t)
      <4>1. /\ job'[t].parsed = job[t].parsed /\ job'[t].todo = job[t].todo
            /\ job'[t].before = job[t].before /\ job'[t].at \in {"publish", "loaded"}
            /\ table' = table /\ job[t].at \in {"sort", "publish"}
        <5>1. CASE Sort(t)
          BY <3>2, <5>1 DEF Sort, Job
        <5>2. CASE Publish(t)
          BY <3>2, <5>2 DEF Publish, Job
        <5> QED
          BY <3>7, <5>1, <5>2
      <4>2. LoadedSoFar(job'[t], table')
        BY <3>2, <4>1, SameLoad
      <4> QED
        BY <2>2, <3>2, <4>1, <4>2
    <3>8. CASE (\E query \in Queries : Lookup(t, query)) \/ Search(t) \/ Name(t)
      BY <3>2, <3>8 DEF Loading, Lookup, BeginJob, Search, Name
    <3>9. CASE Done(t)
      BY <1>3, <2>2, <3>2, <3>9 DEF Done, NoJob
    <3> QED
      BY <1>6, <3>4, <3>5, <3>6, <3>7, <3>8, <3>9
  <2> QED
    BY <2>1, <2>2
<1>7. CASE UNCHANGED symbolVars
  BY <1>2, <1>3, <1>7 DEF symbolVars
<1> QED
  BY <1>5, <1>6, <1>7 DEF SymbolsNext, SymbolsFinished

-----------------------------------------------------------------------------
\* The theorems

\* The first state.
LEMMA InitHolds == SymbolsInit => IInv
<1> SUFFICES ASSUME SymbolsInit
             PROVE  IInv
  OBVIOUS
<1>1. /\ table = <<>> /\ sortedAddrs = <<>> /\ settled = {} /\ jobs = 0
      /\ \A t \in Threads : job[t] = NoJob
      /\ job \in [Threads -> Job]
  BY NoJobType DEF SymbolsInit
<1>2. NoJob.at = "idle" /\ NoJob.lone = FALSE /\ NoJob.owed = {}
  BY DEF NoJob
<1>3. DOMAIN table = {} /\ DOMAIN sortedAddrs = {}
  BY <1>1
<1>4. IsFiniteSet({}) /\ Cardinality({}) = 0
  BY FS_EmptySet
<1>5. TypesOK
  <2>1. table \in Tables /\ IsFiniteSet(DOMAIN table)
    BY <1>1, <1>3, <1>4, NoJobType
  <2>2. sortedAddrs \in Seq(Nat) /\ settled \in SUBSET Nat
    BY <1>1
  <2>3. jobs \in 0..MaxJobs
    BY <1>1, ConstantTypes
  <2> QED
    BY <1>1, <1>2, <2>1, <2>2, <2>3 DEF TypesOK
<1>6. LoneOK /\ ListOK
  BY <1>1, <1>2, <1>3 DEF LoneOK, ListOK, Ascends, Listed
<1>7. LookupOK
  BY <1>1, <1>2 DEF LookupOK, LookupGood
<1>8. CapOK
  <2>1. Entering = {}
    BY <1>1, <1>2 DEF Entering
  <2> QED
    BY <1>3, <1>4, <2>1, ConstantTypes DEF CapOK
<1> QED
  BY <1>5, <1>6, <1>7, <1>8 DEF IInv

\* IInv holds in every state, however loads and lookups interleave.
THEOREM Invariance == SymbolsSpec => []IInv
<1>1. SymbolsInit => IInv
  BY InitHolds
<1>2. IInv /\ [SymbolsNext]_symbolVars => IInv'
  BY TypeStep, LoneStep, ListStep, LookupStep, CapStep DEF IInv
<1> QED
  BY <1>1, <1>2, PTL DEF SymbolsSpec

\* The state keeps its types: the table, the list and the jobs of
\* tools/symbols.py.
THEOREM TypeCorrect == SymbolsSpec => []SymbolsTypeOK
<1>1. IInv => SymbolsTypeOK
  BY DEF IInv, TypesOK, SymbolsTypeOK, Tables, Job, NoJob
<1> QED
  BY <1>1, Invariance, PTL

\* A lookup without a lock names the nearest of the symbols settled before
\* it began, whatever loads run meanwhile (_nearest_symbol, _load).
THEOREM LookupsAreSound == SymbolsSpec => []LookupSound
<1>1. IInv => LookupSound
  BY DEF IInv, LookupOK, LookupGood, Near, LookupSound
<1> QED
  BY <1>1, Invariance, PTL

\* However many loads pass the test of the cap before one of them inserts,
\* the table exceeds it by less than the number of threads (_load).
THEOREM CapIsHeld == SymbolsSpec => []CapHeld
<1>1. IInv => CapHeld
  <2> SUFFICES ASSUME IInv
               PROVE  CapHeld
    OBVIOUS
  <2>1. Cardinality(Entering) \in Nat /\ Cardinality(DOMAIN table) \in Nat
    BY EnteringType DEF IInv
  <2> QED
    BY <2>1, ConstantTypes DEF IInv, CapOK, CapHeld
<1> QED
  BY <1>1, Invariance, PTL

\* A load that is alone leaves what its text says: the new addresses there
\* is room for, the last name of each, and the rest as it was (_load).
THEOREM LoadsAreExact == SymbolsSpec => []LoadIsExact
<1>1. SymbolsInit => LoadOK
  BY DEF SymbolsInit, LoadOK, NoJob
<1>2. IInv /\ IInv' /\ LoadOK /\ [SymbolsNext]_symbolVars => LoadOK'
  BY LoadStep DEF IInv
<1>3. IInv /\ LoadOK => LoadIsExact
  <2> SUFFICES ASSUME IInv, LoadOK, NEW t \in Threads,
                      job[t].at = "loaded", job[t].lone
               PROVE  LET parsed == job[t].parsed
                          before == job[t].before
                          room   == MaxSymbols - Cardinality(DOMAIN before)
                          new(k) == {parsed[i][1] : i \in 1..k} \ DOMAIN before
                          fits   == {parsed[i][1] : i \in {j \in DOMAIN parsed :
                                                   Cardinality(new(j)) <= room}}
                          last(a) == Max({i \in DOMAIN parsed : parsed[i][1] = a})
                      IN  /\ DOMAIN table = DOMAIN before \cup fits
                          /\ \A a \in DOMAIN table :
                               table[a] = IF \E i \in DOMAIN parsed : parsed[i][1] = a
                                          THEN parsed[last(a)][2] ELSE before[a]
    BY DEF LoadIsExact
  <2> DEFINE j == job[t]
             n == Len(j.parsed)
  <2>1. LoadedSoFar(j, table) /\ j.todo = <<>>
    BY DEF LoadOK
  <2>2. j \in Job /\ n \in Nat /\ DOMAIN j.parsed = 1..n
    <3>1. j \in Job /\ j.parsed \in Seq(Pair)
      BY DEF IInv, TypesOK, Job
    <3> HIDE DEF j
    <3> QED
      BY <3>1
  <2>3. Taken(j) = n
    BY <2>1, <2>2 DEF Taken
  <2>4. DOMAIN table = DOMAIN j.before \cup Fits(j, n)
        /\ Named(j.parsed, j.before, table, n)
    BY <2>1, <2>3 DEF LoadedSoFar, Loaded
  <2> HIDE DEF j, n
  <2>5. Fits(j, n) = {j.parsed[i][1] : i \in {h \in DOMAIN j.parsed :
           Cardinality({j.parsed[i][1] : i \in 1..h} \ DOMAIN j.before)
             <= MaxSymbols - Cardinality(DOMAIN j.before)}}
    BY <2>2 DEF Fits, New, Room
  <2>6. ASSUME NEW a \in DOMAIN table
        PROVE  table[a] = IF \E i \in DOMAIN j.parsed : j.parsed[i][1] = a
                          THEN j.parsed[Max({i \in DOMAIN j.parsed :
                                               j.parsed[i][1] = a})][2]
                          ELSE j.before[a]
    <3> DEFINE P == {i \in DOMAIN j.parsed : j.parsed[i][1] = a}
    <3>1. CASE \E i \in 1..n : /\ j.parsed[i] = <<a, table[a]>>
                               /\ \A h \in (i + 1)..n : j.parsed[h][1] # a
      <4>1. PICK i \in 1..n : /\ j.parsed[i] = <<a, table[a]>>
                              /\ \A h \in (i + 1)..n : j.parsed[h][1] # a
        BY <3>1
      <4>2. i \in P /\ P \subseteq 1..n
        BY <2>2, <4>1
      <4>3. \A h \in P : i >= h
        <5> SUFFICES ASSUME NEW h \in P, ~(i >= h)
                     PROVE  FALSE
          OBVIOUS
        <5>1. h \in (i + 1)..n
          BY <2>2, <4>2
        <5> QED
          BY <4>1, <5>1
      <4>4. \A x \in P : (\A y \in P : x >= y) => x = i
        <5> SUFFICES ASSUME NEW x \in P, \A y \in P : x >= y
                     PROVE  x = i
          OBVIOUS
        <5> HIDE DEF P
        <5>1. x \in Int /\ i \in Int /\ x >= i /\ i >= x
          BY <2>2, <4>2, <4>3
        <5> QED
          BY <5>1
      <4>5. Max(P) = i
        <5> HIDE DEF P
        <5> QED
          BY <4>2, <4>3, <4>4 DEF Max
      <4>6. \E k \in DOMAIN j.parsed : j.parsed[k][1] = a
        BY <4>2
      <4>7. j.parsed[Max(P)][2] = table[a]
        <5>1. j.parsed[i][2] = table[a]
          BY <4>1
        <5> HIDE DEF P
        <5> QED
          BY <4>5, <5>1
      <4> QED
        BY <4>6, <4>7
    <3>2. CASE /\ table[a] = j.before[a]
               /\ \A h \in 1..n : j.parsed[h][1] # a
      BY <2>2, <3>2
    <3> QED
      BY <2>4, <3>1, <3>2 DEF Named
  <2> QED
    BY <2>4, <2>5, <2>6 DEF j
<1> QED
  BY <1>1, <1>2, <1>3, Invariance, PTL DEF SymbolsSpec
=============================================================================
