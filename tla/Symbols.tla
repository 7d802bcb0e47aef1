------------------------------ MODULE Symbols ------------------------------
(***************************************************************************)
(* The symbol table (tools/symbols.py): debug_symbols_load fills a         *)
(* dictionary and publishes the sorted list of its keys, the annotator of  *)
(* the debug and memory tools searches that list and takes the name from   *)
(* the dictionary.  Nothing is locked: loads and lookups of several worker *)
(* threads interleave between any two of their accesses.                   *)
(*                                                                         *)
(* Abstraction.  A pasted text is the sequence of its lines or entries,    *)
(* each with the name and the address token found in it, or not            *)
(* recognized; a lookup is by Ghidra address, see module GhidraMap.        *)
(***************************************************************************)
EXTENDS Integers, Sequences, FiniteSetsExt, Ascending

CONSTANTS
  Threads,             \* worker threads
  MaxSymbols,          \* cap on the table
  MaxSymbolDistance,   \* how far a symbol reaches
  Pastes,              \* the texts that are loaded
  Queries,             \* the addresses that are looked up
  MaxJobs              \* bound: loads and lookups in a behaviour

\* An entry or line, and what may be recognized in it.
Entry == [ok : BOOLEAN, token : [seg : Nat, off : Nat], name : STRING]

ASSUME SymbolsAssumption ==
  /\ IsFiniteSet(Threads)
  /\ MaxSymbols \in Nat \ {0} /\ MaxSymbolDistance \in Nat
  /\ \A p \in Pastes : /\ p.form \in {"json", "otherJson", "text"}
                       /\ p.entries \in Seq(Entry)
  /\ Queries \subseteq Nat
  /\ MaxJobs \in Nat

VARIABLES
  table,         \* symbols: address to name
  sortedAddrs,   \* sorted_addrs
  job,           \* what a thread is at
  jobs,          \* loads and lookups begun
  settled        \* history: addresses there when a load ended that no other
                 \* load overlapped

symbolVars == <<table, sortedAddrs, job, jobs, settled>>

NoJob ==
  [at |-> "idle", parsed |-> <<>>, todo |-> <<>>, dropped |-> 0,
   addrs |-> <<>>, query |-> 0, base |-> 0, name |-> "none",
   before |-> <<>>, lone |-> FALSE, owed |-> {}]

SymbolsTypeOK ==
  /\ DOMAIN table \subseteq Nat
  /\ sortedAddrs \in Seq(Nat)
  /\ \A t \in Threads :
       /\ DOMAIN job[t] = DOMAIN NoJob
       /\ job[t].at \in {"idle", "check", "insert", "sort", "publish",
                         "loaded", "search", "name", "found", "missed"}
  /\ jobs \in 0..MaxJobs
  /\ settled \subseteq Nat

-----------------------------------------------------------------------------
\* Parsing

\* _parse_address(): "SSSS:OOOO" and a plain number (segment 0) are both one
\* linear address.
ParseAddress(token) == token.seg * 16 + token.off

\* _parse_json_entries(), _parse_text_lines(): the entries that are
\* recognized, in their order; JSON of another shape is read as lines, none
\* of which is one of Ghidra's.
Parsed(paste) ==
  IF paste.form = "otherJson" THEN <<>>
  ELSE LET entries == paste.entries
           kept    == InOrder({i \in DOMAIN entries : entries[i].ok})
       IN  [k \in DOMAIN kept |-> <<ParseAddress(entries[kept[k]].token),
                                    entries[kept[k]].name>>]

-----------------------------------------------------------------------------
\* debug_symbols_load

Loading(t) == job[t].at \in {"check", "insert", "sort", "publish", "loaded"}

BeginJob(t) == job[t].at = "idle" /\ jobs < MaxJobs /\ jobs' = jobs + 1

\* Where the loop goes on.
Loop(todo) == IF todo = <<>> THEN "sort" ELSE "check"

LoadText(t, paste) ==
  /\ BeginJob(t)
  /\ LET parsed == Parsed(paste)
         lone   == \A u \in Threads : ~Loading(u)
     IN  job' = [u \in Threads |->
                   IF u = t THEN [NoJob EXCEPT !.at     = Loop(parsed),
                                               !.parsed = parsed,
                                               !.todo   = parsed,
                                               !.before = table,
                                               !.lone   = lone]
                   ELSE [job[u] EXCEPT !.lone = FALSE]]
  /\ UNCHANGED <<table, sortedAddrs, settled>>

\* Mutant of AtCap: an off-by-one.
AtCapLate(addr) ==
  Cardinality(DOMAIN table) > MaxSymbols /\ addr \notin DOMAIN table

AtCap(addr) ==
  Cardinality(DOMAIN table) >= MaxSymbols /\ addr \notin DOMAIN table

\* Mutant of Check: the first entry over the cap ends the batch.
CheckEndsBatch(t) ==
  /\ job[t].at = "check"
  /\ job' = IF AtCap(Head(job[t].todo)[1])
            THEN [job EXCEPT ![t].at = "sort", ![t].todo = <<>>,
                             ![t].dropped = @ + Len(job[t].todo)]
            ELSE [job EXCEPT ![t].at = "insert"]
  /\ UNCHANGED <<table, sortedAddrs, jobs, settled>>

\* An entry over the cap is skipped, and only it.
Check(t) ==
  /\ job[t].at = "check"
  /\ job' = IF AtCap(Head(job[t].todo)[1])
            THEN [job EXCEPT ![t].at = Loop(Tail(job[t].todo)),
                             ![t].todo = Tail(@),
                             ![t].dropped = @ + 1]
            ELSE [job EXCEPT ![t].at = "insert"]
  /\ UNCHANGED <<table, sortedAddrs, jobs, settled>>

Insert(t) ==
  /\ job[t].at = "insert"
  /\ LET addr == Head(job[t].todo)[1]
         name == Head(job[t].todo)[2]
     IN  table' = [a \in DOMAIN table \cup {addr} |->
                     IF a = addr THEN name ELSE table[a]]
  /\ job' = [job EXCEPT ![t].at = Loop(Tail(job[t].todo)),
                        ![t].todo = Tail(@)]
  /\ UNCHANGED <<sortedAddrs, jobs, settled>>

\* sorted(state["symbols"].keys())
Sort(t) ==
  /\ job[t].at = "sort"
  /\ job' = [job EXCEPT ![t].at = "publish",
                        ![t].addrs = InOrder(DOMAIN table)]
  /\ UNCHANGED <<table, sortedAddrs, jobs, settled>>

Publish(t) ==
  /\ job[t].at = "publish"
  /\ sortedAddrs' = job[t].addrs
  /\ job' = [job EXCEPT ![t].at = "loaded"]
  /\ settled' = IF job[t].lone THEN DOMAIN table ELSE settled
  /\ UNCHANGED <<table, jobs>>

-----------------------------------------------------------------------------
\* The annotator

\* Nothing is looked up in an empty table.
Lookup(t, query) ==
  /\ BeginJob(t)
  /\ job' = [job EXCEPT ![t] =
               [NoJob EXCEPT !.at = IF DOMAIN table = {} THEN "missed"
                                    ELSE "search",
                             !.query = query,
                             !.owed = settled]]
  /\ UNCHANGED <<table, sortedAddrs, settled>>

\* Mutant of BisectRight: bisect_left.
BisectLeft(addrs, query) ==
  Cardinality({i \in DOMAIN addrs : addrs[i] < query})

\* bisect_right(sorted_addrs, query): the addresses up to the query.
BisectRight(addrs, query) ==
  Cardinality({i \in DOMAIN addrs : addrs[i] <= query})

\* _nearest_symbol(): the search in the list read once.
Search(t) ==
  /\ job[t].at = "search"
  /\ LET query == job[t].query
         idx   == BisectRight(sortedAddrs, query)
     IN  job' = IF idx = 0 \/ query - sortedAddrs[idx] > MaxSymbolDistance
                THEN [job EXCEPT ![t].at = "missed"]
                ELSE [job EXCEPT ![t].at = "name",
                                 ![t].base = sortedAddrs[idx]]
  /\ UNCHANGED <<table, sortedAddrs, jobs, settled>>

\* ... and the name of the address found.
Name(t) ==
  /\ job[t].at = "name"
  /\ job' = [job EXCEPT ![t].at = "found", ![t].name = table[job[t].base]]
  /\ UNCHANGED <<table, sortedAddrs, jobs, settled>>

Done(t) ==
  /\ job[t].at \in {"loaded", "found", "missed"}
  /\ job' = [job EXCEPT ![t] = NoJob]
  /\ UNCHANGED <<table, sortedAddrs, jobs, settled>>

-----------------------------------------------------------------------------
\* The specification

SymbolsInit ==
  /\ table = <<>> /\ sortedAddrs = <<>>
  /\ job = [t \in Threads |-> NoJob]
  /\ jobs = 0
  /\ settled = {}

SymbolsFinished ==
  /\ jobs = MaxJobs /\ \A t \in Threads : job[t].at = "idle"
  /\ UNCHANGED symbolVars

SymbolsNext ==
  \/ \E t \in Threads :
       \/ \E paste \in Pastes : LoadText(t, paste)
       \/ Check(t) \/ Insert(t) \/ Sort(t) \/ Publish(t)
       \/ \E query \in Queries : Lookup(t, query)
       \/ Search(t) \/ Name(t) \/ Done(t)
  \/ SymbolsFinished

SymbolsSpec == SymbolsInit /\ [][SymbolsNext]_symbolVars

-----------------------------------------------------------------------------
\* Properties

\* A lookup names the nearest symbol: none that an ended load put in the table
\* before the lookup began lies between the answer and the address, whatever
\* loads run meanwhile, and no answer is out of a symbol's reach
\* (_nearest_symbol, MaxSymbolDistance).  Loads that overlap may lose each
\* other's addresses from the list until the next load: what they put in
\* the table is not owed before.
LookupSound ==
  \A t \in Threads :
    LET near == {a \in job[t].owed : /\ a <= job[t].query
                                     /\ job[t].query - a <= MaxSymbolDistance}
    IN  /\ job[t].at = "missed" => near = {}
        /\ job[t].at = "found" =>
             /\ \A a \in near : a <= job[t].base
             /\ job[t].query - job[t].base \in 0..MaxSymbolDistance

\* What a load leaves in the table, if it is alone: of the addresses new to the
\* table the first that there is room for, every name the last one given, and
\* of the table before nothing but names is changed.  An entry over the
\* cap does not cost the later ones (_load, its comment on the cap).
LoadIsExact ==
  \A t \in Threads : job[t].at = "loaded" /\ job[t].lone =>
    LET parsed == job[t].parsed
        before == job[t].before
        room   == MaxSymbols - Cardinality(DOMAIN before)
        new(k) == {parsed[i][1] : i \in 1..k} \ DOMAIN before
        fits   == {parsed[i][1] : i \in {j \in DOMAIN parsed :
                                           Cardinality(new(j)) <= room}}
        last(a) == Max({i \in DOMAIN parsed : parsed[i][1] = a})
    IN  /\ DOMAIN table = DOMAIN before \cup fits
        /\ \A a \in DOMAIN table :
             table[a] = IF \E i \in DOMAIN parsed : parsed[i][1] = a
                        THEN parsed[last(a)][2] ELSE before[a]

\* The table outgrows its cap by no more than one entry for each other
\* thread that loads at the same time (the test and the insertion in _load).
CapHeld ==
  Cardinality(DOMAIN table) <= MaxSymbols + Cardinality(Threads) - 1
=============================================================================
