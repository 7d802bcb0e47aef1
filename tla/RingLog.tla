------------------------------ MODULE RingLog ------------------------------
(***************************************************************************)
(* The output of a spawned engine (lifecycle.py): a reader thread on each  *)
(* of its two pipes appends every line to the ring of the present          *)
(* instance, which bridge_logs shows; the ring is bounded by lines, by     *)
(* bytes of a line and by bytes in total, which it counts as it goes.  An  *)
(* append holds the ring's lock until enough lines are evicted; bridge_logs*)
(* takes that lock, so it sees the ring only between appends.              *)
(*                                                                         *)
(* Abstraction.  A printed line is its number of characters and their      *)
(* width in UTF-8, a line in the ring its number of bytes and the engine   *)
(* that printed it.                                                        *)
(***************************************************************************)
EXTENDS Integers, Sequences

CONSTANTS
  Lines,           \* lines an engine prints
  MaxLines,        \* RingLog's max_lines
  MaxLineBytes,    \* max_line_bytes
  MaxTotalBytes,   \* max_total_bytes
  Mark,            \* bytes of the mark of a truncated line
  MaxPrinted,      \* bound: lines printed in a behaviour
  MaxEngines       \* bound: engines spawned

ASSUME RingLogAssumption ==
  /\ \A l \in Lines : l.chars \in Nat /\ l.width \in 1..4
  /\ MaxLines \in Nat \ {0} /\ MaxLineBytes \in Nat \ {0}
  /\ MaxTotalBytes \in Nat \ {0} /\ Mark \in Nat
  /\ MaxPrinted \in Nat /\ MaxEngines \in Nat

VARIABLES
  ring,       \* _lines
  total,      \* _total
  appending,  \* a reader is inside append(), with the ring's lock
  spawned,    \* engines spawned so far; the last is the present one
  running,    \* it runs
  pipes,      \* lines the readers of each engine have yet to read
  printed,    \* lines printed
  unjoined,   \* history: engines that ended by themselves, not cleaned up
  history     \* history: the bytes of the first i lines appended to this ring

ringVars == <<ring, total, appending, spawned, running, pipes, printed,
              unjoined, history>>

Streams == {"stdout", "stderr"}
Empty   == [stream \in Streams |-> <<>>]
Stored  == [bytes : Nat, from : 1..MaxEngines]

RingLogTypeOK ==
  /\ ring \in Seq(Stored) /\ total \in Nat
  /\ appending \in BOOLEAN
  /\ spawned \in 0..MaxEngines /\ running \in BOOLEAN
  /\ pipes \in [1..MaxEngines -> [Streams -> Seq(Lines)]]
  /\ printed \in 0..MaxPrinted /\ unjoined \subseteq 0..MaxEngines
  /\ history \in Seq(Nat)

-----------------------------------------------------------------------------
\* RingLog.append()

\* What is kept of a line: all, or the whole characters that fit, marked.
Kept(line) ==
  IF line.chars * line.width > MaxLineBytes
  THEN (MaxLineBytes \div line.width) * line.width + Mark
  ELSE line.chars * line.width

\* Mutant of Counted: the oldest line is taken off before the ring is full.
CountedEarly(bytes) ==
  total - (IF ring # <<>> THEN Head(ring).bytes ELSE 0) + bytes

\* Mutant of Counted: the line that is dropped stays counted.
CountedOnly(bytes) == total + bytes

\* The count, with the line that the deque drops by itself when it is full.
Counted(bytes) ==
  total - (IF Len(ring) = MaxLines THEN Head(ring).bytes ELSE 0) + bytes

\* The deque's append: a full deque drops its first line.
AppendLine(stored) ==
  /\ ring' = Append(IF Len(ring) = MaxLines THEN Tail(ring) ELSE ring, stored)
  /\ total' = Counted(stored.bytes)

\* There are too many bytes, and more than the last line.
Overfull == total > MaxTotalBytes /\ Len(ring) > 1

\* One round of the loop that evicts lines until the bytes fit.
Evict ==
  /\ appending /\ Overfull
  /\ ring' = Tail(ring)
  /\ total' = total - Head(ring).bytes
  /\ UNCHANGED <<appending, spawned, running, pipes, printed, unjoined,
                 history>>

\* append() returns and releases the lock.
AppendReturns ==
  /\ appending /\ ~Overfull
  /\ appending' = FALSE
  /\ UNCHANGED <<ring, total, spawned, running, pipes, printed, unjoined,
                 history>>

-----------------------------------------------------------------------------
\* The engines and their readers

\* The bytes of the first i lines.
Upto(i) == IF i = 0 THEN 0 ELSE history[i]

NewRing == ring' = <<>> /\ total' = 0 /\ appending' = FALSE /\ history' = <<>>

\* start(): a new ring and new readers; those of an engine that ended by
\* itself read on.
Spawn ==
  /\ ~running /\ spawned < MaxEngines
  /\ spawned' = spawned + 1 /\ running' = TRUE
  /\ NewRing
  /\ UNCHANGED <<pipes, printed, unjoined>>

\* The ring is new, but there is no process: _cleanup() closes the pipes of the
\* engine that _proc still holds.
SpawnFails ==
  /\ ~running /\ spawned > 0
  /\ pipes' = [pipes EXCEPT ![spawned] = Empty]
  /\ unjoined' = unjoined \ {spawned}
  /\ NewRing
  /\ UNCHANGED <<spawned, running, printed>>

WriteLine(stream, line) ==
  /\ running /\ printed < MaxPrinted
  /\ printed' = printed + 1
  /\ pipes' = [pipes EXCEPT ![spawned][stream] = Append(@, line)]
  /\ UNCHANGED <<ring, total, appending, spawned, running, unjoined, history>>

EngineEnds ==
  /\ running
  /\ running' = FALSE
  /\ unjoined' = unjoined \cup {spawned}
  /\ UNCHANGED <<ring, total, appending, spawned, pipes, printed, history>>

\* Mutant of StopEngine: the engine is ended, its pipes are left to the readers.
StopEngineOnly ==
  /\ running
  /\ running' = FALSE
  /\ UNCHANGED <<ring, total, appending, spawned, pipes, printed, unjoined,
                 history>>

\* stop(), or a start() that gives up: the engine is ended, its readers have a
\* second, the pipes are closed and what is still in them is lost.
StopEngine ==
  /\ running
  /\ running' = FALSE
  /\ pipes' = [pipes EXCEPT ![spawned] = Empty]
  /\ UNCHANGED <<ring, total, appending, spawned, printed, unjoined, history>>

\* A reader's drain(): one line, to whichever ring is the present one.
Drain(c, stream) ==
  /\ ~appending
  /\ pipes[c][stream] # <<>>
  /\ LET bytes == Kept(Head(pipes[c][stream]))
     IN  /\ AppendLine([bytes |-> bytes, from |-> c])
         /\ history' = Append(history, Upto(Len(history)) + bytes)
  /\ appending' = TRUE
  /\ pipes' = [pipes EXCEPT ![c][stream] = Tail(@)]
  /\ UNCHANGED <<spawned, running, printed, unjoined>>

-----------------------------------------------------------------------------
\* The specification

RingLogInit ==
  /\ ring = <<>> /\ total = 0 /\ appending = FALSE
  /\ spawned = 0 /\ running = FALSE
  /\ pipes = [c \in 1..MaxEngines |-> Empty]
  /\ printed = 0 /\ unjoined = {} /\ history = <<>>

RingLogFinished ==
  /\ spawned = MaxEngines /\ ~running /\ ~appending
  /\ \A c \in 1..spawned : pipes[c] = Empty
  /\ UNCHANGED ringVars

RingLogNext ==
  \/ Spawn \/ SpawnFails \/ EngineEnds \/ StopEngine
  \/ \E stream \in Streams :
       \/ \E line \in Lines : WriteLine(stream, line)
       \/ \E c \in 1..spawned : Drain(c, stream)
  \/ Evict \/ AppendReturns
  \/ RingLogFinished

RingLogSpec == RingLogInit /\ [][RingLogNext]_ringVars

-----------------------------------------------------------------------------
\* Properties

\* The bytes of the last k lines appended.
LastBytes(k) == Upto(Len(history)) - Upto(Len(history) - k)

\* The log bridge_logs shows is the longest end of the output appended since
\* the engine was spawned that has no more than MaxLines lines and
\* MaxTotalBytes bytes, but the last line in any case; the running count of
\* bytes never drifts from what the ring holds (RingLog.append).
RingIsLongestSuffix ==
  LET n == Len(history)
      fits(k) == k <= MaxLines /\ (k <= 1 \/ LastBytes(k) <= MaxTotalBytes)
  IN  /\ Len(ring) <= n
      /\ total = LastBytes(Len(ring))
      /\ \A i \in DOMAIN ring :
           ring[i].bytes =
             LastBytes(Len(ring) - i + 1) - LastBytes(Len(ring) - i)
      /\ ~appending => \A k \in 0..n : fits(k) <=> k <= Len(ring)

\* bridge_logs shows the output of the present instance, but for what the
\* readers of an engine that ended by itself still had to read: what was
\* stopped or cleaned up never shows in the log of a later one (_cleanup).
LogIsOwn ==
  \A i \in DOMAIN ring : ring[i].from = spawned \/ ring[i].from \in unjoined
=============================================================================
