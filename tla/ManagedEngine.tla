--------------------------- MODULE ManagedEngine ---------------------------
(***************************************************************************)
(* What bridge_start and bridge_stop promise, whatever spawning, attaching *)
(* and cleaning up goes on below: the bridge has at most one engine of its *)
(* own, and an operation that returns tells the truth about it:            *)
(*   - "started" means that this operation spawned it, though it may have  *)
(*     ended since;                                                        *)
(*   - "failed" and "stopped" mean that none runs;                         *)
(*   - a start is refused only while one runs, a stop only if none does.   *)
(***************************************************************************)
EXTENDS Naturals

CONSTANTS
  Threads,    \* the worker threads of the server
  Engines     \* the processes the bridge may spawn

VARIABLES
  up,         \* the engines of the bridge that run
  phase,      \* phase[t]: the operation t serves, and whether it has spawned
  outcome     \* outcome[t]: what t's last operation returned

vars == <<up, phase, outcome>>

\* What an operation may return in a phase.
Truthful(p) ==
  CASE p = "start"   -> IF up = {} THEN {"failed"} ELSE {"refused"}
    [] p = "spawned" -> IF up = {} THEN {"failed", "started"} ELSE {"started"}
    [] p = "stop"    -> IF up = {} THEN {"refused", "stopped"} ELSE {}
    [] OTHER         -> {}

Init ==
  /\ up = {}
  /\ phase = [t \in Threads |-> "idle"]
  /\ outcome = [t \in Threads |-> "none"]

Invoke(t, operation) ==
  /\ phase[t] = "idle"
  /\ phase' = [phase EXCEPT ![t] = operation]
  /\ outcome' = [outcome EXCEPT ![t] = "none"]
  /\ UNCHANGED up

Spawn(t, e) ==
  /\ phase[t] = "start"
  /\ up = {}
  /\ up' = {e}
  /\ phase' = [phase EXCEPT ![t] = "spawned"]
  /\ UNCHANGED outcome

\* An engine ends: by itself, or because an operation ends it.
EngineEnds(e) ==
  /\ e \in up
  /\ up' = up \ {e}
  /\ UNCHANGED <<phase, outcome>>

Return(t, o) ==
  /\ o \in Truthful(phase[t])
  /\ phase' = [phase EXCEPT ![t] = "idle"]
  /\ outcome' = [outcome EXCEPT ![t] = o]
  /\ UNCHANGED up

Next ==
  \/ \E e \in Engines : EngineEnds(e)
  \/ \E t \in Threads :
       \/ \E operation \in {"start", "stop"} : Invoke(t, operation)
       \/ \E e \in Engines : Spawn(t, e)
       \/ \E o \in {"started", "failed", "stopped", "refused"} : Return(t, o)

Spec == Init /\ [][Next]_vars
=============================================================================
