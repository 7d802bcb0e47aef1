------------------------------ MODULE ToolCall ------------------------------
(***************************************************************************)
(* What the bridge promises the agent about one tool call, whatever the    *)
(* connection below it goes through (attach, 401, reattach, replay, loss). *)
(*                                                                         *)
(* A call is invoked, may run in the engine at most once, and returns an   *)
(* outcome.  The outcome tells the agent what happened to its request:     *)
(*   - an answer, good or bad, means that it ran;                          *)
(*   - "restarted" (EngineRestarted), "denied" (a 401 after the replay)    *)
(*     and "feature_off" mean that it did not run and may be issued again; *)
(*   - "done" ends an operation that sends no request (bridge_connect,     *)
(*     bridge_disconnect);                                                 *)
(*   - "not_connected" and "uncaught" say nothing: the request may have    *)
(*     run and its answer been lost.                                       *)
(***************************************************************************)
EXTENDS Naturals

CONSTANT Threads    \* the worker threads of the server

VARIABLES
  phase,            \* phase[t]: is a call of t in progress?
  ran,              \* ran[t]: how often the request of t's call has run
  outcome           \* outcome[t]: what t's last call returned

vars == <<phase, ran, outcome>>

Answers   == {"ok", "error"}
NeverRan  == {"restarted", "denied", "feature_off", "done"}
Ambiguous == {"not_connected", "uncaught"}
Outcomes  == Answers \cup NeverRan \cup Ambiguous

\* The outcomes that are true of a call whose request ran n times.
Truthful(n) ==
  { o \in Outcomes : /\ o \in Answers  => n = 1
                     /\ o \in NeverRan => n = 0 }

Init ==
  /\ phase   = [t \in Threads |-> "idle"]
  /\ ran     = [t \in Threads |-> 0]
  /\ outcome = [t \in Threads |-> "none"]

Invoke(t) ==
  /\ phase[t] = "idle"
  /\ phase'   = [phase EXCEPT ![t] = "pending"]
  /\ ran'     = [ran EXCEPT ![t] = 0]
  /\ outcome' = [outcome EXCEPT ![t] = "none"]

Execute(t) ==
  /\ phase[t] = "pending"
  /\ ran[t] = 0
  /\ ran' = [ran EXCEPT ![t] = 1]
  /\ UNCHANGED <<phase, outcome>>

Return(t) ==
  /\ phase[t] = "pending"
  /\ phase' = [phase EXCEPT ![t] = "idle"]
  /\ \E o \in Truthful(ran[t]) : outcome' = [outcome EXCEPT ![t] = o]
  /\ UNCHANGED ran

Next == \E t \in Threads : Invoke(t) \/ Execute(t) \/ Return(t)

Spec == Init /\ [][Next]_vars
=============================================================================
