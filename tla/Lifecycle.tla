------------------------------ MODULE Lifecycle ------------------------------
(***************************************************************************)
(* bridge_start and bridge_stop (lifecycle.py, InstanceManager): spawning  *)
(* an engine, attaching to it with a token made up for it, stopping it.    *)
(*                                                                         *)
(* The manager's _lock covers a start up to the spawn and the whole of a   *)
(* stop.  The wait for the attach, and the clean-up of a start that fails  *)
(* in it, run without it, on whatever _proc and _state_dir then hold: the  *)
(* statements of these parts are steps of their own.                       *)
(*                                                                         *)
(* Data abstraction.  Operation n, if it is a start, makes state directory *)
(* n, token n and child process n.  Of the connection only what it is      *)
(* attached to and the token it remembers are kept (module Connection has  *)
(* the rest).  The log and its reader threads are left out.                *)
(***************************************************************************)
EXTENDS Naturals, FiniteSets

CONSTANTS
  Threads,       \* worker threads that serve bridge_start and bridge_stop
  MaxCalls,      \* bound: operations invoked
  Faults,        \* the disturbances considered, a subset of AllFaults
  Foreign        \* the engine, if any, the bridge did not spawn

\* The policy file or the process cannot be created, a child ends by itself,
\* the deadline of a start passes.
AllFaults == {"policy", "spawn", "exit", "deadline"}

\* Its token is in the token file, or elsewhere, or it does not check tokens.
ForeignKinds == {"none", "in_file", "elsewhere", "open"}

ASSUME LifecycleAssumption ==
  /\ 0 \notin Threads
  /\ MaxCalls \in Nat
  /\ Faults \subseteq AllFaults
  /\ Foreign \in ForeignKinds

VARIABLES
  \* InstanceManager
  lock,        \* _lock: the holder, or Null
  proc,        \* _proc: the child held, or Null
  dir,         \* _state_dir: the directory held, or Null
  \* Connection
  attachedTo,  \* the engine behind _client, or Null
  cfgToken,    \* config.token: a child's token, or Null
  \* the outside
  disk,        \* the state directories that exist
  child,       \* the state of each child process
  foreignUp,   \* does the foreign engine run (and own the port)?
  \* the worker threads
  pc,          \* the statement a thread is about to execute
  op,          \* the operation it serves
  mine,        \* the number of the start it serves: its token, its child
  victim,      \* proc in _terminate_child()
  calls,       \* operations invoked so far
  result       \* the outcome of a thread's last operation

manager == <<lock, proc, dir>>
conn    == <<attachedTo, cfgToken>>
outside == <<disk, child, foreignUp>>
thread  == <<pc, op, mine, victim, calls, result>>
vars    == <<manager, conn, outside, thread>>

Null     == 0
Children == 1..MaxCalls
Outsider == MaxCalls + 1

Alive(c)  == child[c] \in {"starting", "listening"}
Running   == proc # Null /\ Alive(proc)

\* The process that owns the port, Null if there is none.
Listener ==
  IF foreignUp THEN Outsider
  ELSE IF \E c \in Children : child[c] = "listening"
       THEN CHOOSE c \in Children : child[c] = "listening"
       ELSE Null

TypeOK ==
  /\ lock \in Threads \cup {Null}
  /\ proc \in Children \cup {Null} /\ dir \in Children \cup {Null}
  /\ attachedTo \in 0..Outsider /\ cfgToken \in Children \cup {Null}
  /\ disk \subseteq Children
  /\ child \in [Children -> {"unborn", "starting", "listening", "exited"}]
  /\ foreignUp \in BOOLEAN
  /\ pc \in [Threads -> {"idle", "startLock", "mkdir", "policy", "popen",
                         "poll", "reset", "attach", "terminate", "wait",
                         "cleanProc", "cleanDir", "dropDir", "stopLock",
                         "detach"}]
  /\ op \in [Threads -> {"start", "stop"}]
  /\ mine \in [Threads -> Children \cup {Null}]
  /\ victim \in [Threads -> Children \cup {Null}]
  /\ calls \in 0..MaxCalls
  /\ result \in [Threads -> {"none", "started", "stopped", "refused",
                             "failed"}]

-----------------------------------------------------------------------------
\* The engines

\* A child's listener comes up; the port may belong to another process.
ChildListens(c) ==
  /\ child[c] = "starting"
  /\ Listener = Null
  /\ child' = [child EXCEPT ![c] = "listening"]
  /\ UNCHANGED <<manager, conn, disk, foreignUp, thread>>

ChildExits(c) ==
  /\ "exit" \in Faults
  /\ Alive(c)
  /\ child' = [child EXCEPT ![c] = "exited"]
  /\ UNCHANGED <<manager, conn, disk, foreignUp, thread>>

ForeignQuits ==
  /\ foreignUp
  /\ foreignUp' = FALSE
  /\ UNCHANGED <<manager, conn, disk, child, thread>>

Outside == ForeignQuits \/ \E c \in Children : ChildListens(c) \/ ChildExits(c)

-----------------------------------------------------------------------------
\* Control flow of a thread

Goto(t, label) == pc' = [pc EXCEPT ![t] = label]

Finish(t, r) == Goto(t, "idle") /\ result' = [result EXCEPT ![t] = r]

Invoke(t, o) ==
  /\ pc[t] = "idle"
  /\ calls < MaxCalls
  /\ calls' = calls + 1
  /\ Goto(t, IF o = "start" THEN "startLock" ELSE "stopLock")
  /\ op' = [op EXCEPT ![t] = o]
  /\ mine' = [mine EXCEPT ![t] = IF o = "start" THEN calls + 1 ELSE Null]
  /\ result' = [result EXCEPT ![t] = "none"]
  /\ UNCHANGED <<manager, conn, outside, victim>>

-----------------------------------------------------------------------------
\* start()

\* Mutant of StartLock: the process held is not looked at.
StartLockUnchecked(t) ==
  /\ pc[t] = "startLock"
  /\ lock = Null
  /\ lock' = t
  /\ Goto(t, "mkdir")
  /\ UNCHANGED <<proc, dir, conn, outside, op, mine, victim, calls, result>>

\* The lock is taken; start() is refused while a managed child runs.
StartLock(t) ==
  /\ pc[t] = "startLock"
  /\ lock = Null
  /\ IF Running
     THEN Finish(t, "refused") /\ UNCHANGED lock
     ELSE /\ lock' = t
          /\ Goto(t, "mkdir")
          /\ UNCHANGED result
  /\ UNCHANGED <<proc, dir, conn, outside, op, mine, victim, calls>>

MakeStateDir(t) ==
  /\ pc[t] = "mkdir"
  /\ dir' = mine[t]
  /\ disk' = disk \cup {mine[t]}
  /\ Goto(t, "policy")
  /\ UNCHANGED <<lock, proc, conn, child, foreignUp, op, mine, victim, calls,
                 result>>

WritePolicyConfig(t) ==
  /\ pc[t] = "policy"
  /\ \/ Goto(t, "popen")
     \/ "policy" \in Faults /\ Goto(t, "cleanProc")
  /\ UNCHANGED <<manager, conn, outside, op, mine, victim, calls, result>>

\* Mutant of Popen: the directory of a spawn that failed is left.
PopenLeavingDir(t) ==
  /\ pc[t] = "popen"
  /\ \/ /\ proc' = mine[t]
        /\ child' = [child EXCEPT ![mine[t]] = "starting"]
        /\ lock' = Null
        /\ Goto(t, "poll")
        /\ UNCHANGED result
     \/ /\ "spawn" \in Faults
        /\ Finish(t, "failed")
        /\ lock' = Null
        /\ UNCHANGED <<proc, child>>
  /\ UNCHANGED <<dir, conn, disk, foreignUp, op, mine, victim, calls>>

\* Once the child is spawned the lock is released.
Popen(t) ==
  /\ pc[t] = "popen"
  /\ \/ /\ proc' = mine[t]
        /\ child' = [child EXCEPT ![mine[t]] = "starting"]
        /\ lock' = Null
        /\ Goto(t, "poll")
     \/ /\ "spawn" \in Faults
        /\ Goto(t, "cleanProc")
        /\ UNCHANGED <<lock, proc, child>>
  /\ UNCHANGED <<dir, conn, disk, foreignUp, op, mine, victim, calls, result>>

\* The head of the retry loop: has the child ended?  No _proc any more is an
\* AttributeError, which start() treats like any failure of the attach.
Poll(t) ==
  /\ pc[t] = "poll"
  /\ Goto(t, IF proc = Null THEN "terminate"
             ELSE IF Alive(proc) THEN "reset" ELSE "cleanProc")
  /\ UNCHANGED <<manager, conn, outside, op, mine, victim, calls, result>>

Deadline(t) ==
  /\ "deadline" \in Faults
  /\ pc[t] = "poll"
  /\ Goto(t, "terminate")
  /\ UNCHANGED <<manager, conn, outside, op, mine, victim, calls, result>>

\* Mutant of ResetConnection: the attach the bridge had is kept.
ResetKeepingAttach(t) ==
  /\ pc[t] = "reset"
  /\ cfgToken' = mine[t]
  /\ Goto(t, "attach")
  /\ UNCHANGED <<manager, attachedTo, outside, op, mine, victim,
                 calls, result>>

\* The attach function: detach, and remember the token made up for the child.
ResetConnection(t) ==
  /\ pc[t] = "reset"
  /\ attachedTo' = Null
  /\ cfgToken' = mine[t]
  /\ Goto(t, "attach")
  /\ UNCHANGED <<manager, outside, op, mine, victim, calls, result>>

\* Does the listening engine take the remembered token, or after that one is
\* dropped the one of the token file?
TakesRemembered ==
  \/ Listener \in Children /\ cfgToken = Listener
  \/ Listener = Outsider /\ Foreign = "open" /\ cfgToken # Null

TakesTokenFile == Listener = Outsider /\ Foreign = "in_file"

\* Mutant of AttachToEngine: the token of the token file is remembered.
AttachRememberingListener(t) ==
  /\ pc[t] = "attach"
  /\ IF attachedTo # Null \/ TakesRemembered \/ TakesTokenFile
     THEN /\ attachedTo' = IF attachedTo # Null THEN attachedTo ELSE Listener
          /\ Finish(t, "started")
     ELSE Goto(t, "poll") /\ UNCHANGED <<attachedTo, result>>
  /\ cfgToken' = IF attachedTo = Null THEN Listener ELSE cfgToken
  /\ UNCHANGED <<manager, outside, op, mine, victim, calls>>

\* ensure_connected(): an attach another thread has made is taken as it is; a
\* remembered token that is refused is dropped and the token file tried.
AttachToEngine(t) ==
  /\ pc[t] = "attach"
  /\ IF attachedTo # Null \/ TakesRemembered \/ TakesTokenFile
     THEN /\ attachedTo' = IF attachedTo # Null THEN attachedTo ELSE Listener
          /\ Finish(t, "started")
     ELSE Goto(t, "poll") /\ UNCHANGED <<attachedTo, result>>
  /\ cfgToken' = IF attachedTo = Null /\ Listener # Null /\ ~TakesRemembered
                 THEN Null ELSE cfgToken
  /\ UNCHANGED <<manager, outside, op, mine, victim, calls>>

Start(t) ==
  \/ StartLock(t) \/ MakeStateDir(t) \/ WritePolicyConfig(t) \/ Popen(t)
  \/ Poll(t) \/ ResetConnection(t) \/ AttachToEngine(t)

-----------------------------------------------------------------------------
\* stop(), and what it shares with a start that fails

StopLock(t) ==
  /\ pc[t] = "stopLock"
  /\ lock = Null
  /\ IF Running
     THEN lock' = t /\ Goto(t, "terminate") /\ UNCHANGED result
     ELSE Finish(t, "refused") /\ UNCHANGED lock
  /\ UNCHANGED <<proc, dir, conn, outside, op, mine, victim, calls>>

\* _terminate_child() takes whatever child _proc holds now.
Terminate(t) ==
  /\ pc[t] = "terminate"
  /\ IF Running
     THEN Goto(t, "wait") /\ victim' = [victim EXCEPT ![t] = proc]
     ELSE Goto(t, "cleanProc") /\ UNCHANGED victim
  /\ UNCHANGED <<manager, conn, outside, op, mine, calls, result>>

\* Mutant of WaitForExit: the process is asked to end and not waited for.
WaitForExitOnlyAsking(t) ==
  /\ pc[t] = "wait"
  /\ victim' = [victim EXCEPT ![t] = Null]
  /\ Goto(t, "cleanProc")
  /\ UNCHANGED <<manager, conn, outside, op, mine, calls, result>>

\* terminate(), or after the grace period kill(), has ended the process.
WaitForExit(t) ==
  /\ pc[t] = "wait"
  /\ child' = [child EXCEPT ![victim[t]] = "exited"]
  /\ victim' = [victim EXCEPT ![t] = Null]
  /\ Goto(t, "cleanProc")
  /\ UNCHANGED <<manager, conn, disk, foreignUp, op, mine, calls, result>>

CleanProc(t) ==
  /\ pc[t] = "cleanProc"
  /\ proc' = Null
  /\ Goto(t, "cleanDir")
  /\ UNCHANGED <<lock, dir, conn, outside, op, mine, victim, calls, result>>

\* rmtree() of the directory _state_dir holds now.
CleanDir(t) ==
  /\ pc[t] = "cleanDir"
  /\ disk' = disk \ {dir}
  /\ Goto(t, "dropDir")
  /\ UNCHANGED <<manager, conn, child, foreignUp, op, mine, victim,
                 calls, result>>

\* Mutant of DropDir: the error leaves the lock taken.
DropDirKeepingLock(t) ==
  /\ pc[t] = "dropDir"
  /\ dir' = Null
  /\ IF op[t] = "stop"
     THEN Goto(t, "detach") /\ UNCHANGED result
     ELSE Finish(t, "failed")
  /\ UNCHANGED <<lock, proc, conn, outside, op, mine, victim, calls>>

\* _cleanup() is over, and with it the locked part it was in, if any: stop()
\* returns, start() raises SpawnError.
DropDir(t) ==
  /\ pc[t] = "dropDir"
  /\ dir' = Null
  /\ lock' = IF lock = t THEN Null ELSE lock
  /\ IF op[t] = "stop"
     THEN Goto(t, "detach") /\ UNCHANGED result
     ELSE Finish(t, "failed")
  /\ UNCHANGED <<proc, conn, outside, op, mine, victim, calls>>

\* bridge_stop ends with conn.detach().
StopDetach(t) ==
  /\ pc[t] = "detach"
  /\ attachedTo' = Null
  /\ Finish(t, "stopped")
  /\ UNCHANGED <<manager, cfgToken, outside, op, mine, victim, calls>>

Stop(t) ==
  \/ StopLock(t) \/ Terminate(t) \/ WaitForExit(t) \/ CleanProc(t)
  \/ CleanDir(t) \/ DropDir(t) \/ StopDetach(t)

-----------------------------------------------------------------------------
\* The specification

Step(t) == Start(t) \/ Stop(t)

Init ==
  /\ lock = Null /\ proc = Null /\ dir = Null
  /\ attachedTo = Null /\ cfgToken = Null
  /\ disk = {}
  /\ child = [c \in Children |-> "unborn"]
  /\ foreignUp = (Foreign # "none")
  /\ pc = [t \in Threads |-> "idle"]
  /\ op = [t \in Threads |-> "stop"]
  /\ mine = [t \in Threads |-> Null]
  /\ victim = [t \in Threads |-> Null]
  /\ calls = 0
  /\ result = [t \in Threads |-> "none"]

\* Every operation is over and no more are invoked.
Finished ==
  /\ \A t \in Threads : pc[t] = "idle"
  /\ calls = MaxCalls
  /\ UNCHANGED vars

Next ==
  \/ Outside
  \/ \E t \in Threads : \/ Step(t) \/ Deadline(t)
                        \/ \E o \in {"start", "stop"} : Invoke(t, o)
  \/ Finished

Spec == Init /\ [][Next]_vars

\* The scheduler runs every thread; time passes, so the deadline of a start
\* that keeps polling comes.
FairSpec ==
  Spec /\ \A t \in Threads : WF_vars(Step(t)) /\ SF_vars(Deadline(t))

-----------------------------------------------------------------------------
\* Properties

\* At most one engine spawned by the bridge runs at a time.
AtMostOneRunning == Cardinality({c \in Children : Alive(c)}) <= 1

\* The lock and the check under it: no start ever takes the place of a
\* managed child that is running, however starts and stops are interleaved.
NeverReplacesRunning ==
  [][proc' \notin {proc, Null} => ~Running]_vars

\* A start that reports failure leaves neither its child nor its directory.
FailedStartLeavesNothing ==
  \A t \in Threads :
    result[t] = "failed" => ~Alive(mine[t]) /\ mine[t] \notin disk

\* A running child is held by the manager, so that bridge_stop can end it,
\* unless a start or a stop is in the middle of its own work.
NoOrphan ==
  (\A t \in Threads : pc[t] = "idle") =>
    \A c \in Children : Alive(c) => proc = c

\* A start that succeeds is attached to the child it spawned: its token shows
\* that no other engine on the port was taken for it.
AttachesToItsChild ==
  [][\A t \in Threads :
       pc[t] = "attach" /\ result'[t] = "started" => attachedTo' = mine[t]]_vars

\* Every start and stop ends: within its deadline, with the grace period of a
\* child that ignores SIGTERM, and never stuck on the lock.
EveryOperationReturns ==
  \A t \in Threads : pc[t] # "idle" ~> pc[t] = "idle"

\* Refinement: locks, directories, polling and clean-up are the operations of
\* ManagedEngine on the children that run.
Managed == INSTANCE ManagedEngine WITH
  Engines <- Children,
  up      <- {c \in Children : Alive(c)},
  phase   <- [t \in Threads |->
                IF pc[t] = "idle" THEN "idle"
                ELSE IF op[t] = "stop" THEN "stop"
                ELSE IF child[mine[t]] = "unborn" THEN "start" ELSE "spawned"],
  outcome <- result

ImplementsManagedEngine == Managed!Spec
=============================================================================
