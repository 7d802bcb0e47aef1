--------------------------- MODULE LifecycleProofs ---------------------------
(***************************************************************************)
(* Proofs about Lifecycle, for any number of threads, operations, faults   *)
(* and any foreign engine: type correctness, and that no start takes the   *)
(* place of a managed child that is running.                               *)
(*                                                                         *)
(* The second needs more than the test that start() makes: between it and  *)
(* the spawn no other thread may spawn a child.  The lock gives that, but  *)
(* only in one direction: the clean-up of a start that failed changes      *)
(* _proc without it, and is harmless here because it only ever clears it.  *)
(*                                                                         *)
(* What that clean-up may destroy is shown by the run life_two.  With one  *)
(* caller at a time it is exact (SoleOK): at most one child runs, a failed *)
(* start leaves nothing, a start that succeeds has its own child, and the  *)
(* whole is what ManagedEngine promises (EngineOK: a child is born at the  *)
(* spawn of its start).                                                    *)
(*                                                                         *)
(* The last part is about RingLog, the log of the child's output, for any  *)
(* lines and bounds.  The bytes of the lines are differences of a running  *)
(* total of what was appended, so that no induction over the ring is       *)
(* needed: each step of an append moves one of its two ends.               *)
(***************************************************************************)
EXTENDS Lifecycle, RingLog, FiniteSetTheorems, TLAPS

-----------------------------------------------------------------------------
\* The inductive invariant

\* The part of start() from its test to the spawn.
Preparing(t) == pc[t] \in {"mkdir", "policy", "popen"}

\* A thread there holds the lock, and the manager holds no running child.
PreparingOK == \A t \in Threads : Preparing(t) => lock = t /\ ~Running

\* A thread has the number of a child wherever it uses one.
NumbersOK ==
  \A t \in Threads :
    /\ pc[t] \in {"startLock", "mkdir", "policy", "popen", "poll", "reset",
                  "attach"} => mine[t] \in Children
    /\ pc[t] = "wait" => victim[t] \in Children

IInv == TypeOK /\ NumbersOK /\ PreparingOK

-----------------------------------------------------------------------------
\* Type correctness

\* Each step keeps the types, and a number where one is used.
LEMMA TypeStep ==
  ASSUME TypeOK, NumbersOK, [Next]_vars
  PROVE  TypeOK' /\ NumbersOK'
<1> USE LifecycleAssumption DEF TypeOK, NumbersOK, Null, Children, Outsider,
      manager, conn, outside, thread
<1>1. CASE Outside
  BY ZenonT(60), <1>1 DEF Outside, ForeignQuits, ChildListens, ChildExits
<1>2. CASE \E t \in Threads, o \in {"start", "stop"} : Invoke(t, o)
  BY <1>2 DEF Invoke, Goto
<1>3. CASE \E t \in Threads : Start(t) \/ Deadline(t)
  <2>1. PICK t \in Threads : Start(t) \/ Deadline(t)
    BY <1>3
  <2>2. CASE StartLock(t)
    BY <2>2 DEF StartLock, Goto, Finish
  <2>3. CASE MakeStateDir(t)
    BY <2>3 DEF MakeStateDir, Goto
  <2>4. CASE WritePolicyConfig(t)
    BY ZenonT(60), <2>4 DEF WritePolicyConfig, Goto
  <2>5. CASE Popen(t)
    <3>1. CASE proc' = mine[t]
      <4>1. mine[t] \in Children
        BY <2>5 DEF Popen
      <4>2. child' \in [Children -> {"unborn", "starting", "listening",
                                     "exited"}]
        BY <2>5, <4>1 DEF Popen
      <4>3. pc' \in [Threads -> {"idle", "startLock", "mkdir", "policy",
                     "popen", "poll", "reset", "attach", "terminate", "wait",
                     "cleanProc", "cleanDir", "dropDir", "stopLock",
                     "detach"}]
        BY <2>5 DEF Popen, Goto
      <4> QED
        BY <2>5, <3>1, <4>1, <4>2, <4>3 DEF Popen, Goto
    <3>2. CASE Goto(t, "cleanProc") /\ UNCHANGED <<lock, proc, child>>
      BY <2>5, <3>2 DEF Popen, Goto
    <3> QED
      BY <2>5, <3>1, <3>2 DEF Popen
  <2>6. CASE Poll(t)
    BY <2>6 DEF Poll, Goto
  <2>7. CASE ResetConnection(t)
    BY <2>7 DEF ResetConnection, Goto
  <2>8. CASE AttachToEngine(t)
    <3>1. Listener \in 0..(MaxCalls + 1)
      BY SMTT(30) DEF Listener
    <3>2. /\ attachedTo' \in 0..(MaxCalls + 1)
          /\ cfgToken' \in Children \cup {Null}
      BY <2>8, <3>1 DEF AttachToEngine
    <3>3. CASE Finish(t, "started")
      BY <2>8, <3>2, <3>3 DEF AttachToEngine, Goto, Finish
    <3>4. CASE Goto(t, "poll") /\ UNCHANGED <<attachedTo, result>>
      BY <2>8, <3>2, <3>4 DEF AttachToEngine, Goto
    <3> QED
      BY <2>8, <3>3, <3>4 DEF AttachToEngine
  <2>9. CASE Deadline(t)
    BY <2>9 DEF Deadline, Goto
  <2> QED
    BY <2>1, <2>2, <2>3, <2>4, <2>5, <2>6, <2>7, <2>8, <2>9 DEF Start
<1>4. CASE \E t \in Threads : Stop(t)
  <2>1. PICK t \in Threads : Stop(t)
    BY <1>4
  <2>2. CASE StopLock(t)
    BY SMTT(30), <2>2 DEF StopLock, Goto, Finish
  <2>3. CASE Terminate(t)
    <3>1. CASE Running
      <4>1. proc \in Children
        BY <3>1 DEF Running
      <4>2. /\ pc' = [pc EXCEPT ![t] = "wait"]
            /\ victim' = [victim EXCEPT ![t] = proc]
            /\ UNCHANGED <<lock, proc, dir, attachedTo, cfgToken, disk, child,
                           foreignUp, op, mine, calls, result>>
        BY <2>3, <3>1 DEF Terminate, Goto
      <4> QED
        BY <4>1, <4>2
    <3>2. CASE ~Running
      BY <2>3, <3>2 DEF Terminate, Goto
    <3> QED
      BY <3>1, <3>2
  <2>4. CASE WaitForExit(t)
    BY <2>4 DEF WaitForExit, Goto
  <2>5. CASE CleanProc(t)
    BY <2>5 DEF CleanProc, Goto
  <2>6. CASE CleanDir(t)
    BY <2>6 DEF CleanDir, Goto
  <2>7. CASE DropDir(t)
    <3>1. CASE op[t] = "stop"
      BY ZenonT(60), <2>7, <3>1 DEF DropDir, Goto
    <3>2. CASE op[t] # "stop"
      BY SMTT(30), <2>7, <3>2 DEF DropDir, Goto, Finish
    <3> QED
      BY <3>1, <3>2
  <2>8. CASE StopDetach(t)
    BY <2>8 DEF StopDetach, Goto, Finish
  <2> QED
    BY <2>1, <2>2, <2>3, <2>4, <2>5, <2>6, <2>7, <2>8 DEF Stop
<1>5. CASE UNCHANGED vars
  BY <1>5 DEF vars
<1> QED
  BY <1>1, <1>2, <1>3, <1>4, <1>5 DEF Next, Step, Finished

-----------------------------------------------------------------------------
\* The invariant

\* Each step keeps it: the lock is not taken from a start that prepares its
\* child, and no child starts meanwhile.
LEMMA InvStep ==
  ASSUME IInv, [Next]_vars
  PROVE  IInv'
<1> USE LifecycleAssumption DEF IInv, TypeOK, PreparingOK, Preparing, Running,
      Alive, Null, Children, manager, conn, outside, thread
<1>1. TypeOK' /\ NumbersOK'
  BY TypeStep
<1>2. PreparingOK'
  <2>1. CASE Outside
    BY <2>1 DEF Outside, ForeignQuits, ChildListens, ChildExits
  <2>2. CASE \E t \in Threads, o \in {"start", "stop"} : Invoke(t, o)
    BY <2>2 DEF Invoke, Goto
  <2>3. CASE \E t \in Threads : Start(t) \/ Deadline(t)
    <3>1. PICK t \in Threads : Start(t) \/ Deadline(t)
      BY <2>3
    <3>2. CASE StartLock(t)
      BY <3>2 DEF StartLock, Goto, Finish
    <3>3. CASE MakeStateDir(t)
      BY <3>3 DEF MakeStateDir, Goto
    <3>4. CASE WritePolicyConfig(t)
      BY <3>4 DEF WritePolicyConfig, Goto
    <3>5. CASE Popen(t)
      BY <3>5 DEF Popen, Goto
    <3>6. CASE Poll(t)
      BY <3>6 DEF Poll, Goto
    <3>7. CASE ResetConnection(t)
      BY <3>7 DEF ResetConnection, Goto
    <3>8. CASE AttachToEngine(t)
      BY <3>8 DEF AttachToEngine, Goto, Finish
    <3>9. CASE Deadline(t)
      BY <3>9 DEF Deadline, Goto
    <3> QED
      BY <3>1, <3>2, <3>3, <3>4, <3>5, <3>6, <3>7, <3>8, <3>9 DEF Start
  <2>4. CASE \E t \in Threads : Stop(t)
    <3>1. PICK t \in Threads : Stop(t)
      BY <2>4
    <3>2. CASE StopLock(t)
      BY <3>2 DEF StopLock, Goto, Finish
    <3>3. CASE Terminate(t)
      BY <3>3 DEF Terminate, Goto
    <3>4. CASE WaitForExit(t)
      BY <3>4 DEF WaitForExit, Goto, NumbersOK
    <3>5. CASE CleanProc(t)
      BY <3>5 DEF CleanProc, Goto
    <3>6. CASE CleanDir(t)
      BY <3>6 DEF CleanDir, Goto
    <3>7. CASE DropDir(t)
      BY <3>7 DEF DropDir, Goto, Finish
    <3>8. CASE StopDetach(t)
      BY <3>8 DEF StopDetach, Goto, Finish
    <3> QED
      BY <3>1, <3>2, <3>3, <3>4, <3>5, <3>6, <3>7, <3>8 DEF Stop
  <2>5. CASE UNCHANGED vars
    BY <2>5 DEF vars
  <2> QED
    BY <2>1, <2>2, <2>3, <2>4, <2>5 DEF Next, Step, Finished
<1> QED
  BY <1>1, <1>2

\* The invariant holds in every state of a behaviour.
THEOREM Invariance == Spec => []IInv
<1>1. Init => IInv
  BY LifecycleAssumption DEF Init, IInv, TypeOK, NumbersOK, PreparingOK,
     Preparing, Null, Children, Outsider
<1>2. IInv /\ [Next]_vars => IInv'
  BY InvStep
<1> QED
  BY <1>1, <1>2, PTL DEF Spec

\* Type correctness: every number a thread uses is that of a child, the lock
\* word that of a thread.
THEOREM TypeCorrect == Spec => []TypeOK
<1>1. IInv => TypeOK
  BY DEF IInv
<1> QED
  BY <1>1, Invariance, PTL

\* No start ever takes the place of a managed child that is running.
THEOREM NoRunningChildReplaced == Spec => NeverReplacesRunning
<1>1. ASSUME IInv, [Next]_vars
      PROVE  [proc' \notin {proc, Null} => ~Running]_vars
  <2> USE DEF manager, conn, outside, thread, Null
  <2>1. CASE \E t \in Threads : Popen(t)
    BY <1>1, <2>1 DEF Popen, IInv, PreparingOK, Preparing, vars
  <2>2. CASE ~ \E t \in Threads : Popen(t)
    <3>1. proc' \in {proc, Null}
      BY <1>1, <2>2 DEF Next, Step, Start, Stop, Outside, Finished, vars,
         ForeignQuits, ChildListens, ChildExits, Invoke, StartLock,
         MakeStateDir, WritePolicyConfig, Poll, ResetConnection,
         AttachToEngine, Deadline, StopLock, Terminate, WaitForExit,
         CleanProc, CleanDir, DropDir, StopDetach
    <3> QED
      BY <3>1
  <2> QED
    BY <2>1, <2>2
<1> QED
  BY <1>1, Invariance, PTL DEF Spec, NeverReplacesRunning
-----------------------------------------------------------------------------
\* One caller

\* The bridge is asked for one start or stop at a time.
OneCaller == \A s, t \in Threads : s = t

\* Then the manager knows every child that runs, and the statements behind the
\* lock work on the child and the directory of the start they belong to.
SoleOK ==
  /\ \A c \in Children : Alive(c) => proc = c
  /\ \A t \in Threads :
       /\ pc[t] = "stopLock" => op[t] = "stop"
       /\ pc[t] = "wait" => victim[t] = proc
       /\ pc[t] = "cleanProc" => ~Running
       /\ pc[t] \in {"cleanDir", "dropDir"} => proc = Null
       /\ op[t] = "start" =>
            /\ mine[t] \in Children
            /\ pc[t] \in {"policy", "popen", "poll", "reset", "attach",
                          "terminate", "wait", "cleanProc", "cleanDir"}
                 => dir = mine[t]
            /\ pc[t] = "dropDir" => mine[t] \notin disk
       /\ pc[t] = "attach" => attachedTo = Null /\ cfgToken = mine[t]
       /\ result[t] # "none" => pc[t] = "idle"
       /\ result[t] = "failed" =>
            op[t] = "start" /\ proc = Null /\ mine[t] \notin disk

\* With one caller each step keeps that.
LEMMA SoleStep ==
  ASSUME OneCaller, IInv, SoleOK, [Next]_vars
  PROVE  SoleOK'
<1> USE LifecycleAssumption DEF OneCaller, IInv, TypeOK, SoleOK, Running,
      Alive, Null, Children, manager, conn, outside, thread
<1>1. CASE Outside
  BY SMTT(30), <1>1 DEF Outside, ForeignQuits, ChildListens, ChildExits
<1>2. CASE \E t \in Threads, o \in {"start", "stop"} : Invoke(t, o)
  BY <1>2 DEF Invoke, Goto
<1>3. CASE \E t \in Threads : Start(t) \/ Deadline(t)
  <2>1. PICK t \in Threads : Start(t) \/ Deadline(t)
    BY <1>3
  <2>2. CASE StartLock(t)
    BY <2>2 DEF StartLock, Goto, Finish
  <2>3. CASE MakeStateDir(t)
    BY <2>3 DEF MakeStateDir, Goto
  <2>4. CASE WritePolicyConfig(t)
    BY <2>4 DEF WritePolicyConfig, Goto, PreparingOK, Preparing
  <2>5. CASE Popen(t)
    BY <2>5 DEF Popen, Goto, PreparingOK, Preparing
  <2>6. CASE Poll(t)
    BY <2>6 DEF Poll, Goto
  <2>7. CASE ResetConnection(t)
    BY <2>7 DEF ResetConnection, Goto
  <2>8. CASE AttachToEngine(t)
    BY <2>8 DEF AttachToEngine, Goto, Finish
  <2>9. CASE Deadline(t)
    BY <2>9 DEF Deadline, Goto
  <2> QED
    BY <2>1, <2>2, <2>3, <2>4, <2>5, <2>6, <2>7, <2>8, <2>9 DEF Start
<1>4. CASE \E t \in Threads : Stop(t)
  <2>1. PICK t \in Threads : Stop(t)
    BY <1>4
  <2>2. CASE StopLock(t)
    BY <2>2 DEF StopLock, Goto, Finish
  <2>3. CASE Terminate(t)
    BY <2>3 DEF Terminate, Goto
  <2>4. CASE WaitForExit(t)
    BY <2>4 DEF WaitForExit, Goto, NumbersOK
  <2>5. CASE CleanProc(t)
    BY <2>5 DEF CleanProc, Goto
  <2>6. CASE CleanDir(t)
    BY <2>6 DEF CleanDir, Goto
  <2>7. CASE DropDir(t)
    BY <2>7 DEF DropDir, Goto, Finish
  <2>8. CASE StopDetach(t)
    BY <2>8 DEF StopDetach, Goto, Finish
  <2> QED
    BY <2>1, <2>2, <2>3, <2>4, <2>5, <2>6, <2>7, <2>8 DEF Stop
<1>5. CASE UNCHANGED vars
  BY <1>5 DEF vars
<1> QED
  BY <1>1, <1>2, <1>3, <1>4, <1>5 DEF Next, Step, Finished

\* With one caller at a time the manager's own account is exact in every state.
THEOREM SoleInvariance ==
  ASSUME OneCaller
  PROVE  Spec => [](IInv /\ SoleOK)
<1>1. Init => SoleOK
  BY DEF Init, SoleOK, Alive, Null, Children
<1>2. IInv /\ SoleOK /\ [Next]_vars => SoleOK'
  BY OneCaller, SoleStep
<1> QED
  BY <1>1, <1>2, Invariance, PTL DEF Spec

\* With one caller at a time at most one child runs, and a start that failed
\* has left nothing.
THEOREM SoleCallerSafe ==
  ASSUME OneCaller
  PROVE  Spec => [](AtMostOneRunning /\ FailedStartLeavesNothing)
<1>1. ASSUME IInv, SoleOK
      PROVE  AtMostOneRunning /\ FailedStartLeavesNothing
  <2>1. AtMostOneRunning
    <3> DEFINE Up == {c \in Children : Alive(c)}
    <3>1. Up = {} \/ Up = {proc}
      BY <1>1 DEF SoleOK
    <3>2. Cardinality({}) = 0 /\ Cardinality({proc}) = 1
      BY FS_EmptySet, FS_Singleton
    <3> QED
      BY <3>1, <3>2 DEF AtMostOneRunning
  <2>2. FailedStartLeavesNothing
    BY <1>1 DEF SoleOK, FailedStartLeavesNothing, Null, Children
  <2> QED
    BY <2>1, <2>2
<1> QED
  BY <1>1, SoleInvariance, PTL

\* With one caller at a time a child that runs between operations is the one
\* bridge_stop() acts on: none is out of its reach.
THEOREM NoChildOrphaned ==
  ASSUME OneCaller
  PROVE  Spec => []NoOrphan
<1>1. ASSUME IInv, SoleOK PROVE NoOrphan
  BY <1>1 DEF SoleOK, NoOrphan
<1> QED
  BY <1>1, SoleInvariance, PTL

\* With one caller at a time, and no engine on the port whose token is in the
\* token file or that checks none, a start that succeeds is attached to the
\* child it spawned.
THEOREM AttachedToOwnChild ==
  ASSUME OneCaller, Foreign \in {"none", "elsewhere"}
  PROVE  Spec => AttachesToItsChild
<1>1. ASSUME IInv, SoleOK, [Next]_vars
      PROVE  [\A t \in Threads :
                pc[t] = "attach" /\ result'[t] = "started"
                  => attachedTo' = mine[t]]_vars
  <2> SUFFICES ASSUME NEW t \in Threads,
                      pc[t] = "attach", result'[t] = "started"
               PROVE  attachedTo' = mine[t]
    OBVIOUS
  <2>1. result[t] = "none" /\ result' # result
    BY <1>1 DEF SoleOK
  <2>2. AttachToEngine(t)
    <3>1. ~(Outside \/ UNCHANGED vars)
      BY <2>1 DEF Outside, ForeignQuits, ChildListens, ChildExits, vars, thread
    <3>2. PICK u \in Threads :
            Step(u) \/ Deadline(u) \/ \E o \in {"start", "stop"} : Invoke(u, o)
      BY <1>1, <3>1 DEF Next, Finished
    <3>3. u = t
      BY DEF OneCaller
    <3>4. pc[u] = "attach"
      BY <3>3
    <3> QED
      BY <3>2, <3>3, <3>4 DEF Step, Start, Stop, Invoke, StartLock,
         MakeStateDir, WritePolicyConfig, Popen, Poll, ResetConnection,
         Deadline, StopLock, Terminate, WaitForExit, CleanProc, CleanDir,
         DropDir, StopDetach
  <2>3. attachedTo = Null /\ cfgToken = mine[t]
    BY <1>1 DEF SoleOK
  <2>4. mine[t] \in Children
    BY <1>1 DEF IInv, NumbersOK
  <2>5. TakesRemembered /\ ~TakesTokenFile => Listener = mine[t]
    BY <2>3 DEF TakesRemembered
  <2>6. CASE TakesRemembered
    BY <2>2, <2>3, <2>5, <2>6 DEF AttachToEngine, TakesTokenFile
  <2>7. CASE ~TakesRemembered
    <3>1. ~TakesTokenFile
      BY DEF TakesTokenFile
    <3>2. Goto(t, "poll") /\ UNCHANGED <<attachedTo, result>>
      BY <2>2, <2>3, <2>7, <3>1 DEF AttachToEngine
    <3> QED
      BY <2>1, <3>2
  <2> QED
    BY <2>6, <2>7
<1> QED
  BY <1>1, SoleInvariance, PTL DEF Spec, AttachesToItsChild

-----------------------------------------------------------------------------
\* One caller: the promise of ManagedEngine

\* The child of an operation is born at its spawn and not before, and the
\* manager holds no other.
EngineOK ==
  /\ \A c \in Children : calls < c => child[c] = "unborn"
  /\ proc # Null => child[proc] # "unborn"
  /\ \A t \in Threads :
       /\ op[t] = "start" => mine[t] <= calls
       /\ pc[t] \in {"startLock", "mkdir", "policy", "popen"} =>
            op[t] = "start" /\ child[mine[t]] = "unborn"
       /\ pc[t] \in {"poll", "reset", "attach"} =>
            op[t] = "start" /\ child[mine[t]] # "unborn"
       /\ pc[t] = "detach" => op[t] = "stop" /\ proc = Null

\* With one caller each step keeps that.
LEMMA EngineStep ==
  ASSUME OneCaller, IInv, SoleOK, EngineOK, [Next]_vars
  PROVE  EngineOK'
<1> USE LifecycleAssumption DEF OneCaller, IInv, TypeOK, NumbersOK, SoleOK,
      EngineOK, Running, Alive, Null, Children, manager, conn, outside, thread
<1>1. CASE Outside
  BY SMTT(30), <1>1 DEF Outside, ForeignQuits, ChildListens, ChildExits
<1>2. CASE \E t \in Threads, o \in {"start", "stop"} : Invoke(t, o)
  BY SMTT(30), <1>2 DEF Invoke, Goto
<1>3. CASE \E t \in Threads : Start(t) \/ Deadline(t)
  <2>1. PICK t \in Threads : Start(t) \/ Deadline(t)
    BY <1>3
  <2>2. CASE StartLock(t)
    BY <2>2 DEF StartLock, Goto, Finish
  <2>3. CASE MakeStateDir(t)
    BY <2>3 DEF MakeStateDir, Goto
  <2>4. CASE WritePolicyConfig(t)
    BY <2>4 DEF WritePolicyConfig, Goto
  <2>5. CASE Popen(t)
    BY SMTT(30), <2>5 DEF Popen, Goto
  <2>6. CASE Poll(t)
    BY <2>6 DEF Poll, Goto
  <2>7. CASE ResetConnection(t)
    BY <2>7 DEF ResetConnection, Goto
  <2>8. CASE AttachToEngine(t)
    BY <2>8 DEF AttachToEngine, Goto, Finish
  <2>9. CASE Deadline(t)
    BY <2>9 DEF Deadline, Goto
  <2> QED
    BY <2>1, <2>2, <2>3, <2>4, <2>5, <2>6, <2>7, <2>8, <2>9 DEF Start
<1>4. CASE \E t \in Threads : Stop(t)
  <2>1. PICK t \in Threads : Stop(t)
    BY <1>4
  <2>2. CASE StopLock(t)
    BY <2>2 DEF StopLock, Goto, Finish
  <2>3. CASE Terminate(t)
    BY <2>3 DEF Terminate, Goto
  <2>4. CASE WaitForExit(t)
    BY SMTT(30), <2>4 DEF WaitForExit, Goto
  <2>5. CASE CleanProc(t)
    BY <2>5 DEF CleanProc, Goto
  <2>6. CASE CleanDir(t)
    BY <2>6 DEF CleanDir, Goto
  <2>7. CASE DropDir(t)
    BY <2>7 DEF DropDir, Goto, Finish
  <2>8. CASE StopDetach(t)
    BY <2>8 DEF StopDetach, Goto, Finish
  <2> QED
    BY <2>1, <2>2, <2>3, <2>4, <2>5, <2>6, <2>7, <2>8 DEF Stop
<1>5. CASE UNCHANGED vars
  BY <1>5 DEF vars
<1> QED
  BY <1>1, <1>2, <1>3, <1>4, <1>5 DEF Next, Step, Finished

\* What is mapped to ManagedEngine.
Up == {c \in Children : Alive(c)}

Phase(t) ==
  IF pc[t] = "idle" THEN "idle"
  ELSE IF op[t] = "stop" THEN "stop"
  ELSE IF child[mine[t]] = "unborn" THEN "start" ELSE "spawned"

\* With one caller at most one child runs, and it is the one that is held.
LEMMA UpIsManaged ==
  ASSUME SoleOK, TypeOK
  PROVE  Up = IF Running THEN {proc} ELSE {}
BY DEF SoleOK, TypeOK, Up, Running, Alive, Null, Children

\* With one caller a step that changes neither the children nor a phase is no
\* step of ManagedEngine.
LEMMA ManagedStutters ==
  ASSUME Up' = Up, \A t \in Threads : Phase(t)' = Phase(t), result' = result
  PROVE  UNCHANGED Managed!vars
<1>1. [t \in Threads |-> Phase(t)]' = [t \in Threads |-> Phase(t)]
  OBVIOUS
<1> QED
  BY <1>1 DEF Managed!vars, Up, Phase

\* A step inside an operation that starts and ends no child is none either.
LEMMA ManagedInside ==
  ASSUME OneCaller, NEW t \in Threads, pc[t] # "idle", pc'[t] # "idle",
         UNCHANGED <<op, mine, child, result>>
  PROVE  UNCHANGED Managed!vars
<1>1. Up' = Up
  BY DEF Up, Alive
<1>2. \A u \in Threads : Phase(u)' = Phase(u)
  BY DEF OneCaller, Phase
<1> QED
  BY <1>1, <1>2, ManagedStutters

\* An operation returns what its phase and the children allow.
LEMMA ManagedReturns ==
  ASSUME OneCaller, TypeOK, NEW t \in Threads,
         NEW o \in {"started", "failed", "stopped", "refused"},
         o \in Managed!Truthful(Phase(t)), Finish(t, o), child' = child
  PROVE  Managed!Next
<1>1. \A u \in Threads : u = t
  BY DEF OneCaller
<1>2. Up' = Up
  BY DEF Up, Alive
<1>3. t \in DOMAIN pc
  BY DEF TypeOK
<1>4. Phase(t)' = "idle"
  BY <1>3 DEF Finish, Goto, Phase
<1>5. [u \in Threads |-> Phase(u)]' =
        [[u \in Threads |-> Phase(u)] EXCEPT ![t] = "idle"]
  BY <1>1, <1>4
<1>6. Managed!Return(t, o)
  BY <1>2, <1>5 DEF Managed!Return, Managed!Truthful, Finish, Up, Phase
<1> QED
  BY <1>6 DEF Managed!Next

\* A child that ends is an engine of ManagedEngine that ends.
LEMMA ManagedEnds ==
  ASSUME NEW c \in Children, c \in Up, Up' = Up \ {c}, result' = result,
         \A t \in Threads : Phase(t)' = Phase(t)
  PROVE  Managed!Next
<1>1. [t \in Threads |-> Phase(t)]' = [t \in Threads |-> Phase(t)]
  OBVIOUS
<1>2. Managed!EngineEnds(c)
  BY <1>1 DEF Managed!EngineEnds, Up, Phase
<1> QED
  BY <1>2 DEF Managed!Next

\* With one caller every step is one of an operation of ManagedEngine, or of
\* none.
LEMMA ManagedStep ==
  ASSUME OneCaller, IInv, SoleOK, EngineOK, EngineOK', [Next]_vars
  PROVE  [Managed!Next]_(Managed!vars)
<1> USE DEF manager, conn, outside, thread
<1>1. TypeOK /\ \A s, t \in Threads : s = t
  BY DEF IInv, OneCaller
<1>2. Up = IF Running THEN {proc} ELSE {}
  BY <1>1, UpIsManaged
<1>3. \A t \in Threads : t \in DOMAIN pc /\ t \in DOMAIN op
        /\ t \in DOMAIN mine /\ t \in DOMAIN result
  BY <1>1 DEF TypeOK
<1>4. CASE Outside
  <2>1. CASE ForeignQuits
    <3>1. Up' = Up /\ result' = result /\ \A t \in Threads : Phase(t)' = Phase(t)
      BY <2>1 DEF ForeignQuits, Up, Alive, Phase
    <3> QED
      BY <3>1, ManagedStutters
  <2>2. ASSUME NEW c \in Children, ChildListens(c) \/ ChildExits(c)
        PROVE  [Managed!Next]_(Managed!vars)
    <3>1. /\ Alive(c) /\ child[c] # "unborn"
          /\ child'[c] \in {"listening", "exited"}
          /\ \A d \in Children : d # c => child'[d] = child[d]
          /\ UNCHANGED <<pc, op, mine, result>>
      BY <1>1, <2>2 DEF ChildListens, ChildExits, Alive, TypeOK
    <3>2. \A t \in Threads : Phase(t)' = Phase(t)
      <4>1. ASSUME NEW t \in Threads, op[t] # "stop"
            PROVE  child'[mine[t]] = "unborn" <=> child[mine[t]] = "unborn"
        <5>1. mine[t] \in Children
          BY <1>1, <4>1 DEF SoleOK, TypeOK
        <5> QED
          BY <3>1, <5>1
      <4> QED
        BY <3>1, <4>1 DEF Phase
    <3>3. CASE child'[c] = "listening"
      <4>1. Up' = Up
        BY <3>1, <3>3 DEF Up, Alive
      <4> QED
        BY <3>1, <3>2, <4>1, ManagedStutters
    <3>4. CASE child'[c] = "exited"
      <4>1. Up' = Up \ {c} /\ c \in Up
        BY <3>1, <3>4 DEF Up, Alive
      <4> QED
        BY <3>1, <3>2, <4>1, ManagedEnds
    <3> QED
      BY <3>1, <3>3, <3>4
  <2> QED
    BY <1>4, <2>1, <2>2 DEF Outside
<1>5. ASSUME NEW t \in Threads, NEW o \in {"start", "stop"}, Invoke(t, o)
      PROVE  [Managed!Next]_(Managed!vars)
  <2>1. /\ pc[t] = "idle" /\ pc'[t] # "idle" /\ op'[t] = o
        /\ result' = [result EXCEPT ![t] = "none"] /\ child' = child
        /\ o = "start" => mine'[t] = calls + 1
        /\ calls + 1 \in Children /\ calls < calls + 1
    <3>1. /\ calls \in 0..MaxCalls /\ calls < MaxCalls /\ MaxCalls \in Nat
      BY <1>1, <1>5, LifecycleAssumption DEF Invoke, TypeOK
    <3>2. calls + 1 \in Children /\ calls < calls + 1
      BY <3>1 DEF Children
    <3>3. /\ pc[t] = "idle" /\ pc'[t] # "idle" /\ op'[t] = o
          /\ result' = [result EXCEPT ![t] = "none"] /\ child' = child
          /\ o = "start" => mine'[t] = calls + 1
      BY <1>3, <1>5 DEF Invoke, Goto
    <3> QED
      BY <3>2, <3>3
  <2>2. o = "start" => child[calls + 1] = "unborn"
    BY <2>1 DEF EngineOK
  <2>3. Phase(t) = "idle" /\ Phase(t)' = o
    BY <2>1, <2>2 DEF Phase
  <2>4. [u \in Threads |-> Phase(u)]' =
          [[u \in Threads |-> Phase(u)] EXCEPT ![t] = o]
    BY <1>1, <2>3
  <2>5. Up' = Up
    BY <2>1 DEF Up, Alive
  <2>6. Managed!Invoke(t, o)
    BY <2>1, <2>3, <2>4, <2>5 DEF Managed!Invoke, Up, Phase
  <2> QED
    BY <2>6 DEF Managed!Next
<1>6. ASSUME NEW t \in Threads, Start(t) \/ Deadline(t) \/ Stop(t)
      PROVE  [Managed!Next]_(Managed!vars)
  <2>1. CASE StartLock(t)
    <3>1. CASE Running
      <4>1. /\ pc[t] = "startLock" /\ Finish(t, "refused") /\ child' = child
            /\ op[t] = "start" /\ child[mine[t]] = "unborn"
        BY <2>1, <3>1 DEF StartLock, EngineOK
      <4>2. Phase(t) = "start" /\ Up # {}
        BY <1>2, <3>1, <4>1 DEF Phase
      <4>3. "refused" \in Managed!Truthful(Phase(t))
        BY <4>2 DEF Managed!Truthful, Up
      <4> QED
        BY <1>1, <4>1, <4>3, ManagedReturns
    <3>2. CASE ~Running
      BY <1>3, <2>1, <3>2, ManagedInside DEF StartLock, Goto
    <3> QED
      BY <3>1, <3>2
  <2>2. CASE \/ MakeStateDir(t) \/ WritePolicyConfig(t) \/ Poll(t)
             \/ ResetConnection(t) \/ Deadline(t) \/ Terminate(t)
             \/ CleanProc(t) \/ CleanDir(t)
    <3>1. pc[t] # "idle" /\ pc'[t] # "idle"
          /\ UNCHANGED <<op, mine, child, result>>
      BY <1>3, <2>2 DEF MakeStateDir, WritePolicyConfig, Poll,
         ResetConnection, Deadline, Terminate, CleanProc, CleanDir, Goto
    <3> QED
      BY <3>1, ManagedInside
  <2>3. CASE Popen(t)
    <3>1. CASE proc' = mine[t] /\ child' = [child EXCEPT ![mine[t]] = "starting"]
               /\ Goto(t, "poll")
      <4>1. /\ pc[t] = "popen" /\ pc'[t] = "poll"
            /\ UNCHANGED <<op, mine, result>>
            /\ op[t] = "start" /\ child[mine[t]] = "unborn"
            /\ mine[t] \in Children /\ ~Running
        BY <1>3, <2>3, <3>1 DEF Popen, Goto, EngineOK, IInv, NumbersOK,
           PreparingOK, Preparing
      <4>2. Up = {} /\ Up' = {mine[t]}
        <5>1. Up = {}
          BY <1>2, <4>1
        <5>2. /\ child' \in [Children -> {"unborn", "starting", "listening",
                                          "exited"}]
              /\ child'[mine[t]] = "starting"
              /\ \A c \in Children : c # mine[t] => child'[c] = child[c]
          BY <1>1, <3>1, <4>1 DEF TypeOK
        <5> QED
          BY <4>1, <5>1, <5>2 DEF Up, Alive
      <4>3. Phase(t) = "start" /\ Phase(t)' = "spawned"
        BY <1>1, <3>1, <4>1 DEF Phase, TypeOK
      <4>4. [u \in Threads |-> Phase(u)]' =
              [[u \in Threads |-> Phase(u)] EXCEPT ![t] = "spawned"]
        BY <1>1, <4>3
      <4>5. PICK e \in Children : e = mine[t]
        BY <4>1
      <4>6. Managed!Spawn(t, e)
        BY <4>1, <4>2, <4>3, <4>4, <4>5 DEF Managed!Spawn, Up, Phase
      <4> QED
        BY <4>6 DEF Managed!Next
    <3>2. CASE Goto(t, "cleanProc") /\ UNCHANGED <<lock, proc, child>>
      <4>1. pc[t] # "idle" /\ pc'[t] # "idle"
            /\ UNCHANGED <<op, mine, child, result>>
        BY <1>3, <2>3, <3>2 DEF Popen, Goto
      <4> QED
        BY <4>1, ManagedInside
    <3> QED
      BY <2>3, <3>1, <3>2 DEF Popen
  <2>4. CASE AttachToEngine(t)
    <3>1. CASE Finish(t, "started")
      <4>1. Phase(t) = "spawned" /\ child' = child
        BY <2>4 DEF AttachToEngine, EngineOK, Phase
      <4>2. "started" \in Managed!Truthful(Phase(t))
        BY <4>1 DEF Managed!Truthful
      <4> QED
        BY <1>1, <3>1, <4>1, <4>2, ManagedReturns
    <3>2. CASE Goto(t, "poll") /\ UNCHANGED <<attachedTo, result>>
      <4>1. pc[t] # "idle" /\ pc'[t] # "idle"
            /\ UNCHANGED <<op, mine, child, result>>
        BY <1>3, <2>4, <3>2 DEF AttachToEngine, Goto
      <4> QED
        BY <4>1, ManagedInside
    <3> QED
      BY <2>4, <3>1, <3>2 DEF AttachToEngine
  <2>5. CASE StopLock(t)
    <3>1. CASE Running
      BY <1>3, <2>5, <3>1, ManagedInside DEF StopLock, Goto
    <3>2. CASE ~Running
      <4>1. Finish(t, "refused") /\ child' = child
            /\ Phase(t) = "stop"
        BY <2>5, <3>2 DEF StopLock, Phase, SoleOK
      <4>2. "refused" \in Managed!Truthful(Phase(t))
        BY <1>2, <3>2, <4>1 DEF Managed!Truthful, Up
      <4> QED
        BY <1>1, <4>1, <4>2, ManagedReturns
    <3> QED
      BY <3>1, <3>2
  <2>6. CASE WaitForExit(t)
    <3> DEFINE c == victim[t]
    <3>1. /\ pc[t] = "wait" /\ pc'[t] = "cleanProc"
          /\ UNCHANGED <<op, mine, result>>
          /\ c \in Children /\ c = proc /\ child[c] # "unborn"
          /\ child' = [child EXCEPT ![c] = "exited"]
      <4>1. c \in Children /\ c = proc /\ pc[t] = "wait"
        BY <2>6 DEF WaitForExit, IInv, NumbersOK, SoleOK
      <4>2. c # Null
        BY <4>1 DEF Children, Null
      <4> QED
        BY <1>3, <2>6, <4>1, <4>2 DEF WaitForExit, Goto, EngineOK
    <3> HIDE DEF c
    <3>2. child'[c] = "exited" /\ \A d \in Children : d # c => child'[d] = child[d]
      BY <1>1, <3>1 DEF TypeOK
    <3>3. \A u \in Threads : Phase(u)' = Phase(u)
      <4>1. Phase(t)' = Phase(t)
        BY <1>1, <3>1 DEF Phase, TypeOK
      <4> QED
        BY <1>1, <4>1
    <3>4. CASE Alive(c)
      <4>1. Up' = Up \ {c} /\ c \in Up
        BY <3>1, <3>2, <3>4 DEF Up, Alive
      <4>2. PICK d \in Children : d = c
        BY <3>1
      <4> QED
        BY <3>1, <3>3, <4>1, <4>2, ManagedEnds
    <3>5. CASE ~Alive(c)
      <4>1. Up' = Up
        BY <3>1, <3>2, <3>5 DEF Up, Alive
      <4> QED
        BY <3>1, <3>3, <4>1, ManagedStutters
    <3> QED
      BY <3>4, <3>5
  <2>7. CASE DropDir(t)
    <3>1. CASE op[t] = "stop"
      <4>1. pc[t] # "idle" /\ pc'[t] # "idle"
            /\ UNCHANGED <<op, mine, child, result>>
        BY <1>3, <2>7, <3>1 DEF DropDir, Goto
      <4> QED
        BY <4>1, ManagedInside
    <3>2. CASE op[t] # "stop"
      <4>1. Finish(t, "failed") /\ child' = child /\ proc = Null
            /\ Phase(t) \in {"start", "spawned"}
        BY <2>7, <3>2 DEF DropDir, Phase, SoleOK
      <4>2. Up = {}
        BY <1>2, <4>1 DEF Running
      <4>3. "failed" \in Managed!Truthful(Phase(t))
        BY <4>1, <4>2 DEF Managed!Truthful, Up
      <4> QED
        BY <1>1, <4>1, <4>3, ManagedReturns
    <3> QED
      BY <3>1, <3>2
  <2>8. CASE StopDetach(t)
    <3>1. Finish(t, "stopped") /\ child' = child /\ Phase(t) = "stop"
          /\ proc = Null
      BY <2>8 DEF StopDetach, Phase, EngineOK
    <3>2. Up = {}
      BY <1>2, <3>1 DEF Running
    <3>3. "stopped" \in Managed!Truthful(Phase(t))
      BY <3>1, <3>2 DEF Managed!Truthful, Up
    <3> QED
      BY <1>1, <3>1, <3>3, ManagedReturns
  <2> QED
    BY <1>6, <2>1, <2>2, <2>3, <2>4, <2>5, <2>6, <2>7, <2>8 DEF Start, Stop
<1>7. CASE UNCHANGED vars
  <2>1. Up' = Up /\ result' = result /\ \A t \in Threads : Phase(t)' = Phase(t)
    BY <1>7 DEF vars, Up, Alive, Phase
  <2> QED
    BY <2>1, ManagedStutters
<1> QED
  BY <1>4, <1>5, <1>6, <1>7 DEF Next, Step, Finished

\* With one caller at a time bridge_start and bridge_stop keep the promise of
\* ManagedEngine under every fault: one engine at most, and every outcome true
\* of it.  life_two shows that two callers break it.
THEOREM Refinement ==
  ASSUME OneCaller
  PROVE  Spec => ImplementsManagedEngine
<1>1. Init => EngineOK
  BY DEF Init, EngineOK, Null
<1>2. IInv /\ SoleOK /\ EngineOK /\ [Next]_vars => EngineOK'
  BY OneCaller, EngineStep
<1>3. Init => Managed!Init
  BY DEF Init, Managed!Init, Alive
<1>4. IInv /\ SoleOK /\ EngineOK /\ EngineOK' /\ [Next]_vars
        => [Managed!Next]_(Managed!vars)
  BY OneCaller, ManagedStep
<1> QED
  BY <1>1, <1>2, <1>3, <1>4, SoleInvariance, PTL
     DEF Spec, ImplementsManagedEngine, Managed!Spec

-----------------------------------------------------------------------------
\* The log ring: the inductive invariant

\* The running totals never fall.
HistoryOK ==
  \A i, j \in 0..Len(history) : i <= j => Upto(i) <= Upto(j)

\* The ring is an end of what was appended, of MaxLines lines at most; the
\* count is its bytes.
SuffixOK ==
  /\ Len(ring) <= Len(history) /\ Len(ring) <= MaxLines
  /\ history # <<>> => ring # <<>>
  /\ total = LastBytes(Len(ring))
  /\ \A i \in 1..Len(ring) :
       ring[i].bytes = LastBytes(Len(ring) - i + 1) - LastBytes(Len(ring) - i)

\* No longer end fits, not even during an append; after one the ring does.
EvictedOK ==
  /\ \A k \in (Len(ring) + 1)..Len(history) :
       k > MaxLines \/ LastBytes(k) > MaxTotalBytes
  /\ appending \/ ~Overfull

LogInv == RingLogTypeOK /\ HistoryOK /\ SuffixOK /\ EvictedOK

\* A ring that is empty is all that was appended.
LEMMA LogInit == RingLogInit => LogInv
<1> SUFFICES ASSUME RingLogInit PROVE LogInv
  OBVIOUS
<1> USE RingLogAssumption DEF RingLogInit
<1>1. RingLogTypeOK
  <2>1. Empty \in [Streams -> Seq(Lines)]
    BY DEF Empty
  <2>2. pipes \in [1..MaxEngines -> [Streams -> Seq(Lines)]]
    BY <2>1
  <2>3. ring \in Seq(Stored) /\ history \in Seq(Nat)
    OBVIOUS
  <2>4. appending \in BOOLEAN /\ running \in BOOLEAN
    OBVIOUS
  <2>5. total \in Nat /\ spawned \in 0..MaxEngines /\ printed \in 0..MaxPrinted
    OBVIOUS
  <2> QED
    BY <2>2, <2>3, <2>4, <2>5 DEF RingLogTypeOK
<1>2. HistoryOK /\ SuffixOK /\ EvictedOK
  <2>1. Len(ring) = 0 /\ Len(history) = 0
    OBVIOUS
  <2> QED
    BY <2>1 DEF HistoryOK, SuffixOK, EvictedOK, Overfull, LastBytes, Upto
<1> QED
  BY <1>1, <1>2 DEF LogInv

\* A line in the ring has a number of bytes (RingLog.append, the cut).
LEMMA KeptType ==
  ASSUME NEW line \in Lines
  PROVE  Kept(line) \in Nat
<1>1. line.chars \in Nat /\ line.width \in {1, 2, 3, 4}
  BY RingLogAssumption
<1>2. CASE line.width = 1
  BY <1>1, <1>2, RingLogAssumption DEF Kept
<1>3. CASE line.width = 2
  BY <1>1, <1>3, RingLogAssumption DEF Kept
<1>4. CASE line.width = 3
  BY <1>1, <1>4, RingLogAssumption DEF Kept
<1>5. CASE line.width = 4
  BY <1>1, <1>5, RingLogAssumption DEF Kept
<1> QED
  BY <1>1, <1>2, <1>3, <1>4, <1>5

\* A new ring is empty, and everything is true of it.
LEMMA NewRingHolds ==
  ASSUME NewRing
  PROVE  /\ ring' \in Seq(Stored) /\ total' \in Nat
         /\ appending' \in BOOLEAN /\ history' \in Seq(Nat)
         /\ HistoryOK' /\ SuffixOK' /\ EvictedOK'
<1>1. /\ ring' = <<>> /\ total' = 0 /\ appending' = FALSE
      /\ history' = <<>>
  BY DEF NewRing
<1>2. Len(ring') = 0 /\ Len(history') = 0 /\ DOMAIN ring' = 1..0
  BY <1>1
<1>3. HistoryOK'
  BY <1>2 DEF HistoryOK, Upto
<1>4. SuffixOK'
  BY <1>1, <1>2, RingLogAssumption DEF SuffixOK, LastBytes, Upto
<1>5. EvictedOK'
  BY <1>1, <1>2 DEF EvictedOK, Overfull
<1>6. appending' \in BOOLEAN
  BY <1>1
<1>7. ring' \in Seq(Stored) /\ history' \in Seq(Nat) /\ total' \in Nat
  BY <1>1
<1> QED
  BY <1>3, <1>4, <1>5, <1>6, <1>7

\* One round of the eviction takes off the line that makes it too many.
LEMMA EvictHolds ==
  ASSUME LogInv, Evict
  PROVE  LogInv'
<1> USE RingLogAssumption
<1>1. /\ ring \in Seq(Stored) /\ total \in Nat /\ Len(ring) > 1
      /\ total > MaxTotalBytes
  BY DEF LogInv, RingLogTypeOK, Evict, Overfull
<1> DEFINE n == Len(history)
           m == Len(ring)
<1>2. m \in Nat /\ n \in Nat /\ m <= n
  BY <1>1 DEF LogInv, RingLogTypeOK, SuffixOK
<1>3. /\ ring' = Tail(ring) /\ Len(ring') = m - 1 /\ ring' \in Seq(Stored)
      /\ \A i \in 1..(m - 1) : ring'[i] = ring[i + 1]
      /\ Head(ring) = ring[1] /\ Head(ring) \in Stored
  BY <1>1 DEF Evict, LogInv, RingLogTypeOK, SuffixOK
<1>4. history' = history /\ (\A i : Upto(i)' = Upto(i))
  BY DEF Evict, Upto
<1>5. \A k : LastBytes(k)' = LastBytes(k)
  BY <1>4 DEF LastBytes
<1>6. \A k \in 0..n : LastBytes(k) \in Int
  <2>1. history \in Seq(Nat)
    BY DEF LogInv, RingLogTypeOK
  <2>2. \A i \in 0..n : Upto(i) \in Nat
    BY <2>1 DEF Upto
  <2> QED
    BY <1>2, <1>3, <2>2 DEF LastBytes
<1>7. total' = LastBytes(m - 1)
  <2>1. total = LastBytes(m) /\ total' = total - ring[1].bytes
    BY <1>3 DEF Evict, LogInv, SuffixOK
  <2>2. 1 \in 1..m /\ m - 1 + 1 = m /\ m \in 0..n /\ m - 1 \in 0..n
    BY <1>1, <1>2
  <2>3. ring[1].bytes = LastBytes(m) - LastBytes(m - 1)
    BY <2>2 DEF LogInv, SuffixOK
  <2> QED
    BY <1>6, <2>1, <2>2, <2>3
<1>8. LastBytes(m - 1) >= 0
  <2>1. n - (m - 1) \in 0..n /\ n \in 0..n /\ n - (m - 1) <= n
    BY <1>1, <1>2, <1>3
  <2>2. Upto(n - (m - 1)) <= Upto(n)
    BY <2>1 DEF LogInv, HistoryOK
  <2>3. Upto(n - (m - 1)) \in Nat /\ Upto(n) \in Nat
    BY <2>1 DEF LogInv, RingLogTypeOK, Upto
  <2> QED
    BY <2>2, <2>3 DEF LastBytes
<1>9. RingLogTypeOK'
  BY <1>2, <1>3, <1>6, <1>7, <1>8, <1>1 DEF Evict, LogInv, RingLogTypeOK
<1>10. SuffixOK'
  <2>1. \A i \in 1..Len(ring') :
          ring'[i].bytes = LastBytes(Len(ring') - i + 1)
                             - LastBytes(Len(ring') - i)
    <3> TAKE i \in 1..Len(ring')
    <3>1. i + 1 \in 1..m /\ ring'[i] = ring[i + 1]
      BY <1>2, <1>3
    <3>2. ring[i + 1].bytes = LastBytes(m - (i + 1) + 1)
                                - LastBytes(m - (i + 1))
      BY <3>1 DEF LogInv, SuffixOK
    <3>3. m - (i + 1) + 1 = (m - 1) - i + 1 /\ m - (i + 1) = (m - 1) - i
      BY <1>2, <1>3
    <3> QED
      BY <1>2, <1>3, <3>1, <3>2, <3>3
  <2>2. ring' # <<>> /\ Len(ring') <= Len(history') /\ Len(ring') <= MaxLines
    <3>1. Len(ring) <= Len(history) /\ Len(ring) <= MaxLines
      BY DEF LogInv, SuffixOK
    <3>2. m \in Nat /\ n \in Nat /\ m > 1 /\ Len(ring') = m - 1
      BY <1>1, <1>2, <1>3
    <3>3. ring' # <<>>
      BY <3>2
    <3>4. m <= n /\ m <= MaxLines /\ Len(history') = n
      BY <1>4, <3>1
    <3> QED
      BY <3>2, <3>3, <3>4
  <2> QED
    BY <1>2, <1>3, <1>4, <1>5, <1>7, <2>1, <2>2 DEF SuffixOK
<1>11. EvictedOK'
  <2>1. ASSUME NEW k \in m..n
        PROVE  k > MaxLines \/ LastBytes(k) > MaxTotalBytes
    <3>1. CASE k = m
      BY <1>1, <1>2, <1>3, <3>1 DEF LogInv, SuffixOK
    <3>2. CASE k # m
      <4>1. k \in (Len(ring) + 1)..Len(history)
        BY <1>2, <3>2
      <4> QED
        BY <4>1 DEF LogInv, EvictedOK
    <3> QED
      BY <3>1, <3>2
  <2>2. appending'
    BY DEF Evict
  <2> QED
    BY <1>2, <1>3, <1>4, <1>5, <2>1, <2>2 DEF EvictedOK
<1>12. HistoryOK'
  BY <1>4 DEF LogInv, HistoryOK
<1> QED
  BY <1>9, <1>10, <1>11, <1>12 DEF LogInv

\* An append puts one more line behind those there are, and takes the first
\* off only when there are MaxLines.
LEMMA DrainHolds ==
  ASSUME LogInv, NEW c \in 1..spawned, NEW stream \in Streams,
         Drain(c, stream)
  PROVE  LogInv'
<1> USE RingLogAssumption
<1> DEFINE n == Len(history)
           m == Len(ring)
           b == Kept(Head(pipes[c][stream]))
           old == IF m = MaxLines THEN Tail(ring) ELSE ring
           d == IF m = MaxLines THEN 1 ELSE 0
           NewUpto(i) == IF i = 0 THEN 0 ELSE history'[i]
           NewLast(k) == NewUpto(Len(history')) - NewUpto(Len(history') - k)
<1>1. b \in Nat
  <2>1. pipes[c][stream] \in Seq(Lines) /\ pipes[c][stream] # <<>>
    BY DEF LogInv, RingLogTypeOK, Drain
  <2> QED
    BY <2>1, KeptType
<1>2. ring \in Seq(Stored) /\ history \in Seq(Nat) /\ total \in Nat
  BY DEF LogInv, RingLogTypeOK
<1>3. m \in Nat /\ n \in Nat /\ m <= n /\ m <= MaxLines /\ d \in 0..1 /\ m - d \in Nat
  BY <1>2 DEF LogInv, SuffixOK
<1>4. /\ history' = Append(history, Upto(n) + b)
      /\ ring' = Append(old, [bytes |-> b, from |-> c])
      /\ total' = Counted(b)
      /\ appending'
  BY DEF Drain, AppendLine
<1>5. /\ Upto(n) \in Nat
      /\ \A i \in 0..n : Upto(i) \in Nat
  BY <1>2, <1>3 DEF Upto
<1>6. /\ history' \in Seq(Nat) /\ Len(history') = n + 1
      /\ \A i \in 1..n : history'[i] = history[i]
      /\ history'[n + 1] = Upto(n) + b
  BY <1>1, <1>2, <1>4, <1>5
<1>7. /\ \A i \in 0..n : NewUpto(i) = Upto(i)
      /\ NewUpto(n + 1) = Upto(n) + b
  BY <1>3, <1>6 DEF Upto
<1>8. \A k \in 1..(n + 1) : NewLast(k) = LastBytes(k - 1) + b
  <2> TAKE k \in 1..(n + 1)
  <2>1. n + 1 - k \in 0..n /\ n - (k - 1) = n + 1 - k
    BY <1>3
  <2>2. NewUpto(n + 1 - k) = Upto(n + 1 - k) /\ Upto(n + 1 - k) \in Nat
    BY <1>5, <1>7, <2>1
  <2> QED
    BY <1>1, <1>5, <1>6, <1>7, <2>1, <2>2 DEF LastBytes
<1>9. \A k \in 0..n : LastBytes(k) \in Int
  <2> TAKE k \in 0..n
  <2>1. n - k \in 0..n
    BY <1>3
  <2> QED
    BY <1>5, <2>1 DEF LastBytes
<1>10. LastBytes(0) = 0 /\ NewLast(0) = 0
  <2>1. n - 0 = n /\ Len(history') - 0 = n + 1 /\ Len(history') = n + 1
    BY <1>3, <1>6
  <2>2. NewUpto(n + 1) \in Int
    BY <1>1, <1>5, <1>7
  <2> HIDE DEF NewUpto
  <2>3. LastBytes(0) = 0
    BY <1>5, <2>1 DEF LastBytes
  <2> QED
    BY <2>1, <2>2, <2>3
<1>11. \A k : LastBytes(k)' = NewLast(k)
  BY DEF LastBytes, Upto
<1> HIDE DEF NewLast
<1>12. /\ old \in Seq(Stored) /\ Len(old) = m - d
       /\ \A i \in 1..(m - d) : old[i] = ring[i + d]
  BY <1>2, <1>3
<1>13. [bytes |-> b, from |-> c] \in Stored
  BY <1>1 DEF LogInv, RingLogTypeOK, Stored
<1>14. /\ ring' \in Seq(Stored) /\ Len(ring') = m - d + 1
       /\ \A i \in 1..(m - d) : ring'[i] = ring[i + d]
       /\ ring'[m - d + 1].bytes = b
  BY <1>3, <1>4, <1>12, <1>13
<1>15. HistoryOK'
  <2> SUFFICES ASSUME NEW i \in 0..(n + 1), NEW j \in 0..(n + 1), i <= j
               PROVE  NewUpto(i) <= NewUpto(j)
    BY <1>6 DEF HistoryOK, Upto
  <2>1. CASE j <= n
    BY <1>3, <1>7, <2>1 DEF LogInv, HistoryOK
  <2>2. CASE j = n + 1 /\ i <= n
    <3>1. Upto(i) <= Upto(n)
      BY <1>3, <2>2 DEF LogInv, HistoryOK
    <3> QED
      BY <1>1, <1>3, <1>5, <1>7, <2>2, <3>1
  <2>3. CASE i = n + 1 /\ j = n + 1
    BY <1>1, <1>5, <1>7, <2>3
  <2> QED
    BY <1>3, <2>1, <2>2, <2>3
<1>16. total' = NewLast(m - d + 1)
  <2>1. total = LastBytes(m)
    BY DEF LogInv, SuffixOK
  <2>2. NewLast(m - d + 1) = LastBytes(m - d) + b
    <3>1. m - d + 1 \in 1..(n + 1) /\ (m - d + 1) - 1 = m - d
      BY <1>3
    <3> QED
      BY <1>8, <3>1
  <2>3. CASE m = MaxLines
    <3>1. Head(ring) = ring[1] /\ 1 \in 1..m
      BY <1>2, <1>3, <2>3
    <3>2. Head(ring).bytes = LastBytes(m - 1 + 1) - LastBytes(m - 1)
      BY <3>1 DEF LogInv, SuffixOK
    <3>3. LastBytes(m) \in Int /\ LastBytes(m - 1) \in Int
      BY <1>3, <1>9, <2>3
    <3>4. m - 1 + 1 = m /\ d = 1
      BY <1>3, <2>3
    <3> QED
      BY <1>1, <1>4, <2>1, <2>2, <2>3, <3>2, <3>3, <3>4 DEF Counted
  <2>4. CASE m # MaxLines
    <3>1. LastBytes(m) \in Int
      BY <1>3, <1>9
    <3> QED
      BY <1>1, <1>3, <1>4, <2>1, <2>2, <2>4, <3>1 DEF Counted
  <2> QED
    BY <2>3, <2>4
<1>17. NewLast(m - d + 1) \in Nat
  <2>1. n - (m - d) \in 0..n /\ n \in 0..n /\ n - (m - d) <= n
    BY <1>3
  <2>2. Upto(n - (m - d)) <= Upto(n)
    BY <2>1 DEF LogInv, HistoryOK
  <2>3. LastBytes(m - d) \in Nat
    BY <1>5, <2>1, <2>2 DEF LastBytes
  <2>4. NewLast(m - d + 1) = LastBytes(m - d) + b
    <3>1. m - d + 1 \in 1..(n + 1) /\ (m - d + 1) - 1 = m - d
      BY <1>3
    <3> QED
      BY <1>8, <3>1
  <2> QED
    BY <1>1, <2>3, <2>4
<1>18. RingLogTypeOK'
  <2>1. pipes' \in [1..MaxEngines -> [Streams -> Seq(Lines)]]
    <3>1. c \in 1..MaxEngines
      BY DEF LogInv, RingLogTypeOK
    <3>2. pipes[c][stream] \in Seq(Lines) /\ pipes[c][stream] # <<>>
      BY <3>1 DEF LogInv, RingLogTypeOK, Drain
    <3>3. Tail(pipes[c][stream]) \in Seq(Lines)
      BY <3>2
    <3> QED
      BY <3>1, <3>3 DEF LogInv, RingLogTypeOK, Drain
  <2>2. total' \in Nat
    BY <1>16, <1>17
  <2>3. appending' \in BOOLEAN
    BY DEF Drain
  <2> QED
    BY <1>6, <1>14, <2>1, <2>2, <2>3 DEF LogInv, RingLogTypeOK, Drain
<1>19. SuffixOK'
  <2>1. ASSUME NEW i \in 1..(m - d + 1)
        PROVE  ring'[i].bytes = NewLast(m - d + 1 - i + 1)
                                  - NewLast(m - d + 1 - i)
    <3>1. CASE i = m - d + 1
      <4>1. NewLast(1) = LastBytes(0) + b
        BY <1>3, <1>8
      <4>2. m - d + 1 - i + 1 = 1 /\ m - d + 1 - i = 0
        BY <1>3, <3>1
      <4> QED
        BY <1>1, <1>10, <1>14, <3>1, <4>1, <4>2
    <3>2. CASE i # m - d + 1
      <4> DEFINE k == m - d - i
      <4>1. /\ i \in 1..(m - d) /\ i + d \in 1..m /\ k \in 0..n
            /\ k + 1 \in 0..n
            /\ m - (i + d) + 1 = k + 1 /\ m - (i + d) = k
            /\ m - d + 1 - i + 1 = k + 2 /\ m - d + 1 - i = k + 1
        BY <1>3, <3>2
      <4>2. ring'[i].bytes = LastBytes(k + 1) - LastBytes(k)
        BY <1>14, <4>1 DEF LogInv, SuffixOK
      <4> HIDE DEF k, n, m, d
      <4>3. NewLast(k + 2) = LastBytes(k + 1) + b
        BY <1>3, <1>8, <4>1
      <4>4. NewLast(k + 1) = LastBytes(k) + b
        BY <1>3, <1>8, <4>1
      <4> QED
        BY <1>1, <1>9, <4>1, <4>2, <4>3, <4>4
    <3> QED
      BY <3>1, <3>2
  <2>2. ring' # <<>> /\ Len(ring') <= Len(history') /\ Len(ring') <= MaxLines
    BY <1>3, <1>6, <1>14
  <2> QED
    BY <1>14, <1>16, <1>11, <2>1, <2>2 DEF SuffixOK
<1>20. EvictedOK'
  <2>1. ASSUME NEW k \in (m - d + 2)..(n + 1)
        PROVE  k > MaxLines \/ NewLast(k) > MaxTotalBytes
    <3>1. CASE k = m + 1 /\ d = 1
      BY <1>3, <3>1
    <3>2. CASE k >= m + 2
      <4>1. k - 1 \in (m + 1)..n /\ k - 1 \in 0..n /\ k \in 1..(n + 1)
        BY <1>3, <3>2
      <4>2. k - 1 > MaxLines \/ LastBytes(k - 1) > MaxTotalBytes
        BY <4>1 DEF LogInv, EvictedOK
      <4>3. NewLast(k) = LastBytes(k - 1) + b /\ LastBytes(k - 1) \in Int
        BY <1>8, <1>9, <4>1
      <4> QED
        BY <1>1, <1>3, <4>1, <4>2, <4>3
    <3> QED
      BY <1>3, <3>1, <3>2
  <2> QED
    BY <1>3, <1>4, <1>6, <1>14, <1>11, <2>1 DEF EvictedOK
<1> QED
  BY <1>15, <1>18, <1>19, <1>20 DEF LogInv

\* Every step leads from LogInv to LogInv.
LEMMA LogStep ==
  ASSUME LogInv, [RingLogNext]_ringVars
  PROVE  LogInv'
<1> USE RingLogAssumption
<1>1. ASSUME UNCHANGED <<ring, total, appending, history>>, RingLogTypeOK'
      PROVE  LogInv'
  BY <1>1 DEF LogInv, HistoryOK, SuffixOK, EvictedOK, Overfull, LastBytes, Upto
<1>2. Empty \in [Streams -> Seq(Lines)]
  BY DEF Empty
<1>3. CASE Spawn \/ SpawnFails
  <2>1. NewRing
    BY <1>3 DEF Spawn, SpawnFails
  <2>2. spawned' \in 0..MaxEngines /\ running' \in BOOLEAN
    <3>1. CASE Spawn
      BY <3>1 DEF Spawn, LogInv, RingLogTypeOK
    <3>2. CASE SpawnFails
      BY <3>2 DEF SpawnFails, LogInv, RingLogTypeOK
    <3> QED
      BY <1>3, <3>1, <3>2
  <2>3. pipes' \in [1..MaxEngines -> [Streams -> Seq(Lines)]]
    BY <1>2, <1>3 DEF Spawn, SpawnFails, LogInv, RingLogTypeOK
  <2>4. printed' = printed /\ unjoined' \subseteq unjoined
    BY <1>3 DEF Spawn, SpawnFails
  <2> QED
    BY <2>1, <2>2, <2>3, <2>4, NewRingHolds DEF LogInv, RingLogTypeOK
<1>4. CASE EngineEnds \/ StopEngine
  <2>1. pipes' \in [1..MaxEngines -> [Streams -> Seq(Lines)]]
    BY <1>2, <1>4 DEF EngineEnds, StopEngine, LogInv, RingLogTypeOK
  <2>2. RingLogTypeOK'
    BY <1>4, <2>1 DEF EngineEnds, StopEngine, LogInv, RingLogTypeOK
  <2> QED
    BY <1>1, <1>4, <2>2 DEF EngineEnds, StopEngine
<1>5. ASSUME NEW stream \in Streams, NEW line \in Lines,
             WriteLine(stream, line)
      PROVE  LogInv'
  <2>1. spawned \in 1..MaxEngines => pipes[spawned][stream] \in Seq(Lines)
    BY DEF LogInv, RingLogTypeOK
  <2>2. spawned \in 1..MaxEngines =>
          Append(pipes[spawned][stream], line) \in Seq(Lines)
    BY <2>1
  <2>3. pipes' \in [1..MaxEngines -> [Streams -> Seq(Lines)]]
    BY <1>5, <2>2 DEF WriteLine, LogInv, RingLogTypeOK
  <2>4. printed' \in 0..MaxPrinted
    BY <1>5 DEF WriteLine, LogInv, RingLogTypeOK
  <2>5. RingLogTypeOK'
    BY <1>5, <2>3, <2>4 DEF WriteLine, LogInv, RingLogTypeOK
  <2> QED
    BY <1>1, <1>5, <2>5 DEF WriteLine
<1>6. CASE AppendReturns
  BY <1>6 DEF AppendReturns, LogInv, RingLogTypeOK, HistoryOK, SuffixOK,
     EvictedOK, Overfull, LastBytes, Upto
<1>7. CASE UNCHANGED ringVars
  BY <1>1, <1>7 DEF ringVars, LogInv, RingLogTypeOK
<1> QED
  BY <1>3, <1>4, <1>5, <1>6, <1>7, DrainHolds, EvictHolds
     DEF RingLogNext, RingLogFinished

-----------------------------------------------------------------------------
\* The theorems about the log

\* LogInv holds in every state.
THEOREM LogInvariance == RingLogSpec => []LogInv
<1>1. LogInv /\ [RingLogNext]_ringVars => LogInv'
  BY LogStep
<1> QED
  BY <1>1, LogInit, PTL DEF RingLogSpec

\* The ring, its count and the pipes keep their types; the count never falls
\* below 0 (RingLog.append).
THEOREM LogTypeCorrect == RingLogSpec => []RingLogTypeOK
<1>1. LogInv => RingLogTypeOK
  BY DEF LogInv
<1> QED
  BY <1>1, LogInvariance, PTL

\* Whatever lines are printed and whatever the bounds, bridge_logs sees the
\* longest end of the output that fits (RingLog.append, tail).
THEOREM LogIsLongestSuffix == RingLogSpec => []RingIsLongestSuffix
<1>1. ASSUME LogInv PROVE RingIsLongestSuffix
  <2> USE <1>1, RingLogAssumption
  <2> DEFINE n == Len(history)
             m == Len(ring)
             fits(k) == k <= MaxLines /\ (k <= 1 \/ LastBytes(k) <= MaxTotalBytes)
  <2>1. /\ ring \in Seq(Stored) /\ history \in Seq(Nat) /\ total \in Nat
        /\ m \in Nat /\ n \in Nat /\ m <= n /\ DOMAIN ring = 1..m
    BY DEF LogInv, RingLogTypeOK, SuffixOK
  <2>2. \A i \in 0..n : Upto(i) \in Nat
    BY <2>1 DEF Upto
  <2>3. ASSUME NEW k \in 0..n, k <= m, ~appending PROVE fits(k)
    <3>1. n - k \in 0..n /\ n - m \in 0..n /\ n - m <= n - k /\ n \in 0..n
      BY <2>1, <2>3
    <3>2. Upto(n - m) <= Upto(n - k)
      BY <3>1 DEF LogInv, HistoryOK
    <3>3. LastBytes(k) <= LastBytes(m) /\ LastBytes(k) \in Int /\ LastBytes(m) \in Int
      BY <2>2, <3>1, <3>2 DEF LastBytes
    <3>4. total = LastBytes(m) /\ m <= MaxLines
      BY DEF LogInv, SuffixOK
    <3>5. total <= MaxTotalBytes \/ m <= 1
      BY <2>1, <2>3 DEF LogInv, EvictedOK, Overfull
    <3> QED
      BY <2>1, <2>3, <3>3, <3>4, <3>5
  <2>4. ASSUME NEW k \in 0..n, fits(k) PROVE k <= m
    <3> SUFFICES ASSUME k > m PROVE FALSE
      BY <2>1
    <3>1. n > 0 /\ k \in (m + 1)..n
      BY <2>1
    <3>2. history # <<>>
      BY <2>1, <3>1
    <3>3. m >= 1
      BY <2>1, <3>2 DEF LogInv, SuffixOK
    <3>4. k > MaxLines \/ LastBytes(k) > MaxTotalBytes
      BY <3>1 DEF LogInv, EvictedOK
    <3>5. LastBytes(k) \in Int
      <4>1. n - k \in 0..n /\ n \in 0..n
        BY <2>1
      <4> QED
        BY <2>2, <4>1 DEF LastBytes
    <3> QED
      BY <2>1, <2>4, <3>1, <3>3, <3>4, <3>5
  <2>5. ~appending => \A k \in 0..n : fits(k) <=> k <= m
    BY <2>3, <2>4
  <2> HIDE DEF fits
  <2>6. /\ m <= n /\ total = LastBytes(m)
        /\ \A i \in DOMAIN ring :
             ring[i].bytes = LastBytes(m - i + 1) - LastBytes(m - i)
    BY <2>1 DEF LogInv, SuffixOK
  <2> QED
    BY <2>5, <2>6 DEF RingIsLongestSuffix, fits
<1> QED
  BY <1>1, LogInvariance, PTL

\* What is in a pipe or in the ring is of the present engine or of one that
\* nobody has cleaned up.
OwnOK ==
  /\ LogIsOwn
  /\ \A c \in 1..MaxEngines :
       (c = spawned /\ running) \/ c \in unjoined \/ pipes[c] = Empty

\* Every step preserves OwnOK.
LEMMA OwnStep ==
  ASSUME LogInv, OwnOK, [RingLogNext]_ringVars
  PROVE  OwnOK'
<1> USE DEF OwnOK, LogIsOwn
<1>1. /\ ring \in Seq(Stored) /\ spawned \in 0..MaxEngines
      /\ MaxEngines \in Nat /\ MaxLines \in Nat
      /\ pipes \in [1..MaxEngines -> [Streams -> Seq(Lines)]]
      /\ Len(ring) \in Nat
  BY RingLogAssumption DEF LogInv, RingLogTypeOK
<1>2. CASE Spawn
  BY <1>1, <1>2 DEF Spawn, NewRing
<1>3. CASE SpawnFails
  BY <1>1, <1>3 DEF SpawnFails, NewRing
<1>4. CASE StopEngine
  BY <1>1, <1>4 DEF StopEngine
<1>5. ASSUME NEW stream \in Streams, NEW line \in Lines,
             WriteLine(stream, line)
      PROVE  OwnOK'
  BY <1>1, <1>5 DEF WriteLine
<1>6. ASSUME NEW c \in 1..spawned, NEW stream \in Streams, Drain(c, stream)
      PROVE  OwnOK'
  <2>1. c \in 1..MaxEngines /\ (c = spawned \/ c \in unjoined)
    BY <1>1, <1>6 DEF Drain, Empty
  <2> DEFINE old == IF Len(ring) = MaxLines THEN Tail(ring) ELSE ring
             new == [bytes |-> Kept(Head(pipes[c][stream])), from |-> c]
  <2>2. /\ ring' = Append(old, new) /\ new.from = c
        /\ UNCHANGED <<spawned, running, unjoined>>
    BY <1>6, <2>1 DEF Drain, AppendLine
  <2>3. /\ old \in Seq(Stored)
        /\ \A i \in DOMAIN old :
             old[i].from = spawned \/ old[i].from \in unjoined
    <3>1. CASE Len(ring) = MaxLines
      <4>1. Len(ring) # 0
        BY <3>1, RingLogAssumption
      <4>2. /\ Tail(ring) \in Seq(Stored) /\ DOMAIN Tail(ring) = 1..(Len(ring) - 1)
            /\ \A i \in 1..(Len(ring) - 1) : Tail(ring)[i] = ring[i + 1]
        BY <1>1, <4>1
      <4>3. \A i \in 1..(Len(ring) - 1) : i + 1 \in DOMAIN ring
        BY <1>1
      <4> QED
        BY <3>1, <4>2, <4>3
    <3>2. CASE Len(ring) # MaxLines
      BY <1>1, <3>2
    <3> QED
      BY <3>1, <3>2
  <2> HIDE DEF old, new
  <2>4. LogIsOwn'
    BY <2>1, <2>2, <2>3
  <2>5. \A d \in 1..MaxEngines :
          (d = spawned /\ running) \/ d \in unjoined \/ pipes'[d] = Empty
    BY <1>1, <1>6 DEF Drain, Empty
  <2> QED
    BY <2>2, <2>4, <2>5
<1>7. CASE Evict
  <2>1. /\ Len(ring) # 0 /\ ring' = Tail(ring)
        /\ UNCHANGED <<spawned, running, pipes, unjoined>>
    BY <1>1, <1>7 DEF Evict, Overfull
  <2>2. /\ DOMAIN Tail(ring) = 1..(Len(ring) - 1)
        /\ \A i \in 1..(Len(ring) - 1) : Tail(ring)[i] = ring[i + 1]
    BY <1>1, <2>1
  <2>3. \A i \in 1..(Len(ring) - 1) : i + 1 \in DOMAIN ring
    BY <1>1
  <2> QED
    BY <1>1, <2>1, <2>2, <2>3
<1>8. CASE AppendReturns
  BY <1>8 DEF AppendReturns
<1>9. CASE UNCHANGED ringVars
  BY <1>9 DEF ringVars
<1>10. CASE EngineEnds
  BY <1>1, <1>10 DEF EngineEnds
<1> QED
  BY <1>2, <1>3, <1>4, <1>5, <1>6, <1>7, <1>8, <1>9, <1>10
     DEF RingLogNext, RingLogFinished

\* bridge_logs shows no line of an earlier engine that was stopped: the readers
\* are waited for and the pipes closed (_cleanup).
THEOREM LogOfPresentEngine == RingLogSpec => []LogIsOwn
<1>1. RingLogInit => OwnOK
  BY DEF RingLogInit, OwnOK, LogIsOwn
<1>2. LogInv /\ OwnOK /\ [RingLogNext]_ringVars => OwnOK'
  BY OwnStep
<1>3. OwnOK => LogIsOwn
  BY DEF OwnOK
<1> QED
  BY <1>1, <1>2, <1>3, LogInvariance, PTL DEF RingLogSpec
=============================================================================
