-------------------------- MODULE ConnectionProofs --------------------------
(***************************************************************************)
(* Proofs about Connection, for every set of threads, of operations and of *)
(* faults, and whatever the bounds.                                        *)
(*                                                                         *)
(* IInv is the inductive invariant.  Mutual exclusion (the lock is held    *)
(* exactly inside) makes publishing a client and counting it one step as   *)
(* far as other attaches are concerned (NumberingOK); with that, a thread  *)
(* that finds the generation it read unchanged holds the client it was     *)
(* refused on (RequestOK).  CallOK follows the request of each thread to   *)
(* the outcome that is reported for it.                                    *)
(*                                                                         *)
(* Three properties need more than the code can promise on its own, since  *)
(* detach() is also run without the lock.  The last part proves them where *)
(* they hold, each under a named hypothesis on the environment: one caller *)
(* (OneCaller), no detach outside the lock (LockedDetach), one new token   *)
(* (OneRotation), engines that check their token (Open = {}).              *)
(***************************************************************************)
EXTENDS Connection, TLAPS

-----------------------------------------------------------------------------
\* The inductive invariant

\* The part of the operation a thread is in, by the statement it is at.
StageOK ==
  \A t \in Threads :
    /\ pc[t] \in {"ensure", "wantLock"} =>
         stage[t] \in {"guard", "call", "manage"}
    /\ pc[t] \in AttachSteps =>
         stage[t] \in {"guard", "call", "manage", "reattach"}
    /\ pc[t] \in DetachSteps => stage[t] \in {"reattach", "loss", "manage"}
    /\ pc[t] \in {"relock", "newId"} => stage[t] = "reattach"
    /\ pc[t] = "check" => stage[t] = "guard"
    /\ pc[t] \in {"loadId", "loadGen"} => stage[t] = "call"
    /\ pc[t] \in {"loadFn", "send", "wait"} => stage[t] \in {"call", "replay"}

\* The number of clients published so far: one more than the generation while
\* the lock holder is between publishing _client and _generation.
Publishing == \E t \in Threads : pc[t] \in {"pubMeta", "pubId", "pubGen"}
Published  == IF Publishing THEN generation + 1 ELSE generation

NumberingOK ==
  /\ client # NoClient => client.n = Published /\ client.n >= 1
  /\ \A k \in closed : k >= 1 /\ k <= Published

\* The statements at which the reattach of a 401 has not yet closed a client.
Reattaching(t) ==
  pc[t] \in {"detCheck", "detClose"} /\ stage[t] = "reattach"

HasRequest(t) == pc[t] \in {"send", "wait", "relock"} \/ Reattaching(t)

\* A request is sent on a client no older than the generation read before it,
\* and a thread that reattaches has found that generation unchanged.
RequestOK ==
  \A t \in Threads :
    /\ frame[t].myGen <= generation
    /\ HasRequest(t) =>
         /\ frame[t].myGen <= frame[t].fn.n
         /\ frame[t].fn.n >= 1
         /\ frame[t].fn.n <= Published
         /\ client.n = frame[t].fn.n => client = frame[t].fn
    /\ Reattaching(t) => frame[t].myGen = generation

\* Until the operation is over a request has run only if its answer was lost.
CallOK ==
  \A t \in Threads :
    /\ pc[t] \notin {"idle", "ret"} => out[t] = "none"
    /\ pc[t] \notin {"idle", "ret"} /\ stage[t] # "loss" => ran[t] = 0
    /\ ran[t] \in {0, 1}
    /\ pc[t] = "ret" => out[t] \in Contract!Truthful(ran[t])
    /\ out[t] \in Answers  => ran[t] = 1
    /\ out[t] \in NeverRan => ran[t] = 0

IInv ==
  /\ TypeOK
  /\ StageOK
  /\ LockHeldExactlyInside
  /\ NumberingOK
  /\ ClosedOnlyWhileDetaching
  /\ RequestOK
  /\ CallOK

-----------------------------------------------------------------------------
\* Every step preserves each conjunct

\* The locals _try_connect() leaves behind are those of a frame.
LEMMA LeaveAttachType ==
  ASSUME TypeOK, NEW t \in Threads, LeaveAttach(t)
  PROVE  frame' \in [Threads -> Frame]
<1>1. frame[t] \in Frame
  BY DEF TypeOK
<1>2. [frame[t] EXCEPT !.token = Null, !.info = Null] \in Frame
  BY <1>1 DEF Frame, Client, Null
<1>. QED  BY <1>2 DEF TypeOK, LeaveAttach

\* Type correctness.
LEMMA TypeStep ==
  ASSUME TypeOK, [Next]_vars
  PROVE  TypeOK'
<1>. USE ConnectionAssumption DEF Goto, Steps, AttachSteps, DetachSteps,
   CallSteps, Null
<1>1. ASSUME Outside PROVE TypeOK'
  <2>1. fileToken' \in Nat /\ engine' \in [up : BOOLEAN, inc : Nat, token : Nat]
    <3>1. CASE Crash
      BY <3>1 DEF Crash, TypeOK
    <3>2. CASE Boot
      BY <3>2 DEF Boot, TypeOK
    <3>3. CASE Rotate
      BY <3>3 DEF Rotate, TypeOK
    <3>4. CASE WriteTokenFile
      BY <3>4 DEF WriteTokenFile, TypeOK
    <3>. QED  BY <1>1, <3>1, <3>2, <3>3, <3>4 DEF Outside
  <2>2. UNCHANGED <<connVars, lock, cfgToken, threadVars>>
    BY <1>1 DEF Outside, Crash, Boot, Rotate, WriteTokenFile
  <2>. QED  BY <2>1, <2>2 DEF connVars, threadVars, history, TypeOK
<1>2. ASSUME NEW t \in Threads, NEW o \in Ops, Invoke(t, o) PROVE TypeOK'
  <2>1. pc' \in [Threads -> Steps]
    BY <1>2 DEF TypeOK, Invoke, Goto, Steps, AttachSteps, DetachSteps,
       CallSteps
  <2>2. op' \in [Threads -> AllOps]
    BY <1>2, ConnectionAssumption DEF TypeOK, Invoke, AllOps, Calls
  <2>3. stage' \in [Threads -> Stages]
    BY <1>2 DEF TypeOK, Invoke, Stages
  <2>4. calls' \in Nat
    BY <1>2 DEF TypeOK, Invoke
  <2>5. ran' \in [Threads -> Nat]
    BY <1>2 DEF TypeOK, Invoke
  <2>6. out' \in [Threads -> Outcomes]
    BY <1>2 DEF TypeOK, Invoke, Outcomes
  <2>7. UNCHANGED <<client, closed, meta, instId, generation, lock, cfgToken,
                    engine, fileToken, frame, ranOn>>
    BY <1>2 DEF Invoke, connVars, outside, history, threadVars
  <2>. QED  BY <2>1, <2>2, <2>3, <2>4, <2>5, <2>6, <2>7 DEF TypeOK
<1>3. ASSUME NEW t \in Threads, Return(t) PROVE TypeOK'
  BY <1>3 DEF Return, connVars, outside, history, threadVars, TypeOK,
     Stages, Outcomes, AllOps, Calls, Client, Frame, NoClient, EmptyFrame, IdOf
<1>4. ASSUME NEW t \in Threads, Ensure(t) PROVE TypeOK'
  BY ZenonT(60), <1>4 DEF Ensure, Connected, Finish, connVars, outside,
     history, threadVars, TypeOK, Stages, Outcomes, AllOps, Calls, Client,
     Frame, NoClient, EmptyFrame, IdOf
<1>5. ASSUME NEW t \in Threads, EnsureLocked(t) PROVE TypeOK'
  BY <1>5 DEF EnsureLocked, Connected, Finish, connVars, outside, history,
     threadVars, TypeOK, Stages, Outcomes, AllOps, Calls, Client, Frame,
     NoClient, EmptyFrame, IdOf
<1>6. ASSUME NEW t \in Threads, ReadToken(t) PROVE TypeOK'
  <2>1. lock' \in Threads \cup {Null}
    BY <1>6 DEF TypeOK, ReadToken, AttachFails, Release, Null
  <2>2. pc' \in [Threads -> Steps]
    BY <1>6 DEF TypeOK, ReadToken, AttachFails, Finish, Goto, Steps,
       AttachSteps, DetachSteps, CallSteps
  <2>3. frame' \in [Threads -> Frame]
    <3>1. frame[t] \in Frame /\ LookedUpToken \in Nat
      BY DEF TypeOK, LookedUpToken
    <3>2. CASE LeaveAttach(t)
      BY <3>2, LeaveAttachType
    <3>3. CASE frame' = [frame EXCEPT ![t] = [@ EXCEPT !.token = LookedUpToken]]
      BY <3>1, <3>3 DEF TypeOK, Frame
    <3>. QED  BY <1>6, <3>2, <3>3 DEF ReadToken, AttachFails
  <2>4. out' \in [Threads -> Outcomes]
    BY <1>6 DEF TypeOK, ReadToken, AttachFails, Finish, Outcomes
  <2>5. UNCHANGED <<client, closed, meta, instId, generation, cfgToken,
                    engine, fileToken, op, stage, calls, ran, ranOn>>
    BY <1>6 DEF ReadToken, AttachFails, connVars, outside, history,
       threadVars
  <2>. QED  BY <2>1, <2>2, <2>3, <2>4, <2>5 DEF TypeOK
<1>7. ASSUME NEW t \in Threads, InfoAccepted(t) PROVE TypeOK'
  <2>1. pc' \in [Threads -> Steps]
    BY <1>7 DEF TypeOK, InfoAccepted, Goto, Steps, AttachSteps,
       DetachSteps, CallSteps
  <2>2. frame' \in [Threads -> Frame]
    <3>1. frame[t] \in Frame /\ engine.inc \in Nat
      BY DEF TypeOK
    <3>. QED  BY <1>7, <3>1 DEF InfoAccepted, TypeOK, Frame
  <2>3. UNCHANGED <<client, closed, meta, instId, generation, lock, cfgToken,
                    engine, fileToken, op, stage, calls, ran, ranOn, out>>
    BY <1>7 DEF InfoAccepted, connVars, outside, history, threadVars
  <2>. QED  BY <2>1, <2>2, <2>3 DEF TypeOK
<1>8. ASSUME NEW t \in Threads, InfoStaleToken(t) PROVE TypeOK'
  BY <1>8 DEF InfoStaleToken, connVars, outside, history, threadVars,
     TypeOK, Stages, Outcomes, AllOps, Calls, Client, Frame, NoClient,
     EmptyFrame, IdOf
<1>9. ASSUME NEW t \in Threads, InfoFails(t) PROVE TypeOK'
  <2>1. lock' \in Threads \cup {Null}
    BY <1>9 DEF TypeOK, InfoFails, AttachFails, Release, Null
  <2>2. pc' \in [Threads -> Steps]
    BY <1>9 DEF TypeOK, InfoFails, AttachFails, Finish, Goto, Steps,
       AttachSteps, DetachSteps, CallSteps
  <2>3. frame' \in [Threads -> Frame]
    BY <1>9, LeaveAttachType DEF InfoFails, AttachFails
  <2>4. out' \in [Threads -> Outcomes]
    BY <1>9 DEF TypeOK, InfoFails, AttachFails, Finish, Outcomes
  <2>5. UNCHANGED <<client, closed, meta, instId, generation, cfgToken,
                    engine, fileToken, op, stage, calls, ran, ranOn>>
    BY <1>9 DEF InfoFails, AttachFails, connVars, outside, history,
       threadVars
  <2>. QED  BY <2>1, <2>2, <2>3, <2>4, <2>5 DEF TypeOK
<1>10. ASSUME NEW t \in Threads, PublishClient(t) PROVE TypeOK'
  BY <1>10 DEF PublishClient, connVars, outside, history, threadVars,
     TypeOK, Stages, Outcomes, AllOps, Calls, Client, Frame, NoClient,
     EmptyFrame, IdOf
<1>11. ASSUME NEW t \in Threads, PublishMeta(t) PROVE TypeOK'
  BY <1>11 DEF PublishMeta, connVars, outside, history, threadVars, TypeOK,
     Stages, Outcomes, AllOps, Calls, Client, Frame, NoClient, EmptyFrame, IdOf
<1>12. ASSUME NEW t \in Threads, PublishId(t) PROVE TypeOK'
  BY <1>12 DEF PublishId, connVars, outside, history, threadVars, TypeOK,
     Stages, Outcomes, AllOps, Calls, Client, Frame, NoClient, EmptyFrame, IdOf
<1>13. ASSUME NEW t \in Threads, PublishGeneration(t) PROVE TypeOK'
  <2>1. generation' \in Nat
    BY <1>13 DEF TypeOK, PublishGeneration
  <2>2. lock' \in Threads \cup {Null}
    BY <1>13 DEF TypeOK, PublishGeneration, Release, Null
  <2>3. pc' \in [Threads -> Steps]
    BY <1>13 DEF TypeOK, PublishGeneration, Connected, Finish, Goto, Steps,
       AttachSteps, DetachSteps, CallSteps
  <2>4. frame' \in [Threads -> Frame]
    BY <1>13, LeaveAttachType DEF PublishGeneration
  <2>5. out' \in [Threads -> Outcomes]
    BY <1>13 DEF TypeOK, PublishGeneration, Connected, Finish, Outcomes
  <2>6. UNCHANGED <<client, closed, meta, instId, cfgToken, engine,
                    fileToken, op, stage, calls, ran, ranOn>>
    BY <1>13 DEF PublishGeneration, connVars, outside, history, threadVars
  <2>. QED  BY <2>1, <2>2, <2>3, <2>4, <2>5, <2>6 DEF TypeOK
<1>14. ASSUME NEW t \in Threads, DetachCheck(t) PROVE TypeOK'
  BY <1>14 DEF DetachCheck, connVars, outside, history, threadVars, TypeOK,
     Stages, Outcomes, AllOps, Calls, Client, Frame, NoClient, EmptyFrame, IdOf
<1>15. ASSUME NEW t \in Threads, DetachClose(t) PROVE TypeOK'
  <2>1. closed' \subseteq Nat
    BY ZenonT(60), <1>15 DEF TypeOK, DetachClose, Client
  <2>2. lock' \in Threads \cup {Null}
    BY <1>15 DEF TypeOK, DetachClose, Release, Null
  <2>3. pc' \in [Threads -> Steps]
    BY <1>15 DEF TypeOK, DetachClose, Finish, Goto, Steps, AttachSteps,
       DetachSteps, CallSteps
  <2>4. out' \in [Threads -> Outcomes]
    BY <1>15 DEF TypeOK, DetachClose, Finish, Outcomes
  <2>5. UNCHANGED <<client, meta, instId, generation, cfgToken, engine,
                    fileToken, op, stage, frame, calls, ran, ranOn>>
    BY <1>15 DEF DetachClose, connVars, outside, history, threadVars
  <2>. QED  BY <2>1, <2>2, <2>3, <2>4, <2>5 DEF TypeOK
<1>16. ASSUME NEW t \in Threads, DetachNull(t) PROVE TypeOK'
  BY <1>16 DEF DetachNull, connVars, outside, history, threadVars, TypeOK,
     Stages, Outcomes, AllOps, Calls, Client, Frame, NoClient, EmptyFrame, IdOf
<1>17. ASSUME NEW t \in Threads, DetachMeta(t) PROVE TypeOK'
  BY <1>17 DEF DetachMeta, connVars, outside, history, threadVars, TypeOK,
     Stages, Outcomes, AllOps, Calls, Client, Frame, NoClient, EmptyFrame, IdOf
<1>18. ASSUME NEW t \in Threads, DetachId(t) PROVE TypeOK'
  BY ZenonT(60), <1>18 DEF DetachId, DetachReturns, Finish, connVars, outside,
     history, threadVars, TypeOK, Stages, Outcomes, AllOps, Calls, Client,
     Frame, NoClient, EmptyFrame, IdOf
<1>19. ASSUME NEW t \in Threads, CheckFeature(t) PROVE TypeOK'
  BY ZenonT(60), <1>19 DEF CheckFeature, Finish, connVars, outside, history,
     threadVars, TypeOK, Stages, Outcomes, AllOps, Calls, Client, Frame,
     NoClient, EmptyFrame, IdOf
<1>20. ASSUME NEW t \in Threads, LoadId(t) PROVE TypeOK'
  <2>1. pc' \in [Threads -> Steps]
    BY <1>20 DEF TypeOK, LoadId, Goto, Steps, AttachSteps, DetachSteps,
       CallSteps
  <2>2. frame' \in [Threads -> Frame]
    <3>1. frame[t] \in Frame /\ instId \in Nat
      BY DEF TypeOK
    <3>. QED  BY <1>20, <3>1 DEF LoadId, TypeOK, Frame
  <2>3. UNCHANGED <<client, closed, meta, instId, generation, lock, cfgToken,
                    engine, fileToken, op, stage, calls, ran, ranOn, out>>
    BY <1>20 DEF LoadId, connVars, outside, history, threadVars
  <2>. QED  BY <2>1, <2>2, <2>3 DEF TypeOK
<1>21. ASSUME NEW t \in Threads, LoadGeneration(t) PROVE TypeOK'
  <2>1. pc' \in [Threads -> Steps]
    BY <1>21 DEF TypeOK, LoadGeneration, Goto, Steps, AttachSteps,
       DetachSteps, CallSteps
  <2>2. frame' \in [Threads -> Frame]
    <3>1. frame[t] \in Frame /\ generation \in Nat
      BY DEF TypeOK
    <3>. QED  BY <1>21, <3>1 DEF LoadGeneration, TypeOK, Frame
  <2>3. UNCHANGED <<client, closed, meta, instId, generation, lock, cfgToken,
                    engine, fileToken, op, stage, calls, ran, ranOn, out>>
    BY <1>21 DEF LoadGeneration, connVars, outside, history, threadVars
  <2>. QED  BY <2>1, <2>2, <2>3 DEF TypeOK
<1>22. ASSUME NEW t \in Threads, LoadClient(t) PROVE TypeOK'
  <2>1. pc' \in [Threads -> Steps]
    BY <1>22 DEF TypeOK, LoadClient, Finish, Goto, Steps, AttachSteps,
       DetachSteps, CallSteps
  <2>2. frame' \in [Threads -> Frame]
    <3>1. frame[t] \in Frame /\ client \in Client
      BY DEF TypeOK
    <3>2. CASE frame' = frame
      BY <3>2 DEF TypeOK
    <3>3. CASE frame' = [frame EXCEPT ![t] = [@ EXCEPT !.fn = client]]
      BY <3>1, <3>3 DEF TypeOK, Frame
    <3>. QED  BY <1>22, <3>2, <3>3 DEF LoadClient
  <2>3. out' \in [Threads -> Outcomes]
    BY <1>22 DEF TypeOK, LoadClient, Finish, Outcomes
  <2>4. UNCHANGED <<client, closed, meta, instId, generation, lock, cfgToken,
                    engine, fileToken, op, stage, calls, ran, ranOn>>
    BY <1>22 DEF LoadClient, connVars, outside, history, threadVars
  <2>. QED  BY <2>1, <2>2, <2>3, <2>4 DEF TypeOK
<1>23. ASSUME NEW t \in Threads, Send(t) PROVE TypeOK'
  BY ZenonT(60), <1>23 DEF Send, Finish, connVars, outside, history,
     threadVars, TypeOK, Stages, Outcomes, AllOps, Calls, Client, Frame,
     NoClient, EmptyFrame, IdOf
<1>24. ASSUME NEW t \in Threads, Answered(t) PROVE TypeOK'
  BY <1>24 DEF Answered, Runs, Finish, connVars, outside, history,
     threadVars, TypeOK, Stages, Outcomes, AllOps, Calls, Client, Frame,
     NoClient, EmptyFrame, IdOf
<1>25. ASSUME NEW t \in Threads, Refused(t) PROVE TypeOK'
  BY ZenonT(60), <1>25 DEF Refused, Finish, connVars, outside, history,
     threadVars, TypeOK, Stages, Outcomes, AllOps, Calls, Client, Frame,
     NoClient, EmptyFrame, IdOf
<1>26. ASSUME NEW t \in Threads, Lost(t) PROVE TypeOK'
  <2>1. pc' \in [Threads -> Steps]
    BY <1>26 DEF TypeOK, Lost, Finish, Goto, Steps, AttachSteps,
       DetachSteps, CallSteps
  <2>2. stage' \in [Threads -> Stages]
    BY <1>26 DEF TypeOK, Lost, Stages
  <2>3. ran' \in [Threads -> Nat]
    BY <1>26 DEF TypeOK, Lost, Runs, history
  <2>4. ranOn' \in [Threads -> Nat]
    BY <1>26 DEF TypeOK, Lost, Runs, history, Null
  <2>5. out' \in [Threads -> Outcomes]
    BY <1>26 DEF TypeOK, Lost, Finish, Outcomes
  <2>6. UNCHANGED <<client, closed, meta, instId, generation, lock, cfgToken,
                    engine, fileToken, op, frame, calls>>
    BY <1>26 DEF Lost, connVars, outside, history, threadVars
  <2>. QED  BY <2>1, <2>2, <2>3, <2>4, <2>5, <2>6 DEF TypeOK
<1>27. ASSUME NEW t \in Threads, Relock(t) PROVE TypeOK'
  BY <1>27 DEF Relock, connVars, outside, history, threadVars, TypeOK,
     Stages, Outcomes, AllOps, Calls, Client, Frame, NoClient, EmptyFrame, IdOf
<1>28. ASSUME NEW t \in Threads, CompareId(t) PROVE TypeOK'
  BY ZenonT(60), <1>28 DEF CompareId, Finish, connVars, outside, history,
     threadVars, TypeOK, Stages, Outcomes, AllOps, Calls, Client, Frame,
     NoClient, EmptyFrame, IdOf
<1>29. CASE UNCHANGED vars
  BY <1>29 DEF vars, connVars, outside, history, threadVars, TypeOK, Stages,
     Outcomes, AllOps, Calls, Client, Frame, NoClient, EmptyFrame, IdOf
<1>. QED
  BY <1>1, <1>2, <1>3, <1>4, <1>5, <1>6, <1>7, <1>8, <1>9, <1>10, <1>11,
     <1>12, <1>13, <1>14, <1>15, <1>16, <1>17, <1>18, <1>19, <1>20, <1>21,
     <1>22, <1>23, <1>24, <1>25, <1>26, <1>27, <1>28, <1>29 DEF Next, Step,
     Attach, Detach, Call, Finished

\* A thread's stage fits the statement it is at, and entering and leaving the
\* two critical sections keeps _lock with its holder.
LEMMA LockStep ==
  ASSUME TypeOK, StageOK, LockHeldExactlyInside, [Next]_vars
  PROVE  (StageOK /\ LockHeldExactlyInside)'
<1>. USE ConnectionAssumption DEF Goto, Steps, AttachSteps, DetachSteps,
   CallSteps, Null
<1>1. ASSUME Outside PROVE (StageOK /\ LockHeldExactlyInside)'
  BY <1>1 DEF Outside, Crash, Boot, Rotate, WriteTokenFile, connVars,
     outside, history, threadVars, TypeOK, StageOK, Stages,
     LockHeldExactlyInside, Inside
<1>2. ASSUME NEW t \in Threads, NEW o \in Ops, Invoke(t, o)
      PROVE  (StageOK /\ LockHeldExactlyInside)'
  BY <1>2 DEF Invoke, connVars, outside, history, threadVars, TypeOK,
     StageOK, Stages, LockHeldExactlyInside, Inside
<1>3. ASSUME NEW t \in Threads, Return(t)
      PROVE  (StageOK /\ LockHeldExactlyInside)'
  BY <1>3 DEF Return, connVars, outside, history, threadVars, TypeOK,
     StageOK, Stages, LockHeldExactlyInside, Inside
<1>4. ASSUME NEW t \in Threads, Ensure(t)
      PROVE  (StageOK /\ LockHeldExactlyInside)'
  BY <1>4 DEF Ensure, Connected, Finish, connVars, outside, history,
     threadVars, TypeOK, StageOK, Stages, LockHeldExactlyInside, Inside
<1>5. ASSUME NEW t \in Threads, EnsureLocked(t)
      PROVE  (StageOK /\ LockHeldExactlyInside)'
  BY <1>5 DEF EnsureLocked, Connected, Finish, connVars, outside, history,
     threadVars, TypeOK, StageOK, Stages, LockHeldExactlyInside, Inside
<1>6. ASSUME NEW t \in Threads, ReadToken(t)
      PROVE  (StageOK /\ LockHeldExactlyInside)'
  BY <1>6 DEF ReadToken, AttachFails, Finish, Release, LeaveAttach,
     LookedUpToken, connVars, outside, history, threadVars, TypeOK, StageOK,
     Stages, LockHeldExactlyInside, Inside
<1>7. ASSUME NEW t \in Threads, InfoAccepted(t)
      PROVE  (StageOK /\ LockHeldExactlyInside)'
  BY <1>7 DEF InfoAccepted, connVars, outside, history, threadVars, TypeOK,
     StageOK, Stages, LockHeldExactlyInside, Inside
<1>8. ASSUME NEW t \in Threads, InfoStaleToken(t)
      PROVE  (StageOK /\ LockHeldExactlyInside)'
  BY <1>8 DEF InfoStaleToken, connVars, outside, history, threadVars,
     TypeOK, StageOK, Stages, LockHeldExactlyInside, Inside
<1>9. ASSUME NEW t \in Threads, InfoFails(t)
      PROVE  (StageOK /\ LockHeldExactlyInside)'
  BY <1>9 DEF InfoFails, AttachFails, Finish, Release, LeaveAttach,
     connVars, outside, history, threadVars, TypeOK, StageOK, Stages,
     LockHeldExactlyInside, Inside
<1>10. ASSUME NEW t \in Threads, PublishClient(t)
      PROVE  (StageOK /\ LockHeldExactlyInside)'
  BY <1>10 DEF PublishClient, connVars, outside, history, threadVars,
     TypeOK, StageOK, Stages, LockHeldExactlyInside, Inside
<1>11. ASSUME NEW t \in Threads, PublishMeta(t)
      PROVE  (StageOK /\ LockHeldExactlyInside)'
  BY <1>11 DEF PublishMeta, connVars, outside, history, threadVars, TypeOK,
     StageOK, Stages, LockHeldExactlyInside, Inside
<1>12. ASSUME NEW t \in Threads, PublishId(t)
      PROVE  (StageOK /\ LockHeldExactlyInside)'
  BY <1>12 DEF PublishId, connVars, outside, history, threadVars, TypeOK,
     StageOK, Stages, LockHeldExactlyInside, Inside
<1>13. ASSUME NEW t \in Threads, PublishGeneration(t)
      PROVE  (StageOK /\ LockHeldExactlyInside)'
  BY <1>13 DEF PublishGeneration, Connected, Finish, Release, LeaveAttach,
     connVars, outside, history, threadVars, TypeOK, StageOK, Stages,
     LockHeldExactlyInside, Inside
<1>14. ASSUME NEW t \in Threads, DetachCheck(t)
      PROVE  (StageOK /\ LockHeldExactlyInside)'
  BY <1>14 DEF DetachCheck, connVars, outside, history, threadVars, TypeOK,
     StageOK, Stages, LockHeldExactlyInside, Inside
<1>15. ASSUME NEW t \in Threads, DetachClose(t)
      PROVE  (StageOK /\ LockHeldExactlyInside)'
  BY <1>15 DEF DetachClose, Finish, Release, connVars, outside, history,
     threadVars, TypeOK, StageOK, Stages, LockHeldExactlyInside, Inside
<1>16. ASSUME NEW t \in Threads, DetachNull(t)
      PROVE  (StageOK /\ LockHeldExactlyInside)'
  BY <1>16 DEF DetachNull, connVars, outside, history, threadVars, TypeOK,
     StageOK, Stages, LockHeldExactlyInside, Inside
<1>17. ASSUME NEW t \in Threads, DetachMeta(t)
      PROVE  (StageOK /\ LockHeldExactlyInside)'
  BY <1>17 DEF DetachMeta, connVars, outside, history, threadVars, TypeOK,
     StageOK, Stages, LockHeldExactlyInside, Inside
<1>18. ASSUME NEW t \in Threads, DetachId(t)
      PROVE  (StageOK /\ LockHeldExactlyInside)'
  BY <1>18 DEF DetachId, DetachReturns, Finish, connVars, outside, history,
     threadVars, TypeOK, StageOK, Stages, LockHeldExactlyInside, Inside
<1>19. ASSUME NEW t \in Threads, CheckFeature(t)
      PROVE  (StageOK /\ LockHeldExactlyInside)'
  BY <1>19 DEF CheckFeature, Finish, connVars, outside, history, threadVars,
     TypeOK, StageOK, Stages, LockHeldExactlyInside, Inside
<1>20. ASSUME NEW t \in Threads, LoadId(t)
      PROVE  (StageOK /\ LockHeldExactlyInside)'
  BY <1>20 DEF LoadId, connVars, outside, history, threadVars, TypeOK,
     StageOK, Stages, LockHeldExactlyInside, Inside
<1>21. ASSUME NEW t \in Threads, LoadGeneration(t)
      PROVE  (StageOK /\ LockHeldExactlyInside)'
  BY <1>21 DEF LoadGeneration, connVars, outside, history, threadVars,
     TypeOK, StageOK, Stages, LockHeldExactlyInside, Inside
<1>22. ASSUME NEW t \in Threads, LoadClient(t)
      PROVE  (StageOK /\ LockHeldExactlyInside)'
  BY <1>22 DEF LoadClient, Finish, connVars, outside, history, threadVars,
     TypeOK, StageOK, Stages, LockHeldExactlyInside, Inside
<1>23. ASSUME NEW t \in Threads, Send(t)
      PROVE  (StageOK /\ LockHeldExactlyInside)'
  BY <1>23 DEF Send, Finish, connVars, outside, history, threadVars, TypeOK,
     StageOK, Stages, LockHeldExactlyInside, Inside
<1>24. ASSUME NEW t \in Threads, Answered(t)
      PROVE  (StageOK /\ LockHeldExactlyInside)'
  BY <1>24 DEF Answered, Runs, Finish, connVars, outside, history,
     threadVars, TypeOK, StageOK, Stages, LockHeldExactlyInside, Inside
<1>25. ASSUME NEW t \in Threads, Refused(t)
      PROVE  (StageOK /\ LockHeldExactlyInside)'
  BY <1>25 DEF Refused, Finish, connVars, outside, history, threadVars,
     TypeOK, StageOK, Stages, LockHeldExactlyInside, Inside
<1>26. ASSUME NEW t \in Threads, Lost(t)
      PROVE  (StageOK /\ LockHeldExactlyInside)'
  BY <1>26 DEF Lost, Runs, Finish, connVars, outside, history, threadVars,
     TypeOK, StageOK, Stages, LockHeldExactlyInside, Inside
<1>27. ASSUME NEW t \in Threads, Relock(t)
      PROVE  (StageOK /\ LockHeldExactlyInside)'
  BY <1>27 DEF Relock, connVars, outside, history, threadVars, TypeOK,
     StageOK, Stages, LockHeldExactlyInside, Inside
<1>28. ASSUME NEW t \in Threads, CompareId(t)
      PROVE  (StageOK /\ LockHeldExactlyInside)'
  BY <1>28 DEF CompareId, Finish, connVars, outside, history, threadVars,
     TypeOK, StageOK, Stages, LockHeldExactlyInside, Inside
<1>29. CASE UNCHANGED vars
  BY <1>29 DEF vars, connVars, outside, history, threadVars, TypeOK,
     StageOK, Stages, LockHeldExactlyInside, Inside
<1>. QED
  BY <1>1, <1>2, <1>3, <1>4, <1>5, <1>6, <1>7, <1>8, <1>9, <1>10, <1>11,
     <1>12, <1>13, <1>14, <1>15, <1>16, <1>17, <1>18, <1>19, <1>20, <1>21,
     <1>22, <1>23, <1>24, <1>25, <1>26, <1>27, <1>28, <1>29 DEF Next, Step,
     Attach, Detach, Call, Finished

\* Only the lock holder publishes, so clients and generations go up together;
\* no step but the next of detach() leaves a closed client in use.
LEMMA NumberingStep ==
  ASSUME TypeOK, StageOK, LockHeldExactlyInside, NumberingOK,
         ClosedOnlyWhileDetaching, [Next]_vars
  PROVE  (NumberingOK /\ ClosedOnlyWhileDetaching)'
<1>. USE ConnectionAssumption DEF Goto, Steps, AttachSteps, DetachSteps,
   CallSteps, Null
<1>1. ASSUME Outside PROVE (NumberingOK /\ ClosedOnlyWhileDetaching)'
  BY <1>1 DEF Outside, Crash, Boot, Rotate, WriteTokenFile, connVars,
     outside, history, threadVars, TypeOK, StageOK, LockHeldExactlyInside,
     Inside, NumberingOK, Published, Publishing, ClosedOnlyWhileDetaching,
     Client, NoClient
<1>2. ASSUME NEW t \in Threads, NEW o \in Ops, Invoke(t, o)
      PROVE  (NumberingOK /\ ClosedOnlyWhileDetaching)'
  BY <1>2 DEF Invoke, connVars, outside, history, threadVars, TypeOK,
     StageOK, LockHeldExactlyInside, Inside, NumberingOK, Published,
     Publishing, ClosedOnlyWhileDetaching, Client, NoClient
<1>3. ASSUME NEW t \in Threads, Return(t)
      PROVE  (NumberingOK /\ ClosedOnlyWhileDetaching)'
  BY <1>3 DEF Return, connVars, outside, history, threadVars, TypeOK,
     StageOK, LockHeldExactlyInside, Inside, NumberingOK, Published,
     Publishing, ClosedOnlyWhileDetaching, Client, NoClient
<1>4. ASSUME NEW t \in Threads, Ensure(t)
      PROVE  (NumberingOK /\ ClosedOnlyWhileDetaching)'
  BY <1>4 DEF Ensure, Connected, Finish, connVars, outside, history,
     threadVars, TypeOK, StageOK, LockHeldExactlyInside, Inside, NumberingOK,
     Published, Publishing, ClosedOnlyWhileDetaching, Client, NoClient
<1>5. ASSUME NEW t \in Threads, EnsureLocked(t)
      PROVE  (NumberingOK /\ ClosedOnlyWhileDetaching)'
  BY <1>5 DEF EnsureLocked, Connected, Finish, connVars, outside, history,
     threadVars, TypeOK, StageOK, LockHeldExactlyInside, Inside, NumberingOK,
     Published, Publishing, ClosedOnlyWhileDetaching, Client, NoClient
<1>6. ASSUME NEW t \in Threads, ReadToken(t)
      PROVE  (NumberingOK /\ ClosedOnlyWhileDetaching)'
  BY <1>6 DEF ReadToken, AttachFails, Finish, Release, LeaveAttach,
     LookedUpToken, connVars, outside, history, threadVars, TypeOK, StageOK,
     LockHeldExactlyInside, Inside, NumberingOK, Published, Publishing,
     ClosedOnlyWhileDetaching, Client, NoClient
<1>7. ASSUME NEW t \in Threads, InfoAccepted(t)
      PROVE  (NumberingOK /\ ClosedOnlyWhileDetaching)'
  BY <1>7 DEF InfoAccepted, connVars, outside, history, threadVars, TypeOK,
     StageOK, LockHeldExactlyInside, Inside, NumberingOK, Published,
     Publishing, ClosedOnlyWhileDetaching, Client, NoClient
<1>8. ASSUME NEW t \in Threads, InfoStaleToken(t)
      PROVE  (NumberingOK /\ ClosedOnlyWhileDetaching)'
  BY <1>8 DEF InfoStaleToken, connVars, outside, history, threadVars,
     TypeOK, StageOK, LockHeldExactlyInside, Inside, NumberingOK, Published,
     Publishing, ClosedOnlyWhileDetaching, Client, NoClient
<1>9. ASSUME NEW t \in Threads, InfoFails(t)
      PROVE  (NumberingOK /\ ClosedOnlyWhileDetaching)'
  BY <1>9 DEF InfoFails, AttachFails, Finish, Release, LeaveAttach,
     connVars, outside, history, threadVars, TypeOK, StageOK,
     LockHeldExactlyInside, Inside, NumberingOK, Published, Publishing,
     ClosedOnlyWhileDetaching, Client, NoClient
<1>10. ASSUME NEW t \in Threads, PublishClient(t)
      PROVE  (NumberingOK /\ ClosedOnlyWhileDetaching)'
  BY <1>10 DEF PublishClient, connVars, outside, history, threadVars,
     TypeOK, StageOK, LockHeldExactlyInside, Inside, NumberingOK, Published,
     Publishing, ClosedOnlyWhileDetaching, Client, NoClient
<1>11. ASSUME NEW t \in Threads, PublishMeta(t)
      PROVE  (NumberingOK /\ ClosedOnlyWhileDetaching)'
  BY <1>11 DEF PublishMeta, connVars, outside, history, threadVars, TypeOK,
     StageOK, LockHeldExactlyInside, Inside, NumberingOK, Published,
     Publishing, ClosedOnlyWhileDetaching, Client, NoClient
<1>12. ASSUME NEW t \in Threads, PublishId(t)
      PROVE  (NumberingOK /\ ClosedOnlyWhileDetaching)'
  BY <1>12 DEF PublishId, connVars, outside, history, threadVars, TypeOK,
     StageOK, LockHeldExactlyInside, Inside, NumberingOK, Published,
     Publishing, ClosedOnlyWhileDetaching, Client, NoClient
<1>13. ASSUME NEW t \in Threads, PublishGeneration(t)
      PROVE  (NumberingOK /\ ClosedOnlyWhileDetaching)'
  BY <1>13 DEF PublishGeneration, Connected, Finish, Release, LeaveAttach,
     connVars, outside, history, threadVars, TypeOK, StageOK,
     LockHeldExactlyInside, Inside, NumberingOK, Published, Publishing,
     ClosedOnlyWhileDetaching, Client, NoClient
<1>14. ASSUME NEW t \in Threads, DetachCheck(t)
      PROVE  (NumberingOK /\ ClosedOnlyWhileDetaching)'
  BY <1>14 DEF DetachCheck, connVars, outside, history, threadVars, TypeOK,
     StageOK, LockHeldExactlyInside, Inside, NumberingOK, Published,
     Publishing, ClosedOnlyWhileDetaching, Client, NoClient
<1>15. ASSUME NEW t \in Threads, DetachClose(t)
      PROVE  (NumberingOK /\ ClosedOnlyWhileDetaching)'
  <2>1. CASE client = NoClient
    BY ZenonT(60), <1>15, <2>1 DEF DetachClose, Finish, connVars, NumberingOK,
       Published, Publishing, ClosedOnlyWhileDetaching, TypeOK
  <2>2. CASE client # NoClient
    <3>1. /\ closed' = closed \cup {client.n}
          /\ UNCHANGED <<client, generation>>
          /\ pc[t] = "detClose" /\ pc' = [pc EXCEPT ![t] = "detNull"]
      BY <1>15, <2>2 DEF DetachClose
    <3>2. Publishing' <=> Publishing
      BY <3>1 DEF Publishing, TypeOK
    <3>3. NumberingOK'
      BY <2>2, <3>1, <3>2 DEF NumberingOK, Published, TypeOK, Client
    <3>. QED  BY <3>1, <3>3 DEF ClosedOnlyWhileDetaching, TypeOK
  <2>. QED  BY <2>1, <2>2
<1>16. ASSUME NEW t \in Threads, DetachNull(t)
      PROVE  (NumberingOK /\ ClosedOnlyWhileDetaching)'
  BY <1>16 DEF DetachNull, connVars, outside, history, threadVars, TypeOK,
     StageOK, LockHeldExactlyInside, Inside, NumberingOK, Published,
     Publishing, ClosedOnlyWhileDetaching, Client, NoClient
<1>17. ASSUME NEW t \in Threads, DetachMeta(t)
      PROVE  (NumberingOK /\ ClosedOnlyWhileDetaching)'
  BY <1>17 DEF DetachMeta, connVars, outside, history, threadVars, TypeOK,
     StageOK, LockHeldExactlyInside, Inside, NumberingOK, Published,
     Publishing, ClosedOnlyWhileDetaching, Client, NoClient
<1>18. ASSUME NEW t \in Threads, DetachId(t)
      PROVE  (NumberingOK /\ ClosedOnlyWhileDetaching)'
  BY <1>18 DEF DetachId, DetachReturns, Finish, connVars, outside, history,
     threadVars, TypeOK, StageOK, LockHeldExactlyInside, Inside, NumberingOK,
     Published, Publishing, ClosedOnlyWhileDetaching, Client, NoClient
<1>19. ASSUME NEW t \in Threads, CheckFeature(t)
      PROVE  (NumberingOK /\ ClosedOnlyWhileDetaching)'
  BY <1>19 DEF CheckFeature, Finish, connVars, outside, history, threadVars,
     TypeOK, StageOK, LockHeldExactlyInside, Inside, NumberingOK, Published,
     Publishing, ClosedOnlyWhileDetaching, Client, NoClient
<1>20. ASSUME NEW t \in Threads, LoadId(t)
      PROVE  (NumberingOK /\ ClosedOnlyWhileDetaching)'
  BY <1>20 DEF LoadId, connVars, outside, history, threadVars, TypeOK,
     StageOK, LockHeldExactlyInside, Inside, NumberingOK, Published,
     Publishing, ClosedOnlyWhileDetaching, Client, NoClient
<1>21. ASSUME NEW t \in Threads, LoadGeneration(t)
      PROVE  (NumberingOK /\ ClosedOnlyWhileDetaching)'
  BY <1>21 DEF LoadGeneration, connVars, outside, history, threadVars,
     TypeOK, StageOK, LockHeldExactlyInside, Inside, NumberingOK, Published,
     Publishing, ClosedOnlyWhileDetaching, Client, NoClient
<1>22. ASSUME NEW t \in Threads, LoadClient(t)
      PROVE  (NumberingOK /\ ClosedOnlyWhileDetaching)'
  BY <1>22 DEF LoadClient, Finish, connVars, outside, history, threadVars,
     TypeOK, StageOK, LockHeldExactlyInside, Inside, NumberingOK, Published,
     Publishing, ClosedOnlyWhileDetaching, Client, NoClient
<1>23. ASSUME NEW t \in Threads, Send(t)
      PROVE  (NumberingOK /\ ClosedOnlyWhileDetaching)'
  BY <1>23 DEF Send, Finish, connVars, outside, history, threadVars, TypeOK,
     StageOK, LockHeldExactlyInside, Inside, NumberingOK, Published,
     Publishing, ClosedOnlyWhileDetaching, Client, NoClient
<1>24. ASSUME NEW t \in Threads, Answered(t)
      PROVE  (NumberingOK /\ ClosedOnlyWhileDetaching)'
  BY <1>24 DEF Answered, Runs, Finish, connVars, outside, history,
     threadVars, TypeOK, StageOK, LockHeldExactlyInside, Inside, NumberingOK,
     Published, Publishing, ClosedOnlyWhileDetaching, Client, NoClient
<1>25. ASSUME NEW t \in Threads, Refused(t)
      PROVE  (NumberingOK /\ ClosedOnlyWhileDetaching)'
  BY <1>25 DEF Refused, Finish, connVars, outside, history, threadVars,
     TypeOK, StageOK, LockHeldExactlyInside, Inside, NumberingOK, Published,
     Publishing, ClosedOnlyWhileDetaching, Client, NoClient
<1>26. ASSUME NEW t \in Threads, Lost(t)
      PROVE  (NumberingOK /\ ClosedOnlyWhileDetaching)'
  BY <1>26 DEF Lost, Runs, Finish, connVars, outside, history, threadVars,
     TypeOK, StageOK, LockHeldExactlyInside, Inside, NumberingOK, Published,
     Publishing, ClosedOnlyWhileDetaching, Client, NoClient
<1>27. ASSUME NEW t \in Threads, Relock(t)
      PROVE  (NumberingOK /\ ClosedOnlyWhileDetaching)'
  BY <1>27 DEF Relock, connVars, outside, history, threadVars, TypeOK,
     StageOK, LockHeldExactlyInside, Inside, NumberingOK, Published,
     Publishing, ClosedOnlyWhileDetaching, Client, NoClient
<1>28. ASSUME NEW t \in Threads, CompareId(t)
      PROVE  (NumberingOK /\ ClosedOnlyWhileDetaching)'
  BY <1>28 DEF CompareId, Finish, connVars, outside, history, threadVars,
     TypeOK, StageOK, LockHeldExactlyInside, Inside, NumberingOK, Published,
     Publishing, ClosedOnlyWhileDetaching, Client, NoClient
<1>29. CASE UNCHANGED vars
  BY <1>29 DEF vars, connVars, outside, history, threadVars, TypeOK,
     StageOK, LockHeldExactlyInside, Inside, NumberingOK, Published,
     Publishing, ClosedOnlyWhileDetaching, Client, NoClient
<1>. QED
  BY <1>1, <1>2, <1>3, <1>4, <1>5, <1>6, <1>7, <1>8, <1>9, <1>10, <1>11,
     <1>12, <1>13, <1>14, <1>15, <1>16, <1>17, <1>18, <1>19, <1>20, <1>21,
     <1>22, <1>23, <1>24, <1>25, <1>26, <1>27, <1>28, <1>29 DEF Next, Step,
     Attach, Detach, Call, Finished

\* A request stays tied to the client and the generation it was sent under.
LEMMA RequestStep ==
  ASSUME TypeOK, StageOK, LockHeldExactlyInside, NumberingOK, RequestOK,
         [Next]_vars
  PROVE  RequestOK'
<1>. USE ConnectionAssumption DEF Goto, Steps, AttachSteps, DetachSteps,
   CallSteps, Null
<1>1. ASSUME Outside PROVE RequestOK'
  BY <1>1 DEF Outside, Crash, Boot, Rotate, WriteTokenFile, connVars,
     outside, history, threadVars, TypeOK, StageOK, LockHeldExactlyInside,
     Inside, NumberingOK, Published, Publishing, RequestOK, HasRequest,
     Reattaching, Client, NoClient, Frame, EmptyFrame
<1>2. ASSUME NEW t \in Threads, NEW o \in Ops, Invoke(t, o) PROVE RequestOK'
  BY SMTT(30), <1>2 DEF Invoke, connVars, outside, history, threadVars, TypeOK,
     StageOK, LockHeldExactlyInside, Inside, NumberingOK, Published,
     Publishing, RequestOK, HasRequest, Reattaching, Client, NoClient, Frame,
     EmptyFrame
<1>3. ASSUME NEW t \in Threads, Return(t) PROVE RequestOK'
  BY <1>3 DEF Return, connVars, outside, history, threadVars, TypeOK,
     StageOK, LockHeldExactlyInside, Inside, NumberingOK, Published,
     Publishing, RequestOK, HasRequest, Reattaching, Client, NoClient, Frame,
     EmptyFrame
<1>4. ASSUME NEW t \in Threads, Ensure(t) PROVE RequestOK'
  BY <1>4 DEF Ensure, Connected, Finish, connVars, outside, history,
     threadVars, TypeOK, StageOK, LockHeldExactlyInside, Inside, NumberingOK,
     Published, Publishing, RequestOK, HasRequest, Reattaching, Client,
     NoClient, Frame, EmptyFrame
<1>5. ASSUME NEW t \in Threads, EnsureLocked(t) PROVE RequestOK'
  BY <1>5 DEF EnsureLocked, Connected, Finish, connVars, outside, history,
     threadVars, TypeOK, StageOK, LockHeldExactlyInside, Inside, NumberingOK,
     Published, Publishing, RequestOK, HasRequest, Reattaching, Client,
     NoClient, Frame, EmptyFrame
<1>6. ASSUME NEW t \in Threads, ReadToken(t) PROVE RequestOK'
  <2>1. UNCHANGED <<client, generation>>
    BY <1>6 DEF ReadToken, AttachFails, connVars
  <2>2. pc[t] = "token" /\ \E l \in {"ret", "info"} : pc' = [pc EXCEPT ![t] = l]
    BY <1>6 DEF ReadToken, AttachFails, Finish
  <2>3. UNCHANGED stage
    BY <1>6 DEF ReadToken, AttachFails
  <2>4. \A s \in Threads : /\ frame'[s].myGen = frame[s].myGen
                           /\ frame'[s].fn = frame[s].fn
    <3>1. CASE LeaveAttach(t)
      BY <3>1 DEF LeaveAttach, TypeOK, Frame
    <3>2. CASE frame' = [frame EXCEPT ![t] = [@ EXCEPT !.token = LookedUpToken]]
      BY <3>2 DEF TypeOK, Frame
    <3>. QED  BY <1>6, <3>1, <3>2 DEF ReadToken, AttachFails
  <2>5. \A s \in Threads : HasRequest(s)' => HasRequest(s)
    BY <2>2, <2>3 DEF HasRequest, Reattaching, TypeOK
  <2>6. Published' = Published
    BY <2>1, <2>2 DEF Published, Publishing, TypeOK
  <2>7. \A s \in Threads : Reattaching(s)' => Reattaching(s)
    BY <2>2, <2>3 DEF Reattaching, TypeOK
  <2>. QED  BY <2>1, <2>4, <2>5, <2>6, <2>7 DEF RequestOK
<1>7. ASSUME NEW t \in Threads, InfoAccepted(t) PROVE RequestOK'
  BY <1>7 DEF InfoAccepted, connVars, outside, history, threadVars, TypeOK,
     StageOK, LockHeldExactlyInside, Inside, NumberingOK, Published,
     Publishing, RequestOK, HasRequest, Reattaching, Client, NoClient, Frame,
     EmptyFrame
<1>8. ASSUME NEW t \in Threads, InfoStaleToken(t) PROVE RequestOK'
  BY <1>8 DEF InfoStaleToken, connVars, outside, history, threadVars,
     TypeOK, StageOK, LockHeldExactlyInside, Inside, NumberingOK, Published,
     Publishing, RequestOK, HasRequest, Reattaching, Client, NoClient, Frame,
     EmptyFrame
<1>9. ASSUME NEW t \in Threads, InfoFails(t) PROVE RequestOK'
  BY <1>9 DEF InfoFails, AttachFails, Finish, Release, LeaveAttach,
     connVars, outside, history, threadVars, TypeOK, StageOK,
     LockHeldExactlyInside, Inside, NumberingOK, Published, Publishing,
     RequestOK, HasRequest, Reattaching, Client, NoClient, Frame, EmptyFrame
<1>10. ASSUME NEW t \in Threads, PublishClient(t) PROVE RequestOK'
  BY <1>10 DEF PublishClient, connVars, outside, history, threadVars,
     TypeOK, StageOK, LockHeldExactlyInside, Inside, NumberingOK, Published,
     Publishing, RequestOK, HasRequest, Reattaching, Client, NoClient, Frame,
     EmptyFrame
<1>11. ASSUME NEW t \in Threads, PublishMeta(t) PROVE RequestOK'
  BY <1>11 DEF PublishMeta, connVars, outside, history, threadVars, TypeOK,
     StageOK, LockHeldExactlyInside, Inside, NumberingOK, Published,
     Publishing, RequestOK, HasRequest, Reattaching, Client, NoClient, Frame,
     EmptyFrame
<1>12. ASSUME NEW t \in Threads, PublishId(t) PROVE RequestOK'
  BY <1>12 DEF PublishId, connVars, outside, history, threadVars, TypeOK,
     StageOK, LockHeldExactlyInside, Inside, NumberingOK, Published,
     Publishing, RequestOK, HasRequest, Reattaching, Client, NoClient, Frame,
     EmptyFrame
<1>13. ASSUME NEW t \in Threads, PublishGeneration(t) PROVE RequestOK'
  BY <1>13 DEF PublishGeneration, Connected, Finish, Release, LeaveAttach,
     connVars, outside, history, threadVars, TypeOK, StageOK,
     LockHeldExactlyInside, Inside, NumberingOK, Published, Publishing,
     RequestOK, HasRequest, Reattaching, Client, NoClient, Frame, EmptyFrame
<1>14. ASSUME NEW t \in Threads, DetachCheck(t) PROVE RequestOK'
  BY <1>14 DEF DetachCheck, connVars, outside, history, threadVars, TypeOK,
     StageOK, LockHeldExactlyInside, Inside, NumberingOK, Published,
     Publishing, RequestOK, HasRequest, Reattaching, Client, NoClient, Frame,
     EmptyFrame
<1>15. ASSUME NEW t \in Threads, DetachClose(t) PROVE RequestOK'
  BY <1>15 DEF DetachClose, Finish, Release, connVars, outside, history,
     threadVars, TypeOK, StageOK, LockHeldExactlyInside, Inside, NumberingOK,
     Published, Publishing, RequestOK, HasRequest, Reattaching, Client,
     NoClient, Frame, EmptyFrame
<1>16. ASSUME NEW t \in Threads, DetachNull(t) PROVE RequestOK'
  BY <1>16 DEF DetachNull, connVars, outside, history, threadVars, TypeOK,
     StageOK, LockHeldExactlyInside, Inside, NumberingOK, Published,
     Publishing, RequestOK, HasRequest, Reattaching, Client, NoClient, Frame,
     EmptyFrame
<1>17. ASSUME NEW t \in Threads, DetachMeta(t) PROVE RequestOK'
  BY <1>17 DEF DetachMeta, connVars, outside, history, threadVars, TypeOK,
     StageOK, LockHeldExactlyInside, Inside, NumberingOK, Published,
     Publishing, RequestOK, HasRequest, Reattaching, Client, NoClient, Frame,
     EmptyFrame
<1>18. ASSUME NEW t \in Threads, DetachId(t) PROVE RequestOK'
  BY <1>18 DEF DetachId, DetachReturns, Finish, connVars, outside, history,
     threadVars, TypeOK, StageOK, LockHeldExactlyInside, Inside, NumberingOK,
     Published, Publishing, RequestOK, HasRequest, Reattaching, Client,
     NoClient, Frame, EmptyFrame
<1>19. ASSUME NEW t \in Threads, CheckFeature(t) PROVE RequestOK'
  BY <1>19 DEF CheckFeature, Finish, connVars, outside, history, threadVars,
     TypeOK, StageOK, LockHeldExactlyInside, Inside, NumberingOK, Published,
     Publishing, RequestOK, HasRequest, Reattaching, Client, NoClient, Frame,
     EmptyFrame
<1>20. ASSUME NEW t \in Threads, LoadId(t) PROVE RequestOK'
  BY <1>20 DEF LoadId, connVars, outside, history, threadVars, TypeOK,
     StageOK, LockHeldExactlyInside, Inside, NumberingOK, Published,
     Publishing, RequestOK, HasRequest, Reattaching, Client, NoClient, Frame,
     EmptyFrame
<1>21. ASSUME NEW t \in Threads, LoadGeneration(t) PROVE RequestOK'
  BY <1>21 DEF LoadGeneration, connVars, outside, history, threadVars,
     TypeOK, StageOK, LockHeldExactlyInside, Inside, NumberingOK, Published,
     Publishing, RequestOK, HasRequest, Reattaching, Client, NoClient, Frame,
     EmptyFrame
<1>22. ASSUME NEW t \in Threads, LoadClient(t) PROVE RequestOK'
  BY <1>22 DEF LoadClient, Finish, connVars, outside, history, threadVars,
     TypeOK, StageOK, LockHeldExactlyInside, Inside, NumberingOK, Published,
     Publishing, RequestOK, HasRequest, Reattaching, Client, NoClient, Frame,
     EmptyFrame
<1>23. ASSUME NEW t \in Threads, Send(t) PROVE RequestOK'
  BY <1>23 DEF Send, Finish, connVars, outside, history, threadVars, TypeOK,
     StageOK, LockHeldExactlyInside, Inside, NumberingOK, Published,
     Publishing, RequestOK, HasRequest, Reattaching, Client, NoClient, Frame,
     EmptyFrame
<1>24. ASSUME NEW t \in Threads, Answered(t) PROVE RequestOK'
  BY <1>24 DEF Answered, Runs, Finish, connVars, outside, history,
     threadVars, TypeOK, StageOK, LockHeldExactlyInside, Inside, NumberingOK,
     Published, Publishing, RequestOK, HasRequest, Reattaching, Client,
     NoClient, Frame, EmptyFrame
<1>25. ASSUME NEW t \in Threads, Refused(t) PROVE RequestOK'
  BY <1>25 DEF Refused, Finish, connVars, outside, history, threadVars,
     TypeOK, StageOK, LockHeldExactlyInside, Inside, NumberingOK, Published,
     Publishing, RequestOK, HasRequest, Reattaching, Client, NoClient, Frame,
     EmptyFrame
<1>26. ASSUME NEW t \in Threads, Lost(t) PROVE RequestOK'
  BY <1>26 DEF Lost, Runs, Finish, connVars, outside, history, threadVars,
     TypeOK, StageOK, LockHeldExactlyInside, Inside, NumberingOK, Published,
     Publishing, RequestOK, HasRequest, Reattaching, Client, NoClient, Frame,
     EmptyFrame
<1>27. ASSUME NEW t \in Threads, Relock(t) PROVE RequestOK'
  BY <1>27 DEF Relock, connVars, outside, history, threadVars, TypeOK,
     StageOK, LockHeldExactlyInside, Inside, NumberingOK, Published,
     Publishing, RequestOK, HasRequest, Reattaching, Client, NoClient, Frame,
     EmptyFrame
<1>28. ASSUME NEW t \in Threads, CompareId(t) PROVE RequestOK'
  BY <1>28 DEF CompareId, Finish, connVars, outside, history, threadVars,
     TypeOK, StageOK, LockHeldExactlyInside, Inside, NumberingOK, Published,
     Publishing, RequestOK, HasRequest, Reattaching, Client, NoClient, Frame,
     EmptyFrame
<1>29. CASE UNCHANGED vars
  BY <1>29 DEF vars, connVars, outside, history, threadVars, TypeOK,
     StageOK, LockHeldExactlyInside, Inside, NumberingOK, Published,
     Publishing, RequestOK, HasRequest, Reattaching, Client, NoClient, Frame,
     EmptyFrame
<1>. QED
  BY <1>1, <1>2, <1>3, <1>4, <1>5, <1>6, <1>7, <1>8, <1>9, <1>10, <1>11,
     <1>12, <1>13, <1>14, <1>15, <1>16, <1>17, <1>18, <1>19, <1>20, <1>21,
     <1>22, <1>23, <1>24, <1>25, <1>26, <1>27, <1>28, <1>29 DEF Next, Step,
     Attach, Detach, Call, Finished

\* What has run and what is reported stay in agreement.
LEMMA CallStep ==
  ASSUME TypeOK, StageOK, CallOK, [Next]_vars
  PROVE  CallOK'
<1>. USE ConnectionAssumption DEF Goto, Steps, AttachSteps, DetachSteps,
   CallSteps, Null
<1>1. ASSUME Outside PROVE CallOK'
  BY <1>1 DEF Outside, Crash, Boot, Rotate, WriteTokenFile, connVars,
     outside, history, threadVars, TypeOK, StageOK, CallOK, Answers, NeverRan,
     Contract!Truthful, Contract!Outcomes, Contract!Answers, Contract!NeverRan,
     Contract!Ambiguous
<1>2. ASSUME NEW t \in Threads, NEW o \in Ops, Invoke(t, o) PROVE CallOK'
  BY <1>2 DEF Invoke, connVars, outside, history, threadVars, TypeOK,
     StageOK, CallOK, Answers, NeverRan, Contract!Truthful, Contract!Outcomes,
     Contract!Answers, Contract!NeverRan, Contract!Ambiguous
<1>3. ASSUME NEW t \in Threads, Return(t) PROVE CallOK'
  BY <1>3 DEF Return, connVars, outside, history, threadVars, TypeOK,
     StageOK, CallOK, Answers, NeverRan, Contract!Truthful, Contract!Outcomes,
     Contract!Answers, Contract!NeverRan, Contract!Ambiguous
<1>4. ASSUME NEW t \in Threads, Ensure(t) PROVE CallOK'
  BY <1>4 DEF Ensure, Connected, Finish, connVars, outside, history,
     threadVars, TypeOK, StageOK, CallOK, Answers, NeverRan, Contract!Truthful,
     Contract!Outcomes, Contract!Answers, Contract!NeverRan, Contract!Ambiguous
<1>5. ASSUME NEW t \in Threads, EnsureLocked(t) PROVE CallOK'
  BY <1>5 DEF EnsureLocked, Connected, Finish, connVars, outside, history,
     threadVars, TypeOK, StageOK, CallOK, Answers, NeverRan, Contract!Truthful,
     Contract!Outcomes, Contract!Answers, Contract!NeverRan, Contract!Ambiguous
<1>6. ASSUME NEW t \in Threads, ReadToken(t) PROVE CallOK'
  BY <1>6 DEF ReadToken, AttachFails, Finish, Release, LeaveAttach,
     LookedUpToken, connVars, outside, history, threadVars, TypeOK, StageOK,
     CallOK, Answers, NeverRan, Contract!Truthful, Contract!Outcomes,
     Contract!Answers, Contract!NeverRan, Contract!Ambiguous
<1>7. ASSUME NEW t \in Threads, InfoAccepted(t) PROVE CallOK'
  BY <1>7 DEF InfoAccepted, connVars, outside, history, threadVars, TypeOK,
     StageOK, CallOK, Answers, NeverRan, Contract!Truthful, Contract!Outcomes,
     Contract!Answers, Contract!NeverRan, Contract!Ambiguous
<1>8. ASSUME NEW t \in Threads, InfoStaleToken(t) PROVE CallOK'
  BY <1>8 DEF InfoStaleToken, connVars, outside, history, threadVars,
     TypeOK, StageOK, CallOK, Answers, NeverRan, Contract!Truthful,
     Contract!Outcomes, Contract!Answers, Contract!NeverRan, Contract!Ambiguous
<1>9. ASSUME NEW t \in Threads, InfoFails(t) PROVE CallOK'
  BY <1>9 DEF InfoFails, AttachFails, Finish, Release, LeaveAttach,
     connVars, outside, history, threadVars, TypeOK, StageOK, CallOK, Answers,
     NeverRan, Contract!Truthful, Contract!Outcomes, Contract!Answers,
     Contract!NeverRan, Contract!Ambiguous
<1>10. ASSUME NEW t \in Threads, PublishClient(t) PROVE CallOK'
  BY <1>10 DEF PublishClient, connVars, outside, history, threadVars,
     TypeOK, StageOK, CallOK, Answers, NeverRan, Contract!Truthful,
     Contract!Outcomes, Contract!Answers, Contract!NeverRan, Contract!Ambiguous
<1>11. ASSUME NEW t \in Threads, PublishMeta(t) PROVE CallOK'
  BY <1>11 DEF PublishMeta, connVars, outside, history, threadVars, TypeOK,
     StageOK, CallOK, Answers, NeverRan, Contract!Truthful, Contract!Outcomes,
     Contract!Answers, Contract!NeverRan, Contract!Ambiguous
<1>12. ASSUME NEW t \in Threads, PublishId(t) PROVE CallOK'
  BY <1>12 DEF PublishId, connVars, outside, history, threadVars, TypeOK,
     StageOK, CallOK, Answers, NeverRan, Contract!Truthful, Contract!Outcomes,
     Contract!Answers, Contract!NeverRan, Contract!Ambiguous
<1>13. ASSUME NEW t \in Threads, PublishGeneration(t) PROVE CallOK'
  BY <1>13 DEF PublishGeneration, Connected, Finish, Release, LeaveAttach,
     connVars, outside, history, threadVars, TypeOK, StageOK, CallOK, Answers,
     NeverRan, Contract!Truthful, Contract!Outcomes, Contract!Answers,
     Contract!NeverRan, Contract!Ambiguous
<1>14. ASSUME NEW t \in Threads, DetachCheck(t) PROVE CallOK'
  BY <1>14 DEF DetachCheck, connVars, outside, history, threadVars, TypeOK,
     StageOK, CallOK, Answers, NeverRan, Contract!Truthful, Contract!Outcomes,
     Contract!Answers, Contract!NeverRan, Contract!Ambiguous
<1>15. ASSUME NEW t \in Threads, DetachClose(t) PROVE CallOK'
  BY <1>15 DEF DetachClose, Finish, Release, connVars, outside, history,
     threadVars, TypeOK, StageOK, CallOK, Answers, NeverRan, Contract!Truthful,
     Contract!Outcomes, Contract!Answers, Contract!NeverRan, Contract!Ambiguous
<1>16. ASSUME NEW t \in Threads, DetachNull(t) PROVE CallOK'
  BY <1>16 DEF DetachNull, connVars, outside, history, threadVars, TypeOK,
     StageOK, CallOK, Answers, NeverRan, Contract!Truthful, Contract!Outcomes,
     Contract!Answers, Contract!NeverRan, Contract!Ambiguous
<1>17. ASSUME NEW t \in Threads, DetachMeta(t) PROVE CallOK'
  BY <1>17 DEF DetachMeta, connVars, outside, history, threadVars, TypeOK,
     StageOK, CallOK, Answers, NeverRan, Contract!Truthful, Contract!Outcomes,
     Contract!Answers, Contract!NeverRan, Contract!Ambiguous
<1>18. ASSUME NEW t \in Threads, DetachId(t) PROVE CallOK'
  BY <1>18 DEF DetachId, DetachReturns, Finish, connVars, outside, history,
     threadVars, TypeOK, StageOK, CallOK, Answers, NeverRan, Contract!Truthful,
     Contract!Outcomes, Contract!Answers, Contract!NeverRan, Contract!Ambiguous
<1>19. ASSUME NEW t \in Threads, CheckFeature(t) PROVE CallOK'
  BY <1>19 DEF CheckFeature, Finish, connVars, outside, history, threadVars,
     TypeOK, StageOK, CallOK, Answers, NeverRan, Contract!Truthful,
     Contract!Outcomes, Contract!Answers, Contract!NeverRan, Contract!Ambiguous
<1>20. ASSUME NEW t \in Threads, LoadId(t) PROVE CallOK'
  BY <1>20 DEF LoadId, connVars, outside, history, threadVars, TypeOK,
     StageOK, CallOK, Answers, NeverRan, Contract!Truthful, Contract!Outcomes,
     Contract!Answers, Contract!NeverRan, Contract!Ambiguous
<1>21. ASSUME NEW t \in Threads, LoadGeneration(t) PROVE CallOK'
  BY <1>21 DEF LoadGeneration, connVars, outside, history, threadVars,
     TypeOK, StageOK, CallOK, Answers, NeverRan, Contract!Truthful,
     Contract!Outcomes, Contract!Answers, Contract!NeverRan, Contract!Ambiguous
<1>22. ASSUME NEW t \in Threads, LoadClient(t) PROVE CallOK'
  BY <1>22 DEF LoadClient, Finish, connVars, outside, history, threadVars,
     TypeOK, StageOK, CallOK, Answers, NeverRan, Contract!Truthful,
     Contract!Outcomes, Contract!Answers, Contract!NeverRan, Contract!Ambiguous
<1>23. ASSUME NEW t \in Threads, Send(t) PROVE CallOK'
  BY <1>23 DEF Send, Finish, connVars, outside, history, threadVars, TypeOK,
     StageOK, CallOK, Answers, NeverRan, Contract!Truthful, Contract!Outcomes,
     Contract!Answers, Contract!NeverRan, Contract!Ambiguous
<1>24. ASSUME NEW t \in Threads, Answered(t) PROVE CallOK'
  BY <1>24 DEF Answered, Runs, Finish, connVars, outside, history,
     threadVars, TypeOK, StageOK, CallOK, Answers, NeverRan, Contract!Truthful,
     Contract!Outcomes, Contract!Answers, Contract!NeverRan, Contract!Ambiguous
<1>25. ASSUME NEW t \in Threads, Refused(t) PROVE CallOK'
  BY <1>25 DEF Refused, Finish, connVars, outside, history, threadVars,
     TypeOK, StageOK, CallOK, Answers, NeverRan, Contract!Truthful,
     Contract!Outcomes, Contract!Answers, Contract!NeverRan, Contract!Ambiguous
<1>26. ASSUME NEW t \in Threads, Lost(t) PROVE CallOK'
  BY <1>26 DEF Lost, Runs, Finish, connVars, outside, history, threadVars,
     TypeOK, StageOK, CallOK, Answers, NeverRan, Contract!Truthful,
     Contract!Outcomes, Contract!Answers, Contract!NeverRan, Contract!Ambiguous
<1>27. ASSUME NEW t \in Threads, Relock(t) PROVE CallOK'
  BY <1>27 DEF Relock, connVars, outside, history, threadVars, TypeOK,
     StageOK, CallOK, Answers, NeverRan, Contract!Truthful, Contract!Outcomes,
     Contract!Answers, Contract!NeverRan, Contract!Ambiguous
<1>28. ASSUME NEW t \in Threads, CompareId(t) PROVE CallOK'
  BY <1>28 DEF CompareId, Finish, connVars, outside, history, threadVars,
     TypeOK, StageOK, CallOK, Answers, NeverRan, Contract!Truthful,
     Contract!Outcomes, Contract!Answers, Contract!NeverRan, Contract!Ambiguous
<1>29. CASE UNCHANGED vars
  BY <1>29 DEF vars, connVars, outside, history, threadVars, TypeOK,
     StageOK, CallOK, Answers, NeverRan, Contract!Truthful, Contract!Outcomes,
     Contract!Answers, Contract!NeverRan, Contract!Ambiguous
<1>. QED
  BY <1>1, <1>2, <1>3, <1>4, <1>5, <1>6, <1>7, <1>8, <1>9, <1>10, <1>11,
     <1>12, <1>13, <1>14, <1>15, <1>16, <1>17, <1>18, <1>19, <1>20, <1>21,
     <1>22, <1>23, <1>24, <1>25, <1>26, <1>27, <1>28, <1>29 DEF Next, Step,
     Attach, Detach, Call, Finished

-----------------------------------------------------------------------------
\* The inductive invariant

\* The bridge starts in the invariant, attached or not.
LEMMA InvInit == Init => IInv
<1>. SUFFICES ASSUME Init PROVE IInv
  OBVIOUS
<1>. USE ConnectionAssumption DEF Init
<1>1. TypeOK
  BY DEF TypeOK, Client, NoClient, Null, IdOf, Frame, EmptyFrame, Steps,
     AttachSteps, DetachSteps, CallSteps, AllOps, Stages, Outcomes
<1>2. StageOK
  BY DEF StageOK, AttachSteps, DetachSteps
<1>3. LockHeldExactlyInside
  BY DEF LockHeldExactlyInside, Inside, AttachSteps, DetachSteps, Null
<1>4. NumberingOK /\ ClosedOnlyWhileDetaching
  BY DEF NumberingOK, ClosedOnlyWhileDetaching, Published, Publishing,
     NoClient
<1>5. RequestOK
  BY DEF RequestOK, HasRequest, Reattaching, EmptyFrame
<1>6. CallOK
  BY DEF CallOK, Answers, NeverRan
<1>. QED  BY <1>1, <1>2, <1>3, <1>4, <1>5, <1>6 DEF IInv

\* Each statement of any thread, and each event outside, preserves it.
LEMMA InvStep == IInv /\ [Next]_vars => IInv'
  BY TypeStep, LockStep, NumberingStep, RequestStep, CallStep DEF IInv

\* IInv is an invariant: everything below follows from it.
THEOREM Invariance == Spec => []IInv
  BY InvInit, InvStep, PTL DEF Spec

-----------------------------------------------------------------------------
\* What the invariant implies

\* Every variable keeps its type, whatever the interleaving.
THEOREM TypeCorrect == Spec => []TypeOK
<1>1. IInv => TypeOK
  BY DEF IInv
<1>. QED  BY <1>1, Invariance, PTL

\* ensure_connected() and the 401 branch of call() exclude each other, and
\* no path out of them, exceptions included, keeps the lock.
THEOREM LockDiscipline == Spec => []LockHeldExactlyInside
<1>1. IInv => LockHeldExactlyInside
  BY DEF IInv
<1>. QED  BY <1>1, Invariance, PTL

\* The client in use is always that of the latest attach.
THEOREM LatestClient == Spec => []ClientIsLatest
<1>1. IInv => ClientIsLatest
  BY DEF IInv, NumberingOK, Published, Publishing, ClientIsLatest
<1>. QED  BY <1>1, Invariance, PTL

\* detach() never leaves a closed client behind, even when it is run by
\* several threads at once and without the lock.
THEOREM NoClosedClientInUse == Spec => []ClosedOnlyWhileDetaching
<1>1. IInv => ClosedOnlyWhileDetaching
  BY DEF IInv
<1>. QED  BY <1>1, Invariance, PTL

\* The generation does its job: a 401 tears down the attach it was an answer
\* to and no later one.
THEOREM OneReattachPer401 == Spec => []TearsDownOnlyRefused
<1>1. IInv => TearsDownOnlyRefused
  <2>. SUFFICES ASSUME IInv, NEW t \in Threads,
                       pc[t] = "detClose", stage[t] = "reattach",
                       client # NoClient
                PROVE  client = frame[t].fn
    BY DEF TearsDownOnlyRefused
  <2>1. lock = t
    BY DEF IInv, LockHeldExactlyInside, Inside, DetachSteps
  <2>2. ~Publishing
    BY <2>1 DEF IInv, LockHeldExactlyInside, Inside, AttachSteps, Publishing
  <2>3. Reattaching(t) /\ HasRequest(t)
    BY DEF Reattaching, HasRequest
  <2>4. /\ frame[t].myGen = generation
        /\ frame[t].myGen <= frame[t].fn.n
        /\ frame[t].fn.n <= generation
        /\ client.n = frame[t].fn.n => client = frame[t].fn
    BY <2>2, <2>3 DEF IInv, RequestOK, Published
  <2>5. client.n = generation
    BY <2>2 DEF IInv, NumberingOK, Published
  <2>6. frame[t].fn.n \in Nat /\ generation \in Nat
    BY DEF IInv, TypeOK, Frame, Client
  <2>. QED  BY <2>4, <2>5, <2>6
<1>. QED  BY <1>1, Invariance, PTL

\* No request runs twice, and what the agent is told about it is true.
THEOREM TruthfulOutcomes == Spec => []OutcomeTruthful
<1>1. IInv => OutcomeTruthful
  BY DEF IInv, CallOK, OutcomeTruthful
<1>. QED  BY <1>1, Invariance, PTL

-----------------------------------------------------------------------------
\* Refinement: the connection implements the contract of a tool call

\* A statement inside an operation that runs no request is a stutter.
LEMMA InternalStutters ==
  ASSUME TypeOK, TypeOK', NEW t \in Threads,
         pc[t] # "idle", pc'[t] # "idle", UNCHANGED ran,
         \A s \in Threads \ {t} : pc'[s] = pc[s] /\ out'[s] = out[s]
  PROVE  UNCHANGED Contract!vars
  BY DEF TypeOK, Contract!vars

\* At the start no thread has a call in progress.
LEMMA ContractInit == Init => Contract!Init
  BY DEF Init, Contract!Init

\* The steps of a thread that run no request, one by one.
LEMMA InternalStep ==
  ASSUME IInv, IInv', NEW t \in Threads,
         \/ Attach(t) \/ Detach(t) \/ CheckFeature(t) \/ LoadId(t)
         \/ LoadGeneration(t) \/ LoadClient(t) \/ Send(t) \/ Refused(t)
         \/ Relock(t) \/ CompareId(t)
  PROVE  UNCHANGED Contract!vars
<1>1. pc[t] # "idle"
  BY DEF Attach, Ensure, EnsureLocked, ReadToken, InfoAccepted,
     InfoStaleToken, InfoFails, PublishClient, PublishMeta, PublishId,
     PublishGeneration, Detach, DetachCheck, DetachClose, DetachNull,
     DetachMeta, DetachId, CheckFeature, LoadId, LoadGeneration, LoadClient,
     Send, Refused, Relock, CompareId
<1>2. \E l : l # "idle" /\ pc' = [pc EXCEPT ![t] = l]
  BY DEF Goto, Finish, Connected, AttachFails, DetachReturns, Attach, Ensure,
     EnsureLocked, ReadToken, InfoAccepted, InfoStaleToken, InfoFails,
     PublishClient, PublishMeta, PublishId, PublishGeneration, Detach,
     DetachCheck, DetachClose, DetachNull, DetachMeta, DetachId, CheckFeature,
     LoadId, LoadGeneration, LoadClient, Send, Refused, Relock, CompareId
<1>3. out' = out \/ \E o : out' = [out EXCEPT ![t] = o]
  BY DEF Finish, Connected, AttachFails, DetachReturns, Attach, Ensure,
     EnsureLocked, ReadToken, InfoAccepted, InfoStaleToken, InfoFails,
     PublishClient, PublishMeta, PublishId, PublishGeneration, Detach,
     DetachCheck, DetachClose, DetachNull, DetachMeta, DetachId, CheckFeature,
     LoadId, LoadGeneration, LoadClient, Send, Refused, Relock, CompareId
<1>4. UNCHANGED ran
  BY DEF AttachFails, Attach, Ensure, EnsureLocked, ReadToken, InfoAccepted,
     InfoStaleToken, InfoFails, PublishClient, PublishMeta, PublishId,
     PublishGeneration, Detach, DetachCheck, DetachClose, DetachNull,
     DetachMeta, DetachId, CheckFeature, LoadId, LoadGeneration, LoadClient,
     Send, Refused, Relock, CompareId, history
<1>. QED  BY <1>1, <1>2, <1>3, <1>4, InternalStutters DEF IInv, TypeOK

\* Every step is a step of the contract or a stutter.
LEMMA ContractStep ==
  ASSUME IInv, IInv', [Next]_vars
  PROVE  [Contract!Next]_(Contract!vars)
<1>1. CASE Outside \/ Finished \/ UNCHANGED vars
  BY <1>1 DEF Outside, Crash, Boot, Rotate, WriteTokenFile, Finished, vars,
     threadVars, history, Contract!vars
<1>2. ASSUME NEW t \in Threads, NEW o \in Ops, Invoke(t, o)
      PROVE  Contract!Invoke(t)
  <2>1. /\ pc[t] = "idle"
        /\ \E l : l # "idle" /\ pc' = [pc EXCEPT ![t] = l]
        /\ ran' = [ran EXCEPT ![t] = 0]
        /\ out' = [out EXCEPT ![t] = "none"]
    BY <1>2 DEF Invoke, Goto
  <2>. QED  BY ZenonT(60), <2>1 DEF Contract!Invoke, IInv, TypeOK
<1>3. ASSUME NEW t \in Threads, Return(t)
      PROVE  Contract!Return(t)
  <2>1. /\ pc[t] = "ret" /\ pc' = [pc EXCEPT ![t] = "idle"]
        /\ UNCHANGED <<ran, out>>
    BY <1>3 DEF Return, Goto
  <2>2. out[t] \in Contract!Truthful(ran[t])
    BY <2>1 DEF IInv, CallOK
  <2>. QED  BY <2>1, <2>2 DEF Contract!Return, IInv, TypeOK
<1>4. ASSUME NEW t \in Threads, pc[t] = "wait", Runs(t),
             \E l : l # "idle" /\ pc' = [pc EXCEPT ![t] = l],
             out' = out \/ \E o : out' = [out EXCEPT ![t] = o]
      PROVE  Contract!Execute(t)
  <2>1. ran[t] = 0
    BY <1>4 DEF IInv, StageOK, CallOK
  <2>2. ran' = [ran EXCEPT ![t] = 1]
    BY <1>4, <2>1 DEF Runs, IInv, TypeOK
  <2>. QED  BY <1>4, <2>1, <2>2 DEF Contract!Execute, IInv, TypeOK
<1>5. ASSUME NEW t \in Threads, Answered(t)
      PROVE  Contract!Execute(t)
  BY <1>4, <1>5 DEF Answered, Finish, Goto
<1>6. ASSUME NEW t \in Threads, Lost(t)
      PROVE  Contract!Execute(t) \/ UNCHANGED Contract!vars
  <2>1. /\ pc[t] = "wait"
        /\ \E l : l # "idle" /\ pc' = [pc EXCEPT ![t] = l]
        /\ out' = out \/ \E o : out' = [out EXCEPT ![t] = o]
        /\ Runs(t) \/ UNCHANGED ran
    BY <1>6 DEF Lost, Finish, Goto, history
  <2>2. CASE Runs(t)
    BY <1>4, <2>1, <2>2
  <2>3. CASE UNCHANGED ran
    BY <2>1, <2>3, InternalStutters DEF IInv, TypeOK
  <2>. QED  BY <2>1, <2>2, <2>3
<1>. QED
  BY <1>1, <1>2, <1>3, <1>5, <1>6, InternalStep
     DEF Next, Step, Call, Contract!Next

\* Whatever the connection goes through, each operation is a tool call of
\* ToolCall: invoked, run at most once, and reported truthfully.
THEOREM Refinement == Spec => ImplementsToolCall
<1>1. IInv /\ IInv' /\ [Next]_vars => [Contract!Next]_(Contract!vars)
  BY ContractStep
<1>. QED
  BY <1>1, ContractInit, Invariance, PTL DEF Spec, ImplementsToolCall,
     Contract!Spec

-----------------------------------------------------------------------------
\* No two transitions at once

\* The bridge serves one tool call at a time.
OneCaller == \A s, t \in Threads : s = t

\* Every detach is run under _lock: no transport error and no bridge tool, the
\* two callers of detach() that do not take it.
LockedDetach == Faults \subseteq {"rotate"} /\ Ops \subseteq Calls

InTransit(t) == pc[t] \in AttachSteps \cup DetachSteps

\* Under either hypothesis at most one thread is changing the attach state.
Solo == \A s, t \in Threads : InTransit(s) /\ InTransit(t) => s = t

\* Without losses the engine stays up and only a 401 leads to detach().
NoLossOK ==
  LockedDetach =>
    engine.up /\ \A t \in Threads : stage[t] \notin {"loss", "manage"}

\* The attach state is whole: WholeWhenSettled of this very state.
Whole ==
  /\ client = NoClient <=> meta = Null
  /\ instId = IF meta = Null THEN Null ELSE IdOf(meta)

Detached == client = NoClient /\ meta = Null /\ instId = Null

\* How much of the attach state is published, or cleared, at each statement of
\* the thread in transit.
PartsOK ==
  /\ engine.inc >= 1 /\ meta <= engine.inc
  /\ (\A t \in Threads : ~InTransit(t)) => Whole
  /\ \A t \in Threads :
       /\ pc[t] \in {"pubClient", "pubMeta", "pubId"} =>
            frame[t].info \in 1 .. engine.inc
       /\ pc[t] \in {"token", "info", "pubClient"} => Detached
       /\ pc[t] = "pubMeta" => client # NoClient /\ meta = Null /\ instId = Null
       /\ pc[t] = "pubId" =>
            client # NoClient /\ meta = frame[t].info /\ instId = Null
       /\ pc[t] = "pubGen" => client # NoClient /\ Whole
       /\ pc[t] \in {"detCheck", "detClose", "detNull"} => Whole
       /\ pc[t] = "detClose" => client # NoClient
       /\ pc[t] \in {"detMeta", "detId"} => client = NoClient
       /\ pc[t] = "detId" => meta = Null

-----------------------------------------------------------------------------
\* One caller

\* The call has read the identity and still needs it.
Remembers(t) ==
  \/ pc[t] \in {"loadGen", "loadFn", "send", "wait", "relock", "newId"}
  \/ stage[t] = "reattach" /\ InTransit(t)

\* With one caller nothing comes between the statements of call(): the client
\* tested is there, the generation read is current, and the identity read is
\* that of an engine there has been.
CallerOK ==
  \A t \in Threads :
    /\ pc[t] \in {"loadId", "loadGen", "loadFn", "newId"} => client # NoClient
    /\ pc[t] \in {"loadFn", "send", "wait", "relock"} /\ stage[t] # "replay" =>
         frame[t].myGen = generation
    /\ Remembers(t) =>
         \E k \in 1 .. engine.inc : frame[t].oldId = IdOf(k)
    /\ out[t] = "restarted" => engine.inc > 1

\* A token is that of one engine: what it is accepted by is what it was read
\* for.
TokenOK ==
  /\ cfgToken <= engine.token /\ fileToken <= engine.token
  /\ client.token <= engine.token
  /\ client.token = engine.token /\ client # NoClient /\ meta # Null =>
       meta = engine.inc
  /\ \A t \in Threads :
       /\ frame[t].token <= engine.token /\ frame[t].fn.token <= engine.token
       /\ pc[t] = "pubClient" /\ frame[t].token = engine.token =>
            frame[t].info = engine.inc
       /\ pc[t] = "pubMeta" /\ client.token = engine.token =>
            frame[t].info = engine.inc

\* The replay goes out on the client whose engine has the identity compared.
ReplayOK ==
  \A t \in Threads : stage[t] = "replay" =>
    /\ pc[t] = "loadFn" => instId = frame[t].oldId
    /\ pc[t] \in {"send", "wait"} /\ frame[t].fn.token = engine.token =>
         IdOf(engine.inc) = frame[t].oldId
    /\ pc[t] = "ret" /\ ran[t] = 1 => IdOf(ranOn[t]) = frame[t].oldId

-----------------------------------------------------------------------------
\* One new token

\* The bridge is attached, and the token of its engine changes at most once.
OneRotation == LockedDetach /\ MaxToken <= 2 /\ StartAttached

First == [n |-> 1, token |-> 1]

\* The first client has been refused: the engine has its last token.
Late == engine.token = 2 /\ 1 \notin Open

\* The first client is used until it is refused; the next has the last token,
\* which nothing refuses, and is used for ever.
ClientOK ==
  /\ engine.inc = 1 /\ engine.token \in {1, 2} /\ generation >= 1
  /\ client # NoClient =>
       client = First \/ (client.n >= 2 /\ client.token = 2 /\ Late)
  /\ client = NoClient => Late
  /\ (\E t \in Threads : InTransit(t)) => Late /\ generation = 1
  /\ generation >= 2 => client # NoClient /\ client # First
  /\ \A t \in Threads :
       /\ pc[t] = "pubClient" => frame[t].token = 2
       /\ pc[t] \in {"pubMeta", "pubId", "pubGen"} => client # First

\* A call that read another identity than the engine's did so after the first
\* client was gone: it is sent on the next, and answered.
IdentityOK ==
  \A t \in Threads :
    /\ pc[t] \in {"loadFn", "send", "wait", "relock"} /\ stage[t] # "replay" =>
         frame[t].myGen >= 1
    /\ pc[t] \in {"loadGen", "loadFn"} /\ stage[t] # "replay" =>
         frame[t].oldId = IdOf(1) \/ client # First
    /\ pc[t] \in {"send", "wait"} =>
         frame[t].fn = First \/ (frame[t].fn.token = 2 /\ Late)
    /\ pc[t] \in {"send", "wait"} /\ stage[t] # "replay" =>
         frame[t].oldId = IdOf(1) \/ frame[t].fn # First
    /\ pc[t] = "relock" \/ Reattaching(t) => frame[t].fn = First /\ Late
    /\ pc[t] \in {"relock", "newId"} \/ stage[t] = "reattach" =>
         frame[t].oldId = IdOf(1)
    /\ pc[t] = "newId" => client # NoClient
    /\ out[t] # "restarted"

-----------------------------------------------------------------------------
\* Every step preserves them

\* With the lock held for every detach, or one caller, no two transitions meet.
LEMMA SoloHolds ==
  ASSUME OneCaller \/ LockedDetach, TypeOK, StageOK, LockHeldExactlyInside,
         NoLossOK
  PROVE  Solo
<1>. SUFFICES ASSUME NEW s \in Threads, NEW t \in Threads,
                     InTransit(s), InTransit(t)
              PROVE  s = t
  BY DEF Solo
<1>1. CASE OneCaller
  BY <1>1 DEF OneCaller
<1>2. CASE LockedDetach
  <2>1. ASSUME NEW u \in Threads, InTransit(u) PROVE lock = u
    BY <1>2, <2>1 DEF InTransit, NoLossOK, StageOK, LockHeldExactlyInside,
       Inside
  <2>. QED  BY <2>1
<1>. QED  BY <1>1, <1>2

\* Without losses and bridge tools the engine stays up and no thread detaches
\* on its own account.
LEMMA NoLossStep ==
  ASSUME TypeOK, StageOK, NoLossOK, [Next]_vars
  PROVE  NoLossOK'
<1>. USE ConnectionAssumption DEF Goto, Steps, AttachSteps, DetachSteps,
   CallSteps, Null
<1>1. ASSUME Outside PROVE NoLossOK'
  BY <1>1 DEF Outside, Crash, Boot, Rotate, WriteTokenFile, connVars,
     outside, history, threadVars, TypeOK, Client, NoClient, Frame,
     EmptyFrame, NoLossOK, LockedDetach, StageOK, Stages, Calls, AllOps,
     AllFaults
<1>2. ASSUME NEW t \in Threads, NEW o \in Ops, Invoke(t, o) PROVE NoLossOK'
  BY <1>2 DEF Invoke, connVars, outside, history, threadVars, TypeOK, Client,
     NoClient, Frame, EmptyFrame, NoLossOK, LockedDetach, StageOK, Stages,
     Calls, AllOps, AllFaults
<1>3. ASSUME NEW t \in Threads, Return(t) PROVE NoLossOK'
  BY <1>3 DEF Return, connVars, outside, history, threadVars, TypeOK, Client,
     NoClient, Frame, EmptyFrame, NoLossOK, LockedDetach, StageOK, Stages,
     Calls, AllOps, AllFaults
<1>4. ASSUME NEW t \in Threads, Ensure(t) PROVE NoLossOK'
  BY <1>4 DEF Ensure, Connected, Finish, connVars, outside, history,
     threadVars, TypeOK, Client, NoClient, Frame, EmptyFrame, NoLossOK,
     LockedDetach, StageOK, Stages, Calls, AllOps, AllFaults
<1>5. ASSUME NEW t \in Threads, EnsureLocked(t) PROVE NoLossOK'
  BY <1>5 DEF EnsureLocked, Connected, Finish, connVars, outside, history,
     threadVars, TypeOK, Client, NoClient, Frame, EmptyFrame, NoLossOK,
     LockedDetach, StageOK, Stages, Calls, AllOps, AllFaults
<1>6. ASSUME NEW t \in Threads, ReadToken(t) PROVE NoLossOK'
  BY <1>6 DEF ReadToken, AttachFails, Finish, Release, LeaveAttach,
     LookedUpToken, connVars, outside, history, threadVars, TypeOK, Client,
     NoClient, Frame, EmptyFrame, NoLossOK, LockedDetach, StageOK, Stages,
     Calls, AllOps, AllFaults
<1>7. ASSUME NEW t \in Threads, InfoAccepted(t) PROVE NoLossOK'
  BY <1>7 DEF InfoAccepted, Accepts, connVars, outside, history, threadVars,
     TypeOK, Client, NoClient, Frame, EmptyFrame, NoLossOK, LockedDetach,
     StageOK, Stages, Calls, AllOps, AllFaults
<1>8. ASSUME NEW t \in Threads, InfoStaleToken(t) PROVE NoLossOK'
  BY <1>8 DEF InfoStaleToken, Accepts, connVars, outside, history,
     threadVars, TypeOK, Client, NoClient, Frame, EmptyFrame, NoLossOK,
     LockedDetach, StageOK, Stages, Calls, AllOps, AllFaults
<1>9. ASSUME NEW t \in Threads, InfoFails(t) PROVE NoLossOK'
  BY <1>9 DEF InfoFails, AttachFails, Finish, Release, LeaveAttach, Accepts,
     connVars, outside, history, threadVars, TypeOK, Client, NoClient, Frame,
     EmptyFrame, NoLossOK, LockedDetach, StageOK, Stages, Calls, AllOps,
     AllFaults
<1>10. ASSUME NEW t \in Threads, PublishClient(t) PROVE NoLossOK'
  BY <1>10 DEF PublishClient, connVars, outside, history, threadVars, TypeOK,
     Client, NoClient, Frame, EmptyFrame, NoLossOK, LockedDetach, StageOK,
     Stages, Calls, AllOps, AllFaults
<1>11. ASSUME NEW t \in Threads, PublishMeta(t) PROVE NoLossOK'
  BY <1>11 DEF PublishMeta, connVars, outside, history, threadVars, TypeOK,
     Client, NoClient, Frame, EmptyFrame, NoLossOK, LockedDetach, StageOK,
     Stages, Calls, AllOps, AllFaults
<1>12. ASSUME NEW t \in Threads, PublishId(t) PROVE NoLossOK'
  BY <1>12 DEF PublishId, connVars, outside, history, threadVars, TypeOK,
     Client, NoClient, Frame, EmptyFrame, NoLossOK, LockedDetach, StageOK,
     Stages, Calls, AllOps, AllFaults
<1>13. ASSUME NEW t \in Threads, PublishGeneration(t) PROVE NoLossOK'
  BY <1>13 DEF PublishGeneration, Connected, Finish, Release, LeaveAttach,
     connVars, outside, history, threadVars, TypeOK, Client, NoClient, Frame,
     EmptyFrame, NoLossOK, LockedDetach, StageOK, Stages, Calls, AllOps,
     AllFaults
<1>14. ASSUME NEW t \in Threads, DetachCheck(t) PROVE NoLossOK'
  BY <1>14 DEF DetachCheck, connVars, outside, history, threadVars, TypeOK,
     Client, NoClient, Frame, EmptyFrame, NoLossOK, LockedDetach, StageOK,
     Stages, Calls, AllOps, AllFaults
<1>15. ASSUME NEW t \in Threads, DetachClose(t) PROVE NoLossOK'
  BY <1>15 DEF DetachClose, Finish, Release, connVars, outside, history,
     threadVars, TypeOK, Client, NoClient, Frame, EmptyFrame, NoLossOK,
     LockedDetach, StageOK, Stages, Calls, AllOps, AllFaults
<1>16. ASSUME NEW t \in Threads, DetachNull(t) PROVE NoLossOK'
  BY <1>16 DEF DetachNull, connVars, outside, history, threadVars, TypeOK,
     Client, NoClient, Frame, EmptyFrame, NoLossOK, LockedDetach, StageOK,
     Stages, Calls, AllOps, AllFaults
<1>17. ASSUME NEW t \in Threads, DetachMeta(t) PROVE NoLossOK'
  BY <1>17 DEF DetachMeta, connVars, outside, history, threadVars, TypeOK,
     Client, NoClient, Frame, EmptyFrame, NoLossOK, LockedDetach, StageOK,
     Stages, Calls, AllOps, AllFaults
<1>18. ASSUME NEW t \in Threads, DetachId(t) PROVE NoLossOK'
  BY <1>18 DEF DetachId, DetachReturns, Finish, connVars, outside, history,
     threadVars, TypeOK, Client, NoClient, Frame, EmptyFrame, NoLossOK,
     LockedDetach, StageOK, Stages, Calls, AllOps, AllFaults
<1>19. ASSUME NEW t \in Threads, CheckFeature(t) PROVE NoLossOK'
  BY <1>19 DEF CheckFeature, Finish, connVars, outside, history, threadVars,
     TypeOK, Client, NoClient, Frame, EmptyFrame, NoLossOK, LockedDetach,
     StageOK, Stages, Calls, AllOps, AllFaults
<1>20. ASSUME NEW t \in Threads, LoadId(t) PROVE NoLossOK'
  BY <1>20 DEF LoadId, connVars, outside, history, threadVars, TypeOK,
     Client, NoClient, Frame, EmptyFrame, NoLossOK, LockedDetach, StageOK,
     Stages, Calls, AllOps, AllFaults
<1>21. ASSUME NEW t \in Threads, LoadGeneration(t) PROVE NoLossOK'
  BY <1>21 DEF LoadGeneration, connVars, outside, history, threadVars,
     TypeOK, Client, NoClient, Frame, EmptyFrame, NoLossOK, LockedDetach,
     StageOK, Stages, Calls, AllOps, AllFaults
<1>22. ASSUME NEW t \in Threads, LoadClient(t) PROVE NoLossOK'
  BY <1>22 DEF LoadClient, Finish, connVars, outside, history, threadVars,
     TypeOK, Client, NoClient, Frame, EmptyFrame, NoLossOK, LockedDetach,
     StageOK, Stages, Calls, AllOps, AllFaults
<1>23. ASSUME NEW t \in Threads, Send(t) PROVE NoLossOK'
  BY <1>23 DEF Send, Finish, connVars, outside, history, threadVars, TypeOK,
     Client, NoClient, Frame, EmptyFrame, NoLossOK, LockedDetach, StageOK,
     Stages, Calls, AllOps, AllFaults
<1>24. ASSUME NEW t \in Threads, Answered(t) PROVE NoLossOK'
  BY <1>24 DEF Answered, Runs, Accepts, Finish, connVars, outside, history,
     threadVars, TypeOK, Client, NoClient, Frame, EmptyFrame, NoLossOK,
     LockedDetach, StageOK, Stages, Calls, AllOps, AllFaults
<1>25. ASSUME NEW t \in Threads, Refused(t) PROVE NoLossOK'
  BY <1>25 DEF Refused, Accepts, Finish, connVars, outside, history,
     threadVars, TypeOK, Client, NoClient, Frame, EmptyFrame, NoLossOK,
     LockedDetach, StageOK, Stages, Calls, AllOps, AllFaults
<1>26. ASSUME NEW t \in Threads, Lost(t) PROVE NoLossOK'
  BY <1>26 DEF Lost, Runs, Accepts, Finish, connVars, outside, history,
     threadVars, TypeOK, Client, NoClient, Frame, EmptyFrame, NoLossOK,
     LockedDetach, StageOK, Stages, Calls, AllOps, AllFaults
<1>27. ASSUME NEW t \in Threads, Relock(t) PROVE NoLossOK'
  BY <1>27 DEF Relock, connVars, outside, history, threadVars, TypeOK,
     Client, NoClient, Frame, EmptyFrame, NoLossOK, LockedDetach, StageOK,
     Stages, Calls, AllOps, AllFaults
<1>28. ASSUME NEW t \in Threads, CompareId(t) PROVE NoLossOK'
  BY <1>28 DEF CompareId, Finish, connVars, outside, history, threadVars,
     TypeOK, Client, NoClient, Frame, EmptyFrame, NoLossOK, LockedDetach,
     StageOK, Stages, Calls, AllOps, AllFaults
<1>29. CASE UNCHANGED vars
  BY <1>29 DEF vars, connVars, outside, history, threadVars, TypeOK, Client,
     NoClient, Frame, EmptyFrame, NoLossOK, LockedDetach, StageOK, Stages,
     Calls, AllOps, AllFaults
<1>. QED
  BY <1>1, <1>2, <1>3, <1>4, <1>5, <1>6, <1>7, <1>8, <1>9, <1>10, <1>11,
     <1>12, <1>13, <1>14, <1>15, <1>16, <1>17, <1>18, <1>19, <1>20, <1>21,
     <1>22, <1>23, <1>24, <1>25, <1>26, <1>27, <1>28, <1>29 DEF Next, Step,
     Attach, Detach, Call, Finished

\* Each transition takes the attach state from whole to whole, one part after
\* the other.
LEMMA PartsStep ==
  ASSUME TypeOK, StageOK, NoLossOK, OneCaller \/ LockedDetach,
     LockHeldExactlyInside, Solo, Solo', PartsOK, [Next]_vars
  PROVE  PartsOK'
<1>. USE ConnectionAssumption DEF Goto, Steps, AttachSteps, DetachSteps,
   CallSteps, Null
<1>1. ASSUME Outside PROVE PartsOK'
  BY SMTT(30), <1>1 DEF Outside, Crash, Boot, Rotate, WriteTokenFile, connVars,
     outside, history, threadVars, TypeOK, Client, NoClient, Frame,
     EmptyFrame, StageOK, PartsOK, Solo, InTransit, Whole, Detached, IdOf
<1>2. ASSUME NEW t \in Threads, NEW o \in Ops, Invoke(t, o) PROVE PartsOK'
  BY SMTT(30), <1>2 DEF Invoke, connVars, outside, history, threadVars,
     TypeOK, Client, NoClient, Frame, EmptyFrame, StageOK, PartsOK, Solo,
     InTransit, Whole, Detached, IdOf
<1>3. ASSUME NEW t \in Threads, Return(t) PROVE PartsOK'
  BY <1>3 DEF Return, connVars, outside, history, threadVars, TypeOK, Client,
     NoClient, Frame, EmptyFrame, StageOK, PartsOK, Solo, InTransit, Whole,
     Detached, IdOf
<1>4. ASSUME NEW t \in Threads, Ensure(t) PROVE PartsOK'
  BY <1>4 DEF Ensure, Connected, Finish, connVars, outside, history,
     threadVars, TypeOK, Client, NoClient, Frame, EmptyFrame, StageOK,
     PartsOK, Solo, InTransit, Whole, Detached, IdOf
<1>5. ASSUME NEW t \in Threads, EnsureLocked(t) PROVE PartsOK'
  BY <1>5 DEF EnsureLocked, Connected, Finish, connVars, outside, history,
     threadVars, TypeOK, Client, NoClient, Frame, EmptyFrame, StageOK,
     PartsOK, Solo, InTransit, Whole, Detached, IdOf
<1>6. ASSUME NEW t \in Threads, ReadToken(t) PROVE PartsOK'
  BY <1>6 DEF ReadToken, AttachFails, Finish, Release, LeaveAttach,
     LookedUpToken, connVars, outside, history, threadVars, TypeOK, Client,
     NoClient, Frame, EmptyFrame, StageOK, PartsOK, Solo, InTransit, Whole,
     Detached, IdOf
<1>7. ASSUME NEW t \in Threads, InfoAccepted(t) PROVE PartsOK'
  BY <1>7 DEF InfoAccepted, Accepts, connVars, outside, history, threadVars,
     TypeOK, Client, NoClient, Frame, EmptyFrame, StageOK, PartsOK, Solo,
     InTransit, Whole, Detached, IdOf
<1>8. ASSUME NEW t \in Threads, InfoStaleToken(t) PROVE PartsOK'
  BY <1>8 DEF InfoStaleToken, Accepts, connVars, outside, history,
     threadVars, TypeOK, Client, NoClient, Frame, EmptyFrame, StageOK,
     PartsOK, Solo, InTransit, Whole, Detached, IdOf
<1>9. ASSUME NEW t \in Threads, InfoFails(t) PROVE PartsOK'
  BY <1>9 DEF InfoFails, AttachFails, Finish, Release, LeaveAttach, Accepts,
     connVars, outside, history, threadVars, TypeOK, Client, NoClient, Frame,
     EmptyFrame, StageOK, PartsOK, Solo, InTransit, Whole, Detached, IdOf
<1>10. ASSUME NEW t \in Threads, PublishClient(t) PROVE PartsOK'
  BY <1>10 DEF PublishClient, connVars, outside, history, threadVars, TypeOK,
     Client, NoClient, Frame, EmptyFrame, StageOK, PartsOK, Solo, InTransit,
     Whole, Detached, IdOf
<1>11. ASSUME NEW t \in Threads, PublishMeta(t) PROVE PartsOK'
  BY <1>11 DEF PublishMeta, connVars, outside, history, threadVars, TypeOK,
     Client, NoClient, Frame, EmptyFrame, StageOK, PartsOK, Solo, InTransit,
     Whole, Detached, IdOf
<1>12. ASSUME NEW t \in Threads, PublishId(t) PROVE PartsOK'
  BY <1>12 DEF PublishId, connVars, outside, history, threadVars, TypeOK,
     Client, NoClient, Frame, EmptyFrame, StageOK, PartsOK, Solo, InTransit,
     Whole, Detached, IdOf
<1>13. ASSUME NEW t \in Threads, PublishGeneration(t) PROVE PartsOK'
  BY <1>13 DEF PublishGeneration, Connected, Finish, Release, LeaveAttach,
     connVars, outside, history, threadVars, TypeOK, Client, NoClient, Frame,
     EmptyFrame, StageOK, PartsOK, Solo, InTransit, Whole, Detached, IdOf
<1>14. ASSUME NEW t \in Threads, DetachCheck(t) PROVE PartsOK'
  BY <1>14 DEF DetachCheck, connVars, outside, history, threadVars, TypeOK,
     Client, NoClient, Frame, EmptyFrame, StageOK, PartsOK, Solo, InTransit,
     Whole, Detached, IdOf
<1>15. ASSUME NEW t \in Threads, DetachClose(t) PROVE PartsOK'
  BY <1>15 DEF DetachClose, Finish, Release, connVars, outside, history,
     threadVars, TypeOK, Client, NoClient, Frame, EmptyFrame, StageOK,
     PartsOK, Solo, InTransit, Whole, Detached, IdOf
<1>16. ASSUME NEW t \in Threads, DetachNull(t) PROVE PartsOK'
  BY <1>16 DEF DetachNull, connVars, outside, history, threadVars, TypeOK,
     Client, NoClient, Frame, EmptyFrame, StageOK, PartsOK, Solo, InTransit,
     Whole, Detached, IdOf
<1>17. ASSUME NEW t \in Threads, DetachMeta(t) PROVE PartsOK'
  BY <1>17 DEF DetachMeta, connVars, outside, history, threadVars, TypeOK,
     Client, NoClient, Frame, EmptyFrame, StageOK, PartsOK, Solo, InTransit,
     Whole, Detached, IdOf
<1>18. ASSUME NEW t \in Threads, DetachId(t) PROVE PartsOK'
  BY <1>18 DEF DetachId, DetachReturns, Finish, connVars, outside, history,
     threadVars, TypeOK, Client, NoClient, Frame, EmptyFrame, StageOK,
     PartsOK, Solo, InTransit, Whole, Detached, IdOf
<1>19. ASSUME NEW t \in Threads, CheckFeature(t) PROVE PartsOK'
  BY <1>19 DEF CheckFeature, Finish, connVars, outside, history, threadVars,
     TypeOK, Client, NoClient, Frame, EmptyFrame, StageOK, PartsOK, Solo,
     InTransit, Whole, Detached, IdOf
<1>20. ASSUME NEW t \in Threads, LoadId(t) PROVE PartsOK'
  BY <1>20 DEF LoadId, connVars, outside, history, threadVars, TypeOK,
     Client, NoClient, Frame, EmptyFrame, StageOK, PartsOK, Solo, InTransit,
     Whole, Detached, IdOf
<1>21. ASSUME NEW t \in Threads, LoadGeneration(t) PROVE PartsOK'
  BY <1>21 DEF LoadGeneration, connVars, outside, history, threadVars,
     TypeOK, Client, NoClient, Frame, EmptyFrame, StageOK, PartsOK, Solo,
     InTransit, Whole, Detached, IdOf
<1>22. ASSUME NEW t \in Threads, LoadClient(t) PROVE PartsOK'
  BY <1>22 DEF LoadClient, Finish, connVars, outside, history, threadVars,
     TypeOK, Client, NoClient, Frame, EmptyFrame, StageOK, PartsOK, Solo,
     InTransit, Whole, Detached, IdOf
<1>23. ASSUME NEW t \in Threads, Send(t) PROVE PartsOK'
  BY <1>23 DEF Send, Finish, connVars, outside, history, threadVars, TypeOK,
     Client, NoClient, Frame, EmptyFrame, StageOK, PartsOK, Solo, InTransit,
     Whole, Detached, IdOf
<1>24. ASSUME NEW t \in Threads, Answered(t) PROVE PartsOK'
  BY <1>24 DEF Answered, Runs, Accepts, Finish, connVars, outside, history,
     threadVars, TypeOK, Client, NoClient, Frame, EmptyFrame, StageOK,
     PartsOK, Solo, InTransit, Whole, Detached, IdOf
<1>25. ASSUME NEW t \in Threads, Refused(t) PROVE PartsOK'
  BY <1>25 DEF Refused, Accepts, Finish, connVars, outside, history,
     threadVars, TypeOK, Client, NoClient, Frame, EmptyFrame, StageOK,
     PartsOK, Solo, InTransit, Whole, Detached, IdOf
<1>26. ASSUME NEW t \in Threads, Lost(t) PROVE PartsOK'
  <2>1. /\ UNCHANGED <<client, meta, instId, engine, frame>>
        /\ \/ pc' = [pc EXCEPT ![t] = "detCheck"]
           \/ pc' = [pc EXCEPT ![t] = "ret"]
        /\ pc[t] = "wait"
    BY <1>26 DEF Lost, Finish, connVars, outside
  <2>. QED
    BY <2>1 DEF TypeOK, PartsOK, Solo, InTransit, Whole, Detached, IdOf
<1>27. ASSUME NEW t \in Threads, Relock(t) PROVE PartsOK'
  BY <1>27 DEF Relock, connVars, outside, history, threadVars, TypeOK,
     Client, NoClient, Frame, EmptyFrame, StageOK, PartsOK, Solo, InTransit,
     Whole, Detached, IdOf
<1>28. ASSUME NEW t \in Threads, CompareId(t) PROVE PartsOK'
  BY <1>28 DEF CompareId, Finish, connVars, outside, history, threadVars,
     TypeOK, Client, NoClient, Frame, EmptyFrame, StageOK, PartsOK, Solo,
     InTransit, Whole, Detached, IdOf
<1>29. CASE UNCHANGED vars
  BY <1>29 DEF vars, connVars, outside, history, threadVars, TypeOK, Client,
     NoClient, Frame, EmptyFrame, StageOK, PartsOK, Solo, InTransit, Whole,
     Detached, IdOf
<1>. QED
  BY <1>1, <1>2, <1>3, <1>4, <1>5, <1>6, <1>7, <1>8, <1>9, <1>10, <1>11,
     <1>12, <1>13, <1>14, <1>15, <1>16, <1>17, <1>18, <1>19, <1>20, <1>21,
     <1>22, <1>23, <1>24, <1>25, <1>26, <1>27, <1>28, <1>29 DEF Next, Step,
     Attach, Detach, Call, Finished

\* With one caller the statements of call() work on one attach, and two
\* identities that differ are those of two engines.
LEMMA CallerStep ==
  ASSUME OneCaller, TypeOK, StageOK, PartsOK, CallerOK, [Next]_vars
  PROVE  CallerOK'
<1>. USE ConnectionAssumption DEF Goto, Steps, AttachSteps, DetachSteps,
   CallSteps, Null
<1>1. ASSUME Outside PROVE CallerOK'
  BY <1>1 DEF Outside, Crash, Boot, Rotate, WriteTokenFile, connVars,
     outside, history, threadVars, TypeOK, Client, NoClient, Frame,
     EmptyFrame, StageOK, PartsOK, OneCaller, InTransit, Whole, IdOf,
     CallerOK, Remembers
<1>2. ASSUME NEW t \in Threads, NEW o \in Ops, Invoke(t, o) PROVE CallerOK'
  BY <1>2 DEF Invoke, connVars, outside, history, threadVars, TypeOK, Client,
     NoClient, Frame, EmptyFrame, StageOK, PartsOK, OneCaller, InTransit,
     Whole, IdOf, CallerOK, Remembers
<1>3. ASSUME NEW t \in Threads, Return(t) PROVE CallerOK'
  BY <1>3 DEF Return, connVars, outside, history, threadVars, TypeOK, Client,
     NoClient, Frame, EmptyFrame, StageOK, PartsOK, OneCaller, InTransit,
     Whole, IdOf, CallerOK, Remembers
<1>4. ASSUME NEW t \in Threads, Ensure(t) PROVE CallerOK'
  BY <1>4 DEF Ensure, Connected, Finish, connVars, outside, history,
     threadVars, TypeOK, Client, NoClient, Frame, EmptyFrame, StageOK,
     PartsOK, OneCaller, InTransit, Whole, IdOf, CallerOK, Remembers
<1>5. ASSUME NEW t \in Threads, EnsureLocked(t) PROVE CallerOK'
  BY <1>5 DEF EnsureLocked, Connected, Finish, connVars, outside, history,
     threadVars, TypeOK, Client, NoClient, Frame, EmptyFrame, StageOK,
     PartsOK, OneCaller, InTransit, Whole, IdOf, CallerOK, Remembers
<1>6. ASSUME NEW t \in Threads, ReadToken(t) PROVE CallerOK'
  BY <1>6 DEF ReadToken, AttachFails, Finish, Release, LeaveAttach,
     LookedUpToken, connVars, outside, history, threadVars, TypeOK, Client,
     NoClient, Frame, EmptyFrame, StageOK, PartsOK, OneCaller, InTransit,
     Whole, IdOf, CallerOK, Remembers
<1>7. ASSUME NEW t \in Threads, InfoAccepted(t) PROVE CallerOK'
  BY <1>7 DEF InfoAccepted, Accepts, connVars, outside, history, threadVars,
     TypeOK, Client, NoClient, Frame, EmptyFrame, StageOK, PartsOK,
     OneCaller, InTransit, Whole, IdOf, CallerOK, Remembers
<1>8. ASSUME NEW t \in Threads, InfoStaleToken(t) PROVE CallerOK'
  BY <1>8 DEF InfoStaleToken, Accepts, connVars, outside, history,
     threadVars, TypeOK, Client, NoClient, Frame, EmptyFrame, StageOK,
     PartsOK, OneCaller, InTransit, Whole, IdOf, CallerOK, Remembers
<1>9. ASSUME NEW t \in Threads, InfoFails(t) PROVE CallerOK'
  BY <1>9 DEF InfoFails, AttachFails, Finish, Release, LeaveAttach, Accepts,
     connVars, outside, history, threadVars, TypeOK, Client, NoClient, Frame,
     EmptyFrame, StageOK, PartsOK, OneCaller, InTransit, Whole, IdOf,
     CallerOK, Remembers
<1>10. ASSUME NEW t \in Threads, PublishClient(t) PROVE CallerOK'
  BY <1>10 DEF PublishClient, connVars, outside, history, threadVars, TypeOK,
     Client, NoClient, Frame, EmptyFrame, StageOK, PartsOK, OneCaller,
     InTransit, Whole, IdOf, CallerOK, Remembers
<1>11. ASSUME NEW t \in Threads, PublishMeta(t) PROVE CallerOK'
  BY <1>11 DEF PublishMeta, connVars, outside, history, threadVars, TypeOK,
     Client, NoClient, Frame, EmptyFrame, StageOK, PartsOK, OneCaller,
     InTransit, Whole, IdOf, CallerOK, Remembers
<1>12. ASSUME NEW t \in Threads, PublishId(t) PROVE CallerOK'
  BY <1>12 DEF PublishId, connVars, outside, history, threadVars, TypeOK,
     Client, NoClient, Frame, EmptyFrame, StageOK, PartsOK, OneCaller,
     InTransit, Whole, IdOf, CallerOK, Remembers
<1>13. ASSUME NEW t \in Threads, PublishGeneration(t) PROVE CallerOK'
  BY <1>13 DEF PublishGeneration, Connected, Finish, Release, LeaveAttach,
     connVars, outside, history, threadVars, TypeOK, Client, NoClient, Frame,
     EmptyFrame, StageOK, PartsOK, OneCaller, InTransit, Whole, IdOf,
     CallerOK, Remembers
<1>14. ASSUME NEW t \in Threads, DetachCheck(t) PROVE CallerOK'
  BY <1>14 DEF DetachCheck, connVars, outside, history, threadVars, TypeOK,
     Client, NoClient, Frame, EmptyFrame, StageOK, PartsOK, OneCaller,
     InTransit, Whole, IdOf, CallerOK, Remembers
<1>15. ASSUME NEW t \in Threads, DetachClose(t) PROVE CallerOK'
  BY <1>15 DEF DetachClose, Finish, Release, connVars, outside, history,
     threadVars, TypeOK, Client, NoClient, Frame, EmptyFrame, StageOK,
     PartsOK, OneCaller, InTransit, Whole, IdOf, CallerOK, Remembers
<1>16. ASSUME NEW t \in Threads, DetachNull(t) PROVE CallerOK'
  BY <1>16 DEF DetachNull, connVars, outside, history, threadVars, TypeOK,
     Client, NoClient, Frame, EmptyFrame, StageOK, PartsOK, OneCaller,
     InTransit, Whole, IdOf, CallerOK, Remembers
<1>17. ASSUME NEW t \in Threads, DetachMeta(t) PROVE CallerOK'
  BY <1>17 DEF DetachMeta, connVars, outside, history, threadVars, TypeOK,
     Client, NoClient, Frame, EmptyFrame, StageOK, PartsOK, OneCaller,
     InTransit, Whole, IdOf, CallerOK, Remembers
<1>18. ASSUME NEW t \in Threads, DetachId(t) PROVE CallerOK'
  BY <1>18 DEF DetachId, DetachReturns, Finish, connVars, outside, history,
     threadVars, TypeOK, Client, NoClient, Frame, EmptyFrame, StageOK,
     PartsOK, OneCaller, InTransit, Whole, IdOf, CallerOK, Remembers
<1>19. ASSUME NEW t \in Threads, CheckFeature(t) PROVE CallerOK'
  BY <1>19 DEF CheckFeature, Finish, connVars, outside, history, threadVars,
     TypeOK, Client, NoClient, Frame, EmptyFrame, StageOK, PartsOK,
     OneCaller, InTransit, Whole, IdOf, CallerOK, Remembers
<1>20. ASSUME NEW t \in Threads, LoadId(t) PROVE CallerOK'
  BY <1>20 DEF LoadId, connVars, outside, history, threadVars, TypeOK,
     Client, NoClient, Frame, EmptyFrame, StageOK, PartsOK, OneCaller,
     InTransit, Whole, IdOf, CallerOK, Remembers
<1>21. ASSUME NEW t \in Threads, LoadGeneration(t) PROVE CallerOK'
  BY <1>21 DEF LoadGeneration, connVars, outside, history, threadVars,
     TypeOK, Client, NoClient, Frame, EmptyFrame, StageOK, PartsOK,
     OneCaller, InTransit, Whole, IdOf, CallerOK, Remembers
<1>22. ASSUME NEW t \in Threads, LoadClient(t) PROVE CallerOK'
  BY <1>22 DEF LoadClient, Finish, connVars, outside, history, threadVars,
     TypeOK, Client, NoClient, Frame, EmptyFrame, StageOK, PartsOK,
     OneCaller, InTransit, Whole, IdOf, CallerOK, Remembers
<1>23. ASSUME NEW t \in Threads, Send(t) PROVE CallerOK'
  BY <1>23 DEF Send, Finish, connVars, outside, history, threadVars, TypeOK,
     Client, NoClient, Frame, EmptyFrame, StageOK, PartsOK, OneCaller,
     InTransit, Whole, IdOf, CallerOK, Remembers
<1>24. ASSUME NEW t \in Threads, Answered(t) PROVE CallerOK'
  BY <1>24 DEF Answered, Runs, Accepts, Finish, connVars, outside, history,
     threadVars, TypeOK, Client, NoClient, Frame, EmptyFrame, StageOK,
     PartsOK, OneCaller, InTransit, Whole, IdOf, CallerOK, Remembers
<1>25. ASSUME NEW t \in Threads, Refused(t) PROVE CallerOK'
  BY <1>25 DEF Refused, Accepts, Finish, connVars, outside, history,
     threadVars, TypeOK, Client, NoClient, Frame, EmptyFrame, StageOK,
     PartsOK, OneCaller, InTransit, Whole, IdOf, CallerOK, Remembers
<1>26. ASSUME NEW t \in Threads, Lost(t) PROVE CallerOK'
  BY <1>26 DEF Lost, Runs, Accepts, Finish, connVars, outside, history,
     threadVars, TypeOK, Client, NoClient, Frame, EmptyFrame, StageOK,
     PartsOK, OneCaller, InTransit, Whole, IdOf, CallerOK, Remembers
<1>27. ASSUME NEW t \in Threads, Relock(t) PROVE CallerOK'
  BY <1>27 DEF Relock, connVars, outside, history, threadVars, TypeOK,
     Client, NoClient, Frame, EmptyFrame, StageOK, PartsOK, OneCaller,
     InTransit, Whole, IdOf, CallerOK, Remembers
<1>28. ASSUME NEW t \in Threads, CompareId(t) PROVE CallerOK'
  BY <1>28 DEF CompareId, Finish, connVars, outside, history, threadVars,
     TypeOK, Client, NoClient, Frame, EmptyFrame, StageOK, PartsOK,
     OneCaller, InTransit, Whole, IdOf, CallerOK, Remembers
<1>29. CASE UNCHANGED vars
  BY <1>29 DEF vars, connVars, outside, history, threadVars, TypeOK, Client,
     NoClient, Frame, EmptyFrame, StageOK, PartsOK, OneCaller, InTransit,
     Whole, IdOf, CallerOK, Remembers
<1>. QED
  BY <1>1, <1>2, <1>3, <1>4, <1>5, <1>6, <1>7, <1>8, <1>9, <1>10, <1>11,
     <1>12, <1>13, <1>14, <1>15, <1>16, <1>17, <1>18, <1>19, <1>20, <1>21,
     <1>22, <1>23, <1>24, <1>25, <1>26, <1>27, <1>28, <1>29 DEF Next, Step,
     Attach, Detach, Call, Finished

\* Tokens are never used again, so an engine that checks them accepts only what
\* was read for it.
LEMMA TokenStep ==
  ASSUME Open = {}, TypeOK, StageOK, OneCaller, PartsOK, TokenOK, [Next]_vars
  PROVE  TokenOK'
<1>. USE ConnectionAssumption DEF Goto, Steps, AttachSteps, DetachSteps,
   CallSteps, Null
<1>1. ASSUME Outside PROVE TokenOK'
  BY <1>1 DEF Outside, Crash, Boot, Rotate, WriteTokenFile, connVars,
     outside, history, threadVars, TypeOK, Client, NoClient, Frame,
     EmptyFrame, StageOK, PartsOK, OneCaller, InTransit, Whole, IdOf,
     TokenOK, Detached
<1>2. ASSUME NEW t \in Threads, NEW o \in Ops, Invoke(t, o) PROVE TokenOK'
  BY <1>2 DEF Invoke, connVars, outside, history, threadVars, TypeOK, Client,
     NoClient, Frame, EmptyFrame, StageOK, PartsOK, OneCaller, InTransit,
     Whole, IdOf, TokenOK, Detached
<1>3. ASSUME NEW t \in Threads, Return(t) PROVE TokenOK'
  BY <1>3 DEF Return, connVars, outside, history, threadVars, TypeOK, Client,
     NoClient, Frame, EmptyFrame, StageOK, PartsOK, OneCaller, InTransit,
     Whole, IdOf, TokenOK, Detached
<1>4. ASSUME NEW t \in Threads, Ensure(t) PROVE TokenOK'
  BY <1>4 DEF Ensure, Connected, Finish, connVars, outside, history,
     threadVars, TypeOK, Client, NoClient, Frame, EmptyFrame, StageOK,
     PartsOK, OneCaller, InTransit, Whole, IdOf, TokenOK, Detached
<1>5. ASSUME NEW t \in Threads, EnsureLocked(t) PROVE TokenOK'
  BY <1>5 DEF EnsureLocked, Connected, Finish, connVars, outside, history,
     threadVars, TypeOK, Client, NoClient, Frame, EmptyFrame, StageOK,
     PartsOK, OneCaller, InTransit, Whole, IdOf, TokenOK, Detached
<1>6. ASSUME NEW t \in Threads, ReadToken(t) PROVE TokenOK'
  <2>1. /\ UNCHANGED <<client, meta, engine, fileToken, cfgToken>>
        /\ pc[t] = "token" /\ \E l \in {"ret", "info"} : pc' = [pc EXCEPT ![t] = l]
    BY <1>6 DEF ReadToken, AttachFails, Finish, connVars, outside
  <2>2. LookedUpToken \in Nat /\ LookedUpToken <= engine.token
    BY DEF TypeOK, TokenOK, LookedUpToken
  <2>3. \A s \in Threads :
          /\ frame'[s].fn = frame[s].fn
          /\ s # t => frame'[s] = frame[s]
          /\ frame'[s].token <= engine.token
    <3>1. CASE LeaveAttach(t)
      BY <3>1 DEF LeaveAttach, TypeOK, Frame, TokenOK
    <3>2. CASE frame' = [frame EXCEPT ![t] = [@ EXCEPT !.token = LookedUpToken]]
      BY <2>2, <3>2 DEF TypeOK, Frame, TokenOK
    <3>. QED  BY <1>6, <3>1, <3>2 DEF ReadToken, AttachFails
  <2>. QED
    BY <2>1, <2>3 DEF TypeOK, TokenOK
<1>7. ASSUME NEW t \in Threads, InfoAccepted(t) PROVE TokenOK'
  BY <1>7 DEF InfoAccepted, Accepts, connVars, outside, history, threadVars,
     TypeOK, Client, NoClient, Frame, EmptyFrame, StageOK, PartsOK,
     OneCaller, InTransit, Whole, IdOf, TokenOK, Detached
<1>8. ASSUME NEW t \in Threads, InfoStaleToken(t) PROVE TokenOK'
  BY <1>8 DEF InfoStaleToken, Accepts, connVars, outside, history,
     threadVars, TypeOK, Client, NoClient, Frame, EmptyFrame, StageOK,
     PartsOK, OneCaller, InTransit, Whole, IdOf, TokenOK, Detached
<1>9. ASSUME NEW t \in Threads, InfoFails(t) PROVE TokenOK'
  BY <1>9 DEF InfoFails, AttachFails, Finish, Release, LeaveAttach, Accepts,
     connVars, outside, history, threadVars, TypeOK, Client, NoClient, Frame,
     EmptyFrame, StageOK, PartsOK, OneCaller, InTransit, Whole, IdOf,
     TokenOK, Detached
<1>10. ASSUME NEW t \in Threads, PublishClient(t) PROVE TokenOK'
  BY <1>10 DEF PublishClient, connVars, outside, history, threadVars, TypeOK,
     Client, NoClient, Frame, EmptyFrame, StageOK, PartsOK, OneCaller,
     InTransit, Whole, IdOf, TokenOK, Detached
<1>11. ASSUME NEW t \in Threads, PublishMeta(t) PROVE TokenOK'
  BY <1>11 DEF PublishMeta, connVars, outside, history, threadVars, TypeOK,
     Client, NoClient, Frame, EmptyFrame, StageOK, PartsOK, OneCaller,
     InTransit, Whole, IdOf, TokenOK, Detached
<1>12. ASSUME NEW t \in Threads, PublishId(t) PROVE TokenOK'
  BY <1>12 DEF PublishId, connVars, outside, history, threadVars, TypeOK,
     Client, NoClient, Frame, EmptyFrame, StageOK, PartsOK, OneCaller,
     InTransit, Whole, IdOf, TokenOK, Detached
<1>13. ASSUME NEW t \in Threads, PublishGeneration(t) PROVE TokenOK'
  BY <1>13 DEF PublishGeneration, Connected, Finish, Release, LeaveAttach,
     connVars, outside, history, threadVars, TypeOK, Client, NoClient, Frame,
     EmptyFrame, StageOK, PartsOK, OneCaller, InTransit, Whole, IdOf,
     TokenOK, Detached
<1>14. ASSUME NEW t \in Threads, DetachCheck(t) PROVE TokenOK'
  BY <1>14 DEF DetachCheck, connVars, outside, history, threadVars, TypeOK,
     Client, NoClient, Frame, EmptyFrame, StageOK, PartsOK, OneCaller,
     InTransit, Whole, IdOf, TokenOK, Detached
<1>15. ASSUME NEW t \in Threads, DetachClose(t) PROVE TokenOK'
  BY <1>15 DEF DetachClose, Finish, Release, connVars, outside, history,
     threadVars, TypeOK, Client, NoClient, Frame, EmptyFrame, StageOK,
     PartsOK, OneCaller, InTransit, Whole, IdOf, TokenOK, Detached
<1>16. ASSUME NEW t \in Threads, DetachNull(t) PROVE TokenOK'
  BY <1>16 DEF DetachNull, connVars, outside, history, threadVars, TypeOK,
     Client, NoClient, Frame, EmptyFrame, StageOK, PartsOK, OneCaller,
     InTransit, Whole, IdOf, TokenOK, Detached
<1>17. ASSUME NEW t \in Threads, DetachMeta(t) PROVE TokenOK'
  BY <1>17 DEF DetachMeta, connVars, outside, history, threadVars, TypeOK,
     Client, NoClient, Frame, EmptyFrame, StageOK, PartsOK, OneCaller,
     InTransit, Whole, IdOf, TokenOK, Detached
<1>18. ASSUME NEW t \in Threads, DetachId(t) PROVE TokenOK'
  BY <1>18 DEF DetachId, DetachReturns, Finish, connVars, outside, history,
     threadVars, TypeOK, Client, NoClient, Frame, EmptyFrame, StageOK,
     PartsOK, OneCaller, InTransit, Whole, IdOf, TokenOK, Detached
<1>19. ASSUME NEW t \in Threads, CheckFeature(t) PROVE TokenOK'
  BY <1>19 DEF CheckFeature, Finish, connVars, outside, history, threadVars,
     TypeOK, Client, NoClient, Frame, EmptyFrame, StageOK, PartsOK,
     OneCaller, InTransit, Whole, IdOf, TokenOK, Detached
<1>20. ASSUME NEW t \in Threads, LoadId(t) PROVE TokenOK'
  BY <1>20 DEF LoadId, connVars, outside, history, threadVars, TypeOK,
     Client, NoClient, Frame, EmptyFrame, StageOK, PartsOK, OneCaller,
     InTransit, Whole, IdOf, TokenOK, Detached
<1>21. ASSUME NEW t \in Threads, LoadGeneration(t) PROVE TokenOK'
  BY <1>21 DEF LoadGeneration, connVars, outside, history, threadVars,
     TypeOK, Client, NoClient, Frame, EmptyFrame, StageOK, PartsOK,
     OneCaller, InTransit, Whole, IdOf, TokenOK, Detached
<1>22. ASSUME NEW t \in Threads, LoadClient(t) PROVE TokenOK'
  BY <1>22 DEF LoadClient, Finish, connVars, outside, history, threadVars,
     TypeOK, Client, NoClient, Frame, EmptyFrame, StageOK, PartsOK,
     OneCaller, InTransit, Whole, IdOf, TokenOK, Detached
<1>23. ASSUME NEW t \in Threads, Send(t) PROVE TokenOK'
  BY <1>23 DEF Send, Finish, connVars, outside, history, threadVars, TypeOK,
     Client, NoClient, Frame, EmptyFrame, StageOK, PartsOK, OneCaller,
     InTransit, Whole, IdOf, TokenOK, Detached
<1>24. ASSUME NEW t \in Threads, Answered(t) PROVE TokenOK'
  BY <1>24 DEF Answered, Runs, Accepts, Finish, connVars, outside, history,
     threadVars, TypeOK, Client, NoClient, Frame, EmptyFrame, StageOK,
     PartsOK, OneCaller, InTransit, Whole, IdOf, TokenOK, Detached
<1>25. ASSUME NEW t \in Threads, Refused(t) PROVE TokenOK'
  BY <1>25 DEF Refused, Accepts, Finish, connVars, outside, history,
     threadVars, TypeOK, Client, NoClient, Frame, EmptyFrame, StageOK,
     PartsOK, OneCaller, InTransit, Whole, IdOf, TokenOK, Detached
<1>26. ASSUME NEW t \in Threads, Lost(t) PROVE TokenOK'
  BY <1>26 DEF Lost, Runs, Accepts, Finish, connVars, outside, history,
     threadVars, TypeOK, Client, NoClient, Frame, EmptyFrame, StageOK,
     PartsOK, OneCaller, InTransit, Whole, IdOf, TokenOK, Detached
<1>27. ASSUME NEW t \in Threads, Relock(t) PROVE TokenOK'
  BY <1>27 DEF Relock, connVars, outside, history, threadVars, TypeOK,
     Client, NoClient, Frame, EmptyFrame, StageOK, PartsOK, OneCaller,
     InTransit, Whole, IdOf, TokenOK, Detached
<1>28. ASSUME NEW t \in Threads, CompareId(t) PROVE TokenOK'
  BY <1>28 DEF CompareId, Finish, connVars, outside, history, threadVars,
     TypeOK, Client, NoClient, Frame, EmptyFrame, StageOK, PartsOK,
     OneCaller, InTransit, Whole, IdOf, TokenOK, Detached
<1>29. CASE UNCHANGED vars
  BY <1>29 DEF vars, connVars, outside, history, threadVars, TypeOK, Client,
     NoClient, Frame, EmptyFrame, StageOK, PartsOK, OneCaller, InTransit,
     Whole, IdOf, TokenOK, Detached
<1>. QED
  BY <1>1, <1>2, <1>3, <1>4, <1>5, <1>6, <1>7, <1>8, <1>9, <1>10, <1>11,
     <1>12, <1>13, <1>14, <1>15, <1>16, <1>17, <1>18, <1>19, <1>20, <1>21,
     <1>22, <1>23, <1>24, <1>25, <1>26, <1>27, <1>28, <1>29 DEF Next, Step,
     Attach, Detach, Call, Finished

\* What is replayed goes to the engine whose identity was compared.
LEMMA ReplayStep ==
  ASSUME Open = {}, TypeOK, StageOK, OneCaller, PartsOK, CallOK, CallerOK,
     TokenOK, ReplayOK, [Next]_vars
  PROVE  ReplayOK'
<1>. USE ConnectionAssumption DEF Goto, Steps, AttachSteps, DetachSteps,
   CallSteps, Null
<1>1. ASSUME Outside PROVE ReplayOK'
  BY <1>1 DEF Outside, Crash, Boot, Rotate, WriteTokenFile, connVars,
     outside, history, threadVars, TypeOK, Client, NoClient, Frame,
     EmptyFrame, StageOK, PartsOK, OneCaller, InTransit, Whole, IdOf, CallOK,
     CallerOK, TokenOK, ReplayOK
<1>2. ASSUME NEW t \in Threads, NEW o \in Ops, Invoke(t, o) PROVE ReplayOK'
  BY <1>2 DEF Invoke, connVars, outside, history, threadVars, TypeOK, Client,
     NoClient, Frame, EmptyFrame, StageOK, PartsOK, OneCaller, InTransit,
     Whole, IdOf, CallOK, CallerOK, TokenOK, ReplayOK
<1>3. ASSUME NEW t \in Threads, Return(t) PROVE ReplayOK'
  BY <1>3 DEF Return, connVars, outside, history, threadVars, TypeOK, Client,
     NoClient, Frame, EmptyFrame, StageOK, PartsOK, OneCaller, InTransit,
     Whole, IdOf, CallOK, CallerOK, TokenOK, ReplayOK
<1>4. ASSUME NEW t \in Threads, Ensure(t) PROVE ReplayOK'
  BY <1>4 DEF Ensure, Connected, Finish, connVars, outside, history,
     threadVars, TypeOK, Client, NoClient, Frame, EmptyFrame, StageOK,
     PartsOK, OneCaller, InTransit, Whole, IdOf, CallOK, CallerOK, TokenOK,
     ReplayOK
<1>5. ASSUME NEW t \in Threads, EnsureLocked(t) PROVE ReplayOK'
  BY <1>5 DEF EnsureLocked, Connected, Finish, connVars, outside, history,
     threadVars, TypeOK, Client, NoClient, Frame, EmptyFrame, StageOK,
     PartsOK, OneCaller, InTransit, Whole, IdOf, CallOK, CallerOK, TokenOK,
     ReplayOK
<1>6. ASSUME NEW t \in Threads, ReadToken(t) PROVE ReplayOK'
  BY <1>6 DEF ReadToken, AttachFails, Finish, Release, LeaveAttach,
     LookedUpToken, connVars, outside, history, threadVars, TypeOK, Client,
     NoClient, Frame, EmptyFrame, StageOK, PartsOK, OneCaller, InTransit,
     Whole, IdOf, CallOK, CallerOK, TokenOK, ReplayOK
<1>7. ASSUME NEW t \in Threads, InfoAccepted(t) PROVE ReplayOK'
  BY <1>7 DEF InfoAccepted, Accepts, connVars, outside, history, threadVars,
     TypeOK, Client, NoClient, Frame, EmptyFrame, StageOK, PartsOK,
     OneCaller, InTransit, Whole, IdOf, CallOK, CallerOK, TokenOK, ReplayOK
<1>8. ASSUME NEW t \in Threads, InfoStaleToken(t) PROVE ReplayOK'
  BY <1>8 DEF InfoStaleToken, Accepts, connVars, outside, history,
     threadVars, TypeOK, Client, NoClient, Frame, EmptyFrame, StageOK,
     PartsOK, OneCaller, InTransit, Whole, IdOf, CallOK, CallerOK, TokenOK,
     ReplayOK
<1>9. ASSUME NEW t \in Threads, InfoFails(t) PROVE ReplayOK'
  BY <1>9 DEF InfoFails, AttachFails, Finish, Release, LeaveAttach, Accepts,
     connVars, outside, history, threadVars, TypeOK, Client, NoClient, Frame,
     EmptyFrame, StageOK, PartsOK, OneCaller, InTransit, Whole, IdOf, CallOK,
     CallerOK, TokenOK, ReplayOK
<1>10. ASSUME NEW t \in Threads, PublishClient(t) PROVE ReplayOK'
  BY <1>10 DEF PublishClient, connVars, outside, history, threadVars, TypeOK,
     Client, NoClient, Frame, EmptyFrame, StageOK, PartsOK, OneCaller,
     InTransit, Whole, IdOf, CallOK, CallerOK, TokenOK, ReplayOK
<1>11. ASSUME NEW t \in Threads, PublishMeta(t) PROVE ReplayOK'
  BY <1>11 DEF PublishMeta, connVars, outside, history, threadVars, TypeOK,
     Client, NoClient, Frame, EmptyFrame, StageOK, PartsOK, OneCaller,
     InTransit, Whole, IdOf, CallOK, CallerOK, TokenOK, ReplayOK
<1>12. ASSUME NEW t \in Threads, PublishId(t) PROVE ReplayOK'
  BY <1>12 DEF PublishId, connVars, outside, history, threadVars, TypeOK,
     Client, NoClient, Frame, EmptyFrame, StageOK, PartsOK, OneCaller,
     InTransit, Whole, IdOf, CallOK, CallerOK, TokenOK, ReplayOK
<1>13. ASSUME NEW t \in Threads, PublishGeneration(t) PROVE ReplayOK'
  BY <1>13 DEF PublishGeneration, Connected, Finish, Release, LeaveAttach,
     connVars, outside, history, threadVars, TypeOK, Client, NoClient, Frame,
     EmptyFrame, StageOK, PartsOK, OneCaller, InTransit, Whole, IdOf, CallOK,
     CallerOK, TokenOK, ReplayOK
<1>14. ASSUME NEW t \in Threads, DetachCheck(t) PROVE ReplayOK'
  BY <1>14 DEF DetachCheck, connVars, outside, history, threadVars, TypeOK,
     Client, NoClient, Frame, EmptyFrame, StageOK, PartsOK, OneCaller,
     InTransit, Whole, IdOf, CallOK, CallerOK, TokenOK, ReplayOK
<1>15. ASSUME NEW t \in Threads, DetachClose(t) PROVE ReplayOK'
  BY <1>15 DEF DetachClose, Finish, Release, connVars, outside, history,
     threadVars, TypeOK, Client, NoClient, Frame, EmptyFrame, StageOK,
     PartsOK, OneCaller, InTransit, Whole, IdOf, CallOK, CallerOK, TokenOK,
     ReplayOK
<1>16. ASSUME NEW t \in Threads, DetachNull(t) PROVE ReplayOK'
  BY <1>16 DEF DetachNull, connVars, outside, history, threadVars, TypeOK,
     Client, NoClient, Frame, EmptyFrame, StageOK, PartsOK, OneCaller,
     InTransit, Whole, IdOf, CallOK, CallerOK, TokenOK, ReplayOK
<1>17. ASSUME NEW t \in Threads, DetachMeta(t) PROVE ReplayOK'
  BY <1>17 DEF DetachMeta, connVars, outside, history, threadVars, TypeOK,
     Client, NoClient, Frame, EmptyFrame, StageOK, PartsOK, OneCaller,
     InTransit, Whole, IdOf, CallOK, CallerOK, TokenOK, ReplayOK
<1>18. ASSUME NEW t \in Threads, DetachId(t) PROVE ReplayOK'
  BY <1>18 DEF DetachId, DetachReturns, Finish, connVars, outside, history,
     threadVars, TypeOK, Client, NoClient, Frame, EmptyFrame, StageOK,
     PartsOK, OneCaller, InTransit, Whole, IdOf, CallOK, CallerOK, TokenOK,
     ReplayOK
<1>19. ASSUME NEW t \in Threads, CheckFeature(t) PROVE ReplayOK'
  BY <1>19 DEF CheckFeature, Finish, connVars, outside, history, threadVars,
     TypeOK, Client, NoClient, Frame, EmptyFrame, StageOK, PartsOK,
     OneCaller, InTransit, Whole, IdOf, CallOK, CallerOK, TokenOK, ReplayOK
<1>20. ASSUME NEW t \in Threads, LoadId(t) PROVE ReplayOK'
  BY <1>20 DEF LoadId, connVars, outside, history, threadVars, TypeOK,
     Client, NoClient, Frame, EmptyFrame, StageOK, PartsOK, OneCaller,
     InTransit, Whole, IdOf, CallOK, CallerOK, TokenOK, ReplayOK
<1>21. ASSUME NEW t \in Threads, LoadGeneration(t) PROVE ReplayOK'
  BY <1>21 DEF LoadGeneration, connVars, outside, history, threadVars,
     TypeOK, Client, NoClient, Frame, EmptyFrame, StageOK, PartsOK,
     OneCaller, InTransit, Whole, IdOf, CallOK, CallerOK, TokenOK, ReplayOK
<1>22. ASSUME NEW t \in Threads, LoadClient(t) PROVE ReplayOK'
  BY <1>22 DEF LoadClient, Finish, connVars, outside, history, threadVars,
     TypeOK, Client, NoClient, Frame, EmptyFrame, StageOK, PartsOK,
     OneCaller, InTransit, Whole, IdOf, CallOK, CallerOK, TokenOK, ReplayOK
<1>23. ASSUME NEW t \in Threads, Send(t) PROVE ReplayOK'
  BY <1>23 DEF Send, Finish, connVars, outside, history, threadVars, TypeOK,
     Client, NoClient, Frame, EmptyFrame, StageOK, PartsOK, OneCaller,
     InTransit, Whole, IdOf, CallOK, CallerOK, TokenOK, ReplayOK
<1>24. ASSUME NEW t \in Threads, Answered(t) PROVE ReplayOK'
  BY <1>24 DEF Answered, Runs, Accepts, Finish, connVars, outside, history,
     threadVars, TypeOK, Client, NoClient, Frame, EmptyFrame, StageOK,
     PartsOK, OneCaller, InTransit, Whole, IdOf, CallOK, CallerOK, TokenOK,
     ReplayOK
<1>25. ASSUME NEW t \in Threads, Refused(t) PROVE ReplayOK'
  BY <1>25 DEF Refused, Accepts, Finish, connVars, outside, history,
     threadVars, TypeOK, Client, NoClient, Frame, EmptyFrame, StageOK,
     PartsOK, OneCaller, InTransit, Whole, IdOf, CallOK, CallerOK, TokenOK,
     ReplayOK
<1>26. ASSUME NEW t \in Threads, Lost(t) PROVE ReplayOK'
  BY <1>26 DEF Lost, Runs, Accepts, Finish, connVars, outside, history,
     threadVars, TypeOK, Client, NoClient, Frame, EmptyFrame, StageOK,
     PartsOK, OneCaller, InTransit, Whole, IdOf, CallOK, CallerOK, TokenOK,
     ReplayOK
<1>27. ASSUME NEW t \in Threads, Relock(t) PROVE ReplayOK'
  BY <1>27 DEF Relock, connVars, outside, history, threadVars, TypeOK,
     Client, NoClient, Frame, EmptyFrame, StageOK, PartsOK, OneCaller,
     InTransit, Whole, IdOf, CallOK, CallerOK, TokenOK, ReplayOK
<1>28. ASSUME NEW t \in Threads, CompareId(t) PROVE ReplayOK'
  BY <1>28 DEF CompareId, Finish, connVars, outside, history, threadVars,
     TypeOK, Client, NoClient, Frame, EmptyFrame, StageOK, PartsOK,
     OneCaller, InTransit, Whole, IdOf, CallOK, CallerOK, TokenOK, ReplayOK
<1>29. CASE UNCHANGED vars
  BY <1>29 DEF vars, connVars, outside, history, threadVars, TypeOK, Client,
     NoClient, Frame, EmptyFrame, StageOK, PartsOK, OneCaller, InTransit,
     Whole, IdOf, CallOK, CallerOK, TokenOK, ReplayOK
<1>. QED
  BY <1>1, <1>2, <1>3, <1>4, <1>5, <1>6, <1>7, <1>8, <1>9, <1>10, <1>11,
     <1>12, <1>13, <1>14, <1>15, <1>16, <1>17, <1>18, <1>19, <1>20, <1>21,
     <1>22, <1>23, <1>24, <1>25, <1>26, <1>27, <1>28, <1>29 DEF Next, Step,
     Attach, Detach, Call, Finished

\* The first client is followed by one other at most.
LEMMA ClientStep ==
  ASSUME OneRotation, TypeOK, StageOK, LockHeldExactlyInside, NumberingOK,
     RequestOK, NoLossOK, Solo, PartsOK, ClientOK, IdentityOK, [Next]_vars
  PROVE  ClientOK'
<1>. USE ConnectionAssumption DEF Goto, Steps, AttachSteps, DetachSteps,
   CallSteps, Null
<1>1. ASSUME Outside PROVE ClientOK'
  BY <1>1 DEF Outside, Crash, Boot, Rotate, WriteTokenFile, connVars,
     outside, history, threadVars, TypeOK, Client, NoClient, Frame,
     EmptyFrame, StageOK, LockHeldExactlyInside, Inside, NoLossOK,
     OneRotation, LockedDetach, Solo, InTransit, PartsOK, Detached, ClientOK,
     IdentityOK, First, Late, NumberingOK, Published, Publishing, RequestOK,
     HasRequest, Reattaching
<1>2. ASSUME NEW t \in Threads, NEW o \in Ops, Invoke(t, o) PROVE ClientOK'
  BY <1>2 DEF Invoke, connVars, outside, history, threadVars, TypeOK, Client,
     NoClient, Frame, EmptyFrame, StageOK, LockHeldExactlyInside, Inside,
     NoLossOK, OneRotation, LockedDetach, Solo, InTransit, PartsOK, Detached,
     ClientOK, IdentityOK, First, Late, NumberingOK, Published, Publishing,
     RequestOK, HasRequest, Reattaching
<1>3. ASSUME NEW t \in Threads, Return(t) PROVE ClientOK'
  BY <1>3 DEF Return, connVars, outside, history, threadVars, TypeOK, Client,
     NoClient, Frame, EmptyFrame, StageOK, LockHeldExactlyInside, Inside,
     NoLossOK, OneRotation, LockedDetach, Solo, InTransit, PartsOK, Detached,
     ClientOK, IdentityOK, First, Late, NumberingOK, Published, Publishing,
     RequestOK, HasRequest, Reattaching
<1>4. ASSUME NEW t \in Threads, Ensure(t) PROVE ClientOK'
  BY <1>4 DEF Ensure, Connected, Finish, connVars, outside, history,
     threadVars, TypeOK, Client, NoClient, Frame, EmptyFrame, StageOK,
     LockHeldExactlyInside, Inside, NoLossOK, OneRotation, LockedDetach,
     Solo, InTransit, PartsOK, Detached, ClientOK, IdentityOK, First, Late,
     NumberingOK, Published, Publishing, RequestOK, HasRequest, Reattaching
<1>5. ASSUME NEW t \in Threads, EnsureLocked(t) PROVE ClientOK'
  BY <1>5 DEF EnsureLocked, Connected, Finish, connVars, outside, history,
     threadVars, TypeOK, Client, NoClient, Frame, EmptyFrame, StageOK,
     LockHeldExactlyInside, Inside, NoLossOK, OneRotation, LockedDetach,
     Solo, InTransit, PartsOK, Detached, ClientOK, IdentityOK, First, Late,
     NumberingOK, Published, Publishing, RequestOK, HasRequest, Reattaching
<1>6. ASSUME NEW t \in Threads, ReadToken(t) PROVE ClientOK'
  <2>1. /\ UNCHANGED <<connVars, stage, engine>>
        /\ pc[t] = "token" /\ \E l \in {"ret", "info"} : pc' = [pc EXCEPT ![t] = l]
        /\ out' = out \/ out' = [out EXCEPT ![t] = "not_connected"]
    BY <1>6 DEF ReadToken, AttachFails, Finish, outside
  <2>2. \A s \in Threads :
          /\ frame'[s].fn = frame[s].fn /\ frame'[s].myGen = frame[s].myGen
          /\ frame'[s].oldId = frame[s].oldId
          /\ s # t => frame'[s] = frame[s]
    <3>1. CASE LeaveAttach(t)
      BY <3>1 DEF LeaveAttach, TypeOK, Frame
    <3>2. CASE frame' = [frame EXCEPT ![t] = [@ EXCEPT !.token = LookedUpToken]]
      BY <3>2 DEF TypeOK, Frame
    <3>. QED  BY <1>6, <3>1, <3>2 DEF ReadToken, AttachFails
  <2>. QED
    BY <2>1, <2>2 DEF connVars, TypeOK, InTransit, ClientOK, First, Late, IdOf
<1>7. ASSUME NEW t \in Threads, InfoAccepted(t) PROVE ClientOK'
  BY <1>7 DEF InfoAccepted, Accepts, connVars, outside, history, threadVars,
     TypeOK, Client, NoClient, Frame, EmptyFrame, StageOK,
     LockHeldExactlyInside, Inside, NoLossOK, OneRotation, LockedDetach,
     Solo, InTransit, PartsOK, Detached, ClientOK, IdentityOK, First, Late,
     NumberingOK, Published, Publishing, RequestOK, HasRequest, Reattaching
<1>8. ASSUME NEW t \in Threads, InfoStaleToken(t) PROVE ClientOK'
  BY <1>8 DEF InfoStaleToken, Accepts, connVars, outside, history,
     threadVars, TypeOK, Client, NoClient, Frame, EmptyFrame, StageOK,
     LockHeldExactlyInside, Inside, NoLossOK, OneRotation, LockedDetach,
     Solo, InTransit, PartsOK, Detached, ClientOK, IdentityOK, First, Late,
     NumberingOK, Published, Publishing, RequestOK, HasRequest, Reattaching
<1>9. ASSUME NEW t \in Threads, InfoFails(t) PROVE ClientOK'
  BY <1>9 DEF InfoFails, AttachFails, Finish, Release, LeaveAttach, Accepts,
     connVars, outside, history, threadVars, TypeOK, Client, NoClient, Frame,
     EmptyFrame, StageOK, LockHeldExactlyInside, Inside, NoLossOK,
     OneRotation, LockedDetach, Solo, InTransit, PartsOK, Detached, ClientOK,
     IdentityOK, First, Late, NumberingOK, Published, Publishing, RequestOK,
     HasRequest, Reattaching
<1>10. ASSUME NEW t \in Threads, PublishClient(t) PROVE ClientOK'
  BY <1>10 DEF PublishClient, connVars, outside, history, threadVars, TypeOK,
     Client, NoClient, Frame, EmptyFrame, StageOK, LockHeldExactlyInside,
     Inside, NoLossOK, OneRotation, LockedDetach, Solo, InTransit, PartsOK,
     Detached, ClientOK, IdentityOK, First, Late, NumberingOK, Published,
     Publishing, RequestOK, HasRequest, Reattaching
<1>11. ASSUME NEW t \in Threads, PublishMeta(t) PROVE ClientOK'
  BY <1>11 DEF PublishMeta, connVars, outside, history, threadVars, TypeOK,
     Client, NoClient, Frame, EmptyFrame, StageOK, LockHeldExactlyInside,
     Inside, NoLossOK, OneRotation, LockedDetach, Solo, InTransit, PartsOK,
     Detached, ClientOK, IdentityOK, First, Late, NumberingOK, Published,
     Publishing, RequestOK, HasRequest, Reattaching
<1>12. ASSUME NEW t \in Threads, PublishId(t) PROVE ClientOK'
  BY <1>12 DEF PublishId, connVars, outside, history, threadVars, TypeOK,
     Client, NoClient, Frame, EmptyFrame, StageOK, LockHeldExactlyInside,
     Inside, NoLossOK, OneRotation, LockedDetach, Solo, InTransit, PartsOK,
     Detached, ClientOK, IdentityOK, First, Late, NumberingOK, Published,
     Publishing, RequestOK, HasRequest, Reattaching
<1>13. ASSUME NEW t \in Threads, PublishGeneration(t) PROVE ClientOK'
  <2>1. /\ UNCHANGED <<client, engine, meta, instId>>
        /\ pc[t] = "pubGen" /\ generation' = generation + 1
        /\ \E l \in {"newId", "check", "loadId", "ret"} :
             pc' = [pc EXCEPT ![t] = l]
    BY <1>13 DEF PublishGeneration, Connected, Finish, outside
  <2>2. \A s \in Threads : ~InTransit(s)'
    BY <2>1 DEF Solo, InTransit, TypeOK
  <2>3. client # NoClient /\ client # First
    BY <2>1 DEF PartsOK, ClientOK
  <2>. QED
    BY <2>1, <2>2, <2>3 DEF ClientOK, InTransit, TypeOK, First, Late
<1>14. ASSUME NEW t \in Threads, DetachCheck(t) PROVE ClientOK'
  BY <1>14 DEF DetachCheck, connVars, outside, history, threadVars, TypeOK,
     Client, NoClient, Frame, EmptyFrame, StageOK, LockHeldExactlyInside,
     Inside, NoLossOK, OneRotation, LockedDetach, Solo, InTransit, PartsOK,
     Detached, ClientOK, IdentityOK, First, Late, NumberingOK, Published,
     Publishing, RequestOK, HasRequest, Reattaching
<1>15. ASSUME NEW t \in Threads, DetachClose(t) PROVE ClientOK'
  BY <1>15 DEF DetachClose, Finish, Release, connVars, outside, history,
     threadVars, TypeOK, Client, NoClient, Frame, EmptyFrame, StageOK,
     LockHeldExactlyInside, Inside, NoLossOK, OneRotation, LockedDetach,
     Solo, InTransit, PartsOK, Detached, ClientOK, IdentityOK, First, Late,
     NumberingOK, Published, Publishing, RequestOK, HasRequest, Reattaching
<1>16. ASSUME NEW t \in Threads, DetachNull(t) PROVE ClientOK'
  BY <1>16 DEF DetachNull, connVars, outside, history, threadVars, TypeOK,
     Client, NoClient, Frame, EmptyFrame, StageOK, LockHeldExactlyInside,
     Inside, NoLossOK, OneRotation, LockedDetach, Solo, InTransit, PartsOK,
     Detached, ClientOK, IdentityOK, First, Late, NumberingOK, Published,
     Publishing, RequestOK, HasRequest, Reattaching
<1>17. ASSUME NEW t \in Threads, DetachMeta(t) PROVE ClientOK'
  BY <1>17 DEF DetachMeta, connVars, outside, history, threadVars, TypeOK,
     Client, NoClient, Frame, EmptyFrame, StageOK, LockHeldExactlyInside,
     Inside, NoLossOK, OneRotation, LockedDetach, Solo, InTransit, PartsOK,
     Detached, ClientOK, IdentityOK, First, Late, NumberingOK, Published,
     Publishing, RequestOK, HasRequest, Reattaching
<1>18. ASSUME NEW t \in Threads, DetachId(t) PROVE ClientOK'
  BY <1>18 DEF DetachId, DetachReturns, Finish, connVars, outside, history,
     threadVars, TypeOK, Client, NoClient, Frame, EmptyFrame, StageOK,
     LockHeldExactlyInside, Inside, NoLossOK, OneRotation, LockedDetach,
     Solo, InTransit, PartsOK, Detached, ClientOK, IdentityOK, First, Late,
     NumberingOK, Published, Publishing, RequestOK, HasRequest, Reattaching
<1>19. ASSUME NEW t \in Threads, CheckFeature(t) PROVE ClientOK'
  BY <1>19 DEF CheckFeature, Finish, connVars, outside, history, threadVars,
     TypeOK, Client, NoClient, Frame, EmptyFrame, StageOK,
     LockHeldExactlyInside, Inside, NoLossOK, OneRotation, LockedDetach,
     Solo, InTransit, PartsOK, Detached, ClientOK, IdentityOK, First, Late,
     NumberingOK, Published, Publishing, RequestOK, HasRequest, Reattaching
<1>20. ASSUME NEW t \in Threads, LoadId(t) PROVE ClientOK'
  BY <1>20 DEF LoadId, connVars, outside, history, threadVars, TypeOK,
     Client, NoClient, Frame, EmptyFrame, StageOK, LockHeldExactlyInside,
     Inside, NoLossOK, OneRotation, LockedDetach, Solo, InTransit, PartsOK,
     Detached, ClientOK, IdentityOK, First, Late, NumberingOK, Published,
     Publishing, RequestOK, HasRequest, Reattaching
<1>21. ASSUME NEW t \in Threads, LoadGeneration(t) PROVE ClientOK'
  BY <1>21 DEF LoadGeneration, connVars, outside, history, threadVars,
     TypeOK, Client, NoClient, Frame, EmptyFrame, StageOK,
     LockHeldExactlyInside, Inside, NoLossOK, OneRotation, LockedDetach,
     Solo, InTransit, PartsOK, Detached, ClientOK, IdentityOK, First, Late,
     NumberingOK, Published, Publishing, RequestOK, HasRequest, Reattaching
<1>22. ASSUME NEW t \in Threads, LoadClient(t) PROVE ClientOK'
  BY <1>22 DEF LoadClient, Finish, connVars, outside, history, threadVars,
     TypeOK, Client, NoClient, Frame, EmptyFrame, StageOK,
     LockHeldExactlyInside, Inside, NoLossOK, OneRotation, LockedDetach,
     Solo, InTransit, PartsOK, Detached, ClientOK, IdentityOK, First, Late,
     NumberingOK, Published, Publishing, RequestOK, HasRequest, Reattaching
<1>23. ASSUME NEW t \in Threads, Send(t) PROVE ClientOK'
  BY <1>23 DEF Send, Finish, connVars, outside, history, threadVars, TypeOK,
     Client, NoClient, Frame, EmptyFrame, StageOK, LockHeldExactlyInside,
     Inside, NoLossOK, OneRotation, LockedDetach, Solo, InTransit, PartsOK,
     Detached, ClientOK, IdentityOK, First, Late, NumberingOK, Published,
     Publishing, RequestOK, HasRequest, Reattaching
<1>24. ASSUME NEW t \in Threads, Answered(t) PROVE ClientOK'
  BY <1>24 DEF Answered, Runs, Accepts, Finish, connVars, outside, history,
     threadVars, TypeOK, Client, NoClient, Frame, EmptyFrame, StageOK,
     LockHeldExactlyInside, Inside, NoLossOK, OneRotation, LockedDetach,
     Solo, InTransit, PartsOK, Detached, ClientOK, IdentityOK, First, Late,
     NumberingOK, Published, Publishing, RequestOK, HasRequest, Reattaching
<1>25. ASSUME NEW t \in Threads, Refused(t) PROVE ClientOK'
  BY <1>25 DEF Refused, Accepts, Finish, connVars, outside, history,
     threadVars, TypeOK, Client, NoClient, Frame, EmptyFrame, StageOK,
     LockHeldExactlyInside, Inside, NoLossOK, OneRotation, LockedDetach,
     Solo, InTransit, PartsOK, Detached, ClientOK, IdentityOK, First, Late,
     NumberingOK, Published, Publishing, RequestOK, HasRequest, Reattaching
<1>26. ASSUME NEW t \in Threads, Lost(t) PROVE ClientOK'
  BY <1>26 DEF Lost, Runs, Accepts, Finish, connVars, outside, history,
     threadVars, TypeOK, Client, NoClient, Frame, EmptyFrame, StageOK,
     LockHeldExactlyInside, Inside, NoLossOK, OneRotation, LockedDetach,
     Solo, InTransit, PartsOK, Detached, ClientOK, IdentityOK, First, Late,
     NumberingOK, Published, Publishing, RequestOK, HasRequest, Reattaching
<1>27. ASSUME NEW t \in Threads, Relock(t) PROVE ClientOK'
  BY <1>27 DEF Relock, connVars, outside, history, threadVars, TypeOK,
     Client, NoClient, Frame, EmptyFrame, StageOK, LockHeldExactlyInside,
     Inside, NoLossOK, OneRotation, LockedDetach, Solo, InTransit, PartsOK,
     Detached, ClientOK, IdentityOK, First, Late, NumberingOK, Published,
     Publishing, RequestOK, HasRequest, Reattaching
<1>28. ASSUME NEW t \in Threads, CompareId(t) PROVE ClientOK'
  BY <1>28 DEF CompareId, Finish, connVars, outside, history, threadVars,
     TypeOK, Client, NoClient, Frame, EmptyFrame, StageOK,
     LockHeldExactlyInside, Inside, NoLossOK, OneRotation, LockedDetach,
     Solo, InTransit, PartsOK, Detached, ClientOK, IdentityOK, First, Late,
     NumberingOK, Published, Publishing, RequestOK, HasRequest, Reattaching
<1>29. CASE UNCHANGED vars
  BY <1>29 DEF vars, connVars, outside, history, threadVars, TypeOK, Client,
     NoClient, Frame, EmptyFrame, StageOK, LockHeldExactlyInside, Inside,
     NoLossOK, OneRotation, LockedDetach, Solo, InTransit, PartsOK, Detached,
     ClientOK, IdentityOK, First, Late, NumberingOK, Published, Publishing,
     RequestOK, HasRequest, Reattaching
<1>. QED
  BY <1>1, <1>2, <1>3, <1>4, <1>5, <1>6, <1>7, <1>8, <1>9, <1>10, <1>11,
     <1>12, <1>13, <1>14, <1>15, <1>16, <1>17, <1>18, <1>19, <1>20, <1>21,
     <1>22, <1>23, <1>24, <1>25, <1>26, <1>27, <1>28, <1>29 DEF Next, Step,
     Attach, Detach, Call, Finished

\* A refused call has read the identity of the engine it was refused by.
LEMMA IdentityStep ==
  ASSUME OneRotation, TypeOK, StageOK, LockHeldExactlyInside, NumberingOK,
     RequestOK, NoLossOK, Solo, PartsOK, ClientOK, IdentityOK, [Next]_vars
  PROVE  IdentityOK'
<1>. USE ConnectionAssumption DEF Goto, Steps, AttachSteps, DetachSteps,
   CallSteps, Null
<1>1. ASSUME Outside PROVE IdentityOK'
  BY <1>1 DEF Outside, Crash, Boot, Rotate, WriteTokenFile, connVars,
     outside, history, threadVars, TypeOK, Client, NoClient, Frame,
     EmptyFrame, StageOK, LockHeldExactlyInside, Inside, NoLossOK,
     OneRotation, LockedDetach, Solo, InTransit, PartsOK, Whole, IdOf,
     ClientOK, IdentityOK, First, Late, NumberingOK, Published, Publishing,
     RequestOK, HasRequest, Reattaching
<1>2. ASSUME NEW t \in Threads, NEW o \in Ops, Invoke(t, o) PROVE IdentityOK'
  BY <1>2 DEF Invoke, connVars, outside, history, threadVars, TypeOK, Client,
     NoClient, Frame, EmptyFrame, StageOK, LockHeldExactlyInside, Inside,
     NoLossOK, OneRotation, LockedDetach, Solo, InTransit, PartsOK, Whole,
     IdOf, ClientOK, IdentityOK, First, Late, NumberingOK, Published,
     Publishing, RequestOK, HasRequest, Reattaching
<1>3. ASSUME NEW t \in Threads, Return(t) PROVE IdentityOK'
  BY <1>3 DEF Return, connVars, outside, history, threadVars, TypeOK, Client,
     NoClient, Frame, EmptyFrame, StageOK, LockHeldExactlyInside, Inside,
     NoLossOK, OneRotation, LockedDetach, Solo, InTransit, PartsOK, Whole,
     IdOf, ClientOK, IdentityOK, First, Late, NumberingOK, Published,
     Publishing, RequestOK, HasRequest, Reattaching
<1>4. ASSUME NEW t \in Threads, Ensure(t) PROVE IdentityOK'
  BY <1>4 DEF Ensure, Connected, Finish, connVars, outside, history,
     threadVars, TypeOK, Client, NoClient, Frame, EmptyFrame, StageOK,
     LockHeldExactlyInside, Inside, NoLossOK, OneRotation, LockedDetach,
     Solo, InTransit, PartsOK, Whole, IdOf, ClientOK, IdentityOK, First,
     Late, NumberingOK, Published, Publishing, RequestOK, HasRequest,
     Reattaching
<1>5. ASSUME NEW t \in Threads, EnsureLocked(t) PROVE IdentityOK'
  BY <1>5 DEF EnsureLocked, Connected, Finish, connVars, outside, history,
     threadVars, TypeOK, Client, NoClient, Frame, EmptyFrame, StageOK,
     LockHeldExactlyInside, Inside, NoLossOK, OneRotation, LockedDetach,
     Solo, InTransit, PartsOK, Whole, IdOf, ClientOK, IdentityOK, First,
     Late, NumberingOK, Published, Publishing, RequestOK, HasRequest,
     Reattaching
<1>6. ASSUME NEW t \in Threads, ReadToken(t) PROVE IdentityOK'
  <2>1. /\ UNCHANGED <<connVars, stage, engine>>
        /\ pc[t] = "token" /\ \E l \in {"ret", "info"} : pc' = [pc EXCEPT ![t] = l]
        /\ out' = out \/ out' = [out EXCEPT ![t] = "not_connected"]
    BY <1>6 DEF ReadToken, AttachFails, Finish, outside
  <2>2. \A s \in Threads :
          /\ frame'[s].fn = frame[s].fn /\ frame'[s].myGen = frame[s].myGen
          /\ frame'[s].oldId = frame[s].oldId
          /\ s # t => frame'[s] = frame[s]
    <3>1. CASE LeaveAttach(t)
      BY <3>1 DEF LeaveAttach, TypeOK, Frame
    <3>2. CASE frame' = [frame EXCEPT ![t] = [@ EXCEPT !.token = LookedUpToken]]
      BY <3>2 DEF TypeOK, Frame
    <3>. QED  BY <1>6, <3>1, <3>2 DEF ReadToken, AttachFails
  <2>. QED
    BY <2>1, <2>2 DEF connVars, TypeOK, StageOK, InTransit, IdentityOK, First,
       Late, Reattaching, IdOf
<1>7. ASSUME NEW t \in Threads, InfoAccepted(t) PROVE IdentityOK'
  BY <1>7 DEF InfoAccepted, Accepts, connVars, outside, history, threadVars,
     TypeOK, Client, NoClient, Frame, EmptyFrame, StageOK,
     LockHeldExactlyInside, Inside, NoLossOK, OneRotation, LockedDetach,
     Solo, InTransit, PartsOK, Whole, IdOf, ClientOK, IdentityOK, First,
     Late, NumberingOK, Published, Publishing, RequestOK, HasRequest,
     Reattaching
<1>8. ASSUME NEW t \in Threads, InfoStaleToken(t) PROVE IdentityOK'
  BY <1>8 DEF InfoStaleToken, Accepts, connVars, outside, history,
     threadVars, TypeOK, Client, NoClient, Frame, EmptyFrame, StageOK,
     LockHeldExactlyInside, Inside, NoLossOK, OneRotation, LockedDetach,
     Solo, InTransit, PartsOK, Whole, IdOf, ClientOK, IdentityOK, First,
     Late, NumberingOK, Published, Publishing, RequestOK, HasRequest,
     Reattaching
<1>9. ASSUME NEW t \in Threads, InfoFails(t) PROVE IdentityOK'
  BY <1>9 DEF InfoFails, AttachFails, Finish, Release, LeaveAttach, Accepts,
     connVars, outside, history, threadVars, TypeOK, Client, NoClient, Frame,
     EmptyFrame, StageOK, LockHeldExactlyInside, Inside, NoLossOK,
     OneRotation, LockedDetach, Solo, InTransit, PartsOK, Whole, IdOf,
     ClientOK, IdentityOK, First, Late, NumberingOK, Published, Publishing,
     RequestOK, HasRequest, Reattaching
<1>10. ASSUME NEW t \in Threads, PublishClient(t) PROVE IdentityOK'
  BY <1>10 DEF PublishClient, connVars, outside, history, threadVars, TypeOK,
     Client, NoClient, Frame, EmptyFrame, StageOK, LockHeldExactlyInside,
     Inside, NoLossOK, OneRotation, LockedDetach, Solo, InTransit, PartsOK,
     Whole, IdOf, ClientOK, IdentityOK, First, Late, NumberingOK, Published,
     Publishing, RequestOK, HasRequest, Reattaching
<1>11. ASSUME NEW t \in Threads, PublishMeta(t) PROVE IdentityOK'
  BY <1>11 DEF PublishMeta, connVars, outside, history, threadVars, TypeOK,
     Client, NoClient, Frame, EmptyFrame, StageOK, LockHeldExactlyInside,
     Inside, NoLossOK, OneRotation, LockedDetach, Solo, InTransit, PartsOK,
     Whole, IdOf, ClientOK, IdentityOK, First, Late, NumberingOK, Published,
     Publishing, RequestOK, HasRequest, Reattaching
<1>12. ASSUME NEW t \in Threads, PublishId(t) PROVE IdentityOK'
  BY <1>12 DEF PublishId, connVars, outside, history, threadVars, TypeOK,
     Client, NoClient, Frame, EmptyFrame, StageOK, LockHeldExactlyInside,
     Inside, NoLossOK, OneRotation, LockedDetach, Solo, InTransit, PartsOK,
     Whole, IdOf, ClientOK, IdentityOK, First, Late, NumberingOK, Published,
     Publishing, RequestOK, HasRequest, Reattaching
<1>13. ASSUME NEW t \in Threads, PublishGeneration(t) PROVE IdentityOK'
  BY <1>13 DEF PublishGeneration, Connected, Finish, Release, LeaveAttach,
     connVars, outside, history, threadVars, TypeOK, Client, NoClient, Frame,
     EmptyFrame, StageOK, LockHeldExactlyInside, Inside, NoLossOK,
     OneRotation, LockedDetach, Solo, InTransit, PartsOK, Whole, IdOf,
     ClientOK, IdentityOK, First, Late, NumberingOK, Published, Publishing,
     RequestOK, HasRequest, Reattaching
<1>14. ASSUME NEW t \in Threads, DetachCheck(t) PROVE IdentityOK'
  BY <1>14 DEF DetachCheck, connVars, outside, history, threadVars, TypeOK,
     Client, NoClient, Frame, EmptyFrame, StageOK, LockHeldExactlyInside,
     Inside, NoLossOK, OneRotation, LockedDetach, Solo, InTransit, PartsOK,
     Whole, IdOf, ClientOK, IdentityOK, First, Late, NumberingOK, Published,
     Publishing, RequestOK, HasRequest, Reattaching
<1>15. ASSUME NEW t \in Threads, DetachClose(t) PROVE IdentityOK'
  BY <1>15 DEF DetachClose, Finish, Release, connVars, outside, history,
     threadVars, TypeOK, Client, NoClient, Frame, EmptyFrame, StageOK,
     LockHeldExactlyInside, Inside, NoLossOK, OneRotation, LockedDetach,
     Solo, InTransit, PartsOK, Whole, IdOf, ClientOK, IdentityOK, First,
     Late, NumberingOK, Published, Publishing, RequestOK, HasRequest,
     Reattaching
<1>16. ASSUME NEW t \in Threads, DetachNull(t) PROVE IdentityOK'
  BY <1>16 DEF DetachNull, connVars, outside, history, threadVars, TypeOK,
     Client, NoClient, Frame, EmptyFrame, StageOK, LockHeldExactlyInside,
     Inside, NoLossOK, OneRotation, LockedDetach, Solo, InTransit, PartsOK,
     Whole, IdOf, ClientOK, IdentityOK, First, Late, NumberingOK, Published,
     Publishing, RequestOK, HasRequest, Reattaching
<1>17. ASSUME NEW t \in Threads, DetachMeta(t) PROVE IdentityOK'
  BY <1>17 DEF DetachMeta, connVars, outside, history, threadVars, TypeOK,
     Client, NoClient, Frame, EmptyFrame, StageOK, LockHeldExactlyInside,
     Inside, NoLossOK, OneRotation, LockedDetach, Solo, InTransit, PartsOK,
     Whole, IdOf, ClientOK, IdentityOK, First, Late, NumberingOK, Published,
     Publishing, RequestOK, HasRequest, Reattaching
<1>18. ASSUME NEW t \in Threads, DetachId(t) PROVE IdentityOK'
  BY <1>18 DEF DetachId, DetachReturns, Finish, connVars, outside, history,
     threadVars, TypeOK, Client, NoClient, Frame, EmptyFrame, StageOK,
     LockHeldExactlyInside, Inside, NoLossOK, OneRotation, LockedDetach,
     Solo, InTransit, PartsOK, Whole, IdOf, ClientOK, IdentityOK, First,
     Late, NumberingOK, Published, Publishing, RequestOK, HasRequest,
     Reattaching
<1>19. ASSUME NEW t \in Threads, CheckFeature(t) PROVE IdentityOK'
  BY <1>19 DEF CheckFeature, Finish, connVars, outside, history, threadVars,
     TypeOK, Client, NoClient, Frame, EmptyFrame, StageOK,
     LockHeldExactlyInside, Inside, NoLossOK, OneRotation, LockedDetach,
     Solo, InTransit, PartsOK, Whole, IdOf, ClientOK, IdentityOK, First,
     Late, NumberingOK, Published, Publishing, RequestOK, HasRequest,
     Reattaching
<1>20. ASSUME NEW t \in Threads, LoadId(t) PROVE IdentityOK'
  <2>1. client = First => instId = IdOf(1)
    <3>. SUFFICES ASSUME client = First PROVE instId = IdOf(1)
      OBVIOUS
    <3>1. Whole
      <4>1. CASE \A s \in Threads : ~InTransit(s)
        BY <4>1 DEF PartsOK
      <4>2. ASSUME NEW s \in Threads, InTransit(s) PROVE Whole
        BY <4>2 DEF PartsOK, InTransit, Detached, First, NoClient, ClientOK
      <4>. QED  BY <4>1, <4>2
    <3>2. meta = 1
      BY <3>1 DEF Whole, PartsOK, ClientOK, TypeOK, First, NoClient
    <3>. QED  BY <3>1, <3>2 DEF Whole
  <2>2. /\ UNCHANGED <<client, generation, stage, engine, out>>
        /\ pc[t] = "loadId" /\ pc' = [pc EXCEPT ![t] = "loadGen"]
        /\ stage[t] = "call"
    BY <1>20 DEF LoadId, connVars, outside, StageOK
  <2>3. \A s \in Threads :
          /\ frame'[s].fn = frame[s].fn /\ frame'[s].myGen = frame[s].myGen
          /\ frame'[s].oldId = IF s = t THEN instId ELSE frame[s].oldId
    BY <1>20 DEF LoadId, TypeOK, Frame
  <2>. QED
    BY <2>1, <2>2, <2>3 DEF TypeOK, IdentityOK, Reattaching, Late
<1>21. ASSUME NEW t \in Threads, LoadGeneration(t) PROVE IdentityOK'
  BY <1>21 DEF LoadGeneration, connVars, outside, history, threadVars,
     TypeOK, Client, NoClient, Frame, EmptyFrame, StageOK,
     LockHeldExactlyInside, Inside, NoLossOK, OneRotation, LockedDetach,
     Solo, InTransit, PartsOK, Whole, IdOf, ClientOK, IdentityOK, First,
     Late, NumberingOK, Published, Publishing, RequestOK, HasRequest,
     Reattaching
<1>22. ASSUME NEW t \in Threads, LoadClient(t) PROVE IdentityOK'
  <2>1. /\ UNCHANGED <<client, generation, stage, engine>>
        /\ pc[t] = "loadFn"
    BY <1>22 DEF LoadClient, connVars, outside
  <2>2. CASE client = NoClient
    <3>1. /\ pc' = [pc EXCEPT ![t] = "ret"] /\ UNCHANGED frame
          /\ out' = [out EXCEPT ![t] = "uncaught"]
      BY <1>22, <2>2 DEF LoadClient, Finish
    <3>. QED
      BY <2>1, <3>1 DEF TypeOK, StageOK, IdentityOK, Reattaching, Late, IdOf
  <2>3. CASE client # NoClient
    <3>1. /\ pc' = [pc EXCEPT ![t] = "send"] /\ UNCHANGED out
          /\ frame' = [frame EXCEPT ![t].fn = client]
      BY <1>22, <2>3 DEF LoadClient
    <3>2. \A s \in Threads :
            /\ frame'[s].oldId = frame[s].oldId
            /\ frame'[s].myGen = frame[s].myGen
            /\ frame'[s].fn = IF s = t THEN client ELSE frame[s].fn
      BY <3>1 DEF TypeOK, Frame
    <3>3. client = First \/ (client.token = 2 /\ Late)
      BY <2>3 DEF ClientOK
    <3>. QED
      BY <2>1, <3>1, <3>2, <3>3 DEF TypeOK, StageOK, IdentityOK, Reattaching,
         Late
  <2>. QED  BY <2>2, <2>3
<1>23. ASSUME NEW t \in Threads, Send(t) PROVE IdentityOK'
  BY <1>23 DEF Send, Finish, connVars, outside, history, threadVars, TypeOK,
     Client, NoClient, Frame, EmptyFrame, StageOK, LockHeldExactlyInside,
     Inside, NoLossOK, OneRotation, LockedDetach, Solo, InTransit, PartsOK,
     Whole, IdOf, ClientOK, IdentityOK, First, Late, NumberingOK, Published,
     Publishing, RequestOK, HasRequest, Reattaching
<1>24. ASSUME NEW t \in Threads, Answered(t) PROVE IdentityOK'
  BY <1>24 DEF Answered, Runs, Accepts, Finish, connVars, outside, history,
     threadVars, TypeOK, Client, NoClient, Frame, EmptyFrame, StageOK,
     LockHeldExactlyInside, Inside, NoLossOK, OneRotation, LockedDetach,
     Solo, InTransit, PartsOK, Whole, IdOf, ClientOK, IdentityOK, First,
     Late, NumberingOK, Published, Publishing, RequestOK, HasRequest,
     Reattaching
<1>25. ASSUME NEW t \in Threads, Refused(t) PROVE IdentityOK'
  <2>1. /\ UNCHANGED <<client, generation, engine, frame>>
        /\ pc[t] = "wait" /\ frame[t].fn.token # engine.token
        /\ engine.inc \notin Open
    BY <1>25 DEF Refused, Accepts, connVars, outside
  <2>2. frame[t].fn = First /\ Late
    BY <2>1 DEF IdentityOK, ClientOK, Late, First
  <2>3. CASE stage[t] = "call"
    <3>1. /\ pc' = [pc EXCEPT ![t] = "relock"] /\ UNCHANGED out
          /\ stage' = [stage EXCEPT ![t] = "reattach"]
      BY <1>25, <2>3 DEF Refused
    <3>2. frame[t].oldId = IdOf(1)
      BY <2>1, <2>2, <2>3 DEF IdentityOK
    <3>3. Late' /\ frame[t].myGen >= 1
      BY <2>1, <2>2, <2>3 DEF IdentityOK, Late
    <3>4. \A s \in Threads :
            /\ s # t => pc'[s] = pc[s] /\ stage'[s] = stage[s]
            /\ pc'[t] = "relock" /\ stage'[t] = "reattach"
      BY <3>1 DEF TypeOK
    <3>. QED
      BY <2>1, <2>2, <3>1, <3>2, <3>3, <3>4 DEF IdentityOK, Reattaching, Late
  <2>4. CASE stage[t] # "call"
    <3>1. /\ pc' = [pc EXCEPT ![t] = "ret"] /\ UNCHANGED stage
          /\ out' = [out EXCEPT ![t] = "denied"]
      BY <1>25, <2>4 DEF Refused, Finish
    <3>. QED
      BY <2>1, <2>4, <3>1 DEF TypeOK, StageOK, IdentityOK, Reattaching, Late
  <2>. QED  BY <2>3, <2>4
<1>26. ASSUME NEW t \in Threads, Lost(t) PROVE IdentityOK'
  BY <1>26 DEF Lost, Runs, Accepts, Finish, connVars, outside, history,
     threadVars, TypeOK, Client, NoClient, Frame, EmptyFrame, StageOK,
     LockHeldExactlyInside, Inside, NoLossOK, OneRotation, LockedDetach,
     Solo, InTransit, PartsOK, Whole, IdOf, ClientOK, IdentityOK, First,
     Late, NumberingOK, Published, Publishing, RequestOK, HasRequest,
     Reattaching
<1>27. ASSUME NEW t \in Threads, Relock(t) PROVE IdentityOK'
  BY <1>27 DEF Relock, connVars, outside, history, threadVars, TypeOK,
     Client, NoClient, Frame, EmptyFrame, StageOK, LockHeldExactlyInside,
     Inside, NoLossOK, OneRotation, LockedDetach, Solo, InTransit, PartsOK,
     Whole, IdOf, ClientOK, IdentityOK, First, Late, NumberingOK, Published,
     Publishing, RequestOK, HasRequest, Reattaching
<1>28. ASSUME NEW t \in Threads, CompareId(t) PROVE IdentityOK'
  <2>1. /\ UNCHANGED <<client, generation, engine, frame>>
        /\ pc[t] = "newId" /\ frame[t].oldId = IdOf(1) /\ client # NoClient
    BY <1>28 DEF CompareId, connVars, outside, IdentityOK
  <2>2. instId = IdOf(1)
    <3>1. lock = t
      BY <2>1 DEF LockHeldExactlyInside, Inside
    <3>2. \A s \in Threads : ~InTransit(s)
      BY <2>1, <3>1 DEF InTransit, StageOK, NoLossOK, OneRotation,
         LockHeldExactlyInside, Inside
    <3>3. Whole
      BY <3>2 DEF PartsOK
    <3>4. meta = 1
      BY <2>1, <3>3 DEF Whole, PartsOK, ClientOK, TypeOK
    <3>. QED  BY <3>3, <3>4 DEF Whole
  <2>3. /\ pc' = [pc EXCEPT ![t] = "loadFn"] /\ UNCHANGED out
        /\ stage' = [stage EXCEPT ![t] = "replay"]
    BY <1>28, <2>1, <2>2 DEF CompareId
  <2>. QED
    BY <2>1, <2>3 DEF TypeOK, StageOK, IdentityOK, Reattaching, Late
<1>29. CASE UNCHANGED vars
  BY <1>29 DEF vars, connVars, outside, history, threadVars, TypeOK, Client,
     NoClient, Frame, EmptyFrame, StageOK, LockHeldExactlyInside, Inside,
     NoLossOK, OneRotation, LockedDetach, Solo, InTransit, PartsOK, Whole,
     IdOf, ClientOK, IdentityOK, First, Late, NumberingOK, Published,
     Publishing, RequestOK, HasRequest, Reattaching
<1>. QED
  BY <1>1, <1>2, <1>3, <1>4, <1>5, <1>6, <1>7, <1>8, <1>9, <1>10, <1>11,
     <1>12, <1>13, <1>14, <1>15, <1>16, <1>17, <1>18, <1>19, <1>20, <1>21,
     <1>22, <1>23, <1>24, <1>25, <1>26, <1>27, <1>28, <1>29 DEF Next, Step,
     Attach, Detach, Call, Finished

-----------------------------------------------------------------------------
\* What they show

\* The attach state is in one piece, or one transition is at work on it.
WholeInv == NoLossOK /\ Solo /\ PartsOK

\* The bridge starts whole, attached or not.
LEMMA WholeInit ==
  ASSUME Init
  PROVE  NoLossOK /\ Solo /\ PartsOK
<1>1. NoLossOK /\ Solo
  BY DEF Init, NoLossOK, Solo, InTransit, AttachSteps, DetachSteps
<1>2. PartsOK
  BY ConnectionAssumption DEF Init, PartsOK, InTransit, AttachSteps,
     DetachSteps, Whole, NoClient, Null
<1>. QED  BY <1>1, <1>2

\* Each step leaves it whole, or in the hands of one transition.
LEMMA WholeStep ==
  ASSUME OneCaller \/ LockedDetach, IInv, WholeInv, [Next]_vars
  PROVE  WholeInv'
<1>1. IInv'
  BY InvStep
<1>2. NoLossOK'
  BY NoLossStep DEF IInv, WholeInv
<1>3. Solo'
  <2>1. TypeOK' /\ StageOK' /\ LockHeldExactlyInside'
    BY <1>1 DEF IInv
  <2>. QED  BY <1>2, <2>1, SoloHolds, PTL
<1>4. PartsOK'
  BY <1>3, PartsStep DEF IInv, WholeInv
<1>. QED  BY <1>2, <1>3, <1>4 DEF WholeInv

\* If every detach holds _lock, or the bridge serves one caller, then between
\* transitions the attach state is whole: a client with the features, the
\* engine info and the identity of one engine, or none of them.
THEOREM WholeAttachState ==
  ASSUME OneCaller \/ LockedDetach
  PROVE  Spec => []WholeWhenSettled
<1>1. Init => WholeInv
  BY WholeInit DEF WholeInv
<1>2. IInv /\ WholeInv /\ [Next]_vars => WholeInv'
  BY OneCaller \/ LockedDetach, WholeStep
<1>3. WholeInv => WholeWhenSettled
  BY DEF WholeInv, PartsOK, InTransit, Whole, WholeWhenSettled
<1>. QED  BY <1>1, <1>2, <1>3, Invariance, PTL DEF Spec

\* Under the same hypotheses an attached bridge lacks the features of its
\* engine only between the statements that publish client and features.
THEOREM FeaturesAreThere ==
  ASSUME OneCaller \/ LockedDetach
  PROVE  Spec => []FeaturesFollowClient
<1>1. Init => WholeInv
  BY WholeInit DEF WholeInv
<1>2. IInv /\ WholeInv /\ [Next]_vars => WholeInv'
  BY OneCaller \/ LockedDetach, WholeStep
<1>3. WholeInv => FeaturesFollowClient
  <2>. SUFFICES ASSUME WholeInv, client # NoClient, meta = Null
                PROVE  \E t \in Threads : pc[t] = "pubMeta"
    BY DEF FeaturesFollowClient
  <2>1. PICK t \in Threads : InTransit(t)
    BY DEF WholeInv, PartsOK, Whole
  <2>2. /\ pc[t] \notin {"token", "info", "pubClient"}
        /\ pc[t] \notin DetachSteps \cup {"pubGen"}
    BY DEF WholeInv, PartsOK, Whole, Detached, DetachSteps
  <2>3. pc[t] # "pubId"
    BY DEF WholeInv, PartsOK, Null
  <2>. QED  BY <2>1, <2>2, <2>3 DEF InTransit, AttachSteps
<1>. QED  BY <1>1, <1>2, <1>3, Invariance, PTL DEF Spec

\* With one caller, whatever the losses, restarts and new tokens, the agent is
\* told of a restart only when there has been one.
THEOREM OneCallerNoSpuriousRestart ==
  ASSUME OneCaller
  PROVE  Spec => []NoSpuriousRestart
<1>1. Init => WholeInv /\ CallerOK
  <2>1. Init => CallerOK
    BY DEF Init, CallerOK, Remembers, InTransit, AttachSteps, DetachSteps
  <2>. QED  BY <2>1, WholeInit DEF WholeInv
<1>2. IInv /\ WholeInv /\ CallerOK /\ [Next]_vars => WholeInv' /\ CallerOK'
  BY OneCaller, WholeStep, CallerStep DEF IInv, WholeInv
<1>3. CallerOK => NoSpuriousRestart
  BY DEF CallerOK, NoSpuriousRestart
<1>. QED  BY <1>1, <1>2, <1>3, Invariance, PTL DEF Spec

\* Any number of threads refused at once because the engine took another
\* token: one reattaches, and none is told that the engine restarted.  (With a
\* second new token before the first refusals are dealt with, some may be: a
\* run shows it.)
THEOREM OneRotationNoSpuriousRestart ==
  ASSUME OneRotation
  PROVE  Spec => []NoSpuriousRestart
<1>1. Init => WholeInv /\ ClientOK /\ IdentityOK
  <2>1. Init => ClientOK /\ IdentityOK
    BY DEF OneRotation, Init, ClientOK, IdentityOK, InTransit, AttachSteps,
       DetachSteps, NoClient, First, Reattaching
  <2>. QED  BY <2>1, WholeInit DEF WholeInv
<1>2. IInv /\ WholeInv /\ ClientOK /\ IdentityOK /\ [Next]_vars
        => WholeInv' /\ ClientOK' /\ IdentityOK'
  <2>1. OneCaller \/ LockedDetach
    BY OneRotation DEF OneRotation
  <2>. QED
    BY <2>1, OneRotation, WholeStep, ClientStep, IdentityStep
    DEF IInv, WholeInv
<1>3. IdentityOK => NoSpuriousRestart
  BY DEF IdentityOK, NoSpuriousRestart
<1>. QED  BY <1>1, <1>2, <1>3, Invariance, PTL DEF Spec

\* With one caller, and engines that all check their token, a replayed request
\* runs on the instance it was first sent to.
THEOREM OneCallerReplays ==
  ASSUME OneCaller, Open = {}
  PROVE  Spec => []ReplayStaysOnInstance
<1> DEFINE All == WholeInv /\ CallerOK /\ TokenOK /\ ReplayOK
<1>1. Init => All
  <2>1. Init => CallerOK /\ ReplayOK
    BY DEF Init, CallerOK, Remembers, InTransit, AttachSteps, DetachSteps,
       ReplayOK
  <2>2. Init => TokenOK
    BY DEF Init, TokenOK, NoClient, EmptyFrame, Null
  <2>. QED  BY <2>1, <2>2, WholeInit DEF WholeInv
<1>2. IInv /\ All /\ [Next]_vars => All'
  BY OneCaller, Open = {}, WholeStep, CallerStep, TokenStep, ReplayStep
  DEF IInv, WholeInv
<1>3. All => ReplayStaysOnInstance
  BY DEF ReplayOK, ReplayStaysOnInstance
<1>. QED  BY <1>1, <1>2, <1>3, Invariance, PTL DEF Spec
=============================================================================
