----------------------------- MODULE Connection -----------------------------
(***************************************************************************)
(* The bridge's shared attach state (connection.py) and the worker threads *)
(* that use it, one tool call per thread at a time (server.py dispatches   *)
(* every handler to a thread of its own).                                  *)
(*                                                                         *)
(* Each Python statement that reads or writes the shared state is a step   *)
(* of its own, because other threads run between any two of them: _lock    *)
(* is held by the attach, never by a request, and detach() is called with  *)
(* it (after a 401) and without it (after a transport error, and by        *)
(* bridge_connect and bridge_disconnect).                                  *)
(*                                                                         *)
(* Data abstraction.  An engine process is its incarnation number; its     *)
(* instance_id, features and capabilities are functions of that number.    *)
(* _features, _capabilities, _engine_info and _effective are set together  *)
(* and are one variable, meta: the incarnation they were read from.        *)
(* Null (0) is Python's None.                                              *)
(***************************************************************************)
EXTENDS Naturals, FiniteSets

CONSTANTS
  Threads,            \* worker threads
  Ops,                \* what a thread may be asked to do, a subset of AllOps
  MaxCalls,           \* bound: operations invoked in a behaviour
  MaxIncarnation,     \* bound: engine processes started
  MaxToken,           \* bound: tokens issued
  Faults,             \* the disturbances considered, a subset of AllFaults
  StartAttached,      \* is the bridge attached to the engine initially?
  TokenlessAllowed,   \* _tokenless_allowed(): no auth configured, loopback
  Open,               \* incarnations that do not check the token
  Legacy,             \* incarnations that predate instance_id
  Enabled,            \* incarnations with the gated tool's feature enabled
  Incompatible        \* incarnations whose protocol version is refused

AllOps == {"call", "gated", "connect", "disconnect"}
Calls  == {"call", "gated"}

\* The engine process ends, its token changes, a request to it is lost.
AllFaults == {"crash", "rotate", "loss"}

ASSUME ConnectionAssumption ==
  /\ 0 \notin Threads
  /\ Ops \subseteq AllOps
  /\ MaxCalls \in Nat /\ MaxIncarnation \in Nat /\ MaxToken \in Nat
  /\ Faults \subseteq AllFaults
  /\ StartAttached \in BOOLEAN /\ TokenlessAllowed \in BOOLEAN
  /\ Open \subseteq Nat /\ Legacy \subseteq Nat
  /\ Enabled \subseteq Nat /\ Incompatible \subseteq Nat

VARIABLES
  \* Connection
  client,       \* _client: the DosboxClient, numbered, and its token
  closed,       \* the clients whose close() has been called
  meta,         \* _features, _capabilities, _engine_info, _effective
  instId,       \* _instance_id
  generation,   \* _generation
  lock,         \* _lock: the holder, or Null
  cfgToken,     \* config.token, the remembered token
  \* the outside: the engine behind base_url, and the token file
  engine,       \* is it up, its incarnation and its current token
  fileToken,    \* what read_token() returns
  \* the worker threads
  pc,           \* the statement a thread is about to execute
  op,           \* the operation it serves
  stage,        \* the part of the operation it is in
  frame,        \* its local variables
  calls,        \* operations invoked so far
  \* history
  ran,          \* how often a thread's request has run in an engine
  ranOn,        \* the incarnation it last ran on
  out           \* the outcome of its operation

connVars   == <<client, closed, meta, instId, generation>>
outside    == <<engine, fileToken>>
history    == <<ran, ranOn>>
threadVars == <<pc, op, stage, frame, calls, history, out>>
vars == <<connVars, lock, cfgToken, outside, threadVars>>

Null       == 0
Client     == [n : Nat, token : Nat]
NoClient   == [n |-> 0, token |-> Null]
Frame      == [token : Nat, info : Nat, oldId : Nat, myGen : Nat, fn : Client]
EmptyFrame == [token |-> Null, info |-> Null, oldId |-> Null, myGen |-> 0,
               fn |-> NoClient]

AttachSteps == {"token", "info", "pubClient", "pubMeta", "pubId", "pubGen"}
DetachSteps == {"detCheck", "detClose", "detNull", "detMeta", "detId"}
CallSteps   == {"check", "loadId", "loadGen", "loadFn", "send", "wait",
                "relock", "newId"}
Steps  == {"idle", "ensure", "wantLock", "ret"}
            \cup AttachSteps \cup DetachSteps \cup CallSteps
Stages == {"guard", "call", "reattach", "replay", "loss", "manage"}
Outcomes == {"none", "ok", "error", "restarted", "denied", "feature_off",
             "done", "not_connected", "uncaught"}

TypeOK ==
  /\ client \in Client
  /\ closed \subseteq Nat
  /\ meta \in Nat /\ instId \in Nat /\ generation \in Nat
  /\ lock \in Threads \cup {Null}
  /\ cfgToken \in Nat
  /\ engine \in [up : BOOLEAN, inc : Nat, token : Nat]
  /\ fileToken \in Nat
  /\ pc \in [Threads -> Steps]
  /\ op \in [Threads -> AllOps]
  /\ stage \in [Threads -> Stages]
  /\ frame \in [Threads -> Frame]
  /\ calls \in Nat
  /\ ran \in [Threads -> Nat]
  /\ ranOn \in [Threads -> Nat]
  /\ out \in [Threads -> Outcomes]

-----------------------------------------------------------------------------
\* The engine

IdOf(inc) == IF inc \in Legacy THEN Null ELSE inc

Accepts(token) == engine.token = token \/ engine.inc \in Open

\* The engine process ends: crash, bridge_stop, dosbox_shutdown, the user.
Crash ==
  /\ "crash" \in Faults
  /\ engine.up
  /\ engine' = [engine EXCEPT !.up = FALSE]
  /\ UNCHANGED <<connVars, lock, cfgToken, fileToken, threadVars>>

\* A new engine process starts at the same base_url, with a token of its own.
Boot ==
  /\ ~engine.up
  /\ engine.inc < MaxIncarnation
  /\ engine.token < MaxToken
  /\ engine' = [up |-> TRUE, inc |-> engine.inc + 1,
                token |-> engine.token + 1]
  /\ UNCHANGED <<connVars, lock, cfgToken, fileToken, threadVars>>

\* The running process takes another token: the one the bridge has is stale.
Rotate ==
  /\ "rotate" \in Faults
  /\ engine.up
  /\ engine.token < MaxToken
  /\ engine' = [engine EXCEPT !.token = @ + 1]
  /\ UNCHANGED <<connVars, lock, cfgToken, fileToken, threadVars>>

\* The process writes its token file (webserver_token_file = true).
WriteTokenFile ==
  /\ engine.up
  /\ fileToken # engine.token
  /\ fileToken' = engine.token
  /\ UNCHANGED <<connVars, lock, cfgToken, engine, threadVars>>

Outside == Crash \/ Boot \/ Rotate \/ WriteTokenFile

-----------------------------------------------------------------------------
\* Control flow of a thread

Goto(t, label) == pc' = [pc EXCEPT ![t] = label]

\* The operation is over: the outcome is known, guard() is about to return it.
Finish(t, o) ==
  /\ Goto(t, "ret")
  /\ out' = [out EXCEPT ![t] = o]

Release(t) == lock' = IF lock = t THEN Null ELSE lock

\* The locals of _try_connect() are gone when it returns or raises.
LeaveAttach(t) ==
  frame' = [frame EXCEPT ![t] = [@ EXCEPT !.token = Null, !.info = Null]]

\* The mode's tool call, or the bridge tool, is dispatched to a free thread.
Invoke(t, o) ==
  /\ pc[t] = "idle"
  /\ calls < MaxCalls
  /\ calls' = calls + 1
  /\ op' = [op EXCEPT ![t] = o]
  /\ IF o \in Calls
     THEN /\ Goto(t, "ensure")
          /\ stage' = [stage EXCEPT ![t] = "guard"]
     ELSE /\ Goto(t, "detCheck")
          /\ stage' = [stage EXCEPT ![t] = "manage"]
  /\ ran' = [ran EXCEPT ![t] = 0]
  /\ out' = [out EXCEPT ![t] = "none"]
  /\ UNCHANGED <<connVars, lock, cfgToken, outside, frame, ranOn>>

\* guard() hands the result to the server and the thread is free again.
Return(t) ==
  /\ pc[t] = "ret"
  /\ Goto(t, "idle")
  /\ op' = [op EXCEPT ![t] = "call"]
  /\ stage' = [stage EXCEPT ![t] = "guard"]
  /\ frame' = [frame EXCEPT ![t] = EmptyFrame]
  /\ ranOn' = [ranOn EXCEPT ![t] = Null]
  /\ UNCHANGED <<connVars, lock, cfgToken, outside, calls, ran, out>>

-----------------------------------------------------------------------------
\* ensure_connected() and _try_connect()

\* ensure_connected() returns: to guard()'s feature check, to call(), or to
\* bridge_connect.
Connected(t) ==
  \/ stage[t] = "guard" /\ Goto(t, "check") /\ UNCHANGED out
  \/ stage[t] = "call" /\ Goto(t, "loadId") /\ UNCHANGED out
  \/ stage[t] = "manage" /\ Finish(t, "done")

Ensure(t) ==
  /\ pc[t] = "ensure"
  /\ IF client # NoClient
     THEN Connected(t)
     ELSE Goto(t, "wantLock") /\ UNCHANGED out
  /\ UNCHANGED <<connVars, lock, cfgToken, outside, op, stage, frame, calls,
                 history>>

\* Mutant of EnsureLocked: the client is not tested again under the lock.
EnsureLockedCheckingOnce(t) ==
  /\ pc[t] = "wantLock"
  /\ lock = Null
  /\ lock' = t
  /\ Goto(t, "token")
  /\ UNCHANGED <<connVars, cfgToken, outside, op, stage, frame, calls,
                 history, out>>

\* The lock is taken and the client tested again; if another thread has
\* attached meanwhile the lock is released at once.
EnsureLocked(t) ==
  /\ pc[t] = "wantLock"
  /\ lock = Null
  /\ IF client # NoClient
     THEN Connected(t) /\ UNCHANGED lock
     ELSE /\ lock' = t
          /\ Goto(t, "token")
          /\ UNCHANGED out
  /\ UNCHANGED <<connVars, cfgToken, outside, op, stage, frame, calls,
                 history>>

\* Mutant of AttachFails: the exception leaves the lock taken.
AttachFailsKeepingLock(t) ==
  /\ Finish(t, "not_connected")
  /\ LeaveAttach(t)
  /\ UNCHANGED <<connVars, lock, outside, op, stage, calls, history>>

\* _try_connect() raises NotConnected: the lock is released on the way out.
AttachFails(t) ==
  /\ Finish(t, "not_connected")
  /\ Release(t)
  /\ LeaveAttach(t)
  /\ UNCHANGED <<connVars, outside, op, stage, calls, history>>

LookedUpToken == IF cfgToken # Null THEN cfgToken ELSE fileToken

ReadToken(t) ==
  /\ pc[t] = "token"
  /\ IF LookedUpToken = Null /\ ~TokenlessAllowed
     THEN AttachFails(t) /\ UNCHANGED cfgToken
     ELSE /\ frame' = [frame EXCEPT ![t].token = LookedUpToken]
          /\ Goto(t, "info")
          /\ UNCHANGED <<connVars, lock, cfgToken, outside, op, stage, calls,
                         history, out>>

\* The first answer of the engine: its info.
InfoAccepted(t) ==
  /\ pc[t] = "info"
  /\ engine.up /\ Accepts(frame[t].token)
  /\ engine.inc \notin Incompatible
  /\ frame' = [frame EXCEPT ![t].info = engine.inc]
  /\ Goto(t, "pubClient")
  /\ UNCHANGED <<connVars, lock, cfgToken, outside, op, stage, calls,
                 history, out>>

\* Mutant of InfoStaleToken: the token looked up again is the one refused.
InfoStaleTokenKept(t) ==
  /\ pc[t] = "info"
  /\ engine.up /\ ~Accepts(frame[t].token)
  /\ frame[t].token # Null /\ cfgToken # Null
  /\ Goto(t, "token")
  /\ UNCHANGED <<connVars, lock, cfgToken, outside, op, stage, frame, calls,
                 history, out>>

\* 401 with a remembered token: it is dropped and the lookup tried again.
InfoStaleToken(t) ==
  /\ pc[t] = "info"
  /\ engine.up /\ ~Accepts(frame[t].token)
  /\ frame[t].token # Null /\ cfgToken # Null
  /\ cfgToken' = Null
  /\ Goto(t, "token")
  /\ UNCHANGED <<connVars, lock, outside, op, stage, frame, calls, history,
                 out>>

\* Unreachable, 401 without a remembered token, or an incompatible version.
InfoFails(t) ==
  /\ pc[t] = "info"
  /\ \/ ~engine.up \/ "loss" \in Faults
     \/ ~Accepts(frame[t].token) /\ (frame[t].token = Null \/ cfgToken = Null)
     \/ Accepts(frame[t].token) /\ engine.inc \in Incompatible
  /\ AttachFails(t)
  /\ UNCHANGED cfgToken

PublishClient(t) ==
  /\ pc[t] = "pubClient"
  /\ client' = [n |-> generation + 1, token |-> frame[t].token]
  /\ Goto(t, "pubMeta")
  /\ UNCHANGED <<closed, meta, instId, generation, lock, cfgToken, outside,
                 op, stage, frame, calls, history, out>>

\* Mutant of PublishMeta: a reattach leaves the features as they are.
PublishMetaAtFirstAttach(t) ==
  /\ pc[t] = "pubMeta"
  /\ meta' = IF stage[t] = "reattach" THEN meta ELSE frame[t].info
  /\ Goto(t, "pubId")
  /\ UNCHANGED <<client, closed, instId, generation, lock, cfgToken, outside,
                 op, stage, frame, calls, history, out>>

PublishMeta(t) ==
  /\ pc[t] = "pubMeta"
  /\ meta' = frame[t].info
  /\ Goto(t, "pubId")
  /\ UNCHANGED <<client, closed, instId, generation, lock, cfgToken, outside,
                 op, stage, frame, calls, history, out>>

PublishId(t) ==
  /\ pc[t] = "pubId"
  /\ instId' = IdOf(frame[t].info)
  /\ Goto(t, "pubGen")
  /\ UNCHANGED <<client, closed, meta, generation, lock, cfgToken, outside,
                 op, stage, frame, calls, history, out>>

\* Mutant of PublishGeneration: only the reattach after a 401 is counted.
PublishGenerationOnReattachOnly(t) ==
  /\ pc[t] = "pubGen"
  /\ IF stage[t] = "reattach"
     THEN /\ generation' = generation + 1
          /\ Goto(t, "newId")
          /\ UNCHANGED <<lock, out>>
     ELSE Connected(t) /\ Release(t) /\ UNCHANGED generation
  /\ LeaveAttach(t)
  /\ UNCHANGED <<client, closed, meta, instId, cfgToken, outside, op, stage,
                 calls, history>>

\* _try_connect() returns: to the 401 branch of call(), which keeps the lock,
\* or out of ensure_connected(), which releases it.
PublishGeneration(t) ==
  /\ pc[t] = "pubGen"
  /\ generation' = generation + 1
  /\ IF stage[t] = "reattach"
     THEN Goto(t, "newId") /\ UNCHANGED <<lock, out>>
     ELSE Connected(t) /\ Release(t)
  /\ LeaveAttach(t)
  /\ UNCHANGED <<client, closed, meta, instId, cfgToken, outside, op, stage,
                 calls, history>>

Attach(t) ==
  \/ Ensure(t) \/ EnsureLocked(t) \/ ReadToken(t)
  \/ InfoAccepted(t) \/ InfoStaleToken(t) \/ InfoFails(t)
  \/ PublishClient(t) \/ PublishMeta(t) \/ PublishId(t) \/ PublishGeneration(t)

-----------------------------------------------------------------------------
\* detach()

DetachCheck(t) ==
  /\ pc[t] = "detCheck"
  /\ Goto(t, IF client # NoClient THEN "detClose" ELSE "detNull")
  /\ UNCHANGED <<connVars, lock, cfgToken, outside, op, stage, frame, calls,
                 history, out>>

\* self._client is read again for close(): None by now is an AttributeError.
DetachClose(t) ==
  /\ pc[t] = "detClose"
  /\ IF client = NoClient
     THEN Finish(t, "uncaught") /\ Release(t) /\ UNCHANGED closed
     ELSE /\ closed' = closed \cup {client.n}
          /\ Goto(t, "detNull")
          /\ UNCHANGED <<lock, out>>
  /\ UNCHANGED <<client, meta, instId, generation, cfgToken, outside, op,
                 stage, frame, calls, history>>

\* Mutant of DetachNull: the closed client stays in place.
DetachNullKeepingClient(t) ==
  /\ pc[t] = "detNull"
  /\ Goto(t, "detMeta")
  /\ UNCHANGED <<connVars, lock, cfgToken, outside, op, stage, frame, calls,
                 history, out>>

DetachNull(t) ==
  /\ pc[t] = "detNull"
  /\ client' = NoClient
  /\ Goto(t, "detMeta")
  /\ UNCHANGED <<closed, meta, instId, generation, lock, cfgToken, outside,
                 op, stage, frame, calls, history, out>>

DetachMeta(t) ==
  /\ pc[t] = "detMeta"
  /\ meta' = Null
  /\ Goto(t, "detId")
  /\ UNCHANGED <<client, closed, instId, generation, lock, cfgToken, outside,
                 op, stage, frame, calls, history, out>>

\* detach() returns to its caller: call() after a 401 or a transport error,
\* bridge_connect, or bridge_disconnect.
DetachReturns(t) ==
  \/ stage[t] = "reattach" /\ Goto(t, "token") /\ UNCHANGED out
  \/ stage[t] = "loss" /\ Finish(t, "not_connected")
  \/ stage[t] = "manage" /\ op[t] = "connect"
       /\ Goto(t, "ensure") /\ UNCHANGED out
  \/ stage[t] = "manage" /\ op[t] = "disconnect" /\ Finish(t, "done")

\* Mutants of DetachId: the identity is kept; the generation is undone.
DetachIdKept(t) ==
  /\ pc[t] = "detId"
  /\ DetachReturns(t)
  /\ UNCHANGED <<connVars, lock, cfgToken, outside, op, stage, frame, calls,
                 history>>

DetachIdUndoingAttach(t) ==
  /\ pc[t] = "detId"
  /\ instId' = Null
  /\ generation' = generation - 1
  /\ DetachReturns(t)
  /\ UNCHANGED <<client, closed, meta, lock, cfgToken, outside, op, stage,
                 frame, calls, history>>

\* The last statement of detach(), and the return to its caller.
DetachId(t) ==
  /\ pc[t] = "detId"
  /\ instId' = Null
  /\ DetachReturns(t)
  /\ UNCHANGED <<client, closed, meta, generation, lock, cfgToken, outside,
                 op, stage, frame, calls, history>>

Detach(t) ==
  \/ DetachCheck(t) \/ DetachClose(t)
  \/ DetachNull(t) \/ DetachMeta(t) \/ DetachId(t)

-----------------------------------------------------------------------------
\* guard() and call()

\* A gated tool is refused unless the published features have its feature on.
CheckFeature(t) ==
  /\ pc[t] = "check"
  /\ IF op[t] = "gated" /\ meta \notin Enabled
     THEN Finish(t, "feature_off") /\ UNCHANGED stage
     ELSE /\ Goto(t, "ensure")
          /\ stage' = [stage EXCEPT ![t] = "call"]
          /\ UNCHANGED out
  /\ UNCHANGED <<connVars, lock, cfgToken, outside, op, frame, calls, history>>

LoadId(t) ==
  /\ pc[t] = "loadId"
  /\ frame' = [frame EXCEPT ![t].oldId = instId]
  /\ Goto(t, "loadGen")
  /\ UNCHANGED <<connVars, lock, cfgToken, outside, op, stage, calls, history,
                 out>>

LoadGeneration(t) ==
  /\ pc[t] = "loadGen"
  /\ frame' = [frame EXCEPT ![t].myGen = generation]
  /\ Goto(t, "loadFn")
  /\ UNCHANGED <<connVars, lock, cfgToken, outside, op, stage, calls, history,
                 out>>

\* getattr(self._client, method): on None it is an AttributeError.
LoadClient(t) ==
  /\ pc[t] = "loadFn"
  /\ IF client = NoClient
     THEN Finish(t, "uncaught") /\ UNCHANGED frame
     ELSE /\ frame' = [frame EXCEPT ![t].fn = client]
          /\ Goto(t, "send")
          /\ UNCHANGED out
  /\ UNCHANGED <<connVars, lock, cfgToken, outside, op, stage, calls, history>>

\* fn(path): httpx raises RuntimeError on a client that is already closed.
Send(t) ==
  /\ pc[t] = "send"
  /\ IF frame[t].fn.n \in closed
     THEN Finish(t, "uncaught")
     ELSE Goto(t, "wait") /\ UNCHANGED out
  /\ UNCHANGED <<connVars, lock, cfgToken, outside, op, stage, frame, calls,
                 history>>

\* The engine runs the request of thread t.
Runs(t) ==
  /\ engine.up /\ Accepts(frame[t].fn.token)
  /\ ran' = [ran EXCEPT ![t] = @ + 1]
  /\ ranOn' = [ranOn EXCEPT ![t] = engine.inc]

\* Mutant of Answered: call() replays on every error, not on a 401 alone.
AnsweredRetryingErrors(t) ==
  /\ pc[t] = "wait"
  /\ Runs(t)
  /\ \/ Finish(t, "ok") /\ UNCHANGED stage
     \/ stage[t] = "replay" /\ Finish(t, "error") /\ UNCHANGED stage
     \/ /\ stage[t] = "call"
        /\ Goto(t, "loadFn")
        /\ stage' = [stage EXCEPT ![t] = "replay"]
        /\ UNCHANGED out
  /\ UNCHANGED <<connVars, lock, cfgToken, outside, op, frame, calls>>

\* The request runs and its answer, a result or an error that is not a 401,
\* comes back.
Answered(t) ==
  /\ pc[t] = "wait"
  /\ Runs(t)
  /\ \E o \in {"ok", "error"} : Finish(t, o)
  /\ UNCHANGED <<connVars, lock, cfgToken, outside, op, stage, frame, calls>>

\* Mutant of Refused: the identity is read when the 401 comes, not before.
RefusedReadingIdThen(t) ==
  /\ pc[t] = "wait"
  /\ engine.up /\ ~Accepts(frame[t].fn.token)
  /\ IF stage[t] = "call"
     THEN /\ Goto(t, "relock")
          /\ stage' = [stage EXCEPT ![t] = "reattach"]
          /\ frame' = [frame EXCEPT ![t].oldId = instId]
          /\ UNCHANGED out
     ELSE Finish(t, "denied") /\ UNCHANGED <<stage, frame>>
  /\ UNCHANGED <<connVars, lock, cfgToken, outside, op, calls, history>>

\* 401: the first time call() goes for the lock, the second it is raised.
Refused(t) ==
  /\ pc[t] = "wait"
  /\ engine.up /\ ~Accepts(frame[t].fn.token)
  /\ IF stage[t] = "call"
     THEN /\ Goto(t, "relock")
          /\ stage' = [stage EXCEPT ![t] = "reattach"]
          /\ UNCHANGED out
     ELSE Finish(t, "denied") /\ UNCHANGED stage
  /\ UNCHANGED <<connVars, lock, cfgToken, outside, op, frame, calls, history>>

\* Mutant of Lost: the request is replayed after a transport error.
LostReplayed(t) ==
  /\ pc[t] = "wait"
  /\ ~engine.up \/ "loss" \in Faults
  /\ Runs(t) \/ UNCHANGED history
  /\ IF stage[t] = "call"
     THEN /\ Goto(t, "loadFn")
          /\ stage' = [stage EXCEPT ![t] = "replay"]
          /\ UNCHANGED out
     ELSE Finish(t, "uncaught") /\ UNCHANGED stage
  /\ UNCHANGED <<connVars, lock, cfgToken, outside, op, frame, calls>>

\* A transport error: the engine is gone, or ("loss") the answer did not come
\* in time, or another thread's detach closed the client under the request.
\* The request may have run.
\* The first time call() detaches, without the lock; a replay's is uncaught.
Lost(t) ==
  /\ pc[t] = "wait"
  /\ ~engine.up \/ "loss" \in Faults
  /\ Runs(t) \/ UNCHANGED history
  /\ IF stage[t] = "call"
     THEN /\ Goto(t, "detCheck")
          /\ stage' = [stage EXCEPT ![t] = "loss"]
          /\ UNCHANGED out
     ELSE Finish(t, "uncaught") /\ UNCHANGED stage
  /\ UNCHANGED <<connVars, lock, cfgToken, outside, op, frame, calls>>

\* Mutant of Relock: each refused thread reattaches on its own.
RelockAlwaysReattaching(t) ==
  /\ pc[t] = "relock"
  /\ lock = Null
  /\ lock' = t
  /\ Goto(t, "detCheck")
  /\ UNCHANGED <<connVars, cfgToken, outside, op, stage, frame, calls,
                 history, out>>

\* The 401 branch takes the lock and reattaches, unless another thread has
\* done so since the generation was read.
Relock(t) ==
  /\ pc[t] = "relock"
  /\ lock = Null
  /\ lock' = t
  /\ Goto(t, IF generation = frame[t].myGen THEN "detCheck" ELSE "newId")
  /\ UNCHANGED <<connVars, cfgToken, outside, op, stage, frame, calls,
                 history, out>>

\* Mutant of CompareId: an identity missing on one side is taken for unknown.
CompareIdIfBothKnown(t) ==
  /\ pc[t] = "newId"
  /\ lock' = Null
  /\ IF instId # Null /\ frame[t].oldId # Null /\ instId # frame[t].oldId
     THEN Finish(t, "restarted") /\ UNCHANGED stage
     ELSE /\ Goto(t, "loadFn")
          /\ stage' = [stage EXCEPT ![t] = "replay"]
          /\ UNCHANGED out
  /\ UNCHANGED <<connVars, cfgToken, outside, op, frame, calls, history>>

\* The identity now attached to is read, the lock released, and the request
\* replayed if it is the one seen before the call.
CompareId(t) ==
  /\ pc[t] = "newId"
  /\ lock' = Null
  /\ IF instId # frame[t].oldId
     THEN Finish(t, "restarted") /\ UNCHANGED stage
     ELSE /\ Goto(t, "loadFn")
          /\ stage' = [stage EXCEPT ![t] = "replay"]
          /\ UNCHANGED out
  /\ UNCHANGED <<connVars, cfgToken, outside, op, frame, calls, history>>

Call(t) ==
  \/ CheckFeature(t) \/ LoadId(t) \/ LoadGeneration(t) \/ LoadClient(t)
  \/ Send(t) \/ Answered(t) \/ Refused(t) \/ Lost(t)
  \/ Relock(t) \/ CompareId(t)

-----------------------------------------------------------------------------
\* The specification

\* A statement of thread t, once the operation is under way.
Step(t) == Attach(t) \/ Detach(t) \/ Call(t) \/ Return(t)

\* Every operation is over and no more are invoked.
Finished ==
  /\ \A t \in Threads : pc[t] = "idle"
  /\ calls = MaxCalls
  /\ UNCHANGED vars

Init ==
  /\ engine = [up |-> TRUE, inc |-> 1, token |-> 1]
  /\ fileToken \in {Null, 1}
  /\ cfgToken \in {Null, 1}
  /\ lock = Null
  /\ closed = {}
  /\ IF StartAttached
     THEN /\ client = [n |-> 1, token |-> 1]
          /\ meta = 1 /\ instId = IdOf(1) /\ generation = 1
     ELSE /\ client = NoClient
          /\ meta = Null /\ instId = Null /\ generation = 0
  /\ pc = [t \in Threads |-> "idle"]
  /\ op = [t \in Threads |-> "call"]
  /\ stage = [t \in Threads |-> "guard"]
  /\ frame = [t \in Threads |-> EmptyFrame]
  /\ calls = 0
  /\ ran = [t \in Threads |-> 0]
  /\ ranOn = [t \in Threads |-> Null]
  /\ out = [t \in Threads |-> "none"]

Next ==
  \/ Outside
  \/ \E t \in Threads : Step(t) \/ \E o \in Ops : Invoke(t, o)
  \/ Finished

Spec == Init /\ [][Next]_vars

\* A thread inside an operation is run by the scheduler; nothing is assumed of
\* the engine, since every wait for it ends with httpx's timeout.
FairSpec == Spec /\ \A t \in Threads : WF_vars(Step(t))
-----------------------------------------------------------------------------
\* Safety

\* The statements executed with _lock held.
Inside(t) ==
  \/ pc[t] \in AttachSteps \cup {"newId"}
  \/ pc[t] \in DetachSteps /\ stage[t] = "reattach"

\* _lock is held exactly by the thread inside one of its two critical
\* sections: no two threads attach at once, and every way out of a section,
\* NotConnected and AttributeError included, has released it.
LockHeldExactlyInside == \A t \in Threads : lock = t <=> Inside(t)

\* The client in use always comes from the latest attach: a detach or a
\* reattach that was overtaken never brings an older one back.
ClientIsLatest ==
  client # NoClient =>
    \/ client.n = generation
    \/ /\ client.n = generation + 1
       /\ \E t \in Threads : pc[t] \in {"pubMeta", "pubId", "pubGen"}

\* A closed client stays in use only while some thread is in the middle of
\* the detach that closed it: the bridge cannot be left with a client that
\* fails every request with RuntimeError.
ClosedOnlyWhileDetaching ==
  client.n \in closed => \E t \in Threads : pc[t] = "detNull"

\* A 401 tears down only the attach it was the answer to.  Of several threads
\* refused at once the first reattaches; the others, and those whose
\* request was sent on an older client, find the generation moved and reuse
\* the new attach (the reason _generation exists).
TearsDownOnlyRefused ==
  \A t \in Threads :
    pc[t] = "detClose" /\ stage[t] = "reattach"
      => client \in {frame[t].fn, NoClient}

\* What a returned outcome says about the request is true (module ToolCall
\* says what each one says): no request runs twice, one that was answered ran,
\* one reported as stopped by a restart, a 401 or a disabled feature did not.
Answers  == {"ok", "error"}
NeverRan == {"restarted", "denied", "feature_off", "done"}

OutcomeTruthful ==
  \A t \in Threads :
    /\ ran[t] <= 1
    /\ out[t] \in Answers  => ran[t] = 1
    /\ out[t] \in NeverRan => ran[t] = 0

\* Refinement: what a thread does is a tool call of module ToolCall.
Contract == INSTANCE ToolCall WITH
  phase   <- [t \in Threads |-> IF pc[t] = "idle" THEN "idle" ELSE "pending"],
  outcome <- [t \in Threads |-> IF pc[t] = "idle" THEN out[t] ELSE "none"]

ImplementsToolCall == Contract!Spec

\* EngineRestarted is reported only when the engine process did change,
\* however many threads are refused at once.
NoSpuriousRestart ==
  \A t \in Threads : out[t] = "restarted" => engine.inc > 1

\* A request that is replayed runs on the instance it was first sent to, as
\* far as instance ids can tell.
ReplayStaysOnInstance ==
  \A t \in Threads :
    pc[t] = "ret" /\ stage[t] = "replay" /\ ran[t] = 1
      => IdOf(ranOn[t]) = frame[t].oldId

\* Between transitions the attach state is whole: there is a client exactly
\* when there are features, and the identity is that of the same engine.
WholeWhenSettled ==
  (\A t \in Threads : pc[t] \notin AttachSteps \cup DetachSteps) =>
    /\ client = NoClient <=> meta = Null
    /\ instId = IF meta = Null THEN Null ELSE IdOf(meta)

\* The unlocked tests of guard() may find a client whose features are not yet
\* published, and refuse a tool whose feature the engine has, only in the
\* moment between the two statements of _try_connect(): no detach and no other
\* thread's reattach leaves the bridge attached without features.
FeaturesFollowClient ==
  client # NoClient /\ meta = Null => \E t \in Threads : pc[t] = "pubMeta"

-----------------------------------------------------------------------------
\* Liveness

\* No operation hangs: not on the lock, not on another thread's attach, not on
\* an engine that is gone.
EveryOperationReturns ==
  \A t \in Threads : pc[t] # "idle" ~> pc[t] = "idle"
=============================================================================
