------------------------------- MODULE Tools -------------------------------
(***************************************************************************)
(* Agents' tool calls from the server's dispatch to their result: the      *)
(* registry of the capability mode, the pool of worker threads, guard(),   *)
(* and the handlers, each a sequence of requests to one engine.  Other     *)
(* calls run between two requests of a handler, the engine restarts, hangs *)
(* and loses answers.                                                      *)
(*                                                                         *)
(* Abstraction.  The attach is one step and its state the engine process   *)
(* the bridge is attached to; module Connection has its statements.  The   *)
(* engine checks its token and has an instance id, so that a restart is    *)
(* noticed at the first 401.  Of the guest there is one memory cell, the   *)
(* list of breakpoints, the state of its script, and which other parts of  *)
(* it were changed at all; a running script changes them by itself.  The   *)
(* process that bridge_start spawns and bridge_stop ends is the engine's   *)
(* own restart; what the two do to the attach is Manage.                   *)
(* Time is counted in units of Connection's five seconds of slack.         *)
(***************************************************************************)
EXTENDS FiniteSets, ToolCatalog

CONSTANTS
  Agents,          \* callers, each with one call at a time
  Features,        \* the features the engine has enabled
  DefaultTimeout,  \* the client's timeout for a request
  Slack,           \* what a wait's timeout gets on top of its deadline
  MaxRestarts,     \* bound: restarts of the engine in a behaviour
  ScriptWrites,    \* what agents' scripts write to the memory cell
  ScriptReach,     \* the parts of the engine they reach besides memory
  Scenarios        \* what is offered to the agents, under which conditions

AllFaults == {"restart", "hang", "loss"}

\* What the arguments may say, where the handlers' requests depend on it.
Ways(tool) ==
  {None, "invalid"} \cup (CASE tool = "mem_write" -> {"increment"}
                          [] tool = "debug_breakpoint_delete" -> {"id", "index"}
                          [] tool = "script_load" -> {"only"}
                          [] OTHER -> {})

\* A call: the tool and what its handler reads of the arguments.
Call ==
  {c \in [tool : DOMAIN Catalog,
          by : {None, "invalid", "increment", "id", "index", "only"}, n : Nat] :
     c.by \in Ways(c.tool)}

ASSUME ToolsAssumption ==
  /\ DefaultTimeout \in Nat \ {0} /\ Slack \in Nat \ {0}
  /\ MaxRestarts \in Nat
  /\ ScriptWrites \subseteq Nat
  /\ ScriptReach \subseteq {"input", "capture", "mount"}
  /\ \A s \in Scenarios :
       /\ s.mode \in Modes
       /\ s.offered \subseteq Call
       /\ s.workers \in Nat \ {0}
       /\ s.calls \in Nat
       /\ s.faults \subseteq AllFaults

VARIABLES
  scenario,   \* mode, size of the thread pool, calls offered, bound on them,
              \* faults
  \* the engine
  inc,        \* its process, counted from 1
  hung,       \* it answers nothing
  guest,      \* what the tools look at and change
  \* the bridge
  attached,   \* the process the client is attached to, or 0
  queue,      \* the agents whose calls wait for a worker thread
  pc,         \* where the call of an agent is
  work,       \* the tool's registration and the requests left to make
  sentAs,     \* the process whose token the request on the wire carries
  age,        \* how long it has been on the wire
  out,        \* the outcome, while the call is being returned
  \* the agents
  known,      \* the value of the memory cell, as far as the agent knows
  spent,      \* calls made
  \* history
  got,        \* the processes that have served the call's requests
  disturbed,  \* a request of the call was lost or met a hung engine
  warned,     \* another call has failed or reconnected meanwhile
  acked,      \* increments acknowledged by the present process
  unsure      \* increments it made whose answer was lost

engineVars  == <<inc, hung, guest>>
callVars    == <<pc, work, sentAs, age, out>>
historyVars == <<got, disturbed, warned, acked, unsure>>
vars == <<scenario, engineVars, attached, queue, callVars, known, spent,
          historyVars>>

\* What one request asks of the engine.
Op(op, part, n, m) == [op |-> op, part |-> part, n |-> n, m |-> m]
Ops == {"query", "change", "read", "write", "cas", "add", "delete_id",
        "delete_index", "delete_all", "load", "start", "stop", "wait",
        "connect", "disconnect"}

NoWork == [guarded |-> FALSE, feature |-> None, valid |-> TRUE,
           by |-> None, todo |-> <<>>]

Fresh == [mem |-> 0, points |-> <<>>, next |-> 1, script |-> "none",
          touched |-> {}]

TypeOK ==
  /\ scenario \in Scenarios
  /\ inc \in Nat \ {0} /\ hung \in BOOLEAN
  /\ guest.mem \in Nat /\ guest.points \in Seq(Nat) /\ guest.next \in Nat
  /\ guest.script \in {"none", "loaded", "running"}
  /\ guest.touched \subseteq Parts
  /\ attached \in 0..inc
  /\ queue \in Seq(Agents)
  /\ pc \in [Agents -> {"idle", "queued", "send", "sent", "ret"}]
  /\ \A a \in Agents :
       /\ DOMAIN work[a] = DOMAIN NoWork
       /\ \A i \in DOMAIN work[a].todo : work[a].todo[i].op \in Ops
  /\ sentAs \in [Agents -> Nat] /\ age \in [Agents -> Nat]
  /\ out \in [Agents -> {"none", "ok", "conflict", "error", "invalid",
                         "unknown", "feature_off", "not_connected",
                         "restarted"}]
  /\ known \in [Agents -> Nat] /\ spent \in 0..scenario.calls
  /\ got \in [Agents -> SUBSET Nat]
  /\ disturbed \in [Agents -> BOOLEAN] /\ warned \in [Agents -> BOOLEAN]
  /\ acked \in Nat /\ unsure \in Nat

-----------------------------------------------------------------------------
\* The handlers whose requests depend on their arguments

\* The requests of any other handler, by what they do to the engine.
Plain(tool) ==
  [i \in DOMAIN Requests[tool] |->
     LET r == Requests[tool][i]
     IN  IF Changes(r) THEN Op("change", r.part, 0, 0)
         ELSE Op("query", None, 0, 0)]

\* _mem_read(): one request, whatever part of the answer is shown.
MemRead == <<Op("read", "memory", 0, 0)>>

\* _mem_path(), _validate_read_args(), _validate_write_data(): a handler sends
\* nothing if its arguments are refused here.
ArgumentsValid(c) == c.by # "invalid"

\* Mutant of MemWrite: the expected bytes are not passed on.
MemWriteUnconditional(a, c) ==
  IF c.by = "increment" THEN <<Op("write", "memory", 0, known[a] + 1)>>
  ELSE <<Op("write", "memory", 0, c.n)>>

\* _mem_write(): with "expected" the write is conditional (If-Match).
MemWrite(a, c) ==
  IF c.by = "increment" THEN <<Op("cas", "memory", known[a], known[a] + 1)>>
  ELSE <<Op("write", "memory", 0, c.n)>>

\* Mutant of BreakpointDelete: an index of zero counts as none.
BreakpointDeleteFalsyIndex(c) ==
  IF c.by = "id" THEN <<Op("delete_id", "debug", c.n, 0)>>
  ELSE IF c.by = "index" /\ c.n # 0
       THEN <<Op("delete_index", "debug", c.n, 0)>>
       ELSE <<Op("delete_all", "debug", 0, 0)>>

\* _breakpoint_delete(): whichever of id and index was given, or none.
BreakpointDelete(c) ==
  CASE c.by = "id"    -> <<Op("delete_id", "debug", c.n, 0)>>
    [] c.by = "index" -> <<Op("delete_index", "debug", c.n, 0)>>
    [] OTHER          -> <<Op("delete_all", "debug", 0, 0)>>

\* _script_load(): load, then start unless start = false.
ScriptLoad(c) ==
  <<Op("load", "script", 0, 0)>>
    \o (IF c.by = "only" THEN <<>> ELSE <<Op("start", "script", 0, 0)>>)

\* The tools whose one request waits in the engine.
WaitingTools == DOMAIN StopRequests \cup DOMAIN WaitRequests

\* The tools that attach anew, and that detach.  A start that is refused
\* because an engine runs, and a stop without one, do neither ("invalid").
AttachingTools == {"bridge_connect", "bridge_start"}
DetachingTools == {"bridge_disconnect", "bridge_stop"}

Handler(a, c) ==
  CASE c.tool = "mem_read"              -> MemRead
    [] c.tool = "mem_write"             -> MemWrite(a, c)
    [] c.tool = "debug_breakpoint_add"  -> <<Op("add", "debug", 0, 0)>>
    [] c.tool = "debug_breakpoint_delete" -> BreakpointDelete(c)
    [] c.tool = "script_load"           -> ScriptLoad(c)
    [] c.tool = "script_start"          -> <<Op("start", "script", 0, 0)>>
    [] c.tool = "script_stop"           -> <<Op("stop", "script", 0, 0)>>
    [] c.tool \in WaitingTools          -> <<Op("wait", None, c.n, 0)>>
    [] c.tool \in AttachingTools        -> <<Op("connect", None, 0, 0)>>
    [] c.tool \in DetachingTools        -> <<Op("disconnect", None, 0, 0)>>
    [] OTHER                            -> Plain(c.tool)

\* Mutant of Limit: a wait gets no slack.
LimitWithoutSlack(op) == IF op.op = "wait" THEN op.n ELSE DefaultTimeout

\* The timeout of a request: the client's own, or a wait's deadline and slack.
Limit(op) == IF op.op = "wait" THEN op.n + Slack ELSE DefaultTimeout

-----------------------------------------------------------------------------
\* The engine

\* Position of a breakpoint id in the list, 0 if there is none.
PlaceOf(id, points) ==
  IF \E i \in DOMAIN points : points[i] = id
  THEN CHOOSE i \in DOMAIN points : points[i] = id
  ELSE 0

Without(points, i) ==
  SubSeq(points, 1, i - 1) \o SubSeq(points, i + 1, Len(points))

\* The guest with its script in this state.
Scripted(g, state) ==
  [g EXCEPT !.script = state, !.touched = @ \cup {"script"}]

\* What a request does to the guest, and whether it is accepted: ids are
\* never used again, an index is the position in the list, counted from 0; a
\* script is loaded unless one runs, and started if one is loaded.
Apply(op, g) ==
  LET ok(new) == [reply |-> "ok", guest |-> new]
      refused == [reply |-> "error", guest |-> g]
      deleted(i) ==
        IF i \in DOMAIN g.points
        THEN ok([g EXCEPT !.points = Without(@, i)])
        ELSE refused
  IN  CASE op.op = "change" -> ok([g EXCEPT !.touched = @ \cup {op.part}])
        [] op.op = "write"  -> ok([g EXCEPT !.mem = op.m])
        [] op.op = "cas" /\ g.mem = op.n -> ok([g EXCEPT !.mem = op.m])
        [] op.op = "cas" /\ g.mem # op.n ->
             [reply |-> "conflict", guest |-> g]
        [] op.op = "add" ->
             ok([g EXCEPT !.points = Append(@, g.next), !.next = @ + 1])
        [] op.op = "delete_id"    -> deleted(PlaceOf(op.n, g.points))
        [] op.op = "delete_index" -> deleted(op.n + 1)
        [] op.op = "delete_all"   -> ok([g EXCEPT !.points = <<>>])
        [] op.op = "load" /\ g.script # "running" -> ok(Scripted(g, "loaded"))
        [] op.op = "start" /\ g.script = "loaded" -> ok(Scripted(g, "running"))
        [] op.op = "load" /\ g.script = "running" -> refused
        [] op.op = "start" /\ g.script # "loaded" -> refused
        [] op.op = "stop" ->
             ok(IF g.script = "running" THEN Scripted(g, "loaded") ELSE g)
        [] OTHER -> ok(g)

\* The engine ends and starts again: another process, another guest.
Restart ==
  /\ "restart" \in scenario.faults
  /\ inc <= MaxRestarts
  /\ inc' = inc + 1
  /\ hung' = FALSE
  /\ guest' = Fresh
  /\ acked' = 0 /\ unsure' = 0
  /\ UNCHANGED <<scenario, attached, queue, callVars, known, spent, got,
                 disturbed, warned>>

\* The emulator is stuck: no request is answered any more.
Hang ==
  /\ "hang" \in scenario.faults
  /\ ~hung
  /\ hung' = TRUE
  /\ UNCHANGED <<scenario, inc, guest, attached, queue, callVars, known,
                 spent, historyVars>>

\* The script that runs on the emulation thread writes memory, reaches for
\* another part, or comes to its end.
ScriptRuns ==
  /\ guest.script = "running" /\ ~hung
  /\ \/ \E m \in ScriptWrites : guest' = [guest EXCEPT !.mem = m]
     \/ \E p \in ScriptReach : guest' = [guest EXCEPT !.touched = @ \cup {p}]
     \/ guest' = [guest EXCEPT !.script = "loaded"]
  /\ UNCHANGED <<scenario, inc, hung, attached, queue, callVars, known, spent,
                 historyVars>>

-----------------------------------------------------------------------------
\* The bridge

\* Calls that hold a worker thread.
Running == {a \in Agents : pc[a] \in {"send", "sent", "ret"}}

Goto(a, label) == pc' = [pc EXCEPT ![a] = label]

Finish(a, o) ==
  /\ Goto(a, "ret")
  /\ out' = [out EXCEPT ![a] = o]

\* Every other call under way has been overtaken by a failure or a reconnect.
WarnOthers(a) ==
  warned' = [b \in Agents |-> warned[b] \/ (b # a /\ pc[b] # "idle")]

\* The call ends, and with it the attach that all calls share.
Interrupt(a, o) == Finish(a, o) /\ WarnOthers(a)

\* ensure_connected(): the process attached to afterwards, or 0.
Ensured == IF attached # 0 THEN attached ELSE IF hung THEN 0 ELSE inc

\* call_tool(): a registered tool's handler goes to the worker threads.
Invoke(a, c) ==
  /\ pc[a] = "idle"
  /\ spent < scenario.calls
  /\ spent' = spent + 1
  /\ IF c.tool \in Registered(scenario.mode)
     THEN /\ Goto(a, "queued")
          /\ queue' = Append(queue, a)
          /\ work' = [work EXCEPT ![a] =
                        [guarded |-> Catalog[c.tool].guarded,
                         feature |-> Catalog[c.tool].feature,
                         valid   |-> ArgumentsValid(c),
                         by      |-> c.by,
                         todo    |-> Handler(a, c)]]
          /\ UNCHANGED out
     ELSE /\ Finish(a, "unknown")
          /\ UNCHANGED <<queue, work>>
  /\ UNCHANGED <<scenario, engineVars, attached, sentAs, age, known,
                 historyVars>>

\* The checks of guard() and of the handler itself, in their order.
Checked(a) ==
  IF work[a].guarded /\ work[a].feature \notin Features \cup {None}
  THEN Finish(a, "feature_off")
  ELSE IF ~work[a].valid THEN Finish(a, "invalid")
  ELSE IF work[a].todo = <<>> THEN Finish(a, "ok")
  ELSE Goto(a, "send") /\ UNCHANGED out

\* A worker thread is free: it takes the call that waits longest.
Begin(a) ==
  /\ pc[a] = "queued"
  /\ Head(queue) = a
  /\ Cardinality(Running) < scenario.workers
  /\ queue' = Tail(queue)
  /\ attached' = IF work[a].guarded THEN Ensured ELSE attached
  /\ IF work[a].guarded /\ attached' = 0
     THEN /\ Interrupt(a, "not_connected")
          /\ disturbed' = [disturbed EXCEPT ![a] = TRUE]
     ELSE /\ Checked(a)
          /\ UNCHANGED <<warned, disturbed>>
  /\ UNCHANGED <<scenario, engineVars, work, sentAs, age, known, spent, got,
                 acked, unsure>>

\* bridge_connect, bridge_start once its engine runs, bridge_disconnect, and
\* bridge_stop.
Manage(a) ==
  /\ pc[a] = "send"
  /\ Head(work[a].todo).op \in {"connect", "disconnect"}
  /\ attached' = IF Head(work[a].todo).op = "connect" /\ ~hung THEN inc ELSE 0
  /\ Interrupt(a, IF Head(work[a].todo).op = "connect" /\ hung
             THEN "not_connected" ELSE "ok")
  /\ disturbed' = [disturbed EXCEPT ![a] = hung]
  /\ UNCHANGED <<scenario, engineVars, queue, work, sentAs, age, known, spent,
                 got, acked, unsure>>

\* Connection.call(): the next request of the handler goes out.
Send(a) ==
  /\ pc[a] = "send"
  /\ Head(work[a].todo).op \notin {"connect", "disconnect"}
  /\ attached' = Ensured
  /\ IF attached' = 0
     THEN /\ Interrupt(a, "not_connected")
          /\ disturbed' = [disturbed EXCEPT ![a] = TRUE]
          /\ UNCHANGED sentAs
     ELSE /\ Goto(a, "sent")
          /\ sentAs' = [sentAs EXCEPT ![a] = attached']
          /\ UNCHANGED <<out, warned, disturbed>>
  /\ age' = [age EXCEPT ![a] = 0]
  /\ UNCHANGED <<scenario, engineVars, queue, work, known, spent, got, acked,
                 unsure>>

\* What the handler does with an answer: a conflict is a result of mem_write,
\* any other refusal ends the handler, and after the last request it returns.
Answered(a, op, reply, mem) ==
  /\ work' = [work EXCEPT ![a].todo = Tail(@)]
  /\ IF reply # "ok" THEN Finish(a, reply)
     ELSE IF Len(work[a].todo) = 1 THEN Finish(a, "ok")
     ELSE Goto(a, "send") /\ UNCHANGED out
  /\ known' = IF op.op \in {"read", "cas"} THEN [known EXCEPT ![a] = mem]
              ELSE known
  /\ acked' = IF work[a].by = "increment" /\ reply = "ok" THEN acked + 1
              ELSE acked

\* The engine serves the request and the answer arrives.
Serve(a) ==
  /\ pc[a] = "sent" /\ ~hung /\ sentAs[a] = inc
  /\ LET op == Head(work[a].todo)
         result == Apply(op, guest)
     IN  /\ guest' = result.guest
         /\ Answered(a, op, result.reply, result.guest.mem)
  /\ got' = [got EXCEPT ![a] = @ \cup {inc}]
  /\ UNCHANGED <<scenario, inc, hung, attached, queue, sentAs, age, spent,
                 disturbed, warned, unsure>>

\* Mutant of Unauthorized: the request is replayed into the new process.
UnauthorizedReplays(a) ==
  /\ pc[a] = "sent" /\ ~hung /\ sentAs[a] # inc
  /\ attached' = inc
  /\ Goto(a, "send")
  /\ UNCHANGED <<scenario, engineVars, queue, work, sentAs, age, out, known,
                 spent, historyVars>>

\* Mutant of Unauthorized: the request is sent again on the refused client.
UnauthorizedResends(a) ==
  /\ pc[a] = "sent" /\ ~hung /\ sentAs[a] # inc
  /\ Goto(a, "send")
  /\ UNCHANGED <<scenario, engineVars, attached, queue, work, sentAs, age,
                 out, known, spent, historyVars>>

\* Another process than the one attached to answers 401: the attach is
\* renewed, the ids differ, EngineRestarted.
Unauthorized(a) ==
  /\ pc[a] = "sent" /\ ~hung /\ sentAs[a] # inc
  /\ attached' = inc
  /\ Interrupt(a, "restarted")
  /\ UNCHANGED <<scenario, engineVars, queue, work, sentAs, age, known, spent,
                 got, disturbed, acked, unsure>>

\* A transport error: the bridge detaches, the agent is told.
TransportError(a, disturbs) ==
  /\ attached' = 0
  /\ Interrupt(a, "not_connected")
  /\ disturbed' = [disturbed EXCEPT ![a] = @ \/ disturbs]

\* The request is lost, or the engine ends before it serves it.
LoseRequest(a) ==
  /\ pc[a] = "sent"
  /\ "loss" \in scenario.faults \/ sentAs[a] # inc
  /\ TransportError(a, TRUE)
  /\ UNCHANGED <<scenario, engineVars, queue, work, sentAs, age, known, spent,
                 got, acked, unsure>>

\* The engine serves the request and its answer is lost.
LoseAnswer(a) ==
  /\ pc[a] = "sent" /\ ~hung /\ sentAs[a] = inc
  /\ "loss" \in scenario.faults
  /\ guest' = Apply(Head(work[a].todo), guest).guest
  /\ unsure' = IF guest'.mem # guest.mem THEN unsure + 1 ELSE unsure
  /\ got' = [got EXCEPT ![a] = @ \cup {inc}]
  /\ TransportError(a, TRUE)
  /\ UNCHANGED <<scenario, inc, hung, queue, work, sentAs, age, known, spent,
                 acked>>

\* The request has been on the wire for as long as its timeout allows.
TimeOut(a) ==
  /\ pc[a] = "sent"
  /\ age[a] >= Limit(Head(work[a].todo))
  /\ TransportError(a, hung \/ sentAs[a] # inc)
  /\ UNCHANGED <<scenario, engineVars, queue, work, sentAs, age, known, spent,
                 got, acked, unsure>>

\* The result goes back to the agent and the worker thread is free.
Return(a) ==
  /\ pc[a] = "ret"
  /\ Goto(a, "idle")
  /\ out' = [out EXCEPT ![a] = "none"]
  /\ work' = [work EXCEPT ![a] = NoWork]
  /\ sentAs' = [sentAs EXCEPT ![a] = 0]
  /\ age' = [age EXCEPT ![a] = 0]
  /\ got' = [got EXCEPT ![a] = {}]
  /\ disturbed' = [disturbed EXCEPT ![a] = FALSE]
  /\ warned' = [warned EXCEPT ![a] = FALSE]
  /\ UNCHANGED <<scenario, engineVars, attached, queue, known, spent, acked,
                 unsure>>

\* A request the engine must answer before time passes: any but a wait at
\* once, a wait when its own deadline has come.
Due(a) ==
  /\ pc[a] = "sent" /\ ~hung
  /\ \/ sentAs[a] # inc
     \/ Head(work[a].todo).op # "wait"
     \/ age[a] >= Head(work[a].todo).n

\* Time passes on the wire.
Tick ==
  /\ \E a \in Agents : pc[a] = "sent"
  /\ \A a \in Agents :
       /\ ~Due(a)
       /\ pc[a] = "sent" => age[a] < Limit(Head(work[a].todo))
  /\ age' = [a \in Agents |-> IF pc[a] = "sent" THEN age[a] + 1 ELSE age[a]]
  /\ UNCHANGED <<scenario, engineVars, attached, queue, pc, work, sentAs, out,
                 known, spent, historyVars>>

-----------------------------------------------------------------------------
\* The specification

Init ==
  /\ scenario \in Scenarios
  /\ inc = 1 /\ hung = FALSE /\ guest = Fresh
  /\ attached = 1
  /\ queue = <<>>
  /\ pc = [a \in Agents |-> "idle"]
  /\ work = [a \in Agents |-> NoWork]
  /\ sentAs = [a \in Agents |-> 0]
  /\ age = [a \in Agents |-> 0]
  /\ out = [a \in Agents |-> "none"]
  /\ known = [a \in Agents |-> 0]
  /\ spent = 0
  /\ got = [a \in Agents |-> {}]
  /\ disturbed = [a \in Agents |-> FALSE]
  /\ warned = [a \in Agents |-> FALSE]
  /\ acked = 0 /\ unsure = 0

\* The steps of a call that its worker thread and the engine will take.
Step(a) ==
  \/ Begin(a) \/ Manage(a) \/ Send(a) \/ Serve(a) \/ Unauthorized(a)
  \/ TimeOut(a) \/ Return(a)

Finished ==
  /\ \A a \in Agents : pc[a] = "idle"
  /\ spent = scenario.calls
  /\ UNCHANGED vars

Next ==
  \/ Restart \/ Hang \/ ScriptRuns \/ Tick
  \/ \E a \in Agents :
       \/ \E c \in scenario.offered : Invoke(a, c)
       \/ Step(a) \/ LoseRequest(a) \/ LoseAnswer(a)
  \/ Finished

\* The pool serves calls in their order, threads run, the engine answers
\* unless it hangs, and time passes.
Fairness == (\A a \in Agents : WF_vars(Step(a))) /\ WF_vars(Tick)

Spec     == Init /\ [][Next]_vars
FairSpec == Spec /\ Fairness

-----------------------------------------------------------------------------
\* Properties

\* The parts of the engine interact mode is for.
InteractParts == {"input", "capture", "script", "drive", "mount"}

\* Risk levels against what the handlers really do: in observe mode nothing
\* an agent calls changes the engine.  In interact mode nothing outside input,
\* capture, script and drives is asked to change, and memory is written only
\* by a script an agent loaded (server.py's RISK_LEVELS, mem_snapshot's
\* comment, script_load's description; the mode comments of the configuration
\* template list memory writes for full mode only).
ModeConfines ==
  /\ scenario.mode = "observe" => guest = Fresh
  /\ scenario.mode = "interact" =>
       /\ guest.points = <<>> /\ guest.next = 1
       /\ guest.touched \subseteq InteractParts
       /\ guest.mem # 0 => "script" \in guest.touched

\* Compare-and-write: agents that increment a cell with mem_write's
\* "expected" lose no acknowledged increment, whatever calls, conflicts, lost
\* answers and restarts come between (_mem_write, the 412).  A script may write
\* what it likes.
NoLostUpdate ==
  (\A c \in scenario.offered : c.tool = "mem_write" => c.by = "increment")
    /\ "script" \notin guest.touched =>
    guest.mem \in acked..(acked + unsure)

\* A handler of several requests that reports success was served by one engine
\* process, unless another call was interrupted meanwhile: no restart mixes
\* two guests in one answer without any agent being told (dosbox_status,
\* script_load, debug_map_auto).
MixedAnswerIsReported ==
  \A a \in Agents :
    out[a] = "ok" /\ Cardinality(got[a]) > 1 => warned[a]

\* Breakpoints are cleared all at once only by a call that names none: an id
\* or index of zero is a name (_breakpoint_delete).
DeleteOnlyNamed ==
  [][Len(guest'.points) + 1 < Len(guest.points) =>
       \/ inc' # inc
       \/ \E a \in Agents :
            pc[a] = "sent" /\ pc'[a] # "sent" /\ work[a].by = None]_vars

\* A call that ends with a transport error met one: a wait that the engine
\* ends at its own deadline is never cut off by the client's timeout, which
\* would detach the bridge under all other calls (_wait, _wait_for).
CutOffOnlyByFault ==
  \A a \in Agents : out[a] = "not_connected" => disturbed[a]

\* Every call returns, though waits hold the worker threads and the engine may
\* restart or never answer again.
EveryCallReturns ==
  \A a \in Agents : pc[a] # "idle" ~> pc[a] = "idle"
=============================================================================
