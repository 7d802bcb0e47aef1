# A verification project for dosbox-mcp

`dosbox-mcp` is a bridge: an MCP server that an AI agent talks to, and an HTTP
client of a DOSBox engine with a web API. This directory holds TLA+ models of the
bridge, from the registration of its tools to the attach they all share, the TLC runs
that check them on small instances, and TLAPS proofs of what holds for every
instance. Line numbers are those of the sources the models were written from.

## The system

The server (`server.py`) runs every tool handler in a worker thread, from a pool that
is bounded (`anyio.to_thread.run_sync`). All of them share a `Connection`, an
`InstanceManager`, the Ghidra map and the symbol table. There is one lock in the
connection, one in the manager, one in the log ring, and none elsewhere.

| Component | State | Operations | Interacts with |
|---|---|---|---|
| Connection, guard (`connection.py`, `client.py`) | `_client`, features, capabilities, `_instance_id`, `_generation`, `_lock`, the remembered token | `ensure_connected`, `_try_connect`, `detach`, `call`, `guard` | the engine (requests, 401, instance id), the token file; every other tool calls it |
| Lifecycle (`lifecycle.py`) | `_proc`, `_state_dir`, `_lock`, the log ring | `start`, `stop`, `logs`, the readers of the child's output | the child process, the disk; attaches through the connection |
| Ghidra map (`tools/ghidra.py`) | the list of ranges, the map file | set base, auto, to live, to Ghidra, load, save | the engine (scan, MCB chain) in `debug_map_auto`; read by the symbol annotations |
| Server (`server.py`) | the registry of tools | mode gate, dispatch, the attach function of `bridge_start` | all of the above |
| Bridge tools (`tools/bridge.py`) | none of their own | connect, disconnect, start, stop, status, logs, setup | connection, manager, configuration |
| Protocol (`protocol.py`) | none | `negotiate`, `effective_version` | the attach |
| Symbols (`tools/symbols.py`) | symbol table, sorted addresses | load, lookup, annotate | the Ghidra map |
| Configuration (`config.py`) | the config file | load, update, write template | bridge setup |
| Guest tools (`tools/memory.py`, `debug.py`, `batch.py`, `input.py`, `wait.py`, `script.py`, ...) | none in the bridge | argument checks and requests | the connection |
| Command line (`cli.py`) | none | start of the process | all |

### What is hard, and what correct means

- **Connection.** Attach, detach and the handling of a 401 interleave statement by
  statement; `detach()` is called with `_lock` (after a 401) and without it (after a
  transport error, by `bridge_connect` and `bridge_disconnect`). A request may be
  lost after it ran; it is replayed once after a 401. Correct: no request runs
  twice or in another engine process than it was meant for, its outcome tells the
  truth, no lock or closed client is left behind, a 401 tears down only the attach
  it was the answer to, every operation returns.
- **Lifecycle.** The manager's lock covers a start up to the spawn; the wait for the
  attach and the clean-up of a start that fails run without it. Children exit,
  spawns fail, deadlines pass, and the port may belong to another engine. Correct:
  a running child is never replaced or forgotten, a failed start leaves nothing, a
  start that succeeds is attached to its own child, every operation returns.
- **Ghidra map.** The overlap check and the insertion are apart; the bridge may end
  in the middle of a save; loaded ranges must not be trusted. Correct: spans are
  disjoint, an anchor keeps translating to what it was anchored to, nothing stored
  is lost by a restart, the two translations agree.
- **Tools.** A handler is a sequence of requests, other calls run between two of them,
  the engine restarts, hangs or loses an answer, and a failure of one call detaches
  the bridge under all. Waits hold worker threads and race the client's timeout.
  Correct: a mode confines what calls do to the guest, no acknowledged
  compare-and-write is undone by one based on an older value, no answer mixes two
  guests unnoticed, a wait is not cut off by its own client, every call returns.
- **Symbols.** Loads fill a table entry by entry and publish a sorted list, lookups
  read list and table, nothing is locked. Correct: the nearest symbol is named, a
  load does what its text says up to the cap, the cap holds.
- **Configuration.** Read, change and replace without a lock, against a human's
  editor, kills and power failures. Correct: protected settings come from humans,
  other settings survive a rewrite, the file is never torn.
- **Log ring.** Two readers, two bounds, a running count, several instances. Correct:
  the ring is the longest end of the output that fits, and nothing of an instance that
  was stopped shows in the log of a later one.
- **Protocol.** Pins, missing and malformed versions. Correct: the highest version all
  sides have in common, and judgements that go by a version that was in force.

`PROJECT.json` lists every hazard at its line with the properties that cover it, and
those no property covers yet with the reason.

## The modules

| Module | Models |
|---|---|
| `ToolCall` | the promise made to the agent about one tool call: it runs at most once, and its outcome is true. Abstract specification of `Connection` |
| `Connection` | `connection.py`: attach, detach, call, guard, one action per statement that touches shared state |
| `ConnectionProofs` | proofs about `Connection` |
| `ManagedEngine` | the promise of `bridge_start` and `bridge_stop`: at most one engine of the bridge's own, and results that tell the truth about it. Abstract specification of `Lifecycle` |
| `Lifecycle` | `lifecycle.py`: start and stop with the attach function of `server.py` |
| `LifecycleProofs` | proofs about `Lifecycle` and `RingLog` |
| `AddressMap` | the promise of the Ghidra map: a table of disjoint ranges, one for each label, saved and loaded as a whole. Abstract specification of `GhidraMap` |
| `GhidraMap` | `tools/ghidra.py`: ranges, anchors, translations, the map file |
| `GhidraMapProofs` | proofs about `GhidraMap` |
| `Ascending`, `AscendingProofs` | a finite set of integers in ascending order (Python's `sorted`), used by `GhidraMap` and `Symbols`; the lemmas about it |
| `ToolCatalog` | every tool as it is registered (`tools/*.py`), the features, the mode gate, the requests of every handler |
| `Tools` | `server.py` and the handlers: calls from the dispatch to the result, over a pool of threads, a guest and an engine that fails. Uses `ToolCatalog` |
| `ToolsProofs` | proofs about `Tools` and `ToolCatalog` |
| `Symbols` | `tools/symbols.py`: load and lookup, one action per access to the shared table |
| `SymbolsProofs` | proofs about `Symbols` |
| `ConfigFile` | `config.py`, `bridge_setup`, `setup`: the file, its rewrites, the mode served. Uses `ToolCatalog` for who may call `bridge_setup` |
| `ConfigFileProofs` | proofs about `ConfigFile` |
| `RingLog` | the log ring of `lifecycle.py` and its readers |
| `Protocol` | `protocol.py` and the route digest of `bridge_swagger` |
| `ProtocolProofs` | proofs about `Protocol` |
| `MCConnection`, `MCLifecycle`, `MCGhidraMap` | instances for TLC: symmetry, map files, MCB chains |
| `MCParts` | the instance of `Tools`, `Symbols`, `ConfigFile`, `RingLog` and `Protocol`: the first state chooses one of them and only that one steps. They share no state, so the product of their behaviours would show nothing more |

An operator whose comment begins "Mutant of" is a plausible wrong version of the
definition after it. No specification uses it: it is there so that each property can
be shown to fail when the code is wrong in that way.

### Connection

A thread has a program counter `pc`, named for the statement it is about to
execute, the `stage` of the operation it is in (`guard`'s test, the `call`, the
`reattach` after a 401, the `replay`, the detach after a `loss`, a `manage`ment
tool), and a `frame` with the locals `token`, `info`, `old_id`, `my_generation`,
`fn`. The shared fields are variables of the same meaning; a client is its number
and its token, and `closed` is the set of clients whose `close()` has been called.

| Code | Actions |
|---|---|
| `ensure_connected` 203-210 | `Ensure`, `EnsureLocked` |
| `_try_connect` 156-201 | `ReadToken`, `InfoAccepted`, `InfoStaleToken`, `InfoFails`, `PublishClient`, `PublishMeta`, `PublishId`, `PublishGeneration` |
| `detach` 212-221 | `DetachCheck`, `DetachClose`, `DetachNull`, `DetachMeta`, `DetachId` |
| `call` 223-267 | `LoadId`, `LoadGeneration`, `LoadClient`, `Send`, `Answered`, `Refused`, `Lost`, `Relock`, `CompareId` |
| `guard` 357-397 | `CheckFeature`, `Return` |
| the engine, its token file (outside) | `Crash`, `Boot`, `Rotate`, `WriteTokenFile` |

Simplifications, each with its reason:

- Taking the lock and the test directly behind it are one step: no other thread can
  change `_generation` in between, and what an unlocked detach does there it can do
  just before.
- `_features`, `_capabilities`, `_engine_info` and `_effective` are set in consecutive
  statements and only ever together; they are one variable, `meta`.
- The engine's identity, features and protocol are functions of the number of the
  engine process. `Legacy` processes send no instance id, `Open` ones check no
  token, `Incompatible` ones speak a protocol the bridge refuses.
- `probe_hello()` and `_no_token_message()` only build the text of an error.
- A request the engine runs after the bridge gave up on it is counted when it is
  given up (`Lost`). A request killed by another thread's `close()` is also `Lost`
  (fault `loss`).

### Lifecycle

Operation *n*, if it is a start, makes directory, token and child *n*. The manager's
fields are `lock`, `proc`, `dir`; of the connection `attachedTo` and `cfgToken` are
kept. The statements behind the lock are steps of their own, because they use
whatever `_proc` and `_state_dir` hold by then.

| Code | Actions |
|---|---|
| `start` 173-261 | `StartLock`, `MakeStateDir`, `WritePolicyConfig`, `Popen` |
| `_attach_with_retry` 289-320 | `Poll`, `ResetConnection`, `AttachToEngine`, `Deadline` |
| `stop` 263-271, `_terminate_child`, `_cleanup` 328-351 | `StopLock`, `Terminate`, `WaitForExit`, `CleanProc`, `CleanDir`, `DropDir`, `StopDetach` |
| processes (outside) | `ChildListens`, `ChildExits`, `ForeignQuits` |

The two attribute reads of `running` are one step, and so is an attach: its inner
interleavings are the subject of `Connection`. A start refused because no binary is
configured is the same as any refused start. Children started without
authentication are not modelled; the log ring is `RingLog`.

`Managed` is the refinement mapping to `ManagedEngine`: the engines are the children that
run, the phase of an operation is whether its child has been born yet, and the results are
the results. Polling, directories and clean-up are stutters.

### GhidraMap

`ranges` is the list in memory, `file` the map file, `anchors` (history) the anchor
each label was last given in this process. `SetBase` and `Auto` make the checks and
build the entry; `Derive` stands for the two engine calls of `debug_map_auto` and
all it computes from them; `FindSlot` and `Store` are `_upsert_range`, `Save`,
`Replace` and `SaveFails` are `_save_ranges`; `Restart` ends the process anywhere and
loads the file. The JSON text of a range is the record of its persisted fields;
an entry the loader rejects has `ok = FALSE`.

`Table` is the refinement mapping to `AddressMap`: the table is the set of the ranges in
the list, what is saved is what the loader makes of the file, and it is dirty from the
insertion until the file is renamed. The order of the list, the slot and the text of the
file are gone; `OrderNeverMatters` says that the translation, which takes the first range
it meets, is that of the table (proved, it follows from `NoOverlap`).

### ToolCatalog and Tools

`Catalog` has one record per tool with what its `add_tool` call declares (risk,
`interact_ok`, feature, `needs_connection`); the descriptions, hints and JSON
schemas of the registrations are left out. `Requests` has the verbs and routes each
handler sends, in their order; of the bridge's own tools `bridge_swagger` alone asks the
engine for something. The handlers whose requests depend on their arguments
or on an earlier answer are operators of `Tools`: `MemRead`, `MemWrite`,
`BreakpointDelete`, `ScriptLoad`, `Limit` for the waits.

| Code | Actions |
|---|---|
| `call_tool` 160-176 | `Invoke` (the registry), `Begin` (a worker thread takes the call) |
| `guard` 357-397 | `Begin` with `Ensured` and `Checked`, `Return` |
| `Connection.call` 223-267 | `Send`, `Serve`, `Unauthorized`, `LoseRequest`, `LoseAnswer`, `TimeOut` |
| `_connect`, `_disconnect`, and the attach and detach of `_start`, `_stop` | `Manage` |
| the engine, its script, time (outside) | `Restart`, `Hang`, `Apply`, `ScriptRuns`, `Tick` |

The attach is one step here, and its state the engine process attached to: the
statements of it are `Connection`'s subject. The engine checks its token and has an
instance id, so a request of an attach to an ended process meets a 401 and ends as
`EngineRestarted`; the replay after a change of token alone is in `Connection`. The
guest is one memory cell, a list of breakpoints with ids that are never used again,
the set of other parts that were changed, and whether an agent's script is loaded or
runs. A running script writes memory, reaches for other parts (`ScriptWrites`,
`ScriptReach`: script.py:24-27) or ends by itself, between any two other steps. What
`bridge_start` and `bridge_stop` do to their process is `Lifecycle`'s subject; here
their process ends and begins with `Restart`, and what they do to the attach under the
other calls is `Manage`. A wait ends any time up to its own
deadline unless the engine hangs; time passes only when nothing is due before. Which
arguments a handler refuses is not modelled, only that it then sends nothing.

### Symbols

A text is a sequence of entries, each with a name and an address or not recognized.
`LoadText`, then for each entry `Check` (the cap) and `Insert`, then `Sort` and
`Publish`; `Lookup` (the test for an empty table), `Search` in the list as it is then,
`Name` from the table as it is then. A lookup is by Ghidra address: the way there is
`GhidraMap`'s. `settled` (history) is what loads that no other overlapped left.

### ConfigFile

A file is its settings, or malformed, or torn, or absent. `ToolUpdate` and `CliUpdate`
are the checks of `update_config_file` before the file is looked at, `WriteTemplate`
those of `setup --init`; `Read`, `WriteTemp`, `SyncTemp`, `Replace` and `SaveFails` are
the rest. `StartBridge` is `Config.load` and the mode served from then on. A human's
save is one step that reaches the disk, a kill of the bridge ends its savers, a power
failure ends all and tears a file whose content was never synced. `byHuman` (history)
has every setting a human or the command line chose. Of the environment variables and
the permissions of the file nothing is modelled.

### RingLog and Protocol

A line is its number of characters and their width in UTF-8; `Kept` is the cut at a
character with the mark behind it.

| Code | Actions |
|---|---|
| `RingLog.append`, `drain` in `start` | `Drain` with `Counted` and `AppendLine`, `Evict` for each line evicted, `AppendReturns` |
| `start` | `Spawn`, `SpawnFails` (with a new ring either way) |
| `_terminate_child`, `_cleanup` | `StopEngine` |
| the engine (outside) | `WriteLine`, `EngineEnds` |

`appending` is the ring's lock while a reader holds it; `bridge_logs` takes it, reads and
changes nothing. `StopEngine` joins the readers and closes the pipes; an engine that ends
by itself (`EngineEnds`) leaves both, and its readers append to whatever ring is there;
`unjoined` (history) has those that nobody has cleaned up since. A reader that has a line
in hand is taken to append it within the second that `stop()` waits for it. `history` has
the bytes of the first *i* lines appended to the present ring, for every *i*.

A version is a pair of numbers, absent or malformed. `Attach` is `effective_version` as
an attach calls it, with operators for the pin, the engine's side and the
negotiation; the reference definition is `Common`, the set of versions all sides
implement. `FetchRoutes` and `JudgeRoutes` are the two uses of the connection in
`bridge_swagger`, between which it may be another one.

## The runs

| Run | Instance | Shows |
|---|---|---|
| `conn_full` | 2 threads, 2 operations of 3 kinds, 2 engine processes, 3 tokens, all faults | types, lock discipline, latest client, no closed client in use, a 401 tears down only what it refused, true outcomes, refinement of `ToolCall` |
| `conn_rotate` | 3 gated calls refused at once by one engine process, one token change | no spurious restart, whole attach state, features that follow the client: the case `_generation` is for |
| `conn_versions` | fair, 2 threads, 4 engine processes in turn: one without instance id, one open, one incompatible | no replay into another process; every operation returns |
| `life_one` | 1 caller, 5 operations, all faults, another engine on the port | failed starts leave nothing, attached to the own child, refinement of `ManagedEngine` (so no running child is out of reach of a stop) |
| `life_many` | fair, 2 callers, 3 operations, all faults | types, no running child replaced, every start and stop returns |
| `map_one` | 1 caller of both tools, 2 calls, 3 Ghidra addresses, 1 restart, saves that fail, 3 map files, 5 MCB chains | types, disjoint spans, anchors keep translating, derived anchors are sound, the two translations agree, refinement of `AddressMap` (so nothing saved is lost and loaded ranges answer nothing) |
| `parts` | see the table below | five modules that share no state |

| Part of `parts` | Instance | Shows |
|---|---|---|
| `Tools` | 2 agents; every tool once in each mode; 4 calls of read and compare-and-write, restarts and losses; 3 composite, invalid and reconnecting calls (`bridge_start` and `bridge_stop` among them), restarts and losses; 4 calls on breakpoints; 3 waits on 1 and on 2 worker threads, restarts and a hang | modes confine, no lost update, no mixed answer unnoticed, zero is an id, no wait cut off by its client, every call returns (fair) |
| `Symbols` | 2 threads, 3 loads and lookups, a cap of 2, texts of 5, 2 and no recognized entries | nearest symbol, exact loads, the cap |
| `ConfigFile` | 2 threads, 1 setup process, a human with 4 files, 3 saves, kills and power failures | protected settings are human, other settings survive, never torn |
| `RingLog` | 2 engines, 4 lines of 3 sizes on 2 streams, engines that end by themselves and spawns that fail | the ring is the longest end that fits, no output of a stopped engine in a later log |
| `Protocol` | 6 engines, no pin or one of 5, 2 attaches | highest common version, digests by a version in force |

Five runs show a disagreement between the code and what it says of itself; each
checks one property and TLC finds a violation.

| Run | The code says | TLC finds |
|---|---|---|
| `conn_spurious` | `_lock` and `_generation` keep a restart from being reported that did not happen (connection.py:47-57) | after two token changes a call that read no identity during a reattach reports one |
| `conn_crossreplay` | a request is not replayed into a fresh session (connection.py:259-261) | `_client` is read again after the lock is released |
| `life_two` | at most one engine instance (lifecycle.py:81) | the late clean-up of a start whose deadline ended its own child forgets the child of a second start; a third spawns one more |
| `life_foreign` | a port squatter cannot pass (server.py:57) | the generated token is dropped and the token file's used |
| `map_race` | overlaps are refused at the only places a span is set (ghidra.py:357-366) | two `debug_map_auto` calls pass the check and then both store |

`NoSpuriousRestart`, `ReplayStaysOnInstance`, `AttachesToItsChild` and `NoOverlap`
are therefore checked twice: the passing run shows how far each is true, the other
what breaks it. A spurious restart needs no second token change either when
`bridge_connect`, or the unlocked detach after another call's transport error, clears the
identity between the two reads of `call` (connection.py:226, 252).
The models reach more behaviours that no run stops at, listed among the hazards:

- two interleaved detaches leave a client in use without features and identity
  (`WholeWhenSettled` with `bridge_connect` and `bridge_disconnect`);
- a gated tool is refused for a feature the engine has, while the client is published
  and the features are not (where every detach holds the lock, `FeaturesFollowClient`
  says how long that lasts: until the thread that published the client has passed its
  next statement);
- the transport error of a replay, and a client that is gone by the time it is
  used, leave `guard` as exceptions (outcome `uncaught`);
- live spans of one segment may overlap, and the first range of the list answers
  (`TranslatesBack` speaks only of live addresses one range answers for);
- `idempotentHint` is wrong for a deletion of a breakpoint by index (debug.py:393):
  the same call again deletes the next one. Hints are left out of the models;
- a script loaded in interact mode writes DOS memory (script.py:24-27), though the
  comments on the modes list memory writes for full mode only (config.py:347-348).
  `ModeConfines` says that in interact mode it takes a script;
- of two symbol loads that overlap, the list published last may lack what the other
  put in the table, until the next load (symbols.py:267);
- an update of the configuration that read the file before a human's save puts the
  old settings back, `mode` among them, though config.py:349 says of it that no tool
  can change this (`ProtectedAreHuman` says what remains true: the value is one a
  human chose at some time); of two `bridge_setup` calls at once one may be lost, and
  `setup --init` may replace a file saved after its test;
- `bridge_setup` accepts a protocol pin by its form; one above what the bridge
  implements makes every attach fail (`attempt = "refused"` in `Protocol`);
- the last output of an engine that ended by itself may appear in the log of the next
  one, since its readers append to the present ring (lifecycle.py:284), though the manual
  says that `bridge_logs` shows the spawned instance's output (feelies/MANUAL.md:115).
  `LogIsOwn` says that this is the only way;
- a call of several requests may be answered by two guests when another call's failure
  reattached the bridge between them: only that other call is told
  (`MixedAnswerIsReported`).

### Bounds

`ScriptWrites` and `ScriptReach` are what an agent's scripts do: one value that no tool
call writes and one part besides memory tell a script's effects from a tool's.
`MaxCalls`, `MaxIncarnation`, `MaxToken`, `MaxRestarts` bound operations, engine
processes, tokens and bridge processes; `LastAddress`, `LastOffset`, `LastSegment` are
the sizes of the number ranges. Two threads and two operations give every interleaving
of two critical sections and an unlocked detach. `conn_rotate` has three threads: the
third is the one that finds the work already done by the second of two others. There
the token changes once; a second change is `conn_spurious`. Two engine processes are a
restart, three a restart during the handling of one; `conn_versions` has four so that
each kind of engine replaces another. Three operations of two callers let a start
overlap a stop and another start; five of one caller let a start follow a stop that
followed a failed start. Three Ghidra addresses are enough for spans that touch, nest
and overlap; `Para = 2` and `ComPara = 1` scale a PSP down to two bytes, and the
chains are chosen so that each refusal of `_auto` happens. In `parts`, four increments of
two agents let each conflict with the other, lose an answer and meet a restart; the
client's timeout is 3 units, waits of 1 and of 2 with a slack of 1 are cut off after 2
and 3, so that a wait can outlast or be outlasted by another;
one worker thread makes a wait block the next call. A cap of two symbols and texts of
up to four addresses make entries before, at and over the cap; addresses lie at,
within and beyond `MaxSymbolDistance` of the queries. Three saves are an update
overtaken by two others; a ring of three lines and eight bytes with lines of one,
three and five bytes (four and the mark) meets either bound first. Threads are
interchangeable, so the safety runs with several use symmetry; the fair runs do not.

### Fairness

Weak fairness of each thread's steps: the operating system runs every thread, and
each wait for the engine ends with httpx's timeout (30 s), so no assumption is made
about the engine. Strong fairness of `Deadline`: the loop of `_attach_with_retry` is
bounded by a monotonic clock, though each round passes the test only for a moment.
Nothing is assumed of processes outside: they may stop answering for ever.

In `Tools`, weak fairness of the steps of a call and of time: the pool serves calls in
their order, threads run, an engine that does not hang answers, and every request ends
with its timeout if it does. Restarts, losses and hangs are never owed.

## The proofs

Each proof module proves its theorems for every value of the constants, from the
assumption the model states about them (`ConnectionAssumption`, `ToolsAssumption`, ...);
where a theorem needs more, the hypothesis is named in its `ASSUME`. TLC has checked each
inductive invariant on the runs' instances. No property is inductive by itself; what each
invariant adds is the argument.

| Module | For any | Proved | Under a hypothesis |
|---|---|---|---|
| `ConnectionProofs` | threads, operations, faults, bounds | `TypeOK`, `LockHeldExactlyInside`, `ClientIsLatest`, `ClosedOnlyWhileDetaching`, `TearsDownOnlyRefused`, `OutcomeTruthful`, `ImplementsToolCall` | `FeaturesFollowClient`, `WholeWhenSettled`, `NoSpuriousRestart`, `ReplayStaysOnInstance` |
| `LifecycleProofs` | callers, faults, bounds | `TypeOK`, `NeverReplacesRunning` | `AtMostOneRunning`, `NoOrphan`, `FailedStartLeavesNothing`, `AttachesToItsChild`, `ImplementsManagedEngine` |
| | lines, caps, engines | `RingLogTypeOK`, `RingIsLongestSuffix`, `LogIsOwn` | |
| `GhidraMapProofs` | callers, files, memory maps, number ranges | `TypeOK`, `AnchoredThisSession`, `AutoAnchorSound`, `TranslatesBack` | `NothingLostByRestart`, `NoOverlap`, `AnchorTranslates`, `OrderNeverMatters`, `ImplementsAddressMap` |
| `ToolsProofs` | agents, calls, modes, pool size, timeouts, faults | `TypeOK`, `ModeConfines`, `NoLostUpdate`, `MixedAnswerIsReported`, `CutOffOnlyByFault`, `DeleteOnlyNamed` | |
| `SymbolsProofs` | threads, texts, queries, cap, reach | `SymbolsTypeOK`, `LookupSound`, `CapHeld`, `LoadIsExact` | |
| `ConfigFileProofs` | savers, settings, kills, power failures | `ConfigFileTypeOK`, `ProtectedAreHuman`, `FileIsWhole`, `RewriteKeepsOthers` | |
| `ProtocolProofs` | versions, pins, engines | `ProtocolTypeOK`, `NegotiatesHighestCommon` | |

**Connection.** `IInv` has the types and

- `StageOK`: the part of an operation a thread is in fits the statement it is at;
- `NumberingOK`: while the lock holder is between publishing a client and counting
  it, one more client has been published than there are generations; clients and
  closed clients are numbered accordingly;
- `RequestOK`: a request goes out on a client no older than the generation read
  before it, so a thread that finds that generation unchanged holds the client it
  was refused on;
- `CallOK`: until an operation is over its request has run only if its answer was
  lost.

The order of the lemmas is that of the argument: types, then stages with the lock,
then numbering (which needs mutual exclusion), then requests (which need the
numbering), then outcomes.

Three properties do not hold of the code without restriction, since `detach()` is also
run without the lock; the runs `conn_spurious` and `conn_crossreplay` and the hazards
show how they fail. They are proved where they hold:

- `WholeWhenSettled` if every detach holds the lock, for any number of threads
  (`LockedDetach`: no fault but a new token, no bridge tool), or with one caller under
  every fault (`OneCaller`). Either way at most one thread changes the attach state
  (`Solo`), and `PartsOK` says how much of it is published or cleared at each of that
  thread's statements.
- `NoSpuriousRestart` for any number of threads whose engine takes another token once
  (`OneRotation`), and with one caller under every fault. The first is the case
  `_generation` was written for. `ClientOK`: the first client is used until it is
  refused, the next has the last token and is never torn down. `IdentityOK`: a call that
  read no identity, because a reattach was clearing it, did so after the first client
  was gone, so it is sent on the next one and not refused. For one caller `CallerOK` says
  that the identities read and compared are those of engines there have been.
- `ReplayStaysOnInstance` with one caller and engines that check their token
  (`Open = {}`): a token belongs to one engine process (`TokenOK`), so the replay is
  accepted only by the one whose identity was compared (`ReplayOK`). An engine that
  checks no token takes a replay meant for another: no hypothesis on the bridge helps.

**Lifecycle.** For any number of callers, a thread between the test of `start()` and the
spawn holds the lock, and no running child is held meanwhile (`PreparingOK`); clean-up
without the lock is harmless here since it only clears `_proc`. With one caller at a time
(`OneCaller`) the manager's account is exact (`SoleOK`): at most one child runs, a failed
start leaves nothing, none is orphaned; if moreover no engine on the port has its token in
the token file or checks none, a successful start is attached to its own child. The runs
`life_two` and `life_foreign` show that neither restriction can be dropped.

That `Lifecycle` implements `ManagedEngine` also needs `OneCaller`, and one invariant more:
the child of an operation is born at its spawn and not before, and the manager holds no
other (`EngineOK`). Then a spawn finds no engine up, a return finds what its result says,
and each other statement leaves phase and engines alone. With two callers it is false:
`life_two` ends with two engines up.

**RingLog.** Nothing is asked of the lines, the caps or when engines end. `history` has
running totals and not sizes, so the bytes of the last *k* lines are a difference of two of
them and the proof needs no sum over the ring. The totals never fall (`HistoryOK`), the
ring is an end of what was appended and the count is its bytes (`SuffixOK`), and no longer
end fits, not even during an append (`EvictedOK`). A line that the deque drops by itself
was dropped because of `MaxLines`; one that is evicted because the bytes from it on do not
fit, and no line appended later makes them fit. `LogIsOwn` rests on `OwnOK`: only the pipes
of the present engine, while it runs, and those of engines nobody has cleaned up hold
anything.

**GhidraMap.** For any number of callers `IInv` follows what a thread in either tool
holds between its statements. That the two translations agree needs nothing of the list:
both read the same deltas. `NothingLostByRestart` needs one caller (`SoleInv`: the slot
found is still good when it is written and the file follows the list); `NoOverlap` and
`AnchorTranslates` also that the files found at first hold disjoint spans
(`FilesDisjoint`), which the loader does not check (`SpanInv`). `map_race` shows what a
second caller does. Under both hypotheses `GhidraMap` implements `AddressMap`: a list
without overlaps is a set of disjoint ranges (`ListedDisjoint`), to insert or replace at the
slot found changes one label's range, a range that is saved and loaded loses its segment
and nothing else (`LoadedIsUnanchored`), and a restart goes to the table last saved. That
two ranges never share an address is why their order does not matter (`OrderIsIrrelevant`).

**Tools.** The lemmas about the catalog come first: for each registration and each handler
of `ToolCatalog`, what mode it needs and what its requests change. `IInv` then has, besides
types and queue, what the mode leaves of the guest, that a script which runs was loaded, and
the range the incremented cell is in as long as none was (`GuestOK`: acknowledged increments
at least, lost ones on top at most), and for each call
what is left of its work (`WorkOK`), where it is against that (`PlaceOK`), that its request
on the wire is no older than the engine lets it become (`WireOK`, from which no wait is
cut off), and that unless it was warned all that served it is the process attached
(`MixOK`).

**Symbols.** `ListOK` is what lets a lookup do without a lock: every list published or
about to be is ascending, has only addresses of the table, and has all that are settled.
`CapOK` counts the threads between the test of the cap and the insertion; `LoadOK` says what
a lone load has done after each entry.

**ConfigFile.** `HumanInv` follows the protected settings through every step of a save,
`WholeInv` is the order of `_atomic_write()` (nothing is renamed before it is synced), and
`RereadInv` relates a save to the file it read as long as no other save replaced it.

**Only model-checked**, and why: liveness under fairness (`EveryOperationReturns` of
`Connection` and `Lifecycle`, `EveryCallReturns` of `Tools`) is out of the prover's reach.
`PartsTypeOK` is the conjunction of the parts' type invariants, which are proved one by
one. What a fold or a recursive definition computes for every input cannot be proved with
these tools either; `Ascending` and the running totals of `RingLog` are written so that
nothing depends on it.

## Not modelled, and the plan

Every component is modelled but for the `probe` command. Every property that a run finds to
hold and that is not liveness is also proved, some under a hypothesis that the table above
names; `ReplayStaysOnInstance` is proved for one caller and model-checked for two
(`conn_versions`, no change of token). `NoOrphan`, `NothingLostByRestart`,
`AnchoredThisSession` and `OrderNeverMatters` are proved but checked by no run of their
own: but for the order of the list, the first three are part of what the refinements say,
and the last follows from `NoOverlap`. What could be added:

1. `GhidraMap` composed with the instance identity of `Connection`: ranges anchored
   before a restart of the engine keep translating to the ended guest's addresses. The
   descriptions of the tools leave it to the caller to anchor again, so there is no
   property of the code to state yet.
2. The refinements of `ManagedEngine` and `AddressMap` for several callers, once the code
   keeps a start's clean-up and a range's check and insertion under a lock.

Left out for good: JSON schemas, descriptions and hints of tools, the encodings of input events
and of memory views, what is shown of an answer, the wording of errors, `probe` (which
starts or attaches once, alone, and prints), the environment variables, the
documentation site.

Paths of single statements that the models do not take:

- `Connection`: an `/info` answer that is JSON but not an object raises an exception
  that `_try_connect` does not turn into `NotConnected`;
- `Lifecycle`: `mkdtemp` may fail (lifecycle.py:185), which ends a start before anything
  exists; `_cleanup` (344-351) reads `_proc` and `_state_dir` more than once, and a value
  that becomes `None` in between raises an exception there;
- `RingLog`: the clean-ups of a start whose child exited or whose policy write failed are
  not told apart, so `StopEngine` happens at more times than in the code;
- `GhidraMap`: an entry of the map file has its keys with values of the right types or is
  rejected; Python also loads some whose values have other types;
- `Symbols`: a JSON entry may have a negative address, which `int()` accepts; here
  addresses are naturals.
