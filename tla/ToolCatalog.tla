---------------------------- MODULE ToolCatalog ----------------------------
(***************************************************************************)
(* What the bridge offers: every tool as its register() call declares it   *)
(* (tools/*.py), under the features server.py registers it with, the rule  *)
(* that decides which of them a capability mode has, and the requests the  *)
(* tools' handlers make of the engine.                                     *)
(*                                                                         *)
(* Data abstraction.  Names, descriptions, hints and schemas of arguments  *)
(* are left out; a request is its verb and its route, the route split into *)
(* the part of the engine it belongs to and the rest.  The handlers whose  *)
(* requests depend on the arguments are in module Tools.                   *)
(***************************************************************************)
EXTENDS Naturals, Sequences

Modes == {"observe", "interact", "full"}

None == "none"

\* The entries of groups that share no name.
Together(groups) ==
  [name \in UNION {DOMAIN g : g \in groups} |->
     (CHOOSE g \in groups : name \in DOMAIN g)[name]]

-----------------------------------------------------------------------------
\* How add_tool() is called

\* add_tool()'s defaults, with risk "read".
Reads == [risk |-> "read", interactOk |-> FALSE, feature |-> None,
          guarded |-> TRUE]

OfRisk(risk)   == [Reads EXCEPT !.risk = risk]
Mutates        == OfRisk("mutate_guest")
Interact(tool) == [tool EXCEPT !.interactOk = TRUE]

\* needs_connection = False: the handler is not wrapped in guard().
Unguarded(tool) == [tool EXCEPT !.guarded = FALSE]

\* The feature a group of tools is registered with.
Gated(group, feature) ==
  [name \in DOMAIN group |-> [group[name] EXCEPT !.feature = feature]]

-----------------------------------------------------------------------------
\* The tools, by the function that registers them

SessionTools ==
  [dosbox_status |-> Reads, dosbox_shutdown |-> OfRisk("destructive"),
   session_info |-> Reads]

ScreenTools ==
  [screen_text |-> Reads, screen_capture |-> Reads, screen_info |-> Reads]

CaptureTools ==
  [video_capture_start |-> Interact(Mutates),
   video_capture_stop |-> Interact(Mutates),
   video_capture_status |-> Reads]

DriveQueryTools ==
  [drive_list |-> Reads, mount_status |-> Reads, mount_images |-> Reads]

DriveTools ==
  [drive_swap |-> Interact(Mutates), drive_mount |-> Interact(Mutates),
   mount_lock |-> Interact(OfRisk("destructive"))]

ScriptTools ==
  [script_load |-> Interact(Mutates), script_start |-> Interact(Mutates),
   script_status |-> Reads, script_log |-> Reads,
   script_stop |-> Interact(Mutates)]

WaitTools == [wait_for |-> Reads]

TypingTools ==
  [input_type |-> Interact(Mutates), input_key |-> Interact(Mutates),
   input_sequence |-> Interact(Mutates)]

MouseTools ==
  [mouse_position |-> Reads,
   mouse_set_position |-> Interact(Mutates)]

ReplayTools ==
  [replay_status |-> Reads, replay_cancel |-> Interact(Mutates)]

RecordTools ==
  [record_start |-> Interact(Mutates), record_pause |-> Interact(Mutates),
   record_stop |-> Interact(Mutates), record_status |-> Reads,
   recordings_list |-> Reads, recording_delete |-> Interact(Mutates)]

MapTools ==
  [debug_map_set_base |-> Unguarded(OfRisk("mutate_host")),
   debug_map_to_live |-> Unguarded(Reads),
   debug_map_to_ghidra |-> Unguarded(Reads),
   debug_map_status |-> Unguarded(Reads)]

MapAutoTools == [debug_map_auto |-> Mutates]

SymbolTools ==
  [debug_symbols_load |-> Unguarded(OfRisk("mutate_host")),
   debug_symbols_status |-> Unguarded(Reads)]

MemoryTools == [mem_read |-> Reads, mem_write |-> Mutates]

AllocationTools ==
  [mem_alloc |-> Mutates, mem_free |-> Mutates,
   mem_allocations |-> Reads]

SearchTools == [mem_search |-> Reads, mem_scan |-> Reads]

DosTools ==
  [dos_memory_map |-> Reads, dos_ems_status |-> Reads,
   dos_xms_status |-> Reads]

SnapshotTools == [mem_snapshot |-> Mutates, mem_diff |-> Mutates]

FreezeTools ==
  [freeze_set |-> Mutates, freeze_list |-> Reads,
   freeze_clear |-> Mutates]

PortTools == [port_read |-> Reads, port_write |-> Mutates]

RegisterReadTools  == [cpu_read_registers |-> Reads]
RegisterWriteTools == [cpu_write_register |-> Mutates]

RunTools ==
  [debug_status |-> Reads, debug_pause |-> Mutates,
   debug_continue |-> Mutates, debug_step |-> Mutates,
   debug_step_over |-> Mutates, debug_run_to |-> Mutates,
   debug_step_out |-> Mutates]

StopTools == [debug_wait |-> Reads]

BreakpointTools ==
  [debug_breakpoint_add |-> Mutates, debug_breakpoint_list |-> Reads,
   debug_breakpoint_delete |-> Mutates]

WatchTools ==
  [debug_watch_add |-> Mutates, debug_watch_list |-> Reads,
   debug_watch_delete |-> Mutates]

DisassembleTools == [debug_disassemble |-> Reads]
BacktraceTools   == [debug_backtrace |-> Reads]

BatchTools == [batch_execute |-> Mutates]

BridgeTools ==
  LET lifecycle == Unguarded(Interact(OfRisk("lifecycle")))
  IN  [bridge_status |-> Unguarded(Reads),
       bridge_connect |-> lifecycle,
       bridge_disconnect |-> lifecycle,
       bridge_start |-> lifecycle, bridge_stop |-> lifecycle,
       bridge_logs |-> Unguarded(Reads), bridge_setup |-> lifecycle,
       bridge_swagger |-> Unguarded(Reads)]

-----------------------------------------------------------------------------
\* build_server(): the groups and their features

Catalog ==
  Together({SessionTools, ScreenTools, CaptureTools, ScriptTools, WaitTools,
            Gated(DriveQueryTools, "drive"), Gated(DriveTools, "drive"),
            Gated(TypingTools, "input"), Gated(MouseTools, "input"),
            Gated(ReplayTools, "input"), Gated(RecordTools, "input"),
            MapTools, Gated(MapAutoTools, "memory"), SymbolTools,
            Gated(MemoryTools, "memory"), Gated(AllocationTools, "memory"),
            Gated(SearchTools, "memory"), Gated(DosTools, "memory"),
            Gated(SnapshotTools, "memory"),
            Gated(FreezeTools, "freeze"), Gated(PortTools, "port_io"),
            Gated(RegisterWriteTools, "cpu_control"),
            Gated(RegisterReadTools, "cpu_registers"),
            Gated(RunTools, "debugger"), Gated(StopTools, "debugger"),
            Gated(BreakpointTools, "debugger"), Gated(WatchTools, "debugger"),
            Gated(DisassembleTools, "disassemble"),
            Gated(BacktraceTools, "backtrace"),
            Gated(BatchTools, "batch"), BridgeTools})

\* Mutant of ModeAllows: the tool's own flag decides in observe mode too.
ModeAllowsByFlag(mode, risk, interactOk) ==
  risk \in {"read", "mutate_host"} \/ mode = "full" \/ interactOk

\* _mode_allows()
ModeAllows(mode, risk, interactOk) ==
  \/ risk \in {"read", "mutate_host"}
  \/ mode = "full"
  \/ mode = "interact" /\ interactOk

\* The tools a server in this mode registers.
Registered(mode) ==
  {name \in DOMAIN Catalog :
     ModeAllows(mode, Catalog[name].risk, Catalog[name].interactOk)}

-----------------------------------------------------------------------------
\* The requests of the handlers that make the same ones for all arguments

Request(verb, part, route) == [verb |-> verb, part |-> part, route |-> route]
Get(part, route)    == <<Request("GET", part, route)>>
Post(part, route)   == <<Request("POST", part, route)>>
Put(part, route)    == <<Request("PUT", part, route)>>
Delete(part, route) == <<Request("DELETE", part, route)>>

SessionRequests ==
  [dosbox_status |-> <<Request("GET", "status", "/"),
                       Request("GET", "drive", "/"),
                       Request("GET", "dosbox", "info")>>,
   dosbox_shutdown |-> Post("dosbox", "shutdown"),
   session_info |-> <<>>]

ScreenRequests ==
  [screen_text |-> Get("video", "text"),
   screen_capture |-> Get("video", "frame"),
   screen_info |-> Get("video", "frame/info")]

CaptureRequests ==
  [video_capture_start |-> Post("capture", "video/start"),
   video_capture_stop |-> Post("capture", "video/stop"),
   video_capture_status |-> Get("capture", "video/status")]

DriveRequests ==
  [drive_list |-> Get("drive", "/"), mount_status |-> Get("mount", "policy"),
   mount_images |-> Get("mount", "images"),
   drive_swap |-> Post("drive", "swap"),
   drive_mount |-> Post("drive", "mount"),
   mount_lock |-> Post("mount", "lock")]

ScriptRequests ==
  [script_load |-> Post("script", "load"),
   script_start |-> Post("script", "start"),
   script_status |-> Get("script", "status"),
   script_log |-> Get("script", "log"),
   script_stop |-> Post("script", "stop")]

InputRequests ==
  [input_type |-> Post("input", "type"),
   input_key |-> Post("input", "sequence"),
   input_sequence |-> Post("input", "sequence"),
   mouse_position |-> Get("input", "mouse"),
   mouse_set_position |-> Post("input", "mouse"),
   replay_status |-> Get("input", "replay/status"),
   replay_cancel |-> Delete("input", "replay"),
   record_start |-> Post("input", "record/start"),
   record_pause |-> Post("input", "record/pause"),
   record_stop |-> Post("input", "record/stop"),
   record_status |-> Get("input", "record/status"),
   recordings_list |-> Get("input", "recordings"),
   recording_delete |-> Delete("input", "recordings")]

MapAutoRequests ==
  [debug_map_auto |-> <<Request("POST", "memory", "scan"),
                        Request("GET", "dos", "internals")>>]

MemoryRequests ==
  [mem_read |-> Get("memory", "/"), mem_write |-> Put("memory", "/")]

AllocationRequests ==
  [mem_alloc |-> Post("memory", "allocate"),
   mem_free |-> Post("memory", "free"),
   mem_allocations |-> Get("memory", "allocations")]

SnapshotRequests ==
  [mem_snapshot |-> Post("memory", "snapshot"),
   mem_diff |-> Post("memory", "diff")]

SearchRequests ==
  [mem_search |-> Post("memory", "search"),
   mem_scan |-> Post("memory", "scan")]

DosRequests ==
  [dos_memory_map |-> Get("dos", "internals"),
   dos_ems_status |-> Get("dos", "ems"),
   dos_xms_status |-> Get("dos", "xms")]

FreezeRequests ==
  [freeze_set |-> Post("memory", "freeze"),
   freeze_list |-> Get("memory", "freeze"),
   freeze_clear |-> Delete("memory", "freeze")]

PortRequests ==
  [port_read |-> Get("io", "port"), port_write |-> Put("io", "port")]

RegisterRequests ==
  [cpu_write_register |-> Put("cpu", "register"),
   cpu_read_registers |-> Get("cpu", "state")]

RunRequests ==
  [debug_status |-> Get("debug", "status"),
   debug_pause |-> Post("debug", "pause"),
   debug_continue |-> Post("debug", "continue"),
   debug_step |-> Post("debug", "step"),
   debug_step_over |-> Post("debug", "step_over"),
   debug_run_to |-> Post("debug", "run_to"),
   debug_step_out |-> Post("debug", "step_out")]

StopRequests == [debug_wait |-> Get("debug", "wait")]

WaitRequests == [wait_for |-> Post("wait", "/")]

BreakpointRequests ==
  [debug_breakpoint_add |-> Post("debug", "breakpoints"),
   debug_breakpoint_list |-> Get("debug", "breakpoints"),
   debug_breakpoint_delete |-> Delete("debug", "breakpoints")]

WatchRequests ==
  [debug_watch_add |-> Post("debug", "watches"),
   debug_watch_list |-> Get("debug", "watches"),
   debug_watch_delete |-> Delete("debug", "watches")]

CodeRequests ==
  [debug_disassemble |-> Get("debug", "disassemble"),
   debug_backtrace |-> Get("debug", "backtrace")]

BatchRequests == [batch_execute |-> Post("batch", "/")]

\* The bridge's own tools: of these bridge_swagger alone asks the engine.
\* What others do to the attach is in module Tools; the engine process is
\* module Lifecycle, the configuration file ConfigFile.
SwaggerRequests == [bridge_swagger |-> Get("openapi.json", "/")]

LocalRequests ==
  [name \in (DOMAIN BridgeTools \ DOMAIN SwaggerRequests)
             \cup DOMAIN MapTools \cup DOMAIN SymbolTools |-> <<>>]

Requests ==
  Together({SessionRequests, ScreenRequests, CaptureRequests, DriveRequests,
            ScriptRequests, WaitRequests, InputRequests, MapAutoRequests,
            MemoryRequests, AllocationRequests, SnapshotRequests,
            SearchRequests, DosRequests, FreezeRequests, PortRequests,
            RegisterRequests, RunRequests, StopRequests, BreakpointRequests,
            WatchRequests, CodeRequests, BatchRequests, SwaggerRequests,
            LocalRequests})

-----------------------------------------------------------------------------
\* The engine's routes

\* Routes called with POST that only look: a search, a scan, a wait.
Lookups == {<<"memory", "search">>, <<"memory", "scan">>, <<"wait", "/">>}

Changes(request) ==
  /\ request.verb # "GET"
  /\ <<request.part, request.route>> \notin Lookups

\* The parts of the engine the tools send requests to.
Parts == {"status", "dosbox", "video", "capture", "drive", "mount", "script",
          "input", "memory", "dos", "io", "cpu", "debug", "wait", "batch",
          "openapi.json"}
=============================================================================
