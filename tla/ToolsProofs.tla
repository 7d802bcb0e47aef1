----------------------------- MODULE ToolsProofs -----------------------------
(***************************************************************************)
(* Proofs about Tools and ToolCatalog, for any agents, features, scenarios *)
(* and timeouts.                                                           *)
(*                                                                         *)
(* First the catalog: what each registration says and what the requests of *)
(* each handler do to the guest (ToolOK, HandlerOK, ApplyOK).  Then the    *)
(* inductive invariant: GuestOK bounds what the mode and the increments    *)
(* leave of the guest; CallIsOK follows one call, what is left of its      *)
(* work, its request on the wire, and the processes that have served it.   *)
(***************************************************************************)
EXTENDS Tools, FiniteSetTheorems, SequenceTheorems, TLAPS

-----------------------------------------------------------------------------
\* The catalog

\* The tools that change the guest outside what interact mode is for, and
\* those that change only what it is for.
Steering ==
  {"dosbox_shutdown", "mem_write", "mem_alloc", "mem_free", "mem_snapshot",
   "mem_diff", "freeze_set", "freeze_clear", "port_write",
   "cpu_write_register", "debug_pause", "debug_continue", "debug_step",
   "debug_step_over", "debug_run_to", "debug_step_out",
   "debug_breakpoint_add", "debug_breakpoint_delete", "debug_watch_add",
   "debug_watch_delete", "batch_execute"}

Playing ==
  {"video_capture_start", "video_capture_stop", "drive_swap", "drive_mount",
   "mount_lock", "script_load", "script_start", "script_stop", "input_type",
   "input_key", "input_sequence", "mouse_set_position", "replay_cancel",
   "record_start", "record_pause", "record_stop", "recording_delete"}

\* What a registration says, as far as the mode goes.
ToolOK(name, e) ==
  /\ DOMAIN e = DOMAIN Reads
  /\ name \in Steering => /\ e.risk \notin {"read", "mutate_host"}
                          /\ e.interactOk = FALSE
  /\ name \in Playing => e.risk \notin {"read", "mutate_host"}

\* What the requests of a tool do.
RequestsOK(name, q) ==
  /\ \E n \in Nat : DOMAIN q = 1..n
  /\ \A i \in DOMAIN q :
       /\ q[i].part \in Parts
       /\ Changes(q[i]) => name \in Steering \cup Playing
       /\ Changes(q[i]) /\ name \in Playing => q[i].part \in InteractParts

\* An entry of groups taken together is one of theirs.
LEMMA TogetherIs ==
  ASSUME NEW groups, NEW name \in DOMAIN Together(groups)
  PROVE  \E g \in groups :
           name \in DOMAIN g /\ Together(groups)[name] = g[name]
<1> DEFINE g == CHOOSE g \in groups : name \in DOMAIN g
<1>1. \E h \in groups : name \in DOMAIN h
  BY DEF Together
<1>2. g \in groups /\ name \in DOMAIN g
  BY <1>1
<1>3. Together(groups)[name] = g[name]
  BY DEF Together
<1> QED
  BY <1>2, <1>3

\* A group keeps what its tools are when it is given a feature.
LEMMA GatedIs ==
  ASSUME NEW group, NEW feature, \A n \in DOMAIN group : ToolOK(n, group[n])
  PROVE  \A n \in DOMAIN Gated(group, feature) :
           ToolOK(n, Gated(group, feature)[n])
<1> SUFFICES ASSUME NEW n \in DOMAIN Gated(group, feature)
             PROVE  ToolOK(n, Gated(group, feature)[n])
  OBVIOUS
<1> DEFINE e == group[n]
<1>1. n \in DOMAIN group /\ ToolOK(n, e)
  BY DEF Gated
<1>2. Gated(group, feature)[n] = [e EXCEPT !.feature = feature]
  BY DEF Gated
<1> HIDE DEF e
<1>3. DOMAIN e = {"risk", "interactOk", "feature", "guarded"}
  BY <1>1 DEF ToolOK, Reads
<1>4. /\ DOMAIN [e EXCEPT !.feature = feature] = DOMAIN e
      /\ [e EXCEPT !.feature = feature].risk = e.risk
      /\ [e EXCEPT !.feature = feature].interactOk = e.interactOk
  BY <1>3
<1> QED
  BY <1>1, <1>2, <1>4 DEF ToolOK

\* What the kinds of registrations say.
LEMMA KindsOK ==
  /\ \A n, e : DOMAIN e = DOMAIN Reads /\ n \notin Steering \cup Playing =>
       ToolOK(n, e)
  /\ \A n : n \notin Steering =>
       /\ ToolOK(n, Interact(Mutates))
       /\ ToolOK(n, Interact(OfRisk("destructive")))
  /\ \A n : ToolOK(n, Mutates) /\ ToolOK(n, OfRisk("destructive"))
<1>1. \A n, e : DOMAIN e = DOMAIN Reads /\ n \notin Steering \cup Playing =>
        ToolOK(n, e)
  BY DEF ToolOK
<1>2. \A n : n \notin Steering =>
        /\ ToolOK(n, Interact(Mutates))
        /\ ToolOK(n, Interact(OfRisk("destructive")))
  BY DEF ToolOK, Interact, Mutates, OfRisk, Reads
<1>3. \A n : ToolOK(n, Mutates) /\ ToolOK(n, OfRisk("destructive"))
  BY DEF ToolOK, Mutates, OfRisk, Reads
<1> QED
  BY <1>1, <1>2, <1>3

\* Registrations that need no more than their fields.
LEMMA KindsAreEntries ==
  /\ DOMAIN Unguarded(Reads) = DOMAIN Reads
  /\ DOMAIN Unguarded(OfRisk("mutate_host")) = DOMAIN Reads
  /\ DOMAIN Unguarded(Interact(OfRisk("lifecycle"))) = DOMAIN Reads
BY DEF Unguarded, Interact, OfRisk, Reads

\* The groups of registrations.
LEMMA GroupsOK ==
  /\ \A n \in DOMAIN SessionTools : ToolOK(n, SessionTools[n])
  /\ \A n \in DOMAIN ScreenTools : ToolOK(n, ScreenTools[n])
  /\ \A n \in DOMAIN CaptureTools : ToolOK(n, CaptureTools[n])
  /\ \A n \in DOMAIN ScriptTools : ToolOK(n, ScriptTools[n])
  /\ \A n \in DOMAIN WaitTools : ToolOK(n, WaitTools[n])
  /\ \A n \in DOMAIN DriveQueryTools : ToolOK(n, DriveQueryTools[n])
  /\ \A n \in DOMAIN DriveTools : ToolOK(n, DriveTools[n])
  /\ \A n \in DOMAIN TypingTools : ToolOK(n, TypingTools[n])
  /\ \A n \in DOMAIN MouseTools : ToolOK(n, MouseTools[n])
  /\ \A n \in DOMAIN ReplayTools : ToolOK(n, ReplayTools[n])
  /\ \A n \in DOMAIN RecordTools : ToolOK(n, RecordTools[n])
  /\ \A n \in DOMAIN MapTools : ToolOK(n, MapTools[n])
  /\ \A n \in DOMAIN MapAutoTools : ToolOK(n, MapAutoTools[n])
  /\ \A n \in DOMAIN SymbolTools : ToolOK(n, SymbolTools[n])
  /\ \A n \in DOMAIN MemoryTools : ToolOK(n, MemoryTools[n])
  /\ \A n \in DOMAIN AllocationTools : ToolOK(n, AllocationTools[n])
  /\ \A n \in DOMAIN SearchTools : ToolOK(n, SearchTools[n])
  /\ \A n \in DOMAIN DosTools : ToolOK(n, DosTools[n])
  /\ \A n \in DOMAIN SnapshotTools : ToolOK(n, SnapshotTools[n])
  /\ \A n \in DOMAIN FreezeTools : ToolOK(n, FreezeTools[n])
  /\ \A n \in DOMAIN PortTools : ToolOK(n, PortTools[n])
  /\ \A n \in DOMAIN RegisterWriteTools : ToolOK(n, RegisterWriteTools[n])
  /\ \A n \in DOMAIN RegisterReadTools : ToolOK(n, RegisterReadTools[n])
  /\ \A n \in DOMAIN RunTools : ToolOK(n, RunTools[n])
  /\ \A n \in DOMAIN StopTools : ToolOK(n, StopTools[n])
  /\ \A n \in DOMAIN BreakpointTools : ToolOK(n, BreakpointTools[n])
  /\ \A n \in DOMAIN WatchTools : ToolOK(n, WatchTools[n])
  /\ \A n \in DOMAIN DisassembleTools : ToolOK(n, DisassembleTools[n])
  /\ \A n \in DOMAIN BacktraceTools : ToolOK(n, BacktraceTools[n])
  /\ \A n \in DOMAIN BatchTools : ToolOK(n, BatchTools[n])
  /\ \A n \in DOMAIN BridgeTools : ToolOK(n, BridgeTools[n])
<1>1. \A n \in DOMAIN SessionTools : ToolOK(n, SessionTools[n])
  BY KindsOK, KindsAreEntries DEF SessionTools, Steering, Playing
<1>2. \A n \in DOMAIN ScreenTools : ToolOK(n, ScreenTools[n])
  BY KindsOK, KindsAreEntries DEF ScreenTools, Steering, Playing
<1>3. \A n \in DOMAIN CaptureTools : ToolOK(n, CaptureTools[n])
  BY KindsOK, KindsAreEntries DEF CaptureTools, Steering, Playing
<1>4. \A n \in DOMAIN ScriptTools : ToolOK(n, ScriptTools[n])
  BY KindsOK, KindsAreEntries DEF ScriptTools, Steering, Playing
<1>5. \A n \in DOMAIN WaitTools : ToolOK(n, WaitTools[n])
  BY KindsOK, KindsAreEntries DEF WaitTools, Steering, Playing
<1>6. \A n \in DOMAIN DriveQueryTools : ToolOK(n, DriveQueryTools[n])
  BY KindsOK, KindsAreEntries DEF DriveQueryTools, Steering, Playing
<1>7. \A n \in DOMAIN DriveTools : ToolOK(n, DriveTools[n])
  BY KindsOK, KindsAreEntries DEF DriveTools, Steering, Playing
<1>8. \A n \in DOMAIN TypingTools : ToolOK(n, TypingTools[n])
  BY KindsOK, KindsAreEntries DEF TypingTools, Steering, Playing
<1>9. \A n \in DOMAIN MouseTools : ToolOK(n, MouseTools[n])
  BY KindsOK, KindsAreEntries DEF MouseTools, Steering, Playing
<1>10. \A n \in DOMAIN ReplayTools : ToolOK(n, ReplayTools[n])
  BY KindsOK, KindsAreEntries DEF ReplayTools, Steering, Playing
<1>11. \A n \in DOMAIN RecordTools : ToolOK(n, RecordTools[n])
  BY KindsOK, KindsAreEntries DEF RecordTools, Steering, Playing
<1>12. \A n \in DOMAIN MapTools : ToolOK(n, MapTools[n])
  BY KindsOK, KindsAreEntries DEF MapTools, Steering, Playing
<1>13. \A n \in DOMAIN MapAutoTools : ToolOK(n, MapAutoTools[n])
  BY KindsOK, KindsAreEntries DEF MapAutoTools, Steering, Playing
<1>14. \A n \in DOMAIN SymbolTools : ToolOK(n, SymbolTools[n])
  BY KindsOK, KindsAreEntries DEF SymbolTools, Steering, Playing
<1>15. \A n \in DOMAIN MemoryTools : ToolOK(n, MemoryTools[n])
  BY KindsOK, KindsAreEntries DEF MemoryTools, Steering, Playing
<1>16. \A n \in DOMAIN AllocationTools : ToolOK(n, AllocationTools[n])
  BY KindsOK, KindsAreEntries DEF AllocationTools, Steering, Playing
<1>17. \A n \in DOMAIN SearchTools : ToolOK(n, SearchTools[n])
  BY KindsOK, KindsAreEntries DEF SearchTools, Steering, Playing
<1>18. \A n \in DOMAIN DosTools : ToolOK(n, DosTools[n])
  BY KindsOK, KindsAreEntries DEF DosTools, Steering, Playing
<1>19. \A n \in DOMAIN SnapshotTools : ToolOK(n, SnapshotTools[n])
  BY KindsOK, KindsAreEntries DEF SnapshotTools, Steering, Playing
<1>20. \A n \in DOMAIN FreezeTools : ToolOK(n, FreezeTools[n])
  BY KindsOK, KindsAreEntries DEF FreezeTools, Steering, Playing
<1>21. \A n \in DOMAIN PortTools : ToolOK(n, PortTools[n])
  BY KindsOK, KindsAreEntries DEF PortTools, Steering, Playing
<1>22. \A n \in DOMAIN RegisterWriteTools : ToolOK(n, RegisterWriteTools[n])
  BY KindsOK, KindsAreEntries DEF RegisterWriteTools, Steering, Playing
<1>23. \A n \in DOMAIN RegisterReadTools : ToolOK(n, RegisterReadTools[n])
  BY KindsOK, KindsAreEntries DEF RegisterReadTools, Steering, Playing
<1>24. \A n \in DOMAIN RunTools : ToolOK(n, RunTools[n])
  BY KindsOK, KindsAreEntries DEF RunTools, Steering, Playing
<1>25. \A n \in DOMAIN StopTools : ToolOK(n, StopTools[n])
  BY KindsOK, KindsAreEntries DEF StopTools, Steering, Playing
<1>26. \A n \in DOMAIN BreakpointTools : ToolOK(n, BreakpointTools[n])
  BY KindsOK, KindsAreEntries DEF BreakpointTools, Steering, Playing
<1>27. \A n \in DOMAIN WatchTools : ToolOK(n, WatchTools[n])
  BY KindsOK, KindsAreEntries DEF WatchTools, Steering, Playing
<1>28. \A n \in DOMAIN DisassembleTools : ToolOK(n, DisassembleTools[n])
  BY KindsOK, KindsAreEntries DEF DisassembleTools, Steering, Playing
<1>29. \A n \in DOMAIN BacktraceTools : ToolOK(n, BacktraceTools[n])
  BY KindsOK, KindsAreEntries DEF BacktraceTools, Steering, Playing
<1>30. \A n \in DOMAIN BatchTools : ToolOK(n, BatchTools[n])
  BY KindsOK, KindsAreEntries DEF BatchTools, Steering, Playing
<1>31. \A n \in DOMAIN BridgeTools : ToolOK(n, BridgeTools[n])
  BY KindsOK, KindsAreEntries DEF BridgeTools, Steering, Playing
<1> QED
  BY <1>1, <1>2, <1>3, <1>4, <1>5, <1>6, <1>7, <1>8, <1>9, <1>10, <1>11,
     <1>12, <1>13, <1>14, <1>15, <1>16, <1>17, <1>18, <1>19, <1>20, <1>21,
     <1>22, <1>23, <1>24, <1>25, <1>26, <1>27, <1>28, <1>29, <1>30, <1>31

\* What a tool may ask of a part of the engine.
Allowed(n, part, route) ==
  \/ n \in Steering
  \/ n \in Playing /\ part \in InteractParts
  \/ <<part, route>> \in Lookups

\* One request, by what it changes.
LEMMA OneRequestOK ==
  ASSUME NEW n, NEW verb, NEW part \in Parts, NEW route,
         verb = "GET" \/ Allowed(n, part, route)
  PROVE  RequestsOK(n, <<Request(verb, part, route)>>)
<1> DEFINE r == Request(verb, part, route)
           q == <<r>>
<1>1. DOMAIN q = 1..1 /\ q[1] = r
  OBVIOUS
<1>2. \A i \in DOMAIN q : i = 1
  BY <1>1
<1>3. /\ r.part = part
      /\ Changes(r) => verb # "GET" /\ <<part, route>> \notin Lookups
  BY DEF Request, Changes
<1>4. n \in Steering => n \notin Playing
  BY DEF Steering, Playing
<1> HIDE DEF r, q
<1>5. \A i \in DOMAIN q :
        /\ q[i].part \in Parts
        /\ Changes(q[i]) => n \in Steering \cup Playing
        /\ Changes(q[i]) /\ n \in Playing => q[i].part \in InteractParts
  BY <1>1, <1>2, <1>3, <1>4 DEF Allowed
<1>6. RequestsOK(n, q)
  BY <1>1, <1>5 DEF RequestsOK
<1> QED
  BY <1>6 DEF r, q

\* What the kinds of requests do.
LEMMA RequestKindsOK ==
  /\ \A n : RequestsOK(n, <<>>)
  /\ \A n, part, route : part \in Parts => RequestsOK(n, Get(part, route))
  /\ \A n, part, route :
       part \in Parts /\ Allowed(n, part, route) =>
         /\ RequestsOK(n, Post(part, route)) /\ RequestsOK(n, Put(part, route))
         /\ RequestsOK(n, Delete(part, route))
<1>1. \A n : RequestsOK(n, <<>>)
  <2>1. DOMAIN <<>> = 1..0 /\ 0 \in Nat /\ 1..0 = {}
    OBVIOUS
  <2> QED
    BY <2>1 DEF RequestsOK
<1>2. \A n, part, route : part \in Parts => RequestsOK(n, Get(part, route))
  BY OneRequestOK DEF Get
<1>3. \A n, part, route :
        part \in Parts /\ Allowed(n, part, route) =>
          /\ RequestsOK(n, Post(part, route)) /\ RequestsOK(n, Put(part, route))
          /\ RequestsOK(n, Delete(part, route))
  BY OneRequestOK DEF Post, Put, Delete
<1> QED
  BY <1>1, <1>2, <1>3

\* Which requests are allowed to whom.
LEMMA AllowedRequests ==
  /\ \A n, part, route : n \in Steering => Allowed(n, part, route)
  /\ \A n, part, route : n \in Playing /\ part \in InteractParts =>
       Allowed(n, part, route)
  /\ \A n, part, route : <<part, route>> \in Lookups => Allowed(n, part, route)
  /\ InteractParts \subseteq Parts
<1>1. InteractParts \subseteq Parts
  BY DEF InteractParts, Parts
<1> QED
  BY <1>1 DEF Allowed

\* Two requests, the second of which only looks, and three that only look.
LEMMA MoreRequestsOK ==
  /\ \A n, part, route, part2, route2 :
       part \in Parts /\ Allowed(n, part, route) /\ part2 \in Parts =>
         RequestsOK(n, <<Request("POST", part, route),
                         Request("GET", part2, route2)>>)
  /\ \A n, part, route, part2, route2, part3, route3 :
       part \in Parts /\ part2 \in Parts /\ part3 \in Parts =>
         RequestsOK(n, <<Request("GET", part, route),
                         Request("GET", part2, route2),
                         Request("GET", part3, route3)>>)
<1> DEFINE OK(n, r) == /\ r.part \in Parts
                       /\ Changes(r) => n \in Steering \cup Playing
                       /\ Changes(r) /\ n \in Playing => r.part \in InteractParts
<1>1. \A n, part, route : part \in Parts => OK(n, Request("GET", part, route))
  BY DEF Request, Changes
<1>2. \A n, part, route : part \in Parts /\ Allowed(n, part, route) =>
                            OK(n, Request("POST", part, route))
  BY DEF Request, Changes, Allowed, Steering, Playing
<1>3. ASSUME NEW n, NEW r, NEW r2, OK(n, r), OK(n, r2)
      PROVE  RequestsOK(n, <<r, r2>>)
  <2> DEFINE q == <<r, r2>>
  <2>1. DOMAIN q = 1..2 /\ q[1] = r /\ q[2] = r2
    OBVIOUS
  <2>2. \A i \in DOMAIN q : i = 1 \/ i = 2
    BY <2>1
  <2> HIDE DEF q
  <2>3. RequestsOK(n, q)
    BY <1>3, <2>1, <2>2 DEF RequestsOK
  <2> QED
    BY <2>3 DEF q
<1>4. ASSUME NEW n, NEW r, NEW r2, NEW r3, OK(n, r), OK(n, r2), OK(n, r3)
      PROVE  RequestsOK(n, <<r, r2, r3>>)
  <2> DEFINE q == <<r, r2, r3>>
  <2>1. DOMAIN q = 1..3 /\ q[1] = r /\ q[2] = r2 /\ q[3] = r3
    OBVIOUS
  <2>2. \A i \in DOMAIN q : i = 1 \/ i = 2 \/ i = 3
    BY <2>1
  <2> HIDE DEF q
  <2>3. RequestsOK(n, q)
    BY <1>4, <2>1, <2>2 DEF RequestsOK
  <2> QED
    BY <2>3 DEF q
<1> HIDE DEF OK
<1> QED
  BY <1>1, <1>2, <1>3, <1>4

\* The groups of requests.
LEMMA RequestGroupsOK ==
  /\ \A n \in DOMAIN SessionRequests : RequestsOK(n, SessionRequests[n])
  /\ \A n \in DOMAIN ScreenRequests : RequestsOK(n, ScreenRequests[n])
  /\ \A n \in DOMAIN CaptureRequests : RequestsOK(n, CaptureRequests[n])
  /\ \A n \in DOMAIN DriveRequests : RequestsOK(n, DriveRequests[n])
  /\ \A n \in DOMAIN ScriptRequests : RequestsOK(n, ScriptRequests[n])
  /\ \A n \in DOMAIN WaitRequests : RequestsOK(n, WaitRequests[n])
  /\ \A n \in DOMAIN InputRequests : RequestsOK(n, InputRequests[n])
  /\ \A n \in DOMAIN MapAutoRequests : RequestsOK(n, MapAutoRequests[n])
  /\ \A n \in DOMAIN MemoryRequests : RequestsOK(n, MemoryRequests[n])
  /\ \A n \in DOMAIN FreezeRequests : RequestsOK(n, FreezeRequests[n])
  /\ \A n \in DOMAIN PortRequests : RequestsOK(n, PortRequests[n])
  /\ \A n \in DOMAIN RegisterRequests : RequestsOK(n, RegisterRequests[n])
  /\ \A n \in DOMAIN RunRequests : RequestsOK(n, RunRequests[n])
  /\ \A n \in DOMAIN BreakpointRequests : RequestsOK(n, BreakpointRequests[n])
  /\ \A n \in DOMAIN WatchRequests : RequestsOK(n, WatchRequests[n])
  /\ \A n \in DOMAIN CodeRequests : RequestsOK(n, CodeRequests[n])
  /\ \A n \in DOMAIN BatchRequests : RequestsOK(n, BatchRequests[n])
  /\ \A n \in DOMAIN AllocationRequests : RequestsOK(n, AllocationRequests[n])
  /\ \A n \in DOMAIN SnapshotRequests : RequestsOK(n, SnapshotRequests[n])
  /\ \A n \in DOMAIN SearchRequests : RequestsOK(n, SearchRequests[n])
  /\ \A n \in DOMAIN DosRequests : RequestsOK(n, DosRequests[n])
  /\ \A n \in DOMAIN StopRequests : RequestsOK(n, StopRequests[n])
  /\ \A n \in DOMAIN SwaggerRequests : RequestsOK(n, SwaggerRequests[n])
  /\ \A n \in DOMAIN LocalRequests : RequestsOK(n, LocalRequests[n])
<1>a. \A n : /\ Allowed(n, "memory", "search") /\ Allowed(n, "memory", "scan")
             /\ Allowed(n, "wait", "/")
  BY AllowedRequests DEF Lookups
<1>1. \A n \in DOMAIN SessionRequests : RequestsOK(n, SessionRequests[n])
  BY RequestKindsOK, MoreRequestsOK, AllowedRequests
     DEF SessionRequests, Steering, Parts
<1>2. \A n \in DOMAIN ScreenRequests : RequestsOK(n, ScreenRequests[n])
  BY RequestKindsOK, AllowedRequests
     DEF ScreenRequests, Parts
<1>3. \A n \in DOMAIN CaptureRequests : RequestsOK(n, CaptureRequests[n])
  BY RequestKindsOK, AllowedRequests
     DEF CaptureRequests, Playing, InteractParts, Parts
<1>4. \A n \in DOMAIN DriveRequests : RequestsOK(n, DriveRequests[n])
  BY RequestKindsOK, AllowedRequests
     DEF DriveRequests, Playing, InteractParts, Parts
<1>5. \A n \in DOMAIN ScriptRequests : RequestsOK(n, ScriptRequests[n])
  BY RequestKindsOK, AllowedRequests
     DEF ScriptRequests, Playing, InteractParts, Parts
<1>6. \A n \in DOMAIN WaitRequests : RequestsOK(n, WaitRequests[n])
  BY <1>a, RequestKindsOK DEF WaitRequests, Parts
<1>7. \A n \in DOMAIN InputRequests : RequestsOK(n, InputRequests[n])
  BY RequestKindsOK, AllowedRequests
     DEF InputRequests, Playing, InteractParts, Parts
<1>8. \A n \in DOMAIN MapAutoRequests : RequestsOK(n, MapAutoRequests[n])
  BY <1>a, MoreRequestsOK DEF MapAutoRequests, Parts
<1>9. \A n \in DOMAIN MemoryRequests : RequestsOK(n, MemoryRequests[n])
  BY RequestKindsOK, AllowedRequests
     DEF MemoryRequests, Steering, Parts
<1>10. \A n \in DOMAIN FreezeRequests : RequestsOK(n, FreezeRequests[n])
  BY RequestKindsOK, AllowedRequests
     DEF FreezeRequests, Steering, Parts
<1>11. \A n \in DOMAIN PortRequests : RequestsOK(n, PortRequests[n])
  BY RequestKindsOK, AllowedRequests
     DEF PortRequests, Steering, Parts
<1>12. \A n \in DOMAIN RegisterRequests : RequestsOK(n, RegisterRequests[n])
  BY RequestKindsOK, AllowedRequests
     DEF RegisterRequests, Steering, Parts
<1>13. \A n \in DOMAIN RunRequests : RequestsOK(n, RunRequests[n])
  BY RequestKindsOK, AllowedRequests
     DEF RunRequests, Steering, Parts
<1>14. \A n \in DOMAIN BreakpointRequests : RequestsOK(n, BreakpointRequests[n])
  BY RequestKindsOK, AllowedRequests
     DEF BreakpointRequests, Steering, Parts
<1>15. \A n \in DOMAIN WatchRequests : RequestsOK(n, WatchRequests[n])
  BY RequestKindsOK, AllowedRequests
     DEF WatchRequests, Steering, Parts
<1>16. \A n \in DOMAIN CodeRequests : RequestsOK(n, CodeRequests[n])
  BY RequestKindsOK, AllowedRequests
     DEF CodeRequests, Steering, Parts
<1>17. \A n \in DOMAIN BatchRequests : RequestsOK(n, BatchRequests[n])
  BY RequestKindsOK, AllowedRequests
     DEF BatchRequests, Steering, Parts
<1>18. \A n \in DOMAIN AllocationRequests : RequestsOK(n, AllocationRequests[n])
  BY RequestKindsOK, AllowedRequests
     DEF AllocationRequests, Steering, Parts
<1>19. \A n \in DOMAIN SnapshotRequests : RequestsOK(n, SnapshotRequests[n])
  BY RequestKindsOK, AllowedRequests
     DEF SnapshotRequests, Steering, Parts
<1>20. \A n \in DOMAIN SearchRequests : RequestsOK(n, SearchRequests[n])
  BY <1>a, RequestKindsOK DEF SearchRequests, Parts
<1>21. \A n \in DOMAIN DosRequests : RequestsOK(n, DosRequests[n])
  BY RequestKindsOK DEF DosRequests, Parts
<1>22. \A n \in DOMAIN StopRequests : RequestsOK(n, StopRequests[n])
  BY RequestKindsOK DEF StopRequests, Parts
<1>23. \A n \in DOMAIN SwaggerRequests : RequestsOK(n, SwaggerRequests[n])
  BY RequestKindsOK DEF SwaggerRequests, Parts
<1>24. \A n \in DOMAIN LocalRequests : RequestsOK(n, LocalRequests[n])
  BY RequestKindsOK, AllowedRequests
     DEF LocalRequests
<1> QED
  BY <1>1, <1>2, <1>3, <1>4, <1>5, <1>6, <1>7, <1>8, <1>9, <1>10, <1>11,
     <1>12, <1>13, <1>14, <1>15, <1>16, <1>17, <1>18, <1>19, <1>20, <1>21,
     <1>22, <1>23, <1>24

\* The requests of every group are among those of the tools.
LEMMA RequestDomains ==
  /\ DOMAIN SessionRequests \subseteq DOMAIN Requests
  /\ DOMAIN ScreenRequests \subseteq DOMAIN Requests
  /\ DOMAIN CaptureRequests \subseteq DOMAIN Requests
  /\ DOMAIN DriveRequests \subseteq DOMAIN Requests
  /\ DOMAIN ScriptRequests \subseteq DOMAIN Requests
  /\ DOMAIN WaitRequests \subseteq DOMAIN Requests
  /\ DOMAIN InputRequests \subseteq DOMAIN Requests
  /\ DOMAIN MapAutoRequests \subseteq DOMAIN Requests
  /\ DOMAIN MemoryRequests \subseteq DOMAIN Requests
  /\ DOMAIN FreezeRequests \subseteq DOMAIN Requests
  /\ DOMAIN PortRequests \subseteq DOMAIN Requests
  /\ DOMAIN RegisterRequests \subseteq DOMAIN Requests
  /\ DOMAIN RunRequests \subseteq DOMAIN Requests
  /\ DOMAIN BreakpointRequests \subseteq DOMAIN Requests
  /\ DOMAIN WatchRequests \subseteq DOMAIN Requests
  /\ DOMAIN CodeRequests \subseteq DOMAIN Requests
  /\ DOMAIN BatchRequests \subseteq DOMAIN Requests
  /\ DOMAIN AllocationRequests \subseteq DOMAIN Requests
  /\ DOMAIN SnapshotRequests \subseteq DOMAIN Requests
  /\ DOMAIN SearchRequests \subseteq DOMAIN Requests
  /\ DOMAIN DosRequests \subseteq DOMAIN Requests
  /\ DOMAIN StopRequests \subseteq DOMAIN Requests
  /\ DOMAIN SwaggerRequests \subseteq DOMAIN Requests
  /\ DOMAIN LocalRequests \subseteq DOMAIN Requests
BY DEF Requests, Together

\* Every tool of every group has requests.
LEMMA GroupsHaveRequests ==
  /\ DOMAIN SessionTools \subseteq DOMAIN Requests
  /\ DOMAIN ScreenTools \subseteq DOMAIN Requests
  /\ DOMAIN CaptureTools \subseteq DOMAIN Requests
  /\ DOMAIN ScriptTools \subseteq DOMAIN Requests
  /\ DOMAIN WaitTools \subseteq DOMAIN Requests
  /\ DOMAIN DriveQueryTools \subseteq DOMAIN Requests
  /\ DOMAIN DriveTools \subseteq DOMAIN Requests
  /\ DOMAIN TypingTools \subseteq DOMAIN Requests
  /\ DOMAIN MouseTools \subseteq DOMAIN Requests
  /\ DOMAIN ReplayTools \subseteq DOMAIN Requests
  /\ DOMAIN RecordTools \subseteq DOMAIN Requests
  /\ DOMAIN MapTools \subseteq DOMAIN Requests
  /\ DOMAIN MapAutoTools \subseteq DOMAIN Requests
  /\ DOMAIN SymbolTools \subseteq DOMAIN Requests
  /\ DOMAIN MemoryTools \subseteq DOMAIN Requests
  /\ DOMAIN AllocationTools \subseteq DOMAIN Requests
  /\ DOMAIN SearchTools \subseteq DOMAIN Requests
  /\ DOMAIN DosTools \subseteq DOMAIN Requests
  /\ DOMAIN SnapshotTools \subseteq DOMAIN Requests
  /\ DOMAIN FreezeTools \subseteq DOMAIN Requests
  /\ DOMAIN PortTools \subseteq DOMAIN Requests
  /\ DOMAIN RegisterWriteTools \subseteq DOMAIN Requests
  /\ DOMAIN RegisterReadTools \subseteq DOMAIN Requests
  /\ DOMAIN RunTools \subseteq DOMAIN Requests
  /\ DOMAIN StopTools \subseteq DOMAIN Requests
  /\ DOMAIN BreakpointTools \subseteq DOMAIN Requests
  /\ DOMAIN WatchTools \subseteq DOMAIN Requests
  /\ DOMAIN DisassembleTools \subseteq DOMAIN Requests
  /\ DOMAIN BacktraceTools \subseteq DOMAIN Requests
  /\ DOMAIN BatchTools \subseteq DOMAIN Requests
  /\ DOMAIN BridgeTools \subseteq DOMAIN Requests
<1>1. DOMAIN SessionTools \subseteq DOMAIN Requests
  BY RequestDomains DEF SessionTools, SessionRequests
<1>2. DOMAIN ScreenTools \subseteq DOMAIN Requests
  BY RequestDomains DEF ScreenTools, ScreenRequests
<1>3. DOMAIN CaptureTools \subseteq DOMAIN Requests
  BY RequestDomains DEF CaptureTools, CaptureRequests
<1>4. DOMAIN ScriptTools \subseteq DOMAIN Requests
  BY RequestDomains DEF ScriptTools, ScriptRequests
<1>5. DOMAIN WaitTools \subseteq DOMAIN Requests
  BY RequestDomains DEF WaitTools, WaitRequests
<1>6. DOMAIN DriveQueryTools \subseteq DOMAIN Requests
  BY RequestDomains DEF DriveQueryTools, DriveRequests
<1>7. DOMAIN DriveTools \subseteq DOMAIN Requests
  BY RequestDomains DEF DriveTools, DriveRequests
<1>8. DOMAIN TypingTools \subseteq DOMAIN Requests
  BY RequestDomains DEF TypingTools, InputRequests
<1>9. DOMAIN MouseTools \subseteq DOMAIN Requests
  BY RequestDomains DEF MouseTools, InputRequests
<1>10. DOMAIN ReplayTools \subseteq DOMAIN Requests
  BY RequestDomains DEF ReplayTools, InputRequests
<1>11. DOMAIN RecordTools \subseteq DOMAIN Requests
  BY RequestDomains DEF RecordTools, InputRequests
<1>12. DOMAIN MapTools \subseteq DOMAIN Requests
  BY RequestDomains DEF LocalRequests
<1>13. DOMAIN MapAutoTools \subseteq DOMAIN Requests
  BY RequestDomains DEF MapAutoTools, MapAutoRequests
<1>14. DOMAIN SymbolTools \subseteq DOMAIN Requests
  BY RequestDomains DEF LocalRequests
<1>15. DOMAIN MemoryTools \subseteq DOMAIN Requests
  BY RequestDomains DEF MemoryTools, MemoryRequests
<1>16. DOMAIN AllocationTools \subseteq DOMAIN Requests
  BY RequestDomains DEF AllocationTools, AllocationRequests
<1>17. DOMAIN SearchTools \subseteq DOMAIN Requests
  BY RequestDomains DEF SearchTools, SearchRequests
<1>18. DOMAIN DosTools \subseteq DOMAIN Requests
  BY RequestDomains DEF DosTools, DosRequests
<1>19. DOMAIN SnapshotTools \subseteq DOMAIN Requests
  BY RequestDomains DEF SnapshotTools, SnapshotRequests
<1>20. DOMAIN FreezeTools \subseteq DOMAIN Requests
  BY RequestDomains DEF FreezeTools, FreezeRequests
<1>21. DOMAIN PortTools \subseteq DOMAIN Requests
  BY RequestDomains DEF PortTools, PortRequests
<1>22. DOMAIN RegisterWriteTools \subseteq DOMAIN Requests
  BY RequestDomains DEF RegisterWriteTools, RegisterRequests
<1>23. DOMAIN RegisterReadTools \subseteq DOMAIN Requests
  BY RequestDomains DEF RegisterReadTools, RegisterRequests
<1>24. DOMAIN RunTools \subseteq DOMAIN Requests
  BY RequestDomains DEF RunTools, RunRequests
<1>25. DOMAIN StopTools \subseteq DOMAIN Requests
  BY RequestDomains DEF StopTools, StopRequests
<1>26. DOMAIN BreakpointTools \subseteq DOMAIN Requests
  BY RequestDomains DEF BreakpointTools, BreakpointRequests
<1>27. DOMAIN WatchTools \subseteq DOMAIN Requests
  BY RequestDomains DEF WatchTools, WatchRequests
<1>28. DOMAIN DisassembleTools \subseteq DOMAIN Requests
  BY RequestDomains DEF DisassembleTools, CodeRequests
<1>29. DOMAIN BacktraceTools \subseteq DOMAIN Requests
  BY RequestDomains DEF BacktraceTools, CodeRequests
<1>30. DOMAIN BatchTools \subseteq DOMAIN Requests
  BY RequestDomains DEF BatchTools, BatchRequests
<1>31. DOMAIN BridgeTools \subseteq DOMAIN Requests
  BY RequestDomains DEF LocalRequests, SwaggerRequests
<1> QED
  BY <1>1, <1>2, <1>3, <1>4, <1>5, <1>6, <1>7, <1>8, <1>9, <1>10, <1>11,
     <1>12, <1>13, <1>14, <1>15, <1>16, <1>17, <1>18, <1>19, <1>20, <1>21,
     <1>22, <1>23, <1>24, <1>25, <1>26, <1>27, <1>28, <1>29, <1>30, <1>31

\* Every tool is registered as its mode demands and has requests.
LEMMA CatalogOK ==
  \A name \in DOMAIN Catalog :
    ToolOK(name, Catalog[name]) /\ name \in DOMAIN Requests
<1> DEFINE Good(g) == \A n \in DOMAIN g : ToolOK(n, g[n]) /\ n \in DOMAIN Requests
<1>1. ASSUME NEW group, NEW feature,
             \A n \in DOMAIN group : ToolOK(n, group[n]),
             DOMAIN group \subseteq DOMAIN Requests
      PROVE  Good(Gated(group, feature))
  <2>1. DOMAIN Gated(group, feature) = DOMAIN group
    BY DEF Gated
  <2> QED
    BY <1>1, <2>1, GatedIs
<1>2. Good(SessionTools) /\ Good(ScreenTools) /\ Good(CaptureTools) /\ Good(ScriptTools)
      /\ Good(WaitTools) /\ Good(MapTools) /\ Good(SymbolTools) /\ Good(BridgeTools)
  BY GroupsOK, GroupsHaveRequests
<1>3. Good(Gated(DriveQueryTools, "drive"))
  BY <1>1, GroupsOK, GroupsHaveRequests
<1>4. Good(Gated(DriveTools, "drive"))
  BY <1>1, GroupsOK, GroupsHaveRequests
<1>5. Good(Gated(TypingTools, "input"))
  BY <1>1, GroupsOK, GroupsHaveRequests
<1>6. Good(Gated(MouseTools, "input"))
  BY <1>1, GroupsOK, GroupsHaveRequests
<1>7. Good(Gated(ReplayTools, "input"))
  BY <1>1, GroupsOK, GroupsHaveRequests
<1>8. Good(Gated(RecordTools, "input"))
  BY <1>1, GroupsOK, GroupsHaveRequests
<1>9. Good(Gated(MapAutoTools, "memory"))
  BY <1>1, GroupsOK, GroupsHaveRequests
<1>10. Good(Gated(MemoryTools, "memory"))
  BY <1>1, GroupsOK, GroupsHaveRequests
<1>11. Good(Gated(AllocationTools, "memory"))
  BY <1>1, GroupsOK, GroupsHaveRequests
<1>12. Good(Gated(SearchTools, "memory"))
  BY <1>1, GroupsOK, GroupsHaveRequests
<1>13. Good(Gated(DosTools, "memory"))
  BY <1>1, GroupsOK, GroupsHaveRequests
<1>14. Good(Gated(SnapshotTools, "memory"))
  BY <1>1, GroupsOK, GroupsHaveRequests
<1>15. Good(Gated(FreezeTools, "freeze"))
  BY <1>1, GroupsOK, GroupsHaveRequests
<1>16. Good(Gated(PortTools, "port_io"))
  BY <1>1, GroupsOK, GroupsHaveRequests
<1>17. Good(Gated(RegisterWriteTools, "cpu_control"))
  BY <1>1, GroupsOK, GroupsHaveRequests
<1>18. Good(Gated(RegisterReadTools, "cpu_registers"))
  BY <1>1, GroupsOK, GroupsHaveRequests
<1>19. Good(Gated(RunTools, "debugger"))
  BY <1>1, GroupsOK, GroupsHaveRequests
<1>20. Good(Gated(StopTools, "debugger"))
  BY <1>1, GroupsOK, GroupsHaveRequests
<1>21. Good(Gated(BreakpointTools, "debugger"))
  BY <1>1, GroupsOK, GroupsHaveRequests
<1>22. Good(Gated(WatchTools, "debugger"))
  BY <1>1, GroupsOK, GroupsHaveRequests
<1>23. Good(Gated(DisassembleTools, "disassemble"))
  BY <1>1, GroupsOK, GroupsHaveRequests
<1>24. Good(Gated(BacktraceTools, "backtrace"))
  BY <1>1, GroupsOK, GroupsHaveRequests
<1>25. Good(Gated(BatchTools, "batch"))
  BY <1>1, GroupsOK, GroupsHaveRequests
<1> HIDE DEF Good
<1>26. ASSUME NEW name \in DOMAIN Catalog
      PROVE  \E g : name \in DOMAIN g /\ Good(g) /\ Catalog[name] = g[name]
  BY <1>2, <1>3, <1>4, <1>5, <1>6, <1>7, <1>8, <1>9, <1>10, <1>11, <1>12,
     <1>13, <1>14, <1>15, <1>16, <1>17, <1>18, <1>19, <1>20, <1>21, <1>22,
     <1>23, <1>24, <1>25, TogetherIs DEF Catalog
<1> QED
  BY <1>26 DEF Good

\* What the requests of every tool do.
LEMMA AllRequestsOK ==
  \A name \in DOMAIN Requests : RequestsOK(name, Requests[name])
<1> DEFINE Good(g) == \A n \in DOMAIN g : RequestsOK(n, g[n])
<1>1. /\ Good(SessionRequests)
      /\ Good(ScreenRequests)
      /\ Good(CaptureRequests)
      /\ Good(DriveRequests)
      /\ Good(ScriptRequests)
      /\ Good(WaitRequests)
      /\ Good(InputRequests)
      /\ Good(MapAutoRequests)
      /\ Good(MemoryRequests)
      /\ Good(FreezeRequests)
      /\ Good(PortRequests)
      /\ Good(RegisterRequests)
      /\ Good(RunRequests)
      /\ Good(BreakpointRequests)
      /\ Good(WatchRequests)
      /\ Good(CodeRequests)
      /\ Good(BatchRequests)
      /\ Good(AllocationRequests)
      /\ Good(SnapshotRequests)
      /\ Good(SearchRequests)
      /\ Good(DosRequests)
      /\ Good(StopRequests)
      /\ Good(SwaggerRequests)
      /\ Good(LocalRequests)
  BY RequestGroupsOK
<1> HIDE DEF Good
<1>2. ASSUME NEW name \in DOMAIN Requests
      PROVE  \E g : name \in DOMAIN g /\ Good(g) /\ Requests[name] = g[name]
  BY <1>1, TogetherIs DEF Requests
<1> QED
  BY <1>2 DEF Good

-----------------------------------------------------------------------------
\* The handlers

OpSet   == [op : Ops, part : Parts \cup {None}, n : Nat, m : Nat]
Looking == {"query", "read", "wait", "connect", "disconnect"}
Scripting == {"load", "start", "stop"}

Manages(o) == o.op \in {"connect", "disconnect"}

\* The scenario's agents write memory only to increment it.
Incrementing(s) ==
  \A c \in s.offered : c.tool = "mem_write" => c.by = "increment"

\* What a call may ask of the engine.
AsksOK(s, by, o) ==
  /\ o.op = "change" => o.part \in Parts
  /\ o.op = "cas" => by = "increment" /\ o.m = o.n + 1
  /\ by = "increment" => o.op = "cas"
  /\ o.op = "write" => ~Incrementing(s)
  /\ o.op = "delete_all" => by \in {None, "invalid"}
  /\ s.mode = "observe" => o.op \in Looking
  /\ s.mode = "interact" =>
       \/ o.op \in Looking
       \/ o.op \in Scripting
       \/ o.op = "change" /\ o.part \in InteractParts

\* The requests of a call.
TodoOK(s, by, todo) ==
  /\ todo \in Seq(OpSet)
  /\ \A i \in 1..Len(todo) : /\ AsksOK(s, by, todo[i])
                             /\ Manages(todo[i]) => Len(todo) = 1

\* Observe mode registers nothing that changes the engine, interact mode
\* nothing outside what it is for.
LEMMA RegisteredOK ==
  /\ \A name \in Registered("observe") : name \notin Steering \cup Playing
  /\ \A name \in Registered("interact") : name \notin Steering
BY CatalogOK DEF Registered, ModeAllows, ToolOK

\* The requests of a handler that does not read its arguments.
LEMMA PlainOK ==
  ASSUME NEW tool \in DOMAIN Requests
  PROVE  /\ Plain(tool) \in Seq(OpSet)
         /\ \A i \in 1..Len(Plain(tool)) :
              LET o == Plain(tool)[i]
              IN  /\ o.op \in {"query", "change"}
                  /\ o.op = "change" =>
                       /\ o.part \in Parts
                       /\ \/ tool \in Steering
                          \/ tool \in Playing /\ o.part \in InteractParts
<1> DEFINE q == Requests[tool]
           op(r) == IF Changes(r) THEN Op("change", r.part, 0, 0)
                    ELSE Op("query", None, 0, 0)
           p == [i \in DOMAIN q |-> op(q[i])]
<1>1. RequestsOK(tool, q)
  BY AllRequestsOK
<1>2. Plain(tool) = p
  BY DEF Plain
<1>3. \A r : r.part \in Parts => op(r) \in OpSet
  BY DEF OpSet, Op, Ops
<1>4. \A r : /\ op(r).op \in {"query", "change"}
             /\ op(r).op = "change" => Changes(r) /\ op(r).part = r.part
  BY DEF Op
<1> HIDE DEF q, op
<1>5. PICK l \in Nat : DOMAIN q = 1..l
  BY <1>1 DEF RequestsOK
<1>6. \A i \in 1..l : q[i].part \in Parts
  BY <1>1, <1>5 DEF RequestsOK
<1>7. p \in [1..l -> OpSet]
  BY <1>3, <1>5, <1>6
<1>8. p \in Seq(OpSet) /\ Len(p) = l
  BY <1>5, <1>7
<1>9. \A i \in 1..l : p[i] = op(q[i])
  BY <1>5
<1>10. ASSUME NEW i \in 1..l
       PROVE  /\ p[i].op \in {"query", "change"}
              /\ p[i].op = "change" =>
                   /\ p[i].part \in Parts
                   /\ \/ tool \in Steering
                      \/ tool \in Playing /\ p[i].part \in InteractParts
  <2>1. /\ Changes(q[i]) => tool \in Steering \cup Playing
        /\ Changes(q[i]) /\ tool \in Playing => q[i].part \in InteractParts
    BY <1>1, <1>5 DEF RequestsOK
  <2> QED
    BY <2>1, <1>4, <1>6, <1>9
<1> HIDE DEF p
<1> QED
  BY <1>2, <1>8, <1>10

\* A handler of one request.
LEMMA OneTodoOK ==
  ASSUME NEW s, NEW by, NEW o \in OpSet, AsksOK(s, by, o)
  PROVE  TodoOK(s, by, <<o>>)
<1> DEFINE q == <<o>>
<1>1. q \in Seq(OpSet) /\ Len(q) = 1 /\ q[1] = o
  OBVIOUS
<1>2. \A i \in 1..Len(q) : i = 1
  BY <1>1
<1> HIDE DEF q
<1>3. TodoOK(s, by, q)
  BY <1>1, <1>2 DEF TodoOK
<1> QED
  BY <1>3 DEF q

\* What the mode and the arguments mean for the handler of a call.
LEMMA CallOK ==
  ASSUME NEW s \in Scenarios, NEW c \in s.offered, c.tool \in Registered(s.mode)
  PROVE  /\ c.tool \in DOMAIN Requests /\ c.n \in Nat
         /\ s.mode = "observe" => c.tool \notin Steering \cup Playing
         /\ s.mode = "interact" => c.tool \notin Steering
         /\ c.by = "increment" => c.tool = "mem_write"
<1>1. c \in Call
  BY ToolsAssumption
<1>2. /\ c.tool \in DOMAIN Catalog /\ c.n \in Nat
      /\ c.by \in Ways(c.tool)
  BY <1>1 DEF Call
<1>3. c.by = "increment" => c.tool = "mem_write"
  BY <1>2 DEF Ways, None
<1> QED
  BY <1>2, <1>3, RegisteredOK, CatalogOK

\* script_load, with and without the start.
LEMMA ScriptLoadOK ==
  ASSUME NEW c
  PROVE  LET h == ScriptLoad(c)
         IN  h \in Seq(OpSet) /\ \A i \in 1..Len(h) : h[i].op \in Scripting
<1> DEFINE l == Op("load", "script", 0, 0)
           t == Op("start", "script", 0, 0)
           h == ScriptLoad(c)
<1>1. /\ l \in OpSet /\ l.op \in Scripting
      /\ t \in OpSet /\ t.op \in Scripting
  BY DEF Op, OpSet, Ops, Parts, Scripting
<1> DEFINE p == <<l>>
           r == IF c.by = "only" THEN <<>> ELSE <<t>>
<1>2. p \in Seq(OpSet) /\ Len(p) = 1 /\ p[1] = l
  BY <1>1
<1>3. r \in Seq(OpSet) /\ \A i \in 1..Len(r) : r[i] = t
  <2>1. CASE r = <<>>
    <3>1. Len(r) = 0 /\ 1..0 = {} /\ r \in Seq(OpSet)
      BY <2>1
    <3> QED
      BY <3>1
  <2>2. CASE r = <<t>>
    <3>1. r \in Seq(OpSet) /\ Len(r) = 1 /\ r[1] = t
      BY <1>1, <2>2
    <3>2. \A i \in 1..Len(r) : i = 1
      BY <3>1
    <3> QED
      BY <3>1, <3>2
  <2> QED
    BY <2>1, <2>2
<1>4. h = p \o r
  BY DEF ScriptLoad
<1> HIDE DEF l, t, h, p, r
<1>5. /\ p \o r \in Seq(OpSet) /\ Len(p \o r) = Len(p) + Len(r)
      /\ \A i \in 1..(Len(p) + Len(r)) :
           (p \o r)[i] = IF i <= Len(p) THEN p[i] ELSE r[i - Len(p)]
  BY <1>2, <1>3, ConcatProperties
<1>6. ASSUME NEW i \in 1..Len(h)
      PROVE  h[i].op \in Scripting
  <2>1. Len(r) \in Nat /\ i \in 1..(1 + Len(r))
    BY <1>2, <1>3, <1>4, <1>5
  <2>2. h[i] = IF i <= 1 THEN p[i] ELSE r[i - 1]
    BY <1>2, <1>4, <1>5, <2>1
  <2>3. i = 1 \/ (~(i <= 1) /\ i - 1 \in 1..Len(r))
    BY <2>1
  <2> QED
    BY <1>1, <1>2, <1>3, <2>2, <2>3
<1> QED
  BY <1>4, <1>5, <1>6 DEF h

\* The handlers by tool.
LEMMA HandlerIs ==
  ASSUME NEW a, NEW c
  PROVE  /\ c.tool = "mem_read" => Handler(a, c) = MemRead
         /\ c.tool = "mem_write" => Handler(a, c) = MemWrite(a, c)
         /\ c.tool = "debug_breakpoint_add" =>
              Handler(a, c) = <<Op("add", "debug", 0, 0)>>
         /\ c.tool = "debug_breakpoint_delete" =>
              Handler(a, c) = BreakpointDelete(c)
         /\ c.tool = "script_load" => Handler(a, c) = ScriptLoad(c)
         /\ c.tool = "script_start" =>
              Handler(a, c) = <<Op("start", "script", 0, 0)>>
         /\ c.tool = "script_stop" =>
              Handler(a, c) = <<Op("stop", "script", 0, 0)>>
         /\ c.tool \in WaitingTools =>
              Handler(a, c) = <<Op("wait", None, c.n, 0)>>
         /\ c.tool \in AttachingTools =>
              Handler(a, c) = <<Op("connect", None, 0, 0)>>
         /\ c.tool \in DetachingTools =>
              Handler(a, c) = <<Op("disconnect", None, 0, 0)>>
         /\ \/ c.tool \in {"mem_read", "mem_write", "debug_breakpoint_add",
                            "debug_breakpoint_delete", "script_load",
                            "script_start", "script_stop"}
            \/ c.tool \in WaitingTools \cup AttachingTools \cup DetachingTools
            \/ Handler(a, c) = Plain(c.tool)
<1>1. WaitingTools = {"debug_wait", "wait_for"}
  BY DEF WaitingTools, StopRequests, WaitRequests
<1>2. /\ AttachingTools = {"bridge_connect", "bridge_start"}
      /\ DetachingTools = {"bridge_disconnect", "bridge_stop"}
  BY DEF AttachingTools, DetachingTools
<1> QED
  BY <1>1, <1>2 DEF Handler

\* A handler asks only what its mode and its arguments allow.
LEMMA HandlerOK ==
  ASSUME NEW a \in Agents, known[a] \in Nat,
         NEW s \in Scenarios, NEW c \in s.offered, c.tool \in Registered(s.mode)
  PROVE  TodoOK(s, c.by, Handler(a, c))
<1> DEFINE k == known[a]
<1>1. /\ c.tool \in DOMAIN Requests /\ c.n \in Nat
      /\ s.mode = "observe" => c.tool \notin Steering \cup Playing
      /\ s.mode = "interact" => c.tool \notin Steering
      /\ c.by = "increment" => c.tool = "mem_write"
  BY CallOK
<1>2. CASE c.tool = "mem_read"
  <2> DEFINE o == Op("read", "memory", 0, 0)
  <2>1. o \in OpSet /\ o.op = "read"
    BY DEF Op, OpSet, Ops, Parts
  <2>2. c.by # "increment"
    BY <1>1, <1>2
  <2>3. AsksOK(s, c.by, o)
    BY <2>1, <2>2 DEF AsksOK, Looking
  <2>4. Handler(a, c) = <<o>>
    BY <1>2, HandlerIs DEF MemRead
  <2> QED
    BY <2>1, <2>3, <2>4, OneTodoOK
<1>3. CASE c.tool = "mem_write"
  <2>1. s.mode # "observe" /\ s.mode # "interact"
    BY <1>1, <1>3 DEF Steering
  <2>2. CASE c.by = "increment"
    <3> DEFINE o == Op("cas", "memory", k, k + 1)
    <3>1. o \in OpSet /\ o.op = "cas" /\ o.m = o.n + 1
      BY DEF Op, OpSet, Ops, Parts
    <3>2. AsksOK(s, c.by, o)
      BY <2>1, <2>2, <3>1 DEF AsksOK
    <3>3. Handler(a, c) = <<o>>
      BY <1>3, <2>2, HandlerIs DEF MemWrite
    <3> QED
      BY <3>1, <3>2, <3>3, OneTodoOK
  <2>3. CASE c.by # "increment"
    <3> DEFINE o == Op("write", "memory", 0, c.n)
    <3>1. o \in OpSet /\ o.op = "write"
      BY <1>1 DEF Op, OpSet, Ops, Parts
    <3>2. ~Incrementing(s)
      BY <1>3, <2>3 DEF Incrementing
    <3>3. AsksOK(s, c.by, o)
      BY <2>1, <2>3, <3>1, <3>2 DEF AsksOK
    <3>4. Handler(a, c) = <<o>>
      BY <1>3, <2>3, HandlerIs DEF MemWrite
    <3> QED
      BY <3>1, <3>3, <3>4, OneTodoOK
  <2> QED
    BY <2>2, <2>3
<1>4. CASE c.tool = "debug_breakpoint_add"
  <2> DEFINE o == Op("add", "debug", 0, 0)
  <2>1. o \in OpSet /\ o.op = "add"
    BY DEF Op, OpSet, Ops, Parts
  <2>2. c.by # "increment" /\ s.mode # "observe" /\ s.mode # "interact"
    BY <1>1, <1>4 DEF Steering
  <2>3. AsksOK(s, c.by, o)
    BY <2>1, <2>2 DEF AsksOK
  <2>4. Handler(a, c) = <<o>>
    BY <1>4, HandlerIs
  <2> QED
    BY <2>1, <2>3, <2>4, OneTodoOK
<1>5. CASE c.tool = "debug_breakpoint_delete"
  <2> DEFINE o == IF c.by = "id" THEN Op("delete_id", "debug", c.n, 0)
                  ELSE IF c.by = "index" THEN Op("delete_index", "debug", c.n, 0)
                  ELSE Op("delete_all", "debug", 0, 0)
  <2>1. /\ o \in OpSet
        /\ o.op \in {"delete_id", "delete_index", "delete_all"}
        /\ o.op = "delete_all" => c.by \notin {"id", "index"}
    BY <1>1 DEF Op, OpSet, Ops, Parts
  <2>2. c.by # "increment" /\ s.mode # "observe" /\ s.mode # "interact"
    BY <1>1, <1>5 DEF Steering
  <2>3. c \in Call
    BY ToolsAssumption
  <2>4. c.by \in {None, "invalid", "id", "index"}
    BY <1>5, <2>3 DEF Call, Ways
  <2>5. AsksOK(s, c.by, o)
    BY <2>1, <2>2, <2>4 DEF AsksOK
  <2>6. Handler(a, c) = <<o>>
    BY <1>5, HandlerIs DEF BreakpointDelete
  <2> QED
    BY <2>1, <2>5, <2>6, OneTodoOK
<1>6. CASE c.tool = "script_load"
  <2> DEFINE h == ScriptLoad(c)
  <2>1. h \in Seq(OpSet) /\ \A i \in 1..Len(h) : h[i].op \in Scripting
    BY ScriptLoadOK
  <2>2. s.mode # "observe" /\ c.by # "increment"
    BY <1>1, <1>6 DEF Playing
  <2>3. Handler(a, c) = h
    BY <1>6, HandlerIs
  <2> HIDE DEF h
  <2>4. \A i \in 1..Len(h) : AsksOK(s, c.by, h[i]) /\ ~Manages(h[i])
    BY <2>1, <2>2 DEF AsksOK, Manages, Scripting
  <2> QED
    BY <2>1, <2>3, <2>4 DEF TodoOK
<1>7. CASE c.tool \in {"script_start", "script_stop"}
  <2> DEFINE o == IF c.tool = "script_start" THEN Op("start", "script", 0, 0)
                  ELSE Op("stop", "script", 0, 0)
  <2>1. o \in OpSet /\ o.op \in Scripting
    BY DEF Op, OpSet, Ops, Parts, Scripting
  <2>2. s.mode # "observe" /\ c.by # "increment"
    BY <1>1, <1>7 DEF Playing
  <2>3. AsksOK(s, c.by, o)
    BY <2>1, <2>2 DEF AsksOK, Scripting
  <2>4. Handler(a, c) = <<o>>
    BY <1>7, HandlerIs
  <2> QED
    BY <2>1, <2>3, <2>4, OneTodoOK
<1>8. CASE c.tool \in WaitingTools \cup AttachingTools \cup DetachingTools
  <2> DEFINE o == IF c.tool \in WaitingTools THEN Op("wait", None, c.n, 0)
                  ELSE IF c.tool \in AttachingTools
                       THEN Op("connect", None, 0, 0)
                       ELSE Op("disconnect", None, 0, 0)
  <2>1. o \in OpSet /\ o.op \in {"wait", "connect", "disconnect"}
    BY <1>1 DEF Op, OpSet, Ops
  <2>2. "mem_write" \notin WaitingTools \cup AttachingTools \cup DetachingTools
    BY DEF WaitingTools, StopRequests, WaitRequests, AttachingTools,
       DetachingTools
  <2>3. c.by # "increment"
    BY <1>1, <1>8, <2>2
  <2>4. Handler(a, c) = <<o>>
    BY <1>8, HandlerIs
  <2> HIDE DEF o
  <2>5. AsksOK(s, c.by, o)
    BY <2>1, <2>3 DEF AsksOK, Looking
  <2> QED
    BY <2>1, <2>4, <2>5, OneTodoOK
<1>9. CASE /\ c.tool \notin {"mem_read", "mem_write", "debug_breakpoint_add",
                             "debug_breakpoint_delete", "script_load",
                             "script_start", "script_stop"}
           /\ c.tool \notin WaitingTools \cup AttachingTools \cup DetachingTools
  <2> DEFINE h == Plain(c.tool)
  <2>1. Handler(a, c) = h
    BY <1>9, HandlerIs
  <2>2. /\ h \in Seq(OpSet)
        /\ \A i \in 1..Len(h) :
             /\ h[i].op \in {"query", "change"}
             /\ h[i].op = "change" => h[i].part \in Parts
             /\ h[i].op = "change" =>
                  c.tool \in Steering \/ (c.tool \in Playing /\ h[i].part \in InteractParts)
    BY <1>1, PlainOK
  <2>3. c.by # "increment"
    BY <1>1, <1>9
  <2> HIDE DEF h
  <2>4. \A i \in 1..Len(h) : AsksOK(s, c.by, h[i]) /\ ~Manages(h[i])
    BY <1>1, <2>2, <2>3 DEF AsksOK, Manages, Looking
  <2> QED
    BY <2>1, <2>2, <2>4 DEF TodoOK
<1> QED
  BY <1>2, <1>3, <1>4, <1>5, <1>6, <1>7, <1>8, <1>9

-----------------------------------------------------------------------------
\* The engine

Guests == [mem : Nat, points : Seq(Nat), next : Nat \ {0},
           script : {"none", "loaded", "running"}, touched : SUBSET Parts]

\* The ids of breakpoints are given in ascending order and never again.
PointsOK(points, next) ==
  /\ \A i \in 1..Len(points) : \A j \in 1..Len(points) :
       i < j => points[i] < points[j]
  /\ \A i \in 1..Len(points) : points[i] < next

\* The guest, as far as the scenario and the increments determine it.
GuestOK(s, g, acks, lost) ==
  /\ g \in Guests
  /\ PointsOK(g.points, g.next)
  /\ s.mode = "observe" => g = Fresh
  /\ g.script # "none" => "script" \in g.touched
  /\ s.mode = "interact" =>
       /\ g.points = <<>> /\ g.next = 1
       /\ g.touched \subseteq InteractParts
       /\ g.mem # 0 => "script" \in g.touched
  /\ Incrementing(s) /\ "script" \notin g.touched =>
       g.mem \in acks..(acks + lost)

\* The list without one of its entries.
LEMMA WithoutIs ==
  ASSUME NEW points \in Seq(Nat), NEW i \in 1..Len(points)
  PROVE  /\ Without(points, i) \in Seq(Nat)
         /\ Len(Without(points, i)) = Len(points) - 1
         /\ \A j \in 1..(Len(points) - 1) :
              Without(points, i)[j] = IF j < i THEN points[j] ELSE points[j + 1]
<1> DEFINE l == SubSeq(points, 1, i - 1)
           r == SubSeq(points, i + 1, Len(points))
<1>1. Len(points) \in Nat /\ i \in Int
  OBVIOUS
<1>2. /\ l \in Seq(Nat) /\ Len(l) = i - 1
      /\ \A j \in 1..(i - 1) : l[j] = points[j]
  <2>1. \A j \in 1..(i - 1) : points[j] \in Nat
    BY <1>1
  <2> QED
    BY <1>1, <2>1
<1>3. /\ r \in Seq(Nat) /\ Len(r) = Len(points) - i
      /\ \A j \in 1..(Len(points) - i) : r[j] = points[j + i]
  <2>1. \A j \in (i + 1)..Len(points) : points[j] \in Nat
    BY <1>1
  <2> QED
    BY <1>1, <2>1
<1>4. Without(points, i) = l \o r
  BY DEF Without
<1> HIDE DEF l, r
<1>5. /\ l \o r \in Seq(Nat) /\ Len(l \o r) = Len(l) + Len(r)
      /\ \A j \in 1..(Len(l) + Len(r)) :
           (l \o r)[j] = IF j <= Len(l) THEN l[j] ELSE r[j - Len(l)]
  BY <1>2, <1>3, ConcatProperties
<1>6. Len(l \o r) = Len(points) - 1
  BY <1>1, <1>2, <1>3, <1>5
<1>7. ASSUME NEW j \in 1..(Len(points) - 1)
      PROVE  (l \o r)[j] = IF j < i THEN points[j] ELSE points[j + 1]
  <2>1. (l \o r)[j] = IF j <= i - 1 THEN l[j] ELSE r[j - (i - 1)]
    <3>1. Len(l) = i - 1 /\ Len(l) + Len(r) = Len(points) - 1
      BY <1>1, <1>2, <1>3
    <3>2. j \in 1..(Len(l) + Len(r))
      BY <3>1
    <3>3. (l \o r)[j] = IF j <= Len(l) THEN l[j] ELSE r[j - Len(l)]
      BY <3>2, <1>5
    <3> QED
      BY ONLY <3>1, <3>3
  <2>2. CASE j < i
    BY <2>1, <2>2, <1>1, <1>2
  <2>3. CASE ~(j < i)
    <3>1. /\ j - (i - 1) \in 1..(Len(points) - i)
          /\ (j - (i - 1)) + i = j + 1 /\ ~(j <= i - 1)
      BY <2>3, <1>1
    <3>2. r[j - (i - 1)] = points[j + 1]
      BY <3>1, <1>3
    <3> QED
      BY <2>1, <2>3, <3>1, <3>2
  <2> QED
    BY <2>2, <2>3
<1> QED
  BY <1>4, <1>5, <1>6, <1>7

\* Deleting keeps the ids apart.
LEMMA WithoutKeepsOrder ==
  ASSUME NEW points \in Seq(Nat), NEW i \in 1..Len(points), NEW next \in Nat,
         PointsOK(points, next)
  PROVE  PointsOK(Without(points, i), next)
<1> DEFINE w == Without(points, i)
           at(j) == IF j < i THEN j ELSE j + 1
<1>1. Len(points) \in Nat /\ i \in Int
  OBVIOUS
<1>2. \A j \in 1..(Len(points) - 1) : /\ at(j) \in 1..Len(points)
                                      /\ w[j] = points[at(j)]
  <2>1. \A j \in 1..(Len(points) - 1) :
          w[j] = IF j < i THEN points[j] ELSE points[j + 1]
    BY WithoutIs
  <2> HIDE DEF w
  <2> QED
    BY <1>1, <2>1
<1>3. \A j \in 1..(Len(points) - 1) : \A k \in 1..(Len(points) - 1) :
        j < k => at(j) < at(k)
  BY <1>1
<1>4. Len(w) = Len(points) - 1
  BY WithoutIs
<1> HIDE DEF w, at
<1>5. PointsOK(w, next)
  BY <1>2, <1>3, <1>4 DEF PointsOK
<1> QED
  BY <1>5 DEF w

\* Where an id is.
LEMMA PlaceOfIs ==
  ASSUME NEW points \in Seq(Nat), NEW id
  PROVE  \/ PlaceOf(id, points) = 0 /\ \A i \in 1..Len(points) : points[i] # id
         \/ /\ PlaceOf(id, points) \in 1..Len(points)
            /\ points[PlaceOf(id, points)] = id
<1>1. DOMAIN points = 1..Len(points)
  OBVIOUS
<1> QED
  BY <1>1 DEF PlaceOf

\* What the engine does with a request, by its kind.
LEMMA ApplyIs ==
  ASSUME NEW o, NEW g
  PROVE  /\ o.op = "change" =>
              Apply(o, g) = [reply |-> "ok",
                guest |-> [g EXCEPT !.touched = g.touched \cup {o.part}]]
         /\ o.op = "write" =>
              Apply(o, g) = [reply |-> "ok", guest |-> [g EXCEPT !.mem = o.m]]
         /\ o.op = "cas" /\ g.mem = o.n =>
              Apply(o, g) = [reply |-> "ok", guest |-> [g EXCEPT !.mem = o.m]]
         /\ o.op = "cas" /\ g.mem # o.n =>
              Apply(o, g) = [reply |-> "conflict", guest |-> g]
         /\ o.op = "add" =>
              Apply(o, g) = [reply |-> "ok",
                guest |-> [g EXCEPT !.points = Append(g.points, g.next),
                                    !.next = g.next + 1]]
         /\ o.op \in {"delete_id", "delete_index"} =>
              LET i == IF o.op = "delete_id" THEN PlaceOf(o.n, g.points)
                       ELSE o.n + 1
              IN  Apply(o, g) =
                    IF i \in DOMAIN g.points
                    THEN [reply |-> "ok",
                          guest |-> [g EXCEPT !.points = Without(g.points, i)]]
                    ELSE [reply |-> "error", guest |-> g]
         /\ o.op = "delete_all" =>
              Apply(o, g) = [reply |-> "ok", guest |-> [g EXCEPT !.points = <<>>]]
         /\ o.op \in Looking => Apply(o, g) = [reply |-> "ok", guest |-> g]
<1>1. o.op = "change" =>
        Apply(o, g) = [reply |-> "ok",
                guest |-> [g EXCEPT !.touched = g.touched \cup {o.part}]]
  BY DEF Apply
<1>2. o.op = "write" =>
        Apply(o, g) = [reply |-> "ok", guest |-> [g EXCEPT !.mem = o.m]]
  BY DEF Apply
<1>3. o.op = "cas" /\ g.mem = o.n =>
        Apply(o, g) = [reply |-> "ok", guest |-> [g EXCEPT !.mem = o.m]]
  BY DEF Apply
<1>4. o.op = "cas" /\ g.mem # o.n =>
        Apply(o, g) = [reply |-> "conflict", guest |-> g]
  BY DEF Apply
<1>5. o.op = "add" =>
        Apply(o, g) = [reply |-> "ok",
                guest |-> [g EXCEPT !.points = Append(g.points, g.next),
                                    !.next = g.next + 1]]
  BY DEF Apply
<1>6. o.op = "delete_id" =>
        Apply(o, g) =
          IF PlaceOf(o.n, g.points) \in DOMAIN g.points
          THEN [reply |-> "ok",
                guest |-> [g EXCEPT !.points =
                             Without(g.points, PlaceOf(o.n, g.points))]]
          ELSE [reply |-> "error", guest |-> g]
  BY DEF Apply
<1>7. o.op = "delete_index" =>
        Apply(o, g) =
          IF o.n + 1 \in DOMAIN g.points
          THEN [reply |-> "ok",
                guest |-> [g EXCEPT !.points = Without(g.points, o.n + 1)]]
          ELSE [reply |-> "error", guest |-> g]
  BY DEF Apply
<1>8. o.op = "delete_all" =>
        Apply(o, g) = [reply |-> "ok", guest |-> [g EXCEPT !.points = <<>>]]
  BY DEF Apply
<1>9. o.op \in Looking => Apply(o, g) = [reply |-> "ok", guest |-> g]
  BY DEF Apply, Looking
<1> QED
  BY <1>1, <1>2, <1>3, <1>4, <1>5, <1>6, <1>7, <1>8, <1>9

\* What the engine does with a request about its script.
LEMMA ScriptingIs ==
  ASSUME NEW o, NEW g, o.op \in Scripting
  PROVE  \/ Apply(o, g) = [reply |-> "error", guest |-> g]
         \/ Apply(o, g) = [reply |-> "ok", guest |-> g]
         \/ \E state \in {"loaded", "running"} :
              Apply(o, g) = [reply |-> "ok", guest |-> Scripted(g, state)]
<1>1. CASE o.op = "load"
  BY <1>1 DEF Apply
<1>2. CASE o.op = "start"
  BY <1>2 DEF Apply
<1>3. CASE o.op = "stop"
  BY <1>3 DEF Apply
<1> QED
  BY <1>1, <1>2, <1>3 DEF Scripting

\* The fields of a guest.
LEMMA GuestIs ==
  ASSUME NEW g \in Guests
  PROVE  /\ g.mem \in Nat /\ g.points \in Seq(Nat) /\ g.next \in Nat \ {0}
         /\ g.script \in {"none", "loaded", "running"}
         /\ g.touched \subseteq Parts
BY DEF Guests

\* A guest with another memory cell.
LEMMA GuestWithMem ==
  ASSUME NEW g \in Guests, NEW v \in Nat
  PROVE  LET h == [g EXCEPT !.mem = v]
         IN  /\ h \in Guests /\ h.mem = v /\ h.points = g.points
             /\ h.next = g.next /\ h.script = g.script
             /\ h.touched = g.touched
BY DEF Guests

\* A guest with other breakpoints.
LEMMA GuestWithPoints ==
  ASSUME NEW g \in Guests, NEW v \in Seq(Nat)
  PROVE  LET h == [g EXCEPT !.points = v]
         IN  /\ h \in Guests /\ h.mem = g.mem /\ h.points = v
             /\ h.next = g.next /\ h.script = g.script
             /\ h.touched = g.touched
BY DEF Guests

\* A guest with more parts touched.
LEMMA GuestWithTouched ==
  ASSUME NEW g \in Guests, NEW v \in SUBSET Parts
  PROVE  LET h == [g EXCEPT !.touched = v]
         IN  /\ h \in Guests /\ h.mem = g.mem /\ h.points = g.points
             /\ h.next = g.next /\ h.script = g.script
             /\ h.touched = v
BY DEF Guests

\* A guest with another state of its script.
LEMMA GuestWithScript ==
  ASSUME NEW g \in Guests, NEW state \in {"none", "loaded", "running"}
  PROVE  LET h == Scripted(g, state)
         IN  /\ h \in Guests /\ h.mem = g.mem /\ h.points = g.points
             /\ h.next = g.next /\ h.script = state
             /\ h.touched = g.touched \cup {"script"}
<1> DEFINE t == g.touched \cup {"script"}
           h == [g EXCEPT !.script = state, !.touched = t]
<1>1. t \in SUBSET Parts
  BY GuestIs DEF Parts
<1> HIDE DEF t
<1>2. /\ h \in Guests /\ h.mem = g.mem /\ h.points = g.points
      /\ h.next = g.next /\ h.script = state /\ h.touched = t
  BY <1>1 DEF Guests
<1>3. Scripted(g, state) = h
  BY DEF Scripted, t
<1> QED
  BY <1>2, <1>3 DEF t

\* What a request may do to the guest.
AppliedOK(s, by, o, g, r) ==
  /\ r.reply \in {"ok", "error", "conflict"}
  /\ r.guest \in Guests /\ PointsOK(r.guest.points, r.guest.next)
  /\ g.touched \subseteq r.guest.touched
  /\ r.guest.script = g.script \/ "script" \in r.guest.touched
  /\ s.mode = "observe" => r.guest = g
  /\ s.mode = "interact" =>
       /\ r.guest.mem = g.mem /\ r.guest.points = g.points
       /\ r.guest.next = g.next
       /\ r.guest.touched \subseteq g.touched \cup InteractParts
  /\ \/ r.guest.mem = g.mem
     \/ ~Incrementing(s)
     \/ by = "increment" /\ r.reply = "ok"
  /\ by = "increment" /\ r.reply = "ok" => r.guest.mem = g.mem + 1
  /\ Len(r.guest.points) + 1 < Len(g.points) => o.op = "delete_all"

\* A request the call may make does to the guest what it may.
LEMMA ApplyOK ==
  ASSUME NEW s, NEW by, NEW o \in OpSet, AsksOK(s, by, o),
         NEW g \in Guests, PointsOK(g.points, g.next)
  PROVE  AppliedOK(s, by, o, g, Apply(o, g))
<1> DEFINE r == Apply(o, g)
<1>a. /\ g.mem \in Nat /\ g.points \in Seq(Nat) /\ g.next \in Nat \ {0}
      /\ g.touched \subseteq Parts
  BY GuestIs
<1>b. o.n \in Nat /\ o.m \in Nat /\ o.op \in Ops
  BY DEF OpSet
<1>c. Len(g.points) \in Nat /\ Len(g.points) + 1 >= Len(g.points)
  BY <1>a
<1>1. CASE o.op = "change"
  <2> DEFINE h == [g EXCEPT !.touched = g.touched \cup {o.part}]
  <2>1. r = [reply |-> "ok", guest |-> h]
    BY <1>1, ApplyIs
  <2>2. o.part \in Parts
    BY <1>1 DEF AsksOK
  <2>3. /\ h \in Guests /\ h.mem = g.mem /\ h.points = g.points
        /\ h.next = g.next /\ h.script = g.script
        /\ h.touched = g.touched \cup {o.part}
    BY ZenonT(60), <1>a, <2>2, GuestWithTouched
  <2>4. s.mode # "observe" /\ by # "increment"
    BY <1>1 DEF AsksOK, Looking, Scripting
  <2>5. s.mode = "interact" => o.part \in InteractParts
    BY <1>1 DEF AsksOK, Looking, Scripting
  <2> HIDE DEF h, r
  <2>6. r.reply = "ok" /\ r.guest = h
    BY <2>1
  <2>7. AppliedOK(s, by, o, g, r)
    BY <1>c, <2>3, <2>4, <2>5, <2>6 DEF AppliedOK
  <2> QED
    BY <2>7 DEF r
<1>2. CASE o.op = "write" \/ (o.op = "cas" /\ g.mem = o.n)
  <2> DEFINE h == [g EXCEPT !.mem = o.m]
  <2>1. r = [reply |-> "ok", guest |-> h]
    BY <1>2, ApplyIs
  <2>2. /\ h \in Guests /\ h.mem = o.m /\ h.points = g.points
        /\ h.next = g.next /\ h.script = g.script
        /\ h.touched = g.touched
    BY <1>b, GuestWithMem
  <2>3. s.mode # "observe" /\ s.mode # "interact"
    BY <1>2 DEF AsksOK, Looking, Scripting
  <2>4. /\ o.op = "write" => ~Incrementing(s) /\ by # "increment"
        /\ o.op = "cas" => by = "increment" /\ o.m = g.mem + 1
    BY <1>2 DEF AsksOK
  <2> HIDE DEF h, r
  <2>5. r.reply = "ok" /\ r.guest = h
    BY <2>1
  <2>6. AppliedOK(s, by, o, g, r)
    BY <1>2, <1>c, <2>2, <2>3, <2>4, <2>5 DEF AppliedOK
  <2> QED
    BY <2>6 DEF r
<1>3. CASE o.op = "cas" /\ g.mem # o.n
  <2>1. r = [reply |-> "conflict", guest |-> g]
    BY <1>3, ApplyIs
  <2> HIDE DEF r
  <2>2. r.reply = "conflict" /\ r.guest = g
    BY <2>1
  <2>3. AppliedOK(s, by, o, g, r)
    BY <1>c, <2>2 DEF AppliedOK
  <2> QED
    BY <2>3 DEF r
<1>4. CASE o.op = "add"
  <2> DEFINE p == Append(g.points, g.next)
             n == g.next + 1
             h == [g EXCEPT !.points = p, !.next = n]
  <2>1. r = [reply |-> "ok", guest |-> h]
    BY ZenonT(60), <1>4, ApplyIs
  <2>2. /\ p \in Seq(Nat) /\ Len(p) = Len(g.points) + 1
        /\ \A i \in 1..Len(g.points) : p[i] = g.points[i]
        /\ p[Len(g.points) + 1] = g.next
    BY <1>a
  <2>3. \A i \in 1..Len(p) : i \in 1..Len(g.points) \/ i = Len(g.points) + 1
    BY <1>c, <2>2
  <2>4. \A i \in 1..Len(g.points) : g.points[i] \in Nat
    BY <1>a
  <2>5. n \in Nat \ {0} /\ g.next < n
    BY <1>a
  <2> HIDE DEF p, n
  <2>6. /\ h \in Guests /\ h.mem = g.mem /\ h.points = p
        /\ h.next = n /\ h.script = g.script
        /\ h.touched = g.touched
    BY <2>2, <2>5 DEF Guests
  <2>7. PointsOK(p, n)
    <3>1. \A i \in 1..Len(g.points) : g.points[i] < g.next
      BY DEF PointsOK
    <3>2. ASSUME NEW i \in 1..Len(p)
          PROVE  p[i] < n
      <4>1. g.next \in Nat /\ n \in Nat
        BY <1>a, <2>5
      <4>2. CASE i \in 1..Len(g.points)
        <5>1. p[i] < g.next /\ p[i] \in Nat
          BY <2>2, <2>4, <3>1, <4>2
        <5> QED
          BY <2>5, <4>1, <5>1
      <4>3. CASE i = Len(g.points) + 1
        BY <2>2, <2>5, <4>3
      <4> QED
        BY <2>3, <4>2, <4>3
    <3>3. ASSUME NEW i \in 1..Len(p), NEW j \in 1..Len(p), i < j
          PROVE  p[i] < p[j]
      <4>1. i \in 1..Len(g.points)
        BY <1>c, <2>2, <2>3, <3>3
      <4>2. CASE j \in 1..Len(g.points)
        BY <2>2, <3>3, <4>1, <4>2 DEF PointsOK
      <4>3. CASE j = Len(g.points) + 1
        BY <2>2, <3>1, <4>1, <4>3
      <4> QED
        BY <2>3, <4>2, <4>3
    <3> QED
      BY <3>2, <3>3 DEF PointsOK
  <2>8. s.mode # "observe" /\ s.mode # "interact" /\ by # "increment"
    BY <1>4 DEF AsksOK, Looking, Scripting
  <2> HIDE DEF h, r
  <2>9. r.reply = "ok" /\ r.guest = h
    BY <2>1
  <2>10. AppliedOK(s, by, o, g, r)
    BY <1>c, <2>2, <2>6, <2>7, <2>8, <2>9 DEF AppliedOK
  <2> QED
    BY <2>10 DEF r
<1>5. CASE o.op \in {"delete_id", "delete_index"}
  <2> DEFINE i == IF o.op = "delete_id" THEN PlaceOf(o.n, g.points)
                  ELSE o.n + 1
             p == Without(g.points, i)
             h == [g EXCEPT !.points = p]
  <2>1. r = IF i \in DOMAIN g.points THEN [reply |-> "ok", guest |-> h]
            ELSE [reply |-> "error", guest |-> g]
    BY <1>5, ApplyIs
  <2>2. s.mode # "observe" /\ s.mode # "interact" /\ by # "increment"
    BY <1>5 DEF AsksOK, Looking, Scripting
  <2> HIDE DEF i
  <2>3. CASE i \in DOMAIN g.points
    <3>1. i \in 1..Len(g.points)
      BY <1>a, <2>3
    <3>2. /\ p \in Seq(Nat) /\ Len(p) = Len(g.points) - 1
          /\ PointsOK(p, g.next)
      BY <1>a, <3>1, WithoutIs, WithoutKeepsOrder
    <3> HIDE DEF p
    <3>3. /\ h \in Guests /\ h.mem = g.mem /\ h.points = p
          /\ h.next = g.next /\ h.script = g.script
          /\ h.touched = g.touched
      BY <3>2, GuestWithPoints
    <3> HIDE DEF h, r
    <3>4. r.reply = "ok" /\ r.guest = h
      BY <2>1, <2>3
    <3>5. AppliedOK(s, by, o, g, r)
      BY <1>c, <2>2, <3>2, <3>3, <3>4 DEF AppliedOK
    <3> QED
      BY <3>5 DEF r
  <2>4. CASE i \notin DOMAIN g.points
    <3> HIDE DEF p, h, r
    <3>1. r.reply = "error" /\ r.guest = g
      BY <2>1, <2>4
    <3>2. AppliedOK(s, by, o, g, r)
      BY <1>c, <2>2, <3>1 DEF AppliedOK
    <3> QED
      BY <3>2 DEF r
  <2> QED
    BY <2>3, <2>4
<1>6. CASE o.op = "delete_all"
  <2> DEFINE h == [g EXCEPT !.points = <<>>]
  <2>1. r = [reply |-> "ok", guest |-> h]
    BY <1>6, ApplyIs
  <2>2. <<>> \in Seq(Nat)
    OBVIOUS
  <2>3. PointsOK(<<>>, g.next)
    BY DEF PointsOK
  <2>4. /\ h \in Guests /\ h.mem = g.mem /\ h.points = <<>>
        /\ h.next = g.next /\ h.script = g.script
        /\ h.touched = g.touched
    BY <2>2, GuestWithPoints
  <2>5. s.mode # "observe" /\ s.mode # "interact" /\ by # "increment"
    BY <1>6 DEF AsksOK, Looking, Scripting
  <2> HIDE DEF h, r
  <2>6. r.reply = "ok" /\ r.guest = h
    BY <2>1
  <2>7. AppliedOK(s, by, o, g, r)
    BY <1>6, <2>3, <2>4, <2>5, <2>6 DEF AppliedOK
  <2> QED
    BY <2>7 DEF r
<1>7. CASE o.op \in Looking
  <2>1. r = [reply |-> "ok", guest |-> g]
    BY <1>7, ApplyIs
  <2>2. by # "increment"
    BY <1>7 DEF AsksOK, Looking, Scripting
  <2> HIDE DEF r
  <2>3. r.reply = "ok" /\ r.guest = g
    BY <2>1
  <2>4. AppliedOK(s, by, o, g, r)
    BY <1>c, <2>2, <2>3 DEF AppliedOK
  <2> QED
    BY <2>4 DEF r
<1>8. CASE o.op \in Scripting
  <2>1. s.mode # "observe" /\ by # "increment"
    BY <1>8 DEF AsksOK, Scripting, Looking
  <2>2. CASE r.reply \in {"ok", "error"} /\ r.guest = g
    <3> HIDE DEF r
    <3>1. AppliedOK(s, by, o, g, r)
      BY <1>c, <2>1, <2>2 DEF AppliedOK
    <3> QED
      BY <3>1 DEF r
  <2>3. ASSUME NEW state \in {"loaded", "running"},
               r = [reply |-> "ok", guest |-> Scripted(g, state)]
        PROVE  AppliedOK(s, by, o, g, r)
    <3> DEFINE h == Scripted(g, state)
    <3>1. /\ h \in Guests /\ h.mem = g.mem /\ h.points = g.points
          /\ h.next = g.next /\ h.touched = g.touched \cup {"script"}
      BY GuestWithScript
    <3>2. "script" \in InteractParts
      BY DEF InteractParts
    <3>3. r.reply = "ok" /\ r.guest = h
      BY <2>3
    <3> HIDE DEF h, r
    <3>4. AppliedOK(s, by, o, g, r)
      BY <1>c, <2>1, <3>1, <3>2, <3>3 DEF AppliedOK
    <3> QED
      BY <3>4 DEF r
  <2>4. \/ r.reply \in {"ok", "error"} /\ r.guest = g
        \/ \E state \in {"loaded", "running"} :
             r = [reply |-> "ok", guest |-> Scripted(g, state)]
    <3>1. \/ r = [reply |-> "error", guest |-> g]
          \/ r = [reply |-> "ok", guest |-> g]
          \/ \E state \in {"loaded", "running"} :
               r = [reply |-> "ok", guest |-> Scripted(g, state)]
      BY <1>8, ScriptingIs
    <3> QED
      BY <3>1
  <2> QED
    BY <2>2, <2>3, <2>4
<1> QED
  BY <1>b, <1>1, <1>2, <1>3, <1>4, <1>5, <1>6, <1>7, <1>8
     DEF Ops, Looking, Scripting

-----------------------------------------------------------------------------
\* The inductive invariant

Places   == {"idle", "queued", "send", "sent", "ret"}
Outcomes == {"none", "ok", "conflict", "error", "invalid", "unknown",
             "feature_off", "not_connected", "restarted"}

Types ==
  /\ scenario \in Scenarios
  /\ inc \in Nat \ {0} /\ hung \in BOOLEAN
  /\ attached \in 0..inc
  /\ queue \in Seq(Agents)
  /\ pc \in [Agents -> Places]
  /\ DOMAIN work = Agents
  /\ sentAs \in [Agents -> Nat] /\ age \in [Agents -> Nat]
  /\ out \in [Agents -> Outcomes]
  /\ known \in [Agents -> Nat] /\ spent \in 0..scenario.calls
  /\ got \in [Agents -> SUBSET Nat]
  /\ disturbed \in [Agents -> BOOLEAN] /\ warned \in [Agents -> BOOLEAN]
  /\ acked \in Nat /\ unsure \in Nat

\* A call without a thread is in the queue.
QueueOK ==
  \A a \in Agents :
    pc[a] = "queued" => \E i \in 1..Len(queue) : queue[i] = a

\* When the engine must answer a request at the latest.
Deadline(o) == IF o.op = "wait" THEN o.n ELSE 0

WorkOK(s, w) ==
  /\ DOMAIN w = DOMAIN NoWork
  /\ TodoOK(s, w.by, w.todo)
  /\ w.valid = (w.by # "invalid")

\* Where a call is against what is left of it.
PlaceOK(p, w, o, g) ==
  /\ p \in {"idle", "queued"} => g = {}
  /\ p # "ret" => o = "none"
  /\ p \in {"send", "sent"} => w.todo # <<>> /\ w.valid
  /\ p = "send" /\ Manages(Head(w.todo)) => g = {}

\* A request on the wire is not older than the engine lets it become.
WireOK(i, h, p, w, at, t) ==
  p = "sent" =>
    /\ ~Manages(Head(w.todo)) /\ at \in 1..i
    /\ ~h /\ at = i => t <= Deadline(Head(w.todo))

\* A call that nobody disturbed talks to the process that is attached.
MixOK(att, p, o, at, g, wn) ==
  p # "idle" /\ (p = "ret" => o = "ok") /\ ~wn =>
    /\ g \subseteq {att} \ {0}
    /\ p = "sent" => at = att /\ at # 0

AgentOK(s, i, h, att, p, w, at, t, o, g, d, wn) ==
  /\ WorkOK(s, w)
  /\ PlaceOK(p, w, o, g)
  /\ WireOK(i, h, p, w, at, t)
  /\ MixOK(att, p, o, at, g, wn)
  /\ o = "not_connected" => d

CallIsOK(a) ==
  AgentOK(scenario, inc, hung, attached, pc[a], work[a], sentAs[a], age[a],
          out[a], got[a], disturbed[a], warned[a])

IInv ==
  /\ Types
  /\ GuestOK(scenario, guest, acked, unsure)
  /\ QueueOK
  /\ \A a \in Agents : CallIsOK(a)

\* What the steps of others do to a call: the attach is renewed when there is
\* none, or the call is warned.
LEMMA OtherOK ==
  ASSUME NEW s, NEW i, NEW h, NEW att, NEW p, NEW w, NEW at, NEW t, NEW o,
         NEW g, NEW d, NEW wn \in BOOLEAN, NEW att2, NEW wn2 \in BOOLEAN,
         AgentOK(s, i, h, att, p, w, at, t, o, g, d, wn),
         \/ wn2 = wn /\ (att2 = att \/ att = 0)
         \/ wn2 = (wn \/ p # "idle")
  PROVE  AgentOK(s, i, h, att2, p, w, at, t, o, g, d, wn2)
<1>1. MixOK(att, p, o, at, g, wn)
  BY DEF AgentOK
<1>2. MixOK(att2, p, o, at, g, wn2)
  <2>1. CASE wn2 = wn /\ att2 = att
    BY <1>1, <2>1
  <2>2. CASE wn2 = wn /\ att = 0
    BY <1>1, <2>2 DEF MixOK
  <2>3. CASE wn2 = (wn \/ p # "idle")
    BY <2>3 DEF MixOK
  <2> QED
    BY <2>1, <2>2, <2>3
<1> QED
  BY <1>2 DEF AgentOK

\* A call that ends.
LEMMA EndedOK ==
  ASSUME NEW s, NEW i, NEW h, NEW att, NEW w, NEW at, NEW t, NEW o, NEW g,
         NEW d, NEW wn,
         WorkOK(s, w), o = "not_connected" => d,
         o = "ok" /\ ~wn => g \subseteq {att} \ {0}
  PROVE  AgentOK(s, i, h, att, "ret", w, at, t, o, g, d, wn)
BY DEF AgentOK, PlaceOK, WireOK, MixOK

\* A call that has another request to make.
LEMMA ReadyOK ==
  ASSUME NEW s, NEW i, NEW h, NEW att, NEW w, NEW at, NEW t, NEW o, NEW g,
         NEW d, NEW wn,
         WorkOK(s, w), w.todo # <<>>, w.valid, o = "none",
         Manages(Head(w.todo)) => g = {},
         ~wn => g \subseteq {att} \ {0}
  PROVE  AgentOK(s, i, h, att, "send", w, at, t, o, g, d, wn)
BY DEF AgentOK, PlaceOK, WireOK, MixOK

\* What is left of a handler after its first request.
LEMMA RestOK ==
  ASSUME NEW s, NEW w, WorkOK(s, w), w.todo # <<>>
  PROVE  LET v == [w EXCEPT !.todo = Tail(w.todo)]
         IN  /\ WorkOK(s, v) /\ v.todo = Tail(w.todo) /\ v.valid = w.valid
             /\ Head(w.todo) \in OpSet /\ AsksOK(s, w.by, Head(w.todo))
             /\ Len(w.todo) # 1 => v.todo # <<>> /\ ~Manages(Head(v.todo))
<1> DEFINE q == w.todo
           r == Tail(q)
           v == [w EXCEPT !.todo = r]
<1>1. /\ DOMAIN w = {"guarded", "feature", "valid", "by", "todo"}
      /\ TodoOK(s, w.by, q) /\ w.valid = (w.by # "invalid")
  BY DEF WorkOK, NoWork
<1>2. v.todo = r /\ v.valid = w.valid /\ v.by = w.by /\ DOMAIN v = DOMAIN w
  BY <1>1
<1> HIDE DEF v, q
<1>3. q \in Seq(OpSet) /\ q # <<>>
  BY <1>1 DEF TodoOK, q
<1>4. /\ r \in Seq(OpSet) /\ Len(r) = Len(q) - 1
      /\ \A i \in 1..(Len(q) - 1) : r[i] = q[i + 1]
      /\ Head(q) = q[1] /\ Len(q) \in Nat \ {0} /\ q[1] \in OpSet
  BY <1>3, HeadTailProperties, LenProperties, EmptySeq
<1> HIDE DEF r
<1>5. \A i \in 1..Len(r) : AsksOK(s, w.by, r[i]) /\ ~Manages(r[i])
  BY <1>1, <1>4 DEF TodoOK
<1>6. WorkOK(s, v)
  BY <1>1, <1>2, <1>4, <1>5 DEF WorkOK, TodoOK, NoWork
<1>7. AsksOK(s, w.by, Head(q))
  BY <1>1, <1>4 DEF TodoOK
<1>8. ASSUME Len(q) # 1
      PROVE  r # <<>> /\ ~Manages(Head(r))
  <2>1. Len(r) # 0 /\ 1 \in 1..Len(r)
    BY <1>4, <1>8
  <2>2. r # <<>> /\ Head(r) = r[1]
    BY <1>4, <2>1
  <2> QED
    BY <1>5, <2>1, <2>2
<1> QED
  BY <1>2, <1>4, <1>6, <1>7, <1>8 DEF v, r, q

-----------------------------------------------------------------------------
\* Every action keeps the invariant

\* A call that is offered.
LEMMA InvokeOK ==
  ASSUME IInv, NEW a \in Agents, NEW c \in scenario.offered, Invoke(a, c)
  PROVE  IInv'
<1>a. /\ Types /\ QueueOK /\ GuestOK(scenario, guest, acked, unsure)
      /\ \A b \in Agents : CallIsOK(b)
  BY DEF IInv
<1>b. scenario' = scenario /\ inc' = inc /\ hung' = hung
  BY DEF Invoke, engineVars
<1>1. Types'
  <2>1. spent' \in 0..scenario.calls
    BY SMTT(30), <1>a, ToolsAssumption DEF Invoke, Types
  <2>2. pc' \in [Agents -> Places] /\ out' \in [Agents -> Outcomes]
    BY <1>a DEF Invoke, Goto, Finish, Types, Places, Outcomes
  <2>3. queue' \in Seq(Agents)
    <3>1. Append(queue, a) \in Seq(Agents) /\ queue \in Seq(Agents)
      BY <1>a DEF Types
    <3>2. queue' \in {Append(queue, a), queue}
      BY DEF Invoke
    <3> QED
      BY <3>1, <3>2
  <2>4. DOMAIN work' = Agents
    BY <1>a DEF Invoke, Types
  <2> QED
    BY <1>a, <2>1, <2>2, <2>3, <2>4
       DEF Invoke, engineVars, historyVars, Types
<1>2. GuestOK(scenario, guest, acked, unsure)'
  BY <1>a DEF Invoke, engineVars, historyVars
<1>3. QueueOK'
  <2>1. CASE queue' = Append(queue, a)
    <3>1. /\ Len(queue) \in Nat /\ Len(queue') = Len(queue) + 1
          /\ queue'[Len(queue) + 1] = a
          /\ \A i \in 1..Len(queue) : queue'[i] = queue[i]
      BY <1>a, <2>1 DEF Types
    <3>2. \A b \in Agents : b # a => pc'[b] = pc[b]
      BY <1>a DEF Invoke, Goto, Finish, Types
    <3> QED
      BY <1>a, <3>1, <3>2 DEF QueueOK
  <2>2. CASE queue' = queue /\ pc' = [pc EXCEPT ![a] = "ret"]
    BY <1>a, <2>2 DEF QueueOK, Types
  <2> QED
    BY <2>1, <2>2 DEF Invoke, Finish, Goto
<1>4. CallIsOK(a)'
  <2>1. CallIsOK(a) /\ pc[a] = "idle"
    BY <1>a DEF Invoke
  <2>2. got[a] = {} /\ out[a] = "none" /\ WorkOK(scenario, work[a])
    BY <2>1 DEF CallIsOK, AgentOK, PlaceOK
  <2>3. CASE c.tool \in Registered(scenario.mode)
    <3> DEFINE w == [guarded |-> Catalog[c.tool].guarded,
                     feature |-> Catalog[c.tool].feature,
                     valid   |-> ArgumentsValid(c),
                     by      |-> c.by,
                     todo    |-> Handler(a, c)]
    <3>1. TodoOK(scenario, c.by, Handler(a, c))
      BY <1>a, <2>3, HandlerOK DEF Types
    <3>2. /\ w.by = c.by /\ w.todo = Handler(a, c)
          /\ w.valid = ArgumentsValid(c)
          /\ DOMAIN w = {"guarded", "feature", "valid", "by", "todo"}
      OBVIOUS
    <3> HIDE DEF w
    <3>3. WorkOK(scenario, w)
      BY <3>1, <3>2 DEF WorkOK, NoWork, ArgumentsValid
    <3>4. pc'[a] = "queued" /\ work'[a] = w /\ out'[a] = "none"
      BY <1>a, <2>2, <2>3 DEF Invoke, Goto, Finish, engineVars, historyVars,
         Types, w
    <3>5. got'[a] = {} /\ disturbed' = disturbed
      BY <2>2 DEF Invoke, historyVars
    <3> QED
      BY <1>b, <3>3, <3>4, <3>5
         DEF CallIsOK, AgentOK, PlaceOK, WireOK, MixOK
  <2>4. CASE c.tool \notin Registered(scenario.mode)
    <3>1. pc'[a] = "ret" /\ work' = work /\ out'[a] = "unknown"
      BY <1>a, <2>4 DEF Invoke, Goto, Finish, engineVars, historyVars, Types
    <3> QED
      BY <1>b, <2>2, <3>1, EndedOK DEF CallIsOK
  <2> QED
    BY <2>3, <2>4
<1>5. ASSUME NEW b \in Agents, b # a
      PROVE  CallIsOK(b)'
  <2>1. /\ pc'[b] = pc[b] /\ work'[b] = work[b] /\ sentAs'[b] = sentAs[b]
        /\ age'[b] = age[b] /\ out'[b] = out[b] /\ got'[b] = got[b]
        /\ disturbed'[b] = disturbed[b]
        /\ warned[b] \in BOOLEAN /\ warned'[b] \in BOOLEAN
        /\ \/ warned'[b] = warned[b] /\ (attached' = attached \/ attached = 0)
           \/ warned'[b] = (warned[b] \/ pc[b] # "idle")
    BY <1>5, <1>a DEF Invoke, Goto, Finish, engineVars, historyVars, Types
  <2> QED
    BY <2>1, <1>a, <1>b, OtherOK DEF CallIsOK
<1> QED
  BY <1>1, <1>2, <1>3, <1>4, <1>5 DEF IInv

\* A worker thread takes the call.
LEMMA BeginOK ==
  ASSUME IInv, NEW a \in Agents, Begin(a)
  PROVE  IInv'
<1>a. /\ Types /\ QueueOK /\ GuestOK(scenario, guest, acked, unsure)
      /\ \A b \in Agents : CallIsOK(b)
  BY DEF IInv
<1>b. scenario' = scenario /\ inc' = inc /\ hung' = hung
  BY DEF Begin, engineVars
<1>c. /\ pc[a] = "queued" /\ Head(queue) = a /\ queue' = Tail(queue)
      /\ work' = work /\ got' = got
  BY DEF Begin
<1>d. queue # <<>>
  <2>1. \E i \in 1..Len(queue) : queue[i] = a
    BY <1>a, <1>c DEF QueueOK
  <2>2. Len(<<>>) = 0 /\ 1..0 = {}
    OBVIOUS
  <2> QED
    BY <2>1, <2>2
<1>e. /\ queue' \in Seq(Agents) /\ Len(queue') = Len(queue) - 1
      /\ \A i \in 1..Len(queue') : queue'[i] = queue[i + 1]
      /\ Len(queue) \in Nat /\ queue[1] = a
  BY <1>a, <1>c, <1>d, HeadTailProperties, LenProperties DEF Types
<1>f. attached' \in 0..inc
  BY <1>a DEF Begin, Ensured, Types
<1>1. Types'
  <2>1. pc' \in [Agents -> Places] /\ out' \in [Agents -> Outcomes]
    BY ZenonT(60), <1>a DEF Begin, Checked, Interrupt, Goto, Finish, Types,
       Places, Outcomes
  <2>2. warned' \in [Agents -> BOOLEAN] /\ disturbed' \in [Agents -> BOOLEAN]
    BY ZenonT(60), <1>a DEF Begin, Interrupt, WarnOthers, Types
  <2> QED
    BY <1>a, <1>e, <1>f, <2>1, <2>2 DEF Begin, engineVars, Types
<1>2. GuestOK(scenario, guest, acked, unsure)'
  BY <1>a DEF Begin, engineVars
<1>3. QueueOK'
  <2>1. \A b \in Agents : pc'[b] = "queued" => pc[b] = "queued" /\ b # a
    BY <1>a DEF Begin, Checked, Interrupt, Goto, Finish, Types
  <2>2. ASSUME NEW b \in Agents, b # a, NEW i \in 1..Len(queue), queue[i] = b
        PROVE  i - 1 \in 1..Len(queue') /\ queue'[i - 1] = b
    <3>1. i # 1
      BY <1>e, <2>2
    <3>2. i - 1 \in 1..Len(queue') /\ (i - 1) + 1 = i
      BY <1>e, <3>1
    <3> QED
      BY <1>e, <2>2, <3>2
  <2> QED
    BY <1>a, <2>1, <2>2 DEF QueueOK
<1>4. CallIsOK(a)'
  <2>1. /\ got[a] = {} /\ out[a] = "none" /\ WorkOK(scenario, work[a])
    BY <1>a, <1>c DEF CallIsOK, AgentOK, PlaceOK
  <2>2. CASE work[a].guarded /\ attached' = 0
    <3>1. pc'[a] = "ret" /\ out'[a] = "not_connected" /\ disturbed'[a] = TRUE
      BY <1>a, <2>2 DEF Begin, Checked, Interrupt, WarnOthers, Goto, Finish,
         Ensured, engineVars, Types
    <3> QED
      BY <1>b, <1>c, <2>1, <3>1, EndedOK DEF CallIsOK
  <2>3. CASE ~(work[a].guarded /\ attached' = 0)
    <3>1. \/ pc'[a] = "ret" /\ out'[a] \in {"feature_off", "invalid", "ok"}
          \/ /\ pc'[a] = "send" /\ out'[a] = "none"
             /\ work[a].valid /\ work[a].todo # <<>>
      BY <1>a, <2>1, <2>3 DEF Begin, Checked, Goto, Finish, Types
    <3>2. CASE pc'[a] = "ret" /\ out'[a] \in {"feature_off", "invalid", "ok"}
      BY <1>b, <1>c, <2>1, <3>2, EndedOK DEF CallIsOK
    <3>3. CASE /\ pc'[a] = "send" /\ out'[a] = "none"
               /\ work[a].valid /\ work[a].todo # <<>>
      BY <1>b, <1>c, <2>1, <3>3, ReadyOK DEF CallIsOK
    <3> QED
      BY <3>1, <3>2, <3>3
  <2> QED
    BY <2>2, <2>3
<1>5. ASSUME NEW b \in Agents, b # a
      PROVE  CallIsOK(b)'
  <2>1. /\ pc'[b] = pc[b] /\ work'[b] = work[b] /\ sentAs'[b] = sentAs[b]
        /\ age'[b] = age[b] /\ out'[b] = out[b] /\ got'[b] = got[b]
        /\ disturbed'[b] = disturbed[b]
        /\ warned[b] \in BOOLEAN /\ warned'[b] \in BOOLEAN
        /\ \/ warned'[b] = warned[b] /\ (attached' = attached \/ attached = 0)
           \/ warned'[b] = (warned[b] \/ pc[b] # "idle")
    BY SMTT(30), <1>5, <1>a DEF Begin, Checked, Interrupt, WarnOthers, Goto,
       Finish, Ensured, engineVars, Types
  <2> QED
    BY <2>1, <1>a, <1>b, OtherOK DEF CallIsOK
<1> QED
  BY <1>1, <1>2, <1>3, <1>4, <1>5 DEF IInv

\* The tools that attach anew or detach.
LEMMA ManageOK ==
  ASSUME IInv, NEW a \in Agents, Manage(a)
  PROVE  IInv'
<1>a. /\ Types /\ QueueOK /\ GuestOK(scenario, guest, acked, unsure)
      /\ \A b \in Agents : CallIsOK(b)
  BY DEF IInv
<1>b. scenario' = scenario /\ inc' = inc /\ hung' = hung
  BY DEF Manage, engineVars
<1>1. Types'
  <2>1. pc' \in [Agents -> Places] /\ out' \in [Agents -> Outcomes]
    BY <1>a DEF Manage, Interrupt, WarnOthers, Goto, Finish, Types, Places,
       Outcomes
  <2>2. warned' \in [Agents -> BOOLEAN] /\ disturbed' \in [Agents -> BOOLEAN]
    BY <1>a DEF Manage, Interrupt, WarnOthers, Goto, Finish, Types
  <2>3. attached' \in 0..inc
    BY <1>a DEF Manage, Interrupt, WarnOthers, Goto, Finish, Types
  <2> QED
    BY <1>a, <2>1, <2>2, <2>3 DEF Manage, engineVars, historyVars, Types
<1>2. GuestOK(scenario, guest, acked, unsure)'
  BY <1>a DEF Manage, engineVars, historyVars
<1>3. QueueOK'
  <2>1. queue' = queue /\ \A b \in Agents : pc'[b] = "queued" => pc[b] = "queued"
    BY <1>a DEF Manage, Interrupt, WarnOthers, Goto, Finish, Types
  <2> QED
    BY <1>a, <2>1 DEF QueueOK
<1>4. CallIsOK(a)'
  <2>1. pc[a] = "send" /\ Manages(Head(work[a].todo))
    BY DEF Manage, Manages
  <2>2. got[a] = {} /\ WorkOK(scenario, work[a])
    BY <1>a, <2>1 DEF CallIsOK, AgentOK, PlaceOK
  <2>3. /\ pc'[a] = "ret" /\ work' = work /\ got' = got
        /\ out'[a] = "not_connected" => hung
        /\ disturbed'[a] = hung
    BY <1>a DEF Manage, Interrupt, Goto, Finish, Types
  <2> QED
    BY <1>b, <2>2, <2>3, EndedOK DEF CallIsOK
<1>5. ASSUME NEW b \in Agents, b # a
      PROVE  CallIsOK(b)'
  <2>1. /\ pc'[b] = pc[b] /\ work'[b] = work[b] /\ sentAs'[b] = sentAs[b]
        /\ age'[b] = age[b] /\ out'[b] = out[b] /\ got'[b] = got[b]
        /\ disturbed'[b] = disturbed[b]
        /\ warned[b] \in BOOLEAN /\ warned'[b] \in BOOLEAN
        /\ \/ warned'[b] = warned[b] /\ (attached' = attached \/ attached = 0)
           \/ warned'[b] = (warned[b] \/ pc[b] # "idle")
    BY <1>5, <1>a DEF Manage, Interrupt, WarnOthers, Goto, Finish, Types
  <2> QED
    BY <2>1, <1>a, <1>b, OtherOK DEF CallIsOK
<1> QED
  BY <1>1, <1>2, <1>3, <1>4, <1>5 DEF IInv

\* The next request goes out.
LEMMA SendOK ==
  ASSUME IInv, NEW a \in Agents, Send(a)
  PROVE  IInv'
<1>a. /\ Types /\ QueueOK /\ GuestOK(scenario, guest, acked, unsure)
      /\ \A b \in Agents : CallIsOK(b)
  BY DEF IInv
<1>b. scenario' = scenario /\ inc' = inc /\ hung' = hung
  BY DEF Send, engineVars
<1>1. Types'
  <2>1. pc' \in [Agents -> Places] /\ out' \in [Agents -> Outcomes]
    BY <1>a DEF Send, Interrupt, WarnOthers, Goto, Finish, Ensured, Types,
       Places, Outcomes
  <2>2. warned' \in [Agents -> BOOLEAN] /\ disturbed' \in [Agents -> BOOLEAN]
    BY <1>a DEF Send, Interrupt, WarnOthers, Goto, Finish, Ensured, Types
  <2>3. attached' \in 0..inc
    BY <1>a DEF Send, Interrupt, WarnOthers, Goto, Finish, Ensured, Types
  <2>4. sentAs' \in [Agents -> Nat] /\ age' \in [Agents -> Nat]
    <3>1. attached' \in Nat /\ 0 \in Nat
      BY <1>a, <2>3 DEF Types
    <3>2. /\ sentAs' \in {sentAs, [sentAs EXCEPT ![a] = attached']}
          /\ age' = [age EXCEPT ![a] = 0]
      BY DEF Send
    <3> QED
      BY <1>a, <3>1, <3>2 DEF Types
  <2> QED
    BY <1>a, <2>1, <2>2, <2>3, <2>4 DEF Send, engineVars, historyVars, Types
<1>2. GuestOK(scenario, guest, acked, unsure)'
  BY <1>a DEF Send, engineVars, historyVars
<1>3. QueueOK'
  <2>1. queue' = queue /\ \A b \in Agents : pc'[b] = "queued" => pc[b] = "queued"
    BY <1>a DEF Send, Interrupt, WarnOthers, Goto, Finish, Ensured, Types
  <2> QED
    BY <1>a, <2>1 DEF QueueOK
<1>4. CallIsOK(a)'
  <2>1. /\ pc[a] = "send" /\ ~Manages(Head(work[a].todo))
        /\ work' = work /\ got' = got
    BY DEF Send, Manages
  <2>2. /\ WorkOK(scenario, work[a])
        /\ work[a].todo # <<>> /\ work[a].valid
        /\ out[a] = "none"
        /\ ~warned[a] => got[a] \subseteq {attached} \ {0}
    BY <1>a, <2>1 DEF CallIsOK, AgentOK, PlaceOK, MixOK
  <2>3. CASE attached' = 0
    <3>1. pc'[a] = "ret" /\ out'[a] = "not_connected" /\ disturbed'[a] = TRUE
      BY <1>a, <2>3 DEF Send, Interrupt, Goto, Finish, Types
    <3> QED
      BY <1>b, <2>1, <2>2, <3>1, EndedOK DEF CallIsOK
  <2>4. CASE attached' # 0
    <3>1. /\ pc'[a] = "sent" /\ out' = out /\ warned' = warned
          /\ sentAs'[a] = attached' /\ age'[a] = 0
      BY <1>a, <2>4 DEF Send, Goto, Types
    <3>2. attached' \in 1..inc
      BY <1>1, <1>b, <2>4 DEF Types
    <3>3. Head(work[a].todo) \in OpSet
      BY <2>2, RestOK
    <3>4. Deadline(Head(work[a].todo)) \in Nat
      BY <3>3 DEF Deadline, OpSet
    <3>5. ~warned'[a] => got'[a] \subseteq {attached'} \ {0}
      <4>1. attached' = attached \/ attached = 0
        BY DEF Send, Ensured
      <4> QED
        BY <2>1, <2>2, <3>1, <4>1
    <3>6. WireOK(inc, hung, "sent", work[a], attached', 0)
      BY <2>1, <3>2, <3>4 DEF WireOK
    <3>7. PlaceOK("sent", work[a], "none", got[a])
      BY <2>2 DEF PlaceOK
    <3>8. MixOK(attached', "sent", "none", attached', got[a], warned'[a])
      BY <2>1, <2>4, <3>5 DEF MixOK
    <3> QED
      BY <1>b, <2>1, <2>2, <3>1, <3>6, <3>7, <3>8 DEF CallIsOK, AgentOK
  <2> QED
    BY <2>3, <2>4
<1>5. ASSUME NEW b \in Agents, b # a
      PROVE  CallIsOK(b)'
  <2>1. /\ pc'[b] = pc[b] /\ work'[b] = work[b] /\ sentAs'[b] = sentAs[b]
        /\ age'[b] = age[b] /\ out'[b] = out[b] /\ got'[b] = got[b]
        /\ disturbed'[b] = disturbed[b]
        /\ warned[b] \in BOOLEAN /\ warned'[b] \in BOOLEAN
        /\ \/ warned'[b] = warned[b] /\ (attached' = attached \/ attached = 0)
           \/ warned'[b] = (warned[b] \/ pc[b] # "idle")
    BY <1>5, <1>a DEF Send, Interrupt, WarnOthers, Goto, Finish, Ensured, Types
  <2> QED
    BY <2>1, <1>a, <1>b, OtherOK DEF CallIsOK
<1> QED
  BY <1>1, <1>2, <1>3, <1>4, <1>5 DEF IInv

\* The request meets another process than the one attached to.
LEMMA UnauthorizedOK ==
  ASSUME IInv, NEW a \in Agents, Unauthorized(a)
  PROVE  IInv'
<1>a. /\ Types /\ QueueOK /\ GuestOK(scenario, guest, acked, unsure)
      /\ \A b \in Agents : CallIsOK(b)
  BY DEF IInv
<1>b. scenario' = scenario /\ inc' = inc /\ hung' = hung
  BY DEF Unauthorized, engineVars
<1>1. Types'
  <2>1. pc' \in [Agents -> Places] /\ out' \in [Agents -> Outcomes]
    BY <1>a DEF Unauthorized, Interrupt, WarnOthers, Goto, Finish, Types,
       Places, Outcomes
  <2>2. warned' \in [Agents -> BOOLEAN] /\ disturbed' \in [Agents -> BOOLEAN]
    BY <1>a DEF Unauthorized, Interrupt, WarnOthers, Goto, Finish, Types
  <2>3. attached' \in 0..inc
    BY <1>a DEF Unauthorized, Interrupt, WarnOthers, Goto, Finish, Types
  <2> QED
    BY <1>a, <2>1, <2>2, <2>3 DEF Unauthorized, engineVars, historyVars, Types
<1>2. GuestOK(scenario, guest, acked, unsure)'
  BY <1>a DEF Unauthorized, engineVars, historyVars
<1>3. QueueOK'
  <2>1. queue' = queue /\ \A b \in Agents : pc'[b] = "queued" => pc[b] = "queued"
    BY <1>a DEF Unauthorized, Interrupt, WarnOthers, Goto, Finish, Types
  <2> QED
    BY <1>a, <2>1 DEF QueueOK
<1>4. CallIsOK(a)'
  <2>1. WorkOK(scenario, work[a])
    BY <1>a DEF CallIsOK, AgentOK
  <2>2. pc'[a] = "ret" /\ work' = work /\ got' = got /\ out'[a] = "restarted"
    BY <1>a DEF Unauthorized, Interrupt, WarnOthers, Goto, Finish, Types
  <2> QED
    BY <1>b, <2>1, <2>2, EndedOK DEF CallIsOK
<1>5. ASSUME NEW b \in Agents, b # a
      PROVE  CallIsOK(b)'
  <2>1. /\ pc'[b] = pc[b] /\ work'[b] = work[b] /\ sentAs'[b] = sentAs[b]
        /\ age'[b] = age[b] /\ out'[b] = out[b] /\ got'[b] = got[b]
        /\ disturbed'[b] = disturbed[b]
        /\ warned[b] \in BOOLEAN /\ warned'[b] \in BOOLEAN
        /\ \/ warned'[b] = warned[b] /\ (attached' = attached \/ attached = 0)
           \/ warned'[b] = (warned[b] \/ pc[b] # "idle")
    BY <1>5, <1>a DEF Unauthorized, Interrupt, WarnOthers, Goto, Finish, Types
  <2> QED
    BY <2>1, <1>a, <1>b, OtherOK DEF CallIsOK
<1> QED
  BY <1>1, <1>2, <1>3, <1>4, <1>5 DEF IInv

\* The request is lost.
LEMMA LoseRequestOK ==
  ASSUME IInv, NEW a \in Agents, LoseRequest(a)
  PROVE  IInv'
<1>a. /\ Types /\ QueueOK /\ GuestOK(scenario, guest, acked, unsure)
      /\ \A b \in Agents : CallIsOK(b)
  BY DEF IInv
<1>b. scenario' = scenario /\ inc' = inc /\ hung' = hung
  BY DEF LoseRequest, engineVars
<1>1. Types'
  <2>1. pc' \in [Agents -> Places] /\ out' \in [Agents -> Outcomes]
    BY <1>a DEF LoseRequest, TransportError, Interrupt, WarnOthers, Goto,
       Finish, Types, Places, Outcomes
  <2>2. warned' \in [Agents -> BOOLEAN] /\ disturbed' \in [Agents -> BOOLEAN]
    BY <1>a DEF LoseRequest, TransportError, Interrupt, WarnOthers, Goto,
       Finish, Types
  <2>3. attached' \in 0..inc
    BY <1>a DEF LoseRequest, TransportError, Interrupt, WarnOthers, Goto,
       Finish, Types
  <2> QED
    BY <1>a, <2>1, <2>2, <2>3 DEF LoseRequest, TransportError, engineVars,
       historyVars, Types
<1>2. GuestOK(scenario, guest, acked, unsure)'
  BY <1>a DEF LoseRequest, engineVars, historyVars
<1>3. QueueOK'
  <2>1. queue' = queue /\ \A b \in Agents : pc'[b] = "queued" => pc[b] = "queued"
    BY <1>a DEF LoseRequest, TransportError, Interrupt, WarnOthers, Goto,
       Finish, Types
  <2> QED
    BY <1>a, <2>1 DEF QueueOK
<1>4. CallIsOK(a)'
  <2>1. WorkOK(scenario, work[a])
    BY <1>a DEF CallIsOK, AgentOK
  <2>2. /\ pc'[a] = "ret" /\ work' = work /\ got' = got
        /\ out'[a] = "not_connected" /\ disturbed'[a] = TRUE
    BY <1>a DEF LoseRequest, TransportError, Interrupt, WarnOthers, Goto,
       Finish, Types
  <2> QED
    BY <1>b, <2>1, <2>2, EndedOK DEF CallIsOK
<1>5. ASSUME NEW b \in Agents, b # a
      PROVE  CallIsOK(b)'
  <2>1. /\ pc'[b] = pc[b] /\ work'[b] = work[b] /\ sentAs'[b] = sentAs[b]
        /\ age'[b] = age[b] /\ out'[b] = out[b] /\ got'[b] = got[b]
        /\ disturbed'[b] = disturbed[b]
        /\ warned[b] \in BOOLEAN /\ warned'[b] \in BOOLEAN
        /\ \/ warned'[b] = warned[b] /\ (attached' = attached \/ attached = 0)
           \/ warned'[b] = (warned[b] \/ pc[b] # "idle")
    BY <1>5, <1>a DEF LoseRequest, TransportError, Interrupt, WarnOthers,
       Goto, Finish, Types
  <2> QED
    BY <2>1, <1>a, <1>b, OtherOK DEF CallIsOK
<1> QED
  BY <1>1, <1>2, <1>3, <1>4, <1>5 DEF IInv

\* The client gives up waiting.
LEMMA TimeOutOK ==
  ASSUME IInv, NEW a \in Agents, TimeOut(a)
  PROVE  IInv'
<1>a. /\ Types /\ QueueOK /\ GuestOK(scenario, guest, acked, unsure)
      /\ \A b \in Agents : CallIsOK(b)
  BY DEF IInv
<1>b. scenario' = scenario /\ inc' = inc /\ hung' = hung
  BY DEF TimeOut, engineVars
<1>1. Types'
  <2>1. pc' \in [Agents -> Places] /\ out' \in [Agents -> Outcomes]
    BY <1>a DEF TimeOut, TransportError, Interrupt, WarnOthers, Goto, Finish,
       Types, Places, Outcomes
  <2>2. warned' \in [Agents -> BOOLEAN] /\ disturbed' \in [Agents -> BOOLEAN]
    BY <1>a DEF TimeOut, TransportError, Interrupt, WarnOthers, Goto, Finish,
       Types
  <2>3. attached' \in 0..inc
    BY <1>a DEF TimeOut, TransportError, Interrupt, WarnOthers, Goto, Finish,
       Types
  <2> QED
    BY <1>a, <2>1, <2>2, <2>3 DEF TimeOut, TransportError, engineVars,
       historyVars, Types
<1>2. GuestOK(scenario, guest, acked, unsure)'
  BY <1>a DEF TimeOut, engineVars, historyVars
<1>3. QueueOK'
  <2>1. queue' = queue /\ \A b \in Agents : pc'[b] = "queued" => pc[b] = "queued"
    BY <1>a DEF TimeOut, TransportError, Interrupt, WarnOthers, Goto, Finish,
       Types
  <2> QED
    BY <1>a, <2>1 DEF QueueOK
<1>4. CallIsOK(a)'
  <2>1. WorkOK(scenario, work[a])
    BY <1>a DEF CallIsOK, AgentOK
  <2>3. /\ pc'[a] = "ret" /\ work' = work /\ got' = got
        /\ out'[a] = "not_connected"
        /\ disturbed'[a] = (disturbed[a] \/ hung \/ sentAs[a] # inc)
    BY <1>a DEF TimeOut, TransportError, Interrupt, WarnOthers, Goto, Finish,
       Types
  <2>4. hung \/ sentAs[a] # inc
    <3>1. /\ pc[a] = "sent" /\ WireOK(inc, hung, pc[a], work[a], sentAs[a], age[a])
          /\ age[a] \in Nat /\ age[a] >= Limit(Head(work[a].todo))
      BY <1>a DEF TimeOut, CallIsOK, AgentOK, Types
    <3>2. Head(work[a].todo) \in OpSet
      BY <1>a, <2>1, <3>1, RestOK DEF CallIsOK, AgentOK, PlaceOK
    <3>3. /\ Deadline(Head(work[a].todo)) < Limit(Head(work[a].todo))
          /\ Deadline(Head(work[a].todo)) \in Nat
          /\ Limit(Head(work[a].todo)) \in Nat
      BY <3>2, ToolsAssumption DEF Deadline, Limit, OpSet
    <3> QED
      BY <3>1, <3>3 DEF WireOK
  <2>2. disturbed'[a] = TRUE
    BY <2>3, <2>4
  <2> QED
    BY <1>b, <2>1, <2>2, <2>3, EndedOK DEF CallIsOK
<1>5. ASSUME NEW b \in Agents, b # a
      PROVE  CallIsOK(b)'
  <2>1. /\ pc'[b] = pc[b] /\ work'[b] = work[b] /\ sentAs'[b] = sentAs[b]
        /\ age'[b] = age[b] /\ out'[b] = out[b] /\ got'[b] = got[b]
        /\ disturbed'[b] = disturbed[b]
        /\ warned[b] \in BOOLEAN /\ warned'[b] \in BOOLEAN
        /\ \/ warned'[b] = warned[b] /\ (attached' = attached \/ attached = 0)
           \/ warned'[b] = (warned[b] \/ pc[b] # "idle")
    BY <1>5, <1>a DEF TimeOut, TransportError, Interrupt, WarnOthers, Goto,
       Finish, Types
  <2> QED
    BY <2>1, <1>a, <1>b, OtherOK DEF CallIsOK
<1> QED
  BY <1>1, <1>2, <1>3, <1>4, <1>5 DEF IInv

\* A served request, acknowledged or not, leaves the guest as it may be.
LEMMA GuestStaysOK ==
  ASSUME NEW s, NEW by, NEW o, NEW g, NEW r, NEW acks \in Nat, NEW lost \in Nat,
         GuestOK(s, g, acks, lost), AppliedOK(s, by, o, g, r)
  PROVE  /\ GuestOK(s, r.guest,
                    IF by = "increment" /\ r.reply = "ok" THEN acks + 1 ELSE acks,
                    lost)
         /\ GuestOK(s, r.guest, acks,
                    IF r.guest.mem # g.mem THEN lost + 1 ELSE lost)
<1>1. g.mem \in Nat /\ r.guest \in Guests /\ PointsOK(r.guest.points, r.guest.next)
  BY GuestIs DEF GuestOK, AppliedOK
<1>2. s.mode = "observe" => r.guest = Fresh
  BY DEF GuestOK, AppliedOK
<1>3. s.mode = "interact" =>
        /\ r.guest.points = <<>> /\ r.guest.next = 1
        /\ r.guest.touched \subseteq InteractParts
        /\ r.guest.mem # 0 => "script" \in r.guest.touched
  BY DEF GuestOK, AppliedOK
<1>4. Incrementing(s) /\ "script" \notin r.guest.touched =>
        r.guest.mem \in
          (IF by = "increment" /\ r.reply = "ok" THEN acks + 1 ELSE acks)
            ..((IF by = "increment" /\ r.reply = "ok" THEN acks + 1 ELSE acks) + lost)
  BY <1>1 DEF GuestOK, AppliedOK
<1>5. Incrementing(s) /\ "script" \notin r.guest.touched =>
        r.guest.mem \in
          acks..(acks + (IF r.guest.mem # g.mem THEN lost + 1 ELSE lost))
  BY <1>1 DEF GuestOK, AppliedOK
<1>6. r.guest.script # "none" => "script" \in r.guest.touched
  BY DEF GuestOK, AppliedOK
<1> QED
  BY <1>1, <1>2, <1>3, <1>4, <1>5, <1>6 DEF GuestOK

\* What a request on the wire may do.
LEMMA WireApplies ==
  ASSUME IInv, NEW a \in Agents, pc[a] = "sent"
  PROVE  LET op == Head(work[a].todo)
         IN  /\ op \in OpSet /\ ~Manages(op)
             /\ work[a].todo # <<>> /\ work[a].by # "invalid"
             /\ AsksOK(scenario, work[a].by, op)
             /\ AppliedOK(scenario, work[a].by, op, guest, Apply(op, guest))
<1>1. CallIsOK(a) /\ GuestOK(scenario, guest, acked, unsure)
  BY DEF IInv
<1>2. /\ WorkOK(scenario, work[a]) /\ work[a].todo # <<>> /\ work[a].valid
      /\ ~Manages(Head(work[a].todo))
  BY <1>1 DEF CallIsOK, AgentOK, PlaceOK, WireOK
<1>3. work[a].by # "invalid"
  BY <1>2 DEF WorkOK
<1>4. /\ Head(work[a].todo) \in OpSet
      /\ AsksOK(scenario, work[a].by, Head(work[a].todo))
  BY <1>2, RestOK
<1>5. guest \in Guests /\ PointsOK(guest.points, guest.next)
  BY <1>1 DEF GuestOK
<1> QED
  BY <1>2, <1>3, <1>4, <1>5, ApplyOK

\* The engine answers.
LEMMA ServeOK ==
  ASSUME IInv, NEW a \in Agents, Serve(a)
  PROVE  IInv'
<1>a. /\ Types /\ QueueOK /\ GuestOK(scenario, guest, acked, unsure)
      /\ \A b \in Agents : CallIsOK(b)
  BY DEF IInv
<1>b. scenario' = scenario /\ inc' = inc /\ hung' = hung
  BY DEF Serve, engineVars
<1> DEFINE op == Head(work[a].todo)
           r  == Apply(op, guest)
<1>c. /\ pc[a] = "sent" /\ ~hung /\ sentAs[a] = inc
      /\ guest' = r.guest /\ Answered(a, op, r.reply, r.guest.mem)
      /\ got' = [got EXCEPT ![a] = @ \cup {inc}]
      /\ unsure' = unsure /\ disturbed' = disturbed /\ warned' = warned
      /\ attached' = attached /\ queue' = queue /\ sentAs' = sentAs
      /\ age' = age /\ spent' = spent
  BY DEF Serve
<1>d. /\ op \in OpSet /\ ~Manages(op) /\ work[a].todo # <<>>
      /\ AppliedOK(scenario, work[a].by, op, guest, r)
  BY <1>c, WireApplies
<1> HIDE DEF op, r
<1>e. /\ r.reply \in {"ok", "error", "conflict"} /\ r.guest.mem \in Nat
  BY <1>d, GuestIs DEF AppliedOK
<1>f. acked' = IF work[a].by = "increment" /\ r.reply = "ok" THEN acked + 1 ELSE acked
  BY <1>c DEF Answered
<1>g. work' = [work EXCEPT ![a].todo = Tail(@)]
  BY <1>c DEF Answered
<1>h. \/ pc' = [pc EXCEPT ![a] = "ret"] /\ out' = [out EXCEPT ![a] = r.reply] /\ r.reply # "ok"
      \/ pc' = [pc EXCEPT ![a] = "ret"] /\ out' = [out EXCEPT ![a] = "ok"]
      \/ /\ pc' = [pc EXCEPT ![a] = "send"] /\ out' = out
         /\ Len(work[a].todo) # 1
  BY <1>c DEF Answered, Finish, Goto
<1>1. Types'
  <2>1. pc' \in [Agents -> Places] /\ out' \in [Agents -> Outcomes]
    <3>1. pc \in [Agents -> Places] /\ out \in [Agents -> Outcomes]
      BY <1>a DEF Types
    <3>2. "ret" \in Places /\ "send" \in Places /\ "ok" \in Outcomes /\ r.reply \in Outcomes
      BY <1>e DEF Places, Outcomes
    <3>3. pc' \in {[pc EXCEPT ![a] = "ret"], [pc EXCEPT ![a] = "send"]}
      BY <1>h
    <3>4. out' \in {out, [out EXCEPT ![a] = r.reply], [out EXCEPT ![a] = "ok"]}
      BY <1>h
    <3>5. pc' \in [Agents -> Places]
      BY <3>1, <3>2, <3>3
    <3>6. out' \in [Agents -> Outcomes]
      BY <3>1, <3>2, <3>4
    <3> QED
      BY <3>5, <3>6
  <2>2. known' \in [Agents -> Nat]
    <3>1. known' \in {known, [known EXCEPT ![a] = r.guest.mem]}
      BY <1>c DEF Answered
    <3> QED
      BY <1>a, <1>e, <3>1 DEF Types
  <2>3. acked' \in Nat
    BY <1>a, <1>f DEF Types
  <2>4. DOMAIN work' = Agents
    BY <1>a, <1>g DEF Types
  <2>5. got' \in [Agents -> SUBSET Nat]
    BY <1>a, <1>c DEF Types
  <2> QED
    BY <1>a, <1>b, <1>c, <2>1, <2>2, <2>3, <2>4, <2>5 DEF Types
<1>2. GuestOK(scenario, guest, acked, unsure)'
  <2>1. acked \in Nat /\ unsure \in Nat
    BY <1>a DEF Types
  <2> QED
    BY <1>a, <1>b, <1>c, <1>d, <1>f, <2>1, GuestStaysOK
<1>3. QueueOK'
  <2>1. queue' = queue /\ \A b \in Agents : pc'[b] = "queued" => pc[b] = "queued"
    BY <1>a, <1>c, <1>h DEF Types
  <2> QED
    BY <1>a, <2>1 DEF QueueOK
<1>4. CallIsOK(a)'
  <2>1. /\ WorkOK(scenario, work[a]) /\ work[a].valid
        /\ MixOK(attached, pc[a], out[a], sentAs[a], got[a], warned[a])
        /\ out[a] = "none"
    BY <1>a, <1>c DEF CallIsOK, AgentOK, PlaceOK
  <2>2. ~warned[a] => got[a] \cup {inc} \subseteq {attached} \ {0}
    BY <1>c, <2>1 DEF MixOK
  <2>3. got'[a] = got[a] \cup {inc} /\ a \in DOMAIN work
    BY <1>a, <1>c DEF Types
  <2> DEFINE v == [work[a] EXCEPT !.todo = Tail(work[a].todo)]
  <2>4. work'[a] = v
    BY <1>g, <2>3
  <2>5. /\ WorkOK(scenario, v) /\ v.valid = work[a].valid
        /\ Len(work[a].todo) # 1 => v.todo # <<>> /\ ~Manages(Head(v.todo))
    BY <1>d, <2>1, RestOK
  <2> HIDE DEF v
  <2>6. CASE pc'[a] = "ret" /\ out'[a] \in {"ok", "error", "conflict"}
    BY <1>b, <1>c, <2>2, <2>3, <2>4, <2>5, <2>6, EndedOK DEF CallIsOK
  <2>7. CASE pc'[a] = "send" /\ out'[a] = "none" /\ Len(work[a].todo) # 1
    <3>1. v.todo # <<>> /\ v.valid /\ ~Manages(Head(v.todo))
      BY <2>1, <2>5, <2>7
    <3>2. ~warned'[a] => got'[a] \subseteq {attached'} \ {0}
      BY <1>c, <2>2, <2>3
    <3>3. AgentOK(scenario, inc, hung, attached', "send", v, sentAs'[a], age'[a],
                  "none", got'[a], disturbed'[a], warned'[a])
      BY <2>5, <3>1, <3>2, ReadyOK
    <3> QED
      BY <1>b, <2>4, <2>7, <3>3 DEF CallIsOK
  <2>8. \/ pc'[a] = "ret" /\ out'[a] \in {"ok", "error", "conflict"}
        \/ pc'[a] = "send" /\ out'[a] = "none" /\ Len(work[a].todo) # 1
    BY <1>a, <1>e, <1>h, <2>1 DEF Types
  <2> QED
    BY <2>6, <2>7, <2>8
<1>5. ASSUME NEW b \in Agents, b # a
      PROVE  CallIsOK(b)'
  <2>1. /\ pc'[b] = pc[b] /\ work'[b] = work[b] /\ sentAs'[b] = sentAs[b]
        /\ age'[b] = age[b] /\ out'[b] = out[b] /\ got'[b] = got[b]
        /\ disturbed'[b] = disturbed[b]
        /\ warned[b] \in BOOLEAN /\ warned'[b] \in BOOLEAN
        /\ \/ warned'[b] = warned[b] /\ (attached' = attached \/ attached = 0)
           \/ warned'[b] = (warned[b] \/ pc[b] # "idle")
    BY <1>5, <1>a, <1>c, <1>g, <1>h DEF Types
  <2> QED
    BY <2>1, <1>a, <1>b, OtherOK DEF CallIsOK
<1> QED
  BY <1>1, <1>2, <1>3, <1>4, <1>5 DEF IInv

\* The engine serves a request and its answer is lost.
LEMMA LoseAnswerOK ==
  ASSUME IInv, NEW a \in Agents, LoseAnswer(a)
  PROVE  IInv'
<1>a. /\ Types /\ QueueOK /\ GuestOK(scenario, guest, acked, unsure)
      /\ \A b \in Agents : CallIsOK(b)
  BY DEF IInv
<1>b. scenario' = scenario /\ inc' = inc /\ hung' = hung
  BY DEF LoseAnswer, engineVars
<1> DEFINE op == Head(work[a].todo)
           r  == Apply(op, guest)
<1>c. /\ pc[a] = "sent" /\ guest' = r.guest
      /\ unsure' = IF guest'.mem # guest.mem THEN unsure + 1 ELSE unsure
      /\ acked' = acked /\ work' = work
  BY DEF LoseAnswer
<1>d. AppliedOK(scenario, work[a].by, op, guest, r)
  BY <1>c, WireApplies
<1> HIDE DEF op, r
<1>1. Types'
  <2>1. pc' \in [Agents -> Places] /\ out' \in [Agents -> Outcomes]
    BY <1>a DEF LoseAnswer, TransportError, Interrupt, WarnOthers, Goto,
       Finish, Types, Places, Outcomes
  <2>2. warned' \in [Agents -> BOOLEAN] /\ disturbed' \in [Agents -> BOOLEAN]
    BY <1>a DEF LoseAnswer, TransportError, Interrupt, WarnOthers, Goto,
       Finish, Types
  <2>3. attached' \in 0..inc
    BY <1>a DEF LoseAnswer, TransportError, Interrupt, WarnOthers, Goto,
       Finish, Types
  <2>4. unsure' \in Nat /\ got' \in [Agents -> SUBSET Nat]
    BY <1>a, <1>c DEF LoseAnswer, Types
  <2> QED
    BY <1>a, <1>b, <2>1, <2>2, <2>3, <2>4
       DEF LoseAnswer, TransportError, Types
<1>2. GuestOK(scenario, guest, acked, unsure)'
  <2>1. acked \in Nat /\ unsure \in Nat
    BY <1>a DEF Types
  <2> QED
    BY <1>a, <1>b, <1>c, <1>d, <2>1, GuestStaysOK
<1>3. QueueOK'
  <2>1. queue' = queue /\ \A b \in Agents : pc'[b] = "queued" => pc[b] = "queued"
    BY <1>a DEF LoseAnswer, TransportError, Interrupt, WarnOthers, Goto,
       Finish, Types
  <2> QED
    BY <1>a, <2>1 DEF QueueOK
<1>4. CallIsOK(a)'
  <2>1. WorkOK(scenario, work[a])
    BY <1>a DEF CallIsOK, AgentOK
  <2>2. /\ pc'[a] = "ret" /\ out'[a] = "not_connected" /\ disturbed'[a] = TRUE
    BY <1>a DEF LoseAnswer, TransportError, Interrupt, Goto, Finish, Types
  <2> QED
    BY <1>b, <1>c, <2>1, <2>2, EndedOK DEF CallIsOK
<1>5. ASSUME NEW b \in Agents, b # a
      PROVE  CallIsOK(b)'
  <2>1. /\ pc'[b] = pc[b] /\ work'[b] = work[b] /\ sentAs'[b] = sentAs[b]
        /\ age'[b] = age[b] /\ out'[b] = out[b] /\ got'[b] = got[b]
        /\ disturbed'[b] = disturbed[b]
        /\ warned[b] \in BOOLEAN /\ warned'[b] \in BOOLEAN
        /\ \/ warned'[b] = warned[b] /\ (attached' = attached \/ attached = 0)
           \/ warned'[b] = (warned[b] \/ pc[b] # "idle")
    BY <1>5, <1>a DEF LoseAnswer, TransportError, Interrupt, WarnOthers, Goto,
       Finish, Types
  <2> QED
    BY <2>1, <1>a, <1>b, OtherOK DEF CallIsOK
<1> QED
  BY <1>1, <1>2, <1>3, <1>4, <1>5 DEF IInv

\* Nothing is left of a call that does not exist.
LEMMA NoWorkOK ==
  ASSUME NEW s
  PROVE  WorkOK(s, NoWork)
<1>1. /\ NoWork.todo = <<>> /\ NoWork.by = None /\ NoWork.valid = TRUE
  BY DEF NoWork
<1>2. <<>> \in Seq(OpSet) /\ Len(<<>>) = 0 /\ 1..0 = {}
  OBVIOUS
<1>3. None # "invalid"
  BY DEF None
<1>4. TodoOK(s, NoWork.by, NoWork.todo)
  BY <1>1, <1>2 DEF TodoOK
<1> QED
  BY <1>1, <1>3, <1>4 DEF WorkOK

\* The result goes back to the agent.
LEMMA ReturnOK ==
  ASSUME IInv, NEW a \in Agents, Return(a)
  PROVE  IInv'
<1>a. /\ Types /\ QueueOK /\ GuestOK(scenario, guest, acked, unsure)
      /\ \A b \in Agents : CallIsOK(b)
  BY DEF IInv
<1>b. scenario' = scenario /\ inc' = inc /\ hung' = hung
  BY DEF Return, engineVars
<1>1. Types'
  <2>1. pc' \in [Agents -> Places] /\ out' \in [Agents -> Outcomes]
    BY <1>a DEF Return, Goto, Types, Places, Outcomes
  <2>2. warned' \in [Agents -> BOOLEAN] /\ disturbed' \in [Agents -> BOOLEAN]
    BY <1>a DEF Return, Types
  <2>3. sentAs' \in [Agents -> Nat] /\ age' \in [Agents -> Nat]
    BY <1>a DEF Return, Types
  <2>4. got' \in [Agents -> SUBSET Nat] /\ DOMAIN work' = Agents
    BY <1>a DEF Return, Types
  <2> QED
    BY <1>a, <2>1, <2>2, <2>3, <2>4 DEF Return, engineVars, Types
<1>2. GuestOK(scenario, guest, acked, unsure)'
  BY <1>a DEF Return, engineVars, historyVars
<1>3. QueueOK'
  <2>1. queue' = queue /\ \A b \in Agents : pc'[b] = "queued" => pc[b] = "queued"
    BY <1>a DEF Return, Goto, Types
  <2> QED
    BY <1>a, <2>1 DEF QueueOK
<1>4. CallIsOK(a)'
  <2>1. /\ pc'[a] = "idle" /\ work'[a] = NoWork /\ out'[a] = "none" /\ got'[a] = {}
    BY <1>a DEF Return, Goto, Types
  <2>2. PlaceOK("idle", NoWork, "none", {})
    BY DEF PlaceOK
  <2> QED
    BY <2>1, <2>2, NoWorkOK DEF CallIsOK, AgentOK, WireOK, MixOK
<1>5. ASSUME NEW b \in Agents, b # a
      PROVE  CallIsOK(b)'
  <2>1. /\ pc'[b] = pc[b] /\ work'[b] = work[b] /\ sentAs'[b] = sentAs[b]
        /\ age'[b] = age[b] /\ out'[b] = out[b] /\ got'[b] = got[b]
        /\ disturbed'[b] = disturbed[b]
        /\ warned[b] \in BOOLEAN /\ warned'[b] \in BOOLEAN
        /\ \/ warned'[b] = warned[b] /\ (attached' = attached \/ attached = 0)
           \/ warned'[b] = (warned[b] \/ pc[b] # "idle")
    BY <1>5, <1>a DEF Return, Goto, Types
  <2> QED
    BY <2>1, <1>a, <1>b, OtherOK DEF CallIsOK
<1> QED
  BY <1>1, <1>2, <1>3, <1>4, <1>5 DEF IInv

\* Another process has started, nothing of the old one is left.
LEMMA RestartOK ==
  ASSUME IInv, Restart
  PROVE  IInv'
<1>a. /\ Types /\ QueueOK /\ \A b \in Agents : CallIsOK(b)
  BY DEF IInv
<1>b. /\ scenario' = scenario /\ inc' = inc + 1 /\ hung' = FALSE /\ guest' = Fresh
      /\ acked' = 0 /\ unsure' = 0 /\ attached' = attached /\ queue' = queue
      /\ pc' = pc /\ work' = work /\ sentAs' = sentAs /\ age' = age /\ out' = out
      /\ known' = known /\ spent' = spent /\ got' = got
      /\ disturbed' = disturbed /\ warned' = warned
  BY DEF Restart, callVars
<1>1. Types'
  <2>1. inc' \in Nat \ {0} /\ attached' \in 0..inc'
    BY <1>a, <1>b DEF Types
  <2> QED
    BY <1>a, <1>b, <2>1 DEF Types
<1>2. GuestOK(scenario, guest, acked, unsure)'
  <2>1. /\ Fresh.mem = 0 /\ Fresh.points = <<>> /\ Fresh.next = 1
        /\ Fresh.touched = {} /\ Fresh.script = "none"
    BY DEF Fresh
  <2>2. <<>> \in Seq(Nat) /\ Len(<<>>) = 0 /\ 1..0 = {}
    OBVIOUS
  <2>3. Fresh \in Guests
    BY <2>2 DEF Fresh, Guests
  <2>4. PointsOK(Fresh.points, Fresh.next)
    BY <2>1, <2>2 DEF PointsOK
  <2> QED
    BY <1>b, <2>1, <2>3, <2>4 DEF GuestOK
<1>3. QueueOK'
  BY <1>a, <1>b DEF QueueOK
<1>4. ASSUME NEW b \in Agents
      PROVE  CallIsOK(b)'
  <2>1. WireOK(inc, hung, pc[b], work[b], sentAs[b], age[b])
    BY <1>a DEF CallIsOK, AgentOK
  <2>2. WireOK(inc + 1, FALSE, pc[b], work[b], sentAs[b], age[b])
    BY <1>a, <2>1 DEF WireOK, Types
  <2> QED
    BY <1>a, <1>b, <2>2 DEF CallIsOK, AgentOK
<1> QED
  BY <1>1, <1>2, <1>3, <1>4 DEF IInv

\* The emulator hangs.
LEMMA HangOK ==
  ASSUME IInv, Hang
  PROVE  IInv'
<1>a. /\ Types /\ QueueOK /\ GuestOK(scenario, guest, acked, unsure)
      /\ \A b \in Agents : CallIsOK(b)
  BY DEF IInv
<1>b. /\ scenario' = scenario /\ inc' = inc /\ hung' = TRUE /\ guest' = guest
      /\ acked' = acked /\ unsure' = unsure /\ attached' = attached /\ queue' = queue
      /\ pc' = pc /\ work' = work /\ sentAs' = sentAs /\ age' = age /\ out' = out
      /\ known' = known /\ spent' = spent /\ got' = got
      /\ disturbed' = disturbed /\ warned' = warned
  BY DEF Hang, callVars, historyVars
<1>1. Types'
  BY <1>a, <1>b DEF Types
<1>2. GuestOK(scenario, guest, acked, unsure)'
  BY <1>a, <1>b
<1>3. QueueOK'
  BY <1>a, <1>b DEF QueueOK
<1>4. ASSUME NEW b \in Agents
      PROVE  CallIsOK(b)'
  <2>1. WireOK(inc, TRUE, pc[b], work[b], sentAs[b], age[b])
    BY <1>a DEF CallIsOK, AgentOK, WireOK
  <2> QED
    BY <1>a, <1>b, <2>1 DEF CallIsOK, AgentOK
<1> QED
  BY <1>1, <1>2, <1>3, <1>4 DEF IInv

\* A script that runs.
LEMMA ScriptRunsOK ==
  ASSUME IInv, ScriptRuns
  PROVE  IInv'
<1>a. /\ Types /\ QueueOK /\ GuestOK(scenario, guest, acked, unsure)
      /\ \A b \in Agents : CallIsOK(b)
  BY DEF IInv
<1>b. /\ scenario' = scenario /\ inc' = inc /\ hung' = hung
      /\ acked' = acked /\ unsure' = unsure /\ attached' = attached /\ queue' = queue
      /\ pc' = pc /\ work' = work /\ sentAs' = sentAs /\ age' = age /\ out' = out
      /\ known' = known /\ spent' = spent /\ got' = got
      /\ disturbed' = disturbed /\ warned' = warned
  BY DEF ScriptRuns, callVars, historyVars
<1>c. /\ guest \in Guests /\ guest.script = "running"
      /\ "script" \in guest.touched /\ scenario.mode # "observe"
  <2>1. guest.script = "running" /\ Fresh.script = "none"
    BY DEF ScriptRuns, Fresh
  <2> QED
    BY <1>a, <2>1 DEF GuestOK
<1> DEFINE Moved == /\ guest' \in Guests /\ guest'.points = guest.points
                    /\ guest'.next = guest.next
                    /\ guest.touched \subseteq guest'.touched
                    /\ guest'.touched \subseteq guest.touched \cup InteractParts
<1>1. Moved
  <2>1. ASSUME NEW m \in ScriptWrites, guest' = [guest EXCEPT !.mem = m]
        PROVE  Moved
    <3>1. m \in Nat
      BY ToolsAssumption
    <3> QED
      BY <1>c, <2>1, <3>1, GuestWithMem
  <2>2. ASSUME NEW p \in ScriptReach,
               guest' = [guest EXCEPT !.touched = @ \cup {p}]
        PROVE  Moved
    <3> DEFINE t == guest.touched \cup {p}
    <3>1. p \in InteractParts /\ p \in Parts
      BY ToolsAssumption DEF InteractParts, Parts
    <3>2. t \in SUBSET Parts
      BY <1>c, <3>1, GuestIs
    <3> HIDE DEF t
    <3>3. guest' = [guest EXCEPT !.touched = t]
      BY <2>2 DEF t
    <3>4. /\ guest' \in Guests /\ guest'.points = guest.points
          /\ guest'.next = guest.next /\ guest'.touched = t
      BY <1>c, <3>2, <3>3, GuestWithTouched
    <3> QED
      BY <3>1, <3>4 DEF t
  <2>3. CASE guest' = [guest EXCEPT !.script = "loaded"]
    BY <1>c, <2>3 DEF Guests
  <2> QED
    BY <2>1, <2>2, <2>3 DEF ScriptRuns
<1>2. GuestOK(scenario, guest, acked, unsure)'
  BY <1>a, <1>b, <1>c, <1>1 DEF GuestOK
<1>3. Types' /\ QueueOK'
  BY <1>a, <1>b DEF Types, QueueOK
<1>4. \A b \in Agents : CallIsOK(b)'
  BY <1>a, <1>b DEF CallIsOK
<1> QED
  BY <1>2, <1>3, <1>4 DEF IInv

\* Time passes.
LEMMA TickOK ==
  ASSUME IInv, Tick
  PROVE  IInv'
<1>a. /\ Types /\ QueueOK /\ GuestOK(scenario, guest, acked, unsure)
      /\ \A b \in Agents : CallIsOK(b)
  BY DEF IInv
<1>b. /\ scenario' = scenario /\ inc' = inc /\ hung' = hung /\ guest' = guest
      /\ acked' = acked /\ unsure' = unsure /\ attached' = attached /\ queue' = queue
      /\ pc' = pc /\ work' = work /\ sentAs' = sentAs /\ out' = out
      /\ known' = known /\ spent' = spent /\ got' = got
      /\ disturbed' = disturbed /\ warned' = warned
      /\ age' = [b \in Agents |-> IF pc[b] = "sent" THEN age[b] + 1 ELSE age[b]]
      /\ \A b \in Agents : ~Due(b)
  BY DEF Tick, engineVars, historyVars
<1>1. Types'
  <2>1. age' \in [Agents -> Nat]
    BY <1>a, <1>b DEF Types
  <2> QED
    BY <1>a, <1>b, <2>1 DEF Types
<1>2. GuestOK(scenario, guest, acked, unsure)'
  BY <1>a, <1>b
<1>3. QueueOK'
  BY <1>a, <1>b DEF QueueOK
<1>4. ASSUME NEW b \in Agents
      PROVE  CallIsOK(b)'
  <2>1. /\ WireOK(inc, hung, pc[b], work[b], sentAs[b], age[b])
        /\ PlaceOK(pc[b], work[b], out[b], got[b])
        /\ WorkOK(scenario, work[b])
    BY <1>a DEF CallIsOK, AgentOK
  <2>2. WireOK(inc, hung, pc[b], work[b], sentAs[b], age'[b])
    <3>1. SUFFICES ASSUME pc[b] = "sent", ~hung, sentAs[b] = inc
                   PROVE  age'[b] <= Deadline(Head(work[b].todo))
      BY <2>1 DEF WireOK
    <3>2. Head(work[b].todo) \in OpSet
      BY <2>1, <3>1, RestOK DEF PlaceOK
    <3>3. /\ Head(work[b].todo).op = "wait"
          /\ ~(age[b] >= Head(work[b].todo).n)
      BY <1>b, <3>1 DEF Due
    <3>4. age'[b] = age[b] + 1 /\ age[b] \in Nat
      BY <1>a, <1>b, <3>1 DEF Types
    <3> QED
      BY <3>2, <3>3, <3>4 DEF Deadline, OpSet
  <2> QED
    BY <1>a, <1>b, <2>2 DEF CallIsOK, AgentOK
<1> QED
  BY <1>1, <1>2, <1>3, <1>4 DEF IInv

\* The first state.
LEMMA InitOK ==
  ASSUME Init
  PROVE  IInv
<1>1. Types
  <2>1. scenario \in Scenarios /\ scenario.calls \in Nat
    BY ToolsAssumption DEF Init
  <2>2. spent \in 0..scenario.calls /\ attached \in 0..inc /\ inc \in Nat \ {0}
    BY <2>1 DEF Init
  <2>3. queue \in Seq(Agents)
    BY DEF Init
  <2>4. pc \in [Agents -> Places] /\ out \in [Agents -> Outcomes]
    BY DEF Init, Places, Outcomes
  <2> QED
    BY <2>1, <2>2, <2>3, <2>4 DEF Init, Types
<1>2. GuestOK(scenario, guest, acked, unsure)
  <2>1. /\ Fresh.mem = 0 /\ Fresh.points = <<>> /\ Fresh.next = 1
        /\ Fresh.touched = {} /\ Fresh.script = "none"
    BY DEF Fresh
  <2>2. <<>> \in Seq(Nat) /\ Len(<<>>) = 0 /\ 1..0 = {}
    OBVIOUS
  <2>3. Fresh \in Guests
    BY <2>2 DEF Fresh, Guests
  <2>4. PointsOK(Fresh.points, Fresh.next)
    BY <2>1, <2>2 DEF PointsOK
  <2>5. guest = Fresh /\ acked = 0 /\ unsure = 0
    BY DEF Init
  <2> QED
    BY <2>1, <2>3, <2>4, <2>5 DEF GuestOK
<1>3. QueueOK
  BY DEF Init, QueueOK
<1>4. ASSUME NEW a \in Agents
      PROVE  CallIsOK(a)
  <2>1. /\ pc[a] = "idle" /\ work[a] = NoWork /\ out[a] = "none" /\ got[a] = {}
    BY DEF Init
  <2>2. PlaceOK("idle", NoWork, "none", {})
    BY DEF PlaceOK
  <2> QED
    BY <2>1, <2>2, NoWorkOK DEF CallIsOK, AgentOK, WireOK, MixOK
<1> QED
  BY <1>1, <1>2, <1>3, <1>4 DEF IInv

\* IInv holds in every state.
THEOREM Invariance == Spec => []IInv
<1>1. Init => IInv
  BY InitOK
<1>2. IInv /\ [Next]_vars => IInv'
  <2> SUFFICES ASSUME IInv, [Next]_vars
               PROVE  IInv'
    OBVIOUS
  <2>1. CASE Restart
    BY <2>1, RestartOK
  <2>2. CASE Hang
    BY <2>2, HangOK
  <2>3. CASE Tick
    BY <2>3, TickOK
  <2>4. ASSUME NEW a \in Agents, NEW c \in scenario.offered, Invoke(a, c)
        PROVE  IInv'
    BY <2>4, InvokeOK
  <2>5. ASSUME NEW a \in Agents, Step(a)
        PROVE  IInv'
    <3>1. CASE Begin(a)
      BY <3>1, BeginOK
    <3>2. CASE Manage(a)
      BY <3>2, ManageOK
    <3>3. CASE Send(a)
      BY <3>3, SendOK
    <3>4. CASE Serve(a)
      BY <3>4, ServeOK
    <3>5. CASE Unauthorized(a)
      BY <3>5, UnauthorizedOK
    <3>6. CASE TimeOut(a)
      BY <3>6, TimeOutOK
    <3>7. CASE Return(a)
      BY <3>7, ReturnOK
    <3> QED
      BY <2>5, <3>1, <3>2, <3>3, <3>4, <3>5, <3>6, <3>7 DEF Step
  <2>6. ASSUME NEW a \in Agents, LoseRequest(a)
        PROVE  IInv'
    BY <2>6, LoseRequestOK
  <2>7. ASSUME NEW a \in Agents, LoseAnswer(a)
        PROVE  IInv'
    BY <2>7, LoseAnswerOK
  <2>8. CASE ScriptRuns
    BY <2>8, ScriptRunsOK
  <2>9. CASE UNCHANGED vars
    <3>1. /\ scenario' = scenario /\ inc' = inc /\ hung' = hung /\ guest' = guest
          /\ acked' = acked /\ unsure' = unsure /\ attached' = attached
          /\ queue' = queue /\ pc' = pc /\ work' = work /\ sentAs' = sentAs
          /\ age' = age /\ out' = out /\ known' = known /\ spent' = spent
          /\ got' = got /\ disturbed' = disturbed /\ warned' = warned
      BY <2>9 DEF vars, engineVars, callVars, historyVars
    <3>2. Types' /\ QueueOK' /\ GuestOK(scenario, guest, acked, unsure)'
      BY <3>1 DEF IInv, Types, QueueOK
    <3>3. \A a \in Agents : CallIsOK(a)'
      BY <3>1 DEF IInv, CallIsOK
    <3> QED
      BY <3>2, <3>3 DEF IInv
  <2> QED
    BY <2>1, <2>2, <2>3, <2>4, <2>5, <2>6, <2>7, <2>8, <2>9 DEF Next, Finished
<1> QED
  BY <1>1, <1>2, PTL DEF Spec

-----------------------------------------------------------------------------
\* The properties

\* Every variable keeps its type (TypeOK).
THEOREM TypeCorrect == Spec => []TypeOK
<1>1. ASSUME IInv
      PROVE  TypeOK
  <2>1. Types /\ guest \in Guests
    BY <1>1 DEF IInv, GuestOK
  <2>2. ASSUME NEW a \in Agents
        PROVE  /\ DOMAIN work[a] = DOMAIN NoWork
               /\ \A i \in DOMAIN work[a].todo : work[a].todo[i].op \in Ops
    <3>1. WorkOK(scenario, work[a])
      BY <1>1 DEF IInv, CallIsOK, AgentOK
    <3>2. work[a].todo \in Seq(OpSet)
      BY <3>1 DEF WorkOK, TodoOK
    <3>3. \A i \in DOMAIN work[a].todo : work[a].todo[i] \in OpSet
      BY <3>2
    <3>4. \A o \in OpSet : o.op \in Ops
      BY DEF OpSet
    <3> QED
      BY <3>1, <3>3, <3>4 DEF WorkOK
  <2>3. /\ guest.mem \in Nat /\ guest.points \in Seq(Nat) /\ guest.next \in Nat
        /\ guest.script \in {"none", "loaded", "running"}
        /\ guest.touched \subseteq Parts
    BY <2>1, GuestIs
  <2> QED
    BY <2>1, <2>2, <2>3 DEF TypeOK, Types, Places, Outcomes
<1> QED
  BY <1>1, Invariance, PTL

\* In observe mode nothing an agent calls changes the engine; in interact mode
\* nothing outside what that mode is for is asked to change, and memory is
\* written only by scripts, whatever tools are offered (ModeConfines).
THEOREM ModesConfine == Spec => []ModeConfines
<1>1. ASSUME IInv
      PROVE  ModeConfines
  BY <1>1 DEF IInv, GuestOK, ModeConfines
<1> QED
  BY <1>1, Invariance, PTL

\* Agents that increment a cell with mem_write's "expected" lose no
\* acknowledged increment, unless a script writes it (NoLostUpdate).
THEOREM IncrementsAreKept == Spec => []NoLostUpdate
<1>1. ASSUME IInv
      PROVE  NoLostUpdate
  BY <1>1 DEF IInv, GuestOK, NoLostUpdate, Incrementing
<1> QED
  BY <1>1, Invariance, PTL

\* A handler that reports success was served by one process, or another call
\* was interrupted meanwhile (MixedAnswerIsReported).
THEOREM AnswersAreWhole == Spec => []MixedAnswerIsReported
<1>1. ASSUME IInv
      PROVE  MixedAnswerIsReported
  <2> SUFFICES ASSUME NEW a \in Agents, out[a] = "ok", ~warned[a]
               PROVE  ~(Cardinality(got[a]) > 1)
    <3>1. \A a \in Agents : warned[a] \in BOOLEAN
      BY <1>1 DEF IInv, Types
    <3> QED
      BY <3>1 DEF MixedAnswerIsReported
  <2>1. CallIsOK(a)
    BY <1>1 DEF IInv
  <2>2. pc[a] = "ret"
    BY <2>1 DEF CallIsOK, AgentOK, PlaceOK
  <2>3. got[a] \subseteq {attached}
    BY <2>1, <2>2 DEF CallIsOK, AgentOK, MixOK
  <2>4. got[a] = {} \/ got[a] = {attached}
    BY <2>3
  <2>5. Cardinality({}) = 0 /\ Cardinality({attached}) = 1
    BY FS_EmptySet, FS_Singleton
  <2> QED
    BY <2>4, <2>5
<1> QED
  BY <1>1, Invariance, PTL

\* A call that ends with a transport error met one: no wait is cut off by the
\* client's own timeout (CutOffOnlyByFault).
THEOREM WaitsAreNotCutOff == Spec => []CutOffOnlyByFault
<1>1. ASSUME IInv
      PROVE  CutOffOnlyByFault
  BY <1>1 DEF IInv, CallIsOK, AgentOK, CutOffOnlyByFault
<1> QED
  BY <1>1, Invariance, PTL

\* Breakpoints are cleared all at once only by a call that names none, or with
\* the process that had them (DeleteOnlyNamed).
THEOREM ClearingNamesNone == Spec => DeleteOnlyNamed
<1>1. ASSUME IInv, [Next]_vars, Len(guest'.points) + 1 < Len(guest.points)
      PROVE  \/ inc' # inc
             \/ \E a \in Agents :
                  pc[a] = "sent" /\ pc'[a] # "sent" /\ work[a].by = None
  <2>1. guest.points \in Seq(Nat) /\ inc \in Nat /\ pc \in [Agents -> Places]
    BY <1>1, GuestIs DEF IInv, GuestOK, Types
  <2>2. Len(guest.points) \in Nat
    BY <2>1
  <2>3. guest' # guest
    BY <1>1, <2>2
  <2>4. ASSUME NEW a \in Agents, pc[a] = "sent", pc'[a] # "sent",
               guest' = Apply(Head(work[a].todo), guest).guest
        PROVE  work[a].by = None
    <3>1. /\ AsksOK(scenario, work[a].by, Head(work[a].todo))
          /\ AppliedOK(scenario, work[a].by, Head(work[a].todo), guest,
                       Apply(Head(work[a].todo), guest))
          /\ work[a].by # "invalid"
      BY <1>1, <2>4, WireApplies
    <3>2. Head(work[a].todo).op = "delete_all"
      BY <1>1, <2>4, <3>1 DEF AppliedOK
    <3> QED
      BY <3>1, <3>2 DEF AsksOK
  <2>5. ASSUME NEW a \in Agents, Serve(a)
        PROVE  pc[a] = "sent" /\ pc'[a] # "sent"
               /\ guest' = Apply(Head(work[a].todo), guest).guest
    BY <2>1, <2>5 DEF Serve, Answered, Finish, Goto
  <2>6. ASSUME NEW a \in Agents, LoseAnswer(a)
        PROVE  pc[a] = "sent" /\ pc'[a] # "sent"
               /\ guest' = Apply(Head(work[a].todo), guest).guest
    BY <2>1, <2>6 DEF LoseAnswer, TransportError, Interrupt, Finish, Goto
  <2>7. \/ inc' = inc + 1
        \/ ScriptRuns
        \/ \E a \in Agents : Serve(a) \/ LoseAnswer(a)
    BY <1>1, <2>3
       DEF Next, Step, Restart, Hang, Tick, Invoke, Begin, Manage, Send,
           Unauthorized, TimeOut, Return, LoseRequest, Finished, vars,
           engineVars
  <2>8. ~ScriptRuns
    <3>1. guest \in Guests
      BY <1>1 DEF IInv, GuestOK
    <3>2. ScriptRuns => guest'.points = guest.points
      BY <3>1 DEF ScriptRuns, Guests
    <3> QED
      BY <1>1, <2>2, <3>2
  <2> QED
    BY <2>1, <2>4, <2>5, <2>6, <2>7, <2>8
<1> QED
  BY <1>1, Invariance, PTL DEF Spec, DeleteOnlyNamed

=============================================================================
