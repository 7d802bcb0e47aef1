------------------------------ MODULE MCParts ------------------------------
(***************************************************************************)
(* The parts of the bridge that share no state, checked side by side: the  *)
(* first state chooses one part, only that part steps and the variables of *)
(* the others keep the values they start with.  The behaviours are those   *)
(* of each part alone.                                                     *)
(***************************************************************************)
EXTENDS Tools, Symbols, ConfigFile, RingLog, Protocol

VARIABLE part   \* the part that steps

partsVars == <<part, vars, symbolVars, configVars, ringVars, protocolVars>>

-----------------------------------------------------------------------------
\* The values of the constants

Offer(tool, by, n) == [tool |-> tool, by |-> by, n |-> n]
Scenario(mode, workers, offered, calls, faults) ==
  [mode |-> mode, workers |-> workers, offered |-> offered,
   calls |-> calls, faults |-> faults]

AllTools ==
  {Offer(tool, None, 0) : tool \in DOMAIN Catalog}
    \cup {Offer("mem_read", "invalid", 0), Offer("bridge_stop", "invalid", 0)}
Increments == {Offer("mem_read", None, 0), Offer("mem_write", "increment", 0)}
Composites ==
  {Offer("dosbox_status", None, 0), Offer("script_load", None, 0),
   Offer("bridge_start", None, 0), Offer("bridge_stop", None, 0)}
Breakpoints ==
  {Offer("debug_breakpoint_add", None, 0), Offer("debug_breakpoint_delete", None, 0),
   Offer("debug_breakpoint_delete", "id", 0),
   Offer("debug_breakpoint_delete", "id", 1),
   Offer("debug_breakpoint_delete", "index", 0)}
Waits == {Offer("debug_wait", None, 1), Offer("wait_for", None, 2),
          Offer("debug_continue", None, 0)}

AllScenarios ==
  {Scenario(mode, 2, AllTools, 1, {}) : mode \in Modes}
    \cup {Scenario("full", 2, Increments, 4, {"restart", "loss"}),
          Scenario("full", 2, Composites, 3, {"restart", "loss"}),
          Scenario("full", 2, Breakpoints, 4, {})}
    \cup {Scenario("full", n, Waits, 3, {"hang", "restart"}) : n \in 1..2}

AllFeatures ==
  {"drive", "input", "memory", "freeze", "cpu_control", "cpu_registers",
   "debugger", "disassemble", "backtrace", "batch"}

Symbol(seg, off, name) ==
  [ok |-> TRUE, token |-> [seg |-> seg, off |-> off], name |-> name]
NoSymbol == [Symbol(0, 0, "none") EXCEPT !.ok = FALSE]
Paste(form, entries) == [form |-> form, entries |-> entries]

GhidraPastes ==
  {Paste("json", <<Symbol(1, 0, "f"), NoSymbol, Symbol(0, 18, "g"),
                   Symbol(0, 20, "h"), Symbol(0, 16, "f2")>>),
   Paste("text", <<Symbol(0, 16, "k"), Symbol(0, 22, "m")>>),
   Paste("otherJson", <<Symbol(0, 20, "m")>>)}
GhidraQueries == {16, 19, 24}

BridgeSetups == {[port |-> "9000"], [mode |-> "full"], [protocol |-> "bad"]}
SetupCommands == {[mode |-> "observe"], [port |-> "9001"]}
Edited(settings) == [form |-> "toml", settings |-> settings]
EditedFiles ==
  {[form |-> "malformed", settings |-> <<>>], Edited([mode |-> "bad"]),
   Edited([mode |-> "interact", port |-> "8386"]), Edited([colour |-> "red"])}

EngineLines == {[chars |-> 1, width |-> 1], [chars |-> 1, width |-> 3],
                [chars |-> 9, width |-> 2]}

OnePointTwo == <<1, 2>>
Says(protocol, features) ==
  [mcp_protocol |-> protocol, features |-> features]
EngineInfos ==
  {Says(<<1, 1>>, TRUE), Says(<<1, 3>>, TRUE), Says(<<2, 0>>, TRUE),
   Says(<<>>, TRUE), Says(<<>>, FALSE), Says(<<"malformed">>, TRUE)}
SomePins == {<<1, 0>>, <<1, 1>>, <<1, 9>>, <<2, 0>>, <<"malformed">>}

-----------------------------------------------------------------------------
\* The specification

PartNames == {"tools", "symbols", "config", "ring", "protocol"}

Idle == CHOOSE s \in Scenarios :
          \A u \in Scenarios : Cardinality(s.offered) <= Cardinality(u.offered)

\* The part that steps starts in any of its initial states, another in one.
PartsInit ==
  /\ part \in PartNames
  /\ Init /\ (part # "tools" => scenario = Idle)
  /\ SymbolsInit
  /\ ConfigFileInit
  /\ RingLogInit
  /\ ProtocolInit
  /\ part # "protocol" =>
       pin = NoVersion /\ info = CHOOSE i \in Infos : TRUE

BesidesTools == <<part, symbolVars, configVars, ringVars, protocolVars>>

ToolsStep == part = "tools" /\ Next /\ UNCHANGED BesidesTools

SymbolsStep ==
  /\ part = "symbols" /\ SymbolsNext
  /\ UNCHANGED <<part, vars, configVars, ringVars, protocolVars>>

ConfigFileStep ==
  /\ part = "config" /\ ConfigFileNext
  /\ UNCHANGED <<part, vars, symbolVars, ringVars, protocolVars>>

RingLogStep ==
  /\ part = "ring" /\ RingLogNext
  /\ UNCHANGED <<part, vars, symbolVars, configVars, protocolVars>>

ProtocolStep ==
  /\ part = "protocol" /\ ProtocolNext
  /\ UNCHANGED <<part, vars, symbolVars, configVars, ringVars>>

PartsNext ==
  ToolsStep \/ SymbolsStep \/ ConfigFileStep \/ RingLogStep \/ ProtocolStep

\* The fairness of module Tools.
PartsFairness ==
  /\ \A a \in Agents :
       WF_partsVars(part = "tools" /\ Step(a) /\ UNCHANGED BesidesTools)
  /\ WF_partsVars(part = "tools" /\ Tick /\ UNCHANGED BesidesTools)

PartsSpec == PartsInit /\ [][PartsNext]_partsVars /\ PartsFairness

-----------------------------------------------------------------------------
\* The types of all parts: their modules' type invariants.
PartsTypeOK ==
  /\ part \in PartNames
  /\ TypeOK /\ SymbolsTypeOK /\ ConfigFileTypeOK /\ RingLogTypeOK
  /\ ProtocolTypeOK
=============================================================================
