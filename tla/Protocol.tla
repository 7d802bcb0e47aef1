----------------------------- MODULE Protocol -----------------------------
(***************************************************************************)
(* The negotiation of the protocol version (protocol.py) and what depends  *)
(* on it: an attach derives the effective version from the engine's /info  *)
(* and the pin of the configuration, and bridge_swagger judges the         *)
(* engine's routes by the version of the attach it finds.                  *)
(*                                                                         *)
(* Abstraction.  A version is a pair of numbers; a text that is none is    *)
(* "malformed".  A route is the minor version that introduced its group.   *)
(***************************************************************************)
EXTENDS Integers, FiniteSets

CONSTANTS
  BridgeProtocol,   \* BRIDGE_PROTOCOL
  Infos,            \* what engines say in /info: mcp_protocol, and whether
                    \* there is a features block
  Pins,             \* pins a configuration has
  MaxAttaches       \* bound: attaches in a behaviour

NoVersion == <<>>
Malformed == <<"malformed">>

\* The minor versions that add route groups, KNOWN_ROUTE_PREFIXES_BY_MINOR.
RouteMinors == {0, 1}

IsVersion(v) == v \notin {NoVersion, Malformed}

ASSUME ProtocolAssumption ==
  /\ BridgeProtocol \in Nat \X Nat
  /\ \A p \in Pins : IsVersion(p) => p \in Nat \X Nat
  /\ \A i \in Infos : /\ IsVersion(i.mcp_protocol) => i.mcp_protocol \in Nat \X Nat
                      /\ i.features \in BOOLEAN
  /\ MaxAttaches \in Nat

VARIABLES
  pin,         \* the configuration's protocol, or NoVersion
  info,        \* what the engine at base_url says
  effective,   \* the effective version, NoVersion when detached
  attempt,     \* how the last attach ended
  digest,      \* bridge_swagger: at work, or the groups it knows
  attaches,    \* attaches tried
  met,         \* history: the engine's info at the last attach
  during       \* history: effective versions since the digest began

protocolVars ==
  <<pin, info, effective, attempt, digest, attaches, met, during>>

NoDigest == [at |-> "idle", known |-> {}]

ProtocolTypeOK ==
  /\ pin \in Pins \cup {NoVersion} /\ info \in Infos /\ met \in Infos
  /\ effective = NoVersion \/ effective \in Nat \X Nat
  /\ attempt \in {"none", "attached", "refused"}
  /\ digest.at \in {"idle", "fetched", "done"}
  /\ digest.known \subseteq RouteMinors
  /\ attaches \in 0..MaxAttaches

-----------------------------------------------------------------------------
\* effective_version()

\* Mutant of PinAccepted: a pin above the bridge's own version is taken.
PinAcceptedAbove ==
  \/ pin = NoVersion
  \/ IsVersion(pin) /\ pin[1] = BridgeProtocol[1]

\* A pin must be a version of the bridge's own major, not above its minor.
PinAccepted ==
  \/ pin = NoVersion
  \/ IsVersion(pin) /\ pin[1] = BridgeProtocol[1] /\ pin[2] <= BridgeProtocol[2]

OwnSide == IF pin = NoVersion THEN BridgeProtocol ELSE pin

\* An engine that has features and names no version is an implicit 1.0.
EngineSide ==
  IF info.mcp_protocol # NoVersion THEN info.mcp_protocol
  ELSE IF info.features THEN <<1, 0>>
  ELSE NoVersion

\* negotiate()
Compatible == IsVersion(EngineSide) /\ EngineSide[1] = OwnSide[1]

Negotiated ==
  <<OwnSide[1], IF OwnSide[2] <= EngineSide[2] THEN OwnSide[2]
                ELSE EngineSide[2]>>

-----------------------------------------------------------------------------
\* The connection, as far as the version goes

\* The version of an attach, of a refused one none.
Attach ==
  /\ effective = NoVersion /\ attaches < MaxAttaches
  /\ attaches' = attaches + 1
  /\ met' = info
  /\ IF PinAccepted /\ Compatible
     THEN /\ effective' = Negotiated /\ attempt' = "attached"
     ELSE /\ attempt' = "refused" /\ UNCHANGED effective
  /\ during' = during \cup {effective'}
  /\ UNCHANGED <<pin, info, digest>>

Detach ==
  /\ effective # NoVersion
  /\ effective' = NoVersion /\ attempt' = "none"
  /\ during' = during \cup {NoVersion}
  /\ UNCHANGED <<pin, info, digest, attaches, met>>

\* Another engine at base_url.
EngineChanges ==
  /\ info' \in Infos
  /\ UNCHANGED <<pin, effective, attempt, digest, attaches, met, during>>

-----------------------------------------------------------------------------
\* bridge_swagger

\* The engine's routes are fetched over the attach.
FetchRoutes ==
  /\ digest.at = "idle" /\ effective # NoVersion
  /\ digest' = [digest EXCEPT !.at = "fetched"]
  /\ during' = {effective}
  /\ UNCHANGED <<pin, info, effective, attempt, attaches, met>>

\* known_route_prefixes()
KnownRoutes(minor) == {m \in RouteMinors : m <= minor}

\* _known_prefixes_for(): by the version of the attach there is now, and if
\* there is none by the bridge's own.
JudgeRoutes ==
  /\ digest.at = "fetched"
  /\ digest' = [at |-> "done",
                known |-> KnownRoutes(IF effective = NoVersion
                                      THEN BridgeProtocol[2]
                                      ELSE effective[2])]
  /\ UNCHANGED <<pin, info, effective, attempt, attaches, met, during>>

EndDigest ==
  /\ digest.at = "done"
  /\ digest' = NoDigest /\ during' = {}
  /\ UNCHANGED <<pin, info, effective, attempt, attaches, met>>

-----------------------------------------------------------------------------
\* The specification

ProtocolInit ==
  /\ pin \in Pins \cup {NoVersion}
  /\ info \in Infos /\ met = info
  /\ effective = NoVersion /\ attempt = "none"
  /\ digest = NoDigest
  /\ attaches = 0 /\ during = {}

ProtocolNext ==
  Attach \/ Detach \/ EngineChanges \/ FetchRoutes \/ JudgeRoutes \/ EndDigest

ProtocolSpec == ProtocolInit /\ [][ProtocolNext]_protocolVars

-----------------------------------------------------------------------------
\* Properties

\* What both peers implement: minors are cumulative, the configuration's pin
\* lowers the bridge's side and never raises it.
Common(engine) ==
  {v \in {BridgeProtocol[1]} \X (0..BridgeProtocol[2]) :
     /\ pin # NoVersion => v[2] <= pin[2]
     /\ \/ /\ IsVersion(engine.mcp_protocol)
           /\ v[1] = engine.mcp_protocol[1] /\ v[2] <= engine.mcp_protocol[2]
        \/ engine.mcp_protocol = NoVersion /\ engine.features /\ v = <<1, 0>>}

\* An attach settles on the highest version that bridge, pin and engine have in
\* common and is refused only when there is none or the pin is not the
\* bridge's; a digest of the routes goes by a version that was in force
\* while it was made (effective_version, negotiate, _known_prefixes_for).
NegotiatesHighestCommon ==
  /\ attempt = "attached" =>
       /\ effective \in Common(met)
       /\ \A v \in Common(met) : v[2] <= effective[2]
  /\ attempt = "refused" /\ (IsVersion(pin) \/ pin = NoVersion) =>
       \/ Common(met) = {}
       \/ pin # NoVersion /\ <<pin[1], pin[2]>> \notin
            {BridgeProtocol[1]} \X (0..BridgeProtocol[2])
  /\ digest.at = "done" =>
       \E v \in during :
         digest.known = {m \in RouteMinors :
                           m <= IF v = NoVersion THEN BridgeProtocol[2]
                                ELSE v[2]}
=============================================================================
