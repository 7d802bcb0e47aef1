---------------------------- MODULE ProtocolProofs ----------------------------
(***************************************************************************)
(* Proofs about Protocol, for any version of the bridge, any pins and any  *)
(* engines, with attaches, detaches and exchanged engines interleaved with *)
(* the digest of the routes.                                               *)
(*                                                                         *)
(* An attach is judged by the engine it met and the pin, neither of which  *)
(* a later step changes; between the fetch of the routes and their digest  *)
(* the version in force is among those recorded.                           *)
(***************************************************************************)
EXTENDS Protocol, TLAPS

-----------------------------------------------------------------------------
\* The inductive invariant

\* The versions an engine may name, and what the bridge compares.
Versions == Nat \X Nat

Settled ==
  attempt = "attached" =>
    /\ effective \in Common(met)
    /\ \A v \in Common(met) : v[2] <= effective[2]

Refused ==
  attempt = "refused" /\ (IsVersion(pin) \/ pin = NoVersion) =>
    \/ Common(met) = {}
    \/ pin # NoVersion /\ <<pin[1], pin[2]>> \notin
         {BridgeProtocol[1]} \X (0..BridgeProtocol[2])

Digested ==
  /\ digest.at = "fetched" => effective \in during
  /\ digest.at = "done" =>
       \E v \in during :
         digest.known = {m \in RouteMinors :
                           m <= IF v = NoVersion THEN BridgeProtocol[2]
                                ELSE v[2]}

Types ==
  /\ ProtocolTypeOK
  /\ digest \in [at : {"idle", "fetched", "done"}, known : SUBSET RouteMinors]

PInv == Types /\ Settled /\ Refused /\ Digested

-----------------------------------------------------------------------------
\* The operators

\* What the assumptions say of the constants.
LEMMA ConstantTypes ==
  /\ BridgeProtocol \in Versions
  /\ \A p \in Pins : IsVersion(p) => p \in Versions
  /\ \A i \in Infos : IsVersion(i.mcp_protocol) => i.mcp_protocol \in Versions
  /\ <<1, 0>> \in Versions /\ IsVersion(<<1, 0>>)
  /\ MaxAttaches \in Nat
<1>1. <<1, 0>> \in Versions
  BY DEF Versions
<1>2. IsVersion(<<1, 0>>)
  BY DEF IsVersion, NoVersion, Malformed
<1> QED
  BY <1>1, <1>2, ProtocolAssumption DEF Versions

\* The version an engine stands for is none, malformed or a version, and what
\* it has in common with the bridge are the versions up to it.
LEMMA EngineSideIs ==
  ASSUME info \in Infos
  PROVE  /\ IsVersion(EngineSide) => EngineSide \in Versions
         /\ \A v \in Versions :
              v \in Common(info) =>
                /\ v[1] = BridgeProtocol[1] /\ v[2] <= BridgeProtocol[2]
                /\ pin # NoVersion => v[2] <= pin[2]
                /\ IsVersion(EngineSide)
                /\ v[1] = EngineSide[1] /\ v[2] <= EngineSide[2]
<1>1. IsVersion(EngineSide) => EngineSide \in Versions
  BY ConstantTypes DEF EngineSide, IsVersion
<1>2. ASSUME NEW v \in Versions, v \in Common(info)
      PROVE  /\ v[1] = BridgeProtocol[1] /\ v[2] <= BridgeProtocol[2]
             /\ pin # NoVersion => v[2] <= pin[2]
             /\ IsVersion(EngineSide)
             /\ v[1] = EngineSide[1] /\ v[2] <= EngineSide[2]
  <2>1. /\ v \in {BridgeProtocol[1]} \X (0..BridgeProtocol[2])
        /\ pin # NoVersion => v[2] <= pin[2]
        /\ \/ /\ IsVersion(info.mcp_protocol)
              /\ v[1] = info.mcp_protocol[1] /\ v[2] <= info.mcp_protocol[2]
           \/ info.mcp_protocol = NoVersion /\ info.features /\ v = <<1, 0>>
    BY <1>2 DEF Common
  <2>2. v[1] = BridgeProtocol[1] /\ v[2] <= BridgeProtocol[2]
    BY <2>1, ConstantTypes DEF Versions
  <2>3. CASE /\ IsVersion(info.mcp_protocol)
             /\ v[1] = info.mcp_protocol[1] /\ v[2] <= info.mcp_protocol[2]
    BY <2>1, <2>2, <2>3 DEF EngineSide, IsVersion
  <2>4. CASE info.mcp_protocol = NoVersion /\ info.features /\ v = <<1, 0>>
    <3>1. EngineSide = <<1, 0>>
      BY <2>4 DEF EngineSide
    <3> QED
      BY <2>1, <2>2, <2>4, <3>1, ConstantTypes
  <2> QED
    BY <2>1, <2>3, <2>4
<1> QED
  BY <1>1, <1>2

\* What is negotiated is common, and nothing that is common is above it.
LEMMA NegotiatedIsHighest ==
  ASSUME info \in Infos, pin \in Pins \cup {NoVersion}, PinAccepted, Compatible
  PROVE  /\ Negotiated \in Common(info) /\ Negotiated \in Versions
         /\ \A v \in Common(info) : v[2] <= Negotiated[2]
<1> DEFINE own  == OwnSide
           eng  == EngineSide
<1>1. eng \in Versions /\ IsVersion(eng) /\ eng[1] = own[1]
  BY EngineSideIs DEF Compatible
<1>2. /\ own \in Versions /\ own[1] = BridgeProtocol[1]
      /\ own[2] <= BridgeProtocol[2] /\ (pin # NoVersion => own = pin)
      /\ (pin = NoVersion => own = BridgeProtocol)
  BY ConstantTypes DEF PinAccepted, OwnSide, Versions
<1>3. \/ IsVersion(info.mcp_protocol) /\ eng = info.mcp_protocol
      \/ info.mcp_protocol = NoVersion /\ info.features /\ eng = <<1, 0>>
  BY <1>1 DEF EngineSide, IsVersion
<1>4. Negotiated = <<own[1], IF own[2] <= eng[2] THEN own[2] ELSE eng[2]>>
  BY DEF Negotiated
<1> HIDE DEF own, eng
<1>5. /\ own[1] \in Nat /\ own[2] \in Nat /\ eng[1] \in Nat /\ eng[2] \in Nat
      /\ BridgeProtocol[1] \in Nat /\ BridgeProtocol[2] \in Nat
  BY <1>1, <1>2, ConstantTypes DEF Versions
<1> DEFINE w == IF own[2] <= eng[2] THEN own[2] ELSE eng[2]
<1>6. w \in Nat /\ w <= own[2] /\ w <= eng[2] /\ (w = own[2] \/ w = eng[2])
  BY <1>5
<1> HIDE DEF w
<1>7. Negotiated = <<own[1], w>>
  BY <1>4 DEF w
<1>8. Negotiated \in Versions
  BY <1>5, <1>6, <1>7 DEF Versions
<1>9. Negotiated \in Common(info)
  <2>1. <<own[1], w>> \in {BridgeProtocol[1]} \X (0..BridgeProtocol[2])
    BY <1>2, <1>5, <1>6
  <2>2. pin # NoVersion => w <= pin[2]
    BY <1>2, <1>6
  <2>3. CASE IsVersion(info.mcp_protocol) /\ eng = info.mcp_protocol
    BY <1>1, <1>6, <1>7, <2>1, <2>2, <2>3 DEF Common
  <2>4. CASE info.mcp_protocol = NoVersion /\ info.features /\ eng = <<1, 0>>
    <3>1. own[1] = 1 /\ w = 0
      BY <1>1, <1>6, <2>4
    <3> QED
      BY <1>7, <2>1, <2>2, <2>4, <3>1 DEF Common
  <2> QED
    BY <1>3, <2>3, <2>4
<1>10. ASSUME NEW v \in Common(info)
       PROVE  v[2] <= w
  <2>1. v \in Versions
    BY <1>5 DEF Common, Versions
  <2>2. /\ v[2] <= BridgeProtocol[2] /\ (pin # NoVersion => v[2] <= pin[2])
        /\ v[2] <= EngineSide[2] /\ v[2] \in Nat
    BY <2>1, EngineSideIs DEF Versions
  <2>3. v[2] <= own[2] /\ v[2] <= eng[2]
    BY <1>2, <2>2 DEF eng
  <2> QED
    BY <1>6, <2>3
<1> QED
  BY <1>7, <1>8, <1>9, <1>10

\* A refusal means that nothing is common or the pin is not the bridge's.
LEMMA RefusedForAReason ==
  ASSUME info \in Infos, pin \in Pins \cup {NoVersion},
         ~(PinAccepted /\ Compatible), IsVersion(pin) \/ pin = NoVersion
  PROVE  \/ Common(info) = {}
         \/ pin # NoVersion /\ <<pin[1], pin[2]>> \notin
              {BridgeProtocol[1]} \X (0..BridgeProtocol[2])
<1>1. CASE ~PinAccepted
  <2>1. pin # NoVersion /\ IsVersion(pin) /\ pin \in Versions
        /\ ~(pin[1] = BridgeProtocol[1] /\ pin[2] <= BridgeProtocol[2])
    BY <1>1, ConstantTypes DEF PinAccepted
  <2>2. <<pin[1], pin[2]>> \notin {BridgeProtocol[1]} \X (0..BridgeProtocol[2])
    BY <2>1, ConstantTypes DEF Versions
  <2> QED
    BY <2>1, <2>2
<1>2. CASE PinAccepted /\ ~Compatible
  <2>1. OwnSide[1] = BridgeProtocol[1]
    BY <1>2 DEF PinAccepted, OwnSide
  <2>2. ASSUME NEW v \in Common(info)
        PROVE  FALSE
    <3>1. v \in Versions
      BY ConstantTypes DEF Common, Versions
    <3>2. v[1] = BridgeProtocol[1] /\ IsVersion(EngineSide) /\ v[1] = EngineSide[1]
      BY <3>1, EngineSideIs
    <3> QED
      BY <1>2, <2>1, <3>2 DEF Compatible
  <2> QED
    BY <2>2
<1> QED
  BY <1>1, <1>2

-----------------------------------------------------------------------------
\* The steps

\* The first state.
LEMMA InitHolds == ProtocolInit => PInv
<1> SUFFICES ASSUME ProtocolInit
             PROVE  PInv
  OBVIOUS
<1>1. digest.at = "idle" /\ attempt = "none" /\ digest.known = {}
      /\ digest \in [at : {"idle", "fetched", "done"}, known : SUBSET RouteMinors]
  BY DEF ProtocolInit, NoDigest
<1>2. Types
  BY <1>1, ConstantTypes DEF ProtocolInit, Types, ProtocolTypeOK
<1> QED
  BY <1>1, <1>2 DEF PInv, Settled, Refused, Digested

\* Every step keeps the invariant.
LEMMA StepHolds ==
  ASSUME PInv, [ProtocolNext]_protocolVars
  PROVE  PInv'
<1> USE DEF PInv
<1>1. CASE Attach
  <2>1. /\ met' = info /\ pin' = pin /\ info' = info /\ digest' = digest
        /\ attaches' = attaches + 1 /\ attaches < MaxAttaches
        /\ during' = during \cup {effective'}
        /\ effective = NoVersion
        /\ info \in Infos /\ pin \in Pins \cup {NoVersion}
    BY <1>1 DEF Attach, Types, ProtocolTypeOK
  <2>2. Common(met)' = Common(info)
    BY <2>1 DEF Common
  <2>3. CASE PinAccepted /\ Compatible
    <3>1. effective' = Negotiated /\ attempt' = "attached"
      BY <1>1, <2>3 DEF Attach
    <3>2. Negotiated \in Common(info) /\ Negotiated \in Versions
          /\ \A v \in Common(info) : v[2] <= Negotiated[2]
      BY <2>1, <2>3, NegotiatedIsHighest
    <3>3. Types'
      BY <2>1, <3>1, <3>2, ConstantTypes DEF Types, ProtocolTypeOK, Versions
    <3>4. Settled' /\ Refused'
      BY <2>2, <3>1, <3>2 DEF Settled, Refused
    <3>5. Digested'
      BY <2>1 DEF Digested
    <3> QED
      BY <3>3, <3>4, <3>5
  <2>4. CASE ~(PinAccepted /\ Compatible)
    <3>1. effective' = effective /\ attempt' = "refused"
      BY <1>1, <2>4 DEF Attach
    <3>2. Types'
      BY <2>1, <3>1, ConstantTypes DEF Types, ProtocolTypeOK
    <3>3. Settled' /\ Refused'
      BY <2>1, <2>2, <2>4, <3>1, RefusedForAReason DEF Settled, Refused
    <3>4. Digested'
      BY <2>1 DEF Digested
    <3> QED
      BY <3>2, <3>3, <3>4
  <2> QED
    BY <2>3, <2>4
<1>2. CASE Detach
  <2>1. Types'
    BY <1>2 DEF Detach, Types, ProtocolTypeOK
  <2> QED
    BY <1>2, <2>1 DEF Detach, Settled, Refused, Digested
<1>3. CASE EngineChanges
  <2>1. Types'
    BY <1>3 DEF EngineChanges, Types, ProtocolTypeOK
  <2>2. Common(met)' = Common(met)
    BY <1>3 DEF EngineChanges, Common
  <2> QED
    BY <1>3, <2>1, <2>2 DEF EngineChanges, Settled, Refused, Digested
<1>4. CASE FetchRoutes
  <2>1. Types' /\ digest'.at = "fetched"
    BY <1>4 DEF FetchRoutes, Types, ProtocolTypeOK
  <2>2. Common(met)' = Common(met)
    BY <1>4 DEF FetchRoutes, Common
  <2> QED
    BY <1>4, <2>1, <2>2 DEF FetchRoutes, Settled, Refused, Digested
<1>5. CASE JudgeRoutes
  <2>1. Types' /\ digest'.at = "done"
    BY <1>5 DEF JudgeRoutes, Types, ProtocolTypeOK, KnownRoutes
  <2>2. Common(met)' = Common(met)
    BY <1>5 DEF JudgeRoutes, Common
  <2>3. Digested'
    <3>1. effective \in during /\ during' = during
          /\ digest'.known = {m \in RouteMinors :
                                m <= IF effective = NoVersion
                                     THEN BridgeProtocol[2] ELSE effective[2]}
      BY <1>5 DEF JudgeRoutes, Digested, KnownRoutes
    <3> QED
      BY <2>1, <3>1 DEF Digested
  <2> QED
    BY <1>5, <2>1, <2>2, <2>3 DEF JudgeRoutes, Settled, Refused
<1>6. CASE EndDigest
  <2>1. Types' /\ digest'.at = "idle"
    BY <1>6 DEF EndDigest, NoDigest, Types, ProtocolTypeOK
  <2>2. Common(met)' = Common(met)
    BY <1>6 DEF EndDigest, Common
  <2> QED
    BY <1>6, <2>1, <2>2 DEF EndDigest, Settled, Refused, Digested
<1>7. CASE UNCHANGED protocolVars
  <2>1. Common(met)' = Common(met)
    BY <1>7 DEF protocolVars, Common
  <2> QED
    BY <1>7, <2>1 DEF protocolVars, Types, ProtocolTypeOK, Settled, Refused,
       Digested
<1> QED
  BY <1>1, <1>2, <1>3, <1>4, <1>5, <1>6, <1>7 DEF ProtocolNext

-----------------------------------------------------------------------------
\* The theorems

\* PInv holds in every state.
THEOREM Invariance == ProtocolSpec => []PInv
<1>1. PInv /\ [ProtocolNext]_protocolVars => PInv'
  BY StepHolds
<1> QED
  BY <1>1, InitHolds, PTL DEF ProtocolSpec

\* The versions and the digest keep their types (protocol.py).
THEOREM TypeCorrect == ProtocolSpec => []ProtocolTypeOK
<1>1. PInv => ProtocolTypeOK
  BY DEF PInv, Types
<1> QED
  BY <1>1, Invariance, PTL

\* Whatever versions bridge, pin and engine have: an attach settles on the
\* highest they have in common and refuses only for a reason, and a digest
\* goes by a version in force while it was made (effective_version,
\* negotiate, _known_prefixes_for).
THEOREM HighestCommon == ProtocolSpec => []NegotiatesHighestCommon
<1>1. PInv => NegotiatesHighestCommon
  BY DEF PInv, Settled, Refused, Digested, NegotiatesHighestCommon
<1> QED
  BY <1>1, Invariance, PTL
=============================================================================
