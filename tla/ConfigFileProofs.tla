-------------------------- MODULE ConfigFileProofs --------------------------
(***************************************************************************)
(* Proofs about ConfigFile, for any number of threads and processes that   *)
(* save, any changes they are asked for, anything a human saves, and kills *)
(* and power failures at any step.                                         *)
(*                                                                         *)
(* HumanInv follows the protected settings: what a saver holds, at every   *)
(* step of a save, is what a human has chosen.  WholeInv is the order of   *)
(* _atomic_write(): nothing is renamed before it is synced.  RereadInv     *)
(* relates a save under way to the file it read, as long as no other save  *)
(* has replaced it.                                                        *)
(***************************************************************************)
EXTENDS ConfigFile, TLAPS

-----------------------------------------------------------------------------
\* The inductive invariant

\* Each saver has a record of a save.
SavesOK ==
  /\ save = [s \in Savers |-> save[s]]
  /\ \A s \in Savers : save[s].seen \in Nat /\ save[s].synced \in BOOLEAN

HumanChosen(settings) ==
  \A key \in DOMAIN settings \cap Protected :
    <<key, settings[key]>> \in byHuman

\* At every step of a save what it may write is chosen by a human.
HumanInv ==
  /\ HumanChosen(file.settings)
  /\ file.form = "none" => file.settings = <<>>
  /\ bridge \in {"down", "full"} \cup {m \in Modes : <<"mode", m>> \in byHuman}
  /\ \A s \in Savers :
       /\ HumanChosen(save[s].changes)
       /\ HumanChosen(save[s].settings)

\* What is about to get the file's name is on the disk.
WholeInv ==
  /\ FileIsWhole
  /\ synced \/ file.form = "none"
  /\ \A s \in Savers : save[s].at = "replace" => save[s].synced

\* While no save came between, a save holds the file it read, changed.
RereadInv ==
  \A s \in Savers :
    /\ save[s].seen <= version
    /\ save[s].at \in {"write", "sync", "replace"} /\ save[s].seen = version =>
         save[s].settings = Changed(save[s].changes, file.settings)

IInv == ConfigFileTypeOK /\ SavesOK /\ HumanInv /\ WholeInv /\ RereadInv

-----------------------------------------------------------------------------
\* The operators

\* A document without changes is the document.
LEMMA ChangedByNothing == Changed(<<>>, <<>>) = <<>>
BY DEF Changed

\* What a human has chosen of a document and of the changes, the changed
\* document has.
LEMMA ChangedIsChosen ==
  ASSUME NEW changes, NEW settings, HumanChosen(changes), HumanChosen(settings)
  PROVE  HumanChosen(Changed(changes, settings))
BY DEF HumanChosen, Changed

-----------------------------------------------------------------------------
\* Every step preserves the invariant

\* Nothing is saved yet.
LEMMA InvInit == ConfigFileInit => IInv
<1> SUFFICES ASSUME ConfigFileInit
             PROVE  IInv
  OBVIOUS
<1>1. /\ file = NoFile /\ synced = TRUE /\ bridge = "down" /\ saves = 0
      /\ version = 0 /\ \A s \in Savers : save[s] = NoSave
  BY DEF ConfigFileInit
<1>2. ConfigFileTypeOK
  <2>1. saves \in 0..MaxSaves
    BY <1>1, ConfigFileAssumption
  <2> QED
    BY <1>1, <2>1 DEF ConfigFileTypeOK, NoFile, File, NoSave
<1>3. SavesOK
  BY <1>1 DEF ConfigFileInit, SavesOK, NoSave
<1>4. HumanInv
  BY <1>1 DEF HumanInv, HumanChosen, NoFile, File, NoSave
<1>5. WholeInv
  BY <1>1 DEF WholeInv, FileIsWhole, NoFile, File, NoSave
<1>6. RereadInv
  BY <1>1 DEF RereadInv, NoSave
<1> QED
  BY <1>2, <1>3, <1>4, <1>5, <1>6 DEF IInv

\* A saver that begins, and the others.
LEMMA BeginType ==
  ASSUME IInv, NEW s \in Savers, NEW at, NEW changes, BeginSave(s, at, changes)
  PROVE  /\ saves' \in 0..MaxSaves
         /\ save' = [u \in Savers |-> save'[u]]
         /\ DOMAIN save'[s] = DOMAIN NoSave
         /\ save'[s].at = at /\ save'[s].changes = changes
         /\ save'[s].settings = <<>> /\ save'[s].synced = FALSE
         /\ save'[s].seen = version
         /\ \A u \in Savers : u # s => save'[u] = save[u]
<1>1. saves' \in 0..MaxSaves
  BY ConfigFileAssumption DEF IInv, ConfigFileTypeOK, BeginSave
<1> DEFINE begun == [NoSave EXCEPT !.at = at, !.changes = changes,
                                   !.seen = version]
<1>2. /\ DOMAIN begun = DOMAIN NoSave
      /\ begun.at = at /\ begun.changes = changes
      /\ begun.settings = <<>> /\ begun.synced = FALSE
      /\ begun.seen = version
  BY DEF NoSave
<1>3. save' = [save EXCEPT ![s] = begun]
  BY DEF BeginSave
<1> HIDE DEF begun
<1>4. save'[s] = begun /\ \A u \in Savers : u # s => save'[u] = save[u]
  BY <1>3 DEF IInv, SavesOK
<1>5. save' = [u \in Savers |-> save'[u]]
  BY <1>3 DEF IInv, SavesOK
<1> QED
  BY <1>1, <1>2, <1>4, <1>5

\* The types.
LEMMA TypeStep ==
  ASSUME IInv, [ConfigFileNext]_configVars
  PROVE  ConfigFileTypeOK' /\ SavesOK'
<1> USE DEF IInv, ConfigFileTypeOK, SavesOK, NoSave
<1>1. MaxSaves \in Nat
  BY ConfigFileAssumption
<1>2. CASE StartBridge
  <2>1. bridge' \in Modes \cup {"down"}
    BY <1>2 DEF StartBridge, HumanInv, Loadable, Valid, Modes
  <2> QED
    BY <1>2, <2>1 DEF StartBridge
<1>3. CASE StopBridge
  BY <1>3 DEF StopBridge
<1>4. CASE PowerFails
  BY <1>4 DEF PowerFails, File
<1>5. ASSUME NEW f \in HumanFiles, HumanSaves(f)
      PROVE  ConfigFileTypeOK' /\ SavesOK'
  BY <1>1, <1>5, ConfigFileAssumption DEF HumanSaves
<1>6. ASSUME NEW s \in Savers, NEW changes,
             ToolUpdate(s, changes) \/ CliUpdate(s, changes)
      PROVE  ConfigFileTypeOK' /\ SavesOK'
  <2>1. BeginSave(s, "read", changes) /\ UNCHANGED <<file, synced, bridge, version>>
    BY <1>6 DEF ToolUpdate, CliUpdate
  <2>2. /\ saves' \in 0..MaxSaves /\ save' = [u \in Savers |-> save'[u]]
        /\ DOMAIN save'[s] = DOMAIN NoSave
        /\ save'[s].at = "read" /\ save'[s].synced = FALSE
        /\ save'[s].seen = version
        /\ \A u \in Savers : u # s => save'[u] = save[u]
    BY <2>1, BeginType
  <2>3. \A u \in Savers :
          /\ DOMAIN save'[u] = DOMAIN NoSave
          /\ save'[u].at \in {"idle", "read", "write", "sync", "replace"}
          /\ save'[u].seen \in Nat /\ save'[u].synced \in BOOLEAN
    BY ZenonT(60), <2>2
  <2> QED
    BY <2>1, <2>2, <2>3
<1>7. ASSUME NEW s \in Savers, WriteTemplate(s)
      PROVE  ConfigFileTypeOK' /\ SavesOK'
  <2>1. BeginSave(s, "write", <<>>) /\ UNCHANGED <<file, synced, bridge, version>>
    BY <1>7 DEF WriteTemplate
  <2>2. /\ saves' \in 0..MaxSaves /\ save' = [u \in Savers |-> save'[u]]
        /\ DOMAIN save'[s] = DOMAIN NoSave
        /\ save'[s].at = "write" /\ save'[s].synced = FALSE
        /\ save'[s].seen = version
        /\ \A u \in Savers : u # s => save'[u] = save[u]
    BY <2>1, BeginType
  <2>3. \A u \in Savers :
          /\ DOMAIN save'[u] = DOMAIN NoSave
          /\ save'[u].at \in {"idle", "read", "write", "sync", "replace"}
          /\ save'[u].seen \in Nat /\ save'[u].synced \in BOOLEAN
    BY ZenonT(60), <2>2
  <2> QED
    BY <2>1, <2>2, <2>3
<1>8. ASSUME NEW s \in Savers, Read(s)
      PROVE  ConfigFileTypeOK' /\ SavesOK'
  BY <1>8 DEF Read
<1>9. ASSUME NEW s \in Savers, WriteTemp(s) \/ SyncTemp(s) \/ SaveFails(s)
      PROVE  ConfigFileTypeOK' /\ SavesOK'
  <2>1. CASE WriteTemp(s)
    BY <2>1 DEF WriteTemp
  <2>2. CASE SyncTemp(s)
    BY <2>2 DEF SyncTemp
  <2>3. CASE SaveFails(s)
    BY <2>3 DEF SaveFails
  <2> QED
    BY <1>9, <2>1, <2>2, <2>3
<1>10. ASSUME NEW s \in Savers, Replace(s)
       PROVE  ConfigFileTypeOK' /\ SavesOK'
  <2>1. /\ synced' = save[s].synced /\ version' = version + 1
        /\ file'.form = "toml" /\ save' = [save EXCEPT ![s] = NoSave]
        /\ UNCHANGED <<bridge, saves>>
    BY <1>10 DEF Replace, Toml, File
  <2>2. \A u \in Savers :
          /\ DOMAIN save'[u] = DOMAIN NoSave
          /\ save'[u].at \in {"idle", "read", "write", "sync", "replace"}
          /\ save'[u].seen \in Nat /\ save'[u].synced \in BOOLEAN
    BY <2>1
  <2>3. save' = [u \in Savers |-> save'[u]]
    <3> HIDE DEF NoSave
    <3>1. save = [u \in Savers |-> save[u]]
      OBVIOUS
    <3> QED
      BY ONLY <2>1, <3>1
  <2>4. version' \in Nat
    BY <2>1
  <2> QED
    BY <2>1, <2>2, <2>3, <2>4
<1>11. CASE UNCHANGED configVars
  BY <1>11 DEF configVars
<1> QED
  BY <1>2, <1>3, <1>4, <1>5, <1>6, <1>7, <1>8, <1>9, <1>10, <1>11
     DEF ConfigFileNext

\* Protected settings come from humans.
LEMMA HumanStep ==
  ASSUME IInv, [ConfigFileNext]_configVars
  PROVE  HumanInv'
<1> USE DEF IInv, ConfigFileTypeOK, SavesOK, HumanInv, NoSave
<1>1. CASE StartBridge
  <2>1. /\ HumanChosen(file.settings)' /\ (file.form = "none" => file.settings = <<>>)'
        /\ \A s \in Savers : (HumanChosen(save[s].changes) /\ HumanChosen(save[s].settings))'
    BY <1>1 DEF StartBridge, HumanChosen
  <2>2. bridge' \in {"down", "full"} \cup {m \in Modes : <<"mode", m>> \in byHuman}
    <3>1. CASE "mode" \in DOMAIN file.settings
      <4>1. "mode" \in Protected /\ bridge' = file.settings["mode"]
        BY <1>1, <3>1 DEF StartBridge, Protected
      <4>2. bridge' \in Modes
        BY <1>1, <3>1, <4>1 DEF StartBridge, Loadable, Valid
      <4>3. <<"mode", bridge'>> \in byHuman
        BY <3>1, <4>1 DEF HumanChosen
      <4> QED
        BY <4>2, <4>3
    <3>2. CASE "mode" \notin DOMAIN file.settings
      BY <1>1, <3>2 DEF StartBridge
    <3> QED
      BY <3>1, <3>2
  <2>3. byHuman' = byHuman
    BY <1>1 DEF StartBridge
  <2> QED
    BY <2>1, <2>2, <2>3
<1>2. CASE StopBridge
  BY <1>2 DEF StopBridge, HumanChosen
<1>3. CASE PowerFails
  BY <1>3 DEF PowerFails, File, HumanChosen
<1>4. ASSUME NEW f \in HumanFiles, HumanSaves(f)
      PROVE  HumanInv'
  BY <1>4, ConfigFileAssumption DEF HumanSaves, HumanChosen, Chosen
<1>5. ASSUME NEW s \in Savers, NEW changes,
             ToolUpdate(s, changes) \/ CliUpdate(s, changes)
      PROVE  HumanInv'
  <2>1. /\ save' = [save EXCEPT ![s] = [NoSave EXCEPT !.at = "read",
                                                     !.changes = changes,
                                                     !.seen = version]]
        /\ byHuman \subseteq byHuman' /\ UNCHANGED <<file, bridge>>
    BY <1>5 DEF ToolUpdate, CliUpdate, BeginSave
  <2>2. HumanChosen(changes)'
    BY <1>5 DEF ToolUpdate, CliUpdate, Accepted, HumanChosen, Chosen
  <2>3. \A u \in Savers : \/ save'[u] = save[u]
                          \/ save'[u].changes = changes /\ save'[u].settings = <<>>
    BY <2>1
  <2>4. \A u \in Savers : (HumanChosen(save[u].changes) /\ HumanChosen(save[u].settings))'
    BY <2>1, <2>2, <2>3 DEF HumanChosen
  <2> QED
    BY <2>1, <2>4 DEF HumanChosen
<1>6. ASSUME NEW s \in Savers, WriteTemplate(s)
      PROVE  HumanInv'
  BY <1>6 DEF WriteTemplate, BeginSave, HumanChosen
<1>7. ASSUME NEW s \in Savers, Read(s)
      PROVE  HumanInv'
  <2>1. UNCHANGED <<file, bridge, byHuman>>
    BY <1>7 DEF Read
  <2>2. HumanChosen(Changed(save[s].changes, file.settings))
    BY ChangedIsChosen
  <2>3. \A u \in Savers :
          \/ save'[u] = save[u]
          \/ save'[u] = NoSave
          \/ /\ save'[u].changes = save[u].changes
             /\ save'[u].settings = Changed(save[s].changes, file.settings)
    BY <1>7 DEF Read
  <2>4. \A u \in Savers : HumanChosen(save'[u].changes) /\ HumanChosen(save'[u].settings)
    BY <2>2, <2>3 DEF HumanChosen
  <2> QED
    BY <2>1, <2>4 DEF HumanChosen
<1>8. ASSUME NEW s \in Savers, WriteTemp(s) \/ SyncTemp(s) \/ SaveFails(s)
      PROVE  HumanInv'
  BY SMTT(30), <1>8 DEF WriteTemp, SyncTemp, SaveFails, HumanChosen
<1>9. ASSUME NEW s \in Savers, Replace(s)
      PROVE  HumanInv'
  BY <1>9 DEF Replace, Toml, File, HumanChosen
<1>10. CASE UNCHANGED configVars
  BY <1>10 DEF configVars, HumanChosen
<1> QED
  BY <1>1, <1>2, <1>3, <1>4, <1>5, <1>6, <1>7, <1>8, <1>9, <1>10
     DEF ConfigFileNext

\* The order of _atomic_write().
LEMMA WholeStep ==
  ASSUME IInv, [ConfigFileNext]_configVars
  PROVE  WholeInv'
<1> USE DEF IInv, ConfigFileTypeOK, SavesOK, WholeInv, FileIsWhole, NoSave
<1>1. CASE StartBridge \/ StopBridge \/ PowerFails
  BY <1>1 DEF StartBridge, StopBridge, PowerFails
<1>2. ASSUME NEW f \in HumanFiles, HumanSaves(f)
      PROVE  WholeInv'
  BY <1>2, ConfigFileAssumption DEF HumanSaves
<1>3. ASSUME NEW s \in Savers, NEW changes,
             ToolUpdate(s, changes) \/ CliUpdate(s, changes) \/ WriteTemplate(s)
      PROVE  WholeInv'
  BY ZenonT(60), <1>3 DEF ToolUpdate, CliUpdate, WriteTemplate, BeginSave
<1>4. ASSUME NEW s \in Savers,
             Read(s) \/ WriteTemp(s) \/ SyncTemp(s) \/ SaveFails(s)
      PROVE  WholeInv'
  <2>1. UNCHANGED <<file, synced>>
    BY <1>4 DEF Read, WriteTemp, SyncTemp, SaveFails
  <2>2. \A u \in Savers : save'[u].at = "replace" => save'[u].synced
    <3>1. CASE Read(s)
      BY <3>1 DEF Read
    <3>2. CASE WriteTemp(s)
      BY <3>2 DEF WriteTemp
    <3>3. CASE SyncTemp(s)
      BY <3>3 DEF SyncTemp
    <3>4. CASE SaveFails(s)
      BY <3>4 DEF SaveFails
    <3> QED
      BY <1>4, <3>1, <3>2, <3>3, <3>4
  <2> QED
    BY <2>1, <2>2
<1>5. ASSUME NEW s \in Savers, Replace(s)
      PROVE  WholeInv'
  BY <1>5 DEF Replace, Toml, File
<1>6. CASE UNCHANGED configVars
  BY <1>6 DEF configVars
<1> QED
  BY <1>1, <1>2, <1>3, <1>4, <1>5, <1>6 DEF ConfigFileNext

\* A save and the file it read.
LEMMA RereadStep ==
  ASSUME IInv, [ConfigFileNext]_configVars
  PROVE  RereadInv'
<1> USE DEF IInv, ConfigFileTypeOK, SavesOK, RereadInv, NoSave
<1>1. CASE StartBridge \/ StopBridge \/ PowerFails
  BY <1>1 DEF StartBridge, StopBridge, PowerFails
<1>2. ASSUME NEW f \in HumanFiles, HumanSaves(f)
      PROVE  RereadInv'
  BY <1>2 DEF HumanSaves
<1>3. ASSUME NEW s \in Savers, NEW changes,
             ToolUpdate(s, changes) \/ CliUpdate(s, changes)
      PROVE  RereadInv'
  <2>1. BeginSave(s, "read", changes) /\ UNCHANGED <<file, version>>
    BY <1>3 DEF ToolUpdate, CliUpdate
  <2>2. /\ save'[s].at = "read" /\ save'[s].seen = version
        /\ \A u \in Savers : u # s => save'[u] = save[u]
    BY <2>1, BeginType
  <2> QED
    BY <2>1, <2>2
<1>4. ASSUME NEW s \in Savers, WriteTemplate(s)
      PROVE  RereadInv'
  BY <1>4, ChangedByNothing DEF WriteTemplate, BeginSave, HumanInv
<1>5. ASSUME NEW s \in Savers, Read(s)
      PROVE  RereadInv'
  BY <1>5 DEF Read
<1>6. ASSUME NEW s \in Savers, WriteTemp(s) \/ SyncTemp(s) \/ SaveFails(s)
      PROVE  RereadInv'
  BY <1>6 DEF WriteTemp, SyncTemp, SaveFails
<1>7. ASSUME NEW s \in Savers, Replace(s)
      PROVE  RereadInv'
  BY <1>7 DEF Replace
<1>8. CASE UNCHANGED configVars
  BY <1>8 DEF configVars
<1> QED
  BY <1>1, <1>2, <1>3, <1>4, <1>5, <1>6, <1>7, <1>8 DEF ConfigFileNext

-----------------------------------------------------------------------------
\* The theorems

\* The inductive invariant holds in every state.
THEOREM Invariance == ConfigFileSpec => []IInv
<1>1. ConfigFileInit => IInv
  BY InvInit
<1>2. IInv /\ [ConfigFileNext]_configVars => IInv'
  BY TypeStep, HumanStep, WholeStep, RereadStep DEF IInv
<1> QED
  BY <1>1, <1>2, PTL DEF ConfigFileSpec

\* The types are right whatever is saved.
THEOREM TypeCorrect == ConfigFileSpec => []ConfigFileTypeOK
<1>1. IInv => ConfigFileTypeOK
  BY DEF IInv
<1> QED
  BY <1>1, Invariance, PTL

\* No sequence of updates by tools, however they race with each other, with a
\* human's editor, with restarts and with power failures, gives a protected
\* setting, or the bridge a mode, that no human has chosen.
THEOREM ProtectedStayHuman == ConfigFileSpec => []ProtectedAreHuman
<1>1. IInv => ProtectedAreHuman
  BY DEF IInv, HumanInv, HumanChosen, ProtectedAreHuman
<1> QED
  BY <1>1, Invariance, PTL

\* Nothing is ever half written under the file's name.
THEOREM FileStaysWhole == ConfigFileSpec => []FileIsWhole
<1>1. IInv => FileIsWhole
  BY DEF IInv, WholeInv
<1> QED
  BY <1>1, Invariance, PTL

\* A save that no other overtook changes what it was asked to and nothing else.
THEOREM OthersAreKept == ConfigFileSpec => RewriteKeepsOthers
<1>1. ASSUME IInv, [ConfigFileNext]_configVars
      PROVE  [\A s \in Savers :
                save[s].at = "replace" /\ version' # version
                  /\ save'[s].at = "idle" =>
                  \/ save[s].seen # version
                  \/ file'.settings = Changed(save[s].changes, file.settings)
             ]_configVars
  <2> SUFFICES ASSUME NEW s \in Savers, save[s].at = "replace",
                      version' # version, save'[s].at = "idle",
                      save[s].seen = version
               PROVE  file'.settings = Changed(save[s].changes, file.settings)
    OBVIOUS
  <2>1. save = [u \in Savers |-> save[u]] /\ version \in Nat
    BY <1>1 DEF IInv, SavesOK, ConfigFileTypeOK
  <2>2. ~ \E f \in HumanFiles : HumanSaves(f)
    BY DEF HumanSaves
  <2>3. ~(StartBridge \/ StopBridge \/ PowerFails \/ UNCHANGED configVars)
    BY DEF StartBridge, StopBridge, PowerFails, configVars
  <2>4. PICK u \in Savers : Replace(u)
    BY <1>1, <2>2, <2>3
       DEF ConfigFileNext, ToolUpdate, CliUpdate, WriteTemplate, Read,
           WriteTemp, SyncTemp, SaveFails
  <2>5. u = s
    BY <2>1, <2>4 DEF Replace
  <2>6. file'.settings = save[s].settings
    BY <2>4, <2>5 DEF Replace, Toml, File
  <2> QED
    BY <1>1, <2>6 DEF IInv, RereadInv
<1> QED
  BY <1>1, Invariance, PTL DEF ConfigFileSpec, RewriteKeepsOthers
=============================================================================
