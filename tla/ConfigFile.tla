---------------------------- MODULE ConfigFile ----------------------------
(***************************************************************************)
(* The configuration file (config.py): the bridge loads it when it starts; *)
(* bridge_setup, the setup command and its --init rewrite it (read,        *)
(* change, write a temporary file, replace) while a human may save it from *)
(* an editor, and any of them may be killed on the way.                    *)
(*                                                                         *)
(* Abstraction.  A file is the settings in it; comments and layout are     *)
(* left out, and "bad" stands for every value that a key's check rejects.  *)
(* A human's save is one step and reaches the disk.                        *)
(***************************************************************************)
EXTENDS FiniteSets, ToolCatalog

CONSTANTS
  ToolThreads,   \* worker threads of the bridge that run bridge_setup
  CliProcesses,  \* processes that run the setup command
  ToolChanges,   \* what bridge_setup is asked to change
  CliChanges,    \* what the setup command is asked to change
  HumanFiles,    \* what a human saves
  MaxSaves       \* bound: saves begun in a behaviour

Keys == {"binary", "port", "headless", "mute", "protocol", "mode",
         "token_file", "mount_allowed_bases", "mount_allowed_image_roots",
         "webserver_require_auth"}

Protected == {"binary", "mode", "mount_allowed_bases",
              "mount_allowed_image_roots", "webserver_require_auth"}

Valid(key, value) == IF key = "mode" THEN value \in Modes ELSE value # "bad"

\* The forms a file can have: parsed as TOML, anything else a human saved,
\* or what a power failure leaves of a file that was never synced.
File(form, settings) == [form |-> form, settings |-> settings]
Toml(settings)       == File("toml", settings)
NoFile               == File("none", <<>>)

Savers == ToolThreads \cup CliProcesses

ASSUME ConfigFileAssumption ==
  /\ ToolThreads \cap CliProcesses = {}
  /\ \A f \in HumanFiles : f.form \in {"toml", "malformed"}
  /\ MaxSaves \in Nat

VARIABLES
  file,      \* the file under its name
  synced,    \* its content has reached the disk
  bridge,    \* the mode the running bridge serves, or "down"
  save,      \* what a saver is at
  saves,     \* saves begun, the human's among them
  byHuman,   \* history: settings a human or the command line has chosen
  version    \* history: how often the file was replaced

configVars == <<file, synced, bridge, save, saves, byHuman, version>>

NoSave == [at |-> "idle", changes |-> <<>>, settings |-> <<>>,
           synced |-> FALSE, seen |-> 0]

ConfigFileTypeOK ==
  /\ file.form \in {"none", "toml", "malformed", "torn"}
  /\ synced \in BOOLEAN
  /\ bridge \in Modes \cup {"down"}
  /\ \A s \in Savers :
       /\ DOMAIN save[s] = DOMAIN NoSave
       /\ save[s].at \in {"idle", "read", "write", "sync", "replace"}
  /\ saves \in 0..MaxSaves
  /\ version \in Nat

-----------------------------------------------------------------------------
\* Config.load()

Loadable ==
  \/ file.form = "none"
  \/ /\ file.form = "toml"
     /\ DOMAIN file.settings \subseteq Keys
     /\ \A key \in DOMAIN file.settings : Valid(key, file.settings[key])

\* The bridge starts, or refuses to on a file that does not load.
StartBridge ==
  /\ bridge = "down" /\ Loadable
  /\ bridge' = IF "mode" \in DOMAIN file.settings
               THEN file.settings["mode"] ELSE "full"
  /\ UNCHANGED <<file, synced, save, saves, byHuman, version>>

-----------------------------------------------------------------------------
\* update_config_file()

\* Mutant of Accepted: the model-side boundary is not enforced.
AcceptedFromAnyone(changes, toolFacing) ==
  /\ DOMAIN changes \subseteq Keys
  /\ \A key \in DOMAIN changes : Valid(key, changes[key])

\* What is refused before the file is looked at.
Accepted(changes, toolFacing) ==
  /\ DOMAIN changes \subseteq Keys
  /\ toolFacing => DOMAIN changes \cap Protected = {}
  /\ \A key \in DOMAIN changes : Valid(key, changes[key])

Chosen(settings) == {<<key, settings[key]>> : key \in DOMAIN settings}

BeginSave(s, at, changes) ==
  /\ save[s].at = "idle"
  /\ saves < MaxSaves /\ saves' = saves + 1
  /\ save' = [save EXCEPT ![s] = [NoSave EXCEPT !.at = at,
                                                !.changes = changes,
                                                !.seen = version]]

\* bridge_setup, in a mode that has it.
ToolUpdate(s, changes) ==
  /\ s \in ToolThreads
  /\ bridge # "down"
  /\ LET setup == BridgeTools.bridge_setup
     IN  ModeAllows(bridge, setup.risk, setup.interactOk)
  /\ Accepted(changes, TRUE)
  /\ BeginSave(s, "read", changes)
  /\ UNCHANGED <<file, synced, bridge, byHuman, version>>

\* setup with options.
CliUpdate(s, changes) ==
  /\ s \in CliProcesses
  /\ Accepted(changes, FALSE)
  /\ BeginSave(s, "read", changes)
  /\ byHuman' = byHuman \cup Chosen(changes)
  /\ UNCHANGED <<file, synced, bridge, version>>

\* setup --init refuses if there is a file: the template sets nothing.
WriteTemplate(s) ==
  /\ s \in CliProcesses
  /\ file.form = "none"
  /\ BeginSave(s, "write", <<>>)
  /\ UNCHANGED <<file, synced, bridge, byHuman, version>>

\* A document with the changes made in it.
Changed(changes, settings) ==
  [key \in DOMAIN changes \cup DOMAIN settings |->
     IF key \in DOMAIN changes THEN changes[key] ELSE settings[key]]

\* Mutant of Read: a document is begun anew.
ReadNothing(s) ==
  /\ save[s].at = "read"
  /\ save' = [save EXCEPT ![s].at = "write", ![s].seen = version,
                          ![s].settings = save[s].changes]
  /\ UNCHANGED <<file, synced, bridge, saves, byHuman, version>>

\* The file is read, parsed and changed; its other settings are kept
\* without a look at them.  What is no TOML ends the update.
Read(s) ==
  /\ save[s].at = "read"
  /\ save' = IF file.form \in {"none", "toml"}
             THEN [save EXCEPT ![s].at = "write", ![s].seen = version,
                               ![s].settings =
                                  Changed(save[s].changes, file.settings)]
             ELSE [save EXCEPT ![s] = NoSave]
  /\ UNCHANGED <<file, synced, bridge, saves, byHuman, version>>

\* _atomic_write(): a temporary file of its own beside the file.
WriteTemp(s) ==
  /\ save[s].at = "write"
  /\ save' = [save EXCEPT ![s].at = "sync", ![s].synced = FALSE]
  /\ UNCHANGED <<file, synced, bridge, saves, byHuman, version>>

\* Mutant of SyncTemp: flushed, and not synced.
SyncTempOnlyFlushes(s) ==
  /\ save[s].at = "sync"
  /\ save' = [save EXCEPT ![s].at = "replace"]
  /\ UNCHANGED <<file, synced, bridge, saves, byHuman, version>>

SyncTemp(s) ==
  /\ save[s].at = "sync"
  /\ save' = [save EXCEPT ![s].at = "replace", ![s].synced = TRUE]
  /\ UNCHANGED <<file, synced, bridge, saves, byHuman, version>>

Replace(s) ==
  /\ save[s].at = "replace"
  /\ file' = Toml(save[s].settings)
  /\ synced' = save[s].synced
  /\ version' = version + 1
  /\ save' = [save EXCEPT ![s] = NoSave]
  /\ UNCHANGED <<bridge, saves, byHuman>>

\* An error on the way: a full disk, no permission.
SaveFails(s) ==
  /\ save[s].at # "idle"
  /\ save' = [save EXCEPT ![s] = NoSave]
  /\ UNCHANGED <<file, synced, bridge, saves, byHuman, version>>

-----------------------------------------------------------------------------
\* The surroundings

HumanSaves(f) ==
  /\ saves < MaxSaves /\ saves' = saves + 1
  /\ file' = f /\ synced' = TRUE
  /\ version' = version + 1
  /\ byHuman' = byHuman \cup Chosen(f.settings)
  /\ UNCHANGED <<bridge, save>>

\* The bridge ends, with the worker threads in it.
StopBridge ==
  /\ bridge # "down"
  /\ bridge' = "down"
  /\ save' = [s \in Savers |-> IF s \in ToolThreads THEN NoSave ELSE save[s]]
  /\ UNCHANGED <<file, synced, saves, byHuman, version>>

\* The power fails: nothing runs any more, and of what was not synced
\* anything may be left.
PowerFails ==
  /\ bridge' = "down"
  /\ save' = [s \in Savers |-> NoSave]
  /\ file' = IF synced \/ file.form = "none" THEN file
             ELSE File("torn", <<>>)
  /\ UNCHANGED <<synced, saves, byHuman, version>>

-----------------------------------------------------------------------------
\* The specification

ConfigFileInit ==
  /\ file = NoFile /\ synced = TRUE
  /\ bridge = "down"
  /\ save = [s \in Savers |-> NoSave]
  /\ saves = 0 /\ byHuman = {} /\ version = 0

ConfigFileNext ==
  \/ StartBridge \/ StopBridge \/ PowerFails
  \/ \E f \in HumanFiles : HumanSaves(f)
  \/ \E s \in Savers :
       \/ \E changes \in ToolChanges : ToolUpdate(s, changes)
       \/ \E changes \in CliChanges : CliUpdate(s, changes)
       \/ WriteTemplate(s) \/ Read(s) \/ WriteTemp(s) \/ SyncTemp(s)
       \/ Replace(s) \/ SaveFails(s)

ConfigFileSpec == ConfigFileInit /\ [][ConfigFileNext]_configVars

-----------------------------------------------------------------------------
\* Properties

\* What an agent may do is a human's choice: every protected setting in the
\* file, and the mode a bridge serves after any sequence of updates, races
\* and restarts, is one that a human or the command line has chosen, or the
\* default (_TOOL_PROTECTED_KEYS, update_config_file, Config.load).  That
\* it is the last one chosen does not hold: an update that read the file
\* before a human's save puts the old one back.
ProtectedAreHuman ==
  /\ \A key \in DOMAIN file.settings \cap Protected :
       <<key, file.settings[key]>> \in byHuman
  /\ bridge \in {"down", "full"} \cup {m \in Modes : <<"mode", m>> \in byHuman}

\* A rewrite leaves every setting it was not asked to change as it is at that
\* moment, unless another save came between its read and its replacing
\* the file (update_config_file, write_config_template).
RewriteKeepsOthers ==
  [][\A s \in Savers :
       save[s].at = "replace" /\ version' # version /\ save'[s].at = "idle" =>
         \/ save[s].seen # version
         \/ file'.settings = Changed(save[s].changes, file.settings)
  ]_configVars

\* Whoever reads the file finds all of what someone saved: no kill and no
\* power failure at any step of a save leaves a part of it (_atomic_write).
FileIsWhole == file.form # "torn"
=============================================================================
