------------------------------ MODULE ConfigStore ------------------------------
(***************************************************************************)
(* The configuration and its files: config.json, its backup, and the copy  *)
(* kept of a damaged one (powershift-core config.rs, src-tauri config.rs), *)
(* with the two threads of the UI process that read and write them, the    *)
(* window that edits what it was given (App.vue), and the agent, which     *)
(* only reads (runtime_reconcile.rs).                                      *)
(*                                                                         *)
(* The commands of the window run one at a time, on the main thread. The   *)
(* thread that synchronises the shell at start-up loads the configuration  *)
(* too, and no lock orders the two. Each access to a file is one step, and *)
(* the process may end between any two. A write replaces the file whole    *)
(* (atomic_file.rs), or fails and leaves it as it was.                     *)
(***************************************************************************)
EXTENDS Naturals

CONSTANTS
  ProfileLists,  \* values of AppConfig.profiles
  NoProfiles,    \* the empty list of profiles
  UserSettings,  \* the settings the user may ask for
  FirstSettings, \* the settings the files may hold at first
  Faults,        \* the failures the environment may cause
  MaxFaults,     \* bound on the failures of a behaviour
  MaxStarts,     \* bound on the starts of the UI process
  NoSettings

FaultKinds == {"read", "write", "wake", "damage", "upgrade"}

\* What a configuration says, as far as the agent acts on it.
Settings == [agent : BOOLEAN, automation : BOOLEAN, profiles : ProfileLists]

ASSUME ConfigAssumption ==
  /\ NoProfiles \in ProfileLists
  /\ UserSettings \cup FirstSettings \subseteq Settings
  /\ NoSettings \notin Settings
  /\ Faults \subseteq FaultKinds
  /\ {MaxFaults, MaxStarts} \subseteq Nat

\* AppConfig::default.
Defaults == [agent |-> TRUE, automation |-> TRUE, profiles |-> NoProfiles]

Threads == {"main", "startup"}

VARIABLES
  primary,  \* config.json
  backup,   \* config.json.bak
  corrupt,  \* config.json.corrupt
  notice,   \* config-recovery.notice exists
  running,  \* the UI process is up
  thread,   \* per thread of the UI process, where it stands and its locals
  shown,    \* currentConfig: what the window shows and edits
  agent,    \* the configuration of the agent, and whether it is reading again
  wake,     \* the agent has been told to read the configuration again
  kept,     \* history: the newest settings of the user that a file still holds
  evidence, \* history: a damaged file with no usable backup has yet to be replaced twice
  mishaps,  \* history: what went wrong
  faults,   \* failures so far
  starts    \* starts of the UI process so far

files   == <<primary, backup, corrupt, notice>>
process == <<running, thread, shown>>
reader  == <<agent, wake>>
history == <<kept, evidence, mishaps>>
vars    == <<files, process, reader, history, faults, starts>>

(***************************************************************************)
(* Files                                                                   *)
(***************************************************************************)

\* A file that can be loaded was written by this version or by an older one.
\* A future one is well formed and has a version this program does not know.
File ==
  [form : {"current", "legacy"}, settings : Settings]
    \cup [form : {"missing", "damaged", "future", "unreadable"}, settings : {NoSettings}]

Contents(form) == [form |-> form, settings |-> NoSettings]

Saved(s) == [form |-> "current", settings |-> s]

\* Mutant of Loadable: the version is not checked against the present one.
LoadableWhateverVersion(f) == f.form \in {"current", "legacy", "future"}

\* ConfigStore::load accepts the file; migration keeps what Settings tells apart.
Loadable(f) == f.form \in {"current", "legacy"}

\* config_uses_future_schema.
Future(f) == f.form = "future"

\* should_persist_loaded_config: a version that cannot be read counts as 0.
Outdated(f) == f.form \in {"legacy", "damaged"}

(***************************************************************************)
(* Threads                                                                 *)
(***************************************************************************)

Steps ==
  {"idle", "exists", "schema", "load", "fallback", "rewrite", "schemas", "backupSchema",
   "unquarantine", "quarantine", "preserve", "backup", "replace", "notice", "reread", "wake"}

Idle == [at |-> "idle", job |-> "load", next |-> NoSettings, loaded |-> NoSettings,
         saving |-> NoSettings, image |-> Contents("missing"), then |-> "saved"]

Thread ==
  [at : Steps,
   job : {"load", "save"},                      \* the command, once the load is over
   next : Settings \cup {NoSettings},           \* what the command is to save
   loaded : Settings \cup {NoSettings},         \* what the load found
   saving : Settings \cup {NoSettings},         \* what ConfigStore::save was given
   image : File,                                \* what preserve_valid_config_backup read
   then : {"created", "recovered", "migrated", "saved"}]  \* who called ConfigStore::save

\* Type invariant.
TypeOK ==
  /\ {primary, backup, corrupt} \subseteq File
  /\ {notice, running, wake, evidence} \subseteq BOOLEAN
  /\ thread \in [Threads -> Thread]
  /\ shown \in Settings \cup {NoSettings}
  /\ agent \in [settings : Settings, at : {"idle", "load", "fallback"}, starting : BOOLEAN]
  /\ kept \in Settings \cup {NoSettings}
  /\ mishaps \subseteq {"misread", "rewrite", "overlap", "late", "failed", "blind", "unwoken"}
  /\ faults \in 0..MaxFaults
  /\ starts \in 0..MaxStarts

Strikes(kind) == kind \in Faults /\ faults < MaxFaults

\* What reading a file of contents f gives: its contents, or a passing error.
Reads(f, got) ==
  \/ got = f /\ UNCHANGED <<faults, mishaps>>
  \/ /\ Strikes("read")
     /\ got = Contents("unreadable")
     /\ faults' = faults + 1
     /\ mishaps' = mishaps \cup {"misread"}

At(t, step) == running /\ thread[t].at = step

Goto(t, step) == thread' = [thread EXCEPT ![t].at = step]

\* ConfigStore::save is called with the settings s.
CallSave(t, s, then) ==
  thread' = [thread EXCEPT ![t].at = "preserve", ![t].saving = s, ![t].loaded = s, ![t].then = then]

\* load_or_create_config returns what it found, or an error (NoSettings). A
\* command that saves goes on with the save, whatever the load returned.
Return(t, found) ==
  IF thread[t].job = "save"
  THEN /\ thread' = [thread EXCEPT ![t].at = "preserve", ![t].loaded = found,
                                   ![t].saving = thread[t].next, ![t].then = "saved"]
       /\ UNCHANGED shown
  ELSE /\ thread' = [thread EXCEPT ![t] = Idle]
       /\ shown' = IF t = "main" THEN found ELSE shown

(***************************************************************************)
(* load_or_create_config                                                   *)
(***************************************************************************)

\* path.exists(): a missing file is created with the defaults, whatever the
\* backup holds.
Exists(t) ==
  /\ At(t, "exists")
  /\ IF primary.form = "missing"
     THEN CallSave(t, Defaults, "created")
     ELSE Goto(t, "schema")
  /\ UNCHANGED <<files, running, shown, reader, history, faults, starts>>

\* config_uses_future_schema(&path): an error, and nothing is touched.
Schema(t) ==
  /\ At(t, "schema")
  /\ \E got \in File :
       /\ Reads(primary, got)
       /\ IF Future(got)
          THEN Return(t, NoSettings)
          ELSE Goto(t, "load") /\ UNCHANGED shown
  /\ UNCHANGED <<files, running, reader, kept, evidence, starts>>

\* ConfigStore::load_recovering, its first load.
LoadPrimary(t) ==
  /\ At(t, "load")
  /\ \E got \in File :
       /\ Reads(primary, got)
       /\ thread' = IF Loadable(got)
                    THEN [thread EXCEPT ![t].at = "reread", ![t].loaded = got.settings]
                    ELSE [thread EXCEPT ![t].at = "fallback"]
  /\ UNCHANGED <<files, running, shown, reader, kept, evidence, starts>>

\* Mutant of LoadBackup: only the primary file counts.
LoadNoBackup(t) ==
  /\ At(t, "fallback")
  /\ Goto(t, "schemas")
  /\ UNCHANGED <<files, running, shown, reader, history, faults, starts>>

\* ConfigStore::load_recovering, the load of the backup.
LoadBackup(t) ==
  /\ At(t, "fallback")
  /\ \E got \in File :
       /\ Reads(backup, got)
       /\ thread' = IF Loadable(got)
                    THEN [thread EXCEPT ![t].at = "rewrite", ![t].loaded = got.settings]
                    ELSE [thread EXCEPT ![t].at = "schemas"]
  /\ UNCHANGED <<files, running, shown, reader, kept, evidence, starts>>

\* ... and the write that puts it back. If that fails, the error is taken for
\* that of an unreadable configuration.
Rewrite(t) ==
  /\ At(t, "rewrite")
  /\ \/ /\ primary' = Saved(thread[t].loaded)
        /\ Goto(t, "reread")
        /\ mishaps' = mishaps \cup {"unwoken"}
        /\ UNCHANGED faults
     \/ /\ Strikes("write")
        /\ faults' = faults + 1
        /\ mishaps' = mishaps \cup {"rewrite"}
        /\ thread' = [thread EXCEPT ![t].at = "schemas", ![t].loaded = NoSettings]
        /\ UNCHANGED primary
  /\ UNCHANGED <<backup, corrupt, notice, running, shown, reader, kept, evidence, starts>>

\* recover_unreadable_config looks at both files for a future schema.
Schemas(t) ==
  /\ At(t, "schemas")
  /\ \E got \in File :
       /\ Reads(primary, got)
       /\ IF Future(got)
          THEN Return(t, NoSettings)
          ELSE Goto(t, "backupSchema") /\ UNCHANGED shown
  /\ UNCHANGED <<files, running, reader, kept, evidence, starts>>

\* Mutant of BackupSchema: the defaults are written over the damaged file.
RecoverInPlace(t) ==
  /\ At(t, "backupSchema")
  /\ CallSave(t, Defaults, "recovered")
  /\ UNCHANGED <<files, running, shown, reader, history, faults, starts>>

BackupSchema(t) ==
  /\ At(t, "backupSchema")
  /\ \E got \in File :
       /\ Reads(backup, got)
       /\ IF Future(got)
          THEN Return(t, NoSettings)
          ELSE Goto(t, "unquarantine") /\ UNCHANGED shown
  /\ UNCHANGED <<files, running, reader, kept, evidence, starts>>

\* quarantine_corrupt_config: the older copy is removed first,
Unquarantine(t) ==
  /\ At(t, "unquarantine")
  /\ \/ corrupt' = Contents("missing") /\ Goto(t, "quarantine") /\ UNCHANGED <<shown, faults>>
     \/ /\ Strikes("write")
        /\ faults' = faults + 1
        /\ Return(t, NoSettings)
        /\ UNCHANGED corrupt
  /\ UNCHANGED <<primary, backup, notice, running, reader, history, starts>>

\* then the file is renamed, if it is still there.
Quarantine(t) ==
  /\ At(t, "quarantine")
  /\ \/ /\ primary.form # "missing"
        /\ corrupt' = primary
        /\ primary' = Contents("missing")
        /\ CallSave(t, Defaults, "recovered")
        /\ mishaps' = mishaps \cup {"unwoken"}
        /\ UNCHANGED <<shown, faults>>
     \/ /\ primary.form = "missing"
        /\ Return(t, NoSettings)
        /\ UNCHANGED <<primary, corrupt, mishaps, faults>>
     \/ /\ Strikes("write")
        /\ faults' = faults + 1
        /\ Return(t, NoSettings)
        /\ UNCHANGED <<primary, corrupt, mishaps>>
  /\ UNCHANGED <<backup, notice, running, reader, kept, evidence, starts>>

\* write_config_recovery_notice, whose failure goes unreported.
WriteNotice(t) ==
  /\ At(t, "notice")
  /\ \/ notice' = TRUE /\ UNCHANGED faults
     \/ Strikes("write") /\ faults' = faults + 1 /\ UNCHANGED notice
  /\ Goto(t, "reread")
  /\ UNCHANGED <<primary, backup, corrupt, running, shown, reader, history, starts>>

\* The file is read again for its version, and saved if that is older.
Reread(t) ==
  /\ At(t, "reread")
  /\ \E got \in File :
       /\ Reads(primary, got)
       /\ CASE got.form \in {"missing", "unreadable"} -> Return(t, NoSettings)
            [] Outdated(got) -> CallSave(t, thread[t].loaded, "migrated") /\ UNCHANGED shown
            [] OTHER -> Return(t, thread[t].loaded)
  /\ UNCHANGED <<files, running, reader, kept, evidence, starts>>

(***************************************************************************)
(* ConfigStore::save                                                       *)
(***************************************************************************)

\* preserve_valid_config_backup: the current file is kept if it can be loaded.
Preserve(t) ==
  /\ At(t, "preserve")
  /\ \E got \in File :
       /\ Reads(primary, got)
       /\ thread' = IF Loadable(got)
                    THEN [thread EXCEPT ![t].at = "backup", ![t].image = got]
                    ELSE [thread EXCEPT ![t].at = "replace"]
  /\ UNCHANGED <<files, running, shown, reader, kept, evidence, starts>>

\* Mutant of SaveFails: the window goes on with what it asked for.
SaveFailsUnseen(t) ==
  /\ Strikes("write")
  /\ faults' = faults + 1
  /\ thread' = [thread EXCEPT ![t] = Idle]
  /\ shown' = IF t = "main" THEN thread[t].saving ELSE shown
  /\ UNCHANGED mishaps

\* The save fails: so does the load that asked for it, and the command fails if
\* it was its own.
SaveFails(t) ==
  /\ Strikes("write")
  /\ faults' = faults + 1
  /\ IF thread[t].then = "saved"
     THEN /\ thread' = [thread EXCEPT ![t] = Idle]
          /\ mishaps' = mishaps \cup {"failed"}
          /\ UNCHANGED shown
     ELSE Return(t, NoSettings) /\ UNCHANGED mishaps

WriteBackup(t) ==
  /\ At(t, "backup")
  /\ \/ /\ backup' = thread[t].image
        /\ thread' = [thread EXCEPT ![t].at = "replace", ![t].image = Idle.image]
        /\ UNCHANGED <<shown, mishaps, faults>>
     \/ SaveFails(t) /\ UNCHANGED backup
  /\ UNCHANGED <<primary, corrupt, notice, running, reader, kept, evidence, starts>>

\* write_file_atomically(path): the new configuration takes effect.
Replaced(t) ==
  /\ primary' = Saved(thread[t].saving)
  /\ kept' = IF thread[t].then = "saved" THEN thread[t].saving ELSE kept
  /\ mishaps' = IF thread[t].then # "saved" /\ Loadable(primary) /\ primary.settings # thread[t].saving
                THEN mishaps \cup {"unwoken"} ELSE mishaps
  /\ CASE thread[t].then = "saved"     -> Goto(t, "wake") /\ UNCHANGED shown
       [] thread[t].then = "recovered" -> Goto(t, "notice") /\ UNCHANGED shown
       [] OTHER                        -> Return(t, thread[t].saving)
  /\ UNCHANGED faults

Replace(t) ==
  /\ At(t, "replace")
  /\ \/ Replaced(t)
     \/ SaveFails(t) /\ UNCHANGED <<primary, kept>>
  /\ UNCHANGED <<backup, corrupt, notice, running, reader, evidence, starts>>

(***************************************************************************)
(* Commands of the window, and the life of the UI process                  *)
(***************************************************************************)

\* Mutant of RequestsRescan: only the two switches are compared.
RequestsRescanOnSwitch(previous, next) ==
  previous = NoSettings \/ previous.agent # next.agent \/ previous.automation # next.automation

\* should_request_agent_rescan.
RequestsRescan(previous, next) ==
  IF previous = NoSettings
  THEN next.agent /\ next.automation
  ELSE \/ previous.agent # next.agent
       \/ previous.automation # next.automation
       \/ next.agent /\ next.automation /\ previous.profiles # next.profiles

\* The end of save_app_config: the agent is told, if the change concerns it.
\* A failure to tell it is a warning: the command succeeds.
Wake(t) ==
  /\ At(t, "wake")
  /\ IF RequestsRescan(thread[t].loaded, thread[t].next)
     THEN \/ wake' = TRUE /\ UNCHANGED <<mishaps, faults>>
          \/ /\ Strikes("wake")
             /\ faults' = faults + 1
             /\ mishaps' = mishaps \cup {"unwoken"}
             /\ UNCHANGED wake
     ELSE /\ mishaps' = IF thread[t].loaded = NoSettings THEN mishaps \cup {"blind"} ELSE mishaps
          /\ UNCHANGED <<wake, faults>>
  /\ shown' = thread[t].next
  /\ thread' = [thread EXCEPT ![t] = Idle]
  /\ UNCHANGED <<files, running, agent, kept, evidence, starts>>

\* A command of the window starts by loading the configuration.
Command(job, next, mishap) ==
  /\ At("main", "idle")
  /\ thread' = [thread EXCEPT !["main"] = [Idle EXCEPT !.at = "exists", !.job = job, !.next = next]]
  /\ mishaps' = IF thread["startup"].at = "idle" THEN mishaps ELSE mishaps \cup {mishap}
  /\ UNCHANGED <<files, running, shown, reader, kept, evidence, faults, starts>>

\* refreshConfig, and every command of a window that has no configuration yet.
GetAppConfig == shown = NoSettings /\ Command("load", NoSettings, "overlap")

\* save_app_config, with an edited copy of the configuration the window shows.
SaveAppConfig == \E s \in UserSettings : shown # NoSettings /\ Command("save", s, "late")

\* take_config_recovery_warning, once the window has its configuration.
TakeNotice ==
  /\ At("main", "idle") /\ shown # NoSettings
  /\ notice /\ notice' = FALSE
  /\ UNCHANGED <<primary, backup, corrupt, process, reader, history, faults, starts>>

\* The setup of the UI process spawns the thread that synchronises the shell.
Start ==
  /\ ~running /\ starts < MaxStarts
  /\ running' = TRUE
  /\ starts' = starts + 1
  /\ thread' = [thread EXCEPT !["startup"].at = "exists"]
  /\ UNCHANGED <<files, shown, reader, history, faults>>

\* The window is closed, or the process dies: nothing waits for either thread.
\* The last process that MaxStarts allows stays.
Stop ==
  /\ running /\ starts < MaxStarts
  /\ running' = FALSE
  /\ thread' = [t \in Threads |-> Idle]
  /\ shown' = NoSettings
  /\ mishaps' = IF \E t \in Threads : thread[t].at = "wake" THEN mishaps \cup {"unwoken"} ELSE mishaps
  /\ UNCHANGED <<files, reader, kept, evidence, faults, starts>>

(***************************************************************************)
(* The agent                                                               *)
(***************************************************************************)

\* The settings an agent acts on.
Effect(s) == IF s.agent /\ s.automation THEN s.profiles ELSE NoProfiles

\* The wake-up, or a request over the pipe, reaches the main loop.
AgentReads ==
  /\ wake /\ agent.at = "idle"
  /\ wake' = FALSE
  /\ agent' = [agent EXCEPT !.at = "load"]
  /\ UNCHANGED <<files, process, history, faults, starts>>

\* The agent ends, and the next one begins; an event that was set goes with it.
AgentRestarts ==
  /\ wake' = FALSE
  /\ agent' = [settings |-> Defaults, at |-> "load", starting |-> TRUE]
  /\ UNCHANGED <<files, process, history, faults, starts>>

AgentHas(s) == agent' = [settings |-> s, at |-> "idle", starting |-> FALSE]

\* load_agent_config: a missing file means the defaults.
AgentLoads ==
  /\ agent.at = "load"
  /\ \E got \in File :
       \/ /\ Loadable(got) \/ got.form = "missing"
          /\ got = primary
          /\ AgentHas(IF Loadable(got) THEN got.settings ELSE Defaults)
          /\ mishaps' = mishaps \ {"blind", "unwoken"}
          /\ UNCHANGED faults
       \/ /\ ~Loadable(got) /\ got.form # "missing"
          /\ Reads(primary, got)
          /\ agent' = [agent EXCEPT !.at = "fallback"]
  /\ UNCHANGED <<files, process, wake, kept, evidence, starts>>

\* ConfigStore::load_with_backup. An agent that can load neither file keeps what
\* it has, which at its start is the defaults.
AgentFallsBack ==
  /\ agent.at = "fallback"
  /\ \E got \in File :
       /\ Reads(backup, got)
       /\ AgentHas(IF Loadable(got) THEN got.settings ELSE agent.settings)
  /\ UNCHANGED <<files, process, wake, kept, evidence, starts>>

(***************************************************************************)
(* What happens to the files while no window is open                       *)
(***************************************************************************)

\* The newest settings that files p and b still hold for the user. The last save is lost with
\* the primary file, both with both.
Held(p, b) ==
  IF kept \in {p.settings, b.settings} THEN kept
  ELSE IF Loadable(p) THEN p.settings ELSE b.settings

Spoilt(f) == IF Loadable(f) THEN Contents("damaged") ELSE f

\* One file is damaged, or both.
Damage ==
  /\ ~running /\ Strikes("damage")
  /\ faults' = faults + 1
  /\ primary' \in {primary, Spoilt(primary)}
  /\ backup' \in {backup, Spoilt(backup)}
  /\ kept' = Held(primary', backup')
  /\ evidence' = (primary'.form = "damaged" /\ ~Loadable(backup'))
  /\ UNCHANGED <<corrupt, notice, process, reader, mishaps, starts>>

\* A newer version of the program saves its configuration, once or twice, and is
\* replaced by this one again.
Upgrade ==
  /\ ~running /\ Strikes("upgrade")
  /\ faults' = faults + 1
  /\ primary' = Contents("future")
  /\ backup' \in {Contents("future"), IF Loadable(primary) THEN primary ELSE backup}
  /\ kept' = Held(primary', backup')
  /\ evidence' = FALSE
  /\ UNCHANGED <<corrupt, notice, process, reader, mishaps, starts>>

(***************************************************************************)
(* Specification                                                           *)
(***************************************************************************)

\* A first start, or the files an earlier or the present version left.
Init ==
  /\ \/ primary = Contents("missing")
     \/ \E s \in FirstSettings : primary \in {Saved(s), [form |-> "legacy", settings |-> s]}
  /\ kept = primary.settings
  /\ \/ backup = Contents("missing")
     \/ Loadable(primary) /\ backup = Saved(Defaults)
  /\ corrupt = Contents("missing")
  /\ notice = FALSE
  /\ running = FALSE
  /\ thread = [t \in Threads |-> Idle]
  /\ shown = NoSettings
  /\ agent = [settings |-> IF Loadable(primary) THEN primary.settings ELSE Defaults,
              at |-> "idle", starting |-> FALSE]
  /\ wake = FALSE
  /\ evidence = FALSE
  /\ mishaps = {}
  /\ faults = 0
  /\ starts = 0

LoadOrCreate(t) ==
  \/ Exists(t) \/ Schema(t) \/ LoadPrimary(t) \/ LoadBackup(t) \/ Rewrite(t)
  \/ Schemas(t) \/ BackupSchema(t) \/ Unquarantine(t) \/ Quarantine(t)
  \/ WriteNotice(t) \/ Reread(t)

Save(t) == Preserve(t) \/ WriteBackup(t) \/ Replace(t) \/ Wake(t)

Agent == AgentReads \/ AgentRestarts \/ AgentLoads \/ AgentFallsBack

Next ==
  \/ \E t \in Threads : LoadOrCreate(t) \/ Save(t)
  \/ GetAppConfig \/ SaveAppConfig \/ TakeNotice
  \/ Start \/ Stop
  \/ Agent
  \/ Damage \/ Upgrade

Spec == Init /\ [][Next]_vars

(***************************************************************************)
(* Properties. The mishaps each one excepts are those the code has no      *)
(* answer to.                                                              *)
(***************************************************************************)

Spared(kinds) == mishaps \cap kinds = {}

\* What a load finds: the primary file, or else its backup.
Newest == IF Loadable(primary) THEN primary.settings ELSE backup.settings

\* The newest settings of the user that the files hold are what a load finds, at every moment:
\* no failed write, no end of the process and no load, recovery or migration replaces them by
\* older ones or the defaults. What damage to the primary file takes away is the last save and
\* no more (the test at src-tauri/src/config.rs:350 gets the first of two back), because every
\* save has put what it replaces into the backup. What was in neither file is gone. Excepted: a
\* load or save that a passing read error misled, a recovery whose write failed, and a save
\* that overtook the load at start-up.
SavedSettingsSurvive ==
  /\ [](Spared({"misread", "rewrite", "late"}) /\ kept # NoSettings => Newest = kept)
  /\ [][ running /\ kept' # kept /\ Loadable(primary) /\ Spared({"misread", "late"}) =>
           backup.settings = primary.settings ]_vars

\* A file that the program cannot load is never lost. A damaged configuration with no usable
\* backup is kept for diagnosis, in its place or as the quarantined copy, wherever its
\* recovery fails or the process ends. A file of a future version is not written over by a
\* load, its recovery or migration, or a save; nor is its backup as long as the program can
\* load nothing else. Excepted: a passing read error, and for the damaged file two threads
\* that recover it at the same time.
UnloadableFilesKept ==
  [][ /\ evidence' /\ mishaps' \cap {"misread", "overlap"} = {} =>
           \E f \in {primary', corrupt'} : f.form = "damaged"
      /\ running /\ "misread" \notin mishaps' =>
           /\ Future(primary) => UNCHANGED primary
           /\ Future(backup) /\ ~Loadable(primary) /\ primary.form # "missing" =>
                UNCHANGED backup ]_vars

\* While no command runs, the configuration the window shows, and the next edit
\* starts from, is the one on disk.
\* Excepted: a save that fails after a passing read error has misled its load, and
\* commands that overtook the load at start-up.
ScreenMatchesDisk ==
  /\ running /\ thread["main"].at = "idle" /\ shown # NoSettings
  /\ Spared({"overlap", "late"}) /\ ~({"misread", "failed"} \subseteq mishaps)
  => Loadable(primary) /\ primary.settings = shown

\* Once the UI has finished and the agent has read what it was told to read, the
\* agent acts on the configuration on disk. Excepted: a change of the file that no
\* wake-up followed (a recovery at load time, an end of the process before the
\* wake-up, a wake-up that failed), until the agent reads again; a save whose
\* previous configuration could not be loaded; a read error; a late start-up load.
AgentInStep ==
  /\ \A t \in Threads : thread[t].at = "idle"
  /\ agent.at = "idle" /\ ~wake /\ Loadable(primary)
  /\ Spared({"misread", "late", "blind", "unwoken"})
  => Effect(agent.settings) = Effect(primary.settings)

=============================================================================
