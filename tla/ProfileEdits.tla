------------------------------ MODULE ProfileEdits ------------------------------
(***************************************************************************)
(* The edits of the window (App.vue): each computes a whole configuration  *)
(* from the copy the window holds (configApi.ts) and has it checked        *)
(* (validation.rs) and written. ConfigStore has the files; here a write    *)
(* succeeds or fails as a whole.                                           *)
(*                                                                         *)
(* Between two awaits a script of the window runs alone, and the main      *)
(* thread of the process serves the awaited calls in order. So a step is a *)
(* click, or one call with the script that goes on when it is answered.    *)
(* The window that starts reads the power plans first; it then saves the   *)
(* configuration by itself, with the priorities those plans ask for.       *)
(***************************************************************************)
EXTENDS Naturals, Sequences, FiniteSets, SequencesExt

CONSTANTS
  Apps,          \* executables to pick: [exe, name, slug, isExe]
  Processes,     \* names of processes to associate
  NewNames,      \* names the user may give a profile
  Catalogue,     \* the plans of this machine, in order: [id, level, said, preferred]
  FallbackPlans, \* what the editor offers when it could not list them
  Configs,       \* configurations a window may start with
  Editors,       \* the calls of edit handlers that may be under way
  MaxProfiles,   \* MAX_PROFILES
  MaxProcesses,  \* MAX_ASSOCIATED_PROCESSES_PER_PROFILE
  MaxEdits       \* bound on edits and searches of a behaviour

ASSUME ProfileEditsAssumption ==
  /\ Catalogue # <<>>
  /\ {MaxProfiles, MaxProcesses, MaxEdits} \subseteq Nat
  /\ "startup" \notin Editors /\ "detect" \notin Editors

\* A plan: what its name tells of its level, whether it needs no list to tell it, and
\* whether a new profile should have it. powercfg gives each an identifier.
Plan == [id : STRING \ {""}, level : {"max", "high", "balanced", "none"},
         said : BOOLEAN, preferred : BOOLEAN]

\* A slug, and the numbers at its end.
Id == [word : STRING, numbers : Seq(Nat)]

ASSUME InputsAssumption ==
  /\ Apps \subseteq [exe : STRING, name : STRING, slug : Id, isExe : BOOLEAN]
  /\ Processes \cup NewNames \subseteq STRING
  /\ Catalogue \in Seq(Plan) /\ FallbackPlans \subseteq Plan

VARIABLES
  disk,      \* the configuration in the files
  screen,    \* currentConfig, or nothing yet
  games,     \* the identifiers of the profiles the window lists
  catalogue, \* powerPlans
  busy,      \* powerLoading, which disables every button of an edit
  queue,     \* calls the main thread has yet to serve
  editor,    \* per call of a handler, where it stands and its locals
  startup,   \* where finishStartupRefresh stands, and what it saves
  quirks,    \* history: what excuses a property
  edits      \* edits, and searches for profiles, so far

window == <<screen, games, catalogue, busy>>
vars   == <<disk, window, queue, editor, startup, quirks, edits>>

Roles   == {"companion", "alternate_trigger"}
Process == [name : STRING, role : Roles]

\* What happens to the plan when the profile ends; the identifier of a plan may be missing.
Closes == {<<"previous_plan", "">>, <<"do_nothing", "">>} \cup ({"specific_plan"} \X STRING)

Profile == [id : Id, exe : STRING, name : STRING, isExe : BOOLEAN, plan : Plan,
            priority : 0..100, close : Closes, processes : Seq(Process)]

Config == [settings : BOOLEAN, profiles : Seq(Profile)]

NoConfig == [none |-> TRUE]
NoEdit   == [op |-> "none"]
Idle     == [at |-> "idle", edit |-> NoEdit, base |-> NoConfig, next |-> NoConfig]

Call(from, what) == [from |-> from, what |-> what]

\* Type invariant. A handler that waits has one call in the queue.
TypeOK ==
  /\ disk \in Config
  /\ screen \in Config \cup {NoConfig}
  /\ games \subseteq Id
  /\ catalogue \in {<<>>, Catalogue}
  /\ busy \in BOOLEAN
  /\ \A i \in DOMAIN queue :
       queue[i].what \in {"plans", "rest", "load", "save", "events"}
  /\ \A e \in Editors :
       /\ editor[e].at \in {"idle", "load", "save", "events"}
       /\ Cardinality({i \in DOMAIN queue : queue[i].from = e})
            = IF editor[e].at = "idle" THEN 0 ELSE 1
       /\ editor[e].at \in {"save", "events"} =>
            /\ editor[e].base \in Config
            /\ editor[e].next \in Config
  /\ startup.at \in {"plans", "rest", "save", "done"}
  /\ quirks \subseteq {"overlap", "unread", "unsaved"}
  /\ edits \in 0..MaxEdits

(***************************************************************************)
(* Plans and priorities                                                    *)
(***************************************************************************)

\* The level that the name of a listed plan tells; some identifiers say it, too.
Level(plan, plans) == IF plan.said \/ plan \in Range(plans) THEN plan.level ELSE "none"

Priority(plan, plans, fallback) ==
  CASE Level(plan, plans) = "max"      -> 90
    [] Level(plan, plans) = "high"     -> 70
    [] Level(plan, plans) = "balanced" -> 30
    [] Level(plan, plans) = "none"     -> fallback

\* The first plan of high performance, or else the first plan.
PreferredPlan(plans) ==
  LET first == SelectInSeq(plans, LAMBDA plan : plan.preferred)
  IN IF first = 0 THEN Head(plans) ELSE plans[first]

Normalized(config, plans) ==
  LET normal(profile) ==
        [profile EXCEPT !.priority = Priority(profile.plan, plans, profile.priority)]
  IN [config EXCEPT !.profiles = [i \in DOMAIN @ |-> normal(@[i])]]

(***************************************************************************)
(* Edits of a configuration                                                *)
(***************************************************************************)

\* The elements of a sequence at some of its indices, in order.
Keep(seq, indices) ==
  LET place(i) == Cardinality({j \in indices : j <= i})
  IN [n \in 1..Cardinality(indices) |-> seq[CHOOSE i \in indices : place(i) = n]]

Ids(config) == {config.profiles[i].id : i \in DOMAIN config.profiles}

\* Mutant of UniqueId: the suffix is the number of profiles, whoever has it already.
UniqueIdByCount(base, ids) ==
  IF base \notin ids THEN base
  ELSE [base EXCEPT !.numbers = Append(@, Cardinality(ids) + 1)]

\* A base that is taken gets the first suffix, from 2 on, that is free.
UniqueId(base, ids) ==
  IF base \notin ids THEN base
  ELSE LET With(n) == [base EXCEPT !.numbers = Append(@, n)]
           free == {n \in 2..(Cardinality(ids) + 2) : With(n) \notin ids}
       IN With(Min(free))

Created(app, ids, plans) ==
  LET plan == PreferredPlan(plans)
  IN [id |-> UniqueId(app.slug, ids), exe |-> app.exe, name |-> app.name, isExe |-> app.isExe,
      plan |-> plan, priority |-> Priority(plan, plans, 70),
      close |-> <<"previous_plan", "">>, processes |-> <<>>]

\* createProfileFromExecutable throws.
Refused(edit, plans) == edit.op = "add" /\ (~edit.app.isExe \/ plans = <<>>)

OnProfile(config, id, Change(_)) ==
  [config EXCEPT !.profiles =
     [i \in DOMAIN @ |-> IF @[i].id = id THEN Change(@[i]) ELSE @[i]]]

Names(profile) == {profile.processes[i].name : i \in DOMAIN profile.processes}

\* Mutant of WithPlan: the priority stays what it was.
WithPlanOnly(profile, plan, plans) == [profile EXCEPT !.plan = plan]

WithPlan(profile, plan, plans) ==
  [profile EXCEPT !.plan = plan,
                  !.priority = IF plan = profile.plan THEN @ ELSE Priority(plan, plans, @)]

\* A blank name changes nothing.
WithName(profile, name) == [profile EXCEPT !.name = IF name = "" THEN @ ELSE name]

Associated(profile, name) ==
  IF name = profile.exe \/ name \in Names(profile) THEN profile
  ELSE [profile EXCEPT !.processes = Append(@, [name |-> name, role |-> "companion"])]

Dissociated(profile, name) ==
  IF name = profile.exe THEN profile
  ELSE [profile EXCEPT !.processes = Keep(@, {i \in DOMAIN @ : @[i].name # name})]

WithRole(profile, name, role) ==
  [profile EXCEPT !.processes =
     [i \in DOMAIN @ |-> IF @[i].name = name THEN [@[i] EXCEPT !.role = role] ELSE @[i]]]

Edited(config, edit, plans) ==
  CASE edit.op = "settings"   -> [config EXCEPT !.settings = edit.value]
    [] edit.op = "add"        -> [config EXCEPT !.profiles =
                                    Append(@, Created(edit.app, Ids(config), plans))]
    [] edit.op = "remove"     -> [config EXCEPT !.profiles =
                                    Keep(@, {i \in DOMAIN @ : @[i].id # edit.id})]
    [] edit.op = "rename"     -> OnProfile(config, edit.id, LAMBDA p : WithName(p, edit.name))
    [] edit.op = "plan"       -> OnProfile(config, edit.id,
                                           LAMBDA p : WithPlan(p, edit.plan, plans))
    [] edit.op = "close"      -> OnProfile(config, edit.id,
                                           LAMBDA p : [p EXCEPT !.close = edit.close])
    [] edit.op = "associate"  -> OnProfile(config, edit.id, LAMBDA p : Associated(p, edit.name))
    [] edit.op = "dissociate" -> OnProfile(config, edit.id, LAMBDA p : Dissociated(p, edit.name))
    [] edit.op = "role"       -> OnProfile(config, edit.id,
                                           LAMBDA p : WithRole(p, edit.name, edit.role))

\* The edits that give back the configuration itself when they change nothing.
Checked == {"associate", "dissociate", "role"}

\* persistSelectedProfile: the edits that are undone on the screen when they fail.
Undone == {"rename", "plan", "close"}

(***************************************************************************)
(* validate_config                                                         *)
(***************************************************************************)

ProfileIssues(profile) ==
  {code \in {"EmptyProfileName", "InvalidExecutableName", "MissingRestorePowerPlan",
             "InvalidPriority", "TooManyAssociatedProcesses"} :
     \/ code = "EmptyProfileName"           /\ profile.name = ""
     \/ code = "InvalidExecutableName"      /\ ~profile.isExe
     \/ code = "MissingRestorePowerPlan"    /\ profile.close = <<"specific_plan", "">>
     \/ code = "InvalidPriority"            /\ profile.priority > 100
     \/ code = "TooManyAssociatedProcesses" /\ Len(profile.processes) > MaxProcesses}

Issues(config) ==
  (UNION {ProfileIssues(config.profiles[i]) : i \in DOMAIN config.profiles})
    \cup (IF Len(config.profiles) > MaxProfiles THEN {"TooManyProfiles"} ELSE {})
    \cup (IF Cardinality(Ids(config)) < Len(config.profiles) THEN {"DuplicateProfileId"} ELSE {})

\* A window starts with what ConfigStore::load has validated.
ASSUME ConfigsAssumption == \A config \in Configs : config \in Config /\ Issues(config) = {}

(***************************************************************************)
(* A handler, up to its save                                               *)
(***************************************************************************)

Become(e, at, edit, base, next) ==
  editor' = [editor EXCEPT ![e] = [at |-> at, edit |-> edit, base |-> base, next |-> next]]

\* The finally block.
Finish(e) ==
  /\ editor' = [editor EXCEPT ![e] = Idle]
  /\ busy' = FALSE

\* What the user may do to the profiles that are listed, and the profiles to add.
Offered ==
  LET listed == {i \in DOMAIN screen.profiles : screen.profiles[i].id \in games}
      names(id) == UNION {Names(screen.profiles[i]) :
                            i \in {j \in listed : screen.profiles[j].id = id}}
      options == IF catalogue = <<>> THEN FallbackPlans ELSE Range(catalogue)
      closes == {<<"previous_plan", "">>, <<"do_nothing", "">>}
                  \cup {<<"specific_plan", plan.id>> : plan \in options}
      value == screen # NoConfig /\ ~screen.settings
  IN [op : {"add"}, app : Apps]
       \cup {[op |-> "settings", value |-> value]}
       \cup [op : {"remove"}, id : games]
       \cup [op : {"rename"}, id : games, name : NewNames]
       \cup [op : {"plan"}, id : games, plan : options]
       \cup [op : {"close"}, id : games, close : closes]
       \cup [op : {"associate"}, id : games, name : Processes]
       \cup UNION {[op : {"dissociate"}, id : {id}, name : names(id)]
                     \cup [op : {"role"}, id : {id}, name : names(id), role : Roles] : id \in games}

\* Mutant of Compute: an edit that changes nothing returns without its finally block.
ComputeAndReturn(e, edit, config, calls) ==
  LET nothing == \/ Refused(edit, catalogue)
                 \/ edit.op \in Checked /\ Edited(config, edit, catalogue) = config
  IN /\ busy' = TRUE
     /\ \/ /\ ~nothing
           /\ Become(e, "save", edit, config, Edited(config, edit, catalogue))
           /\ queue' = Append(calls, Call(e, "save"))
        \/ /\ nothing
           /\ editor' = [editor EXCEPT ![e] = Idle]
           /\ queue' = calls

\* The configuration is known: the edit is computed, and its save is sent.
Compute(e, edit, config, calls) ==
  LET nothing == \/ Refused(edit, catalogue)
                 \/ edit.op \in Checked /\ Edited(config, edit, catalogue) = config
  IN \/ /\ ~nothing
        /\ Become(e, "save", edit, config, Edited(config, edit, catalogue))
        /\ queue' = Append(calls, Call(e, "save"))
        /\ busy' = TRUE
     \/ /\ nothing
        /\ Finish(e)
        /\ queue' = calls

\* Mutant of Edit: the buttons stay enabled.
EditAnyway(e) ==
  /\ editor[e].at = "idle"
  /\ edits < MaxEdits /\ edits' = edits + 1
  /\ quirks' = IF startup.at = "save" THEN quirks \cup {"overlap"} ELSE quirks
  /\ \E edit \in Offered :
       \/ screen # NoConfig /\ Compute(e, edit, screen, queue)
       \/ /\ screen = NoConfig
          /\ Become(e, "load", edit, NoConfig, NoConfig)
          /\ queue' = Append(queue, Call(e, "load"))
          /\ busy' = TRUE
  /\ UNCHANGED <<disk, screen, games, catalogue, startup>>

\* The user edits. A picker or a question that comes first blocks the window.
Edit(e) ==
  /\ ~busy /\ editor[e].at = "idle"
  /\ edits < MaxEdits /\ edits' = edits + 1
  /\ quirks' = IF startup.at = "save" THEN quirks \cup {"overlap"} ELSE quirks
  /\ \E edit \in Offered :
       \/ screen # NoConfig /\ Compute(e, edit, screen, queue)
       \/ /\ screen = NoConfig
          /\ Become(e, "load", edit, NoConfig, NoConfig)
          /\ queue' = Append(queue, Call(e, "load"))
          /\ busy' = TRUE
  /\ UNCHANGED <<disk, screen, games, catalogue, startup>>

\* autoDetectProfiles reads the configuration that the window lacks.
Detect ==
  /\ ~busy /\ screen = NoConfig
  /\ edits < MaxEdits /\ edits' = edits + 1
  /\ queue' = Append(queue, Call("detect", "load"))
  /\ UNCHANGED <<disk, window, editor, startup, quirks>>

(***************************************************************************)
(* The calls, each with what the script does next                          *)
(***************************************************************************)

Turn(from, what) == queue # <<>> /\ Head(queue) = Call(from, what)

Show(config) == screen' = config /\ games' = Ids(config)

\* getAppConfig.
Load(e) ==
  /\ Turn(e, "load")
  /\ \/ Compute(e, editor[e].edit, disk, Tail(queue))
     \/ Finish(e) /\ queue' = Tail(queue)
  /\ UNCHANGED <<disk, screen, games, catalogue, startup, quirks, edits>>

DetectLoad ==
  /\ Turn("detect", "load")
  /\ screen' \in {disk, screen}
  /\ queue' = Tail(queue)
  /\ UNCHANGED <<disk, games, catalogue, busy, editor, startup, quirks, edits>>

\* The save is refused, or the files cannot be written.
SaveFails(e) ==
  /\ Turn(e, "save")
  /\ queue' = Tail(queue)
  /\ IF editor[e].edit.op \in Undone THEN Show(editor[e].base) ELSE UNCHANGED <<screen, games>>
  /\ Finish(e)
  /\ UNCHANGED <<disk, catalogue, startup, quirks, edits>>

\* The saved configuration is what the window holds from now on.
Applied(e) ==
  /\ screen' = editor[e].next
  /\ games' = IF editor[e].edit.op = "settings" THEN games ELSE Ids(editor[e].next)
  /\ Finish(e)

\* Mutant of Save: a changed role sends a call that nobody waits for.
SaveAndRead(e) ==
  /\ Turn(e, "save") /\ Issues(editor[e].next) = {}
  /\ disk' = editor[e].next
  /\ \/ /\ editor[e].edit.op = "role"
        /\ Applied(e)
     \/ /\ editor[e].edit.op # "role"
        /\ editor' = [editor EXCEPT ![e].at = "events"]
        /\ UNCHANGED <<screen, games, busy>>
  /\ queue' = Append(Tail(queue), Call(e, "events"))
  /\ UNCHANGED <<catalogue, startup, quirks, edits>>

\* changeAssociatedProcessRole does not read the events again.
Save(e) ==
  /\ Turn(e, "save") /\ Issues(editor[e].next) = {}
  /\ disk' = editor[e].next
  /\ \/ /\ editor[e].edit.op = "role"
        /\ Applied(e)
        /\ queue' = Tail(queue)
     \/ /\ editor[e].edit.op # "role"
        /\ editor' = [editor EXCEPT ![e].at = "events"]
        /\ queue' = Append(Tail(queue), Call(e, "events"))
        /\ UNCHANGED <<screen, games, busy>>
  /\ UNCHANGED <<catalogue, startup, quirks, edits>>

\* refreshRecentEvents, which catches what fails.
Events(e) ==
  /\ Turn(e, "events")
  /\ queue' = Tail(queue)
  /\ Applied(e)
  /\ UNCHANGED <<disk, catalogue, startup, quirks, edits>>

\* refreshPowerState.
ReadPlans ==
  /\ Turn("startup", "plans")
  /\ queue' = Tail(queue)
  /\ catalogue' \in {<<>>, Catalogue}
  /\ busy' = FALSE
  /\ startup' = [startup EXCEPT !.at = "rest"]
  /\ UNCHANGED <<disk, screen, games, editor, quirks, edits>>

\* The rest of the start-up is read, and synchronizeCurrentProfilePriorities begins.
Synchronize ==
  /\ Turn("startup", "rest")
  /\ LET due == /\ screen # NoConfig /\ catalogue # <<>>
                /\ Normalized(screen, catalogue) # screen
     IN \/ /\ due
           /\ startup' = [at |-> "save", base |-> screen, next |-> Normalized(screen, catalogue)]
           /\ queue' = Append(Tail(queue), Call("startup", "save"))
           /\ quirks' = quirks \cup IF \E e \in Editors : editor[e].at # "idle"
                                    THEN {"overlap"} ELSE {}
        \/ /\ ~due
           /\ startup' = [startup EXCEPT !.at = "done"]
           /\ queue' = Tail(queue)
           /\ UNCHANGED quirks
  /\ UNCHANGED <<disk, window, editor, edits>>

SaveNormalized ==
  /\ Turn("startup", "save")
  /\ queue' = Tail(queue)
  /\ startup' = [startup EXCEPT !.at = "done"]
  /\ \/ /\ Issues(startup.next) = {}
        /\ disk' = startup.next
        /\ Show(startup.next)
        /\ UNCHANGED quirks
     \/ /\ quirks' = quirks \cup {"unsaved"}
        /\ UNCHANGED <<disk, screen, games>>
  /\ UNCHANGED <<catalogue, busy, editor, edits>>

(***************************************************************************)
(* Specification                                                           *)
(***************************************************************************)

\* refreshConfig is over, well or not, and finishStartupRefresh has begun. Nothing of the
\* window was visible before.
Init ==
  /\ disk \in Configs
  /\ \/ screen = disk /\ games = Ids(disk) /\ quirks = {}
     \/ screen = NoConfig /\ games = {} /\ quirks = {"unread"}
  /\ catalogue = <<>> /\ busy = TRUE
  /\ queue = <<Call("startup", "plans"), Call("startup", "rest")>>
  /\ editor = [e \in Editors |-> Idle]
  /\ startup = [at |-> "plans", base |-> NoConfig, next |-> NoConfig]
  /\ edits = 0

Serve ==
  \/ ReadPlans \/ Synchronize \/ SaveNormalized \/ DetectLoad
  \/ \E e \in Editors : Load(e) \/ Save(e) \/ SaveFails(e) \/ Events(e)

Next == Serve \/ Detect \/ \E e \in Editors : Edit(e)

\* The main thread serves what it is sent.
Spec == Init /\ [][Next]_vars /\ WF_vars(Serve)

(***************************************************************************)
(* Properties                                                              *)
(***************************************************************************)

\* What an edit makes of a valid configuration is valid, or is refused for a reason the user
\* can understand: too many profiles or processes, or an executable that leaves no name.
\* In particular the identifiers made up for new profiles are new, whatever was added,
\* removed and added again before (configApi.ts:523, validation.rs:71).
EditsStayValid ==
  /\ \A e \in Editors : editor[e].at \in {"save", "events"} =>
       Issues(editor[e].next) \subseteq
         {"TooManyProfiles", "TooManyAssociatedProcesses", "EmptyProfileName"}
  /\ startup.at = "save" => Issues(startup.next) = {}

\* Every save replaces the configuration that it was computed from, so that no edit undoes
\* another one behind the user's back. Only the save of the window's own start-up, when an
\* edit is under way with it, is none of this kind (App.vue:905).
NoEditIsLost ==
  [][ disk' # disk =>
        \/ \E e \in Editors : editor[e].base = disk /\ disk' = editor[e].next
        \/ startup.base = disk /\ disk' = startup.next
        \/ "overlap" \in quirks' ]_vars

\* Once the start-up has read the plans, the priority of a profile is the one that the level
\* of its plan asks for: through new profiles, changed plans and failing saves. The start-up's
\* own save may fail or overlap with an edit, or the window had nothing to begin with.
PriorityFollowsPlan ==
  startup.at = "done" /\ catalogue # <<>> /\ quirks = {} =>
    Normalized(disk, catalogue) = disk

\* The window always comes back to rest with its buttons enabled, and then holds and lists
\* what the files hold: after a save that was refused or failed as well. Excepted: an overlap
\* with the start-up's save, and the list of a window that could not read the files when it
\* opened.
WindowSettles ==
  <>[](/\ queue = <<>> /\ ~busy
       /\ \A e \in Editors : editor[e].at = "idle"
       /\ screen = disk \/ screen = NoConfig \/ "overlap" \in quirks
       /\ games = Ids(disk) \/ quirks \cap {"overlap", "unread"} # {})

=============================================================================
