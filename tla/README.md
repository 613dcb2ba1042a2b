# PowerShift: specifications, model checks and proofs

PowerShift is a Windows program that switches the power plan while configured
programs run and gives the previous plan back afterwards. An elevated *agent*
does the work; a *tray* and a configuration *UI* (Tauri and Vue) watch and
configure it. The modules here specify how the agent controls the plan, how it
knows what runs, and when it looks; how the configuration is edited and survives in
its files; what tray and UI see of it all; and how agent, tray, UI and installer
start and stop each other. TLC checks them on small instances, and TLAPS proves for
every instance all the safety properties that the passing runs check, among them that
power control implements an abstract protocol of borrowing a plan; what must eventually
happen is model-checked only. Paths below are relative to `src/`;
`crates/powershift-agent/src/` is written `agent/`.

## 1. The system

### Components

| Component | State it keeps | Operations | Made correct by |
|---|---|---|---|
| Power control engine (`agent/engine.rs`) | active profiles, winner, promoted profile, captured plan, pending restore | evaluate the registry: resolve, pick a winner, capture, record, apply; close: schedule, restore, settle | the captured plan is the user's; a plan the user picks is never overwritten; a restore happens once, on time |
| Power control lease (`agent/power_lease.rs`) | a JSON file and its copy in memory | open, record, clear, quarantine, recover at start-up, release | a crash at any point leaves a file from which control can be given back |
| Profile resolver (`powershift-core/resolver.rs`) | none | roles of processes to active profiles; order by priority | a companion extends a session but does not start one; equal priorities do not oscillate |
| Main loop (`agent/lib.rs`, `agent/runtime_reconcile.rs`) | configuration, all of the above and below | start, inspect, reconcile, receive, evaluate, shut down | each change is evaluated; no deadline is late |
| Process registry and exit waits (`agent/process_registry.rs`, `process_runtime.rs`) | tracked instances (PID and creation time), exit waits, instances without one | upsert, remove by instance, remove by PID, replace, synchronize | exactly the watched processes that run are tracked, however PIDs are reused |
| Process inspection (`powershift-windows/process.rs`) | none | list, inspect one PID, wait for an exit | external, may fail |
| WMI watchers (`powershift-windows/process_events.rs`) | two subscriptions and their back-off | subscribe, deliver, fail, retry | what is lost while one is down is made good; retries back off |
| Targeted inspections (`agent/scheduler.rs`) | attempts and deadline per PID | schedule, take due, reschedule, remove | a process that is not ready yet is not forgotten |
| Scan scheduler (`agent/scheduler.rs`), wake-up (`wake.rs`, `agent_control.rs`) | forced scan, time of the last public wake, degraded deadline | schedule, wake, synchronize, complete, next wait | no starvation, degraded scans go on, a saved configuration is read |
| Configuration store (`powershift-core/config.rs`, `atomic_file.rs`, `src-tauri/src/config.rs`) | primary file, backup, quarantined files | load with backup, save, recover, migrate | a crash leaves a loadable file; a newer schema is never overwritten |
| Configuration validation (`powershift-core/validation.rs`) | none | rules on one value | only valid configurations are loaded |
| Publisher and event log (`agent/publisher.rs`) | published state, last outcome, two event files | publish, coalesce, rotate, clear | readers see the last outcome; what was cleared stays cleared |
| Agent IPC (`agent/ipc.rs`, `named_pipe.rs`) | token file, one pipe instance, shared state | status, re-evaluate, promote, set start-up, clear events, shut down | no caller waits for ever, whoever else is connected or gone |
| Tray (`powershift-tray`) | notification cursor, menu | wait for events, notify, send commands | tooltip and cursor catch up with the agent; quitting ends what it should |
| UI back end (`src-tauri`) and front end (`App.vue`, `services/`) | the configuration being edited, the last snapshot of the agent | load, edit, save, refresh, wake, start, repair and stop the agent | edits are not lost, stay valid and reach the files; the view is not stale; the window comes back to rest |
| Installer hooks (`nsis/`), scheduled task | the task and its logon trigger | quit everything, release control, remove or register the task | an uninstall gives the plan back; the trigger follows the setting |
| `powercfg` and the native power API (`powercfg.rs`, `native.rs`) | Windows' active plan | list, read, set | external, may fail |
| Windows support (autostart, elevation, identity, icons, single instance) | none | one Windows call each | no protocol state |

### How they interact

All of the agent's decisions are taken by one thread, the main loop. It blocks
on one channel. Into it write the two WMI threads (starts, stops, health
reports), the thread-pool callbacks of exit waits, the wake thread (a named
auto-reset event) and the IPC thread (re-evaluate, promote, shut down). The UI
and the tray talk to the agent through the pipe, or only set the event; the UI
also replaces the configuration file, which the loop reads when it reconciles.
Before each blocking receive the loop computes a time-out from four deadlines:
the pending restore, a forced scan, the next degraded scan and the next targeted
inspection. The lease file is shared with the agent's next incarnation and with
the one-shot `--release-power-control` of the uninstaller.

Processes find each other through the pipe (one instance, one client at a time), two
named events (tray, quit; UI, exit) and the scheduled task, which starts the agent
elevated, at logon or on request. UI, tray and installer each stop the agent by a
request first, and by ending its task when the request fails.

### What is hard

* **Crashes.** The agent may be killed between any two calls; a machine may lose
  power while the lease is written. Recovery has only the file to go by.
* **Failing calls.** Reading or setting the plan, writing or removing the lease,
  listing or inspecting processes, subscribing to WMI: each can fail, and most
  failures end the current evaluation.
* **Order.** Starts and stops come over different subscriptions and exits over a
  third path, so they arrive in any order; a PID may be reused meanwhile.
* **Stale reads.** The user changes the plan during a close delay; a process dies
  between being listed and being inspected; a promotion is checked early and
  applied later.
* **Time.** Deadlines must neither slide under traffic nor fire twice.
* **Processes that stop each other.** Requests time out, a pipe server may be dead
  while its process lives, an event has no effect before its listener exists, and
  the installer removes files that others use.
* **Whole-value saves.** Each edit of the window writes a configuration computed from a
  copy; nothing but a busy flag keeps two of them apart.

The hazards, each with its line and the properties aimed at it, are listed in
`PROJECT.json`. A hazard without a property has a note saying why.

## 2. The modules

| Module | Role |
|---|---|
| `PowerControl` | engine, lease, resolver, and what the main loop does for them |
| `MCPowerControl` | its instances for TLC: configurations and observations |
| `PowerControlProofs` | inductive invariant and theorems |
| `PlanSession` | abstract specification: a plan is borrowed and given back |
| `PlanSessionProofs` | `PowerControl` implements `PlanSession` |
| `ProcessTracking` | watchers, registry, exit waits, inspections, snapshots |
| `MCProcessTracking` | its instances, symmetry of PIDs |
| `ProcessTrackingProofs` | ghosts, lost processes, evaluations and reused PIDs: invariant and theorems |
| `AgentScheduler` | deadlines, blocking receive, wake-ups, saves, back-off |
| `MCAgentScheduler` | its instances |
| `AgentSchedulerProofs` | deadlines and starvation |
| `ConfigStore` | configuration files, the commands of the window, the start-up thread, the agent as a reader |
| `MCConfigStore` | its instance, a bound on mishaps |
| `ConfigStoreProofs` | settings, evidence, window and agent |
| `Publishing` | published state, event log, signals, tray and window |
| `MCPublishing` | its instance, bounds on what is combined with what |
| `PublishingProofs` | cleared events and readers |
| `Lifecycle` | processes, pipe, token, task, named events, commands of the user, installer |
| `MCLifecycle` | its instance |
| `LifecycleProofs` | the plan of an uninstall, the logon trigger |
| `ProfileEdits` | the edits of the window, their saves, validation |
| `MCProfileEdits` | its instance: executables, plans, configurations |
| `ProfileEditsProofs` | operators on configurations, edits and their saves |

The components are composed by assumption. `PowerControl` takes *any* element
of `Observations` as the result of a snapshot or of a message: process tracking
may report anything. `ProcessTracking` records what an evaluation saw
(`evaluated`) and not what the evaluation did. `AgentScheduler` lets an
evaluation change the pending restore in every way `PowerControl` permits
(`Evaluated`). `Publishing` takes any outcome for an evaluation. `ConfigStore` has
the agent as a process that loads when it is woken; that a wake-up leads to a load
is what `SavedConfigIsRead` of `AgentScheduler` says. `ProfileEdits` takes a write of
the files as one step that succeeds or fails; `ConfigStore` has what is inside. In these
respects each module over-approximates the others.

`Lifecycle` does not: of power control it has what processes that end and start beside
each other can disturb, and less than `PowerControl`. Lease and plan are two steps there,
too (`Record`, `Apply`), with two managed plans, hand-overs, and calls that fail in
recovery, in control, at a restore, on the way out and in the installer. But all profiles
give back the previous plan; at most one call of `"power"` fails per event; a restore and
a release are one step each in the agent, and the plans the user picks are not managed
ones. Those cases are `PowerControl`'s. What the two modules say of the hand-over agrees:
the crash of the run `crashed_handover` is `torn` in `Lifecycle`, which adds that an
uninstall after it leaves PowerShift's plan in force as well.

### PowerControl

One step per call that leaves the process. An evaluation
(`evaluate_agent_processes_with_journal`) is the path `evaluate`, `record`,
`apply` when a profile is active, and `evaluate`, `restore`, `settle`, or
`evaluate`, `drop` when none is. What is computed between two calls belongs to
the step of the first. `pc` is the place of the main thread, `seen` the plan as the
current evaluation read it; the user may change `activePlan` at any moment. The
resolver is an operator (`ActiveAt`, `IsWinner`) on the roles that a profile's
tracked processes play. The lease file is `journal`, the copy in memory `lease`.
Start-up, recovery, shutdown, the release of the uninstaller, `Crash` at any
point and `CorruptLease` while the agent is off complete the life cycle. `Tick`
lets time pass: `pending.left` is the saturating difference the code compares.

Five history variables serve the properties only: `origin` (plan read when the
session began), `ours` (plan the agent put in force and has not given back),
`torn` (a change of managed plan is recorded but not yet applied), `stale` (a
failed call made a captured plan outlive its session) and `setBy` (whether the agent or
somebody else set the plan last).

What the model shows of the code and no property forbids: if the lease cannot be
written, the plan captured for it stays in memory, and the next session restores that
plan instead of the one active when it began (`engine.rs:96-116`); such sessions are
`stale` and exempt from `CapturedPlanIsOrigin`. And an evaluation that cannot read the
active plan returns before it looks at the profiles (`engine.rs:67`): after the last
exit the profile stays in control until something else happens. No document promises
otherwise, and `power_liveness` therefore has no failing reads.

### PlanSession

What the agent promises about the plan, in ten short actions: a session is recorded
before its plan is taken (`Begin`, `HandOver`, `Take`), it is ended only by somebody
who looked (`Look`, `Leave`), a plan is given back only after the managed one was seen
in force and is the one remembered or a configured one (`Return`), and the record goes
last (`End`). `Fail` is any failing call or crash, after which the session stays
recorded; if it was lost sight of, the next one may be written over it. The user may
pick any plan at any time (`UserPicks`), so the state says who set the plan in force
(`setBy`): a step in which the *agent* sets a plan can only be `Take`, for a session that
is recorded, or `Return`. `PowerControl` states `PlanIsBorrowed == Borrowed!Spec`, with
the lease *on the disk* as the session, so that what memory believes plays no part;
`setBy` changes with each call that sets a plan (`SetPlan`, `GiveBack`, `ForeignChange`),
`phase` is where the main thread is with respect to the plan, `lost` is `stale`. An agent
that sets the plan before it writes the lease is the mutant `TakePlanFirst`.

### ProcessTracking

The machine (`Spawn`, `Die`, the two subscriptions) moves between any two calls
of the agent. Creation times are the numbers of births, so that instances of a
reused PID differ. A snapshot is a listing followed by one inspection per listed
process; a pass ends with `Synchronize`, which opens the missing exit waits and
evaluates if the registry changed. Each inspection may find nothing while
`"inspect"` is among the faults. A PID is not reused while the agent holds its
last process, as Windows guarantees. Targeted inspections are due at any time
here. A flapping watcher has at most one report in its queue (`NoReportQueued`).
The history variable `missed` names the failures that nothing has made good yet:
the properties about losses do not apply while it is not empty.

### AgentScheduler

One pass is `Top`, `Inspect`, `Load`, `Snapshot`, `Wait`, then a message or
`TimedOut`. What is due is decided at `Top`, by the time of that moment;
`overdue` keeps the decision while time goes on. A deadline is the time left
until it, cut off at zero, and `Tick` may come between any two steps. The wake
thread, the UI's save and scan, the pipe and the event, and the supervisors of
the subscriptions with their back-off are actions of their own. Targeted
inspections are one entry with one delay for the two delays of the code. The
history variables are `late` (messages received since a deadline passed) and
`dropped` (a request for the configuration saved last came to nothing).

### ConfigStore

Two threads of the UI process use the configuration: the commands of the window,
one after the other (`GetAppConfig`, `SaveAppConfig`), and the thread that
synchronises the shell at start-up, under no lock. Both go through
`load_or_create_config`, whose steps are the accesses to files: the schema check,
the primary file, the backup, the repair of the primary file, the quarantine, the
notice, and the save with its two replacements. Any of them may fail, the process
may end between any two, a disk may damage the primary file while no window is
open, and a newer version of the program may have written it. A file is its
version (outdated, current, future), its settings, and whether it can be parsed.
The agent loads with the backup as its fall-back and keeps what it has if that
fails too.

History: `kept` is the newest settings of the user that a file still holds: what was
saved last, until the disk damages the primary file or a newer version replaces it, and
what the backup holds then. The last save is lost with the primary file in the code, too
(the test at `src-tauri/src/config.rs:350` recovers the first of two saves);
`SavedSettingsSurvive` says that it is no more than that save, as each save has passed
what it replaces on to the backup, and that the program itself loses nothing. `evidence`
is a damaged file that must be
somewhere, and `mishaps` names what went wrong and excuses a property. `misread`
and `rewrite` are a read and a repair that failed, `overlap` and `late` a load and a
save of the window before the start-up thread has finished, `failed` a save that
failed, `blind` a save whose own load did not succeed, `unwoken` a change of the
files that no wake-up follows. The comment of each property says which of them it
excepts. These exceptions are what the code does not protect against.

### Publishing

The main thread logs (`LogEvent` to `SignalLog`, the steps of
`append_event_to_path` with the rotation) and publishes (`Set`, `WriteFile`,
`SignalUi`, `SignalTray`); an event is its number. `main.then` is where an append
returns to. The pipe's thread removes the two files of the log one after the other,
and a file that is removed while open takes the event with it (`main.lost`). A
signal reaches a reader whose event object exists, and is lost otherwise; a signal
and the message the listener makes of it are one flag, since both merge with one
that waits. The tray asks the pipe, then the state file; the window has one
request at a time and remembers that it was called meanwhile.

History: `gone` (the last event the user cleared) and `missed` of each reader (a
signal that came before its listener, or from an agent that ended before it
signalled). Status, time stamps, tracking counts and watcher health are
functions of what is modelled, or shown as they are. A write to the log that fails
writes nothing, a start whose state file cannot be written counts as none, and two
events of one millisecond with the same text, one to the tray's cursor, are told
apart here.

`ReadersAreCurrent` is one invariant for the three readers, each in its own terms. What
the model shows of the code without a property being against it: the tray has
no timer, so that what it missed stays missed until the next signal; it turns to the
state file also when the pipe answers that no profile is in control, and shows an
old profile if that file could not be brought up to date; the error of a failed
evaluation is logged twice when it is new, and once with each repetition.

### Lifecycle

Four callers (`job`): the main thread of the UI, its start-up thread, the tray and the
installer. Each is at a place of `agent_control.rs`, of the tray or of the script;
`Then` says where each answer leads. A call is `Connect`, `Serve`, `Answered`, or
`CallFails`: there is one pipe instance, so a caller that finds it busy or missing for
1.5 s gives up, and whoever waits for the agent to come up polls until `TimeOut`. The
server drops a client that says nothing, and ends for good when an instance cannot be
created. The agent is `boot`, `recover`, `loop`; what it holds (`agent.holds`, `file`,
`plan`) is what an installer or a second incarnation can disturb. The task has a logon
trigger, which the setting *Start with Windows* is to keep, and a retry.

Of power control, `Record` writes the lease and `Apply` sets the plan; `Close`, `LetGo`
(on the way out) and `Recover` give it back; each may fail, and the agent may end between
any two steps. The agent remembers its lease (`agent.holds`) or has forgotten what it
gives back (`agent.forgot`, after a recovery that failed).

The installer asks the agent twice to stop, releases the lease in a process of its own
(`OpenLease` reads lease and plan, `Release` gives back and clears), and stops the task
(`Halt`). Then an uninstaller has removed all, the lease included, and an update reads the
settings (`ReadFlags`), registers the task with its trigger enabled (`Enroll`), and starts
it (`StartTask`) or disables the trigger (`DisableNew`). The script looks at the result of
the registration and of the start, and ends there if they fail; it ignores that of the
release (`powershift-hooks.nsh:112`), of the stop (`:115`) and of the disabling (`:88`).
In the same way everybody who stops the agent (`End`) ignores whether the task could be
found and ended (`agent_control.rs:142-157`).

History: `doomed` (who was told to end) and `quirks`, what excuses a property. The
property says what each of them means, and the code has no answer to any:

| Property | Excuse | What has happened |
|---|---|---|
| `UninstallGivesPlanBack` | `torn` | the agent ended, or restored, between the lease and the plan of a hand-over: the lease names another managed plan than the one in force |
| | `stale` | a recovery failed, and the next session took the managed plan for the user's |
| | `unreleased` | the release of the installer failed; its lease is deleted all the same |
| | `overlap` | an agent is alive, or started, while the installer releases: its pauses of 1.2 s guarantee nothing |
| `QuitEndsEverything` | `unended` | the agent did not answer and its task could not be ended; it runs on until the next who asks |
| `AutostartFollowsSetting` | `warned` | the user has seen that the trigger could not be changed |
| | `repaired` | the repair of the task registered it, with its trigger enabled, although the setting is off |
| | `unchecked` | the installer registered the task, and disabling its trigger failed unseen |
| | `misread` | the installer could not read the setting, or it changed after it was read |

So the plan is *not* given back in each of the first four, and two documents say
otherwise: `docs/STABLE_RELEASE_CHECKLIST.md:113` promises the captured plan after a crash
"on the next safe startup or uninstall" (`torn`, see `crashed_handover`), and `:74` wants
the trigger off with the setting off (`repaired`, `unchecked`). What the property adds is
that these are all: dead pipes, busy and silent ones, unreadable tokens, crashes in
control, leases left behind by a shutdown whose own release failed, and any order of the
steps of tray, UI and installer do no harm. An excuse is dropped when what it stands for
is over, as when the user picks a plan with no lease left, the setting is applied again,
or somebody asks the agent to stop again.

What the model shows besides: hiding the tray icon in the settings ends the tray
by its quit event (`src-tauri/src/config.rs:318`), and a tray that quits also tells the
UI to exit and the agent to stop (`powershift-tray/src/main.rs:651-657`).
`restart_agent_task` (`agent_control.rs:205-215`) has no caller and is left out.

Left out: an agent started by hand or without elevation, a PID that is reused between
the status and the kill, the event that shows an open window, profiles that leave the plan
or give back a configured one (`PowerControl` has them), a plan of the user's that is also
a profile's. A reboot is the initial state.

### ProfileEdits

Between two awaits a script of the window runs alone, and the main thread of the
process serves the calls one by one; so a step is a click, or one served call together
with the script that goes on with its answer. An edit is a record (`Offered` lists
those the window offers), `Edited` computes the next configuration as
`services/configApi.ts` does, `Issues` is what `validate_config` finds, and `Save`
writes it or `SaveFails` undoes it on the screen. A window that starts reads the plans,
then the rest, and saves once more by itself with the priorities the plans ask for
(`Synchronize`). It is not visible before it has read its configuration, so that no
edit comes earlier.

`quirks` excuses: `overlap` (an edit while the start-up's own save is under way:
`App.vue:905` takes no busy flag; without this exception `NoEditIsLost` is violated
after six steps, as either save undoes the other), `unread` (the window could not read
the files when it opened) and `unsaved` (the start-up's save failed).

The busy flag is set before the first await by every handler but one:
`addExecutableProfile` awaits the file picker (`App.vue:284`), sets the flag when that
returns and does not look at it again. The model takes the click, the picker and the flag
as one step, that is, it assumes that the picker is modal to the window, so that no other
handler can begin while it is open. Nothing in the code says so; if it were not modal,
`NoEditIsLost` would not cover an edit made meanwhile.

Left out: the switches and delays of a profile, which go the way of the others; icons;
the ranking of what the search for programs finds; buttons that save nothing.

## 3. The runs

Runs that pass:

| Run | Shows |
|---|---|
| `power_control` | With every call failing, crashes, damaged lease files and a user who changes plans at any time: a plan set by the agent is always on record; the recorded previous plan is the user's, through hand-overs, restarts and edits; memory and disk agree; only a plan read to be the managed one is replaced; an ended session leaves nothing; equal priorities do not oscillate; a scheduled restore does not move; and all this implements `PlanSession` |
| `power_liveness` | A scheduled restore completes, and control ends when the machine is quiet, although setting, recording and clearing may fail |
| `process_tracking` | No tracked process dies unnoticed and no watched process runs unnoticed; each change is evaluated before the agent waits; a late signal for a reused PID spares the newer process if it can be inspected |
| `tracking_liveness` | Whatever watchers, waits and snapshots lost, the registry ends up agreeing with the machine, unless the last snapshot is one that failed |
| `agent_scheduler` | The agent never blocks past a deadline; at most one message is handled between a deadline and what it asks for; a saved configuration is read; a degraded agent goes on scanning, whatever comes in between |
| `config_store` | With the exceptions each property names: the newest settings that the files hold are what a load finds, through ends of the process, failed writes and recoveries, and damage to the primary file costs the last save and no more; a file that cannot be loaded, damaged or of a newer version, is kept; the window shows what is on disk, and the agent ends up with it |
| `publishing` | A cleared event does not come back, through rotations and failures; tray, tooltip and window end up with the last event and the published state, however signals merge and whichever process comes and goes |
| `lifecycle` | With any two commands or faults, and but for the excuses in the table of section 2: an uninstall leaves the user's plan in force; the logon trigger follows the setting, or the user was warned; whatever was told to end ends; no caller of the agent waits for ever. The type invariant includes that the pipe serves only who waits for it |
| `profile_edits` | With up to four edits of any kind, failing reads and refused saves: edits stay valid and identifiers unique; priorities follow the plans; no save undoes an edit it has not seen; the window comes back to rest with its buttons enabled and shows what the files hold |

Runs that find a disagreement between the code and what is said of it:

| Run | What happens |
|---|---|
| `crashed_handover` | The lease is rewritten before the new plan is set. A crash in between leaves a lease naming B's plan while A's is in force; recovery takes A's plan for the user's choice and gives the session up. The checklist promises the captured plan is restored after a crash |
| `recycled_pid` | A late stop event of a reused PID drops the newer process if that process cannot be inspected at that moment; no retry follows |
| `watcher_backoff` | The supervisor measures the length of a run after its sleep. Once the pause is 32 s every failed attempt counts as a stable run, the pause falls back to 1 s, and the cap of 60 s is never reached |

### Bounds, and why they are enough

* `power_control`: two profiles, three plans, four configurations (both profiles
  with equal priorities; automation paused; the game's plan edited and the editor
  deleted; the editor alone with a specific plan to restore), five observations,
  close delays of 0 and 1. Two profiles are what a hand-over needs, the third
  plan tells the user's plan from both managed ones, an edit and a deletion of the
  controlling profile are among the configurations, and a delay of one tick puts a
  wait between scheduling and restoring. The number of sessions, crashes and
  changes by the user is unbounded. The theorems of section 4 remove these bounds.
* `power_liveness`: one profile and two plans, with
  configurations that restore, leave the plan, or lack the profile.
* `process_tracking`: two PIDs, two names of which one is watched, two births. One
  PID used twice, and two processes at once, both occur. Snapshots do not fail in
  this run, which keeps it to two million states: the properties about losses do not
  apply after a failed snapshot, until the next one. They fail in
  `tracking_liveness`, which has one PID and one birth, but a watch set that
  changes; reuse is a matter of safety.
  `recycled_pid` has one PID and two births.
* `agent_scheduler`: one subscription, an interval of two ticks, all other delays
  of one, a channel that holds one message. A sender waits for room and the order
  of its own actions is kept, so a longer channel leads to no new order of
  receipts; what counts is that it can be refilled at once. The pause of the
  watchers is constant in this run (`MaxBackoff` 1, `StableRun` 0);
  `watcher_backoff` has the pauses of the code, in seconds.
* `config_store`: two lists of profiles and one user setting, so that an edit, the
  edit after it and the defaults differ; two failing calls, because one failure is
  what recovery is for and the second one hits recovery; two starts of the UI, the
  second of which stays; at most two mishaps per behaviour (`MCMishaps`), since
  what follows a third is excused already.
* `publishing`: three events, and a log that rotates for the third; an outcome with
  an event, one without, one error. One reader at a time (`MCOneReader`): each has
  event objects of its own. The window is combined with one event (`MCScreen`), as
  it reads no log here. The tray is combined with one event, or with all while
  nothing but errors happen and it listens to the log alone (`MCTray`), as tooltip
  and balloons read different things. The number of publications, clears, starts and
  ends is unbounded.

* `lifecycle`: each process and each caller once, as in the program; two managed plans,
  which a hand-over needs, with sessions that begin with the first (`Starters`); two
  commands or faults per behaviour (`MaxEvents`). One command meets one fault, or another
  command, at every point, with the window open or not and the agent started at logon or
  not. A hand-over (`"switch"`), a failed call for the plan or the lease (`"power"`), a task
  that cannot be ended (`"task"`) and a plan the user picks (`"plan"`) count among the two;
  sessions that begin, go on and end, calls to the pipe or the registration of the task
  that fail, and a task that fails to start or to retry need no event. That makes 373,055
  states. Every excuse but `stale` occurs within two events; `stale` takes three, as does
  whatever else needs three independent faults: the run does not reach it, and the theorems,
  which have no such bound, do.
* `profile_edits`: executables whose identifiers clash (`game`, `game-2`), one that
  leaves no name and a file that is no executable; plans of a low, a high and an
  unknown level and one known by its name only; at most three profiles and one
  associated process, so that both limits are met; four edits, which is enough to add,
  remove and add again beside a clashing name; two calls of handlers, so that a second
  one can begin whenever the buttons allow it.

Deadlock checking is on, except in `lifecycle` and `profile_edits`, whose behaviours end
when the bound on events or edits is reached and all processes are at rest or gone.

### Fairness

* The main thread finishes a pass it has begun (weak fairness of its steps), and
  time passes.
* No call fails for ever: strong fairness of `Record`, `Restore`, `Settle` and of
  the evaluation proper in `PowerControl`. The code tries again on its own only
  where it has a deadline (a due restore), and elsewhere on the next event. That is
  why the read of the active plan may not fail in `power_liveness`.
* A due restore or a due scan is looked for on each pass, whatever message the
  last pass handled. `PowerControl` and `ProcessTracking` assume this (strong
  fairness of `Reload` while a restore is due, of `Reconcile` while a scan is
  wanted); `NoStarvation` and `NeverOversleeps` of `AgentScheduler` are its reason.
* A message that was sent is received in the end: the channels are unbounded and
  the loop takes the oldest. In `AgentScheduler` sending never blocks in the code,
  so the bound on the channel is offset by strong fairness of the senders.
* A watcher goes on subscribing, and succeeds again and again
  (`supervise_process_watcher` loops for ever). No fairness is assumed of the
  user, of processes or of failures.
* In `Lifecycle`, threads that can go on do (weak fairness of the agent's boot,
  recovery and `Apply`, of its pipe server, and of each caller); a message in the agent's channel is
  received however often the loop is elsewhere (`HandleShutdown`); a poll of six seconds
  ends (`TimeOut`, strong, as the poll leaves and re-enters its place). Nothing forces
  the task to retry, a session to begin or end, or a call to succeed.
* In `ProfileEdits`, the main thread serves the calls in its queue (weak fairness of
  `Serve`); whether they succeed is open.

## 4. What is proved

`PowerControlProofs` proves, for any plans, profiles, valid configurations,
observations, delays and faults, every safety property of the run
`power_control`: `TypeCorrect`, `PlanIsJournaled`, `OriginIsKept`,
`MemoryAndJournalAgree`, `ForeignPlansSurvive`, `NothingIsLeft` (invariants),
`DeadlineNeverMoves` and `ControlIsStable` (action properties).

Assumptions: `ConstantsAssumption` (types of the constants; the markers such as
`NoLease` are none of the values they stand beside) and `ValidConfigs` (what
`validate_config` guarantees of a configuration the agent loads: ids are unique,
and a close behaviour "specific" names a plan).

None of the invariants is inductive alone. The inductive one is

    Inv == TypeInv /\ SessionInv /\ HistoryInv /\ RestoresOnlyManagedPlan

* `TypeInv` is `TypeOK` and `PlacesReady`: at a place where the next call uses a
  lease, a pending restore or a plan that was read, there is one.
* `SessionInv` relates memory and lease: whoever controls holds a lease with
  the same previous plan, and the winner and the pending restore are of the
  lease's profile. It is `MemoryMatchesJournal` with what has to be true at the
  places in the middle of an evaluation, where it may not hold yet or not any more.
* `HistoryInv` says what `origin`, `ours`, `torn` and `stale` have to do with
  lease and place. From it follow `AppliedPlanIsJournaled`,
  `CapturedPlanIsOrigin` and `EndedSessionLeavesNothing`.
* `RestoresOnlyManagedPlan` is the guard under which a restore was decided on,
  which is still true when it is carried out: `seen` does not change meanwhile.

Each part is shown to hold initially and to be kept by each group of actions
(life cycle and recovery, triggers, evaluation), with one step per action;
`InvInductive` puts them together and `Invariance` adds the temporal step. The
two action properties follow from `Inv` and one step: a scheduled restore can be
replaced only where a winner is closed, and `SessionInv` leaves no winner beside a
pending restore; and of two profiles with one id there is only one (`IdsUnique`),
so that the winner recorded is the one `IsWinner` picked.

`PlanSessionProofs` proves the refinement, `Spec => PlanIsBorrowed` (`Refinement`).
As `PlanSession` tells who sets the plan, the theorem has both halves: the agent takes a
plan only for a session that is on the disk (`ApplyingStep`), and gives one back only after
it has seen its own (`LookingSteps`, `ReturningSteps`).
`Inv` alone does not give it: `Return` asks where the plan of a restore comes from, and
`ReturnsAreKnown` says that of the lease, of its file and of a pending restore (the
previous plan, or one a valid configuration asks for; here `ValidConfigs` is needed).
It is proved invariant on its own (`ReturnsKnown`). Then there is one lemma per action
of `PlanSession`, which gathers the steps of `PowerControl` that map to it
(`RecordingSteps`, `LookingSteps`, `ReturningSteps`, `EndingSteps`, `FailingSteps`,
`MachineSteps`, `ApplyingStep`), and one for those that change nothing it speaks of
(`SilentSteps`). The interesting one is `RecordingSteps`: a record that keeps no earlier
plan is allowed only without a session or after a loss, which follows from `HistoryInv`.

Each of the other components has a module of proofs. The sections below say what its
inductive invariant adds to the properties, and why it has to. TLC found the invariants to
hold on the instances of the runs before they were proved.

### ProcessTrackingProofs

`TypeCorrect`, `GhostsAreToldOf` (`NoSilentGhost`), `NoProcessIsLost`
(`NoLostProcess`), `EveryChangeIsEvaluated` (`ChangesAreEvaluated`),
`RecycledPidSurvives` (`NewerProcessSurvives`), for any PIDs, names, births, watch sets
and faults.

    Inv == TypeInv /\ PassInv /\ ExitInv /\ WatcherInv /\ GhostInv /\ LostInv

The properties speak of the moments when the agent waits; a snapshot, a retry and a
handler need to know what they have in hand until then. `PassInv` says so of the
registry, of what a snapshot has found and of the evaluation that is owed. `GhostInv` and
`LostInv` are the properties with *what the snapshot in progress may still put in the
registry* (`Prospects`) in the place of the registry: an instance that dies after it was
inspected is accounted for by an event that comes after the snapshot began. `WatcherInv`
says that a watcher reported healthy has its subscription, which is why nothing is lost
without a report; `ExitInv` that a callback names a birth no later process can have.
From `ExitInv` follows that a late exit spares the newer process.

### AgentSchedulerProofs

`TypeCorrect`, `AgentWakesInTime` (`NeverOversleeps`), `DeadlinesAreNotStarved`
(`NoStarvation`), for any subscriptions, intervals, delays, channel lengths and faults.
The type invariant is inductive alone; the other two need

    SafeInv == ForcedInv /\ ScanInv /\ TimeoutInv /\ LateInv

What holds when the agent blocks depends on what each place of the pass has settled
before: a forced scan is due at the top and stays so until the snapshot, a scan is
planned only while WMI is degraded, and a message was handled late only if the pass
under way settles what was due.

### PublishingProofs

`TypeCorrect`, `ClearedEventsStayGone` (`ClearedIsGone`), `ReadersCatchUp`
(`ReadersAreCurrent`), for any outcomes, any limit of the log and any number of events.
The run looks at one reader at a time and bounds what is combined with what; the theorem
has tray and window together, without those bounds.

    Inv == TypeOK /\ ClearInv /\ MainInv /\ BalloonInv /\ TipInv /\ ScreenInv

`ClearInv` orders the numbers of the events: what a request to clear has found is below
everything that is written after it, through rotations and removals half done. `MainInv`
says what the main thread carries from step to step, and that nothing that can be read is
older than its memory unless a publication is under way. The last three are the three
parts of `ReadersAreCurrent` with the signal, the mail or the answer that is still under
way.

### LifecycleProofs

`TypeCorrect`, `PlanIsGivenBack` (`UninstallGivesPlanBack`), `TriggerFollows`
(`AutostartFollowsSetting`), for any plans, faults and commands and any number of them: the
run stops after two. They hold with the excuses of the table in section 2, each of which
the models can reach.

    Inv == TypeOK /\ CallInv /\ ThreadInv /\ AutostartInv /\ LeaseInv /\ HandoverInv

`CallInv` says that the pipe serves a caller that waits for what it is told;
`AutostartInv` adds to the property the window that has saved the setting and is still to
change the trigger, and the installer between the registration and the disabling.
`LeaseInv` is the heart of `PlanIsGivenBack`: as long as no process shared the lease and
none ended in the middle of a hand-over, every lease gives back the user's plan, a plan of
PowerShift's in force has a lease, the agent knows the one on the disk, and outside
`Record` and `Apply` it names the plan in force. `HandoverInv` says that no agent is left
to take the plan when the installer gives it back, and that it is the user's from then on
unless the release failed.
`ThreadInv` (the start-up thread lives in the UI) was found by the proof: a UI that opens
starts its thread, and `CallInv` would be lost if the one before it were still connected.

### ConfigStoreProofs

`TypeCorrect`, `SettingsSurvive` (`SavedSettingsSurvive`), `WindowShowsTheFile`
(`ScreenMatchesDisk`), `AgentFollowsTheFile` (`AgentInStep`), `UnloadableKept`
(`UnloadableFilesKept`), for any profiles and settings, any number of starts, failures
and mishaps; the run stops after two of each.

    Inv == TypeOK /\ ThreadInv /\ OrderInv /\ KeptInv /\ ReadInv /\ BackupInv
             /\ ScreenInv /\ MigrationInv /\ AgentInv /\ EvidenceInv /\ FutureInv

Each part says something of both threads at each of their steps. `ThreadInv`: what a
thread is about to write is something to write. `KeptInv`: as long as there is something
to keep, each thread has it in hand and none discards a file. `BackupInv`: before a save
replaces a file, the backup holds the same settings; `SettingsSurvive` has this as an
action property beside the invariant. `ReadInv` and `ScreenInv`:
what a command has read or written, and what the window shows, is on disk, if nobody
overlapped with it. `MigrationInv`: a file of an old version is not migrated by one
thread while the other recovers it. `AgentInv`: the agent has what the file says, or what
the command in its last step, between its save and its wake-up, began with.
`EvidenceInv` and `FutureInv`: where a damaged file is, and that no thread gets past the
schema check of a file of a newer version. `UnloadableKept` is an action property and
follows from these two and one step.

### ProfileEditsProofs

`TypeCorrect`, `EditsValid` (`EditsStayValid`), `PrioritiesFollow`
(`PriorityFollowsPlan`), `EditsAreKept` (`NoEditIsLost`), for any configurations, plans,
executables, processes and limits, any number of handlers, edits and searches.

The first half is about operators. `FreshId` says that `UniqueId` finds an identifier that
is not taken: among one more suffix than there are identifiers, by the pigeonhole
principle, one is free. `KeepIs` says what filtering leaves, `NormalizedIs` and
`SettledIs` that `Normalized` has nothing to do the second time and leaves the issues of a
configuration alone, and `EditedIsNoWorse` that every edit which is not refused leaves a
configuration fit (identifiers different, profiles sound) and settled (priorities as the
plans ask) if it was.

    Inv == TypeInv /\ BusyInv /\ QueueInv /\ DiskInv /\ ValidInv /\ FreshInv

`BusyInv` says that the busy flag lets one handler run at a time, `QueueInv` that the
queue holds exactly the calls that handlers and start-up wait for, `DiskInv` that a save is
of the configuration in the files unless there was an overlap, `ValidInv` that files and
screen are valid and each computed edit is no worse, and `FreshInv` that, when nothing went
wrong, edits are computed from the screen. That is needed for one step: the start-up that
does not save because the *screen* is settled, while an edit has reached the files and not
the screen.

`ConfigsAssumption` says that a window starts with a configuration `ConfigStore::load` has
validated; `InputsAssumption` gives the types of the other constants. A profile may have a
plan that the machine has no longer.

### What the proofs changed in the models

* Where several arms of a `CASE` could apply, with the same value, the prover can say
  nothing of it: such definitions are now `IF`, or disjunctions.
* A marker such as `NoDeadline` or `NoState` has to be assumed different from *all* the
  values it stands beside, not from those of the instance.
* `SelectSeq` has no definition the prover can use: `ProfileEdits` filters with `Keep`,
  and `MCProfileEdits` has TLC check (`KeepFilters`) that it is the same. `UNION S \cup T`
  is read differently by the two tools and is written with parentheses.
* `PreferredPlan` and `UniqueId` use `SelectInSeq` and `Min` of the community modules, whose
  results can be reasoned about.

### Only model-checked

What must eventually happen, as fairness and `ENABLED` are beyond the prover:
`RestoreCompletes`, `ControlEndsWhenQuiet`, `RegistryConverges`, `SavedConfigIsRead`,
`DegradedAgentScans`, `QuitEndsEverything`, `CommandsEnd`, `WindowSettles`.

## 5. What is not modelled

* Matching of process names and paths to roles, the parsing of `powercfg` and of
  process listings: functions of one value, unit-tested, and abstracted into constants.
  Rules of `validate_config` on text that no edit produces (empty matchers, delays).
* Handles, sessions, security descriptors, the JSON of requests, window procedures,
  icons, panels and themes of the front end, build scripts: input and output without
  protocol state. Pipe, token, scheduled task and installer are in `Lifecycle` as far as
  they decide who runs.
* A release by the installer that overlaps with an agent step by step: `Lifecycle` runs
  both, and excuses (`overlap`) what follows, since nothing in the code prevents it.
* A wall clock that jumps: time only grows.
* The removal of temporary files and of files of old versions.

## 6. Plan

Done: all modules and runs of section 2 and 3, and the proof of every safety property that
a passing run checks. Left, in order of importance:

1. What liveness rests on, as invariants that can be proved: whoever waits is in the queue
   of the one who answers (`CommandsEnd`, `WindowSettles` have it in part in `CallInv` and
   `QueueInv`), and a request for the saved configuration is in the channel, in the event
   or in the agent's flag until it is read (`SavedConfigIsRead`).
2. The effect of each step of the scan scheduler on the time of the next scan, from which
   `DegradedAgentScans` follows by a measure.
3. The resolver's matching and the parsing of `powercfg` as operators checked against a
   reference; a promotion against a published state.
