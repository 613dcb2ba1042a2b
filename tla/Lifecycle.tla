------------------------------- MODULE Lifecycle -------------------------------
(***************************************************************************)
(* How the processes of PowerShift start, find and stop each other: the    *)
(* agent under its scheduled task (powershift-agent main.rs, lib.rs), its  *)
(* pipe (named_pipe.rs, ipc.rs), the commands of the UI that reach it      *)
(* (agent_control.rs), the start-up thread of the UI (config.rs), the      *)
(* named events between tray and UI (powershift-tray, windowing.rs) and    *)
(* the installer (powershift-hooks.nsh).                                   *)
(*                                                                         *)
(* Four callers use the pipe: the main thread of the UI, its start-up      *)
(* thread, the tray and the installer. Connecting, serving and answering   *)
(* are steps of their own, and the agent may end between any two. Of power *)
(* control there is what two processes and their ends can disturb: the     *)
(* plan, the lease file, and what the agent knows of it; PowerControl has  *)
(* the rest. The profiles here give back the previous plan, and the plans  *)
(* that the user picks are not those of a profile.                         *)
(***************************************************************************)
EXTENDS Naturals

CONSTANTS
  Managed,   \* the plans of the profiles
  Starters,  \* bound: the plans with which a session begins
  Faults,    \* what the environment may do: FaultKinds
  Commands,  \* what the user may ask for: CommandKinds
  MaxEvents  \* bound on the faults and commands of a behaviour

FaultKinds == {"crash", "token", "silent", "denied", "create", "power", "task"}

CommandKinds ==
  {"open", "trayExit", "close", "exit", "start", "install", "wake", "promote", "autostart",
   "icon", "setup", "plan", "switch"}

ASSUME LifecycleAssumption ==
  /\ {"user", "none"} \cap Managed = {}
  /\ Starters \subseteq Managed
  /\ Faults \subseteq FaultKinds
  /\ Commands \subseteq CommandKinds
  /\ MaxEvents \in Nat

VARIABLES
  agent,    \* the agent process
  pipe,     \* its pipe server
  token,    \* the token file holds the token that the agent has
  task,     \* the scheduled task
  setting,  \* the saved settings: start with Windows, show the tray icon
  plan,     \* the plan in force
  file,     \* the lease file
  copy,     \* the lease that --release-power-control has read
  flags,    \* the settings that the installer has read
  ui,       \* the UI process and its exit event
  tray,     \* the tray process and its quit event
  job,      \* per caller, what it is doing
  doomed,   \* history: the processes that have been told to end
  quirks,   \* history: what excuses a property
  events    \* faults and commands so far

power   == <<plan, file>>
history == <<doomed, quirks>>
shell   == <<ui, tray>>
setup   == <<copy, flags>>
vars    == <<agent, pipe, token, task, setting, power, setup, shell, job, history, events>>

Plans == Managed \cup {"user"}

\* The plan that a profile has put in force, and the one to give back.
Leases == [managed : Managed, back : Plans]

NoLease == [managed |-> "none", back |-> "none"]

\* Excuses: of the plan, of the end of the agent, and of the trigger.
PlanQuirks    == {"overlap", "torn", "stale", "unreleased"}
TriggerQuirks == {"warned", "repaired", "unchecked", "misread"}
Quirks        == PlanQuirks \cup TriggerQuirks \cup {"unended"}

Callers == {"window", "startup", "tray", "setup"}

\* Where a caller waits for an answer of the agent, and what it asks there.
Request ==
  [status |-> "get_status", poll |-> "get_status", shutdown |-> "shutdown", stop |-> "shutdown",
   again |-> "shutdown", reevaluate |-> "reevaluate", startup |-> "set_startup",
   promote |-> "promote_profile"]

Calls == DOMAIN Request

Places ==
  Calls \cup {"idle", "exists", "kill", "run", "end", "stopped", "signal", "find", "resignal",
              "unset", "register", "elevate", "icon", "open", "give", "clear", "halt",
              "install", "enroll", "launch", "disable", "gone"}

Doing(cmd, at) ==
  [at |-> at, cmd |-> cmd, sent |-> FALSE, target |-> FALSE, raised |-> FALSE]

NoJob == Doing("none", "idle")

NoAgent == [at |-> "off", ask |-> FALSE, denied |-> FALSE, holds |-> NoLease, forgot |-> FALSE]

NoPipe == [at |-> "none", client |-> "none", answer |-> "no"]

NoTask == [installed |-> FALSE, trigger |-> FALSE, retry |-> FALSE]

\* PowerShiftReadExistingConfigFlags before it has read anything.
NoFlags == [autostart |-> TRUE, icon |-> TRUE]

\* A window process without an event to wait for yet.
Process(at) == [at |-> at, listens |-> FALSE, mail |-> FALSE]

\* Type invariant. The pipe lives in the agent, and serves who waits for it.
TypeOK ==
  /\ agent \in [at : {"off", "boot", "recover", "loop", "apply"}, ask : BOOLEAN,
                denied : BOOLEAN, holds : Leases \cup {NoLease}, forgot : BOOLEAN]
  /\ pipe \in [at : {"none", "open", "busy", "reply", "dead"},
               client : Callers \cup {"none", "silent"}, answer : {"ok", "denied", "no"}]
  /\ token \in BOOLEAN
  /\ file \in Leases \cup {NoLease} /\ copy \in Leases \cup {NoLease}
  /\ task \in [installed : BOOLEAN, trigger : BOOLEAN, retry : BOOLEAN]
  /\ setting \in [autostart : BOOLEAN, icon : BOOLEAN]
  /\ flags \in [autostart : BOOLEAN, icon : BOOLEAN]
  /\ plan \in Plans
  /\ ui \in [at : {"off", "up", "exiting"}, listens : BOOLEAN, mail : BOOLEAN]
  /\ tray \in [at : {"off", "up"}, listens : BOOLEAN, mail : BOOLEAN]
  /\ job \in [Callers -> [at : Places, cmd : CommandKinds \cup {"none"}, sent : BOOLEAN,
                          target : BOOLEAN, raised : BOOLEAN]]
  /\ doomed \subseteq {"agent", "tray", "ui"}
  /\ quirks \subseteq Quirks
  /\ events \in 0..MaxEvents
  /\ pipe.at # "none" => agent.at \notin {"off", "boot"}
  /\ pipe.client \in Callers => job[pipe.client].sent

Happens == events < MaxEvents /\ events' = events + 1

Strikes(kind) == kind \in Faults /\ Happens

\* A call for the plan or the lease file does not succeed.
PowerFails == Strikes("power")

\* Installed files are there: a process can be started.
CanStart == job["setup"].at # "gone"

(***************************************************************************)
(* The agent process                                                       *)
(***************************************************************************)

Up == agent.at \notin {"off", "boot"}

\* A lease names another plan than the managed one that is in force: a hand-over that stopped
\* between lease and plan.
Torn(lease) == lease # NoLease /\ plan \in Managed \ {lease.managed}

\* The process ends, and its pipe with it: a connected client notices, and a process
\* identifier somebody remembers names nothing any more.
AgentEnds(jobs, newTask) ==
  /\ agent' = NoAgent
  /\ pipe' = NoPipe
  /\ task' = newTask
  /\ doomed' = doomed \ {"agent"}
  /\ job' = [c \in Callers |-> [jobs[c] EXCEPT !.target = FALSE]]
  /\ quirks' = (quirks \ {"unended"}) \cup (IF Torn(agent.holds) THEN {"torn"} ELSE {})

Retried == [task EXCEPT !.retry = task.installed]
Settled == [task EXCEPT !.retry = FALSE]

\* Windows starts the task unless an instance of it runs (IgnoreNew). What starts
\* while the installer gives the plan back shares the lease with it.
Launch ==
  /\ agent' = IF agent.at = "off" /\ CanStart THEN [NoAgent EXCEPT !.at = "boot"] ELSE agent
  /\ quirks' = IF job["setup"].at \in {"give", "clear", "halt"} THEN quirks \cup {"overlap"}
               ELSE quirks

\* The task has failed, and is started again.
Retry ==
  /\ task.retry /\ task.installed /\ agent.at = "off"
  /\ Launch
  /\ task' = [task EXCEPT !.retry = FALSE]
  /\ UNCHANGED <<pipe, token, setting, power, setup, shell, job, doomed, events>>

\* Token, lease and pipe thread come before the recovery.
Boot ==
  /\ agent.at = "boot"
  /\ agent' = [agent EXCEPT !.at = "recover", !.holds = file]
  /\ token' = TRUE
  /\ UNCHANGED <<pipe, task, setting, power, setup, shell, job, history, events>>

\* The managed plan is given back, another one left alone.
Returned(lease) == IF plan = lease.managed THEN lease.back ELSE plan

\* A session is resumed if its plan is in force and its profile exists; a lease without is
\* done away with. Reading or setting the plan or clearing the lease may fail: the lease stays,
\* and memory does not know what it gives back.
Recover ==
  /\ agent.at = "recover"
  /\ \/ /\ plan = agent.holds.managed \/ agent.holds = NoLease
        /\ agent' = [agent EXCEPT !.at = "loop"]
        /\ UNCHANGED <<power, events>>
     \/ /\ plan' = Returned(agent.holds)
        /\ file' = NoLease
        /\ agent' = [agent EXCEPT !.at = "loop", !.holds = NoLease]
        /\ UNCHANGED events
     \/ /\ agent.holds # NoLease /\ PowerFails
        /\ plan' \in {plan, Returned(agent.holds)}
        /\ agent' = [agent EXCEPT !.at = "loop", !.forgot = TRUE]
        /\ UNCHANGED file
  /\ UNCHANGED <<pipe, token, task, setting, setup, shell, job, history>>

\* What a lease gives back: the plan captured when the session began.
Captured == IF agent.holds = NoLease \/ agent.forgot THEN plan ELSE agent.holds.back

\* The plan of the winning profile: a session begins or goes on, or the user has started or
\* ended a program and there is a hand-over.
Wins(m) ==
  \/ m \in Starters /\ agent.holds = NoLease /\ UNCHANGED events
  \/ m = agent.holds.managed /\ UNCHANGED events
  \/ agent.holds # NoLease /\ "switch" \in Commands /\ Happens

\* A profile is active: the lease goes to the disk before the plan is set.
Record ==
  /\ agent.at = "loop"
  /\ \E m \in Managed :
       LET lease == [managed |-> m, back |-> Captured]
           next  == IF plan = m THEN "loop" ELSE "apply"
       IN /\ Wins(m)
          /\ file' = IF agent.holds = lease THEN file ELSE lease
          /\ agent' = [agent EXCEPT !.at = next, !.holds = lease, !.forgot = FALSE,
                                    !.denied = @ /\ next = "apply"]
  /\ quirks' = quirks \cup IF Captured = "user" THEN {} ELSE {"stale"}
  /\ UNCHANGED <<pipe, token, task, setting, plan, setup, shell, job, doomed>>

\* The plan is set, or that fails: the published state has another error then.
Apply ==
  /\ agent.at = "apply"
  /\ agent' = [agent EXCEPT !.at = "loop", !.denied = FALSE]
  /\ \/ plan' = agent.holds.managed /\ UNCHANGED events
     \/ PowerFails /\ UNCHANGED plan
  /\ UNCHANGED <<pipe, token, task, setting, file, setup, shell, job, history>>

\* Nothing changes but the published state.
Scan ==
  /\ agent.at = "loop" /\ agent.denied
  /\ agent' = [agent EXCEPT !.denied = FALSE]
  /\ UNCHANGED <<pipe, token, task, setting, power, setup, shell, job, history, events>>

\* The restore is due: the plan is given back, then the lease cleared, which may fail.
Close ==
  /\ agent.at = "loop" /\ agent.holds # NoLease /\ ~agent.forgot
  /\ plan' = Returned(agent.holds)
  /\ \/ /\ file' = NoLease
        /\ agent' = [agent EXCEPT !.holds = NoLease, !.denied = FALSE]
        /\ quirks' = quirks \cup IF Torn(agent.holds) THEN {"torn"} ELSE {}
        /\ UNCHANGED events
     \/ /\ PowerFails
        /\ UNCHANGED <<agent, file, quirks>>
  /\ UNCHANGED <<pipe, token, task, setting, setup, shell, job, doomed>>

\* release_power_control on the way out: what fails of it is left undone.
LetGo ==
  \/ agent.holds = NoLease /\ UNCHANGED <<power, events>>
  \/ /\ agent.holds # NoLease
     /\ plan' = Returned(agent.holds)
     /\ file' = NoLease
     /\ UNCHANGED events
  \/ /\ agent.holds # NoLease /\ PowerFails
     /\ plan' \in {plan, Returned(agent.holds)}
     /\ UNCHANGED file

\* The loop receives Shutdown.
HandleShutdown ==
  /\ agent.at = "loop" /\ agent.ask
  /\ LetGo
  /\ AgentEnds(job, Settled)
  /\ UNCHANGED <<token, setting, setup, shell>>

\* With no lease left, a plan of the user's ends what went wrong before.
UserPicks ==
  /\ plan # "user" /\ "plan" \in Commands /\ Happens
  /\ plan' = "user"
  /\ quirks' = IF {file, copy, agent.holds} = {NoLease} THEN quirks \ {"torn", "stale"} ELSE quirks
  /\ UNCHANGED <<agent, pipe, token, task, setting, file, setup, shell, job, doomed>>

\* The process is killed or fails; a watcher reports that WMI needs elevation; the
\* token file is damaged or removed.
Fault ==
  /\ \/ agent.at # "off" /\ Strikes("crash") /\ AgentEnds(job, Retried) /\ UNCHANGED token
     \/ /\ agent.at = "loop" /\ ~agent.denied /\ Strikes("denied")
        /\ agent' = [agent EXCEPT !.denied = TRUE]
        /\ UNCHANGED <<pipe, token, task, job, history>>
     \/ /\ token /\ Strikes("token")
        /\ token' = FALSE
        /\ UNCHANGED <<agent, pipe, task, job, history>>
  /\ UNCHANGED <<setting, power, setup, shell>>

(***************************************************************************)
(* The pipe                                                                *)
(***************************************************************************)

\* One instance at a time; the first creation that fails ends the server.
CreatePipe ==
  /\ Up /\ pipe.at = "none"
  /\ \/ pipe' = [NoPipe EXCEPT !.at = "open"] /\ UNCHANGED events
     \/ pipe' = [NoPipe EXCEPT !.at = "dead"] /\ Strikes("create")
  /\ UNCHANGED <<agent, token, task, setting, power, setup, shell, job, history>>

\* Somebody connects and says nothing; it is dropped after two seconds.
SilentClient ==
  /\ pipe.at = "open" /\ Strikes("silent")
  /\ pipe' = [NoPipe EXCEPT !.at = "busy", !.client = "silent"]
  /\ UNCHANGED <<agent, token, task, setting, power, setup, shell, job, history>>

DropSilent ==
  /\ pipe.client = "silent"
  /\ pipe' = NoPipe
  /\ UNCHANGED <<agent, token, task, setting, power, setup, shell, job, history, events>>

Connect(c) ==
  /\ job[c].at \in Calls /\ ~job[c].sent /\ pipe.at = "open"
  /\ pipe' = [NoPipe EXCEPT !.at = "busy", !.client = c]
  /\ job' = [job EXCEPT ![c].sent = TRUE]
  /\ UNCHANGED <<agent, token, task, setting, power, setup, shell, history, events>>

\* The handler. All requests but get_status carry the token of the file.
Serve ==
  /\ pipe.at = "busy" /\ pipe.client \in Callers
  /\ LET asks == Request[job[pipe.client].at]
         done(answer) == pipe' = [pipe EXCEPT !.at = "reply", !.answer = answer]
     IN \/ /\ asks = "get_status"
           /\ done(IF agent.denied THEN "denied" ELSE "ok")
           /\ UNCHANGED <<agent, task, quirks>>
        \/ /\ asks # "get_status" /\ ~token
           /\ done("no")
           /\ UNCHANGED <<agent, task, quirks>>
        \/ /\ asks = "shutdown" /\ token
           /\ done("ok")
           /\ agent' = [agent EXCEPT !.ask = TRUE]
           /\ UNCHANGED <<task, quirks>>
        \/ /\ asks = "set_startup" /\ token /\ task.installed
           /\ done("ok")
           /\ task' = [task EXCEPT !.trigger = setting.autostart]
           /\ quirks' = quirks \ TriggerQuirks
           /\ UNCHANGED agent
        \/ /\ asks \in {"reevaluate", "promote_profile"} /\ token
           /\ done("ok")
           /\ UNCHANGED <<agent, task, quirks>>
        \/ /\ asks \in {"set_startup", "promote_profile"} /\ token
           /\ done("no")
           /\ UNCHANGED <<agent, task, quirks>>
  /\ UNCHANGED <<token, setting, power, setup, shell, job, doomed, events>>

(***************************************************************************)
(* The callers                                                             *)
(***************************************************************************)

Go(c, at) == job' = [job EXCEPT ![c] = [@ EXCEPT !.at = at, !.sent = FALSE]]

Done(c) == job' = [job EXCEPT ![c] = NoJob]

\* Where an answer leads.
Then ==
  [status     |-> [ok |-> "ensured", denied |-> "exists", no |-> "run"],
   poll       |-> [ok |-> "ensured", denied |-> "poll",   no |-> "poll"],
   shutdown   |-> [ok |-> "run",     no |-> "kill"],
   stop       |-> [ok |-> "stopped", no |-> "end"],
   again      |-> [ok |-> "open",    no |-> "open"],
   reevaluate |-> [ok |-> "idle",    no |-> "signal"],
   startup    |-> [ok |-> "icon",    no |-> "unset"],
   promote    |-> [ok |-> "idle",    no |-> "idle"]]

\* ensure_agent_running is over, well or not: an elevated child hands over to its parent,
\* who asks once more; a wake-up is tried again; a saved setting goes on to the tray icon.
Ensured(c, ok) ==
  \/ ok /\ job[c].raised
     /\ job' = [job EXCEPT ![c] = [@ EXCEPT !.at = "poll", !.sent = FALSE, !.raised = FALSE]]
  \/ ok /\ job[c].cmd = "wake" /\ Go(c, "resignal")
  \/ ~(ok /\ job[c].raised) /\ job[c].cmd = "autostart" /\ Go(c, "icon")
  \/ ~(ok /\ (job[c].raised \/ job[c].cmd = "wake")) /\ job[c].cmd # "autostart" /\ Done(c)

Hears(c, answer) ==
  LET next == Then[job[c].at][answer]
  IN \/ next = "ensured" /\ Ensured(c, TRUE)
     \/ next = "idle" /\ Done(c)
     \/ next = "exists"
        /\ job' = [job EXCEPT ![c] = [@ EXCEPT !.at = "exists", !.sent = FALSE, !.target = TRUE]]
     \/ next \notin {"ensured", "idle", "exists"} /\ Go(c, next)

\* The answer arrives, and the instance is closed.
Answered(c) ==
  /\ pipe.at = "reply" /\ pipe.client = c
  /\ Hears(c, pipe.answer)
  /\ pipe' = NoPipe
  /\ UNCHANGED <<agent, token, task, setting, power, setup, shell, history, events>>

\* There is no instance, none is free within 1.5 s, or the connection broke.
CallFails(c) ==
  /\ job[c].at \in Calls
  /\ \/ job[c].sent /\ pipe.client # c
     \/ ~job[c].sent /\ pipe.at # "open"
  /\ Hears(c, "no")
  /\ UNCHANGED <<agent, pipe, token, task, setting, power, setup, shell, history, events>>

\* Mutant of TimeOut: whoever has started the agent waits until it answers.
TimeOutOnceUp(c) ==
  /\ job[c].at = "poll" /\ ~job[c].sent /\ Up
  /\ Ensured(c, FALSE)
  /\ UNCHANGED <<agent, pipe, token, task, setting, power, setup, shell, history, events>>

\* wait_for_agent_ipc gives up after six seconds.
TimeOut(c) ==
  /\ job[c].at = "poll" /\ ~job[c].sent
  /\ Ensured(c, FALSE)
  /\ UNCHANGED <<agent, pipe, token, task, setting, power, setup, shell, history, events>>

\* promote_agent_to_elevated_task: the task must exist, which the query may fail to tell; a
\* process that does not listen is killed if this one may.
Exists(c) ==
  /\ job[c].at = "exists"
  /\ \/ task.installed /\ Go(c, "shutdown")
     \/ Ensured(c, FALSE)
  /\ UNCHANGED <<agent, pipe, token, task, setting, power, setup, shell, history, events>>

Kill(c) ==
  /\ job[c].at = "kill"
  /\ LET jobs == [job EXCEPT ![c] = [@ EXCEPT !.at = "run", !.target = FALSE]]
     IN \/ job[c].target /\ AgentEnds(jobs, Retried)
        \/ job' = jobs /\ UNCHANGED <<agent, pipe, task, history>>
  /\ UNCHANGED <<token, setting, power, setup, shell, events>>

Run(c) ==
  /\ job[c].at = "run"
  /\ \/ task.installed /\ Go(c, "poll") /\ Launch
     \/ Ensured(c, FALSE) /\ UNCHANGED <<agent, quirks>>
  /\ UNCHANGED <<pipe, token, task, setting, power, setup, shell, doomed, events>>

\* There is no agent to end, or no task to end it with, or that fails.
Survives(jobs, newTask) ==
  /\ \/ agent.at = "off" /\ UNCHANGED <<quirks, events>>
     \/ /\ agent.at # "off"
        /\ IF task.installed THEN Strikes("task") ELSE UNCHANGED events
        /\ quirks' = quirks \cup {"unended"}
  /\ job' = jobs /\ task' = newTask
  /\ UNCHANGED <<agent, pipe, doomed>>

\* Mutant of End: an agent that does not listen yet is taken to be gone.
EndListening(c) ==
  /\ job[c].at = "end"
  /\ LET jobs == [job EXCEPT ![c].at = "stopped"]
     IN IF Up /\ task.installed THEN AgentEnds(jobs, Settled)
        ELSE job' = jobs /\ UNCHANGED <<agent, pipe, task, history>>
  /\ UNCHANGED <<token, setting, power, setup, shell, events>>

\* stop_agent_task without an answer: the task is ended, and not started again. The query for
\* the task and its end may fail, which every caller ignores.
End(c) ==
  /\ job[c].at = "end"
  /\ LET jobs == [job EXCEPT ![c].at = "stopped"]
     IN \/ agent.at # "off" /\ task.installed /\ AgentEnds(jobs, Settled) /\ UNCHANGED events
        \/ Survives(jobs, task)
  /\ UNCHANGED <<token, setting, power, setup, shell>>

\* The window exits, the tray ends, the installer goes on to ask the agent itself.
Stopped(c) ==
  /\ job[c].at = "stopped"
  /\ job' = [job EXCEPT ![c] = IF c = "setup" THEN [@ EXCEPT !.at = "again"] ELSE NoJob]
  /\ ui' = IF c = "window" THEN [ui EXCEPT !.at = "exiting"] ELSE ui
  /\ tray' = IF c = "tray" THEN Process("off") ELSE tray
  /\ doomed' = doomed \ IF c = "tray" THEN {"tray"} ELSE {}
  /\ UNCHANGED <<agent, pipe, token, task, setting, power, setup, quirks, events>>

\* wake_agent without an answer: the wake event, then a start and the event again.
Wake(c) ==
  /\ \/ job[c].at = "signal" /\ Up /\ Done(c)
     \/ job[c].at = "signal" /\ ~Up /\ Go(c, "find")
     \/ job[c].at = "find" /\ task.installed /\ Go(c, "status")
     \/ job[c].at = "find" /\ Done(c)
     \/ job[c].at = "resignal" /\ Done(c)
  /\ UNCHANGED <<agent, pipe, token, task, setting, power, setup, shell, history, events>>

\* A registration always enables the trigger.
Registered ==
  /\ task' = [task EXCEPT !.installed = TRUE, !.trigger = TRUE]
  /\ quirks' = IF setting.autostart THEN quirks \ TriggerQuirks ELSE quirks \cup {"repaired"}

Register(c) ==
  /\ job[c].at = "register" \/ (job[c].at = "unset" /\ setting.autostart)
  /\ \/ Go(c, "status") /\ Registered
     \/ Go(c, "elevate") /\ UNCHANGED <<task, quirks>>
  /\ UNCHANGED <<agent, pipe, token, setting, power, setup, shell, doomed, events>>

\* The elevated child registers and ensures; the user may refuse it.
Elevate(c) ==
  /\ job[c].at = "elevate"
  /\ \/ job' = [job EXCEPT ![c] = [@ EXCEPT !.at = "status", !.raised = TRUE]] /\ Registered
     \/ /\ Ensured(c, FALSE)
        /\ quirks' = quirks \cup IF job[c].cmd = "autostart" THEN {"warned"} ELSE {}
        /\ UNCHANGED task
  /\ UNCHANGED <<agent, pipe, token, setting, power, setup, shell, doomed, events>>

\* Without an agent the trigger is disabled from here, rights permitting.
Disable(c) ==
  /\ job[c].at = "unset" /\ ~setting.autostart
  /\ Go(c, "icon")
  /\ \/ /\ task' = [task EXCEPT !.trigger = @ /\ ~task.installed]
        /\ quirks' = quirks \ TriggerQuirks
     \/ quirks' = quirks \cup {"warned"} /\ UNCHANGED task
  /\ UNCHANGED <<agent, pipe, token, setting, power, setup, shell, doomed, events>>

(***************************************************************************)
(* Tray and UI                                                             *)
(***************************************************************************)

\* A named event reaches the process that has created it already.
Told(process) == [process EXCEPT !.mail = @ \/ process.listens]

Hearing(name, process) == IF process.listens THEN {name} ELSE {}

\* stop_agent_task begins.
Stopping(c, cmd) == job' = [job EXCEPT ![c] = Doing(cmd, "stop")]

Running == IF agent.at = "off" THEN {} ELSE {"agent"}

\* The tray process is started if the icon is wanted; sync_running_tray, after a save, ends
\* it otherwise. A second tray finds the mutex and leaves.
Icon(c) ==
  /\ job[c].at = "icon"
  /\ IF c = "startup" THEN Go(c, "status") ELSE Done(c)
  /\ \/ /\ setting.icon
        /\ tray' = IF tray.at = "off" /\ CanStart THEN Process("up") ELSE tray
        /\ UNCHANGED doomed
     \/ /\ ~setting.icon /\ c = "window"
        /\ tray' = Told(tray)
        /\ doomed' = doomed \cup Hearing("tray", tray)
     \/ /\ ~setting.icon /\ c = "startup"
        /\ UNCHANGED <<tray, doomed>>
  /\ UNCHANGED <<agent, pipe, token, task, setting, power, setup, ui, quirks, events>>

\* The listener threads create their events some time after the process has started.
Listen ==
  /\ \/ tray.at = "up" /\ ~tray.listens /\ tray' = [tray EXCEPT !.listens = TRUE] /\ UNCHANGED ui
     \/ ui.at = "up" /\ ~ui.listens /\ ui' = [ui EXCEPT !.listens = TRUE] /\ UNCHANGED tray
  /\ UNCHANGED <<agent, pipe, token, task, setting, power, setup, job, history, events>>

\* The quit message and the menu entry: the UI is told to exit, the agent to stop; the
\* message loop waits for both.
TrayStops(cmd) ==
  /\ Stopping("tray", cmd)
  /\ quirks' = quirks \ {"unended"}
  /\ ui' = Told(ui)
  /\ doomed' = doomed \cup Hearing("ui", ui) \cup Running

TrayQuit ==
  /\ tray.mail /\ job["tray"].at = "idle"
  /\ tray' = [tray EXCEPT !.mail = FALSE]
  /\ TrayStops("none")
  /\ UNCHANGED <<agent, pipe, token, task, setting, power, setup, events>>

\* app.exit is served by the main thread, which may be in a command.
UiExit ==
  /\ ui.at = "up" /\ ui.mail /\ job["window"].at = "idle"
  /\ ui' = [ui EXCEPT !.at = "exiting"]
  /\ UNCHANGED <<agent, pipe, token, task, setting, power, setup, tray, job, history, events>>

\* Mutant of UiEnd: the pipe is not told.
UiEndUnseen ==
  /\ ui.at = "exiting"
  /\ ui' = Process("off")
  /\ job' = [job EXCEPT !["startup"] = NoJob]
  /\ doomed' = doomed \ {"ui"}
  /\ UNCHANGED <<agent, pipe, token, task, setting, power, setup, tray, quirks, events>>

\* The process ends, in the middle of what its start-up thread does.
UiEnd ==
  /\ ui.at = "exiting"
  /\ ui' = Process("off")
  /\ job' = [job EXCEPT !["startup"] = NoJob]
  /\ pipe' = IF pipe.client = "startup" THEN NoPipe ELSE pipe
  /\ doomed' = doomed \ {"ui"}
  /\ UNCHANGED <<agent, token, task, setting, power, setup, tray, quirks, events>>

(***************************************************************************)
(* The user                                                                *)
(***************************************************************************)

Free == ui.at = "up" /\ job["window"].at = "idle"

\* Commands of the window that do no more than begin.
First ==
  [start |-> "status", install |-> "register", wake |-> "reevaluate", promote |-> "promote",
   autostart |-> "startup", icon |-> "icon"]

WindowCommand(cmd) ==
  /\ cmd \in DOMAIN First /\ Free
  /\ job' = [job EXCEPT !["window"] = Doing(cmd, First[cmd])]
  /\ setting' = IF cmd \in DOMAIN setting THEN [setting EXCEPT ![cmd] = ~@] ELSE setting
  /\ UNCHANGED <<shell, doomed, quirks>>

\* The start-up thread begins with the process. A second UI shows the first and leaves.
Open ==
  /\ ui.at = "off" /\ CanStart
  /\ ui' = Process("up")
  /\ job' = [job EXCEPT !["startup"] = Doing("none", "icon")]
  /\ UNCHANGED <<setting, tray, doomed, quirks>>

CloseWindow ==
  /\ Free
  /\ ui' = [ui EXCEPT !.at = "exiting"]
  /\ UNCHANGED <<setting, tray, job, doomed, quirks>>

\* The close button, when it is to end everything.
Exit ==
  /\ Free
  /\ tray' = Told(tray)
  /\ Stopping("window", "exit")
  /\ doomed' = doomed \cup Hearing("tray", tray) \cup Running
  /\ quirks' = quirks \ {"unended"}
  /\ UNCHANGED <<setting, ui>>

TrayExit ==
  /\ tray.at = "up" /\ job["tray"].at = "idle"
  /\ TrayStops("trayExit")
  /\ UNCHANGED <<setting, tray>>

\* Uninstaller and update begin with powershift-tray --quit.
Setup ==
  /\ job["setup"].at = "idle"
  /\ Stopping("setup", "setup")
  /\ ui' = Told(ui) /\ tray' = Told(tray)
  /\ doomed' = doomed \cup Hearing("ui", ui) \cup Hearing("tray", tray) \cup Running
  /\ quirks' = quirks \ {"unended"}
  /\ UNCHANGED setting

UserAsks ==
  /\ Happens
  /\ \E cmd \in Commands :
       \/ WindowCommand(cmd)
       \/ cmd = "open" /\ Open
       \/ cmd = "close" /\ CloseWindow
       \/ cmd = "exit" /\ Exit
       \/ cmd = "trayExit" /\ TrayExit
       \/ cmd = "setup" /\ Setup
  /\ UNCHANGED <<agent, pipe, token, task, power, setup>>

(***************************************************************************)
(* The installer                                                           *)
(***************************************************************************)

\* Whom the release does not know of shares the lease with it.
Overlap == IF agent.at # "off" THEN {"overlap"} ELSE {}

\* Mutant of OpenLease: the lease is removed without a look at the plan.
OpenLeaseOnly ==
  /\ job["setup"].at = "open"
  /\ Go("setup", IF file = NoLease THEN "halt" ELSE "clear")
  /\ quirks' = quirks \cup Overlap
  /\ UNCHANGED <<agent, pipe, token, task, setting, power, setup, shell, doomed, events>>

\* powershift-agent --release-power-control, in a process of its own, reads the lease and the
\* plan. The script does not look at its exit code.
OpenLease ==
  /\ job["setup"].at = "open"
  /\ \/ /\ file = NoLease
        /\ Go("setup", "halt")
        /\ quirks' = quirks \cup Overlap
        /\ UNCHANGED <<copy, events>>
     \/ /\ file # NoLease
        /\ Go("setup", IF plan = file.managed THEN "give" ELSE "clear")
        /\ copy' = file
        /\ quirks' = quirks \cup Overlap
        /\ UNCHANGED events
     \/ /\ file # NoLease /\ PowerFails
        /\ Go("setup", "halt")
        /\ quirks' = quirks \cup Overlap \cup {"unreleased"}
        /\ UNCHANGED copy
  /\ UNCHANGED <<agent, pipe, token, task, setting, power, flags, shell, doomed>>

\* The plan is given back, and the lease cleared; either may fail.
Release ==
  /\ \/ /\ job["setup"].at = "give"
        /\ plan' = copy.back
        /\ Go("setup", "clear")
        /\ UNCHANGED <<file, copy, quirks, events>>
     \/ /\ job["setup"].at = "give" /\ PowerFails
        /\ Go("setup", "halt")
        /\ copy' = NoLease
        /\ quirks' = quirks \cup {"unreleased"}
        /\ UNCHANGED power
     \/ /\ job["setup"].at = "clear"
        /\ Go("setup", "halt")
        /\ \/ file' = NoLease /\ UNCHANGED events
           \/ PowerFails /\ UNCHANGED file
        /\ copy' = NoLease
        /\ UNCHANGED <<plan, quirks>>
  /\ UNCHANGED <<agent, pipe, token, task, setting, flags, shell, doomed>>

\* The task is stopped, if that succeeds.
Halted(jobs, newTask) ==
  \/ AgentEnds(jobs, newTask) /\ UNCHANGED events
  \/ Survives(jobs, newTask)

\* The uninstaller removes the task, if that succeeds, and all that the program keeps; an
\* update, which has come the same way, installs.
Halt ==
  /\ job["setup"].at = "halt"
  /\ \/ /\ \E t \in {NoTask, Settled} : Halted([job EXCEPT !["setup"].at = "gone"], t)
        /\ token' = FALSE /\ file' = NoLease
     \/ /\ Halted([job EXCEPT !["setup"].at = "install"], Settled)
        /\ UNCHANGED <<token, file>>
  /\ UNCHANGED <<setting, plan, setup, shell>>

\* PowerShiftReadExistingConfigFlags; a file that cannot be read counts as the default. The
\* lease that was not released is still there.
ReadFlags ==
  /\ job["setup"].at = "install"
  /\ flags' \in {setting, NoFlags}
  /\ quirks' = quirks \ {"unreleased"}
  /\ Go("setup", "enroll")
  /\ UNCHANGED <<agent, pipe, token, task, setting, power, copy, shell, doomed, events>>

\* The trigger is what the flags say, which is right if they are.
Obeyed == IF flags.autostart = setting.autostart THEN quirks \ TriggerQuirks
          ELSE quirks \cup {"misread"}

\* The task is registered with its trigger enabled; a failure ends the installation.
Enroll ==
  /\ job["setup"].at = "enroll"
  /\ \/ Done("setup") /\ UNCHANGED <<task, quirks>>
     \/ /\ Go("setup", IF flags.autostart THEN "launch" ELSE "disable")
        /\ task' = [installed |-> TRUE, trigger |-> TRUE, retry |-> FALSE]
        /\ quirks' = IF flags.autostart THEN Obeyed ELSE quirks
  /\ UNCHANGED <<agent, pipe, token, setting, power, setup, shell, doomed, events>>

\* The task is started, which may fail and end the installation, and the tray with it.
StartTask ==
  /\ job["setup"].at = "launch"
  /\ Done("setup")
  /\ \/ /\ Launch
        /\ tray' = IF flags.icon /\ tray.at = "off" THEN Process("up") ELSE tray
     \/ UNCHANGED <<agent, tray, quirks>>
  /\ UNCHANGED <<pipe, token, task, setting, power, setup, ui, doomed, events>>

\* Mutant of DisableNew: the triggers are disabled, and the task is not saved.
DisableUnsaved ==
  /\ job["setup"].at = "disable"
  /\ Done("setup")
  /\ quirks' = Obeyed
  /\ UNCHANGED <<agent, pipe, token, task, setting, power, setup, shell, doomed, events>>

\* The trigger is disabled again, and nobody looks whether it was.
DisableNew ==
  /\ job["setup"].at = "disable"
  /\ Done("setup")
  /\ \/ /\ task' = [task EXCEPT !.trigger = FALSE]
        /\ quirks' = Obeyed
     \/ /\ quirks' = quirks \cup IF task.trigger = setting.autostart THEN {} ELSE {"unchecked"}
        /\ UNCHANGED task
  /\ UNCHANGED <<agent, pipe, token, setting, power, setup, shell, doomed, events>>

(***************************************************************************)
(* Specification                                                           *)
(***************************************************************************)

\* After the logon, with the setting on or off; no window is open.
Init ==
  /\ setting \in [autostart : BOOLEAN, icon : {TRUE}]
  /\ task = [installed |-> TRUE, trigger |-> setting.autostart, retry |-> FALSE]
  /\ agent = [NoAgent EXCEPT !.at = IF setting.autostart THEN "boot" ELSE "off"]
  /\ tray = IF setting.autostart THEN [Process("up") EXCEPT !.listens = TRUE] ELSE Process("off")
  /\ ui \in {Process("off"), [Process("up") EXCEPT !.listens = TRUE]}
  /\ pipe = NoPipe /\ token = TRUE /\ plan = "user"
  /\ file = NoLease /\ copy = NoLease /\ flags = NoFlags
  /\ job = [c \in Callers |-> NoJob]
  /\ doomed = {} /\ quirks = {} /\ events = 0

AgentStep ==
  Boot \/ Recover \/ Record \/ Apply \/ Scan \/ Close \/ HandleShutdown

PipeStep == CreatePipe \/ SilentClient \/ DropSilent \/ Serve

Asks(c) == Connect(c) \/ Answered(c) \/ CallFails(c)

Installs == ReadFlags \/ Enroll \/ StartTask \/ DisableNew

Works(c) ==
  \/ Exists(c) \/ Kill(c) \/ Run(c) \/ End(c) \/ Stopped(c) \/ Wake(c)
  \/ Register(c) \/ Elevate(c) \/ Disable(c) \/ Icon(c)
  \/ c = "setup" /\ (OpenLease \/ Release \/ Halt \/ Installs)

Next ==
  \/ AgentStep \/ PipeStep
  \/ Retry \/ UserPicks \/ Fault
  \/ \E c \in Callers : Asks(c) \/ TimeOut(c) \/ Works(c)
  \/ Listen \/ TrayQuit \/ UiExit \/ UiEnd \/ UserAsks

\* The message loops of tray and window, between two commands.
Listens(c) ==
  \/ c = "tray" /\ TrayQuit
  \/ c = "window" /\ (UiExit \/ UiEnd)

\* Threads that can go on do; the channel of the agent is a queue, so that Shutdown is
\* received however often the loop is elsewhere; a deadline passes.
Fairness ==
  /\ WF_vars(Boot \/ Recover \/ Apply) /\ SF_vars(HandleShutdown)
  /\ WF_vars(CreatePipe \/ DropSilent \/ Serve)
  /\ \A c \in Callers : WF_vars(Asks(c) \/ Works(c) \/ Listens(c))
  /\ \A c \in {"window", "startup"} : SF_vars(TimeOut(c))

Spec == Init /\ [][Next]_vars /\ Fairness

(***************************************************************************)
(* Properties                                                              *)
(***************************************************************************)

\* Once PowerShift is uninstalled the plan in force is the user's: stop_agent_task,
\* --shutdown-ipc, --release-power-control and Stop-ScheduledTask add up, with an agent that
\* crashed in control, one that left its lease behind because its own release failed, a dead
\* pipe, a busy one or a token nobody can read. Four cases leave PowerShift's plan in force: the
\* agent ended between the lease and the plan of a hand-over (torn), or could not recover a lease
\* and took the managed plan for the user's (stale); the installer's own release failed, which
\* the script ignores (unreleased); an agent was alive while it ran (overlap).
UninstallGivesPlanBack ==
  job["setup"].at = "gone" => plan = "user" \/ quirks \cap PlanQuirks # {}

\* Whatever process has been told to end ends: the agent through its pipe or, when there is no
\* answer, with its task, wherever it is in its start; the tray and the UI once the command that
\* they are in is over. The agent runs on only if the request has no answer and ending the task
\* fails as well, until the next who asks (unended).
QuitEndsEverything ==
  <>[](doomed \ (IF "unended" \in quirks THEN {"agent"} ELSE {}) = {})

\* No caller waits for ever, whatever becomes of the agent and its pipe: not the window,
\* whose main thread runs the commands, nor the tray or the installer.
CommandsEnd == <>[](\A c \in Callers : job[c].at \in {"idle", "gone"})

\* The trigger of the task follows the setting Start with Windows, changed through the agent,
\* with an elevated helper or directly and registered anew by an update, once the window or the
\* installer is through; or else the user has been warned. Three ways to a trigger that the
\* setting does not want come without a warning: the repair of the agent enables it (repaired);
\* the installer fails to disable it again (unchecked); the installer could not read the setting,
\* or it changed after it was read (misread).
AutostartFollowsSetting ==
  job["window"].cmd # "autostart" /\ job["setup"].at # "disable" /\ task.installed =>
    task.trigger = setting.autostart \/ quirks \cap TriggerQuirks # {}

=============================================================================
