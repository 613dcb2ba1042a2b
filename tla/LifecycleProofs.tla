---------------------------- MODULE LifecycleProofs ----------------------------
(***************************************************************************)
(* Proofs about Lifecycle, for any faults and commands and any number of   *)
(* them.                                                                   *)
(***************************************************************************)
EXTENDS Lifecycle, TLAPS

-----------------------------------------------------------------------------
(* The inductive invariant.                                                *)

\* Who is connected waits for an answer to what it has asked.
CallInv ==
  /\ \A c \in Callers : job[c].sent => job[c].at \in Calls
  /\ pipe.at = "reply" =>
       /\ pipe.client \in Callers
       /\ pipe.answer = "denied" => job[pipe.client].at \in {"status", "poll"}

\* The trigger is what the user wants, or there is an excuse.
InSync == task.installed => task.trigger = setting.autostart \/ quirks \cap TriggerQuirks # {}

\* The window has saved the setting, and the trigger is still to follow.
Following ==
  /\ job["window"].cmd = "autostart"
  /\ job["window"].at \in {"startup", "unset", "elevate"}

\* The installer has registered a task that it is to disable.
Disabling == job["setup"].at = "disable"

\* The trigger follows at the latest when the agent says that it does.
AutostartInv ==
  /\ InSync \/ Following \/ Disabling
  /\ Disabling => ~flags.autostart
  /\ pipe.at = "reply" /\ pipe.client = "window" /\ pipe.answer = "ok"
     /\ job["window"].at = "startup" => InSync \/ Disabling

\* No two processes shared the lease, and memory, lease and plan did not fall apart.
Sound == quirks \cap {"overlap", "torn", "stale"} = {}

\* Every lease gives back the user's plan, a plan of PowerShift's has one, the agent knows it,
\* and it names the plan in force but while the agent hands over.
LeaseInv ==
  /\ agent.at \in {"off", "boot"} => agent.holds = NoLease
  /\ agent.at = "apply" => agent.holds # NoLease
  /\ Sound /\ job["setup"].at # "gone" =>
       /\ \A lease \in {file, copy, agent.holds} : lease # NoLease => lease.back = "user"
       /\ plan # "user" => file # NoLease
       /\ agent.at \notin {"off", "boot"} => agent.holds = file
       /\ agent.at \notin {"loop", "apply"} => plan \in {"user", file.managed}

\* The installer gives the plan back, or has done so.
Handover == job["setup"].at \in {"give", "clear", "halt", "gone"}

\* A plan that is given back stays so: no agent is left to take it.
HandoverInv ==
  /\ job["setup"].at = "give" => copy # NoLease
  /\ "overlap" \notin quirks => (Handover => agent.at = "off")
  /\ "unreleased" \in quirks => job["setup"].at \in {"halt", "install", "gone"}
  /\ Sound /\ "unreleased" \notin quirks /\ job["setup"].at \in {"clear", "halt", "gone"} =>
       plan = "user"

\* The start-up thread lives in the UI.
ThreadInv == ui.at = "off" => job["startup"].at = "idle"

Inv == TypeOK /\ CallInv /\ ThreadInv /\ AutostartInv /\ LeaseInv /\ HandoverInv

-----------------------------------------------------------------------------
(* Types, and the moves of a caller.                                       *)

MaybeLease == Leases \cup {NoLease}

AgentType ==
  [at : {"off", "boot", "recover", "loop", "apply"}, ask : BOOLEAN, denied : BOOLEAN,
   holds : MaybeLease, forgot : BOOLEAN]

PipeType ==
  [at : {"none", "open", "busy", "reply", "dead"}, client : Callers \cup {"none", "silent"},
   answer : {"ok", "denied", "no"}]

TaskType == [installed : BOOLEAN, trigger : BOOLEAN, retry : BOOLEAN]

SettingType == [autostart : BOOLEAN, icon : BOOLEAN]

UiType == [at : {"off", "up", "exiting"}, listens : BOOLEAN, mail : BOOLEAN]

TrayType == [at : {"off", "up"}, listens : BOOLEAN, mail : BOOLEAN]

JobType ==
  [at : Places, cmd : CommandKinds \cup {"none"}, sent : BOOLEAN, target : BOOLEAN,
   raised : BOOLEAN]

Jobs == [Callers -> JobType]

\* The part of the type invariant that speaks of one variable at a time.
Typed ==
  /\ agent \in AgentType /\ pipe \in PipeType
  /\ token \in BOOLEAN
  /\ file \in MaybeLease /\ copy \in MaybeLease
  /\ task \in TaskType /\ setting \in SettingType /\ flags \in SettingType
  /\ plan \in Plans
  /\ ui \in UiType /\ tray \in TrayType /\ job \in Jobs
  /\ doomed \subseteq {"agent", "tray", "ui"}
  /\ quirks \subseteq Quirks
  /\ events \in 0..MaxEvents

\* The rest: whom the pipe serves.
PipeInv ==
  /\ pipe.at # "none" => agent.at \notin {"off", "boot"}
  /\ pipe.client \in Callers => job[pipe.client].sent
  /\ CallInv

\* The type invariant in its two parts.
LEMMA TypeParts == TypeOK /\ CallInv <=> Typed /\ PipeInv
BY DEF TypeOK, Typed, PipeInv, AgentType, MaybeLease, PipeType, TaskType, SettingType, UiType,
       TrayType, JobType, Jobs

\* The places where a caller waits for the agent.
LEMMA CallsAre ==
  Calls = {"status", "poll", "shutdown", "stop", "again", "reevaluate", "startup", "promote"}
BY DEF Calls, Request

\* The initial states of the processes are of their types.
LEMMA NothingTyped ==
  /\ NoLease \in MaybeLease
  /\ NoAgent \in AgentType /\ NoAgent.at = "off" /\ NoAgent.holds = NoLease
  /\ [NoAgent EXCEPT !.at = "boot"] \in AgentType
  /\ NoPipe \in PipeType /\ NoPipe.at = "none" /\ NoPipe.client = "none"
  /\ Process("off") \in UiType /\ Process("up") \in UiType
  /\ Process("off") \in TrayType /\ Process("up") \in TrayType
<1>1. NoLease \in MaybeLease
  BY DEF MaybeLease
<1>2. NoAgent \in AgentType /\ [NoAgent EXCEPT !.at = "boot"] \in AgentType
  BY <1>1 DEF NoAgent, AgentType
<1>3. NoAgent.at = "off" /\ NoAgent.holds = NoLease
  BY DEF NoAgent
<1>4. QED
  BY <1>1, <1>2, <1>3 DEF NoPipe, PipeType, Process, UiType, TrayType

\* The tasks that there may be: settled, to be retried, or gone.
LEMMA TasksTyped ==
  ASSUME Typed
  PROVE  /\ Settled \in TaskType /\ Retried \in TaskType /\ NoTask \in TaskType
         /\ Settled.installed = task.installed /\ Settled.trigger = task.trigger
         /\ Retried.installed = task.installed /\ Retried.trigger = task.trigger
         /\ ~NoTask.installed
BY DEF Typed, TaskType, Settled, Retried, NoTask

\* What is written in a lease, and what giving it back leaves in force.
LEMMA LeaseTyped ==
  /\ NoLease.managed \notin Plans
  /\ \A lease \in Leases : lease \in MaybeLease /\ lease # NoLease
  /\ \A lease \in MaybeLease : lease # NoLease => lease \in Leases
  /\ \A lease \in Leases : lease.managed \in Managed /\ lease.back \in Plans
  /\ \A m \in Managed, back \in Plans : [managed |-> m, back |-> back] \in Leases
  /\ plan \in Plans => \A lease \in MaybeLease : Returned(lease) \in Plans
<1>1. NoLease.managed = "none" /\ "none" \notin Plans
  BY LifecycleAssumption DEF NoLease, Plans
<1>2. \A lease \in Leases : lease.managed \in Managed /\ lease.back \in Plans
  BY DEF Leases
<1>3. \A lease \in Leases : lease.managed # "none"
  BY <1>2, LifecycleAssumption
<1>4. \A m \in Managed, back \in Plans : [managed |-> m, back |-> back] \in Leases
  BY DEF Leases
<1>5. QED
  BY <1>1, <1>2, <1>3, <1>4 DEF MaybeLease, Returned

\* A job that begins is a job, and nothing of it is sent.
LEMMA DoingTyped ==
  ASSUME NEW cmd \in CommandKinds \cup {"none"}, NEW at \in Places
  PROVE  Doing(cmd, at) \in JobType /\ Doing(cmd, at).at = at /\ ~Doing(cmd, at).sent
         /\ Doing(cmd, at).cmd = cmd
BY DEF Doing, JobType

\* So is the absence of one.
LEMMA NoJobTyped == NoJob \in JobType /\ NoJob.at = "idle" /\ ~NoJob.sent
BY DEF NoJob, Doing, JobType, Places

\* Caller c goes on to one of the places, and no other caller moves.
Moves(c, places) ==
  /\ job' \in Jobs
  /\ \A d \in Callers \ {c} : job'[d] = job[d]
  /\ ~job'[c].sent /\ job'[c].at \in places
  /\ job'[c].at = "idle" \/ job'[c].cmd = job[c].cmd

\* So it does with Go and with Done, ...
LEMMA Went ==
  ASSUME job \in Jobs, NEW c \in Callers, NEW at \in Places
  PROVE  /\ Go(c, at) => Moves(c, {at})
         /\ Done(c) => Moves(c, {"idle"})
<1>1. job[c] \in JobType
  BY DEF Jobs
<1>2. [job[c] EXCEPT !.at = at, !.sent = FALSE] \in JobType
  BY <1>1 DEF JobType
<1>3. Go(c, at) => Moves(c, {at})
  BY <1>1, <1>2 DEF Go, Moves, Jobs, JobType
<1>4. Done(c) => Moves(c, {"idle"})
  BY NoJobTyped DEF Done, Moves, Jobs
<1>5. QED
  BY <1>3, <1>4

\* ... at the end of ensure_agent_running ...
LEMMA EnsuredMoves ==
  ASSUME job \in Jobs, NEW c \in Callers, NEW ok \in BOOLEAN, Ensured(c, ok)
  PROVE  Moves(c, {"poll", "resignal", "icon", "idle"})
         /\ (~ok /\ job[c].cmd = "autostart" => job'[c].at = "icon")
<1>1. job[c] \in JobType /\ {"poll", "resignal", "icon", "idle"} \subseteq Places
  BY CallsAre DEF Jobs, Places
<1>2. CASE ok /\ job[c].raised
           /\ job' = [job EXCEPT ![c] = [@ EXCEPT !.at = "poll", !.sent = FALSE, !.raised = FALSE]]
  <2>1. [job[c] EXCEPT !.at = "poll", !.sent = FALSE, !.raised = FALSE] \in JobType
    BY <1>1 DEF JobType
  <2>2. QED
    BY <1>1, <1>2, <2>1 DEF Moves, Jobs, JobType
<1>3. CASE ok /\ Go(c, "resignal")
  BY <1>1, <1>3, Went DEF Moves
<1>4. CASE Go(c, "icon")
  BY <1>1, <1>4, Went DEF Moves
<1>5. CASE Done(c) /\ job[c].cmd # "autostart"
  BY <1>1, <1>5, Went DEF Moves
<1>6. QED
  BY <1>2, <1>3, <1>4, <1>5 DEF Ensured

\* ... and with an answer, or without.
LEMMA HearsMoves ==
  ASSUME job \in Jobs, NEW c \in Callers, job[c].at \in Calls,
         NEW answer \in {"ok", "denied", "no"},
         answer = "denied" => job[c].at \in {"status", "poll"},
         Hears(c, answer)
  PROVE  /\ Moves(c, {"poll", "resignal", "icon", "idle", "exists", "run", "kill", "stopped",
                      "end", "open", "signal", "unset"})
         /\ job[c].at = "startup" => job'[c].at = IF answer = "ok" THEN "icon" ELSE "unset"
<1> DEFINE next == Then[job[c].at][answer]
           heard == {"poll", "resignal", "icon", "idle", "exists", "run", "kill", "stopped",
                     "end", "open", "signal", "unset"}
<1>1. /\ next \in {"ensured", "exists", "run", "poll", "kill", "stopped", "end", "open", "idle",
                    "signal", "icon", "unset"}
      /\ job[c].at = "startup" => next = IF answer = "ok" THEN "icon" ELSE "unset"
  BY CallsAre DEF Then
<1>2. job[c] \in JobType /\ heard \subseteq Places
  BY CallsAre DEF Jobs, Places
<1>3. \/ next = "ensured" /\ Ensured(c, TRUE)
      \/ next = "idle" /\ Done(c)
      \/ /\ next = "exists"
         /\ job' = [job EXCEPT ![c] = [@ EXCEPT !.at = "exists", !.sent = FALSE, !.target = TRUE]]
      \/ next \notin {"ensured", "idle", "exists"} /\ Go(c, next)
  BY DEF Hears
<1> HIDE DEF next
<1>4. CASE next = "ensured" /\ Ensured(c, TRUE)
  <2>1. Moves(c, {"poll", "resignal", "icon", "idle"})
    BY <1>4, EnsuredMoves
  <2>2. QED
    BY <1>1, <1>4, <2>1 DEF Moves
<1>5. CASE next = "idle" /\ Done(c)
  <2>1. "idle" \in Places
    BY <1>2
  <2>2. Moves(c, {"idle"})
    BY <1>5, <2>1, Went
  <2>3. QED
    BY <1>1, <1>5, <2>2 DEF Moves
<1>6. CASE /\ next = "exists"
           /\ job' = [job EXCEPT ![c] = [@ EXCEPT !.at = "exists", !.sent = FALSE, !.target = TRUE]]
  <2>1. [job[c] EXCEPT !.at = "exists", !.sent = FALSE, !.target = TRUE] \in JobType
    BY <1>2 DEF JobType
  <2>2. QED
    BY <1>1, <1>2, <1>6, <2>1 DEF Moves, Jobs, JobType
<1>7. CASE next \notin {"ensured", "idle", "exists"} /\ Go(c, next)
  <2>1. next \in heard
    BY <1>1, <1>7
  <2>2. Moves(c, {next})
    BY <1>2, <1>7, <2>1, Went
  <2>3. QED
    BY <1>1, <2>1, <2>2 DEF Moves
<1>8. QED
  BY <1>3, <1>4, <1>5, <1>6, <1>7

\* Where a caller goes that is not the installer giving the plan back.
Ordinary == Places \ {"give", "clear", "halt", "gone"}

\* Which places those are.
LEMMA OrdinaryPlaces ==
  /\ {"idle", "exists", "kill", "run", "end", "stopped", "signal", "find", "resignal", "unset",
      "register", "elevate", "icon", "open", "install", "enroll", "launch", "disable", "status",
      "poll", "shutdown", "stop", "again", "reevaluate", "startup", "promote"} \subseteq Ordinary
  /\ Ordinary \subseteq Places /\ {"give", "clear", "halt", "gone"} \subseteq Places
BY CallsAre DEF Ordinary, Places

\* A caller that does not wait for an answer is not the one that is connected.
LEMMA Unconnected ==
  ASSUME Typed, PipeInv, NEW c \in Callers, ~job[c].sent \/ job[c].at \notin Calls
  PROVE  pipe.client # c /\ ~job[c].sent
BY DEF PipeInv, CallInv

\* An answer, or its absence, moves its caller on.
LEMMA AnswerMoves ==
  ASSUME Typed, PipeInv, NEW c \in Callers, Answered(c) \/ CallFails(c)
  PROVE  /\ Moves(c, Ordinary)
         /\ job'[c].at \notin {"startup", "elevate", "disable"}
         /\ job[c].at \notin {"unset", "elevate", "disable"}
         /\ job[c].at = "startup" =>
              \/ job'[c].at = "unset"
              \/ pipe.at = "reply" /\ pipe.client = c /\ pipe.answer = "ok"
<1> DEFINE heard == {"poll", "resignal", "icon", "idle", "exists", "run", "kill", "stopped",
                     "end", "open", "signal", "unset"}
<1>1. PICK answer \in {"ok", "denied", "no"} :
        /\ Hears(c, answer)
        /\ \/ answer = "no"
           \/ pipe.at = "reply" /\ pipe.client = c /\ answer = pipe.answer
  BY DEF Answered, CallFails, Typed, PipeType
<1>2. job[c].at \in Calls
  BY DEF Answered, CallFails, PipeInv, CallInv
<1>3. answer = "denied" => job[c].at \in {"status", "poll"}
  BY <1>1 DEF PipeInv, CallInv
<1>4. job \in Jobs
  BY DEF Typed
<1>5. Moves(c, heard) /\ (job[c].at = "startup" => job'[c].at = IF answer = "ok" THEN "icon" ELSE "unset")
  BY <1>1, <1>2, <1>3, <1>4, HearsMoves
<1>6. heard \subseteq Ordinary
  BY OrdinaryPlaces
<1>7. job'[c].at \in heard
  BY <1>5 DEF Moves
<1>8. Moves(c, Ordinary)
  BY <1>5, <1>6 DEF Moves
<1>9. job[c].at = "startup" =>
        \/ job'[c].at = "unset"
        \/ pipe.at = "reply" /\ pipe.client = c /\ pipe.answer = "ok"
  BY <1>1, <1>5
<1>10. QED
  BY <1>2, <1>7, <1>8, <1>9, CallsAre

\* So does the work of a caller that is not connected.
LEMMA WorkMoves ==
  ASSUME Typed, PipeInv, NEW c \in Callers,
         \/ TimeOut(c) \/ Exists(c) \/ Run(c) \/ Stopped(c) \/ Wake(c)
         \/ Register(c) \/ Elevate(c) \/ Disable(c) \/ Icon(c)
         \/ c = "setup" /\ Installs
  PROVE  /\ Moves(c, Ordinary) /\ pipe.client # c
         /\ job'[c].at \notin {"startup", "unset"}
         /\ job'[c].at = "disable" => c = "setup" /\ Installs
<1> DEFINE gone == Ordinary \ {"startup", "unset", "disable"}
<1>1. job \in Jobs
  BY DEF Typed
<1>2. \A at \in gone : Go(c, at) \/ Done(c) => Moves(c, gone)
  BY <1>1, Went, OrdinaryPlaces DEF Moves
<1>3. \A ok \in BOOLEAN : Ensured(c, ok) => Moves(c, gone)
  BY <1>1, EnsuredMoves, OrdinaryPlaces DEF Moves
<1>4. /\ Moves(c, gone) \/ (c = "setup" /\ Installs /\ Moves(c, gone \cup {"disable"}))
      /\ ~job[c].sent \/ job[c].at \notin Calls
  <2>1. CASE TimeOut(c)
    BY <1>3, <2>1 DEF TimeOut
  <2>2. CASE Exists(c)
    BY <1>2, <1>3, <2>2, OrdinaryPlaces, CallsAre DEF Exists
  <2>3. CASE Run(c)
    BY <1>2, <1>3, <2>3, OrdinaryPlaces, CallsAre DEF Run
  <2>4. CASE Stopped(c)
    <3>1. CASE c = "setup"
      <4>1. [job[c] EXCEPT !.at = "again"] \in JobType /\ job[c].at = "stopped"
            /\ job[c] \in JobType
        BY <1>1, <2>4, OrdinaryPlaces DEF Stopped, Jobs, JobType
      <4>2. ~job[c].sent
        BY <4>1, Unconnected, CallsAre
      <4>3. job' = [job EXCEPT ![c] = [@ EXCEPT !.at = "again"]]
        BY <2>4, <3>1 DEF Stopped
      <4>4. QED
        BY <1>1, <4>1, <4>2, <4>3, OrdinaryPlaces, CallsAre DEF Moves, Jobs, JobType
    <3>2. CASE c # "setup"
      <4>1. Done(c)
        BY <2>4, <3>2 DEF Stopped, Done
      <4>2. QED
        BY <1>2, <2>4, <4>1, OrdinaryPlaces, CallsAre DEF Stopped
    <3>3. QED
      BY <3>1, <3>2
  <2>5. CASE Wake(c)
    BY <1>2, <2>5, OrdinaryPlaces, CallsAre DEF Wake
  <2>6. CASE Register(c)
    BY <1>2, <2>6, OrdinaryPlaces, CallsAre DEF Register
  <2>7. CASE Elevate(c)
    <3>1. CASE job' = [job EXCEPT ![c] = [@ EXCEPT !.at = "status", !.raised = TRUE]]
      <4>1. [job[c] EXCEPT !.at = "status", !.raised = TRUE] \in JobType /\ job[c] \in JobType
        BY <1>1, OrdinaryPlaces DEF Jobs, JobType
      <4>2. ~job[c].sent /\ job[c].at \notin Calls
        BY <2>7, Unconnected, CallsAre DEF Elevate
      <4>3. QED
        BY <1>1, <3>1, <4>1, <4>2, OrdinaryPlaces DEF Moves, Jobs, JobType
    <3>2. CASE Ensured(c, FALSE)
      BY <1>3, <2>7, <3>2, CallsAre DEF Elevate
    <3>3. QED
      BY <2>7, <3>1, <3>2 DEF Elevate
  <2>8. CASE Disable(c)
    BY <1>2, <2>8, OrdinaryPlaces, CallsAre DEF Disable
  <2>9. CASE Icon(c)
    BY <1>2, <2>9, OrdinaryPlaces, CallsAre DEF Icon
  <2>10. CASE c = "setup" /\ Installs
    <3>1. \A at \in gone \cup {"disable"} : Go(c, at) \/ Done(c) => Moves(c, gone \cup {"disable"})
      BY <1>1, Went, OrdinaryPlaces DEF Moves
    <3>2. Moves(c, gone \cup {"disable"}) /\ job[c].at \in {"install", "enroll", "launch", "disable"}
      BY <2>10, <3>1, OrdinaryPlaces DEF Installs, ReadFlags, Enroll, StartTask, DisableNew
    <3>3. QED
      BY <2>10, <3>2, CallsAre
  <2>11. QED
    BY <2>1, <2>2, <2>3, <2>4, <2>5, <2>6, <2>7, <2>8, <2>9, <2>10
<1>5. pipe.client # c
  BY <1>4, Unconnected
<1>6. /\ Moves(c, Ordinary) /\ job'[c].at \notin {"startup", "unset"}
      /\ job'[c].at = "disable" => c = "setup" /\ Installs
  BY <1>4, OrdinaryPlaces DEF Moves
<1>7. QED
  BY <1>5, <1>6

\* As long as the pipe and the agent that serves it stay, who moves is not connected.
LEMMA PipeKept ==
  ASSUME Typed, PipeInv, NEW c \in Callers, NEW places, Moves(c, places),
         (pipe.client # c /\ UNCHANGED pipe) \/ pipe' = NoPipe,
         pipe'.at # "none" => agent'.at \notin {"off", "boot"}
  PROVE  PipeInv'
<1>1. \A d \in Callers : job'[d].sent => job'[d].at \in Calls
  BY DEF Moves, PipeInv, CallInv
<1>2. CASE pipe.client # c /\ UNCHANGED pipe
  <2>1. pipe.client \in Callers => job'[pipe.client] = job[pipe.client]
    BY <1>2 DEF Moves
  <2>2. QED
    BY <1>1, <1>2, <2>1 DEF PipeInv, CallInv
<1>3. CASE pipe' = NoPipe
  BY <1>1, <1>3, NothingTyped DEF PipeInv, CallInv, Callers
<1>4. QED
  BY <1>2, <1>3

\* The agent ends: its pipe with it, while its callers stand where they stood.
LEMMA EndsTyped ==
  ASSUME Typed, NEW jobs \in Jobs, NEW newTask \in TaskType, AgentEnds(jobs, newTask),
         \A c \in Callers : jobs[c].sent => jobs[c].at \in Calls
  PROVE  /\ agent' \in AgentType /\ pipe' \in PipeType /\ task' \in TaskType /\ job' \in Jobs
         /\ doomed' \subseteq {"agent", "tray", "ui"} /\ quirks' \subseteq Quirks
         /\ PipeInv'
         /\ agent' = NoAgent /\ pipe'.at = "none" /\ task' = newTask
         /\ quirks \ {"unended"} \subseteq quirks'
         /\ Torn(agent.holds) => "torn" \in quirks'
         /\ \A c \in Callers : job'[c].at = jobs[c].at /\ job'[c].cmd = jobs[c].cmd
<1>1. /\ agent' = NoAgent /\ pipe' = NoPipe /\ doomed' \subseteq {"agent", "tray", "ui"}
      /\ task' = newTask
  BY DEF AgentEnds, Typed
<1>2. /\ quirks' \subseteq Quirks /\ quirks \ {"unended"} \subseteq quirks'
      /\ Torn(agent.holds) => "torn" \in quirks'
  BY DEF AgentEnds, Typed, Quirks, PlanQuirks
<1>3. \A c \in Callers : jobs[c] \in JobType /\ job'[c] = [jobs[c] EXCEPT !.target = FALSE]
  BY DEF AgentEnds, Jobs
<1>4. \A c \in Callers :
        /\ job'[c] \in JobType /\ job'[c].at = jobs[c].at /\ job'[c].cmd = jobs[c].cmd
        /\ job'[c].sent = jobs[c].sent
  BY <1>3, ZenonT(60) DEF JobType
<1>5. job' \in Jobs
  BY <1>4 DEF AgentEnds, Jobs
<1>6. PipeInv'
  BY <1>1, <1>4, NothingTyped DEF PipeInv, CallInv, Callers
<1>7. QED
  BY <1>1, <1>2, <1>4, <1>5, <1>6, NothingTyped

\* So it is when it ends by itself.
LEMMA LeavesTyped ==
  ASSUME Typed, PipeInv, AgentEnds(job, Settled) \/ AgentEnds(job, Retried)
  PROVE  /\ agent' \in AgentType /\ pipe' \in PipeType /\ task' \in TaskType /\ job' \in Jobs
         /\ doomed' \subseteq {"agent", "tray", "ui"} /\ quirks' \subseteq Quirks
         /\ PipeInv'
         /\ agent' = NoAgent /\ pipe'.at = "none"
         /\ task'.installed = task.installed /\ task'.trigger = task.trigger
         /\ quirks \ {"unended"} \subseteq quirks'
         /\ Torn(agent.holds) => "torn" \in quirks'
         /\ \A c \in Callers : job'[c].at = job[c].at /\ job'[c].cmd = job[c].cmd
<1>1. PICK newTask \in {Settled, Retried} : AgentEnds(job, newTask)
  OBVIOUS
<1>2. newTask \in TaskType /\ newTask.installed = task.installed /\ newTask.trigger = task.trigger
  BY TasksTyped
<1>3. job \in Jobs /\ \A c \in Callers : job[c].sent => job[c].at \in Calls
  BY DEF Typed, PipeInv, CallInv
<1>4. QED
  BY <1>1, <1>2, <1>3, EndsTyped

\* A caller ends the agent, or it lives on: which callers do, and what else they leave alone.
LEMMA EndingMoves ==
  ASSUME Typed, PipeInv, NEW c \in Callers, Kill(c) \/ End(c) \/ (c = "setup" /\ Halt)
  PROVE  /\ agent' \in AgentType /\ pipe' \in PipeType /\ task' \in TaskType /\ job' \in Jobs
         /\ doomed' \subseteq {"agent", "tray", "ui"} /\ quirks' \subseteq Quirks
         /\ events' \in 0..MaxEvents
         /\ PipeInv'
         /\ agent' = agent \/ (agent' = NoAgent /\ (Torn(agent.holds) => "torn" \in quirks'))
         /\ pipe'.at = "reply" => pipe' = pipe /\ pipe.client # c
         /\ task' \in {task, Settled, Retried, NoTask}
         /\ quirks \ {"unended"} \subseteq quirks'
         /\ UNCHANGED <<setting, plan, copy, flags, ui, tray>>
         /\ \A d \in Callers \ {c} : job'[d].at = job[d].at /\ job'[d].cmd = job[d].cmd
         /\ job[c].at \in {"kill", "end", "halt"}
         /\ job'[c].at \in IF job[c].at = "halt" THEN {"gone", "install"} ELSE {"run", "stopped"}
<1> USE DEF power, setup, history, shell
<1>0. job \in Jobs /\ job[c] \in JobType
  BY DEF Typed, Jobs
<1>1. /\ job[c].at \in {"kill", "end", "halt"} /\ UNCHANGED <<setting, plan, copy, flags, ui, tray>>
      /\ events' \in 0..MaxEvents
  <2>1. job[c].at \in {"kill", "end", "halt"} /\ UNCHANGED <<setting, plan, copy, flags, ui, tray>>
    BY DEF Kill, End, Halt
  <2>2. UNCHANGED events \/ Happens
    BY DEF Kill, End, Halt, Halted, Survives, Strikes
  <2>3. QED
    BY <2>1, <2>2, LifecycleAssumption DEF Happens, Typed
<1>2. PICK at \in IF job[c].at = "halt" THEN {"gone", "install"} ELSE {"run", "stopped"},
           target \in BOOLEAN, newTask \in {Settled, Retried, NoTask} :
        LET jobs == [job EXCEPT ![c] = [@ EXCEPT !.at = at, !.target = target]]
        IN \/ AgentEnds(jobs, newTask)
           \/ /\ job' = jobs /\ task' \in {task, newTask} /\ UNCHANGED <<agent, pipe, doomed>>
              /\ quirks' \in {quirks, quirks \cup {"unended"}}
  <2>1. CASE Kill(c)
    BY <2>1 DEF Kill
  <2>2. CASE End(c) \/ (c = "setup" /\ Halt)
    <3>1. \A at \in Places : [job EXCEPT ![c].at = at]
                             = [job EXCEPT ![c] = [@ EXCEPT !.at = at, !.target = job[c].target]]
      BY <1>0 DEF Jobs, JobType
    <3>2. job[c].target \in BOOLEAN /\ {"stopped", "gone", "install"} \subseteq Places
      BY <1>0, OrdinaryPlaces DEF JobType
    <3>3. CASE End(c)
      <4>1. job[c].at = "end" /\ LET jobs == [job EXCEPT ![c].at = "stopped"]
                                 IN \/ AgentEnds(jobs, Settled)
                                    \/ Survives(jobs, task)
        BY <3>3 DEF End
      <4>2. QED
        BY <3>1, <3>2, <4>1 DEF Survives
    <3>4. CASE c = "setup" /\ Halt
      <4>1. PICK at \in {"gone", "install"}, newTask \in {Settled, NoTask} :
              Halted([job EXCEPT ![c].at = at], newTask)
        BY <3>4 DEF Halt
      <4>2. job[c].at = "halt"
        BY <3>4 DEF Halt
      <4>3. QED
        BY <3>1, <3>2, <4>1, <4>2 DEF Halted, Survives
    <3>5. QED
      BY <2>2, <3>3, <3>4
  <2>3. QED
    BY <2>1, <2>2
<1> DEFINE jobs == [job EXCEPT ![c] = [@ EXCEPT !.at = at, !.target = target]]
<1>3. pipe.client # c /\ ~job[c].sent
  BY <1>1, CallsAre, Unconnected
<1>4. jobs \in Jobs /\ jobs[c].at = at /\ ~jobs[c].sent /\ jobs[c].cmd = job[c].cmd
      /\ \A d \in Callers \ {c} : jobs[d] = job[d]
  BY <1>0, <1>3, OrdinaryPlaces DEF Jobs, JobType
<1> HIDE DEF jobs
<1>5. \A d \in Callers : jobs[d].sent => jobs[d].at \in Calls
  BY <1>4 DEF PipeInv, CallInv
<1>6. newTask \in TaskType
  BY TasksTyped
<1>7. CASE AgentEnds(jobs, newTask)
  <2>1. pipe'.at # "reply" /\ \A d \in Callers : job'[d].at = jobs[d].at /\ job'[d].cmd = jobs[d].cmd
    BY <1>4, <1>5, <1>6, <1>7, EndsTyped
  <2>2. QED
    BY <1>1, <1>4, <1>5, <1>6, <1>7, <2>1, EndsTyped
<1>8. CASE /\ job' = jobs /\ task' \in {task, newTask} /\ UNCHANGED <<agent, pipe, doomed>>
           /\ quirks' \in {quirks, quirks \cup {"unended"}}
  <2>1. Moves(c, {at})
    BY <1>4, <1>8 DEF Moves
  <2>2. PipeInv'
    BY <1>3, <1>8, <2>1, PipeKept DEF PipeInv
  <2>3. quirks' \subseteq Quirks
    BY <1>8 DEF Typed, Quirks
  <2>4. task' \in TaskType /\ job' \in Jobs
    BY <1>4, <1>6, <1>8 DEF Typed
  <2>5. QED
    BY <1>1, <1>3, <1>4, <1>8, <2>2, <2>3, <2>4 DEF Typed
<1>9. QED
  BY <1>2, <1>7, <1>8 DEF jobs

-----------------------------------------------------------------------------
(* Type correctness.                                                       *)

\* Everything starts in its type; nobody is connected.
LEMMA TypeInit == Init => Typed /\ PipeInv
<1> SUFFICES ASSUME Init PROVE Typed /\ PipeInv
  OBVIOUS
<1>1. job \in Jobs /\ \A c \in Callers : ~job[c].sent
  BY NoJobTyped DEF Init, Jobs
<1>2. agent \in AgentType
  BY NothingTyped DEF Init, NoAgent, AgentType
<1>3. ui \in UiType /\ tray \in TrayType
  <2>1. [Process("up") EXCEPT !.listens = TRUE] \in UiType
        /\ [Process("up") EXCEPT !.listens = TRUE] \in TrayType
    BY DEF Process, UiType, TrayType
  <2>2. QED
    BY <2>1, NothingTyped DEF Init
<1>4. task \in TaskType /\ setting \in SettingType /\ flags \in SettingType /\ plan \in Plans
  BY DEF Init, TaskType, SettingType, NoFlags, Plans
<1>5. 0 \in 0..MaxEvents
  BY LifecycleAssumption
<1>6. Typed
  BY <1>1, <1>2, <1>3, <1>4, <1>5, NothingTyped DEF Init, Typed
<1>7. PipeInv
  BY <1>1, NothingTyped DEF Init, PipeInv, CallInv, Callers
<1>8. QED
  BY <1>6, <1>7

\* Faults and commands stay within their bound.
LEMMA HappensTyped ==
  Typed => /\ Happens => events' \in 0..MaxEvents
           /\ UNCHANGED events => events' \in 0..MaxEvents
BY LifecycleAssumption DEF Typed, Happens

\* Windows starts an agent only where there is none, and so no pipe either.
LEMMA LaunchTyped ==
  ASSUME Typed, PipeInv, Launch
  PROVE  /\ agent' \in AgentType /\ quirks' \subseteq Quirks
         /\ pipe.at # "none" => agent'.at \notin {"off", "boot"}
BY NothingTyped DEF Launch, Typed, PipeInv, Quirks, PlanQuirks

\* What the agent does for its lease, from one state of its loop to another.
LEMMA PowerTypeStep ==
  ASSUME Typed, PipeInv, LeaseInv, Boot \/ Recover \/ Record \/ Apply \/ Scan \/ Close
  PROVE  Typed' /\ PipeInv'
<1> USE DEF power, setup, history, shell
<1>0. agent \in AgentType /\ file \in MaybeLease /\ plan \in Plans /\ quirks \subseteq Quirks
      /\ agent.holds \in MaybeLease /\ token \in BOOLEAN
  BY DEF Typed, AgentType
<1>1. \A lease \in MaybeLease : Returned(lease) \in Plans
  BY <1>0, LeaseTyped
<1>2. /\ agent' \in AgentType /\ agent'.at \in {"recover", "loop", "apply"}
      /\ file' \in MaybeLease /\ plan' \in Plans /\ quirks' \subseteq Quirks
  <2>1. CASE Boot
    BY <1>0, <2>1 DEF Boot, AgentType
  <2>2. CASE Recover
    <3>1. agent' \in {[agent EXCEPT !.at = "loop"], [agent EXCEPT !.at = "loop", !.holds = NoLease],
                      [agent EXCEPT !.at = "loop", !.forgot = TRUE]}
      BY <2>2 DEF Recover
    <3>2. agent' \in AgentType /\ agent'.at = "loop"
      BY <1>0, <3>1, NothingTyped DEF AgentType
    <3>3. file' \in {file, NoLease} /\ plan' \in {plan, Returned(agent.holds)} /\ UNCHANGED quirks
      BY <2>2 DEF Recover
    <3>4. QED
      BY <1>0, <1>1, <3>2, <3>3, NothingTyped
  <2>3. CASE Record
    <3>1. PICK m \in Managed, lease \in MaybeLease, next \in {"loop", "apply"}, denied \in BOOLEAN :
            /\ file' \in {file, lease}
            /\ agent' = [agent EXCEPT !.at = next, !.holds = lease, !.forgot = FALSE,
                                      !.denied = denied]
      <4>1. Captured \in Plans
        BY <1>0, LeaseTyped DEF Captured
      <4>2. PICK m \in Managed :
              LET lease == [managed |-> m, back |-> Captured]
                  next  == IF plan = m THEN "loop" ELSE "apply"
              IN /\ file' = IF agent.holds = lease THEN file ELSE lease
                 /\ agent' = [agent EXCEPT !.at = next, !.holds = lease, !.forgot = FALSE,
                                           !.denied = @ /\ next = "apply"]
        BY <2>3 DEF Record
      <4>3. [managed |-> m, back |-> Captured] \in MaybeLease
        BY <4>1, LeaseTyped
      <4> DEFINE lease == [managed |-> m, back |-> Captured]
                 next  == IF plan = m THEN "loop" ELSE "apply"
                 denied == agent.denied /\ next = "apply"
      <4>4. /\ file' \in {file, lease}
            /\ agent' = [agent EXCEPT !.at = next, !.holds = lease, !.forgot = FALSE,
                                      !.denied = denied]
        BY <4>2
      <4>5. next \in {"loop", "apply"} /\ denied \in BOOLEAN
        OBVIOUS
      <4> HIDE DEF lease, next, denied
      <4>6. QED
        BY <4>3, <4>4, <4>5 DEF lease
    <3>2. agent' \in AgentType /\ agent'.at = next
      BY <1>0, <3>1 DEF AgentType
    <3>3. quirks' \subseteq Quirks /\ plan' = plan
      BY <1>0, <2>3 DEF Record, Quirks, PlanQuirks
    <3>4. QED
      BY <1>0, <3>1, <3>2, <3>3
  <2>4. CASE Apply
    <3>1. agent.holds.managed \in Plans
      BY <1>0, <2>4, LeaseTyped DEF Apply, LeaseInv, Plans
    <3>2. agent' = [agent EXCEPT !.at = "loop", !.denied = FALSE]
          /\ plan' \in {plan, agent.holds.managed} /\ UNCHANGED <<file, quirks>>
      BY <2>4 DEF Apply
    <3>3. QED
      BY <1>0, <3>1, <3>2 DEF AgentType
  <2>5. CASE Scan
    BY <1>0, <2>5 DEF Scan, AgentType
  <2>6. CASE Close
    <3>1. agent' \in {agent, [agent EXCEPT !.holds = NoLease, !.denied = FALSE]} /\ agent.at = "loop"
          /\ file' \in {file, NoLease} /\ plan' = Returned(agent.holds)
          /\ quirks' \subseteq quirks \cup {"torn"}
      BY <2>6 DEF Close
    <3>2. agent' \in AgentType /\ agent'.at = "loop"
      BY <1>0, <3>1, NothingTyped DEF AgentType
    <3>3. QED
      BY <1>0, <1>1, <3>1, <3>2, NothingTyped DEF Quirks, PlanQuirks
  <2>7. QED
    BY <2>1, <2>2, <2>3, <2>4, <2>5, <2>6
<1>3. UNCHANGED <<pipe, task, setting, setup, shell, job, doomed>> /\ token' \in BOOLEAN
  BY <1>0 DEF Boot, Recover, Record, Apply, Scan, Close
<1>4. events' \in 0..MaxEvents
  <2>1. UNCHANGED events \/ Happens
    BY DEF Boot, Recover, Record, Wins, Apply, Scan, Close, PowerFails, Strikes
  <2>2. QED
    BY <2>1, HappensTyped
<1>5. QED
  BY <1>2, <1>3, <1>4 DEF Typed, PipeInv, CallInv

\* The other steps of the agent and those of its pipe.
LEMMA AgentTypeStep ==
  ASSUME Typed, PipeInv, LeaseInv, AgentStep \/ PipeStep \/ Retry \/ UserPicks \/ Fault
  PROVE  Typed' /\ PipeInv'
<1> USE DEF power, setup, history, shell
<1>0. agent \in AgentType /\ pipe \in PipeType
  BY DEF Typed
<1>1. CASE Boot \/ Recover \/ Record \/ Apply \/ Scan \/ Close
  BY <1>1, PowerTypeStep
<1>2. CASE HandleShutdown
  <2>1. AgentEnds(job, Settled) /\ UNCHANGED <<token, setting, setup, shell>>
        /\ file' \in {file, NoLease} /\ plan' \in {plan, Returned(agent.holds)}
        /\ (UNCHANGED events \/ Happens)
    BY <1>2 DEF HandleShutdown, LetGo, PowerFails, Strikes
  <2>2. Returned(agent.holds) \in Plans
    BY <1>0, LeaseTyped DEF Typed, AgentType
  <2>3. plan' \in Plans /\ file' \in MaybeLease /\ events' \in 0..MaxEvents
    BY <2>1, <2>2, NothingTyped, HappensTyped DEF Typed
  <2>4. QED
    BY <2>1, <2>3, LeavesTyped DEF Typed
<1>3. CASE Retry
  <2>1. task' \in TaskType
    BY <1>3 DEF Retry, Typed, TaskType
  <2>2. QED
    BY <1>3, <2>1, LaunchTyped DEF Retry, Typed, PipeInv, CallInv
<1>4. CASE UserPicks
  <2>1. plan' \in Plans /\ events' \in 0..MaxEvents /\ quirks' \subseteq quirks
    BY <1>4, HappensTyped DEF UserPicks, Plans
  <2>2. QED
    BY <1>4, <2>1 DEF UserPicks, Typed, PipeInv, CallInv
<1>5. CASE Fault
  <2>1. events' \in 0..MaxEvents /\ UNCHANGED <<setting, power, setup, shell>>
    BY <1>5, HappensTyped DEF Fault, Strikes
  <2>2. CASE AgentEnds(job, Retried) /\ UNCHANGED token
    BY <2>1, <2>2, LeavesTyped DEF Typed
  <2>3. CASE agent' = [agent EXCEPT !.denied = TRUE] /\ UNCHANGED <<pipe, token, task, job, history>>
    <3>1. agent' \in AgentType /\ agent'.at = agent.at
      BY <1>0, <2>3 DEF AgentType
    <3>2. QED
      BY <2>1, <2>3, <3>1 DEF Typed, PipeInv, CallInv
  <2>4. CASE token' = FALSE /\ UNCHANGED <<agent, pipe, task, job, history>>
    BY <2>1, <2>4 DEF Typed, PipeInv, CallInv
  <2>5. QED
    BY <1>5, <2>2, <2>3, <2>4 DEF Fault
<1>6. CASE CreatePipe \/ SilentClient \/ DropSilent
  <2>1. /\ pipe' \in PipeType /\ pipe'.client \notin Callers /\ pipe'.at # "reply"
        /\ pipe'.at # "none" => agent.at \notin {"off", "boot"}
    <3>1. pipe' \in {NoPipe, [NoPipe EXCEPT !.at = "open"], [NoPipe EXCEPT !.at = "dead"],
                     [NoPipe EXCEPT !.at = "busy", !.client = "silent"]}
      BY <1>6 DEF CreatePipe, SilentClient, DropSilent
    <3>2. pipe' \in PipeType /\ pipe'.client \notin Callers /\ pipe'.at # "reply"
      <4>1. CASE pipe' = NoPipe
        BY <4>1, NothingTyped DEF Callers
      <4>2. CASE pipe' = [NoPipe EXCEPT !.at = "open"]
        BY <4>2, NothingTyped DEF PipeType, Callers
      <4>3. CASE pipe' = [NoPipe EXCEPT !.at = "dead"]
        BY <4>3, NothingTyped DEF PipeType, Callers
      <4>4. CASE pipe' = [NoPipe EXCEPT !.at = "busy", !.client = "silent"]
        BY <4>4, NothingTyped DEF PipeType, Callers
      <4>5. QED
        BY <3>1, <4>1, <4>2, <4>3, <4>4
    <3>3. pipe'.at # "none" => agent.at \notin {"off", "boot"}
      BY <1>6, NothingTyped DEF CreatePipe, SilentClient, DropSilent, Up, PipeInv
    <3>4. QED
      BY <3>2, <3>3
  <2>2. events' \in 0..MaxEvents
    BY <1>6, HappensTyped DEF CreatePipe, SilentClient, DropSilent, Strikes, Typed
  <2>3. UNCHANGED <<agent, token, task, setting, power, setup, shell, job, history>>
    BY <1>6 DEF CreatePipe, SilentClient, DropSilent
  <2>4. QED
    BY <2>1, <2>2, <2>3 DEF Typed, PipeInv, CallInv
<1>7. CASE Serve
  <2>1. /\ pipe.at = "busy" /\ pipe.client \in Callers
        /\ UNCHANGED <<token, setting, power, setup, shell, job, doomed, events>>
    BY <1>7 DEF Serve
  <2>2. job[pipe.client].at \in Calls
    BY <2>1 DEF PipeInv, CallInv
  <2>3. PICK answer \in {"ok", "denied", "no"} :
          /\ pipe' = [pipe EXCEPT !.at = "reply", !.answer = answer]
          /\ answer = "denied" => Request[job[pipe.client].at] = "get_status"
    BY <1>7 DEF Serve
  <2>4. Request[job[pipe.client].at] = "get_status" => job[pipe.client].at \in {"status", "poll"}
    BY <2>2, CallsAre DEF Request
  <2>5. pipe' \in PipeType /\ pipe'.at = "reply" /\ pipe'.client = pipe.client
        /\ pipe'.answer = answer
    BY <1>0, <2>3 DEF PipeType
  <2>6. agent' \in AgentType /\ agent'.at = agent.at
    <3>1. agent' \in {agent, [agent EXCEPT !.ask = TRUE]}
      BY <1>7 DEF Serve
    <3>2. QED
      BY <1>0, <3>1 DEF AgentType
  <2>7. task' \in TaskType
    <3>1. task' = task \/ \E trigger \in BOOLEAN : task' = [task EXCEPT !.trigger = trigger]
      BY <1>7 DEF Serve, Typed, TaskType, SettingType
    <3>2. QED
      BY <3>1 DEF Typed, TaskType
  <2>8. quirks' \subseteq quirks
    BY <1>7 DEF Serve
  <2>9. PipeInv'
    BY <2>1, <2>2, <2>3, <2>4, <2>5, <2>6 DEF PipeInv, CallInv
  <2>10. QED
    BY <2>1, <2>5, <2>6, <2>7, <2>8, <2>9 DEF Typed
<1>8. QED
  BY <1>1, <1>2, <1>3, <1>4, <1>5, <1>6, <1>7 DEF AgentStep, PipeStep

\* The steps of the callers, and of the processes that they start and stop.
LEMMA CallerTypeStep ==
  ASSUME Typed, PipeInv, HandoverInv, NEW c \in Callers, Asks(c) \/ TimeOut(c) \/ Works(c)
  PROVE  Typed' /\ PipeInv'
<1> USE DEF power, setup, history, shell
<1>0. job \in Jobs /\ job[c] \in JobType /\ pipe \in PipeType /\ agent \in AgentType
  BY DEF Typed, Jobs
<1>1. CASE Connect(c)
  <2>1. /\ job[c].at \in Calls /\ pipe.at = "open"
        /\ pipe' = [NoPipe EXCEPT !.at = "busy", !.client = c]
        /\ job' = [job EXCEPT ![c].sent = TRUE]
        /\ UNCHANGED <<agent, token, task, setting, power, setup, shell, history, events>>
    BY <1>1 DEF Connect
  <2>2. pipe' \in PipeType /\ pipe'.at = "busy" /\ pipe'.client = c
    BY <2>1, NothingTyped DEF PipeType
  <2>3. /\ job' \in Jobs /\ job'[c].sent
        /\ \A d \in Callers : job'[d].at = job[d].at
        /\ \A d \in Callers \ {c} : job'[d] = job[d]
    BY <1>0, <2>1 DEF Jobs, JobType
  <2>4. PipeInv'
    BY <2>1, <2>2, <2>3 DEF PipeInv, CallInv
  <2>5. QED
    BY <2>1, <2>2, <2>3, <2>4 DEF Typed
<1>2. CASE Answered(c)
  <2>1. Moves(c, Ordinary) /\ pipe' = NoPipe
        /\ UNCHANGED <<agent, token, task, setting, power, setup, shell, history, events>>
    BY <1>2, AnswerMoves DEF Answered
  <2>2. PipeInv'
    BY <2>1, PipeKept, NothingTyped
  <2>3. QED
    BY <2>1, <2>2, NothingTyped DEF Typed, Moves
<1>3. CASE CallFails(c)
  <2>1. Moves(c, Ordinary)
        /\ UNCHANGED <<agent, pipe, token, task, setting, power, setup, shell, history, events>>
    BY <1>3, AnswerMoves DEF CallFails
  <2>2. pipe.client # c
    BY <1>3 DEF CallFails, PipeInv
  <2>3. PipeInv'
    BY <2>1, <2>2, PipeKept DEF PipeInv
  <2>4. QED
    BY <2>1, <2>3 DEF Typed, Moves
<1>4. ASSUME \/ TimeOut(c) \/ Exists(c) \/ Run(c) \/ Stopped(c) \/ Wake(c)
             \/ Register(c) \/ Elevate(c) \/ Disable(c) \/ Icon(c)
             \/ c = "setup" /\ Installs
      PROVE  Typed' /\ PipeInv'
  <2>1. Moves(c, Ordinary) /\ pipe.client # c
    BY <1>4, WorkMoves
  <2>2. UNCHANGED <<pipe, token, setting, power, copy, events>>
    BY <1>4
       DEF TimeOut, Exists, Run, Stopped, Wake, Register, Elevate, Disable, Icon, Installs,
           ReadFlags, Enroll, StartTask, DisableNew
  <2>3. agent' \in AgentType /\ (pipe.at # "none" => agent'.at \notin {"off", "boot"})
        /\ quirks' \subseteq Quirks
    <3>1. CASE Launch
      BY <3>1, LaunchTyped
    <3>2. CASE UNCHANGED agent /\ quirks' \subseteq quirks \cup {"warned", "repaired", "unchecked", "misread"}
      BY <3>2 DEF Typed, PipeInv, Quirks, TriggerQuirks
    <3>3. CASE TimeOut(c) \/ Exists(c) \/ Run(c) \/ Stopped(c) \/ Wake(c) \/ Icon(c)
      BY <3>1, <3>2, <3>3 DEF TimeOut, Exists, Run, Stopped, Wake, Icon
    <3>4. CASE Register(c) \/ Elevate(c) \/ Disable(c)
      BY <3>2, <3>4 DEF Register, Registered, Elevate, Disable
    <3>5. CASE Installs
      BY <3>1, <3>2, <3>5 DEF Installs, ReadFlags, Enroll, StartTask, DisableNew, Obeyed
    <3>6. QED
      BY <1>4, <3>3, <3>4, <3>5
  <2>4. task' \in TaskType /\ flags' \in SettingType
    <3>1. CASE Installs
      <4>1. /\ task' \in {task, [task EXCEPT !.trigger = FALSE],
                         [installed |-> TRUE, trigger |-> TRUE, retry |-> FALSE]}
            /\ flags' \in {flags, setting, NoFlags}
        BY <3>1 DEF Installs, ReadFlags, Enroll, StartTask, DisableNew
      <4>2. NoFlags \in SettingType /\ [installed |-> TRUE, trigger |-> TRUE, retry |-> FALSE] \in TaskType
        BY DEF NoFlags, SettingType, TaskType
      <4>3. [task EXCEPT !.trigger = FALSE] \in TaskType
        BY DEF Typed, TaskType
      <4>4. QED
        BY <4>1, <4>2, <4>3 DEF Typed
    <3>2. CASE Register(c) \/ Elevate(c)
      BY <3>2 DEF Register, Registered, Elevate, Typed, TaskType
    <3>3. CASE Disable(c)
      BY <3>3 DEF Disable, Typed, TaskType
    <3>4. CASE TimeOut(c) \/ Exists(c) \/ Run(c) \/ Stopped(c) \/ Wake(c) \/ Icon(c)
      BY <3>4 DEF TimeOut, Exists, Run, Stopped, Wake, Icon, Typed
    <3>5. QED
      BY <1>4, <3>1, <3>2, <3>3, <3>4
  <2>5. ui' \in UiType /\ tray' \in TrayType /\ doomed' \subseteq {"agent", "tray", "ui"}
    <3>1. ui \in UiType /\ tray \in TrayType /\ doomed \subseteq {"agent", "tray", "ui"}
      BY DEF Typed
    <3>2. [ui EXCEPT !.at = "exiting"] \in UiType /\ Told(tray) \in TrayType
          /\ Hearing("tray", tray) \subseteq {"tray"}
      BY <3>1 DEF Told, Hearing, UiType, TrayType
    <3>3. CASE Installs
      BY <3>1, <3>3, NothingTyped DEF Installs, ReadFlags, Enroll, StartTask, DisableNew
    <3>4. CASE Stopped(c)
      BY <3>1, <3>2, <3>4, NothingTyped DEF Stopped
    <3>5. CASE Icon(c)
      BY <3>1, <3>2, <3>5, NothingTyped DEF Icon
    <3>6. CASE \/ TimeOut(c) \/ Exists(c) \/ Run(c) \/ Wake(c) \/ Register(c)
               \/ Elevate(c) \/ Disable(c)
      BY <3>1, <3>6 DEF TimeOut, Exists, Run, Wake, Register, Elevate, Disable
    <3>7. QED
      BY <1>4, <3>3, <3>4, <3>5, <3>6
  <2>6. PipeInv'
    BY <2>1, <2>2, <2>3, PipeKept
  <2>7. QED
    BY <2>1, <2>2, <2>3, <2>4, <2>5, <2>6 DEF Typed, Moves
<1>5. CASE Kill(c) \/ End(c) \/ (c = "setup" /\ Halt)
  <2>1. token' \in BOOLEAN /\ file' \in MaybeLease
    BY <1>5, NothingTyped DEF Kill, End, Halt, Typed
  <2>2. QED
    BY <1>5, <2>1, EndingMoves DEF Typed
<1>6. CASE c = "setup" /\ (OpenLease \/ Release)
  <2>1. PICK at \in {"give", "clear", "halt"} : Go(c, at)
    BY <1>6 DEF OpenLease, Release
  <2>2. Moves(c, {at})
    BY <1>0, <2>1, Went, OrdinaryPlaces
  <2>3. job[c].at \in {"open", "give", "clear"}
    BY <1>6 DEF OpenLease, Release
  <2>4. pipe.client # c
    BY <2>3, CallsAre, Unconnected
  <2>5. /\ UNCHANGED <<agent, pipe, token, task, setting, flags, shell, doomed>>
        /\ quirks' \subseteq quirks \cup {"overlap", "unreleased"}
        /\ plan' \in {copy.back, plan} /\ (plan' # plan => job["setup"].at = "give")
        /\ file' \in {NoLease, file} /\ copy' \in {NoLease, file, copy}
        /\ (UNCHANGED events \/ Happens)
    BY <1>6 DEF OpenLease, Release, Overlap, PowerFails, Strikes
  <2>6. plan' \in Plans
    BY <2>5, LeaseTyped DEF HandoverInv, Typed
  <2>7. file' \in MaybeLease /\ copy' \in MaybeLease /\ quirks' \subseteq Quirks
        /\ events' \in 0..MaxEvents
    BY <2>5, NothingTyped, HappensTyped DEF Typed, Quirks, PlanQuirks
  <2>8. PipeInv'
    BY <2>2, <2>4, <2>5, PipeKept DEF PipeInv
  <2>9. QED
    BY <2>2, <2>5, <2>6, <2>7, <2>8 DEF Typed, Moves
<1>7. QED
  BY <1>1, <1>2, <1>3, <1>4, <1>5, <1>6 DEF Asks, Works

\* The steps of the tray, the UI and the user.
LEMMA ShellTypeStep ==
  ASSUME Typed, PipeInv, ThreadInv, Listen \/ TrayQuit \/ UiExit \/ UiEnd \/ UserAsks
  PROVE  /\ Typed' /\ PipeInv'
         /\ UNCHANGED <<agent, task, plan, file, copy, flags>>
         /\ quirks' \in {quirks, quirks \ {"unended"}}
         /\ pipe' = pipe \/ pipe' = NoPipe
<1> USE DEF power, setup, history, shell
<1>0. /\ job \in Jobs /\ ui \in UiType /\ tray \in TrayType /\ setting \in SettingType
      /\ doomed \subseteq {"agent", "tray", "ui"}
  BY DEF Typed
<1>1. /\ Told(ui) \in UiType /\ Told(tray) \in TrayType
      /\ [ui EXCEPT !.at = "exiting"] \in UiType
      /\ [ui EXCEPT !.listens = TRUE] \in UiType
      /\ [tray EXCEPT !.listens = TRUE] \in TrayType
      /\ [tray EXCEPT !.mail = FALSE] \in TrayType
  BY <1>0 DEF Told, UiType, TrayType
<1>2. /\ Hearing("tray", tray) \subseteq {"tray"} /\ Hearing("ui", ui) \subseteq {"ui"}
      /\ Running \subseteq {"agent"}
  BY DEF Hearing, Running
<1>3. ASSUME NEW c \in Callers, NEW cmd \in CommandKinds \cup {"none"}, NEW at \in Places,
             job[c].at = "idle", job' = [job EXCEPT ![c] = Doing(cmd, at)], UNCHANGED <<agent, pipe>>
      PROVE  job' \in Jobs /\ PipeInv'
  <2>1. pipe.client # c
    BY <1>3, Unconnected, CallsAre
  <2>2. /\ job' \in Jobs /\ ~job'[c].sent
        /\ \A d \in Callers \ {c} : job'[d] = job[d]
    BY <1>0, <1>3, DoingTyped DEF Jobs
  <2>3. \A d \in Callers : job'[d].sent => job'[d].at \in Calls
    BY <2>2 DEF PipeInv, CallInv
  <2>4. pipe.client \in Callers => job'[pipe.client] = job[pipe.client]
    BY <2>1, <2>2
  <2>5. QED
    BY <1>3, <2>2, <2>3, <2>4 DEF PipeInv, CallInv
<1>4. "stop" \in Places /\ "icon" \in Places
  BY OrdinaryPlaces
<1>5. CASE Listen
  BY <1>0, <1>1, <1>5 DEF Listen, Typed, PipeInv, CallInv
<1>6. CASE TrayQuit
  <2>1. /\ job["tray"].at = "idle" /\ job' = [job EXCEPT !["tray"] = Doing("none", "stop")]
        /\ tray' = [tray EXCEPT !.mail = FALSE] /\ ui' = Told(ui)
        /\ doomed' = doomed \cup Hearing("ui", ui) \cup Running
        /\ quirks' = quirks \ {"unended"}
        /\ UNCHANGED <<agent, pipe, token, task, setting, power, setup, events>>
    BY <1>6 DEF TrayQuit, TrayStops, Stopping
  <2>2. job' \in Jobs /\ PipeInv'
    BY <1>3, <1>4, <2>1 DEF Callers
  <2>3. QED
    BY <1>0, <1>1, <1>2, <2>1, <2>2 DEF Typed
<1>7. CASE UiExit
  BY <1>1, <1>7 DEF UiExit, Typed, PipeInv, CallInv
<1>8. CASE UiEnd
  <2>1. /\ ui' = Process("off") /\ job' = [job EXCEPT !["startup"] = NoJob]
        /\ pipe' = IF pipe.client = "startup" THEN NoPipe ELSE pipe
        /\ doomed' = doomed \ {"ui"}
        /\ UNCHANGED <<agent, token, task, setting, power, setup, tray, quirks, events>>
    BY <1>8 DEF UiEnd
  <2>2. Moves("startup", {"idle"})
    BY <1>0, <2>1, NoJobTyped DEF Moves, Jobs, Callers
  <2>3. pipe' = NoPipe \/ (pipe.client # "startup" /\ UNCHANGED pipe)
    BY <2>1
  <2>4. pipe'.at # "none" => agent'.at \notin {"off", "boot"}
    BY <2>1, <2>3, NothingTyped DEF PipeInv
  <2>5. PipeInv'
    BY <2>2, <2>3, <2>4, PipeKept DEF Callers
  <2>6. QED
    BY <1>0, <2>1, <2>2, <2>5, NothingTyped DEF Typed, Moves
<1>9. CASE UserAsks
  <2>1. events' \in 0..MaxEvents /\ UNCHANGED <<agent, pipe, token, task, power, setup>>
    BY <1>9, HappensTyped DEF UserAsks
  <2>2. /\ job' \in Jobs /\ PipeInv' /\ ui' \in UiType /\ tray' \in TrayType
        /\ setting' \in SettingType /\ doomed' \subseteq {"agent", "tray", "ui"}
        /\ quirks' \in {quirks, quirks \ {"unended"}}
    <3>1. ASSUME NEW cmd \in Commands, WindowCommand(cmd)
          PROVE  /\ job' \in Jobs /\ PipeInv' /\ ui' \in UiType /\ tray' \in TrayType
                 /\ setting' \in SettingType /\ doomed' \subseteq {"agent", "tray", "ui"}
                 /\ quirks' \in {quirks, quirks \ {"unended"}}
      <4>1. First[cmd] \in Places /\ cmd \in CommandKinds
        BY <3>1, OrdinaryPlaces DEF WindowCommand, First, CommandKinds
      <4>2. job' \in Jobs /\ PipeInv'
        BY <1>3, <2>1, <3>1, <4>1 DEF WindowCommand, Free, Callers
      <4>3. setting' \in SettingType
        BY <1>0, <3>1 DEF WindowCommand, SettingType
      <4>4. QED
        BY <1>0, <3>1, <4>2, <4>3 DEF WindowCommand
    <3>2. CASE Open
      <4>1. /\ ui' = Process("up") /\ job' = [job EXCEPT !["startup"] = Doing("none", "icon")]
            /\ job["startup"].at = "idle" /\ UNCHANGED <<setting, tray, doomed, quirks>>
        BY <3>2 DEF Open, ThreadInv
      <4>2. job' \in Jobs /\ PipeInv'
        BY <1>3, <1>4, <2>1, <4>1 DEF Callers
      <4>3. QED
        BY <1>0, <4>1, <4>2, NothingTyped
    <3>3. CASE CloseWindow
      BY <1>0, <1>1, <2>1, <3>3 DEF CloseWindow, PipeInv, CallInv
    <3>4. CASE Exit
      <4>1. job' \in Jobs /\ PipeInv'
        BY <1>3, <1>4, <2>1, <3>4 DEF Exit, Free, Stopping, Callers, CommandKinds
      <4>2. QED
        BY <1>0, <1>1, <1>2, <3>4, <4>1 DEF Exit
    <3>5. CASE TrayExit
      <4>1. job' \in Jobs /\ PipeInv'
        BY <1>3, <1>4, <2>1, <3>5 DEF TrayExit, TrayStops, Stopping, Callers, CommandKinds
      <4>2. QED
        BY <1>0, <1>1, <1>2, <3>5, <4>1 DEF TrayExit, TrayStops
    <3>6. CASE Setup
      <4>1. job' \in Jobs /\ PipeInv'
        BY <1>3, <1>4, <2>1, <3>6 DEF Setup, Stopping, Callers, CommandKinds
      <4>2. QED
        BY <1>0, <1>1, <1>2, <3>6, <4>1 DEF Setup
    <3>7. QED
      BY <1>9, <3>1, <3>2, <3>3, <3>4, <3>5, <3>6 DEF UserAsks
  <2>3. QED
    BY <2>1, <2>2 DEF Typed
<1>10. QED
  BY <1>5, <1>6, <1>7, <1>8, <1>9

-----------------------------------------------------------------------------
(* What the step of a caller may do to the rest.                           *)

\* The handover as the installer goes through it.
HandsOver == OpenLease \/ Release \/ Halt

\* The agent stays, starts or ends.
AgentMoves ==
  \/ agent' = agent
  \/ Launch
  \/ agent' = NoAgent /\ (Torn(agent.holds) => "torn" \in quirks')

\* Only the installer, registering anew, takes back that it could not release.
Forgives(c) == c = "setup" /\ job[c].at = "install"

\* A caller moves alone, an answer on the wire stays or goes, and the setting is the user's.
LEMMA CallerEffects ==
  ASSUME Typed, PipeInv, NEW c \in Callers, Asks(c) \/ TimeOut(c) \/ Works(c)
  PROVE  /\ \A d \in Callers \ {c} : job'[d].at = job[d].at /\ job'[d].cmd = job[d].cmd
         /\ pipe'.at = "reply" => pipe' = pipe /\ pipe.client # c
         /\ UNCHANGED setting /\ (UNCHANGED flags \/ Forgives(c))
         /\ job[c].at # "idle"
         /\ ui'.at = ui.at \/ ui'.at = "exiting"
         /\ quirks \cap {"overlap", "torn", "stale"} \subseteq quirks'
         /\ ~(c = "setup" /\ HandsOver) =>
              /\ UNCHANGED <<plan, file, copy>>
              /\ job[c].at \in Ordinary /\ job'[c].at \in Ordinary
              /\ "unreleased" \in quirks' <=> "unreleased" \in quirks /\ ~Forgives(c)
              /\ AgentMoves
<1> USE DEF power, setup, history, shell
<1>0. job \in Jobs /\ job[c] \in JobType /\ ui \in UiType
  BY DEF Typed, Jobs
<1>1. CASE Asks(c)
  <2>1. /\ UNCHANGED <<agent, token, task, setting, power, setup, shell, history, events>>
        /\ pipe'.at = "reply" => pipe' = pipe /\ pipe.client # c
        /\ \A d \in Callers \ {c} : job'[d] = job[d]
        /\ job'[c].at \in Ordinary
    <3>1. CASE Connect(c)
      <4>1. /\ job[c].at \in Calls
            /\ pipe' = [NoPipe EXCEPT !.at = "busy", !.client = c]
            /\ job' = [job EXCEPT ![c].sent = TRUE]
            /\ UNCHANGED <<agent, token, task, setting, power, setup, shell, history, events>>
        BY <3>1 DEF Connect
      <4>2. pipe'.at = "busy"
        BY <4>1, NothingTyped DEF PipeType
      <4>3. job'[c].at = job[c].at /\ \A d \in Callers \ {c} : job'[d] = job[d]
        BY <1>0, <4>1 DEF Jobs, JobType
      <4>4. QED
        BY <4>1, <4>2, <4>3, CallsAre, OrdinaryPlaces
    <3>2. CASE Answered(c)
      <4>1. Moves(c, Ordinary) /\ pipe' = NoPipe
            /\ UNCHANGED <<agent, token, task, setting, power, setup, shell, history, events>>
        BY <3>2, AnswerMoves DEF Answered
      <4>2. QED
        BY <4>1, NothingTyped DEF Moves
    <3>3. CASE CallFails(c)
      <4>1. Moves(c, Ordinary)
            /\ UNCHANGED <<agent, pipe, token, task, setting, power, setup, shell, history, events>>
        BY <3>3, AnswerMoves DEF CallFails
      <4>2. pipe.client # c
        BY <3>3 DEF CallFails, PipeInv, CallInv
      <4>3. QED
        BY <4>1, <4>2 DEF Moves
    <3>4. QED
      BY <1>1, <3>1, <3>2, <3>3 DEF Asks
  <2>2. job[c].at \in Calls
    BY <1>1 DEF Asks, Connect, Answered, CallFails, PipeInv, CallInv
  <2>3. job[c].at \in Ordinary /\ job[c].at # "idle" /\ ~Forgives(c)
    BY <2>2, CallsAre, OrdinaryPlaces DEF Forgives
  <2>4. QED
    BY <2>1, <2>3 DEF AgentMoves
<1>2. CASE \/ TimeOut(c) \/ Exists(c) \/ Run(c) \/ Stopped(c) \/ Wake(c)
           \/ Register(c) \/ Elevate(c) \/ Disable(c) \/ Icon(c)
           \/ c = "setup" /\ Installs
  <2>1. Moves(c, Ordinary) /\ pipe.client # c
    BY <1>2, WorkMoves
  <2>2. UNCHANGED <<pipe, token, setting, power, copy, events>>
    BY <1>2
       DEF TimeOut, Exists, Run, Stopped, Wake, Register, Elevate, Disable, Icon, Installs,
           ReadFlags, Enroll, StartTask, DisableNew
  <2>3. job[c].at \in {"poll", "exists", "run", "stopped", "signal", "find", "resignal", "register",
                       "unset", "elevate", "icon", "install", "enroll", "launch", "disable"}
    BY <1>2
       DEF TimeOut, Exists, Run, Stopped, Wake, Register, Elevate, Disable, Icon, Installs,
           ReadFlags, Enroll, StartTask, DisableNew
  <2>4. ui'.at = ui.at \/ ui'.at = "exiting"
    <3>1. ui' = ui \/ ui' = [ui EXCEPT !.at = "exiting"]
      BY <1>2
         DEF TimeOut, Exists, Run, Stopped, Wake, Register, Elevate, Disable, Icon, Installs,
             ReadFlags, Enroll, StartTask, DisableNew
    <3>2. QED
      BY <1>0, <3>1 DEF UiType
  <2>5. /\ quirks \cap {"overlap", "torn", "stale"} \subseteq quirks'
        /\ "unreleased" \in quirks' <=> "unreleased" \in quirks /\ ~Forgives(c)
        /\ agent' = agent \/ Launch
        /\ UNCHANGED flags \/ Forgives(c)
    <3>1. CASE TimeOut(c) \/ Exists(c) \/ Run(c) \/ Stopped(c) \/ Wake(c) \/ Icon(c)
      BY <3>1 DEF TimeOut, Exists, Run, Launch, Stopped, Wake, Icon, Forgives
    <3>2. CASE Register(c) \/ Elevate(c) \/ Disable(c)
      BY <3>2 DEF Register, Registered, Elevate, Disable, TriggerQuirks, Forgives
    <3>3. CASE c = "setup" /\ ReadFlags
      BY <3>3 DEF ReadFlags, Forgives
    <3>4. CASE c = "setup" /\ (Enroll \/ StartTask \/ DisableNew)
      BY <3>4 DEF Enroll, StartTask, DisableNew, Obeyed, Launch, TriggerQuirks, Forgives
    <3>5. QED
      BY <1>2, <3>1, <3>2, <3>3, <3>4 DEF Installs
  <2>6. job[c].at \in Ordinary /\ job[c].at # "idle"
    BY <2>3, OrdinaryPlaces
  <2>7. QED
    BY <2>1, <2>2, <2>4, <2>5, <2>6 DEF Moves, AgentMoves
<1>3. CASE Kill(c) \/ End(c) \/ (c = "setup" /\ Halt)
  <2>1. /\ \A d \in Callers \ {c} : job'[d].at = job[d].at /\ job'[d].cmd = job[d].cmd
        /\ pipe'.at = "reply" => pipe' = pipe /\ pipe.client # c
        /\ UNCHANGED <<setting, plan, copy, flags, ui>>
        /\ job[c].at \in {"kill", "end", "halt"}
        /\ quirks \ {"unended"} \subseteq quirks'
    BY <1>3, EndingMoves
  <2>2. ASSUME ~(c = "setup" /\ HandsOver)
        PROVE  /\ UNCHANGED file /\ job[c].at \in Ordinary /\ job'[c].at \in Ordinary
               /\ "unreleased" \in quirks' <=> "unreleased" \in quirks /\ ~Forgives(c)
               /\ AgentMoves
    <3>1. Kill(c) \/ End(c)
      BY <1>3, <2>2 DEF HandsOver
    <3>2. UNCHANGED file /\ job[c].at \in {"kill", "end"}
          /\ ("unreleased" \in quirks' => "unreleased" \in quirks)
      BY <3>1 DEF Kill, End, AgentEnds, Survives
    <3>3. job'[c].at \in {"run", "stopped"} /\ AgentMoves
      BY <1>3, <3>2, EndingMoves DEF AgentMoves
    <3>4. QED
      BY <2>1, <3>2, <3>3, OrdinaryPlaces DEF Forgives
  <2>3. QED
    BY <2>1, <2>2
<1>4. CASE c = "setup" /\ (OpenLease \/ Release)
  <2>1. PICK at \in {"give", "clear", "halt"} : Go(c, at)
    BY <1>4 DEF OpenLease, Release
  <2>2. Moves(c, {at})
    BY <1>0, <2>1, Went, OrdinaryPlaces
  <2>3. job[c].at \in {"open", "give", "clear"}
    BY <1>4 DEF OpenLease, Release
  <2>4. pipe.client # c
    BY <2>3, CallsAre, Unconnected
  <2>5. /\ UNCHANGED <<pipe, setting, flags, shell>>
        /\ quirks \subseteq quirks'
    BY <1>4 DEF OpenLease, Release
  <2>6. QED
    BY <1>4, <2>2, <2>3, <2>4, <2>5 DEF Moves, HandsOver
<1>5. QED
  BY <1>1, <1>2, <1>3, <1>4 DEF Works

\* The thread begins and ends with its process.
LEMMA ThreadStep ==
  ASSUME Typed, PipeInv, ThreadInv, Next
  PROVE  ThreadInv'
<1> USE DEF power, setup, history, shell
<1>0. job \in Jobs /\ ui \in UiType
  BY DEF Typed
<1>1. CASE PipeStep \/ Boot \/ Recover \/ Record \/ Apply \/ Scan \/ Close \/ Retry \/ UserPicks
  BY <1>1 DEF PipeStep, CreatePipe, SilentClient, DropSilent, Serve, Boot, Recover, Record, Apply,
              Scan, Close, Retry, UserPicks, ThreadInv
<1>2. CASE HandleShutdown \/ Fault
  <2>1. UNCHANGED shell /\ (AgentEnds(job, Settled) \/ AgentEnds(job, Retried) \/ UNCHANGED job)
    BY <1>2 DEF HandleShutdown, Fault
  <2>2. job'["startup"].at = job["startup"].at
    BY <2>1, LeavesTyped DEF Callers
  <2>3. QED
    BY <2>1, <2>2 DEF ThreadInv
<1>3. CASE \E c \in Callers : Asks(c) \/ TimeOut(c) \/ Works(c)
  <2>1. PICK c \in Callers : Asks(c) \/ TimeOut(c) \/ Works(c)
    BY <1>3
  <2>2. /\ \A d \in Callers \ {c} : job'[d].at = job[d].at
        /\ job[c].at # "idle" /\ (ui'.at = ui.at \/ ui'.at = "exiting")
    BY <2>1, CallerEffects
  <2>3. QED
    BY <2>2 DEF ThreadInv, Callers
<1>4. CASE Listen \/ TrayQuit \/ UiExit
  <2>1. /\ ui' \in {ui, [ui EXCEPT !.at = "exiting"], [ui EXCEPT !.listens = TRUE], Told(ui)}
        /\ job' = job \/ job' = [job EXCEPT !["tray"] = Doing("none", "stop")]
    BY <1>4 DEF Listen, TrayQuit, TrayStops, Stopping, UiExit
  <2>2. ui'.at = ui.at \/ ui'.at = "exiting"
    BY <1>0, <2>1 DEF UiType, Told
  <2>3. job'["startup"] = job["startup"]
    BY <1>0, <2>1 DEF Jobs, Callers
  <2>4. QED
    BY <2>2, <2>3 DEF ThreadInv
<1>5. CASE UiEnd
  BY <1>0, <1>5, NoJobTyped DEF UiEnd, ThreadInv, Jobs, Callers
<1>6. CASE UserAsks
  <2>1. CASE Open
    BY <2>1 DEF Open, Process, ThreadInv
  <2>2. CASE ~Open
    <3>1. ui' \in {ui, [ui EXCEPT !.at = "exiting"], Told(ui)}
      BY <1>6, <2>2 DEF UserAsks, WindowCommand, CloseWindow, Exit, TrayExit, TrayStops, Setup
    <3>2. \E c \in Callers \ {"startup"} : job' = job \/ job' = [job EXCEPT ![c] = job'[c]]
      BY <1>0, <1>6, <2>2
         DEF UserAsks, WindowCommand, CloseWindow, Exit, TrayExit, TrayStops, Setup, Stopping, Callers,
             Jobs
    <3>3. ui'.at = ui.at \/ ui'.at = "exiting"
      BY <1>0, <3>1 DEF UiType, Told
    <3>4. job'["startup"] = job["startup"]
      BY <1>0, <3>2 DEF Jobs, Callers
    <3>5. QED
      BY <3>3, <3>4 DEF ThreadInv
  <2>3. QED
    BY <2>1, <2>2
<1>7. QED
  BY <1>1, <1>2, <1>3, <1>4, <1>5, <1>6 DEF Next, AgentStep

-----------------------------------------------------------------------------
(* The trigger follows the setting.                                        *)

\* What InSync compares stays, and no excuse is taken back.
SyncKept ==
  /\ task'.installed = task.installed /\ task'.trigger = task.trigger
  /\ setting'.autostart = setting.autostart /\ quirks \cap TriggerQuirks \subseteq quirks'

\* What is kept so keeps it so.
LEMMA KeptInSync == SyncKept /\ InSync => InSync'
BY DEF SyncKept, InSync

\* Wherever a caller changes the task or takes an excuse back, the trigger is right, or the
\* installer is to disable it yet; and the window goes on following it until then.
LEMMA CallerSync ==
  ASSUME Typed, PipeInv, AutostartInv, NEW c \in Callers, Asks(c) \/ TimeOut(c) \/ Works(c)
  PROVE  /\ SyncKept \/ InSync' \/ (c = "setup" /\ Disabling')
         /\ c = "setup" /\ Disabling => InSync'
         /\ c = "setup" /\ Disabling' => ~flags'.autostart
         /\ job[c].cmd = "autostart" /\ job[c].at \in {"unset", "elevate"} =>
              \/ InSync'
              \/ job'[c].at = "elevate" /\ job'[c].cmd = "autostart"
<1> USE DEF power, setup, history, shell
<1>0. job \in Jobs /\ job[c] \in JobType /\ task \in TaskType /\ setting \in SettingType
  BY DEF Typed, Jobs
<1>1. CASE Asks(c) \/ TimeOut(c) \/ Exists(c) \/ Run(c) \/ Stopped(c) \/ Wake(c) \/ Icon(c)
  <2>1. UNCHANGED <<task, setting>> /\ quirks \subseteq quirks'
    BY <1>1 DEF Asks, Connect, Answered, CallFails, TimeOut, Exists, Run, Launch, Stopped, Wake, Icon
  <2>2. job[c].at \notin {"unset", "elevate", "disable"} /\ (c = "setup" => ~Disabling')
    <3>1. CASE Connect(c)
      <4>1. job'[c].at = job[c].at /\ job[c].at \in Calls
        BY <1>0, <3>1 DEF Connect, Jobs, JobType
      <4>2. QED
        BY <4>1, CallsAre DEF Disabling
    <3>2. CASE Answered(c) \/ CallFails(c)
      BY <3>2, AnswerMoves DEF Disabling
    <3>3. CASE TimeOut(c) \/ Exists(c) \/ Run(c) \/ Stopped(c) \/ Wake(c) \/ Icon(c)
      <4>1. job[c].at \in {"poll", "exists", "run", "stopped", "signal", "find", "resignal", "icon"}
        BY <3>3 DEF TimeOut, Exists, Run, Stopped, Wake, Icon
      <4>2. ~(c = "setup" /\ Installs)
        BY <4>1 DEF Installs, ReadFlags, Enroll, StartTask, DisableNew
      <4>3. QED
        BY <3>3, <4>1, <4>2, WorkMoves DEF Disabling
    <3>4. QED
      BY <1>1, <3>1, <3>2, <3>3 DEF Asks
  <2>3. QED
    BY <2>1, <2>2 DEF SyncKept, Disabling
<1>2. CASE Kill(c) \/ End(c) \/ (c = "setup" /\ Halt)
  <2>1. /\ task' \in {task, Settled, Retried, NoTask} /\ setting' = setting
        /\ quirks \ {"unended"} \subseteq quirks'
        /\ job[c].at \in {"kill", "end", "halt"} /\ job'[c].at \in {"gone", "install", "run", "stopped"}
    BY <1>2, EndingMoves
  <2>2. CASE task' = NoTask
    BY <2>1, <2>2, TasksTyped DEF InSync, Disabling
  <2>3. CASE task' # NoTask
    BY <2>1, <2>3, TasksTyped DEF SyncKept, TriggerQuirks, Disabling
  <2>4. QED
    BY <2>2, <2>3
<1>3. ASSUME Registered, setting' = setting
      PROVE  InSync'
  BY <1>0, <1>3 DEF Registered, InSync, TaskType, SettingType, TriggerQuirks
<1>4. CASE Register(c) \/ Elevate(c) \/ Disable(c)
  <2>1. UNCHANGED setting /\ job[c].at \in {"register", "unset", "elevate"} /\ job'[c].at # "disable"
    <3>1. UNCHANGED setting /\ job[c].at \in {"register", "unset", "elevate"}
      BY <1>4 DEF Register, Elevate, Disable
    <3>2. ~(c = "setup" /\ Installs)
      BY <3>1 DEF Installs, ReadFlags, Enroll, StartTask, DisableNew
    <3>3. QED
      BY <1>4, <3>1, <3>2, WorkMoves
  <2>2. \/ InSync'
        \/ SyncKept /\ job[c].at = "elevate" /\ job[c].cmd # "autostart"
        \/ SyncKept /\ job'[c].at = "elevate" /\ job'[c].cmd = job[c].cmd
    <3>1. CASE Registered
      BY <1>3, <2>1, <3>1
    <3>2. CASE Register(c) /\ ~Registered
      <4>1. Go(c, "elevate") /\ UNCHANGED <<task, setting, quirks>>
        BY <3>2 DEF Register
      <4>2. job'[c].at = "elevate" /\ job'[c].cmd = job[c].cmd
        BY <1>0, <4>1 DEF Go, Jobs, JobType
      <4>3. QED
        BY <4>1, <4>2 DEF SyncKept
    <3>3. CASE Elevate(c) /\ ~Registered
      BY <3>3 DEF Elevate, SyncKept, InSync, TriggerQuirks
    <3>4. CASE Disable(c)
      <4>1. ~setting.autostart /\ UNCHANGED setting
        BY <3>4 DEF Disable
      <4>2. CASE task' = [task EXCEPT !.trigger = @ /\ ~task.installed]
        <5>1. task'.installed => task'.trigger = FALSE
          BY <1>0, <4>2 DEF TaskType
        <5>2. QED
          BY <1>0, <4>1, <5>1 DEF InSync, SettingType
      <4>3. CASE quirks' = quirks \cup {"warned"}
        BY <4>3 DEF InSync, TriggerQuirks
      <4>4. QED
        BY <3>4, <4>2, <4>3 DEF Disable
    <3>5. QED
      BY <1>4, <3>1, <3>2, <3>3, <3>4
  <2>3. QED
    BY <2>1, <2>2 DEF Disabling
<1>5. CASE c = "setup" /\ (OpenLease \/ Release)
  <2>1. /\ UNCHANGED <<task, setting>> /\ quirks \subseteq quirks'
        /\ job[c].at \in {"open", "give", "clear"}
        /\ \E at \in {"give", "clear", "halt"} : Go(c, at)
    BY <1>5 DEF OpenLease, Release
  <2>2. job'[c].at # "disable"
    BY <1>0, <2>1 DEF Go, Jobs, JobType
  <2>3. QED
    BY <1>5, <2>1, <2>2 DEF SyncKept, Disabling
<1>6. CASE c = "setup" /\ Installs
  <2>1. UNCHANGED setting /\ job[c].at \in {"install", "enroll", "launch", "disable"}
    BY <1>6 DEF Installs, ReadFlags, Enroll, StartTask, DisableNew
  <2>2. ASSUME Obeyed = quirks', task'.trigger = flags.autostart
        PROVE  InSync'
    BY <2>1, <2>2 DEF Obeyed, InSync, TriggerQuirks
  <2>3. CASE ReadFlags
    <3>1. Go(c, "enroll") /\ UNCHANGED task /\ quirks' = quirks \ {"unreleased"}
          /\ job[c].at = "install"
      BY <1>6, <2>3 DEF ReadFlags
    <3>2. job'[c].at = "enroll"
      BY <1>0, <3>1, OrdinaryPlaces DEF Go, Jobs, JobType
    <3>3. QED
      BY <1>6, <2>1, <3>1, <3>2 DEF SyncKept, Disabling, TriggerQuirks
  <2>4. CASE Enroll
    <3>1. CASE Done(c) /\ UNCHANGED <<task, quirks>>
      <4>1. job'[c].at = "idle" /\ job[c].at = "enroll"
        BY <1>0, <1>6, <2>4, <3>1, NoJobTyped DEF Enroll, Done, Jobs
      <4>2. QED
        BY <1>6, <2>1, <3>1, <4>1 DEF SyncKept, Disabling
    <3>2. CASE /\ Go(c, IF flags.autostart THEN "launch" ELSE "disable")
               /\ task' = [installed |-> TRUE, trigger |-> TRUE, retry |-> FALSE]
               /\ quirks' = IF flags.autostart THEN Obeyed ELSE quirks
      <4>1. job'[c].at = (IF flags.autostart THEN "launch" ELSE "disable")
        BY <1>0, <3>2 DEF Go, Jobs, JobType
      <4>2. flags.autostart => InSync'
        <5>1. flags \in SettingType
          BY DEF Typed
        <5>2. SUFFICES ASSUME flags.autostart PROVE InSync'
          OBVIOUS
        <5>3. flags.autostart = TRUE
          BY <5>1, <5>2 DEF SettingType
        <5>4. QED
          BY <2>2, <3>2, <5>3
      <4>3. UNCHANGED flags /\ job[c].at = "enroll"
        BY <1>6, <2>4 DEF Enroll
      <4>4. QED
        BY <1>6, <4>1, <4>2, <4>3 DEF Disabling
    <3>3. QED
      BY <1>6, <2>4, <3>1, <3>2 DEF Enroll
  <2>5. CASE StartTask
    <3>1. Done(c) /\ UNCHANGED task /\ quirks \subseteq quirks' /\ job[c].at = "launch"
      BY <1>6, <2>5 DEF StartTask, Launch
    <3>2. job'[c].at = "idle"
      BY <1>0, <3>1, NoJobTyped DEF Done, Jobs
    <3>3. QED
      BY <1>6, <2>1, <3>1, <3>2 DEF SyncKept, Disabling
  <2>6. CASE DisableNew
    <3>1. Done(c) /\ Disabling
      BY <1>6, <2>6 DEF DisableNew, Disabling
    <3>2. job'[c].at = "idle" /\ flags.autostart = FALSE
      <4>1. flags \in SettingType /\ ~flags.autostart
        BY <3>1 DEF Typed, AutostartInv
      <4>2. QED
        BY <1>0, <3>1, <4>1, NoJobTyped DEF Done, Jobs, SettingType
    <3>3. CASE task' = [task EXCEPT !.trigger = FALSE] /\ quirks' = Obeyed
      <4>1. task'.trigger = FALSE
        BY <1>0, <3>3 DEF TaskType
      <4>2. InSync'
        BY <2>2, <3>2, <3>3, <4>1
      <4>3. QED
        BY <1>6, <2>1, <2>6, <3>2, <4>2 DEF Disabling
    <3>4. CASE /\ quirks' = quirks \cup IF task.trigger = setting.autostart THEN {} ELSE {"unchecked"}
               /\ UNCHANGED task
      <4>1. InSync'
        BY <2>1, <3>4 DEF InSync, TriggerQuirks
      <4>2. QED
        BY <1>6, <2>1, <2>6, <3>2, <4>1 DEF Disabling
    <3>5. QED
      BY <2>6, <3>3, <3>4 DEF DisableNew
  <2>7. QED
    BY <1>6, <2>3, <2>4, <2>5, <2>6 DEF Installs
<1>7. QED
  BY <1>1, <1>2, <1>4, <1>5, <1>6 DEF Works

\* Nobody else lets the trigger fall behind: saving the setting begins to follow it.
LEMMA AutostartStep ==
  ASSUME Typed, PipeInv, AutostartInv, Next, Typed'
  PROVE  AutostartInv'
<1> USE DEF power, setup, history, shell
<1>0. /\ job \in Jobs /\ job["window"] \in JobType /\ task \in TaskType /\ setting \in SettingType
      /\ pipe \in PipeType
  BY DEF Typed, Jobs, Callers
\* A step in which the window stands still and nothing is answered.
<1>1. ASSUME job'["window"].at = job["window"].at, job'["window"].cmd = job["window"].cmd,
             InSync \/ Disabling => InSync' \/ Disabling', Disabling' => ~flags'.autostart,
             pipe'.at = "reply" => pipe' = pipe
      PROVE  AutostartInv'
  BY <1>1 DEF AutostartInv, Following
\* One in which the installer does so, too.
<1>2. ASSUME job'["window"].at = job["window"].at, job'["window"].cmd = job["window"].cmd,
             job'["setup"].at = job["setup"].at, UNCHANGED flags,
             SyncKept \/ InSync', pipe'.at = "reply" => pipe' = pipe
      PROVE  AutostartInv'
  BY <1>1, <1>2, KeptInSync DEF AutostartInv, Disabling
<1>3. CASE \/ Boot \/ Recover \/ Record \/ Apply \/ Scan \/ Close \/ Retry \/ UserPicks
           \/ CreatePipe \/ SilentClient \/ DropSilent
  <2>1. UNCHANGED <<job, setting, flags>> /\ quirks \cap TriggerQuirks \subseteq quirks'
    BY <1>3 DEF Boot, Recover, Record, Apply, Scan, Close, Retry, Launch, UserPicks, CreatePipe,
                SilentClient, DropSilent, TriggerQuirks
  <2>2. task' = task \/ task' = [task EXCEPT !.retry = FALSE]
    BY <1>3 DEF Boot, Recover, Record, Apply, Scan, Close, Retry, UserPicks, CreatePipe,
                SilentClient, DropSilent
  <2>3. SyncKept
    BY <1>0, <2>1, <2>2 DEF SyncKept, TaskType
  <2>4. pipe'.at = "reply" => pipe' = pipe
    <3>1. pipe' = pipe \/ pipe' = NoPipe \/ pipe' = [NoPipe EXCEPT !.at = "open"]
          \/ pipe' = [NoPipe EXCEPT !.at = "dead"]
          \/ pipe' = [NoPipe EXCEPT !.at = "busy", !.client = "silent"]
      BY <1>3 DEF Boot, Recover, Record, Apply, Scan, Close, Retry, UserPicks, CreatePipe,
                  SilentClient, DropSilent
    <3>2. QED
      BY <3>1, NothingTyped DEF PipeType
  <2>5. QED
    BY <1>2, <2>1, <2>3, <2>4
<1>4. CASE HandleShutdown \/ Fault
  <2>1. UNCHANGED <<setting, flags>>
    BY <1>4 DEF HandleShutdown, Fault
  <2>2. CASE AgentEnds(job, Settled) \/ AgentEnds(job, Retried)
    <3>1. /\ pipe'.at = "none"
          /\ task'.installed = task.installed /\ task'.trigger = task.trigger
          /\ quirks \ {"unended"} \subseteq quirks'
          /\ \A c \in Callers : job'[c].at = job[c].at /\ job'[c].cmd = job[c].cmd
      BY <2>2, LeavesTyped
    <3>2. QED
      BY <1>2, <2>1, <3>1 DEF SyncKept, Callers, TriggerQuirks
  <2>3. CASE UNCHANGED <<pipe, task, job, history>>
    BY <1>2, <2>1, <2>3 DEF SyncKept
  <2>4. QED
    BY <1>4, <2>2, <2>3 DEF HandleShutdown, Fault
<1>5. CASE Serve
  <2>1. pipe.client \in Callers /\ UNCHANGED <<setting, flags, job>>
    BY <1>5 DEF Serve
  <2>2. (Disabling' <=> Disabling) /\ (Following' <=> Following)
    BY <2>1 DEF Disabling, Following
  <2> DEFINE asks == Request[job[pipe.client].at]
  <2>3. CASE /\ task.installed /\ task' = [task EXCEPT !.trigger = setting.autostart]
             /\ quirks' = quirks \ TriggerQuirks
    <3>1. InSync'
      BY <1>0, <2>1, <2>3 DEF InSync, TaskType, SettingType
    <3>2. QED
      BY <2>1, <2>2, <3>1 DEF AutostartInv
  <2>4. CASE UNCHANGED <<task, quirks>> /\ (asks = "set_startup" => pipe'.answer = "no")
    <3>1. pipe'.client = pipe.client
      BY <1>0, <1>5 DEF Serve, PipeType
    <3>2. pipe'.client = "window" /\ job["window"].at = "startup" => asks = "set_startup"
      BY <3>1, CallsAre DEF Request
    <3>3. InSync' <=> InSync
      BY <2>1, <2>4 DEF InSync
    <3>4. QED
      BY <2>1, <2>2, <2>4, <3>2, <3>3 DEF AutostartInv
  <2>5. QED
    <3>1. \A answer \in {"ok", "denied", "no"} :
            [pipe EXCEPT !.at = "reply", !.answer = answer].answer = answer
      BY <1>0 DEF PipeType
    <3>2. QED
      BY <1>5, <2>3, <2>4, <3>1 DEF Serve
<1>6. CASE \E c \in Callers : Asks(c) \/ TimeOut(c) \/ Works(c)
  <2>1. PICK c \in Callers : Asks(c) \/ TimeOut(c) \/ Works(c)
    BY <1>6
  <2>2. /\ \A d \in Callers \ {c} : job'[d].at = job[d].at /\ job'[d].cmd = job[d].cmd
        /\ pipe'.at = "reply" => pipe' = pipe /\ pipe.client # c
        /\ UNCHANGED flags \/ Forgives(c)
    BY <2>1, CallerEffects
  <2>3. /\ SyncKept \/ InSync' \/ (c = "setup" /\ Disabling')
        /\ c = "setup" /\ Disabling => InSync'
        /\ c = "setup" /\ Disabling' => ~flags'.autostart
        /\ job[c].cmd = "autostart" /\ job[c].at \in {"unset", "elevate"} =>
             \/ InSync'
             \/ job'[c].at = "elevate" /\ job'[c].cmd = "autostart"
    BY <2>1, CallerSync
  <2>4. CASE c = "setup"
    BY <1>1, <2>2, <2>3, <2>4, KeptInSync DEF Callers
  <2>5. CASE c \notin {"setup", "window"}
    BY <1>2, <2>2, <2>3, <2>5 DEF Callers, Forgives
  <2>6. CASE c = "window"
    <3>1. InSync => InSync'
      BY <2>3, <2>6, KeptInSync
    <3>2. ~(pipe'.at = "reply" /\ pipe'.client = "window")
      BY <2>2, <2>6
    <3>3. (Disabling' <=> Disabling) /\ UNCHANGED flags
      BY <2>2, <2>6 DEF Disabling, Forgives, Callers
    <3>4. job["window"].at = "startup" /\ job["window"].cmd = "autostart" =>
            InSync' \/ Disabling' \/ Following'
      <4>1. SUFFICES ASSUME job["window"].at = "startup", job["window"].cmd = "autostart"
                     PROVE  InSync' \/ Disabling' \/ Following'
        OBVIOUS
      <4>2. CASE Connect(c)
        <5>1. job'["window"].at = "startup" /\ job'["window"].cmd = "autostart"
          BY <1>0, <2>6, <4>1, <4>2 DEF Connect, Jobs, JobType
        <5>2. QED
          BY <5>1 DEF Following
      <4>3. CASE Answered(c) \/ CallFails(c)
        <5>1. /\ Moves(c, Ordinary)
              /\ \/ job'[c].at = "unset"
                 \/ pipe.at = "reply" /\ pipe.client = c /\ pipe.answer = "ok"
          BY <2>6, <4>1, <4>3, AnswerMoves
        <5>2. QED
          BY <2>6, <3>1, <3>3, <4>1, <5>1 DEF AutostartInv, Following, Moves
      <4>4. CASE TimeOut(c) \/ Works(c)
        BY <2>6, <4>1, <4>4 DEF TimeOut, Works, Exists, Kill, Run, End, Stopped, Wake, Register,
                                Elevate, Disable, Icon
      <4>5. QED
        BY <2>1, <4>2, <4>3, <4>4 DEF Asks
    <3>5. InSync' \/ Disabling' \/ Following'
      BY <2>3, <2>6, <3>1, <3>3, <3>4 DEF AutostartInv, Following
    <3>6. QED
      BY <3>2, <3>3, <3>5 DEF AutostartInv
  <2>7. QED
    BY <2>4, <2>5, <2>6
<1>7. CASE Listen \/ TrayQuit \/ UiExit \/ UiEnd
  <2>1. /\ UNCHANGED <<task, setting, flags>> /\ quirks \ {"unended"} \subseteq quirks'
        /\ pipe' = pipe \/ pipe' = NoPipe
        /\ \E c \in Callers \ {"window", "setup"} : job' = job \/ job' = [job EXCEPT ![c] = job'[c]]
    BY <1>0, <1>7
       DEF Listen, TrayQuit, TrayStops, Stopping, UiExit, UiEnd, Callers, Jobs
  <2>2. job'["window"] = job["window"] /\ job'["setup"] = job["setup"]
    BY <1>0, <2>1 DEF Jobs, Callers
  <2>3. QED
    BY <1>2, <2>1, <2>2, NothingTyped DEF SyncKept, TriggerQuirks
<1>8. CASE UserAsks
  <2>1. UNCHANGED <<task, pipe, flags>> /\ quirks \ {"unended"} \subseteq quirks'
    BY <1>8 DEF UserAsks, WindowCommand, Open, CloseWindow, Exit, TrayExit, TrayStops, Setup
  <2>2. CASE \E cmd \in Commands : WindowCommand(cmd)
    <3>1. PICK cmd \in Commands : WindowCommand(cmd)
      BY <2>2
    <3>2. /\ job["window"].at = "idle" /\ job'["window"] = Doing(cmd, First[cmd])
          /\ job'["setup"] = job["setup"]
          /\ setting' = IF cmd \in DOMAIN setting THEN [setting EXCEPT ![cmd] = ~@] ELSE setting
      BY <1>0, <3>1 DEF WindowCommand, Free, Jobs, Callers
    <3>3. pipe.client # "window" /\ (Disabling' <=> Disabling)
      BY <3>2, Unconnected, CallsAre DEF Callers, Disabling
    <3>4. CASE cmd = "autostart"
      <4>1. First[cmd] = "startup"
        BY <3>4 DEF First
      <4>2. Following'
        BY <3>2, <3>4, <4>1 DEF Following, Doing
      <4>3. QED
        BY <2>1, <3>3, <4>2 DEF AutostartInv
    <3>5. CASE cmd # "autostart"
      <4>1. setting'.autostart = setting.autostart
        BY <1>0, <3>2, <3>5 DEF SettingType
      <4>2. InSync' \/ Disabling'
        BY <2>1, <3>2, <3>3, <4>1 DEF AutostartInv, Following, InSync, TriggerQuirks
      <4>3. QED
        BY <2>1, <3>3, <4>2 DEF AutostartInv
    <3>6. QED
      BY <3>4, <3>5
  <2>3. CASE Exit
    <3>1. job["window"].at = "idle" /\ UNCHANGED setting /\ job'["setup"] = job["setup"]
      BY <1>0, <2>3 DEF Exit, Free, Stopping, Jobs, Callers
    <3>2. InSync' \/ Disabling'
      BY <2>1, <3>1 DEF AutostartInv, Following, InSync, Disabling, TriggerQuirks
    <3>3. QED
      BY <2>1, <3>1, <3>2 DEF AutostartInv, Disabling
  <2>4. CASE Setup
    <3>1. job'["window"] = job["window"] /\ job["setup"].at = "idle" /\ job'["setup"].at = "stop"
          /\ UNCHANGED setting
      BY <1>0, <2>4 DEF Setup, Stopping, Doing, Jobs, Callers
    <3>2. InSync => InSync'
      BY <2>1, <3>1 DEF InSync, TriggerQuirks
    <3>3. QED
      BY <1>1, <2>1, <3>1, <3>2 DEF Disabling
  <2>5. CASE Open \/ CloseWindow \/ TrayExit
    <3>1. /\ UNCHANGED setting
          /\ \E c \in Callers \ {"window", "setup"} : job' = job \/ job' = [job EXCEPT ![c] = job'[c]]
      BY <1>0, <2>5 DEF Open, CloseWindow, TrayExit, TrayStops, Stopping, Callers, Jobs
    <3>2. job'["window"] = job["window"] /\ job'["setup"] = job["setup"]
      BY <1>0, <3>1 DEF Jobs, Callers
    <3>3. QED
      BY <1>2, <2>1, <3>1, <3>2 DEF SyncKept, TriggerQuirks
  <2>6. QED
    BY <1>8, <2>2, <2>3, <2>4, <2>5 DEF UserAsks
<1>9. QED
  BY <1>3, <1>4, <1>5, <1>6, <1>7, <1>8 DEF Next, AgentStep, PipeStep

-----------------------------------------------------------------------------
(* The plan is given back.                                                 *)

\* The plan and the leases stay, what is known against them too, and the installer is where it
\* was or still at its ordinary work.
PowerKept ==
  /\ UNCHANGED <<plan, file, copy>>
  /\ quirks \cap {"overlap", "torn", "stale"} \subseteq quirks'
  /\ \/ /\ job'["setup"].at = job["setup"].at
        /\ "unreleased" \in quirks' <=> "unreleased" \in quirks
     \/ /\ {job["setup"].at, job'["setup"].at} \subseteq Ordinary
        /\ "unreleased" \notin quirks'

\* What is sound now was so before.
LEMMA SoundBefore == quirks \cap {"overlap", "torn", "stale"} \subseteq quirks' /\ Sound' => Sound
BY DEF Sound

\* In force is the plan of the user or of the lease that is torn if it names another one.
LEMMA NotTorn ==
  ASSUME Typed, LeaseInv, Sound, job["setup"].at # "gone", ~Torn(agent.holds),
         agent.at \notin {"off", "boot"}
  PROVE  /\ plan \in {"user", agent.holds.managed}
         /\ Returned(agent.holds) = "user"
<1>1. agent.holds = file /\ (plan # "user" => file # NoLease)
      /\ (agent.holds # NoLease => agent.holds.back = "user")
  BY DEF LeaseInv
<1>2. plan \in Managed \cup {"user"}
  BY DEF Typed, Plans
<1>3. plan \in {"user", agent.holds.managed}
  BY <1>1, <1>2 DEF Torn
<1>4. "user" # NoLease.managed
  BY DEF NoLease
<1>5. QED
  BY <1>1, <1>3, <1>4 DEF Returned

\* As long as plan and leases stay, an agent may come and go.
LEMMA KeptStep ==
  ASSUME Typed, LeaseInv, HandoverInv, PowerKept,
         AgentMoves \/ (agent'.at = agent.at /\ agent'.holds = agent.holds)
  PROVE  LeaseInv' /\ HandoverInv'
<1>1. (Sound' => Sound) /\ (job["setup"].at = "gone" <=> job'["setup"].at = "gone")
      /\ (Handover' <=> Handover) /\ ("overlap" \notin quirks' => "overlap" \notin quirks)
  BY SoundBefore DEF PowerKept, Handover, Ordinary
<1>2. /\ agent'.at \in {"off", "boot"} => agent'.holds = NoLease
      /\ agent'.at = "apply" => agent'.holds # NoLease
      /\ "overlap" \notin quirks' => (Handover' => agent'.at = "off")
      /\ Sound' /\ job'["setup"].at # "gone" =>
           /\ agent'.at \notin {"off", "boot"} => agent'.holds = file
           /\ agent'.holds \in {NoLease, agent.holds}
           /\ agent'.at \notin {"loop", "apply"} => plan \in {"user", file.managed}
  <2>1. CASE agent'.at = agent.at /\ agent'.holds = agent.holds
    BY <1>1, <2>1 DEF LeaseInv, HandoverInv
  <2>2. CASE agent' = NoAgent /\ (Torn(agent.holds) => "torn" \in quirks')
    <3>1. agent'.at = "off" /\ agent'.holds = NoLease
      BY <2>2, NothingTyped
    <3>2. ASSUME Sound', job'["setup"].at # "gone"
          PROVE  plan \in {"user", file.managed}
      <4>1. Sound /\ job["setup"].at # "gone" /\ ~Torn(agent.holds)
        BY <1>1, <2>2, <3>2 DEF Sound
      <4>2. CASE agent.at \in {"off", "boot"}
        BY <4>1, <4>2 DEF LeaseInv
      <4>3. CASE agent.at \notin {"off", "boot"}
        BY <4>1, <4>3, NotTorn DEF LeaseInv
      <4>4. QED
        BY <4>2, <4>3
    <3>3. QED
      BY <3>1, <3>2
  <2>3. CASE Launch
    <3>1. agent' = agent \/ (agent.at = "off" /\ CanStart /\ agent'.at = "boot" /\ agent'.holds = NoLease)
      BY <2>3 DEF Launch, NoAgent
    <3>2. agent.at = "off" /\ CanStart /\ "overlap" \notin quirks' => ~Handover
      BY <2>3 DEF Launch, CanStart, Handover
    <3>3. QED
      BY <1>1, <3>1, <3>2 DEF LeaseInv, HandoverInv
  <2>4. QED
    BY <2>1, <2>2, <2>3 DEF AgentMoves, LeaseInv, HandoverInv
<1>3. LeaseInv'
  BY <1>1, <1>2 DEF LeaseInv, PowerKept
<1>4. HandoverInv'
  BY <1>1, <1>2 DEF HandoverInv, PowerKept, Ordinary
<1>5. QED
  BY <1>3, <1>4

\* Between its start and its end an agent has the lease of the file, which gives back the user's plan.
LoopLease ==
  /\ agent'.at \in {"recover", "loop", "apply"}
  /\ agent'.at = "apply" => agent'.holds # NoLease
  /\ Sound /\ Sound' /\ job["setup"].at # "gone" =>
       /\ \A lease \in {file', agent'.holds} : lease # NoLease => lease.back = "user"
       /\ plan' # "user" => file' # NoLease
       /\ agent'.holds = file'
       /\ agent'.at = "recover" => plan' \in {"user", file'.managed}

\* What the agent does with its lease, between its start and its end.
LEMMA AgentLeaseStep ==
  ASSUME Typed, PipeInv, LeaseInv, HandoverInv, Boot \/ Recover \/ Record \/ Apply \/ Scan \/ Close
  PROVE  LeaseInv' /\ HandoverInv'
<1> USE DEF power, setup, history, shell
<1>0. /\ agent \in AgentType /\ agent.holds \in MaybeLease /\ file \in MaybeLease /\ plan \in Plans
      /\ plan # NoLease.managed
  BY LeaseTyped DEF Typed, AgentType
<1>1. /\ UNCHANGED <<job, copy>> /\ quirks \subseteq quirks' /\ agent.at # "off"
      /\ "unreleased" \in quirks' <=> "unreleased" \in quirks
  BY DEF Boot, Recover, Record, Apply, Scan, Close
<1>2. /\ ~Handover \/ "overlap" \in quirks'
      /\ Sound' => Sound /\ job["setup"].at # "gone" /\ "overlap" \notin quirks'
  BY <1>1, SoundBefore DEF HandoverInv, Handover, Sound
<1>3. HandoverInv'
  BY <1>1, <1>2 DEF HandoverInv, Handover, Sound
<1> SUFFICES LeaseInv'
  BY <1>3
\* What remains to be said of each.
<1>4. LoopLease => LeaseInv'
  <2>1. Sound' => \A lease \in {copy'} : lease # NoLease => lease.back = "user"
    BY <1>1, <1>2 DEF LeaseInv
  <2>2. QED
    BY <1>1, <1>2, <2>1 DEF LeaseInv, LoopLease
<1>5. ASSUME Sound, job["setup"].at # "gone"
      PROVE  /\ \A lease \in {file, agent.holds} : lease # NoLease => lease.back = "user"
             /\ plan # "user" => file # NoLease
             /\ agent.at # "boot" => agent.holds = file
             /\ agent.at \in {"boot", "recover"} => plan \in {"user", file.managed}
  BY <1>1, <1>5 DEF LeaseInv
<1>6. CASE Boot
  <2>1. agent'.at = "recover" /\ agent'.holds = file /\ UNCHANGED power /\ agent.at = "boot"
    BY <1>0, <1>6 DEF Boot, AgentType
  <2>2. QED
    BY <1>4, <1>5, <2>1 DEF LoopLease
<1>7. CASE Recover
  <2>1. agent.at = "recover" /\ agent'.at = "loop"
    BY <1>0, <1>7 DEF Recover, AgentType
  <2>2. ASSUME Sound, job["setup"].at # "gone"
        PROVE  Returned(agent.holds) = "user"
    BY <1>0, <1>5, <2>1, <2>2 DEF Returned
  <2>3. CASE agent' = [agent EXCEPT !.at = "loop"] /\ UNCHANGED power
    <3>1. agent'.holds = agent.holds
      BY <1>0, <2>3 DEF AgentType
    <3>2. QED
      BY <1>4, <1>5, <2>1, <2>3, <3>1 DEF LoopLease
  <2>4. CASE /\ plan' = Returned(agent.holds) /\ file' = NoLease
             /\ agent' = [agent EXCEPT !.at = "loop", !.holds = NoLease]
    <3>1. agent'.holds = NoLease
      BY <1>0, <2>4 DEF AgentType
    <3>2. QED
      BY <1>4, <2>1, <2>2, <2>4, <3>1 DEF LoopLease
  <2>5. CASE /\ plan' \in {plan, Returned(agent.holds)} /\ UNCHANGED file
             /\ agent' = [agent EXCEPT !.at = "loop", !.forgot = TRUE]
    <3>1. agent'.holds = agent.holds
      BY <1>0, <2>5 DEF AgentType
    <3>2. QED
      BY <1>4, <1>5, <2>1, <2>2, <2>5, <3>1 DEF LoopLease
  <2>6. QED
    BY <1>7, <2>3, <2>4, <2>5 DEF Recover
<1>8. CASE Record
  <2>1. PICK m \in Managed :
          LET lease == [managed |-> m, back |-> Captured]
              next  == IF plan = m THEN "loop" ELSE "apply"
          IN /\ file' = IF agent.holds = lease THEN file ELSE lease
             /\ agent' = [agent EXCEPT !.at = next, !.holds = lease, !.forgot = FALSE,
                                       !.denied = @ /\ next = "apply"]
    BY <1>8 DEF Record
  <2> DEFINE lease == [managed |-> m, back |-> Captured]
  <2>2. agent'.holds = lease /\ agent'.at \in {"loop", "apply"}
    BY <1>0, <2>1 DEF AgentType
  <2>3. Captured \in Plans
    BY <1>0, LeaseTyped DEF Captured
  <2>4. lease # NoLease /\ lease.back = Captured
    BY <2>3, LeaseTyped
  <2>5. Sound' => Captured = "user"
    BY <1>8 DEF Record, Sound
  <2>6. file' = (IF agent.holds = lease THEN file ELSE lease)
    BY <2>1
  <2> HIDE DEF lease
  <2>7. Sound /\ job["setup"].at # "gone" => file' = lease
    BY <1>5, <1>8, <2>6 DEF Record
  <2>8. QED
    BY <1>4, <2>2, <2>4, <2>5, <2>7 DEF LoopLease
<1>9. CASE Apply
  <2>1. agent'.at = "loop" /\ agent'.holds = agent.holds /\ UNCHANGED file /\ agent.at = "apply"
    BY <1>0, <1>9 DEF Apply, AgentType
  <2>2. agent.holds # NoLease
    BY <2>1 DEF LeaseInv
  <2>3. QED
    BY <1>4, <1>5, <2>1, <2>2 DEF LoopLease
<1>10. CASE Scan
  <2>1. agent'.at = agent.at /\ agent'.holds = agent.holds /\ UNCHANGED power /\ agent.at = "loop"
    BY <1>0, <1>10 DEF Scan, AgentType
  <2>2. QED
    BY <1>4, <1>5, <2>1 DEF LoopLease
<1>11. CASE Close
  <2>1. agent.at = "loop" /\ plan' = Returned(agent.holds)
    BY <1>11 DEF Close
  <2>2. CASE /\ file' = NoLease /\ agent' = [agent EXCEPT !.holds = NoLease, !.denied = FALSE]
             /\ quirks' = quirks \cup IF Torn(agent.holds) THEN {"torn"} ELSE {}
    <3>1. agent'.holds = NoLease /\ agent'.at = "loop"
      BY <1>0, <2>1, <2>2 DEF AgentType
    <3>2. Sound' => ~Torn(agent.holds)
      BY <2>2 DEF Sound
    <3>3. Sound /\ Sound' /\ job["setup"].at # "gone" => plan' = "user"
      BY <2>1, <3>2, NotTorn
    <3>4. QED
      BY <1>4, <2>2, <3>1, <3>3 DEF LoopLease
  <2>3. CASE UNCHANGED <<agent, file, quirks>>
    <3>1. agent.holds # NoLease
      BY <1>11 DEF Close
    <3>2. QED
      BY <1>4, <1>5, <2>1, <2>3, <3>1 DEF LoopLease
  <2>4. QED
    BY <1>11, <2>2, <2>3 DEF Close
<1>12. QED
  BY <1>6, <1>7, <1>8, <1>9, <1>10, <1>11

\* Its way out: the plan that it has taken is given back, or the lease stays.
LEMMA AgentLeavesStep ==
  ASSUME Typed, PipeInv, LeaseInv, HandoverInv, HandleShutdown
  PROVE  LeaseInv' /\ HandoverInv'
<1> USE DEF power, setup, history, shell
<1>1. /\ agent.at = "loop" /\ LetGo /\ UNCHANGED copy
      /\ agent' = NoAgent /\ (Torn(agent.holds) => "torn" \in quirks')
      /\ quirks \cap {"overlap", "torn", "stale"} \subseteq quirks'
      /\ "unreleased" \in quirks' <=> "unreleased" \in quirks
  BY DEF HandleShutdown, AgentEnds
<1>2. agent'.at = "off" /\ agent'.holds = NoLease /\ job'["setup"].at = job["setup"].at
  BY <1>1, NothingTyped, LeavesTyped DEF HandleShutdown, Callers
<1>3. /\ ~Handover \/ "overlap" \in quirks'
      /\ Sound' => Sound /\ job["setup"].at # "gone" /\ ~Torn(agent.holds)
  BY <1>1, SoundBefore DEF HandoverInv, Handover, Sound
<1>4. HandoverInv'
  BY <1>1, <1>2, <1>3 DEF HandoverInv, Handover, Sound
<1>5. ASSUME Sound'
      PROVE  /\ \A lease \in {file', copy'} : lease # NoLease => lease.back = "user"
             /\ plan' # "user" => file' # NoLease
             /\ plan' \in {"user", file'.managed}
  <2>1. /\ Returned(agent.holds) = "user" /\ plan \in {"user", agent.holds.managed}
        /\ agent.holds = file
    BY <1>1, <1>3, <1>5, NotTorn DEF LeaseInv
  <2>2. /\ \A lease \in {file, copy} : lease # NoLease => lease.back = "user"
        /\ plan # "user" => file # NoLease
    BY <1>3, <1>5 DEF LeaseInv
  <2>3. \/ file' = NoLease /\ plan' = "user"
        \/ UNCHANGED file /\ plan' \in {plan, "user"}
    BY <1>1, <2>1, <2>2 DEF LetGo
  <2>4. QED
    BY <1>1, <2>1, <2>2, <2>3
<1>6. QED
  BY <1>2, <1>4, <1>5 DEF LeaseInv

\* Giving the plan back and clearing the lease, with no agent to take either again.
LEMMA HandsOverStep ==
  ASSUME Typed, PipeInv, LeaseInv, HandoverInv, HandsOver
  PROVE  LeaseInv' /\ HandoverInv'
<1> USE DEF power, setup, history, shell
<1>0. job \in Jobs /\ job["setup"] \in JobType
  BY DEF Typed, Jobs, Callers
<1>1. ASSUME NEW at \in Places, Go("setup", at)
      PROVE  job'["setup"].at = at
  BY <1>0, <1>1 DEF Go, Jobs, JobType, Callers
<1>2. {"give", "clear", "halt"} \subseteq Places
  BY OrdinaryPlaces
<1>3. CASE OpenLease
  <2>1. /\ UNCHANGED <<agent, plan, file>> /\ copy' \in {copy, file} /\ job["setup"].at = "open"
        /\ Overlap \cup quirks \subseteq quirks'
        /\ quirks' \subseteq Overlap \cup quirks \cup {"unreleased"}
    BY <1>3 DEF OpenLease
  <2>2. \/ file = NoLease /\ job'["setup"].at = "halt" /\ quirks' = quirks \cup Overlap
        \/ /\ file # NoLease /\ copy' = file /\ quirks' = quirks \cup Overlap
           /\ job'["setup"].at = IF plan = file.managed THEN "give" ELSE "clear"
        \/ file # NoLease /\ job'["setup"].at = "halt" /\ "unreleased" \in quirks'
    BY <1>1, <1>2, <1>3 DEF OpenLease
  <2>3. "overlap" \notin quirks' => agent.at = "off" /\ "overlap" \notin quirks
    BY <2>1 DEF Overlap
  <2>4. Sound' => Sound /\ agent.at = "off"
    BY <2>1, <2>3 DEF Sound
  <2>5. Sound' => (plan # "user" => file # NoLease) /\ plan \in {"user", file.managed}
    BY <2>1, <2>4 DEF LeaseInv
  <2>6. "unreleased" \notin quirks /\ "unreleased" \notin Overlap
    BY <2>1 DEF HandoverInv, Overlap
  <2>7. LeaseInv'
    BY <2>1, <2>4 DEF LeaseInv
  <2>8. HandoverInv'
    BY <2>1, <2>2, <2>3, <2>5, <2>6 DEF HandoverInv, Handover
  <2>9. QED
    BY <2>7, <2>8
<1>4. CASE Release
  <2>1. /\ UNCHANGED agent /\ quirks \subseteq quirks' /\ quirks' \subseteq quirks \cup {"unreleased"}
        /\ job["setup"].at \in {"give", "clear"} /\ job'["setup"].at \in {"clear", "halt"}
    BY <1>1, <1>2, <1>4 DEF Release
  <2>2. /\ "overlap" \notin quirks' => agent.at = "off"
        /\ "unreleased" \notin quirks
        /\ Sound' => Sound
        /\ Sound => agent.at = "off"
    BY <2>1 DEF HandoverInv, Handover, Sound
  <2>3. Sound => /\ \A lease \in {file, copy} : lease # NoLease => lease.back = "user"
                 /\ (plan # "user" => file # NoLease) /\ plan \in {"user", file.managed}
    BY <2>1, <2>2 DEF LeaseInv
  <2>4. CASE job["setup"].at = "give" /\ plan' = copy.back /\ Go("setup", "clear")
             /\ UNCHANGED <<file, copy, quirks>>
    <3>1. job'["setup"].at = "clear" /\ copy # NoLease
      BY <1>1, <1>2, <2>4 DEF HandoverInv
    <3>2. Sound => plan' = "user"
      BY <2>3, <2>4, <3>1
    <3>3. LeaseInv'
      BY <2>1, <2>2, <2>3, <2>4, <3>1, <3>2 DEF LeaseInv
    <3>4. HandoverInv'
      BY <2>1, <2>2, <2>4, <3>1, <3>2 DEF HandoverInv, Handover
    <3>5. QED
      BY <3>3, <3>4
  <2>5. CASE job["setup"].at = "give" /\ Go("setup", "halt") /\ UNCHANGED power /\ copy' = NoLease
             /\ quirks' = quirks \cup {"unreleased"}
    <3>1. job'["setup"].at = "halt"
      BY <1>1, <1>2, <2>5
    <3>2. LeaseInv'
      BY <2>1, <2>2, <2>3, <2>5, <3>1 DEF LeaseInv
    <3>3. HandoverInv'
      BY <2>1, <2>2, <2>5, <3>1 DEF HandoverInv, Handover
    <3>4. QED
      BY <3>2, <3>3
  <2>6. CASE job["setup"].at = "clear" /\ Go("setup", "halt") /\ file' \in {NoLease, file}
             /\ copy' = NoLease /\ UNCHANGED <<plan, quirks>>
    <3>1. job'["setup"].at = "halt"
      BY <1>1, <1>2, <2>6
    <3>2. Sound => plan = "user"
      BY <2>2, <2>6 DEF HandoverInv
    <3>3. LeaseInv'
      BY <2>1, <2>2, <2>3, <2>6, <3>1, <3>2 DEF LeaseInv
    <3>4. HandoverInv'
      BY <2>1, <2>2, <2>6, <3>1, <3>2 DEF HandoverInv, Handover
    <3>5. QED
      BY <3>3, <3>4
  <2>7. QED
    BY <1>4, <2>4, <2>5, <2>6 DEF Release
<1>5. CASE Halt
  <2>1. /\ agent' = agent \/ (agent' = NoAgent /\ (Torn(agent.holds) => "torn" \in quirks'))
        /\ quirks \ {"unended"} \subseteq quirks'
        /\ UNCHANGED <<plan, copy>>
        /\ job["setup"].at = "halt" /\ job'["setup"].at \in {"gone", "install"}
    <3>1. \/ Kill("setup") \/ End("setup") \/ ("setup" = "setup" /\ Halt)
      BY <1>5
    <3>2. "setup" \in Callers /\ job["setup"].at = "halt"
      BY <1>5 DEF Halt, Callers
    <3>3. QED
      BY <3>1, <3>2, EndingMoves
  <2>2. file' \in {NoLease, file} /\ (job'["setup"].at = "install" => UNCHANGED file)
    <3>1. CASE token' = FALSE /\ file' = NoLease /\ job'["setup"].at = "gone"
      BY <3>1
    <3>2. CASE UNCHANGED <<token, file>>
      BY <3>2
    <3>3. \A jobs, t : Halted(jobs, t) => (job' = jobs \/ AgentEnds(jobs, t))
      BY DEF Halted, Survives
    <3>4. \A t : Halted([job EXCEPT !["setup"].at = "gone"], t) => job'["setup"].at = "gone"
      <4>1. [job EXCEPT !["setup"].at = "gone"]["setup"].at = "gone"
            /\ "setup" \in Callers
        BY <1>0 DEF Jobs, JobType, Callers
      <4>2. ASSUME NEW t, AgentEnds([job EXCEPT !["setup"].at = "gone"], t)
            PROVE  job'["setup"].at = "gone"
        <5>1. job'["setup"] = [[job["setup"] EXCEPT !.at = "gone"] EXCEPT !.target = FALSE]
          BY <1>0, <4>1, <4>2 DEF AgentEnds, Jobs
        <5>2. QED
          BY <1>0, <5>1 DEF JobType
      <4>3. QED
        BY <3>3, <4>1, <4>2
    <3>5. QED
      BY <1>5, <3>1, <3>2, <3>4 DEF Halt
  <2>3. (Sound' => Sound) /\ (agent' = agent \/ (agent'.at = "off" /\ agent'.holds = NoLease))
    BY <2>1, NothingTyped DEF Sound
  <2>4. "overlap" \notin quirks' => agent'.at = "off"
    BY <2>1, <2>3 DEF HandoverInv, Handover
  <2>5. Sound' => agent.at = "off" /\ (plan # "user" => file # NoLease)
                  /\ plan \in {"user", file.managed}
    BY <2>1, <2>3 DEF HandoverInv, Handover, LeaseInv, Sound
  <2>6. LeaseInv'
    BY <2>1, <2>2, <2>3, <2>4, <2>5 DEF LeaseInv, Sound
  <2>7. HandoverInv'
    BY <2>1, <2>3, <2>4 DEF HandoverInv, Handover
  <2>8. QED
    BY <2>6, <2>7
<1>6. QED
  BY <1>3, <1>4, <1>5 DEF HandsOver

\* The agent takes the plan with a lease and only before the handover; whoever starts it
\* during one is an overlap.
LEMMA HandoverStep ==
  ASSUME Typed, PipeInv, ThreadInv, LeaseInv, HandoverInv, Next
  PROVE  LeaseInv' /\ HandoverInv'
<1> USE DEF power, setup, history, shell
<1>0. job \in Jobs /\ agent \in AgentType /\ job["setup"] \in JobType
  BY DEF Typed, Jobs, Callers
\* A step of somebody else, with which an agent may start or end.
<1>1. ASSUME UNCHANGED <<plan, file, copy>>, job'["setup"].at = job["setup"].at,
             quirks \cap PlanQuirks \subseteq quirks',
             "unreleased" \in quirks' => "unreleased" \in quirks,
             AgentMoves \/ (agent'.at = agent.at /\ agent'.holds = agent.holds)
      PROVE  LeaseInv' /\ HandoverInv'
  <2>1. PowerKept
    BY <1>1 DEF PowerKept, PlanQuirks
  <2>2. QED
    BY <1>1, <2>1, KeptStep
<1>2. CASE Boot \/ Recover \/ Record \/ Apply \/ Scan \/ Close
  BY <1>2, AgentLeaseStep
<1>3. CASE HandleShutdown
  BY <1>3, AgentLeavesStep
<1>4. CASE Fault
  <2>1. UNCHANGED <<plan, file, copy>>
    BY <1>4 DEF Fault
  <2>2. CASE AgentEnds(job, Retried)
    <3>1. AgentMoves /\ quirks \cap PlanQuirks \subseteq quirks'
          /\ ("unreleased" \in quirks' => "unreleased" \in quirks)
      BY <2>2 DEF AgentMoves, AgentEnds, PlanQuirks
    <3>2. job'["setup"].at = job["setup"].at
      BY <2>2, LeavesTyped DEF Callers
    <3>3. QED
      BY <1>1, <2>1, <3>1, <3>2
  <2>3. CASE (agent' = [agent EXCEPT !.denied = TRUE] \/ agent' = agent) /\ UNCHANGED <<job, history>>
    <3>1. agent'.at = agent.at /\ agent'.holds = agent.holds
      BY <1>0, <2>3 DEF AgentType
    <3>2. QED
      BY <1>1, <2>1, <2>3, <3>1
  <2>4. QED
    BY <1>4, <2>2, <2>3 DEF Fault
<1>5. CASE Retry
  BY <1>1, <1>5 DEF Retry, Launch, AgentMoves
<1>6. CASE UserPicks
  <2>1. /\ UNCHANGED <<agent, file, copy, job>> /\ plan' = "user"
        /\ \/ file = NoLease /\ copy = NoLease /\ agent.holds = NoLease
              /\ quirks' = quirks \ {"torn", "stale"}
           \/ UNCHANGED quirks
    BY <1>6 DEF UserPicks
  <2>2. LeaseInv'
    BY <2>1 DEF LeaseInv, Sound
  <2>3. HandoverInv'
    BY <2>1 DEF HandoverInv, Handover, Sound
  <2>4. QED
    BY <2>2, <2>3
<1>7. CASE PipeStep
  <2>1. UNCHANGED <<plan, file, copy, job>> /\ quirks \cap PlanQuirks \subseteq quirks'
        /\ quirks' \subseteq quirks
        /\ agent' \in {agent, [agent EXCEPT !.ask = TRUE]}
    BY <1>7 DEF PipeStep, CreatePipe, SilentClient, DropSilent, Serve, TriggerQuirks, PlanQuirks
  <2>2. agent'.at = agent.at /\ agent'.holds = agent.holds
    BY <1>0, <2>1 DEF AgentType
  <2>3. QED
    BY <1>1, <2>1, <2>2
<1>8. CASE \E c \in Callers : Asks(c) \/ TimeOut(c) \/ Works(c)
  <2>1. PICK c \in Callers : Asks(c) \/ TimeOut(c) \/ Works(c)
    BY <1>8
  <2>2. CASE c = "setup" /\ HandsOver
    BY <2>2, HandsOverStep
  <2>3. CASE ~(c = "setup" /\ HandsOver)
    <3>1. /\ \A d \in Callers \ {c} : job'[d].at = job[d].at
          /\ quirks \cap {"overlap", "torn", "stale"} \subseteq quirks'
          /\ UNCHANGED <<plan, file, copy>>
          /\ job[c].at \in Ordinary /\ job'[c].at \in Ordinary
          /\ "unreleased" \in quirks' <=> "unreleased" \in quirks /\ ~Forgives(c)
          /\ AgentMoves
      BY <2>1, <2>3, CallerEffects
    <3>2. PowerKept
      <4>1. CASE c = "setup"
        <5>1. "unreleased" \notin quirks'
          BY <3>1, <4>1 DEF HandoverInv, Forgives, Ordinary
        <5>2. QED
          BY <3>1, <4>1, <5>1 DEF PowerKept
      <4>2. CASE c # "setup"
        BY <3>1, <4>2 DEF PowerKept, Callers, Forgives
      <4>3. QED
        BY <4>1, <4>2
    <3>3. QED
      BY <3>1, <3>2, KeptStep
  <2>4. QED
    BY <2>2, <2>3
<1>9. CASE Listen \/ TrayQuit \/ UiExit \/ UiEnd \/ UserAsks
  <2>1. UNCHANGED <<agent, plan, file, copy>> /\ quirks' \in {quirks, quirks \ {"unended"}}
    BY <1>9, ShellTypeStep
  <2>2. AgentMoves /\ quirks \cap PlanQuirks \subseteq quirks' /\ quirks' \subseteq quirks
    BY <2>1 DEF AgentMoves, PlanQuirks
  <2>3. CASE Setup
    <3>1. job'["setup"].at = "stop" /\ job["setup"].at = "idle"
      BY <1>0, <2>3 DEF Setup, Stopping, Doing, Jobs, Callers
    <3>2. "unreleased" \notin quirks'
      BY <2>2, <3>1 DEF HandoverInv
    <3>3. PowerKept
      BY <2>1, <2>2, <3>1, <3>2, OrdinaryPlaces DEF PowerKept
    <3>4. QED
      BY <2>2, <3>3, KeptStep
  <2>4. CASE ~Setup
    <3>1. \E c \in Callers \ {"setup"} : job' = job \/ job' = [job EXCEPT ![c] = job'[c]]
      BY <1>0, <1>9, <2>4
         DEF Listen, TrayQuit, TrayStops, Stopping, UiExit, UiEnd, UserAsks, WindowCommand, Open,
             CloseWindow, Exit, TrayExit, Callers, Jobs
    <3>2. job'["setup"] = job["setup"]
      BY <1>0, <3>1 DEF Jobs, Callers
    <3>3. QED
      BY <1>1, <2>1, <2>2, <3>2
  <2>5. QED
    BY <2>3, <2>4
<1>10. QED
  BY <1>2, <1>3, <1>4, <1>5, <1>6, <1>7, <1>8, <1>9 DEF Next, AgentStep

-----------------------------------------------------------------------------
(* The theorems.                                                           *)

\* The invariant is inductive.
LEMMA InvInit == Init => Inv
<1> SUFFICES ASSUME Init PROVE Inv
  OBVIOUS
<1>1. TypeOK /\ CallInv
  BY TypeInit, TypeParts
<1>2. \A c \in Callers : job[c].at = "idle"
  BY NoJobTyped DEF Init
<1>3. ThreadInv
  BY <1>2 DEF ThreadInv, Callers
<1>4. AutostartInv
  BY <1>2, NothingTyped DEF Init, AutostartInv, InSync, Disabling, Callers
<1>5. LeaseInv
  <2>1. agent.holds = NoLease /\ agent.at \in {"off", "boot"}
    BY DEF Init, NoAgent
  <2>2. QED
    BY <2>1 DEF Init, LeaseInv
<1>6. HandoverInv
  BY <1>2 DEF Init, HandoverInv, Handover, Callers
<1>7. QED
  BY <1>1, <1>3, <1>4, <1>5, <1>6 DEF Inv

\* Every step keeps it.
LEMMA InvStep == Inv /\ [Next]_vars => Inv'
<1> SUFFICES ASSUME Inv, [Next]_vars PROVE Inv'
  OBVIOUS
<1>1. Typed /\ PipeInv /\ ThreadInv /\ AutostartInv /\ LeaseInv /\ HandoverInv
  BY TypeParts DEF Inv
<1>2. CASE Next
  <2>1. Typed' /\ PipeInv'
    BY <1>1, <1>2, AgentTypeStep, CallerTypeStep, ShellTypeStep DEF Next
  <2>2. TypeOK' /\ CallInv'
    BY <2>1 DEF TypeOK, Typed, PipeInv, AgentType, MaybeLease, PipeType, TaskType, SettingType, UiType,
                TrayType, JobType, Jobs
  <2>3. ThreadInv' /\ AutostartInv' /\ LeaseInv' /\ HandoverInv'
    BY <1>1, <1>2, <2>1, ThreadStep, AutostartStep, HandoverStep
  <2>4. QED
    BY <2>2, <2>3 DEF Inv
<1>3. CASE UNCHANGED vars
  <2>1. /\ UNCHANGED <<agent, pipe, token, task, setting, plan, file, copy, flags, ui, tray, job>>
        /\ UNCHANGED <<doomed, quirks, events>>
    BY <1>3 DEF vars, power, setup, shell, history
  <2>2. TypeOK' /\ CallInv' /\ ThreadInv'
    BY <2>1 DEF Inv, TypeOK, CallInv, ThreadInv
  <2>3. AutostartInv'
    BY <2>1 DEF Inv, AutostartInv, InSync, Following, Disabling
  <2>4. LeaseInv' /\ HandoverInv'
    BY <2>1 DEF Inv, LeaseInv, HandoverInv, Handover, Sound
  <2>5. QED
    BY <2>2, <2>3, <2>4 DEF Inv
<1>4. QED
  BY <1>2, <1>3

\* So it holds throughout.
LEMMA Invariant == Spec => []Inv
<1>1. QED
  BY InvInit, InvStep, PTL DEF Spec

\* Every variable stays in its type, a pipe has an agent, and whom it serves has asked.
THEOREM TypeCorrect == Spec => []TypeOK
<1>1. Inv => TypeOK
  BY DEF Inv
<1>2. QED
  BY <1>1, Invariant, PTL

\* However often the agent, its pipe, its token, its callers or their calls fail, with any plans,
\* hand-overs and resumed sessions: the uninstaller leaves the user's plan in force, unless an
\* agent lived beside it, its own release failed, or lease, plan and memory had come apart before
\* by an end between the two steps of a hand-over or a recovery that failed.
THEOREM PlanIsGivenBack == Spec => []UninstallGivesPlanBack
<1>1. Inv => UninstallGivesPlanBack
  BY DEF Inv, HandoverInv, Sound, UninstallGivesPlanBack, PlanQuirks
<1>2. QED
  BY <1>1, Invariant, PTL

\* Nothing that two callers, an elevated helper, an update or a repair do to the task leaves its
\* trigger behind the setting, but for a repair, a disabling that failed or a setting that was
\* misread; the user has been warned of all else.
THEOREM TriggerFollows == Spec => []AutostartFollowsSetting
<1>1. Inv => AutostartFollowsSetting
  BY DEF Inv, AutostartInv, InSync, Following, Disabling, AutostartFollowsSetting
<1>2. QED
  BY <1>1, Invariant, PTL

=============================================================================
