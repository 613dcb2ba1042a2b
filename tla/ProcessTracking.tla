---------------------------- MODULE ProcessTracking ----------------------------
(***************************************************************************)
(* How the agent knows which configured programs are running: two WMI      *)
(* subscriptions (process_events.rs), a wait on the exit of each tracked   *)
(* process and the inspection of a single PID (process.rs), the registry   *)
(* of tracked instances (process_registry.rs, process_runtime.rs), the     *)
(* retries of an inspection (scheduler.rs) and the snapshot that           *)
(* reconciles them all (runtime_reconcile.rs), driven by the main loop of  *)
(* lib.rs.                                                                 *)
(*                                                                         *)
(* Processes live and die, and WMI reports them, between any two calls of  *)
(* the agent. Each call that looks at the machine is a step of its own.    *)
(* A process is told apart by its PID, its creation time (the number of    *)
(* its birth) and its name; a name is watched or not.                      *)
(***************************************************************************)
EXTENDS Naturals, Sequences, FiniteSets

CONSTANTS
  Pids,         \* process identifiers, which Windows reuses
  Names,        \* names of programs
  WatchSets,    \* the sets of names a configuration can ask to watch
  MaxBirths,    \* bound on the processes ever created
  Faults,       \* the failures the environment may cause
  NoProcess, Healthy, Degraded

Kinds == {"starts", "stops"}

FaultKinds == {"watcher", "inspect", "wait", "snapshot"}

Process == [birth : 1..MaxBirths, name : Names]

\* ProcessInstanceId; birth 0 is a creation time that could not be read.
Instance == [pid : Pids, birth : 0..MaxBirths]

Event == [pid : Pids, name : Names]

\* TARGETED_INSPECTION_RETRY_DELAYS has two entries.
MaxAttempts == 2

ASSUME TrackingAssumption ==
  /\ MaxBirths \in Nat
  /\ Faults \subseteq FaultKinds
  /\ WatchSets \subseteq SUBSET Names
  /\ NoProcess \notin Process
  /\ {Healthy, Degraded} \cap Event = {}
  /\ Healthy # Degraded

VARIABLES
  proc,         \* Windows: the live process of each PID
  births,       \* Windows: the creation time of the last process of each PID
  subscribed,   \* Windows: whether each WMI subscription delivers
  queue,        \* messages of each watcher thread not yet received
  exits,        \* instances whose exit callback has posted its message
  watched,      \* AgentWatchSet of the loaded configuration
  registry,     \* ProcessRegistry: the tracked instances
  waits,        \* ProcessExitWatchSet.watches
  unavailable,  \* ProcessExitWatchSet.unavailable
  inspections,  \* TargetedInspectionQueue: attempts left for each PID
  health,       \* WmiWatcherStatus, as the messages received so far tell it
  scanDue,      \* AgentScanScheduler.pending is set
  pc,           \* where the agent's main thread stands
  todo,         \* PIDs this pass still has to inspect
  found,        \* what the snapshot in progress has found
  changed,      \* whether this pass changed the registry
  evaluated,    \* history: the registry the last evaluation saw
  missed        \* history: failures that no retry and no snapshot has made good

machine  == <<proc, births>>
messages == <<subscribed, queue, exits>>
tracking == <<watched, registry, waits, unavailable, inspections>>
status   == <<health, scanDue>>
control  == <<pc, todo, found, changed>>
history  == <<evaluated, missed>>
vars     == <<machine, messages, tracking, status, control, history>>

\* Type invariant.
TypeOK ==
  /\ proc \in [Pids -> Process \cup {NoProcess}]
  /\ births \in [Pids -> 0..MaxBirths]
  /\ subscribed \in [Kinds -> BOOLEAN]
  /\ queue \in [Kinds -> Seq(Event \cup {Healthy, Degraded})]
  /\ exits \subseteq Instance
  /\ watched \in SUBSET Names
  /\ registry \subseteq Instance
  /\ waits \subseteq Instance
  /\ unavailable \subseteq Instance
  /\ inspections \in [Pids -> 0..MaxAttempts]
  /\ health \in [Kinds -> {"starting", "running", "degraded"}]
  /\ scanDue \in BOOLEAN
  /\ pc \in {"start", "idle", "list", "inspect", "watch"}
  /\ todo \subseteq Pids
  /\ found \subseteq Instance
  /\ changed \in BOOLEAN
  /\ evaluated \subseteq Instance
  /\ missed \subseteq {"inspect", "snapshot"}

-----------------------------------------------------------------------------
(* Windows: processes and WMI.                                             *)

Alive(i) == proc[i.pid] # NoProcess /\ proc[i.pid].birth = i.birth

Messages(k) == {queue[k][n] : n \in DOMAIN queue[k]}

Raise(k, event) ==
  queue' = IF subscribed[k] THEN [queue EXCEPT ![k] = Append(@, event)] ELSE queue

\* Creation times grow from process to process.
Clock ==
  CHOOSE n \in 0..MaxBirths :
    /\ n = 0 \/ \E p \in Pids : births[p] = n
    /\ \A p \in Pids : births[p] <= n

\* A PID is not reused while the agent waits on the handle of its last process.
Spawn(p, n) ==
  /\ proc[p] = NoProcess /\ Clock < MaxBirths
  /\ \A i \in waits : i.pid # p
  /\ births' = [births EXCEPT ![p] = Clock + 1]
  /\ proc' = [proc EXCEPT ![p] = [birth |-> Clock + 1, name |-> n]]
  /\ Raise("starts", [pid |-> p, name |-> n])
  /\ UNCHANGED <<subscribed, exits, tracking, status, control, history>>

\* process_exit_callback posts a message for an instance that is waited on.
Die(p) ==
  /\ proc[p] # NoProcess
  /\ proc' = [proc EXCEPT ![p] = NoProcess]
  /\ Raise("stops", [pid |-> p, name |-> proc[p].name])
  /\ exits' = exits \cup {i \in waits : i.pid = p}
  /\ UNCHANGED <<births, subscribed, tracking, status, control, history>>

\* One report at a time waits in the queue: the bound on a watcher that flaps.
NoReportQueued(k) == Messages(k) \cap {Healthy, Degraded} = {}

\* The subscription could not be created, or its iterator returned an error.
WatcherFails(k) ==
  /\ "watcher" \in Faults /\ NoReportQueued(k)
  /\ subscribed' = [subscribed EXCEPT ![k] = FALSE]
  /\ queue' = [queue EXCEPT ![k] = Append(@, Degraded)]
  /\ UNCHANGED <<machine, exits, tracking, status, control, history>>

WatcherSubscribes(k) ==
  /\ ~subscribed[k] /\ NoReportQueued(k)
  /\ subscribed' = [subscribed EXCEPT ![k] = TRUE]
  /\ queue' = [queue EXCEPT ![k] = Append(@, Healthy)]
  /\ UNCHANGED <<machine, exits, tracking, status, control, history>>

-----------------------------------------------------------------------------
(* The registry.                                                           *)

\* What inspect_process may return of a PID: its process, or nothing.
Inspected(p) == {proc[p]} \cup (IF "inspect" \in Faults THEN {NoProcess} ELSE {})

\* tracked_process_from_observed, as a set of at most one instance.
Trackable(p, observed) ==
  IF observed # NoProcess /\ observed.name \in watched
  THEN {[pid |-> p, birth |-> observed.birth]} ELSE {}

PidsOf(instances) == {i.pid : i \in instances}

\* ProcessRegistry::upsert replaces every other instance of the PID.
Upserted(instances, tracked) ==
  {i \in instances : i.pid \notin PidsOf(tracked)} \cup tracked

\* remove_stopped_pid: only the instance observed now outlives a stop of its PID.
Retained(p, observed) ==
  {i \in registry : i.pid # p \/ (observed # NoProcess /\ i.birth = observed.birth)}

-----------------------------------------------------------------------------
(* The main loop.                                                          *)

Init ==
  /\ proc \in [Pids -> Process \cup {NoProcess}]
  /\ \A p, q \in Pids :
       proc[p] # NoProcess /\ proc[q] # NoProcess /\ proc[p].birth = proc[q].birth => p = q
  /\ births = [p \in Pids |-> IF proc[p] = NoProcess THEN 0 ELSE proc[p].birth]
  /\ subscribed = [k \in Kinds |-> FALSE]
  /\ queue = [k \in Kinds |-> << >>]
  /\ exits = {}
  /\ watched = {}
  /\ registry = {}
  /\ waits = {}
  /\ unavailable = {}
  /\ inspections = [p \in Pids |-> 0]
  /\ health = [k \in Kinds |-> "starting"]
  /\ scanDue = FALSE
  /\ pc = "start"
  /\ todo = {}
  /\ found = {}
  /\ changed = FALSE
  /\ evaluated = {}
  /\ missed = {}

\* The process table is read; names that are not watched are left out at once.
TakeSnapshot(names) ==
  /\ todo' = {p \in Pids : proc[p] # NoProcess /\ proc[p].name \in names}
  /\ pc' = "list"
  /\ UNCHANGED history

SnapshotFails ==
  /\ "snapshot" \in Faults
  /\ pc' = "watch"
  /\ missed' = missed \cup {"snapshot"}
  /\ UNCHANGED <<todo, evaluated>>

\* A scan is due, or a restore, or a wake came: reload and reconcile. The pass
\* forgets which waits were unavailable and leaves no scan pending.
Reconcile(names) ==
  /\ pc \in {"start", "idle"}
  /\ watched' = names
  /\ unavailable' = {}
  /\ scanDue' = FALSE
  /\ TakeSnapshot(names) \/ SnapshotFails
  /\ UNCHANGED <<machine, messages, registry, waits, inspections, health, found, changed>>

\* A listed process that cannot be inspected is tracked without its birth.
InspectListed(p) ==
  /\ pc = "list" /\ p \in todo
  /\ \E observed \in Inspected(p) :
       found' = found \cup
         IF observed = NoProcess THEN {[pid |-> p, birth |-> 0]} ELSE Trackable(p, observed)
  /\ todo' = todo \ {p}
  /\ UNCHANGED <<machine, messages, tracking, status, pc, changed, history>>

\* Mutant of Replace: what was tracked stays tracked.
ReplaceByMerge ==
  /\ pc = "list" /\ todo = {}
  /\ registry' = registry \cup found
  /\ found' = {}
  /\ changed' = TRUE
  /\ pc' = "watch"
  /\ missed' = {}
  /\ UNCHANGED <<machine, messages, watched, waits, unavailable, inspections, status,
                 todo, evaluated>>

\* ProcessRegistry::replace; what failures had hidden is seen again.
Replace ==
  /\ pc = "list" /\ todo = {}
  /\ registry' = found
  /\ found' = {}
  /\ changed' = TRUE
  /\ pc' = "watch"
  /\ missed' = {}
  /\ UNCHANGED <<machine, messages, watched, waits, unavailable, inspections, status,
                 todo, evaluated>>

\* Mutant of TakeDue: PIDs with no retry left are taken as well.
TakeEvery(due) ==
  /\ pc = "idle" /\ due # {}
  /\ todo' = due
  /\ pc' = "inspect"
  /\ UNCHANGED <<machine, messages, tracking, status, found, changed, history>>

\* take_due: the retries that are due leave the queue together.
TakeDue(due) ==
  /\ pc = "idle" /\ due # {}
  /\ \A p \in due : inspections[p] > 0
  /\ todo' = due
  /\ pc' = "inspect"
  /\ UNCHANGED <<machine, messages, tracking, status, found, changed, history>>

\* Mutant of InspectDue: a process that cannot be inspected yet is dropped.
InspectDueOnce(p) ==
  /\ pc = "inspect" /\ p \in todo
  /\ \E observed \in Inspected(p) :
       LET tracked == Trackable(p, observed)
       IN  /\ registry' = Upserted(registry, tracked)
           /\ changed' = (changed \/ ~(tracked \subseteq registry))
  /\ inspections' = [inspections EXCEPT ![p] = 0]
  /\ todo' = todo \ {p}
  /\ pc' = IF todo = {p} THEN "watch" ELSE pc
  /\ UNCHANGED <<machine, messages, watched, waits, unavailable, status, found, history>>

\* apply_observed_start, or reschedule_after_failure until the attempts run out.
InspectDue(p) ==
  /\ pc = "inspect" /\ p \in todo
  /\ \E observed \in Inspected(p) :
       LET tracked == Trackable(p, observed)
       IN  /\ registry' = Upserted(registry, tracked)
           /\ changed' = (changed \/ ~(tracked \subseteq registry))
           /\ inspections' = [inspections EXCEPT
                ![p] = IF observed = NoProcess THEN @ - 1 ELSE 0]
           /\ missed' = IF observed = NoProcess /\ inspections[p] = 1 /\ proc[p] # NoProcess
                        THEN missed \cup {"inspect"} ELSE missed
  /\ todo' = todo \ {p}
  /\ pc' = IF todo = {p} THEN "watch" ELSE pc
  /\ UNCHANGED <<machine, messages, watched, waits, unavailable, status, found, evaluated>>

\* The oldest message of a watcher; a scan that is due comes before it.
Receive(k, m) ==
  /\ pc = "idle" /\ ~scanDue
  /\ queue[k] # << >> /\ m = Head(queue[k])
  /\ queue' = [queue EXCEPT ![k] = Tail(@)]
  /\ UNCHANGED <<machine, subscribed, exits>>

\* A start is of interest by its name; the PID is then inspected, now or later.
ReceiveStart(event) ==
  /\ Receive("starts", event)
  /\ IF event.name \notin watched
     THEN UNCHANGED <<registry, inspections, pc, changed>>
     ELSE \E observed \in Inspected(event.pid) :
            LET tracked == Trackable(event.pid, observed)
            IN  /\ registry' = Upserted(registry, tracked)
                /\ changed' = ~(tracked \subseteq registry)
                /\ inspections' = IF observed = NoProcess
                                  THEN [inspections EXCEPT ![event.pid] = MaxAttempts]
                                  ELSE inspections
                /\ pc' = "watch"
  /\ UNCHANGED <<watched, waits, unavailable, status, todo, found, history>>

\* Mutant of ReceiveStop: only a removal asks for an evaluation.
ReceiveStopForRemoval(event) ==
  /\ Receive("stops", event)
  /\ \E observed \in Inspected(event.pid) :
       /\ registry' = Upserted(Retained(event.pid, observed), Trackable(event.pid, observed))
       /\ changed' = (Retained(event.pid, observed) # registry)
       /\ missed' = IF observed # proc[event.pid] THEN missed \cup {"inspect"} ELSE missed
  /\ inspections' = [inspections EXCEPT ![event.pid] = 0]
  /\ pc' = "watch"
  /\ UNCHANGED <<watched, waits, unavailable, status, todo, found, evaluated>>

\* A stop names a PID only: who has it now decides what is dropped.
ReceiveStop(event) ==
  /\ Receive("stops", event)
  /\ \E observed \in Inspected(event.pid) :
       LET retained == Retained(event.pid, observed)
           tracked  == Trackable(event.pid, observed)
       IN  /\ registry' = Upserted(retained, tracked)
           /\ changed' = (retained # registry \/ ~(tracked \subseteq retained))
           /\ missed' = IF observed # proc[event.pid] THEN missed \cup {"inspect"} ELSE missed
  /\ inspections' = [inspections EXCEPT ![event.pid] = 0]
  /\ pc' = "watch"
  /\ UNCHANGED <<watched, waits, unavailable, status, todo, found, evaluated>>

\* Mutant of ReceiveReport: a watcher that has recovered asks for no scan.
ReceiveReportQuietly(k, m) ==
  /\ Receive(k, m)
  /\ health' = [health EXCEPT ![k] = IF m = Healthy THEN "running" ELSE "degraded"]
  /\ UNCHANGED <<tracking, scanDue, control, history>>

\* WatcherHealthy and WatcherDegraded both force a scan.
ReceiveReport(k, m) ==
  /\ Receive(k, m)
  /\ health' = [health EXCEPT ![k] = IF m = Healthy THEN "running" ELSE "degraded"]
  /\ scanDue' = TRUE
  /\ UNCHANGED <<tracking, control, history>>

\* Mutant of ReceiveExit: the PID of the instance decides.
ReceiveExitOfPid(i) ==
  /\ pc = "idle" /\ ~scanDue /\ i \in exits
  /\ exits' = exits \ {i}
  /\ registry' = {j \in registry : j.pid # i.pid}
  /\ changed' = (i.pid \in PidsOf(registry))
  /\ pc' = IF i.pid \in PidsOf(registry) THEN "watch" ELSE "idle"
  /\ UNCHANGED <<machine, subscribed, queue, watched, waits, unavailable, inspections,
                 status, todo, found, history>>

\* TrackedProcessExited names the exact instance.
ReceiveExit(i) ==
  /\ pc = "idle" /\ ~scanDue /\ i \in exits
  /\ exits' = exits \ {i}
  /\ registry' = registry \ {i}
  /\ changed' = (i \in registry)
  /\ pc' = IF i \in registry THEN "watch" ELSE "idle"
  /\ UNCHANGED <<machine, subscribed, queue, watched, waits, unavailable, inspections,
                 status, todo, found, history>>

\* One message of a channel, whatever it is.
ReceiveFrom(k) ==
  \/ \E m \in {Healthy, Degraded} : ReceiveReport(k, m)
  \/ \E event \in Event :
       (k = "starts" /\ ReceiveStart(event)) \/ (k = "stops" /\ ReceiveStop(event))

Unwaited == registry \ (waits \cup unavailable)

\* The last process of a PID can be opened while it lives, and after its death
\* if somebody holds it: then the wait ends at once.
Openable(i) == i.birth # 0 /\ i.birth = births[i.pid]

\* synchronize_exit_watches, then an evaluation if the pass changed the registry.
Synchronize ==
  /\ pc = "watch"
  /\ \E opened \in SUBSET {i \in Unwaited : Openable(i)} :
       /\ "wait" \in Faults \/ {i \in Unwaited : Alive(i)} \subseteq opened
       /\ waits' = (waits \cap registry) \cup opened
       /\ unavailable' = (registry \cap unavailable) \cup (Unwaited \ opened)
       /\ exits' = exits \cup {i \in opened : ~Alive(i)}
  /\ evaluated' = IF changed THEN registry ELSE evaluated
  /\ changed' = FALSE
  /\ pc' = "idle"
  /\ UNCHANGED <<machine, subscribed, queue, watched, registry, inspections, status,
                 todo, found, missed>>

-----------------------------------------------------------------------------
Machine ==
  \/ \E p \in Pids, n \in Names : Spawn(p, n)
  \/ \E p \in Pids : Die(p)
  \/ \E k \in Kinds : WatcherFails(k)

Agent ==
  \/ \E names \in WatchSets : Reconcile(names)
  \/ \E p \in Pids : InspectListed(p) \/ InspectDue(p)
  \/ Replace
  \/ \E due \in SUBSET Pids : TakeDue(due)
  \/ \E k \in Kinds : ReceiveFrom(k)
  \/ \E i \in Instance : ReceiveExit(i)
  \/ Synchronize

Next == Machine \/ (\E k \in Kinds : WatcherSubscribes(k)) \/ Agent

Spec == Init /\ [][Next]_vars

(* The main thread finishes each pass, receives every message sent to it,  *)
(* retries what is due and scans when a scan is due or WMI is degraded. A  *)
(* watcher goes on trying to subscribe, and succeeds again and again.      *)
ScanWanted == pc = "start" \/ scanDue \/ \E k \in Kinds : health[k] = "degraded"

Fairness ==
  /\ WF_vars((\E p \in Pids : InspectListed(p) \/ InspectDue(p)) \/ Replace \/ Synchronize)
  /\ SF_vars(ScanWanted /\ \E names \in WatchSets : Reconcile(names))
  /\ SF_vars(\E due \in SUBSET Pids : TakeDue(due))
  /\ SF_vars(ReceiveFrom("starts"))
  /\ SF_vars(ReceiveFrom("stops"))
  /\ SF_vars(\E i \in Instance : ReceiveExit(i))
  /\ \A k \in Kinds : SF_vars(WatcherSubscribes(k))

FairSpec == Spec /\ Fairness

-----------------------------------------------------------------------------
(* Properties.                                                             *)

\* The subscription delivers, and the agent has scanned since it was created.
Covered(k) == health[k] = "running" /\ ~scanDue /\ NoReportQueued(k)

EventQueued(k, p) == \E n \in Names : [pid |-> p, name |-> n] \in Messages(k)

\* The instance is gone; one without a birth is judged by the name of its PID.
Ghost(i) ==
  IF i.birth = 0 THEN proc[i.pid] = NoProcess \/ proc[i.pid].name \notin watched
  ELSE ~Alive(i)

\* Whatever the order in which the snapshot, the inspections, the exit waits and
\* the two WMI channels see a death, a tracked process that is gone will still be
\* reported to the agent, unless a snapshot has failed since.
NoSilentGhost ==
  pc = "idle" /\ "snapshot" \notin missed =>
    \A i \in registry : Ghost(i) => i \in exits \/ EventQueued("stops", i.pid) \/ ~Covered("stops")

\* A watched process that runs is tracked, or the agent still has a message, a
\* retry or a scan ahead that leads it there, unless its last retry has failed.
NoLostProcess ==
  pc = "idle" /\ missed = {} =>
    \A p \in Pids :
      proc[p] # NoProcess /\ proc[p].name \in watched =>
        \/ p \in PidsOf(registry)
        \/ EventQueued("starts", p) \/ inspections[p] > 0 \/ ~Covered("starts")

\* Every change of the registry is evaluated before the agent waits again.
ChangesAreEvaluated == pc = "idle" => evaluated = registry

\* Its PID is in use by a watched process throughout a step that is no scan.
StillRuns(i) == ~Ghost(i) /\ ~Ghost(i)' /\ proc[i.pid].name \in watched' /\ pc # "list"

\* process_registry.rs, ProcessRegistry: a delayed stop or exit signal for a
\* recycled PID does not remove the newer process, if that process can be
\* inspected when the signal arrives.
NewerProcessSurvives ==
  [][\A i \in registry :
       StillRuns(i) => i.pid \in PidsOf(registry') \/ missed' # {}]_vars

\* The same, whether it can be inspected or not: README.md, "Matching instances
\* live in an in-memory registry keyed by `PID + creation time`, which prevents PID
\* reuse from corrupting state".
RecycledPidIsSafe ==
  [][\A i \in registry :
       StillRuns(i) => i.pid \in PidsOf(registry')]_vars

\* When processes stop coming and going the registry agrees with the machine
\* whenever the agent waits, however the watchers flap.
RegistryConverges ==
  <>[](pc = "idle" /\ missed = {} =>
         PidsOf(registry) = {p \in Pids : proc[p] # NoProcess /\ proc[p].name \in watched})

=============================================================================
