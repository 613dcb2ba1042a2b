---------------------------- MODULE AgentScheduler ----------------------------
(***************************************************************************)
(* When the agent looks at the machine again: the scans that are forced,   *)
(* or due while WMI is degraded (scheduler.rs), the restore and the        *)
(* inspection that fall due meanwhile, the blocking receive of the main    *)
(* loop (lib.rs), the save of a configuration that asks for a reload       *)
(* (src-tauri: config.rs, agent_control.rs), and the back-off of the       *)
(* threads that keep the WMI subscriptions alive (process_events.rs).      *)
(*                                                                         *)
(* Deadlines are absolute in the code. Here a deadline is the time left    *)
(* until it, cut off at zero, and Tick lets time pass between any two      *)
(* steps, however long the steps take. What an evaluation does to the      *)
(* pending restore is what PowerControl says of it, and no more.           *)
(***************************************************************************)
EXTENDS Integers, Sequences

CONSTANTS
  Kinds,           \* the WMI subscriptions
  ScanInterval,    \* DEGRADED_PROCESS_SCAN_INTERVAL, in ticks
  Cooldown,        \* PUBLIC_WAKE_EVENT_COOLDOWN, in ticks
  RetryDelay,      \* delay of a targeted inspection, in ticks
  MaxDelay,        \* bound on close delays, in ticks
  InitialBackoff,  \* first pause of a watcher, in ticks
  MaxBackoff,      \* longest pause of a watcher, in ticks
  StableRun,       \* how long a run must last to reset the back-off, in ticks
  MaxQueued,       \* bound on the messages in the channel of the agent
  Faults,          \* the failures the environment may cause
  NoDeadline

FaultKinds == {"ipc", "event", "config", "watcher", "restore"}

Inspection == [left : 0..RetryDelay, attempts : {1, 2}]

ASSUME SchedulerAssumption ==
  /\ {ScanInterval, Cooldown, RetryDelay, InitialBackoff, MaxQueued} \subseteq Nat \ {0}
  /\ {MaxDelay, StableRun} \subseteq Nat
  /\ MaxBackoff \in Nat /\ InitialBackoff <= MaxBackoff
  /\ Faults \subseteq FaultKinds
  /\ NoDeadline \notin Nat \cup Inspection

\* What the main loop receives: ProcessWatchMessage.
Report == [type : {"report"}, kind : Kinds, healthy : BOOLEAN]

Message == [type : {"wake", "reevaluate", "process"}] \cup Report

VARIABLES
  pc,        \* where the agent's main thread stands
  overdue,   \* what was due when the current pass began
  timeout,   \* time left until the blocking receive returns
  forced,    \* AgentScanScheduler.pending is set
  wakeAge,   \* time since the last public wake that was accepted
  scan,      \* AgentScanScheduler.degraded_scan_due_at_ms
  restore,   \* AgentRuntimeState.pending_restore
  inspect,   \* TargetedInspectionQueue: time left and attempts left of its first entry
  degraded,  \* WmiWatcherStatus: the subscriptions reported degraded
  queue,     \* the channel of the main loop
  wakeEvent, \* the Windows event that the wake thread waits on
  ui,        \* where the configuration UI stands
  unread,    \* the agent has not read the configuration saved last
  watcher,   \* per subscription, its supervising thread
  late,      \* history: messages received since a scan or the restore fell due
  dropped    \* history: a request for the configuration saved last came to nothing

loop     == <<pc, overdue, timeout>>
schedule == <<forced, wakeAge, scan>>
agenda   == <<restore, inspect>>
outside  == <<queue, wakeEvent, ui, unread, watcher>>
history  == <<late, dropped>>
vars     == <<loop, schedule, agenda, degraded, outside, history>>

Deadline(bound) == 0..bound \cup {NoDeadline}

Longest == ScanInterval + MaxDelay + RetryDelay

Watcher ==
  [phase : {"subscribing", "running", "sleeping"}, backoff : 1..MaxBackoff,
   left : 0..MaxBackoff, elapsed : 0..StableRun, ran : 0..StableRun]

\* Type invariant.
TypeOK ==
  /\ pc \in {"top", "inspect", "load", "snapshot", "wait", "blocked"}
  /\ overdue \subseteq {"scan", "restore"}
  /\ timeout \in Deadline(Longest)
  /\ forced \in BOOLEAN
  /\ wakeAge \in 0..Cooldown
  /\ scan \in Deadline(ScanInterval)
  /\ restore \in Deadline(MaxDelay)
  /\ inspect \in Inspection \cup {NoDeadline}
  /\ degraded \subseteq Kinds
  /\ queue \in Seq(Message) /\ Len(queue) <= MaxQueued
  /\ wakeEvent \in BOOLEAN
  /\ ui \in {"idle", "asking"}
  /\ unread \in BOOLEAN
  /\ watcher \in [Kinds -> Watcher]
  /\ late \in [{"scan", "restore"} -> 0..2]
  /\ dropped \in BOOLEAN

-----------------------------------------------------------------------------
\* Mutant of Passed: a deadline in the past is not cut off.
PassedBelowZero(deadline) == IF deadline = NoDeadline THEN deadline ELSE deadline - 1

Passed(deadline) == IF deadline \in {0, NoDeadline} THEN deadline ELSE deadline - 1

Earlier(a, b) ==
  IF a = NoDeadline THEN b
  ELSE IF b = NoDeadline THEN a ELSE IF a <= b THEN a ELSE b

InspectionLeft == IF inspect = NoDeadline THEN NoDeadline ELSE inspect.left

\* What an evaluation may leave of the pending restore: nothing, if a process is
\* back or the restore is done; the same; or a new one, if there was none.
Evaluated(r) ==
  CASE r = NoDeadline -> Deadline(MaxDelay)
    [] r = 0          -> {NoDeadline} \cup (IF "restore" \in Faults THEN {0} ELSE {})
    [] OTHER          -> {NoDeadline, r}

Init ==
  /\ pc = "top"
  /\ overdue = {}
  /\ timeout = NoDeadline
  /\ forced = FALSE
  /\ wakeAge = Cooldown
  /\ scan = NoDeadline
  /\ restore \in Deadline(MaxDelay)
  /\ inspect = NoDeadline
  /\ degraded = {}
  /\ queue = << >>
  /\ wakeEvent = FALSE
  /\ ui = "idle"
  /\ unread = FALSE
  /\ watcher = [k \in Kinds |->
       [phase |-> "subscribing", backoff |-> InitialBackoff, left |-> 0, elapsed |-> 0, ran |-> 0]]
  /\ late = [d \in {"scan", "restore"} |-> 0]
  /\ dropped = FALSE

-----------------------------------------------------------------------------
(* One pass of the main loop. What is due is decided by the time at its    *)
(* top.                                                                    *)

\* Mutant of SynchronizedScan: the deadline slides with every pass.
SlidingScan ==
  IF degraded = {} THEN NoDeadline ELSE IF scan = NoDeadline THEN 0 ELSE ScanInterval

\* synchronize_degraded_mode: a deadline that is set stays where it is.
SynchronizedScan ==
  IF degraded = {} THEN NoDeadline ELSE IF scan = NoDeadline THEN 0 ELSE scan

Top ==
  /\ pc = "top"
  /\ scan' = SynchronizedScan
  /\ overdue' = (IF forced \/ scan' = 0 THEN {"scan"} ELSE {})
                \cup (IF restore = 0 THEN {"restore"} ELSE {})
  /\ pc' = IF InspectionLeft = 0 THEN "inspect"
           ELSE IF overdue' # {} THEN "load" ELSE "wait"
  /\ UNCHANGED <<timeout, forced, wakeAge, agenda, degraded, outside, history>>

\* The inspections that are due; a success that changes the registry leads to an
\* evaluation, a failure to one more attempt, its delay counted from the top of the
\* pass. A new restore without delay may be due in the same pass.
Inspect ==
  /\ pc = "inspect"
  /\ \/ inspect.attempts = 2
        /\ \E left \in 0..RetryDelay : inspect' = [left |-> left, attempts |-> 1]
        /\ UNCHANGED <<restore, late>>
     \/ inspect' = NoDeadline
        /\ UNCHANGED <<restore, late>>
     \/ inspect' = NoDeadline
        /\ restore' \in Evaluated(restore)
        /\ late' = [late EXCEPT !["restore"] = 0]
  /\ overdue' \in {(overdue \ {"restore"}) \cup r :
       r \in IF restore' # 0 THEN {{}} ELSE IF restore = 0 THEN {{"restore"}} ELSE {{}, {"restore"}}}
  /\ pc' = IF overdue' # {} THEN "load" ELSE "wait"
  /\ UNCHANGED <<timeout, schedule, degraded, outside, dropped>>

\* refresh_config_and_reconcile reads the configuration first.
Load ==
  /\ pc = "load"
  /\ unread' = FALSE
  /\ dropped' = FALSE
  /\ pc' = "snapshot"
  /\ UNCHANGED <<overdue, timeout, schedule, agenda, degraded, queue, wakeEvent, ui, watcher,
                 late>>

\* The file cannot be loaded: the last configuration is kept, the scan goes on.
LoadFails ==
  /\ pc = "load" /\ "config" \in Faults
  /\ dropped' = unread
  /\ pc' = "snapshot"
  /\ UNCHANGED <<overdue, timeout, schedule, agenda, degraded, outside, late>>

\* mark_scan_completed.
Completed ==
  /\ forced' = FALSE
  /\ scan' = IF degraded = {} THEN NoDeadline ELSE ScanInterval

\* The snapshot and the evaluation it leads to.
Snapshot ==
  /\ pc = "snapshot"
  /\ restore' \in Evaluated(restore)
  /\ Completed
  /\ overdue' = {}
  /\ late' = [d \in {"scan", "restore"} |-> 0]
  /\ pc' = "wait"
  /\ UNCHANGED <<timeout, wakeAge, inspect, degraded, outside, dropped>>

\* Mutant of NextWait: the deadline of a degraded scan is left out.
NextRestoreWait == Earlier(restore, InspectionLeft)

\* next_wait_with_scheduler and TargetedInspectionQueue::next_wait.
NextWait ==
  Earlier(Earlier(restore, IF forced THEN 0 ELSE NoDeadline),
          Earlier(scan, InspectionLeft))

Wait ==
  /\ pc = "wait"
  /\ timeout' = NextWait
  /\ pc' = "blocked"
  /\ UNCHANGED <<overdue, schedule, agenda, degraded, outside, history>>

TimedOut ==
  /\ pc = "blocked" /\ timeout = 0 /\ queue = << >>
  /\ timeout' = NoDeadline
  /\ pc' = "top"
  /\ UNCHANGED <<overdue, schedule, agenda, degraded, outside, history>>

FallenDue ==
  (IF forced \/ scan = 0 THEN {"scan"} ELSE {}) \cup (IF restore = 0 THEN {"restore"} ELSE {})

UpTo(bound, n) == IF n < bound THEN n + 1 ELSE bound

\* A message received although a deadline has passed.
Counted == [d \in {"scan", "restore"} |-> IF d \in FallenDue THEN UpTo(2, late[d]) ELSE 0]

\* Mutant of Receive: a pass that handled a message waits for the next one.
ReceiveAndWait(m) ==
  /\ pc = "blocked"
  /\ queue # << >> /\ m = Head(queue)
  /\ queue' = Tail(queue)
  /\ timeout' = NoDeadline
  /\ pc' = "wait"
  /\ UNCHANGED <<overdue, wakeEvent, ui, unread, watcher>>

Receive(m) ==
  /\ pc = "blocked"
  /\ queue # << >> /\ m = Head(queue)
  /\ queue' = Tail(queue)
  /\ timeout' = NoDeadline
  /\ pc' = "top"
  /\ UNCHANGED <<overdue, wakeEvent, ui, unread, watcher>>

\* record_public_wake: a wake within the cooldown of the last one is dropped.
ReceiveWake ==
  /\ Receive([type |-> "wake"])
  /\ IF wakeAge < Cooldown
     THEN dropped' = unread /\ UNCHANGED <<forced, wakeAge>>
     ELSE forced' = TRUE /\ wakeAge' = 0 /\ UNCHANGED dropped
  /\ late' = Counted
  /\ UNCHANGED <<scan, agenda, degraded>>

\* Mutant of ReceiveReevaluate: the cooldown applies to it too.
ReceiveReevaluateThrottled ==
  /\ Receive([type |-> "reevaluate"])
  /\ late' = Counted
  /\ forced' = (wakeAge = Cooldown)
  /\ wakeAge' = IF wakeAge = Cooldown THEN 0 ELSE wakeAge
  /\ UNCHANGED <<scan, agenda, degraded, dropped>>

\* Reevaluate and PromoteProfile.
ReceiveReevaluate ==
  /\ Receive([type |-> "reevaluate"])
  /\ forced' = TRUE
  /\ late' = Counted
  /\ UNCHANGED <<wakeAge, scan, agenda, degraded, dropped>>

\* A process came or went: an inspection put off, one given up, an evaluation.
ReceiveProcess ==
  /\ Receive([type |-> "process"])
  /\ inspect' \in {inspect, NoDeadline, [left |-> RetryDelay, attempts |-> 2]}
  /\ \/ late' = Counted /\ UNCHANGED restore
     \/ late' = [Counted EXCEPT !["restore"] = 0] /\ restore' \in Evaluated(restore)
  /\ UNCHANGED <<schedule, degraded, dropped>>

\* WatcherHealthy and WatcherDegraded.
ReceiveReport(m) ==
  /\ Receive(m)
  /\ degraded' = IF m.healthy THEN degraded \ {m.kind} ELSE degraded \cup {m.kind}
  /\ forced' = TRUE
  /\ late' = Counted
  /\ UNCHANGED <<wakeAge, scan, agenda, dropped>>

-----------------------------------------------------------------------------
(* The other threads and processes.                                        *)

Send(m) == Len(queue) < MaxQueued /\ queue' = Append(queue, m)

\* Bound of the model: one message of WMI about processes at a time.
ProcessEvent ==
  /\ [type |-> "process"] \notin {queue[i] : i \in DOMAIN queue}
  /\ Send([type |-> "process"])
  /\ UNCHANGED <<loop, schedule, agenda, degraded, wakeEvent, ui, unread, watcher, history>>

\* The wake thread takes the event and posts a message for it.
ForwardWake ==
  /\ wakeEvent
  /\ wakeEvent' = FALSE
  /\ Send([type |-> "wake"])
  /\ UNCHANGED <<loop, schedule, agenda, degraded, ui, unread, watcher, history>>

\* A save that concerns the agent: the file is replaced, then the agent is told.
Save ==
  /\ ui = "idle"
  /\ ui' = "asking"
  /\ unread' = TRUE
  /\ UNCHANGED <<loop, schedule, agenda, degraded, queue, wakeEvent, watcher, history>>

\* "Scan now", or powershift-agent --wake.
ScanNow ==
  /\ ui = "idle"
  /\ ui' = "asking"
  /\ UNCHANGED <<loop, schedule, agenda, degraded, queue, wakeEvent, unread, watcher, history>>

\* wake_agent: through the pipe, else through the event, else a warning.
WakeAgent ==
  /\ ui = "asking"
  /\ ui' = "idle"
  /\ \/ Send([type |-> "reevaluate"]) /\ UNCHANGED <<wakeEvent, dropped>>
     \/ "ipc" \in Faults /\ wakeEvent' = TRUE /\ UNCHANGED <<queue, dropped>>
     \/ {"ipc", "event"} \subseteq Faults /\ dropped' = unread /\ UNCHANGED <<queue, wakeEvent>>
  /\ UNCHANGED <<loop, schedule, agenda, degraded, unread, watcher, late>>

\* supervise_process_watcher: a subscription is made, ...
Subscribed(k) ==
  /\ watcher[k].phase = "subscribing"
  /\ watcher' = [watcher EXCEPT ![k].phase = "running"]
  /\ Send([type |-> "report", kind |-> k, healthy |-> TRUE])
  /\ UNCHANGED <<loop, schedule, agenda, degraded, wakeEvent, ui, unread, history>>

\* ... or cannot be made, or ends: the thread reports it and sleeps.
WatchFails(k) ==
  /\ "watcher" \in Faults
  /\ watcher[k].phase # "sleeping"
  /\ watcher' = [watcher EXCEPT ![k].phase = "sleeping", ![k].left = watcher[k].backoff,
                                ![k].ran = watcher[k].elapsed]
  /\ Send([type |-> "report", kind |-> k, healthy |-> FALSE])
  /\ UNCHANGED <<loop, schedule, agenda, degraded, wakeEvent, ui, unread, history>>

\* next_watcher_backoff.
NextBackoff(current, lastRun) ==
  IF lastRun >= StableRun THEN InitialBackoff
  ELSE IF 2 * current <= MaxBackoff THEN 2 * current ELSE MaxBackoff

\* The time since the last attempt is taken after the sleep, and includes it.
Retry(k) ==
  /\ watcher[k].phase = "sleeping" /\ watcher[k].left = 0
  /\ watcher' = [watcher EXCEPT
       ![k] = [phase |-> "subscribing", left |-> 0, elapsed |-> 0, ran |-> 0,
               backoff |-> NextBackoff(@.backoff, @.elapsed)]]
  /\ UNCHANGED <<loop, schedule, agenda, degraded, queue, wakeEvent, ui, unread, history>>

Tick ==
  /\ timeout' = Passed(timeout)
  /\ wakeAge' = UpTo(Cooldown, wakeAge)
  /\ scan' = Passed(scan)
  /\ restore' = Passed(restore)
  /\ inspect' = IF inspect = NoDeadline THEN NoDeadline
                ELSE [inspect EXCEPT !.left = Passed(@)]
  /\ watcher' = [k \in Kinds |->
       [watcher[k] EXCEPT !.left = Passed(@), !.elapsed = UpTo(StableRun, @)]]
  /\ UNCHANGED <<pc, overdue, forced, degraded, queue, wakeEvent, ui, unread, late, dropped>>

-----------------------------------------------------------------------------
Handle ==
  \/ ReceiveWake \/ ReceiveReevaluate \/ ReceiveProcess
  \/ \E m \in Report : ReceiveReport(m)

MainLoop == Top \/ Inspect \/ Load \/ LoadFails \/ Snapshot \/ Wait \/ TimedOut \/ Handle

Others ==
  \/ ProcessEvent \/ ForwardWake \/ Save \/ ScanNow \/ WakeAgent
  \/ \E k \in Kinds : Subscribed(k) \/ WatchFails(k) \/ Retry(k)

Next == MainLoop \/ Others \/ Tick

Spec == Init /\ [][Next]_vars

(* The main thread and the wake thread run, a command of the UI is carried *)
(* out, and time passes. Sending never blocks in the code: the bound on    *)
(* the channel is the model's, hence strong fairness of the senders.       *)
Fairness ==
  /\ WF_vars(MainLoop)
  /\ WF_vars(Tick)
  /\ SF_vars(ForwardWake)
  /\ SF_vars(WakeAgent)

FairSpec == Spec /\ Fairness

-----------------------------------------------------------------------------
(* Properties.                                                             *)

\* The agent never blocks past a deadline: whatever it has just handled, the
\* receive returns before a restore, an inspection or a scan is late, and it never
\* blocks with a forced scan pending.
NeverOversleeps ==
  pc = "blocked" =>
    /\ ~forced
    /\ \A d \in {scan, restore, InspectionLeft} \ {NoDeadline} :
         timeout # NoDeadline /\ timeout <= d

\* README: "scheduler deadlines remain absolute even during heavy process event
\* traffic, so restores and recovery scans cannot be starved": at most one message
\* is handled between the moment a deadline passes and what it asks for.
NoStarvation == \A d \in DOMAIN late : late[d] <= 1

\* A saved configuration is read by the running agent, with no other event to help
\* it, unless the request was dropped (cooldown, or neither pipe nor event to carry
\* it) or the file could not be loaded.
SavedConfigIsRead == unread ~> ~unread \/ dropped

\* As long as WMI is degraded the agent scans again and again: the deadline of a degraded scan
\* survives the messages that come before it, each of which is a pass of the loop that
\* synchronises it (lib.rs:227).
DegradedAgentScans == []<>(pc = "load" \/ degraded = {})

\* process_events.rs, test watcher_backoff_grows_but_resets_after_stable_run: the
\* pause of a watcher shrinks only after a subscription that lasted.
BackoffResetsAfterStableRun ==
  [][\A k \in Kinds :
       watcher'[k].backoff < watcher[k].backoff => watcher[k].ran >= StableRun]_vars

=============================================================================
