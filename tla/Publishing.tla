------------------------------ MODULE Publishing ------------------------------
(***************************************************************************)
(* What the agent lets others know: the published state, in memory for the *)
(* pipe and in a file (publisher.rs, ipc.rs), the log of events with its   *)
(* rotated half, and the readers that Windows events wake: the tray, with  *)
(* its tooltip and balloons (powershift-tray), and the window of the UI    *)
(* (windowing.rs, App.vue).                                                *)
(*                                                                         *)
(* Four processes and the threads in them take their steps in any order.   *)
(* Each access to a file, each signal and each answer over the pipe is one *)
(* step. The agent may end between any two, tray and UI come and go, and   *)
(* the pipe's thread clears the log while the main thread appends to it.   *)
(***************************************************************************)
EXTENDS Naturals, Sequences

CONSTANTS
  Scans,     \* outcomes of an evaluation
  Announced, \* those that scan_event_entry has an event for
  ProfileOf, \* the profile that has control, per outcome
  NoProfile,
  Errors,    \* error messages
  LogLimit,  \* MAX_EVENT_LOG_BYTES, in events
  Faults,    \* what may fail: access to the log, to the state file, the pipe
  MaxEvents, \* bound: the number of events
  NoScan, NoError, NoState

\* PublishedAgentState, as far as a reader shows it. The status follows from
\* it: Error with an error, else Running with a scan, else Starting.
State == [scan : Scans \cup {NoScan}, error : Errors \cup {NoError}]

ASSUME PublishingAssumption ==
  /\ Announced \subseteq Scans
  /\ DOMAIN ProfileOf = Scans
  /\ NoScan \notin Scans /\ NoError \notin Errors /\ NoState \notin State
  /\ Scans \cap Errors = {}
  /\ Faults \subseteq {"log", "file", "ipc"}
  /\ {LogLimit, MaxEvents} \subseteq Nat

Profiles == {ProfileOf[s] : s \in Scans} \cup {NoProfile}

Starting == [scan |-> NoScan, error |-> NoError]

VARIABLES
  main,    \* main thread of the agent: where it stands, and what it publishes
  memory,  \* AgentPublishMemory: the state as it ought to be published
  shared,  \* AgentSharedState
  file,    \* the state file
  log,     \* the event log: the numbers of its events
  rotated, \* its rotated half
  events,  \* events so far
  ipc,     \* a clear request of the pipe's thread
  tray,    \* the tray process
  ui,      \* the UI process
  gone     \* history: what was in the log up to this event has been cleared

logs  == <<log, rotated>>
state == <<memory, shared, file>>
vars  == <<main, state, logs, events, ipc, tray, ui, gone>>

EventNumbers == 0..MaxEvents

NoMain == [at |-> "off", result |-> NoError, warning |-> NoError, then |-> "outcome",
           lease |-> FALSE, lost |-> FALSE]

NoTray == [at |-> "off", booted |-> FALSE, cursor |-> 0, tip |-> NoProfile,
           listens |-> {}, mail |-> {}, missed |-> {}]

NoUi == [open |-> FALSE, listens |-> FALSE, at |-> "idle", mail |-> FALSE,
         pending |-> FALSE, answer |-> NoState, connected |-> FALSE, screen |-> NoState,
         missed |-> TRUE]

\* Type invariant.
TypeOK ==
  /\ main \in [at : {"off", "idle", "first", "size", "unrotate", "rename", "open", "write", "signalLog",
                     "outcome", "set", "file", "signalUi", "signalTray", "warn"},
               result : Scans \cup Errors \cup {NoError}, warning : Errors \cup {NoError},
               then : {"outcome", "set"}, lease : BOOLEAN, lost : BOOLEAN]
  /\ memory \in State
  /\ {shared, file} \subseteq State \cup {NoState}
  /\ {log, rotated} \subseteq Seq(EventNumbers)
  /\ events \in EventNumbers
  /\ ipc \in [clearing : BOOLEAN, upto : EventNumbers]
  /\ tray \in [at : {"off", "ask", "file", "prime", "up"}, booted : BOOLEAN,
               cursor : EventNumbers,
               tip : Profiles, listens : SUBSET {"log", "tray"}, mail : SUBSET {"log", "tray"},
               missed : SUBSET {"log", "tray"}]
  /\ ui \in [open : BOOLEAN, listens : BOOLEAN, at : {"idle", "ask", "apply"},
             mail : BOOLEAN, pending : BOOLEAN, answer : State \cup {NoState}, connected : BOOLEAN,
             screen : State \cup {NoState}, missed : BOOLEAN]
  /\ gone \in EventNumbers

Goto(at) == main' = [main EXCEPT !.at = at]

\* matched_profile_name of a scan.
Profile(scan) == IF scan \in Scans THEN ProfileOf[scan] ELSE NoProfile

\* The last line of the current file; 0 if there is none.
Latest == IF log = <<>> THEN 0 ELSE log[Len(log)]

\* The last event in either half.
Newest == IF log = <<>> /\ rotated # <<>> THEN rotated[Len(rotated)] ELSE Latest

(***************************************************************************)
(* Main thread: outcomes and errors                                        *)
(***************************************************************************)

\* append_event_to_path is called, with the main thread's other locals in m. The
\* event gets its number as it gets its time in the code, before it is written.
\* Bound: after the last number, the main thread does not get beyond this point.
LogEvent(m, then) ==
  /\ events < MaxEvents
  /\ events' = events + 1
  /\ main' = [m EXCEPT !.at = "size", !.then = then]

\* A publication is over, or was not needed.
Finish(m) == main' = [m EXCEPT !.at = IF m.warning = NoError THEN "idle" ELSE "warn"]

\* Start of the agent: the state is "starting" before the pipe exists, and no
\* reader is told. Opening the lease may have left a warning for the log. An agent
\* that cannot write the file ends here, as if it had not been.
Start ==
  /\ main.at = "off"
  /\ memory' = Starting /\ shared' = Starting /\ file' = Starting
  /\ \E lease \in BOOLEAN : main' = [NoMain EXCEPT !.at = "first", !.lease = lease]
  /\ UNCHANGED <<logs, events, ipc, tray, ui, gone>>

\* The agent ends, at whatever point: shut down, killed, or crashed. An event it
\* has written but not yet signalled is one that the tray is not told of.
End ==
  /\ main.at # "off"
  /\ main' = NoMain
  /\ memory' = Starting
  /\ shared' = NoState
  /\ ipc' = [clearing |-> FALSE, upto |-> 0]
  /\ tray' = IF main.at = "signalLog" /\ tray.at # "off" THEN [tray EXCEPT !.missed = @ \cup {"log"}] ELSE tray
  /\ UNCHANGED <<file, logs, events, ui, gone>>

\* An evaluation and write_scan_event, or, at the start, a recovery that fails and is
\* not followed by either. A configuration that could not be loaded leaves a warning
\* to publish after the outcome.
Evaluate ==
  /\ main.at \in {"idle", "first"}
  /\ \E result \in Scans \cup Errors, warning \in Errors \cup {NoError} :
       LET m == [main EXCEPT !.result = result, !.warning = warning]
       IN \/ result \in Announced \cup Errors /\ LogEvent(m, "outcome")
          \/ /\ result \in Scans \ Announced \/ (main.at = "first" /\ result \in Errors)
             /\ main' = [m EXCEPT !.at = "outcome"]
             /\ UNCHANGED events
  /\ UNCHANGED <<state, logs, ipc, tray, ui, gone>>

\* The warning of the lease, at the start.
WarnOfLease ==
  /\ main.at = "outcome" /\ main.lease
  /\ LogEvent([main EXCEPT !.lease = FALSE], "outcome")
  /\ UNCHANGED <<state, logs, ipc, tray, ui, gone>>

\* Mutant of Noted: an error takes the place of the last scan.
NotedOver(result) == [memory EXCEPT !.scan = result, !.error = NoError]

\* The memory after a result: an error leaves the last scan as it is.
Noted(result) ==
  IF result \in Scans
  THEN [memory EXCEPT !.scan = result, !.error = NoError]
  ELSE [memory EXCEPT !.error = result]

\* publish_scan_outcome: nothing is published when nothing is new. An error that
\* is new goes to the log again.
Outcome ==
  /\ main.at = "outcome" /\ ~main.lease
  /\ memory' = Noted(main.result)
  /\ LET m == [main EXCEPT !.result = NoError]
     IN IF memory' = memory THEN Finish(m) /\ UNCHANGED events
        ELSE IF main.result \in Scans THEN main' = [m EXCEPT !.at = "set"] /\ UNCHANGED events
        ELSE LogEvent(m, "set")
  /\ UNCHANGED <<shared, file, logs, ipc, tray, ui, gone>>

\* publish_error, of the warning of a configuration or of a watcher's report.
Warn ==
  /\ main.at = "warn"
  /\ memory' = [memory EXCEPT !.error = main.warning]
  /\ LET m == [main EXCEPT !.warning = NoError]
     IN IF memory' = memory
        THEN Finish(m) /\ UNCHANGED events
        ELSE LogEvent(m, "set")
  /\ UNCHANGED <<shared, file, logs, ipc, tray, ui, gone>>

\* An error of another thread is to be published, or the new health of a watcher,
\* which the readers are told of although nothing here changes.
Report ==
  /\ main.at = "idle"
  /\ \/ \E error \in Errors : main' = [main EXCEPT !.at = "warn", !.warning = error]
     \/ \E warning \in Errors \cup {NoError} : main' = [main EXCEPT !.at = "signalUi", !.warning = warning]
  /\ UNCHANGED <<state, logs, events, ipc, tray, ui, gone>>

(***************************************************************************)
(* Main thread: publication                                                *)
(***************************************************************************)

\* publish_state_best_effort_with_shared: memory, file, then the two signals.
Set ==
  /\ main.at = "set"
  /\ shared' = memory
  /\ Goto("file")
  /\ UNCHANGED <<memory, file, logs, events, ipc, tray, ui, gone>>

WriteFile ==
  /\ main.at = "file"
  /\ \/ file' = memory
     \/ "file" \in Faults /\ UNCHANGED file
  /\ Goto("signalUi")
  /\ UNCHANGED <<memory, shared, logs, events, ipc, tray, ui, gone>>

\* signal_agent_state_updated. Each reader has an event of its own, which exists
\* from when its listener has created it. The event, and the message that the
\* listener makes of it, are one flag: a signal adds nothing to one that waits.
SignalUi ==
  /\ main.at = "signalUi"
  /\ Goto("signalTray")
  /\ ui' = IF ui.listens THEN [ui EXCEPT !.mail = TRUE] ELSE [ui EXCEPT !.missed = TRUE]
  /\ UNCHANGED <<state, logs, events, ipc, tray, gone>>

\* The same for one of the tray's two events.
SignalledTray(event) ==
  tray' = IF event \in tray.listens THEN [tray EXCEPT !.mail = @ \cup {event}]
          ELSE IF tray.at = "off" THEN tray
          ELSE [tray EXCEPT !.missed = @ \cup {event}]

SignalTray ==
  /\ main.at = "signalTray"
  /\ Finish(main)
  /\ SignalledTray("tray")
  /\ UNCHANGED <<state, logs, events, ipc, ui, gone>>

(***************************************************************************)
(* Main thread: append_event_to_path                                       *)
(***************************************************************************)

\* The event is given up; its failure goes unreported.
Dropped == Goto(main.then) /\ UNCHANGED logs

LogFails == "log" \in Faults /\ Dropped

\* rotate_event_log_if_needed, the size of the current file.
Size ==
  /\ main.at = "size"
  /\ Goto(IF Len(log) <= LogLimit THEN "open" ELSE "unrotate")
  /\ UNCHANGED <<state, logs, events, ipc, tray, ui, gone>>

\* The older half is removed; whether that works does not matter.
Unrotate ==
  /\ main.at = "unrotate"
  /\ \/ rotated' = <<>>
     \/ "log" \in Faults /\ UNCHANGED rotated
  /\ Goto("rename")
  /\ UNCHANGED <<state, log, events, ipc, tray, ui, gone>>

Renamed ==
  /\ log # <<>>
  /\ rotated' = log /\ log' = <<>>
  /\ Goto("open")

\* The current half takes its place; it may have been cleared meanwhile.
Rename ==
  /\ main.at = "rename"
  /\ \/ Renamed
     \/ log = <<>> /\ Dropped
     \/ LogFails
  /\ UNCHANGED <<state, events, ipc, tray, ui, gone>>

\* The current file is opened, or created.
Open ==
  /\ main.at = "open"
  /\ \/ main' = [main EXCEPT !.at = "write", !.lost = FALSE] /\ UNCHANGED logs
     \/ LogFails
  /\ UNCHANGED <<state, events, ipc, tray, ui, gone>>

Written == log' = IF main.lost THEN log ELSE Append(log, events)

\* The event is written, into the file that was opened even if that is removed.
Write ==
  /\ main.at = "write"
  /\ \/ Written /\ Goto("signalLog") /\ UNCHANGED rotated
     \/ LogFails
  /\ UNCHANGED <<state, events, ipc, tray, ui, gone>>

SignalLog ==
  /\ main.at = "signalLog"
  /\ Goto(main.then)
  /\ SignalledTray("log")
  /\ UNCHANGED <<state, logs, events, ipc, ui, gone>>

(***************************************************************************)
(* The pipe's thread: clear_event_history_at_path                          *)
(***************************************************************************)

\* Mutant of FirstCleared: the rotated half is removed first.
FirstClearedRotated == "rotated"

FirstCleared == "log"

\* One of the two files is removed, even while it is open for writing.
Removed(which) ==
  /\ IF which = "log" THEN log' = <<>> /\ UNCHANGED rotated ELSE rotated' = <<>> /\ UNCHANGED log
  /\ main' = [main EXCEPT !.lost = @ \/ (which = "log" /\ main.at = "write")]

\* A request to clear the log arrives. If the first removal fails it is over.
Clear ==
  /\ main.at # "off" /\ ~ipc.clearing
  /\ Removed(FirstCleared)
  /\ ipc' = [clearing |-> TRUE, upto |-> Newest]
  /\ UNCHANGED <<state, events, tray, ui, gone>>

\* The second removal, after which the request is answered.
ClearRest ==
  /\ ipc.clearing
  /\ ipc' = [ipc EXCEPT !.clearing = FALSE, !.upto = 0]
  /\ \/ /\ Removed(CHOOSE which \in {"log", "rotated"} : which # FirstCleared)
        /\ gone' = ipc.upto
     \/ "log" \in Faults /\ UNCHANGED <<main, logs, gone>>
  /\ UNCHANGED <<state, events, tray, ui>>

(***************************************************************************)
(* The tray                                                                *)
(***************************************************************************)

TrayStart ==
  /\ tray.at = "off"
  /\ tray' = [NoTray EXCEPT !.at = "ask"]
  /\ UNCHANGED <<main, state, logs, events, ipc, ui, gone>>

\* It ends, and its event objects with it.
TrayExit ==
  /\ tray.at # "off"
  /\ tray' = NoTray
  /\ UNCHANGED <<main, state, logs, events, ipc, ui, gone>>

\* refresh_tray_tooltip ends; the start goes on, or the message loop.
Tip(profile) == [tray EXCEPT !.tip = profile, !.at = IF tray.booted THEN "up" ELSE "prime"]

\* current_profile_name takes the answer of the pipe if there is one and it names
\* a profile; if not, it reads the state file.
AskForTip ==
  /\ tray.at = "ask"
  /\ LET answers == shared # NoState /\ Profile(shared.scan) # NoProfile
     IN \/ answers /\ tray' = [Tip(Profile(shared.scan)) EXCEPT !.missed = @ \ {"tray"}]
        \/ /\ ~answers \/ "ipc" \in Faults
           /\ tray' = [tray EXCEPT !.at = "file", !.missed = @ \ {"tray"}]
  /\ UNCHANGED <<main, state, logs, events, ipc, ui, gone>>

ReadTip ==
  /\ tray.at = "file"
  /\ tray' = Tip(IF file = NoState THEN NoProfile ELSE Profile(file.scan))
  /\ UNCHANGED <<main, state, logs, events, ipc, ui, gone>>

\* prime_notification_cursor: what is in the log already is not news.
TrayPrime ==
  /\ tray.at = "prime"
  /\ tray' = [tray EXCEPT !.at = "up", !.booted = TRUE, !.cursor = Latest]
  /\ UNCHANGED <<main, state, logs, events, ipc, ui, gone>>

\* A listener thread creates its event object; no one has told it what it missed.
TrayListen ==
  /\ tray.booted
  /\ \E event \in {"log", "tray"} \ tray.listens : tray' = [tray EXCEPT !.listens = @ \cup {event}]
  /\ UNCHANGED <<main, state, logs, events, ipc, ui, gone>>

\* WM_AGENT_STATE_UPDATED, or the context menu.
RefreshTip ==
  /\ tray.at = "up"
  /\ tray' = [tray EXCEPT !.at = "ask", !.mail = @ \ {"tray"}]
  /\ UNCHANGED <<main, state, logs, events, ipc, ui, gone>>

\* show_latest_event_notification: a balloon for the last event, if it is not the
\* one the cursor is at. Whether the user wants balloons is not looked at here.
ShowLatestEvent ==
  /\ tray.at = "up" /\ "log" \in tray.mail
  /\ tray' = LET read == [tray EXCEPT !.mail = @ \ {"log"}, !.missed = @ \ {"log"}]
             IN IF Latest \in {0, tray.cursor}
                THEN read
                ELSE [read EXCEPT !.cursor = Latest]
  /\ UNCHANGED <<main, state, logs, events, ipc, ui, gone>>

(***************************************************************************)
(* The window of the UI                                                    *)
(***************************************************************************)

UiOpen ==
  /\ ~ui.open
  /\ ui' = [NoUi EXCEPT !.open = TRUE]
  /\ UNCHANGED <<main, state, logs, events, ipc, tray, gone>>

UiClose ==
  /\ ui.open
  /\ ui' = NoUi
  /\ UNCHANGED <<main, state, logs, events, ipc, tray, gone>>

\* start_agent_state_listener has created the event, and subscribeToAgentState has
\* registered the window for what the listener emits.
UiListen ==
  /\ ui.open /\ ~ui.listens
  /\ ui' = [ui EXCEPT !.listens = TRUE]
  /\ UNCHANGED <<main, state, logs, events, ipc, tray, gone>>

Ask(u) == [u EXCEPT !.at = "ask", !.missed = FALSE]

\* Mutant of Snapshot: a call that comes during another one is dropped.
SnapshotOnce(u) == IF u.at = "idle" THEN Ask(u) ELSE u

\* refreshAgentSnapshot: one request at a time, and one more if it was called
\* meanwhile.
Snapshot(u) == IF u.at = "idle" THEN Ask(u) ELSE [u EXCEPT !.pending = TRUE]

\* It is called for an emitted event, at the start, by the timer, after a command.
UiRefresh ==
  /\ ui.open
  /\ ui' = Snapshot([ui EXCEPT !.mail = FALSE])
  /\ UNCHANGED <<main, state, logs, events, ipc, tray, gone>>

\* get_agent_state: the answer of the pipe, or the state file without it.
UiAnswer ==
  /\ ui.at = "ask"
  /\ \/ shared # NoState /\ ui' = [ui EXCEPT !.at = "apply", !.answer = shared, !.connected = TRUE]
     \/ /\ shared = NoState \/ "ipc" \in Faults
        /\ ui' = [ui EXCEPT !.at = "apply", !.answer = file, !.connected = FALSE]
  /\ UNCHANGED <<main, state, logs, events, ipc, tray, gone>>

\* applyAgentState, once the answer is there, and what waited meanwhile.
UiApply ==
  /\ ui.at = "apply"
  /\ LET shown == [ui EXCEPT !.at = "idle", !.screen = ui.answer, !.answer = NoState, !.pending = FALSE]
     IN ui' = IF ui.pending THEN Ask(shown) ELSE shown
  /\ UNCHANGED <<main, state, logs, events, ipc, tray, gone>>

(***************************************************************************)
(* Specification                                                           *)
(***************************************************************************)

\* Nothing runs, nothing was ever written.
Init ==
  /\ main = NoMain
  /\ memory = Starting
  /\ shared = NoState
  /\ file = NoState
  /\ log = <<>> /\ rotated = <<>>
  /\ events = 0
  /\ ipc = [clearing |-> FALSE, upto |-> 0]
  /\ tray = NoTray
  /\ ui = NoUi
  /\ gone = 0

Publish == Evaluate \/ WarnOfLease \/ Outcome \/ Warn \/ Report \/ Set \/ WriteFile \/ SignalUi \/ SignalTray

AppendEvent == Size \/ Unrotate \/ Rename \/ Open \/ Write \/ SignalLog

Tray ==
  \/ TrayStart \/ TrayExit \/ AskForTip \/ ReadTip \/ TrayPrime \/ TrayListen
  \/ RefreshTip \/ ShowLatestEvent

Ui == UiOpen \/ UiClose \/ UiListen \/ UiRefresh \/ UiAnswer \/ UiApply

Next == Start \/ End \/ Publish \/ AppendEvent \/ Clear \/ ClearRest \/ Tray \/ Ui

Spec == Init /\ [][Next]_vars

(***************************************************************************)
(* Properties                                                              *)
(***************************************************************************)

Entries == {log[i] : i \in DOMAIN log} \cup {rotated[i] : i \in DOMAIN rotated}

\* What was in the log when the user cleared it does not come back, although the
\* main thread may be rotating and appending between the two removals.
ClearedIsGone == \A e \in Entries : e > gone

\* When the agent is at rest, whoever has handled what it was told shows what there is,
\* however signals merged and whatever the pipe, the files and the log did meanwhile: the last
\* event of the log is the one the tray has seen last, its tooltip names the profile in
\* control, and the window has the scan and the error of the agent's memory.
\* Excepted: a signal that came before its listener, until the next request, and an answer
\* from a state file that could not be brought up to date.
ReadersAreCurrent ==
  main.at = "idle" =>
    /\ tray.at = "up" /\ "log" \notin tray.mail \cup tray.missed =>
         Latest \in {0, tray.cursor}
    /\ tray.at = "up" /\ "tray" \notin tray.mail \cup tray.missed /\ file.scan = memory.scan =>
         tray.tip = Profile(memory.scan)
    /\ ui.at = "idle" /\ ~ui.mail /\ ~ui.missed /\ (ui.connected \/ file = memory) =>
         ui.screen = memory

=============================================================================
