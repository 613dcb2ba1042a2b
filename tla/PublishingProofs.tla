--------------------------- MODULE PublishingProofs ---------------------------
(***************************************************************************)
(* Proofs about Publishing, for any outcomes, errors and profiles, any     *)
(* limit of the log and any number of events, with the tray and the window *)
(* open at the same time, and every access failing or not.                 *)
(***************************************************************************)
EXTENDS Publishing, SequenceTheorems, TLAPS

-----------------------------------------------------------------------------
(* The inductive invariant.                                                *)

\* Where the main thread stands while it appends an event.
Appending == {"size", "unrotate", "rename", "open", "write"}

Logging == Appending \cup {"signalLog"}

\* An event has its number and is not in the log yet.
Pending == main.at \in Appending

\* The numbers of the log lie above what has been cleared, and are used up in order:
\* what a request to clear found is below everything written after it.
ClearInv ==
  /\ gone <= events /\ (Pending => gone < events)
  /\ ipc.clearing =>
       /\ ipc.upto <= events /\ (Pending => ipc.upto < events)
       /\ \A i \in DOMAIN log : log[i] > ipc.upto
  /\ \A e \in Entries : gone < e /\ e <= events
  /\ Pending => \A e \in Entries : e < events

\* The memory is ahead of what is published.
Unset == main.at = "set" \/ (main.at \in Logging /\ main.then = "set")

\* Nothing is being published: what can be read is what the memory says, unless a file
\* could not be written.
Settled == main.at \notin {"off", "file", "signalUi"} /\ ~Unset

\* The main thread carries what its next steps need, and nothing that can be read is
\* older than the memory unless a publication is under way.
MainInv ==
  /\ main.at = "outcome" \/ (main.at \in Logging /\ main.then = "outcome")
       => main.result \in Scans \cup Errors
  /\ main.at = "warn" => main.warning \in Errors
  /\ main.at = "off" => memory = Starting
  /\ ipc.clearing => main.at # "off"
  /\ main.at # "off" => file \in State
  /\ main.at \in {"idle", "warn", "file", "signalUi", "signalTray"} => memory # Starting
  /\ Unset => memory # Starting
  /\ main.at # "off" /\ ~Unset => shared = memory

\* The tray has seen the last event, or is going to be told, or was not listening.
BalloonInv ==
  /\ tray.at = "up" => tray.booted
  /\ tray.at = "off" => ~tray.booted
  /\ tray.booted /\ "log" \notin tray.mail \cup tray.missed /\ main.at # "signalLog" =>
       Latest \in {0, tray.cursor}

\* The same for its tooltip.
TipInv ==
  /\ Settled /\ main.at # "signalTray"
  /\ memory # Starting /\ tray.at \in {"prime", "up"}
  /\ "tray" \notin tray.mail \cup tray.missed /\ file.scan = memory.scan
  => tray.tip = Profile(memory.scan)

\* The same for the window, whose answer may be on its way.
ScreenInv ==
  /\ ui.pending => ui.at # "idle"
  /\ /\ Settled /\ memory # Starting
     /\ ~ui.mail /\ ~ui.missed /\ ~ui.pending
     /\ ui.connected \/ file = memory
     => /\ ui.at = "idle" => ui.screen = memory
        /\ ui.at = "apply" => ui.answer = memory

Inv == TypeOK /\ ClearInv /\ MainInv /\ BalloonInv /\ TipInv /\ ScreenInv

-----------------------------------------------------------------------------
(* Type correctness.                                                       *)

\* The main thread's locals.
Main ==
  [at : {"off", "idle", "first", "size", "unrotate", "rename", "open", "write", "signalLog",
         "outcome", "set", "file", "signalUi", "signalTray", "warn"},
   result : Scans \cup Errors \cup {NoError}, warning : Errors \cup {NoError},
   then : {"outcome", "set"}, lease : BOOLEAN, lost : BOOLEAN]

\* The tray and the window.
TrayProcess ==
  [at : {"off", "ask", "file", "prime", "up"}, booted : BOOLEAN, cursor : EventNumbers,
   tip : Profiles, listens : SUBSET {"log", "tray"}, mail : SUBSET {"log", "tray"},
   missed : SUBSET {"log", "tray"}]

UiProcess ==
  [open : BOOLEAN, listens : BOOLEAN, at : {"idle", "ask", "apply"}, mail : BOOLEAN,
   pending : BOOLEAN, answer : State \cup {NoState}, connected : BOOLEAN,
   screen : State \cup {NoState}, missed : BOOLEAN]

\* Every outcome names a profile or none.
LEMMA ProfileTyped == \A scan : Profile(scan) \in Profiles
BY DEF Profile, Profiles

\* The last entry of a file of the log is the number of an event, or zero.
LEMMA LatestTyped == TypeOK => Latest \in EventNumbers
<1> SUFFICES ASSUME TypeOK PROVE Latest \in EventNumbers
  OBVIOUS
<1>1. CASE log = << >>
  BY <1>1, PublishingAssumption DEF Latest, EventNumbers
<1>2. CASE log # << >>
  <2>1. log \in Seq(EventNumbers) /\ Len(log) \in DOMAIN log
    BY <1>2, LenProperties, EmptySeq DEF TypeOK
  <2>2. QED
    BY <1>2, <2>1 DEF Latest
<1>3. QED
  BY <1>1, <1>2

\* So is the newest of both, and it is one of the entries if it is not zero.
LEMMA NewestTyped ==
  TypeOK => Newest \in EventNumbers /\ (Newest = 0 \/ Newest \in Entries)
<1> SUFFICES ASSUME TypeOK
             PROVE  Newest \in EventNumbers /\ (Newest = 0 \/ Newest \in Entries)
  OBVIOUS
<1>1. ASSUME NEW half \in {log, rotated}, half # << >>
      PROVE  half[Len(half)] \in EventNumbers /\ half[Len(half)] \in Entries
  <2>1. half \in Seq(EventNumbers) /\ Len(half) \in DOMAIN half
    BY <1>1, LenProperties, EmptySeq DEF TypeOK
  <2>2. QED
    BY <2>1 DEF Entries
<1>2. Newest \in {0, log[Len(log)], rotated[Len(rotated)]}
      /\ (log = << >> => Newest # log[Len(log)] \/ Newest = 0 \/ rotated # << >>)
  BY DEF Newest, Latest
<1>3. CASE log = << >> /\ rotated # << >>
  BY <1>1, <1>3 DEF Newest
<1>4. CASE log # << >>
  BY <1>1, <1>4 DEF Newest, Latest
<1>5. CASE log = << >> /\ rotated = << >>
  BY <1>5, PublishingAssumption DEF Newest, Latest, EventNumbers
<1>6. QED
  BY <1>3, <1>4, <1>5

\* An event is given a number that fits.
LEMMA LoggedTyped ==
  ASSUME TypeOK, NEW m \in Main, NEW then \in {"outcome", "set"}, LogEvent(m, then)
  PROVE  main' \in Main /\ events' \in EventNumbers
<1>1. events' \in EventNumbers
  BY PublishingAssumption DEF LogEvent, TypeOK, EventNumbers
<1>2. main' = [m EXCEPT !.at = "size", !.then = then]
  BY DEF LogEvent
<1>3. QED
  BY <1>1, <1>2 DEF Main

\* An iteration that is over leaves the main loop in its type.
LEMMA FinishedTyped ==
  ASSUME NEW m \in Main, Finish(m)
  PROVE  main' \in Main
BY DEF Finish, Main

\* The files of the log hold numbers of events after every step of the main thread.
LEMMA LogsTyped ==
  ASSUME TypeOK
  PROVE  /\ Renamed => log' \in Seq(EventNumbers) /\ rotated' \in Seq(EventNumbers)
         /\ Written => log' \in Seq(EventNumbers)
         /\ \A which : Removed(which) =>
              log' \in Seq(EventNumbers) /\ rotated' \in Seq(EventNumbers)
<1>1. << >> \in Seq(EventNumbers)
  BY EmptySeq
<1>2. Append(log, events) \in Seq(EventNumbers)
  BY AppendProperties DEF TypeOK
<1>3. QED
  BY <1>1, <1>2, ZenonT(60) DEF TypeOK, Renamed, Written, Removed

\* The processes start with every variable in its type.
LEMMA TypeInit == Init => TypeOK
<1> SUFFICES ASSUME Init PROVE TypeOK
  OBVIOUS
<1>1. 0 \in EventNumbers /\ << >> \in Seq(EventNumbers)
  BY EmptySeq, PublishingAssumption DEF EventNumbers
<1>2. Starting \in State
  BY DEF Starting, State
<1>3. QED
  BY <1>1, <1>2 DEF Init, TypeOK, NoMain, NoTray, NoUi, Profiles

\* Every step keeps the types.
LEMMA TypeStep == TypeOK /\ [Next]_vars => TypeOK'
<1> SUFFICES ASSUME TypeOK, [Next]_vars PROVE TypeOK'
  OBVIOUS
<1> USE DEF logs, state
<1>0. main \in Main /\ Starting \in State /\ NoMain \in Main /\ 0 \in EventNumbers
  BY PublishingAssumption DEF TypeOK, Main, Starting, State, NoMain, EventNumbers
<1>1. ASSUME main' \in Main, UNCHANGED <<state, logs, ipc, tray, ui, gone>>,
             events' \in EventNumbers
      PROVE  TypeOK'
  BY <1>1 DEF TypeOK, Main
<1>2. CASE Start
  <2>1. PICK lease \in BOOLEAN : main' = [NoMain EXCEPT !.at = "first", !.lease = lease]
    BY <1>2 DEF Start
  <2>2. main' \in Main
    BY <1>0, <2>1 DEF Main
  <2>3. memory' \in State /\ {shared', file'} \subseteq State \cup {NoState}
    BY <1>0, <1>2 DEF Start
  <2>4. QED
    BY <1>2, <2>2, <2>3 DEF Start, TypeOK, Main
<1>3. CASE End
  <2>1. tray' \in {tray, [tray EXCEPT !.missed = @ \cup {"log"}]}
    BY <1>3 DEF End
  <2>2. QED
    BY <1>0, <1>3, <2>1 DEF End, TypeOK, Main
<1>4. CASE Evaluate
  <2>1. PICK result \in Scans \cup Errors, warning \in Errors \cup {NoError} :
          LET m == [main EXCEPT !.result = result, !.warning = warning]
          IN LogEvent(m, "outcome") \/ (main' = [m EXCEPT !.at = "outcome"] /\ UNCHANGED events)
    BY <1>4 DEF Evaluate
  <2> DEFINE m == [main EXCEPT !.result = result, !.warning = warning]
  <2>2. m \in Main
    BY <1>0 DEF Main
  <2>3. main' \in Main /\ events' \in EventNumbers
    <3>1. CASE LogEvent(m, "outcome")
      BY <2>2, <3>1, LoggedTyped
    <3>2. CASE main' = [m EXCEPT !.at = "outcome"] /\ UNCHANGED events
      BY <2>2, <3>2 DEF Main, TypeOK
    <3>3. QED
      BY <2>1, <3>1, <3>2
  <2>4. QED
    BY <1>1, <1>4, <2>3 DEF Evaluate
<1>5. CASE WarnOfLease
  <2>1. [main EXCEPT !.lease = FALSE] \in Main
    BY <1>0 DEF Main
  <2>2. QED
    BY <1>1, <1>5, <2>1, LoggedTyped DEF WarnOfLease
<1>6. CASE Outcome \/ Warn
  <2>1. memory' \in State /\ UNCHANGED <<shared, file, logs, ipc, tray, ui, gone>>
    <3>1. memory \in State /\ main.result \in Scans \cup Errors \cup {NoError}
          /\ main.warning \in Errors \cup {NoError}
      BY <1>0 DEF TypeOK, Main
    <3>2. memory' \in {Noted(main.result), [memory EXCEPT !.error = main.warning]}
      BY <1>6 DEF Outcome, Warn
    <3>3. Noted(main.result) \in State
      BY <3>1 DEF Noted, State
    <3>4. [memory EXCEPT !.error = main.warning] \in State
      BY <3>1 DEF State
    <3>5. QED
      BY <1>6, <3>2, <3>3, <3>4 DEF Outcome, Warn
  <2>2. PICK m \in {[main EXCEPT !.result = NoError], [main EXCEPT !.warning = NoError]} :
          \/ Finish(m) /\ UNCHANGED events
          \/ main' = [m EXCEPT !.at = "set"] /\ UNCHANGED events
          \/ LogEvent(m, "set")
    BY <1>6 DEF Outcome, Warn
  <2>3. m \in Main
    BY <1>0, <2>2 DEF Main
  <2>4. main' \in Main /\ events' \in EventNumbers
    <3>1. CASE Finish(m) /\ UNCHANGED events
      BY <2>3, <3>1, FinishedTyped DEF TypeOK
    <3>2. CASE main' = [m EXCEPT !.at = "set"] /\ UNCHANGED events
      BY <2>3, <3>2 DEF Main, TypeOK
    <3>3. CASE LogEvent(m, "set")
      BY <2>3, <3>3, LoggedTyped
    <3>4. QED
      BY <2>2, <3>1, <3>2, <3>3
  <2>5. QED
    BY <2>1, <2>4 DEF TypeOK, Main
<1>7. CASE Report
  <2>1. main' \in Main
    BY <1>0, <1>7 DEF Report, Main
  <2>2. QED
    BY <1>1, <1>7, <2>1 DEF Report, TypeOK
<1>8. CASE Set \/ WriteFile
  BY <1>8 DEF Set, WriteFile, Goto, TypeOK
<1>9. CASE SignalUi
  BY <1>9, ZenonT(60) DEF SignalUi, Goto, TypeOK
<1>10. ASSUME NEW event \in {"log", "tray"}, SignalledTray(event), main' \in Main,
              UNCHANGED <<state, logs, events, ipc, ui, gone>>
       PROVE  TypeOK'
  <2>1. tray' \in {tray, [tray EXCEPT !.mail = @ \cup {event}],
                    [tray EXCEPT !.missed = @ \cup {event}]}
    BY <1>10 DEF SignalledTray
  <2>2. tray' \in TrayProcess
    <3>1. tray \in TrayProcess
      BY DEF TypeOK, TrayProcess
    <3>2. [tray EXCEPT !.mail = @ \cup {event}] \in TrayProcess
      BY <3>1 DEF TrayProcess
    <3>3. [tray EXCEPT !.missed = @ \cup {event}] \in TrayProcess
      BY <3>1 DEF TrayProcess
    <3>4. QED
      BY <2>1, <3>1, <3>2, <3>3
  <2>3. QED
    BY <1>10, <2>2 DEF TypeOK, Main, TrayProcess
<1>11. CASE SignalTray
  BY <1>0, <1>10, <1>11, FinishedTyped DEF SignalTray
<1>12. CASE SignalLog
  <2>1. main' \in Main
    BY <1>0, <1>12 DEF SignalLog, Goto, Main
  <2>2. QED
    BY <1>10, <1>12, <2>1 DEF SignalLog
<1>13. ASSUME main' \in Main, log' \in Seq(EventNumbers), rotated' \in Seq(EventNumbers),
              UNCHANGED <<state, events, ipc, tray, ui, gone>>
       PROVE  TypeOK'
  BY <1>13 DEF TypeOK, Main
<1>14. CASE Size \/ Unrotate \/ Rename \/ Open \/ Write
  <2>1. main' \in Main
    BY <1>0, <1>14, ZenonT(60)
       DEF Size, Unrotate, Rename, Renamed, Open, Write, Goto, Dropped, LogFails, Main
  <2>2. log' \in Seq(EventNumbers) /\ rotated' \in Seq(EventNumbers)
    <3>1. log \in Seq(EventNumbers) /\ rotated \in Seq(EventNumbers) /\ << >> \in Seq(EventNumbers)
      BY EmptySeq DEF TypeOK
    <3>2. CASE Size \/ Open
      BY <3>1, <3>2 DEF Size, Open, Dropped, LogFails
    <3>3. CASE Unrotate
      BY <3>1, <3>3 DEF Unrotate
    <3>4. CASE Rename
      BY <3>1, <3>4, LogsTyped DEF Rename, Dropped, LogFails
    <3>5. CASE Write
      BY <3>1, <3>5, LogsTyped DEF Write, Dropped, LogFails
    <3>6. QED
      BY <1>14, <3>2, <3>3, <3>4, <3>5
  <2>3. QED
    BY <1>13, <1>14, <2>1, <2>2 DEF Size, Unrotate, Rename, Open, Write
<1>15. CASE Clear \/ ClearRest
  <2>1. main' \in Main
    BY <1>0, <1>15 DEF Clear, ClearRest, Removed, Main
  <2>2. log' \in Seq(EventNumbers) /\ rotated' \in Seq(EventNumbers)
    BY <1>15, LogsTyped DEF Clear, ClearRest, TypeOK
  <2>3. ipc' \in [clearing : BOOLEAN, upto : EventNumbers] /\ gone' \in EventNumbers
    <3>1. ipc \in [clearing : BOOLEAN, upto : EventNumbers] /\ gone \in EventNumbers
      BY DEF TypeOK
    <3>2. CASE Clear
      BY <3>1, <3>2, NewestTyped DEF Clear
    <3>3. CASE ClearRest
      <4>1. ipc' = [ipc EXCEPT !.clearing = FALSE, !.upto = 0] /\ gone' \in {gone, ipc.upto}
        BY <3>3 DEF ClearRest
      <4>2. QED
        BY <1>0, <3>1, <4>1
    <3>4. QED
      BY <1>15, <3>2, <3>3
  <2>4. QED
    BY <1>15, <2>1, <2>2, <2>3 DEF Clear, ClearRest, TypeOK, Main
<1>16. CASE Tray
  <2>1. UNCHANGED <<main, state, logs, events, ipc, ui, gone>>
    BY <1>16
       DEF Tray, TrayStart, TrayExit, AskForTip, ReadTip, TrayPrime, TrayListen, RefreshTip,
           ShowLatestEvent
  <2>2. tray \in TrayProcess /\ NoTray \in TrayProcess
    BY <1>0 DEF TypeOK, TrayProcess, NoTray, Profiles
  <2>3. tray' \in TrayProcess
    <3>1. CASE TrayStart \/ TrayExit
      BY <2>2, <3>1 DEF TrayStart, TrayExit, TrayProcess
    <3>2. CASE AskForTip \/ ReadTip
      <4>1. PICK profile \in Profiles :
              \/ tray' = [Tip(profile) EXCEPT !.missed = @ \ {"tray"}]
              \/ tray' = [tray EXCEPT !.at = "file", !.missed = @ \ {"tray"}]
              \/ tray' = Tip(profile)
        BY <3>2, ProfileTyped DEF AskForTip, ReadTip, Profiles
      <4>2. Tip(profile) \in TrayProcess
        BY <2>2 DEF Tip, TrayProcess
      <4>3. [Tip(profile) EXCEPT !.missed = @ \ {"tray"}] \in TrayProcess
        BY <4>2 DEF TrayProcess
      <4>4. [tray EXCEPT !.at = "file", !.missed = @ \ {"tray"}] \in TrayProcess
        BY <2>2 DEF TrayProcess
      <4>5. QED
        BY <4>1, <4>2, <4>3, <4>4
    <3>3. CASE TrayPrime
      BY <2>2, <3>3, LatestTyped DEF TrayPrime, TrayProcess
    <3>4. CASE TrayListen
      BY <2>2, <3>4 DEF TrayListen, TrayProcess
    <3>5. CASE RefreshTip
      BY <2>2, <3>5 DEF RefreshTip, TrayProcess
    <3>6. CASE ShowLatestEvent
      BY <2>2, <3>6, LatestTyped DEF ShowLatestEvent, TrayProcess
    <3>7. QED
      BY <1>16, <3>1, <3>2, <3>3, <3>4, <3>5, <3>6 DEF Tray
  <2>4. QED
    BY <2>1, <2>3 DEF TypeOK, TrayProcess
<1>17. CASE Ui
  <2>1. UNCHANGED <<main, state, logs, events, ipc, tray, gone>>
    BY <1>17 DEF Ui, UiOpen, UiClose, UiListen, UiRefresh, UiAnswer, UiApply
  <2>2. ui \in UiProcess /\ NoUi \in UiProcess
    BY DEF TypeOK, UiProcess, NoUi
  <2>3. ui' \in UiProcess
    <3>1. CASE UiOpen \/ UiClose \/ UiListen
      BY <2>2, <3>1 DEF UiOpen, UiClose, UiListen, UiProcess
    <3>2. CASE UiRefresh
      BY <2>2, <3>2, ZenonT(60) DEF UiRefresh, Snapshot, Ask, UiProcess
    <3>3. CASE UiAnswer
      <4>1. shared \in State \cup {NoState} /\ file \in State \cup {NoState}
        BY DEF TypeOK
      <4>2. QED
        BY <2>2, <3>3, <4>1 DEF UiAnswer, UiProcess
    <3>4. CASE UiApply
      BY <2>2, <3>4, ZenonT(60) DEF UiApply, Ask, UiProcess
    <3>5. QED
      BY <1>17, <3>1, <3>2, <3>3, <3>4 DEF Ui
  <2>4. QED
    BY <2>1, <2>3 DEF TypeOK, UiProcess
<1>18. CASE UNCHANGED vars
  BY <1>18 DEF vars, TypeOK
<1>19. QED
  BY <1>2, <1>3, <1>4, <1>5, <1>6, <1>7, <1>8, <1>9, <1>11, <1>12, <1>14, <1>15, <1>16, <1>17, <1>18
     DEF Next, Publish, AppendEvent

-----------------------------------------------------------------------------
(* The log.                                                                *)

\* Appending adds one entry at the end.
LEMMA AppendEntries ==
  ASSUME NEW S, NEW q \in Seq(S), NEW e \in S
  PROVE  \A i \in DOMAIN Append(q, e) : Append(q, e)[i] = e \/ \E j \in DOMAIN q : Append(q, e)[i] = q[j]
<1> SUFFICES ASSUME NEW i \in DOMAIN Append(q, e)
             PROVE  Append(q, e)[i] = e \/ \E j \in DOMAIN q : Append(q, e)[i] = q[j]
  OBVIOUS
<1>1. Len(q) \in Nat /\ DOMAIN q = 1..Len(q) /\ i \in 1..Len(q) + 1
  BY AppendProperties, LenProperties
<1>2. CASE i = Len(q) + 1
  BY <1>2, AppendProperties
<1>3. CASE i \in 1..Len(q)
  BY <1>1, <1>3, AppendProperties
<1>4. QED
  BY <1>1, <1>2, <1>3

\* One step, of whichever thread, keeps what is cleared below what comes after it.
LEMMA ClearStep == TypeOK /\ ClearInv /\ [Next]_vars => ClearInv'
<1> SUFFICES ASSUME TypeOK, ClearInv, [Next]_vars PROVE ClearInv'
  OBVIOUS
<1> USE DEF logs, state
<1>0. /\ events \in Nat /\ gone \in Nat /\ ipc.upto \in Nat /\ MaxEvents \in Nat
      /\ \A e \in Entries : e \in Nat
      /\ log \in Seq(EventNumbers) /\ \A i \in DOMAIN log : log[i] \in Entries
      /\ DOMAIN << >> = {}
  BY PublishingAssumption, EmptySeq DEF TypeOK, EventNumbers, Entries
<1>1. ASSUME UNCHANGED <<events, gone>>, UNCHANGED ipc \/ ~ipc'.clearing,
             Pending' => Pending, Entries' \subseteq Entries,
             \A i \in DOMAIN log' : \E j \in DOMAIN log : log'[i] = log[j]
      PROVE  ClearInv'
  BY <1>0, <1>1 DEF ClearInv
<1>2. ASSUME UNCHANGED <<logs, events, gone>>, UNCHANGED ipc \/ ~ipc'.clearing,
             Pending' => Pending
      PROVE  ClearInv'
  <2>1. Entries' = Entries
    BY <1>2 DEF Entries
  <2>2. QED
    BY <1>1, <1>2, <2>1
<1>3. ASSUME NEW m, NEW then, LogEvent(m, then), UNCHANGED <<logs, ipc, gone>>
      PROVE  ClearInv'
  <2>1. events' = events + 1 /\ Entries' = Entries
    BY <1>3 DEF LogEvent, Entries
  <2>2. QED
    BY <1>0, <1>3, <2>1 DEF ClearInv
<1>4. ASSUME NEW m, Finish(m), UNCHANGED <<logs, events, ipc, gone>>, m \in Main
      PROVE  ClearInv'
  <2>1. main'.at \in {"idle", "warn"}
    BY <1>4 DEF Finish, Main
  <2>2. QED
    BY <1>2, <1>4, <2>1 DEF Pending, Appending
<1>5. main \in Main
  BY DEF TypeOK, Main
<1>6. CASE Start \/ End
  <2>1. main'.at \in {"first", "off"}
    <3>1. NoMain \in Main /\ NoMain.at = "off"
      BY DEF NoMain, Main
    <3>2. QED
      BY <1>6, <3>1 DEF Start, End, Main
  <2>2. UNCHANGED <<logs, events, gone>> /\ (UNCHANGED ipc \/ ~ipc'.clearing)
    <3>1. CASE Start
      BY <3>1 DEF Start
    <3>2. CASE End
      BY <3>2 DEF End
    <3>3. QED
      BY <1>6, <3>1, <3>2
  <2>3. QED
    BY <1>2, <2>1, <2>2 DEF Pending, Appending
<1>7. CASE Evaluate
  <2>1. PICK m \in Main :
          LogEvent(m, "outcome") \/ (main' = [m EXCEPT !.at = "outcome"] /\ UNCHANGED events)
    <3>1. PICK result \in Scans \cup Errors, warning \in Errors \cup {NoError} :
            LET m == [main EXCEPT !.result = result, !.warning = warning]
            IN LogEvent(m, "outcome") \/ (main' = [m EXCEPT !.at = "outcome"] /\ UNCHANGED events)
      BY <1>7 DEF Evaluate
    <3>2. [main EXCEPT !.result = result, !.warning = warning] \in Main
      BY <1>5 DEF Main
    <3>3. QED
      BY <3>1, <3>2
  <2>2. CASE LogEvent(m, "outcome")
    BY <1>3, <1>7, <2>2 DEF Evaluate
  <2>3. CASE main' = [m EXCEPT !.at = "outcome"] /\ UNCHANGED events
    <3>1. main'.at = "outcome"
      BY <2>3 DEF Main
    <3>2. QED
      BY <1>2, <1>7, <2>3, <3>1 DEF Evaluate, Pending, Appending
  <2>4. QED
    BY <2>1, <2>2, <2>3
<1>8. CASE WarnOfLease
  BY <1>3, <1>8 DEF WarnOfLease
<1>9. CASE Outcome \/ Warn
  <2>1. PICK m \in {[main EXCEPT !.result = NoError], [main EXCEPT !.warning = NoError]} :
          \/ Finish(m) /\ UNCHANGED events
          \/ main' = [m EXCEPT !.at = "set"] /\ UNCHANGED events
          \/ LogEvent(m, "set")
    BY <1>9 DEF Outcome, Warn
  <2>2. m \in Main
    BY <1>5, <2>1 DEF Main
  <2>3. UNCHANGED <<logs, ipc, gone>>
    BY <1>9 DEF Outcome, Warn
  <2>4. CASE main' = [m EXCEPT !.at = "set"] /\ UNCHANGED events
    <3>1. main'.at = "set"
      BY <2>2, <2>4 DEF Main
    <3>2. QED
      BY <1>2, <2>3, <2>4, <3>1 DEF Pending, Appending
  <2>5. QED
    BY <1>3, <1>4, <2>1, <2>2, <2>3, <2>4
<1>10. CASE Report \/ Set \/ WriteFile \/ SignalUi \/ SignalLog
  <2>1. UNCHANGED <<logs, events, ipc, gone>>
    BY <1>10 DEF Report, Set, WriteFile, SignalUi, SignalLog
  <2>2. main'.at \in {"warn", "file", "signalUi", "signalTray", "outcome", "set"}
    BY <1>5, <1>10 DEF Report, Set, WriteFile, SignalUi, SignalLog, Goto, Main
  <2>3. QED
    BY <1>2, <2>1, <2>2 DEF Pending, Appending
<1>11. CASE SignalTray
  BY <1>4, <1>5, <1>11 DEF SignalTray
<1>12. CASE Size \/ Open
  <2>1. UNCHANGED <<logs, events, ipc, gone>>
    BY <1>12 DEF Size, Open, LogFails, Dropped
  <2>2. Pending
    BY <1>12 DEF Size, Open, Pending, Appending
  <2>3. QED
    BY <1>2, <2>1, <2>2
<1>13. CASE Unrotate
  <2>1. UNCHANGED <<log, events, ipc, gone>> /\ (rotated' = << >> \/ UNCHANGED rotated)
    BY <1>13 DEF Unrotate
  <2>2. Pending
    BY <1>13 DEF Unrotate, Pending, Appending
  <2>3. Entries' \subseteq Entries
    BY <1>0, <2>1 DEF Entries
  <2>4. QED
    BY <1>1, <2>1, <2>2, <2>3
<1>14. CASE Rename
  <2>1. UNCHANGED <<events, ipc, gone>> /\ (Renamed \/ UNCHANGED logs)
    BY <1>14 DEF Rename, LogFails, Dropped
  <2>2. Pending
    BY <1>14 DEF Rename, Pending, Appending
  <2>3. CASE Renamed
    <3>1. rotated' = log /\ log' = << >>
      BY <2>3 DEF Renamed
    <3>2. Entries' \subseteq Entries
      BY <1>0, <3>1 DEF Entries
    <3>3. QED
      BY <1>0, <1>1, <2>1, <2>2, <3>1, <3>2
  <2>4. QED
    BY <1>2, <2>1, <2>2, <2>3
<1>15. CASE Write
  <2>1. UNCHANGED <<events, ipc, gone, rotated>>
        /\ ((log' = Append(log, events) /\ main'.at = "signalLog") \/ UNCHANGED log)
    BY <1>5, <1>15 DEF Write, Written, LogFails, Dropped, Goto, Main
  <2>2. Pending
    BY <1>15 DEF Write, Pending, Appending
  <2>3. CASE log' = Append(log, events) /\ main'.at = "signalLog"
    <3>1. \A i \in DOMAIN log' : log'[i] = events \/ \E j \in DOMAIN log : log'[i] = log[j]
      <4>1. events \in EventNumbers
        BY DEF TypeOK
      <4>2. QED
        BY <1>0, <2>3, <4>1, AppendEntries
    <3>2. Entries' \subseteq Entries \cup {events}
      BY <2>1, <3>1 DEF Entries
    <3>3. ~Pending'
      BY <2>3 DEF Pending, Appending
    <3>4. QED
      BY <1>0, <2>1, <2>2, <3>1, <3>2, <3>3 DEF ClearInv
  <2>4. QED
    BY <1>2, <2>1, <2>2, <2>3
<1>16. CASE Clear
  <2>1. log' = << >> /\ UNCHANGED <<rotated, events, gone>>
        /\ ipc' = [clearing |-> TRUE, upto |-> Newest]
    BY <1>16 DEF Clear, Removed, FirstCleared
  <2>2. main'.at = main.at
    BY <1>5, <1>16 DEF Clear, Removed, Main
  <2>3. Entries' \subseteq Entries
    BY <1>0, <2>1 DEF Entries
  <2>4. Newest \in Nat /\ Newest <= events /\ (Pending => Newest < events)
    BY <1>0, NewestTyped DEF ClearInv, EventNumbers
  <2>5. QED
    BY <1>0, <2>1, <2>2, <2>3, <2>4 DEF ClearInv, Pending
<1>17. CASE ClearRest
  <2>1. UNCHANGED events /\ ipc' = [ipc EXCEPT !.clearing = FALSE, !.upto = 0] /\ ipc.clearing
    BY <1>17 DEF ClearRest
  <2>2. ~ipc'.clearing
    BY <2>1 DEF TypeOK
  <2>3. CASE Removed("rotated") /\ gone' = ipc.upto
    <3>1. rotated' = << >> /\ UNCHANGED log /\ main'.at = main.at
      BY <1>5, <2>3 DEF Removed, Main
    <3>2. Entries' \subseteq Entries /\ \A e \in Entries' : \E i \in DOMAIN log : e = log[i]
      BY <1>0, <3>1 DEF Entries
    <3>3. QED
      BY <1>0, <2>1, <2>2, <2>3, <3>1, <3>2 DEF ClearInv, Pending
  <2>4. CASE UNCHANGED <<main, logs, gone>>
    BY <1>2, <2>1, <2>2, <2>4 DEF Pending
  <2>5. (CHOOSE which \in {"log", "rotated"} : which # FirstCleared) = "rotated"
    BY DEF FirstCleared
  <2>6. QED
    BY <1>17, <2>3, <2>4, <2>5 DEF ClearRest
<1>18. CASE Tray \/ Ui \/ UNCHANGED vars
  <2>1. UNCHANGED <<main, logs, events, ipc, gone>>
    BY <1>18
       DEF Tray, TrayStart, TrayExit, AskForTip, ReadTip, TrayPrime, TrayListen, RefreshTip,
           ShowLatestEvent, Ui, UiOpen, UiClose, UiListen, UiRefresh, UiAnswer, UiApply, vars
  <2>2. QED
    BY <1>2, <2>1 DEF Pending
<1>19. QED
  BY <1>6, <1>7, <1>8, <1>9, <1>10, <1>11, <1>12, <1>13, <1>14, <1>15, <1>16, <1>17, <1>18
     DEF Next, Publish, AppendEvent

-----------------------------------------------------------------------------
(* The main thread.                                                        *)

\* An event is being logged before its error is published, or before its outcome.
Heading(then) == main.at \in Logging /\ main.then = then

\* Where a call of LogEvent, or the end of a publication, leads.
LEMMA MainCalls ==
  ASSUME NEW m \in Main, NEW then \in {"outcome", "set"}
  PROVE  /\ LogEvent(m, then) => main'.at = "size" /\ main'.then = then /\ main'.result = m.result
         /\ Finish(m) => main'.at = "idle" \/ (main'.at = "warn" /\ main'.warning \in Errors)
<1>1. LogEvent(m, then) => main'.at = "size" /\ main'.then = then /\ main'.result = m.result
  BY DEF LogEvent, Main
<1>2. Finish(m) => main'.at = "idle" \/ (main'.at = "warn" /\ main'.warning \in Errors)
  BY DEF Finish, Main
<1>3. QED
  BY <1>1, <1>2

\* Every result that is new leaves a memory that is not the one of the start.
LEMMA NotedIsNoStart ==
  ASSUME TypeOK
  PROVE  /\ \A result \in Scans \cup Errors : Noted(result) # Starting
         /\ \A error \in Errors : [memory EXCEPT !.error = error] # Starting
<1>1. memory \in State
  BY DEF TypeOK
<1>2. ASSUME NEW result \in Scans \cup Errors PROVE Noted(result) # Starting
  <2>1. CASE result \in Scans
    <3>1. Noted(result).scan = result
      BY <1>1, <2>1 DEF Noted, State
    <3>2. QED
      BY <2>1, <3>1, PublishingAssumption DEF Starting
  <2>2. CASE result \notin Scans
    <3>1. Noted(result).error = result /\ result \in Errors
      BY <1>1, <1>2, <2>2 DEF Noted, State
    <3>2. QED
      BY <3>1, PublishingAssumption DEF Starting
  <2>3. QED
    BY <2>1, <2>2
<1>3. ASSUME NEW error \in Errors PROVE [memory EXCEPT !.error = error] # Starting
  <2>1. [memory EXCEPT !.error = error].error = error
    BY <1>1 DEF State
  <2>2. QED
    BY <2>1, PublishingAssumption DEF Starting
<1>4. QED
  BY <1>2, <1>3

\* An evaluation, a warning or a report begins; an event is on its way to the log, or
\* given up; the log is cleared: what is published does not change.
Quiet ==
  /\ UNCHANGED <<state, tray, ui>>
  /\ main.at # "off" /\ main'.at # "off"
  /\ Unset' <=> Unset
  /\ Settled' => Settled
  /\ Settled' /\ main'.at # "signalTray" => main.at # "signalTray"
  /\ main'.at \in {"idle", "warn", "file", "signalUi", "signalTray"} => memory # Starting

\* A result is new: the memory is ahead of what is published.
Ahead ==
  /\ UNCHANGED <<shared, file, tray, ui>>
  /\ main.at # "off" /\ memory' # Starting
  /\ main'.at = "set" \/ (main'.at = "size" /\ main'.then = "set")

\* What the main thread carries on to its next step.
Carried ==
  /\ main'.at = "outcome" \/ Heading("outcome")' => main'.result \in Scans \cup Errors
  /\ main'.at = "warn" => main'.warning \in Errors

\* What one step of the main thread may do to what is published.
LEMMA MainMoves ==
  ASSUME TypeOK, MainInv,
         \/ Evaluate \/ WarnOfLease \/ Outcome \/ Warn \/ Report
         \/ Size \/ Unrotate \/ Rename \/ Open \/ Write \/ Clear \/ ClearRest
  PROVE  (Quiet \/ Ahead) /\ Carried
<1> USE DEF logs, state
<1>1. main \in Main /\ memory \in State
  BY DEF TypeOK, Main
<1>2. CASE Evaluate
  <2>1. PICK result \in Scans \cup Errors, warning \in Errors \cup {NoError} :
          LET m == [main EXCEPT !.result = result, !.warning = warning]
          IN LogEvent(m, "outcome") \/ (main' = [m EXCEPT !.at = "outcome"] /\ UNCHANGED events)
    BY <1>2 DEF Evaluate
  <2> DEFINE m == [main EXCEPT !.result = result, !.warning = warning]
  <2>2. m \in Main /\ m.result = result
    BY <1>1 DEF Main
  <2>3. main'.result = result
        /\ (main'.at = "outcome" \/ (main'.at = "size" /\ main'.then = "outcome"))
    <3>1. CASE LogEvent(m, "outcome")
      BY <2>2, <3>1, MainCalls
    <3>2. CASE main' = [m EXCEPT !.at = "outcome"]
      BY <2>2, <3>2 DEF Main
    <3>3. QED
      BY <2>1, <3>1, <3>2
  <2>4. main.at \in {"idle", "first"} /\ UNCHANGED <<state, tray, ui>>
    BY <1>2 DEF Evaluate
  <2>5. QED
    BY <2>3, <2>4 DEF Quiet, Carried, Heading, Settled, Unset, Logging, Appending
<1>3. CASE WarnOfLease
  <2>1. main.at = "outcome" /\ UNCHANGED <<state, tray, ui>> /\ main.result \in Scans \cup Errors
    BY <1>3 DEF WarnOfLease, MainInv
  <2>2. [main EXCEPT !.lease = FALSE] \in Main /\ [main EXCEPT !.lease = FALSE].result = main.result
    BY <1>1 DEF Main
  <2>3. main'.at = "size" /\ main'.then = "outcome" /\ main'.result = main.result
    BY <1>3, <2>2, MainCalls DEF WarnOfLease
  <2>4. QED
    BY <2>1, <2>3 DEF Quiet, Carried, Heading, Settled, Unset, Logging, Appending
<1>4. CASE Outcome \/ Warn
  <2>1. main.at \in {"outcome", "warn"} /\ UNCHANGED <<shared, file, tray, ui>>
    BY <1>4 DEF Outcome, Warn
  <2>2. memory' # Starting
    BY <1>4, NotedIsNoStart DEF Outcome, Warn, MainInv
  <2>3. PICK m \in {[main EXCEPT !.result = NoError], [main EXCEPT !.warning = NoError]} :
          \/ memory' = memory /\ Finish(m)
          \/ main' = [m EXCEPT !.at = "set"]
          \/ LogEvent(m, "set")
    BY <1>4 DEF Outcome, Warn
  <2>4. m \in Main
    BY <1>1, <2>3 DEF Main
  <2>5. CASE memory' = memory /\ Finish(m)
    <3>1. main'.at = "idle" \/ (main'.at = "warn" /\ main'.warning \in Errors)
      BY <2>4, <2>5, MainCalls
    <3>2. QED
      BY <2>1, <2>2, <2>5, <3>1 DEF Quiet, Carried, Heading, Settled, Unset, Logging, Appending
  <2>6. CASE main' = [m EXCEPT !.at = "set"] \/ LogEvent(m, "set")
    <3>1. main'.at = "set" \/ (main'.at = "size" /\ main'.then = "set")
      BY <2>4, <2>6, MainCalls DEF Main
    <3>2. QED
      BY <2>1, <2>2, <3>1 DEF Ahead, Carried, Heading, Logging, Appending
  <2>7. QED
    BY <2>3, <2>5, <2>6
<1>5. CASE Report
  <2>1. main.at = "idle" /\ UNCHANGED <<state, tray, ui>> /\ memory # Starting
    BY <1>5 DEF Report, MainInv
  <2>2. main'.at = "signalUi" \/ (main'.at = "warn" /\ main'.warning \in Errors)
    BY <1>1, <1>5 DEF Report, Main
  <2>3. QED
    BY <2>1, <2>2 DEF Quiet, Carried, Heading, Settled, Unset, Logging, Appending
<1>6. CASE Size \/ Unrotate \/ Rename \/ Open \/ Write
  <2>1. main.at \in Appending /\ UNCHANGED <<state, tray, ui>>
    BY <1>6 DEF Size, Unrotate, Rename, Open, Write, Appending
  <2>2. PICK at \in Logging \cup {main.then} :
          main' = [main EXCEPT !.at = at] \/ main' = [main EXCEPT !.at = at, !.lost = FALSE]
    BY <1>6
       DEF Size, Unrotate, Rename, Renamed, Open, Write, Goto, Dropped, LogFails, Logging, Appending
  <2>3. main'.at = at /\ main'.then = main.then /\ main'.result = main.result
        /\ main.then \in {"outcome", "set"}
    BY <1>1, <2>2 DEF Main
  <2>4. QED
    BY <2>1, <2>3 DEF Quiet, Carried, Heading, Settled, Unset, Logging, Appending, MainInv
<1>7. CASE Clear \/ ClearRest
  <2>1. UNCHANGED <<state, tray, ui>> /\ main.at # "off"
    BY <1>7 DEF Clear, ClearRest, MainInv
  <2>2. \/ UNCHANGED main
        \/ \E lost \in BOOLEAN : main' = [main EXCEPT !.lost = lost]
    BY <1>7 DEF Clear, ClearRest, Removed
  <2>3. main'.at = main.at /\ main'.then = main.then /\ main'.result = main.result
        /\ main'.warning = main.warning
    BY <1>1, <2>2 DEF Main
  <2>4. QED
    BY <2>1, <2>3 DEF Quiet, Carried, Heading, Settled, Unset, MainInv
<1>8. QED
  BY <1>2, <1>3, <1>4, <1>5, <1>6, <1>7

\* The steps that publish, one by one.
LEMMA MainStep == TypeOK /\ MainInv /\ [Next]_vars => MainInv'
<1> SUFFICES ASSUME TypeOK, MainInv, [Next]_vars PROVE MainInv'
  OBVIOUS
<1> USE DEF logs, state
<1>1. main \in Main /\ memory \in State /\ NoMain \in Main /\ NoMain.at = "off"
      /\ Starting \in State
  BY DEF TypeOK, Main, NoMain, Starting, State
<1>2. CASE Start
  <2>1. main'.at = "first"
    BY <1>1, <1>2 DEF Start, Main
  <2>2. memory' = Starting /\ shared' = Starting /\ file' = Starting /\ UNCHANGED ipc
        /\ main.at = "off"
    BY <1>2 DEF Start
  <2>3. QED
    BY <1>1, <2>1, <2>2 DEF MainInv, Unset, Logging, Appending
<1>3. CASE End
  <2>1. main'.at = "off" /\ memory' = Starting /\ ipc' = [clearing |-> FALSE, upto |-> 0]
    BY <1>1, <1>3 DEF End
  <2>2. QED
    BY <2>1 DEF MainInv, Unset, Logging, Appending
<1>4. ASSUME \/ Evaluate \/ WarnOfLease \/ Outcome \/ Warn \/ Report
             \/ Size \/ Unrotate \/ Rename \/ Open \/ Write \/ Clear \/ ClearRest
      PROVE  MainInv'
  <2>1. (Quiet \/ Ahead) /\ Carried
    BY <1>4, MainMoves
  <2>2. CASE Quiet
    BY <2>1, <2>2 DEF Quiet, Carried, Heading, MainInv
  <2>3. CASE Ahead
    BY <2>1, <2>3 DEF Ahead, Carried, Heading, MainInv, Unset, Logging, Appending
  <2>4. QED
    BY <2>1, <2>2, <2>3
<1>5. CASE Set
  <2>1. main.at = "set" /\ main'.at = "file" /\ shared' = memory /\ UNCHANGED <<memory, file, ipc>>
    BY <1>1, <1>5 DEF Set, Goto, Main
  <2>2. QED
    BY <2>1 DEF MainInv, Unset, Logging, Appending
<1>6. CASE WriteFile
  <2>1. main.at = "file" /\ main'.at = "signalUi" /\ UNCHANGED <<memory, shared, ipc>>
        /\ file' \in {memory, file}
    BY <1>1, <1>6 DEF WriteFile, Goto, Main
  <2>2. QED
    BY <1>1, <2>1 DEF MainInv, Unset, Logging, Appending
<1>7. CASE SignalUi
  <2>1. main.at = "signalUi" /\ main'.at = "signalTray" /\ UNCHANGED <<state, ipc>>
    BY <1>1, <1>7 DEF SignalUi, Goto, Main
  <2>2. QED
    BY <2>1 DEF MainInv, Unset, Logging, Appending
<1>8. CASE SignalTray
  <2>1. main.at = "signalTray" /\ UNCHANGED <<state, ipc>>
        /\ (main'.at = "idle" \/ (main'.at = "warn" /\ main'.warning \in Errors))
    BY <1>1, <1>8, MainCalls DEF SignalTray
  <2>2. QED
    BY <2>1 DEF MainInv, Unset, Logging, Appending
<1>9. CASE SignalLog
  <2>1. main.at = "signalLog" /\ main'.at = main.then /\ main'.result = main.result
        /\ main.then \in {"outcome", "set"} /\ UNCHANGED <<state, ipc>>
    BY <1>1, <1>9 DEF SignalLog, Goto, Main
  <2>2. QED
    BY <2>1 DEF MainInv, Unset, Logging, Appending
<1>10. CASE Tray \/ Ui \/ UNCHANGED vars
  <2>1. UNCHANGED <<main, state, ipc>>
    BY <1>10
       DEF Tray, TrayStart, TrayExit, AskForTip, ReadTip, TrayPrime, TrayListen, RefreshTip,
           ShowLatestEvent, Ui, UiOpen, UiClose, UiListen, UiRefresh, UiAnswer, UiApply, vars
  <2>2. QED
    BY <2>1 DEF MainInv, Unset
<1>11. QED
  BY <1>2, <1>3, <1>4, <1>5, <1>6, <1>7, <1>8, <1>9, <1>10 DEF Next, Publish, AppendEvent

-----------------------------------------------------------------------------
(* The readers.                                                            *)

\* A signal reaches a tray that listens, or is one that it missed.
LEMMA Signalled ==
  ASSUME TypeOK, NEW event \in {"log", "tray"}, SignalledTray(event)
  PROVE  /\ tray'.at = tray.at /\ tray'.booted = tray.booted /\ tray'.tip = tray.tip
         /\ tray'.cursor = tray.cursor
         /\ tray.at = "off" \/ event \in tray'.mail \cup tray'.missed
         /\ tray.mail \cup tray.missed \subseteq tray'.mail \cup tray'.missed
<1>1. tray \in TrayProcess
  BY DEF TypeOK, TrayProcess
<1>2. CASE event \in tray.listens
  BY <1>1, <1>2 DEF SignalledTray, TrayProcess
<1>3. CASE event \notin tray.listens
  BY <1>1, <1>3 DEF SignalledTray, TrayProcess
<1>4. QED
  BY <1>2, <1>3

\* The log is in step with the balloons.
LEMMA BalloonStep == TypeOK /\ BalloonInv /\ [Next]_vars => BalloonInv'
<1> SUFFICES ASSUME TypeOK, BalloonInv, [Next]_vars PROVE BalloonInv'
  OBVIOUS
<1> USE DEF logs, state
<1>0. main \in Main /\ tray \in TrayProcess
  BY DEF TypeOK, Main, TrayProcess
<1>1. ASSUME UNCHANGED tray, UNCHANGED log \/ log' = << >>,
             main.at = "signalLog" => main'.at = "signalLog"
      PROVE  BalloonInv'
  <2>1. Latest' \in {Latest, 0}
    BY <1>1 DEF Latest
  <2>2. QED
    BY <1>1, <2>1 DEF BalloonInv
<1>2. CASE \/ Start \/ Evaluate \/ WarnOfLease \/ Outcome \/ Warn \/ Report
           \/ Set \/ WriteFile \/ SignalUi \/ Size \/ Unrotate \/ Rename \/ Open
  <2>1. main.at # "signalLog" /\ UNCHANGED tray
    BY <1>2
       DEF Start, Evaluate, WarnOfLease, Outcome, Warn, Report, Set, WriteFile, SignalUi, Size,
           Unrotate, Rename, Open
  <2>2. UNCHANGED log \/ log' = << >>
    BY <1>2
       DEF Start, Evaluate, WarnOfLease, Outcome, Warn, Report, Set, WriteFile, SignalUi, Size,
           Unrotate, Rename, Renamed, Open, LogFails, Dropped
  <2>3. QED
    BY <1>1, <2>1, <2>2
<1>3. CASE End
  <2>1. UNCHANGED log
    BY <1>3 DEF End
  <2>2. CASE main.at = "signalLog" /\ tray.at # "off"
    <3>1. tray' = [tray EXCEPT !.missed = @ \cup {"log"}]
      BY <1>3, <2>2 DEF End
    <3>2. QED
      BY <1>0, <3>1 DEF BalloonInv, TrayProcess
  <2>3. CASE ~(main.at = "signalLog" /\ tray.at # "off")
    <3>1. UNCHANGED tray
      BY <1>3, <2>3 DEF End
    <3>2. QED
      BY <2>1, <2>3, <3>1 DEF BalloonInv, Latest
  <2>4. QED
    BY <2>2, <2>3
<1>4. CASE Write
  <2>1. main.at = "write" /\ UNCHANGED tray
        /\ (main' = [main EXCEPT !.at = "signalLog"] \/ UNCHANGED log)
    BY <1>4 DEF Write, LogFails, Dropped, Goto
  <2>2. CASE main' = [main EXCEPT !.at = "signalLog"]
    <3>1. main'.at = "signalLog"
      BY <1>0, <2>2 DEF Main
    <3>2. QED
      BY <2>1, <3>1 DEF BalloonInv
  <2>3. QED
    BY <1>1, <2>1, <2>2
<1>5. CASE SignalLog
  <2>1. UNCHANGED log
    BY <1>5 DEF SignalLog
  <2>2. QED
    BY <1>5, <2>1, Signalled DEF SignalLog, BalloonInv
<1>6. CASE SignalTray
  <2>1. UNCHANGED log /\ main.at = "signalTray"
    BY <1>6 DEF SignalTray
  <2>2. QED
    BY <1>6, <2>1, Signalled DEF SignalTray, BalloonInv, Latest
<1>7. CASE Clear \/ ClearRest
  <2>1. UNCHANGED tray /\ (UNCHANGED log \/ log' = << >>)
    BY <1>7 DEF Clear, ClearRest, Removed
  <2>2. main'.at = main.at
    BY <1>0, <1>7 DEF Clear, ClearRest, Removed, Main
  <2>3. QED
    BY <1>1, <2>1, <2>2
<1>8. CASE Tray
  <2>1. UNCHANGED <<main, log>> /\ Latest' = Latest
    BY <1>8
       DEF Tray, TrayStart, TrayExit, AskForTip, ReadTip, TrayPrime, TrayListen, RefreshTip,
           ShowLatestEvent, Latest
  <2>2. CASE TrayStart \/ TrayExit
    <3>1. tray' \in {NoTray, [NoTray EXCEPT !.at = "ask"]}
      BY <2>2 DEF TrayStart, TrayExit
    <3>2. ~tray'.booted /\ tray'.at # "up"
      BY <3>1 DEF NoTray
    <3>3. QED
      BY <3>2 DEF BalloonInv
  <2>3. CASE AskForTip \/ ReadTip \/ TrayListen \/ RefreshTip
    <3>1. /\ tray'.booted = tray.booted /\ tray'.cursor = tray.cursor
          /\ "log" \in tray.mail \cup tray.missed => "log" \in tray'.mail \cup tray'.missed
          /\ tray'.at = "up" => tray.booted
          /\ tray'.at = "off" => tray.at = "off"
      <4>1. CASE AskForTip
        BY <1>0, <4>1, ZenonT(60) DEF AskForTip, Tip, TrayProcess
      <4>2. CASE ReadTip
        BY <1>0, <4>2 DEF ReadTip, Tip, TrayProcess
      <4>3. CASE TrayListen
        BY <1>0, <4>3 DEF TrayListen, TrayProcess, BalloonInv
      <4>4. CASE RefreshTip
        BY <1>0, <4>4 DEF RefreshTip, TrayProcess
      <4>5. QED
        BY <2>3, <4>1, <4>2, <4>3, <4>4
    <3>2. QED
      BY <2>1, <3>1 DEF BalloonInv
  <2>4. CASE TrayPrime
    <3>1. tray'.at = "up" /\ tray'.booted /\ tray'.cursor = Latest
      BY <1>0, <2>4 DEF TrayPrime, TrayProcess
    <3>2. QED
      BY <2>1, <3>1 DEF BalloonInv
  <2>5. CASE ShowLatestEvent
    <3>1. tray'.at = "up" /\ tray'.booted = tray.booted /\ tray.at = "up"
          /\ (Latest = 0 \/ tray'.cursor = Latest)
      BY <1>0, <2>5 DEF ShowLatestEvent, TrayProcess
    <3>2. QED
      BY <2>1, <3>1 DEF BalloonInv
  <2>6. QED
    BY <1>8, <2>2, <2>3, <2>4, <2>5 DEF Tray
<1>9. CASE Ui \/ UNCHANGED vars
  <2>1. UNCHANGED <<main, log, tray>>
    BY <1>9 DEF Ui, UiOpen, UiClose, UiListen, UiRefresh, UiAnswer, UiApply, vars
  <2>2. QED
    BY <1>1, <2>1
<1>10. QED
  BY <1>2, <1>3, <1>4, <1>5, <1>6, <1>7, <1>8, <1>9 DEF Next, Publish, AppendEvent

\* The tooltip names the profile in control.
LEMMA TipStep == TypeOK /\ MainInv /\ TipInv /\ [Next]_vars => TipInv'
<1> SUFFICES ASSUME TypeOK, MainInv, TipInv, [Next]_vars PROVE TipInv'
  OBVIOUS
<1> USE DEF logs, state
<1>0. main \in Main /\ tray \in TrayProcess /\ NoMain.at = "off" /\ NoMain \in Main
  BY DEF TypeOK, Main, TrayProcess, NoMain
<1>1. CASE Start \/ End
  <2>1. memory' = Starting
    BY <1>1 DEF Start, End
  <2>2. QED
    BY <2>1 DEF TipInv
<1>2. ASSUME \/ Evaluate \/ WarnOfLease \/ Outcome \/ Warn \/ Report
             \/ Size \/ Unrotate \/ Rename \/ Open \/ Write \/ Clear \/ ClearRest
      PROVE  TipInv'
  <2>1. CASE Quiet
    BY <2>1 DEF Quiet, TipInv, Profile
  <2>2. CASE Ahead
    BY <2>2 DEF Ahead, TipInv, Settled, Unset, Logging, Appending
  <2>3. QED
    BY <1>2, <2>1, <2>2, MainMoves
<1>3. CASE Set \/ WriteFile \/ SignalUi
  <2>1. main'.at \in {"file", "signalUi", "signalTray"}
    BY <1>0, <1>3 DEF Set, WriteFile, SignalUi, Goto, Main
  <2>2. QED
    BY <2>1 DEF TipInv, Settled
<1>4. CASE SignalTray
  BY <1>4, Signalled DEF SignalTray, TipInv
<1>5. CASE SignalLog
  <2>1. main.at = "signalLog" /\ main'.at = main.then /\ main'.then = main.then
        /\ main.then \in {"outcome", "set"} /\ UNCHANGED state
    BY <1>0, <1>5 DEF SignalLog, Goto, Main
  <2>2. tray'.at = tray.at /\ tray'.tip = tray.tip
        /\ tray.mail \cup tray.missed \subseteq tray'.mail \cup tray'.missed
    BY <1>5, Signalled DEF SignalLog
  <2>3. QED
    BY <2>1, <2>2 DEF TipInv, Settled, Unset, Logging, Appending, Profile
<1>6. CASE Tray
  <2>1. UNCHANGED <<main, state>>
    BY <1>6
       DEF Tray, TrayStart, TrayExit, AskForTip, ReadTip, TrayPrime, TrayListen, RefreshTip,
           ShowLatestEvent
  <2>2. \A scan : Profile(scan)' = Profile(scan)
    BY DEF Profile
  <2>3. CASE TrayStart \/ TrayExit \/ RefreshTip
    <3>1. tray' \in {NoTray, [NoTray EXCEPT !.at = "ask"],
                     [tray EXCEPT !.at = "ask", !.mail = @ \ {"tray"}]}
      BY <2>3 DEF TrayStart, TrayExit, RefreshTip
    <3>2. NoTray.at = "off" /\ [NoTray EXCEPT !.at = "ask"].at = "ask"
      BY DEF NoTray
    <3>3. [tray EXCEPT !.at = "ask", !.mail = @ \ {"tray"}].at = "ask"
      BY <1>0 DEF TrayProcess
    <3>4. QED
      BY <3>1, <3>2, <3>3 DEF TipInv
  <2>4. CASE AskForTip
    <3>1. tray'.at = "file" \/ tray'.tip = Profile(shared.scan)
      BY <1>0, <2>4 DEF AskForTip, Tip, TrayProcess
    <3>2. Settled => shared = memory
      BY DEF Settled, MainInv
    <3>3. QED
      BY <2>1, <3>1, <3>2 DEF TipInv, Settled, Unset, Profile
  <2>5. CASE ReadTip
    <3>1. tray' = Tip(IF file = NoState THEN NoProfile ELSE Profile(file.scan))
      BY <2>5 DEF ReadTip
    <3>2. tray'.tip = IF file = NoState THEN NoProfile ELSE Profile(file.scan)
      BY <1>0, <3>1 DEF Tip, TrayProcess
    <3>3. Settled => file # NoState
      BY PublishingAssumption DEF Settled, MainInv
    <3>4. QED
      BY <2>1, <3>2, <3>3 DEF TipInv, Settled, Unset, Profile
  <2>6. CASE TrayPrime \/ TrayListen \/ ShowLatestEvent
    <3>1. tray'.tip = tray.tip /\ ((tray'.at = "up" /\ tray.at \in {"up", "prime"}) \/ tray'.at = tray.at)
          /\ ("tray" \in tray.mail \cup tray.missed => "tray" \in tray'.mail \cup tray'.missed)
      <4>1. CASE TrayPrime
        BY <1>0, <4>1 DEF TrayPrime, TrayProcess
      <4>2. CASE TrayListen
        BY <1>0, <4>2 DEF TrayListen, TrayProcess
      <4>3. CASE ShowLatestEvent
        BY <1>0, <4>3 DEF ShowLatestEvent, TrayProcess
      <4>4. QED
        BY <2>6, <4>1, <4>2, <4>3
    <3>2. QED
      BY <2>1, <3>1 DEF TipInv, Settled, Unset, Profile
  <2>7. QED
    BY <1>6, <2>3, <2>4, <2>5, <2>6 DEF Tray
<1>7. CASE Ui \/ UNCHANGED vars
  <2>1. UNCHANGED <<main, state, tray>>
    BY <1>7 DEF Ui, UiOpen, UiClose, UiListen, UiRefresh, UiAnswer, UiApply, vars
  <2>2. QED
    BY <2>1 DEF TipInv, Settled, Unset, Profile
<1>8. QED
  BY <1>1, <1>2, <1>3, <1>4, <1>5, <1>6, <1>7 DEF Next, Publish, AppendEvent

\* The window shows the memory, or has the answer that it is going to show.
LEMMA ScreenStep == TypeOK /\ MainInv /\ ScreenInv /\ [Next]_vars => ScreenInv'
<1> SUFFICES ASSUME TypeOK, MainInv, ScreenInv, [Next]_vars PROVE ScreenInv'
  OBVIOUS
<1> USE DEF logs, state
<1>0. main \in Main /\ ui \in UiProcess
  BY DEF TypeOK, Main, UiProcess
<1>1. CASE Start \/ End
  <2>1. memory' = Starting /\ UNCHANGED ui
    BY <1>1 DEF Start, End
  <2>2. QED
    BY <2>1 DEF ScreenInv
<1>2. ASSUME \/ Evaluate \/ WarnOfLease \/ Outcome \/ Warn \/ Report
             \/ Size \/ Unrotate \/ Rename \/ Open \/ Write \/ Clear \/ ClearRest
      PROVE  ScreenInv'
  <2>1. CASE Quiet
    BY <2>1 DEF Quiet, ScreenInv
  <2>2. CASE Ahead
    BY <2>2 DEF Ahead, ScreenInv, Settled, Unset, Logging, Appending
  <2>3. QED
    BY <1>2, <2>1, <2>2, MainMoves
<1>3. CASE Set \/ WriteFile
  <2>1. main'.at \in {"file", "signalUi"} /\ UNCHANGED ui
    BY <1>0, <1>3 DEF Set, WriteFile, Goto, Main
  <2>2. QED
    BY <2>1 DEF ScreenInv, Settled
<1>4. CASE SignalUi
  <2>1. ui' \in {[ui EXCEPT !.mail = TRUE], [ui EXCEPT !.missed = TRUE]}
    BY <1>4 DEF SignalUi
  <2>2. (ui'.mail \/ ui'.missed) /\ ui'.pending = ui.pending /\ ui'.at = ui.at
    BY <1>0, <2>1 DEF UiProcess
  <2>3. QED
    BY <2>2 DEF ScreenInv
<1>5. CASE SignalTray \/ SignalLog
  <2>1. UNCHANGED <<state, ui>>
    BY <1>5 DEF SignalTray, SignalLog
  <2>2. Settled' => Settled
    <3>1. CASE SignalTray
      BY <3>1 DEF SignalTray, Settled, Unset, Logging, Appending
    <3>2. CASE SignalLog
      <4>1. main.at = "signalLog" /\ main'.at = main.then /\ main'.then = main.then
            /\ main.then \in {"outcome", "set"}
        BY <1>0, <3>2 DEF SignalLog, Goto, Main
      <4>2. QED
        BY <4>1 DEF Settled, Unset, Logging, Appending
    <3>3. QED
      BY <1>5, <3>1, <3>2
  <2>3. QED
    BY <2>1, <2>2 DEF ScreenInv
<1>6. CASE Ui
  <2>1. UNCHANGED <<main, state>> /\ Settled' = Settled
    BY <1>6 DEF Ui, UiOpen, UiClose, UiListen, UiRefresh, UiAnswer, UiApply, Settled, Unset
  <2>2. CASE UiOpen \/ UiClose
    <3>1. ui' \in {NoUi, [NoUi EXCEPT !.open = TRUE]}
      BY <2>2 DEF UiOpen, UiClose
    <3>2. ui'.missed /\ ~ui'.pending
      BY <3>1 DEF NoUi
    <3>3. QED
      BY <3>2 DEF ScreenInv
  <2>3. CASE UiListen
    <3>1. ui' = [ui EXCEPT !.listens = TRUE]
      BY <2>3 DEF UiListen
    <3>2. /\ ui'.at = ui.at /\ ui'.mail = ui.mail /\ ui'.pending = ui.pending
          /\ ui'.answer = ui.answer /\ ui'.connected = ui.connected
          /\ ui'.screen = ui.screen /\ ui'.missed = ui.missed
      BY <1>0, <3>1 DEF UiProcess
    <3>3. QED
      BY <2>1, <3>2 DEF ScreenInv
  <2>4. CASE UiRefresh
    <3>1. ui'.at = "ask" \/ (ui'.at = ui.at /\ ui.at # "idle" /\ ui'.pending)
      BY <1>0, <2>4 DEF UiRefresh, Snapshot, Ask, UiProcess
    <3>2. QED
      BY <3>1 DEF ScreenInv
  <2>5. CASE UiAnswer
    <3>1. /\ ui'.at = "apply"
          /\ \/ ui'.answer = shared
             \/ ui'.answer = file /\ ~ui'.connected
      BY <1>0, <2>5 DEF UiAnswer, UiProcess
    <3>2. Settled => shared = memory
      BY DEF Settled, MainInv
    <3>3. QED
      BY <2>1, <3>1, <3>2 DEF ScreenInv
  <2>6. CASE UiApply
    <3>1. ui.at = "apply"
      BY <2>6 DEF UiApply
    <3>2. CASE ui.pending
      <4>1. ui'.at = "ask"
        BY <1>0, <2>6, <3>2 DEF UiApply, Ask, UiProcess
      <4>2. QED
        BY <4>1 DEF ScreenInv
    <3>3. CASE ~ui.pending
      <4>1. ui' = [ui EXCEPT !.at = "idle", !.screen = ui.answer, !.answer = NoState,
                             !.pending = FALSE]
        BY <2>6, <3>3 DEF UiApply
      <4>2. /\ ui'.at = "idle" /\ ui'.screen = ui.answer /\ ~ui'.pending
            /\ ui'.mail = ui.mail /\ ui'.missed = ui.missed /\ ui'.connected = ui.connected
        BY <1>0, <4>1 DEF UiProcess
      <4>3. QED
        BY <2>1, <3>1, <3>3, <4>2 DEF ScreenInv
    <3>4. QED
      BY <3>2, <3>3
  <2>7. QED
    BY <1>6, <2>2, <2>3, <2>4, <2>5, <2>6 DEF Ui
<1>7. CASE Tray \/ UNCHANGED vars
  <2>1. UNCHANGED <<main, state, ui>>
    BY <1>7
       DEF Tray, TrayStart, TrayExit, AskForTip, ReadTip, TrayPrime, TrayListen, RefreshTip,
           ShowLatestEvent, vars
  <2>2. QED
    BY <2>1 DEF ScreenInv, Settled, Unset
<1>8. QED
  BY <1>1, <1>2, <1>3, <1>4, <1>5, <1>6, <1>7 DEF Next, Publish, AppendEvent

-----------------------------------------------------------------------------
(* The theorems.                                                           *)

\* Nothing has been published, and nobody listens, when the processes start.
LEMMA SafeInit == Init => ClearInv /\ MainInv /\ BalloonInv /\ TipInv /\ ScreenInv
<1> SUFFICES ASSUME Init PROVE ClearInv /\ MainInv /\ BalloonInv /\ TipInv /\ ScreenInv
  OBVIOUS
<1>1. main.at = "off" /\ memory = Starting /\ ~ipc.clearing /\ gone = 0 /\ events = 0
  BY DEF Init, NoMain
<1>2. Entries = {}
  BY DEF Init, Entries
<1>3. tray.at = "off" /\ ~tray.booted /\ ~ui.pending
  BY DEF Init, NoTray, NoUi
<1>4. ClearInv
  BY <1>1, <1>2 DEF ClearInv, Pending, Appending
<1>5. MainInv
  BY <1>1 DEF MainInv, Unset, Logging, Appending
<1>6. BalloonInv /\ TipInv /\ ScreenInv
  BY <1>1, <1>3 DEF BalloonInv, TipInv, ScreenInv
<1>7. QED
  BY <1>4, <1>5, <1>6

\* The inductive invariant holds.
LEMMA Inductive == Spec => []Inv
<1>1. Init => Inv
  BY TypeInit, SafeInit DEF Inv
<1>2. Inv /\ [Next]_vars => Inv'
  BY TypeStep, ClearStep, MainStep, BalloonStep, TipStep, ScreenStep DEF Inv
<1>3. QED
  BY <1>1, <1>2, PTL DEF Spec

\* Every variable stays in its type, in all four processes.
THEOREM TypeCorrect == Spec => []TypeOK
<1>1. Inv => TypeOK
  BY DEF Inv
<1>2. QED
  BY <1>1, Inductive, PTL

\* What was in the log when the user cleared it never comes back, wherever the main
\* thread stands in its rotation or its write, and whichever removal fails.
THEOREM ClearedEventsStayGone == Spec => []ClearedIsGone
<1>1. Inv => ClearedIsGone
  <2> SUFFICES ASSUME Inv, NEW e \in Entries PROVE e > gone
    BY DEF ClearedIsGone
  <2>1. gone < e
    BY DEF Inv, ClearInv
  <2>2. e \in EventNumbers /\ gone \in EventNumbers
    BY DEF Inv, TypeOK, Entries
  <2>3. QED
    BY <2>1, <2>2, PublishingAssumption DEF EventNumbers
<1>2. QED
  BY <1>1, Inductive, PTL

\* Whoever has handled what it was told shows what there is, once the agent is at rest:
\* the tray the last event and the profile in control, the window the last scan and error.
THEOREM ReadersCatchUp == Spec => []ReadersAreCurrent
<1>1. Inv => ReadersAreCurrent
  <2> SUFFICES ASSUME Inv, main.at = "idle" PROVE
        /\ tray.at = "up" /\ "log" \notin tray.mail \cup tray.missed =>
             Latest \in {0, tray.cursor}
        /\ tray.at = "up" /\ "tray" \notin tray.mail \cup tray.missed /\ file.scan = memory.scan =>
             tray.tip = Profile(memory.scan)
        /\ ui.at = "idle" /\ ~ui.mail /\ ~ui.missed /\ (ui.connected \/ file = memory) =>
             ui.screen = memory
    BY DEF ReadersAreCurrent
  <2>1. Settled /\ memory # Starting
    BY DEF Inv, MainInv, Settled, Unset, Logging, Appending
  <2>2. tray.at = "up" /\ "log" \notin tray.mail \cup tray.missed => Latest \in {0, tray.cursor}
    BY DEF Inv, BalloonInv
  <2>3. tray.at = "up" /\ "tray" \notin tray.mail \cup tray.missed /\ file.scan = memory.scan =>
          tray.tip = Profile(memory.scan)
    BY <2>1 DEF Inv, TipInv
  <2>4. ui.at = "idle" /\ ~ui.mail /\ ~ui.missed /\ (ui.connected \/ file = memory) =>
          ui.screen = memory
    BY <2>1 DEF Inv, ScreenInv
  <2>5. QED
    BY <2>2, <2>3, <2>4
<1>2. QED
  BY <1>1, Inductive, PTL

=============================================================================
