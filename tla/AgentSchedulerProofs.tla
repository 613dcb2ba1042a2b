------------------------- MODULE AgentSchedulerProofs -------------------------
(***************************************************************************)
(* Proofs about AgentScheduler, for every set of subscriptions, every      *)
(* interval, delay and cooldown, and every failure.                        *)
(***************************************************************************)
EXTENDS AgentScheduler, SequenceTheorems, TLAPS

-----------------------------------------------------------------------------
(* The inductive invariant. What the agent promises when it blocks depends *)
(* on what each place of the pass has settled before.                      *)

\* A forced scan is due at the top of the pass and stays due until the snapshot.
ForcedInv ==
  /\ pc = "inspect" /\ forced => "scan" \in overdue
  /\ pc \in {"wait", "blocked"} => ~forced

\* A scan is planned only while WMI is degraded, but for the reports of a change that
\* the top of the next pass takes into account.
ScanInv == pc \in {"inspect", "wait", "blocked"} /\ scan # NoDeadline => degraded # {}

\* The receive returns before anything that has a deadline.
TimeoutInv ==
  pc = "blocked" =>
    \A d \in {scan, restore, InspectionLeft} \ {NoDeadline} :
      timeout # NoDeadline /\ timeout <= d

\* A message was handled late only if the pass under way settles what was due.
LateInv ==
  /\ NoStarvation
  /\ pc \in {"wait", "blocked"} => \A d \in DOMAIN late : late[d] = 0
  /\ pc = "top" /\ late["scan"] > 0 => forced \/ (scan = 0 /\ degraded # {})
  /\ pc = "inspect" => \A d \in DOMAIN late : late[d] > 0 => d \in overdue
  /\ pc \in {"top", "inspect"} /\ late["restore"] > 0 => restore = 0

SafeInv == ForcedInv /\ ScanInv /\ TimeoutInv /\ LateInv

-----------------------------------------------------------------------------
(* The operators the actions are built from.                               *)

\* Every interval and bound is a natural number.
LEMMA BoundsAreNat ==
  /\ ScanInterval \in Nat /\ Cooldown \in Nat /\ RetryDelay \in Nat /\ MaxDelay \in Nat
  /\ InitialBackoff \in Nat /\ MaxBackoff \in Nat /\ StableRun \in Nat
  /\ MaxQueued \in Nat /\ Longest \in Nat
  /\ 0 < ScanInterval /\ 0 < InitialBackoff /\ InitialBackoff <= MaxBackoff
  /\ ScanInterval <= Longest /\ MaxDelay <= Longest /\ RetryDelay <= Longest
BY SchedulerAssumption DEF Longest

\* Time brings a deadline closer and never takes it below zero.
LEMMA PassedDeadline ==
  ASSUME NEW n \in Nat, NEW d \in Deadline(n)
  PROVE  /\ Passed(d) \in Deadline(n)
         /\ Passed(d) = NoDeadline <=> d = NoDeadline
         /\ d = 0 => Passed(d) = 0
         /\ \A t \in Nat : d # NoDeadline /\ t <= d => Passed(t) <= Passed(d)
BY SchedulerAssumption DEF Passed, Deadline

\* The earlier of two deadlines is one of them, and no later than either.
LEMMA EarlierDeadline ==
  ASSUME NEW a \in Nat \cup {NoDeadline}, NEW b \in Nat \cup {NoDeadline}
  PROVE  /\ Earlier(a, b) \in {a, b}
         /\ \A d \in {a, b} \ {NoDeadline} : Earlier(a, b) # NoDeadline /\ Earlier(a, b) <= d
BY SchedulerAssumption DEF Earlier

\* Counting up to a bound stays within it.
LEMMA UpToBound ==
  ASSUME NEW bound \in Nat, NEW n \in 0..bound
  PROVE  UpTo(bound, n) \in 0..bound
BY DEF UpTo

\* What is left until the inspection is a deadline like the others.
LEMMA InspectionDeadline == TypeOK => InspectionLeft \in Deadline(RetryDelay)
BY DEF TypeOK, InspectionLeft, Inspection, Deadline

\* The agent waits no longer than until any of its deadlines, and not at all with a
\* forced scan.
LEMMA WaitIsShort ==
  ASSUME TypeOK
  PROVE  /\ NextWait \in Deadline(Longest)
         /\ \A d \in {scan, restore, InspectionLeft} \ {NoDeadline} :
              NextWait # NoDeadline /\ NextWait <= d
<1> DEFINE f == IF forced THEN 0 ELSE NoDeadline
           a == Earlier(restore, f)
           b == Earlier(scan, InspectionLeft)
<1>1. /\ restore \in Nat \cup {NoDeadline} /\ f \in Nat \cup {NoDeadline}
      /\ scan \in Nat \cup {NoDeadline} /\ InspectionLeft \in Nat \cup {NoDeadline}
  BY BoundsAreNat, InspectionDeadline DEF TypeOK, Deadline
<1>2. /\ a \in {restore, f} /\ b \in {scan, InspectionLeft}
      /\ \A d \in {restore, f} \ {NoDeadline} : a # NoDeadline /\ a <= d
      /\ \A d \in {scan, InspectionLeft} \ {NoDeadline} : b # NoDeadline /\ b <= d
  BY <1>1, EarlierDeadline
<1>3. NextWait = Earlier(a, b)
  BY DEF NextWait
<1>4. {restore, f, scan, InspectionLeft} \subseteq Deadline(Longest)
  BY BoundsAreNat, InspectionDeadline DEF TypeOK, Deadline
<1> HIDE DEF f, a, b
<1>5. a \in Nat \cup {NoDeadline} /\ b \in Nat \cup {NoDeadline}
  BY <1>1, <1>2
<1>6. /\ NextWait \in {a, b}
      /\ \A d \in {a, b} \ {NoDeadline} : NextWait # NoDeadline /\ NextWait <= d
  BY <1>3, <1>5, EarlierDeadline
<1>7. NextWait \in Deadline(Longest)
  BY <1>2, <1>4, <1>6
<1>8. ASSUME NEW d \in {scan, restore, InspectionLeft} \ {NoDeadline}
      PROVE  NextWait # NoDeadline /\ NextWait <= d
  <2>1. PICK e \in {a, b} \ {NoDeadline} : e <= d
    BY <1>2
  <2>2. NextWait # NoDeadline /\ NextWait <= e
    BY <1>6
  <2>3. d \in Nat /\ e \in Nat /\ NextWait \in Nat \cup {NoDeadline}
    BY <1>1, <1>5, <1>6
  <2>4. QED
    BY <2>1, <2>2, <2>3
<1>9. QED
  BY <1>7, <1>8

\* An evaluation that finds the restore due leaves it due or takes it away.
LEMMA EvaluatedRestore ==
  ASSUME NEW r \in Deadline(MaxDelay), NEW e \in Evaluated(r)
  PROVE  e \in Deadline(MaxDelay) /\ (r = 0 => e \in {0, NoDeadline})
<1>1. CASE r = NoDeadline
  <2>1. Evaluated(r) = Deadline(MaxDelay) /\ r # 0
    BY <1>1, SchedulerAssumption DEF Evaluated
  <2>2. QED
    BY <2>1
<1>2. CASE r = 0
  <2>1. r # NoDeadline
    BY <1>2, SchedulerAssumption
  <2>2. e \in {0, NoDeadline}
    BY <1>2, <2>1 DEF Evaluated
  <2>3. QED
    BY <2>2, BoundsAreNat DEF Deadline
<1>3. CASE r \notin {0, NoDeadline}
  <2>1. Evaluated(r) = {NoDeadline, r}
    BY <1>3 DEF Evaluated
  <2>2. QED
    BY <1>3, <2>1 DEF Deadline
<1>4. QED
  BY <1>1, <1>2, <1>3

\* The deadline of a degraded scan stays where it is, and is due at once when the
\* first subscription is lost.
LEMMA SynchronizedDeadline ==
  ASSUME TypeOK
  PROVE  /\ SynchronizedScan \in Deadline(ScanInterval)
         /\ SynchronizedScan # NoDeadline => degraded # {}
         /\ scan = 0 /\ degraded # {} => SynchronizedScan = 0
BY BoundsAreNat, SchedulerAssumption DEF SynchronizedScan, Deadline, TypeOK

\* The next pause of a watcher is within its bounds.
LEMMA BackoffBounded ==
  ASSUME NEW current \in 1..MaxBackoff, NEW lastRun \in Nat
  PROVE  NextBackoff(current, lastRun) \in 1..MaxBackoff
BY BoundsAreNat DEF NextBackoff

-----------------------------------------------------------------------------
(* Type correctness.                                                       *)

\* The agent starts with every variable in its type.
LEMMA TypeInit == Init => TypeOK
<1> SUFFICES ASSUME Init PROVE TypeOK
  OBVIOUS
<1>1. watcher \in [Kinds -> Watcher]
  BY BoundsAreNat DEF Init, Watcher
<1>2. queue \in Seq(Message) /\ Len(queue) <= MaxQueued
  BY EmptySeq, BoundsAreNat DEF Init
<1>3. late \in [{"scan", "restore"} -> 0..2] /\ wakeAge \in 0..Cooldown
  BY BoundsAreNat DEF Init
<1>4. QED
  BY <1>1, <1>2, <1>3 DEF Init, TypeOK, Deadline

\* One message more, within the bound, or one less.
LEMMA Sent ==
  ASSUME TypeOK, NEW m \in Message, Send(m)
  PROVE  queue' \in Seq(Message) /\ Len(queue') <= MaxQueued
<1>1. queue \in Seq(Message) /\ Len(queue) < MaxQueued /\ queue' = Append(queue, m)
  BY DEF TypeOK, Send
<1>2. queue' \in Seq(Message) /\ Len(queue') = Len(queue) + 1 /\ Len(queue) \in Nat
  BY <1>1
<1>3. QED
  BY <1>1, <1>2, BoundsAreNat

\* What is received is a message, and the queue is shorter.
LEMMA Received ==
  ASSUME TypeOK, NEW m, Receive(m)
  PROVE  m \in Message /\ queue' \in Seq(Message) /\ Len(queue') <= MaxQueued
<1>1. queue \in Seq(Message) /\ Len(queue) <= MaxQueued /\ queue # << >>
      /\ m = Head(queue) /\ queue' = Tail(queue)
  BY DEF TypeOK, Receive
<1>2. Head(queue) \in Message /\ queue' \in Seq(Message) /\ Len(queue') = Len(queue) - 1
      /\ Len(queue) \in Nat
  BY <1>1, HeadTailProperties, LenProperties
<1>3. QED
  BY <1>1, <1>2, BoundsAreNat

\* A message is counted against what has fallen due, and for nothing else.
LEMMA CountedLate ==
  ASSUME TypeOK
  PROVE  /\ Counted \in [{"scan", "restore"} -> 0..2]
         /\ \A d \in {"scan", "restore"} :
              /\ d \notin FallenDue => Counted[d] = 0
              /\ late[d] = 0 => Counted[d] <= 1
BY DEF Counted, UpTo, TypeOK

\* Every step keeps the types.
LEMMA TypeStep == TypeOK /\ [Next]_vars => TypeOK'
<1> SUFFICES ASSUME TypeOK, [Next]_vars PROVE TypeOK'
  OBVIOUS
<1> USE DEF loop, schedule, agenda, outside, history
<1>1. ASSUME Top PROVE TypeOK'
  <2>1. scan' \in Deadline(ScanInterval)
    BY <1>1, SynchronizedDeadline DEF Top
  <2>2. QED
    BY <1>1, <2>1 DEF Top, TypeOK
<1>2. ASSUME Inspect PROVE TypeOK'
  <2>1. restore' \in Deadline(MaxDelay) /\ late' \in [{"scan", "restore"} -> 0..2]
        /\ inspect' \in Inspection \cup {NoDeadline}
    BY <1>2, EvaluatedRestore DEF Inspect, TypeOK, Inspection
  <2>2. overdue' \subseteq {"scan", "restore"} /\ pc' \in {"load", "wait"}
    BY <1>2 DEF Inspect, TypeOK
  <2>3. QED
    BY <1>2, <2>1, <2>2 DEF Inspect, TypeOK
<1>3. ASSUME Load \/ LoadFails PROVE TypeOK'
  BY <1>3 DEF Load, LoadFails, TypeOK
<1>4. ASSUME Snapshot PROVE TypeOK'
  <2>1. restore' \in Deadline(MaxDelay) /\ scan' \in Deadline(ScanInterval)
    BY <1>4, EvaluatedRestore, BoundsAreNat DEF Snapshot, Completed, TypeOK, Deadline
  <2>2. late' \in [{"scan", "restore"} -> 0..2]
    BY <1>4 DEF Snapshot
  <2>3. QED
    BY <1>4, <2>1, <2>2 DEF Snapshot, Completed, TypeOK
<1>5. ASSUME Wait PROVE TypeOK'
  BY <1>5, WaitIsShort DEF Wait, TypeOK
<1>6. ASSUME TimedOut PROVE TypeOK'
  BY <1>6 DEF TimedOut, TypeOK, Deadline
<1>7. ASSUME Handle PROVE TypeOK'
  <2>1. PICK m : Receive(m)
    BY <1>7 DEF Handle, ReceiveWake, ReceiveReevaluate, ReceiveProcess, ReceiveReport
  <2>2. queue' \in Seq(Message) /\ Len(queue') <= MaxQueued /\ timeout' = NoDeadline
        /\ pc' = "top" /\ UNCHANGED <<overdue, wakeEvent, ui, unread, watcher>>
    BY <2>1, Received DEF Receive
  <2>3. forced' \in BOOLEAN /\ wakeAge' \in 0..Cooldown /\ dropped' \in BOOLEAN
    <3>1. CASE ReceiveWake
      <4>1. wakeAge' \in {0, wakeAge} /\ forced' \in {TRUE, forced} /\ dropped' \in {unread, dropped}
        BY <3>1 DEF ReceiveWake
      <4>2. wakeAge' \in 0..Cooldown
        BY <4>1, BoundsAreNat DEF TypeOK
      <4>3. forced' \in BOOLEAN /\ dropped' \in BOOLEAN
        BY <4>1, Zenon DEF TypeOK
      <4>4. QED
        BY <4>2, <4>3
    <3>2. CASE ReceiveReevaluate \/ ReceiveProcess \/ \E r \in Report : ReceiveReport(r)
      BY <3>2 DEF ReceiveReevaluate, ReceiveProcess, ReceiveReport, TypeOK
    <3>3. QED
      BY <1>7, <3>1, <3>2 DEF Handle
  <2>4. degraded' \subseteq Kinds /\ UNCHANGED scan
    BY <1>7
       DEF Handle, ReceiveWake, ReceiveReevaluate, ReceiveProcess, ReceiveReport, TypeOK, Report
  <2>5. restore' \in Deadline(MaxDelay)
    BY <1>7, EvaluatedRestore
       DEF Handle, ReceiveWake, ReceiveReevaluate, ReceiveProcess, ReceiveReport, TypeOK
  <2>6. inspect' \in Inspection \cup {NoDeadline}
    BY <1>7, BoundsAreNat
       DEF Handle, ReceiveWake, ReceiveReevaluate, ReceiveProcess, ReceiveReport, TypeOK,
           Inspection
  <2>7. late' \in [{"scan", "restore"} -> 0..2]
    BY <1>7, CountedLate
       DEF Handle, ReceiveWake, ReceiveReevaluate, ReceiveProcess, ReceiveReport
  <2>8. QED
    BY <2>2, <2>3, <2>4, <2>5, <2>6, <2>7 DEF TypeOK, Deadline
<1>8. ASSUME UNCHANGED <<loop, schedule, agenda, degraded, late, watcher>>,
             queue' \in Seq(Message) /\ Len(queue') <= MaxQueued,
             wakeEvent' \in BOOLEAN, ui' \in {"idle", "asking"}, unread' \in BOOLEAN,
             dropped' \in BOOLEAN
      PROVE  TypeOK'
  BY <1>8 DEF TypeOK
<1>9. ASSUME ProcessEvent \/ ForwardWake PROVE TypeOK'
  <2>1. queue' \in Seq(Message) /\ Len(queue') <= MaxQueued
    BY <1>9, Sent DEF ProcessEvent, ForwardWake, Message
  <2>2. QED
    BY <1>8, <1>9, <2>1 DEF ProcessEvent, ForwardWake, TypeOK
<1>10. ASSUME Save \/ ScanNow PROVE TypeOK'
  BY <1>8, <1>10 DEF Save, ScanNow, TypeOK
<1>11. ASSUME WakeAgent PROVE TypeOK'
  <2>1. queue' \in Seq(Message) /\ Len(queue') <= MaxQueued
    BY <1>11, Sent DEF WakeAgent, Message, TypeOK
  <2>2. QED
    BY <1>8, <1>11, <2>1 DEF WakeAgent, TypeOK
<1>12. ASSUME NEW k \in Kinds, Subscribed(k) \/ WatchFails(k) PROVE TypeOK'
  <2>1. queue' \in Seq(Message) /\ Len(queue') <= MaxQueued
    BY <1>12, Sent DEF Subscribed, WatchFails, Message, Report
  <2>2. watcher' \in [Kinds -> Watcher]
    <3>1. /\ watcher[k] \in Watcher /\ watcher[k].elapsed \in 0..StableRun
          /\ watcher[k].backoff \in 0..MaxBackoff
      BY BoundsAreNat DEF TypeOK, Watcher
    <3>2. watcher'[k] \in Watcher
      <4>1. CASE Subscribed(k)
        BY <3>1, <4>1 DEF Subscribed, TypeOK, Watcher
      <4>2. CASE WatchFails(k)
        BY <3>1, <4>2 DEF WatchFails, TypeOK, Watcher
      <4>3. QED
        BY <1>12, <4>1, <4>2
    <3>3. watcher' = [watcher EXCEPT ![k] = watcher'[k]]
      BY <1>12 DEF Subscribed, WatchFails, TypeOK
    <3>4. QED
      BY <3>2, <3>3 DEF TypeOK
  <2>3. QED
    BY <1>12, <2>1, <2>2 DEF Subscribed, WatchFails, TypeOK
<1>13. ASSUME NEW k \in Kinds, Retry(k) PROVE TypeOK'
  <2>1. NextBackoff(watcher[k].backoff, watcher[k].elapsed) \in 1..MaxBackoff
    <3>1. watcher[k].backoff \in 1..MaxBackoff /\ watcher[k].elapsed \in Nat
      BY BoundsAreNat DEF TypeOK, Watcher
    <3>2. QED
      BY <3>1, BackoffBounded
  <2>2. watcher' \in [Kinds -> Watcher]
    BY <1>13, <2>1, BoundsAreNat DEF Retry, TypeOK, Watcher
  <2>3. QED
    BY <1>13, <2>2 DEF Retry, TypeOK
<1>14. ASSUME Tick PROVE TypeOK'
  <2>1. /\ timeout' \in Deadline(Longest) /\ scan' \in Deadline(ScanInterval)
        /\ restore' \in Deadline(MaxDelay) /\ wakeAge' \in 0..Cooldown
    BY <1>14, PassedDeadline, UpToBound, BoundsAreNat DEF Tick, TypeOK
  <2>2. inspect' \in Inspection \cup {NoDeadline}
    BY <1>14, PassedDeadline, BoundsAreNat DEF Tick, TypeOK, Inspection, Deadline, Passed
  <2>3. watcher' \in [Kinds -> Watcher]
    <3>1. ASSUME NEW k \in Kinds
          PROVE  [watcher[k] EXCEPT !.left = Passed(@), !.elapsed = UpTo(StableRun, @)]
                   \in Watcher
      <4>1. Passed(watcher[k].left) \in 0..MaxBackoff
        BY BoundsAreNat, SchedulerAssumption DEF TypeOK, Watcher, Passed
      <4>2. UpTo(StableRun, watcher[k].elapsed) \in 0..StableRun
        BY BoundsAreNat, UpToBound DEF TypeOK, Watcher
      <4>3. QED
        BY <4>1, <4>2 DEF TypeOK, Watcher
    <3>2. QED
      BY <1>14, <3>1 DEF Tick
  <2>4. QED
    BY <1>14, <2>1, <2>2, <2>3 DEF Tick, TypeOK
<1>15. CASE UNCHANGED vars
  BY <1>15 DEF vars, TypeOK
<1>16. QED
  BY <1>1, <1>2, <1>3, <1>4, <1>5, <1>6, <1>7, <1>9, <1>10, <1>11, <1>12, <1>13, <1>14, <1>15
     DEF Next, MainLoop, Others

-----------------------------------------------------------------------------
(* One step of the inductive invariant.                                    *)

\* A pass settles everything that was due when it began before the agent blocks again.
LEMMA SafeStep == TypeOK /\ SafeInv /\ [Next]_vars => SafeInv'
<1> SUFFICES ASSUME TypeOK, ForcedInv, ScanInv, TimeoutInv, LateInv, [Next]_vars
             PROVE  SafeInv'
  BY DEF SafeInv
<1> USE DEF loop, schedule, agenda, outside, history
<1>0. /\ DOMAIN late = {"scan", "restore"} /\ late["scan"] \in 0..2 /\ late["restore"] \in 0..2
      /\ late["scan"] <= 1 /\ late["restore"] <= 1
  BY DEF TypeOK, LateInv, NoStarvation
<1>1. ASSUME UNCHANGED <<loop, schedule, agenda, degraded, late>> PROVE SafeInv'
  BY <1>1 DEF SafeInv, ForcedInv, ScanInv, TimeoutInv, InspectionLeft, LateInv, NoStarvation
<1>2. ASSUME Top PROVE SafeInv'
  <2>1. /\ scan' = SynchronizedScan
        /\ scan' # NoDeadline => degraded # {}
        /\ scan = 0 /\ degraded # {} => scan' = 0
    BY <1>2, SynchronizedDeadline DEF Top
  <2>2. /\ forced \/ scan' = 0 => "scan" \in overdue'
        /\ restore = 0 => "restore" \in overdue'
    BY <1>2 DEF Top
  <2>3. /\ pc = "top" /\ pc' \in {"inspect", "load", "wait"}
        /\ pc' = "wait" => overdue' = {}
        /\ UNCHANGED <<forced, restore, inspect, degraded, late>>
    BY <1>2 DEF Top
  <2>4. \A d \in {"scan", "restore"} : late[d] > 0 => d \in overdue'
    BY <2>1, <2>2, <2>3 DEF LateInv
  <2>5. ForcedInv' /\ ScanInv' /\ TimeoutInv'
    BY <2>1, <2>2, <2>3 DEF ForcedInv, ScanInv, TimeoutInv
  <2>6. LateInv'
    BY <1>0, <2>3, <2>4 DEF LateInv, NoStarvation
  <2>7. QED
    BY <2>5, <2>6 DEF SafeInv
<1>3. ASSUME Inspect PROVE SafeInv'
  <2>1. /\ pc = "inspect" /\ pc' \in {"load", "wait"} /\ (pc' = "wait" => overdue' = {})
        /\ UNCHANGED <<forced, scan, degraded>>
        /\ "scan" \in overdue => "scan" \in overdue'
    BY <1>3 DEF Inspect
  <2>2. \/ UNCHANGED <<restore, late>>
        \/ late' = [late EXCEPT !["restore"] = 0]
    BY <1>3 DEF Inspect
  <2>3. DOMAIN late' = {"scan", "restore"} /\ late'["scan"] = late["scan"]
        /\ late'["restore"] \in {0, late["restore"]}
    BY <1>0, <2>2 DEF TypeOK
  <2>4. restore' = 0 /\ restore = 0 => "restore" \in overdue'
    BY <1>3 DEF Inspect
  <2>5. \A d \in {"scan", "restore"} : late'[d] > 0 => d \in overdue'
    BY <1>0, <2>1, <2>2, <2>3, <2>4 DEF LateInv, TypeOK
  <2>6. ForcedInv' /\ ScanInv' /\ TimeoutInv'
    BY <2>1 DEF ForcedInv, ScanInv, TimeoutInv
  <2>7. LateInv'
    BY <1>0, <2>1, <2>3, <2>5 DEF LateInv, NoStarvation
  <2>8. QED
    BY <2>6, <2>7 DEF SafeInv
<1>4. ASSUME Load \/ LoadFails PROVE SafeInv'
  BY <1>0, <1>4
     DEF Load, LoadFails, SafeInv, ForcedInv, ScanInv, TimeoutInv, LateInv, NoStarvation
<1>5. ASSUME Snapshot PROVE SafeInv'
  <2>1. /\ pc' = "wait" /\ forced' = FALSE /\ UNCHANGED degraded
        /\ late' = [d \in {"scan", "restore"} |-> 0]
        /\ scan' # NoDeadline => degraded # {}
    BY <1>5 DEF Snapshot, Completed
  <2>2. QED
    BY <2>1 DEF SafeInv, ForcedInv, ScanInv, TimeoutInv, LateInv, NoStarvation
<1>6. ASSUME Wait PROVE SafeInv'
  <2>1. /\ pc = "wait" /\ pc' = "blocked" /\ timeout' = NextWait
        /\ UNCHANGED <<forced, scan, restore, inspect, degraded, late>>
    BY <1>6 DEF Wait
  <2>2. TimeoutInv'
    BY <2>1, WaitIsShort DEF TimeoutInv, InspectionLeft
  <2>3. QED
    BY <2>1, <2>2 DEF SafeInv, ForcedInv, ScanInv, LateInv, NoStarvation
<1>7. ASSUME TimedOut PROVE SafeInv'
  <2>1. pc = "blocked" /\ pc' = "top" /\ UNCHANGED late
    BY <1>7 DEF TimedOut
  <2>2. QED
    BY <1>0, <2>1 DEF SafeInv, ForcedInv, ScanInv, TimeoutInv, LateInv, NoStarvation
<1>8. ASSUME Handle PROVE SafeInv'
  <2>1. pc = "blocked" /\ pc' = "top" /\ UNCHANGED scan
    BY <1>8 DEF Handle, ReceiveWake, ReceiveReevaluate, ReceiveProcess, ReceiveReport, Receive
  <2>2. ~forced /\ late["scan"] = 0 /\ late["restore"] = 0
    BY <1>0, <2>1 DEF ForcedInv, LateInv
  <2>3. /\ Counted \in [{"scan", "restore"} -> 0..2]
        /\ Counted["scan"] <= 1 /\ Counted["restore"] <= 1
        /\ Counted["scan"] > 0 => scan = 0
        /\ Counted["restore"] > 0 => restore = 0
    BY <2>2, CountedLate DEF FallenDue
  <2>4. \/ late' = Counted /\ UNCHANGED restore
        \/ late' = [Counted EXCEPT !["restore"] = 0]
    BY <1>8 DEF Handle, ReceiveWake, ReceiveReevaluate, ReceiveProcess, ReceiveReport
  <2>5. /\ DOMAIN late' = {"scan", "restore"} /\ late'["scan"] = Counted["scan"]
        /\ late'["restore"] \in {0, Counted["restore"]}
        /\ late'["restore"] > 0 => restore' = 0
    BY <2>3, <2>4
  <2>6. UNCHANGED degraded \/ forced' = TRUE
    BY <1>8 DEF Handle, ReceiveWake, ReceiveReevaluate, ReceiveProcess, ReceiveReport
  <2>7. late'["scan"] > 0 => forced' \/ (scan' = 0 /\ degraded' # {})
    BY <2>1, <2>3, <2>5, <2>6, SchedulerAssumption DEF ScanInv
  <2>8. LateInv'
    BY <2>1, <2>3, <2>5, <2>7 DEF LateInv, NoStarvation
  <2>9. QED
    BY <2>1, <2>8 DEF SafeInv, ForcedInv, ScanInv, TimeoutInv
<1>9. ASSUME Tick PROVE SafeInv'
  <2>1. /\ UNCHANGED <<pc, overdue, forced, degraded, late>>
        /\ scan' = Passed(scan) /\ restore' = Passed(restore) /\ timeout' = Passed(timeout)
    BY <1>9 DEF Tick
  <2>2. InspectionLeft' = Passed(InspectionLeft)
    <3>1. CASE inspect = NoDeadline
      BY <1>9, <3>1 DEF Tick, InspectionLeft, Passed
    <3>2. CASE inspect # NoDeadline
      <4>1. inspect \in Inspection /\ inspect' = [inspect EXCEPT !.left = Passed(@)]
        BY <1>9, <3>2 DEF Tick, TypeOK
      <4>2. inspect.left \in Deadline(RetryDelay) /\ inspect.left # NoDeadline
        BY <4>1, SchedulerAssumption DEF Inspection, Deadline
      <4>3. Passed(inspect.left) \in 0..RetryDelay
        BY <4>2, PassedDeadline, BoundsAreNat DEF Deadline
      <4>4. inspect' \in Inspection /\ inspect'.left = Passed(inspect.left)
        BY <4>1, <4>3 DEF Inspection
      <4>5. QED
        BY <3>2, <4>4, SchedulerAssumption DEF InspectionLeft
    <3>3. QED
      BY <3>1, <3>2
  <2>3. /\ scan' = NoDeadline <=> scan = NoDeadline
        /\ scan = 0 => scan' = 0
        /\ restore = 0 => restore' = 0
    BY <2>1, PassedDeadline, BoundsAreNat DEF TypeOK
  <2>4. ASSUME pc = "blocked", NEW d \in {scan, restore, InspectionLeft},
               Passed(d) # NoDeadline
        PROVE  timeout' # NoDeadline /\ timeout' <= Passed(d)
    <3>1. d \in Nat \cup {NoDeadline} /\ timeout \in Nat \cup {NoDeadline}
      BY BoundsAreNat, InspectionDeadline DEF TypeOK, Deadline
    <3>2. d # NoDeadline
      BY <2>4 DEF Passed
    <3>3. timeout # NoDeadline /\ timeout <= d
      BY <2>4, <3>2 DEF TimeoutInv
    <3>4. QED
      BY <2>1, <3>1, <3>2, <3>3, SchedulerAssumption DEF Passed
  <2>5. TimeoutInv'
    BY <2>1, <2>2, <2>4 DEF TimeoutInv
  <2>6. QED
    BY <2>1, <2>3, <2>5 DEF SafeInv, ForcedInv, ScanInv, LateInv, NoStarvation
<1>10. ASSUME Others PROVE SafeInv'
  BY <1>1, <1>10
     DEF Others, ProcessEvent, ForwardWake, Save, ScanNow, WakeAgent, Subscribed, WatchFails,
         Retry
<1>11. QED
  BY <1>1, <1>2, <1>3, <1>4, <1>5, <1>6, <1>7, <1>8, <1>9, <1>10 DEF Next, MainLoop, vars

-----------------------------------------------------------------------------
(* The theorems.                                                           *)

\* Nothing is due, forced or late when the agent starts.
LEMMA SafeInit == Init => SafeInv
BY DEF Init, SafeInv, ForcedInv, ScanInv, TimeoutInv, LateInv, NoStarvation

\* The inductive invariant holds.
LEMMA Inductive == Spec => [](TypeOK /\ SafeInv)
<1>1. Init => TypeOK /\ SafeInv
  BY TypeInit, SafeInit
<1>2. (TypeOK /\ SafeInv) /\ [Next]_vars => (TypeOK /\ SafeInv)'
  BY TypeStep, SafeStep
<1>3. QED
  BY <1>1, <1>2, PTL DEF Spec

\* Every variable stays in its type: no deadline is ever further away than its
\* interval allows, no back-off leaves its bounds.
THEOREM TypeCorrect == Spec => []TypeOK
BY Inductive, PTL

\* However messages, failures and time interleave, the agent never blocks past a
\* deadline, nor with a forced scan pending.
THEOREM AgentWakesInTime == Spec => []NeverOversleeps
<1>1. TypeOK /\ SafeInv => NeverOversleeps
  BY DEF SafeInv, ForcedInv, TimeoutInv, NeverOversleeps
<1>2. QED
  BY <1>1, Inductive, PTL

\* At most one message is handled between the moment a scan or a restore falls due
\* and the pass that carries it out, whatever the traffic.
THEOREM DeadlinesAreNotStarved == Spec => []NoStarvation
<1>1. TypeOK /\ SafeInv => NoStarvation
  BY DEF SafeInv, LateInv
<1>2. QED
  BY <1>1, Inductive, PTL

=============================================================================
