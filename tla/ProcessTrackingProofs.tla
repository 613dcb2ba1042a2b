------------------------ MODULE ProcessTrackingProofs ------------------------
(***************************************************************************)
(* Proofs about ProcessTracking, for every set of PIDs and names, every    *)
(* number of processes and every failure.                                  *)
(***************************************************************************)
EXTENDS ProcessTracking, SequenceTheorems, WellFoundedInduction, TLAPS

-----------------------------------------------------------------------------
(* The inductive invariant: the safety properties of ProcessTracking speak *)
(* of the moments the agent waits, and need to know what a snapshot, a     *)
(* retry or a handler has in hand until then.                              *)

OnePerPid(instances) == \A i, j \in instances : i.pid = j.pid => i = j

\* What the snapshot in progress may still put in the registry.
Prospects == found \cup {[pid |-> p, birth |-> 0] : p \in todo}

\* A retry in hand is one that was left.
RetriesLeft == pc = "inspect" => \A p \in todo : inspections[p] > 0

TypeInv == TypeOK /\ RetriesLeft

\* Where the loop stands, what it has in hand and whether an evaluation is owed.
PassInv ==
  /\ OnePerPid(registry)
  /\ OnePerPid(found) /\ PidsOf(found) \cap todo = {}
  /\ pc # "list" => found = {}
  /\ pc \in {"start", "idle", "list"} => ~changed
  /\ ~changed => evaluated = registry

\* A wait is on a process whose creation time was read, and a callback that has
\* come, or will come, names an instance that no later process can be.
ExitInv ==
  /\ \A i \in waits \cup exits : i.birth # 0 /\ i.birth <= births[i.pid]
  /\ \A i \in exits : ~Alive(i)

IsReport(m) == m \in {Healthy, Degraded}

OneReport(s) == \A m, n \in DOMAIN s : IsReport(s[m]) /\ IsReport(s[n]) => m = n

\* The reports of a watcher tell the state of its subscription.
WatcherInv ==
  \A k \in Kinds :
    /\ Healthy \in Messages(k) => subscribed[k]
    /\ NoReportQueued(k) /\ health[k] = "running" => subscribed[k]
    /\ OneReport(queue[k])

\* The agent will hear that the instance is gone.
Told(i) == i \in exits \/ EventQueued("stops", i.pid) \/ ~Covered("stops")

Accounted(i) == Ghost(i) => Told(i)

GhostInv ==
  /\ pc # "list" /\ "snapshot" \notin missed => \A i \in registry : Accounted(i)
  /\ pc = "list" => \A i \in Prospects : Accounted(i)

Wanted(p) == proc[p] # NoProcess /\ proc[p].name \in watched

\* The instances name the process of p itself, or something ahead leads to it.
Known(p, instances) ==
  \/ \E i \in instances : i.pid = p /\ i.birth \in {0, proc[p].birth}
  \/ [pid |-> p, name |-> proc[p].name] \in Messages("starts")
  \/ inspections[p] > 0
  \/ ~Covered("starts")

Traced(p, instances) == Wanted(p) => Known(p, instances)

LostInv ==
  /\ pc # "list" /\ missed = {} => \A p \in Pids : Traced(p, registry)
  /\ pc = "list" => \A p \in Pids : Traced(p, Prospects)

Inv == TypeInv /\ PassInv /\ ExitInv /\ WatcherInv /\ GhostInv /\ LostInv

-----------------------------------------------------------------------------
(* The operators the actions are built from.                               *)

Elements(s) == {s[n] : n \in DOMAIN s}

\* What Append adds to the messages of a watcher, and what Tail takes away.
LEMMA AppendElements ==
  ASSUME NEW S, NEW s \in Seq(S), NEW e \in S
  PROVE  /\ Append(s, e) \in Seq(S)
         /\ Elements(Append(s, e)) = Elements(s) \cup {e}
<1> DEFINE t == Append(s, e)
<1>1. /\ t \in Seq(S) /\ Len(s) \in Nat /\ Len(t) = Len(s) + 1
      /\ DOMAIN s = 1..Len(s) /\ DOMAIN t = 1..Len(t)
      /\ t[Len(s) + 1] = e /\ \A n \in 1..Len(s) : t[n] = s[n]
  OBVIOUS
<1> HIDE DEF t
<1>2. Elements(t) = Elements(s) \cup {e}
  BY <1>1 DEF Elements
<1>3. QED BY <1>1, <1>2 DEF t

\* What a sequence has is its head and what its tail has.
LEMMA TailElements ==
  ASSUME NEW S, NEW s \in Seq(S), s # << >>
  PROVE  /\ Head(s) \in S /\ Tail(s) \in Seq(S)
         /\ Elements(s) = {Head(s)} \cup Elements(Tail(s))
<1> DEFINE t == Tail(s)
<1>1. /\ Head(s) \in S /\ t \in Seq(S) /\ Len(s) \in Nat \ {0} /\ Len(t) = Len(s) - 1
      /\ DOMAIN s = 1..Len(s) /\ DOMAIN t = 1..Len(t)
      /\ s[1] = Head(s) /\ \A n \in 1..Len(t) : t[n] = s[n + 1]
  BY HeadTailProperties, EmptySeq
<1> HIDE DEF t
<1>2. \A n \in 2..Len(s) : s[n] = t[n - 1] /\ n - 1 \in 1..Len(t)
  BY <1>1
<1>3. Elements(s) = {Head(s)} \cup Elements(t)
  <2>1. ASSUME NEW n \in DOMAIN s PROVE s[n] \in {Head(s)} \cup Elements(t)
    <3>1. CASE n = 1
      BY <1>1, <3>1
    <3>2. CASE n # 1
      <4>1. s[n] = t[n - 1] /\ n - 1 \in DOMAIN t
        BY <1>1, <1>2, <3>2
      <4>2. QED BY <4>1 DEF Elements
    <3>3. QED BY <3>1, <3>2
  <2>2. ASSUME NEW n \in DOMAIN t PROVE t[n] \in Elements(s)
    BY <1>1, SMTT(30) DEF Elements
  <2>3. Head(s) \in Elements(s)
    BY <1>1 DEF Elements
  <2>4. QED BY <2>1, <2>2, <2>3 DEF Elements
<1>4. QED BY <1>1, <1>3 DEF t

\* A set of naturals that is not empty has a least element.
LEMMA LeastNat ==
  ASSUME NEW T, T \subseteq Nat, T # {}
  PROVE  \E n \in T : \A m \in T : n <= m
<1> DEFINE R == OpToRel(<, Nat)
<1>1. \A x, y \in Nat : y < x => <<y, x>> \in R
  BY DEF OpToRel
<1>2. IsWellFoundedOn(R, Nat)
  BY NatLessThanWellFounded
<1> HIDE DEF R
<1>3. PICK x \in T : \A y \in T : <<y, x>> \notin R
  BY <1>2, WFMin
<1>4. ASSUME NEW m \in T PROVE x <= m
  <2>1. x \in Nat /\ m \in Nat /\ ~(m < x)
    BY <1>1, <1>3, Zenon
  <2>2. QED BY <2>1
<1>5. QED BY <1>4

\* The clock is the creation time of the youngest process, or 0.
LEMMA ClockBound ==
  ASSUME births \in [Pids -> 0..MaxBirths]
  PROVE  Clock \in 0..MaxBirths /\ \A p \in Pids : births[p] <= Clock
<1> DEFINE Bounds == {n \in Nat : \A p \in Pids : births[p] <= n}
<1>1. MaxBirths \in Bounds
  BY TrackingAssumption
<1>2. PICK n \in Bounds : \A m \in Bounds : n <= m
  BY <1>1, LeastNat
<1>3. n \in 0..MaxBirths
  BY <1>1, <1>2, TrackingAssumption
<1>4. n = 0 \/ \E p \in Pids : births[p] = n
  <2>1. SUFFICES ASSUME n # 0, \A p \in Pids : births[p] # n PROVE FALSE
    OBVIOUS
  <2>2. n - 1 \in Bounds
    BY <2>1, <1>3
  <2>3. QED BY <2>2, <1>2, <1>3
<1>5. QED BY <1>2, <1>3, <1>4 DEF Clock

\* One message more in the channel of a watcher.
LEMMA Posted ==
  ASSUME TypeOK, NEW k \in Kinds, NEW m \in Event \cup {Healthy, Degraded},
         queue' = [queue EXCEPT ![k] = Append(@, m)]
  PROVE  /\ queue' \in [Kinds -> Seq(Event \cup {Healthy, Degraded})]
         /\ queue'[k] = Append(queue[k], m) /\ Messages(k)' = Messages(k) \cup {m}
         /\ \A j \in Kinds \ {k} : queue'[j] = queue[j] /\ Messages(j)' = Messages(j)
<1>1. /\ Append(queue[k], m) \in Seq(Event \cup {Healthy, Degraded})
      /\ Elements(Append(queue[k], m)) = Elements(queue[k]) \cup {m}
  <2> DEFINE S == Event \cup {Healthy, Degraded}
  <2>1. queue[k] \in Seq(S) /\ m \in S
    BY DEF TypeOK
  <2> HIDE DEF S
  <2>2. /\ Append(queue[k], m) \in Seq(S)
        /\ Elements(Append(queue[k], m)) = Elements(queue[k]) \cup {m}
    BY <2>1, AppendElements
  <2>3. QED
    BY <2>2 DEF S
<1>2. queue'[k] = Append(queue[k], m) /\ \A j \in Kinds \ {k} : queue'[j] = queue[j]
  BY DEF TypeOK
<1>3. \A j \in Kinds : Messages(j) = Elements(queue[j]) /\ Messages(j)' = Elements(queue'[j])
  BY DEF Messages, Elements
<1>4. queue' \in [Kinds -> Seq(Event \cup {Healthy, Degraded})]
  BY <1>1 DEF TypeOK
<1>5. QED
  BY <1>1, <1>2, <1>3, <1>4

\* An event reaches the agent's channel only through a subscription.
LEMMA Raised ==
  ASSUME TypeOK, NEW k \in Kinds, NEW event \in Event, Raise(k, event)
  PROVE  /\ queue' \in [Kinds -> Seq(Event \cup {Healthy, Degraded})]
         /\ subscribed[k] => Messages(k)' = Messages(k) \cup {event}
         /\ ~subscribed[k] => Messages(k)' = Messages(k)
         /\ \A j \in Kinds \ {k} : Messages(j)' = Messages(j)
<1>1. CASE subscribed[k]
  <2>1. queue' = [queue EXCEPT ![k] = Append(@, event)]
    BY <1>1 DEF Raise
  <2>2. QED
    BY <2>1, <1>1, Posted
<1>2. CASE ~subscribed[k]
  <2>1. queue' = queue
    BY <1>2 DEF Raise
  <2>2. QED
    BY <2>1, <1>2 DEF Messages, TypeOK
<1>3. QED
  BY <1>1, <1>2

\* One message less: the oldest.
LEMMA Taken ==
  ASSUME TypeOK, NEW k \in Kinds, NEW m, Receive(k, m)
  PROVE  /\ queue' \in [Kinds -> Seq(Event \cup {Healthy, Degraded})]
         /\ m \in Event \cup {Healthy, Degraded}
         /\ queue'[k] = Tail(queue[k]) /\ Messages(k) = Messages(k)' \cup {m}
         /\ \A j \in Kinds \ {k} : queue'[j] = queue[j] /\ Messages(j)' = Messages(j)
<1>1. /\ queue[k] # << >> /\ m = Head(queue[k]) /\ queue' = [queue EXCEPT ![k] = Tail(@)]
      /\ queue[k] \in Seq(Event \cup {Healthy, Degraded})
  BY DEF Receive, TypeOK
<1>2. /\ m \in Event \cup {Healthy, Degraded}
      /\ Tail(queue[k]) \in Seq(Event \cup {Healthy, Degraded})
      /\ Elements(queue[k]) = {m} \cup Elements(Tail(queue[k]))
  BY <1>1, TailElements
<1>3. queue'[k] = Tail(queue[k]) /\ \A j \in Kinds \ {k} : queue'[j] = queue[j]
  BY <1>1 DEF TypeOK
<1>4. \A j \in Kinds : Messages(j) = Elements(queue[j]) /\ Messages(j)' = Elements(queue'[j])
  BY DEF Messages, Elements
<1>5. queue' \in [Kinds -> Seq(Event \cup {Healthy, Degraded})]
  BY <1>1, <1>2 DEF TypeOK
<1>6. Messages(k) = Messages(k)' \cup {m}
  BY <1>2, <1>3, <1>4
<1>7. QED
  BY <1>2, <1>3, <1>4, <1>5, <1>6

\* What the inspection of a PID may lead to.
LEMMA InspectedTyped ==
  ASSUME TypeOK, NEW p \in Pids, NEW observed \in Inspected(p)
  PROVE  /\ observed \in Process \cup {NoProcess} /\ observed \in {proc[p], NoProcess}
         /\ Trackable(p, observed) \subseteq Instance
         /\ \A i \in Trackable(p, observed) :
              i.pid = p /\ i.birth # 0 /\ Alive(i) /\ proc[p].name \in watched
         /\ \A i, j \in Trackable(p, observed) : i = j
         /\ observed # NoProcess /\ observed.name \in watched
              => Trackable(p, observed) = {[pid |-> p, birth |-> proc[p].birth]}
<1>1. observed \in {proc[p], NoProcess} /\ proc[p] \in Process \cup {NoProcess}
  BY DEF Inspected, TypeOK
<1>2. QED BY <1>1, TrackingAssumption DEF Trackable, Process, Instance, Alive

-----------------------------------------------------------------------------
(* Type correctness.                                                       *)

\* Every variable keeps its type.
LEMMA TypeStep == TypeInv /\ [Next]_vars => TypeInv'
<1> SUFFICES ASSUME TypeOK, RetriesLeft, [Next]_vars PROVE TypeInv'
  BY DEF TypeInv
<1> USE DEF TypeInv, machine, messages, tracking, status, control, history
<1>1. ASSUME NEW p \in Pids, NEW n \in Names, Spawn(p, n) PROVE TypeInv'
  <2>1. [pid |-> p, name |-> n] \in Event /\ "starts" \in Kinds
    BY DEF Event, Kinds
  <2>2. queue' \in [Kinds -> Seq(Event \cup {Healthy, Degraded})]
    BY <1>1, <2>1, Raised DEF Spawn
  <2>3. Clock \in 0..MaxBirths
    BY ClockBound DEF TypeOK
  <2>4. Clock + 1 \in 1..MaxBirths
    BY <1>1, <2>3, TrackingAssumption DEF Spawn
  <2>5. QED
    BY <1>1, <2>2, <2>4 DEF Spawn, TypeOK, Process, RetriesLeft
<1>2. ASSUME NEW p \in Pids, Die(p) PROVE TypeInv'
  <2>1. [pid |-> p, name |-> proc[p].name] \in Event /\ "stops" \in Kinds
    BY <1>2 DEF Die, TypeOK, Process, Event, Kinds
  <2>2. queue' \in [Kinds -> Seq(Event \cup {Healthy, Degraded})]
    BY <1>2, <2>1, Raised DEF Die
  <2>3. QED
    BY <1>2, <2>2 DEF Die, TypeOK, RetriesLeft
<1>3. ASSUME NEW k \in Kinds, WatcherFails(k) \/ WatcherSubscribes(k) PROVE TypeInv'
  <2>1. queue' \in [Kinds -> Seq(Event \cup {Healthy, Degraded})]
    BY <1>3, Posted DEF WatcherFails, WatcherSubscribes
  <2>2. QED
    BY <1>3, <2>1 DEF WatcherFails, WatcherSubscribes, TypeOK, RetriesLeft
<1>4. ASSUME NEW names \in WatchSets, Reconcile(names) PROVE TypeInv'
  BY <1>4, TrackingAssumption DEF Reconcile, TakeSnapshot, SnapshotFails, TypeOK, RetriesLeft
<1>5. ASSUME NEW p \in Pids, InspectListed(p) PROVE TypeInv'
  <2>1. PICK observed \in Inspected(p) :
          found' = found \cup IF observed = NoProcess THEN {[pid |-> p, birth |-> 0]}
                              ELSE Trackable(p, observed)
    BY <1>5 DEF InspectListed
  <2>2. Trackable(p, observed) \subseteq Instance /\ [pid |-> p, birth |-> 0] \in Instance
    BY InspectedTyped, TrackingAssumption DEF Instance
  <2>3. found' \subseteq Instance
    BY <2>1, <2>2 DEF TypeOK
  <2>4. QED
    BY <1>5, <2>3 DEF InspectListed, TypeOK, RetriesLeft
<1>6. ASSUME Replace PROVE TypeInv'
  BY <1>6 DEF Replace, TypeOK, RetriesLeft
<1>7. ASSUME NEW due \in SUBSET Pids, TakeDue(due) PROVE TypeInv'
  BY <1>7 DEF TakeDue, TypeOK, RetriesLeft
<1>8. ASSUME NEW p \in Pids, InspectDue(p) PROVE TypeInv'
  <2>1. PICK observed \in Inspected(p) :
          /\ registry' = Upserted(registry, Trackable(p, observed))
          /\ changed' = (changed \/ ~(Trackable(p, observed) \subseteq registry))
          /\ inspections' = [inspections EXCEPT
               ![p] = IF observed = NoProcess THEN @ - 1 ELSE 0]
          /\ missed' \subseteq missed \cup {"inspect"}
    BY <1>8 DEF InspectDue
  <2>2. registry' \subseteq Instance
    BY <2>1, InspectedTyped DEF Upserted, TypeOK
  <2>3. inspections[p] \in 1..MaxAttempts
    BY <1>8 DEF InspectDue, RetriesLeft, TypeOK, MaxAttempts
  <2>4. inspections' \in [Pids -> 0..MaxAttempts]
    BY <2>1, <2>3 DEF TypeOK, MaxAttempts
  <2>5. \A q \in todo \ {p} : inspections'[q] = inspections[q]
    BY <2>1 DEF TypeOK
  <2>6. QED
    BY <1>8, <2>1, <2>2, <2>4, <2>5 DEF InspectDue, TypeOK, RetriesLeft
<1>9. ASSUME NEW event \in Event, ReceiveStart(event) PROVE TypeInv'
  <2>1. queue' \in [Kinds -> Seq(Event \cup {Healthy, Degraded})] /\ event.pid \in Pids
    BY <1>9, Taken DEF ReceiveStart, Kinds, Event
  <2>2. CASE event.name \notin watched
    BY <1>9, <2>1, <2>2 DEF ReceiveStart, Receive, TypeOK, RetriesLeft
  <2>3. CASE event.name \in watched
    <3>1. PICK observed \in Inspected(event.pid) :
            /\ registry' = Upserted(registry, Trackable(event.pid, observed))
            /\ changed' = ~(Trackable(event.pid, observed) \subseteq registry)
            /\ inspections' = IF observed = NoProcess
                              THEN [inspections EXCEPT ![event.pid] = MaxAttempts]
                              ELSE inspections
            /\ pc' = "watch"
      BY <1>9, <2>3 DEF ReceiveStart
    <3>2. registry' \subseteq Instance
      BY <2>1, <3>1, InspectedTyped DEF Upserted, TypeOK
    <3>3. inspections' \in [Pids -> 0..MaxAttempts]
      BY <2>1, <3>1 DEF TypeOK, MaxAttempts
    <3>4. QED
      BY <1>9, <2>1, <3>1, <3>2, <3>3 DEF ReceiveStart, Receive, TypeOK, RetriesLeft
  <2>4. QED
    BY <2>2, <2>3
<1>10. ASSUME NEW event \in Event, ReceiveStop(event) PROVE TypeInv'
  <2>1. queue' \in [Kinds -> Seq(Event \cup {Healthy, Degraded})] /\ event.pid \in Pids
    BY <1>10, Taken DEF ReceiveStop, Kinds, Event
  <2>2. PICK observed \in Inspected(event.pid) :
          /\ registry' = Upserted(Retained(event.pid, observed), Trackable(event.pid, observed))
          /\ changed' \in BOOLEAN
          /\ missed' \subseteq missed \cup {"inspect"}
    BY <1>10 DEF ReceiveStop
  <2>3. registry' \subseteq Instance
    BY <2>1, <2>2, InspectedTyped DEF Upserted, Retained, TypeOK
  <2>4. inspections' \in [Pids -> 0..MaxAttempts] /\ pc' = "watch"
    BY <1>10, <2>1 DEF ReceiveStop, TypeOK, MaxAttempts
  <2>5. QED
    BY <1>10, <2>1, <2>2, <2>3, <2>4 DEF ReceiveStop, Receive, TypeOK, RetriesLeft
<1>11. ASSUME NEW k \in Kinds, NEW m \in {Healthy, Degraded}, ReceiveReport(k, m)
       PROVE  TypeInv'
  <2>1. queue' \in [Kinds -> Seq(Event \cup {Healthy, Degraded})]
    BY <1>11, Taken DEF ReceiveReport
  <2>2. QED
    BY <1>11, <2>1 DEF ReceiveReport, Receive, TypeOK, RetriesLeft
<1>12. ASSUME NEW i \in Instance, ReceiveExit(i) PROVE TypeInv'
  BY <1>12 DEF ReceiveExit, TypeOK, RetriesLeft
<1>13. ASSUME Synchronize PROVE TypeInv'
  BY <1>13 DEF Synchronize, Unwaited, Openable, TypeOK, RetriesLeft
<1>14. CASE UNCHANGED vars
  BY <1>14 DEF vars, TypeOK, RetriesLeft
<1>15. QED
  BY <1>1, <1>2, <1>3, <1>4, <1>5, <1>6, <1>7, <1>8, <1>9, <1>10, <1>11, <1>12, <1>13, <1>14
     DEF Next, Machine, Agent, ReceiveFrom

\* It has it when the agent starts.
LEMMA TypeInit == Init => TypeInv
<1> SUFFICES ASSUME Init PROVE TypeInv
  OBVIOUS
<1>1. births \in [Pids -> 0..MaxBirths]
  BY TrackingAssumption DEF Init, Process
<1>2. queue \in [Kinds -> Seq(Event \cup {Healthy, Degraded})]
  BY EmptySeq DEF Init
<1>3. /\ subscribed \in [Kinds -> BOOLEAN] /\ inspections \in [Pids -> 0..MaxAttempts]
      /\ health \in [Kinds -> {"starting", "running", "degraded"}]
  BY DEF Init, MaxAttempts
<1>4. QED
  BY <1>1, <1>2, <1>3 DEF Init, TypeInv, TypeOK, RetriesLeft

\* Every variable of the agent, of its watchers and of the machine has its type
\* in every state.
THEOREM TypeCorrect == Spec => []TypeOK
<1>1. TypeInv => TypeOK
  BY DEF TypeInv
<1>2. QED
  BY <1>1, TypeInit, TypeStep, PTL DEF Spec

-----------------------------------------------------------------------------
(* What a pass has in hand, and the evaluation it owes.                    *)

\* An upsert of what an inspection saw leaves one instance per PID, and changes
\* nothing when that instance was the one tracked.
LEMMA UpsertedOnce ==
  ASSUME TypeOK, NEW p \in Pids, NEW observed \in Inspected(p),
         NEW instances \in SUBSET Instance, OnePerPid(instances)
  PROVE  LET tracked == Trackable(p, observed)
         IN  /\ OnePerPid(Upserted(instances, tracked))
             /\ tracked \subseteq instances => Upserted(instances, tracked) = instances
<1>1. /\ \A i \in Trackable(p, observed) : i.pid = p
      /\ \A i, j \in Trackable(p, observed) : i = j
  BY InspectedTyped
<1>2. QED
  BY <1>1 DEF OnePerPid, Upserted, PidsOf

\* A change of the registry is owed an evaluation until the pass ends with it.
LEMMA PassStep == TypeInv /\ PassInv /\ [Next]_vars => PassInv'
<1> SUFFICES ASSUME TypeOK, RetriesLeft, PassInv, [Next]_vars PROVE PassInv'
  BY DEF TypeInv
<1> USE DEF machine, messages, tracking, status, control, history
<1>1. ASSUME UNCHANGED <<registry, control, evaluated>> PROVE PassInv'
  BY <1>1 DEF PassInv, OnePerPid, PidsOf
<1>2. ASSUME NEW names \in WatchSets, Reconcile(names) PROVE PassInv'
  BY <1>2 DEF Reconcile, TakeSnapshot, SnapshotFails, PassInv, OnePerPid, PidsOf
<1>3. ASSUME NEW p \in Pids, InspectListed(p) PROVE PassInv'
  <2>1. PICK observed \in Inspected(p) :
          found' = found \cup IF observed = NoProcess THEN {[pid |-> p, birth |-> 0]}
                              ELSE Trackable(p, observed)
    BY <1>3 DEF InspectListed
  <2>2. \A i \in found' \ found : i.pid = p /\ \A j \in found' \ found : i = j
    BY <2>1, InspectedTyped
  <2>3. found \subseteq found' /\ p \in todo /\ todo' = todo \ {p}
    BY <2>1, <1>3 DEF InspectListed
  <2>4. OnePerPid(found)' /\ (PidsOf(found) \cap todo = {})'
    BY <2>2, <2>3 DEF PassInv, OnePerPid, PidsOf
  <2>5. QED
    BY <1>3, <2>4 DEF InspectListed, PassInv, OnePerPid
<1>4. ASSUME Replace PROVE PassInv'
  BY <1>4 DEF Replace, PassInv, OnePerPid, PidsOf
<1>5. ASSUME NEW due \in SUBSET Pids, TakeDue(due) PROVE PassInv'
  BY <1>5 DEF TakeDue, PassInv, OnePerPid, PidsOf
<1>6. ASSUME NEW p \in Pids, InspectDue(p) PROVE PassInv'
  <2>1. PICK observed \in Inspected(p) :
          /\ registry' = Upserted(registry, Trackable(p, observed))
          /\ changed' = (changed \/ ~(Trackable(p, observed) \subseteq registry))
    BY <1>6 DEF InspectDue
  <2>2. /\ OnePerPid(registry')
        /\ Trackable(p, observed) \subseteq registry => registry' = registry
    BY <2>1, UpsertedOnce DEF PassInv, TypeOK
  <2>3. QED
    BY <1>6, <2>1, <2>2 DEF InspectDue, PassInv, OnePerPid, PidsOf
<1>7. ASSUME NEW event \in Event, ReceiveStart(event) PROVE PassInv'
  <2>1. CASE event.name \notin watched
    BY <1>1, <1>7, <2>1 DEF ReceiveStart, Receive
  <2>2. CASE event.name \in watched
    <3>1. PICK observed \in Inspected(event.pid) :
            /\ registry' = Upserted(registry, Trackable(event.pid, observed))
            /\ changed' = ~(Trackable(event.pid, observed) \subseteq registry)
            /\ pc' = "watch"
      BY <1>7, <2>2 DEF ReceiveStart
    <3>2. /\ OnePerPid(registry')
          /\ Trackable(event.pid, observed) \subseteq registry => registry' = registry
      BY <3>1, UpsertedOnce DEF PassInv, TypeOK, Event
    <3>3. QED
      BY <1>7, <3>1, <3>2 DEF ReceiveStart, Receive, PassInv, OnePerPid, PidsOf
  <2>3. QED
    BY <2>1, <2>2
<1>8. ASSUME NEW event \in Event, ReceiveStop(event) PROVE PassInv'
  <2> DEFINE retained(observed) == Retained(event.pid, observed)
  <2>1. PICK observed \in Inspected(event.pid) :
          /\ registry' = Upserted(retained(observed), Trackable(event.pid, observed))
          /\ changed' = (retained(observed) # registry
                          \/ ~(Trackable(event.pid, observed) \subseteq retained(observed)))
    BY <1>8 DEF ReceiveStop
  <2>2. retained(observed) \in SUBSET Instance /\ OnePerPid(retained(observed))
    BY DEF Retained, PassInv, OnePerPid, TypeOK
  <2>3. /\ OnePerPid(registry')
        /\ Trackable(event.pid, observed) \subseteq retained(observed)
             => registry' = retained(observed)
    BY <2>1, <2>2, UpsertedOnce DEF Event
  <2>4. QED
    BY <1>8, <2>1, <2>3 DEF ReceiveStop, Receive, PassInv, OnePerPid, PidsOf
<1>9. ASSUME NEW i \in Instance, ReceiveExit(i) PROVE PassInv'
  BY <1>9 DEF ReceiveExit, PassInv, OnePerPid, PidsOf
<1>10. ASSUME Synchronize PROVE PassInv'
  BY <1>10 DEF Synchronize, PassInv, OnePerPid, PidsOf
<1>11. QED
  BY <1>1, <1>2, <1>3, <1>4, <1>5, <1>6, <1>7, <1>8, <1>9, <1>10
     DEF Next, Machine, Agent, ReceiveFrom, Spawn, Die, WatcherFails, WatcherSubscribes,
         ReceiveReport, Receive, vars

-----------------------------------------------------------------------------
(* Exits and watchers.                                                     *)

\* No exit signal, sent or to come, names a process that runs or will run.
LEMMA ExitStep == TypeInv /\ ExitInv /\ [Next]_vars => ExitInv'
<1> SUFFICES ASSUME TypeOK, ExitInv, [Next]_vars PROVE ExitInv'
  BY DEF TypeInv
<1> USE DEF machine, messages, tracking, status, control, history
<1>1. ASSUME UNCHANGED machine, waits' \subseteq waits, exits' \subseteq exits PROVE ExitInv'
  BY <1>1 DEF ExitInv, Alive
<1>2. ASSUME NEW p \in Pids, NEW n \in Names, Spawn(p, n) PROVE ExitInv'
  <2>1. Clock \in Nat /\ \A q \in Pids : births[q] \in Nat /\ births[q] <= Clock
    BY ClockBound, TrackingAssumption DEF TypeOK
  <2>2. /\ births' = [births EXCEPT ![p] = Clock + 1] /\ UNCHANGED <<waits, exits>>
        /\ proc' = [proc EXCEPT ![p] = [birth |-> Clock + 1, name |-> n]]
    BY <1>2 DEF Spawn
  <2>3. \A i \in waits \cup exits : i.pid \in Pids /\ i.birth \in Nat
    BY TrackingAssumption DEF TypeOK, Instance
  <2>4. ASSUME NEW i \in waits \cup exits
        PROVE  i.birth # 0 /\ i.birth <= births'[i.pid] /\ i.birth < Clock + 1
    BY <2>1, <2>2, <2>3, <2>4 DEF ExitInv, TypeOK
  <2>5. ASSUME NEW i \in exits PROVE ~Alive(i)'
    <3>1. CASE i.pid = p
      BY <2>1, <2>2, <2>3, <2>4, <3>1 DEF Alive, TypeOK
    <3>2. CASE i.pid # p
      BY <2>2, <2>3, <3>2 DEF Alive, TypeOK, ExitInv
    <3>3. QED
      BY <3>1, <3>2
  <2>6. QED
    BY <2>2, <2>4, <2>5 DEF ExitInv
<1>3. ASSUME NEW p \in Pids, Die(p) PROVE ExitInv'
  BY <1>3 DEF Die, ExitInv, Alive, TypeOK, Instance
<1>4. ASSUME Synchronize PROVE ExitInv'
  BY <1>4, TrackingAssumption DEF Synchronize, Unwaited, Openable, ExitInv, Alive, TypeOK, Instance
<1>5. QED
  BY <1>1, <1>2, <1>3, <1>4
     DEF Next, Machine, Agent, ReceiveFrom, WatcherFails, WatcherSubscribes, Reconcile,
         TakeSnapshot, SnapshotFails, InspectListed, InspectDue, Replace, TakeDue, ReceiveStart,
         ReceiveStop, ReceiveReport, ReceiveExit, Receive, vars

\* A report is added only where there is none, so none follows the one received.
LEMMA OneReportKept ==
  ASSUME NEW S, NEW s \in Seq(S), OneReport(s)
  PROVE  /\ \A e \in S : ~IsReport(e) \/ Elements(s) \cap {Healthy, Degraded} = {}
                           => OneReport(Append(s, e))
         /\ s # << >> => /\ OneReport(Tail(s))
                         /\ IsReport(Head(s)) =>
                              Elements(Tail(s)) \cap {Healthy, Degraded} = {}
<1>1. ASSUME NEW e \in S, ~IsReport(e) \/ Elements(s) \cap {Healthy, Degraded} = {}
      PROVE  OneReport(Append(s, e))
  <2> DEFINE t == Append(s, e)
  <2>1. /\ Len(s) \in Nat /\ DOMAIN s = 1..Len(s) /\ DOMAIN t = 1..(Len(s) + 1)
        /\ t[Len(s) + 1] = e /\ \A n \in 1..Len(s) : t[n] = s[n]
    OBVIOUS
  <2>2. ~IsReport(e) \/ \A n \in 1..Len(s) : ~IsReport(s[n])
    BY <1>1, <2>1 DEF Elements, IsReport
  <2> HIDE DEF t
  <2>3. OneReport(t)
    BY <2>1, <2>2 DEF OneReport
  <2>4. QED
    BY <2>3 DEF t
<1>2. ASSUME s # << >>
      PROVE  /\ OneReport(Tail(s))
             /\ IsReport(Head(s)) => Elements(Tail(s)) \cap {Healthy, Degraded} = {}
  <2> DEFINE t == Tail(s)
  <2>1. /\ Len(s) \in Nat \ {0} /\ DOMAIN s = 1..Len(s) /\ DOMAIN t = 1..(Len(s) - 1)
        /\ s[1] = Head(s) /\ \A n \in 1..(Len(s) - 1) : t[n] = s[n + 1]
    BY <1>2, HeadTailProperties, EmptySeq
  <2> HIDE DEF t
  <2>2. \A n \in DOMAIN t : t[n] = s[n + 1] /\ n + 1 \in DOMAIN s /\ n \in Nat \ {0}
    BY <2>1
  <2>3. OneReport(t)
    BY <2>2 DEF OneReport
  <2>4. IsReport(Head(s)) => \A n \in DOMAIN t : ~IsReport(t[n])
    <3>1. 1 \in DOMAIN s
      BY <2>1
    <3>2. ASSUME IsReport(Head(s)), NEW n \in DOMAIN t, IsReport(t[n]) PROVE FALSE
      <4>1. 1 = n + 1
        BY <2>1, <2>2, <3>1, <3>2 DEF OneReport
      <4>2. QED
        BY <4>1, <2>2
    <3>3. QED
      BY <3>2
  <2>5. QED
    BY <2>3, <2>4 DEF t, Elements, IsReport
<1>3. QED
  BY <1>1, <1>2

\* A watcher that was last reported healthy delivers, and so does one whose report
\* of health is on its way.
LEMMA WatcherStep == TypeInv /\ WatcherInv /\ [Next]_vars => WatcherInv'
<1> SUFFICES ASSUME TypeOK, WatcherInv, [Next]_vars PROVE WatcherInv'
  BY DEF TypeInv
<1> USE DEF machine, messages, tracking, status, control, history
<1>1. ASSUME UNCHANGED <<subscribed, queue, health>> PROVE WatcherInv'
  BY <1>1 DEF WatcherInv, OneReport, NoReportQueued, Messages
<1>2. ASSUME NEW k \in Kinds, NEW m \in Event \cup {Healthy, Degraded},
             queue' = [queue EXCEPT ![k] = Append(@, m)],
             ~IsReport(m) \/ NoReportQueued(k),
             m = Healthy => subscribed'[k], m = Degraded => ~subscribed'[k],
             ~IsReport(m) => subscribed'[k] = subscribed[k],
             \A j \in Kinds \ {k} : subscribed'[j] = subscribed[j], UNCHANGED health
      PROVE  WatcherInv'
  <2>1. /\ Messages(k)' = Messages(k) \cup {m}
        /\ \A j \in Kinds \ {k} : Messages(j)' = Messages(j) /\ queue'[j] = queue[j]
        /\ queue'[k] = Append(queue[k], m)
    BY <1>2, Posted
  <2>2. OneReport(queue'[k])
    <3> DEFINE S == Event \cup {Healthy, Degraded}
    <3>1. queue[k] \in Seq(S) /\ m \in S /\ OneReport(queue[k])
      BY DEF TypeOK, WatcherInv
    <3>2. ~IsReport(m) \/ Elements(queue[k]) \cap {Healthy, Degraded} = {}
      BY <1>2 DEF NoReportQueued, Messages, Elements
    <3> HIDE DEF S
    <3>3. OneReport(Append(queue[k], m))
      BY <3>1, <3>2, OneReportKept
    <3>4. QED
      BY <3>3, <2>1
  <2>3. /\ (Healthy \in Messages(k) => subscribed[k])'
        /\ (NoReportQueued(k) /\ health[k] = "running" => subscribed[k])'
    BY <1>2, <2>1, TrackingAssumption DEF WatcherInv, IsReport, NoReportQueued
  <2>4. QED
    BY <1>2, <2>1, <2>2, <2>3 DEF WatcherInv, NoReportQueued
<1>3. ASSUME NEW k \in Kinds, NEW event \in Event, Raise(k, event),
             UNCHANGED <<subscribed, health>>
      PROVE  WatcherInv'
  <2>1. ~IsReport(event)
    BY TrackingAssumption DEF IsReport
  <2>2. QED
    BY <1>1, <1>2, <1>3, <2>1 DEF Raise, IsReport
<1>4. ASSUME NEW k \in Kinds, NEW m, Receive(k, m),
             \A j \in Kinds \ {k} : health'[j] = health[j],
             IsReport(m) => health'[k] = (IF m = Healthy THEN "running" ELSE "degraded"),
             ~IsReport(m) => health'[k] = health[k]
      PROVE  WatcherInv'
  <2>1. /\ Messages(k) = Messages(k)' \cup {m} /\ UNCHANGED subscribed
        /\ \A j \in Kinds \ {k} : Messages(j)' = Messages(j) /\ queue'[j] = queue[j]
        /\ queue[k] # << >> /\ m = Head(queue[k]) /\ queue'[k] = Tail(queue[k])
    BY <1>4, Taken DEF Receive
  <2>2. OneReport(queue'[k]) /\ (IsReport(m) => NoReportQueued(k)')
    <3> DEFINE S == Event \cup {Healthy, Degraded}
    <3>1. queue[k] \in Seq(S) /\ OneReport(queue[k])
      BY DEF TypeOK, WatcherInv
    <3> HIDE DEF S
    <3>2. /\ OneReport(Tail(queue[k]))
          /\ IsReport(m) => Elements(Tail(queue[k])) \cap {Healthy, Degraded} = {}
      BY <2>1, <3>1, OneReportKept
    <3>3. QED
      BY <3>2, <2>1 DEF NoReportQueued, Messages, Elements
  <2>3. /\ (Healthy \in Messages(k) => subscribed[k])'
        /\ (NoReportQueued(k) /\ health[k] = "running" => subscribed[k])'
    BY <1>4, <2>1, <2>2 DEF WatcherInv, IsReport, NoReportQueued
  <2>4. QED
    BY <1>4, <2>1, <2>2, <2>3 DEF WatcherInv, NoReportQueued
<1>5. ASSUME NEW p \in Pids, NEW n \in Names, Spawn(p, n) PROVE WatcherInv'
  BY <1>3, <1>5 DEF Spawn, Event, Kinds
<1>6. ASSUME NEW p \in Pids, Die(p) PROVE WatcherInv'
  BY <1>3, <1>6 DEF Die, Event, Kinds, TypeOK, Process
<1>7. ASSUME NEW k \in Kinds, WatcherFails(k) \/ WatcherSubscribes(k) PROVE WatcherInv'
  <2>1. CASE WatcherFails(k)
    BY <1>2, <2>1, TrackingAssumption DEF WatcherFails, IsReport, TypeOK
  <2>2. CASE WatcherSubscribes(k)
    BY <1>2, <2>2, TrackingAssumption DEF WatcherSubscribes, IsReport, TypeOK
  <2>3. QED
    BY <1>7, <2>1, <2>2
<1>8. ASSUME NEW k \in Kinds, NEW m \in {Healthy, Degraded}, ReceiveReport(k, m)
      PROVE  WatcherInv'
  BY <1>4, <1>8 DEF ReceiveReport, IsReport, TypeOK
<1>9. ASSUME NEW event \in Event, ReceiveStart(event) \/ ReceiveStop(event) PROVE WatcherInv'
  BY <1>4, <1>9, TrackingAssumption DEF ReceiveStart, ReceiveStop, IsReport, Kinds
<1>10. QED
  BY <1>1, <1>5, <1>6, <1>7, <1>8, <1>9
     DEF Next, Machine, Agent, ReceiveFrom, Reconcile, TakeSnapshot, SnapshotFails,
         InspectListed, InspectDue, Replace, TakeDue, ReceiveExit, Synchronize, vars

-----------------------------------------------------------------------------
(* Ghosts.                                                                 *)

\* Only a scan makes a subscription cover what it did not cover.
LEMMA CoverKept ==
  ASSUME NEW k \in Kinds, health'[k] = health[k], scanDue' = scanDue,
         Messages(k) \cap {Healthy, Degraded} \subseteq Messages(k)'
  PROVE  ~Covered(k) => ~Covered(k)'
BY DEF Covered, NoReportQueued

\* The steps that take from the agent nothing it was to hear of the instance.
QuietFor(i) ==
  \/ Machine \/ Replace \/ Synchronize
  \/ \E k \in Kinds :
       WatcherSubscribes(k) \/ \E m \in {Healthy, Degraded} : ReceiveReport(k, m)
  \/ \E p \in Pids : InspectListed(p) \/ InspectDue(p)
  \/ \E due \in SUBSET Pids : TakeDue(due)
  \/ \E event \in Event : ReceiveStart(event) \/ (event.pid # i.pid /\ ReceiveStop(event))
  \/ \E j \in Instance \ {i} : ReceiveExit(j)

\* A process that dies is heard of; what is heard of an instance stays so until the
\* agent scans, or receives the stop of its PID or its exit.
LEMMA AccountedKept ==
  ASSUME TypeOK, WatcherInv, NEW i \in Instance, Accounted(i), QuietFor(i)
  PROVE  Accounted(i)'
<1> USE DEF machine, messages, tracking, status, control, history
<1>0. "stops" \in Kinds /\ "starts" \in Kinds /\ "starts" # "stops" /\ i.pid \in Pids
  BY DEF Kinds, Instance
<1>1. ASSUME UNCHANGED <<machine, watched, health, scanDue>>, exits \subseteq exits',
             Messages("stops") \subseteq Messages("stops")'
      PROVE  Accounted(i)'
  <2>1. ~Covered("stops") => ~Covered("stops")'
    BY <1>0, <1>1, CoverKept
  <2>2. QED
    BY <1>1, <2>1 DEF Accounted, Ghost, Alive, Told, EventQueued
<1>2. ASSUME NEW p \in Pids, NEW n \in Names, Spawn(p, n) PROVE Accounted(i)'
  <2>1. Messages("stops")' = Messages("stops")
    BY <1>0, <1>2, Raised DEF Spawn, Event
  <2>2. ~Covered("stops") => ~Covered("stops")'
    BY <1>0, <1>2, <2>1, CoverKept DEF Spawn
  <2>3. Told(i) => Told(i)'
    BY <1>2, <2>1, <2>2 DEF Told, EventQueued, Spawn
  <2>4. Ghost(i)' => Ghost(i)
    BY <1>0, <1>2 DEF Spawn, Ghost, Alive, TypeOK
  <2>5. QED
    BY <2>3, <2>4 DEF Accounted
<1>3. ASSUME NEW p \in Pids, Die(p) PROVE Accounted(i)'
  <2> DEFINE event == [pid |-> p, name |-> proc[p].name]
  <2>1. event \in Event /\ proc[p].name \in Names
    BY <1>3 DEF Die, TypeOK, Process, Event
  <2>2. /\ subscribed["stops"] => Messages("stops")' = Messages("stops") \cup {event}
        /\ ~subscribed["stops"] => Messages("stops")' = Messages("stops")
    BY <1>0, <1>3, <2>1, Raised DEF Die
  <2>3. ~Covered("stops") => ~Covered("stops")'
    BY <1>0, <1>3, <2>2, CoverKept DEF Die
  <2>4. Told(i) => Told(i)'
    BY <1>3, <2>2, <2>3 DEF Told, EventQueued, Die
  <2>5. CASE i.pid = p
    <3>1. CASE subscribed["stops"]
      BY <2>1, <2>2, <2>5, <3>1 DEF Accounted, Told, EventQueued
    <3>2. CASE ~subscribed["stops"]
      <4>1. ~Covered("stops")
        BY <1>0, <3>2 DEF WatcherInv, Covered
      <4>2. QED
        BY <2>3, <4>1 DEF Accounted, Told
    <3>3. QED
      BY <3>1, <3>2
  <2>6. CASE i.pid # p
    <3>1. Ghost(i)' = Ghost(i)
      BY <1>0, <1>3, <2>6 DEF Die, Ghost, Alive, TypeOK
    <3>2. QED
      BY <3>1, <2>4 DEF Accounted
  <2>7. QED
    BY <2>5, <2>6
<1>4. ASSUME NEW k \in Kinds, WatcherFails(k) \/ WatcherSubscribes(k) PROVE Accounted(i)'
  <2>1. PICK m \in {Healthy, Degraded} : queue' = [queue EXCEPT ![k] = Append(@, m)]
    BY <1>4 DEF WatcherFails, WatcherSubscribes
  <2>2. Messages("stops") \subseteq Messages("stops")'
    BY <1>0, <2>1, Posted, ZenonT(60)
  <2>3. QED
    BY <1>1, <1>4, <2>2 DEF WatcherFails, WatcherSubscribes
<1>5. ASSUME NEW event \in Event, ReceiveStart(event) PROVE Accounted(i)'
  <2>1. Messages("stops")' = Messages("stops")
    BY <1>0, <1>5, Taken DEF ReceiveStart
  <2>2. QED
    BY <1>1, <1>5, <2>1 DEF ReceiveStart, Receive
<1>6. ASSUME NEW event \in Event, event.pid # i.pid, ReceiveStop(event) PROVE Accounted(i)'
  <2>1. event.pid # i.pid
    BY <1>6
  <2>2. Messages("stops") = Messages("stops")' \cup {event}
    BY <1>0, <1>6, Taken DEF ReceiveStop
  <2>3. Messages("stops") \cap {Healthy, Degraded} \subseteq Messages("stops")'
    BY <2>2, TrackingAssumption
  <2>4. ~Covered("stops") => ~Covered("stops")'
    BY <1>0, <1>6, <2>3, CoverKept DEF ReceiveStop, Receive
  <2>5. EventQueued("stops", i.pid) => EventQueued("stops", i.pid)'
    BY <2>1, <2>2 DEF EventQueued
  <2>6. QED
    BY <1>6, <2>4, <2>5 DEF ReceiveStop, Receive, Accounted, Ghost, Alive, Told
<1>7. ASSUME NEW k \in Kinds, NEW m \in {Healthy, Degraded}, ReceiveReport(k, m)
      PROVE  Accounted(i)'
  BY <1>7 DEF ReceiveReport, Accounted, Told, Covered
<1>8. ASSUME NEW j \in Instance \ {i}, ReceiveExit(j) PROVE Accounted(i)'
  <2>1. i # j
    BY <1>8
  <2>2. ~Covered("stops") => ~Covered("stops")'
    BY <1>0, <1>8, CoverKept DEF ReceiveExit, Messages
  <2>3. QED
    BY <1>8, <2>1, <2>2
       DEF ReceiveExit, Accounted, Ghost, Alive, Told, EventQueued, Messages
<1>9. ASSUME UNCHANGED <<machine, watched, health, scanDue, queue>>, exits \subseteq exits'
      PROVE  Accounted(i)'
  BY <1>1, <1>9 DEF Messages
<1>10. ASSUME NEW p \in Pids, InspectListed(p) \/ InspectDue(p) PROVE Accounted(i)'
  BY <1>9, <1>10 DEF InspectListed, InspectDue
<1>11. ASSUME Replace \/ Synchronize \/ \E due \in SUBSET Pids : TakeDue(due)
       PROVE  Accounted(i)'
  BY <1>9, <1>11 DEF Replace, Synchronize, TakeDue
<1>12. QED
  BY <1>2, <1>3, <1>4, <1>5, <1>6, <1>7, <1>8, <1>10, <1>11 DEF QuietFor, Machine

\* What an inspection saw is no ghost when the registry takes it.
LEMMA InspectedAccounted ==
  ASSUME TypeOK, UNCHANGED machine, NEW p \in Pids, NEW observed \in Inspected(p),
         NEW i \in Trackable(p, observed)
  PROVE  Accounted(i)'
<1>1. i.birth # 0 /\ Alive(i)
  BY InspectedTyped
<1>2. QED
  BY <1>1 DEF Accounted, Ghost, Alive, machine

\* Whatever a snapshot has seen, an inspection has found or a handler has kept is
\* a process that runs, or one whose death the agent will hear of.
LEMMA GhostStep == TypeInv /\ PassInv /\ WatcherInv /\ GhostInv /\ [Next]_vars => GhostInv'
<1> SUFFICES ASSUME TypeOK, RetriesLeft, PassInv, WatcherInv, GhostInv, [Next]_vars
             PROVE  GhostInv'
  BY DEF TypeInv
<1> USE DEF machine, messages, tracking, status, control, history
<1>0. registry \subseteq Instance /\ Prospects \subseteq Instance
  BY TrackingAssumption DEF TypeOK, Prospects, Instance
<1>1. ASSUME UNCHANGED vars PROVE GhostInv'
  BY <1>1 DEF vars, GhostInv, Accounted, Ghost, Alive, Told, EventQueued, Covered,
              NoReportQueued, Messages, Prospects
<1>2. ASSUME UNCHANGED <<registry, missed, found, todo, pc>>, \A i \in Instance : QuietFor(i)
      PROVE  GhostInv'
  <2>1. ASSUME NEW i \in Instance, Accounted(i) PROVE Accounted(i)'
    BY <1>2, <2>1, AccountedKept
  <2>2. QED
    BY <1>0, <1>2, <2>1 DEF GhostInv, Prospects
<1>3. ASSUME NEW names \in WatchSets, Reconcile(names) PROVE GhostInv'
  <2>1. CASE SnapshotFails
    BY <1>3, <2>1 DEF Reconcile, SnapshotFails, GhostInv
  <2>2. CASE TakeSnapshot(names)
    <3>1. found' = {} /\ pc' = "list"
      BY <1>3, <2>2 DEF Reconcile, TakeSnapshot, PassInv
    <3>2. \A p \in todo' : proc'[p] # NoProcess /\ proc'[p].name \in watched'
      BY <1>3, <2>2 DEF Reconcile, TakeSnapshot
    <3>3. \A p \in todo' : ~Ghost([pid |-> p, birth |-> 0])'
      BY <3>2 DEF Ghost
    <3>4. QED
      BY <3>1, <3>3 DEF GhostInv, Prospects, Accounted
  <2>3. QED
    BY <1>3, <2>1, <2>2 DEF Reconcile
<1>4. ASSUME NEW p \in Pids, InspectListed(p) PROVE GhostInv'
  <2>1. PICK observed \in Inspected(p) :
          found' = found \cup IF observed = NoProcess THEN {[pid |-> p, birth |-> 0]}
                              ELSE Trackable(p, observed)
    BY <1>4 DEF InspectListed
  <2>2. Prospects' \subseteq Prospects \cup Trackable(p, observed)
    BY <1>4, <2>1 DEF InspectListed, Prospects
  <2>3. UNCHANGED <<machine, messages, tracking, status>> /\ pc' = "list" /\ pc = "list"
    BY <1>4 DEF InspectListed
  <2>4. ASSUME NEW i \in Prospects PROVE Accounted(i)'
    BY <2>3 DEF GhostInv, Accounted, Ghost, Alive, Told, EventQueued, Covered,
                NoReportQueued, Messages
  <2>5. \A i \in Trackable(p, observed) : Accounted(i)'
    BY <2>3, InspectedAccounted
  <2>6. QED
    BY <2>2, <2>3, <2>4, <2>5 DEF GhostInv
<1>5. ASSUME Replace PROVE GhostInv'
  <2>1. registry' = found /\ pc = "list" /\ pc' = "watch"
        /\ UNCHANGED <<machine, messages, watched, status>>
    BY <1>5 DEF Replace
  <2>2. \A i \in found : Accounted(i)
    BY <2>1 DEF GhostInv, Prospects
  <2>3. QED
    BY <2>1, <2>2 DEF GhostInv, Accounted, Ghost, Alive, Told, EventQueued, Covered,
                      NoReportQueued, Messages
<1>6. ASSUME pc # "list", pc' # "list", missed \subseteq missed',
             \A i \in registry' : (i \in registry /\ QuietFor(i)) \/ Accounted(i)'
      PROVE  GhostInv'
  <2>1. ASSUME "snapshot" \notin missed', NEW i \in registry' PROVE Accounted(i)'
    <3>1. ASSUME i \in registry, QuietFor(i) PROVE Accounted(i)'
      <4>1. i \in Instance /\ Accounted(i)
        BY <1>0, <1>6, <2>1, <3>1 DEF GhostInv
      <4>2. QED
        BY <3>1, <4>1, AccountedKept
    <3>2. QED
      BY <1>6, <2>1, <3>1
  <2>2. QED
    BY <1>6, <2>1 DEF GhostInv
<1>7. ASSUME UNCHANGED machine, NEW p \in Pids, NEW observed \in Inspected(p),
             NEW instances, registry' = Upserted(instances, Trackable(p, observed))
      PROVE  \A i \in registry' : i \in instances \/ Accounted(i)'
  BY <1>7, InspectedAccounted DEF Upserted
<1>8. ASSUME NEW due \in SUBSET Pids, TakeDue(due) PROVE GhostInv'
  BY <1>6, <1>8 DEF TakeDue, QuietFor
<1>9. ASSUME NEW p \in Pids, InspectDue(p) PROVE GhostInv'
  <2>1. \A i \in registry' : i \in registry \/ Accounted(i)'
    BY <1>7, <1>9 DEF InspectDue
  <2>2. pc = "inspect" /\ pc' # "list" /\ missed \subseteq missed'
    BY <1>9 DEF InspectDue
  <2>3. QED
    BY <1>6, <1>9, <2>1, <2>2 DEF QuietFor
<1>10. ASSUME NEW event \in Event, ReceiveStart(event) PROVE GhostInv'
  <2>1. \A i \in registry' : i \in registry \/ Accounted(i)'
    BY <1>7, <1>10 DEF ReceiveStart, Receive, Event
  <2>2. pc = "idle" /\ pc' # "list" /\ UNCHANGED missed
    BY <1>10 DEF ReceiveStart, Receive
  <2>3. QED
    BY <1>6, <1>10, <2>1, <2>2 DEF QuietFor
<1>11. ASSUME NEW event \in Event, ReceiveStop(event) PROVE GhostInv'
  <2>1. PICK observed \in Inspected(event.pid) :
          registry' = Upserted(Retained(event.pid, observed), Trackable(event.pid, observed))
    BY <1>11 DEF ReceiveStop
  <2>2. UNCHANGED machine /\ event.pid \in Pids
    BY <1>11 DEF ReceiveStop, Receive, Event
  <2>3. \A i \in registry' : i \in Retained(event.pid, observed) \/ Accounted(i)'
    BY <1>7, <2>1, <2>2
  <2>4. ASSUME NEW i \in Retained(event.pid, observed), i.pid = event.pid
        PROVE  Accounted(i)'
    <3>1. observed = proc[i.pid] /\ observed \in Process /\ i.birth = observed.birth
      BY <2>2, <2>4, InspectedTyped DEF Retained
    <3>2. i.birth # 0 /\ Alive(i)
      BY <2>2, <3>1, TrackingAssumption DEF Process, Alive
    <3>3. QED
      BY <2>2, <3>2 DEF Accounted, Ghost, Alive
  <2>5. \A i \in Retained(event.pid, observed) : i \in registry
    BY DEF Retained
  <2>6. pc = "idle" /\ pc' = "watch" /\ missed \subseteq missed'
    BY <1>11 DEF ReceiveStop, Receive
  <2>7. QED
    BY <1>6, <1>11, <2>3, <2>4, <2>5, <2>6 DEF QuietFor
<1>12. ASSUME NEW j \in Instance, ReceiveExit(j) PROVE GhostInv'
  <2>1. \A i \in registry' : i \in registry /\ j \in Instance \ {i}
    BY <1>12 DEF ReceiveExit
  <2>2. pc = "idle" /\ pc' # "list" /\ UNCHANGED missed
    BY <1>12 DEF ReceiveExit
  <2>3. QED
    BY <1>6, <1>12, <2>1, <2>2 DEF QuietFor
<1>13. ASSUME Synchronize PROVE GhostInv'
  BY <1>6, <1>13 DEF Synchronize, QuietFor
<1>14. ASSUME Machine \/ \E k \in Kinds : WatcherSubscribes(k) PROVE GhostInv'
  <2>1. UNCHANGED <<registry, missed, found, todo, pc>>
    BY <1>14 DEF Machine, Spawn, Die, WatcherFails, WatcherSubscribes
  <2>2. QED
    BY <1>2, <1>14, <2>1 DEF QuietFor
<1>15. ASSUME NEW k \in Kinds, NEW m \in {Healthy, Degraded}, ReceiveReport(k, m)
       PROVE  GhostInv'
  <2>1. UNCHANGED <<registry, missed, found, todo, pc>>
    BY <1>15 DEF ReceiveReport
  <2>2. QED
    BY <1>2, <1>15, <2>1 DEF QuietFor
<1>16. QED
  BY <1>1, <1>3, <1>4, <1>5, <1>8, <1>9, <1>10, <1>11, <1>12, <1>13, <1>14, <1>15
     DEF Next, Agent, ReceiveFrom

-----------------------------------------------------------------------------
(* Lost processes.                                                         *)

\* The steps that take from the agent nothing that leads it to the process of p.
QuietOf(p) ==
  \/ Machine \/ Replace \/ Synchronize
  \/ \E k \in Kinds :
       WatcherSubscribes(k) \/ \E m \in {Healthy, Degraded} : ReceiveReport(k, m)
  \/ \E q \in Pids : InspectListed(q) \/ (q # p /\ InspectDue(q))
  \/ \E due \in SUBSET Pids : TakeDue(due)
  \/ \E event \in Event : \/ event.pid # p /\ (ReceiveStart(event) \/ ReceiveStop(event))
                          \/ event.name \notin watched /\ ReceiveStart(event)
  \/ \E j \in Instance : ReceiveExit(j)

\* A process that is born is heard of, and what leads to it stays until it is used.
LEMMA TracedKept ==
  ASSUME TypeOK, WatcherInv, NEW p \in Pids, NEW instances, Traced(p, instances), QuietOf(p)
  PROVE  Traced(p, instances)'
<1> USE DEF machine, messages, tracking, status, control, history
<1>0. "stops" \in Kinds /\ "starts" \in Kinds /\ "starts" # "stops"
  BY DEF Kinds
<1>1. ASSUME UNCHANGED <<watched, health, scanDue>>, proc'[p] = proc[p],
             inspections'[p] = inspections[p], Messages("starts") \subseteq Messages("starts")'
      PROVE  Traced(p, instances)'
  <2>1. ~Covered("starts") => ~Covered("starts")'
    BY <1>0, <1>1, CoverKept
  <2>2. QED
    BY <1>1, <2>1 DEF Traced, Wanted, Known
<1>2. ASSUME NEW q \in Pids, NEW n \in Names, Spawn(q, n) PROVE Traced(p, instances)'
  <2> DEFINE event == [pid |-> q, name |-> n]
  <2>1. /\ subscribed["starts"] => Messages("starts")' = Messages("starts") \cup {event}
        /\ ~subscribed["starts"] => Messages("starts")' = Messages("starts")
    BY <1>0, <1>2, Raised DEF Spawn, Event
  <2>2. CASE q = p
    <3>1. proc'[p].name = n
      BY <1>2, <2>2 DEF Spawn, TypeOK
    <3>2. CASE subscribed["starts"]
      BY <2>1, <2>2, <3>1, <3>2 DEF Traced, Known
    <3>3. CASE ~subscribed["starts"]
      <4>1. ~Covered("starts")
        BY <1>0, <3>3 DEF WatcherInv, Covered
      <4>2. ~Covered("starts")'
        BY <1>0, <1>2, <2>1, <3>3, <4>1, CoverKept DEF Spawn
      <4>3. QED
        BY <4>2 DEF Traced, Known
    <3>4. QED
      BY <3>2, <3>3
  <2>3. CASE q # p
    BY <1>1, <1>2, <2>1, <2>3 DEF Spawn, TypeOK
  <2>4. QED
    BY <2>2, <2>3
<1>3. ASSUME NEW q \in Pids, Die(q) PROVE Traced(p, instances)'
  <2>1. Messages("starts")' = Messages("starts")
    BY <1>0, <1>3, Raised DEF Die, TypeOK, Process, Event
  <2>2. CASE q = p
    BY <1>3, <2>2 DEF Die, TypeOK, Traced, Wanted
  <2>3. CASE q # p
    BY <1>1, <1>3, <2>1, <2>3 DEF Die, TypeOK
  <2>4. QED
    BY <2>2, <2>3
<1>4. ASSUME NEW k \in Kinds, WatcherFails(k) \/ WatcherSubscribes(k)
      PROVE  Traced(p, instances)'
  <2>1. PICK m \in {Healthy, Degraded} : queue' = [queue EXCEPT ![k] = Append(@, m)]
    BY <1>4 DEF WatcherFails, WatcherSubscribes
  <2>2. Messages("starts") \subseteq Messages("starts")'
    BY <1>0, <2>1, Posted, ZenonT(60)
  <2>3. QED
    BY <1>1, <1>4, <2>2 DEF WatcherFails, WatcherSubscribes
<1>5. ASSUME NEW event \in Event, ReceiveStart(event),
             event.pid # p \/ event.name \notin watched
      PROVE  Traced(p, instances)'
  <2>1. Messages("starts") = Messages("starts")' \cup {event}
    BY <1>0, <1>5, Taken DEF ReceiveStart
  <2>2. Messages("starts") \cap {Healthy, Degraded} \subseteq Messages("starts")'
    BY <2>1, TrackingAssumption
  <2>3. ~Covered("starts") => ~Covered("starts")'
    BY <1>0, <1>5, <2>2, CoverKept DEF ReceiveStart, Receive
  <2>4. UNCHANGED <<machine, watched>> /\ inspections'[p] = inspections[p]
    BY <1>5 DEF ReceiveStart, Receive, TypeOK
  <2>5. Wanted(p) => event # [pid |-> p, name |-> proc[p].name]
    BY <1>5 DEF Wanted
  <2>6. QED
    BY <2>1, <2>3, <2>4, <2>5 DEF Traced, Wanted, Known
<1>6. ASSUME NEW event \in Event, event.pid # p, ReceiveStop(event)
      PROVE  Traced(p, instances)'
  <2>1. Messages("starts")' = Messages("starts")
    BY <1>0, <1>6, Taken DEF ReceiveStop
  <2>2. UNCHANGED <<machine, watched, status>> /\ inspections'[p] = inspections[p]
    BY <1>6 DEF ReceiveStop, Receive, TypeOK
  <2>3. QED
    BY <1>1, <2>1, <2>2
<1>7. ASSUME NEW k \in Kinds, NEW m \in {Healthy, Degraded}, ReceiveReport(k, m)
      PROVE  Traced(p, instances)'
  <2>1. ~Covered("starts")'
    BY <1>7 DEF ReceiveReport, Covered
  <2>2. QED
    BY <2>1 DEF Traced, Known
<1>8. ASSUME UNCHANGED <<proc, watched, health, scanDue, queue>>,
             inspections'[p] = inspections[p]
      PROVE  Traced(p, instances)'
  BY <1>1, <1>8 DEF Messages
<1>9. ASSUME NEW q \in Pids, InspectListed(q) \/ (q # p /\ InspectDue(q))
      PROVE  Traced(p, instances)'
  BY <1>8, <1>9 DEF InspectListed, InspectDue, TypeOK
<1>10. ASSUME Replace \/ Synchronize \/ (\E due \in SUBSET Pids : TakeDue(due))
                \/ \E j \in Instance : ReceiveExit(j)
       PROVE  Traced(p, instances)'
  BY <1>8, <1>10 DEF Replace, Synchronize, TakeDue, ReceiveExit
<1>11. QED
  BY <1>2, <1>3, <1>4, <1>5, <1>6, <1>7, <1>9, <1>10 DEF QuietOf, Machine

\* What is traced among some instances is traced among those the agent keeps.
LEMMA TracedAmong ==
  ASSUME NEW p \in Pids, NEW before, NEW after, Traced(p, before)',
         \A i \in before : i.pid = p => i \in after
  PROVE  Traced(p, after)'
BY DEF Traced, Known

\* A tracked instance of p that is no other process traces it.
LEMMA TracedByInstance ==
  ASSUME NEW p \in Pids, NEW instances,
         Wanted(p)' => \E i \in instances : i.pid = p /\ i.birth \in {0, proc'[p].birth}
  PROVE  Traced(p, instances)'
BY DEF Traced, Known

\* An inspection that answers for p, and finds a process that is wanted, traces it.
LEMMA TracedByInspection ==
  ASSUME TypeOK, UNCHANGED <<proc, watched>>, NEW p \in Pids, NEW observed \in Inspected(p),
         observed = proc[p], NEW instances, Trackable(p, observed) \subseteq instances
  PROVE  Traced(p, instances)'
<1>1. ASSUME Wanted(p)' PROVE [pid |-> p, birth |-> proc'[p].birth] \in instances
  BY <1>1, InspectedTyped DEF Wanted
<1>2. QED
  BY <1>1, TracedByInstance

\* Between two scans the agent loses no process but by failures it remembers, and
\* a scan finds the processes it had lost.
LEMMA LostStep ==
  TypeInv /\ PassInv /\ ExitInv /\ WatcherInv /\ LostInv /\ [Next]_vars => LostInv'
<1> SUFFICES ASSUME TypeOK, RetriesLeft, PassInv, ExitInv, WatcherInv, LostInv, [Next]_vars
             PROVE  LostInv'
  BY DEF TypeInv
<1> USE DEF machine, messages, tracking, status, control, history
<1>1. ASSUME UNCHANGED vars PROVE LostInv'
  BY <1>1 DEF vars, LostInv, Traced, Wanted, Known, Covered, NoReportQueued, Messages, Prospects
<1>2. ASSUME UNCHANGED <<registry, missed>>, \A p \in Pids : QuietOf(p),
             pc' = "list" => pc = "list" /\ UNCHANGED <<found, todo>>,
             pc = "list" => pc' = "list"
      PROVE  LostInv'
  <2>1. PICK R, F : R = registry /\ F = Prospects
    OBVIOUS
  <2>2. R = registry' /\ (pc' = "list" => F = Prospects')
    BY <1>2, <2>1 DEF Prospects
  <2>3. \A p \in Pids : Traced(p, R) => Traced(p, R)'
    BY <1>2, TracedKept
  <2>4. \A p \in Pids : Traced(p, F) => Traced(p, F)'
    BY <1>2, TracedKept
  <2>5. pc' # "list" /\ missed' = {} => \A p \in Pids : Traced(p, R)'
    BY <1>2, <2>1, <2>3 DEF LostInv
  <2>6. pc' = "list" => \A p \in Pids : Traced(p, F)'
    BY <1>2, <2>1, <2>4 DEF LostInv
  <2>7. QED
    BY <2>2, <2>5, <2>6 DEF LostInv, Traced, Known
<1>3. ASSUME NEW names \in WatchSets, Reconcile(names) PROVE LostInv'
  <2>1. CASE SnapshotFails
    BY <1>3, <2>1 DEF Reconcile, SnapshotFails, LostInv
  <2>2. CASE TakeSnapshot(names)
    <3>1. pc' = "list" /\ \A p \in Pids : Wanted(p)' => p \in todo'
      BY <1>3, <2>2 DEF Reconcile, TakeSnapshot, Wanted
    <3>2. \A p \in Pids : Wanted(p)' => [pid |-> p, birth |-> 0] \in Prospects'
      BY <3>1 DEF Prospects
    <3>3. QED
      BY <3>1, <3>2 DEF LostInv, Traced, Known
  <2>3. QED
    BY <1>3, <2>1, <2>2 DEF Reconcile
<1>4. ASSUME NEW q \in Pids, InspectListed(q) PROVE LostInv'
  <2>1. PICK observed \in Inspected(q) :
          found' = found \cup IF observed = NoProcess THEN {[pid |-> q, birth |-> 0]}
                              ELSE Trackable(q, observed)
    BY <1>4 DEF InspectListed
  <2>2. PICK before, after : before = Prospects /\ after = Prospects'
    OBVIOUS
  <2>3. /\ pc = "list" /\ pc' = "list" /\ UNCHANGED <<proc, watched>>
        /\ found' \subseteq after /\ \A i \in before : i.pid # q => i \in after
    BY <1>4, <2>1, <2>2 DEF InspectListed, Prospects
  <2>4. ASSUME NEW p \in Pids, p # q PROVE Traced(p, after)'
    <3>1. Traced(p, before)
      BY <2>2, <2>3 DEF LostInv
    <3>2. Traced(p, before)'
      BY <1>4, <3>1, TracedKept DEF QuietOf
    <3>3. QED
      BY <2>3, <2>4, <3>2, TracedAmong
  <2>5. Traced(q, after)'
    <3>1. CASE observed = NoProcess
      <4>1. [pid |-> q, birth |-> 0] \in after
        BY <2>1, <2>3, <3>1
      <4>2. QED
        BY <4>1, TracedByInstance
    <3>2. CASE observed # NoProcess
      <4>1. observed = proc[q] /\ Trackable(q, observed) \subseteq after
        BY <2>1, <2>3, <3>2, InspectedTyped
      <4>2. QED
        BY <2>3, <4>1, TracedByInspection
    <3>3. QED
      BY <3>1, <3>2
  <2>6. QED
    BY <2>2, <2>3, <2>4, <2>5 DEF LostInv, Traced, Known
<1>5. ASSUME Replace PROVE LostInv'
  <2>1. /\ registry' = Prospects /\ pc = "list" /\ pc' = "watch"
        /\ UNCHANGED <<proc, messages, watched, inspections, status>>
    BY <1>5 DEF Replace, Prospects
  <2>2. QED
    BY <2>1 DEF LostInv, Traced, Wanted, Known, Covered, NoReportQueued, Messages
<1>6. ASSUME NEW q \in Pids, NEW S, S = registry', pc # "list", pc' # "list",
             missed \subseteq missed',
             \A p \in Pids \ {q} :
               QuietOf(p) /\ \A i \in registry : i.pid = p => i \in registry',
             missed' = {} => (QuietOf(q) /\ registry \subseteq registry') \/ Traced(q, S)'
      PROVE  LostInv'
  <2>1. PICK R : R = registry
    OBVIOUS
  <2>2. ASSUME missed' = {}, NEW p \in Pids,
               QuietOf(p), \A i \in registry : i.pid = p => i \in registry'
        PROVE  Traced(p, S)'
    <3>1. Traced(p, R)
      BY <1>6, <2>1, <2>2 DEF LostInv
    <3>2. Traced(p, R)'
      BY <2>2, <3>1, TracedKept
    <3>3. \A i \in R : i.pid = p => i \in S
      BY <1>6, <2>1, <2>2
    <3>4. QED
      BY <3>2, <3>3, TracedAmong
  <2>3. missed' = {} => \A p \in Pids : Traced(p, S)'
    BY <1>6, <2>2
  <2>4. QED
    BY <1>6, <2>3 DEF LostInv, Traced, Known
<1>7. ASSUME NEW q \in Pids, InspectDue(q) PROVE LostInv'
  <2>1. PICK observed \in Inspected(q) :
          /\ registry' = Upserted(registry, Trackable(q, observed))
          /\ inspections' = [inspections EXCEPT
               ![q] = IF observed = NoProcess THEN @ - 1 ELSE 0]
          /\ missed' = IF observed = NoProcess /\ inspections[q] = 1 /\ proc[q] # NoProcess
                       THEN missed \cup {"inspect"} ELSE missed
    BY <1>7 DEF InspectDue
  <2>2. PICK S : S = registry'
    OBVIOUS
  <2>3. /\ pc = "inspect" /\ pc' # "list" /\ missed \subseteq missed' /\ q \in todo
        /\ UNCHANGED <<proc, watched, births>>
    BY <1>7, <2>1 DEF InspectDue
  <2>4. ASSUME NEW p \in Pids \ {q}
        PROVE  QuietOf(p) /\ \A i \in registry : i.pid = p => i \in registry'
    BY <1>7, <2>1, <2>4, InspectedTyped DEF QuietOf, Upserted, PidsOf
  <2>5. ASSUME missed' = {} PROVE Traced(q, S)'
    <3>1. CASE observed = NoProcess
      <4>1. inspections[q] \in Nat /\ inspections[q] > 0
        BY <2>3 DEF RetriesLeft, TypeOK, MaxAttempts
      <4>2. inspections'[q] = inspections[q] - 1
        BY <2>1, <3>1 DEF TypeOK
      <4>3. proc[q] = NoProcess \/ inspections[q] # 1
        BY <2>1, <2>5, <3>1
      <4>4. QED
        BY <2>3, <4>1, <4>2, <4>3 DEF Traced, Wanted, Known
    <3>2. CASE observed # NoProcess
      <4>1. observed = proc[q] /\ Trackable(q, observed) \subseteq S
        BY <2>1, <2>2, <3>2, InspectedTyped DEF Upserted
      <4>2. QED
        BY <2>3, <4>1, TracedByInspection
    <3>3. QED
      BY <3>1, <3>2
  <2>6. QED
    BY <1>6, <2>2, <2>3, <2>4, <2>5
<1>8. ASSUME NEW event \in Event, ReceiveStart(event) PROVE LostInv'
  <2>1. pc = "idle" /\ UNCHANGED <<proc, births, watched, missed>> /\ event.pid \in Pids
    BY <1>8 DEF ReceiveStart, Receive, Event
  <2>2. CASE event.name \notin watched
    BY <1>2, <1>8, <2>1, <2>2 DEF ReceiveStart, QuietOf
  <2>3. CASE event.name \in watched
    <3>1. PICK observed \in Inspected(event.pid) :
            /\ registry' = Upserted(registry, Trackable(event.pid, observed))
            /\ inspections' = IF observed = NoProcess
                              THEN [inspections EXCEPT ![event.pid] = MaxAttempts]
                              ELSE inspections
            /\ pc' = "watch"
      BY <1>8, <2>3 DEF ReceiveStart
    <3>2. PICK S : S = registry'
      OBVIOUS
    <3>3. ASSUME NEW p \in Pids \ {event.pid}
          PROVE  QuietOf(p) /\ \A i \in registry : i.pid = p => i \in registry'
      BY <1>8, <2>1, <3>1, <3>3, InspectedTyped DEF QuietOf, Upserted, PidsOf
    <3>4. CASE observed = NoProcess
      <4>1. inspections'[event.pid] > 0
        BY <2>1, <3>1, <3>4 DEF TypeOK, MaxAttempts
      <4>2. Traced(event.pid, S)'
        BY <4>1 DEF Traced, Known
      <4>3. QED
        BY <1>6, <2>1, <3>1, <3>2, <3>3, <4>2
    <3>5. CASE observed # NoProcess
      <4>1. observed = proc[event.pid] /\ Trackable(event.pid, observed) \subseteq S
        BY <2>1, <3>1, <3>2, <3>5, InspectedTyped DEF Upserted
      <4>2. Traced(event.pid, S)'
        BY <2>1, <4>1, TracedByInspection
      <4>3. QED
        BY <1>6, <2>1, <3>1, <3>2, <3>3, <4>2
    <3>6. QED
      BY <3>4, <3>5
  <2>4. QED
    BY <2>2, <2>3
<1>9. ASSUME NEW event \in Event, ReceiveStop(event) PROVE LostInv'
  <2>1. PICK observed \in Inspected(event.pid) :
          /\ registry' = Upserted(Retained(event.pid, observed), Trackable(event.pid, observed))
          /\ missed' = IF observed # proc[event.pid] THEN missed \cup {"inspect"} ELSE missed
    BY <1>9 DEF ReceiveStop
  <2>2. PICK S : S = registry'
    OBVIOUS
  <2>3. /\ pc = "idle" /\ pc' = "watch" /\ missed \subseteq missed' /\ event.pid \in Pids
        /\ UNCHANGED <<proc, births, watched>>
    BY <1>9, <2>1 DEF ReceiveStop, Receive, Event
  <2>4. ASSUME NEW p \in Pids \ {event.pid}
        PROVE  QuietOf(p) /\ \A i \in registry : i.pid = p => i \in registry'
    BY <1>9, <2>1, <2>3, <2>4, InspectedTyped DEF QuietOf, Upserted, PidsOf, Retained
  <2>5. ASSUME missed' = {} PROVE Traced(event.pid, S)'
    <3>1. observed = proc[event.pid] /\ Trackable(event.pid, observed) \subseteq S
      BY <2>1, <2>2, <2>5 DEF Upserted
    <3>2. QED
      BY <2>3, <3>1, TracedByInspection
  <2>6. QED
    BY <1>6, <2>2, <2>3, <2>4, <2>5
<1>10. ASSUME NEW j \in Instance, ReceiveExit(j) PROVE LostInv'
  <2>1. PICK R, S : R = registry /\ S = registry'
    OBVIOUS
  <2>2. /\ pc = "idle" /\ pc' # "list" /\ S = R \ {j} /\ j \in exits
        /\ UNCHANGED <<proc, births, watched, missed>>
    BY <1>10, <2>1 DEF ReceiveExit
  <2>3. j.birth # 0 /\ ~Alive(j)
    BY <2>2 DEF ExitInv
  <2>4. ASSUME missed' = {}, NEW p \in Pids PROVE Traced(p, S)'
    <3>1. Traced(p, R)
      BY <2>1, <2>2, <2>4 DEF LostInv
    <3>2. Traced(p, R)'
      BY <1>10, <3>1, TracedKept DEF QuietOf
    <3>3. ASSUME NEW i \in R, i.pid = p, i.birth \in {0, proc[p].birth}, Wanted(p)
          PROVE  i \in S
      BY <2>2, <2>3, <3>3 DEF Alive, Wanted
    <3>4. QED
      BY <2>2, <3>2, <3>3 DEF Traced, Wanted, Known
  <2>5. QED
    BY <2>1, <2>2, <2>4 DEF LostInv, Traced, Known
<1>11. ASSUME NEW due \in SUBSET Pids, TakeDue(due) PROVE LostInv'
  BY <1>2, <1>11 DEF TakeDue, QuietOf
<1>12. ASSUME Synchronize PROVE LostInv'
  BY <1>2, <1>12 DEF Synchronize, QuietOf
<1>13. ASSUME Machine \/ \E k \in Kinds : WatcherSubscribes(k) PROVE LostInv'
  <2>1. UNCHANGED <<registry, missed, found, todo, pc>>
    BY <1>13 DEF Machine, Spawn, Die, WatcherFails, WatcherSubscribes
  <2>2. QED
    BY <1>2, <1>13, <2>1 DEF QuietOf
<1>14. ASSUME NEW k \in Kinds, NEW m \in {Healthy, Degraded}, ReceiveReport(k, m)
       PROVE  LostInv'
  <2>1. UNCHANGED <<registry, missed, found, todo, pc>>
    BY <1>14 DEF ReceiveReport
  <2>2. QED
    BY <1>2, <1>14, <2>1 DEF QuietOf
<1>15. QED
  BY <1>1, <1>3, <1>4, <1>5, <1>7, <1>8, <1>9, <1>10, <1>11, <1>12, <1>13, <1>14
     DEF Next, Agent, ReceiveFrom

-----------------------------------------------------------------------------
(* The theorems.                                                           *)

\* The invariant holds in every state.
LEMMA Inductive == Spec => []Inv
<1>1. Init => Inv
  <2> SUFFICES ASSUME Init PROVE Inv
    OBVIOUS
  <2>1. TypeInv
    BY TypeInit DEF TypeInv
  <2>2. \A k \in Kinds : Messages(k) = {} /\ DOMAIN queue[k] = {}
    BY DEF Init, Messages
  <2>3. PassInv /\ ExitInv
    BY DEF Init, PassInv, OnePerPid, PidsOf, ExitInv
  <2>4. WatcherInv
    BY <2>2 DEF Init, WatcherInv, OneReport
  <2>5. GhostInv /\ LostInv
    BY DEF Init, GhostInv, LostInv, Traced, Wanted
  <2>6. QED
    BY <2>1, <2>3, <2>4, <2>5 DEF Inv
<1>2. Inv /\ [Next]_vars => Inv'
  BY TypeStep, PassStep, ExitStep, WatcherStep, GhostStep, LostStep DEF Inv
<1>3. QED
  BY <1>1, <1>2, PTL DEF Spec

\* Whatever the order in which the snapshot, the inspections, the exit waits and the
\* two WMI channels see a death, the agent that waits has no ghost it will not hear of.
THEOREM GhostsAreToldOf == Spec => []NoSilentGhost
<1>1. Inv => NoSilentGhost
  BY DEF Inv, GhostInv, Accounted, Told, NoSilentGhost
<1>2. QED
  BY <1>1, Inductive, PTL

\* No watched process is lost, except by a failure that no retry and no snapshot has
\* made good.
THEOREM NoProcessIsLost == Spec => []NoLostProcess
<1>1. Inv => NoLostProcess
  <2> SUFFICES ASSUME Inv, pc = "idle", missed = {}, NEW p \in Pids, Wanted(p)
               PROVE  \/ p \in PidsOf(registry)
                      \/ EventQueued("starts", p) \/ inspections[p] > 0 \/ ~Covered("starts")
    BY DEF NoLostProcess, Wanted
  <2>1. Known(p, registry)
    BY DEF Inv, LostInv, Traced
  <2>2. proc[p].name \in Names
    BY DEF Inv, TypeInv, TypeOK, Wanted, Process
  <2>3. QED
    BY <2>1, <2>2 DEF Known, PidsOf, EventQueued
<1>2. QED
  BY <1>1, Inductive, PTL

\* The agent never waits with a change of the registry it has not evaluated.
THEOREM EveryChangeIsEvaluated == Spec => []ChangesAreEvaluated
<1>1. Inv => ChangesAreEvaluated
  BY DEF Inv, PassInv, ChangesAreEvaluated
<1>2. QED
  BY <1>1, Inductive, PTL

\* A delayed stop or exit signal for a recycled PID does not remove the process that
\* has it now, if that process can be inspected when the signal arrives.
THEOREM RecycledPidSurvives == Spec => NewerProcessSurvives
<1> USE DEF machine, messages, tracking, status, control, history
<1>1. ASSUME Inv, [Next]_vars, NEW i \in registry, StillRuns(i), missed' = {}
      PROVE  i.pid \in PidsOf(registry')
  <2>1. /\ TypeOK /\ ExitInv /\ i \in Instance /\ pc # "list"
        /\ i.birth # 0 => Alive(i) /\ Alive(i)'
        /\ proc[i.pid] # NoProcess /\ proc[i.pid].name \in watched'
    BY <1>1, TrackingAssumption DEF Inv, TypeInv, TypeOK, StillRuns, Ghost, Alive
  <2>2. ASSUME UNCHANGED registry PROVE i.pid \in PidsOf(registry')
    BY <1>1, <2>2 DEF PidsOf
  <2>3. ASSUME NEW p \in Pids, NEW observed \in Inspected(p), NEW instances, i \in instances,
               registry' = Upserted(instances, Trackable(p, observed))
        PROVE  i.pid \in PidsOf(registry')
    BY <2>3 DEF Upserted, PidsOf
  <2>4. ASSUME NEW p \in Pids, InspectDue(p) PROVE i.pid \in PidsOf(registry')
    BY <1>1, <2>3, <2>4 DEF InspectDue
  <2>5. ASSUME NEW event \in Event, ReceiveStart(event) PROVE i.pid \in PidsOf(registry')
    BY <1>1, <2>2, <2>3, <2>5 DEF ReceiveStart, Event
  <2>6. ASSUME NEW event \in Event, ReceiveStop(event) PROVE i.pid \in PidsOf(registry')
    <3>1. PICK observed \in Inspected(event.pid) :
            /\ registry' = Upserted(Retained(event.pid, observed), Trackable(event.pid, observed))
            /\ missed' = IF observed # proc[event.pid] THEN missed \cup {"inspect"} ELSE missed
      BY <2>6 DEF ReceiveStop
    <3>2. observed = proc[event.pid] /\ event.pid \in Pids /\ UNCHANGED watched
      BY <1>1, <2>6, <3>1 DEF ReceiveStop, Event
    <3>3. CASE i \in Retained(event.pid, observed)
      BY <2>3, <3>1, <3>2, <3>3
    <3>4. CASE i \notin Retained(event.pid, observed)
      <4>1. i.pid = event.pid
        BY <1>1, <3>4 DEF Retained
      <4>2. Trackable(event.pid, observed) = {[pid |-> i.pid, birth |-> observed.birth]}
        BY <2>1, <3>2, <4>1 DEF Trackable
      <4>3. QED
        BY <3>1, <4>2 DEF Upserted, PidsOf
    <3>5. QED
      BY <3>3, <3>4
  <2>7. ASSUME NEW j \in Instance, ReceiveExit(j) PROVE i.pid \in PidsOf(registry')
    <3>1. j.birth # 0 /\ ~Alive(j) /\ registry' = registry \ {j}
      BY <2>1, <2>7 DEF ReceiveExit, ExitInv
    <3>2. i # j
      BY <2>1, <3>1
    <3>3. QED
      BY <1>1, <3>1, <3>2 DEF PidsOf
  <2>8. QED
    BY <1>1, <2>1, <2>2, <2>4, <2>5, <2>6, <2>7
       DEF Next, Machine, Agent, ReceiveFrom, Spawn, Die, WatcherFails, WatcherSubscribes,
           Reconcile, InspectListed, Replace, TakeDue, ReceiveReport, Synchronize, vars
<1>2. Inv /\ [Next]_vars =>
        [\A i \in registry : StillRuns(i) => i.pid \in PidsOf(registry') \/ missed' # {}]_vars
  BY <1>1
<1>3. QED
  BY <1>2, Inductive, PTL DEF Spec, NewerProcessSurvives

=============================================================================
