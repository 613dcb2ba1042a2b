------------------------- MODULE PowerControlProofs -------------------------
(***************************************************************************)
(* Proofs about PowerControl, for every set of plans, profiles,            *)
(* configurations, observations and failures.                              *)
(***************************************************************************)
EXTENDS PowerControl, TLAPS

-----------------------------------------------------------------------------
(* The inductive invariant. TypeOK and the safety properties of             *)
(* PowerControl are not inductive by themselves: they need to know what     *)
(* each place in the code may rely on, and how the agent's memory, the      *)
(* lease file and the history relate while a session lasts.                 *)

\* What the next step uses has been read, recorded or scheduled before.
PlacesReady ==
  /\ pc = "record" => seen \in Plans /\ previousPlan # NoPlan
  /\ pc \in {"apply", "recoverRestore", "recoverForget", "releaseRestore", "releaseForget"}
       => lease # NoLease
  /\ pc \in {"recoverRestore", "releaseRestore"} => lease.restore # NoPlan
  /\ pc \in {"restore", "settle"} => pending # NoRestore

TypeInv == TypeOK /\ PlacesReady

\* The session as the agent remembers it, and the lease that stands for it.
SessionInv ==
  /\ pc # "off" => /\ journal \in {lease, Corrupt}
                   /\ journal = Corrupt => lease = NoLease
  /\ pc = "off" => lease = NoLease
  /\ ~Running => ~Controlling /\ previousPlan = NoPlan
  /\ Controlling => lease # NoLease /\ previousPlan = lease.previous
  /\ winner # NoProfile => lease.profile = winner
  /\ pending # NoRestore => lease.profile = pending.profile /\ winner = NoProfile
  /\ activeProfiles # {} => winner # NoProfile
  /\ pc \in {"restore", "settle", "drop"} => winner = NoProfile
  /\ pc = "drop" => pending = NoRestore

\* Where a session that is not under way may still have left something.
Unsettled == {"drop", "release", "releaseRestore", "releaseForget"}

\* The history, and what the lease and the memory say of it.
HistoryInv ==
  /\ journal \notin Lease => ours = NoPlan /\ ~torn
  /\ ours # NoPlan /\ ~torn => journal.managed = ours
  /\ lease # NoLease /\ ~stale => lease.previous = origin
  /\ journal \in Lease /\ ~stale => journal.previous = origin
  /\ Running /\ pc \notin Unsettled /\ ~Controlling /\ ~stale =>
       /\ lease = NoLease
       /\ previousPlan = IF pc = "record" THEN seen ELSE NoPlan

Inv == TypeInv /\ SessionInv /\ HistoryInv /\ RestoresOnlyManagedPlan

-----------------------------------------------------------------------------
(* The operators the actions are built from.                               *)

\* Whatever configuration is loaded, the profiles in it are well formed.
LEMMA ConfigTyped ==
  ASSUME NEW c \in Configs \cup {DefaultConfig}
  PROVE  /\ c \in Config
         /\ \A i \in DOMAIN c.profiles : c.profiles[i] \in ProfileSettings
<1>1. DefaultConfig \in Config
  BY DEF DefaultConfig, Config
<1>2. c \in Config
  BY <1>1, ConstantsAssumption
<1>3. c.profiles \in Seq(ProfileSettings)
  BY <1>2 DEF Config
<1>4. QED
  BY <1>2, <1>3

\* The close behaviour of a profile asks for a plan or for none (restore_plan_for).
LEMMA RestorePlanTyped ==
  ASSUME NEW s \in ProfileSettings, NEW previous \in Plans \cup {NoPlan}
  PROVE  RestorePlanFor(s, previous) \in Plans \cup {NoPlan}
BY DEF ProfileSettings, RestorePlanFor

\* What for_profile builds from a profile of the configuration is a lease.
LEMMA LeaseTyped ==
  ASSUME NEW s \in ProfileSettings, NEW previous \in Plans
  PROVE  /\ LeaseFor(s, previous) \in Lease
         /\ LeaseFor(s, previous).previous = previous
         /\ LeaseFor(s, previous).managed = s.plan
         /\ LeaseFor(s, previous).profile = s.id
<1>1. RestorePlanFor(s, previous) \in Plans \cup {NoPlan}
  BY RestorePlanTyped
<1>2. QED
  BY <1>1 DEF LeaseFor, Lease, ProfileSettings

\* The profiles found active are profiles of the configuration.
LEMMA ActiveTyped ==
  ASSUME config \in Configs \cup {DefaultConfig}
  PROVE  /\ ActiveAt \subseteq DOMAIN config.profiles
         /\ IdsAt(ActiveAt) \subseteq Profiles
         /\ \A i \in ActiveAt : config.profiles[i] \in ProfileSettings
<1>1. ActiveAt \subseteq DOMAIN config.profiles
  BY DEF ActiveAt
<1>2. \A i \in ActiveAt : config.profiles[i] \in ProfileSettings
  BY <1>1, ConfigTyped
<1>3. QED
  BY <1>1, <1>2 DEF IdsAt, ProfileSettings

\* The terms of a close are those of a restore that can be scheduled.
LEMMA CloseTermsTyped ==
  ASSUME config \in Configs \cup {DefaultConfig},
         lease \in Lease \cup {NoLease},
         winner \in Profiles,
         previousPlan \in Plans \cup {NoPlan},
         HasCloseTerms
  PROVE  /\ CloseTerms.plan \in Plans \cup {NoPlan}
         /\ CloseTerms.delay \in 0..MaxDelay
         /\ CloseTerms.profile \in Profiles
<1>1. CASE winner \in ProfileIds(config)
  <2> DEFINE s == SettingsOf(config, winner)
  <2>1. \E i \in DOMAIN config.profiles : config.profiles[i].id = winner
    BY <1>1 DEF ProfileIds
  <2>2. s \in ProfileSettings
    BY <2>1, ConfigTyped DEF SettingsOf
  <2>3. RestorePlanFor(s, previousPlan) \in Plans \cup {NoPlan}
    BY <2>2, RestorePlanTyped
  <2>4. CloseTerms = [plan |-> RestorePlanFor(s, previousPlan), delay |-> s.delay,
                      profile |-> winner]
    BY <1>1 DEF CloseTerms
  <2>5. QED
    BY <2>2, <2>3, <2>4 DEF ProfileSettings
<1>2. CASE winner \notin ProfileIds(config)
  <2>1. lease \in Lease
    BY <1>2 DEF HasCloseTerms
  <2>2. QED
    BY <1>2, <2>1 DEF CloseTerms, Lease
<1>3. QED
  BY <1>1, <1>2

-----------------------------------------------------------------------------
(* Type correctness.                                                       *)

\* The agent and the machine start well typed.
LEMMA InitTyped == Init => TypeInv
<1>1. NothingObserved \in [Profiles -> SUBSET Roles]
  BY DEF NothingObserved
<1>2. QED
  BY <1>1 DEF Init, TypeInv, TypeOK, PlacesReady, PcStates

\* Starting and ending a run of the agent, and recovering a lease.
LEMMA LifecycleTyped ==
  ASSUME TypeInv, Lifecycle \/ Recovery \/ Releasing
  PROVE  TypeInv'
<1> USE DEF TypeInv, TypeOK, PlacesReady, PcStates, memory, control, history,
            Goto, ReadPlanAndGoto, Return
<1>1. NothingObserved \in [Profiles -> SUBSET Roles]
  BY DEF NothingObserved
<1>2. ASSUME NEW c \in Configs \cup {DefaultConfig}, Start(c) PROVE TypeInv'
  BY <1>1, <1>2 DEF Start, OpenLease, MemoryIsFresh
<1>3. ASSUME Shutdown PROVE TypeInv'
  BY <1>1, <1>3 DEF Shutdown, MemoryIsFresh
<1>4. ASSUME ReleaseOnce PROVE TypeInv'
  BY <1>1, <1>4 DEF ReleaseOnce, OpenLease, MemoryIsFresh
<1>5. ASSUME Exit PROVE TypeInv'
  BY <1>1, <1>5 DEF Exit, MemoryIsFresh
<1>6. ASSUME NothingToRecover PROVE TypeInv'
  BY <1>6 DEF NothingToRecover
<1>7. ASSUME ResumeLease PROVE TypeInv'
  BY <1>7 DEF ResumeLease, Lease
<1>8. ASSUME ReleaseLease PROVE TypeInv'
  BY <1>8 DEF ReleaseLease, MustGiveBack
<1>9. ASSUME RecoveryFails PROVE TypeInv'
  BY <1>9 DEF RecoveryFails
<1>10. ASSUME RecoverRestore PROVE TypeInv'
  BY <1>10 DEF RecoverRestore, GiveBack, SetPlan, Lease
<1>11. ASSUME RecoverForget PROVE TypeInv'
  BY <1>11 DEF RecoverForget, ClearLease, HistoryEnds
<1>12. ASSUME Release PROVE TypeInv'
  BY <1>12 DEF Release, MustGiveBack
<1>13. ASSUME ReleaseRestore PROVE TypeInv'
  BY <1>13 DEF ReleaseRestore, GiveBack, SetPlan, Lease
<1>14. ASSUME ReleaseForget PROVE TypeInv'
  BY <1>1, <1>14 DEF ReleaseForget, ClearLease, HistoryEnds, MemoryIsFresh
<1>15. QED
  BY <1>2, <1>3, <1>4, <1>5, <1>6, <1>7, <1>8, <1>9, <1>10, <1>11, <1>12, <1>13, <1>14
     DEF Lifecycle, Recovery, Releasing, Crash, ReleaseEnds

\* What makes the main loop evaluate, and what the rest of the machine does.
LEMMA TriggersTyped ==
  ASSUME TypeInv, Triggers \/ Environment
  PROVE  TypeInv'
<1> USE DEF TypeInv, TypeOK, PlacesReady, PcStates, memory, control, history,
            Goto, ReadPlanAndGoto, Return
<1>1. ASSUME NEW c \in Configs \cup {config}, Reload(c) PROVE TypeInv'
  BY <1>1 DEF Reload
<1>2. ASSUME NEW r \in Observations, Snapshot(r) \/ ProcessesChange(r) PROVE TypeInv'
  BY <1>2, ConstantsAssumption DEF Snapshot, ProcessesChange
<1>3. ASSUME SnapshotFails PROVE TypeInv'
  BY <1>3 DEF SnapshotFails
<1>4. ASSUME NEW p \in Profiles, Promote(p) PROVE TypeInv'
  BY <1>4 DEF Promote
<1>5. ASSUME CorruptLease PROVE TypeInv'
  BY <1>5, ZenonT(60) DEF CorruptLease, HistoryEnds
<1>6. ASSUME NEW plan \in Plans, ForeignChange(plan) PROVE TypeInv'
  BY <1>6 DEF ForeignChange
<1>7. ASSUME Tick PROVE TypeInv'
  BY <1>7, ConstantsAssumption DEF Tick, PendingRestore
<1>8. QED
  BY <1>1, <1>2, <1>3, <1>4, <1>5, <1>6, <1>7 DEF Triggers, Environment

\* An evaluation.
LEMMA EvaluationTyped ==
  ASSUME TypeInv, SessionInv, Evaluation
  PROVE  TypeInv'
<1> USE DEF TypeInv, TypeOK, PlacesReady, PcStates, memory, control, history,
            Goto, ReadPlanAndGoto, Return
<1>1. ASSUME ReadFails \/ RecordFails \/ ApplyFails \/ RestoreFails \/ SettleFails
      PROVE  TypeInv'
  BY <1>1, ZenonT(60) DEF ReadFails, RecordFails, ApplyFails, RestoreFails, SettleFails
<1>2. ASSUME TakeControl PROVE TypeInv'
  <2>1. Captured \in Plans
    BY DEF Captured, SessionInv, Controlling, Lease
  <2>2. manual' \in Profiles \cup {NoProfile}
    BY <1>2 DEF TakeControl, ManualIfActive
  <2>3. QED
    BY <1>2, <2>1, <2>2, ConstantsAssumption DEF TakeControl
<1>3. ASSUME Record PROVE TypeInv'
  <2>1. PICK i \in ActiveAt :
          LET s == config.profiles[i]
              l == LeaseFor(s, IF previousPlan = NoPlan THEN seen ELSE previousPlan)
          IN  /\ journal' = Journaled(l)
              /\ lease' = l
              /\ winner' = s.id
              /\ IF seen = s.plan THEN Return("idle") ELSE Goto("apply")
              /\ ours' = IF seen = s.plan THEN seen ELSE ours
              /\ torn' = (seen # s.plan /\ (torn \/ ours \notin {NoPlan, s.plan}))
    BY <1>3 DEF Record, CancelRestore
  <2> DEFINE s == config.profiles[i]
             l == LeaseFor(s, IF previousPlan = NoPlan THEN seen ELSE previousPlan)
  <2>2. s \in ProfileSettings /\ s.id \in Profiles
    BY ActiveTyped DEF ProfileSettings
  <2>3. l \in Lease /\ l # NoLease
    BY <1>3, <2>2, LeaseTyped, ConstantsAssumption DEF Record, CancelRestore
  <2>4. activeProfiles' \subseteq Profiles
    BY <1>3, ActiveTyped DEF Record, CancelRestore
  <2>5. /\ journal' \in Lease \cup {NoLease, Corrupt}
        /\ lease' \in Lease /\ lease' # NoLease
        /\ winner' \in Profiles
        /\ pc' \in {"idle", "apply"} /\ seen' \in Plans \cup {NoPlan}
        /\ ours' \in Plans \cup {NoPlan} /\ torn' \in BOOLEAN
    BY <2>1, <2>2, <2>3 DEF Journaled
  <2>6. QED
    BY <1>3, <2>4, <2>5 DEF Record, CancelRestore
<1>4. ASSUME Apply PROVE TypeInv'
  BY <1>4, ZenonT(60) DEF Apply, SetPlan, Lease
<1>5. ASSUME RestoreFallsDue PROVE TypeInv'
  BY <1>5 DEF RestoreFallsDue, NoneActive, RestoreDue
<1>6. ASSUME ScheduleRestore PROVE TypeInv'
  <2>1. pending' \in PendingRestore
    BY <1>6, CloseTermsTyped DEF ScheduleRestore, PendingRestore
  <2>2. QED
    BY <1>6, <2>1 DEF ScheduleRestore, NoneActive
<1>7. ASSUME LeavePlan \/ NothingToClose PROVE TypeInv'
  BY <1>7 DEF LeavePlan, NothingToClose, NoneActive
<1>8. ASSUME Restore PROVE TypeInv'
  BY <1>8 DEF Restore, GiveBack, SetPlan, PendingRestore
<1>9. ASSUME Settle PROVE TypeInv'
  BY <1>9 DEF Settle, ClearLease, HistoryEnds
<1>10. QED
  BY <1>1, <1>2, <1>3, <1>4, <1>5, <1>6, <1>7, <1>8, <1>9 DEF Evaluation

-----------------------------------------------------------------------------
(* The session in memory and its lease on the disk.                        *)

\* Before its first run the agent controls nothing.
LEMMA InitSession == Init => SessionInv
BY DEF Init, SessionInv, Running, Controlling

\* Starting, recovering and releasing keep the session and its lease in step.
LEMMA LifecycleSession ==
  ASSUME TypeInv, SessionInv, Lifecycle \/ Recovery \/ Releasing
  PROVE  SessionInv'
<1> USE ConstantsAssumption
    DEF TypeInv, TypeOK, PlacesReady, SessionInv, Running, Controlling, memory,
        control, history, Goto, ReadPlanAndGoto, Return
<1>1. ASSUME NEW c \in Configs \cup {DefaultConfig}, Start(c) PROVE SessionInv'
  BY <1>1 DEF Start, OpenLease, MemoryIsFresh
<1>2. ASSUME Shutdown PROVE SessionInv'
  BY <1>2 DEF Shutdown, MemoryIsFresh
<1>3. ASSUME ReleaseOnce PROVE SessionInv'
  BY <1>3 DEF ReleaseOnce, OpenLease, MemoryIsFresh
<1>4. ASSUME Exit PROVE SessionInv'
  BY <1>4 DEF Exit, MemoryIsFresh
<1>5. ASSUME NothingToRecover PROVE SessionInv'
  BY <1>5 DEF NothingToRecover
<1>6. ASSUME ResumeLease PROVE SessionInv'
  BY <1>6 DEF ResumeLease
<1>7. ASSUME ReleaseLease PROVE SessionInv'
  BY <1>7 DEF ReleaseLease
<1>8. ASSUME RecoveryFails PROVE SessionInv'
  BY <1>8 DEF RecoveryFails
<1>9. ASSUME RecoverRestore PROVE SessionInv'
  BY <1>9 DEF RecoverRestore, GiveBack, SetPlan
<1>10. ASSUME RecoverForget PROVE SessionInv'
  BY <1>10 DEF RecoverForget, ClearLease, HistoryEnds
<1>11. ASSUME Release PROVE SessionInv'
  BY <1>11 DEF Release
<1>12. ASSUME ReleaseRestore PROVE SessionInv'
  BY <1>12 DEF ReleaseRestore, GiveBack, SetPlan
<1>13. ASSUME ReleaseForget PROVE SessionInv'
  BY <1>13 DEF ReleaseForget, ClearLease, HistoryEnds, MemoryIsFresh
<1>14. QED
  BY <1>1, <1>2, <1>3, <1>4, <1>5, <1>6, <1>7, <1>8, <1>9, <1>10, <1>11, <1>12, <1>13
     DEF Lifecycle, Recovery, Releasing, Crash, ReleaseEnds

\* Events, edits, the user and the clock leave the session and its lease alone.
LEMMA TriggersSession ==
  ASSUME TypeInv, SessionInv, Triggers \/ Environment
  PROVE  SessionInv'
<1> USE ConstantsAssumption
    DEF TypeInv, TypeOK, PlacesReady, SessionInv, Running, Controlling, memory,
        control, history, Goto, ReadPlanAndGoto, Return
<1>1. ASSUME NEW c \in Configs \cup {config}, Reload(c) PROVE SessionInv'
  BY <1>1 DEF Reload
<1>2. ASSUME NEW r \in Observations, Snapshot(r) \/ ProcessesChange(r) PROVE SessionInv'
  BY <1>2 DEF Snapshot, ProcessesChange
<1>3. ASSUME SnapshotFails PROVE SessionInv'
  BY <1>3 DEF SnapshotFails
<1>4. ASSUME NEW p \in Profiles, Promote(p) PROVE SessionInv'
  BY <1>4 DEF Promote
<1>5. ASSUME CorruptLease PROVE SessionInv'
  BY <1>5 DEF CorruptLease, HistoryEnds
<1>6. ASSUME NEW plan \in Plans, ForeignChange(plan) PROVE SessionInv'
  BY <1>6 DEF ForeignChange
<1>7. ASSUME Tick PROVE SessionInv'
  <2>1. pending' # NoRestore /\ pending'.profile = pending.profile
    BY <1>7 DEF Tick, PendingRestore
  <2>2. QED
    BY <1>7, <2>1 DEF Tick
<1>8. QED
  BY <1>1, <1>2, <1>3, <1>4, <1>5, <1>6, <1>7 DEF Triggers, Environment

\* The lease a session is recorded under, and what is recorded of it.
LEMMA RecordFacts ==
  ASSUME TypeInv, Record
  PROVE  \E i \in ActiveAt :
           LET s == config.profiles[i] IN
             /\ IsWinner(i, ActiveAt)
             /\ s \in ProfileSettings
             /\ lease' \in Lease /\ lease' # NoLease
             /\ journal' = IF lease = lease' THEN journal ELSE lease'
             /\ lease'.previous = previousPlan
             /\ lease'.managed = s.plan
             /\ lease'.profile = s.id
             /\ winner' = s.id
             /\ pc' = IF seen = s.plan THEN "idle" ELSE "apply"
             /\ ours' = IF seen = s.plan THEN seen ELSE ours
             /\ torn' = (seen # s.plan /\ (torn \/ ours \notin {NoPlan, s.plan}))
<1>1. previousPlan \in Plans /\ previousPlan # NoPlan /\ config \in Configs \cup {DefaultConfig}
  BY DEF TypeInv, TypeOK, PlacesReady, Record, CancelRestore
<1>2. PICK i \in ActiveAt :
        /\ IsWinner(i, ActiveAt)
        /\ LET s == config.profiles[i]
               l == LeaseFor(s, IF previousPlan = NoPlan THEN seen ELSE previousPlan)
           IN  /\ journal' = Journaled(l)
               /\ lease' = l
               /\ winner' = s.id
               /\ IF seen = s.plan THEN Return("idle") ELSE Goto("apply")
               /\ ours' = IF seen = s.plan THEN seen ELSE ours
               /\ torn' = (seen # s.plan /\ (torn \/ ours \notin {NoPlan, s.plan}))
  BY DEF Record, CancelRestore
<1> DEFINE s == config.profiles[i]
<1>3. s \in ProfileSettings
  BY <1>1, ActiveTyped
<1>4. lease' = LeaseFor(s, previousPlan)
  BY <1>1, <1>2
<1>5. /\ lease' \in Lease
      /\ lease'.previous = previousPlan
      /\ lease'.managed = s.plan
      /\ lease'.profile = s.id
  BY <1>1, <1>3, <1>4, LeaseTyped
<1>6. lease' # NoLease
  BY <1>5, ConstantsAssumption
<1>7. journal' = IF lease = lease' THEN journal ELSE lease'
  BY <1>2 DEF Journaled
<1>8. pc' = IF seen = s.plan THEN "idle" ELSE "apply"
  BY <1>2 DEF Return, Goto
<1>9. QED
  BY <1>2, <1>3, <1>5, <1>6, <1>7, <1>8

\* An evaluation changes the session and its lease together, or neither.
LEMMA EvaluationSession ==
  ASSUME TypeInv, SessionInv, Evaluation
  PROVE  SessionInv'
<1> USE ConstantsAssumption
    DEF TypeInv, TypeOK, PlacesReady, SessionInv, Running, Controlling, memory,
        control, history, Goto, ReadPlanAndGoto, Return
<1>1. ASSUME ReadFails \/ RecordFails \/ ApplyFails \/ RestoreFails \/ SettleFails
      PROVE  SessionInv'
  BY <1>1 DEF ReadFails, RecordFails, ApplyFails, RestoreFails, SettleFails
<1>2. ASSUME TakeControl PROVE SessionInv'
  <2>1. Controlling => previousPlan' = previousPlan
    BY <1>2 DEF TakeControl, Captured, Lease
  <2>2. QED
    BY <1>2, <2>1 DEF TakeControl
<1>3. ASSUME Record PROVE SessionInv'
  <2>1. PICK i \in ActiveAt :
          /\ config.profiles[i] \in ProfileSettings
          /\ lease' \in Lease /\ lease' # NoLease
          /\ journal' = IF lease = lease' THEN journal ELSE lease'
          /\ lease'.previous = previousPlan
          /\ lease'.profile = config.profiles[i].id
          /\ winner' = config.profiles[i].id
          /\ pc' \in {"idle", "apply"}
    BY <1>3, RecordFacts
  <2>2. winner' # NoProfile
    BY <2>1 DEF ProfileSettings
  <2>3. journal' = lease'
    BY <1>3, <2>1 DEF Record, CancelRestore
  <2>4. pending' = NoRestore /\ previousPlan' = previousPlan
    BY <1>3 DEF Record, CancelRestore
  <2>5. QED
    BY <2>1, <2>2, <2>3, <2>4
<1>4. ASSUME Apply PROVE SessionInv'
  BY <1>4 DEF Apply, SetPlan
<1>5. ASSUME RestoreFallsDue PROVE SessionInv'
  BY <1>5 DEF RestoreFallsDue, NoneActive, RestoreDue
<1>6. ASSUME ScheduleRestore PROVE SessionInv'
  <2>1. CloseTerms.profile = winner
    BY <1>6 DEF ScheduleRestore, CloseTerms
  <2>2. pending' # NoRestore /\ pending'.profile = winner
    <3>1. pending' \in PendingRestore
      BY <1>6, CloseTermsTyped DEF ScheduleRestore, PendingRestore
    <3>2. QED
      BY <1>6, <2>1, <3>1 DEF ScheduleRestore
  <2>3. QED
    BY <1>6, <2>2 DEF ScheduleRestore, NoneActive
<1>7. ASSUME LeavePlan PROVE SessionInv'
  BY <1>7 DEF LeavePlan, NoneActive
<1>8. ASSUME NothingToClose PROVE SessionInv'
  BY <1>8 DEF NothingToClose, NoneActive
<1>9. ASSUME Restore PROVE SessionInv'
  BY <1>9 DEF Restore, GiveBack, SetPlan
<1>10. ASSUME Settle PROVE SessionInv'
  BY <1>10 DEF Settle, ClearLease, HistoryEnds
<1>11. QED
  BY <1>1, <1>2, <1>3, <1>4, <1>5, <1>6, <1>7, <1>8, <1>9, <1>10 DEF Evaluation

-----------------------------------------------------------------------------
(* The history: what was in force before a session, and what the agent set.*)

\* Before the first run there is no session to have a history.
LEMMA InitHistory == Init => HistoryInv /\ RestoresOnlyManagedPlan
BY ConstantsAssumption
   DEF Init, HistoryInv, RestoresOnlyManagedPlan, Running, Controlling

\* A start, a recovery, a release or a crash loses no plan the agent owes.
LEMMA LifecycleHistory ==
  ASSUME TypeInv, SessionInv, HistoryInv, Lifecycle \/ Recovery \/ Releasing
  PROVE  HistoryInv'
<1> USE ConstantsAssumption
    DEF TypeInv, TypeOK, PlacesReady, SessionInv, HistoryInv, Unsettled, Running,
        Controlling, memory, control, history, Goto, ReadPlanAndGoto, Return
<1>1. ASSUME NEW c \in Configs \cup {DefaultConfig}, Start(c) PROVE HistoryInv'
  BY <1>1 DEF Start, OpenLease, MemoryIsFresh
<1>2. ASSUME Shutdown PROVE HistoryInv'
  BY <1>2 DEF Shutdown, MemoryIsFresh
<1>3. ASSUME ReleaseOnce PROVE HistoryInv'
  BY <1>3 DEF ReleaseOnce, OpenLease, MemoryIsFresh
<1>4. ASSUME Exit PROVE HistoryInv'
  BY <1>4 DEF Exit, MemoryIsFresh
<1>5. ASSUME NothingToRecover PROVE HistoryInv'
  BY <1>5 DEF NothingToRecover
<1>6. ASSUME ResumeLease PROVE HistoryInv'
  BY <1>6 DEF ResumeLease, Lease
<1>7. ASSUME ReleaseLease PROVE HistoryInv'
  BY <1>7 DEF ReleaseLease
<1>8. ASSUME RecoveryFails PROVE HistoryInv'
  BY <1>8 DEF RecoveryFails
<1>9. ASSUME RecoverRestore PROVE HistoryInv'
  BY <1>9 DEF RecoverRestore, GiveBack, SetPlan
<1>10. ASSUME RecoverForget PROVE HistoryInv'
  BY <1>10 DEF RecoverForget, ClearLease, HistoryEnds
<1>11. ASSUME Release PROVE HistoryInv'
  BY <1>11 DEF Release
<1>12. ASSUME ReleaseRestore PROVE HistoryInv'
  BY <1>12 DEF ReleaseRestore, GiveBack, SetPlan
<1>13. ASSUME ReleaseForget PROVE HistoryInv'
  BY <1>13 DEF ReleaseForget, ClearLease, HistoryEnds, MemoryIsFresh
<1>14. QED
  BY <1>1, <1>2, <1>3, <1>4, <1>5, <1>6, <1>7, <1>8, <1>9, <1>10, <1>11, <1>12, <1>13
     DEF Lifecycle, Recovery, Releasing, Crash, ReleaseEnds

\* What happens between evaluations does not rewrite the history of a session.
LEMMA TriggersHistory ==
  ASSUME TypeInv, SessionInv, HistoryInv, Triggers \/ Environment
  PROVE  HistoryInv'
<1> USE ConstantsAssumption
    DEF TypeInv, TypeOK, PlacesReady, SessionInv, HistoryInv, Unsettled, Running,
        Controlling, memory, control, history, Goto, ReadPlanAndGoto, Return
<1>1. ASSUME NEW c \in Configs \cup {config}, Reload(c) PROVE HistoryInv'
  BY <1>1 DEF Reload
<1>2. ASSUME NEW r \in Observations, Snapshot(r) \/ ProcessesChange(r) PROVE HistoryInv'
  BY <1>2 DEF Snapshot, ProcessesChange
<1>3. ASSUME SnapshotFails PROVE HistoryInv'
  BY <1>3 DEF SnapshotFails
<1>4. ASSUME NEW p \in Profiles, Promote(p) PROVE HistoryInv'
  BY <1>4 DEF Promote
<1>5. ASSUME CorruptLease PROVE HistoryInv'
  BY <1>5 DEF CorruptLease, HistoryEnds
<1>6. ASSUME NEW plan \in Plans, ForeignChange(plan) PROVE HistoryInv'
  BY <1>6 DEF ForeignChange
<1>7. ASSUME Tick PROVE HistoryInv'
  <2>1. pending' # NoRestore
    BY <1>7 DEF Tick, PendingRestore
  <2>2. QED
    BY <1>7, <2>1 DEF Tick
<1>8. QED
  BY <1>1, <1>2, <1>3, <1>4, <1>5, <1>6, <1>7 DEF Triggers, Environment

\* An evaluation captures a plan once and journals a plan before setting it.
LEMMA EvaluationHistory ==
  ASSUME TypeInv, SessionInv, HistoryInv, Evaluation
  PROVE  HistoryInv'
<1> USE ConstantsAssumption
    DEF TypeInv, TypeOK, PlacesReady, SessionInv, HistoryInv, Unsettled, Running,
        Controlling, memory, control, history, Goto, ReadPlanAndGoto, Return
<1>1. ASSUME ReadFails \/ RecordFails \/ ApplyFails \/ RestoreFails \/ SettleFails
      PROVE  HistoryInv'
  <2>1. CASE ReadFails \/ ApplyFails \/ RestoreFails
    BY <1>1, <2>1 DEF ReadFails, ApplyFails, RestoreFails
  <2>2. CASE RecordFails
    BY <2>2 DEF RecordFails
  <2>3. CASE SettleFails
    BY <2>3 DEF SettleFails
  <2>4. QED
    BY <1>1, <2>1, <2>2, <2>3
<1>2. ASSUME TakeControl PROVE HistoryInv'
  <2>1. pc = "evaluate" /\ pc' = "record" /\ seen' = activePlan /\ previousPlan' = Captured
    BY <1>2 DEF TakeControl
  <2>2. ~Controlling /\ ~stale => previousPlan' = seen'
    BY <2>1 DEF Captured
  <2>3. Controlling' = Controlling /\ Running'
    BY <1>2, <2>1 DEF TakeControl
  <2>4. UNCHANGED <<journal, lease, history>>
    BY <1>2 DEF TakeControl
  <2>5. QED
    BY <2>1, <2>2, <2>3, <2>4
<1>3. ASSUME Record PROVE HistoryInv'
  <2>1. PICK i \in ActiveAt :
          LET s == config.profiles[i] IN
            /\ s \in ProfileSettings
            /\ lease' \in Lease /\ lease' # NoLease
            /\ journal' = IF lease = lease' THEN journal ELSE lease'
            /\ lease'.previous = previousPlan
            /\ lease'.managed = s.plan
            /\ winner' = s.id
            /\ ours' = IF seen = s.plan THEN seen ELSE ours
            /\ torn' = (seen # s.plan /\ (torn \/ ours \notin {NoPlan, s.plan}))
    BY <1>3, RecordFacts
  <2>2. winner' # NoProfile
    BY <2>1 DEF ProfileSettings
  <2>3. journal' = lease'
    BY <1>3, <2>1 DEF Record, CancelRestore
  <2>4. ours' # NoPlan /\ ~torn' => journal'.managed = ours'
    BY <2>1, <2>3 DEF ProfileSettings
  <2>5. ~stale' => lease'.previous = origin'
    BY <1>3, <2>1 DEF Record, CancelRestore
  <2>6. journal' \in Lease /\ Controlling'
    BY <2>1, <2>2, <2>3
  <2>7. QED
    BY <2>3, <2>4, <2>5, <2>6
<1>4. ASSUME Apply PROVE HistoryInv'
  BY <1>4 DEF Apply, SetPlan
<1>5. ASSUME RestoreFallsDue PROVE HistoryInv'
  BY <1>5 DEF RestoreFallsDue, NoneActive, RestoreDue
<1>6. ASSUME ScheduleRestore PROVE HistoryInv'
  <2>1. pending' # NoRestore
    BY <1>6, CloseTermsTyped DEF ScheduleRestore, PendingRestore
  <2>2. QED
    BY <1>6, <2>1 DEF ScheduleRestore, NoneActive
<1>7. ASSUME LeavePlan PROVE HistoryInv'
  BY <1>7 DEF LeavePlan, NoneActive
<1>8. ASSUME NothingToClose PROVE HistoryInv'
  BY <1>8 DEF NothingToClose, NoneActive, HasCloseTerms
<1>9. ASSUME Restore PROVE HistoryInv'
  BY <1>9 DEF Restore, GiveBack, SetPlan
<1>10. ASSUME Settle PROVE HistoryInv'
  BY <1>10 DEF Settle, ClearLease, HistoryEnds
<1>11. QED
  BY <1>1, <1>2, <1>3, <1>4, <1>5, <1>6, <1>7, <1>8, <1>9, <1>10 DEF Evaluation

\* Between the read that allows a restore and the restore itself, the lease
\* stays what it was.
LEMMA RestoresOnlyManagedStep ==
  ASSUME TypeInv, SessionInv, RestoresOnlyManagedPlan, [Next]_vars
  PROVE  RestoresOnlyManagedPlan'
<1> USE DEF TypeInv, TypeOK, PlacesReady, SessionInv, RestoresOnlyManagedPlan, Running,
            Controlling, memory, control, history, Goto, ReadPlanAndGoto, Return
<1>1. CASE UNCHANGED vars
  BY <1>1 DEF vars
<1>2. CASE Lifecycle
  BY <1>2 DEF Lifecycle, Start, Shutdown, ReleaseOnce, Crash, Exit
<1>3. CASE Recovery
  BY <1>3 DEF Recovery, NothingToRecover, ResumeLease, ReleaseLease, MustGiveBack,
              RecoveryFails, RecoverRestore, RecoverForget, GiveBack, SetPlan
<1>4. CASE Triggers
  BY <1>4 DEF Triggers, Reload, Snapshot, ProcessesChange, SnapshotFails, Promote
<1>5. CASE Evaluation
  <2>1. CASE RestoreFallsDue
    BY <2>1 DEF RestoreFallsDue, NoneActive, RestoreDue
  <2>2. CASE Record
    <3>1. pc' \in {"idle", "apply"}
      BY <2>2, RecordFacts
    <3>2. QED
      BY <3>1
  <2>3. CASE ReadFails \/ TakeControl \/ RecordFails \/ Apply \/ ApplyFails
    BY <2>3 DEF ReadFails, TakeControl, RecordFails, Apply, SetPlan, ApplyFails
  <2>4. CASE ScheduleRestore \/ LeavePlan \/ NothingToClose
    BY <2>4 DEF ScheduleRestore, LeavePlan, NothingToClose, NoneActive
  <2>5. CASE Restore \/ RestoreFails \/ Settle \/ SettleFails
    BY <2>5 DEF Restore, RestoreFails, Settle, SettleFails
  <2>6. QED
    BY <1>5, <2>1, <2>2, <2>3, <2>4, <2>5 DEF Evaluation
<1>6. CASE Releasing
  BY <1>6 DEF Releasing, Release, MustGiveBack, ReleaseRestore, ReleaseForget,
              ReleaseEnds, Exit, GiveBack, SetPlan
<1>7. CASE Environment
  BY <1>7 DEF Environment, CorruptLease, ForeignChange, Tick
<1>8. QED
  BY <1>1, <1>2, <1>3, <1>4, <1>5, <1>6, <1>7 DEF Next

-----------------------------------------------------------------------------
(* The theorems.                                                           *)

\* Every step of the agent and of its environment preserves the invariant.
LEMMA InvInductive == Inv /\ [Next]_vars => Inv'
<1> SUFFICES ASSUME Inv, [Next]_vars PROVE Inv'
  OBVIOUS
<1>1. TypeInv /\ SessionInv /\ HistoryInv /\ RestoresOnlyManagedPlan
  BY DEF Inv
<1>2. RestoresOnlyManagedPlan'
  BY <1>1, RestoresOnlyManagedStep
<1>3. CASE UNCHANGED vars
  <2>1. TypeInv' /\ SessionInv' /\ HistoryInv'
    BY <1>1, <1>3 DEF vars, memory, control, history, TypeInv, TypeOK, PlacesReady,
       SessionInv, HistoryInv, Unsettled, Running, Controlling
  <2>2. QED
    BY <1>2, <2>1 DEF Inv
<1>4. CASE Lifecycle \/ Recovery \/ Releasing
  BY <1>1, <1>2, <1>4, LifecycleTyped, LifecycleSession, LifecycleHistory DEF Inv
<1>5. CASE Triggers \/ Environment
  BY <1>1, <1>2, <1>5, TriggersTyped, TriggersSession, TriggersHistory DEF Inv
<1>6. CASE Evaluation
  BY <1>1, <1>2, <1>6, EvaluationTyped, EvaluationSession, EvaluationHistory DEF Inv
<1>7. QED
  BY <1>3, <1>4, <1>5, <1>6 DEF Next

\* Every reachable state of the agent, its lease file and the power plan
\* satisfies the inductive invariant, whatever fails and whenever it crashes.
THEOREM Invariance == Spec => []Inv
<1>1. Init => Inv
  BY InitTyped, InitSession, InitHistory DEF Inv
<1>2. QED
  BY <1>1, InvInductive, PTL DEF Spec

\* Every variable keeps its type.
THEOREM TypeCorrect == Spec => []TypeOK
<1>1. Inv => TypeOK
  BY DEF Inv, TypeInv
<1>2. QED
  BY <1>1, Invariance, PTL

\* The plan the agent put in force is named by the lease on the disk, except while a change
\* of managed plan is recorded and not applied.
THEOREM PlanIsJournaled == Spec => []AppliedPlanIsJournaled
<1>1. Inv => AppliedPlanIsJournaled
  BY DEF Inv, HistoryInv, AppliedPlanIsJournaled
<1>2. QED
  BY <1>1, Invariance, PTL

\* The lease of a session holds the plan that was in force before it.
THEOREM OriginIsKept == Spec => []CapturedPlanIsOrigin
<1>1. Inv => CapturedPlanIsOrigin
  BY DEF Inv, HistoryInv, CapturedPlanIsOrigin
<1>2. QED
  BY <1>1, Invariance, PTL

\* The session in memory and the lease file describe each other.
THEOREM MemoryAndJournalAgree == Spec => []MemoryMatchesJournal
<1>1. Inv => MemoryMatchesJournal
  BY DEF Inv, SessionInv, MemoryMatchesJournal, Running
<1>2. QED
  BY <1>1, Invariance, PTL

\* A plan chosen by somebody else before the agent looked is not overwritten by
\* a restore, a recovery or a shutdown.
THEOREM ForeignPlansSurvive == Spec => []RestoresOnlyManagedPlan
<1>1. Inv => RestoresOnlyManagedPlan
  BY DEF Inv
<1>2. QED
  BY <1>1, Invariance, PTL

\* A session that has ended leaves nothing behind.
THEOREM NothingIsLeft == Spec => []EndedSessionLeavesNothing
<1>1. Inv => EndedSessionLeavesNothing
  BY ConstantsAssumption
     DEF Inv, TypeInv, TypeOK, SessionInv, HistoryInv, Unsettled, Running,
         EndedSessionLeavesNothing
<1>2. QED
  BY <1>1, Invariance, PTL

-----------------------------------------------------------------------------
(* What a step may never do.                                               *)

\* One step never moves a scheduled restore.
LEMMA DeadlineStep ==
  ASSUME Inv, [Next]_vars, pending # NoRestore, pending' # NoRestore
  PROVE  /\ pending'.left <= pending.left
         /\ pending'.plan = pending.plan
         /\ pending'.profile = pending.profile
<1>1. pending \in PendingRestore /\ pending.left \in Nat /\ winner = NoProfile
  BY ConstantsAssumption DEF Inv, TypeInv, TypeOK, SessionInv, PendingRestore
<1>2. pending.left <= pending.left
  BY <1>1
<1>3. SUFFICES ASSUME pending' # pending
      PROVE    pending'.left <= pending.left
               /\ pending'.plan = pending.plan /\ pending'.profile = pending.profile
  BY <1>2
<1>4. Tick
  <2> USE <1>3 DEF memory, control, history
  <2>1. CASE UNCHANGED vars
    BY <2>1 DEF vars
  <2>2. CASE Lifecycle
    BY <2>2 DEF Lifecycle, Start, Shutdown, ReleaseOnce, Crash, Exit, MemoryIsFresh
  <2>3. CASE Recovery
    BY <2>3 DEF Recovery, NothingToRecover, ResumeLease, ReleaseLease, RecoveryFails,
                RecoverRestore, RecoverForget
  <2>4. CASE Triggers
    BY <2>4 DEF Triggers, Reload, Snapshot, ProcessesChange, SnapshotFails, Promote
  <2>5. CASE Evaluation
    BY <1>1, <2>5 DEF Evaluation, ReadFails, TakeControl, Record, CancelRestore, RecordFails, Apply,
       ApplyFails, RestoreFallsDue, ScheduleRestore, LeavePlan, NothingToClose, Restore,
       RestoreFails, Settle, SettleFails
  <2>6. CASE Releasing
    BY <2>6 DEF Releasing, Release, ReleaseRestore, ReleaseForget, ReleaseEnds, Exit,
                MemoryIsFresh
  <2>7. CASE Environment
    BY <2>7 DEF Environment, CorruptLease, ForeignChange
  <2>8. QED
    BY <2>1, <2>2, <2>3, <2>4, <2>5, <2>6, <2>7 DEF Next
<1>5. QED
  BY <1>1, <1>4 DEF Tick, PendingRestore

\* No event, edit or failure moves a scheduled restore.
THEOREM DeadlineNeverMoves == Spec => DeadlineIsFixed
<1>1. Inv /\ [Next]_vars =>
        [pending # NoRestore /\ pending' # NoRestore =>
           /\ pending'.left <= pending.left
           /\ pending'.plan = pending.plan
           /\ pending'.profile = pending.profile]_vars
  BY DeadlineStep
<1>2. QED
  BY <1>1, Invariance, PTL DEF Spec, DeadlineIsFixed

\* Of two profiles with one id in a loaded configuration there is only one.
LEMMA IdsUnique ==
  ASSUME NEW c \in Configs \cup {DefaultConfig},
         NEW i \in DOMAIN c.profiles, NEW j \in DOMAIN c.profiles,
         c.profiles[i].id = c.profiles[j].id
  PROVE  i = j
BY ValidConfigs DEF DefaultConfig

\* Only recording a session changes the winner of an evaluation.
LEMMA WinnerChosenByRecord ==
  ASSUME Inv, [Next]_vars, pc = "record", winner' # winner, winner' # NoProfile
  PROVE  Record
<1> USE DEF memory, control, history
<1>1. CASE UNCHANGED vars
  BY <1>1 DEF vars
<1>2. CASE Lifecycle
  BY <1>2 DEF Lifecycle, Start, Shutdown, ReleaseOnce, Crash, Exit, MemoryIsFresh
<1>3. CASE Recovery
  BY <1>3 DEF Recovery, NothingToRecover, ResumeLease, ReleaseLease, RecoveryFails,
              RecoverRestore, RecoverForget
<1>4. CASE Triggers
  BY <1>4 DEF Triggers, Reload, Snapshot, ProcessesChange, SnapshotFails, Promote
<1>5. CASE Evaluation
  BY <1>5 DEF Evaluation, ReadFails, TakeControl, RecordFails, Apply, ApplyFails,
     RestoreFallsDue, ScheduleRestore, LeavePlan, NothingToClose, NoneActive, Restore,
     RestoreFails, Settle, SettleFails
<1>6. CASE Releasing
  BY <1>6 DEF Releasing, Release, ReleaseRestore, ReleaseForget, ReleaseEnds, Exit,
              MemoryIsFresh
<1>7. CASE Environment
  BY <1>7 DEF Environment, CorruptLease, ForeignChange, Tick
<1>8. QED
  BY <1>1, <1>2, <1>3, <1>4, <1>5, <1>6, <1>7 DEF Next

\* Recording a session replaces an active winner only by a promotion or by a
\* higher priority.
LEMMA PriorityStep ==
  ASSUME Inv, [Next]_vars,
         NEW i \in DOMAIN config.profiles, NEW j \in DOMAIN config.profiles,
         i \in ActiveAt, pc = "record", winner' # winner,
         config.profiles[i].id = winner, config.profiles[j].id = winner'
  PROVE  winner' = manual \/ config.profiles[j].priority > config.profiles[i].priority
<1>1. config \in Configs \cup {DefaultConfig} /\ TypeInv
  BY DEF Inv, TypeInv, TypeOK
<1>2. config.profiles[j] \in ProfileSettings
  BY <1>1, ConfigTyped
<1>3. winner' # NoProfile
  BY <1>2, ConstantsAssumption DEF ProfileSettings
<1>4. Record
  BY <1>3, WinnerChosenByRecord
<1>5. PICK w \in ActiveAt : IsWinner(w, ActiveAt) /\ config.profiles[w].id = winner'
  BY <1>1, <1>4, RecordFacts
<1>6. w \in DOMAIN config.profiles
  BY <1>1, ActiveTyped
<1>7. w = j
  BY <1>1, <1>5, <1>6, IdsUnique
<1>8. CASE winner' = manual
  BY <1>8
<1>9. CASE winner' # manual
  <2>1. TopPriority(w, ActiveAt) /\ ~TopPriority(i, ActiveAt)
    BY <1>5, <1>9 DEF IsWinner
  <2>2. PICK k \in ActiveAt : ~(config.profiles[k].priority <= config.profiles[i].priority)
    BY <2>1 DEF TopPriority
  <2>3. config.profiles[k].priority <= config.profiles[w].priority
    BY <2>1 DEF TopPriority
  <2>4. /\ config.profiles[k].priority \in Nat
        /\ config.profiles[w].priority \in Nat
        /\ config.profiles[i].priority \in Nat
    BY <1>1, ActiveTyped DEF ProfileSettings
  <2>5. QED
    BY <1>7, <2>2, <2>3, <2>4
<1>10. QED
  BY <1>8, <1>9

\* Profiles of equal priority never take control from each other by themselves.
THEOREM ControlIsStable == Spec => EqualPriorityKeepsControl
<1>1. Inv /\ [Next]_vars =>
        [pc = "record" /\ winner' # winner =>
           \A i \in ActiveAt, j \in DOMAIN config.profiles :
             config.profiles[i].id = winner /\ config.profiles[j].id = winner' =>
               winner' = manual \/ config.profiles[j].priority > config.profiles[i].priority]_vars
  BY PriorityStep DEF ActiveAt
<1>2. QED
  BY <1>1, Invariance, PTL DEF Spec, EqualPriorityKeepsControl

=============================================================================
