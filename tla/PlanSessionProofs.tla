--------------------------- MODULE PlanSessionProofs ---------------------------
(***************************************************************************)
(* PowerControl implements PlanSession: whatever its configurations, its   *)
(* processes and its failures, the agent borrows the power plan.           *)
(***************************************************************************)
EXTENDS PowerControlProofs

-----------------------------------------------------------------------------
(* The invariant of PowerControlProofs does not say where the plan of a    *)
(* restore comes from. Return of PlanSession asks for it.                  *)

\* A plan that is to be put back is the one the session remembers, or one that some
\* configuration asks for.
ReturnsAreKnown ==
  /\ lease # NoLease => lease.restore \in {NoPlan, lease.previous} \cup ClosePlans
  /\ journal \in Lease => journal.restore \in {NoPlan, journal.previous} \cup ClosePlans
  /\ pending # NoRestore => pending.plan \in {lease.previous} \cup ClosePlans

\* The close behaviour of a loaded profile asks for the previous plan, its own or none.
LEMMA RestorePlanKnown ==
  ASSUME NEW c \in Configs \cup {DefaultConfig}, NEW i \in DOMAIN c.profiles,
         NEW previous \in Plans
  PROVE  RestorePlanFor(c.profiles[i], previous) \in {NoPlan, previous} \cup ClosePlans
<1> DEFINE s == c.profiles[i]
<1>1. s \in ProfileSettings
  BY ConfigTyped
<1>2. c \in Configs
  BY DEF DefaultConfig
<1>3. s.closeBehavior = "specific" => s.closePlan \in ClosePlans
  <2>1. HAVE s.closeBehavior = "specific"
  <2>2. s.closePlan \in Plans
    BY <1>1, <1>2, <2>1, ValidConfigs DEF ProfileSettings
  <2>3. QED
    BY <1>2, <2>2 DEF ClosePlans
<1>4. s.closeBehavior \in {"previous", "specific", "nothing"}
  BY <1>1 DEF ProfileSettings
<1>5. QED
  BY <1>3, <1>4 DEF RestorePlanFor

\* Start-up, recovery, release, events and the machine keep it: they only drop a lease, a
\* restore or both.
LEMMA OthersKeepReturns ==
  ASSUME TypeInv, SessionInv, ReturnsAreKnown,
         Lifecycle \/ Recovery \/ Releasing \/ Triggers \/ Environment
  PROVE  ReturnsAreKnown'
<1> USE ConstantsAssumption
    DEF TypeInv, TypeOK, SessionInv, Running, Controlling, ReturnsAreKnown, memory,
        control, history
<1>1. CASE Lifecycle
  BY <1>1 DEF Lifecycle, Start, Shutdown, ReleaseOnce, Crash, Exit, OpenLease, MemoryIsFresh
<1>2. CASE Recovery
  BY <1>2 DEF Recovery, NothingToRecover, ResumeLease, ReleaseLease, RecoveryFails,
              RecoverRestore, RecoverForget, ClearLease, GiveBack
<1>3. CASE Releasing
  BY <1>3 DEF Releasing, Release, ReleaseRestore, ReleaseForget, ReleaseEnds, Exit,
              ClearLease, GiveBack, MemoryIsFresh
<1>4. CASE Triggers
  BY <1>4 DEF Triggers, Reload, Snapshot, ProcessesChange, SnapshotFails, Promote
<1>5. CASE Environment
  <2>1. CASE Tick
    <3>1. pending # NoRestore /\ pending'.plan = pending.plan
      BY <2>1 DEF Tick, PendingRestore
    <3>2. UNCHANGED <<lease, journal>>
      BY <2>1 DEF Tick
    <3>3. QED
      BY <3>1, <3>2
  <2>2. CASE CorruptLease \/ \E plan \in Plans : ForeignChange(plan)
    BY <2>2 DEF CorruptLease, ForeignChange
  <2>3. QED
    BY <1>5, <2>1, <2>2 DEF Environment
<1>6. QED
  BY <1>1, <1>2, <1>3, <1>4, <1>5

\* An evaluation records and schedules no other plan.
LEMMA EvaluationKeepsReturns ==
  ASSUME TypeInv, SessionInv, ReturnsAreKnown, Evaluation
  PROVE  ReturnsAreKnown'
<1> USE DEF TypeInv, TypeOK, SessionInv, ReturnsAreKnown, Running, Controlling, memory,
            control, history
<1>1. CASE Record
  <2>1. previousPlan \in Plans
    BY <1>1, RecordFacts DEF Lease
  <2>2. PICK i \in ActiveAt :
          /\ lease' = LeaseFor(config.profiles[i],
                               IF previousPlan = NoPlan THEN seen ELSE previousPlan)
          /\ journal' = Journaled(lease')
    BY <1>1 DEF Record, CancelRestore
  <2>3. i \in DOMAIN config.profiles
    BY ActiveTyped
  <2>4. lease' = LeaseFor(config.profiles[i], previousPlan)
    BY <2>1, <2>2, ConstantsAssumption
  <2>5. /\ lease'.previous = previousPlan
        /\ lease'.restore = RestorePlanFor(config.profiles[i], previousPlan)
    BY <2>4 DEF LeaseFor
  <2>6. lease'.restore \in {NoPlan, lease'.previous} \cup ClosePlans
    BY <2>1, <2>3, <2>5, RestorePlanKnown
  <2>7. journal' \in {journal, lease'} /\ pending' = NoRestore
    BY <1>1, <2>2 DEF Journaled, Record, CancelRestore
  <2>8. QED
    BY <2>6, <2>7
<1>2. CASE ScheduleRestore
  <2>1. winner \in Profiles /\ HasCloseTerms /\ CloseTerms.plan # NoPlan
    BY <1>2 DEF ScheduleRestore
  <2>2. lease \in Lease /\ previousPlan = lease.previous /\ lease.previous \in Plans
    BY <2>1, ConstantsAssumption DEF Lease
  <2>3. CloseTerms.plan \in {lease.previous} \cup ClosePlans
    <3>1. CASE winner \in ProfileIds(config)
      <4>1. PICK i \in DOMAIN config.profiles : SettingsOf(config, winner) = config.profiles[i]
        BY <3>1 DEF ProfileIds, SettingsOf
      <4>2. CloseTerms.plan = RestorePlanFor(SettingsOf(config, winner), previousPlan)
        BY <3>1 DEF CloseTerms
      <4>3. QED
        BY <2>1, <2>2, <4>1, <4>2, RestorePlanKnown
    <3>2. CASE winner \notin ProfileIds(config)
      BY <2>1, <2>2, <3>2, ConstantsAssumption DEF CloseTerms
    <3>3. QED
      BY <3>1, <3>2
  <2>4. pending'.plan = CloseTerms.plan /\ UNCHANGED <<lease, journal>>
    BY <1>2 DEF ScheduleRestore, NoneActive
  <2>5. QED
    BY <2>3, <2>4
<1>3. CASE Settle
  BY <1>3, ConstantsAssumption DEF Settle, ClearLease
<1>4. CASE ReadFails \/ TakeControl \/ RecordFails \/ Apply \/ ApplyFails
  BY <1>4 DEF ReadFails, TakeControl, RecordFails, Apply, ApplyFails
<1>5. CASE RestoreFallsDue \/ LeavePlan \/ NothingToClose
  BY <1>5 DEF RestoreFallsDue, LeavePlan, NothingToClose, NoneActive
<1>6. CASE Restore \/ RestoreFails \/ SettleFails
  BY <1>6 DEF Restore, GiveBack, RestoreFails, SettleFails
<1>7. QED
  BY <1>1, <1>2, <1>3, <1>4, <1>5, <1>6 DEF Evaluation

-----------------------------------------------------------------------------
(* Every step is a step of PlanSession, or changes nothing it speaks of.   *)

\* What the disk holds of a session that the agent remembers.
LEMMA SessionOnDisk ==
  ASSUME TypeInv, SessionInv, pc # "off", lease # NoLease
  PROVE  /\ lease \in Lease /\ journal = lease
         /\ LeasedSession # NoLease
         /\ LeasedSession.previous = lease.previous
         /\ LeasedSession.managed = lease.managed
<1>1. lease \in Lease /\ journal = lease
  BY ConstantsAssumption DEF TypeInv, TypeOK, SessionInv
<1>2. [previous |-> lease.previous, managed |-> lease.managed]
        \in [previous : Plans, managed : Plans]
  BY <1>1 DEF Lease
<1>3. QED
  BY <1>1, <1>2, ConstantsAssumption DEF LeasedSession

\* The agent starts as PlanSession does.
LEMMA BorrowedInit == Init => Borrowed!Init
BY ConstantsAssumption DEF Init, Borrowed!Init, LeasedSession, Phase

\* A call that fails, or a process that ends, leaves the session recorded, and what was
\* lost sight of stays so.
LEMMA FailingSteps ==
  ASSUME TypeInv,
         \/ RecoveryFails \/ RecordFails \/ RestoreFails \/ SettleFails
         \/ ReleaseEnds \/ Crash
  PROVE  Borrowed!Fail
<1> USE DEF memory, control, history, Return, Exit
<1>1. UNCHANGED <<activePlan, setBy, journal>> /\ pc' \in {"idle", "off"}
  BY DEF RecoveryFails, RecordFails, RestoreFails, SettleFails, ReleaseEnds, Crash
<1>2. UNCHANGED LeasedSession /\ Phase' = "idle"
  BY <1>1 DEF LeasedSession, Phase
<1>3. stale' \in BOOLEAN
  BY DEF TypeInv, TypeOK, RecoveryFails, RecordFails, RestoreFails, SettleFails,
         ReleaseEnds, Crash
<1>4. journal # NoLease /\ stale => stale'
  BY DEF TypeInv, TypeOK, RecoveryFails, RecordFails, RestoreFails, SettleFails,
         ReleaseEnds, Crash
<1>5. LeasedSession # NoLease => journal # NoLease
  BY ConstantsAssumption DEF LeasedSession
<1>6. QED
  BY <1>1, <1>2, <1>3, <1>4, <1>5 DEF Borrowed!Fail, Borrowed!InSession

\* The plan that a recovery, a close or a release puts back is one the session may end with.
LEMMA ReturningSteps ==
  ASSUME TypeInv, SessionInv, ReturnsAreKnown,
         RecoverRestore \/ Restore \/ ReleaseRestore
  PROVE  Borrowed!Return
<1> USE DEF memory, control, history, Goto, GiveBack, SetPlan
<1>1. pc # "off" /\ lease # NoLease
  BY DEF TypeInv, PlacesReady, SessionInv, Controlling, RecoverRestore, Restore, ReleaseRestore
<1>2. LeasedSession.previous = lease.previous
  BY <1>1, SessionOnDisk
<1>3. activePlan' \in {lease.previous} \cup ClosePlans /\ setBy' = "agent"
  BY <1>1 DEF TypeInv, PlacesReady, ReturnsAreKnown, RecoverRestore, Restore, ReleaseRestore
<1>4. UNCHANGED <<LeasedSession, stale>>
  BY DEF LeasedSession, RecoverRestore, Restore, ReleaseRestore
<1>5. Phase = "returning" /\ Phase' = "ending"
  BY DEF Phase, RecoverRestore, Restore, ReleaseRestore
<1>6. QED
  BY <1>2, <1>3, <1>4, <1>5 DEF Borrowed!Return, Borrowed!Returns

\* A session ends on the disk when it is over.
LEMMA EndingSteps ==
  ASSUME RecoverForget \/ Settle \/ ReleaseForget
  PROVE  Borrowed!End
<1> USE DEF Return, ClearLease, HistoryEnds, memory
<1>1. UNCHANGED <<activePlan, setBy>> /\ journal' = NoLease /\ stale' = FALSE
  BY DEF RecoverForget, Settle, ReleaseForget
<1>2. LeasedSession' = NoLease
  BY <1>1, ConstantsAssumption DEF LeasedSession
<1>3. Phase = "ending" /\ Phase' = "idle"
  BY DEF Phase, RecoverForget, Settle, ReleaseForget
<1>4. QED
  BY <1>1, <1>2, <1>3 DEF Borrowed!End

\* Whoever decides to give a plan back, or to let the one in force be, has just read it.
LEMMA LookingSteps ==
  ASSUME TypeInv, SessionInv,
         ReleaseLease \/ RestoreFallsDue \/ LeavePlan \/ Release
  PROVE  Borrowed!Look \/ Borrowed!Leave
<1> USE DEF memory, control, history, ReadPlanAndGoto, NoneActive
<1>1. Phase = "idle" /\ pc # "off"
  BY DEF Phase, ReleaseLease, RestoreFallsDue, LeavePlan, Release
<1>2. UNCHANGED <<activePlan, setBy, LeasedSession, stale>>
  BY DEF LeasedSession, ReleaseLease, RestoreFallsDue, LeavePlan, Release
<1>3. CASE pc' \in {"recoverRestore", "restore", "releaseRestore"}
  <2>1. lease # NoLease /\ activePlan = lease.managed
    BY <1>3 DEF SessionInv, Controlling, ReleaseLease, RestoreFallsDue, RestoreDue, LeavePlan,
                Release, MustGiveBack
  <2>2. Phase' = "returning"
    BY <1>3 DEF Phase
  <2>3. QED
    BY <1>1, <1>2, <2>1, <2>2, SessionOnDisk DEF Borrowed!Look, Borrowed!InSession
<1>4. CASE pc' \in {"recoverForget", "settle", "drop", "releaseForget"}
  <2>1. Phase' = "ending"
    BY <1>4 DEF Phase
  <2>2. QED
    BY <1>1, <1>2, <2>1 DEF Borrowed!Leave
<1>5. QED
  BY <1>3, <1>4 DEF ReleaseLease, RestoreFallsDue, LeavePlan, Release

\* A session is recorded anew, handed over, or recorded over one that was lost sight of.
LEMMA RecordingSteps ==
  ASSUME TypeInv, SessionInv, HistoryInv, Record
  PROVE  Borrowed!Begin \/ Borrowed!HandOver
<1>1. /\ lease' \in Lease
      /\ journal' = IF lease = lease' THEN journal ELSE lease'
      /\ lease'.previous = previousPlan
      /\ pc = "record" /\ pc' \in {"idle", "apply"}
      /\ UNCHANGED <<activePlan, setBy, stale>>
  BY RecordFacts DEF Record, CancelRestore
<1>2. journal' = lease'
  BY <1>1, ConstantsAssumption DEF SessionInv
<1>3. LeasedSession' = [previous |-> previousPlan, managed |-> lease'.managed]
  BY <1>1, <1>2 DEF LeasedSession
<1>4. LeasedSession' \in Borrowed!Session
  BY <1>1, <1>3 DEF Borrowed!Session, Lease
<1>5. Phase = "idle" /\ Phase' = "idle"
  BY <1>1 DEF Phase
<1>6. CASE LeasedSession = NoLease \/ stale
  BY <1>1, <1>4, <1>5, <1>6 DEF Borrowed!Begin, Borrowed!InSession
<1>7. CASE LeasedSession # NoLease /\ ~stale
  <2>1. journal \in Lease /\ lease = journal
    BY <1>1, <1>7, ConstantsAssumption DEF LeasedSession, SessionInv
  <2>2. lease # NoLease
    BY <2>1, ConstantsAssumption
  <2>3. Controlling /\ previousPlan = lease.previous
    BY <1>1, <1>7, <2>2 DEF HistoryInv, SessionInv, Running, Unsettled
  <2>4. LeasedSession'.previous = LeasedSession.previous
    BY <1>3, <2>1, <2>3 DEF LeasedSession
  <2>5. QED
    BY <1>1, <1>4, <1>5, <1>7, <2>4 DEF Borrowed!HandOver, Borrowed!InSession
<1>8. QED
  BY <1>6, <1>7

\* The plan of a session is set after it was recorded.
LEMMA ApplyingStep ==
  ASSUME TypeInv, SessionInv, Apply
  PROVE  Borrowed!Take
<1> USE DEF memory, control, history, Return
<1>1. pc = "apply" /\ lease # NoLease /\ activePlan' = lease.managed /\ setBy' = "agent"
  BY DEF SetPlan, TypeInv, PlacesReady, Apply
<1>2. UNCHANGED <<LeasedSession, stale>> /\ Phase = "idle" /\ Phase' = "idle"
  BY <1>1 DEF Apply, LeasedSession, Phase
<1>3. QED
  BY <1>1, <1>2, SessionOnDisk DEF Borrowed!Take, Borrowed!InSession

\* The user picks a plan, or the file is damaged.
LEMMA MachineSteps ==
  ASSUME TypeInv, CorruptLease \/ \E plan \in Plans : ForeignChange(plan)
  PROVE  Borrowed!Damage \/ Borrowed!UserPicks
<1> USE DEF memory, control, history
<1>1. CASE CorruptLease
  <2>1. pc = "off" /\ UNCHANGED <<activePlan, setBy, pc>> /\ journal' = Corrupt /\ stale' = FALSE
    BY <1>1 DEF CorruptLease, HistoryEnds
  <2>2. LeasedSession' = NoLease /\ Phase = "idle" /\ UNCHANGED Phase
    BY <2>1, ConstantsAssumption DEF LeasedSession, Phase
  <2>3. QED
    BY <2>1, <2>2 DEF Borrowed!Damage
<1>2. CASE \E plan \in Plans : ForeignChange(plan)
  <2>1. activePlan' \in Plans /\ setBy' = "user" /\ UNCHANGED <<journal, pc, stale>>
    BY <1>2 DEF ForeignChange
  <2>2. UNCHANGED <<LeasedSession, Phase>>
    BY <2>1 DEF LeasedSession, Phase
  <2>3. QED
    BY <2>1, <2>2 DEF Borrowed!UserPicks
<1>3. QED
  BY <1>1, <1>2

\* The rest of the agent's work does not touch the plan, nor the session on the disk.
LEMMA SilentSteps ==
  ASSUME \/ \E c \in Configs \cup {DefaultConfig} : Start(c)
         \/ Shutdown \/ ReleaseOnce \/ NothingToRecover \/ ResumeLease \/ Triggers \/ Tick
         \/ ReadFails \/ TakeControl \/ ApplyFails \/ ScheduleRestore \/ NothingToClose
  PROVE  UNCHANGED <<activePlan, setBy, LeasedSession, Phase, stale>>
<1> USE DEF memory, control, history, Goto, ReadPlanAndGoto, Return
<1>1. CASE (\E c \in Configs \cup {DefaultConfig} : Start(c)) \/ ReleaseOnce
  <2>1. UNCHANGED <<activePlan, setBy, stale>>
    BY <1>1 DEF Start, ReleaseOnce
  <2>2. journal' = journal \/ {journal, journal'} = {Corrupt, NoLease}
    BY <1>1 DEF Start, ReleaseOnce, OpenLease
  <2>3. pc = "off" /\ pc' \in {"recover", "release"}
    BY <1>1 DEF Start, ReleaseOnce
  <2>4. UNCHANGED LeasedSession
    BY <2>2, ConstantsAssumption DEF LeasedSession
  <2>5. UNCHANGED Phase
    BY <2>3 DEF Phase
  <2>6. QED
    BY <2>1, <2>4, <2>5
<1>2. CASE Shutdown \/ NothingToRecover \/ ResumeLease \/ Triggers \/ Tick
  <2>1. UNCHANGED <<activePlan, setBy, journal, stale>>
    BY <1>2 DEF Shutdown, NothingToRecover, ResumeLease, Triggers, Reload, Snapshot,
                SnapshotFails, ProcessesChange, Promote, Tick
  <2>2. UNCHANGED Phase
    BY <1>2 DEF Phase, Shutdown, NothingToRecover, ResumeLease, Triggers, Reload, Snapshot,
                SnapshotFails, ProcessesChange, Promote, Tick
  <2>3. QED
    BY <2>1, <2>2 DEF LeasedSession
<1>3. CASE ReadFails \/ TakeControl \/ ApplyFails \/ ScheduleRestore \/ NothingToClose
  <2>1. UNCHANGED <<activePlan, setBy, journal, stale>>
    BY <1>3 DEF ReadFails, TakeControl, ApplyFails, ScheduleRestore, NothingToClose, NoneActive
  <2>2. UNCHANGED Phase
    BY <1>3 DEF Phase, ReadFails, TakeControl, ApplyFails, ScheduleRestore, NothingToClose,
                NoneActive
  <2>3. QED
    BY <2>1, <2>2 DEF LeasedSession
<1>4. QED
  BY <1>1, <1>2, <1>3

-----------------------------------------------------------------------------
(* The theorems.                                                           *)

\* A restore, whether scheduled, recovered or released, puts back the plan its session
\* remembers or one that a configuration asks for.
THEOREM ReturnsKnown == Spec => []ReturnsAreKnown
<1>1. Init => ReturnsAreKnown
  BY ConstantsAssumption DEF Init, ReturnsAreKnown
<1>2. Inv /\ ReturnsAreKnown /\ [Next]_vars => ReturnsAreKnown'
  <2> SUFFICES ASSUME Inv, ReturnsAreKnown, [Next]_vars PROVE ReturnsAreKnown'
    OBVIOUS
  <2>1. CASE UNCHANGED vars
    BY <2>1 DEF vars, memory, ReturnsAreKnown
  <2>2. CASE Next
    BY <2>2, OthersKeepReturns, EvaluationKeepsReturns DEF Next, Inv
  <2>3. QED
    BY <2>1, <2>2
<1>3. QED
  BY <1>1, <1>2, Invariance, PTL DEF Spec

\* One step of the agent or the machine is one of PlanSession, or none.
LEMMA BorrowedStep ==
  ASSUME Inv, ReturnsAreKnown, [Next]_vars
  PROVE  [Borrowed!Next]_Borrowed!vars
<1> USE DEF Inv, Borrowed!Next, Borrowed!vars
<1>1. CASE UNCHANGED vars
  BY <1>1 DEF vars, control, history, LeasedSession, Phase
<1>2. CASE Lifecycle \/ Recovery \/ Releasing
  BY <1>2, SilentSteps, FailingSteps, ReturningSteps, EndingSteps, LookingSteps
     DEF Lifecycle, Recovery, Releasing
<1>3. CASE Triggers \/ Environment
  BY <1>3, SilentSteps, MachineSteps DEF Environment
<1>4. CASE Evaluation
  BY <1>4, SilentSteps, FailingSteps, ReturningSteps, EndingSteps, LookingSteps,
     RecordingSteps, ApplyingStep DEF Evaluation
<1>5. QED
  BY <1>1, <1>2, <1>3, <1>4 DEF Next

\* The agent borrows the power plan, whatever is configured, whatever fails and whenever
\* it is killed: PowerControl implements PlanSession.
THEOREM Refinement == Spec => PlanIsBorrowed
<1>1. Init => Borrowed!Init
  BY BorrowedInit
<1>2. Inv /\ ReturnsAreKnown /\ [Next]_vars => [Borrowed!Next]_Borrowed!vars
  BY BorrowedStep
<1>3. QED
  BY <1>1, <1>2, Invariance, ReturnsKnown, PTL DEF Spec, PlanIsBorrowed, Borrowed!Spec

=============================================================================
