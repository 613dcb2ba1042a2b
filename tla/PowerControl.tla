---------------------------- MODULE PowerControl ----------------------------
(***************************************************************************)
(* The agent's control over the Windows power plan: the evaluation that    *)
(* picks a winning profile, applies its plan and later restores another    *)
(* one (engine.rs), the lease file that lets it survive a crash            *)
(* (power_lease.rs), and the loop that starts, reconciles and shuts it     *)
(* down (lib.rs, runtime_reconcile.rs).                                    *)
(*                                                                         *)
(* Every call that leaves the process (reading the active plan, setting    *)
(* it, writing or removing the lease file) is a step of its own, so that   *)
(* the user, a failing call or a crash can come between two of them.       *)
(* Computation between two calls belongs to the step of the first call.    *)
(***************************************************************************)
EXTENDS Naturals, Sequences, FiniteSets

CONSTANTS
  Plans,         \* identifiers of Windows power plans
  Profiles,      \* identifiers of PowerShift profiles
  Configs,       \* the validated configurations the agent can load
  Observations,  \* what process tracking can report, see registry
  MaxDelay,      \* bound on close delays, in ticks (3600 s in the code)
  Faults,        \* the failures the environment may cause
  NoPlan, NoProfile, NoLease, NoRestore, Corrupt

Roles == {"main", "companion", "trigger"}

FaultKinds == {"read", "set", "record", "clear", "snapshot", "crash", "corrupt"}

ProfileSettings ==
  [id : Profiles, enabled : BOOLEAN, plan : Plans, priority : 0..100,
   closeBehavior : {"previous", "specific", "nothing"},
   closePlan : Plans \cup {NoPlan}, delay : 0..MaxDelay, requireMain : BOOLEAN]

\* enabled stands for agent.enabled /\ automation.enabled.
Config == [enabled : BOOLEAN, profiles : Seq(ProfileSettings)]

\* Without a loadable file the agent runs with no profile.
DefaultConfig == [enabled |-> TRUE, profiles |-> << >>]

Lease ==
  [previous : Plans, managed : Plans, profile : Profiles,
   restore : Plans \cup {NoPlan}, delay : 0..MaxDelay]

\* left is due_at_ms - now_ms, cut off at zero.
PendingRestore == [left : 0..MaxDelay, plan : Plans, profile : Profiles]

ASSUME ConstantsAssumption ==
  /\ MaxDelay \in Nat
  /\ Faults \subseteq FaultKinds
  /\ Configs \subseteq Config
  /\ Observations \subseteq [Profiles -> SUBSET Roles]
  /\ NoPlan \notin Plans
  /\ NoProfile \notin Profiles
  /\ NoLease \notin Lease \cup [previous : Plans, managed : Plans]
  /\ Corrupt \notin Lease \cup {NoLease}
  /\ NoRestore \notin PendingRestore

\* What validate_config guarantees of every configuration the agent loads.
ASSUME ValidConfigs ==
  \A c \in Configs :
    /\ \A i, j \in DOMAIN c.profiles :
         c.profiles[i].id = c.profiles[j].id => i = j
    /\ \A i \in DOMAIN c.profiles :
         c.profiles[i].closeBehavior = "specific" => c.profiles[i].closePlan # NoPlan

VARIABLES
  activePlan,      \* Windows: the plan in force
  journal,         \* disk: the lease file
  lease,           \* PowerLeaseStore.current, the agent's copy of it
  config,          \* the configuration the agent loaded last
  registry,        \* per profile, the roles its tracked processes play
  activeProfiles,  \* AgentRuntimeState.active_profile_ids
  winner,          \* AgentRuntimeState.winning_profile_id
  manual,          \* AgentRuntimeState.manual_control_profile_id
  previousPlan,    \* AgentRuntimeState.previous_plan_id
  pending,         \* AgentRuntimeState.pending_restore
  seen,            \* active_plan as the current evaluation read it
  pc,              \* where the agent's main thread stands
  origin,          \* history: plan read when the current session began
  ours,            \* history: plan the agent put in force and has not given back
  torn,            \* history: a change of managed plan is recorded, not applied
  stale,           \* history: a failure made a captured plan outlive its session
  setBy            \* history: who put the plan in force, the user or the agent

memory   == <<lease, config, registry, activeProfiles, winner, manual,
              previousPlan, pending>>
control  == <<pc, seen>>
history  == <<origin, ours, torn, stale, setBy>>
vars     == <<activePlan, journal, memory, control, history>>

PcStates ==
  {"off", "recover", "recoverRestore", "recoverForget", "reconcile", "idle",
   "evaluate", "record", "apply", "restore", "settle", "drop",
   "release", "releaseRestore", "releaseForget"}

\* Type invariant.
TypeOK ==
  /\ activePlan \in Plans
  /\ journal \in Lease \cup {NoLease, Corrupt}
  /\ lease \in Lease \cup {NoLease}
  /\ config \in Configs \cup {DefaultConfig}
  /\ registry \in [Profiles -> SUBSET Roles]
  /\ activeProfiles \subseteq Profiles
  /\ winner \in Profiles \cup {NoProfile}
  /\ manual \in Profiles \cup {NoProfile}
  /\ previousPlan \in Plans \cup {NoPlan}
  /\ pending \in PendingRestore \cup {NoRestore}
  /\ seen \in Plans \cup {NoPlan}
  /\ pc \in PcStates
  /\ origin \in Plans \cup {NoPlan}
  /\ ours \in Plans \cup {NoPlan}
  /\ torn \in BOOLEAN
  /\ stale \in BOOLEAN
  /\ setBy \in {"user", "agent"}

-----------------------------------------------------------------------------
(* Resolution: which profiles are active and which one wins.               *)

NothingObserved == [p \in Profiles |-> {}]

ProfileIds(c) == {c.profiles[i].id : i \in DOMAIN c.profiles}

SettingsOf(c, p) == c.profiles[CHOOSE i \in DOMAIN c.profiles : c.profiles[i].id = p]

\* A companion extends a session, it does not start one unless the profile
\* was migrated with require_main_process off.
IsActive(s, roles, wasActive) ==
  /\ s.enabled
  /\ \/ roles \cap {"main", "trigger"} # {}
     \/ "companion" \in roles /\ (wasActive \/ ~s.requireMain)

\* After a recovery only the winner is known to have been active.
PreviouslyActive ==
  IF activeProfiles = {} /\ winner # NoProfile THEN {winner} ELSE activeProfiles

\* Positions of the active profiles: the order of the list breaks ties.
ActiveAt ==
  {i \in DOMAIN config.profiles :
     /\ config.enabled
     /\ LET s == config.profiles[i]
        IN  IsActive(s, registry[s.id], s.id \in PreviouslyActive)}

IdsAt(positions) == {config.profiles[i].id : i \in positions}

ManualIfActive == IF manual \in IdsAt(ActiveAt) THEN manual ELSE NoProfile

TopPriority(i, positions) ==
  \A j \in positions : config.profiles[j].priority <= config.profiles[i].priority

\* Mutant of IsWinner: the incumbent has no say.
IsFirstOfTop(i, positions) ==
  /\ i \in positions
  /\ \/ config.profiles[i].id = manual
     \/ /\ manual \notin IdsAt(positions)
        /\ TopPriority(i, positions)
        /\ \A j \in positions : TopPriority(j, positions) => i <= j

\* choose_winning_profile: the promoted profile, else the incumbent if none has
\* a higher priority, else the first of the highest priority.
IsWinner(i, positions) ==
  /\ i \in positions
  /\ \/ config.profiles[i].id = manual
     \/ /\ manual \notin IdsAt(positions)
        /\ TopPriority(i, positions)
        /\ \/ config.profiles[i].id = winner
           \/ \A j \in positions :
                TopPriority(j, positions) => config.profiles[j].id # winner /\ i <= j

\* Mutant of Captured: a recovered session captures again.
CapturedAnew ==
  IF activeProfiles = {} /\ pending = NoRestore THEN activePlan ELSE previousPlan

\* The plan to come back to is captured once, when nothing is held.
Captured ==
  IF activeProfiles = {} /\ pending = NoRestore /\ previousPlan = NoPlan
  THEN activePlan ELSE previousPlan

RestorePlanFor(s, previous) ==
  CASE s.closeBehavior = "previous" -> previous
    [] s.closeBehavior = "specific" -> s.closePlan
    [] s.closeBehavior = "nothing"  -> NoPlan

LeaseFor(s, previous) ==
  [previous |-> previous, managed |-> s.plan, profile |-> s.id,
   restore |-> RestorePlanFor(s, previous), delay |-> s.delay]

\* Mutant of Journaled: a profile already journaled is not written again.
JournaledByProfile(l) ==
  IF lease # NoLease /\ lease.profile = l.profile THEN journal ELSE l

\* PowerLeaseStore::record does not rewrite the lease it wrote last.
Journaled(l) == IF lease = l THEN journal ELSE l

\* The agent holds, or is about to give back, the power plan.
Controlling == activeProfiles # {} \/ winner # NoProfile \/ pending # NoRestore

\* Mutant of RestoreDue: due only while a profile still wins.
RestoreDueWhileWinning == pending # NoRestore /\ pending.left = 0 /\ winner # NoProfile

RestoreDue == pending # NoRestore /\ pending.left = 0

\* A local variable dies with the call: seen is kept only while it is used.
Goto(place) == pc' = place /\ UNCHANGED seen
ReadPlanAndGoto(place) == pc' = place /\ seen' = activePlan
Return(place) == pc' = place /\ seen' = NoPlan

-----------------------------------------------------------------------------
(* Initial state, start-up and recovery (run_agent_forever,                *)
(* PowerLeaseStore::open, recover_power_control_lease).                    *)

MemoryIsFresh(c) ==
  /\ config' = c
  /\ registry' = NothingObserved
  /\ activeProfiles' = {}
  /\ winner' = NoProfile
  /\ manual' = NoProfile
  /\ previousPlan' = NoPlan
  /\ pending' = NoRestore

Init ==
  /\ activePlan \in Plans
  /\ journal = NoLease
  /\ lease = NoLease
  /\ config = DefaultConfig
  /\ registry = NothingObserved
  /\ activeProfiles = {}
  /\ winner = NoProfile
  /\ manual = NoProfile
  /\ previousPlan = NoPlan
  /\ pending = NoRestore
  /\ seen = NoPlan
  /\ pc = "off"
  /\ origin = NoPlan
  /\ ours = NoPlan
  /\ torn = FALSE
  /\ stale = FALSE
  /\ setBy = "user"

\* An unreadable lease is renamed away; a failing rename is ignored.
OpenLease ==
  \/ journal # Corrupt /\ lease' = journal /\ UNCHANGED journal
  \/ journal = Corrupt /\ lease' = NoLease /\ journal' \in {NoLease, Corrupt}

\* A configuration that cannot be loaded is replaced by the default one.
Start(c) ==
  /\ pc = "off"
  /\ OpenLease
  /\ MemoryIsFresh(c)
  /\ Goto("recover")
  /\ UNCHANGED <<activePlan, history>>

NothingToRecover ==
  /\ pc = "recover" /\ lease = NoLease
  /\ Return("reconcile")
  /\ UNCHANGED <<activePlan, journal, memory, history>>

\* The lease still describes the machine and its profile still exists.
ResumeLease ==
  /\ pc = "recover" /\ lease # NoLease
  /\ activePlan = lease.managed
  /\ lease.profile \in ProfileIds(config)
  /\ previousPlan' = lease.previous
  /\ winner' = lease.profile
  /\ Return("reconcile")
  /\ UNCHANGED <<activePlan, journal, lease, config, registry, activeProfiles,
                 manual, pending, history>>

MustGiveBack == activePlan = lease.managed /\ lease.restore \notin {NoPlan, activePlan}

\* The profile is gone (restore, then forget) or the plan is not ours (forget).
ReleaseLease ==
  /\ pc = "recover" /\ lease # NoLease
  /\ activePlan # lease.managed \/ lease.profile \notin ProfileIds(config)
  /\ ReadPlanAndGoto(IF MustGiveBack THEN "recoverRestore" ELSE "recoverForget")
  /\ UNCHANGED <<activePlan, journal, lease, config, registry, activeProfiles, winner,
                 manual, previousPlan, pending, history>>

\* Any failing call aborts recovery for the rest of this run of the agent.
RecoveryFails ==
  /\ \/ pc = "recover" /\ lease # NoLease /\ "read" \in Faults
     \/ pc = "recoverRestore" /\ "set" \in Faults
     \/ pc = "recoverForget" /\ "clear" \in Faults
  /\ Return("idle")
  /\ stale' = TRUE
  /\ UNCHANGED <<activePlan, journal, memory, origin, ours, torn, setBy>>

\* set_active_plan, called by the agent.
SetPlan(plan) == activePlan' = plan /\ setBy' = "agent"

\* Setting the plan a lease asks for; the plan is then no longer the agent's.
GiveBack(plan) ==
  /\ SetPlan(plan)
  /\ ours' = NoPlan
  /\ UNCHANGED <<origin, torn, stale>>

HistoryEnds ==
  /\ origin' = NoPlan
  /\ ours' = NoPlan
  /\ torn' = FALSE
  /\ stale' = FALSE
  /\ UNCHANGED setBy

\* Mutant of ClearLease: the file is removed, the copy in memory stays.
ClearFileOnly ==
  /\ journal' = NoLease
  /\ HistoryEnds
  /\ UNCHANGED lease

\* PowerLeaseStore::clear; it ends the session the lease stood for.
ClearLease ==
  /\ journal' = NoLease
  /\ lease' = NoLease
  /\ HistoryEnds

RecoverRestore ==
  /\ pc = "recoverRestore"
  /\ GiveBack(lease.restore)
  /\ Goto("recoverForget")
  /\ UNCHANGED <<journal, memory>>

RecoverForget ==
  /\ pc = "recoverForget"
  /\ ClearLease
  /\ Return("reconcile")
  /\ UNCHANGED <<activePlan, config, registry, activeProfiles, winner, manual,
                 previousPlan, pending>>

-----------------------------------------------------------------------------
(* What makes the main loop evaluate: a reconciliation, or a process event *)
(* that changed the registry.                                              *)

\* The scheduler or a due restore asks for a reconciliation; an unreadable
\* configuration keeps the last valid one.
Reload(c) ==
  /\ pc = "idle"
  /\ config' = c
  /\ Goto("reconcile")
  /\ UNCHANGED <<activePlan, journal, lease, registry, activeProfiles, winner, manual,
                 previousPlan, pending, history>>

Snapshot(r) ==
  /\ pc = "reconcile"
  /\ registry' = r
  /\ Goto("evaluate")
  /\ UNCHANGED <<activePlan, journal, lease, config, activeProfiles, winner, manual,
                 previousPlan, pending, history>>

SnapshotFails ==
  /\ pc = "reconcile" /\ "snapshot" \in Faults
  /\ Return("idle")
  /\ UNCHANGED <<activePlan, journal, memory, history>>

\* The tracked instances changed, the roles they play perhaps not.
ProcessesChange(r) ==
  /\ pc = "idle"
  /\ registry' = r
  /\ Goto("evaluate")
  /\ UNCHANGED <<activePlan, journal, lease, config, activeProfiles, winner, manual,
                 previousPlan, pending, history>>

\* PromoteProfile: the name was active when the request was checked.
Promote(p) ==
  /\ pc = "idle"
  /\ manual' = p
  /\ UNCHANGED <<activePlan, journal, lease, config, registry, activeProfiles, winner,
                 previousPlan, pending, control, history>>

-----------------------------------------------------------------------------
(* evaluate_agent_processes_with_journal                                   *)

ReadFails ==
  /\ pc = "evaluate" /\ "read" \in Faults
  /\ Return("idle")
  /\ UNCHANGED <<activePlan, journal, memory, history>>

\* Mutant of TakeControl: the plan is set before its lease is written.
TakePlanFirst ==
  /\ pc = "evaluate" /\ ActiveAt # {}
  /\ manual' = ManualIfActive
  /\ previousPlan' = Captured
  /\ \E i \in ActiveAt : IsWinner(i, ActiveAt) /\ SetPlan(config.profiles[i].plan)
  /\ ReadPlanAndGoto("record")
  /\ UNCHANGED <<journal, lease, config, registry, activeProfiles, winner, pending,
                 origin, ours, torn, stale>>

\* Some profile is active: capture the plan to come back to, if none is held.
TakeControl ==
  /\ pc = "evaluate" /\ ActiveAt # {}
  /\ manual' = ManualIfActive
  /\ previousPlan' = Captured
  /\ ReadPlanAndGoto("record")
  /\ UNCHANGED <<activePlan, journal, lease, config, registry, activeProfiles, winner,
                 pending, history>>

\* Mutant of CancelRestore: a profile that takes control leaves it pending.
KeepRestore == UNCHANGED pending

CancelRestore == pending' = NoRestore

\* The lease reaches the disk before the plan is touched.
Record ==
  /\ pc = "record"
  /\ \E i \in ActiveAt :
       /\ IsWinner(i, ActiveAt)
       /\ LET s == config.profiles[i]
              l == LeaseFor(s, IF previousPlan = NoPlan THEN seen ELSE previousPlan)
          IN  /\ journal' = Journaled(l)
              /\ lease' = l
              /\ winner' = s.id
              /\ IF seen = s.plan THEN Return("idle") ELSE Goto("apply")
              /\ ours' = IF seen = s.plan THEN seen ELSE ours
              /\ torn' = (seen # s.plan /\ (torn \/ ours \notin {NoPlan, s.plan}))
  /\ activeProfiles' = IdsAt(ActiveAt)
  /\ CancelRestore
  /\ origin' = IF Controlling THEN origin ELSE seen
  /\ UNCHANGED <<activePlan, config, registry, manual, previousPlan, stale, setBy>>

\* The captured plan stays in memory although no session began.
RecordFails ==
  /\ pc = "record" /\ "record" \in Faults
  /\ Return("idle")
  /\ stale' = (stale \/ ~Controlling)
  /\ UNCHANGED <<activePlan, journal, memory, origin, ours, torn, setBy>>

Apply ==
  /\ pc = "apply"
  /\ SetPlan(lease.managed)
  /\ ours' = lease.managed
  /\ torn' = FALSE
  /\ Return("idle")
  /\ UNCHANGED <<journal, memory, origin, stale>>

ApplyFails ==
  /\ pc = "apply" /\ "set" \in Faults
  /\ Return("idle")
  /\ UNCHANGED <<activePlan, journal, memory, history>>

\* No profile is active: common part of the four cases below.
NoneActive ==
  /\ pc = "evaluate" /\ ActiveAt = {}
  /\ manual' = NoProfile
  /\ activeProfiles' = {}
  /\ UNCHANGED <<activePlan, journal, lease, config, registry, previousPlan, history>>

\* Mutant of RestoreFallsDue: the plan the user picked meanwhile is overwritten.
RestoreRegardless ==
  /\ NoneActive /\ RestoreDue
  /\ ReadPlanAndGoto(IF activePlan = pending.plan THEN "settle" ELSE "restore")
  /\ UNCHANGED <<winner, pending>>

\* The restore is due: skip it if the plan is no longer the managed one.
RestoreFallsDue ==
  /\ NoneActive /\ RestoreDue
  /\ LET foreign == lease # NoLease /\ activePlan # lease.managed
     IN  ReadPlanAndGoto(IF foreign \/ activePlan = pending.plan THEN "settle" ELSE "restore")
  /\ UNCHANGED <<winner, pending>>

\* The close behaviour comes from the configuration, or from the lease when
\* the profile has been deleted.
CloseTerms ==
  IF winner \in ProfileIds(config)
  THEN LET s == SettingsOf(config, winner)
       IN  [plan |-> RestorePlanFor(s, previousPlan), delay |-> s.delay, profile |-> winner]
  ELSE [plan |-> lease.restore, delay |-> lease.delay, profile |-> lease.profile]

\* Mutant of HasCloseTerms: the lease is not consulted for a deleted profile.
HasConfiguredTerms == winner \in ProfileIds(config)

HasCloseTerms == winner \in ProfileIds(config) \/ lease # NoLease

ScheduleRestore ==
  /\ NoneActive /\ ~RestoreDue
  /\ winner # NoProfile /\ HasCloseTerms /\ CloseTerms.plan # NoPlan
  /\ pending' = [left |-> CloseTerms.delay, plan |-> CloseTerms.plan,
                 profile |-> CloseTerms.profile]
  /\ winner' = NoProfile
  /\ Return("idle")

\* Mutant of LeavePlan: the winner is read, not taken.
LeaveAndKeepWinner ==
  /\ NoneActive /\ ~RestoreDue
  /\ winner # NoProfile /\ HasCloseTerms /\ CloseTerms.plan = NoPlan
  /\ ReadPlanAndGoto("drop")
  /\ UNCHANGED <<winner, pending>>

LeavePlan ==
  /\ NoneActive /\ ~RestoreDue
  /\ winner # NoProfile /\ HasCloseTerms /\ CloseTerms.plan = NoPlan
  /\ winner' = NoProfile
  /\ ReadPlanAndGoto("drop")
  /\ UNCHANGED pending

NothingToClose ==
  /\ NoneActive /\ ~RestoreDue
  /\ winner = NoProfile \/ ~HasCloseTerms
  /\ winner' = NoProfile
  /\ Return("idle")
  /\ UNCHANGED pending

Restore ==
  /\ pc = "restore"
  /\ GiveBack(pending.plan)
  /\ Goto("settle")
  /\ UNCHANGED <<journal, memory>>

RestoreFails ==
  /\ pc = "restore" /\ "set" \in Faults
  /\ Return("idle")
  /\ UNCHANGED <<activePlan, journal, memory, history>>

\* End of a session, after a restore, a foreign change or a close that does nothing.
Settle ==
  /\ pc \in {"settle", "drop"}
  /\ ClearLease
  /\ previousPlan' = NoPlan
  /\ pending' = IF pc = "settle" THEN NoRestore ELSE pending
  /\ Return("idle")
  /\ UNCHANGED <<activePlan, config, registry, activeProfiles, winner, manual>>

SettleFails ==
  /\ pc \in {"settle", "drop"} /\ "clear" \in Faults
  /\ Return("idle")
  /\ stale' = (stale \/ pc = "drop")
  /\ UNCHANGED <<activePlan, journal, memory, origin, ours, torn, setBy>>

-----------------------------------------------------------------------------
(* Shutdown and --release-power-control (release_power_control), crashes,  *)
(* and the rest of the machine.                                            *)

\* The loop is left, and what only it used is gone; the release uses the lease.
Shutdown ==
  /\ pc = "idle"
  /\ MemoryIsFresh(DefaultConfig)
  /\ Goto("release")
  /\ UNCHANGED <<activePlan, journal, lease, history>>

\* The uninstaller runs the same release in a process of its own.
ReleaseOnce ==
  /\ pc = "off"
  /\ OpenLease
  /\ MemoryIsFresh(config)
  /\ Goto("release")
  /\ UNCHANGED <<activePlan, history>>

\* A lost memory takes a captured plan with it unless the lease holds it too.
Exit ==
  /\ lease' = NoLease
  /\ MemoryIsFresh(DefaultConfig)
  /\ Return("off")
  /\ stale' = (stale /\ journal # NoLease)
  /\ UNCHANGED <<activePlan, journal, origin, ours, torn, setBy>>

Release ==
  /\ pc = "release" /\ lease # NoLease
  /\ ReadPlanAndGoto(IF MustGiveBack THEN "releaseRestore" ELSE "releaseForget")
  /\ UNCHANGED <<activePlan, journal, lease, config, registry, activeProfiles, winner,
                 manual, previousPlan, pending, history>>

ReleaseRestore ==
  /\ pc = "releaseRestore"
  /\ GiveBack(lease.restore)
  /\ Goto("releaseForget")
  /\ UNCHANGED <<journal, memory>>

ReleaseForget ==
  /\ pc = "releaseForget"
  /\ ClearLease
  /\ MemoryIsFresh(DefaultConfig)
  /\ Return("off")
  /\ UNCHANGED activePlan

\* Nothing to release, or a call failed: the process ends all the same.
ReleaseEnds ==
  /\ \/ pc = "release" /\ (lease = NoLease \/ "read" \in Faults)
     \/ pc = "releaseRestore" /\ "set" \in Faults
     \/ pc = "releaseForget" /\ "clear" \in Faults
  /\ Exit

\* Killed, or ended by a state file it cannot publish.
Crash ==
  /\ pc # "off" /\ "crash" \in Faults
  /\ Exit

CorruptLease ==
  /\ pc = "off" /\ journal \in Lease /\ "corrupt" \in Faults
  /\ journal' = Corrupt
  /\ HistoryEnds
  /\ UNCHANGED <<activePlan, memory, control>>

\* The user, or another program, picks a plan.
ForeignChange(plan) ==
  /\ plan # activePlan
  /\ activePlan' = plan
  /\ setBy' = "user"
  /\ UNCHANGED <<journal, memory, control, origin, ours, torn, stale>>

\* Mutant of Tick: the subtraction does not saturate.
TickPastDue ==
  /\ pending # NoRestore
  /\ pending' = [pending EXCEPT !.left = @ - 1]
  /\ UNCHANGED <<activePlan, journal, lease, config, registry, activeProfiles, winner,
                 manual, previousPlan, control, history>>

Tick ==
  /\ pending # NoRestore /\ pending.left > 0
  /\ pending' = [pending EXCEPT !.left = @ - 1]
  /\ UNCHANGED <<activePlan, journal, lease, config, registry, activeProfiles, winner,
                 manual, previousPlan, control, history>>

-----------------------------------------------------------------------------
Recovery ==
  \/ NothingToRecover \/ ResumeLease \/ ReleaseLease \/ RecoveryFails
  \/ RecoverRestore \/ RecoverForget

Triggers ==
  \/ \E c \in Configs \cup {config} : Reload(c)
  \/ \E r \in Observations : Snapshot(r) \/ ProcessesChange(r)
  \/ SnapshotFails
  \/ \E p \in Profiles : Promote(p)

Evaluation ==
  \/ ReadFails \/ TakeControl \/ Record \/ RecordFails \/ Apply \/ ApplyFails
  \/ RestoreFallsDue \/ ScheduleRestore \/ LeavePlan \/ NothingToClose
  \/ Restore \/ RestoreFails \/ Settle \/ SettleFails

Releasing == Release \/ ReleaseRestore \/ ReleaseForget \/ ReleaseEnds

Lifecycle ==
  \/ \E c \in Configs \cup {DefaultConfig} : Start(c)
  \/ Shutdown \/ ReleaseOnce \/ Crash

Environment ==
  \/ CorruptLease
  \/ \E plan \in Plans : ForeignChange(plan)
  \/ Tick

Next == Lifecycle \/ Recovery \/ Triggers \/ Evaluation \/ Releasing \/ Environment

Spec == Init /\ [][Next]_vars

(* The agent's thread never stops in the middle of a call, and no call     *)
(* fails for ever. A due restore is looked for on every pass of the loop,  *)
(* whatever message the pass before handled.                               *)
Fairness ==
  /\ WF_vars(Recovery)
  /\ WF_vars(Evaluation)
  /\ WF_vars(Releasing)
  /\ WF_vars(\E r \in Observations : Snapshot(r))
  /\ WF_vars(Tick)
  /\ SF_vars(RestoreDue /\ \E c \in Configs \cup {config} : Reload(c))
  /\ SF_vars(TakeControl \/ RestoreFallsDue \/ ScheduleRestore \/ LeavePlan \/ NothingToClose)
  /\ SF_vars(Record)
  /\ SF_vars(Restore)
  /\ SF_vars(Settle)

FairSpec == Spec /\ Fairness

-----------------------------------------------------------------------------
(* The promise: PlanSession, with the lease on the disk as the session.    *)

\* The plans that some configuration asks for at the end of a session.
ClosePlans ==
  {plan \in Plans : \E c \in Configs : \E i \in DOMAIN c.profiles :
     c.profiles[i].closePlan = plan}

LeasedSession ==
  IF journal \in Lease
  THEN [previous |-> journal.previous, managed |-> journal.managed]
  ELSE NoLease

Phase ==
  CASE pc \in {"restore", "recoverRestore", "releaseRestore"} -> "returning"
    [] pc \in {"settle", "drop", "recoverForget", "releaseForget"} -> "ending"
    [] OTHER -> "idle"

Borrowed ==
  INSTANCE PlanSession WITH
    NoSession <- NoLease, plan <- activePlan, session <- LeasedSession,
    phase <- Phase, lost <- stale

-----------------------------------------------------------------------------
(* Properties.                                                             *)

\* A plan the agent put in force is named by the lease on the disk, so that a
\* crash at any point leaves a record of it. Exempt is the window between
\* recording a change of managed plan and applying it (run crashed_handover).
AppliedPlanIsJournaled ==
  ours # NoPlan /\ ~torn => journal \in Lease /\ journal.managed = ours

\* However many hand-overs, edits, delays, restarts and crashes a session goes
\* through, its lease holds the plan that was active before it began, never a
\* plan PowerShift itself set. Exempt are sessions that follow a failed call.
CapturedPlanIsOrigin ==
  lease # NoLease /\ ~stale => lease.previous = origin

Running == pc \notin {"off", "recover", "recoverRestore", "recoverForget"}

\* What the agent knows of its session and what the disk knows never part:
\* whatever it controls could be taken up by the process that replaces it.
MemoryMatchesJournal ==
  Running =>
    /\ journal \in {lease, Corrupt} /\ (journal = Corrupt => lease = NoLease)
    /\ Controlling => lease # NoLease /\ previousPlan = lease.previous
    /\ winner # NoProfile => lease.profile = winner
    /\ pending # NoRestore => lease.profile = pending.profile

\* A plan is taken out of force only if the agent read it to be the managed one:
\* a plan somebody picked before that read survives a delayed restore, a
\* recovery and a shutdown.
RestoresOnlyManagedPlan ==
  pc \in {"restore", "recoverRestore", "releaseRestore"} =>
    lease # NoLease /\ seen = lease.managed

\* Once control has ended nothing of it is left, in memory or on the disk, that
\* a later session could mistake for its own.
EndedSessionLeavesNothing ==
  pc = "idle" /\ ~Controlling /\ ~stale =>
    journal \in {NoLease, Corrupt} /\ previousPlan = NoPlan /\ ours = NoPlan

\* Control passes from a profile that is still active to another one only by
\* promotion or to a strictly higher priority: equal priorities do not oscillate.
EqualPriorityKeepsControl ==
  [][pc = "record" /\ winner' # winner =>
       \A i \in ActiveAt, j \in DOMAIN config.profiles :
         config.profiles[i].id = winner /\ config.profiles[j].id = winner' =>
           winner' = manual \/ config.profiles[j].priority > config.profiles[i].priority]_vars

\* A scheduled restore is carried out or given up, never moved: no event and no
\* edit of the configuration changes its plan or pushes its deadline back.
DeadlineIsFixed ==
  [][pending # NoRestore /\ pending' # NoRestore =>
       /\ pending'.left <= pending.left
       /\ pending'.plan = pending.plan
       /\ pending'.profile = pending.profile]_vars

\* The agent borrows the power plan (PlanSession). Of the two who set plans, the agent sets
\* only the managed plan of a session whose lease is on the disk by then, or, to end one, the
\* plan the lease remembers or a configured one, after it has seen its own plan in force
\* (engine.rs, power_lease.rs).
PlanIsBorrowed == Borrowed!Spec

\* STABLE_RELEASE_CHECKLIST.md: "A crash or forced shutdown restores the captured
\* pre-PowerShift plan on the next safe startup or uninstall." A lease is given
\* up without a restore only if the plan in force was not set by the agent.
NoOwnPlanIsAbandoned ==
  pc \in {"settle", "recoverForget", "releaseForget"} /\ seen # lease.managed =>
    seen # ours \/ seen = origin

\* A scheduled restore does not stay scheduled.
RestoreCompletes == pending # NoRestore ~> pending = NoRestore

\* README: "Once no profiles remain, PowerShift follows the configured restore
\* behavior": when the last tracked process is gone for good and the agent keeps
\* running, its control ends.
ControlEndsWhenQuiet ==
  <>[](Running /\ registry = NothingObserved) => <>[](~Controlling)

=============================================================================
