------------------------------ MODULE PlanSession ------------------------------
(***************************************************************************)
(* What PowerShift promises about the Windows power plan, whatever its     *)
(* profiles, failures and restarts: it borrows the plan. A session names   *)
(* the plan it came from before it takes another, it remembers that plan   *)
(* until it ends, and it gives a plan back only after it has seen its own  *)
(* in force. The user may pick a plan at any time, and wins over a session *)
(* that looks afterwards. Who set the plan in force is part of the state,  *)
(* so that what the user is free to do is no licence for the agent.        *)
(* PowerControl implements this.                                           *)
(***************************************************************************)

CONSTANTS
  Plans,      \* the power plans
  ClosePlans, \* those that a profile may be configured to leave behind
  NoSession

VARIABLES
  plan,    \* the plan in force
  setBy,   \* who put it in force, "user" or "agent"
  session, \* what is recorded of the session, if there is one
  phase,   \* what the agent is about to do with it
  lost     \* a failure may have made the agent lose sight of its session

vars == <<plan, setBy, session, phase, lost>>

Session == [previous : Plans, managed : Plans]

InSession == session # NoSession

\* The plans a session may be ended with.
Returns == {session.previous} \cup ClosePlans

Init ==
  /\ plan \in Plans
  /\ setBy = "user"
  /\ session = NoSession
  /\ phase = "idle"
  /\ lost = FALSE

UserPicks ==
  /\ plan' \in Plans
  /\ setBy' = "user"
  /\ UNCHANGED <<session, phase, lost>>

\* A session is recorded before its plan is taken. One that the agent has lost sight of
\* is written over.
Begin ==
  /\ phase = "idle" /\ (lost \/ ~InSession)
  /\ session' \in Session
  /\ UNCHANGED <<plan, setBy, phase, lost>>

\* Another profile takes over, or the profile was edited.
HandOver ==
  /\ phase = "idle" /\ InSession
  /\ session' \in Session
  /\ session'.previous = session.previous
  /\ UNCHANGED <<plan, setBy, phase, lost>>

\* The only step in which the agent puts a plan in force that is to be given back.
Take ==
  /\ phase = "idle" /\ InSession
  /\ plan' = session.managed
  /\ setBy' = "agent"
  /\ UNCHANGED <<session, phase, lost>>

\* The managed plan is in force: another one is to be put in its place.
Look ==
  /\ phase = "idle" /\ InSession
  /\ plan = session.managed
  /\ phase' = "returning"
  /\ UNCHANGED <<plan, setBy, session, lost>>

\* The plan in force is to stay.
Leave ==
  /\ phase = "idle"
  /\ phase' = "ending"
  /\ UNCHANGED <<plan, setBy, session, lost>>

Return ==
  /\ phase = "returning"
  /\ plan' \in Returns
  /\ setBy' = "agent"
  /\ phase' = "ending"
  /\ UNCHANGED <<session, lost>>

End ==
  /\ phase = "ending"
  /\ session' = NoSession
  /\ phase' = "idle"
  /\ lost' = FALSE
  /\ UNCHANGED <<plan, setBy>>

\* A call fails, or the process ends: the session stays recorded.
Fail ==
  /\ phase' = "idle"
  /\ lost' \in BOOLEAN
  /\ InSession /\ lost => lost'
  /\ UNCHANGED <<plan, setBy, session>>

\* The record is damaged while nobody uses it.
Damage ==
  /\ phase = "idle"
  /\ session' = NoSession
  /\ lost' = FALSE
  /\ UNCHANGED <<plan, setBy, phase>>

Next ==
  \/ UserPicks \/ Begin \/ HandOver \/ Take \/ Look \/ Leave \/ Return \/ End \/ Fail
  \/ Damage

Spec == Init /\ [][Next]_vars

=============================================================================
