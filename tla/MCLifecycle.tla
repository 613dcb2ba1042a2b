----------------------------- MODULE MCLifecycle -----------------------------
\* Instances of Lifecycle for TLC.
EXTENDS Lifecycle

AllFaults   == FaultKinds
AllCommands == CommandKinds
TwoPlans    == {"game", "work"}
OnePlan     == {"game"}

=============================================================================
