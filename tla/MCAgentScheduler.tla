-------------------------- MODULE MCAgentScheduler --------------------------
(* Instances of AgentScheduler for TLC: every delay is shortened except in  *)
(* the instance for the back-off, which has the delays of the code.        *)
EXTENDS AgentScheduler

=============================================================================
