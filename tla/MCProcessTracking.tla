-------------------------- MODULE MCProcessTracking --------------------------
(* Instances of ProcessTracking for TLC.                                   *)
EXTENDS ProcessTracking, TLC

CONSTANTS p1, p2, game, other

\* The configuration watches the game, or for a while nothing.
GameOnly      == {{game}}
GameOrNothing == {{game}, {}}

\* No definition tells one PID from another.
PidSymmetry == Permutations(Pids)

=============================================================================
