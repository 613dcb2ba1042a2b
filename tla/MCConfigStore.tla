---------------------------- MODULE MCConfigStore ----------------------------
(* An instance of ConfigStore for TLC: two lists of profiles, and two        *)
(* settings the user may save: other profiles, and automation paused.       *)
EXTENDS ConfigStore, FiniteSets

MCUserSettings ==
  {[Defaults EXCEPT !.profiles = "edited"], [Defaults EXCEPT !.automation = FALSE]}

MCFirstSettings == {[Defaults EXCEPT !.profiles = "edited"]}

\* Bound: behaviours are followed until the third mishap.
MCMishaps == Cardinality(mishaps) <= 2

=============================================================================
