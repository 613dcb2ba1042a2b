--------------------------- MODULE MCPowerControl ---------------------------
(* Instances of PowerControl for TLC: two profiles, three plans.           *)
EXTENDS PowerControl

CONSTANTS balanced, fast, turbo, game, editor

Game(plan, priority, close, delay) ==
  [id |-> game, enabled |-> TRUE, plan |-> plan, priority |-> priority,
   closeBehavior |-> close, closePlan |-> NoPlan, delay |-> delay, requireMain |-> TRUE]

Editor(priority, close, closePlan) ==
  [id |-> editor, enabled |-> TRUE, plan |-> fast, priority |-> priority,
   closeBehavior |-> close, closePlan |-> closePlan, delay |-> 0, requireMain |-> FALSE]

Loaded(profiles) == [enabled |-> TRUE, profiles |-> profiles]

\* Both profiles with equal priorities; the same with automation paused; the
\* game alone after an edit of its plan; the editor alone, restoring its own plan.
TwoProfiles == Loaded(<<Game(turbo, 50, "previous", 1), Editor(50, "nothing", NoPlan)>>)
Paused      == [TwoProfiles EXCEPT !.enabled = FALSE]
GameEdited  == Loaded(<<Game(fast, 50, "previous", 1)>>)
EditorOnly  == Loaded(<<Editor(90, "specific", balanced)>>)

AllConfigs == {TwoProfiles, Paused, GameEdited, EditorOnly}

\* The game runs, or only a helper of it does; the editor's helper may run.
Tracked(g, e) == [p \in Profiles |-> IF p = game THEN g ELSE e]

AllObservations ==
  {Tracked({}, {}), Tracked({"main"}, {}), Tracked({"companion"}, {}),
   Tracked({}, {"companion"}), Tracked({"main"}, {"companion"})}

\* A smaller instance for liveness: the game alone, edited or deleted meanwhile.
RestoresPrevious == Loaded(<<Game(turbo, 50, "previous", 1)>>)
LeavesPlan       == Loaded(<<Game(turbo, 50, "nothing", 0)>>)
GameDeleted      == Loaded(<< >>)

GameConfigs      == {RestoresPrevious, LeavesPlan, GameDeleted}
GameObservations == {[p \in Profiles |-> {}], [p \in Profiles |-> {"main"}]}

=============================================================================
