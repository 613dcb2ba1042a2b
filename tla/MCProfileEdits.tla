---------------------------- MODULE MCProfileEdits ----------------------------
\* Instances of ProfileEdits for TLC.
EXTENDS ProfileEdits

\* Two executables whose identifiers begin alike, one without a name, and no executable.
Game  == [exe |-> "game.exe",   name |-> "Game",   slug |-> [word |-> "game", numbers |-> <<>>],
          isExe |-> TRUE]
Game2 == [exe |-> "game-2.exe", name |-> "Game 2", slug |-> [word |-> "game", numbers |-> <<2>>],
          isExe |-> TRUE]
Blank == [exe |-> ".exe", name |-> "", slug |-> [word |-> "profile", numbers |-> <<>>],
          isExe |-> TRUE]
Text  == [exe |-> "game.txt", name |-> "Game.txt", slug |-> [word |-> "game-txt", numbers |-> <<>>],
          isExe |-> FALSE]

SomeApps == {Game, Game2, Blank, Text}

APlan(id, level, said, preferred) ==
  [id |-> id, level |-> level, said |-> said, preferred |-> preferred]

\* A plan no name tells anything of, a slow one and a fast one; and one known by its name.
Quiet    == APlan("quiet", "none", FALSE, FALSE)
Balanced == APlan("balanced-guid", "balanced", FALSE, FALSE)
Fast     == APlan("fast-guid", "high", FALSE, TRUE)
Named    == APlan("Alto rendimiento", "high", TRUE, FALSE)

SomePlans     == <<Balanced, Fast, Quiet>>
SomeFallbacks == {Named}

\* A profile whose priority an older version chose.
Old == [id |-> Game.slug, exe |-> "game.exe", name |-> "Game", isExe |-> TRUE, plan |-> Balanced,
        priority |-> 70, close |-> <<"previous_plan", "">>,
        processes |-> <<[name |-> "launcher.exe", role |-> "companion"]>>]

Empty == [settings |-> TRUE, profiles |-> <<>>]

SomeConfigs == {Empty, [Empty EXCEPT !.profiles = <<Old>>]}

\* With Keep the model filters as SelectSeq does.
ASSUME KeepFilters ==
  \A seq \in BoundedSeq(0..2, 5) :
    Keep(seq, {i \in DOMAIN seq : seq[i] # 0}) = SelectSeq(seq, LAMBDA x : x # 0)

=============================================================================
