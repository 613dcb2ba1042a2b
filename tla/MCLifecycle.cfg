\* Any two faults or commands of the user, with the window open or not, and the agent
\* started at logon or not.
CONSTANTS
  Managed <- TwoPlans
  Starters <- OnePlan
  Faults <- AllFaults
  Commands <- AllCommands
  MaxEvents = 2

SPECIFICATION Spec

INVARIANTS
  TypeOK
  UninstallGivesPlanBack
  AutostartFollowsSetting

PROPERTIES
  QuitEndsEverything
  CommandsEnd

CHECK_DEADLOCK FALSE
