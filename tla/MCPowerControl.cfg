\* Two profiles, three plans, every failure.
CONSTANTS
  balanced = balanced
  fast = fast
  turbo = turbo
  game = game
  editor = editor
  NoPlan = NoPlan
  NoProfile = NoProfile
  NoLease = NoLease
  NoRestore = NoRestore
  Corrupt = Corrupt
  Plans = {balanced, fast, turbo}
  Profiles = {game, editor}
  Configs <- AllConfigs
  Observations <- AllObservations
  MaxDelay = 1
  Faults = {"read", "set", "record", "clear", "snapshot", "crash", "corrupt"}
SPECIFICATION Spec
INVARIANTS
  TypeOK
  AppliedPlanIsJournaled
  CapturedPlanIsOrigin
  MemoryMatchesJournal
  RestoresOnlyManagedPlan
  EndedSessionLeavesNothing
PROPERTIES
  PlanIsBorrowed
  EqualPriorityKeepsControl
  DeadlineIsFixed
