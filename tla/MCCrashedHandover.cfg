\* Two profiles, three plans, crashes only.
CONSTANTS
  balanced = balanced
  fast = fast
  turbo = turbo
  game = game
  editor = editor
  NoPlan = NoPlan
  NoProfile = NoProfile
  NoLease = NoLease
  NoRestore = NoRestore
  Corrupt = Corrupt
  Plans = {balanced, fast, turbo}
  Profiles = {game, editor}
  Configs <- AllConfigs
  Observations <- AllObservations
  MaxDelay = 1
  Faults = {"crash"}
SPECIFICATION Spec
INVARIANT NoOwnPlanIsAbandoned
