\* One profile, two plans, failures that are retried.
CONSTANTS
  balanced = balanced
  fast = fast
  turbo = turbo
  game = game
  editor = editor
  NoPlan = NoPlan
  NoProfile = NoProfile
  NoLease = NoLease
  NoRestore = NoRestore
  Corrupt = Corrupt
  Plans = {balanced, turbo}
  Profiles = {game}
  Configs <- GameConfigs
  Observations <- GameObservations
  MaxDelay = 1
  Faults = {"set", "record", "clear"}
SPECIFICATION FairSpec
PROPERTIES
  RestoreCompletes
  ControlEndsWhenQuiet
