\* One subscription, short delays, every failure.
CONSTANTS
  NoDeadline = NoDeadline
  Kinds = {"stops"}
  ScanInterval = 2
  Cooldown = 1
  RetryDelay = 1
  MaxDelay = 1
  InitialBackoff = 1
  MaxBackoff = 1
  StableRun = 0
  MaxQueued = 1
  Faults = {"ipc", "event", "config", "watcher", "restore"}
SPECIFICATION FairSpec
INVARIANTS
  TypeOK
  NeverOversleeps
  NoStarvation
PROPERTIES
  SavedConfigIsRead
  DegradedAgentScans
