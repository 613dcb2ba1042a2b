\* One watcher with the pauses of the code in seconds; everything else is as
\* small as it can be.
CONSTANTS
  NoDeadline = NoDeadline
  Kinds = {"stops"}
  ScanInterval = 1
  Cooldown = 1
  RetryDelay = 1
  MaxDelay = 0
  InitialBackoff = 1
  MaxBackoff = 60
  StableRun = 30
  MaxQueued = 1
  Faults = {"watcher"}
SPECIFICATION Spec
PROPERTIES
  BackoffResetsAfterStableRun
