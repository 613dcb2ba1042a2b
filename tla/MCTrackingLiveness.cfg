\* One PID, one process, watchers, waits and snapshots that fail.
CONSTANTS
  p1 = p1
  p2 = p2
  game = game
  other = other
  NoProcess = NoProcess
  Healthy = Healthy
  Degraded = Degraded
  Pids = {p1}
  Names = {game}
  WatchSets <- GameOrNothing
  MaxBirths = 1
  Faults = {"watcher", "wait", "snapshot"}
SPECIFICATION FairSpec
PROPERTY RegistryConverges
