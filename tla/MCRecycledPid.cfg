\* One PID used twice, inspections may fail.
CONSTANTS
  p1 = p1
  p2 = p2
  game = game
  other = other
  NoProcess = NoProcess
  Healthy = Healthy
  Degraded = Degraded
  Pids = {p1}
  Names = {game}
  WatchSets <- GameOnly
  MaxBirths = 2
  Faults = {"inspect"}
SPECIFICATION Spec
PROPERTY RecycledPidIsSafe
