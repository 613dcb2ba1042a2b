\* Two PIDs, two processes created after one another, every failure but that of a snapshot.
CONSTANTS
  p1 = p1
  p2 = p2
  game = game
  other = other
  NoProcess = NoProcess
  Healthy = Healthy
  Degraded = Degraded
  Pids = {p1, p2}
  Names = {game, other}
  WatchSets <- GameOnly
  MaxBirths = 2
  Faults = {"watcher", "inspect", "wait"}
SYMMETRY PidSymmetry
SPECIFICATION Spec
INVARIANTS
  TypeOK
  NoSilentGhost
  NoLostProcess
  ChangesAreEvaluated
PROPERTY NewerProcessSurvives
