\* Two outcomes, one error; a log of two events is rotated for the third.
CONSTANTS
  Scans = {"active", "quiet"}
  Announced = {"active"}
  ProfileOf <- MCProfileOf
  NoProfile = "no profile"
  Errors = {"failed"}
  LogLimit = 1
  Faults = {"log", "file", "ipc"}
  MaxEvents = 3
  NoScan = NoScan
  NoError = "no error"
  NoState = NoState
SPECIFICATION Spec
CONSTRAINTS MCOneReader MCScreen MCTray
INVARIANTS
  TypeOK
  ClearedIsGone
  ReadersAreCurrent
