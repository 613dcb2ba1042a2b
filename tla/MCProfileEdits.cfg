\* Four edits of up to three profiles, while the window starts and afterwards.
CONSTANTS
  Apps <- SomeApps
  Processes = {"game.exe", "helper.exe"}
  NewNames = {"", "renamed"}
  Catalogue <- SomePlans
  FallbackPlans <- SomeFallbacks
  Configs <- SomeConfigs
  Editors = {"first", "second"}
  MaxProfiles = 3
  MaxProcesses = 1
  MaxEdits = 4

SPECIFICATION Spec

INVARIANTS
  TypeOK
  EditsStayValid
  PriorityFollowsPlan

PROPERTIES
  NoEditIsLost
  WindowSettles

CHECK_DEADLOCK FALSE
