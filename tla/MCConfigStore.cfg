\* Two starts of the UI, two failures of any kind.
CONSTANTS
  NoSettings = NoSettings
  ProfileLists = {"none", "edited"}
  NoProfiles = "none"
  UserSettings <- MCUserSettings
  FirstSettings <- MCFirstSettings
  Faults = {"read", "write", "wake", "damage", "upgrade"}
  MaxFaults = 2
  MaxStarts = 2
SPECIFICATION Spec
CONSTRAINT MCMishaps
INVARIANTS
  TypeOK
  ScreenMatchesDisk
  AgentInStep
PROPERTIES
  SavedSettingsSurvive
  UnloadableFilesKept
