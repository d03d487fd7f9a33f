CONSTANTS
  MaxBuilds = 2
  MaxIso = 2
  Attempts = 2
  WriteFaults = TRUE
  Crashes = TRUE
  MaxActs = 2
SPECIFICATION MCSpec
INVARIANTS
  FactoryTypeOK
  ActiveRowHasOwner
  VersionsDistinct
  OneActivePerFamily
PROPERTY EngineComesFree
CHECK_DEADLOCK FALSE
