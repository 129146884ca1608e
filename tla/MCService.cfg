SPECIFICATION FairSpec
CHECK_DEADLOCK FALSE
CONSTANTS
  rphost = rphost
  other = other
  IntWidth = 8
  Name <- MCName
  Rphost = rphost
  Contents <- MCContents
  MaxMeddling = 2
INVARIANTS
  TypeOK
  StopEventOpen
  StoppedMeansStopped
  FilterNotEmpty
PROPERTIES
  StatusForward
  StopCompletes
  ReasonableSettingsRun
  ComesUp
