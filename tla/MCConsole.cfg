SPECIFICATION FairSpecConsole
CHECK_DEADLOCK FALSE
CONSTANTS
  rphost = rphost
  IntWidth = 8
  Name <- MCName
  Rphost = rphost
  Contents <- MCContents
INVARIANTS
  ConsoleTypeOK
  ReturnsAfterWorker
PROPERTIES
  CtrlCExits
  LoopEnds
