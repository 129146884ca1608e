SPECIFICATION FairSpec
CHECK_DEADLOCK FALSE
CONSTANTS
  main = main
  worker = worker
  Thread <- MCThread
  Main = main
  Worker = worker
  NoThread = NoThread
  HoursPerDay = 3
  DefaultDuration = 2
  Setting = 1
  Shortest = 1
  OldFiles <- MCOldFiles
  Suspends = FALSE
  OpenFails = TRUE
  FirstHour = 3
  MaxHour = 5
  MaxLines = 2
  MaxCleaners = 1
INVARIANTS
  TypeOK
  FileOfTheCall
PROPERTIES
  ImplementsLogFiles
  OldFilesGo
