SPECIFICATION Spec
CHECK_DEADLOCK FALSE
CONSTANTS
  main = main
  worker = worker
  Thread <- MCThread
  Main = main
  Worker = worker
  NoThread = NoThread
  HoursPerDay = 3
  DefaultDuration = 2
  Setting = 1
  Shortest = 1
  OldFiles <- MCOldFiles
  Suspends = FALSE
  OpenFails = FALSE
  FirstHour = 3
  MaxHour = 4
  MaxLines = 1
  MaxCleaners = 1
PROPERTY
  RetentionIsSetting
