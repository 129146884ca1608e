SPECIFICATION FairSpec
CONSTANTS
  Capacity = 2
  Width = 12
  Counters = 3
  Load <- MCLoad
  MaximumCpu = 70
  DeltaCpu = 30
  CounterFails = TRUE
CHECK_DEADLOCK FALSE
PROPERTY
  DecisionIsReal
