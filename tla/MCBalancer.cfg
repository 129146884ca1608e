SPECIFICATION MCSpec
CONSTANTS
  p1 = p1
  p2 = p2
  t1 = t1
  t2 = t2
  Nobody = Nobody
  Pid <- MCPid
  Tid <- MCTid
  NumaNodes <- MCNumaNodes
  Affinity <- MCAffinity
  Average <- MCAverage
  CpuReading <- MCCpuReading
  MaximumCpu = 70
  DeltaCpu = 30
  CallsFail = FALSE
  Capacity = 2
  Width = 12
  MaxCreate = 1
  MaxUser = 2
  MaxEvents = 2
  MaxFailures = 1
  Frequency = 2
  MaxLag = 2
  Adjustments <- MCAdjustments
  MaxJumps = 1
INVARIANTS
  TypeOK
  ReadsRegular
  HeaviestConsumerFirst
PROPERTIES
  PassesGoOn
  AllGetBound
