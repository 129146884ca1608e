SPECIFICATION MCSpec
CONSTANTS
  p1 = p1
  p2 = p2
  p3 = p3
  t1 = t1
  t2 = t2
  Nobody = Nobody
  Pid <- MCPid
  Tid <- MCTid
  NumaNodes <- MCNumaNodes
  Affinity <- MCAffinity
  Average <- MCAverage
  CpuReading <- MCCpuReading
  MaximumCpu = 70
  DeltaCpu = 30
  Test = FALSE
  CallsFail = TRUE
  IdReuse = FALSE
  MaxEvents = 1
INVARIANTS
  TypeOK
  RoundRobin
  HeaviestFirst
  WholeProcessMoved
PROPERTIES
  OnlyListed
  PassEnds
