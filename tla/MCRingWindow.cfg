SPECIFICATION Spec
CONSTANTS
  Capacity = 3
  Width = 12
  Sample <- MCSample
INVARIANTS
  TypeOK
  AvgIsMean
PROPERTY
  ImplementsWindow
