SPECIFICATION Spec
CONSTANTS
  p1 = p1
  p2 = p2
  rphost = rphost
  other = other
  NoImage = NoImage
  Pid <- MCPid
  Image <- MCImage
  Filter <- MCFilter
  ThreadList <- MCThreadList
  Capacity = 2
  Width = 12
  PidReuse = TRUE
  MaxCreate = 2
  MaxUser = 2
INVARIANT
  AverageWithinUserTime
