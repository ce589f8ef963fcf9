SPECIFICATION CFairSpec
CONSTANTS
  MaxRows = 2
  BatchSize = 2
  MaxId = 3
  MaxFaults = 1
  Groups <- MCGroups
  PlcValues <- MCValues
  g = g
  u = u
  v = v
  NoValue = NoValue
  MaxChanges = 1
  MaxGroupFaults = 1
PROPERTIES GroupsRespectPublisher CloudFollowsPlc OutboxDrains
