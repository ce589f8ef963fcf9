SPECIFICATION Spec
CONSTANTS
  MaxRows = 1
  BatchSize = 2
  MaxId = 3
  MaxFaults = 2
INVARIANTS IInv NoLoss FirstArrivalInOrder CopiesBounded
PROPERTIES RingRepaired PromiseKept
