SPECIFICATION FairSpec
CONSTANTS
  Jobs = {j1, j2}
  MaxSubs = 2
  Batches = 2
  Snapshots = 2
INVARIANTS IInv StopEndsBatch ReportedOnce
PROPERTIES ScanEnds
CHECK_DEADLOCK FALSE
