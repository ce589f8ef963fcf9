\* The IP scan, the port scan, whose workers may raise, and the connection test.
SPECIFICATION FairSpec
CONSTANTS
  Tools = {"ip", "port", "probe"}
  Targets = {1, 2, 3}
  Workers = 2
  MaxScans = 2
INVARIANTS IInv TableIsTheScan BestIsChosen
PROPERTIES ScanEnds
CHECK_DEADLOCK FALSE
