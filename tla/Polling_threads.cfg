SPECIFICATION FairSpec
CONSTANTS
  Names = {n1}
  Nothing = Nothing
  MaxStarts = 2
  MaxGen = 2
  MaxQueue = 2
INVARIANTS IInv StopReachesListed ConnectedIsAlive
PROPERTIES StopEnds
