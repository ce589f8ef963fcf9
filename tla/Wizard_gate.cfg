SPECIFICATION Spec
CONSTANTS
  Base = 4
  Step = 1
  MaxCandidates = 2
  MinGap = 1
  ConstantOk = FALSE
  NoData = NoData
  Blank = Blank
  Nothing = Nothing
  Cells <- MCCells
  Orders <- MCOrders
  Scales <- MCScales
  Floats <- MCFloats
  Kinds <- MCKinds
  Memories <- MCMemories
  Shown <- MCShown
  Seen <- MCSeen
  Imported <- MCImported
  MaxReadings = 4
  MaxSessions = 2
  MaxTime = 1
INVARIANTS IInv FindNeverProves OfferedFits NothingLeftOut
