\* Three samples of up to two tags, in two areas, over UDP.
SPECIFICATION ReadSpec
CONSTANTS
  Areas = {D, R}
  Numbers = {0, 1, 3}
  LastNumber = 3
  Step = 1
  MaxGap = 2
  Samples = 3
  MaxTags = 2
  MaxChanges = 1
  MaxSkips = 1
  MaxStrays = 1
INVARIANTS ReadInv ReadsTheTag NoDataMeansSkipped RegionsApart
CHECK_DEADLOCK FALSE
SYMMETRY Symmetry
