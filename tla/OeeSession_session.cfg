SPECIFICATION OeeSpec
CONSTANTS
  Connections = {k1, k2}
  Names = {n1, n2}
  Slots = {"total"}
  Nothing = Nothing
  Several = Several
  MaxChanges = 3
INVARIANTS OeeInv RunWithinSession CyclesWereMade
SYMMETRY Symmetry
