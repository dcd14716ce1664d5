CONSTANTS
  g1 = g1  g2 = g2  g3 = g3
  Generations = {g1, g2, g3}
  First = First
  NoDb = NoDb
  MaxSwitches = 4
  MaxFaults = 2
SPECIFICATION Spec
CHECK_DEADLOCK FALSE
INVARIANTS TypeOK SiteIsServed RevertedStaysDown ReceiptsAreTrue CollectionIsSafe OneServerPerGeneration
PROPERTIES RecordsAreTrue ImplementsPublication
SYMMETRY MCSymmetry
