CONSTANTS
  g1 = g1  g2 = g2  g3 = g3
  Generations = {g1, g2}
  First = First
  NoDb = NoDb
  MaxSwitches = 2
  MaxFaults = 1
SPECIFICATION Spec
CHECK_DEADLOCK FALSE
INVARIANTS NextPortIsFree
