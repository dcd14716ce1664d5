CONSTANTS
  g1 = g1  g2 = g2  g3 = g3
  Generations = {g1, g2, g3}
  First = First
  NoDb = NoDb
  MaxSwitches = 3
  MaxFaults = 0
SPECIFICATION Spec
CHECK_DEADLOCK FALSE
INVARIANTS RollbackUndoesOnlyItself
