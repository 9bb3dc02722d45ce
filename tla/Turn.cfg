SPECIFICATION Spec
CONSTANTS
  MaxTurns = 3
  MaxStarts = 4
INVARIANTS TypeOK InStep NoOrphans
PROPERTIES TurnEnds
CHECK_DEADLOCK FALSE
