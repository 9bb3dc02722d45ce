SPECIFICATION Spec
CONSTANTS
  Keys = {k1, k2}
  Names = {k1}
  Anyone = Anyone
  Chunk = 2
  Sizes = {1, 2}
  InRoom = 3
  OutRoom = 1
  Refractory = 2
  ScoreEvery = 2
  MaxUnits = 6
  MaxTicks = 4
  MaxChanges = 2
INVARIANTS TypeOK HeardInOrder WakesSpaced WokenByActive
PROPERTIES EndsClean
CHECK_DEADLOCK FALSE
