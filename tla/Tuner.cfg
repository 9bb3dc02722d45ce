SPECIFICATION Spec
CONSTANTS
  Pages = {p1, p2}
  Nobody = Nobody
  MaxClicks = 2
  MaxReloads = 1
INVARIANTS EngineExclusive PlaysWhatWasAsked
PROPERTIES PageComesBack
CHECK_DEADLOCK FALSE
