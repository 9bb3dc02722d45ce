SPECIFICATION SafeSpec
CONSTANTS
  Pages = {p1, p2}
  MinClip = 2
  MaxPress = 3
  MaxFrames = 3
INVARIANTS TypeOK ClipIsThePress MicReleased
CHECK_DEADLOCK FALSE
