SPECIFICATION VadSpec
CONSTANTS
  FrameMs = 2
  Rate = 1
  ReadSizes = {1, 2}
  HangoverMs = 4
  MinSpeechMs = 2
  MaxMs = 8
  MaxStream = 6
INVARIANTS VadTypeOK HandsOverTheCuts Announced
CHECK_DEADLOCK FALSE
