SPECIFICATION Spec
CONSTANTS
  Ascii <- MCAscii
  Tight <- MCTight
  Curly = {"curly"}
  Latin = {"acute"}
  Han = {"han1", "han2"}
  Wide = {"maru"}
  Blank = " "
  Quote = "'"
  Semicolon = ";"
  Comma = ","
  Texts <- MCTexts
  MaxLines = 2
  MaxChunks = 2
  PipeRoom = 1
INVARIANTS AnsweredWhenPlayed SpelledOut
PROPERTIES ServiceSpec
CHECK_DEADLOCK FALSE
