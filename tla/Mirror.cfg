SPECIFICATION MirrorSpec
CONSTANTS
  Kinds = {"state", "reply", "hwscore"}
  Replayed = {"state", "reply"}
  Greeting = "state"
  MaxLines <- MCMaxLines
  MaxLives = 2
PROPERTIES NeverGoesBack CatchesUp
CHECK_DEADLOCK FALSE
