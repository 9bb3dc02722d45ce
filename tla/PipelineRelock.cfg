SPECIFICATION Spec
CONSTANTS
  Callers = {c1}
  Utterances = {u1}
  None = None
  QueueLimit = 1
  WakeWindow = 1
  FollowUp = 1
  GatedModes = {TRUE}
PROPERTIES RelockOnlyExpired
