SPECIFICATION SafeSpec
CONSTANTS
  Callers = {c1, c2}
  Utterances = {u1, u2}
  None = None
  QueueLimit = 1
  WakeWindow = 2
  FollowUp = 1
  GatedModes = {TRUE, FALSE}
SYMMETRY MCSymmetry
INVARIANTS TypeOK BacklogBounded GateHolds FaceMatchesTurn
PROPERTIES ServiceSafeSpec
