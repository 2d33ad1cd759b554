SPECIFICATION StreamSpec
CONSTANTS
  k = k
  j = j
  Unset = Unset
  MaxBytes = 2
  PrefixLimit = 2
  FrameTime = 2
  Frame <- MCFrame
INVARIANTS
  StreamTypeOK
  ProofIsEarned
  EarnedIsRecorded
  FrameTimeBounded
PROPERTIES
  StreamsEnd
CHECK_DEADLOCK FALSE
