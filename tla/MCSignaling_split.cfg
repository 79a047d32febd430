SPECIFICATION Spec
CHECK_DEADLOCK FALSE
CONSTANTS
  Kinds = {"offer"}
  Lens = {1, 2, 3}
  Texts <- MCTexts
  EscapedSize = 11
  MaxBuf = 2
  MayFail = FALSE
  MaxMessages = 2
  MaxPings = 0
  MaxBetween = 0
  MaxSends = 0
PROPERTIES NoneSkipped
