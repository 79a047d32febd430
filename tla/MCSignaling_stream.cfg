SPECIFICATION FairSpec
CHECK_DEADLOCK FALSE
CONSTANTS
  Kinds = {"joined", "offer"}
  Lens = {1, 4}
  Texts <- MCTexts
  EscapedSize = 11
  MaxBuf = 3
  MayFail = TRUE
  MaxMessages = 2
  MaxPings = 1
  MaxBetween = 1
  MaxSends = 1
INVARIANTS TypeOK ReadBack
PROPERTIES ImplementsChannel Delivered
