\* Feedback, congestion and pacing in every order.
SPECIFICATION CcSpec
CONSTANTS
  Configs <- MCConfigs
  Rtts = {0, 50, 400}
  Losses = {0, 5, 6}
  Sizes = {1, 2}
  Word = 65536
  AddIncrease = 1000
  MaxReports = 4
  MaxClock = 8
INVARIANTS CcTypeOK TargetInBounds EstimateInBounds PacedWithinTwice
PROPERTY ClearNeverLowers
CHECK_DEADLOCK FALSE
