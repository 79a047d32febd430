\* Loss, duplication and reordering, and packets that cannot be sent.
SPECIFICATION Spec
CONSTANTS
  Codecs = {"h264", "other"}
  Shapes <- AllShapes
  SeqSpace = 4
  MaxFrames = 2
  MaxArrivals = 5
INVARIANTS TypeOK WireSequence OneTimestamp FrameRecovered
CHECK_DEADLOCK FALSE
