\* Nothing is lost, and still a frame is cut in two.
SPECIFICATION Spec
CONSTANTS
  Codecs = {"h264"}
  Shapes <- AllShapes
  SeqSpace = 65536
  MaxFrames = 1
  MaxArrivals = 3
INVARIANT CompleteFrames
CHECK_DEADLOCK FALSE
