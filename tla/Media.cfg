SPECIFICATION Spec
CONSTANTS
  Codecs = {"H264", "H265", "VP8", "VP9"}
  Frames <- MCFrames
  MaxFragment = 12
  Mod = 16
  Start = 14
  MaxDropout = 4
  MaxMisorder = 2
  MaxStore = 3
  MaxQueue = 3
  RecvLimit = 2
  UseRtx = TRUE
  Alone = FALSE
  MaxPackets <- MCMaxPackets
  MaxNacks = 1
  MaxReports = 2
CHECK_DEADLOCK FALSE
INVARIANTS NeverSpliced  InOrderIsWhole 
