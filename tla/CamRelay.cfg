SPECIFICATION RelaySpec
CONSTANTS
  FrameIds = 4
  MaxChunks = 3
  BufChunks = 2
  Period = 2
  Timeout = 3
  BootTime = 1
  LoopTime = 1
  LastReset = 1
  MaxTime = 10
INVARIANTS RelayTypeOK FramesWhole
PROPERTIES RelayImplementsDelivery
