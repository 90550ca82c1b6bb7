\* The i.MX RT595 applications: two buffers, frames of three packets (the
\* last one shorter); every call of the SDK may fail.
SPECIFICATION FairSpec
CONSTANTS
  Threads = {main}
  Main = main
  NumBuffers = 2
  None = None
  MayFail = {"init", "enableLayer", "setFrameBuffer"}
  MayReopen = FALSE
  PixelBytes = 2
  MaxPayload = 6
  Lengths = {10}
  FrameBytes = 10
  FrameIds = 3
  TransfersMayFail = TRUE
INVARIANTS
  CallbacksInv
  DsiInv
  SendsWholeFrames
PROPERTIES
  FramesKeepComing
\* The task stops where a call of Init or an assertion fails.
CHECK_DEADLOCK FALSE
