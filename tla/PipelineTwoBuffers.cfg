\* The Pico applications: two framebuffers, pixel doubling on; pixels of three
\* bits, so that every pixel of a row differs and neither half of a word nor
\* the order of its bits may be mistaken.
SPECIFICATION OutputSpec
CONSTANTS
  Buffers = {0, 1}
  None = None
  Width = 4
  Height = 3
  Channels = {0, 1}
  ClaimedChannel = 0
  PixelDouble = TRUE
  Main = main
  NumBuffers = 2
  SizeLimit = 4
  FrameIds = 4
  HalfBits = 3
  ByteBits = 3
  RamWr = 5
  FifoDepth = 3
  Double = TRUE
INVARIANTS
  OutputInv
  RowsDoubled
  CallbackSlotFree
  ShowsFramesInOrder
PROPERTIES
  CallbackAfterWholeFrame
  FrameHeldWhileSent
  ReleasesInOrder
  FramesKeepComing
  PanelReads
