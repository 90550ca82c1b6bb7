\* A glass of four by four pixels, bands of two rows, a resize buffer of three
\* pixels; framebuffers smaller, as large and larger; a HAL that counts the
\* words of two rows but not of four.
SPECIFICATION Spec
CONSTANTS
  HalLimit = 12
  Width = 4
  Height = 4
  kNumRowsPerSend = 2
  kResizeBuffer = 3
  MayFail = TRUE
  FrameIds = 3
PROPERTIES
  PanelShows
  FramesKeepComing
\* The task stops at the first transfer that fails and is noticed.
CHECK_DEADLOCK FALSE
