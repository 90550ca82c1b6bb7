\* Two threads and two buffers; only setFrameBuffer never fails.
SPECIFICATION DeviceSpec
CONSTANTS
  Threads = {t1, t2}
  NumBuffers = 2
  None = None
  MayFail = {"init", "enableLayer", "disableLayer"}
  MayReopen = FALSE
INVARIANTS
  DeviceInv
PROPERTIES
  DeviceIsFifoPool
\* A closed device stays closed.
CHECK_DEADLOCK FALSE
