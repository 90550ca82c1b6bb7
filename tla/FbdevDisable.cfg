\* framebuffer_device.h: Disable disables the device.
SPECIFICATION DeviceSpec
CONSTANTS
  Threads = {t1}
  NumBuffers = 2
  None = None
  MayFail = {}
  MayReopen = FALSE
INVARIANTS
  LayerOffWhenDisabled
\* A closed device stays closed.
CHECK_DEADLOCK FALSE
