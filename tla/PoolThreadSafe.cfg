\* framebuffer_pool.h calls GetFramebuffer thread-safe: two threads.
SPECIFICATION Spec
CONSTANTS
  Threads = {t1, t2}
  NumBuffers = 2
  SizeLimit = 8
  InOrder = TRUE
INVARIANT ExclusiveUse
SYMMETRY ThreadSymmetry
