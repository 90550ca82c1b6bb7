\* The pool with one drawing thread and buffers released in order, as in every
\* application; a framebuffer of three by three glyphs and a column to spare,
\* with shapes that begin and end up to a point off it; two polls to copy and
\* move to each other; two threads on the bus, one to wait while the other takes
\* turns; buffers for both of the application's variables and the driver.
SPECIFICATION LibrariesSpec
CONSTANTS
  Threads = {main}
  NumBuffers = 5
  SizeLimit = 8
  InOrder = TRUE
  Width = 7
  Height = 6
  MaxChars = 2
  MaxRadius = 4
  Margin = 1
  Polls = {p, q}
  Results = {v, w}
  Requests = {r1, r2}
  BusThreads = {t1, t2}
  NoThread = NoThread
  MovedBuffers = 3
  nullptr = nullptr
INVARIANTS
  ExclusiveUse
  Conservation
  DrawingInv
  FuturesInv
  BusInv
  MovesInv
PROPERTIES
  ImplementsFifoPool
  ImplementsTextGrid
  NothingStops
\* A text ends, and an application that lost every buffer waits for ever.
CHECK_DEADLOCK FALSE
