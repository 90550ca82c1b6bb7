\* A counter that wraps after four reports and a half; an image of six pixels.
SPECIFICATION Spec
CONSTANTS
  Packets <- Sent
  Programs <- Built
  RpcAddress = "rpc"
  CounterMax = 3
  Wrap = 18
  Second = 4
  MaxStep = 2
  Samples = 2
  kDisplayWidth = 3
  kDisplayHeight = 2
  FramebufferWidths = {2, 3, 4}
  Palette <- Colours4
  Scales = {1, 2, 3}
  Cursors <- MousePositions
INVARIANTS
  SuperloopInv
  BringUpInv
  ClocksInv
PROPERTIES
  LoopTimes
  HostWindow
  Blinking
