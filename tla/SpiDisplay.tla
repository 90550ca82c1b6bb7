----------------------------- MODULE SpiDisplay -----------------------------
(***************************************************************************)
(* An application on a board whose panel hangs on an SPI bus: the main     *)
(* loop of terminal_display, a pool of one framebuffer, pw_display with    *)
(* its nearest neighbour resize, one of the drivers of LcdDrivers and an   *)
(* initiator of SpiInitiator (common_stm32cube.cc, common_arduino.cc).     *)
(* One task, and every call blocks; what makes it hard is that any         *)
(* transfer may fail part of the way, that drivers ignore some of the      *)
(* failures, and that driver, initiator, peripheral and panel each keep a  *)
(* state which the next frame depends on.                                  *)
(***************************************************************************)
EXTENDS SpiInitiator, LcdDrivers

CONSTANTS
  MayFail,      \* whether transfers of the STM32 may fail
  FrameIds      \* frames are numbered modulo FrameIds

VARIABLES
  board,     \* the configuration that was built
  bus,       \* the initiators and the SPI peripheral
  dc,        \* the level of the D/CX pin
  panel,     \* the panel's registers
  memory,    \* memory[c]: the frame and the pixel shown in cell c
  appPc,     \* where the main task is
  script,    \* what the driver has still to send
  result,    \* the status the driver has met
  free,      \* framebuffers in the pool
  frame,     \* number of the frame being drawn or sent, FrameIds before one
  silent     \* history: a transfer failed and nobody was told

vars == <<board, bus, dc, panel, memory, appPc, script, result, free, frame, silent>>

(* The boards of the repository that use these parts, and one with a wide  *)
(* framebuffer; the STM32 only without resizing, see the README.  The Pico,*)
(* which may have any of the chips, has an initiator of Pigweed's, rp2040, *)
(* which is external and here does what Arduino's does.                    *)
Boards ==
  { [initiator |-> i, chip |-> c, reset_gpio |-> r, fbwidth |-> w, fbheight |-> h] :
      i \in {"stm32cube", "arduino", "rp2040"}, c \in {"ILI9341", "ST7789", "ST7735"},
      r \in BOOLEAN, w \in {1, Width - 1, Width, Width + 1}, h \in {Height, Height + 1} }

Resizes(b) == b.fbwidth # Width \/ b.fbheight # Height

BoardsUsed ==
  {b \in Boards :
     /\ b.initiator = "stm32cube" => ~b.reset_gpio /\ ~Resizes(b)
     /\ b.initiator # "rp2040" => b.chip = "ILI9341"
     /\ b.reset_gpio => b.chip = "ILI9341"
     /\ Resizes(b) => b.chip # "ST7735"}

InitOn(boards) ==
  /\ board \in boards
  /\ bus = Stm32CubeInitiator
  /\ dc = "command"
  /\ panel = PanelOff
  /\ memory = [c \in Cells |-> <<FrameIds, 0>>]
  /\ appPc = "boot"
  /\ script = <<>>
  /\ result = "OK"
  /\ free = 1
  /\ frame = FrameIds
  /\ silent = FALSE

-----------------------------------------------------------------------------
(* The boards configure the two devices alike but for the clock's phase.    *)
DeviceConfig(d) == Config(IF board.initiator = "rp2040" THEN "kRisingEdge" ELSE "kFallingEdge", d)

(* Device::Transaction::Write of n words by the initiator of the board. *)
Write(b, d, n, hal) ==
  IF board.initiator = "stm32cube" THEN Stm32Write(b, DeviceConfig(d), n, hal)
  ELSE ArduinoWrite(b, DeviceConfig(d), n, hal)

HalOutcomes ==
  IF MayFail /\ board.initiator = "stm32cube"
  THEN [init : HalStatuses, transmit : HalStatuses]
  ELSE {HalSucceeds}

(* The panel takes words of the size sent, most significant bit first. *)
Understood(d, b) == b.spi.DataSize = d /\ b.spi.FirstBit = "MSB" /\ FirstBitInTime(b.spi)

(* SetMode(kCommand), the command byte, SetMode(kData), the data: the byte *)
(* or the data may fail, and the panel has the command without its data.   *)
WriteCommand(step) ==
  \E h1 \in HalOutcomes, h2 \in HalOutcomes :
    LET byte  == Write(bus, 8, 1, h1)
        sent  == byte.status = "OK"
        n     == Len(step.args)
        data  == IF sent /\ n > 0 THEN Write(byte.bus, 8, n, h2) ELSE byte
        ok    == data.status = "OK"
    IN  /\ bus' = data.bus
        /\ dc' = IF sent THEN "data" ELSE "command"
        /\ panel' = IF ok /\ Understood(8, data.bus)
                    THEN PanelCommand(panel, step.name, step.args)
                    ELSE [panel EXCEPT !.writing = FALSE]
        /\ result' = IF step.must THEN data.status ELSE result
        /\ silent' = (silent \/ (~ok /\ ~step.must))
        /\ UNCHANGED memory

(* A block of pixels: of one that fails only the first half arrives. *)
WritePixels(step) ==
  \E hal \in HalOutcomes :
    LET sent   == Write(bus, 16, Len(step.indices), hal)
        words  == IF sent.status = "OK" THEN sent.words ELSE sent.words \div 2
        values == [i \in 1..words |-> <<frame, step.indices[i]>>]
        heard  == dc = "data" /\ Understood(16, sent.bus)
    IN  /\ bus' = sent.bus
        /\ memory' = IF heard THEN PanelMemory(memory, panel, values) ELSE memory
        /\ panel' = IF heard THEN PanelAdvance(panel, words) ELSE panel
        /\ result' = sent.status
        /\ UNCHANGED <<dc, silent>>

Sending == script # <<>> /\ result = "OK" /\ appPc \in {"init", "send"}

Send ==
  /\ Sending
  /\ LET step == Head(script)
     IN  \/ step.op = "command" /\ WriteCommand(step)
         \/ step.op = "pixels" /\ WritePixels(step)
         \/ /\ step.op = "reset"
            /\ panel' = PanelReset
            /\ UNCHANGED <<bus, dc, memory, result, silent>>
         \/ /\ step.op = "wait"
            /\ panel' = [panel EXCEPT !.ready = TRUE]
            /\ UNCHANGED <<bus, dc, memory, result, silent>>
  /\ script' = Tail(script)
  /\ UNCHANGED <<board, appPc, free, frame>>

AppGoto(from, to) == appPc = from /\ appPc' = to

(* Common::Init: the pins, and the driver's Init, which answers OK. *)
CommonInit ==
  /\ AppGoto("boot", "init")
  /\ script' = Init(board)
  /\ UNCHANGED <<board, bus, dc, panel, memory, result, free, frame, silent>>

InitDone ==
  /\ AppGoto("init", "get")
  /\ ~Sending
  /\ UNCHANGED <<board, bus, dc, panel, memory, script, result, free, frame, silent>>

(* GetFramebuffer blocks until the pool has one; then a frame is drawn. *)
GetFramebuffer ==
  /\ AppGoto("get", "release")
  /\ free > 0
  /\ free' = free - 1
  /\ frame' = (frame + 1) % FrameIds
  /\ UNCHANGED <<board, bus, dc, panel, memory, script, result, silent>>

(* Display::ReleaseFramebuffer. *)
ReleaseFramebuffer ==
  /\ AppGoto("release", "send")
  /\ script' = IF Resizes(board) THEN UpdateNearestNeighbor(board)
               ELSE WriteFramebuffer(board)
  /\ UNCHANGED <<board, bus, dc, panel, memory, result, free, frame, silent>>

(* A plausible slip: the framebuffer is released by the callback and again *)
(* by its owner.                                                           *)
MutantCallbackTwice ==
  /\ appPc = "send"
  /\ ~Sending
  /\ appPc' = IF result = "OK" THEN "get" ELSE "halted"
  /\ free' = free + 2
  /\ script' = <<>>
  /\ UNCHANGED <<board, bus, dc, panel, memory, result, frame, silent>>

(* A plausible slip: the callback drops the framebuffer. *)
MutantCallbackDrops ==
  /\ appPc = "send"
  /\ ~Sending
  /\ appPc' = IF result = "OK" THEN "get" ELSE "halted"
  /\ script' = <<>>
  /\ UNCHANGED <<board, bus, dc, panel, memory, result, free, frame, silent>>

(* The callback: PW_ASSERT_OK stops the application. *)
Callback ==
  /\ appPc = "send"
  /\ ~Sending
  /\ IF result = "OK"
     THEN appPc' = "get" /\ free' = free + 1
     ELSE appPc' = "halted" /\ UNCHANGED free
  /\ script' = <<>>
  /\ UNCHANGED <<board, bus, dc, panel, memory, result, frame, silent>>

Next ==
  \/ CommonInit \/ InitDone \/ GetFramebuffer \/ ReleaseFramebuffer
  \/ Send \/ Callback

(* The task runs as long as it is not blocked. *)
Spec == InitOn(BoardsUsed) /\ [][Next]_vars /\ WF_vars(Next)

-----------------------------------------------------------------------------
TypeOK ==
  /\ bus.spi.DataSize \in WordSizes
  /\ \A d \in WordSizes : bus.handle[d].init_status \in Statuses
  /\ result \in Statuses
  /\ free \in 0..1
  /\ memory \in [Cells -> (0..FrameIds) \X Nat]
  /\ panel.at \in 0..((Width + 1) * Height - 1)

(* The pixel of m that is nearest to pixel x of n, rounding down. *)
Nearest(x, n, m) ==
  CHOOSE s \in 0..(m - 1) :
    s * (n - 1) <= x * (m - 1) /\ x * (m - 1) < (s + 1) * (n - 1)

(* When a frame was sent and no status was lost on the way, an awake panel  *)
(* shows exactly this frame: each pixel, from the place that the resize     *)
(* promises, whatever the driver's bands, buffers, windows and the panel's  *)
(* place in its memory were.                                                *)
ShowsTheFrame ==
  appPc = "get" /\ frame # FrameIds /\ ~silent =>
      /\ panel.ready /\ panel.awake /\ panel.on /\ panel.format
      /\ \A c \in Cells :
           memory[c] = <<frame, Nearest(c \div Width, Height, board.fbheight) * board.fbwidth
                                  + Nearest(c % Width, Width, board.fbwidth)>>

(* The peripheral is set to the word size of the device that uses it: the   *)
(* two initiators of a board do not disturb each other.                     *)
WordSizesAgree ==
  [][\A d \in WordSizes :
       Sending /\ result' = "OK" /\ ~silent'
         /\ Head(script).op = (IF d = 8 THEN "command" ELSE "pixels")
         => bus'.spi.DataSize = d]_vars

(* WriteRow opens the window one column beyond the glass whenever a row     *)
(* reaches its edge, and the panel drops what is sent there.  Nothing is:   *)
(* no row or band, at whatever place of its buffer the resize flushes it,   *)
(* holds more pixels than there are columns left, and none goes on into the *)
(* column that does not exist.                                              *)
PixelsOnGlass ==
  /\ panel.col[2] <= Width /\ panel.row[2] < Height
  /\ Sending /\ Head(script).op = "pixels" /\ panel.ready /\ panel.writing /\ ~silent =>
       \A j \in DOMAIN Head(script).indices :
         CellOf(panel, j - 1) \in (0..(Width - 1)) \X (0..(Height - 1))

(* The panel gets what was drawn, in words of the size it takes, and no     *)
(* pixel is lost beyond the glass.                                          *)
PanelShows == [](TypeOK /\ ShowsTheFrame /\ PixelsOnGlass) /\ WordSizesAgree

(* Unless a transfer fails, frames keep coming. *)
FramesKeepComing == []<>(appPc = "release") \/ <>[](result # "OK")
=============================================================================
