---------------------------- MODULE PixelPusher ----------------------------
(***************************************************************************)
(* pw_pixel_pusher_rp2040_pio: the RP2040 sends a framebuffer to an ST7789 *)
(* through a PIO program fed by DMA.  With pixel doubling on, the PIO      *)
(* doubles each row horizontally and the DMA interrupt handler doubles it  *)
(* vertically: it restarts the DMA after each pair of rows.  A frame is    *)
(* thus a race between the thread in WriteFramebuffer, the DMA engine and  *)
(* the handler, which share the file's static variables.                   *)
(*                                                                         *)
(* The handler runs on the thread's core and is atomic to it; the thread   *)
(* is preempted between any two of its steps.  irq_fire_count is left out  *)
(* (it is never read), and so are the PIO, SPI pin and clock settings.     *)
(***************************************************************************)
EXTENDS Integers, Sequences

CONSTANTS
  Buffers,         \* the addresses of the framebuffers' pixels
  None,            \* a null pointer or an empty callback
  Width, Height,   \* the size of every framebuffer, in pixels
  Channels,        \* the DMA channels of the chip
  ClaimedChannel,  \* the one dma_claim_unused_channel returns
  PixelDouble      \* the argument of SetPixelDouble in Common::Init

Callback == "release the framebuffer"

ASSUME PusherAssumption ==
  /\ None \notin Buffers /\ None # Callback
  /\ Width \in Nat \ {0} /\ Height \in Nat \ {0}
  /\ Channels \subseteq Nat /\ 0 \in Channels
  /\ ClaimedChannel \in Channels
  /\ PixelDouble \in BOOLEAN

VARIABLES
  s_framebuffer,    \* the pixels and the height of the frame being sent
  s_draw_callback,  \* the framebuffer's completion callback, or None
  dma_channel,      \* the static that the handler and the waits use
  current_scanline,
  pixel_double_enabled_,
  write_mode_,      \* the display was told that pixels follow
  busy,             \* the channels with a transfer under way
  irqStatus,        \* the channels whose completion is not acknowledged
  irqEnabled,       \* the channels that may raise DMA_IRQ_0
  wire,             \* history: the pixels of the frame that were read, as
                    \* offsets into the framebuffer, in the order sent
  pusherPc,         \* the step WriteFramebuffer is about to do
  arg               \* WriteFramebuffer's argument

statics == <<s_framebuffer, s_draw_callback, dma_channel, current_scanline>>
hardware == <<busy, irqStatus, irqEnabled, wire>>
members == <<pixel_double_enabled_, write_mode_>>
thread == <<pusherPc, arg>>
pusherVars == <<statics, hardware, members, thread>>

-----------------------------------------------------------------------------
PusherInit ==
  /\ s_framebuffer = [data |-> None, height |-> 0]
  /\ s_draw_callback = None
  /\ dma_channel = 0
  /\ current_scanline = 240
  /\ pixel_double_enabled_ = FALSE
  /\ write_mode_ = FALSE
  /\ busy = {} /\ irqStatus = {} /\ irqEnabled = {}
  /\ wire = <<>>
  /\ pusherPc = "boot"
  /\ arg = None

Goto(from, to) == pusherPc = from /\ pusherPc' = to

(* A mutation that a property must detect, as are the other definitions    *)
(* named Mutant...: the interrupt is enabled and disabled the wrong way round.*)
MutantSetPixelDouble(enabled) ==
  /\ Goto("boot", "idle")
  /\ pixel_double_enabled_' = enabled
  /\ irqEnabled' = IF enabled THEN irqEnabled \ {dma_channel}
                   ELSE irqEnabled \cup {dma_channel}
  /\ UNCHANGED <<statics, busy, irqStatus, wire, write_mode_, arg>>

(* Init claims ClaimedChannel for dma_channel_ and installs irq_handler;   *)
(* the file-level dma_channel keeps its initial value 0 until the first     *)
(* write, and SetPixelDouble acts on that one.                              *)
SetPixelDouble(enabled) ==
  /\ Goto("boot", "idle")
  /\ pixel_double_enabled_' = enabled
  /\ IF enabled
     THEN /\ irqStatus' = irqStatus \ {dma_channel}
          /\ irqEnabled' = irqEnabled \cup {dma_channel}
     ELSE /\ irqEnabled' = irqEnabled \ {dma_channel}
          /\ UNCHANGED irqStatus
  /\ UNCHANGED <<statics, busy, wire, write_mode_, arg>>

-----------------------------------------------------------------------------
(* The thread: WriteFramebuffer. *)

CallWriteFramebuffer(fb) ==
  /\ Goto("idle", "spin")
  /\ arg' = fb
  /\ UNCHANGED <<statics, hardware, members>>

(* Forgets that a transfer may have rows left. *)
MutantDmaIsBusy == dma_channel \in busy

DmaIsBusy ==
  \/ pixel_double_enabled_ /\ current_scanline <= s_framebuffer.height
  \/ dma_channel \in busy

(* while (DmaIsBusy()) {}  and then  dma_channel_wait_for_finish_blocking. *)
Spin ==
  /\ ~DmaIsBusy
  /\ Goto("spin", "latch")
  /\ UNCHANGED <<statics, hardware, members, arg>>

(* Takes the height of the display for that of the framebuffer. *)
MutantLatch ==
  /\ write_mode_' = TRUE
  /\ Goto("latch", "start")
  /\ s_draw_callback' = Callback
  /\ s_framebuffer' = [data |-> arg, height |-> 2 * Height]
  /\ dma_channel' = ClaimedChannel
  /\ arg' = None
  /\ UNCHANGED <<current_scanline, hardware, pixel_double_enabled_>>

(* SetupWriteFramebuffer on the first write, PW_ASSERT(s_draw_callback ==   *)
(* nullptr), and the statics of the new frame.                              *)
Latch ==
  /\ write_mode_' = TRUE
  /\ IF s_draw_callback = None
     THEN /\ Goto("latch", "start")
          /\ s_draw_callback' = Callback
          /\ s_framebuffer' = [data |-> arg, height |-> Height]
          /\ dma_channel' = ClaimedChannel
          /\ arg' = None
     ELSE /\ Goto("latch", "crashed")
          /\ UNCHANGED <<s_draw_callback, s_framebuffer, dma_channel, arg>>
  /\ UNCHANGED <<current_scanline, hardware, pixel_double_enabled_>>

(* A DMA transfer of count words, 2 pixels each when doubling and 1 when    *)
(* not, from pixel offset from of the framebuffer.                          *)
Pixels(from, count) ==
  LET n == IF pixel_double_enabled_ THEN 2 * count ELSE count
  IN  [k \in 1..n |-> from + k - 1]

(* The first transfer: row 0 when doubling, the whole frame when not.       *)
Start ==
  /\ Goto("start", "idle")
  /\ IF pixel_double_enabled_
     THEN /\ current_scanline' = 0
          /\ wire' = Pixels(0, (Width * 2) \div 4)
     ELSE /\ wire' = Pixels(0, Width * Height)
          /\ UNCHANGED current_scanline
  /\ busy' = busy \cup {ClaimedChannel}
  /\ UNCHANGED <<s_framebuffer, s_draw_callback, dma_channel,
                 irqStatus, irqEnabled, members, arg>>

-----------------------------------------------------------------------------
(* The DMA engine finishes a transfer. *)
DmaComplete(ch) ==
  /\ ch \in busy
  /\ busy' = busy \ {ch}
  /\ irqStatus' = irqStatus \cup {ch}
  /\ UNCHANGED <<statics, irqEnabled, wire, members, thread>>

(* irq_handler, entered while some enabled channel has a completion, acts   *)
(* on the static dma_channel only.                                          *)
Irq ==
  /\ dma_channel \in irqStatus \cap irqEnabled
  /\ irqStatus' = irqStatus \ {dma_channel}
  /\ current_scanline' = current_scanline + 1
  /\ UNCHANGED <<dma_channel, irqEnabled, members, thread>>

(* Ends the frame with the last pair of rows unsent. *)
MutantIrqFrameDone ==
  /\ Irq
  /\ current_scanline + 1 >= s_framebuffer.height
  /\ s_draw_callback' = None
  /\ s_framebuffer' = [s_framebuffer EXCEPT !.data = None]
  /\ UNCHANGED <<busy, wire>>

(* Every row was sent: the callback gets the framebuffer, once. *)
IrqFrameDone ==
  /\ Irq
  /\ current_scanline + 1 > s_framebuffer.height
  /\ s_draw_callback' = None
  /\ s_framebuffer' = IF s_draw_callback = None THEN s_framebuffer
                      ELSE [s_framebuffer EXCEPT !.data = None]
  /\ UNCHANGED <<busy, wire>>

(* Restarts the DMA one row too late. *)
MutantIrqNextRows ==
  /\ Irq
  /\ current_scanline + 1 <= s_framebuffer.height
  /\ wire' = wire \o Pixels((current_scanline + 1) * Width, Width)
  /\ busy' = busy \cup {dma_channel}
  /\ UNCHANGED <<s_framebuffer, s_draw_callback>>

(* Gives the framebuffer back when its last row starts. *)
MutantIrqFreesEarly ==
  LET scanline == current_scanline + 1
      last == scanline = s_framebuffer.height
  IN  /\ Irq
      /\ scanline <= s_framebuffer.height
      /\ wire' = wire \o Pixels((scanline - 1) * Width,
                                IF last THEN Width \div 2 ELSE Width)
      /\ busy' = busy \cup {dma_channel}
      /\ s_draw_callback' = IF last THEN None ELSE s_draw_callback
      /\ s_framebuffer' = IF last THEN [s_framebuffer EXCEPT !.data = None]
                          ELSE s_framebuffer

(* Restart the DMA at the row before the scanline: two rows, or one when it *)
(* is the last.  fb_width and fb_height in the code are twice the size.     *)
IrqNextRows ==
  LET scanline == current_scanline + 1
      count == IF scanline = (2 * s_framebuffer.height + 1) \div 2
               THEN (2 * Width) \div 4 ELSE (2 * Width) \div 2
  IN  /\ Irq
      /\ scanline <= s_framebuffer.height
      /\ wire' = wire \o Pixels((scanline - 1) * Width, count)
      /\ busy' = busy \cup {dma_channel}
      /\ UNCHANGED <<s_framebuffer, s_draw_callback>>

-----------------------------------------------------------------------------
WriteFramebuffer == Spin \/ Latch \/ Start

(* On its own, the pusher is called with any framebuffer it does not hold. *)
PusherNext ==
  \/ SetPixelDouble(PixelDouble)
  \/ \E fb \in Buffers \ {s_framebuffer.data} : CallWriteFramebuffer(fb)
  \/ WriteFramebuffer
  \/ \E ch \in Channels : DmaComplete(ch)
  \/ IrqFrameDone
  \/ IrqNextRows

PusherSpec == PusherInit /\ [][PusherNext]_pusherVars

-----------------------------------------------------------------------------
PusherTypeOK ==
  /\ s_framebuffer \in [data : Buffers \cup {None}, height : {0, Height}]
  /\ s_draw_callback \in {None, Callback}
  /\ dma_channel \in Channels
  /\ current_scanline \in Int
  /\ pixel_double_enabled_ \in BOOLEAN /\ write_mode_ \in BOOLEAN
  /\ busy \subseteq Channels
  /\ irqStatus \subseteq Channels /\ irqEnabled \subseteq Channels
  /\ wire \in Seq(Nat)
  /\ pusherPc \in {"boot", "idle", "spin", "latch", "start", "crashed"}
  /\ arg \in Buffers \cup {None}

(* The display's row r shows row r \div 2 of the framebuffer: each row is   *)
(* sent twice, in order, with nothing between and nothing from outside the  *)
(* framebuffer, however the transfers are cut.                              *)
RowsDoubled ==
  pixel_double_enabled_ =>
    /\ Len(wire) <= 2 * Height * Width
    /\ \A r \in 0..(2 * Height - 1), c \in 0..(Width - 1) :
         r * Width + c + 1 <= Len(wire) =>
           wire[r * Width + c + 1] = (r \div 2) * Width + c

(* The callback runs only after the whole frame was sent: a step that takes *)
(* the callback away leaves 2 * Height rows on the wire and the DMA idle.   *)
CallbackAfterWholeFrame ==
  [][s_draw_callback # None /\ s_draw_callback' = None =>
       Len(wire) = 2 * Height * Width /\ busy' = {}]_pusherVars

(* The transfer never reads through a framebuffer that was moved away, and  *)
(* WriteFramebuffer never replaces one that is being read.                  *)
FrameHeldWhileSent ==
  [][busy # {} => /\ s_framebuffer.data # None
                  /\ s_framebuffer' = s_framebuffer]_pusherVars

(* PW_ASSERT(s_draw_callback == nullptr) in WriteFramebuffer holds: waiting *)
(* for the DMA is enough to know that the previous callback ran.            *)
CallbackSlotFree == pusherPc # "crashed"
=============================================================================
