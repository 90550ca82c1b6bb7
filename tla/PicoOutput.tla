----------------------------- MODULE PicoOutput ----------------------------
(***************************************************************************)
(* DisplayPio down to the wire: the DMA moves the pixels of a transfer, a  *)
(* word at a time, to the PIO machine of PioPrograms, which runs beside    *)
(* the main loop and the interrupt handler, and is done when it has moved  *)
(* the last, which the machine may still have to send.                     *)
(***************************************************************************)
EXTENDS DisplayPio, PioPrograms

ASSUME DoubleAssumption == PixelDouble = Double

VARIABLE fed   \* pixels of wire that the DMA has moved

allVars == <<vars, pioVars, fed>>

InitOutput == Init /\ InitPio /\ fed = 0

(* What a transfer adds to the pixels to be sent is due at the panel.  The   *)
(* colour of a pixel is the low bits of its offset.                         *)
Transfers(already) ==
  /\ due' = due \o BitsOf(SubSeq(wire', already + 1, Len(wire')))
  /\ fed' = already
  /\ UNCHANGED <<sm, fifo, data, sck, dcPin, stalled, dmaSize, setup>>

(* The first WriteFramebuffer sets the machine up before it goes on.        *)
Settles == pusherPc = "latch" /\ ~write_mode_ /\ setup # "done"
SetUp == Settles /\ SetupWriteFramebuffer /\ UNCHANGED <<vars, fed>>

Main_ ==
  /\ ~Settles /\ MainLoop
  /\ IF pusherPc = "start" THEN Transfers(0) ELSE UNCHANGED <<pioVars, fed>>

Moves ==
  /\ busy # {} /\ fed < Len(wire)
  /\ FeedWord(SubSeq(wire, fed + 1, fed + dmaSize))
  /\ fed' = fed + dmaSize
  /\ UNCHANGED vars

Done == fed = Len(wire) /\ Dma /\ UNCHANGED <<pioVars, fed>>

Handler ==
  /\ IrqHandler
  /\ IF wire' # wire THEN Transfers(fed) ELSE UNCHANGED <<pioVars, fed>>

Machine == SmStep /\ UNCHANGED <<vars, fed>>

NextOutput == SetUp \/ Main_ \/ Moves \/ Done \/ Handler \/ Machine

(* The machine's clock runs, the DMA is served, interrupts are taken.       *)
OutputSpec ==
  /\ InitOutput /\ [][NextOutput]_allVars
  /\ WF_allVars(SetUp \/ Main_) /\ WF_allVars(Moves \/ Done)
  /\ WF_allVars(Handler) /\ WF_allVars(Machine)

OutputTypeOK == TypeOK /\ PioTypeOK /\ fed \in 0 .. Len(wire)

(* The two queues never hold more than they can, and every buffer that is   *)
(* out of the pool is in one place.                                         *)
OutputInv == OutputTypeOK /\ NoBufferLost
=============================================================================
