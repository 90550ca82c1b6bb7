----------------------------- MODULE DisplayPio -----------------------------
(***************************************************************************)
(* The display pipeline of the Pico applications: the main loop of an      *)
(* application (terminal_display/main.cc) draws into a framebuffer of the  *)
(* pool and releases it to pw_display, whose ST7789 driver forwards it to  *)
(* the RP2040 pixel pusher; the pusher's interrupt handler calls back and  *)
(* returns the framebuffer to the pool.  It composes FramebufferPool,      *)
(* whose buffers may come back in any order as far as the pool knows, and  *)
(* PixelPusher.                                                            *)
(***************************************************************************)
EXTENDS PixelPusher

CONSTANTS
  Main,        \* the one thread
  NumBuffers,  \* framebuffers in the pool
  SizeLimit,   \* size_t counts modulo SizeLimit
  FrameIds     \* frames are numbered modulo FrameIds

ASSUME PipelineAssumption ==
  /\ NumBuffers \in Nat \ {0} /\ Buffers = 0..(NumBuffers - 1)
  /\ SizeLimit \in Nat /\ NumBuffers < SizeLimit
  /\ FrameIds \in Nat /\ FrameIds > NumBuffers + 1

VARIABLES
  framebuffer_semaphore_, next_fb_idx_, pc, idx, out,  \* the pool
  appPc,        \* where the main loop is
  framebuffer,  \* the main loop's framebuffer, None once moved away
  content,      \* content[b]: the frame last drawn in b, or Partial
  drawn,        \* number of the last frame drawn
  shown         \* number of the last frame whose callback ran

pool == <<framebuffer_semaphore_, next_fb_idx_, pc, idx, out>>
app == <<appPc, framebuffer, content, drawn>>
vars == <<pusherVars, pool, app, shown>>

Pool == INSTANCE FramebufferPool WITH Threads <- {Main}, InOrder <- FALSE

Partial == FrameIds
NextFrame(n) == (n + 1) % FrameIds

Init ==
  /\ PusherInit
  /\ Pool!Init
  /\ appPc = "init"
  /\ framebuffer = None
  /\ content = [b \in Buffers |-> Partial]
  /\ drawn = 0
  /\ shown = 0

AppGoto(from, to) == appPc = from /\ appPc' = to

(* Common::Init: the display, then the pusher with pixel doubling. *)
CommonInit ==
  /\ AppGoto("init", "get")
  /\ SetPixelDouble(PixelDouble)
  /\ UNCHANGED <<pool, framebuffer, content, drawn, shown>>

(* framebuffer = display.GetFramebuffer() *)
GetFramebuffer ==
  /\ \/ /\ AppGoto("get", "getting")
        /\ Pool!CallGetFramebuffer(Main)
        /\ UNCHANGED framebuffer
     \/ /\ appPc = "getting"
        /\ \/ Pool!Acquire(Main)    \/ Pool!LoadIdx(Main)
           \/ Pool!StoreIdx(Main)   \/ Pool!CompareIdx(Main)
           \/ Pool!ResetIdx(Main)
        /\ UNCHANGED <<appPc, framebuffer>>
     \/ /\ AppGoto("getting", "fill")
        /\ Pool!ReturnFramebuffer(Main)
        /\ framebuffer' = idx[Main]
  /\ UNCHANGED <<pusherVars, content, drawn, shown>>

(* Fill starts to overwrite the buffer, DrawFrame ends with a whole frame. *)
Fill ==
  /\ AppGoto("fill", "draw")
  /\ content' = [content EXCEPT ![framebuffer] = Partial]
  /\ UNCHANGED <<pusherVars, pool, framebuffer, drawn, shown>>

DrawFrame ==
  /\ AppGoto("draw", "release")
  /\ drawn' = NextFrame(drawn)
  /\ content' = [content EXCEPT ![framebuffer] = drawn']
  /\ UNCHANGED <<pusherVars, pool, framebuffer, shown>>

(* Display::ReleaseFramebuffer moves a valid framebuffer to the driver's    *)
(* WriteFramebuffer and that to the pixel pusher's.                         *)
ReleaseFramebuffer ==
  /\ \/ /\ AppGoto("release", "releasing")
        /\ CallWriteFramebuffer(framebuffer)
        /\ framebuffer' = None
     \/ /\ appPc = "releasing"
        /\ Spin \/ Latch
        /\ UNCHANGED <<appPc, framebuffer>>
     \/ /\ AppGoto("releasing", "get")
        /\ Start
        /\ UNCHANGED framebuffer
  /\ UNCHANGED <<pool, content, drawn, shown>>

MainLoop ==
  CommonInit \/ GetFramebuffer \/ Fill \/ DrawFrame \/ ReleaseFramebuffer

Dma ==
  /\ \E ch \in Channels : DmaComplete(ch)
  /\ UNCHANGED <<pool, app, shown>>

(* Mutations that a property must detect: the callback loses the buffer ... *)
MutantIrqLosesBuffer ==
  \/ IrqNextRows /\ UNCHANGED <<pool, app, shown>>
  \/ /\ IrqFrameDone
     /\ shown' = NextFrame(shown)
     /\ UNCHANGED <<pool, app>>

(* ... or returns the newest.                                               *)
MutantIrqReturnsNewest ==
  \/ IrqNextRows /\ UNCHANGED <<pool, app, shown>>
  \/ /\ IrqFrameDone
     /\ Pool!ReleaseFramebuffer(Len(out))
     /\ shown' = NextFrame(shown)
     /\ UNCHANGED app

(* The handler; at the end of a frame the callback that Display passed      *)
(* returns the framebuffer to the pool.                                     *)
IrqHandler ==
  \/ /\ IrqNextRows
     /\ UNCHANGED <<pool, app, shown>>
  \/ /\ IrqFrameDone
     /\ IF s_draw_callback = None
        THEN UNCHANGED <<pool, shown>>
        ELSE /\ \E i \in Pool!Positions :
                  /\ out[i] = s_framebuffer.data
                  /\ Pool!ReleaseFramebuffer(i)
             /\ shown' = NextFrame(shown)
     /\ UNCHANGED app

Next == MainLoop \/ Dma \/ IrqHandler

Spec == Init /\ [][Next]_vars

(* The main loop never stops, transfers end, interrupts are taken. *)
FairSpec ==
  Spec /\ WF_vars(MainLoop) /\ WF_vars(Dma) /\ WF_vars(IrqHandler)

-----------------------------------------------------------------------------
TypeOK ==
  /\ PusherTypeOK
  /\ Pool!TypeOK
  /\ framebuffer \in Buffers \cup {None}
  /\ content \in [Buffers -> 0..FrameIds]
  /\ drawn \in 0..(FrameIds - 1) /\ shown \in 0..(FrameIds - 1)

(* While a framebuffer is being sent it holds, whole, the frame after the   *)
(* last one shown: frames reach the screen once each, in the order they     *)
(* were drawn, and the main loop never draws into the buffer the DMA is     *)
(* reading (which is the tearing that two buffers are there to prevent).    *)
ShowsFramesInOrder ==
  s_framebuffer.data # None =>
    content[s_framebuffer.data] = NextFrame(shown)

(* Every buffer that is out is in exactly one place: with the main loop, in *)
(* the call of WriteFramebuffer, or with the pusher.  None leaks.           *)
Held(b) == IF b = None THEN <<>> ELSE <<b>>
NoBufferLost ==
  out = Held(s_framebuffer.data) \o Held(arg) \o Held(framebuffer)

(* One driver returns buffers in the order they were handed out, so the     *)
(* pool may be analysed with InOrder (see FramebufferPoolProofs).           *)
ReleasesInOrder ==
  [][Len(out') < Len(out) => out' = Tail(out)]_vars

(* The screen never freezes: every frame number is shown again and again.   *)
FramesKeepComing == \A n \in 0..(FrameIds - 1) : []<>(shown = n)
=============================================================================
