------------------------- MODULE FramebufferDevice -------------------------
(***************************************************************************)
(* pw_mipi_dsi_mcuxpresso/framebuffer_device.cc: the framebuffers of the   *)
(* i.MX RT595 go round between a memory pool, a client and the display     *)
(* controller.  A semaphore lets one of them out of the pool at a time,    *)
(* and one static callback slot remembers whom to tell when the controller *)
(* is done with it, which it says in an interrupt.                         *)
(*                                                                         *)
(* The memory pool (a list that Put pushes on and Get pops from) and the   *)
(* display controller belong to the vendor's SDK.  An interrupt is atomic  *)
(* to the threads; a thread is preempted between any two of its steps.     *)
(***************************************************************************)
EXTENDS Integers, Sequences

CONSTANTS
  Threads,     \* the threads that draw
  NumBuffers,  \* framebuffers of the pool, numbered from 1
  None,        \* a null pointer or an empty callback
  MayFail,     \* the controller's calls that may fail; that setFrameBuffer
               \* may fail is up to the module that composes this one
  MayReopen    \* TRUE: a client may Init the device again after Close

Calls == {"init", "enableLayer", "disableLayer", "setFrameBuffer"}

ASSUME DeviceAssumption ==
  /\ NumBuffers \in Nat \ {0}
  /\ None \notin Threads /\ None \notin 1..NumBuffers
  /\ MayFail \subseteq Calls
  /\ MayReopen \in BOOLEAN

Buffers == 1..NumBuffers

VARIABLES
  dc_,                     \* the controller is set
  enabled_,
  framebuffer_semaphore_,
  video_mempool_,          \* the buffers in the pool, the next to get last
  s_write_callback,        \* the thread whose callback is set, or None
  s_current_write_buffer,
  frame,      \* the controller: the buffer it has to show, or None
  layerOn,    \* the controller: the layer is enabled
  phase,      \* New, then Open once Init succeeds, then Closed
  requested,  \* history: the device was last told, with success, to be enabled
  pc,         \* pc[t]: the next step of t's call, Idle or Drawing
  held,       \* held[t]: the buffer t was given and has not given back
  crashed     \* an assertion failed

lifecycle == <<dc_, enabled_, layerOn, phase, requested>>
deviceVars == <<lifecycle, framebuffer_semaphore_, video_mempool_,
                s_write_callback, s_current_write_buffer, frame, pc, held,
                crashed>>

New == "new"
Open == "open"
Closed == "closed"

Idle == "idle"
Drawing == "drawing"

DeviceInit ==
  /\ dc_ = FALSE /\ enabled_ = FALSE
  /\ framebuffer_semaphore_ = 0
  /\ video_mempool_ = <<>>
  /\ s_write_callback = None /\ s_current_write_buffer = None
  /\ frame = None /\ layerOn = FALSE
  /\ phase = New /\ requested = FALSE
  /\ pc = [t \in Threads |-> Idle]
  /\ held = [t \in Threads |-> None]
  /\ crashed = FALSE

-----------------------------------------------------------------------------
(* A mutation that a property must detect, as are the other definitions    *)
(* named Mutant...: a unit of the semaphore for every buffer, as a pool has.  *)
MutantInit ==
  /\ ~enabled_
  /\ dc_' = TRUE
  /\ phase' = Open
  /\ video_mempool_' = video_mempool_ \o [i \in Buffers |-> i]
  /\ framebuffer_semaphore_' = framebuffer_semaphore_ + NumBuffers
  /\ UNCHANGED <<enabled_, layerOn, requested, s_write_callback,
                 s_current_write_buffer, frame, pc, held, crashed>>

(* Init, after PW_ASSERT(!dc_): the controller is set even if it then does  *)
(* not start; the pool gets every buffer and the semaphore one unit.        *)
Init ==
  /\ ~enabled_
  /\ dc_' = TRUE
  /\ phase' = Open
  /\ video_mempool_' = video_mempool_ \o [i \in Buffers |-> i]
  /\ framebuffer_semaphore_' = framebuffer_semaphore_ + 1
  /\ UNCHANGED <<enabled_, layerOn, requested, s_write_callback,
                 s_current_write_buffer, frame, pc, held, crashed>>

(* The controller fails, or the device is still enabled from before a Close. *)
InitFails ==
  /\ "init" \in MayFail \/ enabled_
  /\ dc_' = TRUE
  /\ UNCHANGED <<enabled_, layerOn, phase, requested, framebuffer_semaphore_,
                 video_mempool_, s_write_callback, s_current_write_buffer,
                 frame, pc, held, crashed>>

(* deinit stops the controller.  dc_ is all that is reset. *)
Close ==
  /\ dc_
  /\ dc_' = FALSE /\ layerOn' = FALSE /\ requested' = FALSE
  /\ phase' = IF phase = Open THEN Closed ELSE phase
  /\ UNCHANGED <<enabled_, framebuffer_semaphore_, video_mempool_,
                 s_write_callback, s_current_write_buffer, frame, pc, held,
                 crashed>>

(* enabled_ is set when enableLayer fails, and only then.  (The command     *)
(* mode controller of this device does not reserve a framebuffer.)          *)
Enable(ok) ==
  /\ dc_
  /\ ok \/ "enableLayer" \in MayFail
  /\ IF enabled_ THEN UNCHANGED <<enabled_, layerOn>>
     ELSE enabled_' = ~ok /\ layerOn' = (layerOn \/ ok)
  /\ requested' = (requested \/ ok \/ enabled_)
  /\ UNCHANGED <<dc_, phase, framebuffer_semaphore_, video_mempool_,
                 s_write_callback, s_current_write_buffer, frame, pc, held,
                 crashed>>

(* enabled_ is reset even if disableLayer fails, of which the caller is told. *)
Disable(ok) ==
  /\ dc_
  /\ ok \/ "disableLayer" \in MayFail
  /\ enabled_' = FALSE
  /\ layerOn' = (layerOn /\ ~(enabled_ /\ ok))
  /\ requested' = (requested /\ enabled_ /\ ~ok)
  /\ UNCHANGED <<dc_, phase, framebuffer_semaphore_, video_mempool_,
                 s_write_callback, s_current_write_buffer, frame, pc, held,
                 crashed>>

-----------------------------------------------------------------------------
Goto(t, from, to) ==
  /\ pc[t] = from
  /\ pc' = [pc EXCEPT ![t] = to]

(* GetFramebuffer: the semaphore, then the pool.                            *)
CallGetFramebuffer(t) ==
  /\ Goto(t, Idle, "acquire")
  /\ UNCHANGED <<lifecycle, framebuffer_semaphore_, video_mempool_, held,
                 s_write_callback, s_current_write_buffer, frame, crashed>>

Acquire(t) ==
  /\ framebuffer_semaphore_ > 0
  /\ framebuffer_semaphore_' = framebuffer_semaphore_ - 1
  /\ Goto(t, "acquire", "get")
  /\ UNCHANGED <<lifecycle, video_mempool_, held, s_write_callback,
                 s_current_write_buffer, frame, crashed>>

(* VIDEO_MEMPOOL_Get of an empty pool is a null pointer. *)
MempoolGet(t) ==
  LET n == Len(video_mempool_)
  IN  /\ IF n = 0
         THEN /\ Goto(t, "get", "null")
              /\ UNCHANGED <<video_mempool_, held>>
         ELSE /\ Goto(t, "get", Drawing)
              /\ held' = [held EXCEPT ![t] = video_mempool_[n]]
              /\ video_mempool_' = SubSeq(video_mempool_, 1, n - 1)
      /\ UNCHANGED <<lifecycle, framebuffer_semaphore_, s_write_callback,
                     s_current_write_buffer, frame, crashed>>

(* WriteFramebuffer: the assertion and the statics ... *)
CallWriteFramebuffer(t) ==
  /\ dc_
  /\ Goto(t, Drawing, "set")
  /\ crashed' = (s_write_callback # None)
  /\ s_write_callback' = t
  /\ s_current_write_buffer' = held[t]
  /\ UNCHANGED <<lifecycle, framebuffer_semaphore_, video_mempool_, held,
                 frame>>

(* ... then setFrameBuffer, which hands the buffer to the controller.       *)
SetFrameBuffer(t) ==
  /\ Goto(t, "set", Idle)
  /\ frame' = held[t]
  /\ held' = [held EXCEPT ![t] = None]
  /\ UNCHANGED <<lifecycle, framebuffer_semaphore_, video_mempool_,
                 s_write_callback, s_current_write_buffer, crashed>>

SetFrameBufferFails(t) ==
  /\ "setFrameBuffer" \in MayFail
  /\ Goto(t, "set", "complete")
  /\ UNCHANGED <<lifecycle, framebuffer_semaphore_, video_mempool_, held,
                 s_write_callback, s_current_write_buffer, frame, crashed>>

(* Then WriteComplete runs on the thread.  It does not put the buffer back: *)
(* the client's callback gets a buffer that the pool will never see again.  *)
WriteCompleteRelease(t) ==
  /\ Goto(t, "complete", "callback")
  /\ crashed' = (held[t] # s_current_write_buffer \/ s_write_callback = None)
  /\ framebuffer_semaphore_' = framebuffer_semaphore_ + 1
  /\ UNCHANGED <<lifecycle, video_mempool_, held, s_write_callback,
                 s_current_write_buffer, frame>>

(* The callback stays. *)
MutantWriteCompleteCallback(t) ==
  /\ Goto(t, "callback", Idle)
  /\ s_current_write_buffer' = None
  /\ held' = [held EXCEPT ![t] = None]
  /\ UNCHANGED <<lifecycle, framebuffer_semaphore_, video_mempool_, frame,
                 crashed, s_write_callback>>

WriteCompleteCallback(t) ==
  /\ Goto(t, "callback", Idle)
  /\ s_current_write_buffer' = None
  /\ s_write_callback' = None
  /\ held' = [held EXCEPT ![t] = None]
  /\ UNCHANGED <<lifecycle, framebuffer_semaphore_, video_mempool_, frame,
                 crashed>>

(* The buffer is not put back. *)
MutantBufferSwitchOff ==
  /\ layerOn
  /\ frame # None
  /\ frame' = None
  /\ crashed' = (frame # s_current_write_buffer \/ s_write_callback = None)
  /\ framebuffer_semaphore_' = framebuffer_semaphore_ + 1
  /\ s_current_write_buffer' = None
  /\ s_write_callback' = None
  /\ UNCHANGED <<lifecycle, video_mempool_, pc, held>>

(* In the interrupt, when the controller is done with a buffer: Put and the *)
(* whole of WriteComplete.                                                  *)
BufferSwitchOff ==
  /\ layerOn
  /\ frame # None
  /\ frame' = None
  /\ video_mempool_' = Append(video_mempool_, frame)
  /\ crashed' = (frame # s_current_write_buffer \/ s_write_callback = None)
  /\ framebuffer_semaphore_' = framebuffer_semaphore_ + 1
  /\ s_current_write_buffer' = None
  /\ s_write_callback' = None
  /\ UNCHANGED <<lifecycle, pc, held>>

-----------------------------------------------------------------------------
GetFramebuffer(t) == Acquire(t) \/ MempoolGet(t)

(* A client may use the device between Init and Close, and closes it with   *)
(* every call returned and every buffer given back.                         *)
Quiet == frame = None /\ \A t \in Threads : pc[t] \in {Idle, "null"}

DeviceNext ==
  /\ ~crashed
  /\ \/ /\ ~dc_
        /\ phase = New \/ MayReopen
        /\ Init \/ InitFails
     \/ Quiet /\ Close
     \/ phase = Open /\ \E ok \in BOOLEAN : Enable(ok) \/ Disable(ok)
     \/ \E t \in Threads :
          \/ phase = Open /\ CallGetFramebuffer(t)
          \/ GetFramebuffer(t)
          \/ CallWriteFramebuffer(t)
          \/ SetFrameBuffer(t)
     \/ BufferSwitchOff

DeviceSpec == DeviceInit /\ [][DeviceNext]_deviceVars

-----------------------------------------------------------------------------
Calling == {"acquire", "get", "set", "complete", "callback"}

DeviceTypeOK ==
  /\ dc_ \in BOOLEAN /\ enabled_ \in BOOLEAN /\ layerOn \in BOOLEAN
  /\ phase \in {New, Open, Closed} /\ requested \in BOOLEAN
  /\ framebuffer_semaphore_ \in 0..1
  /\ video_mempool_ \in Seq(Buffers)
  /\ s_write_callback \in Threads \cup {None}
  /\ s_current_write_buffer \in Buffers \cup {None}
  /\ frame \in Buffers \cup {None}
  /\ pc \in [Threads -> Calling \cup {Idle, Drawing, "null"}]
  /\ held \in [Threads -> Buffers \cup {None}]
  /\ crashed \in BOOLEAN

(* The assertions of WriteFramebuffer and WriteComplete: the one callback   *)
(* slot is free when it is taken and still filled, for the same buffer,     *)
(* when the controller or a failure calls back.  Nothing but the semaphore  *)
(* keeps two threads from using it at a time.                               *)
AssertionsHold == ~crashed

(* "Only allow one framebuffer to be checked out at a time": with a thread  *)
(* or with the controller.                                                  *)
CheckedOut == {t \in Threads : held[t] # None}
OneCheckedOut ==
  /\ \A t, u \in CheckedOut : t = u
  /\ frame # None => CheckedOut = {}

(* Every buffer is somewhere: in the pool, with a thread or the controller. *)
InPool == {video_mempool_[i] : i \in DOMAIN video_mempool_}
NoBufferLeaks ==
  phase = Open =>
    \A b \in Buffers :
      \/ b \in InPool
      \/ frame = b
      \/ \E t \in Threads : held[t] = b

(* And nowhere twice: the pool does not hold one of them two times, nor one *)
(* that is in use, so the next to be handed out is free.                    *)
NoBufferTwice ==
  /\ \A i, j \in DOMAIN video_mempool_ :
       video_mempool_[i] = video_mempool_[j] => i = j
  /\ \A b \in InPool : frame # b /\ \A t \in Threads : held[t] # b

(* GetFramebuffer "*will block* until a framebuffer becomes available": it  *)
(* never comes back without one, because the semaphore's unit is released   *)
(* only after the buffer is back in the pool.                               *)
GetReturnsBuffer == \A t \in Threads : pc[t] # "null"

(* What the semaphore is for, whatever two threads, the controller and the  *)
(* failures of the other calls do.                                          *)
DeviceInv ==
  /\ DeviceTypeOK /\ AssertionsHold /\ OneCheckedOut
  /\ NoBufferLeaks /\ NoBufferTwice /\ GetReturnsBuffer

(* Enable is to "enable the device" and Disable to "disable the device":    *)
(* the layer is never on after the device was told to be off.               *)
LayerOffWhenDisabled == layerOn => requested

(* The device keeps the promise of a framebuffer pool: no buffer is given   *)
(* out again before the controller, or a failure, is done with it.          *)
Taken ==
  IF frame # None THEN <<frame>>
  ELSE IF CheckedOut = {} THEN <<>>
  ELSE <<held[CHOOSE t \in CheckedOut : TRUE]>>

Fifo == INSTANCE FifoPool WITH taken <- Taken

DeviceIsFifoPool == Fifo!Spec
=============================================================================
