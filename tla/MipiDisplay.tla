---------------------------- MODULE MipiDisplay ----------------------------
(***************************************************************************)
(* The display pipeline of the i.MX RT595 applications: the main loop gets *)
(* a framebuffer from the MIPI device and releases it through pw_display   *)
(* and the MIPI display driver to that device again; at the panel's next   *)
(* tearing-effect interrupt the controller sends it with DSI_MemWrite, and *)
(* when the last packet is out the completion goes back up through three   *)
(* callback slots, one in each of framebuffer_device.cc, device.cc and     *)
(* display_driver.cc.  It composes FramebufferDevice and DsiMemWrite.      *)
(***************************************************************************)
EXTENDS FramebufferDevice, DsiMemWrite

CONSTANTS
  Main,       \* the one thread
  FrameBytes, \* bytes of a framebuffer
  FrameIds    \* frames are numbered modulo FrameIds

ASSUME MipiAssumption ==
  /\ Threads = {Main}
  /\ FrameBytes \in Lengths
  /\ FrameIds \in Nat /\ FrameIds > 1

VARIABLES
  appPc,              \* where the main task is
  device_callback,    \* s_write_callback of device.cc is set
  s_write_framebuffer,\* of device.cc: the buffer, None once moved away
  driver_callback,    \* s_write_callback of display_driver.cc is set
  content,            \* content[b]: the frame last drawn in b, or Partial
  drawn,              \* number of the last frame drawn
  shown,              \* number of the last frame given back as shown
  aborted             \* the assertion above framebuffer_device.cc that failed

slots == <<device_callback, s_write_framebuffer, driver_callback>>
picture == <<content, drawn>>
vars == <<deviceVars, dsiVars, appPc, slots, picture, shown, aborted>>

NoAssertion == "none"
OfStatus == "status"  \* pw_display's, that the status of a write is OK
OfNull == "null"      \* framebuffer.cc's, that the data is not null
OfSlot == "slot"      \* one about a callback slot

Partial == FrameIds
NextFrame(n) == (n + 1) % FrameIds

MipiInit ==
  /\ DeviceInit /\ DsiInit
  /\ appPc = "init"
  /\ device_callback = FALSE
  /\ s_write_framebuffer = None
  /\ driver_callback = FALSE
  /\ content = [b \in Buffers |-> Partial]
  /\ drawn = 0 /\ shown = 0
  /\ aborted = NoAssertion

AppGoto(from, to) == appPc = from /\ appPc' = to

-----------------------------------------------------------------------------
(* A mutation that a property must detect, as are the other definitions    *)
(* named Mutant...: the device forgets to move its framebuffer to the callback.*)
MutantComplete(b, ok) ==
  /\ aborted' = IF ok THEN NoAssertion ELSE OfStatus
  /\ device_callback' = FALSE
  /\ driver_callback' = FALSE
  /\ shown' = content[b]
  /\ UNCHANGED s_write_framebuffer

(* The completion: the callback that was set in framebuffer_device.cc is    *)
(* empty for the black frame of MCUXpressoDevice::Init; for any other it is *)
(* device.cc's, which calls the driver's, which calls pw_display's, which   *)
(* asserts that the status is OK.  Every slot is emptied as it is called.   *)
Complete(b, ok) ==
  IF s_write_framebuffer = None
  THEN UNCHANGED <<slots, shown, aborted>>
  ELSE /\ aborted' = IF ~device_callback \/ ~driver_callback THEN OfSlot
                     ELSE IF ok THEN NoAssertion ELSE OfStatus
       /\ device_callback' = FALSE
       /\ s_write_framebuffer' = None
       /\ driver_callback' = FALSE
       /\ shown' = content[b]

(* The main task's calls that only concern the device. *)
GetSteps ==
  \/ Acquire(Main)
  \/ MempoolGet(Main)

InitDevice ==
  /\ \/ AppGoto("init", "first get") /\ Init
     \/ AppGoto("init", "failed") /\ InitFails
     \/ AppGoto("first get", "first getting") /\ CallGetFramebuffer(Main)
     \/ appPc = "first getting" /\ GetSteps /\ UNCHANGED appPc
  /\ UNCHANGED <<dsiVars, slots, picture, shown, aborted>>

(* memset to black, and WriteFramebuffer with an empty callback. *)
WriteFirstFrame ==
  /\ AppGoto("first getting", "first writing")
  /\ CallWriteFramebuffer(Main)
  /\ content' = [content EXCEPT ![held[Main]] = drawn]
  /\ UNCHANGED <<dsiVars, slots, drawn, shown, aborted>>

(* The thread's part of a write that the controller takes or refuses. *)
WriteSteps ==
  /\ \/ /\ SetFrameBufferFails(Main) \/ WriteCompleteRelease(Main)
        /\ UNCHANGED <<slots, shown, aborted>>
     \/ /\ WriteCompleteCallback(Main)
        /\ Complete(held[Main], FALSE)
     \/ SetFrameBuffer(Main) /\ UNCHANGED <<slots, shown, aborted>>
  /\ appPc \in {"first writing", "releasing"}
  /\ appPc' = IF pc'[Main] # Idle THEN appPc
              ELSE IF appPc = "releasing" THEN "get" ELSE "enable"
  /\ UNCHANGED <<dsiVars, picture>>

EnableLayer ==
  /\ \/ AppGoto("enable", "get") /\ Enable(TRUE)
     \/ AppGoto("enable", "failed") /\ Enable(FALSE)
  /\ UNCHANGED <<dsiVars, slots, picture, shown, aborted>>

(* Display::GetFramebuffer: the Framebuffer's constructor asserts that the  *)
(* data is not null.                                                        *)
GetFrame ==
  /\ \/ AppGoto("get", "getting") /\ CallGetFramebuffer(Main)
     \/ appPc = "getting" /\ GetSteps /\ UNCHANGED appPc
  /\ aborted' = IF pc'[Main] = "null" THEN OfNull ELSE NoAssertion
  /\ UNCHANGED <<dsiVars, slots, picture, shown>>

Fill ==
  /\ AppGoto("getting", "draw") /\ pc[Main] = Drawing
  /\ content' = [content EXCEPT ![held[Main]] = Partial]
  /\ UNCHANGED <<deviceVars, dsiVars, slots, drawn, shown, aborted>>

DrawFrame ==
  /\ AppGoto("draw", "release")
  /\ drawn' = NextFrame(drawn)
  /\ content' = [content EXCEPT ![held[Main]] = drawn']
  /\ UNCHANGED <<deviceVars, dsiVars, slots, shown, aborted>>

(* Display::ReleaseFramebuffer, the driver's WriteFramebuffer (whose        *)
(* assertion is commented out) and the device's.                            *)
ReleaseFrame ==
  /\ AppGoto("release", "releasing")
  /\ driver_callback' = TRUE
  /\ aborted' = IF device_callback THEN OfSlot ELSE NoAssertion
  /\ device_callback' = TRUE
  /\ s_write_framebuffer' = held[Main]
  /\ CallWriteFramebuffer(Main)
  /\ UNCHANGED <<dsiVars, picture, shown>>

MainTask ==
  \/ InitDevice \/ WriteFirstFrame \/ WriteSteps \/ EnableLayer
  \/ GetFrame \/ Fill \/ DrawFrame \/ ReleaseFrame

-----------------------------------------------------------------------------
(* The panel is never told of an odd frame. *)
MutantTearingEffect ==
  /\ layerOn /\ frame # None /\ drawn % 2 = 0
  /\ \E s \in Statuses : DSI_MemWrite(FrameBytes, s)
  /\ UNCHANGED <<deviceVars, appPc, slots, picture, shown, aborted>>

(* The panel's tearing-effect interrupt: the controller sends the frame it  *)
(* has to show, unless it is already sending it.                            *)
TearingEffect ==
  /\ layerOn /\ frame # None
  /\ \E s \in Statuses : DSI_MemWrite(FrameBytes, s)
  /\ UNCHANGED <<deviceVars, appPc, slots, picture, shown, aborted>>

(* A packet ends.  After the last the controller is done with the buffer;   *)
(* after a failed one it may also keep it for another try.                  *)
Packet ==
  /\ \/ NextChunck /\ UNCHANGED <<deviceVars, slots, shown, aborted>>
     \/ /\ \E s \in Statuses : MemoryDone(s)
        /\ BufferSwitchOff
        /\ Complete(frame, TRUE)
     \/ /\ TransfersMayFail
        /\ MemoryDone(Fail)
        /\ UNCHANGED <<deviceVars, slots, shown, aborted>>
  /\ UNCHANGED <<appPc, picture>>

Running == ~crashed /\ aborted = NoAssertion

Next == Running /\ (MainTask \/ TearingEffect \/ Packet)

Spec == MipiInit /\ [][Next]_vars

(* The main task runs, the panel keeps signalling and packets end. *)
FairSpec ==
  /\ Spec
  /\ WF_vars(Running /\ MainTask)
  /\ WF_vars(Running /\ TearingEffect)
  /\ WF_vars(Running /\ Packet)

-----------------------------------------------------------------------------
TypeOK ==
  /\ DeviceTypeOK
  /\ device_callback \in BOOLEAN /\ driver_callback \in BOOLEAN
  /\ s_write_framebuffer \in Buffers \cup {None}
  /\ content \in [Buffers -> 0..FrameIds]
  /\ drawn \in 0..(FrameIds - 1) /\ shown \in 0..FrameIds
  /\ aborted \in {NoAssertion, OfStatus, OfNull, OfSlot}

(* No assertion about the three callback slots fails, and GetFramebuffer    *)
(* never returns null, whatever fails: the one thing that stops the task is *)
(* pw_display's assertion that every write succeeds.                        *)
NoAbort == ~crashed /\ aborted \notin {OfNull, OfSlot}

(* What the controller has to show, and so whatever is sent, is whole and   *)
(* the last frame drawn: the main loop never draws into it.                 *)
SendsWholeFrames ==
  /\ frame # None => content[frame] = drawn
  /\ transferring => frame # None

(* The driver overwrites its callback without a check.  That loses no       *)
(* completion because the slots of the driver and of the device, and the    *)
(* framebuffer of the latter, fill and empty together.                      *)
SlotsTogether ==
  /\ driver_callback = device_callback
  /\ device_callback <=> s_write_framebuffer # None
  /\ device_callback => s_write_callback # None

(* The callbacks find their way up through three files and no assertion on  *)
(* the way fails.                                                           *)
CallbacksInv == TypeOK /\ SlotsTogether /\ NoAbort

(* Every frame drawn is shown, in the end: none is skipped or kept.  The    *)
(* exceptions: the task has stopped because a call of the SDK failed, or    *)
(* transfers fail again and again.                                          *)
Stopped == aborted = OfStatus \/ appPc = "failed"
TransferFailed == result = Fail \/ (length > 0 /\ link = <<>>)

FramesKeepComing ==
  \/ \A n \in 0..(FrameIds - 1) : []<>(shown = n)
  \/ <>Stopped
  \/ []<>TransferFailed
=============================================================================
