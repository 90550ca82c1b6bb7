------------------------- MODULE MipiDisplayProofs --------------------------
(***************************************************************************)
(* Theorems about the display of the i.MX RT595: the device with its pool  *)
(* of framebuffers, the DSI write, and the pipeline they are part of.      *)
(***************************************************************************)
EXTENDS MipiDisplay, SequenceTheorems, TLAPS

(***************************************************************************)
(* Theorems about FramebufferDevice: with any number of threads and        *)
(* buffers, and with Init and Enable failing at will, the device keeps     *)
(* DeviceInv and the promise of FifoPool, as long as it is not opened      *)
(* again after Close and setFrameBuffer takes every buffer.                *)
(***************************************************************************)

(* t has taken the unit of the semaphore, and the controller has not yet    *)
(* got the buffer that goes with it.                                        *)
HasUnit(t) == pc[t] \in {"get", Drawing, "set"}

(* The unit is in one place: the semaphore, a thread or the controller.     *)
OneUnit ==
  /\ \A t, u \in Threads : HasUnit(t) /\ HasUnit(u) => t = u
  /\ framebuffer_semaphore_ > 0 \/ frame # None =>
       \A t \in Threads : ~HasUnit(t)
  /\ framebuffer_semaphore_ > 0 => frame = None
  /\ phase = New =>
       /\ framebuffer_semaphore_ = 0 /\ frame = None
       /\ video_mempool_ = <<>>
       /\ \A t \in Threads : ~HasUnit(t)

(* The callback slot follows the unit from the call of setFrameBuffer on.   *)
SlotFollows ==
  /\ s_write_callback # None =>
       frame # None \/ \E t \in Threads : pc[t] = "set"
  /\ frame # None =>
       s_write_callback # None /\ s_current_write_buffer = frame
  /\ \A t \in Threads :
       pc[t] = "set" =>
         s_write_callback # None /\ s_current_write_buffer = held[t]

(* The inductive invariant.  DeviceInv says nothing of the semaphore, of    *)
(* the slot or of a pool that was closed, on which its parts rest.          *)
DeviceIInv ==
  /\ DeviceTypeOK
  /\ ~crashed
  /\ \A t \in Threads : pc[t] \notin {"null", "complete", "callback"}
  /\ OneUnit
  /\ SlotFollows
  /\ \A t \in Threads : held[t] # None <=> pc[t] \in {Drawing, "set"}
  /\ phase # New =>
       \A b \in Buffers :
         b \in InPool \/ frame = b \/ \E t \in Threads : held[t] = b
  /\ NoBufferTwice

(* A call of one thread leaves the steps of the others alone. *)
LEMMA GotoStep ==
  ASSUME NEW t \in Threads, NEW from, NEW to, Goto(t, from, to), DeviceTypeOK,
         to \in Calling \cup {Idle, Drawing, "null"}
  PROVE  /\ pc[t] = from /\ pc'[t] = to
         /\ \A u \in Threads : u # t => pc'[u] = pc[u]
         /\ pc' \in [Threads -> Calling \cup {Idle, Drawing, "null"}]
BY DEF Goto, DeviceTypeOK

(* Taking the last buffer out of the pool, and putting one back. *)
LEMMA PoolGet ==
  ASSUME NEW pool \in Seq(Buffers), Len(pool) > 0
  PROVE  /\ SubSeq(pool, 1, Len(pool) - 1) \in Seq(Buffers)
         /\ Len(SubSeq(pool, 1, Len(pool) - 1)) = Len(pool) - 1
         /\ \A i \in 1..(Len(pool) - 1) :
              SubSeq(pool, 1, Len(pool) - 1)[i] = pool[i]
         /\ pool[Len(pool)] \in Buffers
<1> DEFINE last == Len(pool) - 1
<1>1. Len(pool) \in Nat /\ last \in Nat
  OBVIOUS
<1>2. \A i \in 1..Len(pool) : pool[i] \in Buffers
  BY ElementOfSeq
<1>3. \A i \in 1..last : pool[i] \in Buffers
  BY <1>1, <1>2
<1>4. /\ SubSeq(pool, 1, last) \in Seq(Buffers)
      /\ Len(SubSeq(pool, 1, last)) = last
      /\ \A i \in 1..last : SubSeq(pool, 1, last)[i] = pool[i]
  <2>1. last \in 0..Len(pool)
    BY <1>1
  <2> DEFINE rest == [i \in 1..last |-> pool[i]]
  <2>2. SubSeq(pool, 1, last) = rest
    BY <2>1, SubSeqRestrict DEF Restrict
  <2>3. rest \in Seq(Buffers) /\ Len(rest) = last
        /\ \A i \in 1..last : rest[i] = pool[i]
    BY <1>1, <1>3
  <2> HIDE DEF rest
  <2> QED BY ONLY <2>2, <2>3
<1> QED BY <1>1, <1>2, <1>4

LEMMA DeviceInitInv == ASSUME DeviceInit PROVE DeviceIInv
<1> USE DeviceAssumption
<1>1. DeviceTypeOK
  <2>1. pc \in [Threads -> Calling \cup {Idle, Drawing, "null"}]
    BY DEF DeviceInit
  <2>2. held \in [Threads -> Buffers \cup {None}]
    BY DEF DeviceInit
  <2>3. video_mempool_ \in Seq(Buffers)
    BY EmptySeq DEF DeviceInit
  <2>4. /\ dc_ \in BOOLEAN /\ enabled_ \in BOOLEAN /\ layerOn \in BOOLEAN
        /\ requested \in BOOLEAN /\ crashed \in BOOLEAN
    BY DEF DeviceInit
  <2>5. phase \in {New, Open, Closed} /\ framebuffer_semaphore_ \in 0..1
        /\ s_write_callback = None /\ s_current_write_buffer = None /\ frame = None
    BY DEF DeviceInit
  <2> QED
    BY <2>1, <2>2, <2>3, <2>4, <2>5 DEF DeviceTypeOK
<1> QED
  BY <1>1 DEF DeviceInit, DeviceIInv, OneUnit, HasUnit, SlotFollows, New,
     Idle, Drawing, Buffers, NoBufferTwice, InPool

(* A step that leaves the buffers, the slot and the threads alone. *)
LEMMA LifecycleOnly ==
  ASSUME DeviceIInv, DeviceTypeOK', phase' = New <=> phase = New,
         UNCHANGED <<framebuffer_semaphore_, video_mempool_, s_write_callback,
                     s_current_write_buffer, frame, pc, held, crashed>>
  PROVE  DeviceIInv'
<1>1. OneUnit'
  BY DEF DeviceIInv, OneUnit, HasUnit
<1>2. SlotFollows' /\ NoBufferTwice' /\ InPool' = InPool
  BY DEF DeviceIInv, SlotFollows, NoBufferTwice, InPool
<1> QED BY <1>1, <1>2 DEF DeviceIInv

(* The calls that open, close, enable and disable the device. *)
LEMMA LifecycleStep ==
  ASSUME DeviceIInv, ~MayReopen,
         \/ phase = New /\ (Init \/ InitFails)
         \/ Close \/ (\E ok \in BOOLEAN : Enable(ok) \/ Disable(ok))
  PROVE  DeviceIInv'
<1> USE DeviceAssumption
<1>1. CASE phase = New /\ Init
  <2> DEFINE all == [i \in Buffers |-> i]
  <2>1. video_mempool_ = <<>>
    BY <1>1 DEF DeviceIInv, OneUnit
  <2>2. all \in Seq(Buffers) /\ Len(all) = NumBuffers
    BY DEF Buffers
  <2>3. video_mempool_' = all
    BY <1>1, <2>1, <2>2 DEF Init
  <2>4. InPool' = Buffers
    BY <2>2, <2>3 DEF InPool, Buffers
  <2>5. framebuffer_semaphore_' = 1 /\ phase' = Open
    BY <1>1 DEF Init, DeviceIInv, OneUnit
  <2>6. DeviceTypeOK'
    BY <1>1, <2>2, <2>3, <2>5 DEF Init, DeviceIInv, DeviceTypeOK
  <2>7. frame = None /\ \A t \in Threads : held[t] = None
    BY <1>1 DEF DeviceIInv, OneUnit, HasUnit
  <2>8. NoBufferTwice'
    BY <1>1, <2>2, <2>3, <2>4, <2>7 DEF Init, NoBufferTwice, Buffers
  <2> QED
    BY <1>1, <2>4, <2>5, <2>6, <2>7, <2>8
       DEF Init, DeviceIInv, OneUnit, HasUnit, SlotFollows, New, Open
<1>2. CASE phase = New /\ InitFails
  <2>1. DeviceTypeOK'
    BY <1>2 DEF InitFails, DeviceIInv, DeviceTypeOK
  <2> QED BY <1>2, <2>1, LifecycleOnly DEF InitFails
<1>3. CASE Close
  <2>1. DeviceTypeOK'
    BY <1>3 DEF Close, DeviceIInv, DeviceTypeOK
  <2> QED BY <1>3, <2>1, LifecycleOnly DEF Close, New, Open, Closed
<1>4. ASSUME NEW ok \in BOOLEAN, Enable(ok) PROVE DeviceIInv'
  <2>1. enabled_' \in BOOLEAN /\ layerOn' \in BOOLEAN /\ requested' \in BOOLEAN
    BY <1>4 DEF Enable, DeviceIInv, DeviceTypeOK
  <2>2. DeviceTypeOK'
    BY <1>4, <2>1 DEF Enable, DeviceIInv, DeviceTypeOK
  <2> QED BY <1>4, <2>2, LifecycleOnly DEF Enable
<1>5. ASSUME NEW ok \in BOOLEAN, Disable(ok) PROVE DeviceIInv'
  <2>1. enabled_' \in BOOLEAN /\ layerOn' \in BOOLEAN /\ requested' \in BOOLEAN
    BY <1>5 DEF Disable, DeviceIInv, DeviceTypeOK
  <2>2. DeviceTypeOK'
    BY <1>5, <2>1 DEF Disable, DeviceIInv, DeviceTypeOK
  <2> QED BY <1>5, <2>2, LifecycleOnly DEF Disable
<1> QED BY <1>1, <1>2, <1>3, <1>4, <1>5

LEMMA CallGetStep ==
  ASSUME DeviceIInv, NEW t \in Threads, CallGetFramebuffer(t)
  PROVE  DeviceIInv'
<1>1. /\ pc[t] = Idle /\ pc'[t] = "acquire"
      /\ \A u \in Threads : u # t => pc'[u] = pc[u]
      /\ pc' \in [Threads -> Calling \cup {Idle, Drawing, "null"}]
  BY GotoStep DEF CallGetFramebuffer, DeviceIInv, Calling
<1>2. DeviceTypeOK'
  BY <1>1 DEF CallGetFramebuffer, DeviceIInv, DeviceTypeOK, lifecycle
<1>3. OneUnit'
  BY <1>1 DEF CallGetFramebuffer, DeviceIInv, OneUnit, HasUnit, lifecycle, Idle,
     Drawing
<1>4. SlotFollows'
  BY <1>1 DEF CallGetFramebuffer, DeviceIInv, SlotFollows, Idle
<1> QED
  BY <1>1, <1>2, <1>3, <1>4
     DEF CallGetFramebuffer, DeviceIInv, NoBufferTwice, InPool, lifecycle, Idle,
         Drawing

LEMMA AcquireStep ==
  ASSUME DeviceIInv, NEW t \in Threads, Acquire(t)
  PROVE  DeviceIInv'
<1>1. /\ pc[t] = "acquire" /\ pc'[t] = "get"
      /\ \A u \in Threads : u # t => pc'[u] = pc[u]
      /\ pc' \in [Threads -> Calling \cup {Idle, Drawing, "null"}]
  BY GotoStep DEF Acquire, DeviceIInv, Calling
<1>2. framebuffer_semaphore_ = 1 /\ framebuffer_semaphore_' = 0
  BY DEF Acquire, DeviceIInv, DeviceTypeOK
<1> QED
  BY <1>1, <1>2 DEF Acquire, DeviceIInv, DeviceTypeOK, OneUnit, HasUnit,
     SlotFollows, NoBufferTwice, InPool, lifecycle, Drawing

(* Whoever has the unit and no buffer finds every buffer in the pool. *)
LEMMA PoolFull ==
  ASSUME DeviceIInv, NEW t \in Threads, pc[t] = "get"
  PROVE  /\ Buffers \subseteq InPool /\ Len(video_mempool_) > 0
         /\ frame = None /\ \A u \in Threads : held[u] = None
<1> USE DeviceAssumption
<1>1. frame = None /\ phase # New
  BY DEF DeviceIInv, OneUnit, HasUnit
<1>2. ASSUME NEW u \in Threads PROVE held[u] = None
  <2>1. u # t => ~HasUnit(u)
    BY DEF DeviceIInv, OneUnit, HasUnit
  <2> QED BY <2>1 DEF DeviceIInv, HasUnit, Drawing
<1>3. Buffers \subseteq InPool
  BY <1>1, <1>2 DEF DeviceIInv, Buffers
<1>4. 1 \in Buffers
  BY DEF Buffers
<1>5. Len(video_mempool_) > 0
  BY <1>3, <1>4 DEF InPool, DeviceIInv, DeviceTypeOK
<1> QED BY <1>1, <1>2, <1>3, <1>5

LEMMA MempoolGetStep ==
  ASSUME DeviceIInv, NEW t \in Threads, MempoolGet(t)
  PROVE  DeviceIInv'
<1> USE DeviceAssumption
<1> DEFINE n == Len(video_mempool_)
           b == video_mempool_[n]
<1>1. pc[t] = "get"
  BY DEF MempoolGet, Goto
<1>2. /\ Buffers \subseteq InPool /\ n > 0
      /\ frame = None /\ \A u \in Threads : held[u] = None
  BY <1>1, PoolFull
<1>3. /\ Goto(t, "get", Drawing)
      /\ held' = [held EXCEPT ![t] = b]
      /\ video_mempool_' = SubSeq(video_mempool_, 1, n - 1)
      /\ UNCHANGED <<lifecycle, framebuffer_semaphore_, s_write_callback,
                     s_current_write_buffer, frame, crashed>>
  BY <1>2 DEF MempoolGet
<1>4. /\ pc'[t] = Drawing
      /\ \A u \in Threads : u # t => pc'[u] = pc[u]
      /\ pc' \in [Threads -> Calling \cup {Idle, Drawing, "null"}]
  BY <1>3, GotoStep DEF DeviceIInv
<1>5. /\ video_mempool_' \in Seq(Buffers) /\ Len(video_mempool_') = n - 1
      /\ \A i \in 1..(n - 1) : video_mempool_'[i] = video_mempool_[i]
      /\ b \in Buffers /\ n \in Nat
  BY <1>2, <1>3, PoolGet DEF DeviceIInv, DeviceTypeOK
<1>6. b # None
  BY <1>5 DEF Buffers
<1>7. \A u \in Threads : held'[u] = IF u = t THEN b ELSE None
  BY <1>2, <1>3 DEF DeviceIInv, DeviceTypeOK
<1>8. DeviceTypeOK'
  BY <1>3, <1>4, <1>5, <1>7 DEF DeviceIInv, DeviceTypeOK, lifecycle
<1>9. \A x \in Buffers : x \in InPool' \/ x = b
  <2> SUFFICES ASSUME NEW x \in Buffers, x # b PROVE x \in InPool'
    OBVIOUS
  <2>1. PICK i \in 1..n : video_mempool_[i] = x
    BY <1>2, <1>5 DEF InPool, DeviceIInv, DeviceTypeOK
  <2>2. i \in 1..(n - 1)
    BY <2>1, <1>5
  <2>3. i \in DOMAIN video_mempool_' /\ video_mempool_'[i] = x
    BY <2>1, <2>2, <1>5
  <2> QED BY <2>3 DEF InPool
<1>10. NoBufferTwice'
  <2>1. \A i, j \in 1..n : video_mempool_[i] = video_mempool_[j] => i = j
    BY <1>5 DEF DeviceIInv, DeviceTypeOK, NoBufferTwice
  <2>2. DOMAIN video_mempool_' = 1..(n - 1)
    BY <1>5
  <2>3. \A x \in InPool' : x \in Buffers /\ x # b
    BY <2>1, <2>2, <1>5 DEF InPool
  <2>4. \A i, j \in DOMAIN video_mempool_' :
          video_mempool_'[i] = video_mempool_'[j] => i = j
    BY <2>1, <2>2, <1>5
  <2>5. frame' = None /\ None \notin Buffers
    BY <1>2, <1>3 DEF Buffers
  <2> QED BY <2>3, <2>4, <2>5, <1>7 DEF NoBufferTwice
<1>11. OneUnit'
  BY <1>1, <1>3, <1>4 DEF DeviceIInv, OneUnit, HasUnit, lifecycle
<1>12. SlotFollows'
  BY <1>1, <1>2, <1>3, <1>4, <1>7 DEF DeviceIInv, SlotFollows, Drawing
<1> QED
  BY <1>1, <1>3, <1>4, <1>6, <1>7, <1>8, <1>9, <1>10, <1>11, <1>12
     DEF DeviceIInv, lifecycle, Drawing

LEMMA CallWriteStep ==
  ASSUME DeviceIInv, NEW t \in Threads, CallWriteFramebuffer(t)
  PROVE  DeviceIInv'
<1> USE DeviceAssumption
<1>1. /\ pc[t] = Drawing /\ pc'[t] = "set"
      /\ \A u \in Threads : u # t => pc'[u] = pc[u]
      /\ pc' \in [Threads -> Calling \cup {Idle, Drawing, "null"}]
  BY GotoStep DEF CallWriteFramebuffer, DeviceIInv, Calling
<1>2. HasUnit(t) /\ held[t] # None
  BY <1>1 DEF DeviceIInv, HasUnit
(* The unit is t's, so nobody else has filled the slot. *)
<1>3. frame = None /\ \A u \in Threads : pc[u] # "set"
  BY <1>1, <1>2 DEF DeviceIInv, OneUnit, HasUnit, Drawing
<1>4. s_write_callback = None
  BY <1>3 DEF DeviceIInv, SlotFollows
<1>5. crashed' = FALSE /\ s_write_callback' = t /\ t # None
      /\ s_current_write_buffer' = held[t]
  BY <1>4 DEF CallWriteFramebuffer
<1>6. DeviceTypeOK'
  BY <1>1, <1>5 DEF CallWriteFramebuffer, DeviceIInv, DeviceTypeOK, lifecycle
<1>7. OneUnit'
  BY <1>1 DEF CallWriteFramebuffer, DeviceIInv, OneUnit, HasUnit, lifecycle
<1>8. SlotFollows'
  BY <1>1, <1>3, <1>5 DEF CallWriteFramebuffer, SlotFollows
<1> QED
  BY <1>1, <1>5, <1>6, <1>7, <1>8
     DEF CallWriteFramebuffer, DeviceIInv, NoBufferTwice, InPool, lifecycle,
         Drawing

LEMMA SetFrameBufferStep ==
  ASSUME DeviceIInv, NEW t \in Threads, SetFrameBuffer(t)
  PROVE  DeviceIInv'
<1> USE DeviceAssumption
<1>1. /\ pc[t] = "set" /\ pc'[t] = Idle
      /\ \A u \in Threads : u # t => pc'[u] = pc[u]
      /\ pc' \in [Threads -> Calling \cup {Idle, Drawing, "null"}]
  BY GotoStep DEF SetFrameBuffer, DeviceIInv, Calling
<1>2. HasUnit(t) /\ held[t] # None
  BY <1>1 DEF DeviceIInv, HasUnit
<1>3. /\ framebuffer_semaphore_ = 0 /\ phase # New
      /\ \A u \in Threads : u # t => ~HasUnit(u)
  BY <1>2 DEF DeviceIInv, OneUnit, DeviceTypeOK
<1>4. /\ frame' = held[t] /\ held'[t] = None
      /\ \A u \in Threads : u # t => held'[u] = held[u]
  BY DEF SetFrameBuffer, DeviceIInv, DeviceTypeOK
<1>5. DeviceTypeOK'
  BY <1>1 DEF SetFrameBuffer, DeviceIInv, DeviceTypeOK, lifecycle
<1>6. OneUnit'
  BY <1>1, <1>3 DEF SetFrameBuffer, OneUnit, HasUnit, lifecycle, Idle, Drawing
<1>7. SlotFollows'
  BY <1>1, <1>3, <1>4
     DEF SetFrameBuffer, DeviceIInv, SlotFollows, HasUnit, Idle
<1>8. frame = None
  BY <1>2 DEF DeviceIInv, OneUnit
<1>9. NoBufferTwice'
  <2>1. video_mempool_' = video_mempool_ /\ InPool' = InPool
    BY DEF SetFrameBuffer, InPool
  <2>2. None \notin InPool
    BY DEF DeviceIInv, DeviceTypeOK, InPool, Buffers
  <2> QED BY <2>1, <2>2, <1>4 DEF DeviceIInv, NoBufferTwice
<1>10. \A b \in Buffers :
         b \in InPool' \/ frame' = b \/ \E u \in Threads : held'[u] = b
  <2>1. ASSUME NEW b \in Buffers
        PROVE  b \in InPool \/ b = held[t]
               \/ \E u \in Threads : u # t /\ held[u] = b
    BY <1>3, <1>8 DEF DeviceIInv, Buffers
  <2>2. InPool' = InPool
    BY DEF SetFrameBuffer, InPool
  <2> QED BY <2>1, <2>2, <1>4
<1> QED
  BY <1>1, <1>4, <1>5, <1>6, <1>7, <1>9, <1>10
     DEF SetFrameBuffer, DeviceIInv, lifecycle, Idle, Drawing

LEMMA SwitchOffStep ==
  ASSUME DeviceIInv, BufferSwitchOff
  PROVE  DeviceIInv'
<1> USE DeviceAssumption
<1> DEFINE n == Len(video_mempool_)
<1>1. /\ frame # None /\ frame' = None
      /\ video_mempool_' = Append(video_mempool_, frame)
      /\ framebuffer_semaphore_' = framebuffer_semaphore_ + 1
      /\ s_write_callback' = None /\ s_current_write_buffer' = None
      /\ UNCHANGED <<lifecycle, pc, held>>
  BY DEF BufferSwitchOff
<1>2. framebuffer_semaphore_ = 0 /\ phase # New
      /\ \A t \in Threads : ~HasUnit(t)
  BY <1>1 DEF DeviceIInv, OneUnit, DeviceTypeOK
<1>3. \A t \in Threads : held[t] = None
  BY <1>2 DEF DeviceIInv, HasUnit
<1>4. crashed' = FALSE
  BY <1>1 DEF BufferSwitchOff, DeviceIInv, SlotFollows
<1>5. frame \in Buffers /\ video_mempool_ \in Seq(Buffers) /\ n \in Nat
  BY <1>1 DEF DeviceIInv, DeviceTypeOK
<1>6. /\ video_mempool_' \in Seq(Buffers) /\ Len(video_mempool_') = n + 1
      /\ \A i \in 1..n : video_mempool_'[i] = video_mempool_[i]
      /\ video_mempool_'[n + 1] = frame
  BY <1>1, <1>5, AppendProperties
<1>7. DeviceTypeOK'
  <2>1. framebuffer_semaphore_' \in 0..1
    BY <1>1, <1>2
  <2>2. frame' \in Buffers \cup {None} /\ s_write_callback' \in Threads \cup {None}
        /\ s_current_write_buffer' \in Buffers \cup {None}
    BY <1>1
  <2>3. video_mempool_' \in Seq(Buffers) /\ UNCHANGED <<lifecycle, pc, held>>
    BY <1>1, <1>6
  <2>4. crashed' \in BOOLEAN
    BY <1>4
  <2> QED BY ONLY DeviceIInv, <2>1, <2>2, <2>3, <2>4
         DEF DeviceIInv, DeviceTypeOK, lifecycle
<1>8. InPool' = InPool \cup {frame}
  <2>1. DOMAIN video_mempool_ = 1..n /\ DOMAIN video_mempool_' = 1..(n + 1)
    BY <1>5, <1>6
  <2>2. 1..(n + 1) = 1..n \cup {n + 1}
    BY <1>5
  <2> QED BY <2>1, <2>2, <1>6 DEF InPool
<1>9. NoBufferTwice'
  <2>1. frame \notin InPool
        /\ \A i, j \in 1..n : video_mempool_[i] = video_mempool_[j] => i = j
    BY <1>5 DEF DeviceIInv, NoBufferTwice
  <2>2. \A i \in 1..n : video_mempool_[i] # frame
    BY <2>1, <1>5 DEF InPool
  <2>3. \A i, j \in 1..(n + 1) :
          video_mempool_'[i] = video_mempool_'[j] => i = j
    BY <2>1, <2>2, <1>5, <1>6
  <2>4. DOMAIN video_mempool_' = 1..(n + 1)
    BY <1>5, <1>6
  <2>5. \A b \in InPool' : b \in Buffers
    BY <1>5, <1>8 DEF InPool
  <2>6. \A b \in InPool' : frame' # b /\ \A t \in Threads : held'[t] # b
    BY <2>5, <1>1, <1>3 DEF Buffers
  <2> QED BY <2>3, <2>4, <2>6 DEF NoBufferTwice
<1>10. OneUnit'
  BY <1>1, <1>2 DEF OneUnit, HasUnit, lifecycle
<1>11. SlotFollows'
  BY <1>1, <1>2 DEF SlotFollows, HasUnit
<1>12. \A b \in Buffers : b \in InPool'
  BY <1>2, <1>3, <1>8 DEF DeviceIInv, Buffers
<1> QED
  BY <1>1, <1>4, <1>7, <1>9, <1>10, <1>11, <1>12 DEF DeviceIInv, lifecycle

LEMMA DeviceStepInv ==
  ASSUME ~MayReopen, DeviceIInv, [DeviceNext]_deviceVars
  PROVE  DeviceIInv'
<1>1. CASE UNCHANGED deviceVars
  <2>1. DeviceTypeOK'
    BY <1>1 DEF deviceVars, lifecycle, DeviceIInv, DeviceTypeOK
  <2> QED BY <1>1, <2>1, LifecycleOnly DEF deviceVars, lifecycle
<1>2. CASE DeviceNext
  <2>1. CASE \/ phase = New /\ (Init \/ InitFails)
             \/ Close \/ (\E ok \in BOOLEAN : Enable(ok) \/ Disable(ok))
    BY <2>1, LifecycleStep
  <2>2. ASSUME NEW t \in Threads,
               \/ CallGetFramebuffer(t) \/ Acquire(t) \/ MempoolGet(t)
               \/ CallWriteFramebuffer(t) \/ SetFrameBuffer(t)
        PROVE  DeviceIInv'
    BY <2>2, CallGetStep, AcquireStep, MempoolGetStep, CallWriteStep,
       SetFrameBufferStep
  <2>3. CASE BufferSwitchOff
    BY <2>3, SwitchOffStep
  <2> QED
    BY <1>2, <2>1, <2>2, <2>3 DEF DeviceNext, GetFramebuffer
<1> QED BY <1>1, <1>2

LEMMA DeviceIInvImplies == ASSUME DeviceIInv PROVE DeviceInv
<1> USE DeviceAssumption
<1>1. OneCheckedOut
  BY DEF DeviceIInv, OneUnit, HasUnit, OneCheckedOut, CheckedOut
<1>2. NoBufferLeaks
  BY DEF DeviceIInv, NoBufferLeaks, New, Open
<1> QED
  BY <1>1, <1>2
     DEF DeviceIInv, DeviceInv, AssertionsHold, GetReturnsBuffer

-----------------------------------------------------------------------------
(* Any number of threads and buffers: no assertion about the one callback   *)
(* slot fails, one buffer at a time is checked out, each is in one place,   *)
(* and GetFramebuffer never returns null.                                   *)
THEOREM DeviceCorrect == ASSUME ~MayReopen PROVE DeviceSpec => []DeviceInv
<1>1. DeviceInit => DeviceIInv
  BY DeviceInitInv
<1>2. DeviceIInv /\ [DeviceNext]_deviceVars => DeviceIInv'
  BY DeviceStepInv
<1>3. DeviceIInv => DeviceInv
  BY DeviceIInvImplies
<1> QED
  BY <1>1, <1>2, <1>3, PTL DEF DeviceSpec

-----------------------------------------------------------------------------
(* The device implements FifoPool. *)

(* The one thread that has a buffer is whom Taken looks at. *)
LEMMA TakenIsHeld ==
  ASSUME DeviceIInv, NEW t \in Threads, held[t] # None
  PROVE  frame = None /\ Taken = <<held[t]>>
<1>1. CheckedOut = {t}
  BY DeviceIInvImplies DEF DeviceInv, OneCheckedOut, CheckedOut
<1>2. frame = None
  BY <1>1, DeviceIInvImplies DEF DeviceInv, OneCheckedOut
<1>3. (CHOOSE u \in CheckedOut : TRUE) = t
  BY <1>1
<1> QED BY <1>1, <1>2, <1>3 DEF Taken

LEMMA DeviceFifoStep ==
  ASSUME ~MayReopen, DeviceIInv, [DeviceNext]_deviceVars
  PROVE  [Fifo!Next]_Taken
<1> USE DeviceAssumption
<1>same. ASSUME UNCHANGED <<frame, held>> PROVE UNCHANGED Taken
  BY <1>same DEF Taken, CheckedOut
<1>1. ASSUME NEW t \in Threads, MempoolGet(t) PROVE Fifo!Next
  <2>1. pc[t] = "get"
    BY <1>1 DEF MempoolGet, Goto
  <2>2. Len(video_mempool_) > 0 /\ frame = None
        /\ \A u \in Threads : held[u] = None
    BY <2>1, PoolFull
  <2>3. Taken = <<>>
    BY <2>2 DEF Taken, CheckedOut
  <2> DEFINE b == video_mempool_[Len(video_mempool_)]
  <2>4. b \in Buffers /\ held'[t] = b
    <3>1. b \in Buffers
      BY <2>2, PoolGet DEF DeviceIInv, DeviceTypeOK
    <3> QED BY <3>1, <2>2, <1>1 DEF MempoolGet, DeviceIInv, DeviceTypeOK
  <2>5. Taken' = <<b>>
    <3>1. held'[t] # None
      BY <2>4 DEF Buffers
    <3>2. CheckedOut' = {t}
      BY <3>1, <2>2, <1>1 DEF MempoolGet, DeviceIInv, DeviceTypeOK, CheckedOut
    <3>3. frame' = None
      BY <2>2, <1>1 DEF MempoolGet
    <3>4. (CHOOSE u \in CheckedOut' : TRUE) = t
      BY <3>2
    <3> QED BY <3>2, <3>3, <3>4, <2>4 DEF Taken
  <2>6. b \notin Fifo!InUse /\ Taken' = Append(Taken, b)
    BY <2>3, <2>5 DEF Fifo!InUse
  <2> QED BY <2>4, <2>6 DEF Fifo!Next, Fifo!Take
<1>2. ASSUME NEW t \in Threads, SetFrameBuffer(t) PROVE UNCHANGED Taken
  <2>1. held[t] # None
    BY <1>2 DEF SetFrameBuffer, Goto, DeviceIInv
  <2>2. Taken = <<held[t]>> /\ frame' = held[t]
    BY <2>1, <1>2, TakenIsHeld DEF SetFrameBuffer
  <2> QED BY <2>1, <2>2 DEF Taken
<1>3. CASE BufferSwitchOff
  <2>1. Taken = <<frame>> /\ frame' = None /\ CheckedOut = {}
        /\ CheckedOut' = CheckedOut
    BY <1>3, DeviceIInvImplies
       DEF BufferSwitchOff, Taken, DeviceInv, OneCheckedOut, CheckedOut
  <2>2. Taken' = <<>>
    BY <2>1 DEF Taken
  <2> QED BY <2>1, <2>2 DEF Fifo!Next, Fifo!Return
<1>4. CASE Init \/ InitFails \/ Close \/ (\E ok \in BOOLEAN : Enable(ok) \/ Disable(ok))
  BY <1>4, <1>same DEF Init, InitFails, Close, Enable, Disable
<1>5. ASSUME NEW t \in Threads,
             CallGetFramebuffer(t) \/ Acquire(t) \/ CallWriteFramebuffer(t)
      PROVE  UNCHANGED Taken
  BY <1>5, <1>same DEF CallGetFramebuffer, Acquire, CallWriteFramebuffer
<1>6. CASE UNCHANGED deviceVars
  BY <1>6, <1>same DEF deviceVars
<1> QED
  BY <1>1, <1>2, <1>3, <1>4, <1>5, <1>6 DEF DeviceNext, GetFramebuffer

(* The device keeps the promise of a framebuffer pool: whatever the threads *)
(* and the controller's interrupt do, no buffer is handed out while one is  *)
(* in use, and the controller gives back the one that was taken.            *)
THEOREM DeviceImplementsFifo ==
  ASSUME ~MayReopen PROVE DeviceSpec => DeviceIsFifoPool
<1>1. DeviceInit => DeviceIInv
  BY DeviceInitInv
<1>2. DeviceIInv /\ [DeviceNext]_deviceVars => DeviceIInv'
  BY DeviceStepInv
<1>3. DeviceInit => Fifo!Init
  BY DEF DeviceInit, Fifo!Init, Taken, CheckedOut
<1>4. DeviceIInv /\ [DeviceNext]_deviceVars => [Fifo!Next]_Taken
  BY DeviceFifoStep
<1> QED
  BY <1>1, <1>2, <1>3, <1>4, PTL DEF DeviceSpec, DeviceIsFifoPool, Fifo!Spec

(***************************************************************************)
(* Theorems about MipiDisplay, for framebuffers and packets of every size  *)
(* and with every call of the SDK failing at will: the packets carry the   *)
(* area in order, the three callback slots fill and empty together, and    *)
(* what is sent is the last frame drawn.                                   *)
(***************************************************************************)
-----------------------------------------------------------------------------
(* DSI_MemWrite. *)

Commands == {WriteMemoryStart, WriteMemoryContinue}
Packets == [cmd : Commands, bytes : Seq(Nat)]

(* Where packet i begins in an area, and the packet itself. *)
Offset(i) == (i - 1) * kMaxDSITxArraySize
PacketOf(i, n) ==
  [cmd |-> IF i = 1 THEN WriteMemoryStart ELSE WriteMemoryContinue,
   bytes |-> Swapped(Offset(i), Smaller(kMaxDSITxArraySize, n - Offset(i)))]

(* The inductive invariant: packets that follow each other without a gap,   *)
(* and a context that stands at the end of the last one as long as the      *)
(* write goes on.                                                           *)
DsiFlags ==
  ongoing \in BOOLEAN /\ transferring \in BOOLEAN /\ ongoing = transferring
DsiData ==
  /\ tx_data \in Nat /\ num_bytes_remaining \in Nat
  /\ dsc_cmd \in Commands
  /\ link \in Seq(Packets)
  /\ length \in Lengths \cup {0}
  /\ result \in {Success, Fail, NotYet}
PacketsSent ==
  \A i \in 1..Len(link) : Offset(i) < length /\ link[i] = PacketOf(i, length)
ContextInv ==
  transferring =>
    /\ result = NotYet /\ Len(link) > 0
    /\ dsc_cmd = WriteMemoryContinue
    /\ tx_data = Smaller(Offset(Len(link) + 1), length)
    /\ num_bytes_remaining = length - tx_data
AreaSent == result = Success => Len(link) > 0 /\ Offset(Len(link) + 1) >= length

DsiIInv == DsiFlags /\ DsiData /\ PacketsSent /\ ContextInv /\ AreaSent

LEMMA DsiConstants ==
  /\ kMaxDSITxArraySize \in Nat /\ kMaxDSITxArraySize > 0
  /\ kMaxDSITxArraySize % 2 = 0
  /\ \A n \in Lengths : n \in Nat /\ n > 0
<1>1. \A m \in Nat : m > 2 => ((m - 1) \div 2) * 2 \in Nat /\ ((m - 1) \div 2) * 2 > 0
                              /\ (((m - 1) \div 2) * 2) % 2 = 0
  OBVIOUS
<1> QED
  BY <1>1, DsiAssumption DEF kMaxDSITxArraySize

(* The packets divide an area into parts of kMaxDSITxArraySize bytes, each  *)
(* of which begins with a pixel.                                            *)
LEMMA OffsetProperties ==
  ASSUME NEW i \in Nat \ {0}
  PROVE  /\ Offset(i) \in Nat /\ Offset(i) % 2 = 0
         /\ Offset(i + 1) = Offset(i) + kMaxDSITxArraySize
         /\ Offset(1) = 0
<1> DEFINE K == kMaxDSITxArraySize
<1>1. K \in Nat /\ K % 2 = 0
  BY DsiConstants
<1>2. PICK q \in Nat : K = 2 * q
  <2>1. K = 2 * (K \div 2) /\ K \div 2 \in Nat
    BY <1>1
  <2> QED BY <2>1
<1> HIDE DEF K
<1>3. (i - 1) * K \in Nat /\ i * K = (i - 1) * K + K
  BY <1>1
<1>4. (i - 1) * K = 2 * ((i - 1) * q) /\ (i - 1) * q \in Nat
  BY <1>2
<1>5. ((i - 1) * K) % 2 = 0
  BY <1>3, <1>4
<1>6. (i + 1) - 1 = i /\ (1 - 1) * K = 0
  BY <1>1
<1> QED BY <1>3, <1>5, <1>6 DEF Offset, K

LEMMA SwappedProperties ==
  ASSUME NEW from \in Nat, NEW n \in Nat
  PROVE  /\ Swapped(from, n) \in Seq(Nat) /\ Len(Swapped(from, n)) = n
         /\ \A k \in 1..n :
              Swapped(from, n)[k] = IF k % 2 = 1 THEN from + k ELSE from + k - 2
<1>1. \A k \in 1..n : (IF k % 2 = 1 THEN from + k ELSE from + k - 2) \in Nat
  OBVIOUS
<1> QED BY <1>1 DEF Swapped

LEMMA PacketProperties ==
  ASSUME NEW i \in Nat \ {0}, NEW n \in Nat, Offset(i) < n
  PROVE  /\ Smaller(kMaxDSITxArraySize, n - Offset(i)) \in Nat
         /\ PacketOf(i, n) \in Packets
<1>1. Offset(i) \in Nat /\ kMaxDSITxArraySize \in Nat
  BY OffsetProperties, DsiConstants
<1>2. Smaller(kMaxDSITxArraySize, n - Offset(i)) \in Nat
  BY <1>1 DEF Smaller
<1> QED BY <1>1, <1>2, SwappedProperties DEF PacketOf, Packets, Commands

(* The host takes packet i: the context moves on to the next. *)
LEMMA ChunckSent ==
  ASSUME NEW n \in Lengths, NEW before \in Seq(Packets),
         NEW i, i = Len(before) + 1, Offset(i) < n,
         \A j \in 1..Len(before) : Offset(j) < n /\ before[j] = PacketOf(j, n),
         SendChunck(Offset(i), n - Offset(i),
                    IF i = 1 THEN WriteMemoryStart ELSE WriteMemoryContinue,
                    Success, before)
  PROVE  /\ link' \in Seq(Packets) /\ Len(link') = i
         /\ \A j \in 1..Len(link') : Offset(j) < n /\ link'[j] = PacketOf(j, n)
         /\ transferring' = TRUE /\ dsc_cmd' = WriteMemoryContinue
         /\ tx_data' = Smaller(Offset(i + 1), n) /\ tx_data' \in Nat
         /\ num_bytes_remaining' = n - tx_data' /\ num_bytes_remaining' \in Nat
<1> DEFINE K == kMaxDSITxArraySize
           cur == Smaller(K, n - Offset(i))
<1>1. n \in Nat /\ K \in Nat /\ K > 0
  BY DsiConstants
<1>2. Len(before) \in Nat /\ i \in Nat \ {0}
  OBVIOUS
<1>3. Offset(i) \in Nat /\ Offset(i + 1) = Offset(i) + K
  BY <1>2, OffsetProperties
<1>4. /\ tx_data' = Offset(i) + cur
      /\ num_bytes_remaining' = n - Offset(i) - cur
      /\ dsc_cmd' = WriteMemoryContinue /\ transferring' = TRUE
      /\ link' = Append(before, PacketOf(i, n))
  BY DEF SendChunck, PacketOf
<1>5. PacketOf(i, n) \in Packets
  BY <1>1, <1>2, PacketProperties
<1>6. /\ link' \in Seq(Packets) /\ Len(link') = Len(before) + 1
      /\ \A j \in 1..Len(before) : link'[j] = before[j]
      /\ link'[Len(before) + 1] = PacketOf(i, n)
  BY <1>4, <1>5, AppendProperties
<1>7. \A j \in 1..Len(link') : Offset(j) < n /\ link'[j] = PacketOf(j, n)
  BY <1>2, <1>6
<1> HIDE DEF K
<1>8. /\ tx_data' = Smaller(Offset(i + 1), n) /\ tx_data' \in Nat
      /\ num_bytes_remaining' = n - tx_data' /\ num_bytes_remaining' \in Nat
  BY <1>1, <1>3, <1>4 DEF Smaller
<1> QED BY <1>4, <1>6, <1>7, <1>8

LEMMA DsiInitInv == ASSUME DsiInit PROVE DsiIInv
<1>1. link \in Seq(Packets) /\ Len(link) = 0
  BY EmptySeq DEF DsiInit
<1>2. ongoing \in BOOLEAN /\ transferring \in BOOLEAN
      /\ ongoing = transferring /\ ~transferring
  BY DEF DsiInit
<1>3. DsiFlags
  BY <1>2, Zenon DEF DsiFlags
<1>4. DsiData
  BY <1>1 DEF DsiInit, DsiData, Commands, Success, NotYet
<1>5. PacketsSent
  BY <1>1 DEF PacketsSent
<1>6. ContextInv
  BY <1>2, Zenon DEF ContextInv
<1>7. AreaSent
  BY DEF DsiInit, AreaSent, Success, NotYet
<1> QED BY <1>3, <1>4, <1>5, <1>6, <1>7 DEF DsiIInv

(* What the controller and the interrupt do to a write. *)
DsiStep ==
  \/ \E n \in Lengths, s \in Statuses : DSI_MemWrite(n, s)
  \/ NextChunck
  \/ \E s \in Statuses : MemoryDone(s)
  \/ UNCHANGED dsiVars

LEMMA DsiStepInv == ASSUME DsiIInv, DsiStep PROVE DsiIInv'
<1> DEFINE K == kMaxDSITxArraySize
<1>0. /\ K \in Nat /\ K > 0
      /\ \A n \in Lengths : n \in Nat /\ n > 0
  BY DsiConstants
<1>1. ASSUME NEW n \in Lengths, NEW s \in Statuses, DSI_MemWrite(n, s)
      PROVE  DsiIInv'
  <2>1. /\ SendChunck(0, n, WriteMemoryStart, s, <<>>)
        /\ length' = n /\ result' = NotYet
        /\ n \in Nat /\ n > 0
    BY <1>0, <1>1 DEF DSI_MemWrite
  <2>2. Offset(1) = 0
    BY OffsetProperties
  <2>3. CASE s = Success
    <3>1. /\ link' \in Seq(Packets) /\ Len(link') = 1
          /\ \A j \in 1..Len(link') : Offset(j) < n /\ link'[j] = PacketOf(j, n)
          /\ transferring' = TRUE /\ dsc_cmd' = WriteMemoryContinue
          /\ tx_data' = Smaller(Offset(1 + 1), n) /\ tx_data' \in Nat
          /\ num_bytes_remaining' = n - tx_data' /\ num_bytes_remaining' \in Nat
      <4> DEFINE before == <<>>
      <4>1. before \in Seq(Packets) /\ Len(before) = 0
        BY EmptySeq
      <4>2. SendChunck(Offset(1), n - Offset(1),
                       IF 1 = 1 THEN WriteMemoryStart ELSE WriteMemoryContinue,
                       Success, before)
        BY <2>1, <2>2, <2>3
      <4> HIDE DEF before
      <4>3. Offset(1) < n /\ 1 = Len(before) + 1
            /\ \A j \in 1..Len(before) :
                 Offset(j) < n /\ before[j] = PacketOf(j, n)
        BY <2>1, <2>2, <4>1
      <4> QED BY <4>1, <4>2, <4>3, ChunckSent
    <3>2. ongoing' = TRUE
      BY <1>1, <2>3 DEF DSI_MemWrite
    <3>3. ongoing' \in BOOLEAN /\ transferring' \in BOOLEAN
          /\ ongoing' = transferring' /\ transferring'
      BY <3>1, <3>2
    <3>4. DsiFlags'
      BY <3>3, Zenon DEF DsiFlags
    <3>5. DsiData'
      BY <2>1, <3>1 DEF DsiData, Commands
    <3>6. PacketsSent'
      BY <2>1, <3>1 DEF PacketsSent
    <3>7. ContextInv'
      BY <2>1, <3>1 DEF ContextInv
    <3>8. AreaSent'
      BY <2>1 DEF AreaSent, Success, NotYet
    <3> QED BY <3>4, <3>5, <3>6, <3>7, <3>8 DEF DsiIInv
  <2>4. CASE s # Success
    <3>1. /\ link' = <<>> /\ transferring' = FALSE /\ ongoing' = FALSE
          /\ dsc_cmd' = WriteMemoryContinue
          /\ tx_data' = 0 + Smaller(K, n)
          /\ num_bytes_remaining' = n - Smaller(K, n)
      BY <1>1, <2>1, <2>4 DEF DSI_MemWrite, SendChunck
    <3>2. tx_data' \in Nat /\ num_bytes_remaining' \in Nat
      BY <3>1, <2>1, <1>0 DEF Smaller
    <3>3. link' \in Seq(Packets) /\ Len(link') = 0
      BY <3>1, EmptySeq
    <3>4. ongoing' \in BOOLEAN /\ transferring' \in BOOLEAN
          /\ ongoing' = transferring' /\ ~transferring'
      BY <3>1
    <3>5. DsiFlags'
      BY <3>4, Zenon DEF DsiFlags
    <3>6. DsiData'
      BY <2>1, <3>1, <3>2, <3>3 DEF DsiData, Commands
    <3>7. PacketsSent'
      BY <3>3 DEF PacketsSent
    <3>8. ContextInv'
      BY <3>4, Zenon DEF ContextInv
    <3>9. AreaSent'
      BY <2>1 DEF AreaSent, Success, NotYet
    <3> QED BY <3>5, <3>6, <3>7, <3>8, <3>9 DEF DsiIInv
  <2> QED BY <2>3, <2>4
<1>2. CASE NextChunck
  <2> DEFINE m == Len(link)
  <2>1. /\ m \in Nat /\ m > 0 /\ length \in Nat /\ length \in Lengths
        /\ tx_data = Smaller(Offset(m + 1), length)
        /\ num_bytes_remaining = length - tx_data
        /\ dsc_cmd = WriteMemoryContinue
        /\ ongoing = TRUE /\ result = NotYet
    <3>1. transferring = TRUE /\ num_bytes_remaining > 0
      BY <1>2 DEF NextChunck, DsiIInv, DsiFlags
    <3>2. length # 0 /\ length \in Lengths \cup {0}
      BY <3>1 DEF DsiIInv, DsiData, ContextInv, Smaller
    <3> QED BY <3>1, <3>2, <1>0 DEF DsiIInv, DsiFlags, DsiData, ContextInv
  <2>2. Offset(m + 1) \in Nat /\ Offset(m + 1) < length
        /\ tx_data = Offset(m + 1)
    <3>1. Offset(m + 1) \in Nat
      BY <2>1, OffsetProperties
    <3>2. length - tx_data > 0
      BY <1>2, <2>1 DEF NextChunck
    <3> QED BY <3>1, <3>2, <2>1 DEF Smaller
  <2>3. /\ link' \in Seq(Packets) /\ Len(link') = m + 1
        /\ \A j \in 1..Len(link') :
             Offset(j) < length /\ link'[j] = PacketOf(j, length)
        /\ transferring' = TRUE /\ dsc_cmd' = WriteMemoryContinue
        /\ tx_data' = Smaller(Offset(m + 1 + 1), length) /\ tx_data' \in Nat
        /\ num_bytes_remaining' = length - tx_data' /\ num_bytes_remaining' \in Nat
    <3>1. SendChunck(Offset(m + 1), length - Offset(m + 1),
                     IF m + 1 = 1 THEN WriteMemoryStart ELSE WriteMemoryContinue,
                     Success, link)
      <4>1. SendChunck(tx_data, num_bytes_remaining, dsc_cmd, Success, link)
        BY <1>2 DEF NextChunck
      <4>2. m + 1 # 1
        BY <2>1
      <4> QED BY <4>1, <4>2, <2>1, <2>2
    <3>2. link \in Seq(Packets)
          /\ \A j \in 1..m : Offset(j) < length /\ link[j] = PacketOf(j, length)
      BY DEF DsiIInv, DsiData, PacketsSent
    <3> QED BY <3>1, <3>2, <2>1, <2>2, ChunckSent
  <2>4. UNCHANGED <<ongoing, length, result>>
    BY <1>2 DEF NextChunck
  <2>5. ongoing' \in BOOLEAN /\ transferring' \in BOOLEAN
        /\ ongoing' = transferring' /\ transferring'
    BY <2>1, <2>3, <2>4
  <2>6. DsiFlags'
    BY <2>5, Zenon DEF DsiFlags
  <2>7. DsiData'
    BY <2>1, <2>3, <2>4 DEF DsiIInv, DsiData, Commands
  <2>8. PacketsSent'
    BY <2>3, <2>4 DEF PacketsSent
  <2>9. ContextInv'
    BY <2>1, <2>3, <2>4 DEF ContextInv
  <2>10. AreaSent'
    BY <2>1, <2>4 DEF AreaSent, Success, NotYet
  <2> QED BY <2>6, <2>7, <2>8, <2>9, <2>10 DEF DsiIInv
<1>3. ASSUME NEW s \in Statuses, MemoryDone(s) PROVE DsiIInv'
  <2>1. transferring = TRUE
    BY <1>3 DEF MemoryDone, DsiIInv, DsiFlags
  <2>2. /\ length \in Nat /\ Len(link) \in Nat /\ Len(link) > 0
        /\ tx_data = Smaller(Offset(Len(link) + 1), length)
        /\ num_bytes_remaining = length - tx_data
    BY <2>1, <1>0 DEF DsiIInv, DsiData, ContextInv
  <2>3. /\ link' = link /\ length' = length
        /\ transferring' = FALSE /\ ongoing' = FALSE /\ result' = s
        /\ s = Fail \/ (s = Success /\ num_bytes_remaining = 0)
        /\ dsc_cmd' \in Commands
        /\ tx_data' \in Nat /\ num_bytes_remaining' \in Nat
    <3>1. CASE /\ s = Fail \/ num_bytes_remaining = 0
               /\ transferring' = FALSE
               /\ UNCHANGED <<tx_data, num_bytes_remaining, dsc_cmd, link>>
      BY <1>3, <3>1 DEF MemoryDone, DsiIInv, DsiData, Statuses
    <3>2. CASE /\ s = Fail /\ num_bytes_remaining > 0
               /\ SendChunck(tx_data, num_bytes_remaining, dsc_cmd, Fail, link)
      <4>1. tx_data \in Nat /\ num_bytes_remaining \in Nat /\ Fail # Success
        BY DEF DsiIInv, DsiData, Fail, Success
      <4>2. /\ tx_data' = tx_data + Smaller(K, num_bytes_remaining)
            /\ num_bytes_remaining' = num_bytes_remaining - Smaller(K, num_bytes_remaining)
            /\ transferring' = FALSE /\ dsc_cmd' = WriteMemoryContinue
            /\ link' = link
        BY <3>2, <4>1 DEF SendChunck
      <4>3. tx_data' \in Nat /\ num_bytes_remaining' \in Nat
        BY <4>1, <4>2, <1>0 DEF Smaller
      <4> QED BY <1>3, <3>2, <4>2, <4>3 DEF MemoryDone, Commands
    <3> QED BY <1>3, <3>1, <3>2 DEF MemoryDone
  <2>4. s = Success => Offset(Len(link) + 1) >= length
    <3>1. Offset(Len(link) + 1) \in Nat
      BY <2>2, OffsetProperties
    <3> QED BY <3>1, <2>2, <2>3 DEF Smaller, Success, Fail
  <2>5. DsiFlags'
    BY <2>3, Zenon DEF DsiFlags
  <2>6. DsiData'
    BY <2>3 DEF DsiIInv, DsiData, Success, Fail
  <2>7. PacketsSent'
    BY <2>3 DEF DsiIInv, PacketsSent
  <2>8. ContextInv'
    BY <2>3, Zenon DEF ContextInv
  <2>9. AreaSent'
    BY <2>2, <2>3, <2>4 DEF AreaSent
  <2> QED BY <2>5, <2>6, <2>7, <2>8, <2>9 DEF DsiIInv
<1>4. CASE UNCHANGED dsiVars
  BY <1>4 DEF dsiVars, ctx, DsiIInv, DsiFlags, DsiData, PacketsSent, ContextInv,
     AreaSent
<1> QED BY <1>1, <1>2, <1>3, <1>4 DEF DsiStep

LEMMA DsiIInvImplies == ASSUME DsiIInv PROVE DsiInv
<1> DEFINE K == kMaxDSITxArraySize
<1>0. /\ K \in Nat /\ K > 0
      /\ \A n \in Lengths : n \in Nat /\ n > 0
  BY DsiConstants
<1>1. length \in Nat
  BY <1>0 DEF DsiIInv, DsiData
<1>2. DsiTypeOK
  BY DEF DsiIInv, DsiFlags, DsiData, DsiTypeOK, Packets, Commands
<1>3. ASSUME NEW i \in 1..Len(link)
      PROVE  /\ link[i].cmd = IF i = 1 THEN WriteMemoryStart ELSE WriteMemoryContinue
             /\ Offset(i) \in Nat /\ Offset(i) % 2 = 0 /\ Offset(i) < length
             /\ Len(link[i].bytes) = Smaller(K, length - Offset(i))
             /\ Len(link[i].bytes) \in Nat
             /\ DOMAIN link[i].bytes = 1..Len(link[i].bytes)
             /\ \A k \in 1..Len(link[i].bytes) :
                  link[i].bytes[k]
                    = IF k % 2 = 1 THEN Offset(i) + k ELSE Offset(i) + k - 2
  <2>1. i \in Nat \ {0}
    BY DEF DsiIInv, DsiData
  <2>2. Offset(i) \in Nat /\ Offset(i) % 2 = 0
    BY <2>1, OffsetProperties
  <2>3. Offset(i) < length /\ link[i] = PacketOf(i, length)
    BY DEF DsiIInv, PacketsSent
  <2> DEFINE n == Smaller(K, length - Offset(i))
  <2>4. n \in Nat
    BY <2>1, <2>3, <1>1, PacketProperties
  <2>5. link[i].bytes = Swapped(Offset(i), n)
        /\ link[i].cmd = IF i = 1 THEN WriteMemoryStart ELSE WriteMemoryContinue
    BY <2>3 DEF PacketOf
  <2> HIDE DEF n
  <2>6. /\ Swapped(Offset(i), n) \in Seq(Nat) /\ Len(Swapped(Offset(i), n)) = n
        /\ \A k \in 1..n : Swapped(Offset(i), n)[k]
             = IF k % 2 = 1 THEN Offset(i) + k ELSE Offset(i) + k - 2
    BY <2>2, <2>4, SwappedProperties
  <2>7. DOMAIN link[i].bytes = 1..Len(link[i].bytes)
    BY <2>5, <2>6
  <2> QED BY <2>2, <2>3, <2>4, <2>5, <2>6, <2>7 DEF n
<1>4. AreaInOrder
  <2>1. ASSUME NEW i \in 1..Len(link), NEW k \in 1..Len(link[i].bytes)
        PROVE  /\ link[i].bytes[k] = IF (Offset(i) + k - 1) % 2 = 0
                                     THEN Offset(i) + k - 1 + 1
                                     ELSE Offset(i) + k - 1 - 1
               /\ Offset(i) + k - 1 < length
    <3>1. Offset(i) \in Nat /\ Offset(i) % 2 = 0 /\ Offset(i) < length
          /\ Len(link[i].bytes) = Smaller(K, length - Offset(i))
          /\ Len(link[i].bytes) \in Nat
          /\ link[i].bytes[k] = IF k % 2 = 1 THEN Offset(i) + k ELSE Offset(i) + k - 2
      BY <1>3
    <3>2. k \in Nat /\ k >= 1 /\ k <= Len(link[i].bytes)
      BY <3>1
    <3>3. (Offset(i) + k - 1) % 2 = 0 <=> k % 2 = 1
      <4> DEFINE x == Offset(i)
      <4> HIDE DEF x
      <4>1. x \in Nat /\ x % 2 = 0 /\ k \in Nat
        BY <3>1, <3>2 DEF x
      <4>2. (x + k - 1) % 2 = 0 <=> k % 2 = 1
        BY ONLY <4>1
      <4> QED BY <4>2 DEF x
    <3>4. k <= length - Offset(i)
      BY <3>1, <3>2, <1>0, <1>1 DEF Smaller
    <3>5. Offset(i) + k - 1 < length
      BY <3>1, <3>2, <3>4, <1>1
    <3>6. Offset(i) + k - 1 + 1 = Offset(i) + k
          /\ Offset(i) + k - 1 - 1 = Offset(i) + k - 2
      <4> DEFINE x == Offset(i)
      <4> HIDE DEF x
      <4>1. x \in Nat /\ k \in Nat
        BY <3>1, <3>2 DEF x
      <4>2. x + k - 1 + 1 = x + k /\ x + k - 1 - 1 = x + k - 2
        BY ONLY <4>1
      <4> QED BY <4>2 DEF x
    <3>7. CASE k % 2 = 1
      BY ONLY <3>1, <3>3, <3>5, <3>6, <3>7
    <3>8. CASE k % 2 # 1
      BY ONLY <3>1, <3>3, <3>5, <3>6, <3>8
    <3> QED BY <3>7, <3>8
  <2>2. DOMAIN link = 1..Len(link)
        /\ \A i \in 1..Len(link) : DOMAIN link[i].bytes = 1..Len(link[i].bytes)
    BY <1>3 DEF DsiIInv, DsiData
  <2>3. \A i \in 1..Len(link) : link[i].cmd = WriteMemoryStart <=> i = 1
    BY <1>3 DEF WriteMemoryStart, WriteMemoryContinue
  <2> QED
    <3>1. ASSUME NEW i \in DOMAIN link, NEW k \in DOMAIN link[i].bytes
          PROVE  LET at == (i - 1) * kMaxDSITxArraySize + k - 1
                 IN  /\ link[i].bytes[k] = IF at % 2 = 0 THEN at + 1 ELSE at - 1
                     /\ at < length
      <4>1. i \in 1..Len(link) /\ k \in 1..Len(link[i].bytes)
        BY <2>2, Zenon
      <4>2. /\ link[i].bytes[k] = IF (Offset(i) + k - 1) % 2 = 0
                                  THEN Offset(i) + k - 1 + 1
                                  ELSE Offset(i) + k - 1 - 1
            /\ Offset(i) + k - 1 < length
        BY <2>1, <4>1
      <4>3. Offset(i) = (i - 1) * kMaxDSITxArraySize
        BY DEF Offset
      <4> DEFINE at == (i - 1) * kMaxDSITxArraySize + k - 1
      <4>4. at = Offset(i) + k - 1
        BY <4>3
      <4> HIDE DEF at
      <4>5. (link[i].bytes[k] = IF at % 2 = 0 THEN at + 1 ELSE at - 1) /\ at < length
        <5>1. Offset(i) \in Nat /\ k \in Nat
          BY <4>1, <1>3
        <5>2. CASE at % 2 = 0
          BY ONLY <4>2, <4>4, <5>1, <5>2
        <5>3. CASE at % 2 # 0
          BY ONLY <4>2, <4>4, <5>1, <5>3
        <5> QED BY <5>2, <5>3
      <4> QED BY <4>5 DEF at
    <3> QED BY <3>1, <2>2, <2>3, Zenon DEF AreaInOrder
<1>5. SuccessMeansSent
  <2> SUFFICES ASSUME result = Success
               PROVE  Offset(Len(link)) + Len(link[Len(link)].bytes) = length
    BY DEF SuccessMeansSent, Offset
  <2> DEFINE m == Len(link)
  <2>1. m \in Nat /\ m > 0 /\ Offset(m + 1) >= length
    BY DEF DsiIInv, DsiData, AreaSent
  <2>2. Offset(m + 1) = Offset(m) + K
    BY <2>1, OffsetProperties
  <2>3. Offset(m) \in Nat /\ Offset(m) < length
        /\ Len(link[m].bytes) = Smaller(K, length - Offset(m))
    BY <2>1, <1>3
  <2> HIDE DEF K, m
  <2> QED
    <3>1. Smaller(K, length - Offset(m)) = length - Offset(m)
      BY <2>1, <2>2, <2>3, <1>0, <1>1 DEF Smaller
    <3> QED BY <3>1, <2>3, <1>1 DEF m
<1>6. OngoingIsTruthful
  BY DEF DsiIInv, DsiFlags, OngoingIsTruthful
<1> QED BY <1>2, <1>4, <1>5, <1>6 DEF DsiInv

-----------------------------------------------------------------------------
(* The pipeline. *)

Writing == {"set", "complete", "callback"}
FirstUse == {"first get", "first getting", "first writing", "enable"}

(* Where the main task is in its loop and where in a call of the device.    *)
TaskInv ==
  /\ appPc \in {"init", "failed", "get", "getting", "draw", "release",
                "releasing"} \cup FirstUse
  /\ appPc \in {"init", "failed", "first get", "enable", "get"} => pc[Main] = Idle
  /\ appPc \in {"first getting", "getting"} => pc[Main] \in {"acquire", "get", Drawing}
  /\ appPc \in {"draw", "release"} => pc[Main] = Drawing
  /\ appPc \in {"first writing", "releasing"} => pc[Main] \in Writing
  /\ held[Main] # None <=> pc[Main] \in Writing \cup {Drawing}
  /\ pc[Main] \in {"complete", "callback"} => "setFrameBuffer" \in MayFail

(* The unit of the semaphore is free, with the task or with the controller. *)
UnitInv ==
  /\ appPc = "init" =>
       /\ framebuffer_semaphore_ = 0 /\ video_mempool_ = <<>>
       /\ frame = None
  /\ frame # None => framebuffer_semaphore_ = 0 /\ pc[Main] \in {Idle, "acquire"}
  /\ pc[Main] \in {"get", Drawing, "set", "complete"} => framebuffer_semaphore_ = 0

(* A buffer is lost when the controller refuses it; the task survives that  *)
(* once, for the black frame of Init.                                       *)
InUseCount == IF frame = None /\ held[Main] = None THEN 0 ELSE 1
LostCount ==
  IF "setFrameBuffer" \notin MayFail
     \/ appPc \in {"first get", "first getting", "first writing"}
  THEN 0 ELSE 1
CountInv ==
  appPc \notin {"init", "failed"} /\ aborted = NoAssertion =>
    Len(video_mempool_) + InUseCount + LostCount >= NumBuffers

SlotInv ==
  /\ SlotsTogether
  /\ s_write_callback # None => frame # None \/ pc[Main] \in Writing
  /\ frame # None => s_write_callback # None /\ s_current_write_buffer = frame
  /\ pc[Main] \in Writing =>
       s_write_callback # None /\ s_current_write_buffer = held[Main]
  /\ appPc = "releasing" => s_write_framebuffer # None

PictureInv ==
  /\ SendsWholeFrames
  /\ pc[Main] \in Writing \/ appPc = "release" => content[held[Main]] = drawn

(* The inductive invariant: CallbacksInv and SendsWholeFrames say nothing   *)
(* of how the task's place, the semaphore and the slots go together.        *)
MipiIInv ==
  /\ TypeOK
  /\ ~crashed /\ aborted \in {NoAssertion, OfStatus}
  /\ DsiIInv
  /\ TaskInv /\ UnitInv /\ CountInv /\ SlotInv /\ PictureInv

Places == Calling \cup {Idle, Drawing, "null"}

(* A device with two buffers, as the boards have, survives the loss of one. *)
EnoughBuffers == NumBuffers > 1 \/ "setFrameBuffer" \notin MayFail

LEMMA MainProperties == Main \in Threads /\ Main # None /\ Threads = {Main}
BY MipiAssumption, DeviceAssumption

LEMMA MainGoto ==
  ASSUME NEW from, NEW to \in Places, Goto(Main, from, to), DeviceTypeOK
  PROVE  pc[Main] = from /\ pc'[Main] = to /\ pc' \in [Threads -> Places]
BY GotoStep, MainProperties DEF Places

LEMMA HeldMain ==
  ASSUME DeviceTypeOK
  PROVE  held[Main] \in Buffers \cup {None} /\ pc[Main] \in Places
BY MainProperties DEF DeviceTypeOK, Places

LEMMA MipiTypes == ASSUME MipiIInv PROVE DeviceTypeOK
BY DEF MipiIInv, TypeOK

LEMMA MipiInitInv == ASSUME MipiInit PROVE MipiIInv
<1>1. DeviceIInv /\ DsiIInv
  BY DeviceInitInv, DsiInitInv DEF MipiInit
<1>2. content \in [Buffers -> 0..FrameIds]
  BY MipiAssumption DEF MipiInit, Partial
<1>3. TypeOK
  <2>1. device_callback \in BOOLEAN /\ driver_callback \in BOOLEAN
    BY DEF MipiInit
  <2>2. /\ s_write_framebuffer = None /\ aborted = NoAssertion
        /\ drawn \in 0..(FrameIds - 1) /\ shown \in 0..FrameIds
    BY MipiAssumption DEF MipiInit
  <2> QED BY <1>1, <1>2, <2>1, <2>2 DEF TypeOK, DeviceIInv
<1>4. pc[Main] = Idle /\ held[Main] = None
  BY MainProperties DEF MipiInit, DeviceInit
<1>5. TaskInv
  BY <1>4 DEF MipiInit, TaskInv, FirstUse, Writing, Idle, Drawing
<1>6. UnitInv
  BY <1>4 DEF MipiInit, DeviceInit, UnitInv, Idle, Drawing
<1>7. CountInv
  BY DEF MipiInit, CountInv
<1>8. SlotInv
  BY <1>4 DEF MipiInit, DeviceInit, SlotInv, SlotsTogether, Writing, Idle
<1>9. PictureInv
  BY <1>4 DEF MipiInit, DeviceInit, DsiInit, PictureInv, SendsWholeFrames, Writing, Idle
<1> QED
  BY <1>1, <1>3, <1>5, <1>6, <1>7, <1>8, <1>9
     DEF MipiIInv, MipiInit, DeviceInit

(* The task is in GetFramebuffer. *)
Getting == appPc \in {"first getting", "getting"}

(* GetFramebuffer, of Init's black frame as of a later one. *)
LEMMA CallGetKeeps ==
  ASSUME MipiIInv, CallGetFramebuffer(Main),
         \/ AppGoto("first get", "first getting") \/ AppGoto("get", "getting"),
         UNCHANGED <<dsiVars, slots, picture, shown, aborted>>
  PROVE  MipiIInv'
<1>0. DsiIInv'
  BY DsiStepInv DEF DsiStep, MipiIInv
<1>1. pc[Main] = Idle /\ pc'[Main] = "acquire" /\ pc' \in [Threads -> Places]
  BY MainGoto DEF CallGetFramebuffer, MipiIInv, TypeOK, Places, Calling
<1>2. UNCHANGED <<lifecycle, framebuffer_semaphore_, video_mempool_, held,
                 s_write_callback, s_current_write_buffer, frame, crashed>>
  BY DEF CallGetFramebuffer
<1>3. TypeOK'
  <2>1. TypeOK /\ UNCHANGED <<slots, picture, shown, aborted>>
    BY DEF MipiIInv
  <2>2. pc' \in [Threads -> Places]
    BY <1>1
  <2>3. DeviceTypeOK'
    BY ONLY <1>2, <2>1, <2>2 DEF TypeOK, DeviceTypeOK, lifecycle, Places
  <2> QED BY ONLY <2>1, <2>3 DEF TypeOK, slots, picture
<1>4. TaskInv' /\ UnitInv'
  BY <1>1, <1>2 DEF MipiIInv, TaskInv, UnitInv, AppGoto, Idle, Drawing, Writing,
     FirstUse
<1>5. CountInv'
  BY <1>1, <1>2 DEF MipiIInv, CountInv, InUseCount, LostCount, AppGoto
<1>6. SlotInv' /\ PictureInv'
  BY <1>1, <1>2
     DEF MipiIInv, SlotInv, PictureInv, SlotsTogether, SendsWholeFrames, slots,
         picture, AppGoto, dsiVars, Writing, Idle
<1> QED BY <1>0, <1>2, <1>3, <1>4, <1>5, <1>6 DEF MipiIInv

(* The pool is never empty when the semaphore's unit is taken. *)
LEMMA PoolNotEmpty ==
  ASSUME MipiIInv, EnoughBuffers, Running, pc[Main] = "get",
         Getting
  PROVE  Len(video_mempool_) > 0
<1>1. frame = None /\ held[Main] = None
  BY DEF MipiIInv, TaskInv, UnitInv, Writing, Drawing, Idle
<1>2. Len(video_mempool_) + 0 + LostCount >= NumBuffers
  BY <1>1 DEF MipiIInv, CountInv, InUseCount, Running, Getting
<1>3. Len(video_mempool_) \in Nat /\ NumBuffers \in Nat \ {0}
  BY DeviceAssumption, MipiTypes DEF DeviceTypeOK
<1>4. LostCount = 0 \/ (LostCount = 1 /\ NumBuffers > 1)
  BY DEF LostCount, EnoughBuffers
<1> QED BY <1>2, <1>3, <1>4

LEMMA GetStepsKeep ==
  ASSUME MipiIInv, EnoughBuffers, Running, GetSteps, Getting,
         UNCHANGED appPc
  PROVE  /\ pc'[Main] # "null"
         /\ UNCHANGED <<dsiVars, slots, picture, shown, aborted>> => MipiIInv'
<1> USE MainProperties
<1>0. UNCHANGED dsiVars => DsiIInv'
  BY DsiStepInv DEF DsiStep, MipiIInv
<1>1. CASE Acquire(Main)
  <2>1. pc[Main] = "acquire" /\ pc'[Main] = "get" /\ pc' \in [Threads -> Places]
    BY <1>1, MainGoto DEF Acquire, MipiIInv, TypeOK, Places, Calling
  <2>2. UNCHANGED <<lifecycle, video_mempool_, held, s_write_callback,
                   s_current_write_buffer, frame, crashed>>
    BY <1>1 DEF Acquire
  <2>3. framebuffer_semaphore_ = 1 /\ framebuffer_semaphore_' = 0
    BY <1>1, MipiTypes DEF Acquire, DeviceTypeOK
  <2> SUFFICES ASSUME UNCHANGED <<dsiVars, slots, picture, shown, aborted>>
               PROVE  MipiIInv'
    BY <2>1
  <2>4. TypeOK'
    <3>1. DeviceTypeOK'
      BY <2>1, <2>2, <2>3, MipiTypes DEF DeviceTypeOK, lifecycle, Places
    <3> QED BY <3>1 DEF MipiIInv, TypeOK, slots, picture
  <2>5. TaskInv'
    BY <2>1, <2>2
       DEF MipiIInv, TaskInv, Idle, Drawing, Writing, FirstUse, Getting
  <2>8. UnitInv'
    <3>1. frame = None
      BY <2>3 DEF MipiIInv, UnitInv
    <3>2. appPc' # "init"
      BY DEF Getting
    <3> QED BY <2>2, <2>3, <3>1, <3>2 DEF UnitInv
  <2>6. CountInv'
    BY <2>1, <2>2 DEF MipiIInv, CountInv, InUseCount, LostCount
  <2>7. SlotInv' /\ PictureInv'
    BY <2>1, <2>2
       DEF MipiIInv, SlotInv, PictureInv, SlotsTogether, SendsWholeFrames, slots,
           picture, dsiVars, Writing
  <2> QED BY <1>0, <2>2, <2>4, <2>5, <2>6, <2>7, <2>8 DEF MipiIInv
<1>2. CASE MempoolGet(Main)
  <2> DEFINE n == Len(video_mempool_)
             b == video_mempool_[n]
  <2>0. pc[Main] = "get"
    BY <1>2 DEF MempoolGet, Goto
  <2>1. n > 0 /\ n \in Nat /\ video_mempool_ \in Seq(Buffers)
    BY <2>0, PoolNotEmpty, MipiTypes DEF DeviceTypeOK
  <2>2. /\ Goto(Main, "get", Drawing)
        /\ held' = [held EXCEPT ![Main] = b]
        /\ video_mempool_' = SubSeq(video_mempool_, 1, n - 1)
        /\ UNCHANGED <<lifecycle, framebuffer_semaphore_, s_write_callback,
                       s_current_write_buffer, frame, crashed>>
    BY <1>2, <2>1 DEF MempoolGet
  <2>3. pc'[Main] = Drawing /\ pc' \in [Threads -> Places]
    BY <2>2, MainGoto DEF MipiIInv, TypeOK, Places
  <2>4. video_mempool_' \in Seq(Buffers) /\ Len(video_mempool_') = n - 1
        /\ b \in Buffers
    BY <2>1, <2>2, PoolGet
  <2>5. b # None
    BY <2>4, DeviceAssumption DEF Buffers
  <2> HIDE DEF b
  <2>6. held'[Main] = b /\ held' \in [Threads -> Buffers \cup {None}]
    BY <2>2, <2>4 DEF MipiIInv, TypeOK, DeviceTypeOK
  <2>7. frame = None /\ held[Main] = None
    BY <2>0 DEF MipiIInv, TaskInv, UnitInv, Writing, Drawing, Idle
  <2> SUFFICES ASSUME UNCHANGED <<dsiVars, slots, picture, shown, aborted>>
               PROVE  MipiIInv'
    BY <2>3 DEF Drawing
  <2>8. TypeOK'
    <3>1. DeviceTypeOK'
      BY <2>2, <2>3, <2>4, <2>6, MipiTypes DEF DeviceTypeOK, lifecycle, Places
    <3> QED BY <3>1, <2>2 DEF MipiIInv, TypeOK, slots, picture
  <2>9. TaskInv' /\ UnitInv'
    BY <2>0, <2>2, <2>3, <2>5, <2>6, <2>7
       DEF MipiIInv, TaskInv, UnitInv, Idle, Drawing, Writing, FirstUse, Getting
  <2>10. CountInv'
    <3>1. n - 1 + 1 + LostCount = n + 0 + LostCount
      BY <2>1 DEF LostCount
    <3> QED
      BY <2>1, <2>2, <2>4, <2>5, <2>6, <2>7, <3>1
         DEF MipiIInv, CountInv, InUseCount, LostCount
  <2>11. SlotInv' /\ PictureInv'
    BY <2>0, <2>2, <2>3, <2>7
       DEF MipiIInv, SlotInv, PictureInv, SlotsTogether, SendsWholeFrames, slots,
           picture, dsiVars, Writing, Drawing, Getting
  <2> QED BY <1>0, <2>2, <2>8, <2>9, <2>10, <2>11 DEF MipiIInv
<1> QED BY <1>1, <1>2 DEF GetSteps

LEMMA InitDeviceStep ==
  ASSUME MipiIInv, EnoughBuffers, Running, InitDevice
  PROVE  MipiIInv'
<1> USE DeviceAssumption, MainProperties
<1>0. UNCHANGED <<dsiVars, slots, picture, shown, aborted>>
  BY DEF InitDevice
<1>1. DsiIInv'
  BY <1>0, DsiStepInv DEF DsiStep, MipiIInv
<1>2. CASE AppGoto("init", "first get") /\ Init
  <2> DEFINE all == [i \in Buffers |-> i]
  <2>1. frame = None /\ pc[Main] = Idle /\ held[Main] = None
    BY <1>2 DEF MipiIInv, TaskInv, UnitInv, AppGoto, Idle, Writing, Drawing
  <2>10. framebuffer_semaphore_ = 0 /\ video_mempool_ = <<>>
    BY <1>2 DEF MipiIInv, UnitInv, AppGoto
  <2>11. Init
    BY <1>2
  <2>2. all \in Seq(Buffers) /\ Len(all) = NumBuffers
    BY DEF Buffers
  <2>3. video_mempool_' = all
    BY ONLY <2>2, <2>10, <2>11 DEF Init
  <2>4. framebuffer_semaphore_' = 1
    BY ONLY <2>10, <2>11 DEF Init
  <2>5. DeviceTypeOK'
    BY <2>2, <2>3, <2>4, <2>11, MipiTypes DEF Init, DeviceTypeOK
  <2> HIDE DEF all
  <2>6. TypeOK'
    BY <1>0, <2>5 DEF MipiIInv, TypeOK, slots, picture
  <2>7. TaskInv' /\ UnitInv'
    BY <1>2, <2>1 DEF Init, TaskInv, UnitInv, AppGoto, Idle, Drawing, Writing, FirstUse
  <2>8. CountInv'
    <3>0. appPc' = "first get"
      BY <1>2 DEF AppGoto
    <3>1. LostCount' = 0
      BY ONLY <3>0 DEF LostCount
    <3>3. InUseCount' = 0 \/ InUseCount' = 1
      BY DEF InUseCount
    <3>2. Len(video_mempool_') + InUseCount' + LostCount' >= NumBuffers
      BY ONLY <2>2, <2>3, <3>1, <3>3, DeviceAssumption
    <3> QED BY ONLY <3>2, Zenon DEF CountInv
  <2>9. SlotInv' /\ PictureInv'
    BY <1>0, <1>2, <2>1
       DEF Init, MipiIInv, SlotInv, PictureInv, SlotsTogether, SendsWholeFrames,
           slots, picture, AppGoto, dsiVars, Idle, Writing
  <2> QED
    BY <1>0, <1>1, <1>2, <2>6, <2>7, <2>8, <2>9 DEF MipiIInv, Init
<1>3. CASE AppGoto("init", "failed") /\ InitFails
  <2>1. TypeOK'
    BY <1>0, <1>3 DEF InitFails, MipiIInv, TypeOK, DeviceTypeOK, slots, picture
  <2>2. TaskInv' /\ UnitInv' /\ CountInv'
    BY <1>3 DEF InitFails, MipiIInv, TaskInv, UnitInv, CountInv, AppGoto, Idle,
       Drawing, Writing, FirstUse
  <2>3. SlotInv' /\ PictureInv'
    BY <1>0, <1>3
       DEF InitFails, MipiIInv, SlotInv, PictureInv, SlotsTogether, SendsWholeFrames,
           slots, picture, AppGoto, dsiVars
  <2> QED BY <1>0, <1>1, <1>3, <2>1, <2>2, <2>3 DEF MipiIInv, InitFails
<1>4. CASE AppGoto("first get", "first getting") /\ CallGetFramebuffer(Main)
  BY <1>0, <1>4, CallGetKeeps
<1>5. CASE appPc = "first getting" /\ GetSteps /\ UNCHANGED appPc
  BY <1>0, <1>5, GetStepsKeep DEF Getting
<1> QED BY <1>2, <1>3, <1>4, <1>5 DEF InitDevice

(* WriteFramebuffer's assertion: the slot is free while the task draws. *)
LEMMA CallWriteFacts ==
  ASSUME MipiIInv, CallWriteFramebuffer(Main)
  PROVE  /\ pc[Main] = Drawing /\ pc'[Main] = "set"
         /\ held[Main] \in Buffers /\ held[Main] # None
         /\ frame = None /\ framebuffer_semaphore_ = 0
         /\ s_write_callback = None /\ ~device_callback
         /\ s_write_callback' = Main /\ s_current_write_buffer' = held[Main]
         /\ ~crashed' /\ DeviceTypeOK'
         /\ UNCHANGED <<framebuffer_semaphore_, video_mempool_, held, frame>>
<1> USE MainProperties
<1>1. pc[Main] = Drawing /\ pc'[Main] = "set" /\ pc' \in [Threads -> Places]
  BY MainGoto, MipiTypes DEF CallWriteFramebuffer, Places, Calling
<1>2. held[Main] # None /\ frame = None
  BY <1>1 DEF MipiIInv, TaskInv, UnitInv, Drawing, Idle
<1>3. held[Main] \in Buffers
  BY <1>2, HeldMain, MipiTypes
<1>4. framebuffer_semaphore_ = 0
  BY <1>1 DEF MipiIInv, UnitInv
<1>5. s_write_callback = None
  BY <1>1, <1>2 DEF MipiIInv, SlotInv, Writing, Drawing
<1>6. ~device_callback
  BY <1>5 DEF MipiIInv, SlotInv, SlotsTogether
<1>7. /\ s_write_callback' = Main /\ s_current_write_buffer' = held[Main]
      /\ UNCHANGED <<lifecycle, framebuffer_semaphore_, video_mempool_, held, frame>>
  BY DEF CallWriteFramebuffer
<1>8. crashed' = FALSE
  BY <1>5 DEF CallWriteFramebuffer
<1>9. DeviceTypeOK'
  <2>1. crashed' \in BOOLEAN
    BY <1>8
  <2> QED BY <1>1, <1>3, <1>7, <2>1, MipiTypes DEF DeviceTypeOK, lifecycle, Places
<1> QED BY <1>1, <1>2, <1>3, <1>4, <1>5, <1>6, <1>7, <1>8, <1>9

LEMMA WriteFirstFrameStep ==
  ASSUME MipiIInv, WriteFirstFrame
  PROVE  MipiIInv'
<1>0. UNCHANGED <<dsiVars, slots, drawn, shown, aborted>>
  BY DEF WriteFirstFrame
<1>1. DsiIInv'
  BY <1>0, DsiStepInv DEF DsiStep, MipiIInv
<1>2. AppGoto("first getting", "first writing")
  BY DEF WriteFirstFrame
<1>3. /\ pc[Main] = Drawing /\ pc'[Main] = "set"
      /\ held[Main] \in Buffers /\ held[Main] # None
      /\ frame = None /\ framebuffer_semaphore_ = 0
      /\ s_write_callback = None /\ ~device_callback
      /\ s_write_callback' = Main /\ s_current_write_buffer' = held[Main]
      /\ ~crashed' /\ DeviceTypeOK'
      /\ UNCHANGED <<framebuffer_semaphore_, video_mempool_, held, frame>>
  BY CallWriteFacts DEF WriteFirstFrame
<1>4. content' \in [Buffers -> 0..FrameIds] /\ content'[held[Main]] = drawn
  <2>1. drawn \in 0..FrameIds
    BY MipiAssumption DEF MipiIInv, TypeOK
  <2>2. content \in [Buffers -> 0..FrameIds]
    BY DEF MipiIInv, TypeOK
  <2>3. content' = [content EXCEPT ![held[Main]] = drawn]
    BY DEF WriteFirstFrame
  <2> QED BY ONLY <1>3, <2>1, <2>2, <2>3
<1>5. TypeOK'
  BY <1>0, <1>3, <1>4 DEF MipiIInv, TypeOK, slots
<1>6. TaskInv'
  BY <1>2, <1>3 DEF MipiIInv, TaskInv, AppGoto, Writing, Drawing, FirstUse
<1>7. UnitInv'
  BY <1>2, <1>3 DEF UnitInv, AppGoto
<1>8. CountInv'
  BY <1>0, <1>2, <1>3 DEF MipiIInv, CountInv, InUseCount, LostCount, AppGoto
<1>9. SlotInv'
  BY <1>0, <1>2, <1>3, MainProperties
     DEF MipiIInv, SlotInv, SlotsTogether, AppGoto, Writing, slots
<1>10. PictureInv'
  BY <1>0, <1>3, <1>4 DEF MipiIInv, PictureInv, SendsWholeFrames, dsiVars
<1> QED
  BY <1>0, <1>1, <1>3, <1>5, <1>6, <1>7, <1>8, <1>9, <1>10 DEF MipiIInv

LEMMA ReleaseFrameStep ==
  ASSUME MipiIInv, Running, ReleaseFrame
  PROVE  MipiIInv'
<1>0. UNCHANGED <<dsiVars, picture, shown>>
  BY DEF ReleaseFrame
<1>1. DsiIInv'
  BY <1>0, DsiStepInv DEF DsiStep, MipiIInv
<1>2. AppGoto("release", "releasing")
  BY DEF ReleaseFrame
<1>3. /\ pc[Main] = Drawing /\ pc'[Main] = "set"
      /\ held[Main] \in Buffers /\ held[Main] # None
      /\ frame = None /\ framebuffer_semaphore_ = 0
      /\ s_write_callback = None /\ ~device_callback
      /\ s_write_callback' = Main /\ s_current_write_buffer' = held[Main]
      /\ ~crashed' /\ DeviceTypeOK'
      /\ UNCHANGED <<framebuffer_semaphore_, video_mempool_, held, frame>>
  BY CallWriteFacts DEF ReleaseFrame
<1>4. aborted' = NoAssertion /\ aborted = NoAssertion
      /\ s_write_framebuffer' = held[Main]
  BY <1>3 DEF ReleaseFrame, Running
<1>5. device_callback' = TRUE /\ driver_callback' = TRUE
  BY DEF ReleaseFrame
<1>6. TypeOK'
  <2>1. device_callback' \in BOOLEAN /\ driver_callback' \in BOOLEAN
    BY <1>5
  <2> QED BY <1>0, <1>3, <1>4, <2>1 DEF MipiIInv, TypeOK, picture
<1>7. TaskInv'
  BY <1>2, <1>3 DEF MipiIInv, TaskInv, AppGoto, Writing, Drawing, FirstUse
<1>8. UnitInv'
  BY <1>2, <1>3 DEF UnitInv, AppGoto
<1>9. CountInv'
  BY <1>2, <1>3, <1>4 DEF MipiIInv, CountInv, InUseCount, LostCount, AppGoto
<1>10. SlotInv'
  BY <1>2, <1>3, <1>4, <1>5, MainProperties
     DEF MipiIInv, SlotInv, SlotsTogether, AppGoto, Writing
<1>11. PictureInv'
  BY <1>0, <1>2, <1>3
     DEF MipiIInv, PictureInv, SendsWholeFrames, dsiVars, picture, AppGoto
<1> QED
  BY <1>1, <1>3, <1>4, <1>6, <1>7, <1>8, <1>9, <1>10, <1>11 DEF MipiIInv

LEMMA GetFrameStep ==
  ASSUME MipiIInv, EnoughBuffers, Running, GetFrame
  PROVE  MipiIInv'
<1>0. UNCHANGED <<dsiVars, slots, picture, shown>>
  BY DEF GetFrame
<1>1. CASE AppGoto("get", "getting") /\ CallGetFramebuffer(Main)
  <2>1. pc'[Main] = "acquire"
    BY <1>1, MainGoto, MipiTypes DEF CallGetFramebuffer, Places, Calling
  <2>2. UNCHANGED aborted
    BY <2>1 DEF GetFrame, Running
  <2> QED BY <1>0, <1>1, <2>2, CallGetKeeps
<1>2. CASE appPc = "getting" /\ GetSteps /\ UNCHANGED appPc
  <2>1. Getting
    BY <1>2 DEF Getting
  <2>2. UNCHANGED aborted
    BY <1>2, <2>1, GetStepsKeep DEF GetFrame, Running
  <2> QED BY <1>0, <1>2, <2>1, <2>2, GetStepsKeep
<1> QED BY <1>1, <1>2 DEF GetFrame

LEMMA FillStep ==
  ASSUME MipiIInv, Fill
  PROVE  MipiIInv'
<1>0. UNCHANGED <<deviceVars, dsiVars, slots, drawn, shown, aborted>>
  BY DEF Fill
<1>1. AppGoto("getting", "draw") /\ pc[Main] = Drawing
  BY DEF Fill
<1>2. DsiIInv'
  BY <1>0, DsiStepInv DEF DsiStep, MipiIInv
<1>3. content' \in [Buffers -> 0..FrameIds]
  <2>1. content \in [Buffers -> 0..FrameIds]
    BY DEF MipiIInv, TypeOK
  <2>2. FrameIds \in 0..FrameIds
    BY MipiAssumption
  <2>3. content' = [content EXCEPT ![held[Main]] = FrameIds]
    BY DEF Fill, Partial
  <2> QED BY ONLY <2>1, <2>2, <2>3
<1>4. DeviceTypeOK'
  BY <1>0, MipiTypes DEF deviceVars, lifecycle, DeviceTypeOK
<1>5. TypeOK'
  BY <1>0, <1>3, <1>4 DEF MipiIInv, TypeOK, slots
<1>6. TaskInv'
  BY <1>0, <1>1 DEF MipiIInv, TaskInv, AppGoto, Drawing, FirstUse, deviceVars
<1>7. UnitInv'
  BY <1>0, <1>1 DEF MipiIInv, UnitInv, AppGoto, Drawing, deviceVars
<1>8. CountInv'
  BY <1>0, <1>1 DEF MipiIInv, CountInv, InUseCount, LostCount, AppGoto, deviceVars
<1>9. SlotInv'
  BY <1>0, <1>1 DEF MipiIInv, SlotInv, SlotsTogether, AppGoto, slots, deviceVars
<1>10. PictureInv'
  <2>1. frame = None
    BY <1>1 DEF MipiIInv, UnitInv, Drawing, Idle
  <2> QED
    BY <1>0, <1>1, <2>1 DEF MipiIInv, PictureInv, SendsWholeFrames, AppGoto, dsiVars,
       deviceVars, Writing, Drawing
<1> QED
  BY <1>0, <1>2, <1>5, <1>6, <1>7, <1>8, <1>9, <1>10 DEF MipiIInv, deviceVars

LEMMA DrawFrameStep ==
  ASSUME MipiIInv, DrawFrame
  PROVE  MipiIInv'
<1>0. UNCHANGED <<deviceVars, dsiVars, slots, shown, aborted>>
  BY DEF DrawFrame
<1>1. AppGoto("draw", "release") /\ pc[Main] = Drawing
  BY DEF DrawFrame, AppGoto, MipiIInv, TaskInv
<1>2. DsiIInv'
  BY <1>0, DsiStepInv DEF DsiStep, MipiIInv
<1>3. frame = None /\ held[Main] # None
  BY <1>1 DEF MipiIInv, UnitInv, TaskInv, Drawing, Idle
<1>4. drawn' \in 0..(FrameIds - 1)
  <2>1. drawn \in Nat /\ FrameIds \in Nat \ {0}
    BY MipiAssumption DEF MipiIInv, TypeOK
  <2>2. drawn' = (drawn + 1) % FrameIds
    BY DEF DrawFrame, NextFrame
  <2> QED BY ONLY <2>1, <2>2
<1>5. content' \in [Buffers -> 0..FrameIds] /\ content'[held[Main]] = drawn'
  <2>1. held[Main] \in Buffers
    BY <1>3, HeldMain, MipiTypes
  <2>2. content \in [Buffers -> 0..FrameIds]
    BY DEF MipiIInv, TypeOK
  <2>3. drawn' \in 0..FrameIds
    BY <1>4, MipiAssumption
  <2>4. content' = [content EXCEPT ![held[Main]] = drawn']
    BY DEF DrawFrame
  <2> QED BY ONLY <2>1, <2>2, <2>3, <2>4
<1>6. DeviceTypeOK'
  BY <1>0, MipiTypes DEF deviceVars, lifecycle, DeviceTypeOK
<1>7. TypeOK'
  BY <1>0, <1>4, <1>5, <1>6 DEF MipiIInv, TypeOK, slots
<1>8. TaskInv'
  BY <1>0, <1>1 DEF MipiIInv, TaskInv, AppGoto, Drawing, FirstUse, deviceVars
<1>9. UnitInv'
  BY <1>0, <1>1 DEF MipiIInv, UnitInv, AppGoto, Drawing, deviceVars
<1>10. CountInv'
  BY <1>0, <1>1 DEF MipiIInv, CountInv, InUseCount, LostCount, AppGoto, deviceVars
<1>11. SlotInv'
  BY <1>0, <1>1 DEF MipiIInv, SlotInv, SlotsTogether, AppGoto, slots, deviceVars
<1>12. PictureInv'
  BY <1>0, <1>3, <1>5 DEF MipiIInv, PictureInv, SendsWholeFrames, dsiVars, deviceVars
<1> QED
  BY <1>0, <1>2, <1>7, <1>8, <1>9, <1>10, <1>11, <1>12 DEF MipiIInv, deviceVars

LEMMA EnableLayerStep ==
  ASSUME MipiIInv, EnableLayer
  PROVE  MipiIInv'
<1>0. UNCHANGED <<dsiVars, slots, picture, shown, aborted>>
  BY DEF EnableLayer
<1>1. PICK ok \in BOOLEAN : Enable(ok)
  BY DEF EnableLayer
<1>2. AppGoto("enable", "get") \/ AppGoto("enable", "failed")
  BY DEF EnableLayer
<1>3. DsiIInv'
  BY <1>0, DsiStepInv DEF DsiStep, MipiIInv
<1>4. UNCHANGED <<dc_, phase, framebuffer_semaphore_, video_mempool_,
                 s_write_callback, s_current_write_buffer, frame, pc, held, crashed>>
  BY <1>1 DEF Enable
<1>5. TypeOK'
  <2>1. enabled_' \in BOOLEAN /\ layerOn' \in BOOLEAN /\ requested' \in BOOLEAN
    BY <1>1, MipiTypes DEF Enable, DeviceTypeOK
  <2>2. DeviceTypeOK'
    BY <1>4, <2>1, MipiTypes DEF DeviceTypeOK
  <2> QED BY <1>0, <2>2 DEF MipiIInv, TypeOK, slots, picture
<1>6. TaskInv' /\ UnitInv'
  BY <1>2, <1>4 DEF MipiIInv, TaskInv, UnitInv, AppGoto, FirstUse
<1>7. CountInv'
  BY <1>0, <1>2, <1>4 DEF MipiIInv, CountInv, InUseCount, LostCount, AppGoto
<1>8. SlotInv' /\ PictureInv'
  BY <1>0, <1>2, <1>4
     DEF MipiIInv, SlotInv, PictureInv, SlotsTogether, SendsWholeFrames, AppGoto, slots,
         picture, dsiVars
<1> QED BY <1>0, <1>3, <1>4, <1>5, <1>6, <1>7, <1>8 DEF MipiIInv

(* The task is in WriteFramebuffer, and returns from it. *)
InWrite == appPc \in {"first writing", "releasing"}
WriteReturns == appPc' = IF appPc = "releasing" THEN "get" ELSE "enable"

(* A write that the controller takes. *)
LEMMA WriteTaken ==
  ASSUME MipiIInv, SetFrameBuffer(Main), InWrite, WriteReturns,
         UNCHANGED <<dsiVars, picture, slots, shown, aborted>>
  PROVE  MipiIInv'
<1> USE MainProperties
<1>1. DsiIInv'
  BY DsiStepInv DEF DsiStep, MipiIInv
<1>2. pc[Main] = "set" /\ pc'[Main] = Idle /\ pc' \in [Threads -> Places]
  BY MainGoto, MipiTypes DEF SetFrameBuffer, Places
<1>3. /\ frame' = held[Main] /\ held' = [held EXCEPT ![Main] = None]
      /\ UNCHANGED <<lifecycle, framebuffer_semaphore_, video_mempool_,
                     s_write_callback, s_current_write_buffer, crashed>>
  BY DEF SetFrameBuffer
<1>4. held[Main] # None /\ held[Main] \in Buffers \cup {None}
  BY <1>2, HeldMain, MipiTypes DEF MipiIInv, TaskInv, Writing
<1>5. held'[Main] = None /\ held' \in [Threads -> Buffers \cup {None}]
  BY <1>3, MipiTypes DEF DeviceTypeOK
<1>6. frame = None /\ framebuffer_semaphore_ = 0
  BY <1>2 DEF MipiIInv, UnitInv, Idle
<1>7. DeviceTypeOK'
  BY <1>2, <1>3, <1>4, <1>5, MipiTypes DEF DeviceTypeOK, lifecycle, Places
<1>8. TypeOK'
  BY <1>7 DEF MipiIInv, TypeOK, slots, picture
<1>9. TaskInv'
  BY <1>2, <1>5 DEF MipiIInv, TaskInv, Writing, Drawing, Idle, FirstUse, InWrite, WriteReturns
<1>10. UnitInv'
  BY <1>2, <1>3, <1>6 DEF UnitInv, Idle, Drawing, WriteReturns
<1>11. CountInv'
  <2>1. InUseCount' = 1 /\ InUseCount = 1 /\ video_mempool_' = video_mempool_
    BY <1>3, <1>4 DEF InUseCount
  <2>2. LostCount' = LostCount \/ (LostCount' = 1 /\ LostCount = 0)
    BY DEF LostCount, InWrite, WriteReturns
  <2>3. LostCount \in Nat /\ Len(video_mempool_) \in Nat /\ NumBuffers \in Nat
    BY DeviceAssumption, MipiTypes DEF LostCount, DeviceTypeOK
  <2>4. aborted = NoAssertion => Len(video_mempool_) + InUseCount + LostCount >= NumBuffers
    BY DEF MipiIInv, CountInv, InWrite
  <2>5. aborted = NoAssertion =>
          Len(video_mempool_') + InUseCount' + LostCount' >= NumBuffers
    BY ONLY <2>1, <2>2, <2>3, <2>4
  <2> QED BY <2>5, Zenon DEF CountInv
<1>12. SlotInv'
  BY <1>2, <1>3, <1>4, <1>5
     DEF MipiIInv, SlotInv, SlotsTogether, slots, Writing, Idle, WriteReturns
<1>13. PictureInv'
  BY <1>2, <1>3, <1>4
     DEF MipiIInv, PictureInv, SendsWholeFrames, picture, dsiVars, Writing, Idle,
         WriteReturns
<1> QED
  BY <1>1, <1>3, <1>8, <1>9, <1>10, <1>11, <1>12, <1>13 DEF MipiIInv

(* A write that the controller refuses, in three steps. *)
LEMMA WriteRefused ==
  ASSUME MipiIInv, SetFrameBufferFails(Main), UNCHANGED appPc,
         UNCHANGED <<dsiVars, picture, slots, shown, aborted>>
  PROVE  MipiIInv'
<1> USE MainProperties
<1>1. DsiIInv'
  BY DsiStepInv DEF DsiStep, MipiIInv
<1>2. pc[Main] = "set" /\ pc'[Main] = "complete" /\ pc' \in [Threads -> Places]
  BY MainGoto, MipiTypes DEF SetFrameBufferFails, Places, Calling
<1>3. /\ UNCHANGED <<lifecycle, framebuffer_semaphore_, video_mempool_, held,
                     s_write_callback, s_current_write_buffer, frame, crashed>>
      /\ "setFrameBuffer" \in MayFail
  BY DEF SetFrameBufferFails
<1>4. DeviceTypeOK'
  BY <1>2, <1>3, MipiTypes DEF DeviceTypeOK, lifecycle, Places
<1>5. TypeOK'
  BY <1>4 DEF MipiIInv, TypeOK, slots, picture
<1>6. TaskInv'
  BY <1>2, <1>3 DEF MipiIInv, TaskInv, Writing, Drawing, Idle, FirstUse
<1>7. UnitInv'
  BY <1>2, <1>3 DEF MipiIInv, UnitInv, Idle
<1>8. CountInv'
  BY <1>2, <1>3 DEF MipiIInv, CountInv, InUseCount, LostCount
<1>9. SlotInv' /\ PictureInv'
  BY <1>2, <1>3
     DEF MipiIInv, SlotInv, PictureInv, SlotsTogether, SendsWholeFrames, slots,
         picture, dsiVars, Writing
<1> QED BY <1>1, <1>3, <1>5, <1>6, <1>7, <1>8, <1>9 DEF MipiIInv

LEMMA ReleasedUnit ==
  ASSUME MipiIInv, WriteCompleteRelease(Main), UNCHANGED appPc,
         UNCHANGED <<dsiVars, picture, slots, shown, aborted>>
  PROVE  MipiIInv'
<1> USE MainProperties
<1>1. DsiIInv'
  BY DsiStepInv DEF DsiStep, MipiIInv
<1>2. pc[Main] = "complete" /\ pc'[Main] = "callback" /\ pc' \in [Threads -> Places]
  BY MainGoto, MipiTypes DEF WriteCompleteRelease, Places, Calling
<1>3. UNCHANGED <<lifecycle, video_mempool_, held, s_write_callback,
                 s_current_write_buffer, frame>>
  BY DEF WriteCompleteRelease
<1>4. framebuffer_semaphore_ = 0 /\ frame = None
  BY <1>2 DEF MipiIInv, UnitInv, Idle
<1>5. framebuffer_semaphore_' = 1
  BY <1>4 DEF WriteCompleteRelease
<1>6. s_write_callback # None /\ s_current_write_buffer = held[Main]
  BY <1>2 DEF MipiIInv, SlotInv, Writing
<1>7. crashed' = FALSE
  BY <1>6 DEF WriteCompleteRelease
<1>8. DeviceTypeOK'
  <2>1. crashed' \in BOOLEAN
    BY <1>7
  <2> QED BY <1>2, <1>3, <1>5, <2>1, MipiTypes DEF DeviceTypeOK, lifecycle, Places
<1>9. TypeOK'
  BY <1>8 DEF MipiIInv, TypeOK, slots, picture
<1>10. TaskInv'
  BY <1>2, <1>3 DEF MipiIInv, TaskInv, Writing, Drawing, Idle, FirstUse
<1>11. UnitInv'
  <2>1. appPc # "init"
    BY <1>2 DEF MipiIInv, TaskInv, Idle
  <2> QED BY <1>2, <1>3, <1>4, <2>1 DEF UnitInv, Drawing
<1>12. CountInv'
  BY <1>2, <1>3 DEF MipiIInv, CountInv, InUseCount, LostCount
<1>13. SlotInv' /\ PictureInv'
  BY <1>2, <1>3
     DEF MipiIInv, SlotInv, PictureInv, SlotsTogether, SendsWholeFrames, slots,
         picture, dsiVars, Writing
<1> QED
  BY <1>1, <1>7, <1>9, <1>10, <1>11, <1>12, <1>13 DEF MipiIInv

LEMMA CalledBack ==
  ASSUME MipiIInv, Running, WriteCompleteCallback(Main), Complete(held[Main], FALSE),
         InWrite, WriteReturns,
         UNCHANGED <<dsiVars, picture>>
  PROVE  MipiIInv'
<1> USE MainProperties
<1>1. DsiIInv'
  BY DsiStepInv DEF DsiStep, MipiIInv
<1>2. pc[Main] = "callback" /\ pc'[Main] = Idle /\ pc' \in [Threads -> Places]
  BY MainGoto, MipiTypes DEF WriteCompleteCallback, Places
<1>3. /\ s_current_write_buffer' = None /\ s_write_callback' = None
      /\ held' = [held EXCEPT ![Main] = None]
      /\ UNCHANGED <<lifecycle, framebuffer_semaphore_, video_mempool_, frame, crashed>>
  BY DEF WriteCompleteCallback
<1>4. held'[Main] = None /\ held' \in [Threads -> Buffers \cup {None}]
  BY <1>3, MipiTypes DEF DeviceTypeOK
<1>5. held[Main] # None /\ held[Main] \in Buffers \cup {None} /\ frame = None
      /\ "setFrameBuffer" \in MayFail
  BY <1>2, HeldMain, MipiTypes DEF MipiIInv, TaskInv, UnitInv, Writing, Idle
<1>6. DeviceTypeOK'
  BY <1>2, <1>3, <1>4, MipiTypes DEF DeviceTypeOK, lifecycle, Places
<1>7. /\ s_write_framebuffer' = None /\ shown' \in 0..FrameIds
      /\ ~device_callback' /\ ~driver_callback'
      /\ device_callback' \in BOOLEAN /\ driver_callback' \in BOOLEAN
      /\ s_write_framebuffer = None => aborted' = NoAssertion
      /\ s_write_framebuffer # None => aborted' = OfStatus
  <2>1. CASE s_write_framebuffer = None
    <3>1. UNCHANGED <<slots, shown, aborted>>
      BY <2>1 DEF Complete
    <3>2. ~device_callback /\ driver_callback = device_callback
      BY <2>1 DEF MipiIInv, SlotInv, SlotsTogether
    <3>3. device_callback' \in BOOLEAN /\ driver_callback' \in BOOLEAN
      <4>1. device_callback \in BOOLEAN /\ driver_callback \in BOOLEAN
        BY Zenon DEF MipiIInv, TypeOK
      <4> QED BY <3>1, <4>1 DEF slots
    <3>4. shown' \in 0..FrameIds
      BY <3>1 DEF MipiIInv, TypeOK
    <3>5. s_write_framebuffer' = None /\ aborted' = NoAssertion
      BY <2>1, <3>1 DEF Running, slots
    <3>6. ~device_callback' /\ ~driver_callback'
      BY <3>1, <3>2 DEF slots
    <3> QED BY <2>1, <3>3, <3>4, <3>5, <3>6
  <2>2. CASE s_write_framebuffer # None
    <3>1. device_callback /\ driver_callback
      BY <2>2 DEF MipiIInv, SlotInv, SlotsTogether
    <3>2. /\ s_write_framebuffer' = None /\ shown' = content[held[Main]]
          /\ aborted' = OfStatus
      BY <2>2, <3>1 DEF Complete
    <3>3. device_callback' = FALSE /\ driver_callback' = FALSE
      BY <2>2 DEF Complete
    <3>4. shown' \in 0..FrameIds
      BY <1>5, <3>2 DEF MipiIInv, TypeOK
    <3> QED BY <2>2, <3>2, <3>3, <3>4
  <2> QED BY <2>1, <2>2
<1>8. TypeOK'
  <2>1. aborted' \in {NoAssertion, OfStatus}
    BY <1>7
  <2> QED BY <1>6, <1>7, <2>1 DEF MipiIInv, TypeOK, picture
<1>9. TaskInv'
  BY <1>2, <1>4 DEF TaskInv, Writing, Drawing, Idle, FirstUse, WriteReturns
<1>10. UnitInv'
  BY <1>2, <1>3, <1>5 DEF UnitInv, Idle, Drawing, WriteReturns
<1>11. CountInv'
  <2> SUFFICES ASSUME aborted' = NoAssertion
               PROVE  Len(video_mempool_') + InUseCount' + LostCount' >= NumBuffers
    BY DEF CountInv
  <2>1. s_write_framebuffer = None
    BY <1>7 DEF NoAssertion, OfStatus
  <2>2. appPc = "first writing"
    BY <2>1 DEF MipiIInv, SlotInv, InWrite
  <2>3. InUseCount = 1 /\ LostCount = 0
    BY <1>5, <2>2 DEF InUseCount, LostCount
  <2>4. InUseCount' = 0
    BY <1>3, <1>4, <1>5 DEF InUseCount
  <2>5. LostCount' = 1
    BY <1>5, <2>2 DEF LostCount, WriteReturns
  <2>6. Len(video_mempool_) + 1 + 0 >= NumBuffers
    BY <2>2, <2>3 DEF MipiIInv, CountInv, Running
  <2>7. Len(video_mempool_) \in Nat /\ NumBuffers \in Nat /\ video_mempool_' = video_mempool_
    BY <1>3, DeviceAssumption, MipiTypes DEF DeviceTypeOK
  <2> QED BY ONLY <2>4, <2>5, <2>6, <2>7
<1>12. SlotInv'
  BY <1>2, <1>3, <1>5, <1>7 DEF SlotInv, SlotsTogether, Writing, Idle, WriteReturns
<1>13. PictureInv'
  BY <1>2, <1>3, <1>5
     DEF MipiIInv, PictureInv, SendsWholeFrames, picture, dsiVars, Writing, Idle,
         WriteReturns
<1>14. ~crashed' /\ aborted' \in {NoAssertion, OfStatus}
  BY <1>3, <1>7 DEF MipiIInv
<1> QED
  BY <1>1, <1>8, <1>9, <1>10, <1>11, <1>12, <1>13, <1>14 DEF MipiIInv

LEMMA WriteStepsStep ==
  ASSUME MipiIInv, Running, WriteSteps
  PROVE  MipiIInv'
<1>0. /\ UNCHANGED <<dsiVars, picture>> /\ InWrite
      /\ appPc' = IF pc'[Main] # Idle THEN appPc
                  ELSE IF appPc = "releasing" THEN "get" ELSE "enable"
  BY DEF WriteSteps, InWrite
<1>1. CASE SetFrameBufferFails(Main) /\ UNCHANGED <<slots, shown, aborted>>
  <2>1. pc'[Main] = "complete"
    BY <1>1, MainGoto, MipiTypes DEF SetFrameBufferFails, Places, Calling
  <2> QED BY <1>0, <1>1, <2>1, WriteRefused DEF Idle
<1>2. CASE WriteCompleteRelease(Main) /\ UNCHANGED <<slots, shown, aborted>>
  <2>1. pc'[Main] = "callback"
    BY <1>2, MainGoto, MipiTypes DEF WriteCompleteRelease, Places, Calling
  <2> QED BY <1>0, <1>2, <2>1, ReleasedUnit DEF Idle
<1>3. CASE WriteCompleteCallback(Main) /\ Complete(held[Main], FALSE)
  <2>1. pc'[Main] = Idle
    BY <1>3, MainGoto, MipiTypes DEF WriteCompleteCallback, Places
  <2> QED BY <1>0, <1>3, <2>1, CalledBack DEF WriteReturns
<1>4. CASE SetFrameBuffer(Main) /\ UNCHANGED <<slots, shown, aborted>>
  <2>1. pc'[Main] = Idle
    BY <1>4, MainGoto, MipiTypes DEF SetFrameBuffer, Places
  <2> QED BY <1>0, <1>4, <2>1, WriteTaken DEF WriteReturns
<1> QED BY <1>1, <1>2, <1>3, <1>4 DEF WriteSteps

(* The steps of the controller that leave the device alone: a tearing-      *)
(* effect interrupt, and the end of a packet that is not the last.          *)
LEMMA SendingOnly ==
  ASSUME MipiIInv, DsiStep, transferring' => frame # None,
         UNCHANGED <<deviceVars, appPc, slots, picture, shown, aborted>>
  PROVE  MipiIInv'
<1>1. DsiIInv'
  BY DsiStepInv DEF MipiIInv
<1>2. DeviceTypeOK'
  BY MipiTypes DEF deviceVars, lifecycle, DeviceTypeOK
<1>3. TypeOK'
  BY <1>2 DEF MipiIInv, TypeOK, slots, picture
<1>4. TaskInv' /\ UnitInv'
  BY DEF MipiIInv, TaskInv, UnitInv, deviceVars
<1>5. CountInv'
  BY DEF MipiIInv, CountInv, InUseCount, LostCount, deviceVars
<1>6. SlotInv' /\ PictureInv'
  BY DEF MipiIInv, SlotInv, PictureInv, SlotsTogether, SendsWholeFrames, deviceVars,
     slots, picture
<1> QED BY <1>1, <1>3, <1>4, <1>5, <1>6 DEF MipiIInv, deviceVars

LEMMA TearingEffectStep ==
  ASSUME MipiIInv, TearingEffect
  PROVE  MipiIInv'
<1>1. frame # None /\ \E s \in Statuses : DSI_MemWrite(FrameBytes, s)
      /\ UNCHANGED <<deviceVars, appPc, slots, picture, shown, aborted>>
  BY DEF TearingEffect
<1>2. DsiStep
  BY <1>1, MipiAssumption DEF DsiStep
<1> QED BY <1>1, <1>2, SendingOnly

(* The end of the last packet. *)
LEMMA FrameSent ==
  ASSUME MipiIInv, Running, NEW s \in Statuses, MemoryDone(s), BufferSwitchOff,
         Complete(frame, TRUE), UNCHANGED <<appPc, picture>>
  PROVE  MipiIInv'
<1> USE MainProperties
<1>1. DsiIInv'
  BY DsiStepInv DEF DsiStep, MipiIInv
<1>2. /\ frame # None /\ frame' = None
      /\ video_mempool_' = Append(video_mempool_, frame)
      /\ s_current_write_buffer' = None /\ s_write_callback' = None
      /\ UNCHANGED <<lifecycle, pc, held>>
  BY DEF BufferSwitchOff
<1>3. framebuffer_semaphore_ = 0 /\ pc[Main] \in {Idle, "acquire"}
      /\ s_write_callback # None /\ s_current_write_buffer = frame
  BY <1>2 DEF MipiIInv, UnitInv, SlotInv
<1>4. framebuffer_semaphore_' = 1
  BY <1>3 DEF BufferSwitchOff
<1>5. crashed' = FALSE
  BY <1>3 DEF BufferSwitchOff
<1>6. held[Main] = None /\ appPc \notin {"init", "releasing", "release"}
  BY <1>2, <1>3 DEF MipiIInv, TaskInv, UnitInv, Writing, Drawing, Idle
<1>7. /\ video_mempool_' \in Seq(Buffers)
      /\ Len(video_mempool_') = Len(video_mempool_) + 1
      /\ Len(video_mempool_) \in Nat
  BY <1>2, MipiTypes, AppendProperties DEF DeviceTypeOK
<1>8. DeviceTypeOK'
  <2>1. crashed' \in BOOLEAN
    BY <1>5
  <2> QED BY <1>2, <1>4, <1>7, <2>1, MipiTypes DEF DeviceTypeOK, lifecycle
<1>9. /\ s_write_framebuffer' = None /\ shown' \in 0..FrameIds
      /\ ~device_callback' /\ ~driver_callback'
      /\ device_callback' \in BOOLEAN /\ driver_callback' \in BOOLEAN
      /\ aborted' = NoAssertion
  <2>1. CASE s_write_framebuffer = None
    <3>1. UNCHANGED <<slots, shown, aborted>>
      BY <2>1 DEF Complete
    <3>2. ~device_callback /\ driver_callback = device_callback
      BY <2>1 DEF MipiIInv, SlotInv, SlotsTogether
    <3>3. device_callback' \in BOOLEAN /\ driver_callback' \in BOOLEAN
      <4>1. device_callback \in BOOLEAN /\ driver_callback \in BOOLEAN
        BY Zenon DEF MipiIInv, TypeOK
      <4> QED BY <3>1, <4>1 DEF slots
    <3>4. shown' \in 0..FrameIds
      BY <3>1 DEF MipiIInv, TypeOK
    <3>5. s_write_framebuffer' = None /\ aborted' = NoAssertion
      BY <2>1, <3>1 DEF Running, slots
    <3>6. ~device_callback' /\ ~driver_callback'
      BY <3>1, <3>2 DEF slots
    <3> QED BY <3>3, <3>4, <3>5, <3>6
  <2>2. CASE s_write_framebuffer # None
    <3>1. device_callback /\ driver_callback
      BY <2>2 DEF MipiIInv, SlotInv, SlotsTogether
    <3>2. /\ s_write_framebuffer' = None /\ shown' = content[frame]
          /\ aborted' = NoAssertion
      BY <2>2, <3>1 DEF Complete
    <3>3. device_callback' = FALSE /\ driver_callback' = FALSE
      BY <2>2 DEF Complete
    <3>4. frame \in Buffers
      BY <1>2, MipiTypes DEF DeviceTypeOK
    <3>5. shown' \in 0..FrameIds
      BY <3>2, <3>4 DEF MipiIInv, TypeOK
    <3> QED BY <3>2, <3>3, <3>5
  <2> QED BY <2>1, <2>2
<1>10. TypeOK'
  <2>1. aborted' \in {NoAssertion, OfStatus}
    BY <1>9
  <2> QED BY <1>8, <1>9, <2>1 DEF MipiIInv, TypeOK, picture
<1>11. TaskInv'
  BY <1>2 DEF MipiIInv, TaskInv
<1>12. UnitInv'
  BY <1>2, <1>3, <1>6 DEF UnitInv, Idle, Drawing
<1>13. CountInv'
  <2> SUFFICES ASSUME appPc \notin {"init", "failed"}
               PROVE  Len(video_mempool_') + InUseCount' + LostCount' >= NumBuffers
    BY DEF CountInv
  <2>1. InUseCount = 1 /\ InUseCount' = 0 /\ LostCount' = LostCount
    BY <1>2, <1>6 DEF InUseCount, LostCount
  <2>2. Len(video_mempool_) + InUseCount + LostCount >= NumBuffers
    BY DEF MipiIInv, CountInv, Running
  <2>3. LostCount = 0 \/ LostCount = 1
    BY DEF LostCount
  <2>4. NumBuffers \in Nat
    BY DeviceAssumption
  <2> QED BY ONLY <1>7, <2>1, <2>2, <2>3, <2>4
<1>14. SlotInv'
  BY <1>2, <1>3, <1>6, <1>9 DEF SlotInv, SlotsTogether, Writing, Idle
<1>15. PictureInv'
  <2>1. ~transferring'
    BY DEF MemoryDone, SendChunck, Fail, Success
  <2> QED
    BY <1>2, <1>3, <1>6, <2>1
       DEF MipiIInv, PictureInv, SendsWholeFrames, picture, Writing, Idle
<1> QED
  BY <1>1, <1>5, <1>9, <1>10, <1>11, <1>12, <1>13, <1>14, <1>15 DEF MipiIInv

LEMMA PacketStep ==
  ASSUME MipiIInv, Running, Packet
  PROVE  MipiIInv'
<1>0. UNCHANGED <<appPc, picture>>
  BY DEF Packet
<1>1. CASE NextChunck /\ UNCHANGED <<deviceVars, slots, shown, aborted>>
  <2>1. frame # None
    BY <1>1 DEF NextChunck, MipiIInv, PictureInv, SendsWholeFrames
  <2> QED BY <1>0, <1>1, <2>1, SendingOnly DEF DsiStep
<1>2. CASE /\ \E s \in Statuses : MemoryDone(s)
           /\ BufferSwitchOff /\ Complete(frame, TRUE)
  BY <1>0, <1>2, FrameSent
<1>3. CASE /\ TransfersMayFail /\ MemoryDone(Fail)
           /\ UNCHANGED <<deviceVars, slots, shown, aborted>>
  <2>1. frame # None
    BY <1>3 DEF MemoryDone, MipiIInv, PictureInv, SendsWholeFrames
  <2>2. DsiStep
    BY <1>3 DEF DsiStep, Statuses
  <2> QED BY <1>0, <1>3, <2>1, <2>2, SendingOnly
<1> QED BY <1>1, <1>2, <1>3 DEF Packet

LEMMA MipiStepInv ==
  ASSUME MipiIInv, EnoughBuffers, [Next]_vars
  PROVE  MipiIInv'
<1>1. CASE Next
  <2>1. Running
    BY <1>1 DEF Next
  <2> QED
    BY <1>1, <2>1, InitDeviceStep, WriteFirstFrameStep, WriteStepsStep,
       EnableLayerStep, GetFrameStep, FillStep, DrawFrameStep, ReleaseFrameStep,
       TearingEffectStep, PacketStep
       DEF Next, MainTask
<1>2. CASE UNCHANGED vars
  <2>1. UNCHANGED dsiVars /\ UNCHANGED <<deviceVars, appPc, slots, picture, shown, aborted>>
    BY <1>2 DEF vars
  <2>2. transferring' => frame # None
    BY <2>1 DEF MipiIInv, PictureInv, SendsWholeFrames, dsiVars
  <2> QED BY <2>1, <2>2, SendingOnly DEF DsiStep
<1> QED BY <1>1, <1>2

-----------------------------------------------------------------------------
(* A write carries the area whole and in order or does not succeed, and no  *)
(* failure leaves the ongoing flag stuck: whatever the pipeline does, for   *)
(* areas and packets of every length.                                       *)
THEOREM MemWriteCorrect == Spec => []DsiInv
<1>1. MipiInit => DsiIInv
  BY DsiInitInv DEF MipiInit
<1>2. DsiIInv /\ [Next]_vars => DsiIInv'
  <2> SUFFICES ASSUME DsiIInv, [Next]_vars PROVE DsiIInv'
    OBVIOUS
  <2>1. DsiStep
    BY MipiAssumption
       DEF Next, MainTask, InitDevice, WriteFirstFrame, WriteSteps, EnableLayer,
           GetFrame, Fill, DrawFrame, ReleaseFrame, TearingEffect, Packet, vars,
           DsiStep, Statuses
  <2> QED BY <2>1, DsiStepInv
<1>3. DsiIInv => DsiInv
  BY DsiIInvImplies
<1> QED BY <1>1, <1>2, <1>3, PTL DEF Spec

(* The callbacks find their way up through three files: the three slots     *)
(* fill and empty together, no assertion about them or about a null         *)
(* framebuffer fails, with any number of buffers, frames and packets and    *)
(* whatever call of the SDK fails.                                          *)
THEOREM CallbacksCorrect ==
  ASSUME EnoughBuffers
  PROVE  Spec => []CallbacksInv
<1>1. MipiInit => MipiIInv
  BY MipiInitInv
<1>2. MipiIInv /\ [Next]_vars => MipiIInv'
  BY MipiStepInv
<1>3. MipiIInv => CallbacksInv
  BY DEF MipiIInv, CallbacksInv, SlotInv, NoAbort, NoAssertion, OfStatus, OfNull,
     OfSlot
<1> QED BY <1>1, <1>2, <1>3, PTL DEF Spec

(* What the controller sends is whole and the last frame drawn.             *)
THEOREM WholeFramesSent ==
  ASSUME EnoughBuffers
  PROVE  Spec => []SendsWholeFrames
<1>1. MipiInit => MipiIInv
  BY MipiInitInv
<1>2. MipiIInv /\ [Next]_vars => MipiIInv'
  BY MipiStepInv
<1>3. MipiIInv => SendsWholeFrames
  BY DEF MipiIInv, PictureInv
<1> QED BY <1>1, <1>2, <1>3, PTL DEF Spec
=============================================================================
