-------------------------- MODULE PicoOutputProofs --------------------------
(***************************************************************************)
(* Theorems about the display of the Pico: the pixel pusher, the pipeline  *)
(* of application, pool and pusher, and the wire's end of it.              *)
(***************************************************************************)
EXTENDS PicoOutput, Induction, SequenceTheorems

(***************************************************************************)
(* With pixel doubling on, the first DMA channel claimed and an even       *)
(* width, as every Pico configuration has them: for framebuffers of every  *)
(* size each row reaches the display exactly twice and in order, and the   *)
(* assertion in WriteFramebuffer never fails.                              *)
(***************************************************************************)

PicoSetup ==
  /\ PixelDouble
  /\ ClaimedChannel = 0
  /\ Width % 2 = 0

-----------------------------------------------------------------------------
(* Arithmetic on row-major offsets. *)

LEMMA TimesMonotone ==
  ASSUME NEW a \in Nat, NEW b \in Nat, a <= b, NEW w \in Nat
  PROVE  a * w <= b * w
<1>1. PICK d \in Nat : b = a + d
  <2>1. b - a \in Nat /\ b = a + (b - a)
    OBVIOUS
  <2> QED BY <2>1
<1>2. b * w = a * w + d * w /\ d * w \in Nat /\ a * w \in Nat
  BY <1>1
<1> QED BY <1>2

(* An offset in row a lies before row b exactly when a < b. *)
LEMMA RowBefore ==
  ASSUME NEW a \in Nat, NEW b \in Nat, NEW w \in Nat, NEW c \in 0..(w - 1)
  PROVE  /\ a * w + c + 1 <= b * w => a < b
         /\ a < b => a * w + c + 1 <= b * w
<1>0. a * w \in Nat /\ b * w \in Nat
  OBVIOUS
<1>1. ASSUME b <= a PROVE b * w < a * w + c + 1
  BY <1>0, <1>1, TimesMonotone
<1>2. ASSUME a < b PROVE a * w + c + 1 <= b * w
  <2>1. (a + 1) * w <= b * w
    BY <1>2, TimesMonotone
  <2>2. (a + 1) * w = a * w + w
    OBVIOUS
  <2> QED BY <2>1, <2>2, <1>0
<1> QED BY <1>0, <1>1, <1>2

(* Past its first part, a concatenation is its second part. *)
LEMMA ConcatTail ==
  ASSUME NEW S, NEW a \in Seq(S), NEW b \in Seq(S), NEW p \in Nat,
         p > Len(a), p <= Len(a) + Len(b)
  PROVE  (a \o b)[p] = b[p - Len(a)] /\ p - Len(a) \in 1..Len(b)
<1>1. Len(a) \in Nat /\ Len(b) \in Nat
  OBVIOUS
<1>2. p - Len(a) \in 1..Len(b)
  BY <1>1
<1> QED
  BY <1>1, <1>2, ConcatProperties

(* The pixels on the wire are those of the framebuffer with rows doubled. *)
Doubled(w) ==
  \A r \in Nat, c \in 0..(Width - 1) :
    r * Width + c + 1 <= Len(w) => w[r * Width + c + 1] = (r \div 2) * Width + c

Rows(s, n) == [k \in 1..(n * Width) |-> s * Width + k - 1]

(* After 2s + 1 rows, sending the rows from s on keeps the doubling: the    *)
(* first of them completes the pair s, the second begins the pair s + 1.    *)
LEMMA NextRowsDoubled ==
  ASSUME NEW s \in Nat, NEW n \in {1, 2}, NEW w \in Seq(Nat),
         Len(w) = (2 * s + 1) * Width, Doubled(w)
  PROVE  /\ w \o Rows(s, n) \in Seq(Nat)
         /\ Len(w \o Rows(s, n)) = (2 * s + 1 + n) * Width
         /\ Doubled(w \o Rows(s, n))
<1> DEFINE v == w \o Rows(s, n)
<1>0. Width \in Nat /\ Width > 0 /\ s * Width \in Nat /\ n * Width \in Nat
      /\ (2 * s + 1) * Width \in Nat
  BY PusherAssumption
<1>1. Rows(s, n) \in Seq(Nat) /\ Len(Rows(s, n)) = n * Width
  <2>1. \A k \in 1..(n * Width) : s * Width + k - 1 \in Nat
    BY <1>0
  <2> QED BY <2>1, <1>0 DEF Rows
<1>2. v \in Seq(Nat) /\ Len(v) = (2 * s + 1) * Width + n * Width
  <2>1. v \in Seq(Nat) /\ Len(v) = Len(w) + Len(Rows(s, n))
    BY <1>1, ConcatProperties
  <2> QED BY <2>1, <1>1
<1>3. (2 * s + 1) * Width + n * Width = (2 * s + 1 + n) * Width
  BY <1>0
<1>4. ASSUME NEW r \in Nat, NEW c \in 0..(Width - 1),
             r * Width + c + 1 <= Len(v)
      PROVE  v[r * Width + c + 1] = (r \div 2) * Width + c
  <2> DEFINE p == r * Width + c + 1
  <2>0. r * Width \in Nat /\ p \in Nat /\ p >= 1 /\ c \in Nat
    BY <1>0
  <2>1. CASE p <= Len(w)
    <3>1. v[p] = w[p]
      BY <2>0, <2>1, <1>1, ConcatProperties
    <3> QED BY <3>1, <2>1 DEF Doubled
  <2>2. CASE p > Len(w)
    <3>1. v[p] = Rows(s, n)[p - Len(w)] /\ p - Len(w) \in 1..(n * Width)
      <4>1. p \in Nat /\ p > Len(w) /\ p <= Len(w) + Len(Rows(s, n))
        BY <2>0, <2>2, <1>0, <1>1, <1>2, <1>4
      <4>2. v[p] = Rows(s, n)[p - Len(w)] /\ p - Len(w) \in 1..Len(Rows(s, n))
        BY ONLY <4>1, <1>1, ConcatTail, w \in Seq(Nat)
      <4> QED BY <4>2, <1>1
    <3>2. v[p] = s * Width + (p - (2 * s + 1) * Width) - 1
      BY <3>1 DEF Rows
    <3>3. r >= 2 * s + 1
      <4>1. 2 * s + 1 \in Nat /\ ~(r * Width + c + 1 <= (2 * s + 1) * Width)
        BY <2>0, <2>2, <1>0
      <4> QED BY <4>1, <1>0, RowBefore
    <3>4. r < 2 * s + 1 + n
      <4>1. 2 * s + 1 + n \in Nat
            /\ r * Width + c + 1 <= (2 * s + 1 + n) * Width
        BY <1>2, <1>3, <1>4
      <4> QED BY <4>1, <1>0, RowBefore
    <3>5. CASE r = 2 * s + 1
      <4>1. r \div 2 = s
        BY <3>5
      <4>2. v[p] = s * Width + c
        BY <3>2, <3>5, <1>0, <2>0
      <4> QED BY <4>1, <4>2
    <3>6. CASE r = 2 * s + 2
      <4>1. r \div 2 = s + 1
        BY <3>6
      <4>2. r * Width = (2 * s + 1) * Width + Width
            /\ (s + 1) * Width = s * Width + Width
        BY <3>6, <1>0
      <4>3. v[p] = s * Width + Width + c
        BY <3>2, <4>2, <1>0, <2>0
      <4> QED BY <4>1, <4>2, <4>3
    <3>7. r = 2 * s + 1 \/ r = 2 * s + 2
      <4>1. r \in Nat /\ s \in Nat
        OBVIOUS
      <4> QED BY <4>1, <3>3, <3>4
    <3> QED BY ONLY <3>5, <3>6, <3>7
  <2>3. Len(w) \in Nat
    OBVIOUS
  <2>4. p <= Len(w) \/ p > Len(w)
    BY ONLY <2>0, <2>3
  <2> QED BY ONLY <2>1, <2>2, <2>4
<1> QED BY <1>2, <1>3, <1>4 DEF Doubled

(* The first transfer is row 0. *)
LEMMA FirstRowDoubled ==
  /\ Rows(0, 1) \in Seq(Nat)
  /\ Len(Rows(0, 1)) = Width
  /\ Doubled(Rows(0, 1))
<1>0. Width \in Nat /\ Width > 0
  BY PusherAssumption
<1>1. Rows(0, 1) = [k \in 1..Width |-> k - 1]
  BY <1>0 DEF Rows
<1>2. Rows(0, 1) \in Seq(Nat) /\ Len(Rows(0, 1)) = Width
  BY <1>0, <1>1
<1>3. ASSUME NEW r \in Nat, NEW c \in 0..(Width - 1), r * Width + c + 1 <= Width
      PROVE  r = 0
  <2>1. r * Width + c + 1 <= 1 * Width
    BY <1>0, <1>3
  <2> QED BY <2>1, <1>0, RowBefore
<1>4. ASSUME NEW c \in 0..(Width - 1)
      PROVE  Rows(0, 1)[0 * Width + c + 1] = (0 \div 2) * Width + c
  BY <1>0, <1>1
<1> QED BY <1>2, <1>3, <1>4 DEF Doubled

-----------------------------------------------------------------------------
(* The transfers of the code are whole rows. *)

LEMMA CountsAreRows ==
  ASSUME PicoSetup
  PROVE  /\ 2 * ((Width * 2) \div 4) = Width
         /\ 2 * ((2 * Width) \div 4) = Width
         /\ 2 * ((2 * Width) \div 2) = 2 * Width
BY PusherAssumption DEF PicoSetup

LEMMA PixelsAreRows ==
  ASSUME PicoSetup, pixel_double_enabled_, NEW s \in Nat
  PROVE  /\ Pixels(0, (Width * 2) \div 4) = Rows(0, 1)
         /\ Pixels(s * Width, (2 * Width) \div 4) = Rows(s, 1)
         /\ Pixels(s * Width, (2 * Width) \div 2) = Rows(s, 2)
<1>0. Width \in Nat /\ 1 * Width = Width /\ 0 * Width = 0
  BY PusherAssumption
<1>1. Pixels(0, (Width * 2) \div 4) = [k \in 1..Width |-> 0 + k - 1]
  BY CountsAreRows DEF Pixels
<1>2. Pixels(s * Width, (2 * Width) \div 4)
        = [k \in 1..Width |-> s * Width + k - 1]
  BY CountsAreRows DEF Pixels
<1>3. Pixels(s * Width, (2 * Width) \div 2)
        = [k \in 1..(2 * Width) |-> s * Width + k - 1]
  BY CountsAreRows DEF Pixels
<1> QED BY <1>0, <1>1, <1>2, <1>3 DEF Rows

(* A transfer is under way, or its interrupt is pending. *)
Active == busy # {} \/ irqStatus # {}

(* The inductive invariant.  Its heart is the link between the three        *)
(* parties: while a transfer or its interrupt is outstanding the scanline   *)
(* is at most the height, so DmaIsBusy keeps the thread spinning, and once  *)
(* nothing is outstanding the callback has run.                             *)
PusherInv ==
  /\ PusherTypeOK
  /\ dma_channel = 0
  /\ busy \subseteq {0} /\ irqStatus \subseteq {0}
  /\ busy = {} \/ irqStatus = {}
  /\ pusherPc # "crashed"
  /\ pusherPc # "boot" => pixel_double_enabled_ /\ irqEnabled = {0}
  /\ pusherPc = "boot" => s_draw_callback = None /\ irqEnabled = {} /\ ~Active
  /\ Active => /\ pusherPc \in {"idle", "spin"}
               /\ s_draw_callback # None
               /\ s_framebuffer.data # None
               /\ s_framebuffer.height = Height
               /\ current_scanline \in 0..Height
               /\ current_scanline < Height =>
                    Len(wire) = (2 * current_scanline + 1) * Width
               /\ current_scanline = Height => Len(wire) = 2 * Height * Width
  /\ ~Active => s_draw_callback = None \/ pusherPc = "start"
  /\ pusherPc \in {"spin", "latch"} => arg # None
  /\ pusherPc = "start" => /\ s_draw_callback # None
                           /\ s_framebuffer.data # None
                           /\ s_framebuffer.height = Height
  /\ Len(wire) <= 2 * Height * Width
  /\ Doubled(wire)

LEMMA PusherInitInv == ASSUME PicoSetup, PusherInit PROVE PusherInv
<1>1. 2 * Height * Width \in Nat
  BY PusherAssumption
<1>2. Doubled(<<>>)
  <2>1. ASSUME NEW r \in Nat, NEW c \in 0..(Width - 1)
        PROVE  ~(r * Width + c + 1 <= Len(<<>>))
    <3>1. r * Width \in Nat
      BY PusherAssumption
    <3> QED BY <3>1
  <2> QED BY <2>1 DEF Doubled
<1>3. PusherTypeOK
  <2>1. s_framebuffer \in [data : Buffers \cup {None}, height : {0, Height}]
    BY DEF PusherInit
  <2>2. wire \in Seq(Nat) /\ dma_channel \in Channels /\ 240 \in Int
    BY PusherAssumption DEF PusherInit
  <2> QED BY <2>1, <2>2 DEF PusherInit, PusherTypeOK
<1> QED
  BY <1>1, <1>2, <1>3 DEF PusherInit, PusherInv, Active

LEMMA PusherStepInv ==
  ASSUME PicoSetup, PusherInv, [PusherNext]_pusherVars PROVE PusherInv'
<1> USE PusherAssumption
<1> USE DEF statics, hardware, members, thread
<1>0. Width \in Nat /\ Height \in Nat /\ 2 * Height * Width \in Nat
      /\ 2 * Height * Width = (2 * Height) * Width
  OBVIOUS
<1>1. CASE SetPixelDouble(PixelDouble)
  <2>1. pusherPc = "boot" /\ pusherPc' = "idle" /\ pixel_double_enabled_'
        /\ irqEnabled' = irqEnabled \cup {0} /\ irqStatus' = irqStatus \ {0}
        /\ UNCHANGED <<statics, busy, wire, write_mode_, arg>>
    BY <1>1 DEF SetPixelDouble, Goto, PicoSetup, PusherInv
  <2>2. irqEnabled' = {0} /\ irqStatus' = {} /\ busy' = {}
    BY <2>1 DEF PusherInv, Active, PusherTypeOK
  <2>3. PusherTypeOK'
    BY <2>1, <2>2, <1>1 DEF PusherInv, PusherTypeOK, SetPixelDouble, PicoSetup
  <2> QED
    BY <2>1, <2>2, <2>3 DEF PusherInv, Active, Doubled
<1>2. ASSUME NEW fb \in Buffers \ {s_framebuffer.data}, CallWriteFramebuffer(fb)
      PROVE  PusherInv'
  <2>1. PusherTypeOK'
    BY <1>2 DEF CallWriteFramebuffer, Goto, PusherInv, PusherTypeOK
  <2> QED
    BY <1>2, <2>1 DEF CallWriteFramebuffer, Goto, PusherInv, Active, Doubled
<1>3. CASE Spin
  <2>1. ~Active
    BY <1>3 DEF Spin, DmaIsBusy, Goto, PusherInv, PusherTypeOK
  <2>2. PusherTypeOK'
    BY <1>3 DEF Spin, Goto, PusherInv, PusherTypeOK
  <2> QED
    BY <1>3, <2>1, <2>2 DEF Spin, Goto, PusherInv, Active, Doubled
<1>4. CASE Latch
  <2>1. ~Active /\ s_draw_callback = None /\ pusherPc = "latch" /\ arg # None
    BY <1>4 DEF Latch, Goto, PusherInv
  <2>2. /\ pusherPc' = "start" /\ write_mode_' = TRUE
        /\ s_draw_callback' = Callback
        /\ s_framebuffer' = [data |-> arg, height |-> Height]
        /\ dma_channel' = 0 /\ arg' = None
        /\ UNCHANGED <<current_scanline, hardware, pixel_double_enabled_>>
    BY <1>4, <2>1 DEF Latch, Goto, PicoSetup
  <2>3. PusherTypeOK'
    BY <2>1, <2>2 DEF PusherInv, PusherTypeOK
  <2> QED
    BY <2>1, <2>2, <2>3 DEF PusherInv, Active, Doubled
<1>5. CASE Start
  <2>1. pusherPc = "start" /\ pixel_double_enabled_ /\ ~Active
        /\ s_framebuffer.data # None /\ s_framebuffer.height = Height
        /\ busy = {} /\ irqStatus = {}
    BY <1>5 DEF Start, Goto, PusherInv, Active
  <2>2. /\ pusherPc' = "idle" /\ current_scanline' = 0
        /\ wire' = Rows(0, 1)
        /\ busy' = {0}
        /\ UNCHANGED <<s_framebuffer, s_draw_callback, dma_channel,
                       irqStatus, irqEnabled, members, arg>>
    BY <1>5, <2>1, PixelsAreRows DEF Start, Goto, PicoSetup
  <2>3. Rows(0, 1) \in Seq(Nat) /\ Len(wire') = Width /\ Doubled(wire')
    BY <2>2, FirstRowDoubled
  <2>4. s_draw_callback # None
    BY <2>1 DEF PusherInv
  <2>5. Width <= 2 * Height * Width /\ (2 * 0 + 1) * Width = Width
    <3>1. 1 <= 2 * Height /\ 2 * Height \in Nat
      BY <1>0
    <3>2. 1 * Width <= (2 * Height) * Width
      BY <1>0, <3>1, TimesMonotone
    <3> QED BY <1>0, <3>2
  <2>6. PusherTypeOK'
    BY <2>1, <2>2, <2>3 DEF PusherInv, PusherTypeOK
  <2> QED
    BY <2>1, <2>2, <2>3, <2>4, <2>5, <2>6, <1>0 DEF PusherInv, Active
<1>6. ASSUME NEW ch \in Channels, DmaComplete(ch) PROVE PusherInv'
  <2>1. ch = 0 /\ busy = {0} /\ irqStatus = {} /\ Active
    BY <1>6 DEF DmaComplete, PusherInv, Active
  <2>2. busy' = {} /\ irqStatus' = {0}
        /\ UNCHANGED <<statics, irqEnabled, wire, members, thread>>
    BY <1>6, <2>1 DEF DmaComplete
  <2>3. PusherTypeOK'
    BY <2>2 DEF PusherInv, PusherTypeOK
  <2> QED
    BY <2>1, <2>2, <2>3 DEF PusherInv, Active, Doubled
<1>irq. ASSUME Irq
        PROVE  /\ irqStatus = {0} /\ busy = {} /\ Active /\ irqStatus' = {}
               /\ current_scanline \in 0..Height
               /\ s_framebuffer.height = Height
               /\ s_draw_callback # None
  BY <1>irq DEF Irq, PusherInv, Active
<1>7. CASE IrqFrameDone
  <2>1. Irq /\ s_draw_callback' = None /\ UNCHANGED <<busy, wire>>
    BY <1>7 DEF IrqFrameDone
  <2>2. /\ irqStatus' = {} /\ busy' = {} /\ Active
        /\ pusherPc \in {"idle", "spin"}
        /\ UNCHANGED <<dma_channel, irqEnabled, members, thread, wire>>
        /\ current_scanline' \in Int
    BY <2>1, <1>irq DEF Irq, PusherInv
  <2>3. s_framebuffer' = [s_framebuffer EXCEPT !.data = None]
    BY <1>7, <2>1, <1>irq DEF IrqFrameDone
  <2>4. PusherTypeOK'
    BY <2>1, <2>2, <2>3 DEF PusherInv, PusherTypeOK
  <2> QED
    BY <2>1, <2>2, <2>4 DEF PusherInv, Active, Doubled
<1>8. CASE IrqNextRows
  <2> DEFINE t == current_scanline
  <2>0. Irq /\ t \in Nat /\ dma_channel = 0 /\ s_framebuffer.height = Height
        /\ busy = {}
    BY <1>8, <1>irq DEF IrqNextRows, PusherInv
  <2>1. Irq /\ t \in Nat /\ t + 1 <= Height /\ busy' = {0}
        /\ current_scanline' = t + 1
        /\ UNCHANGED <<s_framebuffer, s_draw_callback, dma_channel,
                       irqEnabled, members, thread>>
    BY <1>8, <2>0 DEF IrqNextRows, Irq
  <2>2. /\ irqStatus' = {} /\ pusherPc \in {"idle", "spin"}
        /\ s_draw_callback # None /\ s_framebuffer.data # None
        /\ s_framebuffer.height = Height /\ pixel_double_enabled_
        /\ Len(wire) = (2 * t + 1) * Width /\ wire \in Seq(Nat)
        /\ Doubled(wire)
    BY <2>1, <1>irq DEF PusherInv, PusherTypeOK
  <2>3. ASSUME NEW n \in {1, 2}, wire' = wire \o Rows(t, n)
        PROVE  /\ wire' \in Seq(Nat) /\ Doubled(wire')
               /\ Len(wire') = (2 * t + 1 + n) * Width
    BY <2>1, <2>2, <2>3, NextRowsDoubled
  <2>4. t + 1 - 1 = t /\ ((2 * Height + 1) \div 2) = Height
    BY <2>1, <1>0
  <2>w. wire' = wire \o Pixels((t + 1 - 1) * Width,
                               IF t + 1 = (2 * Height + 1) \div 2
                               THEN (2 * Width) \div 4 ELSE (2 * Width) \div 2)
    BY <1>8, <2>0 DEF IrqNextRows
  <2>5. CASE t + 1 = Height
    <3>1. wire' = wire \o Rows(t, 1)
      BY <2>w, <2>1, <2>2, <2>4, <2>5, PixelsAreRows
    <3>2. 2 * t + 1 + 1 = 2 * Height
      BY <2>1, <2>5, <1>0
    <3>3. wire' \in Seq(Nat) /\ Doubled(wire') /\ Len(wire') = 2 * Height * Width
      BY <3>1, <3>2, <2>3, <1>0
    <3>4. PusherTypeOK'
      BY <2>1, <2>2, <3>3 DEF PusherInv, PusherTypeOK
    <3> QED
      BY <2>1, <2>2, <2>5, <3>3, <3>4, <1>0 DEF PusherInv, Active
  <2>6. CASE t + 1 < Height
    <3>1. wire' = wire \o Rows(t, 2)
      <4>1. t + 1 # (2 * Height + 1) \div 2
        BY <2>1, <2>4, <2>6, <1>0
      <4>2. wire' = wire \o Pixels(t * Width, (2 * Width) \div 2)
        BY <2>w, <2>4, <4>1
      <4> QED BY <4>2, <2>1, <2>2, PixelsAreRows
    <3>2. 2 * t + 1 + 2 = 2 * (t + 1) + 1 /\ 2 * (t + 1) + 1 <= 2 * Height
          /\ 2 * (t + 1) + 1 \in Nat /\ 2 * Height \in Nat
      BY <2>1, <2>6, <1>0
    <3>3. wire' \in Seq(Nat) /\ Doubled(wire')
          /\ Len(wire') = (2 * (t + 1) + 1) * Width
      BY <3>1, <3>2, <2>3
    <3>4. Len(wire') <= 2 * Height * Width
      BY <3>2, <3>3, <1>0, TimesMonotone
    <3>5. PusherTypeOK'
      BY <2>1, <2>2, <3>3 DEF PusherInv, PusherTypeOK
    <3> QED
      BY <2>1, <2>2, <2>6, <3>3, <3>4, <3>5, <1>0 DEF PusherInv, Active
  <2> QED BY <2>1, <2>5, <2>6, <1>0
<1>9. CASE UNCHANGED pusherVars
  BY <1>9 DEF pusherVars, PusherInv, PusherTypeOK, Active, Doubled
<1> QED
  BY <1>1, <1>2, <1>3, <1>4, <1>5, <1>6, <1>7, <1>8, <1>9
     DEF PusherNext, WriteFramebuffer

LEMMA PusherAlways == ASSUME PicoSetup PROVE PusherSpec => []PusherInv
<1>1. PusherInit => PusherInv
  BY PusherInitInv
<1>2. PusherInv /\ [PusherNext]_pusherVars => PusherInv'
  BY PusherStepInv
<1> QED
  BY <1>1, <1>2, PTL DEF PusherSpec

(* The pusher's variables keep their types. *)
THEOREM PusherTypeCorrect ==
  ASSUME PicoSetup PROVE PusherSpec => []PusherTypeOK
<1>1. PusherInv => PusherTypeOK
  BY DEF PusherInv
<1> QED
  BY <1>1, PusherAlways, PTL

(* For every even width and every height, the pixels on the wire are at any *)
(* moment a prefix of the framebuffer with each row sent twice.             *)
THEOREM RowsAlwaysDoubled ==
  ASSUME PicoSetup PROVE PusherSpec => []RowsDoubled
<1>1. PusherInv => RowsDoubled
  <2>1. \A r \in 0..(2 * Height - 1) : r \in Nat
    BY PusherAssumption
  <2> QED BY <2>1 DEF PusherInv, RowsDoubled, Doubled
<1> QED
  BY <1>1, PusherAlways, PTL

(* PW_ASSERT(s_draw_callback == nullptr) never fails. *)
THEOREM AssertionNeverFails ==
  ASSUME PicoSetup PROVE PusherSpec => []CallbackSlotFree
<1>1. PusherInv => CallbackSlotFree
  BY DEF PusherInv, CallbackSlotFree
<1> QED
  BY <1>1, PusherAlways, PTL

(* The callback runs after the last of the 2 * Height rows, with the DMA    *)
(* idle.                                                                    *)
THEOREM CallbackIsLast ==
  ASSUME PicoSetup PROVE PusherSpec => CallbackAfterWholeFrame
<1>1. ASSUME PusherInv, [PusherNext]_pusherVars,
             s_draw_callback # None, s_draw_callback' = None
      PROVE  Len(wire) = 2 * Height * Width /\ busy' = {}
  <2> USE DEF statics, hardware, members, thread
  <2>1. IrqFrameDone
    <3>1. ~Latch
      BY <1>1 DEF Latch, PusherAssumption, PusherInv, Active, Goto
    <3> QED
      BY <1>1, <3>1
         DEF PusherNext, WriteFramebuffer, SetPixelDouble,
             CallWriteFramebuffer, Spin, Start, DmaComplete, IrqNextRows,
             pusherVars
  <2>2. Active /\ busy = {} /\ current_scanline \in 0..Height
        /\ current_scanline + 1 > Height
    BY <1>1, <2>1 DEF IrqFrameDone, Irq, PusherInv, Active
  <2>3. current_scanline = Height
    BY <2>2, PusherAssumption
  <2> QED
    BY <1>1, <2>1, <2>2, <2>3 DEF PusherInv, IrqFrameDone
<1> QED
  BY <1>1, PusherAlways, PTL DEF PusherSpec, CallbackAfterWholeFrame

(* While the DMA reads a framebuffer it is neither moved away nor replaced. *)
THEOREM FrameHeld ==
  ASSUME PicoSetup PROVE PusherSpec => FrameHeldWhileSent
<1>1. ASSUME PusherInv, [PusherNext]_pusherVars, busy # {}
      PROVE  s_framebuffer.data # None /\ s_framebuffer' = s_framebuffer
  <2> USE DEF statics, hardware, members, thread
  <2>1. Active /\ irqStatus = {} /\ s_framebuffer.data # None
    BY <1>1 DEF PusherInv, Active
  <2>2. ~Latch /\ ~IrqFrameDone
    BY <1>1, <2>1 DEF Latch, IrqFrameDone, Irq, Goto, PusherInv
  <2> QED
    BY <1>1, <2>1, <2>2
       DEF PusherNext, WriteFramebuffer, SetPixelDouble,
           CallWriteFramebuffer, Spin, Start, DmaComplete, IrqNextRows,
           pusherVars
<1> QED
  BY <1>1, PusherAlways, PTL DEF PusherSpec, FrameHeldWhileSent

(***************************************************************************)
(* The Pico pipeline in the set-up of its boards (PicoSetup): for any      *)
(* number of framebuffers of any size, it runs the pool as one client that *)
(* returns buffers in order and the pusher as PusherSpec does.  Hence the  *)
(* theorems about those carry over, and with them no buffer is lost and    *)
(* frames are shown whole, once each and in order.                         *)
(***************************************************************************)
(* The pool as its proofs take it: one client, buffers back in order. *)
Ordered ==
  INSTANCE FramebufferPoolProofs WITH Threads <- {Main}, InOrder <- TRUE

-----------------------------------------------------------------------------
(* Where the main loop, the pool and the pusher are, relative to each       *)
(* other, and who has a framebuffer.                                        *)
StepsInv ==
  /\ appPc \in {"init", "get", "getting", "fill", "draw", "release", "releasing"}
  /\ pusherPc = "boot" <=> appPc = "init"
  /\ pusherPc \in {"spin", "latch", "start"} <=> appPc = "releasing"
  /\ pc[Main] # "idle" <=> appPc = "getting"

HoldersInv ==
  /\ s_framebuffer.data # None <=> s_draw_callback # None
  /\ arg # None <=> pusherPc \in {"spin", "latch"}
  /\ framebuffer \in Buffers \cup {None}
  /\ framebuffer # None <=> appPc \in {"fill", "draw", "release"}

(* The number of frames drawn and not shown is that of the whole frames     *)
(* held: the one being sent and the one waiting to be.                      *)
Waiting == arg # None \/ appPc = "release"
FramesInv ==
  /\ content \in [Buffers -> 0..FrameIds]
  /\ shown \in 0..(FrameIds - 1)
  /\ LET sent == IF s_framebuffer.data = None THEN shown ELSE NextFrame(shown)
     IN  drawn = IF Waiting THEN NextFrame(sent) ELSE sent
  /\ arg # None => content[arg] = drawn
  /\ appPc = "release" => content[framebuffer] = drawn

DisplayIInv ==
  /\ PusherInv
  /\ Ordered!ClientInv(Main)
  /\ StepsInv /\ HoldersInv /\ FramesInv
  /\ NoBufferLost
  /\ ShowsFramesInOrder

LEMMA OrderedAssumption == Ordered!PoolAssumption
BY PipelineAssumption DEF Ordered!PoolAssumption

-----------------------------------------------------------------------------
(* Who holds what. *)

LEMMA HeldOnce ==
  ASSUME NEW b \in Buffers PROVE Held(b) = <<b>> /\ Held(None) = <<>>
BY PusherAssumption DEF Held

(* The framebuffer being sent is the oldest that is out; the main loop's is *)
(* another one.                                                             *)
LEMMA SentIsOldest ==
  ASSUME DisplayIInv, s_framebuffer.data # None
  PROVE  /\ s_framebuffer.data \in Buffers
         /\ out # <<>> /\ out[1] = s_framebuffer.data
         /\ Tail(out) = Held(arg) \o Held(framebuffer)
         /\ \A k \in DOMAIN out : out[k] = s_framebuffer.data => k = 1
         /\ framebuffer # s_framebuffer.data
<1> DEFINE d == s_framebuffer.data
           rest == Held(arg) \o Held(framebuffer)
<1>1. d \in Buffers /\ arg \in Buffers \cup {None}
      /\ framebuffer \in Buffers \cup {None}
  BY DEF DisplayIInv, PusherInv, PusherTypeOK, HoldersInv
<1>2. Held(d) = <<d>> /\ Held(arg) \in Seq(Buffers)
      /\ Held(framebuffer) \in Seq(Buffers)
  BY <1>1 DEF Held
<1>3. out = <<d>> \o rest /\ rest \in Seq(Buffers) /\ <<d>> \in Seq(Buffers)
  BY <1>1, <1>2 DEF DisplayIInv, NoBufferLost
<1> HIDE DEF rest
<1>4. out \in Seq(Buffers) /\ out # <<>> /\ out[1] = d /\ Tail(out) = rest
  BY <1>1, <1>3
<1>5. Ordered!ExclusiveUse
  BY Ordered!ClientExclusive, OrderedAssumption DEF DisplayIInv
<1>6. ASSUME NEW k \in DOMAIN out, out[k] = d PROVE k = 1
  <2>1. 1 \in DOMAIN out
    BY <1>4
  <2> QED BY <1>4, <1>5, <1>6, <2>1 DEF Ordered!ExclusiveUse, Ordered!Positions
<1>7. framebuffer # d
  <2> SUFFICES ASSUME framebuffer = d PROVE FALSE
    OBVIOUS
  <2>1. arg = None
    BY <1>1, PusherAssumption DEF DisplayIInv, HoldersInv, StepsInv
  <2>2. rest = <<d>>
    BY <1>1, <2>1, PusherAssumption DEF rest, Held
  <2>3. out = <<d>> \o <<d>> /\ Len(<<d>>) = 1
    BY <1>3, <2>2
  <2>4. 2 \in DOMAIN out /\ out[2] = d
    BY <2>3, <1>3, <1>4, ConcatProperties
  <2> QED BY <2>4, <1>6
<1> QED BY <1>1, <1>4, <1>6, <1>7 DEF rest

-----------------------------------------------------------------------------
(* Every step is a step of the pool's one client, or leaves the pool alone. *)
LEMMA PoolStep ==
  ASSUME DisplayIInv, [Next]_vars PROVE [Ordered!Next]_(Ordered!vars)
<1> USE DEF Ordered!vars, pool
<1>1. CASE CommonInit
  BY <1>1 DEF CommonInit
<1>2. CASE GetFramebuffer
  <2>1. CASE Pool!CallGetFramebuffer(Main)
    BY <2>1 DEF Pool!CallGetFramebuffer, Ordered!CallGetFramebuffer, Pool!Goto,
                Ordered!Goto, Pool!Idle, Ordered!Idle, Ordered!Next
  <2>2. CASE Pool!Acquire(Main)
    BY <2>2 DEF Pool!Acquire, Ordered!Acquire, Pool!Goto, Ordered!Goto,
                Ordered!Next, Ordered!GetFramebuffer
  <2>3. CASE Pool!LoadIdx(Main)
    BY <2>3 DEF Pool!LoadIdx, Ordered!LoadIdx, Pool!Goto, Ordered!Goto,
                Ordered!Next, Ordered!GetFramebuffer
  <2>4. CASE Pool!StoreIdx(Main)
    BY <2>4 DEF Pool!StoreIdx, Ordered!StoreIdx, Pool!Goto, Ordered!Goto,
                Pool!Increment, Ordered!Increment,
                Ordered!Next, Ordered!GetFramebuffer
  <2>5. CASE Pool!CompareIdx(Main)
    BY <2>5 DEF Pool!CompareIdx, Ordered!CompareIdx, Pool!Goto, Ordered!Goto,
                Ordered!Next, Ordered!GetFramebuffer
  <2>6. CASE Pool!ResetIdx(Main)
    BY <2>6 DEF Pool!ResetIdx, Ordered!ResetIdx, Pool!Goto, Ordered!Goto,
                Ordered!Next, Ordered!GetFramebuffer
  <2>7. CASE Pool!ReturnFramebuffer(Main)
    BY <2>7 DEF Pool!ReturnFramebuffer, Ordered!ReturnFramebuffer, Pool!Goto,
                Ordered!Goto, Pool!Idle, Ordered!Idle,
                Ordered!Next, Ordered!GetFramebuffer
  <2> QED
    BY <1>2, <2>1, <2>2, <2>3, <2>4, <2>5, <2>6, <2>7 DEF GetFramebuffer
<1>3. CASE Fill \/ DrawFrame \/ ReleaseFramebuffer \/ Dma
  BY <1>3 DEF Fill, DrawFrame, ReleaseFramebuffer, Dma
<1>4. CASE IrqHandler
  <2>1. CASE UNCHANGED pool
    BY <2>1
  <2>2. CASE s_draw_callback # None /\ ~UNCHANGED pool
    <3>1. PICK k \in Pool!Positions :
            out[k] = s_framebuffer.data /\ Pool!ReleaseFramebuffer(k)
      BY <1>4, <2>2 DEF IrqHandler
    <3>2. k = 1
      BY <3>1, <2>2, SentIsOldest DEF DisplayIInv, HoldersInv, Pool!Positions
    <3>3. Ordered!ReleaseFramebuffer(1) /\ 1 \in Ordered!Positions
      BY <3>1, <3>2 DEF Pool!ReleaseFramebuffer, Ordered!ReleaseFramebuffer,
                        Pool!Positions, Ordered!Positions
    <3> QED BY <3>3 DEF Ordered!Next
  <2> QED BY <1>4, <2>1, <2>2 DEF IrqHandler
<1>5. CASE UNCHANGED vars
  BY <1>5 DEF vars
<1> QED
  BY <1>1, <1>2, <1>3, <1>4, <1>5 DEF Next, MainLoop

(* Every step is a step of the pusher, called with a framebuffer it does    *)
(* not hold, or leaves the pusher alone.                                    *)
LEMMA PusherStep ==
  ASSUME DisplayIInv, [Next]_vars PROVE [PusherNext]_pusherVars
<1>1. CASE CommonInit
  BY <1>1 DEF CommonInit, PusherNext
<1>2. CASE GetFramebuffer \/ Fill \/ DrawFrame
  BY <1>2 DEF GetFramebuffer, Fill, DrawFrame
<1>3. CASE ReleaseFramebuffer
  <2>1. CASE appPc = "release" /\ CallWriteFramebuffer(framebuffer)
    <3>1. framebuffer \in Buffers
      BY <2>1 DEF DisplayIInv, HoldersInv
    <3>2. framebuffer # s_framebuffer.data
      BY <3>1, SentIsOldest, PusherAssumption
    <3> QED BY <2>1, <3>1, <3>2 DEF PusherNext
  <2>2. CASE Spin \/ Latch \/ Start
    BY <2>2 DEF PusherNext, WriteFramebuffer
  <2> QED BY <1>3, <2>1, <2>2 DEF ReleaseFramebuffer, AppGoto
<1>4. CASE Dma \/ IrqHandler
  BY <1>4 DEF Dma, IrqHandler, PusherNext
<1>5. CASE UNCHANGED vars
  BY <1>5 DEF vars
<1> QED
  BY <1>1, <1>2, <1>3, <1>4, <1>5 DEF Next, MainLoop

-----------------------------------------------------------------------------
(* The part of the invariant that is about the pipeline itself. *)
PipelineInv ==
  StepsInv /\ HoldersInv /\ FramesInv /\ NoBufferLost /\ ShowsFramesInOrder

LEMMA NextFrameType ==
  ASSUME NEW n \in 0..(FrameIds - 1) PROVE NextFrame(n) \in 0..(FrameIds - 1)
BY PipelineAssumption DEF NextFrame

LEMMA InitIInv == ASSUME PicoSetup, Init PROVE DisplayIInv
<1>1. PusherInv
  BY PusherInitInv DEF Init
<1>2. Ordered!ClientInv(Main)
  <2>1. Ordered!Init
    BY DEF Init, Pool!Init, Ordered!Init, Pool!Idle, Ordered!Idle
  <2> QED BY <2>1, Ordered!ClientInit, OrderedAssumption
<1>3. StepsInv /\ HoldersInv
  BY PusherAssumption
     DEF Init, PusherInit, Pool!Init, Pool!Idle, StepsInv, HoldersInv
<1>4. FramesInv
  BY PipelineAssumption DEF Init, PusherInit, FramesInv, Waiting, Partial
<1>5. NoBufferLost /\ ShowsFramesInOrder
  BY DEF Init, PusherInit, Pool!Init, NoBufferLost, Held, ShowsFramesInOrder
<1> QED BY <1>1, <1>2, <1>3, <1>4, <1>5 DEF DisplayIInv

LEMMA CommonInitInv == ASSUME DisplayIInv, CommonInit PROVE PipelineInv'
<1>1. /\ appPc = "init" /\ appPc' = "get" /\ pusherPc = "boot"
      /\ pusherPc' = "idle"
      /\ UNCHANGED <<pool, framebuffer, content, drawn, shown>>
      /\ UNCHANGED <<s_framebuffer, s_draw_callback, arg>>
  BY DEF CommonInit, AppGoto, SetPixelDouble, Goto, statics
<1> QED
  BY <1>1 DEF DisplayIInv, PipelineInv, StepsInv, HoldersInv, FramesInv, Waiting,
              NoBufferLost, ShowsFramesInOrder, pool

LEMMA GetFramebufferInv ==
  ASSUME DisplayIInv, GetFramebuffer PROVE PipelineInv'
<1>1. UNCHANGED <<pusherPc, s_framebuffer, s_draw_callback, arg, content,
                  drawn, shown>>
  BY DEF GetFramebuffer, pusherVars, statics, thread
<1>2. pc \in [{Main} -> Ordered!Steps \cup {"idle"}]
  BY DEF DisplayIInv, Ordered!ClientInv, Ordered!Idle
<1>3. CASE AppGoto("get", "getting") /\ Pool!CallGetFramebuffer(Main)
           /\ UNCHANGED framebuffer
  <2>1. appPc = "get" /\ appPc' = "getting" /\ pc'[Main] = "acquire"
        /\ UNCHANGED <<out, framebuffer>>
    BY <1>2, <1>3 DEF AppGoto, Pool!CallGetFramebuffer, Pool!Goto
  <2> QED
    BY <1>1, <2>1
       DEF DisplayIInv, PipelineInv, StepsInv, HoldersInv, FramesInv, Waiting,
           NoBufferLost, ShowsFramesInOrder
<1>4. CASE /\ appPc = "getting"
           /\ \/ Pool!Acquire(Main)    \/ Pool!LoadIdx(Main)
              \/ Pool!StoreIdx(Main)   \/ Pool!CompareIdx(Main)
              \/ Pool!ResetIdx(Main)
           /\ UNCHANGED <<appPc, framebuffer>>
  <2>1. pc'[Main] # "idle" /\ UNCHANGED <<out, appPc, framebuffer>>
    BY <1>2, <1>4 DEF Pool!Acquire, Pool!LoadIdx, Pool!StoreIdx, Pool!CompareIdx,
                      Pool!ResetIdx, Pool!Goto
  <2> QED
    BY <1>1, <1>4, <2>1
       DEF DisplayIInv, PipelineInv, StepsInv, HoldersInv, FramesInv, Waiting,
           NoBufferLost, ShowsFramesInOrder
<1>5. CASE AppGoto("getting", "fill") /\ Pool!ReturnFramebuffer(Main)
           /\ framebuffer' = idx[Main]
  <2>1. /\ appPc = "getting" /\ appPc' = "fill" /\ pc[Main] = "return"
        /\ pc'[Main] = "idle" /\ out' = Append(out, framebuffer')
        /\ framebuffer' = idx[Main]
    BY <1>2, <1>5 DEF AppGoto, Pool!ReturnFramebuffer, Pool!Goto, Pool!Idle
  <2>2. framebuffer' \in Buffers /\ framebuffer' # None
    <3>1. idx[Main] \in Nat /\ idx[Main] < NumBuffers
      BY <2>1 DEF DisplayIInv, Ordered!ClientInv, Ordered!IndexInv,
                  Ordered!Chosen, Ordered!Acquired, Ordered!Steps
    <3> QED BY <2>1, <3>1, PipelineAssumption, PusherAssumption
  <2>3. arg = None /\ framebuffer = None
    BY <2>1, PusherAssumption DEF DisplayIInv, StepsInv, HoldersInv
  <2>4. NoBufferLost'
    <3>1. Held(s_framebuffer.data) \in Seq(Buffers)
      BY DEF DisplayIInv, PusherInv, PusherTypeOK, Held
    <3>2. Held(None) = <<>> /\ Held(framebuffer') = <<framebuffer'>>
      BY <2>2 DEF Held
    <3>3. out = Held(s_framebuffer.data)
      BY <2>3, <3>1, <3>2 DEF DisplayIInv, NoBufferLost
    <3>4. out' = Held(s_framebuffer.data) \o <<>> \o <<framebuffer'>>
      BY <2>1, <2>2, <3>1, <3>3
    <3> QED BY <1>1, <2>3, <3>2, <3>4 DEF NoBufferLost, Held
  <2> QED
    BY <1>1, <2>1, <2>2, <2>3, <2>4
       DEF DisplayIInv, PipelineInv, StepsInv, HoldersInv, FramesInv, Waiting,
           ShowsFramesInOrder
<1> QED BY <1>3, <1>4, <1>5 DEF GetFramebuffer

LEMMA FillInv == ASSUME DisplayIInv, Fill PROVE PipelineInv'
<1>1. /\ appPc = "fill" /\ appPc' = "draw"
      /\ content' = [content EXCEPT ![framebuffer] = Partial]
      /\ UNCHANGED <<pusherPc, s_framebuffer, s_draw_callback, arg, pc, out,
                     framebuffer, drawn, shown>>
  BY DEF Fill, AppGoto, pusherVars, statics, thread, pool
<1>2. arg = None /\ framebuffer \in Buffers
  BY <1>1 DEF DisplayIInv, StepsInv, HoldersInv
<1>3. content' \in [Buffers -> 0..FrameIds]
  BY <1>1, <1>2, PipelineAssumption DEF Partial, DisplayIInv, FramesInv
<1>4. ShowsFramesInOrder'
  BY <1>1, SentIsOldest DEF DisplayIInv, FramesInv, ShowsFramesInOrder
<1> QED
  BY <1>1, <1>2, <1>3, <1>4
     DEF DisplayIInv, PipelineInv, StepsInv, HoldersInv, FramesInv, Waiting,
         NoBufferLost

LEMMA DrawFrameInv == ASSUME DisplayIInv, DrawFrame PROVE PipelineInv'
<1>1. /\ appPc = "draw" /\ appPc' = "release" /\ drawn' = NextFrame(drawn)
      /\ content' = [content EXCEPT ![framebuffer] = drawn']
      /\ UNCHANGED <<pusherPc, s_framebuffer, s_draw_callback, arg, pc, out,
                     framebuffer, shown>>
  BY DEF DrawFrame, AppGoto, pusherVars, statics, thread, pool
<1>2. arg = None /\ framebuffer \in Buffers /\ ~Waiting /\ Waiting'
  BY <1>1 DEF DisplayIInv, StepsInv, HoldersInv, Waiting
<1>3. drawn = (IF s_framebuffer.data = None THEN shown ELSE NextFrame(shown))
  BY <1>2 DEF DisplayIInv, FramesInv
<1>4. drawn' \in 0..FrameIds
  <2>1. drawn \in 0..(FrameIds - 1)
    BY <1>3, NextFrameType DEF DisplayIInv, FramesInv
  <2> QED BY <1>1, <2>1, NextFrameType, PipelineAssumption
<1>5. FramesInv'
  BY <1>1, <1>2, <1>3, <1>4 DEF DisplayIInv, FramesInv
<1>6. ShowsFramesInOrder'
  BY <1>1, SentIsOldest DEF DisplayIInv, FramesInv, ShowsFramesInOrder
<1> QED
  BY <1>1, <1>5, <1>6
     DEF DisplayIInv, PipelineInv, StepsInv, HoldersInv, NoBufferLost

LEMMA ReleaseFramebufferInv ==
  ASSUME DisplayIInv, ReleaseFramebuffer, PusherInv' PROVE PipelineInv'
<1>1. UNCHANGED <<pc, out, content, drawn, shown>>
  BY DEF ReleaseFramebuffer, pool
<1>2. CASE AppGoto("release", "releasing") /\ CallWriteFramebuffer(framebuffer)
           /\ framebuffer' = None
  <2>1. /\ appPc = "release" /\ appPc' = "releasing"
        /\ pusherPc = "idle" /\ pusherPc' = "spin"
        /\ arg' = framebuffer /\ framebuffer' = None
        /\ UNCHANGED <<s_framebuffer, s_draw_callback>>
    BY <1>2 DEF AppGoto, CallWriteFramebuffer, Goto, statics
  <2>2. framebuffer \in Buffers /\ framebuffer # None /\ arg = None
    BY <2>1 DEF DisplayIInv, HoldersInv
  <2>3. NoBufferLost'
    <3>1. Held(s_framebuffer.data) \in Seq(Buffers)
          /\ Held(framebuffer) \in Seq(Buffers)
      BY <2>2 DEF DisplayIInv, PusherInv, PusherTypeOK, Held
    <3>2. Held(None) = <<>>
      BY DEF Held
    <3>3. Held(s_framebuffer.data) \o <<>> \o Held(framebuffer)
            = Held(s_framebuffer.data) \o Held(framebuffer) \o <<>>
      BY <3>1
    <3> QED
      BY <1>1, <2>1, <2>2, <3>2, <3>3 DEF DisplayIInv, NoBufferLost, Held
  <2> QED
    BY <1>1, <2>1, <2>2, <2>3
       DEF DisplayIInv, PipelineInv, StepsInv, HoldersInv, FramesInv, Waiting,
           ShowsFramesInOrder
<1>3. CASE appPc = "releasing" /\ Spin /\ UNCHANGED <<appPc, framebuffer>>
  <2>1. /\ pusherPc = "spin" /\ pusherPc' = "latch"
        /\ UNCHANGED <<arg, s_framebuffer, s_draw_callback>>
    BY <1>3 DEF Spin, Goto, statics
  <2> QED
    BY <1>1, <1>3, <2>1
       DEF DisplayIInv, PipelineInv, StepsInv, HoldersInv, FramesInv, Waiting,
           NoBufferLost, ShowsFramesInOrder
<1>4. CASE appPc = "releasing" /\ Latch /\ UNCHANGED <<appPc, framebuffer>>
  <2>1. s_draw_callback = None
    BY <1>4 DEF Latch, Goto, PusherInv
  <2>2. /\ pusherPc = "latch" /\ pusherPc' = "start"
        /\ s_draw_callback' # None
        /\ s_framebuffer'.data = arg /\ arg' = None
    BY <1>4, <2>1, PusherAssumption DEF Latch, Goto
  <2>3. /\ s_framebuffer.data = None /\ arg # None /\ framebuffer = None
        /\ Waiting /\ ~Waiting'
    BY <1>4, <2>1, <2>2 DEF DisplayIInv, StepsInv, HoldersInv, Waiting
  <2>4. NoBufferLost'
    <3>1. arg \in Buffers
      BY <2>3 DEF DisplayIInv, PusherInv, PusherTypeOK
    <3>2. Held(arg) = <<arg>> /\ Held(None) = <<>>
      BY <3>1, HeldOnce
    <3>3. <<>> \o <<arg>> \o <<>> = <<arg>> \o <<>> \o <<>>
      BY <3>1
    <3> QED
      BY <1>1, <1>4, <2>2, <2>3, <3>2, <3>3 DEF DisplayIInv, NoBufferLost, Held
  <2>5. drawn = NextFrame(shown) /\ content[arg] = drawn
    BY <2>3 DEF DisplayIInv, FramesInv
  <2> QED
    BY <1>1, <1>4, <2>2, <2>3, <2>4, <2>5
       DEF DisplayIInv, PipelineInv, StepsInv, HoldersInv, FramesInv,
           ShowsFramesInOrder
<1>5. CASE AppGoto("releasing", "get") /\ Start /\ UNCHANGED framebuffer
  <2>1. /\ appPc = "releasing" /\ appPc' = "get"
        /\ pusherPc = "start" /\ pusherPc' = "idle"
        /\ UNCHANGED <<s_framebuffer, s_draw_callback, arg, framebuffer>>
    BY <1>5 DEF AppGoto, Start, Goto
  <2> QED
    BY <1>1, <2>1
       DEF DisplayIInv, PipelineInv, StepsInv, HoldersInv, FramesInv, Waiting,
           NoBufferLost, ShowsFramesInOrder
<1> QED BY <1>2, <1>3, <1>4, <1>5 DEF ReleaseFramebuffer

LEMMA DmaInv == ASSUME DisplayIInv, Dma PROVE PipelineInv'
<1>1. UNCHANGED <<appPc, framebuffer, content, drawn, shown, pc, out, pusherPc,
                  arg, s_framebuffer, s_draw_callback>>
  BY DEF Dma, DmaComplete, statics, thread, pool, app
<1> QED
  BY <1>1 DEF DisplayIInv, PipelineInv, StepsInv, HoldersInv, FramesInv, Waiting,
              NoBufferLost, ShowsFramesInOrder

(* The first buffer out comes back. *)
LEMMA ReleaseIsTail ==
  ASSUME NEW S, out \in Seq(S), out # <<>>, Pool!ReleaseFramebuffer(1)
  PROVE  out' = Tail(out)
<1>1. out' = [k \in 1..(Len(out) - 1) |-> out[k + 1]] /\ Len(out) \in Nat \ {0}
  BY DEF Pool!ReleaseFramebuffer
<1>2. Tail(out) \in Seq(S) /\ Len(Tail(out)) = Len(out) - 1
      /\ \A k \in 1..Len(Tail(out)) : Tail(out)[k] = out[k + 1]
  BY HeadTailProperties
<1>3. out' \in Seq(S) /\ Len(out') = Len(out) - 1
  <2>1. \A k \in 1..(Len(out) - 1) : out[k + 1] \in S
    BY <1>1
  <2> QED BY <2>1, <1>1
<1>4. \A k \in 1..Len(out') : out'[k] = Tail(out)[k]
  BY <1>1, <1>2, <1>3
<1> QED BY <1>2, <1>3, <1>4, SeqEqual

(* The callback returns the oldest buffer that is out. *)
LEMMA CallbackReturnsOldest ==
  ASSUME DisplayIInv, s_framebuffer.data # None, NEW k \in Pool!Positions,
         out[k] = s_framebuffer.data, Pool!ReleaseFramebuffer(k)
  PROVE  out # <<>> /\ out' = Tail(out) /\ UNCHANGED pc
<1>1. k = 1 /\ out # <<>>
  BY SentIsOldest DEF Pool!Positions
<1>2. out \in Seq(Nat)
  BY DEF DisplayIInv, Ordered!ClientInv
<1>3. out' = Tail(out)
  BY <1>1, <1>2, ReleaseIsTail
<1> QED BY <1>1, <1>3 DEF Pool!ReleaseFramebuffer

LEMMA IrqHandlerInv ==
  ASSUME DisplayIInv, IrqHandler
  PROVE  PipelineInv' /\ (Len(out') < Len(out) => out' = Tail(out))
<1>1. CASE IrqNextRows /\ UNCHANGED <<pool, app, shown>>
  <2>1. UNCHANGED <<appPc, framebuffer, content, drawn, shown, pc, out, pusherPc,
                    arg, s_framebuffer, s_draw_callback>>
    BY <1>1 DEF IrqNextRows, Irq, thread, pool, app
  <2>2. ~(Len(out') < Len(out))
    BY <2>1 DEF DisplayIInv, Ordered!ClientInv
  <2> QED
    BY <2>1, <2>2
       DEF DisplayIInv, PipelineInv, StepsInv, HoldersInv, FramesInv, Waiting,
           NoBufferLost, ShowsFramesInOrder
<1>2. CASE /\ IrqFrameDone
           /\ IF s_draw_callback = None
              THEN UNCHANGED <<pool, shown>>
              ELSE /\ \E k \in Pool!Positions :
                        /\ out[k] = s_framebuffer.data
                        /\ Pool!ReleaseFramebuffer(k)
                   /\ shown' = NextFrame(shown)
           /\ UNCHANGED app
  <2>1. s_draw_callback # None /\ s_framebuffer.data # None
    BY <1>2 DEF IrqFrameDone, Irq, DisplayIInv, PusherInv, Active
  <2>2. PICK k \in Pool!Positions :
          out[k] = s_framebuffer.data /\ Pool!ReleaseFramebuffer(k)
    BY <1>2, <2>1
  <2>3. /\ s_draw_callback' = None /\ s_framebuffer'.data = None
        /\ shown' = NextFrame(shown)
        /\ UNCHANGED <<appPc, framebuffer, content, drawn, pusherPc, arg>>
    <3>1. s_framebuffer' = [s_framebuffer EXCEPT !.data = None]
      BY <1>2, <2>1 DEF IrqFrameDone
    <3>2. s_framebuffer'.data = None
      BY <3>1 DEF DisplayIInv, PusherInv, PusherTypeOK
    <3> QED BY <1>2, <2>1, <3>2 DEF IrqFrameDone, Irq, thread, app
  <2>4. out' = Tail(out) /\ UNCHANGED pc
    BY <2>1, <2>2, CallbackReturnsOldest
  <2>5. NoBufferLost'
    <3>1. out' = Held(arg) \o Held(framebuffer)
      BY <2>1, <2>4, SentIsOldest
    <3>2. Held(None) = <<>> /\ Held(arg) \in Seq(Buffers)
      BY DEF DisplayIInv, PusherInv, PusherTypeOK, Held
    <3>3. <<>> \o Held(arg) = Held(arg)
      BY <3>2
    <3> QED BY <2>3, <3>1, <3>2, <3>3 DEF NoBufferLost, Held
  <2>6. shown' \in 0..(FrameIds - 1)
    BY <2>3, NextFrameType DEF DisplayIInv, FramesInv
  <2>7. FramesInv'
    BY <2>1, <2>3, <2>6 DEF DisplayIInv, FramesInv, Waiting
  <2> QED
    BY <2>1, <2>3, <2>4, <2>5, <2>7
       DEF DisplayIInv, PipelineInv, StepsInv, HoldersInv, ShowsFramesInOrder
<1> QED BY <1>1, <1>2 DEF IrqHandler

LEMMA StutterInv == ASSUME DisplayIInv, UNCHANGED vars PROVE PipelineInv'
BY DEF vars, pusherVars, statics, thread, pool, app, DisplayIInv, PipelineInv,
       StepsInv, HoldersInv, FramesInv, Waiting, NoBufferLost, ShowsFramesInOrder

LEMMA StepIInv ==
  ASSUME PicoSetup, DisplayIInv, [Next]_vars PROVE DisplayIInv'
<1>1. PusherInv'
  BY PusherStep, PusherStepInv DEF DisplayIInv
<1>2. Ordered!ClientInv(Main)'
  BY PoolStep, Ordered!ClientNext, OrderedAssumption DEF DisplayIInv
<1>3. PipelineInv'
  BY <1>1, CommonInitInv, GetFramebufferInv, FillInv, DrawFrameInv,
     ReleaseFramebufferInv, DmaInv, IrqHandlerInv, StutterInv
     DEF Next, MainLoop
<1> QED BY <1>1, <1>2, <1>3 DEF DisplayIInv, PipelineInv

LEMMA DisplayAlways == ASSUME PicoSetup PROVE Spec => []DisplayIInv
<1>1. Init => DisplayIInv
  BY InitIInv
<1>2. DisplayIInv /\ [Next]_vars => DisplayIInv'
  BY StepIInv
<1> QED BY <1>1, <1>2, PTL DEF Spec

-----------------------------------------------------------------------------
(* The pipeline runs the pool as its one client does that returns buffers   *)
(* in order, so that what the pool promises such a client holds here.       *)
THEOREM RunsPoolInOrder == ASSUME PicoSetup PROVE Spec => Ordered!Spec
<1>1. Init => Ordered!Init
  BY DEF Init, Pool!Init, Ordered!Init, Pool!Idle, Ordered!Idle
<1>2. DisplayIInv /\ [Next]_vars => [Ordered!Next]_(Ordered!vars)
  BY PoolStep
<1> QED BY <1>1, <1>2, DisplayAlways, PTL DEF Spec, Ordered!Spec

(* The pipeline calls the pusher only with framebuffers it does not hold,   *)
(* so that the theorems of PixelPusherProofs hold here.                     *)
THEOREM RunsPusher == ASSUME PicoSetup PROVE Spec => PusherSpec
<1>1. Init => PusherInit
  BY DEF Init
<1>2. DisplayIInv /\ [Next]_vars => [PusherNext]_pusherVars
  BY PusherStep
<1> QED BY <1>1, <1>2, DisplayAlways, PTL DEF Spec, PusherSpec

(* No framebuffer leaks, and none is in two places: those that are out of   *)
(* the pool are with the pusher, in the call of WriteFramebuffer and with   *)
(* the main loop, in this order of age.                                     *)
THEOREM NoBufferEverLost == ASSUME PicoSetup PROVE Spec => []NoBufferLost
<1>1. DisplayIInv => NoBufferLost
  BY DEF DisplayIInv
<1> QED BY <1>1, DisplayAlways, PTL

(* The framebuffer being sent holds, whole, the frame after the last shown: *)
(* the main loop never draws into it, and no frame is skipped or repeated.  *)
THEOREM FramesShownInOrder == ASSUME PicoSetup PROVE Spec => []ShowsFramesInOrder
<1>1. DisplayIInv => ShowsFramesInOrder
  BY DEF DisplayIInv
<1> QED BY <1>1, DisplayAlways, PTL

(* Buffers come back in the order they were handed out, which is why the    *)
(* pool, which tracks no ownership, may be used here.                       *)
THEOREM BuffersReleasedInOrder == ASSUME PicoSetup PROVE Spec => ReleasesInOrder
<1>1. ASSUME DisplayIInv, [Next]_vars
      PROVE  Len(out') < Len(out) => out' = Tail(out)
  <2>1. Len(out) \in Nat
    BY <1>1 DEF DisplayIInv, Ordered!ClientInv
  <2>2. CASE GetFramebuffer
    <3>1. out' = out \/ out' = Append(out, idx[Main])
      BY <2>2 DEF GetFramebuffer, Pool!CallGetFramebuffer, Pool!Acquire,
                  Pool!LoadIdx, Pool!StoreIdx, Pool!CompareIdx, Pool!ResetIdx,
                  Pool!ReturnFramebuffer
    <3>2. out \in Seq(Nat) /\ idx[Main] \in Nat
      BY <1>1 DEF DisplayIInv, Ordered!ClientInv
    <3> QED BY <2>1, <3>1, <3>2
  <2>3. CASE CommonInit \/ Fill \/ DrawFrame \/ ReleaseFramebuffer \/ Dma
             \/ UNCHANGED vars
    BY <2>1, <2>3
       DEF CommonInit, Fill, DrawFrame, ReleaseFramebuffer, Dma, vars, pool
  <2>4. CASE IrqHandler
    BY <1>1, <2>4, IrqHandlerInv
  <2> QED BY <1>1, <2>2, <2>3, <2>4 DEF Next, MainLoop
<1>2. DisplayIInv /\ [Next]_vars => [Len(out') < Len(out) => out' = Tail(out)]_vars
  BY <1>1
<1> QED BY <1>2, DisplayAlways, PTL DEF Spec, ReleasesInOrder

(* The variables of the whole pipeline keep their types; the semaphore      *)
(* never exceeds the number of buffers.                                     *)
THEOREM DisplayTypeCorrect == ASSUME PicoSetup PROVE Spec => []TypeOK
<1>1. DisplayIInv /\ Ordered!TypeOK => TypeOK
  <2> SUFFICES ASSUME DisplayIInv, Ordered!TypeOK PROVE TypeOK
    OBVIOUS
  <2>1. PusherTypeOK /\ framebuffer \in Buffers \cup {None}
        /\ content \in [Buffers -> 0..FrameIds] /\ shown \in 0..(FrameIds - 1)
    BY DEF DisplayIInv, PusherInv, HoldersInv, FramesInv
  <2>2. drawn \in 0..(FrameIds - 1)
    BY NextFrameType DEF DisplayIInv, FramesInv
  <2>3. Pool!TypeOK
    BY DEF Ordered!TypeOK, Pool!TypeOK, Ordered!Steps, Pool!Steps, Ordered!Idle,
           Pool!Idle
  <2> QED BY <2>1, <2>2, <2>3 DEF TypeOK
<1>2. Ordered!IsFiniteSet({Main})
  BY Ordered!FS_Singleton, OrderedAssumption
<1>3. Ordered!Init => Ordered!CountInv
  BY <1>2, Ordered!CountInit, OrderedAssumption
<1>4. Ordered!CountInv /\ [Ordered!Next]_(Ordered!vars) => Ordered!CountInv'
  BY <1>2, Ordered!CountNext, OrderedAssumption
<1>5. Ordered!CountInv => Ordered!TypeOK
  BY <1>2, Ordered!CountTypes, OrderedAssumption
<1> QED
  BY <1>1, <1>3, <1>4, <1>5, RunsPoolInOrder, DisplayAlways, PTL DEF Ordered!Spec

(***************************************************************************)
(* PicoOutput runs DisplayPio, so its theorems hold down to the wire; and  *)
(* the DMA and the PIO machine keep within their bounds: the FIFO never    *)
(* overflows, the machine never leaves its program, and the DMA never      *)
(* reads past the pixels of its transfer, for frames of any size, words of *)
(* any width and a FIFO of any depth.                                      *)
(***************************************************************************)
Reg == [1 .. RegBits -> {0, 1}]

(* The program counter stays in the program it is in: none of the raw       *)
(* program's instructions jumps, and the other's jump below its end.        *)
MachineInv ==
  /\ sm \in [on : BOOLEAN, pc : 1..19, wrap : [target : 1..19, top : {2, 19}],
             x : Reg, y : Reg, osr : Reg, count : 0..RegBits,
             autopull : BOOLEAN, thresh : 0..RegBits]
  /\ sm.pc <= sm.wrap.top /\ sm.wrap.target <= sm.wrap.top

PinsInv ==
  /\ fifo \in Seq(Reg) /\ Len(fifo) <= FifoDepth
  /\ data \in {0, 1} /\ sck \in {0, 1} /\ dcPin \in {"command", "data"}

(* Pixels go out only after the machine was set up for them, two to a word. *)
SetupInv ==
  /\ setup \in {"idle", "wait", "put", "clear2", "wait2", "stop", "switch",
                "done"}
  /\ write_mode_ \/ pusherPc = "start" \/ Active => setup = "done"
  /\ dmaSize = IF setup = "done" THEN 2 ELSE 1

FedInv == fed \in 0..Len(wire) /\ fed % 2 = 0

OutputIInv == DisplayIInv /\ MachineInv /\ PinsInv /\ SetupInv /\ FedInv

-----------------------------------------------------------------------------
(* The programs. *)

(* What the machine relies on: an out moves at most a register, and a jump  *)
(* stays in the memory.                                                     *)
Ops == {"out", "nop", "jmp", "mov", "keep", "pull"}
Dsts == {"pins", "null", "none", "x", "y", "!osre"}
Instrs ==
  {r \in [op : Ops, dst : Dsts, n : Int, side : {NoSide, 0, 1}] :
     (r.op = "out" => r.n \in 1..RegBits) /\ (r.op = "jmp" => r.n \in 1..19)}

LEMMA RegBitsType ==
  RegBits \in Nat /\ HalfBits \in 1..RegBits /\ ByteBits \in 1..RegBits
  /\ RegBits = HalfBits + HalfBits
BY PioAssumption DEF RegBits

LEMMA InstrIs ==
  ASSUME NEW op \in Ops, NEW dst \in Dsts, NEW n \in Int,
         NEW side \in {NoSide, 0, 1},
         op = "out" => n \in 1..RegBits, op = "jmp" => n \in 1..19
  PROVE  Instr(op, dst, n, side) \in Instrs
BY DEF Instr, Instrs

LEMMA InstrTypes ==
  /\ OutPin \in Instrs /\ Skip \in Instrs
  /\ Load("x") \in Instrs /\ Load("y") \in Instrs
  /\ Instr("nop", "none", 0, 1) \in Instrs
  /\ Instr("pull", "none", 0, NoSide) \in Instrs
  /\ Instr("keep", "x", 0, NoSide) \in Instrs
  /\ Instr("out", "y", HalfBits, NoSide) \in Instrs
<1>1. HalfBits \in 1..RegBits /\ HalfBits \in Int /\ 1 \in 1..RegBits
  BY RegBitsType
<1>2. OutPin \in Instrs
  BY <1>1, InstrIs DEF OutPin, Ops, Dsts
<1>3. Skip \in Instrs
  BY <1>1, InstrIs DEF Skip, Ops, Dsts
<1>4. Load("x") \in Instrs /\ Load("y") \in Instrs
  BY InstrIs DEF Load, Ops, Dsts
<1>5. /\ Instr("nop", "none", 0, 1) \in Instrs
      /\ Instr("pull", "none", 0, NoSide) \in Instrs
      /\ Instr("keep", "x", 0, NoSide) \in Instrs
  BY InstrIs DEF Ops, Dsts
<1>6. Instr("out", "y", HalfBits, NoSide) \in Instrs
  BY <1>1, InstrIs DEF Ops, Dsts
<1> QED BY <1>2, <1>3, <1>4, <1>5, <1>6

LEMMA LoopType ==
  ASSUME NEW at \in 1..19 PROVE Loop(at) \in Seq(Instrs) /\ Len(Loop(at)) = 2
<1>1. Instr("jmp", "!osre", at, 1) \in Instrs
  BY InstrIs DEF Ops, Dsts
<1> QED BY <1>1, InstrTypes DEF Loop

LEMMA EightParts ==
  ASSUME NEW S,
         NEW a \in Seq(S), NEW b \in Seq(S), NEW c \in Seq(S), NEW d \in Seq(S),
         NEW e \in Seq(S), NEW f \in Seq(S), NEW g \in Seq(S), NEW h \in Seq(S)
  PROVE  /\ a \o b \o c \o d \o e \o f \o g \o h \in Seq(S)
         /\ Len(a \o b \o c \o d \o e \o f \o g \o h)
              = Len(a) + Len(b) + Len(c) + Len(d) + Len(e) + Len(f) + Len(g)
                + Len(h)
OBVIOUS

LEMMA DoubleType ==
  st7789_pixel_double \in Seq(Instrs) /\ Len(st7789_pixel_double) = 17
<1>1. << Instr("pull", "none", 0, NoSide), Instr("keep", "x", 0, NoSide),
         Instr("out", "y", HalfBits, NoSide) >> \in Seq(Instrs)
  BY InstrTypes
<1>2. <<Load("x"), Skip>> \in Seq(Instrs) /\ <<Load("y"), Skip>> \in Seq(Instrs)
  BY InstrTypes
<1>3. /\ Loop(6) \in Seq(Instrs) /\ Loop(10) \in Seq(Instrs)
      /\ Loop(14) \in Seq(Instrs) /\ Loop(18) \in Seq(Instrs)
  BY LoopType
<1>4. /\ st7789_pixel_double \in Seq(Instrs)
      /\ Len(st7789_pixel_double)
           = Len(<< Instr("pull", "none", 0, NoSide),
                    Instr("keep", "x", 0, NoSide),
                    Instr("out", "y", HalfBits, NoSide) >>)
             + Len(Loop(6)) + Len(<<Load("x"), Skip>>) + Len(Loop(10))
             + Len(<<Load("y"), Skip>>) + Len(Loop(14))
             + Len(<<Load("y"), Skip>>) + Len(Loop(18))
  BY ONLY <1>1, <1>2, <1>3, EightParts DEF st7789_pixel_double
<1>5. /\ Len(<< Instr("pull", "none", 0, NoSide), Instr("keep", "x", 0, NoSide),
                Instr("out", "y", HalfBits, NoSide) >>) = 3
      /\ Len(<<Load("x"), Skip>>) = 2 /\ Len(<<Load("y"), Skip>>) = 2
  OBVIOUS
<1>6. /\ Len(Loop(6)) = 2 /\ Len(Loop(10)) = 2
      /\ Len(Loop(14)) = 2 /\ Len(Loop(18)) = 2
  BY LoopType
<1>7. Len(st7789_pixel_double) = 3 + 2 + 2 + 2 + 2 + 2 + 2 + 2
  BY ONLY <1>4, <1>5, <1>6, Zenon
<1>8. 17 = 3 + 2 + 2 + 2 + 2 + 2 + 2 + 2
  OBVIOUS
<1> QED BY ONLY <1>4, <1>7, <1>8, Zenon

LEMMA Programs ==
  /\ st7789_raw \in Seq(Instrs) /\ Len(st7789_raw) = 2
  /\ st7789_pixel_double \in Seq(Instrs) /\ Len(st7789_pixel_double) = 17
  /\ Memory \in Seq(Instrs) /\ Len(Memory) = 19
  /\ Memory[1].op # "jmp" /\ Memory[2].op # "jmp"
  /\ Around(pio_offset, st7789_raw) = [target |-> 1, top |-> 2]
  /\ Around(pio_double_offset, st7789_pixel_double) = [target |-> 3, top |-> 19]
  /\ pio_offset = 1 /\ pio_double_offset = 3
<1>5. st7789_raw \in Seq(Instrs) /\ Len(st7789_raw) = 2
      /\ st7789_raw[1].op = "out" /\ st7789_raw[2].op = "nop"
  BY InstrTypes DEF st7789_raw, OutPin, Instr
<1>6. /\ Memory \in Seq(Instrs)
      /\ Len(Memory) = Len(st7789_raw) + Len(st7789_pixel_double)
      /\ \A k \in 1..Len(st7789_raw) : Memory[k] = st7789_raw[k]
  <2>1. st7789_raw \in Seq(Instrs) /\ st7789_pixel_double \in Seq(Instrs)
    BY <1>5, DoubleType
  <2> QED BY ONLY <2>1, ConcatProperties DEF Memory
<1>7. Len(Memory) = 19 /\ Memory[1] = st7789_raw[1] /\ Memory[2] = st7789_raw[2]
  BY ONLY DoubleType, <1>5, <1>6
<1> QED
  BY DoubleType, <1>5, <1>6, <1>7 DEF Around, pio_offset, pio_double_offset

-----------------------------------------------------------------------------
(* Registers are sequences of RegBits bits. *)

LEMMA BitTypes ==
  /\ \A n \in Int, w \in Nat : Bits(n, w) \in [1 .. w -> {0, 1}]
  /\ \A w \in Nat : Zeros(w) \in [1 .. w -> {0, 1}]
BY DEF Bits, Zeros

LEMMA WordIsSeq ==
  ASSUME NEW w \in Nat
  PROVE  \A r : r \in [1 .. w -> {0, 1}] <=> r \in Seq({0, 1}) /\ Len(r) = w
OBVIOUS

(* Two words side by side. *)
LEMMA Joined ==
  ASSUME NEW v \in Nat, NEW w \in Nat,
         NEW a \in [1 .. v -> {0, 1}], NEW b \in [1 .. w -> {0, 1}]
  PROVE  a \o b \in [1 .. v + w -> {0, 1}]
<1>1. a \in Seq({0, 1}) /\ Len(a) = v /\ b \in Seq({0, 1}) /\ Len(b) = w
  BY WordIsSeq
<1>2. a \o b \in Seq({0, 1}) /\ Len(a \o b) = v + w
  BY <1>1
<1>3. v + w \in Nat
  OBVIOUS
<1> QED BY <1>2, <1>3, WordIsSeq, Zenon

(* A part of a register. *)
LEMMA Part ==
  ASSUME NEW r \in Reg, NEW m \in 1 .. RegBits + 1, NEW n \in 0 .. RegBits,
         m <= n + 1
  PROVE  SubSeq(r, m, n) \in [1 .. n - m + 1 -> {0, 1}]
<1>1. r \in Seq({0, 1}) /\ Len(r) = RegBits
  BY RegBitsType, WordIsSeq DEF Reg
<1>2. SubSeq(r, m, n) \in Seq({0, 1}) /\ Len(SubSeq(r, m, n)) = n - m + 1
  BY <1>1, RegBitsType, SubSeqProperties
<1>3. n - m + 1 \in Nat
  BY RegBitsType
<1> QED BY <1>2, <1>3, WordIsSeq, Zenon

-----------------------------------------------------------------------------
(* The machine's steps. *)

LEMMA Fetched ==
  ASSUME MachineInv PROVE i \in Instrs /\ i.side \in {NoSide, 0, 1}
<1>1. Memory \in Seq(Instrs) /\ sm.pc \in 1..19
  BY Programs DEF MachineInv
<1>2. sm.pc \in 1..Len(Memory)
  BY <1>1, Programs
<1>3. i \in Instrs
  BY ONLY <1>1, <1>2, ElementOfSeq DEF i
<1> QED BY <1>3 DEF Instrs

LEMMA OutInv ==
  ASSUME MachineInv, PinsInv, Out, Clocks
  PROVE  MachineInv' /\ fifo' \in Seq(Reg) /\ Len(fifo') <= Len(fifo)
         /\ data' \in {0, 1} /\ sck' \in {0, 1}
<1> DEFINE w == IF Refill THEN Head(fifo) ELSE sm.osr
           count == IF Refill THEN 0 ELSE sm.count
<1>0. i \in Instrs /\ i.op = "out" /\ ~Starved
  BY Fetched DEF Out
<1>1. i.n \in 1..RegBits /\ i.side \in {NoSide, 0, 1}
  BY <1>0 DEF Instrs
<1>2. w \in Reg /\ count \in 0..RegBits
      /\ fifo' \in Seq(Reg) /\ Len(fifo') <= Len(fifo)
  <2>1. CASE Refill
    <3>1. fifo # << >> /\ fifo \in Seq(Reg) /\ fifo' = Tail(fifo)
      BY <1>0, <2>1 DEF Starved, PinsInv, Out
    <3> QED BY <2>1, <3>1, RegBitsType
  <2>2. CASE ~Refill
    BY <2>2 DEF MachineInv, PinsInv, Out
  <2> QED BY <2>1, <2>2
<1>3. NextPc \in 1..19 /\ NextPc <= sm.wrap.top
  BY DEF NextPc, MachineInv
<1>4. SubSeq(w, i.n + 1, RegBits) \o Zeros(i.n) \in Reg
  <2>1. i.n + 1 \in 1 .. RegBits + 1 /\ RegBits \in 0 .. RegBits
        /\ i.n + 1 <= RegBits + 1 /\ RegBits - (i.n + 1) + 1 = RegBits - i.n
        /\ RegBits - i.n \in Nat /\ i.n \in Nat
        /\ RegBits - i.n + i.n = RegBits
    BY <1>1, RegBitsType
  <2>2. SubSeq(w, i.n + 1, RegBits) \in [1 .. RegBits - i.n -> {0, 1}]
    BY <1>2, <2>1, Part
  <2>3. Zeros(i.n) \in [1 .. i.n -> {0, 1}]
    BY <2>1, BitTypes
  <2>4. SubSeq(w, i.n + 1, RegBits) \o Zeros(i.n)
          \in [1 .. RegBits - i.n + i.n -> {0, 1}]
    BY ONLY <2>1, <2>2, <2>3, Joined
  <2> QED BY ONLY <2>1, <2>4 DEF Reg
<1>5. Zeros(RegBits - i.n) \o SubSeq(w, 1, i.n) \in Reg
  <2>1. i.n \in 0 .. RegBits /\ 1 \in 1 .. RegBits + 1 /\ 1 <= i.n + 1
        /\ i.n - 1 + 1 = i.n /\ RegBits - i.n \in Nat /\ i.n \in Nat
        /\ RegBits - i.n + i.n = RegBits
    BY <1>1, RegBitsType
  <2>2. SubSeq(w, 1, i.n) \in [1 .. i.n -> {0, 1}]
    BY <1>2, <2>1, Part
  <2>3. Zeros(RegBits - i.n) \in [1 .. RegBits - i.n -> {0, 1}]
    BY <2>1, BitTypes
  <2>4. Zeros(RegBits - i.n) \o SubSeq(w, 1, i.n)
          \in [1 .. RegBits - i.n + i.n -> {0, 1}]
    BY ONLY <2>1, <2>2, <2>3, Joined
  <2> QED BY ONLY <2>1, <2>4 DEF Reg
<1>6. PICK osr \in Reg, c \in 0..RegBits, y \in Reg :
        sm' = [sm EXCEPT !.osr = osr, !.count = c, !.y = y, !.pc = NextPc]
  <2>1. (IF count + i.n > RegBits THEN RegBits ELSE count + i.n) \in 0..RegBits
    BY <1>1, <1>2, RegBitsType
  <2>2. sm.y \in Reg
    BY DEF MachineInv
  <2> QED BY <1>4, <1>5, <2>1, <2>2 DEF Out
<1>7. MachineInv'
  BY <1>3, <1>6 DEF MachineInv
<1>8. data' \in {0, 1}
  <2>1. w[1] \in {0, 1}
    BY <1>2, RegBitsType DEF Reg
  <2> QED BY <2>1 DEF Out, PinsInv
<1>9. sck' \in {0, 1}
  BY <1>1 DEF Clocks, PinsInv
<1> QED BY <1>2, <1>7, <1>8, <1>9

LEMMA MachineStepInv ==
  ASSUME MachineInv, PinsInv, SmStep PROVE MachineInv' /\ PinsInv'
<1>0. i \in Instrs /\ i.side \in {NoSide, 0, 1}
  BY Fetched
<1>1. sck' \in {0, 1} /\ dcPin' \in {"command", "data"}
  BY <1>0 DEF SmStep, Clocks, PinsInv
<1>2. NextPc \in 1..19 /\ NextPc <= sm.wrap.top
  BY DEF NextPc, MachineInv
<1>3. CASE Stall
  BY <1>1, <1>3 DEF Stall, MachineInv, PinsInv
<1>4. CASE Out
  <2>1. Clocks /\ Len(fifo) \in Nat /\ FifoDepth \in Nat /\ Len(fifo) <= FifoDepth
    BY PioAssumption DEF SmStep, PinsInv
  <2>2. MachineInv' /\ fifo' \in Seq(Reg) /\ Len(fifo') <= Len(fifo)
        /\ data' \in {0, 1}
    BY <1>4, <2>1, OutInv
  <2>3. Len(fifo') <= FifoDepth
    BY <2>1, <2>2
  <2> QED BY <1>1, <2>2, <2>3 DEF PinsInv
<1>5. CASE Pull
  <2>1. fifo # << >> /\ fifo \in Seq(Reg) /\ Len(fifo) <= FifoDepth
        /\ fifo' = Tail(fifo) /\ UNCHANGED data
    BY <1>5 DEF Pull, Starved, PinsInv
  <2>2. Head(fifo) \in Reg /\ Tail(fifo) \in Seq(Reg)
        /\ Len(Tail(fifo)) <= FifoDepth
    BY <2>1, PioAssumption
  <2>3. sm' = [sm EXCEPT !.osr = Head(fifo), !.count = 0, !.pc = NextPc]
    BY <1>5 DEF Pull
  <2>z. 0 \in 0..RegBits
    BY RegBitsType
  <2>4. PICK osr \in Reg, c \in 0..RegBits :
          sm' = [sm EXCEPT !.osr = osr, !.count = c, !.pc = NextPc]
    BY <2>2, <2>3, <2>z, Zenon
  <2>5. MachineInv'
    BY <1>2, <2>4 DEF MachineInv
  <2> QED BY <1>1, <2>1, <2>2, <2>5 DEF PinsInv
<1>6. CASE Move
  <2>1. MachineInv'
    <3>1. sm.x \in Reg /\ sm.y \in Reg /\ sm.osr \in Reg /\ 0 \in 0..RegBits
      BY RegBitsType DEF MachineInv
    <3>2. CASE sm' = [sm EXCEPT !.osr = IF i.dst = "x" THEN sm.x ELSE sm.y,
                                !.count = 0, !.pc = NextPc]
      BY <1>2, <3>1, <3>2 DEF MachineInv
    <3>3. CASE sm' = [sm EXCEPT !.x = sm.osr, !.pc = NextPc]
      BY <1>2, <3>1, <3>3 DEF MachineInv
    <3>4. CASE sm' = [sm EXCEPT !.pc = NextPc]
      BY <1>2, <3>4 DEF MachineInv
    <3> QED BY <1>6, <3>2, <3>3, <3>4 DEF Move
  <2>2. fifo' = fifo /\ data' = data
    BY ONLY <1>6 DEF Move
  <2>3. PinsInv'
    BY ONLY PinsInv, <1>1, <2>2, Zenon DEF PinsInv
  <2> QED BY ONLY <2>1, <2>3
<1>7. CASE Jump
  <2>1. i.op = "jmp" /\ i.n \in 1..19
    BY <1>0, <1>7 DEF Jump, Instrs
  <2>2. sm.wrap.top = 19
    BY <2>1, Programs, SMTT(30) DEF i, MachineInv
  <2>3. sm' = [sm EXCEPT !.pc = IF Empty THEN NextPc ELSE i.n]
    BY <1>7 DEF Jump
  <2>4. MachineInv'
    BY <1>2, <2>1, <2>2, <2>3 DEF MachineInv
  <2> QED BY <1>1, <1>7, <2>4 DEF Jump, PinsInv
<1> QED BY <1>3, <1>4, <1>5, <1>6, <1>7 DEF SmStep

-----------------------------------------------------------------------------
(* The thread's set-up and the DMA's words. *)

LEMMA SetupStepInv ==
  ASSUME PixelDouble, MachineInv, PinsInv, SetupInv, SetupWriteFramebuffer
  PROVE  /\ MachineInv' /\ PinsInv'
         /\ setup' \in {"wait", "put", "clear2", "wait2", "stop", "switch", "done"}
         /\ dmaSize' = IF setup' = "done" THEN 2 ELSE 1
<1> USE DEF machine, Thread
<1>1. ASSUME NEW from, NEW to, ClearStall(from, to) \/ AwaitStall(from, to),
             from # "done", to # "done"
      PROVE  MachineInv' /\ PinsInv' /\ setup' = to /\ dmaSize' = 1
  BY <1>1 DEF ClearStall, AwaitStall, MachineInv, PinsInv, SetupInv
<1>2. CASE PutByte
  <2>1. setup = "put" /\ setup' = "clear2" /\ dmaSize' = 1 /\ MachineInv'
    BY <1>2 DEF PutByte, SetupInv, MachineInv
  <2>2. PinsInv'
    <3>1. [k \in 1 .. RegBits |-> Bits(RamWr, ByteBits)[((k - 1) % ByteBits) + 1]]
            \in Reg
      <4>1. Bits(RamWr, ByteBits) \in [1 .. ByteBits -> {0, 1}]
        BY RegBitsType, PioAssumption, BitTypes
      <4>2. \A k \in 1 .. RegBits : ((k - 1) % ByteBits) + 1 \in 1 .. ByteBits
        BY RegBitsType
      <4> QED BY <4>1, <4>2 DEF Reg
    <3>2. PICK word \in Reg : fifo' = Append(fifo, word)
      BY <1>2, <3>1 DEF PutByte
    <3>3. Len(fifo) < FifoDepth /\ UNCHANGED <<data, sck>> /\ dcPin' = "command"
      BY <1>2 DEF PutByte
    <3>4. fifo' \in Seq(Reg) /\ Len(fifo') <= FifoDepth
      BY <3>2, <3>3, PioAssumption DEF PinsInv
    <3> QED BY <3>3, <3>4 DEF PinsInv
  <2> QED BY <2>1, <2>2
<1>3. CASE StopMachine
  <2>1. setup = "stop" /\ setup' = "switch" /\ dmaSize' = 1 /\ PinsInv'
    BY <1>3 DEF StopMachine, SetupInv, PinsInv
  <2>2. sm' = [sm EXCEPT !.on = FALSE, !.count = RegBits] /\ RegBits \in 0..RegBits
    BY <1>3, RegBitsType DEF StopMachine
  <2>3. MachineInv'
    BY <2>2 DEF MachineInv
  <2> QED BY <2>1, <2>3
<1>4. CASE SwitchProgram
  <2>1. setup' = "done" /\ dmaSize' = 2 /\ PinsInv'
    BY <1>4, DoubleAssumption DEF SwitchProgram, PinsInv
  <2>2. sm' = [sm EXCEPT !.on = TRUE, !.pc = pio_double_offset,
                         !.wrap = Around(pio_double_offset, st7789_pixel_double),
                         !.autopull = FALSE, !.thresh = RegBits]
    BY <1>4, DoubleAssumption DEF SwitchProgram
  <2>3. sm' = [sm EXCEPT !.on = TRUE, !.pc = 3, !.wrap = [target |-> 3, top |-> 19],
                         !.autopull = FALSE, !.thresh = RegBits]
        /\ RegBits \in 0..RegBits
    BY <2>2, Programs, RegBitsType
  <2>4. PICK wrap \in [target : 1..19, top : {2, 19}], thresh \in 0..RegBits :
          /\ sm' = [sm EXCEPT !.on = TRUE, !.pc = 3, !.wrap = wrap,
                              !.autopull = FALSE, !.thresh = thresh]
          /\ wrap.target = 3 /\ wrap.top = 19
    <3>1. [target |-> 3, top |-> 19] \in [target : 1..19, top : {2, 19}]
      OBVIOUS
    <3> QED BY <2>3, <3>1
  <2>5. sm' \in [on : BOOLEAN, pc : 1..19,
                 wrap : [target : 1..19, top : {2, 19}],
                 x : Reg, y : Reg, osr : Reg, count : 0..RegBits,
                 autopull : BOOLEAN, thresh : 0..RegBits]
    BY <2>4 DEF MachineInv
  <2>6. sm'.pc = 3 /\ sm'.wrap = wrap
    BY <2>4 DEF MachineInv
  <2>7. MachineInv'
    BY <2>4, <2>5, <2>6 DEF MachineInv
  <2> QED BY <2>1, <2>7
<1> QED
  BY <1>1, <1>2, <1>3, <1>4 DEF SetupWriteFramebuffer

LEMMA EvenTimes ==
  ASSUME NEW k \in Nat, NEW w \in Nat, w % 2 = 0 PROVE (k * w) % 2 = 0
<1>1. PICK m \in Nat : w = 2 * m
  <2>1. w \div 2 \in Nat /\ w = 2 * (w \div 2)
    OBVIOUS
  <2> QED BY <2>1
<1>2. k * w = 2 * (k * m) /\ k * m \in Nat
  BY <1>1
<1>3. \A n \in Nat : (2 * n) % 2 = 0
  OBVIOUS
<1> QED BY ONLY <1>2, <1>3

(* A transfer is of whole rows, and a row of an even number of pixels. *)
LEMMA WireIsEven ==
  ASSUME PicoSetup, PusherInv, Active PROVE Len(wire) \in Nat /\ Len(wire) % 2 = 0
<1>1. PICK k \in Nat : Len(wire) = k * Width
  <2>1. CASE current_scanline < Height
    <3>1. Len(wire) = (2 * current_scanline + 1) * Width
          /\ 2 * current_scanline + 1 \in Nat
      BY <2>1 DEF PusherInv
    <3> QED BY <3>1
  <2>2. CASE current_scanline = Height
    <3>1. Len(wire) = (2 * Height) * Width /\ 2 * Height \in Nat
      BY <2>2, PusherAssumption DEF PusherInv
    <3> QED BY <3>1
  <2>3. current_scanline \in 0..Height
    BY DEF PusherInv
  <2> QED BY <2>1, <2>2, <2>3, PusherAssumption
<1>2. Width \in Nat /\ Width % 2 = 0
  BY PusherAssumption DEF PicoSetup
<1>3. (k * Width) % 2 = 0
  BY <1>2, EvenTimes
<1>4. k * Width \in Nat
  BY <1>2
<1> QED BY ONLY <1>1, <1>3, <1>4

(* The DMA moves two pixels that the transfer has. *)
LEMMA MovesInv ==
  ASSUME PicoSetup, PusherInv, MachineInv, PinsInv, SetupInv, FedInv, Moves
  PROVE  MachineInv' /\ PinsInv' /\ FedInv' /\ UNCHANGED <<setup, dmaSize, wire>>
<1>1. Active /\ dmaSize = 2 /\ fed < Len(wire) /\ fed' = fed + 2
      /\ fed + 2 <= Len(wire) /\ Len(wire) \in Nat /\ wire \in Seq(Nat)
  <2>1. Active /\ dmaSize = 2 /\ fed < Len(wire) /\ wire \in Seq(Nat)
    BY DEF Moves, Active, SetupInv, PusherInv, PusherTypeOK
  <2>2. Len(wire) \in Nat /\ Len(wire) % 2 = 0 /\ fed \in Nat /\ fed % 2 = 0
    BY <2>1, WireIsEven DEF FedInv
  <2>3. fed + 2 <= Len(wire)
    BY ONLY <2>1, <2>2
  <2> QED BY <2>1, <2>2, <2>3 DEF Moves
<1>2. UNCHANGED <<sm, data, sck, dcPin, setup, dmaSize, wire>>
  BY DEF Moves, FeedWord, machine, vars, pusherVars, hardware
<1>3. FedInv'
  BY <1>1, <1>2 DEF FedInv
<1> DEFINE p == SubSeq(wire, fed + 1, fed + dmaSize)
<1>4. p \in Seq(Nat) /\ Len(p) = 1 + 1
  <2>1. fed + 1 \in Int /\ fed + 2 \in Int /\ fed + 1 <= fed + 2
        /\ (fed + 2) - (fed + 1) + 1 = 1 + 1
        /\ \A k \in (fed + 1) .. (fed + 2) : wire[k] \in Nat
    BY <1>1 DEF FedInv
  <2> QED BY <2>1, <1>1, SubSeqProperties
<1>5. Bits(p[Len(p)], HalfBits) \o Bits(p[1], HalfBits) \in Reg
  <2>1. p[Len(p)] \in Int /\ p[1] \in Int /\ HalfBits \in Nat
    <3>1. 1 \in 1..Len(p) /\ Len(p) \in 1..Len(p)
      BY <1>4
    <3>2. p[Len(p)] \in Nat /\ p[1] \in Nat
      BY ONLY <1>4, <3>1, ElementOfSeq
    <3>3. HalfBits \in Nat
      BY PioAssumption
    <3> HIDE DEF p
    <3> QED BY <3>2, <3>3
  <2> HIDE DEF p
  <2>2. Bits(p[Len(p)], HalfBits) \in [1 .. HalfBits -> {0, 1}]
        /\ Bits(p[1], HalfBits) \in [1 .. HalfBits -> {0, 1}]
    BY <2>1, BitTypes
  <2>3. Bits(p[Len(p)], HalfBits) \o Bits(p[1], HalfBits)
          \in [1 .. HalfBits + HalfBits -> {0, 1}]
    BY ONLY <2>1, <2>2, Joined
  <2> QED BY <2>3, RegBitsType DEF Reg
<1>6. PICK word \in Reg : fifo' = Append(fifo, word) /\ Len(fifo) < FifoDepth
  BY <1>1, <1>5 DEF Moves, FeedWord
<1>7. PinsInv'
  <2>1. fifo' \in Seq(Reg) /\ Len(fifo') <= FifoDepth
    BY <1>6, PioAssumption DEF PinsInv
  <2> QED BY <1>2, <2>1 DEF PinsInv
<1> QED BY <1>2, <1>3, <1>7 DEF MachineInv

-----------------------------------------------------------------------------
(* Every step is one of DisplayPio, or one it does not see. *)
LEMMA DisplayStep == ASSUME NextOutput PROVE [Next]_vars
BY DEF NextOutput, SetUp, Main_, Moves, Done, Handler, Machine, Next

LEMMA OutputInit == ASSUME PicoSetup, InitOutput PROVE OutputIInv
<1>1. DisplayIInv /\ PusherInv
  BY InitIInv DEF InitOutput, DisplayIInv
<1>2. PinsInv
  <2>1. << >> \in Seq(Reg) /\ Len(<< >>) <= FifoDepth
    BY PioAssumption
  <2> QED BY <2>1 DEF InitOutput, InitPio, PinsInv
<1>3. MachineInv
  <2>1. Zeros(RegBits) \in Reg /\ RegBits \in 0..RegBits /\ ByteBits \in 0..RegBits
    BY RegBitsType, BitTypes DEF Reg
  <2>2. sm = [on |-> TRUE, pc |-> 1, wrap |-> [target |-> 1, top |-> 2],
              x |-> Zeros(RegBits), y |-> Zeros(RegBits), osr |-> Zeros(RegBits),
              count |-> RegBits, autopull |-> TRUE, thresh |-> ByteBits]
    BY Programs DEF InitOutput, InitPio
  <2>3. [target |-> 1, top |-> 2] \in [target : 1..19, top : {2, 19}]
    OBVIOUS
  <2> QED BY <2>1, <2>2, <2>3 DEF MachineInv
<1>4. SetupInv
  BY DEF InitOutput, InitPio, Init, PusherInit, SetupInv, Active
<1>5. FedInv
  <2>1. wire = << >> /\ fed = 0
    BY DEF InitOutput, Init, PusherInit
  <2> QED BY <2>1 DEF FedInv
<1> QED BY <1>1, <1>2, <1>3, <1>4, <1>5 DEF OutputIInv

(* Only Start begins a transfer in the main loop, and Latch comes before it. *)
LEMMA MainLoopEffects ==
  ASSUME DisplayIInv, MainLoop
  PROVE  /\ Active' => Active \/ pusherPc = "start"
         /\ write_mode_' => write_mode_ \/ pusherPc = "latch"
         /\ pusherPc' = "start" => pusherPc = "latch"
         /\ pusherPc # "start" => UNCHANGED <<wire, busy>>
         /\ pusherPc = "start" => busy' # {}
<1> USE DEF statics, hardware, members, thread, pusherVars, Active, Goto
<1>0. pusherPc = "start" => appPc = "releasing"
  BY DEF DisplayIInv, StepsInv
<1>1. CASE CommonInit
  BY <1>0, <1>1 DEF CommonInit, SetPixelDouble, AppGoto
<1>2. CASE GetFramebuffer
  <2>1. UNCHANGED pusherVars /\ appPc \in {"get", "getting"}
    BY <1>2 DEF GetFramebuffer, AppGoto
  <2> QED BY <1>0, <2>1
<1>3. CASE Fill \/ DrawFrame
  BY <1>0, <1>3 DEF Fill, DrawFrame, AppGoto
<1>4. CASE ReleaseFramebuffer
  <2>1. CASE CallWriteFramebuffer(framebuffer)
    BY <2>1 DEF CallWriteFramebuffer
  <2>2. CASE Spin
    BY <2>2 DEF Spin
  <2>3. CASE Latch
    BY <2>3 DEF Latch
  <2>4. CASE Start
    BY <2>4 DEF Start
  <2> QED BY <1>4, <2>1, <2>2, <2>3, <2>4 DEF ReleaseFramebuffer
<1> QED BY <1>1, <1>2, <1>3, <1>4 DEF MainLoop

(* The engine and the handler go on with a transfer that was begun. *)
LEMMA TransferEffects ==
  ASSUME DisplayIInv, Dma \/ IrqHandler
  PROVE  /\ Active
         /\ UNCHANGED <<write_mode_, pusherPc>>
         /\ Dma => UNCHANGED wire
         /\ Len(wire) \in Nat /\ Len(wire') \in Nat /\ Len(wire) <= Len(wire')
<1> USE DEF members, thread, Active
<1>1. wire \in Seq(Nat) /\ Seq(Nat) \subseteq Seq(Int) /\ Len(wire) \in Nat
  BY DEF DisplayIInv, PusherInv, PusherTypeOK
<1>2. Dma => Active /\ UNCHANGED <<write_mode_, pusherPc, wire>>
  BY DEF Dma, DmaComplete
<1>3. IrqHandler => Active /\ UNCHANGED <<write_mode_, pusherPc>>
  BY DEF IrqHandler, IrqNextRows, IrqFrameDone, Irq
<1>4. IrqFrameDone => UNCHANGED wire
  BY DEF IrqFrameDone
<1>5. ASSUME IrqNextRows PROVE Len(wire') \in Nat /\ Len(wire) <= Len(wire')
  <2>1. PICK from \in Int, count \in Nat :
          wire' = wire \o Pixels(from, count)
    <3>1. dma_channel \in Channels /\ current_scanline \in Int /\ Width \in Nat
      BY PusherAssumption DEF DisplayIInv, PusherInv, PusherTypeOK
    <3>2. wire' = wire \o Pixels((current_scanline + 1 - 1) * Width,
                                 IF current_scanline + 1
                                      = (2 * s_framebuffer.height + 1) \div 2
                                 THEN (2 * Width) \div 4 ELSE (2 * Width) \div 2)
      BY <1>5, <3>1 DEF IrqNextRows
    <3>3. /\ (current_scanline + 1 - 1) * Width \in Int
          /\ (IF current_scanline + 1 = (2 * s_framebuffer.height + 1) \div 2
              THEN (2 * Width) \div 4 ELSE (2 * Width) \div 2) \in Nat
      BY <3>1
    <3> QED BY ONLY <3>2, <3>3, Zenon
  <2>2. Pixels(from, count) \in Seq(Int)
    BY DEF Pixels
  <2>3. Len(wire') = Len(wire) + Len(Pixels(from, count))
    BY <1>1, <2>1, <2>2, ConcatProperties
  <2>4. Len(Pixels(from, count)) \in Nat
    BY <2>2
  <2> QED BY ONLY <1>1, <2>3, <2>4
<1> QED BY <1>1, <1>2, <1>3, <1>4, <1>5 DEF IrqHandler

-----------------------------------------------------------------------------
LEMMA SetUpInv ==
  ASSUME PicoSetup, OutputIInv, SetUp
  PROVE  MachineInv' /\ PinsInv' /\ SetupInv' /\ FedInv'
<1>1. pusherPc = "latch" /\ ~write_mode_ /\ ~Active
  BY DEF SetUp, Settles, OutputIInv, DisplayIInv, PusherInv
<1>2. UNCHANGED <<pusherPc, write_mode_, busy, irqStatus, wire, fed>>
  BY DEF SetUp, vars, pusherVars, hardware, members, thread
<1>3. /\ MachineInv' /\ PinsInv'
      /\ setup' \in {"wait", "put", "clear2", "wait2", "stop", "switch", "done"}
      /\ dmaSize' = IF setup' = "done" THEN 2 ELSE 1
  BY SetupStepInv DEF SetUp, OutputIInv, PicoSetup
<1>4. SetupInv'
  BY <1>1, <1>2, <1>3 DEF SetupInv, Active
<1>5. FedInv'
  BY <1>2 DEF OutputIInv, FedInv
<1> QED BY <1>3, <1>4, <1>5

LEMMA MainInv ==
  ASSUME PicoSetup, OutputIInv, Main_
  PROVE  MachineInv' /\ PinsInv' /\ SetupInv' /\ FedInv'
<1>0. DisplayIInv /\ MachineInv /\ PinsInv /\ SetupInv /\ FedInv
  BY DEF OutputIInv
<1>1. /\ Active' => Active \/ pusherPc = "start"
      /\ write_mode_' => write_mode_ \/ pusherPc = "latch"
      /\ pusherPc' = "start" => pusherPc = "latch"
      /\ pusherPc # "start" => UNCHANGED wire
  BY <1>0, MainLoopEffects DEF Main_
<1>2. UNCHANGED <<sm, fifo, data, sck, dcPin, dmaSize, setup>>
  BY DEF Main_, Transfers, pioVars
<1>3. MachineInv' /\ PinsInv'
  BY <1>0, <1>2 DEF MachineInv, PinsInv
<1>4. SetupInv'
  <2>1. pusherPc = "latch" => write_mode_ \/ setup = "done"
    BY DEF Main_, Settles
  <2>2. write_mode_ \/ pusherPc = "start" \/ Active => setup = "done"
    BY <1>0 DEF SetupInv
  <2>3. write_mode_' \/ pusherPc' = "start" \/ Active' => setup' = "done"
    BY <1>1, <1>2, <2>1, <2>2
  <2> QED BY <1>0, <1>2, <2>3 DEF SetupInv
<1>5. FedInv'
  <2>1. CASE pusherPc = "start"
    <3>1. fed' = 0
      BY <2>1 DEF Main_, Transfers
    <3>2. Len(wire') \in Nat
      <4>1. PusherInv'
        BY <1>0, StepIInv DEF Main_, Next, DisplayIInv
      <4> QED BY <4>1 DEF PusherInv, PusherTypeOK
    <3> QED BY <3>1, <3>2 DEF FedInv
  <2>2. CASE pusherPc # "start"
    BY <1>0, <1>1, <2>2 DEF Main_, FedInv
  <2> QED BY <2>1, <2>2
<1> QED BY <1>3, <1>4, <1>5

LEMMA TransferInv ==
  ASSUME PicoSetup, OutputIInv, Done \/ Handler
  PROVE  MachineInv' /\ PinsInv' /\ SetupInv' /\ FedInv'
<1>0. DisplayIInv /\ MachineInv /\ PinsInv /\ SetupInv /\ FedInv
  BY DEF OutputIInv
<1>1. /\ Active /\ UNCHANGED <<write_mode_, pusherPc>>
      /\ Dma => UNCHANGED wire
      /\ Len(wire) \in Nat /\ Len(wire') \in Nat /\ Len(wire) <= Len(wire')
  BY <1>0, TransferEffects DEF Done, Handler
<1>2. UNCHANGED <<sm, fifo, data, sck, dcPin, dmaSize, setup, fed>>
  BY DEF Done, Handler, Transfers, pioVars
<1>3. MachineInv' /\ PinsInv'
  BY <1>0, <1>2 DEF MachineInv, PinsInv
<1>4. SetupInv'
  BY <1>0, <1>1, <1>2 DEF SetupInv
<1>5. FedInv'
  BY <1>0, <1>1, <1>2 DEF FedInv
<1> QED BY <1>3, <1>4, <1>5

LEMMA OutputStep ==
  ASSUME PicoSetup, OutputIInv, [NextOutput]_allVars PROVE OutputIInv'
<1> USE DEF OutputIInv
<1>1. DisplayIInv'
  <2>1. [Next]_vars
    BY DisplayStep DEF allVars
  <2> QED BY <2>1, StepIInv
<1>2. CASE SetUp \/ Main_ \/ Done \/ Handler
  BY <1>1, <1>2, SetUpInv, MainInv, TransferInv
<1>3. CASE Moves
  <2>1. MachineInv' /\ PinsInv' /\ FedInv' /\ UNCHANGED <<setup, dmaSize, wire>>
    BY <1>3, MovesInv DEF DisplayIInv
  <2>2. UNCHANGED <<write_mode_, pusherPc, busy, irqStatus>>
    BY <1>3 DEF Moves, vars, pusherVars, hardware, members, thread
  <2> QED BY <1>1, <2>1, <2>2 DEF SetupInv, Active
<1>4. CASE Machine
  <2>1. MachineInv' /\ PinsInv'
    BY <1>4, MachineStepInv DEF Machine
  <2>2. UNCHANGED <<write_mode_, pusherPc, busy, irqStatus, wire, fed,
                    dmaSize, setup>>
    BY <1>4 DEF Machine, SmStep, vars, pusherVars, hardware, members, thread
  <2> QED BY <1>1, <2>1, <2>2 DEF SetupInv, FedInv, Active
<1>5. CASE UNCHANGED allVars
  <2>1. UNCHANGED <<write_mode_, pusherPc, busy, irqStatus, wire>>
    BY <1>5 DEF allVars, vars, pusherVars, hardware, members, thread
  <2>2. UNCHANGED <<sm, fifo, data, sck, dcPin, dmaSize, setup, fed>>
    BY <1>5 DEF allVars, pioVars
  <2> QED
    BY <1>1, <2>1, <2>2 DEF MachineInv, PinsInv, SetupInv, FedInv, Active
<1> QED BY <1>2, <1>3, <1>4, <1>5 DEF NextOutput

LEMMA OutputAlways ==
  ASSUME PicoSetup PROVE OutputSpec => []OutputIInv
<1>1. InitOutput => OutputIInv
  BY OutputInit
<1>2. OutputIInv /\ [NextOutput]_allVars => OutputIInv'
  BY OutputStep
<1> QED BY <1>1, <1>2, PTL DEF OutputSpec

-----------------------------------------------------------------------------
(* The machine, the DMA and the set-up add no behaviour to the pipeline:    *)
(* whatever holds of DisplayPio holds while its pixels go down the wire.    *)
THEOREM OutputRunsDisplay == OutputSpec => Spec
<1>1. InitOutput => Init
  BY DEF InitOutput
<1>2. [NextOutput]_allVars => [Next]_vars
  BY DisplayStep DEF allVars
<1> QED BY <1>1, <1>2, PTL DEF OutputSpec, Spec

(* The FIFO never holds more words than it has room for, the machine keeps  *)
(* to its program and its registers to their width, the DMA never reads     *)
(* past the transfer it was given, and no framebuffer is lost meanwhile.    *)
THEOREM OutputCorrect == ASSUME PicoSetup PROVE OutputSpec => []OutputInv
<1>1. OutputIInv => PioTypeOK /\ fed \in 0 .. Len(wire) /\ NoBufferLost
  <2> SUFFICES ASSUME OutputIInv
               PROVE  PioTypeOK /\ fed \in 0 .. Len(wire) /\ NoBufferLost
    OBVIOUS
  <2>1. Memory \in Seq(Instrs) /\ Len(Memory) = 19
    BY Programs
  <2>2. sm.pc \in DOMAIN Memory
    BY <2>1 DEF OutputIInv, MachineInv
  <2>3. \A k \in DOMAIN fifo : fifo[k] \in [1 .. RegBits -> {0, 1}]
    BY DEF OutputIInv, PinsInv, Reg
  <2> QED
    BY <2>2, <2>3 DEF OutputIInv, MachineInv, PinsInv, SetupInv, FedInv,
                      DisplayIInv, PioTypeOK
<1>2. Spec => []TypeOK
  BY DisplayTypeCorrect
<1>3. TypeOK /\ PioTypeOK /\ fed \in 0 .. Len(wire) /\ NoBufferLost => OutputInv
  BY DEF OutputInv, OutputTypeOK
<1> QED BY <1>1, <1>2, <1>3, OutputAlways, OutputRunsDisplay, PTL
-----------------------------------------------------------------------------
(***************************************************************************)
(* What the panel sees.  The bits due are those of the machine's word, of  *)
(* the words in the FIFO and of the pixels not yet moved, in this order.   *)
(***************************************************************************)
Seen == {"command", "data"} \X {0, 1}

(* Sequences side by side. *)
LEMMA JoinIs ==
  ASSUME NEW S, NEW a \in Seq(S), NEW b \in Seq(S), NEW c,
         c = [k \in 1 .. Len(a) + Len(b) |-> c[k]],
         \A k \in 1 .. Len(a) : c[k] = a[k],
         \A k \in 1 .. Len(b) : c[Len(a) + k] = b[k]
  PROVE  c = a \o b
<1>1. /\ a \o b \in Seq(S) /\ Len(a \o b) = Len(a) + Len(b)
      /\ \A k \in 1 .. Len(a) + Len(b) :
           (a \o b)[k] = IF k <= Len(a) THEN a[k] ELSE b[k - Len(a)]
  BY ConcatProperties
<1>2. a \o b = [k \in 1 .. Len(a) + Len(b) |-> (a \o b)[k]]
  <2> DEFINE u == a \o b
  <2>1. u \in Seq(S) /\ Len(u) = Len(a) + Len(b)
    BY <1>1
  <2> HIDE DEF u
  <2>2. u = [k \in 1 .. Len(u) |-> u[k]]
    BY ONLY <2>1
  <2>3. u = [k \in 1 .. Len(a) + Len(b) |-> u[k]]
    BY ONLY <2>1, <2>2, Zenon
  <2> QED BY ONLY <2>3 DEF u
<1>3. ASSUME NEW k \in 1 .. Len(a) + Len(b) PROVE c[k] = (a \o b)[k]
  <2>0. Len(a) \in Nat /\ Len(b) \in Nat
    OBVIOUS
  <2>1. CASE k <= Len(a)
    <3>1. k \in 1 .. Len(a)
      BY <2>0, <2>1
    <3> QED BY <1>1, <2>1, <3>1
  <2>2. CASE ~(k <= Len(a))
    <3>1. k - Len(a) \in 1 .. Len(b) /\ Len(a) + (k - Len(a)) = k
      BY <2>0, <2>2
    <3>2. c[Len(a) + (k - Len(a))] = b[k - Len(a)]
      BY ONLY <3>1, \A n \in 1 .. Len(b) : c[Len(a) + n] = b[n]
    <3>3. (a \o b)[k] = b[k - Len(a)]
      BY <1>1, <2>2
    <3> QED BY ONLY <3>1, <3>2, <3>3
  <2> QED BY ONLY <2>1, <2>2
<1> QED BY ONLY <1>2, <1>3, c = [k \in 1 .. Len(a) + Len(b) |-> c[k]]

LEMMA JoinThree ==
  ASSUME NEW S, NEW a \in Seq(S), NEW b \in Seq(S), NEW c \in Seq(S)
  PROVE  /\ a \o b \in Seq(S)
         /\ a \o (b \o c) = (a \o b) \o c
<1>1. a \o b \in Seq(S) /\ b \o c \in Seq(S)
  OBVIOUS
<1> QED BY <1>1

Regroups(a, b, c) == a \o (b \o c) = (a \o b) \o c

LEMMA JoinRegroups ==
  ASSUME NEW S, NEW a \in Seq(S), NEW b \in Seq(S), NEW c \in Seq(S)
  PROVE  Regroups(a, b, c)
BY JoinThree DEF Regroups

LEMMA JoinNone ==
  ASSUME NEW S, NEW a \in Seq(S) PROVE << >> \o a = a /\ a \o << >> = a
OBVIOUS

LEMMA JoinOne ==
  ASSUME NEW S, NEW e \in S, NEW a \in Seq(S)
  PROVE  /\ <<e>> \o a \in Seq(S) /\ <<e>> \o a # << >>
         /\ Head(<<e>> \o a) = e /\ Tail(<<e>> \o a) = a
OBVIOUS

-----------------------------------------------------------------------------
(* The program by address. *)
TwoLonger(s, S, a, x, y) ==
  /\ s \in Seq(S) /\ Len(s) = Len(a) + 2
  /\ \A k \in 1 .. Len(a) : s[k] = a[k]
  /\ s[Len(a) + 1] = x /\ s[Len(a) + 2] = y

LEMMA TwoMore ==
  ASSUME NEW S, NEW a \in Seq(S), NEW x \in S, NEW y \in S
  PROVE  TwoLonger(a \o <<x, y>>, S, a, x, y)
<1> DEFINE b == <<x, y>>
           s == a \o b
<1>1. b \in Seq(S) /\ Len(b) = 2 /\ b[1] = x /\ b[2] = y
  OBVIOUS
<1>2. s = a \o b
  OBVIOUS
<1> HIDE DEF b, s
<1>3. /\ s \in Seq(S) /\ Len(s) = Len(a) + Len(b)
      /\ \A k \in 1 .. Len(a) + Len(b) : s[k] = IF k <= Len(a) THEN a[k] ELSE b[k - Len(a)]
  BY ONLY <1>1, <1>2, a \in Seq(S), ConcatProperties
<1>4. Len(a) \in Nat
  OBVIOUS
<1>5. \A k \in 1 .. Len(a) : k \in 1 .. Len(a) + 2 /\ k <= Len(a)
  BY <1>4
<1>6. /\ Len(a) + 1 \in 1 .. Len(a) + 2 /\ ~(Len(a) + 1 <= Len(a)) /\ Len(a) + 1 - Len(a) = 1
      /\ Len(a) + 2 \in 1 .. Len(a) + 2 /\ ~(Len(a) + 2 <= Len(a)) /\ Len(a) + 2 - Len(a) = 2
  BY <1>4
<1>7. TwoLonger(s, S, a, x, y)
  BY ONLY <1>1, <1>3, <1>5, <1>6 DEF TwoLonger
<1> QED BY ONLY <1>7 DEF s, b

Jmp(at) == Instr("jmp", "!osre", at, 1)

LEMMA PixelDouble17 ==
  LET s == st7789_pixel_double
  IN  /\ s[1] = Instr("pull", "none", 0, NoSide) /\ s[2] = Instr("keep", "x", 0, NoSide)
      /\ s[3] = Instr("out", "y", HalfBits, NoSide)
      /\ s[4] = OutPin /\ s[5] = Jmp(6) /\ s[6] = Load("x") /\ s[7] = Skip
      /\ s[8] = OutPin /\ s[9] = Jmp(10) /\ s[10] = Load("y") /\ s[11] = Skip
      /\ s[12] = OutPin /\ s[13] = Jmp(14) /\ s[14] = Load("y") /\ s[15] = Skip
      /\ s[16] = OutPin /\ s[17] = Jmp(18)
<1> DEFINE a == << Instr("pull", "none", 0, NoSide), Instr("keep", "x", 0, NoSide),
                   Instr("out", "y", HalfBits, NoSide) >>
           b == a \o <<OutPin, Jmp(6)>>
           c == b \o <<Load("x"), Skip>>
           d == c \o <<OutPin, Jmp(10)>>
           e == d \o <<Load("y"), Skip>>
           f == e \o <<OutPin, Jmp(14)>>
           g == f \o <<Load("y"), Skip>>
           h == g \o <<OutPin, Jmp(18)>>
<1>0. /\ OutPin \in Instrs /\ Skip \in Instrs /\ Load("x") \in Instrs /\ Load("y") \in Instrs
      /\ Jmp(6) \in Instrs /\ Jmp(10) \in Instrs /\ Jmp(14) \in Instrs /\ Jmp(18) \in Instrs
  BY InstrTypes, InstrIs DEF Jmp, Ops, Dsts
<1>1. a \in Seq(Instrs) /\ Len(a) = 3
      /\ a[1] = Instr("pull", "none", 0, NoSide) /\ a[2] = Instr("keep", "x", 0, NoSide)
      /\ a[3] = Instr("out", "y", HalfBits, NoSide)
  BY InstrTypes
<1>11. st7789_pixel_double = h
  BY DEF st7789_pixel_double, Loop, Jmp
<1> DEFINE Two(s, r, x, y) == TwoLonger(s, Instrs, r, x, y)
<1>2. /\ a \in Seq(Instrs) => Two(b, a, OutPin, Jmp(6))
      /\ b \in Seq(Instrs) => Two(c, b, Load("x"), Skip)
      /\ c \in Seq(Instrs) => Two(d, c, OutPin, Jmp(10))
      /\ d \in Seq(Instrs) => Two(e, d, Load("y"), Skip)
      /\ e \in Seq(Instrs) => Two(f, e, OutPin, Jmp(14))
      /\ f \in Seq(Instrs) => Two(g, f, Load("y"), Skip)
      /\ g \in Seq(Instrs) => Two(h, g, OutPin, Jmp(18))
  BY ONLY <1>0, TwoMore, Zenon
<1> HIDE DEF a, b, c, d, e, f, g, h
<1>3. /\ b \in Seq(Instrs) /\ Len(b) = 5 /\ \A k \in 1 .. 3 : b[k] = a[k]
      /\ b[4] = OutPin /\ b[5] = Jmp(6)
  BY ONLY <1>2, <1>1 DEF TwoLonger
<1>4. /\ c \in Seq(Instrs) /\ Len(c) = 7 /\ \A k \in 1 .. 5 : c[k] = b[k]
      /\ c[6] = Load("x") /\ c[7] = Skip
  BY ONLY <1>2, <1>3 DEF TwoLonger
<1>5. /\ d \in Seq(Instrs) /\ Len(d) = 9 /\ \A k \in 1 .. 7 : d[k] = c[k]
      /\ d[8] = OutPin /\ d[9] = Jmp(10)
  BY ONLY <1>2, <1>4 DEF TwoLonger
<1>6. /\ e \in Seq(Instrs) /\ Len(e) = 11 /\ \A k \in 1 .. 9 : e[k] = d[k]
      /\ e[10] = Load("y") /\ e[11] = Skip
  BY ONLY <1>2, <1>5 DEF TwoLonger
<1>7. /\ f \in Seq(Instrs) /\ Len(f) = 13 /\ \A k \in 1 .. 11 : f[k] = e[k]
      /\ f[12] = OutPin /\ f[13] = Jmp(14)
  BY ONLY <1>2, <1>6 DEF TwoLonger
<1>8. /\ g \in Seq(Instrs) /\ Len(g) = 15 /\ \A k \in 1 .. 13 : g[k] = f[k]
      /\ g[14] = Load("y") /\ g[15] = Skip
  BY ONLY <1>2, <1>7 DEF TwoLonger
<1>9. /\ h \in Seq(Instrs) /\ Len(h) = 17 /\ \A k \in 1 .. 15 : h[k] = g[k]
      /\ h[16] = OutPin /\ h[17] = Jmp(18)
  BY ONLY <1>2, <1>8 DEF TwoLonger
<1> QED BY ONLY <1>1, <1>3, <1>4, <1>5, <1>6, <1>7, <1>8, <1>9, <1>11

LEMMA Addresses ==
  /\ Memory[1] = OutPin /\ Memory[2] = Instr("nop", "none", 0, 1)
  /\ Memory[3] = Instr("pull", "none", 0, NoSide)
  /\ Memory[4] = Instr("keep", "x", 0, NoSide)
  /\ Memory[5] = Instr("out", "y", HalfBits, NoSide)
  /\ Memory[6] = OutPin /\ Memory[7] = Jmp(6) /\ Memory[8] = Load("x") /\ Memory[9] = Skip
  /\ Memory[10] = OutPin /\ Memory[11] = Jmp(10) /\ Memory[12] = Load("y") /\ Memory[13] = Skip
  /\ Memory[14] = OutPin /\ Memory[15] = Jmp(14) /\ Memory[16] = Load("y") /\ Memory[17] = Skip
  /\ Memory[18] = OutPin /\ Memory[19] = Jmp(18)
<1> DEFINE a == st7789_raw
           b == st7789_pixel_double
<1>1. a \in Seq(Instrs) /\ Len(a) = 2 /\ b \in Seq(Instrs) /\ Len(b) = 17
  BY Programs
<1>2. a[1] = OutPin /\ a[2] = Instr("nop", "none", 0, 1)
  BY DEF st7789_raw
<1>3. Memory = a \o b
  BY DEF Memory
<1> HIDE DEF a, b
<1>4. \A k \in 1 .. 19 : Memory[k] = IF k <= 2 THEN a[k] ELSE b[k - 2]
  <2>1. Len(a) + Len(b) = 19
    BY ONLY <1>1
  <2>2. \A k \in 1 .. Len(a) + Len(b) : (a \o b)[k] = IF k <= Len(a) THEN a[k] ELSE b[k - Len(a)]
    BY ONLY <1>1, ConcatProperties
  <2> QED BY ONLY <1>1, <1>3, <2>1, <2>2
<1>5. Memory[1] = a[1] /\ Memory[2] = a[2] /\ \A k \in 3 .. 19 : Memory[k] = b[k - 2]
  BY ONLY <1>4
<1> QED BY ONLY <1>2, <1>5, PixelDouble17 DEF a, b

-----------------------------------------------------------------------------
(* The bits of a register that are to be seen. *)
Sent(mode, w, n) == [k \in 1 .. n |-> <<mode, w[k]>>]
Hi(w) == Sent("data", w, HalfBits)
Lo(w) == [k \in 1 .. HalfBits |-> <<"data", w[HalfBits + k]>>]
Once(mode, b) == << <<mode, b>> >>
Word(w) == Lo(w) \o (Lo(w) \o (Hi(w) \o Hi(w)))

LEMMA SentType ==
  ASSUME NEW mode \in {"command", "data"}, NEW w \in Reg
  PROVE  /\ \A n \in 0 .. RegBits : Sent(mode, w, n) \in Seq(Seen) /\ Len(Sent(mode, w, n)) = n
         /\ Hi(w) \in Seq(Seen) /\ Lo(w) \in Seq(Seen) /\ Word(w) \in Seq(Seen)
<1>0. HalfBits \in 0 .. RegBits /\ RegBits \in Nat /\ RegBits = HalfBits + HalfBits
  BY RegBitsType
<1>1. \A k \in 1 .. RegBits : w[k] \in {0, 1}
  BY DEF Reg
<1>2. ASSUME NEW m \in {"command", "data"}, NEW n \in 0 .. RegBits
      PROVE  Sent(m, w, n) \in Seq(Seen) /\ Len(Sent(m, w, n)) = n
  <2>1. \A k \in 1 .. n : <<m, w[k]>> \in Seen
    BY <1>0, <1>1 DEF Seen
  <2> QED BY <1>0, <2>1 DEF Sent
<1>3. Hi(w) \in Seq(Seen)
  BY <1>0, <1>2 DEF Hi
<1>4. Lo(w) \in Seq(Seen)
  <2>1. \A k \in 1 .. HalfBits : HalfBits + k \in 1 .. RegBits
    BY <1>0
  <2>2. \A k \in 1 .. HalfBits : <<"data", w[HalfBits + k]>> \in Seen
    BY <1>1, <2>1 DEF Seen
  <2> QED BY <1>0, <2>2 DEF Lo
<1>5. Word(w) \in Seq(Seen)
  BY ONLY <1>3, <1>4, JoinThree, Zenon DEF Word
<1> QED BY <1>2, <1>3, <1>4, <1>5

(* A shift by one bit, and by half a register. *)
LEMMA ShiftOne ==
  ASSUME NEW mode \in {"command", "data"}, NEW w \in Reg, NEW n \in 1 .. RegBits, NEW v,
         v = SubSeq(w, 2, RegBits) \o Zeros(1)
  PROVE  Sent(mode, w, n) = Once(mode, w[1]) \o Sent(mode, v, n - 1)
<1>0. RegBits \in Nat /\ RegBits >= 1 /\ n \in Nat /\ n - 1 \in 0 .. RegBits
  BY RegBitsType
<1>1. w \in Seq({0, 1}) /\ Len(w) = RegBits
  BY <1>0, WordIsSeq DEF Reg
<1> DEFINE a == SubSeq(w, 2, RegBits)
           b == Zeros(1)
<1>2. a \in Seq({0, 1}) /\ Len(a) = RegBits - 1 /\ \A k \in 1 .. RegBits - 1 : a[k] = w[k + 1]
  BY <1>0, <1>1, SubSeqProperties
<1>3. b \in Seq({0, 1}) /\ Len(b) = 1
  BY WordIsSeq, BitTypes
<1>4. v \in Reg
  <2>1. a \o b \in Seq({0, 1}) /\ Len(a \o b) = RegBits
    BY <1>0, <1>2, <1>3, SMTT(30)
  <2> QED BY <1>0, <2>1, WordIsSeq DEF Reg
<1>5. \A k \in 1 .. RegBits - 1 : v[k] = w[k + 1]
  <2> HIDE DEF a, b
  <2>1. v = a \o b
    BY DEF a, b
  <2>2. \A k \in 1 .. Len(a) + Len(b) : (a \o b)[k] = IF k <= Len(a) THEN a[k] ELSE b[k - Len(a)]
    BY ONLY <1>2, <1>3, ConcatProperties
  <2>3. \A k \in 1 .. RegBits - 1 : v[k] = a[k]
    BY ONLY <1>0, <1>2, <1>3, <2>1, <2>2
  <2> QED BY ONLY <1>2, <2>3
<1> DEFINE x == Once(mode, w[1])
           y == Sent(mode, v, n - 1)
           z == Sent(mode, w, n)
<1>6. y \in Seq(Seen) /\ Len(y) = n - 1
  BY <1>0, <1>4, SentType
<1>7. x \in Seq(Seen) /\ Len(x) = 1 /\ x[1] = <<mode, w[1]>>
  BY <1>0 DEF Once, Seen, Reg
<1>8. z = [k \in 1 .. 1 + (n - 1) |-> z[k]]
  BY <1>0 DEF Sent
<1>9. z[1] = <<mode, w[1]>>
  BY <1>0 DEF Sent
<1>10. \A k \in 1 .. n - 1 : z[1 + k] = y[k]
  BY <1>0, <1>5 DEF Sent
<1> HIDE DEF x, y, z
<1>11. z = x \o y
  <2>1. \A k \in 1 .. Len(x) : z[k] = x[k]
    BY ONLY <1>7, <1>9
  <2>2. z = [k \in 1 .. Len(x) + Len(y) |-> z[k]]
    BY ONLY <1>6, <1>7, <1>8
  <2>3. \A k \in 1 .. Len(y) : z[Len(x) + k] = y[k]
    BY ONLY <1>6, <1>7, <1>10
  <2>4. x \in Seq(Seen) /\ y \in Seq(Seen)
    BY ONLY <1>6, <1>7
  <2> QED BY ONLY <2>1, <2>2, <2>3, <2>4, JoinIs
<1> QED BY ONLY <1>11 DEF x, y, z

LEMMA ShiftHalf ==
  ASSUME NEW w \in Reg, NEW v, v = SubSeq(w, HalfBits + 1, RegBits) \o Zeros(HalfBits)
  PROVE  Sent("data", v, RegBits - HalfBits) = Lo(w)
<1>0. HalfBits \in Nat /\ RegBits \in Nat /\ RegBits = HalfBits + HalfBits /\ HalfBits >= 1
  BY RegBitsType
<1>1. w \in Seq({0, 1}) /\ Len(w) = RegBits
  BY <1>0, WordIsSeq DEF Reg
<1> DEFINE a == SubSeq(w, HalfBits + 1, RegBits)
           b == Zeros(HalfBits)
<1>2. a \in Seq({0, 1}) /\ Len(a) = HalfBits /\ \A k \in 1 .. HalfBits : a[k] = w[HalfBits + k]
  BY <1>0, <1>1, SubSeqProperties
<1>3. b \in Seq({0, 1}) /\ Len(b) = HalfBits
  BY <1>0, WordIsSeq, BitTypes
<1> HIDE DEF a, b
<1>4. \A k \in 1 .. HalfBits : v[k] = w[HalfBits + k]
  <2>1. v = a \o b
    BY DEF a, b
  <2>2. \A k \in 1 .. Len(a) + Len(b) : (a \o b)[k] = IF k <= Len(a) THEN a[k] ELSE b[k - Len(a)]
    BY ONLY <1>2, <1>3, ConcatProperties
  <2> QED BY ONLY <1>0, <1>2, <1>3, <2>1, <2>2
<1>5. RegBits - HalfBits = HalfBits
  BY <1>0
<1> QED BY ONLY <1>4, <1>5 DEF Sent, Lo

(* The half that out moves to y. *)
LEMMA HalfOut ==
  ASSUME NEW w \in Reg, NEW v, v = Zeros(RegBits - HalfBits) \o SubSeq(w, 1, HalfBits)
  PROVE  Lo(v) = Hi(w)
<1>0. HalfBits \in Nat /\ RegBits \in Nat /\ RegBits = HalfBits + HalfBits /\ HalfBits >= 1
      /\ RegBits - HalfBits = HalfBits
  BY RegBitsType
<1>1. w \in Seq({0, 1}) /\ Len(w) = RegBits
  BY <1>0, WordIsSeq DEF Reg
<1> DEFINE a == Zeros(RegBits - HalfBits)
           b == SubSeq(w, 1, HalfBits)
<1>2. b \in Seq({0, 1}) /\ Len(b) = HalfBits /\ \A k \in 1 .. HalfBits : b[k] = w[k]
  BY <1>0, <1>1, SubSeqProperties
<1>3. a \in Seq({0, 1}) /\ Len(a) = HalfBits
  BY <1>0, WordIsSeq, BitTypes
<1> HIDE DEF a, b
<1>4. \A k \in 1 .. HalfBits : v[HalfBits + k] = w[k]
  <2>1. v = a \o b
    BY DEF a, b
  <2>2. \A k \in 1 .. Len(a) + Len(b) : (a \o b)[k] = IF k <= Len(a) THEN a[k] ELSE b[k - Len(a)]
    BY ONLY <1>2, <1>3, ConcatProperties
  <2>3. \A j \in 1 .. RegBits : ~(j <= HalfBits) => v[j] = b[j - HalfBits]
    BY ONLY <1>0, <1>2, <1>3, <2>1, <2>2
  <2>4. ASSUME NEW k \in 1 .. HalfBits PROVE v[HalfBits + k] = b[k]
    <3> DEFINE j == HalfBits + k
    <3>1. j \in 1 .. RegBits /\ ~(j <= HalfBits) /\ j - HalfBits = k
      BY ONLY <1>0, k \in 1 .. HalfBits
    <3> HIDE DEF j
    <3>2. v[j] = b[k]
      BY ONLY <2>3, <3>1
    <3> QED BY ONLY <3>2 DEF j
  <2> QED BY ONLY <1>2, <2>4
<1> QED BY ONLY <1>4 DEF Sent, Hi, Lo

-----------------------------------------------------------------------------
(* What the machine s, which drives the data pin to d, has still to show of *)
(* its word: Now of its register, and Later; then comes r.                  *)
OutsAt == {6, 10, 14, 18}
JumpsAt == {7, 11, 15, 19}
LeftOf(mode, s, last) == Sent(mode, s.osr, last - s.count)

Now(s, d) ==
  CASE s.pc = 3 -> << >>
    [] s.pc \in OutsAt -> LeftOf("data", s, RegBits)
    [] s.pc \in JumpsAt -> Once("data", d) \o LeftOf("data", s, RegBits)
    [] s.pc = 8 -> Lo(s.x)
    [] s.pc \in {12, 16} -> Lo(s.y)
    [] OTHER -> Lo(s.osr)

Later(s) ==
  CASE s.pc = 4 -> Lo(s.osr) \o (Hi(s.osr) \o Hi(s.osr))
    [] s.pc = 5 -> Lo(s.x) \o (Hi(s.osr) \o Hi(s.osr))
    [] s.pc \in {6, 7} -> Lo(s.x) \o (Lo(s.y) \o Lo(s.y))
    [] s.pc \in {8, 9, 10, 11} -> Lo(s.y) \o Lo(s.y)
    [] s.pc \in {12, 13, 14, 15} -> Lo(s.y)
    [] OTHER -> << >>

Owed(s, d, r) == Now(s, d) \o (Later(s) \o r)

Registers(s) ==
  /\ s.pc \in 3 .. 19 /\ s.count \in 0 .. RegBits
  /\ s.x \in Reg /\ s.y \in Reg /\ s.osr \in Reg

LEMMA OwedType ==
  ASSUME NEW s, Registers(s), NEW d \in {0, 1}, NEW r \in Seq(Seen)
  PROVE  /\ Now(s, d) \in Seq(Seen) /\ Later(s) \in Seq(Seen) /\ Owed(s, d, r) \in Seq(Seen)
         /\ LeftOf("data", s, RegBits) \in Seq(Seen)
<1>0. RegBits \in Nat /\ s.pc \in 3 .. 19 /\ s.count \in 0 .. RegBits
      /\ s.x \in Reg /\ s.y \in Reg /\ s.osr \in Reg
  BY RegBitsType DEF Registers
<1>1. /\ Lo(s.x) \in Seq(Seen) /\ Lo(s.y) \in Seq(Seen) /\ Lo(s.osr) \in Seq(Seen)
      /\ Hi(s.osr) \in Seq(Seen) /\ << >> \in Seq(Seen)
  BY <1>0, SentType
<1>2. RegBits - s.count \in 0 .. RegBits
  BY <1>0
<1>3. LeftOf("data", s, RegBits) \in Seq(Seen)
  <2> DEFINE n == RegBits - s.count
             w == s.osr
  <2>1. n \in 0 .. RegBits /\ w \in Reg /\ "data" \in {"command", "data"}
    BY ONLY <1>0, <1>2
  <2> HIDE DEF n, w
  <2>2. Sent("data", w, n) \in Seq(Seen)
    BY ONLY <2>1, SentType, Zenon
  <2> QED BY ONLY <2>2, Zenon DEF LeftOf, n, w
<1>4. Once("data", d) \in Seq(Seen)
  BY DEF Once, Seen
<1>5. Once("data", d) \o LeftOf("data", s, RegBits) \in Seq(Seen)
  BY ONLY <1>3, <1>4, JoinThree, Zenon
<1>6. Now(s, d) \in Seq(Seen)
  BY ONLY <1>1, <1>3, <1>5, Zenon DEF Now
<1>7. /\ Hi(s.osr) \o Hi(s.osr) \in Seq(Seen) /\ Lo(s.y) \o Lo(s.y) \in Seq(Seen)
  BY ONLY <1>1, JoinThree, Zenon
<1>8. /\ Lo(s.osr) \o (Hi(s.osr) \o Hi(s.osr)) \in Seq(Seen)
      /\ Lo(s.x) \o (Hi(s.osr) \o Hi(s.osr)) \in Seq(Seen)
      /\ Lo(s.x) \o (Lo(s.y) \o Lo(s.y)) \in Seq(Seen)
  BY ONLY <1>1, <1>7, JoinThree, Zenon
<1>9. Later(s) \in Seq(Seen)
  BY ONLY <1>1, <1>7, <1>8, Zenon DEF Later
<1>10. Owed(s, d, r) \in Seq(Seen)
  BY ONLY <1>6, <1>9, r \in Seq(Seen), JoinThree, Zenon DEF Owed
<1> QED BY ONLY <1>3, <1>6, <1>9, <1>10

(* A word is pulled from those that come after. *)
LEMMA OwedPull ==
  ASSUME NEW s, Registers(s), s.pc = 3, NEW d \in {0, 1}, NEW r \in Seq(Seen), NEW w \in Reg,
         NEW t, t.pc = 4, t.osr = w
  PROVE  Owed(t, d, r) = Owed(s, d, Word(w) \o r)
<1>1. Lo(w) \in Seq(Seen) /\ Hi(w) \in Seq(Seen) /\ Word(w) \in Seq(Seen)
  BY SentType
<1> DEFINE b == Lo(w) \o (Hi(w) \o Hi(w))
<1>2. b \in Seq(Seen)
  BY ONLY <1>1, JoinThree, Zenon
<1>3. Now(t, d) = Lo(w) /\ Later(t) = b
  BY DEF Now, Later, OutsAt, JumpsAt
<1>4. Now(s, d) = << >> /\ Later(s) = << >>
  BY DEF Now, Later, OutsAt, JumpsAt
<1>5. Word(w) = Lo(w) \o b
  BY DEF Word
<1> HIDE DEF b
<1>6. Word(w) \o r = Lo(w) \o (b \o r)
  <2>1. Regroups(Lo(w), b, r)
    BY ONLY <1>1, <1>2, r \in Seq(Seen), JoinRegroups, Zenon
  <2> QED BY ONLY <1>5, <2>1, Zenon DEF Regroups
<1>7. Word(w) \o r \in Seq(Seen)
  BY ONLY <1>1, r \in Seq(Seen), JoinThree, Zenon
<1>8. << >> \o (<< >> \o (Word(w) \o r)) = Word(w) \o r
  BY ONLY <1>7, JoinNone, Zenon
<1> QED BY ONLY <1>3, <1>4, <1>6, <1>8, Zenon DEF Owed

LEMMA OwedKeep ==
  ASSUME NEW s, s.pc = 4, NEW d, NEW r, NEW t, t.pc = 5, t.osr = s.osr, t.x = s.osr
  PROVE  Owed(t, d, r) = Owed(s, d, r)
<1>1. Now(t, d) = Now(s, d)
  BY DEF Now, OutsAt, JumpsAt
<1>2. Later(t) = Later(s)
  BY DEF Later
<1> QED BY ONLY <1>1, <1>2, Zenon DEF Owed

(* The first half goes to y, the second is what the register shows. *)
LEMMA OwedHalf ==
  ASSUME NEW s, Registers(s), s.pc = 5, NEW d, NEW r, NEW t,
         t.pc = 6, t.count = HalfBits, t.x = s.x,
         t.osr = SubSeq(s.osr, HalfBits + 1, RegBits) \o Zeros(HalfBits),
         t.y = Zeros(RegBits - HalfBits) \o SubSeq(s.osr, 1, HalfBits)
  PROVE  Owed(t, d, r) = Owed(s, d, r)
<1>1. Now(t, d) = LeftOf("data", t, RegBits) /\ Now(s, d) = Lo(s.osr)
  BY DEF Now, OutsAt, JumpsAt
<1>2. LeftOf("data", t, RegBits) = Lo(s.osr)
  BY ShiftHalf DEF Registers, LeftOf
<1>3. Lo(t.y) = Hi(s.osr)
  BY HalfOut DEF Registers
<1>4. /\ Later(t) = Lo(s.x) \o (Lo(t.y) \o Lo(t.y))
      /\ Later(s) = Lo(s.x) \o (Hi(s.osr) \o Hi(s.osr))
  BY DEF Later
<1> QED BY ONLY <1>1, <1>2, <1>3, <1>4, Zenon DEF Owed

LEMMA OwedMove ==
  ASSUME NEW s, s.pc \in {8, 12, 16}, NEW d, NEW r, NEW t, t.pc = s.pc + 1,
         t.osr = IF s.pc = 8 THEN s.x ELSE s.y, t.y = s.y
  PROVE  Owed(t, d, r) = Owed(s, d, r)
<1>1. Now(t, d) = Now(s, d)
  BY DEF Now, OutsAt, JumpsAt
<1>2. Later(t) = Later(s)
  BY DEF Later
<1> QED BY ONLY <1>1, <1>2, Zenon DEF Owed

LEMMA OwedSkip ==
  ASSUME NEW s, Registers(s), s.pc \in {9, 13, 17}, NEW d, NEW r, NEW t, t.pc = s.pc + 1,
         t.count = HalfBits, t.y = s.y,
         t.osr = SubSeq(s.osr, HalfBits + 1, RegBits) \o Zeros(HalfBits)
  PROVE  Owed(t, d, r) = Owed(s, d, r)
<1>1. Now(t, d) = LeftOf("data", t, RegBits) /\ Now(s, d) = Lo(s.osr)
  BY DEF Now, OutsAt, JumpsAt
<1>2. LeftOf("data", t, RegBits) = Lo(s.osr)
  BY ShiftHalf DEF Registers, LeftOf
<1>3. Later(t) = Later(s)
  BY DEF Later
<1> QED BY ONLY <1>1, <1>2, <1>3, Zenon DEF Owed

(* The bit that goes to the pin is the first that was left. *)
OneOut(s, t) ==
  /\ s.pc \in OutsAt /\ s.count < RegBits
  /\ t.pc = s.pc + 1 /\ t.count = s.count + 1 /\ t.x = s.x /\ t.y = s.y
  /\ t.osr = SubSeq(s.osr, 2, RegBits) \o Zeros(1)

LEMMA OwedOut ==
  ASSUME NEW s, Registers(s), NEW d, NEW r, NEW t, OneOut(s, t)
  PROVE  Owed(t, s.osr[1], r) = Owed(s, d, r)
<1> DEFINE e == s.osr[1]
<1>0. /\ s.pc \in OutsAt /\ s.count < RegBits
      /\ t.pc = s.pc + 1 /\ t.count = s.count + 1 /\ t.x = s.x /\ t.y = s.y
      /\ t.osr = SubSeq(s.osr, 2, RegBits) \o Zeros(1)
  BY DEF OneOut
<1>1. Now(s, d) = LeftOf("data", s, RegBits)
  BY ONLY <1>0, SMTT(30) DEF Now, OutsAt, JumpsAt
<1>2. Now(t, e) = Once("data", e) \o LeftOf("data", t, RegBits)
  BY ONLY <1>0, SMTT(30) DEF Now, OutsAt, JumpsAt
<1>3. LeftOf("data", s, RegBits) = Once("data", e) \o LeftOf("data", t, RegBits)
  <2>1. /\ RegBits - s.count \in 1 .. RegBits
        /\ RegBits - t.count = RegBits - s.count - 1
    BY <1>0, RegBitsType DEF Registers
  <2>2. s.osr \in Reg
    BY DEF Registers
  <2>3. Sent("data", s.osr, RegBits - s.count)
          = Once("data", s.osr[1]) \o Sent("data", t.osr, RegBits - s.count - 1)
    BY ONLY <1>0, <2>1, <2>2, ShiftOne
  <2> QED BY ONLY <2>1, <2>3, Zenon DEF LeftOf
<1>4. Later(t) = Later(s)
  <2>1. CASE s.pc = 6
    BY <1>0, <2>1 DEF Later
  <2>2. CASE s.pc = 10
    BY <1>0, <2>2 DEF Later
  <2>3. CASE s.pc = 14
    BY <1>0, <2>3 DEF Later
  <2>4. CASE s.pc = 18
    BY <1>0, <2>4 DEF Later
  <2> QED BY <1>0, <2>1, <2>2, <2>3, <2>4 DEF OutsAt
<1> QED BY ONLY <1>1, <1>2, <1>3, <1>4, Zenon DEF Owed

(* Where the jump goes: back while bits are left, on when none is. *)
OneJump(s, t) ==
  /\ s.pc \in JumpsAt
  /\ t.osr = s.osr /\ t.count = s.count /\ t.x = s.x /\ t.y = s.y
  /\ t.pc = IF s.count >= RegBits THEN IF s.pc = 19 THEN 3 ELSE s.pc + 1 ELSE s.pc - 1

LEMMA OwedJump ==
  ASSUME NEW s, Registers(s), NEW d \in {0, 1}, NEW r \in Seq(Seen), NEW t, OneJump(s, t)
  PROVE  Owed(s, d, r) = Once("data", d) \o Owed(t, d, r)
<1> USE DEF OneJump
<1> DEFINE e == Once("data", d)
           a == LeftOf("data", s, RegBits)
           b == Later(s)
<1>0. e \in Seq(Seen)
  BY DEF Once, Seen
<1>1. a \in Seq(Seen) /\ b \in Seq(Seen)
  BY OwedType
<1>2. Now(s, d) = e \o a
  BY DEF Now, OutsAt, JumpsAt
<1>3. a \o (b \o r) = Owed(t, d, r)
  <2>1. CASE s.count >= RegBits
    <3>0. s.count = RegBits /\ RegBits - s.count = 0
      BY <2>1, RegBitsType DEF Registers
    <3>1. a = << >>
      BY <3>0 DEF LeftOf, Sent
    <3>2. b \o r \in Seq(Seen)
      BY ONLY <1>1, r \in Seq(Seen), JoinThree, Zenon
    <3>3. a \o (b \o r) = b \o r
      BY ONLY <3>1, <3>2, JoinNone, Zenon
    <3>4. CASE s.pc = 19
      <4>1. b = << >> /\ Now(t, d) = << >> /\ Later(t) = << >>
        BY <2>1, <3>4 DEF Now, Later, OutsAt, JumpsAt
      <4>2. << >> \o r = r
        BY JoinNone
      <4> QED BY ONLY <3>3, <4>1, <4>2, Zenon DEF Owed
    <3>5. CASE s.pc # 19
      <4>1. t.pc = s.pc + 1 /\ s.pc \in {7, 11, 15}
        BY <2>1, <3>5 DEF JumpsAt
      <4>2. Now(t, d) \in Seq(Seen) /\ Later(t) \in Seq(Seen)
        <5>1. Registers(t)
          BY <4>1 DEF Registers
        <5> QED BY ONLY <5>1, r \in Seq(Seen), d \in {0, 1}, OwedType
      <4>3. b = Now(t, d) \o Later(t)
        <5>1. CASE s.pc = 7
          <6>1. /\ b = Lo(s.x) \o (Lo(s.y) \o Lo(s.y)) /\ Now(t, d) = Lo(t.x)
                /\ Later(t) = Lo(t.y) \o Lo(t.y)
            BY <4>1, <5>1 DEF Now, Later, OutsAt, JumpsAt
          <6> HIDE DEF b
          <6> QED BY ONLY <6>1, t.x = s.x, t.y = s.y, Zenon
        <5>2. CASE s.pc = 11
          <6>1. b = Lo(s.y) \o Lo(s.y) /\ Now(t, d) = Lo(t.y) /\ Later(t) = Lo(t.y)
            BY <4>1, <5>2 DEF Now, Later, OutsAt, JumpsAt
          <6> HIDE DEF b
          <6> QED BY ONLY <6>1, t.y = s.y, Zenon
        <5>3. CASE s.pc = 15
          <6>1. b = Lo(t.y) /\ Now(t, d) = Lo(t.y) /\ Later(t) = << >>
            BY <4>1, <5>3 DEF Now, Later, OutsAt, JumpsAt
          <6> HIDE DEF b
          <6> QED BY ONLY <4>2, <6>1, JoinNone, Zenon
        <5> QED BY <4>1, <5>1, <5>2, <5>3
      <4> HIDE DEF b
      <4>4. Regroups(Now(t, d), Later(t), r)
        BY ONLY <4>2, r \in Seq(Seen), JoinRegroups, Zenon
      <4> QED BY ONLY <3>3, <4>3, <4>4, Zenon DEF Owed, Regroups
    <3> QED BY <3>4, <3>5
  <2>2. CASE ~(s.count >= RegBits)
    <3>1. t.pc = s.pc - 1 /\ s.pc \in JumpsAt
      BY <2>2
    <3>2. Now(t, d) = a
      BY <3>1 DEF Now, OutsAt, JumpsAt, LeftOf
    <3>3. Later(t) = b
      BY <3>1 DEF Later, JumpsAt
    <3> HIDE DEF a, b
    <3> QED BY ONLY <3>2, <3>3, Zenon DEF Owed
  <2> QED BY ONLY <2>1, <2>2
<1>4. Owed(s, d, r) = (e \o a) \o (b \o r)
  BY ONLY <1>2, Zenon DEF Owed
<1> HIDE DEF a, b, e
<1>5. b \o r \in Seq(Seen)
  BY ONLY <1>1, r \in Seq(Seen), JoinThree, Zenon
<1> DEFINE c == b \o r
<1>6. e \o (a \o c) = (e \o a) \o c
  <2>1. c \in Seq(Seen)
    BY ONLY <1>5
  <2> HIDE DEF c
  <2>2. Regroups(e, a, c)
    BY ONLY <1>0, <1>1, <2>1, JoinRegroups, Zenon
  <2> QED BY ONLY <2>2, Zenon DEF Regroups
<1>7. Owed(s, d, r) = e \o Owed(t, d, r)
  BY ONLY <1>3, <1>4, <1>6, Zenon
<1> QED BY ONLY <1>7 DEF e

-----------------------------------------------------------------------------
(* The bits r of the words q, before those that u stands for. *)
Chain(f, q, u) ==
  /\ f \in [0 .. Len(q) -> Seq(Seen)] /\ f[Len(q)] = u
  /\ \A k \in 1 .. Len(q) : f[k - 1] = Word(q[k]) \o f[k]
Rest(q, u, r) == \E f : Chain(f, q, u) /\ f[0] = r

LEMMA RestType ==
  ASSUME NEW q \in Seq(Reg), NEW u, NEW r, Rest(q, u, r)
  PROVE  r \in Seq(Seen) /\ u \in Seq(Seen)
<1>1. PICK f : Chain(f, q, u) /\ f[0] = r
  BY DEF Rest
<1>2. 0 \in 0 .. Len(q) /\ Len(q) \in 0 .. Len(q)
  OBVIOUS
<1> QED BY ONLY <1>1, <1>2 DEF Chain

LEMMA RestNone ==
  ASSUME NEW u \in Seq(Seen) PROVE Rest(<< >>, u, u)
<1> DEFINE f == [k \in 0 .. 0 |-> u]
<1>1. Chain(f, << >>, u) /\ f[0] = u
  BY DEF Chain
<1> QED BY ONLY <1>1 DEF Rest

LEMMA RestEmpty ==
  ASSUME NEW u, NEW r, Rest(<< >>, u, r) PROVE r = u
BY DEF Rest, Chain

LEMMA RestHead ==
  ASSUME NEW q \in Seq(Reg), q # << >>, NEW u, NEW r, Rest(q, u, r)
  PROVE  \E p \in Seq(Seen) : r = Word(Head(q)) \o p /\ Rest(Tail(q), u, p)
<1>1. PICK f : Chain(f, q, u) /\ f[0] = r
  BY DEF Rest
<1> DEFINE n == Len(q)
           t == Tail(q)
           g == [k \in 0 .. Len(t) |-> f[k + 1]]
<1>2. n \in Nat /\ n >= 1 /\ t \in Seq(Reg) /\ Len(t) = n - 1
      /\ (\A k \in 1 .. n - 1 : t[k] = q[k + 1]) /\ Head(q) = q[1]
  OBVIOUS
<1>3. /\ f \in [0 .. n -> Seq(Seen)] /\ f[n] = u
      /\ \A k \in 1 .. n : f[k - 1] = Word(q[k]) \o f[k]
  BY ONLY <1>1 DEF Chain
<1> HIDE DEF n, t
<1>4. \A k \in 0 .. Len(t) : g[k] = f[k + 1]
  OBVIOUS
<1>5. g = [k \in 0 .. Len(t) |-> g[k]]
  OBVIOUS
<1> HIDE DEF g
<1>6. g \in [0 .. Len(t) -> Seq(Seen)] /\ g[Len(t)] = u
  <2>1. \A k \in 0 .. Len(t) : k + 1 \in 0 .. n
    BY ONLY <1>2
  <2>2. \A k \in 0 .. Len(t) : g[k] \in Seq(Seen)
    BY ONLY <1>3, <1>4, <2>1
  <2>3. Len(t) \in 0 .. Len(t) /\ Len(t) + 1 = n
    BY ONLY <1>2
  <2>4. g[Len(t)] = u
    BY ONLY <1>3, <1>4, <2>3
  <2> QED BY ONLY <1>5, <2>2, <2>4
<1>12. ASSUME NEW k \in 0 .. n - 1 PROVE f[k] = Word(q[k + 1]) \o f[k + 1]
  <2> DEFINE m == k + 1
  <2>1. m \in 1 .. n /\ m - 1 = k
    BY ONLY <1>2, k \in 0 .. n - 1
  <2> HIDE DEF m
  <2>2. f[k] = Word(q[m]) \o f[m]
    BY ONLY <1>3, <2>1
  <2> QED BY ONLY <2>2 DEF m
<1>7. ASSUME NEW k \in 1 .. Len(t) PROVE g[k - 1] = Word(t[k]) \o g[k]
  <2>1. k + 1 \in 1 .. n /\ k + 1 - 1 = k /\ k - 1 + 1 = k /\ k \in 1 .. n - 1
        /\ k - 1 \in 0 .. Len(t) /\ k \in 0 .. Len(t)
    BY ONLY <1>2, k \in 1 .. Len(t)
  <2>2. g[k - 1] = f[k] /\ g[k] = f[k + 1] /\ t[k] = q[k + 1]
    BY ONLY <1>2, <1>4, <2>1
  <2>3. f[k] = Word(q[k + 1]) \o f[k + 1]
    BY ONLY <1>2, <1>12, <2>1
  <2> QED BY ONLY <2>2, <2>3, Zenon
<1>8. Chain(g, t, u)
  BY ONLY <1>6, <1>7 DEF Chain
<1>9. g[0] = f[1] /\ f[1] \in Seq(Seen)
  BY ONLY <1>2, <1>3, <1>4
<1>10. f[0] = Word(q[1]) \o f[1]
  <2>1. 0 \in 0 .. n - 1 /\ 0 + 1 = 1
    BY ONLY <1>2
  <2>2. f[0] = Word(q[0 + 1]) \o f[0 + 1]
    BY ONLY <1>12, <2>1, Zenon
  <2> QED BY ONLY <2>1, <2>2, Zenon
<1>11. r = Word(Head(q)) \o g[0] /\ g[0] \in Seq(Seen) /\ Rest(t, u, g[0])
  BY ONLY <1>1, <1>2, <1>8, <1>9, <1>10 DEF Rest
<1> QED BY ONLY <1>11 DEF t

LEMMA RestMore ==
  ASSUME NEW q \in Seq(Reg), NEW w \in Reg, NEW u \in Seq(Seen), NEW r,
         Rest(q, Word(w) \o u, r)
  PROVE  Rest(Append(q, w), u, r)
<1>1. PICK f : Chain(f, q, Word(w) \o u) /\ f[0] = r
  BY DEF Rest
<1> DEFINE n == Len(q)
           t == Append(q, w)
           g == [k \in 0 .. n + 1 |-> IF k = n + 1 THEN u ELSE f[k]]
<1>2. n \in Nat /\ Len(t) = n + 1 /\ (\A k \in 1 .. n : t[k] = q[k]) /\ t[n + 1] = w
  OBVIOUS
<1>3. /\ f \in [0 .. n -> Seq(Seen)] /\ f[n] = Word(w) \o u
      /\ \A k \in 1 .. n : f[k - 1] = Word(q[k]) \o f[k]
  BY ONLY <1>1 DEF Chain
<1> HIDE DEF n, t
<1>4. /\ g \in [0 .. n + 1 -> Seq(Seen)] /\ g[n + 1] = u
      /\ \A k \in 0 .. n : g[k] = f[k]
  BY ONLY <1>2, <1>3, u \in Seq(Seen)
<1> HIDE DEF g
<1>5. ASSUME NEW k \in 1 .. n + 1 PROVE g[k - 1] = Word(t[k]) \o g[k]
  <2>1. CASE k = n + 1
    <3>1. k - 1 = n /\ n \in 0 .. n
      BY ONLY <1>2, <2>1
    <3> QED BY ONLY <1>2, <1>3, <1>4, <2>1, <3>1
  <2>2. CASE k # n + 1
    <3>1. k \in 1 .. n /\ k \in 0 .. n /\ k - 1 \in 0 .. n
      BY ONLY <1>2, <2>2, k \in 1 .. n + 1
    <3> QED BY ONLY <1>2, <1>3, <1>4, <3>1
  <2> QED BY ONLY <2>1, <2>2
<1>6. Chain(g, t, u)
  BY ONLY <1>2, <1>4, <1>5 DEF Chain
<1>7. g[0] = r
  <2>1. 0 \in 0 .. n
    BY ONLY <1>2
  <2> QED BY ONLY <1>1, <1>4, <2>1, Zenon
<1>8. Rest(t, u, r)
  BY ONLY <1>6, <1>7 DEF Rest
<1> QED BY ONLY <1>8 DEF t

LEMMA RestLonger ==
  ASSUME NEW q \in Seq(Reg), NEW u, NEW r, Rest(q, u, r), NEW v \in Seq(Seen)
  PROVE  Rest(q, u \o v, r \o v)
<1>1. PICK f : Chain(f, q, u) /\ f[0] = r
  BY DEF Rest
<1> DEFINE g == [k \in 0 .. Len(q) |-> f[k] \o v]
<1>2. /\ f \in [0 .. Len(q) -> Seq(Seen)] /\ f[Len(q)] = u
      /\ \A k \in 1 .. Len(q) : f[k - 1] = Word(q[k]) \o f[k]
  BY ONLY <1>1 DEF Chain
<1>3. Len(q) \in Nat /\ \A k \in 1 .. Len(q) : Word(q[k]) \in Seq(Seen)
  BY SentType
<1>4. g = [k \in 0 .. Len(q) |-> g[k]] /\ \A k \in 0 .. Len(q) : g[k] = f[k] \o v
  OBVIOUS
<1> HIDE DEF g
<1>5. \A k \in 0 .. Len(q) : g[k] \in Seq(Seen)
  <2>1. \A k \in 0 .. Len(q) : f[k] \o v \in Seq(Seen)
    <3> SUFFICES ASSUME NEW k \in 0 .. Len(q) PROVE f[k] \o v \in Seq(Seen)
      OBVIOUS
    <3>1. f[k] \in Seq(Seen)
      BY ONLY <1>2, k \in 0 .. Len(q)
    <3> QED BY ONLY <3>1, v \in Seq(Seen), JoinThree, Zenon
  <2> QED BY ONLY <1>4, <2>1
<1>6. ASSUME NEW k \in 1 .. Len(q) PROVE g[k - 1] = Word(q[k]) \o g[k]
  <2> DEFINE w == Word(q[k])
             a == f[k]
  <2>0. k \in 0 .. Len(q) /\ k - 1 \in 0 .. Len(q)
    BY ONLY <1>3, k \in 1 .. Len(q)
  <2>1. f[k - 1] = w \o a /\ g[k] = a \o v /\ g[k - 1] = f[k - 1] \o v
    BY ONLY <1>2, <1>4, <2>0
  <2>2. w \in Seq(Seen) /\ a \in Seq(Seen)
    BY ONLY <1>2, <1>3, <2>0
  <2> HIDE DEF w, a
  <2>3. Regroups(w, a, v)
    BY ONLY <2>2, v \in Seq(Seen), JoinRegroups, Zenon
  <2>4. g[k - 1] = w \o g[k]
    BY ONLY <2>1, <2>3, Zenon DEF Regroups
  <2> QED BY ONLY <2>4 DEF w
<1>7. g \in [0 .. Len(q) -> Seq(Seen)]
  BY ONLY <1>4, <1>5
<1>8. g[Len(q)] = u \o v /\ g[0] = r \o v
  <2>1. Len(q) \in 0 .. Len(q) /\ 0 \in 0 .. Len(q)
    BY ONLY <1>3
  <2>2. g[Len(q)] = f[Len(q)] \o v /\ g[0] = f[0] \o v
    BY ONLY <1>4, <2>1, Zenon
  <2> QED BY ONLY <1>1, <1>2, <2>2, Zenon
<1>9. Chain(g, q, u \o v)
  BY ONLY <1>6, <1>7, <1>8 DEF Chain
<1> QED BY ONLY <1>8, <1>9 DEF Rest

-----------------------------------------------------------------------------
(* The pixels of a transfer, by the word. *)
BitOf(s, k) == <<"data", Bits(s[((k - 1) \div RegBits) + 1], HalfBits)[((k - 1) % HalfBits) + 1]>>
Shown(p) == [k \in 1 .. HalfBits |-> <<"data", Bits(p, HalfBits)[k]>>]

LEMMA BitsAre ==
  ASSUME Double, NEW s \in Seq(Nat)
  PROVE  /\ BitsOf(s) \in Seq(Seen) /\ Len(BitsOf(s)) = Len(s) * RegBits
         /\ BitsOf(s) = [k \in 1 .. Len(s) * RegBits |-> BitOf(s, k)]
<1>0. HalfBits \in Nat /\ HalfBits > 0 /\ RegBits \in Nat /\ RegBits > 0 /\ RegBits = HalfBits * 2
      /\ Len(s) \in Nat
  BY PioAssumption, RegBitsType DEF RegBits
<1>1. BitsOf(s) = [k \in 1 .. Len(s) * RegBits |-> BitOf(s, k)]
  BY <1>0 DEF BitsOf, BitOf
<1>2. Len(s) * RegBits \in Nat
  BY <1>0
<1>3. ASSUME NEW k \in 1 .. Len(s) * RegBits PROVE BitOf(s, k) \in Seen
  <2> DEFINE q == (k - 1) \div RegBits
             r == (k - 1) % RegBits
  <2>1. q \in Int /\ r \in 0 .. RegBits - 1 /\ k - 1 = RegBits * q + r
    BY <1>0, <1>2, Division, k - 1 \in Int
  <2>2. (k - 1) % HalfBits \in 0 .. HalfBits - 1
    BY <1>0, <1>2, Division, k - 1 \in Int
  <2> HIDE DEF q, r
  <2>3. q \in 0 .. Len(s) - 1
    <3>1. ASSUME q < 0 PROVE FALSE
      <4>1. RegBits * q <= - RegBits
        BY ONLY <1>0, <2>1, <3>1
      <4> QED BY ONLY <1>0, <1>2, <2>1, <4>1, k \in 1 .. Len(s) * RegBits
    <3>2. ASSUME q >= Len(s) PROVE FALSE
      <4>1. q \in Nat /\ Len(s) * RegBits <= q * RegBits
        BY ONLY <1>0, <2>1, <3>2, TimesMonotone
      <4>2. q * RegBits = RegBits * q
        BY ONLY <1>0, <4>1
      <4> QED BY ONLY <1>0, <1>2, <2>1, <4>1, <4>2, k \in 1 .. Len(s) * RegBits
    <3> QED BY ONLY <1>0, <2>1, <3>1, <3>2
  <2>4. q + 1 \in 1 .. Len(s)
    BY ONLY <1>0, <2>3
  <2>5. s[q + 1] \in Nat
    BY ONLY <2>4, s \in Seq(Nat), ElementOfSeq
  <2> DEFINE pixel == s[q + 1]
  <2>x. pixel \in Int
    BY ONLY <2>5
  <2> HIDE DEF pixel
  <2>6. Bits(pixel, HalfBits) \in [1 .. HalfBits -> {0, 1}]
    BY ONLY <1>0, <2>x, BitTypes
  <2>7. ((k - 1) % HalfBits) + 1 \in 1 .. HalfBits
    BY ONLY <1>0, <2>2
  <2>8. Bits(pixel, HalfBits)[((k - 1) % HalfBits) + 1] \in {0, 1}
    BY ONLY <2>6, <2>7
  <2> QED BY ONLY <2>8 DEF BitOf, Seen, q, pixel
<1> DEFINE c == BitsOf(s)
<1>4. c \in Seq(Seen) /\ Len(c) = Len(s) * RegBits
  BY ONLY <1>1, <1>2, <1>3
<1> QED BY ONLY <1>1, <1>4

LEMMA ShownType ==
  ASSUME NEW p \in Nat PROVE Shown(p) \in Seq(Seen) /\ Len(Shown(p)) = HalfBits
<1>0. HalfBits \in Nat
  BY PioAssumption
<1>1. Bits(p, HalfBits) \in [1 .. HalfBits -> {0, 1}]
  BY <1>0, BitTypes
<1>2. \A k \in 1 .. HalfBits : <<"data", Bits(p, HalfBits)[k]>> \in Seen
  BY <1>1 DEF Seen
<1> QED BY <1>0, <1>2 DEF Shown

(* The first pixel is shown twice. *)
LEMMA FirstPixel ==
  ASSUME Double, NEW s \in Seq(Nat), s # << >>
  PROVE  BitsOf(s) = Shown(s[1]) \o (Shown(s[1]) \o BitsOf(Tail(s)))
<1> DEFINE t == Tail(s)
           l == Len(t)
           a == Shown(s[1])
           c == BitsOf(s)
           d == BitsOf(t)
           m == l * RegBits
<1>0. /\ HalfBits \in Nat /\ HalfBits > 0 /\ RegBits \in Nat /\ RegBits = HalfBits + HalfBits
      /\ l \in Nat /\ Len(s) = l + 1 /\ t \in Seq(Nat) /\ s[1] \in Nat
      /\ \A k \in 1 .. l : t[k] = s[k + 1]
  BY PioAssumption, RegBitsType
<1>1. c \in Seq(Seen) /\ c = [k \in 1 .. Len(s) * RegBits |-> BitOf(s, k)]
  BY BitsAre
<1>2. d \in Seq(Seen) /\ Len(d) = m /\ d = [k \in 1 .. m |-> BitOf(t, k)]
  BY <1>0, BitsAre
<1>3. a \in Seq(Seen) /\ Len(a) = HalfBits /\ \A k \in 1 .. HalfBits : a[k] = <<"data", Bits(s[1], HalfBits)[k]>>
  BY <1>0, ShownType DEF Shown
<1>4. m \in Nat /\ Len(s) * RegBits = RegBits + m
  BY <1>0
<1> HIDE DEF a, c, d
<1> DEFINE b == a \o d
<1> HIDE DEF m
<1>5. b \in Seq(Seen) /\ Len(b) = HalfBits + m
  BY ONLY <1>2, <1>3, ConcatProperties
<1>6. \A k \in 1 .. HalfBits + m : b[k] = IF k <= HalfBits THEN a[k] ELSE d[k - HalfBits]
  <2>1. \A k \in 1 .. Len(a) + Len(d) : b[k] = IF k <= Len(a) THEN a[k] ELSE d[k - Len(a)]
    BY ONLY <1>2, <1>3, ConcatProperties
  <2> HIDE DEF b
  <2> QED BY ONLY <1>2, <1>3, <2>1
<1> HIDE DEF b
<1>7. c = [k \in 1 .. RegBits + m |-> c[k]] /\ \A k \in 1 .. RegBits + m : c[k] = BitOf(s, k)
  BY ONLY <1>1, <1>4
<1>8. ASSUME NEW k \in 1 .. HalfBits
      PROVE  /\ (k - 1) \div RegBits = 0 /\ (k - 1) % HalfBits = k - 1
             /\ ((HalfBits + k) - 1) \div RegBits = 0 /\ ((HalfBits + k) - 1) % HalfBits = k - 1
  <2>1. /\ k - 1 \in 0 .. RegBits - 1 /\ (HalfBits + k) - 1 \in 0 .. RegBits - 1
        /\ k - 1 \in 0 .. HalfBits - 1 /\ RegBits > 0
    BY ONLY <1>0, k \in 1 .. HalfBits
  <2>2. RegBits * 0 + (k - 1) = k - 1 /\ RegBits * 0 + ((HalfBits + k) - 1) = (HalfBits + k) - 1
        /\ HalfBits * 0 + (k - 1) = k - 1 /\ HalfBits * 1 + (k - 1) = (HalfBits + k) - 1
    BY ONLY <1>0, k \in 1 .. HalfBits
  <2>3. /\ (RegBits * 0 + (k - 1)) \div RegBits = 0
        /\ (RegBits * 0 + ((HalfBits + k) - 1)) \div RegBits = 0
        /\ (HalfBits * 0 + (k - 1)) % HalfBits = k - 1
        /\ (HalfBits * 1 + (k - 1)) % HalfBits = k - 1
    BY ONLY <1>0, <2>1, Quotient
  <2> QED BY ONLY <2>2, <2>3, Zenon
<1>9. \A k \in 1 .. HalfBits : c[k] = a[k]
  <2> SUFFICES ASSUME NEW k \in 1 .. HalfBits PROVE c[k] = a[k]
    OBVIOUS
  <2>1. k \in 1 .. RegBits + m /\ 0 + 1 = 1 /\ k - 1 + 1 = k
    BY ONLY <1>0, <1>4, k \in 1 .. HalfBits
  <2>2. BitOf(s, k) = <<"data", Bits(s[0 + 1], HalfBits)[k - 1 + 1]>>
    BY ONLY <1>8, k \in 1 .. HalfBits, Zenon DEF BitOf
  <2>3. BitOf(s, k) = <<"data", Bits(s[1], HalfBits)[k]>>
    BY ONLY <2>1, <2>2, Zenon
  <2> QED BY ONLY <1>3, <1>7, <2>1, <2>3, k \in 1 .. HalfBits
<1>10. ASSUME NEW k \in 1 .. HalfBits PROVE c[HalfBits + k] = b[k]
  <2> DEFINE j == HalfBits + k
  <2>1. j \in 1 .. RegBits + m /\ 0 + 1 = 1 /\ k - 1 + 1 = k /\ k \in 1 .. HalfBits + m /\ k <= HalfBits
    BY ONLY <1>0, <1>4, k \in 1 .. HalfBits
  <2>2. (j - 1) \div RegBits = 0 /\ (j - 1) % HalfBits = k - 1
    BY ONLY <1>8, k \in 1 .. HalfBits
  <2> HIDE DEF j
  <2>3. BitOf(s, j) = <<"data", Bits(s[0 + 1], HalfBits)[k - 1 + 1]>>
    BY ONLY <2>2, Zenon DEF BitOf
  <2>4. BitOf(s, j) = <<"data", Bits(s[1], HalfBits)[k]>>
    BY ONLY <2>1, <2>3, Zenon
  <2>5. c[j] = a[k] /\ b[k] = a[k]
    BY ONLY <1>3, <1>6, <1>7, <2>1, <2>4, k \in 1 .. HalfBits
  <2> QED BY ONLY <2>5 DEF j
<1>11. ASSUME NEW j \in 1 .. m
       PROVE  BitOf(s, RegBits + j) = BitOf(t, j)
  <2> DEFINE q == (j - 1) \div RegBits
             r == (j - 1) % RegBits
             u == (j - 1) \div HalfBits
             v == (j - 1) % HalfBits
             i2 == RegBits + j
  <2>0. RegBits \in Int /\ RegBits > 0 /\ HalfBits \in Int /\ HalfBits > 0 /\ j - 1 \in Int /\ j \in Int
        /\ j >= 1 /\ j - 1 < m
    BY ONLY <1>0, <1>4, j \in 1 .. m
  <2>1. q \in Int /\ r \in 0 .. RegBits - 1 /\ j - 1 = RegBits * q + r
    BY ONLY <2>0, Division
  <2>2. u \in Int /\ v \in 0 .. HalfBits - 1 /\ j - 1 = HalfBits * u + v
    BY ONLY <2>0, Division
  <2>3. i2 - 1 = RegBits + (j - 1)
    BY ONLY <2>0
  <2> HIDE DEF q, r, u, v, i2
  <2>4. i2 - 1 = RegBits * (q + 1) + r /\ q + 1 \in Int
    BY ONLY <2>0, <2>1, <2>3
  <2>5. i2 - 1 = HalfBits * (u + 2) + v /\ u + 2 \in Int
    BY ONLY <1>0, <2>0, <2>2, <2>3
  <2>6. (i2 - 1) \div RegBits = q + 1
    <3>1. (RegBits * (q + 1) + r) \div RegBits = q + 1
      BY ONLY <2>0, <2>1, <2>4, Quotient
    <3> QED BY ONLY <2>4, <3>1, Zenon
  <2>7. (i2 - 1) % HalfBits = v
    <3>1. (HalfBits * (u + 2) + v) % HalfBits = v
      BY ONLY <2>0, <2>2, <2>5, Quotient
    <3> QED BY ONLY <2>5, <3>1, Zenon
  <2>8. q + 1 \in 1 .. l
    <3>1. ASSUME q < 0 PROVE FALSE
      <4>1. RegBits * q <= - RegBits
        BY ONLY <2>0, <2>1, <3>1
      <4> QED BY ONLY <2>0, <2>1, <4>1
    <3>2. ASSUME q >= l PROVE FALSE
      <4>1. q \in Nat /\ l * RegBits <= q * RegBits
        BY ONLY <1>0, <2>1, <3>2, TimesMonotone
      <4>2. q * RegBits = RegBits * q /\ m <= RegBits * q
        BY ONLY <1>0, <4>1 DEF m
      <4> QED BY ONLY <1>4, <2>0, <2>1, <4>1, <4>2
    <3> QED BY ONLY <1>0, <2>1, <3>1, <3>2
  <2>9. t[q + 1] = s[q + 1 + 1]
    BY ONLY <1>0, <2>8
  <2>10. BitOf(s, i2) = <<"data", Bits(s[q + 1 + 1], HalfBits)[v + 1]>>
    BY ONLY <2>6, <2>7, Zenon DEF BitOf
  <2>11. BitOf(t, j) = <<"data", Bits(t[q + 1], HalfBits)[v + 1]>>
    BY ONLY DEF BitOf, q, v
  <2>12. BitOf(s, i2) = BitOf(t, j)
    BY ONLY <2>9, <2>10, <2>11, Zenon
  <2> QED BY ONLY <2>12 DEF i2
<1>12. ASSUME NEW k \in 1 .. HalfBits + m, k > HalfBits PROVE c[HalfBits + k] = b[k]
  <2> DEFINE j == k - HalfBits
             i2 == HalfBits + k
  <2>1. j \in 1 .. m /\ ~(k <= HalfBits) /\ i2 \in 1 .. RegBits + m /\ i2 = RegBits + j
    BY ONLY <1>0, <1>4, <1>12
  <2>2. b[k] = d[j]
    BY ONLY <1>6, <2>1, k \in 1 .. HalfBits + m
  <2> HIDE DEF j, i2
  <2>3. d[j] = BitOf(t, j)
    BY ONLY <1>2, <2>1
  <2>4. c[i2] = BitOf(s, i2)
    BY ONLY <1>7, <2>1
  <2>5. BitOf(s, RegBits + j) = BitOf(t, j)
    BY ONLY <1>11, <2>1
  <2>6. c[i2] = b[k]
    BY ONLY <2>1, <2>2, <2>3, <2>4, <2>5, Zenon
  <2> QED BY ONLY <2>6 DEF i2
<1>13. c = a \o b
  <2>1. c = [k \in 1 .. Len(a) + Len(b) |-> c[k]]
    <3>1. Len(a) + Len(b) = RegBits + m
      BY ONLY <1>0, <1>3, <1>4, <1>5
    <3> QED BY ONLY <1>7, <3>1, Zenon
  <2>2. \A k \in 1 .. Len(a) : c[k] = a[k]
    BY ONLY <1>3, <1>9
  <2>3. \A k \in 1 .. Len(b) : c[Len(a) + k] = b[k]
    <3> SUFFICES ASSUME NEW k \in 1 .. Len(b) PROVE c[Len(a) + k] = b[k]
      OBVIOUS
    <3>1. k \in 1 .. HalfBits + m
      BY ONLY <1>5, k \in 1 .. Len(b)
    <3>2. k \in 1 .. HalfBits \/ k > HalfBits
      BY ONLY <1>0, <1>4, <3>1
    <3>3. c[HalfBits + k] = b[k]
      BY ONLY <1>10, <1>12, <3>1, <3>2, Zenon
    <3> QED BY ONLY <1>3, <3>3, Zenon
  <2> QED BY ONLY <1>3, <1>5, <2>1, <2>2, <2>3, JoinIs
<1> QED BY ONLY <1>13 DEF a, b, c, d

From(w, n) == SubSeq(w, n + 1, Len(w))

LEMMA FromIs ==
  ASSUME NEW w \in Seq(Nat), NEW n \in 0 .. Len(w)
  PROVE  /\ From(w, n) \in Seq(Nat)
         /\ n = Len(w) => From(w, n) = << >>
         /\ n < Len(w) => /\ w[n + 1] \in Nat /\ From(w, n) # << >> /\ From(w, n)[1] = w[n + 1]
                          /\ Tail(From(w, n)) = From(w, n + 1)
<1>0. Len(w) \in Nat /\ n \in Nat /\ \A k \in 1 .. Len(w) : w[k] \in Nat
  OBVIOUS
<1> DEFINE s == From(w, n)
<1>1. /\ s \in Seq(Nat) /\ Len(s) = Len(w) - n
      /\ \A k \in 1 .. Len(w) - n : s[k] = w[n + k]
  <2> DEFINE m == n + 1
             l == Len(w)
             t == SubSeq(w, m, l)
  <2>1. m \in Int /\ l \in Int /\ \A k \in m .. l : w[k] \in Nat
    BY ONLY <1>0
  <2> HIDE DEF m, l
  <2>2. /\ t \in Seq(Nat) /\ Len(t) = (IF m <= l THEN l - m + 1 ELSE 0)
        /\ \A k \in 1 .. l - m + 1 : t[k] = w[m + k - 1]
    BY ONLY <2>1, SubSeqProperties
  <2> HIDE DEF t
  <2>3. t \in Seq(Nat) /\ Len(t) = l - n /\ \A k \in 1 .. l - n : t[k] = w[n + k]
    <3>1. l - m + 1 = l - n /\ (IF m <= l THEN l - m + 1 ELSE 0) = l - n
      BY ONLY <1>0, n \in 0 .. Len(w) DEF m, l
    <3>2. \A k \in 1 .. l - n : m + k - 1 = n + k
      BY ONLY <1>0 DEF m
    <3> QED BY ONLY <2>2, <3>1, <3>2
  <2> QED BY ONLY <2>3, Zenon DEF From, t, m, l
<1>2. n = Len(w) => s = << >>
  <2> HIDE DEF s
  <2> QED BY ONLY <1>0, <1>1
<1>3. ASSUME n < Len(w)
      PROVE  /\ w[n + 1] \in Nat /\ s # << >> /\ s[1] = w[n + 1] /\ Tail(s) = From(w, n + 1)
  <2> DEFINE t == From(w, n + 1)
  <2>1. /\ t \in Seq(Nat) /\ Len(t) = Len(w) - (n + 1)
        /\ \A k \in 1 .. Len(w) - (n + 1) : t[k] = w[(n + 1) + k]
    BY <1>0, <1>3, SubSeqProperties DEF From
  <2>2. s # << >> /\ s[1] = w[n + 1] /\ w[n + 1] \in Nat
    <3>1. 1 \in 1 .. Len(w) - n /\ n + 1 \in 1 .. Len(w) /\ Len(s) > 0
      BY ONLY <1>0, <1>1, <1>3
    <3> HIDE DEF s
    <3>2. s[1] = w[n + 1] /\ w[n + 1] \in Nat
      BY ONLY <1>0, <1>1, <3>1
    <3>3. s # << >>
      BY ONLY <3>1
    <3> QED BY ONLY <3>2, <3>3
  <2>3. Tail(s) \in Seq(Nat) /\ Len(Tail(s)) = Len(s) - 1 /\ \A k \in 1 .. Len(s) - 1 : Tail(s)[k] = s[k + 1]
    BY <1>1, <2>2
  <2> HIDE DEF s, t
  <2>4. \A k \in 1 .. Len(t) : Tail(s)[k] = t[k]
    BY ONLY <1>0, <1>1, <2>1, <2>3
  <2>5. Len(Tail(s)) = Len(t)
    BY ONLY <1>0, <1>1, <2>1, <2>3
  <2>6. Tail(s) = t
    BY ONLY <2>1, <2>3, <2>4, <2>5, SeqEqual
  <2> QED BY ONLY <2>2, <2>6 DEF t
<1> HIDE DEF s
<1>4. /\ s \in Seq(Nat) /\ (n = Len(w) => s = << >>)
      /\ n < Len(w) => /\ w[n + 1] \in Nat /\ s # << >> /\ s[1] = w[n + 1]
                       /\ Tail(s) = From(w, n + 1)
  BY ONLY <1>1, <1>2, <1>3
<1> QED BY ONLY <1>4 DEF s

LEMMA NextPixel ==
  ASSUME Double, NEW w \in Seq(Nat), NEW n \in 0 .. Len(w), n < Len(w)
  PROVE  BitsOf(From(w, n)) = Shown(w[n + 1]) \o (Shown(w[n + 1]) \o BitsOf(From(w, n + 1)))
<1> DEFINE s == From(w, n)
<1>1. s \in Seq(Nat) /\ s # << >> /\ s[1] = w[n + 1] /\ Tail(s) = From(w, n + 1)
  BY FromIs
<1> HIDE DEF s
<1>2. BitsOf(s) = Shown(s[1]) \o (Shown(s[1]) \o BitsOf(Tail(s)))
  BY ONLY <1>1, Double, FirstPixel
<1>3. BitsOf(s) = Shown(w[n + 1]) \o (Shown(w[n + 1]) \o BitsOf(From(w, n + 1)))
  BY ONLY <1>1, <1>2, Zenon
<1> QED BY ONLY <1>3 DEF s

(* The word the DMA makes of two pixels. *)
Pair(p, q) == Bits(q, HalfBits) \o Bits(p, HalfBits)

LEMMA PairIs ==
  ASSUME NEW p \in Nat, NEW q \in Nat
  PROVE  Pair(p, q) \in Reg /\ Lo(Pair(p, q)) = Shown(p) /\ Hi(Pair(p, q)) = Shown(q)
<1> DEFINE a == Bits(q, HalfBits)
           b == Bits(p, HalfBits)
           v == Pair(p, q)
<1>0. HalfBits \in Nat /\ RegBits = HalfBits + HalfBits
  BY RegBitsType
<1>1. a \in [1 .. HalfBits -> {0, 1}] /\ b \in [1 .. HalfBits -> {0, 1}]
  BY <1>0, BitTypes
<1>2. a \in Seq({0, 1}) /\ Len(a) = HalfBits /\ b \in Seq({0, 1}) /\ Len(b) = HalfBits
  BY <1>0, <1>1, WordIsSeq
<1>3. v = a \o b
  BY DEF Pair
<1>8. Shown(p) = [k \in 1 .. HalfBits |-> <<"data", b[k]>>] /\ Shown(q) = [k \in 1 .. HalfBits |-> <<"data", a[k]>>]
  BY DEF Shown
<1> HIDE DEF a, b, v
<1>4. v \in Reg
  BY ONLY <1>0, <1>1, <1>3, Joined DEF Reg
<1>5. \A k \in 1 .. RegBits : v[k] = IF k <= HalfBits THEN a[k] ELSE b[k - HalfBits]
  <2>1. \A k \in 1 .. Len(a) + Len(b) : v[k] = IF k <= Len(a) THEN a[k] ELSE b[k - Len(a)]
    BY ONLY <1>2, <1>3, ConcatProperties
  <2> QED BY ONLY <1>0, <1>2, <2>1
<1>6. \A k \in 1 .. HalfBits : v[k] = a[k]
  BY ONLY <1>0, <1>5
<1>7. ASSUME NEW k \in 1 .. HalfBits PROVE v[HalfBits + k] = b[k]
  <2> DEFINE j == HalfBits + k
  <2>1. j \in 1 .. RegBits /\ ~(j <= HalfBits) /\ j - HalfBits = k
    BY ONLY <1>0, k \in 1 .. HalfBits
  <2> HIDE DEF j
  <2>2. v[j] = b[k]
    BY ONLY <1>5, <2>1
  <2> QED BY ONLY <2>2 DEF j
<1>9. Lo(v) = Shown(p)
  BY ONLY <1>7, <1>8 DEF Lo
<1>10. Hi(v) = Shown(q)
  BY ONLY <1>6, <1>8 DEF Hi, Sent
<1> QED BY ONLY <1>4, <1>9, <1>10 DEF v

LEMMA TwoPixels ==
  ASSUME Double, NEW w \in Seq(Nat), NEW n \in Nat, n + 2 <= Len(w)
  PROVE  /\ w[n + 1] \in Nat /\ w[n + 2] \in Nat
         /\ BitsOf(From(w, n + 2)) \in Seq(Seen)
         /\ BitsOf(From(w, n)) = Word(Pair(w[n + 1], w[n + 2])) \o BitsOf(From(w, n + 2))
<1> DEFINE v == Pair(w[n + 1], w[n + 2])
           a == Shown(w[n + 1])
           b == Shown(w[n + 2])
           c == BitsOf(From(w, n + 2))
<1>0. Len(w) \in Nat /\ n \in 0 .. Len(w) /\ n + 1 \in 0 .. Len(w) /\ n + 2 \in 0 .. Len(w)
      /\ n < Len(w) /\ n + 1 < Len(w) /\ n + 1 + 1 = n + 2
  OBVIOUS
<1>1. w[n + 1] \in Nat /\ w[n + 2] \in Nat
  BY ONLY <1>0, w \in Seq(Nat), ElementOfSeq
<1>2. c \in Seq(Seen)
  <2>1. From(w, n + 2) \in Seq(Nat)
    BY ONLY <1>0, w \in Seq(Nat), FromIs
  <2> QED BY ONLY <2>1, Double, BitsAre
<1>3. a \in Seq(Seen) /\ b \in Seq(Seen)
  BY ONLY <1>1, ShownType
<1>4. v \in Reg /\ Lo(v) = a /\ Hi(v) = b
  BY ONLY <1>1, PairIs
<1>5. BitsOf(From(w, n)) = a \o (a \o BitsOf(From(w, n + 1)))
  BY ONLY <1>0, w \in Seq(Nat), Double, NextPixel
<1>6. BitsOf(From(w, n + 1)) = b \o (b \o c)
  <2>1. BitsOf(From(w, n + 1))
          = Shown(w[n + 1 + 1]) \o (Shown(w[n + 1 + 1]) \o BitsOf(From(w, n + 1 + 1)))
    BY ONLY <1>0, w \in Seq(Nat), Double, NextPixel
  <2> QED BY ONLY <1>0, <2>1, Zenon
<1> HIDE DEF a, b, c, v
<1>7. Word(v) = a \o (a \o (b \o b))
  BY ONLY <1>4, Zenon DEF Word
<1>8. (a \o (a \o (b \o b))) \o c = a \o (a \o (b \o (b \o c)))
  <2> DEFINE d == b \o b
             e == a \o d
  <2>1. d \in Seq(Seen) /\ b \o (b \o c) = d \o c
    <3>1. d \in Seq(Seen)
      BY ONLY <1>2, <1>3, JoinThree, Zenon
    <3>2. Regroups(b, b, c)
      BY ONLY <1>2, <1>3, JoinRegroups, Zenon
    <3> QED BY ONLY <3>1, <3>2, Zenon DEF Regroups
  <2> HIDE DEF d
  <2>2. e \in Seq(Seen) /\ a \o (d \o c) = e \o c
    <3>1. e \in Seq(Seen)
      BY ONLY <1>2, <1>3, <2>1, JoinThree, Zenon
    <3>2. Regroups(a, d, c)
      BY ONLY <1>2, <1>3, <2>1, JoinRegroups, Zenon
    <3> QED BY ONLY <3>1, <3>2, Zenon DEF Regroups
  <2> HIDE DEF e
  <2>3. a \o (e \o c) = (a \o e) \o c
    <3>1. Regroups(a, e, c)
      BY ONLY <1>2, <1>3, <2>2, JoinRegroups, Zenon
    <3> QED BY ONLY <3>1, Zenon DEF Regroups
  <2>4. (a \o e) \o c = a \o (a \o (b \o (b \o c)))
    BY ONLY <2>1, <2>2, <2>3, Zenon
  <2> QED BY ONLY <2>4 DEF d, e
<1>9. BitsOf(From(w, n)) = Word(v) \o c
  BY ONLY <1>5, <1>6, <1>7, <1>8, Zenon
<1> QED BY ONLY <1>1, <1>2, <1>9 DEF v, c

-----------------------------------------------------------------------------
(* What the machine does where it is. *)
LEMMA Decoded ==
  ASSUME sm.pc \in 1 .. 19
  PROVE  /\ sm.pc \in {1} \cup OutsAt => i.op = "out" /\ i.dst = "pins" /\ i.n = 1 /\ i.side = 0
         /\ sm.pc = 2 => i.op = "nop" /\ i.side = 1
         /\ sm.pc = 3 => i.op = "pull" /\ i.side = NoSide
         /\ sm.pc = 4 => i.op = "keep" /\ i.side = NoSide
         /\ sm.pc = 5 => i.op = "out" /\ i.dst = "y" /\ i.n = HalfBits /\ i.side = NoSide
         /\ sm.pc \in {8, 12, 16} => /\ i.op = "mov" /\ i.side = NoSide
                                     /\ i.dst = IF sm.pc = 8 THEN "x" ELSE "y"
         /\ sm.pc \in {9, 13, 17} => i.op = "out" /\ i.dst = "null" /\ i.n = HalfBits /\ i.side = NoSide
         /\ sm.pc \in JumpsAt => i.op = "jmp" /\ i.n = sm.pc - 1 /\ i.side = 1
<1>1. /\ OutPin = [op |-> "out", dst |-> "pins", n |-> 1, side |-> 0]
      /\ Skip = [op |-> "out", dst |-> "null", n |-> HalfBits, side |-> NoSide]
      /\ \A r : Load(r) = [op |-> "mov", dst |-> r, n |-> 0, side |-> NoSide]
      /\ \A at : Jmp(at) = [op |-> "jmp", dst |-> "!osre", n |-> at, side |-> 1]
  BY DEF OutPin, Skip, Load, Jmp, Instr
<1>2. ASSUME sm.pc \in {1, 6, 10, 14, 18} PROVE i = OutPin
  <2>1. CASE sm.pc = 1
    BY ONLY <2>1, Addresses, Zenon DEF i
  <2>2. CASE sm.pc = 6
    BY ONLY <2>2, Addresses, Zenon DEF i
  <2>3. CASE sm.pc = 10
    BY ONLY <2>3, Addresses, Zenon DEF i
  <2>4. CASE sm.pc = 14
    BY ONLY <2>4, Addresses, Zenon DEF i
  <2>5. CASE sm.pc = 18
    BY ONLY <2>5, Addresses, Zenon DEF i
  <2> QED BY ONLY <1>2, <2>1, <2>2, <2>3, <2>4, <2>5
<1>3. sm.pc = 2 => i = Instr("nop", "none", 0, 1)
  BY ONLY Addresses, Zenon DEF i
<1>4. sm.pc = 3 => i = Instr("pull", "none", 0, NoSide)
  BY ONLY Addresses, Zenon DEF i
<1>5. sm.pc = 4 => i = Instr("keep", "x", 0, NoSide)
  BY ONLY Addresses, Zenon DEF i
<1>6. sm.pc = 5 => i = Instr("out", "y", HalfBits, NoSide)
  BY ONLY Addresses, Zenon DEF i
<1>7. sm.pc = 8 => i = Load("x")
  BY ONLY Addresses, Zenon DEF i
<1>8. ASSUME sm.pc \in {12, 16} PROVE i = Load("y")
  <2>1. CASE sm.pc = 12
    BY ONLY <2>1, Addresses, Zenon DEF i
  <2>2. CASE sm.pc = 16
    BY ONLY <2>2, Addresses, Zenon DEF i
  <2> QED BY ONLY <1>8, <2>1, <2>2
<1>9. ASSUME sm.pc \in {9, 13, 17} PROVE i = Skip
  <2>1. CASE sm.pc = 9
    BY ONLY <2>1, Addresses, Zenon DEF i
  <2>2. CASE sm.pc = 13
    BY ONLY <2>2, Addresses, Zenon DEF i
  <2>3. CASE sm.pc = 17
    BY ONLY <2>3, Addresses, Zenon DEF i
  <2> QED BY ONLY <1>9, <2>1, <2>2, <2>3
<1>10. ASSUME sm.pc \in {7, 11, 15, 19} PROVE i = Jmp(sm.pc - 1)
  <2>1. CASE sm.pc = 7
    <3>1. i = Jmp(6)
      BY ONLY <2>1, Addresses, Zenon DEF i
    <3>2. sm.pc - 1 = 6
      BY ONLY <2>1
    <3> QED BY ONLY <3>1, <3>2, Zenon
  <2>2. CASE sm.pc = 11
    <3>1. i = Jmp(10)
      BY ONLY <2>2, Addresses, Zenon DEF i
    <3>2. sm.pc - 1 = 10
      BY ONLY <2>2
    <3> QED BY ONLY <3>1, <3>2, Zenon
  <2>3. CASE sm.pc = 15
    <3>1. i = Jmp(14)
      BY ONLY <2>3, Addresses, Zenon DEF i
    <3>2. sm.pc - 1 = 14
      BY ONLY <2>3
    <3> QED BY ONLY <3>1, <3>2, Zenon
  <2>4. CASE sm.pc = 19
    <3>1. i = Jmp(18)
      BY ONLY <2>4, Addresses, Zenon DEF i
    <3>2. sm.pc - 1 = 18
      BY ONLY <2>4
    <3> QED BY ONLY <3>1, <3>2, Zenon
  <2> QED BY ONLY <1>10, <2>1, <2>2, <2>3, <2>4
<1> HIDE DEF i
<1>11. sm.pc \in {1} \cup OutsAt => i.op = "out" /\ i.dst = "pins" /\ i.n = 1 /\ i.side = 0
  BY ONLY <1>1, <1>2 DEF OutsAt
<1>12. /\ sm.pc = 2 => i.op = "nop" /\ i.side = 1
       /\ sm.pc = 3 => i.op = "pull" /\ i.side = NoSide
       /\ sm.pc = 4 => i.op = "keep" /\ i.side = NoSide
       /\ sm.pc = 5 => i.op = "out" /\ i.dst = "y" /\ i.n = HalfBits /\ i.side = NoSide
  BY ONLY <1>3, <1>4, <1>5, <1>6 DEF Instr
<1>13. sm.pc \in {8, 12, 16} => /\ i.op = "mov" /\ i.side = NoSide
                                /\ i.dst = IF sm.pc = 8 THEN "x" ELSE "y"
  BY ONLY <1>1, <1>7, <1>8
<1>14. sm.pc \in {9, 13, 17} => i.op = "out" /\ i.dst = "null" /\ i.n = HalfBits /\ i.side = NoSide
  BY ONLY <1>1, <1>9
<1>15. sm.pc \in JumpsAt => i.op = "jmp" /\ i.n = sm.pc - 1 /\ i.side = 1
  BY ONLY <1>1, <1>10 DEF JumpsAt
<1> QED BY ONLY <1>11, <1>12, <1>13, <1>14, <1>15

(* The machine s with its registers and its place changed. *)
SameRun(s, t) == t.on = s.on /\ t.wrap = s.wrap /\ t.autopull = s.autopull /\ t.thresh = s.thresh

LEMMA OutEffect ==
  ASSUME MachineInv, Out, NEW o, o = IF Refill THEN Head(fifo) ELSE sm.osr,
         NEW c, c = IF Refill THEN 0 ELSE sm.count
  PROVE  /\ sm'.osr = SubSeq(o, i.n + 1, RegBits) \o Zeros(i.n)
         /\ sm'.count = IF c + i.n > RegBits THEN RegBits ELSE c + i.n
         /\ sm'.y = IF i.dst = "y" THEN Zeros(RegBits - i.n) \o SubSeq(o, 1, i.n) ELSE sm.y
         /\ sm'.x = sm.x /\ sm'.pc = NextPc /\ SameRun(sm, sm')
         /\ data' = IF i.dst = "pins" THEN o[1] ELSE data
         /\ fifo' = IF Refill THEN Tail(fifo) ELSE fifo
         /\ stalled' = stalled /\ ~Starved
<1> DEFINE a == SubSeq(o, i.n + 1, RegBits) \o Zeros(i.n)
           n == IF c + i.n > RegBits THEN RegBits ELSE c + i.n
           y == IF i.dst = "y" THEN Zeros(RegBits - i.n) \o SubSeq(o, 1, i.n) ELSE sm.y
           p == NextPc
<1>1. sm' = [sm EXCEPT !.osr = a, !.count = n, !.y = y, !.pc = p]
  BY Zenon DEF Out
<1>2. /\ data' = IF i.dst = "pins" THEN o[1] ELSE data
      /\ fifo' = IF Refill THEN Tail(fifo) ELSE fifo
      /\ stalled' = stalled /\ ~Starved
  BY Zenon DEF Out
<1> HIDE DEF a, n, y, p
<1>3. sm'.osr = a /\ sm'.count = n /\ sm'.y = y /\ sm'.x = sm.x /\ sm'.pc = p /\ SameRun(sm, sm')
  BY ONLY <1>1, MachineInv DEF MachineInv, SameRun
<1> QED BY ONLY <1>2, <1>3, Zenon DEF a, n, y, p

LEMMA PullEffect ==
  ASSUME MachineInv, Pull
  PROVE  /\ sm'.osr = Head(fifo) /\ sm'.count = 0 /\ sm'.pc = NextPc /\ SameRun(sm, sm')
         /\ fifo' = Tail(fifo) /\ fifo # << >> /\ data' = data
<1>1. sm' = [sm EXCEPT !.osr = Head(fifo), !.count = 0, !.pc = NextPc]
  BY DEF Pull
<1> DEFINE h == Head(fifo)
           p == NextPc
<1>2. sm' = [sm EXCEPT !.osr = h, !.count = 0, !.pc = p]
  BY ONLY <1>1
<1> HIDE DEF h, p
<1>3. sm'.osr = h /\ sm'.count = 0 /\ sm'.pc = p /\ SameRun(sm, sm')
  BY ONLY <1>2, MachineInv DEF MachineInv, SameRun
<1> QED BY <1>3 DEF Pull, Starved, h, p

LEMMA MoveEffect ==
  ASSUME MachineInv, Move
  PROVE  /\ i.op = "mov" => /\ sm'.osr = (IF i.dst = "x" THEN sm.x ELSE sm.y) /\ sm'.count = 0
                            /\ sm'.x = sm.x /\ sm'.y = sm.y
         /\ i.op = "keep" => sm'.x = sm.osr /\ sm'.osr = sm.osr /\ sm'.count = sm.count
         /\ i.op = "nop" => sm'.osr = sm.osr /\ sm'.count = sm.count
         /\ sm'.pc = NextPc /\ SameRun(sm, sm')
         /\ UNCHANGED <<fifo, data, stalled>>
<1> DEFINE o == IF i.dst = "x" THEN sm.x ELSE sm.y
           p == NextPc
           op == i.op
<1>1. op \in {"mov", "keep", "nop"} /\ UNCHANGED <<fifo, data, stalled>>
  BY Zenon DEF Move
<1>2. /\ op = "mov" => sm' = [sm EXCEPT !.osr = o, !.count = 0, !.pc = p]
      /\ op = "keep" => sm' = [sm EXCEPT !.x = sm.osr, !.pc = p]
      /\ op = "nop" => sm' = [sm EXCEPT !.pc = p]
  BY DEF Move
<1> HIDE DEF o, p, op
<1>3. /\ op = "mov" => sm'.osr = o /\ sm'.count = 0 /\ sm'.x = sm.x /\ sm'.y = sm.y
      /\ op = "keep" => sm'.x = sm.osr /\ sm'.osr = sm.osr /\ sm'.count = sm.count
      /\ op = "nop" => sm'.osr = sm.osr /\ sm'.count = sm.count
      /\ sm'.pc = p /\ SameRun(sm, sm')
  <2>1. CASE op = "mov"
    BY ONLY <1>2, <2>1, MachineInv DEF MachineInv, SameRun
  <2>2. CASE op = "keep"
    BY ONLY <1>2, <2>2, MachineInv DEF MachineInv, SameRun
  <2>3. CASE op = "nop"
    BY ONLY <1>2, <2>3, MachineInv DEF MachineInv, SameRun
  <2> QED BY ONLY <1>1, <2>1, <2>2, <2>3
<1> QED BY ONLY <1>1, <1>3 DEF o, p, op

LEMMA JumpEffect ==
  ASSUME MachineInv, Jump
  PROVE  /\ sm'.osr = sm.osr /\ sm'.count = sm.count /\ sm'.x = sm.x /\ sm'.y = sm.y
         /\ sm'.pc = (IF Empty THEN NextPc ELSE i.n) /\ SameRun(sm, sm')
         /\ UNCHANGED <<fifo, data, stalled>>
<1> DEFINE p == IF Empty THEN NextPc ELSE i.n
<1>1. sm' = [sm EXCEPT !.pc = p] /\ UNCHANGED <<fifo, data, stalled>>
  BY DEF Jump
<1> HIDE DEF p
<1>2. /\ sm'.osr = sm.osr /\ sm'.count = sm.count /\ sm'.x = sm.x /\ sm'.y = sm.y
      /\ sm'.pc = p /\ SameRun(sm, sm')
  BY ONLY <1>1, MachineInv DEF MachineInv, SameRun
<1> QED BY ONLY <1>1, <1>2 DEF p

-----------------------------------------------------------------------------
(* Once it sends pixels the machine goes round its program: what is due is  *)
(* what it owes of its word, of the words in the FIFO and of the pixels     *)
(* that the DMA has not moved yet.                                          *)
Counts(s) ==
  /\ s.pc \in 3 .. 19
  /\ s.pc \in {4, 5, 9, 13, 17} => s.count = 0
  /\ s.pc \in OutsAt => s.count \in HalfBits .. RegBits - 1
  /\ s.pc \in JumpsAt => s.count \in HalfBits + 1 .. RegBits

AtPixels ==
  /\ sm.on /\ ~sm.autopull /\ sm.thresh = RegBits
  /\ sm.wrap.target = 3 /\ sm.wrap.top = 19 /\ dcPin = "data"
  /\ Counts(sm)
  /\ sm.pc \in JumpsAt => sck = 0

OwesTo(u) == \E r : Rest(fifo, u, r) /\ due = Owed(sm, data, r)
Unfed == BitsOf(From(wire, fed))
Sends == AtPixels /\ OwesTo(Unfed)
Reads == due # << >> /\ Head(due) = <<dcPin, data>>

LEMMA PixelControl ==
  ASSUME MachineInv, PinsInv, AtPixels, SmStep
  PROVE  /\ Registers(sm) /\ NextPc = IF sm.pc = 19 THEN 3 ELSE sm.pc + 1
         /\ ~Refill /\ (Empty <=> sm.count >= RegBits)
         /\ UNCHANGED dcPin
         /\ sm.pc \notin JumpsAt => ~Rising /\ due' = due /\ (sm.pc \in OutsAt \/ sck' = sck)
         /\ sm.pc \in OutsAt => sck' = 0
         /\ sm.pc \in JumpsAt => Rising /\ due' = IF due # << >> THEN Tail(due) ELSE due
         /\ Stall => sm.pc = 3 /\ UNCHANGED <<sm, fifo, data>>
         /\ Out => sm.pc \in {5, 9, 13, 17} \cup OutsAt
         /\ Pull => sm.pc = 3
         /\ Move => sm.pc \in {4, 8, 12, 16}
         /\ Jump => sm.pc \in JumpsAt
         /\ Stall \/ Out \/ Pull \/ Move \/ Jump
<1>1. sm.pc \in 3 .. 19 /\ sm.pc \in 1 .. 19
  BY DEF AtPixels, Counts
<1>2. /\ sm.pc \in OutsAt => i.op = "out" /\ i.side = 0
      /\ sm.pc = 3 => i.op = "pull" /\ i.side = NoSide
      /\ sm.pc = 4 => i.op = "keep" /\ i.side = NoSide
      /\ sm.pc = 5 => i.op = "out" /\ i.side = NoSide
      /\ sm.pc \in {8, 12, 16} => i.op = "mov" /\ i.side = NoSide
      /\ sm.pc \in {9, 13, 17} => i.op = "out" /\ i.side = NoSide
      /\ sm.pc \in JumpsAt => i.op = "jmp" /\ i.side = 1
  BY <1>1, Decoded
<1>3. /\ sck' = (IF i.side = NoSide THEN sck ELSE i.side)
      /\ due' = (IF Rising /\ due # << >> THEN Tail(due) ELSE due)
      /\ UNCHANGED dcPin /\ (Stall \/ Out \/ Pull \/ Move \/ Jump)
  BY DEF SmStep, Clocks
<1>4. ~Refill /\ (Empty <=> sm.count >= RegBits)
  BY Zenon DEF Refill, Empty, AtPixels
<1>5. /\ Stall => i.op = "pull" /\ UNCHANGED <<sm, fifo, data>>
      /\ Out => i.op = "out"
      /\ Pull => i.op = "pull"
      /\ Move => i.op \in {"mov", "keep", "nop"}
      /\ Jump => i.op = "jmp"
  <2>1. Stall => i.op = "pull" /\ UNCHANGED <<sm, fifo, data>>
    BY ONLY <1>4, Zenon DEF Stall, Starved
  <2>2. (Out => i.op = "out") /\ (Pull => i.op = "pull") /\ (Jump => i.op = "jmp")
        /\ (Move => i.op \in {"mov", "keep", "nop"})
    BY ONLY Zenon DEF Out, Pull, Jump, Move
  <2> QED BY ONLY <2>1, <2>2
<1>6. Registers(sm)
  BY <1>1 DEF Registers, MachineInv
<1>7. NextPc = IF sm.pc = 19 THEN 3 ELSE sm.pc + 1
  BY DEF NextPc, AtPixels
<1> DEFINE op == i.op
           side == i.side
           rising == Rising
<1>8. rising <=> sck = 0 /\ sck' = 1
  BY DEF Rising
<1>9. NoSide = -1 /\ sck \in {0, 1}
  BY DEF NoSide, PinsInv
<1>10. due' = IF rising /\ due # << >> THEN Tail(due) ELSE due
  BY <1>3
<1>11. sck' = IF side = NoSide THEN sck ELSE side
  BY <1>3
<1>12. /\ sm.pc \in OutsAt => op = "out" /\ side = 0
       /\ sm.pc = 3 => op = "pull" /\ side = NoSide
       /\ sm.pc = 4 => op = "keep" /\ side = NoSide
       /\ sm.pc = 5 => op = "out" /\ side = NoSide
       /\ sm.pc \in {8, 12, 16} => op = "mov" /\ side = NoSide
       /\ sm.pc \in {9, 13, 17} => op = "out" /\ side = NoSide
       /\ sm.pc \in JumpsAt => op = "jmp" /\ side = 1
  BY ONLY <1>2
<1>13. /\ Stall => op = "pull"
       /\ Out => op = "out"
       /\ Pull => op = "pull"
       /\ Move => op \in {"mov", "keep", "nop"}
       /\ Jump => op = "jmp"
  BY ONLY <1>5
<1>14. sm.pc \in JumpsAt => sck = 0
  BY DEF AtPixels
<1> HIDE DEF op, side, rising
<1>15. /\ sm.pc \notin JumpsAt => ~rising /\ (sm.pc \in OutsAt \/ sck' = sck)
       /\ sm.pc \in OutsAt => sck' = 0
       /\ sm.pc \in JumpsAt => rising
  BY ONLY <1>1, <1>8, <1>9, <1>11, <1>12, <1>14 DEF OutsAt, JumpsAt
<1>16. /\ op = "pull" => sm.pc = 3
       /\ op = "out" => sm.pc \in {5, 9, 13, 17} \cup OutsAt
       /\ op \in {"mov", "keep", "nop"} => sm.pc \in {4, 8, 12, 16}
       /\ op = "jmp" => sm.pc \in JumpsAt
  BY ONLY <1>1, <1>12 DEF OutsAt, JumpsAt
<1>17. /\ Stall => sm.pc = 3
       /\ Out => sm.pc \in {5, 9, 13, 17} \cup OutsAt
       /\ Pull => sm.pc = 3
       /\ Move => sm.pc \in {4, 8, 12, 16}
       /\ Jump => sm.pc \in JumpsAt
  BY ONLY <1>13, <1>16, Zenon
<1>18. /\ sm.pc \notin JumpsAt => due' = due
       /\ sm.pc \in JumpsAt => due' = IF due # << >> THEN Tail(due) ELSE due
  BY ONLY <1>10, <1>15, Zenon
<1>19. /\ sm.pc \notin JumpsAt => ~Rising
       /\ sm.pc \in JumpsAt => Rising
  BY ONLY <1>15, Zenon DEF rising
<1> QED BY ONLY <1>3, <1>4, <1>5, <1>6, <1>7, <1>15, <1>17, <1>18, <1>19, Zenon

LEMMA StaysAtPixels ==
  ASSUME AtPixels, SameRun(sm, sm'), dcPin' = dcPin, Counts(sm'), sm'.pc \in JumpsAt => sck' = 0
  PROVE  AtPixels'
BY Zenon DEF AtPixels, SameRun

LEMMA PixelStep ==
  ASSUME MachineInv, PinsInv, AtPixels, NEW u, u \in Seq(Seen), OwesTo(u), SmStep
  PROVE  /\ AtPixels'
         /\ \E p : Rest(fifo', u, p) /\ due' = Owed(sm', data', p)
         /\ Rising => Reads
<1>0. /\ HalfBits \in Nat /\ HalfBits > 0 /\ RegBits \in Nat /\ RegBits = HalfBits + HalfBits
      /\ HalfBits \in HalfBits .. RegBits - 1 /\ HalfBits \in Int
  BY PioAssumption, RegBitsType
<1>1. /\ Registers(sm) /\ NextPc = IF sm.pc = 19 THEN 3 ELSE sm.pc + 1
      /\ ~Refill /\ (Empty <=> sm.count >= RegBits)
      /\ UNCHANGED dcPin
      /\ sm.pc \notin JumpsAt => ~Rising /\ due' = due /\ (sm.pc \in OutsAt \/ sck' = sck)
      /\ sm.pc \in OutsAt => sck' = 0
      /\ sm.pc \in JumpsAt => Rising /\ due' = IF due # << >> THEN Tail(due) ELSE due
      /\ Stall => sm.pc = 3 /\ UNCHANGED <<sm, fifo, data>>
      /\ Out => sm.pc \in {5, 9, 13, 17} \cup OutsAt
      /\ Pull => sm.pc = 3
      /\ Move => sm.pc \in {4, 8, 12, 16}
      /\ Jump => sm.pc \in JumpsAt
      /\ Stall \/ Out \/ Pull \/ Move \/ Jump
  BY PixelControl
<1>2. PICK r : Rest(fifo, u, r) /\ due = Owed(sm, data, r)
  BY DEF OwesTo
<1>3. fifo \in Seq(Reg) /\ data \in {0, 1} /\ r \in Seq(Seen)
  BY <1>2, RestType DEF PinsInv
<1>4. Counts(sm) /\ sm.count \in 0 .. RegBits /\ dcPin = "data" /\ sm.pc \in 3 .. 19 /\ sm.pc \in 1 .. 19
  BY DEF AtPixels, Counts, MachineInv
<1>5. CASE Stall
  <2>1. sm' = sm /\ fifo' = fifo /\ data' = data /\ sm.pc = 3 /\ sm.pc \notin JumpsAt
    BY <1>1, <1>5 DEF JumpsAt
  <2>2. due' = due /\ ~Rising /\ dcPin' = dcPin
    BY ONLY <1>1, <2>1
  <2>3. AtPixels'
    <3>1. SameRun(sm, sm') /\ Counts(sm') /\ sm'.pc \notin JumpsAt
      BY ONLY <1>4, <2>1, Zenon DEF SameRun
    <3> QED BY ONLY AtPixels, <2>2, <3>1, StaysAtPixels
  <2> QED BY ONLY <1>2, <2>1, <2>2, <2>3, Zenon
<1>6. CASE Pull
  <2>1. /\ sm'.osr = Head(fifo) /\ sm'.count = 0 /\ sm'.pc = NextPc /\ SameRun(sm, sm')
        /\ fifo' = Tail(fifo) /\ fifo # << >> /\ data' = data
    BY <1>6, PullEffect
  <2>2. sm.pc = 3 /\ sm'.pc = 4
    BY ONLY <1>1, <1>6, <2>1
  <2>3. due' = due /\ ~Rising /\ dcPin' = dcPin
    <3>1. sm.pc \notin JumpsAt
      BY ONLY <2>2 DEF JumpsAt
    <3> QED BY ONLY <1>1, <3>1
  <2>4. PICK p \in Seq(Seen) : r = Word(Head(fifo)) \o p /\ Rest(Tail(fifo), u, p)
    BY ONLY <1>2, <1>3, <2>1, RestHead
  <2>5. Head(fifo) \in Reg
    BY ONLY <1>3, <2>1
  <2>6. Owed(sm', data, p) = Owed(sm, data, r)
    BY ONLY <1>1, <1>3, <2>1, <2>2, <2>4, <2>5, OwedPull
  <2>7. AtPixels'
    <3>1. Counts(sm') /\ sm'.pc \notin JumpsAt
      BY ONLY <2>1, <2>2 DEF Counts, OutsAt, JumpsAt
    <3> QED BY ONLY AtPixels, <2>1, <2>3, <3>1, StaysAtPixels
  <2> QED BY ONLY <1>2, <2>1, <2>3, <2>4, <2>6, <2>7, Zenon
<1>7. CASE Move
  <2>1. /\ i.op = "mov" => /\ sm'.osr = (IF i.dst = "x" THEN sm.x ELSE sm.y) /\ sm'.count = 0
                           /\ sm'.x = sm.x /\ sm'.y = sm.y
        /\ i.op = "keep" => sm'.x = sm.osr /\ sm'.osr = sm.osr /\ sm'.count = sm.count
        /\ sm'.pc = NextPc /\ SameRun(sm, sm')
        /\ UNCHANGED <<fifo, data>>
    BY <1>7, MoveEffect
  <2>2. sm.pc \in {4, 8, 12, 16}
    BY ONLY <1>1, <1>7
  <2>3. due' = due /\ ~Rising /\ dcPin' = dcPin
    <3>1. sm.pc \notin JumpsAt
      BY ONLY <2>2 DEF JumpsAt
    <3> QED BY ONLY <1>1, <3>1
  <2>4. sm'.pc = sm.pc + 1
    BY ONLY <1>1, <2>1, <2>2
  <2>5. CASE sm.pc = 4
    <3>1. i.op = "keep"
      BY <1>4, <2>5, Decoded
    <3>2. sm'.pc = 5 /\ sm'.osr = sm.osr /\ sm'.x = sm.osr /\ sm'.count = 0
      BY ONLY <1>4, <2>1, <2>4, <2>5, <3>1 DEF Counts
    <3>3. Owed(sm', data, r) = Owed(sm, data, r)
      BY ONLY <2>5, <3>2, OwedKeep
    <3>4. Counts(sm') /\ sm'.pc \notin JumpsAt
      BY ONLY <3>2 DEF Counts, OutsAt, JumpsAt
    <3>5. AtPixels'
      BY ONLY AtPixels, <2>1, <2>3, <3>4, StaysAtPixels
    <3> QED BY ONLY <1>2, <2>1, <2>3, <3>3, <3>5, Zenon
  <2>6. CASE sm.pc \in {8, 12, 16}
    <3>1. i.op = "mov" /\ i.dst = IF sm.pc = 8 THEN "x" ELSE "y"
      BY <1>4, <2>6, Decoded
    <3>2. /\ sm'.osr = (IF sm.pc = 8 THEN sm.x ELSE sm.y) /\ sm'.y = sm.y /\ sm'.count = 0
      BY ONLY <2>1, <3>1
    <3>3. Owed(sm', data, r) = Owed(sm, data, r)
      BY ONLY <2>4, <2>6, <3>2, OwedMove
    <3>4. Counts(sm') /\ sm'.pc \notin JumpsAt
      BY ONLY <2>4, <2>6, <3>2 DEF Counts, OutsAt, JumpsAt
    <3>5. AtPixels'
      BY ONLY AtPixels, <2>1, <2>3, <3>4, StaysAtPixels
    <3> QED BY ONLY <1>2, <2>1, <2>3, <3>3, <3>5, Zenon
  <2> QED BY ONLY <2>2, <2>5, <2>6
<1>8. CASE Jump
  <2>1. /\ sm'.osr = sm.osr /\ sm'.count = sm.count /\ sm'.x = sm.x /\ sm'.y = sm.y
        /\ sm'.pc = (IF Empty THEN NextPc ELSE i.n) /\ SameRun(sm, sm')
        /\ UNCHANGED <<fifo, data>>
    BY <1>8, JumpEffect
  <2>2. sm.pc \in JumpsAt /\ sm.count \in HalfBits + 1 .. RegBits
    BY ONLY <1>1, <1>4, <1>8 DEF Counts
  <2>3. i.n = sm.pc - 1
    BY <1>4, <2>2, Decoded
  <2>4. sm'.pc = IF sm.count >= RegBits THEN IF sm.pc = 19 THEN 3 ELSE sm.pc + 1 ELSE sm.pc - 1
    BY ONLY <1>1, <2>1, <2>3
  <2> DEFINE e == Once("data", data)
             p == Owed(sm', data, r)
  <2>5. Owed(sm, data, r) = e \o p
    <3>1. OneJump(sm, sm')
      BY ONLY <2>1, <2>2, <2>4 DEF OneJump
    <3> QED BY ONLY <1>1, <1>3, <3>1, OwedJump, Zenon
  <2>6. <<"data", data>> \in Seen
    BY ONLY <1>3 DEF Seen
  <2>7. p \in Seq(Seen)
    <3>0. Registers(sm)
      BY ONLY <1>1
    <3>1. Registers(sm')
      BY ONLY <2>1, <2>2, <2>4, <3>0 DEF Registers, JumpsAt
    <3> QED BY ONLY <1>3, <3>1, OwedType
  <2> HIDE DEF p
  <2>8. due # << >> /\ Head(due) = <<"data", data>> /\ Tail(due) = p
    <3>1. due = << <<"data", data>> >> \o p
      BY ONLY <1>2, <2>5, Zenon DEF Once
    <3>2. /\ << <<"data", data>> >> \o p # << >>
          /\ Head(<< <<"data", data>> >> \o p) = <<"data", data>>
          /\ Tail(<< <<"data", data>> >> \o p) = p
      BY ONLY <2>6, <2>7, JoinOne, Zenon
    <3> QED BY ONLY <3>1, <3>2, Zenon
  <2>9. Reads
    BY ONLY <1>4, <2>8, Zenon DEF Reads
  <2>10. due' = p
    BY ONLY <1>1, <2>2, <2>8, Zenon
  <2>11. Counts(sm') /\ sm'.pc \notin JumpsAt
    BY ONLY <1>0, <2>1, <2>2, <2>4 DEF Counts, OutsAt, JumpsAt
  <2>12. AtPixels'
    BY ONLY AtPixels, <1>1, <2>1, <2>11, StaysAtPixels
  <2> QED BY ONLY <1>2, <2>1, <2>9, <2>10, <2>12, Zenon DEF p
<1>9. CASE Out
  <2>1. /\ sm'.osr = SubSeq(sm.osr, i.n + 1, RegBits) \o Zeros(i.n)
        /\ sm'.count = IF sm.count + i.n > RegBits THEN RegBits ELSE sm.count + i.n
        /\ sm'.y = IF i.dst = "y" THEN Zeros(RegBits - i.n) \o SubSeq(sm.osr, 1, i.n) ELSE sm.y
        /\ sm'.x = sm.x /\ sm'.pc = NextPc /\ SameRun(sm, sm')
        /\ data' = IF i.dst = "pins" THEN sm.osr[1] ELSE data
        /\ fifo' = fifo
    BY <1>1, <1>9, OutEffect, Zenon
  <2>2. sm.pc \in {5, 9, 13, 17} \cup OutsAt /\ sm.pc \notin JumpsAt /\ sm'.pc = sm.pc + 1
    BY ONLY <1>1, <1>9, <2>1 DEF OutsAt, JumpsAt
  <2>3. due' = due /\ ~Rising /\ dcPin' = dcPin
    BY ONLY <1>1, <2>2
  <2>4. CASE sm.pc = 5
    <3>1. i.dst = "y" /\ i.n = HalfBits
      BY <1>4, <2>4, Decoded
    <3>2. /\ sm'.osr = SubSeq(sm.osr, HalfBits + 1, RegBits) \o Zeros(HalfBits)
          /\ sm'.y = Zeros(RegBits - HalfBits) \o SubSeq(sm.osr, 1, HalfBits)
          /\ data' = data /\ sm'.pc = 6 /\ sm'.x = sm.x
      <4>1. "y" # "pins" /\ 5 + 1 = 6
        OBVIOUS
      <4> QED BY ONLY <2>1, <2>2, <2>4, <3>1, <4>1, Zenon
    <3>3. sm'.count = HalfBits
      <4>1. sm.count = 0
        BY ONLY <1>4, <2>4 DEF Counts
      <4>2. sm'.count = IF sm.count + HalfBits > RegBits THEN RegBits ELSE sm.count + HalfBits
        BY ONLY <2>1, <3>1, Zenon
      <4> QED BY ONLY <1>0, <4>1, <4>2
    <3>4. Owed(sm', data, r) = Owed(sm, data, r)
      BY ONLY <1>1, <2>4, <3>2, <3>3, OwedHalf
    <3>5. Counts(sm') /\ sm'.pc \notin JumpsAt
      BY ONLY <1>0, <3>2, <3>3 DEF Counts, OutsAt, JumpsAt
    <3>6. AtPixels'
      BY ONLY AtPixels, <2>1, <2>3, <3>5, StaysAtPixels
    <3> QED BY ONLY <1>2, <2>1, <2>3, <3>2, <3>4, <3>6, Zenon
  <2>5. CASE sm.pc \in {9, 13, 17}
    <3>1. i.dst = "null" /\ i.n = HalfBits
      BY <1>4, <2>5, Decoded
    <3>2. /\ sm'.osr = SubSeq(sm.osr, HalfBits + 1, RegBits) \o Zeros(HalfBits)
          /\ sm'.y = sm.y /\ data' = data
      <4>1. "null" # "pins" /\ "null" # "y"
        OBVIOUS
      <4> QED BY ONLY <2>1, <3>1, <4>1, Zenon
    <3>3. sm'.count = HalfBits
      <4>1. sm.count = 0
        BY ONLY <1>4, <2>5 DEF Counts
      <4>2. sm'.count = IF sm.count + HalfBits > RegBits THEN RegBits ELSE sm.count + HalfBits
        BY ONLY <2>1, <3>1, Zenon
      <4> QED BY ONLY <1>0, <4>1, <4>2
    <3>4. Owed(sm', data, r) = Owed(sm, data, r)
      BY ONLY <1>1, <2>2, <2>5, <3>2, <3>3, OwedSkip
    <3>5. Counts(sm') /\ sm'.pc \notin JumpsAt
      BY ONLY <1>0, <2>2, <2>5, <3>3 DEF Counts, OutsAt, JumpsAt
    <3>6. AtPixels'
      BY ONLY AtPixels, <2>1, <2>3, <3>5, StaysAtPixels
    <3> QED BY ONLY <1>2, <2>1, <2>3, <3>2, <3>4, <3>6, Zenon
  <2>6. CASE sm.pc \in OutsAt
    <3>1. i.dst = "pins" /\ i.n = 1
      BY <1>4, <2>6, Decoded
    <3>2. /\ sm'.osr = SubSeq(sm.osr, 1 + 1, RegBits) \o Zeros(1)
          /\ sm'.y = sm.y /\ data' = sm.osr[1] /\ sm'.x = sm.x
      <4>1. "pins" # "y"
        OBVIOUS
      <4> QED BY ONLY <2>1, <3>1, <4>1, Zenon
    <3>3. /\ sm.count \in HalfBits .. RegBits - 1 /\ sm'.count = sm.count + 1 /\ sm.count < RegBits
      <4>1. sm.count \in HalfBits .. RegBits - 1
        BY ONLY <1>4, <2>6 DEF Counts
      <4>2. sm'.count = IF sm.count + 1 > RegBits THEN RegBits ELSE sm.count + 1
        BY ONLY <2>1, <3>1, Zenon
      <4> QED BY ONLY <1>0, <4>1, <4>2
    <3>4. Owed(sm', data', r) = Owed(sm, data, r)
      <4>1. sm'.osr = SubSeq(sm.osr, 2, RegBits) \o Zeros(1)
        <5>1. 1 + 1 = 2
          OBVIOUS
        <5> QED BY ONLY <3>2, <5>1, Zenon
      <4>2. OneOut(sm, sm')
        <5> DEFINE t == sm'
        <5>1. /\ t.pc = sm.pc + 1 /\ t.count = sm.count + 1
              /\ t.x = sm.x /\ t.y = sm.y /\ sm.count < RegBits
              /\ t.osr = SubSeq(sm.osr, 2, RegBits) \o Zeros(1)
          BY ONLY <1>1, <2>2, <3>2, <3>3, <4>1, Zenon
        <5> HIDE DEF t
        <5>2. OneOut(sm, t)
          BY ONLY <2>6, <5>1, Zenon DEF OneOut
        <5> QED BY ONLY <5>2 DEF t
      <4>3. Owed(sm', sm.osr[1], r) = Owed(sm, data, r)
        BY ONLY <1>1, <4>2, OwedOut
      <4> QED BY ONLY <3>2, <4>3, Zenon
    <3>5. sck' = 0
      BY ONLY <1>1, <2>6
    <3>6. Counts(sm')
      BY ONLY <1>0, <2>2, <2>6, <3>3 DEF Counts, OutsAt, JumpsAt
    <3>7. AtPixels'
      BY ONLY AtPixels, <2>1, <2>3, <3>5, <3>6, StaysAtPixels
    <3> QED BY ONLY <1>2, <2>1, <2>3, <3>4, <3>7, Zenon
  <2> QED BY ONLY <2>2, <2>4, <2>5, <2>6
<1> QED BY ONLY <1>1, <1>5, <1>6, <1>7, <1>8, <1>9

(* Bits that come after all others. *)
LEMMA OwedLonger ==
  ASSUME NEW s, Registers(s), NEW d \in {0, 1}, NEW r \in Seq(Seen), NEW v \in Seq(Seen)
  PROVE  Owed(s, d, r) \o v = Owed(s, d, r \o v)
<1> DEFINE a == Now(s, d)
           b == Later(s)
           c == b \o r
<1>1. a \in Seq(Seen) /\ b \in Seq(Seen)
  BY OwedType
<1> HIDE DEF a, b
<1>2. c \in Seq(Seen) /\ b \o (r \o v) = c \o v
  <2>1. c \in Seq(Seen)
    BY ONLY <1>1, r \in Seq(Seen), JoinThree, Zenon
  <2>2. Regroups(b, r, v)
    BY ONLY <1>1, r \in Seq(Seen), v \in Seq(Seen), JoinRegroups, Zenon
  <2> QED BY ONLY <2>1, <2>2, Zenon DEF Regroups
<1>4. Owed(s, d, r) = a \o c /\ Owed(s, d, r \o v) = a \o (b \o (r \o v))
  BY Zenon DEF Owed, a, b
<1> HIDE DEF c
<1>3. a \o (c \o v) = (a \o c) \o v
  <2>1. Regroups(a, c, v)
    BY ONLY <1>1, <1>2, v \in Seq(Seen), JoinRegroups, Zenon
  <2> QED BY ONLY <2>1, Zenon DEF Regroups
<1> QED BY ONLY <1>2, <1>3, <1>4, Zenon

LEMMA NoBits == Double => BitsOf(<< >>) = << >>
<1> SUFFICES ASSUME Double PROVE BitsOf(<< >>) = << >>
  OBVIOUS
<1>1. << >> \in Seq(Nat) /\ Len(<< >>) = 0 /\ RegBits \in Nat
  BY RegBitsType
<1>2. BitsOf(<< >>) \in Seq(Seen) /\ Len(BitsOf(<< >>)) = Len(<< >>) * RegBits
  BY ONLY Double, <1>1, BitsAre
<1> DEFINE b == BitsOf(<< >>)
<1>3. b \in Seq(Seen) /\ Len(b) = 0
  BY <1>1, <1>2
<1> HIDE DEF b
<1>4. b = << >>
  BY ONLY <1>3
<1> QED BY ONLY <1>4 DEF b

(* The DMA moves two pixels to the FIFO. *)
LEMMA WordMoved ==
  ASSUME Double, PinsInv, AtPixels, OwesTo(Unfed), wire \in Seq(Nat), fed \in Nat,
         fed + 2 <= Len(wire), dmaSize = 2, FeedWord(SubSeq(wire, fed + 1, fed + dmaSize)),
         fed' = fed + 2, wire' = wire
  PROVE  Sends' /\ ~Rising
<1> DEFINE p == SubSeq(wire, fed + 1, fed + dmaSize)
           v == Pair(wire[fed + 1], wire[fed + 2])
           u == BitsOf(From(wire, fed + 2))
<1>1. /\ wire[fed + 1] \in Nat /\ wire[fed + 2] \in Nat /\ u \in Seq(Seen) /\ Unfed = Word(v) \o u
  BY TwoPixels DEF Unfed
<1>2. v \in Reg
  BY <1>1, PairIs
<1>3. Len(p) = 2 /\ p[1] = wire[fed + 1] /\ p[2] = wire[fed + 2]
  <2>1. fed + 2 - (fed + 1) + 1 = 2 /\ fed + 1 \in 1 .. Len(wire) + 1 /\ fed + 2 \in 0 .. Len(wire)
        /\ fed + 1 <= fed + 2 + 1
    BY Len(wire) \in Nat
  <2>2. Len(SubSeq(wire, fed + 1, fed + 2)) = 2
        /\ \A k \in 1 .. 2 : SubSeq(wire, fed + 1, fed + 2)[k] = wire[fed + k]
    BY <2>1, SubSeqProperties
  <2> QED BY <2>2
<1> HIDE DEF p
<1>4. fifo' = Append(fifo, v) /\ UNCHANGED <<sm, data, sck, dcPin, due>>
  <2>1. fifo' = Append(fifo, Bits(p[Len(p)], HalfBits) \o Bits(p[1], HalfBits))
        /\ UNCHANGED <<sm, data, sck, dcPin, due>>
    BY Zenon DEF FeedWord, machine, p
  <2> QED BY ONLY <1>3, <2>1, Zenon DEF Pair
<1>5. AtPixels' /\ ~Rising
  <2>1. sm' = sm /\ sck' = sck /\ dcPin' = dcPin /\ SameRun(sm, sm')
    BY ONLY <1>4, Zenon DEF SameRun
  <2>2. Counts(sm') /\ (sm'.pc \in JumpsAt => sck' = 0)
    BY ONLY AtPixels, <2>1, Zenon DEF AtPixels
  <2>3. AtPixels'
    BY ONLY AtPixels, <2>1, <2>2, StaysAtPixels
  <2>4. ~Rising
    BY ONLY <2>1 DEF Rising
  <2> QED BY ONLY <2>3, <2>4
<1>6. PICK r : Rest(fifo, Unfed, r) /\ due = Owed(sm, data, r)
  BY Zenon DEF OwesTo
<1>7. Unfed' = u
  BY Zenon DEF Unfed
<1> HIDE DEF u, v
<1>8. Rest(fifo', u, r)
  <2>1. Rest(fifo, Word(v) \o u, r) /\ fifo \in Seq(Reg)
    BY <1>1, <1>6 DEF PinsInv
  <2>2. Rest(Append(fifo, v), u, r)
    BY ONLY <1>1, <1>2, <2>1, RestMore
  <2> QED BY ONLY <1>4, <2>2, Zenon
<1>9. due' = Owed(sm', data', r)
  BY ONLY <1>4, <1>6, Zenon
<1>10. OwesTo(Unfed)'
  BY ONLY <1>7, <1>8, <1>9, Zenon DEF OwesTo
<1> QED BY ONLY <1>5, <1>10 DEF Sends

(* A transfer begins when the one before it has all been moved. *)
LEMMA TransferBegins ==
  ASSUME Double, MachineInv, PinsInv, AtPixels, OwesTo(Unfed), wire \in Seq(Nat), fed = Len(wire),
         NEW n, Transfers(n), wire' \in Seq(Nat), n \in 0 .. Len(wire')
  PROVE  Sends' /\ ~Rising
<1>1. /\ UNCHANGED <<sm, fifo, data, sck, dcPin>> /\ fed' = n
      /\ due' = due \o BitsOf(SubSeq(wire', n + 1, Len(wire')))
  BY Zenon DEF Transfers
<1> DEFINE v == BitsOf(From(wire', n))
<1>2. v \in Seq(Seen) /\ Unfed' = v /\ due' = due \o v
  <2>1. From(wire', n) \in Seq(Nat)
    BY FromIs
  <2>2. v \in Seq(Seen)
    BY ONLY <2>1, Double, BitsAre
  <2>3. due' = due \o v
    BY ONLY <1>1, Zenon DEF From
  <2>4. Unfed' = v
    BY ONLY <1>1, Zenon DEF Unfed
  <2> QED BY ONLY <2>2, <2>3, <2>4
<1>3. Unfed = << >>
  <2>1. From(wire, fed) = << >>
    <3>1. Len(wire) \in 0 .. Len(wire)
      OBVIOUS
    <3> QED BY <3>1, FromIs
  <2> QED BY ONLY <2>1, Double, NoBits, Zenon DEF Unfed
<1>4. PICK r : Rest(fifo, << >>, r) /\ due = Owed(sm, data, r)
  BY <1>3, Zenon DEF OwesTo
<1>5. /\ Registers(sm) /\ data \in {0, 1} /\ fifo \in Seq(Reg)
  BY DEF AtPixels, Counts, MachineInv, PinsInv, Registers
<1> HIDE DEF v
<1>6. r \in Seq(Seen)
  BY ONLY <1>4, <1>5, RestType
<1>7. Rest(fifo, << >> \o v, r \o v) /\ << >> \o v = v
  BY ONLY <1>2, <1>4, <1>5, RestLonger, JoinNone
<1>8. due' = Owed(sm, data, r \o v)
  BY ONLY <1>2, <1>4, <1>5, <1>6, OwedLonger
<1>9. Rest(fifo', v, r \o v) /\ due' = Owed(sm', data', r \o v)
  BY ONLY <1>1, <1>7, <1>8, Zenon
<1>10. OwesTo(Unfed)'
  BY ONLY <1>2, <1>9, Zenon DEF OwesTo
<1>11. AtPixels' /\ ~Rising
  <2>1. sm' = sm /\ sck' = sck /\ dcPin' = dcPin /\ SameRun(sm, sm')
    BY ONLY <1>1, Zenon DEF SameRun
  <2>2. Counts(sm') /\ (sm'.pc \in JumpsAt => sck' = 0)
    BY ONLY AtPixels, <2>1, Zenon DEF AtPixels
  <2>3. AtPixels'
    BY ONLY AtPixels, <2>1, <2>2, StaysAtPixels
  <2>4. ~Rising
    BY ONLY <2>1 DEF Rising
  <2> QED BY ONLY <2>3, <2>4
<1> QED BY ONLY <1>10, <1>11 DEF Sends

-----------------------------------------------------------------------------
(* Before, it runs the other program: it waits for the command, then sends  *)
(* it, and is stopped once it stalls again.                                 *)
CommandLeft == Sent("command", sm.osr, ByteBits - sm.count)
Ready == sm.on /\ sm.pc = 1 /\ sm.count = RegBits
Loaded == Ready /\ \E w \in Reg : fifo = <<w>> /\ due = Sent("command", w, ByteBits)
Sending ==
  /\ sm.on /\ fifo = << >> /\ sm.count \in 1 .. ByteBits
  /\ \/ sm.pc = 1 /\ due = CommandLeft
     \/ sm.pc = 2 /\ sck = 0 /\ due = Once("command", data) \o CommandLeft
Finished == sm.pc = 1 /\ due = << >>

AtCommand ==
  /\ sm.wrap.target = 1 /\ sm.wrap.top = 2 /\ sm.autopull /\ sm.thresh = ByteBits
  /\ wire = << >> /\ fed = 0
  /\ setup \in {"idle", "wait", "put"} => Ready /\ fifo = << >> /\ due = << >>
  /\ setup \in {"clear2", "wait2", "stop"} => dcPin = "command" /\ (Loaded \/ Sending)
  /\ setup = "stop" \/ (setup = "wait2" /\ stalled) => Sending /\ Finished
  /\ setup = "switch" => ~sm.on /\ fifo = << >> /\ due = << >> /\ dcPin = "data"

LEMMA ByteRange ==
  /\ ByteBits \in Nat /\ ByteBits >= 1 /\ ByteBits <= RegBits /\ RegBits \in Nat
  /\ \A n \in 1 .. ByteBits : ByteBits - n \in 0 .. RegBits
  /\ ByteBits \in 1 .. RegBits
BY RegBitsType

(* The bit that goes out is the first of those left. *)
LEMMA CommandBit ==
  ASSUME NEW w \in Reg, NEW c \in 0 .. ByteBits - 1, NEW v,
         v = SubSeq(w, 1 + 1, RegBits) \o Zeros(1)
  PROVE  /\ Sent("command", w, ByteBits - c)
              = Once("command", w[1]) \o Sent("command", v, ByteBits - (c + 1))
         /\ Once("command", w[1]) \o Sent("command", v, ByteBits - (c + 1)) # << >>
<1>1. ByteBits - c \in 1 .. RegBits /\ ByteBits - (c + 1) = ByteBits - c - 1 /\ 1 + 1 = 2
  BY ByteRange
<1>2. v = SubSeq(w, 2, RegBits) \o Zeros(1)
  BY ONLY <1>1, v = SubSeq(w, 1 + 1, RegBits) \o Zeros(1), Zenon
<1>3. Sent("command", w, ByteBits - c)
        = Once("command", w[1]) \o Sent("command", v, ByteBits - c - 1)
  BY ONLY <1>1, <1>2, w \in Reg, ShiftOne
<1>4. Sent("command", w, ByteBits - c) # << >>
  <2> DEFINE n == ByteBits - c
             a == Sent("command", w, n)
  <2>1. Len(a) = n /\ n > 0
    BY <1>1, SentType
  <2> HIDE DEF a
  <2>2. a # << >>
    BY ONLY <2>1
  <2> QED BY ONLY <2>2 DEF a
<1> QED BY ONLY <1>1, <1>3, <1>4, Zenon

LEMMA CommandStep ==
  ASSUME MachineInv, PinsInv, AtCommand, SmStep, UNCHANGED <<wire, fed>>,
         setup \in {"idle", "wait", "put", "clear2", "wait2", "stop", "switch"}
  PROVE  AtCommand' /\ (Rising => Reads)
<1> DEFINE runs == /\ sm.wrap.target = 1 /\ sm.wrap.top = 2 /\ sm.autopull /\ sm.thresh = ByteBits
                   /\ wire = << >> /\ fed = 0
<1>0. runs /\ sm.count \in 0 .. RegBits /\ sm.osr \in Reg /\ sck \in {0, 1} /\ data \in {0, 1}
  BY DEF AtCommand, MachineInv, PinsInv
<1>1. /\ sck' = (IF i.side = NoSide THEN sck ELSE i.side)
      /\ due' = (IF Rising /\ due # << >> THEN Tail(due) ELSE due)
      /\ UNCHANGED <<dcPin, setup>> /\ (Stall \/ Out \/ Pull \/ Move \/ Jump) /\ sm.on
  BY DEF SmStep, Clocks
<1>2. setup # "switch"
  BY <1>1 DEF AtCommand
<1>3. /\ sm.pc = 1 => i.op = "out" /\ i.dst = "pins" /\ i.n = 1 /\ i.side = 0
      /\ sm.pc = 2 => i.op = "nop" /\ i.side = 1
  <2>1. sm.pc \in 1 .. 19
    BY DEF MachineInv
  <2> QED BY <2>1, Decoded
<1>4. /\ Stall => Starved /\ stalled' = TRUE /\ UNCHANGED <<sm, fifo, data>>
      /\ Out => i.op = "out" /\ ~Starved
      /\ Pull => i.op = "pull"
      /\ Move => i.op \in {"mov", "keep", "nop"}
      /\ Jump => i.op = "jmp"
  BY Zenon DEF Stall, Out, Pull, Move, Jump
<1>5. /\ Starved <=> fifo = << >> /\ (Refill \/ i.op = "pull")
      /\ Refill <=> i.op = "out" /\ sm.count >= ByteBits
      /\ NextPc = IF sm.pc = 2 THEN 1 ELSE sm.pc + 1
  BY <1>0 DEF Starved, Refill, Empty, NextPc
<1>6. ASSUME SameRun(sm, sm') PROVE runs'
  BY <1>0, <1>6, Zenon DEF SameRun
<1> HIDE DEF runs
<1>7. ASSUME sm.pc = 1
      PROVE  /\ sck' = 0 /\ ~Rising /\ due' = due
             /\ Stall \/ Out
  <2>1. sck' = 0
    BY ONLY <1>1, <1>3, <1>7 DEF NoSide
  <2>2. ~Rising
    BY ONLY <2>1 DEF Rising
  <2>3. due' = due
    BY ONLY <1>1, <2>2
  <2>4. Stall \/ Out
    BY ONLY <1>1, <1>3, <1>4, <1>7
  <2> QED BY ONLY <2>1, <2>2, <2>3, <2>4
<1>8. ASSUME sm.pc = 1, Stall
      PROVE  AtCommand' /\ (Rising => Reads)
  <2>1. /\ sm' = sm /\ fifo' = fifo /\ data' = data /\ due' = due /\ stalled' = TRUE /\ sck' = 0
        /\ dcPin' = dcPin /\ setup' = setup
    BY ONLY <1>1, <1>4, <1>7, <1>8
  <2>2. fifo = << >> /\ sm.count >= ByteBits
    BY ONLY <1>3, <1>4, <1>5, <1>8
  <2>3. runs'
    <3>1. SameRun(sm, sm')
      BY ONLY <2>1, Zenon DEF SameRun
    <3> QED BY ONLY <1>6, <3>1
  <2>4. setup \in {"idle", "wait", "put"} => (Ready /\ fifo = << >> /\ due = << >>)'
    BY <2>1 DEF AtCommand, Ready
  <2>5. ASSUME setup \in {"clear2", "wait2", "stop"}
        PROVE  dcPin' = "command" /\ Sending' /\ Finished'
    <3>1. dcPin = "command" /\ Sending
      <4>1. ~Loaded
        <5>1. \A w : <<w>> # << >>
          OBVIOUS
        <5> QED BY ONLY <2>2, <5>1, Zenon DEF Loaded
      <4> QED BY ONLY AtCommand, <2>5, <4>1, Zenon DEF AtCommand
    <3>2. sm.count = ByteBits /\ ByteBits - sm.count = 0
      BY ONLY <2>2, <3>1, ByteRange DEF Sending
    <3>3. due = CommandLeft
      <4>1. sm.pc # 2
        BY ONLY <1>8
      <4> QED BY ONLY <3>1, <4>1, Zenon DEF Sending
    <3>4. CommandLeft = << >>
      BY ONLY <3>2 DEF CommandLeft, Sent
    <3>5. CommandLeft' = CommandLeft
      BY ONLY <2>1, Zenon DEF CommandLeft
    <3>6. Sending'
      BY ONLY <1>8, <2>1, <3>1, <3>3, <3>5, Zenon DEF Sending
    <3>7. Finished'
      BY ONLY <1>8, <2>1, <3>3, <3>4, Zenon DEF Finished
    <3> QED BY ONLY <2>1, <3>1, <3>6, <3>7
  <2>6. setup' \in {"clear2", "wait2", "stop"} => dcPin' = "command" /\ Sending' /\ Finished'
    BY ONLY <2>1, <2>5
  <2>7. setup' \in {"idle", "wait", "put"} => (Ready /\ fifo = << >> /\ due = << >>)'
    BY ONLY <2>1, <2>4
  <2>8. AtCommand'
    BY ONLY <1>2, <2>1, <2>3, <2>6, <2>7 DEF AtCommand, runs
  <2> QED BY ONLY <1>7, <1>8, <2>8
<1>9. ASSUME sm.pc = 1, Out, NEW w \in Reg, NEW c \in 0 .. ByteBits - 1,
             w = IF Refill THEN Head(fifo) ELSE sm.osr, c = IF Refill THEN 0 ELSE sm.count,
             Refill => Tail(fifo) = << >>, ~Refill => fifo = << >>,
             due = Sent("command", w, ByteBits - c), setup \in {"clear2", "wait2", "stop"}
      PROVE  AtCommand' /\ (Rising => Reads)
  <2>1. /\ sm'.osr = SubSeq(w, i.n + 1, RegBits) \o Zeros(i.n)
        /\ sm'.count = IF c + i.n > RegBits THEN RegBits ELSE c + i.n
        /\ sm'.pc = NextPc /\ SameRun(sm, sm')
        /\ data' = IF i.dst = "pins" THEN w[1] ELSE data
        /\ fifo' = IF Refill THEN Tail(fifo) ELSE fifo
        /\ stalled' = stalled
    BY <1>9, OutEffect, Zenon
  <2>2. sm'.osr = SubSeq(w, 1 + 1, RegBits) \o Zeros(1) /\ data' = w[1] /\ fifo' = << >>
    BY ONLY <1>3, <1>9, <2>1, Zenon
  <2>3. sm'.count = c + 1 /\ c + 1 \in 1 .. ByteBits
    <3>1. sm'.count = IF c + 1 > RegBits THEN RegBits ELSE c + 1
      BY ONLY <1>3, <1>9, <2>1, Zenon
    <3> QED BY ONLY <3>1, ByteRange, c \in 0 .. ByteBits - 1
  <2>4. sm'.pc = 2
    BY ONLY <1>5, <1>9, <2>1
  <2>5. /\ due = Once("command", w[1]) \o Sent("command", sm'.osr, ByteBits - (c + 1))
        /\ due # << >>
    <3> DEFINE v == sm'.osr
    <3>1. v = SubSeq(w, 1 + 1, RegBits) \o Zeros(1)
      BY ONLY <2>2
    <3> HIDE DEF v
    <3>2. due = Once("command", w[1]) \o Sent("command", v, ByteBits - (c + 1)) /\ due # << >>
      BY ONLY <1>9, <3>1, CommandBit, Zenon
    <3> QED BY ONLY <3>2 DEF v
  <2>6. sck' = 0 /\ due' = due /\ setup' = setup /\ dcPin' = dcPin
    BY ONLY <1>1, <1>7, <1>9
  <2>7. due' = Once("command", data') \o CommandLeft'
    BY ONLY <2>2, <2>3, <2>5, <2>6, Zenon DEF CommandLeft
  <2>8. Sending'
    <3>1. sm'.on
      BY ONLY <1>1, <2>1, Zenon DEF SameRun
    <3> QED BY ONLY <2>2, <2>3, <2>4, <2>6, <2>7, <3>1, Zenon DEF Sending
  <2>9. ~(setup = "stop" \/ (setup = "wait2" /\ stalled))
    BY ONLY AtCommand, <2>5, Zenon DEF AtCommand, Finished
  <2>10. dcPin = "command" /\ setup \notin {"idle", "wait", "put", "switch"}
    <3>1. dcPin = "command"
      BY ONLY AtCommand, <1>9, Zenon DEF AtCommand
    <3> QED BY ONLY <1>9, <3>1
  <2>11. runs'
    BY ONLY <1>6, <2>1
  <2>12. /\ setup' \notin {"idle", "wait", "put"} /\ setup' # "switch" /\ dcPin' = "command"
         /\ ~(setup' = "stop" \/ (setup' = "wait2" /\ stalled'))
    BY ONLY <2>1, <2>6, <2>9, <2>10
  <2>13. AtCommand'
    BY ONLY <2>8, <2>11, <2>12, Zenon DEF AtCommand, runs
  <2> QED BY ONLY <1>7, <1>9, <2>13
<1>10. CASE setup \in {"idle", "wait", "put"}
  <2>1. Ready /\ fifo = << >>
    BY <1>10 DEF AtCommand
  <2>2. sm.pc = 1 /\ sm.count >= ByteBits
    BY ONLY <2>1, ByteRange DEF Ready
  <2>3. Starved
    BY ONLY <1>3, <1>5, <2>1, <2>2
  <2>4. Stall
    BY ONLY <1>4, <1>7, <2>2, <2>3
  <2> QED BY ONLY <1>8, <2>2, <2>4
<1>11. CASE setup \in {"clear2", "wait2", "stop"} /\ Loaded
  <2>1. PICK w \in Reg : fifo = <<w>> /\ due = Sent("command", w, ByteBits)
    BY ONLY <1>11 DEF Loaded
  <2>2. sm.pc = 1 /\ sm.count >= ByteBits
    BY ONLY <1>11, ByteRange DEF Loaded, Ready
  <2>3. fifo # << >> /\ Head(fifo) = w /\ Tail(fifo) = << >>
    BY ONLY <2>1
  <2>4. Refill /\ ~Starved
    BY ONLY <1>3, <1>5, <2>2, <2>3
  <2>5. Out
    BY ONLY <1>4, <1>7, <2>2, <2>4
  <2>6. 0 \in 0 .. ByteBits - 1 /\ ByteBits - 0 = ByteBits
    BY ByteRange
  <2>7. due = Sent("command", w, ByteBits - 0)
    BY ONLY <2>1, <2>6, Zenon
  <2> QED BY ONLY <1>9, <1>11, <2>2, <2>3, <2>4, <2>5, <2>6, <2>7
<1>12. CASE setup \in {"clear2", "wait2", "stop"} /\ Sending /\ sm.pc = 1
  <2>1. fifo = << >> /\ sm.count \in 1 .. ByteBits
    BY ONLY <1>12 DEF Sending
  <2>2. CASE Stall
    BY ONLY <1>8, <1>12, <2>2
  <2>3. CASE Out
    <3>1. ~Refill
      BY ONLY <1>4, <1>5, <2>1, <2>3
    <3>2. sm.count \in 0 .. ByteBits - 1
      BY ONLY <1>3, <1>5, <1>12, <2>1, <3>1, ByteRange
    <3>3. due = Sent("command", sm.osr, ByteBits - sm.count)
      <4>1. sm.pc # 2
        BY ONLY <1>12
      <4> QED BY ONLY <1>12, <4>1, Zenon DEF Sending, CommandLeft
    <3> QED BY ONLY <1>0, <1>9, <1>12, <2>1, <2>3, <3>1, <3>2, <3>3
  <2> QED BY ONLY <1>7, <1>12, <2>2, <2>3
<1>13. CASE setup \in {"clear2", "wait2", "stop"} /\ Sending /\ sm.pc = 2
  <2>1. /\ fifo = << >> /\ sm.count \in 1 .. ByteBits /\ sck = 0
        /\ due = Once("command", data) \o CommandLeft
    <3>1. sm.pc # 1
      BY ONLY <1>13
    <3> QED BY ONLY <1>13, <3>1, Zenon DEF Sending
  <2>2. i.op = "nop" /\ i.side = 1
    BY ONLY <1>3, <1>13
  <2>3. Move
    <3>1. ~Starved
      BY ONLY <1>5, <2>2
    <3> QED BY ONLY <1>1, <1>4, <2>2, <3>1
  <2>4. /\ sm'.osr = sm.osr /\ sm'.count = sm.count /\ sm'.pc = NextPc /\ SameRun(sm, sm')
        /\ UNCHANGED <<fifo, data, stalled>>
    BY <2>2, <2>3, MoveEffect
  <2>5. sm'.pc = 1
    BY ONLY <1>5, <1>13, <2>4
  <2>6. Rising
    BY ONLY <1>1, <2>1, <2>2 DEF Rising, NoSide
  <2>7. due # << >> /\ Head(due) = <<"command", data>> /\ Tail(due) = CommandLeft
    <3>1. <<"command", data>> \in Seen
      BY ONLY <1>0 DEF Seen
    <3>2. CommandLeft \in Seq(Seen)
      BY <1>0, <2>1, ByteRange, SentType DEF CommandLeft
    <3>3. due = << <<"command", data>> >> \o CommandLeft
      BY ONLY <2>1, Zenon DEF Once
    <3>4. /\ << <<"command", data>> >> \o CommandLeft # << >>
          /\ Head(<< <<"command", data>> >> \o CommandLeft) = <<"command", data>>
          /\ Tail(<< <<"command", data>> >> \o CommandLeft) = CommandLeft
      BY ONLY <3>1, <3>2, JoinOne, Zenon
    <3> QED BY ONLY <3>3, <3>4, Zenon
  <2>8. dcPin = "command"
    BY ONLY AtCommand, <1>13, Zenon DEF AtCommand
  <2>9. Reads
    BY ONLY <2>7, <2>8, Zenon DEF Reads
  <2>10. due' = CommandLeft /\ CommandLeft' = CommandLeft
    BY ONLY <1>1, <2>4, <2>6, <2>7, Zenon DEF CommandLeft
  <2>11. Sending'
    <3>1. sm'.on
      BY ONLY <1>1, <2>4, Zenon DEF SameRun
    <3> QED BY ONLY <2>1, <2>4, <2>5, <2>10, <3>1, Zenon DEF Sending
  <2>12. ~(setup = "stop" \/ (setup = "wait2" /\ stalled))
    BY ONLY AtCommand, <2>7, Zenon DEF AtCommand, Finished
  <2>13. runs'
    BY ONLY <1>6, <2>4
  <2>14. /\ setup' \notin {"idle", "wait", "put"} /\ setup' # "switch" /\ dcPin' = "command"
         /\ ~(setup' = "stop" \/ (setup' = "wait2" /\ stalled'))
    BY ONLY <1>1, <1>13, <2>4, <2>8, <2>12
  <2>15. AtCommand'
    BY ONLY <2>11, <2>13, <2>14, Zenon DEF AtCommand, runs
  <2> QED BY ONLY <2>9, <2>15
<1>14. setup \in {"clear2", "wait2", "stop"} => Loaded \/ (Sending /\ (sm.pc = 1 \/ sm.pc = 2))
  BY ONLY AtCommand, Zenon DEF AtCommand, Sending
<1> QED BY <1>2, <1>10, <1>11, <1>12, <1>13, <1>14

(* The set-up ends with a machine that sends pixels, none of them fed yet. *)
LEMMA SetupStep ==
  ASSUME Double, MachineInv, PinsInv, AtCommand, SetupWriteFramebuffer, UNCHANGED <<wire, fed>>
  PROVE  /\ ~Rising
         /\ setup' # "done" => AtCommand'
         /\ setup' = "done" => Sends'
<1> DEFINE runs == /\ sm.wrap.target = 1 /\ sm.wrap.top = 2 /\ sm.autopull /\ sm.thresh = ByteBits
                   /\ wire = << >> /\ fed = 0
           early == Ready /\ fifo = << >> /\ due = << >>
           late == dcPin = "command" /\ (Loaded \/ Sending)
           ended == Sending /\ Finished
<1>0. runs
  BY DEF AtCommand
<1>1. /\ setup \in {"idle", "wait", "put"} => early
      /\ setup \in {"clear2", "wait2", "stop"} => late
      /\ setup = "stop" \/ (setup = "wait2" /\ stalled) => ended
      /\ setup = "switch" => ~sm.on /\ fifo = << >> /\ due = << >> /\ dcPin = "data"
  BY Zenon DEF AtCommand
<1>2. ASSUME runs',
             /\ setup' \in {"idle", "wait", "put"} => early'
             /\ setup' \in {"clear2", "wait2", "stop"} => late'
             /\ setup' = "stop" \/ (setup' = "wait2" /\ stalled') => ended'
             /\ setup' = "switch" => (~sm.on /\ fifo = << >> /\ due = << >> /\ dcPin = "data")'
      PROVE  AtCommand'
  BY ONLY <1>2, Zenon DEF AtCommand
<1>3. ASSUME UNCHANGED <<sm, fifo, data, sck, due, dcPin>>
      PROVE  (runs' <=> runs) /\ (early' <=> early) /\ (late' <=> late) /\ (ended' <=> ended) /\ ~Rising
  <2>1. /\ sm' = sm /\ fifo' = fifo /\ data' = data /\ sck' = sck /\ due' = due /\ dcPin' = dcPin
        /\ wire' = wire /\ fed' = fed
    BY <1>3
  <2>2. Ready' <=> Ready
    BY ONLY <2>1, Zenon DEF Ready
  <2>3. Loaded' <=> Loaded
    BY ONLY <2>1, <2>2, Zenon DEF Loaded
  <2>4. (Sending' <=> Sending) /\ (Finished' <=> Finished)
    BY ONLY <2>1, Zenon DEF Sending, Finished, CommandLeft
  <2>5. ~Rising
    BY ONLY <2>1 DEF Rising
  <2> QED BY ONLY <2>1, <2>2, <2>3, <2>4, <2>5, Zenon
<1> HIDE DEF runs, early, late, ended
<1>4. CASE \/ ClearStall("idle", "wait") \/ AwaitStall("wait", "put")
           \/ ClearStall("clear2", "wait2") \/ AwaitStall("wait2", "stop")
  <2>1. UNCHANGED <<sm, fifo, data, sck, due, dcPin>>
    BY <1>4 DEF ClearStall, AwaitStall, machine
  <2>2. \/ setup = "idle" /\ setup' = "wait"
        \/ setup = "wait" /\ setup' = "put"
        \/ setup = "clear2" /\ setup' = "wait2" /\ stalled' = FALSE
        \/ setup = "wait2" /\ setup' = "stop" /\ stalled
    BY <1>4 DEF ClearStall, AwaitStall, Thread
  <2>3. /\ setup' \in {"wait", "put", "wait2", "stop"}
        /\ setup' \in {"wait", "put"} => setup \in {"idle", "wait", "put"}
        /\ setup' \in {"wait2", "stop"} => setup \in {"clear2", "wait2", "stop"}
        /\ setup' = "stop" \/ (setup' = "wait2" /\ stalled') => setup = "wait2" /\ stalled
    BY ONLY <2>2
  <2>4. /\ runs' /\ ~Rising
        /\ setup' \in {"wait", "put"} => early'
        /\ setup' \in {"wait2", "stop"} => late'
        /\ setup' = "stop" \/ (setup' = "wait2" /\ stalled') => ended'
    BY ONLY <1>0, <1>1, <1>3, <2>1, <2>3
  <2>5. /\ setup' \in {"idle", "wait", "put"} => early'
        /\ setup' \in {"clear2", "wait2", "stop"} => late'
        /\ setup' # "switch" /\ setup' # "done"
    BY ONLY <2>3, <2>4
  <2> QED BY ONLY <1>2, <2>4, <2>5
<1>5. CASE PutByte
  <2> DEFINE w == [k \in 1 .. RegBits |-> Bits(RamWr, ByteBits)[((k - 1) % ByteBits) + 1]]
             byte == [k \in 1 .. ByteBits |-> <<"command", Bits(RamWr, ByteBits)[k]>>]
  <2>1. /\ setup = "put" /\ setup' = "clear2" /\ dcPin' = "command"
        /\ fifo' = Append(fifo, w) /\ due' = byte /\ UNCHANGED <<sm, data, sck>>
    BY <1>5 DEF PutByte, Thread, machine
  <2>2. early
    BY ONLY <1>1, <2>1
  <2>3. w \in Reg
    <3>1. Bits(RamWr, ByteBits) \in [1 .. ByteBits -> {0, 1}]
      BY RegBitsType, PioAssumption, BitTypes
    <3>2. \A k \in 1 .. RegBits : ((k - 1) % ByteBits) + 1 \in 1 .. ByteBits
      BY ByteRange
    <3> QED BY <3>1, <3>2 DEF Reg
  <2>4. byte = Sent("command", w, ByteBits)
    <3>1. ASSUME NEW k \in 1 .. ByteBits PROVE w[k] = Bits(RamWr, ByteBits)[k]
      <4>1. k \in 1 .. RegBits /\ (k - 1) % ByteBits = k - 1 /\ k - 1 + 1 = k
        BY ByteRange
      <4> QED BY ONLY <4>1
    <3> HIDE DEF w
    <3> QED BY ONLY <3>1 DEF Sent
  <2> HIDE DEF w, byte
  <2>5. fifo' = <<w>>
    <3>1. fifo = << >>
      BY ONLY <2>2 DEF early
    <3> QED BY ONLY <2>1, <3>1
  <2>6. Ready'
    BY ONLY <2>1, <2>2, Zenon DEF early, Ready
  <2>7. Loaded'
    BY ONLY <2>1, <2>3, <2>4, <2>5, <2>6, Zenon DEF Loaded
  <2>8. late' /\ runs'
    BY ONLY <1>0, <2>1, <2>7, UNCHANGED <<wire, fed>> DEF late, runs
  <2>9. AtCommand'
    BY ONLY <1>2, <2>1, <2>8
  <2>10. ~Rising
    BY ONLY <2>1 DEF Rising
  <2> QED BY ONLY <2>1, <2>9, <2>10
<1>6. CASE StopMachine
  <2>1. /\ setup = "stop" /\ setup' = "switch" /\ dcPin' = "data"
        /\ UNCHANGED <<fifo, sck, due>>
    BY <1>6 DEF StopMachine, Thread
  <2>2. ~sm'.on
    BY <1>6 DEF StopMachine, MachineInv, SameRun
  <2>3. fifo = << >> /\ due = << >>
    BY ONLY <1>1, <2>1 DEF ended, Sending, Finished
  <2>4. runs'
    <3>1. sm'.wrap = sm.wrap /\ sm'.autopull = sm.autopull /\ sm'.thresh = sm.thresh
      BY <1>6 DEF StopMachine, MachineInv
    <3> QED BY ONLY <1>0, <3>1, UNCHANGED <<wire, fed>> DEF runs
  <2>5. AtCommand'
    BY ONLY <1>2, <2>1, <2>2, <2>3, <2>4
  <2>6. ~Rising
    BY ONLY <2>1 DEF Rising
  <2> QED BY ONLY <2>1, <2>5, <2>6
<1>7. CASE SwitchProgram
  <2>1. /\ setup = "switch" /\ setup' = "done" /\ UNCHANGED <<fifo, data, sck, dcPin, due>>
    BY <1>7 DEF SwitchProgram, Thread
  <2>2. sm' = [sm EXCEPT !.on = TRUE, !.pc = 3, !.wrap = [target |-> 3, top |-> 19],
                         !.autopull = FALSE, !.thresh = RegBits]
    BY <1>7, Programs DEF SwitchProgram
  <2>3. /\ sm'.on /\ sm'.pc = 3 /\ sm'.wrap.target = 3 /\ sm'.wrap.top = 19
        /\ ~sm'.autopull /\ sm'.thresh = RegBits
    BY <2>2 DEF MachineInv
  <2>4. fifo = << >> /\ due = << >> /\ dcPin = "data"
    BY ONLY <1>1, <2>1
  <2>5. AtPixels'
    BY ONLY <2>1, <2>3, <2>4 DEF AtPixels, Counts, OutsAt, JumpsAt
  <2>6. Unfed' = << >>
    <3>1. wire' = << >> /\ fed' = 0
      BY ONLY <1>0, UNCHANGED <<wire, fed>> DEF runs
    <3>2. From(<< >>, 0) = << >>
      BY ONLY DEF From
    <3> QED BY ONLY <3>1, <3>2, Double, NoBits, Zenon DEF Unfed
  <2>7. Owed(sm', data', << >>) = << >>
    <3>1. Now(sm', data') = << >>
      BY ONLY <2>3 DEF Now, OutsAt, JumpsAt
    <3>2. Later(sm') = << >>
      BY ONLY <2>3 DEF Later
    <3> QED BY ONLY <3>1, <3>2 DEF Owed
  <2>8. Rest(<< >>, << >>, << >>)
    <3>1. << >> \in Seq(Seen)
      OBVIOUS
    <3> QED BY ONLY <3>1, RestNone
  <2>9. OwesTo(Unfed)'
    <3>1. Rest(fifo', Unfed', << >>) /\ due' = Owed(sm', data', << >>)
      BY ONLY <2>1, <2>4, <2>6, <2>7, <2>8, Zenon
    <3> QED BY ONLY <3>1, Zenon DEF OwesTo
  <2>10. ~Rising
    BY ONLY <2>1 DEF Rising
  <2> QED BY ONLY <2>1, <2>5, <2>9, <2>10 DEF Sends
<1> QED BY <1>4, <1>5, <1>6, <1>7 DEF SetupWriteFramebuffer

-----------------------------------------------------------------------------
(* The whole.  While no transfer runs the last one has all been moved.      *)
PanelIInv ==
  /\ OutputIInv
  /\ busy = {} => fed = Len(wire)
  /\ setup = "done" => Sends
  /\ setup # "done" => AtCommand

LEMMA PanelKept ==
  ASSUME UNCHANGED <<pioVars, wire, fed>>
  PROVE  (Sends' <=> Sends) /\ (AtCommand' <=> AtCommand) /\ setup' = setup /\ ~Rising
<1>1. /\ sm' = sm /\ fifo' = fifo /\ data' = data /\ sck' = sck /\ dcPin' = dcPin
      /\ stalled' = stalled /\ setup' = setup /\ due' = due /\ wire' = wire /\ fed' = fed
  BY DEF pioVars
<1>2. AtPixels' <=> AtPixels
  BY ONLY <1>1, Zenon DEF AtPixels, Counts
<1>3. OwesTo(Unfed)' <=> OwesTo(Unfed)
  BY ONLY <1>1, Zenon DEF OwesTo, Unfed
<1>4. (Ready' <=> Ready) /\ (Sending' <=> Sending) /\ (Finished' <=> Finished)
  BY ONLY <1>1, Zenon DEF Ready, Sending, Finished, CommandLeft
<1>5. Loaded' <=> Loaded
  BY ONLY <1>1, <1>4, Zenon DEF Loaded
<1>6. AtCommand' <=> AtCommand
  BY ONLY <1>1, <1>4, <1>5, Zenon DEF AtCommand
<1>7. ~Rising
  BY ONLY <1>1 DEF Rising
<1> QED BY ONLY <1>1, <1>2, <1>3, <1>6, <1>7, Zenon DEF Sends

LEMMA PanelInit == ASSUME PicoSetup, InitOutput PROVE PanelIInv
<1>1. OutputIInv
  BY OutputInit
<1>2. wire = << >> /\ fed = 0
  BY DEF InitOutput, Init, PusherInit
<1>3. /\ sm.on /\ sm.pc = 1 /\ sm.wrap.target = 1 /\ sm.wrap.top = 2 /\ sm.count = RegBits
      /\ sm.autopull /\ sm.thresh = ByteBits
      /\ fifo = << >> /\ due = << >> /\ setup = "idle"
  BY Programs DEF InitOutput, InitPio
<1>4. AtCommand
  BY ONLY <1>2, <1>3 DEF AtCommand, Ready
<1> QED BY ONLY <1>1, <1>2, <1>3, <1>4 DEF PanelIInv

LEMMA PanelSetUp ==
  ASSUME PicoSetup, PanelIInv, SetUp, OutputIInv' PROVE PanelIInv' /\ (Rising => Reads)
<1>1. Double /\ MachineInv /\ PinsInv /\ AtCommand /\ SetupWriteFramebuffer
  BY DoubleAssumption DEF PicoSetup, PanelIInv, OutputIInv, SetUp, Settles
<1>2. UNCHANGED <<wire, fed, busy>>
  BY DEF SetUp, vars, pusherVars, hardware
<1>3. ~Rising /\ (setup' # "done" => AtCommand') /\ (setup' = "done" => Sends')
  BY <1>1, <1>2, SetupStep
<1>4. busy = {} => fed = Len(wire)
  BY DEF PanelIInv
<1> QED BY ONLY <1>2, <1>3, <1>4, OutputIInv' DEF PanelIInv

LEMMA PanelMain ==
  ASSUME PicoSetup, PanelIInv, Main_, OutputIInv' PROVE PanelIInv' /\ (Rising => Reads)
<1>0. /\ Double /\ MachineInv /\ PinsInv /\ SetupInv /\ DisplayIInv /\ PusherInv
      /\ busy = {} => fed = Len(wire)
      /\ setup = "done" => Sends
      /\ setup # "done" => AtCommand
  BY DoubleAssumption DEF PicoSetup, PanelIInv, OutputIInv, DisplayIInv
<1>1. /\ pusherPc # "start" => UNCHANGED <<wire, busy>>
      /\ pusherPc = "start" => busy' # {}
  BY <1>0, MainLoopEffects DEF Main_
<1>2. CASE pusherPc = "start"
  <2>1. busy = {} /\ setup = "done" /\ wire \in Seq(Nat)
    BY <1>0, <1>2 DEF PusherInv, PusherTypeOK, Active, SetupInv
  <2>2. wire' \in Seq(Nat) /\ 0 \in 0 .. Len(wire')
    <3>1. wire' \in Seq(Nat)
      BY DEF OutputIInv, DisplayIInv, PusherInv, PusherTypeOK
    <3> QED BY <3>1
  <2>3. Transfers(0)
    BY <1>2 DEF Main_
  <2>4. Sends' /\ ~Rising
    BY <1>0, <2>1, <2>2, <2>3, TransferBegins DEF Sends
  <2>5. setup' = setup
    BY <2>3 DEF Transfers
  <2> QED BY ONLY <1>1, <1>2, <2>1, <2>4, <2>5, OutputIInv' DEF PanelIInv
<1>3. CASE pusherPc # "start"
  <2>1. UNCHANGED <<pioVars, wire, fed, busy>>
    BY <1>1, <1>3 DEF Main_
  <2>2. (Sends' <=> Sends) /\ (AtCommand' <=> AtCommand) /\ setup' = setup /\ ~Rising
    BY <2>1, PanelKept
  <2> QED BY ONLY <1>0, <2>1, <2>2, OutputIInv' DEF PanelIInv
<1> QED BY <1>2, <1>3

LEMMA PanelMoves ==
  ASSUME PicoSetup, PanelIInv, Moves, OutputIInv' PROVE PanelIInv' /\ (Rising => Reads)
<1>0. /\ Double /\ PinsInv /\ SetupInv /\ FedInv /\ PusherInv
      /\ busy # {} /\ fed < Len(wire)
  BY DoubleAssumption DEF PicoSetup, PanelIInv, OutputIInv, DisplayIInv, Moves
<1>1. setup = "done" /\ dmaSize = 2 /\ Active /\ Sends
  BY <1>0 DEF SetupInv, Active, PanelIInv
<1>2. wire \in Seq(Nat) /\ fed \in Nat /\ fed + 2 <= Len(wire)
  <2>1. wire \in Seq(Nat)
    BY <1>0 DEF PusherInv, PusherTypeOK
  <2>2. Len(wire) \in Nat /\ Len(wire) % 2 = 0
    BY <1>0, <1>1, WireIsEven
  <2>3. fed \in Nat /\ fed % 2 = 0
    BY <1>0 DEF FedInv
  <2> QED BY ONLY <1>0, <2>1, <2>2, <2>3
<1>3. /\ FeedWord(SubSeq(wire, fed + 1, fed + dmaSize)) /\ fed' = fed + 2
      /\ UNCHANGED <<wire, busy, setup>>
  BY <1>1 DEF Moves, FeedWord, vars, pusherVars, hardware
<1>4. Sends' /\ ~Rising
  BY <1>0, <1>1, <1>2, <1>3, WordMoved DEF Sends
<1> QED BY ONLY <1>0, <1>1, <1>3, <1>4, OutputIInv' DEF PanelIInv

LEMMA PanelTransfer ==
  ASSUME PicoSetup, PanelIInv, Done \/ Handler, OutputIInv'
  PROVE  PanelIInv' /\ (Rising => Reads)
<1>0. /\ Double /\ MachineInv /\ PinsInv /\ SetupInv /\ FedInv /\ DisplayIInv /\ PusherInv
      /\ busy = {} => fed = Len(wire)
      /\ setup = "done" => Sends
      /\ setup # "done" => AtCommand
  BY DoubleAssumption DEF PicoSetup, PanelIInv, OutputIInv, DisplayIInv
<1>1. /\ Active
      /\ Dma => UNCHANGED wire
      /\ Len(wire) \in Nat /\ Len(wire') \in Nat /\ Len(wire) <= Len(wire')
  BY <1>0, TransferEffects DEF Done, Handler
<1>2. fed = Len(wire)
  <2>1. Handler => busy = {}
    BY <1>0 DEF Handler, IrqHandler, IrqNextRows, IrqFrameDone, Irq, PusherInv
  <2> QED BY <1>0, <2>1 DEF Done
<1>3. CASE UNCHANGED <<pioVars, wire, fed>>
  <2>1. (Sends' <=> Sends) /\ (AtCommand' <=> AtCommand) /\ setup' = setup /\ ~Rising
    BY <1>3, PanelKept
  <2> QED BY ONLY <1>0, <1>2, <1>3, <2>1, OutputIInv' DEF PanelIInv
<1>4. CASE Handler /\ wire' # wire
  <2>1. setup = "done" /\ Transfers(fed) /\ setup' = setup
    <3>1. setup = "done"
      BY ONLY <1>0, <1>1, Zenon DEF SetupInv
    <3>2. Transfers(fed)
      BY ONLY <1>4, Zenon DEF Handler
    <3>3. setup' = setup
      BY ONLY <3>2 DEF Transfers
    <3> QED BY ONLY <3>1, <3>2, <3>3
  <2>2. busy' # {}
    BY <1>4 DEF Handler, IrqHandler, IrqNextRows, IrqFrameDone
  <2>3. wire \in Seq(Nat) /\ wire' \in Seq(Nat)
    BY <1>0 DEF OutputIInv, DisplayIInv, PusherInv, PusherTypeOK
  <2>4. fed \in 0 .. Len(wire')
    BY ONLY <1>1, <1>2
  <2>5. Sends' /\ ~Rising
    BY <1>0, <1>2, <2>1, <2>3, <2>4, TransferBegins DEF Sends
  <2> QED BY ONLY <2>1, <2>2, <2>5, OutputIInv' DEF PanelIInv
<1>5. Done => UNCHANGED <<pioVars, wire, fed>>
  BY <1>1 DEF Done
<1>6. Handler => wire' # wire \/ UNCHANGED <<pioVars, wire, fed>>
  <2>1. Handler => (IF wire' # wire THEN Transfers(fed) ELSE UNCHANGED <<pioVars, fed>>)
    BY ONLY Zenon DEF Handler
  <2> QED BY ONLY <2>1
<1> QED BY ONLY <1>3, <1>4, <1>5, <1>6, Done \/ Handler

LEMMA PanelMachine ==
  ASSUME PicoSetup, PanelIInv, Machine, OutputIInv' PROVE PanelIInv' /\ (Rising => Reads)
<1>0. /\ Double /\ MachineInv /\ PinsInv /\ SetupInv /\ FedInv /\ PusherInv
      /\ busy = {} => fed = Len(wire)
      /\ setup = "done" => Sends
      /\ setup # "done" => AtCommand
  BY DoubleAssumption DEF PicoSetup, PanelIInv, OutputIInv, DisplayIInv
<1>1. SmStep /\ UNCHANGED <<wire, fed, busy, setup>>
  BY DEF Machine, SmStep, vars, pusherVars, hardware
<1>2. CASE setup = "done"
  <2>1. AtPixels /\ OwesTo(Unfed)
    BY ONLY <1>0, <1>2 DEF Sends
  <2>2. Unfed \in Seq(Seen)
    <3>1. wire \in Seq(Nat) /\ fed \in 0 .. Len(wire)
      BY <1>0 DEF PusherInv, PusherTypeOK, FedInv
    <3>2. From(wire, fed) \in Seq(Nat)
      BY ONLY <3>1, FromIs
    <3> QED BY ONLY <1>0, <3>2, BitsAre DEF Unfed
  <2>3. /\ AtPixels' /\ (Rising => Reads)
        /\ \E p : Rest(fifo', Unfed, p) /\ due' = Owed(sm', data', p)
    BY ONLY <1>0, <1>1, <2>1, <2>2, PixelStep
  <2>4. OwesTo(Unfed)'
    <3>1. Unfed' = Unfed
      BY ONLY <1>1 DEF Unfed
    <3> QED BY ONLY <2>3, <3>1, Zenon DEF OwesTo
  <2> QED BY ONLY <1>0, <1>1, <1>2, <2>3, <2>4, OutputIInv' DEF PanelIInv, Sends
<1>3. CASE setup # "done"
  <2>1. setup \in {"idle", "wait", "put", "clear2", "wait2", "stop", "switch"} /\ AtCommand
    BY <1>0, <1>3 DEF SetupInv
  <2>2. UNCHANGED <<wire, fed>>
    BY ONLY <1>1
  <2>3. AtCommand' /\ (Rising => Reads)
    BY ONLY <1>0, <1>1, <2>1, <2>2, CommandStep
  <2> QED BY ONLY <1>0, <1>1, <1>3, <2>3, OutputIInv' DEF PanelIInv
<1> QED BY <1>2, <1>3

LEMMA PanelStep ==
  ASSUME PicoSetup, PanelIInv, [NextOutput]_allVars PROVE PanelIInv' /\ (Rising => Reads)
<1>1. OutputIInv'
  BY OutputStep DEF PanelIInv
<1>2. CASE UNCHANGED allVars
  <2>1. UNCHANGED <<pioVars, wire, fed, busy>>
    BY <1>2 DEF allVars, vars, pusherVars, hardware
  <2>2. (Sends' <=> Sends) /\ (AtCommand' <=> AtCommand) /\ setup' = setup /\ ~Rising
    BY <2>1, PanelKept
  <2> QED BY ONLY PanelIInv, <1>1, <2>1, <2>2 DEF PanelIInv
<1> QED
  BY <1>1, <1>2, PanelSetUp, PanelMain, PanelMoves, PanelTransfer, PanelMachine DEF NextOutput

(* The panel sees the framebuffer: whenever the clock rises it reads the    *)
(* next bit due, in the mode it is due in.  The command RAMWR is all read   *)
(* before D/CX changes and the machine is stopped, and from then on come    *)
(* the pixels of each transfer, every one twice and from its most           *)
(* significant bit, whatever the FIFO holds when the machine asks, the      *)
(* thread waits, the DMA moves or the handler begins another transfer; and  *)
(* the clock never rises when nothing is due.                               *)
THEOREM PanelSeesPixels == ASSUME PicoSetup PROVE OutputSpec => PanelReads
<1>1. InitOutput => PanelIInv
  BY PanelInit
<1>2. PanelIInv /\ [NextOutput]_allVars
        => PanelIInv' /\ [sm.on /\ Rising => due # << >> /\ Head(due) = <<dcPin, data>>]_pioVars
  <2>1. ASSUME PanelIInv, [NextOutput]_allVars PROVE PanelIInv' /\ (Rising => Reads)
    BY <2>1, PanelStep
  <2> QED BY <2>1 DEF Reads
<1> QED BY <1>1, <1>2, PTL DEF OutputSpec, PanelReads
=============================================================================
