---------------------------- MODULE PioPrograms ----------------------------
(***************************************************************************)
(* The RP2040 PIO state machine that shifts a framebuffer out to the       *)
(* ST7789: an interpreter of the two programs of st7789.pio.h, and the     *)
(* thread's SetupWriteFramebuffer, which sends the command RAMWR through   *)
(* the first program and switches to the second under a running machine.   *)
(*                                                                         *)
(* A register is a sequence of bits, the most significant first.  The      *)
(* machine's clock divider, the pins' numbers and cs, which goes low once  *)
(* and stays there, are left out.                                          *)
(***************************************************************************)
EXTENDS Integers, Sequences

CONSTANTS
  HalfBits,   \* bits of a pixel and of half a register, 16 in the code
  ByteBits,   \* bits of a command, 8 in the code
  RamWr,      \* the command, 0x2C in the code
  FifoDepth,  \* words of the joined transmit FIFO, 8 in the code
  Double      \* pixel_double_enabled_, set before the first write

ASSUME PioAssumption ==
  /\ HalfBits \in Nat \ {0} /\ ByteBits \in 1 .. HalfBits
  /\ RamWr \in Nat /\ FifoDepth \in Nat \ {0}
  /\ Double \in BOOLEAN

VARIABLES
  sm,      \* the state machine: its registers and its configuration
  fifo,    \* words the machine has still to pull
  data,    \* the level of the data pin
  sck,     \* the level of the clock pin
  dcPin,   \* the level of the D/CX pin
  stalled, \* the machine's TXSTALL flag
  dmaSize, \* halves of a word a DMA transfer moves
  setup,   \* where SetupWriteFramebuffer is
  due      \* history: the bits the panel has still to see, with the mode

pioVars == <<sm, fifo, data, sck, dcPin, stalled, dmaSize, setup, due>>

RegBits == 2 * HalfBits
Bits(n, w) == [i \in 1 .. w |-> (n \div 2 ^ (w - i)) % 2]
Zeros(w) == [i \in 1 .. w |-> 0]

(***************************************************************************)
(* The programs                                                            *)
(***************************************************************************)
Instr(op, dst, n, side) == [op |-> op, dst |-> dst, n |-> n, side |-> side]
NoSide == -1     \* no side-set
OutPin == Instr("out", "pins", 1, 0)
Skip == Instr("out", "null", HalfBits, NoSide)
Load(from) == Instr("mov", from, 0, NoSide)

st7789_raw == <<OutPin, Instr("nop", "none", 0, 1)>>

Loop(at) == <<OutPin, Instr("jmp", "!osre", at, 1)>>
\* Both halves of a word to y and x; the first pixel twice, then the second.
st7789_pixel_double ==
  << Instr("pull", "none", 0, NoSide), Instr("keep", "x", 0, NoSide), Instr("out", "y", HalfBits, NoSide) >>
    \o Loop(6) \o <<Load("x"), Skip>> \o Loop(10) \o <<Load("y"), Skip>> \o Loop(14)
    \o <<Load("y"), Skip>> \o Loop(18)

pio_offset == 1
pio_double_offset == pio_offset + Len(st7789_raw)
Memory == st7789_raw \o st7789_pixel_double
Around(offset, program) == [target |-> offset, top |-> offset + Len(program) - 1]

(***************************************************************************)
(* The machine                                                             *)
(***************************************************************************)
\* What Init leaves: the raw program, a pull after each byte.
InitPio ==
  /\ sm = [on |-> TRUE, pc |-> pio_offset, wrap |-> Around(pio_offset, st7789_raw),
           x |-> Zeros(RegBits), y |-> Zeros(RegBits), osr |-> Zeros(RegBits),
           count |-> RegBits, autopull |-> TRUE, thresh |-> ByteBits]
  /\ fifo = << >> /\ data = 0 /\ sck = 0 /\ stalled = FALSE
  /\ dcPin = "data" /\ dmaSize = 1
  /\ setup = "idle"
  /\ due = << >>

i == Memory[sm.pc]
NextPc == IF sm.pc = sm.wrap.top THEN sm.wrap.target ELSE sm.pc + 1
Empty == sm.count >= sm.thresh
Refill == i.op = "out" /\ sm.autopull /\ Empty
Starved == fifo = << >> /\ (Refill \/ i.op = "pull")

\* The panel reads the pins when the clock rises.
Rising == sck = 0 /\ sck' = 1
Clocks ==
  /\ sck' = IF i.side = NoSide THEN sck ELSE i.side
  /\ due' = IF Rising /\ due # << >> THEN Tail(due) ELSE due

Stall ==
  /\ Starved
  /\ stalled' = TRUE
  /\ UNCHANGED <<sm, fifo, data>>

Out ==
  /\ i.op = "out" /\ ~Starved
  /\ LET osr == IF Refill THEN Head(fifo) ELSE sm.osr
         count == IF Refill THEN 0 ELSE sm.count
     IN  /\ sm' = [sm EXCEPT !.osr = SubSeq(osr, i.n + 1, RegBits) \o Zeros(i.n),
                             !.count = IF count + i.n > RegBits THEN RegBits ELSE count + i.n,
                             !.y = IF i.dst = "y" THEN Zeros(RegBits - i.n) \o SubSeq(osr, 1, i.n) ELSE @,
                             !.pc = NextPc]
         /\ data' = IF i.dst = "pins" THEN osr[1] ELSE data
         /\ fifo' = IF Refill THEN Tail(fifo) ELSE fifo
  /\ UNCHANGED stalled

Pull ==
  /\ i.op = "pull" /\ ~Starved
  /\ sm' = [sm EXCEPT !.osr = Head(fifo), !.count = 0, !.pc = NextPc]
  /\ fifo' = Tail(fifo)
  /\ UNCHANGED <<data, stalled>>

\* mov osr, x or y; mov x, osr; and nop.
Move ==
  /\ i.op \in {"mov", "keep", "nop"}
  /\ sm' = CASE i.op = "mov" -> [sm EXCEPT !.osr = IF i.dst = "x" THEN sm.x ELSE sm.y, !.count = 0, !.pc = NextPc]
             [] i.op = "keep" -> [sm EXCEPT !.x = sm.osr, !.pc = NextPc]
             [] OTHER -> [sm EXCEPT !.pc = NextPc]
  /\ UNCHANGED <<fifo, data, stalled>>

Jump ==
  /\ i.op = "jmp"
  /\ sm' = [sm EXCEPT !.pc = IF Empty THEN NextPc ELSE i.n]
  /\ UNCHANGED <<fifo, data, stalled>>

SmStep ==
  /\ sm.on
  /\ Stall \/ Out \/ Pull \/ Move \/ Jump
  /\ Clocks
  /\ UNCHANGED <<dcPin, dmaSize, setup>>

(***************************************************************************)
(* The thread and the DMA                                                  *)
(***************************************************************************)
Thread(from, to) == setup = from /\ setup' = to
machine == <<sm, data, sck>>

\* pio_wait clears the flag and waits until the machine sets it again.
ClearStall(from, to) ==
  /\ Thread(from, to)
  /\ stalled' = FALSE
  /\ UNCHANGED <<machine, fifo, dcPin, dmaSize, due>>
MutantAwaitStall(from, to) ==
  /\ Thread(from, to)
  /\ UNCHANGED <<machine, fifo, stalled, dcPin, dmaSize, due>>
AwaitStall(from, to) ==
  /\ stalled
  /\ Thread(from, to)
  /\ UNCHANGED <<machine, fifo, stalled, dcPin, dmaSize, due>>

\* Command mode, and the byte, which the bus repeats all over the word.
PutByte ==
  /\ Thread("put", "clear2")
  /\ Len(fifo) < FifoDepth
  /\ dcPin' = "command"
  /\ fifo' = Append(fifo, [k \in 1 .. RegBits |-> Bits(RamWr, ByteBits)[((k - 1) % ByteBits) + 1]])
  /\ due' = [k \in 1 .. ByteBits |-> <<"command", Bits(RamWr, ByteBits)[k]>>]
  /\ UNCHANGED <<machine, stalled, dmaSize>>

\* Data mode; the machine is stopped, its shift counter restarted.
StopMachine ==
  /\ Thread("stop", "switch")
  /\ dcPin' = "data"
  /\ sm' = [sm EXCEPT !.on = FALSE, !.count = RegBits]
  /\ UNCHANGED <<fifo, data, sck, stalled, dmaSize, due>>

\* The program of the mode, its threshold (0 stands for a whole register) and
\* the size of the DMA's transfers; without doubling the raw one goes on.
SwitchProgram ==
  /\ Thread("switch", "done")
  /\ IF Double
     THEN /\ sm' = [sm EXCEPT !.on = TRUE, !.pc = pio_double_offset,
                              !.wrap = Around(pio_double_offset, st7789_pixel_double),
                              !.autopull = FALSE, !.thresh = RegBits]
          /\ dmaSize' = 2
     ELSE /\ sm' = [sm EXCEPT !.on = TRUE, !.autopull = TRUE, !.thresh = HalfBits]
          /\ dmaSize' = 1
  /\ UNCHANGED <<fifo, data, sck, dcPin, stalled, due>>

SetupWriteFramebuffer ==
  \/ ClearStall("idle", "wait") \/ AwaitStall("wait", "put")
  \/ PutByte
  \/ ClearStall("clear2", "wait2") \/ AwaitStall("wait2", "stop")
  \/ StopMachine \/ SwitchProgram

MutantFeedWord(p) ==
  /\ fifo' = Append(fifo, Bits(p[Len(p)], HalfBits) \o Bits(p[1], HalfBits))
  /\ UNCHANGED <<machine, dcPin, stalled, dmaSize, setup, due>>
\* The DMA moves the pixels p, the first of them in the low half of the word;
\* a half-word the bus repeats. The FIFO asks for a word when it has room.
FeedWord(p) ==
  /\ Len(fifo) < FifoDepth
  /\ fifo' = Append(fifo, Bits(p[Len(p)], HalfBits) \o Bits(p[1], HalfBits))
  /\ UNCHANGED <<machine, dcPin, stalled, dmaSize, setup, due>>

\* The bits a panel is to see of a sequence of pixels.
BitsOf(pixels) ==
  LET times == IF Double THEN 2 ELSE 1
      n == HalfBits * times
  IN  [k \in 1 .. Len(pixels) * n |->
         <<"data", Bits(pixels[((k - 1) \div n) + 1], HalfBits)[((k - 1) % HalfBits) + 1]>>]

-----------------------------------------------------------------------------
PioTypeOK ==
  /\ Len(fifo) <= FifoDepth
  /\ \A k \in DOMAIN fifo : fifo[k] \in [1 .. RegBits -> {0, 1}]
  /\ {data, sck} \subseteq {0, 1} /\ dcPin \in {"command", "data"}
  /\ sm.pc \in DOMAIN Memory /\ sm.count \in 0 .. RegBits
  /\ setup \in {"idle", "wait", "put", "clear2", "wait2", "stop", "switch", "done"}

(* Whenever the clock rises the panel reads the next bit due, in the mode   *)
(* it is due in: the command before D/CX changes, then each pixel twice,    *)
(* from its most significant bit (st7789.pio.h, pixel_pusher.cc:74-85,       *)
(* 255-302).                                                                *)
PanelReads ==
  [][sm.on /\ Rising => due # << >> /\ Head(due) = <<dcPin, data>>]_pioVars
=============================================================================
