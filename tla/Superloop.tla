----------------------------- MODULE Superloop -----------------------------
(***************************************************************************)
(* The rpc application on a board with a UART of one received byte: a loop *)
(* that blinks the LED by counting and takes one byte at a time to the     *)
(* HDLC decoder and the server.  An iteration without output is shorter    *)
(* than a byte on the wire; output (log lines, responses) blocks the loop  *)
(* while any number of bytes come in.                                      *)
(***************************************************************************)
EXTENDS Integers, SequencesExt

CONSTANTS
  Packets,       \* the packets on the wire: sequence of [id, address]
  RpcAddress,    \* of the packets the server takes
  CounterMax     \* iterations between two toggles

\* No packet is sent twice, each is told from the others.
ASSUME PacketsAssumption ==
  /\ Packets \in Seq([id : Nat, address : STRING]) /\ CounterMax \in Nat \ {0}
  /\ \A i, j \in DOMAIN Packets : Packets[i] = Packets[j] => i = j

VARIABLES
  wire,      \* bytes still to come
  rdr,       \* the receive register: no byte or one
  lost,      \* packets that lost a byte
  collected, \* bytes of the frame in the decoder
  served,    \* packets given to the server
  output,    \* what the loop is writing, or "none"
  blink,     \* state and counter of Blink
  led        \* the LED's pin and, where a board keeps it, led_on

superVars == <<wire, rdr, lost, collected, served, output, blink, led>>

\* A packet is a flag, two bytes and a flag.
Flag == 0
Bytes(packet) ==
  << [of |-> packet, byte |-> Flag], [of |-> packet, byte |-> 1],
     [of |-> packet, byte |-> 2], [of |-> packet, byte |-> Flag] >>
\* All that is sent, one packet after the other.
Sending == [n \in 1 .. 4 * Len(Packets) |-> Bytes(Packets[(n - 1) \div 4 + 1])[((n - 1) % 4) + 1]]

Off == [pin |-> FALSE, led_on |-> FALSE]

InitSuperloop ==
  /\ wire = Sending
  /\ rdr = << >> /\ lost = {}
  /\ collected = << >> /\ served = << >>
  /\ output = "none"
  /\ blink = [state |-> 0, counter |-> 0]
  /\ led = Off

(***************************************************************************)
(* LED                                                                     *)
(***************************************************************************)
TurnOn(l) == [pin |-> TRUE, led_on |-> TRUE]
TurnOff(l) == [pin |-> FALSE, led_on |-> FALSE]
\* By the variable on boards that have one, by the pin on the others.
MutantToggle(l) == IF l.led_on THEN [l EXCEPT !.pin = FALSE] ELSE TurnOn(l)
Toggle(l) == IF l.led_on THEN TurnOff(l) ELSE TurnOn(l)
\* gpio_bit_set: the pin's low bit sets it, its high bit resets it.
BitSet(l, bit) == [l EXCEPT !.pin = bit = "low"]
TogglePin(l) == IF l.pin THEN BitSet(l, "high") ELSE BitSet(l, "low")

(***************************************************************************)
(* UART                                                                    *)
(***************************************************************************)
\* The next byte arrives; in a full register it is lost.
Receive ==
  /\ wire # << >>
  /\ rdr # << >> => output # "none"
  /\ wire' = Tail(wire)
  /\ IF rdr = << >> THEN rdr' = <<Head(wire)>> /\ UNCHANGED lost
     ELSE lost' = lost \cup {Head(wire).of} /\ UNCHANGED rdr
  /\ UNCHANGED <<collected, served, output, blink, led>>

WriteDone ==
  /\ output = "log"
  /\ output' = "none"
  /\ UNCHANGED <<wire, rdr, lost, collected, served, blink, led>>

(***************************************************************************)
(* One iteration                                                           *)
(***************************************************************************)
MutantBlink(b) ==
  IF b.counter < CounterMax THEN [b EXCEPT !.counter = @ + 1]
  ELSE [state |-> 1 - b.state, counter |-> 0]
Blink(b) ==
  IF b.counter + 1 < CounterMax THEN [b EXCEPT !.counter = @ + 1]
  ELSE [state |-> 1 - b.state, counter |-> 0]

\* hdlc::Decoder: a flag ends the frame that has bytes, and begins another;
\* a frame whose bytes are not all those of one packet fails its check.
Process(bytes, byte) ==
  IF byte.byte # Flag THEN [collected |-> Append(bytes, byte), frame |-> << >>]
  ELSE [collected |-> << >>,
        frame |-> IF Len(bytes) = 2 /\ bytes[1].of = bytes[2].of /\ bytes[1].byte = 1 /\ bytes[2].byte = 2
                  THEN <<bytes[1].of>> ELSE << >>]

\* The byte that has come in; reading it empties the register.
TryReadByte(byte) == rdr = <<byte>> /\ rdr' = << >>

MutantParseByte ==
  \/ rdr = << >> /\ UNCHANGED <<rdr, collected, served>> /\ output' = "none"
  \/ \E byte \in ToSet(rdr) :
       LET result == Process(collected, byte)
       IN  /\ TryReadByte(byte)
           /\ collected' = result.collected
           /\ served' = served \o result.frame
           /\ output' = IF result.frame # << >> THEN "log" ELSE "none"
\* Frames for other addresses are ignored.
Addressed(frame) == IF frame # << >> /\ frame[1].address = RpcAddress THEN frame ELSE << >>
\* A byte, if there is one, goes to the decoder; a complete frame is logged
\* and, if it is addressed to the server, processed.
ParseByteFromUartAndHandleRpcs ==
  \/ rdr = << >> /\ UNCHANGED <<rdr, collected, served>> /\ output' = "none"
  \/ \E byte \in ToSet(rdr) :
       LET result == Process(collected, byte)
       IN  /\ TryReadByte(byte)
           /\ collected' = result.collected
           /\ served' = served \o Addressed(result.frame)
           /\ output' = IF result.frame # << >> THEN "log" ELSE "none"

\* The loop blinks, and logs that it did, before it looks for a byte.
Blinks ==
  /\ output = "none"
  /\ blink' = Blink(blink)
  /\ blink'.counter = 0
  /\ led' = IF blink'.state = 0 THEN TurnOn(led) ELSE TurnOff(led)
  /\ output' = "blink"
  /\ UNCHANGED <<wire, rdr, lost, collected, served>>

MutantAfterBlink ==
  /\ output = "blink"
  /\ rdr' = << >> /\ output' = "none"
  /\ UNCHANGED <<wire, lost, collected, served, blink, led>>
\* After the log line the same iteration goes on with a byte.
AfterBlink ==
  /\ output = "blink"
  /\ ParseByteFromUartAndHandleRpcs
  /\ UNCHANGED <<wire, lost, blink, led>>

Iterates ==
  /\ output = "none"
  /\ blink' = Blink(blink)
  /\ blink'.counter # 0
  /\ ParseByteFromUartAndHandleRpcs
  /\ UNCHANGED <<wire, lost, led>>

LoopStep == WriteDone \/ Blinks \/ AfterBlink \/ Iterates

(***************************************************************************)
(* blinky                                                                  *)
(***************************************************************************)
Blinky(keeps_led_on) ==
  /\ led' = IF keeps_led_on THEN Toggle(led) ELSE TogglePin(led)
  /\ UNCHANGED <<wire, rdr, lost, collected, served, output, blink>>

SuperloopTypeOK ==
  /\ Len(wire) <= 4 * Len(Packets) /\ Len(rdr) <= 1
  /\ lost \subseteq ToSet(Packets)
  /\ Len(collected) <= 2 * Len(Packets)
  /\ ToSet(served) \subseteq ToSet(Packets)
  /\ output \in {"none", "log", "blink"}
  /\ blink \in [state : {0, 1}, counter : 0 .. CounterMax - 1]
  /\ led \in [pin : BOOLEAN, led_on : BOOLEAN]

(***************************************************************************)
(* Properties                                                              *)
(***************************************************************************)
\* The server gets packets of its address only, each at most once and in the
\* order they were sent (main.cc:96-134), ...
ServedInOrder == \E sent \in [DOMAIN served -> DOMAIN Packets] :
  /\ \A k \in DOMAIN served :
       served[k] = Packets[sent[k]] /\ served[k].address = RpcAddress
  /\ \A j, k \in DOMAIN served : j < k => sent[j] < sent[k]

\* ... and once everything has been received it has got every one of them
\* that lost no byte while the loop was writing; the garbled frame of one
\* that did does not take its neighbours with it.
ReceivedMeansServed ==
  wire = << >> /\ rdr = << >> =>
    \A i \in DOMAIN Packets :
      Packets[i].address = RpcAddress /\ Packets[i] \notin lost =>
        \E k \in DOMAIN served : served[k] = Packets[i]

\* What rpc's server has got, at any time.
SuperloopInv == SuperloopTypeOK /\ ServedInOrder /\ ReceivedMeansServed

\* The LED goes on blinking while packets are parsed, by TurnOn and TurnOff as
\* by Toggle (main.cc:143-161, 183-191; blinky main.cc:23-28; led.cc).
BlinksForever == []<>led.pin /\ []<>~led.pin
=============================================================================
