---------------------------- MODULE DsiMemWrite ----------------------------
(***************************************************************************)
(* pw_mipi_dsi_mcuxpresso/device.cc without SmartDMA: DSI_MemWrite sends a *)
(* framebuffer to the panel in packets of at most kMaxDSITxArraySize       *)
(* bytes.  The first is sent by the caller, each of the others by the      *)
(* interrupt of the one before it.  The DSI host driver and the display    *)
(* controller, which calls DSI_MemWrite and is told when the write is      *)
(* over, belong to the vendor's SDK.                                       *)
(***************************************************************************)
EXTENDS Integers, Sequences

CONSTANTS
  PixelBytes,          \* bytes of a pixel: 2, RGB565
  MaxPayload,          \* FSL_DSI_TX_MAX_PAYLOAD_BYTE
  Lengths,             \* the lengths of the areas written
  TransfersMayFail     \* TRUE: DSI_TransferNonBlocking may refuse a packet
                       \* and a packet may end with an error

kMaxDSITxArraySize == ((MaxPayload - 1) \div PixelBytes) * PixelBytes

ASSUME DsiAssumption ==
  /\ PixelBytes = 2
  /\ MaxPayload \in Nat /\ MaxPayload > PixelBytes
  /\ Lengths \subseteq {n \in Nat : n > 0 /\ n % PixelBytes = 0}
  /\ TransfersMayFail \in BOOLEAN

VARIABLES
  ongoing,              \* the fields of dsi_mem_write_ctx_
  tx_data,              \* (as an offset into the area)
  num_bytes_remaining,
  dsc_cmd,
  transferring,         \* the host is sending a packet
  link,                 \* history: the packets of the current write
  length,               \* history: the length of the current write
  result                \* history: what MIPI_DSI_MemoryDoneDriverCallback
                        \* was told for it

ctx == <<ongoing, tx_data, num_bytes_remaining, dsc_cmd>>
dsiVars == <<ctx, transferring, link, length, result>>

WriteMemoryStart == "start"
WriteMemoryContinue == "continue"
Success == "success"
Fail == "fail"
NotYet == "not yet"
Statuses == IF TransfersMayFail THEN {Success, Fail} ELSE {Success}

DsiInit ==
  /\ ongoing = FALSE
  /\ tx_data = 0
  /\ num_bytes_remaining = 0
  /\ dsc_cmd = WriteMemoryStart
  /\ transferring = FALSE
  /\ link = <<>>
  /\ length = 0
  /\ result = NotYet

(* The panel takes the high byte of a pixel first: n bytes from offset from *)
(* on, the bytes of each pixel swapped.                                     *)
Swapped(from, n) ==
  [k \in 1..n |-> IF k % 2 = 1 THEN from + k ELSE from + k - 2]

Smaller(a, b) == IF a < b THEN a ELSE b

(* A mutation that a property must detect, as are the other definitions    *)
(* named Mutant...: the context advances by one byte too few.                 *)
MutantSendChunck(from, remaining, cmd, status, packets) ==
  LET curSendLen == Smaller(kMaxDSITxArraySize, remaining)
  IN  /\ tx_data' = from + kMaxDSITxArraySize - 1
      /\ num_bytes_remaining' = remaining - curSendLen
      /\ dsc_cmd' = WriteMemoryContinue
      /\ transferring' = (status = Success)
      /\ link' = IF status = Success
                 THEN Append(packets, [cmd |-> cmd,
                                       bytes |-> Swapped(from, curSendLen)])
                 ELSE packets

(* Every packet is a full one. *)
MutantSendFullPackets(from, remaining, cmd, status, packets) ==
  /\ tx_data' = from + kMaxDSITxArraySize
  /\ num_bytes_remaining' = remaining - kMaxDSITxArraySize
  /\ dsc_cmd' = WriteMemoryContinue
  /\ transferring' = (status = Success)
  /\ link' = IF status = Success
             THEN Append(packets, [cmd |-> cmd,
                                   bytes |-> Swapped(from, kMaxDSITxArraySize)])
             ELSE packets

(* DsiMemWriteSendChunck with remaining bytes to send from offset from on:  *)
(* the context advances whether or not the host takes the packet.           *)
SendChunck(from, remaining, cmd, status, packets) ==
  LET curSendLen == Smaller(kMaxDSITxArraySize, remaining)
  IN  /\ tx_data' = from + curSendLen
      /\ num_bytes_remaining' = remaining - curSendLen
      /\ dsc_cmd' = WriteMemoryContinue
      /\ transferring' = (status = Success)
      /\ link' = IF status = Success
                 THEN Append(packets, [cmd |-> cmd,
                                       bytes |-> Swapped(from, curSendLen)])
                 ELSE packets

(* Leaves ongoing set when the first packet is refused. *)
MutantDSI_MemWrite(n, status) ==
  /\ ~ongoing
  /\ SendChunck(0, n, WriteMemoryStart, status, <<>>)
  /\ ongoing' = TRUE
  /\ length' = n
  /\ result' = NotYet

(* DSI_MemWrite.  While a write is going on it fails and changes nothing.   *)
DSI_MemWrite(n, status) ==
  /\ ~ongoing
  /\ SendChunck(0, n, WriteMemoryStart, status, <<>>)
  /\ ongoing' = (status = Success)
  /\ length' = n
  /\ result' = NotYet

(* DsiMemWriteCallback, in the interrupt that ends a packet.                *)
NextChunck ==
  /\ transferring
  /\ num_bytes_remaining > 0
  /\ SendChunck(tx_data, num_bytes_remaining, dsc_cmd, Success, link)
  /\ UNCHANGED <<ongoing, length, result>>

(* Takes every packet for the last. *)
MutantMemoryDone(status) ==
  /\ transferring
  /\ transferring' = FALSE
  /\ ongoing' = FALSE
  /\ result' = status
  /\ UNCHANGED <<tx_data, num_bytes_remaining, dsc_cmd, link, length>>

(* The write is over: the packet failed, or was the last, or the host does  *)
(* not take the next.                                                       *)
MemoryDone(status) ==
  /\ transferring
  /\ \/ /\ status = Fail \/ num_bytes_remaining = 0
        /\ transferring' = FALSE
        /\ UNCHANGED <<tx_data, num_bytes_remaining, dsc_cmd, link>>
     \/ /\ status = Fail /\ num_bytes_remaining > 0
        /\ SendChunck(tx_data, num_bytes_remaining, dsc_cmd, Fail, link)
  /\ ongoing' = FALSE
  /\ result' = status
  /\ UNCHANGED length

-----------------------------------------------------------------------------
DsiTypeOK ==
  /\ ongoing \in BOOLEAN /\ transferring \in BOOLEAN
  /\ tx_data \in Nat /\ num_bytes_remaining \in Nat
  /\ dsc_cmd \in {WriteMemoryStart, WriteMemoryContinue}
  /\ link \in Seq([cmd : {WriteMemoryStart, WriteMemoryContinue},
                   bytes : Seq(Nat)])
  /\ length \in Lengths \cup {0}
  /\ result \in {Success, Fail, NotYet}

(* Whatever the lengths and the failures, the packets carry the area from   *)
(* its start with nothing lost, repeated or out of order and the bytes of   *)
(* each pixel swapped; the first packet only is a write-start command.      *)
AreaInOrder ==
  \A i \in DOMAIN link :
    /\ link[i].cmd = WriteMemoryStart <=> i = 1
    /\ \A k \in DOMAIN link[i].bytes :
         LET at == (i - 1) * kMaxDSITxArraySize + k - 1
         IN  /\ link[i].bytes[k] = IF at % 2 = 0 THEN at + 1 ELSE at - 1
             /\ at < length

(* The controller is told of success only when the whole area was sent.     *)
SuccessMeansSent ==
  result = Success =>
    LET last == Len(link)
    IN  (last - 1) * kMaxDSITxArraySize + Len(link[last].bytes) = length

(* The ongoing flag, which refuses a second write, is up exactly while a    *)
(* packet is under way: no failure leaves it stuck and blocks the display,  *)
(* and no write starts into the packets of another.                         *)
OngoingIsTruthful == ongoing = transferring

(* A write carries the area whole and in order, or does not succeed; either *)
(* way the next one may start.                                              *)
DsiInv == DsiTypeOK /\ AreaInOrder /\ SuccessMeansSent /\ OngoingIsTruthful
=============================================================================
