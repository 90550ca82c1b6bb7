---------------------------- MODULE I2cInitiator ----------------------------
(***************************************************************************)
(* pw_i2c_rp2040: PicoInitiator, the I2C bus that the drivers of several   *)
(* threads may share.  Everything that touches the bus is done under       *)
(* mutex_; a transfer is one or two calls of the vendor's SDK, which take  *)
(* their time and may fail.  The object is static, so that its members     *)
(* are zero before Enable.  It is the only initiator on its block.         *)
(***************************************************************************)
EXTENDS Sequences

CONSTANTS Threads, None

VARIABLES
  mutex_,      \* the thread that holds the mutex, or None
  base_,       \* "i2c0" once Enable has chosen the block, else None
  enabled_,    \* the flag that a transfer looks at
  running,     \* the block has been initialised and not shut down
  pc,          \* pc[t]: how far thread t is in its call
  call,        \* call[t]: the call and its arguments
  sent,        \* sent[t]: what the call has done on the bus, in order
  status       \* status[t]: what the call returns

vars == <<mutex_, base_, enabled_, running, pc, call, sent, status>>

(* A transfer has bytes to write, bytes to read, both or neither.  The      *)
(* timeout is not positive, fits the SDK's 32 bits of microseconds, or not; *)
(* one that does not fit is tried with one kind of transfer only, since it  *)
(* is looked at first.                                                      *)
Call(op) == [op |-> op, tx |-> FALSE, rx |-> FALSE, timeout |-> "fits"]
Transfers ==
  {[Call("write_read") EXCEPT !.tx = tx, !.rx = rx] : tx, rx \in BOOLEAN}
    \cup {[Call("write_read") EXCEPT !.timeout = d] : d \in {"none", "too long"}}
Calls == Transfers \cup {Call("enable"), Call("disable")}

(* What the SDK returns: the bytes transferred, a timeout or another error. *)
Outcomes == {"bytes", "PICO_ERROR_TIMEOUT", "PICO_ERROR_GENERIC"}

PicoStatusToPwStatus(result) ==
  CASE result = "bytes" -> "OK"
    [] result = "PICO_ERROR_TIMEOUT" -> "DEADLINE_EXCEEDED"
    [] OTHER -> "UNAVAILABLE"

Init ==
  /\ mutex_ = None /\ base_ = None
  /\ enabled_ = FALSE /\ running = FALSE
  /\ pc = [t \in Threads |-> "idle"]
  /\ call = [t \in Threads |-> Call("enable")]
  /\ sent = [t \in Threads |-> <<>>]
  /\ status = [t \in Threads |-> "OK"]

-----------------------------------------------------------------------------
Goto(t, from, to) == pc[t] = from /\ pc' = [pc EXCEPT ![t] = to]

Start(t) ==
  /\ Goto(t, "idle", "called")
  /\ \E c \in Calls : call' = [call EXCEPT ![t] = c]
  /\ UNCHANGED <<mutex_, base_, enabled_, running, sent, status>>

(* Timeouts are looked at before the mutex is taken. *)
CheckTimeout(t) ==
  /\ call[t].timeout # "fits"
  /\ Goto(t, "called", "returned")
  /\ status' = [status EXCEPT ![t] = IF call[t].timeout = "none"
                                     THEN "DEADLINE_EXCEEDED"
                                     ELSE "INVALID_ARGUMENT"]
  /\ UNCHANGED <<mutex_, base_, enabled_, running, call, sent>>

(* A plausible slip: the scope of the lock_guard ends before the transfer. *)
MutantLock(t) ==
  /\ call[t].timeout = "fits"
  /\ mutex_ = None
  /\ Goto(t, "called", "locked")
  /\ UNCHANGED <<mutex_, base_, enabled_, running, call, sent, status>>

Lock(t) ==
  /\ call[t].timeout = "fits"
  /\ mutex_ = None /\ mutex_' = t
  /\ Goto(t, "called", "locked")
  /\ UNCHANGED <<base_, enabled_, running, call, sent, status>>

(* The lock_guard gives the mutex back on every way out. *)
Leave(t, from, s) ==
  /\ Goto(t, from, "returned")
  /\ status' = [status EXCEPT ![t] = s]
  /\ mutex_' = None

Return(t) ==
  /\ Goto(t, "returned", "idle")
  /\ call' = [call EXCEPT ![t] = Call("enable")]
  /\ sent' = [sent EXCEPT ![t] = <<>>]
  /\ status' = [status EXCEPT ![t] = "OK"]
  /\ UNCHANGED <<mutex_, base_, enabled_, running>>

-----------------------------------------------------------------------------
(* Enable: i2c_init, the pins, and then the flag. *)
I2cInit(t) ==
  /\ call[t].op = "enable"
  /\ Goto(t, "locked", "initialised")
  /\ base_' = "i2c0" /\ running' = TRUE
  /\ UNCHANGED <<mutex_, enabled_, call, sent, status>>

SetEnabled(t) ==
  /\ Leave(t, "initialised", "OK")
  /\ enabled_' = TRUE
  /\ UNCHANGED <<base_, running, call, sent>>

(* Disable, also the destructor: i2c_deinit, and then the flag.  With no    *)
(* Enable before it the SDK is given a null block, which was not running.   *)
I2cDeinit(t) ==
  /\ call[t].op = "disable"
  /\ Goto(t, "locked", "shut down")
  /\ running' = FALSE
  /\ UNCHANGED <<mutex_, base_, enabled_, call, sent, status>>

ClearEnabled(t) ==
  /\ Leave(t, "shut down", "OK")
  /\ enabled_' = FALSE
  /\ UNCHANGED <<base_, running, call, sent>>

-----------------------------------------------------------------------------
(* DoWriteReadFor, with the mutex: the flag, then which transfer it is. *)
Refuse(t) ==
  /\ call[t].op = "write_read"
  /\ \/ ~enabled_ /\ Leave(t, "locked", "FAILED_PRECONDITION")
     \/ /\ enabled_ /\ ~call[t].tx /\ ~call[t].rx
        /\ Leave(t, "locked", "INVALID_ARGUMENT")
  /\ UNCHANGED <<base_, enabled_, running, call, sent>>

StartWrite(t) ==
  /\ enabled_ /\ call[t].tx
  /\ Goto(t, "locked", "writing")
  /\ UNCHANGED <<mutex_, base_, enabled_, running, call, sent, status>>

StartRead(t) ==
  /\ enabled_ /\ ~call[t].tx /\ call[t].rx
  /\ Goto(t, "locked", "reading")
  /\ UNCHANGED <<mutex_, base_, enabled_, running, call, sent, status>>

Sent(t, part, result) ==
  sent' = IF result = "bytes" THEN [sent EXCEPT ![t] = Append(@, part)] ELSE sent

(* A plausible slip: the status of the write is not looked at before the    *)
(* read.                                                                    *)
MutantWriteDone(t) ==
  \E result \in Outcomes :
    /\ Sent(t, "write", result)
    /\ IF call[t].rx
       THEN Goto(t, "writing", "reading") /\ UNCHANGED <<mutex_, status>>
       ELSE Leave(t, "writing", PicoStatusToPwStatus(result))
    /\ UNCHANGED <<base_, enabled_, running, call>>

(* A plausible slip: returning early leaves the mutex taken. *)
MutantWriteStays(t) ==
  \E result \in Outcomes :
    /\ Sent(t, "write", result)
    /\ IF call[t].rx /\ result = "bytes"
       THEN Goto(t, "writing", "reading") /\ UNCHANGED status
       ELSE /\ Goto(t, "writing", "returned")
            /\ status' = [status EXCEPT ![t] = PicoStatusToPwStatus(result)]
    /\ UNCHANGED <<mutex_, base_, enabled_, running, call>>

(* i2c_write_timeout_us came back.  Before a read it has kept the bus       *)
(* (nostop), for the read to start anew on; if it failed there is no read.  *)
WriteDone(t) ==
  \E result \in Outcomes :
    /\ Sent(t, "write", result)
    /\ IF call[t].rx /\ result = "bytes"
       THEN Goto(t, "writing", "reading") /\ UNCHANGED <<mutex_, status>>
       ELSE Leave(t, "writing", PicoStatusToPwStatus(result))
    /\ UNCHANGED <<base_, enabled_, running, call>>

ReadDone(t) ==
  \E result \in Outcomes :
    /\ Sent(t, "read", result)
    /\ Leave(t, "reading", PicoStatusToPwStatus(result))
    /\ UNCHANGED <<base_, enabled_, running, call>>

DoWriteReadFor(t) ==
  Refuse(t) \/ StartWrite(t) \/ StartRead(t) \/ WriteDone(t) \/ ReadDone(t)

Step(t) ==
  \/ CheckTimeout(t) \/ Lock(t) \/ Return(t)
  \/ I2cInit(t) \/ SetEnabled(t) \/ I2cDeinit(t) \/ ClearEnabled(t)
  \/ DoWriteReadFor(t)

Next == \E t \in Threads : Start(t) \/ Step(t)

(* The kernel runs every thread, the SDK's calls come back (their timeouts  *)
(* see to it), and a FreeRTOS mutex is given to a thread that waits for it. *)
Fairness == \A t \in Threads : WF_vars(Step(t)) /\ SF_vars(Lock(t))

Spec == Init /\ [][Next]_vars /\ Fairness

-----------------------------------------------------------------------------
Asked(t) == (IF call[t].tx THEN <<"write">> ELSE <<>>)
              \o (IF call[t].rx THEN <<"read">> ELSE <<>>)
OnBus(t) == pc[t] \in {"writing", "reading"}

(* The variables keep their types. *)
TypeOK ==
  /\ mutex_ \in Threads \cup {None} /\ base_ \in {"i2c0", None}
  /\ enabled_ \in BOOLEAN /\ running \in BOOLEAN
  /\ call \in [Threads -> Calls]
  /\ sent \in [Threads -> {<<>>, <<"write">>, <<"read">>, <<"write", "read">>}]

(* A transfer has the bus for itself from its first byte to its last, the   *)
(* moment between a write that keeps the bus and its read included: no      *)
(* other thread transfers, and none initialises the block or shuts it down. *)
WholeTransfers ==
  \A t \in Threads : OnBus(t) =>
    /\ running /\ base_ = "i2c0"
    /\ \A u \in Threads \ {t} : pc[u] \notin {"writing", "reading", "initialised", "shut down"}

(* A status tells what happened: OK that all that was asked was done, a     *)
(* deadline or an unavailable device that it was not, and a refusal that    *)
(* nothing was put on the bus.                                              *)
StatusIsTruthful ==
  \A t \in Threads : pc[t] = "returned" =>
    /\ status[t] = "OK" <=> sent[t] = Asked(t) /\ (call[t].op = "write_read" => sent[t] # <<>>)
    /\ status[t] \in {"FAILED_PRECONDITION", "INVALID_ARGUMENT"} => sent[t] = <<>>

(* Transfers are whole and truthfully reported, for any number of threads.  *)
BusInv == TypeOK /\ WholeTransfers /\ StatusIsTruthful

(* Every call comes back, on whichever of its ways out: none leaves the     *)
(* mutex behind.                                                            *)
CallsReturn == \A t \in Threads : pc[t] = "called" ~> pc[t] = "returned"
=============================================================================
