-------------------------- MODULE FramebufferPool --------------------------
(***************************************************************************)
(* pw_graphics/pw_framebuffer_pool: a counting semaphore counts the free   *)
(* framebuffers and a round-robin index, next_fb_idx_, chooses which one   *)
(* the next GetFramebuffer returns.  The index is volatile but neither     *)
(* atomic nor locked, so each of its accesses is a step of its own here:   *)
(* threads and the interrupt that releases buffers interleave between      *)
(* them.                                                                   *)
(***************************************************************************)
EXTENDS Naturals, Sequences, FiniteSets

CONSTANTS
  Threads,     \* the threads that call GetFramebuffer
  NumBuffers,  \* buffer_addresses_.size()
  SizeLimit,   \* size_t counts modulo SizeLimit (2^32 on the targets)
  InOrder      \* TRUE: buffers come back in the order they were handed out,
               \* as one display driver returns them; FALSE: in any order

ASSUME PoolAssumption ==
  /\ NumBuffers \in Nat \ {0}
  /\ SizeLimit \in Nat /\ NumBuffers < SizeLimit
  /\ InOrder \in BOOLEAN

VARIABLES
  framebuffer_semaphore_,  \* the semaphore's count
  next_fb_idx_,            \* index of the buffer GetFramebuffer takes next
  pc,                      \* pc[t]: the step of GetFramebuffer t is about to do
  idx,                     \* idx[t]: GetFramebuffer's local idx
  out                      \* the buffers handed out and not yet released,
                           \* oldest first

vars == <<framebuffer_semaphore_, next_fb_idx_, pc, idx, out>>

Idle == "idle"
Steps == {"acquire", "load", "store", "compare", "reset", "return"}
(* The steps at which the thread holds a claim on one unit of the semaphore. *)
Acquired == Steps \ {"acquire"}
(* The steps at which idx[t] names the buffer that t is about to return. *)
Chosen == Acquired \ {"load"}

(* The threads that hold one. *)
Claims == {t \in Threads : pc[t] \in Acquired}

Positions == DOMAIN out

-----------------------------------------------------------------------------
(* A mutation that a property must detect, as are the other definitions    *)
(* named Mutant...: the semaphore starts one too high.                        *)
MutantInit ==
  /\ framebuffer_semaphore_ = NumBuffers + 1
  /\ next_fb_idx_ = 0
  /\ pc = [t \in Threads |-> Idle]
  /\ idx = [t \in Threads |-> 0]
  /\ out = <<>>

(* The constructor releases the semaphore once per buffer. *)
Init ==
  /\ framebuffer_semaphore_ = NumBuffers
  /\ next_fb_idx_ = 0
  /\ pc = [t \in Threads |-> Idle]
  /\ idx = [t \in Threads |-> 0]
  /\ out = <<>>

Goto(t, from, to) ==
  /\ pc[t] = from
  /\ pc' = [pc EXCEPT ![t] = to]

CallGetFramebuffer(t) ==
  /\ Goto(t, Idle, "acquire")
  /\ UNCHANGED <<framebuffer_semaphore_, next_fb_idx_, idx, out>>

Acquire(t) ==
  /\ framebuffer_semaphore_ > 0
  /\ framebuffer_semaphore_' = framebuffer_semaphore_ - 1
  /\ Goto(t, "acquire", "load")
  /\ UNCHANGED <<next_fb_idx_, idx, out>>

(* idx = next_fb_idx_++ is a load of the volatile and then a store to it. *)
LoadIdx(t) ==
  /\ Goto(t, "load", "store")
  /\ idx' = [idx EXCEPT ![t] = next_fb_idx_]
  /\ UNCHANGED <<framebuffer_semaphore_, next_fb_idx_, out>>

Increment(i) == IF i + 1 = SizeLimit THEN 0 ELSE i + 1

StoreIdx(t) ==
  /\ Goto(t, "store", "compare")
  /\ next_fb_idx_' = Increment(idx[t])
  /\ UNCHANGED <<framebuffer_semaphore_, idx, out>>

(* Wraps one too late. *)
MutantCompareIdx(t) ==
  /\ Goto(t, "compare", IF next_fb_idx_ > NumBuffers THEN "reset" ELSE "return")
  /\ UNCHANGED <<framebuffer_semaphore_, next_fb_idx_, idx, out>>

(* The comparison loads the volatile again. *)
CompareIdx(t) ==
  /\ Goto(t, "compare", IF next_fb_idx_ = NumBuffers THEN "reset" ELSE "return")
  /\ UNCHANGED <<framebuffer_semaphore_, next_fb_idx_, idx, out>>

(* Wraps to the second buffer. *)
MutantResetIdx(t) ==
  /\ Goto(t, "reset", "return")
  /\ next_fb_idx_' = 1
  /\ UNCHANGED <<framebuffer_semaphore_, idx, out>>

ResetIdx(t) ==
  /\ Goto(t, "reset", "return")
  /\ next_fb_idx_' = 0
  /\ UNCHANGED <<framebuffer_semaphore_, idx, out>>

(* The framebuffer of buffer_addresses_[idx] goes to the caller. *)
ReturnFramebuffer(t) ==
  /\ Goto(t, "return", Idle)
  /\ out' = Append(out, idx[t])
  /\ UNCHANGED <<framebuffer_semaphore_, next_fb_idx_, idx>>

(* Counts the buffer twice. *)
MutantReleaseTwice(i) ==
  /\ i \in Positions
  /\ InOrder => i = 1
  /\ framebuffer_semaphore_' = framebuffer_semaphore_ + 2
  /\ out' = [k \in 1..(Len(out) - 1) |-> IF k < i THEN out[k] ELSE out[k + 1]]
  /\ UNCHANGED <<next_fb_idx_, pc, idx>>

(* Forgets the semaphore. *)
MutantReleaseNot(i) ==
  /\ i \in Positions
  /\ InOrder => i = 1
  /\ out' = [k \in 1..(Len(out) - 1) |-> IF k < i THEN out[k] ELSE out[k + 1]]
  /\ UNCHANGED <<framebuffer_semaphore_, next_fb_idx_, pc, idx>>

(* The buffer in position i comes back, on any thread or in an interrupt:   *)
(* the pool only counts it, whichever buffer it is.                         *)
ReleaseFramebuffer(i) ==
  /\ i \in Positions
  /\ InOrder => i = 1
  /\ framebuffer_semaphore_' = framebuffer_semaphore_ + 1
  /\ out' = [k \in 1..(Len(out) - 1) |-> IF k < i THEN out[k] ELSE out[k + 1]]
  /\ UNCHANGED <<next_fb_idx_, pc, idx>>

GetFramebuffer(t) ==
  \/ Acquire(t)   \/ LoadIdx(t)  \/ StoreIdx(t)
  \/ CompareIdx(t) \/ ResetIdx(t) \/ ReturnFramebuffer(t)

Next ==
  \/ \E t \in Threads : CallGetFramebuffer(t) \/ GetFramebuffer(t)
  \/ \E i \in Positions : ReleaseFramebuffer(i)

Spec == Init /\ [][Next]_vars

(* A thread inside GetFramebuffer keeps running while it can, and whoever  *)
(* holds a buffer returns it, as framebuffer_pool.h demands of clients.    *)
Fairness ==
  /\ \A t \in Threads : WF_vars(GetFramebuffer(t))
  /\ WF_vars(\E i \in Positions : ReleaseFramebuffer(i))

FairSpec == Spec /\ Fairness

-----------------------------------------------------------------------------
TypeOK ==
  /\ framebuffer_semaphore_ \in 0..NumBuffers
  /\ next_fb_idx_ \in 0..(SizeLimit - 1)
  /\ pc \in [Threads -> Steps \cup {Idle}]
  /\ idx \in [Threads -> 0..(SizeLimit - 1)]
  /\ out \in Seq(0..(SizeLimit - 1))

(* No buffer is handed out while an earlier holder still has it: what       *)
(* "return that buffer back to the pool" is for.  The round robin index     *)
(* tracks no ownership, so this depends on who calls and in which order     *)
(* buffers come back.                                                       *)
ExclusiveUse == \A i, j \in Positions : i # j => out[i] # out[j]

(* GetFramebuffer "will only return a valid framebuffers": every index used *)
(* on buffer_addresses_ is below its size, including one between the        *)
(* increment and the wrap to 0.                                             *)
OnlyValidBuffers ==
  /\ \A i \in Positions : out[i] < NumBuffers
  /\ \A t \in Threads : pc[t] \in Chosen => idx[t] < NumBuffers

(* Every buffer is counted exactly once, whatever the interleaving: free in *)
(* the semaphore, claimed by a thread inside GetFramebuffer, or handed out. *)
(* Hence never more than NumBuffers are out, and none is ever lost.         *)
Conservation ==
  framebuffer_semaphore_ + Cardinality(Claims) + Len(out) = NumBuffers

(* A call of GetFramebuffer that has to wait is woken by a release: with    *)
(* one client no call blocks forever.                                       *)
GetFramebufferReturns == \A t \in Threads : pc[t] # Idle ~> pc[t] = Idle

-----------------------------------------------------------------------------
(* What the pool promises a single client that returns buffers in order:   *)
(* it implements FifoPool.  A buffer is taken when its index is loaded.    *)
Client == CHOOSE t \in Threads : TRUE

Taken == IF pc[Client] \in Chosen THEN Append(out, idx[Client]) ELSE out

Fifo == INSTANCE FifoPool WITH Buffers <- 0..(NumBuffers - 1), taken <- Taken

(* Every step of the pool takes a free buffer, returns the oldest taken     *)
(* one, or changes nothing a client can see.                                *)
ImplementsFifoPool == Fifo!Spec
=============================================================================
