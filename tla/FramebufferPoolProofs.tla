----------------------- MODULE FramebufferPoolProofs -----------------------
(***************************************************************************)
(* Theorems about FramebufferPool.  With any number of threads the         *)
(* semaphore accounts for every buffer (BuffersConserved).  With a single  *)
(* client and buffers that come back in order, every index is valid, no    *)
(* buffer has two users, and the pool implements FifoPool.                 *)
(***************************************************************************)
EXTENDS FramebufferPool, FiniteSetTheorems, SequenceTheorems, TLAPS

-----------------------------------------------------------------------------
(* Any number of threads, buffers released in any order. *)

(* The inductive invariant: the types, and each buffer counted once. *)
CountInv ==
  /\ framebuffer_semaphore_ \in Nat
  /\ next_fb_idx_ \in 0..(SizeLimit - 1)
  /\ pc \in [Threads -> Steps \cup {Idle}]
  /\ idx \in [Threads -> 0..(SizeLimit - 1)]
  /\ out \in Seq(0..(SizeLimit - 1))
  /\ Conservation

(* A thread that steps from inside the claim to inside the claim, or from   *)
(* outside to outside, leaves the set of claims alone.                      *)
LEMMA ClaimsKept ==
  ASSUME CountInv, NEW t \in Threads, NEW from, NEW to, Goto(t, from, to),
         from \in Acquired <=> to \in Acquired
  PROVE  Claims' = Claims
BY DEF CountInv, Goto, Claims

LEMMA CountInit ==
  ASSUME IsFiniteSet(Threads), Init PROVE CountInv
<1>1. Claims = {}
  BY DEF Init, Claims, Acquired, Steps, Idle
<1>2. Cardinality({}) = 0
  BY FS_EmptySet
<1> QED
  BY <1>1, <1>2, PoolAssumption
     DEF Init, CountInv, Conservation, Idle, Steps

LEMMA CountNext ==
  ASSUME IsFiniteSet(Threads), CountInv, [Next]_vars PROVE CountInv'
<1> USE PoolAssumption
<1> DEFINE Count == Cardinality(Claims)
<1>fin. IsFiniteSet(Claims) /\ Count \in Nat
  <2>1. IsFiniteSet(Claims)
    BY FS_Subset DEF Claims
  <2> QED BY <2>1, FS_CardinalityType
<1>sum. framebuffer_semaphore_ + Count + Len(out) = NumBuffers
  BY DEF CountInv, Conservation
<1>seq. out \in Seq(0..(SizeLimit - 1)) /\ Len(out) \in Nat
  BY DEF CountInv
<1>1. ASSUME NEW t \in Threads, CallGetFramebuffer(t) PROVE CountInv'
  <2>1. Claims' = Claims
    BY <1>1, ClaimsKept DEF CallGetFramebuffer, Acquired, Steps, Idle
  <2> QED
    BY <1>1, <2>1
       DEF CallGetFramebuffer, Goto, CountInv, Conservation, Steps
<1>2. ASSUME NEW t \in Threads, Acquire(t) PROVE CountInv'
  <2>1. t \notin Claims
    BY <1>2 DEF Acquire, Goto, Claims, Acquired
  <2>2. Claims' = Claims \cup {t}
    BY <1>2 DEF Acquire, Goto, Claims, Acquired, Steps, CountInv
  <2>3. Cardinality(Claims') = Count + 1
    BY <2>1, <2>2, <1>fin, FS_AddElement
  <2>4. framebuffer_semaphore_' + Cardinality(Claims') + Len(out') = NumBuffers
    BY <1>2, <2>3, <1>sum, <1>fin, <1>seq DEF Acquire, CountInv
  <2> QED
    BY <1>2, <2>4 DEF Acquire, Goto, CountInv, Conservation, Steps
<1>3. ASSUME NEW t \in Threads, LoadIdx(t) PROVE CountInv'
  <2>1. Claims' = Claims
    BY <1>3, ClaimsKept DEF LoadIdx, Acquired, Steps
  <2> QED
    BY <1>3, <2>1 DEF LoadIdx, Goto, CountInv, Conservation, Steps
<1>4. ASSUME NEW t \in Threads, StoreIdx(t) PROVE CountInv'
  <2>1. Claims' = Claims
    BY <1>4, ClaimsKept DEF StoreIdx, Acquired, Steps
  <2>2. Increment(idx[t]) \in 0..(SizeLimit - 1)
    BY DEF CountInv, Increment
  <2> QED
    BY <1>4, <2>1, <2>2
       DEF StoreIdx, Goto, CountInv, Conservation, Steps
<1>5. ASSUME NEW t \in Threads, CompareIdx(t) PROVE CountInv'
  <2>1. Claims' = Claims
    BY <1>5, ClaimsKept DEF CompareIdx, Acquired, Steps
  <2> QED
    BY <1>5, <2>1 DEF CompareIdx, Goto, CountInv, Conservation, Steps
<1>6. ASSUME NEW t \in Threads, ResetIdx(t) PROVE CountInv'
  <2>1. Claims' = Claims
    BY <1>6, ClaimsKept DEF ResetIdx, Acquired, Steps
  <2> QED
    BY <1>6, <2>1 DEF ResetIdx, Goto, CountInv, Conservation, Steps
<1>7. ASSUME NEW t \in Threads, ReturnFramebuffer(t) PROVE CountInv'
  <2>1. t \in Claims
    BY <1>7 DEF ReturnFramebuffer, Goto, Claims, Acquired, Steps
  <2>2. Claims' = Claims \ {t}
    BY <1>7 DEF ReturnFramebuffer, Goto, Claims, Acquired, Steps, Idle, CountInv
  <2>3. Cardinality(Claims') = Count - 1
    BY <2>1, <2>2, <1>fin, FS_RemoveElement
  <2>4. out' \in Seq(0..(SizeLimit - 1)) /\ Len(out') = Len(out) + 1
    BY <1>7, <1>seq DEF ReturnFramebuffer, CountInv
  <2>5. framebuffer_semaphore_' + Cardinality(Claims') + Len(out') = NumBuffers
    BY <1>7, <2>3, <2>4, <1>sum, <1>fin, <1>seq
       DEF ReturnFramebuffer, CountInv
  <2> QED
    BY <1>7, <2>4, <2>5
       DEF ReturnFramebuffer, Goto, CountInv, Conservation, Steps
<1>8. ASSUME NEW i \in Positions, ReleaseFramebuffer(i) PROVE CountInv'
  <2>1. Claims' = Claims
    BY <1>8 DEF ReleaseFramebuffer, Claims
  <2>2. i \in 1..Len(out) /\ Len(out) - 1 \in Nat
    BY <1>8, <1>seq DEF Positions
  <2>3. out' \in Seq(0..(SizeLimit - 1)) /\ Len(out') = Len(out) - 1
    <3>1. \A k \in 1..(Len(out) - 1) :
            (IF k < i THEN out[k] ELSE out[k + 1]) \in 0..(SizeLimit - 1)
      BY <2>2, <1>seq
    <3> QED
      BY <1>8, <2>2, <3>1 DEF ReleaseFramebuffer
  <2> QED
    BY <1>8, <2>1, <2>2, <2>3, <1>sum, <1>fin, <1>seq
       DEF ReleaseFramebuffer, CountInv, Conservation
<1>9. CASE UNCHANGED vars
  BY <1>9 DEF vars, CountInv, Conservation, Claims
<1> QED
  BY <1>1, <1>2, <1>3, <1>4, <1>5, <1>6, <1>7, <1>8, <1>9
     DEF Next, GetFramebuffer

(* Whatever the number of threads and the order of releases, free, claimed  *)
(* and handed-out buffers always add up to the pool.                        *)
THEOREM BuffersConserved ==
  ASSUME IsFiniteSet(Threads) PROVE Spec => []Conservation
<1>1. Init => CountInv
  BY CountInit
<1>2. CountInv /\ [Next]_vars => CountInv'
  BY CountNext
<1>3. CountInv => Conservation
  BY DEF CountInv
<1> QED
  BY <1>1, <1>2, <1>3, PTL DEF Spec

(* The inductive invariant bounds the semaphore. *)
LEMMA CountTypes ==
  ASSUME IsFiniteSet(Threads), CountInv PROVE TypeOK
<1>1. Cardinality(Claims) \in Nat
  <2>1. IsFiniteSet(Claims)
    BY FS_Subset DEF Claims
  <2> QED BY <2>1, FS_CardinalityType
<1>2. framebuffer_semaphore_ + Cardinality(Claims) + Len(out) = NumBuffers
  BY DEF CountInv, Conservation
<1> QED
  BY <1>1, <1>2, PoolAssumption DEF CountInv, TypeOK

(* The pool's variables keep their types; the semaphore never exceeds the   *)
(* number of buffers.                                                       *)
THEOREM PoolTypeCorrect ==
  ASSUME IsFiniteSet(Threads) PROVE Spec => []TypeOK
<1>1. Init => CountInv
  BY CountInit
<1>2. CountInv /\ [Next]_vars => CountInv'
  BY CountNext
<1>3. CountInv => TypeOK
  BY CountTypes
<1> QED
  BY <1>1, <1>2, <1>3, PTL DEF Spec

-----------------------------------------------------------------------------
(* One client, buffers released in order. *)

(* The buffer j places after the first one, for j down to -NumBuffers. *)
Slot(j) == IF j < 0 THEN j + NumBuffers ELSE j

(* The index of the next buffer nobody has been promised, and the number of *)
(* claims of the one client c.                                              *)
Frontier(c) == IF pc[c] \in Chosen THEN idx[c] ELSE next_fb_idx_

ClaimOf(c) == IF pc[c] \in Acquired THEN 1 ELSE 0

(* What next_fb_idx_ is at each step of GetFramebuffer. *)
IndexInv(c) ==
  /\ pc[c] \in {Idle, "acquire", "load"} => next_fb_idx_ < NumBuffers
  /\ pc[c] \in Chosen => idx[c] < NumBuffers
  /\ pc[c] = "store" => next_fb_idx_ = idx[c]
  /\ pc[c] = "compare" => next_fb_idx_ = idx[c] + 1
  /\ pc[c] = "reset" => idx[c] + 1 = NumBuffers
  /\ pc[c] = "return" =>
       next_fb_idx_ = IF idx[c] + 1 = NumBuffers THEN 0 ELSE idx[c] + 1

(* The inductive invariant: the buffers handed out are the ones just before *)
(* the frontier, in round robin order, and the semaphore leaves room for    *)
(* one more whenever the client holds a claim.  ExclusiveUse alone is not   *)
(* inductive: it does not say that the next index is free.                  *)
ClientInv(c) ==
  /\ framebuffer_semaphore_ \in Nat
  /\ next_fb_idx_ \in Nat
  /\ pc \in [Threads -> Steps \cup {Idle}]
  /\ idx \in [Threads -> Nat]
  /\ out \in Seq(Nat)
  /\ framebuffer_semaphore_ + ClaimOf(c) + Len(out) = NumBuffers
  /\ IndexInv(c)
  /\ \A i \in 1..Len(out) : out[i] = Slot(Frontier(c) - Len(out) + i - 1)

LEMMA ClientInit ==
  ASSUME NEW c, Threads = {c}, Init PROVE ClientInv(c)
BY PoolAssumption
   DEF Init, ClientInv, IndexInv, ClaimOf, Frontier, Acquired, Chosen, Steps, Idle

LEMMA ClientNext ==
  ASSUME NEW c, Threads = {c}, InOrder, ClientInv(c), [Next]_vars
  PROVE  ClientInv(c)'
<1> USE PoolAssumption
<1> USE DEF Idle, Steps, Acquired, Chosen
<1>seq. out \in Seq(Nat) /\ Len(out) \in Nat
  BY DEF ClientInv
<1>sum. framebuffer_semaphore_ \in Nat
        /\ framebuffer_semaphore_ + ClaimOf(c) + Len(out) = NumBuffers
  BY DEF ClientInv
<1>1. CASE CallGetFramebuffer(c)
  BY <1>1 DEF CallGetFramebuffer, Goto, ClientInv, IndexInv, ClaimOf, Frontier
<1>2. CASE Acquire(c)
  <2>1. /\ pc[c] = "acquire" /\ pc'[c] = "load"
        /\ pc' \in [Threads -> Steps \cup {Idle}]
    BY <1>2 DEF Acquire, Goto, ClientInv
  <2>2. framebuffer_semaphore_' \in Nat
        /\ framebuffer_semaphore_' + ClaimOf(c)' + Len(out') = NumBuffers
    <3>1. ClaimOf(c) = 0 /\ ClaimOf(c)' = 1
      BY <2>1 DEF ClaimOf
    <3> QED BY <1>2, <3>1, <1>sum, <1>seq DEF Acquire
  <2>3. Frontier(c)' = Frontier(c) /\ IndexInv(c)'
    BY <1>2, <2>1 DEF Acquire, ClientInv, IndexInv, Frontier
  <2> QED
    BY <1>2, <2>1, <2>2, <2>3 DEF Acquire, ClientInv
<1>3. CASE LoadIdx(c)
  BY <1>3 DEF LoadIdx, Goto, ClientInv, IndexInv, ClaimOf, Frontier
<1>4. CASE StoreIdx(c)
  BY <1>4
     DEF StoreIdx, Increment, Goto, ClientInv, IndexInv, ClaimOf, Frontier
<1>5. CASE CompareIdx(c)
  BY <1>5 DEF CompareIdx, Goto, ClientInv, IndexInv, ClaimOf, Frontier
<1>6. CASE ResetIdx(c)
  BY <1>6 DEF ResetIdx, Goto, ClientInv, IndexInv, ClaimOf, Frontier
<1>7. CASE ReturnFramebuffer(c)
  <2>1. /\ idx[c] \in Nat /\ pc[c] = "return" /\ pc'[c] = "idle"
        /\ pc' \in [Threads -> Steps \cup {Idle}]
    BY <1>7 DEF ReturnFramebuffer, Goto, ClientInv
  <2>2. out' \in Seq(Nat) /\ Len(out') = Len(out) + 1
    BY <1>7, <1>seq, <2>1 DEF ReturnFramebuffer
  <2>3. framebuffer_semaphore_ + 1 + Len(out) = NumBuffers
    BY <2>1 DEF ClientInv, ClaimOf
  <2>4. next_fb_idx_ = (IF idx[c] + 1 = NumBuffers THEN 0 ELSE idx[c] + 1)
        /\ idx[c] < NumBuffers
    BY <2>1 DEF ClientInv, IndexInv
  <2>5. Frontier(c) = idx[c] /\ Frontier(c)' = next_fb_idx_
    BY <1>7, <2>1 DEF Frontier, ReturnFramebuffer
  <2>6. framebuffer_semaphore_ \in Nat
    BY DEF ClientInv
  <2>7. ASSUME NEW i \in 1..Len(out')
        PROVE  out'[i] = Slot(next_fb_idx_ - Len(out') + i - 1)
    <3>1. CASE i = Len(out')
      <4>1. out'[i] = idx[c]
        BY <1>7, <3>1, <1>seq, <2>1, <2>2 DEF ReturnFramebuffer
      <4> QED
        <5>1. Len(out') \in Nat /\ next_fb_idx_ \in Nat
          BY ONLY <2>1, <2>2, <2>4, <1>seq, PoolAssumption
        <5>2. next_fb_idx_ - Len(out') + i - 1 = next_fb_idx_ - 1
          BY ONLY <3>1, <5>1
        <5>3. Slot(next_fb_idx_ - 1) = idx[c]
          BY ONLY <2>1, <2>4, PoolAssumption DEF Slot
        <5> QED BY ONLY <4>1, <5>2, <5>3
    <3>2. CASE i \in 1..Len(out)
      <4>1. out'[i] = out[i]
        BY <1>7, <3>2, <1>seq, <2>1 DEF ReturnFramebuffer
      <4>2. out[i] = Slot(idx[c] - Len(out) + i - 1)
        BY <3>2, <2>5 DEF ClientInv
      <4>3. CASE idx[c] + 1 # NumBuffers
        <5>1. next_fb_idx_ - Len(out') + i - 1 = idx[c] - Len(out) + i - 1
          <6>1. Len(out) \in Nat /\ i \in Nat
            BY ONLY <3>2, <1>seq
          <6>2. next_fb_idx_ = idx[c] + 1
            BY ONLY <4>3, <2>4
          <6>3. idx[c] \in Nat /\ Len(out') = Len(out) + 1
            BY ONLY <2>1, <2>2
          <6> QED BY ONLY <6>1, <6>2, <6>3, SMTT(30)
        <5> QED BY <5>1, <4>1, <4>2
      <4>4. CASE idx[c] + 1 = NumBuffers
        <5>1. idx[c] - Len(out) + i - 1 \in Nat
          BY <4>4, <3>2, <2>1, <2>3, <2>6, <1>seq
        <5>2. next_fb_idx_ = 0 /\ i \in Nat
          BY <4>4, <3>2, <2>4, <1>seq
        <5>3. Slot(idx[c] - Len(out) + i - 1) = NumBuffers - Len(out) + i - 2
          BY <5>1, <5>2, <4>4, <2>1, <1>seq DEF Slot
        <5>4. 0 - Len(out') + i - 1 = i - Len(out) - 2 /\ i - Len(out) - 2 < 0
          BY ONLY <5>2, <3>2, <2>2, <1>seq
        <5>5. Slot(i - Len(out) - 2) = NumBuffers - Len(out) + i - 2
          BY <5>2, <5>4, <1>seq DEF Slot
        <5> QED BY <5>2, <5>3, <5>4, <5>5, <4>1, <4>2
      <4> QED BY <4>3, <4>4
    <3> QED
      BY <3>1, <3>2, <2>2, <1>seq
  <2> QED
    BY <1>7, <2>1, <2>2, <2>3, <2>4, <2>5, <2>7
       DEF ReturnFramebuffer, ClientInv, IndexInv, ClaimOf
<1>8. ASSUME NEW i \in Positions, ReleaseFramebuffer(i) PROVE ClientInv(c)'
  <2>1. i = 1 /\ Len(out) - 1 \in Nat
    BY <1>8, <1>seq DEF ReleaseFramebuffer, Positions
  <2>2. out' = [k \in 1..(Len(out) - 1) |-> out[k + 1]]
    BY <1>8, <2>1, <1>seq DEF ReleaseFramebuffer
  <2>3. out' \in Seq(Nat) /\ Len(out') = Len(out) - 1
    <3>1. \A k \in 1..(Len(out) - 1) : out[k + 1] \in Nat
      BY <2>1, <1>seq
    <3> QED BY <2>1, <2>2, <3>1
  <2>4. Frontier(c)' = Frontier(c) /\ Frontier(c) \in Nat
    BY <1>8 DEF ReleaseFramebuffer, Frontier, ClientInv
  <2>5. \A k \in 1..Len(out') :
          out'[k] = Slot(Frontier(c) - Len(out') + k - 1)
    <3> SUFFICES ASSUME NEW k \in 1..Len(out')
                 PROVE  out'[k] = Slot(Frontier(c) - Len(out') + k - 1)
      OBVIOUS
    <3>1. k + 1 \in 1..Len(out) /\ out'[k] = out[k + 1]
      BY <2>1, <2>2, <2>3, <1>seq
    <3>2. out[k + 1] = Slot(Frontier(c) - Len(out) + (k + 1) - 1)
      BY <3>1 DEF ClientInv
    <3>3. Frontier(c) - Len(out) + (k + 1) - 1
            = Frontier(c) - Len(out') + k - 1
      BY <2>3, <2>4, <1>seq
    <3> QED BY <3>1, <3>2, <3>3
  <2>6. IndexInv(c)' /\ ClaimOf(c)' = ClaimOf(c) /\ ClaimOf(c) \in Nat
    BY <1>8 DEF ReleaseFramebuffer, ClientInv, IndexInv, ClaimOf
  <2>7. framebuffer_semaphore_' \in Nat
        /\ framebuffer_semaphore_' + ClaimOf(c)' + Len(out') = NumBuffers
    <3>1. framebuffer_semaphore_' = framebuffer_semaphore_ + 1
      BY <1>8 DEF ReleaseFramebuffer
    <3> QED BY ONLY <3>1, <2>3, <2>6, <1>seq, <1>sum, PoolAssumption
  <2> QED
    BY <1>8, <2>3, <2>4, <2>5, <2>6, <2>7 DEF ReleaseFramebuffer, ClientInv
<1>9. CASE UNCHANGED vars
  BY <1>9 DEF vars, ClientInv, IndexInv, ClaimOf, Frontier
<1> QED
  BY <1>1, <1>2, <1>3, <1>4, <1>5, <1>6, <1>7, <1>8, <1>9
     DEF Next, GetFramebuffer

(* Two buffers that are out at the same time are different. *)
LEMMA ClientExclusive ==
  ASSUME NEW c, Threads = {c}, ClientInv(c)
  PROVE  ExclusiveUse /\ OnlyValidBuffers
<1> USE PoolAssumption
<1>1. Frontier(c) \in Nat /\ Frontier(c) <= NumBuffers /\ Len(out) \in Nat
      /\ Len(out) <= NumBuffers
  BY DEF ClientInv, Frontier, ClaimOf, IndexInv, Idle, Steps, Acquired, Chosen
<1>2. Frontier(c) < NumBuffers
  BY DEF ClientInv, Frontier, IndexInv, Idle, Steps, Acquired, Chosen
<1>3. \A i \in 1..Len(out) : out[i] = Slot(Frontier(c) - Len(out) + i - 1)
  BY DEF ClientInv
<1>4. Positions = 1..Len(out)
  BY DEF ClientInv, Positions
<1>5. ExclusiveUse
  <2>1. ASSUME NEW i \in 1..Len(out), NEW j \in 1..Len(out), i # j
        PROVE  out[i] # out[j]
    <3> DEFINE x == Frontier(c) - Len(out) + i - 1
               y == Frontier(c) - Len(out) + j - 1
    <3>1. out[i] = Slot(x) /\ out[j] = Slot(y)
      BY ONLY <1>3, <2>1
    <3>2. /\ x \in Int /\ y \in Int /\ x - y = i - j /\ i \in Nat /\ j \in Nat
          /\ i - j < NumBuffers /\ j - i < NumBuffers
      BY ONLY <1>1, <2>1, PoolAssumption
    <3> HIDE DEF x, y
    <3>3. Slot(x) # Slot(y)
      BY ONLY <3>2, <2>1, PoolAssumption DEF Slot
    <3> QED BY ONLY <3>1, <3>3
  <2> QED BY <2>1, <1>4 DEF ExclusiveUse
<1>6. OnlyValidBuffers
  BY <1>1, <1>2, <1>3, <1>4 DEF OnlyValidBuffers, Slot, ClientInv, IndexInv
<1> QED BY <1>5, <1>6

(* With one client and in-order release no buffer is ever handed out while  *)
(* an earlier holder has it, for every number of buffers.                   *)
THEOREM SingleClientExclusive ==
  ASSUME NEW c, Threads = {c}, InOrder
  PROVE  Spec => []ExclusiveUse
<1>1. Init => ClientInv(c)
  BY ClientInit
<1>2. ClientInv(c) /\ [Next]_vars => ClientInv(c)'
  BY ClientNext
<1>3. ClientInv(c) => ExclusiveUse
  BY ClientExclusive
<1> QED
  BY <1>1, <1>2, <1>3, PTL DEF Spec

(* ... and GetFramebuffer never indexes outside buffer_addresses_. *)
THEOREM SingleClientValid ==
  ASSUME NEW c, Threads = {c}, InOrder
  PROVE  Spec => []OnlyValidBuffers
<1>1. Init => ClientInv(c)
  BY ClientInit
<1>2. ClientInv(c) /\ [Next]_vars => ClientInv(c)'
  BY ClientNext
<1>3. ClientInv(c) => OnlyValidBuffers
  BY ClientExclusive
<1> QED
  BY <1>1, <1>2, <1>3, PTL DEF Spec

-----------------------------------------------------------------------------
(* The pool implements FifoPool for a single client. *)

LEMMA ClientIs == ASSUME NEW c, Threads = {c} PROVE Client = c
BY DEF Client

(* The buffer that LoadIdx chooses is free. *)
LEMMA FrontierFree ==
  ASSUME NEW c, Threads = {c}, ClientInv(c), pc[c] = "load"
  PROVE  /\ next_fb_idx_ \in 0..(NumBuffers - 1)
         /\ \A i \in 1..Len(out) : out[i] # next_fb_idx_
<1> USE PoolAssumption
<1>1. Frontier(c) = next_fb_idx_ /\ next_fb_idx_ < NumBuffers
  BY DEF ClientInv, Frontier, IndexInv, Idle, Steps, Acquired, Chosen
<1>2. framebuffer_semaphore_ \in Nat /\ Len(out) \in Nat
      /\ framebuffer_semaphore_ + 1 + Len(out) = NumBuffers
  BY DEF ClientInv, ClaimOf, Steps, Acquired
<1>3. \A i \in 1..Len(out) : out[i] = Slot(next_fb_idx_ - Len(out) + i - 1)
  BY <1>1 DEF ClientInv
<1>4. next_fb_idx_ \in Nat
  BY DEF ClientInv
<1> QED BY <1>1, <1>2, <1>3, <1>4 DEF Slot

LEMMA FifoStep ==
  ASSUME NEW c, Threads = {c}, InOrder, ClientInv(c), [Next]_vars
  PROVE  [Fifo!Next]_Taken
<1> USE DEF Idle, Steps, Acquired, Chosen
<1>0. Client = c
  BY ClientIs
<1>seq. out \in Seq(Nat) /\ Len(out) \in Nat /\ idx \in [Threads -> Nat]
        /\ pc \in [Threads -> Steps \cup {Idle}]
  BY DEF ClientInv
<1>1. CASE CallGetFramebuffer(c)
  BY <1>1, <1>0, <1>seq DEF CallGetFramebuffer, Goto, Taken
<1>2. CASE Acquire(c)
  BY <1>2, <1>0, <1>seq DEF Acquire, Goto, Taken
<1>3. CASE LoadIdx(c)
  <2>1. Taken = out /\ Taken' = Append(out, next_fb_idx_) /\ pc[c] = "load"
    BY <1>3, <1>0, <1>seq DEF LoadIdx, Goto, Taken
  <2>2. next_fb_idx_ \in 0..(NumBuffers - 1) /\ next_fb_idx_ \notin Fifo!InUse
    BY <2>1, FrontierFree, <1>seq DEF Fifo!InUse
  <2> QED BY <2>1, <2>2 DEF Fifo!Next, Fifo!Take
<1>4. CASE StoreIdx(c)
  BY <1>4, <1>0, <1>seq DEF StoreIdx, Goto, Taken
<1>5. CASE CompareIdx(c)
  BY <1>5, <1>0, <1>seq DEF CompareIdx, Goto, Taken
<1>6. CASE ResetIdx(c)
  BY <1>6, <1>0, <1>seq DEF ResetIdx, Goto, Taken
<1>7. CASE ReturnFramebuffer(c)
  BY <1>7, <1>0, <1>seq DEF ReturnFramebuffer, Goto, Taken
<1>8. ASSUME NEW i \in Positions, ReleaseFramebuffer(i) PROVE Fifo!Return
  <2>1. i = 1 /\ Len(out) - 1 \in Nat /\ out # <<>>
    BY <1>8, <1>seq DEF ReleaseFramebuffer, Positions
  <2>2. out' = Tail(out)
    <3>1. out' = [k \in 1..(Len(out) - 1) |-> out[k + 1]]
      BY <1>8, <2>1, <1>seq DEF ReleaseFramebuffer
    <3>2. Tail(out) \in Seq(Nat) /\ Len(Tail(out)) = Len(out) - 1
          /\ \A k \in 1..Len(Tail(out)) : Tail(out)[k] = out[k + 1]
      BY <2>1, <1>seq, HeadTailProperties
    <3>3. out' \in Seq(Nat) /\ Len(out') = Len(out) - 1
      <4>1. \A k \in 1..(Len(out) - 1) : out[k + 1] \in Nat
        BY <2>1, <1>seq
      <4> QED BY <4>1, <3>1, <2>1
    <3>4. \A k \in 1..Len(out') : out'[k] = Tail(out)[k]
      BY <3>1, <3>2, <3>3
    <3> DEFINE t == Tail(out)
    <3>5. /\ t \in Seq(Nat) /\ out' \in Seq(Nat) /\ Len(out') = Len(t)
          /\ \A k \in 1..Len(out') : out'[k] = t[k]
      BY <3>2, <3>3, <3>4
    <3> HIDE DEF t
    <3>6. out' = t
      BY ONLY <3>5, SeqEqual
    <3> QED BY <3>6 DEF t
  <2>3. CASE pc[c] \in Chosen
    <3>1. Taken = Append(out, idx[c]) /\ Taken' = Append(out', idx[c])
      BY <1>8, <2>3, <1>0 DEF ReleaseFramebuffer, Taken
    <3>2. Append(Tail(out), idx[c]) = Tail(Append(out, idx[c]))
          /\ Append(out, idx[c]) # <<>>
      BY <2>1, <1>seq, SMTT(30)
    <3> QED BY <3>1, <3>2, <2>2 DEF Fifo!Return
  <2>4. CASE pc[c] \notin Chosen
    BY <1>8, <2>1, <2>2, <2>4, <1>0 DEF ReleaseFramebuffer, Taken, Fifo!Return
  <2> QED BY <2>3, <2>4
<1>9. CASE UNCHANGED vars
  BY <1>9 DEF vars, Taken
<1> QED
  BY <1>1, <1>2, <1>3, <1>4, <1>5, <1>6, <1>7, <1>8, <1>9
     DEF Next, GetFramebuffer, Fifo!Next

(* For one client that gets its buffers back in order, the pool is FifoPool *)
(* whatever the interleaving of releases with the steps of GetFramebuffer.  *)
THEOREM SingleClientFifo ==
  ASSUME NEW c, Threads = {c}, InOrder
  PROVE  Spec => ImplementsFifoPool
<1>1. Init => ClientInv(c)
  BY ClientInit
<1>2. ClientInv(c) /\ [Next]_vars => ClientInv(c)'
  BY ClientNext
<1>3. Init => Fifo!Init
  BY ClientIs DEF Init, Taken, Fifo!Init, Chosen, Acquired, Steps, Idle
<1>4. ClientInv(c) /\ [Next]_vars => [Fifo!Next]_Taken
  BY FifoStep
<1> QED
  BY <1>1, <1>2, <1>3, <1>4, PTL DEF Spec, ImplementsFifoPool, Fifo!Spec
=============================================================================
