------------------------------ MODULE FifoPool ------------------------------
(***************************************************************************)
(* What a client of a framebuffer pool may rely on, without the semaphore  *)
(* and the index: a buffer is taken only while nobody has it, and the      *)
(* display gives buffers back in the order in which they were taken.       *)
(***************************************************************************)
EXTENDS Naturals, Sequences

CONSTANT Buffers

VARIABLE taken   \* the buffers in use, oldest first

InUse == {taken[i] : i \in DOMAIN taken}

Init == taken = <<>>

Take(b) ==
  /\ b \notin InUse
  /\ taken' = Append(taken, b)

Return ==
  /\ taken # <<>>
  /\ taken' = Tail(taken)

Next == (\E b \in Buffers : Take(b)) \/ Return

Spec == Init /\ [][Next]_taken
=============================================================================
