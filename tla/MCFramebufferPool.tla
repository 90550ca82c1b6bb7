------------------------- MODULE MCFramebufferPool -------------------------
(* Instances of FramebufferPool for TLC. *)
EXTENDS FramebufferPool, TLC

(* Threads are interchangeable. *)
ThreadSymmetry == Permutations(Threads)
=============================================================================
