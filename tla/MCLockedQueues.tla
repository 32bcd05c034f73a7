--------------------------- MODULE MCLockedQueues ---------------------------
(* A finite instance of LockedQueues for TLC. *)
EXTENDS LockedQueues, TLC

(* Threads are interchangeable. *)
Symmetry == Permutations(Thread)
=============================================================================
