-------------------------- MODULE MCWaitableQueue --------------------------
(* Finite instances of WaitableQueue for TLC. *)
EXTENDS WaitableQueue, TLC

(* Threads, values and addresses are interchangeable. *)
Symmetry == Permutations(Thread) \cup Permutations(Value) \cup Permutations(Node)
=============================================================================
