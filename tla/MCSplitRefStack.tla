-------------------------- MODULE MCSplitRefStack --------------------------
(* Finite instances of SplitRefStack for TLC. *)
EXTENDS SplitRefStack, TLC

(* Threads, values and addresses are interchangeable. *)
Symmetry == Permutations(Thread) \cup Permutations(Value) \cup Permutations(Node)

(* Line 51 of 7.11. *)
LoserSubtracts == -1

(* Line 53 of 7.10. *)
LoserAdds == 1
=============================================================================
