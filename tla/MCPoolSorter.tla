---------------------------- MODULE MCPoolSorter ----------------------------
(* A finite instance of PoolSorter for TLC. *)
EXTENDS PoolSorter

(* Two items with the same value. *)
MCKey == <<1, 2, 3, 3>>
=============================================================================
