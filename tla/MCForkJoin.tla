----------------------------- MODULE MCForkJoin -----------------------------
(* A finite instance of ForkJoin for TLC. *)
EXTENDS ForkJoin
=============================================================================
