------------------------ MODULE MCHandOverHandList ------------------------
(* Finite instances of HandOverHandList for TLC. *)
EXTENDS HandOverHandList
=============================================================================
