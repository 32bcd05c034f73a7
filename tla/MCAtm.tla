------------------------------- MODULE MCAtm -------------------------------
(* Finite instances of Atm for TLC. *)
EXTENDS Atm

(* The PIN 43. *)
MCCorrectPin == <<4, 3>>

(* The customer types one key ahead; the interface is the quickest of the  *)
(* three, and the bank may fall behind by two requests.                    *)
MCMaxQueue == [bank |-> 2, atm |-> 2, im |-> 1]
=============================================================================
