--------------------------- MODULE AbstractStack ---------------------------
(***************************************************************************)
(* What the lock-free stacks of chapter 7 promise their callers: one LIFO  *)
(* sequence of values.  A pop takes effect in one step and hands its       *)
(* result over in a later one.                                             *)
(***************************************************************************)
EXTENDS Naturals, Sequences

CONSTANTS
  Thread,    (* the calling threads                                        *)
  Value,     (* the elements                                               *)
  None,      (* no result is pending for the thread                        *)
  Empty      (* the result "the stack was empty"                           *)

VARIABLES
  items,     (* the stacked values, youngest first                         *)
  hand       (* hand[t] is the result thread t has not returned yet        *)

vars == <<items, hand>>

Init == items = <<>> /\ hand = [t \in Thread |-> None]

Push ==
  /\ \E v \in Value : items' = <<v>> \o items
  /\ UNCHANGED hand

Pop(t) ==
  /\ items # <<>> /\ hand[t] = None
  /\ items' = Tail(items)
  /\ hand' = [hand EXCEPT ![t] = Head(items)]

PopEmpty(t) ==
  /\ items = <<>> /\ hand[t] = None
  /\ hand' = [hand EXCEPT ![t] = Empty]
  /\ UNCHANGED items

Return(t) ==
  /\ hand[t] # None
  /\ hand' = [hand EXCEPT ![t] = None]
  /\ UNCHANGED items

Next == Push \/ \E t \in Thread : Pop(t) \/ PopEmpty(t) \/ Return(t)

Spec == Init /\ [][Next]_vars
=============================================================================
