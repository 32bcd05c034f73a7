--------------------------- MODULE AbstractQueue ---------------------------
(***************************************************************************)
(* What threadsafe_queue of "6.7 lockable_waitable_thread_safe_queue.cpp"  *)
(* promises its callers: one FIFO sequence of values.  An operation takes  *)
(* effect in a single step and hands its result to the caller in a later   *)
(* one.  No node, pointer, mutex or condition variable is visible here.    *)
(***************************************************************************)
EXTENDS Naturals, Sequences

CONSTANTS
  Thread,    (* the calling threads                                        *)
  Value,     (* the elements                                               *)
  None,      (* no result is pending for the thread                        *)
  Empty,     (* the result "the queue was empty"                           *)
  NonEmpty   (* the result of empty() on a queue that holds something      *)

VARIABLES
  items,     (* the queued values, oldest first                            *)
  hand       (* hand[t] is the result thread t has not returned yet        *)

vars == <<items, hand>>

Init ==
  /\ items = <<>>
  /\ hand = [t \in Thread |-> None]

(* push: the value becomes the youngest element. *)
Put ==
  /\ \E v \in Value : items' = Append(items, v)
  /\ UNCHANGED hand

(* A pop takes the oldest element; from then on it belongs to t alone. *)
Take(t) ==
  /\ items # <<>>
  /\ hand[t] = None
  /\ items' = Tail(items)
  /\ hand' = [hand EXCEPT ![t] = Head(items)]

(* try_pop and empty may answer "empty" only at a moment when it is true, *)
(* and empty may answer "not empty" only at a moment when that is true.   *)
Observe(t) ==
  /\ hand[t] = None
  /\ hand' = [hand EXCEPT ![t] = IF items = <<>> THEN Empty ELSE NonEmpty]
  /\ UNCHANGED items

(* The call returns its result to the caller, exactly once. *)
Return(t) ==
  /\ hand[t] # None
  /\ hand' = [hand EXCEPT ![t] = None]
  /\ UNCHANGED items

Next == Put \/ \E t \in Thread : Take(t) \/ Observe(t) \/ Return(t)

Spec == Init /\ [][Next]_vars
=============================================================================
