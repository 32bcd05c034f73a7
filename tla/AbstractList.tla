---------------------------- MODULE AbstractList ----------------------------
(***************************************************************************)
(* What threadsafe_list of "6.13 thread_safe_list_with_iterator.cpp"       *)
(* promises its callers: a sequence of elements that grows in front, and   *)
(* calls that walk over it.  A walk meets, in order and once each, the     *)
(* elements that were in the list when it began, except those removed      *)
(* before it reaches them; it meets none that were pushed since.           *)
(***************************************************************************)
EXTENDS Naturals, SequencesExt

CONSTANTS
  Thread,    (* the calling threads                                        *)
  Value,     (* what the elements hold                                     *)
  Id,        (* what tells two elements with one value apart               *)
  None,      (* no result                                                  *)
  Thrown     (* the call ends with an exception of f or p                  *)

VARIABLES
  items,     (* the elements, [id, value] records                          *)
  op,        (* the member function each thread is in, or "none"           *)
  rest,      (* the elements the walk of the call has still to meet        *)
  met,       (* the element f or the predicate was last called with        *)
  hand       (* the result the call has not returned yet                   *)

vars == <<items, op, rest, met, hand>>
call == <<op, rest, met, hand>>

Init ==
  /\ items = <<>>
  /\ op = [t \in Thread |-> "none"]
  /\ rest = [t \in Thread |-> <<>>]
  /\ met = [t \in Thread |-> None]
  /\ hand = [t \in Thread |-> None]

(* push_front. *)
Insert ==
  /\ \E id \in Id, v \in Value :
       /\ \A i \in DOMAIN items : items[i].id # id
       /\ items' = <<[id |-> id, value |-> v]>> \o items
  /\ UNCHANGED call

Begin(t) ==
  /\ op[t] = "none"
  /\ \E o \in {"for_each", "find_first_if", "remove_if"} : op' = [op EXCEPT ![t] = o]
  /\ rest' = [rest EXCEPT ![t] = items]
  /\ UNCHANGED <<items, met, hand>>

(* f or the predicate is called with the next element of the walk. *)
Meet(t) == rest[t] # <<>> /\ met' = [met EXCEPT ![t] = Head(rest[t])]

(* The walk goes on. *)
Pass(t) ==
  /\ Meet(t)
  /\ rest' = [rest EXCEPT ![t] = Tail(@)]
  /\ UNCHANGED <<items, op, hand>>

(* find_first_if has found what it returns. *)
Find(t) ==
  /\ op[t] = "find_first_if" /\ Meet(t)
  /\ hand' = [hand EXCEPT ![t] = Head(rest[t])]
  /\ rest' = [rest EXCEPT ![t] = <<>>]
  /\ UNCHANGED <<items, op>>

(* An element that is removed disappears from every walk. *)
Unlink(t) ==
  /\ op[t] = "remove_if" /\ Meet(t)
  /\ items' = RemoveFirst(items, Head(rest[t]))
  /\ rest' = [u \in Thread |-> RemoveFirst(rest[u], Head(rest[t]))]
  /\ UNCHANGED <<op, hand>>

(* f or the predicate throws. *)
Throw(t) ==
  /\ Meet(t)
  /\ hand' = [hand EXCEPT ![t] = Thrown]
  /\ rest' = [rest EXCEPT ![t] = <<>>]
  /\ UNCHANGED <<items, op>>

(* Nothing else ends a walk before every element has been met. *)
Return(t) ==
  /\ op[t] # "none" /\ rest[t] = <<>>
  /\ op' = [op EXCEPT ![t] = "none"]
  /\ met' = [met EXCEPT ![t] = None]
  /\ hand' = [hand EXCEPT ![t] = None]
  /\ UNCHANGED <<items, rest>>

Next ==
  \/ Insert
  \/ \E t \in Thread : Begin(t) \/ Pass(t) \/ Find(t) \/ Unlink(t) \/ Throw(t) \/ Return(t)

Spec == Init /\ [][Next]_vars
=============================================================================
