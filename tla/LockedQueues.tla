---------------------------- MODULE LockedQueues ----------------------------
(***************************************************************************)
(* The three containers with one mutex around a standard container:        *)
(*   "stack"   threadsafe_stack of "6.1 thread_safe_stack.cpp",            *)
(*   "copies", "moves"                                                     *)
(*             threadsafe_queue of                                         *)
(*             "6.2 thread_safe_queue_with_condition_variable.cpp", with a *)
(*             T of which a move is a copy (the int of its main) and with  *)
(*             a T that a move leaves empty,                               *)
(*   "shared"  threadsafe_queue of                                         *)
(*             "6.3 thread_safe_queue_with_shared_ptr.cpp".                *)
(* Every call holds m_mx from its first access to its last, but for the    *)
(* time it sleeps in m_data_cond.wait: a step is one critical section.     *)
(*                                                                         *)
(* The i-th push pushes the element i.  A T that a move has left empty is  *)
(* a Husk.                                                                 *)
(***************************************************************************)
EXTENDS Naturals, Sequences, FiniteSets

CONSTANTS
  Thread,    (* the calling threads                                        *)
  Kinds,     (* which of the containers to look at                         *)
  MaxPush,   (* bound: how many elements are pushed                        *)
  MaxLeft,   (* bound: how many calls of 6.2's try_pop() find an element   *)
  MaxThrow   (* bound: how many exceptions woken waiters throw             *)

Husk == 0

ASSUME ContainerAssumption ==
  /\ IsFiniteSet(Thread)
  /\ Kinds \subseteq {"stack", "copies", "moves", "shared"}
  /\ MaxPush \in Nat /\ MaxLeft \in Nat /\ MaxThrow \in Nat

VARIABLES
  kind,      (* which container this is                                    *)
  items,     (* m_data of 6.1, m_data_queue of 6.2 and 6.3                 *)
  pc,        (* "idle", "waiting" in m_data_cond, or "woken" from it       *)
  op,        (* the overload of wait_for_pop a waiting thread is in        *)
  count,     (* history: how many elements have been pushed                *)
  taken,     (* history: the elements pops have delivered, in order        *)
  left,      (* history: how many pops have left the object they delivered *)
  thrown     (* history: how many woken waiters have thrown                *)

vars == <<kind, items, pc, op, count, taken, left, thrown>>
hist == <<count, taken, left, thrown>>

WaitOp == {"wait_ref", "wait_ptr"}    (* the two overloads of wait_for_pop *)

Init ==
  /\ kind \in Kinds
  /\ items = <<>>
  /\ pc = [t \in Thread |-> "idle"]
  /\ op = [t \in Thread |-> "none"]
  /\ count = 0
  /\ taken = <<>>
  /\ left = 0
  /\ thrown = 0

Sleeping == {t \in Thread : pc[t] = "waiting"}
Woken    == {t \in Thread : pc[t] = "woken"}

(* The element a pop takes, and the container without it. *)
Front == IF kind = "stack" THEN items[Len(items)] ELSE Head(items)
Rest  == IF kind = "stack" THEN [i \in 1..Len(items) - 1 |-> items[i]] ELSE Tail(items)

(***************************************************************************)
(* push, with its notify_one in the queues                                 *)
(***************************************************************************)
(* Mutant: nobody is notified. *)
PushSilently(t) ==
  /\ pc[t] = "idle" /\ count < MaxPush
  /\ count' = count + 1
  /\ items' = Append(items, count')
  /\ UNCHANGED <<kind, op, pc, taken, left, thrown>>

(* Mutant: a notification is kept for a thread that does not wait. *)
PushRemembered(t) ==
  /\ pc[t] = "idle" /\ count < MaxPush
  /\ count' = count + 1
  /\ items' = Append(items, count')
  /\ \E w \in Thread : pc' = [pc EXCEPT ![w] = "woken"]
  /\ UNCHANGED <<kind, op, taken, left, thrown>>

Push(t) ==
  /\ pc[t] = "idle" /\ count < MaxPush
  /\ count' = count + 1
  /\ items' = Append(items, count')
  /\ \/ Sleeping = {} /\ UNCHANGED pc
     \/ \E w \in Sleeping : pc' = [pc EXCEPT ![w] = "woken"]
  /\ UNCHANGED <<kind, op, taken, left, thrown>>

(***************************************************************************)
(* The pops that take an element                                           *)
(***************************************************************************)
(* The caller gets the front object, whatever it holds. *)
Deliver == taken' = Append(taken, Front)

(* Mutant: the value is delivered and the element stays. *)
TakeKeeps ==
  /\ items # <<>>
  /\ Deliver
  /\ UNCHANGED <<kind, items, count, left, thrown>>

Take ==
  /\ items # <<>>
  /\ Deliver
  /\ items' = Rest
  /\ UNCHANGED <<kind, count, left, thrown>>

(* pop of 6.1, and try_pop or a wait_for_pop that does not have to wait.   *)
(* 6.2's try_pop() is not among them.                                      *)
PopNow(t) == pc[t] = "idle" /\ Take /\ UNCHANGED <<pc, op>>

(* What std::move leaves in the place of x. *)
MovedFrom(x) == IF kind = "copies" THEN x ELSE Husk

(* 6.2's try_pop(): the result is moved out of front(), which is not popped. *)
TryPopPtr(t) ==
  /\ kind \in {"copies", "moves"} /\ pc[t] = "idle"
  /\ items # <<>> /\ left < MaxLeft
  /\ Deliver
  /\ items' = [items EXCEPT ![1] = MovedFrom(@)]
  /\ left' = left + 1
  /\ UNCHANGED <<kind, pc, op, count, thrown>>

(* Nothing to pop: try_pop answers so, pop of 6.1 throws empty_stack.      *)
PopNothing(t) ==
  /\ pc[t] = "idle" /\ items = <<>>
  /\ UNCHANGED vars

(***************************************************************************)
(* wait_for_pop                                                            *)
(***************************************************************************)
(* The predicate is false: the mutex is released and the thread sleeps. *)
Block(t) ==
  /\ kind # "stack"
  /\ pc[t] = "idle" \/ pc[t] = "woken"
  /\ items = <<>>
  /\ IF pc[t] = "idle" THEN \E o \in WaitOp : op' = [op EXCEPT ![t] = o]
                       ELSE UNCHANGED op
  /\ pc' = [pc EXCEPT ![t] = "waiting"]
  /\ UNCHANGED <<kind, items, hist>>

(* A wait may end without a notify. *)
SpuriousWakeup(t) ==
  /\ pc[t] = "waiting"
  /\ pc' = [pc EXCEPT ![t] = "woken"]
  /\ UNCHANGED <<kind, items, op, hist>>

EndWait(t) ==
  /\ pc' = [pc EXCEPT ![t] = "idle"]
  /\ op' = [op EXCEPT ![t] = "none"]

PopWoken(t) == pc[t] = "woken" /\ Take /\ EndWait(t)

(* The delivery of an element may throw where T is moved or allocated      *)
(* under the mutex: in every pop of 6.1 and 6.2, but in 6.3 only when the  *)
(* result is a T&.  The element stays (a T that throws when it is moved is *)
(* taken to be copied), the call is over.  A call that throws without      *)
(* having slept leaves everything as it was.                               *)
DeliveryMayThrow(t) == kind # "shared" \/ op[t] = "wait_ref"

WokenThrows(t) ==
  /\ pc[t] = "woken" /\ items # <<>>
  /\ DeliveryMayThrow(t)
  /\ thrown < MaxThrow
  /\ thrown' = thrown + 1
  /\ EndWait(t)
  /\ UNCHANGED <<kind, items, count, taken, left>>

-----------------------------------------------------------------------------
Next == \E t \in Thread :
  \/ Push(t) \/ PopNow(t) \/ TryPopPtr(t) \/ PopNothing(t)
  \/ Block(t) \/ SpuriousWakeup(t) \/ PopWoken(t) \/ WokenThrows(t)

Spec == Init /\ [][Next]_vars

-----------------------------------------------------------------------------
(* Types; a thread is in wait_for_pop exactly while it sleeps or is woken. *)
TypeOK ==
  /\ kind \in {"stack", "copies", "moves", "shared"}
  /\ items \in Seq(Nat)
  /\ pc \in [Thread -> {"idle", "waiting", "woken"}]
  /\ op \in [Thread -> WaitOp \cup {"none"}]
  /\ count \in Nat
  /\ taken \in Seq(Nat)
  /\ left \in Nat /\ thrown \in Nat
  /\ \A t \in Thread : pc[t] = "idle" <=> op[t] = "none"

(* A waiter whose notify_one came is on its way for every element that is  *)
(* in the queue while others sleep, or else one that was on its way has    *)
(* thrown: then an element and a sleeping thread may stay side by side,    *)
(* since nobody passes the notification on.  It is what 6.3 avoids by      *)
(* allocating the shared_ptr in push.                                      *)
NoStrandedWaiter ==
  Sleeping # {} => Len(items) <= Cardinality(Woken) + thrown

Numbers(s) == {s[i] : i \in DOMAIN s}

(* Two elements that follow each other in 6.2's queue can be the same one. *)
Ordered(s) ==
  \A i, j \in DOMAIN s : i < j /\ s[i] # Husk /\ s[j] # Husk =>
    IF kind = "copies" THEN s[i] <= s[j] ELSE s[i] < s[j]

(* What a queue has delivered and what it holds, in this order, are the    *)
(* elements pushed and perhaps husks of them.                              *)
QueueInOrder ==
  kind # "stack" =>
    /\ Numbers(taken \o items) \ {Husk} = 1..count
    /\ Ordered(taken \o items)

StackKeepsAll ==
  kind = "stack" => Numbers(taken) \cup Numbers(items) = 1..count

(* There are more deliveries than elements by one for each try_pop() of    *)
(* 6.2 that left its object, and in 6.1 and 6.3 as many.                   *)
Surplus ==
  /\ Len(taken) + Len(items) = count + left
  /\ kind \in {"stack", "shared"} => left = 0

HuskIsFront == \A i \in DOMAIN items : items[i] = Husk => i = 1 /\ kind = "moves"

(* No element is dropped, whoever throws, and the queues deliver in the    *)
(* order of the pushes.  6.1 and 6.3 deliver each element once.  In 6.2    *)
(* what try_pop() has delivered is delivered again, directly after it: the *)
(* element itself if a move is a copy, otherwise the moved-from object,    *)
(* which is only ever at the front.                                        *)
NothingLostInOrder == QueueInOrder /\ StackKeepsAll /\ Surplus /\ HuskIsFront

(* The invariant of the proofs. *)
IInv == TypeOK /\ NothingLostInOrder
=============================================================================
