--------------------------- MODULE WaitableQueue ---------------------------
(***************************************************************************)
(* threadsafe_queue of "6.7 lockable_waitable_thread_safe_queue.cpp": a    *)
(* singly linked list with a dummy last node, one mutex for each end and a *)
(* condition variable.  Each step is one access to shared state: taking or *)
(* releasing a mutex, reading or writing a field of a node, a notify.      *)
(*                                                                         *)
(* Node is the set of addresses.  A push allocates any free address and    *)
(* the thread that pops the node frees it, so addresses are reused.        *)
(***************************************************************************)
EXTENDS Naturals, Sequences, FiniteSets

CONSTANTS
  Thread,    (* the threads that call the queue                            *)
  Value,     (* the elements                                               *)
  Node,      (* addresses of queue nodes; bounds what is allocated at once *)
  Null,      (* the null pointer, and the owner of an unlocked mutex       *)
  None,      (* no result yet, and the null shared_ptr                     *)
  Empty,     (* result: nullptr or false of a try_pop, true of empty()     *)
  NonEmpty   (* result: false of empty()                                   *)

ASSUME QueueAssumption ==
  /\ Null \notin Thread /\ Null \notin Node
  /\ {None, Empty, NonEmpty} \cap Value = {}
  /\ None # Empty /\ None # NonEmpty /\ Empty # NonEmpty

VARIABLES
  head,      (* m_upHead                                                   *)
  tail,      (* m_pTail                                                    *)
  data,      (* m_data of every node                                       *)
  next,      (* m_next of every node                                       *)
  live,      (* the addresses that are allocated                           *)
  headLock,  (* the owner of m_head_mutex                                  *)
  tailLock,  (* the owner of m_tail_mutex                                  *)
  pc,        (* what each thread does next; "waiting" is inside the wait   *)
             (* of m_data_cond                                             *)
  op,        (* the member function each thread is in                      *)
  mine,      (* the local unique_ptr of each thread: p or old_head         *)
  val,       (* new_value of a push, the result of any other operation     *)
  chain      (* history: the linked nodes from m_upHead to m_pTail         *)

shared  == <<head, tail, data, next, live, chain>>
locks   == <<headLock, tailLock>>
locals  == <<op, mine, val>>
vars    == <<shared, locks, pc, locals>>

WaitOp == {"wait_ptr", "wait_ref"}        (* both overloads of wait_and_pop *)
TryOp  == {"try_ptr", "try_ref"}          (* both overloads of try_pop      *)
RefOp  == {"wait_ref", "try_ref"}         (* result moved into a T&         *)
Op     == WaitOp \cup TryOp \cup {"empty", "push", "none"}

Label == {"idle", "push_lock", "push_data", "push_link", "push_tail", "push_notify",
          "lock_head", "pred", "block", "waiting", "move", "pop", "read", "return"}

Goto(t, label) == pc' = [pc EXCEPT ![t] = label]

Init ==
  /\ head \in Node
  /\ tail = head
  /\ data = [n \in Node |-> None]
  /\ next = [n \in Node |-> Null]
  /\ live = {head}
  /\ headLock = Null
  /\ tailLock = Null
  /\ pc = [t \in Thread |-> "idle"]
  /\ op = [t \in Thread |-> "none"]
  /\ mine = [t \in Thread |-> Null]
  /\ val = [t \in Thread |-> None]
  /\ chain = <<head>>

(***************************************************************************)
(* push                                                                    *)
(***************************************************************************)

(* The new dummy node is allocated before any mutex is taken. *)
BeginPush(t, v) ==
  /\ pc[t] = "idle"
  /\ \E n \in Node \ live :
       /\ live' = live \cup {n}
       /\ data' = [data EXCEPT ![n] = None]
       /\ next' = [next EXCEPT ![n] = Null]
       /\ mine' = [mine EXCEPT ![t] = n]
  /\ op' = [op EXCEPT ![t] = "push"]
  /\ val' = [val EXCEPT ![t] = v]
  /\ Goto(t, "push_lock")
  /\ UNCHANGED <<head, tail, chain, locks>>

LockTail(t) ==
  /\ pc[t] = "push_lock"
  /\ tailLock = Null
  /\ tailLock' = t
  /\ Goto(t, "push_data")
  /\ UNCHANGED <<shared, headLock, locals>>

WriteData(t) ==
  /\ pc[t] = "push_data"
  /\ data' = [data EXCEPT ![tail] = val[t]]
  /\ Goto(t, "push_link")
  /\ UNCHANGED <<head, tail, next, live, chain, locks, locals>>

LinkNode(t) ==
  /\ pc[t] = "push_link"
  /\ next' = [next EXCEPT ![tail] = mine[t]]
  /\ Goto(t, "push_tail")
  /\ UNCHANGED <<head, tail, data, live, chain, locks, locals>>

(* The list owns the node from here on; the tail mutex is released. *)
MoveTail(t) ==
  /\ pc[t] = "push_tail"
  /\ tail' = mine[t]
  /\ chain' = Append(chain, mine[t])
  /\ mine' = [mine EXCEPT ![t] = Null]
  /\ tailLock' = Null
  /\ Goto(t, "push_notify")
  /\ UNCHANGED <<head, data, next, live, headLock, op, val>>

(* notify_one, called with no mutex held, wakes one waiter if there is one. *)
NotifyOne(t) ==
  /\ pc[t] = "push_notify"
  /\ op' = [op EXCEPT ![t] = "none"]
  /\ val' = [val EXCEPT ![t] = None]
  /\ LET waiters == {w \in Thread : pc[w] = "waiting"}
     IN  \/ waiters = {} /\ Goto(t, "idle")
         \/ \E w \in waiters : pc' = [pc EXCEPT ![t] = "idle", ![w] = "lock_head"]
  /\ UNCHANGED <<shared, locks, mine>>

(***************************************************************************)
(* wait_and_pop, try_pop and empty                                         *)
(***************************************************************************)
BeginRead(t) ==
  /\ pc[t] = "idle"
  /\ \E o \in WaitOp \cup TryOp \cup {"empty"} : op' = [op EXCEPT ![t] = o]
  /\ Goto(t, "lock_head")
  /\ UNCHANGED <<shared, locks, mine, val>>

(* Mutant: the head mutex is not taken. *)
LockHeadNever(t) ==
  /\ pc[t] = "lock_head"
  /\ headLock' = t
  /\ Goto(t, "pred")
  /\ UNCHANGED <<shared, tailLock, locals>>

LockHead(t) ==
  /\ pc[t] = "lock_head"
  /\ headLock = Null
  /\ headLock' = t
  /\ Goto(t, "pred")
  /\ UNCHANGED <<shared, tailLock, locals>>

(* get_tail takes the tail mutex for one read, under the head mutex. *)
GetTail == tailLock = Null

(* Mutant: pops without asking whether there is an element. *)
FoundDataUnchecked(t) ==
  /\ pc[t] = "pred" /\ op[t] # "empty"
  /\ GetTail
  /\ Goto(t, IF op[t] \in RefOp THEN "move" ELSE "pop")
  /\ UNCHANGED <<shared, locks, locals>>

(* Mutant: wait_for_data returns without handing the lock on. *)
FoundDataUnlocks(t) ==
  /\ pc[t] = "pred" /\ op[t] # "empty"
  /\ GetTail
  /\ head # tail
  /\ headLock' = Null
  /\ Goto(t, IF op[t] \in RefOp THEN "move" ELSE "pop")
  /\ UNCHANGED <<shared, tailLock, locals>>

(* The queue holds something: go on to take it. *)
FoundData(t) ==
  /\ pc[t] = "pred" /\ op[t] # "empty"
  /\ GetTail
  /\ head # tail
  /\ Goto(t, IF op[t] \in RefOp THEN "move" ELSE "pop")
  /\ UNCHANGED <<shared, locks, locals>>

(* The predicate of wait_for_data is false; the thread still has to block. *)
FoundNoData(t) ==
  /\ pc[t] = "pred" /\ op[t] \in WaitOp
  /\ GetTail
  /\ head = tail
  /\ Goto(t, "block")
  /\ UNCHANGED <<shared, locks, locals>>

(* try_pop gives up, and empty answers. *)
Answer(t) ==
  /\ pc[t] = "pred"
  /\ GetTail
  /\ \/ op[t] \in TryOp /\ head = tail
     \/ op[t] = "empty"
  /\ val' = [val EXCEPT ![t] = IF head = tail THEN Empty ELSE NonEmpty]
  /\ headLock' = Null
  /\ Goto(t, "return")
  /\ UNCHANGED <<shared, tailLock, op, mine>>

(* m_data_cond.wait enters the wait set and releases the head mutex. *)
Block(t) ==
  /\ pc[t] = "block"
  /\ headLock' = Null
  /\ Goto(t, "waiting")
  /\ UNCHANGED <<shared, tailLock, locals>>

(* The standard lets a wait end without a notify. *)
SpuriousWakeup(t) ==
  /\ pc[t] = "waiting"
  /\ Goto(t, "lock_head")
  /\ UNCHANGED <<shared, locks, locals>>

(* The pointee of m_upHead->m_data is moved into value before the unlink. *)
MoveValue(t) ==
  /\ pc[t] = "move"
  /\ val' = [val EXCEPT ![t] = data[head]]
  /\ Goto(t, "pop")
  /\ UNCHANGED <<shared, locks, op, mine>>

(* Mutant: the node is unlinked before its value is moved out. *)
MoveThrowsAfterPop(t) ==
  /\ pc[t] = "move"
  /\ op' = [op EXCEPT ![t] = "none"]
  /\ head' = next[head]
  /\ chain' = Tail(chain)
  /\ live' = live \ {head}
  /\ headLock' = Null
  /\ Goto(t, "idle")
  /\ UNCHANGED <<tail, data, next, tailLock, mine, val>>

(* The assignment of T may throw: the lock is released, nothing is popped. *)
MoveThrows(t) ==
  /\ pc[t] = "move"
  /\ op' = [op EXCEPT ![t] = "none"]
  /\ headLock' = Null
  /\ Goto(t, "idle")
  /\ UNCHANGED <<shared, tailLock, mine, val>>

(* pop_head; the head mutex is released when the caller's scope ends. *)
PopHead(t) ==
  /\ pc[t] = "pop"
  /\ mine' = [mine EXCEPT ![t] = head]
  /\ head' = next[head]
  /\ next' = [next EXCEPT ![head] = Null]
  /\ chain' = Tail(chain)
  /\ headLock' = Null
  /\ Goto(t, IF op[t] \in RefOp THEN "return" ELSE "read")
  /\ UNCHANGED <<tail, data, live, tailLock, op, val>>

(* return old_head->m_data, after the head mutex has been released. *)
ReadData(t) ==
  /\ pc[t] = "read"
  /\ val' = [val EXCEPT ![t] = data[mine[t]]]
  /\ Goto(t, "return")
  /\ UNCHANGED <<shared, locks, op, mine>>

(* The call returns and old_head, if there is one, is destroyed. *)
Return(t) ==
  /\ pc[t] = "return"
  /\ live' = live \ {mine[t]}
  /\ mine' = [mine EXCEPT ![t] = Null]
  /\ val' = [val EXCEPT ![t] = None]
  /\ op' = [op EXCEPT ![t] = "none"]
  /\ Goto(t, "idle")
  /\ UNCHANGED <<head, tail, data, next, chain, locks>>

-----------------------------------------------------------------------------
(* The steps inside a call, which a scheduler must eventually run. *)
Step(t) ==
  \/ LockTail(t) \/ WriteData(t) \/ LinkNode(t) \/ MoveTail(t) \/ NotifyOne(t)
  \/ LockHead(t) \/ FoundData(t) \/ FoundNoData(t) \/ Answer(t) \/ Block(t)
  \/ MoveValue(t) \/ PopHead(t) \/ ReadData(t) \/ Return(t)

(* What the environment of a call does, with no obligation to do it. *)
Call(t) ==
  \/ \E v \in Value : BeginPush(t, v)
  \/ BeginRead(t)
  \/ SpuriousWakeup(t)
  \/ MoveThrows(t)

Next == \E t \in Thread : Step(t) \/ Call(t)

Spec == Init /\ [][Next]_vars

-----------------------------------------------------------------------------
(* The type of every variable. *)
TypeOK ==
  /\ head \in Node
  /\ tail \in Node
  /\ data \in [Node -> Value \cup {None}]
  /\ next \in [Node -> Node \cup {Null}]
  /\ live \subseteq Node
  /\ headLock \in Thread \cup {Null}
  /\ tailLock \in Thread \cup {Null}
  /\ pc \in [Thread -> Label]
  /\ op \in [Thread -> Op]
  /\ mine \in [Thread -> Node \cup {Null}]
  /\ val \in [Thread -> Value \cup {None, Empty, NonEmpty}]
  /\ chain \in Seq(Node)

(* The list is intact between any two steps of any threads: following      *)
(* m_next from m_upHead visits distinct allocated nodes and ends at        *)
(* m_pTail, and every node before the dummy holds a value.                 *)
ListIntact ==
  /\ Len(chain) > 0
  /\ head = chain[1]
  /\ tail = chain[Len(chain)]
  /\ \A i, j \in 1..Len(chain) : chain[i] = chain[j] => i = j
  /\ \A i \in 1..Len(chain) : chain[i] \in live
  /\ \A i \in 1..Len(chain) - 1 :
       next[chain[i]] = chain[i + 1] /\ data[chain[i]] \in Value

Elements(s) == {s[i] : i \in DOMAIN s}
Linked == Elements(chain)

(* No leak and no double free: an allocated node is in the list or owned   *)
(* by exactly one thread, and never both.                                  *)
Ownership ==
  /\ \A n \in Node : n \in live <=> n \in Linked \/ \E t \in Thread : mine[t] = n
  /\ \A t \in Thread : mine[t] \notin Linked
  /\ \A t, u \in Thread : mine[t] = mine[u] /\ mine[t] # Null => t = u

(* The labels at which a thread owns each mutex. *)
HeadSection == {"pred", "block", "move", "pop"}
TailSection == {"push_data", "push_link", "push_tail"}

LockProtocol == \A t \in Thread :
  /\ pc[t] \in HeadSection <=> headLock = t
  /\ pc[t] \in TailSection <=> tailLock = t

(* What a thread may rely on between two of its own steps, whatever the    *)
(* other threads do in between.                                            *)
ThreadView == \A t \in Thread :
  /\ pc[t] \in TailSection \cup {"push_lock"} => mine[t] \in Node /\ val[t] \in Value
  /\ pc[t] = "read" => mine[t] \in Node /\ data[mine[t]] \in Value
  /\ mine[t] # Null => pc[t] \in TailSection \cup {"push_lock", "read", "return"}
  /\ pc[t] \in {"push_link", "push_tail"} => data[tail] = val[t]
  /\ pc[t] = "push_tail" => next[tail] = mine[t]
  /\ pc[t] \in {"move", "pop"} => head # tail
  /\ pc[t] = "pop" /\ op[t] \in RefOp => val[t] = data[head]
  /\ pc[t] = "return" => val[t] # None

(* The inductive invariant: the list is intact and owned, because the two  *)
(* mutexes keep every thread's view of it true until it acts on it.        *)
IInv == TypeOK /\ ListIntact /\ Ownership /\ LockProtocol /\ ThreadView

(* The node fields the next step of t reads or writes: these are plain     *)
(* members, not atomics.                                                   *)
Access(t) ==
  CASE pc[t] = "push_data" -> {<<tail, "data", "write">>}
    [] pc[t] = "push_link" -> {<<tail, "next", "write">>}
    [] pc[t] = "move"      -> {<<head, "data", "write">>}
    [] pc[t] = "pop"       -> {<<head, "next", "write">>}
    [] pc[t] = "read"      -> {<<mine[t], "data", "read">>}
    [] pc[t] = "return" /\ mine[t] # Null ->
         {<<mine[t], "data", "write">>, <<mine[t], "next", "write">>}
    [] OTHER -> {}

(* Two mutexes for one list are enough: no two threads are ever about to   *)
(* touch the same field of the same node, one of them writing, and nobody  *)
(* touches a freed node.  The pop of the last element next to a push is    *)
(* what the dummy node is for.                                             *)
NoDataRace ==
  \A t \in Thread :
    /\ \A a \in Access(t) : a[1] \in live
    /\ \A u \in Thread \ {t} : \A a \in Access(t), b \in Access(u) :
         a[1] = b[1] /\ a[2] = b[2] => a[3] = "read" /\ b[3] = "read"

(* The queue its callers see: the values of the linked nodes, and for each *)
(* call that has taken effect the result it is going to return.            *)
Contents(nodes, d) == [i \in 1..Len(nodes) - 1 |-> d[nodes[i]]]
itemsBar  == Contents(chain, data)
Result(t) == CASE pc[t] = "read"   -> data[mine[t]]
               [] pc[t] = "return" -> val[t]
               [] OTHER            -> None
handBar   == [t \in Thread |-> Result(t)]

AQ == INSTANCE AbstractQueue WITH items <- itemsBar, hand <- handBar

(* 6.7 is a linearizable FIFO queue: every element is returned exactly     *)
(* once, in the order the pushes linked them, whatever the interleaving,   *)
(* and "empty" is answered only when the queue is empty.                   *)
Linearizable == AQ!Spec

-----------------------------------------------------------------------------
(* Every thread inside a call keeps being scheduled; a mutex is eventually *)
(* granted to a thread that finds it free again and again.                 *)
Fairness == \A t \in Thread : SF_vars(Step(t))

FairSpec == Spec /\ Fairness

(* wait_and_pop is "waitable": a thread is not left waiting for ever while *)
(* the queue holds an element, the predicate of line 92 being true.        *)
NoStrandedWaiter ==
  \A t \in Thread : ~ <>[](pc[t] = "waiting" /\ head # tail)
=============================================================================
