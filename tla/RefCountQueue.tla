--------------------------- MODULE RefCountQueue ---------------------------
(***************************************************************************)
(* lock_free_queue of "7.15 lock_free_queue_with_reference_count.cpp": a   *)
(* linked list with a dummy last node whose nodes are counted twice, by    *)
(* the pointers m_head and m_tail (external count) and in the node.        *)
(*                                                                         *)
(* Each step is one access to shared memory, taken as sequentially         *)
(* consistent.  A compare-and-swap loop that only adds to a counter is one *)
(* step, its last iteration: the failed ones change nothing.               *)
(* m_internal_count, 30 bits and compared with 0 only, is an integer here: *)
(* MaxCount keeps it far from wrapping around to 0.                        *)
(***************************************************************************)
EXTENDS Integers, FiniteSets

CONSTANTS
  Thread,    (* the threads that push and pop                              *)
  Value,     (* the elements; each is pushed at most once                  *)
  Node,      (* addresses of queue nodes; freed ones are allocated again   *)
  Null,      (* nullptr                                                    *)
  MaxCount   (* bound on m_external_count, an int in the code              *)

VARIABLES
  head,      (* m_head: an external count and a pointer                    *)
  tail,      (* m_tail                                                     *)
  data,      (* m_data of every node                                       *)
  internal,  (* m_count.m_internal_count of every node                     *)
  counters,  (* m_count.m_external_counters of every node                  *)
  next,      (* m_next of every node                                       *)
  live,      (* the addresses that are allocated                           *)
  pc,        (* what each thread does next                                 *)
  old,       (* old_tail of a push, old_head of a pop                      *)
  mine,      (* new_next of a push, the node read from m_next of a pop     *)
  val,       (* new_data of a push                                         *)
  pushed,    (* history: the values whose push has returned                *)
  popped     (* history: the values a pop has taken                        *)

nodes  == <<data, internal, counters, next, live>>
locals == <<old, mine, val>>
vars   == <<head, tail, nodes, pc, locals, pushed, popped>>

NullPtr == [count |-> 0, node |-> Null]
First(n) == [count |-> 1, node |-> n]

Goto(t, label) == pc' = [pc EXCEPT ![t] = label]

Init ==
  \E dummy \in Node :
    /\ head = First(dummy)
    /\ tail = First(dummy)
    /\ live = {dummy}
    /\ data = [n \in Node |-> Null]
    /\ internal = [n \in Node |-> 0]
    /\ counters = [n \in Node |-> 2]
    /\ next = [n \in Node |-> NullPtr]
    /\ pc = [t \in Thread |-> "idle"]
    /\ old = [t \in Thread |-> NullPtr]
    /\ mine = [t \in Thread |-> NullPtr]
    /\ val = [t \in Thread |-> Null]
    /\ pushed = {}
    /\ popped = {}

-----------------------------------------------------------------------------
(* m_count of n changes; whoever brings both parts to zero deletes n. *)
Adjust(n, deltaInternal, deltaCounters) ==
  /\ internal' = [internal EXCEPT ![n] = @ + deltaInternal]
  /\ counters' = [counters EXCEPT ![n] = @ + deltaCounters]
  /\ live' = IF internal'[n] = 0 /\ counters'[n] = 0 THEN live \ {n} ELSE live

ReleaseRef(n) == Adjust(n, -1, 0)
FreeExternalCounter(counted) == Adjust(counted.node, counted.count - 2, -1)

(***************************************************************************)
(* push                                                                    *)
(***************************************************************************)
BeginPush(t) ==
  /\ pc[t] = "idle"
  /\ \E v \in Value \ (pushed \cup popped \cup {val[u] : u \in Thread}) :
       val' = [val EXCEPT ![t] = v]
  /\ \E n \in Node \ live :
       /\ live' = live \cup {n}
       /\ data' = [data EXCEPT ![n] = Null]
       /\ internal' = [internal EXCEPT ![n] = 0]
       /\ counters' = [counters EXCEPT ![n] = 2]
       /\ next' = [next EXCEPT ![n] = NullPtr]
       /\ mine' = [mine EXCEPT ![t] = First(n)]
  /\ Goto(t, "push_count")
  /\ UNCHANGED <<head, tail, old, pushed, popped>>

(* increase_external_count(m_tail, old_tail). *)
PushCount(t) ==
  /\ pc[t] = "push_count" /\ tail.count < MaxCount
  /\ tail' = [tail EXCEPT !.count = @ + 1]
  /\ old' = [old EXCEPT ![t] = tail']
  /\ Goto(t, "push_claim")
  /\ UNCHANGED <<head, nodes, mine, val, pushed, popped>>

(* The compare-and-swap of m_data: the push owns the old tail from here. *)
Claim(t) ==
  /\ pc[t] = "push_claim"
  /\ data[old[t].node] = Null
  /\ data' = [data EXCEPT ![old[t].node] = val[t]]
  /\ Goto(t, "push_link")
  /\ UNCHANGED <<head, tail, internal, counters, next, live, locals, pushed, popped>>

(* Another push owns it: give the reference back and start again. *)
ClaimFails(t) ==
  /\ pc[t] = "push_claim"
  /\ data[old[t].node] # Null
  /\ ReleaseRef(old[t].node)
  /\ Goto(t, "push_count")
  /\ UNCHANGED <<head, tail, data, next, locals, pushed, popped>>

Link(t) ==
  /\ pc[t] = "push_link"
  /\ next' = [next EXCEPT ![old[t].node] = mine[t]]
  /\ Goto(t, "push_tail")
  /\ UNCHANGED <<head, tail, data, internal, counters, live, locals, pushed, popped>>

(* old_tail = m_tail.exchange(new_next). *)
ExchangeTail(t) ==
  /\ pc[t] = "push_tail"
  /\ tail' = mine[t]
  /\ old' = [old EXCEPT ![t] = tail]
  /\ mine' = [mine EXCEPT ![t] = NullPtr]
  /\ Goto(t, "push_free")
  /\ UNCHANGED <<head, nodes, val, pushed, popped>>

EndPush(t) ==
  /\ pc[t] = "push_free"
  /\ FreeExternalCounter(old[t])
  /\ old' = [old EXCEPT ![t] = NullPtr]
  /\ val' = [val EXCEPT ![t] = Null]
  /\ pushed' = pushed \cup {val[t]}
  /\ Goto(t, "idle")
  /\ UNCHANGED <<head, tail, data, next, mine, popped>>

(***************************************************************************)
(* pop                                                                     *)
(***************************************************************************)
(* increase_external_count(m_head, old_head). *)
PopCount(t) ==
  /\ pc[t] \in {"idle", "pop_count"} /\ head.node # Null /\ head.count < MaxCount
  /\ head' = [head EXCEPT !.count = @ + 1]
  /\ old' = [old EXCEPT ![t] = head']
  /\ Goto(t, "pop_compare")
  /\ UNCHANGED <<tail, nodes, mine, val, pushed, popped>>

(* Head and tail are the same node: nothing to pop. *)
PopEmpty(t) ==
  /\ pc[t] = "pop_compare"
  /\ old[t].node = tail.node
  /\ ReleaseRef(old[t].node)
  /\ old' = [old EXCEPT ![t] = NullPtr]
  /\ Goto(t, "idle")
  /\ UNCHANGED <<head, tail, data, next, mine, val, pushed, popped>>

ReadNext(t) ==
  /\ pc[t] = "pop_compare"
  /\ old[t].node # tail.node
  /\ mine' = [mine EXCEPT ![t] = next[old[t].node]]
  /\ Goto(t, "pop_head")
  /\ UNCHANGED <<head, tail, nodes, old, val, pushed, popped>>

MoveHead(t) ==
  /\ pc[t] = "pop_head"
  /\ head = old[t]
  /\ head' = mine[t]
  /\ mine' = [mine EXCEPT ![t] = NullPtr]
  /\ Goto(t, "pop_take")
  /\ UNCHANGED <<tail, nodes, old, val, pushed, popped>>

MoveHeadFails(t) ==
  /\ pc[t] = "pop_head"
  /\ head # old[t]
  /\ ReleaseRef(old[t].node)
  /\ mine' = [mine EXCEPT ![t] = NullPtr]
  /\ Goto(t, "pop_count")
  /\ UNCHANGED <<head, tail, data, next, old, val, pushed, popped>>

(* ptr->m_data.exchange(nullptr). *)
Take(t) ==
  /\ pc[t] = "pop_take"
  /\ popped' = popped \cup ({data[old[t].node]} \ {Null})
  /\ data' = [data EXCEPT ![old[t].node] = Null]
  /\ Goto(t, "pop_free")
  /\ UNCHANGED <<head, tail, internal, counters, next, live, locals, pushed>>

EndPop(t) ==
  /\ pc[t] = "pop_free"
  /\ FreeExternalCounter(old[t])
  /\ old' = [old EXCEPT ![t] = NullPtr]
  /\ Goto(t, "idle")
  /\ UNCHANGED <<head, tail, data, next, mine, val, pushed, popped>>

-----------------------------------------------------------------------------
Push(t) ==
  \/ BeginPush(t) \/ PushCount(t) \/ Claim(t) \/ ClaimFails(t)
  \/ Link(t) \/ ExchangeTail(t) \/ EndPush(t)

Pop(t) ==
  \/ PopCount(t) \/ PopEmpty(t) \/ ReadNext(t) \/ MoveHead(t) \/ MoveHeadFails(t)
  \/ Take(t) \/ EndPop(t)

Next == \E t \in Thread : Push(t) \/ Pop(t)

Spec == Init /\ [][Next]_vars

-----------------------------------------------------------------------------
(* The nodes within k links of m_head. *)
Within[k \in 0..Cardinality(Node)] ==
  IF k = 0 THEN {head.node} \cap Node
  ELSE Within[k - 1] \cup ({next[n].node : n \in Within[k - 1]} \cap Node)

InQueue == {data[n] : n \in Within[Cardinality(Node)]}
AboutToBeTaken == {data[old[t].node] : t \in {u \in Thread : pc[u] = "pop_take"}}

(* A value whose push has returned can be reached from m_head until a pop  *)
(* takes it.  The code breaks this: a push that holds a reference to the   *)
(* old tail can claim the node's m_data (line 34) a second time, after     *)
(* another push has moved the tail on and a pop has reset m_data to        *)
(* nullptr (line 63); its value is then in a node that has left the queue. *)
NothingLost == pushed \subseteq popped \cup InQueue \cup AboutToBeTaken
=============================================================================
