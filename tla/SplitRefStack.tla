--------------------------- MODULE SplitRefStack ---------------------------
(***************************************************************************)
(* lock_free_stack with split reference counts, of                         *)
(* "7.11 lock_free_stack_split_ref_count_optimized_memory_order.cpp" and   *)
(* "7.10 lock_free_stack_with_split_reference_count.cpp".  Each step is    *)
(* one access to shared memory; memory is sequentially consistent.         *)
(*                                                                         *)
(* Node is the set of addresses: a node that has been deleted may be       *)
(* allocated again, which is what compare-and-swap has to survive.         *)
(***************************************************************************)
EXTENDS Integers, Sequences, FiniteSets

CONSTANTS
  Thread,      (* the threads that push and pop                            *)
  Value,       (* the elements                                             *)
  Node,        (* addresses of stack nodes                                 *)
  Null,        (* nullptr                                                  *)
  None,        (* no result yet                                            *)
  Empty,       (* pop returned nullptr                                     *)
  LoserDelta,  (* what a pop that lost the race adds to m_internal_count:  *)
               (* -1 in 7.11, 1 in 7.10                                    *)
  MaxCount     (* bound on m_external_count, an int in the code            *)

ASSUME StackAssumption ==
  /\ IsFiniteSet(Thread)
  /\ Null \notin Node /\ None \notin Value /\ Empty \notin Value /\ None # Empty
  /\ LoserDelta \in {-1, 1}
  /\ MaxCount \in Nat \ {0}

VARIABLES
  head,      (* m_head: an external count and a pointer                    *)
  data,      (* m_data of every node                                       *)
  internal,  (* m_internal_count of every node                             *)
  next,      (* m_next of every node, again a counted pointer              *)
  live,      (* the addresses that are allocated                           *)
  pc,        (* what each thread does next                                 *)
  old,       (* old_head of a pop                                          *)
  ptr,       (* new_node.m_ptr of a push, ptr of a pop                     *)
  below,     (* old_head.m_ptr->m_next, read for the compare-and-swap      *)
  res,       (* res of a pop                                               *)
  chain      (* history: the linked nodes, top first                       *)

nodes  == <<data, internal, next, live>>
locals == <<old, ptr, below, res>>
vars   == <<head, nodes, pc, locals, chain>>

Counted == [count : 0..MaxCount, node : Node \cup {Null}]
NullPtr == [count |-> 0, node |-> Null]

Goto(t, label) == pc' = [pc EXCEPT ![t] = label]

Init ==
  /\ head = NullPtr
  /\ data = [n \in Node |-> None]
  /\ internal = [n \in Node |-> 0]
  /\ next = [n \in Node |-> NullPtr]
  /\ live = {}
  /\ pc = [t \in Thread |-> "idle"]
  /\ old = [t \in Thread |-> NullPtr]
  /\ ptr = [t \in Thread |-> Null]
  /\ below = [t \in Thread |-> NullPtr]
  /\ res = [t \in Thread |-> None]
  /\ chain = <<>>

(***************************************************************************)
(* push                                                                    *)
(***************************************************************************)
BeginPush(t) ==
  /\ pc[t] = "idle"
  /\ \E n \in Node \ live, v \in Value :
       /\ live' = live \cup {n}
       /\ data' = [data EXCEPT ![n] = v]
       /\ internal' = [internal EXCEPT ![n] = 0]
       /\ next' = [next EXCEPT ![n] = NullPtr]
       /\ ptr' = [ptr EXCEPT ![t] = n]
  /\ Goto(t, "push_load")
  /\ UNCHANGED <<head, old, below, res, chain>>

(* m_next = m_head.load(), and what a failed compare-and-swap does to it. *)
PushLoad(t) ==
  /\ \/ pc[t] = "push_load"
     \/ pc[t] = "push_cas" /\ head # next[ptr[t]]
  /\ next' = [next EXCEPT ![ptr[t]] = head]
  /\ Goto(t, "push_cas")
  /\ UNCHANGED <<head, data, internal, live, locals, chain>>

(* Mutant: m_external_count keeps its default, 0. *)
PushCasUncounted(t) ==
  /\ pc[t] = "push_cas"
  /\ head = next[ptr[t]]
  /\ head' = [count |-> 0, node |-> ptr[t]]
  /\ chain' = <<ptr[t]>> \o chain
  /\ ptr' = [ptr EXCEPT ![t] = Null]
  /\ Goto(t, "idle")
  /\ UNCHANGED <<nodes, old, below, res>>

(* Mutant: the head is stored without comparing it. *)
PushStore(t) ==
  /\ pc[t] = "push_cas"
  /\ head' = [count |-> 1, node |-> ptr[t]]
  /\ chain' = <<ptr[t]>> \o chain
  /\ ptr' = [ptr EXCEPT ![t] = Null]
  /\ Goto(t, "idle")
  /\ UNCHANGED <<nodes, old, below, res>>

PushCas(t) ==
  /\ pc[t] = "push_cas"
  /\ head = next[ptr[t]]
  /\ head' = [count |-> 1, node |-> ptr[t]]
  /\ chain' = <<ptr[t]>> \o chain
  /\ ptr' = [ptr EXCEPT ![t] = Null]
  /\ Goto(t, "idle")
  /\ UNCHANGED <<nodes, old, below, res>>

(***************************************************************************)
(* pop                                                                     *)
(***************************************************************************)
(* old_head = m_head.load(), and what a failed compare-and-swap of         *)
(* increase_head_count does to it.                                         *)
PopLoad(t) ==
  /\ \/ pc[t] = "idle"
     \/ pc[t] = "increase" /\ head # old[t]
  /\ old' = [old EXCEPT ![t] = head]
  /\ Goto(t, "increase")
  /\ UNCHANGED <<head, nodes, ptr, below, res, chain>>

(* increase_head_count succeeds: the thread now holds a reference.  A null *)
(* pointer is seen at this very step to be the head of an empty stack.     *)
Increase(t) ==
  /\ pc[t] = "increase"
  /\ head = old[t] /\ head.count < MaxCount
  /\ head' = [head EXCEPT !.count = @ + 1]
  /\ IF head.node = Null
     THEN /\ res' = [res EXCEPT ![t] = Empty]
          /\ old' = [old EXCEPT ![t] = NullPtr]
          /\ Goto(t, "return")
          /\ UNCHANGED ptr
     ELSE /\ old' = [old EXCEPT ![t] = head']
          /\ ptr' = [ptr EXCEPT ![t] = head.node]
          /\ Goto(t, "pop_next")
          /\ UNCHANGED res
  /\ UNCHANGED <<nodes, below, chain>>

ReadNext(t) ==
  /\ pc[t] = "pop_next"
  /\ below' = [below EXCEPT ![t] = next[ptr[t]]]
  /\ Goto(t, "pop_cas")
  /\ UNCHANGED <<head, nodes, old, ptr, res, chain>>

(* Mutant: the compare-and-swap looks at the pointer but not at the count. *)
PopCasIgnoresCount(t) ==
  /\ pc[t] = "pop_cas"
  /\ head.node = old[t].node
  /\ head' = below[t]
  /\ chain' = Tail(chain)
  /\ below' = [below EXCEPT ![t] = NullPtr]
  /\ Goto(t, "swap")
  /\ UNCHANGED <<nodes, old, ptr, res>>

(* Mutant: the winner gives up one reference of the next node. *)
PopCasDecrements(t) ==
  /\ pc[t] = "pop_cas"
  /\ head = old[t]
  /\ head' = [below[t] EXCEPT !.count = @ - 1]
  /\ chain' = Tail(chain)
  /\ below' = [below EXCEPT ![t] = NullPtr]
  /\ Goto(t, "swap")
  /\ UNCHANGED <<nodes, old, ptr, res>>

PopCasWins(t) ==
  /\ pc[t] = "pop_cas"
  /\ head = old[t]
  /\ head' = below[t]
  /\ chain' = Tail(chain)
  /\ below' = [below EXCEPT ![t] = NullPtr]
  /\ Goto(t, "swap")
  /\ UNCHANGED <<nodes, old, ptr, res>>

(* The failed compare-and-swap has loaded the new head into old_head. *)
PopCasLoses(t) ==
  /\ pc[t] = "pop_cas"
  /\ head # old[t]
  /\ old' = [old EXCEPT ![t] = head]
  /\ below' = [below EXCEPT ![t] = NullPtr]
  /\ Goto(t, "lose")
  /\ UNCHANGED <<head, nodes, ptr, res, chain>>

(* res.swap(ptr->m_data). *)
SwapData(t) ==
  /\ pc[t] = "swap"
  /\ res' = [res EXCEPT ![t] = data[ptr[t]]]
  /\ data' = [data EXCEPT ![ptr[t]] = None]
  /\ Goto(t, "settle")
  /\ UNCHANGED <<head, internal, next, live, old, ptr, below, chain>>

(* Mutant: one reference too many is handed over. *)
SettleOffByOne(t) ==
  /\ pc[t] = "settle"
  /\ LET increase == old[t].count - 1
     IN  /\ internal' = [internal EXCEPT ![ptr[t]] = @ + increase]
         /\ IF internal[ptr[t]] = -increase
            THEN Goto(t, "delete") /\ UNCHANGED ptr
            ELSE Goto(t, "return") /\ ptr' = [ptr EXCEPT ![t] = Null]
  /\ old' = [old EXCEPT ![t] = NullPtr]
  /\ UNCHANGED <<head, data, next, live, below, res, chain>>

(* The winner hands the external references over to m_internal_count; the  *)
(* last one to let go of the node deletes it.                              *)
Settle(t) ==
  /\ pc[t] = "settle"
  /\ LET increase == old[t].count - 2
     IN  /\ internal' = [internal EXCEPT ![ptr[t]] = @ + increase]
         /\ IF internal[ptr[t]] = -increase
            THEN Goto(t, "delete") /\ UNCHANGED ptr
            ELSE Goto(t, "return") /\ ptr' = [ptr EXCEPT ![t] = Null]
  /\ old' = [old EXCEPT ![t] = NullPtr]
  /\ UNCHANGED <<head, data, next, live, below, res, chain>>

(* Mutant: a loser adds a reference instead of giving one up. *)
LoseAdds(t) ==
  /\ pc[t] = "lose"
  /\ internal' = [internal EXCEPT ![ptr[t]] = @ + 1]
  /\ IF internal[ptr[t]] = 1
     THEN Goto(t, "lose_delete") /\ UNCHANGED ptr
     ELSE Goto(t, "increase") /\ ptr' = [ptr EXCEPT ![t] = Null]
  /\ UNCHANGED <<head, data, next, live, old, below, res, chain>>

(* Mutant: a loser swaps the data out as well and returns it. *)
LoseTakesData(t) ==
  /\ pc[t] = "lose"
  /\ internal' = [internal EXCEPT ![ptr[t]] = @ - 1]
  /\ res' = [res EXCEPT ![t] = data[ptr[t]]]
  /\ data' = [data EXCEPT ![ptr[t]] = None]
  /\ ptr' = [ptr EXCEPT ![t] = Null]
  /\ old' = [old EXCEPT ![t] = NullPtr]
  /\ Goto(t, "return")
  /\ UNCHANGED <<head, next, live, below, chain>>

Lose(t) ==
  /\ pc[t] = "lose"
  /\ internal' = [internal EXCEPT ![ptr[t]] = @ + LoserDelta]
  /\ IF internal[ptr[t]] = 1
     THEN Goto(t, "lose_delete") /\ UNCHANGED ptr
     ELSE Goto(t, "increase") /\ ptr' = [ptr EXCEPT ![t] = Null]
  /\ UNCHANGED <<head, data, next, live, old, below, res, chain>>

(* delete ptr, after which a winner returns and a loser tries again. *)
Delete(t) ==
  /\ pc[t] \in {"delete", "lose_delete"}
  /\ live' = live \ {ptr[t]}
  /\ ptr' = [ptr EXCEPT ![t] = Null]
  /\ Goto(t, IF pc[t] = "delete" THEN "return" ELSE "increase")
  /\ UNCHANGED <<head, data, internal, next, old, below, res, chain>>

Return(t) ==
  /\ pc[t] = "return"
  /\ res' = [res EXCEPT ![t] = None]
  /\ Goto(t, "idle")
  /\ UNCHANGED <<head, nodes, old, ptr, below, chain>>

-----------------------------------------------------------------------------
(* The count has reached the bound of the model and no thread can move. *)
Capped ==
  /\ head.count = MaxCount
  /\ \A t \in Thread : pc[t] = "increase" /\ old[t] = head
  /\ UNCHANGED vars

Step(t) ==
  \/ PushLoad(t) \/ PushCas(t) \/ Increase(t) \/ ReadNext(t) \/ PopCasWins(t) \/ PopCasLoses(t)
  \/ SwapData(t) \/ Settle(t) \/ Lose(t) \/ Delete(t) \/ Return(t)

Next == Capped \/ \E t \in Thread : BeginPush(t) \/ PopLoad(t) \/ Step(t)

Spec == Init /\ [][Next]_vars

-----------------------------------------------------------------------------
Label == {"idle", "push_load", "push_cas", "increase", "pop_next", "pop_cas", "swap", "settle",
          "lose", "delete", "lose_delete", "return"}

(* The type of every variable. *)
TypeOK ==
  /\ head \in Counted
  /\ data \in [Node -> Value \cup {None}]
  /\ internal \in [Node -> Int]
  /\ next \in [Node -> Counted]
  /\ live \subseteq Node
  /\ pc \in [Thread -> Label]
  /\ old \in [Thread -> Counted]
  /\ ptr \in [Thread -> Node \cup {Null}]
  /\ below \in [Thread -> Counted]
  /\ res \in [Thread -> Value \cup {None, Empty}]
  /\ chain \in Seq(Node)

(* Dereferencing labels: the next step of the thread touches *ptr. *)
Touches == {"push_load", "push_cas", "pop_next", "swap", "settle", "lose", "delete",
            "lose_delete"}

(* Nobody touches a node that has been deleted, or deletes it twice, even  *)
(* when its address has been allocated again.                              *)
NoUseAfterFree ==
  /\ \A t \in Thread : pc[t] \in Touches => ptr[t] \in live
  /\ \A i \in DOMAIN chain : chain[i] \in live

(* The threads that hold a counted reference to node n. *)
Holding    == {"pop_next", "pop_cas", "swap", "settle", "lose"}
Holders(n) == {t \in Thread : ptr[t] = n /\ pc[t] \in Holding}

(* The external count of a linked node is in m_head or in the node above.  *)
ExternalCount(i) == IF i = 1 THEN head.count ELSE next[chain[i - 1]].count

(* The two halves of the count of a linked node add up to the references   *)
(* held, plus one for the list: this is why the pop that brings them       *)
(* together, or the last loser after it, finds exactly zero.               *)
CountsAddUp ==
  /\ \A i \in DOMAIN chain :
       ExternalCount(i) + internal[chain[i]] = 1 + Cardinality(Holders(chain[i]))
  /\ \A t \in Thread : pc[t] \in {"swap", "settle"} =>
       old[t].count + internal[ptr[t]] = 1 + Cardinality(Holders(ptr[t]))

(* The list that starts at m_head is the stack, whatever compare-and-swap  *)
(* succeeded on a head that went away and came back.                       *)
ListIntact ==
  /\ head.node = IF chain = <<>> THEN Null ELSE chain[1]
  /\ \A i \in DOMAIN chain :
       next[chain[i]].node = IF i = Len(chain) THEN Null ELSE chain[i + 1]
  /\ \A i, j \in DOMAIN chain : chain[i] = chain[j] => i = j

(* When no call is in progress every allocated node is in the stack.       *)
NoLeak ==
  (\A t \in Thread : pc[t] = "idle") => live = {chain[i] : i \in DOMAIN chain}

-----------------------------------------------------------------------------
(* Why the counts of 7.11 work: the inductive invariant.                   *)
Elements(s) == {s[i] : i \in DOMAIN s}
Linked      == Elements(chain)

Owning    == {"push_load", "push_cas", "swap", "settle", "delete", "lose_delete"}
Owners(n) == {t \in Thread : ptr[t] = n /\ pc[t] \in Owning}

(* A node is linked, or owned by the one thread that pushes it, has popped *)
(* it or deletes it, or left to the losers of its pop.                     *)
OneOwner ==
  /\ \A t, u \in Thread : pc[t] \in Owning /\ pc[u] \in Owning /\ ptr[t] = ptr[u] => t = u
  /\ \A t \in Thread : pc[t] \in Owning => ptr[t] \notin Linked
  /\ \A t, u \in Thread : pc[t] \in Owning \ Holding /\ pc[u] \in Holding => ptr[t] # ptr[u]
  /\ \A n \in Linked : n \in live /\ data[n] \in Value

(* The internal count is the number of the losers a node is left to; before*)
(* that it was never positive, so that no loser but the last finds a 1.    *)
InternalCounts ==
  /\ \A t \in Thread : pc[t] \in {"push_load", "push_cas"} => internal[ptr[t]] = 0
  /\ \A t \in Thread : pc[t] \in {"swap", "settle"} => internal[ptr[t]] <= 0
  /\ \A n \in Linked : internal[n] <= 0
  /\ \A n \in live \ Linked : Owners(n) = {} =>
       internal[n] = Cardinality(Holders(n)) /\ internal[n] > 0

(* What a thread has read stays true while it holds a reference: m_next of *)
(* the node does not change under a pop, so that below is what is under it.*)
ThreadView ==
  \A t \in Thread :
    /\ ptr[t] # Null <=> pc[t] \in Holding \cup Owning
    /\ pc[t] \in Holding \cup Owning => ptr[t] \in live
    /\ pc[t] \in {"push_load", "push_cas", "swap"} => data[ptr[t]] \in Value
    /\ pc[t] \in {"pop_next", "pop_cas"} => old[t].node = ptr[t]
    /\ pc[t] = "pop_cas" => below[t] = next[ptr[t]]
    /\ res[t] # None <=> pc[t] \in {"settle", "delete", "return"}

IInv == TypeOK /\ ListIntact /\ CountsAddUp /\ OneOwner /\ InternalCounts /\ ThreadView

-----------------------------------------------------------------------------
(* The stack its callers see. *)
itemsBar  == [i \in DOMAIN chain |-> data[chain[i]]]
Result(t) == IF pc[t] = "swap" THEN data[ptr[t]] ELSE res[t]
handBar   == [t \in Thread |-> Result(t)]

AS == INSTANCE AbstractStack WITH items <- itemsBar, hand <- handBar

(* Linearizable: every value is popped once and in LIFO order, and a pop   *)
(* reports an empty stack only when it is empty, although addresses are    *)
(* reused under the compare-and-swaps.                                     *)
Linearizable == AS!Spec
=============================================================================
