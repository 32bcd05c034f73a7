-------------------------- MODULE HandOverHandList --------------------------
(***************************************************************************)
(* threadsafe_list of "6.13 thread_safe_list_with_iterator.cpp": a singly  *)
(* linked list with one mutex per node, which a walk locks hand over hand. *)
(* Each step takes or releases one mutex, or does what is done to the      *)
(* nodes under the mutexes held.  A node is deleted together with its      *)
(* mutex, and its address may be allocated again.                          *)
(***************************************************************************)
EXTENDS Naturals, FiniteSets, SequencesExt

CONSTANTS
  Thread,    (* the threads that call the list                             *)
  Value,     (* the elements                                               *)
  Node,      (* addresses of list nodes; bounds the length of the list     *)
  Start,     (* the address of m_head, a member of the list itself         *)
  Null,      (* the null pointer, and the owner of an unlocked mutex       *)
  None,      (* no data, and no result                                     *)
  Thrown     (* result: f or p has thrown                                  *)

ASSUME ListAssumption ==
  /\ Start \notin Node /\ Null \notin Node \cup {Start} /\ Null \notin Thread
  /\ None \notin Value /\ None # Thrown
  /\ None \notin [id : Node, value : Value] /\ Thrown \notin [id : Node, value : Value]

Place == Node \cup {Start}

VARIABLES
  next,      (* m_next of every node                                       *)
  data,      (* m_data of every node                                       *)
  live,      (* the nodes that are allocated                               *)
  owner,     (* who holds m_mx of every node                               *)
  pc,        (* what each thread does next                                 *)
  op,        (* the member function each thread is in                      *)
  current,   (* its local variable current                                 *)
  succ,      (* its local variable next                                    *)
  mine,      (* the node its local unique_ptr owns: new_node or old_next   *)
  res,       (* what its call is going to return, or that it throws        *)
  chain,     (* history: the linked nodes in order                         *)
  met        (* history: the element its f or p was last called with       *)

nodes  == <<next, data, live, chain>>
locals == <<op, current, succ, mine, res>>
vars   == <<nodes, owner, pc, locals, met>>

WalkOp == {"for_each", "find_first_if", "remove_if"}

Goto(t, label) == pc' = [pc EXCEPT ![t] = label]

Init ==
  /\ next = [n \in Place |-> Null]
  /\ data = [n \in Node |-> None]
  /\ live = {}
  /\ owner = [n \in Place |-> Null]
  /\ pc = [t \in Thread |-> "idle"]
  /\ op = [t \in Thread |-> "none"]
  /\ current = [t \in Thread |-> Start]
  /\ succ = [t \in Thread |-> Null]
  /\ mine = [t \in Thread |-> Null]
  /\ res = [t \in Thread |-> None]
  /\ chain = <<>>
  /\ met = [t \in Thread |-> None]

(* The element at a node: what the shared_ptr m_data refers to. *)
Element(n) == [id |-> n, value |-> data[n]]

(* f or p is called with next->m_data. *)
Meet(t) == met' = [met EXCEPT ![t] = Element(succ[t])]

(* The call is over and its locals are gone. *)
Leave(t) ==
  /\ op' = [op EXCEPT ![t] = "none"]
  /\ current' = [current EXCEPT ![t] = Start]
  /\ succ' = [succ EXCEPT ![t] = Null]
  /\ mine' = [mine EXCEPT ![t] = Null]
  /\ res' = [res EXCEPT ![t] = None]
  /\ met' = [met EXCEPT ![t] = None]
  /\ Goto(t, "idle")

(***************************************************************************)
(* push_front                                                              *)
(***************************************************************************)
BeginPush(t) ==
  /\ pc[t] = "idle"
  /\ \E n \in Node \ live, v \in Value :
       /\ live' = live \cup {n}
       /\ data' = [data EXCEPT ![n] = v]
       /\ mine' = [mine EXCEPT ![t] = n]
  /\ op' = [op EXCEPT ![t] = "push_front"]
  /\ Goto(t, "lock_start")
  /\ UNCHANGED <<next, chain, owner, current, succ, res, met>>

(* new_node goes between m_head and the first node; lk releases m_head. *)
LinkFront(t) ==
  /\ pc[t] = "link"
  /\ next' = [next EXCEPT ![mine[t]] = next[Start], ![Start] = mine[t]]
  /\ chain' = <<mine[t]>> \o chain
  /\ owner' = [owner EXCEPT ![Start] = Null]
  /\ Leave(t)
  /\ UNCHANGED <<data, live>>

(***************************************************************************)
(* for_each, find_first_if and remove_if; the destructor is the remove_if  *)
(* whose predicate accepts everything.                                     *)
(***************************************************************************)
BeginWalk(t) ==
  /\ pc[t] = "idle"
  /\ \E o \in WalkOp : op' = [op EXCEPT ![t] = o]
  /\ Goto(t, "lock_start")
  /\ UNCHANGED <<nodes, owner, current, succ, mine, res, met>>

(* Mutant: the mutex of m_head is not taken. *)
LockStartNever(t) ==
  /\ pc[t] = "lock_start"
  /\ owner' = [owner EXCEPT ![Start] = t]
  /\ Goto(t, IF op[t] = "push_front" THEN "link" ELSE "read_next")
  /\ UNCHANGED <<nodes, locals, met>>

LockStart(t) ==
  /\ pc[t] = "lock_start"
  /\ owner[Start] = Null
  /\ owner' = [owner EXCEPT ![Start] = t]
  /\ Goto(t, IF op[t] = "push_front" THEN "link" ELSE "read_next")
  /\ UNCHANGED <<nodes, locals, met>>

(* Mutant: the end of the list is not noticed. *)
ReadNextUnchecked(t) ==
  /\ pc[t] = "read_next"
  /\ succ' = [succ EXCEPT ![t] = next[current[t]]]
  /\ Goto(t, "lock_next")
  /\ UNCHANGED <<nodes, owner, op, current, mine, res, met>>

(* Mutant: current is let go before next is locked. *)
ReadNextLetsGo(t) ==
  /\ pc[t] = "read_next"
  /\ next[current[t]] # Null
  /\ succ' = [succ EXCEPT ![t] = next[current[t]]]
  /\ owner' = [owner EXCEPT ![current[t]] = Null]
  /\ Goto(t, "lock_next")
  /\ UNCHANGED <<nodes, op, current, mine, res, met>>

(* The while condition, under the mutex of current. *)
ReadNext(t) ==
  /\ pc[t] = "read_next"
  /\ next[current[t]] # Null
  /\ succ' = [succ EXCEPT ![t] = next[current[t]]]
  /\ Goto(t, "lock_next")
  /\ UNCHANGED <<nodes, owner, op, current, mine, res, met>>

EndOfList(t) ==
  /\ pc[t] = "read_next"
  /\ next[current[t]] = Null
  /\ owner' = [owner EXCEPT ![current[t]] = Null]
  /\ Leave(t)
  /\ UNCHANGED nodes

(* next is locked while current still is. *)
LockNext(t) ==
  /\ pc[t] = "lock_next"
  /\ owner[succ[t]] = Null
  /\ owner' = [owner EXCEPT ![succ[t]] = t]
  /\ Goto(t, IF op[t] = "remove_if" THEN "test" ELSE "unlock")
  /\ UNCHANGED <<nodes, locals, met>>

(* for_each and find_first_if let current go before they look at next. *)
UnlockCurrent(t) ==
  /\ pc[t] = "unlock"
  /\ owner' = [owner EXCEPT ![current[t]] = Null]
  /\ Goto(t, "visit")
  /\ UNCHANGED <<nodes, locals, met>>

Advance(t) == current' = [current EXCEPT ![t] = succ[t]] /\ Goto(t, "read_next")

(* f has been called, or the predicate p has said no. *)
Visit(t) ==
  /\ pc[t] = "visit"
  /\ Advance(t)
  /\ Meet(t)
  /\ UNCHANGED <<nodes, owner, op, succ, mine, res>>

(* Mutant: find_first_if returns with next still locked. *)
FindKeepsLock(t) ==
  /\ pc[t] = "visit" /\ op[t] = "find_first_if"
  /\ res' = [res EXCEPT ![t] = Element(succ[t])]
  /\ Goto(t, "return")
  /\ Meet(t)
  /\ UNCHANGED <<nodes, owner, op, current, succ, mine>>

(* p has said yes: next->m_data is copied and the mutex of next released. *)
Find(t) ==
  /\ pc[t] = "visit" /\ op[t] = "find_first_if"
  /\ res' = [res EXCEPT ![t] = Element(succ[t])]
  /\ owner' = [owner EXCEPT ![succ[t]] = Null]
  /\ Goto(t, "return")
  /\ Meet(t)
  /\ UNCHANGED <<nodes, op, current, succ, mine>>

Return(t) ==
  /\ pc[t] = "return"
  /\ Leave(t)
  /\ UNCHANGED <<nodes, owner>>

(* remove_if goes past next and lets current go. *)
Keep(t) ==
  /\ pc[t] = "test"
  /\ owner' = [owner EXCEPT ![current[t]] = Null]
  /\ Advance(t)
  /\ Meet(t)
  /\ UNCHANGED <<nodes, op, succ, mine, res>>

(* old_next takes next out of the list. *)
Unlink(t) ==
  /\ pc[t] = "test"
  /\ mine' = [mine EXCEPT ![t] = next[current[t]]]
  /\ next' = [next EXCEPT ![current[t]] = next[succ[t]], ![succ[t]] = Null]
  /\ chain' = RemoveFirst(chain, succ[t])
  /\ Goto(t, "unlock_next")
  /\ Meet(t)
  /\ UNCHANGED <<data, live, owner, op, current, succ, res>>

UnlockNext(t) ==
  /\ pc[t] = "unlock_next"
  /\ owner' = [owner EXCEPT ![succ[t]] = Null]
  /\ Goto(t, "destroy")
  /\ UNCHANGED <<nodes, locals, met>>

(* Mutant: old_next is a raw pointer that nobody deletes. *)
DestroyLeaks(t) ==
  /\ pc[t] = "destroy"
  /\ mine' = [mine EXCEPT ![t] = Null]
  /\ Goto(t, "read_next")
  /\ UNCHANGED <<nodes, owner, op, current, succ, res, met>>

(* Mutant: after a removal the walk ends without looking any further. *)
DestroyStops(t) ==
  /\ pc[t] = "destroy"
  /\ live' = live \ {mine[t]}
  /\ mine' = [mine EXCEPT ![t] = Null]
  /\ owner' = [owner EXCEPT ![current[t]] = Null]
  /\ Goto(t, "return")
  /\ UNCHANGED <<next, data, chain, op, current, succ, res, met>>

(* The block ends and old_next deletes the node with its mutex. *)
Destroy(t) ==
  /\ pc[t] = "destroy"
  /\ live' = live \ {mine[t]}
  /\ mine' = [mine EXCEPT ![t] = Null]
  /\ Goto(t, "read_next")
  /\ UNCHANGED <<next, data, chain, owner, op, current, succ, res, met>>

(* f or p throws: every lock the call holds is released. *)
Throw(t) ==
  /\ pc[t] \in {"visit", "test"}
  /\ owner' = [n \in Place |-> IF owner[n] = t THEN Null ELSE owner[n]]
  /\ res' = [res EXCEPT ![t] = Thrown]
  /\ Goto(t, "return")
  /\ Meet(t)
  /\ UNCHANGED <<nodes, op, current, succ, mine>>

-----------------------------------------------------------------------------
Step(t) ==
  \/ LinkFront(t) \/ LockStart(t) \/ ReadNext(t) \/ EndOfList(t) \/ LockNext(t)
  \/ UnlockCurrent(t) \/ Visit(t) \/ Find(t) \/ Return(t) \/ Keep(t) \/ Unlink(t)
  \/ UnlockNext(t) \/ Destroy(t)

Call(t) == BeginPush(t) \/ BeginWalk(t) \/ Throw(t)

Next == \E t \in Thread : Step(t) \/ Call(t)

(* A thread inside a call keeps being scheduled, and a mutex is granted    *)
(* some time to a thread that finds it free again and again.               *)
Spec == Init /\ [][Next]_vars /\ \A t \in Thread : SF_vars(Step(t))

-----------------------------------------------------------------------------
Label == {"idle", "lock_start", "link", "read_next", "lock_next", "unlock", "visit", "return",
          "test", "unlock_next", "destroy"}

(* The type of every variable. *)
TypeOK ==
  /\ next \in [Place -> Node \cup {Null}]
  /\ data \in [Node -> Value \cup {None}]
  /\ live \subseteq Node
  /\ owner \in [Place -> Thread \cup {Null}]
  /\ pc \in [Thread -> Label]
  /\ op \in [Thread -> WalkOp \cup {"push_front", "none"}]
  /\ current \in [Thread -> Place]
  /\ succ \in [Thread -> Node \cup {Null}]
  /\ mine \in [Thread -> Node \cup {Null}]
  /\ res \in [Thread -> [id : Node, value : Value] \cup {None, Thrown}]
  /\ chain \in Seq(Node)
  /\ met \in [Thread -> [id : Node, value : Value] \cup {None}]
  /\ \A t \in Thread : pc[t] \in {"lock_next", "unlock", "visit", "test"} => succ[t] \in Node

Linked == ToSet(chain)

(* m_next leads from m_head through every listed node, once each, to the   *)
(* null pointer, between any two steps of any threads.                     *)
ListIntact ==
  /\ next[Start] = IF chain = <<>> THEN Null ELSE chain[1]
  /\ \A i \in DOMAIN chain :
       next[chain[i]] = IF i = Len(chain) THEN Null ELSE chain[i + 1]
  /\ \A i, j \in DOMAIN chain : chain[i] = chain[j] => i = j

(* An allocated node is in the list or owned by exactly one thread.        *)
Ownership ==
  /\ \A n \in Node : n \in live <=> n \in Linked \/ \E t \in Thread : mine[t] = n
  /\ \A t \in Thread : mine[t] \notin Linked
  /\ \A t, u \in Thread : mine[t] = mine[u] /\ mine[t] # Null => t = u

(* The nodes the next step of a thread locks, unlocks, reads or writes. *)
Touches(t) ==
  CASE pc[t] = "link"                       -> {mine[t]}
    [] pc[t] \in {"read_next", "unlock"}    -> {current[t]}
    [] pc[t] \in {"lock_next", "test"}      -> {current[t], succ[t]}
    [] pc[t] \in {"visit", "unlock_next"}   -> {succ[t]}
    [] OTHER                                -> {}

(* A node is never deleted while its mutex is held or while some thread,   *)
(* possibly blocked on that mutex, is going to touch it; and no new node   *)
(* appears with its mutex locked.                                          *)
NodeOutlivesItsMutex ==
  /\ \A t \in Thread : Touches(t) \subseteq live \cup {Start}
  /\ \A n \in Node \ live : owner[n] = Null
  /\ \A t \in Thread : pc[t] = "destroy" => owner[mine[t]] = Null

-----------------------------------------------------------------------------
(* Why hand over hand works: the inductive invariant.                      *)
(* The mutexes a thread holds. *)
Locks(t) ==
  CASE pc[t] = "link"                                -> {Start}
    [] pc[t] \in {"read_next", "lock_next", "destroy"} -> {current[t]}
    [] pc[t] \in {"unlock", "test", "unlock_next"}    -> {current[t], succ[t]}
    [] pc[t] = "visit"                               -> {succ[t]}
    [] OTHER                                         -> {}

LocksHeld == \A t \in Thread, n \in Place : owner[n] = t <=> n \in Locks(t)

(* The node a walk stands on cannot be unlinked, because that takes its    *)
(* mutex, and neither can the one after it, because that takes the mutex   *)
(* of the node before: a pointer read under a mutex stays good.            *)
WalkView ==
  \A t \in Thread :
    /\ pc[t] \in {"read_next", "lock_next", "unlock", "test", "unlock_next", "destroy"} =>
         current[t] \in Linked \cup {Start}
    /\ pc[t] \in {"lock_next", "unlock", "test"} =>
         next[current[t]] = succ[t] /\ succ[t] \in Linked
    /\ pc[t] = "visit" => succ[t] \in Linked
    /\ pc[t] \in {"unlock_next", "destroy"} => mine[t] = succ[t]

(* What the locals of a call hold at each of its labels. *)
LocalView ==
  \A t \in Thread :
    /\ mine[t] # Null <=> op[t] = "push_front" \/ pc[t] \in {"unlock_next", "destroy"}
    /\ pc[t] # "unlock_next" /\ mine[t] # Null => owner[mine[t]] = Null
    /\ op[t] = "none" <=> pc[t] = "idle"
    /\ op[t] = "push_front" <=> pc[t] = "link" \/ (pc[t] = "lock_start" /\ mine[t] # Null)
    /\ pc[t] \in {"test", "unlock_next", "destroy"} => op[t] = "remove_if"
    /\ pc[t] \in {"unlock", "visit"} => op[t] \in {"for_each", "find_first_if"}
    /\ pc[t] \in {"idle", "lock_start", "link"} => current[t] = Start /\ met[t] = None
    /\ res[t] # None <=> pc[t] = "return"

LiveData ==
  /\ \A n \in live : data[n] \in Value
  /\ \A n \in Node \ live : owner[n] = Null

IInv == TypeOK /\ ListIntact /\ Ownership /\ LocksHeld /\ WalkView /\ LocalView /\ LiveData

-----------------------------------------------------------------------------
(* The list its callers see. *)
Items(s)    == [i \in DOMAIN s |-> Element(s[i])]
Position(n) == CHOOSE i \in DOMAIN chain : chain[i] = n
After(n)    == IF n = Start THEN chain ELSE SubSeq(chain, Position(n) + 1, Len(chain))

InWalk(t)  == op[t] \in WalkOp /\ pc[t] # "lock_start"
Rest(t)    ==
  CASE ~InWalk(t) \/ pc[t] = "return" -> <<>>
    [] pc[t] \in {"visit", "test"}    -> <<succ[t]>> \o After(succ[t])
    [] OTHER                          -> After(current[t])

itemsBar == Items(chain)
opBar    == [t \in Thread |-> IF InWalk(t) THEN op[t] ELSE "none"]
restBar  == [t \in Thread |-> Items(Rest(t))]

AL == INSTANCE AbstractList
        WITH Id <- Node, items <- itemsBar, op <- opBar, rest <- restBar,
             hand <- res

(* Walks do not disturb one another: whatever pushes and removals happen   *)
(* around it, a walk meets the elements it began with in order, once each, *)
(* except those removed ahead of it, and find_first_if returns the        *)
(* element its predicate accepted.                                         *)
WalksAreExact == AL!Spec

(* Every call returns, although walks wait for one another node by node.   *)
CallsReturn == \A t \in Thread : pc[t] # "idle" ~> pc[t] = "idle"
=============================================================================
