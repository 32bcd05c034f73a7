-------------------------- MODULE PoolSorterProofs --------------------------
(***************************************************************************)
(* What PoolSorter guarantees for any number of workers and any list: no   *)
(* item is in two unsplit chunks, so no task is run twice, no promise that *)
(* a sort depends on is broken, every result is its chunk in order, and a  *)
(* sort that returns leaves the pool at rest.                              *)
(***************************************************************************)
EXTENDS PoolSorter, FiniteSetTheorems, SequenceTheorems, TLAPS

(***************************************************************************)
(* The inductive invariant                                                 *)
(***************************************************************************)
(* The items of chunk that go into the task of pivot p, and the items that
   the call c sorts itself. *)
Less(chunk, p) == {i \in chunk : Key[i] < Key[p]}
Higher(c)      == c.chunk \ (lower[c.pivot] \cup {c.pivot})

(* A task is queued or running; an item is the pivot of a call; or it is in a
   chunk that has not been split, of a call or of a queued task. *)
Queued  == {i \in Item : \E q \in Queue : \E n \in 1 .. Len(queue[q]) : queue[q][n] = i}
Running == {i \in Item : \E t \in Thread : \E n \in 1 .. Len(stack[t]) : stack[t][n].task = i}
Pivots  == {i \in Item : \E t \in Thread : \E n \in 1 .. Len(stack[t]) : stack[t][n].pivot = i}
Unsplit == {i \in Item :
              \/ \E j \in Queued : i \in lower[j]
              \/ \E t \in Thread : \E n \in 1 .. Len(stack[t]) :
                   stack[t][n].at = "split" /\ i \in stack[t][n].chunk}

(* Nothing is left to be done for these items, nor ever will be again. *)
Finished == Item \ (Queued \cup Running \cup Pivots \cup Unsplit)

(* TypeOK, but for what a scan means. *)
Typing ==
  /\ kind \in Kind
  /\ queue \in [Queue -> Seq(Item)]
  /\ lower \in [Item -> SUBSET Item]
  /\ future \in [Item -> Outcome]
  /\ stack \in [Thread -> Seq(CallType)]
  /\ scan \in [Thread -> Nat]
  /\ pc \in [Thread -> {"new", "loop", "exit", "construct", "sort", "destroy", "join",
                        "end", "terminated"}]
  /\ m_done \in BOOLEAN
  /\ output \in Outcome

(* Where a thread may scan, and how far. *)
Scanning == \A t \in Thread : scan[t] # 0 =>
  /\ scan[t] <= Len(Search(t))
  /\ stack[t] = <<>> \/ At(t, "wait")
  /\ t = Main => stack[t] # <<>>
  /\ t # Main => pc[t] = "loop"

(* The calls below the topmost one wait for the one above, which they have
   called, or run in run_pending_task. *)
Nesting(t, n) ==
  /\ n = Len(stack[t]) => stack[t][n].at # "called"
  /\ n < Len(stack[t]) =>
       /\ stack[t][n].at \in {"called", "wait"}
       /\ stack[t][n].at = "called" <=> stack[t][n + 1].task = NoItem
  /\ n = 1 => (stack[t][n].task = NoItem <=> t = Main)

(* What a call has been given to sort, and what it has of it. *)
Chunks(t, n) ==
  /\ stack[t][n].at = "split" <=> stack[t][n].pivot = NoItem
  /\ stack[t][n].at # "split" =>
       /\ stack[t][n].pivot \in stack[t][n].chunk
       /\ lower[stack[t][n].pivot] = Less(stack[t][n].chunk, stack[t][n].pivot)
  /\ stack[t][n].task # NoItem => stack[t][n].chunk = lower[stack[t][n].task]
  /\ stack[t][n].task = NoItem =>
       stack[t][n].chunk = IF n = 1 THEN Item ELSE Higher(stack[t][n - 1])
  /\ stack[t][n].at = "wait" =>
       /\ Sorts(stack[t][n].higher, Higher(stack[t][n]))
       /\ Higher(stack[t][n]) \subseteq Finished

Frames == \A t \in Thread : \A n \in 1 .. Len(stack[t]) : Nesting(t, n) /\ Chunks(t, n)

(* A task is queued once, and run once; an item is a pivot once. *)
Unique ==
  /\ \A q, r \in Queue : \A m \in 1 .. Len(queue[q]), n \in 1 .. Len(queue[r]) :
       queue[q][m] = queue[r][n] => q = r /\ m = n
  /\ \A t, u \in Thread : \A m \in 1 .. Len(stack[t]), n \in 1 .. Len(stack[u]) :
       /\ stack[t][m].task = stack[u][n].task /\ stack[t][m].task # NoItem => t = u /\ m = n
       /\ stack[t][m].pivot = stack[u][n].pivot /\ stack[t][m].pivot # NoItem => t = u /\ m = n

(* The chunks that have not been split have no item in common. *)
Apart ==
  /\ \A i, j \in Queued : i # j => lower[i] \cap lower[j] = {}
  /\ \A t \in Thread : \A m \in 1 .. Len(stack[t]) : stack[t][m].at = "split" =>
       /\ \A i \in Queued : lower[i] \cap stack[t][m].chunk = {}
       /\ \A u \in Thread : \A n \in 1 .. Len(stack[u]) :
            stack[u][n].at = "split" /\ ~(t = u /\ m = n) =>
              stack[t][m].chunk \cap stack[u][n].chunk = {}

(* An item moves on: from a chunk to a pivot with its task in a queue, from
   there to a thread, and then its future has a result. *)
Lifecycle ==
  /\ Unsplit \cap (Queued \cup Running \cup Pivots) = {}
  /\ Queued \cap Running = {}
  /\ \A i \in Unsplit \cup Queued \cup Running : future[i] = Pending
  /\ \A i \in Pivots : future[i] = Pending => i \in Queued \cup Running
  /\ \A i \in Pivots : future[i] # Broken
  /\ \A i \in Item : future[i].state = "ready" =>
       Sorts(future[i].list, lower[i]) /\ lower[i] \subseteq Finished

(* A task in the queue of a worker that is still wanted is wanted by it. *)
OwnTasks == \A w \in Worker : \A m \in 1 .. Len(queue[w]) :
  \A t \in Thread : \A n \in 1 .. Len(stack[t]) :
    stack[t][n].pivot = queue[w][m] => t = w

(* The phases of the pool, and when the threads are in a sort. *)
Phases ==
  /\ pc[Main] \in {"construct", "sort", "destroy", "join", "end", "terminated"}
  /\ pc[Main] = "sort" <=> stack[Main] # <<>>
  /\ pc[Main] \in {"construct", "sort", "terminated"} <=> output = Pending
  /\ pc[Main] \in {"join", "end"} <=> m_done
  /\ pc[Main] = "construct" =>
       /\ \A q \in Queue : queue[q] = <<>>
       /\ \A t \in Thread : stack[t] = <<>>
       /\ \A i \in Item : future[i] = Pending
  /\ \A w \in Worker : stack[w] # <<>> => pc[w] = "loop"
  /\ output.state = "ready" => Sorts(output.list, Item) /\ Item \subseteq Finished

IInv == Typing /\ Scanning /\ Frames /\ Unique /\ Apart /\ Lifecycle /\ OwnTasks /\ Phases

(***************************************************************************)
(* Constants, results and types                                            *)
(***************************************************************************)
LEMMA Constants ==
  /\ Workers \in Nat /\ Length \in Nat \ {0}
  /\ Main \in Thread /\ Main \notin Worker /\ Worker \subseteq Thread
  /\ Pool \in Queue /\ Pool \notin Worker /\ Worker \subseteq Queue
  /\ \A t \in Thread : t # Main => t \in Worker
  /\ \A q \in Queue : q # Pool => q \in Worker
  /\ NoItem \notin Item
  /\ \A i, j \in Item : Key[i] \in Nat
BY PoolAssumption DEF Main, Worker, Thread, Pool, Queue, NoItem, Item

(* Results are told apart by their state. *)
LEMMA Outcomes ==
  /\ Pending.state = "pending" /\ Failed.state = "failed" /\ Broken.state = "broken"
  /\ Pending \in Outcome /\ Failed \in Outcome /\ Broken \in Outcome
  /\ Pending # Failed /\ Pending # Broken /\ Failed # Broken
  /\ \A l \in Seq(Item) : /\ Value(l).state = "ready" /\ Value(l).list = l
                          /\ Value(l) \in Outcome
                          /\ Value(l) \notin {Pending, Failed, Broken}
<1>1. <<>> \in Seq(Item)
  BY EmptySeq
<1>2. /\ Pending.state = "pending" /\ Failed.state = "failed" /\ Broken.state = "broken"
      /\ \A l : Value(l).state = "ready" /\ Value(l).list = l
  BY DEF Pending, Failed, Broken, Value
<1>3. Pending # Failed /\ Pending # Broken /\ Failed # Broken
  BY <1>2
<1>4. \A l : Value(l) \notin {Pending, Failed, Broken}
  BY <1>2
<1>5. Pending \in Outcome /\ Failed \in Outcome /\ Broken \in Outcome
  BY <1>1 DEF Pending, Failed, Broken, Outcome
<1>6. \A l \in Seq(Item) : Value(l) \in Outcome
  BY DEF Value, Outcome
<1> QED BY <1>2, <1>3, <1>4, <1>5, <1>6

(* Places in the stacks and queues. *)
LEMMA Places ==
  ASSUME Typing
  PROVE  /\ \A t \in Thread :
              /\ stack[t] \in Seq(CallType) /\ Len(stack[t]) \in Nat
              /\ stack[t] = <<>> <=> Len(stack[t]) = 0
              /\ \A n \in 1 .. Len(stack[t]) : stack[t][n] \in CallType
         /\ \A q \in Queue :
              /\ queue[q] \in Seq(Item) /\ Len(queue[q]) \in Nat
              /\ queue[q] = <<>> <=> Len(queue[q]) = 0
              /\ \A n \in 1 .. Len(queue[q]) : queue[q][n] \in Item
<1>1. ASSUME NEW t \in Thread
      PROVE  /\ stack[t] \in Seq(CallType) /\ Len(stack[t]) \in Nat
             /\ stack[t] = <<>> <=> Len(stack[t]) = 0
             /\ \A n \in 1 .. Len(stack[t]) : stack[t][n] \in CallType
  <2>1. stack[t] \in Seq(CallType)
    BY DEF Typing
  <2> QED BY <2>1, EmptySeq, LenProperties, ElementOfSeq
<1>2. ASSUME NEW q \in Queue
      PROVE  /\ queue[q] \in Seq(Item) /\ Len(queue[q]) \in Nat
             /\ queue[q] = <<>> <=> Len(queue[q]) = 0
             /\ \A n \in 1 .. Len(queue[q]) : queue[q][n] \in Item
  <2>1. queue[q] \in Seq(Item)
    BY DEF Typing
  <2> QED BY <2>1, EmptySeq, LenProperties, ElementOfSeq
<1> QED BY <1>1, <1>2

(* The fields of a call. *)
LEMMA CallFields ==
  ASSUME NEW c \in CallType
  PROVE  /\ c.at \in {"split", "called", "wait", "unwind"}
         /\ c.task \in Item \cup {NoItem} /\ c.chunk \in SUBSET Item
         /\ c.pivot \in Item \cup {NoItem} /\ c.higher \in Seq(Item)
BY DEF CallType

LEMMA NewCalls ==
  ASSUME NEW task \in Item \cup {NoItem}, NEW chunk \in SUBSET Item
  PROVE  /\ Call(task, chunk) \in CallType
         /\ Call(task, chunk).at = "split" /\ Call(task, chunk).task = task
         /\ Call(task, chunk).chunk = chunk /\ Call(task, chunk).pivot = NoItem
<1>1. <<>> \in Seq(Item)
  BY EmptySeq
<1> QED BY <1>1 DEF Call, CallType

(* Where a thread looks for a task. *)
LEMMA SearchWell ==
  ASSUME kind \in Kind, NEW t \in Thread
  PROVE  /\ Len(Search(t)) \in 1 .. Workers + 2
         /\ \A k \in 1 .. Len(Search(t)) : Search(t)[k] \in Queue
<1> DEFINE own   == IF kind = "shared" \/ t = Main THEN <<>> ELSE <<t>>
           other == IF kind = "stealing" THEN OtherQueues(t) ELSE <<>>
<1>1. own \in Seq(Queue) /\ Len(own) \in 0 .. 1
  <2>1. CASE kind = "shared" \/ t = Main
    BY <2>1, EmptySeq
  <2>2. CASE ~(kind = "shared" \/ t = Main)
    <3>1. t \in Queue /\ own = <<t>>
      BY <2>2, Constants
    <3> QED BY <3>1
  <2> QED BY <2>1, <2>2
<1>2. other \in Seq(Queue) /\ Len(other) \in 0 .. Workers
  <2>1. CASE kind # "stealing"
    BY <2>1, EmptySeq, Constants
  <2>2. CASE kind = "stealing"
    <3> DEFINE from == IF t = Main THEN 0 ELSE t
    <3>1. from \in Nat
      BY Constants DEF Worker
    <3> HIDE DEF from
    <3>2. \A i \in 1 .. Workers : (from + i) % Workers \in Queue
      <4> TAKE i \in 1 .. Workers
      <4>1. Workers \in Nat \ {0} /\ from + i \in Nat
        BY <3>1, Constants
      <4>2. (from + i) % Workers \in 0 .. Workers - 1
        BY <4>1
      <4> QED BY <4>2 DEF Queue, Worker
    <3>3. other = [i \in 1 .. Workers |-> (from + i) % Workers]
      BY <2>2 DEF OtherQueues, from
    <3>4. other \in [1 .. Workers -> Queue]
      BY <3>2, <3>3
    <3> QED BY <3>4, <3>3, Constants
  <2> QED BY <2>1, <2>2
<1>3. <<Pool>> \in Seq(Queue) /\ Len(<<Pool>>) = 1
  BY Constants
<1>4. Search(t) = (own \o <<Pool>>) \o other
  BY DEF Search
<1> HIDE DEF own, other
<1>5. own \o <<Pool>> \in Seq(Queue) /\ Len(own \o <<Pool>>) = Len(own) + 1
  BY <1>1, <1>3, ConcatProperties
<1>6. Search(t) \in Seq(Queue) /\ Len(Search(t)) = Len(own) + 1 + Len(other)
  BY <1>2, <1>4, <1>5, ConcatProperties
<1>7. \A k \in 1 .. Len(Search(t)) : Search(t)[k] \in Queue
  BY <1>6, ElementOfSeq
<1>8. Len(Search(t)) \in 1 .. Workers + 2
  <2>1. Len(Search(t)) = Len(own) + 1 + Len(other) /\ Workers \in Nat
    BY <1>6, Constants
  <2>2. \A x \in 0 .. 1, y \in 0 .. Workers : x + 1 + y \in 1 .. Workers + 2
    BY Constants
  <2>3. Len(own) + 1 + Len(other) \in 1 .. Workers + 2
    BY <2>2, <1>1, <1>2
  <2> QED BY <2>1, <2>3
<1> QED BY <1>7, <1>8

(***************************************************************************)
(* Putting a sorted chunk together                                         *)
(***************************************************************************)
(* Two sets without a common element. *)
LEMMA CountBoth ==
  ASSUME NEW S, NEW T, IsFiniteSet(S), IsFiniteSet(T), S \cap T = {}
  PROVE  Cardinality(S \cup T) = Cardinality(S) + Cardinality(T)
<1>1. Cardinality(S \cap T) = 0
  BY FS_EmptySet
<1>2. Cardinality(S) \in Nat /\ Cardinality(T) \in Nat
  BY FS_CardinalityType
<1>3. Cardinality(S \cup T) = Cardinality(S) + Cardinality(T) - Cardinality(S \cap T)
  BY FS_Union
<1> QED BY <1>1, <1>2, <1>3

LEMMA ItemsFinite == \A S \in SUBSET Item : IsFiniteSet(S) /\ Cardinality(S) \in Nat
<1>1. IsFiniteSet(Item)
  BY FS_Interval, Constants DEF Item
<1> QED BY <1>1, FS_Subset, FS_CardinalityType

(* What Sorts says of each place. *)
LEMMA SortsAt ==
  ASSUME NEW list \in Seq(Item), NEW chunk
  PROVE  Sorts(list, chunk) <=>
           /\ Len(list) = Cardinality(chunk)
           /\ \A i \in 1 .. Len(list) : list[i] \in chunk
           /\ \A x \in chunk : \E i \in 1 .. Len(list) : list[i] = x
           /\ \A i, j \in 1 .. Len(list) : i < j => Key[list[i]] <= Key[list[j]]
<1>1. DOMAIN list = 1 .. Len(list)
  BY LenProperties
<1>2. ToSet(list) = {list[i] : i \in 1 .. Len(list)}
  BY <1>1 DEF ToSet
<1>3. ToSet(list) = chunk <=> /\ \A i \in 1 .. Len(list) : list[i] \in chunk
                              /\ \A x \in chunk : \E i \in 1 .. Len(list) : list[i] = x
  BY <1>2
<1>4. IsSorted(list, LAMBDA a, b : Key[a] <= Key[b]) <=>
        \A i, j \in 1 .. Len(list) : i < j => Key[list[i]] <= Key[list[j]]
  BY DEF IsSorted
<1> QED BY <1>3, <1>4 DEF Sorts

(* The empty chunk. *)
LEMMA SortsNothing == Sorts(<<>>, {})
<1>1. <<>> \in Seq(Item) /\ Len(<<>>) = 0 /\ Cardinality({}) = 0
  BY EmptySeq, FS_EmptySet
<1>2. 1 .. Len(<<>>) = {}
  BY <1>1
<1> QED BY <1>1, <1>2, SortsAt

(* The lower part, the pivot and the higher part. *)
LEMMA SortsBoth ==
  ASSUME NEW chunk \in SUBSET Item, NEW p \in chunk, NEW rest, rest = chunk \ (Less(chunk, p) \cup {p}),
         NEW low \in Seq(Item), NEW high \in Seq(Item),
         Sorts(low, Less(chunk, p)), Sorts(high, rest)
  PROVE  /\ low \o <<p>> \o high \in Seq(Item)
         /\ Sorts(low \o <<p>> \o high, chunk)
<1> DEFINE less == Less(chunk, p)
           s == low \o <<p>> \o high
           a == Len(low)
           b == Len(high)
<1>1. /\ less \in SUBSET Item /\ rest \in SUBSET Item /\ p \in Item /\ p \notin less /\ p \notin rest
      /\ less \cap rest = {} /\ chunk = (less \cup {p}) \cup rest
  <2>1. p \notin less
    BY Constants DEF Less
  <2> QED BY <2>1 DEF Less
<1>2. a \in Nat /\ b \in Nat
  BY LenProperties
<1>3. <<p>> \in Seq(Item) /\ Len(<<p>>) = 1
  BY <1>1
<1>4. /\ low \o <<p>> \in Seq(Item) /\ Len(low \o <<p>>) = a + 1
      /\ \A i \in 1 .. a + 1 : (low \o <<p>>)[i] = IF i <= a THEN low[i] ELSE p
  <2>1. /\ low \o <<p>> \in Seq(Item) /\ Len(low \o <<p>>) = a + 1
        /\ \A i \in 1 .. a + 1 : (low \o <<p>>)[i] = IF i <= a THEN low[i] ELSE <<p>>[i - a]
    BY <1>3, ConcatProperties
  <2>2. \A i \in 1 .. a + 1 : ~(i <= a) => i - a = 1
    BY <1>2
  <2> QED BY <2>1, <2>2
<1>5. /\ s \in Seq(Item) /\ Len(s) = a + 1 + b
      /\ \A i \in 1 .. a + 1 + b : s[i] = IF i <= a + 1 THEN (low \o <<p>>)[i] ELSE high[i - (a + 1)]
  BY <1>4, ConcatProperties
<1>6. /\ \A i \in 1 .. a : s[i] = low[i]
      /\ s[a + 1] = p
      /\ \A i \in a + 2 .. a + 1 + b : i - (a + 1) \in 1 .. b /\ s[i] = high[i - (a + 1)]
  BY <1>2, <1>4, <1>5
<1>7. /\ a = Cardinality(less) /\ b = Cardinality(rest)
      /\ \A i \in 1 .. a : low[i] \in less
      /\ \A i \in 1 .. b : high[i] \in rest
      /\ \A x \in less : \E i \in 1 .. a : low[i] = x
      /\ \A x \in rest : \E i \in 1 .. b : high[i] = x
      /\ \A i, j \in 1 .. a : i < j => Key[low[i]] <= Key[low[j]]
      /\ \A i, j \in 1 .. b : i < j => Key[high[i]] <= Key[high[j]]
  BY SortsAt
<1>8. Cardinality(chunk) = a + 1 + b
  <2>1. Cardinality(less \cup {p}) = a + 1
    BY <1>1, <1>7, ItemsFinite, FS_AddElement
  <2>2. Cardinality(chunk) = Cardinality(less \cup {p}) + Cardinality(rest)
    <3>1. less \cup {p} \in SUBSET Item /\ (less \cup {p}) \cap rest = {}
      BY <1>1
    <3> QED BY <3>1, <1>1, ItemsFinite, CountBoth
  <2> QED BY <2>1, <2>2, <1>7
<1> DEFINE Part(i) == IF i <= a THEN less ELSE IF i = a + 1 THEN {p} ELSE rest
<1>9. \A i \in 1 .. a + 1 + b : s[i] \in Part(i)
  <2> TAKE i \in 1 .. a + 1 + b
  <2>1. CASE i <= a
    BY <2>1, <1>2, <1>6, <1>7
  <2>2. CASE i = a + 1
    BY <2>2, <1>2, <1>6
  <2>3. CASE i \in a + 2 .. a + 1 + b
    <3>1. s[i] \in rest
      BY <2>3, <1>6, <1>7
    <3>2. ~(i <= a) /\ i # a + 1
      BY <2>3, <1>2
    <3> QED BY <3>1, <3>2
  <2> QED BY <2>1, <2>2, <2>3, <1>2
<1> HIDE DEF s, a, b, less
<1>10. \A i \in 1 .. a + 1 + b : s[i] \in chunk
  BY <1>1, <1>9
<1>11. \A x \in chunk : \E i \in 1 .. a + 1 + b : s[i] = x
  <2> TAKE x \in chunk
  <2>1. CASE x \in less
    <3>1. PICK i \in 1 .. a : low[i] = x
      BY <2>1, <1>7
    <3> QED BY <3>1, <1>2, <1>6
  <2>2. CASE x = p
    <3>1. a + 1 \in 1 .. a + 1 + b
      BY <1>2
    <3> QED BY <2>2, <3>1, <1>6
  <2>3. CASE x \in rest
    <3>1. PICK i \in 1 .. b : high[i] = x
      BY <2>3, <1>7
    <3>2. a + 1 + i \in a + 2 .. a + 1 + b /\ (a + 1 + i) - (a + 1) = i
      BY <1>2
    <3>3. s[a + 1 + i] = x
      BY <3>1, <3>2, <1>6
    <3>4. a + 1 + i \in 1 .. a + 1 + b
      BY <3>2, <1>2
    <3> QED BY <3>3, <3>4
  <2> QED BY <2>1, <2>2, <2>3, <1>1
<1>12. \A i, j \in 1 .. a + 1 + b : i < j => Key[s[i]] <= Key[s[j]]
  <2> SUFFICES ASSUME NEW i \in 1 .. a + 1 + b, NEW j \in 1 .. a + 1 + b, i < j
               PROVE  Key[s[i]] <= Key[s[j]]
    OBVIOUS
  <2>1. Key[s[i]] \in Nat /\ Key[s[j]] \in Nat /\ Key[p] \in Nat
    BY <1>1, <1>10, Constants
  <2>2. /\ \A x \in less : Key[x] \in Nat /\ Key[x] < Key[p]
        /\ \A x \in rest : Key[x] \in Nat /\ ~(Key[x] < Key[p])
    BY <1>1, Constants DEF less, Less
  <2>3. CASE i <= a /\ j <= a
    <3>1. i \in 1 .. a /\ j \in 1 .. a
      BY <2>3, <1>2
    <3>2. s[i] = low[i] /\ s[j] = low[j]
      BY <3>1, <1>6
    <3>3. \A k, l \in 1 .. a : k < l => Key[low[k]] <= Key[low[l]]
      BY <1>7
    <3> QED BY <3>1, <3>2, <3>3
  <2>4. CASE i <= a /\ ~(j <= a)
    <3>1. s[i] \in less /\ (s[j] = p \/ s[j] \in rest)
      BY <2>4, <1>9
    <3> QED BY <3>1, <2>1, <2>2
  <2>5. CASE i = a + 1
    <3>1. s[i] = p /\ s[j] \in rest
      BY <2>5, <1>2, <1>6, <1>9
    <3> QED BY <3>1, <2>1, <2>2
  <2>6. CASE a + 1 < i
    <3>1. i - (a + 1) \in 1 .. b /\ j - (a + 1) \in 1 .. b /\ i - (a + 1) < j - (a + 1)
      BY <2>6, <1>2
    <3>2. i \in a + 2 .. a + 1 + b /\ j \in a + 2 .. a + 1 + b
      BY <2>6, <1>2
    <3>3. s[i] = high[i - (a + 1)] /\ s[j] = high[j - (a + 1)]
      BY <3>2, <1>6
    <3>4. \A k, l \in 1 .. b : k < l => Key[high[k]] <= Key[high[l]]
      BY <1>7
    <3> HIDE DEF a, b
    <3> QED BY <3>1, <3>3, <3>4
  <2> QED BY <2>3, <2>4, <2>5, <2>6, <1>2
<1>13. Sorts(s, chunk)
  BY <1>5, <1>8, <1>10, <1>11, <1>12, SortsAt
<1> QED BY <1>5, <1>13 DEF s

(***************************************************************************)
(* The end of a call                                                       *)
(***************************************************************************)
(* The invariant but for the phases and the scans. *)
Sorting == Frames /\ Unique /\ Apart /\ Lifecycle /\ OwnTasks

(* The topmost call has its result: it fails, or nothing is left of its
   chunk but the pivot, whose task is done. *)
Delivers(t, r) ==
  \/ r = Failed
  \/ /\ \E l \in Seq(Item) : r = Value(l) /\ Sorts(l, Top(t).chunk)
     /\ Top(t).chunk \subseteq Finished \cup {Top(t).pivot}
     /\ Top(t).pivot \notin Queued \cup Running

(* What Return does to the stack, place by place. *)
LEMMA ReturnShape ==
  ASSUME Typing, NEW t \in Thread, stack[t] # <<>>, NEW r \in Outcome, Return(t, r)
  PROVE  /\ stack' \in [Thread -> Seq(CallType)]
         /\ \A u \in Thread : u # t => stack'[u] = stack[u]
         /\ Len(stack'[t]) = Len(stack[t]) - 1
         /\ \A n \in 1 .. Len(stack[t]) - 1 :
              /\ stack'[t][n].task = stack[t][n].task
              /\ stack'[t][n].chunk = stack[t][n].chunk
              /\ stack'[t][n].pivot = stack[t][n].pivot
              /\ n < Len(stack[t]) - 1 \/ Top(t).task # NoItem => stack'[t][n] = stack[t][n]
              /\ n = Len(stack[t]) - 1 /\ Top(t).task = NoItem =>
                   /\ stack'[t][n].at = IF r = Failed THEN "unwind" ELSE "wait"
                   /\ stack'[t][n].higher = r.list
<1> DEFINE m     == Len(stack[t])
           rest  == Front(stack[t])
           inner == Top(t).task = NoItem /\ rest # <<>>
           at    == IF r = Failed THEN "unwind" ELSE "wait"
           under == [rest[Len(rest)] EXCEPT !.at = at, !.higher = r.list]
           new   == IF inner THEN [rest EXCEPT ![Len(rest)] = under] ELSE rest
<1>1. /\ stack[t] \in Seq(CallType) /\ m \in Nat \ {0}
      /\ \A n \in 1 .. m : stack[t][n] \in CallType
  BY Places
<1>2. /\ rest \in Seq(CallType) /\ Len(rest) = m - 1
      /\ \A n \in 1 .. m - 1 : rest[n] = stack[t][n]
  <2>1. /\ SubSeq(stack[t], 1, m - 1) \in Seq(CallType)
        /\ Len(SubSeq(stack[t], 1, m - 1)) = IF 1 <= m - 1 THEN m - 1 - 1 + 1 ELSE 0
        /\ \A n \in 1 .. m - 1 - 1 + 1 : SubSeq(stack[t], 1, m - 1)[n] = stack[t][1 + n - 1]
    <3>1. m - 1 \in Int /\ \A i \in 1 .. m - 1 : stack[t][i] \in CallType
      BY <1>1
    <3> QED BY <3>1, SubSeqProperties
  <2> QED BY <2>1, <1>1 DEF Front
<1>3. stack' = [stack EXCEPT ![t] = new]
  BY DEF Return
<1>4. rest # <<>> <=> m - 1 >= 1
  BY <1>1, <1>2, EmptySeq
<1>5. r.list \in Seq(Item) /\ at \in {"unwind", "wait"}
  BY DEF Outcome
<1>6. inner => /\ under \in CallType
               /\ under.task = rest[m - 1].task /\ under.chunk = rest[m - 1].chunk
               /\ under.pivot = rest[m - 1].pivot
               /\ under.at = at /\ under.higher = r.list
  <2> HAVE inner
  <2>1. rest[m - 1] \in CallType
    BY <1>1, <1>2, <1>4
  <2> QED BY <2>1, <1>2, <1>5 DEF CallType
<1>7. /\ new \in Seq(CallType) /\ Len(new) = m - 1
      /\ \A n \in 1 .. m - 1 : new[n] = IF inner /\ n = m - 1 THEN under ELSE rest[n]
  <2>1. CASE inner
    <3>1. Len(rest) \in 1 .. Len(rest) /\ under \in CallType
      BY <2>1, <1>2, <1>4, <1>1, <1>6
    <3> HIDE DEF under, rest
    <3>2. new = [rest EXCEPT ![Len(rest)] = under]
      BY <2>1
    <3>3. /\ new \in Seq(CallType) /\ Len(new) = Len(rest)
          /\ \A j \in 1 .. Len(rest) : new[j] = IF j = Len(rest) THEN under ELSE rest[j]
      BY <3>1, <3>2, <1>2, ExceptSeq
    <3> QED BY <3>3, <1>2, <2>1
  <2>2. CASE ~inner
    BY <2>2, <1>2
  <2> QED BY <2>1, <2>2
<1>8. stack' \in [Thread -> Seq(CallType)] /\ stack'[t] = new
  BY <1>3, <1>7 DEF Typing
<1>9. \A u \in Thread : u # t => stack'[u] = stack[u]
  BY <1>3 DEF Typing
<1>10. Top(t).task = NoItem /\ m - 1 >= 1 => inner
  BY <1>4
<1> HIDE DEF new, inner, under, rest, at
<1>11. ASSUME NEW n \in 1 .. m - 1
       PROVE  /\ new[n].task = stack[t][n].task
              /\ new[n].chunk = stack[t][n].chunk
              /\ new[n].pivot = stack[t][n].pivot
              /\ n < m - 1 \/ Top(t).task # NoItem => new[n] = stack[t][n]
              /\ n = m - 1 /\ Top(t).task = NoItem => new[n].at = at /\ new[n].higher = r.list
  <2>1. CASE inner /\ n = m - 1
    <3>1. new[n] = under /\ rest[n] = stack[t][n]
      BY <2>1, <1>7, <1>2
    <3>2. Top(t).task = NoItem
      BY <2>1 DEF inner
    <3>3. ~(n < m - 1)
      BY <2>1, <1>1
    <3> QED BY <3>1, <3>2, <3>3, <2>1, <1>6
  <2>2. CASE ~(inner /\ n = m - 1)
    <3>1. new[n] = stack[t][n]
      BY <2>2, <1>7, <1>2
    <3>2. ~(n = m - 1 /\ Top(t).task = NoItem)
      BY <2>2, <1>10, <1>1
    <3> QED BY <3>1, <3>2
  <2> QED BY <2>1, <2>2
<1> QED BY <1>7, <1>8, <1>9, <1>11 DEF at

(* The same for all threads, as far as the sets of items are concerned. *)
LEMMA ReturnPlaces ==
  ASSUME Typing, Frames, NEW t \in Thread, stack[t] # <<>>, NEW r \in Outcome, Return(t, r)
  PROVE  /\ Len(stack[t]) \in Nat \ {0}
         /\ Top(t) = stack[t][Len(stack[t])]
         /\ \A u \in Thread :
              /\ Len(stack[u]) \in Nat
              /\ 1 .. Len(stack'[u]) = IF u = t THEN (1 .. Len(stack[t])) \ {Len(stack[t])} ELSE 1 .. Len(stack[u])
              /\ \A n \in 1 .. Len(stack'[u]) :
                   /\ n \in 1 .. Len(stack[u])
                   /\ stack'[u][n].task = stack[u][n].task
                   /\ stack'[u][n].chunk = stack[u][n].chunk
                   /\ stack'[u][n].pivot = stack[u][n].pivot
                   /\ stack'[u][n].at = "split" <=> stack[u][n].at = "split"
<1>1. Len(stack[t]) \in Nat \ {0} /\ \A u \in Thread : Len(stack[u]) \in Nat
  BY Places
<1>2. Top(t) = stack[t][Len(stack[t])]
  BY DEF Top, Last
<1>3. ASSUME NEW u \in Thread
      PROVE  1 .. Len(stack'[u]) = IF u = t THEN (1 .. Len(stack[t])) \ {Len(stack[t])} ELSE 1 .. Len(stack[u])
  <2>1. CASE u = t
    <3>1. Len(stack'[t]) = Len(stack[t]) - 1
      BY ReturnShape
    <3> QED BY <2>1, <3>1, <1>1
  <2>2. CASE u # t
    <3>1. stack'[u] = stack[u]
      BY <2>2, ReturnShape
    <3> QED BY <2>2, <3>1
  <2> QED BY <2>1, <2>2
<1>4. ASSUME NEW u \in Thread, NEW n \in 1 .. Len(stack'[u])
      PROVE  /\ n \in 1 .. Len(stack[u])
             /\ stack'[u][n].task = stack[u][n].task
             /\ stack'[u][n].chunk = stack[u][n].chunk
             /\ stack'[u][n].pivot = stack[u][n].pivot
             /\ stack'[u][n].at = "split" <=> stack[u][n].at = "split"
  <2>1. CASE u = t
    <3>1. n \in 1 .. Len(stack[t]) - 1 /\ n \in 1 .. Len(stack[t])
      BY <2>1, <1>1, ReturnShape
    <3>2. /\ stack'[t][n].task = stack[t][n].task
          /\ stack'[t][n].chunk = stack[t][n].chunk
          /\ stack'[t][n].pivot = stack[t][n].pivot
      BY <3>1, ReturnShape
    <3>3. stack'[t][n].at = "split" <=> stack[t][n].at = "split"
      <4>1. CASE n < Len(stack[t]) - 1 \/ Top(t).task # NoItem
        BY <4>1, <3>1, ReturnShape
      <4>2. CASE ~(n < Len(stack[t]) - 1 \/ Top(t).task # NoItem)
        <5>1. n = Len(stack[t]) - 1 /\ Top(t).task = NoItem
          BY <4>2, <3>1, <1>1
        <5>2. stack'[t][n].at \in {"unwind", "wait"}
          BY <5>1, <3>1, ReturnShape
        <5>3. stack[t][n].at \in {"called", "wait"}
          <6>1. n < Len(stack[t])
            BY <5>1, <1>1
          <6> QED BY <3>1, <6>1 DEF Frames, Nesting
        <5> QED BY <5>2, <5>3
      <4> QED BY <4>1, <4>2
    <3> QED BY <2>1, <3>1, <3>2, <3>3
  <2>2. CASE u # t
    <3>1. stack'[u] = stack[u]
      BY <2>2, ReturnShape
    <3> QED BY <2>2, <3>1
  <2> QED BY <2>1, <2>2
<1> QED BY <1>1, <1>2, <1>3, <1>4

(* What becomes of the sets of items when a call ends. *)
LEMMA ReturnSets ==
  ASSUME Typing, Frames, Unique, NEW t \in Thread, stack[t] # <<>>, NEW r \in Outcome, Return(t, r),
         queue' = queue, lower' = lower
  PROVE  /\ Queued' = Queued
         /\ Running' = Running \ {Top(t).task}
         /\ Pivots' = Pivots \ {Top(t).pivot}
         /\ Unsplit' \subseteq Unsplit
         /\ Finished \subseteq Finished'
<1>1. Queued' = Queued
  BY DEF Queued
<1> DEFINE m == Len(stack[t])
<1>2. m \in 1 .. m /\ Top(t) = stack[t][m]
  <2>1. m \in Nat \ {0} /\ Top(t) = stack[t][m]
    BY ReturnPlaces
  <2> QED BY <2>1
<1>6. \A u \in Thread : \A n : n \in 1 .. Len(stack'[u]) <=> n \in 1 .. Len(stack[u]) /\ (u = t => n # m)
  <2> SUFFICES ASSUME NEW u \in Thread, NEW n
               PROVE  n \in 1 .. Len(stack'[u]) <=> n \in 1 .. Len(stack[u]) /\ (u = t => n # m)
    OBVIOUS
  <2>1. 1 .. Len(stack'[u]) = IF u = t THEN (1 .. m) \ {m} ELSE 1 .. Len(stack[u])
    BY ReturnPlaces
  <2> HIDE DEF m
  <2>2. CASE u = t
    <3>1. 1 .. Len(stack[u]) = 1 .. m
      BY <2>2 DEF m
    <3> QED BY <2>1, <2>2, <3>1
  <2>3. CASE u # t
    BY <2>1, <2>3
  <2> QED BY <2>2, <2>3
<1>7. \A u \in Thread : \A n \in 1 .. Len(stack'[u]) :
        /\ stack'[u][n].task = stack[u][n].task
        /\ stack'[u][n].pivot = stack[u][n].pivot
        /\ stack'[u][n].chunk = stack[u][n].chunk
        /\ stack'[u][n].at = "split" <=> stack[u][n].at = "split"
  BY ReturnPlaces
<1> HIDE DEF m
<1>3. Running' = Running \ {Top(t).task}
  <2>1. ASSUME NEW i \in Running' PROVE i \in Running /\ i # Top(t).task
    <3>1. PICK u \in Thread : \E n \in 1 .. Len(stack'[u]) : stack'[u][n].task = i
      BY DEF Running
    <3>2. PICK n \in 1 .. Len(stack'[u]) : stack'[u][n].task = i
      BY <3>1
    <3>3. n \in 1 .. Len(stack[u]) /\ stack[u][n].task = i /\ (u = t => n # m)
      BY <3>2, <1>6, <1>7
    <3>4. i \in Item /\ i # NoItem
      BY Constants DEF Running
    <3>5. i \in Running
      BY <3>3, <3>4 DEF Running
    <3>6. i # stack[t][m].task
      BY <3>3, <3>4, <1>2 DEF Unique, m
    <3> QED BY <3>5, <3>6, <1>2
  <2>2. ASSUME NEW i \in Running, i # Top(t).task PROVE i \in Running'
    <3>1. PICK u \in Thread : \E n \in 1 .. Len(stack[u]) : stack[u][n].task = i
      BY DEF Running
    <3>2. PICK n \in 1 .. Len(stack[u]) : stack[u][n].task = i
      BY <3>1
    <3>3. u = t => n # m
      BY <3>2, <2>2, <1>2
    <3>4. n \in 1 .. Len(stack'[u])
      BY <3>2, <3>3, <1>6
    <3>5. stack'[u][n].task = i
      BY <3>2, <3>4, <1>7
    <3> QED BY <3>4, <3>5 DEF Running
  <2> QED BY <2>1, <2>2
<1>4. Pivots' = Pivots \ {Top(t).pivot}
  <2>1. ASSUME NEW i \in Pivots' PROVE i \in Pivots /\ i # Top(t).pivot
    <3>1. PICK u \in Thread : \E n \in 1 .. Len(stack'[u]) : stack'[u][n].pivot = i
      BY DEF Pivots
    <3>2. PICK n \in 1 .. Len(stack'[u]) : stack'[u][n].pivot = i
      BY <3>1
    <3>3. n \in 1 .. Len(stack[u]) /\ stack[u][n].pivot = i /\ (u = t => n # m)
      BY <3>2, <1>6, <1>7
    <3>4. i \in Item /\ i # NoItem
      BY Constants DEF Pivots
    <3>5. i \in Pivots
      BY <3>3, <3>4 DEF Pivots
    <3>6. i # stack[t][m].pivot
      BY <3>3, <3>4, <1>2 DEF Unique, m
    <3> QED BY <3>5, <3>6, <1>2
  <2>2. ASSUME NEW i \in Pivots, i # Top(t).pivot PROVE i \in Pivots'
    <3>1. PICK u \in Thread : \E n \in 1 .. Len(stack[u]) : stack[u][n].pivot = i
      BY DEF Pivots
    <3>2. PICK n \in 1 .. Len(stack[u]) : stack[u][n].pivot = i
      BY <3>1
    <3>3. u = t => n # m
      BY <3>2, <2>2, <1>2
    <3>4. n \in 1 .. Len(stack'[u])
      BY <3>2, <3>3, <1>6
    <3>5. stack'[u][n].pivot = i
      BY <3>2, <3>4, <1>7
    <3> QED BY <3>4, <3>5 DEF Pivots
  <2> QED BY <2>1, <2>2
<1>5. Unsplit' \subseteq Unsplit
  <2> SUFFICES ASSUME NEW i \in Unsplit' PROVE i \in Unsplit
    OBVIOUS
  <2>1. i \in Item
    BY DEF Unsplit
  <2>2. CASE \E j \in Queued' : i \in lower'[j]
    BY <2>1, <2>2, <1>1 DEF Unsplit
  <2>3. CASE \E u \in Thread : \E n \in 1 .. Len(stack'[u]) :
               stack'[u][n].at = "split" /\ i \in stack'[u][n].chunk
    <3>1. PICK u \in Thread : \E n \in 1 .. Len(stack'[u]) :
               stack'[u][n].at = "split" /\ i \in stack'[u][n].chunk
      BY <2>3
    <3>2. PICK n \in 1 .. Len(stack'[u]) : stack'[u][n].at = "split" /\ i \in stack'[u][n].chunk
      BY <3>1
    <3>3. n \in 1 .. Len(stack[u]) /\ stack[u][n].at = "split" /\ i \in stack[u][n].chunk
      BY <3>2, <1>6, <1>7
    <3> QED BY <2>1, <3>3 DEF Unsplit
  <2> QED BY <2>2, <2>3 DEF Unsplit
<1> QED BY <1>1, <1>3, <1>4, <1>5 DEF Finished

(* A result is delivered to the call below, a future or the caller. *)
LEMMA DeliveredFinished ==
  ASSUME Typing, Frames, Unique, Lifecycle, NEW t \in Thread, stack[t] # <<>>, NEW r \in Outcome,
         Return(t, r), Delivers(t, r), queue' = queue, lower' = lower
  PROVE  r = Failed \/ /\ r.state = "ready" /\ r.list \in Seq(Item)
                       /\ Sorts(r.list, Top(t).chunk) /\ Top(t).chunk \subseteq Finished'
<1> SUFFICES ASSUME r # Failed
             PROVE  /\ r.state = "ready" /\ r.list \in Seq(Item)
                    /\ Sorts(r.list, Top(t).chunk) /\ Top(t).chunk \subseteq Finished'
  OBVIOUS
<1>1. PICK l \in Seq(Item) : r = Value(l) /\ Sorts(l, Top(t).chunk)
  BY DEF Delivers
<1>2. r.state = "ready" /\ r.list = l
  BY <1>1, Outcomes
<1>3. ASSUME NEW i \in Top(t).chunk PROVE i \in Finished'
  <2>1. i \in Finished \/ i = Top(t).pivot
    BY DEF Delivers
  <2>2. CASE i \in Finished
    BY <2>2, ReturnSets
  <2>3. CASE i = Top(t).pivot
    <3>1. Len(stack[t]) \in 1 .. Len(stack[t]) /\ Top(t) = stack[t][Len(stack[t])]
      <4>1. Len(stack[t]) \in Nat \ {0} /\ Top(t) = stack[t][Len(stack[t])]
        BY ReturnPlaces
      <4> QED BY <4>1
    <3>2. Top(t).chunk \subseteq Item
      BY <3>1, Places, CallFields
    <3>3. i \in Pivots
      BY <2>3, <3>1, <3>2 DEF Pivots
    <3>4. i \notin Unsplit
      BY <3>3 DEF Lifecycle
    <3>5. i \notin Queued /\ i \notin Running
      BY <2>3 DEF Delivers
    <3>6. i \notin Pivots' /\ i \notin Unsplit' /\ i \notin Queued' /\ i \notin Running'
      BY <2>3, <3>4, <3>5, ReturnSets
    <3> QED BY <3>2, <3>6 DEF Finished
  <2> QED BY <2>1, <2>2, <2>3
<1> QED BY <1>1, <1>2, <1>3

(* What a call has been given and has got is still the same. *)
LEMMA SameChunks ==
  ASSUME NEW u \in Thread, NEW n \in 1 .. Len(stack[u]), Chunks(u, n),
         stack'[u][n] = stack[u][n], Finished \subseteq Finished',
         lower'[stack[u][n].task] = lower[stack[u][n].task] \/ stack[u][n].task = NoItem,
         lower'[stack[u][n].pivot] = lower[stack[u][n].pivot] \/ stack[u][n].pivot = NoItem,
         n # 1 /\ stack[u][n].task = NoItem => Higher(stack[u][n - 1])' = Higher(stack[u][n - 1])
  PROVE  Chunks(u, n)'
<1>1. Higher(stack[u][n])' = Higher(stack[u][n]) \/ stack[u][n].pivot = NoItem
  BY DEF Higher
<1>2. stack[u][n].at = "split" <=> stack[u][n].pivot = NoItem
  BY DEF Chunks
<1>3. stack[u][n].at # "split" =>
        /\ stack[u][n].pivot \in stack[u][n].chunk
        /\ lower'[stack[u][n].pivot] = Less(stack[u][n].chunk, stack[u][n].pivot)
  BY <1>2 DEF Chunks
<1>4. stack[u][n].task # NoItem => stack[u][n].chunk = lower'[stack[u][n].task]
  BY DEF Chunks
<1>5. stack[u][n].task = NoItem =>
        stack[u][n].chunk = IF n = 1 THEN Item ELSE Higher(stack[u][n - 1])'
  BY DEF Chunks
<1>6. stack[u][n].at = "wait" =>
        /\ Sorts(stack[u][n].higher, Higher(stack[u][n])')
        /\ Higher(stack[u][n])' \subseteq Finished'
  BY <1>1, <1>2 DEF Chunks
<1> QED BY <1>2, <1>3, <1>4, <1>5, <1>6 DEF Chunks, Higher, Less

(* The call below one that it has called has a pivot. *)
LEMMA CallerHasPivot ==
  ASSUME Typing, Frames, NEW u \in Thread, NEW n \in 1 .. Len(stack[u]), n # 1, stack[u][n].task = NoItem
  PROVE  n - 1 \in 1 .. Len(stack[u]) /\ stack[u][n - 1].pivot # NoItem
<1>1. n - 1 \in 1 .. Len(stack[u]) /\ n - 1 < Len(stack[u]) /\ (n - 1) + 1 = n
  BY Places
<1>2. Nesting(u, n - 1) /\ Chunks(u, n - 1)
  BY <1>1 DEF Frames
<1>3. stack[u][n - 1].at = "called"
  BY <1>1, <1>2 DEF Nesting
<1> QED BY <1>1, <1>2, <1>3 DEF Chunks

(* The frames of a thread in which nothing has changed. *)
LEMMA SameFrames ==
  ASSUME Typing, Frames, NEW u \in Thread, stack'[u] = stack[u], Finished \subseteq Finished',
         \A n \in 1 .. Len(stack[u]) :
           /\ lower'[stack[u][n].task] = lower[stack[u][n].task] \/ stack[u][n].task = NoItem
           /\ lower'[stack[u][n].pivot] = lower[stack[u][n].pivot] \/ stack[u][n].pivot = NoItem
  PROVE  \A n \in 1 .. Len(stack'[u]) : Nesting(u, n)' /\ Chunks(u, n)'
<1> SUFFICES ASSUME NEW n \in 1 .. Len(stack[u]) PROVE Nesting(u, n)' /\ Chunks(u, n)'
  OBVIOUS
<1>1. Nesting(u, n) /\ Chunks(u, n)
  BY DEF Frames
<1>2. Nesting(u, n)'
  BY <1>1 DEF Nesting
<1>3. n # 1 /\ stack[u][n].task = NoItem => Higher(stack[u][n - 1])' = Higher(stack[u][n - 1])
  BY CallerHasPivot DEF Higher
<1>4. stack'[u][n] = stack[u][n]
  OBVIOUS
<1>5. Chunks(u, n)'
  BY <1>1, <1>3, <1>4, SameChunks
<1> QED BY <1>2, <1>5

LEMMA ReturnFrames ==
  ASSUME Typing, Frames, Unique, Lifecycle, NEW t \in Thread, stack[t] # <<>>, NEW r \in Outcome,
         Return(t, r), Delivers(t, r), queue' = queue, lower' = lower
  PROVE  Frames'
<1> DEFINE m == Len(stack[t])
<1>1. m \in Nat \ {0} /\ m \in 1 .. m /\ Top(t) = stack[t][m]
  <2>1. m \in Nat \ {0} /\ Top(t) = stack[t][m]
    BY ReturnPlaces
  <2> QED BY <2>1
<1>2. Finished \subseteq Finished'
  BY ReturnSets
<1>3. /\ \A u \in Thread : u # t => stack'[u] = stack[u]
      /\ Len(stack'[t]) = m - 1
      /\ \A n \in 1 .. m - 1 :
           /\ stack'[t][n].task = stack[t][n].task
           /\ stack'[t][n].chunk = stack[t][n].chunk
           /\ stack'[t][n].pivot = stack[t][n].pivot
           /\ n < m - 1 \/ Top(t).task # NoItem => stack'[t][n] = stack[t][n]
           /\ n = m - 1 /\ Top(t).task = NoItem =>
                /\ stack'[t][n].at = IF r = Failed THEN "unwind" ELSE "wait"
                /\ stack'[t][n].higher = r.list
  BY ReturnShape
<1>4. r # Failed => Sorts(r.list, Top(t).chunk) /\ Top(t).chunk \subseteq Finished'
  <2>1. r = Failed \/ /\ r.state = "ready" /\ r.list \in Seq(Item)
                      /\ Sorts(r.list, Top(t).chunk) /\ Top(t).chunk \subseteq Finished'
    BY DeliveredFinished
  <2> QED BY <2>1
<1>5. ASSUME NEW u \in Thread, u # t, NEW n \in 1 .. Len(stack'[u])
      PROVE  Nesting(u, n)' /\ Chunks(u, n)'
  <2>1. stack'[u] = stack[u]
    BY <1>3, <1>5
  <2>2. \A k \in 1 .. Len(stack'[u]) : Nesting(u, k)' /\ Chunks(u, k)'
    BY <2>1, <1>2, SameFrames
  <2> QED BY <2>2
<1> HIDE DEF m
<1>6. ASSUME NEW n \in 1 .. Len(stack'[t])
      PROVE  Nesting(t, n)' /\ Chunks(t, n)'
  <2>1. n \in 1 .. m - 1 /\ n \in 1 .. m /\ n < m /\ n \in Nat /\ n <= m - 1
    BY <1>1, <1>3
  <2>2. Nesting(t, n) /\ Chunks(t, n)
    BY <2>1 DEF Frames, m
  <2>3. /\ stack[t][n].at \in {"called", "wait"}
        /\ stack[t][n].at = "called" <=> stack[t][n + 1].task = NoItem
        /\ n = 1 => (stack[t][n].task = NoItem <=> t = Main)
    BY <2>1, <2>2 DEF Nesting, m
  <2>4. /\ stack'[t][n].task = stack[t][n].task
        /\ stack'[t][n].chunk = stack[t][n].chunk
        /\ stack'[t][n].pivot = stack[t][n].pivot
    BY <2>1, <1>3
  <2>5. stack[t][n].pivot # NoItem
    BY <2>2, <2>3 DEF Chunks
  <2>6. n = m - 1 => n + 1 = m
    BY <2>1, <1>1
  <2>7. n = Len(stack'[t]) => stack'[t][n].at # "called"
    <3> HAVE n = Len(stack'[t])
    <3>1. CASE Top(t).task = NoItem
      BY <3>1, <2>1, <1>3
    <3>2. CASE Top(t).task # NoItem
      <4>1. stack'[t][n] = stack[t][n]
        BY <3>2, <2>1, <1>3
      <4>2. stack[t][n + 1].task # NoItem
        BY <3>2, <2>6, <1>1, <1>3
      <4> QED BY <4>1, <4>2, <2>3
    <3> QED BY <3>1, <3>2
  <2>8. n < Len(stack'[t]) => /\ stack'[t][n] = stack[t][n]
                             /\ stack'[t][n + 1].task = stack[t][n + 1].task
    <3> HAVE n < Len(stack'[t])
    <3>1. n < m - 1 /\ n + 1 \in 1 .. m - 1
      BY <2>1, <1>1, <1>3
    <3> QED BY <3>1, <2>1, <1>3
  <2>9. Nesting(t, n)'
    <3>1. n < Len(stack'[t]) =>
            /\ stack'[t][n].at \in {"called", "wait"}
            /\ stack'[t][n].at = "called" <=> stack'[t][n + 1].task = NoItem
      BY <2>3, <2>8
    <3>2. n = 1 => (stack'[t][n].task = NoItem <=> t = Main)
      BY <2>3, <2>4
    <3> QED BY <2>7, <3>1, <3>2 DEF Nesting
  <2>10. Higher(stack[t][n])' = Higher(stack[t][n])
    BY <2>4 DEF Higher
  <2>11. stack'[t][n].at = "wait" =>
          /\ Sorts(stack'[t][n].higher, Higher(stack[t][n]))
          /\ Higher(stack[t][n]) \subseteq Finished'
    <3> HAVE stack'[t][n].at = "wait"
    <3>1. CASE n < m - 1 \/ Top(t).task # NoItem
      <4>1. stack'[t][n] = stack[t][n]
        BY <3>1, <2>1, <1>3
      <4> QED BY <4>1, <2>2, <1>2 DEF Chunks
    <3>2. CASE ~(n < m - 1 \/ Top(t).task # NoItem)
      <4>1. n = m - 1 /\ Top(t).task = NoItem /\ m # 1 /\ n = m - 1
        BY <3>2, <2>1, <1>1
      <4>2. r # Failed /\ stack'[t][n].higher = r.list
        BY <4>1, <2>1, <1>3
      <4>3. Chunks(t, m)
        BY <1>1 DEF Frames, m
      <4>4. Top(t).chunk = Higher(stack[t][n])
        BY <4>1, <4>3, <1>1 DEF Chunks
      <4> QED BY <4>2, <4>4, <1>4
    <3> QED BY <3>1, <3>2
  <2>12. n # 1 => Higher(stack[t][n - 1])' = Higher(stack[t][n - 1])
    <3> HAVE n # 1
    <3>1. n - 1 \in 1 .. m - 1
      BY <2>1, <1>1
    <3> QED BY <3>1, <1>3 DEF Higher
  <2>13. stack[t][n].at # "split" /\ stack'[t][n].at # "split"
    <3>1. stack[t][n].at # "split"
      BY <2>3
    <3>2. CASE n < m - 1 \/ Top(t).task # NoItem
      BY <3>1, <3>2, <2>1, <1>3
    <3>3. CASE ~(n < m - 1 \/ Top(t).task # NoItem)
      <4>1. n = m - 1 /\ Top(t).task = NoItem
        BY <3>3, <2>1, <1>1
      <4> QED BY <4>1, <3>1, <2>1, <1>3
    <3> QED BY <3>2, <3>3
  <2>14. Chunks(t, n)'
    <3>1. stack'[t][n].at = "split" <=> stack'[t][n].pivot = NoItem
      BY <2>4, <2>5, <2>13
    <3>2. /\ stack'[t][n].pivot \in stack'[t][n].chunk
          /\ lower'[stack'[t][n].pivot] = Less(stack'[t][n].chunk, stack'[t][n].pivot)
      BY <2>2, <2>4, <2>13 DEF Chunks
    <3>3. stack'[t][n].task # NoItem => stack'[t][n].chunk = lower'[stack'[t][n].task]
      BY <2>2, <2>4 DEF Chunks
    <3>4. stack'[t][n].task = NoItem =>
            stack'[t][n].chunk = IF n = 1 THEN Item ELSE Higher(stack[t][n - 1])'
      BY <2>2, <2>4, <2>12 DEF Chunks
    <3> QED BY <3>1, <3>2, <3>3, <3>4, <2>10, <2>11 DEF Chunks, Higher, Less
  <2> QED BY <2>9, <2>14
<1> QED BY <1>5, <1>6 DEF Frames

LEMMA ReturnUnique ==
  ASSUME Typing, Frames, Unique, NEW t \in Thread, stack[t] # <<>>, NEW r \in Outcome,
         Return(t, r), queue' = queue
  PROVE  Unique'
<1>1. \A u \in Thread : \A n \in 1 .. Len(stack'[u]) :
        /\ n \in 1 .. Len(stack[u])
        /\ stack'[u][n].task = stack[u][n].task
        /\ stack'[u][n].pivot = stack[u][n].pivot
  BY ReturnPlaces
<1>2. ASSUME NEW u \in Thread, NEW v \in Thread,
             NEW k \in 1 .. Len(stack'[u]), NEW n \in 1 .. Len(stack'[v])
      PROVE  /\ stack'[u][k].task = stack'[v][n].task /\ stack'[u][k].task # NoItem => u = v /\ k = n
             /\ stack'[u][k].pivot = stack'[v][n].pivot /\ stack'[u][k].pivot # NoItem => u = v /\ k = n
  <2>1. /\ k \in 1 .. Len(stack[u]) /\ n \in 1 .. Len(stack[v])
        /\ stack'[u][k].task = stack[u][k].task /\ stack'[v][n].task = stack[v][n].task
        /\ stack'[u][k].pivot = stack[u][k].pivot /\ stack'[v][n].pivot = stack[v][n].pivot
    BY <1>1
  <2>2. /\ stack[u][k].task = stack[v][n].task /\ stack[u][k].task # NoItem => u = v /\ k = n
        /\ stack[u][k].pivot = stack[v][n].pivot /\ stack[u][k].pivot # NoItem => u = v /\ k = n
    BY <2>1 DEF Unique
  <2> QED BY <2>1, <2>2
<1>3. \A p, q \in Queue : \A k \in 1 .. Len(queue'[p]), n \in 1 .. Len(queue'[q]) :
        queue'[p][k] = queue'[q][n] => p = q /\ k = n
  BY DEF Unique
<1> QED BY <1>2, <1>3 DEF Unique

LEMMA ReturnApart ==
  ASSUME Typing, Frames, Unique, Apart, NEW t \in Thread, stack[t] # <<>>, NEW r \in Outcome,
         Return(t, r), queue' = queue, lower' = lower
  PROVE  Apart'
<1>1. \A u \in Thread : \A n \in 1 .. Len(stack'[u]) :
        /\ n \in 1 .. Len(stack[u])
        /\ stack'[u][n].chunk = stack[u][n].chunk
        /\ stack'[u][n].at = "split" <=> stack[u][n].at = "split"
  BY ReturnPlaces
<1>2. Queued' = Queued
  BY ReturnSets
<1>3. \A i, j \in Queued' : i # j => lower'[i] \cap lower'[j] = {}
  BY <1>2 DEF Apart
<1>4. ASSUME NEW u \in Thread, NEW k \in 1 .. Len(stack'[u]), stack'[u][k].at = "split"
      PROVE  /\ \A i \in Queued' : lower'[i] \cap stack'[u][k].chunk = {}
             /\ \A v \in Thread : \A n \in 1 .. Len(stack'[v]) :
                  stack'[v][n].at = "split" /\ ~(u = v /\ k = n) =>
                    stack'[u][k].chunk \cap stack'[v][n].chunk = {}
  <2>1. k \in 1 .. Len(stack[u]) /\ stack[u][k].at = "split" /\ stack'[u][k].chunk = stack[u][k].chunk
    BY <1>1, <1>4
  <2>2. \A i \in Queued' : lower'[i] \cap stack'[u][k].chunk = {}
    BY <2>1, <1>2 DEF Apart
  <2>3. ASSUME NEW v \in Thread, NEW n \in 1 .. Len(stack'[v]),
               stack'[v][n].at = "split", ~(u = v /\ k = n)
        PROVE  stack'[u][k].chunk \cap stack'[v][n].chunk = {}
    <3>1. n \in 1 .. Len(stack[v]) /\ stack[v][n].at = "split" /\ stack'[v][n].chunk = stack[v][n].chunk
      BY <1>1, <2>3
    <3> QED BY <2>1, <2>3, <3>1 DEF Apart
  <2> QED BY <2>2, <2>3
<1> QED BY <1>3, <1>4 DEF Apart

LEMMA ReturnLifecycle ==
  ASSUME Typing, Frames, Unique, Lifecycle, NEW t \in Thread, stack[t] # <<>>, NEW r \in Outcome,
         Return(t, r), Delivers(t, r), queue' = queue, lower' = lower
  PROVE  Lifecycle'
<1> DEFINE task == Top(t).task
<1>1. /\ Queued' = Queued /\ Running' = Running \ {task} /\ Pivots' \subseteq Pivots
      /\ Unsplit' \subseteq Unsplit /\ Finished \subseteq Finished'
  BY ReturnSets
<1>2. r \notin {Pending, Broken}
  BY Outcomes DEF Delivers
<1>3. Len(stack[t]) \in 1 .. Len(stack[t]) /\ Top(t) = stack[t][Len(stack[t])]
  <2>1. Len(stack[t]) \in Nat \ {0} /\ Top(t) = stack[t][Len(stack[t])]
    BY ReturnPlaces
  <2> QED BY <2>1
<1>4. task = NoItem \/ (task \in Item /\ task \in Running /\ Top(t).chunk = lower[task])
  <2>1. task = NoItem \/ task \in Item
    BY <1>3, Places, CallFields
  <2>2. task \in Item => task \in Running
    BY <1>3 DEF Running
  <2>3. task # NoItem => Top(t).chunk = lower[task]
    BY <1>3 DEF Frames, Chunks
  <2>4. task \in Item => task # NoItem
    BY Constants
  <2> QED BY <2>1, <2>2, <2>3, <2>4
<1>5. \A i \in Item : future'[i] = IF i = task THEN r ELSE future[i]
  <2>1. future' = IF task # NoItem THEN [future EXCEPT ![task] = r] ELSE future
    BY DEF Return
  <2> QED BY <2>1, Constants DEF Typing
<1>6. /\ Unsplit \cap (Queued \cup Running \cup Pivots) = {}
      /\ Queued \cap Running = {}
      /\ \A i \in Unsplit \cup Queued \cup Running : future[i] = Pending
      /\ \A i \in Pivots : future[i] = Pending => i \in Queued \cup Running
      /\ \A i \in Pivots : future[i] # Broken
      /\ \A i \in Item : future[i].state = "ready" =>
           Sorts(future[i].list, lower[i]) /\ lower[i] \subseteq Finished
  BY DEF Lifecycle
<1>7. Queued \subseteq Item /\ Running \subseteq Item /\ Pivots \subseteq Item /\ Unsplit \subseteq Item
  BY DEF Queued, Running, Pivots, Unsplit
<1>8. task \in Item => task \notin Queued /\ task \notin Unsplit
  BY <1>4, <1>6, Constants
<1> HIDE DEF task
<1>9. \A i \in Unsplit' \cup Queued' \cup Running' : future'[i] = Pending
  BY <1>1, <1>5, <1>6, <1>7, <1>8
<1>10. \A i \in Pivots' : future'[i] = Pending => i \in Queued' \cup Running'
  BY <1>1, <1>2, <1>5, <1>6, <1>7
<1>11. \A i \in Pivots' : future'[i] # Broken
  BY <1>1, <1>2, <1>5, <1>6, <1>7
<1>12. ASSUME NEW i \in Item, future'[i].state = "ready"
       PROVE  Sorts(future'[i].list, lower'[i]) /\ lower'[i] \subseteq Finished'
  <2>1. CASE i = task
    <3>1. future'[i] = r /\ Top(t).chunk = lower[i]
      BY <2>1, <1>4, <1>5, Constants
    <3>2. r = Failed \/ /\ r.state = "ready" /\ r.list \in Seq(Item)
                        /\ Sorts(r.list, Top(t).chunk) /\ Top(t).chunk \subseteq Finished'
      BY DeliveredFinished
    <3> QED BY <3>1, <3>2, <1>12, Outcomes
  <2>2. CASE i # task
    <3>1. future'[i] = future[i]
      BY <2>2, <1>5
    <3>2. Sorts(future[i].list, lower[i]) /\ lower[i] \subseteq Finished
      BY <3>1, <1>12, <1>6
    <3> QED BY <3>1, <3>2, <1>1
  <2> QED BY <2>1, <2>2
<1>13. Unsplit' \cap (Queued' \cup Running' \cup Pivots') = {} /\ Queued' \cap Running' = {}
  BY <1>1, <1>6
<1> QED BY <1>9, <1>10, <1>11, <1>12, <1>13 DEF Lifecycle

LEMMA ReturnOwnTasks ==
  ASSUME Typing, Frames, OwnTasks, NEW t \in Thread, stack[t] # <<>>, NEW r \in Outcome,
         Return(t, r), queue' = queue
  PROVE  OwnTasks'
<1>1. \A u \in Thread : \A n \in 1 .. Len(stack'[u]) :
        n \in 1 .. Len(stack[u]) /\ stack'[u][n].pivot = stack[u][n].pivot
  BY ReturnPlaces
<1> QED BY <1>1 DEF OwnTasks

(* A call ends. *)
LEMMA ReturnStep ==
  ASSUME IInv, NEW t \in Thread, stack[t] # <<>>, scan[t] = 0, NEW r \in Outcome,
         Return(t, r), Delivers(t, r), UNCHANGED <<kind, queue, lower, scan, m_done>>
  PROVE  IInv'
<1> USE DEF IInv
<1> DEFINE m     == Len(stack[t])
           first == Top(t).task = NoItem /\ Front(stack[t]) = <<>>
<1>1. /\ m \in Nat \ {0} /\ m \in 1 .. m /\ Top(t) = stack[t][m]
  <2>1. m \in Nat \ {0} /\ Top(t) = stack[t][m]
    BY ReturnPlaces
  <2> QED BY <2>1
<1>2. /\ stack' \in [Thread -> Seq(CallType)]
      /\ \A u \in Thread : u # t => stack'[u] = stack[u]
      /\ Len(stack'[t]) = m - 1
  BY ReturnShape
<1>3. /\ output' = IF first THEN r ELSE output
      /\ pc' = IF first THEN [pc EXCEPT ![t] = "destroy"] ELSE pc
      /\ future' = IF Top(t).task # NoItem THEN [future EXCEPT ![Top(t).task] = r] ELSE future
  BY DEF Return
<1>4. first => m = 1
  <2> HAVE first
  <2>1. \A i \in 1 .. m : stack[t][i] \in CallType
    BY Places
  <2>2. SubSeq(stack[t], 1, m - 1) = <<>>
    BY DEF Front
  <2>3. Len(SubSeq(stack[t], 1, m - 1)) = IF 1 <= m - 1 THEN m - 1 - 1 + 1 ELSE 0
    <3>1. m - 1 \in Int /\ \A i \in 1 .. m - 1 : stack[t][i] \in CallType
      BY <1>1, <2>1
    <3> QED BY <3>1, SubSeqProperties
  <2>4. Len(<<>>) = 0
    BY EmptySeq
  <2>5. (IF 1 <= m - 1 THEN m - 1 - 1 + 1 ELSE 0) = 0
    BY <2>2, <2>3, <2>4
  <2> HIDE DEF m
  <2> QED BY <2>5, <1>1
<1>5. m = 1 => (Top(t).task = NoItem <=> t = Main)
  BY <1>1 DEF Frames, Nesting
<1>6. m = 1 => Front(stack[t]) = <<>>
  <2> HAVE m = 1
  <2>1. SubSeq(stack[t], 1, 0) = <<>>
    BY SubSeqEmpty
  <2> QED BY <2>1 DEF Front
<1> HIDE DEF first, m
<1>7. first <=> m = 1 /\ t = Main
  <2>1. first => m = 1 /\ t = Main
    BY <1>4, <1>5 DEF first
  <2>2. m = 1 /\ t = Main => first
    BY <1>5, <1>6 DEF first
  <2> QED BY <2>1, <2>2
<1>8. Typing'
  <2>1. future' \in [Item -> Outcome]
    <3>1. Top(t).task \in Item \cup {NoItem}
      BY <1>1, Places, CallFields DEF m
    <3> QED BY <3>1, <1>3 DEF Typing
  <2>2. pc' \in [Thread -> {"new", "loop", "exit", "construct", "sort", "destroy", "join",
                            "end", "terminated"}]
    BY <1>3 DEF Typing
  <2>3. output' \in Outcome
    BY <1>3 DEF Typing
  <2> QED BY <1>2, <2>1, <2>2, <2>3 DEF Typing
<1>9. Scanning'
  <2> SUFFICES ASSUME NEW u \in Thread, scan[u] # 0
               PROVE  /\ scan[u] <= Len(Search(u)')
                      /\ stack'[u] = <<>> \/ At(u, "wait")'
                      /\ u = Main => stack'[u] # <<>>
                      /\ u # Main => pc'[u] = "loop"
    BY DEF Scanning
  <2>1. u # t /\ stack'[u] = stack[u]
    BY <1>2
  <2>2. Search(u)' = Search(u)
    BY DEF Search, OtherQueues
  <2>3. u # Main => pc'[u] = pc[u]
    BY <2>1, <1>3 DEF Typing
  <2>4. At(u, "wait")' <=> At(u, "wait")
    BY <2>1 DEF At, Top
  <2> QED BY <2>1, <2>2, <2>3, <2>4 DEF Scanning
<1>10. Phases'
  <2>1. pc[Main] # "construct" /\ (t = Main => pc[Main] = "sort")
    BY DEF Phases
  <2>2. CASE first
    <3>1. t = Main /\ m = 1 /\ stack'[Main] = <<>>
      <4>1. t = Main /\ m = 1 /\ stack'[t] \in Seq(CallType) /\ Len(stack'[t]) = 0
        BY <2>2, <1>2, <1>7
      <4> QED BY <4>1, EmptySeq
    <3>2. pc' = [pc EXCEPT ![Main] = "destroy"] /\ output' = r
      BY <2>2, <3>1, <1>3
    <3>3. pc'[Main] = "destroy" /\ \A w \in Worker : pc'[w] = pc[w]
      BY <3>2, Constants DEF Typing
    <3>4. pc[Main] = "sort" /\ r # Pending
      BY <2>1, <3>1, Outcomes DEF Delivers
    <3>5. Top(t).chunk = Item
      <4>1. Chunks(t, 1) /\ Top(t) = stack[t][1] /\ Top(t).task = NoItem
        BY <3>1, <1>1, <2>2 DEF Frames, m, first
      <4> QED BY <4>1 DEF Chunks
    <3>6. output'.state = "ready" => Sorts(output'.list, Item) /\ Item \subseteq Finished'
      <4>1. r = Failed \/ /\ r.state = "ready" /\ r.list \in Seq(Item)
                          /\ Sorts(r.list, Top(t).chunk) /\ Top(t).chunk \subseteq Finished'
        BY DeliveredFinished
      <4> QED BY <4>1, <3>2, <3>5, Outcomes
    <3>7. \A w \in Worker : stack'[w] # <<>> => pc'[w] = "loop"
      BY <3>1, <3>3, <1>2, Constants DEF Phases
    <3>8. m_done' = FALSE
      BY <3>4 DEF Phases, Typing
    <3> QED BY <3>1, <3>2, <3>3, <3>4, <3>6, <3>7, <3>8 DEF Phases
  <2>3. CASE ~first
    <3>1. pc' = pc /\ output' = output
      BY <2>3, <1>3
    <3>2. stack'[Main] # <<>> <=> stack[Main] # <<>>
      <4>1. CASE t = Main
        <5>1. m # 1 /\ Len(stack'[Main]) = m - 1
          BY <4>1, <2>3, <1>2, <1>7
        <5>2. stack'[Main] # <<>>
          BY <5>1, <1>1, EmptySeq
        <5> QED BY <5>2, <4>1
      <4>2. CASE t # Main
        BY <4>2, <1>2, Constants
      <4> QED BY <4>1, <4>2
    <3>3. \A w \in Worker : stack'[w] # <<>> => pc'[w] = "loop"
      BY <3>1, <1>2, Constants DEF Phases
    <3>4. Finished \subseteq Finished'
      BY ReturnSets
    <3>5. output'.state = "ready" => Sorts(output'.list, Item) /\ Item \subseteq Finished'
      BY <3>1, <3>4 DEF Phases
    <3> QED BY <3>1, <3>2, <3>3, <3>5, <2>1 DEF Phases
  <2> QED BY <2>2, <2>3
<1>11. Frames' /\ Unique' /\ Apart' /\ Lifecycle' /\ OwnTasks'
  BY ReturnFrames, ReturnUnique, ReturnApart, ReturnLifecycle, ReturnOwnTasks
<1> QED BY <1>8, <1>9, <1>10, <1>11

(***************************************************************************)
(* A chunk is split                                                        *)
(***************************************************************************)
(* Task p has been put into queue q at place k, and the tasks behind it have
   moved by s. *)
Added(q, p, k, s) ==
  /\ queue' \in [Queue -> Seq(Item)]
  /\ \A r \in Queue : r # q => queue'[r] = queue[r]
  /\ k \in 1 .. Len(queue'[q]) /\ queue'[q][k] = p
  /\ \A n \in 1 .. Len(queue'[q]) : n # k =>
       n - s \in 1 .. Len(queue[q]) /\ queue'[q][n] = queue[q][n - s]
  /\ \A n \in 1 .. Len(queue[q]) :
       n + s \in 1 .. Len(queue'[q]) /\ queue'[q][n + s] = queue[q][n]

LEMMA SubmitShape ==
  ASSUME Typing, NEW t \in Thread, NEW p \in Item, Submit(t, p)
  PROVE  \E q \in Queue, k \in Nat, s \in {0, 1} : (q = Pool \/ q = t) /\ Added(q, p, k, s)
<1> DEFINE q   == IF kind = "shared" \/ t = Main THEN Pool ELSE t
           L   == Len(queue[q])
           new == IF kind = "stealing" /\ q # Pool THEN <<p>> \o queue[q] ELSE Append(queue[q], p)
<1>1. q \in Queue /\ (q = Pool \/ q = t)
  BY Constants
<1>2. queue[q] \in Seq(Item) /\ L \in Nat
  BY <1>1, Places
<1>3. queue' = [queue EXCEPT ![q] = new]
  BY DEF Submit
<1> HIDE DEF q
<1>4. CASE kind = "stealing" /\ q # Pool
  <2>1. <<p>> \in Seq(Item) /\ Len(<<p>>) = 1 /\ <<p>>[1] = p
    OBVIOUS
  <2>2. /\ new \in Seq(Item) /\ Len(new) = 1 + L
        /\ \A i \in 1 .. 1 + L : new[i] = IF i <= 1 THEN <<p>>[i] ELSE queue[q][i - 1]
    BY <1>2, <1>4, <2>1, ConcatProperties
  <2> HIDE DEF new
  <2>3. queue' \in [Queue -> Seq(Item)] /\ queue'[q] = new /\ \A r \in Queue : r # q => queue'[r] = queue[r]
    BY <1>1, <1>3, <2>2 DEF Typing
  <2>4. 1 \in 1 .. Len(new) /\ new[1] = p
    BY <1>2, <2>1, <2>2
  <2>5. \A n \in 1 .. Len(new) : n # 1 => n - 1 \in 1 .. L /\ new[n] = queue[q][n - 1]
    BY <1>2, <2>2
  <2>6. ASSUME NEW n \in 1 .. L PROVE n + 1 \in 1 .. Len(new) /\ new[n + 1] = queue[q][n]
    <3>1. n + 1 \in 1 .. 1 + L /\ ~(n + 1 <= 1) /\ (n + 1) - 1 = n
      BY <1>2
    <3> QED BY <3>1, <2>2
  <2>7. Added(q, p, 1, 1)
    BY <2>3, <2>4, <2>5, <2>6 DEF Added
  <2> QED BY <1>1, <2>7
<1>5. CASE ~(kind = "stealing" /\ q # Pool)
  <2>1. /\ new \in Seq(Item) /\ Len(new) = L + 1
        /\ \A i \in 1 .. L : new[i] = queue[q][i]
        /\ new[L + 1] = p
    BY <1>2, <1>5, AppendProperties
  <2> HIDE DEF new
  <2>2. queue' \in [Queue -> Seq(Item)] /\ queue'[q] = new /\ \A r \in Queue : r # q => queue'[r] = queue[r]
    BY <1>1, <1>3, <2>1 DEF Typing
  <2>3. \A n \in 1 .. Len(new) : n # L + 1 => n - 0 \in 1 .. L /\ new[n] = queue[q][n - 0]
    BY <1>2, <2>1
  <2>4. \A n \in 1 .. L : n + 0 \in 1 .. Len(new) /\ new[n + 0] = queue[q][n]
    BY <1>2, <2>1
  <2>5. L + 1 \in 1 .. Len(new) /\ L + 1 \in Nat
    BY <1>2, <2>1
  <2>6. Added(q, p, L + 1, 0)
    BY <2>1, <2>2, <2>3, <2>4, <2>5 DEF Added
  <2> QED BY <1>1, <2>5, <2>6
<1> QED BY <1>4, <1>5

(* The tasks that are queued then. *)
LEMMA AddedQueued ==
  ASSUME Typing, NEW q \in Queue, NEW p \in Item, NEW k \in Nat, NEW s \in {0, 1}, Added(q, p, k, s)
  PROVE  Queued' = Queued \cup {p}
<1>1. ASSUME NEW i \in Queued' PROVE i \in Queued \cup {p}
  <2>1. PICK r \in Queue : \E n \in 1 .. Len(queue'[r]) : queue'[r][n] = i
    BY DEF Queued
  <2>2. PICK n \in 1 .. Len(queue'[r]) : queue'[r][n] = i
    BY <2>1
  <2>3. i \in Item
    BY DEF Queued
  <2>4. CASE r # q
    BY <2>2, <2>3, <2>4 DEF Added, Queued
  <2>5. CASE r = q /\ n # k
    <3>1. n - s \in 1 .. Len(queue[q]) /\ queue[q][n - s] = i
      BY <2>2, <2>5 DEF Added
    <3> QED BY <3>1, <2>3 DEF Queued
  <2>6. CASE r = q /\ n = k
    BY <2>2, <2>6 DEF Added
  <2> QED BY <2>4, <2>5, <2>6
<1>2. ASSUME NEW i \in Queued PROVE i \in Queued'
  <2>1. PICK r \in Queue : \E n \in 1 .. Len(queue[r]) : queue[r][n] = i
    BY DEF Queued
  <2>2. PICK n \in 1 .. Len(queue[r]) : queue[r][n] = i
    BY <2>1
  <2>3. i \in Item
    BY DEF Queued
  <2>4. CASE r # q
    BY <2>2, <2>3, <2>4 DEF Added, Queued
  <2>5. CASE r = q
    <3>1. n + s \in 1 .. Len(queue'[r]) /\ queue'[r][n + s] = i
      BY <2>2, <2>5 DEF Added
    <3> QED BY <3>1, <2>3 DEF Queued
  <2> QED BY <2>4, <2>5
<1>3. p \in Queued'
  <2>1. k \in 1 .. Len(queue'[q]) /\ queue'[q][k] = p
    BY DEF Added
  <2> QED BY <2>1 DEF Queued
<1> QED BY <1>1, <1>2, <1>3

(* What Split does to the stack, place by place. *)
SplitAt(t, p) ==
  LET m == Len(stack[t]) IN
  /\ m \in Nat \ {0} /\ stack[t][m].at = "split" /\ p \in stack[t][m].chunk
  /\ stack[t][m].chunk \in SUBSET Item
  /\ lower' = [lower EXCEPT ![p] = Less(stack[t][m].chunk, p)]
  /\ stack' \in [Thread -> Seq(CallType)]
  /\ \A u \in Thread : u # t => stack'[u] = stack[u]
  /\ Len(stack'[t]) = m + 1
  /\ \A n \in 1 .. m - 1 : stack'[t][n] = stack[t][n]
  /\ stack'[t][m].at = "called" /\ stack'[t][m].pivot = p
  /\ stack'[t][m].task = stack[t][m].task /\ stack'[t][m].chunk = stack[t][m].chunk
  /\ stack'[t][m + 1].at = "split" /\ stack'[t][m + 1].task = NoItem
  /\ stack'[t][m + 1].pivot = NoItem
  /\ stack'[t][m + 1].chunk = stack[t][m].chunk \ (Less(stack[t][m].chunk, p) \cup {p})

LEMMA SplitShape ==
  ASSUME Typing, NEW t \in Thread, Split(t)
  PROVE  \E p \in Item : Submit(t, p) /\ SplitAt(t, p)
<1> DEFINE m == Len(stack[t])
<1>1. stack[t] # <<>> /\ Top(t) = stack[t][m] /\ stack[t][m].at = "split"
  BY DEF Split, At, Top, Last
<1>2. /\ stack[t] \in Seq(CallType) /\ m \in Nat \ {0}
      /\ stack[t][m] \in CallType /\ m \in 1 .. m
  <2>1. stack[t] \in Seq(CallType) /\ m \in Nat \ {0}
    BY <1>1, Places
  <2>2. m \in 1 .. m
    BY <2>1
  <2> QED BY <2>1, <2>2, Places
<1> DEFINE c == stack[t][m]
<1>3. c.chunk \in SUBSET Item
  BY <1>2, CallFields
<1>4. PICK p \in c.chunk :
        /\ lower' = [lower EXCEPT ![p] = {i \in c.chunk : Key[i] < Key[p]}]
        /\ Submit(t, p)
        /\ stack' = [stack EXCEPT ![t] =
             Append([@ EXCEPT ![Len(@)].at = "called", ![Len(@)].pivot = p],
                    Call(NoItem, c.chunk \ ({i \in c.chunk : Key[i] < Key[p]} \cup {p})))]
  BY <1>1 DEF Split
<1>5. p \in Item
  BY <1>3
<1> DEFINE under == [c EXCEPT !.at = "called", !.pivot = p]
           s     == [stack[t] EXCEPT ![m] = under]
           more  == Call(NoItem, c.chunk \ (Less(c.chunk, p) \cup {p}))
<1>6. /\ under \in CallType /\ under.at = "called" /\ under.pivot = p
      /\ under.task = c.task /\ under.chunk = c.chunk
  BY <1>2, <1>5 DEF CallType
<1>7. /\ more \in CallType /\ more.at = "split" /\ more.task = NoItem
      /\ more.pivot = NoItem /\ more.chunk = c.chunk \ (Less(c.chunk, p) \cup {p})
  <2>1. NoItem \in Item \cup {NoItem} /\ c.chunk \ (Less(c.chunk, p) \cup {p}) \in SUBSET Item
    BY <1>3
  <2> QED BY <2>1, NewCalls
<1>8. s = [stack[t] EXCEPT ![Len(stack[t])].at = "called", ![Len(stack[t])].pivot = p]
  BY <1>2
<1>9. stack' = [stack EXCEPT ![t] = Append(s, more)]
  BY <1>4, <1>8 DEF Less
<1> HIDE DEF under, more
<1>10. /\ s \in Seq(CallType) /\ Len(s) = m
       /\ \A j \in 1 .. m : s[j] = IF j = m THEN under ELSE stack[t][j]
  BY <1>2, <1>6, ExceptSeq
<1> HIDE DEF s
<1>11. /\ Append(s, more) \in Seq(CallType) /\ Len(Append(s, more)) = m + 1
       /\ \A i \in 1 .. m : Append(s, more)[i] = s[i]
       /\ Append(s, more)[m + 1] = more
  BY <1>7, <1>10, AppendProperties
<1>12. /\ stack' \in [Thread -> Seq(CallType)] /\ stack'[t] = Append(s, more)
       /\ \A u \in Thread : u # t => stack'[u] = stack[u]
  BY <1>9, <1>11 DEF Typing
<1>13. /\ \A n \in 1 .. m - 1 : stack'[t][n] = stack[t][n]
       /\ stack'[t][m] = under /\ stack'[t][m + 1] = more /\ Len(stack'[t]) = m + 1
  <2>1. \A n \in 1 .. m - 1 : n \in 1 .. m /\ n # m
    BY <1>2
  <2> QED BY <2>1, <1>2, <1>10, <1>11, <1>12
<1>14. lower' = [lower EXCEPT ![p] = Less(c.chunk, p)]
  BY <1>4 DEF Less
<1>15. SplitAt(t, p)
  BY <1>1, <1>2, <1>3, <1>6, <1>7, <1>12, <1>13, <1>14 DEF SplitAt
<1> QED BY <1>4, <1>5, <1>15

(* The same for all threads: an old place, but for pivot and label of the
   topmost call, or the new one. *)
LEMMA SplitPlaces ==
  ASSUME Typing, NEW t \in Thread, NEW p \in Item, SplitAt(t, p)
  PROVE  /\ \A u \in Thread : \A n \in 1 .. Len(stack'[u]) :
              \/ u = t /\ n = Len(stack[t]) + 1
              \/ n \in 1 .. Len(stack[u]) /\ u = t /\ n = Len(stack[t])
              \/ n \in 1 .. Len(stack[u]) /\ ~(u = t /\ n = Len(stack[t])) /\ stack'[u][n] = stack[u][n]
         /\ \A u \in Thread : \A n \in 1 .. Len(stack[u]) : n \in 1 .. Len(stack'[u])
         /\ Len(stack[t]) \in 1 .. Len(stack[t])
         /\ Len(stack[t]) + 1 \in 1 .. Len(stack'[t])
         /\ Len(stack[t]) + 1 \notin 1 .. Len(stack[t])
<1> DEFINE m == Len(stack[t])
<1>1. m \in Nat \ {0} /\ Len(stack'[t]) = m + 1 /\ \A u \in Thread : u # t => stack'[u] = stack[u]
  BY DEF SplitAt
<1>2. \A n \in 1 .. m - 1 : stack'[t][n] = stack[t][n]
  BY DEF SplitAt
<1>3. ASSUME NEW u \in Thread, NEW n \in 1 .. Len(stack'[u])
      PROVE  \/ u = t /\ n = m + 1
             \/ n \in 1 .. Len(stack[u]) /\ u = t /\ n = m
             \/ n \in 1 .. Len(stack[u]) /\ ~(u = t /\ n = m) /\ stack'[u][n] = stack[u][n]
  <2>1. CASE u # t
    BY <2>1, <1>1
  <2>2. CASE u = t
    <3>1. n \in 1 .. m + 1
      BY <2>2, <1>1
    <3>2. n = m + 1 \/ (n \in 1 .. Len(stack[t]) /\ n = m) \/ (n \in 1 .. m - 1 /\ n \in 1 .. Len(stack[t]) /\ n # m)
      BY <3>1, <1>1
    <3> QED BY <2>2, <3>2, <1>2
  <2> QED BY <2>1, <2>2
<1>4. \A u \in Thread : \A n \in 1 .. Len(stack[u]) : n \in 1 .. Len(stack'[u])
  <2> SUFFICES ASSUME NEW u \in Thread, NEW n \in 1 .. Len(stack[u]) PROVE n \in 1 .. Len(stack'[u])
    OBVIOUS
  <2>1. CASE u # t
    BY <2>1, <1>1
  <2>2. CASE u = t
    BY <2>2, <1>1
  <2> QED BY <2>1, <2>2
<1>5. m \in 1 .. m /\ m + 1 \in 1 .. Len(stack'[t]) /\ m + 1 \notin 1 .. m
  BY <1>1
<1> QED BY <1>3, <1>4, <1>5

(* What becomes of the sets of items when a chunk is split. *)
LEMMA SplitSets ==
  ASSUME Typing, Frames, Unique, Apart, Lifecycle, NEW t \in Thread, NEW p \in Item, SplitAt(t, p),
         NEW q \in Queue, NEW k \in Nat, NEW s \in {0, 1}, Added(q, p, k, s)
  PROVE  /\ p \in Unsplit /\ p \notin Queued /\ p \notin Running /\ p \notin Pivots
         /\ Queued' = Queued \cup {p} /\ Running' = Running /\ Pivots' = Pivots \cup {p}
         /\ Unsplit' \subseteq Unsplit \ {p}
         /\ Finished \subseteq Finished'
<1> DEFINE m     == Len(stack[t])
           chunk == stack[t][m].chunk
<1>1. /\ m \in 1 .. m /\ stack[t][m].at = "split" /\ p \in chunk /\ chunk \subseteq Item
      /\ lower' = [lower EXCEPT ![p] = Less(chunk, p)]
  BY SplitPlaces DEF SplitAt
<1>2. p \in Unsplit
  BY <1>1 DEF Unsplit
<1>3. p \notin Queued /\ p \notin Running /\ p \notin Pivots
  BY <1>2 DEF Lifecycle
<1>4. Queued' = Queued \cup {p}
  BY AddedQueued
<1>5. Running' = Running
  <2>1. ASSUME NEW i \in Running' PROVE i \in Running
    <3>1. PICK u \in Thread : \E n \in 1 .. Len(stack'[u]) : stack'[u][n].task = i
      BY DEF Running
    <3>2. PICK n \in 1 .. Len(stack'[u]) : stack'[u][n].task = i
      BY <3>1
    <3>3. i \in Item /\ i # NoItem
      BY Constants DEF Running
    <3>4. ~(u = t /\ n = m + 1)
      BY <3>2, <3>3 DEF SplitAt
    <3>5. n \in 1 .. Len(stack[u]) /\ stack[u][n].task = i
      BY <3>2, <3>4, SplitPlaces DEF SplitAt
    <3> QED BY <3>3, <3>5 DEF Running
  <2>2. ASSUME NEW i \in Running PROVE i \in Running'
    <3>1. PICK u \in Thread : \E n \in 1 .. Len(stack[u]) : stack[u][n].task = i
      BY DEF Running
    <3>2. PICK n \in 1 .. Len(stack[u]) : stack[u][n].task = i
      BY <3>1
    <3>3. n \in 1 .. Len(stack'[u]) /\ ~(u = t /\ n = m + 1)
      BY SplitPlaces
    <3>4. stack'[u][n].task = i
      BY <3>2, <3>3, SplitPlaces DEF SplitAt
    <3> QED BY <3>3, <3>4 DEF Running
  <2> QED BY <2>1, <2>2
<1>6. Pivots' = Pivots \cup {p}
  <2>1. ASSUME NEW i \in Pivots' PROVE i \in Pivots \cup {p}
    <3>1. PICK u \in Thread : \E n \in 1 .. Len(stack'[u]) : stack'[u][n].pivot = i
      BY DEF Pivots
    <3>2. PICK n \in 1 .. Len(stack'[u]) : stack'[u][n].pivot = i
      BY <3>1
    <3>3. i \in Item /\ i # NoItem
      BY Constants DEF Pivots
    <3>4. ~(u = t /\ n = m + 1)
      BY <3>2, <3>3 DEF SplitAt
    <3>5. i = p \/ (n \in 1 .. Len(stack[u]) /\ stack[u][n].pivot = i)
      BY <3>2, <3>4, SplitPlaces DEF SplitAt
    <3> QED BY <3>3, <3>5 DEF Pivots
  <2>2. ASSUME NEW i \in Pivots PROVE i \in Pivots'
    <3>1. PICK u \in Thread : \E n \in 1 .. Len(stack[u]) : stack[u][n].pivot = i
      BY DEF Pivots
    <3>2. PICK n \in 1 .. Len(stack[u]) : stack[u][n].pivot = i
      BY <3>1
    <3>3. i \in Item /\ i # NoItem
      BY Constants DEF Pivots
    <3>4. stack[t][m].pivot = NoItem
      BY <1>1 DEF Frames, Chunks
    <3>5. n \in 1 .. Len(stack'[u]) /\ ~(u = t /\ n = m + 1) /\ ~(u = t /\ n = m)
      BY <3>2, <3>3, <3>4, SplitPlaces
    <3>6. stack'[u][n].pivot = i
      BY <3>2, <3>5, SplitPlaces
    <3> QED BY <3>3, <3>5, <3>6 DEF Pivots
  <2>3. p \in Pivots'
    <3>1. m \in 1 .. Len(stack'[t]) /\ stack'[t][m].pivot = p
      BY <1>1, SplitPlaces DEF SplitAt
    <3> QED BY <3>1 DEF Pivots
  <2> QED BY <2>1, <2>2, <2>3
<1>7. p \notin Less(chunk, p) /\ Less(chunk, p) \subseteq chunk
  BY Constants DEF Less
<1>8. ASSUME NEW i \in Unsplit' PROVE i \in Unsplit /\ i # p
  <2>1. i \in Item
    BY DEF Unsplit
  <2>2. CASE \E j \in Queued' : i \in lower'[j]
    <3>1. PICK j \in Queued' : i \in lower'[j]
      BY <2>2
    <3>2. j \in Item
      BY DEF Queued
    <3>3. CASE j = p
      <4>1. i \in Less(chunk, p)
        BY <3>1, <3>3, <1>1 DEF Typing
      <4>2. i \in chunk /\ i # p
        BY <4>1, <1>7
      <4> QED BY <2>1, <4>2, <1>1 DEF Unsplit
    <3>4. CASE j # p
      <4>1. j \in Queued /\ i \in lower[j]
        BY <3>1, <3>2, <3>4, <1>1, <1>4 DEF Typing
      <4>2. lower[j] \cap chunk = {}
        BY <4>1, <1>1 DEF Apart
      <4> QED BY <4>1, <4>2, <2>1, <1>1 DEF Unsplit
    <3> QED BY <3>3, <3>4
  <2>3. CASE \E u \in Thread : \E n \in 1 .. Len(stack'[u]) :
               stack'[u][n].at = "split" /\ i \in stack'[u][n].chunk
    <3>1. PICK u \in Thread : \E n \in 1 .. Len(stack'[u]) :
               stack'[u][n].at = "split" /\ i \in stack'[u][n].chunk
      BY <2>3
    <3>2. PICK n \in 1 .. Len(stack'[u]) : stack'[u][n].at = "split" /\ i \in stack'[u][n].chunk
      BY <3>1
    <3>3. CASE u = t /\ n = m + 1
      <4>1. i \in chunk /\ i # p
        BY <3>2, <3>3 DEF SplitAt
      <4> QED BY <4>1, <2>1, <1>1 DEF Unsplit
    <3>4. CASE ~(u = t /\ n = m + 1)
      <4>1. ~(u = t /\ n = m)
        BY <3>2 DEF SplitAt
      <4>2. n \in 1 .. Len(stack[u]) /\ stack[u][n].at = "split" /\ i \in stack[u][n].chunk
        BY <3>2, <3>4, <4>1, SplitPlaces
      <4>3. chunk \cap stack[u][n].chunk = {}
        BY <4>1, <4>2, <1>1 DEF Apart
      <4> QED BY <4>2, <4>3, <2>1, <1>1 DEF Unsplit
    <3> QED BY <3>3, <3>4
  <2> QED BY <2>2, <2>3 DEF Unsplit
<1>9. Finished \subseteq Finished'
  BY <1>2, <1>4, <1>5, <1>6, <1>8 DEF Finished
<1> QED BY <1>2, <1>3, <1>4, <1>5, <1>6, <1>8, <1>9

LEMMA SplitFrames ==
  ASSUME Typing, Frames, Unique, Apart, Lifecycle, NEW t \in Thread, NEW p \in Item, SplitAt(t, p),
         NEW q \in Queue, NEW k \in Nat, NEW s \in {0, 1}, Added(q, p, k, s)
  PROVE  Frames'
<1>0. PICK m, chunk : m = Len(stack[t]) /\ chunk = stack[t][m].chunk
  OBVIOUS
<1>1. /\ m \in Nat \ {0} /\ stack[t][m].at = "split" /\ p \in chunk /\ chunk \subseteq Item
      /\ lower' = [lower EXCEPT ![p] = Less(chunk, p)]
      /\ \A u \in Thread : u # t => stack'[u] = stack[u]
      /\ Len(stack'[t]) = m + 1
      /\ \A n \in 1 .. m - 1 : stack'[t][n] = stack[t][n]
      /\ stack'[t][m].at = "called" /\ stack'[t][m].pivot = p
      /\ stack'[t][m].task = stack[t][m].task /\ stack'[t][m].chunk = chunk
      /\ stack'[t][m + 1].at = "split" /\ stack'[t][m + 1].task = NoItem
      /\ stack'[t][m + 1].pivot = NoItem
      /\ stack'[t][m + 1].chunk = chunk \ (Less(chunk, p) \cup {p})
  BY <1>0 DEF SplitAt
<1>2. p \notin Running /\ p \notin Pivots /\ Finished \subseteq Finished'
  BY SplitSets
<1>3. ASSUME NEW u \in Thread, NEW n \in 1 .. Len(stack[u])
      PROVE  /\ lower'[stack[u][n].task] = lower[stack[u][n].task] \/ stack[u][n].task = NoItem
             /\ lower'[stack[u][n].pivot] = lower[stack[u][n].pivot] \/ stack[u][n].pivot = NoItem
  <2>1. /\ stack[u][n].task \in Item \cup {NoItem}
        /\ stack[u][n].pivot \in Item \cup {NoItem}
    BY Places, CallFields
  <2>2. stack[u][n].task # p /\ stack[u][n].pivot # p
    BY <1>2 DEF Running, Pivots
  <2>3. \A i \in Item : i # p => lower'[i] = lower[i]
    BY <1>1 DEF Typing
  <2> QED BY <2>1, <2>2, <2>3
<1>4. ASSUME NEW u \in Thread, u # t, NEW n \in 1 .. Len(stack'[u])
      PROVE  Nesting(u, n)' /\ Chunks(u, n)'
  <2>1. stack'[u] = stack[u]
    BY <1>1, <1>4
  <2>2. \A j \in 1 .. Len(stack[u]) :
          /\ lower'[stack[u][j].task] = lower[stack[u][j].task] \/ stack[u][j].task = NoItem
          /\ lower'[stack[u][j].pivot] = lower[stack[u][j].pivot] \/ stack[u][j].pivot = NoItem
    BY <1>3
  <2>3. \A j \in 1 .. Len(stack'[u]) : Nesting(u, j)' /\ Chunks(u, j)'
    BY <2>1, <2>2, <1>2, SameFrames
  <2> QED BY <2>3
<1>5. ASSUME NEW n \in 1 .. m, n # 1, stack[t][n].task = NoItem
      PROVE  Higher(stack[t][n - 1])' = Higher(stack[t][n - 1])
  <2>1. n - 1 \in 1 .. Len(stack[t]) /\ stack[t][n - 1].pivot # NoItem
    BY <1>0, <1>5, CallerHasPivot
  <2>2. stack'[t][n - 1] = stack[t][n - 1]
    <3>1. n - 1 \in 1 .. m - 1
      BY <1>1, <1>5
    <3> QED BY <3>1, <1>1
  <2>3. lower'[stack[t][n - 1].pivot] = lower[stack[t][n - 1].pivot]
    BY <2>1, <1>3
  <2> QED BY <2>2, <2>3 DEF Higher
<1>6. ASSUME NEW n \in 1 .. m PROVE Nesting(t, n) /\ Chunks(t, n)
  BY <1>0 DEF Frames
<1>7. ASSUME NEW n \in 1 .. m - 1 PROVE Nesting(t, n)' /\ Chunks(t, n)'
  <2>1. n \in 1 .. m /\ n < m /\ n + 1 \in 1 .. m /\ n < m + 1 /\ n # m + 1
    BY <1>1
  <2>2. stack'[t][n] = stack[t][n]
    BY <1>1
  <2>3. stack'[t][n + 1].task = stack[t][n + 1].task
    <3>1. n + 1 = m \/ n + 1 \in 1 .. m - 1
      BY <1>1
    <3> QED BY <3>1, <1>1
  <2>4. /\ stack[t][n].at \in {"called", "wait"}
        /\ stack[t][n].at = "called" <=> stack[t][n + 1].task = NoItem
        /\ n = 1 => (stack[t][n].task = NoItem <=> t = Main)
    BY <2>1, <1>6, <1>0 DEF Nesting
  <2>5. Nesting(t, n)'
    BY <2>1, <2>2, <2>3, <2>4, <1>1 DEF Nesting
  <2>6. Chunks(t, n)'
    <3>1. n \in 1 .. Len(stack[t]) /\ Chunks(t, n)
      BY <2>1, <1>6, <1>0
    <3>2. /\ lower'[stack[t][n].task] = lower[stack[t][n].task] \/ stack[t][n].task = NoItem
          /\ lower'[stack[t][n].pivot] = lower[stack[t][n].pivot] \/ stack[t][n].pivot = NoItem
      BY <3>1, <1>3
    <3>3. n # 1 /\ stack[t][n].task = NoItem => Higher(stack[t][n - 1])' = Higher(stack[t][n - 1])
      BY <2>1, <1>5
    <3> QED BY <3>1, <3>2, <3>3, <2>2, <1>2, SameChunks
  <2> QED BY <2>5, <2>6
<1>8. Nesting(t, m)' /\ Chunks(t, m)'
  <2>1. m \in 1 .. m /\ m # m + 1 /\ m < m + 1
    BY <1>1
  <2>2. m = 1 => (stack[t][m].task = NoItem <=> t = Main)
    BY <2>1, <1>6 DEF Nesting
  <2>3. Nesting(t, m)'
    BY <2>1, <2>2, <1>1 DEF Nesting
  <2>4. p # NoItem /\ p \in Item
    BY Constants
  <2>5. lower'[p] = Less(chunk, p)
    BY <1>1, <2>4 DEF Typing
  <2>6. stack[t][m].task # NoItem => chunk = lower'[stack[t][m].task]
    <3>1. stack[t][m].task # NoItem => chunk = lower[stack[t][m].task]
      BY <2>1, <1>6, <1>0 DEF Chunks
    <3>2. m \in 1 .. Len(stack[t])
      BY <2>1, <1>0
    <3>3. lower'[stack[t][m].task] = lower[stack[t][m].task] \/ stack[t][m].task = NoItem
      BY <3>2, <1>3
    <3> QED BY <3>1, <3>3
  <2>7. stack[t][m].task = NoItem => chunk = IF m = 1 THEN Item ELSE Higher(stack[t][m - 1])'
    <3>1. stack[t][m].task = NoItem => chunk = IF m = 1 THEN Item ELSE Higher(stack[t][m - 1])
      BY <2>1, <1>6, <1>0 DEF Chunks
    <3> QED BY <3>1, <2>1, <1>5
  <2>8. Chunks(t, m)'
    <3>1. stack'[t][m].at = "split" <=> stack'[t][m].pivot = NoItem
      BY <2>4, <1>1
    <3>2. /\ stack'[t][m].pivot \in stack'[t][m].chunk
          /\ lower'[stack'[t][m].pivot] = Less(stack'[t][m].chunk, stack'[t][m].pivot)
      BY <2>5, <1>1
    <3>3. stack'[t][m].task # NoItem => stack'[t][m].chunk = lower'[stack'[t][m].task]
      BY <2>6, <1>1
    <3>4. stack'[t][m].task = NoItem =>
            stack'[t][m].chunk = IF m = 1 THEN Item ELSE Higher(stack[t][m - 1])'
      BY <2>7, <1>1
    <3>5. stack'[t][m].at # "wait"
      BY <1>1
    <3> QED BY <3>1, <3>2, <3>3, <3>4, <3>5 DEF Chunks, Higher, Less
  <2> QED BY <2>3, <2>8
<1>9. Nesting(t, m + 1)' /\ Chunks(t, m + 1)'
  <2>1. m + 1 # 1 /\ ~(m + 1 < m + 1) /\ (m + 1) - 1 = m
    BY <1>1
  <2>2. Nesting(t, m + 1)'
    BY <2>1, <1>1 DEF Nesting
  <2>3. lower'[p] = Less(chunk, p)
    BY <1>1 DEF Typing
  <2>4. Higher(stack[t][m])' = chunk \ (Less(chunk, p) \cup {p})
    BY <2>3, <1>1 DEF Higher
  <2>5. stack'[t][m + 1].chunk = IF m + 1 = 1 THEN Item ELSE Higher(stack[t][(m + 1) - 1])'
    BY <2>1, <2>4, <1>1
  <2> QED BY <2>2, <2>5, <1>1 DEF Chunks, Higher
<1>10. ASSUME NEW n \in 1 .. Len(stack'[t]) PROVE Nesting(t, n)' /\ Chunks(t, n)'
  <2>1. n \in 1 .. m - 1 \/ n = m \/ n = m + 1
    BY <1>1
  <2> QED BY <2>1, <1>7, <1>8, <1>9
<1> QED BY <1>4, <1>10 DEF Frames

LEMMA SplitUnique ==
  ASSUME Typing, Frames, Unique, Apart, Lifecycle, NEW t \in Thread, NEW p \in Item, SplitAt(t, p),
         NEW q \in Queue, NEW k \in Nat, NEW s \in {0, 1}, Added(q, p, k, s)
  PROVE  Unique'
<1>0. PICK m : m = Len(stack[t])
  OBVIOUS
<1>1. p \notin Queued /\ p \notin Pivots /\ p # NoItem
  BY SplitSets, Constants
<1> DEFINE old(r, n) == IF r = q THEN n - s ELSE n
<1>2. ASSUME NEW r \in Queue, NEW n \in 1 .. Len(queue'[r]), ~(r = q /\ n = k)
      PROVE  /\ old(r, n) \in 1 .. Len(queue[r]) /\ queue'[r][n] = queue[r][old(r, n)]
             /\ queue'[r][n] # p
  <2>1. old(r, n) \in 1 .. Len(queue[r]) /\ queue'[r][n] = queue[r][old(r, n)]
    <3>1. CASE r = q
      BY <1>2, <3>1 DEF Added
    <3>2. CASE r # q
      BY <3>2 DEF Added
    <3> QED BY <3>1, <3>2
  <2>2. queue[r][old(r, n)] \in Item
    BY <2>1, Places
  <2>3. queue[r][old(r, n)] \in Queued
    BY <2>1, <2>2 DEF Queued
  <2> QED BY <2>1, <2>3, <1>1
<1>3. ASSUME NEW r \in Queue, NEW v \in Queue,
             NEW i \in 1 .. Len(queue'[r]), NEW j \in 1 .. Len(queue'[v]), queue'[r][i] = queue'[v][j]
      PROVE  r = v /\ i = j
  <2>1. CASE r = q /\ i = k
    <3>1. queue'[r][i] = p
      BY <2>1 DEF Added
    <3> QED BY <2>1, <3>1, <1>2, <1>3
  <2>2. CASE v = q /\ j = k
    <3>1. queue'[v][j] = p
      BY <2>2 DEF Added
    <3> QED BY <2>2, <3>1, <1>2, <1>3
  <2>3. CASE ~(r = q /\ i = k) /\ ~(v = q /\ j = k)
    <3>1. /\ old(r, i) \in 1 .. Len(queue[r]) /\ queue'[r][i] = queue[r][old(r, i)]
          /\ old(v, j) \in 1 .. Len(queue[v]) /\ queue'[v][j] = queue[v][old(v, j)]
      BY <2>3, <1>2
    <3> HIDE DEF old
    <3>5. queue[r][old(r, i)] = queue[v][old(v, j)]
      BY <3>1, <1>3
    <3>2. r = v /\ old(r, i) = old(v, j)
      BY <3>1, <3>5 DEF Unique
    <3>3. i \in Int /\ j \in Int /\ s \in Int
      OBVIOUS
    <3>4. i = j
      BY <3>2, <3>3 DEF old
    <3> QED BY <3>2, <3>4
  <2> QED BY <2>1, <2>2, <2>3
<1>4. ASSUME NEW u \in Thread, NEW n \in 1 .. Len(stack'[u])
      PROVE  /\ stack'[u][n].task = NoItem \/ (n \in 1 .. Len(stack[u]) /\ stack'[u][n].task = stack[u][n].task)
             /\ \/ stack'[u][n].pivot = NoItem
                \/ stack'[u][n].pivot = p /\ u = t /\ n = m
                \/ /\ n \in 1 .. Len(stack[u]) /\ stack'[u][n].pivot = stack[u][n].pivot
                   /\ stack'[u][n].pivot # p
  <2>1. CASE u = t /\ n = m + 1
    BY <2>1, <1>0 DEF SplitAt
  <2>2. CASE n \in 1 .. Len(stack[u]) /\ u = t /\ n = m
    BY <2>2, <1>0 DEF SplitAt
  <2>3. CASE n \in 1 .. Len(stack[u]) /\ ~(u = t /\ n = m) /\ stack'[u][n] = stack[u][n]
    <3>1. stack[u][n].pivot # p
      BY <2>3, <1>1 DEF Pivots
    <3> QED BY <2>3, <3>1
  <2> QED BY <2>1, <2>2, <2>3, <1>0, SplitPlaces
<1>5. ASSUME NEW u \in Thread, NEW v \in Thread,
             NEW i \in 1 .. Len(stack'[u]), NEW j \in 1 .. Len(stack'[v]),
             stack'[u][i].task = stack'[v][j].task, stack'[u][i].task # NoItem
      PROVE  u = v /\ i = j
  <2>1. /\ i \in 1 .. Len(stack[u]) /\ stack'[u][i].task = stack[u][i].task
        /\ j \in 1 .. Len(stack[v]) /\ stack'[v][j].task = stack[v][j].task
    BY <1>4, <1>5
  <2>2. stack[u][i].task = stack[v][j].task /\ stack[u][i].task # NoItem
    BY <2>1, <1>5
  <2> QED BY <2>1, <2>2 DEF Unique
<1>6. ASSUME NEW u \in Thread, NEW v \in Thread,
             NEW i \in 1 .. Len(stack'[u]), NEW j \in 1 .. Len(stack'[v]),
             stack'[u][i].pivot = stack'[v][j].pivot, stack'[u][i].pivot # NoItem
      PROVE  u = v /\ i = j
  <2>1. CASE stack'[u][i].pivot = p
    BY <2>1, <1>4, <1>6
  <2>2. CASE stack'[u][i].pivot # p
    <3>1. /\ i \in 1 .. Len(stack[u]) /\ stack'[u][i].pivot = stack[u][i].pivot
          /\ j \in 1 .. Len(stack[v]) /\ stack'[v][j].pivot = stack[v][j].pivot
      BY <2>2, <1>4, <1>6
    <3>2. stack[u][i].pivot = stack[v][j].pivot /\ stack[u][i].pivot # NoItem
      BY <3>1, <1>6
    <3> QED BY <3>1, <3>2 DEF Unique
  <2> QED BY <2>1, <2>2
<1> QED BY <1>3, <1>5, <1>6 DEF Unique

LEMMA SplitApart ==
  ASSUME Typing, Frames, Unique, Apart, Lifecycle, NEW t \in Thread, NEW p \in Item, SplitAt(t, p),
         NEW q \in Queue, NEW k \in Nat, NEW s \in {0, 1}, Added(q, p, k, s)
  PROVE  Apart'
<1>0. PICK m, chunk : m = Len(stack[t]) /\ chunk = stack[t][m].chunk
  OBVIOUS
<1>1. /\ m \in 1 .. Len(stack[t]) /\ stack[t][m].at = "split" /\ chunk \subseteq Item
      /\ lower' = [lower EXCEPT ![p] = Less(chunk, p)]
      /\ stack'[t][m + 1].chunk = chunk \ (Less(chunk, p) \cup {p})
      /\ stack'[t][m].at # "split"
  BY <1>0, SplitPlaces DEF SplitAt
<1>2. Queued' = Queued \cup {p} /\ p \notin Queued /\ Queued \subseteq Item
  BY SplitSets DEF Queued
<1>3. lower'[p] = Less(chunk, p) /\ \A i \in Item : i # p => lower'[i] = lower[i]
  BY <1>1 DEF Typing
<1>4. Less(chunk, p) \subseteq chunk
  BY DEF Less
<1>5. \A i \in Queued : lower'[i] = lower[i] /\ lower[i] \cap chunk = {}
  BY <1>0, <1>1, <1>2, <1>3 DEF Apart
<1>6. \A i, j \in Queued' : i # j => lower'[i] \cap lower'[j] = {}
  <2> SUFFICES ASSUME NEW i \in Queued', NEW j \in Queued', i # j
               PROVE  lower'[i] \cap lower'[j] = {}
    OBVIOUS
  <2>1. CASE i = p
    BY <2>1, <1>2, <1>3, <1>4, <1>5
  <2>2. CASE j = p
    BY <2>2, <1>2, <1>3, <1>4, <1>5
  <2>3. CASE i # p /\ j # p
    BY <2>3, <1>2, <1>5 DEF Apart
  <2> QED BY <2>1, <2>2, <2>3
<1> DEFINE old(u, n) == IF u = t /\ n = m + 1 THEN m ELSE n
<1>7. ASSUME NEW u \in Thread, NEW n \in 1 .. Len(stack'[u]), stack'[u][n].at = "split"
      PROVE  /\ old(u, n) \in 1 .. Len(stack[u]) /\ stack[u][old(u, n)].at = "split"
             /\ stack'[u][n].chunk \subseteq stack[u][old(u, n)].chunk
             /\ ~(u = t /\ n = m)
  <2>1. CASE u = t /\ n = m + 1
    <3>1. old(u, n) = m
      BY <2>1
    <3>2. ~(u = t /\ n = m)
      BY <2>1, <1>1
    <3> QED BY <2>1, <3>1, <3>2, <1>0, <1>1
  <2>2. CASE ~(u = t /\ n = m + 1)
    <3>1. ~(u = t /\ n = m) /\ old(u, n) = n
      BY <2>2, <1>1, <1>7
    <3>2. n \in 1 .. Len(stack[u]) /\ stack'[u][n] = stack[u][n]
      BY <2>2, <3>1, <1>0, SplitPlaces
    <3> QED BY <3>1, <3>2, <1>7
  <2> QED BY <2>1, <2>2
<1>8. ASSUME NEW u \in Thread, NEW n \in 1 .. Len(stack'[u]), stack'[u][n].at = "split",
             NEW i \in Queued'
      PROVE  lower'[i] \cap stack'[u][n].chunk = {}
  <2>1. CASE i # p
    <3>1. i \in Queued /\ lower'[i] = lower[i]
      BY <2>1, <1>2, <1>5
    <3>2. lower[i] \cap stack[u][old(u, n)].chunk = {}
      BY <3>1, <1>7, <1>8 DEF Apart
    <3> QED BY <3>1, <3>2, <1>7, <1>8
  <2>2. CASE i = p /\ u = t /\ n = m + 1
    BY <2>2, <1>1, <1>3
  <2>3. CASE i = p /\ ~(u = t /\ n = m + 1)
    <3>1. old(u, n) = n /\ ~(u = t /\ n = m)
      BY <2>3, <1>7, <1>8
    <3>2. chunk \cap stack[u][n].chunk = {}
      BY <3>1, <1>0, <1>1, <1>7, <1>8 DEF Apart
    <3>3. stack'[u][n].chunk \subseteq stack[u][n].chunk
      BY <3>1, <1>7, <1>8
    <3> QED BY <2>3, <3>2, <3>3, <1>3, <1>4
  <2> QED BY <2>1, <2>2, <2>3
<1>9. ASSUME NEW u \in Thread, NEW n \in 1 .. Len(stack'[u]), stack'[u][n].at = "split",
             NEW v \in Thread, NEW j \in 1 .. Len(stack'[v]), stack'[v][j].at = "split",
             ~(u = v /\ n = j)
      PROVE  stack'[u][n].chunk \cap stack'[v][j].chunk = {}
  <2>1. /\ old(u, n) \in 1 .. Len(stack[u]) /\ stack[u][old(u, n)].at = "split"
        /\ stack'[u][n].chunk \subseteq stack[u][old(u, n)].chunk
        /\ ~(u = t /\ n = m)
    BY <1>7, <1>9
  <2>2. /\ old(v, j) \in 1 .. Len(stack[v]) /\ stack[v][old(v, j)].at = "split"
        /\ stack'[v][j].chunk \subseteq stack[v][old(v, j)].chunk
        /\ ~(v = t /\ j = m)
    BY <1>7, <1>9
  <2>3. ~(u = v /\ old(u, n) = old(v, j))
    BY <2>1, <2>2, <1>9
  <2> HIDE DEF old
  <2>4. stack[u][old(u, n)].chunk \cap stack[v][old(v, j)].chunk = {}
    BY <2>1, <2>2, <2>3 DEF Apart
  <2> QED BY <2>1, <2>2, <2>4
<1> QED BY <1>6, <1>8, <1>9 DEF Apart

LEMMA SplitLifecycle ==
  ASSUME Typing, Frames, Unique, Apart, Lifecycle, NEW t \in Thread, NEW p \in Item, SplitAt(t, p),
         NEW q \in Queue, NEW k \in Nat, NEW s \in {0, 1}, Added(q, p, k, s), future' = future
  PROVE  Lifecycle'
<1>1. /\ p \in Unsplit /\ p \notin Queued /\ p \notin Running /\ p \notin Pivots
      /\ Queued' = Queued \cup {p} /\ Running' = Running /\ Pivots' = Pivots \cup {p}
      /\ Unsplit' \subseteq Unsplit \ {p}
      /\ Finished \subseteq Finished'
  BY SplitSets
<1>2. /\ Unsplit \cap (Queued \cup Running \cup Pivots) = {}
      /\ Queued \cap Running = {}
      /\ \A i \in Unsplit \cup Queued \cup Running : future[i] = Pending
      /\ \A i \in Pivots : future[i] = Pending => i \in Queued \cup Running
      /\ \A i \in Pivots : future[i] # Broken
  BY DEF Lifecycle
<1>3. future[p] = Pending
  BY <1>1, <1>2
<1>4. ASSUME NEW i \in Item, future'[i].state = "ready"
      PROVE  Sorts(future'[i].list, lower'[i]) /\ lower'[i] \subseteq Finished'
  <2>1. i # p
    BY <1>3, <1>4, Outcomes
  <2>2. lower'[i] = lower[i]
    BY <2>1 DEF SplitAt, Typing
  <2>3. Sorts(future[i].list, lower[i]) /\ lower[i] \subseteq Finished
    BY <1>4 DEF Lifecycle
  <2> QED BY <2>2, <2>3, <1>1
<1>5. /\ Unsplit' \cap (Queued' \cup Running' \cup Pivots') = {}
      /\ Queued' \cap Running' = {}
  BY <1>1, <1>2
<1>6. \A i \in Unsplit' \cup Queued' \cup Running' : future'[i] = Pending
  BY <1>1, <1>2
<1>7. /\ \A i \in Pivots' : future'[i] = Pending => i \in Queued' \cup Running'
      /\ \A i \in Pivots' : future'[i] # Broken
  BY <1>1, <1>2, <1>3, Outcomes
<1> QED BY <1>4, <1>5, <1>6, <1>7 DEF Lifecycle

LEMMA SplitOwnTasks ==
  ASSUME Typing, Frames, Unique, Apart, Lifecycle, OwnTasks, NEW t \in Thread, NEW p \in Item, SplitAt(t, p),
         NEW q \in Queue, NEW k \in Nat, NEW s \in {0, 1}, Added(q, p, k, s), q = Pool \/ q = t
  PROVE  OwnTasks'
<1>0. PICK m : m = Len(stack[t])
  OBVIOUS
<1>1. p \notin Queued /\ p \notin Pivots
  BY SplitSets
<1> SUFFICES ASSUME NEW w \in Worker, NEW i \in 1 .. Len(queue'[w]),
                    NEW u \in Thread, NEW n \in 1 .. Len(stack'[u]), stack'[u][n].pivot = queue'[w][i]
             PROVE  u = w
  BY DEF OwnTasks
<1>2. w \in Queue /\ w # Pool
  BY Constants
<1>3. stack'[u][n].pivot \in Item /\ stack'[u][n].pivot # NoItem
  <2>1. queue'[w] \in Seq(Item)
    BY <1>2 DEF Added
  <2> QED BY <2>1, Constants, ElementOfSeq
<1>4. CASE stack'[u][n].pivot = p
  <2>1. u = t
    <3>1. ~(n \in 1 .. Len(stack[u]) /\ stack[u][n].pivot = p)
      BY <1>1 DEF Pivots
    <3> QED BY <3>1, <1>0, <1>4, SplitPlaces
  <2>2. w = q
    <3> SUFFICES ASSUME w # q PROVE FALSE
      OBVIOUS
    <3>1. queue'[w] = queue[w]
      BY <1>2 DEF Added
    <3> QED BY <3>1, <1>1, <1>2, <1>4 DEF Queued
  <2> QED BY <2>1, <2>2, <1>2
<1>5. CASE stack'[u][n].pivot # p
  <2>1. n \in 1 .. Len(stack[u]) /\ stack[u][n].pivot = stack'[u][n].pivot
    <3>1. ~(u = t /\ n = m + 1) /\ ~(u = t /\ n = m)
      BY <1>0, <1>3, <1>5 DEF SplitAt
    <3> QED BY <3>1, <1>0, SplitPlaces
  <2>2. \E j \in 1 .. Len(queue[w]) : queue[w][j] = queue'[w][i]
    <3>1. CASE w = q
      <4>1. i # k
        BY <3>1, <1>5 DEF Added
      <4> QED BY <3>1, <4>1 DEF Added
    <3>2. CASE w # q
      BY <3>2, <1>2 DEF Added
    <3> QED BY <3>1, <3>2
  <2> QED BY <2>1, <2>2 DEF OwnTasks
<1> QED BY <1>4, <1>5

LEMMA SplitStep ==
  ASSUME IInv, NEW t \in Thread, Split(t)
  PROVE  IInv'
<1> USE DEF IInv
<1>1. PICK p \in Item : Submit(t, p) /\ SplitAt(t, p)
  BY SplitShape
<1>2. PICK q \in Queue, k \in Nat, s \in {0, 1} : (q = Pool \/ q = t) /\ Added(q, p, k, s)
  BY <1>1, SubmitShape
<1>3. UNCHANGED <<kind, future, scan, pc, m_done, output>> /\ At(t, "split")
  BY DEF Split
<1>4. /\ \A u \in Thread : u # t => stack'[u] = stack[u]
      /\ stack' \in [Thread -> Seq(CallType)]
      /\ stack[t] # <<>> /\ stack'[t] # <<>>
  <2>1. Len(stack[t]) \in Nat \ {0} /\ Len(stack'[t]) = Len(stack[t]) + 1
    BY <1>1 DEF SplitAt
  <2>2. Len(stack'[t]) # 0
    BY <2>1
  <2> QED BY <1>1, <1>3, <2>2, EmptySeq DEF SplitAt, At
<1>5. Finished \subseteq Finished'
  BY <1>1, <1>2, SplitSets
<1>6. Typing'
  <2>1. lower' \in [Item -> SUBSET Item]
    BY <1>1 DEF SplitAt, Typing, Less
  <2>2. queue' \in [Queue -> Seq(Item)]
    BY <1>2 DEF Added
  <2> QED BY <1>3, <1>4, <2>1, <2>2 DEF Typing
<1>7. Scanning'
  <2> SUFFICES ASSUME NEW u \in Thread, scan[u] # 0
               PROVE  /\ scan[u] <= Len(Search(u)')
                      /\ stack'[u] = <<>> \/ At(u, "wait")'
                      /\ u = Main => stack'[u] # <<>>
                      /\ u # Main => pc[u] = "loop"
    BY <1>3 DEF Scanning
  <2>1. u # t
    BY <1>3, <1>4 DEF Scanning, At
  <2>2. Search(u)' = Search(u)
    BY <1>3 DEF Search, OtherQueues
  <2>3. At(u, "wait")' <=> At(u, "wait")
    BY <2>1, <1>4 DEF At, Top
  <2> QED BY <2>1, <2>2, <2>3, <1>4 DEF Scanning
<1>8. Phases'
  <2>1. pc[Main] # "construct"
    BY <1>4 DEF Phases
  <2>2. stack'[Main] # <<>> <=> stack[Main] # <<>>
    BY <1>4, Constants
  <2>3. \A w \in Worker : stack'[w] # <<>> => pc[w] = "loop"
    BY <1>4, Constants DEF Phases
  <2>4. output.state = "ready" => Sorts(output.list, Item) /\ Item \subseteq Finished'
    BY <1>5 DEF Phases
  <2> QED BY <1>3, <2>1, <2>2, <2>3, <2>4 DEF Phases
<1>9. Frames' /\ Unique' /\ Apart'
  BY <1>1, <1>2, SplitFrames, SplitUnique, SplitApart
<1>10. Lifecycle'
  BY <1>1, <1>2, <1>3, SplitLifecycle
<1>11. OwnTasks'
  BY <1>1, <1>2, SplitOwnTasks
<1> QED BY <1>6, <1>7, <1>8, <1>9, <1>10, <1>11

(***************************************************************************)
(* A task is taken from a queue                                            *)
(***************************************************************************)
(* Call c has been put on the stack of t. *)
Pushed(t, c) ==
  /\ stack' \in [Thread -> Seq(CallType)]
  /\ \A u \in Thread : u # t => stack'[u] = stack[u]
  /\ Len(stack[t]) \in Nat /\ Len(stack'[t]) = Len(stack[t]) + 1
  /\ \A n \in 1 .. Len(stack[t]) : stack'[t][n] = stack[t][n]
  /\ stack'[t][Len(stack[t]) + 1] = c

LEMMA PushShape ==
  ASSUME Typing, NEW t \in Thread, NEW c \in CallType, stack' = [stack EXCEPT ![t] = Append(stack[t], c)]
  PROVE  Pushed(t, c)
<1>1. stack[t] \in Seq(CallType) /\ Len(stack[t]) \in Nat
  BY Places
<1> DEFINE new == Append(stack[t], c)
<1>2. /\ new \in Seq(CallType) /\ Len(new) = Len(stack[t]) + 1
      /\ \A n \in 1 .. Len(stack[t]) : new[n] = stack[t][n]
      /\ new[Len(stack[t]) + 1] = c
  BY <1>1, AppendProperties
<1> HIDE DEF new
<1>3. stack' \in [Thread -> Seq(CallType)] /\ stack'[t] = new /\ \A u \in Thread : u # t => stack'[u] = stack[u]
  BY <1>2 DEF new, Typing
<1> QED BY <1>1, <1>2, <1>3 DEF Pushed

LEMMA PushPlaces ==
  ASSUME Typing, NEW t \in Thread, NEW c \in CallType, Pushed(t, c)
  PROVE  /\ \A u \in Thread : \A n \in 1 .. Len(stack'[u]) :
              \/ u = t /\ n = Len(stack[t]) + 1
              \/ n \in 1 .. Len(stack[u]) /\ stack'[u][n] = stack[u][n]
         /\ \A u \in Thread : \A n \in 1 .. Len(stack[u]) :
              n \in 1 .. Len(stack'[u]) /\ stack'[u][n] = stack[u][n]
         /\ Len(stack[t]) + 1 \in 1 .. Len(stack'[t])
<1>0. PICK m \in Nat : m = Len(stack[t])
  BY DEF Pushed
<1>1. ASSUME NEW u \in Thread, NEW n \in 1 .. Len(stack'[u])
      PROVE  (u = t /\ n = m + 1) \/ (n \in 1 .. Len(stack[u]) /\ stack'[u][n] = stack[u][n])
  <2>1. CASE u # t
    BY <2>1 DEF Pushed
  <2>2. CASE u = t
    <3>1. n \in 1 .. m + 1
      BY <2>2, <1>0 DEF Pushed
    <3>2. n = m + 1 \/ n \in 1 .. m
      BY <3>1
    <3> QED BY <2>2, <3>2, <1>0 DEF Pushed
  <2> QED BY <2>1, <2>2
<1>2. ASSUME NEW u \in Thread, NEW n \in 1 .. Len(stack[u])
      PROVE  n \in 1 .. Len(stack'[u]) /\ stack'[u][n] = stack[u][n]
  <2>1. CASE u # t
    BY <2>1 DEF Pushed
  <2>2. CASE u = t
    <3>1. n \in 1 .. m + 1
      BY <2>2, <1>0
    <3> QED BY <2>2, <3>1, <1>0 DEF Pushed
  <2> QED BY <2>1, <2>2
<1>3. m + 1 \in 1 .. Len(stack'[t])
  BY <1>0 DEF Pushed
<1> QED BY <1>0, <1>1, <1>2, <1>3

(* Task h has been taken from the front of queue q. *)
Removed(q, h) ==
  /\ queue' \in [Queue -> Seq(Item)]
  /\ \A r \in Queue : r # q => queue'[r] = queue[r]
  /\ 1 \in 1 .. Len(queue[q]) /\ queue[q][1] = h
  /\ \A n \in 1 .. Len(queue'[q]) :
       n + 1 \in 1 .. Len(queue[q]) /\ queue'[q][n] = queue[q][n + 1]
  /\ \A n \in 1 .. Len(queue[q]) : n # 1 =>
       n - 1 \in 1 .. Len(queue'[q]) /\ queue[q][n] = queue'[q][n - 1]

LEMMA TakeShape ==
  ASSUME Typing, Scanning, NEW t \in Thread, TakeTask(t)
  PROVE  \E q \in Queue, h \in Item : Removed(q, h) /\ Pushed(t, Call(h, lower[h]))
<1> DEFINE q == Search(t)[scan[t]]
           L == Len(queue[q])
           h == Head(queue[q])
<1>1. scan[t] \in 1 .. Len(Search(t)) /\ q \in Queue
  <2>1. /\ scan[t] \in Nat \ {0} /\ scan[t] <= Len(Search(t)) /\ Len(Search(t)) \in 1 .. Workers + 2
        /\ \A k \in 1 .. Len(Search(t)) : Search(t)[k] \in Queue
    BY SearchWell DEF TakeTask, Scanning, Typing
  <2>2. scan[t] \in 1 .. Len(Search(t))
    BY <2>1
  <2> QED BY <2>1, <2>2
<1>2. /\ queue[q] # <<>>
      /\ queue' = [queue EXCEPT ![q] = Tail(queue[q])]
      /\ stack' = [stack EXCEPT ![t] = Append(stack[t], Call(h, lower[h]))]
  BY DEF TakeTask
<1> HIDE DEF q
<1>3. queue[q] \in Seq(Item) /\ L \in Nat \ {0}
  BY <1>1, <1>2, Places
<1>4. /\ h \in Item /\ Tail(queue[q]) \in Seq(Item) /\ Len(Tail(queue[q])) = L - 1
      /\ \A i \in 1 .. Len(Tail(queue[q])) : Tail(queue[q])[i] = queue[q][i + 1]
  BY <1>2, <1>3, HeadTailProperties
<1>5. queue[q][1] = h /\ 1 \in 1 .. L
  BY <1>3
<1>6. /\ queue' \in [Queue -> Seq(Item)] /\ queue'[q] = Tail(queue[q])
      /\ \A r \in Queue : r # q => queue'[r] = queue[r]
  BY <1>1, <1>2, <1>4 DEF Typing
<1>7. \A n \in 1 .. Len(queue'[q]) : n + 1 \in 1 .. L /\ queue'[q][n] = queue[q][n + 1]
  BY <1>3, <1>4, <1>6
<1>8. ASSUME NEW n \in 1 .. L, n # 1
      PROVE  n - 1 \in 1 .. Len(queue'[q]) /\ queue[q][n] = queue'[q][n - 1]
  <2>1. n - 1 \in 1 .. Len(queue'[q]) /\ (n - 1) + 1 = n
    BY <1>3, <1>4, <1>6, <1>8
  <2> QED BY <2>1, <1>7
<1>9. Removed(q, h)
  BY <1>5, <1>6, <1>7, <1>8 DEF Removed
<1>10. Call(h, lower[h]) \in CallType
  BY <1>4, NewCalls DEF Typing
<1>11. Pushed(t, Call(h, lower[h]))
  BY <1>2, <1>10, PushShape
<1> QED BY <1>1, <1>4, <1>9, <1>11

(* The call of a task that has been taken. *)
LEMMA TakenCall ==
  ASSUME Typing, NEW t \in Thread, NEW h \in Item, Pushed(t, Call(h, lower[h]))
  PROVE  /\ Call(h, lower[h]) \in CallType
         /\ stack'[t][Len(stack[t]) + 1].at = "split" /\ stack'[t][Len(stack[t]) + 1].task = h
         /\ stack'[t][Len(stack[t]) + 1].chunk = lower[h] /\ stack'[t][Len(stack[t]) + 1].pivot = NoItem
<1>1. h \in Item \cup {NoItem} /\ lower[h] \in SUBSET Item
  BY DEF Typing
<1>2. stack'[t][Len(stack[t]) + 1] = Call(h, lower[h])
  BY DEF Pushed
<1> QED BY <1>1, <1>2, NewCalls

LEMMA TakeSets ==
  ASSUME Typing, Unique, Lifecycle, NEW t \in Thread, NEW q \in Queue, NEW h \in Item,
         Removed(q, h), Pushed(t, Call(h, lower[h])), lower' = lower
  PROVE  /\ h \in Queued /\ h \notin Running /\ h \notin Unsplit
         /\ Queued' = Queued \ {h} /\ Running' = Running \cup {h} /\ Pivots' = Pivots
         /\ Unsplit' \subseteq Unsplit
         /\ Finished \subseteq Finished'
<1>0. PICK m : m = Len(stack[t])
  OBVIOUS
<1>1. h \in Queued
  BY DEF Removed, Queued
<1>2. h \notin Running /\ h \notin Unsplit
  BY <1>1 DEF Lifecycle
<1>3. Queued' = Queued \ {h}
  <2>1. ASSUME NEW i \in Queued' PROVE i \in Queued /\ i # h
    <3>1. PICK r \in Queue : \E n \in 1 .. Len(queue'[r]) : queue'[r][n] = i
      BY DEF Queued
    <3>2. PICK n \in 1 .. Len(queue'[r]) : queue'[r][n] = i
      BY <3>1
    <3>3. i \in Item
      BY DEF Queued
    <3>4. CASE r = q
      <4>1. n + 1 \in 1 .. Len(queue[q]) /\ queue[q][n + 1] = i
        BY <3>2, <3>4 DEF Removed
      <4>2. n + 1 # 1
        BY <3>2
      <4>3. i # h
        BY <4>1, <4>2 DEF Removed, Unique
      <4> QED BY <4>1, <4>3, <3>3 DEF Queued
    <3>5. CASE r # q
      <4>1. n \in 1 .. Len(queue[r]) /\ queue[r][n] = i
        BY <3>2, <3>5 DEF Removed
      <4>2. i # h
        BY <4>1, <3>5 DEF Removed, Unique
      <4> QED BY <4>1, <4>2, <3>3 DEF Queued
    <3> QED BY <3>4, <3>5
  <2>2. ASSUME NEW i \in Queued, i # h PROVE i \in Queued'
    <3>1. PICK r \in Queue : \E n \in 1 .. Len(queue[r]) : queue[r][n] = i
      BY DEF Queued
    <3>2. PICK n \in 1 .. Len(queue[r]) : queue[r][n] = i
      BY <3>1
    <3>3. i \in Item
      BY DEF Queued
    <3>4. CASE r = q
      <4>1. n # 1
        BY <2>2, <3>2, <3>4 DEF Removed
      <4>2. n - 1 \in 1 .. Len(queue'[q]) /\ queue'[q][n - 1] = i
        BY <3>2, <3>4, <4>1 DEF Removed
      <4> QED BY <4>2, <3>3 DEF Queued
    <3>5. CASE r # q
      BY <3>2, <3>3, <3>5 DEF Removed, Queued
    <3> QED BY <3>4, <3>5
  <2> QED BY <2>1, <2>2
<1>4. Running' = Running \cup {h}
  <2>1. ASSUME NEW i \in Running' PROVE i \in Running \cup {h}
    <3>1. PICK u \in Thread : \E n \in 1 .. Len(stack'[u]) : stack'[u][n].task = i
      BY DEF Running
    <3>2. PICK n \in 1 .. Len(stack'[u]) : stack'[u][n].task = i
      BY <3>1
    <3>3. CASE u = t /\ n = m + 1
      BY <3>2, <3>3, <1>0, TakenCall
    <3>4. CASE ~(u = t /\ n = m + 1)
      <4>1. n \in 1 .. Len(stack[u]) /\ stack'[u][n] = stack[u][n]
        BY <3>4, <1>0, PushPlaces, TakenCall
      <4> QED BY <4>1, <3>2 DEF Running
    <3> QED BY <3>3, <3>4
  <2>2. ASSUME NEW i \in Running PROVE i \in Running'
    <3>1. PICK u \in Thread : \E n \in 1 .. Len(stack[u]) : stack[u][n].task = i
      BY DEF Running
    <3>2. PICK n \in 1 .. Len(stack[u]) : stack[u][n].task = i
      BY <3>1
    <3>3. n \in 1 .. Len(stack'[u]) /\ stack'[u][n] = stack[u][n]
      BY PushPlaces, TakenCall
    <3>4. i \in Item
      BY DEF Running
    <3> QED BY <3>2, <3>3, <3>4 DEF Running
  <2>3. h \in Running'
    <3>1. m + 1 \in 1 .. Len(stack'[t]) /\ stack'[t][m + 1].task = h
      BY <1>0, PushPlaces, TakenCall
    <3> QED BY <3>1 DEF Running
  <2> QED BY <2>1, <2>2, <2>3
<1>5. Pivots' = Pivots
  <2>1. ASSUME NEW i \in Pivots' PROVE i \in Pivots
    <3>1. PICK u \in Thread : \E n \in 1 .. Len(stack'[u]) : stack'[u][n].pivot = i
      BY DEF Pivots
    <3>2. PICK n \in 1 .. Len(stack'[u]) : stack'[u][n].pivot = i
      BY <3>1
    <3>3. i \in Item /\ i # NoItem
      BY Constants DEF Pivots
    <3>4. ~(u = t /\ n = m + 1)
      BY <3>2, <3>3, <1>0, TakenCall
    <3>5. n \in 1 .. Len(stack[u]) /\ stack'[u][n] = stack[u][n]
      BY <3>4, <1>0, PushPlaces, TakenCall
    <3> QED BY <3>2, <3>3, <3>5 DEF Pivots
  <2>2. ASSUME NEW i \in Pivots PROVE i \in Pivots'
    <3>1. PICK u \in Thread : \E n \in 1 .. Len(stack[u]) : stack[u][n].pivot = i
      BY DEF Pivots
    <3>2. PICK n \in 1 .. Len(stack[u]) : stack[u][n].pivot = i
      BY <3>1
    <3>3. n \in 1 .. Len(stack'[u]) /\ stack'[u][n] = stack[u][n]
      BY PushPlaces, TakenCall
    <3>4. i \in Item
      BY DEF Pivots
    <3> QED BY <3>2, <3>3, <3>4 DEF Pivots
  <2> QED BY <2>1, <2>2
<1>6. ASSUME NEW i \in Unsplit' PROVE i \in Unsplit
  <2>1. i \in Item
    BY DEF Unsplit
  <2>2. CASE \E j \in Queued' : i \in lower'[j]
    BY <2>1, <2>2, <1>3 DEF Unsplit
  <2>3. CASE \E u \in Thread : \E n \in 1 .. Len(stack'[u]) :
               stack'[u][n].at = "split" /\ i \in stack'[u][n].chunk
    <3>1. PICK u \in Thread : \E n \in 1 .. Len(stack'[u]) :
               stack'[u][n].at = "split" /\ i \in stack'[u][n].chunk
      BY <2>3
    <3>2. PICK n \in 1 .. Len(stack'[u]) : stack'[u][n].at = "split" /\ i \in stack'[u][n].chunk
      BY <3>1
    <3>3. CASE u = t /\ n = m + 1
      <4>1. i \in lower[h]
        BY <3>2, <3>3, <1>0, TakenCall
      <4> QED BY <4>1, <2>1, <1>1 DEF Unsplit
    <3>4. CASE ~(u = t /\ n = m + 1)
      <4>1. n \in 1 .. Len(stack[u]) /\ stack'[u][n] = stack[u][n]
        BY <3>4, <1>0, PushPlaces, TakenCall
      <4> QED BY <4>1, <3>2, <2>1 DEF Unsplit
    <3> QED BY <3>3, <3>4
  <2> QED BY <2>2, <2>3 DEF Unsplit
<1>7. Finished \subseteq Finished'
  BY <1>1, <1>3, <1>4, <1>5, <1>6 DEF Finished
<1> QED BY <1>1, <1>2, <1>3, <1>4, <1>5, <1>6, <1>7

LEMMA TakeFrames ==
  ASSUME Typing, Scanning, Frames, Unique, Lifecycle, NEW t \in Thread, scan[t] # 0,
         NEW q \in Queue, NEW h \in Item,
         Removed(q, h), Pushed(t, Call(h, lower[h])), lower' = lower
  PROVE  Frames'
<1>0. PICK m : m = Len(stack[t])
  OBVIOUS
<1>1. /\ stack'[t][m + 1].at = "split" /\ stack'[t][m + 1].task = h
      /\ stack'[t][m + 1].chunk = lower[h] /\ stack'[t][m + 1].pivot = NoItem
      /\ Call(h, lower[h]) \in CallType
  BY <1>0, TakenCall
<1>2. /\ m \in Nat /\ Len(stack'[t]) = m + 1
      /\ \A u \in Thread : u # t => stack'[u] = stack[u]
  BY <1>0 DEF Pushed
<1>3. Finished \subseteq Finished'
  BY TakeSets
<1>4. h # NoItem
  BY Constants
<1>5. ASSUME NEW u \in Thread, NEW n \in 1 .. Len(stack[u])
      PROVE  Nesting(u, n)' /\ Chunks(u, n)'
  <2>1. n \in 1 .. Len(stack'[u]) /\ stack'[u][n] = stack[u][n]
    BY <1>1, PushPlaces
  <2>2. Nesting(u, n) /\ Chunks(u, n)
    BY DEF Frames
  <2>3. Nesting(u, n)'
    <3>1. CASE u # t
      <4>1. stack'[u] = stack[u]
        BY <3>1, <1>2
      <4> QED BY <4>1, <2>2 DEF Nesting
    <3>2. CASE u = t /\ n = m
      <4>1. stack[t][m].at = "wait"
        <5>1. stack[t] # <<>>
          BY <3>2, <1>0, Places
        <5> QED BY <5>1, <1>0 DEF Scanning, At, Top, Last
      <4>2. n # m + 1
        BY <3>2, <1>2
      <4>3. n = 1 => (stack[t][m].task = NoItem <=> t = Main)
        BY <2>2, <3>2 DEF Nesting
      <4> QED BY <4>1, <4>2, <4>3, <2>1, <3>2, <1>1, <1>2, <1>4 DEF Nesting
    <3>3. CASE u = t /\ n # m
      <4>1. n < m /\ n + 1 \in 1 .. Len(stack[t]) /\ n # m + 1 /\ n < m + 1 /\ n < Len(stack[t])
        BY <3>3, <1>0, <1>2
      <4>2. stack'[t][n + 1] = stack[t][n + 1]
        BY <4>1, <1>1, PushPlaces
      <4> QED BY <4>1, <4>2, <2>1, <2>2, <3>3, <1>2 DEF Nesting
    <3> QED BY <3>1, <3>2, <3>3
  <2>4. n # 1 /\ stack[u][n].task = NoItem => Higher(stack[u][n - 1])' = Higher(stack[u][n - 1])
    <3> HAVE n # 1 /\ stack[u][n].task = NoItem
    <3>1. n - 1 \in 1 .. Len(stack[u])
      BY CallerHasPivot
    <3>2. stack'[u][n - 1] = stack[u][n - 1]
      BY <3>1, <1>1, PushPlaces
    <3> QED BY <3>2 DEF Higher
  <2>5. Chunks(u, n)'
    <3>1. /\ lower'[stack[u][n].task] = lower[stack[u][n].task] \/ stack[u][n].task = NoItem
          /\ lower'[stack[u][n].pivot] = lower[stack[u][n].pivot] \/ stack[u][n].pivot = NoItem
      OBVIOUS
    <3> QED BY <3>1, <2>1, <2>2, <2>4, <1>3, SameChunks
  <2> QED BY <2>3, <2>5
<1>6. Nesting(t, m + 1)' /\ Chunks(t, m + 1)'
  <2>1. m + 1 = 1 => t # Main
    <3> HAVE m + 1 = 1
    <3>1. stack[t] = <<>>
      BY <1>0, <1>2, Places
    <3> QED BY <3>1 DEF Scanning
  <2>2. Nesting(t, m + 1)'
    <3>1. ~(m + 1 < m + 1)
      BY <1>2
    <3> QED BY <2>1, <3>1, <1>1, <1>2, <1>4 DEF Nesting
  <2>3. Chunks(t, m + 1)'
    BY <1>1, <1>4 DEF Chunks
  <2> QED BY <2>2, <2>3
<1>7. ASSUME NEW u \in Thread, NEW n \in 1 .. Len(stack'[u])
      PROVE  Nesting(u, n)' /\ Chunks(u, n)'
  <2>1. (u = t /\ n = m + 1) \/ n \in 1 .. Len(stack[u])
    BY <1>0, <1>1, PushPlaces
  <2> QED BY <2>1, <1>5, <1>6
<1> QED BY <1>7 DEF Frames

LEMMA TakeUnique ==
  ASSUME Typing, Unique, Lifecycle, NEW t \in Thread, NEW q \in Queue, NEW h \in Item,
         Removed(q, h), Pushed(t, Call(h, lower[h])), lower' = lower
  PROVE  Unique'
<1>0. PICK m : m = Len(stack[t])
  OBVIOUS
<1>1. /\ stack'[t][m + 1].task = h /\ stack'[t][m + 1].pivot = NoItem
      /\ Call(h, lower[h]) \in CallType
  BY <1>0, TakenCall
<1>2. h \notin Running /\ h # NoItem
  BY TakeSets, Constants
<1> DEFINE old(r, n) == IF r = q THEN n + 1 ELSE n
<1>3. ASSUME NEW r \in Queue, NEW n \in 1 .. Len(queue'[r])
      PROVE  old(r, n) \in 1 .. Len(queue[r]) /\ queue'[r][n] = queue[r][old(r, n)]
  <2>1. CASE r = q
    BY <2>1 DEF Removed
  <2>2. CASE r # q
    BY <2>2 DEF Removed
  <2> QED BY <2>1, <2>2
<1>4. ASSUME NEW r \in Queue, NEW v \in Queue,
             NEW i \in 1 .. Len(queue'[r]), NEW j \in 1 .. Len(queue'[v]), queue'[r][i] = queue'[v][j]
      PROVE  r = v /\ i = j
  <2>1. /\ old(r, i) \in 1 .. Len(queue[r]) /\ queue'[r][i] = queue[r][old(r, i)]
        /\ old(v, j) \in 1 .. Len(queue[v]) /\ queue'[v][j] = queue[v][old(v, j)]
    BY <1>3
  <2> HIDE DEF old
  <2>2. queue[r][old(r, i)] = queue[v][old(v, j)]
    BY <2>1, <1>4
  <2>3. r = v /\ old(r, i) = old(v, j)
    BY <2>1, <2>2 DEF Unique
  <2>4. i \in Int /\ j \in Int
    OBVIOUS
  <2>5. i = j
    BY <2>3, <2>4 DEF old
  <2> QED BY <2>3, <2>5
<1>5. ASSUME NEW u \in Thread, NEW n \in 1 .. Len(stack'[u])
      PROVE  \/ u = t /\ n = m + 1 /\ stack'[u][n].task = h /\ stack'[u][n].pivot = NoItem
             \/ /\ n \in 1 .. Len(stack[u]) /\ stack'[u][n] = stack[u][n]
                /\ stack'[u][n].task # h
  <2>1. (u = t /\ n = m + 1) \/ (n \in 1 .. Len(stack[u]) /\ stack'[u][n] = stack[u][n])
    BY <1>0, <1>1, PushPlaces
  <2>2. n \in 1 .. Len(stack[u]) => stack[u][n].task # h
    BY <1>2 DEF Running
  <2> QED BY <2>1, <2>2, <1>1
<1>6. ASSUME NEW u \in Thread, NEW v \in Thread,
             NEW i \in 1 .. Len(stack'[u]), NEW j \in 1 .. Len(stack'[v]),
             stack'[u][i].task = stack'[v][j].task, stack'[u][i].task # NoItem
      PROVE  u = v /\ i = j
  <2>1. CASE stack'[u][i].task = h
    BY <2>1, <1>5, <1>6
  <2>2. CASE stack'[u][i].task # h
    <3>1. /\ i \in 1 .. Len(stack[u]) /\ stack'[u][i] = stack[u][i]
          /\ j \in 1 .. Len(stack[v]) /\ stack'[v][j] = stack[v][j]
      BY <2>2, <1>5, <1>6
    <3>2. stack[u][i].task = stack[v][j].task /\ stack[u][i].task # NoItem
      BY <3>1, <1>6
    <3> QED BY <3>1, <3>2 DEF Unique
  <2> QED BY <2>1, <2>2
<1>7. ASSUME NEW u \in Thread, NEW v \in Thread,
             NEW i \in 1 .. Len(stack'[u]), NEW j \in 1 .. Len(stack'[v]),
             stack'[u][i].pivot = stack'[v][j].pivot, stack'[u][i].pivot # NoItem
      PROVE  u = v /\ i = j
  <2>1. /\ i \in 1 .. Len(stack[u]) /\ stack'[u][i] = stack[u][i]
        /\ j \in 1 .. Len(stack[v]) /\ stack'[v][j] = stack[v][j]
    BY <1>5, <1>7
  <2>2. stack[u][i].pivot = stack[v][j].pivot /\ stack[u][i].pivot # NoItem
    BY <2>1, <1>7
  <2> QED BY <2>1, <2>2 DEF Unique
<1> QED BY <1>4, <1>6, <1>7 DEF Unique

LEMMA TakeApart ==
  ASSUME Typing, Unique, Apart, Lifecycle, NEW t \in Thread, NEW q \in Queue, NEW h \in Item,
         Removed(q, h), Pushed(t, Call(h, lower[h])), lower' = lower
  PROVE  Apart'
<1>0. PICK m : m = Len(stack[t])
  OBVIOUS
<1>1. stack'[t][m + 1].chunk = lower[h] /\ Call(h, lower[h]) \in CallType
  BY <1>0, TakenCall
<1>2. Queued' = Queued \ {h} /\ h \in Queued
  BY TakeSets
<1>3. ASSUME NEW u \in Thread, NEW n \in 1 .. Len(stack'[u]), stack'[u][n].at = "split"
      PROVE  \/ u = t /\ n = m + 1 /\ stack'[u][n].chunk = lower[h]
             \/ /\ n \in 1 .. Len(stack[u]) /\ stack[u][n].at = "split"
                /\ stack'[u][n].chunk = stack[u][n].chunk
  <2>1. (u = t /\ n = m + 1) \/ (n \in 1 .. Len(stack[u]) /\ stack'[u][n] = stack[u][n])
    BY <1>0, <1>1, PushPlaces
  <2> QED BY <2>1, <1>1, <1>3
<1>4. \A i, j \in Queued' : i # j => lower'[i] \cap lower'[j] = {}
  BY <1>2 DEF Apart
<1>5. ASSUME NEW u \in Thread, NEW n \in 1 .. Len(stack'[u]), stack'[u][n].at = "split",
             NEW i \in Queued'
      PROVE  lower'[i] \cap stack'[u][n].chunk = {}
  <2>1. i \in Queued /\ i # h
    BY <1>2
  <2>2. lower[i] \cap lower[h] = {}
    BY <2>1, <1>2 DEF Apart
  <2>3. n \in 1 .. Len(stack[u]) /\ stack[u][n].at = "split" => lower[i] \cap stack[u][n].chunk = {}
    BY <2>1 DEF Apart
  <2> QED BY <2>2, <2>3, <1>3, <1>5
<1>6. ASSUME NEW u \in Thread, NEW n \in 1 .. Len(stack'[u]), stack'[u][n].at = "split",
             NEW v \in Thread, NEW j \in 1 .. Len(stack'[v]), stack'[v][j].at = "split",
             ~(u = v /\ n = j)
      PROVE  stack'[u][n].chunk \cap stack'[v][j].chunk = {}
  <2>1. n \in 1 .. Len(stack[u]) /\ stack[u][n].at = "split" => lower[h] \cap stack[u][n].chunk = {}
    BY <1>2 DEF Apart
  <2>2. j \in 1 .. Len(stack[v]) /\ stack[v][j].at = "split" => lower[h] \cap stack[v][j].chunk = {}
    BY <1>2 DEF Apart
  <2>4. CASE u = t /\ n = m + 1 /\ stack'[u][n].chunk = lower[h]
    <3>1. /\ j \in 1 .. Len(stack[v]) /\ stack[v][j].at = "split"
          /\ stack'[v][j].chunk = stack[v][j].chunk
      BY <2>4, <1>3, <1>6
    <3> QED BY <3>1, <2>2, <2>4
  <2>5. CASE v = t /\ j = m + 1 /\ stack'[v][j].chunk = lower[h]
    <3>1. /\ n \in 1 .. Len(stack[u]) /\ stack[u][n].at = "split"
          /\ stack'[u][n].chunk = stack[u][n].chunk
      BY <2>5, <1>3, <1>6
    <3> QED BY <3>1, <2>1, <2>5
  <2>6. CASE /\ n \in 1 .. Len(stack[u]) /\ stack[u][n].at = "split"
             /\ stack'[u][n].chunk = stack[u][n].chunk
             /\ j \in 1 .. Len(stack[v]) /\ stack[v][j].at = "split"
             /\ stack'[v][j].chunk = stack[v][j].chunk
    BY <2>6, <1>6 DEF Apart
  <2> QED BY <2>4, <2>5, <2>6, <1>3, <1>6
<1> QED BY <1>4, <1>5, <1>6 DEF Apart

LEMMA TakeLifecycle ==
  ASSUME Typing, Unique, Lifecycle, NEW t \in Thread, NEW q \in Queue, NEW h \in Item,
         Removed(q, h), Pushed(t, Call(h, lower[h])), lower' = lower, future' = future
  PROVE  Lifecycle'
<1>1. /\ h \in Queued /\ h \notin Running /\ h \notin Unsplit
      /\ Queued' = Queued \ {h} /\ Running' = Running \cup {h} /\ Pivots' = Pivots
      /\ Unsplit' \subseteq Unsplit
      /\ Finished \subseteq Finished'
  BY TakeSets
<1>2. /\ Unsplit \cap (Queued \cup Running \cup Pivots) = {}
      /\ Queued \cap Running = {}
      /\ \A i \in Unsplit \cup Queued \cup Running : future[i] = Pending
      /\ \A i \in Pivots : future[i] = Pending => i \in Queued \cup Running
      /\ \A i \in Pivots : future[i] # Broken
  BY DEF Lifecycle
<1>3. Queued' \cup Running' = Queued \cup Running
  BY <1>1
<1>4. Unsplit' \cap (Queued' \cup Running' \cup Pivots') = {} /\ Queued' \cap Running' = {}
  BY <1>1, <1>2
<1>5. \A i \in Unsplit' \cup Queued' \cup Running' : future'[i] = Pending
  BY <1>1, <1>2
<1>6. /\ \A i \in Pivots' : future'[i] = Pending => i \in Queued' \cup Running'
      /\ \A i \in Pivots' : future'[i] # Broken
  BY <1>1, <1>2, <1>3
<1>7. \A i \in Item : future'[i].state = "ready" =>
        Sorts(future'[i].list, lower'[i]) /\ lower'[i] \subseteq Finished'
  BY <1>1 DEF Lifecycle
<1> QED BY <1>4, <1>5, <1>6, <1>7 DEF Lifecycle

LEMMA TakeOwnTasks ==
  ASSUME Typing, Unique, OwnTasks, NEW t \in Thread, NEW q \in Queue, NEW h \in Item,
         Removed(q, h), Pushed(t, Call(h, lower[h]))
  PROVE  OwnTasks'
<1>0. PICK m : m = Len(stack[t])
  OBVIOUS
<1> SUFFICES ASSUME NEW w \in Worker, NEW i \in 1 .. Len(queue'[w]),
                    NEW u \in Thread, NEW n \in 1 .. Len(stack'[u]), stack'[u][n].pivot = queue'[w][i]
             PROVE  u = w
  BY DEF OwnTasks
<1>1. w \in Queue
  BY Constants
<1>2. queue'[w][i] # NoItem
  <2>1. queue'[w] \in Seq(Item)
    BY <1>1 DEF Removed
  <2> QED BY <2>1, Constants, ElementOfSeq
<1>3. ~(u = t /\ n = m + 1)
  BY <1>0, <1>2, TakenCall
<1>4. n \in 1 .. Len(stack[u]) /\ stack'[u][n] = stack[u][n]
  BY <1>0, <1>3, PushPlaces, TakenCall
<1>5. \E j \in 1 .. Len(queue[w]) : queue[w][j] = queue'[w][i]
  <2>1. CASE w = q
    BY <2>1 DEF Removed
  <2>2. CASE w # q
    BY <2>2, <1>1 DEF Removed
  <2> QED BY <2>1, <2>2
<1> QED BY <1>4, <1>5 DEF OwnTasks

LEMMA TakeStep ==
  ASSUME IInv, NEW t \in Thread, TakeTask(t)
  PROVE  IInv'
<1> USE DEF IInv
<1>1. PICK q \in Queue, h \in Item : Removed(q, h) /\ Pushed(t, Call(h, lower[h]))
  BY TakeShape
<1>2. /\ UNCHANGED <<kind, lower, future, pc, m_done, output>>
      /\ scan[t] # 0 /\ scan' = [scan EXCEPT ![t] = 0]
  BY DEF TakeTask
<1>3. /\ \A u \in Thread : u # t => stack'[u] = stack[u]
      /\ stack' \in [Thread -> Seq(CallType)] /\ stack'[t] # <<>>
  <2>1. Len(stack[t]) \in Nat /\ Len(stack'[t]) = Len(stack[t]) + 1
    BY <1>1 DEF Pushed
  <2>2. Len(stack'[t]) # 0
    BY <2>1
  <2> QED BY <1>1, <2>2, EmptySeq DEF Pushed
<1>4. Finished \subseteq Finished'
  BY <1>1, <1>2, TakeSets
<1>5. Typing'
  <2>1. queue' \in [Queue -> Seq(Item)]
    BY <1>1 DEF Removed
  <2>2. scan' \in [Thread -> Nat]
    BY <1>2 DEF Typing
  <2> QED BY <1>2, <1>3, <2>1, <2>2 DEF Typing
<1>6. Scanning'
  <2> SUFFICES ASSUME NEW u \in Thread, scan'[u] # 0
               PROVE  /\ scan'[u] <= Len(Search(u)')
                      /\ stack'[u] = <<>> \/ At(u, "wait")'
                      /\ u = Main => stack'[u] # <<>>
                      /\ u # Main => pc[u] = "loop"
    BY <1>2 DEF Scanning
  <2>1. u # t /\ scan'[u] = scan[u]
    BY <1>2 DEF Typing
  <2>2. Search(u)' = Search(u)
    BY <1>2 DEF Search, OtherQueues
  <2>3. At(u, "wait")' <=> At(u, "wait")
    BY <2>1, <1>3 DEF At, Top
  <2> QED BY <2>1, <2>2, <2>3, <1>3 DEF Scanning
<1>7. Phases'
  <2>1. pc[Main] # "construct"
    <3>1. Len(queue[q]) # 0
      BY <1>1 DEF Removed
    <3>2. queue[q] # <<>>
      BY <3>1, EmptySeq
    <3> QED BY <3>2 DEF Phases
  <2>2. stack'[Main] # <<>> <=> stack[Main] # <<>>
    BY <1>2, <1>3, Constants DEF Scanning
  <2>3. \A w \in Worker : stack'[w] # <<>> => pc[w] = "loop"
    BY <1>2, <1>3, Constants DEF Phases, Scanning
  <2>4. output.state = "ready" => Sorts(output.list, Item) /\ Item \subseteq Finished'
    BY <1>4 DEF Phases
  <2> QED BY <1>2, <2>1, <2>2, <2>3, <2>4 DEF Phases
<1>8. Frames' /\ Unique' /\ Apart'
  BY <1>1, <1>2, TakeFrames, TakeUnique, TakeApart
<1>9. Lifecycle' /\ OwnTasks'
  BY <1>1, <1>2, TakeLifecycle, TakeOwnTasks
<1> QED BY <1>5, <1>6, <1>7, <1>8, <1>9

(***************************************************************************)
(* The pool begins, rests and ends                                         *)
(***************************************************************************)
(* A step that only moves threads and phases. *)
LEMMA QuietSorting ==
  ASSUME Typing, Sorting, UNCHANGED <<queue, lower, future, stack>>
  PROVE  Sorting' /\ Finished' = Finished
<1>1. Queued' = Queued /\ Running' = Running /\ Pivots' = Pivots
  BY DEF Queued, Running, Pivots
<1>2. Unsplit' = Unsplit
  BY <1>1 DEF Unsplit
<1>3. Finished' = Finished
  BY <1>1, <1>2 DEF Finished
<1>4. Frames'
  <2>1. ASSUME NEW u \in Thread, NEW n \in 1 .. Len(stack'[u]) PROVE Nesting(u, n)' /\ Chunks(u, n)'
    <3>1. \A k \in 1 .. Len(stack[u]) :
            /\ lower'[stack[u][k].task] = lower[stack[u][k].task] \/ stack[u][k].task = NoItem
            /\ lower'[stack[u][k].pivot] = lower[stack[u][k].pivot] \/ stack[u][k].pivot = NoItem
      OBVIOUS
    <3>2. stack'[u] = stack[u] /\ Finished \subseteq Finished' /\ Frames
      BY <1>3 DEF Sorting
    <3>3. \A k \in 1 .. Len(stack'[u]) : Nesting(u, k)' /\ Chunks(u, k)'
      BY <3>1, <3>2, SameFrames
    <3> QED BY <3>3
  <2> QED BY <2>1 DEF Frames
<1>5. Unique'
  BY DEF Sorting, Unique
<1>6. Apart'
  BY <1>1 DEF Sorting, Apart
<1>7. Lifecycle'
  BY <1>1, <1>2, <1>3 DEF Sorting, Lifecycle
<1>8. OwnTasks'
  BY DEF Sorting, OwnTasks
<1> QED BY <1>3, <1>4, <1>5, <1>6, <1>7, <1>8 DEF Sorting

(* The tasks in the queues qs. *)
Dropped(qs) == {i \in Item : \E q \in qs : i \in ToSet(queue[q])}

LEMMA DropShape ==
  ASSUME Typing, NEW qs \in SUBSET Queue, Drop(qs)
  PROVE  /\ queue' \in [Queue -> Seq(Item)] /\ future' \in [Item -> Outcome]
         /\ \A q \in Queue : queue'[q] = IF q \in qs THEN <<>> ELSE queue[q]
         /\ \A i \in Item : future'[i] = IF i \in Dropped(qs) THEN Broken ELSE future[i]
         /\ \A i : i \in Dropped(qs) <=> \E q \in qs : \E n \in 1 .. Len(queue[q]) : queue[q][n] = i
<1>1. queue' = [q \in Queue |-> IF q \in qs THEN <<>> ELSE queue[q]]
  BY DEF Drop
<1>2. future' = [i \in Item |-> IF \E q \in qs : i \in ToSet(queue[q]) THEN Broken ELSE future[i]]
  BY DEF Drop
<1>3. queue' \in [Queue -> Seq(Item)]
  <2>1. <<>> \in Seq(Item)
    BY EmptySeq
  <2> QED BY <1>1, <2>1 DEF Typing
<1>4. future' \in [Item -> Outcome]
  BY <1>2, Outcomes DEF Typing
<1>5. \A i \in Item : future'[i] = IF i \in Dropped(qs) THEN Broken ELSE future[i]
  BY <1>2 DEF Dropped
<1>6. ASSUME NEW i
      PROVE  i \in Dropped(qs) <=> \E q \in qs : \E n \in 1 .. Len(queue[q]) : queue[q][n] = i
  <2>1. \A q \in qs : ToSet(queue[q]) = {queue[q][n] : n \in 1 .. Len(queue[q])}
    BY Places, LenProperties DEF ToSet
  <2>2. \A q \in qs : \A n \in 1 .. Len(queue[q]) : queue[q][n] \in Item
    BY Places
  <2> QED BY <2>1, <2>2 DEF Dropped
<1> QED BY <1>1, <1>3, <1>4, <1>5, <1>6

LEMMA DropSorting ==
  ASSUME Typing, Sorting, NEW qs \in SUBSET Queue, Drop(qs), Dropped(qs) \cap Pivots = {},
         lower' = lower, stack' = stack
  PROVE  Sorting' /\ Finished \subseteq Finished'
<1> USE DEF Sorting
<1> DEFINE D == Dropped(qs)
<1>1. /\ \A q \in Queue : queue'[q] = IF q \in qs THEN <<>> ELSE queue[q]
      /\ \A i \in Item : future'[i] = IF i \in D THEN Broken ELSE future[i]
      /\ \A i : i \in D <=> \E q \in qs : \E n \in 1 .. Len(queue[q]) : queue[q][n] = i
  BY DropShape
<1>2. ASSUME NEW q \in Queue, NEW n \in 1 .. Len(queue'[q])
      PROVE  q \notin qs /\ queue'[q] = queue[q] /\ n \in 1 .. Len(queue[q])
  <2>1. CASE q \in qs
    <3>1. queue'[q] = <<>> /\ Len(<<>>) = 0
      BY <2>1, <1>1, EmptySeq
    <3> QED BY <3>1
  <2>2. CASE q \notin qs
    BY <2>2, <1>1
  <2> QED BY <2>1, <2>2
<1>3. Queued' = Queued \ D /\ D \subseteq Queued
  <2>1. ASSUME NEW i \in Queued' PROVE i \in Queued /\ i \notin D
    <3>1. PICK q \in Queue : \E n \in 1 .. Len(queue'[q]) : queue'[q][n] = i
      BY DEF Queued
    <3>2. PICK n \in 1 .. Len(queue'[q]) : queue'[q][n] = i
      BY <3>1
    <3>3. q \notin qs /\ n \in 1 .. Len(queue[q]) /\ queue[q][n] = i
      BY <3>2, <1>2
    <3>4. i \notin D
      <4> SUFFICES ASSUME i \in D PROVE FALSE
        OBVIOUS
      <4>1. PICK r \in qs : \E k \in 1 .. Len(queue[r]) : queue[r][k] = i
        BY <1>1
      <4>2. PICK k \in 1 .. Len(queue[r]) : queue[r][k] = i
        BY <4>1
      <4>3. r \in Queue /\ queue[q][n] = queue[r][k]
        BY <3>3, <4>2
      <4>4. q = r
        BY <3>3, <4>3 DEF Unique
      <4> QED BY <3>3, <4>4
    <3> QED BY <3>3, <3>4 DEF Queued
  <2>2. ASSUME NEW i \in Queued, i \notin D PROVE i \in Queued'
    <3>1. PICK q \in Queue : \E n \in 1 .. Len(queue[q]) : queue[q][n] = i
      BY DEF Queued
    <3>2. PICK n \in 1 .. Len(queue[q]) : queue[q][n] = i
      BY <3>1
    <3>3. q \notin qs
      BY <2>2, <3>2, <1>1
    <3>4. queue'[q] = queue[q]
      BY <3>3, <1>1
    <3> QED BY <3>2, <3>4 DEF Queued
  <2>3. D \subseteq Queued
    <3> SUFFICES ASSUME NEW i \in D PROVE i \in Queued
      OBVIOUS
    <3>1. i \in Item
      BY DEF Dropped
    <3> QED BY <3>1, <1>1 DEF Queued
  <2> QED BY <2>1, <2>2, <2>3
<1> HIDE DEF D
<1>4. Running' = Running /\ Pivots' = Pivots
  BY DEF Running, Pivots
<1>5. Unsplit' \subseteq Unsplit
  BY <1>3 DEF Unsplit
<1>6. Finished \subseteq Finished'
  BY <1>3, <1>4, <1>5 DEF Finished
<1>7. Frames'
  <2>1. ASSUME NEW u \in Thread, NEW n \in 1 .. Len(stack'[u]) PROVE Nesting(u, n)' /\ Chunks(u, n)'
    <3>1. \A k \in 1 .. Len(stack[u]) :
            /\ lower'[stack[u][k].task] = lower[stack[u][k].task] \/ stack[u][k].task = NoItem
            /\ lower'[stack[u][k].pivot] = lower[stack[u][k].pivot] \/ stack[u][k].pivot = NoItem
      OBVIOUS
    <3>2. stack'[u] = stack[u]
      OBVIOUS
    <3>3. \A k \in 1 .. Len(stack'[u]) : Nesting(u, k)' /\ Chunks(u, k)'
      BY <3>1, <3>2, <1>6, SameFrames
    <3> QED BY <3>3
  <2> QED BY <2>1 DEF Frames
<1>8. Unique'
  <2>1. \A p, q \in Queue : \A k \in 1 .. Len(queue'[p]), n \in 1 .. Len(queue'[q]) :
          queue'[p][k] = queue'[q][n] => p = q /\ k = n
    BY <1>2 DEF Unique
  <2> QED BY <2>1 DEF Unique
<1>9. Apart'
  BY <1>3 DEF Apart
<1>10. Lifecycle'
  <2>1. /\ Unsplit \cap (Queued \cup Running \cup Pivots) = {}
        /\ Queued \cap Running = {}
        /\ \A i \in Unsplit \cup Queued \cup Running : future[i] = Pending
        /\ \A i \in Pivots : future[i] = Pending => i \in Queued \cup Running
        /\ \A i \in Pivots : future[i] # Broken
    BY DEF Lifecycle
  <2>2. Queued \subseteq Item /\ Running \subseteq Item /\ Pivots \subseteq Item /\ Unsplit \subseteq Item
    BY DEF Queued, Running, Pivots, Unsplit
  <2>3. Unsplit' \cap (Queued' \cup Running' \cup Pivots') = {} /\ Queued' \cap Running' = {}
    BY <2>1, <1>3, <1>4, <1>5
  <2>4. \A i \in Unsplit' \cup Queued' \cup Running' : i \in Item /\ i \notin D /\ future[i] = Pending
    BY <2>1, <2>2, <1>3, <1>4, <1>5
  <2>5. \A i \in Unsplit' \cup Queued' \cup Running' : future'[i] = Pending
    BY <2>4, <1>1
  <2>6. \A i \in Pivots' : i \in Item /\ i \notin D /\ i \in Pivots
    BY <2>2, <1>4 DEF D
  <2>7. \A i \in Pivots' : future'[i] = Pending => i \in Queued' \cup Running'
    BY <2>1, <2>6, <1>1, <1>3, <1>4
  <2>8. \A i \in Pivots' : future'[i] # Broken
    BY <2>1, <2>6, <1>1
  <2>9. \A i \in Item : future'[i].state = "ready" =>
          Sorts(future'[i].list, lower'[i]) /\ lower'[i] \subseteq Finished'
    BY <1>1, <1>6, Outcomes DEF Lifecycle
  <2> QED BY <2>3, <2>5, <2>7, <2>8, <2>9 DEF Lifecycle
<1>11. OwnTasks'
  BY <1>2, Constants DEF OwnTasks
<1> QED BY <1>6, <1>7, <1>8, <1>9, <1>10, <1>11

(* A worker leaves, or the pool is destroyed. *)
LEMMA StopStep ==
  ASSUME IInv, NEW w \in Worker, Stop(w)
  PROVE  IInv'
<1> USE DEF IInv
<1> DEFINE qs == IF kind = "local" THEN {w} ELSE {}
<1>1. /\ pc[w] = "loop" /\ stack[w] = <<>> /\ scan[w] = 0
      /\ Drop(qs) /\ pc' = [pc EXCEPT ![w] = "exit"]
      /\ UNCHANGED <<kind, lower, stack, scan, m_done, output>>
  BY DEF Stop
<1>2. qs \in SUBSET Queue /\ qs \subseteq {w} /\ w \in Thread /\ w # Main
  BY Constants
<1> HIDE DEF qs
<1>3. Dropped(qs) \cap Pivots = {}
  <2> SUFFICES ASSUME NEW i \in Dropped(qs), i \in Pivots PROVE FALSE
    OBVIOUS
  <2>1. PICK k \in 1 .. Len(queue[w]) : queue[w][k] = i
    BY <1>1, <1>2, DropShape
  <2>2. PICK u \in Thread : \E n \in 1 .. Len(stack[u]) : stack[u][n].pivot = i
    BY DEF Pivots
  <2>3. PICK n \in 1 .. Len(stack[u]) : stack[u][n].pivot = i
    BY <2>2
  <2>4. u = w
    BY <2>1, <2>3 DEF OwnTasks
  <2>5. Len(stack[u]) = 0
    BY <2>4, <1>1, EmptySeq
  <2> QED BY <2>5
<1>4. Sorting' /\ Finished \subseteq Finished'
  BY <1>1, <1>2, <1>3, DropSorting DEF Sorting
<1>5. Typing'
  <2>1. queue' \in [Queue -> Seq(Item)] /\ future' \in [Item -> Outcome]
    BY <1>1, <1>2, DropShape
  <2>2. pc' \in [Thread -> {"new", "loop", "exit", "construct", "sort", "destroy", "join",
                            "end", "terminated"}]
    BY <1>1 DEF Typing
  <2> QED BY <2>1, <2>2, <1>1 DEF Typing
<1>6. \A u \in Thread : u # w => pc'[u] = pc[u]
  BY <1>1, <1>2 DEF Typing
<1>7. Scanning'
  <2>1. \A u \in Thread : Search(u)' = Search(u) /\ (At(u, "wait")' <=> At(u, "wait"))
    BY <1>1 DEF Search, OtherQueues, At, Top
  <2> QED BY <2>1, <1>1, <1>6 DEF Scanning
<1>8. Phases'
  <2>1. pc'[Main] = pc[Main]
    BY <1>2, <1>6, Constants
  <2>2. pc[Main] # "construct"
    BY <1>1 DEF Phases, Stop
  <2>3. \A v \in Worker : stack'[v] # <<>> => pc'[v] = "loop"
    BY <1>1, <1>6, Constants DEF Phases
  <2> QED BY <2>1, <2>2, <2>3, <1>1, <1>4 DEF Phases
<1> QED BY <1>4, <1>5, <1>7, <1>8 DEF Sorting

LEMMA JoinStep ==
  ASSUME IInv, JoinAndDestroy
  PROVE  IInv'
<1> USE DEF IInv
<1>1. /\ pc[Main] = "join" /\ \A w \in Worker : pc[w] \in {"new", "exit"}
      /\ Drop(Queue) /\ pc' = [pc EXCEPT ![Main] = "end"]
      /\ UNCHANGED <<kind, lower, stack, scan, m_done, output>>
  BY DEF JoinAndDestroy
<1>2. \A u \in Thread : stack[u] = <<>>
  BY <1>1, Constants DEF Phases
<1>3. Pivots = {}
  <2>1. \A u \in Thread : Len(stack[u]) = 0
    BY <1>2, EmptySeq
  <2> QED BY <2>1 DEF Pivots
<1>4. Sorting' /\ Finished \subseteq Finished'
  <2>1. Queue \in SUBSET Queue /\ Dropped(Queue) \cap Pivots = {}
    BY <1>3
  <2> QED BY <2>1, <1>1, DropSorting DEF Sorting
<1>5. Typing'
  <2>1. queue' \in [Queue -> Seq(Item)] /\ future' \in [Item -> Outcome]
    BY <1>1, DropShape
  <2>2. pc' \in [Thread -> {"new", "loop", "exit", "construct", "sort", "destroy", "join",
                            "end", "terminated"}]
    BY <1>1 DEF Typing
  <2> QED BY <2>1, <2>2, <1>1 DEF Typing
<1>6. pc'[Main] = "end" /\ \A w \in Worker : pc'[w] = pc[w]
  BY <1>1, Constants DEF Typing
<1>7. Scanning'
  <2>1. \A u \in Thread : Search(u)' = Search(u) /\ (At(u, "wait")' <=> At(u, "wait"))
    BY <1>1 DEF Search, OtherQueues, At, Top
  <2> QED BY <2>1, <1>1, <1>6, Constants DEF Scanning
<1>8. Phases'
  BY <1>1, <1>2, <1>4, <1>6, Constants DEF Phases
<1> QED BY <1>4, <1>5, <1>7, <1>8 DEF Sorting

(* The whole list is given to main's first call. *)
LEMMA BeginStep ==
  ASSUME IInv, BeginSort
  PROVE  IInv'
<1> USE DEF IInv
<1> DEFINE c == Call(NoItem, Item)
<1>1. /\ pc[Main] = "construct" /\ pc' = [pc EXCEPT ![Main] = "sort"]
      /\ stack' = [stack EXCEPT ![Main] = <<c>>]
      /\ UNCHANGED <<kind, queue, lower, future, scan, m_done, output>>
  BY DEF BeginSort
<1>2. /\ \A q \in Queue : queue[q] = <<>>
      /\ \A t \in Thread : stack[t] = <<>>
      /\ \A i \in Item : future[i] = Pending
  BY <1>1 DEF Phases
<1>3. /\ c \in CallType /\ c.at = "split" /\ c.task = NoItem /\ c.chunk = Item /\ c.pivot = NoItem
  BY NewCalls
<1> HIDE DEF c
<1>4. <<c>> \in Seq(CallType) /\ Len(<<c>>) = 1 /\ <<c>>[1] = c /\ <<c>> # <<>>
  BY <1>3
<1>5. /\ stack' \in [Thread -> Seq(CallType)] /\ stack'[Main] = <<c>>
      /\ \A u \in Thread : u # Main => stack'[u] = <<>>
  BY <1>1, <1>2, <1>4, Constants DEF Typing
<1>6. ASSUME NEW u \in Thread, NEW n \in 1 .. Len(stack'[u])
      PROVE  u = Main /\ n = 1 /\ Len(stack'[u]) = 1 /\ stack'[u][n] = c
  <2>1. CASE u = Main
    BY <2>1, <1>4, <1>5
  <2>2. CASE u # Main
    <3>1. Len(stack'[u]) = 0
      BY <2>2, <1>5, EmptySeq
    <3> QED BY <3>1
  <2> QED BY <2>1, <2>2
<1>7. \A q \in Queue : 1 .. Len(queue'[q]) = {}
  <2>1. \A q \in Queue : Len(queue'[q]) = 0
    BY <1>1, <1>2, EmptySeq
  <2> QED BY <2>1
<1>8. Queued' = {} /\ Running' = {} /\ Pivots' = {}
  <2>1. Queued' = {}
    BY <1>7 DEF Queued
  <2>2. Running' = {}
    BY <1>3, <1>6, Constants DEF Running
  <2>3. Pivots' = {}
    BY <1>3, <1>6, Constants DEF Pivots
  <2> QED BY <2>1, <2>2, <2>3
<1>9. Typing'
  <2>1. pc' \in [Thread -> {"new", "loop", "exit", "construct", "sort", "destroy", "join",
                            "end", "terminated"}]
    BY <1>1 DEF Typing
  <2> QED BY <2>1, <1>1, <1>5 DEF Typing
<1>10. pc'[Main] = "sort" /\ \A w \in Worker : pc'[w] = pc[w]
  BY <1>1, Constants DEF Typing
<1>11. Scanning'
  <2> SUFFICES ASSUME NEW u \in Thread, scan[u] # 0
               PROVE  /\ scan[u] <= Len(Search(u)')
                      /\ stack'[u] = <<>> \/ At(u, "wait")'
                      /\ u = Main => stack'[u] # <<>>
                      /\ u # Main => pc'[u] = "loop"
    BY <1>1 DEF Scanning
  <2>1. u # Main
    BY <1>2 DEF Scanning
  <2>2. Search(u)' = Search(u)
    BY <1>1 DEF Search, OtherQueues
  <2> QED BY <2>1, <2>2, <1>5, <1>10, Constants DEF Scanning
<1>12. Phases'
  <2>1. \A w \in Worker : stack'[w] = <<>>
    BY <1>5, Constants
  <2>2. stack'[Main] # <<>>
    BY <1>4, <1>5
  <2>3. output = Pending /\ m_done = FALSE
    BY <1>1 DEF Phases, Typing
  <2> QED BY <2>1, <2>2, <2>3, <1>1, <1>10, Outcomes DEF Phases
<1>13. Frames'
  <2>1. ASSUME NEW u \in Thread, NEW n \in 1 .. Len(stack'[u]) PROVE Nesting(u, n)' /\ Chunks(u, n)'
    <3>1. u = Main /\ n = 1 /\ Len(stack'[u]) = 1 /\ stack'[u][n] = c
      BY <1>6
    <3>2. Nesting(u, n)'
      BY <3>1, <1>3 DEF Nesting
    <3>3. Chunks(u, n)'
      BY <3>1, <1>3 DEF Chunks
    <3> QED BY <3>2, <3>3
  <2> QED BY <2>1 DEF Frames
<1>14. Unique'
  <2>1. \A t, u \in Thread : \A m \in 1 .. Len(stack'[t]), n \in 1 .. Len(stack'[u]) : t = u /\ m = n
    BY <1>6
  <2>2. \A q, r \in Queue : \A m \in 1 .. Len(queue'[q]), n \in 1 .. Len(queue'[r]) : q = r /\ m = n
    BY <1>7
  <2> QED BY <2>1, <2>2 DEF Unique
<1>15. Apart'
  BY <1>6, <1>8 DEF Apart
<1>16. Lifecycle'
  <2>1. \A i \in Unsplit' : i \in Item
    BY DEF Unsplit
  <2>2. \A i \in Item : future'[i] = Pending /\ future'[i].state # "ready"
    BY <1>1, <1>2, Outcomes
  <2> QED BY <2>1, <2>2, <1>8 DEF Lifecycle
<1>17. OwnTasks'
  BY <1>7, Constants DEF OwnTasks
<1> QED BY <1>9, <1>11, <1>12, <1>13, <1>14, <1>15, <1>16, <1>17

(* The steps that do not touch a queue, a future or a stack. *)
LEMMA QuietStep ==
  ASSUME IInv,
         \/ StartThread \/ StartFails \/ GrowthFails \/ SetDone
         \/ \E t \in Thread : HelpOut(t) \/ NextQueue(t)
         \/ \E w \in Worker : WorkOn(w)
         \/ UNCHANGED vars
  PROVE  IInv'
<1> USE DEF IInv
<1>1. UNCHANGED <<kind, queue, lower, future, stack>>
  BY DEF StartThread, StartFails, GrowthFails, SetDone, HelpOut, NextQueue, WorkOn, vars
<1>2. Sorting' /\ Finished' = Finished
  BY <1>1, QuietSorting DEF Sorting
<1>3. \A u \in Thread : Search(u)' = Search(u) /\ (At(u, "wait")' <=> At(u, "wait")) /\ stack'[u] = stack[u]
  BY <1>1 DEF Search, OtherQueues, At, Top
<1>4. CASE StartThread
  <2>1. PICK w \in Worker : pc[w] = "new" /\ pc' = [pc EXCEPT ![w] = "loop"]
    BY <1>4 DEF StartThread
  <2>2. UNCHANGED <<scan, m_done, output>> /\ pc[Main] = "construct"
    BY <1>4 DEF StartThread
  <2>3. pc'[w] = "loop" /\ \A u \in Thread : u # w => pc'[u] = pc[u]
    BY <2>1, Constants DEF Typing
  <2>4. pc'[Main] = pc[Main]
    BY <2>3, Constants
  <2>5. Typing'
    BY <1>1, <2>1, <2>2 DEF Typing
  <2>6. Scanning'
    BY <1>3, <2>2, <2>3 DEF Scanning
  <2>7. Phases'
    BY <1>1, <1>2, <2>2, <2>3, <2>4, Constants DEF Phases
  <2> QED BY <1>2, <2>5, <2>6, <2>7 DEF Sorting
<1>5. CASE StartFails
  <2>1. /\ pc[Main] = "construct" /\ m_done' = TRUE /\ output' = Failed
        /\ pc' = [pc EXCEPT ![Main] = "join"] /\ scan' = scan
    BY <1>5 DEF StartFails
  <2>2. pc'[Main] = "join" /\ \A w \in Worker : pc'[w] = pc[w]
    BY <2>1, Constants DEF Typing
  <2>3. Typing'
    BY <1>1, <2>1, Outcomes DEF Typing
  <2>4. Scanning'
    BY <1>3, <2>1, <2>2, Constants DEF Scanning
  <2>5. Phases'
    BY <1>1, <2>1, <2>2, Outcomes DEF Phases
  <2> QED BY <1>2, <2>3, <2>4, <2>5 DEF Sorting
<1>13. CASE GrowthFails
  <2>1. /\ pc[Main] = "construct" /\ pc' = [pc EXCEPT ![Main] = "terminated"]
        /\ UNCHANGED <<scan, m_done, output>>
    BY <1>13 DEF GrowthFails
  <2>2. pc'[Main] = "terminated" /\ \A w \in Worker : pc'[w] = pc[w]
    BY <2>1, Constants DEF Typing
  <2>3. Typing'
    BY <1>1, <2>1 DEF Typing
  <2>4. Scanning'
    BY <1>3, <2>1, <2>2, Constants DEF Scanning
  <2>5. Phases'
    BY <1>1, <1>2, <2>1, <2>2 DEF Phases
  <2> QED BY <1>2, <2>3, <2>4, <2>5 DEF Sorting
<1>6. CASE SetDone
  <2>1. /\ pc[Main] = "destroy" /\ m_done' = TRUE
        /\ pc' = [pc EXCEPT ![Main] = "join"] /\ UNCHANGED <<scan, output>>
    BY <1>6 DEF SetDone
  <2>2. pc'[Main] = "join" /\ \A w \in Worker : pc'[w] = pc[w]
    BY <2>1, Constants DEF Typing
  <2>3. Typing'
    BY <1>1, <2>1 DEF Typing
  <2>4. Scanning'
    BY <1>3, <2>1, <2>2, Constants DEF Scanning
  <2>5. Phases'
    BY <1>1, <1>2, <2>1, <2>2 DEF Phases
  <2> QED BY <1>2, <2>3, <2>4, <2>5 DEF Sorting
<1>7. ASSUME NEW t \in Thread, NEW k \in Nat, UNCHANGED <<pc, m_done, output>>,
             scan' = [scan EXCEPT ![t] = k],
             k # 0 => /\ k <= Len(Search(t))
                      /\ stack[t] = <<>> \/ At(t, "wait")
                      /\ t = Main => stack[t] # <<>>
                      /\ t # Main => pc[t] = "loop"
      PROVE  IInv'
  <2>1. scan'[t] = k /\ \A u \in Thread : u # t => scan'[u] = scan[u]
    BY <1>7 DEF Typing
  <2>2. Typing'
    BY <1>1, <1>7 DEF Typing
  <2>3. Scanning'
    BY <1>3, <1>7, <2>1 DEF Scanning
  <2>4. Phases'
    BY <1>1, <1>2, <1>7 DEF Phases
  <2> QED BY <1>2, <2>2, <2>3, <2>4 DEF Sorting
<1>8. ASSUME NEW t \in Thread PROVE Len(Search(t)) \in Nat \ {0}
  <2>1. Len(Search(t)) \in 1 .. Workers + 2 /\ Workers \in Nat
    BY SearchWell, Constants DEF Typing
  <2> QED BY <2>1
<1>9. ASSUME NEW t \in Thread, HelpOut(t) PROVE IInv'
  <2>1. /\ At(t, "wait") /\ scan' = [scan EXCEPT ![t] = 1] /\ UNCHANGED <<pc, m_done, output>>
    BY <1>9 DEF HelpOut
  <2>2. stack[t] # <<>> /\ (t # Main => pc[t] = "loop")
    BY <2>1, Constants DEF At, Phases
  <2>3. 1 <= Len(Search(t))
    BY <1>8
  <2> QED BY <2>1, <2>2, <2>3, <1>7
<1>10. ASSUME NEW t \in Thread, NextQueue(t) PROVE IInv'
  <2>1. /\ scan[t] # 0 /\ UNCHANGED <<pc, m_done, output>>
        /\ scan' = [scan EXCEPT ![t] = IF scan[t] = Len(Search(t)) THEN 0 ELSE scan[t] + 1]
    BY <1>10 DEF NextQueue
  <2>2. /\ scan[t] \in Nat /\ scan[t] <= Len(Search(t))
        /\ stack[t] = <<>> \/ At(t, "wait")
        /\ t = Main => stack[t] # <<>>
        /\ t # Main => pc[t] = "loop"
    BY <2>1 DEF Scanning, Typing
  <2>3. CASE scan[t] = Len(Search(t))
    <3>1. scan' = [scan EXCEPT ![t] = 0]
      BY <2>1, <2>3
    <3> QED BY <2>1, <3>1, <1>7
  <2>4. CASE scan[t] # Len(Search(t))
    <3>1. scan' = [scan EXCEPT ![t] = scan[t] + 1]
      BY <2>1, <2>4
    <3>2. scan[t] + 1 <= Len(Search(t)) /\ scan[t] + 1 \in Nat
      BY <2>2, <2>4, <1>8
    <3> QED BY <2>1, <2>2, <3>1, <3>2, <1>7
  <2> QED BY <2>3, <2>4
<1>11. ASSUME NEW w \in Worker, WorkOn(w) PROVE IInv'
  <2>1. /\ pc[w] = "loop" /\ stack[w] = <<>> /\ scan' = [scan EXCEPT ![w] = 1]
        /\ UNCHANGED <<pc, m_done, output>>
    BY <1>11 DEF WorkOn
  <2>2. w \in Thread /\ w # Main
    BY Constants
  <2>3. 1 <= Len(Search(w))
    BY <2>2, <1>8
  <2> QED BY <2>1, <2>2, <2>3, <1>7
<1>12. CASE UNCHANGED vars
  <2>1. UNCHANGED <<scan, pc, m_done, output>>
    BY <1>12 DEF vars
  <2>2. Typing'
    BY <1>1, <2>1 DEF Typing
  <2>3. Scanning'
    BY <1>3, <2>1 DEF Scanning
  <2>4. Phases'
    BY <1>1, <1>2, <2>1 DEF Phases
  <2> QED BY <1>2, <2>2, <2>3, <2>4 DEF Sorting
<1> QED BY <1>4, <1>5, <1>6, <1>9, <1>10, <1>11, <1>12, <1>13


(* The steps that end a call. *)
LEMMA EndOfCall ==
  ASSUME IInv, NEW t \in Thread, NEW a \in {"split", "wait", "unwind"}, At(t, a), a = "wait" => scan[t] = 0
  PROVE  /\ stack[t] # <<>> /\ scan[t] = 0 /\ Top(t).at = a
         /\ Len(stack[t]) \in 1 .. Len(stack[t]) /\ Top(t) = stack[t][Len(stack[t])]
         /\ Top(t) \in CallType /\ Chunks(t, Len(stack[t]))
<1> USE DEF IInv
<1>1. stack[t] # <<>> /\ Top(t).at = a
  BY DEF At
<1>2. Top(t) = stack[t][Len(stack[t])]
  BY DEF Top, Last
<1>3. Len(stack[t]) \in Nat /\ Len(stack[t]) # 0
  BY <1>1, Places
<1>4. Len(stack[t]) \in 1 .. Len(stack[t])
  BY <1>3
<1>5. Top(t) \in CallType
  BY <1>2, <1>4, Places
<1>6. Chunks(t, Len(stack[t]))
  BY <1>4 DEF Frames
<1>7. scan[t] = 0
  <2>1. scan[t] # 0 => At(t, "wait")
    BY <1>1 DEF Scanning
  <2>2. At(t, "wait") => a = "wait"
    BY <1>1 DEF At
  <2> QED BY <2>1, <2>2
<1> QED BY <1>1, <1>2, <1>4, <1>5, <1>6, <1>7

LEMMA EmptyStep ==
  ASSUME IInv, NEW t \in Thread, EmptyChunk(t)
  PROVE  IInv'
<1>1. At(t, "split") /\ Top(t).chunk = {} /\ Return(t, Value(<<>>))
      /\ UNCHANGED <<kind, queue, lower, scan, m_done>>
  BY DEF EmptyChunk
<1>2. /\ stack[t] # <<>> /\ scan[t] = 0 /\ Top(t).at = "split"
      /\ Top(t) = stack[t][Len(stack[t])] /\ Chunks(t, Len(stack[t]))
  BY <1>1, EndOfCall
<1>3. Top(t).pivot = NoItem
  BY <1>2 DEF Chunks
<1>4. <<>> \in Seq(Item) /\ Value(<<>>) \in Outcome
  BY EmptySeq, Outcomes
<1>5. Top(t).pivot \notin Queued \cup Running
  BY <1>3, Constants DEF Queued, Running
<1>6. Sorts(<<>>, Top(t).chunk)
  BY <1>1, SortsNothing
<1>7. Delivers(t, Value(<<>>))
  BY <1>1, <1>4, <1>5, <1>6 DEF Delivers
<1> QED BY <1>1, <1>2, <1>4, <1>7, ReturnStep

LEMMA FailedStep ==
  ASSUME IInv, NEW t \in Thread, SplitThrows(t) \/ Unwind(t)
  PROVE  IInv'
<1>1. \E a \in {"split", "unwind"} : At(t, a)
  BY DEF SplitThrows, Unwind
<1>2. Return(t, Failed) /\ UNCHANGED <<kind, queue, lower, scan, m_done>>
  BY DEF SplitThrows, Unwind
<1>3. stack[t] # <<>> /\ scan[t] = 0
  BY <1>1, EndOfCall
<1>4. Failed \in Outcome /\ Delivers(t, Failed)
  BY Outcomes DEF Delivers
<1> QED BY <1>2, <1>3, <1>4, ReturnStep

LEMMA GetStep ==
  ASSUME IInv, NEW t \in Thread, Get(t)
  PROVE  IInv'
<1> DEFINE c == Top(t)
           p == Top(t).pivot
           f == future[Top(t).pivot]
           l == f.list \o <<p>> \o c.higher
           r == IF f.state = "ready" THEN Value(l) ELSE Failed
<1>1. /\ At(t, "wait") /\ scan[t] = 0 /\ f # Pending /\ Return(t, r)
      /\ UNCHANGED <<kind, queue, lower, scan, m_done>>
  BY DEF Get
<1>2. /\ stack[t] # <<>> /\ c.at = "wait" /\ c = stack[t][Len(stack[t])]
      /\ c \in CallType /\ Chunks(t, Len(stack[t]))
  BY <1>1, EndOfCall
<1>3. /\ p \in c.chunk /\ lower[p] = Less(c.chunk, p)
      /\ Sorts(c.higher, Higher(c)) /\ Higher(c) \subseteq Finished
  BY <1>2 DEF Chunks
<1>4. c.chunk \in SUBSET Item /\ c.higher \in Seq(Item) /\ p \in Item
  BY <1>2, <1>3, CallFields
<1>5. p \notin Queued \cup Running
  BY <1>1, <1>4 DEF IInv, Lifecycle
<1>6. f \in Outcome
  BY <1>4 DEF IInv, Typing
<1>7. ASSUME f.state = "ready"
      PROVE  l \in Seq(Item) /\ Sorts(l, c.chunk) /\ c.chunk \subseteq Finished \cup {p}
  <2>1. f.list \in Seq(Item)
    BY <1>6 DEF Outcome
  <2>2. Sorts(f.list, lower[p]) /\ lower[p] \subseteq Finished
    BY <1>4, <1>7 DEF IInv, Lifecycle
  <2>3. Higher(c) = c.chunk \ (Less(c.chunk, p) \cup {p})
    BY <1>3 DEF Higher
  <2>4. Sorts(f.list, Less(c.chunk, p))
    BY <2>2, <1>3
  <2>5. l \in Seq(Item) /\ Sorts(l, c.chunk)
    BY <2>1, <2>3, <2>4, <1>3, <1>4, SortsBoth
  <2>6. c.chunk \subseteq lower[p] \cup {p} \cup Higher(c)
    BY <2>3, <1>3
  <2> QED BY <2>2, <2>5, <2>6, <1>3
<1>8. r \in Outcome /\ Delivers(t, r)
  <2>1. CASE f.state = "ready"
    <3>1. r = Value(l) /\ l \in Seq(Item) /\ Sorts(l, c.chunk) /\ c.chunk \subseteq Finished \cup {p}
      BY <2>1, <1>7
    <3> HIDE DEF r, l
    <3> QED BY <3>1, <1>5, Outcomes DEF Delivers
  <2>2. CASE f.state # "ready"
    <3>1. r = Failed
      BY <2>2
    <3> HIDE DEF r
    <3> QED BY <3>1, Outcomes DEF Delivers
  <2> QED BY <2>1, <2>2
<1> HIDE DEF r
<1> QED BY <1>1, <1>2, <1>8, ReturnStep

LEMMA InitStep == Init => IInv
<1> SUFFICES ASSUME Init PROVE IInv
  OBVIOUS
<1>1. /\ kind \in Kind /\ m_done = FALSE /\ output = Pending
      /\ queue = [q \in Queue |-> <<>>] /\ lower = [i \in Item |-> {}]
      /\ future = [i \in Item |-> Pending] /\ stack = [t \in Thread |-> <<>>]
      /\ scan = [t \in Thread |-> 0]
      /\ pc = [t \in Thread |-> IF t = Main THEN "construct" ELSE "new"]
  BY DEF Init
<1>2. /\ \A q \in Queue : queue[q] = <<>> /\ 1 .. Len(queue[q]) = {}
      /\ \A t \in Thread : stack[t] = <<>> /\ 1 .. Len(stack[t]) = {} /\ scan[t] = 0
      /\ \A i \in Item : future[i] = Pending
      /\ pc[Main] = "construct"
  <2>1. 1 .. Len(<<>>) = {}
    <3>1. Len(<<>>) = 0
      BY EmptySeq
    <3> QED BY <3>1
  <2> QED BY <2>1, <1>1, Constants
<1>3. Queued = {} /\ Running = {} /\ Pivots = {} /\ Unsplit = {}
  BY <1>2 DEF Queued, Running, Pivots, Unsplit
<1>4. Typing
  <2>1. queue \in [Queue -> Seq(Item)] /\ stack \in [Thread -> Seq(CallType)]
    BY <1>1, EmptySeq
  <2>2. lower \in [Item -> SUBSET Item]
    BY <1>1
  <2>3. future \in [Item -> Outcome] /\ output \in Outcome
    BY <1>1, Outcomes
  <2>4. pc \in [Thread -> {"new", "loop", "exit", "construct", "sort", "destroy", "join",
                           "end", "terminated"}]
    BY <1>1
  <2> QED BY <2>1, <2>2, <2>3, <2>4, <1>1 DEF Typing
<1>5. Scanning
  BY <1>2 DEF Scanning
<1>6. Frames
  BY <1>2 DEF Frames
<1>7. Unique
  BY <1>2 DEF Unique
<1>8. Apart
  BY <1>2, <1>3 DEF Apart
<1>9. Lifecycle
  <2>1. \A i \in Item : future[i].state # "ready"
    BY <1>2, Outcomes
  <2> QED BY <2>1, <1>3 DEF Lifecycle
<1>10. OwnTasks
  BY <1>2, Constants DEF OwnTasks
<1>11. Phases
  <2>1. output.state # "ready"
    BY <1>1, Outcomes
  <2> QED BY <2>1, <1>1, <1>2, Constants DEF Phases
<1> QED BY <1>4, <1>5, <1>6, <1>7, <1>8, <1>9, <1>10, <1>11 DEF IInv

(* IInv is an invariant of the sort on every pool, with any number of workers
   and any list. *)
THEOREM Invariance == Spec => []IInv
<1>1. IInv /\ [Next]_vars => IInv'
  <2> SUFFICES ASSUME IInv, [Next]_vars PROVE IInv'
    OBVIOUS
  <2>1. ASSUME NEW t \in Thread, Sort(t) PROVE IInv'
    <3>1. CASE EmptyChunk(t)
      BY <3>1, EmptyStep
    <3>2. CASE Split(t)
      BY <3>2, SplitStep
    <3>3. CASE SplitThrows(t) \/ Unwind(t)
      BY <3>3, FailedStep
    <3>4. CASE Get(t)
      BY <3>4, GetStep
    <3>5. CASE TakeTask(t)
      BY <3>5, TakeStep
    <3>6. CASE HelpOut(t) \/ NextQueue(t)
      BY <3>6, QuietStep
    <3> QED BY <2>1, <3>1, <3>2, <3>3, <3>4, <3>5, <3>6 DEF Sort
  <2>2. ASSUME NEW w \in Worker, WorkOn(w) PROVE IInv'
    BY <2>2, QuietStep
  <2>3. ASSUME NEW w \in Worker, Stop(w) PROVE IInv'
    BY <2>3, StopStep
  <2>4. CASE StartThread \/ StartFails \/ GrowthFails \/ SetDone
    BY <2>4, QuietStep
  <2>5. CASE BeginSort
    BY <2>5, BeginStep
  <2>6. CASE JoinAndDestroy
    BY <2>6, JoinStep
  <2>7. CASE UNCHANGED vars
    BY <2>7, QuietStep
  <2> QED BY <2>1, <2>2, <2>3, <2>4, <2>5, <2>6, <2>7, Constants DEF Next, Work, MainStep, Ended
<1> QED BY <1>1, InitStep, PTL DEF Spec

-----------------------------------------------------------------------------
(***************************************************************************)
(* What the runs check                                                     *)
(***************************************************************************)
(* A scan looks at one of the queues in the list of those to look at, and is
   done between two calls, by a thread whose topmost call waits or by a worker
   in its loop: what every variable may hold, for all the pools. *)
THEOREM TypeCorrect == Spec => []TypeOK
<1>1. IInv => TypeOK
  <2> SUFFICES ASSUME IInv PROVE TypeOK
    OBVIOUS
  <2>1. Typing /\ Scanning
    BY DEF IInv
  <2>2. ASSUME NEW t \in Thread PROVE scan[t] \in 0 .. Workers + 2
    <3>1. scan[t] \in Nat /\ Workers \in Nat /\ kind \in Kind
      BY <2>1, Constants DEF Typing
    <3>2. Len(Search(t)) \in 1 .. Workers + 2
      BY <3>1, SearchWell
    <3>3. scan[t] # 0 => scan[t] <= Len(Search(t))
      BY <2>1 DEF Scanning
    <3> QED BY <3>1, <3>2, <3>3
  <2>3. scan \in [Thread -> 0 .. Workers + 2]
    BY <2>1, <2>2 DEF Typing
  <2>4. \A t \in Thread : scan[t] # 0 => stack[t] = <<>> \/ At(t, "wait")
    BY <2>1 DEF Scanning
  <2> QED BY <2>1, <2>3, <2>4 DEF Typing, TypeOK
<1> QED BY <1>1, Invariance, PTL

(* Whichever threads took the parts of the list, a task and the whole sort
   deliver their chunk, in order, with no item lost or doubled. *)
THEOREM SortedResults == Spec => []ResultsAreSorted
<1>1. IInv => ResultsAreSorted
  BY DEF IInv, Lifecycle, Phases, ResultsAreSorted
<1> QED BY <1>1, Invariance, PTL

(* A queue holds an item once, and the calls under a topmost one have each an
   item of their own for a pivot: neither is longer than the list allows. *)
LEMMA QueueBound ==
  ASSUME IInv, NEW q \in Queue
  PROVE  Len(queue[q]) <= Length
<1>1. PICK k : k = Len(queue[q])
  OBVIOUS
<1>2. k \in Nat /\ \A n \in 1 .. k : queue[q][n] \in Item
  BY <1>1, Places DEF IInv
<1>3. Length \in Nat /\ IsFiniteSet(Item) /\ Cardinality(Item) = Length
  BY FS_Interval, Constants DEF Item
<1>4. SUFFICES ASSUME k > Length PROVE FALSE
  BY <1>1, <1>2, <1>3
<1>5. IsFiniteSet(1 .. k) /\ Cardinality(1 .. k) = k
  BY <1>2, <1>4, <1>3, FS_Interval
<1> DEFINE f == [n \in 1 .. k |-> queue[q][n]]
<1>6. f \in [1 .. k -> Item]
  BY <1>2
<1>7. PICK m, n \in 1 .. k : m # n /\ f[m] = f[n]
  <2> HIDE DEF f
  <2> QED BY <1>3, <1>4, <1>5, <1>6, FS_PigeonHole
<1>8. queue[q][m] = queue[q][n]
  BY <1>7
<1> QED BY <1>1, <1>7, <1>8 DEF IInv, Unique

LEMMA StackBound ==
  ASSUME IInv, NEW t \in Thread
  PROVE  Len(stack[t]) <= Length + 1
<1>1. PICK k : k = Len(stack[t])
  OBVIOUS
<1>2. k \in Nat /\ \A n \in 1 .. k : stack[t][n] \in CallType
  BY <1>1, Places DEF IInv
<1>3. Length \in Nat /\ IsFiniteSet(Item) /\ Cardinality(Item) = Length
  BY FS_Interval, Constants DEF Item
<1>4. SUFFICES ASSUME k - 1 > Length PROVE FALSE
  BY <1>1, <1>2, <1>3
<1>5. IsFiniteSet(1 .. k - 1) /\ Cardinality(1 .. k - 1) = k - 1
  <2>1. 1 \in Int /\ k - 1 \in Int /\ ~(1 > k - 1)
    BY <1>2, <1>3, <1>4
  <2>2. k - 1 - 1 + 1 = k - 1
    BY <1>2
  <2> QED BY <2>1, <2>2, FS_Interval
<1>6. \A n \in 1 .. k - 1 : n \in 1 .. k /\ n < k /\ stack[t][n].pivot \in Item
  <2> TAKE n \in 1 .. k - 1
  <2>1. n \in 1 .. k /\ n < k
    BY <1>2
  <2>2. Nesting(t, n) /\ Chunks(t, n)
    BY <1>1, <2>1 DEF IInv, Frames
  <2>3. stack[t][n].at \in {"called", "wait"}
    BY <1>1, <2>1, <2>2 DEF Nesting
  <2>4. stack[t][n].pivot # NoItem
    BY <2>2, <2>3 DEF Chunks
  <2> QED BY <1>2, <2>1, <2>4, CallFields
<1> DEFINE f == [n \in 1 .. k - 1 |-> stack[t][n].pivot]
<1>7. f \in [1 .. k - 1 -> Item]
  BY <1>6
<1>8. PICK m, n \in 1 .. k - 1 : m # n /\ f[m] = f[n]
  <2> HIDE DEF f
  <2> QED BY <1>3, <1>4, <1>5, <1>7, FS_PigeonHole
<1>9. stack[t][m].pivot = stack[t][n].pivot /\ stack[t][m].pivot # NoItem
  BY <1>8, <1>6, Constants
<1>10. m \in 1 .. k /\ n \in 1 .. k
  BY <1>6
<1> QED BY <1>1, <1>8, <1>9, <1>10 DEF IInv, Unique

(* A set that cannot hold two elements. *)
LEMMA OneAtMost ==
  ASSUME NEW S, \A x, y \in S : x = y
  PROVE  Cardinality(S) \in 0 .. 1 /\ (Cardinality(S) = 1 => S # {})
<1>1. CASE S = {}
  BY <1>1, FS_EmptySet
<1>2. CASE S # {}
  <2>1. PICK x : S = {x}
    BY <1>2
  <2>2. Cardinality(S) = 1
    BY <2>1, FS_Singleton
  <2> QED BY <2>2, <1>2
<1> QED BY <1>1, <1>2

(* The pivot of a call, as the invariant and as the properties see it. *)
LEMMA CallPivots ==
  ASSUME IInv, NEW c \in Calls, c.pivot \in Item
  PROVE  c.pivot \in Pivots
<1>1. PICK t \in Thread : c \in ToSet(stack[t])
  BY DEF Calls
<1>2. stack[t] \in Seq(CallType)
  BY DEF IInv, Typing
<1>3. DOMAIN stack[t] = 1 .. Len(stack[t])
  BY <1>2, LenProperties
<1>4. PICK n \in 1 .. Len(stack[t]) : c = stack[t][n]
  BY <1>1, <1>3 DEF ToSet
<1> QED BY <1>4 DEF Pivots

(* No task is run twice, by its owner and by a thief for instance, and none
   gets lost between a queue and a thread. *)
THEOREM TasksInOnePlace == Spec => []TaskInOnePlace
<1>1. IInv => TaskInOnePlace
  <2> SUFFICES ASSUME IInv, NEW i \in Item
               PROVE  LET queued  == {p \in Queue \X Item :
                                        p[2] <= Len(queue[p[1]]) /\ queue[p[1]][p[2]] = i}
                          running == {p \in Thread \X (1 .. 2 * Length + 1) :
                                        p[2] <= Len(stack[p[1]]) /\ stack[p[1]][p[2]].task = i}
                      IN /\ Cardinality(queued) + Cardinality(running) <= 1
                         /\ future[i] # Pending => queued = {} /\ running = {}
                         /\ (\E c \in Calls : c.pivot = i) /\ future[i] = Pending
                              => queued # {} \/ running # {}
    BY DEF TaskInOnePlace
  <2> DEFINE queued  == {p \in Queue \X Item :
                           p[2] <= Len(queue[p[1]]) /\ queue[p[1]][p[2]] = i}
             running == {p \in Thread \X (1 .. 2 * Length + 1) :
                           p[2] <= Len(stack[p[1]]) /\ stack[p[1]][p[2]].task = i}
  <2>1. \A p \in queued : p[1] \in Queue /\ p[2] \in 1 .. Len(queue[p[1]]) /\ queue[p[1]][p[2]] = i
    BY Places DEF Item, IInv
  <2>2. \A p \in running : p[1] \in Thread /\ p[2] \in 1 .. Len(stack[p[1]]) /\ stack[p[1]][p[2]].task = i
    BY Places DEF IInv
  <2>3. (queued # {}) => i \in Queued
    BY <2>1 DEF Queued
  <2>4. (running # {}) => i \in Running
    BY <2>2 DEF Running
  <2>5. i \in Queued => queued # {}
    <3> HAVE i \in Queued
    <3>1. PICK q \in Queue : \E n \in 1 .. Len(queue[q]) : queue[q][n] = i
      BY DEF Queued
    <3>2. PICK n \in 1 .. Len(queue[q]) : queue[q][n] = i
      BY <3>1
    <3>3. n \in Item /\ n <= Len(queue[q])
      <4>1. Len(queue[q]) \in Nat /\ Len(queue[q]) <= Length /\ Length \in Nat
        BY Places, QueueBound, Constants DEF IInv
      <4> QED BY <4>1 DEF Item
    <3>4. <<q, n>> \in queued
      BY <3>2, <3>3
    <3> QED BY <3>4
  <2>6. i \in Running => running # {}
    <3> HAVE i \in Running
    <3>1. PICK t \in Thread : \E n \in 1 .. Len(stack[t]) : stack[t][n].task = i
      BY DEF Running
    <3>2. PICK n \in 1 .. Len(stack[t]) : stack[t][n].task = i
      BY <3>1
    <3>3. n \in 1 .. 2 * Length + 1 /\ n <= Len(stack[t])
      <4>1. Len(stack[t]) \in Nat /\ Len(stack[t]) <= Length + 1 /\ Length \in Nat
        BY Places, StackBound, Constants DEF IInv
      <4> QED BY <4>1
    <3>4. <<t, n>> \in running
      BY <3>2, <3>3
    <3> QED BY <3>4
  <2>7. \A x, y \in queued : x = y
    <3> SUFFICES ASSUME NEW x \in queued, NEW y \in queued PROVE x = y
      OBVIOUS
    <3>1. x[1] = y[1] /\ x[2] = y[2]
      BY <2>1 DEF IInv, Unique
    <3>2. x = <<x[1], x[2]>> /\ y = <<y[1], y[2]>>
      OBVIOUS
    <3> QED BY <3>1, <3>2
  <2>8. \A x, y \in running : x = y
    <3> SUFFICES ASSUME NEW x \in running, NEW y \in running PROVE x = y
      OBVIOUS
    <3>1. i # NoItem
      BY Constants
    <3>2. x[1] = y[1] /\ x[2] = y[2]
      BY <2>2, <3>1 DEF IInv, Unique
    <3>3. x = <<x[1], x[2]>> /\ y = <<y[1], y[2]>>
      OBVIOUS
    <3> QED BY <3>2, <3>3
  <2> HIDE DEF queued, running
  <2>9. Cardinality(queued) + Cardinality(running) <= 1
    <3>1. /\ Cardinality(queued) \in 0 .. 1 /\ (Cardinality(queued) = 1 => queued # {})
          /\ Cardinality(running) \in 0 .. 1 /\ (Cardinality(running) = 1 => running # {})
      BY <2>7, <2>8, OneAtMost
    <3>2. queued = {} \/ running = {}
      BY <2>3, <2>4 DEF IInv, Lifecycle
    <3> QED BY <3>1, <3>2
  <2>10. future[i] # Pending => queued = {} /\ running = {}
    BY <2>3, <2>4 DEF IInv, Lifecycle
  <2>11. (\E c \in Calls : c.pivot = i) /\ future[i] = Pending => queued # {} \/ running # {}
    <3>1. (\E c \in Calls : c.pivot = i) => i \in Pivots
      BY CallPivots
    <3>2. i \in Pivots /\ future[i] = Pending => i \in Queued \cup Running
      BY DEF IInv, Lifecycle
    <3> QED BY <3>1, <3>2, <2>5, <2>6
  <2> QED BY <2>9, <2>10, <2>11 DEF queued, running
<1> QED BY <1>1, Invariance, PTL

(* Neither a worker that leaves with tasks in its own queue nor the destructor
   of the pool breaks a promise that a sort waits for. *)
THEOREM DropsAbandoned == Spec => []DroppedAreAbandoned
<1>1. IInv => DroppedAreAbandoned
  <2> SUFFICES ASSUME IInv, NEW i \in Item, future[i] = Broken, NEW c \in Calls, c.pivot = i
               PROVE  FALSE
    BY DEF DroppedAreAbandoned
  <2>1. i \in Pivots
    BY CallPivots
  <2> QED BY <2>1 DEF IInv, Lifecycle
<1> QED BY <1>1, Invariance, PTL

(* A sort that returns its list leaves nothing in the queues, and nobody in a
   sort, however many workers and however few items there are. *)
THEOREM QuietWhenSorted == Spec => []QuietAfterSuccess
<1>1. IInv => QuietAfterSuccess
  <2> SUFFICES ASSUME IInv, output.state = "ready"
               PROVE  /\ \A q \in Queue : queue[q] = <<>>
                      /\ \A t \in Thread : stack[t] = <<>>
    BY DEF QuietAfterSuccess
  <2>1. Item \subseteq Finished
    BY DEF IInv, Phases
  <2>2. \A i \in Item : i \notin Queued /\ i \notin Running
    BY <2>1 DEF Finished
  <2>3. ASSUME NEW q \in Queue PROVE queue[q] = <<>>
    <3>1. \A n \in 1 .. Len(queue[q]) : queue[q][n] \in Item /\ queue[q][n] \in Queued
      BY Places DEF Queued, IInv
    <3>2. \A n : n \notin 1 .. Len(queue[q])
      BY <3>1, <2>2
    <3>3. Len(queue[q]) \in Nat /\ 1 \notin 1 .. Len(queue[q])
      BY <3>2, Places DEF IInv
    <3>4. Len(queue[q]) = 0
      BY <3>3
    <3> QED BY <3>4, Places DEF IInv
  <2>4. ASSUME NEW t \in Thread PROVE stack[t] = <<>>
    <3>1. CASE t = Main
      <4>1. output # Pending
        BY Outcomes
      <4> QED BY <4>1, <3>1 DEF IInv, Phases
    <3>2. CASE t # Main
      <4>1. Len(stack[t]) \in Nat
        BY Places DEF IInv
      <4>2. SUFFICES ASSUME Len(stack[t]) # 0 PROVE FALSE
        BY Places DEF IInv
      <4>3. 1 \in 1 .. Len(stack[t])
        BY <4>1, <4>2
      <4>4. Nesting(t, 1)
        BY <4>3 DEF IInv, Frames
      <4>5. stack[t][1].task # NoItem
        BY <4>4, <3>2 DEF Nesting
      <4>6. stack[t][1].task \in Item
        BY <4>3, <4>5, Places, CallFields DEF IInv
      <4>7. stack[t][1].task \in Running
        BY <4>3, <4>6 DEF Running
      <4> QED BY <4>6, <4>7, <2>2
    <3> QED BY <3>1, <3>2
  <2> QED BY <2>3, <2>4
<1> QED BY <1>1, Invariance, PTL
=============================================================================
