------------------------ MODULE WaitableQueueProofs ------------------------
(***************************************************************************)
(* What holds of the queue of 6.7 for any number of threads, values and    *)
(* addresses: the inductive invariant IInv, the absence of data races and  *)
(* of use after free, and that the queue implements AbstractQueue.         *)
(***************************************************************************)
EXTENDS WaitableQueue, TLAPS

(* The facts every action's proof starts from. *)
USE QueueAssumption

-----------------------------------------------------------------------------
(* The elements of a sequence after an Append. *)
LEMMA AppendElements ==
  ASSUME NEW S, NEW s \in Seq(S), NEW e \in S
  PROVE  /\ Append(s, e) \in Seq(S)
         /\ Len(Append(s, e)) = Len(s) + 1
         /\ \A i \in 1..Len(s) : Append(s, e)[i] = s[i]
         /\ Append(s, e)[Len(s) + 1] = e
         /\ Elements(Append(s, e)) = Elements(s) \cup {e}
  BY DEF Elements

(* The elements of a sequence without repetitions after a Tail. *)
LEMMA TailElements ==
  ASSUME NEW S, NEW s \in Seq(S), Len(s) > 0,
         \A i, j \in 1..Len(s) : s[i] = s[j] => i = j
  PROVE  /\ Tail(s) \in Seq(S)
         /\ Len(Tail(s)) = Len(s) - 1
         /\ \A i \in 1..Len(s) - 1 : Tail(s)[i] = s[i + 1]
         /\ Elements(Tail(s)) = Elements(s) \ {s[1]}
  <1>1. /\ Tail(s) \in Seq(S)
        /\ Len(Tail(s)) = Len(s) - 1
        /\ \A i \in 1..Len(s) - 1 : Tail(s)[i] = s[i + 1]
    OBVIOUS
  <1>2. ASSUME NEW i \in 1..Len(s), i # 1
        PROVE  i - 1 \in 1..Len(Tail(s)) /\ Tail(s)[i - 1] = s[i]
    BY <1>1, <1>2
  <1>3. ASSUME NEW i \in 1..Len(Tail(s))
        PROVE  i + 1 \in 1..Len(s) /\ Tail(s)[i] = s[i + 1] /\ s[i + 1] # s[1]
    BY <1>1, <1>3
  <1>4. DOMAIN s = 1..Len(s) /\ DOMAIN Tail(s) = 1..Len(Tail(s)) /\ 1 \in 1..Len(s)
    BY <1>1
  <1>5. Elements(Tail(s)) \subseteq Elements(s) \ {s[1]}
    BY <1>3, <1>4 DEF Elements
  <1>6. ASSUME NEW x \in Elements(s) \ {s[1]} PROVE x \in Elements(Tail(s))
    <2>1. PICK i \in 1..Len(s) : s[i] = x
      BY <1>4 DEF Elements
    <2> QED BY <2>1, <1>2, <1>4 DEF Elements
  <1> QED BY <1>1, <1>5, <1>6

(* What ListIntact says of the two ends. *)
LEMMA Ends ==
  ASSUME TypeOK, ListIntact
  PROVE  /\ Len(chain) \in Nat \ {0} /\ 1 \in 1..Len(chain) /\ Len(chain) \in 1..Len(chain)
         /\ head \in Linked /\ tail \in Linked /\ Linked \subseteq Node
         /\ head # tail => Len(chain) > 1 /\ next[head] = chain[2] /\ data[head] \in Value
         /\ Len(chain) > 1 => head # tail
  <1>1. Len(chain) \in Nat \ {0} /\ 1 \in 1..Len(chain) /\ Len(chain) \in 1..Len(chain)
    BY DEF TypeOK, ListIntact
  <1>2. head \in Linked /\ tail \in Linked /\ Linked \subseteq Node
    BY <1>1 DEF TypeOK, ListIntact, Linked, Elements
  <1>3. ASSUME Len(chain) > 1
        PROVE  next[head] = chain[2] /\ data[head] \in Value /\ head # tail
    BY <1>1, <1>3 DEF ListIntact
  <1>4. head # tail => Len(chain) > 1
    BY <1>1 DEF ListIntact
  <1> QED BY <1>1, <1>2, <1>3, <1>4

(* The constructor establishes the invariant: one dummy node, no mutex held. *)
LEMMA InitIInv == Init => IInv
  <1> SUFFICES ASSUME Init PROVE IInv
    OBVIOUS
  <1> USE DEF Init
  <1>1. TypeOK
    BY DEF TypeOK, Label, Op, WaitOp, TryOp
  <1>2. ListIntact
    BY DEF ListIntact
  <1>3. Ownership
    BY DEF Ownership, Linked, Elements
  <1>4. LockProtocol
    BY DEF LockProtocol, HeadSection, TailSection
  <1>5. ThreadView
    BY DEF ThreadView, HeadSection, TailSection
  <1> QED BY <1>1, <1>2, <1>3, <1>4, <1>5 DEF IInv

(* A push that starts gains a node nobody else can name yet. *)
LEMMA BeginPushStep ==
  ASSUME IInv, NEW t \in Thread, NEW v \in Value, BeginPush(t, v)
  PROVE  IInv'
  <1> USE DEF BeginPush, IInv, shared, locks, locals, Goto
  <1>0. PICK n \in Node \ live :
          /\ live' = live \cup {n}
          /\ data' = [data EXCEPT ![n] = None]
          /\ next' = [next EXCEPT ![n] = Null]
          /\ mine' = [mine EXCEPT ![t] = n]
    OBVIOUS
  <1>a. Linked' = Linked /\ n \notin Linked /\ mine[t] = Null /\ \A u \in Thread : mine[u] # n
    BY DEF TypeOK, Ownership, Linked, ThreadView, TailSection
  <1>1. TypeOK'
    BY <1>0 DEF TypeOK, Label, Op
  <1>2. ListIntact'
    <2>1. \A i \in 1..Len(chain) : chain[i] \in live' /\ chain[i] # n /\ chain[i] \in Node
      BY <1>0 DEF TypeOK, ListIntact
    <2>2. \A i \in 1..Len(chain) - 1 : next'[chain[i]] = chain[i + 1] /\ data'[chain[i]] \in Value
      BY <2>1, <1>0, Ends DEF TypeOK, ListIntact
    <2> QED BY <2>1, <2>2 DEF ListIntact
  <1>3. Ownership'
    <2>1. \A u \in Thread : mine'[u] = IF u = t THEN n ELSE mine[u]
      BY <1>0 DEF TypeOK
    <2>2. \A m \in Node : m \in live' <=> m \in Linked' \/ \E u \in Thread : mine'[u] = m
      BY <2>1, <1>0, <1>a DEF TypeOK, Ownership
    <2> QED BY <2>1, <2>2, <1>0, <1>a DEF Ownership
  <1>4. LockProtocol'
    BY DEF TypeOK, LockProtocol, HeadSection, TailSection
  <1>5. ThreadView'
    BY <1>0, <1>a DEF TypeOK, ListIntact, Ownership, ThreadView, HeadSection, TailSection, Linked
  <1> QED BY <1>1, <1>2, <1>3, <1>4, <1>5

(* push hands its node over to the list and releases the tail mutex. *)
LEMMA MoveTailStep ==
  ASSUME IInv, NEW t \in Thread, MoveTail(t)
  PROVE  IInv'
  <1> USE DEF MoveTail, IInv, shared, locks, locals, Goto
  <1>0. /\ mine[t] \in Node /\ mine[t] \notin Linked
        /\ next[tail] = mine[t] /\ data[tail] \in Value
        /\ head \in Linked /\ Linked \subseteq Node
    BY Ends DEF ThreadView, TailSection, Ownership
  <1>a. Linked' = Linked \cup {mine[t]}
    BY <1>0, AppendElements DEF TypeOK, Linked
  <1>b. \A u \in Thread : mine'[u] = IF u = t THEN Null ELSE mine[u]
    BY DEF TypeOK
  <1>1. TypeOK'
    BY <1>0 DEF TypeOK, Label, Op
  <1>2. ListIntact'
    <2>1. /\ chain' \in Seq(Node) /\ Len(chain') = Len(chain) + 1 /\ chain'[Len(chain')] = mine[t]
          /\ \A i \in 1..Len(chain) : chain'[i] = chain[i]
      BY <1>0, AppendElements DEF TypeOK
    <2>2. \A i \in 1..Len(chain) : chain[i] # mine[t]
      BY <1>0 DEF Linked, Elements, TypeOK
    <2>3. mine[t] \in live
      BY <1>0 DEF Ownership, TypeOK
    <2>4. head = chain'[1] /\ Len(chain') > 0
      BY <2>1, Ends DEF ListIntact
    <2>5. \A i \in 1..Len(chain') - 1 : next[chain'[i]] = chain'[i + 1] /\ data[chain'[i]] \in Value
      <3> SUFFICES ASSUME NEW i \in 1..Len(chain') - 1
                   PROVE  next[chain'[i]] = chain'[i + 1] /\ data[chain'[i]] \in Value
        OBVIOUS
      <3>1. CASE i = Len(chain)
        BY <3>1, <2>1, <1>0, Ends DEF ListIntact
      <3>2. CASE i < Len(chain)
        BY <3>2, <2>1, Ends DEF ListIntact
      <3> QED BY <3>1, <3>2, <2>1, Ends
    <2>6. \A i, j \in 1..Len(chain') : chain'[i] = chain'[j] => i = j
      BY <2>1, <2>2, Ends DEF ListIntact
    <2>7. \A i \in 1..Len(chain') : chain'[i] \in live
      BY <2>1, <2>3, Ends DEF ListIntact
    <2> QED BY <2>1, <2>4, <2>5, <2>6, <2>7 DEF ListIntact
  <1>3. Ownership'
    BY <1>0, <1>a, <1>b DEF TypeOK, Ownership
  <1>4. LockProtocol'
    BY DEF TypeOK, LockProtocol, HeadSection, TailSection
  <1>5. ThreadView'
    <2>1. \A u \in Thread \ {t} : pc[u] \notin {"push_link", "push_tail"}
      BY DEF LockProtocol, TailSection
    <2>2. SUFFICES ASSUME NEW u \in Thread PROVE ThreadView!(u)'
      BY DEF ThreadView
    <2> QED BY <1>0, <1>b, <2>1 DEF TypeOK, ThreadView, TailSection
  <1> QED BY <1>1, <1>2, <1>3, <1>4, <1>5

(* pop_head takes the first node out of the list and becomes its owner. *)
LEMMA PopHeadStep ==
  ASSUME IInv, NEW t \in Thread, PopHead(t)
  PROVE  IInv'
  <1> USE DEF PopHead, IInv, shared, locks, locals, Goto
  <1>0. /\ Len(chain) > 1 /\ next[head] = chain[2] /\ data[head] \in Value
        /\ head \in Linked /\ tail \in Linked /\ tail # head /\ mine[t] = Null
    BY Ends DEF ThreadView, TypeOK, TailSection
  <1>a. /\ chain' \in Seq(Node)
        /\ Len(chain') = Len(chain) - 1
        /\ \A i \in 1..Len(chain) - 1 : chain'[i] = chain[i + 1]
        /\ Linked' = Linked \ {head}
    <2>1. chain \in Seq(Node) /\ Len(chain) > 0 /\ chain' = Tail(chain) /\ head = chain[1]
          /\ \A i, j \in 1..Len(chain) : chain[i] = chain[j] => i = j
      BY DEF TypeOK, ListIntact
    <2>2. /\ Tail(chain) \in Seq(Node)
          /\ Len(Tail(chain)) = Len(chain) - 1
          /\ \A i \in 1..Len(chain) - 1 : Tail(chain)[i] = chain[i + 1]
          /\ Elements(Tail(chain)) = Elements(chain) \ {chain[1]}
      BY <2>1, TailElements
    <2> QED BY <2>1, <2>2 DEF Linked
  <1>b. \A u \in Thread : mine'[u] = IF u = t THEN head ELSE mine[u]
    BY DEF TypeOK
  <1>1. TypeOK'
    BY <1>0, <1>a DEF TypeOK, Label, Op
  <1>2. ListIntact'
    <2>1. head' = chain'[1] /\ tail' = chain'[Len(chain')] /\ Len(chain') > 0
      <3>1. Len(chain') \in 1..Len(chain) - 1 /\ 1 \in 1..Len(chain) - 1
        BY <1>0, <1>a, Ends
      <3> QED BY <1>0, <1>a, <3>1, Ends DEF ListIntact
    <2>2. \A i, j \in 1..Len(chain') : chain'[i] = chain'[j] => i = j
      BY <1>0, <1>a DEF TypeOK, ListIntact
    <2>3. \A i \in 1..Len(chain') : chain'[i] \in live'
      BY <1>0, <1>a DEF TypeOK, ListIntact
    <2>4. \A i \in 1..Len(chain') - 1 : next'[chain'[i]] = chain'[i + 1] /\ data'[chain'[i]] \in Value
      <3> SUFFICES ASSUME NEW i \in 1..Len(chain') - 1
                   PROVE  next'[chain'[i]] = chain'[i + 1] /\ data'[chain'[i]] \in Value
        OBVIOUS
      <3>1. i \in 1..Len(chain) - 1 /\ i + 1 \in 1..Len(chain) - 1 /\ i + 1 # 1 /\ 1 \in 1..Len(chain)
        BY <1>0, <1>a DEF TypeOK
      <3>2. chain'[i] = chain[i + 1] /\ chain'[i + 1] = chain[i + 2] /\ chain[i + 1] # head
        BY <3>1, <1>a DEF TypeOK, ListIntact
      <3>3. next[chain[i + 1]] = chain[i + 2] /\ data[chain[i + 1]] \in Value
        BY <3>1 DEF TypeOK, ListIntact
      <3> QED BY <3>1, <3>2, <3>3 DEF TypeOK
    <2> QED BY <2>1, <2>2, <2>3, <2>4 DEF ListIntact
  <1>3. Ownership'
    BY <1>0, <1>a, <1>b DEF TypeOK, Ownership
  <1>4. LockProtocol'
    BY DEF TypeOK, LockProtocol, HeadSection, TailSection
  <1>5. ThreadView'
    <2>1. \A u \in Thread \ {t} : pc[u] \notin {"move", "pop"}
      BY DEF LockProtocol, HeadSection
    <2>2. SUFFICES ASSUME NEW u \in Thread PROVE ThreadView!(u)'
      BY DEF ThreadView
    <2> QED BY <1>0, <1>b, <2>1 DEF TypeOK, ThreadView, TailSection
  <1> QED BY <1>1, <1>2, <1>3, <1>4, <1>5

(* Writing the dummy's data touches no node before the dummy. *)
LEMMA WriteDataStep ==
  ASSUME IInv, NEW t \in Thread, WriteData(t)
  PROVE  IInv'
  <1> USE DEF WriteData, IInv, shared, locks, locals, Goto
  <1>0. /\ val[t] \in Value /\ tail \in Linked /\ Linked' = Linked
        /\ \A u \in Thread : mine[u] # tail
    BY Ends DEF ThreadView, TailSection, Ownership, Linked, Elements
  <1>1. TypeOK'
    BY <1>0 DEF TypeOK, Label
  <1>2. ListIntact'
    <2>1. \A i \in 1..Len(chain) - 1 : chain[i] # tail
      BY Ends DEF ListIntact
    <2> QED BY <2>1, <1>0, Ends DEF ListIntact, TypeOK
  <1>3. Ownership'
    BY <1>0 DEF Ownership
  <1>4. LockProtocol'
    BY DEF TypeOK, LockProtocol, HeadSection, TailSection
  <1>5. ThreadView'
    <2>1. \A u \in Thread \ {t} : pc[u] \notin {"push_link", "push_tail"}
      BY DEF LockProtocol, TailSection
    <2>2. \A u \in Thread : pc[u] = "pop" => head # tail
      BY DEF ThreadView
    <2> QED BY <1>0, <2>1, <2>2 DEF TypeOK, ThreadView, TailSection
  <1> QED BY <1>1, <1>2, <1>3, <1>4, <1>5

(* Linking behind the dummy touches no link between listed nodes. *)
LEMMA LinkNodeStep ==
  ASSUME IInv, NEW t \in Thread, LinkNode(t)
  PROVE  IInv'
  <1> USE DEF LinkNode, IInv, shared, locks, locals, Goto
  <1>0. mine[t] \in Node
    BY DEF ThreadView, TailSection
  <1>1. TypeOK'
    BY <1>0 DEF TypeOK, Label
  <1>2. ListIntact'
    <2>1. \A i \in 1..Len(chain) - 1 : chain[i] # tail
      BY Ends DEF ListIntact
    <2> QED BY <2>1, Ends DEF ListIntact, TypeOK
  <1>3. Ownership'
    BY DEF Ownership, Linked, Elements
  <1>4. LockProtocol'
    BY DEF TypeOK, LockProtocol, HeadSection, TailSection
  <1>5. ThreadView'
    <2>1. \A u \in Thread \ {t} : pc[u] \notin {"push_link", "push_tail"}
      BY DEF LockProtocol, TailSection
    <2> QED BY <1>0, <2>1 DEF TypeOK, ThreadView, TailSection
  <1> QED BY <1>1, <1>2, <1>3, <1>4, <1>5

(* A pop destroys the node it owns, which nobody else can name. *)
LEMMA ReturnStep ==
  ASSUME IInv, NEW t \in Thread, Return(t)
  PROVE  IInv'
  <1> USE DEF Return, IInv, shared, locks, locals, Goto
  <1>0. /\ mine[t] \notin Linked /\ Linked' = Linked /\ Null \notin Linked
        /\ \A u \in Thread : mine'[u] = IF u = t THEN Null ELSE mine[u]
    BY Ends DEF Ownership, Linked, Elements, TypeOK
  <1>1. TypeOK'
    BY DEF TypeOK, Label, Op
  <1>2. ListIntact'
    BY <1>0 DEF ListIntact, Linked, Elements, TypeOK
  <1>3. Ownership'
    BY <1>0 DEF Ownership, TypeOK
  <1>4. LockProtocol'
    BY DEF TypeOK, LockProtocol, HeadSection, TailSection
  <1>5. ThreadView'
    BY <1>0 DEF TypeOK, ThreadView, TailSection
  <1> QED BY <1>1, <1>2, <1>3, <1>4, <1>5

(* The steps that change neither the list nor who owns a node. *)
Quiet(t) ==
  \/ LockTail(t) \/ NotifyOne(t) \/ BeginRead(t) \/ LockHead(t) \/ FoundData(t)
  \/ FoundNoData(t) \/ Answer(t) \/ Block(t) \/ SpuriousWakeup(t)
  \/ MoveValue(t) \/ MoveThrows(t) \/ ReadData(t)

(* A step that leaves list and owners alone preserves the invariant. *)
LEMMA QuietStep ==
  ASSUME IInv, NEW t \in Thread, Quiet(t)
  PROVE  IInv'
  <1> USE DEF IInv, shared, locks, locals, Goto
  <1>a. UNCHANGED <<head, tail, data, next, live, chain, mine>>
    BY DEF Quiet, LockTail, NotifyOne, BeginRead, LockHead, FoundData, FoundNoData, Answer,
           Block, SpuriousWakeup, MoveValue, MoveThrows, ReadData
  <1>b. ListIntact' /\ Ownership'
    BY <1>a DEF ListIntact, Ownership, Linked, Elements
  <1> SUFFICES TypeOK' /\ LockProtocol' /\ ThreadView'
    BY <1>b
  <1> HIDE DEF IInv
  <1> USE DEF TypeOK, LockProtocol, ThreadView, HeadSection, TailSection
  <1>1. CASE LockTail(t)
    BY <1>1, <1>a DEF LockTail, IInv, Label
  <1>2. CASE NotifyOne(t)
    BY <1>2, <1>a DEF NotifyOne, IInv, Label, Op
  <1>3. CASE BeginRead(t)
    BY <1>3, <1>a DEF BeginRead, IInv, Label, Op
  <1>4. CASE LockHead(t)
    BY <1>4, <1>a DEF LockHead, IInv, Label
  <1>5. CASE FoundData(t)
    BY <1>5, <1>a DEF FoundData, IInv, Label
  <1>6. CASE FoundNoData(t)
    BY <1>6, <1>a DEF FoundNoData, IInv, Label
  <1>7. CASE Answer(t)
    BY <1>7, <1>a DEF Answer, IInv, Label
  <1>8. CASE Block(t)
    BY <1>8, <1>a DEF Block, IInv, Label
  <1>9. CASE SpuriousWakeup(t)
    BY <1>9, <1>a DEF SpuriousWakeup, IInv, Label
  <1>10. CASE MoveValue(t)
    BY <1>10, <1>a, Ends DEF MoveValue, IInv, Label
  <1>11. CASE MoveThrows(t)
    BY <1>11, <1>a DEF MoveThrows, IInv, Label, Op
  <1>12. CASE ReadData(t)
    BY <1>12, <1>a DEF ReadData, IInv, Label
  <1> QED BY <1>1, <1>2, <1>3, <1>4, <1>5, <1>6, <1>7, <1>8, <1>9, <1>10, <1>11, <1>12 DEF Quiet

(* Every step of every thread preserves the inductive invariant. *)
LEMMA NextIInv == IInv /\ [Next]_vars => IInv'
  <1> SUFFICES ASSUME IInv, [Next]_vars PROVE IInv'
    OBVIOUS
  <1>1. ASSUME NEW t \in Thread, Step(t) \/ Call(t) PROVE IInv'
    <2>1. CASE Quiet(t)
      BY <2>1, QuietStep
    <2>2. CASE \E v \in Value : BeginPush(t, v)
      BY <2>2, BeginPushStep
    <2>3. CASE WriteData(t)
      BY <2>3, WriteDataStep
    <2>4. CASE LinkNode(t)
      BY <2>4, LinkNodeStep
    <2>5. CASE MoveTail(t)
      BY <2>5, MoveTailStep
    <2>6. CASE PopHead(t)
      BY <2>6, PopHeadStep
    <2>7. CASE Return(t)
      BY <2>7, ReturnStep
    <2> QED BY <1>1, <2>1, <2>2, <2>3, <2>4, <2>5, <2>6, <2>7 DEF Step, Call, Quiet
  <1>2. CASE UNCHANGED vars
    BY <1>2 DEF vars, shared, locks, locals, IInv, TypeOK, ListIntact, Ownership, Linked,
                Elements, LockProtocol, ThreadView
  <1> QED BY <1>1, <1>2 DEF Next

(* The list stays intact and every node has one owner, in every state of   *)
(* every execution.                                                        *)
THEOREM Invariance == Spec => []IInv
  BY InitIInv, NextIInv, PTL DEF Spec

(* The part of the invariant a user of the queue relies on: following      *)
(* m_next from m_upHead always reaches m_pTail over values, and no node is *)
(* leaked or freed twice.                                                  *)
THEOREM ListSafety == Spec => [](TypeOK /\ ListIntact /\ Ownership)
  <1>1. IInv => TypeOK /\ ListIntact /\ Ownership
    BY DEF IInv
  <1> QED BY <1>1, Invariance, PTL

-----------------------------------------------------------------------------
(* Where the next step of a thread can touch a node: at the tail under the *)
(* tail mutex, at the head under the head mutex, or at a node of its own.  *)
LEMMA AccessPlace ==
  ASSUME NEW t \in Thread, NEW a \in Access(t)
  PROVE  \/ pc[t] \in {"push_data", "push_link"} /\ a[1] = tail
         \/ pc[t] \in {"move", "pop"} /\ a[1] = head
         \/ pc[t] \in {"read", "return"} /\ a[1] = mine[t] /\ (pc[t] = "return" => mine[t] # Null)
  BY DEF Access

(* No two threads touch a node field at once, and no freed node is used.   *)
THEOREM RaceFreedom == Spec => []NoDataRace
  <1>1. IInv => NoDataRace
    <2> SUFFICES ASSUME IInv, NEW t \in Thread, NEW a \in Access(t)
                 PROVE  /\ a[1] \in live
                        /\ \A u \in Thread \ {t} : \A b \in Access(u) : a[1] # b[1]
      BY DEF NoDataRace
    <2> USE DEF IInv
    <2>1. head \in Linked /\ tail \in Linked /\ Linked \subseteq Node
      BY Ends
    <2>2. a[1] \in live
      BY AccessPlace, <2>1 DEF Ownership, ThreadView, TypeOK
    <2>3. ASSUME NEW u \in Thread \ {t}, NEW b \in Access(u)
          PROVE  a[1] # b[1]
      <3>1. CASE pc[t] \in {"push_data", "push_link"} /\ a[1] = tail
        BY <3>1, <2>1, AccessPlace DEF LockProtocol, TailSection, ThreadView, Ownership
      <3>2. CASE pc[t] \in {"move", "pop"} /\ a[1] = head
        BY <3>2, <2>1, AccessPlace DEF LockProtocol, HeadSection, ThreadView, Ownership
      <3>3. CASE pc[t] \in {"read", "return"} /\ a[1] = mine[t] /\ mine[t] \in Node
        BY <3>3, <2>1, AccessPlace DEF Ownership, TypeOK
      <3>4. pc[t] \in {"read", "return"} /\ a[1] = mine[t] /\ (pc[t] = "return" => mine[t] # Null)
              => mine[t] \in Node
        BY DEF ThreadView, TypeOK
      <3> QED BY <3>1, <3>2, <3>3, <3>4, AccessPlace
    <2> QED BY <2>2, <2>3
  <1> QED BY <1>1, Invariance, PTL

-----------------------------------------------------------------------------
(* The values of a list of nodes whose last one is the dummy. *)
LEMMA ContentsType ==
  ASSUME NEW nodes \in Seq(Node), Len(nodes) > 0, NEW d,
         \A i \in 1..Len(nodes) - 1 : d[nodes[i]] \in Value
  PROVE  /\ Contents(nodes, d) \in Seq(Value)
         /\ Len(Contents(nodes, d)) = Len(nodes) - 1
         /\ \A i \in 1..Len(nodes) - 1 : Contents(nodes, d)[i] = d[nodes[i]]
  <1>1. Contents(nodes, d) \in [1..Len(nodes) - 1 -> Value] /\ Len(nodes) - 1 \in Nat
    BY DEF Contents
  <1> QED BY <1>1 DEF Contents

(* Two sequences of values with the same length and elements are equal. *)
LEMMA SameSequence ==
  ASSUME NEW r \in Seq(Value), NEW s \in Seq(Value), Len(r) = Len(s),
         \A i \in 1..Len(r) : r[i] = s[i]
  PROVE  r = s
  OBVIOUS

(* Linking a node that follows the dummy appends the dummy's value. *)
LEMMA ContentsAppend ==
  ASSUME NEW nodes \in Seq(Node), Len(nodes) > 0, NEW d, NEW n \in Node,
         \A i \in 1..Len(nodes) : d[nodes[i]] \in Value
  PROVE  Contents(Append(nodes, n), d) = Append(Contents(nodes, d), d[nodes[Len(nodes)]])
  <1> DEFINE longer == Append(nodes, n)
             values == Contents(nodes, d)
             last   == d[nodes[Len(nodes)]]
  <1>1. /\ longer \in Seq(Node) /\ Len(longer) = Len(nodes) + 1
        /\ \A i \in 1..Len(nodes) : longer[i] = nodes[i]
    OBVIOUS
  <1>2. /\ Contents(longer, d) \in Seq(Value) /\ Len(Contents(longer, d)) = Len(nodes)
        /\ \A i \in 1..Len(nodes) : Contents(longer, d)[i] = d[nodes[i]]
    <2> HIDE DEF longer
    <2> QED BY <1>1, ContentsType
  <1>3. values \in Seq(Value) /\ Len(values) = Len(nodes) - 1 /\ last \in Value
        /\ \A i \in 1..Len(nodes) - 1 : values[i] = d[nodes[i]]
    BY ContentsType
  <1> HIDE DEF longer, values
  <1>4. /\ Append(values, last) \in Seq(Value) /\ Len(Append(values, last)) = Len(nodes)
        /\ \A i \in 1..Len(nodes) : Append(values, last)[i] = d[nodes[i]]
    BY <1>3
  <1>5. Contents(longer, d) = Append(values, last)
    BY <1>2, <1>4, SameSequence
  <1> QED BY <1>5 DEF longer, values

(* Unlinking the first node removes the oldest value. *)
LEMMA ContentsTail ==
  ASSUME NEW nodes \in Seq(Node), Len(nodes) > 1, NEW d,
         \A i \in 1..Len(nodes) - 1 : d[nodes[i]] \in Value
  PROVE  /\ Contents(Tail(nodes), d) = Tail(Contents(nodes, d))
         /\ Contents(nodes, d) # <<>> /\ Head(Contents(nodes, d)) = d[nodes[1]]
  <1> DEFINE rest   == Tail(nodes)
             values == Contents(nodes, d)
  <1>1. /\ rest \in Seq(Node) /\ Len(rest) = Len(nodes) - 1
        /\ \A i \in 1..Len(nodes) - 1 : rest[i] = nodes[i + 1]
    OBVIOUS
  <1>2. /\ Contents(rest, d) \in Seq(Value) /\ Len(Contents(rest, d)) = Len(nodes) - 2
        /\ \A i \in 1..Len(nodes) - 2 : Contents(rest, d)[i] = d[nodes[i + 1]]
    <2> HIDE DEF rest
    <2>1. Len(nodes) \in Nat /\ Len(rest) > 0 /\ Len(rest) - 1 = Len(nodes) - 2
      BY <1>1
    <2>2. \A i \in 1..Len(rest) - 1 : rest[i] = nodes[i + 1] /\ d[rest[i]] \in Value
      BY <1>1, <2>1
    <2> QED BY <1>1, <2>1, <2>2, ContentsType
  <1>3. /\ values \in Seq(Value) /\ Len(values) = Len(nodes) - 1
        /\ \A i \in 1..Len(nodes) - 1 : values[i] = d[nodes[i]]
    BY ContentsType
  <1> HIDE DEF rest, values
  <1>4. /\ Tail(values) \in Seq(Value) /\ Len(Tail(values)) = Len(nodes) - 2
        /\ \A i \in 1..Len(nodes) - 2 : Tail(values)[i] = d[nodes[i + 1]]
        /\ values # <<>> /\ Head(values) = d[nodes[1]]
    BY <1>3
  <1>5. Contents(rest, d) = Tail(values)
    <2> DEFINE c == Contents(rest, d)
               v == Tail(values)
    <2>1. /\ c \in Seq(Value) /\ v \in Seq(Value) /\ Len(c) = Len(v)
          /\ \A i \in 1..Len(c) : c[i] = v[i]
      BY <1>2, <1>4
    <2> HIDE DEF c, v
    <2> QED BY <2>1, SameSequence DEF c, v
  <1> QED BY <1>4, <1>5 DEF rest, values

(* The abstract queue is empty exactly when the two ends meet. *)
LEMMA EmptyMeets == IInv => (itemsBar = <<>> <=> head = tail)
  <1> SUFFICES ASSUME IInv PROVE itemsBar = <<>> <=> head = tail
    OBVIOUS
  <1>1. Len(itemsBar) = Len(chain) - 1 /\ itemsBar \in Seq(Value)
    BY ContentsType DEF IInv, TypeOK, ListIntact, itemsBar
  <1> QED BY <1>1, Ends DEF IInv

(* A new queue is an empty sequence. *)
LEMMA InitRefines == Init => AQ!Init
  <1> SUFFICES ASSUME Init PROVE AQ!Init
    OBVIOUS
  <1>1. itemsBar = <<>>
    BY DEF Init, itemsBar, Contents
  <1>2. handBar = [t \in Thread |-> None]
    BY DEF Init, handBar, Result
  <1> QED BY <1>1, <1>2 DEF AQ!Init

(* A push takes effect when m_pTail moves on. *)
LEMMA PutRefines ==
  ASSUME IInv, NEW t \in Thread, MoveTail(t)
  PROVE  AQ!Put
  <1> USE DEF MoveTail, IInv, shared, locks, locals, Goto
  <1>1. /\ chain \in Seq(Node) /\ Len(chain) > 0 /\ mine[t] \in Node /\ tail = chain[Len(chain)]
        /\ data[tail] \in Value
        /\ \A i \in 1..Len(chain) : data[chain[i]] \in Value
    BY Ends DEF TypeOK, ListIntact, ThreadView, TailSection
  <1>2. itemsBar' = Append(itemsBar, data[tail])
    BY <1>1, ContentsAppend DEF itemsBar
  <1>3. handBar' = handBar
    BY DEF handBar, Result, TypeOK
  <1> QED BY <1>1, <1>2, <1>3 DEF AQ!Put

(* A pop takes effect in pop_head. *)
LEMMA TakeRefines ==
  ASSUME IInv, NEW t \in Thread, PopHead(t)
  PROVE  AQ!Take(t)
  <1> USE DEF PopHead, IInv, shared, locks, locals, Goto
  <1>1. /\ chain \in Seq(Node) /\ Len(chain) > 1 /\ head = chain[1]
        /\ \A i \in 1..Len(chain) - 1 : data[chain[i]] \in Value
    BY Ends DEF TypeOK, ListIntact, ThreadView
  <1>2. itemsBar' = Tail(itemsBar) /\ itemsBar # <<>> /\ Head(itemsBar) = data[head]
    BY <1>1, ContentsTail DEF itemsBar
  <1>3. handBar' = [handBar EXCEPT ![t] = data[head]] /\ handBar[t] = None
    <2>1. Result(t)' = data[head] /\ Result(t) = None
      BY DEF Result, TypeOK, ThreadView
    <2>2. \A u \in Thread \ {t} : Result(u)' = Result(u)
      BY DEF Result, TypeOK
    <2> HIDE DEF PopHead, IInv
    <2> QED BY <2>1, <2>2 DEF handBar
  <1> QED BY <1>2, <1>3 DEF AQ!Take

(* try_pop that finds nothing, and empty, take effect at the comparison. *)
LEMMA ObserveRefines ==
  ASSUME IInv, NEW t \in Thread, Answer(t)
  PROVE  AQ!Observe(t)
  <1>1. /\ itemsBar' = itemsBar
        /\ Result(t) = None /\ Result(t)' = IF itemsBar = <<>> THEN Empty ELSE NonEmpty
        /\ \A u \in Thread \ {t} : Result(u)' = Result(u)
    BY EmptyMeets DEF Answer, IInv, TypeOK, shared, Goto, itemsBar, Contents, Result
  <1>2. handBar' = [handBar EXCEPT ![t] = IF itemsBar = <<>> THEN Empty ELSE NonEmpty]
        /\ handBar[t] = None
    BY <1>1 DEF handBar
  <1> QED BY <1>1, <1>2 DEF AQ!Observe

(* A call that has a result hands it over when it returns. *)
LEMMA ReturnRefines ==
  ASSUME IInv, NEW t \in Thread, Return(t)
  PROVE  AQ!Return(t)
  <1>1. /\ itemsBar' = itemsBar
        /\ Result(t) # None /\ Result(t)' = None
        /\ \A u \in Thread \ {t} : Result(u)' = Result(u)
    BY DEF Return, IInv, TypeOK, ThreadView, locks, Goto, itemsBar, Contents, Result
  <1>2. handBar' = [handBar EXCEPT ![t] = None]
    <2>1. \A u \in Thread : handBar'[u] = IF u = t THEN None ELSE handBar[u]
      BY <1>1 DEF handBar
    <2> QED BY <2>1 DEF handBar
  <1>3. handBar[t] # None
    BY <1>1 DEF handBar
  <1> QED BY <1>1, <1>2, <1>3 DEF AQ!Return

(* Every other step is invisible to the callers. *)
Invisible(t) ==
  \/ \E v \in Value : BeginPush(t, v)
  \/ LockTail(t) \/ WriteData(t) \/ LinkNode(t) \/ NotifyOne(t) \/ BeginRead(t)
  \/ LockHead(t) \/ FoundData(t) \/ FoundNoData(t) \/ Block(t) \/ SpuriousWakeup(t)
  \/ MoveValue(t) \/ MoveThrows(t) \/ ReadData(t)

(* Every other step of the queue is invisible to its callers. *)
LEMMA InvisibleRefines ==
  ASSUME IInv, NEW t \in Thread, Invisible(t)
  PROVE  itemsBar' = itemsBar /\ handBar' = handBar
  <1> USE DEF shared, locks, locals, Goto
  <1>1. itemsBar' = itemsBar
    <2>1. chain' = chain
      BY DEF Invisible, BeginPush, LockTail, WriteData, LinkNode, NotifyOne, BeginRead, LockHead,
             FoundData, FoundNoData, Block, SpuriousWakeup, MoveValue, MoveThrows, ReadData
    <2>2. \A i \in 1..Len(chain) - 1 : data'[chain[i]] = data[chain[i]]
      <3>1. CASE \E v \in Value : BeginPush(t, v)
        BY <3>1, Ends DEF BeginPush, IInv, TypeOK, ListIntact
      <3>2. CASE WriteData(t)
        <4>1. \A i \in 1..Len(chain) - 1 : chain[i] # tail
          BY Ends DEF IInv, ListIntact
        <4> QED BY <3>2, <4>1 DEF WriteData, IInv, TypeOK
      <3>3. CASE data' = data
        BY <3>3
      <3> QED
        BY <3>1, <3>2, <3>3
           DEF Invisible, LockTail, LinkNode, NotifyOne, BeginRead, LockHead,
               FoundData, FoundNoData, Block, SpuriousWakeup, MoveValue, MoveThrows, ReadData
    <2> QED BY <2>1, <2>2 DEF itemsBar, Contents
  <1>2. ASSUME NEW u \in Thread PROVE Result(u)' = Result(u)
    <2> USE DEF IInv, TypeOK, Result
    <2>1. CASE \E v \in Value : BeginPush(t, v)
      <3>1. PICK n \in Node \ live :
              data' = [data EXCEPT ![n] = None] /\ mine' = [mine EXCEPT ![t] = n]
        BY <2>1 DEF BeginPush
      <3>2. pc[u] = "read" => mine[u] \in Node /\ mine[u] # n
        BY DEF Ownership, ThreadView
      <3> QED BY <2>1, <3>1, <3>2 DEF BeginPush
    <2>2. CASE WriteData(t)
      <3>1. pc[u] = "read" => mine[u] # tail
        BY Ends DEF Ownership
      <3> QED BY <2>2, <3>1 DEF WriteData
    <2>3. CASE LockTail(t) \/ LinkNode(t) \/ NotifyOne(t) \/ BeginRead(t) \/ LockHead(t)
      BY <2>3 DEF LockTail, LinkNode, NotifyOne, BeginRead, LockHead
    <2>4. CASE FoundData(t) \/ FoundNoData(t) \/ Block(t) \/ SpuriousWakeup(t)
      BY <2>4 DEF FoundData, FoundNoData, Block, SpuriousWakeup
    <2>5. CASE MoveValue(t) \/ MoveThrows(t) \/ ReadData(t)
      BY <2>5 DEF MoveValue, MoveThrows, ReadData
    <2> QED BY <2>1, <2>2, <2>3, <2>4, <2>5 DEF Invisible
  <1> QED BY <1>1, <1>2 DEF handBar

(* The queue of 6.7 implements the abstract FIFO queue. *)
THEOREM Linearizability == Spec => Linearizable
  <1>1. ASSUME IInv, [Next]_vars PROVE [AQ!Next]_AQ!vars
    <2>1. ASSUME NEW t \in Thread, Step(t) \/ Call(t) PROVE [AQ!Next]_AQ!vars
      <3> USE <1>1
      <3>1. CASE MoveTail(t)
        BY <3>1, PutRefines DEF AQ!Next
      <3>2. CASE PopHead(t)
        BY <3>2, TakeRefines DEF AQ!Next
      <3>3. CASE Answer(t)
        BY <3>3, ObserveRefines DEF AQ!Next
      <3>4. CASE Return(t)
        BY <3>4, ReturnRefines DEF AQ!Next
      <3>5. CASE Invisible(t)
        BY <3>5, InvisibleRefines DEF AQ!vars
      <3> QED BY <2>1, <3>1, <3>2, <3>3, <3>4, <3>5 DEF Step, Call, Invisible
    <2>2. CASE UNCHANGED vars
      BY <2>2 DEF vars, shared, locks, locals, AQ!vars, itemsBar, Contents, handBar, Result
    <2> QED BY <1>1, <2>1, <2>2 DEF Next
  <1> QED BY <1>1, InitRefines, Invariance, PTL DEF Spec, Linearizable, AQ!Spec
=============================================================================
