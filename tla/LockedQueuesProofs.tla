------------------------- MODULE LockedQueuesProofs -------------------------
(***************************************************************************)
(* Proofs about the containers with one mutex, for any number of threads,  *)
(* pushes and exceptions.                                                  *)
(***************************************************************************)
EXTENDS LockedQueues, FiniteSetTheorems, TLAPS

USE ContainerAssumption DEF ContainerAssumption

(* The waiting and the woken threads are finitely many.                    *)
LEMMA CountWoken ==
  /\ IsFiniteSet(Woken) /\ Cardinality(Woken) \in Nat
  /\ \A t \in Thread : Cardinality(Woken \cup {t}) =
       IF t \in Woken THEN Cardinality(Woken) ELSE Cardinality(Woken) + 1
  /\ \A t \in Woken : Cardinality(Woken \ {t}) = Cardinality(Woken) - 1
<1>1. IsFiniteSet(Woken)
  BY FS_Subset DEF Woken
<1>2. Cardinality(Woken) \in Nat
  BY <1>1, FS_CardinalityType
<1> QED BY <1>1, <1>2, FS_AddElement, FS_RemoveElement

(* How long the container is after a step.                                 *)
LEMMA Lengths ==
  ASSUME TypeOK
  PROVE  /\ Len(items) \in Nat
         /\ items = <<>> <=> Len(items) = 0
         /\ \A n \in Nat : Append(items, n) \in Seq(Nat) /\ Len(Append(items, n)) = Len(items) + 1
         /\ items # <<>> => Rest \in Seq(Nat) /\ Len(Rest) = Len(items) - 1 /\ Front \in Nat
         /\ items # <<>> => [items EXCEPT ![1] = MovedFrom(@)] \in Seq(Nat)
         /\ items # <<>> => Len([items EXCEPT ![1] = MovedFrom(@)]) = Len(items)
<1>1. Len(items) \in Nat /\ (items = <<>> <=> Len(items) = 0)
  BY DEF TypeOK
<1>2. \A n \in Nat : Append(items, n) \in Seq(Nat) /\ Len(Append(items, n)) = Len(items) + 1
  BY DEF TypeOK
<1>3. ASSUME items # <<>>
      PROVE  Rest \in Seq(Nat) /\ Len(Rest) = Len(items) - 1 /\ Front \in Nat
  <2>1. Tail(items) \in Seq(Nat) /\ Len(Tail(items)) = Len(items) - 1 /\ Head(items) \in Nat
    BY <1>1, <1>3 DEF TypeOK
  <2>2. items[Len(items)] \in Nat
    BY <1>1, <1>3 DEF TypeOK
  <2>3. Len(items) - 1 \in Nat /\ \A i \in 1..Len(items) - 1 : items[i] \in Nat
    BY <1>1, <1>3 DEF TypeOK
  <2>4. /\ [i \in 1..Len(items) - 1 |-> items[i]] \in Seq(Nat)
        /\ Len([i \in 1..Len(items) - 1 |-> items[i]]) = Len(items) - 1
    BY <2>3
  <2> QED BY <2>1, <2>2, <2>4 DEF Rest, Front
<1>4. ASSUME items # <<>>
      PROVE  /\ [items EXCEPT ![1] = MovedFrom(@)] \in Seq(Nat)
             /\ Len([items EXCEPT ![1] = MovedFrom(@)]) = Len(items)
  <2>1. 1 \in DOMAIN items /\ MovedFrom(items[1]) \in Nat
    BY <1>1, <1>4 DEF TypeOK, MovedFrom, Husk
  <2> QED BY <2>1 DEF TypeOK
<1> QED BY <1>1, <1>2, <1>3, <1>4

(* Every step keeps the types. *)
LEMMA Types == TypeOK /\ [Next]_vars => TypeOK'
<1> SUFFICES ASSUME TypeOK, [Next]_vars PROVE TypeOK'
  OBVIOUS
<1> USE DEF TypeOK
<1>1. CASE UNCHANGED vars
  BY <1>1 DEF vars
<1>2. ASSUME NEW t \in Thread, Push(t) PROVE TypeOK'
  <2>1. count' \in Nat /\ items' \in Seq(Nat)
    BY <1>2, Lengths DEF Push
  <2>2. /\ pc' \in [Thread -> {"idle", "waiting", "woken"}]
        /\ \A u \in Thread : pc'[u] = "idle" <=> pc[u] = "idle"
    BY <1>2 DEF Push, Sleeping
  <2> QED BY <1>2, <2>1, <2>2 DEF Push
<1>take. ASSUME items # <<>>, Deliver PROVE taken' \in Seq(Nat)
  BY <1>take, Lengths DEF Deliver
<1>3. ASSUME NEW t \in Thread, PopNow(t) PROVE TypeOK'
  BY <1>3, <1>take, Lengths DEF PopNow, Take
<1>4. ASSUME NEW t \in Thread, TryPopPtr(t) PROVE TypeOK'
  <2>1. items' \in Seq(Nat) /\ taken' \in Seq(Nat)
    BY <1>4, <1>take, Lengths DEF TryPopPtr
  <2> QED BY <1>4, <2>1 DEF TryPopPtr
<1>5. ASSUME NEW t \in Thread, PopNothing(t) PROVE TypeOK'
  BY <1>5 DEF PopNothing, vars
<1>6. ASSUME NEW t \in Thread, Block(t) PROVE TypeOK'
  BY <1>6 DEF Block, WaitOp, hist
<1>7. ASSUME NEW t \in Thread, SpuriousWakeup(t) PROVE TypeOK'
  BY <1>7 DEF SpuriousWakeup, hist
<1>8. ASSUME NEW t \in Thread, PopWoken(t) PROVE TypeOK'
  BY <1>8, <1>take, Lengths DEF PopWoken, Take, EndWait, WaitOp
<1>9. ASSUME NEW t \in Thread, WokenThrows(t) PROVE TypeOK'
  BY <1>9 DEF WokenThrows, EndWait, WaitOp
<1> QED
  BY <1>1, <1>2, <1>3, <1>4, <1>5, <1>6, <1>7, <1>8, <1>9 DEF Next

(* Every wake-up that is owed to an element is still on its way after a    *)
(* step, whoever makes it.                                                 *)
LEMMA WakeupsKept == TypeOK /\ NoStrandedWaiter /\ [Next]_vars => NoStrandedWaiter'
<1> SUFFICES ASSUME TypeOK, NoStrandedWaiter, [Next]_vars, Sleeping' # {}
             PROVE  Len(items') <= Cardinality(Woken') + thrown'
  BY DEF NoStrandedWaiter
<1> USE CountWoken, Lengths DEF NoStrandedWaiter
<1>0. thrown \in Nat /\ pc \in [Thread -> {"idle", "waiting", "woken"}]
  BY DEF TypeOK
<1>same. ASSUME pc' = pc PROVE Sleeping' = Sleeping /\ Woken' = Woken
  BY <1>same DEF Sleeping, Woken
<1>1. CASE UNCHANGED vars
  BY <1>1, <1>0, <1>same DEF vars
<1>2. ASSUME NEW t \in Thread, Push(t) PROVE Len(items') <= Cardinality(Woken') + thrown'
  <2>1. Len(items') = Len(items) + 1 /\ thrown' = thrown
    BY <1>2 DEF Push, TypeOK
  <2>2. CASE Sleeping = {} /\ UNCHANGED pc
    BY <2>2, <1>same
  <2>3. CASE \E w \in Sleeping : pc' = [pc EXCEPT ![w] = "woken"]
    <3>1. PICK w \in Sleeping : pc' = [pc EXCEPT ![w] = "woken"]
      BY <2>3
    <3>2. w \in Thread /\ w \notin Woken /\ Woken' = Woken \cup {w}
      BY <3>1, <1>0 DEF Sleeping, Woken
    <3>3. Cardinality(Woken') = Cardinality(Woken) + 1 /\ Sleeping # {}
      BY <3>2
    <3>4. Len(items) <= Cardinality(Woken) + thrown
      BY <3>3
    <3> QED BY <2>1, <3>3, <3>4, <1>0
  <2> QED BY <1>2, <2>2, <2>3 DEF Push
<1>3. ASSUME NEW t \in Thread, PopNow(t) PROVE Len(items') <= Cardinality(Woken') + thrown'
  BY <1>3, <1>0, <1>same DEF PopNow, Take
<1>4. ASSUME NEW t \in Thread, TryPopPtr(t) PROVE Len(items') <= Cardinality(Woken') + thrown'
  BY <1>4, <1>0, <1>same DEF TryPopPtr
<1>5. ASSUME NEW t \in Thread, PopNothing(t) PROVE Len(items') <= Cardinality(Woken') + thrown'
  BY <1>5, <1>0, <1>same DEF PopNothing, vars
<1>6. ASSUME NEW t \in Thread, Block(t) PROVE Len(items') <= Cardinality(Woken') + thrown'
  <2>1. Woken' \subseteq Woken
    BY <1>6, <1>0 DEF Block, Woken
  <2>2. Cardinality(Woken') \in Nat
    BY <2>1, FS_Subset, FS_CardinalityType
  <2> QED BY <1>6, <1>0, <2>2 DEF Block, hist
<1>7. ASSUME NEW t \in Thread, SpuriousWakeup(t)
      PROVE  Len(items') <= Cardinality(Woken') + thrown'
  <2>1. t \in Sleeping /\ t \notin Woken /\ Woken' = Woken \cup {t}
    BY <1>7, <1>0 DEF SpuriousWakeup, Sleeping, Woken
  <2> QED BY <1>7, <1>0, <2>1 DEF SpuriousWakeup, hist
<1>8. ASSUME NEW t \in Thread, PopWoken(t) PROVE Len(items') <= Cardinality(Woken') + thrown'
  <2>1. t \in Woken /\ Woken' = Woken \ {t} /\ Sleeping' = Sleeping
    BY <1>8, <1>0 DEF PopWoken, EndWait, Sleeping, Woken
  <2>2. Cardinality(Woken') = Cardinality(Woken) - 1
    BY <2>1
  <2>3. Len(items') = Len(items) - 1 /\ thrown' = thrown
    BY <1>8 DEF PopWoken, Take
  <2>4. Len(items) <= Cardinality(Woken) + thrown
    BY <2>1
  <2> QED BY <1>0, <2>2, <2>3, <2>4
<1>9. ASSUME NEW t \in Thread, WokenThrows(t) PROVE Len(items') <= Cardinality(Woken') + thrown'
  <2>1. t \in Woken /\ Woken' = Woken \ {t} /\ Sleeping' = Sleeping
    BY <1>9, <1>0 DEF WokenThrows, EndWait, Sleeping, Woken
  <2>2. Cardinality(Woken') = Cardinality(Woken) - 1
    BY <2>1
  <2>3. items' = items /\ thrown' = thrown + 1
    BY <1>9 DEF WokenThrows
  <2>4. Len(items) <= Cardinality(Woken) + thrown
    BY <2>1
  <2> QED BY <1>0, <2>2, <2>3, <2>4
<1> QED
  BY <1>1, <1>2, <1>3, <1>4, <1>5, <1>6, <1>7, <1>8, <1>9 DEF Next

(* No notification of a push gets lost: an element next to a sleeping      *)
(* waiter has a woken thread on its way, unless one has thrown instead.    *)
THEOREM NoWakeupLost == Spec => [](TypeOK /\ NoStrandedWaiter)
<1>1. Init => TypeOK /\ NoStrandedWaiter
  BY DEF Init, TypeOK, NoStrandedWaiter, Sleeping, WaitOp
<1>2. TypeOK /\ NoStrandedWaiter /\ [Next]_vars => (TypeOK /\ NoStrandedWaiter)'
  BY Types, WakeupsKept
<1> QED BY <1>1, <1>2, PTL DEF Spec

-----------------------------------------------------------------------------
(* The places of two sequences in their concatenation. *)
LEMMA ConcatFacts ==
  ASSUME NEW s \in Seq(Nat), NEW u \in Seq(Nat)
  PROVE  /\ s \o u \in Seq(Nat) /\ Len(s \o u) = Len(s) + Len(u)
         /\ Len(s) \in Nat /\ Len(u) \in Nat
         /\ DOMAIN (s \o u) = 1..Len(s) + Len(u)
         /\ \A i \in 1..Len(s) : (s \o u)[i] = s[i]
         /\ \A i \in 1..Len(u) : (s \o u)[Len(s) + i] = u[i]
  OBVIOUS

LEMMA AppendFacts ==
  ASSUME NEW s \in Seq(Nat), NEW n \in Nat
  PROVE  /\ Append(s, n) \in Seq(Nat) /\ Len(Append(s, n)) = Len(s) + 1
         /\ DOMAIN Append(s, n) = 1..Len(s) + 1 /\ Len(s) \in Nat /\ DOMAIN s = 1..Len(s)
         /\ Append(s, n)[Len(s) + 1] = n
         /\ \A i \in 1..Len(s) : Append(s, n)[i] = s[i]
  OBVIOUS

LEMMA TailFacts ==
  ASSUME NEW s \in Seq(Nat), s # <<>>
  PROVE  /\ Tail(s) \in Seq(Nat) /\ Len(Tail(s)) = Len(s) - 1 /\ Len(s) \in Nat \ {0}
         /\ DOMAIN Tail(s) = 1..Len(s) - 1 /\ DOMAIN s = 1..Len(s)
         /\ Head(s) = s[1] /\ Head(s) \in Nat
         /\ \A i \in 1..Len(s) - 1 : Tail(s)[i] = s[i + 1]
  OBVIOUS

(* Equal at every place. *)
LEMMA SameSequence ==
  ASSUME NEW s \in Seq(Nat), NEW u \in Seq(Nat), Len(s) = Len(u),
         \A i \in 1..Len(s) : s[i] = u[i]
  PROVE  s = u
  OBVIOUS

LEMMA AppendNumbers ==
  ASSUME NEW s \in Seq(Nat), NEW n \in Nat
  PROVE  Numbers(Append(s, n)) = Numbers(s) \cup {n}
<1> DEFINE a == Append(s, n)
<1>1. /\ DOMAIN a = 1..Len(s) + 1 /\ Len(s) \in Nat /\ DOMAIN s = 1..Len(s) /\ a[Len(s) + 1] = n
      /\ \A i \in 1..Len(s) : a[i] = s[i]
  BY AppendFacts
<1> HIDE DEF a
<1>2. \A i \in DOMAIN a : i \in DOMAIN s \/ i = Len(s) + 1
  BY <1>1
<1>3. \A i \in DOMAIN s : i \in DOMAIN a
  BY <1>1
<1>4. Len(s) + 1 \in DOMAIN a
  BY <1>1
<1>5. Numbers(a) = Numbers(s) \cup {n}
  BY <1>1, <1>2, <1>3, <1>4 DEF Numbers
<1> QED BY <1>5 DEF a

(* A push adds the next number at the end of what a queue has delivered    *)
(* and what it holds.                                                      *)
LEMMA PushExtends ==
  ASSUME NEW s \in Seq(Nat), NEW u \in Seq(Nat), NEW n \in Nat
  PROVE  s \o Append(u, n) = Append(s \o u, n)
<1>0. PICK p, q, c, w : p = Len(s) /\ q = Len(u) /\ c = s \o u /\ w = Append(u, n)
  OBVIOUS
<1>1. /\ c \in Seq(Nat) /\ Len(c) = p + q /\ p \in Nat /\ q \in Nat
      /\ \A i \in 1..p : c[i] = s[i]
      /\ \A i \in 1..q : c[p + i] = u[i]
  BY <1>0, ConcatFacts
<1>2. /\ w \in Seq(Nat) /\ Len(w) = q + 1 /\ w[q + 1] = n
      /\ \A i \in 1..q : w[i] = u[i]
  BY <1>0, AppendFacts
<1>3. PICK l, r : l = s \o w /\ r = Append(c, n)
  OBVIOUS
<1>4. /\ l \in Seq(Nat) /\ Len(l) = p + (q + 1)
      /\ \A i \in 1..p : l[i] = s[i]
      /\ \A i \in 1..q + 1 : l[p + i] = w[i]
  BY <1>0, <1>2, <1>3, ConcatFacts
<1>5. /\ r \in Seq(Nat) /\ Len(r) = (p + q) + 1 /\ r[(p + q) + 1] = n
      /\ \A i \in 1..p + q : r[i] = c[i]
  <2>1. /\ r \in Seq(Nat) /\ Len(r) = Len(c) + 1 /\ r[Len(c) + 1] = n
        /\ \A i \in 1..Len(c) : r[i] = c[i]
    BY <1>1, <1>3, AppendFacts
  <2>2. Len(c) = p + q
    BY <1>1
  <2> QED BY <2>1, <2>2, Zenon
<1>6. ASSUME NEW i \in 1..p + (q + 1) PROVE l[i] = r[i]
  <2>1. CASE i \in 1..p
    <3>1. i \in 1..p + q
      BY <1>1, <2>1
    <3> QED BY <1>1, <1>4, <1>5, <2>1, <3>1
  <2>2. CASE i \notin 1..p
    <3>1. PICK j \in 1..q + 1 : i = p + j
      <4>1. i - p \in 1..q + 1 /\ i = p + (i - p)
        BY <1>1, <2>2
      <4> QED BY <4>1
    <3>2. l[i] = w[j]
      BY <1>4, <3>1
    <3>3. CASE j \in 1..q
      <4>1. i \in 1..p + q
        BY <1>1, <3>1, <3>3
      <4>2. c[i] = u[j] /\ w[j] = u[j]
        BY <1>1, <1>2, <3>1, <3>3
      <4> QED BY <1>5, <3>2, <4>1, <4>2
    <3>4. CASE j = q + 1
      <4>1. i = (p + q) + 1
        BY <1>1, <3>1, <3>4
      <4> QED BY <1>2, <1>5, <3>2, <3>4, <4>1
    <3> QED BY <1>1, <3>1, <3>3, <3>4
  <2> QED BY <2>1, <2>2
<1>7. Len(l) = Len(r) /\ Len(l) = p + (q + 1)
  BY <1>1, <1>4, <1>5
<1>8. l = r
  BY <1>4, <1>5, <1>6, <1>7, SameSequence
<1> QED BY <1>0, <1>3, <1>8

(* A pop moves the border between what is delivered and what is held.      *)
LEMMA PopMovesBorder ==
  ASSUME NEW s \in Seq(Nat), NEW u \in Seq(Nat), u # <<>>
  PROVE  Append(s, Head(u)) \o Tail(u) = s \o u
<1>0. PICK p, q, a, v : p = Len(s) /\ q = Len(u) /\ a = Append(s, Head(u)) /\ v = Tail(u)
  OBVIOUS
<1>1. /\ v \in Seq(Nat) /\ Len(v) = q - 1 /\ q \in Nat \ {0}
      /\ Head(u) = u[1] /\ Head(u) \in Nat
      /\ \A i \in 1..q - 1 : v[i] = u[i + 1]
  BY <1>0, TailFacts
<1>2. /\ a \in Seq(Nat) /\ Len(a) = p + 1 /\ p \in Nat /\ a[p + 1] = u[1]
      /\ \A i \in 1..p : a[i] = s[i]
  BY <1>0, <1>1, AppendFacts
<1>3. PICK l, r : l = a \o v /\ r = s \o u
  OBVIOUS
<1>4. /\ l \in Seq(Nat) /\ Len(l) = (p + 1) + (q - 1)
      /\ \A i \in 1..p + 1 : l[i] = a[i]
      /\ \A i \in 1..q - 1 : l[(p + 1) + i] = v[i]
  <2>1. /\ l \in Seq(Nat) /\ Len(l) = Len(a) + Len(v)
        /\ \A i \in 1..Len(a) : l[i] = a[i]
        /\ \A i \in 1..Len(v) : l[Len(a) + i] = v[i]
    <3>1. a \in Seq(Nat) /\ v \in Seq(Nat) /\ l = a \o v
      BY <1>1, <1>2, <1>3
    <3> QED BY <3>1, ConcatFacts
  <2>2. Len(a) = p + 1 /\ Len(v) = q - 1
    BY <1>1, <1>2
  <2> QED BY <2>1, <2>2, Zenon
<1>5. /\ r \in Seq(Nat) /\ Len(r) = p + q
      /\ \A i \in 1..p : r[i] = s[i]
      /\ \A i \in 1..q : r[p + i] = u[i]
  BY <1>0, <1>3, ConcatFacts
<1>6. ASSUME NEW i \in 1..p + q PROVE l[i] = r[i]
  <2>1. CASE i \in 1..p
    <3>1. i \in 1..p + 1
      BY <1>2, <2>1
    <3> QED BY <1>2, <1>4, <1>5, <2>1, <3>1
  <2>2. CASE i = p + 1
    <3>1. i \in 1..p + 1 /\ 1 \in 1..q
      BY <1>1, <1>2, <2>2
    <3>2. r[i] = u[1]
      BY <1>5, <2>2, <3>1
    <3> QED BY <1>2, <1>4, <2>2, <3>1, <3>2
  <2>3. CASE i > p + 1
    <3>1. PICK j \in 1..q - 1 : i = (p + 1) + j
      <4>1. i - (p + 1) \in 1..q - 1 /\ i = (p + 1) + (i - (p + 1))
        BY <1>1, <1>2, <2>3
      <4> QED BY <4>1
    <3>2. l[i] = v[j] /\ v[j] = u[j + 1]
      BY <1>1, <1>4, <3>1
    <3>3. j + 1 \in 1..q /\ i = p + (j + 1)
      BY <1>1, <1>2, <3>1
    <3>4. r[i] = u[j + 1]
      BY <1>5, <3>3
    <3> QED BY <3>2, <3>4
  <2> QED BY <1>1, <1>2, <2>1, <2>2, <2>3
<1>7. Len(l) = Len(r) /\ Len(l) = p + q
  BY <1>1, <1>2, <1>4, <1>5
<1>8. l = r
  BY <1>4, <1>5, <1>6, <1>7, SameSequence
<1> QED BY <1>0, <1>3, <1>8

(* The next number follows all others. *)
LEMMA OrderedAppend ==
  ASSUME NEW s \in Seq(Nat), NEW n \in Nat, Numbers(s) \ {Husk} = 1..n, Ordered(s)
  PROVE  Numbers(Append(s, n + 1)) \ {Husk} = 1..n + 1 /\ Ordered(Append(s, n + 1))
<1> DEFINE a == Append(s, n + 1)
<1>1. /\ DOMAIN a = 1..Len(s) + 1 /\ Len(s) \in Nat /\ DOMAIN s = 1..Len(s)
      /\ a[Len(s) + 1] = n + 1
      /\ \A i \in 1..Len(s) : a[i] = s[i]
  BY AppendFacts
<1>2. Numbers(a) = Numbers(s) \cup {n + 1}
  BY AppendNumbers
<1> HIDE DEF a
<1>3. Numbers(a) \ {Husk} = 1..n + 1
  <2>1. 1..n + 1 = (1..n) \cup {n + 1} /\ n + 1 # Husk
    BY DEF Husk
  <2> QED BY <1>2, <2>1
<1>4. ASSUME NEW i \in DOMAIN a, NEW j \in DOMAIN a, i < j, a[i] # Husk, a[j] # Husk
      PROVE  IF kind = "copies" THEN a[i] <= a[j] ELSE a[i] < a[j]
  <2>1. i \in DOMAIN s /\ a[i] = s[i]
    BY <1>1, <1>4
  <2>2. CASE j \in DOMAIN s
    <3>1. a[j] = s[j]
      BY <1>1, <2>2
    <3> QED BY <1>4, <2>1, <2>2, <3>1 DEF Ordered
  <2>3. CASE j = Len(s) + 1
    <3>1. s[i] \in Numbers(s) \ {Husk}
      BY <1>4, <2>1 DEF Numbers
    <3>2. s[i] \in 1..n
      BY <3>1
    <3> QED BY <1>1, <2>1, <2>3, <3>2
  <2> QED BY <1>1, <2>2, <2>3
<1>5. Ordered(a)
  BY <1>4 DEF Ordered
<1> QED BY <1>3, <1>5 DEF a

(* The places of try_pop() of 6.2: u is what the queue holds, w what is    *)
(* left there, and each place of what is delivered and held afterwards, l, *)
(* has its origin in what was delivered and held before, r.                *)
Origin(k, i) == IF i <= k THEN i ELSE i - 1

Repeated(s, u, w, l, r, k) ==
  /\ u # <<>> /\ Len(w) = Len(u) /\ w[1] = MovedFrom(Head(u))
  /\ \A i \in 1..Len(u) : i # 1 => w[i] = u[i]
  /\ l = Append(s, Head(u)) \o w /\ r = s \o u /\ k = Len(s) + 1

Places(l, r, k) ==
  /\ DOMAIN l \subseteq Nat /\ k \in DOMAIN r /\ k \in Nat /\ r[k] \in Nat
  /\ \A i \in DOMAIN l :
       /\ Origin(k, i) \in DOMAIN r
       /\ i # k + 1 => l[i] = r[Origin(k, i)]
       /\ i = k + 1 => l[i] = MovedFrom(r[k])
  /\ \A i \in DOMAIN r : \E j \in DOMAIN l : l[j] = r[i]

LEMMA RepeatPlaces ==
  ASSUME NEW s \in Seq(Nat), NEW u \in Seq(Nat), NEW w \in Seq(Nat), NEW l, NEW r, NEW k
  PROVE  Repeated(s, u, w, l, r, k) => Places(l, r, k)
<1>h. SUFFICES ASSUME Repeated(s, u, w, l, r, k) PROVE Places(l, r, k)
  OBVIOUS
<1>i. /\ u # <<>> /\ Len(w) = Len(u) /\ w[1] = MovedFrom(Head(u))
      /\ \A i \in 1..Len(u) : i # 1 => w[i] = u[i]
      /\ l = Append(s, Head(u)) \o w /\ r = s \o u /\ k = Len(s) + 1
  BY <1>h DEF Repeated
<1>0. PICK p, q, a : p = Len(s) /\ q = Len(u) /\ a = Append(s, Head(u))
  OBVIOUS
<1>1. q \in Nat \ {0} /\ Head(u) = u[1] /\ Head(u) \in Nat
  BY <1>i, <1>0, TailFacts
<1>2. /\ a \in Seq(Nat) /\ Len(a) = k /\ p \in Nat /\ k = p + 1 /\ k \in Nat /\ a[k] = u[1]
      /\ \A i \in 1..p : a[i] = s[i]
  BY <1>i, <1>0, <1>1, AppendFacts
<1>3. Len(w) = q /\ w[1] = MovedFrom(u[1]) /\ \A i \in 1..q : i # 1 => w[i] = u[i]
  BY <1>i, <1>0, <1>1
<1>4. /\ DOMAIN l = 1..k + q
      /\ \A i \in 1..k : l[i] = a[i]
      /\ \A i \in 1..q : l[k + i] = w[i]
  <2>1. a \in Seq(Nat) /\ l = a \o w
    BY <1>i, <1>0, <1>2
  <2>2. /\ DOMAIN l = 1..Len(a) + Len(w)
        /\ \A i \in 1..Len(a) : l[i] = a[i]
        /\ \A i \in 1..Len(w) : l[Len(a) + i] = w[i]
    BY <2>1, ConcatFacts
  <2>3. Len(a) = k /\ Len(w) = q
    BY <1>2, <1>3
  <2> QED BY <2>2, <2>3, Zenon
<1>5. /\ DOMAIN r = 1..p + q
      /\ \A i \in 1..p : r[i] = s[i]
      /\ \A i \in 1..q : r[p + i] = u[i]
  BY <1>i, <1>0, ConcatFacts
<1>6. r[k] = u[1] /\ k \in DOMAIN r
  <2>1. 1 \in 1..q /\ p + 1 \in 1..p + q
    BY <1>1, <1>2
  <2> QED BY <1>2, <1>5, <2>1
<1>7. ASSUME NEW i \in DOMAIN l
      PROVE  /\ Origin(k, i) \in DOMAIN r
             /\ i # k + 1 => l[i] = r[Origin(k, i)]
             /\ i = k + 1 => l[i] = MovedFrom(r[k])
  <2>0. i \in 1..k + q
    BY <1>4
  <2>1. CASE i \in 1..p
    <3>0. p \in Nat /\ q \in Nat /\ k = p + 1
      BY <1>1, <1>2
    <3>1. Origin(k, i) = i /\ i \in 1..p + q /\ i \in 1..k /\ i # k + 1
      BY <3>0, <2>1 DEF Origin
    <3>2. l[i] = a[i] /\ a[i] = s[i] /\ r[i] = s[i]
      BY <1>2, <1>4, <1>5, <2>1, <3>1
    <3>3. i \in DOMAIN r
      BY <1>5, <3>1
    <3> QED BY <3>1, <3>2, <3>3
  <2>2. CASE i = k
    <3>1. Origin(k, i) = i /\ i \in 1..k /\ i # k + 1
      BY <1>2, <2>2 DEF Origin
    <3> QED BY <1>2, <1>4, <1>6, <2>2, <3>1
  <2>3. CASE i = k + 1
    <3>1. Origin(k, i) = k /\ 1 \in 1..q
      BY <1>1, <1>2, <2>3 DEF Origin
    <3>2. l[i] = w[1]
      BY <1>4, <2>3, <3>1
    <3> QED BY <1>3, <1>6, <2>3, <3>1, <3>2
  <2>4. CASE i > k + 1
    <3>1. PICK j \in 1..q : i = k + j /\ j # 1
      <4>0. k \in Nat /\ q \in Nat
        BY <1>1, <1>2
      <4>1. i - k \in 1..q /\ i = k + (i - k) /\ i - k # 1
        BY <4>0, <2>0, <2>4
      <4> QED BY <4>1
    <3>2. Origin(k, i) = p + j /\ i # k + 1 /\ p + j \in 1..p + q
      BY <1>1, <1>2, <2>4, <3>1 DEF Origin
    <3>3. l[i] = w[j] /\ w[j] = u[j] /\ r[p + j] = u[j]
      BY <1>3, <1>4, <1>5, <3>1
    <3> QED BY <1>5, <3>2, <3>3
  <2>5. i \in 1..p \/ i = k \/ i = k + 1 \/ i > k + 1
    <3>0. p \in Nat /\ q \in Nat /\ k = p + 1 /\ k \in Nat
      BY <1>1, <1>2
    <3>1. i \in Nat /\ i >= 1
      BY <3>0, <2>0
    <3>2. i <= p => i \in 1..p
      BY <3>0, <3>1
    <3>3. i <= p \/ i = p + 1 \/ i = p + 2 \/ i > p + 2
      BY <3>0, <3>1
    <3>4. p + 2 = k + 1
      BY <3>0
    <3> QED BY <3>0, <3>2, <3>3, <3>4
  <2> QED BY <2>1, <2>2, <2>3, <2>4, <2>5
<1>8. ASSUME NEW i \in DOMAIN r PROVE \E j \in DOMAIN l : l[j] = r[i]
  <2>0. i \in 1..p + q
    BY <1>5
  <2>1. CASE i <= k
    <3>1. i \in 1..k + q /\ Origin(k, i) = i /\ i # k + 1
      BY <1>1, <1>2, <2>0, <2>1 DEF Origin
    <3> QED BY <1>4, <1>7, <3>1
  <2>2. CASE ~(i <= k)
    <3>0. p \in Nat /\ q \in Nat /\ k = p + 1
      BY <1>1, <1>2
    <3>1. PICK j : j = i + 1
      OBVIOUS
    <3>2. j \in 1..k + q /\ Origin(k, j) = i /\ j # k + 1
      BY <3>0, <3>1, <2>0, <2>2 DEF Origin
    <3> QED BY <1>4, <1>7, <3>2
  <2> QED BY <2>1, <2>2
<1>9. DOMAIN l \subseteq Nat /\ r[k] \in Nat
  BY <1>1, <1>2, <1>4, <1>6
<1> QED BY <1>2, <1>6, <1>7, <1>8, <1>9 DEF Places

(* The front that stays, as it is or as a husk, is in its place. *)
LEMMA OrderedRepeat ==
  ASSUME NEW l, NEW r, NEW k, Places(l, r, k), Ordered(r)
  PROVE  Numbers(l) \ {Husk} = Numbers(r) \ {Husk} /\ Ordered(l)
<1>1. ASSUME NEW i \in DOMAIN l, l[i] # Husk
      PROVE  l[i] = r[Origin(k, i)] /\ (i = k + 1 => kind = "copies")
  <2>1. k \in Nat /\ (i = k + 1 => Origin(k, i) = k)
    BY DEF Origin, Places
  <2> QED BY <1>1, <2>1 DEF MovedFrom, Places
<1>2. Numbers(l) \ {Husk} = Numbers(r) \ {Husk}
  <2>1. \A i \in DOMAIN l : l[i] # Husk => \E j \in DOMAIN r : r[j] = l[i]
    BY <1>1 DEF Places
  <2>2. \A i \in DOMAIN r : \E j \in DOMAIN l : l[j] = r[i]
    BY DEF Places
  <2> QED BY <2>1, <2>2 DEF Numbers
<1>3. ASSUME NEW i \in DOMAIN l, NEW j \in DOMAIN l, i < j, l[i] # Husk, l[j] # Husk
      PROVE  IF kind = "copies" THEN l[i] <= l[j] ELSE l[i] < l[j]
  <2>1. PICK x, y : x = Origin(k, i) /\ y = Origin(k, j)
    OBVIOUS
  <2>2. x \in DOMAIN r /\ y \in DOMAIN r /\ l[i] = r[x] /\ l[j] = r[y] /\ r[x] # Husk /\ r[y] # Husk
    BY <1>1, <1>3, <2>1 DEF Places
  <2>3. i \in Nat /\ j \in Nat /\ k \in Nat /\ r[k] \in Nat
    BY DEF Places
  <2>4. x < y \/ (j = k + 1 /\ x = k /\ y = k)
    BY <1>3, <2>1, <2>3 DEF Origin
  <2>5. CASE x < y
    BY <2>2, <2>5 DEF Ordered
  <2>6. CASE j = k + 1 /\ x = k /\ y = k
    <3>1. kind = "copies" /\ l[i] = r[k] /\ l[j] = r[k]
      BY <1>1, <1>3, <2>2, <2>6
    <3> QED BY <2>3, <3>1
  <2> QED BY <2>4, <2>5, <2>6
<1>4. Ordered(l)
  BY <1>3 DEF Ordered
<1> QED BY <1>2, <1>4

-----------------------------------------------------------------------------
(* A step that touches neither the container nor its history. *)
LEMMA KeepsContainer ==
  ASSUME IInv, TypeOK', UNCHANGED <<kind, items, count, taken, left>>
  PROVE  IInv'
<1>1. NothingLostInOrder'
  BY DEF IInv, NothingLostInOrder, QueueInOrder, Ordered, StackKeepsAll, Surplus, HuskIsFront
<1> QED BY <1>1 DEF IInv

LEMMA PushKeepsAll ==
  ASSUME IInv, TypeOK', NEW t \in Thread, Push(t)
  PROVE  IInv'
<1>1. /\ items \in Seq(Nat) /\ taken \in Seq(Nat) /\ count \in Nat /\ left \in Nat
      /\ kind' = kind /\ taken' = taken /\ left' = left
      /\ count' = count + 1 /\ items' = Append(items, count + 1)
  BY DEF Push, IInv, TypeOK
<1>2. PICK c : c = count + 1
  OBVIOUS
<1>3. c \in Nat /\ c # Husk /\ items' = Append(items, c)
  BY <1>1, <1>2 DEF Husk
<1>4. /\ Len(items') = Len(items) + 1 /\ DOMAIN items' = 1..Len(items) + 1
      /\ Len(items) \in Nat /\ DOMAIN items = 1..Len(items)
      /\ items'[Len(items) + 1] = c
      /\ \A i \in 1..Len(items) : items'[i] = items[i]
      /\ Numbers(items') = Numbers(items) \cup {c}
  BY <1>1, <1>3, AppendFacts, AppendNumbers
<1>5. QueueInOrder'
  <2> SUFFICES ASSUME kind # "stack"
               PROVE  /\ Numbers(taken' \o items') \ {Husk} = 1..count'
                      /\ Ordered(taken \o items)'
    BY <1>1 DEF QueueInOrder
  <2>1. PICK r : r = taken \o items
    OBVIOUS
  <2>2. r \in Seq(Nat) /\ Numbers(r) \ {Husk} = 1..count /\ Ordered(r)
    BY <1>1, <2>1, ConcatFacts DEF IInv, NothingLostInOrder, QueueInOrder
  <2>3. PICK a : a = Append(r, count + 1)
    OBVIOUS
  <2>4. Numbers(a) \ {Husk} = 1..count + 1 /\ Ordered(a)
    BY <1>1, <2>2, <2>3, OrderedAppend
  <2>5. taken' \o items' = a
    <3>1. taken \o Append(items, c) = Append(taken \o items, c)
      BY <1>1, <1>3, PushExtends
    <3> QED BY <1>1, <1>2, <1>3, <2>1, <2>3, <3>1
  <2>6. Ordered(a)'
    BY <1>1, <2>4 DEF Ordered
  <2>7. Ordered(taken \o items)'
    BY <2>5, <2>6 DEF Ordered
  <2>8. Numbers(taken' \o items') \ {Husk} = 1..count'
    BY <1>1, <2>4, <2>5, Zenon
  <2> QED BY <2>7, <2>8
<1>6. StackKeepsAll'
  <2>1. 1..c = (1..count) \cup {c}
    BY <1>1, <1>2
  <2> QED BY <1>1, <1>2, <1>4, <2>1 DEF IInv, NothingLostInOrder, StackKeepsAll
<1>7. Surplus'
  <2>1. PICK m, n : m = Len(taken) /\ n = Len(items)
    OBVIOUS
  <2>2. m \in Nat /\ n \in Nat /\ m + n = count + left
    BY <1>1, <1>4, <2>1 DEF IInv, NothingLostInOrder, Surplus
  <2>3. Len(taken') = m /\ Len(items') = n + 1
    BY <1>1, <1>4, <2>1
  <2>4. m + (n + 1) = (count + 1) + left
    BY <1>1, <2>2
  <2>5. Len(taken') + Len(items') = count' + left'
    BY <1>1, <2>3, <2>4
  <2> QED BY <1>1, <2>5 DEF IInv, NothingLostInOrder, Surplus
<1>8. HuskIsFront'
  <2>1. \A i \in DOMAIN items' : i \in 1..Len(items) \/ i = Len(items) + 1
    BY <1>4
  <2> QED BY <1>1, <1>3, <1>4, <2>1 DEF IInv, NothingLostInOrder, HuskIsFront
<1> QED BY <1>5, <1>6, <1>7, <1>8 DEF IInv, NothingLostInOrder

LEMMA QueueTakeKeepsAll ==
  ASSUME IInv, TypeOK', Take, kind # "stack"
  PROVE  IInv'
<1>1. /\ items # <<>> /\ items \in Seq(Nat) /\ taken \in Seq(Nat) /\ count \in Nat /\ left \in Nat
      /\ kind' = kind /\ count' = count /\ left' = left
      /\ items' = Tail(items) /\ taken' = Append(taken, Head(items))
  BY DEF Take, Deliver, IInv, TypeOK, Rest, Front
<1>2. /\ Len(items') = Len(items) - 1 /\ Len(items) \in Nat \ {0}
      /\ DOMAIN items' = 1..Len(items) - 1 /\ DOMAIN items = 1..Len(items)
      /\ Head(items) \in Nat
      /\ \A i \in 1..Len(items) - 1 : items'[i] = items[i + 1]
  BY <1>1, TailFacts
<1>3. taken' \o items' = taken \o items
  BY <1>1, PopMovesBorder
<1>4. QueueInOrder'
  <2> SUFFICES Numbers(taken' \o items') \ {Husk} = 1..count' /\ Ordered(taken \o items)'
    BY DEF QueueInOrder
  <2>1. PICK r : r = taken \o items
    OBVIOUS
  <2>2. Numbers(r) \ {Husk} = 1..count /\ Ordered(r)
    BY <2>1 DEF IInv, NothingLostInOrder, QueueInOrder
  <2>3. Ordered(r)'
    BY <1>1, <2>2 DEF Ordered
  <2>4. Ordered(taken \o items)'
    BY <1>3, <2>1, <2>3 DEF Ordered
  <2> QED BY <1>1, <1>3, <2>1, <2>2, <2>4
<1>5. Surplus'
  <2>1. PICK m, n : m = Len(taken) /\ n = Len(items)
    OBVIOUS
  <2>2. m \in Nat /\ n \in Nat \ {0} /\ m + n = count + left
    BY <1>1, <1>2, <2>1 DEF IInv, NothingLostInOrder, Surplus
  <2>3. Len(taken') = m + 1 /\ Len(items') = n - 1
    BY <1>1, <1>2, <2>1, AppendFacts
  <2>4. (m + 1) + (n - 1) = count + left
    BY <1>1, <2>2
  <2>5. Len(taken') + Len(items') = count' + left'
    BY <1>1, <2>3, <2>4
  <2> QED BY <1>1, <2>5 DEF IInv, NothingLostInOrder, Surplus
<1>6. HuskIsFront'
  <2>1. \A i \in DOMAIN items' : i + 1 \in DOMAIN items /\ i + 1 # 1 /\ items'[i] = items[i + 1]
    BY <1>2
  <2> QED BY <1>1, <2>1 DEF IInv, NothingLostInOrder, HuskIsFront
<1>7. StackKeepsAll'
  BY <1>1 DEF StackKeepsAll
<1> QED BY <1>4, <1>5, <1>6, <1>7 DEF IInv, NothingLostInOrder

LEMMA StackTakeKeepsAll ==
  ASSUME IInv, TypeOK', Take, kind = "stack"
  PROVE  IInv'
<1>0. PICK n, e : n = Len(items) /\ e = items[n]
  OBVIOUS
<1>1. /\ items \in Seq(Nat) /\ n \in Nat \ {0} /\ n \in DOMAIN items /\ e \in Nat
      /\ DOMAIN items = 1..n /\ taken \in Seq(Nat)
      /\ kind' = kind /\ count' = count /\ left' = left
      /\ items' = [i \in 1..n - 1 |-> items[i]] /\ taken' = Append(taken, e)
  BY <1>0 DEF Take, Deliver, IInv, TypeOK, Rest, Front
<1>2. /\ Len(taken') = Len(taken) + 1 /\ Numbers(taken') = Numbers(taken) \cup {e}
      /\ Len(taken) \in Nat
  BY <1>1, AppendFacts, AppendNumbers
<1>3. DOMAIN items' = 1..n - 1 /\ Len(items') = n - 1 /\ \A i \in 1..n - 1 : items'[i] = items[i]
  BY <1>1
<1>4. Numbers(items) = Numbers(items') \cup {e}
  <2>1. \A i \in DOMAIN items : i = n \/ i \in DOMAIN items'
    BY <1>1, <1>3
  <2>2. \A i \in DOMAIN items' : i \in DOMAIN items
    BY <1>1, <1>3
  <2> QED BY <1>0, <1>1, <1>3, <2>1, <2>2 DEF Numbers
<1>5. HuskIsFront'
  <2>1. \A i \in DOMAIN items' : i \in DOMAIN items /\ items'[i] = items[i]
    BY <1>1, <1>3
  <2> QED BY <1>1, <2>1 DEF IInv, NothingLostInOrder, HuskIsFront
<1>6. StackKeepsAll'
  BY <1>1, <1>2, <1>4 DEF IInv, NothingLostInOrder, StackKeepsAll
<1>7. Surplus'
  BY <1>0, <1>1, <1>2, <1>3 DEF IInv, NothingLostInOrder, Surplus
<1>8. QueueInOrder'
  BY <1>1 DEF QueueInOrder
<1> QED BY <1>5, <1>6, <1>7, <1>8 DEF IInv, NothingLostInOrder

LEMMA TryPopPtrKeepsAll ==
  ASSUME IInv, TypeOK', NEW t \in Thread, TryPopPtr(t)
  PROVE  IInv'
<1>1. /\ items # <<>> /\ items \in Seq(Nat) /\ taken \in Seq(Nat) /\ count \in Nat /\ left \in Nat
      /\ kind' = kind /\ count' = count /\ left' = left + 1 /\ kind \in {"copies", "moves"}
      /\ items' = [items EXCEPT ![1] = MovedFrom(@)] /\ taken' = Append(taken, Head(items))
      /\ items' \in Seq(Nat)
  BY DEF TryPopPtr, Deliver, Front, IInv, TypeOK
<1>2. /\ Len(items) \in Nat \ {0} /\ DOMAIN items = 1..Len(items) /\ 1 \in DOMAIN items
      /\ Len(items') = Len(items) /\ DOMAIN items' = DOMAIN items /\ Head(items) \in Nat
      /\ items'[1] = MovedFrom(items[1]) /\ \A i \in DOMAIN items : i # 1 => items'[i] = items[i]
  BY <1>1
<1>3. QueueInOrder'
  <2> SUFFICES Numbers(taken' \o items') \ {Husk} = 1..count' /\ Ordered(taken \o items)'
    BY DEF QueueInOrder
  <2>1. PICK r : r = taken' \o items'
    OBVIOUS
  <2>2. Numbers(taken \o items) \ {Husk} = 1..count /\ Ordered(taken \o items)
    BY <1>1 DEF IInv, NothingLostInOrder, QueueInOrder
  <2>3. Numbers(r) \ {Husk} = 1..count /\ Ordered(r)
    <3>1. PICK w, b, k : w = items' /\ b = taken \o items /\ k = Len(taken) + 1
      OBVIOUS
    <3>2. w \in Seq(Nat) /\ Repeated(taken, items, w, r, b, k)
      BY <1>1, <1>2, <2>1, <3>1 DEF Repeated
    <3>3. Places(r, b, k)
      BY <1>1, <3>2, RepeatPlaces
    <3>4. Numbers(r) \ {Husk} = Numbers(b) \ {Husk} /\ Ordered(r)
      BY <2>2, <3>1, <3>3, OrderedRepeat
    <3> QED BY <2>2, <3>1, <3>4
  <2>4. Ordered(r)'
    BY <1>1, <2>3 DEF Ordered
  <2>5. Ordered(taken \o items)'
    BY <2>1, <2>4 DEF Ordered
  <2> QED BY <1>1, <2>1, <2>3, <2>5
<1>4. Surplus'
  <2>1. PICK m, n : m = Len(taken) /\ n = Len(items)
    OBVIOUS
  <2>2. m \in Nat /\ n \in Nat /\ m + n = count + left
    BY <1>1, <1>2, <2>1 DEF IInv, NothingLostInOrder, Surplus
  <2>3. Len(taken') = m + 1 /\ Len(items') = n
    BY <1>1, <1>2, <2>1, AppendFacts
  <2>4. (m + 1) + n = count + (left + 1)
    BY <1>1, <2>2
  <2>5. Len(taken') + Len(items') = count' + left'
    BY <1>1, <2>3, <2>4
  <2> QED BY <1>1, <2>5 DEF Surplus
<1>5. HuskIsFront'
  <2>1. items'[1] = Husk => items[1] = Husk \/ kind = "moves"
    BY <1>1, <1>2 DEF MovedFrom
  <2> QED BY <1>1, <1>2, <2>1 DEF IInv, NothingLostInOrder, HuskIsFront
<1>6. StackKeepsAll'
  BY <1>1 DEF StackKeepsAll
<1> QED BY <1>3, <1>4, <1>5, <1>6 DEF IInv, NothingLostInOrder

LEMMA InitIInv == Init => IInv
<1> SUFFICES ASSUME Init PROVE IInv
  OBVIOUS
<1>1. TypeOK
  BY DEF Init, TypeOK, WaitOp
<1>2. /\ Len(taken) = 0 /\ Len(items) = 0 /\ DOMAIN taken = {} /\ DOMAIN items = {} /\ count = 0
      /\ left = 0 /\ DOMAIN (taken \o items) = {}
  BY DEF Init
<1>3. Numbers(taken) = {} /\ Numbers(items) = {} /\ Numbers(taken \o items) = {} /\ 1..count = {}
  BY <1>2 DEF Numbers
<1>4. QueueInOrder
  BY <1>2, <1>3 DEF QueueInOrder, Ordered
<1>5. StackKeepsAll /\ Surplus /\ HuskIsFront
  BY <1>2, <1>3 DEF StackKeepsAll, Surplus, HuskIsFront
<1> QED BY <1>1, <1>4, <1>5 DEF IInv, NothingLostInOrder

(* The containers keep every element and its place. *)
THEOREM Invariance == Spec => []IInv
<1>1. IInv /\ [Next]_vars => IInv'
  <2> SUFFICES ASSUME IInv, [Next]_vars PROVE IInv'
    OBVIOUS
  <2>1. TypeOK'
    BY Types DEF IInv
  <2>2. CASE UNCHANGED vars
    BY <2>1, <2>2, KeepsContainer DEF vars
  <2>3. ASSUME NEW t \in Thread, Push(t) PROVE IInv'
    BY <2>1, <2>3, PushKeepsAll
  <2>4. ASSUME NEW t \in Thread, PopNow(t) \/ PopWoken(t) PROVE IInv'
    <3>1. Take
      BY <2>4 DEF PopNow, PopWoken
    <3> QED BY <2>1, <3>1, QueueTakeKeepsAll, StackTakeKeepsAll
  <2>5. ASSUME NEW t \in Thread, TryPopPtr(t) PROVE IInv'
    BY <2>1, <2>5, TryPopPtrKeepsAll
  <2>6. ASSUME NEW t \in Thread,
               PopNothing(t) \/ Block(t) \/ SpuriousWakeup(t) \/ WokenThrows(t)
        PROVE  IInv'
    <3>1. UNCHANGED <<kind, items, count, taken, left>>
      BY <2>6 DEF PopNothing, Block, SpuriousWakeup, WokenThrows, vars, hist
    <3> QED BY <2>1, <3>1, KeepsContainer
  <2> QED BY <2>2, <2>3, <2>4, <2>5, <2>6 DEF Next
<1> QED BY <1>1, InitIInv, PTL DEF Spec

(* The types. *)
THEOREM TypeCorrect == Spec => []TypeOK
<1>1. IInv => TypeOK
  BY DEF IInv
<1> QED BY <1>1, Invariance, PTL

(* No container drops an element, whichever waiters throw; the queues      *)
(* deliver in the order of the pushes, 6.1 and 6.3 each element once, and  *)
(* 6.2 once more for each try_pop() that left its object.                  *)
THEOREM KeepsEveryElement == Spec => []NothingLostInOrder
<1>1. IInv => NothingLostInOrder
  BY DEF IInv
<1> QED BY <1>1, Invariance, PTL

=============================================================================
