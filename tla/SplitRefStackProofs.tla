------------------------ MODULE SplitRefStackProofs ------------------------
(***************************************************************************)
(* What holds of the stack of 7.11 for any number of threads, values and   *)
(* addresses: the two counts, that no node is used after it has been       *)
(* deleted or leaked, and that the stack implements AbstractStack.         *)
(***************************************************************************)
EXTENDS SplitRefStack, FiniteSetTheorems, SequenceTheorems, TLAPS

USE StackAssumption

-----------------------------------------------------------------------------
(* The two ends of the list. *)
LEMMA Ends ==
  ASSUME TypeOK, ListIntact
  PROVE  /\ Len(chain) \in Nat /\ DOMAIN chain = 1..Len(chain)
         /\ Linked \subseteq Node /\ \A i \in 1..Len(chain) : chain[i] \in Linked
         /\ head.node = Null <=> Len(chain) = 0
         /\ head.node = Null <=> chain = <<>>
         /\ head.node # Null => 1 \in 1..Len(chain) /\ head.node = chain[1] /\ head.node \in Linked
<1>1. /\ Len(chain) \in Nat /\ DOMAIN chain = 1..Len(chain)
      /\ Linked \subseteq Node /\ \A i \in 1..Len(chain) : chain[i] \in Linked
  BY DEF TypeOK, Linked, Elements
<1>2. chain = <<>> <=> Len(chain) = 0
  BY DEF TypeOK
<1>3. CASE chain = <<>>
  BY <1>1, <1>2, <1>3 DEF ListIntact
<1>4. CASE chain # <<>>
  <2>1. 1 \in 1..Len(chain) /\ chain[1] \in Node /\ chain[1] \in Linked
    BY <1>1, <1>2, <1>4 DEF TypeOK, Linked, Elements
  <2>2. head.node = chain[1]
    BY <1>4 DEF ListIntact
  <2> QED BY <1>1, <1>2, <1>4, <2>1, <2>2
<1> QED BY <1>3, <1>4

(* A sequence with one more element in front. *)
LEMMA ConsProperties ==
  ASSUME NEW S, NEW s \in Seq(S), NEW e \in S
  PROVE  /\ <<e>> \o s \in Seq(S)
         /\ Len(<<e>> \o s) = Len(s) + 1
         /\ DOMAIN (<<e>> \o s) = 1..Len(<<e>> \o s)
         /\ <<e>> \o s # <<>> /\ (<<e>> \o s)[1] = e
         /\ \A i \in 1..Len(s) : (<<e>> \o s)[i + 1] = s[i]
         /\ Elements(<<e>> \o s) = Elements(s) \cup {e}
<1> DEFINE c == <<e>> \o s
<1>1. /\ c \in Seq(S) /\ Len(c) = Len(s) + 1 /\ DOMAIN c = 1..Len(c) /\ DOMAIN s = 1..Len(s)
      /\ c # <<>> /\ c[1] = e /\ Len(s) \in Nat
      /\ \A i \in 1..Len(s) : c[i + 1] = s[i]
  OBVIOUS
<1> HIDE DEF c
<1>2. \A i \in 2..Len(c) : c[i] = s[i - 1] /\ i - 1 \in 1..Len(s)
  BY <1>1
<1>3. \A i \in 1..Len(c) : i = 1 \/ i \in 2..Len(c)
  BY <1>1
<1>4. \E i \in DOMAIN c : e = c[i]
  BY <1>1
<1>5. ASSUME NEW i \in DOMAIN s PROVE \E j \in DOMAIN c : s[i] = c[j]
  <2>1. i + 1 \in DOMAIN c /\ c[i + 1] = s[i]
    BY <1>1
  <2> QED BY <2>1
<1>6. ASSUME NEW i \in DOMAIN c PROVE c[i] = e \/ \E j \in DOMAIN s : c[i] = s[j]
  BY <1>1, <1>2, <1>3
<1>7. Elements(c) = Elements(s) \cup {e}
  BY <1>4, <1>5, <1>6 DEF Elements
<1> QED BY <1>1, <1>7 DEF c

(* A sequence without repetitions that loses its first element. *)
LEMMA TailProperties ==
  ASSUME NEW S, NEW s \in Seq(S), 1 \in 1..Len(s),
         \A i, j \in DOMAIN s : s[i] = s[j] => i = j
  PROVE  /\ Tail(s) \in Seq(S)
         /\ Len(Tail(s)) = Len(s) - 1 /\ DOMAIN Tail(s) = 1..Len(s) - 1
         /\ Tail(s) = <<>> <=> Len(s) = 1
         /\ \A i \in 1..Len(s) - 1 : Tail(s)[i] = s[i + 1]
         /\ Elements(Tail(s)) = Elements(s) \ {s[1]}
<1> DEFINE r == Tail(s)
<1>1. Len(s) \in Nat /\ DOMAIN s = 1..Len(s) /\ s # <<>>
  OBVIOUS
<1>2. r \in Seq(S) /\ Len(r) = Len(s) - 1
  BY <1>1
<1>3. DOMAIN r = 1..Len(s) - 1 /\ (r = <<>> <=> Len(s) = 1)
  BY <1>1, <1>2
<1>4. \A i \in 1..Len(s) - 1 : r[i] = s[i + 1]
  BY <1>1
<1> HIDE DEF r
<1>5. ASSUME NEW i \in 1..Len(s) - 1
      PROVE  i + 1 \in 1..Len(s) /\ r[i] = s[i + 1] /\ s[i + 1] # s[1]
  BY <1>1, <1>4
<1>6. ASSUME NEW i \in 1..Len(s), i # 1 PROVE i - 1 \in 1..Len(s) - 1 /\ s[i] = r[i - 1]
  BY <1>1, <1>4, <1>6
<1>7. Elements(r) \subseteq Elements(s) \ {s[1]}
  BY <1>1, <1>3, <1>5 DEF Elements
<1>8. ASSUME NEW x \in Elements(s) \ {s[1]} PROVE x \in Elements(r)
  <2>1. PICK i \in 1..Len(s) : x = s[i] /\ i # 1
    BY <1>1 DEF Elements
  <2> QED BY <2>1, <1>3, <1>6 DEF Elements
<1> QED BY <1>2, <1>3, <1>4, <1>7, <1>8 DEF r

(* How a step of t changes the number of references to a node. *)
LEMMA Counting ==
  ASSUME TypeOK, NEW t \in Thread, NEW n \in Node,
         \A u \in Thread \ {t} : pc'[u] = pc[u] /\ ptr'[u] = ptr[u]
  PROVE  /\ IsFiniteSet(Holders(n)) /\ Cardinality(Holders(n)) \in Nat
         /\ Cardinality(Holders(n)') \in Nat
         /\ Cardinality(Holders(n)) = 0 <=> Holders(n) = {}
         /\ Cardinality(Holders(n)') = 0 <=> Holders(n)' = {}
         /\ t \in Holders(n) <=> ptr[t] = n /\ pc[t] \in Holding
         /\ t \in Holders(n)' <=> ptr'[t] = n /\ pc'[t] \in Holding
         /\ (t \in Holders(n) <=> t \in Holders(n)') => Holders(n)' = Holders(n)
         /\ t \in Holders(n) /\ t \notin Holders(n)' =>
              /\ Holders(n)' = Holders(n) \ {t}
              /\ Cardinality(Holders(n)') = Cardinality(Holders(n)) - 1
         /\ t \notin Holders(n) /\ t \in Holders(n)' =>
              /\ Holders(n)' = Holders(n) \cup {t}
              /\ Cardinality(Holders(n)') = Cardinality(Holders(n)) + 1
<1>1. Holders(n) \subseteq Thread /\ Holders(n)' \subseteq Thread
  BY DEF Holders
<1>2. IsFiniteSet(Holders(n)) /\ IsFiniteSet(Holders(n)')
  BY <1>1, FS_Subset
<1>3. \A u \in Thread \ {t} : u \in Holders(n)' <=> u \in Holders(n)
  BY DEF Holders
<1>4. /\ t \in Holders(n) <=> ptr[t] = n /\ pc[t] \in Holding
      /\ t \in Holders(n)' <=> ptr'[t] = n /\ pc'[t] \in Holding
  BY DEF Holders, Holding
<1>5. (t \in Holders(n) <=> t \in Holders(n)') => Holders(n)' = Holders(n)
  BY <1>1, <1>3
<1>6. t \in Holders(n) /\ t \notin Holders(n)' => Holders(n)' = Holders(n) \ {t}
  BY <1>1, <1>3
<1>7. t \notin Holders(n) /\ t \in Holders(n)' => Holders(n)' = Holders(n) \cup {t}
  BY <1>1, <1>3
<1>8. /\ Cardinality(Holders(n)) \in Nat /\ Cardinality(Holders(n)') \in Nat
      /\ Cardinality(Holders(n)) = 0 <=> Holders(n) = {}
      /\ Cardinality(Holders(n)') = 0 <=> Holders(n)' = {}
  BY <1>2, FS_CardinalityType, FS_EmptySet
<1>9. t \in Holders(n) => Cardinality(Holders(n) \ {t}) = Cardinality(Holders(n)) - 1
  BY <1>2, FS_RemoveElement
<1>10. t \notin Holders(n) => Cardinality(Holders(n) \cup {t}) = Cardinality(Holders(n)) + 1
  BY <1>2, FS_AddElement
<1> QED BY <1>2, <1>4, <1>5, <1>6, <1>7, <1>8, <1>9, <1>10

(* A new stack. *)
LEMMA InitIInv == Init => IInv
<1> SUFFICES ASSUME Init PROVE IInv
  OBVIOUS
<1> USE DEF Init, NullPtr
<1>1. TypeOK
  BY DEF TypeOK, Counted, Label
<1>2. ListIntact /\ Linked = {}
  BY DEF ListIntact, Linked, Elements
<1>3. CountsAddUp
  BY DEF CountsAddUp
<1>4. OneOwner /\ InternalCounts /\ ThreadView
  BY <1>2 DEF OneOwner, InternalCounts, ThreadView, Owning, Holding
<1> QED BY <1>1, <1>2, <1>3, <1>4 DEF IInv

(* A push that starts has a node to itself. *)
LEMMA BeginPushStep ==
  ASSUME IInv, NEW t \in Thread, BeginPush(t)
  PROVE  IInv'
<1> USE DEF BeginPush, IInv, Goto
<1>0. PICK n \in Node \ live, v \in Value :
        /\ live' = live \cup {n}
        /\ data' = [data EXCEPT ![n] = v]
        /\ internal' = [internal EXCEPT ![n] = 0]
        /\ next' = [next EXCEPT ![n] = NullPtr]
        /\ ptr' = [ptr EXCEPT ![t] = n]
  OBVIOUS
<1>a. /\ Linked' = Linked /\ n \notin Linked /\ Linked \subseteq Node
      /\ DOMAIN chain = 1..Len(chain) /\ Len(chain) \in Nat
      /\ \A i \in 1..Len(chain) : chain[i] \in Node /\ chain[i] # n
      /\ live \subseteq Node
  BY Ends DEF Linked, OneOwner, TypeOK
<1>b. /\ \A u \in Thread : ptr'[u] = IF u = t THEN n ELSE ptr[u]
      /\ \A u \in Thread : pc'[u] = IF u = t THEN "push_load" ELSE pc[u]
      /\ \A m \in Node : /\ internal'[m] = IF m = n THEN 0 ELSE internal[m]
                         /\ data'[m] = IF m = n THEN v ELSE data[m]
                         /\ m # n => next'[m] = next[m]
  BY <1>0 DEF TypeOK
<1>c. ptr[t] = Null /\ \A u \in Thread : ptr[u] # n
  <2>1. ptr[t] = Null
    BY DEF ThreadView, Holding, Owning
  <2>2. ASSUME NEW u \in Thread, ptr[u] = n PROVE FALSE
    <3>1. ptr[u] # Null
      BY <2>2
    <3>2. ptr[u] \in live
      BY <3>1 DEF ThreadView
    <3> QED BY <2>2, <3>2
  <2> QED BY <2>1, <2>2
<1>d. ASSUME NEW m \in Node
      PROVE  /\ Holders(m)' = Holders(m) /\ (m = n => Holders(m) = {})
             /\ Owners(m)' = IF m = n THEN {t} ELSE Owners(m)
  BY <1>b, <1>c DEF Holders, Holding, Owners, Owning
<1>1. TypeOK'
  BY <1>0 DEF TypeOK, Counted, NullPtr, Label
<1>2. ListIntact'
  BY <1>a, <1>b DEF ListIntact
<1>3. CountsAddUp'
  <2>1. \A i \in 1..Len(chain) : ExternalCount(i)' = ExternalCount(i)
    BY <1>a, <1>b DEF ExternalCount
  <2>2. \A u \in Thread : pc'[u] \in {"swap", "settle"} =>
          old'[u] = old[u] /\ ptr'[u] = ptr[u] /\ pc[u] = pc'[u] /\ ptr[u] \in Node
          /\ internal'[ptr[u]] = internal[ptr[u]]
    BY <1>b, <1>c DEF TypeOK, ThreadView, Owning
  <2> QED BY <2>1, <2>2, <1>a, <1>b, <1>d DEF CountsAddUp
<1>4. OneOwner'
  <2>1. \A u, w \in Thread : pc'[u] \in Owning /\ pc'[w] \in Owning /\ ptr'[u] = ptr'[w] => u = w
    BY <1>b, <1>c DEF OneOwner
  <2>2. \A u \in Thread : pc'[u] \in Owning => ptr'[u] \notin Linked'
    BY <1>a, <1>b DEF OneOwner
  <2>3. \A u, w \in Thread :
          pc'[u] \in Owning \ Holding /\ pc'[w] \in Holding => ptr'[u] # ptr'[w]
    BY <1>b, <1>c DEF OneOwner, Holding
  <2>4. \A m \in Linked' : m \in live' /\ data'[m] \in Value
    BY <1>0, <1>a, <1>b DEF OneOwner
  <2> QED BY <2>1, <2>2, <2>3, <2>4 DEF OneOwner
<1>5. InternalCounts'
  <2>1. \A u \in Thread : pc[u] \in Owning => ptr[u] \in Node
    BY DEF ThreadView, TypeOK
  <2>2. \A u \in Thread : pc'[u] \in {"push_load", "push_cas"} => internal'[ptr'[u]] = 0
    BY <2>1, <1>b DEF InternalCounts, Owning
  <2>3. \A u \in Thread : pc'[u] \in {"swap", "settle"} => internal'[ptr'[u]] <= 0
    BY <2>1, <1>b DEF InternalCounts, Owning
  <2>4. \A m \in Linked' : internal'[m] <= 0
    BY <1>a, <1>b DEF InternalCounts
  <2>5. \A m \in live' \ Linked' : Owners(m)' = {} =>
          internal'[m] = Cardinality(Holders(m)') /\ internal'[m] > 0
    <3> SUFFICES ASSUME NEW m \in live' \ Linked', Owners(m)' = {}
                 PROVE  internal'[m] = Cardinality(Holders(m)') /\ internal'[m] > 0
      OBVIOUS
    <3>1. m # n /\ m \in Node /\ m \in live \ Linked
      BY <1>0, <1>a, <1>d
    <3> QED BY <3>1, <1>b, <1>d DEF InternalCounts
  <2> QED BY <2>2, <2>3, <2>4, <2>5 DEF InternalCounts
<1>6. ThreadView'
  BY <1>0, <1>b, <1>c DEF ThreadView, TypeOK, Owning, Holding
<1> QED BY <1>1, <1>2, <1>3, <1>4, <1>5, <1>6

(* The thread's own node gets its link; it is nobody else's. *)
LEMMA PushLoadStep ==
  ASSUME IInv, NEW t \in Thread, PushLoad(t)
  PROVE  IInv'
<1> USE DEF PushLoad, IInv, Goto, locals
<1>a. /\ Linked' = Linked /\ Linked \subseteq Node
      /\ DOMAIN chain = 1..Len(chain) /\ Len(chain) \in Nat
      /\ \A i \in 1..Len(chain) : chain[i] \in Linked
  BY Ends DEF Linked, Elements
<1>b. /\ pc[t] \in Owning \ Holding /\ "push_cas" \in Owning \ Holding
      /\ ptr[t] \in Node \ Linked
      /\ \A u \in Thread : pc[u] \in Holding => ptr[u] # ptr[t]
      /\ \A u \in Thread : pc[u] \in Owning \cup Holding => ptr[u] \in Node
  BY DEF OneOwner, ThreadView, TypeOK, Owning, Holding
<1>c. /\ \A u \in Thread : pc'[u] = IF u = t THEN "push_cas" ELSE pc[u]
      /\ \A m \in Node : next'[m] = IF m = ptr[t] THEN head ELSE next[m]
  BY <1>b DEF TypeOK
<1>d. \A m \in Node : Holders(m)' = Holders(m) /\ Owners(m)' = Owners(m)
  BY <1>b, <1>c DEF Holders, Owners
<1>1. TypeOK'
  BY <1>b DEF TypeOK, Label
<1>2. ListIntact'
  BY <1>a, <1>b, <1>c DEF ListIntact
<1>3. CountsAddUp'
  <2>1. \A i \in 1..Len(chain) : ExternalCount(i)' = ExternalCount(i)
    BY <1>a, <1>b, <1>c DEF ExternalCount
  <2> QED BY <2>1, <1>a, <1>b, <1>c, <1>d DEF CountsAddUp, Owning
<1>4. OneOwner'
  BY <1>a, <1>b, <1>c DEF OneOwner
<1>5. InternalCounts'
  BY <1>a, <1>b, <1>c, <1>d DEF InternalCounts, TypeOK
<1>6. ThreadView'
  BY <1>b, <1>c DEF ThreadView, Holding
<1> QED BY <1>1, <1>2, <1>3, <1>4, <1>5, <1>6

(* A successful push: the external count of the old head moves to the      *)
(* m_next of the new one.                                                  *)
LEMMA PushCasStep ==
  ASSUME IInv, NEW t \in Thread, PushCas(t)
  PROVE  IInv'
<1> USE DEF PushCas, IInv, Goto, nodes
<1> DEFINE n == ptr[t]
<1>a. /\ Linked \subseteq Node /\ chain \in Seq(Node) /\ Len(chain) \in Nat
      /\ DOMAIN chain = 1..Len(chain)
      /\ \A i \in 1..Len(chain) : chain[i] \in Linked
  BY Ends DEF Linked, TypeOK
<1>b. /\ pc[t] \in Owning \ Holding /\ n \in Node \ Linked /\ n \in live
      /\ data[n] \in Value /\ internal[n] = 0
      /\ \A u \in Thread : pc[u] \in Holding => ptr[u] # n
      /\ \A u \in Thread \ {t} : pc[u] \in Owning => ptr[u] # n
      /\ \A u \in Thread : pc[u] \in Owning \cup Holding => ptr[u] \in Node
  BY DEF OneOwner, InternalCounts, ThreadView, TypeOK, Owning, Holding
<1>c. /\ \A u \in Thread : pc'[u] = IF u = t THEN "idle" ELSE pc[u]
      /\ \A u \in Thread : ptr'[u] = IF u = t THEN Null ELSE ptr[u]
      /\ "idle" \notin Owning \cup Holding
  BY DEF TypeOK, Owning, Holding
<1>d. \A m \in Node : /\ Holders(m)' = Holders(m)
                      /\ Holders(n) = {}
                      /\ m # n => Owners(m)' = Owners(m)
  BY <1>b, <1>c DEF Holders, Owners
<1>e. /\ chain' \in Seq(Node) /\ Len(chain') = Len(chain) + 1 /\ DOMAIN chain' = 1..Len(chain')
      /\ chain' # <<>> /\ chain'[1] = n
      /\ \A i \in 1..Len(chain) : chain'[i + 1] = chain[i]
      /\ Linked' = Linked \cup {n}
  <2> DEFINE c == <<n>> \o chain
  <2>1. /\ c \in Seq(Node) /\ Len(c) = Len(chain) + 1 /\ DOMAIN c = 1..Len(c)
        /\ c # <<>> /\ c[1] = n
        /\ \A i \in 1..Len(chain) : c[i + 1] = chain[i]
        /\ Elements(c) = Linked \cup {n}
    BY <1>a, <1>b, ConsProperties DEF Linked
  <2>2. chain' = c
    OBVIOUS
  <2> HIDE DEF c
  <2> QED BY <2>1, <2>2 DEF Linked
<1>f. ASSUME NEW i \in 1..Len(chain'), i # 1
      PROVE  i - 1 \in 1..Len(chain) /\ chain'[i] = chain[i - 1]
  BY <1>a, <1>e, <1>f
<1>1. TypeOK'
  <2>1. [count |-> 1, node |-> n] \in Counted
    BY <1>b, StackAssumption DEF Counted, StackAssumption
  <2> QED BY <2>1, <1>b, <1>e DEF TypeOK, Label
<1>2. ListIntact'
  <2>1. head'.node = chain'[1]
    BY <1>e
  <2>2. ASSUME NEW i \in 1..Len(chain')
        PROVE  next[chain'[i]].node = IF i = Len(chain') THEN Null ELSE chain'[i + 1]
    <3>1. CASE i = 1
      <4>1. next[n].node = IF chain = <<>> THEN Null ELSE chain[1]
        BY DEF ListIntact
      <4>2. Len(chain) # 0 => 1 \in 1..Len(chain) /\ chain'[2] = chain[1]
        BY <1>a, <1>e
      <4>3. chain = <<>> <=> Len(chain) = 0
        BY <1>a
      <4> QED BY <3>1, <4>1, <4>2, <4>3, <1>a, <1>e
    <3>2. CASE i # 1
      <4>1. i - 1 \in 1..Len(chain) /\ chain'[i] = chain[i - 1]
        BY <3>2, <1>f
      <4>2. i # Len(chain') => i \in 1..Len(chain) /\ chain'[i + 1] = chain[i]
        BY <3>2, <1>a, <1>e
      <4>3. next[chain[i - 1]].node = IF i - 1 = Len(chain) THEN Null ELSE chain[i]
        BY <4>1, <1>a, <1>e DEF ListIntact
      <4> QED BY <4>1, <4>2, <4>3, <1>a, <1>e
    <3> QED BY <3>1, <3>2
  <2>3. \A i, j \in 1..Len(chain') : chain'[i] = chain'[j] => i = j
    <3> SUFFICES ASSUME NEW i \in 1..Len(chain'), NEW j \in 1..Len(chain'), chain'[i] = chain'[j]
                 PROVE  i = j
      OBVIOUS
    <3>1. CASE i # 1 /\ j # 1
      <4>1. chain[i - 1] = chain[j - 1] /\ i - 1 \in 1..Len(chain) /\ j - 1 \in 1..Len(chain)
        BY <3>1, <1>f
      <4>2. i - 1 = j - 1
        BY <4>1, <1>a DEF ListIntact
      <4> QED BY <4>2
    <3>2. CASE i = 1 \/ j = 1
      BY <3>2, <1>a, <1>b, <1>e, <1>f
    <3> QED BY <3>1, <3>2
  <2> QED BY <2>1, <2>2, <2>3, <1>e DEF ListIntact
<1>3. CountsAddUp'
  <2>1. ASSUME NEW i \in 1..Len(chain')
        PROVE  ExternalCount(i)' + internal[chain'[i]] = 1 + Cardinality(Holders(chain'[i]))
    <3>1. CASE i = 1
      <4>1. ExternalCount(i)' = 1
        BY <3>1 DEF ExternalCount
      <4> QED BY <3>1, <4>1, <1>b, <1>d, <1>e, FS_EmptySet
    <3>2. CASE i # 1
      <4>1. i - 1 \in 1..Len(chain) /\ chain'[i] = chain[i - 1]
        BY <3>2, <1>f
      <4>2. ExternalCount(i)' = ExternalCount(i - 1)
        <5>1. ExternalCount(i)' = next[chain'[i - 1]].count
          BY <3>2 DEF ExternalCount
        <5>2. CASE i = 2
          BY <5>1, <5>2, <1>e DEF ExternalCount
        <5>3. CASE i # 2
          BY <5>1, <5>3, <1>f, <1>a, <1>e, <3>2 DEF ExternalCount
        <5> QED BY <5>2, <5>3
      <4> QED BY <4>1, <4>2, <1>a DEF CountsAddUp
    <3> QED BY <3>1, <3>2
  <2>2. \A i \in 1..Len(chain') : Holders(chain'[i]) = Holders(chain[i])'
    BY <1>d, <1>e
  <2> QED BY <2>1, <2>2, <1>b, <1>c, <1>d, <1>e DEF CountsAddUp, Owning
<1>4. OneOwner'
  BY <1>b, <1>c, <1>e DEF OneOwner
<1>5. InternalCounts'
  BY <1>b, <1>c, <1>d, <1>e DEF InternalCounts, Owning, TypeOK
<1>6. ThreadView'
  BY <1>b, <1>c DEF ThreadView, Owning, Holding
<1> QED BY <1>1, <1>2, <1>3, <1>4, <1>5, <1>6

(* A pop finds the stack empty: only the count of a null head changes. *)
LEMMA IncreaseEmptyStep ==
  ASSUME IInv, NEW t \in Thread, Increase(t), head.node = Null
  PROVE  IInv'
<1> USE DEF Increase, IInv, Goto, nodes
<1>a. /\ Len(chain) = 0 /\ chain = <<>> /\ DOMAIN chain = 1..Len(chain)
      /\ head'.node = Null /\ Linked' = Linked /\ Linked \subseteq Node
  <2>1. head'.node = Null
    BY DEF TypeOK, Counted
  <2>2. Linked' = Linked
    BY DEF Linked
  <2> QED BY <2>1, <2>2, Ends
<1>b. /\ \A u \in Thread : pc'[u] = IF u = t THEN "return" ELSE pc[u]
      /\ \A u \in Thread : old'[u] = IF u = t THEN NullPtr ELSE old[u]
      /\ \A u \in Thread : res'[u] = IF u = t THEN Empty ELSE res[u]
      /\ pc[t] \notin Owning \cup Holding /\ "return" \notin Owning \cup Holding
      /\ \A u \in Thread : pc[u] \in Owning \cup Holding => ptr[u] \in Node
  BY DEF TypeOK, ThreadView, Owning, Holding
<1>c. \A m \in Node : Holders(m)' = Holders(m) /\ Owners(m)' = Owners(m)
  BY <1>b DEF Holders, Owners
<1>1. TypeOK'
  <2>1. head.count \in 0..MaxCount /\ head.count + 1 \in 0..MaxCount
    BY StackAssumption DEF TypeOK, Counted, StackAssumption
  <2>2. head' \in Counted
    BY <2>1 DEF TypeOK, Counted
  <2>3. NullPtr \in Counted /\ "return" \in Label
    BY <2>1 DEF Counted, NullPtr, Label
  <2>4. pc' \in [Thread -> Label]
    BY <2>3 DEF TypeOK
  <2>5. old' \in [Thread -> Counted]
    <3>1. old \in [Thread -> Counted] /\ old' = [old EXCEPT ![t] = NullPtr]
      BY DEF TypeOK
    <3> HIDE DEF Increase, IInv
    <3> QED BY <2>3, <3>1
  <2>6. res' \in [Thread -> Value \cup {None, Empty}]
    <3>1. /\ res \in [Thread -> Value \cup {None, Empty}]
          /\ res' = [res EXCEPT ![t] = Empty]
      BY DEF TypeOK
    <3> HIDE DEF Increase, IInv
    <3> QED BY <3>1
  <2> QED BY <2>2, <2>4, <2>5, <2>6 DEF TypeOK
<1>2. ListIntact'
  BY <1>a DEF ListIntact
<1>3. CountsAddUp'
  BY <1>a, <1>b, <1>c DEF CountsAddUp, Owning
<1>4. OneOwner'
  BY <1>a, <1>b DEF OneOwner
<1>5. InternalCounts'
  BY <1>a, <1>b, <1>c DEF InternalCounts, TypeOK
<1>6. ThreadView'
  BY <1>b, StackAssumption DEF ThreadView, Holding, StackAssumption
<1> QED BY <1>1, <1>2, <1>3, <1>4, <1>5, <1>6

(* A pop gets its reference: both sides of the head's count grow by one. *)
LEMMA IncreaseStep ==
  ASSUME IInv, NEW t \in Thread, Increase(t), head.node # Null
  PROVE  IInv'
<1> USE DEF Increase, IInv, Goto, nodes
<1>0. PICK n : n = head.node
  OBVIOUS
<1>a. /\ n = chain[1] /\ n \in Linked /\ n \in Node /\ 1 \in 1..Len(chain) /\ Len(chain) \in Nat
      /\ DOMAIN chain = 1..Len(chain) /\ Linked' = Linked /\ Linked \subseteq Node
      /\ \A i \in 1..Len(chain) : chain[i] \in Linked
  <2>1. Linked' = Linked
    BY DEF Linked
  <2> QED BY <2>1, <1>0, Ends
<1>b. /\ \A u \in Thread : pc'[u] = IF u = t THEN "pop_next" ELSE pc[u]
      /\ \A u \in Thread : ptr'[u] = IF u = t THEN n ELSE ptr[u]
      /\ \A u \in Thread : old'[u] = IF u = t THEN head' ELSE old[u]
      /\ head'.node = n /\ head'.count = head.count + 1
      /\ head.count \in Nat
      /\ "pop_next" \in Holding \ Owning
  BY <1>0 DEF TypeOK, Counted, Owning, Holding
<1>c. /\ \A u \in Thread : pc[u] \in Owning \cup Holding => ptr[u] \in Node
      /\ \A u \in Thread : pc[u] \in Owning => ptr[u] # n
      /\ pc[t] \notin Owning \cup Holding
  BY <1>a DEF TypeOK, ThreadView, OneOwner, Owning, Holding
<1>d. ASSUME NEW m \in Node
      PROVE  /\ m # n => Holders(m)' = Holders(m)
             /\ Cardinality(Holders(n)') = Cardinality(Holders(n)) + 1
             /\ Cardinality(Holders(n)) \in Nat
             /\ Owners(m)' = Owners(m)
  <2>1. Owners(m)' = Owners(m)
    BY <1>b, <1>c DEF Owners
  <2>2. \A k \in Node : t \notin Holders(k) /\ (t \in Holders(k)' <=> k = n)
    BY <1>b, <1>c DEF Holders
  <2> QED BY <2>1, <2>2, <1>a, <1>b, Counting
<1>1. TypeOK'
  <2>1. head.count \in 0..MaxCount /\ head.count + 1 \in 0..MaxCount
    BY StackAssumption DEF TypeOK, Counted, StackAssumption
  <2>2. head' \in Counted /\ "pop_next" \in Label
    BY <2>1, <1>a DEF TypeOK, Counted, Label
  <2>3. pc' \in [Thread -> Label]
    BY <2>2 DEF TypeOK
  <2>4. old' \in [Thread -> Counted]
    BY <2>2 DEF TypeOK
  <2>5. ptr' \in [Thread -> Node \cup {Null}]
    BY <1>a, <1>0 DEF TypeOK
  <2> QED BY <2>2, <2>3, <2>4, <2>5 DEF TypeOK
<1>2. ListIntact'
  BY <1>b DEF ListIntact
<1>3. CountsAddUp'
  <2>1. ASSUME NEW i \in 1..Len(chain)
        PROVE  ExternalCount(i)' + internal[chain[i]] = 1 + Cardinality(Holders(chain[i])')
    <3>1. CASE i = 1
      <4>1. ExternalCount(i) = head.count /\ ExternalCount(i)' = head.count + 1
        BY <3>1, <1>b, <1>0 DEF ExternalCount
      <4>2. ExternalCount(i) + internal[n] = 1 + Cardinality(Holders(n))
        BY <3>1, <1>a DEF CountsAddUp
      <4>3. internal[n] \in Int
        BY <1>a DEF TypeOK
      <4>4. chain[i] = n /\ Cardinality(Holders(n)') = Cardinality(Holders(n)) + 1
        BY <3>1, <1>a, <1>d
      <4> QED BY <4>1, <4>2, <4>3, <4>4, <1>a, <1>b, <1>d
    <3>2. CASE i # 1
      <4>1. ExternalCount(i)' = ExternalCount(i)
        BY <3>2 DEF ExternalCount
      <4>2. chain[i] # n /\ chain[i] \in Node
        BY <3>2, <1>a DEF ListIntact
      <4> QED BY <4>1, <4>2, <1>a, <1>d DEF CountsAddUp
    <3> QED BY <3>1, <3>2
  <2>2. ASSUME NEW u \in Thread, pc'[u] \in {"swap", "settle"}
        PROVE  old'[u].count + internal[ptr'[u]] = 1 + Cardinality(Holders(ptr[u])')
    <3>1. u # t /\ pc[u] \in Owning /\ pc[u] \in {"swap", "settle"} /\ ptr'[u] = ptr[u]
      BY <2>2, <1>b DEF Owning
    <3>2. ptr[u] \in Node /\ ptr[u] # n
      BY <3>1, <1>c
    <3> QED BY <3>1, <3>2, <1>b, <1>d DEF CountsAddUp
  <2> QED BY <2>1, <2>2, <1>a DEF CountsAddUp
<1>4. OneOwner'
  BY <1>a, <1>b, <1>c DEF OneOwner
<1>5. InternalCounts'
  <2>1. \A m \in live \ Linked : m # n /\ m \in Node
    BY <1>a DEF TypeOK
  <2> QED BY <2>1, <1>a, <1>b, <1>c, <1>d DEF InternalCounts, Owning
<1>6. ThreadView'
  <2>1. n \in live /\ n # Null
    BY <1>a DEF OneOwner
  <2> SUFFICES ASSUME NEW u \in Thread PROVE ThreadView!(u)'
    BY DEF ThreadView
  <2>2. CASE u = t
    BY <2>1, <2>2, <1>b, <1>c DEF ThreadView
  <2>3. CASE u # t
    BY <2>3, <1>b DEF ThreadView
  <2> QED BY <2>2, <2>3
<1> QED BY <1>1, <1>2, <1>3, <1>4, <1>5, <1>6

(* A successful pop: the external count of the node stays with the winner, *)
(* and that of the next node moves from m_next to the head.                *)
LEMMA PopCasWinsStep ==
  ASSUME IInv, NEW t \in Thread, PopCasWins(t)
  PROVE  IInv'
<1> USE DEF PopCasWins, IInv, Goto, nodes
<1>0. PICK n : n = ptr[t]
  OBVIOUS
<1>a. /\ n \in Node /\ n \in live /\ old[t].node = n /\ below[t] = next[n] /\ head.node = n
      /\ head.count = old[t].count /\ n # Null
  BY <1>0, StackAssumption DEF ThreadView, TypeOK, Holding, StackAssumption
<1>b. /\ n = chain[1] /\ n \in Linked /\ 1 \in 1..Len(chain) /\ Len(chain) \in Nat
      /\ DOMAIN chain = 1..Len(chain) /\ Linked \subseteq Node
      /\ \A i \in 1..Len(chain) : chain[i] \in Linked
  BY <1>a, Ends
<1>c. /\ chain' \in Seq(Node)
      /\ Len(chain') = Len(chain) - 1 /\ DOMAIN chain' = 1..Len(chain) - 1
      /\ chain' = <<>> <=> Len(chain) = 1
      /\ \A i \in 1..Len(chain) - 1 : chain'[i] = chain[i + 1]
      /\ Linked' = Linked \ {n}
  <2>1. chain \in Seq(Node) /\ chain' = Tail(chain) /\ \A i, j \in DOMAIN chain : chain[i] = chain[j] => i = j
    BY DEF TypeOK, ListIntact
  <2> DEFINE r == Tail(chain)
  <2>2. /\ r \in Seq(Node)
        /\ Len(r) = Len(chain) - 1 /\ DOMAIN r = 1..Len(chain) - 1
        /\ r = <<>> <=> Len(chain) = 1
        /\ \A i \in 1..Len(chain) - 1 : r[i] = chain[i + 1]
        /\ Elements(r) = Elements(chain) \ {chain[1]}
    <3> HIDE DEF PopCasWins, IInv
    <3> QED BY <1>b, <2>1, TailProperties
  <2>3. chain' = r
    BY <2>1
  <2> HIDE DEF r
  <2> QED BY <1>b, <2>2, <2>3 DEF Linked
<1>d. ASSUME NEW i \in 1..Len(chain) - 1
      PROVE  i + 1 \in 1..Len(chain) /\ chain'[i] = chain[i + 1] /\ chain'[i] \in Linked'
  <2>1. i + 1 \in 1..Len(chain) /\ i + 1 # 1 /\ chain'[i] = chain[i + 1]
    BY <1>b, <1>c
  <2>2. chain[i + 1] # n
    BY <2>1, <1>b DEF ListIntact
  <2> QED BY <2>1, <2>2, <1>b, <1>c
<1>e. /\ \A u \in Thread : pc'[u] = IF u = t THEN "swap" ELSE pc[u]
      /\ \A u \in Thread : below'[u] = IF u = t THEN NullPtr ELSE below[u]
      /\ pc[t] = "pop_cas" /\ "pop_cas" \in Holding \ Owning /\ "swap" \in Holding \cap Owning
      /\ \A u \in Thread : pc[u] \in Owning \cup Holding => ptr[u] \in Node
      /\ \A u \in Thread : pc[u] \in Owning => ptr[u] # n
  BY <1>b DEF TypeOK, OneOwner, ThreadView, Owning, Holding
<1>f. \A m \in Node : /\ Holders(m)' = Holders(m)
                      /\ m # n => Owners(m)' = Owners(m)
                      /\ t \in Owners(n)'
  BY <1>0, <1>e DEF Holders, Owners
<1>1. TypeOK'
  <2>1. pc' \in [Thread -> Label]
    BY DEF TypeOK, Label
  <2>2. NullPtr \in Counted
    BY StackAssumption DEF NullPtr, Counted, StackAssumption
  <2>3. below' \in [Thread -> Counted] /\ head' \in Counted
    BY <2>2 DEF TypeOK
  <2> QED BY <2>1, <2>3, <1>c DEF TypeOK
<1>2. ListIntact'
  <2>1. next[n].node = IF 1 = Len(chain) THEN Null ELSE chain[1 + 1]
    BY <1>b DEF ListIntact
  <2>2. head'.node = IF chain' = <<>> THEN Null ELSE chain'[1]
    <3>1. Len(chain) # 1 => 1 \in 1..Len(chain) - 1
      BY <1>b
    <3> QED BY <2>1, <3>1, <1>a, <1>c
  <2>3. ASSUME NEW i \in 1..Len(chain) - 1
        PROVE  next[chain'[i]].node = IF i = Len(chain) - 1 THEN Null ELSE chain'[i + 1]
    <3>1. next[chain[i + 1]].node = IF i + 1 = Len(chain) THEN Null ELSE chain[(i + 1) + 1]
      BY <1>b, <1>d DEF ListIntact
    <3>2. i # Len(chain) - 1 => i + 1 \in 1..Len(chain) - 1
      BY <1>b
    <3>3. i # Len(chain) - 1 => chain'[i + 1] = chain[(i + 1) + 1]
      BY <3>2, <1>c
    <3>4. i = Len(chain) - 1 <=> i + 1 = Len(chain)
      BY <1>b
    <3> QED BY <3>1, <3>3, <3>4, <1>d
  <2>4. ASSUME NEW i \in 1..Len(chain) - 1, NEW j \in 1..Len(chain) - 1, chain'[i] = chain'[j]
        PROVE  i = j
    <3>1. i + 1 = j + 1
      BY <2>4, <1>b, <1>d DEF ListIntact
    <3> QED BY <3>1
  <2> QED BY <2>2, <2>3, <2>4, <1>c DEF ListIntact
<1>3. CountsAddUp'
  <2>1. ASSUME NEW i \in 1..Len(chain) - 1
        PROVE  ExternalCount(i)' + internal[chain'[i]] = 1 + Cardinality(Holders(chain[i])')
    <3>1. ExternalCount(i)' = ExternalCount(i + 1)
      <4>1. ExternalCount(i + 1) = next[chain[i]].count
        BY <1>b DEF ExternalCount
      <4>2. CASE i = 1
        BY <4>1, <4>2, <1>a, <1>b DEF ExternalCount
      <4>3. CASE i # 1
        <5>1. i - 1 \in 1..Len(chain) - 1 /\ (i - 1) + 1 = i
          BY <4>3, <1>b
        <5>2. chain'[i - 1] = chain[i]
          BY <5>1, <1>c
        <5> QED BY <4>1, <4>3, <5>2 DEF ExternalCount
      <4> QED BY <4>2, <4>3
    <3>2. ExternalCount(i + 1) + internal[chain[i + 1]] = 1 + Cardinality(Holders(chain[i + 1]))
      BY <1>b, <1>d DEF CountsAddUp
    <3>3. chain'[i] \in Node
      BY <1>d, <1>b, <1>c
    <3> QED BY <3>1, <3>2, <3>3, <1>d, <1>f
  <2>2. ASSUME NEW u \in Thread, pc'[u] \in {"swap", "settle"}
        PROVE  old[u].count + internal[ptr[u]] = 1 + Cardinality(Holders(ptr[u])')
    <3>1. CASE u = t
      <4>1. ExternalCount(1) + internal[chain[1]] = 1 + Cardinality(Holders(chain[1]))
        BY <1>b DEF CountsAddUp
      <4>2. ExternalCount(1) = old[t].count
        BY <1>a DEF ExternalCount
      <4> QED BY <3>1, <4>1, <4>2, <1>0, <1>a, <1>b, <1>f
    <3>2. CASE u # t
      <4>1. pc[u] \in {"swap", "settle"} /\ ptr[u] \in Node
        BY <2>2, <3>2, <1>e DEF Owning
      <4> QED BY <4>1, <1>f DEF CountsAddUp
    <3> QED BY <3>1, <3>2
  <2> QED BY <2>1, <2>2, <1>c DEF CountsAddUp
<1>4. OneOwner'
  <2>1. /\ \A u \in Thread : pc'[u] \in Owning => u = t \/ (pc[u] \in Owning /\ ptr[u] # n)
        /\ \A u \in Thread : pc'[u] \in Owning \ Holding => pc[u] \in Owning \ Holding
        /\ \A u \in Thread : pc'[u] \in Holding => pc[u] \in Holding
    BY <1>e
  <2>2. \A u, w \in Thread : pc'[u] \in Owning /\ pc'[w] \in Owning /\ ptr[u] = ptr[w] => u = w
    BY <1>0, <2>1 DEF OneOwner
  <2>3. \A u \in Thread : pc'[u] \in Owning => ptr[u] \notin Linked'
    BY <1>0, <2>1, <1>c DEF OneOwner
  <2>4. \A u, w \in Thread : pc'[u] \in Owning \ Holding /\ pc'[w] \in Holding => ptr[u] # ptr[w]
    BY <2>1 DEF OneOwner
  <2>5. \A m \in Linked' : m \in live /\ data[m] \in Value
    BY <1>c DEF OneOwner
  <2> QED BY <2>2, <2>3, <2>4, <2>5 DEF OneOwner
<1>5. InternalCounts'
  <2>1. \A u \in Thread : pc'[u] \in {"push_load", "push_cas"} => internal[ptr[u]] = 0
    BY <1>e DEF InternalCounts
  <2>2. \A u \in Thread : pc'[u] \in {"swap", "settle"} => internal[ptr[u]] <= 0
    BY <1>0, <1>b, <1>e DEF InternalCounts
  <2>3. \A m \in Linked' : internal[m] <= 0
    BY <1>c DEF InternalCounts
  <2>4. ASSUME NEW m \in live \ Linked', Owners(m)' = {}
        PROVE  internal[m] = Cardinality(Holders(m)') /\ internal[m] > 0
    <3>1. m # n /\ m \in Node /\ m \in live \ Linked
      BY <2>4, <1>a, <1>c, <1>f DEF TypeOK
    <3> QED BY <2>4, <3>1, <1>f DEF InternalCounts
  <2> QED BY <2>1, <2>2, <2>3, <2>4 DEF InternalCounts
<1>6. ThreadView'
  <2>1. data[n] \in Value
    BY <1>b DEF OneOwner
  <2> SUFFICES ASSUME NEW u \in Thread PROVE ThreadView!(u)'
    BY DEF ThreadView
  <2>2. CASE u = t
    BY <2>1, <2>2, <1>0, <1>a, <1>e DEF ThreadView
  <2>3. CASE u # t
    BY <2>3, <1>e DEF ThreadView
  <2> QED BY <2>2, <2>3
<1> QED BY <1>1, <1>2, <1>3, <1>4, <1>5, <1>6

(* The winner takes the value out of the node that is now its own. *)
LEMMA SwapDataStep ==
  ASSUME IInv, NEW t \in Thread, SwapData(t)
  PROVE  IInv'
<1> USE DEF SwapData, IInv, Goto
<1>0. PICK n : n = ptr[t]
  OBVIOUS
<1>a. /\ n \in Node /\ n \in live /\ n \notin Linked /\ data[n] \in Value
      /\ Linked' = Linked /\ Linked \subseteq Node /\ DOMAIN chain = 1..Len(chain)
      /\ \A i \in 1..Len(chain) : chain[i] \in Linked
  <2>1. Linked' = Linked
    BY DEF Linked
  <2>2. n \in Node /\ n \in live /\ n \notin Linked /\ data[n] \in Value
    BY <1>0 DEF TypeOK, ThreadView, OneOwner, Owning
  <2> QED BY <2>1, <2>2, Ends
<1>b. /\ \A u \in Thread : pc'[u] = IF u = t THEN "settle" ELSE pc[u]
      /\ \A u \in Thread : res'[u] = IF u = t THEN data[n] ELSE res[u]
      /\ \A m \in Node : m # n => data'[m] = data[m]
      /\ pc[t] = "swap" /\ {"swap", "settle"} \subseteq Holding \cap Owning
  BY <1>0 DEF TypeOK, Owning, Holding
<1>c. /\ \A u \in Thread : pc[u] \in Owning /\ u # t => ptr[u] # n
      /\ \A u \in Thread : pc[u] \in Owning \cup Holding => ptr[u] \in Node
  BY <1>0, <1>b DEF OneOwner, ThreadView, TypeOK
<1>d. \A m \in Node : Holders(m)' = Holders(m) /\ Owners(m)' = Owners(m)
  BY <1>b DEF Holders, Owners
<1>1. TypeOK'
  <2>1. pc' \in [Thread -> Label]
    BY DEF TypeOK, Label
  <2>2. data' \in [Node -> Value \cup {None}]
    BY <1>0, <1>a DEF TypeOK
  <2>3. res' \in [Thread -> Value \cup {None, Empty}]
    BY <1>0, <1>a DEF TypeOK
  <2> QED BY <2>1, <2>2, <2>3 DEF TypeOK
<1>2. ListIntact'
  BY DEF ListIntact
<1>3. CountsAddUp'
  <2>1. \A i \in 1..Len(chain) : ExternalCount(i)' = ExternalCount(i)
    BY DEF ExternalCount
  <2>2. \A i \in 1..Len(chain) :
          ExternalCount(i)' + internal[chain[i]] = 1 + Cardinality(Holders(chain[i])')
    BY <2>1, <1>a, <1>d DEF CountsAddUp
  <2>3. \A u \in Thread : pc'[u] \in {"swap", "settle"} =>
          pc[u] \in {"swap", "settle"} /\ ptr[u] \in Node
    BY <1>b, <1>c DEF Owning
  <2>4. \A u \in Thread : pc'[u] \in {"swap", "settle"} =>
          old[u].count + internal[ptr[u]] = 1 + Cardinality(Holders(ptr[u])')
    BY <2>3, <1>d DEF CountsAddUp
  <2> QED BY <2>2, <2>4, <1>a DEF CountsAddUp
<1>4. OneOwner'
  <2>1. \A u \in Thread : /\ pc'[u] \in Owning <=> pc[u] \in Owning
                          /\ pc'[u] \in Holding <=> pc[u] \in Holding
    BY <1>b
  <2> QED BY <2>1, <1>a, <1>b DEF OneOwner
<1>5. InternalCounts'
  <2>1. \A u \in Thread : /\ pc'[u] \in {"push_load", "push_cas"} => pc[u] \in {"push_load", "push_cas"}
                          /\ pc'[u] \in {"swap", "settle"} => pc[u] \in {"swap", "settle"}
    BY <1>b
  <2>2. \A m \in live \ Linked : m \in Node
    BY DEF TypeOK
  <2> QED BY <2>1, <2>2, <1>a, <1>d DEF InternalCounts
<1>6. ThreadView'
  <2>1. data[n] # None
    BY <1>a, StackAssumption DEF StackAssumption
  <2> SUFFICES ASSUME NEW u \in Thread PROVE ThreadView!(u)'
    BY DEF ThreadView
  <2>2. CASE u = t
    BY <2>1, <2>2, <1>0, <1>a, <1>b DEF ThreadView
  <2>3. CASE u # t
    <3>1. pc[u] \in {"push_load", "push_cas", "swap"} => data'[ptr[u]] = data[ptr[u]]
      BY <2>3, <1>b, <1>c DEF Owning
    <3> QED BY <2>3, <3>1, <1>b DEF ThreadView
  <2> QED BY <2>2, <2>3
<1> QED BY <1>1, <1>2, <1>3, <1>4, <1>5, <1>6

(* The winner hands its count over, and deletes the node if that leaves no *)
(* loser: only then does it remain an owner.                               *)
LEMMA SettleStep ==
  ASSUME IInv, NEW t \in Thread, Settle(t)
  PROVE  IInv'
<1> USE DEF Settle, IInv, Goto
<1>0. PICK n, c : n = ptr[t] /\ c = old[t].count
  OBVIOUS
<1>a. /\ n \in Node /\ n \in live /\ n \notin Linked /\ c \in Nat /\ internal[n] \in Int
      /\ Linked' = Linked /\ Linked \subseteq Node /\ DOMAIN chain = 1..Len(chain)
      /\ \A i \in 1..Len(chain) : chain[i] \in Linked
  <2>1. Linked' = Linked
    BY DEF Linked
  <2>2. n \in Node /\ n \in live /\ n \notin Linked /\ internal[n] \in Int
    BY <1>0 DEF TypeOK, ThreadView, OneOwner, Owning
  <2>3. c \in Nat
    BY <1>0 DEF TypeOK, Counted
  <2> QED BY <2>1, <2>2, <2>3, Ends
<1>b. /\ pc[t] = "settle" /\ "settle" \in Holding \cap Owning
      /\ internal'[n] = internal[n] + (c - 2)
      /\ \A m \in Node : m # n => internal'[m] = internal[m]
      /\ \A u \in Thread : u # t => pc'[u] = pc[u] /\ ptr'[u] = ptr[u] /\ old'[u] = old[u]
      /\ old'[t] = NullPtr
      /\ \/ internal'[n] = 0 /\ pc'[t] = "delete" /\ ptr'[t] = n
         \/ internal'[n] # 0 /\ pc'[t] = "return" /\ ptr'[t] = Null
  BY <1>0, <1>a DEF TypeOK, Owning, Holding
<1>c. /\ \A u \in Thread : pc[u] \in Owning /\ u # t => ptr[u] # n
      /\ \A u \in Thread : pc[u] \in Owning \cup Holding => ptr[u] \in Node
      /\ "delete" \in Owning \ Holding /\ "return" \notin Owning \cup Holding
  BY <1>0, <1>b DEF OneOwner, ThreadView, TypeOK, Owning, Holding
<1>d. /\ internal'[n] = Cardinality(Holders(n)')
      /\ Cardinality(Holders(n)') \in Nat
      /\ internal'[n] = 0 <=> Holders(n)' = {}
      /\ \A m \in Node : m # n => Holders(m)' = Holders(m) /\ Owners(m)' = Owners(m)
      /\ pc'[t] = "delete" => t \in Owners(n)'
  <2>1. /\ Cardinality(Holders(n)') = Cardinality(Holders(n)) - 1
        /\ Cardinality(Holders(n)') \in Nat /\ Cardinality(Holders(n)) \in Nat
        /\ Cardinality(Holders(n)') = 0 <=> Holders(n)' = {}
    BY <1>0, <1>a, <1>b, <1>c, Counting
  <2>2. c + internal[n] = 1 + Cardinality(Holders(n))
    BY <1>0, <1>b DEF CountsAddUp
  <2>3. internal'[n] = Cardinality(Holders(n)')
    BY <2>1, <2>2, <1>a, <1>b
  <2>4. \A m \in Node : m # n => Holders(m)' = Holders(m) /\ Owners(m)' = Owners(m)
    <3>1. n # Null /\ Null \notin Node
      BY <1>a, StackAssumption DEF StackAssumption
    <3> QED BY <3>1, <1>0, <1>b DEF Holders, Owners
  <2>5. pc'[t] = "delete" => t \in Owners(n)'
    BY <1>b, <1>c DEF Owners
  <2> QED BY <2>1, <2>3, <2>4, <2>5
<1>1. TypeOK'
  <2>1. pc' \in [Thread -> Label]
    BY DEF TypeOK, Label
  <2>2. NullPtr \in Counted
    BY StackAssumption DEF NullPtr, Counted, StackAssumption
  <2>3. old' \in [Thread -> Counted]
    BY <2>2 DEF TypeOK
  <2>4. ptr' \in [Thread -> Node \cup {Null}]
    BY DEF TypeOK
  <2>5. internal' \in [Node -> Int]
    BY <1>0, <1>a DEF TypeOK
  <2> QED BY <2>1, <2>3, <2>4, <2>5 DEF TypeOK
<1>2. ListIntact'
  BY DEF ListIntact
<1>3. CountsAddUp'
  <2>1. \A i \in 1..Len(chain) : ExternalCount(i)' = ExternalCount(i)
    BY DEF ExternalCount
  <2>2. \A i \in 1..Len(chain) :
          ExternalCount(i)' + internal'[chain[i]] = 1 + Cardinality(Holders(chain[i])')
    BY <2>1, <1>a, <1>b, <1>d DEF CountsAddUp
  <2>3. ASSUME NEW u \in Thread, pc'[u] \in {"swap", "settle"}
        PROVE  old'[u].count + internal'[ptr[u]] = 1 + Cardinality(Holders(ptr[u])') /\ ptr'[u] = ptr[u]
    <3>1. u # t /\ pc[u] \in {"swap", "settle"} /\ pc[u] \in Owning /\ ptr'[u] = ptr[u]
      BY <2>3, <1>b DEF Owning
    <3>2. ptr[u] \in Node /\ ptr[u] # n
      BY <3>1, <1>c
    <3>3. old[u].count + internal[ptr[u]] = 1 + Cardinality(Holders(ptr[u]))
      BY <3>1 DEF CountsAddUp
    <3>4. PICK m : m = ptr[u]
      OBVIOUS
    <3>5. Holders(m)' = Holders(m) /\ internal'[m] = internal[m]
      BY <3>2, <3>4, <1>b, <1>d
    <3> QED BY <3>1, <3>3, <3>4, <3>5, <1>b
  <2> QED BY <2>2, <2>3, <1>a DEF CountsAddUp
<1>4. OneOwner'
  <2>1. /\ \A u \in Thread : pc'[u] \in Owning => pc[u] \in Owning /\ ptr'[u] = ptr[u]
        /\ \A u \in Thread : pc'[u] \in Holding => u # t /\ pc[u] \in Holding /\ ptr'[u] = ptr[u]
        /\ \A u \in Thread : pc'[u] \in Owning \ Holding => u = t \/ pc[u] \in Owning \ Holding
    BY <1>0, <1>b, <1>c
  <2>2. \A u, w \in Thread : pc'[u] \in Owning /\ pc'[w] \in Owning /\ ptr'[u] = ptr'[w] => u = w
    BY <2>1 DEF OneOwner
  <2>3. \A u \in Thread : pc'[u] \in Owning => ptr'[u] \notin Linked
    BY <2>1 DEF OneOwner
  <2>4. ASSUME NEW u \in Thread, NEW w \in Thread, pc'[u] \in Owning \ Holding, pc'[w] \in Holding
        PROVE  ptr'[u] # ptr'[w]
    <3>1. CASE u = t
      <4>1. Holders(n)' = {} /\ ptr'[u] = n
        BY <2>4, <3>1, <1>b, <1>c, <1>d
      <4>2. w \notin Holders(n)'
        BY <4>1
      <4> QED BY <4>1, <4>2, <2>4 DEF Holders
    <3>2. CASE u # t
      BY <2>1, <2>4, <3>2 DEF OneOwner
    <3> QED BY <3>1, <3>2
  <2> QED BY <2>2, <2>3, <2>4, <1>a DEF OneOwner
<1>5. InternalCounts'
  <2>1. ASSUME NEW u \in Thread, pc'[u] \in {"push_load", "push_cas"} PROVE internal'[ptr'[u]] = 0
    BY <2>1, <1>b, <1>c DEF InternalCounts, Owning
  <2>2. ASSUME NEW u \in Thread, pc'[u] \in {"swap", "settle"} PROVE internal'[ptr'[u]] <= 0
    BY <2>2, <1>b, <1>c DEF InternalCounts, Owning
  <2>3. \A m \in Linked : internal'[m] <= 0
    BY <1>a, <1>b DEF InternalCounts
  <2>4. ASSUME NEW m \in live \ Linked, Owners(m)' = {}
        PROVE  internal'[m] = Cardinality(Holders(m)') /\ internal'[m] > 0
    <3>1. CASE m = n
      <4>1. pc'[t] # "delete"
        BY <2>4, <3>1, <1>d
      <4>2. internal'[n] # 0
        BY <4>1, <1>b
      <4> QED BY <3>1, <4>2, <1>d
    <3>2. CASE m # n
      <4>1. m \in Node
        BY DEF TypeOK
      <4> QED BY <2>4, <3>2, <4>1, <1>b, <1>d DEF InternalCounts
    <3> QED BY <3>1, <3>2
  <2> QED BY <2>1, <2>2, <2>3, <2>4, <1>a DEF InternalCounts
<1>6. ThreadView'
  <2>1. n # Null
    BY <1>a, StackAssumption DEF StackAssumption
  <2> SUFFICES ASSUME NEW u \in Thread PROVE ThreadView!(u)'
    BY DEF ThreadView
  <2>2. CASE u = t
    BY <2>1, <2>2, <1>0, <1>a, <1>b, <1>c DEF ThreadView
  <2>3. CASE u # t
    BY <2>3, <1>b DEF ThreadView
  <2> QED BY <2>2, <2>3
<1> QED BY <1>1, <1>2, <1>3, <1>4, <1>5, <1>6

(* A loser gives its reference up; if it finds a one, the winner has been  *)
(* there and all other losers have gone, and the node is its to delete.    *)
LEMMA LoseStep ==
  ASSUME LoserDelta = -1, IInv, NEW t \in Thread, Lose(t)
  PROVE  IInv'
<1> USE DEF Lose, IInv, Goto
<1>0. PICK n : n = ptr[t]
  OBVIOUS
<1>a. /\ n \in Node /\ n \in live /\ internal[n] \in Int
      /\ Linked' = Linked /\ Linked \subseteq Node /\ DOMAIN chain = 1..Len(chain)
      /\ \A i \in 1..Len(chain) : chain[i] \in Linked
  <2>1. Linked' = Linked
    BY DEF Linked
  <2>2. n \in Node /\ n \in live /\ internal[n] \in Int
    BY <1>0 DEF TypeOK, ThreadView, Holding
  <2> QED BY <2>1, <2>2, Ends
<1>b. /\ pc[t] = "lose" /\ "lose" \in Holding \ Owning
      /\ internal'[n] = internal[n] - 1
      /\ \A m \in Node : m # n => internal'[m] = internal[m]
      /\ \A u \in Thread : u # t => pc'[u] = pc[u] /\ ptr'[u] = ptr[u]
      /\ \/ internal[n] = 1 /\ pc'[t] = "lose_delete" /\ ptr'[t] = n
         \/ internal[n] # 1 /\ pc'[t] = "increase" /\ ptr'[t] = Null
  BY <1>0, <1>a DEF TypeOK, Owning, Holding
<1>c. /\ \A u \in Thread : pc[u] \in Owning \cup Holding => ptr[u] \in Node
      /\ "lose_delete" \in Owning \ Holding /\ "increase" \notin Owning \cup Holding
      /\ \A u \in Thread : pc[u] \in Owning /\ ptr[u] = n => pc[u] \in {"swap", "settle"}
  <2>1. \A u \in Thread : pc[u] \in Owning \ Holding => ptr[u] # n
    BY <1>0, <1>b DEF OneOwner
  <2> QED BY <2>1 DEF ThreadView, TypeOK, Owning, Holding
<1>d. /\ Cardinality(Holders(n)') = Cardinality(Holders(n)) - 1
      /\ Cardinality(Holders(n)') \in Nat /\ Cardinality(Holders(n)) \in Nat
      /\ Cardinality(Holders(n)') = 0 <=> Holders(n)' = {}
      /\ \A m \in Node : m # n => Holders(m)' = Holders(m) /\ Owners(m)' = Owners(m)
      /\ \A m \in Node : Owners(m)' = {} => Owners(m) = {}
  <2>1. n # Null /\ Null \notin Node
    BY <1>a, StackAssumption DEF StackAssumption
  <2>2. \A m \in Node : /\ m # n => Holders(m)' = Holders(m) /\ Owners(m)' = Owners(m)
                        /\ Owners(m)' = {} => Owners(m) = {}
    BY <2>1, <1>0, <1>b DEF Holders, Owners
  <2>3. /\ Cardinality(Holders(n)') = Cardinality(Holders(n)) - 1
        /\ Cardinality(Holders(n)') \in Nat /\ Cardinality(Holders(n)) \in Nat
        /\ Cardinality(Holders(n)') = 0 <=> Holders(n)' = {}
    BY <1>0, <1>a, <1>b, <1>c, Counting
  <2> QED BY <2>2, <2>3
<1>e. ASSUME internal[n] = 1
      PROVE  n \notin Linked /\ Owners(n) = {} /\ Holders(n)' = {}
  <2>1. n \notin Linked
    BY <1>e DEF InternalCounts
  <2>2. Owners(n) = {}
    BY <1>c, <1>e DEF InternalCounts, Owners
  <2>3. Cardinality(Holders(n)) = 1
    BY <2>1, <2>2, <1>a, <1>e DEF InternalCounts
  <2> QED BY <2>1, <2>2, <2>3, <1>d
<1>1. TypeOK'
  <2>1. pc' \in [Thread -> Label]
    BY DEF TypeOK, Label
  <2>2. ptr' \in [Thread -> Node \cup {Null}]
    BY DEF TypeOK
  <2>3. internal' \in [Node -> Int]
    BY <1>0, <1>a DEF TypeOK
  <2> QED BY <2>1, <2>2, <2>3 DEF TypeOK
<1>2. ListIntact'
  BY DEF ListIntact
<1>3. CountsAddUp'
  <2>1. \A i \in 1..Len(chain) : ExternalCount(i)' = ExternalCount(i) /\ ExternalCount(i) \in Nat
    <3>1. \A i \in 1..Len(chain) : i # 1 => i - 1 \in 1..Len(chain)
      BY DEF TypeOK
    <3> QED BY <3>1, <1>a DEF ExternalCount, TypeOK, Counted
  <2>2. ASSUME NEW i \in 1..Len(chain)
        PROVE  ExternalCount(i)' + internal'[chain[i]] = 1 + Cardinality(Holders(chain[i])')
    <3>1. PICK m : m = chain[i]
      OBVIOUS
    <3>2. ExternalCount(i) + internal[m] = 1 + Cardinality(Holders(m)) /\ m \in Node
      BY <3>1, <1>a DEF CountsAddUp
    <3>3. CASE m = n
      BY <2>1, <3>1, <3>2, <3>3, <1>a, <1>b, <1>d
    <3>4. CASE m # n
      BY <2>1, <3>1, <3>2, <3>4, <1>b, <1>d
    <3> QED BY <3>3, <3>4
  <2>3. ASSUME NEW u \in Thread, pc'[u] \in {"swap", "settle"}
        PROVE  old[u].count + internal'[ptr[u]] = 1 + Cardinality(Holders(ptr[u])') /\ ptr'[u] = ptr[u]
    <3>1. PICK m : m = ptr[u]
      OBVIOUS
    <3>2. u # t /\ pc[u] \in {"swap", "settle"} /\ ptr'[u] = m /\ m \in Node
      BY <2>3, <3>1, <1>b, <1>c DEF Holding
    <3>3. old[u].count + internal[m] = 1 + Cardinality(Holders(m)) /\ old[u].count \in Nat
      BY <3>1, <3>2 DEF CountsAddUp, TypeOK, Counted
    <3>4. CASE m = n
      BY <3>1, <3>2, <3>3, <3>4, <1>a, <1>b, <1>d
    <3>5. CASE m # n
      BY <3>1, <3>2, <3>3, <3>5, <1>b, <1>d
    <3> QED BY <3>4, <3>5
  <2> QED BY <2>2, <2>3, <1>a DEF CountsAddUp
<1>4. OneOwner'
  <2>1. /\ \A u \in Thread : pc'[u] \in Owning /\ u # t => pc[u] \in Owning /\ ptr'[u] = ptr[u]
        /\ \A u \in Thread : pc'[u] \in Holding => u # t /\ pc[u] \in Holding /\ ptr'[u] = ptr[u]
        /\ pc'[t] \in Owning => ptr'[t] = n /\ n \notin Linked /\ Owners(n) = {} /\ Holders(n)' = {}
    BY <1>b, <1>c, <1>e
  <2>2. \A u \in Thread : pc'[u] \in Owning /\ u # t /\ pc'[t] \in Owning => ptr'[u] # n
    BY <2>1 DEF Owners
  <2>3. \A u, w \in Thread : pc'[u] \in Owning /\ pc'[w] \in Owning /\ ptr'[u] = ptr'[w] => u = w
    BY <2>1, <2>2 DEF OneOwner
  <2>4. \A u \in Thread : pc'[u] \in Owning => ptr'[u] \notin Linked
    BY <2>1 DEF OneOwner
  <2>5. ASSUME NEW u \in Thread, NEW w \in Thread, pc'[u] \in Owning \ Holding, pc'[w] \in Holding
        PROVE  ptr'[u] # ptr'[w]
    <3>1. CASE u = t
      <4>1. Holders(n)' = {} /\ ptr'[u] = n
        BY <2>1, <2>5, <3>1
      <4>2. w \notin Holders(n)'
        BY <4>1
      <4> QED BY <4>1, <4>2, <2>5 DEF Holders
    <3>2. CASE u # t
      BY <2>1, <2>5, <3>2, <1>b DEF OneOwner
    <3> QED BY <3>1, <3>2
  <2> QED BY <2>3, <2>4, <2>5, <1>a DEF OneOwner
<1>5. InternalCounts'
  <2>1. ASSUME NEW u \in Thread, pc'[u] \in {"push_load", "push_cas"} PROVE internal'[ptr'[u]] = 0
    <3>1. u # t /\ ptr'[u] = ptr[u] /\ pc[u] \in Owning /\ pc[u] \in {"push_load", "push_cas"}
      BY <2>1, <1>b DEF Owning
    <3>2. ptr[u] # n /\ ptr[u] \in Node
      BY <3>1, <1>c
    <3> QED BY <3>1, <3>2, <1>b DEF InternalCounts
  <2>2. ASSUME NEW u \in Thread, pc'[u] \in {"swap", "settle"} PROVE internal'[ptr'[u]] <= 0
    <3>1. u # t /\ ptr'[u] = ptr[u] /\ ptr[u] \in Node /\ internal[ptr[u]] <= 0
      BY <2>2, <1>b, <1>c DEF InternalCounts, Owning
    <3> QED BY <3>1, <1>a, <1>b
  <2>3. \A m \in Linked : internal'[m] <= 0
    BY <1>a, <1>b DEF InternalCounts
  <2>4. ASSUME NEW m \in live \ Linked, Owners(m)' = {}
        PROVE  internal'[m] = Cardinality(Holders(m)') /\ internal'[m] > 0
    <3>0. m \in Node
      BY DEF TypeOK
    <3>1. internal[m] = Cardinality(Holders(m)) /\ internal[m] > 0
      BY <2>4, <3>0, <1>d DEF InternalCounts
    <3>2. CASE m = n
      <4>1. t \notin Owners(n)'
        BY <2>4, <3>2
      <4>2. internal[n] # 1
        BY <4>1, <1>b, <1>c DEF Owners
      <4> QED BY <3>1, <3>2, <4>2, <1>a, <1>b, <1>d
    <3>3. CASE m # n
      BY <3>0, <3>1, <3>3, <1>b, <1>d
    <3> QED BY <3>2, <3>3
  <2> QED BY <2>1, <2>2, <2>3, <2>4, <1>a DEF InternalCounts
<1>6. ThreadView'
  <2>1. n # Null
    BY <1>a, StackAssumption DEF StackAssumption
  <2> SUFFICES ASSUME NEW u \in Thread PROVE ThreadView!(u)'
    BY DEF ThreadView
  <2>2. CASE u = t
    BY <2>1, <2>2, <1>0, <1>a, <1>b, <1>c DEF ThreadView
  <2>3. CASE u # t
    BY <2>3, <1>b DEF ThreadView
  <2> QED BY <2>2, <2>3
<1> QED BY <1>1, <1>2, <1>3, <1>4, <1>5, <1>6

(* The node that is deleted is its owner's alone. *)
LEMMA DeleteStep ==
  ASSUME IInv, NEW t \in Thread, Delete(t)
  PROVE  IInv'
<1> USE DEF Delete, IInv, Goto
<1>0. PICK n : n = ptr[t]
  OBVIOUS
<1>a. /\ n \in Node /\ n \notin Linked /\ Linked' = Linked /\ Linked \subseteq Node
      /\ DOMAIN chain = 1..Len(chain) /\ \A i \in 1..Len(chain) : chain[i] \in Linked
  <2>1. Linked' = Linked
    BY DEF Linked
  <2>2. n \in Node /\ n \notin Linked
    BY <1>0 DEF TypeOK, ThreadView, OneOwner, Owning
  <2> QED BY <2>1, <2>2, Ends
<1>b. /\ pc[t] \in Owning \ Holding /\ pc'[t] \notin Owning \cup Holding /\ ptr'[t] = Null
      /\ \A u \in Thread : u # t => pc'[u] = pc[u] /\ ptr'[u] = ptr[u]
      /\ \/ pc[t] = "delete" /\ pc'[t] = "return"
         \/ pc[t] = "lose_delete" /\ pc'[t] = "increase"
      /\ live' = live \ {n}
  BY <1>0 DEF TypeOK, Owning, Holding
<1>c. /\ \A u \in Thread : pc[u] \in Owning \cup Holding => ptr[u] \in Node
      /\ \A u \in Thread : pc[u] \in Owning \cup Holding /\ u # t => ptr[u] # n
  BY <1>0, <1>b DEF OneOwner, ThreadView, TypeOK
<1>d. \A m \in Node : Holders(m)' = Holders(m) /\ (m # n => Owners(m)' = Owners(m))
  <2>1. n # Null /\ Null \notin Node
    BY <1>a, StackAssumption DEF StackAssumption
  <2> QED BY <2>1, <1>0, <1>b DEF Holders, Owners
<1>1. TypeOK'
  BY <1>0, <1>a DEF TypeOK, Label
<1>2. ListIntact'
  BY DEF ListIntact
<1>3. CountsAddUp'
  <2>1. \A i \in 1..Len(chain) : ExternalCount(i)' = ExternalCount(i)
    BY DEF ExternalCount
  <2>2. \A i \in 1..Len(chain) :
          ExternalCount(i)' + internal[chain[i]] = 1 + Cardinality(Holders(chain[i])')
    BY <2>1, <1>a, <1>d DEF CountsAddUp
  <2>3. ASSUME NEW u \in Thread, pc'[u] \in {"swap", "settle"}
        PROVE  old[u].count + internal[ptr[u]] = 1 + Cardinality(Holders(ptr[u])') /\ ptr'[u] = ptr[u]
    <3>1. u # t /\ pc[u] \in {"swap", "settle"} /\ pc[u] \in Owning /\ ptr'[u] = ptr[u]
      BY <2>3, <1>b DEF Owning
    <3>2. PICK m : m = ptr[u]
      OBVIOUS
    <3>3. m \in Node /\ old[u].count + internal[m] = 1 + Cardinality(Holders(m))
      BY <3>1, <3>2, <1>c DEF CountsAddUp
    <3> QED BY <3>1, <3>2, <3>3, <1>d
  <2> QED BY <2>2, <2>3, <1>a DEF CountsAddUp
<1>4. OneOwner'
  <2>1. /\ \A u \in Thread : pc'[u] \in Owning => u # t /\ pc[u] \in Owning /\ ptr'[u] = ptr[u]
        /\ \A u \in Thread : pc'[u] \in Holding => u # t /\ pc[u] \in Holding /\ ptr'[u] = ptr[u]
        /\ \A u \in Thread : pc'[u] \in Owning \ Holding => pc[u] \in Owning \ Holding
    BY <1>b
  <2>2. \A m \in Linked : m \in live' /\ data[m] \in Value
    BY <1>a, <1>b DEF OneOwner
  <2> QED BY <2>1, <2>2, <1>a DEF OneOwner
<1>5. InternalCounts'
  <2>1. \A u \in Thread : pc'[u] \in {"push_load", "push_cas"} => internal[ptr'[u]] = 0
    BY <1>b DEF InternalCounts, Owning
  <2>2. \A u \in Thread : pc'[u] \in {"swap", "settle"} => internal[ptr'[u]] <= 0
    BY <1>b DEF InternalCounts, Owning
  <2>3. ASSUME NEW m \in live' \ Linked, Owners(m)' = {}
        PROVE  internal[m] = Cardinality(Holders(m)') /\ internal[m] > 0
    <3>1. m # n /\ m \in live \ Linked /\ m \in Node
      BY <1>b DEF TypeOK
    <3> QED BY <2>3, <3>1, <1>d DEF InternalCounts
  <2> QED BY <2>1, <2>2, <2>3, <1>a DEF InternalCounts
<1>6. ThreadView'
  <2> SUFFICES ASSUME NEW u \in Thread PROVE ThreadView!(u)'
    BY DEF ThreadView
  <2>1. CASE u = t
    BY <2>1, <1>b DEF ThreadView
  <2>2. CASE u # t
    BY <2>2, <1>b, <1>c DEF ThreadView
  <2> QED BY <2>1, <2>2
<1> QED BY <1>1, <1>2, <1>3, <1>4, <1>5, <1>6

(* A step that changes neither the shared state nor who holds or owns what.*)
LEMMA QuietStep ==
  ASSUME IInv, NEW t \in Thread, TypeOK', ThreadView',
         UNCHANGED <<head, data, internal, next, live, ptr, chain>>,
         \A u \in Thread \ {t} : pc'[u] = pc[u] /\ old'[u] = old[u],
         pc[t] \notin Owning, pc'[t] \notin Owning, pc[t] \in Holding <=> pc'[t] \in Holding
  PROVE  IInv'
<1> USE DEF IInv
<1>a. /\ Linked' = Linked /\ Linked \subseteq Node
      /\ DOMAIN chain = 1..Len(chain) /\ \A i \in 1..Len(chain) : chain[i] \in Linked
  <2>1. Linked' = Linked
    BY DEF Linked
  <2> QED BY <2>1, Ends
<1>b. /\ \A m : Holders(m)' = Holders(m) /\ Owners(m)' = Owners(m)
      /\ \A u \in Thread : pc'[u] \in Owning => u # t /\ pc'[u] = pc[u]
      /\ \A u \in Thread : pc'[u] \in Holding => pc[u] \in Holding
  BY DEF Holders, Owners
<1>1. ListIntact'
  BY DEF ListIntact
<1>2. CountsAddUp'
  <2>1. \A i \in 1..Len(chain) : ExternalCount(i)' = ExternalCount(i)
    BY DEF ExternalCount
  <2>2. \A i \in 1..Len(chain) :
          ExternalCount(i)' + internal[chain[i]] = 1 + Cardinality(Holders(chain[i])')
    BY <2>1, <1>a, <1>b DEF CountsAddUp
  <2>3. \A u \in Thread : pc'[u] \in {"swap", "settle"} =>
          old'[u].count + internal[ptr[u]] = 1 + Cardinality(Holders(ptr[u])')
    BY <1>b DEF CountsAddUp, Owning
  <2> QED BY <2>2, <2>3, <1>a DEF CountsAddUp
<1>3. OneOwner'
  BY <1>a, <1>b DEF OneOwner
<1>4. InternalCounts'
  <2>1. \A u \in Thread : pc'[u] \in {"push_load", "push_cas"} => internal[ptr[u]] = 0
    BY <1>b DEF InternalCounts, Owning
  <2>2. \A u \in Thread : pc'[u] \in {"swap", "settle"} => internal[ptr[u]] <= 0
    BY <1>b DEF InternalCounts, Owning
  <2> QED BY <2>1, <2>2, <1>a, <1>b DEF InternalCounts
<1> QED BY <1>1, <1>2, <1>3, <1>4

LEMMA PopLoadStep ==
  ASSUME IInv, NEW t \in Thread, PopLoad(t)
  PROVE  IInv'
<1> USE DEF PopLoad, IInv, Goto, nodes
<1>1. /\ \A u \in Thread : pc'[u] = IF u = t THEN "increase" ELSE pc[u]
      /\ \A u \in Thread \ {t} : old'[u] = old[u]
      /\ pc[t] \notin Owning \cup Holding /\ "increase" \notin Owning \cup Holding
  BY DEF TypeOK, Owning, Holding
<1>2. TypeOK'
  BY DEF TypeOK, Label
<1>3. ThreadView'
  BY <1>1 DEF ThreadView
<1> QED BY <1>1, <1>2, <1>3, QuietStep

LEMMA ReadNextStep ==
  ASSUME IInv, NEW t \in Thread, ReadNext(t)
  PROVE  IInv'
<1> USE DEF ReadNext, IInv, Goto, nodes
<1>1. /\ \A u \in Thread : pc'[u] = IF u = t THEN "pop_cas" ELSE pc[u]
      /\ \A u \in Thread : below'[u] = IF u = t THEN next[ptr[t]] ELSE below[u]
      /\ pc[t] = "pop_next" /\ {"pop_next", "pop_cas"} \subseteq Holding \ Owning
  BY DEF TypeOK, Owning, Holding
<1>2. TypeOK'
  <2>1. ptr[t] \in Node
    BY <1>1 DEF ThreadView, TypeOK
  <2>2. pc' \in [Thread -> Label]
    BY DEF TypeOK, Label
  <2>3. below' \in [Thread -> Counted]
    BY <2>1 DEF TypeOK
  <2> QED BY <2>2, <2>3 DEF TypeOK
<1>3. ThreadView'
  BY <1>1 DEF ThreadView
<1> QED BY <1>1, <1>2, <1>3, QuietStep

LEMMA PopCasLosesStep ==
  ASSUME IInv, NEW t \in Thread, PopCasLoses(t)
  PROVE  IInv'
<1> USE DEF PopCasLoses, IInv, Goto, nodes
<1>1. /\ \A u \in Thread : pc'[u] = IF u = t THEN "lose" ELSE pc[u]
      /\ \A u \in Thread \ {t} : old'[u] = old[u] /\ below'[u] = below[u]
      /\ pc[t] = "pop_cas" /\ {"lose", "pop_cas"} \subseteq Holding \ Owning
  BY DEF TypeOK, Owning, Holding
<1>2. TypeOK'
  <2>1. pc' \in [Thread -> Label]
    BY DEF TypeOK, Label
  <2>2. NullPtr \in Counted
    BY StackAssumption DEF NullPtr, Counted, StackAssumption
  <2>3. below' \in [Thread -> Counted] /\ old' \in [Thread -> Counted]
    BY <2>2 DEF TypeOK
  <2> QED BY <2>1, <2>3 DEF TypeOK
<1>3. ThreadView'
  BY <1>1 DEF ThreadView
<1> QED BY <1>1, <1>2, <1>3, QuietStep

LEMMA ReturnStep ==
  ASSUME IInv, NEW t \in Thread, Return(t)
  PROVE  IInv'
<1> USE DEF Return, IInv, Goto, nodes
<1>1. /\ \A u \in Thread : pc'[u] = IF u = t THEN "idle" ELSE pc[u]
      /\ \A u \in Thread : res'[u] = IF u = t THEN None ELSE res[u]
      /\ pc[t] = "return" /\ {"idle", "return"} \cap (Owning \cup Holding) = {}
  BY DEF TypeOK, Owning, Holding
<1>2. TypeOK'
  BY DEF TypeOK, Label
<1>3. ThreadView'
  BY <1>1 DEF ThreadView
<1> QED BY <1>1, <1>2, <1>3, QuietStep

LEMMA StutterStep ==
  ASSUME IInv, UNCHANGED vars
  PROVE  IInv'
<1> USE DEF vars, nodes, locals
<1>1. Linked' = Linked /\ \A n : Holders(n)' = Holders(n) /\ Owners(n)' = Owners(n)
  BY DEF Linked, Elements, Holders, Owners
<1>2. \A i : ExternalCount(i)' = ExternalCount(i)
  BY DEF ExternalCount
<1>3. TypeOK' /\ ListIntact' /\ ThreadView'
  BY DEF IInv, TypeOK, ListIntact, ThreadView
<1>4. CountsAddUp'
  BY <1>1, <1>2 DEF IInv, CountsAddUp
<1>5. OneOwner' /\ InternalCounts'
  BY <1>1 DEF IInv, OneOwner, InternalCounts
<1> QED BY <1>3, <1>4, <1>5 DEF IInv

(* The invariant of the stack whose losers give their references back, as  *)
(* in 7.11; with the 1 of 7.10 it is lost.                                 *)
THEOREM Invariance == ASSUME LoserDelta = -1 PROVE Spec => []IInv
<1>1. IInv /\ [Next]_vars => IInv'
  <2> SUFFICES ASSUME IInv, [Next]_vars PROVE IInv'
    OBVIOUS
  <2>1. CASE UNCHANGED vars
    BY <2>1, StutterStep
  <2>2. CASE Capped
    BY <2>2, StutterStep DEF Capped
  <2>3. ASSUME NEW t \in Thread, BeginPush(t) \/ PopLoad(t) PROVE IInv'
    BY <2>3, BeginPushStep, PopLoadStep
  <2>4. ASSUME NEW t \in Thread, Step(t) PROVE IInv'
    <3>1. ASSUME PushLoad(t) \/ PushCas(t) PROVE IInv'
      BY <3>1, PushLoadStep, PushCasStep
    <3>2. ASSUME Increase(t) PROVE IInv'
      BY <3>2, IncreaseStep, IncreaseEmptyStep
    <3>3. ASSUME ReadNext(t) \/ PopCasWins(t) \/ PopCasLoses(t) PROVE IInv'
      BY <3>3, ReadNextStep, PopCasWinsStep, PopCasLosesStep
    <3>4. ASSUME SwapData(t) \/ Settle(t) \/ Lose(t) PROVE IInv'
      BY <3>4, SwapDataStep, SettleStep, LoseStep
    <3>5. ASSUME Delete(t) \/ Return(t) PROVE IInv'
      BY <3>5, DeleteStep, ReturnStep
    <3> QED BY <2>4, <3>1, <3>2, <3>3, <3>4, <3>5 DEF Step
  <2> QED BY <2>1, <2>2, <2>3, <2>4 DEF Next
<1> QED BY <1>1, InitIInv, PTL DEF Spec

(* The types. *)
THEOREM TypeCorrect == ASSUME LoserDelta = -1 PROVE Spec => []TypeOK
<1>1. IInv => TypeOK
  BY DEF IInv
<1> QED BY <1>1, Invariance, PTL

(* The nodes linked from m_head are the stack: a compare-and-swap that     *)
(* succeeds on a head that went away and came back does no harm.           *)
THEOREM ListStaysIntact == ASSUME LoserDelta = -1 PROVE Spec => []ListIntact
<1>1. IInv => ListIntact
  BY DEF IInv
<1> QED BY <1>1, Invariance, PTL

(* The two counts of a node add up to the references held. *)
THEOREM ReferencesCounted == ASSUME LoserDelta = -1 PROVE Spec => []CountsAddUp
<1>1. IInv => CountsAddUp
  BY DEF IInv
<1> QED BY <1>1, Invariance, PTL

(* No thread reads, writes or deletes a node that has been deleted. *)
THEOREM NodesOutliveUse == ASSUME LoserDelta = -1 PROVE Spec => []NoUseAfterFree
<1>1. IInv => NoUseAfterFree
  <2> SUFFICES ASSUME IInv PROVE NoUseAfterFree
    OBVIOUS
  <2>1. \A t \in Thread : pc[t] \in Touches => ptr[t] \in live
    BY DEF IInv, ThreadView, Touches, Owning, Holding
  <2>2. \A i \in DOMAIN chain : chain[i] \in live
    BY DEF IInv, OneOwner, Linked, Elements
  <2> QED BY <2>1, <2>2 DEF NoUseAfterFree
<1> QED BY <1>1, Invariance, PTL

(* Every node that is no longer in the stack is deleted by the time the    *)
(* calls have returned.                                                    *)
THEOREM NodesAreFreed == ASSUME LoserDelta = -1 PROVE Spec => []NoLeak
<1>1. IInv => NoLeak
  <2> SUFFICES ASSUME IInv, \A t \in Thread : pc[t] = "idle" PROVE live = Linked
    BY DEF NoLeak, Linked, Elements
  <2>1. \A n : Owners(n) = {} /\ Holders(n) = {}
    BY DEF Owners, Holders, Owning, Holding
  <2>2. ASSUME NEW n \in live \ Linked PROVE FALSE
    <3>1. internal[n] = Cardinality(Holders(n)) /\ internal[n] > 0
      BY <2>1 DEF IInv, InternalCounts
    <3>2. Cardinality(Holders(n)) = 0
      BY <2>1, FS_EmptySet
    <3> QED BY <3>1, <3>2
  <2>3. Linked \subseteq live
    BY DEF IInv, OneOwner
  <2> QED BY <2>2, <2>3
<1> QED BY <1>1, Invariance, PTL

-----------------------------------------------------------------------------
(* The stack its callers see. *)
LEMMA Items ==
  ASSUME IInv
  PROVE  /\ itemsBar \in Seq(Value) /\ Len(itemsBar) = Len(chain)
         /\ \A i \in 1..Len(chain) : itemsBar[i] = data[chain[i]] /\ chain[i] \in Linked
         /\ Len(chain) \in Nat /\ (chain = <<>> <=> Len(chain) = 0)
<1>1. /\ Len(chain) \in Nat /\ DOMAIN chain = 1..Len(chain) /\ (chain = <<>> <=> Len(chain) = 0)
      /\ \A i \in 1..Len(chain) : chain[i] \in Linked /\ data[chain[i]] \in Value
  BY Ends DEF IInv, OneOwner
<1>2. itemsBar = [i \in 1..Len(chain) |-> data[chain[i]]]
  BY <1>1 DEF itemsBar
<1>3. itemsBar \in Seq(Value) /\ Len(itemsBar) = Len(chain)
  BY <1>1, <1>2
<1> QED BY <1>1, <1>2, <1>3

LEMMA ItemsAfter ==
  IInv' => (/\ itemsBar \in Seq(Value) /\ Len(itemsBar) = Len(chain)
            /\ \A i \in 1..Len(chain) : itemsBar[i] = data[chain[i]])'
<1>1. IInv => /\ itemsBar \in Seq(Value) /\ Len(itemsBar) = Len(chain)
              /\ \A i \in 1..Len(chain) : itemsBar[i] = data[chain[i]]
  <2> SUFFICES ASSUME IInv
               PROVE  /\ itemsBar \in Seq(Value) /\ Len(itemsBar) = Len(chain)
                      /\ \A i \in 1..Len(chain) : itemsBar[i] = data[chain[i]]
    OBVIOUS
  <2> QED BY Items
<1> QED BY <1>1, PTL

(* Steps that neither link nor unlink a node nor hand a result over. *)
LEMMA Invisible ==
  ASSUME IInv, chain' = chain, \A n \in Linked : data'[n] = data[n],
         \A t \in Thread : Result(t)' = Result(t)
  PROVE  UNCHANGED <<itemsBar, handBar>>
<1>1. itemsBar' = itemsBar
  <2>1. \A i \in DOMAIN chain : data'[chain[i]] = data[chain[i]]
    BY DEF Linked, Elements
  <2> QED BY <2>1 DEF itemsBar
<1>2. handBar' = handBar
  BY DEF handBar
<1> QED BY <1>1, <1>2

(* A push takes effect at its compare-and-swap. *)
LEMMA PushIsPush ==
  ASSUME IInv, IInv', NEW t \in Thread, PushCas(t)
  PROVE  AS!Push
<1> USE DEF PushCas, Goto
<1>0. PICK n, v : n = ptr[t] /\ v = data[n]
  OBVIOUS
<1>1. n \in Node /\ v \in Value
  BY <1>0 DEF IInv, TypeOK, ThreadView, Owning
<1>2. /\ chain \in Seq(Node) /\ chain' = <<n>> \o chain /\ data' = data
  BY <1>0 DEF IInv, TypeOK, nodes
<1>3. /\ Len(chain') = Len(chain) + 1 /\ chain'[1] = n
      /\ \A i \in 1..Len(chain) : chain'[i + 1] = chain[i]
  <2> HIDE DEF PushCas
  <2> QED BY <1>1, <1>2, ConsProperties
<1>4. /\ itemsBar' \in Seq(Value) /\ Len(itemsBar') = Len(chain')
      /\ \A i \in 1..Len(chain') : itemsBar'[i] = data[chain'[i]]
  BY <1>2, ItemsAfter
<1> DEFINE c == <<v>> \o itemsBar
<1>5. /\ c \in Seq(Value) /\ Len(c) = Len(chain) + 1 /\ c[1] = v
      /\ \A i \in 1..Len(chain) : c[i + 1] = data[chain[i]]
  <2> HIDE DEF PushCas
  <2> QED BY <1>1, Items, ConsProperties
<1> HIDE DEF c
<1>6. \A i \in 1..Len(c) : c[i] = itemsBar'[i]
  <2> SUFFICES ASSUME NEW i \in 1..Len(c) PROVE c[i] = itemsBar'[i]
    OBVIOUS
  <2>1. Len(chain) \in Nat
    BY Items
  <2>2. CASE i = 1
    BY <2>1, <2>2, <1>0, <1>3, <1>4, <1>5
  <2>3. CASE i # 1
    <3>1. i - 1 \in 1..Len(chain) /\ (i - 1) + 1 = i
      BY <2>1, <2>3, <1>5
    <3>2. c[i] = data[chain[i - 1]] /\ chain'[i] = chain[i - 1]
      BY <3>1, <1>3, <1>5
    <3> QED BY <3>2, <1>3, <1>4, <1>5
  <2> QED BY <2>2, <2>3
<1>7. itemsBar' = <<v>> \o itemsBar
  <2>1. itemsBar' = c
    BY <1>3, <1>4, <1>5, <1>6, SeqEqual
  <2> QED BY <2>1 DEF c
<1>8. handBar' = handBar
  <2>1. \A u \in Thread : Result(u)' = Result(u)
    BY <1>2 DEF Result, IInv, TypeOK
  <2> QED BY <2>1 DEF handBar
<1> QED BY <1>1, <1>7, <1>8 DEF AS!Push

(* A pop takes effect at its compare-and-swap. *)
LEMMA PopIsPop ==
  ASSUME IInv, IInv', NEW t \in Thread, PopCasWins(t)
  PROVE  AS!Pop(t)
<1> USE DEF PopCasWins, Goto
<1>0. PICK n : n = ptr[t]
  OBVIOUS
<1>1. n \in Node /\ n # Null /\ head.node = n /\ data' = data
  BY <1>0, StackAssumption DEF IInv, TypeOK, ThreadView, Holding, StackAssumption, nodes
<1>2. /\ n = chain[1] /\ chain \in Seq(Node) /\ chain' = Tail(chain) /\ 1 \in 1..Len(chain)
      /\ \A i, j \in DOMAIN chain : chain[i] = chain[j] => i = j
  BY <1>1, Ends DEF IInv, TypeOK, ListIntact
<1>3. /\ Len(chain') = Len(chain) - 1
      /\ \A i \in 1..Len(chain) - 1 : chain'[i] = chain[i + 1]
  <2> HIDE DEF PopCasWins
  <2> QED BY <1>2, TailProperties
<1>4. /\ itemsBar' \in Seq(Value) /\ Len(itemsBar') = Len(chain) - 1
      /\ \A i \in 1..Len(chain) - 1 : itemsBar'[i] = data[chain'[i]]
  BY <1>1, <1>3, ItemsAfter
<1>5. /\ itemsBar \in Seq(Value) /\ Len(itemsBar) = Len(chain) /\ Len(chain) \in Nat
      /\ \A i \in 1..Len(chain) : itemsBar[i] = data[chain[i]]
  BY Items
<1>6. /\ itemsBar # <<>> /\ Head(itemsBar) = data[n]
      /\ Tail(itemsBar) \in Seq(Value) /\ Len(Tail(itemsBar)) = Len(chain) - 1
      /\ \A i \in 1..Len(chain) - 1 : Tail(itemsBar)[i] = itemsBar[i + 1]
  <2> HIDE DEF PopCasWins
  <2> QED BY <1>2, <1>5
<1>7. \A i \in 1..Len(chain) - 1 : Tail(itemsBar)[i] = itemsBar'[i]
  <2> SUFFICES ASSUME NEW i \in 1..Len(chain) - 1 PROVE Tail(itemsBar)[i] = itemsBar'[i]
    OBVIOUS
  <2>1. i + 1 \in 1..Len(chain)
    BY <1>5
  <2>2. itemsBar[i + 1] = data[chain[i + 1]]
    BY <2>1, <1>5
  <2> QED BY <2>2, <1>3, <1>4, <1>6
<1>8. itemsBar' = Tail(itemsBar)
  <2> HIDE DEF PopCasWins
  <2> QED BY <1>4, <1>6, <1>7, SeqEqual
<1>9. handBar[t] = None /\ handBar' = [handBar EXCEPT ![t] = data[n]]
  <2>1. /\ \A u \in Thread \ {t} : Result(u)' = Result(u)
        /\ Result(t)' = data[n] /\ Result(t) = None
    BY <1>0, <1>1 DEF Result, IInv, TypeOK, ThreadView, nodes
  <2> QED BY <2>1 DEF handBar
<1> QED BY <1>6, <1>8, <1>9 DEF AS!Pop

(* A pop that takes a reference to a null head finds the stack empty. *)
LEMMA EmptyIsEmpty ==
  ASSUME IInv, NEW t \in Thread, Increase(t), head.node = Null
  PROVE  AS!PopEmpty(t)
<1> USE DEF Increase, Goto
<1>1. chain = <<>> /\ chain' = chain
  BY Ends DEF IInv
<1>2. itemsBar = <<>> /\ itemsBar' = itemsBar
  <2>1. itemsBar' = itemsBar
    BY <1>1 DEF itemsBar, nodes
  <2>2. itemsBar \in Seq(Value) /\ Len(itemsBar) = 0
    BY <1>1, Items
  <2> QED BY <2>1, <2>2
<1>3. /\ \A u \in Thread \ {t} : Result(u)' = Result(u)
      /\ Result(t)' = Empty /\ Result(t) = None
  BY DEF Result, IInv, TypeOK, ThreadView, nodes
<1>4. handBar[t] = None /\ handBar' = [handBar EXCEPT ![t] = Empty]
  <2> HIDE DEF Increase
  <2>1. handBar = [u \in Thread |-> Result(u)] /\ handBar' = [u \in Thread |-> Result(u)']
    BY DEF handBar
  <2>2. \A u \in Thread : Result(u)' = IF u = t THEN Empty ELSE handBar[u]
    BY <1>3, <2>1
  <2> QED BY <1>3, <2>1, <2>2
<1> QED BY <1>2, <1>4 DEF AS!PopEmpty

LEMMA ReturnIsReturn ==
  ASSUME IInv, NEW t \in Thread, Return(t)
  PROVE  AS!Return(t)
<1> USE DEF Return, Goto
<1>1. itemsBar' = itemsBar
  BY DEF itemsBar, nodes
<1>2. /\ \A u \in Thread \ {t} : Result(u)' = Result(u)
      /\ Result(t)' = None /\ Result(t) # None
  BY DEF Result, IInv, TypeOK, ThreadView, nodes
<1>3. handBar[t] # None /\ handBar' = [handBar EXCEPT ![t] = None]
  <2> HIDE DEF Return
  <2>1. handBar = [u \in Thread |-> Result(u)] /\ handBar' = [u \in Thread |-> Result(u)']
    BY DEF handBar
  <2>2. \A u \in Thread : Result(u)' = IF u = t THEN None ELSE handBar[u]
    BY <1>2, <2>1
  <2> QED BY <1>2, <2>1, <2>2
<1> QED BY <1>1, <1>3 DEF AS!Return

(* The value moves from the node to res, out of sight. *)
LEMMA SwapIsInvisible ==
  ASSUME IInv, NEW t \in Thread, SwapData(t)
  PROVE  UNCHANGED <<itemsBar, handBar>>
<1> USE DEF SwapData, Goto
<1>0. PICK n : n = ptr[t]
  OBVIOUS
<1>1. n \in Node \ Linked
  BY <1>0 DEF IInv, TypeOK, ThreadView, OneOwner, Owning
<1>2. \A m \in Linked : data'[m] = data[m]
  BY <1>0, <1>1 DEF IInv, TypeOK
<1>3. ASSUME NEW u \in Thread PROVE Result(u)' = Result(u)
  <2>1. CASE u = t
    BY <2>1 DEF Result, IInv, TypeOK
  <2>2. CASE u # t
    <3>1. pc[u] = "swap" => ptr[u] \in Node /\ ptr[u] # n
      BY <1>0, <2>2 DEF IInv, TypeOK, ThreadView, OneOwner, Owning
    <3> QED BY <1>0, <2>2, <3>1 DEF Result, IInv, TypeOK
  <2> QED BY <2>1, <2>2
<1> QED BY <1>2, <1>3, Invisible

LEMMA BeginPushIsInvisible ==
  ASSUME IInv, NEW t \in Thread, BeginPush(t)
  PROVE  UNCHANGED <<itemsBar, handBar>>
<1> USE DEF BeginPush, Goto
<1>0. PICK n \in Node \ live, v \in Value :
        data' = [data EXCEPT ![n] = v] /\ ptr' = [ptr EXCEPT ![t] = n]
  OBVIOUS
<1>1. \A m \in Linked : data'[m] = data[m]
  BY <1>0 DEF IInv, TypeOK, OneOwner
<1>2. ASSUME NEW u \in Thread PROVE Result(u)' = Result(u)
  <2>1. CASE u = t
    BY <2>1 DEF Result, IInv, TypeOK
  <2>2. CASE u # t
    <3>1. pc[u] = "swap" => ptr[u] \in live
      BY DEF IInv, ThreadView, Owning
    <3> QED BY <1>0, <2>2, <3>1 DEF Result, IInv, TypeOK
  <2> QED BY <2>1, <2>2
<1> QED BY <1>1, <1>2, Invisible

LEMMA OthersAreInvisible ==
  ASSUME IInv, NEW t \in Thread, UNCHANGED <<data, chain, res>>,
         \A u \in Thread \ {t} : pc'[u] = pc[u] /\ ptr'[u] = ptr[u],
         pc[t] # "swap", pc'[t] # "swap"
  PROVE  UNCHANGED <<itemsBar, handBar>>
<1>1. \A u \in Thread : Result(u)' = Result(u)
  BY DEF Result
<1> QED BY <1>1, Invisible

(* The stack of 7.11 is linearizable: every value is popped once, in LIFO  *)
(* order, and a pop that reports an empty stack saw one.                   *)
THEOREM StackIsLinearizable == ASSUME LoserDelta = -1 PROVE Spec => Linearizable
<1>1. Init => AS!Init
  <2> SUFFICES ASSUME Init PROVE AS!Init
    OBVIOUS
  <2>1. IInv
    BY InitIInv
  <2>2. itemsBar = <<>>
    <3>1. chain = <<>>
      BY DEF Init
    <3>2. itemsBar \in Seq(Value) /\ Len(itemsBar) = 0
      BY <2>1, <3>1, Items
    <3> QED BY <3>2
  <2>3. handBar = [t \in Thread |-> None]
    BY DEF Init, handBar, Result
  <2> QED BY <2>2, <2>3 DEF AS!Init
<1>2. IInv /\ IInv' /\ [Next]_vars => [AS!Next]_(AS!vars)
  <2> SUFFICES ASSUME IInv, IInv', [Next]_vars
               PROVE  AS!Next \/ UNCHANGED <<itemsBar, handBar>>
    BY DEF AS!vars
  <2>1. CASE UNCHANGED vars
    BY <2>1 DEF vars, nodes, locals, itemsBar, handBar, Result
  <2>2. CASE Capped
    BY <2>2 DEF Capped, vars, nodes, locals, itemsBar, handBar, Result
  <2>3. ASSUME NEW t \in Thread, BeginPush(t) \/ SwapData(t)
        PROVE  UNCHANGED <<itemsBar, handBar>>
    BY <2>3, BeginPushIsInvisible, SwapIsInvisible
  <2>4. ASSUME NEW t \in Thread,
               PushCas(t) \/ PopCasWins(t) \/ (Increase(t) /\ head.node = Null) \/ Return(t)
        PROVE  AS!Next
    BY <2>4, PushIsPush, PopIsPop, EmptyIsEmpty, ReturnIsReturn DEF AS!Next
  <2>5. ASSUME NEW t \in Thread,
               PopLoad(t) \/ PushLoad(t) \/ ReadNext(t) \/ PopCasLoses(t)
        PROVE  UNCHANGED <<itemsBar, handBar>>
    <3>1. /\ UNCHANGED <<data, chain, res>>
          /\ \A u \in Thread \ {t} : pc'[u] = pc[u] /\ ptr'[u] = ptr[u]
          /\ pc[t] # "swap" /\ pc'[t] # "swap"
      BY <2>5 DEF PopLoad, PushLoad, ReadNext, PopCasLoses, Goto, nodes, locals, IInv, TypeOK
    <3> QED BY <3>1, OthersAreInvisible
  <2>6. ASSUME NEW t \in Thread,
               (Increase(t) /\ head.node # Null) \/ Settle(t) \/ Lose(t) \/ Delete(t)
        PROVE  UNCHANGED <<itemsBar, handBar>>
    <3>1. /\ UNCHANGED <<data, chain, res>>
          /\ \A u \in Thread \ {t} : pc'[u] = pc[u] /\ ptr'[u] = ptr[u]
          /\ pc[t] # "swap" /\ pc'[t] # "swap"
      BY <2>6 DEF Increase, Settle, Lose, Delete, Goto, nodes, locals, IInv, TypeOK
    <3> QED BY <3>1, OthersAreInvisible
  <2> QED BY <2>1, <2>2, <2>3, <2>4, <2>5, <2>6 DEF Next, Step
<1> QED BY <1>1, <1>2, Invariance, PTL DEF Spec, Linearizable, AS!Spec

=============================================================================
