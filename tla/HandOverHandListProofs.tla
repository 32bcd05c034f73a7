----------------------- MODULE HandOverHandListProofs -----------------------
(***************************************************************************)
(* What holds of the list of 6.13 for any number of threads, values and    *)
(* addresses: the list stays in one piece, every node has one owner, no    *)
(* mutex is used after its node has been deleted, and walks are exact.     *)
(***************************************************************************)
EXTENDS HandOverHandList, SequenceTheorems, Integers, TLAPS

USE ListAssumption

-----------------------------------------------------------------------------
(* Sequences: one element more in front, one element less anywhere. *)
LEMMA ConsProperties ==
  ASSUME NEW S, NEW s \in Seq(S), NEW e \in S
  PROVE  /\ <<e>> \o s \in Seq(S)
         /\ Len(<<e>> \o s) = Len(s) + 1
         /\ DOMAIN (<<e>> \o s) = 1..Len(<<e>> \o s)
         /\ <<e>> \o s # <<>> /\ (<<e>> \o s)[1] = e
         /\ \A i \in 1..Len(s) : (<<e>> \o s)[i + 1] = s[i]
         /\ ToSet(<<e>> \o s) = ToSet(s) \cup {e}
<1> DEFINE c == <<e>> \o s
<1>1. /\ c \in Seq(S) /\ Len(c) = Len(s) + 1 /\ DOMAIN c = 1..Len(c) /\ DOMAIN s = 1..Len(s)
      /\ c # <<>> /\ c[1] = e /\ Len(s) \in Nat
      /\ \A i \in 1..Len(s) : c[i + 1] = s[i]
  OBVIOUS
<1> HIDE DEF c
<1>2. \A i \in 2..Len(c) : c[i] = s[i - 1] /\ i - 1 \in 1..Len(s)
  BY <1>1
<1>3. \A i \in 1..Len(c) : i = 1 \/ i \in 2..Len(c)
  BY <1>1
<1>4. \E i \in DOMAIN c : e = c[i]
  BY <1>1
<1>5. ASSUME NEW i \in DOMAIN s PROVE \E j \in DOMAIN c : s[i] = c[j]
  <2>1. i + 1 \in DOMAIN c /\ c[i + 1] = s[i]
    BY <1>1
  <2> QED BY <2>1
<1>6. ASSUME NEW i \in DOMAIN c PROVE c[i] = e \/ \E j \in DOMAIN s : c[i] = s[j]
  BY <1>1, <1>2, <1>3
<1>7. ToSet(c) = ToSet(s) \cup {e}
  BY <1>4, <1>5, <1>6 DEF ToSet
<1> QED BY <1>1, <1>7 DEF c

LEMMA RemoveAtProperties ==
  ASSUME NEW S, NEW s \in Seq(S), NEW p \in 1..Len(s)
  PROVE  /\ RemoveAt(s, p) \in Seq(S)
         /\ Len(RemoveAt(s, p)) = Len(s) - 1
         /\ DOMAIN RemoveAt(s, p) = 1..Len(s) - 1
         /\ \A i \in 1..Len(s) - 1 : RemoveAt(s, p)[i] = IF i < p THEN s[i] ELSE s[i + 1]
<1> DEFINE a == SubSeq(s, 1, p - 1)
           b == SubSeq(s, p + 1, Len(s))
<1>1. a \in Seq(S) /\ Len(a) = p - 1 /\ \A i \in 1..p - 1 : a[i] = s[i]
  OBVIOUS
<1>2. b \in Seq(S) /\ Len(b) = Len(s) - p /\ \A i \in 1..Len(s) - p : b[i] = s[p + i]
  OBVIOUS
<1>3. RemoveAt(s, p) = a \o b
  BY DEF RemoveAt
<1> HIDE DEF a, b
<1>4. a \o b \in Seq(S) /\ Len(a \o b) = Len(s) - 1
  <2>1. a \o b \in Seq(S) /\ Len(a \o b) = Len(a) + Len(b)
    BY <1>1, <1>2, ConcatProperties
  <2>2. Len(s) \in Nat
    OBVIOUS
  <2> QED BY <1>1, <1>2, <2>1, <2>2
<1>5. \A i \in 1..Len(s) - 1 : (a \o b)[i] = IF i <= Len(a) THEN a[i] ELSE b[i - Len(a)]
  BY <1>1, <1>2, ConcatProperties
<1>6. ASSUME NEW i \in 1..Len(s) - 1 PROVE (a \o b)[i] = IF i < p THEN s[i] ELSE s[i + 1]
  <2>1. CASE i < p
    BY <1>1, <1>5, <2>1
  <2>2. CASE ~(i < p)
    <3>1. i - Len(a) \in 1..Len(s) - p /\ p + (i - Len(a)) = i + 1
      BY <1>1, <2>2
    <3> QED BY <1>1, <1>2, <1>5, <2>2, <3>1
  <2> QED BY <2>1, <2>2
<1>7. DOMAIN (a \o b) = 1..Len(s) - 1
  BY <1>4
<1> QED BY <1>3, <1>4, <1>6, <1>7

(* Removing an element that occurs once, or not at all. *)
LEMMA RemoveFirstPresent ==
  ASSUME NEW S, NEW s \in Seq(S), NEW p \in 1..Len(s), \A i \in 1..Len(s) : s[i] = s[p] => i = p
  PROVE  RemoveFirst(s, s[p]) = RemoveAt(s, p)
<1>1. {i \in 1..Len(s) : s[i] = s[p]} = {p}
  OBVIOUS
<1>2. Min({p}) = p
  BY DEF Min
<1>3. SelectInSeq(s, LAMBDA v : v = s[p]) = p
  BY <1>1, <1>2 DEF SelectInSeq
<1> QED BY <1>3 DEF RemoveFirst

LEMMA RemoveFirstAbsent ==
  ASSUME NEW S, NEW s \in Seq(S), NEW e, \A i \in 1..Len(s) : s[i] # e
  PROVE  RemoveFirst(s, e) = s
  BY DEF RemoveFirst

LEMMA RemoveFirstProperties ==
  ASSUME NEW S, NEW s \in Seq(S), NEW p \in 1..Len(s),
         \A i, j \in DOMAIN s : s[i] = s[j] => i = j
  PROVE  /\ RemoveFirst(s, s[p]) \in Seq(S)
         /\ Len(RemoveFirst(s, s[p])) = Len(s) - 1
         /\ DOMAIN RemoveFirst(s, s[p]) = 1..Len(s) - 1
         /\ \A i \in 1..Len(s) - 1 : RemoveFirst(s, s[p])[i] = IF i < p THEN s[i] ELSE s[i + 1]
         /\ ToSet(RemoveFirst(s, s[p])) = ToSet(s) \ {s[p]}
<1> DEFINE r == RemoveAt(s, p)
<1>1. /\ Len(s) \in Nat /\ DOMAIN s = 1..Len(s)
      /\ \A i \in 1..Len(s) : s[i] = s[p] => i = p
  OBVIOUS
<1>2. RemoveFirst(s, s[p]) = r
  BY <1>1, RemoveFirstPresent
<1>3. /\ r \in Seq(S) /\ Len(r) = Len(s) - 1 /\ DOMAIN r = 1..Len(s) - 1
      /\ \A i \in 1..Len(s) - 1 : r[i] = IF i < p THEN s[i] ELSE s[i + 1]
  BY RemoveAtProperties
<1> HIDE DEF r
<1>4. ASSUME NEW i \in 1..Len(s) - 1 PROVE r[i] \in ToSet(s) /\ r[i] # s[p]
  <2>1. i \in 1..Len(s) /\ i + 1 \in 1..Len(s)
    BY <1>1
  <2> QED BY <1>1, <1>3, <2>1 DEF ToSet
<1>5. ASSUME NEW i \in 1..Len(s), i # p PROVE s[i] \in ToSet(r)
  <2>1. CASE i < p
    <3>1. i \in 1..Len(s) - 1 /\ r[i] = s[i]
      BY <1>1, <1>3, <2>1
    <3> QED BY <1>3, <3>1 DEF ToSet
  <2>2. CASE ~(i < p)
    <3>1. i - 1 \in 1..Len(s) - 1 /\ ~(i - 1 < p) /\ (i - 1) + 1 = i
      BY <1>1, <1>5, <2>2
    <3>2. r[i - 1] = s[i]
      BY <1>3, <3>1
    <3> QED BY <1>3, <3>1, <3>2 DEF ToSet
  <2> QED BY <2>1, <2>2
<1>6. ToSet(r) = ToSet(s) \ {s[p]}
  <2>1. ToSet(r) \subseteq ToSet(s) \ {s[p]}
    BY <1>3, <1>4 DEF ToSet
  <2>2. ToSet(s) \ {s[p]} \subseteq ToSet(r)
    <3>1. ASSUME NEW x \in ToSet(s) \ {s[p]} PROVE x \in ToSet(r)
      <4>1. PICK i \in 1..Len(s) : x = s[i] /\ i # p
        BY <1>1 DEF ToSet
      <4> QED BY <4>1, <1>5
    <3> QED BY <3>1
  <2> QED BY <2>1, <2>2
<1> QED BY <1>2, <1>3, <1>6

-----------------------------------------------------------------------------
(* The list. *)
LEMMA Shape ==
  ASSUME TypeOK, ListIntact, Ownership
  PROVE  /\ Len(chain) \in Nat /\ DOMAIN chain = 1..Len(chain)
         /\ Linked \subseteq Node /\ Linked \subseteq live
         /\ \A i \in 1..Len(chain) : chain[i] \in Linked
         /\ \A n \in Linked : \E i \in 1..Len(chain) : n = chain[i]
         /\ \A t \in Thread : mine[t] # Null => mine[t] \in live \ Linked
         /\ chain = <<>> <=> Len(chain) = 0
<1>1. /\ Len(chain) \in Nat /\ DOMAIN chain = 1..Len(chain) /\ (chain = <<>> <=> Len(chain) = 0)
      /\ \A i \in 1..Len(chain) : chain[i] \in Node
  BY DEF TypeOK
<1>2. /\ \A i \in 1..Len(chain) : chain[i] \in Linked
      /\ \A n \in Linked : \E i \in 1..Len(chain) : n = chain[i]
  BY <1>1 DEF Linked, ToSet
<1>3. Linked \subseteq Node
  BY <1>1, <1>2
<1>4. Linked \subseteq live /\ \A t \in Thread : mine[t] # Null => mine[t] \in live \ Linked
  BY <1>3 DEF Ownership, TypeOK
<1> QED BY <1>1, <1>2, <1>3, <1>4

(* m_next leads to another linked node, and from one place only. *)
LEMMA NextFacts ==
  ASSUME TypeOK, ListIntact, Ownership
  PROVE  /\ \A c \in Linked \cup {Start} : next[c] # Null => next[c] \in Linked /\ next[c] # c
         /\ \A c, d \in Linked \cup {Start} : next[c] = next[d] /\ next[c] # Null => c = d
<1>1. Start \notin Linked /\ Null \notin Linked /\ Linked \subseteq Node
  BY Shape, ListAssumption DEF ListAssumption
<1>2. next[Start] # Null => 1 \in 1..Len(chain) /\ next[Start] = chain[1]
  BY Shape DEF ListIntact
<1>3. ASSUME NEW i \in 1..Len(chain), next[chain[i]] # Null
      PROVE  i + 1 \in 1..Len(chain) /\ next[chain[i]] = chain[i + 1]
  BY <1>3, Shape DEF ListIntact
<1>4. ASSUME NEW c \in Linked \cup {Start}, next[c] # Null
      PROVE  next[c] \in Linked /\ next[c] # c
  <2>1. CASE c = Start
    BY <1>1, <1>2, <1>4, <2>1, Shape
  <2>2. CASE c # Start
    <3>1. PICK i \in 1..Len(chain) : c = chain[i]
      BY <2>2, Shape
    <3>2. i + 1 \in 1..Len(chain) /\ next[c] = chain[i + 1]
      BY <1>3, <1>4, <3>1
    <3>3. chain[i + 1] # chain[i]
      BY <3>2, Shape DEF ListIntact
    <3> QED BY <3>1, <3>2, <3>3, Shape
  <2> QED BY <2>1, <2>2
<1>5. ASSUME NEW c \in Linked \cup {Start}, NEW d \in Linked \cup {Start},
             next[c] = next[d], next[c] # Null
      PROVE  c = d
  <2>1. ASSUME NEW e \in Linked PROVE next[e] # next[Start] \/ next[e] = Null
    <3>1. PICK i \in 1..Len(chain) : e = chain[i]
      BY Shape
    <3>2. next[e] # Null => i + 1 \in 1..Len(chain) /\ next[e] = chain[i + 1]
      BY <1>3, <3>1
    <3>3. i + 1 # 1
      BY Shape
    <3> QED BY <1>2, <3>2, <3>3, Shape DEF ListIntact
  <2>2. CASE c = Start \/ d = Start
    BY <1>5, <2>1, <2>2
  <2>3. CASE c # Start /\ d # Start
    <3>1. PICK i \in 1..Len(chain), j \in 1..Len(chain) : c = chain[i] /\ d = chain[j]
      BY <2>3, Shape
    <3>2. /\ i + 1 \in 1..Len(chain) /\ next[c] = chain[i + 1]
          /\ j + 1 \in 1..Len(chain) /\ next[d] = chain[j + 1]
      BY <1>3, <1>5, <3>1
    <3>3. \A k, m \in 1..Len(chain) : chain[k] = chain[m] => k = m
      BY Shape DEF ListIntact
    <3>4. i + 1 = j + 1
      BY <1>5, <3>2, <3>3
    <3> QED BY <3>1, <3>4
  <2> QED BY <2>2, <2>3
<1> QED BY <1>4, <1>5

(* The mutexes held are those of nodes that exist, and nobody else's. *)
LEMMA LockFacts ==
  ASSUME IInv, NEW t \in Thread
  PROVE  /\ Locks(t) \subseteq live \cup {Start} /\ Locks(t) \subseteq Place
         /\ \A n \in Locks(t) : owner[n] = t
         /\ \A u \in Thread \ {t} : Locks(t) \cap Locks(u) = {}
<1>1. ASSUME NEW u \in Thread PROVE Locks(u) \subseteq live \cup {Start}
  <2>1. Linked \subseteq live /\ (mine[u] # Null => mine[u] \in live)
    BY Shape DEF IInv
  <2>2. pc[u] \in {"read_next", "lock_next", "unlock", "test", "unlock_next", "destroy"} =>
          current[u] \in live \cup {Start}
    BY <2>1 DEF IInv, WalkView
  <2>3. pc[u] \in {"unlock", "test", "visit"} => succ[u] \in live
    BY <2>1 DEF IInv, WalkView
  <2>4. pc[u] = "unlock_next" => succ[u] \in live
    BY <2>1 DEF IInv, WalkView, LocalView
  <2> QED BY <2>2, <2>3, <2>4 DEF Locks
<1>2. live \subseteq Node
  BY DEF IInv, TypeOK
<1>3. \A u \in Thread : Locks(u) \subseteq Place
  BY <1>1, <1>2 DEF Place
<1> QED BY <1>1, <1>3 DEF IInv, LocksHeld

(* What f and p see of a linked node is an element. *)
LEMMA ElementFacts ==
  ASSUME IInv, NEW n \in Linked
  PROVE  Element(n) \in [id : Node, value : Value] /\ Element(n) # None
<1>1. n \in Node /\ data[n] \in Value
  BY Shape DEF IInv, LiveData
<1>2. Element(n) \in [id : Node, value : Value]
  BY <1>1 DEF Element
<1> QED BY <1>2, ListAssumption DEF ListAssumption

(* A new list. *)
LEMMA InitIInv == Init => IInv
<1> SUFFICES ASSUME Init PROVE IInv
  OBVIOUS
<1> USE DEF Init
<1>1. TypeOK
  BY DEF TypeOK, Label, Place
<1>2. ListIntact /\ Linked = {}
  <2>1. Linked = {}
    BY DEF Linked, ToSet
  <2>2. next[Start] = Null /\ DOMAIN chain = {}
    BY DEF Place
  <2> QED BY <2>1, <2>2 DEF ListIntact
<1>3. Ownership /\ LiveData
  BY <1>2, ListAssumption DEF Ownership, LiveData, Place, ListAssumption
<1>4. LocksHeld
  BY ListAssumption DEF LocksHeld, Locks, ListAssumption
<1>5. WalkView /\ LocalView
  BY DEF WalkView, LocalView
<1> QED BY <1>1, <1>2, <1>3, <1>4, <1>5 DEF IInv

(* A step of a walk that leaves the nodes alone. *)
LEMMA WalkStep ==
  ASSUME IInv, TypeOK', NEW t \in Thread, UNCHANGED nodes, mine' = mine,
         \A u \in Thread \ {t} : /\ pc'[u] = pc[u] /\ op'[u] = op[u] /\ current'[u] = current[u]
                                 /\ succ'[u] = succ[u] /\ res'[u] = res[u] /\ met'[u] = met[u],
         \A n \in Place : owner'[n] = IF n \in Locks(t)' THEN t
                                      ELSE IF owner[n] = t THEN Null ELSE owner[n],
         \A n \in Locks(t)' : n \in Locks(t) \/ (n \in Linked \cup {Start} /\ owner[n] = Null),
         WalkView!(t)', LocalView!(t)'
  PROVE  IInv'
<1> USE DEF nodes
<1>a. Linked' = Linked /\ Linked \subseteq live /\ live \subseteq Node
  BY Shape DEF IInv, Linked, TypeOK
<1>b. Null \notin Thread /\ Start \notin Node
  BY ListAssumption DEF ListAssumption
<1>c. \A n \in Locks(t)' : owner[n] \in {t, Null}
  BY LockFacts
<1>d. \A u \in Thread \ {t} : Locks(u)' = Locks(u)
  BY DEF Locks
<1>e. \A n \in Node \ live : n \notin Locks(t)'
  BY <1>a, <1>b, LockFacts
<1>f. \A u \in Thread : mine[u] # Null => mine[u] \in Node /\ mine[u] \notin Linked
  BY <1>a, Shape DEF IInv
<1>1. ListIntact' /\ Ownership'
  BY <1>a DEF IInv, ListIntact, Ownership
<1>2. LiveData'
  <2>1. ASSUME NEW n \in Node \ live PROVE owner'[n] = Null
    BY <1>e DEF IInv, LiveData, Place
  <2> QED BY <2>1 DEF IInv, LiveData
<1>3. LocksHeld'
  <2> SUFFICES ASSUME NEW u \in Thread, NEW n \in Place
               PROVE  owner'[n] = u <=> n \in Locks(u)'
    BY DEF LocksHeld
  <2>1. CASE u = t
    BY <1>b, <2>1
  <2>2. CASE u # t
    <3>1. n \in Locks(u) <=> owner[n] = u
      BY DEF IInv, LocksHeld
    <3>2. owner'[n] = u <=> owner[n] = u
      BY <1>b, <1>c, <2>2
    <3> QED BY <1>d, <2>2, <3>1, <3>2
  <2> QED BY <2>1, <2>2
<1>4. WalkView'
  <2> SUFFICES ASSUME NEW u \in Thread \ {t} PROVE WalkView!(u)'
    BY DEF WalkView
  <2> QED BY <1>a DEF IInv, WalkView
<1>5. LocalView'
  <2> SUFFICES ASSUME NEW u \in Thread \ {t} PROVE LocalView!(u)'
    BY DEF LocalView
  <2>1. ASSUME pc[u] # "unlock_next", mine[u] # Null PROVE owner'[mine[u]] = Null
    <3>1. owner[mine[u]] = Null /\ mine[u] \in Place /\ mine[u] # Start
      BY <1>b, <1>f, <2>1 DEF IInv, LocalView, Place
    <3>2. mine[u] \notin Locks(t)
      BY <1>b, <3>1, LockFacts
    <3> QED BY <1>f, <2>1, <3>1, <3>2
  <2> QED BY <2>1 DEF IInv, LocalView
<1> QED BY <1>1, <1>2, <1>3, <1>4, <1>5 DEF IInv

(* The steps of a walk, each with the mutexes before and after it. *)
LEMMA BeginWalkStep ==
  ASSUME IInv, NEW t \in Thread, BeginWalk(t)
  PROVE  IInv'
<1> USE DEF BeginWalk, Goto, nodes, locals
<1>a. \A u \in Thread \ {t} : /\ pc'[u] = pc[u] /\ op'[u] = op[u] /\ current'[u] = current[u]
                              /\ succ'[u] = succ[u] /\ res'[u] = res[u] /\ met'[u] = met[u]
  OBVIOUS
<1>b. /\ pc[t] = "idle" /\ pc'[t] = "lock_start" /\ op'[t] \in WalkOp
      /\ UNCHANGED <<owner, current, succ, res, met>>
  BY DEF IInv, TypeOK
<1>c. mine[t] = Null /\ op'[t] \notin {"push_front", "none"} /\ current[t] = Start
  BY <1>b, Shape, NextFacts, ListAssumption DEF IInv, TypeOK, WalkView, LocalView, Place, ListAssumption, WalkOp
<1>d. Locks(t) = {} /\ Locks(t)' = {}
  BY <1>b, <1>c DEF Locks
<1>1. TypeOK'
  BY <1>b, <1>c DEF IInv, TypeOK, Label
<1>2. \A n \in Place : owner'[n] = IF n \in Locks(t)' THEN t
                                   ELSE IF owner[n] = t THEN Null ELSE owner[n]
  BY <1>b, <1>c, <1>d DEF IInv, TypeOK, LocksHeld
<1>3. \A n \in Locks(t)' : n \in Locks(t) \/ (n \in Linked \cup {Start} /\ owner[n] = Null)
  BY <1>b, <1>c, <1>d
<1>4. WalkView!(t)'
  <2>1. Linked' = Linked
    BY DEF Linked
  <2> QED BY <1>b, <1>c, <2>1 DEF IInv, WalkView
<1>5. LocalView!(t)'
  BY <1>b, <1>c DEF IInv, LocalView
<1>6. mine' = mine
  BY <1>c DEF IInv, TypeOK
<1> QED BY <1>a, <1>1, <1>2, <1>3, <1>4, <1>5, <1>6, WalkStep

LEMMA LockStartStep ==
  ASSUME IInv, NEW t \in Thread, LockStart(t)
  PROVE  IInv'
<1> USE DEF LockStart, Goto, nodes, locals
<1>a. \A u \in Thread \ {t} : /\ pc'[u] = pc[u] /\ op'[u] = op[u] /\ current'[u] = current[u]
                              /\ succ'[u] = succ[u] /\ res'[u] = res[u] /\ met'[u] = met[u]
  OBVIOUS
<1>b. /\ pc[t] = "lock_start" /\ owner[Start] = Null /\ op' = op
      /\ pc'[t] = IF op[t] = "push_front" THEN "link" ELSE "read_next"
      /\ \A n \in Place : owner'[n] = IF n = Start THEN t ELSE owner[n]
  BY DEF IInv, TypeOK
<1>c. /\ current[t] = Start /\ op[t] # "none"
      /\ (op[t] = "push_front" <=> mine[t] # Null)
      /\ mine[t] # Null => mine[t] \in Node /\ mine[t] # Start /\ owner[mine[t]] = Null
  BY <1>b, Shape, NextFacts, ListAssumption DEF IInv, TypeOK, WalkView, LocalView, Place, ListAssumption
<1>d. Locks(t) = {} /\ Locks(t)' = {Start}
  BY <1>b, <1>c DEF Locks
<1>1. TypeOK'
  BY <1>b, <1>c DEF IInv, TypeOK, Label
<1>2. \A n \in Place : owner'[n] = IF n \in Locks(t)' THEN t
                                   ELSE IF owner[n] = t THEN Null ELSE owner[n]
  BY <1>b, <1>c, <1>d DEF IInv, TypeOK, LocksHeld
<1>3. \A n \in Locks(t)' : n \in Locks(t) \/ (n \in Linked \cup {Start} /\ owner[n] = Null)
  BY <1>b, <1>c, <1>d
<1>4. WalkView!(t)'
  <2>1. Linked' = Linked
    BY DEF Linked
  <2> QED BY <1>b, <1>c, <2>1 DEF IInv, WalkView
<1>5. LocalView!(t)'
  BY <1>b, <1>c DEF IInv, LocalView
<1>6. mine' = mine
  BY <1>c DEF IInv, TypeOK
<1> QED BY <1>a, <1>1, <1>2, <1>3, <1>4, <1>5, <1>6, WalkStep

LEMMA ReadNextStep ==
  ASSUME IInv, NEW t \in Thread, ReadNext(t)
  PROVE  IInv'
<1> USE DEF ReadNext, Goto, nodes, locals
<1>a. \A u \in Thread \ {t} : /\ pc'[u] = pc[u] /\ op'[u] = op[u] /\ current'[u] = current[u]
                              /\ succ'[u] = succ[u] /\ res'[u] = res[u] /\ met'[u] = met[u]
  OBVIOUS
<1>b. /\ pc[t] = "read_next" /\ pc'[t] = "lock_next" /\ succ'[t] = next[current[t]]
      /\ next[current[t]] # Null /\ UNCHANGED <<owner, current, op, res, met>>
  BY DEF IInv, TypeOK
<1>c. /\ succ'[t] \in Linked /\ current[t] \in Linked \cup {Start} /\ succ'[t] \in Node
      /\ current[t] \in Place
  BY <1>b, Shape, NextFacts, ListAssumption DEF IInv, TypeOK, WalkView, LocalView, Place, ListAssumption
<1>d. Locks(t) = {current[t]} /\ Locks(t)' = {current[t]}
  BY <1>b, <1>c DEF Locks
<1>1. TypeOK'
  BY <1>b, <1>c DEF IInv, TypeOK, Label
<1>2. \A n \in Place : owner'[n] = IF n \in Locks(t)' THEN t
                                   ELSE IF owner[n] = t THEN Null ELSE owner[n]
  BY <1>b, <1>c, <1>d DEF IInv, TypeOK, LocksHeld
<1>3. \A n \in Locks(t)' : n \in Locks(t) \/ (n \in Linked \cup {Start} /\ owner[n] = Null)
  BY <1>b, <1>c, <1>d
<1>4. WalkView!(t)'
  <2>1. Linked' = Linked
    BY DEF Linked
  <2> QED BY <1>b, <1>c, <2>1 DEF IInv, WalkView
<1>5. LocalView!(t)'
  BY <1>b, <1>c DEF IInv, LocalView
<1>6. mine' = mine
  BY <1>c DEF IInv, TypeOK
<1> QED BY <1>a, <1>1, <1>2, <1>3, <1>4, <1>5, <1>6, WalkStep

LEMMA LockNextStep ==
  ASSUME IInv, NEW t \in Thread, LockNext(t)
  PROVE  IInv'
<1> USE DEF LockNext, Goto, nodes, locals
<1>a. \A u \in Thread \ {t} : /\ pc'[u] = pc[u] /\ op'[u] = op[u] /\ current'[u] = current[u]
                              /\ succ'[u] = succ[u] /\ res'[u] = res[u] /\ met'[u] = met[u]
  OBVIOUS
<1>b. /\ pc[t] = "lock_next" /\ op' = op /\ UNCHANGED <<current, succ, res, met>>
      /\ pc'[t] = IF op[t] = "remove_if" THEN "test" ELSE "unlock"
      /\ \A n \in Place : owner'[n] = IF n = succ[t] THEN t ELSE owner[n]
      /\ owner[succ[t]] = Null
  BY DEF IInv, TypeOK
<1>c. /\ succ[t] \in Linked /\ succ[t] \in Node /\ succ[t] \in Place
      /\ mine[t] = Null /\ op[t] \notin {"none", "push_front"}
      /\ op[t] # "remove_if" => op[t] \in {"for_each", "find_first_if"}
  BY <1>b, Shape, NextFacts, ListAssumption DEF IInv, TypeOK, WalkView, LocalView, Place, ListAssumption, WalkOp
<1>d. Locks(t) = {current[t]} /\ Locks(t)' = {current[t], succ[t]}
  BY <1>b, <1>c DEF Locks
<1>1. TypeOK'
  BY <1>b, <1>c DEF IInv, TypeOK, Label
<1>2. \A n \in Place : owner'[n] = IF n \in Locks(t)' THEN t
                                   ELSE IF owner[n] = t THEN Null ELSE owner[n]
  BY <1>b, <1>c, <1>d DEF IInv, TypeOK, LocksHeld
<1>3. \A n \in Locks(t)' : n \in Locks(t) \/ (n \in Linked \cup {Start} /\ owner[n] = Null)
  BY <1>b, <1>c, <1>d
<1>4. WalkView!(t)'
  <2>1. Linked' = Linked
    BY DEF Linked
  <2> QED BY <1>b, <1>c, <2>1 DEF IInv, WalkView
<1>5. LocalView!(t)'
  BY <1>b, <1>c DEF IInv, LocalView
<1>6. mine' = mine
  BY <1>c DEF IInv, TypeOK
<1> QED BY <1>a, <1>1, <1>2, <1>3, <1>4, <1>5, <1>6, WalkStep

LEMMA UnlockCurrentStep ==
  ASSUME IInv, NEW t \in Thread, UnlockCurrent(t)
  PROVE  IInv'
<1> USE DEF UnlockCurrent, Goto, nodes, locals
<1>a. \A u \in Thread \ {t} : /\ pc'[u] = pc[u] /\ op'[u] = op[u] /\ current'[u] = current[u]
                              /\ succ'[u] = succ[u] /\ res'[u] = res[u] /\ met'[u] = met[u]
  OBVIOUS
<1>b. /\ pc[t] = "unlock" /\ pc'[t] = "visit" /\ UNCHANGED <<current, succ, op, res, met>>
      /\ \A n \in Place : owner'[n] = IF n = current[t] THEN Null ELSE owner[n]
  BY DEF IInv, TypeOK
<1>c. /\ succ[t] \in Linked /\ succ[t] \in Place /\ succ[t] \in Node
      /\ current[t] \in Place /\ succ[t] # current[t] /\ mine[t] = Null
  BY <1>b, Shape, NextFacts, ListAssumption DEF IInv, TypeOK, WalkView, LocalView, Place, ListAssumption
<1>d. Locks(t) = {current[t], succ[t]} /\ Locks(t)' = {succ[t]}
  BY <1>b, <1>c DEF Locks
<1>1. TypeOK'
  BY <1>b, <1>c DEF IInv, TypeOK, Label
<1>2. \A n \in Place : owner'[n] = IF n \in Locks(t)' THEN t
                                   ELSE IF owner[n] = t THEN Null ELSE owner[n]
  BY <1>b, <1>c, <1>d DEF IInv, TypeOK, LocksHeld
<1>3. \A n \in Locks(t)' : n \in Locks(t) \/ (n \in Linked \cup {Start} /\ owner[n] = Null)
  BY <1>b, <1>c, <1>d
<1>4. WalkView!(t)'
  <2>1. Linked' = Linked
    BY DEF Linked
  <2> QED BY <1>b, <1>c, <2>1 DEF IInv, WalkView
<1>5. LocalView!(t)'
  BY <1>b, <1>c DEF IInv, LocalView
<1>6. mine' = mine
  BY <1>c DEF IInv, TypeOK
<1> QED BY <1>a, <1>1, <1>2, <1>3, <1>4, <1>5, <1>6, WalkStep

LEMMA VisitStep ==
  ASSUME IInv, NEW t \in Thread, Visit(t)
  PROVE  IInv'
<1> USE DEF Visit, Goto, nodes, locals, Advance, Meet
<1>a. \A u \in Thread \ {t} : /\ pc'[u] = pc[u] /\ op'[u] = op[u] /\ current'[u] = current[u]
                              /\ succ'[u] = succ[u] /\ res'[u] = res[u] /\ met'[u] = met[u]
  OBVIOUS
<1>b. /\ pc[t] = "visit" /\ pc'[t] = "read_next" /\ current'[t] = succ[t]
      /\ UNCHANGED <<owner, succ, op, res>>
  BY DEF IInv, TypeOK
<1>e. succ[t] \in Linked
  BY <1>b DEF IInv, WalkView
<1>c. /\ succ[t] \in Linked /\ succ[t] \in Node /\ succ[t] \in Place /\ mine[t] = Null
      /\ Element(succ[t]) \in [id : Node, value : Value]
  BY <1>b, <1>e, ElementFacts, Shape, NextFacts, ListAssumption DEF IInv, TypeOK, WalkView, LocalView, Place, ListAssumption
<1>d. Locks(t) = {succ[t]} /\ Locks(t)' = {succ[t]}
  BY <1>b, <1>c DEF Locks
<1>1. TypeOK'
  BY <1>b, <1>c DEF IInv, TypeOK, Label
<1>2. \A n \in Place : owner'[n] = IF n \in Locks(t)' THEN t
                                   ELSE IF owner[n] = t THEN Null ELSE owner[n]
  BY <1>b, <1>c, <1>d DEF IInv, TypeOK, LocksHeld
<1>3. \A n \in Locks(t)' : n \in Locks(t) \/ (n \in Linked \cup {Start} /\ owner[n] = Null)
  BY <1>b, <1>c, <1>d
<1>4. WalkView!(t)'
  <2>1. Linked' = Linked
    BY DEF Linked
  <2> QED BY <1>b, <1>c, <2>1 DEF IInv, WalkView
<1>5. LocalView!(t)'
  BY <1>b, <1>c DEF IInv, LocalView
<1>6. mine' = mine
  BY <1>c DEF IInv, TypeOK
<1> QED BY <1>a, <1>1, <1>2, <1>3, <1>4, <1>5, <1>6, WalkStep

LEMMA FindStep ==
  ASSUME IInv, NEW t \in Thread, Find(t)
  PROVE  IInv'
<1> USE DEF Find, Goto, nodes, locals, Meet
<1>a. \A u \in Thread \ {t} : /\ pc'[u] = pc[u] /\ op'[u] = op[u] /\ current'[u] = current[u]
                              /\ succ'[u] = succ[u] /\ res'[u] = res[u] /\ met'[u] = met[u]
  OBVIOUS
<1>b. /\ pc[t] = "visit" /\ pc'[t] = "return" /\ res'[t] = Element(succ[t])
      /\ UNCHANGED <<succ, op, current>>
      /\ \A n \in Place : owner'[n] = IF n = succ[t] THEN Null ELSE owner[n]
  BY DEF IInv, TypeOK
<1>e. succ[t] \in Linked
  BY <1>b DEF IInv, WalkView
<1>c. /\ succ[t] \in Linked /\ succ[t] \in Node /\ succ[t] \in Place /\ mine[t] = Null
      /\ Element(succ[t]) \in [id : Node, value : Value] /\ Element(succ[t]) # None
  BY <1>b, <1>e, ElementFacts, Shape, NextFacts, ListAssumption DEF IInv, TypeOK, WalkView, LocalView, Place, ListAssumption
<1>d. Locks(t) = {succ[t]} /\ Locks(t)' = {}
  BY <1>b, <1>c DEF Locks
<1>1. TypeOK'
  BY <1>b, <1>c DEF IInv, TypeOK, Label
<1>2. \A n \in Place : owner'[n] = IF n \in Locks(t)' THEN t
                                   ELSE IF owner[n] = t THEN Null ELSE owner[n]
  BY <1>b, <1>c, <1>d DEF IInv, TypeOK, LocksHeld
<1>3. \A n \in Locks(t)' : n \in Locks(t) \/ (n \in Linked \cup {Start} /\ owner[n] = Null)
  BY <1>b, <1>c, <1>d
<1>4. WalkView!(t)'
  <2>1. Linked' = Linked
    BY DEF Linked
  <2> QED BY <1>b, <1>c, <2>1 DEF IInv, WalkView
<1>5. LocalView!(t)'
  BY <1>b, <1>c DEF IInv, LocalView
<1>6. mine' = mine
  BY <1>c DEF IInv, TypeOK
<1> QED BY <1>a, <1>1, <1>2, <1>3, <1>4, <1>5, <1>6, WalkStep

LEMMA ReturnStep ==
  ASSUME IInv, NEW t \in Thread, Return(t)
  PROVE  IInv'
<1> USE DEF Return, Goto, nodes, locals, Leave
<1>a. \A u \in Thread \ {t} : /\ pc'[u] = pc[u] /\ op'[u] = op[u] /\ current'[u] = current[u]
                              /\ succ'[u] = succ[u] /\ res'[u] = res[u] /\ met'[u] = met[u]
  OBVIOUS
<1>b. /\ pc[t] = "return" /\ pc'[t] = "idle" /\ op'[t] = "none" /\ current'[t] = Start
      /\ met'[t] = None /\ res'[t] = None /\ owner' = owner
  BY DEF IInv, TypeOK
<1>c. mine[t] = Null
  BY <1>b, Shape, NextFacts, ListAssumption DEF IInv, TypeOK, WalkView, LocalView, Place, ListAssumption
<1>d. Locks(t) = {} /\ Locks(t)' = {}
  BY <1>b, <1>c DEF Locks
<1>1. TypeOK'
  <2>1. owner' \in [Place -> Thread \cup {Null}]
    BY <1>c DEF IInv, TypeOK
  <2>2. pc' \in [Thread -> Label] /\ op' \in [Thread -> WalkOp \cup {"push_front", "none"}]
    BY DEF IInv, TypeOK, Label
  <2>3. current' \in [Thread -> Place] /\ succ' \in [Thread -> Node \cup {Null}]
    BY DEF IInv, TypeOK, Place
  <2>4. mine' \in [Thread -> Node \cup {Null}]
    BY DEF IInv, TypeOK
  <2>5. /\ res' \in [Thread -> [id : Node, value : Value] \cup {None, Thrown}]
        /\ met' \in [Thread -> [id : Node, value : Value] \cup {None}]
    BY DEF IInv, TypeOK
  <2>6. \A u \in Thread : pc'[u] \in {"lock_next", "unlock", "visit", "test"} => succ'[u] \in Node
    BY <1>a, <1>b DEF IInv, TypeOK
  <2> QED BY <2>1, <2>2, <2>3, <2>4, <2>5, <2>6 DEF IInv, TypeOK
<1>2. \A n \in Place : owner'[n] = IF n \in Locks(t)' THEN t
                                   ELSE IF owner[n] = t THEN Null ELSE owner[n]
  BY <1>b, <1>c, <1>d DEF IInv, TypeOK, LocksHeld
<1>3. \A n \in Locks(t)' : n \in Locks(t) \/ (n \in Linked \cup {Start} /\ owner[n] = Null)
  BY <1>b, <1>c, <1>d
<1>4. WalkView!(t)'
  <2>1. Linked' = Linked
    BY DEF Linked
  <2> QED BY <1>b, <1>c, <2>1 DEF IInv, WalkView
<1>5. LocalView!(t)'
  BY <1>b, <1>c DEF IInv, LocalView
<1>6. mine' = mine
  BY <1>c DEF IInv, TypeOK
<1> QED BY <1>a, <1>1, <1>2, <1>3, <1>4, <1>5, <1>6, WalkStep

LEMMA KeepStep ==
  ASSUME IInv, NEW t \in Thread, Keep(t)
  PROVE  IInv'
<1> USE DEF Keep, Goto, nodes, locals, Advance, Meet
<1>a. \A u \in Thread \ {t} : /\ pc'[u] = pc[u] /\ op'[u] = op[u] /\ current'[u] = current[u]
                              /\ succ'[u] = succ[u] /\ res'[u] = res[u] /\ met'[u] = met[u]
  OBVIOUS
<1>b. /\ pc[t] = "test" /\ pc'[t] = "read_next" /\ current'[t] = succ[t]
      /\ UNCHANGED <<succ, op, res>>
      /\ \A n \in Place : owner'[n] = IF n = current[t] THEN Null ELSE owner[n]
  BY DEF IInv, TypeOK
<1>e. succ[t] \in Linked
  BY <1>b DEF IInv, WalkView
<1>c. /\ succ[t] \in Linked /\ succ[t] \in Node /\ succ[t] \in Place /\ mine[t] = Null
      /\ current[t] \in Place /\ succ[t] # current[t]
      /\ Element(succ[t]) \in [id : Node, value : Value]
  BY <1>b, <1>e, ElementFacts, Shape, NextFacts, ListAssumption DEF IInv, TypeOK, WalkView, LocalView, Place, ListAssumption
<1>d. Locks(t) = {current[t], succ[t]} /\ Locks(t)' = {succ[t]}
  BY <1>b, <1>c DEF Locks
<1>1. TypeOK'
  BY <1>b, <1>c DEF IInv, TypeOK, Label
<1>2. \A n \in Place : owner'[n] = IF n \in Locks(t)' THEN t
                                   ELSE IF owner[n] = t THEN Null ELSE owner[n]
  BY <1>b, <1>c, <1>d DEF IInv, TypeOK, LocksHeld
<1>3. \A n \in Locks(t)' : n \in Locks(t) \/ (n \in Linked \cup {Start} /\ owner[n] = Null)
  BY <1>b, <1>c, <1>d
<1>4. WalkView!(t)'
  <2>1. Linked' = Linked
    BY DEF Linked
  <2> QED BY <1>b, <1>c, <2>1 DEF IInv, WalkView
<1>5. LocalView!(t)'
  BY <1>b, <1>c DEF IInv, LocalView
<1>6. mine' = mine
  BY <1>c DEF IInv, TypeOK
<1> QED BY <1>a, <1>1, <1>2, <1>3, <1>4, <1>5, <1>6, WalkStep

LEMMA UnlockNextStep ==
  ASSUME IInv, NEW t \in Thread, UnlockNext(t)
  PROVE  IInv'
<1> USE DEF UnlockNext, Goto, nodes, locals
<1>a. \A u \in Thread \ {t} : /\ pc'[u] = pc[u] /\ op'[u] = op[u] /\ current'[u] = current[u]
                              /\ succ'[u] = succ[u] /\ res'[u] = res[u] /\ met'[u] = met[u]
  OBVIOUS
<1>b. /\ pc[t] = "unlock_next" /\ pc'[t] = "destroy" /\ UNCHANGED <<current, succ, op, res, met>>
      /\ \A n \in Place : owner'[n] = IF n = succ[t] THEN Null ELSE owner[n]
  BY DEF IInv, TypeOK
<1>c. /\ succ[t] = mine[t] /\ succ[t] \in Place /\ mine[t] \in Node
      /\ current[t] \in Place /\ succ[t] # current[t]
  BY <1>b, Shape, NextFacts, ListAssumption DEF IInv, TypeOK, WalkView, LocalView, Place, ListAssumption
<1>d. Locks(t) = {current[t], succ[t]} /\ Locks(t)' = {current[t]}
  BY <1>b, <1>c DEF Locks
<1>1. TypeOK'
  BY <1>b, <1>c DEF IInv, TypeOK, Label
<1>2. \A n \in Place : owner'[n] = IF n \in Locks(t)' THEN t
                                   ELSE IF owner[n] = t THEN Null ELSE owner[n]
  BY <1>b, <1>c, <1>d DEF IInv, TypeOK, LocksHeld
<1>3. \A n \in Locks(t)' : n \in Locks(t) \/ (n \in Linked \cup {Start} /\ owner[n] = Null)
  BY <1>b, <1>c, <1>d
<1>4. WalkView!(t)'
  <2>1. Linked' = Linked
    BY DEF Linked
  <2> QED BY <1>b, <1>c, <2>1 DEF IInv, WalkView
<1>5. LocalView!(t)'
  BY <1>b, <1>c DEF IInv, LocalView
<1>6. mine' = mine
  BY <1>c DEF IInv, TypeOK
<1> QED BY <1>a, <1>1, <1>2, <1>3, <1>4, <1>5, <1>6, WalkStep

LEMMA EndOfListStep ==
  ASSUME IInv, NEW t \in Thread, EndOfList(t)
  PROVE  IInv'
<1> USE DEF EndOfList, Goto, nodes, locals, Leave
<1>a. \A u \in Thread \ {t} : /\ pc'[u] = pc[u] /\ op'[u] = op[u] /\ current'[u] = current[u]
                              /\ succ'[u] = succ[u] /\ res'[u] = res[u] /\ met'[u] = met[u]
  OBVIOUS
<1>b. /\ pc[t] = "read_next" /\ pc'[t] = "idle" /\ op'[t] = "none" /\ current'[t] = Start
      /\ met'[t] = None /\ res'[t] = None
      /\ \A n \in Place : owner'[n] = IF n = current[t] THEN Null ELSE owner[n]
  BY DEF IInv, TypeOK
<1>c. /\ mine[t] = Null /\ current[t] \in Place
  BY <1>b, Shape, NextFacts, ListAssumption DEF IInv, TypeOK, WalkView, LocalView, Place, ListAssumption
<1>d. Locks(t) = {current[t]} /\ Locks(t)' = {}
  BY <1>b, <1>c DEF Locks
<1>1. TypeOK'
  <2>1. owner' \in [Place -> Thread \cup {Null}]
    BY <1>c DEF IInv, TypeOK
  <2>2. pc' \in [Thread -> Label] /\ op' \in [Thread -> WalkOp \cup {"push_front", "none"}]
    BY DEF IInv, TypeOK, Label
  <2>3. current' \in [Thread -> Place] /\ succ' \in [Thread -> Node \cup {Null}]
    BY DEF IInv, TypeOK, Place
  <2>4. mine' \in [Thread -> Node \cup {Null}]
    BY DEF IInv, TypeOK
  <2>5. /\ res' \in [Thread -> [id : Node, value : Value] \cup {None, Thrown}]
        /\ met' \in [Thread -> [id : Node, value : Value] \cup {None}]
    BY DEF IInv, TypeOK
  <2>6. \A u \in Thread : pc'[u] \in {"lock_next", "unlock", "visit", "test"} => succ'[u] \in Node
    BY <1>a, <1>b DEF IInv, TypeOK
  <2> QED BY <2>1, <2>2, <2>3, <2>4, <2>5, <2>6 DEF IInv, TypeOK
<1>2. \A n \in Place : owner'[n] = IF n \in Locks(t)' THEN t
                                   ELSE IF owner[n] = t THEN Null ELSE owner[n]
  BY <1>b, <1>c, <1>d DEF IInv, TypeOK, LocksHeld
<1>3. \A n \in Locks(t)' : n \in Locks(t) \/ (n \in Linked \cup {Start} /\ owner[n] = Null)
  BY <1>b, <1>c, <1>d
<1>4. WalkView!(t)'
  <2>1. Linked' = Linked
    BY DEF Linked
  <2> QED BY <1>b, <1>c, <2>1 DEF IInv, WalkView
<1>5. LocalView!(t)'
  BY <1>b, <1>c DEF IInv, LocalView
<1>6. mine' = mine
  BY <1>c DEF IInv, TypeOK
<1> QED BY <1>a, <1>1, <1>2, <1>3, <1>4, <1>5, <1>6, WalkStep

LEMMA ThrowStep ==
  ASSUME IInv, NEW t \in Thread, Throw(t)
  PROVE  IInv'
<1> USE DEF Throw, Goto, nodes, locals, Meet
<1>a. \A u \in Thread \ {t} : /\ pc'[u] = pc[u] /\ op'[u] = op[u] /\ current'[u] = current[u]
                              /\ succ'[u] = succ[u] /\ res'[u] = res[u] /\ met'[u] = met[u]
  OBVIOUS
<1>b. /\ pc[t] \in {"visit", "test"} /\ pc'[t] = "return" /\ res'[t] = Thrown
      /\ UNCHANGED <<succ, op, current>>
      /\ \A n \in Place : owner'[n] = IF owner[n] = t THEN Null ELSE owner[n]
  BY DEF IInv, TypeOK
<1>e. succ[t] \in Linked
  BY <1>b DEF IInv, WalkView
<1>c. /\ mine[t] = Null /\ Thrown # None /\ succ[t] \in Node
      /\ Element(succ[t]) \in [id : Node, value : Value]
  BY <1>b, <1>e, ElementFacts, Shape, NextFacts, ListAssumption DEF IInv, TypeOK, WalkView, LocalView, Place, ListAssumption
<1>d. Locks(t) = (IF pc[t] = "visit" THEN {succ[t]} ELSE {current[t], succ[t]}) /\ Locks(t)' = {}
  BY <1>b, <1>c DEF Locks
<1>1. TypeOK'
  BY <1>b, <1>c DEF IInv, TypeOK, Label
<1>2. \A n \in Place : owner'[n] = IF n \in Locks(t)' THEN t
                                   ELSE IF owner[n] = t THEN Null ELSE owner[n]
  BY <1>b, <1>c, <1>d DEF IInv, TypeOK, LocksHeld
<1>3. \A n \in Locks(t)' : n \in Locks(t) \/ (n \in Linked \cup {Start} /\ owner[n] = Null)
  BY <1>b, <1>c, <1>d
<1>4. WalkView!(t)'
  <2>1. Linked' = Linked
    BY DEF Linked
  <2> QED BY <1>b, <1>c, <2>1 DEF IInv, WalkView
<1>5. LocalView!(t)'
  BY <1>b, <1>c DEF IInv, LocalView
<1>6. mine' = mine
  BY <1>c DEF IInv, TypeOK
<1> QED BY <1>a, <1>1, <1>2, <1>3, <1>4, <1>5, <1>6, WalkStep

-----------------------------------------------------------------------------
(* The steps that change the list. *)
LEMMA BeginPushStep ==
  ASSUME IInv, NEW t \in Thread, BeginPush(t)
  PROVE  IInv'
<1> USE DEF BeginPush, Goto
<1>0. PICK n \in Node \ live, v \in Value :
        /\ live' = live \cup {n}
        /\ data' = [data EXCEPT ![n] = v]
        /\ mine' = [mine EXCEPT ![t] = n]
  OBVIOUS
<1>a. \A u \in Thread \ {t} : /\ pc'[u] = pc[u] /\ op'[u] = op[u] /\ current'[u] = current[u]
                              /\ succ'[u] = succ[u] /\ res'[u] = res[u] /\ met'[u] = met[u]
                              /\ mine'[u] = mine[u]
  BY <1>0 DEF IInv, TypeOK
<1>b. /\ pc[t] = "idle" /\ pc'[t] = "lock_start" /\ op'[t] = "push_front" /\ mine'[t] = n
      /\ UNCHANGED <<next, chain, owner, current, succ, res, met>>
      /\ \A m \in Node : data'[m] = IF m = n THEN v ELSE data[m]
  BY <1>0 DEF IInv, TypeOK
<1>c. /\ Linked' = Linked /\ Linked \subseteq live /\ live \subseteq Node /\ n \notin Linked
      /\ mine[t] = Null /\ \A u \in Thread : mine[u] # n
      /\ n # Null
  <2>1. Linked' = Linked
    BY <1>b DEF Linked
  <2>2. n # Null
    BY ListAssumption DEF ListAssumption
  <2> QED BY <1>b, <2>1, <2>2, Shape DEF IInv, TypeOK, LocalView
<1>d. \A u \in Thread : Locks(u)' = Locks(u)
  BY <1>a, <1>b DEF Locks
<1>1. TypeOK'
  <2>1. pc' \in [Thread -> Label] /\ op' \in [Thread -> WalkOp \cup {"push_front", "none"}]
    BY DEF IInv, TypeOK, Label
  <2>2. data' \in [Node -> Value \cup {None}] /\ live' \subseteq Node
    BY <1>0 DEF IInv, TypeOK
  <2>3. mine' \in [Thread -> Node \cup {Null}]
    BY <1>0 DEF IInv, TypeOK
  <2> QED BY <1>a, <1>b, <2>1, <2>2, <2>3 DEF IInv, TypeOK
<1>2. ListIntact'
  BY DEF IInv, ListIntact
<1>3. Ownership'
  BY <1>0, <1>a, <1>b, <1>c DEF IInv, Ownership
<1>4. LocksHeld'
  BY <1>b, <1>d DEF IInv, LocksHeld
<1>5. WalkView'
  BY <1>a, <1>b, <1>c DEF IInv, WalkView
<1>6. LocalView'
  <2>1. owner[n] = Null
    BY DEF IInv, LiveData
  <2> SUFFICES ASSUME NEW u \in Thread PROVE LocalView!(u)'
    BY DEF LocalView
  <2>2. CASE u = t
    BY <1>b, <1>c, <2>1, <2>2 DEF IInv, LocalView
  <2>3. CASE u # t
    BY <1>a, <1>b, <2>3 DEF IInv, LocalView
  <2> QED BY <2>2, <2>3
<1>7. LiveData'
  BY <1>0, <1>b, <1>c DEF IInv, LiveData
<1> QED BY <1>1, <1>2, <1>3, <1>4, <1>5, <1>6, <1>7 DEF IInv

(* Nobody else stands on m_head, whose mutex the pushing thread holds. *)
LEMMA LinkFrontStep ==
  ASSUME IInv, NEW t \in Thread, LinkFront(t)
  PROVE  IInv'
<1> USE DEF LinkFront, Goto, Leave
<1>0. PICK n : n = mine[t]
  OBVIOUS
<1>a. \A u \in Thread \ {t} : /\ pc'[u] = pc[u] /\ op'[u] = op[u] /\ current'[u] = current[u]
                              /\ succ'[u] = succ[u] /\ res'[u] = res[u] /\ met'[u] = met[u]
                              /\ mine'[u] = mine[u]
  BY DEF IInv, TypeOK
<1>b. /\ pc[t] = "link" /\ pc'[t] = "idle" /\ op'[t] = "none" /\ mine'[t] = Null
      /\ current'[t] = Start /\ res'[t] = None /\ met'[t] = None
      /\ n \in Node /\ n \in live \ Linked /\ owner[n] = Null /\ n # Start
      /\ Linked \subseteq Node /\ Linked \subseteq live /\ live \subseteq Node /\ Start \notin Linked
      /\ Null \notin Thread
  <2>1. n # Null /\ owner[n] = Null
    BY <1>0 DEF IInv, LocalView
  <2>2. n \in live \ Linked /\ live \subseteq Node /\ Linked \subseteq Node /\ Linked \subseteq live
    BY <1>0, <2>1, Shape DEF IInv, TypeOK
  <2> QED BY <2>1, <2>2, ListAssumption DEF IInv, TypeOK, ListAssumption
<1>c. /\ \A m \in Place : next'[m] = IF m = Start THEN n ELSE IF m = n THEN next[Start] ELSE next[m]
      /\ \A m \in Place : owner'[m] = IF m = Start THEN Null ELSE owner[m]
  BY <1>0, <1>b DEF IInv, TypeOK, Place
<1>d. /\ chain' \in Seq(Node) /\ Len(chain') = Len(chain) + 1 /\ DOMAIN chain' = 1..Len(chain')
      /\ chain' # <<>> /\ chain'[1] = n
      /\ \A i \in 1..Len(chain) : chain'[i + 1] = chain[i]
      /\ Linked' = Linked \cup {n}
      /\ Len(chain) \in Nat /\ (chain = <<>> <=> Len(chain) = 0)
  <2> DEFINE c == <<n>> \o chain
  <2>1. /\ c \in Seq(Node) /\ Len(c) = Len(chain) + 1 /\ DOMAIN c = 1..Len(c)
        /\ c # <<>> /\ c[1] = n
        /\ \A i \in 1..Len(chain) : c[i + 1] = chain[i]
        /\ ToSet(c) = Linked \cup {n}
    BY <1>b, ConsProperties DEF Linked, IInv, TypeOK
  <2>2. chain' = c
    BY <1>0
  <2> HIDE DEF c
  <2> QED BY <2>1, <2>2, Shape DEF Linked, IInv
<1>e. ASSUME NEW i \in 1..Len(chain'), i # 1
      PROVE  i - 1 \in 1..Len(chain) /\ chain'[i] = chain[i - 1]
  BY <1>d, <1>e
<1>f. \A i \in 1..Len(chain) : chain[i] \in Linked /\ chain[i] # n /\ chain[i] # Start /\ chain[i] \in Place
  BY <1>b, Shape DEF IInv, Place
<1>g. /\ Locks(t) = {Start} /\ Locks(t)' = {}
      /\ \A u \in Thread \ {t} : Locks(u)' = Locks(u) /\ Start \notin Locks(u)
  <2>1. Locks(t) = {Start} /\ Locks(t)' = {}
    BY <1>b DEF Locks
  <2>2. \A u \in Thread \ {t} : Locks(u)' = Locks(u)
    BY <1>a DEF Locks
  <2> QED BY <2>1, <2>2, LockFacts
<1>1. TypeOK'
  <2>1. pc' \in [Thread -> Label] /\ op' \in [Thread -> WalkOp \cup {"push_front", "none"}]
    BY DEF IInv, TypeOK, Label
  <2>2. current' \in [Thread -> Place] /\ succ' \in [Thread -> Node \cup {Null}]
    BY DEF IInv, TypeOK, Place
  <2>3. mine' \in [Thread -> Node \cup {Null}]
    BY DEF IInv, TypeOK
  <2>4. /\ res' \in [Thread -> [id : Node, value : Value] \cup {None, Thrown}]
        /\ met' \in [Thread -> [id : Node, value : Value] \cup {None}]
    BY DEF IInv, TypeOK
  <2>5. owner' \in [Place -> Thread \cup {Null}]
    BY DEF IInv, TypeOK
  <2>6. next' \in [Place -> Node \cup {Null}]
    <3>1. next[Start] \in Node \cup {Null}
      BY DEF IInv, TypeOK, Place
    <3> QED BY <1>0, <1>b, <3>1 DEF IInv, TypeOK
  <2>7. \A u \in Thread : pc'[u] \in {"lock_next", "unlock", "visit", "test"} => succ'[u] \in Node
    BY <1>a, <1>b DEF IInv, TypeOK
  <2> QED BY <1>d, <2>1, <2>2, <2>3, <2>4, <2>5, <2>6, <2>7 DEF IInv, TypeOK
<1>2. ListIntact'
  <2>1. next'[Start] = chain'[1]
    BY <1>c, <1>d DEF Place
  <2>2. ASSUME NEW i \in 1..Len(chain')
        PROVE  next'[chain'[i]] = IF i = Len(chain') THEN Null ELSE chain'[i + 1]
    <3>1. CASE i = 1
      <4>1. next'[n] = IF chain = <<>> THEN Null ELSE chain[1]
        BY <1>b, <1>c DEF IInv, ListIntact, Place
      <4>2. Len(chain) # 0 => 1 \in 1..Len(chain) /\ chain'[2] = chain[1]
        BY <1>d
      <4> QED BY <3>1, <4>1, <4>2, <1>d
    <3>2. CASE i # 1
      <4>1. i - 1 \in 1..Len(chain) /\ chain'[i] = chain[i - 1]
        BY <3>2, <1>e
      <4>2. i # Len(chain') => i \in 1..Len(chain) /\ chain'[i + 1] = chain[i]
        BY <3>2, <1>d
      <4>3. next[chain[i - 1]] = IF i - 1 = Len(chain) THEN Null ELSE chain[i]
        BY <4>1, Shape DEF IInv, ListIntact
      <4>4. next'[chain[i - 1]] = next[chain[i - 1]]
        BY <4>1, <1>c, <1>f
      <4> QED BY <4>1, <4>2, <4>3, <4>4, <1>d
    <3> QED BY <3>1, <3>2
  <2>3. \A i, j \in 1..Len(chain') : chain'[i] = chain'[j] => i = j
    <3> SUFFICES ASSUME NEW i \in 1..Len(chain'), NEW j \in 1..Len(chain'), chain'[i] = chain'[j]
                 PROVE  i = j
      OBVIOUS
    <3>1. CASE i # 1 /\ j # 1
      <4>1. chain[i - 1] = chain[j - 1] /\ i - 1 \in 1..Len(chain) /\ j - 1 \in 1..Len(chain)
        BY <3>1, <1>e
      <4>2. i - 1 = j - 1
        BY <4>1, Shape DEF IInv, ListIntact
      <4> QED BY <4>2
    <3>2. CASE i = 1 \/ j = 1
      BY <3>2, <1>d, <1>e, <1>f
    <3> QED BY <3>1, <3>2
  <2> QED BY <2>1, <2>2, <2>3, <1>d DEF ListIntact
<1>3. Ownership'
  <2>1. ASSUME NEW m \in Node
        PROVE  m \in live <=> m \in Linked' \/ \E u \in Thread : mine'[u] = m
    <3>1. m # Null
      BY ListAssumption DEF ListAssumption
    <3>2. (\E u \in Thread : mine'[u] = m) <=> \E u \in Thread \ {t} : mine[u] = m
      BY <1>a, <1>b, <3>1
    <3> QED BY <1>0, <1>b, <1>d, <3>2 DEF IInv, Ownership
  <2>2. \A u \in Thread : mine'[u] \notin Linked'
    <3>1. Null \notin Node
      BY ListAssumption DEF ListAssumption
    <3> QED BY <1>0, <1>a, <1>b, <1>d, <3>1 DEF IInv, Ownership
  <2>3. \A u, w \in Thread : mine'[u] = mine'[w] /\ mine'[u] # Null => u = w
    BY <1>a, <1>b DEF IInv, Ownership
  <2> QED BY <2>1, <2>2, <2>3 DEF Ownership
<1>4. LocksHeld'
  <2> SUFFICES ASSUME NEW u \in Thread, NEW m \in Place PROVE owner'[m] = u <=> m \in Locks(u)'
    BY DEF LocksHeld
  <2> QED BY <1>b, <1>c, <1>g DEF IInv, LocksHeld
<1>5. WalkView'
  <2> SUFFICES ASSUME NEW u \in Thread PROVE WalkView!(u)'
    BY DEF WalkView
  <2>1. CASE u = t
    BY <1>b, <2>1
  <2>2. CASE u # t
    <3>1. pc[u] \in {"lock_next", "unlock", "test"} => next'[current[u]] = next[current[u]]
      <4>1. pc[u] \in {"lock_next", "unlock", "test"} => current[u] \in Locks(u) /\ current[u] \in Linked
        BY <1>g, <2>2 DEF Locks, IInv, WalkView
      <4> QED BY <1>b, <1>c, <4>1, <1>g, <2>2 DEF Place
    <3> QED BY <1>a, <1>d, <2>2, <3>1 DEF IInv, WalkView
  <2> QED BY <2>1, <2>2
<1>6. LocalView'
  <2> SUFFICES ASSUME NEW u \in Thread PROVE LocalView!(u)'
    BY DEF LocalView
  <2>1. CASE u = t
    BY <1>b, <2>1
  <2>2. CASE u # t
    <3>1. mine[u] # Null => mine[u] \in Place /\ mine[u] # Start
      BY ListAssumption DEF IInv, TypeOK, Place, ListAssumption
    <3> QED BY <1>a, <1>c, <2>2, <3>1 DEF IInv, LocalView
  <2> QED BY <2>1, <2>2
<1>7. LiveData'
  BY <1>c DEF IInv, LiveData, Place
<1> QED BY <1>1, <1>2, <1>3, <1>4, <1>5, <1>6, <1>7 DEF IInv

(* The node is nobody's any more, and its mutex is free. *)
LEMMA DestroyStep ==
  ASSUME IInv, NEW t \in Thread, Destroy(t)
  PROVE  IInv'
<1> USE DEF Destroy, Goto
<1>0. PICK n : n = mine[t]
  OBVIOUS
<1>a. \A u \in Thread \ {t} : /\ pc'[u] = pc[u] /\ op'[u] = op[u] /\ current'[u] = current[u]
                              /\ succ'[u] = succ[u] /\ res'[u] = res[u] /\ met'[u] = met[u]
                              /\ mine'[u] = mine[u]
  BY DEF IInv, TypeOK
<1>b. /\ pc[t] = "destroy" /\ pc'[t] = "read_next" /\ op'[t] = op[t] /\ mine'[t] = Null
      /\ n \in Node /\ n \in live \ Linked /\ owner[n] = Null /\ live' = live \ {n}
      /\ Linked' = Linked /\ Linked \subseteq live
  <2>1. n # Null /\ owner[n] = Null
    BY <1>0 DEF IInv, LocalView
  <2>2. n \in live \ Linked /\ n \in Node /\ Linked \subseteq live
    BY <1>0, <2>1, Shape DEF IInv, TypeOK
  <2>3. Linked' = Linked
    BY DEF Linked
  <2> QED BY <1>0, <2>1, <2>2, <2>3 DEF IInv, TypeOK
<1>c. \A u \in Thread : Locks(u)' = Locks(u)
  BY <1>a, <1>b DEF Locks
<1>d. \A u \in Thread \ {t} : mine[u] # n
  <2>1. n # Null
    BY <1>b, ListAssumption DEF ListAssumption
  <2> QED BY <1>0, <2>1 DEF IInv, Ownership
<1>1. TypeOK'
  <2>1. pc' \in [Thread -> Label]
    BY DEF IInv, TypeOK, Label
  <2> QED BY <1>a, <1>b, <2>1 DEF IInv, TypeOK
<1>2. ListIntact'
  BY DEF IInv, ListIntact
<1>3. Ownership'
  <2>1. ASSUME NEW m \in Node
        PROVE  m \in live' <=> m \in Linked \/ \E u \in Thread : mine'[u] = m
    <3>1. m # Null
      BY ListAssumption DEF ListAssumption
    <3>2. (\E u \in Thread : mine'[u] = m) <=> \E u \in Thread \ {t} : mine[u] = m
      BY <1>a, <1>b, <3>1
    <3> QED BY <1>0, <1>b, <1>d, <3>2 DEF IInv, Ownership
  <2>2. \A u \in Thread : mine'[u] \notin Linked
    <3>1. Null \notin Linked
      BY Shape, ListAssumption DEF ListAssumption, IInv
    <3> QED BY <1>a, <1>b, <3>1 DEF IInv, Ownership
  <2>3. \A u, w \in Thread : mine'[u] = mine'[w] /\ mine'[u] # Null => u = w
    BY <1>a, <1>b DEF IInv, Ownership
  <2> QED BY <1>b, <2>1, <2>2, <2>3 DEF Ownership
<1>4. LocksHeld'
  BY <1>c DEF IInv, LocksHeld
<1>5. WalkView'
  BY <1>a, <1>b DEF IInv, WalkView
<1>6. LocalView'
  <2> SUFFICES ASSUME NEW u \in Thread PROVE LocalView!(u)'
    BY DEF LocalView
  <2>1. CASE u = t
    BY <1>b, <2>1 DEF IInv, LocalView
  <2>2. CASE u # t
    BY <1>a, <2>2 DEF IInv, LocalView
  <2> QED BY <2>1, <2>2
<1>7. LiveData'
  BY <1>b DEF IInv, LiveData
<1> QED BY <1>1, <1>2, <1>3, <1>4, <1>5, <1>6, <1>7 DEF IInv

(* What a thread at Unlink knows: its two nodes are neighbours. *)
LEMMA UnlinkFacts ==
  ASSUME IInv, NEW t \in Thread, Unlink(t)
  PROVE  /\ succ[t] \in Linked /\ current[t] \in Linked \cup {Start} /\ current[t] # succ[t]
         /\ next[current[t]] = succ[t]
         /\ succ[t] \in Node /\ current[t] \in Place /\ succ[t] \in Place
         /\ \A m \in Place : next'[m] = IF m = succ[t] THEN Null
                                       ELSE IF m = current[t] THEN next[succ[t]] ELSE next[m]
         /\ \E p \in 1..Len(chain) :
              /\ succ[t] = chain[p]
              /\ current[t] = IF p = 1 THEN Start ELSE chain[p - 1]
              /\ Len(chain') = Len(chain) - 1 /\ DOMAIN chain' = 1..Len(chain) - 1
              /\ \A i \in 1..Len(chain) - 1 : chain'[i] = IF i < p THEN chain[i] ELSE chain[i + 1]
         /\ chain' \in Seq(Node) /\ Linked' = Linked \ {succ[t]}
<1> USE DEF Unlink
<1>1. /\ succ[t] \in Linked /\ current[t] \in Linked \cup {Start}
      /\ next[current[t]] = succ[t]
  BY DEF IInv, WalkView
<1>2. succ[t] \in Node /\ succ[t] # Null /\ current[t] \in Place /\ succ[t] \in Place /\ succ[t] # Start
  BY <1>1, Shape, ListAssumption DEF IInv, Place, ListAssumption
<1>3. current[t] # succ[t]
  BY <1>1, <1>2, NextFacts DEF IInv
<1>4. \A m \in Place : next'[m] = IF m = succ[t] THEN Null
                                ELSE IF m = current[t] THEN next[succ[t]] ELSE next[m]
  BY <1>2, <1>3 DEF IInv, TypeOK
<1>5. PICK p \in 1..Len(chain) : succ[t] = chain[p]
  BY <1>1, Shape DEF IInv
<1>6. /\ chain' \in Seq(Node)
      /\ Len(chain') = Len(chain) - 1 /\ DOMAIN chain' = 1..Len(chain) - 1
      /\ \A i \in 1..Len(chain) - 1 : chain'[i] = IF i < p THEN chain[i] ELSE chain[i + 1]
      /\ Linked' = Linked \ {succ[t]}
  <2> DEFINE r == RemoveFirst(chain, chain[p])
  <2>1. chain \in Seq(Node) /\ \A i, j \in DOMAIN chain : chain[i] = chain[j] => i = j
    BY DEF IInv, TypeOK, ListIntact
  <2>2. /\ r \in Seq(Node) /\ Len(r) = Len(chain) - 1 /\ DOMAIN r = 1..Len(chain) - 1
        /\ \A i \in 1..Len(chain) - 1 : r[i] = IF i < p THEN chain[i] ELSE chain[i + 1]
        /\ ToSet(r) = ToSet(chain) \ {chain[p]}
    <3> HIDE DEF Unlink
    <3> QED BY <2>1, RemoveFirstProperties
  <2>3. chain' = r
    BY <1>5
  <2> HIDE DEF r
  <2> QED BY <1>5, <2>2, <2>3 DEF Linked
<1>7. current[t] = IF p = 1 THEN Start ELSE chain[p - 1]
  <2>1. CASE p = 1
    <3>1. next[Start] = chain[1]
      BY <2>1, Shape DEF IInv, ListIntact
    <3> QED BY <1>1, <1>2, <1>5, <2>1, <3>1, NextFacts DEF IInv
  <2>2. CASE p # 1
    <3>1. p - 1 \in 1..Len(chain) /\ p - 1 # Len(chain) /\ (p - 1) + 1 = p
      BY <2>2, Shape DEF IInv
    <3>2. next[chain[p - 1]] = chain[p] /\ chain[p - 1] \in Linked
      BY <3>1, Shape DEF IInv, ListIntact
    <3> QED BY <1>1, <1>2, <1>5, <2>2, <3>2, NextFacts DEF IInv
  <2> QED BY <2>1, <2>2
<1> QED BY <1>1, <1>2, <1>3, <1>4, <1>5, <1>6, <1>7

(* Without the node the list is still in one piece. *)
LEMMA UnlinkKeepsList ==
  ASSUME IInv, NEW t \in Thread, Unlink(t)
  PROVE  ListIntact'
<1>0. PICK p \in 1..Len(chain) :
        /\ succ[t] = chain[p]
        /\ current[t] = IF p = 1 THEN Start ELSE chain[p - 1]
        /\ Len(chain') = Len(chain) - 1 /\ DOMAIN chain' = 1..Len(chain) - 1
        /\ \A i \in 1..Len(chain) - 1 : chain'[i] = IF i < p THEN chain[i] ELSE chain[i + 1]
  BY UnlinkFacts
<1>a. /\ chain' \in Seq(Node) /\ Len(chain) \in Nat
      /\ \A m \in Place : next'[m] = IF m = succ[t] THEN Null
                                    ELSE IF m = current[t] THEN next[succ[t]] ELSE next[m]
      /\ Start \in Place /\ Start \notin Linked
      /\ \A i \in 1..Len(chain) : chain[i] \in Linked /\ chain[i] \in Place
      /\ \A i, j \in 1..Len(chain) : chain[i] = chain[j] => i = j
      /\ \A i \in 1..Len(chain) : next[chain[i]] = IF i = Len(chain) THEN Null ELSE chain[i + 1]
  BY UnlinkFacts, Shape, ListAssumption DEF IInv, ListIntact, Place, ListAssumption
<1>b. chain' = <<>> <=> Len(chain) = 1
  BY <1>0, <1>a
<1>1. next'[Start] = IF chain' = <<>> THEN Null ELSE chain'[1]
  <2>1. Start # succ[t]
    BY <1>0, <1>a
  <2>2. CASE p = 1
    <3>1. next'[Start] = IF 1 = Len(chain) THEN Null ELSE chain[1 + 1]
      BY <1>0, <1>a, <2>1, <2>2
    <3>2. Len(chain) # 1 => 1 \in 1..Len(chain) - 1 /\ chain'[1] = chain[1 + 1]
      BY <1>0, <1>a, <2>2
    <3> QED BY <1>b, <3>1, <3>2
  <2>3. CASE p # 1
    <3>1. p - 1 \in 1..Len(chain)
      BY <2>3, <1>a
    <3>2. Start # current[t]
      BY <1>0, <1>a, <2>3, <3>1
    <3>3. next'[Start] = next[Start] /\ Len(chain) # 1 /\ 1 \in 1..Len(chain) - 1 /\ 1 < p
      BY <1>a, <2>1, <2>3, <3>2
    <3>4. next[Start] = chain[1]
      BY <3>3, Shape DEF IInv, ListIntact
    <3> QED BY <1>0, <1>b, <3>3, <3>4
  <2> QED BY <2>2, <2>3
<1>2. ASSUME NEW i \in 1..Len(chain) - 1
      PROVE  next'[chain'[i]] = IF i = Len(chain) - 1 THEN Null ELSE chain'[i + 1]
  <2>1. CASE i < p - 1
    <3>1. /\ i \in 1..Len(chain) /\ p - 1 \in 1..Len(chain) /\ i # Len(chain) - 1 /\ i # Len(chain)
          /\ i + 1 \in 1..Len(chain) - 1 /\ i + 1 < p /\ i < p /\ p # 1
      BY <1>a, <2>1
    <3>2. chain'[i] = chain[i] /\ chain'[i + 1] = chain[i + 1]
      BY <1>0, <3>1
    <3>3. chain[i] # chain[p] /\ chain[i] # chain[p - 1]
      BY <1>a, <2>1, <3>1
    <3>4. next'[chain[i]] = chain[i + 1]
      BY <1>0, <1>a, <3>1, <3>3
    <3> QED BY <3>1, <3>2, <3>4
  <2>2. CASE i = p - 1
    <3>1. /\ i \in 1..Len(chain) /\ i < p /\ p # 1 /\ i # p
          /\ i = Len(chain) - 1 <=> p = Len(chain)
          /\ i + 1 = p
      BY <1>a, <2>2
    <3>2. chain'[i] = chain[i] /\ current[t] = chain[i] /\ chain[i] # succ[t]
      BY <1>0, <1>a, <2>2, <3>1
    <3>3. next'[chain[i]] = IF p = Len(chain) THEN Null ELSE chain[p + 1]
      BY <1>0, <1>a, <3>2, <3>1
    <3>4. p # Len(chain) => p \in 1..Len(chain) - 1 /\ chain'[p] = chain[p + 1]
      BY <1>0, <1>a
    <3> QED BY <3>1, <3>2, <3>3, <3>4
  <2>3. CASE i >= p
    <3>1. /\ i + 1 \in 1..Len(chain) /\ ~(i < p) /\ ~(i + 1 < p) /\ i + 1 # p /\ i + 1 # p - 1
          /\ i # Len(chain) - 1 => i + 1 \in 1..Len(chain) - 1
          /\ i = Len(chain) - 1 <=> i + 1 = Len(chain)
      BY <1>a, <2>3
    <3>2. /\ chain'[i] = chain[i + 1]
          /\ i # Len(chain) - 1 => chain'[i + 1] = chain[(i + 1) + 1]
      BY <1>0, <3>1
    <3>3. chain[i + 1] # succ[t] /\ chain[i + 1] # current[t]
      <4>1. p # 1 => p - 1 \in 1..Len(chain)
        BY <1>a
      <4> QED BY <1>0, <1>a, <3>1, <4>1
    <3>4. next'[chain[i + 1]] = IF i + 1 = Len(chain) THEN Null ELSE chain[(i + 1) + 1]
      BY <1>a, <3>1, <3>3
    <3> QED BY <3>1, <3>2, <3>4
  <2> QED BY <1>a, <2>1, <2>2, <2>3
<1>3. ASSUME NEW i \in 1..Len(chain) - 1, NEW j \in 1..Len(chain) - 1, chain'[i] = chain'[j]
      PROVE  i = j
  <2>1. /\ i \in 1..Len(chain) /\ i + 1 \in 1..Len(chain)
        /\ j \in 1..Len(chain) /\ j + 1 \in 1..Len(chain)
    BY <1>a
  <2>2. (IF i < p THEN i ELSE i + 1) = (IF j < p THEN j ELSE j + 1)
    BY <1>0, <1>a, <1>3, <2>1
  <2> QED BY <2>2
<1> QED BY <1>0, <1>1, <1>2, <1>3 DEF ListIntact

(* Both neighbours are locked, so that no other walk stands on either.     *)
LEMMA UnlinkStep ==
  ASSUME IInv, NEW t \in Thread, Unlink(t)
  PROVE  IInv'
<1> USE DEF Unlink, Goto, Meet
<1>0. PICK c, s : c = current[t] /\ s = succ[t]
  OBVIOUS
<1>a. \A u \in Thread \ {t} : /\ pc'[u] = pc[u] /\ op'[u] = op[u] /\ current'[u] = current[u]
                              /\ succ'[u] = succ[u] /\ res'[u] = res[u] /\ met'[u] = met[u]
                              /\ mine'[u] = mine[u]
  BY DEF IInv, TypeOK
<1>b. /\ s \in Linked /\ c \in Linked \cup {Start} /\ c # s /\ next[c] = s /\ s \in Node /\ s \in live
      /\ \A m \in Place : next'[m] = IF m = s THEN Null ELSE IF m = c THEN next[s] ELSE next[m]
      /\ chain' \in Seq(Node) /\ Linked' = Linked \ {s} /\ s # Null /\ s # Start
      /\ Linked \subseteq Place /\ Linked \subseteq live
  <2> HIDE DEF Unlink
  <2>1. /\ s \in Linked /\ c \in Linked \cup {Start} /\ c # s /\ next[c] = s
        /\ \A m \in Place : next'[m] = IF m = s THEN Null ELSE IF m = c THEN next[s] ELSE next[m]
    BY <1>0, UnlinkFacts
  <2>2. chain' \in Seq(Node) /\ Linked' = Linked \ {s}
    BY <1>0, UnlinkFacts
  <2>3. Linked \subseteq Node /\ Linked \subseteq live
    BY Shape DEF IInv
  <2> QED BY <2>1, <2>2, <2>3, ListAssumption DEF Place, ListAssumption
<1>c. /\ pc[t] = "test" /\ pc'[t] = "unlock_next" /\ mine'[t] = s /\ mine[t] = Null
      /\ op'[t] = op[t] /\ current'[t] = c /\ succ'[t] = s /\ res'[t] = res[t]
      /\ op[t] = "remove_if"
  BY <1>0, <1>b DEF IInv, TypeOK, LocalView
<1>d. /\ \A u \in Thread : Locks(u)' = Locks(u)
      /\ \A u \in Thread \ {t} : c \notin Locks(u) /\ s \notin Locks(u)
  <2>1. \A u \in Thread : Locks(u)' = Locks(u)
    BY <1>a, <1>c, <1>0 DEF Locks
  <2>2. Locks(t) = {c, s}
    BY <1>0, <1>c DEF Locks
  <2>3. \A u \in Thread \ {t} : Locks(t) \cap Locks(u) = {}
    BY LockFacts
  <2> QED BY <2>1, <2>2, <2>3
<1>1. TypeOK'
  <2>1. pc' \in [Thread -> Label]
    BY DEF IInv, TypeOK, Label
  <2>2. mine' \in [Thread -> Node \cup {Null}]
    BY <1>0, <1>b DEF IInv, TypeOK
  <2>3. next' \in [Place -> Node \cup {Null}]
    <3>1. next[s] \in Node \cup {Null} /\ s \in Place
      BY <1>b DEF IInv, TypeOK
    <3> QED BY <1>0, <3>1 DEF IInv, TypeOK
  <2>4. met' \in [Thread -> [id : Node, value : Value] \cup {None}]
    <3>1. Element(s) \in [id : Node, value : Value]
      BY <1>b, ElementFacts
    <3> QED BY <1>0, <3>1 DEF IInv, TypeOK
  <2>5. \A u \in Thread : pc'[u] \in {"lock_next", "unlock", "visit", "test"} => succ'[u] \in Node
    BY <1>a, <1>c DEF IInv, TypeOK
  <2> QED BY <1>b, <2>1, <2>2, <2>3, <2>4, <2>5 DEF IInv, TypeOK
<1>2. ListIntact'
  BY UnlinkKeepsList
<1>3. Ownership'
  <2>1. \A u \in Thread : mine[u] # s
    BY <1>b DEF IInv, Ownership
  <2>2. ASSUME NEW m \in Node
        PROVE  m \in live <=> m \in Linked' \/ \E u \in Thread : mine'[u] = m
    <3>1. m # Null
      BY ListAssumption DEF ListAssumption
    <3>2. (\E u \in Thread : mine'[u] = m) <=> m = s \/ \E u \in Thread : mine[u] = m
      BY <1>a, <1>c, <3>1
    <3> QED BY <1>b, <3>2 DEF IInv, Ownership
  <2>3. \A u \in Thread : mine'[u] \notin Linked'
    BY <1>a, <1>b, <1>c DEF IInv, Ownership
  <2>4. \A u, w \in Thread : mine'[u] = mine'[w] /\ mine'[u] # Null => u = w
    BY <1>a, <1>c, <2>1 DEF IInv, Ownership
  <2> QED BY <2>2, <2>3, <2>4 DEF Ownership
<1>4. LocksHeld'
  BY <1>d DEF IInv, LocksHeld
<1>5. WalkView'
  <2> SUFFICES ASSUME NEW u \in Thread PROVE WalkView!(u)'
    BY DEF WalkView
  <2>1. CASE u = t
    BY <1>b, <1>c, <2>1
  <2>2. CASE u # t
    <3>1. pc[u] \in {"read_next", "lock_next", "unlock", "test", "unlock_next", "destroy"} =>
            current[u] \in Linked' \cup {Start} /\ current[u] # c /\ current[u] # s
      <4>1. pc[u] \in {"read_next", "lock_next", "unlock", "test", "unlock_next", "destroy"} =>
              current[u] \in Linked \cup {Start} /\ current[u] \in Locks(u)
        BY DEF IInv, WalkView, Locks
      <4> QED BY <1>b, <1>d, <2>2, <4>1
    <3>2. pc[u] \in {"lock_next", "unlock", "test"} =>
            next'[current[u]] = succ[u] /\ succ[u] \in Linked'
      <4>1. ASSUME pc[u] \in {"lock_next", "unlock", "test"}
            PROVE  next'[current[u]] = next[current[u]] /\ next[current[u]] # s
        <5>1. /\ current[u] \in Linked \cup {Start} /\ current[u] \in Place
              /\ current[u] # c /\ current[u] # s
          BY <1>b, <3>1, <4>1 DEF Place
        <5>2. next[current[u]] # s
          BY <1>b, <5>1, NextFacts DEF IInv
        <5> QED BY <1>b, <5>1, <5>2
      <4> QED BY <1>b, <4>1 DEF IInv, WalkView
    <3>3. pc[u] = "visit" => succ[u] \in Linked'
      <4>1. pc[u] = "visit" => succ[u] \in Locks(u) /\ succ[u] \in Linked
        BY DEF Locks, IInv, WalkView
      <4> QED BY <1>b, <1>d, <2>2, <4>1
    <3> QED BY <1>a, <2>2, <3>1, <3>2, <3>3 DEF IInv, WalkView
  <2> QED BY <2>1, <2>2
<1>6. LocalView'
  <2> SUFFICES ASSUME NEW u \in Thread PROVE LocalView!(u)'
    BY DEF LocalView
  <2>1. CASE u = t
    BY <1>b, <1>c, <2>1 DEF IInv, LocalView
  <2>2. CASE u # t
    BY <1>a, <2>2 DEF IInv, LocalView
  <2> QED BY <2>1, <2>2
<1>7. LiveData'
  BY DEF IInv, LiveData
<1> QED BY <1>1, <1>2, <1>3, <1>4, <1>5, <1>6, <1>7 DEF IInv

LEMMA StutterStep ==
  ASSUME IInv, UNCHANGED vars
  PROVE  IInv'
<1> USE DEF vars, nodes, locals
<1>1. Linked' = Linked /\ \A t : Locks(t)' = Locks(t)
  BY DEF Linked, Locks
<1>2. TypeOK' /\ ListIntact' /\ LiveData' /\ LocalView'
  BY DEF IInv, TypeOK, ListIntact, LiveData, LocalView
<1>3. Ownership' /\ LocksHeld' /\ WalkView'
  BY <1>1 DEF IInv, Ownership, LocksHeld, WalkView
<1> QED BY <1>2, <1>3 DEF IInv

(* The invariant of the list. *)
THEOREM Invariance == Spec => []IInv
<1>1. IInv /\ [Next]_vars => IInv'
  <2> SUFFICES ASSUME IInv, [Next]_vars PROVE IInv'
    OBVIOUS
  <2>1. CASE UNCHANGED vars
    BY <2>1, StutterStep
  <2>2. ASSUME NEW t \in Thread, Call(t) PROVE IInv'
    BY <2>2, BeginPushStep, BeginWalkStep, ThrowStep DEF Call
  <2>3. ASSUME NEW t \in Thread, Step(t) PROVE IInv'
    <3>1. ASSUME LinkFront(t) \/ Unlink(t) \/ Destroy(t) PROVE IInv'
      BY <3>1, LinkFrontStep, UnlinkStep, DestroyStep
    <3>2. ASSUME LockStart(t) \/ ReadNext(t) \/ EndOfList(t) \/ LockNext(t) PROVE IInv'
      BY <3>2, LockStartStep, ReadNextStep, EndOfListStep, LockNextStep
    <3>3. ASSUME UnlockCurrent(t) \/ Visit(t) \/ Find(t) \/ Return(t) PROVE IInv'
      BY <3>3, UnlockCurrentStep, VisitStep, FindStep, ReturnStep
    <3>4. ASSUME Keep(t) \/ UnlockNext(t) PROVE IInv'
      BY <3>4, KeepStep, UnlockNextStep
    <3> QED BY <2>3, <3>1, <3>2, <3>3, <3>4 DEF Step
  <2> QED BY <2>1, <2>2, <2>3 DEF Next
<1> QED BY <1>1, InitIInv, PTL DEF Spec

(* The types. *)
THEOREM TypeCorrect == Spec => []TypeOK
<1>1. IInv => TypeOK
  BY DEF IInv
<1> QED BY <1>1, Invariance, PTL

(* The list stays in one piece, whatever is inserted and removed where.    *)
THEOREM ListStaysIntact == Spec => []ListIntact
<1>1. IInv => ListIntact
  BY DEF IInv
<1> QED BY <1>1, Invariance, PTL

(* No node is lost, and none is deleted twice. *)
THEOREM NodesAreOwned == Spec => []Ownership
<1>1. IInv => Ownership
  BY DEF IInv
<1> QED BY <1>1, Invariance, PTL

(* remove_if deletes a node only when nobody holds, waits for or is about  *)
(* to take its mutex, although it has released that mutex itself before.   *)
THEOREM MutexesOutliveUse == Spec => []NodeOutlivesItsMutex
<1>1. IInv => NodeOutlivesItsMutex
  <2> SUFFICES ASSUME IInv PROVE NodeOutlivesItsMutex
    OBVIOUS
  <2>1. ASSUME NEW t \in Thread PROVE Touches(t) \subseteq live \cup {Start}
    <3>1. Linked \subseteq live /\ (mine[t] # Null => mine[t] \in live)
      BY Shape DEF IInv
    <3>2. pc[t] = "link" => mine[t] \in live
      BY <3>1 DEF IInv, LocalView
    <3>3. pc[t] \in {"read_next", "unlock", "lock_next", "test"} => current[t] \in live \cup {Start}
      BY <3>1 DEF IInv, WalkView
    <3>4. pc[t] \in {"lock_next", "test", "visit"} => succ[t] \in live
      BY <3>1 DEF IInv, WalkView
    <3>5. pc[t] = "unlock_next" => succ[t] \in live
      BY <3>1 DEF IInv, WalkView, LocalView
    <3> QED BY <3>2, <3>3, <3>4, <3>5 DEF Touches
  <2>2. \A t \in Thread : pc[t] = "destroy" => owner[mine[t]] = Null
    BY DEF IInv, LocalView
  <2> QED BY <2>1, <2>2 DEF NodeOutlivesItsMutex, IInv, LiveData
<1> QED BY <1>1, Invariance, PTL

-----------------------------------------------------------------------------
(* What is left of a sequence from a position on. *)
From(s, k) == SubSeq(s, k, Len(s))

LEMMA FromProperties ==
  ASSUME NEW S, NEW s \in Seq(S), NEW k \in 1..Len(s) + 1
  PROVE  /\ From(s, k) \in Seq(S)
         /\ Len(From(s, k)) = Len(s) + 1 - k
         /\ \A i \in 1..Len(s) + 1 - k : /\ From(s, k)[i] = s[k - 1 + i]
                                        /\ k - 1 + i \in 1..Len(s)
<1>1. /\ Len(s) \in Nat /\ k \in Int /\ Len(s) - k + 1 = Len(s) + 1 - k
      /\ \A i \in k..Len(s) : s[i] \in S
  OBVIOUS
<1>2. /\ SubSeq(s, k, Len(s)) \in Seq(S)
      /\ Len(SubSeq(s, k, Len(s))) = IF k <= Len(s) THEN Len(s) - k + 1 ELSE 0
      /\ \A i \in 1..Len(s) - k + 1 : SubSeq(s, k, Len(s))[i] = s[k + i - 1]
  BY <1>1, SubSeqProperties
<1>3. Len(SubSeq(s, k, Len(s))) = Len(s) + 1 - k
  BY <1>1, <1>2
<1>4. ASSUME NEW i \in 1..Len(s) + 1 - k
      PROVE  SubSeq(s, k, Len(s))[i] = s[k - 1 + i] /\ k - 1 + i \in 1..Len(s)
  <2>1. i \in 1..Len(s) - k + 1 /\ k - 1 + i = k + i - 1 /\ k - 1 + i \in 1..Len(s)
    BY <1>1
  <2> QED BY <1>2, <2>1
<1> QED BY <1>2, <1>3, <1>4 DEF From

LEMMA FromEnd ==
  ASSUME NEW S, NEW s \in Seq(S)
  PROVE  From(s, 1) = s /\ From(s, Len(s) + 1) = <<>>
<1>1. Len(s) \in Nat
  OBVIOUS
<1>2. From(s, 1) = s
  BY SubSeqFull DEF From
<1>3. PICK k \in 1..Len(s) + 1 : k = Len(s) + 1
  BY <1>1
<1>4. From(s, k) \in Seq(S) /\ Len(From(s, k)) = Len(s) + 1 - k
  BY FromProperties
<1>5. From(s, k) = <<>>
  BY <1>1, <1>3, <1>4, EmptySeq
<1> QED BY <1>2, <1>3, <1>5

LEMMA FromHeadTail ==
  ASSUME NEW S, NEW s \in Seq(S), NEW k \in 1..Len(s)
  PROVE  /\ From(s, k) # <<>>
         /\ Head(From(s, k)) = s[k]
         /\ Tail(From(s, k)) = From(s, k + 1)
<1>1. Len(s) \in Nat /\ Len(s) \in k..Len(s) /\ k \in 1..Len(s) + 1 /\ Len(s) + 1 - k # 0
  OBVIOUS
<1>2. PICK f : f = From(s, k)
  OBVIOUS
<1>3. Len(f) # 0
  BY <1>1, <1>2, FromProperties
<1>4. f # <<>>
  BY <1>3
<1>5. /\ Head(SubSeq(s, k, Len(s))) = s[k]
      /\ Tail(SubSeq(s, k, Len(s))) = SubSeq(s, k + 1, Len(s))
  BY <1>1, HeadTailOfSubSeq
<1> QED BY <1>2, <1>4, <1>5 DEF From

LEMMA RemoveFirstOf ==
  ASSUME NEW S, NEW s \in Seq(S), NEW p \in 1..Len(s), IsInjective(s)
  PROVE  /\ RemoveFirst(s, s[p]) \in Seq(S)
         /\ Len(RemoveFirst(s, s[p])) = Len(s) - 1
         /\ \A i \in 1..Len(s) - 1 : RemoveFirst(s, s[p])[i] = IF i < p THEN s[i] ELSE s[i + 1]
  BY RemoveFirstProperties DEF IsInjective

(* Two sequences that agree from some position each. *)
Agree(r, m, s, k) ==
  /\ Len(r) + 1 - m = Len(s) + 1 - k
  /\ \A i \in 1..Len(s) + 1 - k : r[m - 1 + i] = s[k - 1 + i]

LEMMA FromEqual ==
  ASSUME NEW S, NEW s \in Seq(S), NEW r \in Seq(S), NEW k \in 1..Len(s) + 1, NEW m \in 1..Len(r) + 1,
         Agree(r, m, s, k)
  PROVE  From(r, m) = From(s, k)
<1>0. /\ Len(r) + 1 - m = Len(s) + 1 - k
      /\ \A i \in 1..Len(s) + 1 - k : r[m - 1 + i] = s[k - 1 + i]
  BY DEF Agree
<1>1. /\ From(s, k) \in Seq(S)
      /\ Len(From(s, k)) = Len(s) + 1 - k
      /\ \A i \in 1..Len(s) + 1 - k : /\ From(s, k)[i] = s[k - 1 + i]
                                     /\ k - 1 + i \in 1..Len(s)
  BY FromProperties, Zenon
<1>2. /\ From(r, m) \in Seq(S)
      /\ Len(From(r, m)) = Len(r) + 1 - m
      /\ \A i \in 1..Len(r) + 1 - m : /\ From(r, m)[i] = r[m - 1 + i]
                                     /\ m - 1 + i \in 1..Len(r)
  BY FromProperties, Zenon
<1>3. PICK x, y : x = From(s, k) /\ y = From(r, m)
  OBVIOUS
<1>4. x \in Seq(S) /\ y \in Seq(S) /\ Len(y) = Len(x) /\ Len(y) = Len(s) + 1 - k
  BY <1>0, <1>1, <1>2, <1>3
<1>5. \A i \in 1..Len(s) + 1 - k : y[i] = x[i]
  BY <1>0, <1>1, <1>2, <1>3
<1>6. \A i \in 1..Len(y) : y[i] = x[i]
  BY <1>4, <1>5
<1>7. y = x
  BY <1>4, <1>6, SeqEqual
<1> QED BY <1>3, <1>7

LEMMA FromOfCons ==
  ASSUME NEW S, NEW s \in Seq(S), NEW e \in S, NEW k \in 1..Len(s) + 1
  PROVE  From(<<e>> \o s, k + 1) = From(s, k)
<1>0. PICK m : m = k + 1
  OBVIOUS
<1> DEFINE c == <<e>> \o s
<1>1. /\ c \in Seq(S) /\ Len(c) = Len(s) + 1 /\ Len(s) \in Nat
      /\ \A i \in 1..Len(s) : c[i + 1] = s[i]
  BY ConsProperties
<1> HIDE DEF c
<1>2. m \in 1..Len(c) + 1 /\ Len(c) + 1 - m = Len(s) + 1 - k
  BY <1>0, <1>1
<1>3. \A i \in 1..Len(s) + 1 - k : c[m - 1 + i] = s[k - 1 + i]
  <2>1. ASSUME NEW i \in 1..Len(s) + 1 - k PROVE m - 1 + i = (k - 1 + i) + 1 /\ k - 1 + i \in 1..Len(s)
    BY <1>0, <1>1
  <2> QED BY <1>1, <2>1
<1>4. From(c, m) = From(s, k)
  <2>1. c \in Seq(S) /\ m \in 1..Len(c) + 1 /\ Agree(c, m, s, k)
    BY <1>1, <1>2, <1>3 DEF Agree
  <2> QED BY <2>1, FromEqual
<1> QED BY <1>0, <1>4 DEF c

LEMMA FromOfRemovalAhead ==
  ASSUME NEW S, NEW s \in Seq(S), NEW p \in 1..Len(s), NEW k \in 1..Len(s) + 1, p < k,
         IsInjective(s)
  PROVE  From(RemoveFirst(s, s[p]), k - 1) = RemoveFirst(From(s, k), s[p])
<1>0. PICK m : m = k - 1
  OBVIOUS
<1> DEFINE r == RemoveFirst(s, s[p])
           q == From(s, k)
<1>1. /\ r \in Seq(S) /\ Len(r) = Len(s) - 1 /\ Len(s) \in Nat
      /\ \A i \in 1..Len(s) - 1 : r[i] = IF i < p THEN s[i] ELSE s[i + 1]
  BY RemoveFirstOf
<1>2. /\ q \in Seq(S) /\ Len(q) = Len(s) + 1 - k
      /\ \A i \in 1..Len(s) + 1 - k : q[i] = s[k - 1 + i] /\ k - 1 + i \in 1..Len(s)
  BY FromProperties, Zenon
<1> HIDE DEF r, q
<1>3. ASSUME NEW i \in 1..Len(q) PROVE q[i] # s[p]
  <2>1. k - 1 + i \in 1..Len(s) /\ q[i] = s[k - 1 + i]
    BY <1>2
  <2>2. k - 1 + i # p
    BY <1>1, <1>2
  <2> QED BY <2>1, <2>2 DEF IsInjective
<1>4. RemoveFirst(q, s[p]) = q
  BY <1>2, <1>3, RemoveFirstAbsent
<1>5. m \in 1..Len(r) + 1 /\ Len(r) + 1 - m = Len(s) + 1 - k
  BY <1>0, <1>1
<1>6. \A i \in 1..Len(s) + 1 - k : r[m - 1 + i] = s[k - 1 + i]
  <2>1. ASSUME NEW i \in 1..Len(s) + 1 - k
        PROVE  /\ ~(m - 1 + i < p) /\ (m - 1 + i) + 1 = k - 1 + i
               /\ m - 1 + i \in 1..Len(s) - 1
    BY <1>0, <1>1
  <2> QED BY <1>1, <2>1
<1>7. From(r, m) = From(s, k)
  <2>1. r \in Seq(S) /\ m \in 1..Len(r) + 1 /\ Agree(r, m, s, k)
    BY <1>1, <1>5, <1>6 DEF Agree
  <2> QED BY <2>1, FromEqual
<1> QED BY <1>0, <1>4, <1>7 DEF r, q

LEMMA FromOfRemovalBehind ==
  ASSUME NEW S, NEW s \in Seq(S), NEW p \in 1..Len(s), NEW k \in 1..Len(s) + 1, k <= p,
         IsInjective(s)
  PROVE  From(RemoveFirst(s, s[p]), k) = RemoveFirst(From(s, k), s[p])
<1>0. PICK j, n : j = p - k + 1 /\ n = Len(s) - k
  OBVIOUS
<1>a. /\ Len(s) \in Nat /\ k \in Nat /\ p \in Nat /\ 1 <= k /\ k <= p /\ p <= Len(s)
      /\ \A a, b \in 1..Len(s) : s[a] = s[b] => a = b
  BY DEF IsInjective
<1> DEFINE r == RemoveFirst(s, s[p])
           q == From(s, k)
<1>1. /\ r \in Seq(S) /\ Len(r) = Len(s) - 1 /\ Len(s) \in Nat
      /\ \A i \in 1..Len(s) - 1 : r[i] = IF i < p THEN s[i] ELSE s[i + 1]
  BY RemoveFirstOf
<1>2. /\ q \in Seq(S) /\ Len(q) = Len(s) + 1 - k
      /\ \A i \in 1..Len(s) + 1 - k : q[i] = s[k - 1 + i] /\ k - 1 + i \in 1..Len(s)
  BY FromProperties, Zenon
<1> HIDE DEF r, q
<1>3. /\ j \in 1..Len(s) + 1 - k /\ k - 1 + j = p /\ n \in Nat /\ n + 1 = Len(s) + 1 - k
      /\ k \in 1..Len(r) + 1 /\ Len(r) + 1 - k = n
  BY <1>0, <1>1
<1>4. Len(q) - 1 = n /\ j \in 1..Len(q) /\ q[j] = s[p] /\ 1 \in 1..Len(q)
  <2>1. j \in 1..Len(s) + 1 - k /\ k - 1 + j = p /\ n \in Nat /\ n + 1 = Len(s) + 1 - k
    BY <1>3
  <2>2. q[j] = s[k - 1 + j]
    BY <1>2, <2>1, Zenon
  <2>3. Len(q) = Len(s) + 1 - k
    BY <1>2, Zenon
  <2>4. j \in 1..Len(q)
    BY <2>1, <2>3, Zenon
  <2>5. Len(q) = n + 1 /\ n \in Nat
    BY <2>1, <2>3
  <2>6. Len(q) - 1 = n /\ 1 \in 1..Len(q)
    BY <2>5
  <2>7. q[j] = s[p]
    BY <2>1, <2>2
  <2> QED BY <2>4, <2>6, <2>7, Zenon
<1>5. IsInjective(q)
  <2>1. ASSUME NEW a \in 1..Len(q), NEW b \in 1..Len(q), q[a] = q[b] PROVE a = b
    <3>1. q[a] = s[k - 1 + a] /\ q[b] = s[k - 1 + b] /\ k - 1 + a \in 1..Len(s) /\ k - 1 + b \in 1..Len(s)
      BY <1>2
    <3>2. k - 1 + a = k - 1 + b
      BY <1>a, <2>1, <3>1
    <3>3. a \in Int /\ b \in Int /\ k \in Int
      BY <1>2
    <3> QED BY <3>2, <3>3
  <2>2. DOMAIN q = 1..Len(q)
    BY <1>2
  <2> QED BY <2>1, <2>2 DEF IsInjective
<1> DEFINE x == RemoveFirst(q, q[j])
<1>6. /\ x \in Seq(S) /\ Len(x) = Len(q) - 1
      /\ \A i \in 1..Len(q) - 1 : x[i] = IF i < j THEN q[i] ELSE q[i + 1]
  BY <1>2, <1>4, <1>5, RemoveFirstOf, Zenon
<1> HIDE DEF x
<1>7. /\ x \in Seq(S) /\ Len(x) = n /\ n \in Nat
      /\ \A i \in 1..n : x[i] = IF i < j THEN q[i] ELSE q[i + 1]
  BY <1>3, <1>4, <1>6
<1>8. From(x, 1) = x
  BY <1>6, FromEnd
<1>9. 1 \in 1..Len(x) + 1 /\ Len(r) + 1 - k = Len(x) + 1 - 1
  BY <1>3, <1>7
<1>10. \A i \in 1..Len(x) + 1 - 1 : r[k - 1 + i] = x[1 - 1 + i]
  <2>1. ASSUME NEW i \in 1..n PROVE r[k - 1 + i] = x[i]
    <3>1. /\ i < j <=> k - 1 + i < p
          /\ i \in 1..Len(s) + 1 - k /\ i + 1 \in 1..Len(s) + 1 - k
          /\ k - 1 + (i + 1) = (k - 1 + i) + 1
      BY <1>0, <1>a
    <3>2. k - 1 + i \in 1..Len(s) - 1
      BY <1>0, <1>a
    <3>3. x[i] = IF i < j THEN q[i] ELSE q[i + 1]
      BY <1>7
    <3>4. r[k - 1 + i] = IF k - 1 + i < p THEN s[k - 1 + i] ELSE s[(k - 1 + i) + 1]
      BY <1>1, <3>2
    <3>5. q[i] = s[k - 1 + i] /\ q[i + 1] = s[(k - 1 + i) + 1]
      BY <1>2, <3>1
    <3> QED BY <3>1, <3>3, <3>4, <3>5
  <2> QED BY <1>7, <2>1
<1>11. From(r, k) = From(x, 1)
  <2>1. r \in Seq(S) /\ x \in Seq(S) /\ k \in 1..Len(r) + 1 /\ 1 \in 1..Len(x) + 1
    BY <1>1, <1>3, <1>6, <1>9
  <2>2. Agree(r, k, x, 1)
    BY <1>9, <1>10 DEF Agree
  <2> QED BY <2>1, <2>2, FromEqual
<1> QED BY <1>4, <1>8, <1>11 DEF r, q, x

-----------------------------------------------------------------------------
(* The list its callers see. *)
Elements == [id : Node, value : Value]

(* The elements from position k on are those the walk of t has to meet.    *)
RestFrom(t, k) ==
  /\ k \in 1..Len(chain) + 1
  /\ ~InWalk(t) \/ pc[t] = "return" => k = Len(chain) + 1
  /\ InWalk(t) /\ pc[t] \in {"visit", "test"} => k # Len(chain) + 1 /\ chain[k] = succ[t]
  /\ InWalk(t) /\ pc[t] \in {"read_next", "lock_next", "unlock", "unlock_next", "destroy"} =>
       current[t] = IF k = 1 THEN Start ELSE chain[k - 1]

LEMMA ItemsBar ==
  ASSUME IInv
  PROVE  /\ itemsBar \in Seq(Elements) /\ Len(itemsBar) = Len(chain) /\ DOMAIN itemsBar = 1..Len(chain)
         /\ \A i \in 1..Len(chain) : itemsBar[i] = Element(chain[i])
         /\ \A i, j \in DOMAIN itemsBar : itemsBar[i] = itemsBar[j] => i = j
<1>1. /\ DOMAIN chain = 1..Len(chain) /\ Len(chain) \in Nat
      /\ \A i \in 1..Len(chain) : chain[i] \in Linked /\ Element(chain[i]) \in Elements
  BY Shape, ElementFacts DEF IInv, Elements
<1>2. itemsBar = [i \in 1..Len(chain) |-> Element(chain[i])]
  BY <1>1 DEF itemsBar, Items
<1>3. itemsBar \in Seq(Elements) /\ Len(itemsBar) = Len(chain) /\ DOMAIN itemsBar = 1..Len(chain)
  BY <1>1, <1>2
<1>4. \A i \in 1..Len(chain) : itemsBar[i].id = chain[i]
  BY <1>2 DEF Element
<1>5. \A i, j \in 1..Len(chain) : itemsBar[i] = itemsBar[j] => i = j
  <2>1. \A i, j \in 1..Len(chain) : chain[i] = chain[j] => i = j
    BY <1>1 DEF IInv, ListIntact
  <2> QED BY <1>4, <2>1
<1> QED BY <1>2, <1>3, <1>5

(* What comes after the element at a position. *)
LEMMA AfterPosition ==
  ASSUME IInv, NEW i \in 1..Len(chain)
  PROVE  After(chain[i]) = From(chain, i + 1)
<1>1. /\ chain[i] # Start /\ DOMAIN chain = 1..Len(chain)
      /\ \A j \in 1..Len(chain) : chain[j] = chain[i] => j = i
  BY Shape, ListAssumption DEF IInv, ListIntact, ListAssumption
<1>2. Position(chain[i]) = i
  BY <1>1 DEF Position
<1> QED BY <1>1, <1>2 DEF After, From

LEMMA RestExists ==
  ASSUME IInv, NEW t \in Thread
  PROVE  \E k \in 1..Len(chain) + 1 : RestFrom(t, k)
<1>1. Len(chain) \in Nat /\ \A n \in Linked : \E i \in 1..Len(chain) : n = chain[i]
  BY Shape DEF IInv
<1>2. CASE ~InWalk(t) \/ pc[t] = "return"
  BY <1>1, <1>2 DEF RestFrom
<1>3. CASE InWalk(t) /\ pc[t] \in {"visit", "test"}
  <2>1. PICK i \in 1..Len(chain) : succ[t] = chain[i]
    BY <1>1, <1>3 DEF IInv, WalkView
  <2> QED BY <1>1, <1>3, <2>1 DEF RestFrom
<1>4. CASE InWalk(t) /\ pc[t] \notin {"visit", "test", "return"}
  <2>1. pc[t] \in {"read_next", "lock_next", "unlock", "unlock_next", "destroy"}
    BY <1>4 DEF InWalk, WalkOp, IInv, TypeOK, Label, LocalView
  <2>2. current[t] \in Linked \cup {Start}
    BY <2>1 DEF IInv, WalkView
  <2>3. CASE current[t] = Start
    <3>1. 1 \in 1..Len(chain) + 1
      BY <1>1
    <3>2. RestFrom(t, 1)
      BY <1>4, <2>3, <3>1 DEF RestFrom
    <3> QED BY <3>1, <3>2
  <2>4. CASE current[t] # Start
    <3>1. PICK i \in 1..Len(chain) : current[t] = chain[i]
      BY <1>1, <2>2, <2>4
    <3>2. i + 1 \in 1..Len(chain) + 1 /\ i + 1 # 1 /\ (i + 1) - 1 = i
      BY <1>1
    <3> QED BY <1>4, <3>1, <3>2 DEF RestFrom
  <2> QED BY <2>3, <2>4
<1> QED BY <1>2, <1>3, <1>4

LEMMA RestIs ==
  ASSUME IInv, NEW t \in Thread, NEW k, RestFrom(t, k)
  PROVE  Rest(t) = From(chain, k)
<1>1. /\ chain \in Seq(Node) /\ Len(chain) \in Nat /\ k \in 1..Len(chain) + 1
  BY Shape DEF IInv, TypeOK, RestFrom
<1>2. CASE ~InWalk(t) \/ pc[t] = "return"
  <2>1. k = Len(chain) + 1
    BY <1>2 DEF RestFrom
  <2>2. From(chain, Len(chain) + 1) = <<>>
    BY <1>1, FromEnd, Zenon
  <2>3. pc[t] \in {"visit", "test"} => InWalk(t)
    BY DEF IInv, LocalView, InWalk, WalkOp
  <2> QED BY <1>2, <2>1, <2>2, <2>3 DEF Rest
<1>3. CASE InWalk(t) /\ pc[t] \in {"visit", "test"}
  <2>1. k \in 1..Len(chain) /\ chain[k] = succ[t] /\ Len(chain) \in k..Len(chain)
    BY <1>1, <1>3 DEF RestFrom
  <2>2. After(succ[t]) = From(chain, k + 1)
    BY <2>1, AfterPosition
  <2>3. From(chain, k) = <<chain[k]>> \o From(chain, k + 1)
    BY <1>1, <2>1, SubSeqRecursiveFirst DEF From
  <2> QED BY <1>3, <2>1, <2>2, <2>3 DEF Rest
<1>4. CASE InWalk(t) /\ pc[t] \notin {"visit", "test", "return"}
  <2>1. pc[t] \in {"read_next", "lock_next", "unlock", "unlock_next", "destroy"}
    BY <1>4 DEF InWalk, WalkOp, IInv, TypeOK, Label, LocalView
  <2>2. current[t] = IF k = 1 THEN Start ELSE chain[k - 1]
    BY <1>4, <2>1 DEF RestFrom
  <2>3. Rest(t) = After(current[t])
    BY <1>4, <2>1 DEF Rest
  <2>4. CASE k = 1
    BY <1>1, <2>2, <2>3, <2>4, FromEnd DEF After
  <2>5. CASE k # 1
    <3>1. k - 1 \in 1..Len(chain) /\ (k - 1) + 1 = k
      BY <1>1, <2>5
    <3> QED BY <2>2, <2>3, <2>5, <3>1, AfterPosition
  <2> QED BY <2>4, <2>5
<1> QED BY <1>2, <1>3, <1>4

(* The elements still to meet are the last ones of the list. *)
LEMMA RestIsFrom ==
  ASSUME IInv, NEW t \in Thread, NEW k, RestFrom(t, k)
  PROVE  restBar[t] = From(itemsBar, k)
<1>1. PICK q, x, n : q = From(chain, k) /\ x = From(itemsBar, k) /\ n = Len(chain) + 1 - k
  OBVIOUS
<1>2. /\ chain \in Seq(Node) /\ Len(chain) \in Nat /\ k \in 1..Len(chain) + 1 /\ n \in Nat
  BY <1>1, Shape DEF IInv, TypeOK, RestFrom
<1>3. q \in Seq(Node) /\ Len(q) = n
      /\ \A i \in 1..n : q[i] = chain[k - 1 + i] /\ k - 1 + i \in 1..Len(chain)
  BY <1>1, <1>2, FromProperties
<1>4. x \in Seq(Elements) /\ Len(x) = n /\ \A i \in 1..n : x[i] = itemsBar[k - 1 + i]
  <2>1. itemsBar \in Seq(Elements) /\ Len(itemsBar) = Len(chain)
    BY ItemsBar
  <2>2. PICK c : c = itemsBar
    OBVIOUS
  <2> QED BY <1>1, <1>2, <2>1, <2>2, FromProperties
<1>5. \A i \in 1..n : Element(q[i]) = x[i] /\ x[i] \in Elements
  <2>1. \A i \in 1..n : Element(q[i]) = x[i]
    BY <1>3, <1>4, ItemsBar
  <2> QED BY <1>4, <2>1
<1>6. Items(q) = [i \in 1..n |-> Element(q[i])]
  <2>1. DOMAIN q = 1..n
    BY <1>3
  <2> QED BY <2>1 DEF Items
<1>7. Items(q) = [i \in 1..n |-> x[i]]
  BY <1>5, <1>6
<1>8. Items(q) = x
  BY <1>4, <1>7
<1>9. restBar[t] = Items(q)
  BY <1>1, RestIs DEF restBar
<1> QED BY <1>1, <1>8, <1>9

LEMMA RestIsFromNext ==
  IInv' => (\A t \in Thread, k \in Nat : RestFrom(t, k) => restBar[t] = From(itemsBar, k))'
<1>1. IInv => \A t \in Thread, k \in Nat : RestFrom(t, k) => restBar[t] = From(itemsBar, k)
  BY RestIsFrom
<1> QED BY <1>1, PTL

LEMMA ItemsBarNext ==
  IInv' => (/\ itemsBar \in Seq(Elements) /\ Len(itemsBar) = Len(chain)
            /\ \A i \in 1..Len(chain) : itemsBar[i] = Element(chain[i]))'
<1>1. IInv => /\ itemsBar \in Seq(Elements) /\ Len(itemsBar) = Len(chain)
              /\ \A i \in 1..Len(chain) : itemsBar[i] = Element(chain[i])
  BY ItemsBar
<1> QED BY <1>1, PTL

(* The node after the one a walk stands on is the next it has to meet.     *)
LEMMA NextIsFirstLeft ==
  ASSUME IInv, NEW t \in Thread, NEW k \in 1..Len(chain) + 1,
         current[t] = IF k = 1 THEN Start ELSE chain[k - 1]
  PROVE  next[current[t]] = IF k = Len(chain) + 1 THEN Null ELSE chain[k]
<1>1. Len(chain) \in Nat /\ DOMAIN chain = 1..Len(chain) /\ (chain = <<>> <=> Len(chain) = 0)
  BY Shape DEF IInv
<1>2. CASE k = 1
  BY <1>1, <1>2 DEF IInv, ListIntact
<1>3. CASE k # 1
  <2>1. /\ k - 1 \in 1..Len(chain) /\ (k - 1) + 1 = k
        /\ (k - 1 = Len(chain) <=> k = Len(chain) + 1)
    BY <1>1, <1>3
  <2>2. next[chain[k - 1]] = IF k - 1 = Len(chain) THEN Null ELSE chain[(k - 1) + 1]
    BY <1>1, <2>1 DEF IInv, ListIntact
  <2> QED BY <1>3, <2>1, <2>2
<1> QED BY <1>2, <1>3

(* The element f or p is called with is the first one left to meet.        *)
LEMMA MeetsFirst ==
  ASSUME IInv, NEW t \in Thread, pc[t] \in {"visit", "test"}
  PROVE  /\ InWalk(t) /\ restBar[t] # <<>> /\ Head(restBar[t]) = Element(succ[t])
         /\ \E k \in 1..Len(chain) :
              /\ RestFrom(t, k) /\ chain[k] = succ[t] /\ itemsBar[k] = Element(succ[t])
              /\ Tail(restBar[t]) = From(itemsBar, k + 1)
<1>1. InWalk(t)
  BY DEF IInv, LocalView, InWalk, WalkOp
<1>2. PICK k \in 1..Len(chain) + 1 : RestFrom(t, k)
  BY RestExists
<1>3. k \in 1..Len(chain) /\ chain[k] = succ[t]
  BY <1>1, <1>2, Shape DEF RestFrom, IInv
<1>4. itemsBar \in Seq(Elements) /\ Len(itemsBar) = Len(chain) /\ itemsBar[k] = Element(succ[t])
  BY <1>3, ItemsBar
<1>5. restBar[t] = From(itemsBar, k)
  BY <1>2, RestIsFrom
<1>6. k \in 1..Len(itemsBar)
  BY <1>3, <1>4
<1>7. /\ From(itemsBar, k) # <<>> /\ Head(From(itemsBar, k)) = itemsBar[k]
      /\ Tail(From(itemsBar, k)) = From(itemsBar, k + 1)
  BY <1>4, <1>6, FromHeadTail, Zenon
<1> QED BY <1>1, <1>2, <1>3, <1>4, <1>5, <1>7

(* Nothing is left to meet at the end of the list. *)
LEMMA NothingLeft ==
  ASSUME IInv, NEW t \in Thread, RestFrom(t, Len(chain) + 1)
  PROVE  restBar[t] = <<>>
<1>1. itemsBar \in Seq(Elements) /\ Len(itemsBar) = Len(chain)
  BY ItemsBar
<1>2. restBar[t] = From(itemsBar, Len(itemsBar) + 1)
  BY <1>1, RestIsFrom
<1> QED BY <1>1, <1>2, FromEnd, Zenon

LEMMA NothingLeftNext ==
  IInv' => (\A t \in Thread : RestFrom(t, Len(chain) + 1) => restBar[t] = <<>>)'
<1>1. IInv => \A t \in Thread : RestFrom(t, Len(chain) + 1) => restBar[t] = <<>>
  BY NothingLeft
<1> QED BY <1>1, PTL

(* A step that leaves the list alone is seen by no other walk. *)
LEMMA OthersSeeNothing ==
  ASSUME IInv, IInv', NEW t \in Thread, chain' = chain, \A n \in Linked : data'[n] = data[n],
         \A u \in Thread \ {t} : /\ pc'[u] = pc[u] /\ op'[u] = op[u]
                                 /\ current'[u] = current[u] /\ succ'[u] = succ[u]
  PROVE  /\ itemsBar' = itemsBar
         /\ \A u \in Thread \ {t} : opBar'[u] = opBar[u] /\ restBar'[u] = restBar[u]
<1>1. itemsBar' = itemsBar
  <2>1. \A i \in DOMAIN chain : data'[chain[i]] = data[chain[i]]
    BY Shape DEF IInv
  <2> QED BY <2>1 DEF itemsBar, Items, Element
<1>2. ASSUME NEW u \in Thread \ {t} PROVE opBar'[u] = opBar[u]
  BY DEF opBar, InWalk
<1>3. ASSUME NEW u \in Thread \ {t} PROVE restBar'[u] = restBar[u]
  <2>1. PICK k \in 1..Len(chain) + 1 : RestFrom(u, k)
    BY RestExists
  <2>2. k \in Nat
    BY Shape DEF IInv
  <2>3. RestFrom(u, k)'
    BY <2>1 DEF RestFrom, InWalk
  <2> QED BY <1>1, <2>1, <2>2, <2>3, RestIsFrom, RestIsFromNext
<1> QED BY <1>1, <1>2, <1>3

(* Functions that agree except at one point. *)
LEMMA ChangedAt ==
  ASSUME NEW t \in Thread, NEW f, NEW g,
         f = [u \in Thread |-> f[u]], g = [u \in Thread |-> g[u]],
         \A u \in Thread \ {t} : g[u] = f[u]
  PROVE  g = [f EXCEPT ![t] = g[t]] /\ (g[t] = f[t] => g = f)
<1>1. g = [f EXCEPT ![t] = g[t]]
  OBVIOUS
<1>2. g[t] = f[t] => g = f
  OBVIOUS
<1> QED BY <1>1, <1>2

LEMMA BarChangedAt ==
  ASSUME NEW t \in Thread,
         \A u \in Thread \ {t} : opBar'[u] = opBar[u] /\ restBar'[u] = restBar[u]
  PROVE  /\ opBar' = [opBar EXCEPT ![t] = opBar'[t]]
         /\ restBar' = [restBar EXCEPT ![t] = restBar'[t]]
         /\ opBar'[t] = opBar[t] => opBar' = opBar
         /\ restBar'[t] = restBar[t] => restBar' = restBar
<1>1. PICK f, g : f = opBar /\ g = opBar'
  OBVIOUS
<1>2. PICK h, k : h = restBar /\ k = restBar'
  OBVIOUS
<1>3. f = [u \in Thread |-> f[u]] /\ g = [u \in Thread |-> g[u]]
  BY <1>1 DEF opBar
<1>4. h = [u \in Thread |-> h[u]] /\ k = [u \in Thread |-> k[u]]
  BY <1>2 DEF restBar
<1>5. g = [f EXCEPT ![t] = g[t]] /\ (g[t] = f[t] => g = f)
  BY <1>1, <1>3, ChangedAt
<1>6. k = [h EXCEPT ![t] = k[t]] /\ (k[t] = h[t] => k = h)
  BY <1>2, <1>4, ChangedAt
<1> QED BY <1>1, <1>2, <1>5, <1>6

(* A step that no caller can see. *)
LEMMA Silent ==
  ASSUME IInv, IInv', NEW t \in Thread, chain' = chain, \A n \in Linked : data'[n] = data[n],
         \A u \in Thread \ {t} : /\ pc'[u] = pc[u] /\ op'[u] = op[u]
                                 /\ current'[u] = current[u] /\ succ'[u] = succ[u],
         opBar'[t] = opBar[t], UNCHANGED <<res, met>>,
         \A k \in 1..Len(chain) + 1 : RestFrom(t, k) => RestFrom(t, k)'
  PROVE  UNCHANGED AL!vars
<1>1. /\ itemsBar' = itemsBar
      /\ \A u \in Thread \ {t} : opBar'[u] = opBar[u] /\ restBar'[u] = restBar[u]
  BY OthersSeeNothing
<1>2. PICK k \in 1..Len(chain) + 1 : RestFrom(t, k)
  BY RestExists
<1>3. k \in Nat /\ RestFrom(t, k)'
  BY <1>2, Shape DEF IInv
<1>4. restBar'[t] = restBar[t]
  BY <1>1, <1>2, <1>3, RestIsFrom, RestIsFromNext
<1>5. opBar' = opBar /\ restBar' = restBar
  BY <1>1, <1>4, BarChangedAt
<1> QED BY <1>1, <1>5 DEF AL!vars

LEMMA BeginSilent ==
  ASSUME IInv, IInv', NEW t \in Thread, BeginPush(t) \/ BeginWalk(t)
  PROVE  UNCHANGED AL!vars
<1>1. /\ chain' = chain /\ UNCHANGED <<res, met>>
      /\ pc[t] = "idle" /\ pc'[t] = "lock_start"
      /\ \A u \in Thread \ {t} : /\ pc'[u] = pc[u] /\ op'[u] = op[u]
                                 /\ current'[u] = current[u] /\ succ'[u] = succ[u]
  BY DEF BeginPush, BeginWalk, Goto, nodes, IInv, TypeOK
<1>2. op[t] = "none"
  BY <1>1 DEF IInv, LocalView
<1>3. \A n \in Linked : data'[n] = data[n]
  <2>1. CASE BeginWalk(t)
    BY <2>1 DEF BeginWalk, nodes
  <2>2. CASE BeginPush(t)
    <3>1. PICK m \in Node \ live, v \in Value : data' = [data EXCEPT ![m] = v]
      BY <2>2 DEF BeginPush
    <3> QED BY <3>1, Shape DEF IInv, TypeOK
  <2> QED BY <2>1, <2>2
<1>4. ~InWalk(t) /\ ~InWalk(t)'
  BY <1>1, <1>2 DEF InWalk, WalkOp
<1>5. opBar'[t] = opBar[t]
  BY <1>4 DEF opBar
<1>6. \A k \in 1..Len(chain) + 1 : RestFrom(t, k) => RestFrom(t, k)'
  BY <1>1, <1>4 DEF RestFrom
<1> QED BY <1>1, <1>3, <1>5, <1>6, Silent

(* A walk begins when it has locked the mutex of m_head. *)
LEMMA LockStartSeen ==
  ASSUME IInv, IInv', NEW t \in Thread, LockStart(t)
  PROVE  AL!Begin(t) \/ UNCHANGED AL!vars
<1>1. /\ chain' = chain /\ UNCHANGED <<data, op, current, res, met>>
      /\ pc[t] = "lock_start"
      /\ pc'[t] = IF op[t] = "push_front" THEN "link" ELSE "read_next"
      /\ \A u \in Thread \ {t} : /\ pc'[u] = pc[u] /\ op'[u] = op[u]
                                 /\ current'[u] = current[u] /\ succ'[u] = succ[u]
  BY DEF LockStart, Goto, nodes, locals, IInv, TypeOK
<1>2. op[t] \in WalkOp \cup {"push_front"} /\ current[t] = Start /\ ~InWalk(t)
  BY <1>1 DEF IInv, LocalView, TypeOK, InWalk
<1>3. CASE op[t] = "push_front"
  <2>1. ~InWalk(t)'
    BY <1>1, <1>3 DEF InWalk, WalkOp
  <2>2. opBar'[t] = opBar[t]
    BY <1>2, <2>1 DEF opBar
  <2>3. \A k \in 1..Len(chain) + 1 : RestFrom(t, k) => RestFrom(t, k)'
    BY <1>1, <1>2, <2>1 DEF RestFrom
  <2> QED BY <1>1, <2>2, <2>3, Silent
<1>4. CASE op[t] \in WalkOp
  <2>1. pc'[t] = "read_next" /\ InWalk(t)'
    BY <1>1, <1>4 DEF InWalk, WalkOp
  <2>2. /\ itemsBar' = itemsBar
        /\ \A u \in Thread \ {t} : opBar'[u] = opBar[u] /\ restBar'[u] = restBar[u]
    BY <1>1, OthersSeeNothing
  <2>3. opBar[t] = "none" /\ opBar'[t] = op[t]
    BY <1>1, <1>2, <2>1 DEF opBar
  <2>4. RestFrom(t, 1)'
    BY <1>1, <1>2, <2>1, Shape DEF RestFrom, IInv
  <2>5. restBar'[t] = itemsBar
    <3>1. restBar'[t] = From(itemsBar', 1)
      BY <2>4, RestIsFromNext
    <3>2. From(itemsBar, 1) = itemsBar
      BY ItemsBar, FromEnd
    <3> QED BY <2>2, <3>1, <3>2
  <2>6. opBar' = [opBar EXCEPT ![t] = op[t]] /\ restBar' = [restBar EXCEPT ![t] = itemsBar]
    BY <2>2, <2>3, <2>5, BarChangedAt
  <2> QED BY <1>1, <1>4, <2>2, <2>3, <2>6 DEF AL!Begin, WalkOp
<1> QED BY <1>2, <1>3, <1>4

LEMMA ReadNextSilent ==
  ASSUME IInv, IInv', NEW t \in Thread, ReadNext(t)
  PROVE  UNCHANGED AL!vars
<1>1. /\ chain' = chain /\ UNCHANGED <<data, op, current, res, met>>
      /\ pc[t] = "read_next" /\ pc'[t] = "lock_next"
      /\ \A u \in Thread \ {t} : /\ pc'[u] = pc[u] /\ op'[u] = op[u]
                                 /\ current'[u] = current[u] /\ succ'[u] = succ[u]
  BY DEF ReadNext, Goto, nodes, IInv, TypeOK
<1>2. InWalk(t)' = InWalk(t)
  BY <1>1 DEF InWalk
<1>3. opBar'[t] = opBar[t]
  BY <1>1, <1>2 DEF opBar
<1>4. \A k \in 1..Len(chain) + 1 : RestFrom(t, k) => RestFrom(t, k)'
  BY <1>1, <1>2 DEF RestFrom
<1> QED BY <1>1, <1>3, <1>4, Silent

LEMMA LockNextSilent ==
  ASSUME IInv, IInv', NEW t \in Thread, LockNext(t)
  PROVE  UNCHANGED AL!vars
<1>1. /\ chain' = chain /\ UNCHANGED <<data, op, current, succ, res, met>>
      /\ pc[t] = "lock_next" /\ pc'[t] \in {"test", "unlock"}
      /\ \A u \in Thread \ {t} : /\ pc'[u] = pc[u] /\ op'[u] = op[u]
                                 /\ current'[u] = current[u] /\ succ'[u] = succ[u]
  BY DEF LockNext, Goto, nodes, locals, IInv, TypeOK
<1>2. InWalk(t)' = InWalk(t)
  BY <1>1 DEF InWalk
<1>3. opBar'[t] = opBar[t]
  BY <1>1, <1>2 DEF opBar
<1>4. ASSUME NEW k \in 1..Len(chain) + 1, RestFrom(t, k) PROVE RestFrom(t, k)'
  <2>1. InWalk(t) => /\ current[t] = IF k = 1 THEN Start ELSE chain[k - 1]
                     /\ next[current[t]] = succ[t] /\ succ[t] # Null
    BY <1>1, <1>4, Shape, ListAssumption DEF RestFrom, IInv, WalkView, ListAssumption
  <2>2. InWalk(t) => k # Len(chain) + 1 /\ chain[k] = succ[t]
    BY <2>1, NextIsFirstLeft
  <2> QED BY <1>1, <1>2, <1>4, <2>1, <2>2 DEF RestFrom
<1> QED BY <1>1, <1>3, <1>4, Silent

LEMMA UnlockCurrentSilent ==
  ASSUME IInv, IInv', NEW t \in Thread, UnlockCurrent(t)
  PROVE  UNCHANGED AL!vars
<1>1. /\ chain' = chain /\ UNCHANGED <<data, op, current, succ, res, met>>
      /\ pc[t] = "unlock" /\ pc'[t] = "visit"
      /\ \A u \in Thread \ {t} : /\ pc'[u] = pc[u] /\ op'[u] = op[u]
                                 /\ current'[u] = current[u] /\ succ'[u] = succ[u]
  BY DEF UnlockCurrent, Goto, nodes, locals, IInv, TypeOK
<1>2. InWalk(t)' = InWalk(t)
  BY <1>1 DEF InWalk
<1>3. opBar'[t] = opBar[t]
  BY <1>1, <1>2 DEF opBar
<1>4. ASSUME NEW k \in 1..Len(chain) + 1, RestFrom(t, k) PROVE RestFrom(t, k)'
  <2>1. InWalk(t) => /\ current[t] = IF k = 1 THEN Start ELSE chain[k - 1]
                     /\ next[current[t]] = succ[t] /\ succ[t] # Null
    BY <1>1, <1>4, Shape, ListAssumption DEF RestFrom, IInv, WalkView, ListAssumption
  <2>2. InWalk(t) => k # Len(chain) + 1 /\ chain[k] = succ[t]
    BY <2>1, NextIsFirstLeft
  <2> QED BY <1>1, <1>2, <1>4, <2>1, <2>2 DEF RestFrom
<1> QED BY <1>1, <1>3, <1>4, Silent

LEMMA UnlockNextDestroySilent ==
  ASSUME IInv, IInv', NEW t \in Thread, UnlockNext(t) \/ Destroy(t)
  PROVE  UNCHANGED AL!vars
<1>1. /\ chain' = chain /\ UNCHANGED <<data, op, current, succ, res, met>>
      /\ pc[t] \in {"unlock_next", "destroy"} /\ pc'[t] \in {"destroy", "read_next"}
      /\ \A u \in Thread \ {t} : /\ pc'[u] = pc[u] /\ op'[u] = op[u]
                                 /\ current'[u] = current[u] /\ succ'[u] = succ[u]
  BY DEF UnlockNext, Destroy, Goto, nodes, locals, IInv, TypeOK
<1>2. InWalk(t)' = InWalk(t)
  BY <1>1 DEF InWalk
<1>3. opBar'[t] = opBar[t]
  BY <1>1, <1>2 DEF opBar
<1>4. \A k \in 1..Len(chain) + 1 : RestFrom(t, k) => RestFrom(t, k)'
  BY <1>1, <1>2 DEF RestFrom
<1> QED BY <1>1, <1>3, <1>4, Silent

(* f has been called, or p has said no: the walk goes on. *)
LEMMA PassSeen ==
  ASSUME IInv, IInv', NEW t \in Thread, Visit(t) \/ Keep(t)
  PROVE  AL!Pass(t)
<1>1. /\ chain' = chain /\ UNCHANGED <<data, op, succ, res>>
      /\ pc[t] \in {"visit", "test"} /\ pc'[t] = "read_next" /\ current'[t] = succ[t]
      /\ met' = [met EXCEPT ![t] = Element(succ[t])]
      /\ \A u \in Thread \ {t} : /\ pc'[u] = pc[u] /\ op'[u] = op[u]
                                 /\ current'[u] = current[u] /\ succ'[u] = succ[u]
  BY DEF Visit, Keep, Advance, Meet, Goto, nodes, IInv, TypeOK
<1>2. /\ itemsBar' = itemsBar
      /\ \A u \in Thread \ {t} : opBar'[u] = opBar[u] /\ restBar'[u] = restBar[u]
  BY <1>1, OthersSeeNothing
<1>3. /\ InWalk(t) /\ restBar[t] # <<>> /\ Head(restBar[t]) = Element(succ[t])
      /\ \E k \in 1..Len(chain) :
           /\ RestFrom(t, k) /\ chain[k] = succ[t]
           /\ Tail(restBar[t]) = From(itemsBar, k + 1)
  BY <1>1, MeetsFirst
<1>4. PICK k \in 1..Len(chain) : chain[k] = succ[t] /\ Tail(restBar[t]) = From(itemsBar, k + 1)
  BY <1>3
<1>5. /\ k + 1 \in 1..Len(chain) + 1 /\ k + 1 # 1 /\ (k + 1) - 1 = k /\ k + 1 \in Nat
  BY Shape DEF IInv
<1>6. InWalk(t)'
  BY <1>1, <1>3 DEF InWalk
<1>7. RestFrom(t, k + 1)'
  BY <1>1, <1>4, <1>5, <1>6 DEF RestFrom
<1>8. restBar'[t] = Tail(restBar[t])
  BY <1>2, <1>4, <1>5, <1>7, RestIsFromNext
<1>9. opBar'[t] = opBar[t]
  BY <1>1, <1>3, <1>6 DEF opBar
<1>10. restBar' = [restBar EXCEPT ![t] = Tail(restBar[t])] /\ opBar' = opBar
  BY <1>2, <1>8, <1>9, BarChangedAt
<1> QED BY <1>1, <1>2, <1>3, <1>10 DEF AL!Pass, AL!Meet

(* find_first_if has its result, or f or p has thrown: the walk is over. *)
LEMMA FindThrowSeen ==
  ASSUME IInv, IInv', NEW t \in Thread, Find(t) \/ Throw(t)
  PROVE  AL!Find(t) \/ AL!Throw(t)
<1>1. /\ chain' = chain /\ UNCHANGED <<data, op, succ, current>>
      /\ pc[t] \in {"visit", "test"} /\ pc'[t] = "return"
      /\ met' = [met EXCEPT ![t] = Element(succ[t])]
      /\ \/ op[t] = "find_first_if" /\ res' = [res EXCEPT ![t] = Element(succ[t])]
         \/ res' = [res EXCEPT ![t] = Thrown]
      /\ \A u \in Thread \ {t} : /\ pc'[u] = pc[u] /\ op'[u] = op[u]
                                 /\ current'[u] = current[u] /\ succ'[u] = succ[u]
  BY DEF Find, Throw, Meet, Goto, nodes, IInv, TypeOK
<1>2. /\ itemsBar' = itemsBar
      /\ \A u \in Thread \ {t} : opBar'[u] = opBar[u] /\ restBar'[u] = restBar[u]
  BY <1>1, OthersSeeNothing
<1>3. InWalk(t) /\ restBar[t] # <<>> /\ Head(restBar[t]) = Element(succ[t])
  BY <1>1, MeetsFirst
<1>4. InWalk(t)'
  BY <1>1, <1>3 DEF InWalk
<1>5. RestFrom(t, Len(chain) + 1)'
  BY <1>1, <1>4, Shape DEF RestFrom, IInv
<1>6. restBar'[t] = <<>>
  BY <1>5, NothingLeftNext
<1>7. opBar'[t] = opBar[t] /\ opBar[t] = op[t]
  BY <1>1, <1>3, <1>4 DEF opBar
<1>8. restBar' = [restBar EXCEPT ![t] = <<>>] /\ opBar' = opBar
  BY <1>2, <1>6, <1>7, BarChangedAt
<1>9. CASE op[t] = "find_first_if" /\ res' = [res EXCEPT ![t] = Element(succ[t])]
  BY <1>1, <1>2, <1>3, <1>7, <1>8, <1>9 DEF AL!Find, AL!Meet
<1>10. CASE res' = [res EXCEPT ![t] = Thrown]
  BY <1>1, <1>2, <1>3, <1>8, <1>10 DEF AL!Throw, AL!Meet
<1> QED BY <1>1, <1>9, <1>10

(* A walk that has come to its end returns. *)
LEMMA ReturnSeen ==
  ASSUME IInv, IInv', NEW t \in Thread, Return(t) \/ EndOfList(t)
  PROVE  AL!Return(t)
<1>1. /\ chain' = chain /\ data' = data
      /\ pc[t] \in {"return", "read_next"} /\ (pc[t] = "read_next" => next[current[t]] = Null)
      /\ pc'[t] = "idle" /\ op'[t] = "none"
      /\ met' = [met EXCEPT ![t] = None] /\ res' = [res EXCEPT ![t] = None]
      /\ \A u \in Thread \ {t} : /\ pc'[u] = pc[u] /\ op'[u] = op[u]
                                 /\ current'[u] = current[u] /\ succ'[u] = succ[u]
  BY DEF Return, EndOfList, Leave, Goto, nodes, IInv, TypeOK
<1>2. /\ itemsBar' = itemsBar
      /\ \A u \in Thread \ {t} : opBar'[u] = opBar[u] /\ restBar'[u] = restBar[u]
  BY <1>1, OthersSeeNothing
<1>3. InWalk(t) /\ ~InWalk(t)'
  BY <1>1 DEF InWalk, WalkOp, IInv, TypeOK, LocalView
<1>4. PICK k \in 1..Len(chain) + 1 : RestFrom(t, k)
  BY RestExists
<1>5. k = Len(chain) + 1
  <2>1. CASE pc[t] = "return"
    BY <1>4, <2>1 DEF RestFrom
  <2>2. CASE pc[t] = "read_next"
    <3>1. current[t] = IF k = 1 THEN Start ELSE chain[k - 1]
      BY <1>3, <1>4, <2>2 DEF RestFrom
    <3>2. Null = IF k = Len(chain) + 1 THEN Null ELSE chain[k]
      BY <1>1, <2>2, <3>1, NextIsFirstLeft
    <3>3. k # Len(chain) + 1 => chain[k] # Null
      BY Shape, ListAssumption DEF IInv, ListAssumption
    <3> QED BY <3>2, <3>3
  <2> QED BY <1>1, <2>1, <2>2
<1>6. restBar[t] = <<>>
  BY <1>4, <1>5, NothingLeft
<1>7. RestFrom(t, Len(chain) + 1)'
  BY <1>1, <1>3, <1>4, <1>5 DEF RestFrom
<1>8. restBar'[t] = <<>>
  BY <1>7, NothingLeftNext
<1>9. opBar'[t] = "none" /\ opBar[t] # "none"
  BY <1>3 DEF opBar, InWalk, WalkOp
<1>10. opBar' = [opBar EXCEPT ![t] = "none"] /\ restBar' = restBar
  BY <1>2, <1>6, <1>8, <1>9, BarChangedAt
<1> QED BY <1>1, <1>2, <1>6, <1>9, <1>10 DEF AL!Return

-----------------------------------------------------------------------------
(* push_front: the element appears in front, and no walk meets it, because *)
(* no walk stands on m_head while its mutex is held.                       *)
LEMMA LinkFrontItems ==
  ASSUME IInv, IInv', NEW t \in Thread, LinkFront(t)
  PROVE  /\ \E id \in Node, v \in Value :
              /\ \A i \in DOMAIN itemsBar : itemsBar[i].id # id
              /\ itemsBar' = <<[id |-> id, value |-> v]>> \o itemsBar
         /\ Len(chain') = Len(chain) + 1 /\ \A i \in 1..Len(chain) : chain'[i + 1] = chain[i]
         /\ \E e \in Elements : itemsBar' = <<e>> \o itemsBar
<1>0. PICK m, e : m = mine[t] /\ e = Element(m)
  OBVIOUS
<1>1. m \in live \ Linked /\ m \in Node /\ data[m] \in Value /\ Linked \subseteq Node
  <2>1. m # Null
    BY <1>0 DEF LinkFront, IInv, LocalView
  <2>2. m \in live \ Linked /\ live \subseteq Node
    BY <1>0, <2>1, Shape DEF IInv, TypeOK
  <2> QED BY <2>2, Shape DEF IInv, LiveData
<1>2. e \in Elements /\ e = [id |-> m, value |-> data[m]]
  BY <1>0, <1>1 DEF Element, Elements
<1>3. /\ Len(chain') = Len(chain) + 1 /\ chain'[1] = m /\ Len(chain) \in Nat
      /\ \A i \in 1..Len(chain) : chain'[i + 1] = chain[i]
  <2> DEFINE c == <<m>> \o chain
  <2>1. /\ Len(c) = Len(chain) + 1 /\ c[1] = m
        /\ \A i \in 1..Len(chain) : c[i + 1] = chain[i]
    BY <1>1, ConsProperties DEF IInv, TypeOK
  <2>2. chain' = c
    BY <1>0 DEF LinkFront
  <2> HIDE DEF c
  <2> QED BY <2>1, <2>2, Shape DEF IInv
<1>4. /\ itemsBar \in Seq(Elements) /\ Len(itemsBar) = Len(chain) /\ DOMAIN itemsBar = 1..Len(chain)
      /\ \A i \in 1..Len(chain) : itemsBar[i] = Element(chain[i])
  BY ItemsBar
<1>5. /\ itemsBar' \in Seq(Elements) /\ Len(itemsBar') = Len(chain')
      /\ \A i \in 1..Len(chain') : itemsBar'[i] = Element(chain'[i])
  <2>1. /\ itemsBar' \in Seq(Elements) /\ Len(itemsBar') = Len(chain')
        /\ \A i \in 1..Len(chain') : itemsBar'[i] = Element(chain[i])'
    BY ItemsBarNext
  <2>2. data' = data
    BY DEF LinkFront
  <2> QED BY <2>1, <2>2 DEF Element
<1> DEFINE d == <<e>> \o itemsBar
<1>6. /\ d \in Seq(Elements) /\ Len(d) = Len(chain) + 1 /\ d[1] = e
      /\ \A i \in 1..Len(chain) : d[i + 1] = itemsBar[i]
  BY <1>2, <1>4, ConsProperties
<1> HIDE DEF d
<1>7. ASSUME NEW i \in 1..Len(d) PROVE d[i] = itemsBar'[i]
  <2>1. i \in 1..Len(chain')
    BY <1>3, <1>6
  <2>2. CASE i = 1
    BY <1>0, <1>3, <1>5, <1>6, <2>1, <2>2
  <2>3. CASE i # 1
    <3>1. i - 1 \in 1..Len(chain) /\ (i - 1) + 1 = i
      BY <1>3, <1>6, <2>3
    <3>2. d[i] = itemsBar[i - 1] /\ chain'[i] = chain[i - 1]
      BY <1>3, <1>6, <3>1
    <3> QED BY <1>4, <1>5, <2>1, <3>1, <3>2
  <2> QED BY <2>2, <2>3
<1>8. itemsBar' = d
  BY <1>3, <1>5, <1>6, <1>7, SeqEqual
<1>9. \A i \in DOMAIN itemsBar : itemsBar[i].id # m
  <2>1. \A i \in 1..Len(chain) : itemsBar[i].id = chain[i] /\ chain[i] \in Linked
    BY <1>4, Shape DEF Element, IInv
  <2> QED BY <1>1, <1>4, <2>1
<1>10. itemsBar' = <<e>> \o itemsBar
  BY <1>8 DEF d
<1>11. itemsBar' = <<[id |-> m, value |-> data[m]]>> \o itemsBar
  BY <1>2, <1>10
<1> QED BY <1>1, <1>2, <1>3, <1>9, <1>10, <1>11

LEMMA LinkFrontSeen ==
  ASSUME IInv, IInv', NEW t \in Thread, LinkFront(t)
  PROVE  AL!Insert
<1>1. /\ pc[t] = "link" /\ pc'[t] = "idle" /\ op'[t] = "none" /\ op[t] = "push_front"
      /\ met[t] = None /\ res[t] = None
      /\ met' = [met EXCEPT ![t] = None] /\ res' = [res EXCEPT ![t] = None]
      /\ \A u \in Thread \ {t} : /\ pc'[u] = pc[u] /\ op'[u] = op[u]
                                 /\ current'[u] = current[u] /\ succ'[u] = succ[u]
  BY DEF LinkFront, Leave, Goto, IInv, TypeOK, LocalView
<1>2. met' = met /\ res' = res
  BY <1>1 DEF IInv, TypeOK
<1>3. ~InWalk(t) /\ ~InWalk(t)' /\ \A u \in Thread \ {t} : InWalk(u)' = InWalk(u)
  BY <1>1 DEF InWalk, WalkOp
<1>4. opBar' = opBar
  <2>1. \A u \in Thread : (IF InWalk(u)' THEN op'[u] ELSE "none") = IF InWalk(u) THEN op[u] ELSE "none"
    BY <1>1, <1>3
  <2> QED BY <2>1 DEF opBar
<1>5. /\ Len(chain') = Len(chain) + 1 /\ \A i \in 1..Len(chain) : chain'[i + 1] = chain[i]
      /\ \E e \in Elements : itemsBar' = <<e>> \o itemsBar
  BY LinkFrontItems
<1>6. PICK e \in Elements : itemsBar' = <<e>> \o itemsBar
  BY <1>5
<1>7. Len(chain) \in Nat
  BY Shape DEF IInv
<1>8. ASSUME NEW u \in Thread, NEW k \in 1..Len(chain) + 1, RestFrom(u, k)
      PROVE  RestFrom(u, k + 1)'
  <2>1. /\ k + 1 \in 1..Len(chain') + 1 /\ k + 1 # 1 /\ (k + 1) - 1 = k
        /\ k + 1 = Len(chain') + 1 <=> k = Len(chain) + 1
    BY <1>5, <1>7
  <2>2. CASE u = t
    BY <1>1, <1>3, <1>8, <2>1, <2>2 DEF RestFrom
  <2>3. CASE u # t
    <3>1. /\ pc'[u] = pc[u] /\ current'[u] = current[u] /\ succ'[u] = succ[u]
          /\ InWalk(u)' = InWalk(u)
      BY <1>1, <1>3, <2>3
    <3>2. ~InWalk(u)' \/ pc'[u] = "return" => k + 1 = Len(chain') + 1
      BY <1>8, <2>1, <3>1 DEF RestFrom
    <3>3. ASSUME InWalk(u)', pc'[u] \in {"visit", "test"}
          PROVE  k + 1 # Len(chain') + 1 /\ chain'[k + 1] = succ'[u]
      <4>1. k # Len(chain) + 1 /\ chain[k] = succ[u]
        BY <1>8, <3>1, <3>3 DEF RestFrom
      <4>2. k \in 1..Len(chain)
        BY <1>7, <4>1
      <4> QED BY <1>5, <2>1, <3>1, <4>1, <4>2
    <3>4. ASSUME InWalk(u)', pc'[u] \in {"read_next", "lock_next", "unlock", "unlock_next", "destroy"}
          PROVE  current'[u] = IF k + 1 = 1 THEN Start ELSE chain'[(k + 1) - 1]
      <4>1. current[u] = IF k = 1 THEN Start ELSE chain[k - 1]
        BY <1>8, <3>1, <3>4 DEF RestFrom
      <4>2. current[u] # Start
        <5>1. current[u] \in Locks(u) /\ Start \in Locks(t)
          BY <1>1, <3>1, <3>4 DEF Locks
        <5> QED BY <2>3, <5>1, LockFacts
      <4>3. k - 1 \in 1..Len(chain) /\ (k - 1) + 1 = k
        BY <1>7, <4>1, <4>2
      <4>4. chain'[k] = chain[k - 1]
        BY <1>5, <4>3
      <4> QED BY <2>1, <3>1, <4>1, <4>2, <4>4
    <3> QED BY <2>1, <3>2, <3>3, <3>4 DEF RestFrom
  <2> QED BY <2>2, <2>3
<1>9. ASSUME NEW u \in Thread PROVE restBar'[u] = restBar[u]
  <2>1. PICK k \in 1..Len(chain) + 1 : RestFrom(u, k)
    BY RestExists
  <2>2. RestFrom(u, k + 1)' /\ k + 1 \in Nat
    BY <1>7, <1>8, <2>1
  <2>3. restBar[u] = From(itemsBar, k) /\ restBar'[u] = From(itemsBar', k + 1)
    BY <2>1, <2>2, RestIsFrom, RestIsFromNext
  <2>4. itemsBar \in Seq(Elements) /\ k \in 1..Len(itemsBar) + 1
    BY ItemsBar
  <2>5. From(<<e>> \o itemsBar, k + 1) = From(itemsBar, k)
    BY <2>4, FromOfCons
  <2> QED BY <1>6, <2>3, <2>5
<1>10. restBar' = restBar
  BY <1>9 DEF restBar
<1>11. \E id \in Node, v \in Value :
         /\ \A i \in DOMAIN itemsBar : itemsBar[i].id # id
         /\ itemsBar' = <<[id |-> id, value |-> v]>> \o itemsBar
  BY LinkFrontItems
<1> QED BY <1>2, <1>4, <1>10, <1>11 DEF AL!Insert, AL!call

(* remove_if: the element disappears from every walk that has still to     *)
(* meet it.  No walk stands on its node or on the one before, for both     *)
(* their mutexes are held.                                                 *)
LEMMA UnlinkItems ==
  ASSUME IInv, IInv', NEW t \in Thread, Unlink(t), NEW p \in 1..Len(chain), succ[t] = chain[p]
  PROVE  itemsBar' = RemoveFirst(itemsBar, itemsBar[p])
<1>1. /\ itemsBar \in Seq(Elements) /\ Len(itemsBar) = Len(chain) /\ p \in 1..Len(itemsBar)
      /\ IsInjective(itemsBar)
      /\ \A i \in 1..Len(chain) : itemsBar[i] = Element(chain[i])
  BY ItemsBar DEF IsInjective
<1>2. /\ chain \in Seq(Node) /\ IsInjective(chain) /\ Len(chain) \in Nat
  BY Shape DEF IInv, TypeOK, ListIntact, IsInjective
<1>3. /\ itemsBar' \in Seq(Elements) /\ Len(itemsBar') = Len(chain')
      /\ \A i \in 1..Len(chain') : itemsBar'[i] = Element(chain'[i])
  <2>1. /\ itemsBar' \in Seq(Elements) /\ Len(itemsBar') = Len(chain')
        /\ \A i \in 1..Len(chain') : itemsBar'[i] = Element(chain[i])'
    BY ItemsBarNext
  <2>2. data' = data
    BY DEF Unlink
  <2> QED BY <2>1, <2>2 DEF Element
<1> DEFINE r == RemoveFirst(chain, chain[p])
           d == RemoveFirst(itemsBar, itemsBar[p])
<1>4. chain' = r
  BY DEF Unlink
<1>5. Len(r) = Len(chain) - 1 /\ \A i \in 1..Len(chain) - 1 : r[i] = IF i < p THEN chain[i] ELSE chain[i + 1]
  BY <1>2, RemoveFirstOf, Zenon
<1>6. /\ d \in Seq(Elements) /\ Len(d) = Len(itemsBar) - 1
      /\ \A i \in 1..Len(itemsBar) - 1 : d[i] = IF i < p THEN itemsBar[i] ELSE itemsBar[i + 1]
  BY <1>1, RemoveFirstOf, Zenon
<1> HIDE DEF r, d
<1>7. Len(d) = Len(itemsBar') /\ Len(d) = Len(chain) - 1
  BY <1>1, <1>3, <1>4, <1>5, <1>6
<1>8. ASSUME NEW i \in 1..Len(d) PROVE d[i] = itemsBar'[i]
  <2>1. i \in 1..Len(chain) - 1 /\ i \in 1..Len(chain) /\ i + 1 \in 1..Len(chain)
    BY <1>2, <1>7
  <2>2. d[i] = IF i < p THEN Element(chain[i]) ELSE Element(chain[i + 1])
    BY <1>1, <1>6, <2>1
  <2>3. chain'[i] = IF i < p THEN chain[i] ELSE chain[i + 1]
    BY <1>4, <1>5, <2>1
  <2>4. itemsBar'[i] = Element(chain'[i])
    BY <1>3, <1>7
  <2> QED BY <2>2, <2>3, <2>4
<1>9. itemsBar' = d
  BY <1>3, <1>6, <1>7, <1>8, SeqEqual
<1> QED BY <1>9 DEF d

(* Where the walks stand once a node is gone. *)
LEMMA UnlinkMoves ==
  ASSUME IInv, IInv', NEW t \in Thread, Unlink(t), NEW p \in 1..Len(chain), succ[t] = chain[p],
         NEW u \in Thread, NEW k \in 1..Len(chain) + 1, RestFrom(u, k)
  PROVE  IF k <= p THEN RestFrom(u, k)' ELSE RestFrom(u, k - 1)'
<1>1. /\ pc[t] = "test" /\ pc'[t] = "unlock_next" /\ current' = current /\ succ' = succ /\ op' = op
      /\ \A w \in Thread \ {t} : pc'[w] = pc[w]
  BY DEF Unlink, Goto, IInv, TypeOK
<1>2. /\ Len(chain) \in Nat
      /\ \A i, j \in 1..Len(chain) : chain[i] = chain[j] => i = j
      /\ \A i \in 1..Len(chain) : chain[i] # Start
  BY Shape, ListAssumption DEF IInv, ListIntact, ListAssumption
<1>3. PICK p2 \in 1..Len(chain) :
        /\ succ[t] = chain[p2]
        /\ current[t] = IF p2 = 1 THEN Start ELSE chain[p2 - 1]
        /\ Len(chain') = Len(chain) - 1
        /\ \A i \in 1..Len(chain) - 1 : chain'[i] = IF i < p2 THEN chain[i] ELSE chain[i + 1]
  BY UnlinkFacts
<1>4. p2 = p
  BY <1>2, <1>3
<1>5. InWalk(u)' = InWalk(u)
  <2>1. CASE u = t
    BY <1>1, <2>1 DEF InWalk
  <2>2. CASE u # t
    BY <1>1, <2>2 DEF InWalk
  <2> QED BY <2>1, <2>2
<1>6. CASE u = t
  <2>1. InWalk(t)
    BY <1>1 DEF IInv, LocalView, InWalk, WalkOp
  <2>2. k = p
    BY <1>1, <1>2, <1>6, <2>1 DEF RestFrom
  <2>3. k \in 1..Len(chain') + 1 /\ (k # 1 => k - 1 < p /\ k - 1 \in 1..Len(chain) - 1)
    BY <1>2, <1>3, <2>2
  <2>4. current'[t] = IF k = 1 THEN Start ELSE chain'[k - 1]
    BY <1>1, <1>3, <1>4, <2>2, <2>3
  <2>5. RestFrom(u, k)'
    BY <1>1, <1>5, <1>6, <2>1, <2>3, <2>4 DEF RestFrom
  <2>6. k <= p
    BY <2>2
  <2> QED BY <2>5, <2>6
<1>7. CASE u # t
  <2>1. /\ pc'[u] = pc[u] /\ current'[u] = current[u] /\ succ'[u] = succ[u]
        /\ current[t] \in Locks(t) /\ succ[t] \in Locks(t) /\ Locks(t) \cap Locks(u) = {}
    BY <1>1, <1>7, LockFacts DEF Locks
  <2> DEFINE m == IF k <= p THEN k ELSE k - 1
  <2>2. /\ m \in 1..Len(chain') + 1 /\ (m = Len(chain') + 1 <=> k = Len(chain) + 1 \/ (k = Len(chain) /\ p = k))
        /\ k = Len(chain) + 1 => m = Len(chain') + 1
    BY <1>2, <1>3
  <2>3. ~InWalk(u) \/ pc[u] = "return" => m = Len(chain') + 1
    BY <2>2 DEF RestFrom
  <2>4. ASSUME InWalk(u), pc[u] \in {"visit", "test"}
        PROVE  m # Len(chain') + 1 /\ chain'[m] = succ[u]
    <3>1. k # Len(chain) + 1 /\ chain[k] = succ[u] /\ k \in 1..Len(chain)
      BY <1>2, <2>4 DEF RestFrom
    <3>2. succ[u] # succ[t]
      BY <2>1, <2>4 DEF Locks
    <3>3. k # p
      BY <3>1, <3>2
    <3>4. /\ m # Len(chain') + 1
          /\ k < p => m = k /\ k \in 1..Len(chain) - 1
          /\ ~(k < p) => m = k - 1 /\ ~(k - 1 < p) /\ k - 1 \in 1..Len(chain) - 1 /\ (k - 1) + 1 = k
      BY <1>2, <1>3, <3>1, <3>3
    <3>5. CASE k < p
      BY <1>3, <1>4, <3>1, <3>4, <3>5
    <3>6. CASE ~(k < p)
      <4>1. chain'[k - 1] = chain[(k - 1) + 1]
        BY <1>3, <1>4, <3>4, <3>6
      <4> QED BY <3>1, <3>4, <3>6, <4>1
    <3> QED BY <3>5, <3>6
  <2>5. ASSUME InWalk(u), pc[u] \in {"read_next", "lock_next", "unlock", "unlock_next", "destroy"}
        PROVE  current[u] = IF m = 1 THEN Start ELSE chain'[m - 1]
    <3>1. current[u] = IF k = 1 THEN Start ELSE chain[k - 1]
      BY <2>5 DEF RestFrom
    <3>2. current[u] # current[t] /\ current[u] # succ[t]
      BY <2>1, <2>5 DEF Locks
    <3>3. k # p
      BY <1>3, <1>4, <3>1, <3>2
    <3>4. k # p + 1
      <4>1. (p + 1) - 1 = p /\ p + 1 # 1
        OBVIOUS
      <4> QED BY <3>1, <3>2, <4>1
    <3>5. CASE k < p
      <4>1. m = k /\ (k # 1 => k - 1 \in 1..Len(chain) - 1 /\ k - 1 < p)
        BY <1>2, <3>5
      <4> QED BY <1>3, <1>4, <3>1, <4>1
    <3>6. CASE ~(k < p)
      <4>1. /\ m = k - 1 /\ k # 1 /\ k - 1 # 1 /\ (k - 1) - 1 \in 1..Len(chain) - 1
            /\ ~((k - 1) - 1 < p) /\ ((k - 1) - 1) + 1 = k - 1
        BY <1>2, <3>3, <3>4, <3>6
      <4>2. chain'[(k - 1) - 1] = chain[k - 1]
        BY <1>3, <1>4, <4>1
      <4> QED BY <3>1, <4>1, <4>2
    <3> QED BY <3>5, <3>6
  <2> HIDE DEF m
  <2>6. RestFrom(u, m)'
    BY <1>5, <2>1, <2>2, <2>3, <2>4, <2>5 DEF RestFrom
  <2> QED BY <2>6 DEF m
<1> QED BY <1>6, <1>7

(* The abstract list removes in the same way. *)
LEMMA SameRemoval ==
  ASSUME NEW s, NEW e
  PROVE  AL!RemoveFirst(s, e) = RemoveFirst(s, e)
BY DEF RemoveFirst, AL!RemoveFirst, RemoveAt, AL!RemoveAt, SelectInSeq, AL!SelectInSeq, Min, AL!Min

LEMMA UnlinkSeen ==
  ASSUME IInv, IInv', NEW t \in Thread, Unlink(t)
  PROVE  AL!Unlink(t)
<1>1. /\ pc[t] = "test" /\ pc'[t] = "unlock_next" /\ op' = op /\ res' = res
      /\ met' = [met EXCEPT ![t] = Element(succ[t])]
      /\ \A w \in Thread \ {t} : pc'[w] = pc[w]
  BY DEF Unlink, Meet, Goto, IInv, TypeOK
<1>2. InWalk(t) /\ restBar[t] # <<>> /\ Head(restBar[t]) = Element(succ[t])
  BY <1>1, MeetsFirst
<1>3. PICK p \in 1..Len(chain) : chain[p] = succ[t] /\ itemsBar[p] = Element(succ[t])
  BY <1>1, MeetsFirst
<1>4. itemsBar' = RemoveFirst(itemsBar, itemsBar[p])
  BY <1>3, UnlinkItems
<1>5. /\ itemsBar \in Seq(Elements) /\ Len(itemsBar) = Len(chain) /\ p \in 1..Len(itemsBar)
      /\ IsInjective(itemsBar) /\ Len(chain) \in Nat
  BY ItemsBar, Shape DEF IsInjective, IInv
<1>6. ASSUME NEW u \in Thread PROVE restBar'[u] = RemoveFirst(restBar[u], itemsBar[p])
  <2>1. PICK k \in 1..Len(chain) + 1 : RestFrom(u, k)
    BY RestExists
  <2>2. restBar[u] = From(itemsBar, k)
    BY <2>1, RestIsFrom
  <2>3. k \in 1..Len(itemsBar) + 1 /\ k \in Nat
    BY <1>5
  <2>4. IF k <= p THEN RestFrom(u, k)' ELSE RestFrom(u, k - 1)'
    BY <1>3, <2>1, UnlinkMoves
  <2>5. CASE k <= p
    <3>1. restBar'[u] = From(itemsBar', k)
      BY <2>3, <2>4, <2>5, RestIsFromNext
    <3>2. From(RemoveFirst(itemsBar, itemsBar[p]), k) = RemoveFirst(From(itemsBar, k), itemsBar[p])
      BY <1>5, <2>3, <2>5, FromOfRemovalBehind
    <3> QED BY <1>4, <2>2, <3>1, <3>2
  <2>6. CASE ~(k <= p)
    <3>1. k - 1 \in Nat /\ p < k
      BY <2>3, <2>6
    <3>2. restBar'[u] = From(itemsBar', k - 1)
      BY <2>4, <2>6, <3>1, RestIsFromNext
    <3>3. From(RemoveFirst(itemsBar, itemsBar[p]), k - 1) = RemoveFirst(From(itemsBar, k), itemsBar[p])
      BY <1>5, <2>3, <3>1, FromOfRemovalAhead
    <3> QED BY <1>4, <2>2, <3>2, <3>3
  <2> QED BY <2>5, <2>6
<1>7. restBar' = [u \in Thread |-> RemoveFirst(restBar[u], itemsBar[p])]
  BY <1>6 DEF restBar
<1>8. \A u \in Thread : InWalk(u)' = InWalk(u)
  BY <1>1 DEF InWalk
<1>9. opBar' = opBar
  BY <1>1, <1>8 DEF opBar
<1>10. opBar[t] = "remove_if"
  BY <1>1, <1>2 DEF opBar, IInv, LocalView
<1>11. Head(restBar[t]) = itemsBar[p]
  BY <1>2, <1>3
<1>12. /\ itemsBar' = RemoveFirst(itemsBar, Head(restBar[t]))
       /\ restBar' = [u \in Thread |-> RemoveFirst(restBar[u], Head(restBar[t]))]
       /\ met' = [met EXCEPT ![t] = Head(restBar[t])]
  BY <1>1, <1>2, <1>3, <1>4, <1>7, <1>11
<1>13. /\ itemsBar' = AL!RemoveFirst(itemsBar, Head(restBar[t]))
       /\ restBar' = [u \in Thread |-> AL!RemoveFirst(restBar[u], Head(restBar[t]))]
  BY <1>12, SameRemoval
<1> QED BY <1>1, <1>2, <1>9, <1>10, <1>12, <1>13 DEF AL!Unlink, AL!Meet

LEMMA InitSeen == Init => AL!Init
<1> SUFFICES ASSUME Init PROVE AL!Init
  OBVIOUS
<1>1. chain = <<>> /\ \A t \in Thread : ~InWalk(t)
  BY DEF Init, InWalk, WalkOp
<1>2. itemsBar = <<>>
  BY <1>1 DEF itemsBar, Items
<1>3. \A t \in Thread : Items(Rest(t)) = <<>>
  <2>1. \A t \in Thread : Rest(t) = <<>>
    BY <1>1 DEF Init, Rest
  <2> QED BY <2>1 DEF Items
<1> QED BY <1>1, <1>2, <1>3 DEF Init, AL!Init, opBar, restBar

(* Walks do not disturb one another: a walk meets the elements it began    *)
(* with in order, once each, except those removed ahead of it.             *)
THEOREM WalksKeepTheirPlace == Spec => WalksAreExact
<1>1. Init => AL!Init
  BY InitSeen
<1>2. IInv /\ IInv' /\ [Next]_vars => [AL!Next]_(AL!vars)
  <2> SUFFICES ASSUME IInv, IInv', [Next]_vars PROVE AL!Next \/ UNCHANGED AL!vars
    OBVIOUS
  <2>1. CASE UNCHANGED vars
    <3>1. UNCHANGED <<itemsBar, opBar, restBar, met, res>>
      BY <2>1 DEF vars, nodes, locals, itemsBar, opBar, restBar, Items, Element, Rest, InWalk,
                  After, Position
    <3> QED BY <3>1 DEF AL!vars
  <2>2. ASSUME NEW t \in Thread, Call(t) PROVE AL!Next \/ UNCHANGED AL!vars
    <3>1. CASE BeginPush(t) \/ BeginWalk(t)
      BY <3>1, BeginSilent
    <3>2. CASE Throw(t)
      BY <3>2, FindThrowSeen DEF AL!Next
    <3> QED BY <2>2, <3>1, <3>2 DEF Call
  <2>3. ASSUME NEW t \in Thread, Step(t) PROVE AL!Next \/ UNCHANGED AL!vars
    <3>1. CASE LinkFront(t)
      BY <3>1, LinkFrontSeen DEF AL!Next
    <3>2. CASE LockStart(t)
      BY <3>2, LockStartSeen DEF AL!Next
    <3>3. CASE ReadNext(t) \/ LockNext(t) \/ UnlockCurrent(t) \/ UnlockNext(t) \/ Destroy(t)
      BY <3>3, ReadNextSilent, LockNextSilent, UnlockCurrentSilent, UnlockNextDestroySilent
    <3>4. CASE Visit(t) \/ Keep(t)
      BY <3>4, PassSeen DEF AL!Next
    <3>5. CASE Find(t)
      BY <3>5, FindThrowSeen DEF AL!Next
    <3>6. CASE Return(t) \/ EndOfList(t)
      BY <3>6, ReturnSeen DEF AL!Next
    <3>7. CASE Unlink(t)
      BY <3>7, UnlinkSeen DEF AL!Next
    <3> QED BY <2>3, <3>1, <3>2, <3>3, <3>4, <3>5, <3>6, <3>7 DEF Step
  <2> QED BY <2>1, <2>2, <2>3 DEF Next
<1> QED BY <1>1, <1>2, Invariance, PTL DEF Spec, WalksAreExact, AL!Spec

=============================================================================
