------------------------- MODULE LookupTableProofs -------------------------
(***************************************************************************)
(* Proofs about LookupTable, for any threads, keys, values, buckets and    *)
(* hash function.                                                          *)
(***************************************************************************)
EXTENDS LookupTable, TLAPS

USE TableAssumption DEF TableAssumption

(* The locks of two threads exclude each other unless both only read.      *)
LEMMA Exclusion ==
  ASSUME TypeOK, BucketsSound, LocksHeld,
         NEW t \in Thread, NEW u \in Thread, t # u, NEW b \in Bucket, Writing(t, b)
  PROVE  ~ Writing(u, b) /\ ~ Reading(u, b) /\ ~ Holds(u, b)
BY DEF TypeOK, BucketsSound, LocksHeld, LocksOf, Holds

(* The indices get_map counts through.                                      *)
LEMMA Indices ==
  /\ 1 \in Bucket /\ Buckets \in Bucket
  /\ \A b \in Bucket : b \in Nat /\ 1 <= b /\ b <= Buckets
  /\ \A b \in Bucket : b < Buckets => b + 1 \in Bucket
BY DEF Bucket

(* Leaving the body of a call keeps the types of the locals.               *)
LEMMA LeaveTypes ==
  ASSUME TypeOK, NEW t \in Thread, Leave(t)
  PROVE  /\ pc' \in [Thread -> Label] /\ op' \in [Thread -> Op]
         /\ key' \in [Thread -> Key \cup {None}] /\ value' \in [Thread -> Value \cup {None}]
         /\ found' \in [Thread -> Value \cup {None}] /\ index' \in [Thread -> Bucket]
         /\ pc'[t] = "release" /\ \A u \in Thread \ {t} : pc'[u] = pc[u] /\ op'[u] = op[u]
         /\ \A u \in Thread \ {t} : key'[u] = key[u] /\ value'[u] = value[u]
         /\ \A u \in Thread \ {t} : found'[u] = found[u] /\ index'[u] = index[u]
BY Indices DEF TypeOK, Leave, Goto, Label, Op

(* Every step keeps the types.                                             *)
LEMMA StepTypes ==
  ASSUME IInv, [Next]_vars
  PROVE  TypeOK'
<1> USE DEF IInv, Label, Op
<1>1. CASE UNCHANGED vars
  BY <1>1 DEF TypeOK, vars, locks, args
<1>2. ASSUME NEW t \in Thread, BeginKeyed(t) PROVE TypeOK'
  BY <1>2 DEF TypeOK, BeginKeyed, Goto, locks
<1>3. ASSUME NEW t \in Thread, LockBucket(t) PROVE TypeOK'
  <2>1. hasher[key[t]] \in Bucket
    BY <1>3 DEF TypeOK, ThreadView, ViewOf, LockBucket
  <2>2. writer' \in [Bucket -> Thread \cup {Null}] /\ readers' \in [Bucket -> SUBSET Thread]
    BY <1>3, <2>1 DEF TypeOK, LockBucket, Acquire, AcquireShared
  <2> QED BY <1>3, <2>2 DEF TypeOK, LockBucket, Goto, args
<1>4. ASSUME NEW t \in Thread, FindEntryFor(t) PROVE TypeOK'
  <2>1. key[t] \in Key
    BY <1>4 DEF TypeOK, ThreadView, ViewOf, FindEntryFor
  <2> QED BY <1>4, <2>1 DEF TypeOK, FindEntryFor, Goto, locks, args
<1>5. ASSUME NEW t \in Thread, ValueFor(t) PROVE TypeOK'
  <2>1. res'[t] \in Value /\ \A u \in Thread \ {t} : res'[u] = res[u]
    BY <1>5 DEF TypeOK, ThreadView, ViewOf, ValueFor
  <2>2. res' \in [Thread -> Value \cup Table \cup {Pending}]
    BY <1>5, <2>1 DEF TypeOK, ValueFor
  <2> QED BY <1>5, <2>2, LeaveTypes DEF TypeOK, ValueFor, locks
<1>6. ASSUME NEW t \in Thread, AddOrUpdateMapping(t) PROVE TypeOK'
  <2>1. key[t] \in Key /\ value[t] \in Value
    BY <1>6 DEF TypeOK, ThreadView, ViewOf, AddOrUpdateMapping
  <2> QED BY <1>6, <2>1, LeaveTypes DEF TypeOK, AddOrUpdateMapping, locks
<1>7. ASSUME NEW t \in Thread, RemoveMapping(t) PROVE TypeOK'
  <2>1. key[t] \in Key
    BY <1>7 DEF TypeOK, ThreadView, ViewOf, RemoveMapping
  <2> QED BY <1>7, <2>1, LeaveTypes DEF TypeOK, RemoveMapping, locks
<1>8. ASSUME NEW t \in Thread, BeginGetMap(t) PROVE TypeOK'
  BY <1>8, Indices DEF TypeOK, BeginGetMap, Goto, locks
<1>9. ASSUME NEW t \in Thread, LockNext(t) PROVE TypeOK'
  <2>1. index[t] \in Bucket /\ EmptyMap \in Table
    BY DEF TypeOK, EmptyMap, Table
  <2>2. writer' \in [Bucket -> Thread \cup {Null}] /\ readers' = readers
    BY <1>9, <2>1 DEF TypeOK, LockNext, Acquire
  <2>3. index' \in [Thread -> Bucket] /\ res' \in [Thread -> Value \cup Table \cup {Pending}]
    BY <1>9, <2>1, Indices DEF TypeOK, LockNext
  <2>4. pc' \in [Thread -> Label]
    BY <1>9 DEF TypeOK, LockNext, Goto
  <2> QED BY <1>9, <2>2, <2>3, <2>4 DEF TypeOK, LockNext, args
<1>10. ASSUME NEW t \in Thread, CopyBucket(t) PROVE TypeOK'
  <2>1. index[t] \in Bucket /\ res[t] \in Table
    BY <1>10 DEF TypeOK, ThreadView, ViewOf, CopyBucket, Table, Current, EntryOf
  <2>2. WithBucket(res[t], index[t]) \in Table
    BY <2>1 DEF TypeOK, WithBucket, Table, Current, EntryOf
  <2>3. res' \in [Thread -> Value \cup Table \cup {Pending}]
    BY <1>10, <2>2 DEF TypeOK, CopyBucket
  <2>4. CASE index[t] < Buckets
    BY <1>10, <2>1, <2>3, <2>4, Indices DEF TypeOK, CopyBucket, locks, args
  <2>5. CASE ~ (index[t] < Buckets)
    BY <1>10, <2>1, <2>3, <2>5, LeaveTypes DEF TypeOK, CopyBucket, locks
  <2> QED BY <2>4, <2>5
<1>11. ASSUME NEW t \in Thread, Throw(t) PROVE TypeOK'
  <2>1. res' \in [Thread -> Value \cup Table \cup {Pending}]
    BY <1>11 DEF TypeOK, Throw
  <2> QED BY <1>11, <2>1, LeaveTypes DEF TypeOK, Throw, locks
<1>12. ASSUME NEW t \in Thread, Unlock(t) PROVE TypeOK'
  BY <1>12 DEF TypeOK, Unlock, args
<1>13. ASSUME NEW t \in Thread, Return(t) PROVE TypeOK'
  BY <1>13 DEF TypeOK, Return, Goto, locks, args
<1> QED
  BY <1>1, <1>2, <1>3, <1>4, <1>5, <1>6, <1>7, <1>8, <1>9, <1>10, <1>11, <1>12, <1>13
     DEF Next, Step

(* The step of one thread leaves the locals and the locks of the others    *)
(* alone, and changes an entry only under the exclusive lock of its bucket. *)
LEMMA Frame ==
  ASSUME IInv, NEW t \in Thread, NEW u \in Thread \ {t},
         Step(t) \/ BeginKeyed(t) \/ BeginGetMap(t) \/ Throw(t)
  PROVE  /\ pc'[u] = pc[u] /\ op'[u] = op[u] /\ key'[u] = key[u] /\ value'[u] = value[u]
         /\ found'[u] = found[u] /\ index'[u] = index[u] /\ res'[u] = res[u]
         /\ \A b \in Bucket : /\ writer'[b] = u <=> writer[b] = u
                              /\ u \in readers'[b] <=> u \in readers[b]
         /\ \A k \in Key : m_data'[k] = m_data[k] \/ Writing(t, hasher[k])
<1> DEFINE Others == /\ pc'[u] = pc[u] /\ op'[u] = op[u] /\ key'[u] = key[u] /\ value'[u] = value[u]
                     /\ found'[u] = found[u] /\ index'[u] = index[u] /\ res'[u] = res[u]
           Locks  == \A b \in Bucket : /\ writer'[b] = u <=> writer[b] = u
                                       /\ u \in readers'[b] <=> u \in readers[b]
           Data   == \A k \in Key : m_data'[k] = m_data[k] \/ Writing(t, hasher[k])
<1> SUFFICES Others /\ Locks /\ Data
  OBVIOUS
<1>1. CASE BeginKeyed(t)
  BY <1>1 DEF IInv, TypeOK, BeginKeyed, Goto, locks
<1>2. CASE LockBucket(t)
  <2>1. hasher[key[t]] \in Bucket
    BY <1>2 DEF IInv, TypeOK, ThreadView, ViewOf, LockBucket
  <2> QED BY <1>2, <2>1 DEF IInv, TypeOK, LockBucket, Acquire, AcquireShared, Goto, args
<1>3. CASE FindEntryFor(t)
  BY <1>3 DEF IInv, TypeOK, FindEntryFor, Goto, locks, args
<1>4. CASE ValueFor(t)
  BY <1>4 DEF IInv, TypeOK, ValueFor, Leave, Goto, locks
<1>5. CASE AddOrUpdateMapping(t)
  BY <1>5 DEF IInv, TypeOK, AddOrUpdateMapping, Leave, Goto, locks, Writing
<1>6. CASE RemoveMapping(t)
  BY <1>6 DEF IInv, TypeOK, RemoveMapping, Leave, Goto, locks, Writing
<1>7. CASE BeginGetMap(t)
  BY <1>7 DEF IInv, TypeOK, BeginGetMap, Goto, locks
<1>8. CASE LockNext(t)
  BY <1>8 DEF IInv, TypeOK, LockNext, Acquire, Goto, args
<1>9. CASE CopyBucket(t)
  BY <1>9 DEF IInv, TypeOK, CopyBucket, Leave, Goto, locks, args
<1>10. CASE Throw(t)
  BY <1>10 DEF IInv, TypeOK, Throw, Leave, Goto, locks
<1>11. CASE Unlock(t)
  BY <1>11 DEF IInv, TypeOK, Unlock, args
<1>12. CASE Return(t)
  BY <1>12 DEF IInv, TypeOK, Return, Goto, locks, args
<1> QED
  BY <1>1, <1>2, <1>3, <1>4, <1>5, <1>6, <1>7, <1>8, <1>9, <1>10, <1>11, <1>12 DEF Step

(* What the other threads rely on is not disturbed by the step of t.       *)
LEMMA OthersKeepTheirView ==
  ASSUME IInv, TypeOK', NEW t \in Thread, NEW u \in Thread \ {t},
         Step(t) \/ BeginKeyed(t) \/ BeginGetMap(t) \/ Throw(t)
  PROVE  /\ \A b \in Bucket :
              /\ Writing(u, b)' <=> Writing(u, b)
              /\ Reading(u, b)' <=> Reading(u, b)
              /\ Holds(u, b)' <=> Holds(u, b)
         /\ pc[u] = "act" => Current(key[u])' = Current(key[u])
         /\ pc[u] = "copy" => m_data' = m_data
<1>1. \A b \in Bucket : /\ Writing(u, b)' <=> Writing(u, b)
                        /\ Reading(u, b)' <=> Reading(u, b)
                        /\ Holds(u, b)' <=> Holds(u, b)
  <2>1. /\ pc'[u] = pc[u] /\ op'[u] = op[u] /\ key'[u] = key[u] /\ index'[u] = index[u]
        /\ \A c \in Bucket : /\ (writer'[c] = u) <=> (writer[c] = u)
                             /\ (u \in readers'[c]) <=> (u \in readers[c])
    BY Frame
  <2>2. ASSUME NEW b \in Bucket
        PROVE  /\ Writing(u, b)' <=> Writing(u, b)
               /\ Reading(u, b)' <=> Reading(u, b)
               /\ Holds(u, b)' <=> Holds(u, b)
    BY <2>1 DEF Writing, Reading, Holds
  <2> QED BY <2>2
<1>2. \A k \in Key : Writing(t, hasher[k]) => ~ Writing(u, hasher[k]) /\ ~ Reading(u, hasher[k])
  BY Exclusion DEF IInv
<1>3. CASE pc[u] = "act"
  <2>1. key[u] \in Key /\ (Writing(u, hasher[key[u]]) \/ Reading(u, hasher[key[u]]))
    BY <1>3 DEF IInv, ThreadView, ViewOf, Writing, Reading
  <2>2. m_data'[key[u]] = m_data[key[u]] /\ key'[u] = key[u]
    BY <1>2, <2>1, Frame
  <2> QED BY <1>1, <1>3, <2>2 DEF Current
<1>4. CASE pc[u] = "copy"
  <2>1. \A k \in Key : m_data'[k] = m_data[k]
    BY <1>2, <1>4, Frame DEF Writing
  <2>2. m_data' = m_data
    BY <2>1 DEF IInv, TypeOK
  <2> QED BY <1>1, <1>4, <2>2
<1> QED BY <1>1, <1>3, <1>4

(* What the acting thread itself relies on, and the buckets, after its     *)
(* step.                                                                   *)
LEMMA OwnStep ==
  ASSUME IInv, TypeOK', NEW t \in Thread,
         Step(t) \/ BeginKeyed(t) \/ BeginGetMap(t) \/ Throw(t)
  PROVE  BucketsSound' /\ LocksOf(t)' /\ ViewOf(t)'
<1> USE DEF IInv, BucketsSound, ViewOf, LocksOf
<1> LocksOf(t) /\ ViewOf(t)
  BY DEF LocksHeld, ThreadView
<1>1. CASE BeginKeyed(t)
  BY <1>1 DEF TypeOK, BeginKeyed, Goto, locks, Writing, Reading, Holds
<1>2. CASE LockBucket(t)
  <2>1. hasher[key[t]] \in Bucket
    BY <1>2 DEF TypeOK, LockBucket
  <2>2. /\ pc'[t] = "find" /\ pc[t] = "lock" /\ op'[t] = op[t] /\ key'[t] = key[t]
        /\ value'[t] = value[t] /\ res'[t] = res[t] /\ m_data' = m_data
    BY <1>2 DEF TypeOK, LockBucket, Goto, args
  <2>3. BucketsSound'
    BY <1>2, <2>1, <2>2 DEF TypeOK, LockBucket, Acquire, AcquireShared
  <2>4. LocksOf(t)'
    BY <1>2, <2>1, <2>2 DEF TypeOK, LockBucket, Acquire, AcquireShared, Writing, Reading, Holds
  <2>5. ViewOf(t)'
    BY <2>2
  <2> QED BY <2>3, <2>4, <2>5
<1>3. CASE FindEntryFor(t)
  <2>1. /\ pc'[t] = "act" /\ pc[t] = "find" /\ op'[t] = op[t] /\ key'[t] = key[t]
        /\ value'[t] = value[t] /\ res'[t] = res[t] /\ m_data' = m_data
        /\ writer' = writer /\ readers' = readers
    BY <1>3 DEF TypeOK, FindEntryFor, Goto, args, locks
  <2>2. found'[t] = Current(key[t])
    BY <1>3 DEF TypeOK, FindEntryFor, Current, EntryOf
  <2>3. Current(key[t])' = Current(key[t])
    BY <2>1 DEF Current
  <2>4. LocksOf(t)'
    BY <2>1 DEF Writing, Reading, Holds
  <2> QED BY <2>1, <2>2, <2>3, <2>4
<1>4. CASE ValueFor(t)
  BY <1>4 DEF TypeOK, ValueFor, Leave, Goto, locks, Writing, Reading
<1>5. CASE AddOrUpdateMapping(t)
  <2>1. key[t] \in Key /\ found[t] = Current(key[t])
    BY <1>5 DEF AddOrUpdateMapping
  <2>2. m_data[key[t]] \ {found[t]} = {}
    BY <2>1 DEF TypeOK, Current, EntryOf
  <2>3. m_data' = [m_data EXCEPT ![key[t]] = {value[t]}]
    <3>1. (m_data[key[t]] \ {found[t]}) \cup {value[t]} = {value[t]}
      BY <2>2
    <3> QED BY <1>5, <3>1 DEF AddOrUpdateMapping
  <2>4. BucketsSound'
    BY <1>5, <2>1, <2>3 DEF TypeOK, AddOrUpdateMapping, locks
  <2> QED BY <1>5, <2>4 DEF TypeOK, AddOrUpdateMapping, Leave, Goto, locks, Writing, Reading
<1>6. CASE RemoveMapping(t)
  <2>1. key[t] \in Key
    BY <1>6 DEF RemoveMapping
  <2>2. BucketsSound'
    BY <1>6, <2>1 DEF TypeOK, RemoveMapping, locks
  <2> QED BY <1>6, <2>2 DEF TypeOK, RemoveMapping, Leave, Goto, locks, Writing, Reading
<1>7. CASE BeginGetMap(t)
  BY <1>7, Indices DEF TypeOK, BeginGetMap, Goto, locks, Writing, Reading, Holds
<1>8. CASE LockNext(t)
  <2>1. /\ m_data' = m_data /\ op'[t] = op[t] /\ pc[t] = "lock_all" /\ index[t] \in Bucket
        /\ Acquire(t, index[t])
    BY <1>8 DEF TypeOK, LockNext, args
  <2>2. BucketsSound'
    BY <2>1 DEF TypeOK, Acquire
  <2>5. /\ writer'[index[t]] = t /\ readers' = readers /\ readers[index[t]] = {}
        /\ \A b \in Bucket \ {index[t]} : writer'[b] = writer[b]
    BY <2>1 DEF TypeOK, Acquire
  <2>6. /\ \A b \in Bucket : b < index[t] => writer[b] = t
        /\ \A b \in Bucket : Holds(t, b) => b < index[t]
    BY <2>1 DEF Writing, Reading
  <2>3. CASE index[t] < Buckets
    <3>1. index'[t] = index[t] + 1 /\ pc'[t] = "lock_all" /\ res'[t] = res[t]
      BY <1>8, <2>3, Indices DEF TypeOK, LockNext
    <3>2. LocksOf(t)'
      <4>1. \A b \in Bucket : b < index[t] + 1 <=> b < index[t] \/ b = index[t]
        BY <2>1, Indices
      <4> QED BY <2>1, <2>5, <2>6, <3>1, <4>1 DEF Writing, Reading, Holds
    <3> QED BY <2>1, <2>2, <3>1, <3>2
  <2>4. CASE index[t] = Buckets
    <3>1. index'[t] = 1 /\ pc'[t] = "copy" /\ res'[t] = EmptyMap
      BY <1>8, <2>4, Indices DEF TypeOK, LockNext, Goto
    <3>2. LocksOf(t)'
      <4>1. \A b \in Bucket : b < index[t] \/ b = index[t]
        BY <2>4, Indices
      <4> QED BY <2>5, <2>6, <3>1, <4>1 DEF Writing, Reading, Holds
    <3>3. EmptyMap = [k \in Key |-> IF hasher[k] < 1 THEN Current(k)' ELSE None]
      BY Indices DEF EmptyMap
    <3> QED BY <2>1, <2>2, <3>1, <3>2, <3>3
  <2> QED BY <1>8, <2>3, <2>4 DEF LockNext
<1>9. CASE CopyBucket(t)
  <2>1. /\ m_data' = m_data /\ writer' = writer /\ readers' = readers
        /\ pc[t] = "copy" /\ index[t] \in Bucket
    BY <1>9 DEF TypeOK, CopyBucket, locks
  <2>2. CASE index[t] < Buckets
    <3>1. /\ index'[t] = index[t] + 1 /\ pc'[t] = "copy" /\ op'[t] = op[t]
          /\ res'[t] = WithBucket(res[t], index[t])
      BY <1>9, <2>2, Indices DEF TypeOK, CopyBucket, args
    <3>2. ASSUME NEW k \in Key
          PROVE  WithBucket(res[t], index[t])[k] =
                   IF hasher[k] < index[t] + 1 THEN Current(k) ELSE None
      BY <2>1, Indices DEF WithBucket, Current, EntryOf
    <3>3. WithBucket(res[t], index[t])
            = [k \in Key |-> IF hasher[k] < index[t] + 1 THEN Current(k) ELSE None]
      BY <3>2 DEF WithBucket
    <3>4. \A k \in Key : Current(k)' = Current(k)
      BY <2>1 DEF Current
    <3>5. LocksOf(t)'
      BY <2>1, <3>1 DEF Writing, Reading, Holds
    <3> QED BY <2>1, <3>1, <3>3, <3>4, <3>5
  <2>3. CASE ~ (index[t] < Buckets)
    BY <1>9, <2>1, <2>3 DEF TypeOK, CopyBucket, Leave, Goto, Writing, Reading
  <2> QED BY <2>2, <2>3
<1>10. CASE Throw(t)
  BY <1>10 DEF TypeOK, Throw, Leave, Goto, locks, Writing, Reading
<1>11. CASE Unlock(t)
  BY <1>11 DEF TypeOK, Unlock, args, Writing, Reading
<1>12. CASE Return(t)
  BY <1>12 DEF TypeOK, Return, Goto, locks, args, Writing, Reading, Holds
<1> QED
  BY <1>1, <1>2, <1>3, <1>4, <1>5, <1>6, <1>7, <1>8, <1>9, <1>10, <1>11, <1>12 DEF Step

-----------------------------------------------------------------------------
LEMMA InitInvariant == Init => IInv
<1> SUFFICES ASSUME Init PROVE IInv
  OBVIOUS
<1>1. TypeOK
  BY Indices DEF Init, TypeOK, Label, Op
<1>2. BucketsSound /\ LocksHeld
  BY DEF Init, BucketsSound, LocksHeld, LocksOf, Writing, Reading, Holds
<1>3. ThreadView
  BY DEF Init, ThreadView, ViewOf
<1> QED BY <1>1, <1>2, <1>3 DEF IInv

(* Every step preserves IInv: what the thread does to the entries of its key *)
(* it does under the lock that keeps others from relying on them.          *)
LEMMA NextInvariant == IInv /\ [Next]_vars => IInv'
<1> SUFFICES ASSUME IInv, [Next]_vars PROVE IInv'
  OBVIOUS
<1>1. TypeOK'
  BY StepTypes
<1>2. CASE UNCHANGED vars
  BY <1>1, <1>2 DEF IInv, BucketsSound, LocksHeld, LocksOf, ThreadView, ViewOf,
                    Writing, Reading, Holds, Current, vars, locks, args
<1>3. ASSUME NEW t \in Thread, Step(t) \/ BeginKeyed(t) \/ BeginGetMap(t) \/ Throw(t)
      PROVE  BucketsSound' /\ LocksHeld' /\ ThreadView'
  <2>1. BucketsSound' /\ LocksOf(t)' /\ ViewOf(t)'
    BY <1>1, <1>3, OwnStep
  <2>2. ASSUME NEW u \in Thread \ {t} PROVE LocksOf(u)' /\ ViewOf(u)'
    <3>1. LocksOf(u) /\ ViewOf(u)
      BY DEF IInv, LocksHeld, ThreadView
    <3>2. /\ pc'[u] = pc[u] /\ op'[u] = op[u] /\ key'[u] = key[u] /\ value'[u] = value[u]
          /\ found'[u] = found[u] /\ index'[u] = index[u] /\ res'[u] = res[u]
          /\ \A b \in Bucket : writer'[b] = u <=> writer[b] = u
          /\ \A b \in Bucket : u \in readers'[b] <=> u \in readers[b]
      BY <1>3, Frame
    <3>3. /\ \A b \in Bucket : /\ Writing(u, b)' <=> Writing(u, b)
                               /\ Reading(u, b)' <=> Reading(u, b)
                               /\ Holds(u, b)' <=> Holds(u, b)
          /\ pc[u] = "act" => Current(key[u])' = Current(key[u])
          /\ pc[u] = "copy" => m_data' = m_data
      BY <1>1, <1>3, OthersKeepTheirView
    <3>4. LocksOf(u)'
      BY <3>1, <3>2, <3>3 DEF LocksOf
    <3>5. pc[u] = "copy" => \A k \in Key : Current(k)' = Current(k)
      BY <3>3 DEF Current
    <3>6. ViewOf(u)'
      BY <3>1, <3>2, <3>3, <3>5 DEF ViewOf
    <3> QED BY <3>4, <3>6
  <2> QED BY <2>1, <2>2 DEF LocksHeld, ThreadView
<1> QED BY <1>1, <1>2, <1>3 DEF IInv, Next

(* In every reachable state no bucket has two entries for one key, nobody  *)
(* reads a bucket that somebody may change, and what a call has looked up  *)
(* or copied so far is still true.                                         *)
THEOREM Invariance == Spec => []IInv
<1>1. Init => IInv
  BY InitInvariant
<1>2. IInv /\ [Next]_vars => IInv'
  BY NextInvariant
<1> QED BY <1>1, <1>2, PTL DEF Spec

-----------------------------------------------------------------------------
(* A step of t changes no result but its own.                              *)
LEMMA HandFrame ==
  ASSUME IInv, TypeOK', NEW t \in Thread,
         Step(t) \/ BeginKeyed(t) \/ BeginGetMap(t) \/ Throw(t)
  PROVE  handBar' = [handBar EXCEPT ![t] = HandOf(t)']
<1>1. ASSUME NEW u \in Thread \ {t} PROVE HandOf(u)' = HandOf(u)
  <2>1. pc'[u] = pc[u] /\ res'[u] = res[u]
    BY Frame
  <2>2. pc[u] = "copy" => m_data' = m_data
    BY OthersKeepTheirView
  <2> QED BY <2>1, <2>2 DEF HandOf, tableBar, Current
<1> QED BY <1>1 DEF handBar

(* A step that leaves the entries alone leaves the abstract map alone; a   *)
(* step on a key changes the value of this key.                            *)
LEMMA TableFrame ==
  /\ m_data' = m_data => tableBar' = tableBar
  /\ \A k \in Key : \A S :
       m_data \in [Key -> SUBSET Value] /\ m_data' = [m_data EXCEPT ![k] = S]
         => tableBar' = [tableBar EXCEPT ![k] = EntryOf(S)]
BY DEF tableBar, Current

(* A result that stays the same leaves the abstract hands alone.           *)
LEMMA SameHand ==
  ASSUME NEW t \in Thread, HandOf(t)' = HandOf(t), handBar' = [handBar EXCEPT ![t] = HandOf(t)']
  PROVE  handBar' = handBar
BY DEF handBar

(* Every step is a step of the abstract table or leaves it alone.          *)
LEMMA StepSimulation ==
  ASSUME IInv, IInv', NEW t \in Thread,
         Step(t) \/ BeginKeyed(t) \/ BeginGetMap(t) \/ Throw(t)
  PROVE  [AT!Next]_(AT!vars)
<1> USE DEF IInv
<1>hand. handBar' = [handBar EXCEPT ![t] = HandOf(t)'] /\ handBar[t] = HandOf(t)
  BY HandFrame DEF handBar
<1>view. ViewOf(t) /\ ViewOf(t)'
  BY DEF ThreadView
<1>same. ASSUME m_data' = m_data, HandOf(t)' = HandOf(t) PROVE UNCHANGED AT!vars
  BY <1>hand, <1>same, TableFrame, SameHand DEF AT!vars
<1>done. ASSUME m_data' = m_data, HandOf(t)' = Pending PROVE [AT!Next]_(AT!vars)
  <2>1. tableBar' = tableBar
    BY <1>done, TableFrame
  <2>2. CASE HandOf(t) = Pending
    BY <1>same, <1>done, <2>2
  <2>3. CASE HandOf(t) # Pending
    <3>1. AT!Return(t)
      BY <1>hand, <1>done, <2>1, <2>3 DEF AT!Return
    <3> QED BY <3>1 DEF AT!Next
  <2> QED BY <2>2, <2>3
<1>1. CASE BeginKeyed(t)
  BY <1>1, <1>same DEF BeginKeyed, TypeOK, Goto, locks, HandOf
<1>2. CASE LockBucket(t)
  BY <1>2, <1>same DEF LockBucket, TypeOK, Goto, args, HandOf
<1>3. CASE FindEntryFor(t)
  BY <1>3, <1>same DEF FindEntryFor, TypeOK, Goto, args, locks, HandOf
<1>4. CASE ValueFor(t)
  <2>1. /\ key[t] \in Key /\ value[t] \in Value /\ HandOf(t) = Pending
        /\ found[t] = tableBar[key[t]]
    BY <1>4, <1>view DEF ValueFor, ViewOf, HandOf, tableBar
  <2>2. HandOf(t)' = IF tableBar[key[t]] = None THEN value[t] ELSE tableBar[key[t]]
    BY <1>4, <2>1 DEF ValueFor, TypeOK, Leave, Goto, HandOf
  <2>3. tableBar' = tableBar
    BY <1>4, TableFrame DEF ValueFor
  <2>4. AT!Lookup(t)
    BY <1>hand, <2>1, <2>2, <2>3 DEF AT!Lookup
  <2> QED BY <2>4 DEF AT!Next
<1>5. CASE AddOrUpdateMapping(t)
  <2>1. key[t] \in Key /\ value[t] \in Value /\ found[t] = Current(key[t])
    BY <1>5, <1>view DEF AddOrUpdateMapping, ViewOf
  <2>2. (m_data[key[t]] \ {found[t]}) \cup {value[t]} = {value[t]}
    BY <2>1 DEF TypeOK, BucketsSound, Current, EntryOf
  <2>3. EntryOf({value[t]}) = value[t]
    BY DEF EntryOf
  <2>4. tableBar' = [tableBar EXCEPT ![key[t]] = value[t]]
    BY <1>5, <2>1, <2>2, <2>3, TableFrame DEF AddOrUpdateMapping, TypeOK
  <2>5. HandOf(t)' = HandOf(t)
    BY <1>5 DEF AddOrUpdateMapping, Leave, Goto, TypeOK, HandOf
  <2>6. AT!Store
    BY <1>hand, <2>1, <2>4, <2>5, SameHand DEF AT!Store
  <2> QED BY <2>6 DEF AT!Next
<1>6. CASE RemoveMapping(t)
  <2>1. key[t] \in Key /\ found[t] = Current(key[t])
    BY <1>6, <1>view DEF RemoveMapping, ViewOf
  <2>2. m_data[key[t]] \ {found[t]} = {}
    BY <2>1 DEF TypeOK, BucketsSound, Current, EntryOf
  <2>3. EntryOf({}) = None
    BY DEF EntryOf
  <2>4. tableBar' = [tableBar EXCEPT ![key[t]] = None]
    BY <1>6, <2>1, <2>2, <2>3, TableFrame DEF RemoveMapping, TypeOK
  <2>5. HandOf(t)' = HandOf(t)
    BY <1>6 DEF RemoveMapping, Leave, Goto, TypeOK, HandOf
  <2>6. AT!Erase
    BY <1>hand, <2>1, <2>4, <2>5, SameHand DEF AT!Erase
  <2> QED BY <2>6 DEF AT!Next
<1>7. CASE BeginGetMap(t)
  BY <1>7, <1>same DEF BeginGetMap, TypeOK, Goto, locks, HandOf
<1>8. CASE LockNext(t)
  <2>1. m_data' = m_data /\ HandOf(t) = Pending
    BY <1>8, <1>view DEF LockNext, ViewOf, HandOf
  <2>2. CASE pc'[t] = "copy"
    <3>1. tableBar' = tableBar /\ HandOf(t)' = tableBar
      BY <2>1, <2>2, TableFrame DEF HandOf
    <3>2. AT!Snapshot(t)
      BY <1>hand, <2>1, <3>1 DEF AT!Snapshot
    <3> QED BY <3>2 DEF AT!Next
  <2>3. CASE pc'[t] # "copy"
    <3>1. res'[t] = Pending
      BY <1>8, <1>view, <2>3 DEF LockNext, ViewOf, TypeOK, Goto
    <3> QED BY <1>done, <2>1, <2>3, <3>1 DEF HandOf
  <2> QED BY <2>2, <2>3
<1>9. CASE CopyBucket(t)
  <2>1. m_data' = m_data /\ HandOf(t) = tableBar
    BY <1>9 DEF CopyBucket, HandOf
  <2>2. tableBar' = tableBar
    BY <2>1, TableFrame
  <2>3. CASE index[t] < Buckets
    BY <1>9, <1>same, <2>1, <2>2, <2>3 DEF CopyBucket, HandOf
  <2>4. CASE ~ (index[t] < Buckets)
    <3>1. index[t] = Buckets /\ pc'[t] = "release" /\ res'[t] = WithBucket(res[t], Buckets)
      BY <1>9, <2>4 DEF CopyBucket, TypeOK, Leave, Goto
    <3>2. res[t] = [k \in Key |-> IF hasher[k] < Buckets THEN Current(k) ELSE None]
      BY <1>9, <1>view, <3>1 DEF CopyBucket, ViewOf
    <3>3. ASSUME NEW k \in Key PROVE WithBucket(res[t], Buckets)[k] = Current(k)
      <4>1. hasher[k] < Buckets \/ hasher[k] = Buckets
        BY Indices
      <4>2. hasher[k] = Buckets => ~ (hasher[k] < Buckets)
        OBVIOUS
      <4> QED BY <3>2, <4>1, <4>2 DEF WithBucket, Current, EntryOf
    <3>4. WithBucket(res[t], Buckets) = tableBar
      BY <3>3 DEF WithBucket, tableBar
    <3> QED BY <1>same, <2>1, <3>1, <3>4 DEF HandOf
  <2> QED BY <2>3, <2>4
<1>10. CASE Throw(t)
  <2>1. m_data' = m_data /\ HandOf(t)' = Pending
    BY <1>10 DEF Throw, TypeOK, Leave, Goto, HandOf
  <2> QED BY <1>done, <2>1
<1>11. CASE Unlock(t)
  BY <1>11, <1>same DEF Unlock, HandOf, tableBar
<1>12. CASE Return(t)
  <2>1. m_data' = m_data /\ HandOf(t)' = Pending
    BY <1>12 DEF Return, TypeOK, Goto, HandOf
  <2> QED BY <1>done, <2>1
<1> QED
  BY <1>1, <1>2, <1>3, <1>4, <1>5, <1>6, <1>7, <1>8, <1>9, <1>10, <1>11, <1>12 DEF Step

(* The table implements the abstract map: every operation, get_map with    *)
(* its many locks included, takes effect at one moment.                    *)
THEOREM Linearizability == Spec => Linearizable
<1>1. Init => AT!Init
  BY DEF Init, AT!Init, tableBar, Current, EntryOf, handBar, HandOf
<1>2. IInv /\ IInv' /\ [Next]_vars => [AT!Next]_(AT!vars)
  <2> SUFFICES ASSUME IInv, IInv', [Next]_vars PROVE [AT!Next]_(AT!vars)
    OBVIOUS
  <2>1. CASE UNCHANGED vars
    BY <2>1 DEF vars, AT!vars, tableBar, Current, handBar, HandOf
  <2>2. CASE Next
    BY <2>2, StepSimulation DEF Next
  <2> QED BY <2>1, <2>2
<1> QED BY <1>1, <1>2, Invariance, PTL DEF Spec, Linearizable, AT!Spec
=============================================================================
