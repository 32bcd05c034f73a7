---------------------------- MODULE LookupTable ----------------------------
(***************************************************************************)
(* threadsafe_lookup_table of "6.11 thread_safe_lookup_table.cpp": a hash  *)
(* table with one reader/writer mutex for each bucket.  An operation on a  *)
(* key locks the bucket of the key; get_map locks every bucket, one after  *)
(* the other, copies them and lets go.  Taking a mutex, looking an entry   *)
(* up, acting on it and releasing a mutex are steps of their own.          *)
(*                                                                         *)
(* A bucket is an unordered list: m_data[k] is the set of the values in    *)
(* the entries that the bucket of k holds for k.                           *)
(***************************************************************************)
EXTENDS Naturals

CONSTANTS
  Thread,    (* the threads that call the table                            *)
  Key,       (* the keys                                                   *)
  Value,     (* the values                                                 *)
  Buckets,   (* num_buckets, buckets.size()                                *)
  hasher,    (* hasher[k] is the bucket of k                               *)
  Null,      (* the owner of a mutex no writer holds                       *)
  None,      (* the end() iterator, a key without an entry, no argument    *)
  Pending    (* no result                                                  *)

Bucket == 1..Buckets

ASSUME TableAssumption ==
  /\ Buckets \in Nat \ {0}
  /\ hasher \in [Key -> Bucket]
  /\ Null \notin Thread
  /\ None \notin Value
  /\ Pending \notin Value \cup [Key -> Value \cup {None}]

VARIABLES
  m_data,    (* the entries                                                *)
  writer,    (* the thread with the exclusive lock of each bucket          *)
  readers,   (* the threads with a shared lock of each bucket              *)
  pc,        (* what each thread does next                                 *)
  op,        (* the member function each thread is in                      *)
  key,       (* its key                                                    *)
  value,     (* its value: the new one, or the default                     *)
  found,     (* found_entry: the value it points to, or end()              *)
  index,     (* the bucket get_map locks or copies next                    *)
  res        (* the result: a value, the map get_map builds, or Pending    *)

locks  == <<writer, readers>>
args   == <<op, key, value>>
vars   == <<m_data, locks, pc, args, found, index, res>>

Op    == {"value_for", "add_or_update", "remove", "get_map", "none"}
Label == {"idle", "lock", "find", "act", "lock_all", "copy", "release"}

Table    == [Key -> Value \cup {None}]
EmptyMap == [k \in Key |-> None]

(* The value a bucket holds for k, if it holds an entry for k. *)
EntryOf(values) == IF values = {} THEN None ELSE CHOOSE v \in values : TRUE
Current(k) == EntryOf(m_data[k])

Goto(t, label) == pc' = [pc EXCEPT ![t] = label]

Init ==
  /\ m_data = [k \in Key |-> {}]
  /\ writer = [b \in Bucket |-> Null]
  /\ readers = [b \in Bucket |-> {}]
  /\ pc = [t \in Thread |-> "idle"]
  /\ op = [t \in Thread |-> "none"]
  /\ key = [t \in Thread |-> None]
  /\ value = [t \in Thread |-> None]
  /\ found = [t \in Thread |-> None]
  /\ index = [t \in Thread |-> 1]
  /\ res = [t \in Thread |-> Pending]

(***************************************************************************)
(* Locks                                                                   *)
(***************************************************************************)

Acquire(t, b) ==
  /\ writer[b] = Null /\ readers[b] = {}
  /\ writer' = [writer EXCEPT ![b] = t]
  /\ UNCHANGED readers

AcquireShared(t, b) ==
  /\ writer[b] = Null
  /\ readers' = [readers EXCEPT ![b] = @ \cup {t}]
  /\ UNCHANGED writer

Holds(t, b) == writer[b] = t \/ t \in readers[b]

(* The locals go, the destructors of the locks run next. *)
Leave(t) ==
  /\ op' = [op EXCEPT ![t] = "none"]
  /\ key' = [key EXCEPT ![t] = None]
  /\ value' = [value EXCEPT ![t] = None]
  /\ found' = [found EXCEPT ![t] = None]
  /\ index' = [index EXCEPT ![t] = 1]
  /\ Goto(t, "release")

(***************************************************************************)
(* value_for, add_for_update_mapping and remove_mapping                    *)
(***************************************************************************)

BeginKeyed(t) ==
  /\ pc[t] = "idle"
  /\ \E o \in {"value_for", "add_or_update", "remove"} : op' = [op EXCEPT ![t] = o]
  /\ \E k \in Key : key' = [key EXCEPT ![t] = k]
  /\ \E v \in Value : value' = [value EXCEPT ![t] = v]
  /\ Goto(t, "lock")
  /\ UNCHANGED <<m_data, locks, found, index, res>>

(* Mutant: a writer takes the shared lock. *)
LockBucketShared(t) ==
  /\ pc[t] = "lock"
  /\ AcquireShared(t, hasher[key[t]])
  /\ Goto(t, "find")
  /\ UNCHANGED <<m_data, args, found, index, res>>

(* get_bucket, then the bucket's mutex: shared to read, exclusive to write. *)
LockBucket(t) ==
  /\ pc[t] = "lock"
  /\ IF op[t] = "value_for" THEN AcquireShared(t, hasher[key[t]])
                            ELSE Acquire(t, hasher[key[t]])
  /\ Goto(t, "find")
  /\ UNCHANGED <<m_data, args, found, index, res>>

FindEntryFor(t) ==
  /\ pc[t] = "find"
  /\ \/ m_data[key[t]] = {} /\ found' = [found EXCEPT ![t] = None]
     \/ \E v \in m_data[key[t]] : found' = [found EXCEPT ![t] = v]
  /\ Goto(t, "act")
  /\ UNCHANGED <<m_data, locks, args, index, res>>

ValueFor(t) ==
  /\ pc[t] = "act" /\ op[t] = "value_for"
  /\ res' = [res EXCEPT ![t] = IF found[t] = None THEN value[t] ELSE found[t]]
  /\ Leave(t)
  /\ UNCHANGED <<m_data, locks>>

AddOrUpdateMapping(t) ==
  /\ pc[t] = "act" /\ op[t] = "add_or_update"
  /\ m_data' = [m_data EXCEPT ![key[t]] = (@ \ {found[t]}) \cup {value[t]}]
  /\ Leave(t)
  /\ UNCHANGED <<locks, res>>

RemoveMapping(t) ==
  /\ pc[t] = "act" /\ op[t] = "remove"
  /\ m_data' = [m_data EXCEPT ![key[t]] = @ \ {found[t]}]
  /\ Leave(t)
  /\ UNCHANGED <<locks, res>>

(***************************************************************************)
(* get_map                                                                 *)
(***************************************************************************)

BeginGetMap(t) ==
  /\ pc[t] = "idle"
  /\ op' = [op EXCEPT ![t] = "get_map"]
  /\ index' = [index EXCEPT ![t] = 1]
  /\ Goto(t, "lock_all")
  /\ UNCHANGED <<m_data, locks, key, value, found, res>>

(* Mutant: the mutexes are taken in no particular order. *)
LockNextAnywhere(t) ==
  /\ pc[t] = "lock_all"
  /\ \E b \in Bucket : Acquire(t, b)
  /\ \/ /\ index[t] < Buckets
        /\ index' = [index EXCEPT ![t] = @ + 1]
        /\ UNCHANGED <<pc, res>>
     \/ /\ index[t] = Buckets
        /\ index' = [index EXCEPT ![t] = 1]
        /\ res' = [res EXCEPT ![t] = EmptyMap]
        /\ Goto(t, "copy")
  /\ UNCHANGED <<m_data, args, found>>

LockNext(t) ==
  /\ pc[t] = "lock_all"
  /\ Acquire(t, index[t])
  /\ \/ /\ index[t] < Buckets
        /\ index' = [index EXCEPT ![t] = @ + 1]
        /\ UNCHANGED <<pc, res>>
     \/ /\ index[t] = Buckets
        /\ index' = [index EXCEPT ![t] = 1]
        /\ res' = [res EXCEPT ![t] = EmptyMap]
        /\ Goto(t, "copy")
  /\ UNCHANGED <<m_data, args, found>>

(* res.insert for every entry of one bucket. *)
WithBucket(map, b) ==
  [k \in Key |-> IF hasher[k] = b /\ m_data[k] # {}
                 THEN Current(k)
                 ELSE map[k]]

(* Mutant: each bucket is unlocked as soon as it has been copied. *)
CopyBucketAndUnlock(t) ==
  /\ pc[t] = "copy"
  /\ res' = [res EXCEPT ![t] = WithBucket(@, index[t])]
  /\ writer' = [writer EXCEPT ![index[t]] = Null]
  /\ \/ /\ index[t] < Buckets
        /\ index' = [index EXCEPT ![t] = @ + 1]
        /\ UNCHANGED <<pc, args, found>>
     \/ /\ index[t] = Buckets
        /\ Leave(t)
  /\ UNCHANGED <<m_data, readers>>

CopyBucket(t) ==
  /\ pc[t] = "copy"
  /\ res' = [res EXCEPT ![t] = WithBucket(@, index[t])]
  /\ \/ /\ index[t] < Buckets
        /\ index' = [index EXCEPT ![t] = @ + 1]
        /\ UNCHANGED <<pc, args, found>>
     \/ /\ index[t] = Buckets
        /\ Leave(t)
  /\ UNCHANGED <<m_data, locks>>

(***************************************************************************)
(* The end of a call                                                       *)
(***************************************************************************)

(* Under its locks a call may fail: push_back, vecUKs.push_back and        *)
(* res.insert allocate, and values are copied.  Nothing has changed.       *)
Throw(t) ==
  /\ \/ pc[t] \in {"act", "copy"}
     \/ pc[t] = "lock_all" /\ index[t] > 1
  /\ res' = [res EXCEPT ![t] = Pending]
  /\ Leave(t)
  /\ UNCHANGED <<m_data, locks>>

(* One lock is released; the standard leaves the order of vecUKs open. *)
Unlock(t) ==
  /\ pc[t] = "release"
  /\ \E b \in Bucket :
       /\ Holds(t, b)
       /\ writer' = [writer EXCEPT ![b] = IF @ = t THEN Null ELSE @]
       /\ readers' = [readers EXCEPT ![b] = @ \ {t}]
  /\ UNCHANGED <<m_data, pc, args, found, index, res>>

Return(t) ==
  /\ pc[t] = "release"
  /\ \A b \in Bucket : ~ Holds(t, b)
  /\ res' = [res EXCEPT ![t] = Pending]
  /\ Goto(t, "idle")
  /\ UNCHANGED <<m_data, locks, args, found, index>>

-----------------------------------------------------------------------------
(* The steps of a call that has begun. *)
Step(t) ==
  \/ LockBucket(t) \/ FindEntryFor(t)
  \/ ValueFor(t) \/ AddOrUpdateMapping(t) \/ RemoveMapping(t)
  \/ LockNext(t) \/ CopyBucket(t) \/ Unlock(t) \/ Return(t)

Next == \E t \in Thread : Step(t) \/ BeginKeyed(t) \/ BeginGetMap(t) \/ Throw(t)

(* A call keeps being scheduled, and a mutex that is free again and again  *)
(* is granted: std::shared_mutex prefers neither readers nor writers.      *)
Fairness == \A t \in Thread : SF_vars(Step(t))

Spec == Init /\ [][Next]_vars /\ Fairness

-----------------------------------------------------------------------------
TypeOK ==
  /\ m_data \in [Key -> SUBSET Value]
  /\ writer \in [Bucket -> Thread \cup {Null}]
  /\ readers \in [Bucket -> SUBSET Thread]
  /\ pc \in [Thread -> Label]
  /\ op \in [Thread -> Op]
  /\ key \in [Thread -> Key \cup {None}]
  /\ value \in [Thread -> Value \cup {None}]
  /\ found \in [Thread -> Value \cup {None}]
  /\ index \in [Thread -> Bucket]
  /\ res \in [Thread -> Value \cup Table \cup {Pending}]

(* No bucket ever holds two entries for one key, and a bucket is not read  *)
(* by one thread while another may change it.                              *)
BucketsSound ==
  /\ \A k \in Key : \A v, w \in m_data[k] : v = w
  /\ \A b \in Bucket : writer[b] # Null => readers[b] = {}

(* The locks each call holds at each of its labels, and no others. *)
Writing(t, b) ==
  \/ pc[t] \in {"find", "act"} /\ op[t] # "value_for" /\ b = hasher[key[t]]
  \/ pc[t] = "lock_all" /\ b < index[t]
  \/ pc[t] = "copy"
Reading(t, b) == pc[t] \in {"find", "act"} /\ op[t] = "value_for" /\ b = hasher[key[t]]

LocksOf(t) ==
  \A b \in Bucket :
    /\ Writing(t, b) => writer[b] = t
    /\ Reading(t, b) => t \in readers[b]
    /\ Holds(t, b) => Writing(t, b) \/ Reading(t, b) \/ pc[t] = "release"

LocksHeld == \A t \in Thread : LocksOf(t)

(* The map the callers see. *)
tableBar == [k \in Key |-> Current(k)]

(* What a thread has found in a bucket stays true until it acts on it. *)
ViewOf(t) ==
  /\ pc[t] \in {"lock", "find", "act"} =>
       /\ op[t] \in {"value_for", "add_or_update", "remove"}
       /\ key[t] \in Key /\ value[t] \in Value
  /\ pc[t] \in {"lock_all", "copy"} => op[t] = "get_map"
  /\ pc[t] = "act" => found[t] = Current(key[t])
  /\ pc[t] = "copy" =>
       res[t] = [k \in Key |-> IF hasher[k] < index[t] THEN Current(k) ELSE None]
  /\ pc[t] \notin {"copy", "release"} => res[t] = Pending

ThreadView == \A t \in Thread : ViewOf(t)

(* The inductive invariant.  Two writers of a bucket, or a writer and a    *)
(* reader, never meet, so an entry that was looked up (lines 21, 35, 49)   *)
(* is still what it was when it is read, updated, erased or found missing. *)
IInv == TypeOK /\ BucketsSound /\ LocksHeld /\ ThreadView

(* get_map has its answer from the moment it holds every lock. *)
HandOf(t) == IF pc[t] = "copy" THEN tableBar ELSE res[t]
handBar == [t \in Thread |-> HandOf(t)]

AT == INSTANCE AbstractTable WITH table <- tableBar, hand <- handBar

(* The table is linearizable: value_for, add and remove take effect at one *)
(* moment, and get_map returns every entry of one moment although it takes *)
(* the locks and copies the buckets one by one while other calls go on.    *)
Linearizable == AT!Spec

(* No call is caught in a deadlock: get_map holds some locks while it      *)
(* waits for others, next to other calls of get_map and to single writers. *)
CallsReturn == \A t \in Thread : pc[t] # "idle" ~> pc[t] = "idle"
=============================================================================
