------------------------------ MODULE ForkJoin ------------------------------
(***************************************************************************)
(* The algorithms of chapter 8 that cut a range into blocks, give all but  *)
(* the last to threads and work on the last themselves: parallel_accumulate *)
(* of 8.2, 8.3 (two files), 8.4 and 9.2, parallel_for_each of 8.7,         *)
(* parallel_find of 8.9 and parallel_partial_sum of 8.11.  They differ in  *)
(* the order of their phases, in what they do about exceptions, and in     *)
(* what is done to a block; 9.2 gives its blocks, all of min_per_thread    *)
(* items, to the workers of a thread pool.  Each step is one access to     *)
(* what threads share.                                                     *)
(*                                                                         *)
(* Items are their positions, 1 .. length; a sum is the sequence of the    *)
(* items added, or on which f was called, so that a missing, doubled or    *)
(* misplaced item shows.                                                   *)
(***************************************************************************)
EXTENDS Integers, Sequences, SequencesExt, FiniteSets, FiniteSetsExt

CONSTANTS
  MinPerThread,   (* min_per_thread, in 9.2 block_size: 25 in every file   *)
  MaxLength,      (* bound on the length of the range                      *)
  MaxHardware,    (* bound on std::thread::hardware_concurrency()          *)
  Kinds           (* the programs looked at: a subset of AllKinds          *)

Accumulators ==                              (* 8.2, 8.3, 8.3, 8.4, 8.7, 9.2 *)
  {"plain", "packaged", "catching", "guarded", "for_each", "pooled"}
AllKinds     == Accumulators \cup {"find", "partial_sum"}     (* 8.9, 8.11 *)

ASSUME ForkJoinAssumption ==
  /\ MinPerThread \in Nat \ {0} /\ MaxLength \in Nat /\ MaxHardware \in Nat
  /\ Kinds \subseteq AllKinds

(***************************************************************************)
(* The partition                                                           *)
(***************************************************************************)
MaxThreads(len) == (len + MinPerThread - 1) \div MinPerThread

Smaller(a, b) == IF a < b THEN a ELSE b

(* Mutant: more threads than there is work for. *)
NumThreadsUncapped(len, hw) == IF hw # 0 THEN hw ELSE 2

NumThreads(len, hw) == Smaller(IF hw # 0 THEN hw ELSE 2, MaxThreads(len))

BlockSize(len, hw) == len \div NumThreads(len, hw)

VARIABLES
  kind,       (* which program                                             *)
  length,     (* of the range                                              *)
  hardware,   (* hardware_concurrency()                                    *)
  matches,    (* find: the items that match                                *)
  main,       (* the phase the calling thread is in, or how the call ended *)
  at,         (* where the work on each block is                           *)
  idle,       (* pooled: the workers that may still take a task            *)
  pos,        (* find: the item each thread looks at                       *)
  done_flag,  (* find: done_flag                                           *)
  promise,    (* find: result                                              *)
  array,      (* partial_sum: what each item of the range holds            *)
  future,     (* the future of each block: its sum, or its end value       *)
  got,        (* how many futures the caller has got                       *)
  result      (* what the caller gets                                      *)

params == <<kind, length, hardware, matches>>
search == <<pos, done_flag, promise>>
vars   == <<params, idle, main, at, search, array, future, got, result>>

Blocks == IF kind = "pooled" THEN MaxThreads(length) ELSE NumThreads(length, hardware)
Size   == IF kind = "pooled" THEN MinPerThread ELSE BlockSize(length, hardware)

Own      == Blocks - 1                         (* the caller's own block *)
Block    == 0 .. Own
Thread   == 0 .. Own - 1                       (* the blocks of others *)
Item     == 1 .. length

(* Block b, counted from 0, is Start .. Stop; the last one ends with the range. *)
Start(b) == b * Size + 1
Stop(b)  == IF b = Own THEN length ELSE (b + 1) * Size

Empty    == [state |-> "empty",  sum |-> <<>>]
Failed   == [state |-> "failed", sum |-> <<>>]
Ready(s) == [state |-> "ready",  sum |-> s]

(* The items from .. to, added in this order. *)
Sum(from, to) == [i \in 1 .. to - from + 1 |-> from + i - 1]

(***************************************************************************)
(* What the caller does in each program: the phase after each phase.       *)
(***************************************************************************)
PlainOrder    == [spawn |-> "own", own |-> "join", join |-> "gather", gather |-> "returned"]
PackagedOrder == [spawn |-> "own", own |-> "join", join |-> "gather", gather |-> "returned"]
CatchingOrder == [spawn |-> "gather", gather |-> "own", own |-> "join", join |-> "returned"]
GuardedOrder  == [spawn |-> "own", own |-> "gather", gather |-> "join", join |-> "returned"]
FindOrder     == [spawn |-> "own", own |-> "join", join |-> "answer", answer |-> "returned"]
SumOrder      == [spawn |-> "own", own |-> "join", join |-> "returned"]

After(phase) ==
  CASE kind = "plain"       -> PlainOrder[phase]
    [] kind = "packaged"    -> PackagedOrder[phase]
    [] kind = "catching"    -> CatchingOrder[phase]
    [] kind \in {"guarded", "for_each", "pooled"} -> GuardedOrder[phase]
    [] kind = "find"        -> FindOrder[phase]
    [] kind = "partial_sum" -> SumOrder[phase]

Running    == main \in {"spawn", "own", "join", "gather", "answer", "unwind"}
Started(b) == at[b] # "none"

Init ==
  /\ kind \in Kinds
  /\ length \in 0 .. MaxLength
  /\ hardware \in 0 .. MaxHardware
  /\ matches \in IF kind = "find" THEN SUBSET Item ELSE {{}}
  /\ main = "spawn"
  /\ idle = hardware
  /\ at = [b \in Block |-> "none"]
  /\ pos = [b \in Block |-> Start(b)]
  /\ done_flag = FALSE
  /\ promise = Empty
  /\ array = [i \in Item |-> <<i>>]
  /\ future = [b \in Block |-> Empty]
  /\ got = 0
  /\ result = Empty

(***************************************************************************)
(* The caller                                                              *)
(***************************************************************************)
(* Threads have been started and not been joined yet. *)
Unjoined ==
  /\ \E b \in Thread : Started(b)
  /\ ~ (kind \in {"plain", "packaged"} /\ main = "gather")
  /\ main # "answer"

(* Mutant: std::thread objects in a vector that nobody joins, detached. *)
RaiseDetached == main' = "threw"

(* Mutant: there is no join_threads object. *)
RaiseUnhandled ==
  main' = IF Unjoined THEN "terminated" ELSE "threw"

(* An exception leaves the caller's code.  Threads that are not joined are  *)
(* joined on the way (join_threads, in 9.2 that of the pool, or the catch   *)
(* block of 8.3 once its try block is entered, after "spawn"), or their     *)
(* std::thread objects terminate the program.                              *)
Raise ==
  LET handled == \/ kind \in {"guarded", "for_each", "pooled", "find", "partial_sum"}
                 \/ kind = "catching" /\ main # "spawn"
  IN main' = IF ~Unjoined THEN "threw" ELSE IF handled THEN "unwind" ELSE "terminated"

EmptyRange ==
  /\ main = "spawn" /\ length = 0
  /\ main' = "returned"
  /\ result' = Ready(IF kind = "find" THEN <<length + 1>> ELSE <<>>)
  /\ UNCHANGED <<params, idle, at, search, array, future, got>>

(* A thread for the next block or, in 9.2, a task for the pool's queue. *)
SpawnThread ==
  /\ main = "spawn"
  /\ \E b \in Thread :
       /\ ~Started(b) /\ \A c \in 0 .. b - 1 : Started(c)
       /\ at' = [at EXCEPT ![b] = IF kind = "pooled" THEN "queued" ELSE "start"]
  /\ UNCHANGED <<params, idle, main, search, array, future, got, result>>

(* The thread, the pool, the packaged task or its place in the queue cannot be *)
(* made.  The workers a pool has started are joined by its constructor.    *)
SpawnThrows ==
  /\ main = "spawn"
  /\ \/ \E b \in Thread : ~Started(b)
     \/ kind = "pooled" /\ Blocks = 1
  /\ Raise
  /\ UNCHANGED <<params, idle, at, search, array, future, got, result>>

(* In the constructor of 9.2's pool, m_threads cannot grow for a thread that *)
(* runs: the temporary std::thread is destroyed while it is joinable.       *)
PoolGrowthFails ==
  /\ kind = "pooled" /\ main = "spawn" /\ length > 0 /\ hardware > 0
  /\ \A b \in Thread : ~Started(b)
  /\ main' = "terminated"
  /\ UNCHANGED <<params, idle, at, search, array, future, got, result>>

GetFuture ==
  /\ main = "gather" /\ got \in Thread
  /\ future[got].state = "ready"
  /\ got' = got + 1
  /\ UNCHANGED <<params, idle, main, at, search, array, future, result>>

(* The block has failed, or the addition of its sum fails; in 8.7 there is  *)
(* nothing to add.                                                         *)
GetThrows ==
  /\ main = "gather" /\ got \in Thread
  /\ future[got].state = "failed" \/ (future[got].state = "ready" /\ kind # "for_each")
  /\ Raise
  /\ UNCHANGED <<params, idle, at, search, array, future, got, result>>

(* T result = init, or the addition of the caller's own sum.  The second 8.3 *)
(* copies init when all threads have been started, before its try block.   *)
ResultThrows ==
  /\ \/ kind \in {"plain", "packaged", "guarded", "pooled"} /\ main = "gather" /\ got \in {0, Own}
     \/ kind = "catching" /\ main = "spawn" /\ length > 0 /\ \A b \in Thread : Started(b)
     \/ kind = "catching" /\ main = "own" /\ at[Own] = "ended"
  /\ Raise
  /\ UNCHANGED <<params, idle, at, search, array, future, got, result>>

(* The sums of the blocks are added in the order of the blocks, the caller's *)
(* own last.                                                               *)
Total == FlattenSeq([i \in 1 .. Own + 1 |-> future[i - 1].sum])

(* The end of parallel_find, all threads being joined. *)
Answer ==
  /\ main = "answer"
  /\ done_flag => promise.state = "ready"
  /\ result' = IF done_flag THEN promise ELSE Ready(<<length + 1>>)
  /\ main' = After("answer")
  /\ UNCHANGED <<params, idle, at, search, array, future, got>>

AnswerThrows ==
  /\ main = "answer"
  /\ done_flag /\ promise.state = "failed"
  /\ Raise
  /\ UNCHANGED <<params, idle, at, search, array, future, got, result>>

PhaseDone ==
  \/ main = "spawn"  /\ length > 0 /\ \A b \in Thread : Started(b)
  \/ main = "own"    /\ at[Own] = "ended"
  \/ main = "join"   /\ \A b \in Thread : at[b] = "ended"
  \/ main = "gather" /\ got = Own

NextPhase ==
  /\ PhaseDone
  /\ main' = After(main)
  /\ at' = IF main' = "own" THEN [at EXCEPT ![Own] = "start"] ELSE at
  /\ result' = IF main' = "returned" THEN
                 Ready(IF kind \in Accumulators THEN Total ELSE <<>>)
               ELSE result
  /\ UNCHANGED <<params, idle, search, array, future, got>>

(* The threads that were started are joined while the exception passes; what *)
(* is still in the pool's queue then is destroyed with it.                 *)
UnwindJoins ==
  /\ main = "unwind"
  /\ \A b \in Thread : at[b] \in {"none", "queued", "ended"}
  /\ main' = "threw"
  /\ at' = [b \in Block |-> IF at[b] = "queued" THEN "none" ELSE at[b]]
  /\ UNCHANGED <<params, idle, search, array, future, got, result>>

(***************************************************************************)
(* The work on a block, by its thread or by the caller                     *)
(***************************************************************************)
Goto(b, label) == at' = [at EXCEPT ![b] = label]

(* A worker of 9.2 takes the oldest task.  An idle one may have read m_done  *)
(* before the pool's destructor sets it, and takes one more task then.     *)
Take(b) ==
  /\ at[b] = "queued" /\ idle > 0
  /\ \A c \in 0 .. b - 1 : at[c] # "queued"
  /\ idle' = idle - 1
  /\ Goto(b, "start")
  /\ UNCHANGED <<params, main, search, array, future, got, result>>

(* The worker that has run the task of block b returns to its loop, unless   *)
(* m_done has been set.                                                    *)
BackToLoop(b) ==
  idle' = IF kind = "pooled" /\ b # Own /\ main # "unwind" THEN idle + 1 ELSE idle

(* accumulate_block, in 8.7 and 9.2 the algorithm of the library. *)
Accumulate(b) ==
  /\ kind \in Accumulators /\ at[b] = "start"
  /\ future' = [future EXCEPT ![b] = Ready(Sum(Start(b), Stop(b)))]
  /\ BackToLoop(b)
  /\ Goto(b, "ended")
  /\ UNCHANGED <<params, main, search, array, got, result>>

(* A thread of 8.2 has no packaged_task to keep the exception. *)
AccumulateThrows(b) ==
  /\ kind \in Accumulators /\ at[b] = "start"
  /\ BackToLoop(b)
  /\ Goto(b, "ended")
  /\ IF b = Own THEN Raise /\ UNCHANGED future
     ELSE IF kind = "plain" THEN main' = "terminated" /\ UNCHANGED future
     ELSE future' = [future EXCEPT ![b] = Failed] /\ UNCHANGED main
  /\ UNCHANGED <<params, search, array, got, result>>

(* Mutant: the end of the block is not noticed. *)
LookPastEnd(b) ==
  /\ kind = "find" /\ at[b] = "start"
  /\ IF done_flag
     THEN Goto(b, "ended") /\ UNCHANGED pos
     ELSE IF pos[b] \in matches
     THEN Goto(b, "check") /\ UNCHANGED pos
     ELSE pos' = [pos EXCEPT ![b] = @ + 1] /\ UNCHANGED at
  /\ UNCHANGED <<params, idle, main, done_flag, promise, array, future, got, result>>

(* find_element: the loop and its comparison. *)
Look(b) ==
  /\ kind = "find" /\ at[b] = "start"
  /\ IF pos[b] > Stop(b) \/ done_flag
     THEN Goto(b, "ended") /\ UNCHANGED pos
     ELSE IF pos[b] \in matches
     THEN Goto(b, "check") /\ UNCHANGED pos
     ELSE pos' = [pos EXCEPT ![b] = @ + 1] /\ UNCHANGED at
  /\ UNCHANGED <<params, idle, main, done_flag, promise, array, future, got, result>>

(* The copy of match that find_element takes throws, before its try block. *)
MatchThrows(b) ==
  /\ kind = "find" /\ at[b] = "start" /\ pos[b] = Start(b)
  /\ Goto(b, "ended")
  /\ IF b = Own THEN Raise ELSE main' = "terminated"
  /\ UNCHANGED <<params, idle, search, array, future, got, result>>

LookThrows(b) ==
  /\ kind = "find" /\ at[b] = "start"
  /\ pos[b] <= Stop(b) /\ ~done_flag
  /\ Goto(b, "catch")
  /\ UNCHANGED <<params, idle, main, search, array, future, got, result>>

Check(b) ==
  /\ at[b] = "check"
  /\ Goto(b, IF done_flag THEN "ended" ELSE "found")
  /\ UNCHANGED <<params, idle, main, search, array, future, got, result>>

SetFlag(b) ==
  /\ at[b] \in {"found", "catch"}
  /\ done_flag' = TRUE
  /\ Goto(b, IF at[b] = "found" THEN "set_value" ELSE "set_exception")
  /\ UNCHANGED <<params, idle, main, pos, promise, array, future, got, result>>

(* set_value or set_exception; the second to set the promise gets an       *)
(* exception, sets the flag again and swallows the next exception.         *)
SetPromise(b) ==
  /\ at[b] \in {"set_value", "set_exception"}
  /\ promise' = IF promise # Empty THEN promise
                ELSE IF at[b] = "set_value" THEN Ready(<<pos[b]>>) ELSE Failed
  /\ Goto(b, "ended")
  /\ UNCHANGED <<params, idle, main, pos, done_flag, array, future, got, result>>

(* Mutant: the block's own sum is passed on without the previous end value. *)
SumBlockPublishes(b) ==
  /\ kind = "partial_sum" /\ at[b] = "start"
  /\ array' = [i \in Item |->
       IF i \in Start(b) .. Stop(b) THEN Sum(Start(b), i) ELSE array[i]]
  /\ Goto(b, IF b # Own THEN "publish" ELSE IF b # 0 THEN "await" ELSE "ended")
  /\ UNCHANGED <<params, idle, main, search, future, got, result>>

(* process_chunk: std::partial_sum over the block. *)
SumBlock(b) ==
  /\ kind = "partial_sum" /\ at[b] = "start"
  /\ array' = [i \in Item |->
       IF i \in Start(b) .. Stop(b) THEN Sum(Start(b), i) ELSE array[i]]
  /\ Goto(b, IF b # 0 THEN "await" ELSE IF b # Own THEN "publish" ELSE "ended")
  /\ UNCHANGED <<params, idle, main, search, future, got, result>>

(* previous_end_value->get(), and *last += add_end. *)
AddToLast(b) ==
  /\ at[b] = "await" /\ future[b - 1].state = "ready"
  /\ array' = [array EXCEPT ![Stop(b)] = @ \o future[b - 1].sum]
  /\ Goto(b, IF b # Own THEN "publish" ELSE "spread")
  /\ UNCHANGED <<params, idle, main, search, future, got, result>>

Publish(b) ==
  /\ at[b] = "publish"
  /\ future' = [future EXCEPT ![b] = Ready(array[Stop(b)])]
  /\ Goto(b, IF b # 0 THEN "spread" ELSE "ended")
  /\ UNCHANGED <<params, idle, main, search, array, got, result>>

(* Mutant: the last item is included, to which add_end was added before. *)
SpreadWhole(b) ==
  /\ at[b] = "spread"
  /\ array' = [i \in Item |->
       IF i \in Start(b) .. Stop(b) THEN array[i] \o future[b - 1].sum ELSE array[i]]
  /\ Goto(b, "ended")
  /\ UNCHANGED <<params, idle, main, search, future, got, result>>

(* The other items of the block; *last has its sum already. *)
Spread(b) ==
  /\ at[b] = "spread"
  /\ array' = [i \in Item |->
       IF i \in Start(b) .. Stop(b) - 1 THEN array[i] \o future[b - 1].sum ELSE array[i]]
  /\ Goto(b, "ended")
  /\ UNCHANGED <<params, idle, main, search, future, got, result>>

(* Mutant: the catch block sets no exception. *)
ChunkThrowsSilently(b) ==
  /\ kind = "partial_sum"
  /\ \/ at[b] \in {"start", "publish", "spread"}
     \/ at[b] = "await" /\ future[b - 1] # Empty
  /\ Goto(b, "ended")
  /\ IF b = Own THEN Raise ELSE UNCHANGED main
  /\ UNCHANGED <<params, idle, search, array, future, got, result>>

(* An addition or a copy of a value throws, or the get of a failed end value. *)
(* Once the end value is published, set_exception in the catch block throws  *)
(* as well and leaves the thread.                                          *)
ChunkThrows(b) ==
  /\ kind = "partial_sum"
  /\ \/ at[b] \in {"start", "publish", "spread"}
     \/ at[b] = "await" /\ future[b - 1] # Empty
  /\ Goto(b, "ended")
  /\ IF b = Own THEN Raise /\ UNCHANGED future
     ELSE IF at[b] = "spread" THEN main' = "terminated" /\ UNCHANGED future
     ELSE future' = [future EXCEPT ![b] = Failed] /\ UNCHANGED main
  /\ UNCHANGED <<params, idle, search, array, got, result>>

Work(b) ==
  /\ Running
  /\ \/ Take(b) \/ Accumulate(b) \/ AccumulateThrows(b)
     \/ MatchThrows(b) \/ Look(b) \/ LookThrows(b) \/ Check(b) \/ SetFlag(b) \/ SetPromise(b)
     \/ SumBlock(b) \/ AddToLast(b) \/ Publish(b) \/ Spread(b) \/ ChunkThrows(b)

(* The caller's code goes on; GetThrows and AnswerThrows are among it, since *)
(* a failed future or promise leaves it nothing else to do.                *)
Proceed ==
  \/ EmptyRange \/ SpawnThread \/ NextPhase \/ GetFuture \/ GetThrows
  \/ Answer \/ AnswerThrows \/ UnwindJoins

Caller == Proceed \/ SpawnThrows \/ PoolGrowthFails \/ ResultThrows

(* hardware_concurrency() is 0 and the pool has no worker, yet there are tasks. *)
NoWorkers == kind = "pooled" /\ hardware = 0 /\ length > MinPerThread

(* The call is over, or waits for tasks that no worker is there to run. *)
Over ==
  /\ \/ ~Running
     \/ main = "gather" /\ NoWorkers
  /\ UNCHANGED vars

Next ==
  \/ \E b \in Block : Work(b)
  \/ Caller
  \/ Over

(* Every thread goes on when it can; block b's is thread b, the caller's the last. *)
(* No exception has to happen: a caller that waits is not rescued by one.   *)
Fairness == WF_vars(Proceed) /\ \A b \in 0 .. MaxLength : WF_vars(b \in Block /\ Work(b))

Spec == Init /\ [][Next]_vars /\ Fairness

-----------------------------------------------------------------------------
Outcome == [state : {"empty", "failed", "ready"}, sum : Seq(1 .. MaxLength + 1)]

Label == {"none", "queued", "start", "check", "found", "catch", "set_value", "set_exception",
          "await", "publish", "spread", "ended"}

(* Every variable has its type. *)
TypeOK ==
  /\ kind \in Kinds
  /\ length \in 0 .. MaxLength /\ hardware \in 0 .. MaxHardware
  /\ matches \in SUBSET Item
  /\ main \in {"spawn", "own", "join", "gather", "answer", "unwind",
               "returned", "threw", "terminated"}
  /\ idle \in 0 .. hardware
  /\ at \in [Block -> Label]
  /\ pos \in [Block -> 1 .. length + 1]
  /\ done_flag \in BOOLEAN /\ promise \in Outcome /\ result \in Outcome
  /\ array \in [Item -> Seq(Item)]
  /\ future \in [Block -> Outcome]
  /\ got \in 0 .. Own + 1

(* The blocks cut the range into consecutive pieces, none of them empty,
   whatever the length and the number of processors: block_size - 1 in 8.11
   does not wrap around and no iterator passes the end. *)
PartitionExact ==
  length > 0 =>
    /\ Start(0) = 1 /\ Stop(Own) = length
    /\ \A b \in Block : Start(b) <= Stop(b)
    /\ \A b \in Thread : Start(b + 1) = Stop(b) + 1

(* list is a sum of exactly the items 1 .. n, in some order. *)
SumsUpTo(list, n) == Len(list) = n /\ ToSet(list) = 1 .. n

(* A call that returns has done what the sequential algorithm does: the sum
   of all items in their order, a match if there is one and the end of the
   range otherwise, the partial sum at every item. *)
SameAsSequential ==
  main = "returned" =>
    CASE kind \in Accumulators -> result = Ready(Sum(1, length))
      [] kind = "find" ->
           IF matches = {} THEN result = Ready(<<length + 1>>)
           ELSE \E m \in matches : result = Ready(<<m>>)
      [] kind = "partial_sum" -> \A i \in Item : SumsUpTo(array[i], i)

(* An end value that has been passed on is the complete sum of all items so
   far, although the other items of its block are not complete yet. *)
EndValuesAreFinal ==
  kind = "partial_sum" =>
    \A b \in Block : future[b].state = "ready" =>
      /\ SumsUpTo(future[b].sum, Stop(b))
      /\ future[b].sum = array[Stop(b)]

(* However the call is left, by a result or by an exception, the blocks, the
   results and the flags it owns are not used by a thread any more, and no task
   of it is left in a queue. *)
NoThreadLeft ==
  main \in {"returned", "threw"} => \A b \in Block : at[b] \in {"none", "ended"}

(* The work on block b ends with this step. *)
LeavesThread(b) == at[b] # "ended" /\ at'[b] = "ended"

(* This step may terminate the program. *)
TerminationStep ==
  main' = "terminated" =>
    \/ /\ \E b \in Thread : Started(b)
       /\ \/ kind \in {"plain", "packaged"} /\ main \in {"spawn", "own"}
          \/ kind = "catching" /\ main = "spawn"
    \/ kind = "pooled" /\ main = "spawn" /\ \A b \in Thread : ~Started(b)
    \/ \E b \in Thread :
         /\ LeavesThread(b)
         /\ \/ kind = "plain"
            \/ kind = "find" /\ pos[b] = Start(b)
            \/ kind = "partial_sum" /\ future[b].state = "ready"

(* Where an exception may terminate the program.  The caller's does in 8.2 and
   the first 8.3 while its threads are not joined, and in the second 8.3 before
   the try block is entered; the constructor of 9.2's pool does, but nothing
   later in 9.2; a thread's does in 8.2 anywhere, in 8.9 before its search has
   begun and in 8.11 in a block that has passed its end value on.  8.4 and 8.7
   are never terminated. *)
TerminatedOnlyIf == [][TerminationStep]_vars

(* The call comes to an end: no thread waits for an end value or a result that
   nobody is going to set, also when threads fail or cannot be started.  The
   exception is 9.2 where hardware_concurrency() is 0, for which it alone makes
   no provision: its pool has no worker then. *)
CallEnds == NoWorkers \/ <>(main \in {"returned", "threw", "terminated"})
=============================================================================
