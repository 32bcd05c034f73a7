----------------------------- MODULE PoolSorter -----------------------------
(***************************************************************************)
(* The quicksort on a thread pool of "9.5 quicksort_with_thread_pool.cpp", *)
(* "9.6 thread_pool_with_thread_local_queue.cpp" and                       *)
(* "9.8 thread_pool_with_work_stealing.cpp".  do_sort submits the lower    *)
(* part of its chunk as a task, sorts the higher part itself, and runs     *)
(* pending tasks until the task it submitted is done, so a thread's stack  *)
(* holds sorts that wait under sorts that have nothing to do with them.    *)
(* The three files differ in where a task is queued and where it is looked *)
(* for.  Each step is one access to a queue, a future or m_done.           *)
(***************************************************************************)
EXTENDS Naturals, Sequences, SequencesExt, FiniteSets

CONSTANTS
  Workers,   (* std::thread::hardware_concurrency()                        *)
  Length,    (* of the list to sort                                        *)
  Key,       (* Key[i] is the value of item i of the list                  *)
  Kind       (* the files looked at: a subset of AllKinds                  *)

AllKinds == {"shared", "local", "stealing"}   (* 9.5, 9.6, 9.8 *)

ASSUME PoolAssumption ==
  /\ Workers \in Nat /\ Length \in Nat \ {0}
  /\ Key \in [1 .. Length -> Nat]
  /\ Kind \subseteq AllKinds

Item   == 1 .. Length
Worker == 0 .. Workers - 1
Main   == Workers
Thread == Worker \cup {Main}
Pool   == Workers      (* the queue of the pool; others are named by worker *)
Queue  == Worker \cup {Pool}
NoItem == 0

VARIABLES
  kind,      (* which of the pools this is                                 *)
  queue,     (* m_work_queue or m_pool_work_queue, and the local queues    *)
  lower,     (* the chunk bound into the task submitted by each pivot      *)
  future,    (* the future of that task                                    *)
  stack,     (* the calls of do_sort each thread is in                     *)
  scan,      (* how far run_pending_task has looked; 0 outside of it       *)
  pc,        (* what each thread does around its calls                     *)
  m_done,    (* set by the pool's destructor                               *)
  output     (* what parallel_quick_sort returns                           *)

vars == <<kind, queue, lower, future, stack, scan, pc, m_done, output>>

(* What a future holds, or a call returns. *)
Pending     == [state |-> "pending", list |-> <<>>]
Failed      == [state |-> "failed",  list |-> <<>>]
Broken      == [state |-> "broken",  list |-> <<>>]
Value(list) == [state |-> "ready",   list |-> list]

(***************************************************************************)
(* A call of do_sort.  An item is a pivot once in a run, so it names the   *)
(* call in which it is one, the task submitted there and that task's       *)
(* future.  task is the task this call is the body of, or NoItem.          *)
(***************************************************************************)
Call(task, chunk) ==
  [at |-> "split", task |-> task, chunk |-> chunk, pivot |-> NoItem, higher |-> <<>>]

Top(t)   == Last(stack[t])
At(t, a) == stack[t] # <<>> /\ Top(t).at = a

Init ==
  /\ kind \in Kind
  /\ queue = [q \in Queue |-> <<>>]
  /\ lower = [i \in Item |-> {}]
  /\ future = [i \in Item |-> Pending]
  /\ stack = [t \in Thread |-> <<>>]
  /\ scan = [t \in Thread |-> 0]
  /\ pc = [t \in Thread |-> IF t = Main THEN "construct" ELSE "new"]
  /\ m_done = FALSE
  /\ output = Pending

(***************************************************************************)
(* The constructor starts the workers in order.  If one cannot be started, *)
(* or a queue of 9.8 not be made before, m_done is set and the others are  *)
(* joined while the exception leaves.                                      *)
(***************************************************************************)
StartThread ==
  /\ pc[Main] = "construct"
  /\ \E w \in Worker :
       /\ pc[w] = "new" /\ \A v \in 0 .. w - 1 : pc[v] # "new"
       /\ pc' = [pc EXCEPT ![w] = "loop"]
  /\ UNCHANGED <<kind, queue, lower, future, stack, scan, m_done, output>>

StartFails ==
  /\ pc[Main] = "construct"
  /\ \E w \in Worker : pc[w] = "new"
  /\ m_done' = TRUE
  /\ output' = Failed
  /\ pc' = [pc EXCEPT ![Main] = "join"]
  /\ UNCHANGED <<kind, queue, lower, future, stack, scan>>

(* m_threads cannot grow for a thread that runs: the temporary std::thread is *)
(* destroyed while it is joinable, which terminates the program.           *)
GrowthFails ==
  /\ pc[Main] = "construct"
  /\ \E w \in Worker : pc[w] = "new"
  /\ pc' = [pc EXCEPT ![Main] = "terminated"]
  /\ UNCHANGED <<kind, queue, lower, future, stack, scan, m_done, output>>

BeginSort ==
  /\ pc[Main] = "construct"
  /\ \A w \in Worker : pc[w] # "new"
  /\ pc' = [pc EXCEPT ![Main] = "sort"]
  /\ stack' = [stack EXCEPT ![Main] = <<Call(NoItem, Item)>>]
  /\ UNCHANGED <<kind, queue, lower, future, scan, m_done, output>>

(***************************************************************************)
(* do_sort                                                                 *)
(***************************************************************************)
(* The end of the topmost call of t, with result r: into the future if the *)
(* call is a task's, to the calling do_sort, or out of main's first call.  *)
Return(t, r) ==
  LET rest  == Front(stack[t])
      task  == Top(t).task
      inner == task = NoItem /\ rest # <<>>
      first == task = NoItem /\ rest = <<>>
  IN /\ future' = IF task # NoItem THEN [future EXCEPT ![task] = r] ELSE future
     /\ stack' = [stack EXCEPT ![t] =
          IF inner THEN [rest EXCEPT
               ![Len(rest)].at = IF r = Failed THEN "unwind" ELSE "wait",
               ![Len(rest)].higher = r.list]
          ELSE rest]
     /\ output' = IF first THEN r ELSE output
     /\ pc' = IF first THEN [pc EXCEPT ![t] = "destroy"] ELSE pc

EmptyChunk(t) ==
  /\ At(t, "split") /\ Top(t).chunk = {}
  /\ Return(t, Value(<<>>))
  /\ UNCHANGED <<kind, queue, lower, scan, m_done>>

(* submit: a worker of 9.6 and 9.8 has a queue of its own, and that of 9.8 *)
(* is a stack.                                                             *)
Submit(t, p) ==
  LET q == IF kind = "shared" \/ t = Main THEN Pool ELSE t
  IN queue' = [queue EXCEPT ![q] =
       IF kind = "stealing" /\ q # Pool THEN <<p>> \o @ ELSE Append(@, p)]

(* The pivot is the first item; neither the caller nor std::partition says *)
(* which item of the chunk that is.                                        *)
Split(t) ==
  /\ At(t, "split")
  /\ \E p \in Top(t).chunk :
       LET less == {i \in Top(t).chunk : Key[i] < Key[p]}
       IN /\ lower' = [lower EXCEPT ![p] = less]
          /\ Submit(t, p)
          /\ stack' = [stack EXCEPT ![t] =
               Append([@ EXCEPT ![Len(@)].at = "called", ![Len(@)].pivot = p],
                      Call(NoItem, Top(t).chunk \ (less \cup {p})))]
  /\ UNCHANGED <<kind, future, scan, pc, m_done, output>>

(* An allocation fails before the task is in a queue. *)
SplitThrows(t) ==
  /\ At(t, "split") /\ Top(t).chunk # {}
  /\ Return(t, Failed)
  /\ UNCHANGED <<kind, queue, lower, scan, m_done>>

(* The sort of the higher part has thrown; the future is dropped. *)
Unwind(t) ==
  /\ At(t, "unwind")
  /\ Return(t, Failed)
  /\ UNCHANGED <<kind, queue, lower, scan, m_done>>

(* Mutant: the lower part is put behind the higher part. *)
GetAppends(t) ==
  LET f == future[Top(t).pivot]
  IN /\ At(t, "wait") /\ scan[t] = 0 /\ f # Pending
     /\ Return(t, IF f.state = "ready"
                  THEN Value(<<Top(t).pivot>> \o Top(t).higher \o f.list)
                  ELSE Failed)
     /\ UNCHANGED <<kind, queue, lower, scan, m_done>>

(* Mutant: the lower part is not waited for. *)
GetTooEarly(t) ==
  LET f == future[Top(t).pivot]
  IN /\ At(t, "wait") /\ scan[t] = 0
     /\ Return(t, IF f.state \in {"ready", "pending"}
                  THEN Value(f.list \o <<Top(t).pivot>> \o Top(t).higher)
                  ELSE Failed)
     /\ UNCHANGED <<kind, queue, lower, scan, m_done>>

(* The future is ready: get() returns the lower part or throws. *)
Get(t) ==
  LET f == future[Top(t).pivot]
  IN /\ At(t, "wait") /\ scan[t] = 0 /\ f # Pending
     /\ Return(t, IF f.state = "ready"
                  THEN Value(f.list \o <<Top(t).pivot>> \o Top(t).higher)
                  ELSE Failed)
     /\ UNCHANGED <<kind, queue, lower, scan, m_done>>

(* The future is not ready: run_pending_task. *)
HelpOut(t) ==
  /\ At(t, "wait") /\ scan[t] = 0
  /\ future[Top(t).pivot] = Pending
  /\ scan' = [scan EXCEPT ![t] = 1]
  /\ UNCHANGED <<kind, queue, lower, future, stack, pc, m_done, output>>

(***************************************************************************)
(* run_pending_task                                                        *)
(***************************************************************************)
(* Mutant: a worker of 9.6 does not look into its own queue. *)
SearchNotLocal(t) ==
  CASE kind \in {"shared", "local"} -> <<Pool>>
    [] kind = "stealing" -> <<Pool>> \o [i \in 1 .. Workers |-> (t + i) % Workers]

(* pop_task_from_other_thread_queue: the workers' queues beginning with the *)
(* next one; main has the default index 0.                                  *)
OtherQueues(t) ==
  [i \in 1 .. Workers |-> ((IF t = Main THEN 0 ELSE t) + i) % Workers]

(* The queues in which t looks for a task, in order. *)
Search(t) ==
  (IF kind = "shared" \/ t = Main THEN <<>> ELSE <<t>>)
  \o <<Pool>>
  \o (IF kind = "stealing" THEN OtherQueues(t) ELSE <<>>)

(* Mutant: the task is moved out of the queue but not removed. *)
TakeTaskKeeps(t) ==
  /\ scan[t] # 0
  /\ LET q == Search(t)[scan[t]]
     IN /\ queue[q] # <<>>
        /\ stack' = [stack EXCEPT ![t] =
             Append(@, Call(Head(queue[q]), lower[Head(queue[q])]))]
  /\ scan' = [scan EXCEPT ![t] = 0]
  /\ UNCHANGED <<kind, queue, lower, future, pc, m_done, output>>

(* Mutant: the search goes on after a task has been found. *)
TakeTaskLooksOn(t) ==
  /\ scan[t] # 0
  /\ LET q == Search(t)[scan[t]]
     IN /\ queue[q] # <<>>
        /\ queue' = [queue EXCEPT ![q] = Tail(@)]
        /\ stack' = [stack EXCEPT ![t] =
             Append(@, Call(Head(queue[q]), lower[Head(queue[q])]))]
  /\ UNCHANGED <<kind, lower, future, scan, pc, m_done, output>>

(* try_pop finds a task, and it is called. *)
TakeTask(t) ==
  /\ scan[t] # 0
  /\ LET q == Search(t)[scan[t]]
     IN /\ queue[q] # <<>>
        /\ queue' = [queue EXCEPT ![q] = Tail(@)]
        /\ stack' = [stack EXCEPT ![t] =
             Append(@, Call(Head(queue[q]), lower[Head(queue[q])]))]
  /\ scan' = [scan EXCEPT ![t] = 0]
  /\ UNCHANGED <<kind, lower, future, pc, m_done, output>>

(* try_pop finds nothing: the next queue, or yield after the last. *)
NextQueue(t) ==
  /\ scan[t] # 0
  /\ queue[Search(t)[scan[t]]] = <<>>
  /\ scan' = [scan EXCEPT ![t] = IF scan[t] = Len(Search(t)) THEN 0 ELSE scan[t] + 1]
  /\ UNCHANGED <<kind, queue, lower, future, stack, pc, m_done, output>>

(***************************************************************************)
(* work_thread and the destructor                                          *)
(***************************************************************************)
WorkOn(w) ==
  /\ pc[w] = "loop" /\ stack[w] = <<>> /\ scan[w] = 0
  /\ ~m_done
  /\ scan' = [scan EXCEPT ![w] = 1]
  /\ UNCHANGED <<kind, queue, lower, future, stack, pc, m_done, output>>

(* The tasks in the queues qs are destroyed without having been run. *)
Drop(qs) ==
  /\ queue' = [q \in Queue |-> IF q \in qs THEN <<>> ELSE queue[q]]
  /\ future' = [i \in Item |->
       IF \E q \in qs : i \in ToSet(queue[q]) THEN Broken ELSE future[i]]

(* The worker leaves its loop.  The queue of 9.6 is thread_local. *)
Stop(w) ==
  /\ pc[w] = "loop" /\ stack[w] = <<>> /\ scan[w] = 0
  /\ m_done
  /\ Drop(IF kind = "local" THEN {w} ELSE {})
  /\ pc' = [pc EXCEPT ![w] = "exit"]
  /\ UNCHANGED <<kind, lower, stack, scan, m_done, output>>

(* ~thread_pool *)
SetDone ==
  /\ pc[Main] = "destroy"
  /\ m_done' = TRUE
  /\ pc' = [pc EXCEPT ![Main] = "join"]
  /\ UNCHANGED <<kind, queue, lower, future, stack, scan, output>>

(* Mutant: the queues are declared after m_joiner, and destroyed before. *)
DestroyBeforeJoin ==
  /\ pc[Main] = "join"
  /\ Drop(Queue)
  /\ pc' = [pc EXCEPT ![Main] = "end"]
  /\ UNCHANGED <<kind, lower, stack, scan, m_done, output>>

(* ~join_threads joins the threads that were started; the queues go after. *)
JoinAndDestroy ==
  /\ pc[Main] = "join"
  /\ \A w \in Worker : pc[w] \in {"new", "exit"}
  /\ Drop(Queue)
  /\ pc' = [pc EXCEPT ![Main] = "end"]
  /\ UNCHANGED <<kind, lower, stack, scan, m_done, output>>

Sort(t) ==
  \/ EmptyChunk(t) \/ Split(t) \/ SplitThrows(t) \/ Unwind(t)
  \/ Get(t) \/ HelpOut(t) \/ TakeTask(t) \/ NextQueue(t)

(* A worker's steps, until the program is terminated. *)
Work(w) == pc[Main] # "terminated" /\ (Sort(w) \/ WorkOn(w) \/ Stop(w))

MainStep ==
  \/ StartThread \/ StartFails \/ GrowthFails \/ BeginSort
  \/ Sort(Main) \/ SetDone \/ JoinAndDestroy

(* The program has ended. *)
Ended == pc[Main] \in {"end", "terminated"} /\ UNCHANGED vars

Next == (\E w \in Worker : Work(w)) \/ MainStep \/ Ended

Fairness == (\A w \in Worker : WF_vars(Work(w))) /\ WF_vars(MainStep)

Spec == Init /\ [][Next]_vars /\ Fairness

-----------------------------------------------------------------------------
Outcome == [state : {"pending", "ready", "failed", "broken"}, list : Seq(Item)]

CallType ==
  [at : {"split", "called", "wait", "unwind"}, task : Item \cup {NoItem},
   chunk : SUBSET Item, pivot : Item \cup {NoItem}, higher : Seq(Item)]

(* Every variable has its type; only a waiting call or an idle worker scans. *)
TypeOK ==
  /\ kind \in Kind
  /\ queue \in [Queue -> Seq(Item)]
  /\ lower \in [Item -> SUBSET Item]
  /\ future \in [Item -> Outcome]
  /\ stack \in [Thread -> Seq(CallType)]
  /\ scan \in [Thread -> 0 .. Workers + 2]
  /\ pc \in [Thread -> {"new", "loop", "exit", "construct", "sort", "destroy", "join",
                      "end", "terminated"}]
  /\ m_done \in BOOLEAN
  /\ output \in Outcome
  /\ \A t \in Thread : scan[t] # 0 => stack[t] = <<>> \/ At(t, "wait")

(* list holds the items of chunk, once each and in ascending order. *)
Sorts(list, chunk) ==
  /\ Len(list) = Cardinality(chunk) /\ ToSet(list) = chunk
  /\ IsSorted(list, LAMBDA a, b : Key[a] <= Key[b])

(* The calls that some thread is in. *)
Calls == UNION {ToSet(stack[t]) : t \in Thread}

(* What a task or the whole sort delivers is its chunk, sorted: whichever
   threads took the parts, no item is lost, doubled or misplaced. *)
ResultsAreSorted ==
  /\ \A i \in Item : future[i].state = "ready" => Sorts(future[i].list, lower[i])
  /\ output.state = "ready" => Sorts(output.list, Item)

(* A task is in one place: at one position of one queue, or run by one
   thread, or done.  No task is run twice, by its owner and by a thief for
   instance, and none gets lost between a queue and a thread. *)
TaskInOnePlace ==
  \A i \in Item :
    LET queued  == {p \in Queue \X Item :
                      p[2] <= Len(queue[p[1]]) /\ queue[p[1]][p[2]] = i}
        running == {p \in Thread \X (1 .. 2 * Length + 1) :
                      p[2] <= Len(stack[p[1]]) /\ stack[p[1]][p[2]].task = i}
    IN /\ Cardinality(queued) + Cardinality(running) <= 1
       /\ future[i] # Pending => queued = {} /\ running = {}
       /\ (\E c \in Calls : c.pivot = i) /\ future[i] = Pending
            => queued # {} \/ running # {}

(* When the pool drops a task, no call waits for it any more: neither a
   worker that leaves with tasks in its own queue nor the destructor breaks
   a promise that a sort depends on. *)
DroppedAreAbandoned ==
  \A i \in Item : future[i] = Broken => \A c \in Calls : c.pivot # i

(* If the sort returns a list, the pool is at rest: nothing is queued and
   nobody is inside a sort, so that the destructor has nothing to drop. *)
QuietAfterSuccess ==
  output.state = "ready" =>
    /\ \A q \in Queue : queue[q] = <<>>
    /\ \A t \in Thread : stack[t] = <<>>

(* A thread that waits under another's task can still finish: the sort, with
   its tasks waiting for tasks, and the destructor always come to an end, if
   the constructor does not terminate the program. *)
SortReturns == <>(pc[Main] \in {"end", "terminated"})
=============================================================================
