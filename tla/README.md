# TLA+ models of the C++ Concurrency in Action examples

The repository is a collection of some forty programs: lock-based containers
(chapter 6), lock-free containers (7), parallel algorithms (8), thread pools and
interruptible threads (9), a test of a concurrent queue (10) and a cash machine
built from message passing actors (11).  Nothing is shared between the files:
each defines the classes it needs.  What they have in common, and what this
project is about, is a small amount of code whose correctness rests on how
threads interleave.

## 1. Inventory

| Part | State it keeps | Operations | What is hard | What makes it correct |
|---|---|---|---|---|
| Queue, 6.7 | linked list with a dummy last node, `m_upHead`, `m_pTail`, two mutexes, one condition variable | `push`, 2 `wait_and_pop`, 2 `try_pop`, `empty` | two mutexes for one list; data read after unlock; notify outside the lock; throwing assignment | linearizable FIFO, no data race, no leak, waiters are woken |
| Queue test, 10.1 | promises, futures, `value` | two async tasks, two assertions | the two tasks are not ordered | the assertions hold |
| Cash machine, 11.1 | one message queue per actor, the atm's `m_state` and `m_pin` | the state functions' handlers, `bank_machine::run`, `interface_machine::run`, `main` | messages that arrive in a later state, keys typed ahead, shutdown | right PIN only, every request answered, cancel works, `main` returns |
| Stacks, 7.10 and 7.11 | `m_head` with external count, internal count per node | `push`, `pop` | reclamation while others still hold the pointer; address reuse under compare-and-swap | linearizable LIFO, each node deleted once, after its last use |
| List, 6.13 | one mutex per node, `m_next` chain | `push_front`, `for_each`, `find_first_if`, `remove_if`, destructor | a walk hands over from mutex to mutex while nodes and their mutexes are deleted | walks exact, nodes outlive their mutexes, no deadlock |
| Stack 6.1, queues 6.2, 6.3 | a container and one mutex, in the queues a condition variable | push, pops, waits | a woken waiter that throws; the missing `pop()` in one `try_pop` of 6.2 | no element dropped or overtaken, each delivered once, no waiter stranded |
| Queues 6.4-6.6 | a list and, in 6.6, two mutexes | push, try_pop | 6.4 and 6.5 are sequential; 6.6 is 6.7 without waiting | as 6.7 |
| Lookup table, 6.11 | buckets with a `shared_mutex` each | `value_for`, `add_for_update_mapping`, `remove_mapping`, `get_map` | an iterator used after the lookup; `get_map` locks every bucket, one by one | linearizable map, consistent snapshot, no deadlock |
| Stack, 7.2.3 | hazard pointer array, reclaim list | `push`, `pop` | publish and recheck; reclaim list swapped under others; slot search that throws | no use after free, LIFO |
| Stack, 7.9 | atomic `shared_ptr` head | `push`, `pop` | inverted loop condition | LIFO |
| Queues, 7.13, 7.15, 7.16 | head and tail, counted in 7.15/7.16 | `push`, `pop` | memory order; claiming a node that has left the queue; a reference that is not given back | FIFO, no leak |
| Sorter, 8.1; algorithms 8.2-8.11, and the one of 9.2 | blocks, threads or futures, results | partition, run, join | exceptions between starts and joins, block arithmetic, flags | result equals the sequential one; all threads joined |
| Partial sum, 8.13 | a barrier of three atomics | `wait`, `done_waiting` | decrement and test are two steps | no thread passes before all arrived |
| Pools, 9.1-9.8 | task queues (shared, local, stolen from), `m_done` | `submit`, `run_pending_task`, workers, destructor | tasks waiting for tasks, stealing, shutdown | each task run at most once, no deadlock |
| Interruptible waits, 9.11, 9.12 | flag, pointer to the condition variable | `interrupt`, `interruptible_wait` | interrupt between check and wait | an interrupt is noticed |

Interaction: the actors of 11.1 only talk through message queues; pools and
algorithms talk to their workers through queues and futures; the containers are
called concurrently by any number of threads.  `PROJECT.json` lists each part,
also those without a model, and under `hazards` the lines where the code can go
wrong in ways a test would hardly reach.

## 2. Modules

| Module | What it is |
|---|---|
| `AbstractQueue` | what a concurrent FIFO queue promises |
| `WaitableQueue` | 6.7, one shared access per step |
| `WaitableQueueProofs` | theorems about `WaitableQueue` |
| `AbstractTable`, `LookupTable` | what a concurrent map promises; 6.11 |
| `LookupTableProofs` | theorems about `LookupTable` |
| `LockedQueues` | 6.1, 6.2 and 6.3, one critical section per step |
| `LockedQueuesProofs` | theorems about `LockedQueues` |
| `RefCountQueue` | 7.15 |
| `Atm` | 11.1: main thread, atm, bank, interface |
| `AtmProofs` | theorems about `Atm` |
| `AbstractStack`, `SplitRefStack` | what a concurrent stack promises; 7.11, and 7.10 by a constant |
| `SplitRefStackProofs` | theorems about `SplitRefStack` |
| `AbstractList`, `HandOverHandList` | what walks over a shared list promise; 6.13 |
| `HandOverHandListProofs` | theorems about `HandOverHandList` |
| `ForkJoin` | 8.2, both 8.3, 8.4, 8.7, 8.9, 8.11 and, on a thread pool, 9.2 |
| `ForkJoinProofs` | theorems about `ForkJoin` |
| `PairwiseSum` | 8.13 with its barrier |
| `PoolSorter` | the quicksort on the pools of 9.5, 9.6 and 9.8 |
| `PoolSorterProofs` | theorems about `PoolSorter` |
| `MC*` | the constants, symmetry and bounds TLC needs |

Definitions whose comment starts with "Mutant:" belong to no specification.
Each is a definition of the model with one plausible programming error; for
every property `PROJECT.json` names one of them, and with it in place TLC finds
the property violated.

### WaitableQueue (6.7)

A thread's `pc` says which access comes next.  `push` is `BeginPush` (the node
is allocated before the lock), `LockTail`, `WriteData`, `LinkNode`, `MoveTail`
(last assignment and unlock), `NotifyOne`.  The readers start with `BeginRead`,
which picks the overload, and `LockHead`; the comparison of `m_upHead` with
`get_tail()` is one step, because `get_tail` holds the tail mutex for a single
read.  It leads to `FoundData`, `FoundNoData` (a wait's predicate is false) or
`Answer` (`try_pop` gives up, `empty` answers).  `Block` enters the wait and
releases the mutex in one step; that it is not the same step as `FoundNoData` is
the point, since a push does not take the head mutex.  The reference overloads
move the value first (`MoveValue`, which may throw: `MoveThrows`); `PopHead` is
`pop_head` with the unlock that ends the caller's scope; `ReadData` is the copy
of `old_head->m_data` after it; `Return` destroys `old_head`.

`chain` is a history variable: the linked nodes.  `ListIntact` says it is what
following `m_next` would find, so it could be computed, and no guard reads it.
The abstract queue is `data` along `chain` without the dummy; a push takes effect
in `MoveTail`, a pop in `PopHead`, an empty answer in `Answer`.

The test of 10.1 runs a push and a `try_pop` on a copy of this queue.  It releases
both tasks at once, so the pop may come first: then the queue answers "empty",
rightly, and both assertions of the test fail.

### LockedQueues (6.1, 6.2, 6.3)

Every call holds the one mutex throughout, except while it sleeps in `wait`, so a
step is a critical section: `Push` with its `notify_one`, `PopNow` for a pop that
finds an element at once, `PopNothing`, `Block` (the predicate is false and the
thread sleeps), `SpuriousWakeup`, and `PopWoken` when the wait is over and the
predicate true.  `kind` is the file, and for 6.2 also what moving a `T` leaves behind:
the object itself where a move is a copy (`"copies"`, the `int` of its `main`), or an
empty one (`"moves"`).  The i-th push pushes the number i, so that lost, doubled and
overtaking elements show.

Two things make it more than a queue.  `WokenThrows`: a waiter that was notified and
fails while it delivers the element (a copy of `T`, or the allocation of the
`shared_ptr` in 6.2) has used up the notification; the element stays in the queue
and another waiter may sleep beside it.  6.3 allocates in `push` and is safe from
this with its `shared_ptr` overload, not with its `T&` overload.  `NoStrandedWaiter` counts
these exceptions (`thrown`) and allows one element beside a sleeper for each: it excludes
every other way to lose a notification, and not this one, which the code has.

And `TryPopPtr`: the `try_pop` of 6.2 that returns a `shared_ptr` moves the front out and
does not pop it (line 56).  What it leaves, `MovedFrom`, is delivered by the pop after it,
and `taken` records that delivery like any other: the same number again for an `int`,
otherwise a `Husk`.  `left` counts such calls.  `NothingLostInOrder` says what holds all
the same: every number pushed is delivered or still there, queues deliver in the order of
the pushes, there are more deliveries than elements by exactly `left`, which stays 0 in
6.1 and 6.3, and a husk is only ever at the front.  For 6.1 and 6.3 this means that each
element is delivered once.  For 6.2 it does not hold, and the property does not claim it:
push 333, call `try_pop()`, call a `wait_for_pop`, and both deliver 333.
Copying a 6.1 stack and `empty()` are single critical sections that change nothing.

### LookupTable (6.11)

`writer` and `readers` are the state of each bucket's `shared_mutex`.  A call on a key
takes `BeginKeyed`, `LockBucket` (shared for `value_for`), `FindEntryFor`, then
`ValueFor`, `AddOrUpdateMapping` or `RemoveMapping`, `Unlock` and `Return`: the lookup
and the use of its iterator are different steps, as they are different statements.
`get_map` takes one lock at a time (`LockNext`), in the order of the buckets, copies
one bucket at a time (`CopyBucket`), and lets go of the locks in any order.  `Throw` is
an allocation or a copy that fails under the locks.

A bucket is a list that nothing orders, so its entries for a key are a set of values.
The code means that set never to have two elements; the model does not, and
`BucketsSound` has to be shown.  `AbstractTable` is one map: a call on a key takes
effect at the use of the iterator, `get_map` when it has its last lock.

### RefCountQueue (7.15)

One step per access to shared memory; a compare-and-swap loop that only adjusts a
counter is one step, since its failed turns change nothing.  `internal` and
`counters` are the two bit fields of a node's count, and a node is deleted, and its
address may come back, when both reach zero.  The model was written to check that
every element pushed is popped or still linked (`NothingLost`); it is not so.  A push
that has counted the old tail tries to claim it by exchanging `m_data` for
`nullptr`.  If another push was faster, moved the tail on and returned, and a pop
took its value, `m_data` of that node is `nullptr` again (line 63): the claim
succeeds on a node that has left the queue, and the value that is put there can never
be popped.  Because of this no property of the whole queue is left to check.

### Atm (11.1)

`queue[m]` is the message queue of machine `m`; a send is one step because
`message_queue::push` is one critical section that notifies while it holds the
mutex, and so is a receive.  A state function of the atm is a prompt it sends
(two of them have one) and a table of handlers, each with the message it takes,
the next state and what it sends; `AtmHandle` is `dispatch` finding the handler,
`AtmDrop` is the loop of `wait_and_dispatch` that throws away a message nobody
handles, `AtmEditPin` is the digit handling of `getting_pin`.  Accounts, amounts
and the balance are left out: no handler looks at them.  No key sends
`clear_last_pressed`, so its handler is modelled and can never run.  Key 'i'
falls through to `default`, which does nothing.  The bank has no handler for
`withdraw` and `get_balance` (`BankDrop`): a customer who asks for money waits until he
cancels, which is why `CancelEjects` matters.

`abandoned` is a history variable used by one property: the bank's answers do not
say which request they answer, so after a session is cancelled in
`verifying_pin`, the answer that is still on its way is taken by the next session
as its own if that one is in `verifying_pin` when it arrives.  Without the
proviso `~abandoned` TLC refutes `AcceptedPinCorrect`: enter the right PIN, cancel
before the answer, insert the card again, enter a wrong PIN: the first answer
admits the customer.

### SplitRefStack (7.11, 7.10)

`m_head` is a record of count and node, swapped as a whole (the code's
`atomic<struct>`).  A failed `compare_exchange` also loads the current value, so
it is the step `PushLoad` or `PopLoad` again.  `ReadNext` is the evaluation of
`old_head.m_ptr->m_next` as an argument, before the compare-and-swap itself.  An
empty pop is decided in `Increase`: the pointer compared with null at line 34 is
the one swapped there.  `LoserDelta` is -1 for 7.11 and 1 for 7.10, the
difference between the two files that matters here.  A deleted address may be
allocated again.  All accesses are sequentially consistent: the relaxed orders of
7.11 are outside the model.

### HandOverHandList (6.13)

`owner` gives the holder of each node's mutex, including `Start`, the head node
that is a member of the list.  The walks share their steps: `LockStart`,
`ReadNext` (the `while` condition) or `EndOfList`, `LockNext`; then `for_each` and
`find_first_if` take `UnlockCurrent`, `Visit` or `Find`, and `remove_if` takes
`Keep`, or `Unlink`, `UnlockNext`, `Destroy`.  What `f` and `p` answer is left
open: they may say anything, and throw (`Throw`).  `met` records which element
they were called with, so that the abstract list can say which elements a walk
must meet.  The abstract list knows no mutex: a walk is the sequence of elements
it still has to meet, and a removal takes an element out of every such sequence.

### ForkJoin (8.2, 8.3, 8.4, 8.7, 8.9, 8.11, 9.2)

`kind` is the program.  `main` is the phase the caller is in: it starts the
threads (`SpawnThread`, `SpawnThrows`), works on the last block itself, joins, gets
the futures, answers; `PlainOrder` to `SumOrder` give each program's order, which
is the main thing they differ in.  `at[b]` is where the work on block `b` is,
whoever does it.  A block of an accumulation is one step (`Accumulate`), because
nothing is shared before the sum is delivered; `find_element` is a step per item,
per access to `done_flag` and to the promise; `process_chunk` is a step per
traversal of its block and per access to a promise or a future.

Each step that can throw has a throwing twin.  What can throw is the start of a
thread, every allocation, the copies, additions and comparisons of a `T`, and the copies
and comparisons of a `MatchType`; iterators do not.  `Raise` is what an exception does
that leaves the caller's code: with `join_threads`, or in the `try` block of the
second 8.3, the threads are joined first (`UnwindJoins`); elsewhere the destructor
of a joinable `std::thread` terminates the program.  An exception in a thread goes
into its future or promise, or terminates the program if there is neither.

`ResultThrows` is `T result = init` and the addition of the caller's own sum.  In the second
8.3 that copy (line 45) comes after the threads have been started and before the `try`
block, so it terminates the program.  `MatchThrows` is the copy of `match` that
`find_element` takes as a parameter, outside its `try` block: on a thread it has no
handler.  `PoolGrowthFails` is `m_threads.push_back` of 9.2 (line 139) when the vector cannot
grow: the thread runs already, and its temporary `std::thread` is destroyed joinable.
`ChunkThrows` may happen anywhere in a block of 8.11; after the end value has been passed
on, `set_exception` throws as well (line 73) and leaves the thread.
`TerminatedOnlyIf` is about steps: it lists, for each program, the steps that may
terminate it, and thereby that no other does.

9.2 (`kind = "pooled"`) cuts its range into blocks of `MinPerThread` items, however many
processors there are (`Blocks`, `Size`), and `SpawnThread` submits a task to the pool.
`idle` counts the workers in the loop of `work_thread` that have not seen `m_done`:
`Take` is such a worker popping the oldest task, `BackToLoop` its return.  The pool is
destroyed when the call is left, so a thread may still take one task after `m_done`
is set, if it read the flag before; what remains in the queue is destroyed
(`UnwindJoins`).  With no processors there are no workers, and a caller with
a task to wait for hangs: `NoWorkers`, the proviso of `CallEnds`.

Items are positions and a sum is the sequence of the items added, or in 8.7 of the
items `f` was called on, so that a lost, doubled or (in an accumulation) misplaced item
is seen.  `MinPerThread` is 25 in the
code and 2 in the run; the proofs hold for any.

### PairwiseSum (8.13)

One step per access to an atomic of the barrier, because `--m_spaces` and the test
of it are two.  `wait` and `done_waiting` share their steps after the decrement;
which of them a thread is in follows from its loop condition.  `unsigned`
arithmetic wraps at `Modulus`.

The sums are wrong as well, whatever the barrier does: odd steps read
`buffer[i - stride]`, and the first thread never writes its entry there.  With three
items the last one ends as x2 + x1 without x0.

### PoolSorter (9.5, 9.6, 9.8)

`stack[t]` is the calls of `do_sort` thread `t` is in.  A call splits its chunk and
submits the lower part as a task (`Split`), and a nested call sorts the higher part;
then it waits (`Get` if the future is ready, `HelpOut` if not).  `HelpOut` enters
`run_pending_task`, which looks into the queues of `Search` one after the other
(`NextQueue`) until it finds a task (`TakeTask`); the task is a call on top of the
stack, so that a call may wait under one that has nothing to do with it.  `Submit`
and `Search` are where the three pools differ.  A thread pool that cannot start all
its threads, and an allocation that fails in a split, are `StartFails` and
`SplitThrows`; `GrowthFails` is the vector of threads that cannot grow for one that
runs already (9.5 line 145), which terminates the program in the midst of the
constructor.  Queued tasks are destroyed with their queue (`Drop`): with the
worker in 9.6, whose queue is thread-local, with the pool in the others.

An item is a pivot once in a run, so it names its call, the task submitted there
and that task's future.  Which item of a chunk comes first is left open:
`std::partition` does not say.

## 3. Runs

| Run | Result | Shows |
|---|---|---|
| `waitable_queue` | holds | the inductive invariant (types, list structure, ownership, locks, views), no data race, refinement of `AbstractQueue` |
| `lost_wakeup` | violated | a consumer waits for ever beside an element |
| `locked_queues` | holds | types, no waiter stranded unless another has thrown, no element dropped or overtaken |
| `lookup_table` | holds | the inductive invariant, refinement of `AbstractTable`, termination, no deadlock |
| `ref_count_queue` | violated | an element pushed to 7.15 is linked behind a node that has left the queue |
| `atm` | holds | PIN length, right PIN, answers, cancel, shutdown |
| `split_ref_stack` | holds | no use after free, list structure, counts, no leak, refinement of `AbstractStack` |
| `stack_7_10` | violated | 7.10 deletes a node that is in use |
| `hand_over_hand_list` | holds | list structure, ownership, node lifetime, exact walks, termination, no deadlock |
| `fork_join` | holds | exact partition, sequential results, end values, joins, where exceptions terminate, termination |
| `barrier` | violated | the barrier is reset twice and threads spin for ever |
| `pool_sorter` | holds | sorted results, each task once, dropped tasks, quiescence, termination |

Bounds and why they suffice:

- `waitable_queue`: 3 threads, so that two consumers and a producer (or two
  producers and a consumer) meet; 4 nodes, so that three elements can be in the
  list or on their way and addresses are reused; 2 values, so that order shows.
- `lost_wakeup`: the smallest instance, a consumer and a producer.
- `locked_queues`: four threads, so that two can sleep, one is woken and one pushes;
  five pushes; two exceptions and two elements left by 6.2's `try_pop()` (`MaxLeft`), so
  that they combine.  40178 states.
- `lookup_table`: two threads, either of which may be in `get_map`; two buckets, the
  fewest with an order of locking; three keys, two of which share a bucket; two
  values.  Threads and keys of the same bucket are not swapped by symmetry, because
  the run checks liveness.
- `ref_count_queue`: two threads, two values and three nodes, `MaxCount` 4: each of the two
  pushes and the pop needs one reference to the node in question.
- `atm`: digits 4 and 3 and a PIN of length 2 give one right PIN and wrong ones of
  both kinds; `MaxQueue` stops the customer, not the machines, from adding to
  queues: two keys ahead are enough for a key to arrive in a later state.
- `split_ref_stack`: 3 threads, so that two can lose against one; 2 nodes, so that
  every address is reused at once; `MaxCount` 4 bounds the external count, which
  each attempted pop of an empty stack increments.  When everybody is stopped by
  the bound, `Capped` lets the system stutter.
- `hand_over_hand_list`: 2 threads and 3 nodes: a node before, at and behind a
  walk, and a node that is deleted and pushed again.
- `fork_join`: lengths 0 to 6 with at least 2 items for a thread and 0 to 3
  processors give one to three blocks, a last block that is longer than the others,
  and blocks of one item; with three blocks there is one that both waits for an end
  value and passes one on.  In 9.2 there are up to two tasks for no, one, two or three
  workers, so that a task waits in the queue, and is dropped from it.
  200288 states.
- `barrier`: three items, the fewest threads for which one arrives between the two
  resets.
- `pool_sorter`: two workers and the main thread, so that there are an owner, a thief
  and somebody else; four items, two of them equal, give stacks of waiting calls
  in which a thread runs a task of another's call.  127108 states.

Deadlock is checked in every passing run, which is where a lock-order problem of
the list or of `get_map` would show.  `ref_count_queue` stops when its values are used
up, so it does not check for it.

Fairness.  `FairSpec` of `WaitableQueue` and `Spec` of `HandOverHandList` and
`LookupTable` assume
that a thread inside a call keeps being scheduled and that a mutex is eventually
granted to a thread that finds it free again and again (strong fairness of a
thread's steps); nothing is assumed about starting calls, notifies that nobody
sends, spurious wakeups or exceptions.  `std::mutex` does not promise this
fairness, but every implementation used with these programs provides it in
practice, and without it no statement that a blocked caller gets on is true.  For the
`shared_mutex` of 6.11 it also says that readers do not keep a writer out for ever; the
standard prefers neither side.  The lost wakeup does not depend on the assumption: it
happens although it is made.
`Spec` of `Atm` assumes that each of the four threads takes a step when it can
(weak fairness) and nothing about the customer.  `Spec` of `ForkJoin` and of
`PoolSorter` assume weak fairness of each thread and of the caller: they wait for
futures, joins and flags that stay as they are once set, or poll, so that a
scheduler that runs every thread now and again is enough.  The caller's fairness is
that of `Proceed`, which contains no exception that merely might happen: a caller that
waits for a future is not taken out of the wait by one.

Provisos.  Three properties say of themselves what they leave out, because the code does
not have it: `AcceptedPinCorrect` sessions after an abandoned one, `CallEnds` a pool of
9.2 without workers, `NoStrandedWaiter` elements whose waiter has thrown.  TLC refutes each
without its proviso; the hazards behind them are listed as covered by no property.

## 4. Proofs

`WaitableQueueProofs` holds for every set of threads, values and addresses,
assuming only `QueueAssumption`, that the names of results and addresses differ.

- `Invariance`: `IInv` is an invariant.  `TypeOK`, `ListIntact` and `Ownership`
  are not inductive by themselves: they are preserved because what a thread has
  read stays true until it acts on it.  `LockProtocol` ties each label to the
  mutex held there and `ThreadView` states what may be relied on at each label:
  for instance that `head # tail` at "move" and "pop" although pushes go on, and
  that the node at "read" still carries its value although the mutex is gone.  The
  proof has one lemma for each action that changes the list or its owners
  (`BeginPushStep`, `WriteDataStep`, `LinkNodeStep`, `MoveTailStep`,
  `PopHeadStep`, `ReturnStep`) and one for the rest (`QuietStep`).
- `ListSafety`: `TypeOK`, `ListIntact` and `Ownership`, that is types, list structure
  and ownership, from `Invariance`.
- `RaceFreedom`: `NoDataRace`, from the invariant: a thread touches a node at the
  tail under the tail mutex, at the head under the head mutex, or one it owns, and
  these are different nodes whenever the mutexes are held by different threads.
- `Linearizability`: `Spec => Linearizable`, one lemma per abstract action and
  `InvisibleRefines` for the steps that callers cannot see.

`LookupTableProofs` holds for every set of threads, keys and values, any number of
buckets and any hash function, assuming only `TableAssumption`: there is a bucket, and
the names of no owner, no value and no result are no thread, value or map.

- `Invariance`: `IInv`.  `BucketsSound`, one entry per key and no reader beside a writer, is
  not inductive.  `LocksHeld` gives the locks held at each label, from which `Exclusion`
  concludes that what a thread has looked up cannot be changed by another;
  `ThreadView` is what it has looked up: that `found` is still the entry of its key, and
  that the map `get_map` builds agrees with every bucket it has copied, while
  it holds all the locks.  `Frame` says what a step may change, `OthersKeepTheirView` that
  it does not disturb anybody else, `OwnStep` that it establishes its own next view.
- `Linearizability`: `Spec => Linearizable`, with one case per step in `StepSimulation`.

`LockedQueuesProofs` holds for any finite set of threads and any number of pushes and
exceptions, assuming only `ContainerAssumption`.

- `NoWakeupLost`: `NoStrandedWaiter`.  It is inductive together with `TypeOK`: while
  anybody sleeps, an element has either a woken waiter that will come for it or an
  exception that used one up.  The lemmas are about counting: `CountWoken` (a set of
  woken threads with one more or one less) and `Lengths`.
- `KeepsEveryElement`: `NothingLostInOrder`, which is inductive with the types.  The
  queue part speaks of `taken \o items`, so a pop does not change it, a push adds the
  largest number at its end, and `TryPopPtr` repeats the number at the border of the
  two, or puts a husk there.  `Surplus` counts the deliveries: it is what a
  `TryPopPtr` that was not recorded, or a pop that kept its element, would break.
- `Invariance` (`IInv`) and `TypeCorrect` are what they rest on.

`SplitRefStackProofs` is about 7.11: each theorem assumes `LoserDelta = -1`, without which
the run `stack_7_10` refutes it.  It holds for any finite set of threads, any values and
addresses, with a bound on the external count of at least 1.

- `Invariance`: `IInv`.  `CountsAddUp`, that the counts of a node together are one more than
  the pops that refer to it, is not inductive.  `OneOwner` says that a node that is not
  linked is owned by one thread or left to the losers, `InternalCounts` that the internal
  count is not positive before the winner settles and afterwards the number of the
  losers left (so that only the last of them finds 1), and `ThreadView` what a thread may
  rely on: `below` is still what is under the node when the compare-and-swap succeeds,
  since `m_next` of a node does not change while somebody refers to it.  `Counting` gives
  the cardinalities when a thread joins or leaves a set of holders.  There is one lemma
  per action; `QuietStep` serves those that change locals only.
- `NodesOutliveUse` (`NoUseAfterFree`), `NodesAreFreed` (`NoLeak`), `ListStaysIntact`,
  `ReferencesCounted` and `TypeCorrect` follow from `IInv`.
- `StackIsLinearizable`: `Spec => Linearizable`.  A push is the abstract push in `PushCas`, a pop
  is the abstract pop in `PopCasWins`, where the value is that of the node although
  `SwapData` reads it only later; an empty pop is decided in `Increase`.

`HandOverHandListProofs` holds for every set of threads, values and addresses, assuming
only `ListAssumption`: the names of no thread, no value, an exception and the head node are
no elements, threads or addresses.

- `Invariance`: `IInv`.  `LocksHeld` gives the mutexes each thread holds at each label, and
  `WalkView` is why hand over hand works: the node a walk stands on cannot be unlinked,
  because that takes its mutex, and the one after it cannot, because that takes the mutex
  of the node before, so `next[current]` is still `succ` when `succ` is locked or removed.
  `LocalView` ties the locals to the labels and `LiveData` says that a deleted node is not
  locked.  The lemmas about `RemoveFirst` from the community modules are proved first, from
  its definition.
- `MutexesOutliveUse` (`NodeOutlivesItsMutex`), `ListStaysIntact`, `NodesAreOwned` and
  `TypeCorrect` follow from `IInv`.
- `WalksKeepTheirPlace`: `Spec => WalksAreExact`, the refinement of `AbstractList`.  What a walk
  still has to meet is the part of the chain from one position on (`From`); the
  lemmas say how this part changes when a node is put in front (`FromOfCons`) or taken
  out ahead of the walk or behind it (`FromOfRemovalAhead`, `FromOfRemovalBehind`), and
  each action has a lemma that names the abstract step it is.

`AtmProofs` holds for any digits, PIN and `pin_length`, any queues and any number of
sessions, assuming only `AtmAssumption`.

- `Invariance`: `IInv`.  `PinNeverOverruns` is inductive but for the types;
  `AcceptedPinCorrect` needs `PinInFlight`: as long as no session was abandoned, a request
  about a PIN or its answer is on its way only while the atm verifies, only one of
  the two and only once, and it is about the PIN at hand.  An operator `Fewer` on queues says
  that nothing of a kind has been added; `FewerTail` and `FewerConcat` show it of
  receiving and sending, `OneMore` what the one exception of each kind does.
  `HandlersAreWell` goes through the handlers of all state functions.
- `PinFits` (`PinNeverOverruns`), `OnlyTheRightPin` (`AcceptedPinCorrect`) and `TypeCorrect`
  follow from `IInv`.

`ForkJoinProofs` holds for every length, number of processors, minimum per thread
and every one of the eight programs, assuming only `ForkJoinAssumption`: the bounds
are natural numbers and a thread gets at least one item.

- `Partition`: the arithmetic.  `Division` characterises the quotient as the largest
  that fits; from it, `MostBlocks` and `ThreadCount` (between one block and one per item)
  and `BlockSizes` (no block is empty, and together they do not exceed the range).
  `LastBlock` is what the two ways of cutting, by threads and in 9.2 by size, have in
  common: the blocks before the last one leave it an item.
  `BlocksPartition` is the same as an invariant of the specification.
- `Invariance`: `IInv`, the types of what control depends on (`Typing`), which phases
  each program has (`Phases`), that nobody but the caller works on its own block and
  only in that phase (`OwnBlock`), that the phases after the join find all threads
  ended (`Joined`) and that a block of 8.11 is beyond its end value only when the
  end value is in its future (`Published`).  `NoThreadLeft` is not inductive: it
  depends on `Joined`, which depends on the order of the phases.
- `ThreadsJoined`: `NoThreadLeft`.
- `ExceptionSafety`: `TerminatedOnlyIf`, a property of steps.  `RaiseTerminates` says when an
  exception that leaves the caller terminates, and `Terminates` goes through the
  actions: an exception of the caller after its threads are joined is harmless because
  `Joined` holds, and one in 9.2 because its threads belong to the pool; the actions
  of threads name the blocks they leave.
- `ResultsInvariance`: `Results`, inductive together with `IInv`.  `Order` says what the
  phases have guaranteed so far, `Labels` where a thread can be with a block, `Workers`
  that idle and busy workers together are no more than the hardware has.
  `Accumulated` is the sum of the blocks that are done, `Searched` that no item before the
  position of a block matches.  `Summed`, for 8.11, is the part that spans blocks: one
  that has passed on its end value, or whose last item is final, has only blocks
  before it that have passed theirs on, so what reaches its future is the
  sum of all that lies before it.
- `SequentialResults`: `SameAsSequential`.  Adding up the blocks in order needs an
  induction over them; `LeastOf` replaces it with a least counterexample, from the
  well-foundedness of `<` on the naturals, and `TotalSum` is what follows: the
  results of consecutive blocks add up to the sum of the range.
- `FinalEndValues`: `EndValuesAreFinal`.  `TypeCorrect`: `TypeOK`.

`PoolSorterProofs` holds for any number of workers, none included, for every list and
for each of the three pools, assuming only `PoolAssumption`: the list is not empty
(`parallel_quick_sort` returns an empty one at once) and its values are compared as
naturals.

- `Invariance`: `IInv`.  None of the properties below is inductive: that a task is run once
  depends on no item being in two chunks, that a chunk is sorted on the parts being
  finished.  `Frames` is the stack of a thread, call by call: `Nesting` says
  that a call has either called the one above it or waits while that one runs as a
  task, `Chunks` that the chunk of a call is that of its task or the higher part of
  its caller's, and that a waiting call has its higher part sorted.  `Unique`: an item is
  queued once, the task of one call and the pivot of one call.  `Apart`: the chunks that
  have not been split, in calls and in queued tasks, have no item in common.
  `Lifecycle`: an item is in an unsplit chunk, or a pivot with its task queued or
  running, or done, and what its future says at each stage.  `Finished` is the set of
  items with which nothing can happen any more; it only grows, and a result is
  ready only for a chunk inside it.  `OwnTasks` says that what is still wanted in a
  worker's own queue is wanted by that worker, which is why a worker that leaves
  drops nothing that is needed; `Phases` ties the sort to the pool's life.
- A step that ends a call (`EmptyChunk`, `SplitThrows`, `Unwind`, `Get`) is an instance of
  `ReturnStep`; `SplitStep`, `TakeStep`, `StopStep`, `JoinStep` and `BeginStep` are the others
  that change a stack or a queue, and `QuietStep` is the rest.  `SortsBoth` says that
  the sorted lower part, the pivot and the sorted higher part make up the
  sorted chunk.  No induction over the depth of the recursion is needed, since every
  call's result is related to its own chunk and its own task's future only.
- `SortedResults` (`ResultsAreSorted`), `DropsAbandoned` (`DroppedAreAbandoned`), `QuietWhenSorted`
  (`QuietAfterSuccess`) and `TypeCorrect` follow from `IInv`.  `TasksInOnePlace` (`TaskInOnePlace`)
  counts places, so it also needs that queues and stacks are no longer than
  the list allows (`QueueBound`, `StackBound`, by the pigeonhole principle).

Only model-checked: every liveness property (that calls, the cash machine, the fork-join
programs and the sort end), since liveness under fairness and `ENABLED` are beyond the
proof system.  `PairwiseSum` and
`RefCountQueue` have no property that holds.  No module with a theorem declares a
recursive operator, and the induction theorems of the library, which take an
operator as a parameter, are not used.

## 5. What is not modelled

- Memory orders.  All models are sequentially consistent: the relaxed and
  acquire/release orders of 7.11, 7.13, 7.15 and 7.16 are not examined.
- Allocation failure in the containers.  It leaves each modelled operation before
  it has changed anything shared.
- The destructors of the stacks, which delete nothing, and of the queue, which run
  when no other thread uses it.
- `main` of the example files, except for 11.1.
- Stack with hazard pointers, 7.2.3.  `hp_owner` throws after the first slot that is
  taken (line 30), so while a thread that has popped lives, `pop` throws in every other:
  two threads never have a hazard pointer at the same time, and what the pointers are
  for does not happen.
- Stack 7.9.  Its `pop` repeats when the compare-and-swap has succeeded; one thread is
  enough to see it drop nodes.
- Queue 7.13.  What can go wrong in it is memory order only.
- Queue 7.16.  `set_new_tail` gives back counts inside its loop instead of after it, and an
  empty `pop` keeps its reference: no invariant of the counts is left.
- Sorter 8.1.  Its threads append to one `std::vector` without a lock, which is undefined
  behaviour in every run with two of them.
- 8.5, 8.8 and 8.10: halving recursion on `std::async`, whose futures do all the joining.
- Pool 9.1: 9.2 without results, so that nobody waits for a task.
- Interruptible waits, 9.11 and 9.12.  A wait of 9.11 polls its flag every millisecond.
  `throw;` outside a handler ends the program at the first interruption, and the
  overloads for `condition_variable_any` and for futures do not compile when used.
- 6.4 and 6.5 are sequential; 6.6 has the `push`, `get_tail` and `pop_head` of 6.7.
- The test 10.1: see `WaitableQueue`.

## 6. Plan

Each safety property that a run checks is also proved, and liveness is out of the proof
system's reach.  Of the files of section 5, 9.11 has a property worth a model: an
interruption that falls between the check of the flag and the wait is noticed.
