--------------------------- MODULE ForkJoinProofs ---------------------------
(* Theorems about ForkJoin, for every length, number of processors and       *)
(* min_per_thread.                                                           *)
EXTENDS ForkJoin, FiniteSetTheorems, SequenceTheorems, WellFoundedInduction, TLAPS

(* What unsigned division is: the largest quotient that fits. *)
LEMMA Division ==
  ASSUME NEW a \in Nat, NEW d \in Nat \ {0}
  PROVE  /\ a \div d \in Nat
         /\ d * (a \div d) <= a
         /\ a < d * (a \div d) + d
  OBVIOUS

(* Cut into blocks of min_per_thread, a range that is not empty has at least one
   block and at most one per item, and the last block is not empty. *)
LEMMA MostBlocks ==
  ASSUME NEW len \in Nat \ {0}
  PROVE  /\ MaxThreads(len) \in 1 .. len
         /\ (MaxThreads(len) - 1) * MinPerThread < len
<1> DEFINE q == (len + MinPerThread - 1) \div MinPerThread
<1>1. MinPerThread \in Nat \ {0}
  BY ForkJoinAssumption
<1>2. /\ len + MinPerThread - 1 \in Nat
      /\ len <= len + MinPerThread - 1
  BY <1>1
<1>3. /\ q \in Nat
      /\ MinPerThread * q <= len + MinPerThread - 1
      /\ len + MinPerThread - 1 < MinPerThread * q + MinPerThread
  BY <1>1, <1>2, Division
<1> HIDE DEF q
<1>4. q >= 1
  <2>1. SUFFICES ASSUME q = 0 PROVE FALSE
    BY <1>3
  <2>2. MinPerThread * q = 0
    BY <1>1, <2>1
  <2> QED
    BY <1>1, <1>3, <2>2
<1>5. q <= len
  <2>1. SUFFICES ASSUME q >= len + 1 PROVE FALSE
    BY <1>3
  <2>2. MinPerThread * q >= MinPerThread * (len + 1)
    BY <1>1, <1>3, <2>1
  <2>3. MinPerThread * (len + 1) = MinPerThread * len + MinPerThread
    BY <1>1
  <2>4. MinPerThread * len >= len
    BY <1>1
  <2> QED
    BY <1>1, <1>3, <2>2, <2>3, <2>4
<1>6. MaxThreads(len) = q
  BY DEF MaxThreads, q
<1>7. (q - 1) * MinPerThread < len
  <2>1. (q - 1) * MinPerThread = MinPerThread * q - MinPerThread
    BY <1>1, <1>3
  <2>2. MinPerThread * q \in Nat
    BY <1>1, <1>3
  <2> QED
    BY <1>1, <1>3, <2>1, <2>2
<1> QED
  BY <1>3, <1>4, <1>5, <1>6, <1>7

(* A range that is not empty gets at least one block and at most one per item. *)
LEMMA ThreadCount ==
  ASSUME NEW len \in Nat \ {0}, NEW hw \in Nat
  PROVE  NumThreads(len, hw) \in 1 .. len
BY MostBlocks DEF NumThreads, Smaller

(* No block is empty and together they are no longer than the range. *)
LEMMA BlockSizes ==
  ASSUME NEW len \in Nat \ {0}, NEW hw \in Nat
  PROVE  /\ NumThreads(len, hw) \in 1 .. len
         /\ BlockSize(len, hw) \in Nat \ {0}
         /\ NumThreads(len, hw) * BlockSize(len, hw) <= len
<1> DEFINE n == NumThreads(len, hw)
           size == BlockSize(len, hw)
<1>1. n \in 1 .. len
  BY ThreadCount
<1>2. /\ size \in Nat
      /\ n * size <= len
      /\ len < n * size + n
  BY <1>1, Division DEF BlockSize
<1> HIDE DEF n, size
<1>3. size # 0
  <2>1. SUFFICES ASSUME size = 0 PROVE FALSE
    OBVIOUS
  <2>2. n * size = 0
    BY <1>1, <2>1
  <2> QED
    BY <1>1, <1>2, <2>2
<1> QED
  BY <1>1, <1>2, <1>3 DEF n, size

(* Both ways of cutting: the blocks before the last one leave it an item. *)
LEMMA LastBlock ==
  ASSUME length \in Nat \ {0}, hardware \in Nat
  PROVE  /\ Blocks \in 1 .. length
         /\ Size \in Nat \ {0}
         /\ (Blocks - 1) * Size < length
<1>1. CASE kind = "pooled"
  BY <1>1, MostBlocks, ForkJoinAssumption DEF Blocks, Size
<1>2. CASE kind # "pooled"
  <2>1. /\ Blocks \in 1 .. length /\ Size \in Nat \ {0}
        /\ Blocks * Size <= length
    BY <1>2, BlockSizes DEF Blocks, Size
  <2>2. (Blocks - 1) * Size = Blocks * Size - Size /\ Blocks * Size \in Nat
    BY <2>1
  <2> QED
    BY <2>1, <2>2
<1> QED
  BY <1>1, <1>2

(* The arithmetic of chapter 8: the blocks are consecutive, not empty, and cut
   up the range, whatever its length and the number of processors. *)
THEOREM Partition ==
  ASSUME length \in Nat, hardware \in Nat
  PROVE  PartitionExact
<1> SUFFICES ASSUME length > 0 PROVE
      /\ Start(0) = 1 /\ Stop(Own) = length
      /\ \A b \in Block : Start(b) <= Stop(b)
      /\ \A b \in Thread : Start(b + 1) = Stop(b) + 1
  BY DEF PartitionExact
<1> DEFINE n == Blocks
           size == Size
<1>1. n \in 1 .. length /\ size \in Nat \ {0} /\ (n - 1) * size < length
  BY LastBlock
<1>2. Own = n - 1 /\ Own \in Nat
  BY <1>1 DEF Own
<1>3. \A b \in Block : /\ b \in Nat
                       /\ Start(b) = b * size + 1
                       /\ Stop(b) = IF b = n - 1 THEN length ELSE (b + 1) * size
  BY <1>2 DEF Block, Start, Stop
<1> HIDE DEF n, size
<1>4. Start(0) = 1
  BY <1>1, <1>2, <1>3 DEF Block
<1>5. Stop(Own) = length
  BY <1>2, <1>3 DEF Block
<1>6. ASSUME NEW b \in Block PROVE Start(b) <= Stop(b)
  <2>1. b \in Nat /\ b * size \in Nat
    BY <1>1, <1>3
  <2>2. CASE b = n - 1
    BY <1>1, <1>3, <2>1, <2>2
  <2>3. CASE b # n - 1
    <3>1. (b + 1) * size = b * size + size
      BY <1>1, <2>1
    <3> QED
      BY <1>1, <1>3, <2>1, <2>3, <3>1
  <2> QED
    BY <2>2, <2>3
<1>7. ASSUME NEW b \in Thread PROVE Start(b + 1) = Stop(b) + 1
  <2>1. b \in Block /\ b + 1 \in Block /\ b # n - 1
    BY <1>2 DEF Block, Thread
  <2> QED
    BY <1>1, <1>3, <2>1
<1> QED
  BY <1>4, <1>5, <1>6, <1>7

-----------------------------------------------------------------------------
(***************************************************************************)
(* The safety of the threads: the inductive invariant.                     *)
(***************************************************************************)
(* The parameters are what Init chose, and the labels are labels. *)
Typing ==
  /\ kind \in AllKinds /\ length \in Nat /\ hardware \in Nat
  /\ at \in [Block -> Label]
  /\ DOMAIN future = Block

(* Only the programs that have futures gather, and only a search has an answer. *)
Phases ==
  /\ main = "gather" => kind \in Accumulators
  /\ main = "answer" => kind = "find"

(* The caller works on its own block in its own phase and at no other time. *)
OwnBlock ==
  main \notin {"own", "terminated"} =>
    \A b \in Block \ Thread : at[b] \in {"none", "ended"}

(* The phases after "join", and the end of the call: all threads are done. *)
Joined ==
  /\ main \in {"returned", "threw"} => \A b \in Thread : at[b] \in {"none", "ended"}
  /\ kind \in {"plain", "packaged"} /\ main = "gather" => \A b \in Thread : at[b] = "ended"
  /\ main = "answer" => \A b \in Thread : at[b] = "ended"

(* A thread that still has to add to its block has published its end value. *)
Published == \A b \in Thread : at[b] = "spread" => future[b].state = "ready"

IInv == Typing /\ Phases /\ OwnBlock /\ Joined /\ Published

(* What the steps leave alone. *)
LEMMA Constants ==
  ASSUME [Next]_vars
  PROVE  kind' = kind /\ length' = length /\ hardware' = hardware /\ matches' = matches
<1>1. CASE Caller
  BY <1>1 DEF Caller, Proceed, EmptyRange, SpawnThread, SpawnThrows, PoolGrowthFails, NextPhase, GetFuture,
    GetThrows, ResultThrows, Answer, AnswerThrows, UnwindJoins, params
<1>2. CASE \E b \in Block : Work(b)
  BY <1>2 DEF Work, Take, Accumulate, AccumulateThrows, MatchThrows, Look, LookThrows, Check,
        SetFlag,
    SetPromise, SumBlock, AddToLast, Publish, Spread, ChunkThrows, params
<1>3. CASE UNCHANGED vars
  BY <1>3 DEF vars, params
<1> QED
  BY <1>1, <1>2, <1>3 DEF Next, Over

(* The number of blocks and their bounds never change. *)
LEMMA SameBlocks ==
  ASSUME [Next]_vars
  PROVE  /\ Own' = Own /\ Block' = Block /\ Thread' = Thread
         /\ \A b \in Block : Start(b)' = Start(b) /\ Stop(b)' = Stop(b)
<1>1. Own' = Own /\ Block' = Block /\ Thread' = Thread
  BY Constants DEF Own, Block, Thread, Blocks
<1>2. \A b \in Block : Start(b)' = Start(b) /\ Stop(b)' = Stop(b)
  BY Constants, <1>1 DEF Start, Stop, Size, BlockSize, NumThreads, MaxThreads, Smaller
<1> QED
  BY <1>1, <1>2

(* Every block is a thread's or the caller's. *)
LEMMA OwnOrThread ==
  ASSUME length \in Nat, hardware \in Nat
  PROVE  /\ Thread \subseteq Block
         /\ \A b \in Block : b \in Thread \/ b = Own
<1>1. CASE length = 0
  <2>1. MinPerThread \in Nat \ {0}
    BY ForkJoinAssumption
  <2>2. MaxThreads(length) \in Nat
    BY <1>1, <2>1, Division DEF MaxThreads
  <2> QED
    BY <2>2 DEF Block, Thread, Own, Blocks, NumThreads, Smaller
<1>2. CASE length # 0
  <2>1. Blocks \in 1 .. length
    BY <1>2, LastBlock
  <2> QED
    BY <2>1 DEF Block, Thread, Own
<1> QED
  BY <1>1, <1>2

(* An empty range has no blocks. *)
LEMMA NoBlocks ==
  ASSUME length = 0, hardware \in Nat
  PROVE  Block = {} /\ Thread = {} /\ Own + 1 = 0
<1>1. MinPerThread \in Nat \ {0} /\ MinPerThread - 1 \in Nat
  BY ForkJoinAssumption
<1>2. /\ MaxThreads(0) \in Nat
      /\ MinPerThread * MaxThreads(0) <= MinPerThread - 1
  <2>1. 0 + MinPerThread - 1 = MinPerThread - 1
    BY <1>1
  <2> QED
    BY <1>1, <2>1, Division DEF MaxThreads
<1>3. MaxThreads(0) = 0
  <2>1. SUFFICES ASSUME MaxThreads(0) >= 1 PROVE FALSE
    BY <1>2
  <2>2. MinPerThread * MaxThreads(0) >= MinPerThread
    BY <1>1, <1>2, <2>1
  <2> QED
    BY <1>1, <1>2, <2>2
<1>4. Blocks = 0
  <2>1. MaxThreads(length) = 0
    BY <1>3
  <2> QED
    BY <2>1 DEF Blocks, NumThreads, Smaller
<1> QED
  BY <1>4 DEF Block, Thread, Own

(***************************************************************************)
(* The steps of the work on a block                                        *)
(***************************************************************************)
(* A step of the work that throws nothing moves one label, and may set the
   block's future. *)
LEMMA WorkOn ==
  ASSUME IInv, [Next]_vars, Running, NEW b \in Block, NEW l \in Label \ {"none"},
         at[b] \notin {"none", "ended"},
         at' = [at EXCEPT ![b] = l],
         main' = main,
         DOMAIN future' = DOMAIN future,
         \A c \in Block \ {b} : future'[c] = future[c],
         l = "spread" /\ b \in Thread => future'[b].state = "ready"
  PROVE  IInv'
<1>1. /\ kind' = kind /\ length' = length /\ hardware' = hardware
      /\ Own' = Own /\ Block' = Block /\ Thread' = Thread
  BY Constants, SameBlocks
<1>2. at \in [Block -> Label] /\ at' \in [Block -> Label]
  BY DEF IInv, Typing, Label
<1>3. \A c \in Block : at'[c] = IF c = b THEN l ELSE at[c]
  BY <1>2
<1>4. Thread \subseteq Block
  BY OwnOrThread DEF IInv, Typing
<1>5. b \in Thread => main \notin {"returned", "threw", "terminated", "answer"}
                      /\ ~(kind \in {"plain", "packaged"} /\ main = "gather")
  BY DEF IInv, Joined, Running
<1>6. main # "terminated"
  BY DEF Running
<1>7. Typing' /\ Phases'
  BY <1>1, <1>2 DEF IInv, Typing, Phases
<1>8. OwnBlock'
  BY <1>1, <1>3, <1>6 DEF IInv, OwnBlock
<1>9. Joined'
  BY <1>1, <1>3, <1>4, <1>5 DEF IInv, Joined, Running
<1>10. Published'
  BY <1>1, <1>3, <1>4 DEF IInv, Published
<1> QED
  BY <1>7, <1>8, <1>9, <1>10 DEF IInv

(* An exception in the caller's code, in a phase in which its own block is not
   or no longer being worked on. *)
LEMMA Raised ==
  ASSUME IInv, [Next]_vars, Running, Raise,
         at' = at \/ at' = [at EXCEPT ![Own] = "ended"],
         \A b \in Block \ Thread : at'[b] \in {"none", "ended"},
         DOMAIN future' = DOMAIN future,
         \A c \in Thread : future'[c] = future[c]
  PROVE  IInv'
<1>1. /\ kind' = kind /\ length' = length /\ hardware' = hardware
      /\ Own' = Own /\ Block' = Block /\ Thread' = Thread
  BY Constants, SameBlocks
<1>2. at \in [Block -> Label] /\ at' \in [Block -> Label]
  BY DEF IInv, Typing, Label
<1>3. Thread \subseteq Block /\ \A b \in Thread : b # Own
  BY OwnOrThread DEF IInv, Typing, Thread
<1>4. \A b \in Thread : at'[b] = at[b]
  BY <1>2, <1>3
<1>5. main' \in {"threw", "unwind", "terminated"}
  BY DEF Raise
<1>6. main' = "threw" => \A b \in Thread : at[b] \in {"none", "ended"}
  BY DEF Raise, Unjoined, Started, IInv, Joined
<1>7. Typing' /\ Phases'
  BY <1>1, <1>2, <1>5 DEF IInv, Typing, Phases
<1>8. OwnBlock'
  BY <1>1 DEF OwnBlock
<1>9. Joined'
  BY <1>1, <1>4, <1>5, <1>6 DEF Joined
<1>10. Published'
  BY <1>1, <1>4 DEF IInv, Published
<1> QED
  BY <1>7, <1>8, <1>9, <1>10 DEF IInv

(* Only the caller's own block is worked on by the caller. *)
LEMMA OwnPhase ==
  ASSUME IInv, Running, NEW b \in Block, at[b] \notin {"none", "ended"}, b = Own
  PROVE  main = "own" /\ b \notin Thread
BY OwnOrThread DEF IInv, Typing, OwnBlock, Running, Thread

(* An exception ends the work on a block: it leaves the caller, or ends up in
   the future of a thread, or terminates the program. *)
LEMMA WorkThrows ==
  ASSUME IInv, [Next]_vars, Running, NEW b \in Block,
         AccumulateThrows(b) \/ MatchThrows(b) \/ ChunkThrows(b)
  PROVE  IInv'
<1>1. /\ at[b] \notin {"none", "ended"}
      /\ at' = [at EXCEPT ![b] = "ended"]
  BY DEF AccumulateThrows, MatchThrows, ChunkThrows, Goto
<1>2. /\ at \in [Block -> Label] /\ DOMAIN future = Block
      /\ Thread \subseteq Block
  BY OwnOrThread DEF IInv, Typing
<1>3. CASE b = Own
  <2>1. main = "own" /\ b \notin Thread
    BY <1>1, <1>3, OwnPhase
  <2>2. Raise /\ future' = future
    BY <1>3 DEF AccumulateThrows, MatchThrows, ChunkThrows
  <2>3. \A c \in Block \ Thread : at'[c] \in {"none", "ended"}
    BY <1>1, <1>2, <1>3, OwnOrThread DEF IInv, Typing
  <2> QED
    BY <1>1, <1>3, <2>1, <2>2, <2>3, Raised
<1>4. CASE b # Own /\ main' = main
  <2>1. future' = [future EXCEPT ![b] = Failed]
    BY <1>4 DEF AccumulateThrows, MatchThrows, ChunkThrows, Running
  <2>2. /\ DOMAIN future' = DOMAIN future
        /\ \A c \in Block \ {b} : future'[c] = future[c]
    BY <1>2, <2>1
  <2>3. "ended" \in Label \ {"none"}
    BY DEF Label
  <2> QED
    BY <1>1, <1>4, <2>2, <2>3, WorkOn
<1>5. CASE b # Own /\ main' # main
  <2>1. main' = "terminated" /\ future' = future
    BY <1>5 DEF AccumulateThrows, MatchThrows, ChunkThrows
  <2>2. b \in Thread
    BY <1>5, OwnOrThread DEF IInv, Typing
  <2>3. /\ kind' = kind /\ length' = length /\ hardware' = hardware
        /\ Own' = Own /\ Block' = Block /\ Thread' = Thread
    BY Constants, SameBlocks
  <2>4. at' \in [Block -> Label]
    BY <1>1, <1>2 DEF Label
  <2>5. \A c \in Block : at'[c] = IF c = b THEN "ended" ELSE at[c]
    BY <1>1, <1>2
  <2>6. Typing' /\ Phases' /\ OwnBlock' /\ Joined'
    BY <2>1, <2>3, <2>4 DEF IInv, Typing, Phases, OwnBlock, Joined
  <2>7. Published'
    BY <1>2, <2>1, <2>3, <2>5 DEF IInv, Published
  <2> QED
    BY <2>6, <2>7 DEF IInv
<1> QED
  BY <1>3, <1>4, <1>5

(* A step of the work on a block preserves IInv. *)
LEMMA WorkStep ==
  ASSUME IInv, [Next]_vars, NEW b \in Block, Work(b)
  PROVE  IInv'
<1>1. Running
  BY DEF Work
<1>2. at \in [Block -> Label] /\ DOMAIN future = Block
  BY DEF IInv, Typing
<1>3. CASE AccumulateThrows(b) \/ MatchThrows(b) \/ ChunkThrows(b)
  BY <1>1, <1>3, WorkThrows
<1>14. CASE Take(b)
  BY <1>1, <1>2, <1>14, WorkOn DEF Take, Goto, Label
<1>4. CASE Accumulate(b)
  BY <1>1, <1>2, <1>4, WorkOn DEF Accumulate, Goto, Label
<1>5. CASE Look(b)
  <2>1. \/ at' = [at EXCEPT ![b] = "ended"]
        \/ at' = [at EXCEPT ![b] = "check"]
        \/ at' = [at EXCEPT ![b] = "start"]
    BY <1>2, <1>5 DEF Look, Goto
  <2> QED
    BY <1>1, <1>2, <1>5, <2>1, WorkOn DEF Look, Label
<1>6. CASE LookThrows(b)
  BY <1>1, <1>2, <1>6, WorkOn DEF LookThrows, Goto, Label
<1>7. CASE Check(b)
  BY <1>1, <1>2, <1>7, WorkOn DEF Check, Goto, Label
<1>8. CASE SetFlag(b)
  BY <1>1, <1>2, <1>8, WorkOn DEF SetFlag, Goto, Label
<1>9. CASE SetPromise(b)
  BY <1>1, <1>2, <1>9, WorkOn DEF SetPromise, Goto, Label
<1>10. CASE SumBlock(b)
  BY <1>1, <1>2, <1>10, WorkOn DEF SumBlock, Goto, Label
<1>11. CASE AddToLast(b)
  <2> DEFINE l == IF b # Own THEN "publish" ELSE "spread"
  <2>1. /\ at[b] = "await" /\ at' = [at EXCEPT ![b] = l]
        /\ main' = main /\ future' = future
    BY <1>11 DEF AddToLast, Goto
  <2>2. l \in Label \ {"none"}
    BY DEF Label
  <2>3. ~(l = "spread" /\ b \in Thread)
    BY OwnOrThread DEF IInv, Typing, Thread
  <2> HIDE DEF l
  <2> QED
    BY <1>1, <2>1, <2>2, <2>3, WorkOn
<1>12. CASE Publish(b)
  BY <1>1, <1>2, <1>12, WorkOn DEF Publish, Goto, Label, Ready
<1>13. CASE Spread(b)
  BY <1>1, <1>2, <1>13, WorkOn DEF Spread, Goto, Label
<1> QED
  BY <1>3, <1>4, <1>5, <1>6, <1>7, <1>8, <1>9, <1>10, <1>11, <1>12, <1>13, <1>14 DEF Work

(***************************************************************************)
(* The steps of the caller                                                 *)
(***************************************************************************)
(* A step of the caller preserves IInv. *)
LEMMA CallerStep ==
  ASSUME IInv, [Next]_vars, Caller
  PROVE  IInv'
<1>1. /\ kind' = kind /\ length' = length /\ hardware' = hardware
      /\ Own' = Own /\ Block' = Block /\ Thread' = Thread
  BY Constants, SameBlocks
<1>2. /\ at \in [Block -> Label] /\ DOMAIN future = Block
      /\ Thread \subseteq Block
      /\ \A b \in Block : b \in Thread \/ b = Own
      /\ \A b \in Thread : b # Own
  BY OwnOrThread DEF IInv, Typing, Thread
<1>3. CASE EmptyRange
  <2>1. Block = {} /\ Thread = {}
    BY <1>3, NoBlocks DEF EmptyRange, IInv, Typing
  <2> QED
    BY <1>1, <1>3, <2>1 DEF EmptyRange, IInv, Typing, Phases, OwnBlock, Joined,
      Published
<1>4. CASE SpawnThread
  <2>1. PICK b \in Thread :
          at' = [at EXCEPT ![b] = IF kind = "pooled" THEN "queued" ELSE "start"]
    BY <1>4 DEF SpawnThread
  <2>2. /\ at' \in [Block -> Label]
        /\ at'[b] \in {"queued", "start"}
        /\ \A c \in Block \ {b} : at'[c] = at[c]
    BY <1>2, <2>1 DEF Label
  <2>3. main = "spawn" /\ main' = main /\ future' = future
    BY <1>4 DEF SpawnThread
  <2> QED
    BY <1>1, <1>2, <2>2, <2>3 DEF IInv, Typing, Phases, OwnBlock, Joined,
      Published
<1>5. CASE SpawnThrows \/ GetThrows \/ ResultThrows \/ AnswerThrows
  <2>1. /\ main \in {"spawn", "own", "gather", "answer"} /\ Raise
        /\ at' = at /\ future' = future
        /\ main = "own" => at[Own] = "ended"
    BY <1>5 DEF SpawnThrows, GetThrows, ResultThrows, AnswerThrows
  <2>2. \A b \in Block \ Thread : at'[b] \in {"none", "ended"}
    BY <1>2, <2>1 DEF IInv, OwnBlock
  <2> QED
    BY <2>1, <2>2, Raised DEF Running
<1>10. CASE PoolGrowthFails
  <2>1. main' = "terminated" /\ at' = at /\ future' = future
    BY <1>10 DEF PoolGrowthFails
  <2> QED
    BY <1>1, <2>1 DEF IInv, Typing, Phases, OwnBlock, Joined, Published
<1>6. CASE GetFuture
  BY <1>1, <1>6 DEF GetFuture, IInv, Typing, Phases, OwnBlock, Joined, Published
<1>7. CASE Answer
  <2>1. /\ main = "answer" /\ kind = "find" /\ main' = "returned"
        /\ at' = at /\ future' = future
    BY <1>7 DEF Answer, After, FindOrder, IInv, Phases
  <2> QED
    BY <1>1, <2>1 DEF IInv, Typing, Phases, OwnBlock, Joined, Published
<1>8. CASE UnwindJoins
  <2>1. /\ main = "unwind" /\ main' = "threw" /\ future' = future
        /\ \A b \in Thread : at[b] \in {"none", "queued", "ended"}
        /\ at' = [b \in Block |-> IF at[b] = "queued" THEN "none" ELSE at[b]]
    BY <1>8 DEF UnwindJoins
  <2>2. /\ at' \in [Block -> Label]
        /\ \A b \in Block : at'[b] = IF at[b] = "queued" THEN "none" ELSE at[b]
    BY <1>2, <2>1 DEF Label
  <2> QED
    BY <1>1, <1>2, <2>1, <2>2 DEF IInv, Typing, Phases, OwnBlock, Joined, Published
<1>9. CASE NextPhase
  <2>1. PhaseDone /\ main' = After(main) /\ future' = future
    BY <1>9 DEF NextPhase
  <2>2. main \in {"spawn", "own", "join", "gather"}
    BY <2>1 DEF PhaseDone
  <2>3. main' \in {"own", "join", "gather", "answer", "returned"}
    BY <2>1, <2>2 DEF After, PlainOrder, PackagedOrder, CatchingOrder, GuardedOrder,
      FindOrder, SumOrder, IInv, Typing, Phases, AllKinds, Accumulators
  <2>4. Phases'
    BY <1>1, <2>1, <2>2 DEF After, PlainOrder, PackagedOrder, CatchingOrder,
      GuardedOrder, FindOrder, SumOrder, IInv, Typing, Phases, AllKinds, Accumulators
  <2>5. /\ main' = "returned" => main = "join" \/ main = "gather"
        /\ main' = "answer" => main = "join"
        /\ main' = "gather" /\ kind \in {"plain", "packaged"} => main = "join"
        /\ main' = "returned" /\ main = "gather" => kind \in {"plain", "packaged"}
    BY <2>1, <2>2 DEF After, PlainOrder, PackagedOrder, CatchingOrder, GuardedOrder,
      FindOrder, SumOrder, IInv, Typing, Phases, AllKinds, Accumulators
  <2>6. main = "join" => \A b \in Thread : at[b] = "ended"
    BY <2>1 DEF PhaseDone
  <2>7. main' # "own" => at' = at
    BY <1>9 DEF NextPhase
  <2>8. main' = "own" => at' = [at EXCEPT ![Own] = "start"]
    BY <1>9 DEF NextPhase
  <2>9. at' \in [Block -> Label] /\ \A b \in Thread : at'[b] = at[b]
    BY <1>2, <2>7, <2>8 DEF Label
  <2>10. Typing'
    BY <1>1, <2>1, <2>9 DEF IInv, Typing
  <2>11. OwnBlock'
    <3>1. main = "own" => \A b \in Block \ Thread : at[b] \in {"none", "ended"}
      BY <1>2, <2>1 DEF PhaseDone
    <3> QED
      BY <1>1, <2>2, <2>7, <3>1 DEF IInv, OwnBlock
  <2>12. Joined'
    BY <1>1, <2>3, <2>5, <2>6, <2>9 DEF IInv, Joined
  <2>13. Published'
    BY <1>1, <2>1, <2>9 DEF IInv, Published
  <2> QED
    BY <2>4, <2>10, <2>11, <2>12, <2>13 DEF IInv
<1> QED
  BY <1>3, <1>4, <1>5, <1>6, <1>7, <1>8, <1>9, <1>10 DEF Caller, Proceed

(* Every step of a call preserves IInv. *)
LEMMA Preserved ==
  ASSUME IInv, [Next]_vars
  PROVE  IInv'
<1>1. CASE \E b \in Block : Work(b)
  BY <1>1, WorkStep
<1>2. CASE Caller
  BY <1>2, CallerStep
<1>3. CASE UNCHANGED vars
  <2>1. /\ main' = main /\ at' = at /\ future' = future
        /\ kind' = kind /\ length' = length /\ hardware' = hardware
        /\ Own' = Own /\ Block' = Block /\ Thread' = Thread
    BY <1>3, Constants, SameBlocks DEF vars
  <2>2. Typing' /\ Phases' /\ OwnBlock' /\ Joined' /\ Published'
    BY <2>1 DEF IInv, Typing, Phases, OwnBlock, Joined, Published
  <2> QED
    BY <2>2 DEF IInv
<1> QED
  BY <1>1, <1>2, <1>3 DEF Next, Over

(* IInv is an invariant of every program, whatever its parameters. *)
THEOREM Invariance == Spec => []IInv
<1>1. Init => IInv
  <2> SUFFICES ASSUME Init PROVE IInv
    OBVIOUS
  <2>1. kind \in AllKinds /\ length \in Nat /\ hardware \in Nat
    BY ForkJoinAssumption DEF Init
  <2>2. Thread \subseteq Block
    BY <2>1, OwnOrThread
  <2>3. Typing
    BY <2>1 DEF Init, Typing, Label
  <2> QED
    BY <2>2, <2>3 DEF Init, IInv, Phases, OwnBlock, Joined, Published
<1>2. IInv /\ [Next]_vars => IInv'
  BY Preserved
<1> QED
  BY <1>1, <1>2, PTL DEF Spec

(* The blocks of every call are consecutive and not empty. *)
THEOREM BlocksPartition == Spec => []PartitionExact
<1>1. IInv => PartitionExact
  BY Partition DEF IInv, Typing
<1> QED
  BY <1>1, Invariance, PTL

(* When a call is over, by a result or by an exception, all threads are too. *)
THEOREM ThreadsJoined == Spec => []NoThreadLeft
<1>1. IInv => NoThreadLeft
  BY OwnOrThread DEF IInv, Typing, OwnBlock, Joined, NoThreadLeft
<1> QED
  BY <1>1, Invariance, PTL

(* An exception that leaves the caller's code terminates the program only in
   8.2 and 8.3, while threads are not joined and not looked after. *)
LEMMA RaiseTerminates ==
  ASSUME IInv, Raise, main' = "terminated", main \in {"spawn", "own", "gather", "answer"}
  PROVE  /\ \E b \in Thread : Started(b)
         /\ \/ kind \in {"plain", "packaged"} /\ main \in {"spawn", "own"}
            \/ kind = "catching" /\ main = "spawn"
<1>1. Unjoined
  BY DEF Raise
<1>2. kind \in {"plain", "packaged"} \/ (kind = "catching" /\ main = "spawn")
  BY DEF Raise, IInv, Typing, AllKinds, Accumulators
<1> QED
  BY <1>1, <1>2 DEF Unjoined

(* No step terminates the program but those of TerminationStep. *)
LEMMA Terminates ==
  ASSUME IInv, [Next]_vars
  PROVE  [TerminationStep]_vars
<1> SUFFICES ASSUME Next, ~ UNCHANGED vars, main' = "terminated" PROVE TerminationStep
  BY DEF TerminationStep
<1>1. ASSUME NEW b \in Block, Work(b) PROVE TerminationStep
  <2>1. AccumulateThrows(b) \/ MatchThrows(b) \/ ChunkThrows(b)
    BY <1>1 DEF Work, Running, Take, Accumulate, Look, LookThrows, Check, SetFlag, SetPromise,
      SumBlock, AddToLast, Publish, Spread
  <2>2. Running /\ at[b] \notin {"none", "ended"} /\ at' = [at EXCEPT ![b] = "ended"]
    BY <1>1, <2>1 DEF Work, AccumulateThrows, MatchThrows, ChunkThrows, Goto
  <2>3. CASE b = Own
    <3>1. main = "own"
      BY <2>2, <2>3, OwnPhase
    <3>2. Raise
      BY <2>1, <2>3 DEF AccumulateThrows, MatchThrows, ChunkThrows
    <3> QED
      BY <3>1, <3>2, RaiseTerminates DEF TerminationStep
  <2>4. CASE b # Own
    <3>1. b \in Thread
      BY <2>4, OwnOrThread DEF IInv, Typing
    <3>2. LeavesThread(b)
      BY <2>2 DEF IInv, Typing, LeavesThread
    <3>3. \/ kind = "plain"
          \/ kind = "find" /\ pos[b] = Start(b)
          \/ kind = "partial_sum" /\ at[b] = "spread"
      BY <2>1, <2>2, <2>4 DEF AccumulateThrows, MatchThrows, ChunkThrows, Running
    <3>4. at[b] = "spread" => future[b].state = "ready"
      BY <3>1 DEF IInv, Published
    <3> QED
      BY <3>1, <3>2, <3>3, <3>4 DEF TerminationStep
  <2> QED
    BY <2>3, <2>4
<1>2. CASE SpawnThrows \/ GetThrows \/ ResultThrows \/ AnswerThrows
  <2>1. Raise /\ main \in {"spawn", "own", "gather", "answer"}
    BY <1>2 DEF SpawnThrows, GetThrows, ResultThrows, AnswerThrows
  <2> QED
    BY <2>1, RaiseTerminates DEF TerminationStep
<1>3. CASE PoolGrowthFails
  BY <1>3 DEF PoolGrowthFails, TerminationStep
<1>4. CASE NextPhase
  <2>1. PhaseDone /\ main' = After(main)
    BY <1>4 DEF NextPhase
  <2> QED
    BY <2>1 DEF PhaseDone, After, PlainOrder, PackagedOrder, CatchingOrder, GuardedOrder,
      FindOrder, SumOrder, IInv, Typing, Phases, AllKinds, Accumulators
<1>5. CASE EmptyRange \/ SpawnThread \/ GetFuture \/ UnwindJoins
  BY <1>5 DEF EmptyRange, SpawnThread, GetFuture, UnwindJoins
<1>6. CASE Answer
  BY <1>6 DEF Answer, After, FindOrder, IInv, Phases
<1> QED
  BY <1>1, <1>2, <1>3, <1>4, <1>5, <1>6 DEF Next, Caller, Proceed, Over

(* An exception terminates the program only where the code has no handler for
   it and threads that are not joined, or where it leaves a thread. *)
THEOREM ExceptionSafety == Spec => TerminatedOnlyIf
<1>1. IInv /\ [Next]_vars => [TerminationStep]_vars
  BY Terminates
<1> QED
  BY <1>1, Invariance, PTL DEF Spec, TerminatedOnlyIf

-----------------------------------------------------------------------------
(***************************************************************************)
(* What the calls compute: where the blocks are.                           *)
(***************************************************************************)
(* Where the blocks are. *)
LEMMA BlockBounds ==
  ASSUME length \in Nat \ {0}, hardware \in Nat
  PROVE  /\ Own \in Nat /\ Block = 0 .. Own /\ Thread = 0 .. Own - 1 /\ Stop(Own) = length
         /\ Start(0) = 1
         /\ \A b \in Block : /\ Start(b) \in 1 .. length /\ Stop(b) \in Start(b) .. length
                             /\ b # 0 => Start(b) = Stop(b - 1) + 1 /\ b - 1 \in Block
<1>1. PartitionExact
  BY Partition
<1>2. Own \in Nat /\ Size \in Nat \ {0} /\ Own * Size < length
  BY LastBlock DEF Own
<1>3. Block = 0 .. Own /\ Thread = 0 .. Own - 1
  BY DEF Block, Thread
<1>4. ASSUME NEW b \in Block PROVE Start(b) \in 1 .. length /\ Stop(b) \in Start(b) .. length
  <2>1. b \in 0 .. Own /\ Start(b) <= Stop(b)
    BY <1>1, <1>3 DEF PartitionExact
  <2>2. b * Size \in Nat /\ Start(b) \in Nat \ {0}
    BY <1>2, <2>1 DEF Start
  <2>3. CASE b = Own
    BY <2>1, <2>2, <2>3 DEF Stop
  <2>4. CASE b # Own
    <3>1. (b + 1) * Size <= Own * Size /\ (b + 1) * Size \in Nat /\ Own * Size \in Nat
      <4>1. b + 1 \in Nat /\ b + 1 <= Own
        BY <1>2, <2>1, <2>4
      <4>2. PICK d \in Nat : Own = b + 1 + d
        <5>1. Own - (b + 1) \in Nat /\ Own = b + 1 + (Own - (b + 1))
          BY <1>2, <4>1
        <5> QED BY <5>1
      <4>3. Own * Size = (b + 1) * Size + d * Size /\ d * Size \in Nat
        BY <1>2, <4>1, <4>2
      <4> QED BY <1>2, <4>1, <4>3
    <3> QED
      BY <1>2, <2>1, <2>2, <2>4, <3>1 DEF Stop
  <2> QED
    BY <2>3, <2>4
<1>5. ASSUME NEW b \in Block, b # 0 PROVE Start(b) = Stop(b - 1) + 1 /\ b - 1 \in Block
  <2>1. b - 1 \in Thread /\ b - 1 + 1 = b /\ b - 1 \in Block
    BY <1>2, <1>3, <1>5
  <2> QED
    BY <1>1, <2>1 DEF PartitionExact
<1> QED
  BY <1>1, <1>2, <1>3, <1>4, <1>5 DEF PartitionExact

(* Blocks do not overlap. *)
LEMMA BlocksApart ==
  ASSUME length \in Nat \ {0}, hardware \in Nat, NEW b \in Block, NEW c \in Block, c < b
  PROVE  Stop(c) < Start(b)
<1>1. Own \in Nat /\ Size \in Nat \ {0} /\ Block = 0 .. Own
  BY LastBlock DEF Own, Block
<1>2. PICK d \in Nat : b = c + 1 + d
  <2>1. b - (c + 1) \in Nat /\ b = c + 1 + (b - (c + 1))
    BY <1>1
  <2> QED BY <2>1
<1>3. b * Size = (c + 1) * Size + d * Size /\ d * Size \in Nat /\ (c + 1) * Size \in Nat
  BY <1>1, <1>2
<1>4. Stop(c) = (c + 1) * Size /\ Start(b) = b * Size + 1
  BY <1>1 DEF Stop, Start
<1> QED
  BY <1>3, <1>4

(* Every item is in a block. *)
LEMMA BlocksCover ==
  ASSUME length \in Nat \ {0}, hardware \in Nat, NEW i \in Item
  PROVE  \E b \in Block : i \in Start(b) .. Stop(b)
<1>1. Own \in Nat /\ Size \in Nat \ {0} /\ Block = 0 .. Own
  BY LastBlock DEF Own, Block
<1>2. i \in Nat \ {0} /\ i <= length
  BY DEF Item
<1>3. PICK q : q = (i - 1) \div Size
  OBVIOUS
<1>4. i - 1 \in Nat
  BY <1>2
<1>5. q \in Nat /\ Size * q <= i - 1 /\ i - 1 < Size * q + Size
  BY <1>1, <1>3, <1>4, Division
<1>6. CASE q < Own
  <2>1. q \in Block /\ Start(q) = q * Size + 1 /\ Stop(q) = (q + 1) * Size
    BY <1>1, <1>5, <1>6 DEF Start, Stop
  <2>2. Size * q = q * Size /\ (q + 1) * Size = q * Size + Size /\ q * Size \in Nat
    BY <1>1, <1>5
  <2> QED
    BY <1>1, <1>2, <1>5, <2>1, <2>2
<1>7. CASE q >= Own
  <2>1. Start(Own) = Own * Size + 1 /\ Stop(Own) = length /\ Own \in Block
    BY <1>1 DEF Start, Stop
  <2>2. PICK d \in Nat : q = Own + d
    <3>1. q - Own \in Nat /\ q = Own + (q - Own)
      BY <1>1, <1>5, <1>7
    <3> QED BY <3>1
  <2>3. Size * q = Own * Size + Size * d /\ Size * d \in Nat /\ Own * Size \in Nat
    BY <1>1, <2>2
  <2> QED
    BY <1>1, <1>2, <1>5, <2>1, <2>3
<1> QED
  BY <1>1, <1>5, <1>6, <1>7

(***************************************************************************)
(* Sums of items                                                           *)
(***************************************************************************)
(* The sum of a block, item by item. *)
LEMMA SumOf ==
  ASSUME NEW from \in Nat \ {0}, NEW to \in Nat, from <= to + 1
  PROVE  /\ Sum(from, to) \in Seq(Nat)
         /\ Len(Sum(from, to)) = to - from + 1
         /\ \A i \in 1 .. to - from + 1 : Sum(from, to)[i] = from + i - 1
<1>1. PICK n : n = to - from + 1
  OBVIOUS
<1>2. n \in Nat /\ Sum(from, to) = [i \in 1 .. n |-> from + i - 1]
  BY <1>1 DEF Sum
<1>3. \A i \in 1 .. n : from + i - 1 \in Nat
  BY <1>1
<1> QED
  BY <1>1, <1>2, <1>3

(* The items of a sum. *)
LEMMA SumItems ==
  ASSUME NEW from \in Nat \ {0}, NEW to \in Nat, from <= to + 1
  PROVE  ToSet(Sum(from, to)) = from .. to
<1>1. PICK n : n = to - from + 1
  OBVIOUS
<1>2. n \in Nat /\ Sum(from, to) = [i \in 1 .. n |-> from + i - 1]
  BY <1>1 DEF Sum
<1>3. ToSet(Sum(from, to)) = {from + i - 1 : i \in 1 .. n}
  BY <1>2 DEF ToSet
<1>4. ASSUME NEW x \in from .. to PROVE \E i \in 1 .. n : x = from + i - 1
  <2>1. x - from + 1 \in 1 .. n /\ x = from + (x - from + 1) - 1
    BY <1>1
  <2> QED BY <2>1
<1>5. \A i \in 1 .. n : from + i - 1 \in from .. to
  BY <1>1
<1> QED
  BY <1>3, <1>4, <1>5

(* A block that starts at the first item has its partial sums at once. *)
LEMMA FirstSum ==
  ASSUME NEW n \in Nat
  PROVE  SumsUpTo(Sum(1, n), n)
<1>1. ToSet(Sum(1, n)) = 1 .. n /\ Len(Sum(1, n)) = n - 1 + 1
  BY SumItems, SumOf
<1> QED
  BY <1>1 DEF SumsUpTo

(* The items of two sums that are added. *)
LEMMA ItemsOfBoth ==
  ASSUME NEW S, NEW r \in Seq(S), NEW s \in Seq(S)
  PROVE  /\ r \o s \in Seq(S) /\ Len(r \o s) = Len(r) + Len(s)
         /\ ToSet(r \o s) = ToSet(r) \cup ToSet(s)
<1>1. PICK m, n : m = Len(r) /\ n = Len(s)
  OBVIOUS
<1>2. /\ r \o s \in Seq(S) /\ Len(r \o s) = m + n /\ m \in Nat /\ n \in Nat
      /\ \A i \in 1 .. m + n : (r \o s)[i] = IF i <= m THEN r[i] ELSE s[i - m]
  BY <1>1
<1>3. DOMAIN (r \o s) = 1 .. m + n /\ DOMAIN r = 1 .. m /\ DOMAIN s = 1 .. n
  BY <1>1, <1>2
<1>4. /\ ToSet(r \o s) = {(r \o s)[i] : i \in 1 .. m + n}
      /\ ToSet(r) = {r[i] : i \in 1 .. m} /\ ToSet(s) = {s[i] : i \in 1 .. n}
  BY <1>3 DEF ToSet
<1>5. ASSUME NEW i \in 1 .. m + n PROVE (r \o s)[i] \in ToSet(r) \cup ToSet(s)
  <2>1. CASE i <= m
    <3>1. i \in 1 .. m /\ (r \o s)[i] = r[i]
      BY <1>2, <2>1
    <3> QED BY <1>4, <3>1
  <2>2. CASE ~(i <= m)
    <3>1. i - m \in 1 .. n /\ (r \o s)[i] = s[i - m]
      BY <1>2, <2>2
    <3> QED BY <1>4, <3>1
  <2> QED BY <2>1, <2>2
<1>6. ASSUME NEW i \in 1 .. m PROVE r[i] \in ToSet(r \o s)
  <2>1. i \in 1 .. m + n /\ (r \o s)[i] = r[i]
    BY <1>2
  <2> QED BY <1>4, <2>1
<1>7. ASSUME NEW i \in 1 .. n PROVE s[i] \in ToSet(r \o s)
  <2>1. i + m \in 1 .. m + n /\ ~(i + m <= m) /\ i + m - m = i
    BY <1>2
  <2>2. (r \o s)[i + m] = s[i]
    BY <1>2, <2>1
  <2> QED BY <1>4, <2>1, <2>2
<1>8. ToSet(r \o s) = ToSet(r) \cup ToSet(s)
  BY <1>4, <1>5, <1>6, <1>7
<1> QED
  BY <1>1, <1>2, <1>8

(* A sum from an item on, to which the complete sum before it is added. *)
LEMMA AddedSum ==
  ASSUME NEW from \in Nat \ {0}, NEW to \in Nat, from <= to, NEW s \in Seq(Nat),
         SumsUpTo(s, from - 1)
  PROVE  SumsUpTo(Sum(from, to) \o s, to)
<1>0. from <= to + 1
  OBVIOUS
<1>1. /\ Sum(from, to) \in Seq(Nat) /\ Len(Sum(from, to)) = to - from + 1
      /\ ToSet(Sum(from, to)) = from .. to
  <2>1. Sum(from, to) \in Seq(Nat) /\ Len(Sum(from, to)) = to - from + 1
    BY <1>0, SumOf, Zenon
  <2>2. ToSet(Sum(from, to)) = from .. to
    BY <1>0, SumItems, Zenon
  <2> QED BY <2>1, <2>2, Zenon
<1>2. Len(s) = from - 1 /\ ToSet(s) = 1 .. from - 1
  BY DEF SumsUpTo
<1>3. /\ Len(Sum(from, to) \o s) = (to - from + 1) + (from - 1)
      /\ ToSet(Sum(from, to) \o s) = (from .. to) \cup (1 .. from - 1)
  <2>1. PICK r : r = Sum(from, to)
    OBVIOUS
  <2>2. r \in Seq(Nat) /\ s \in Seq(Nat)
    BY <1>1, <2>1
  <2>3. Len(r \o s) = Len(r) + Len(s) /\ ToSet(r \o s) = ToSet(r) \cup ToSet(s)
    BY <2>2, ItemsOfBoth
  <2> QED BY <1>1, <1>2, <2>1, <2>3
<1>4. (to - from + 1) + (from - 1) = to /\ (from .. to) \cup (1 .. from - 1) = 1 .. to
  OBVIOUS
<1>5. Len(Sum(from, to) \o s) = to /\ ToSet(Sum(from, to) \o s) = 1 .. to
  BY <1>3, <1>4
<1> QED
  BY <1>5 DEF SumsUpTo

(* Two consecutive sums. *)
LEMMA JoinedSums ==
  ASSUME NEW mid \in Nat, NEW to \in Nat, mid <= to
  PROVE  Sum(1, mid) \o Sum(mid + 1, to) = Sum(1, to)
<1> DEFINE r == Sum(1, mid)
           s == Sum(mid + 1, to)
           t == Sum(1, to)
<1>1. /\ r \in Seq(Nat) /\ Len(r) = mid /\ \A i \in 1 .. mid : r[i] = i
      /\ t \in Seq(Nat) /\ Len(t) = to /\ \A i \in 1 .. to : t[i] = i
  BY SumOf DEF Sum
<1>2. s \in Seq(Nat) /\ Len(s) = to - mid /\ \A i \in 1 .. to - mid : s[i] = mid + i
  <2>1. PICK n : n = to - mid
    OBVIOUS
  <2>2. n \in Nat /\ to - (mid + 1) + 1 = n
    BY <2>1
  <2>3. s = [i \in 1 .. n |-> mid + i]
    BY <2>2 DEF Sum
  <2> QED BY <2>1, <2>2, <2>3
<1> HIDE DEF r, s, t
<1>3. /\ r \o s \in Seq(Nat) /\ Len(r \o s) = to
      /\ \A i \in 1 .. to : (r \o s)[i] = i
  <2>1. PICK n : n = to - mid
    OBVIOUS
  <2>2. /\ r \o s \in Seq(Nat) /\ Len(r \o s) = mid + n /\ n \in Nat
        /\ \A i \in 1 .. mid + n : (r \o s)[i] = IF i <= mid THEN r[i] ELSE s[i - mid]
    BY <1>1, <1>2, <2>1
  <2>3. ASSUME NEW i \in 1 .. mid + n PROVE (r \o s)[i] = i
    <3>1. CASE i <= mid
      BY <1>1, <2>2, <3>1
    <3>2. CASE ~(i <= mid)
      <4>1. i - mid \in 1 .. n /\ mid + (i - mid) = i
        BY <2>2, <3>2
      <4> QED BY <1>2, <2>1, <2>2, <3>2, <4>1
    <3> QED BY <3>1, <3>2
  <2> QED BY <2>1, <2>2, <2>3
<1>4. r \o s = t
  BY <1>1, <1>3
<1> QED
  BY <1>4 DEF r, s, t

(* Every set of natural numbers that is not empty has a least element. *)
LEMMA LeastOf ==
  ASSUME NEW T, T \subseteq Nat, T # {}
  PROVE  \E m \in T : \A k \in T : m <= k
<1> DEFINE Less == {p \in Nat \X Nat : p[1] < p[2]}
<1>1. IsWellFoundedOn(Less, Nat)
  <2>1. Less = OpToRel(<, Nat)
    BY DEF OpToRel
  <2> QED BY <2>1, NatLessThanWellFounded
<1>2. \A a, b \in Nat : a < b => <<a, b>> \in Less
  OBVIOUS
<1> HIDE DEF Less
<1>3. PICK m \in T : \A k \in T : ~ (<<k, m>> \in Less)
  BY <1>1, WFMin
<1>4. ASSUME NEW k \in T PROVE m <= k
  <2>1. k \in Nat /\ m \in Nat
    OBVIOUS
  <2>2. ~ (k < m)
    BY <1>2, <1>3, <2>1
  <2> QED BY <2>1, <2>2
<1> QED
  BY <1>4

(* g gives the sum of the first blocks, block by block. *)
RunningSums(seqs, n, g) ==
  /\ n \in Nat \ {0} /\ DOMAIN seqs = 1 .. n /\ Len(seqs) = n
  /\ g = [i \in 1 .. n |-> g[i]]
  /\ g[1] = seqs[1]
  /\ \A i \in 2 .. n : g[i] = g[i - 1] \o seqs[i]

(* What FlattenSeq does to the sequence of the sums of a cut range. *)
LEMMA FlattenIs ==
  ASSUME NEW seqs, NEW n, NEW g, RunningSums(seqs, n, g)
  PROVE  FlattenSeq(seqs) = g[n]
<1>0. /\ n \in Nat \ {0} /\ DOMAIN seqs = 1 .. n /\ Len(seqs) = n
      /\ g = [i \in 1 .. n |-> g[i]]
      /\ g[1] = seqs[1]
      /\ \A i \in 2 .. n : g[i] = g[i - 1] \o seqs[i]
  BY DEF RunningSums
<1> DEFINE Step(f) == [i \in 1 .. n |-> IF i = 1 THEN seqs[i] ELSE f[i - 1] \o seqs[i]]
           f == CHOOSE f : f = Step(f)
<1>1. FlattenSeq(seqs) = f[n]
  BY <1>0 DEF FlattenSeq
<1>2. g = Step(g)
  <2>1. ASSUME NEW i \in 1 .. n PROVE g[i] = IF i = 1 THEN seqs[i] ELSE g[i - 1] \o seqs[i]
    <3>1. i = 1 \/ i \in 2 .. n
      BY <1>0
    <3> QED BY <1>0, <3>1
  <2> QED BY <1>0, <2>1
<1>3. f = Step(f)
  BY <1>2
<1> HIDE DEF f
<1>4. f[1] = seqs[1] /\ \A i \in 2 .. n : f[i] = f[i - 1] \o seqs[i]
  <2>1. \A i \in 1 .. n : f[i] = IF i = 1 THEN seqs[i] ELSE f[i - 1] \o seqs[i]
    BY <1>3
  <2>2. 1 \in 1 .. n /\ \A i \in 2 .. n : i \in 1 .. n /\ i # 1
    BY <1>0
  <2> QED BY <2>1, <2>2
<1> DEFINE T == {i \in 1 .. n : f[i] # g[i]}
<1>5. T = {}
  <2>1. SUFFICES ASSUME T # {} PROVE FALSE
    OBVIOUS
  <2>2. T \subseteq Nat
    BY <1>0
  <2>3. PICK m \in T : \A k \in T : m <= k
    <3> HIDE DEF T
    <3> QED BY <2>1, <2>2, LeastOf
  <2>4. m \in 1 .. n /\ f[m] # g[m]
    OBVIOUS
  <2>5. CASE m = 1
    BY <1>0, <1>4, <2>4, <2>5
  <2>6. CASE m # 1
    <3>1. m \in 2 .. n /\ m - 1 \in 1 .. n /\ ~(m <= m - 1)
      BY <1>0, <2>4, <2>6
    <3>2. f[m - 1] = g[m - 1]
      BY <2>3, <3>1
    <3> QED BY <1>0, <1>4, <2>4, <3>1, <3>2
  <2> QED BY <2>5, <2>6
<1>6. f[n] = g[n]
  BY <1>0, <1>5
<1> QED
  BY <1>1, <1>6

(* The sums of all blocks, in the order of the blocks, are the sum of the range. *)
LEMMA TotalSum ==
  ASSUME length \in Nat \ {0}, hardware \in Nat,
         \A b \in Block : future[b].sum = Sum(Start(b), Stop(b))
  PROVE  Total = Sum(1, length)
<1> DEFINE n == Own + 1
           seqs == [i \in 1 .. n |-> future[i - 1].sum]
           g == [i \in 1 .. n |-> Sum(1, Stop(i - 1))]
<1>1. n \in Nat \ {0} /\ Block = 0 .. n - 1 /\ Stop(n - 1) = length
  BY BlockBounds
<1>2. \A b \in Block : Start(b) \in 1 .. length /\ Stop(b) \in Start(b) .. length
  BY BlockBounds
<1>3. Start(0) = 1 /\ \A b \in Block : b # 0 => Start(b) = Stop(b - 1) + 1 /\ b - 1 \in Block
  BY BlockBounds
<1>4. Total = FlattenSeq(seqs)
  BY DEF Total
<1> HIDE DEF n
<1>5. DOMAIN seqs = 1 .. n /\ Len(seqs) = n
  BY <1>1
<1>6. \A i \in 1 .. n : i - 1 \in Block /\ seqs[i] = Sum(Start(i - 1), Stop(i - 1))
  BY <1>1
<1>7. g[1] = seqs[1]
  <2>1. 1 \in 1 .. n /\ 1 - 1 = 0
    BY <1>1
  <2> QED BY <1>3, <1>6, <2>1
<1>8. ASSUME NEW i \in 2 .. n PROVE g[i] = g[i - 1] \o seqs[i]
  <2>1. PICK b : b = i - 1
    OBVIOUS
  <2>2. b \in Block /\ b # 0 /\ i \in 1 .. n /\ b \in 1 .. n
    BY <1>1, <2>1
  <2>3. g[i] = Sum(1, Stop(b)) /\ g[b] = Sum(1, Stop(b - 1)) /\ seqs[i] = Sum(Start(b), Stop(b))
    BY <1>6, <2>1, <2>2
  <2>4. /\ Stop(b - 1) \in Nat /\ Stop(b) \in Nat /\ Stop(b - 1) <= Stop(b)
        /\ Start(b) = Stop(b - 1) + 1
    <3>1. b - 1 \in Block /\ Start(b) = Stop(b - 1) + 1
      BY <1>3, <2>2
    <3>2. Stop(b - 1) \in Start(b - 1) .. length /\ Start(b - 1) \in 1 .. length
      BY <1>2, <3>1
    <3>3. Stop(b) \in Start(b) .. length /\ Start(b) \in 1 .. length
      BY <1>2, <2>2
    <3> QED BY <3>1, <3>2, <3>3
  <2>5. Sum(1, Stop(b - 1)) \o Sum(Start(b), Stop(b)) = Sum(1, Stop(b))
    BY <2>4, JoinedSums
  <2> HIDE DEF g, seqs
  <2> QED BY <2>1, <2>3, <2>5
<1>9. g \in [1 .. n -> Seq(Nat)] /\ g[n] = Sum(1, length)
  <2>1. ASSUME NEW i \in 1 .. n PROVE Sum(1, Stop(i - 1)) \in Seq(Nat)
    <3>1. Stop(i - 1) \in Nat /\ 1 <= Stop(i - 1) + 1
      BY <1>2, <1>6
    <3>2. 1 \in Nat \ {0}
      OBVIOUS
    <3> QED BY <3>1, <3>2, SumOf, Zenon
  <2> QED BY <1>1, <2>1
<1> HIDE DEF g, seqs
<1>10. \A i \in 2 .. n : g[i] = g[i - 1] \o seqs[i]
  BY <1>8
<1>11. RunningSums(seqs, n, g)
  <2>1. g = [i \in 1 .. n |-> g[i]]
    BY <1>9
  <2> QED BY <1>1, <1>5, <1>7, <1>10, <2>1 DEF RunningSums
<1>12. FlattenSeq(seqs) = g[n]
  BY <1>11, FlattenIs, Zenon
<1> QED
  BY <1>4, <1>9, <1>12

(***************************************************************************)
(* The phases of the caller, and the labels of each program                *)
(***************************************************************************)
(* What the caller's order of phases guarantees. *)
Order ==
  /\ main \in {"spawn", "own", "join", "gather", "answer", "unwind",
               "returned", "threw", "terminated"}
  /\ main \in {"own", "join", "gather", "answer"} => length > 0
  /\ main = "spawn" \/ (main = "gather" /\ kind = "catching") =>
       \A b \in Block \ Thread : at[b] = "none"
  /\ main \in {"join", "answer"} \/ (main = "gather" /\ kind # "catching") =>
       at[Own] = "ended"

(* Each program has labels of its own. *)
Labels == \A b \in Block :
  /\ at[b] = "queued" => kind = "pooled"
  /\ at[b] \in {"check", "found", "catch", "set_value", "set_exception"} => kind = "find"
  /\ at[b] \in {"await", "publish", "spread"} => kind = "partial_sum"

(* What a step of the work on a block leaves alone. *)
LEMMA WorkMoves ==
  ASSUME IInv, [Next]_vars, NEW b \in Block, Work(b)
  PROVE  /\ Running /\ at[b] \notin {"none", "ended"}
         /\ \E l \in Label \ {"none", "queued"} : at' = [at EXCEPT ![b] = l]
         /\ main' = main \/ main' \in {"threw", "unwind", "terminated"}
         /\ result' = result /\ got' = got
<1>1. Running
  BY DEF Work
<1>2. CASE AccumulateThrows(b) \/ MatchThrows(b) \/ ChunkThrows(b)
  <2>1. main' = main \/ main' \in {"threw", "unwind", "terminated"}
    BY <1>2 DEF AccumulateThrows, MatchThrows, ChunkThrows, Raise
  <2> QED
    BY <1>1, <1>2, <2>1 DEF AccumulateThrows, MatchThrows, ChunkThrows, Goto, Label
<1>3. CASE Take(b) \/ Accumulate(b)
  BY <1>1, <1>3 DEF Take, Accumulate, Goto, Label
<1>4. CASE Look(b)
  BY <1>1, <1>4, Zenon DEF Look, Goto, Label, IInv, Typing
<1>5. CASE LookThrows(b) \/ Check(b) \/ SetFlag(b) \/ SetPromise(b)
  BY <1>1, <1>5 DEF LookThrows, Check, SetFlag, SetPromise, Goto, Label
<1>6. CASE SumBlock(b) \/ AddToLast(b) \/ Publish(b) \/ Spread(b)
  BY <1>1, <1>6 DEF SumBlock, AddToLast, Publish, Spread, Goto, Label
<1> QED
  BY <1>2, <1>3, <1>4, <1>5, <1>6 DEF Work

(* The order is kept. *)
LEMMA OrderStep ==
  ASSUME IInv, Order, [Next]_vars
  PROVE  Order'
<1>1. /\ kind' = kind /\ length' = length /\ hardware' = hardware
      /\ Own' = Own /\ Block' = Block /\ Thread' = Thread
  BY Constants, SameBlocks
<1>2. /\ at \in [Block -> Label] /\ Thread \subseteq Block
      /\ \A b \in Block : b \in Thread \/ b = Own
      /\ \A b \in Thread : b # Own
      /\ length \in Nat /\ hardware \in Nat
      /\ length > 0 => Own \in Block
  BY OwnOrThread, BlockBounds DEF IInv, Typing, Thread
<1>3. CASE \E b \in Block : Work(b)
  <2>1. PICK b \in Block : Work(b)
    BY <1>3
  <2>2. PICK l \in Label \ {"none", "queued"} : at' = [at EXCEPT ![b] = l]
    BY <2>1, WorkMoves
  <2>3. /\ Running /\ at[b] \notin {"none", "ended"}
        /\ main' = main \/ main' \in {"threw", "unwind", "terminated"}
    BY <2>1, WorkMoves
  <2>4. CASE main' \in {"threw", "unwind", "terminated"}
    BY <1>1, <2>4 DEF Order
  <2>5. CASE main' = main
    <3>1. b = Own => main = "own"
      BY <2>3, OwnPhase
    <3>2. main # "own" => at'[Own] = at[Own] /\ \A c \in Block \ Thread : at'[c] = at[c]
      BY <1>2, <2>2, <3>1
    <3> QED BY <1>1, <1>2, <2>5, <3>2 DEF Order
  <2> QED BY <2>3, <2>4, <2>5
<1>4. CASE EmptyRange \/ UnwindJoins
  BY <1>1, <1>4 DEF Order, EmptyRange, UnwindJoins
<1>5. CASE SpawnThrows \/ PoolGrowthFails \/ GetThrows \/ ResultThrows \/ AnswerThrows
  <2>1. main' \in {"threw", "unwind", "terminated"}
    BY <1>5 DEF SpawnThrows, PoolGrowthFails, GetThrows, ResultThrows, AnswerThrows, Raise
  <2> QED BY <1>1, <2>1 DEF Order
<1>6. CASE SpawnThread
  <2>1. PICK b \in Thread :
          at' = [at EXCEPT ![b] = IF kind = "pooled" THEN "queued" ELSE "start"]
    BY <1>6 DEF SpawnThread
  <2>2. main = "spawn" /\ main' = main /\ \A c \in Block \ Thread : at'[c] = at[c]
    BY <1>2, <1>6, <2>1 DEF SpawnThread
  <2> QED BY <1>1, <2>2 DEF Order
<1>7. CASE GetFuture
  BY <1>1, <1>7 DEF GetFuture, Order
<1>8. CASE Answer
  BY <1>1, <1>8 DEF Answer, After, FindOrder, Order, IInv, Phases
<1>9. CASE NextPhase
  <2>1. PhaseDone /\ main' = After(main) /\ (main' # "own" => at' = at)
    BY <1>9 DEF NextPhase
  <2>2. main \in {"spawn", "own", "join", "gather"}
    BY <2>1 DEF PhaseDone
  <2>3. main' \in {"own", "join", "gather", "answer", "returned"}
    BY <2>1, <2>2 DEF After, PlainOrder, PackagedOrder, CatchingOrder, GuardedOrder,
      FindOrder, SumOrder, IInv, Typing, Phases, AllKinds, Accumulators
  <2>4. /\ main' = "gather" /\ kind = "catching" => main = "spawn"
        /\ main' \in {"join", "answer"} \/ (main' = "gather" /\ kind # "catching") =>
             main = "own" \/ main = "join" \/ (main = "gather" /\ kind # "catching")
    <3>1. CASE main = "spawn"
      BY <2>1, <3>1 DEF After, PlainOrder, PackagedOrder, CatchingOrder,
        GuardedOrder, FindOrder, SumOrder, IInv, Typing, Phases, AllKinds, Accumulators
    <3>2. CASE main = "gather"
      BY <2>1, <3>2 DEF After, PlainOrder, PackagedOrder, CatchingOrder,
        GuardedOrder, FindOrder, SumOrder, IInv, Typing, Phases, AllKinds, Accumulators
    <3>3. CASE main \in {"own", "join"}
      <4>1. kind = "catching" => main' # "gather"
        BY <2>1, <3>3 DEF After, CatchingOrder
      <4> QED BY <3>3, <4>1
    <3> QED BY <2>2, <3>1, <3>2, <3>3
  <2>5. length > 0 /\ (main = "own" => at[Own] = "ended")
    BY <2>1, <2>2 DEF PhaseDone, Order
  <2> QED BY <1>1, <2>1, <2>2, <2>3, <2>4, <2>5 DEF Order
<1>10. CASE UNCHANGED vars
  BY <1>1, <1>10 DEF vars, Order
<1> QED
  BY <1>3, <1>4, <1>5, <1>6, <1>7, <1>8, <1>9, <1>10 DEF Next, Caller, Proceed, Over

(* Each program keeps to its labels. *)
LEMMA LabelsStep ==
  ASSUME IInv, Labels, [Next]_vars
  PROVE  Labels'
<1>1. /\ kind' = kind /\ Block' = Block /\ at \in [Block -> Label] /\ Thread \subseteq Block
  BY Constants, SameBlocks, OwnOrThread DEF IInv, Typing
<1>2. ASSUME NEW b \in Block, NEW l, at' = [at EXCEPT ![b] = l],
             l = "queued" => kind = "pooled",
             l \in {"check", "found", "catch", "set_value", "set_exception"} => kind = "find",
             l \in {"await", "publish", "spread"} => kind = "partial_sum"
      PROVE  Labels'
  <2>1. \A c \in Block : at'[c] = IF c = b THEN l ELSE at[c]
    BY <1>1, <1>2
  <2> QED BY <1>1, <1>2, <2>1 DEF Labels
<1>3. ASSUME NEW b \in Block, Work(b) PROVE Labels'
  <2>1. CASE \/ Take(b) \/ Accumulate(b) \/ AccumulateThrows(b)
             \/ MatchThrows(b) \/ ChunkThrows(b)
    BY <1>2, <2>1 DEF Take, Accumulate, AccumulateThrows, MatchThrows, ChunkThrows, Goto
  <2>2. CASE Look(b)
    <3>1. kind = "find" /\ (at' = [at EXCEPT ![b] = "ended"]
            \/ at' = [at EXCEPT ![b] = "check"] \/ at' = [at EXCEPT ![b] = at[b]])
      BY <1>1, <2>2 DEF Look, Goto
    <3>2. at[b] = "start"
      BY <2>2 DEF Look
    <3> QED BY <1>2, <3>1, <3>2
  <2>3. CASE LookThrows(b) \/ Check(b) \/ SetFlag(b) \/ SetPromise(b)
    <3>1. kind = "find"
      BY <2>3 DEF LookThrows, Check, SetFlag, SetPromise, Labels
    <3>2. \E l \in {"ended", "found", "set_value", "set_exception", "catch"} :
            at' = [at EXCEPT ![b] = l]
      BY <2>3 DEF LookThrows, Check, SetFlag, SetPromise, Goto
    <3> QED BY <1>2, <3>1, <3>2
  <2>4. CASE SumBlock(b) \/ AddToLast(b) \/ Publish(b) \/ Spread(b)
    <3>1. kind = "partial_sum"
      BY <2>4 DEF SumBlock, AddToLast, Publish, Spread, Labels
    <3>2. \E l \in {"ended", "await", "publish", "spread"} :
            at' = [at EXCEPT ![b] = l]
      BY <2>4 DEF SumBlock, AddToLast, Publish, Spread, Goto
    <3> QED BY <1>2, <3>1, <3>2
  <2> QED BY <1>3, <2>1, <2>2, <2>3, <2>4 DEF Work
<1>4. CASE SpawnThread
  <2>1. PICK b \in Thread :
          at' = [at EXCEPT ![b] = IF kind = "pooled" THEN "queued" ELSE "start"]
    BY <1>4 DEF SpawnThread
  <2>2. \/ kind = "pooled" /\ at' = [at EXCEPT ![b] = "queued"]
        \/ at' = [at EXCEPT ![b] = "start"]
    BY <2>1
  <2> QED BY <1>1, <1>2, <2>2
<1>5. CASE NextPhase
  <2>1. at' = at \/ at' = [at EXCEPT ![Own] = "start"]
    BY <1>5 DEF NextPhase
  <2>2. \A c \in Block : at'[c] = at[c] \/ at'[c] = "start"
    BY <1>1, <2>1
  <2> QED BY <1>1, <2>2 DEF Labels
<1>6. CASE UnwindJoins
  <2>1. \A c \in Block : at'[c] = at[c] \/ at'[c] = "none"
    BY <1>6 DEF UnwindJoins
  <2> QED BY <1>1, <2>1 DEF Labels
<1>7. CASE \/ EmptyRange \/ SpawnThrows \/ PoolGrowthFails \/ GetFuture \/ GetThrows
      \/ ResultThrows
           \/ Answer \/ AnswerThrows
           \/ UNCHANGED vars
  <2>1. at' = at
    BY <1>7 DEF EmptyRange, SpawnThrows, PoolGrowthFails, GetFuture, GetThrows, ResultThrows,
          Answer, AnswerThrows, vars
  <2> QED BY <1>1, <2>1 DEF Labels
<1> QED
  BY <1>3, <1>4, <1>5, <1>6, <1>7 DEF Next, Caller, Proceed, Over

(***************************************************************************)
(* The workers of the pool                                                 *)
(***************************************************************************)
(* The threads of a pool that run a task. *)
Busy == {b \in Thread : kind = "pooled" /\ at[b] = "start"}

(* A worker is idle or runs one of the tasks. *)
Workers == idle \in Nat /\ idle + Cardinality(Busy) <= hardware

(* There are finitely many of them. *)
LEMMA BusyFinite ==
  ASSUME length \in Nat, hardware \in Nat
  PROVE  \A S \in SUBSET Thread : IsFiniteSet(S) /\ Cardinality(S) \in Nat
<1>1. IsFiniteSet(Thread)
  <2>1. CASE length = 0
    BY <2>1, NoBlocks, FS_EmptySet
  <2>2. CASE length # 0
    <3>1. Own \in Nat /\ Thread = 0 .. Own - 1
      BY <2>2, BlockBounds
    <3> QED BY <3>1, FS_Interval
  <2> QED BY <2>1, <2>2
<1> QED BY <1>1, FS_Subset, FS_CardinalityType

(* There are never more workers idle or busy than the pool has. *)
LEMMA WorkersStep ==
  ASSUME IInv, Labels, Workers, [Next]_vars
  PROVE  Workers'
<1>1. /\ kind' = kind /\ hardware' = hardware /\ Thread' = Thread /\ Block' = Block
      /\ at \in [Block -> Label] /\ Thread \subseteq Block /\ hardware \in Nat
      /\ \A b \in Thread : b # Own
      /\ \A b \in Block : b \in Thread \/ b = Own
  BY Constants, SameBlocks, OwnOrThread DEF IInv, Typing, Thread
<1>2. IsFiniteSet(Busy) /\ Cardinality(Busy) \in Nat
  BY BusyFinite DEF IInv, Typing, Busy
<1>3. idle \in Nat /\ idle + Cardinality(Busy) <= hardware
  BY DEF Workers
<1>4. ASSUME idle' = idle, Busy' = Busy PROVE Workers'
  BY <1>1, <1>3, <1>4 DEF Workers
<1>5. ASSUME NEW b \in Block, Work(b) PROVE Workers'
  <2>1. PICK l \in Label \ {"none", "queued"} : at' = [at EXCEPT ![b] = l]
    BY <1>5, WorkMoves
  <2>2. \A c \in Block : at'[c] = IF c = b THEN l ELSE at[c]
    BY <1>1, <2>1
  <2>3. CASE Take(b)
    <3>1. idle > 0 /\ idle' = idle - 1 /\ at[b] = "queued"
      BY <2>3 DEF Take
    <3>2. Busy' = Busy \/ (Busy' = Busy \cup {b} /\ b \notin Busy)
      <4>1. \A c \in Thread : c \in Busy' <=> kind = "pooled" /\ at'[c] = "start"
        BY <1>1 DEF Busy
      <4> QED BY <1>1, <2>2, <3>1, <4>1 DEF Busy
    <3>3. Cardinality(Busy') = Cardinality(Busy) \/ Cardinality(Busy') = Cardinality(Busy) + 1
      BY <1>2, <3>2, FS_AddElement
    <3> QED BY <1>1, <1>2, <1>3, <3>1, <3>3 DEF Workers
  <2>4. CASE Accumulate(b) \/ AccumulateThrows(b)
    <3>1. /\ at[b] = "start" /\ at'[b] = "ended"
          /\ idle' = IF kind = "pooled" /\ b # Own /\ main # "unwind" THEN idle + 1 ELSE idle
      BY <1>1, <2>4 DEF Accumulate, AccumulateThrows, BackToLoop, Goto
    <3>2. Busy' = Busy \ {b} /\ (b \in Busy <=> b # Own /\ kind = "pooled")
      <4>1. \A c \in Thread : c \in Busy' <=> kind = "pooled" /\ at'[c] = "start"
        BY <1>1 DEF Busy
      <4> QED BY <1>1, <2>2, <3>1, <4>1 DEF Busy
    <3>3. Cardinality(Busy') = IF b \in Busy THEN Cardinality(Busy) - 1 ELSE Cardinality(Busy)
      BY <1>2, <3>2, FS_RemoveElement
    <3> QED BY <1>1, <1>2, <1>3, <3>1, <3>2, <3>3 DEF Workers
  <2>5. CASE ~ (Take(b) \/ Accumulate(b) \/ AccumulateThrows(b))
    <3>1. idle' = idle
      BY <1>5, <2>5 DEF Work, MatchThrows, Look, LookThrows, Check, SetFlag, SetPromise, SumBlock,
        AddToLast, Publish, Spread, ChunkThrows
    <3>2. kind # "pooled"
      BY <1>5, <2>5 DEF Work, MatchThrows, Look, LookThrows, Check, SetFlag, SetPromise, SumBlock,
        AddToLast, Publish, Spread, ChunkThrows, Labels
    <3>3. Busy' = Busy
      BY <1>1, <3>2 DEF Busy
    <3> QED BY <1>4, <3>1, <3>3
  <2> QED BY <2>3, <2>4, <2>5
<1>6. ASSUME idle' = idle, \A c \in Thread : at'[c] = "start" <=> at[c] = "start"
      PROVE  Workers'
  <2>1. Busy' = Busy
    BY <1>1, <1>6 DEF Busy
  <2> QED BY <1>4, <1>6, <2>1
<1>7. CASE SpawnThread
  <2>1. PICK b \in Thread :
          /\ at[b] = "none"
          /\ at' = [at EXCEPT ![b] = IF kind = "pooled" THEN "queued" ELSE "start"]
    BY <1>7 DEF SpawnThread, Started
  <2>2. idle' = idle
    BY <1>7 DEF SpawnThread
  <2>3. Busy' = Busy
    <3>1. \A c \in Thread : at'[c] = IF c = b THEN IF kind = "pooled" THEN "queued" ELSE "start"
                                     ELSE at[c]
      BY <1>1, <2>1
    <3>2. \A c \in Thread : kind = "pooled" /\ at'[c] = "start" <=> kind = "pooled" /\ at[c] = "start"
      BY <2>1, <3>1
    <3> QED BY <1>1, <3>2 DEF Busy
  <2> QED BY <1>4, <2>2, <2>3
<1>8. CASE NextPhase
  <2>1. idle' = idle /\ (at' = at \/ at' = [at EXCEPT ![Own] = "start"])
    BY <1>8 DEF NextPhase
  <2>2. \A c \in Thread : at'[c] = at[c]
    BY <1>1, <2>1
  <2> QED BY <1>6, <2>1, <2>2
<1>9. CASE UnwindJoins
  <2>1. idle' = idle /\ \A c \in Thread : at'[c] = IF at[c] = "queued" THEN "none" ELSE at[c]
    BY <1>1, <1>9 DEF UnwindJoins
  <2> QED BY <1>6, <2>1
<1>10. CASE \/ EmptyRange \/ SpawnThrows \/ PoolGrowthFails \/ GetFuture \/ GetThrows
      \/ ResultThrows
           \/ Answer \/ AnswerThrows
            \/ UNCHANGED vars
  <2>1. at' = at /\ idle' = idle
    BY <1>10 DEF EmptyRange, SpawnThrows, PoolGrowthFails, GetFuture, GetThrows, ResultThrows,
          Answer, AnswerThrows, vars
  <2> QED BY <1>6, <2>1
<1> QED
  BY <1>5, <1>7, <1>8, <1>9, <1>10 DEF Next, Caller, Proceed, Over

(***************************************************************************)
(* Adding up the blocks                                                    *)
(***************************************************************************)
(* What the futures hold when blocks are added up, and where an exception is
   still going to be met. *)
Accumulated == kind \in Accumulators =>
  /\ \A b \in Block :
       /\ future[b] \in {Empty, Failed, Ready(Sum(Start(b), Stop(b)))}
       /\ future[b] # Empty => at[b] = "ended"
  /\ \A b \in Thread : b < got => future[b].state = "ready"
  /\ main \in {"own", "join", "gather"} /\ at[Own] = "ended" => future[Own].state = "ready"
  /\ (main = "join" /\ kind \notin {"plain", "packaged"}) \/ (main = "own" /\ kind = "catching")
       => got = Own

(* An outcome is nothing, an exception or a value. *)
LEMMA Outcomes ==
  /\ Empty.state = "empty" /\ Failed.state = "failed" /\ Failed # Empty
  /\ \A s : Ready(s).state = "ready" /\ Ready(s).sum = s /\ Ready(s) # Empty /\ Ready(s) # Failed
BY DEF Empty, Failed, Ready

(* The steps of an accumulation keep the futures right. *)
LEMMA AccumulatedStep ==
  ASSUME IInv, Order, Labels, Accumulated, [Next]_vars
  PROVE  Accumulated'
<1> SUFFICES ASSUME kind \in Accumulators PROVE Accumulated'
  BY Constants DEF Accumulated
<1>1. /\ kind' = kind /\ length' = length /\ hardware' = hardware
      /\ Own' = Own /\ Block' = Block /\ Thread' = Thread
      /\ \A b \in Block : Start(b)' = Start(b) /\ Stop(b)' = Stop(b)
  BY Constants, SameBlocks
<1>2. /\ at \in [Block -> Label] /\ Thread \subseteq Block
      /\ \A b \in Block : b \in Thread \/ b = Own
      /\ \A b \in Thread : b # Own
      /\ length \in Nat /\ hardware \in Nat /\ DOMAIN future = Block
      /\ length > 0 => Own \in Nat /\ Own \in Block /\ Thread = 0 .. Own - 1
  BY OwnOrThread, BlockBounds DEF IInv, Typing, Thread
<1>3. /\ \A b \in Block : future[b] \in {Empty, Failed, Ready(Sum(Start(b), Stop(b)))}
      /\ \A b \in Block : future[b] # Empty => at[b] = "ended"
      /\ \A b \in Thread : b < got => future[b].state = "ready"
      /\ main \in {"own", "join", "gather"} /\ at[Own] = "ended" => future[Own].state = "ready"
      /\ (main = "join" /\ kind \notin {"plain", "packaged"}) \/ (main = "own" /\ kind = "catching")
           => got = Own
  BY DEF Accumulated
<1>4. ASSUME NEW b \in Block, Work(b) PROVE Accumulated'
  <2>1. /\ at[b] \notin {"none", "ended"} /\ got' = got
        /\ main' = main \/ main' \in {"threw", "unwind", "terminated"}
    BY <1>4, WorkMoves
  <2>2. PICK l \in Label \ {"none", "queued"} : at' = [at EXCEPT ![b] = l]
    BY <1>4, WorkMoves
  <2>3. \A c \in Block : at'[c] = IF c = b THEN l ELSE at[c]
    BY <1>2, <2>2
  <2>4. Take(b) \/ Accumulate(b) \/ AccumulateThrows(b)
    <3>1. kind \notin {"find", "partial_sum"}
      BY DEF Accumulators
    <3> QED BY <1>4, <3>1 DEF Work, MatchThrows, Look, LookThrows, Check, SetFlag, SetPromise,
          SumBlock,
          AddToLast, Publish, Spread, ChunkThrows, Labels
  <2>5. future[b] = Empty
    BY <1>3, <2>1
  <2>6. /\ \/ future' = future /\ l # "ended"
           \/ future' = future /\ main' \in {"threw", "unwind", "terminated"}
           \/ /\ l = "ended" /\ future' = [future EXCEPT ![b] = Failed]
              /\ b # Own
           \/ l = "ended" /\ future' = [future EXCEPT ![b] = Ready(Sum(Start(b), Stop(b)))]
    <3>1. CASE Take(b)
      BY <2>3, <3>1, <1>2 DEF Take, Goto
    <3>2. CASE Accumulate(b)
      BY <2>3, <3>2, <1>2 DEF Accumulate, Goto
    <3>3. CASE AccumulateThrows(b)
      <4>1. at'[b] = "ended"
        BY <1>2, <3>3 DEF AccumulateThrows, Goto
      <4>2. CASE b = Own
        BY <3>3, <4>2 DEF AccumulateThrows, Raise
      <4>3. CASE b # Own
        BY <2>3, <3>3, <4>1, <4>3 DEF AccumulateThrows
      <4> QED BY <4>2, <4>3
    <3> QED BY <2>4, <3>1, <3>2, <3>3
  <2>7. PICK x : /\ \A c \in Block : future'[c] = IF c = b THEN x ELSE future[c]
                 /\ x \in {Empty, Failed, Ready(Sum(Start(b), Stop(b)))}
                 /\ x # Empty => l = "ended"
                 /\ \/ main' \in {"threw", "unwind", "terminated"}
                    \/ b = Own /\ l = "ended" => x.state = "ready"
    <3>1. CASE future' = future /\ (l # "ended" \/ main' \in {"threw", "unwind", "terminated"})
      <4>1. \A c \in Block : future'[c] = IF c = b THEN Empty ELSE future[c]
        BY <2>5, <3>1
      <4> QED BY <3>1, <4>1
    <3>2. CASE l = "ended" /\ future' = [future EXCEPT ![b] = Failed] /\ b # Own
      BY <1>2, <3>2, Outcomes
    <3>3. CASE l = "ended" /\ future' = [future EXCEPT ![b] = Ready(Sum(Start(b), Stop(b)))]
      BY <1>2, <3>3, Outcomes
    <3> QED BY <2>6, <3>1, <3>2, <3>3
  <2>8. \A c \in Block : future'[c] \in {Empty, Failed, Ready(Sum(Start(c), Stop(c)))}
                         /\ (future'[c] # Empty => at'[c] = "ended")
    BY <1>3, <2>3, <2>7
  <2>9. \A c \in Thread : c < got => future'[c].state = "ready"
    BY <1>2, <1>3, <2>5, <2>7, Outcomes
  <2>10. main' \in {"own", "join", "gather"} /\ at'[Own] = "ended" => future'[Own].state = "ready"
    <3>1. SUFFICES ASSUME main' = main, main \in {"own", "join", "gather"}, at'[Own] = "ended"
                   PROVE  future'[Own].state = "ready"
      BY <2>1
    <3>2. Own \in Block
      BY <1>2, <3>1 DEF Order
    <3> QED BY <1>3, <2>3, <2>7, <3>1, <3>2
  <2>11. (main' = "join" /\ kind \notin {"plain", "packaged"}) \/ (main' = "own" /\ kind = "catching")
           => got' = Own
    BY <1>3, <2>1
  <2> QED BY <1>1, <2>1, <2>8, <2>9, <2>10, <2>11 DEF Accumulated
<1>5. ASSUME future' = future, at' = at, got' = got, main' \notin {"own", "join", "gather"}
      PROVE  Accumulated'
  BY <1>1, <1>3, <1>5 DEF Accumulated
<1>6. CASE EmptyRange \/ Answer
  BY <1>5, <1>6 DEF EmptyRange, Answer, IInv, Phases, Accumulators
<1>7. CASE SpawnThrows \/ PoolGrowthFails \/ GetThrows \/ ResultThrows \/ AnswerThrows
  BY <1>5, <1>7 DEF SpawnThrows, PoolGrowthFails, GetThrows, ResultThrows, AnswerThrows, Raise
<1>8. CASE SpawnThread
  <2>1. PICK b \in Thread, l \in {"queued", "start"} : at[b] = "none" /\ at' = [at EXCEPT ![b] = l]
    BY <1>8 DEF SpawnThread, Started
  <2>2. \A c \in Block : at'[c] = IF c = b THEN l ELSE at[c]
    BY <1>2, <2>1
  <2>3. future' = future /\ got' = got /\ main = "spawn" /\ main' = main
    BY <1>8 DEF SpawnThread
  <2> QED BY <1>1, <1>2, <1>3, <2>1, <2>2, <2>3 DEF Accumulated
<1>9. CASE GetFuture
  <2>1. /\ got \in Thread /\ future[got].state = "ready" /\ got' = got + 1 /\ main = "gather"
        /\ future' = future /\ at' = at /\ main' = main
    BY <1>9 DEF GetFuture
  <2>2. got \in Nat /\ \A b \in Thread : b \in Nat
    BY <2>1 DEF Thread
  <2>3. \A b \in Thread : b < got + 1 => future[b].state = "ready"
    <3>1. \A b \in Thread : b < got + 1 => b < got \/ b = got
      BY <2>2
    <3> QED BY <1>3, <2>1, <3>1
  <2> QED BY <1>1, <1>3, <2>1, <2>3 DEF Accumulated
<1>10. CASE UnwindJoins
  <2>1. /\ \A c \in Block : at'[c] = IF at[c] = "queued" THEN "none" ELSE at[c]
        /\ main' = "threw" /\ future' = future /\ got' = got
    BY <1>10 DEF UnwindJoins
  <2> QED BY <1>1, <1>3, <2>1 DEF Accumulated
<1>11. CASE NextPhase
  <2>1. /\ PhaseDone /\ main' = After(main) /\ future' = future /\ got' = got
        /\ main' = "own" => at' = [at EXCEPT ![Own] = "start"]
        /\ main' # "own" => at' = at
    BY <1>11 DEF NextPhase
  <2>2. main \in {"spawn", "own", "join", "gather"} /\ length > 0
    BY <2>1 DEF PhaseDone, Order
  <2>3. main' = "own" => at[Own] = "none"
    <3>1. main' = "own" => main = "spawn" \/ (main = "gather" /\ kind = "catching")
      BY <2>1, <2>2 DEF After, PlainOrder, PackagedOrder, CatchingOrder, GuardedOrder,
        Accumulators
    <3>2. Own \in Block \ Thread
      BY <1>2, <2>2
    <3> QED BY <3>1, <3>2 DEF Order
  <2>4. \A c \in Block : at'[c] = IF main' = "own" /\ c = Own THEN "start" ELSE at[c]
    BY <1>2, <2>1
  <2>5. \A c \in Block : future[c] # Empty => at'[c] = "ended"
    BY <1>3, <2>3, <2>4
  <2>6. main' \in {"own", "join", "gather"} /\ at'[Own] = "ended" => future[Own].state = "ready"
    <3>1. main = "spawn" => at[Own] = "none"
      <4>1. Own \in Block \ Thread
        BY <1>2, <2>2
      <4> QED BY <4>1 DEF Order
    <3>2. Own \in Block
      BY <1>2, <2>2
    <3> QED BY <1>3, <2>2, <2>4, <3>1, <3>2
  <2>7. (main' = "join" /\ kind \notin {"plain", "packaged"}) \/ (main' = "own" /\ kind = "catching")
          => got = Own
    <3>1. CASE main \in {"spawn", "join"}
      BY <2>1, <3>1 DEF After, PlainOrder, PackagedOrder, CatchingOrder, GuardedOrder,
        Accumulators
    <3>2. CASE main = "own"
      <4>1. kind # "catching" /\ kind \notin {"plain", "packaged"} => main' = "gather"
        BY <2>1, <3>2 DEF After, GuardedOrder, Accumulators
      <4>2. kind = "catching" => main' = "join"
        BY <2>1, <3>2 DEF After, CatchingOrder
      <4> QED BY <1>3, <3>2, <4>1, <4>2
    <3>3. CASE main = "gather"
      BY <2>1, <3>3 DEF PhaseDone
    <3> QED BY <2>2, <3>1, <3>2, <3>3
  <2> QED BY <1>1, <1>3, <2>1, <2>5, <2>6, <2>7 DEF Accumulated
<1>12. CASE UNCHANGED vars
  BY <1>1, <1>3, <1>12 DEF vars, Accumulated
<1> QED
  BY <1>4, <1>6, <1>7, <1>8, <1>9, <1>10, <1>11, <1>12 DEF Next, Caller, Proceed, Over

(***************************************************************************)
(* parallel_find                                                           *)
(***************************************************************************)
(* The call does not return any more. *)
Thrown == main \in {"threw", "unwind", "terminated"}

(* How far the search of a block has come. *)
SearchedBlock(b) ==
  /\ pos[b] \in Start(b) .. Stop(b) + 1
  /\ \A i \in Start(b) .. pos[b] - 1 : i \notin matches
  /\ at[b] \in {"check", "found", "set_value"} => pos[b] \in matches
  /\ at[b] \in {"set_value", "set_exception"} => done_flag
  /\ at[b] = "ended" => done_flag \/ pos[b] = Stop(b) + 1 \/ Thrown

(* A search has seen all items before pos, and passes on matches only. *)
Searched == kind = "find" =>
  /\ \A b \in Block : SearchedBlock(b)
  /\ promise \in {Empty, Failed} \cup {Ready(<<m>>) : m \in matches}

(* What the steps of the caller do to the labels. *)
LEMMA CallerMoves ==
  ASSUME IInv, [Next]_vars, Caller
  PROVE  \A b \in Block : at'[b] \in {at[b], "none", "queued", "start"}
<1>1. /\ at \in [Block -> Label] /\ Thread \subseteq Block
  BY OwnOrThread DEF IInv, Typing
<1>2. CASE SpawnThread
  <2>1. PICK b \in Thread :
          at' = [at EXCEPT ![b] = IF kind = "pooled" THEN "queued" ELSE "start"]
    BY <1>2 DEF SpawnThread
  <2> QED BY <1>1, <2>1
<1>3. CASE NextPhase
  <2>1. at' = at \/ at' = [at EXCEPT ![Own] = "start"]
    BY <1>3 DEF NextPhase
  <2> QED BY <1>1, <2>1
<1>4. CASE UnwindJoins
  BY <1>1, <1>4 DEF UnwindJoins
<1>5. CASE EmptyRange \/ SpawnThrows \/ PoolGrowthFails \/ GetFuture \/ GetThrows \/ ResultThrows
           \/ Answer \/ AnswerThrows
  BY <1>5 DEF EmptyRange, SpawnThrows, PoolGrowthFails, GetFuture, GetThrows, ResultThrows,
        Answer, AnswerThrows
<1> QED
  BY <1>2, <1>3, <1>4, <1>5 DEF Caller, Proceed

(* An exception on its way ends the call. *)
LEMMA StaysThrown ==
  ASSUME [Next]_vars, IInv, Thrown
  PROVE  Thrown'
<1>1. ASSUME NEW b \in Block, Work(b) PROVE Thrown'
  BY <1>1, WorkMoves DEF Thrown
<1>2. CASE Caller
  BY <1>2 DEF Thrown, Caller, Proceed, EmptyRange, SpawnThread, SpawnThrows, PoolGrowthFails, NextPhase,
    PhaseDone, GetFuture, GetThrows, ResultThrows, Answer, AnswerThrows, UnwindJoins, Raise
<1>3. CASE UNCHANGED vars
  BY <1>3 DEF Thrown, vars
<1> QED
  BY <1>1, <1>2, <1>3 DEF Next, Over

(* The steps of a search. *)
LEMMA SearchedStep ==
  ASSUME IInv, TypeOK, Labels, Searched, [Next]_vars
  PROVE  Searched'
<1> SUFFICES ASSUME kind = "find" PROVE Searched'
  BY Constants DEF Searched
<1>1. /\ kind' = kind /\ Block' = Block /\ matches' = matches
      /\ \A b \in Block : Start(b)' = Start(b) /\ Stop(b)' = Stop(b)
  BY Constants, SameBlocks
<1>2. at \in [Block -> Label] /\ pos \in [Block -> 1 .. length + 1] /\ done_flag \in BOOLEAN
  BY DEF TypeOK
<1>3. /\ \A b \in Block : SearchedBlock(b)
      /\ promise \in {Empty, Failed} \cup {Ready(<<m>>) : m \in matches}
  BY DEF Searched
<1>4. ASSUME NEW b \in Block,
             pos'[b] = pos[b], done_flag => done_flag',
             at'[b] \in {at[b], "none", "queued", "start"}
      PROVE  SearchedBlock(b)'
  BY <1>1, <1>3, <1>4, StaysThrown DEF SearchedBlock
<1>5. ASSUME NEW b \in Block, Work(b) PROVE Searched'
  <2>1. PICK l \in Label \ {"none", "queued"} : at' = [at EXCEPT ![b] = l]
    BY <1>5, WorkMoves
  <2>2. \A c \in Block : at'[c] = IF c = b THEN l ELSE at[c]
    BY <1>2, <2>1
  <2>3. MatchThrows(b) \/ Look(b) \/ LookThrows(b) \/ Check(b) \/ SetFlag(b) \/ SetPromise(b)
    BY <1>5 DEF Work, Take, Accumulate, AccumulateThrows, SumBlock, AddToLast, Publish,
      Spread, ChunkThrows, Labels, Accumulators
  <2>4. /\ done_flag => done_flag'
        /\ \A c \in Block \ {b} : pos'[c] = pos[c]
    BY <1>2, <2>3 DEF MatchThrows, Look, LookThrows, Check, SetFlag, SetPromise, search
  <2>5. \A c \in Block \ {b} : SearchedBlock(c)'
    BY <1>4, <2>2, <2>4
  <2>6. SearchedBlock(b)
    BY <1>3
  <2>7. PICK s, e : s = Start(b) /\ e = Stop(b)
    OBVIOUS
  <2>8. /\ s \in Nat /\ e \in Nat
        /\ pos[b] \in s .. e + 1 /\ \A i \in s .. pos[b] - 1 : i \notin matches
    <3>1. length \in Nat \ {0} /\ hardware \in Nat
      BY NoBlocks DEF IInv, Typing
    <3> QED BY <2>6, <2>7, <3>1, BlockBounds DEF SearchedBlock
  <2>9. ASSUME pos'[b] \in s .. e + 1,
               \A i \in s .. pos'[b] - 1 : i \notin matches,
               l \in {"check", "found", "set_value"} => pos'[b] \in matches,
               l \in {"set_value", "set_exception"} => done_flag',
               l = "ended" => done_flag' \/ pos'[b] = e + 1 \/ Thrown'
        PROVE  SearchedBlock(b)'
    BY <1>1, <2>2, <2>7, <2>9 DEF SearchedBlock
  <2>10. ASSUME Look(b) PROVE SearchedBlock(b)'
    <3>1. CASE at'[b] = "ended" /\ pos' = pos /\ done_flag' = done_flag
               /\ (pos[b] > e \/ done_flag)
      BY <2>2, <2>7, <2>8, <2>9, <3>1
    <3>2. CASE at'[b] = "check" /\ pos' = pos /\ pos[b] \in matches
      BY <2>2, <2>8, <2>9, <3>2
    <3>3. CASE at'[b] = "start" /\ pos' = [pos EXCEPT ![b] = @ + 1] /\ pos[b] \notin matches
               /\ ~ (pos[b] > e)
      <4>1. PICK p : p = pos[b]
        OBVIOUS
      <4>2. pos'[b] = p + 1
        BY <1>2, <3>3, <4>1
      <4>3. p + 1 \in s .. e + 1
        BY <2>8, <3>3, <4>1
      <4>4. \A i \in s .. p : i \notin matches
        <5>1. \A i \in s .. p : i \in s .. p - 1 \/ i = p
          BY <2>8, <4>1
        <5> QED BY <2>8, <3>3, <4>1, <5>1
      <4>5. pos'[b] \in s .. e + 1 /\ \A i \in s .. pos'[b] - 1 : i \notin matches
        <5>1. PICK q : q = pos'[b]
          OBVIOUS
        <5>2. q = p + 1 /\ q \in s .. e + 1 /\ q - 1 = p
          BY <2>8, <4>1, <4>2, <4>3, <5>1
        <5> QED BY <4>4, <5>1, <5>2
      <4>6. l = "start"
        BY <2>2, <3>3
      <4> QED BY <2>9, <4>5, <4>6
    <3> QED BY <1>2, <2>7, <2>10, <3>1, <3>2, <3>3 DEF Look, Goto
  <2>11. ASSUME LookThrows(b) PROVE SearchedBlock(b)'
    <3>1. at'[b] = "catch" /\ pos' = pos /\ done_flag' = done_flag
      BY <1>2, <2>11 DEF LookThrows, Goto, search
    <3> QED BY <2>2, <2>8, <2>9, <3>1
  <2>12. ASSUME Check(b) PROVE SearchedBlock(b)'
    <3>1. /\ at[b] = "check" /\ pos' = pos /\ done_flag' = done_flag
          /\ at'[b] = IF done_flag THEN "ended" ELSE "found"
      BY <1>2, <2>12 DEF Check, Goto, search
    <3> QED BY <2>2, <2>6, <2>8, <2>9, <3>1 DEF SearchedBlock
  <2>13. ASSUME SetFlag(b) PROVE SearchedBlock(b)'
    <3>1. /\ at[b] \in {"found", "catch"} /\ pos' = pos /\ done_flag' = TRUE
          /\ at'[b] = IF at[b] = "found" THEN "set_value" ELSE "set_exception"
      BY <1>2, <2>13 DEF SetFlag, Goto, search
    <3> QED BY <2>2, <2>6, <2>8, <2>9, <3>1 DEF SearchedBlock
  <2>14. ASSUME SetPromise(b) PROVE SearchedBlock(b)'
    <3>1. /\ at[b] \in {"set_value", "set_exception"} /\ pos' = pos
          /\ done_flag' = done_flag /\ at'[b] = "ended"
      BY <1>2, <2>14 DEF SetPromise, Goto, search
    <3> QED BY <2>2, <2>6, <2>8, <2>9, <3>1 DEF SearchedBlock
  <2>17. ASSUME MatchThrows(b) PROVE SearchedBlock(b)'
    <3>1. pos' = pos /\ at'[b] = "ended" /\ Thrown'
      BY <1>2, <2>17 DEF MatchThrows, Goto, search, Raise, Thrown
    <3> QED BY <2>2, <2>8, <2>9, <3>1
  <2>15. SearchedBlock(b)'
    BY <2>3, <2>10, <2>11, <2>12, <2>13, <2>14, <2>17
  <2>16. promise' \in {Empty, Failed} \cup {Ready(<<m>>) : m \in matches}
    <3>1. CASE SetPromise(b)
      <4>1. at[b] = "set_value" => pos[b] \in matches
        BY <2>6 DEF SearchedBlock
      <4> QED BY <1>3, <3>1, <4>1 DEF SetPromise
    <3>2. CASE ~ SetPromise(b)
      BY <1>3, <2>3, <3>2 DEF MatchThrows, Look, LookThrows, Check, SetFlag, search
    <3> QED BY <3>1, <3>2
  <2> QED BY <1>1, <2>5, <2>15, <2>16 DEF Searched
<1>6. CASE Caller
  <2>1. search' = search
    BY <1>6 DEF Caller, Proceed, EmptyRange, SpawnThread, SpawnThrows, PoolGrowthFails, NextPhase,
          GetFuture,
      GetThrows, ResultThrows, Answer, AnswerThrows, UnwindJoins, search
  <2>2. \A b \in Block : SearchedBlock(b)'
    BY <1>4, <1>6, <2>1, CallerMoves DEF search
  <2> QED BY <1>1, <1>3, <2>1, <2>2 DEF Searched, search
<1>7. CASE UNCHANGED vars
  <2>1. search' = search /\ at' = at
    BY <1>7 DEF vars
  <2>2. \A b \in Block : SearchedBlock(b)'
    BY <1>4, <2>1 DEF search
  <2> QED BY <1>1, <1>3, <2>1, <2>2 DEF Searched, search
<1> QED
  BY <1>5, <1>6, <1>7 DEF Next, Over

(***************************************************************************)
(* parallel_partial_sum                                                    *)
(***************************************************************************)
Complete(i)     == SumsUpTo(array[i], i)
Passed(b)       == future[b].state = "ready"
PassedBefore(b) == \A c \in 0 .. b - 1 : Passed(c)

(* The items of the block hold the sums of the block alone. *)
Alone(b, items) == \A i \in items : array[i] = Sum(Start(b), i)

(* How far the partial sums of a block have come: which of its items are
   complete, and that whoever has a complete last item has got it from blocks
   that have passed on theirs. *)
SummedBlock(b) ==
  /\ future[b] # Empty => at[b] \in {"spread", "ended"}
  /\ Passed(b) => b # Own /\ Complete(Stop(b)) /\ future[b].sum = array[Stop(b)]
  /\ Passed(b) \/ at[b] \in {"publish", "spread"} => PassedBefore(b)
  /\ at[b] = "await" => b # 0 /\ Alone(b, Start(b) .. Stop(b))
  /\ at[b] \in {"publish", "spread"} => Complete(Stop(b))
  /\ at[b] \in {"publish", "spread"} /\ b # 0 => Alone(b, Start(b) .. Stop(b) - 1)
  /\ at[b] = "publish" => b # Own
  /\ at[b] = "publish" /\ b = 0 => \A i \in Start(b) .. Stop(b) : Complete(i)
  /\ at[b] = "spread" => b # 0
  /\ Passed(b) /\ at[b] = "ended" /\ main # "terminated" =>
       \A i \in Start(b) .. Stop(b) : Complete(i)

(* The caller's own block, which is the last one, has got its sums. *)
OwnSummed ==
  main \in {"own", "join"} /\ at[Own] = "ended" =>
    PassedBefore(Own) /\ \A i \in Start(Own) .. Stop(Own) : Complete(i)

Summed == kind = "partial_sum" => OwnSummed /\ \A b \in Block : SummedBlock(b)

(* A block that a step does not touch. *)
LEMMA SummedOther ==
  ASSUME IInv, [Next]_vars, length > 0, NEW c \in Block, SummedBlock(c),
         future'[c] = future[c], main = "terminated" => main' = "terminated",
         at'[c] = at[c] \/ (at[c] = "none" /\ at'[c] = "start"),
         \A i \in Start(c) .. Stop(c) : array'[i] = array[i],
         \A b \in Block : Passed(b) => Passed(b)'
  PROVE  SummedBlock(c)'
<1>1. Own' = Own /\ Start(c)' = Start(c) /\ Stop(c)' = Stop(c)
  BY SameBlocks
<1>2. /\ Block = 0 .. Own /\ Own \in Nat /\ Start(c) \in Nat /\ Stop(c) \in Start(c) .. length
  BY BlockBounds DEF IInv, Typing
<1>3. /\ Stop(c) \in Start(c) .. Stop(c)
      /\ \A i \in Start(c) .. Stop(c) - 1 : i \in Start(c) .. Stop(c)
  BY <1>2
<1>4. Passed(c)' <=> Passed(c)
  BY DEF Passed
<1>5. PassedBefore(c) => PassedBefore(c)'
  <2>1. \A d \in 0 .. c - 1 : d \in Block
    BY <1>2
  <2> QED BY <2>1 DEF PassedBefore
<1>6. \A i \in Start(c) .. Stop(c) : Complete(i)' <=> Complete(i)
  BY DEF Complete
<1>7. /\ Alone(c, Start(c) .. Stop(c))' <=> Alone(c, Start(c) .. Stop(c))
      /\ Alone(c, Start(c) .. Stop(c) - 1)' <=> Alone(c, Start(c) .. Stop(c) - 1)
  BY <1>1, <1>3 DEF Alone
<1>8. CASE at'[c] = at[c]
  BY <1>1, <1>3, <1>4, <1>5, <1>6, <1>7, <1>8 DEF SummedBlock
<1>9. CASE at[c] = "none" /\ at'[c] = "start"
  <2>1. future'[c] = Empty /\ ~ Passed(c)'
    BY <1>9, Outcomes DEF SummedBlock, Passed
  <2> QED BY <1>9, <2>1 DEF SummedBlock
<1> QED
  BY <1>8, <1>9

(* What the steps of the work on a block of 8.11 need to know. *)
LEMMA SumFacts ==
  ASSUME IInv, TypeOK, Order, Summed, [Next]_vars, kind = "partial_sum", NEW b \in Block, Work(b)
  PROVE  /\ SummedBlock(b) /\ OwnSummed /\ \A c \in Block : SummedBlock(c)
         /\ length \in Nat \ {0} /\ hardware \in Nat /\ Own \in Block /\ 0 \in Block
         /\ Own' = Own /\ Block' = Block /\ kind' = kind
         /\ \A c \in Block : Start(c)' = Start(c) /\ Stop(c)' = Stop(c)
         /\ Start(b) \in 1 .. length /\ Stop(b) \in Start(b) .. length
         /\ Start(b) .. Stop(b) \subseteq Item
         /\ b \in Nat /\ (b # 0 => b - 1 \in Block /\ b - 1 \in Nat /\ Start(b) - 1 = Stop(b - 1))
         /\ at \in [Block -> Label] /\ DOMAIN future = Block /\ array \in [Item -> Seq(Item)]
         /\ Item' = Item /\ main # "terminated"
<1>1. length \in Nat \ {0} /\ hardware \in Nat
  BY NoBlocks DEF IInv, Typing
<1>2. /\ Own \in Nat /\ Block = 0 .. Own
      /\ Start(b) \in 1 .. length /\ Stop(b) \in Start(b) .. length
      /\ b # 0 => Start(b) = Stop(b - 1) + 1 /\ b - 1 \in Block
  BY <1>1, BlockBounds
<1>3. SummedBlock(b) /\ OwnSummed /\ \A c \in Block : SummedBlock(c)
  BY DEF Summed
<1>4. at \in [Block -> Label] /\ DOMAIN future = Block /\ array \in [Item -> Seq(Item)]
  BY DEF TypeOK
<1>5. /\ Own' = Own /\ Block' = Block /\ kind' = kind /\ Item' = Item
      /\ \A c \in Block : Start(c)' = Start(c) /\ Stop(c)' = Stop(c)
  BY Constants, SameBlocks DEF Item
<1>6. main # "terminated"
  BY DEF Work, Running
<1>7. Start(b) .. Stop(b) \subseteq Item
  BY <1>1, <1>2 DEF Item
<1>8. b # 0 => b - 1 \in Nat /\ Start(b) - 1 = Stop(b - 1)
  <2>1. b # 0 => Stop(b - 1) \in Nat
    <3>1. ASSUME b # 0 PROVE b - 1 \in Block
      BY <1>2, <3>1
    <3>2. \A c \in Block : Start(c) \in 1 .. length /\ Stop(c) \in Start(c) .. length
      BY <1>1, BlockBounds
    <3> QED BY <1>1, <3>1, <3>2
  <2> QED BY <1>2, <2>1
<1> QED
  BY <1>1, <1>2, <1>3, <1>4, <1>5, <1>6, <1>7, <1>8

(* A step of the work on block b keeps the other blocks as they are. *)
LEMMA SummedWork ==
  ASSUME IInv, TypeOK, Order, Summed, [Next]_vars, kind = "partial_sum", NEW b \in Block, Work(b),
         \A c \in Block \ {b} : future'[c] = future[c],
         \A i \in Item : i \notin Start(b) .. Stop(b) => array'[i] = array[i],
         Passed(b) => Passed(b)',
         SummedBlock(b)',
         b = Own /\ main' \in {"own", "join"} /\ at'[b] = "ended" =>
           PassedBefore(b)' /\ \A i \in Start(b) .. Stop(b) : Complete(i)'
  PROVE  Summed'
<1>1. /\ OwnSummed /\ \A c \in Block : SummedBlock(c)
      /\ length \in Nat \ {0} /\ hardware \in Nat /\ Own \in Block
      /\ Own' = Own /\ Block' = Block /\ kind' = kind
      /\ \A c \in Block : Start(c)' = Start(c) /\ Stop(c)' = Stop(c)
      /\ at \in [Block -> Label] /\ main # "terminated"
  BY SumFacts
<1>2. \E l \in Label : at' = [at EXCEPT ![b] = l]
  BY WorkMoves
<1>3. at[b] \notin {"none", "ended"} /\ (main' = main \/ main' \in {"threw", "unwind", "terminated"})
  BY WorkMoves
<1>4. \A c \in Block \ {b} : at'[c] = at[c]
  BY <1>1, <1>2
<1>5. \A c \in Block : Passed(c) => Passed(c)'
  BY DEF Passed
<1>6. ASSUME NEW c \in Block \ {b} PROVE \A i \in Start(c) .. Stop(c) : array'[i] = array[i]
  <2>1. /\ Block = 0 .. Own /\ Own \in Nat
        /\ \A d \in Block : Start(d) \in 1 .. length /\ Stop(d) \in Start(d) .. length
    BY <1>1, BlockBounds
  <2>2. c < b \/ b < c
    BY <2>1
  <2>3. Stop(c) < Start(b) \/ Stop(b) < Start(c)
    BY <1>1, <2>2, BlocksApart
  <2>4. ASSUME NEW i \in Start(c) .. Stop(c) PROVE i \in Item /\ i \notin Start(b) .. Stop(b)
    <3>1. PICK s, e, t, f : s = Start(c) /\ e = Stop(c) /\ t = Start(b) /\ f = Stop(b)
      OBVIOUS
    <3>2. s \in 1 .. length /\ e \in s .. length /\ t \in 1 .. length /\ f \in t .. length
      BY <2>1, <3>1
    <3>3. i \in s .. e /\ (e < t \/ f < s)
      BY <2>3, <3>1
    <3> QED BY <1>1, <3>1, <3>2, <3>3 DEF Item
  <2> QED BY <2>4
<1>7. ASSUME NEW c \in Block \ {b} PROVE SummedBlock(c)'
  BY <1>1, <1>4, <1>5, <1>6, SummedOther
<1>8. OwnSummed'
  <2>1. CASE b = Own
    BY <1>1, <2>1 DEF OwnSummed
  <2>2. CASE b # Own
    <3>1. SUFFICES ASSUME main' \in {"own", "join"}, at'[Own] = "ended" PROVE OwnSummed'
      BY <1>1 DEF OwnSummed
    <3>2. main \in {"own", "join"} /\ at[Own] = "ended"
      BY <1>1, <1>3, <1>4, <2>2, <3>1
    <3>3. PassedBefore(Own) /\ \A i \in Start(Own) .. Stop(Own) : Complete(i)
      BY <1>1, <3>2 DEF OwnSummed
    <3>4. \A d \in 0 .. Own - 1 : d \in Block
      BY <1>1, BlockBounds
    <3>5. PassedBefore(Own)'
      BY <1>1, <1>5, <3>3, <3>4 DEF PassedBefore
    <3>6. \A i \in Start(Own) .. Stop(Own) : Complete(i)'
      BY <1>1, <1>6, <2>2, <3>3 DEF Complete
    <3> QED BY <1>1, <3>5, <3>6 DEF OwnSummed
  <2> QED BY <2>1, <2>2
<1> QED
  BY <1>1, <1>7, <1>8 DEF Summed

(* The sequence of items that an end value is, is one of numbers. *)
LEMMA Numbers ==
  ASSUME NEW s \in Seq(Item)
  PROVE  s \in Seq(Nat)
<1>1. Item \subseteq Nat
  BY DEF Item
<1> QED
  BY <1>1, SeqMonotonic

(* process_chunk sums up its own block. *)
LEMMA SumBlockStep ==
  ASSUME IInv, TypeOK, Order, Summed, [Next]_vars, NEW b \in Block, Work(b), SumBlock(b)
  PROVE  Summed'
<1>0. kind = "partial_sum" /\ at[b] = "start" /\ future' = future /\ main' = main
  BY DEF SumBlock
<1>1. /\ SummedBlock(b)
      /\ length \in Nat \ {0} /\ hardware \in Nat /\ 0 \in Block
      /\ Own' = Own /\ Block' = Block
      /\ Start(b)' = Start(b) /\ Stop(b)' = Stop(b)
      /\ Start(b) \in 1 .. length /\ Stop(b) \in Start(b) .. length
      /\ Start(b) .. Stop(b) \subseteq Item
      /\ b \in Nat
      /\ at \in [Block -> Label] /\ DOMAIN future = Block
  BY <1>0, SumFacts
<1>2. /\ \A i \in Item : array'[i] = IF i \in Start(b) .. Stop(b) THEN Sum(Start(b), i) ELSE array[i]
      /\ at'[b] = IF b # 0 THEN "await" ELSE IF b # Own THEN "publish" ELSE "ended"
  BY <1>1 DEF SumBlock, Goto
<1>3. future[b] = Empty /\ ~ Passed(b) /\ ~ Passed(b)'
  BY <1>0, <1>1, Outcomes DEF SummedBlock, Passed
<1>4. Alone(b, Start(b) .. Stop(b))' /\ Stop(b) \in Start(b) .. Stop(b)
  BY <1>1, <1>2 DEF Alone
<1>5. b = 0 => \A i \in Start(b) .. Stop(b) : Complete(i)'
  <2>1. SUFFICES ASSUME b = 0, NEW i \in Start(b) .. Stop(b) PROVE Complete(i)'
    OBVIOUS
  <2>2. Start(b) = 1 /\ i \in Nat
    BY <1>1, <2>1, BlockBounds
  <2>3. array'[i] = Sum(1, i)
    BY <1>1, <1>2, <2>2
  <2> QED BY <2>2, <2>3, FirstSum DEF Complete
<1>6. b = 0 => PassedBefore(b)'
  BY DEF PassedBefore
<1>7. SummedBlock(b)'
  BY <1>0, <1>1, <1>2, <1>3, <1>4, <1>5, <1>6 DEF SummedBlock
<1> QED
  BY <1>0, <1>1, <1>2, <1>3, <1>5, <1>6, <1>7, SummedWork

(* What a block gets from the block before it. *)
LEMMA PreviousEndValue ==
  ASSUME IInv, TypeOK, Order, Summed, [Next]_vars, kind = "partial_sum", NEW b \in Block, Work(b),
         b # 0, Passed(b - 1)
  PROVE  /\ PassedBefore(b)
         /\ future[b - 1].sum \in Seq(Nat) /\ SumsUpTo(future[b - 1].sum, Start(b) - 1)
<1>1. /\ \A c \in Block : SummedBlock(c)
      /\ length \in Nat \ {0} /\ hardware \in Nat
      /\ b \in Nat /\ b - 1 \in Block /\ b - 1 \in Nat /\ Start(b) - 1 = Stop(b - 1)
      /\ array \in [Item -> Seq(Item)]
  BY SumFacts
<1>2. PICK c : c = b - 1
  OBVIOUS
<1>3. c \in Block /\ c \in Nat /\ c + 1 = b /\ SummedBlock(c) /\ Passed(c)
  BY <1>1, <1>2
<1>4. PassedBefore(c) /\ Complete(Stop(c)) /\ future[c].sum = array[Stop(c)]
  BY <1>3 DEF SummedBlock
<1>5. PassedBefore(b)
  <2>1. \A d \in 0 .. b - 1 : d \in 0 .. c - 1 \/ d = c
    BY <1>1, <1>2, <1>3
  <2> QED BY <1>3, <1>4, <2>1 DEF PassedBefore
<1>6. Stop(c) \in Item
  <2>1. Start(c) \in 1 .. length /\ Stop(c) \in Start(c) .. length
    BY <1>1, <1>3, BlockBounds
  <2> QED BY <1>1, <2>1 DEF Item
<1>7. array[Stop(c)] \in Seq(Nat)
  BY <1>1, <1>6, Numbers
<1>8. SumsUpTo(array[Stop(c)], Stop(c))
  BY <1>4 DEF Complete
<1>9. /\ future[b - 1].sum = array[Stop(c)] /\ Start(b) - 1 = Stop(c)
  BY <1>1, <1>2, <1>4
<1> QED
  BY <1>5, <1>7, <1>8, <1>9

(* Adding the previous end value completes the last item of the block. *)
LEMMA AddToLastStep ==
  ASSUME IInv, TypeOK, Order, Summed, [Next]_vars, kind = "partial_sum", NEW b \in Block, Work(b),
         AddToLast(b)
  PROVE  Summed'
<1>0. at[b] = "await" /\ future[b - 1].state = "ready" /\ future' = future /\ main' = main
  BY DEF AddToLast
<1>1. /\ SummedBlock(b) /\ \A c \in Block : SummedBlock(c)
      /\ length \in Nat \ {0} /\ hardware \in Nat
      /\ Own' = Own /\ Block' = Block
      /\ Start(b)' = Start(b) /\ Stop(b)' = Stop(b)
      /\ Start(b) \in 1 .. length /\ Stop(b) \in Start(b) .. length
      /\ Start(b) .. Stop(b) \subseteq Item
      /\ b \in Nat
      /\ at \in [Block -> Label] /\ DOMAIN future = Block /\ array \in [Item -> Seq(Item)]
  BY SumFacts
<1>2. PICK s, e, v : s = Start(b) /\ e = Stop(b) /\ v = future[b - 1].sum
  OBVIOUS
<1>3. /\ s \in Nat \ {0} /\ e \in Nat /\ s <= e
      /\ e \in Item /\ s .. e \subseteq Item
      /\ \A i \in s .. e - 1 : i \in s .. e /\ i \in Item /\ i # e
  BY <1>1, <1>2 DEF Item
<1>4. /\ future[b] = Empty /\ ~ Passed(b) /\ ~ Passed(b)'
      /\ b # 0 /\ \A i \in s .. e : array[i] = Sum(s, i)
  BY <1>0, <1>1, <1>2, Outcomes DEF SummedBlock, Passed, Alone
<1>5. /\ at'[b] = IF b # Own THEN "publish" ELSE "spread"
      /\ \A i \in Item : array'[i] = IF i = e THEN array[i] \o v ELSE array[i]
  BY <1>1, <1>2, <1>3 DEF AddToLast, Goto
<1>6. PassedBefore(b) /\ v \in Seq(Nat) /\ SumsUpTo(v, s - 1)
  BY <1>0, <1>2, <1>4, PreviousEndValue DEF Passed
<1>7. SumsUpTo(array'[e], e)
  <2>1. e \in s .. e
    BY <1>3
  <2>2. array'[e] = Sum(s, e) \o v
    BY <1>3, <1>4, <1>5, <2>1
  <2>3. SumsUpTo(Sum(s, e) \o v, e)
    BY <1>3, <1>6, AddedSum
  <2> QED BY <2>2, <2>3
<1>8. Complete(Stop(b))' /\ PassedBefore(b)'
  BY <1>0, <1>1, <1>2, <1>6, <1>7 DEF Complete, PassedBefore, Passed
<1>9. Alone(b, Start(b) .. Stop(b) - 1)'
  <2>1. \A i \in s .. e - 1 : array'[i] = Sum(s, i)
    BY <1>3, <1>4, <1>5
  <2> QED BY <1>1, <1>2, <2>1 DEF Alone
<1>10. SummedBlock(b)'
  BY <1>0, <1>1, <1>4, <1>5, <1>8, <1>9 DEF SummedBlock
<1>11. \A i \in Item : i \notin Start(b) .. Stop(b) => array'[i] = array[i]
  BY <1>2, <1>3, <1>5
<1> QED
  BY <1>0, <1>4, <1>5, <1>10, <1>11, SummedWork

(* The end value that is passed on is complete, and is the last item. *)
LEMMA PublishStep ==
  ASSUME IInv, TypeOK, Order, Summed, [Next]_vars, kind = "partial_sum", NEW b \in Block, Work(b),
         Publish(b)
  PROVE  Summed'
<1>0. at[b] = "publish" /\ array' = array /\ main' = main
  BY DEF Publish
<1>1. /\ SummedBlock(b)
      /\ length \in Nat \ {0} /\ hardware \in Nat
      /\ Own' = Own /\ Block' = Block
      /\ Start(b)' = Start(b) /\ Stop(b)' = Stop(b)
      /\ Start(b) \in 1 .. length /\ Stop(b) \in Start(b) .. length
      /\ b \in Nat
      /\ at \in [Block -> Label] /\ DOMAIN future = Block
      /\ Block = 0 .. Own /\ Own \in Nat
  BY SumFacts, BlockBounds
<1>2. /\ at'[b] = IF b # 0 THEN "spread" ELSE "ended"
      /\ \A c \in Block : future'[c] = IF c = b THEN Ready(array[Stop(b)]) ELSE future[c]
  BY <1>1 DEF Publish, Goto
<1>3. /\ b # Own /\ PassedBefore(b) /\ Complete(Stop(b))
      /\ b # 0 => Alone(b, Start(b) .. Stop(b) - 1)
      /\ b = 0 => \A i \in Start(b) .. Stop(b) : Complete(i)
  BY <1>0, <1>1 DEF SummedBlock
<1>4. Passed(b)' /\ future'[b].sum = array'[Stop(b)] /\ future'[b] # Empty
  BY <1>0, <1>2, Outcomes DEF Passed
<1>5. PassedBefore(b)'
  <2>1. \A d \in 0 .. b - 1 : d \in Block /\ d # b
    BY <1>1
  <2> QED BY <1>2, <1>3, <2>1 DEF PassedBefore, Passed
<1>6. /\ Complete(Stop(b))'
      /\ b # 0 => Alone(b, Start(b) .. Stop(b) - 1)'
      /\ b = 0 => \A i \in Start(b) .. Stop(b) : Complete(i)'
  BY <1>0, <1>1, <1>3 DEF Complete, Alone
<1>7. SummedBlock(b)'
  BY <1>1, <1>2, <1>3, <1>4, <1>5, <1>6 DEF SummedBlock
<1> QED
  BY <1>0, <1>2, <1>3, <1>4, <1>7, SummedWork

(* The other items of the block are completed. *)
LEMMA SpreadStep ==
  ASSUME IInv, TypeOK, Order, Summed, [Next]_vars, kind = "partial_sum", NEW b \in Block, Work(b),
         Spread(b)
  PROVE  Summed'
<1>0. at[b] = "spread" /\ future' = future /\ main' = main
  BY DEF Spread
<1>1. /\ SummedBlock(b) /\ \A c \in Block : SummedBlock(c)
      /\ length \in Nat \ {0} /\ hardware \in Nat
      /\ Own' = Own /\ Block' = Block
      /\ Start(b)' = Start(b) /\ Stop(b)' = Stop(b)
      /\ Start(b) \in 1 .. length /\ Stop(b) \in Start(b) .. length
      /\ Start(b) .. Stop(b) \subseteq Item
      /\ b \in Nat
      /\ at \in [Block -> Label] /\ DOMAIN future = Block /\ array \in [Item -> Seq(Item)]
  BY SumFacts
<1>2. PICK s, e, v : s = Start(b) /\ e = Stop(b) /\ v = future[b - 1].sum
  OBVIOUS
<1>3. /\ s \in Nat \ {0} /\ e \in Nat /\ s <= e
      /\ e \in Item /\ s .. e \subseteq Item
      /\ \A i \in s .. e : i = e \/ i \in s .. e - 1
      /\ e \notin s .. e - 1 /\ \A i \in s .. e - 1 : i \in s .. e
  BY <1>1, <1>2 DEF Item
<1>4. /\ b # 0 /\ PassedBefore(b) /\ Complete(Stop(b))
      /\ \A i \in s .. e - 1 : array[i] = Sum(s, i)
      /\ Passed(b) => b # Own /\ future[b].sum = array[Stop(b)]
  BY <1>0, <1>1, <1>2 DEF SummedBlock, Alone
<1>5. /\ at'[b] = "ended"
      /\ \A i \in Item : array'[i] = IF i \in s .. e - 1 THEN array[i] \o v ELSE array[i]
  BY <1>1, <1>2 DEF Spread, Goto
<1>6. v \in Seq(Nat) /\ SumsUpTo(v, s - 1)
  <2>1. b - 1 \in 0 .. b - 1
    BY <1>1, <1>4
  <2>2. Passed(b - 1)
    BY <1>4, <2>1 DEF PassedBefore
  <2> QED BY <1>2, <1>4, <2>2, PreviousEndValue
<1>7. array'[e] = array[e] /\ array'[Stop(b)] = array[Stop(b)]
  BY <1>2, <1>3, <1>5
<1>8. \A i \in s .. e : SumsUpTo(array'[i], i)
  <2>1. ASSUME NEW i \in s .. e - 1 PROVE SumsUpTo(array'[i], i)
    <3>1. array'[i] = Sum(s, i) \o v
      <4>1. i \in Item
        BY <1>3
      <4> QED BY <1>4, <1>5, <4>1
    <3>2. i \in Nat /\ s <= i
      BY <1>3
    <3> QED BY <1>3, <1>6, <3>1, <3>2, AddedSum
  <2>2. SumsUpTo(array'[e], e)
    BY <1>2, <1>4, <1>7 DEF Complete
  <2> QED BY <1>3, <2>1, <2>2
<1>9. /\ \A i \in Start(b) .. Stop(b) : Complete(i)'
      /\ Complete(Stop(b))'
  <2>1. e \in s .. e
    BY <1>3
  <2> QED BY <1>1, <1>2, <1>8, <2>1 DEF Complete
<1>10. PassedBefore(b)' /\ (Passed(b)' <=> Passed(b))
  BY <1>0, <1>4 DEF PassedBefore, Passed
<1>11. SummedBlock(b)'
  BY <1>0, <1>1, <1>4, <1>5, <1>7, <1>9, <1>10 DEF SummedBlock
<1>12. \A i \in Item : i \notin Start(b) .. Stop(b) => array'[i] = array[i]
  BY <1>2, <1>3, <1>5
<1> QED
  BY <1>0, <1>9, <1>10, <1>11, <1>12, SummedWork

(* An exception leaves the block as it is, and no complete end value behind
   that others could take for one. *)
LEMMA ChunkThrowsStep ==
  ASSUME IInv, TypeOK, Order, Summed, [Next]_vars, kind = "partial_sum", NEW b \in Block, Work(b),
         ChunkThrows(b)
  PROVE  Summed'
<1>0. array' = array
  BY DEF ChunkThrows
<1>1. /\ SummedBlock(b)
      /\ Own' = Own /\ Block' = Block
      /\ Start(b)' = Start(b) /\ Stop(b)' = Stop(b)
      /\ at \in [Block -> Label] /\ DOMAIN future = Block
      /\ Block = 0 .. Own /\ Own \in Nat
  BY SumFacts, BlockBounds
<1>2. at'[b] = "ended" /\ at[b] \in {"start", "await", "publish", "spread"}
  BY <1>1 DEF ChunkThrows, Goto
<1>3. /\ b = Own => main' \in {"threw", "unwind", "terminated"} /\ future' = future
      /\ b # Own /\ at[b] = "spread" => main' = "terminated" /\ future' = future
      /\ b # Own /\ at[b] # "spread" => main' = main /\ future' = [future EXCEPT ![b] = Failed]
  BY DEF ChunkThrows, Raise
<1>4. Passed(b) => b # Own /\ at[b] = "spread" /\ PassedBefore(b) /\ Complete(Stop(b))
                   /\ future[b].sum = array[Stop(b)]
  BY <1>1, <1>2, Outcomes DEF SummedBlock, Passed
<1>5. /\ \A c \in Block \ {b} : future'[c] = future[c]
      /\ Passed(b)' => future'[b] = future[b] /\ main' = "terminated" /\ Passed(b)
      /\ Passed(b) => Passed(b)'
  <2>1. CASE future' = future
    BY <1>2, <1>3, <1>4, <2>1 DEF Passed
  <2>2. CASE b # Own /\ at[b] # "spread" /\ future' = [future EXCEPT ![b] = Failed]
    BY <1>1, <1>4, <2>2, Outcomes DEF Passed
  <2> QED BY <1>3, <2>1, <2>2
<1>6. PassedBefore(b) => PassedBefore(b)'
  <2>1. \A d \in 0 .. b - 1 : d \in Block \ {b}
    BY <1>1
  <2> QED BY <1>5, <2>1 DEF PassedBefore, Passed
<1>7. SummedBlock(b)'
  BY <1>0, <1>1, <1>2, <1>4, <1>5, <1>6 DEF SummedBlock, Complete
<1>8. ~ (b = Own /\ main' \in {"own", "join"})
  BY <1>3
<1> QED
  BY <1>0, <1>5, <1>7, <1>8, SummedWork

(* The steps of the caller of parallel_partial_sum. *)
LEMMA SummedCaller ==
  ASSUME IInv, TypeOK, Order, Labels, Summed, [Next]_vars, kind = "partial_sum",
         Caller \/ UNCHANGED vars
  PROVE  Summed'
<1>1. /\ kind' = kind /\ length' = length /\ Own' = Own /\ Block' = Block
      /\ \A b \in Block : Start(b)' = Start(b) /\ Stop(b)' = Stop(b)
      /\ \A b \in Thread : b # Own
      /\ length \in Nat /\ hardware \in Nat /\ Thread \subseteq Block
      /\ at \in [Block -> Label]
  BY Constants, SameBlocks, OwnOrThread DEF IInv, Typing, Thread
<1>2. Order'
  BY OrderStep
<1>3. OwnSummed /\ \A b \in Block : SummedBlock(b)
  BY DEF Summed
<1>4. CASE length = 0
  <2>1. Block = {} /\ main' \notin {"own", "join"}
    BY <1>1, <1>2, <1>4, NoBlocks DEF Order
  <2> QED BY <1>1, <2>1 DEF Summed, OwnSummed
<1>5. CASE length # 0
  <2>1. Own \in Block /\ Own \in Nat /\ Block = 0 .. Own
    BY <1>1, <1>5, BlockBounds
  <2>2. UNCHANGED vars \/ (future' = future /\ array' = array /\ main # "terminated")
    BY DEF Caller, Proceed, EmptyRange, SpawnThread, SpawnThrows, PoolGrowthFails, NextPhase, GetFuture,
          GetThrows, ResultThrows,
      Answer, AnswerThrows, UnwindJoins, vars, PhaseDone
  <2>3. /\ future' = future /\ array' = array
        /\ main = "terminated" => main' = "terminated"
    BY <2>2 DEF vars
  <2>4. /\ \A b \in Block : at'[b] = at[b] \/ (at[b] = "none" /\ at'[b] = "start")
        /\ main' \in {"own", "join"} /\ at'[Own] = "ended" =>
             main \in {"own", "join"} /\ at[Own] = "ended"
    <3>1. CASE SpawnThread
      <4>1. main = "spawn" /\ main' = main
        BY <3>1 DEF SpawnThread
      <4>2. PICK b \in Thread : at[b] = "none" /\ at' = [at EXCEPT ![b] = "start"]
        BY <3>1 DEF SpawnThread, Started
      <4> QED BY <1>1, <4>1, <4>2
    <3>2. CASE NextPhase
      <4>1. /\ PhaseDone /\ main' = SumOrder[main]
            /\ main' = "own" => at' = [at EXCEPT ![Own] = "start"]
            /\ main' # "own" => at' = at
        BY <3>2 DEF NextPhase, After
      <4>2. main \in {"spawn", "own", "join"}
        BY <4>1 DEF PhaseDone, IInv, Phases, Accumulators
      <4>3. main' = "own" => at[Own] = "none"
        <5>1. main' = "own" => main = "spawn"
          BY <4>1, <4>2 DEF SumOrder
        <5>2. Own \in Block \ Thread
          BY <1>1, <2>1
        <5> QED BY <5>1, <5>2 DEF Order
      <4>4. main' = "join" => main = "own" /\ at[Own] = "ended"
        BY <4>1, <4>2 DEF SumOrder, PhaseDone
      <4>5. \A b \in Block : at'[b] = IF main' = "own" /\ b = Own THEN "start" ELSE at[b]
        BY <1>1, <4>1
      <4> QED BY <2>1, <4>3, <4>4, <4>5
    <3>3. CASE UnwindJoins
      <4>1. \A b \in Block : at[b] # "queued"
        BY DEF Labels
      <4> QED BY <1>1, <3>3, <4>1 DEF UnwindJoins
    <3>4. CASE EmptyRange \/ SpawnThrows \/ PoolGrowthFails \/ GetFuture \/ GetThrows
          \/ ResultThrows
           \/ Answer \/ AnswerThrows
      BY <3>4 DEF EmptyRange, SpawnThrows, PoolGrowthFails, GetFuture, GetThrows, ResultThrows,
            Answer, AnswerThrows, Raise,
        IInv, Phases, Accumulators
    <3>5. CASE UNCHANGED vars
      BY <3>5 DEF vars
    <3> QED BY <3>1, <3>2, <3>3, <3>4, <3>5 DEF Caller, Proceed
  <2>5. \A b \in Block : Passed(b) => Passed(b)'
    BY <2>3 DEF Passed
  <2>6. ASSUME NEW b \in Block PROVE SummedBlock(b)'
    BY <1>1, <1>3, <1>5, <2>3, <2>4, <2>5, SummedOther
  <2>7. OwnSummed'
    <3>1. SUFFICES ASSUME main' \in {"own", "join"}, at'[Own] = "ended" PROVE OwnSummed'
      BY <1>1 DEF OwnSummed
    <3>2. PassedBefore(Own) /\ \A i \in Start(Own) .. Stop(Own) : Complete(i)
      BY <1>3, <2>4, <3>1 DEF OwnSummed
    <3>3. PassedBefore(Own)' /\ \A i \in Start(Own) .. Stop(Own) : Complete(i)'
      BY <1>1, <2>3, <3>2 DEF PassedBefore, Passed, Complete
    <3> QED BY <1>1, <2>1, <3>3 DEF OwnSummed
  <2> QED BY <1>1, <2>6, <2>7 DEF Summed
<1> QED
  BY <1>4, <1>5

(* The steps of parallel_partial_sum. *)
LEMMA SummedStep ==
  ASSUME IInv, TypeOK, Order, Labels, Summed, [Next]_vars
  PROVE  Summed'
<1> SUFFICES ASSUME kind = "partial_sum" PROVE Summed'
  BY Constants DEF Summed
<1>1. ASSUME NEW b \in Block, Work(b) PROVE Summed'
  <2>1. SumBlock(b) \/ AddToLast(b) \/ Publish(b) \/ Spread(b) \/ ChunkThrows(b)
    BY <1>1 DEF Work, Take, Accumulate, AccumulateThrows, MatchThrows, Look, LookThrows, Check,
          SetFlag,
      SetPromise, Labels, Accumulators
  <2> QED BY <1>1, <2>1, SumBlockStep, AddToLastStep, PublishStep, SpreadStep, ChunkThrowsStep
<1> QED
  BY <1>1, SummedCaller DEF Next, Over

(* A call that has returned stays as it is. *)
LEMMA ReturnedStays ==
  ASSUME main = "returned", [Next]_vars
  PROVE  UNCHANGED vars
BY DEF Next, Over, Work, Running, Caller, Proceed, EmptyRange, SpawnThread, SpawnThrows, PoolGrowthFails,
      NextPhase,
  GetFuture, GetThrows, ResultThrows, Answer, AnswerThrows, UnwindJoins, PhaseDone

(* What the call returns. *)
LEMMA ResultStep ==
  ASSUME IInv, TypeOK, Order, Labels, Accumulated, Searched, Summed, SameAsSequential, [Next]_vars
  PROVE  SameAsSequential'
<1>1. /\ kind' = kind /\ length' = length /\ hardware' = hardware /\ matches' = matches
      /\ Item' = Item
  BY Constants DEF Item
<1>2. CASE main = "returned"
  <2>1. main' = main /\ result' = result /\ array' = array
    BY <1>2, ReturnedStays DEF vars
  <2> QED BY <1>1, <1>2, <2>1 DEF SameAsSequential, SumsUpTo
<1>3. CASE main # "returned" /\ main' # "returned"
  BY <1>3 DEF SameAsSequential
<1>4. CASE main # "returned" /\ main' = "returned"
  <2>1. EmptyRange \/ Answer \/ NextPhase
    <3>1. ASSUME NEW b \in Block, Work(b) PROVE FALSE
      BY <1>4, <3>1, WorkMoves
    <3> QED BY <1>4, <3>1 DEF Next, Over, vars, Caller, Proceed, SpawnThread, SpawnThrows,
          PoolGrowthFails, GetFuture,
          GetThrows, ResultThrows, AnswerThrows, Raise, UnwindJoins
  <2>2. kind \in Accumulators \cup {"find", "partial_sum"}
    BY DEF IInv, Typing, AllKinds
  <2>3. kind \in Accumulators => kind \notin {"find", "partial_sum"}
    BY DEF Accumulators
  <2>4. CASE EmptyRange
    <3>1. length = 0 /\ result' = Ready(IF kind = "find" THEN <<length + 1>> ELSE <<>>)
      BY <2>4 DEF EmptyRange
    <3>2. Item = {} /\ Sum(1, length) = <<>> /\ matches = {}
      BY <3>1 DEF Item, Sum, TypeOK
    <3> QED BY <1>1, <2>2, <2>3, <3>1, <3>2 DEF SameAsSequential
  <2>5. CASE Answer
    <3>1. /\ main = "answer" /\ kind = "find" /\ (done_flag => promise.state = "ready")
          /\ result' = IF done_flag THEN promise ELSE Ready(<<length + 1>>)
      BY <2>5 DEF Answer, IInv, Phases
    <3>2. CASE done_flag
      <4>1. \E m \in matches : promise = Ready(<<m>>)
        BY <3>1, <3>2, Outcomes DEF Searched
      <4> QED BY <1>1, <2>3, <3>1, <3>2, <4>1 DEF SameAsSequential
    <3>3. CASE ~ done_flag
      <4>1. length \in Nat \ {0} /\ hardware \in Nat /\ matches \subseteq Item
        BY <3>1 DEF Order, IInv, Typing, TypeOK
      <4>2. \A b \in Block : at[b] = "ended"
        BY <3>1, OwnOrThread DEF Order, IInv, Typing, Joined
      <4>3. ASSUME NEW i \in matches PROVE FALSE
        <5>1. PICK b \in Block : i \in Start(b) .. Stop(b)
          BY <4>1, BlocksCover
        <5>2. /\ pos[b] = Stop(b) + 1 /\ \A j \in Start(b) .. pos[b] - 1 : j \notin matches
          BY <3>1, <3>3, <4>2 DEF Searched, SearchedBlock, Thrown
        <5>3. Start(b) \in Nat /\ Stop(b) \in Nat
          BY <4>1, BlockBounds
        <5> QED BY <5>1, <5>2, <5>3
      <4> QED BY <1>1, <2>3, <3>1, <3>3, <4>3 DEF SameAsSequential
    <3> QED BY <3>2, <3>3
  <2>6. CASE NextPhase
    <3>1. /\ PhaseDone /\ main' = After(main)
          /\ result' = Ready(IF kind \in Accumulators THEN Total ELSE <<>>)
          /\ array' = array
      BY <1>4, <2>6 DEF NextPhase
    <3>2. main \in {"join", "gather"}
      BY <1>4, <3>1 DEF PhaseDone, After, PlainOrder, PackagedOrder, CatchingOrder, GuardedOrder,
        FindOrder, SumOrder, IInv, Typing, AllKinds, Accumulators
    <3>3. length \in Nat \ {0} /\ hardware \in Nat
      BY <3>2 DEF Order, IInv, Typing
    <3>4. /\ Own \in Block /\ Own \in Nat /\ Block = 0 .. Own /\ Thread = 0 .. Own - 1
          /\ \A b \in Block : b \in Thread \/ b = Own
      BY <3>3, BlockBounds, OwnOrThread
    <3>5. CASE kind \in Accumulators
      <4>1. main = "gather" => kind \in {"plain", "packaged"}
        BY <1>4, <3>1, <3>5 DEF After, CatchingOrder, GuardedOrder, Accumulators
      <4>2. at[Own] = "ended"
        BY <3>2, <4>1 DEF Order
      <4>3. got = Own
        <5>1. main = "join" => kind \notin {"plain", "packaged"}
          BY <1>4, <3>1 DEF After, PlainOrder, PackagedOrder
        <5>2. main = "gather" => got = Own
          BY <3>1 DEF PhaseDone
        <5> QED BY <3>2, <3>5, <5>1, <5>2 DEF Accumulated
      <4>4. \A b \in Block : future[b].state = "ready"
        <5>1. future[Own].state = "ready"
          BY <3>2, <3>5, <4>2 DEF Accumulated
        <5>2. \A b \in Thread : future[b].state = "ready"
          <6>1. \A b \in Thread : b < got
            BY <3>4, <4>3
          <6> QED BY <3>5, <6>1 DEF Accumulated
        <5> QED BY <3>4, <5>1, <5>2
      <4>5. \A b \in Block : future[b].sum = Sum(Start(b), Stop(b))
        BY <3>5, <4>4, Outcomes DEF Accumulated
      <4>6. Total = Sum(1, length)
        BY <3>3, <4>5, TotalSum
      <4> QED BY <1>1, <2>3, <3>1, <3>5, <4>6 DEF SameAsSequential
    <3>6. CASE kind = "find"
      BY <1>4, <3>1, <3>2, <3>6 DEF After, FindOrder, IInv, Phases, Accumulators
    <3>7. CASE kind = "partial_sum"
      <4>1. main = "join"
        BY <3>2, <3>7 DEF IInv, Phases, Accumulators
      <4>2. at[Own] = "ended" /\ \A b \in Thread : at[b] = "ended"
        BY <3>1, <4>1 DEF Order, PhaseDone
      <4>3. PassedBefore(Own) /\ \A i \in Start(Own) .. Stop(Own) : Complete(i)
        BY <3>7, <4>1, <4>2 DEF Summed, OwnSummed
      <4>4. \A b \in Thread : Passed(b)
        BY <3>4, <4>3 DEF PassedBefore
      <4>5. \A b \in Block : \A i \in Start(b) .. Stop(b) : Complete(i)
        <5>1. \A b \in Thread : \A i \in Start(b) .. Stop(b) : Complete(i)
          BY <3>4, <3>7, <4>1, <4>2, <4>4 DEF Summed, SummedBlock
        <5> QED BY <3>4, <4>3, <5>1
      <4>6. \A i \in Item : SumsUpTo(array[i], i)
        BY <3>3, <4>5, BlocksCover DEF Complete
      <4> QED BY <1>1, <2>3, <3>1, <3>7, <4>6 DEF SameAsSequential, SumsUpTo
    <3> QED BY <2>2, <3>5, <3>6, <3>7
  <2> QED BY <2>1, <2>4, <2>5, <2>6
<1> QED
  BY <1>2, <1>3, <1>4

(***************************************************************************)
(* Types, and the theorems                                                 *)
(***************************************************************************)
(* A sum of items of the range is a sequence of items. *)
LEMMA SumTyped ==
  ASSUME length \in Nat, NEW from \in Nat \ {0}, NEW to \in Nat, from <= to + 1, to <= length
  PROVE  Sum(from, to) \in Seq(Item)
<1>1. PICK n : n = to - from + 1
  OBVIOUS
<1>2. n \in Nat /\ Sum(from, to) = [i \in 1 .. n |-> from + i - 1]
  BY <1>1 DEF Sum
<1>3. \A i \in 1 .. n : from + i - 1 \in Item
  BY <1>1 DEF Item
<1> QED
  BY <1>2, <1>3

(* A sequence of items is an outcome's sequence, and so is the end of the range. *)
LEMMA OutcomeTyped ==
  ASSUME length \in 0 .. MaxLength
  PROVE  /\ Empty \in Outcome /\ Failed \in Outcome
         /\ \A s \in Seq(Item) : Ready(s) \in Outcome
         /\ \A i \in 1 .. length + 1 : Ready(<<i>>) \in Outcome
<1>0. MaxLength \in Nat
  BY ForkJoinAssumption
<1> DEFINE S == 1 .. MaxLength + 1
<1>1. <<>> \in Seq(S) /\ \A i \in S : <<i>> \in Seq(S)
  OBVIOUS
<1>2. Item \subseteq S /\ 1 .. length + 1 \subseteq S
  BY <1>0 DEF Item
<1>3. \A s \in Seq(Item) : s \in Seq(S)
  BY <1>2, SeqMonotonic
<1>4. Outcome = [state : {"empty", "failed", "ready"}, sum : Seq(S)]
  BY DEF Outcome
<1> HIDE DEF S
<1> QED
  BY <1>1, <1>2, <1>3, <1>4 DEF Empty, Failed, Ready

(* The variables of the work on a block keep their types. *)
LEMMA WorkTypes ==
  ASSUME IInv, TypeOK, Order, Labels, Summed, [Next]_vars, NEW b \in Block, Work(b)
  PROVE  /\ pos' \in [Block -> 1 .. length + 1]
         /\ done_flag' \in BOOLEAN /\ promise' \in Outcome
         /\ array' \in [Item -> Seq(Item)]
         /\ future' \in [Block -> Outcome]
<1>1. /\ pos \in [Block -> 1 .. length + 1] /\ done_flag \in BOOLEAN /\ promise \in Outcome
      /\ array \in [Item -> Seq(Item)] /\ future \in [Block -> Outcome]
      /\ length \in 0 .. MaxLength
  BY DEF TypeOK
<1>2. length \in Nat \ {0} /\ hardware \in Nat
  BY NoBlocks DEF IInv, Typing
<1>3. /\ Start(b) \in 1 .. length /\ Stop(b) \in Start(b) .. length
      /\ b # 0 => b - 1 \in Block
  BY <1>2, BlockBounds
<1>4. Stop(b) \in Item /\ \A i \in Start(b) .. Stop(b) : Sum(Start(b), i) \in Seq(Item)
  <2>1. ASSUME NEW i \in Start(b) .. Stop(b) PROVE Sum(Start(b), i) \in Seq(Item)
    <3>1. /\ Start(b) \in Nat \ {0} /\ i \in Nat /\ Start(b) <= i + 1 /\ i <= length /\ length \in Nat
      BY <1>2, <1>3
    <3> QED BY <3>1, SumTyped, Zenon
  <2> QED BY <1>2, <1>3, <2>1 DEF Item
<1>5. CASE Take(b) \/ LookThrows(b) \/ Check(b) \/ SetFlag(b)
  BY <1>1, <1>5 DEF Take, LookThrows, Check, SetFlag, search
<1>6. CASE Look(b)
  <2>1. /\ UNCHANGED <<done_flag, promise, array, future>>
        /\ \/ pos' = pos
           \/ pos' = [pos EXCEPT ![b] = @ + 1] /\ ~ (pos[b] > Stop(b))
    BY <1>6 DEF Look, Goto
  <2>2. ~ (pos[b] > Stop(b)) => pos[b] + 1 \in 1 .. length + 1
    BY <1>1, <1>2, <1>3
  <2> QED BY <1>1, <2>1, <2>2
<1>7. CASE SetPromise(b)
  <2>1. promise' \in {promise, Ready(<<pos[b]>>), Failed}
    BY <1>7 DEF SetPromise
  <2>2. promise' \in Outcome
    BY <1>1, <2>1, OutcomeTyped
  <2> QED BY <1>1, <1>7, <2>2 DEF SetPromise
<1>8. CASE Accumulate(b)
  <2>1. future' = [future EXCEPT ![b] = Ready(Sum(Start(b), Stop(b)))]
    BY <1>8 DEF Accumulate
  <2>2. Ready(Sum(Start(b), Stop(b))) \in Outcome
    <3>1. Stop(b) \in Start(b) .. Stop(b)
      BY <1>3
    <3> QED BY <1>1, <1>4, <3>1, OutcomeTyped
  <2>3. future' \in [Block -> Outcome]
    BY <1>1, <2>1, <2>2
  <2> QED BY <1>1, <1>8, <2>3 DEF Accumulate, search
<1>9. CASE AccumulateThrows(b) \/ MatchThrows(b) \/ ChunkThrows(b)
  <2>1. future' = future \/ future' = [future EXCEPT ![b] = Failed]
    BY <1>9 DEF AccumulateThrows, MatchThrows, ChunkThrows
  <2>2. future' \in [Block -> Outcome]
    BY <1>1, <2>1, OutcomeTyped
  <2>3. UNCHANGED <<search, array>>
    BY <1>9 DEF AccumulateThrows, MatchThrows, ChunkThrows
  <2> QED BY <1>1, <2>2, <2>3 DEF search
<1>10. CASE SumBlock(b)
  <2>1. array' = [i \in Item |->
          IF i \in Start(b) .. Stop(b) THEN Sum(Start(b), i) ELSE array[i]]
    BY <1>10 DEF SumBlock
  <2>2. array' \in [Item -> Seq(Item)]
    BY <1>1, <1>4, <2>1
  <2> QED BY <1>1, <1>10, <2>2 DEF SumBlock, search
<1>11. ASSUME AddToLast(b) \/ Spread(b) PROVE future[b - 1].sum \in Seq(Item)
  <2>1. kind = "partial_sum"
    BY <1>11 DEF Labels, AddToLast, Spread
  <2>2. SummedBlock(b) /\ \A c \in Block : SummedBlock(c)
    BY <2>1 DEF Summed
  <2>3. b # 0 /\ Passed(b - 1)
    <3>1. CASE AddToLast(b)
      BY <2>2, <3>1 DEF AddToLast, SummedBlock, Passed
    <3>2. CASE Spread(b)
      <4>1. b # 0 /\ PassedBefore(b)
        BY <2>2, <3>2 DEF Spread, SummedBlock
      <4>2. b - 1 \in 0 .. b - 1
        BY <1>2, <4>1, BlockBounds
      <4> QED BY <4>1, <4>2 DEF PassedBefore
    <3> QED BY <1>11, <3>1, <3>2
  <2>4. PICK c : c = b - 1
    OBVIOUS
  <2>5. c \in Block /\ Passed(c)
    BY <1>3, <2>3, <2>4
  <2>6. future[c].sum = array[Stop(c)] /\ Stop(c) \in Item
    <3>1. Start(c) \in 1 .. length /\ Stop(c) \in Start(c) .. length
      BY <1>2, <2>5, BlockBounds
    <3> QED BY <1>2, <2>2, <2>5, <3>1 DEF SummedBlock, Item
  <2> QED BY <1>1, <2>4, <2>6
<1>12. CASE AddToLast(b)
  <2>1. array' = [array EXCEPT ![Stop(b)] = @ \o future[b - 1].sum]
    BY <1>12 DEF AddToLast
  <2>2. array[Stop(b)] \o future[b - 1].sum \in Seq(Item)
    BY <1>1, <1>4, <1>11, <1>12
  <2>3. array' \in [Item -> Seq(Item)]
    BY <1>1, <2>1, <2>2
  <2> QED BY <1>1, <1>12, <2>3 DEF AddToLast, search
<1>13. CASE Spread(b)
  <2>1. array' = [i \in Item |-> IF i \in Start(b) .. Stop(b) - 1
                                 THEN array[i] \o future[b - 1].sum ELSE array[i]]
    BY <1>13 DEF Spread
  <2>2. \A i \in Item : array[i] \o future[b - 1].sum \in Seq(Item)
    BY <1>1, <1>11, <1>13
  <2>3. array' \in [Item -> Seq(Item)]
    BY <1>1, <2>1, <2>2
  <2> QED BY <1>1, <1>13, <2>3 DEF Spread, search
<1>14. CASE Publish(b)
  <2>1. future' = [future EXCEPT ![b] = Ready(array[Stop(b)])]
    BY <1>14 DEF Publish
  <2>2. Ready(array[Stop(b)]) \in Outcome
    BY <1>1, <1>4, OutcomeTyped
  <2>3. future' \in [Block -> Outcome]
    BY <1>1, <2>1, <2>2
  <2> QED BY <1>1, <1>14, <2>3 DEF Publish, search
<1> QED
  BY <1>5, <1>6, <1>7, <1>8, <1>9, <1>10, <1>12, <1>13, <1>14 DEF Work

(* All variables keep their types. *)
LEMMA TypesStep ==
  ASSUME IInv, TypeOK, Order, Labels, Summed, [Next]_vars,
         IInv', Order', Workers', SameAsSequential'
  PROVE  TypeOK'
<1>1. /\ kind' = kind /\ length' = length /\ hardware' = hardware /\ matches' = matches
      /\ Item' = Item /\ Own' = Own /\ Block' = Block /\ Thread' = Thread
  BY Constants, SameBlocks DEF Item
<1>2. /\ kind \in Kinds /\ length \in 0 .. MaxLength /\ hardware \in 0 .. MaxHardware
      /\ matches \in SUBSET Item /\ length \in Nat /\ hardware \in Nat
      /\ promise \in Outcome /\ result \in Outcome /\ got \in 0 .. Own + 1
  BY DEF TypeOK, IInv, Typing
<1>3. main' \in {"spawn", "own", "join", "gather", "answer", "unwind",
                 "returned", "threw", "terminated"}
  BY DEF Order
<1>4. idle' \in 0 .. hardware
  <2>1. Busy' \in SUBSET Thread
    BY <1>1 DEF Busy
  <2>2. Cardinality(Busy') \in Nat
    BY <1>2, <2>1, BusyFinite
  <2> QED BY <1>1, <1>2, <2>2 DEF Workers
<1>5. at' \in [Block -> Label]
  BY <1>1 DEF IInv, Typing
<1>6. /\ pos' \in [Block -> 1 .. length + 1]
      /\ done_flag' \in BOOLEAN /\ promise' \in Outcome
      /\ array' \in [Item -> Seq(Item)]
      /\ future' \in [Block -> Outcome]
  <2>1. CASE \E b \in Block : Work(b)
    BY <2>1, WorkTypes
  <2>2. CASE Caller \/ UNCHANGED vars
    <3>1. UNCHANGED <<search, array, future>>
      BY <2>2 DEF Caller, Proceed, EmptyRange, SpawnThread, SpawnThrows, PoolGrowthFails, NextPhase,
            GetFuture, GetThrows, ResultThrows,
        Answer, AnswerThrows, UnwindJoins, vars
    <3> QED BY <3>1 DEF search, TypeOK
  <2> QED BY <2>1, <2>2 DEF Next, Over
<1>7. got' \in 0 .. Own + 1
  <2>1. CASE GetFuture
    <3>1. got \in Thread /\ got' = got + 1 /\ length \in Nat \ {0}
      BY <1>2, <2>1 DEF GetFuture, Order
    <3>2. Own \in Nat /\ Thread = 0 .. Own - 1
      BY <1>2, <3>1, BlockBounds
    <3> QED BY <3>1, <3>2
  <2>2. CASE ~ GetFuture
    <3>1. got' = got
      <4>1. ASSUME NEW b \in Block, Work(b) PROVE got' = got
        BY <4>1, WorkMoves
      <4> QED BY <2>2, <4>1 DEF Next, Over, Caller, Proceed, EmptyRange, SpawnThread, SpawnThrows,
            PoolGrowthFails, NextPhase,
            GetThrows, ResultThrows, Answer, AnswerThrows, UnwindJoins, vars
    <3> QED BY <1>2, <3>1
  <2> QED BY <2>1, <2>2
<1>8. result' \in Outcome
  <2>1. <<>> \in Seq(Item) /\ length + 1 \in 1 .. length + 1
    BY <1>2
  <2>2. Ready(<<>>) \in Outcome /\ Ready(<<length + 1>>) \in Outcome
    BY <1>2, <2>1, OutcomeTyped
  <2>3. CASE EmptyRange
    BY <2>2, <2>3 DEF EmptyRange
  <2>4. CASE Answer
    BY <1>2, <2>2, <2>4 DEF Answer
  <2>5. CASE NextPhase
    <3>1. \/ result' = result \/ result' = Ready(<<>>)
          \/ main' = "returned" /\ kind \in Accumulators
      BY <2>5 DEF NextPhase
    <3>2. CASE main' = "returned" /\ kind \in Accumulators
      <4>1. result' = Ready(Sum(1, length))
        BY <1>1, <3>2 DEF SameAsSequential, Accumulators
      <4>2. Sum(1, length) \in Seq(Item)
        BY <1>2, SumTyped
      <4> QED BY <1>2, <4>1, <4>2, OutcomeTyped
    <3> QED BY <1>2, <2>2, <3>1, <3>2
  <2>6. CASE ~ (EmptyRange \/ Answer \/ NextPhase)
    <3>1. result' = result
      <4>1. ASSUME NEW b \in Block, Work(b) PROVE result' = result
        BY <4>1, WorkMoves
      <4> QED BY <2>6, <4>1 DEF Next, Over, Caller, Proceed, SpawnThread, SpawnThrows, PoolGrowthFails,
            GetFuture,
            GetThrows, ResultThrows, AnswerThrows, UnwindJoins, vars
    <3> QED BY <1>2, <3>1
  <2> QED BY <2>3, <2>4, <2>5, <2>6
<1> QED
  BY <1>1, <1>2, <1>3, <1>4, <1>5, <1>6, <1>7, <1>8 DEF TypeOK

(* The inductive invariant of what the calls compute. *)
Results ==
  TypeOK /\ Order /\ Labels /\ Workers /\ Accumulated /\ Searched /\ Summed /\ SameAsSequential

LEMMA ResultsInit ==
  ASSUME Init
  PROVE  IInv /\ Results
<1>1. /\ kind \in AllKinds /\ kind \in Kinds /\ length \in Nat /\ hardware \in Nat
      /\ length \in 0 .. MaxLength /\ hardware \in 0 .. MaxHardware
      /\ main = "spawn" /\ got = 0 /\ idle = hardware /\ done_flag = FALSE
      /\ promise = Empty /\ result = Empty
  BY ForkJoinAssumption DEF Init
<1>2. /\ at \in [Block -> Label] /\ \A b \in Block : at[b] = "none"
      /\ \A b \in Block : pos[b] = Start(b)
      /\ DOMAIN pos = Block /\ DOMAIN future = Block /\ DOMAIN array = Item
      /\ pos = [b \in Block |-> Start(b)] /\ future = [b \in Block |-> Empty]
      /\ array = [i \in Item |-> <<i>>]
      /\ \A b \in Block : future[b] = Empty
  BY DEF Init, Label
<1>3. Thread \subseteq Block
  BY <1>1, OwnOrThread
<1>4. IInv
  BY <1>1, <1>2, <1>3 DEF IInv, Typing, Phases, OwnBlock, Joined, Published
<1>5. Order /\ Labels
  BY <1>1, <1>2 DEF Order, Labels
<1>6. Workers
  <2>1. Busy = {}
    BY <1>2, <1>3 DEF Busy
  <2> QED BY <1>1, <2>1, FS_EmptySet DEF Workers
<1>7. \A b \in Block : /\ b \in Nat /\ length > 0
                       /\ Start(b) \in 1 .. length /\ Stop(b) \in Start(b) .. length
  <2>1. CASE length = 0
    BY <1>1, <2>1, NoBlocks
  <2>2. CASE length # 0
    BY <1>1, <2>2, BlockBounds
  <2> QED BY <2>1, <2>2
<1>8. got \in 0 .. Own + 1
  <2>1. CASE length = 0
    BY <1>1, <2>1, NoBlocks
  <2>2. CASE length # 0
    BY <1>1, <2>2, BlockBounds
  <2> QED BY <2>1, <2>2
<1>9. Accumulated
  <2>1. \A b \in Thread : ~ (b < got)
    BY <1>1, <1>3, <1>7
  <2> QED BY <1>1, <1>2, <2>1 DEF Accumulated
<1>10. Searched
  <2>1. ASSUME NEW b \in Block PROVE SearchedBlock(b)
    <3>1. pos[b] = Start(b) /\ at[b] = "none" /\ Start(b) \in Start(b) .. Stop(b) + 1
          /\ Start(b) .. Start(b) - 1 = {}
      BY <1>2, <1>7
    <3> QED BY <3>1 DEF SearchedBlock
  <2> QED BY <1>1, <2>1 DEF Searched
<1>11. Summed
  <2>1. ASSUME NEW b \in Block PROVE SummedBlock(b)
    <3>1. future[b] = Empty /\ at[b] = "none" /\ ~ Passed(b)
      BY <1>2, Outcomes DEF Passed
    <3> QED BY <3>1 DEF SummedBlock
  <2> QED BY <1>1, <2>1 DEF Summed, OwnSummed
<1>12. SameAsSequential
  BY <1>1 DEF SameAsSequential
<1>13. TypeOK
  <2>1. Empty \in Outcome
    BY <1>1, OutcomeTyped
  <2>2. pos \in [Block -> 1 .. length + 1]
    <3>1. \A b \in Block : Start(b) \in 1 .. length + 1
      BY <1>1, <1>7
    <3> QED BY <1>2, <3>1
  <2>3. array \in [Item -> Seq(Item)]
    <3>1. \A i \in Item : <<i>> \in Seq(Item)
      OBVIOUS
    <3> QED BY <1>2, <3>1
  <2>4. future \in [Block -> Outcome]
    BY <1>2, <2>1
  <2>5. matches \in SUBSET Item
    BY DEF Init
  <2>6. idle \in 0 .. hardware
    BY <1>1
  <2> QED BY <1>1, <1>2, <1>8, <2>1, <2>2, <2>3, <2>4, <2>5, <2>6 DEF TypeOK
<1> QED
  BY <1>4, <1>5, <1>6, <1>9, <1>10, <1>11, <1>12, <1>13 DEF Results

(* What the calls compute and pass on, together with the safety of the threads. *)
THEOREM ResultsInvariance == Spec => [](IInv /\ Results)
<1>1. Init => IInv /\ Results
  BY ResultsInit
<1>2. IInv /\ Results /\ [Next]_vars => (IInv /\ Results)'
  <2> SUFFICES ASSUME IInv, Results, [Next]_vars PROVE (IInv /\ Results)'
    OBVIOUS
  <2>1. IInv'
    BY Preserved
  <2>2. Order' /\ Labels' /\ Workers' /\ Accumulated' /\ Searched' /\ Summed' /\ SameAsSequential'
    BY OrderStep, LabelsStep, WorkersStep, AccumulatedStep, SearchedStep, SummedStep, ResultStep
      DEF Results
  <2>3. TypeOK'
    BY <2>1, <2>2, TypesStep DEF Results
  <2> QED BY <2>1, <2>2, <2>3 DEF Results
<1> QED
  BY <1>1, <1>2, PTL DEF Spec

(* Every variable of every call has its type. *)
THEOREM TypeCorrect == Spec => []TypeOK
<1>1. Results => TypeOK
  BY DEF Results
<1> QED
  BY <1>1, ResultsInvariance, PTL

(* A call that returns has done what the sequential algorithm does. *)
THEOREM SequentialResults == Spec => []SameAsSequential
<1>1. Results => SameAsSequential
  BY DEF Results
<1> QED
  BY <1>1, ResultsInvariance, PTL

(* An end value that a block of 8.11 has passed on is complete and final. *)
THEOREM FinalEndValues == Spec => []EndValuesAreFinal
<1>1. Results => EndValuesAreFinal
  BY DEF Results, Summed, SummedBlock, Passed, Complete, EndValuesAreFinal
<1> QED
  BY <1>1, ResultsInvariance, PTL
=============================================================================
