----------------------------- MODULE PairwiseSum -----------------------------
(***************************************************************************)
(* parallel_partial_sum of "8.13 partial_sum_with_pairwise_update.cpp":    *)
(* one thread per item, which adds the item stride places before its own,  *)
(* with strides 1, 2, 4 ..., and a barrier between the steps.  Even steps  *)
(* read the range and write buffer, odd steps read buffer and write the    *)
(* range.  Each step of the barrier is one access to one of its atomics.   *)
(***************************************************************************)
EXTENDS Integers, Sequences

CONSTANTS
  Length,     (* of the range, at least 2, and the number of threads       *)
  Modulus     (* greater than Length: unsigned arithmetic is modulo this   *)

Thread == 0 .. Length - 1

VARIABLES
  range,         (* the items; a sum is the sequence of the items added    *)
  buffer,        (* value-initialised                                      *)
  step,          (* the local step of each thread; stride is 2^step        *)
  pc,            (* what each thread does next                             *)
  gen,           (* local to wait                                          *)
  fresh,         (* the value loaded from m_count for m_spaces             *)
  m_count, m_spaces, m_generation

arrays  == <<range, buffer>>
locals  == <<step, gen, fresh>>
atomics == <<m_count, m_spaces, m_generation>>
vars    == <<arrays, locals, pc, atomics>>

Init ==
  /\ range = [i \in Thread |-> <<i>>]
  /\ buffer = [i \in Thread |-> <<>>]
  /\ step = [i \in Thread |-> 0]
  /\ pc = [i \in Thread |-> "loop"]
  /\ gen = [i \in Thread |-> 0]
  /\ fresh = [i \in Thread |-> 0]
  /\ m_count = Length /\ m_spaces = Length /\ m_generation = 0

Goto(i, label) == pc' = [pc EXCEPT ![i] = label]
InLoop(i)      == 2 ^ step[i] <= i

(***************************************************************************)
(* process_element                                                         *)
(***************************************************************************)
(* dest = source + addend *)
Add(i) ==
  LET stride == 2 ^ step[i]
  IN /\ pc[i] = "loop" /\ InLoop(i)
     /\ IF step[i] % 2 = 0
        THEN buffer' = [buffer EXCEPT ![i] = range[i] \o range[i - stride]] /\ UNCHANGED range
        ELSE range' = [range EXCEPT ![i] = buffer[i] \o buffer[i - stride]] /\ UNCHANGED buffer
     /\ Goto(i, "load_generation")
     /\ UNCHANGED <<locals, atomics>>

(* The last step was an even one if update_source is set. *)
Finish(i) ==
  /\ pc[i] = "loop" /\ ~InLoop(i)
  /\ range' = [range EXCEPT ![i] = IF step[i] % 2 = 1 THEN buffer[i] ELSE @]
  /\ Goto(i, "decrement_count")
  /\ UNCHANGED <<buffer, locals, atomics>>

(***************************************************************************)
(* barrier::wait, in the loop, and done_waiting, after it                  *)
(***************************************************************************)
LoadGeneration(i) ==
  /\ pc[i] = "load_generation"
  /\ gen' = [gen EXCEPT ![i] = m_generation]
  /\ Goto(i, "decrement_spaces")
  /\ UNCHANGED <<arrays, step, fresh, atomics>>

DecrementCount(i) ==
  /\ pc[i] = "decrement_count"
  /\ m_count' = (m_count - 1) % Modulus
  /\ Goto(i, "decrement_spaces")
  /\ UNCHANGED <<arrays, locals, m_spaces, m_generation>>

DecrementSpaces(i) ==
  /\ pc[i] = "decrement_spaces"
  /\ m_spaces' = (m_spaces - 1) % Modulus
  /\ Goto(i, "test_spaces")
  /\ UNCHANGED <<arrays, locals, m_count, m_generation>>

TestSpaces(i) ==
  /\ pc[i] = "test_spaces"
  /\ Goto(i, IF m_spaces = 0 THEN "load_count" ELSE IF InLoop(i) THEN "spin" ELSE "ended")
  /\ UNCHANGED <<arrays, locals, atomics>>

LoadCount(i) ==
  /\ pc[i] = "load_count"
  /\ fresh' = [fresh EXCEPT ![i] = m_count]
  /\ Goto(i, "store_spaces")
  /\ UNCHANGED <<arrays, step, gen, atomics>>

StoreSpaces(i) ==
  /\ pc[i] = "store_spaces"
  /\ m_spaces' = fresh[i]
  /\ Goto(i, "increment_generation")
  /\ UNCHANGED <<arrays, locals, m_count, m_generation>>

(* The thread leaves wait for the next turn of its loop, or done_waiting. *)
Proceed(i) ==
  /\ Goto(i, IF InLoop(i) THEN "loop" ELSE "ended")
  /\ step' = [step EXCEPT ![i] = IF InLoop(i) THEN @ + 1 ELSE @]

IncrementGeneration(i) ==
  /\ pc[i] = "increment_generation"
  /\ m_generation' = (m_generation + 1) % Modulus
  /\ Proceed(i)
  /\ UNCHANGED <<arrays, gen, fresh, m_count, m_spaces>>

Spin(i) ==
  /\ pc[i] = "spin"
  /\ gen[i] # m_generation
  /\ Proceed(i)
  /\ UNCHANGED <<arrays, gen, fresh, atomics>>

(* All threads have been joined. *)
Ended == (\A i \in Thread : pc[i] = "ended") /\ UNCHANGED vars

Next ==
  \/ \E i \in Thread :
       \/ Add(i) \/ Finish(i)
       \/ LoadGeneration(i) \/ DecrementCount(i) \/ DecrementSpaces(i) \/ TestSpaces(i)
       \/ LoadCount(i) \/ StoreSpaces(i) \/ IncrementGeneration(i) \/ Spin(i)
  \/ Ended

Spec == Init /\ [][Next]_vars

-----------------------------------------------------------------------------
(* As long as a thread is in the barrier or before it, some thread can go on:
   those who spin are woken up by one who is still to arrive.  The barrier
   exists to hold threads back until all have arrived, and no longer. *)
NobodyIsStuck ==
  (\E i \in Thread : pc[i] # "ended") =>
    \E i \in Thread :
      \/ pc[i] \notin {"spin", "ended"}
      \/ pc[i] = "spin" /\ gen[i] # m_generation
=============================================================================
