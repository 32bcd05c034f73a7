--------------------------- MODULE AbstractTable ---------------------------
(***************************************************************************)
(* What threadsafe_lookup_table of "6.11 thread_safe_lookup_table.cpp"     *)
(* promises its callers: one map.  A single-key operation takes effect in  *)
(* one step, get_map answers with the whole map of a single moment, and a  *)
(* result is handed over in a later step.  No bucket or lock is visible.   *)
(***************************************************************************)

CONSTANTS
  Thread,    (* the calling threads                                        *)
  Key,       (* the keys                                                   *)
  Value,     (* the values                                                 *)
  None,      (* the key is not in the map                                  *)
  Pending    (* the thread has no result to return                         *)

VARIABLES
  table,     (* the value of every key, or None                            *)
  hand       (* hand[t] is the result thread t has not returned yet        *)

vars == <<table, hand>>

Init ==
  /\ table = [k \in Key |-> None]
  /\ hand = [t \in Thread |-> Pending]

(* add_for_update_mapping: a new entry or a new value for the old one. *)
Store ==
  /\ \E k \in Key, v \in Value : table' = [table EXCEPT ![k] = v]
  /\ UNCHANGED hand

(* remove_mapping. *)
Erase ==
  /\ \E k \in Key : table' = [table EXCEPT ![k] = None]
  /\ UNCHANGED hand

(* value_for answers with the value of the key, or else with the default. *)
Lookup(t) ==
  /\ hand[t] = Pending
  /\ \E k \in Key, d \in Value :
       hand' = [hand EXCEPT ![t] = IF table[k] = None THEN d ELSE table[k]]
  /\ UNCHANGED table

(* get_map: every entry as it is at one moment. *)
Snapshot(t) ==
  /\ hand[t] = Pending
  /\ hand' = [hand EXCEPT ![t] = table]
  /\ UNCHANGED table

(* The call returns its result, or drops it for an exception. *)
Return(t) ==
  /\ hand[t] # Pending
  /\ hand' = [hand EXCEPT ![t] = Pending]
  /\ UNCHANGED table

Next == Store \/ Erase \/ \E t \in Thread : Lookup(t) \/ Snapshot(t) \/ Return(t)

Spec == Init /\ [][Next]_vars
=============================================================================
