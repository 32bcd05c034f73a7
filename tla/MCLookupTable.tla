--------------------------- MODULE MCLookupTable ---------------------------
(* A finite instance of LookupTable for TLC. *)
EXTENDS LookupTable

CONSTANTS k1, k2, k3

(* Two keys share a bucket, the third has one of its own. *)
MCHasher == [k \in Key |-> IF k = k3 THEN 2 ELSE 1]
=============================================================================
