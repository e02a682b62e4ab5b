---------------------------- MODULE MCBlockStore ----------------------------
(* Small instances of BlockStore for TLC. *)
EXTENDS BlockStore, TLC

CONSTANTS
  k, k_index, other,  \* keys
  v1, v2              \* values

\* No key ends in "_index".
NoNames == [key \in Keys |-> Nil]

\* The position hash of k has the name of the list of k_index.
SharedNames == [key \in Keys |-> IF key = k THEN k_index ELSE Nil]

Symmetry == Permutations(Writers) \cup Permutations({v1, v2})
=============================================================================
