---------------------------- MODULE MCMiningNode ----------------------------
(* Small instances of MiningNode for TLC. *)
EXTENDS MiningNode

\* State constraint: the properties that assume the stop protocol was not
\* defeated say nothing after a lapse, and lapses are never forgotten.
NoLapse == lapses = {}
=============================================================================
