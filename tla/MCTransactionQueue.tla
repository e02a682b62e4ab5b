------------------------- MODULE MCTransactionQueue -------------------------
(* Small instances of TransactionQueue for TLC. *)
EXTENDS TransactionQueue
=============================================================================
