--------------------------- MODULE TransactionPool ---------------------------
(***************************************************************************)
(* What the node promises about the transactions that are posted to it:    *)
(* blocks take them out of a pool, each once and in the order in which     *)
(* they were posted.  As long as nothing has failed none is lost, and a    *)
(* block takes the oldest; a failure may lose some, and what is lost or    *)
(* mined does not come back.                                               *)
(***************************************************************************)
EXTENDS Naturals, Sequences, FiniteSets

VARIABLES
  submitted, \* number of transactions that were posted; they are named 1, 2, ...
  pool,      \* those that may still be mined
  chain,     \* the transactions of each block
  intact     \* nothing has failed

poolVars == <<submitted, pool, chain, intact>>

Init == submitted = 0 /\ pool = {} /\ chain = <<>> /\ intact = TRUE

Submit ==
  /\ submitted' = submitted + 1
  /\ pool' = pool \cup {submitted + 1}
  /\ UNCHANGED <<chain, intact>>

\* The transactions of a set in the order in which they were posted.
InOrder(txs) ==
  {s \in [1 .. Cardinality(txs) -> txs] : \A i, j \in DOMAIN s : i < j => s[i] < s[j]}

Mine(txs) ==
  /\ intact => \A t \in txs, u \in pool \ txs : t < u
  /\ pool' = pool \ txs
  /\ \E s \in InOrder(txs) : chain' = Append(chain, s)
  /\ UNCHANGED <<submitted, intact>>

Fail ==
  /\ pool' \subseteq pool
  /\ intact' = FALSE
  /\ UNCHANGED <<submitted, chain>>

Next == Submit \/ Fail \/ \E txs \in SUBSET pool : Mine(txs)

Spec == Init /\ [][Next]_poolVars
=============================================================================
