--------------------------- MODULE VersionedState ---------------------------
(***************************************************************************)
(* What the contract state promises: every cell keeps what each block has  *)
(* written to it.  A set is atomic and belongs to the newest block of its  *)
(* cell or to a later one, so that it never changes what older blocks      *)
(* wrote; a revert forgets exactly what the blocks after the fork wrote.   *)
(***************************************************************************)
EXTENDS Naturals

CONSTANTS Cells, Blocks, Values, Nil

VARIABLE written  \* written[c][b] is what block b wrote to cell c, or Nil

Init == written = [c \in Cells |-> [b \in Blocks |-> Nil]]

Set(c, b, v) ==
  /\ \A a \in Blocks : a > b => written[c][a] = Nil
  /\ written' = [written EXCEPT ![c][b] = v]

RevertCell(c, b) ==
  written' = [written EXCEPT ![c] = [a \in Blocks |-> IF a > b THEN Nil ELSE @[a]]]

Next ==
  \E c \in Cells, b \in Blocks :
    RevertCell(c, b) \/ \E v \in Values : Set(c, b, v)

Spec == Init /\ [][Next]_written

\* What a reader of a cell gets: what the newest block that wrote it has written.
Latest(c) ==
  IF \A b \in Blocks : written[c][b] = Nil THEN Nil
  ELSE LET newest == CHOOSE b \in Blocks :
                       /\ written[c][b] # Nil
                       /\ \A a \in Blocks : a > b => written[c][a] = Nil
       IN  written[c][newest]
=============================================================================
