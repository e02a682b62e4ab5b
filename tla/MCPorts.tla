------------------------------- MODULE MCPorts -------------------------------
(* Small instances of the programs behind ports and of the processes that talk *)
(* to them, for TLC.  They share no state; a behaviour exercises one of them,  *)
(* and the libp2p transport mostly in one direction or mostly in the other.    *)
EXTENDS RocksDBPort, Hashfactor, NativeAnswer, Libp2pSend

VARIABLE part   \* what is exercised

Hashes == {<<1, 1, 0>>, <<0, 1, 0>>, <<1, 0, 0>>}

vars == <<part, rocksVars, hashfactorVars, answerVars, libp2pVars>>

Init ==
  /\ part \in {"rocksdb", "hashfactor", "answer", "receive", "send"}
  /\ RocksInit /\ AnswerInit /\ Libp2pInit
  /\ IF part = "hashfactor" THEN HashfactorInit
     ELSE HashfactorInit /\ sha256 = [b \in DOMAIN sha256 |-> <<1, 1, 0>>]

Next ==
  \/ /\ part = "rocksdb" /\ RocksNext
     /\ UNCHANGED <<part, hashfactorVars, answerVars, libp2pVars>>
  \/ /\ part = "hashfactor" /\ HashfactorNext
     /\ UNCHANGED <<part, rocksVars, answerVars, libp2pVars>>
  \/ /\ part = "answer" /\ AnswerNext
     /\ UNCHANGED <<part, rocksVars, hashfactorVars, libp2pVars>>
  \/ /\ part = "receive" /\ Libp2pNext /\ asked' = 0 /\ Len(ends') + epoch' <= MaxFrames + 1
     /\ Cardinality(malformed') <= 1
     /\ UNCHANGED <<part, rocksVars, hashfactorVars, answerVars>>
  \/ /\ part = "send" /\ Libp2pNext /\ Len(ends') <= 1
     /\ UNCHANGED <<part, rocksVars, hashfactorVars, answerVars>>

Spec ==
  /\ Init /\ [][Next]_vars
  /\ RocksFairness /\ HashfactorFairness /\ Libp2pFairness
=============================================================================
