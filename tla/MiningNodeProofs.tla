-------------------------- MODULE MiningNodeProofs --------------------------
(***************************************************************************)
(* Proofs about MiningNode, for any set of numbers of peers' blocks and    *)
(* any number of mining rounds and failures: types, that the miner is      *)
(* never left idle, and that the stop protocol does what it is there for:  *)
(* while none of the lapses has happened, Block.apply has the stores to    *)
(* itself, there is one mining loop, and the rows are one history.         *)
(***************************************************************************)
EXTENDS MiningNode, FiniteSetTheorems, SequenceTheorems, TLAPS

-----------------------------------------------------------------------------
(* Mailboxes *)

\* RemoveAt takes one message out and keeps the order of the others.
LEMMA RemoveAtProperties ==
  ASSUME NEW S, NEW s \in Seq(S), NEW k \in DOMAIN s
  PROVE  /\ RemoveAt(s, k) \in Seq(S)
         /\ Len(RemoveAt(s, k)) = Len(s) - 1
         /\ \A j \in 1 .. (Len(s) - 1) :
              RemoveAt(s, k)[j] = IF j < k THEN s[j] ELSE s[j + 1]
<1> DEFINE a == SubSeq(s, 1, k - 1)
           b == SubSeq(s, k + 1, Len(s))
<1>1. k \in 1 .. Len(s) /\ Len(s) \in Nat /\ k \in Int
  OBVIOUS
<1>2. /\ a \in Seq(S) /\ Len(a) = k - 1
      /\ \A j \in 1 .. (k - 1) : a[j] = s[j]
  BY <1>1
<1>3. /\ b \in Seq(S) /\ Len(b) = Len(s) - k
      /\ \A j \in 1 .. (Len(s) - k) : b[j] = s[j + k]
  BY <1>1
<1>4. RemoveAt(s, k) = a \o b
  BY DEF RemoveAt
<1> HIDE DEF a, b
<1>5. /\ a \o b \in Seq(S) /\ Len(a \o b) = Len(s) - 1
      /\ \A j \in 1 .. (k - 1) : (a \o b)[j] = a[j]
      /\ \A j \in k .. (Len(s) - 1) : (a \o b)[j] = b[j - (k - 1)]
  BY <1>1, <1>2, <1>3
<1>6. ASSUME NEW j \in k .. (Len(s) - 1)
      PROVE  (a \o b)[j] = s[j + 1]
  <2>1. /\ j - (k - 1) \in 1 .. (Len(s) - k)
        /\ (j - (k - 1)) + k = j + 1
    BY <1>1
  <2> QED
    BY <1>3, <1>5, <2>1
<1>7. ASSUME NEW j \in 1 .. (Len(s) - 1)
      PROVE  (a \o b)[j] = IF j < k THEN s[j] ELSE s[j + 1]
  BY <1>1, <1>2, <1>5, <1>6
<1> QED
  BY <1>4, <1>5, <1>7

\* Append puts a message at the end.
LEMMA AppendLast ==
  ASSUME NEW S, NEW s \in Seq(S), NEW m \in S
  PROVE  /\ Append(s, m) \in Seq(S)
         /\ Len(Append(s, m)) = Len(s) + 1
         /\ Append(s, m)[Len(s) + 1] = m
         /\ \A j \in 1 .. Len(s) : Append(s, m)[j] = s[j]
OBVIOUS

\* Tail takes the first message out.
LEMMA TailShifts ==
  ASSUME NEW S, NEW s \in Seq(S), s # <<>>
  PROVE  /\ Tail(s) \in Seq(S)
         /\ Len(s) \in Nat /\ Len(s) >= 1 /\ Head(s) = s[1]
         /\ Len(Tail(s)) = Len(s) - 1
         /\ \A j \in 1 .. (Len(s) - 1) : Tail(s)[j] = s[j + 1]
OBVIOUS

-----------------------------------------------------------------------------
(* Type correctness *)

\* Block.best finds a row when there is one: the numbers have a greatest one.
\* (next_block_number is a number only because of this.)
BestExists ==
  chain # <<>> =>
    \E i \in DOMAIN chain : \A j \in DOMAIN chain : chain[j].number <= chain[i].number

\* next_block_number is a number, greater than that of every row.
LEMMA NextNumberIsNext ==
  ASSUME chain \in Seq(Blocks), BestExists
  PROVE  /\ NextNumber \in Nat
         /\ \A i \in DOMAIN chain : chain[i].number < NextNumber
<1>1. CASE chain = <<>>
  BY <1>1 DEF NextNumber
<1>2. CASE chain # <<>>
  <2> DEFINE N == {chain[i].number : i \in DOMAIN chain}
  <2>0. \A i \in DOMAIN chain : chain[i] \in Blocks
    BY ElementOfSeq
  <2>1. \A i \in DOMAIN chain : chain[i].number \in Nat
    BY <2>0 DEF Blocks
  <2>2. \E x \in N : \A y \in N : x >= y
    BY <1>2, <2>1 DEF BestExists
  <2>3. Max(N) \in N /\ \A y \in N : Max(N) >= y
    BY <2>2 DEF Max
  <2>4. NextNumber = Max(N) + 1
    BY <1>2 DEF NextNumber
  <2> HIDE DEF N
  <2>5. N \subseteq Nat /\ \A i \in DOMAIN chain : chain[i].number \in N
    BY <2>1 DEF N
  <2>6. Max(N) \in Nat
    BY <2>3, <2>5
  <2>7. \A i \in DOMAIN chain : chain[i].number \in Nat /\ chain[i].number <= Max(N)
    BY <2>3, <2>5, <2>6
  <2> QED
    BY <2>4, <2>6, <2>7
<1> QED
  BY <1>1, <1>2

\* A new row leaves a greatest number.
LEMMA AppendKeepsBest ==
  ASSUME chain \in Seq(Blocks), BestExists, NEW b \in Blocks,
         chain' = Append(chain, b)
  PROVE  BestExists'
<1>1. /\ Len(chain') = Len(chain) + 1 /\ chain'[Len(chain) + 1] = b
      /\ \A j \in 1 .. Len(chain) : chain'[j] = chain[j]
      /\ DOMAIN chain' = 1 .. (Len(chain) + 1)
      /\ chain' \in Seq(Blocks)
  BY AppendLast
<1>2. Len(chain) \in Nat /\ DOMAIN chain = 1 .. Len(chain)
  OBVIOUS
<1>0. \A j \in DOMAIN chain' : chain'[j] \in Blocks
  BY <1>1, ElementOfSeq
<1>3. \A j \in DOMAIN chain' : chain'[j].number \in Nat
  BY <1>0 DEF Blocks
<1>4. CASE chain = <<>>
  <2>1. \A j \in DOMAIN chain' : chain'[j].number <= chain'[1].number
    BY <1>1, <1>3, <1>4
  <2>2. 1 \in DOMAIN chain'
    BY <1>1, <1>2
  <2> QED
    BY <2>1, <2>2 DEF BestExists
<1>5. CASE chain # <<>>
  <2>1. PICK i \in DOMAIN chain : \A j \in DOMAIN chain : chain[j].number <= chain[i].number
    BY <1>5 DEF BestExists
  <2>2. i \in DOMAIN chain' /\ Len(chain) + 1 \in DOMAIN chain'
    BY <1>1, <1>2
  <2>3. CASE b.number <= chain[i].number
    <3>1. \A j \in DOMAIN chain' : chain'[j].number <= chain'[i].number
      BY <1>1, <1>2, <2>1, <2>3
    <3> QED
      BY <2>2, <3>1 DEF BestExists
  <2>4. CASE ~(b.number <= chain[i].number)
    <3>1. \A j \in DOMAIN chain' : chain'[j].number <= chain'[Len(chain) + 1].number
      BY <1>1, <1>2, <1>3, <2>1, <2>2, <2>4
    <3> QED
      BY <2>2, <3>1 DEF BestExists
  <2> QED
    BY <2>3, <2>4
<1> QED
  BY <1>4, <1>5

TypeInv == TypeOK /\ BestExists

\* The values that appear in the actions have their types.
LEMMA ConstantsTyped ==
  /\ NoBlock \in BlockIds /\ Unread \in Bases /\ NoWork \in Blocks
  /\ Stop \in Messages /\ Mine \in Messages /\ Log \in Messages
  /\ \A r \in Nat : Mined(r) \in BlockIds /\ Peer(r) \in BlockIds
  /\ \A p \in Ports : Answer(p) \in Messages
  /\ \A r \in Nat, h \in Nat : TxPort(r, h) \in Ports
  /\ \A r \in Nat : HashPort(r) \in Ports
BY DEF NoBlock, BlockIds, Unread, Bases, NoWork, Blocks, Stop, Mine, Log, Messages,
       Mined, Peer, Answer, Ports, TxPort, HashPort

\* The node has its type in the initial state.
LEMMA InitTypeInv == Init => TypeInv
BY ConstantsTyped
   DEF Init, TypeInv, TypeOK, BestExists, MinerPcs, P2PPcs, Inserting, Applying, Writing

\* The steps of Miner keep the types.
LEMMA MinerTypeInv == TypeInv /\ MinerNext => TypeInv'
<1> SUFFICES ASSUME TypeInv, MinerNext PROVE TypeInv'
  OBVIOUS
<1> USE ConstantsTyped DEF storeVars, p2pVars, logVars
<1>a. /\ chain \in Seq(Blocks) /\ mailbox \in Seq(Messages) /\ ports \subseteq Ports
      /\ round \in Nat /\ work \in Blocks /\ lapses \subseteq LapseKinds
      /\ BestExists /\ minerPc \in MinerPcs
  BY DEF TypeInv, TypeOK
<1>b. NextNumber \in Nat
  BY <1>a, NextNumberIsNext
<1>c. \A pc \in {"down", "init", "idle", "processing", "hashing",
                 "insert", "memory", "storage", "cast"} : pc \in MinerPcs
  BY DEF MinerPcs, Inserting
<1>d. chain' = chain => BestExists'
  BY <1>a DEF BestExists
<1>e. Append(mailbox, Mine) \in Seq(Messages)
  BY <1>a, AppendLast
<1>1. CASE MinerRestart
  <2>1. lapses' \subseteq LapseKinds
    BY <1>1, <1>a DEF MinerRestart, LapseKinds
  <2> QED
    BY <1>1, <1>c, <1>d, <2>1 DEF MinerRestart, TypeInv, TypeOK
<1>2. CASE MinerInit \/ MinerCasts
  BY <1>2, <1>c, <1>d, <1>e
     DEF MinerInit, MinerCasts, CastMineNextBlock, TypeInv, TypeOK
<1>3. CASE HandleStop
  BY <1>3, <1>a, <1>d, TailShifts DEF HandleStop, TypeInv, TypeOK
<1>4. CASE HandleStrayData \/ WrongAnswer
  <2>1. Dies /\ lapses' = lapses /\ faults' = faults /\ UNCHANGED logVars
    BY <1>4 DEF HandleStrayData, WrongAnswer
  <2>2. <<>> \in Seq(Messages) /\ {} \subseteq Ports
    OBVIOUS
  <2> QED
    BY <1>c, <1>d, <2>1, <2>2 DEF Dies, TypeInv, TypeOK
<1>5. CASE MineNextBlock
  <2>1. ports' \subseteq Ports /\ round' \in Nat
    BY <1>5, <1>a, <1>b DEF MineNextBlock
  <2>2. mailbox' \in Seq(Messages)
    BY <1>5, <1>a, TailShifts DEF MineNextBlock
  <2> QED
    BY <1>5, <1>c, <1>d, <2>1, <2>2 DEF MineNextBlock, TypeInv, TypeOK
<1>6. CASE ProcessingStopped \/ HashingStopped
  <2>1. mailbox' \in Seq(Messages)
    BY <1>6, <1>a, RemoveAtProperties DEF ProcessingStopped, HashingStopped
  <2>2. ports' \subseteq Ports
    BY <1>6, <1>a DEF ProcessingStopped, HashingStopped, PortClose
  <2>3. work' \in Blocks
    BY <1>6, <1>a DEF ProcessingStopped, HashingStopped
  <2> QED
    BY <1>6, <1>c, <1>d, <2>1, <2>2, <2>3
       DEF ProcessingStopped, HashingStopped, TypeInv, TypeOK
<1>12. CASE ProcessingLogs
  <2>1. mailbox' \in Seq(Messages)
    BY <1>12, <1>a, RemoveAtProperties DEF ProcessingLogs
  <2> QED
    BY <1>12, <1>d, <2>1 DEF ProcessingLogs, TypeInv, TypeOK
<1>7. CASE ProcessingDone
  <2>1. PICK i \in DOMAIN mailbox :
          /\ mailbox[i].type = "data"
          /\ mailbox' = RemoveAt(mailbox, i)
          /\ work' = [id |-> Mined(mailbox[i].from.round), number |-> NextNumber,
                      at |-> mailbox[i].from.at, base |-> mailbox[i].from.base]
          /\ lapses' = lapses \cup
               (IF mailbox[i].from.round # round THEN {"stale_data"} ELSE {})
    BY <1>7 DEF ProcessingDone, BuildNext
  <2>2. mailbox' \in Seq(Messages)
    BY <1>a, <2>1, RemoveAtProperties
  <2>3. mailbox[i].from \in Ports
    BY <1>a, <2>1 DEF Messages, Stop, Mine, Log
  <2>4. work' \in Blocks
    BY <1>b, <2>1, <2>3 DEF Blocks, Ports
  <2>5. lapses' \subseteq LapseKinds
    BY <1>a, <2>1 DEF LapseKinds
  <2>6. ports' \subseteq Ports
    BY <1>7, <1>a DEF ProcessingDone, BuildNext
  <2> QED
    BY <1>7, <1>c, <1>d, <2>2, <2>4, <2>5, <2>6 DEF ProcessingDone, BuildNext, TypeInv, TypeOK
<1>8. CASE HashingDone
  <2>1. mailbox' \in Seq(Messages)
    BY <1>8, <1>a, RemoveAtProperties DEF HashingDone
  <2>2. lapses' \subseteq LapseKinds
    BY <1>8, <1>a DEF HashingDone, LapseKinds
  <2> QED
    BY <1>8, <1>c, <1>d, <2>1, <2>2 DEF HashingDone, TypeInv, TypeOK
<1>9. CASE InsertBlock
  <2>1. chain' = Append(chain, work)
    BY <1>9 DEF InsertBlock
  <2>2. chain' \in Seq(Blocks) /\ BestExists'
    BY <1>a, <2>1, AppendLast, AppendKeepsBest
  <2> QED
    BY <1>9, <1>c, <2>2 DEF InsertBlock, TypeInv, TypeOK
<1>10. CASE InsertFails
  BY <1>10, <1>c, <1>d DEF InsertFails, TypeInv, TypeOK
<1>11. CASE MinerWritesMemory \/ MinerWritesStorage
  <2>1. work.id \in BlockIds
    BY <1>a DEF Blocks
  <2> QED
    BY <1>11, <1>c, <1>d, <2>1
       DEF MinerWritesMemory, MinerWritesStorage, TypeInv, TypeOK
<1> QED
  BY <1>1, <1>2, <1>3, <1>4, <1>5, <1>6, <1>7, <1>8, <1>9, <1>10, <1>11, <1>12
     DEF MinerNext

\* The steps of the native programs, of P2P and the failures keep the types.
LEMMA OthersTypeInv ==
  TypeInv /\ (NativeNext \/ ReceiveBlock \/ ApplyNext \/ FaultNext) => TypeInv'
<1> SUFFICES ASSUME TypeInv, NativeNext \/ ReceiveBlock \/ ApplyNext \/ FaultNext
             PROVE  TypeInv'
  OBVIOUS
<1> USE ConstantsTyped, ConstantsAssumption DEF storeVars, minerVars, p2pVars, logVars
<1>a. /\ chain \in Seq(Blocks) /\ mailbox \in Seq(Messages) /\ ports \subseteq Ports
      /\ incoming \in Blocks /\ lapses \subseteq LapseKinds
      /\ BestExists /\ memory \in BlockIds /\ storage \in BlockIds
      /\ printed \in Nat /\ printed + 1 \in Nat /\ unanswered \subseteq Nat
  BY DEF TypeInv, TypeOK
<1>g. \A p \in ports : p.round \in Nat
  BY <1>a DEF Ports
<1>b. incoming.id \in BlockIds
  BY <1>a DEF Blocks
<1>c. \A pc \in {"idle", "validated", "process", "stuck", "cast", "memory1",
                 "storage1", "memory2", "storage2", "insert"} : pc \in P2PPcs
  BY DEF P2PPcs, Applying, Writing
<1>d. chain' = chain => BestExists'
  BY <1>a DEF BestExists
<1>e. \A m \in {Mine, Stop, Log} : Append(mailbox, m) \in Seq(Messages)
  BY <1>a, AppendLast
<1>f. CurrentState \in Bases
  BY <1>a DEF CurrentState, Bases
<1>1. CASE TxRuns
  <2>1. PICK p \in ports :
          ports' = (ports \ {p}) \cup {[p EXCEPT !.ran = TRUE, !.base = CurrentState]}
    BY <1>1 DEF TxRuns
  <2>2. [p EXCEPT !.ran = TRUE, !.base = CurrentState] \in Ports
    <3>1. p \in Ports
      BY <1>a
    <3> HIDE DEF CurrentState
    <3> QED
      BY <1>f, <3>1, Zenon DEF Ports
  <2>3. ports' \subseteq Ports
    BY <1>a, <2>1, <2>2
  <2> QED
    BY <1>1, <1>d, <2>3 DEF TxRuns, TypeInv, TypeOK
<1>2. CASE PortAnswers
  <2>1. PICK p \in ports : mailbox' = Append(mailbox, Answer(p)) /\ ports' = ports \ {p}
    BY <1>2 DEF PortAnswers
  <2>2. Answer(p) \in Messages
    BY <1>a
  <2>3. mailbox' \in Seq(Messages) /\ ports' \subseteq Ports
    BY <1>a, <2>1, <2>2, AppendLast
  <2> QED
    BY <1>2, <1>d, <2>3 DEF PortAnswers, TypeInv, TypeOK
<1>13. CASE PortLogs \/ AnswerMerges
  <2>1. mailbox' \in Seq(Messages) /\ printed' \in Nat
    BY <1>13, <1>a, <1>e DEF PortLogs, AnswerMerges
  <2>2. ports' \subseteq Ports /\ unanswered' \subseteq Nat
    BY <1>13, <1>a, <1>g DEF PortLogs, AnswerMerges
  <2> QED
    BY <1>13, <1>d, <2>1, <2>2 DEF PortLogs, AnswerMerges, TypeInv, TypeOK
<1>3. CASE ReceiveBlock
  <2>1. PICK n \in PeerNumbers :
          incoming' = [id |-> Peer(n), number |-> n, at |-> n, base |-> Unread]
    BY <1>3 DEF ReceiveBlock
  <2>2. n \in Nat /\ Peer(n) \in BlockIds /\ Unread \in Bases
    OBVIOUS
  <2>3. incoming' \in Blocks
    BY <2>1, <2>2 DEF Blocks
  <2> QED
    BY <1>3, <1>c, <1>d, <2>3 DEF ReceiveBlock, TypeInv, TypeOK
<1>4. CASE StopMiner
  <2>1. lapses' \subseteq LapseKinds
    BY <1>4, <1>a DEF StopMiner, LapseKinds
  <2> QED
    BY <1>4, <1>c, <1>d, <1>e, <2>1 DEF StopMiner, TypeInv, TypeOK
<1>5. CASE ProcessBlock
  <2>1. incoming' \in Blocks
    BY <1>5, <1>a, <1>f DEF ProcessBlock, Blocks
  <2> QED
    BY <1>5, <1>c, <1>d, <2>1 DEF ProcessBlock, TypeInv, TypeOK
<1>14. CASE ProcessBlockMerges
  BY <1>14, <1>a, <1>c, <1>d DEF ProcessBlockMerges, TypeInv, TypeOK
<1>6. CASE ApplyWritesMemory \/ ApplyWritesStorage
  BY <1>6, <1>b, <1>c, <1>d DEF ApplyWritesMemory, ApplyWritesStorage, TypeInv, TypeOK
<1>7. CASE ApplyInserts
  <2>1. chain' = Append(chain, incoming)
    BY <1>7 DEF ApplyInserts
  <2>2. chain' \in Seq(Blocks) /\ BestExists'
    BY <1>a, <2>1, AppendLast, AppendKeepsBest
  <2> QED
    BY <1>7, <1>c, <2>2 DEF ApplyInserts, TypeInv, TypeOK
<1>8. CASE ApplyCasts
  BY <1>8, <1>c, <1>d, <1>e DEF ApplyCasts, CastMineNextBlock, TypeInv, TypeOK
<1>9. CASE MinerCrashes
  <2>1. lapses' \subseteq LapseKinds
    BY <1>9, <1>a DEF MinerCrashes, LapseKinds
  <2>2. <<>> \in Seq(Messages) /\ {} \subseteq Ports /\ "down" \in MinerPcs
    BY DEF MinerPcs
  <2> QED
    BY <1>9, <1>d, <2>1, <2>2 DEF MinerCrashes, Dies, TypeInv, TypeOK
<1>10. CASE P2PCrashes
  <2>1. lapses' \subseteq LapseKinds
    BY <1>10, <1>a DEF P2PCrashes, LapseKinds
  <2> QED
    BY <1>10, <1>c, <1>d, <2>1 DEF P2PCrashes, TypeInv, TypeOK
<1>11. CASE MinerNativeDies
  <2>1. ports' \subseteq Ports /\ unanswered' \subseteq Nat
    BY <1>11, <1>a, <1>g DEF MinerNativeDies
  <2> QED
    BY <1>11, <1>d, <2>1 DEF MinerNativeDies, TypeInv, TypeOK
<1>12. CASE P2PNativeDies
  BY <1>12, <1>c, <1>d DEF P2PNativeDies, TypeInv, TypeOK
<1> QED
  BY <1>1, <1>2, <1>3, <1>4, <1>5, <1>6, <1>7, <1>8, <1>9, <1>10, <1>11, <1>12,
     <1>13, <1>14
     DEF NativeNext, ApplyNext, FaultNext

\* Every step of the node keeps the types.
LEMMA NextTypeInv == TypeInv /\ [Next]_vars => TypeInv'
<1>1. TypeInv /\ UNCHANGED vars => TypeInv'
  BY DEF TypeInv, TypeOK, BestExists, vars, storeVars, minerVars, p2pVars, logVars
<1> QED
  BY <1>1, MinerTypeInv, OthersTypeInv DEF Next

\* The node always has its type; in particular Block.next_block_number is
\* always a number.
THEOREM TypeCorrect == Spec => []TypeOK
<1>1. TypeInv => TypeOK
  BY DEF TypeInv
<1> QED
  BY <1>1, InitTypeInv, NextTypeInv, PTL DEF Spec

-----------------------------------------------------------------------------
(* Mining resumes *)

\* A mailbox in which every stop is followed by a cast.
Followed(s) ==
  \A i \in DOMAIN s : s[i] = Stop => \E j \in DOMAIN s : j > i /\ s[j] = Mine

HasMine(s) == \E j \in DOMAIN s : s[j] = Mine

\* MiningResumes is not inductive: a receive that takes a stop leaves Miner idle.
\* The stop must then be followed by a cast that is already in the mailbox, or
\* that the running Block.apply still has to send.
ResumeInv ==
  /\ minerPc = "down" => mailbox = <<>> /\ ports = {}
  /\ "apply_crash" \notin lapses =>
       p2pPc \in Applying \/ (Followed(mailbox) /\ (minerPc = "idle" => HasMine(mailbox)))

\* A cast at the end of the mailbox follows every stop.
LEMMA AppendMine ==
  ASSUME NEW s \in Seq(Messages)
  PROVE  Followed(Append(s, Mine)) /\ HasMine(Append(s, Mine))
<1>1. /\ Len(s) + 1 \in DOMAIN Append(s, Mine) /\ Append(s, Mine)[Len(s) + 1] = Mine
      /\ \A i \in DOMAIN Append(s, Mine) : i = Len(s) + 1 \/ Len(s) + 1 > i
  BY ConstantsTyped, AppendLast
<1>2. Mine # Stop
  BY DEF Mine, Stop
<1> QED
  BY <1>1, <1>2 DEF Followed, HasMine

\* So does any message but a stop, if every stop had its cast already.
LEMMA AppendOther ==
  ASSUME NEW s \in Seq(Messages), NEW m \in Messages, m # Stop
  PROVE  /\ Followed(s) => Followed(Append(s, m))
         /\ HasMine(s) => HasMine(Append(s, m))
<1>1. /\ Len(Append(s, m)) = Len(s) + 1 /\ Append(s, m)[Len(s) + 1] = m
      /\ \A j \in 1 .. Len(s) : Append(s, m)[j] = s[j]
      /\ DOMAIN s = 1 .. Len(s) /\ DOMAIN Append(s, m) = 1 .. (Len(s) + 1)
      /\ Len(s) \in Nat
  BY AppendLast
<1>2. DOMAIN s \subseteq DOMAIN Append(s, m)
  BY <1>1
<1>3. HasMine(s) => HasMine(Append(s, m))
  BY <1>1, <1>2 DEF HasMine
<1>4. ASSUME Followed(s), NEW i \in DOMAIN Append(s, m), Append(s, m)[i] = Stop
      PROVE  \E j \in DOMAIN Append(s, m) : j > i /\ Append(s, m)[j] = Mine
  <2>1. i \in DOMAIN s /\ s[i] = Stop
    BY <1>1, <1>4
  <2>2. PICK j \in DOMAIN s : j > i /\ s[j] = Mine
    BY <1>4, <2>1 DEF Followed
  <2> QED
    BY <1>1, <1>2, <2>2
<1> QED
  BY <1>3, <1>4 DEF Followed

\* Taking out a message that is not a cast keeps the cast after each stop, and
\* leaves a cast behind if the message was a stop that had one.
LEMMA RemoveOther ==
  ASSUME NEW s \in Seq(Messages), NEW k \in DOMAIN s, s[k] # Mine, Followed(s)
  PROVE  /\ Followed(RemoveAt(s, k))
         /\ HasMine(s) \/ s[k] = Stop => HasMine(RemoveAt(s, k))
<1> DEFINE t == RemoveAt(s, k)
<1>1. /\ Len(t) = Len(s) - 1 /\ DOMAIN t = 1 .. (Len(s) - 1)
      /\ DOMAIN s = 1 .. Len(s) /\ Len(s) \in Nat /\ k \in 1 .. Len(s)
      /\ \A j \in 1 .. (Len(s) - 1) : t[j] = IF j < k THEN s[j] ELSE s[j + 1]
  BY RemoveAtProperties
<1> HIDE DEF t
<1>2. ASSUME NEW j \in DOMAIN s, s[j] = Mine
      PROVE  /\ (IF j < k THEN j ELSE j - 1) \in DOMAIN t
             /\ t[IF j < k THEN j ELSE j - 1] = Mine
  <2>1. j # k
    BY <1>2
  <2>2. CASE j < k
    BY <1>1, <1>2, <2>2
  <2>3. CASE j > k
    <3>1. j - 1 \in 1 .. (Len(s) - 1) /\ ~(j - 1 < k) /\ (j - 1) + 1 = j
      BY <1>1, <2>3
    <3> QED
      BY <1>1, <1>2, <2>3, <3>1
  <2> QED
    BY <1>1, <2>1, <2>2, <2>3
<1>3. HasMine(s) => HasMine(t)
  BY <1>2 DEF HasMine
<1>4. s[k] = Stop => HasMine(s)
  BY DEF Followed, HasMine
<1>5. ASSUME NEW i \in DOMAIN t, t[i] = Stop
      PROVE  \E j \in DOMAIN t : j > i /\ t[j] = Mine
  <2> DEFINE h == IF i < k THEN i ELSE i + 1
  <2>1. h \in DOMAIN s /\ s[h] = Stop /\ h # k
    BY <1>1, <1>5
  <2>2. PICK j \in DOMAIN s : j > h /\ s[j] = Mine
    BY <2>1 DEF Followed
  <2>3. (IF j < k THEN j ELSE j - 1) > i
    BY <1>1, <2>1, <2>2
  <2> QED
    BY <1>2, <2>2, <2>3
<1> QED
  BY <1>3, <1>4, <1>5 DEF Followed, t

\* So does taking the first message.
LEMMA TailOther ==
  ASSUME NEW s \in Seq(Messages), s # <<>>, Followed(s)
  PROVE  /\ Followed(Tail(s))
         /\ HasMine(s) /\ Head(s) # Mine => HasMine(Tail(s))
<1>0. Tail(s) \in Seq(Messages) /\ Len(Tail(s)) = Len(s) - 1
  BY TailShifts
<1>1. /\ DOMAIN Tail(s) = 1 .. (Len(s) - 1) /\ DOMAIN s = 1 .. Len(s)
      /\ Len(s) \in Nat /\ Len(s) >= 1 /\ Head(s) = s[1]
      /\ \A j \in 1 .. (Len(s) - 1) : Tail(s)[j] = s[j + 1]
  BY <1>0, TailShifts
<1>2. ASSUME NEW j \in DOMAIN s, j > 1
      PROVE  j - 1 \in DOMAIN Tail(s) /\ Tail(s)[j - 1] = s[j]
  <2>1. j - 1 \in 1 .. (Len(s) - 1) /\ (j - 1) + 1 = j
    BY <1>1, <1>2
  <2> QED
    BY <1>1, <2>1
<1>3. ASSUME HasMine(s), Head(s) # Mine PROVE HasMine(Tail(s))
  <2>1. PICK j \in DOMAIN s : s[j] = Mine
    BY <1>3 DEF HasMine
  <2>2. j > 1
    BY <1>1, <1>3, <2>1
  <2> QED
    BY <1>2, <2>1, <2>2 DEF HasMine
<1>4. ASSUME NEW i \in DOMAIN Tail(s), Tail(s)[i] = Stop
      PROVE  \E j \in DOMAIN Tail(s) : j > i /\ Tail(s)[j] = Mine
  <2>1. i + 1 \in DOMAIN s /\ s[i + 1] = Stop /\ i \in Nat
    BY <1>1, <1>4
  <2>2. PICK j \in DOMAIN s : j > i + 1 /\ s[j] = Mine
    BY <2>1 DEF Followed
  <2>3. j \in Nat /\ j > 1 /\ j - 1 > i
    BY <1>1, <2>1, <2>2
  <2> QED
    BY <1>2, <2>2, <2>3
<1> QED
  BY <1>3, <1>4 DEF Followed

\* Every step keeps ResumeInv.
LEMMA NextResumeInv == TypeInv /\ ResumeInv /\ [Next]_vars => ResumeInv'
<1> SUFFICES ASSUME TypeInv, ResumeInv, [Next]_vars PROVE ResumeInv'
  OBVIOUS
<1> USE DEF storeVars, minerVars, p2pVars
<1>a. mailbox \in Seq(Messages) /\ ports \subseteq Ports
  BY DEF TypeInv, TypeOK
<1>b. /\ Stop # Mine /\ Log # Stop /\ Log # Mine
      /\ \A p : Answer(p) # Stop /\ Answer(p) # Mine
  BY DEF Stop, Mine, Log, Answer
<1>c. Followed(<<>>)
  BY DEF Followed
<1>1. CASE MinerRestart
  BY <1>1 DEF MinerRestart, ResumeInv
<1>2. CASE MinerInit \/ MinerCasts
  <2>1. /\ minerPc' = "idle" /\ mailbox' = Append(mailbox, Mine)
        /\ UNCHANGED <<p2pPc, lapses>>
    BY <1>2 DEF MinerInit, MinerCasts, CastMineNextBlock
  <2>2. Followed(mailbox') /\ HasMine(mailbox')
    BY <1>a, <2>1, AppendMine
  <2> QED
    BY <2>1, <2>2 DEF ResumeInv
<1>3. CASE HandleStop
  <2>1. /\ minerPc = "idle" /\ mailbox # <<>> /\ Head(mailbox) # Mine
        /\ mailbox' = Tail(mailbox) /\ UNCHANGED <<minerPc, p2pPc, lapses>>
    BY <1>3, <1>b DEF HandleStop
  <2>2. /\ Followed(mailbox) => Followed(mailbox')
        /\ Followed(mailbox) /\ HasMine(mailbox) => HasMine(mailbox')
    BY <1>a, <2>1, TailOther
  <2> QED
    BY <2>1, <2>2 DEF ResumeInv
<1>4. CASE HandleStrayData \/ WrongAnswer \/ MinerCrashes
  <2>1. /\ minerPc' = "down" /\ mailbox' = <<>> /\ p2pPc' = p2pPc
        /\ lapses \subseteq lapses' /\ ports' = {}
    BY <1>4 DEF HandleStrayData, WrongAnswer, MinerCrashes, Dies
  <2> QED
    BY <1>c, <2>1 DEF ResumeInv
<1>5. CASE MineNextBlock
  <2>1. /\ mailbox # <<>> /\ minerPc' = "processing"
        /\ mailbox' = Tail(mailbox) /\ UNCHANGED <<p2pPc, lapses>>
    BY <1>5 DEF MineNextBlock
  <2>2. Followed(mailbox) => Followed(mailbox')
    BY <1>a, <2>1, TailOther
  <2> QED
    BY <2>1, <2>2 DEF ResumeInv
<1>6. CASE ProcessingStopped \/ HashingStopped
  <2>1. PICK i \in DOMAIN mailbox :
          mailbox[i] = Stop /\ mailbox' = RemoveAt(mailbox, i)
    BY <1>6 DEF ProcessingStopped, HashingStopped
  <2>2. minerPc' = "idle" /\ UNCHANGED <<p2pPc, lapses>>
    BY <1>6 DEF ProcessingStopped, HashingStopped
  <2>3. Followed(mailbox) => Followed(mailbox') /\ HasMine(mailbox')
    BY <1>a, <1>b, <2>1, RemoveOther
  <2> QED
    BY <2>2, <2>3 DEF ResumeInv
<1>17. CASE ProcessingLogs
  <2>1. PICK i \in DOMAIN mailbox :
          mailbox[i] = Log /\ mailbox' = RemoveAt(mailbox, i)
    BY <1>17 DEF ProcessingLogs
  <2>2. minerPc' = "processing" /\ UNCHANGED <<p2pPc, lapses>>
    BY <1>17 DEF ProcessingLogs
  <2>3. Followed(mailbox) => Followed(mailbox')
    BY <1>a, <1>b, <2>1, RemoveOther
  <2> QED
    BY <2>2, <2>3 DEF ResumeInv
<1>7. CASE ProcessingDone \/ HashingDone
  <2>1. PICK i \in DOMAIN mailbox :
          mailbox[i].type = "data" /\ mailbox' = RemoveAt(mailbox, i)
    BY <1>7 DEF ProcessingDone, BuildNext, HashingDone
  <2>2. minerPc' \in {"hashing", "insert"} /\ p2pPc' = p2pPc /\ lapses \subseteq lapses'
    BY <1>7 DEF ProcessingDone, BuildNext, HashingDone
  <2>3. mailbox[i] # Mine
    BY <2>1 DEF Mine
  <2>4. Followed(mailbox) => Followed(mailbox')
    BY <1>a, <2>1, <2>3, RemoveOther
  <2> QED
    BY <2>2, <2>4 DEF ResumeInv
<1>8. CASE InsertBlock \/ InsertFails \/ MinerWritesMemory \/ MinerWritesStorage
  <2>1. minerPc' \in Inserting /\ UNCHANGED <<mailbox, p2pPc, lapses>>
    BY <1>8 DEF InsertBlock, InsertFails, MinerWritesMemory, MinerWritesStorage, Inserting
  <2> QED
    BY <2>1 DEF ResumeInv, Inserting
<1>9. CASE TxRuns \/ MinerNativeDies
  BY <1>9 DEF TxRuns, MinerNativeDies, ResumeInv
<1>10. CASE PortAnswers \/ PortLogs \/ AnswerMerges
  <2>1. PICK m \in Messages : m # Stop /\ mailbox' = Append(mailbox, m)
    BY <1>10, <1>a, <1>b, ConstantsTyped DEF PortAnswers, PortLogs, AnswerMerges
  <2>2. /\ Followed(mailbox) => Followed(mailbox')
        /\ HasMine(mailbox) => HasMine(mailbox')
    BY <1>a, <2>1, AppendOther
  <2>3. UNCHANGED <<minerPc, p2pPc, lapses>>
    BY <1>10 DEF PortAnswers, PortLogs, AnswerMerges
  <2>4. minerPc # "down"
    BY <1>10 DEF PortAnswers, PortLogs, AnswerMerges, ResumeInv
  <2> QED
    BY <2>2, <2>3, <2>4 DEF ResumeInv
<1>11. CASE StopMiner
  <2>1. p2pPc' \in Applying
    BY <1>11 DEF StopMiner, Applying
  <2>2. minerPc' = "down" => mailbox' = <<>> /\ ports' = {}
    BY <1>11 DEF StopMiner, ResumeInv
  <2> QED
    BY <2>1, <2>2 DEF ResumeInv
<1>12. CASE ReceiveBlock
  <2>1. p2pPc \notin Applying /\ UNCHANGED <<minerPc, mailbox, ports, lapses>>
    BY <1>12 DEF ReceiveBlock, Applying, Writing
  <2> QED
    BY <2>1 DEF ResumeInv
<1>13. CASE ProcessBlock \/ ProcessBlockMerges \/ ApplyWritesMemory
            \/ ApplyWritesStorage \/ ApplyInserts \/ P2PNativeDies
  <2>1. p2pPc' \in Applying /\ UNCHANGED <<minerPc, mailbox, ports, lapses>>
    BY <1>13 DEF ProcessBlock, ProcessBlockMerges, ApplyWritesMemory, ApplyWritesStorage,
                 ApplyInserts, P2PNativeDies, Applying, Writing
  <2> QED
    BY <2>1 DEF ResumeInv
<1>14. CASE ApplyCasts
  <2>1. UNCHANGED <<minerPc, ports, lapses>>
    BY <1>14 DEF ApplyCasts
  <2>2. CASE minerPc = "down"
    <3>1. mailbox' = <<>>
      BY <1>14, <2>2 DEF ApplyCasts, CastMineNextBlock, ResumeInv
    <3> QED
      BY <1>c, <2>1, <2>2, <3>1 DEF ResumeInv
  <2>3. CASE minerPc # "down"
    <3>1. mailbox' = Append(mailbox, Mine)
      BY <1>14, <2>3 DEF ApplyCasts, CastMineNextBlock
    <3>2. Followed(mailbox') /\ HasMine(mailbox')
      BY <1>a, <3>1, AppendMine
    <3> QED
      BY <2>1, <2>3, <3>2 DEF ResumeInv
  <2> QED
    BY <2>2, <2>3
<1>15. CASE P2PCrashes
  <2>1. /\ p2pPc \in Applying => "apply_crash" \in lapses'
        /\ lapses \subseteq lapses' /\ UNCHANGED <<minerPc, mailbox, ports>>
    BY <1>15 DEF P2PCrashes
  <2> QED
    BY <2>1 DEF ResumeInv
<1>16. CASE UNCHANGED vars
  BY <1>16 DEF vars, ResumeInv
<1> QED
  BY <1>1, <1>2, <1>3, <1>4, <1>5, <1>6, <1>7, <1>8, <1>9, <1>10, <1>11, <1>12,
     <1>13, <1>14, <1>15, <1>16, <1>17
     DEF Next, MinerNext, NativeNext, ApplyNext, FaultNext

\* A miner that has nothing to do and nothing to expect is being kept out by a
\* Block.apply that will resume it, as long as P2P did not crash in one: this
\* holds whatever stops, casts and late answers are in the mailbox, and through
\* any number of crashes of Miner.
THEOREM MiningAlwaysResumes == Spec => []MiningResumes
<1>1. Init => ResumeInv
  BY DEF Init, ResumeInv, Followed
<1>2. ResumeInv => MiningResumes
  BY DEF ResumeInv, MiningResumes, MinePending, HasMine
<1> QED
  BY <1>1, <1>2, InitTypeInv, NextTypeInv, NextResumeInv, PTL DEF Spec

-----------------------------------------------------------------------------
(* The stop protocol *)

-----------------------------------------------------------------------------
(* Mailboxes: the order of stops and casts *)

Control(m) == m = Stop \/ m = Mine

Has(s, m)  == \E i \in DOMAIN s : s[i] = m

\* Between two stops there is a cast, and between two casts a stop.
Alternates(s) ==
  \A i, j \in DOMAIN s :
    i < j /\ s[i] = s[j] /\ Control(s[i]) =>
      \E k \in (i + 1) .. (j - 1) : Control(s[k]) /\ s[k] # s[i]

\* The first stop or cast of the mailbox, if there is one, is m.
Starts(s, m) ==
  \A j \in DOMAIN s : Control(s[j]) /\ s[j] # m => \E i \in 1 .. (j - 1) : s[i] = m

\* The last one, if there is one, is m.
Finishes(s, m) ==
  \A i \in DOMAIN s : Control(s[i]) /\ s[i] # m => \E j \in DOMAIN s : j > i /\ s[j] = m

\* The messages are told apart by their types.
LEMMA MessageTypes ==
  /\ Stop # Mine /\ Stop.type = "stop" /\ Mine.type = "mine" /\ Log.type = "log"
  /\ Log # Stop /\ Log # Mine
  /\ \A p : /\ Answer(p).type = "data" /\ Answer(p).from = p
            /\ Answer(p) # Stop /\ Answer(p) # Mine
  /\ \A m \in Messages :
       /\ m.type = "stop" <=> m = Stop
       /\ m.type = "mine" <=> m = Mine
       /\ m.type = "log" <=> m = Log
       /\ m.type \in {"data", "log"} <=> ~Control(m)
       /\ m.type = "data" => m.from \in Ports
BY DEF Stop, Mine, Log, Answer, Messages, Control

\* The shape of a mailbox after a message was appended.
LEMMA AppendShape ==
  ASSUME NEW s \in Seq(Messages), NEW m \in Messages
  PROVE  /\ Append(s, m) \in Seq(Messages) /\ Len(s) \in Nat
         /\ DOMAIN s = 1 .. Len(s) /\ DOMAIN Append(s, m) = 1 .. (Len(s) + 1)
         /\ Append(s, m)[Len(s) + 1] = m
         /\ \A j \in 1 .. Len(s) : Append(s, m)[j] = s[j]
BY AppendLast

\* The shape of a mailbox after its first message was taken.
LEMMA TailShape ==
  ASSUME NEW s \in Seq(Messages), s # <<>>
  PROVE  /\ Tail(s) \in Seq(Messages) /\ Len(s) \in Nat /\ Len(s) >= 1
         /\ DOMAIN s = 1 .. Len(s) /\ DOMAIN Tail(s) = 1 .. (Len(s) - 1)
         /\ Head(s) = s[1] /\ 1 \in DOMAIN s
         /\ \A j \in 1 .. (Len(s) - 1) : Tail(s)[j] = s[j + 1]
         /\ \A j \in DOMAIN s : j # 1 =>
              j - 1 \in DOMAIN Tail(s) /\ Tail(s)[j - 1] = s[j]
<1>1. /\ Tail(s) \in Seq(Messages) /\ Len(s) \in Nat /\ Len(s) >= 1
      /\ Head(s) = s[1] /\ Len(Tail(s)) = Len(s) - 1
      /\ \A j \in 1 .. (Len(s) - 1) : Tail(s)[j] = s[j + 1]
  BY TailShifts
<1>2. DOMAIN s = 1 .. Len(s) /\ DOMAIN Tail(s) = 1 .. (Len(s) - 1)
  BY <1>1
<1>3. ASSUME NEW j \in DOMAIN s, j # 1
      PROVE  j - 1 \in DOMAIN Tail(s) /\ Tail(s)[j - 1] = s[j]
  <2>1. j - 1 \in 1 .. (Len(s) - 1) /\ (j - 1) + 1 = j
    BY <1>1, <1>2, <1>3
  <2> QED
    BY <1>1, <1>2, <2>1
<1> QED
  BY <1>1, <1>2, <1>3

\* Output of a program at the end changes nothing in the order of stops and casts.
LEMMA AppendOutput ==
  ASSUME NEW s \in Seq(Messages), NEW a \in Messages, ~Control(a)
  PROVE  LET t == Append(s, a)
         IN  /\ Alternates(s) => Alternates(t)
             /\ \A m \in {Stop, Mine} :
                  /\ Starts(s, m) => Starts(t, m)
                  /\ Finishes(s, m) => Finishes(t, m)
                  /\ Has(s, m) <=> Has(t, m)
<1> DEFINE t == Append(s, a)
           n == Len(s)
<1>1. /\ n \in Nat /\ DOMAIN s = 1 .. n /\ DOMAIN t = 1 .. (n + 1)
      /\ \A j \in 1 .. n : t[j] = s[j]
      /\ ~Control(t[n + 1]) /\ t[n + 1] # Stop /\ t[n + 1] # Mine
  BY AppendShape DEF Control
<1> HIDE DEF t, n
<1>2. Alternates(s) => Alternates(t)
  <2> SUFFICES ASSUME Alternates(s), NEW i \in DOMAIN t, NEW j \in DOMAIN t,
                      i < j, t[i] = t[j], Control(t[i])
               PROVE  \E k \in (i + 1) .. (j - 1) : Control(t[k]) /\ t[k] # t[i]
    BY DEF Alternates
  <2>1. i \in 1 .. n /\ j \in 1 .. n
    BY <1>1
  <2>2. PICK k \in (i + 1) .. (j - 1) : Control(s[k]) /\ s[k] # s[i]
    BY <1>1, <2>1 DEF Alternates
  <2>3. k \in 1 .. n
    BY <1>1, <2>1
  <2> QED
    BY <1>1, <2>1, <2>2, <2>3
<1>3. ASSUME NEW m \in {Stop, Mine}, Starts(s, m) PROVE Starts(t, m)
  <2> SUFFICES ASSUME NEW j \in DOMAIN t, Control(t[j]), t[j] # m
               PROVE  \E i \in 1 .. (j - 1) : t[i] = m
    BY DEF Starts
  <2>1. j \in 1 .. n
    BY <1>1
  <2>2. PICK i \in 1 .. (j - 1) : s[i] = m
    BY <1>1, <1>3, <2>1 DEF Starts
  <2> QED
    BY <1>1, <2>1, <2>2
<1>4. ASSUME NEW m \in {Stop, Mine}, Finishes(s, m) PROVE Finishes(t, m)
  <2> SUFFICES ASSUME NEW i \in DOMAIN t, Control(t[i]), t[i] # m
               PROVE  \E j \in DOMAIN t : j > i /\ t[j] = m
    BY DEF Finishes
  <2>1. i \in 1 .. n
    BY <1>1
  <2>2. PICK j \in DOMAIN s : j > i /\ s[j] = m
    BY <1>1, <1>4, <2>1 DEF Finishes
  <2> QED
    BY <1>1, <2>1, <2>2
<1>5. \A m \in {Stop, Mine} : Has(s, m) <=> Has(t, m)
  BY <1>1 DEF Has
<1> QED
  BY <1>2, <1>3, <1>4, <1>5 DEF t

\* A stop after a cast, or a cast after a stop, at the end.
LEMMA AppendControl ==
  ASSUME NEW s \in Seq(Messages), NEW m \in {Stop, Mine}, NEW o \in {Stop, Mine}, o # m
  PROVE  LET t == Append(s, m)
         IN  /\ Alternates(s) /\ Finishes(s, o) => Alternates(t)
             /\ Finishes(t, m)
             /\ Starts(s, m) => Starts(t, m)
             /\ Starts(s, o) /\ Has(s, o) => Starts(t, o)
             /\ Has(t, m) /\ (Has(s, o) <=> Has(t, o))
<1> DEFINE t == Append(s, m)
           n == Len(s)
<1>1. /\ n \in Nat /\ DOMAIN s = 1 .. n /\ DOMAIN t = 1 .. (n + 1)
      /\ \A j \in 1 .. n : t[j] = s[j]
      /\ t[n + 1] = m
  BY AppendShape, ConstantsTyped
<1> HIDE DEF t, n
<1>2. Alternates(s) /\ Finishes(s, o) => Alternates(t)
  <2> SUFFICES ASSUME Alternates(s), Finishes(s, o),
                      NEW i \in DOMAIN t, NEW j \in DOMAIN t,
                      i < j, t[i] = t[j], Control(t[i])
               PROVE  \E k \in (i + 1) .. (j - 1) : Control(t[k]) /\ t[k] # t[i]
    BY DEF Alternates
  <2>1. i \in 1 .. n
    BY <1>1
  <2>2. CASE j \in 1 .. n
    <3>1. PICK k \in (i + 1) .. (j - 1) : Control(s[k]) /\ s[k] # s[i]
      BY <1>1, <2>1, <2>2 DEF Alternates
    <3> QED
      BY <1>1, <2>1, <2>2, <3>1
  <2>3. CASE j = n + 1
    <3>1. t[i] = m /\ s[i] = m /\ Control(s[i])
      BY <1>1, <2>1, <2>3
    <3>2. PICK k \in DOMAIN s : k > i /\ s[k] = o
      BY <1>1, <2>1, <3>1 DEF Finishes
    <3>3. k \in (i + 1) .. (j - 1) /\ t[k] = o
      BY <1>1, <2>1, <2>3, <3>2
    <3> QED
      BY <3>1, <3>3 DEF Control
  <2> QED
    BY <1>1, <2>2, <2>3
<1>3. Finishes(t, m)
  BY <1>1 DEF Finishes, Control
<1>4. ASSUME Starts(s, m) PROVE Starts(t, m)
  <2> SUFFICES ASSUME NEW j \in DOMAIN t, Control(t[j]), t[j] # m
               PROVE  \E i \in 1 .. (j - 1) : t[i] = m
    BY DEF Starts
  <2>1. j \in 1 .. n
    BY <1>1
  <2>2. PICK i \in 1 .. (j - 1) : s[i] = m
    BY <1>1, <1>4, <2>1 DEF Starts
  <2> QED
    BY <1>1, <2>1, <2>2
<1>5. ASSUME Starts(s, o), Has(s, o) PROVE Starts(t, o)
  <2> SUFFICES ASSUME NEW j \in DOMAIN t, Control(t[j]), t[j] # o
               PROVE  \E i \in 1 .. (j - 1) : t[i] = o
    BY DEF Starts
  <2>1. CASE j \in 1 .. n
    <3>1. PICK i \in 1 .. (j - 1) : s[i] = o
      BY <1>1, <1>5, <2>1 DEF Starts
    <3> QED
      BY <1>1, <2>1, <3>1
  <2>2. CASE j = n + 1
    <3>1. PICK i \in DOMAIN s : s[i] = o
      BY <1>5 DEF Has
    <3> QED
      BY <1>1, <2>2, <3>1
  <2> QED
    BY <1>1, <2>1, <2>2
<1>6. Has(t, m) /\ (Has(s, o) <=> Has(t, o))
  BY <1>1 DEF Has
<1> QED
  BY <1>2, <1>3, <1>4, <1>5, <1>6 DEF t

\* Taking the first message: what is left alternates still; after a stop comes
\* a cast and after a cast a stop; and the last one stays the last one.
LEMMA TailOrder ==
  ASSUME NEW s \in Seq(Messages), s # <<>>
  PROVE  LET t == Tail(s)
         IN  /\ Alternates(s) => Alternates(t)
             /\ \A m \in {Stop, Mine} :
                  /\ Finishes(s, m) => Finishes(t, m)
                  /\ Finishes(s, m) /\ Control(Head(s)) /\ Head(s) # m => Has(t, m)
                  /\ Has(t, m) => Has(s, m)
                  /\ Has(s, m) /\ Head(s) # m => Has(t, m)
                  /\ ~Control(Head(s)) /\ Starts(s, m) => Starts(t, m)
                  /\ Alternates(s) /\ Control(Head(s)) /\ Head(s) # m => Starts(t, m)
<1> DEFINE t == Tail(s)
           n == Len(s)
<1>1. /\ n \in Nat /\ n >= 1 /\ DOMAIN s = 1 .. n /\ DOMAIN t = 1 .. (n - 1)
      /\ Head(s) = s[1] /\ 1 \in DOMAIN s
      /\ \A j \in 1 .. (n - 1) : t[j] = s[j + 1]
      /\ \A j \in DOMAIN s : j # 1 => j - 1 \in DOMAIN t /\ t[j - 1] = s[j]
  BY TailShape
<1>0. ASSUME NEW j \in DOMAIN t
      PROVE  j \in 1 .. (n - 1) /\ j + 1 \in 1 .. n /\ j + 1 # 1
  BY <1>0, <1>1
<1> HIDE DEF t, n
<1>2. Alternates(s) => Alternates(t)
  <2> SUFFICES ASSUME Alternates(s), NEW i \in DOMAIN t, NEW j \in DOMAIN t,
                      i < j, t[i] = t[j], Control(t[i])
               PROVE  \E k \in (i + 1) .. (j - 1) : Control(t[k]) /\ t[k] # t[i]
    BY DEF Alternates
  <2>1. /\ i + 1 \in DOMAIN s /\ j + 1 \in DOMAIN s /\ i + 1 < j + 1
        /\ s[i + 1] = s[j + 1] /\ Control(s[i + 1])
    BY <1>0, <1>1
  <2>2. PICK k \in (i + 2) .. j : Control(s[k]) /\ s[k] # s[i + 1]
    <3>1. (i + 1) + 1 = i + 2 /\ (j + 1) - 1 = j
      BY <1>0, <1>1
    <3> QED
      BY <2>1, <3>1 DEF Alternates
  <2>3. k - 1 \in (i + 1) .. (j - 1) /\ k \in DOMAIN s /\ k # 1
    <3>1. i \in 1 .. (n - 1) /\ j \in 1 .. (n - 1)
      BY <1>1
    <3> QED
      BY <1>1, <2>2, <3>1
  <2>4. t[k - 1] = s[k] /\ t[i] = s[i + 1]
    BY <1>0, <1>1, <2>3
  <2> QED
    BY <2>2, <2>3, <2>4
<1>3. ASSUME NEW m \in {Stop, Mine}, Finishes(s, m) PROVE Finishes(t, m)
  <2> SUFFICES ASSUME NEW i \in DOMAIN t, Control(t[i]), t[i] # m
               PROVE  \E j \in DOMAIN t : j > i /\ t[j] = m
    BY DEF Finishes
  <2>1. PICK j \in DOMAIN s : j > i + 1 /\ s[j] = m
    BY <1>0, <1>1, <1>3 DEF Finishes
  <2>2. j # 1 /\ j - 1 > i
    BY <1>0, <1>1, <2>1
  <2> QED
    BY <1>1, <2>1, <2>2
<1>4. ASSUME NEW m \in {Stop, Mine}, Finishes(s, m), Control(s[1]), s[1] # m
      PROVE  Has(t, m)
  <2>1. PICK j \in DOMAIN s : j > 1 /\ s[j] = m
    BY <1>1, <1>4 DEF Finishes
  <2> QED
    BY <1>1, <2>1 DEF Has
<1>5. ASSUME NEW m \in {Stop, Mine}
      PROVE  (Has(t, m) => Has(s, m)) /\ (Has(s, m) /\ s[1] # m => Has(t, m))
  BY <1>0, <1>1 DEF Has
<1>6. ASSUME NEW m \in {Stop, Mine}, Starts(s, m), ~Control(s[1])
      PROVE  Starts(t, m)
  <2> SUFFICES ASSUME NEW j \in DOMAIN t, Control(t[j]), t[j] # m
               PROVE  \E i \in 1 .. (j - 1) : t[i] = m
    BY DEF Starts
  <2>1. PICK i \in 1 .. j : s[i] = m
    <3>1. (j + 1) - 1 = j
      BY <1>0, <1>1
    <3> QED
      BY <1>0, <1>1, <1>6, <3>1 DEF Starts
  <2>2. i # 1 /\ i \in DOMAIN s
    BY <1>0, <1>1, <1>6, <2>1 DEF Control
  <2>3. i - 1 \in 1 .. (j - 1)
    BY <1>0, <1>1, <2>1, <2>2
  <2> QED
    BY <1>1, <2>1, <2>2, <2>3
<1>7. ASSUME NEW m \in {Stop, Mine}, Alternates(s), Control(s[1]), s[1] # m
      PROVE  Starts(t, m)
  <2> SUFFICES ASSUME NEW j \in DOMAIN t, Control(t[j]), t[j] # m
               PROVE  \E i \in 1 .. (j - 1) : t[i] = m
    BY DEF Starts
  <2>1. j + 1 \in DOMAIN s /\ 1 < j + 1 /\ s[j + 1] = t[j] /\ s[1] = s[j + 1]
    BY <1>0, <1>1, <1>7 DEF Control
  <2>2. PICK k \in (1 + 1) .. ((j + 1) - 1) : Control(s[k]) /\ s[k] # s[1]
    BY <1>1, <1>7, <2>1 DEF Alternates
  <2>3. k \in DOMAIN s /\ k # 1 /\ k - 1 \in 1 .. (j - 1) /\ s[k] = m
    BY <1>0, <1>1, <1>7, <2>2 DEF Control
  <2> QED
    BY <1>1, <2>3
<1> QED
  BY <1>1, <1>2, <1>3, <1>4, <1>5, <1>6, <1>7 DEF t

\* A receive of a busy Miner takes the first message: no cast comes before the
\* first stop, so there is nothing for the receive to pass over.
LEMMA ReceiveTakesFirst ==
  ASSUME mailbox \in Seq(Messages), Starts(mailbox, Stop),
         NEW i \in DOMAIN mailbox, Receives(i)
  PROVE  /\ i = 1 /\ mailbox # <<>> /\ Head(mailbox) = mailbox[i]
         /\ RemoveAt(mailbox, i) = Tail(mailbox)
<1>1. mailbox # <<>> /\ Len(mailbox) \in Nat /\ i \in 1 .. Len(mailbox)
  OBVIOUS
<1>2. i = 1
  <2> SUFFICES ASSUME i # 1 PROVE FALSE
    OBVIOUS
  <2>1. 1 \in 1 .. (i - 1) /\ 1 \in DOMAIN mailbox
    BY <1>1
  <2>2. mailbox[1] \in Messages /\ mailbox[1].type = "mine"
    BY <2>1 DEF Receives
  <2>3. mailbox[1] = Mine
    BY <2>2, MessageTypes
  <2>4. \E h \in 1 .. (1 - 1) : mailbox[h] = Stop
    BY <2>1, <2>3, MessageTypes DEF Starts, Control
  <2> QED
    BY <2>4
<1>3. RemoveAt(mailbox, 1) = Tail(mailbox)
  <2>1. /\ RemoveAt(mailbox, 1) \in Seq(Messages)
        /\ Len(RemoveAt(mailbox, 1)) = Len(mailbox) - 1
        /\ \A j \in 1 .. (Len(mailbox) - 1) :
             RemoveAt(mailbox, 1)[j] = IF j < 1 THEN mailbox[j] ELSE mailbox[j + 1]
    BY <1>1, <1>2, RemoveAtProperties
  <2>2. /\ Tail(mailbox) \in Seq(Messages) /\ Len(Tail(mailbox)) = Len(mailbox) - 1
        /\ \A j \in 1 .. (Len(mailbox) - 1) : Tail(mailbox)[j] = mailbox[j + 1]
    BY <1>1, TailShifts
  <2>3. \A j \in 1 .. Len(Tail(mailbox)) : RemoveAt(mailbox, 1)[j] = Tail(mailbox)[j]
    BY <1>1, <2>1, <2>2
  <2> QED
    BY <2>1, <2>2, <2>3, SeqEqual
<1>4. Head(mailbox) = mailbox[1]
  BY <1>1, TailShifts
<1> QED
  BY <1>1, <1>2, <1>3, <1>4

-----------------------------------------------------------------------------
(* The stop protocol *)

Idle    == minerPc = "idle"

Busy    == minerPc \in {"processing", "hashing"} \cup Inserting

InApply == p2pPc \in Applying

\* Stops and casts take turns.  An idle Miner comes to a cast first, a busy one
\* to a stop; the last one is the stop of the running Block.apply, or the cast
\* of the last one that ended.  A busy Miner has the stop of a running apply
\* still before it.
LoopInv ==
  /\ minerPc \in {"down", "init"} => mailbox = <<>>
  /\ minerPc = "init" => ~InApply
  /\ Alternates(mailbox)
  /\ Idle => Starts(mailbox, Mine)
  /\ Busy => Starts(mailbox, Stop)
  /\ Idle \/ Busy =>
       (InApply => Finishes(mailbox, Stop)) /\ (~InApply => Finishes(mailbox, Mine))
  /\ Busy /\ InApply => Has(mailbox, Stop)
  /\ Idle /\ ~InApply => Has(mailbox, Mine)

IsData(m) == m.type = "data"

\* A message of a program.
IsOutput(m) == m.type \in {"data", "log"}

\* Miner has at most one program, the one it waits for; an answer of the round
\* is the last output in the mailbox, and while hashfactor runs there is no
\* other output.  No stop comes after the answer of hashfactor, so that Miner
\* inserts its block with an empty mailbox.
DataInv ==
  /\ \A i \in DOMAIN mailbox : IsData(mailbox[i]) => mailbox[i].from.round <= round
  /\ \A p, q \in ports : p = q
  /\ \A p \in ports :
       p.round = round /\ p.kind = (IF minerPc = "processing" THEN "tx" ELSE "hash")
  /\ minerPc \notin {"processing", "hashing"} => ports = {}
  /\ minerPc = "processing" =>
       \A i \in DOMAIN mailbox : IsData(mailbox[i]) /\ mailbox[i].from.round = round =>
         /\ mailbox[i].from.kind = "tx" /\ ports = {}
         /\ \A j \in DOMAIN mailbox : IsOutput(mailbox[j]) => j <= i
  /\ minerPc = "hashing" =>
       \A i \in DOMAIN mailbox : IsOutput(mailbox[i]) =>
         /\ IsData(mailbox[i])
         /\ mailbox[i].from.round = round /\ mailbox[i].from.kind = "hash"
         /\ ports = {}
         /\ \A j \in DOMAIN mailbox : IsOutput(mailbox[j]) \/ mailbox[j] = Stop => j <= i
  /\ minerPc \in Inserting => mailbox = <<>>

\* An empty mailbox has every order.
LEMMA EmptyMailbox ==
  /\ Alternates(<<>>)
  /\ \A m : Starts(<<>>, m) /\ Finishes(<<>>, m) /\ ~Has(<<>>, m)
BY DEF Alternates, Starts, Finishes, Has

\* Miner is down, in init, idle or busy.
LEMMA MinerPhases ==
  ASSUME TypeOK
  PROVE  /\ minerPc \in {"down", "init"} \/ Idle \/ Busy
         /\ Idle => minerPc \notin {"down", "init"}
         /\ Busy => minerPc \notin {"down", "init", "idle"}
BY DEF TypeOK, MinerPcs, Inserting, Idle, Busy

\* Every step keeps LoopInv while there is no lapse.
LEMMA NextLoopInv ==
  ASSUME TypeInv, LoopInv, DataInv, [Next]_vars, lapses' = {}
  PROVE  LoopInv'
<1> USE DEF storeVars, minerVars, p2pVars
<1>a. mailbox \in Seq(Messages) /\ ports \subseteq Ports /\ TypeOK
  BY DEF TypeInv, TypeOK
<1>b. Stop \in {Stop, Mine} /\ Mine \in {Stop, Mine} /\ Stop # Mine
  BY MessageTypes
<1>1. CASE MinerRestart
  BY <1>1, <1>b DEF MinerRestart, LoopInv, Idle, Busy, InApply, Inserting
<1>2. CASE MinerInit
  <2>1. mailbox = <<>> /\ ~InApply /\ minerPc' = "idle" /\ InApply' = InApply
        /\ mailbox' = Append(mailbox, Mine)
    BY <1>2 DEF MinerInit, LoopInv, CastMineNextBlock, InApply
  <2>2. Alternates(mailbox') /\ Finishes(mailbox', Mine) /\ Starts(mailbox', Mine)
        /\ Has(mailbox', Mine)
    BY <1>a, <1>b, <2>1, AppendControl, EmptyMailbox
  <2> QED
    BY <2>1, <2>2 DEF LoopInv, Idle, Busy, Inserting
<1>3. CASE HandleStop
  <2>1. Idle /\ mailbox # <<>> /\ mailbox[1] = Stop /\ 1 \in DOMAIN mailbox
    BY <1>3, <1>a, TailShape DEF HandleStop, Idle
  <2>2. \E i \in 1 .. (1 - 1) : mailbox[i] = Mine
    BY <1>b, <2>1 DEF LoopInv, Starts, Control
  <2> QED
    BY <2>2
<1>4. CASE HandleStrayData \/ WrongAnswer \/ MinerCrashes
  <2>1. minerPc' = "down" /\ mailbox' = <<>>
    BY <1>4 DEF HandleStrayData, WrongAnswer, MinerCrashes, Dies
  <2> QED
    BY <2>1, EmptyMailbox DEF LoopInv, Idle, Busy, Inserting
<1>5. CASE MineNextBlock
  <2>1. /\ Idle /\ mailbox # <<>> /\ Head(mailbox) = Mine /\ mailbox' = Tail(mailbox)
        /\ minerPc' = "processing" /\ InApply' = InApply
    BY <1>5 DEF MineNextBlock, Idle, InApply
  <2>2. /\ Alternates(mailbox') /\ Starts(mailbox', Stop)
        /\ Finishes(mailbox, Stop) => Finishes(mailbox', Stop) /\ Has(mailbox', Stop)
        /\ Finishes(mailbox, Mine) => Finishes(mailbox', Mine)
    BY <1>a, <1>b, <2>1, TailOrder DEF LoopInv, Control
  <2> QED
    BY <2>1, <2>2 DEF LoopInv, Idle, Busy, Inserting
<1>6. CASE ProcessingStopped \/ HashingStopped
  <2>1. PICK i \in DOMAIN mailbox :
          Receives(i) /\ mailbox[i] = Stop /\ mailbox' = RemoveAt(mailbox, i)
    BY <1>6 DEF ProcessingStopped, HashingStopped
  <2>2. minerPc' = "idle" /\ InApply' = InApply /\ Busy
    BY <1>6 DEF ProcessingStopped, HashingStopped, InApply, Busy
  <2>3. mailbox # <<>> /\ Head(mailbox) = Stop /\ mailbox' = Tail(mailbox)
    BY <1>a, <2>1, <2>2, ReceiveTakesFirst DEF LoopInv
  <2>4. /\ Alternates(mailbox') /\ Starts(mailbox', Mine)
        /\ Finishes(mailbox, Mine) => Finishes(mailbox', Mine) /\ Has(mailbox', Mine)
        /\ Finishes(mailbox, Stop) => Finishes(mailbox', Stop)
    BY <1>a, <1>b, <2>3, TailOrder DEF LoopInv, Control
  <2> QED
    BY <2>2, <2>4 DEF LoopInv, Idle, Busy, Inserting
<1>7. CASE ProcessingDone \/ HashingDone \/ ProcessingLogs
  <2>1. PICK i \in DOMAIN mailbox :
          /\ Receives(i) /\ mailbox[i].type \in {"data", "log"}
          /\ mailbox' = RemoveAt(mailbox, i)
    BY <1>7, MessageTypes DEF ProcessingDone, BuildNext, HashingDone, ProcessingLogs
  <2>2. minerPc' \in {"processing", "hashing", "insert"} /\ InApply' = InApply /\ Busy
    BY <1>7 DEF ProcessingDone, BuildNext, HashingDone, ProcessingLogs, InApply, Busy
  <2>3. mailbox # <<>> /\ Head(mailbox) = mailbox[i] /\ mailbox' = Tail(mailbox)
    BY <1>a, <2>1, <2>2, ReceiveTakesFirst DEF LoopInv
  <2>4. ~Control(Head(mailbox))
    BY <1>a, <2>1, <2>3, MessageTypes
  <2>5. /\ Alternates(mailbox') /\ Starts(mailbox', Stop)
        /\ Finishes(mailbox, Mine) => Finishes(mailbox', Mine)
        /\ Finishes(mailbox, Stop) => Finishes(mailbox', Stop)
        /\ Has(mailbox, Stop) => Has(mailbox', Stop)
    BY <1>a, <1>b, <2>2, <2>3, <2>4, TailOrder DEF LoopInv, Control
  <2> QED
    BY <2>2, <2>5 DEF LoopInv, Idle, Busy, Inserting
<1>8. CASE InsertBlock \/ InsertFails \/ MinerWritesMemory \/ MinerWritesStorage
  <2>1. /\ minerPc \in Inserting /\ minerPc' \in Inserting /\ mailbox' = mailbox
        /\ InApply' = InApply
    BY <1>8 DEF InsertBlock, InsertFails, MinerWritesMemory, MinerWritesStorage,
                Inserting, InApply
  <2> QED
    BY <2>1 DEF LoopInv, Idle, Busy, Inserting
<1>9. CASE MinerCasts
  <2>1. mailbox = <<>> /\ minerPc' = "idle" /\ InApply' = InApply /\ Busy
        /\ mailbox' = Append(mailbox, Mine)
    BY <1>9 DEF MinerCasts, CastMineNextBlock, InApply, Inserting, Busy, DataInv
  <2>2. ~InApply
    BY <2>1, EmptyMailbox DEF LoopInv
  <2>3. Alternates(mailbox') /\ Finishes(mailbox', Mine) /\ Starts(mailbox', Mine)
        /\ Has(mailbox', Mine)
    BY <1>a, <1>b, <2>1, AppendControl, EmptyMailbox
  <2> QED
    BY <2>1, <2>2, <2>3 DEF LoopInv, Idle, Busy, Inserting
<1>10. CASE TxRuns \/ MinerNativeDies \/ ReceiveBlock \/ ProcessBlock \/ ProcessBlockMerges
            \/ ApplyWritesMemory \/ ApplyWritesStorage \/ ApplyInserts \/ P2PNativeDies
  <2>1. UNCHANGED <<minerPc, mailbox>>
    BY <1>10 DEF TxRuns, MinerNativeDies, ReceiveBlock, ProcessBlock, ProcessBlockMerges,
                 ApplyWritesMemory, ApplyWritesStorage, ApplyInserts, P2PNativeDies
  <2>2. p2pPc \in Applying <=> p2pPc' \in Applying
    BY <1>10 DEF TxRuns, MinerNativeDies, ReceiveBlock, ProcessBlock, ProcessBlockMerges,
                 ApplyWritesMemory, ApplyWritesStorage, ApplyInserts, P2PNativeDies,
                 Applying, Writing
  <2> QED
    BY <2>1, <2>2 DEF LoopInv, Idle, Busy, InApply
<1>11. CASE PortAnswers \/ PortLogs \/ AnswerMerges
  <2>1. PICK a \in Messages : ~Control(a) /\ mailbox' = Append(mailbox, a)
    BY <1>11, <1>a, ConstantsTyped, MessageTypes
       DEF PortAnswers, PortLogs, AnswerMerges, Control
  <2>2. UNCHANGED <<minerPc, p2pPc>>
    BY <1>11 DEF PortAnswers, PortLogs, AnswerMerges
  <2>3. /\ Alternates(mailbox) => Alternates(mailbox')
        /\ \A m \in {Stop, Mine} :
             /\ Starts(mailbox, m) => Starts(mailbox', m)
             /\ Finishes(mailbox, m) => Finishes(mailbox', m)
             /\ Has(mailbox, m) <=> Has(mailbox', m)
    BY <1>a, <2>1, AppendOutput
  <2>4. minerPc \notin {"down", "init"}
    BY <1>11 DEF DataInv, PortAnswers, PortLogs, AnswerMerges
  <2> QED
    BY <1>b, <2>2, <2>3, <2>4 DEF LoopInv, Idle, Busy, InApply
<1>12. CASE StopMiner
  <2>1. ~InApply /\ InApply' /\ minerPc' = minerPc /\ minerPc # "init"
        /\ minerPc \notin Inserting
    BY <1>12 DEF StopMiner, InApply, Applying, Writing, HashFound
  <2>2. CASE minerPc = "down"
    BY <1>12, <2>1, <2>2 DEF StopMiner, LoopInv, Idle, Busy, Inserting
  <2>3. CASE minerPc # "down"
    <3>1. mailbox' = Append(mailbox, Stop) /\ (Idle \/ Busy)
      BY <1>12, <1>a, <2>1, <2>3, MinerPhases DEF StopMiner
    <3>2. /\ Alternates(mailbox') /\ Finishes(mailbox', Stop) /\ Has(mailbox', Stop)
          /\ Starts(mailbox, Stop) => Starts(mailbox', Stop)
          /\ Starts(mailbox, Mine) /\ Has(mailbox, Mine) => Starts(mailbox', Mine)
      BY <1>a, <1>b, <2>1, <3>1, AppendControl DEF LoopInv
    <3> QED
      BY <2>1, <2>3, <3>1, <3>2 DEF LoopInv, Idle, Busy
  <2> QED
    BY <2>2, <2>3
<1>13. CASE ApplyCasts
  <2>1. InApply /\ ~InApply' /\ minerPc' = minerPc
    BY <1>13 DEF ApplyCasts, InApply, Applying, Writing
  <2>2. CASE minerPc \in {"down", "init"}
    BY <1>13, <2>1, <2>2 DEF ApplyCasts, CastMineNextBlock, LoopInv, Idle, Busy, Inserting
  <2>3. CASE minerPc \notin {"down", "init"}
    <3>1. mailbox' = Append(mailbox, Mine) /\ (Idle \/ Busy)
      BY <1>13, <1>a, <2>1, <2>3, MinerPhases DEF ApplyCasts, CastMineNextBlock
    <3>2. /\ Alternates(mailbox') /\ Finishes(mailbox', Mine) /\ Has(mailbox', Mine)
          /\ Starts(mailbox, Mine) => Starts(mailbox', Mine)
          /\ Starts(mailbox, Stop) /\ Has(mailbox, Stop) => Starts(mailbox', Stop)
      BY <1>a, <1>b, <2>1, <3>1, AppendControl DEF LoopInv
    <3> QED
      BY <2>1, <2>3, <3>1, <3>2 DEF LoopInv, Idle, Busy
  <2> QED
    BY <2>2, <2>3
<1>14. CASE P2PCrashes
  <2>1. ~InApply /\ ~InApply' /\ UNCHANGED <<minerPc, mailbox>>
    BY <1>14 DEF P2PCrashes, InApply, Applying, Writing
  <2> QED
    BY <2>1 DEF LoopInv, Idle, Busy
<1>15. CASE UNCHANGED vars
  BY <1>15 DEF vars, LoopInv, Idle, Busy, InApply
<1> QED
  BY <1>1, <1>2, <1>3, <1>4, <1>5, <1>6, <1>7, <1>8, <1>9, <1>10, <1>11, <1>12,
     <1>13, <1>14, <1>15
     DEF Next, MinerNext, NativeNext, ApplyNext, FaultNext

\* Block.apply runs only while Miner is not inserting a block.
LEMMA ApplyExcludes ==
  ASSUME LoopInv, DataInv
  PROVE  InApply => minerPc \notin Inserting
BY EmptyMailbox DEF LoopInv, DataInv, Busy

\* The answers in the mailbox are where they were when a stop or a cast is put
\* at its end.
LEMMA AppendKeepsData ==
  ASSUME NEW s \in Seq(Messages), NEW m \in {Stop, Mine}
  PROVE  LET t == Append(s, m)
         IN  /\ DOMAIN s \subseteq DOMAIN t
             /\ \A i \in DOMAIN t : IsOutput(t[i]) => i \in DOMAIN s /\ t[i] = s[i]
             /\ \A i \in DOMAIN s : t[i] = s[i]
             /\ \A i \in DOMAIN t : i \notin DOMAIN s => t[i] = m
BY AppendShape, ConstantsTyped, MessageTypes DEF IsOutput

\* Every step keeps DataInv while there is no lapse.
LEMMA NextDataInv ==
  ASSUME TypeInv, LoopInv, DataInv, [Next]_vars, lapses' = {}
  PROVE  DataInv'
<1> USE DEF storeVars, minerVars, p2pVars
<1>a. /\ mailbox \in Seq(Messages) /\ ports \subseteq Ports /\ TypeOK /\ round \in Nat
      /\ minerPc \in MinerPcs
  BY DEF TypeInv, TypeOK
<1>b. Stop \in {Stop, Mine} /\ Mine \in {Stop, Mine} /\ Stop # Mine
      /\ ~IsData(Stop) /\ ~IsData(Mine)
      /\ \A m : IsData(m) => IsOutput(m)
  BY MessageTypes DEF IsData, IsOutput
<1>c. /\ "idle" \notin Inserting /\ "init" \notin Inserting /\ "down" \notin Inserting
      /\ "processing" \notin Inserting /\ "hashing" \notin Inserting
  BY DEF Inserting
<1>d. \A i \in DOMAIN mailbox : IsData(mailbox[i]) =>
        mailbox[i].from \in Ports /\ mailbox[i].from.round \in Nat
  BY <1>a, MessageTypes DEF IsData, Ports
<1>1. CASE MinerRestart
  BY <1>1, <1>c DEF MinerRestart, DataInv
<1>2. CASE MinerInit \/ MinerCasts
  <2>1. mailbox = <<>>
    BY <1>2 DEF MinerInit, MinerCasts, LoopInv, DataInv, Inserting
  <2>2. /\ minerPc' = "idle" /\ UNCHANGED <<ports, round>> /\ ports = {}
        /\ mailbox' = Append(mailbox, Mine)
    BY <1>2 DEF MinerInit, MinerCasts, CastMineNextBlock, DataInv
  <2>3. \A i \in DOMAIN mailbox' : ~IsData(mailbox'[i])
    BY <1>a, <1>b, <2>1, <2>2, AppendKeepsData
  <2> QED
    BY <1>c, <2>2, <2>3 DEF DataInv
<1>3. CASE HandleStop
  <2>1. mailbox # <<>> /\ mailbox' = Tail(mailbox) /\ minerPc = "idle"
        /\ UNCHANGED <<minerPc, ports, round>>
    BY <1>3 DEF HandleStop
  <2>2. \A i \in DOMAIN mailbox' : i + 1 \in DOMAIN mailbox /\ mailbox'[i] = mailbox[i + 1]
    BY <1>a, <2>1, TailShape
  <2> QED
    BY <1>c, <2>1, <2>2 DEF DataInv
<1>4. CASE HandleStrayData \/ WrongAnswer \/ MinerCrashes
  <2>1. minerPc' = "down" /\ mailbox' = <<>> /\ ports' = {}
    BY <1>4 DEF HandleStrayData, WrongAnswer, MinerCrashes, Dies
  <2> QED
    BY <1>c, <2>1 DEF DataInv
<1>5. CASE MineNextBlock
  <2>1. /\ mailbox # <<>> /\ mailbox' = Tail(mailbox) /\ minerPc' = "processing"
        /\ round' = round + 1 /\ ports' = {TxPort(round + 1, NextNumber)}
    BY <1>5 DEF MineNextBlock, DataInv
  <2>2. \A i \in DOMAIN mailbox' : i + 1 \in DOMAIN mailbox /\ mailbox'[i] = mailbox[i + 1]
    BY <1>a, <2>1, TailShape
  <2>3. \A i \in DOMAIN mailbox' : IsData(mailbox'[i]) =>
          mailbox'[i].from.round <= round' /\ mailbox'[i].from.round # round'
    BY <1>a, <1>d, <2>1, <2>2 DEF DataInv
  <2>4. \A p \in ports' : p.round = round' /\ p.kind = "tx"
    BY <2>1 DEF TxPort
  <2> QED
    BY <1>c, <2>1, <2>3, <2>4 DEF DataInv
<1>6. CASE ProcessingStopped \/ HashingStopped
  <2>1. PICK i \in DOMAIN mailbox :
          Receives(i) /\ mailbox[i] = Stop /\ mailbox' = RemoveAt(mailbox, i)
    BY <1>6 DEF ProcessingStopped, HashingStopped
  <2>2. minerPc' = "idle" /\ round' = round /\ Busy
    BY <1>6 DEF ProcessingStopped, HashingStopped, Busy
  <2>3. ports' = {}
    BY <1>6 DEF ProcessingStopped, HashingStopped, PortClose, DataInv
  <2>4. mailbox # <<>> /\ mailbox' = Tail(mailbox)
    BY <1>a, <2>1, <2>2, ReceiveTakesFirst DEF LoopInv
  <2>5. \A j \in DOMAIN mailbox' : j + 1 \in DOMAIN mailbox /\ mailbox'[j] = mailbox[j + 1]
    BY <1>a, <2>4, TailShape
  <2> QED
    BY <1>c, <2>2, <2>3, <2>5 DEF DataInv
<1>7. CASE ProcessingDone
  <2>1. PICK i \in DOMAIN mailbox :
          /\ Receives(i) /\ IsData(mailbox[i]) /\ mailbox[i].from.round = round
          /\ mailbox' = RemoveAt(mailbox, i)
    BY <1>7 DEF ProcessingDone, BuildNext, IsData
  <2>2. /\ minerPc = "processing" /\ minerPc' = "hashing" /\ round' = round /\ Busy
        /\ ports' = ports \cup {HashPort(round)}
    BY <1>7 DEF ProcessingDone, BuildNext, Busy
  <2>3. mailbox # <<>> /\ i = 1 /\ mailbox' = Tail(mailbox)
    BY <1>a, <2>1, <2>2, ReceiveTakesFirst DEF LoopInv
  <2>4. ports' = {HashPort(round)}
    BY <2>1, <2>2 DEF DataInv
  <2>5. \A j \in DOMAIN mailbox' :
          j + 1 \in DOMAIN mailbox /\ mailbox'[j] = mailbox[j + 1] /\ ~(j + 1 <= 1)
    BY <1>a, <2>3, TailShape
  <2>6. \A j \in DOMAIN mailbox' : ~IsOutput(mailbox'[j]) /\ ~IsData(mailbox'[j])
    BY <1>b, <2>1, <2>2, <2>3, <2>5 DEF DataInv
  <2>7. \A p \in ports' : p.round = round' /\ p.kind = "hash"
    BY <2>2, <2>4 DEF HashPort
  <2> QED
    BY <1>c, <2>2, <2>4, <2>6, <2>7 DEF DataInv
<1>8. CASE HashingDone
  <2>1. PICK i \in DOMAIN mailbox :
          /\ Receives(i) /\ IsData(mailbox[i]) /\ mailbox' = RemoveAt(mailbox, i)
    BY <1>8 DEF HashingDone, IsData
  <2>2. /\ minerPc = "hashing" /\ minerPc' = "insert" /\ round' = round /\ Busy
        /\ ports' = ports
    BY <1>8 DEF HashingDone, Busy
  <2>3. mailbox # <<>> /\ i = 1 /\ mailbox' = Tail(mailbox) /\ Head(mailbox) = mailbox[i]
    BY <1>a, <2>1, <2>2, ReceiveTakesFirst DEF LoopInv
  <2>4. \A j \in DOMAIN mailbox' :
          j + 1 \in DOMAIN mailbox /\ mailbox'[j] = mailbox[j + 1] /\ ~(j + 1 <= 1)
    BY <1>a, <2>3, TailShape
  <2>5. \A j \in DOMAIN mailbox' : ~IsOutput(mailbox'[j]) /\ mailbox'[j] # Stop
    BY <1>b, <2>1, <2>2, <2>3, <2>4 DEF DataInv
  <2>6. ~Control(Head(mailbox))
    BY <1>a, <2>1, <2>3, MessageTypes DEF IsData, IsOutput
  <2>7. Starts(mailbox', Stop)
    BY <1>a, <1>b, <2>2, <2>3, <2>6, TailOrder DEF LoopInv
  <2>8. mailbox' = <<>>
    <3> SUFFICES ASSUME mailbox' # <<>> PROVE FALSE
      OBVIOUS
    <3>1. mailbox' \in Seq(Messages) /\ 1 \in DOMAIN mailbox'
      BY <1>a, <2>3, TailShape
    <3>2. mailbox'[1] \in Messages /\ Control(mailbox'[1])
      BY <2>5, <3>1, MessageTypes DEF IsOutput
    <3>3. \E h \in 1 .. (1 - 1) : mailbox'[h] = Stop
      BY <2>5, <2>7, <3>1, <3>2 DEF Starts
    <3> QED
      BY <3>3
  <2>9. ports = {}
    BY <1>b, <2>1, <2>2 DEF DataInv
  <2> QED
    BY <2>2, <2>8, <2>9 DEF DataInv
<1>9. CASE InsertBlock \/ InsertFails \/ MinerWritesMemory \/ MinerWritesStorage
  <2>1. /\ minerPc \in Inserting /\ minerPc' \in Inserting
        /\ UNCHANGED <<mailbox, ports, round>>
    BY <1>9 DEF InsertBlock, InsertFails, MinerWritesMemory, MinerWritesStorage, Inserting
  <2>2. mailbox = <<>> /\ ports = {}
    BY <1>c, <2>1 DEF DataInv
  <2> QED
    BY <1>c, <2>1, <2>2 DEF DataInv
<1>10. CASE TxRuns
  <2>1. PICK p \in ports :
          ports' = (ports \ {p}) \cup {[p EXCEPT !.ran = TRUE, !.base = CurrentState]}
    BY <1>10 DEF TxRuns
  <2> DEFINE q == [p EXCEPT !.ran = TRUE, !.base = CurrentState]
  <2>2. p \in Ports
    BY <1>a
  <2>3. q.round = p.round /\ q.kind = p.kind
    BY <2>2 DEF Ports
  <2>4. ports' = {q}
    BY <2>1 DEF DataInv
  <2>5. ports # {} /\ UNCHANGED <<minerPc, mailbox, round>>
    BY <1>10 DEF TxRuns
  <2> HIDE DEF q
  <2> QED
    BY <2>3, <2>4, <2>5 DEF DataInv
<1>11. CASE PortAnswers
  <2>1. PICK p \in ports : mailbox' = Append(mailbox, Answer(p)) /\ ports' = ports \ {p}
    BY <1>11 DEF PortAnswers
  <2>2. UNCHANGED <<minerPc, round>> /\ ports' = {} /\ p.round = round
    BY <1>11, <2>1 DEF PortAnswers, DataInv
  <2>3. minerPc \in {"processing", "hashing"}
    BY <2>1 DEF DataInv
  <2>4. /\ Len(mailbox) \in Nat
        /\ DOMAIN mailbox = 1 .. Len(mailbox) /\ DOMAIN mailbox' = 1 .. (Len(mailbox) + 1)
        /\ \A j \in 1 .. Len(mailbox) : mailbox'[j] = mailbox[j]
        /\ mailbox'[Len(mailbox) + 1] = Answer(p)
    BY <1>a, <2>1, AppendShape, ConstantsTyped
  <2>5. IsData(Answer(p)) /\ Answer(p).from = p /\ Answer(p) # Stop
    BY MessageTypes DEF IsData
  <2>6. \A i \in DOMAIN mailbox' :
          \/ i = Len(mailbox) + 1 /\ mailbox'[i] = Answer(p)
          \/ i \in DOMAIN mailbox /\ mailbox'[i] = mailbox[i]
    BY <2>4
  <2>7. \A i \in DOMAIN mailbox' : IsData(mailbox'[i]) => mailbox'[i].from.round <= round'
    BY <1>a, <2>2, <2>5, <2>6 DEF DataInv
  <2>8. \A j \in DOMAIN mailbox' : j <= Len(mailbox) + 1
    BY <2>4
  <2>9. CASE minerPc = "processing"
    <3>1. p.kind = "tx"
      BY <2>1, <2>9 DEF DataInv
    <3>2. \A i \in DOMAIN mailbox : ~(IsData(mailbox[i]) /\ mailbox[i].from.round = round)
      BY <2>1, <2>9 DEF DataInv
    <3>3. \A i \in DOMAIN mailbox' :
            IsData(mailbox'[i]) /\ mailbox'[i].from.round = round => i = Len(mailbox) + 1
      BY <2>6, <3>2
    <3> QED
      BY <1>c, <2>2, <2>4, <2>5, <2>7, <2>8, <2>9, <3>1, <3>3 DEF DataInv
  <2>10. CASE minerPc = "hashing"
    <3>1. p.kind = "hash"
      BY <2>1, <2>10 DEF DataInv
    <3>2. \A i \in DOMAIN mailbox : ~IsOutput(mailbox[i])
      BY <2>1, <2>10 DEF DataInv
    <3>3. \A i \in DOMAIN mailbox' :
            IsOutput(mailbox'[i]) => i = Len(mailbox) + 1 /\ IsData(mailbox'[i])
      BY <2>5, <2>6, <3>2
    <3> QED
      BY <1>c, <2>2, <2>4, <2>5, <2>7, <2>8, <2>10, <3>1, <3>3 DEF DataInv
  <2> QED
    BY <2>3, <2>9, <2>10
<1>15. CASE ProcessingLogs
  <2>1. PICK i \in DOMAIN mailbox :
          Receives(i) /\ mailbox[i] = Log /\ mailbox' = RemoveAt(mailbox, i)
    BY <1>15 DEF ProcessingLogs
  <2>2. minerPc = "processing" /\ UNCHANGED <<minerPc, ports, round>> /\ Busy
    BY <1>15 DEF ProcessingLogs, Busy
  <2>3. mailbox # <<>> /\ mailbox' = Tail(mailbox)
    BY <1>a, <2>1, <2>2, ReceiveTakesFirst DEF LoopInv
  <2>4. \A j \in DOMAIN mailbox' :
          j \in Nat /\ j + 1 \in DOMAIN mailbox /\ mailbox'[j] = mailbox[j + 1]
    BY <1>a, <2>3, TailShape
  <2>5. ASSUME NEW h \in DOMAIN mailbox', IsData(mailbox'[h]),
               mailbox'[h].from.round = round
        PROVE  /\ mailbox'[h].from.kind = "tx" /\ ports = {}
               /\ \A j \in DOMAIN mailbox' : IsOutput(mailbox'[j]) => j <= h
    <3>1. /\ mailbox[h + 1].from.kind = "tx" /\ ports = {}
          /\ \A j \in DOMAIN mailbox : IsOutput(mailbox[j]) => j <= h + 1
      BY <2>2, <2>4, <2>5 DEF DataInv
    <3>2. \A j \in DOMAIN mailbox' : IsOutput(mailbox'[j]) => j + 1 <= h + 1
      BY <2>4, <3>1
    <3> QED
      BY <2>4, <2>5, <3>1, <3>2
  <2> QED
    BY <1>c, <2>2, <2>4, <2>5 DEF DataInv
<1>16. CASE PortLogs \/ AnswerMerges
  <2>1. PICK p \in ports : p.kind = "tx" /\ ports' \subseteq ports
    BY <1>16 DEF PortLogs, AnswerMerges
  <2>2. UNCHANGED <<minerPc, round>> /\ mailbox' = Append(mailbox, Log)
    BY <1>16 DEF PortLogs, AnswerMerges
  <2>3. minerPc = "processing"
    BY <2>1 DEF DataInv
  <2>4. /\ DOMAIN mailbox = 1 .. Len(mailbox) /\ DOMAIN mailbox' = 1 .. (Len(mailbox) + 1)
        /\ \A j \in 1 .. Len(mailbox) : mailbox'[j] = mailbox[j]
        /\ mailbox'[Len(mailbox) + 1] = Log /\ Len(mailbox) \in Nat
    BY <1>a, <2>2, AppendShape, ConstantsTyped
  <2>5. ~IsData(Log)
    BY MessageTypes DEF IsData
  <2>6. \A i \in DOMAIN mailbox' :
          IsData(mailbox'[i]) => i \in DOMAIN mailbox /\ mailbox'[i] = mailbox[i]
    BY <2>4, <2>5
  <2>7. \A i \in DOMAIN mailbox : ~(IsData(mailbox[i]) /\ mailbox[i].from.round = round)
    BY <2>1, <2>3 DEF DataInv
  <2>8. \A i \in DOMAIN mailbox' : ~(IsData(mailbox'[i]) /\ mailbox'[i].from.round = round')
    BY <2>2, <2>6, <2>7
  <2> QED
    BY <1>c, <2>1, <2>2, <2>3, <2>6, <2>8 DEF DataInv
<1>12. CASE StopMiner \/ ApplyCasts
  <2>1. UNCHANGED <<minerPc, ports, round>>
    BY <1>12 DEF StopMiner, ApplyCasts
  <2>2. CASE mailbox' = mailbox
    BY <2>1, <2>2 DEF DataInv
  <2>3. CASE mailbox' # mailbox
    <3>1. PICK m \in {Stop, Mine} : mailbox' = Append(mailbox, m)
      BY <1>12, <2>3 DEF StopMiner, ApplyCasts, CastMineNextBlock
    <3>2. minerPc \notin Inserting
      <4>1. CASE StopMiner
        BY <4>1 DEF StopMiner, HashFound
      <4>2. CASE ApplyCasts
        <5>1. InApply
          BY <4>2 DEF ApplyCasts, InApply, Applying
        <5> QED
          BY <5>1, ApplyExcludes
      <4> QED
        BY <1>12, <4>1, <4>2
    <3>3. /\ \A i \in DOMAIN mailbox' : IsOutput(mailbox'[i]) =>
               i \in DOMAIN mailbox /\ mailbox'[i] = mailbox[i]
          /\ \A i \in DOMAIN mailbox : mailbox'[i] = mailbox[i]
          /\ \A i \in DOMAIN mailbox' : i \notin DOMAIN mailbox => mailbox'[i] = m
      BY <1>a, <3>1, AppendKeepsData
    <3>4. ASSUME minerPc = "hashing", NEW i \in DOMAIN mailbox', IsOutput(mailbox'[i]),
                 NEW j \in DOMAIN mailbox', mailbox'[j] = Stop
          PROVE  j <= i
      <4>1. i \in DOMAIN mailbox /\ IsOutput(mailbox[i]) /\ IsData(mailbox[i])
        BY <3>3, <3>4 DEF DataInv
      <4>2. ~StopMiner
        BY <3>4, <4>1 DEF StopMiner, HashFound, IsData
      <4>3. mailbox' = Append(mailbox, Mine)
        BY <1>12, <2>3, <4>2 DEF ApplyCasts, CastMineNextBlock
      <4>4. \A h \in DOMAIN mailbox' : h \notin DOMAIN mailbox => mailbox'[h] = Mine
        BY <1>a, <1>b, <4>3, AppendKeepsData
      <4>5. j \in DOMAIN mailbox /\ mailbox[j] = Stop
        BY <1>b, <3>3, <3>4, <4>4
      <4> QED
        BY <3>4, <4>1, <4>5 DEF DataInv
    <3> QED
      BY <1>b, <2>1, <3>2, <3>3, <3>4 DEF DataInv
  <2> QED
    BY <2>2, <2>3
<1>13. CASE MinerNativeDies
  BY <1>13 DEF MinerNativeDies, DataInv
<1>14. CASE ReceiveBlock \/ ProcessBlock \/ ProcessBlockMerges \/ ApplyWritesMemory
            \/ ApplyWritesStorage \/ ApplyInserts \/ P2PNativeDies \/ P2PCrashes
            \/ UNCHANGED vars
  <2>1. UNCHANGED <<minerPc, mailbox, ports, round>>
    BY <1>14 DEF ReceiveBlock, ProcessBlock, ProcessBlockMerges, ApplyWritesMemory, ApplyWritesStorage,
                 ApplyInserts, P2PNativeDies, P2PCrashes, vars
  <2> QED
    BY <2>1 DEF DataInv
<1> QED
  BY <1>1, <1>2, <1>3, <1>4, <1>5, <1>6, <1>7, <1>8, <1>9, <1>10, <1>11, <1>12,
     <1>13, <1>14, <1>15, <1>16
     DEF Next, MinerNext, NativeNext, ApplyNext, FaultNext

\* A lapse is never forgotten.
LEMMA LapsesGrow == [Next]_vars => lapses \subseteq lapses'
<1> SUFFICES ASSUME [Next]_vars PROVE lapses \subseteq lapses'
  OBVIOUS
<1>1. CASE MinerRestart \/ ProcessingDone \/ HashingDone \/ StopMiner
           \/ MinerCrashes \/ P2PCrashes
  BY <1>1 DEF MinerRestart, ProcessingDone, HashingDone, StopMiner, MinerCrashes, P2PCrashes
<1>2. CASE lapses' = lapses
  BY <1>2
<1> QED
  BY <1>1, <1>2
     DEF vars, Next, MinerNext, NativeNext, ApplyNext, FaultNext,
         MinerInit, HandleStop, HandleStrayData, MineNextBlock, ProcessingStopped,
         WrongAnswer, HashingStopped, InsertBlock, InsertFails, MinerWritesMemory,
         MinerWritesStorage, MinerCasts, TxRuns, PortAnswers, PortLogs, AnswerMerges,
         ProcessingLogs, ReceiveBlock, ProcessBlock, ProcessBlockMerges, ApplyWritesMemory, ApplyWritesStorage, ApplyInserts,
         ApplyCasts, MinerNativeDies, P2PNativeDies

\* The stop protocol works while there is no lapse.
ProtocolInv == lapses = {} => LoopInv /\ DataInv

\* ProtocolInv holds at first ...
LEMMA InitProtocolInv == Init => ProtocolInv
<1> SUFFICES ASSUME Init PROVE LoopInv /\ DataInv
  BY DEF ProtocolInv
<1>1. LoopInv
  BY EmptyMailbox DEF Init, LoopInv, Idle, Busy, Inserting, InApply, Applying, Writing
<1>2. DataInv
  BY DEF Init, DataInv, Inserting
<1> QED
  BY <1>1, <1>2

\* ... and after every step.
LEMMA NextProtocolInv == TypeInv /\ ProtocolInv /\ [Next]_vars => ProtocolInv'
BY LapsesGrow, NextLoopInv, NextDataInv DEF ProtocolInv

\* As long as no stop came too late, no Miner was restarted in an apply and no
\* late answer was taken for a new one, Block.apply and Miner are never both
\* writing: for any number of rounds, blocks and crashes.
THEOREM ApplyHasStoresToItself == Spec => []StopExcludesMiner
<1>1. ProtocolInv => StopExcludesMiner
  BY ApplyExcludes DEF ProtocolInv, StopExcludesMiner, InApply
<1> QED
  BY <1>1, InitTypeInv, NextTypeInv, InitProtocolInv, NextProtocolInv, PTL DEF Spec

-----------------------------------------------------------------------------
(* One mining loop *)

Places(s, type) == {i \in DOMAIN s : s[i].type = type}

\* Places are finite sets, so that there is a number of them.
LEMMA PlacesFinite ==
  ASSUME NEW s \in Seq(Messages), NEW type
  PROVE  IsFiniteSet(Places(s, type)) /\ Cardinality(Places(s, type)) \in Nat
<1>1. Places(s, type) \subseteq 1 .. Len(s) /\ Len(s) \in Nat
  BY DEF Places
<1>2. IsFiniteSet(1 .. Len(s))
  BY <1>1, FS_Interval
<1> QED
  BY <1>1, <1>2, FS_Subset, FS_CardinalityType

\* A message at the end of the mailbox counts once.
LEMMA CountAppend ==
  ASSUME NEW s \in Seq(Messages), NEW m \in Messages, NEW type
  PROVE  Cardinality(Places(Append(s, m), type)) =
           Cardinality(Places(s, type)) + IF m.type = type THEN 1 ELSE 0
<1> DEFINE n == Len(s)
           t == Append(s, m)
<1>1. /\ n \in Nat /\ DOMAIN s = 1 .. n /\ DOMAIN t = 1 .. (n + 1)
      /\ \A j \in 1 .. n : t[j] = s[j]
      /\ t[n + 1] = m
  BY AppendShape
<1>2. IsFiniteSet(Places(s, type)) /\ Cardinality(Places(s, type)) \in Nat
  BY PlacesFinite
<1> HIDE DEF n, t
<1>3. n + 1 \notin Places(s, type)
  BY <1>1 DEF Places
<1>4. CASE m.type = type
  <2>1. Places(t, type) = Places(s, type) \cup {n + 1}
    BY <1>1, <1>4 DEF Places
  <2> QED
    BY <1>2, <1>3, <1>4, <2>1, FS_AddElement DEF t
<1>5. CASE m.type # type
  <2>1. Places(t, type) = Places(s, type)
    BY <1>1, <1>5 DEF Places
  <2> QED
    BY <1>2, <1>5, <2>1 DEF t
<1> QED
  BY <1>4, <1>5

\* So does the message that is taken from its beginning.
LEMMA CountTail ==
  ASSUME NEW s \in Seq(Messages), s # <<>>, NEW type
  PROVE  Cardinality(Places(s, type)) =
           Cardinality(Places(Tail(s), type)) + IF Head(s).type = type THEN 1 ELSE 0
<1> DEFINE n == Len(s)
           t == Tail(s)
           A == Places(t, type)
           B == Places(s, type) \ {1}
           f == [i \in A |-> i + 1]
<1>1. /\ n \in Nat /\ n >= 1 /\ DOMAIN s = 1 .. n /\ DOMAIN t = 1 .. (n - 1)
      /\ Head(s) = s[1] /\ 1 \in DOMAIN s
      /\ \A j \in 1 .. (n - 1) : t[j] = s[j + 1]
      /\ \A j \in DOMAIN s : j # 1 => j - 1 \in DOMAIN t /\ t[j - 1] = s[j]
      /\ t \in Seq(Messages)
  BY TailShape
<1>2. /\ IsFiniteSet(Places(s, type)) /\ Cardinality(Places(s, type)) \in Nat
      /\ IsFiniteSet(A) /\ Cardinality(A) \in Nat
  BY <1>1, PlacesFinite
<1> HIDE DEF n, t
<1>3. f \in Bijection(A, B)
  <2>1. \A i \in A : i \in Int /\ i + 1 \in B
    BY <1>1 DEF Places
  <2>2. \A j \in B : j \in Int /\ j - 1 \in A /\ (j - 1) + 1 = j
    BY <1>1 DEF Places
  <2>3. f \in [A -> B]
    BY <2>1
  <2>4. \A i, j \in A : f[i] = f[j] => i = j
    BY <2>1
  <2>5. \A j \in B : \E i \in A : f[i] = j
    BY <2>2
  <2> HIDE DEF A, B, f
  <2> QED
    BY <2>3, <2>4, <2>5 DEF Bijection, Injection, Surjection, IsInjective
<1>4. IsFiniteSet(B) /\ Cardinality(B) = Cardinality(A)
  <2> HIDE DEF A, B, f
  <2>1. ExistsBijection(A, B)
    BY <1>3 DEF ExistsBijection
  <2> QED
    BY <1>2, <2>1, FS_Bijection
<1>5. CASE s[1].type = type
  <2>1. 1 \in Places(s, type)
    BY <1>1, <1>5 DEF Places
  <2>2. Cardinality(B) = Cardinality(Places(s, type)) - 1
    BY <1>2, <2>1, FS_RemoveElement
  <2> QED
    BY <1>1, <1>2, <1>4, <1>5, <2>2 DEF t
<1>6. CASE s[1].type # type
  <2>1. B = Places(s, type)
    BY <1>6 DEF Places
  <2>2. Cardinality(Places(s, type)) = Cardinality(A)
    BY <1>4, <2>1
  <2> HIDE DEF A, B, f
  <2>3. Cardinality(Places(s, type)) = Cardinality(A) + 0
    BY <1>2, <2>2
  <2> QED
    BY <1>1, <1>6, <2>3 DEF t, A
<1> QED
  BY <1>5, <1>6

\* The number of rounds that are pending or running, or owed by an apply, and
\* the number of stops.
Rounds(s) == Cardinality(Places(s, "mine"))

Stops(s)  == Cardinality(Places(s, "stop"))

\* What the messages of the mailbox count.
LEMMA CountMessages ==
  ASSUME NEW s \in Seq(Messages)
  PROVE  /\ Rounds(s) \in Nat /\ Stops(s) \in Nat
         /\ Rounds(Append(s, Mine)) = Rounds(s) + 1 /\ Stops(Append(s, Mine)) = Stops(s)
         /\ Rounds(Append(s, Stop)) = Rounds(s) /\ Stops(Append(s, Stop)) = Stops(s) + 1
         /\ \A m \in Messages : ~Control(m) =>
              Rounds(Append(s, m)) = Rounds(s) /\ Stops(Append(s, m)) = Stops(s)
         /\ s # <<>> =>
              /\ Rounds(Tail(s)) \in Nat /\ Stops(Tail(s)) \in Nat
              /\ Rounds(s) = Rounds(Tail(s)) + (IF Head(s).type = "mine" THEN 1 ELSE 0)
              /\ Stops(s) = Stops(Tail(s)) + (IF Head(s).type = "stop" THEN 1 ELSE 0)
         /\ s = <<>> => Rounds(s) = 0 /\ Stops(s) = 0
<1>1. Rounds(s) \in Nat /\ Stops(s) \in Nat
  BY PlacesFinite DEF Rounds, Stops
<1>2. \A m \in Messages :
        /\ Rounds(Append(s, m)) = Rounds(s) + IF m.type = "mine" THEN 1 ELSE 0
        /\ Stops(Append(s, m)) = Stops(s) + IF m.type = "stop" THEN 1 ELSE 0
  BY CountAppend DEF Rounds, Stops
<1>3. /\ Rounds(Append(s, Mine)) = Rounds(s) + 1 /\ Stops(Append(s, Mine)) = Stops(s)
      /\ Rounds(Append(s, Stop)) = Rounds(s) /\ Stops(Append(s, Stop)) = Stops(s) + 1
  BY <1>1, <1>2, ConstantsTyped, MessageTypes
<1>4. \A m \in Messages : ~Control(m) =>
        Rounds(Append(s, m)) = Rounds(s) /\ Stops(Append(s, m)) = Stops(s)
  BY <1>1, <1>2, MessageTypes DEF Control
<1>5. ASSUME s # <<>>
      PROVE  /\ Rounds(Tail(s)) \in Nat /\ Stops(Tail(s)) \in Nat
             /\ Rounds(s) = Rounds(Tail(s)) + (IF Head(s).type = "mine" THEN 1 ELSE 0)
             /\ Stops(s) = Stops(Tail(s)) + (IF Head(s).type = "stop" THEN 1 ELSE 0)
  <2>1. Tail(s) \in Seq(Messages)
    BY <1>5, TailShape
  <2> QED
    BY <1>5, <2>1, PlacesFinite, CountTail DEF Rounds, Stops
<1>6. ASSUME s = <<>> PROVE Rounds(s) = 0 /\ Stops(s) = 0
  <2>1. Places(s, "mine") = {} /\ Places(s, "stop") = {}
    BY <1>6 DEF Places
  <2> QED
    BY <2>1, FS_EmptySet DEF Rounds, Stops
<1> QED
  BY <1>1, <1>3, <1>4, <1>5, <1>6

\* OneMiningLoop, in terms of the order of the mailbox.
BalanceInv ==
  Idle \/ Busy =>
    Rounds(mailbox) + (IF Idle THEN 0 ELSE 1) + (IF InApply THEN 1 ELSE 0)
      = 1 + Stops(mailbox)

\* Every step keeps the balance while there is no lapse.  The order of the
\* mailbox is needed for the one step that would not: an idle Miner that drops a
\* stop loses a round, but it never comes to a stop first.
LEMMA NextBalanceInv ==
  ASSUME TypeInv, LoopInv, DataInv, BalanceInv, [Next]_vars, lapses' = {}
  PROVE  BalanceInv'
<1> USE DEF storeVars, minerVars, p2pVars
<1>a. mailbox \in Seq(Messages) /\ ports \subseteq Ports /\ TypeOK
  BY DEF TypeInv, TypeOK
<1>b. Rounds(mailbox) \in Nat /\ Stops(mailbox) \in Nat
  BY <1>a, CountMessages
<1>1. CASE MinerRestart \/ HandleStrayData \/ WrongAnswer \/ MinerCrashes
  <2>1. minerPc' \in {"down", "init"}
    BY <1>1 DEF MinerRestart, HandleStrayData, WrongAnswer, MinerCrashes, Dies
  <2> QED
    BY <2>1 DEF BalanceInv, Idle, Busy, Inserting
<1>2. CASE MinerInit
  <2>1. mailbox = <<>> /\ ~InApply /\ minerPc' = "idle" /\ ~InApply'
        /\ mailbox' = Append(mailbox, Mine)
    BY <1>2 DEF MinerInit, LoopInv, CastMineNextBlock, InApply
  <2>2. Rounds(mailbox) = 0 /\ Stops(mailbox) = 0
    BY <1>a, <2>1, CountMessages
  <2>3. Rounds(mailbox') = Rounds(mailbox) + 1 /\ Stops(mailbox') = Stops(mailbox)
    BY <1>a, <2>1, CountMessages
  <2> QED
    BY <2>1, <2>2, <2>3 DEF BalanceInv, Idle
<1>3. CASE HandleStop
  <2>1. Idle /\ mailbox # <<>> /\ mailbox[1] = Stop /\ 1 \in DOMAIN mailbox
    BY <1>3, <1>a, TailShape DEF HandleStop, Idle
  <2>2. \E i \in 1 .. (1 - 1) : mailbox[i] = Mine
    BY <2>1, MessageTypes DEF LoopInv, Starts, Control
  <2> QED
    BY <2>2
<1>4. CASE MineNextBlock
  <2>1. /\ Idle /\ mailbox # <<>> /\ Head(mailbox) = Mine /\ mailbox' = Tail(mailbox)
        /\ minerPc' = "processing" /\ p2pPc' = p2pPc
    BY <1>4 DEF MineNextBlock, Idle
  <2>2. /\ Rounds(mailbox') \in Nat /\ Rounds(mailbox) = Rounds(mailbox') + 1
        /\ Stops(mailbox') \in Nat /\ Stops(mailbox) = Stops(mailbox')
    BY <1>a, <2>1, CountMessages, MessageTypes
  <2> QED
    BY <1>b, <2>1, <2>2 DEF BalanceInv, Idle, InApply
<1>5. CASE ProcessingStopped \/ HashingStopped
  <2>1. PICK i \in DOMAIN mailbox :
          Receives(i) /\ mailbox[i] = Stop /\ mailbox' = RemoveAt(mailbox, i)
    BY <1>5 DEF ProcessingStopped, HashingStopped
  <2>2. minerPc' = "idle" /\ p2pPc' = p2pPc /\ Busy /\ ~Idle
    BY <1>5 DEF ProcessingStopped, HashingStopped, Busy, Idle
  <2>3. mailbox # <<>> /\ Head(mailbox) = Stop /\ mailbox' = Tail(mailbox)
    BY <1>a, <2>1, <2>2, ReceiveTakesFirst DEF LoopInv
  <2>4. /\ Rounds(mailbox') \in Nat /\ Rounds(mailbox) = Rounds(mailbox')
        /\ Stops(mailbox') \in Nat /\ Stops(mailbox) = Stops(mailbox') + 1
    BY <1>a, <2>3, CountMessages, MessageTypes
  <2> QED
    BY <1>b, <2>2, <2>4 DEF BalanceInv, Idle, InApply
<1>6. CASE ProcessingDone \/ HashingDone \/ ProcessingLogs
  <2>1. PICK i \in DOMAIN mailbox :
          /\ Receives(i) /\ mailbox[i].type \in {"data", "log"}
          /\ mailbox' = RemoveAt(mailbox, i)
    BY <1>6, MessageTypes DEF ProcessingDone, BuildNext, HashingDone, ProcessingLogs
  <2>2. minerPc' \in {"processing", "hashing", "insert"} /\ p2pPc' = p2pPc /\ Busy /\ ~Idle
    BY <1>6 DEF ProcessingDone, BuildNext, HashingDone, ProcessingLogs, Busy, Idle
  <2>3. mailbox # <<>> /\ Head(mailbox).type \in {"data", "log"} /\ mailbox' = Tail(mailbox)
    BY <1>a, <2>1, <2>2, ReceiveTakesFirst DEF LoopInv
  <2>4. /\ Rounds(mailbox') \in Nat /\ Rounds(mailbox) = Rounds(mailbox')
        /\ Stops(mailbox') \in Nat /\ Stops(mailbox) = Stops(mailbox')
    BY <1>a, <2>3, CountMessages
  <2> QED
    BY <1>b, <2>2, <2>4 DEF BalanceInv, Idle, InApply
<1>7. CASE InsertBlock \/ InsertFails \/ MinerWritesMemory \/ MinerWritesStorage
  <2>1. /\ Busy /\ ~Idle /\ ~Idle' /\ UNCHANGED <<mailbox, p2pPc>>
    BY <1>7 DEF InsertBlock, InsertFails, MinerWritesMemory, MinerWritesStorage,
                Inserting, Busy, Idle
  <2> QED
    BY <2>1 DEF BalanceInv, InApply
<1>8. CASE MinerCasts
  <2>1. minerPc' = "idle" /\ p2pPc' = p2pPc /\ Busy /\ ~Idle
        /\ mailbox' = Append(mailbox, Mine)
    BY <1>8 DEF MinerCasts, CastMineNextBlock, Inserting, Busy, Idle
  <2>2. Rounds(mailbox') = Rounds(mailbox) + 1 /\ Stops(mailbox') = Stops(mailbox)
    BY <1>a, <2>1, CountMessages
  <2> QED
    BY <1>b, <2>1, <2>2 DEF BalanceInv, Idle, InApply
<1>9. CASE PortAnswers \/ PortLogs \/ AnswerMerges
  <2>1. PICK a \in Messages : ~Control(a) /\ mailbox' = Append(mailbox, a)
    BY <1>9, <1>a, ConstantsTyped, MessageTypes
       DEF PortAnswers, PortLogs, AnswerMerges, Control
  <2>2. UNCHANGED <<minerPc, p2pPc>>
    BY <1>9 DEF PortAnswers, PortLogs, AnswerMerges
  <2>3. Rounds(mailbox') = Rounds(mailbox) /\ Stops(mailbox') = Stops(mailbox)
    BY <1>a, <2>1, CountMessages
  <2> QED
    BY <2>2, <2>3 DEF BalanceInv, Idle, Busy, InApply
<1>10. CASE StopMiner \/ ApplyCasts
  <2>1. minerPc' = minerPc
    BY <1>10 DEF StopMiner, ApplyCasts
  <2> SUFFICES ASSUME Idle \/ Busy PROVE BalanceInv'
    BY <2>1 DEF BalanceInv, Idle, Busy
  <2>2. minerPc \notin {"down", "init"}
    BY <1>a, MinerPhases
  <2>3. CASE StopMiner
    <3>1. ~InApply /\ InApply' /\ mailbox' = Append(mailbox, Stop)
      BY <2>2, <2>3 DEF StopMiner, InApply, Applying, Writing
    <3>2. Rounds(mailbox') = Rounds(mailbox) /\ Stops(mailbox') = Stops(mailbox) + 1
      BY <1>a, <3>1, CountMessages
    <3> QED
      BY <1>b, <2>1, <3>1, <3>2 DEF BalanceInv, Idle, Busy
  <2>4. CASE ApplyCasts
    <3>1. InApply /\ ~InApply' /\ mailbox' = Append(mailbox, Mine)
      BY <2>2, <2>4 DEF ApplyCasts, CastMineNextBlock, InApply, Applying, Writing
    <3>2. Rounds(mailbox') = Rounds(mailbox) + 1 /\ Stops(mailbox') = Stops(mailbox)
      BY <1>a, <3>1, CountMessages
    <3> QED
      BY <1>b, <2>1, <3>1, <3>2 DEF BalanceInv, Idle, Busy
  <2> QED
    BY <1>10, <2>3, <2>4
<1>11. CASE TxRuns \/ MinerNativeDies \/ ReceiveBlock \/ ProcessBlock \/ ProcessBlockMerges
            \/ ApplyWritesMemory \/ ApplyWritesStorage \/ ApplyInserts \/ P2PNativeDies
            \/ P2PCrashes \/ UNCHANGED vars
  <2>1. UNCHANGED <<minerPc, mailbox>>
    BY <1>11 DEF TxRuns, MinerNativeDies, ReceiveBlock, ProcessBlock, ProcessBlockMerges,
                 ApplyWritesMemory, ApplyWritesStorage, ApplyInserts, P2PNativeDies,
                 P2PCrashes, vars
  <2>2. p2pPc \in Applying <=> p2pPc' \in Applying
    BY <1>11 DEF TxRuns, MinerNativeDies, ReceiveBlock, ProcessBlock, ProcessBlockMerges,
                 ApplyWritesMemory, ApplyWritesStorage, ApplyInserts, P2PNativeDies,
                 P2PCrashes, vars, Applying, Writing
  <2> QED
    BY <2>1, <2>2 DEF BalanceInv, Idle, Busy, InApply
<1> QED
  BY <1>1, <1>2, <1>3, <1>4, <1>5, <1>6, <1>7, <1>8, <1>9, <1>10, <1>11
     DEF Next, MinerNext, NativeNext, ApplyNext, FaultNext

\* However often the miner is stopped and resumed, the node never ends up with
\* two mining loops, or with none, unless there is a lapse.
THEOREM ThereIsOneMiningLoop == Spec => []OneMiningLoop
<1> DEFINE Inv == lapses = {} => BalanceInv
<1>1. Init => Inv
  BY DEF Init, BalanceInv, Idle, Busy, Inserting
<1>2. TypeInv /\ ProtocolInv /\ Inv /\ [Next]_vars => Inv'
  BY LapsesGrow, NextBalanceInv DEF ProtocolInv
<1>3. TypeInv /\ Inv => OneMiningLoop
  <2> SUFFICES ASSUME TypeInv, BalanceInv, minerPc \notin {"init", "down"}
               PROVE  Count("mine") + (IF minerPc = "idle" THEN 0 ELSE 1)
                                    + (IF p2pPc \in Applying THEN 1 ELSE 0)
                        = 1 + Count("stop")
    BY DEF OneMiningLoop
  <2>1. Idle \/ Busy
    BY MinerPhases DEF TypeInv
  <2>2. Count("mine") = Rounds(mailbox) /\ Count("stop") = Stops(mailbox)
    BY DEF Count, Rounds, Stops, Places
  <2> QED
    BY <2>1, <2>2 DEF BalanceInv, Idle, InApply
<1> QED
  BY <1>1, <1>2, <1>3, InitTypeInv, NextTypeInv, InitProtocolInv, NextProtocolInv, PTL
     DEF Spec

-----------------------------------------------------------------------------
(* One history *)

\* The row that was inserted last, and the stores after it was applied.
LastId    == IF chain = <<>> THEN NoBlock ELSE chain[Len(chain)].id

LastState == [mem |-> LastId, stor |-> LastId]

\* A program that works on top of the last row.
Fresh(p) == p.at = NextNumber /\ (p.ran => p.base = LastState)

\* Row i of c continues the history of the rows before it.
Continues(c, i) ==
  LET prev == IF i = 1 THEN NoBlock ELSE c[i - 1].id
  IN  /\ i > 1 => c[i].number > c[i - 1].number
      /\ c[i].at = c[i].number
      /\ c[i].base = [mem |-> prev, stor |-> prev]

\* LinearHistory without its condition on lapses.
Linear == \A i \in DOMAIN chain : Continues(chain, i)

\* The stores hold the last row unless one of the processes is writing.
StoresInv ==
  /\ minerPc \notin {"memory", "storage"} /\ p2pPc \notin Writing \ {"memory1"} =>
       memory = LastId /\ storage = LastId
  /\ minerPc \in {"memory", "storage"} => LastId = work.id
  /\ minerPc = "storage" => memory = work.id
  /\ p2pPc \in {"storage1", "memory2", "storage2", "insert"} => memory = incoming.id
  /\ p2pPc \in {"memory2", "storage2", "insert"} => storage = incoming.id

\* What P2P is applying comes after the last row and was executed on it.
IncomingInv ==
  /\ p2pPc \in {"process"} \cup Writing => incoming.number >= NextNumber
  /\ p2pPc \in {"validated", "process"} \cup Writing => incoming.at = incoming.number
  /\ p2pPc \in Writing => incoming.base = LastState

\* What Miner is working on was numbered by and executed on the last row, if no
\* stop is waiting for it.
WorkInv ==
  ~Has(mailbox, Stop) =>
    /\ minerPc = "processing" =>
         /\ \A p \in ports : Fresh(p)
         /\ \A i \in DOMAIN mailbox :
              IsData(mailbox[i]) /\ mailbox[i].from.round = round =>
                mailbox[i].from.ran /\ Fresh(mailbox[i].from)
    /\ minerPc \in {"hashing", "insert"} =>
         work.number = NextNumber /\ work.at = work.number /\ work.base = LastState

HistInv == Linear /\ StoresInv /\ IncomingInv /\ WorkInv

\* A row that is numbered by and executed on the last one continues the history.
LEMMA AppendLinear ==
  ASSUME TypeInv, Linear, NEW b \in Blocks, chain' = Append(chain, b),
         b.number >= NextNumber, b.at = b.number, b.base = LastState
  PROVE  Linear' /\ LastId' = b.id
<1> DEFINE n == Len(chain)
<1>1. chain \in Seq(Blocks) /\ BestExists
  BY DEF TypeInv, TypeOK
<1>2. /\ n \in Nat /\ DOMAIN chain = 1 .. n /\ DOMAIN chain' = 1 .. (n + 1)
      /\ \A j \in 1 .. n : chain'[j] = chain[j]
      /\ chain'[n + 1] = b /\ chain' # <<>> /\ Len(chain') = n + 1
      /\ (chain = <<>> <=> n = 0)
  BY <1>1, AppendLast
<1>3. /\ NextNumber \in Nat
      /\ \A i \in 1 .. n : chain[i].number < NextNumber
  BY <1>1, <1>2, NextNumberIsNext
<1>4. \A i \in 1 .. n : chain[i] \in Blocks
  BY <1>1, <1>2, ElementOfSeq
<1>5. b.number \in Nat /\ \A i \in 1 .. n : chain[i].number \in Nat
  BY <1>4 DEF Blocks
<1>6. LastId' = b.id
  BY <1>2 DEF LastId
<1>7. LastId = IF n = 0 THEN NoBlock ELSE chain[n].id
  BY <1>2 DEF LastId
<1> HIDE DEF n
<1>8. ASSUME NEW i \in 1 .. n PROVE Continues(chain', i)
  <2>1. Continues(chain, i) /\ chain'[i] = chain[i]
    BY <1>2 DEF Linear
  <2>2. i # 1 => i - 1 \in 1 .. n
    BY <1>2
  <2>3. i # 1 => chain'[i - 1] = chain[i - 1]
    BY <1>2, <2>2
  <2>4. CASE i = 1
    BY <2>1, <2>4 DEF Continues
  <2>5. CASE i # 1
    BY <2>1, <2>3, <2>5 DEF Continues
  <2> QED
    BY <2>4, <2>5
<1>9. Continues(chain', n + 1)
  <2>1. CASE n = 0
    BY <1>2, <1>7, <2>1 DEF LastState, Continues
  <2>2. CASE n # 0
    <3>1. n \in 1 .. n /\ chain'[n] = chain[n] /\ n + 1 # 1 /\ (n + 1) - 1 = n
      BY <1>2, <2>2
    <3>2. b.number > chain[n].number
      BY <1>3, <1>5, <3>1
    <3> QED
      BY <1>2, <1>7, <2>2, <3>1, <3>2 DEF LastState, Continues
  <2> QED
    BY <2>1, <2>2
<1>10. \A i \in DOMAIN chain' : i \in 1 .. n \/ i = n + 1
  BY <1>2
<1> QED
  BY <1>6, <1>8, <1>9, <1>10 DEF Linear

\* A step that leaves the table alone leaves these alone.
LEMMA SameChain ==
  ASSUME chain' = chain
  PROVE  /\ Linear' <=> Linear
         /\ LastId' = LastId /\ LastState' = LastState /\ NextNumber' = NextNumber
         /\ \A p : Fresh(p)' <=> Fresh(p)
BY DEF Linear, Continues, LastId, LastState, NextNumber, Fresh

\* Miner's steps keep the history while there is no lapse.
LEMMA MinerHistInv ==
  ASSUME TypeInv, LoopInv, DataInv, HistInv, MinerNext, lapses' = {}
  PROVE  HistInv'
<1> USE DEF storeVars, p2pVars
<1>a. /\ mailbox \in Seq(Messages) /\ ports \subseteq Ports /\ round \in Nat
      /\ work \in Blocks /\ chain \in Seq(Blocks)
  BY DEF TypeInv, TypeOK
<1>b. NextNumber \in Nat
  BY <1>a, NextNumberIsNext DEF TypeInv
<1>c. Stop \in {Stop, Mine} /\ Mine \in {Stop, Mine} /\ Stop # Mine
  BY MessageTypes
<1>d. chain' = chain =>
        /\ Linear' <=> Linear
        /\ LastId' = LastId /\ LastState' = LastState /\ NextNumber' = NextNumber
  BY SameChain
<1>1. CASE MinerRestart \/ MinerInit \/ HandleStop \/ HandleStrayData \/ WrongAnswer
           \/ ProcessingStopped \/ HashingStopped \/ InsertFails \/ MinerCasts
  <2>1. /\ UNCHANGED <<chain, memory, storage, p2pPc, incoming>>
        /\ minerPc \notin {"memory", "storage"}
        /\ minerPc' \notin {"memory", "storage", "processing", "hashing", "insert"}
    BY <1>1 DEF MinerRestart, MinerInit, HandleStop, HandleStrayData, WrongAnswer, Dies,
                ProcessingStopped, HashingStopped, InsertFails, MinerCasts
  <2>2. StoresInv'
    BY <1>d, <2>1 DEF HistInv, StoresInv
  <2>3. IncomingInv'
    BY <1>d, <2>1 DEF HistInv, IncomingInv
  <2>4. WorkInv'
    BY <2>1 DEF WorkInv
  <2> QED
    BY <1>d, <2>1, <2>2, <2>3, <2>4 DEF HistInv
<1>2. CASE MineNextBlock
  <2>1. /\ mailbox # <<>> /\ mailbox' = Tail(mailbox) /\ round' = round + 1
        /\ ports' = {TxPort(round + 1, NextNumber)}
        /\ minerPc = "idle" /\ minerPc' = "processing"
        /\ UNCHANGED <<chain, memory, storage, p2pPc, incoming>>
    BY <1>2 DEF MineNextBlock, DataInv
  <2>2. StoresInv'
    BY <1>d, <2>1 DEF HistInv, StoresInv
  <2>3. IncomingInv'
    BY <1>d, <2>1 DEF HistInv, IncomingInv
  <2>4. \A i \in DOMAIN mailbox' : i + 1 \in DOMAIN mailbox /\ mailbox'[i] = mailbox[i + 1]
    BY <1>a, <2>1, TailShape
  <2>5. \A i \in DOMAIN mailbox :
          IsData(mailbox[i]) => mailbox[i].from.round \in Nat /\ mailbox[i].from.round <= round
    BY <1>a, MessageTypes DEF IsData, Ports, DataInv
  <2>6. \A i \in DOMAIN mailbox' : ~(IsData(mailbox'[i]) /\ mailbox'[i].from.round = round')
    BY <1>a, <2>1, <2>4, <2>5
  <2>7. \A p \in ports' : p.at = NextNumber' /\ ~p.ran
    BY <1>d, <2>1 DEF TxPort
  <2>8. WorkInv'
    BY <2>1, <2>6, <2>7 DEF WorkInv, Fresh
  <2> QED
    BY <1>d, <2>1, <2>2, <2>3, <2>8 DEF HistInv
<1>3. CASE ProcessingDone
  <2>1. PICK i \in DOMAIN mailbox :
          /\ Receives(i) /\ IsData(mailbox[i]) /\ mailbox[i].from.round = round
          /\ mailbox' = RemoveAt(mailbox, i)
          /\ work' = BuildNext(mailbox[i].from)
    BY <1>3 DEF ProcessingDone, IsData
  <2>2. /\ minerPc = "processing" /\ minerPc' = "hashing" /\ Busy
        /\ UNCHANGED <<chain, memory, storage, p2pPc, incoming>>
    BY <1>3 DEF ProcessingDone, Busy
  <2>3. mailbox # <<>> /\ Head(mailbox) = mailbox[i] /\ mailbox' = Tail(mailbox)
    BY <1>a, <2>1, <2>2, ReceiveTakesFirst DEF LoopInv
  <2>4. Head(mailbox) # Stop
    BY <2>1, <2>3, MessageTypes DEF IsData
  <2>5. Has(mailbox, Stop) => Has(mailbox', Stop)
    BY <1>a, <1>c, <2>3, <2>4, TailOrder
  <2>6. ~Has(mailbox', Stop) => mailbox[i].from.ran /\ Fresh(mailbox[i].from)
    BY <2>1, <2>2, <2>5 DEF HistInv, WorkInv
  <2>7. WorkInv'
    BY <1>d, <2>1, <2>2, <2>6 DEF WorkInv, Fresh, BuildNext
  <2>8. StoresInv'
    BY <1>d, <2>2 DEF HistInv, StoresInv
  <2>9. IncomingInv'
    BY <1>d, <2>2 DEF HistInv, IncomingInv
  <2> QED
    BY <1>d, <2>2, <2>7, <2>8, <2>9 DEF HistInv
<1>4. CASE HashingDone
  <2>1. PICK i \in DOMAIN mailbox :
          Receives(i) /\ IsData(mailbox[i]) /\ mailbox' = RemoveAt(mailbox, i)
    BY <1>4 DEF HashingDone, IsData
  <2>2. /\ minerPc = "hashing" /\ minerPc' = "insert" /\ Busy
        /\ UNCHANGED <<chain, memory, storage, p2pPc, incoming, work>>
    BY <1>4 DEF HashingDone, Busy
  <2>3. mailbox # <<>> /\ Head(mailbox) = mailbox[i] /\ mailbox' = Tail(mailbox)
    BY <1>a, <2>1, <2>2, ReceiveTakesFirst DEF LoopInv
  <2>4. Head(mailbox) # Stop
    BY <2>1, <2>3, MessageTypes DEF IsData
  <2>5. Has(mailbox, Stop) => Has(mailbox', Stop)
    BY <1>a, <1>c, <2>3, <2>4, TailOrder
  <2>6. WorkInv'
    BY <1>d, <2>2, <2>5 DEF HistInv, WorkInv
  <2>7. StoresInv'
    BY <1>d, <2>2 DEF HistInv, StoresInv
  <2>8. IncomingInv'
    BY <1>d, <2>2 DEF HistInv, IncomingInv
  <2> QED
    BY <1>d, <2>2, <2>6, <2>7, <2>8 DEF HistInv
<1>8. CASE ProcessingLogs
  <2>1. PICK i \in DOMAIN mailbox :
          Receives(i) /\ mailbox[i] = Log /\ mailbox' = RemoveAt(mailbox, i)
    BY <1>8 DEF ProcessingLogs
  <2>2. /\ minerPc = "processing" /\ Busy
        /\ UNCHANGED <<chain, memory, storage, minerPc, ports, round, p2pPc, incoming, work>>
    BY <1>8 DEF ProcessingLogs, Busy
  <2>3. mailbox # <<>> /\ Head(mailbox) = mailbox[i] /\ mailbox' = Tail(mailbox)
    BY <1>a, <2>1, <2>2, ReceiveTakesFirst DEF LoopInv
  <2>4. Head(mailbox) # Stop
    BY <2>1, <2>3, MessageTypes
  <2>5. Has(mailbox, Stop) => Has(mailbox', Stop)
    BY <1>a, <1>c, <2>3, <2>4, TailOrder
  <2>6. \A j \in DOMAIN mailbox' : j + 1 \in DOMAIN mailbox /\ mailbox'[j] = mailbox[j + 1]
    BY <1>a, <2>3, TailShape
  <2>7. WorkInv'
    BY <1>d, <2>2, <2>5, <2>6 DEF HistInv, WorkInv, Fresh
  <2>8. StoresInv'
    BY <1>d, <2>2 DEF HistInv, StoresInv
  <2>9. IncomingInv'
    BY <1>d, <2>2 DEF HistInv, IncomingInv
  <2> QED
    BY <1>d, <2>2, <2>7, <2>8, <2>9 DEF HistInv
<1>5. CASE InsertBlock
  <2>1. /\ minerPc = "insert" /\ minerPc' = "memory" /\ chain' = Append(chain, work)
        /\ UNCHANGED <<memory, storage, mailbox, p2pPc, incoming, work>>
    BY <1>5 DEF InsertBlock
  <2>2. mailbox = <<>> /\ ~InApply
    BY <2>1, ApplyExcludes DEF DataInv, Inserting
  <2>3. work.number = NextNumber /\ work.at = work.number /\ work.base = LastState
    BY <2>1, <2>2, EmptyMailbox DEF HistInv, WorkInv
  <2>4. Linear' /\ LastId' = work.id
    BY <1>a, <1>b, <2>1, <2>3, AppendLinear DEF HistInv
  <2>5. p2pPc \notin {"process"} \cup Writing
    BY <2>2 DEF InApply, Applying
  <2>6. StoresInv'
    BY <2>1, <2>4, <2>5 DEF StoresInv, Writing
  <2>7. IncomingInv'
    BY <2>1, <2>5 DEF HistInv, IncomingInv
  <2>8. WorkInv'
    BY <2>1 DEF WorkInv
  <2> QED
    BY <2>4, <2>6, <2>7, <2>8 DEF HistInv
<1>6. CASE MinerWritesMemory
  <2>1. /\ minerPc = "memory" /\ minerPc' = "storage" /\ memory' = work.id
        /\ UNCHANGED <<chain, storage, p2pPc, incoming, work>>
    BY <1>6 DEF MinerWritesMemory
  <2>2. p2pPc \notin Writing
    BY <2>1, ApplyExcludes DEF InApply, Inserting, Applying
  <2>3. StoresInv'
    BY <1>d, <2>1, <2>2 DEF HistInv, StoresInv, Writing
  <2>4. IncomingInv'
    BY <1>d, <2>1 DEF HistInv, IncomingInv
  <2>5. WorkInv'
    BY <2>1 DEF WorkInv
  <2> QED
    BY <1>d, <2>1, <2>3, <2>4, <2>5 DEF HistInv
<1>7. CASE MinerWritesStorage
  <2>1. /\ minerPc = "storage" /\ minerPc' = "cast" /\ storage' = work.id
        /\ UNCHANGED <<chain, memory, p2pPc, incoming, work>>
    BY <1>7 DEF MinerWritesStorage
  <2>2. p2pPc \notin Writing
    BY <2>1, ApplyExcludes DEF InApply, Inserting, Applying
  <2>3. StoresInv'
    BY <1>d, <2>1, <2>2 DEF HistInv, StoresInv, Writing
  <2>4. IncomingInv'
    BY <1>d, <2>1 DEF HistInv, IncomingInv
  <2>5. WorkInv'
    BY <2>1 DEF WorkInv
  <2> QED
    BY <1>d, <2>1, <2>3, <2>4, <2>5 DEF HistInv
<1> QED
  BY <1>1, <1>2, <1>3, <1>4, <1>5, <1>6, <1>7, <1>8 DEF MinerNext

\* So do the steps of the programs and of P2P, and the failures.
LEMMA OthersHistInv ==
  ASSUME TypeInv, LoopInv, DataInv, HistInv, lapses' = {},
         NativeNext \/ ReceiveBlock \/ ApplyNext \/ FaultNext \/ UNCHANGED vars
  PROVE  HistInv'
<1> USE DEF storeVars, minerVars, p2pVars
<1>a. /\ mailbox \in Seq(Messages) /\ ports \subseteq Ports /\ round \in Nat
      /\ incoming \in Blocks /\ chain \in Seq(Blocks)
  BY DEF TypeInv, TypeOK
<1>b. NextNumber \in Nat /\ incoming.number \in Nat
  BY <1>a, NextNumberIsNext DEF TypeInv, Blocks
<1>c. Stop \in {Stop, Mine} /\ Mine \in {Stop, Mine} /\ Stop # Mine
  BY MessageTypes
<1>d. chain' = chain =>
        /\ Linear' <=> Linear
        /\ LastId' = LastId /\ LastState' = LastState /\ NextNumber' = NextNumber
  BY SameChain
<1>e. InApply => minerPc \notin {"insert", "memory", "storage"}
  BY ApplyExcludes DEF Inserting
<1>f. minerPc \in {"processing", "hashing"} /\ InApply => Has(mailbox, Stop)
  BY DEF LoopInv, Busy
<1>1. CASE TxRuns
  <2>1. PICK p \in ports :
          ports' = (ports \ {p}) \cup {[p EXCEPT !.ran = TRUE, !.base = CurrentState]}
    BY <1>1 DEF TxRuns
  <2> DEFINE q == [p EXCEPT !.ran = TRUE, !.base = CurrentState]
  <2>2. UNCHANGED <<chain, memory, storage, minerPc, mailbox, round, work, p2pPc, incoming>>
    BY <1>1 DEF TxRuns
  <2>3. p \in Ports
    BY <1>a
  <2>4. q.at = p.at /\ q.base = CurrentState
    BY <2>3 DEF Ports
  <2>5. ports' = {q}
    BY <2>1 DEF DataInv
  <2> HIDE DEF q
  <2>6. ASSUME minerPc = "processing", ~Has(mailbox, Stop)
        PROVE  q.at = NextNumber /\ q.base = LastState
    <3>1. p.at = NextNumber
      BY <2>6 DEF HistInv, WorkInv, Fresh
    <3>2. ~InApply
      BY <1>f, <2>6
    <3>3. memory = LastId /\ storage = LastId
      BY <2>6, <3>2 DEF HistInv, StoresInv, InApply, Applying
    <3> QED
      BY <2>4, <3>1, <3>3 DEF CurrentState, LastState
  <2>7. WorkInv'
    BY <1>d, <2>2, <2>5, <2>6 DEF HistInv, WorkInv, Fresh
  <2>8. StoresInv'
    BY <1>d, <2>2 DEF HistInv, StoresInv
  <2>9. IncomingInv'
    BY <1>d, <2>2 DEF HistInv, IncomingInv
  <2> QED
    BY <1>d, <2>2, <2>7, <2>8, <2>9 DEF HistInv
<1>2. CASE PortAnswers
  <2>1. PICK p \in ports :
          p.ran /\ mailbox' = Append(mailbox, Answer(p)) /\ ports' = ports \ {p}
    BY <1>2 DEF PortAnswers
  <2>2. UNCHANGED <<chain, memory, storage, minerPc, round, work, p2pPc, incoming>>
    BY <1>2 DEF PortAnswers
  <2>3. Has(mailbox, Stop) <=> Has(mailbox', Stop)
    BY <1>a, <1>c, <2>1, AppendOutput, ConstantsTyped, MessageTypes DEF Control
  <2>4. \A i \in DOMAIN mailbox' :
          mailbox'[i] = Answer(p) \/ (i \in DOMAIN mailbox /\ mailbox'[i] = mailbox[i])
    BY <1>a, <2>1, AppendShape, ConstantsTyped
  <2>5. Answer(p).from = p
    BY MessageTypes
  <2>6. WorkInv'
    <3> SUFFICES ASSUME ~Has(mailbox, Stop) PROVE WorkInv'
      BY <2>3 DEF WorkInv
    <3>1. CASE minerPc = "processing"
      <4>1. \A x \in ports' : Fresh(x)
        BY <2>1, <3>1 DEF HistInv, WorkInv
      <4>2. \A i \in DOMAIN mailbox' :
              IsData(mailbox'[i]) /\ mailbox'[i].from.round = round' =>
                mailbox'[i].from.ran /\ Fresh(mailbox'[i].from)
        BY <2>1, <2>2, <2>4, <2>5, <3>1 DEF HistInv, WorkInv
      <4> QED
        BY <1>d, <2>2, <3>1, <4>1, <4>2 DEF WorkInv, Fresh
    <3>2. CASE minerPc # "processing"
      BY <1>d, <2>2, <3>2 DEF HistInv, WorkInv
    <3> QED
      BY <3>1, <3>2
  <2>7. StoresInv'
    BY <1>d, <2>2 DEF HistInv, StoresInv
  <2>8. IncomingInv'
    BY <1>d, <2>2 DEF HistInv, IncomingInv
  <2> QED
    BY <1>d, <2>2, <2>6, <2>7, <2>8 DEF HistInv
<1>14. CASE PortLogs \/ AnswerMerges
  <2>1. mailbox' = Append(mailbox, Log) /\ ports' \subseteq ports
    BY <1>14 DEF PortLogs, AnswerMerges
  <2>2. UNCHANGED <<chain, memory, storage, minerPc, round, work, p2pPc, incoming>>
    BY <1>14 DEF PortLogs, AnswerMerges
  <2>3. Has(mailbox, Stop) <=> Has(mailbox', Stop)
    BY <1>a, <1>c, <2>1, AppendOutput, ConstantsTyped, MessageTypes DEF Control
  <2>4. \A i \in DOMAIN mailbox' :
          mailbox'[i] = Log \/ (i \in DOMAIN mailbox /\ mailbox'[i] = mailbox[i])
    BY <1>a, <2>1, AppendShape, ConstantsTyped
  <2>5. ~IsData(Log)
    BY MessageTypes DEF IsData
  <2>6. WorkInv'
    BY <1>d, <2>1, <2>2, <2>3, <2>4, <2>5 DEF HistInv, WorkInv, Fresh
  <2>7. StoresInv'
    BY <1>d, <2>2 DEF HistInv, StoresInv
  <2>8. IncomingInv'
    BY <1>d, <2>2 DEF HistInv, IncomingInv
  <2> QED
    BY <1>d, <2>2, <2>6, <2>7, <2>8 DEF HistInv
<1>3. CASE ReceiveBlock
  <2>1. /\ p2pPc = "idle" /\ p2pPc' = "validated" /\ incoming'.at = incoming'.number
        /\ UNCHANGED <<chain, memory, storage, minerPc, mailbox, ports, round, work>>
    BY <1>3 DEF ReceiveBlock
  <2>2. StoresInv'
    BY <1>d, <2>1 DEF HistInv, StoresInv, Writing
  <2>3. IncomingInv'
    BY <2>1 DEF IncomingInv, Writing
  <2>4. WorkInv'
    BY <1>d, <2>1 DEF HistInv, WorkInv, Fresh
  <2> QED
    BY <1>d, <2>1, <2>2, <2>3, <2>4 DEF HistInv
<1>4. CASE StopMiner
  <2>1. /\ p2pPc = "validated" /\ p2pPc' = "process" /\ ~(incoming.number < NextNumber)
        /\ minerPc \notin Inserting /\ minerPc # "init"
        /\ UNCHANGED <<chain, memory, storage, minerPc, ports, round, work, incoming>>
    BY <1>4 DEF StopMiner, HashFound
  <2>2. StoresInv'
    BY <1>d, <2>1 DEF HistInv, StoresInv, Writing
  <2>3. incoming.at = incoming.number /\ incoming.number >= NextNumber
    BY <1>b, <2>1 DEF HistInv, IncomingInv
  <2>4. IncomingInv'
    BY <1>d, <2>1, <2>3 DEF IncomingInv, Writing
  <2>5. minerPc # "down" => Has(mailbox', Stop)
    BY <1>4, <1>a, <1>c, AppendControl DEF StopMiner
  <2>6. WorkInv'
    BY <2>1, <2>5 DEF WorkInv
  <2> QED
    BY <1>d, <2>1, <2>2, <2>4, <2>6 DEF HistInv
<1>5. CASE ProcessBlock
  <2>1. /\ p2pPc = "process" /\ p2pPc' = "memory1"
        /\ incoming' = [incoming EXCEPT !.base = CurrentState]
        /\ UNCHANGED <<chain, memory, storage, minerPc, mailbox, ports, round, work>>
    BY <1>5 DEF ProcessBlock
  <2>2. memory = LastId /\ storage = LastId
    BY <1>e, <2>1 DEF HistInv, StoresInv, InApply, Applying, Writing
  <2>3. incoming'.base = LastState /\ incoming'.at = incoming.at
        /\ incoming'.number = incoming.number
    BY <1>a, <2>1, <2>2 DEF Blocks, CurrentState, LastState
  <2>4. IncomingInv'
    BY <1>d, <2>1, <2>3 DEF HistInv, IncomingInv, Writing
  <2>5. StoresInv'
    BY <1>d, <1>e, <2>1, <2>2 DEF StoresInv, InApply, Applying, Writing
  <2>6. WorkInv'
    BY <1>d, <2>1 DEF HistInv, WorkInv, Fresh
  <2> QED
    BY <1>d, <2>1, <2>4, <2>5, <2>6 DEF HistInv
<1>6. CASE ApplyWritesMemory \/ ApplyWritesStorage
  <2>1. /\ UNCHANGED <<chain, minerPc, mailbox, ports, round, work, incoming>>
        /\ p2pPc \in Writing /\ p2pPc' \in Writing /\ InApply
    BY <1>6 DEF ApplyWritesMemory, ApplyWritesStorage, Writing, InApply, Applying
  <2>2. StoresInv'
    BY <1>6, <1>d, <1>e, <2>1
       DEF ApplyWritesMemory, ApplyWritesStorage, HistInv, StoresInv, Writing
  <2>3. IncomingInv'
    BY <1>d, <2>1 DEF HistInv, IncomingInv
  <2>4. WorkInv'
    BY <1>d, <2>1 DEF HistInv, WorkInv, Fresh
  <2> QED
    BY <1>d, <2>1, <2>2, <2>3, <2>4 DEF HistInv
<1>7. CASE ApplyInserts
  <2>1. /\ p2pPc = "insert" /\ p2pPc' = "cast" /\ chain' = Append(chain, incoming)
        /\ UNCHANGED <<memory, storage, minerPc, mailbox, ports, round, work, incoming>>
    BY <1>7 DEF ApplyInserts
  <2>2. /\ incoming.number >= NextNumber /\ incoming.at = incoming.number
        /\ incoming.base = LastState /\ memory = incoming.id /\ storage = incoming.id
    BY <2>1 DEF HistInv, IncomingInv, StoresInv, Writing
  <2>3. Linear' /\ LastId' = incoming.id
    BY <1>a, <1>b, <2>1, <2>2, AppendLinear DEF HistInv
  <2>4. InApply
    BY <2>1 DEF InApply, Applying, Writing
  <2>5. StoresInv'
    BY <1>e, <2>1, <2>2, <2>3, <2>4 DEF StoresInv, Writing
  <2>6. IncomingInv'
    BY <2>1 DEF IncomingInv, Writing
  <2>7. WorkInv'
    BY <1>e, <1>f, <2>1, <2>4 DEF WorkInv
  <2> QED
    BY <2>3, <2>5, <2>6, <2>7 DEF HistInv
<1>8. CASE ApplyCasts
  <2>1. /\ p2pPc = "cast" /\ p2pPc' = "idle" /\ InApply
        /\ UNCHANGED <<chain, memory, storage, minerPc, ports, round, work>>
    BY <1>8 DEF ApplyCasts, InApply, Applying
  <2>2. StoresInv'
    BY <1>d, <1>e, <2>1 DEF HistInv, StoresInv, Writing
  <2>3. IncomingInv'
    BY <2>1 DEF IncomingInv, Writing
  <2>4. Has(mailbox, Stop) => Has(mailbox', Stop)
    BY <1>8, <1>a, <1>c, AppendControl DEF ApplyCasts, CastMineNextBlock
  <2>5. WorkInv'
    BY <1>e, <1>f, <2>1, <2>4 DEF WorkInv
  <2> QED
    BY <1>d, <2>1, <2>2, <2>3, <2>5 DEF HistInv
<1>9. CASE MinerCrashes
  <2>1. /\ minerPc \notin {"memory", "storage"} /\ minerPc' = "down"
        /\ UNCHANGED <<chain, memory, storage, p2pPc, incoming>>
    BY <1>9 DEF MinerCrashes, Dies
  <2>2. StoresInv'
    BY <1>d, <2>1 DEF HistInv, StoresInv
  <2>3. IncomingInv'
    BY <1>d, <2>1 DEF HistInv, IncomingInv
  <2>4. WorkInv'
    BY <2>1 DEF WorkInv
  <2> QED
    BY <1>d, <2>1, <2>2, <2>3, <2>4 DEF HistInv
<1>10. CASE P2PCrashes
  <2>1. /\ p2pPc \notin Applying /\ p2pPc' = "idle"
        /\ UNCHANGED <<chain, memory, storage, minerPc, mailbox, ports, round, work>>
    BY <1>10 DEF P2PCrashes
  <2>2. StoresInv'
    BY <1>d, <2>1 DEF HistInv, StoresInv, Applying, Writing
  <2>3. IncomingInv'
    BY <2>1 DEF IncomingInv, Writing
  <2>4. WorkInv'
    BY <1>d, <2>1 DEF HistInv, WorkInv, Fresh
  <2> QED
    BY <1>d, <2>1, <2>2, <2>3, <2>4 DEF HistInv
<1>11. CASE MinerNativeDies
  <2>1. /\ ports' \subseteq ports
        /\ UNCHANGED <<chain, memory, storage, minerPc, mailbox, round, work, p2pPc, incoming>>
    BY <1>11 DEF MinerNativeDies
  <2>2. StoresInv'
    BY <1>d, <2>1 DEF HistInv, StoresInv
  <2>3. IncomingInv'
    BY <1>d, <2>1 DEF HistInv, IncomingInv
  <2>4. WorkInv'
    BY <1>d, <2>1 DEF HistInv, WorkInv, Fresh
  <2> QED
    BY <1>d, <2>1, <2>2, <2>3, <2>4 DEF HistInv
<1>12. CASE P2PNativeDies \/ ProcessBlockMerges
  <2>1. /\ p2pPc = "process" /\ p2pPc' = "stuck"
        /\ UNCHANGED <<chain, memory, storage, minerPc, mailbox, ports, round, work, incoming>>
    BY <1>12 DEF P2PNativeDies, ProcessBlockMerges
  <2>2. StoresInv'
    BY <1>d, <2>1 DEF HistInv, StoresInv, Writing
  <2>3. IncomingInv'
    BY <2>1 DEF IncomingInv, Writing
  <2>4. WorkInv'
    BY <1>d, <2>1 DEF HistInv, WorkInv, Fresh
  <2> QED
    BY <1>d, <2>1, <2>2, <2>3, <2>4 DEF HistInv
<1>13. CASE UNCHANGED vars
  BY <1>13, <1>d DEF vars, HistInv, StoresInv, IncomingInv, WorkInv, Fresh
<1> QED
  BY <1>1, <1>2, <1>3, <1>4, <1>5, <1>6, <1>7, <1>8, <1>9, <1>10, <1>11, <1>12,
     <1>13, <1>14
     DEF NativeNext, ApplyNext, FaultNext

\* While there is no lapse the table is one history: whatever Miner and P2P
\* interleave, every row was numbered after, and executed on the state of, the
\* row before it.
THEOREM RowsAreOneHistory == Spec => []LinearHistory
<1> DEFINE Inv == lapses = {} => HistInv
<1>1. Init => Inv
  BY DEF Init, HistInv, Linear, StoresInv, IncomingInv, WorkInv, LastId, Writing
<1>2. TypeInv /\ ProtocolInv /\ Inv /\ [Next]_vars => Inv'
  BY LapsesGrow, MinerHistInv, OthersHistInv DEF ProtocolInv, Next
<1>3. Inv => LinearHistory
  BY DEF HistInv, Linear, Continues, LinearHistory
<1> QED
  BY <1>1, <1>2, <1>3, InitTypeInv, NextTypeInv, InitProtocolInv, NextProtocolInv, PTL
     DEF Spec
=============================================================================
