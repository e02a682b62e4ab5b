-------------------------- MODULE TransactionQueue --------------------------
(***************************************************************************)
(* The way of a transaction into a block: it is pushed to the Redis list   *)
(* "transactions::queued"; a transaction_processor started by Miner moves  *)
(* it to "transactions::processing", executes it and returns it to Miner,  *)
(* which puts it in its next block.  Miner takes the answer of whatever    *)
(* program comes first; where the casts stand among the answers in its     *)
(* mailbox is left open here (MiningNode keeps the whole mailbox).         *)
(*                                                                         *)
(* process_new_block never looks at its input, so that a program whose     *)
(* port Miner has closed goes on taking transactions, beside the program   *)
(* of the next round, until its time is up.                                *)
(***************************************************************************)
EXTENDS Integers, Sequences, FiniteSets, SequencesExt

CONSTANTS
  MaxPosts,  \* bound on the transactions that are posted
  MaxRounds, \* bound on the mining rounds
  MaxFaults  \* bound on the programs that die

ASSUME ConstantsAssumption ==
  MaxPosts \in Nat /\ MaxRounds \in Nat /\ MaxFaults \in Nat

VARIABLES
  queued,     \* list "transactions::queued", newest first
  processing, \* list "transactions::processing", newest first
  posted,     \* number of transactions posted so far; they are named 1, 2, ...
  programs,   \* the programs that run process_new_block
  miner,      \* "idle", "processing" or "hashing"
  round,      \* number of rounds started
  answers,    \* answers of programs in Miner's mailbox
  work,       \* transactions of the block that is being hashed
  blocks,     \* the transactions of each block that was mined
  faults,     \* number of programs that died
  lapses      \* history: the ways in which transactions were lost

minerVars == <<miner, round, answers, work, blocks>>
vars == <<queued, processing, posted, programs, minerVars, faults, lapses>>

-----------------------------------------------------------------------------
\* The bytes in the lists: a transaction as TransactionView.as_map encodes it,
\* or as transaction_processor encodes its own struct.  They are never the same:
\* the fields are ordered differently, and the map of a struct has more of them.
AsPosted(t)  == <<"map", t>>
AsRecoded(t) == <<"struct", t>>
Entries == {"map", "struct"} \X Nat

\* A program: the transactions it has completed, the one it is executing (at
\* most one), and whether its port is open.
Programs == [round : Nat, completed : Seq(Nat), current : Seq(Nat), open : BOOLEAN]

Answers == [round : Nat, completed : Seq(Nat)]

LapseKinds == {"stopped", "insert_failed", "program_died", "miner_died", "late_answer"}

\* Mutant of Post: RPUSH.
Post_AtOldEnd == queued' = Append(queued, AsPosted(posted + 1)) /\ posted' = posted + 1

\* Transaction.post: LPUSH.
Post == queued' = <<AsPosted(posted + 1)>> \o queued /\ posted' = posted + 1

-----------------------------------------------------------------------------
Init ==
  /\ queued = <<>> /\ processing = <<>> /\ posted = 0 /\ programs = {}
  /\ miner = "idle" /\ round = 0 /\ answers = <<>> /\ work = <<>> /\ blocks = <<>>
  /\ faults = 0 /\ lapses = {}

\* POST /transactions with a valid signature, or a transaction from a peer.
Receive ==
  /\ posted < MaxPosts
  /\ Post
  /\ UNCHANGED <<processing, programs, minerVars, faults, lapses>>

\* mine_next_block: mint, and a program is started.
MineNextBlock ==
  /\ miner = "idle" /\ round < MaxRounds /\ posted < MaxPosts
  /\ Post
  /\ round' = round + 1
  /\ programs' = programs \cup
       {[round |-> round', completed |-> <<>>, current |-> <<>>, open |-> TRUE]}
  /\ miner' = "processing"
  /\ UNCHANGED <<processing, answers, work, blocks, faults, lapses>>

\* Mutant of GetNextTransaction: RPOP.
GetNextTransaction_Pops(p) ==
  /\ p.current = <<>> /\ queued # <<>>
  /\ queued' = Front(queued)
  /\ programs' = (programs \ {p}) \cup {[p EXCEPT !.current = <<Last(queued)[2]>>]}
  /\ UNCHANGED <<processing, posted, minerVars, faults, lapses>>

\* get_next_transaction: RPOPLPUSH.
GetNextTransaction(p) ==
  /\ p.current = <<>> /\ queued # <<>>
  /\ queued' = Front(queued)
  /\ processing' = <<Last(queued)>> \o processing
  /\ programs' = (programs \ {p}) \cup {[p EXCEPT !.current = <<Last(queued)[2]>>]}
  /\ UNCHANGED <<posted, minerVars, faults, lapses>>

\* LREM with count 0: every e is removed, a list without one is left alone.
LRem(list, e) ==
  IF \E i \in DOMAIN list : list[i] = e THEN Remove(list, e) ELSE list

\* Mutant of RunTransaction: a transaction that fails is not completed.
RunTransaction_Skips(p) ==
  /\ p.current # <<>>
  /\ processing' = LRem(processing, AsRecoded(p.current[1]))
  /\ \E done \in {<<>>, p.current} :
       programs' = (programs \ {p}) \cup
         {[p EXCEPT !.completed = @ \o done, !.current = <<>>]}
  /\ UNCHANGED <<queued, posted, minerVars, faults, lapses>>

\* run_transaction, and remove_from_processing: LREM of the transaction as this
\* program encodes it.
RunTransaction(p) ==
  /\ p.current # <<>>
  /\ processing' = LRem(processing, AsRecoded(p.current[1]))
  /\ programs' = (programs \ {p}) \cup
       {[p EXCEPT !.completed = @ \o p.current, !.current = <<>>]}
  /\ UNCHANGED <<queued, posted, minerVars, faults, lapses>>

\* Mutant of ReturnCompleted: Miner takes the answer of a program it has stopped.
ReturnCompleted_Late(p) ==
  /\ p.current = <<>>
  /\ programs' = programs \ {p}
  /\ answers' = Append(answers, [round |-> p.round, completed |-> p.completed])
  /\ UNCHANGED <<queued, processing, posted, miner, round, work, blocks, faults, lapses>>

\* The time is up: return_completed_transactions.  The answer of a program whose
\* port is closed goes nowhere.
ReturnCompleted(p) ==
  /\ p.current = <<>>
  /\ programs' = programs \ {p}
  /\ answers' = IF p.open
                  THEN Append(answers, [round |-> p.round, completed |-> p.completed])
                  ELSE answers
  /\ UNCHANGED <<queued, processing, posted, miner, round, work, blocks, faults, lapses>>

\* A program panics.  Miner, if it listens, goes on waiting.  An answer that
\* receive_native drops, because a contract's log came with it, has the same
\* effect: the program is gone and nothing was heard of it.
ProgramDies(p) ==
  /\ faults < MaxFaults
  /\ programs' = programs \ {p}
  /\ faults' = faults + 1
  /\ lapses' = lapses \cup {"program_died"}
  /\ UNCHANGED <<queued, processing, posted, minerVars>>

\* process_new_block receives an answer, of whichever port.
ProcessingDone ==
  /\ miner = "processing" /\ answers # <<>>
  /\ work' = Head(answers).completed /\ answers' = Tail(answers)
  /\ miner' = "hashing"
  /\ lapses' = lapses \cup (IF Head(answers).round = round THEN {} ELSE {"late_answer"})
  /\ UNCHANGED <<queued, processing, posted, programs, round, blocks, faults>>

\* process_new_block receives :stop and closes the port of its program ...
ProcessingStopped ==
  /\ miner = "processing"
  /\ programs' = {IF p.round = round THEN [p EXCEPT !.open = FALSE] ELSE p : p \in programs}
  /\ miner' = "idle"
  /\ lapses' = lapses \cup {"stopped"}
  /\ UNCHANGED <<queued, processing, posted, round, answers, work, blocks, faults>>

\* ... or Hashfactor.run does.
HashingStopped ==
  /\ miner = "hashing"
  /\ miner' = "idle" /\ work' = <<>>
  /\ lapses' = lapses \cup {"stopped"}
  /\ UNCHANGED <<queued, processing, posted, programs, round, answers, blocks, faults>>

\* The proof of work is found and the block inserted ...
InsertBlock ==
  /\ miner = "hashing"
  /\ blocks' = Append(blocks, work)
  /\ miner' = "idle" /\ work' = <<>>
  /\ UNCHANGED <<queued, processing, posted, programs, round, answers, faults, lapses>>

\* ... or not.
InsertFails ==
  /\ miner = "hashing"
  /\ miner' = "idle" /\ work' = <<>>
  /\ lapses' = lapses \cup {"insert_failed"}
  /\ UNCHANGED <<queued, processing, posted, programs, round, answers, blocks, faults>>

\* Miner dies of an answer it did not expect: one that Hashfactor.run takes for a
\* number, or one for which handle_info has no clause.  Its ports are closed.
\* (Other crashes of Miner do to the queue what a stop does.)
MinerDies ==
  /\ miner \in {"hashing", "idle"} /\ answers # <<>>
  /\ programs' = {[p EXCEPT !.open = FALSE] : p \in programs}
  /\ miner' = "idle" /\ answers' = <<>> /\ work' = <<>>
  /\ lapses' = lapses \cup {"miner_died"}
  /\ UNCHANGED <<queued, processing, posted, round, blocks, faults>>

ProgramStep(p) ==
  \/ GetNextTransaction(p) \/ RunTransaction(p) \/ ReturnCompleted(p) \/ ProgramDies(p)

Next ==
  \/ Receive \/ MineNextBlock \/ ProcessingDone \/ ProcessingStopped
  \/ HashingStopped \/ InsertBlock \/ InsertFails \/ MinerDies
  \/ \E p \in programs : ProgramStep(p)

Spec == Init /\ [][Next]_vars

-----------------------------------------------------------------------------
(* Properties *)

\* Where a transaction is that may still be mined ...
Pending ==
  ToSet(work)
    \cup (UNION {ToSet(p.completed) \cup ToSet(p.current) : p \in {q \in programs : q.open}})
    \cup (UNION {ToSet(answers[i].completed) : i \in DOMAIN answers})
    \cup {queued[i][2] : i \in DOMAIN queued}

\* ... and one that is not lost.
InHand == Pending \cup (UNION {ToSet(blocks[b]) : b \in DOMAIN blocks})

\* Type invariant of the queue.
TypeOK ==
  /\ queued \in Seq(Entries) /\ processing \in Seq(Entries) /\ posted \in Nat
  /\ programs \subseteq Programs
  /\ miner \in {"idle", "processing", "hashing"} /\ round \in Nat
  /\ answers \in Seq(Answers)
  /\ work \in Seq(Nat) /\ blocks \in Seq(Seq(Nat))
  /\ faults \in Nat /\ lapses \subseteq LapseKinds

\* Programs of stopped rounds take transactions beside the current one, and still
\* no transaction is in two of the blocks that this node mines; they are mined in
\* the order in which they were posted, unless a round was given the answer of the
\* program of an earlier one.
MinedOnceInOrder ==
  \A b, c \in DOMAIN blocks : \A i \in DOMAIN blocks[b], j \in DOMAIN blocks[c] :
    b < c \/ (b = c /\ i < j) =>
      /\ blocks[b][i] # blocks[c][j]
      /\ "late_answer" \notin lapses => blocks[b][i] < blocks[c][j]

\* A transaction that was posted is queued, in the hands of the current round, or
\* mined, unless a round was stopped, an insert failed, or a program or the miner
\* died.
LostOnlyByLapse == lapses = {} => 1 .. posted \subseteq InHand

\* What is lost can be found again: every transaction that was ever posted is in
\* one of the two lists (none is ever removed from the second one).
NothingForgotten ==
  \A t \in 1 .. posted :
    \/ \E i \in DOMAIN queued : queued[i] = AsPosted(t)
    \/ \E i \in DOMAIN processing : processing[i] = AsPosted(t)

Pool == INSTANCE TransactionPool WITH
          submitted <- posted, pool <- Pending, chain <- blocks, intact <- lapses = {}

\* Two lists, programs that outlive their round, and answers in a mailbox make a
\* pool of transactions: a block takes transactions that were posted, each once and
\* in order, and the oldest ones while nothing has failed; what was lost with a
\* round that failed is not mined by a later one, although its program goes on.
ImplementsTransactionPool == Pool!Spec
=============================================================================
