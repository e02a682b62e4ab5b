----------------------------- MODULE MiningNode -----------------------------
(***************************************************************************)
(* One ellipticoind node: the Miner process, the P2P process that applies  *)
(* blocks of other nodes, the native programs each of them starts, the     *)
(* table of blocks and the two state stores.                               *)
(*                                                                         *)
(* Miner and P2P are Erlang processes.  P2P keeps Miner out of the stores  *)
(* with a `:stop' message and lets it back in with a "mine next block"     *)
(* cast; there is no lock and no acknowledgement.  The module keeps every  *)
(* step between which the other process may run, the order of Miner's      *)
(* mailbox (its receives are selective) and crashes; of a block it keeps   *)
(* its number, the height its transactions were executed at, and the state *)
(* they were executed on.                                                  *)
(***************************************************************************)
EXTENDS Integers, Sequences, FiniteSets, SequencesExt

CONSTANTS
  PeerNumbers,  \* numbers of the valid blocks that peers may send
  MaxRounds,    \* bound on the mining rounds that are started
  MaxLogs,      \* bound on the lines that contracts print
  MaxFaults     \* bound on the crashes of processes and native programs

ASSUME ConstantsAssumption ==
  /\ PeerNumbers \subseteq Nat
  /\ MaxRounds \in Nat
  /\ MaxLogs \in Nat
  /\ MaxFaults \in Nat

VARIABLES
  chain,    \* rows of the "blocks" table, in the order of their insertion
  memory,   \* block whose memory changeset was written last (Redis)
  storage,  \* block whose storage changeset was written last (RocksDB)
  minerPc,  \* where Miner is
  mailbox,  \* Miner's mailbox
  ports,    \* Miner's native programs that may still answer
  round,    \* number of mining rounds Miner has started
  work,     \* the block Miner is working on
  p2pPc,    \* where P2P is
  incoming, \* the peer's block P2P is applying
  faults,   \* number of crashes so far
  lapses,   \* history: the ways in which the stop protocol was defeated
  printed,  \* number of lines that contracts have printed
  unanswered \* history: rounds whose program will never be heard to answer

storeVars == <<chain, memory, storage>>
minerVars == <<minerPc, mailbox, ports, round, work>>
p2pVars   == <<p2pPc, incoming>>
logVars   == <<printed, unanswered>>
vars      == <<storeVars, minerVars, p2pVars, faults, lapses, logVars>>

-----------------------------------------------------------------------------
(* Blocks *)

NoBlock == <<"none", 0>>
Mined(r) == <<"mined", r>>
Peer(n)  == <<"peer", n>>

BlockIds == {"none", "mined", "peer"} \X Nat

\* The state a native program reads: the last changeset in each of the stores.
Bases == [mem : BlockIds, stor : BlockIds]

\* A block: its number, the height (env.block_number) and the state its
\* transactions were executed at.
Blocks == [id : BlockIds, number : Nat, at : Nat, base : Bases]

Unread  == [mem |-> NoBlock, stor |-> NoBlock]
NoWork  == [id |-> NoBlock, number |-> 0, at |-> 0, base |-> Unread]

\* Block.best: the row with the greatest number; Block.next_block_number.
NextNumber ==
  IF chain = <<>> THEN 0 ELSE Max({chain[i].number : i \in DOMAIN chain}) + 1

CurrentState == [mem |-> memory, stor |-> storage]

-----------------------------------------------------------------------------
(* Messages *)

Stop == [type |-> "stop"]
Mine == [type |-> "mine"]

\* A native program: "tx" is transaction_processor, "hash" is hashfactor.
\* A "tx" program that has not read the state yet has ran = FALSE.
Ports == [kind : {"tx", "hash"}, round : Nat, at : Nat,
          ran : BOOLEAN, base : Bases]
Answer(p) == [type |-> "data", from |-> p]

\* What receive_native reads as a "debug: " line: output of a contract, and all
\* that came in the same chunk.
Log == [type |-> "log"]

Messages == {Stop, Mine, Log} \cup [type : {"data"}, from : Ports]

TxPort(r, h)  == [kind |-> "tx", round |-> r, at |-> h,
                  ran |-> FALSE, base |-> Unread]
HashPort(r)   == [kind |-> "hash", round |-> r, at |-> 0,
                  ran |-> TRUE, base |-> Unread]

\* Port.close: the program's answer is not delivered any more.  What is
\* already in the mailbox stays there.
PortClose(kind) ==
  ports' = {p \in ports : ~(p.kind = kind /\ p.round = round)}

\* Mutant of Receives: an answer is preferred to a stop that came before it.
Receives_AnswerFirst(i) ==
  /\ mailbox[i].type \in {"stop", "data", "log"}
  /\ \A j \in 1 .. (i - 1) : mailbox[j].type \in {"mine", "stop"}
  /\ mailbox[i].type = "stop" =>
       \A j \in DOMAIN mailbox : mailbox[j].type \in {"mine", "stop"}

\* `receive' with a clause for :stop and one for {port, {:data, _}}: the first
\* message of the mailbox that is one of them, a "mine" cast is passed over.
\* The pattern does not pin the port: any port's data matches.
Receives(i) ==
  /\ mailbox[i].type \in {"stop", "data", "log"}
  /\ \A j \in 1 .. (i - 1) : mailbox[j].type = "mine"

MinePending == \E i \in DOMAIN mailbox : mailbox[i] = Mine

-----------------------------------------------------------------------------
(* The phases of the two processes *)

Inserting == {"insert", "memory", "storage", "cast"}
MinerPcs  == {"down", "init", "idle", "processing", "hashing"} \cup Inserting

Writing  == {"memory1", "storage1", "memory2", "storage2", "insert"}
Applying == {"process", "stuck", "cast"} \cup Writing
P2PPcs   == {"idle", "validated"} \cup Applying

LapseKinds == {"late_stop", "stale_check", "stale_data", "torn_block",
               "restart_in_apply", "apply_crash"}

-----------------------------------------------------------------------------
Init ==
  /\ chain = <<>> /\ memory = NoBlock /\ storage = NoBlock
  /\ minerPc = "init" /\ mailbox = <<>> /\ ports = {} /\ round = 0
  /\ work = NoWork
  /\ p2pPc = "idle" /\ incoming = NoWork
  /\ faults = 0 /\ lapses = {} /\ printed = 0 /\ unanswered = {}

-----------------------------------------------------------------------------
(* Miner *)

\* GenServer.cast(Miner, {:mine_next_block}): lost when nobody has the name.
CastMineNextBlock ==
  mailbox' = IF minerPc = "down" THEN mailbox ELSE Append(mailbox, Mine)

\* Miner dies: its mailbox is lost and the ports linked to it are closed.
Dies ==
  /\ minerPc' = "down" /\ mailbox' = <<>> /\ ports' = {} /\ work' = NoWork
  /\ UNCHANGED <<storeVars, round, p2pVars>>

\* The supervisor (one_for_one) starts Miner again; the name is registered
\* before init runs.
MinerRestart ==
  /\ minerPc = "down"
  /\ minerPc' = "init"
  /\ lapses' = lapses \cup (IF p2pPc \in Applying THEN {"restart_in_apply"} ELSE {})
  /\ UNCHANGED <<storeVars, mailbox, ports, round, work, p2pVars, faults,
                 logVars>>

\* Miner.init: the system contracts are deployed (under block 0, in their own
\* key) and the first round is cast.
MinerInit ==
  /\ minerPc = "init"
  /\ CastMineNextBlock
  /\ minerPc' = "idle"
  /\ UNCHANGED <<storeVars, ports, round, work, p2pVars, faults, lapses,
                 logVars>>

\* handle_info(:stop, _): nothing is being mined, the stop has no effect.
HandleStop ==
  /\ minerPc = "idle" /\ mailbox # <<>>
  /\ Head(mailbox) = Stop
  /\ mailbox' = Tail(mailbox)
  /\ UNCHANGED <<storeVars, minerPc, ports, round, work, p2pVars, faults,
                 lapses, logVars>>

\* Data of a port that was closed too late: no clause of handle_info matches.
HandleStrayData ==
  /\ minerPc = "idle" /\ mailbox # <<>>
  /\ Head(mailbox).type \in {"data", "log"}
  /\ Dies
  /\ UNCHANGED <<faults, lapses, logVars>>

\* handle_cast({:mine_next_block}, _) up to the receive of process_new_block:
\* the mint is queued, the height is read and transaction_processor started.
MineNextBlock ==
  /\ minerPc = "idle" /\ mailbox # <<>> /\ round < MaxRounds
  /\ Head(mailbox) = Mine
  /\ mailbox' = Tail(mailbox)
  /\ round' = round + 1
  /\ ports' = ports \cup {TxPort(round', NextNumber)}
  /\ minerPc' = "processing"
  /\ UNCHANGED <<storeVars, work, p2pVars, faults, lapses, logVars>>

\* Mutant of ProcessingStopped: the stopped round casts the next one itself.
ProcessingStopped_Recasts ==
  /\ minerPc = "processing"
  /\ \E i \in DOMAIN mailbox :
       /\ Receives(i) /\ mailbox[i] = Stop
       /\ mailbox' = Append(RemoveAt(mailbox, i), Mine)
  /\ PortClose("tx")
  /\ minerPc' = "idle"
  /\ UNCHANGED <<storeVars, round, work, p2pVars, faults, lapses, logVars>>

\* process_new_block receives :stop.
ProcessingStopped ==
  /\ minerPc = "processing"
  /\ \E i \in DOMAIN mailbox :
       /\ Receives(i) /\ mailbox[i] = Stop
       /\ mailbox' = RemoveAt(mailbox, i)
  /\ PortClose("tx")
  /\ minerPc' = "idle"
  /\ UNCHANGED <<storeVars, round, work, p2pVars, faults, lapses, logVars>>

\* Mutant of ProcessingLogs: what a program said after the line goes with it.
ProcessingLogs_Flushes ==
  /\ minerPc = "processing"
  /\ \E i \in DOMAIN mailbox : Receives(i) /\ mailbox[i] = Log
  /\ mailbox' = SelectSeq(mailbox, LAMBDA m : m.type \in {"stop", "mine"})
  /\ UNCHANGED <<storeVars, minerPc, ports, round, work, p2pVars, faults,
                 lapses, logVars>>

\* receive_native writes a "debug: " line out and waits on.
ProcessingLogs ==
  /\ minerPc = "processing"
  /\ \E i \in DOMAIN mailbox :
       /\ Receives(i) /\ mailbox[i] = Log
       /\ mailbox' = RemoveAt(mailbox, i)
  /\ UNCHANGED <<storeVars, minerPc, ports, round, work, p2pVars, faults,
                 lapses, logVars>>

\* Block.build_next: the block of a program's answer, numbered by the table as
\* it is now.
BuildNext(p) ==
  [id |-> Mined(p.round), number |-> NextNumber, at |-> p.at, base |-> p.base]

\* process_new_block receives the changesets and builds the block, and
\* Hashfactor.run starts hashfactor.
ProcessingDone ==
  /\ minerPc = "processing"
  /\ \E i \in DOMAIN mailbox :
       /\ Receives(i) /\ mailbox[i].type = "data"
       /\ mailbox[i].from.kind = "tx"
       /\ mailbox' = RemoveAt(mailbox, i)
       /\ work' = BuildNext(mailbox[i].from)
       /\ lapses' = lapses \cup
            (IF mailbox[i].from.round # round THEN {"stale_data"} ELSE {})
  /\ ports' = ports \cup {HashPort(round)}
  /\ minerPc' = "hashing"
  /\ UNCHANGED <<storeVars, round, p2pVars, faults, logVars>>

\* The receive takes output of the other program, which does not parse:
\* Base.decode64!/Cbor.decode! in receive_native, String.to_integer in run.
WrongAnswer ==
  /\ \E i \in DOMAIN mailbox :
       /\ Receives(i)
       /\ \/ /\ minerPc = "processing"
             /\ mailbox[i].type = "data" /\ mailbox[i].from.kind = "hash"
          \/ /\ minerPc = "hashing"
             /\ \/ mailbox[i] = Log
                \/ mailbox[i].type = "data" /\ mailbox[i].from.kind = "tx"
  /\ Dies
  /\ UNCHANGED <<faults, lapses, logVars>>

\* Hashfactor.run receives :stop.
HashingStopped ==
  /\ minerPc = "hashing"
  /\ \E i \in DOMAIN mailbox :
       /\ Receives(i) /\ mailbox[i] = Stop
       /\ mailbox' = RemoveAt(mailbox, i)
  /\ PortClose("hash")
  /\ minerPc' = "idle" /\ work' = NoWork
  /\ UNCHANGED <<storeVars, round, p2pVars, faults, lapses, logVars>>

\* Hashfactor.run receives the proof-of-work value.
HashingDone ==
  /\ minerPc = "hashing"
  /\ \E i \in DOMAIN mailbox :
       /\ Receives(i) /\ mailbox[i].type = "data"
       /\ mailbox[i].from.kind = "hash"
       /\ mailbox' = RemoveAt(mailbox, i)
       /\ lapses' = lapses \cup
            (IF mailbox[i].from.round # round THEN {"stale_data"} ELSE {})
  /\ minerPc' = "insert"
  /\ UNCHANGED <<storeVars, ports, round, work, p2pVars, faults, logVars>>

\* insert_block: Repo.insert succeeds ...
InsertBlock ==
  /\ minerPc = "insert"
  /\ chain' = Append(chain, work)
  /\ minerPc' = "memory"
  /\ UNCHANGED <<memory, storage, mailbox, ports, round, work, p2pVars,
                 faults, lapses, logVars>>

\* Mutant of InsertFails: no next round is cast on the error path.
InsertFails_NoCast ==
  /\ minerPc = "insert"
  /\ minerPc' = "idle" /\ work' = NoWork
  /\ UNCHANGED <<storeVars, mailbox, ports, round, p2pVars, faults, lapses,
                 logVars>>

\* ... or returns {:error, changeset}: the block is dropped.
InsertFails ==
  /\ minerPc = "insert"
  /\ minerPc' = "cast"
  /\ UNCHANGED <<storeVars, mailbox, ports, round, work, p2pVars, faults,
                 lapses, logVars>>

\* Mutant of MinerWritesMemory: the storage changeset is forgotten.
MinerWritesMemory_Only ==
  /\ minerPc = "memory"
  /\ memory' = work.id
  /\ minerPc' = "cast"
  /\ UNCHANGED <<chain, storage, mailbox, ports, round, work, p2pVars,
                 faults, lapses, logVars>>

\* Memory.write_changeset(memory_changeset, block.number)
MinerWritesMemory ==
  /\ minerPc = "memory"
  /\ memory' = work.id
  /\ minerPc' = "storage"
  /\ UNCHANGED <<chain, storage, mailbox, ports, round, work, p2pVars,
                 faults, lapses, logVars>>

\* Storage.write_changeset(storage_changeset, block.number)
MinerWritesStorage ==
  /\ minerPc = "storage"
  /\ storage' = work.id
  /\ minerPc' = "cast"
  /\ UNCHANGED <<chain, memory, mailbox, ports, round, work, p2pVars,
                 faults, lapses, logVars>>

\* The end of insert_block: broadcasts, and the next round is cast.
MinerCasts ==
  /\ minerPc = "cast"
  /\ CastMineNextBlock
  /\ minerPc' = "idle" /\ work' = NoWork
  /\ UNCHANGED <<storeVars, ports, round, p2pVars, faults, lapses, logVars>>

-----------------------------------------------------------------------------
(* The native programs Miner starts *)

\* transaction_processor executes transactions on the state it finds.
TxRuns ==
  /\ \E p \in ports :
       /\ ~p.ran
       /\ ports' = (ports \ {p}) \cup
                     {[p EXCEPT !.ran = TRUE, !.base = CurrentState]}
  /\ UNCHANGED <<storeVars, minerPc, mailbox, round, work, p2pVars, faults,
                 lapses, logVars>>

\* A contract that transaction_processor runs prints a line.
PortLogs ==
  /\ printed < MaxLogs
  /\ \E p \in ports : p.kind = "tx" /\ p.ran
  /\ mailbox' = Append(mailbox, Log)
  /\ printed' = printed + 1
  /\ UNCHANGED <<storeVars, minerPc, ports, round, work, p2pVars, faults,
                 lapses, unanswered>>

\* The line and the answer behind it are read as one chunk, which begins with
\* "debug: ": the answer is written out with the line, and none will follow.
AnswerMerges ==
  /\ printed < MaxLogs
  /\ \E p \in ports :
       /\ p.kind = "tx" /\ p.ran
       /\ ports' = ports \ {p}
       /\ unanswered' = unanswered \cup {p.round}
  /\ mailbox' = Append(mailbox, Log)
  /\ printed' = printed + 1
  /\ UNCHANGED <<storeVars, minerPc, round, work, p2pVars, faults, lapses>>

\* A native program prints its result and ends.
PortAnswers ==
  /\ \E p \in ports :
       /\ p.ran
       /\ mailbox' = Append(mailbox, Answer(p))
       /\ ports' = ports \ {p}
  /\ UNCHANGED <<storeVars, minerPc, round, work, p2pVars, faults, lapses,
                 logVars>>

-----------------------------------------------------------------------------
(* P2P: Block.apply *)

\* valid_next_block?, for a block with a valid proof of work.
ValidNextBlock(n) == n >= NextNumber

\* {:p2p, block} arrives and valid_next_block? holds.  A block that is not
\* valid is logged and changes nothing.
ReceiveBlock ==
  /\ p2pPc = "idle"
  /\ \E n \in PeerNumbers :
       /\ ValidNextBlock(n)
       /\ incoming' = [id |-> Peer(n), number |-> n, at |-> n, base |-> Unread]
  /\ p2pPc' = "validated"
  /\ UNCHANGED <<storeVars, minerVars, faults, lapses, logVars>>

\* The answer of hashfactor is in Miner's hands, or is about to be.
HashFound ==
  \/ minerPc \in Inserting
  \/ /\ minerPc = "hashing"
     /\ \E i \in DOMAIN mailbox : mailbox[i].type = "data"

\* Miner.stop, and transaction_processor is started on the block.
StopMiner ==
  /\ p2pPc = "validated"
  /\ mailbox' = IF minerPc = "down" THEN mailbox ELSE Append(mailbox, Stop)
  /\ p2pPc' = "process"
  /\ lapses' = lapses \cup
       (IF HashFound \/ minerPc = "init" THEN {"late_stop"} ELSE {}) \cup
       (IF incoming.number < NextNumber THEN {"stale_check"} ELSE {})
  /\ UNCHANGED <<storeVars, minerPc, ports, round, work, incoming, faults,
                 logVars>>

\* process_existing_block executes the block's transactions and answers.
ProcessBlock ==
  /\ p2pPc = "process"
  /\ incoming' = [incoming EXCEPT !.base = CurrentState]
  /\ p2pPc' = "memory1"
  /\ UNCHANGED <<storeVars, minerVars, faults, lapses, logVars>>

\* The answer comes in one chunk with a line of a contract: receive_native writes
\* both out and P2P waits for ever.  (A line in a chunk of its own changes
\* nothing here.)
ProcessBlockMerges ==
  /\ p2pPc = "process" /\ printed < MaxLogs
  /\ p2pPc' = "stuck"
  /\ printed' = printed + 1
  /\ UNCHANGED <<storeVars, minerVars, incoming, faults, lapses, unanswered>>

\* The changesets are written by TransactionProcessor.process and once more
\* by Block.apply.
ApplyWritesMemory ==
  /\ p2pPc \in {"memory1", "memory2"}
  /\ memory' = incoming.id
  /\ p2pPc' = IF p2pPc = "memory1" THEN "storage1" ELSE "storage2"
  /\ UNCHANGED <<chain, storage, minerVars, incoming, faults, lapses, logVars>>

ApplyWritesStorage ==
  /\ p2pPc \in {"storage1", "storage2"}
  /\ storage' = incoming.id
  /\ p2pPc' = IF p2pPc = "storage1" THEN "memory2" ELSE "insert"
  /\ UNCHANGED <<chain, memory, minerVars, incoming, faults, lapses, logVars>>

\* Mutant of ApplyInserts: the row is built and never inserted.
ApplyInserts_Nothing ==
  /\ p2pPc = "insert"
  /\ chain' = chain
  /\ p2pPc' = "cast"
  /\ UNCHANGED <<memory, storage, minerVars, incoming, faults, lapses, logVars>>

\* Repo.insert!
ApplyInserts ==
  /\ p2pPc = "insert"
  /\ chain' = Append(chain, incoming)
  /\ p2pPc' = "cast"
  /\ UNCHANGED <<memory, storage, minerVars, incoming, faults, lapses, logVars>>

\* Mutant of ApplyCasts: the miner is not started again.
ApplyCasts_Nothing ==
  /\ p2pPc = "cast"
  /\ p2pPc' = "idle" /\ incoming' = NoWork
  /\ UNCHANGED <<storeVars, minerVars, faults, lapses, logVars>>

\* Miner.cast_mine_next_block
ApplyCasts ==
  /\ p2pPc = "cast"
  /\ CastMineNextBlock
  /\ p2pPc' = "idle" /\ incoming' = NoWork
  /\ UNCHANGED <<storeVars, minerPc, ports, round, work, faults, lapses,
                 logVars>>

-----------------------------------------------------------------------------
(* Failures: a call to Redis, RocksDB or Postgres exits, a program panics *)

MinerCrashes ==
  /\ minerPc # "down" /\ faults < MaxFaults
  /\ Dies
  /\ lapses' = lapses \cup
       (IF minerPc \in {"memory", "storage"} THEN {"torn_block"} ELSE {})
  /\ faults' = faults + 1
  /\ UNCHANGED logVars

\* P2P is restarted by the supervisor and subscribes again.
P2PCrashes ==
  /\ p2pPc # "idle" /\ faults < MaxFaults
  /\ p2pPc' = "idle" /\ incoming' = NoWork
  /\ lapses' = lapses \cup (IF p2pPc \in Applying THEN {"apply_crash"} ELSE {})
  /\ faults' = faults + 1
  /\ UNCHANGED <<storeVars, minerVars, logVars>>

\* A program that ends without a result sends its owner nothing (the ports do
\* not ask for :exit_status): Miner waits for a stop, P2P waits for ever.
MinerNativeDies ==
  /\ faults < MaxFaults
  /\ \E p \in ports :
       /\ ports' = ports \ {p}
       /\ unanswered' = unanswered \cup {p.round}
  /\ faults' = faults + 1
  /\ UNCHANGED <<storeVars, minerPc, mailbox, round, work, p2pVars, lapses,
                 printed>>

P2PNativeDies ==
  /\ faults < MaxFaults /\ p2pPc = "process"
  /\ p2pPc' = "stuck"
  /\ faults' = faults + 1
  /\ UNCHANGED <<storeVars, minerVars, incoming, lapses, logVars>>

-----------------------------------------------------------------------------
MinerNext ==
  \/ MinerRestart \/ MinerInit \/ HandleStop \/ HandleStrayData
  \/ MineNextBlock \/ ProcessingStopped \/ ProcessingLogs \/ ProcessingDone
  \/ WrongAnswer \/ HashingStopped \/ HashingDone
  \/ InsertBlock \/ InsertFails \/ MinerWritesMemory \/ MinerWritesStorage
  \/ MinerCasts

ApplyNext ==
  \/ StopMiner \/ ProcessBlock \/ ProcessBlockMerges
  \/ ApplyWritesMemory \/ ApplyWritesStorage \/ ApplyInserts \/ ApplyCasts

NativeNext == TxRuns \/ PortLogs \/ AnswerMerges \/ PortAnswers

FaultNext == MinerCrashes \/ P2PCrashes \/ MinerNativeDies \/ P2PNativeDies

Next == MinerNext \/ NativeNext \/ ReceiveBlock \/ ApplyNext \/ FaultNext

Spec == Init /\ [][Next]_vars

\* The schedulers of the Erlang machine and of the operating system run every
\* process that can run; whether a peer sends a block, or something fails, is
\* up to the environment.
FairSpec ==
  /\ Spec
  /\ WF_vars(MinerNext) /\ WF_vars(ApplyNext) /\ WF_vars(NativeNext)

-----------------------------------------------------------------------------
(* Properties *)

\* Type invariant of the node.
TypeOK ==
  /\ chain \in Seq(Blocks) /\ memory \in BlockIds /\ storage \in BlockIds
  /\ minerPc \in MinerPcs /\ mailbox \in Seq(Messages)
  /\ ports \subseteq Ports /\ round \in Nat /\ work \in Blocks
  /\ p2pPc \in P2PPcs /\ incoming \in Blocks
  /\ faults \in Nat /\ lapses \subseteq LapseKinds
  /\ printed \in Nat /\ unanswered \subseteq Nat

\* Mining is never lost: when Miner has nothing to do (it took a stop, or
\* finished a round) and no further round is in its mailbox, then P2P is inside
\* Block.apply and still has its cast_mine_next_block to do.  The exception is a
\* crash of P2P inside Block.apply, after which nobody resumes the miner.
MiningResumes ==
  "apply_crash" \notin lapses =>
    (minerPc = "idle" /\ ~MinePending => p2pPc \in Applying)

\* Block.apply has the stores to itself: once it has sent :stop, Miner does not
\* insert a block or write its changesets until the apply is over, unless the
\* stop came when the hash was already found, Miner was restarted meanwhile, or
\* Miner took the late answer of an earlier round for its own.
StopExcludesMiner ==
  lapses = {} => ~(p2pPc \in Applying /\ minerPc \in Inserting)

\* The rows form one history: each has a greater number than the one before it,
\* was executed at its own height, and on the state its predecessor left in
\* both stores.
LinearHistory ==
  lapses = {} =>
    \A i \in DOMAIN chain :
      LET row  == chain[i]
          prev == IF i = 1 THEN NoBlock ELSE chain[i - 1].id
      IN  /\ i > 1 => row.number > chain[i - 1].number
          /\ row.at = row.number
          /\ row.base = [mem |-> prev, stor |-> prev]

Count(type) == Cardinality({i \in DOMAIN mailbox : mailbox[i].type = type})

\* There is exactly one mining loop: every round that runs or is pending, and
\* the one an apply still owes, are matched by the pending stops but for one.
OneMiningLoop ==
  lapses = {} /\ minerPc \notin {"init", "down"} =>
    Count("mine") + (IF minerPc = "idle" THEN 0 ELSE 1)
                  + (IF p2pPc \in Applying THEN 1 ELSE 0)
      = 1 + Count("stop")

\* A block number identifies a block, as the API's GET /blocks/:block_number
\* takes for granted.
BlockNumberIdentifiesBlock ==
  \A i, j \in DOMAIN chain : chain[i].number = chain[j].number => i = j

\* Miner is in a receive.
Waiting == minerPc \in {"processing", "hashing"}

\* A mining round ends: its block is inserted, it is stopped, or Miner dies on
\* output that is not its program's and is restarted.  Without a stop that is
\* so unless the round's program died, or its answer was swallowed with a line
\* that a contract printed; a stop ends even such a round.
RoundEnds ==
  /\ \A r \in 1 .. MaxRounds :
       (Waiting /\ round = r) ~> (minerPc \in {"idle", "down"} \/ r \in unanswered)
  /\ (Waiting /\ \E i \in DOMAIN mailbox : mailbox[i] = Stop)
       ~> minerPc \in {"idle", "down"}

\* A miner that was stopped mines again, unless P2P has crashed in its apply, or
\* waits for ever because its own program died or its answer was swallowed.
StoppedMinerMinesAgain ==
  (minerPc = "idle" /\ ~MinePending)
    ~> (minerPc # "idle" \/ MinePending \/ p2pPc = "stuck" \/ "apply_crash" \in lapses)

\* A block that passed validation ends up in the table, if nothing crashes and
\* the answer of P2P's program is not swallowed.
ValidBlockIsInserted ==
  \A n \in PeerNumbers :
    (p2pPc = "validated" /\ incoming.number = n) ~>
      ((\E i \in DOMAIN chain : chain[i].id = Peer(n)) \/ p2pPc = "stuck" \/ faults > 0)
=============================================================================
