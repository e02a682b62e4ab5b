# A verification project for ellipticoind

`ellipticoind` is a proof-of-work node written in Elixir with native programs in Rust and Go.
This directory holds TLA+ models of its core, TLC runs over small instances, and TLAPS proofs.

## 1. The system

| Component | State it keeps | Operations | Talks to |
|---|---|---|---|
| Miner (`lib/ellipticoind/miner.ex`, `lib/hashfactor.ex`) | its mailbox, the block of the round | `init`, `mine_next_block`, `stop`, `insert_block` | native programs through ports; Postgres, Redis, RocksDB; itself through casts |
| P2P (`lib/p2p.ex`, `lib/ellipticoind/models/block.ex`) | the peer's block in hand | `receive`, `Block.apply` | Miner (`:stop`, cast), native program, the stores |
| Native programs (`native/transaction_processor`, `native/hashfactor`) | the changesets of a block; the nonce | run transactions; find a proof of work | their owner through stdout, the stores (read only) |
| Block index and state (`block_index.ex`, `memory.ex`, `storage.ex`) | per key: list of blocks, positions, values | `set`, `get`, `revert_to` | Redis, RocksDB |
| Virtual machine (`native/vm`, `system_contracts.rs`) | changesets, call stack, gas | get, set, call, return, trap, fee | state stores |
| Transaction queue (Redis lists `transactions::queued`, `::processing`) | the two lists | `post`, pop, remove | API, P2P, Miner, transaction_processor |
| Transports (`lib/p2p/transport`, `native/libp2p`, `native/noise`) | a partial message, subscribers | broadcast, receive, split | P2P, Go programs |
| RocksDB port (`lib/rocksdb.ex`, `native/rocksdb`) | the port | `put`, `get` | a native program that holds the database lock |
| NIF library (`priv/rustler`) and its user `native/ed25519` | environments and their generations, references to resources, buffers of binaries | make, save, load, clear, send, drop; call a NIF; encode and decode | the Erlang VM's C interface |
| HTTP API, websocket, views, plugs, cryptography, configuration | none of their own | parsing, rendering | queue, state, block table |

Components interact by Erlang messages (casts, `:stop`, port data) and through shared tables
(Postgres `blocks`, Redis, RocksDB). There are no locks and no transactions across stores.

What is hard in this system:

* **Two writers, one protocol.** Miner and P2P both insert blocks and write state. P2P keeps Miner
  away with a message nobody acknowledges, and Miner's `receive`s are selective and take data of
  any port.
* **Chained rounds.** Mining goes on because every path ends in a cast; a path that casts twice, or
  not at all, changes the number of mining loops for good.
* **Multi-call updates.** A `set` is up to five calls to Redis and RocksDB, a block a row and two
  changesets; crashes and other writers come in between.
* **Silent failures.** A native program that dies sends nothing, and an answer in one chunk with a
  line that a contract has printed is dropped; who waits for it waits for ever.
* **Shared changesets.** Nested contract calls commit and roll back their caller's writes.
* **Streams without records.** Every native program talks through a port that cuts its output
  anywhere; each reader finds its messages in another way (newlines, lengths, one chunk one answer).
* **Lifetimes by hand.** The NIF library counts references, frees buffers and tells generations of
  an environment apart across threads, panics and early returns.

`PROJECT.json` lists these hazards line by line with the properties aimed at each.

## 2. The modules

| Module | Models | Run by |
|---|---|---|
| `MiningNode` | Miner, P2P's `Block.apply`, their native programs, the block table, crashes | `MCMiningNode` |
| `BlockStore` | `BlockIndex`, `Memory`, `Storage`, call by call | `MCBlockStore` |
| `VersionedState` | abstract: what the contract state promises | refined by `BlockStore` |
| `Execution` | transaction_processor and the VM's changesets, calls, gas and fee | `MCExecution` |
| `TransactionQueue` | the Redis lists, the programs that take from them, Miner's blocks | `MCTransactionQueue` |
| `TransactionPool` | abstract: what is promised of posted transactions | refined by `TransactionQueue` |
| `NativeAnswer` | how the answer of transaction_processor is read from its port | `MCPorts` |
| `RocksDBPort` | the RocksDB server, its callers, its program and the lock of the database | `MCPorts` |
| `Hashfactor` | `Hashfactor.run`, the program's two threads, the check of a nonce | `MCPorts` |
| `Libp2p`, `Libp2pSend` | the libp2p transport: messages to P2P, and broadcasts (`Libp2pSend` extends `Libp2p`: one process serves both) | `MCPorts` |
| `NifEnvs` | `OwnedEnv`, `SavedTerm`, `thread::spawn` of the NIF library | `MCNif`, and by itself |
| `NifResources` | `ResourceArc`, resource types, alignment | `MCNif` |
| `NifCalls` | `handle_nif_call`, `OwnedBinary`, `Binary`, the functions of `native/ed25519` | `MCNif` |
| `NifTerms` | terms, and the codecs of numbers, bools, strings, atoms and unit enums | `MCNif` |
| `NifCodec` | `Encoder` and `Decoder` of every type, over the codecs of its components | by `NifTranscode` |
| `NifTranscode` | NIFs that take and return values; `NifCodec` on three levels of types | `MCNif` |
| `MiningNodeProofs` | theorems about `MiningNode` | tlapm |
| `BlockStoreProofs` | theorems about `BlockStore`, and that it implements `VersionedState` | tlapm |
| `ExecutionProofs` | theorems about `Execution` | tlapm |
| `TransactionQueueProofs` | theorems about `TransactionQueue`, and that it implements `TransactionPool` | tlapm |
| `PortProofs` | theorems about `Hashfactor`, `RocksDBPort`, `NativeAnswer`, `Libp2p` and `Libp2pSend` | tlapm |
| `NifProofs` | theorems about `NifCalls`, `NifResources` and `NifEnvs` | tlapm |
| `NifCodecProofs`, `NifTranscodeProofs` | theorems about one codec, and about the codecs made of codecs | tlapm |

`MCPorts` and `MCNif` put modules together that share no state: a behaviour chooses one of them
(`part`) and leaves the others where they start, so that the states add up instead of multiplying.
In their initial states the other parts enable no action under a fairness condition.

Operators named `X_Something` next to `X` are deliberate bugs in `X`. No specification uses them;
putting one in the place of `X` must break the property `PROJECT.json` names, which shows that the
property says something about `X`.

### MiningNode

`chain` is the table of blocks in order of insertion; `memory` and `storage` name the block whose
changeset was written last. `minerPc` and `p2pPc` say between which two externally visible steps
each process is. `mailbox` is Miner's, in order; `ports` are the native programs that may still
answer. Each action is the code from one visible step to the next: `MineNextBlock` is
`handle_cast` up to the `receive` in `process_new_block`; `ProcessingDone` the code from that
`receive` to the one in `Hashfactor.run`, `InsertBlock` the `Repo.insert`, and so on.

* `Receives` is Erlang's selective `receive`: the first `:stop` or data message, casts are passed
  over. The pattern `{port, {:data, _}}` binds `port` anew, so that any program's data matches.
* A block is its identity, its number, the height (`env.block_number`) and the state (last
  changesets) its transactions ran on. A native program reads the state at one moment (`TxRuns`).
* `InsertFails` is the `{:error, _}` of `Repo.insert`. A block that does not pass
  `valid_next_block?` changes nothing and is left out.
* `MinerCrashes` and `P2PCrashes` stand for an exit in any call to a store; `MinerNativeDies` and
  `P2PNativeDies` for a program that ends without output.
* What a contract prints reaches the port as a "debug: " line. `receive_native` writes such a chunk out and waits
  on (`ProcessingLogs`), also when the answer is in the chunk: with `AnswerMerges` and, for P2P's program, `ProcessBlockMerges`
  the answer is gone, without any fault. Read by the wrong `receive`, a line kills Miner (`WrongAnswer`, `HandleStrayData`).
  `printed` counts the lines, up to `MaxLogs`; `unanswered` is a history of the rounds whose answer will never come.
* `lapses` is a history of the events that defeat the stop protocol: `late_stop` (the hash was found
  already, or Miner was still in `init`), `stale_check` (a block was inserted between the check of
  the number and the stop), `stale_data` (an answer of an earlier round was taken), `torn_block`,
  `restart_in_apply`, `apply_crash`. The exclusion properties say that nothing *else* defeats it.

### BlockStore and VersionedState

One step per Redis or RocksDB call. `index` holds the lists (newest first), `position` the hashes
`<prefix>:<key>_index`, `tracked` the set `memory_keys`, `value` what each block wrote. The
writers go up through the block numbers (after a revert, from the block reverted to). `revert_to`
iterates over `memory_keys` whatever its prefix is, and raises on a key whose list has no position
for the block.

Lists and hashes share the names of Redis, and contracts choose their keys: the hash of `K` has the name of
the list of `K_index`. `IndexKey` says for each key which key that is, if any. Once one of the two names
is taken, a command for the other type is refused: LPUSH and HSET change nothing and `redis.ex` does not
look (`SetRefused`, `SetPosition`), while LLEN, LRANGE, HGET and LTRIM take down their caller (`SetRefused`, `Get`, `RevertRaises`).
Other errors of Redis or RocksDB that `redis.ex` discards (a full disk, say) are not modelled.

`lapses` records overlapping sets of a key, sets for an older block than the newest, reverts to a block that
some key did not see, crashes, and the use of two keys of which one has the name of the other's hash
(`name_clash`). `OrderlySpec` is the specification without them. That last clause is a condition on the contracts, not something
the code sees to: with both keys in use a block may be without a position and a revert may stop half way, in
the most orderly use otherwise.

`VersionedState` is the promise: what each block wrote to each cell; a set belongs to the newest
block and changes nothing older, a revert forgets what later blocks wrote. The refinement mapping
takes the entries of each list whose set is complete.

### Execution

`block`, `changeset` and `working` are the three levels of changeset; `frames` the calls in
progress. A call has three stages. Making the module instance runs the module's start function under `NopExternals`: it
can use no host function, and pays no gas, so that it may run for ever (`StartEnds`). Then the arguments are
written with the contract's own `__malloc`, which is metered and may do what the function may; `call.rs` returns without
a rollback if one cannot be written (`ArgumentsRefused`). Then the function runs. Contract code is arbitrary: any
metered stage may read, write, call, return, trap or make the program panic at any point, as far as its gas goes. `ideal` is what
the changeset would be if every call were atomic by itself, and `lapses` the three ways in which the code departs from it: what
a call that traps had committed stays, a trap drops what its caller had pending, and what a refused call had written stays pending.
BaseToken
is a WebAssembly binary; its `transfer` is modelled from how `system_contracts.rs` calls it and
from the balances that `test/integration_test.exs` expects (the winner's own fee is credited and
not debited).

### TransactionQueue and TransactionPool

Transactions are named by the order in which they are posted. `queued` and `processing` are the two
lists, newest first; an entry is a transaction and how it was encoded, because `LREM` compares
bytes: what `TransactionView.as_map` pushes is never what the program re-encodes, so that nothing
is ever removed from `processing`. `programs` are the processes in `process_new_block`. They never
read their input, and one whose port was closed goes on until its time is up. `answers` are the
outputs in Miner's mailbox; `ProcessingDone` takes the first, whoever sent it. Where the casts stand
among them is left open (a superset of the code's behaviours; `MiningNode` has the exact mailbox).
`lapses` records the stops, failed inserts, deaths and late answers; an answer that `receive_native` drops is for the queue
a program that died (`ProgramDies`), a crash of Miner outside its `receive`s what a stop is.

`TransactionPool` is the promise: one pool, from which a block takes transactions in the order in which they were posted,
the oldest first as long as nothing has failed; a failure may lose some, for good. The refinement mapping `Pending` takes what
is queued, what programs with an open port and answers hold, and Miner's work: a program whose port was closed goes on taking
transactions, and that is a failure of the pool, not a block of it. `intact` is the absence of lapses.

### NativeAnswer

A byte is its place in the program's output, a line or a chunk the place where it ends.
`receive_stop_or_message` collects chunks until one ends with a newline; `receive_native` then looks
at the first characters only. `AnswerTakenUnlessMerged` says exactly when that works: the answer is
taken, whole and alone, if and only if some chunk ended where the last contract's log ended.

### RocksDBPort

The server handles one call at a time and waits inside `handle_call`, so that other calls and the
program's data share its mailbox. A caller that timed out leaves its call there. A new server has a
program of its own; the earlier program holds the lock of the database until it has read its
input to the end. `Prints` lets an answer larger than the output buffer come in two writes, `PortReads`
and `Joined` hand over any number of writes at once, `Decoded` is `Base.decode64!` on what comes of it.
`last` and `pending` are history: the value of the last put a caller was told of, and the puts whose
callers never heard.

### Hashfactor

SHA-256 is a function that the initial state chooses freely. Numbers are converted to and from
little-endian digits (base `Base` instead of 256) as both the Rust program and `valid_nonce?` do;
the two tests are translated separately, and `AnswerIsFirstAccepted` compares them. The end of the input is
seen by `main`, as an empty line, or by the thread of `exit_on_close`.

### Libp2p and Libp2pSend

Bytes are counted, not kept: `ends` says where each frame ends in the stream, `chunks` where each
chunk ends. A chunk may end anywhere. The handler has one action per way in which a chunk can end:
with a frame (`HandleWhole`), inside a message (`HandlePart`, then `ReceiveMore` and `ReceiveLast` in
`continue_receiving`), or inside a length (`HandleShort`, no clause matches). All frames count as
messages of a type. A peer may send what `Messages.decode` raises on (an unknown type, bytes that are not the
protocol buffer or CBOR that was expected): such a frame is in `malformed`, and the process dies of it, with the rest of the
chunk and its list of subscribers (`HandleWholeRaises`, `ReceiveLastRaises`), if there is a subscriber to decode it for. `lapses` records a
split header, a chunk that overshoots the awaited message, messages that found no subscriber, and one that could not be decoded.

Broadcasts are casts to the same process, which does not look at them inside `continue_receiving`.
The Go program reads through a buffer: the length with one `Read`, which may return less
(`ReadLength`; the program then has lost its place for good), the message with `io.ReadFull`. At the end of its input
it ignores the error and publishes empty messages for as long as it lives; `SendRestarts` starts the next program with a
stream of its own, and the earlier one has no part in it any more.

### The NIF library

`NifEnvs`: an environment is an address that the VM may give again. Each generation of an
environment has an Arc with a count of strong references; a SavedTerm names the generation, the
address and how often the environment had been filled anew, which only the property looks at.
`load` is two steps (upgrade, compare) and `drop` is two (free, give up the Arc), because other
threads run in between. Both types are `Send`: an `OwnedEnv` moves to any thread between two uses of it
(`MoveEnv`), and any thread may load any saved term. `late` is history: the threads whose `load` found an Arc
that no `OwnedEnv` uses, because it is being dropped, or because nothing but another such `load` holds it.

`NifResources` counts what refers to each resource (`holders`, `handles`) and what the VM believes
(`heap[r].count`); addresses are numbers, so that the alignment arithmetic is the code's.

`NifCalls`: a NIF is the sequence of steps at which it can end early; `Leave` is every way out,
unwinding included, and drops what the function owns. The function `any` takes arbitrary steps.

`NifCodec`: `Encode` and `Decode` by type. In Rust both are generic over the codecs of the components
(`impl<T> Encoder for Vec<T> where T: Encoder`); here these are the constants `Enc` and `Dec`, with the values of the
component types, and what their codecs lose. So nothing is recursive, and the module can be reasoned about.
`NifTranscode` builds the codecs by instantiation: `Leaf` for types without components, `Codec` for types made of
those, `Nested` for types made of these. `MaxList` bounds the lists that are encoded; terms that come from elsewhere
are not bounded by it. The exceptions in `RoundTrip` and `DecodeIsExact` name what the code lets pass: `bool` takes any
term, a narrow integer is cut by a cast, maps may have more keys, nil is both `None` and `false`.
`EncodeUntagged` and `DecodeUntagged` take the first variant that fits. A name is a sequence of characters, some of which are
not Latin-1 (`"wide"`): `get_atom` refuses atoms with one. `wrapper/list.rs` casts the length of a list to u32 (behind a
FIXME); `EncodeVec` is the list whatever its length, so that what is said of lists is said of those shorter than 2^32.

## 3. The runs

| Run | Shows | Bounds |
|---|---|---|
| `mining_exclusion` | `StopExcludesMiner`, `LinearHistory`, `OneMiningLoop`: without a lapse, an apply has the stores to itself, blocks form one history, one mining loop | 3 peer blocks, 3 rounds, 1 fault, 1 line printed by a contract; states after a lapse are cut off (the properties say nothing about them) |
| `mining_resume` | `MiningResumes`: over all interleavings an idle miner has a round coming, unless P2P crashed in an apply | 2 peer numbers, 2 rounds, 1 fault, 1 line |
| `mining_liveness` | `RoundEnds`, `StoppedMinerMinesAgain`, `ValidBlockIsInserted`: what a silent death, a crash or a swallowed answer takes away, and that nothing else does; a stop ends even a round whose answer was swallowed | 1 peer number, 2 rounds, 1 fault, 1 line (175,000 states) |
| `mining_numbers` (violation) | `BlockNumberIdentifiesBlock` fails: the miner inserts number *n* after P2P has validated a peer's *n* | 2 peer numbers, 2 rounds, no fault |
| `store_ordered` | `IndexIsExact`, `RevertRestoresFork`, `GetReturnsLatest`, `ImplementsVersionedState` under `OrderlySpec` | 2 writers, 3 blocks, 4 sets, 2 reverts; keys `k`, `k_index` and another (222,000 states) |
| `store_races` | `TypeOK`, `EveryIndexedBlockHasValue`, `PositionKeepsBlock` with overlapping writers, crashes, and sets that Redis refuses because of a name | both stores, keys `k` and `k_index`, 3 sets, 1 revert, 1 crash (1.5 million states) |
| `store_revert` (violation) | `RevertRestoresFork` fails outside `OrderlySpec`: `revert_to` raises half way on a key that the block did not write | 1 writer, 2 keys without shared names, 3 sets, 1 revert |
| `execution` | `TransactionsAreAtomic`, `ReadsAreCurrent`, `GasAccounting`, `FeesConserveTokens`, `TransactionsEnd` | 2 transactions, calls 3 deep, one key (a changeset treats keys independently), gas word 8, limits 2 and 11 (771,000 states) |
| `ports` | `AnsweredPutIsStored`, `GetReturnsWhatWasPut`, `ServerComesBack` (RocksDB); `AnswerIsFirstAccepted`, `ClosedProgramEnds` (Hashfactor); `AnswerTakenUnlessMerged` (NativeAnswer); `NothingSkipped`, `OnceAndInOrder`, `MessagesArrive`, `BroadcastsGoOut` (libp2p) | 2 callers, 2 calls, 2 blocks, a small and a large value, 2 programs; target 2, 5 nonces, any hash of 3; 3 lines; length of 2 bytes, messages of 2, 3 frames and 1 run or 2 frames and 2 runs, one of the frames malformed or none, 2 broadcasts (233,000 states) |
| `nif_parts` | `OnlyLateLoadsAreStale`, `JobAnswersOnce` (NifEnvs); `NoDanglingReference`, `ArcReadsWhatWasWritten` (NifResources); `BinariesAreSound` (NifCalls); `RoundTrip`, `DecodeIsExact` (NifTerms) | 3 threads of the three kinds, 2 addresses, 4 generations; 2 types, 3 addresses with different remainders, 4 references; 3 buffers, words below 4; numbers below 4 with a cast to below 2, names of up to 3 characters, vectors of up to 2 elements, types three levels deep (635,000 states) |
| `nif_shared` (violation) | `LoadedTermIsAlive` fails: one thread drops the `OwnedEnv` while another one loads | 2 threads, 2 addresses, 3 generations, 1 saved term |
| `queue_way` | `MinedOnceInOrder`, `LostOnlyByLapse`, `NothingForgotten`, `ImplementsTransactionPool` | 5 transactions (mints included), 4 rounds, 1 dead program |

The bounds let every action fire and every race named above happen: two rounds are enough for an
answer to be stale, two peer blocks for a stop to meet an idle, a restarting and a working miner;
three blocks and four sets give a list with a repeated block, a fork and a write after the revert;
four rounds let two programs that both take transactions answer out of turn; three frames put a
whole frame between two cut ones; two callers and two calls are what it takes for a call to sit behind
one whose caller gave up, and two programs for one to wait for the other's lock; two addresses and three generations
let an address come back while an older generation is still referred to; one line that
a contract prints is enough to swallow one answer, on either side; words of two bits wrap around within
two additions. `ports` bounds frames and broadcasts together because the directions meet only in
`continue_receiving`: many frames without broadcasts, or one frame with broadcasts.
Deadlock is not checked because the bounds on rounds, sets and transactions end every behaviour.

**Fairness.** `MiningNode!FairSpec` assumes weak fairness of Miner, of a running `Block.apply` and
of the native programs: the Erlang machine and the operating system schedule every process that can
run. Nothing is assumed of peers, and nothing of when a contract prints. Faults and swallowed answers are in the liveness run, and the
properties name them: a round whose program died or whose answer went with a line (`unanswered`) ends only when a stop comes, and
a P2P that waits for such an answer (`"stuck"`) waits for ever and does not resume the miner it has stopped. That is what the code does.
`Execution!FairSpec` assumes that the program goes on when it is not in a start function; a start function, which pays no
gas, need not end, and `TransactionsEnd` names that. `Libp2pFairness` assumes that the port delivers and that the process and the Go program go on
when they can; nothing makes P2P subscribe again. `RocksFairness` has the server, the port and each
program run when they can; callers may call, give up or do nothing, and a program may die at any time.
`HashfactorFairness` has both threads of the program run: `ExitOnClose` by itself, since the searching
thread never waits for the other one. The runs check liveness in the bounded instances; `ClosedProgramEnds`
does not depend on the bound `MaxNonce`, at which the search stands still instead of ending.

## 4. The proofs

All theorems hold for every value of the constants, under the named assumption of each module
(bounds are naturals, block numbers are naturals, `Nil` is not a value, there is an address for an
environment, and so on); TLC evaluates these assumptions in the runs. All 29 invariants, the action property
and the two refinements that the passing runs check are proved; what is left to TLC is liveness. Each theorem follows from an invariant that the steps keep; what it adds
to the property, and why the property alone is not inductive:

**MiningNode**

* `MiningNodeProofs!TypeCorrect`: the number of the next block is a natural because the table, if not
  empty, has a best block; `TypeInv` adds that.
* `MiningNodeProofs!MiningAlwaysResumes` (`MiningResumes`): a stop may sit in the mailbox while a round
  runs. `ResumeInv` says that every stop in the mailbox is followed by a cast, or an apply that will
  cast is in progress, and that an idle miner has one of the two; removing a message never removes the
  cast that follows another one.
* `!ApplyHasStoresToItself` (`StopExcludesMiner`): the protocol works because of
  the order in the mailbox. `LoopInv` says that stops and casts alternate, which of them comes first for an idle and
  for a busy miner, and which comes last while an apply runs; `DataInv` that an answer of this round is
  the last one in the mailbox and that no stop comes behind the answer of hashfactor. Both hold as long as there is no
  lapse, and a lapse is never forgotten.
* `!ThereIsOneMiningLoop` (`OneMiningLoop`): `BalanceInv` counts rounds to come against stops. It is kept
  because, by `LoopInv`, an idle miner never comes to a stop first.
* `!RowsAreOneHistory` (`LinearHistory`): `HistInv` adds what the stores hold between two writes, what
  P2P's block was validated and executed on, and that Miner's work continues the last row unless a stop waits for it.

**BlockStore**

* `BlockStoreProofs!TypeCorrect`, `!IndexedBlocksHaveValues`: by the step that every indexed block
  without a value is that of a set in progress; reverts only remove entries.
* `!PositionsKeepBlocks`: `PositionInv` adds what a writer between its `LPUSH`
  and its `HSET` knows: the length it read is at most the length of the list, and its own entry is below it.
* `OrderlyIndexIsExact` and what follows it is about `OrderlySpec`. `OrderlyInv` says of each list that it is sorted, that the position
  of a block is that of its newest entry and its value is there, but for a head whose set is in progress; and of a
  revert that it will find its block in the lists still to be cut. `OneTypePerName`
  says that no name in use as a list is that of another key's hash in use, so that no command is refused. From it follow `OrderlyIndexIsExact`, `OrderlyRevertRestores` and
  `OrderlyGetIsLatest`, and `OrderlyRefines`: every step is a set or a revert of `VersionedState`, or a stutter.

**Execution**

* `ExecutionProofs!TypeCorrect`: no gas and no balance below zero, whatever the width of the gas counter.
* `!GasIsAccounted`: `GasInv` bounds the gas of each call in progress by that of its caller and the outermost by the
  limit as it was cast; the two casts cancel out.
* `!TransactionsAtomic`: `AtomicInv` says what the changesets hold during a transaction, while the property is about its end:
  the write set of the calls that did not trap, and that each call can still be rolled back to where it began.
* `!ReadsSeeCommits`: what was just read is in the changeset or the key has a write pending.
* `!FeesMoveTokens`: an action property. Only sender and winner change, and a fee paid to somebody else keeps the sum
  of the two.
* `!SupplyIsConserved` (`FeesConserveTokens`): the same of the sum over all accounts, however many. The sum is a fold that takes the
  accounts in an order of its own (`CHOOSE`), so that two balances are compared set by set: `SumDefined` shows that the recursion of the
  fold defines a function on the subsets, and `SumChanges` that the sums of all subsets differ by the differences at the two accounts that changed.
  Both are inductions on the number of elements. The prover has no induction rule for a predicate, so each looks at the least number at
  which the claim fails (`LeastNatural`, from the well-foundedness of `<` on the naturals).

**TransactionQueue**

* `TransactionQueueProofs!TypeCorrect`, with `QueueInv`: the queue is the last transactions that were posted, newest first.
* `!PostedIsKept`: nothing is removed from `processing`, as `LREM` compares two encodings that differ (`QueueInv`).
* `!NothingLostWithoutLapse`: `HandInv` adds that every program answers to Miner and that Miner's hands are empty while it
  waits for an answer, so that taking one overwrites nothing.
* `!MinedOnce`: `OnceInv` says that the contents of programs, answers, work and blocks are increasing and disjoint;
  `OrderInv` that, without a late answer, what belongs to this round comes after what is mined.
* `!PoolIsImplemented` (`ImplementsTransactionPool`): every step is a step of `TransactionPool` or a stutter. That a block takes the oldest
  transactions needs `LoneInv`: while nothing has failed at most one program runs or one answer waits, and only while Miner waits for it, so that
  all that waits beside the work of a block is queued, and later (`QueueInv`, `OnceInv`). A program that takes a transaction for a closed port is
  a failure because `HandInv` says that a closed port follows a lapse.

**The ports**

* `PortProofs!AnswerIsAccepted` (`Hashfactor`): `HashfactorInv` follows the search; the lemma `SameTest` shows that the
  program's test and `valid_nonce?` agree on every hash.
* `!AnsweredPutsAreStored` (`RocksDBPort`): `CallsInv` (calls wait in the order they were made), `OldPutsInv` (what programs of
  earlier servers were told to put is pending for good), `OkInv` (the ok that the server waits for is on its way once, behind its put).
* `!GetsReturnPuts`: `WholeInv`: one command or answer is under way, for the call of the server, until an answer is split.
* `!AnswerIsTakenUnlessMerged` (`NativeAnswer`): where the message that is collected begins (`BegunInv`), and that every chunk that was cut has been
  heard or is in the mailbox (`ChunksInv`).
* `!NoFrameIsSkipped`, `!OnceAndAlmostInOrder` (`Libp2p`): `PlaceInv` says how the place of the process in the stream and the frames that P2P was sent
  go together at each point of the handler, `DeliveredInv` what P2P has got of them.

**The NIF library**

* `NifProofs!CallsLeaveBinariesSound`: `BinariesAreSound` and the types are inductive together.
* `!ResourcesAreKept`, `!ArcsAreAligned`: `ResInv` adds that a resource is placed by its type and that what `from_term` has found is
  the value of a term that is there; the arithmetic is the lemma `NextMultiple`, for any size, alignment and address.
* `!JobsAnswerOnce`: `OwnersInv` says that an allocated environment has one owner and that no two generations in use share an address, although
  an environment that is being dropped may share its own with a new one.
* `!OnTimeTermsAreAlive` (`OnlyLateLoadsAreStale`): whichever thread has the `OwnedEnv`, and whichever the saved terms. `SavedInv` says that the terms of a generation
  that is in use are alive. `LoadsInv` says of a `load` that was not late, between its two steps, that its thread owns the generation, or that the
  generation's address is not that of the environment the thread loads into, so that the comparison will fail: `OwnersInv` gives it when the load
  begins, since two generations in use never share an address, and a thread inside `load` neither moves, clears nor drops the environment it has lent.
* `NifCodecProofs!RoundTrips`, `!DecodesExactly`, `!PanicsFrom`, `!EncodesTerms` are about one codec whose component codecs are
  arbitrary: a value comes back if those of its components do (`PartsKept`), what is taken is the term of the result if it
  is so of the parts (`PartsExact`), a panic is that of an improper list or of a part. They are the step of an induction over types. Two hypotheses
  came out of the proofs: a `NifMap` without fields takes any term (`HasFields`), because only a field looks whether the term is a map; and
  `Option` and untagged enums need that the codecs tried before do not panic (`NoPanicBefore`), as a panic is not the failure they go on from.
* `NifTranscodeProofs!ValuesAreTransported` (`RoundTrip`), `!DecodeTakesNothingElse` (`DecodeIsExact`): that step three times, for the types
  `Simple`, `Flat` and `Deep`, and then once through the behaviours (`WireInv`). `TypesAreDeep` and `TermsDepth` show that the types and
  arbitrary terms of the behaviours are within the three levels; widths and the lengths of names are any, and so are those of lists (of the model: the code's are shorter than 2^32, see
  NifCodec above). The induction itself, over types of any depth, would
  need a recursive codec, which is why the levels are instances.

Only model-checked:

* Liveness (`RoundEnds`, `StoppedMinerMinesAgain`, `ValidBlockIsInserted`, `TransactionsEnd`, `ServerComesBack`,
  `ClosedProgramEnds`, `MessagesArrive`, `BroadcastsGoOut`): it rests on fairness and ENABLED, which the prover does not have.

## 5. Findings

* Two rows with one block number (`mining_numbers`): the number is checked before the stop and used
  after it. `GET /blocks/:block_number` expects one row.
* A revert that stops half way (`store_revert`): a key that was not written in the block has no
  position, and `String.to_integer(nil)` raises.
* A term of a freed environment (`nif_shared`): `OwnedEnv::drop` frees the environment before the Arc goes that
  `SavedTerm::load` relies on. Dropped on one thread while another one, which has the saved term or a clone of it, loads
  into a new environment at the same address, `load` returns instead of panicking. It takes nothing but that the
  two values are on different threads, and both are `Send`. `OnlyLateLoadsAreStale` says that this is the only way.

Not disagreements with anything the repository says, but what the exceptions in the properties stand for:
a contract's log that shares a chunk with the answer hides the answer (`AnswerTakenUnlessMerged`), and the round, or P2P's block, waits
for ever (`unanswered` and `"stuck"` in the properties of `mining_liveness`); a contract that uses both a key and that key with `_index` behind it
loses the positions, or the list, of one of them (`name_clash`); a start function that does not end keeps the program for ever (`TransactionsEnd`);
a message that does not decode takes its chunk with it (`undecodable`);
a value read in two chunks is cut (`split` in `GetReturnsWhatWasPut`); a chunk that holds the end of one libp2p message
and the beginning of another stops the process for good (`overshoot`), and its broadcasts with it.

## 6. Not modelled, and the plan

Next, in this order:

1. Proofs: the changesets of `Execution` for several keys; that `RocksDBPort` implements an atomic register with
   pending writes.
2. Composition of `MiningNode` and `BlockStore` (changesets of a block instead of its name).

Left out for good: the cryptographic primitives, the WebAssembly interpreter, Postgres and Redis themselves,
gossip between nodes (the Go libraries), views, plugs, mix tasks, configuration. Of `priv/rustler`, the table
of C functions and the thin wrappers around single ones, scheduling flags, the build helper and the templates.
The Noise transport is the predecessor of libp2p, which the development and release configurations use in its place.
`TransactionResultValidations` is not called by the program. A transaction that is both queued and in a peer's block is
executed twice: nothing compares the queue with the chain, and nothing says that it should.
