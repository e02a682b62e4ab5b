------------------------------ MODULE Execution ------------------------------
(***************************************************************************)
(* transaction_processor executing the transactions of one block.  A       *)
(* contract writes to a working changeset; the end of a call commits it to *)
(* the changeset of the transaction or throws it away, and what the        *)
(* transaction leaves becomes the changeset of the block.  Nested calls    *)
(* share both changesets with their caller.  Gas is metered per call and   *)
(* the gas used is moved from the sender to the winner of the block.       *)
(*                                                                         *)
(* The contracts are arbitrary: at every point a call may read, write,     *)
(* call, return or trap.  A call first runs the start function of its      *)
(* module, which can do nothing but take time and pays no gas, then writes *)
(* its arguments with the contract's own __malloc, then runs the function. *)
(* "Memory" and "storage" are committed and rolled back together, so that  *)
(* one changeset stands for both.                                          *)
(***************************************************************************)
EXTENDS Integers, Sequences, FiniteSets, FiniteSetsExt

CONSTANTS
  Keys, Values,
  Nil,        \* no entry in a changeset: the key is as the block found it
  Accounts,   \* senders of transactions
  Winner,     \* the winner of the block
  Funds,      \* what every account has at first
  Word,       \* 2^32: gas is counted in an u32, gas_limit is an u64
  GasLimits,  \* the gas limits of transactions
  Costs,      \* what the operations of a contract cost
  MaxTxs,     \* bound on the transactions of the block
  MaxDepth    \* bound on the depth of nested calls

ASSUME ConstantsAssumption ==
  /\ Nil \notin Values
  /\ IsFiniteSet(Accounts) /\ Winner \in Accounts /\ Funds \in Nat
  /\ Word \in Nat \ {0} /\ GasLimits \subseteq Nat
  /\ Costs \subseteq Nat \ {0}
  /\ MaxTxs \in Nat /\ MaxDepth \in Nat

VARIABLES
  phase,     \* what the program is doing
  block,     \* changeset of the block so far
  changeset, \* changeset of the transaction: what its calls have committed
  working,   \* working changeset
  frames,    \* the calls in progress, innermost last
  tx,        \* the transaction
  left,      \* gas left when the transaction ended
  balance,   \* balances of the base token
  txs,       \* number of transactions taken
  read,      \* history: the last read, until something else happens
  ideal,     \* history: the changeset if every call were atomic by itself
  lapses     \* history: calls that were not atomic

changeVars == <<block, changeset, working>>
vars == <<phase, changeVars, frames, tx, left, balance, txs, read, ideal, lapses>>

-----------------------------------------------------------------------------
\* Memory and Storage have the same levels of changesets; a key stands for a key
\* of either.
Changesets == [Keys -> Values \cup {Nil}]
Empty == [k \in Keys |-> Nil]

\* Mutant of Extend: entries that are there already are not replaced.
Extend_KeepsOld(a, b) == [k \in Keys |-> IF a[k] # Nil THEN a[k] ELSE b[k]]

\* HashMap::extend
Extend(a, b) == [k \in Keys |-> IF b[k] # Nil THEN b[k] ELSE a[k]]

\* A call: how far it is, the gas of its VM and, as history, whether something was
\* committed inside it, whether its caller had writes pending, and what it started
\* from.
Stages == {"start", "arguments", "function"}
Frames == [stage : Stages, gas : Nat, commits : BOOLEAN, pending : BOOLEAN,
           saved : Changesets]

Phases == {"next", "running", "fee", "done", "dead"}
Txs    == [create : BOOLEAN, sender : Accounts, limit : Nat]
NoTx   == [create |-> FALSE, sender |-> Winner, limit |-> 0]
Reads  == [key : Keys, value : Values \cup {Nil}]

LapseKinds == {"kept_by_trap", "dropped_by_trap", "kept_by_refusal"}

Top == frames[Len(frames)]
Outer == SubSeq(frames, 1, Len(frames) - 1)

\* The innermost call runs a start function, or code that pays for its steps.
Starting == phase = "running" /\ Top.stage = "start"
Metered  == phase = "running" /\ Top.stage # "start"

\* Mutant of Get: the changeset of the block, not that of the transaction.
Get_FromBlock(k) == block[k]

\* Memory::get: own writes that are not committed are not seen.
Get(k) == changeset[k]

\* gas: Some(self.gas_limit as u32)
InitialGas(limit) == limit % Word

\* Mutant of GasUsed: the result is not cut to the width of the counter.
GasUsed_Wide == tx.limit - left

\* transaction.gas_limit - gas_left as u64, cast to u32
GasUsed == (tx.limit - left) % Word

Supply == MapThenSumSet(LAMBDA a : balance[a], Accounts)

-----------------------------------------------------------------------------
Init ==
  /\ phase = "next"
  /\ block = Empty /\ changeset = Empty /\ working = Empty
  /\ frames = <<>> /\ tx = NoTx /\ left = 0
  /\ balance = [a \in Accounts |-> Funds]
  /\ txs = 0
  /\ read = {} /\ ideal = Empty /\ lapses = {}

-----------------------------------------------------------------------------
(* run_transaction, up to the contract *)

\* A call is entered: new_module_instance.
Entered(gas, commits, pending) ==
  [stage |-> "start", gas |-> gas, commits |-> commits, pending |-> pending,
   saved |-> ideal]

Takes(create) ==
  /\ phase = "next" /\ txs < MaxTxs
  /\ txs' = txs + 1
  /\ \E s \in Accounts, g \in GasLimits :
       tx' = [create |-> create, sender |-> s, limit |-> g]

\* Transaction::run of a contract.
Run ==
  /\ Takes(FALSE)
  /\ changeset' = block /\ working' = Empty
  /\ frames' = <<Entered(InitialGas(tx'.limit), FALSE, FALSE)>>
  /\ phase' = "running"
  /\ UNCHANGED <<block, left, balance, read, ideal, lapses>>

\* Transaction::run finds no contract.
ContractNotFound ==
  /\ Takes(FALSE)
  /\ changeset' = block /\ working' = Empty
  /\ left' = InitialGas(tx'.limit)
  /\ phase' = "fee"
  /\ UNCHANGED <<block, frames, balance, read, ideal, lapses>>

\* create_contract: the code is committed, then the constructor is called.
CreateContract ==
  /\ Takes(TRUE)
  /\ \E k \in Keys, code \in Values :
       /\ changeset' = [block EXCEPT ![k] = code]
       /\ ideal' = [ideal EXCEPT ![k] = code]
  /\ working' = Empty
  /\ frames' = <<Entered(InitialGas(tx'.limit), TRUE, FALSE)>>
  /\ phase' = "running"
  /\ UNCHANGED <<block, left, balance, read, lapses>>

\* Another function of the system contract, or malformed arguments.
SystemNothing ==
  /\ Takes(TRUE)
  /\ UNCHANGED <<phase, changeVars, frames, left, balance, read, ideal, lapses>>

-----------------------------------------------------------------------------
(* The innermost call *)

\* The innermost call goes on with the next thing it has to do.
Proceeds(from, to) ==
  /\ phase = "running" /\ Top.stage = from
  /\ frames' = [frames EXCEPT ![Len(frames)].stage = to]
  /\ UNCHANGED <<phase, changeVars, tx, left, balance, txs, read, ideal, lapses>>

\* run_start(&mut NopExternals): the start function ends.  It has no gas to run
\* out of, and it can reach neither memory nor storage.
StartEnds == Proceeds("start", "arguments")

\* VM::call: the arguments are written, each with __malloc of the contract, and
\* the function is invoked.
ArgumentsWritten == Proceeds("arguments", "function")

\* Mutant of UseGas: an operation that is free.
UseGas_Free(cost) ==
  /\ Top.gas >= cost
  /\ frames' = frames

\* VM::use_gas
UseGas(cost) ==
  /\ Top.gas >= cost
  /\ frames' = [frames EXCEPT ![Len(frames)].gas = @ - cost]

\* get_memory, get_storage
GetValue ==
  /\ Metered
  /\ \E c \in Costs : UseGas(c)
  /\ \E k \in Keys : read' = {[key |-> k, value |-> Get(k)]}
  /\ UNCHANGED <<phase, changeVars, tx, left, balance, txs, ideal, lapses>>

\* set_memory, set_storage
SetValue ==
  /\ Metered
  /\ \E c \in Costs : UseGas(c)
  /\ \E k \in Keys, v \in Values :
       /\ working' = [working EXCEPT ![k] = v]
       /\ ideal' = [ideal EXCEPT ![k] = v]
  /\ read' = {}
  /\ UNCHANGED <<phase, block, changeset, tx, left, balance, txs, lapses>>

\* external_call: the called contract gets the caller's gas.
ExternalCall ==
  /\ Metered /\ Len(frames) < MaxDepth
  /\ \E c \in Costs :
       /\ Top.gas >= c
       /\ frames' = Append([frames EXCEPT ![Len(frames)].gas = @ - c],
                           Entered(Top.gas - c, FALSE, working # Empty))
  /\ read' = {}
  /\ UNCHANGED <<phase, changeVars, tx, left, balance, txs, ideal, lapses>>

\* external_call of a contract that is not there: the caller goes on with an error.
CallReturnsError ==
  /\ Metered
  /\ \E c \in Costs : UseGas(c)
  /\ read' = {}
  /\ UNCHANGED <<phase, changeVars, tx, left, balance, txs, ideal, lapses>>

\* The end of a call.  The caller is charged what the call has used; the
\* transaction itself goes on to its fee, a constructor is free.
EndCall(committed, kept) ==
  LET caller == frames[Len(frames) - 1]
      used   == caller.gas - Top.gas
  IN  IF Len(frames) > 1
      THEN /\ frames' = [Outer EXCEPT ![Len(Outer)] =
                           [caller EXCEPT !.gas = caller.gas - used,
                                          !.commits = caller.commits \/ committed]]
           /\ UNCHANGED <<phase, block, left>>
      ELSE /\ frames' = <<>>
           /\ left' = Top.gas
           /\ phase' = IF tx.create THEN "next" ELSE "fee"
           /\ block' = IF tx.create THEN kept ELSE block

\* VM::call, the contract returns: memory.commit(), storage.commit().
CallReturns ==
  /\ phase = "running" /\ Top.stage = "function"
  /\ changeset' = Extend(changeset, working)
  /\ working' = Empty
  /\ EndCall(Top.commits \/ working # Empty, changeset')
  /\ read' = {}
  /\ UNCHANGED <<tx, balance, txs, ideal, lapses>>

\* VM::call, a trap (the gas that is left is kept): memory.rollback(),
\* storage.rollback().  Transaction::run returns without its working changesets,
\* which is the same for an argument that cannot be written.
CallTraps ==
  /\ phase = "running"
  /\ Top.stage = "function" \/ (Top.stage = "arguments" /\ Len(frames) = 1)
  /\ working' = Empty
  /\ EndCall(FALSE, changeset)
  /\ ideal' = Top.saved
  /\ lapses' = lapses \cup (IF Top.commits THEN {"kept_by_trap"} ELSE {})
                      \cup (IF Top.pending THEN {"dropped_by_trap"} ELSE {})
  /\ read' = {}
  /\ UNCHANGED <<changeset, tx, balance, txs>>

\* VM::call of a nested call, an argument cannot be written: it returns with
\* neither a commit nor a rollback, and what __malloc has written is now pending
\* as if the caller had.
ArgumentsRefused ==
  /\ phase = "running" /\ Top.stage = "arguments" /\ Len(frames) > 1
  /\ EndCall(FALSE, changeset)
  /\ ideal' = Top.saved
  /\ lapses' = lapses \cup (IF Top.commits \/ ideal # Top.saved
                            THEN {"kept_by_refusal"} ELSE {})
  /\ read' = {}
  /\ UNCHANGED <<changeset, working, tx, balance, txs>>

\* A function that is not exported, code that is not a module, a start function
\* that traps or calls one of VM's functions, a pointer outside the contract's
\* memory, a BaseToken that is not there: the program ends.
Panics ==
  /\ phase \in {"running", "fee"}
  /\ phase' = "dead"
  /\ read' = {}
  /\ UNCHANGED <<changeVars, frames, tx, left, balance, txs, ideal, lapses>>

-----------------------------------------------------------------------------
(* run_transaction, after the contract *)

\* Mutant of Transfer: a sender that cannot pay loses nothing, the winner gains.
Transfer_Unbacked(from, to, amount) ==
  IF balance[from] < amount THEN [balance EXCEPT ![to] = @ + amount]
  ELSE [[balance EXCEPT ![from] = @ - amount] EXCEPT ![to] = balance[to] + amount]

\* BaseToken.transfer(winner, fee): it reads both balances before it writes
\* either, for Memory::get does not see its own writes.
Transfer(from, to, amount) ==
  IF balance[from] < amount THEN balance
  ELSE [[balance EXCEPT ![from] = @ - amount] EXCEPT ![to] = balance[to] + amount]

\* system_contracts::transfer.  Its result is not looked at.
PayFee ==
  /\ phase = "fee"
  /\ balance' = Transfer(tx.sender, Winner, GasUsed)
  /\ block' = changeset
  /\ phase' = "next"
  /\ read' = {}
  /\ UNCHANGED <<changeset, working, frames, tx, left, txs, ideal, lapses>>

\* return_completed_transactions
ReturnCompleted ==
  /\ phase = "next"
  /\ phase' = "done"
  /\ UNCHANGED <<changeVars, frames, tx, left, balance, txs, read, ideal, lapses>>

-----------------------------------------------------------------------------
Take == Run \/ ContractNotFound \/ CreateContract \/ SystemNothing

Step ==
  \/ StartEnds \/ ArgumentsWritten
  \/ GetValue \/ SetValue \/ ExternalCall \/ CallReturnsError
  \/ CallReturns \/ CallTraps \/ ArgumentsRefused \/ Panics

Next == Take \/ Step \/ PayFee \/ ReturnCompleted

Spec == Init /\ [][Next]_vars

\* The program runs until it ends; a start function may run for ever.
FairSpec == Spec /\ WF_vars(~Starting /\ Step) /\ WF_vars(PayFee)

-----------------------------------------------------------------------------
(* Properties *)

\* Type invariant of the execution.
TypeOK ==
  /\ phase \in Phases
  /\ block \in Changesets /\ changeset \in Changesets /\ working \in Changesets
  /\ frames \in Seq(Frames) /\ (phase = "running" => frames # <<>>)
  /\ tx \in Txs /\ left \in Nat /\ balance \in [Accounts -> Nat]
  /\ txs \in Nat
  /\ read \subseteq Reads /\ ideal \in Changesets /\ lapses \subseteq LapseKinds

\* A transaction is all or nothing: what it adds to the changeset of the block
\* is what its calls wrote, less the calls that failed.  The exceptions are a
\* trap after a nested call (or create_contract) has committed, a nested trap
\* while the caller has writes pending, and a nested call that has written
\* something before it turns out that its arguments cannot be.
TransactionsAreAtomic ==
  phase \in {"next", "done"} /\ lapses = {} => block = ideal

\* A contract reads what it and the contracts before it wrote, unless the key
\* has a write pending.
ReadsAreCurrent ==
  lapses = {} =>
    \A r \in read : r.value = ideal[r.key] \/ working[r.key] # Nil

\* Gas is never gained: a call has at most its caller's gas, which is what keeps
\* the subtractions in external_call and run_transaction from going below zero,
\* and the fee is the gas used although gas_limit is wider than the gas counter.
GasAccounting ==
  /\ \A i \in DOMAIN frames : frames[i].gas <= InitialGas(tx.limit)
  /\ \A i \in DOMAIN frames : i > 1 => frames[i].gas <= frames[i - 1].gas
  /\ phase = "fee" =>
       /\ left <= InitialGas(tx.limit)
       /\ GasUsed = InitialGas(tx.limit) - left

\* Fees move tokens from the sender to the winner.  Only a winner that pays
\* itself gains, for the transfer does not see its own first write.
FeesConserveTokens ==
  [][Supply' = Supply \/ (tx.sender = Winner /\ Supply' = Supply + GasUsed)]_vars

\* Whatever its contracts do, and however they nest, every transaction comes to an
\* end, unless the program stays in a start function, the only code of a contract
\* that pays no gas.
TransactionsEnd ==
  \/ <>[]Starting
  \/ phase \in {"running", "fee"} ~> phase \in {"next", "dead"}
=============================================================================
