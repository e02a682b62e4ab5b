----------------------------- MODULE BlockStore -----------------------------
(***************************************************************************)
(* The versioned contract state: for every key a Redis list of the blocks  *)
(* that wrote it, newest first, a Redis hash with the position of each     *)
(* block in that list, and the value each block wrote (a Redis hash for    *)
(* "memory", RocksDB for "storage").  get reads the value of the block at  *)
(* the head of the list; revert_to cuts the lists back to a block.         *)
(*                                                                         *)
(* A set is a sequence of calls to Redis and RocksDB.  Each call is one    *)
(* step: other writers, readers and crashes come between them.  A          *)
(* changeset is written as a series of sets for one block.                 *)
(*                                                                         *)
(* Lists and position hashes share the names of Redis: the hash of a key   *)
(* has the name of the list of another one, if a contract uses a key that  *)
(* ends in "_index".  A name keeps the type of its first write, and Redis  *)
(* refuses the commands of the other type: redis.ex ignores that for LPUSH *)
(* and HSET, and raises for LLEN, HGET and LRANGE.                         *)
(***************************************************************************)
EXTENDS Integers, Sequences, FiniteSets, SequencesExt

CONSTANTS
  Writers,    \* the processes that write changesets: Miner and P2P
  Stores,     \* the prefixes in use, a subset of {"memory", "storage"}
  Keys,
  IndexKey,   \* of each key k the key "<k>_index", Nil if no contract uses that one
  Values,
  Blocks,     \* block numbers
  Nil,        \* what Redis answers for something that is not there
  MaxSets,    \* bound on the number of sets
  MaxReverts, \* bound on the number of calls to revert_to
  MaxCrashes  \* bound on the number of writers that die inside a set

ASSUME ConstantsAssumption ==
  /\ Stores \subseteq {"memory", "storage"}
  /\ Blocks \subseteq Nat
  /\ Nil \notin Nat /\ Nil \notin Values
  /\ MaxSets \in Nat /\ MaxReverts \in Nat /\ MaxCrashes \in Nat

ASSUME NamesAssumption ==
  /\ Nil \notin Keys
  /\ IndexKey \in [Keys -> Keys \cup {Nil}]
  /\ \A k \in Keys : IndexKey[k] # k
  /\ \A j, k \in Keys : IndexKey[j] = IndexKey[k] => j = k \/ IndexKey[j] = Nil

VARIABLES
  index,    \* list "<prefix>:<key>": block numbers, newest first
  position, \* hash "<prefix>:<key>_index": block number -> position
  tracked,  \* set "memory_keys"
  value,    \* what each block wrote
  pc,       \* where each writer is
  job,      \* the set each writer is doing
  len,      \* the length of the list each writer has read
  last,     \* the block each writer has last written for
  revert,   \* the last call to revert_to
  lapses,   \* history: what went wrong in the use of the store
  sets, reverts, crashes  \* counters for the bounds

redisVars  == <<index, position, tracked, value>>
writerVars == <<pc, job, len, last>>
boundVars  == <<sets, reverts, crashes>>
vars == <<redisVars, writerVars, revert, lapses, boundVars>>

-----------------------------------------------------------------------------
\* A list of the index is named by a prefix and a key.
Lists == Stores \X Keys

ValueOrNil == Values \cup {Nil}
Jobs  == [list : Lists, block : Blocks, value : Values]
NoJob == [list |-> <<"none", Nil>>, block |-> Nil, value |-> Nil]

\* The steps of a set that come after its LPUSH.
InSet == {"length", "position", "track", "value"}

Reverts  == [status : {"none", "running", "returned", "raised"},
             store : Stores \cup {"none"}, block : Blocks \cup {Nil},
             todo : SUBSET Keys]
NoRevert == [status |-> "none", store |-> "none", block |-> Nil, todo |-> {}]

LapseKinds == {"overlap", "older_block", "blind_revert", "crash", "name_clash"}

\* What a command on a name of the other type makes of its caller.
Raises == "raises"

\* The list with the name "<prefix>:<key>_index", if some contract uses that key.
NamedLikeHashOf(l) == <<l[1], IndexKey[l[2]]>>

\* The name of a list holds the positions of another key.
HoldsHash(l) ==
  \E m \in Lists : NamedLikeHashOf(m) = l /\ \E b \in Blocks : position[m][b] # Nil

\* The name of a list's position hash holds the list of another key.
HashIsList(l) == NamedLikeHashOf(l) \in Lists /\ index[NamedLikeHashOf(l)] # <<>>

\* The key that has the list, or the hash, of this name is in use already.
Clashes(l) ==
  \E m \in Lists : /\ NamedLikeHashOf(m) = l \/ NamedLikeHashOf(l) = m
                   /\ index[m] # <<>>

\* Redis.push: LPUSH.
Push(list, b) == <<b>> \o list

\* Mutant of Trim: one entry too many is kept.
Trim_OneMore(list, p) ==
  SubSeq(list, IF p + 1 < Len(list) THEN Len(list) - p - 1 ELSE 1, Len(list))

\* Redis.trim(list, -1 - p, -1): LTRIM to the p + 1 oldest entries, all of them
\* if there are not as many.
Trim(list, p) ==
  SubSeq(list, IF p < Len(list) THEN Len(list) - p ELSE 1, Len(list))

\* Mutant of Get: the other end of the list is read.
Get_Oldest(l) ==
  CASE HoldsHash(l)    -> Raises
    [] index[l] = <<>> -> Nil
    [] OTHER           -> value[l][Last(index[l])]

\* Memory.get and Storage.get, and get_latest of the virtual machine: the block
\* at the head of the list (BlockIndex.get_latest), then what that block wrote.
\* LRANGE raises on a hash.
Get(l) ==
  CASE HoldsHash(l)    -> Raises
    [] index[l] = <<>> -> Nil
    [] OTHER           -> value[l][Head(index[l])]

\* The position of the i-th entry of a list, counted from its oldest entry.
PositionOf(l, i) == Len(index[l]) - i

Busy(w, l) == pc[w] \in InSet /\ job[w].list = l

-----------------------------------------------------------------------------
Init ==
  /\ index = [l \in Lists |-> <<>>]
  /\ position = [l \in Lists |-> [b \in Blocks |-> Nil]]
  /\ tracked = {}
  /\ value = [l \in Lists |-> [b \in Blocks |-> Nil]]
  /\ pc = [w \in Writers |-> "idle"]
  /\ job = [w \in Writers |-> NoJob]
  /\ len = [w \in Writers |-> 0]
  /\ last = [w \in Writers |-> 0]
  /\ revert = NoRevert
  /\ lapses = {}
  /\ sets = 0 /\ reverts = 0 /\ crashes = 0

-----------------------------------------------------------------------------
(* Memory.set and Storage.set: BlockIndex.add, then the value *)

\* BlockIndex.add: LPUSH.  The blocks a process writes for never go down.
SetPush(w) ==
  /\ pc[w] = "idle" /\ revert.status # "running" /\ sets < MaxSets
  /\ \E l \in Lists, b \in Blocks, v \in Values :
       /\ b >= last[w] /\ ~HoldsHash(l)
       /\ job' = [job EXCEPT ![w] = [list |-> l, block |-> b, value |-> v]]
       /\ last' = [last EXCEPT ![w] = b]
       /\ index' = [index EXCEPT ![l] = Push(@, b)]
       /\ lapses' = lapses \cup
            (IF \E u \in Writers : Busy(u, l) THEN {"overlap"} ELSE {}) \cup
            (IF index[l] # <<>> /\ b < Head(index[l]) THEN {"older_block"} ELSE {}) \cup
            (IF Clashes(l) THEN {"name_clash"} ELSE {})
  /\ pc' = [pc EXCEPT ![w] = "length"]
  /\ revert' = NoRevert
  /\ sets' = sets + 1
  /\ UNCHANGED <<position, tracked, value, len, reverts, crashes>>

\* BlockIndex.add of a key whose list has the name of a position hash: LPUSH is
\* refused, which changes nothing and goes unnoticed, and LLEN raises, in Redis
\* and then in the writer, which the supervisor starts again.
SetRefused(w) ==
  /\ pc[w] = "idle" /\ revert.status # "running" /\ sets < MaxSets
  /\ \E l \in Lists, b \in Blocks :
       /\ b >= last[w] /\ HoldsHash(l)
       /\ last' = [last EXCEPT ![w] = b]
  /\ lapses' = lapses \cup {"name_clash"}
  /\ revert' = NoRevert
  /\ sets' = sets + 1
  /\ UNCHANGED <<redisVars, pc, job, len, reverts, crashes>>

\* Mutant of SetLength: the length before the LPUSH.
SetLength_BeforePush(w) ==
  /\ pc[w] = "length"
  /\ len' = [len EXCEPT ![w] = Len(index[job[w].list]) - 1]
  /\ pc' = [pc EXCEPT ![w] = "position"]
  /\ UNCHANGED <<redisVars, job, last, revert, lapses, boundVars>>

\* BlockIndex.add: LLEN
SetLength(w) ==
  /\ pc[w] = "length"
  /\ len' = [len EXCEPT ![w] = Len(index[job[w].list])]
  /\ pc' = [pc EXCEPT ![w] = "position"]
  /\ UNCHANGED <<redisVars, job, last, revert, lapses, boundVars>>

\* Mutant of SetPosition: the length is stored as the position.
SetPosition_Length(w) ==
  /\ pc[w] = "position"
  /\ position' = IF HashIsList(job[w].list) THEN position
                 ELSE [position EXCEPT ![job[w].list][job[w].block] = len[w]]
  /\ pc' = [pc EXCEPT ![w] = IF job[w].list[1] = "memory" THEN "track" ELSE "value"]
  /\ UNCHANGED <<index, tracked, value, job, len, last, revert, lapses, boundVars>>

\* Mutant of SetPosition: Storage.set does not write to RocksDB.
SetPosition_NoPut(w) ==
  /\ pc[w] = "position"
  /\ position' = IF HashIsList(job[w].list) THEN position
                 ELSE [position EXCEPT ![job[w].list][job[w].block] = len[w] - 1]
  /\ pc' = [pc EXCEPT ![w] = IF job[w].list[1] = "memory" THEN "track" ELSE "idle"]
  /\ UNCHANGED <<index, tracked, value, job, len, last, revert, lapses, boundVars>>

\* BlockIndex.add: HSET of the position; Redis.set_hash_value ignores that Redis
\* refuses it on a list.  Only Memory.set records the key.
SetPosition(w) ==
  /\ pc[w] = "position"
  /\ position' = IF HashIsList(job[w].list) THEN position
                 ELSE [position EXCEPT ![job[w].list][job[w].block] = len[w] - 1]
  /\ pc' = [pc EXCEPT ![w] = IF job[w].list[1] = "memory" THEN "track" ELSE "value"]
  /\ UNCHANGED <<index, tracked, value, job, len, last, revert, lapses, boundVars>>

\* Mutant of SetTrack: the name of the list is recorded, prefix and all.
SetTrack_Prefixed(w) ==
  /\ pc[w] = "track"
  /\ tracked' = tracked \cup {job[w].list}
  /\ pc' = [pc EXCEPT ![w] = "value"]
  /\ UNCHANGED <<index, position, value, job, len, last, revert, lapses, boundVars>>

\* Memory.set: SADD to "memory_keys"
SetTrack(w) ==
  /\ pc[w] = "track"
  /\ tracked' = tracked \cup {job[w].list[2]}
  /\ pc' = [pc EXCEPT ![w] = "value"]
  /\ UNCHANGED <<index, position, value, job, len, last, revert, lapses, boundVars>>

\* Mutant of SetValue: the block number is not part of the field's name.
SetValue_Unversioned(w) ==
  /\ pc[w] = "value"
  /\ value' = [value EXCEPT ![job[w].list] = [b \in Blocks |-> job[w].value]]
  /\ pc' = [pc EXCEPT ![w] = "idle"]
  /\ job' = [job EXCEPT ![w] = NoJob]
  /\ len' = [len EXCEPT ![w] = 0]
  /\ UNCHANGED <<index, position, tracked, last, revert, lapses, boundVars>>

\* Memory.set: HSET of the value; Storage.set: RocksDB.put
SetValue(w) ==
  /\ pc[w] = "value"
  /\ value' = [value EXCEPT ![job[w].list][job[w].block] = job[w].value]
  /\ pc' = [pc EXCEPT ![w] = "idle"]
  /\ job' = [job EXCEPT ![w] = NoJob]
  /\ len' = [len EXCEPT ![w] = 0]
  /\ UNCHANGED <<index, position, tracked, last, revert, lapses, boundVars>>

\* The process dies inside a set; the supervisor starts a new one.
Crash(w) ==
  /\ pc[w] \in InSet /\ crashes < MaxCrashes
  /\ pc' = [pc EXCEPT ![w] = "idle"]
  /\ job' = [job EXCEPT ![w] = NoJob]
  /\ len' = [len EXCEPT ![w] = 0]
  /\ lapses' = lapses \cup {"crash"}
  /\ crashes' = crashes + 1
  /\ UNCHANGED <<redisVars, last, revert, sets, reverts>>

-----------------------------------------------------------------------------
(* BlockIndex.revert_to(prefix, block_number) *)

\* revert_to can do what it is for: it is called for a block that is in the
\* list of every key that has one, and all these keys are in "memory_keys".
Revertible(s, n) ==
  \A k \in Keys :
    /\ index[s, k] # <<>> \/ k \in tracked =>
         \E i \in DOMAIN index[s, k] : index[s, k][i] = n
    /\ index[s, k] # <<>> => k \in tracked

\* SMEMBERS.  The caller is the process that writes the blocks.
RevertTo ==
  /\ \A w \in Writers : pc[w] = "idle"
  /\ revert.status # "running" /\ reverts < MaxReverts
  /\ \E s \in Stores, n \in Blocks :
       /\ revert' = [status |-> "running", store |-> s, block |-> n, todo |-> tracked]
       /\ last' = [w \in Writers |-> n]
       /\ lapses' = lapses \cup (IF Revertible(s, n) THEN {} ELSE {"blind_revert"})
  /\ reverts' = reverts + 1
  /\ UNCHANGED <<redisVars, pc, job, len, sets, crashes>>

\* One pass of the loop: HGET of the position, and LTRIM to the entries up to it.
\* A name with positions is no list, and the list they are of is no hash.
RevertKey ==
  /\ revert.status = "running"
  /\ \E k \in revert.todo :
       LET l == <<revert.store, k>>
           p == position[l][revert.block]
       IN  /\ p # Nil
           /\ index' = [index EXCEPT ![l] = Trim(@, p)]
           /\ revert' = [revert EXCEPT !.todo = @ \ {k}]
  /\ UNCHANGED <<position, tracked, value, writerVars, lapses, boundVars>>

\* The key was not written in that block, or its position was refused: HGET gives
\* nil and String.to_integer(nil) raises, or HGET raises itself on a list.  The
\* keys that are left keep their lists.
RevertRaises ==
  /\ revert.status = "running"
  /\ \E k \in revert.todo : position[<<revert.store, k>>][revert.block] = Nil
  /\ revert' = [revert EXCEPT !.status = "raised", !.todo = {}]
  /\ UNCHANGED <<redisVars, writerVars, lapses, boundVars>>

RevertReturns ==
  /\ revert.status = "running" /\ revert.todo = {}
  /\ revert' = [revert EXCEPT !.status = "returned"]
  /\ UNCHANGED <<redisVars, writerVars, lapses, boundVars>>

-----------------------------------------------------------------------------
SetStep(w) ==
  \/ SetPush(w) \/ SetRefused(w) \/ SetLength(w)
  \/ SetPosition(w) \/ SetTrack(w) \/ SetValue(w)

RevertStep == RevertTo \/ RevertKey \/ RevertRaises \/ RevertReturns

Next == (\E w \in Writers : SetStep(w) \/ Crash(w)) \/ RevertStep

Spec == Init /\ [][Next]_vars

\* The store as it is meant to be used: no two sets of one key at a time, the
\* blocks in order, no crash, reverts only where they are possible, and never
\* both a key and that key with "_index" behind it, which nothing in the code
\* keeps a contract from using.
OrderlySpec == Init /\ [][Next /\ lapses' = {}]_vars

-----------------------------------------------------------------------------
(* Properties *)

\* Type invariant of the store.
TypeOK ==
  /\ index \in [Lists -> Seq(Blocks)]
  /\ position \in [Lists -> [Blocks -> Int \cup {Nil}]]
  /\ tracked \subseteq Keys
  /\ value \in [Lists -> [Blocks -> ValueOrNil]]
  /\ pc \in [Writers -> InSet \cup {"idle"}]
  /\ job \in [Writers -> Jobs \cup {NoJob}]
  /\ \A w \in Writers : pc[w] \in InSet => job[w] \in Jobs
  /\ len \in [Writers -> Nat] /\ last \in [Writers -> Nat]
  /\ revert \in Reverts
  /\ revert.status = "running" => revert.store \in Stores /\ revert.block \in Blocks
  /\ lapses \subseteq LapseKinds
  /\ sets \in Nat /\ reverts \in Nat /\ crashes \in Nat

\* get finds a value for every block of the index, but for the sets that are
\* between their LPUSH and their HSET: whatever writers and reverts do to the
\* same lists, only a crash leaves a block without its value.
EveryIndexedBlockHasValue ==
  "crash" \notin lapses =>
    \A l \in Lists : \A i \in DOMAIN index[l] :
      \/ value[l][index[l][i]] # Nil
      \/ \E w \in Writers : Busy(w, l) /\ job[w].block = index[l][i]

\* The positions on which revert_to relies: even when writers overlap, the
\* position stored for a block is one of the list, and cutting the list there
\* keeps an entry of that block.
PositionKeepsBlock ==
  reverts = 0 =>
    \A l \in Lists, b \in Blocks :
      position[l][b] # Nil =>
        /\ position[l][b] < Len(index[l])
        /\ \E i \in DOMAIN index[l] :
             index[l][i] = b /\ PositionOf(l, i) <= position[l][b]

\* When writers take turns, go up through the blocks and use no two keys that
\* differ by "_index", every list is sorted and the position of each of its
\* blocks is that of the newest entry for it.
IndexIsExact ==
  \A l \in Lists :
    /\ \A i, j \in DOMAIN index[l] : i < j => index[l][i] >= index[l][j]
    /\ \A i \in DOMAIN index[l] :
         LET b == index[l][i]
         IN  \/ \E w \in Writers : Busy(w, l) /\ job[w].block = b
             \/ \E j \in 1 .. i : /\ index[l][j] = b
                                  /\ \A m \in 1 .. (j - 1) : index[l][m] # b
                                  /\ position[l][b] = PositionOf(l, j)

\* "To do this first we revert the state back to before the fork": when
\* revert_to is over, no key shows what a block after the fork wrote.
RevertRestoresFork ==
  revert.status \in {"returned", "raised"} =>
    \A k \in Keys :
      index[revert.store, k] # <<>> => Head(index[revert.store, k]) <= revert.block

-----------------------------------------------------------------------------
(* The store as a VersionedState *)

\* The entries of a list whose set is complete.
Committed(l) ==
  IF \E w \in Writers : Busy(w, l) THEN Tail(index[l]) ELSE index[l]

\* What the blocks of a list have written, as far as get can see it.
Written(l) ==
  [b \in Blocks |->
     IF \E i \in DOMAIN Committed(l) : Committed(l)[i] = b THEN value[l][b] ELSE Nil]

Versioned == INSTANCE VersionedState
               WITH Cells <- Lists, written <- [l \in Lists |-> Written(l)]

\* Seen through the index, with the sets in progress left out, a store that is
\* used in an orderly way is an atomic history: a set never changes what older
\* blocks wrote, and a revert takes back what later blocks wrote, key by key.
ImplementsVersionedState == Versioned!Spec

\* Outside a set, get returns what the newest block that wrote the key, and was
\* not reverted, has written.  Only a name that holds positions has no value.
GetReturnsLatest ==
  \A l \in Lists :
    (\A w \in Writers : ~Busy(w, l)) /\ ~HoldsHash(l) => Get(l) = Versioned!Latest(l)
=============================================================================
