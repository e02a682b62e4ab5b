-------------------------- MODULE BlockStoreProofs --------------------------
(***************************************************************************)
(* Proofs about BlockStore, for any number of writers, stores, keys,       *)
(* values and blocks and without the bounds of the TLC runs: first those   *)
(* about any interleaving (Spec), then, about OrderlySpec, that the store  *)
(* used in an orderly way is a VersionedState.                             *)
(***************************************************************************)
EXTENDS BlockStore, SequenceTheorems, WellFoundedInduction, TLAPS

-----------------------------------------------------------------------------
(* The lists *)

\* LPUSH puts the block in front: the list is one longer and the old entries
\* move up by one.
LEMMA PushProperties ==
  ASSUME NEW S, NEW s \in Seq(S), NEW b \in S
  PROVE  /\ <<b>> \o s \in Seq(S)
         /\ Len(<<b>> \o s) = Len(s) + 1
         /\ (<<b>> \o s)[1] = b
         /\ \A i \in 1 .. Len(s) : (<<b>> \o s)[i + 1] = s[i]
         /\ \A i \in DOMAIN (<<b>> \o s) : i = 1 \/ (i - 1 \in DOMAIN s /\ (<<b>> \o s)[i] = s[i - 1])
OBVIOUS

-----------------------------------------------------------------------------
(* Type correctness *)

\* The state has its type in every initial state.
LEMMA InitTypeOK == Init => TypeOK
BY ConstantsAssumption
   DEF Init, TypeOK, Lists, InSet, Jobs, NoJob, Reverts, NoRevert, ValueOrNil

\* Every step keeps the types.
LEMMA NextTypeOK == TypeOK /\ [Next]_vars => TypeOK'
<1> SUFFICES ASSUME TypeOK, [Next]_vars PROVE TypeOK'
  OBVIOUS
<1> USE ConstantsAssumption
<1>1. ASSUME NEW w \in Writers, SetPush(w) PROVE TypeOK'
  <2>1. PICK l \in Lists, b \in Blocks, v \in Values :
          /\ job' = [job EXCEPT ![w] = [list |-> l, block |-> b, value |-> v]]
          /\ last' = [last EXCEPT ![w] = b]
          /\ index' = [index EXCEPT ![l] = <<b>> \o @]
          /\ lapses' \subseteq lapses \cup {"overlap", "older_block", "name_clash"}
    BY <1>1 DEF SetPush, Push
  <2>2. index' \in [Lists -> Seq(Blocks)]
    BY <2>1, PushProperties DEF TypeOK
  <2>3. lapses' \subseteq LapseKinds
    BY <2>1 DEF TypeOK, LapseKinds
  <2>4. /\ job' \in [Writers -> Jobs \cup {NoJob}]
        /\ \A u \in Writers : pc'[u] \in InSet => job'[u] \in Jobs
        /\ pc' \in [Writers -> InSet \cup {"idle"}]
    BY <1>1, <2>1 DEF SetPush, Push, TypeOK, Jobs, InSet
  <2>5. last' \in [Writers -> Nat]
    BY <2>1 DEF TypeOK
  <2>6. revert' \in Reverts /\ revert'.status # "running"
    BY <1>1 DEF SetPush, Push, NoRevert, Reverts
  <2> QED
    BY <1>1, <2>2, <2>3, <2>4, <2>5, <2>6 DEF SetPush, Push, TypeOK
<1>b. ASSUME NEW w \in Writers, SetRefused(w) PROVE TypeOK'
  <2>1. last' \in [Writers -> Nat] /\ lapses' \subseteq LapseKinds
    BY <1>b DEF SetRefused, TypeOK, LapseKinds
  <2>2. revert' \in Reverts /\ revert'.status # "running"
    BY <1>b DEF SetRefused, NoRevert, Reverts
  <2> QED
    BY <1>b, <2>1, <2>2 DEF SetRefused, TypeOK, redisVars
<1>2. ASSUME NEW w \in Writers, SetLength(w) PROVE TypeOK'
  <2>1. job[w].list \in Lists
    BY <1>2 DEF SetLength, TypeOK, InSet, Jobs
  <2>2. Len(index[job[w].list]) \in Nat
    BY <2>1 DEF TypeOK
  <2> QED
    BY <1>2, <2>2 DEF SetLength, TypeOK, redisVars, boundVars, InSet
<1>3. ASSUME NEW w \in Writers, SetPosition(w) PROVE TypeOK'
  <2>1. job[w] \in Jobs
    BY <1>3 DEF SetPosition, TypeOK, InSet
  <2>2. position' \in [Lists -> [Blocks -> Int \cup {Nil}]]
    BY <1>3, <2>1 DEF SetPosition, TypeOK, Jobs
  <2> QED
    BY <1>3, <2>1, <2>2 DEF SetPosition, TypeOK, boundVars, InSet
<1>4. ASSUME NEW w \in Writers, SetTrack(w) PROVE TypeOK'
  <2>1. job[w].list[2] \in Keys
    BY <1>4 DEF SetTrack, TypeOK, InSet, Jobs, Lists
  <2> QED
    BY <1>4, <2>1 DEF SetTrack, TypeOK, boundVars, InSet
<1>5. ASSUME NEW w \in Writers, SetValue(w) PROVE TypeOK'
  <2>1. job[w] \in Jobs
    BY <1>5 DEF SetValue, TypeOK, InSet
  <2>2. value' \in [Lists -> [Blocks -> ValueOrNil]]
    BY <1>5, <2>1 DEF SetValue, TypeOK, Jobs, ValueOrNil
  <2> QED
    BY <1>5, <2>2 DEF SetValue, TypeOK, boundVars, InSet
<1>6. ASSUME NEW w \in Writers, Crash(w) PROVE TypeOK'
  BY <1>6 DEF Crash, TypeOK, redisVars, InSet, LapseKinds
<1>7. CASE RevertTo
  BY <1>7 DEF RevertTo, TypeOK, redisVars, LapseKinds, Reverts
<1>8. CASE RevertKey
  <2>1. PICK k \in revert.todo :
          /\ position[<<revert.store, k>>][revert.block] # Nil
          /\ index' = [index EXCEPT ![<<revert.store, k>>] =
               SubSeq(@, IF position[<<revert.store, k>>][revert.block] < Len(@)
                         THEN Len(@) - position[<<revert.store, k>>][revert.block]
                         ELSE 1, Len(@))]
          /\ revert' = [revert EXCEPT !.todo = @ \ {k}]
    BY <1>8 DEF RevertKey, Trim
  <2> DEFINE l == <<revert.store, k>>
             p == position[l][revert.block]
  <2>2. index' \in [Lists -> Seq(Blocks)]
    <3>1. l \in Lists
      BY <1>8 DEF RevertKey, Trim, TypeOK, Reverts, Lists
    <3>2. index[l] \in Seq(Blocks) /\ Len(index[l]) \in Nat
      BY <3>1 DEF TypeOK
    <3>3. p \in Int
      BY <1>8, <2>1, <3>1 DEF RevertKey, Trim, TypeOK
    <3> DEFINE m == IF p < Len(index[l]) THEN Len(index[l]) - p ELSE 1
    <3>4. m \in Int /\ 1 <= m
      BY <3>2, <3>3
    <3> HIDE DEF m
    <3>5. SubSeq(index[l], m, Len(index[l])) \in Seq(Blocks)
      BY <3>2, <3>4
    <3> QED
      BY <2>1, <3>1, <3>5 DEF TypeOK, m
  <2>3. /\ revert' \in Reverts
        /\ revert'.store \in Stores /\ revert'.block \in Blocks
    BY <1>8, <2>1 DEF RevertKey, Trim, TypeOK, Reverts
  <2> QED
    BY <1>8, <2>2, <2>3 DEF RevertKey, Trim, TypeOK, writerVars, boundVars
<1>9. CASE RevertRaises
  BY <1>9 DEF RevertRaises, TypeOK, redisVars, writerVars, boundVars, Reverts
<1>10. CASE RevertReturns
  BY <1>10 DEF RevertReturns, TypeOK, redisVars, writerVars, boundVars, Reverts
<1>11. CASE UNCHANGED vars
  BY <1>11 DEF vars, redisVars, writerVars, boundVars, TypeOK
<1> QED
  BY <1>1, <1>b, <1>2, <1>3, <1>4, <1>5, <1>6, <1>7, <1>8, <1>9, <1>10, <1>11
     DEF Next, SetStep, RevertStep

\* The store always has its type.
THEOREM TypeCorrect == Spec => []TypeOK
BY InitTypeOK, NextTypeOK, PTL DEF Spec

-----------------------------------------------------------------------------
(* Every indexed block has its value *)

\* A step leaves the entries of the index with a value, or with a writer that is
\* about to write it.  Only the crash of a writer breaks this.
LEMMA NextIndexedHasValue ==
  TypeOK /\ EveryIndexedBlockHasValue /\ [Next]_vars => EveryIndexedBlockHasValue'
<1> DEFINE Covered(l, b) ==
             \/ value[l][b] # Nil
             \/ \E w \in Writers : Busy(w, l) /\ job[w].block = b
<1> SUFFICES ASSUME TypeOK, EveryIndexedBlockHasValue, [Next]_vars,
                    "crash" \notin lapses',
                    NEW l \in Lists, NEW i \in DOMAIN index'[l]
             PROVE  Covered(l, index[l][i])'
  BY DEF EveryIndexedBlockHasValue
<1> USE ConstantsAssumption
<1>0. "crash" \notin lapses => \A j \in DOMAIN index[l] : Covered(l, index[l][j])
  BY DEF EveryIndexedBlockHasValue
<1>a. index[l] \in Seq(Blocks)
  BY DEF TypeOK
<1>1. ASSUME NEW w \in Writers, SetPush(w) PROVE Covered(l, index[l][i])'
  <2>1. PICK m \in Lists, b \in Blocks, v \in Values :
          /\ job' = [job EXCEPT ![w] = [list |-> m, block |-> b, value |-> v]]
          /\ index' = [index EXCEPT ![m] = <<b>> \o @]
          /\ lapses \subseteq lapses'
    BY <1>1 DEF SetPush, Push
  <2>2. /\ pc[w] = "idle" /\ pc' = [pc EXCEPT ![w] = "length"] /\ value' = value
    BY <1>1 DEF SetPush, Push
  <2>3. ASSUME NEW c, Covered(l, c) PROVE Covered(l, c)'
    BY <2>1, <2>2, <2>3 DEF Busy, TypeOK, InSet
  <2>4. CASE m = l
    <3>1. index'[l] = <<b>> \o index[l]
      BY <2>1, <2>4 DEF TypeOK
    <3>2. CASE i = 1
      <4>1. index'[l][i] = b
        BY <1>a, <3>1, <3>2, PushProperties
      <4>2. Busy(w, l)' /\ job'[w].block = b
        BY <2>1, <2>2, <2>4 DEF Busy, TypeOK, InSet
      <4> QED
        BY <4>1, <4>2
    <3>3. CASE i # 1
      <4>1. i - 1 \in DOMAIN index[l] /\ index'[l][i] = index[l][i - 1]
        BY <1>a, <3>1, <3>3, PushProperties
      <4> QED
        BY <1>0, <2>1, <2>3, <4>1
    <3> QED
      BY <3>2, <3>3
  <2>5. CASE m # l
    <3>1. index'[l] = index[l]
      BY <2>1, <2>5 DEF TypeOK
    <3>2. Covered(l, index[l][i])
      BY <1>0, <2>1, <3>1
    <3> QED
      BY <2>3, <3>1, <3>2
  <2> QED
    BY <2>4, <2>5
<1>2. ASSUME NEW w \in Writers, SetLength(w) \/ SetPosition(w) \/ SetTrack(w)
      PROVE  Covered(l, index[l][i])'
  <2>1. /\ UNCHANGED <<index, value, job, lapses>>
        /\ pc[w] \in InSet
        /\ \E q \in InSet : pc' = [pc EXCEPT ![w] = q]
    BY <1>2 DEF SetLength, SetPosition, SetTrack, redisVars, InSet
  <2>2. \A u \in Writers : Busy(u, l) => Busy(u, l)'
    BY <2>1 DEF Busy, TypeOK
  <2> QED
    BY <1>0, <2>1, <2>2
<1>3. ASSUME NEW w \in Writers, SetValue(w) PROVE Covered(l, index[l][i])'
  <2>1. job[w] \in Jobs
    BY <1>3 DEF SetValue, TypeOK, InSet
  <2>2. /\ index' = index /\ lapses' = lapses
        /\ pc' = [pc EXCEPT ![w] = "idle"] /\ job' = [job EXCEPT ![w] = NoJob]
        /\ value' = [value EXCEPT ![job[w].list][job[w].block] = job[w].value]
    BY <1>3 DEF SetValue
  <2>3. Covered(l, index[l][i]) /\ index[l][i] \in Blocks
    BY <1>0, <1>a, <2>2
  <2>4. CASE job[w].list = l /\ job[w].block = index[l][i]
    BY <2>1, <2>2, <2>3, <2>4 DEF TypeOK, Jobs
  <2>5. CASE ~(job[w].list = l /\ job[w].block = index[l][i])
    <3>1. value'[l][index[l][i]] = value[l][index[l][i]]
      BY <2>1, <2>2, <2>3, <2>5 DEF TypeOK, Jobs
    <3>2. \A u \in Writers :
            Busy(u, l) /\ job[u].block = index[l][i] =>
              Busy(u, l)' /\ job'[u].block = index[l][i]
      BY <2>2, <2>5 DEF Busy, TypeOK
    <3> QED
      BY <2>2, <2>3, <3>1, <3>2
  <2> QED
    BY <2>4, <2>5
<1>4. ASSUME NEW w \in Writers, Crash(w) PROVE Covered(l, index[l][i])'
  BY <1>4 DEF Crash
<1>5. CASE RevertKey
  <2>1. PICK k \in revert.todo :
          LET m == <<revert.store, k>>
              p == position[m][revert.block]
          IN  /\ p # Nil
              /\ index' = [index EXCEPT ![m] =
                             SubSeq(@, IF p < Len(@) THEN Len(@) - p ELSE 1, Len(@))]
    BY <1>5 DEF RevertKey, Trim
  <2> DEFINE m == <<revert.store, k>>
             p == position[m][revert.block]
             n == IF p < Len(index[m]) THEN Len(index[m]) - p ELSE 1
  <2>2. m \in Lists /\ p \in Int
    BY <1>5, <2>1 DEF RevertKey, Trim, TypeOK, Reverts, Lists
  <2>3. \E j \in DOMAIN index[l] : index'[l][i] = index[l][j]
    <3>1. CASE m = l
      <4>1. index'[l] = SubSeq(index[l], n, Len(index[l]))
        BY <2>1, <2>2, <3>1 DEF TypeOK
      <4>2. n \in Int /\ 1 <= n
        BY <1>a, <2>2, <3>1
      <4> HIDE DEF n
      <4> QED
        BY <1>a, <4>1, <4>2
    <3>2. CASE m # l
      BY <2>1, <2>2, <3>2 DEF TypeOK
    <3> QED
      BY <3>1, <3>2
  <2>4. UNCHANGED <<value, pc, job, lapses>>
    BY <1>5 DEF RevertKey, Trim, writerVars
  <2> QED
    BY <1>0, <2>3, <2>4 DEF Busy
<1>6. CASE RevertTo \/ RevertRaises \/ RevertReturns \/ \E w \in Writers : SetRefused(w)
  <2>1. UNCHANGED <<index, value, pc, job>> /\ lapses \subseteq lapses'
    BY <1>6 DEF RevertTo, RevertRaises, RevertReturns, SetRefused, redisVars, writerVars
  <2> QED
    BY <1>0, <2>1 DEF Busy
<1>7. CASE UNCHANGED vars
  BY <1>0, <1>7 DEF vars, redisVars, writerVars, Busy
<1> QED
  BY <1>1, <1>2, <1>3, <1>4, <1>5, <1>6, <1>7 DEF Next, SetStep, RevertStep

\* get never meets a block of the index without a value, but inside its set or
\* after a crash: for any number of writers, in any order and with reverts.
THEOREM IndexedBlocksHaveValues == Spec => []EveryIndexedBlockHasValue
<1>1. Init => EveryIndexedBlockHasValue
  BY DEF Init, EveryIndexedBlockHasValue
<1> QED
  BY <1>1, InitTypeOK, NextTypeOK, NextIndexedHasValue, PTL DEF Spec

-----------------------------------------------------------------------------
(* The stored positions *)

\* PositionKeepsBlock is not inductive: a writer stores the length that it has
\* read some steps earlier.  What is missing is what the writer knows: before
\* the length is read its block is in the list, and from then on the list is at
\* least that long and has an entry of the block within that length.
InList(l, b) == \E i \in DOMAIN index[l] : index[l][i] = b

Held(l, b, n) ==
  /\ n <= Len(index[l])
  /\ \E i \in DOMAIN index[l] : index[l][i] = b /\ Len(index[l]) - i < n

Knows(w) ==
  /\ pc[w] = "length" => InList(job[w].list, job[w].block)
  /\ pc[w] = "position" => Held(job[w].list, job[w].block, len[w])

PositionsHeld ==
  \A l \in Lists, b \in Blocks :
    position[l][b] # Nil => Held(l, b, position[l][b] + 1)

PositionInv ==
  reverts = 0 =>
    /\ revert.status # "running"
    /\ PositionsHeld
    /\ \A w \in Writers : Knows(w)

\* Pushing a block on a list does not move the entries, counted from the oldest.
LEMMA PushHolds ==
  ASSUME TypeOK, NEW m \in Lists, NEW c \in Blocks,
         index' = [index EXCEPT ![m] = <<c>> \o @],
         NEW l \in Lists, NEW b
  PROVE  /\ InList(l, b) => \E i \in DOMAIN index'[l] : index'[l][i] = b
         /\ \A n \in Int : Held(l, b, n) => (n <= Len(index'[l]) /\
              \E i \in DOMAIN index'[l] : index'[l][i] = b /\ Len(index'[l]) - i < n)
<1>1. index[l] \in Seq(Blocks)
  BY DEF TypeOK
<1>2. CASE l = m
  <2>1. index'[l] = <<c>> \o index[l]
    BY <1>2 DEF TypeOK
  <2>2. /\ Len(index'[l]) = Len(index[l]) + 1
        /\ \A i \in DOMAIN index[l] :
             i + 1 \in DOMAIN index'[l] /\ index'[l][i + 1] = index[l][i]
    BY <1>1, <2>1, PushProperties
  <2>3. InList(l, b) => \E i \in DOMAIN index'[l] : index'[l][i] = b
    BY <2>2 DEF InList
  <2>4. ASSUME NEW n \in Int, Held(l, b, n)
        PROVE  /\ n <= Len(index'[l])
               /\ \E i \in DOMAIN index'[l] : index'[l][i] = b /\ Len(index'[l]) - i < n
    <3>1. PICK i \in DOMAIN index[l] : index[l][i] = b /\ Len(index[l]) - i < n
      BY <2>4 DEF Held
    <3>2. /\ i + 1 \in DOMAIN index'[l] /\ index'[l][i + 1] = b
          /\ Len(index'[l]) - (i + 1) < n /\ n <= Len(index'[l])
      <4>1. i \in Int /\ Len(index[l]) \in Int /\ n <= Len(index[l])
        BY <1>1, <2>4, <3>1 DEF Held
      <4> QED
        BY <2>2, <3>1, <4>1
    <3> QED
      BY <3>2
  <2> QED
    BY <2>3, <2>4
<1>3. CASE l # m
  <2>1. index'[l] = index[l]
    BY <1>3 DEF TypeOK
  <2> QED
    BY <2>1 DEF Held, InList
<1> QED
  BY <1>2, <1>3

\* Every step keeps PositionInv.
LEMMA NextPositionInv == TypeOK /\ PositionInv /\ [Next]_vars => PositionInv'
<1> SUFFICES ASSUME TypeOK, PositionInv, [Next]_vars, reverts' = 0
             PROVE  PositionInv'
  BY DEF PositionInv
<1> USE ConstantsAssumption
<1>1. ASSUME NEW w \in Writers, SetPush(w) PROVE PositionInv'
  <2>1. PICK m \in Lists, c \in Blocks, v \in Values :
          /\ job' = [job EXCEPT ![w] = [list |-> m, block |-> c, value |-> v]]
          /\ index' = [index EXCEPT ![m] = <<c>> \o @]
    BY <1>1 DEF SetPush, Push
  <2>2. /\ pc' = [pc EXCEPT ![w] = "length"]
        /\ UNCHANGED <<position, len, reverts>>
        /\ revert' = NoRevert
    BY <1>1 DEF SetPush, Push
  <2>a. ASSUME NEW l \in Lists, NEW b
        PROVE  /\ InList(l, b) => \E i \in DOMAIN index'[l] : index'[l][i] = b
               /\ \A n \in Int : Held(l, b, n) => (n <= Len(index'[l]) /\
                    \E i \in DOMAIN index'[l] : index'[l][i] = b /\ Len(index'[l]) - i < n)
    BY <2>1, PushHolds
  <2>3. PositionsHeld'
    <3> SUFFICES ASSUME NEW l \in Lists, NEW b \in Blocks, position'[l][b] # Nil
                 PROVE  Held(l, b, position[l][b] + 1)'
      BY DEF PositionsHeld
    <3>1. position[l][b] + 1 \in Int /\ Held(l, b, position[l][b] + 1)
      BY <2>2 DEF PositionInv, PositionsHeld, TypeOK
    <3> QED
      BY <2>a, <2>2, <3>1 DEF Held
  <2>4. Knows(w)'
    <3>1. job'[w].list = m /\ job'[w].block = c /\ pc'[w] = "length"
      BY <2>1, <2>2 DEF TypeOK
    <3>2. index'[m] = <<c>> \o index[m] /\ index[m] \in Seq(Blocks)
      BY <2>1 DEF TypeOK
    <3>3. 1 \in DOMAIN index'[m] /\ index'[m][1] = c
      BY <3>2, PushProperties
    <3> QED
      BY <3>1, <3>3 DEF Knows, InList
  <2>5. ASSUME NEW u \in Writers, u # w PROVE Knows(u)'
    <3>1. pc'[u] = pc[u] /\ job'[u] = job[u] /\ len'[u] = len[u] /\ Knows(u)
      BY <2>1, <2>2, <2>5 DEF TypeOK, PositionInv
    <3>2. pc[u] \in InSet => job[u].list \in Lists /\ len[u] \in Int
      BY DEF TypeOK, Jobs
    <3> DEFINE l == job[u].list
               b == job[u].block
    <3>3. CASE pc[u] = "position"
      <4>1. l \in Lists /\ len[u] \in Int /\ Held(l, b, len[u])
        BY <3>1, <3>2, <3>3 DEF Knows, InSet
      <4>2. /\ len[u] <= Len(index'[l])
            /\ \E i \in DOMAIN index'[l] :
                 index'[l][i] = b /\ Len(index'[l]) - i < len[u]
        BY <2>a, <4>1
      <4> QED
        BY <3>1, <3>3, <4>2 DEF Knows, Held
    <3>4. CASE pc[u] = "length"
      <4>1. l \in Lists /\ InList(l, b)
        BY <3>1, <3>2, <3>4 DEF Knows, InSet
      <4>2. \E i \in DOMAIN index'[l] : index'[l][i] = b
        BY <2>a, <4>1
      <4> QED
        BY <3>1, <3>4, <4>2 DEF Knows, InList
    <3> QED
      BY <3>1, <3>3, <3>4 DEF Knows
  <2> QED
    BY <2>2, <2>3, <2>4, <2>5 DEF PositionInv, NoRevert
<1>2. ASSUME NEW w \in Writers, SetLength(w) PROVE PositionInv'
  <2>1. /\ pc[w] = "length" /\ pc' = [pc EXCEPT ![w] = "position"]
        /\ len' = [len EXCEPT ![w] = Len(index[job[w].list])]
        /\ UNCHANGED <<index, position, job, revert, reverts>>
    BY <1>2 DEF SetLength, redisVars, boundVars
  <2>2. PositionsHeld'
    BY <2>1 DEF PositionInv, PositionsHeld, Held
  <2>3. Knows(w)'
    <3> DEFINE l == job[w].list
    <3>1. l \in Lists /\ index[l] \in Seq(Blocks)
      BY <2>1 DEF TypeOK, InSet, Jobs
    <3>2. PICK i \in DOMAIN index[l] : index[l][i] = job[w].block
      BY <2>1 DEF PositionInv, Knows, InList
    <3>3. Held(l, job[w].block, Len(index[l]))
      BY <3>1, <3>2 DEF Held
    <3> QED
      BY <2>1, <3>3 DEF Knows, Held, TypeOK
  <2>4. ASSUME NEW u \in Writers, u # w PROVE Knows(u)'
    <3>1. pc'[u] = pc[u] /\ len'[u] = len[u] /\ Knows(u)
      BY <2>1, <2>4 DEF TypeOK, PositionInv
    <3> QED
      BY <2>1, <3>1 DEF Knows, Held, InList
  <2> QED
    BY <2>1, <2>2, <2>3, <2>4 DEF PositionInv
<1>3. ASSUME NEW w \in Writers, SetPosition(w) PROVE PositionInv'
  <2>1. /\ pc[w] = "position" /\ pc' \in [Writers -> InSet \cup {"idle"}]
        /\ pc'[w] \in {"track", "value"} /\ \A u \in Writers \ {w} : pc'[u] = pc[u]
        /\ \/ position' = position
           \/ position' = [position EXCEPT ![job[w].list][job[w].block] = len[w] - 1]
        /\ UNCHANGED <<index, job, len, revert, reverts>>
    BY <1>3, NextTypeOK DEF SetPosition, boundVars, TypeOK
  <2>2. job[w] \in Jobs /\ len[w] \in Nat
    BY <2>1 DEF TypeOK, InSet
  <2>3. Held(job[w].list, job[w].block, len[w])
    BY <2>1 DEF PositionInv, Knows
  <2>4. PositionsHeld'
    <3> SUFFICES ASSUME NEW l \in Lists, NEW b \in Blocks, position'[l][b] # Nil
                 PROVE  Held(l, b, position'[l][b] + 1)
      BY <2>1 DEF PositionsHeld, Held
    <3>0. CASE position' = position
      BY <2>1, <3>0 DEF PositionInv, PositionsHeld
    <3>1. CASE position' # position /\ l = job[w].list /\ b = job[w].block
      <4>1. position'[l][b] + 1 = len[w]
        BY <2>1, <2>2, <3>1 DEF TypeOK
      <4> QED
        BY <2>3, <3>1, <4>1
    <3>2. CASE position' # position /\ ~(l = job[w].list /\ b = job[w].block)
      <4>1. position'[l][b] = position[l][b]
        BY <2>1, <2>2, <3>2 DEF TypeOK, Jobs
      <4> QED
        BY <2>1, <4>1 DEF PositionInv, PositionsHeld
    <3> QED
      BY <3>0, <3>1, <3>2
  <2>5. \A u \in Writers : Knows(u)'
    BY <2>1 DEF PositionInv, Knows, Held, InList
  <2> QED
    BY <2>1, <2>4, <2>5 DEF PositionInv
<1>b. ASSUME NEW w \in Writers, SetRefused(w) PROVE PositionInv'
  <2>1. UNCHANGED <<index, position, pc, job, len>> /\ reverts' = reverts /\ revert' = NoRevert
    BY <1>b DEF SetRefused, redisVars
  <2>2. revert'.status # "running"
    BY <2>1 DEF NoRevert
  <2> QED
    BY <2>1, <2>2 DEF PositionInv, PositionsHeld, Knows, Held, InList
<1>4. ASSUME NEW w \in Writers, SetTrack(w) \/ SetValue(w) \/ Crash(w)
      PROVE  PositionInv'
  <2>1. /\ pc'[w] \in {"value", "idle"}
        /\ \A u \in Writers \ {w} :
             pc'[u] = pc[u] /\ job'[u] = job[u] /\ len'[u] = len[u]
        /\ UNCHANGED <<index, position, revert, reverts>>
    BY <1>4 DEF SetTrack, SetValue, Crash, boundVars, redisVars, TypeOK
  <2>2. PositionsHeld'
    BY <2>1 DEF PositionInv, PositionsHeld, Held
  <2>3. Knows(w)'
    BY <2>1 DEF Knows
  <2>4. ASSUME NEW u \in Writers, u # w PROVE Knows(u)'
    <3>1. pc'[u] = pc[u] /\ job'[u] = job[u] /\ len'[u] = len[u] /\ Knows(u)
      BY <2>1, <2>4 DEF PositionInv
    <3> QED
      BY <2>1, <3>1 DEF Knows, Held, InList
  <2> QED
    BY <2>1, <2>2, <2>3, <2>4 DEF PositionInv
<1>5. CASE RevertStep
  <2>1. CASE RevertTo
    BY <2>1 DEF RevertTo, TypeOK
  <2>2. CASE RevertKey \/ RevertRaises \/ RevertReturns
    BY <2>2 DEF RevertKey, Trim, RevertRaises, RevertReturns, PositionInv, boundVars
  <2> QED
    BY <1>5, <2>1, <2>2 DEF RevertStep
<1>6. CASE UNCHANGED vars
  BY <1>6 DEF vars, redisVars, writerVars, boundVars,
              PositionInv, PositionsHeld, Knows, Held, InList
<1> QED
  BY <1>1, <1>b, <1>2, <1>3, <1>4, <1>5, <1>6 DEF Next, SetStep

\* Until the first revert, the position that revert_to would use for a block is
\* inside the list and keeps an entry of the block: for any number of writers,
\* whatever the order of their LPUSHs, LLENs and HSETs.
THEOREM PositionsKeepBlocks == Spec => []PositionKeepsBlock
<1>1. Init => PositionInv
  BY DEF Init, PositionInv, PositionsHeld, Knows, NoRevert
<1>2. TypeOK /\ PositionInv => PositionKeepsBlock
  <2> SUFFICES ASSUME TypeOK, PositionInv, reverts = 0,
                      NEW l \in Lists, NEW b \in Blocks, position[l][b] # Nil
               PROVE  /\ position[l][b] < Len(index[l])
                      /\ \E i \in DOMAIN index[l] :
                           index[l][i] = b /\ PositionOf(l, i) <= position[l][b]
    BY DEF PositionKeepsBlock
  <2>1. /\ position[l][b] \in Int /\ Len(index[l]) \in Int
        /\ DOMAIN index[l] \subseteq Int
    BY DEF TypeOK
  <2>2. Held(l, b, position[l][b] + 1)
    BY DEF PositionInv, PositionsHeld
  <2> QED
    BY <2>1, <2>2 DEF Held, PositionOf
<1> QED
  BY <1>1, <1>2, InitTypeOK, NextTypeOK, NextPositionInv, PTL DEF Spec

-----------------------------------------------------------------------------
(* The store used in an orderly way is a VersionedState *)

-----------------------------------------------------------------------------
(* Sorted lists *)

Sorted(s) == \A i, j \in DOMAIN s : i < j => s[i] >= s[j]

\* Entry i is the newest one of its block.
FirstAt(s, i) == \A m \in DOMAIN s : m < i => s[m] # s[i]

LEMMA HeadIsFirst ==
  ASSUME NEW S, NEW s \in Seq(S), s # <<>>
  PROVE  Head(s) = s[1] /\ 1 \in DOMAIN s
OBVIOUS

\* Every block of a list has a newest entry.
LEMMA FirstEntry ==
  ASSUME NEW S, NEW s \in Seq(S), NEW i \in DOMAIN s
  PROVE  \E j \in DOMAIN s : j <= i /\ s[j] = s[i] /\ FirstAt(s, j)
<1> DEFINE T == {j \in DOMAIN s : s[j] = s[i]}
<1>1. T \subseteq Nat /\ T # {}
  OBVIOUS
<1>2. \E x \in T : \A y \in T : <<y, x>> \notin OpToRel(<, Nat)
  BY <1>1, WFMin, NatLessThanWellFounded, Zenon
<1>3. PICK x \in T : \A y \in T : ~(y < x)
  BY <1>1, <1>2 DEF OpToRel
<1> QED
  BY <1>1, <1>3 DEF FirstAt

\* A block that is not older than the head may be pushed on a sorted list, and
\* the newest entries of the other blocks remain what they are.
LEMMA PushSorted ==
  ASSUME NEW s \in Seq(Nat), NEW b \in Nat, Sorted(s), s # <<>> => b >= s[1]
  PROVE  /\ Sorted(<<b>> \o s)
         /\ \A i \in DOMAIN (<<b>> \o s) : i # 1 /\ FirstAt(<<b>> \o s, i) =>
              FirstAt(s, i - 1) /\ s[i - 1] # b
<1> DEFINE t == <<b>> \o s
<1>1. /\ Len(s) \in Nat /\ DOMAIN s = 1 .. Len(s) /\ Len(t) = Len(s) + 1
      /\ t[1] = b /\ t \in Seq(Nat)
      /\ \A i \in 1 .. Len(s) : t[i + 1] = s[i]
      /\ \A i \in DOMAIN t : i = 1 \/ (i - 1 \in DOMAIN s /\ t[i] = s[i - 1])
  BY PushProperties
<1> HIDE DEF t
<1>2. DOMAIN t = 1 .. (Len(s) + 1)
  BY <1>1
<1>3. \A i \in DOMAIN s : s[i] \in Nat /\ b >= s[i]
  <2> SUFFICES ASSUME NEW i \in DOMAIN s PROVE s[i] \in Nat /\ b >= s[i]
    OBVIOUS
  <2>1. s # <<>> /\ 1 \in DOMAIN s /\ s[1] \in Nat /\ s[i] \in Nat /\ i \in Nat /\ i >= 1
    BY <1>1
  <2>2. i # 1 => s[1] >= s[i]
    <3>1. i # 1 => 1 < i
      BY <2>1
    <3> QED
      BY <2>1, <3>1 DEF Sorted
  <2> QED
    BY <2>1, <2>2
<1>4. Sorted(t)
  <2> SUFFICES ASSUME NEW i \in DOMAIN t, NEW j \in DOMAIN t, i < j PROVE t[i] >= t[j]
    BY DEF Sorted
  <2>1. j # 1 /\ j - 1 \in DOMAIN s /\ t[j] = s[j - 1]
    BY <1>1, <1>2
  <2>2. CASE i = 1
    BY <1>1, <1>3, <2>1, <2>2
  <2>3. CASE i # 1
    <3>1. i - 1 \in DOMAIN s /\ t[i] = s[i - 1] /\ i - 1 < j - 1
      BY <1>1, <1>2, <2>3
    <3> QED
      BY <2>1, <3>1 DEF Sorted
  <2> QED
    BY <2>2, <2>3
<1>5. ASSUME NEW i \in DOMAIN t, i # 1, FirstAt(t, i)
      PROVE  FirstAt(s, i - 1) /\ s[i - 1] # b
  <2>1. i - 1 \in DOMAIN s /\ t[i] = s[i - 1] /\ 1 \in DOMAIN t /\ 1 < i
    BY <1>1, <1>2, <1>5
  <2>2. s[i - 1] # b
    BY <1>1, <1>5, <2>1 DEF FirstAt
  <2>3. ASSUME NEW m \in DOMAIN s, m < i - 1 PROVE s[m] # s[i - 1]
    <3>1. m \in 1 .. Len(s) /\ t[m + 1] = s[m]
      BY <1>1
    <3>2. m + 1 \in DOMAIN t /\ m + 1 < i
      <4>1. i \in 1 .. (Len(s) + 1) /\ m \in Int /\ Len(s) \in Nat
        BY <1>1, <1>2, <3>1
      <4> QED
        BY <1>2, <2>3, <3>1, <4>1
    <3> QED
      BY <1>5, <2>1, <3>1, <3>2 DEF FirstAt
  <2> QED
    BY <2>2, <2>3 DEF FirstAt
<1> QED
  BY <1>4, <1>5 DEF t

\* LTRIM at the position of the newest entry of a block: that entry becomes the
\* head, the entries of later blocks are gone and the others remain.
LEMMA TrimSorted ==
  ASSUME NEW s \in Seq(Nat), Sorted(s), NEW j \in DOMAIN s, FirstAt(s, j)
  PROVE  LET t == Trim(s, Len(s) - j)
         IN  /\ t \in Seq(Nat) /\ Len(t) = Len(s) - j + 1 /\ t # <<>> /\ t[1] = s[j]
             /\ Sorted(t)
             /\ \A i \in DOMAIN t : i + j - 1 \in DOMAIN s /\ t[i] = s[i + j - 1]
             /\ \A i \in DOMAIN t : FirstAt(t, i) => FirstAt(s, i + j - 1)
             /\ \A i \in DOMAIN s : s[i] <= s[j] => i - j + 1 \in DOMAIN t /\ t[i - j + 1] = s[i]
             /\ \A i \in DOMAIN t : t[i] <= s[j]
<1> DEFINE t == Trim(s, Len(s) - j)
<1>1. /\ Len(s) \in Nat /\ DOMAIN s = 1 .. Len(s) /\ j \in 1 .. Len(s)
      /\ \A i \in DOMAIN s : s[i] \in Nat
  OBVIOUS
<1>2. t = SubSeq(s, j, Len(s))
  <2>1. Len(s) - j < Len(s) /\ Len(s) - (Len(s) - j) = j
    BY <1>1
  <2> QED
    BY <2>1 DEF Trim
<1> HIDE DEF t
<1>3. /\ t \in Seq(Nat) /\ Len(t) = Len(s) - j + 1
      /\ \A i \in 1 .. (Len(s) - j + 1) : t[i] = s[j + i - 1]
  <2>1. /\ j \in Int /\ Len(s) \in Int /\ j <= Len(s)
        /\ \A i \in j .. Len(s) : s[i] \in Nat
    BY <1>1
  <2> QED
    BY <1>2, <2>1, SubSeqProperties
<1>4. DOMAIN t = 1 .. (Len(s) - j + 1) /\ t # <<>>
  BY <1>1, <1>3
<1>5. ASSUME NEW i \in DOMAIN t PROVE i + j - 1 \in DOMAIN s /\ t[i] = s[i + j - 1]
  <2>1. i \in 1 .. (Len(s) - j + 1)
    BY <1>4
  <2>2. i + j - 1 \in DOMAIN s /\ i + j - 1 = j + i - 1
    BY <1>1, <2>1
  <2> QED
    BY <1>3, <2>1, <2>2
<1>6. 1 \in DOMAIN t /\ t[1] = s[j]
  <2>1. 1 \in DOMAIN t /\ 1 + j - 1 = j
    BY <1>1, <1>4
  <2> QED
    BY <1>5, <2>1
<1>7. Sorted(t)
  <2> SUFFICES ASSUME NEW i \in DOMAIN t, NEW k \in DOMAIN t, i < k PROVE t[i] >= t[k]
    BY DEF Sorted
  <2>1. /\ i + j - 1 \in DOMAIN s /\ k + j - 1 \in DOMAIN s /\ i + j - 1 < k + j - 1
        /\ t[i] = s[i + j - 1] /\ t[k] = s[k + j - 1]
    BY <1>1, <1>4, <1>5
  <2> QED
    BY <2>1 DEF Sorted
<1>8. \A i \in DOMAIN t : t[i] <= s[j]
  <2> SUFFICES ASSUME NEW i \in DOMAIN t PROVE t[i] <= s[j]
    OBVIOUS
  <2>1. i + j - 1 \in DOMAIN s /\ t[i] = s[i + j - 1] /\ j <= i + j - 1
    BY <1>1, <1>4, <1>5
  <2>2. j = i + j - 1 \/ s[j] >= s[i + j - 1]
    BY <1>1, <2>1 DEF Sorted
  <2> QED
    BY <1>1, <2>1, <2>2
<1>9. \A i \in DOMAIN s : i < j => s[i] > s[j]
  BY <1>1 DEF Sorted, FirstAt
<1>10. ASSUME NEW i \in DOMAIN s, s[i] <= s[j]
       PROVE  i - j + 1 \in DOMAIN t /\ t[i - j + 1] = s[i]
  <2>1. i \in 1 .. Len(s) /\ i >= j
    BY <1>1, <1>9, <1>10
  <2>2. i - j + 1 \in 1 .. (Len(s) - j + 1) /\ j + (i - j + 1) - 1 = i
    BY <1>1, <2>1
  <2> QED
    BY <1>3, <1>4, <2>2
<1>11. ASSUME NEW i \in DOMAIN t, FirstAt(t, i) PROVE FirstAt(s, i + j - 1)
  <2> SUFFICES ASSUME NEW m \in DOMAIN s, m < i + j - 1 PROVE s[m] # s[i + j - 1]
    BY DEF FirstAt
  <2>1. i + j - 1 \in DOMAIN s /\ t[i] = s[i + j - 1] /\ t[i] <= s[j]
    BY <1>5, <1>8
  <2>2. CASE s[m] <= s[j]
    <3>1. m - j + 1 \in DOMAIN t /\ t[m - j + 1] = s[m] /\ m - j + 1 < i
      BY <1>1, <1>4, <1>10, <2>2
    <3> QED
      BY <1>11, <2>1, <3>1 DEF FirstAt
  <2>3. CASE ~(s[m] <= s[j])
    BY <1>1, <2>1, <2>3
  <2> QED
    BY <2>2, <2>3
<1>12. /\ t \in Seq(Nat) /\ Len(t) = Len(s) - j + 1 /\ t # <<>> /\ t[1] = s[j]
       /\ Sorted(t)
       /\ \A i \in DOMAIN t : i + j - 1 \in DOMAIN s /\ t[i] = s[i + j - 1]
       /\ \A i \in DOMAIN t : FirstAt(t, i) => FirstAt(s, i + j - 1)
       /\ \A i \in DOMAIN s : s[i] <= s[j] => i - j + 1 \in DOMAIN t /\ t[i - j + 1] = s[i]
       /\ \A i \in DOMAIN t : t[i] <= s[j]
  BY <1>3, <1>4, <1>5, <1>6, <1>7, <1>8, <1>10, <1>11
<1> QED
  BY <1>12 DEF t

-----------------------------------------------------------------------------
(* The orderly store *)

\* A set in progress owns the head of its list, alone, and has read its length.
Owns(w, l) ==
  /\ index[l] # <<>> /\ index[l][1] = job[w].block
  /\ pc[w] = "position" => len[w] = Len(index[l])
  /\ \A u \in Writers : Busy(u, l) => u = w

\* A list is sorted; the position of a block is that of its newest entry, but
\* for a head whose position is not yet stored; and its blocks have their values,
\* but for a head whose set is in progress.
ListInv(l) ==
  /\ Sorted(index[l])
  /\ \A w \in Writers : Busy(w, l) => Owns(w, l)
  /\ \A i \in DOMAIN index[l] : FirstAt(index[l], i) =>
       \/ position[l][index[l][i]] = Len(index[l]) - i
       \/ i = 1 /\ \E w \in Writers : Busy(w, l) /\ pc[w] \in {"length", "position"}
  /\ \A i \in DOMAIN index[l] :
       \/ value[l][index[l][i]] # Nil
       \/ i = 1 /\ \E w \in Writers : Busy(w, l)

\* revert_to finds its block in the lists it has yet to cut, and has left nothing
\* newer in the others.
RevertInv ==
  /\ revert.status # "none" =>
       revert.store \in Stores /\ \A w \in Writers : pc[w] = "idle"
  /\ revert.status # "raised"
  /\ revert.status = "running" =>
       \A k \in revert.todo :
         \E i \in DOMAIN index[revert.store, k] : index[revert.store, k][i] = revert.block
  /\ revert.status \in {"running", "returned"} =>
       \A k \in Keys \ revert.todo :
         index[revert.store, k] # <<>> => index[revert.store, k][1] <= revert.block
  /\ revert.status = "returned" => revert.todo = {}

\* Of two keys that share a name of Redis at most one is in use, so that every
\* name has the type that its commands ask for.
OneTypePerName ==
  \A l, m \in Lists : NamedLikeHashOf(l) = m => index[l] = <<>> \/ index[m] = <<>>

OrderlyInv ==
  /\ lapses = {}
  /\ \A l \in Lists : ListInv(l)
  /\ OneTypePerName
  /\ RevertInv

\* A step that does not touch a list or the set that writes it.
LEMMA Undisturbed ==
  ASSUME NEW l, ListInv(l), index'[l] = index[l], position'[l] = position[l],
         value'[l] = value[l],
         \A u \in Writers : Busy(u, l)' <=> Busy(u, l),
         \A u \in Writers : Busy(u, l) => pc'[u] = pc[u] /\ job'[u] = job[u] /\ len'[u] = len[u]
  PROVE  ListInv(l)'
<1>1. ASSUME NEW w \in Writers, Busy(w, l)' PROVE Owns(w, l)'
  BY <1>1 DEF ListInv, Owns
<1>2. ASSUME NEW i \in DOMAIN index'[l], FirstAt(index'[l], i)
      PROVE  \/ position'[l][index'[l][i]] = Len(index'[l]) - i
             \/ i = 1 /\ \E w \in Writers : Busy(w, l)' /\ pc'[w] \in {"length", "position"}
  BY <1>2 DEF ListInv
<1>3. ASSUME NEW i \in DOMAIN index'[l]
      PROVE  value'[l][index'[l][i]] # Nil \/ (i = 1 /\ \E w \in Writers : Busy(w, l)')
  BY DEF ListInv
<1>4. Sorted(index'[l])
  BY DEF ListInv
<1> QED
  BY <1>1, <1>2, <1>3, <1>4 DEF ListInv

\* A set pushes its block on a list.
LEMMA PushListInv ==
  ASSUME TypeOK, OrderlyInv, lapses' = {}, NEW w \in Writers, SetPush(w), NEW l \in Lists
  PROVE  ListInv(l)'
<1> USE ConstantsAssumption
<1>1. PICK m \in Lists, b \in Blocks, v \in Values :
        /\ job' = [job EXCEPT ![w] = [list |-> m, block |-> b, value |-> v]]
        /\ index' = [index EXCEPT ![m] = <<b>> \o @]
        /\ ~\E u \in Writers : Busy(u, m)
        /\ index[m] # <<>> => ~(b < Head(index[m]))
  BY DEF SetPush, Push
<1>2. /\ pc[w] = "idle" /\ pc' = [pc EXCEPT ![w] = "length"]
      /\ UNCHANGED <<position, value, len>>
  BY DEF SetPush
<1>3. ListInv(l)
  BY DEF OrderlyInv
<1>4. \A u \in Writers : u # w => pc'[u] = pc[u] /\ job'[u] = job[u]
  BY <1>1, <1>2 DEF TypeOK
<1>5. ~Busy(w, l) /\ (Busy(w, l)' <=> l = m) /\ job'[w].block = b /\ pc'[w] = "length"
  BY <1>1, <1>2 DEF Busy, TypeOK, InSet
<1>6. \A u \in Writers : u # w => (Busy(u, l)' <=> Busy(u, l))
  BY <1>4 DEF Busy
<1>7. CASE l # m
  <2>1. index'[l] = index[l]
    BY <1>1, <1>7 DEF TypeOK
  <2> QED
    BY <1>2, <1>3, <1>4, <1>5, <1>6, <1>7, <2>1, Undisturbed
<1>8. CASE l = m
  <2>1. index'[l] = <<b>> \o index[l] /\ index[l] \in Seq(Nat) /\ b \in Nat
    <3>1. index[l] \in Seq(Blocks)
      BY DEF TypeOK
    <3> QED
      BY <1>1, <1>8, <3>1, SeqMonotonic DEF TypeOK
  <2>2. /\ Len(index[l]) \in Nat /\ DOMAIN index[l] = 1 .. Len(index[l])
        /\ index'[l] \in Seq(Nat) /\ Len(index'[l]) = Len(index[l]) + 1 /\ index'[l][1] = b
        /\ \A i \in DOMAIN index'[l] :
             i = 1 \/ (i - 1 \in DOMAIN index[l] /\ index'[l][i] = index[l][i - 1])
    BY <2>1, PushProperties
  <2>3. index[l] # <<>> => b >= index[l][1]
    <3>1. index[l] # <<>> => index[l][1] \in Nat /\ Head(index[l]) = index[l][1]
      BY <2>1
    <3> QED
      BY <1>1, <1>8, <2>1, <3>1
  <2>4. /\ Sorted(index'[l])
        /\ \A i \in DOMAIN index'[l] : i # 1 /\ FirstAt(index'[l], i) =>
             FirstAt(index[l], i - 1) /\ index[l][i - 1] # b
    BY <1>3, <2>1, <2>3, PushSorted DEF ListInv
  <2>5. \A u \in Writers : ~Busy(u, l)
    BY <1>1, <1>8
  <2>6. Busy(w, l)' /\ \A u \in Writers : Busy(u, l)' => u = w
    BY <1>5, <1>6, <1>8, <2>5
  <2>7. Owns(w, l)'
    <3>1. index'[l] # <<>>
      BY <2>2
    <3> QED
      BY <1>5, <2>2, <2>6, <3>1 DEF Owns
  <2>8. ASSUME NEW i \in DOMAIN index'[l], FirstAt(index'[l], i), i # 1
        PROVE  position'[l][index'[l][i]] = Len(index'[l]) - i
    <3>1. i - 1 \in DOMAIN index[l] /\ index'[l][i] = index[l][i - 1] /\ FirstAt(index[l], i - 1)
      BY <2>2, <2>4, <2>8
    <3>2. position[l][index[l][i - 1]] = Len(index[l]) - (i - 1)
      BY <1>3, <2>5, <3>1 DEF ListInv
    <3>3. Len(index[l]) - (i - 1) = Len(index'[l]) - i
      BY <2>2
    <3> QED
      BY <1>2, <3>1, <3>2, <3>3
  <2>9. ASSUME NEW i \in DOMAIN index'[l], i # 1 PROVE value'[l][index'[l][i]] # Nil
    <3>1. i - 1 \in DOMAIN index[l] /\ index'[l][i] = index[l][i - 1]
      BY <2>2, <2>9
    <3> QED
      BY <1>2, <1>3, <2>5, <3>1 DEF ListInv
  <2> QED
    BY <1>5, <2>4, <2>6, <2>7, <2>8, <2>9 DEF ListInv
<1> QED
  BY <1>7, <1>8

\* A set pushes its block on a list whose names no other key uses.
LEMMA PushOneType ==
  ASSUME TypeOK, OrderlyInv, lapses' = {}, NEW w \in Writers, SetPush(w)
  PROVE  OneTypePerName'
<1>1. PICK n \in Lists, b \in Blocks : index' = [index EXCEPT ![n] = <<b>> \o @] /\ ~Clashes(n)
  BY DEF SetPush, Push
<1> SUFFICES ASSUME NEW l \in Lists, NEW m \in Lists, NamedLikeHashOf(l) = m,
                    index'[l] # <<>>, index'[m] # <<>>
             PROVE  FALSE
  BY DEF OneTypePerName, NamedLikeHashOf
<1>2. \A x \in Lists : x # n => index'[x] = index[x]
  BY <1>1 DEF TypeOK
<1>3. CASE l # n /\ m # n
  BY <1>2, <1>3 DEF OrderlyInv, OneTypePerName
<1>4. CASE l = n /\ m # n
  BY <1>1, <1>2, <1>4 DEF Clashes
<1>5. CASE l # n /\ m = n
  BY <1>1, <1>2, <1>5 DEF Clashes
<1>6. CASE l = n /\ m = n
  <2>1. l[2] \in Keys /\ m[2] = IndexKey[l[2]]
    BY DEF Lists, NamedLikeHashOf
  <2> QED
    BY <1>6, <2>1, NamesAssumption
<1> QED
  BY <1>3, <1>4, <1>5, <1>6

\* A set in progress can store its position.
LEMMA PositionAccepted ==
  ASSUME OrderlyInv, NEW w \in Writers, job[w].list \in Lists, pc[w] \in InSet
  PROVE  ~HashIsList(job[w].list)
<1>1. Busy(w, job[w].list)
  BY DEF Busy
<1>2. index[job[w].list] # <<>>
  BY <1>1 DEF OrderlyInv, ListInv, Owns
<1> QED
  BY <1>2 DEF OrderlyInv, OneTypePerName, HashIsList

\* The later steps of a set: the position and the value of the head are stored.
LEMMA SetListInv ==
  ASSUME TypeOK, OrderlyInv, NEW w \in Writers,
         SetLength(w) \/ SetPosition(w) \/ SetTrack(w) \/ SetValue(w), NEW l \in Lists
  PROVE  ListInv(l)'
<1> USE ConstantsAssumption DEF redisVars, boundVars
<1> DEFINE m == job[w].list
           b == job[w].block
<1>1. ListInv(l)
  BY DEF OrderlyInv
<1>2. pc[w] \in InSet /\ job[w] \in Jobs /\ Busy(w, m) /\ m \in Lists /\ b \in Blocks
  BY DEF SetLength, SetPosition, SetTrack, SetValue, TypeOK, InSet, Jobs, Busy
<1>3. /\ \A u \in Writers : u # w => pc'[u] = pc[u] /\ job'[u] = job[u] /\ len'[u] = len[u]
      /\ index' = index
      /\ SetLength(w) => position' = position /\ value' = value /\ job' = job
           /\ pc[w] = "length" /\ pc'[w] = "position" /\ len'[w] = Len(index[m])
      /\ SetPosition(w) => value' = value /\ job' = job /\ pc[w] = "position"
           /\ pc'[w] \in {"track", "value"}
           /\ position' = [position EXCEPT ![m][b] = len[w] - 1]
      /\ SetTrack(w) => position' = position /\ value' = value /\ job' = job
           /\ pc[w] = "track" /\ pc'[w] = "value"
      /\ SetValue(w) => position' = position /\ pc[w] = "value" /\ pc'[w] = "idle"
           /\ value' = [value EXCEPT ![m][b] = job[w].value]
  <2>1. ~HashIsList(m)
    BY <1>2, PositionAccepted
  <2> QED
    BY <2>1 DEF SetLength, SetPosition, SetTrack, SetValue, TypeOK
<1>4. \A u \in Writers : u # w => (Busy(u, l)' <=> Busy(u, l))
  BY <1>3 DEF Busy
<1>5. CASE l # m
  <2>1. ~Busy(w, l) /\ ~Busy(w, l)'
    BY <1>3, <1>5 DEF Busy, InSet
  <2>2. position'[l] = position[l] /\ value'[l] = value[l]
    BY <1>2, <1>3, <1>5 DEF TypeOK
  <2> QED
    BY <1>1, <1>3, <1>4, <2>1, <2>2, Undisturbed
<1>6. CASE l = m
  <2>1. Owns(w, l) /\ \A u \in Writers : Busy(u, l) => u = w
    BY <1>1, <1>2, <1>6 DEF ListInv, Owns
  <2>2. \A u \in Writers : Busy(u, l)' => u = w
    BY <1>4, <2>1
  <2>3. /\ index[l] \in Seq(Blocks) /\ Len(index[l]) \in Nat
        /\ DOMAIN index[l] = 1 .. Len(index[l]) /\ 1 \in DOMAIN index[l] /\ index[l][1] = b
        /\ \A i \in DOMAIN index[l] : index[l][i] \in Blocks
    BY <2>1 DEF TypeOK, Owns
  <2>4. Sorted(index'[l])
    BY <1>1, <1>3 DEF ListInv
  <2>5. CASE SetLength(w)
    <3>1. Busy(w, l)' /\ Owns(w, l)'
      BY <1>3, <1>6, <2>1, <2>2, <2>5 DEF Owns, Busy, InSet
    <3>2. \A i \in DOMAIN index[l] : FirstAt(index[l], i) =>
            position[l][index[l][i]] = Len(index[l]) - i \/ i = 1
      BY <1>1 DEF ListInv
    <3>3. \A i \in DOMAIN index[l] : value[l][index[l][i]] # Nil \/ i = 1
      BY <1>1 DEF ListInv
    <3> QED
      BY <1>3, <2>2, <2>4, <2>5, <3>1, <3>2, <3>3 DEF ListInv
  <2>6. CASE SetPosition(w)
    <3>1. Busy(w, l)' /\ Owns(w, l)'
      BY <1>3, <1>6, <2>1, <2>2, <2>6 DEF Owns, Busy, InSet
    <3>2. len[w] = Len(index[l])
      BY <1>3, <2>1, <2>6 DEF Owns
    <3>3. ASSUME NEW i \in DOMAIN index[l], FirstAt(index[l], i)
          PROVE  position'[l][index[l][i]] = Len(index[l]) - i
      <4>1. CASE i = 1
        BY <1>2, <1>3, <1>6, <2>3, <2>6, <3>2, <4>1 DEF TypeOK
      <4>2. CASE i # 1
        <5>1. index[l][i] # b /\ position[l][index[l][i]] = Len(index[l]) - i
          BY <1>1, <2>3, <3>3, <4>2 DEF FirstAt, ListInv
        <5>2. position'[l][index[l][i]] = position[l][index[l][i]]
          BY <1>2, <1>3, <1>6, <2>3, <2>6, <5>1 DEF TypeOK
        <5> QED
          BY <5>1, <5>2
      <4> QED
        BY <4>1, <4>2
    <3>4. \A i \in DOMAIN index[l] : value[l][index[l][i]] # Nil \/ i = 1
      BY <1>1 DEF ListInv
    <3> QED
      BY <1>3, <2>2, <2>4, <2>6, <3>1, <3>3, <3>4 DEF ListInv
  <2>7. \A i \in DOMAIN index[l] : FirstAt(index[l], i) /\ pc[w] \in {"track", "value"} =>
          position[l][index[l][i]] = Len(index[l]) - i
    BY <1>1, <2>1 DEF ListInv
  <2>8. CASE SetTrack(w)
    <3>1. Busy(w, l)' /\ Owns(w, l)'
      BY <1>3, <1>6, <2>1, <2>2, <2>8 DEF Owns, Busy, InSet
    <3>2. \A i \in DOMAIN index[l] : value[l][index[l][i]] # Nil \/ i = 1
      BY <1>1 DEF ListInv
    <3> QED
      BY <1>3, <2>2, <2>4, <2>7, <2>8, <3>1, <3>2 DEF ListInv
  <2>9. CASE SetValue(w)
    <3>1. \A u \in Writers : ~Busy(u, l)'
      BY <1>3, <2>2, <2>9 DEF Busy, InSet
    <3>2. ASSUME NEW i \in DOMAIN index[l] PROVE value'[l][index[l][i]] # Nil
      <4>1. CASE index[l][i] = b
        BY <1>2, <1>3, <1>6, <2>9, <4>1 DEF TypeOK, Jobs
      <4>2. CASE index[l][i] # b
        <5>1. value[l][index[l][i]] # Nil
          BY <1>1, <2>3, <4>2 DEF ListInv
        <5> QED
          BY <1>2, <1>3, <1>6, <2>3, <2>9, <4>2, <5>1 DEF TypeOK
      <4> QED
        BY <4>1, <4>2
    <3> QED
      BY <1>3, <2>4, <2>7, <2>9, <3>1, <3>2 DEF ListInv
  <2> QED
    BY <2>5, <2>6, <2>8, <2>9
<1> QED
  BY <1>5, <1>6

\* What one pass of revert_to does to its list: the newest entry of the block
\* becomes the head.
LEMMA RevertKeyShape ==
  ASSUME TypeOK, OrderlyInv, RevertKey
  PROVE  \E k \in revert.todo, l \in Lists : \E j \in DOMAIN index[l] :
           /\ k \in Keys /\ l = <<revert.store, k>>
           /\ FirstAt(index[l], j) /\ index[l][j] = revert.block
           /\ index' = [index EXCEPT ![l] = Trim(@, Len(index[l]) - j)]
           /\ revert' = [revert EXCEPT !.todo = @ \ {k}]
<1>1. PICK k \in revert.todo :
        /\ position[<<revert.store, k>>][revert.block] # Nil
        /\ index' = [index EXCEPT ![<<revert.store, k>>] =
                       Trim(@, position[<<revert.store, k>>][revert.block])]
        /\ revert' = [revert EXCEPT !.todo = @ \ {k}]
  BY DEF RevertKey
<1> DEFINE l == <<revert.store, k>>
<1>2. revert.status = "running" /\ l \in Lists /\ k \in Keys
  BY DEF RevertKey, TypeOK, Reverts, Lists
<1>3. \A w \in Writers : ~Busy(w, l)
  BY <1>2 DEF OrderlyInv, RevertInv, Busy, InSet
<1>4. PICK i \in DOMAIN index[l] : index[l][i] = revert.block
  BY <1>2 DEF OrderlyInv, RevertInv
<1>5. index[l] \in Seq(Blocks)
  BY <1>2 DEF TypeOK
<1>6. PICK j \in DOMAIN index[l] : index[l][j] = index[l][i] /\ FirstAt(index[l], j)
  BY <1>5, FirstEntry
<1>7. position[l][revert.block] = Len(index[l]) - j
  BY <1>2, <1>3, <1>4, <1>6 DEF OrderlyInv, ListInv
<1> QED
  BY <1>1, <1>2, <1>4, <1>6, <1>7

\* revert_to cuts a list.
LEMMA RevertKeyInv ==
  ASSUME TypeOK, OrderlyInv, RevertKey
  PROVE  (\A l \in Lists : ListInv(l)') /\ OneTypePerName' /\ RevertInv'
<1> USE ConstantsAssumption
<1>1. PICK k \in revert.todo, l \in Lists : \E j \in DOMAIN index[l] :
        /\ k \in Keys /\ l = <<revert.store, k>>
        /\ FirstAt(index[l], j) /\ index[l][j] = revert.block
        /\ index' = [index EXCEPT ![l] = Trim(@, Len(index[l]) - j)]
        /\ revert' = [revert EXCEPT !.todo = @ \ {k}]
  BY RevertKeyShape
<1>2. PICK j \in DOMAIN index[l] :
        /\ k \in Keys /\ l = <<revert.store, k>>
        /\ FirstAt(index[l], j) /\ index[l][j] = revert.block
        /\ index' = [index EXCEPT ![l] = Trim(@, Len(index[l]) - j)]
        /\ revert' = [revert EXCEPT !.todo = @ \ {k}]
  BY <1>1
<1>3. revert.status = "running" /\ UNCHANGED <<position, value, pc, job, len>>
  BY DEF RevertKey, writerVars
<1>4. \A w \in Writers, m \in Lists : ~Busy(w, m) /\ ~Busy(w, m)'
  BY <1>3 DEF OrderlyInv, RevertInv, Busy, InSet
<1>5. ListInv(l) /\ index'[l] = Trim(index[l], Len(index[l]) - j)
  BY <1>2 DEF OrderlyInv, TypeOK
<1>6. index[l] \in Seq(Nat)
  <2>1. index[l] \in Seq(Blocks)
    BY <1>2 DEF TypeOK
  <2> QED
    BY <2>1, SeqMonotonic
<1>7. /\ index'[l] # <<>> /\ index'[l][1] = index[l][j] /\ Sorted(index'[l])
      /\ index'[l] \in Seq(Nat) /\ Len(index'[l]) = Len(index[l]) - j + 1
      /\ \A i \in DOMAIN index'[l] :
           i + j - 1 \in DOMAIN index[l] /\ index'[l][i] = index[l][i + j - 1]
      /\ \A i \in DOMAIN index'[l] : FirstAt(index'[l], i) => FirstAt(index[l], i + j - 1)
  <2> DEFINE s == index[l]
             t == Trim(s, Len(s) - j)
  <2>1. s \in Seq(Nat) /\ Sorted(s) /\ j \in DOMAIN s /\ FirstAt(s, j)
    BY <1>2, <1>5, <1>6 DEF ListInv
  <2> HIDE DEF s
  <2>2. /\ t \in Seq(Nat) /\ Len(t) = Len(s) - j + 1 /\ t # <<>> /\ t[1] = s[j]
        /\ Sorted(t)
        /\ \A i \in DOMAIN t : i + j - 1 \in DOMAIN s /\ t[i] = s[i + j - 1]
        /\ \A i \in DOMAIN t : FirstAt(t, i) => FirstAt(s, i + j - 1)
    BY <2>1, TrimSorted
  <2> HIDE DEF t
  <2>3. index'[l] = t /\ index[l] = s
    BY <1>5 DEF t, s
  <2> QED
    BY <2>2, <2>3
<1>8. ListInv(l)'
  <2>1. ASSUME NEW i \in DOMAIN index'[l], FirstAt(index'[l], i)
        PROVE  position'[l][index'[l][i]] = Len(index'[l]) - i
    <3>1. position[l][index[l][i + j - 1]] = Len(index[l]) - (i + j - 1)
      BY <1>2, <1>4, <1>5, <1>7, <2>1 DEF ListInv
    <3>2. Len(index[l]) - (i + j - 1) = Len(index'[l]) - i
      <4>1. i \in Nat /\ j \in Nat /\ Len(index[l]) \in Nat
        <5>1. DOMAIN index'[l] \subseteq Nat /\ DOMAIN index[l] \subseteq Nat
          <6>1. \A s \in Seq(Nat) : DOMAIN s \subseteq Nat
            OBVIOUS
          <6> QED
            BY <1>6, <1>7, <6>1
        <5>2. Len(index[l]) \in Nat
          BY <1>6
        <5> QED
          BY <5>1, <5>2
      <4> QED
        BY <1>7, <4>1
    <3> QED
      BY <1>3, <1>7, <3>1, <3>2
  <2>2. ASSUME NEW i \in DOMAIN index'[l] PROVE value'[l][index'[l][i]] # Nil
    <3>1. value[l][index[l][i + j - 1]] # Nil
      BY <1>4, <1>5, <1>7 DEF ListInv
    <3> QED
      BY <1>3, <1>7, <3>1
  <2> QED
    BY <1>2, <1>4, <1>7, <2>1, <2>2 DEF ListInv
<1>9. ASSUME NEW m \in Lists, m # l PROVE ListInv(m)'
  <2>1. index'[m] = index[m] /\ ListInv(m)
    BY <1>2, <1>9 DEF TypeOK, OrderlyInv
  <2> QED
    BY <1>3, <1>4, <2>1, Undisturbed
<1>10. RevertInv'
  <2>1. /\ revert'.status = "running" /\ revert'.store = revert.store
        /\ revert'.block = revert.block /\ revert'.todo = revert.todo \ {k}
    BY <1>2, <1>3 DEF TypeOK, Reverts
  <2>2. revert'.store \in Stores /\ \A w \in Writers : pc'[w] = "idle"
    BY <1>3, <2>1 DEF OrderlyInv, RevertInv
  <2>3. \A h \in Keys : h # k => index'[revert.store, h] = index[revert.store, h]
    <3>1. revert.store \in Stores
      BY <1>3 DEF TypeOK
    <3>2. \A h \in Keys : <<revert.store, h>> \in Lists
      BY <3>1 DEF Lists
    <3>3. \A h \in Keys : h # k => <<revert.store, h>> # l
      BY <1>2
    <3> QED
      BY <1>2, <3>2, <3>3 DEF TypeOK
  <2>4. revert.todo \subseteq Keys
    BY DEF TypeOK, Reverts
  <2>5. \A h \in revert'.todo : \E i \in DOMAIN index'[revert.store, h] :
          index'[revert.store, h][i] = revert.block
    <3> SUFFICES ASSUME NEW h \in revert'.todo
                 PROVE  \E i \in DOMAIN index'[revert.store, h] :
                          index'[revert.store, h][i] = revert.block
      OBVIOUS
    <3>1. h \in revert.todo /\ h \in Keys /\ h # k
      BY <2>1, <2>4
    <3>2. index'[revert.store, h] = index[revert.store, h]
      BY <2>3, <3>1
    <3>3. \E i \in DOMAIN index[revert.store, h] : index[revert.store, h][i] = revert.block
      BY <1>3, <3>1 DEF OrderlyInv, RevertInv
    <3> QED
      BY <3>2, <3>3
  <2>6. index'[revert.store, k][1] <= revert.block
    <3>1. revert.block \in Nat
      BY <1>3 DEF TypeOK
    <3> QED
      <4>1. index'[revert.store, k] = index'[l] /\ index'[l][1] = revert.block
        BY <1>2, <1>7
      <4>2. index'[revert.store, k][1] = revert.block
        BY <4>1, Zenon
      <4>3. revert.block <= revert.block
        BY <3>1
      <4> QED
        BY <4>2, <4>3, Zenon
  <2>7. \A h \in Keys \ revert'.todo :
          index'[revert.store, h] # <<>> => index'[revert.store, h][1] <= revert.block
    BY <1>3, <2>1, <2>3, <2>6 DEF OrderlyInv, RevertInv
  <2> QED
    BY <2>1, <2>2, <2>5, <2>7 DEF RevertInv
<1>11. OneTypePerName'
  <2>1. index[l] # <<>>
    BY <1>6
  <2>2. \A m \in Lists : index'[m] # <<>> => index[m] # <<>>
    BY <1>2, <2>1 DEF TypeOK
  <2> QED
    BY <2>2 DEF OrderlyInv, OneTypePerName, NamedLikeHashOf
<1> QED
  BY <1>8, <1>9, <1>10, <1>11

\* The invariant holds at first ...
LEMMA InitOrderlyInv == Init => OrderlyInv
<1> SUFFICES ASSUME Init PROVE OrderlyInv
  OBVIOUS
<1>1. \A l \in Lists : index[l] = <<>> /\ \A w \in Writers : ~Busy(w, l)
  BY DEF Init, Busy, InSet
<1>2. \A l \in Lists : DOMAIN index[l] = {}
  BY <1>1
<1>3. \A l \in Lists : ListInv(l)
  BY <1>1, <1>2 DEF ListInv, Sorted
<1>4. OneTypePerName
  BY <1>1 DEF OneTypePerName
<1> QED
  BY <1>3, <1>4 DEF Init, OrderlyInv, RevertInv, NoRevert

\* ... and after every orderly step.
LEMMA NextOrderlyInv ==
  TypeOK /\ OrderlyInv /\ [Next /\ lapses' = {}]_vars => OrderlyInv'
<1> SUFFICES ASSUME TypeOK, OrderlyInv, [Next /\ lapses' = {}]_vars PROVE OrderlyInv'
  OBVIOUS
<1>0. lapses' = {}
  BY DEF OrderlyInv, vars
<1>a. ASSUME UNCHANGED <<index, position, value, pc, job, len>>, NEW l \in Lists
      PROVE  ListInv(l)'
  <2>1. \A u \in Writers : Busy(u, l)' <=> Busy(u, l)
    BY <1>a DEF Busy
  <2> QED
    BY <1>a, <2>1, Undisturbed DEF OrderlyInv
<1>c. index' = index => OneTypePerName'
  BY DEF OrderlyInv, OneTypePerName, NamedLikeHashOf
<1>1. ASSUME NEW w \in Writers, SetPush(w) PROVE OrderlyInv'
  <2>1. revert'.status = "none"
    BY <1>1 DEF SetPush, NoRevert
  <2> QED
    BY <1>0, <1>1, <2>1, PushListInv, PushOneType DEF OrderlyInv, RevertInv
<1>2. ASSUME NEW w \in Writers, SetLength(w) \/ SetPosition(w) \/ SetTrack(w) \/ SetValue(w)
      PROVE  OrderlyInv'
  <2>1. revert' = revert /\ pc[w] # "idle" /\ index' = index
    BY <1>2 DEF SetLength, SetPosition, SetTrack, SetValue, redisVars
  <2>2. revert'.status = "none"
    BY <2>1 DEF OrderlyInv, RevertInv
  <2> QED
    BY <1>0, <1>c, <1>2, <2>1, <2>2, SetListInv DEF OrderlyInv, RevertInv
<1>3. ASSUME NEW w \in Writers, Crash(w) \/ SetRefused(w) PROVE OrderlyInv'
  BY <1>0, <1>3 DEF Crash, SetRefused
<1>4. CASE RevertTo
  <2>1. /\ UNCHANGED <<index, position, value, pc, job, len, tracked>>
        /\ \A w \in Writers : pc[w] = "idle"
    BY <1>4 DEF RevertTo, redisVars
  <2>2. PICK s \in Stores, n \in Blocks :
          /\ revert' = [status |-> "running", store |-> s, block |-> n, todo |-> tracked]
          /\ lapses' = lapses \cup (IF Revertible(s, n) THEN {} ELSE {"blind_revert"})
    BY <1>4 DEF RevertTo
  <2>3. Revertible(s, n) /\ tracked \subseteq Keys
    BY <1>0, <2>2 DEF TypeOK
  <2>4. /\ revert'.status = "running" /\ revert'.store = s /\ revert'.block = n
        /\ revert'.todo = tracked
    BY <2>2
  <2>5. RevertInv'
    BY <2>1, <2>3, <2>4 DEF RevertInv, Revertible
  <2> QED
    BY <1>0, <1>a, <1>c, <2>1, <2>5 DEF OrderlyInv
<1>5. CASE RevertKey
  BY <1>0, <1>5, RevertKeyInv DEF OrderlyInv
<1>6. CASE RevertRaises
  <2>1. PICK k \in revert.todo : position[<<revert.store, k>>][revert.block] = Nil
    BY <1>6 DEF RevertRaises
  <2> DEFINE l == <<revert.store, k>>
  <2>2. revert.status = "running" /\ l \in Lists
    BY <1>6 DEF RevertRaises, TypeOK, Reverts, Lists
  <2>3. \A w \in Writers : ~Busy(w, l)
    BY <2>2 DEF OrderlyInv, RevertInv, Busy, InSet
  <2>4. PICK i \in DOMAIN index[l] : index[l][i] = revert.block
    BY <2>2 DEF OrderlyInv, RevertInv
  <2>5. index[l] \in Seq(Blocks)
    BY <2>2 DEF TypeOK
  <2>6. PICK j \in DOMAIN index[l] : j <= i /\ index[l][j] = index[l][i] /\ FirstAt(index[l], j)
    BY <2>5, FirstEntry
  <2>7. position[l][revert.block] = Len(index[l]) - j
    BY <2>2, <2>3, <2>4, <2>6 DEF OrderlyInv, ListInv
  <2>8. Len(index[l]) - j \in Nat
    BY <2>5
  <2> QED
    BY <2>1, <2>7, <2>8, ConstantsAssumption
<1>7. CASE RevertReturns
  <2>1. /\ UNCHANGED <<index, position, value, pc, job, len>>
        /\ revert.status = "running" /\ revert.todo = {}
        /\ revert' = [revert EXCEPT !.status = "returned"]
    BY <1>7 DEF RevertReturns, redisVars, writerVars
  <2>2. /\ revert'.status = "returned" /\ revert'.store = revert.store
        /\ revert'.block = revert.block /\ revert'.todo = {}
    BY <2>1 DEF TypeOK, Reverts
  <2>3. RevertInv'
    BY <2>1, <2>2 DEF OrderlyInv, RevertInv
  <2> QED
    BY <1>0, <1>a, <1>c, <2>1, <2>3 DEF OrderlyInv
<1>8. CASE UNCHANGED vars
  <2>1. UNCHANGED <<index, position, value, pc, job, len, revert>>
    BY <1>8 DEF vars, redisVars, writerVars
  <2>2. RevertInv'
    BY <2>1 DEF OrderlyInv, RevertInv
  <2> QED
    BY <1>0, <1>a, <1>c, <2>1, <2>2 DEF OrderlyInv
<1> QED
  BY <1>1, <1>2, <1>3, <1>4, <1>5, <1>6, <1>7, <1>8 DEF Next, SetStep, RevertStep

\* OrderlyInv, with the types, is an invariant.
LEMMA OrderlyInvariant == OrderlySpec => [](TypeOK /\ OrderlyInv)
<1>1. TypeOK /\ [Next /\ lapses' = {}]_vars => TypeOK'
  BY NextTypeOK
<1> QED
  BY <1>1, InitTypeOK, InitOrderlyInv, NextOrderlyInv, PTL DEF OrderlySpec

\* When writers take turns, go up through the blocks and use no two keys that
\* differ by "_index", the lists stay sorted and the positions that revert_to will
\* use stay exact, reverts included.
THEOREM OrderlyIndexIsExact == OrderlySpec => []IndexIsExact
<1>1. TypeOK /\ OrderlyInv => IndexIsExact
  <2> SUFFICES ASSUME TypeOK, OrderlyInv, NEW l \in Lists
               PROVE  /\ \A i, j \in DOMAIN index[l] : i < j => index[l][i] >= index[l][j]
                      /\ \A i \in DOMAIN index[l] :
                           \/ \E w \in Writers : Busy(w, l) /\ job[w].block = index[l][i]
                           \/ \E j \in 1 .. i :
                                /\ index[l][j] = index[l][i]
                                /\ \A m \in 1 .. (j - 1) : index[l][m] # index[l][i]
                                /\ position[l][index[l][i]] = PositionOf(l, j)
    BY DEF IndexIsExact
  <2>1. ListInv(l) /\ index[l] \in Seq(Blocks)
    BY DEF OrderlyInv, TypeOK
  <2>2. ASSUME NEW i \in DOMAIN index[l]
        PROVE  \/ \E w \in Writers : Busy(w, l) /\ job[w].block = index[l][i]
               \/ \E j \in 1 .. i :
                    /\ index[l][j] = index[l][i]
                    /\ \A m \in 1 .. (j - 1) : index[l][m] # index[l][i]
                    /\ position[l][index[l][i]] = PositionOf(l, j)
    <3>1. PICK j \in DOMAIN index[l] :
            j <= i /\ index[l][j] = index[l][i] /\ FirstAt(index[l], j)
      BY <2>1, FirstEntry
    <3>2. j \in 1 .. i /\ \A m \in 1 .. (j - 1) : m \in DOMAIN index[l] /\ m < j
      BY <2>1, <3>1
    <3>3. \A m \in 1 .. (j - 1) : index[l][m] # index[l][i]
      BY <3>1, <3>2 DEF FirstAt
    <3>4. CASE position[l][index[l][j]] = Len(index[l]) - j
      BY <3>1, <3>2, <3>3, <3>4 DEF PositionOf
    <3>5. CASE j = 1 /\ \E w \in Writers : Busy(w, l)
      BY <2>1, <3>1, <3>5 DEF ListInv, Owns
    <3> QED
      BY <2>1, <3>1, <3>4, <3>5 DEF ListInv
  <2> QED
    BY <2>1, <2>2 DEF ListInv, Sorted
<1> QED
  BY <1>1, OrderlyInvariant, PTL

\* In the same use, a revert to a block that every key was written in never fails,
\* and when it is over no key shows what a block after the fork wrote.
THEOREM OrderlyRevertRestores == OrderlySpec => []RevertRestoresFork
<1>1. TypeOK /\ OrderlyInv => RevertRestoresFork
  <2> SUFFICES ASSUME TypeOK, OrderlyInv, revert.status \in {"returned", "raised"},
                      NEW k \in Keys, index[revert.store, k] # <<>>
               PROVE  Head(index[revert.store, k]) <= revert.block
    BY DEF RevertRestoresFork
  <2>1. index[revert.store, k][1] <= revert.block
    BY DEF OrderlyInv, RevertInv
  <2>2. index[revert.store, k] \in Seq(Blocks)
    BY DEF OrderlyInv, RevertInv, TypeOK, Lists
  <2>3. Head(index[revert.store, k]) = index[revert.store, k][1]
    BY <2>2, HeadIsFirst
  <2> QED
    BY <2>1, <2>3
<1> QED
  BY <1>1, OrderlyInvariant, PTL

-----------------------------------------------------------------------------
(* The refinement *)

\* A step that leaves the complete sets of a list and their values alone.
LEMMA SameWritten ==
  ASSUME NEW l, Committed(l)' = Committed(l), value'[l] = value[l]
  PROVE  Written(l)' = Written(l)
BY DEF Written

LEMMA CommittedShape ==
  ASSUME NEW l
  PROVE  /\ (\A w \in Writers : ~Busy(w, l)) => Committed(l) = index[l]
         /\ (\E w \in Writers : Busy(w, l)) => Committed(l) = Tail(index[l])
BY DEF Committed

\* What a list shows, block by block.
LEMMA WrittenAt ==
  ASSUME NEW l, NEW b \in Blocks
  PROVE  /\ (\E i \in DOMAIN Committed(l) : Committed(l)[i] = b) => Written(l)[b] = value[l][b]
         /\ (\A i \in DOMAIN Committed(l) : Committed(l)[i] # b) => Written(l)[b] = Nil
         /\ Written(l) \in [Blocks -> {value[l][a] : a \in Blocks} \cup {Nil}]
BY DEF Written

\* Before its HSET a set changes nothing of what get can see.
LEMMA PushStutters ==
  ASSUME TypeOK, OrderlyInv, lapses' = {}, NEW w \in Writers, SetPush(w), NEW l \in Lists
  PROVE  Written(l)' = Written(l)
<1> USE ConstantsAssumption
<1>1. PICK m \in Lists, b \in Blocks, v \in Values :
        /\ job' = [job EXCEPT ![w] = [list |-> m, block |-> b, value |-> v]]
        /\ index' = [index EXCEPT ![m] = <<b>> \o @]
        /\ ~\E u \in Writers : Busy(u, m)
  BY DEF SetPush, Push
<1>2. pc[w] = "idle" /\ pc' = [pc EXCEPT ![w] = "length"] /\ value' = value
  BY DEF SetPush
<1>3. \A u \in Writers : u # w => (Busy(u, l)' <=> Busy(u, l))
  BY <1>1, <1>2 DEF Busy, TypeOK
<1>4. ~Busy(w, l) /\ (Busy(w, l)' <=> l = m)
  BY <1>1, <1>2 DEF Busy, TypeOK, InSet
<1>5. index[l] \in Seq(Blocks)
  BY DEF TypeOK
<1>6. CASE l = m
  <2>1. Committed(l) = index[l]
    BY <1>1, <1>6, CommittedShape
  <2>2. Committed(l)' = Tail(index'[l])
    BY <1>4, <1>6 DEF Committed
  <2>3. index'[l] = <<b>> \o index[l]
    BY <1>1, <1>6 DEF TypeOK
  <2>4. Tail(<<b>> \o index[l]) = index[l]
    BY <1>5
  <2> QED
    BY <1>2, <2>1, <2>2, <2>3, <2>4, SameWritten
<1>7. CASE l # m
  <2>1. index'[l] = index[l]
    BY <1>1, <1>7 DEF TypeOK
  <2>2. (\E u \in Writers : Busy(u, l)') <=> (\E u \in Writers : Busy(u, l))
    BY <1>3, <1>4, <1>7
  <2>3. Committed(l)' = Committed(l)
    BY <2>1, <2>2 DEF Committed
  <2> QED
    BY <1>2, <2>3, SameWritten
<1> QED
  BY <1>6, <1>7

\* The HSET of the value is a Set of the versioned state ...
LEMMA ValueSets ==
  ASSUME TypeOK, OrderlyInv, NEW w \in Writers, SetValue(w)
  PROVE  \E l \in Lists, b \in Blocks, v \in Values :
           /\ \A a \in Blocks : a > b => Written(l)[a] = Nil
           /\ Written(l)' = [Written(l) EXCEPT ![b] = v]
           /\ \A m \in Lists : m # l => Written(m)' = Written(m)
<1> USE ConstantsAssumption
<1>1. PICK l \in Lists, b \in Blocks, v \in Values :
        job[w] = [list |-> l, block |-> b, value |-> v]
  BY DEF SetValue, TypeOK, InSet, Jobs
<1>2. /\ pc[w] = "value" /\ pc' = [pc EXCEPT ![w] = "idle"]
      /\ job' = [job EXCEPT ![w] = NoJob] /\ index' = index
      /\ value' = [value EXCEPT ![l][b] = v]
  BY <1>1 DEF SetValue
<1>3. \A u \in Writers, m \in Lists : u # w => (Busy(u, m)' <=> Busy(u, m))
  BY <1>2 DEF Busy, TypeOK
<1>4. Busy(w, l) /\ \A m \in Lists : ~Busy(w, m)' /\ (m # l => ~Busy(w, m))
  BY <1>1, <1>2 DEF Busy, TypeOK, InSet
<1>5. ListInv(l) /\ Owns(w, l)
  BY <1>4 DEF OrderlyInv, ListInv
<1>6. ASSUME NEW m \in Lists, m # l PROVE Written(m)' = Written(m)
  <2>1. (\E u \in Writers : Busy(u, m)') <=> (\E u \in Writers : Busy(u, m))
    BY <1>3, <1>4, <1>6
  <2>2. Committed(m)' = Committed(m)
    BY <1>2, <2>1 DEF Committed
  <2>3. value'[m] = value[m]
    BY <1>2, <1>6 DEF TypeOK
  <2> QED
    BY <2>2, <2>3, SameWritten
<1> DEFINE s == index[l]
           t == Tail(index[l])
<1>7. Committed(l) = t
  BY <1>4, CommittedShape
<1>8. Committed(l)' = s
  <2>1. \A u \in Writers : ~Busy(u, l)'
    BY <1>3, <1>4, <1>5 DEF Owns
  <2> QED
    BY <1>2, <2>1 DEF Committed
<1>9. s \in Seq(Blocks) /\ s # <<>> /\ s[1] = b /\ Sorted(s)
  BY <1>1, <1>5 DEF Owns, ListInv, TypeOK
<1>10. /\ t \in Seq(Blocks) /\ Len(s) \in Nat /\ DOMAIN s = 1 .. Len(s)
       /\ Len(t) = Len(s) - 1 /\ DOMAIN t = 1 .. (Len(s) - 1)
       /\ \A i \in 1 .. (Len(s) - 1) : t[i] = s[i + 1]
  <2>1. t \in Seq(Blocks) /\ Len(t) = Len(s) - 1 /\ \A i \in 1 .. Len(t) : t[i] = s[i + 1]
    BY <1>9, HeadTailProperties
  <2>2. Len(s) \in Nat /\ DOMAIN s = 1 .. Len(s)
    BY <1>9
  <2> QED
    BY <2>1, <2>2
<1> HIDE DEF s, t
<1>11. \A i \in DOMAIN t : i + 1 \in DOMAIN s /\ 1 < i + 1 /\ t[i] = s[i + 1]
  BY <1>10
<1>12. 1 \in DOMAIN s /\ \A i \in DOMAIN s : i # 1 => i - 1 \in DOMAIN t /\ t[i - 1] = s[i]
  <2>1. 1 \in DOMAIN s
    BY <1>9, HeadIsFirst
  <2>2. ASSUME NEW i \in DOMAIN s, i # 1 PROVE i - 1 \in DOMAIN t /\ t[i - 1] = s[i]
    <3>1. i - 1 \in 1 .. (Len(s) - 1) /\ (i - 1) + 1 = i
      BY <1>10, <2>2
    <3> QED
      BY <1>10, <3>1
  <2> QED
    BY <2>1, <2>2
<1>13. \A i \in DOMAIN t : t[i] \in Blocks /\ t[i] <= b
  BY <1>9, <1>10, <1>11, <1>12 DEF Sorted
<1>14. ASSUME NEW a \in Blocks, a > b PROVE Written(l)[a] = Nil
  <2>1. \A i \in DOMAIN t : t[i] # a
    BY <1>13, <1>14
  <2> QED
    BY <1>7, <2>1, WrittenAt
<1>15. ASSUME NEW a \in Blocks PROVE Written(l)'[a] = [Written(l) EXCEPT ![b] = v][a]
  <2>1. CASE a = b
    <3>1. \E i \in DOMAIN s : s[i] = a
      BY <1>9, <1>12, <2>1
    <3>2. Written(l)'[a] = value'[l][a]
      BY <1>8, <3>1 DEF Written
    <3>3. value'[l][a] = v
      BY <1>2, <2>1 DEF TypeOK
    <3> QED
      BY <2>1, <3>2, <3>3, WrittenAt
  <2>2. CASE a # b
    <3>1. (\E i \in DOMAIN s : s[i] = a) <=> (\E i \in DOMAIN t : t[i] = a)
      BY <1>9, <1>11, <1>12, <2>2
    <3>2. value'[l][a] = value[l][a]
      BY <1>2, <2>2 DEF TypeOK
    <3>3. Written(l)'[a] = Written(l)[a]
      BY <1>7, <1>8, <3>1, <3>2 DEF Written
    <3> QED
      BY <2>2, <3>3, WrittenAt
  <2> QED
    BY <2>1, <2>2
<1>16. Written(l)' = [Written(l) EXCEPT ![b] = v]
  BY <1>15 DEF Written
<1> QED
  BY <1>6, <1>14, <1>16

\* ... and one pass of the loop of revert_to a RevertCell.
LEMMA KeyReverts ==
  ASSUME TypeOK, OrderlyInv, RevertKey
  PROVE  \E l \in Lists, n \in Blocks :
           /\ Written(l)' = [a \in Blocks |-> IF a > n THEN Nil ELSE Written(l)[a]]
           /\ \A m \in Lists : m # l => Written(m)' = Written(m)
<1> USE ConstantsAssumption
<1>1. PICK k \in revert.todo, l \in Lists : \E j \in DOMAIN index[l] :
        /\ k \in Keys /\ l = <<revert.store, k>>
        /\ FirstAt(index[l], j) /\ index[l][j] = revert.block
        /\ index' = [index EXCEPT ![l] = Trim(@, Len(index[l]) - j)]
        /\ revert' = [revert EXCEPT !.todo = @ \ {k}]
  BY RevertKeyShape
<1>2. PICK j \in DOMAIN index[l] :
        /\ FirstAt(index[l], j)
        /\ index' = [index EXCEPT ![l] = Trim(@, Len(index[l]) - j)]
  BY <1>1
<1>3. revert.status = "running" /\ UNCHANGED <<value, pc, job>>
  BY DEF RevertKey, writerVars
<1>4. \A w \in Writers, m \in Lists : ~Busy(w, m) /\ ~Busy(w, m)'
  BY <1>3 DEF OrderlyInv, RevertInv, Busy, InSet
<1>5. \A m \in Lists : Committed(m) = index[m] /\ Committed(m)' = index'[m]
  BY <1>4 DEF Committed
<1>6. ASSUME NEW m \in Lists, m # l PROVE Written(m)' = Written(m)
  <2>1. index'[m] = index[m]
    BY <1>2, <1>6 DEF TypeOK
  <2> QED
    BY <1>3, <1>5, <2>1, SameWritten
<1> DEFINE s == index[l]
           t == Trim(s, Len(s) - j)
           n == s[j]
<1>7. index'[l] = t
  BY <1>2 DEF TypeOK
<1>8. s \in Seq(Nat) /\ s \in Seq(Blocks) /\ Sorted(s) /\ FirstAt(s, j) /\ j \in DOMAIN s
  <2>1. s \in Seq(Blocks)
    BY DEF TypeOK
  <2> QED
    BY <1>2, <2>1, SeqMonotonic DEF OrderlyInv, ListInv
<1>9. n \in Blocks /\ n \in Nat
  BY <1>8
<1> HIDE DEF s
<1>10. /\ \A i \in DOMAIN t : i + j - 1 \in DOMAIN s /\ t[i] = s[i + j - 1]
       /\ \A i \in DOMAIN s : s[i] <= s[j] => i - j + 1 \in DOMAIN t /\ t[i - j + 1] = s[i]
       /\ \A i \in DOMAIN t : t[i] <= s[j]
  BY <1>8, TrimSorted
<1> HIDE DEF t
<1>11. ASSUME NEW a \in Blocks
       PROVE  (\E i \in DOMAIN t : t[i] = a) <=> (\E i \in DOMAIN s : s[i] = a) /\ a <= n
  BY <1>10
<1> HIDE DEF n
<1>12. ASSUME NEW a \in Blocks
       PROVE  Written(l)'[a] = IF a > n THEN Nil ELSE Written(l)[a]
  <2>1. Committed(l)' = t /\ Committed(l) = s /\ value' = value
    BY <1>3, <1>5, <1>7 DEF s
  <2>2. Written(l)'[a] = IF \E i \in DOMAIN t : t[i] = a THEN value[l][a] ELSE Nil
    BY <2>1 DEF Written
  <2>3. Written(l)[a] = IF \E i \in DOMAIN s : s[i] = a THEN value[l][a] ELSE Nil
    BY <2>1 DEF Written
  <2>4. a > n <=> ~(a <= n)
    BY <1>9
  <2> QED
    BY <1>11, <2>2, <2>3, <2>4
<1>13. Written(l)' = [a \in Blocks |-> IF a > n THEN Nil ELSE Written(l)[a]]
  BY <1>12 DEF Written
<1> QED
  BY <1>6, <1>9, <1>13

\* Every orderly step is a Set, a RevertCell or a stutter.
LEMMA NextRefines ==
  TypeOK /\ OrderlyInv /\ [Next /\ lapses' = {}]_vars =>
    [Versioned!Next]_([l \in Lists |-> Written(l)])
<1> SUFFICES ASSUME TypeOK, OrderlyInv, [Next /\ lapses' = {}]_vars
             PROVE  [Versioned!Next]_([l \in Lists |-> Written(l)])
  OBVIOUS
<1> DEFINE W == [l \in Lists |-> Written(l)]
<1>0. lapses' = {}
  BY DEF OrderlyInv, vars
<1>a. ASSUME \A l \in Lists : Written(l)' = Written(l) PROVE W' = W
  BY <1>a
<1>b. ASSUME UNCHANGED <<index, value>>,
             \A u \in Writers, l \in Lists : Busy(u, l)' <=> Busy(u, l)
      PROVE  W' = W
  <2>1. \A l \in Lists : Committed(l)' = Committed(l)
    BY <1>b DEF Committed
  <2>2. \A l \in Lists : Written(l)' = Written(l)
    BY <1>b, <2>1 DEF Written
  <2> QED
    BY <1>a, <2>2
<1>1. ASSUME NEW w \in Writers, SetPush(w) PROVE W' = W
  <2>1. \A l \in Lists : Written(l)' = Written(l)
    BY <1>0, <1>1, PushStutters
  <2> QED
    BY <1>a, <2>1
<1>2. ASSUME NEW w \in Writers, SetLength(w) \/ SetPosition(w) \/ SetTrack(w) PROVE W' = W
  <2>1. /\ UNCHANGED <<index, value, job>> /\ pc[w] \in InSet
        /\ \E q \in InSet : pc' = [pc EXCEPT ![w] = q]
    BY <1>2 DEF SetLength, SetPosition, SetTrack, redisVars, InSet
  <2>2. \A u \in Writers, l \in Lists : Busy(u, l)' <=> Busy(u, l)
    BY <2>1 DEF Busy, TypeOK
  <2> QED
    BY <1>b, <2>1, <2>2
<1>3. ASSUME NEW w \in Writers, SetValue(w) PROVE Versioned!Next
  <2>1. PICK l \in Lists, b \in Blocks, v \in Values :
          /\ \A a \in Blocks : a > b => Written(l)[a] = Nil
          /\ Written(l)' = [Written(l) EXCEPT ![b] = v]
          /\ \A m \in Lists : m # l => Written(m)' = Written(m)
    BY <1>3, ValueSets
  <2>2. W' = [W EXCEPT ![l][b] = v]
    BY <2>1
  <2>3. \A a \in Blocks : a > b => W[l][a] = Nil
    BY <2>1
  <2>4. Versioned!Set(l, b, v)
    BY <2>2, <2>3 DEF Versioned!Set
  <2> QED
    BY <2>4 DEF Versioned!Next
<1>4. CASE RevertKey
  <2>1. PICK l \in Lists, n \in Blocks :
          /\ Written(l)' = [a \in Blocks |-> IF a > n THEN Nil ELSE Written(l)[a]]
          /\ \A m \in Lists : m # l => Written(m)' = Written(m)
    BY <1>4, KeyReverts
  <2>2. W' = [W EXCEPT ![l] = [a \in Blocks |-> IF a > n THEN Nil ELSE W[l][a]]]
    BY <2>1
  <2>3. Versioned!RevertCell(l, n)
    BY <2>2 DEF Versioned!RevertCell
  <2> QED
    BY <2>3 DEF Versioned!Next
<1>5. CASE RevertTo \/ RevertRaises \/ RevertReturns
  <2>1. UNCHANGED <<index, value, pc, job>>
    BY <1>5 DEF RevertTo, RevertRaises, RevertReturns, redisVars, writerVars
  <2> QED
    BY <1>b, <2>1 DEF Busy
<1>6. ASSUME NEW w \in Writers, Crash(w) \/ SetRefused(w) PROVE FALSE
  BY <1>0, <1>6 DEF Crash, SetRefused
<1>7. CASE UNCHANGED vars
  <2>1. UNCHANGED <<index, value, pc, job>>
    BY <1>7 DEF vars, redisVars, writerVars
  <2> QED
    BY <1>b, <2>1 DEF Busy
<1> QED
  BY <1>1, <1>2, <1>3, <1>4, <1>5, <1>6, <1>7 DEF Next, SetStep, RevertStep

\* A store that is used in an orderly way is an atomic versioned state: the five
\* commands of a set take effect at its last one, a set never changes what older
\* blocks wrote, and a revert takes back exactly what later blocks wrote.
THEOREM OrderlyRefines == OrderlySpec => ImplementsVersionedState
<1>1. Init => Versioned!Init
  <2> SUFFICES ASSUME Init
               PROVE  [l \in Lists |-> Written(l)] = [c \in Lists |-> [b \in Blocks |-> Nil]]
    BY DEF Versioned!Init
  <2>1. \A l \in Lists, b \in Blocks : value[l][b] = Nil
    BY DEF Init
  <2> QED
    BY <2>1 DEF Written
<1> QED
  BY <1>1, OrderlyInvariant, NextRefines, PTL
     DEF OrderlySpec, ImplementsVersionedState, Versioned!Spec

\* What a reader gets outside a set is what the newest block that wrote the key,
\* and was not reverted, has written.
THEOREM OrderlyGetIsLatest == OrderlySpec => []GetReturnsLatest
<1>1. TypeOK /\ OrderlyInv => GetReturnsLatest
  <2> SUFFICES ASSUME TypeOK, OrderlyInv, NEW l \in Lists, \A w \in Writers : ~Busy(w, l),
                      ~HoldsHash(l)
               PROVE  Get(l) = Versioned!Latest(l)
    BY DEF GetReturnsLatest
  <2> DEFINE W == Written(l)
             s == index[l]
  <2>1. Committed(l) = s
    BY CommittedShape
  <2>2. s \in Seq(Blocks) /\ Sorted(s) /\ \A i \in DOMAIN s : value[l][s[i]] # Nil
    BY DEF OrderlyInv, ListInv, TypeOK
  <2>3. \A b \in Blocks : W[b] = IF \E i \in DOMAIN s : s[i] = b THEN value[l][b] ELSE Nil
    BY <2>1 DEF Written
  <2>4. Versioned!Latest(l) =
          IF \A b \in Blocks : W[b] = Nil THEN Nil
          ELSE W[CHOOSE b \in Blocks :
                   W[b] # Nil /\ \A a \in Blocks : a > b => W[a] = Nil]
    BY DEF Versioned!Latest
  <2> HIDE DEF W, s
  <2>5. CASE s = <<>>
    <3>1. DOMAIN s = {}
      BY <2>5
    <3>2. \A b \in Blocks : W[b] = Nil
      BY <2>3, <3>1
    <3> QED
      BY <2>4, <2>5, <3>2 DEF Get, s
  <2>6. CASE s # <<>>
    <3>1. 1 \in DOMAIN s /\ Head(s) = s[1] /\ s[1] \in Blocks
      BY <2>2, <2>6, HeadIsFirst
    <3>2. W[s[1]] = value[l][s[1]] /\ W[s[1]] # Nil
      BY <2>2, <2>3, <3>1
    <3>3. \A i \in DOMAIN s : s[i] \in Nat /\ s[i] <= s[1]
      <4> SUFFICES ASSUME NEW i \in DOMAIN s PROVE s[i] \in Nat /\ s[i] <= s[1]
        OBVIOUS
      <4>1. s[i] \in Nat /\ s[1] \in Nat /\ i \in Nat /\ i >= 1
        <5>1. s[i] \in Blocks /\ s[1] \in Blocks /\ i \in Nat /\ i >= 1
          BY <2>2, <3>1
        <5> QED
          BY <5>1, ConstantsAssumption
      <4>2. i # 1 => s[1] >= s[i]
        <5>1. i # 1 => 1 < i
          BY <4>1
        <5> QED
          BY <2>2, <3>1, <5>1 DEF Sorted
      <4> QED
        BY <4>1, <4>2
    <3>4. \A a \in Blocks : a > s[1] => W[a] = Nil
      <4> SUFFICES ASSUME NEW a \in Blocks, a > s[1] PROVE W[a] = Nil
        OBVIOUS
      <4>1. \A i \in DOMAIN s : s[i] # a
        BY <3>1, <3>3, ConstantsAssumption
      <4> QED
        BY <2>3, <4>1
    <3>5. ASSUME NEW b \in Blocks, W[b] # Nil, \A a \in Blocks : a > b => W[a] = Nil
          PROVE  b = s[1]
      <4>1. ~(s[1] > b) /\ ~(b > s[1])
        BY <3>1, <3>2, <3>4, <3>5
      <4>2. s[1] \in Nat /\ b \in Nat
        BY <3>1, ConstantsAssumption
      <4> QED
        BY <4>1, <4>2
    <3>6. (CHOOSE b \in Blocks : W[b] # Nil /\ \A a \in Blocks : a > b => W[a] = Nil) = s[1]
      BY <3>1, <3>2, <3>4, <3>5
    <3> QED
      BY <2>4, <2>6, <3>1, <3>2, <3>6 DEF Get, s
  <2> QED
    BY <2>5, <2>6
<1> QED
  BY <1>1, OrderlyInvariant, PTL
=============================================================================
