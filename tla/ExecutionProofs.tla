--------------------------- MODULE ExecutionProofs ---------------------------
(***************************************************************************)
(* Proofs about Execution: for any contracts, keys, values and accounts,   *)
(* any gas limits and costs, and any width of the gas counter.             *)
(***************************************************************************)
EXTENDS Execution, SequenceTheorems, FiniteSetTheorems, TLAPS

-----------------------------------------------------------------------------
(* Induction, stated of sets instead of formulas *)

\* A set of natural numbers has a least element.
LEMMA LeastNatural ==
  ASSUME NEW S \in SUBSET Nat, S # {}
  PROVE  \E m \in S : \A k \in S : m <= k
<1> DEFINE R == OpToRel(<, Nat)
<1>1. IsWellFoundedOn(R, Nat)
  BY NatLessThanWellFounded
<1>2. \A x, y \in Nat : <<x, y>> \in R <=> x < y
  BY DEF OpToRel
<1> HIDE DEF R
<1>3. PICK m \in S : \A k \in S : ~(<<k, m>> \in R)
  BY <1>1, WFMin
<1>4. \A k \in S : k \in Nat /\ m \in Nat /\ ~(k < m)
  BY <1>2, <1>3
<1> QED
  BY <1>3, <1>4

\* A set that has zero, and the next number of each of its own, has them all.
LEMMA InductionOnNat ==
  ASSUME NEW S \in SUBSET Nat, 0 \in S, \A n \in S : n + 1 \in S
  PROVE  \A n \in Nat : n \in S
<1> SUFFICES ASSUME Nat \ S # {} PROVE FALSE
  OBVIOUS
<1>1. PICK m \in Nat \ S : \A k \in Nat \ S : m <= k
  BY LeastNatural
<1>2. m - 1 \in Nat
  BY <1>1
<1>3. m - 1 \in S
  BY <1>1, <1>2
<1> QED
  BY <1>1, <1>3

-----------------------------------------------------------------------------
(* Gas is counted modulo Word *)

\* Taking off a number less than or equal to the remainder keeps the quotient.
LEMMA ModMinus ==
  ASSUME NEW w \in Nat \ {0}, NEW a \in Nat, NEW l \in Nat, l <= a % w
  PROVE  (a - l) % w = (a % w) - l
<1> DEFINE q == a \div w
           r == a % w
           b == a - l
           p == b \div w
           s == b % w
<1>1. q \in Int /\ r \in Int /\ 0 <= r /\ r < w /\ a = w * q + r
  OBVIOUS
<1>2. b \in Int
  OBVIOUS
<1>3. p \in Int /\ s \in Int /\ 0 <= s /\ s < w /\ b = w * p + s
  BY <1>2
<1>4. w \in Int /\ l \in Int /\ l <= r /\ 0 <= l /\ b = a - l
  OBVIOUS
<1> HIDE DEF q, r, b, p, s
<1>5. w * (q - p) = s - (r - l)
  BY <1>1, <1>3, <1>4
<1>6. CASE q - p >= 1
  <2>1. w * (q - p) >= w
    BY <1>1, <1>3, <1>4, <1>6
  <2> QED
    BY <1>1, <1>3, <1>4, <1>5, <2>1
<1>7. CASE q - p <= -1
  <2>1. w * (q - p) <= -w
    BY <1>1, <1>3, <1>4, <1>7
  <2> QED
    BY <1>1, <1>3, <1>4, <1>5, <2>1
<1>8. CASE q - p = 0
  <2>1. w * (q - p) = 0
    BY <1>4, <1>8
  <2> QED
    BY <1>1, <1>3, <1>4, <1>5, <2>1 DEF r, s, b
<1> QED
  BY <1>1, <1>3, <1>6, <1>7, <1>8

\* Gas is a number, whatever the limit of the transaction.
LEMMA GasTyped ==
  /\ \A limit \in Nat : InitialGas(limit) \in Nat
  /\ tx.limit \in Nat /\ left \in Nat => GasUsed \in Nat
BY ConstantsAssumption DEF InitialGas, GasUsed

-----------------------------------------------------------------------------
(* Changesets *)

\* What HashMap::extend does.
LEMMA ExtendProperties ==
  ASSUME NEW a \in Changesets, NEW b \in Changesets
  PROVE  /\ Extend(a, b) \in Changesets /\ Empty \in Changesets
         /\ Extend(a, Empty) = a
         /\ \A k \in Keys : b[k] = Nil => Extend(a, b)[k] = a[k]
         /\ \A k \in Keys, v \in Values :
              /\ [b EXCEPT ![k] = v] \in Changesets
              /\ Extend(a, [b EXCEPT ![k] = v]) = [Extend(a, b) EXCEPT ![k] = v]
<1>1. Extend(a, b) \in Changesets /\ Empty \in Changesets
  BY DEF Extend, Empty, Changesets
<1>2. Extend(a, Empty) = a
  BY DEF Extend, Empty, Changesets
<1>3. \A k \in Keys : b[k] = Nil => Extend(a, b)[k] = a[k]
  BY DEF Extend
<1>4. ASSUME NEW k \in Keys, NEW v \in Values
      PROVE  /\ [b EXCEPT ![k] = v] \in Changesets
             /\ Extend(a, [b EXCEPT ![k] = v]) = [Extend(a, b) EXCEPT ![k] = v]
  BY ConstantsAssumption DEF Extend, Changesets
<1> QED
  BY <1>1, <1>2, <1>3, <1>4

-----------------------------------------------------------------------------
(* Calls in progress *)

\* The parts of a frame.
LEMMA FrameParts ==
  ASSUME NEW f \in Frames
  PROVE  /\ f.gas \in Nat /\ f.commits \in BOOLEAN /\ f.pending \in BOOLEAN
         /\ f.saved \in Changesets
BY DEF Frames

\* What a call starts with.
LEMMA EnteredParts ==
  ASSUME NEW g \in Nat, NEW c \in BOOLEAN, NEW p \in BOOLEAN, ideal \in Changesets
  PROVE  /\ Entered(g, c, p) \in Frames
         /\ Entered(g, c, p).gas = g /\ Entered(g, c, p).commits = c
         /\ Entered(g, c, p).pending = p /\ Entered(g, c, p).saved = ideal
BY DEF Entered, Frames, Stages

\* A call that goes on keeps everything but its stage.
LEMMA ProceedShape ==
  ASSUME NEW fs \in Seq(Frames), fs # <<>>, NEW to \in Stages
  PROVE  LET t == [fs EXCEPT ![Len(fs)].stage = to]
         IN  /\ t \in Seq(Frames) /\ t # <<>> /\ DOMAIN t = DOMAIN fs
             /\ \A j \in DOMAIN fs : /\ t[j].gas = fs[j].gas
                                     /\ t[j].commits = fs[j].commits
                                     /\ t[j].pending = fs[j].pending
                                     /\ t[j].saved = fs[j].saved
<1> DEFINE n == Len(fs)
           f == [fs[n] EXCEPT !.stage = to]
           t == [fs EXCEPT ![n] = f]
<1>1. n \in Nat /\ n \in 1 .. n /\ DOMAIN fs = 1 .. n /\ fs[n] \in Frames
  OBVIOUS
<1>2. /\ f \in Frames /\ f.gas = fs[n].gas /\ f.commits = fs[n].commits
      /\ f.pending = fs[n].pending /\ f.saved = fs[n].saved
  BY <1>1 DEF Frames
<1>3. [fs EXCEPT ![Len(fs)].stage = to] = t
  OBVIOUS
<1> HIDE DEF f, n
<1>4. t \in Seq(Frames) /\ Len(t) = n /\ DOMAIN t = DOMAIN fs
  <2>1. fs \in [1 .. n -> Frames]
    BY <1>1 DEF n
  <2>2. t \in [1 .. n -> Frames]
    BY <1>2, <2>1
  <2> QED
    BY <1>1, <2>2
<1>5. t[n] = f /\ \A j \in DOMAIN fs : j # n => t[j] = fs[j]
  BY <1>1
<1>6. t # <<>>
  BY <1>1, <1>4
<1> HIDE DEF t
<1> QED
  BY <1>2, <1>3, <1>4, <1>5, <1>6

\* A frame with other gas and other commits is a frame.
LEMMA FrameExcept ==
  ASSUME NEW f \in Frames, NEW g \in Nat, NEW c \in BOOLEAN
  PROVE  LET h == [f EXCEPT !.gas = g, !.commits = c]
             e == [f EXCEPT !.gas = g]
         IN  /\ h \in Frames /\ h.gas = g /\ h.commits = c
             /\ h.pending = f.pending /\ h.saved = f.saved
             /\ e \in Frames /\ e.gas = g /\ e.commits = f.commits
             /\ e.pending = f.pending /\ e.saved = f.saved
BY DEF Frames

\* The innermost call pays for an operation.
LEMMA ChargeShape ==
  ASSUME NEW fs \in Seq(Frames), fs # <<>>, NEW c \in Nat, fs[Len(fs)].gas >= c
  PROVE  LET t == [fs EXCEPT ![Len(fs)].gas = @ - c]
         IN  /\ t \in Seq(Frames) /\ Len(t) = Len(fs) /\ DOMAIN t = DOMAIN fs
             /\ \A j \in DOMAIN fs : j # Len(fs) => t[j] = fs[j]
             /\ t[Len(fs)].gas = fs[Len(fs)].gas - c
             /\ \A j \in DOMAIN fs : /\ t[j].commits = fs[j].commits
                                     /\ t[j].pending = fs[j].pending
                                     /\ t[j].saved = fs[j].saved
<1> DEFINE n == Len(fs)
           f == [fs[n] EXCEPT !.gas = @ - c]
           t == [fs EXCEPT ![n] = f]
<1>1. n \in Nat /\ n \in 1 .. n /\ DOMAIN fs = 1 .. n /\ fs[n] \in Frames
  OBVIOUS
<1>2. fs[n].gas - c \in Nat
  BY <1>1, FrameParts
<1>3. /\ f \in Frames /\ f.gas = fs[n].gas - c /\ f.commits = fs[n].commits
      /\ f.pending = fs[n].pending /\ f.saved = fs[n].saved
  BY <1>1, <1>2 DEF Frames
<1>4. [fs EXCEPT ![Len(fs)].gas = @ - c] = t
  OBVIOUS
<1> HIDE DEF f, n
<1>5. t \in Seq(Frames) /\ Len(t) = n /\ DOMAIN t = DOMAIN fs
  <2>1. fs \in [1 .. n -> Frames]
    BY <1>1 DEF n
  <2>2. t \in [1 .. n -> Frames]
    BY <1>3, <2>1
  <2> QED
    BY <1>1, <2>2
<1>6. t[n] = f /\ \A j \in DOMAIN fs : j # n => t[j] = fs[j]
  BY <1>1
<1> HIDE DEF t
<1>7. \A j \in DOMAIN fs : /\ t[j].commits = fs[j].commits
                           /\ t[j].pending = fs[j].pending
                           /\ t[j].saved = fs[j].saved
  BY <1>3, <1>6
<1> QED
  BY <1>3, <1>4, <1>5, <1>6, <1>7 DEF n

\* A call is entered.
LEMMA EnterShape ==
  ASSUME NEW fs \in Seq(Frames), NEW f \in Frames
  PROVE  /\ Append(fs, f) \in Seq(Frames) /\ Append(fs, f) # <<>>
         /\ Len(fs) \in Nat /\ Len(Append(fs, f)) = Len(fs) + 1
         /\ DOMAIN fs = 1 .. Len(fs) /\ DOMAIN Append(fs, f) = 1 .. (Len(fs) + 1)
         /\ Append(fs, f)[Len(fs) + 1] = f
         /\ \A j \in 1 .. Len(fs) : Append(fs, f)[j] = fs[j]
OBVIOUS

\* A call that is not the transaction itself ends: its caller is left with the
\* gas of the call, and remembers a commit.
LEMMA EndCallShape ==
  ASSUME frames \in Seq(Frames), frames # <<>>, Len(frames) > 1,
         NEW committed \in BOOLEAN, NEW kept, EndCall(committed, kept)
  PROVE  LET n == Len(frames)
         IN  /\ UNCHANGED <<phase, block, left>>
             /\ frames' \in Seq(Frames) /\ frames' # <<>>
             /\ n \in Nat /\ n > 1 /\ DOMAIN frames = 1 .. n
             /\ DOMAIN frames' = 1 .. (n - 1)
             /\ \A j \in 1 .. (n - 2) : frames'[j] = frames[j]
             /\ frames'[n - 1].gas = frames[n].gas
             /\ frames'[n - 1].commits = (frames[n - 1].commits \/ committed)
             /\ frames'[n - 1].pending = frames[n - 1].pending
             /\ frames'[n - 1].saved = frames[n - 1].saved
<1> DEFINE n == Len(frames)
           out == SubSeq(frames, 1, n - 1)
           f == [frames[n - 1] EXCEPT !.gas = frames[n].gas,
                                      !.commits = @ \/ committed]
<1>1. n \in Nat /\ n > 1 /\ DOMAIN frames = 1 .. n /\ frames[n] \in Frames
      /\ frames[n - 1] \in Frames
  OBVIOUS
<1>2. /\ frames[n].gas \in Nat /\ frames[n - 1].gas \in Nat
      /\ frames[n - 1].commits \in BOOLEAN
  BY <1>1, FrameParts
<1>3. /\ out \in Seq(Frames) /\ Len(out) = n - 1 /\ DOMAIN out = 1 .. (n - 1)
      /\ \A j \in 1 .. (n - 1) : out[j] = frames[j]
  BY <1>1
<1>4. /\ f \in Frames /\ f.gas = frames[n].gas
      /\ f.commits = (frames[n - 1].commits \/ committed)
      /\ f.pending = frames[n - 1].pending /\ f.saved = frames[n - 1].saved
  BY <1>1, <1>2 DEF Frames
<1>5. UNCHANGED <<phase, block, left>> /\ frames' = [out EXCEPT ![n - 1] = f]
  <2> DEFINE c == frames[n - 1]
             g == [c EXCEPT !.gas = c.gas - (c.gas - frames[n].gas),
                            !.commits = c.commits \/ committed]
  <2>1. UNCHANGED <<phase, block, left>> /\ frames' = [out EXCEPT ![Len(out)] = g]
    BY DEF EndCall, Outer, Top
  <2>2. c.gas - (c.gas - frames[n].gas) = frames[n].gas
    BY <1>2
  <2>3. g = f
    BY <2>2
  <2> HIDE DEF out, n, g, f
  <2> QED
    BY <1>3, <2>1, <2>3
<1> HIDE DEF n, out, f
<1>6. /\ frames' \in Seq(Frames) /\ Len(frames') = n - 1 /\ DOMAIN frames' = 1 .. (n - 1)
      /\ frames'[n - 1] = f /\ \A j \in 1 .. (n - 2) : frames'[j] = out[j]
  <2>1. out \in [1 .. (n - 1) -> Frames] /\ n - 1 \in Nat /\ n - 1 \in 1 .. (n - 1)
    BY <1>1, <1>3
  <2>2. frames' \in [1 .. (n - 1) -> Frames]
    BY <1>4, <1>5, <2>1
  <2> QED
    BY <1>1, <1>3, <1>5, <2>1, <2>2
<1>7. frames' # <<>> /\ \A j \in 1 .. (n - 2) : frames'[j] = frames[j]
  BY <1>1, <1>3, <1>6
<1> QED
  BY <1>1, <1>4, <1>5, <1>6, <1>7 DEF n

\* The call of the transaction itself ends.
LEMMA EndTxShape ==
  ASSUME frames \in Seq(Frames), frames # <<>>, ~(Len(frames) > 1),
         NEW committed, NEW kept, EndCall(committed, kept)
  PROVE  /\ frames' = <<>> /\ left' = frames[1].gas /\ DOMAIN frames = {1}
         /\ Top = frames[1] /\ frames[1] \in Frames
         /\ phase' = (IF tx.create THEN "next" ELSE "fee")
         /\ block' = (IF tx.create THEN kept ELSE block)
<1>1. Len(frames) \in Nat /\ Len(frames) # 0 /\ DOMAIN frames = 1 .. Len(frames)
  OBVIOUS
<1>2. Len(frames) = 1
  BY <1>1
<1>3. DOMAIN frames = {1}
  BY <1>1, <1>2
<1>4. frames[1] \in Frames
  BY <1>3, ElementOfSeq
<1> QED
  BY <1>2, <1>3, <1>4 DEF EndCall, Top

\* A transaction is started with one call, which has all of its gas.
LEMMA StartShape ==
  ASSUME NEW f \in Frames
  PROVE  <<f>> \in Seq(Frames) /\ <<f>> # <<>> /\ DOMAIN <<f>> = {1} /\ <<f>>[1] = f
OBVIOUS

-----------------------------------------------------------------------------
(* Type correctness *)

\* What is taken is a transaction.
LEMMA TakesTyped ==
  ASSUME NEW create \in BOOLEAN, Takes(create), txs \in Nat
  PROVE  /\ tx' \in Txs /\ tx'.limit \in Nat /\ txs' \in Nat
         /\ InitialGas(tx'.limit) \in Nat /\ tx'.create = create /\ phase = "next"
<1>1. tx' \in Txs /\ txs' \in Nat /\ tx'.create = create /\ phase = "next"
  BY ConstantsAssumption DEF Takes, Txs
<1> QED
  BY <1>1, GasTyped DEF Txs

\* The execution has its type at first ...
LEMMA InitTypeOK == Init => TypeOK
BY ConstantsAssumption
   DEF Init, TypeOK, Phases, Changesets, Empty, NoTx, Txs

\* ... and after every step: the gas left to a caller, the gas left of a
\* transaction and the balances never go below zero.
LEMMA NextTypeOK == TypeOK /\ [Next]_vars => TypeOK'
<1> SUFFICES ASSUME TypeOK, [Next]_vars PROVE TypeOK'
  OBVIOUS
<1> USE DEF changeVars
<1>a. /\ block \in Changesets /\ changeset \in Changesets /\ working \in Changesets
      /\ ideal \in Changesets /\ frames \in Seq(Frames) /\ txs \in Nat
      /\ tx \in Txs /\ left \in Nat /\ balance \in [Accounts -> Nat]
      /\ lapses \subseteq LapseKinds /\ phase \in Phases
      /\ phase = "running" => frames # <<>>
  BY DEF TypeOK
<1>b. Empty \in Changesets /\ {} \subseteq Reads
  BY <1>a, ExtendProperties
<1>c. "next" \in Phases /\ "running" \in Phases /\ "fee" \in Phases
      /\ "done" \in Phases /\ "dead" \in Phases
  BY DEF Phases
<1>d. /\ tx.sender \in Accounts /\ tx.create \in BOOLEAN /\ tx.limit \in Nat
      /\ Winner \in Accounts
  BY <1>a, ConstantsAssumption DEF Txs
<1>1. CASE Run
  <2>1. /\ Takes(FALSE) /\ changeset' = block /\ working' = Empty /\ phase' = "running"
        /\ frames' = <<Entered(InitialGas(tx'.limit), FALSE, FALSE)>>
        /\ UNCHANGED <<block, left, balance, read, ideal, lapses>>
    BY <1>1 DEF Run
  <2>2. tx' \in Txs /\ txs' \in Nat /\ InitialGas(tx'.limit) \in Nat
    BY <1>a, <2>1, TakesTyped
  <2>3. Entered(InitialGas(tx'.limit), FALSE, FALSE) \in Frames
    BY <1>a, <2>2, EnteredParts
  <2>4. frames' \in Seq(Frames) /\ frames' # <<>>
    BY <2>1, <2>3, StartShape
  <2> QED
    BY <1>b, <1>c, <2>1, <2>2, <2>4 DEF TypeOK
<1>2. CASE ContractNotFound
  <2>1. /\ Takes(FALSE) /\ changeset' = block /\ working' = Empty /\ phase' = "fee"
        /\ left' = InitialGas(tx'.limit)
        /\ UNCHANGED <<block, frames, balance, read, ideal, lapses>>
    BY <1>2 DEF ContractNotFound
  <2>2. tx' \in Txs /\ txs' \in Nat /\ InitialGas(tx'.limit) \in Nat
    BY <1>a, <2>1, TakesTyped
  <2> QED
    BY <1>b, <1>c, <2>1, <2>2 DEF TypeOK
<1>3. CASE CreateContract
  <2>1. /\ Takes(TRUE) /\ working' = Empty /\ phase' = "running"
        /\ frames' = <<Entered(InitialGas(tx'.limit), TRUE, FALSE)>>
        /\ UNCHANGED <<block, left, balance, read, lapses>>
    BY <1>3 DEF CreateContract
  <2>2. tx' \in Txs /\ txs' \in Nat /\ InitialGas(tx'.limit) \in Nat
    BY <1>a, <2>1, TakesTyped
  <2>3. Entered(InitialGas(tx'.limit), TRUE, FALSE) \in Frames
    BY <1>a, <2>2, EnteredParts
  <2>4. frames' \in Seq(Frames) /\ frames' # <<>>
    BY <2>1, <2>3, StartShape
  <2>5. PICK k \in Keys, code \in Values :
          changeset' = [block EXCEPT ![k] = code] /\ ideal' = [ideal EXCEPT ![k] = code]
    BY <1>3 DEF CreateContract
  <2>6. changeset' \in Changesets /\ ideal' \in Changesets
    BY <1>a, <2>5, ExtendProperties
  <2> QED
    BY <1>b, <1>c, <2>1, <2>2, <2>4, <2>6 DEF TypeOK
<1>4. CASE SystemNothing
  <2>1. tx' \in Txs /\ txs' \in Nat
    BY <1>4, <1>a, TakesTyped DEF SystemNothing
  <2> QED
    BY <1>4, <2>1 DEF SystemNothing, TypeOK
<1>0. CASE StartEnds \/ ArgumentsWritten
  <2>1. PICK to \in Stages :
          /\ phase = "running" /\ frames' = [frames EXCEPT ![Len(frames)].stage = to]
          /\ UNCHANGED <<phase, changeVars, tx, left, balance, txs, read, ideal, lapses>>
    BY <1>0 DEF StartEnds, ArgumentsWritten, Proceeds, Stages
  <2>2. frames' \in Seq(Frames) /\ frames' # <<>>
    BY <1>a, <2>1, ProceedShape
  <2> QED
    BY <2>1, <2>2 DEF TypeOK
<1>5. CASE GetValue \/ SetValue \/ CallReturnsError
  <2>1. PICK c \in Costs : UseGas(c)
    BY <1>5 DEF GetValue, SetValue, CallReturnsError
  <2>2. phase = "running" /\ frames # <<>> /\ c \in Nat
    BY <1>5, <1>a, ConstantsAssumption DEF GetValue, SetValue, CallReturnsError, Metered
  <2>3. frames' \in Seq(Frames) /\ Len(frames') = Len(frames) /\ DOMAIN frames' = DOMAIN frames
    BY <1>a, <2>1, <2>2, ChargeShape DEF UseGas, Top
  <2>4. frames' # <<>>
    BY <1>a, <2>2, <2>3
  <2>5. read' \subseteq Reads
    BY <1>5, <1>a DEF GetValue, SetValue, CallReturnsError, Get, Reads, Changesets
  <2>6. working' \in Changesets /\ ideal' \in Changesets
    <3>1. CASE SetValue
      <4>1. PICK k \in Keys, v \in Values :
              working' = [working EXCEPT ![k] = v] /\ ideal' = [ideal EXCEPT ![k] = v]
        BY <3>1 DEF SetValue
      <4> QED
        BY <1>a, <4>1, ExtendProperties
    <3>2. CASE ~SetValue
      BY <3>2, <1>5, <1>a DEF GetValue, CallReturnsError
    <3> QED
      BY <3>1, <3>2
  <2>7. UNCHANGED <<phase, block, changeset, tx, left, balance, txs, lapses>>
    BY <1>5 DEF GetValue, SetValue, CallReturnsError
  <2> QED
    BY <2>3, <2>4, <2>5, <2>6, <2>7 DEF TypeOK
<1>6. CASE ExternalCall
  <2>1. PICK c \in Costs :
          /\ Top.gas >= c
          /\ frames' = Append([frames EXCEPT ![Len(frames)].gas = @ - c],
                              Entered(Top.gas - c, FALSE, working # Empty))
    BY <1>6 DEF ExternalCall
  <2>2. /\ frames # <<>> /\ c \in Nat /\ read' = {}
        /\ UNCHANGED <<phase, changeVars, tx, left, balance, txs, ideal, lapses>>
    BY <1>6, <1>a, ConstantsAssumption DEF ExternalCall, Metered
  <2>3. [frames EXCEPT ![Len(frames)].gas = @ - c] \in Seq(Frames)
    BY <1>a, <2>1, <2>2, ChargeShape DEF Top
  <2>4. Top \in Frames
    BY <1>a, <2>2 DEF Top
  <2>5. Entered(Top.gas - c, FALSE, working # Empty) \in Frames
    <3>1. Top.gas - c \in Nat
      BY <2>1, <2>2, <2>4, FrameParts
    <3>2. (working # Empty) \in BOOLEAN
      OBVIOUS
    <3> QED
      BY <1>a, <3>1, <3>2, EnteredParts
  <2>6. frames' \in Seq(Frames) /\ frames' # <<>>
    BY <2>1, <2>3, <2>5, EnterShape
  <2> QED
    BY <1>b, <2>2, <2>6 DEF TypeOK
<1>7. CASE CallReturns \/ CallTraps \/ ArgumentsRefused
  <2>0. phase = "running" /\ frames # <<>>
    BY <1>7, <1>a DEF CallReturns, CallTraps, ArgumentsRefused
  <2>1. PICK committed \in BOOLEAN, kept \in Changesets : EndCall(committed, kept)
    <3>1. Extend(changeset, working) \in Changesets
      BY <1>a, ExtendProperties
    <3>2. Top.commits \in BOOLEAN
      <4>1. Top \in Frames
        BY <1>a, <2>0 DEF Top
      <4> QED
        BY <4>1, FrameParts
    <3>3. (Top.commits \/ working # Empty) \in BOOLEAN /\ FALSE \in BOOLEAN
      OBVIOUS
    <3>4. CASE CallReturns
      <4>1. EndCall(Top.commits \/ working # Empty, changeset') /\ changeset' \in Changesets
        BY <3>1, <3>4 DEF CallReturns
      <4> QED
        BY <3>3, <4>1
    <3>5. CASE CallTraps \/ ArgumentsRefused
      <4>1. EndCall(FALSE, changeset)
        BY <3>5 DEF CallTraps, ArgumentsRefused
      <4> QED
        BY <1>a, <3>3, <4>1
    <3> QED
      BY <1>7, <3>4, <3>5
  <2>2. Extend(changeset, working) \in Changesets
    BY <1>a, ExtendProperties
  <2>3. /\ changeset' \in Changesets /\ working' \in Changesets /\ read' = {}
        /\ UNCHANGED <<tx, balance, txs>>
    BY <1>7, <1>a, <1>b, <2>2 DEF CallReturns, CallTraps, ArgumentsRefused
  <2>4. ideal' \in Changesets /\ lapses' \subseteq LapseKinds
    <3>1. Top \in Frames
      BY <1>a, <2>0 DEF Top
    <3>2. Top.saved \in Changesets
      BY <3>1, FrameParts
    <3> QED
      BY <1>7, <1>a, <3>2 DEF CallReturns, CallTraps, ArgumentsRefused, LapseKinds
  <2>5. CASE Len(frames) > 1
    <3>1. frames' \in Seq(Frames) /\ frames' # <<>> /\ UNCHANGED <<phase, block, left>>
      BY <1>a, <2>1, <2>0, <2>5, EndCallShape
    <3> QED
      BY <1>b, <2>3, <2>4, <3>1 DEF TypeOK
  <2>6. CASE ~(Len(frames) > 1)
    <3>1. /\ frames' = <<>> /\ left' = frames[1].gas /\ frames[1] \in Frames
          /\ phase' = (IF tx.create THEN "next" ELSE "fee")
          /\ block' = (IF tx.create THEN kept ELSE block)
      BY <1>a, <2>1, <2>0, <2>6, EndTxShape
    <3>2. left' \in Nat /\ <<>> \in Seq(Frames) /\ phase' # "running"
      BY <3>1, FrameParts
    <3>3. block' \in Changesets /\ phase' \in Phases
      BY <1>a, <1>c, <3>1
    <3> QED
      BY <1>b, <2>3, <2>4, <3>1, <3>2, <3>3 DEF TypeOK
  <2> QED
    BY <2>5, <2>6
<1>8. CASE Panics \/ ReturnCompleted
  BY <1>8, <1>a, <1>b, <1>c DEF Panics, ReturnCompleted, TypeOK
<1>9. CASE PayFee
  <2>1. GasUsed \in Nat
    BY <1>a, <1>d, GasTyped
  <2>2. balance' \in [Accounts -> Nat]
    <3>1. balance' = Transfer(tx.sender, Winner, GasUsed)
      BY <1>9 DEF PayFee
    <3>2. balance[tx.sender] \in Nat /\ balance[Winner] \in Nat
      BY <1>a, <1>d
    <3> HIDE DEF GasUsed
    <3>3. CASE balance[tx.sender] < GasUsed
      BY <1>a, <3>1, <3>3 DEF Transfer
    <3>4. CASE ~(balance[tx.sender] < GasUsed)
      <4>1. /\ balance[tx.sender] - GasUsed \in Nat
            /\ balance[Winner] + GasUsed \in Nat
        BY <2>1, <3>2, <3>4
      <4> QED
        BY <1>a, <1>d, <3>1, <3>4, <4>1 DEF Transfer
    <3> QED
      BY <3>3, <3>4
  <2> QED
    BY <1>9, <1>a, <1>b, <1>c, <2>2 DEF PayFee, TypeOK
<1>10. CASE UNCHANGED vars
  BY <1>10 DEF vars, TypeOK
<1> QED
  BY <1>0, <1>1, <1>2, <1>3, <1>4, <1>5, <1>6, <1>7, <1>8, <1>9, <1>10
     DEF Next, Take, Step

\* Every value in the execution has its type: in particular no gas counter and no
\* balance goes below zero, for any width of the counter.
THEOREM TypeCorrect == Spec => []TypeOK
BY InitTypeOK, NextTypeOK, PTL DEF Spec

-----------------------------------------------------------------------------
(* Gas *)

\* No call has more gas than the transaction was given, or than its caller.
Bounded(fs, g) ==
  /\ \A i \in DOMAIN fs : fs[i].gas <= g
  /\ \A i \in DOMAIN fs : i > 1 => fs[i].gas <= fs[i - 1].gas

\* Between transactions nothing is in progress, so that the next one does not
\* find frames that were bounded by another gas limit.
GasInv ==
  /\ Bounded(frames, InitialGas(tx.limit))
  /\ phase \in {"next", "fee", "done"} => frames = <<>>
  /\ phase = "fee" => left <= InitialGas(tx.limit)

\* Taking gas from the innermost call keeps the bounds.
LEMMA ChargeBounded ==
  ASSUME NEW fs \in Seq(Frames), fs # <<>>, NEW c \in Nat, fs[Len(fs)].gas >= c,
         NEW g \in Nat, Bounded(fs, g)
  PROVE  Bounded([fs EXCEPT ![Len(fs)].gas = @ - c], g)
<1> DEFINE t == [fs EXCEPT ![Len(fs)].gas = @ - c]
           n == Len(fs)
<1>1. /\ DOMAIN t = DOMAIN fs
      /\ \A j \in DOMAIN fs : j # n => t[j] = fs[j]
      /\ t[n].gas = fs[n].gas - c
  BY ChargeShape
<1>2. n \in Nat /\ n \in DOMAIN fs /\ DOMAIN fs = 1 .. n
  OBVIOUS
<1>3. \A j \in DOMAIN fs : fs[j] \in Frames
  BY ElementOfSeq
<1>4. \A j \in DOMAIN fs : fs[j].gas \in Nat
  BY <1>3, FrameParts
<1> HIDE DEF t, n
<1>5. \A i \in DOMAIN fs : t[i].gas \in Int /\ t[i].gas <= fs[i].gas
  BY <1>1, <1>2, <1>4
<1>6. \A i \in DOMAIN t : t[i].gas <= g
  BY <1>1, <1>4, <1>5 DEF Bounded
<1>7. ASSUME NEW i \in DOMAIN t, i > 1 PROVE t[i].gas <= t[i - 1].gas
  <2>1. i - 1 \in DOMAIN fs /\ i - 1 # n /\ i \in DOMAIN fs
    BY <1>1, <1>2, <1>7
  <2>2. fs[i].gas <= fs[i - 1].gas /\ t[i - 1] = fs[i - 1]
    BY <1>1, <1>7, <2>1 DEF Bounded
  <2> QED
    BY <1>4, <1>5, <2>1, <2>2
<1> QED
  BY <1>6, <1>7 DEF Bounded, t

\* A call that gets no more gas than its caller has keeps them.
LEMMA EnterBounded ==
  ASSUME NEW fs \in Seq(Frames), NEW f \in Frames, NEW g \in Nat, Bounded(fs, g),
         f.gas <= g, Len(fs) > 0 => f.gas <= fs[Len(fs)].gas
  PROVE  Bounded(Append(fs, f), g)
<1> DEFINE t == Append(fs, f)
           n == Len(fs)
<1>1. /\ n \in Nat /\ DOMAIN fs = 1 .. n /\ DOMAIN t = 1 .. (n + 1)
      /\ t[n + 1] = f /\ \A j \in 1 .. n : t[j] = fs[j]
  BY EnterShape
<1> HIDE DEF t
<1>2. \A i \in DOMAIN t : t[i].gas <= g
  BY <1>1 DEF Bounded
<1>3. ASSUME NEW i \in DOMAIN t, i > 1 PROVE t[i].gas <= t[i - 1].gas
  <2>1. i - 1 \in 1 .. n /\ t[i - 1] = fs[i - 1]
    BY <1>1, <1>3
  <2>2. CASE i \in 1 .. n
    BY <1>1, <1>3, <2>1, <2>2 DEF Bounded
  <2>3. CASE i = n + 1
    <3>1. i - 1 = n
      BY <1>1, <2>3
    <3> QED
      BY <1>1, <2>1, <2>3, <3>1
  <2> QED
    BY <1>1, <2>2, <2>3
<1> QED
  BY <1>2, <1>3 DEF Bounded, t

\* Gas is bounded after every step.
LEMMA NextGasInv == TypeOK /\ GasInv /\ [Next]_vars => GasInv'
<1> SUFFICES ASSUME TypeOK, GasInv, [Next]_vars PROVE GasInv'
  OBVIOUS
<1> USE DEF changeVars
<1>a. /\ frames \in Seq(Frames) /\ txs \in Nat /\ phase \in Phases /\ tx \in Txs
      /\ phase = "running" => frames # <<>> /\ working \in Changesets
      /\ ideal \in Changesets
  BY DEF TypeOK
<1>b. tx.limit \in Nat /\ InitialGas(tx.limit) \in Nat
  BY <1>a, GasTyped DEF Txs
<1>c. \A g : Bounded(<<>>, g)
  BY DEF Bounded
<1>d. phase = "running" => Top \in Frames /\ Top.gas \in Nat
  <2>1. phase = "running" => Top \in Frames
    BY <1>a DEF Top
  <2> QED
    BY <2>1, FrameParts
<1>1. CASE Run \/ CreateContract
  <2>1. PICK c \in BOOLEAN :
          /\ Takes(c) /\ phase' = "running"
          /\ frames' = <<Entered(InitialGas(tx'.limit), c, FALSE)>>
    BY <1>1 DEF Run, CreateContract
  <2>2. InitialGas(tx'.limit) \in Nat
    BY <1>a, <2>1, TakesTyped
  <2> DEFINE f == Entered(InitialGas(tx'.limit), c, FALSE)
  <2>3. f.gas = InitialGas(tx'.limit)
    BY <1>a, <2>2, EnteredParts
  <2> HIDE DEF f
  <2>4. frames' = <<f>>
    BY <2>1 DEF f
  <2>5. DOMAIN frames' = {1} /\ frames'[1] = f
    BY <2>4
  <2>6. Bounded(frames', InitialGas(tx'.limit))
    <3>1. \A i \in DOMAIN frames' : i = 1
      BY <2>5
    <3>2. \A i \in DOMAIN frames' : frames'[i].gas <= InitialGas(tx'.limit)
      BY <2>2, <2>3, <2>5
    <3> QED
      BY <3>1, <3>2 DEF Bounded
  <2>7. frames' # <<>>
    BY <2>5
  <2> QED
    BY <2>1, <2>6, <2>7 DEF GasInv
<1>2. CASE ContractNotFound \/ SystemNothing
  <2>1. PICK c \in BOOLEAN : Takes(c)
    BY <1>2 DEF ContractNotFound, SystemNothing
  <2>2. InitialGas(tx'.limit) \in Nat /\ phase = "next"
    BY <1>a, <2>1, TakesTyped
  <2>3. frames' = <<>>
    BY <1>2, <2>2 DEF ContractNotFound, SystemNothing, GasInv
  <2>4. phase' = "fee" => left' <= InitialGas(tx'.limit)
    BY <1>2, <2>2 DEF ContractNotFound, SystemNothing
  <2> QED
    BY <1>c, <2>3, <2>4 DEF GasInv
<1>0. CASE StartEnds \/ ArgumentsWritten
  <2>1. PICK to \in Stages :
          /\ phase = "running" /\ frames' = [frames EXCEPT ![Len(frames)].stage = to]
          /\ UNCHANGED <<phase, tx>>
    BY <1>0 DEF StartEnds, ArgumentsWritten, Proceeds, Stages
  <2>2. DOMAIN frames' = DOMAIN frames /\ \A j \in DOMAIN frames : frames'[j].gas = frames[j].gas
    BY <1>a, <2>1, ProceedShape
  <2>3. \A j \in DOMAIN frames : j > 1 => j - 1 \in DOMAIN frames
    BY <1>a
  <2>4. Bounded(frames', InitialGas(tx.limit))
    BY <2>2, <2>3 DEF GasInv, Bounded
  <2> QED
    BY <2>1, <2>4 DEF GasInv
<1>3. CASE GetValue \/ SetValue \/ CallReturnsError
  <2>1. PICK c \in Costs : UseGas(c)
    BY <1>3 DEF GetValue, SetValue, CallReturnsError
  <2>2. phase = "running" /\ frames # <<>> /\ c \in Nat /\ UNCHANGED <<phase, tx>>
    BY <1>3, <1>a, ConstantsAssumption DEF GetValue, SetValue, CallReturnsError, Metered
  <2>3. Bounded(frames', InitialGas(tx.limit))
    BY <1>a, <1>b, <2>1, <2>2, ChargeBounded DEF UseGas, Top, GasInv
  <2> QED
    BY <2>2, <2>3 DEF GasInv
<1>4. CASE ExternalCall
  <2>1. phase = "running" /\ frames # <<>> /\ UNCHANGED <<phase, tx>>
    BY <1>4, <1>a DEF ExternalCall, Metered
  <2>2. PICK c \in Costs :
          /\ Top.gas >= c
          /\ frames' = Append([frames EXCEPT ![Len(frames)].gas = @ - c],
                              Entered(Top.gas - c, FALSE, working # Empty))
    BY <1>4 DEF ExternalCall
  <2> DEFINE fs == [frames EXCEPT ![Len(frames)].gas = @ - c]
             f  == Entered(Top.gas - c, FALSE, working # Empty)
  <2>3. c \in Nat
    BY ConstantsAssumption
  <2>4. /\ fs \in Seq(Frames) /\ Len(fs) = Len(frames)
        /\ fs[Len(frames)].gas = Top.gas - c
    BY <1>a, <2>1, <2>2, <2>3, ChargeShape DEF Top
  <2>5. Bounded(fs, InitialGas(tx.limit))
    BY <1>a, <1>b, <2>1, <2>2, <2>3, ChargeBounded DEF Top, GasInv
  <2>6. f \in Frames /\ f.gas = Top.gas - c
    <3>1. Top.gas - c \in Nat /\ (working # Empty) \in BOOLEAN
      BY <1>d, <2>1, <2>2, <2>3
    <3> QED
      BY <1>a, <3>1, EnteredParts
  <2>7. Top.gas <= InitialGas(tx.limit)
    <3>1. Len(frames) \in DOMAIN frames
      BY <1>a, <2>1
    <3> QED
      BY <3>1 DEF GasInv, Bounded, Top
  <2> HIDE DEF fs, f
  <2>8. f.gas <= InitialGas(tx.limit) /\ f.gas <= fs[Len(fs)].gas
    BY <1>b, <1>d, <2>1, <2>3, <2>4, <2>6, <2>7
  <2>9. Bounded(Append(fs, f), InitialGas(tx.limit))
    BY <1>b, <2>4, <2>5, <2>6, <2>8, EnterBounded
  <2>10. frames' = Append(fs, f)
    BY <2>2 DEF fs, f
  <2> QED
    BY <2>1, <2>9, <2>10 DEF GasInv
<1>5. CASE CallReturns \/ CallTraps \/ ArgumentsRefused
  <2>1. phase = "running" /\ frames # <<>> /\ tx' = tx
    BY <1>5, <1>a DEF CallReturns, CallTraps, ArgumentsRefused
  <2>2. Top.commits \in BOOLEAN
    BY <1>d, <2>1, FrameParts
  <2>3. \E committed \in BOOLEAN : \E kept : EndCall(committed, kept)
    <3>1. CASE CallReturns
      <4>1. EndCall(Top.commits \/ working # Empty, changeset')
        BY <3>1 DEF CallReturns
      <4>2. (Top.commits \/ working # Empty) \in BOOLEAN
        OBVIOUS
      <4> QED
        BY <4>1, <4>2
    <3>2. CASE CallTraps \/ ArgumentsRefused
      <4>1. EndCall(FALSE, changeset) /\ FALSE \in BOOLEAN
        BY <3>2 DEF CallTraps, ArgumentsRefused
      <4> QED
        BY <4>1
    <3> QED
      BY <1>5, <3>1, <3>2
  <2>4. PICK committed \in BOOLEAN : \E kept : EndCall(committed, kept)
    BY <2>3
  <2>5. PICK kept : EndCall(committed, kept)
    BY <2>4
  <2>6. CASE Len(frames) > 1
    <3> DEFINE n == Len(frames)
    <3>1. /\ phase' = phase /\ n \in Nat /\ n > 1 /\ DOMAIN frames = 1 .. n
          /\ DOMAIN frames' = 1 .. (n - 1)
          /\ \A j \in 1 .. (n - 2) : frames'[j] = frames[j]
          /\ frames'[n - 1].gas = frames[n].gas
      BY <1>a, <2>1, <2>5, <2>6, EndCallShape
    <3>2. \A j \in DOMAIN frames : frames[j] \in Frames
      BY <1>a, ElementOfSeq
    <3>3. \A j \in DOMAIN frames : frames[j].gas \in Nat
      BY <3>2, FrameParts
    <3> HIDE DEF n
    <3>4. n \in DOMAIN frames /\ n - 1 \in DOMAIN frames /\ frames[n].gas <= frames[n - 1].gas
      <4>1. n \in DOMAIN frames /\ n - 1 \in DOMAIN frames
        BY <3>1
      <4> QED
        BY <3>1, <4>1 DEF GasInv, Bounded
    <3>5. \A j \in DOMAIN frames' :
            /\ j \in DOMAIN frames /\ frames'[j].gas \in Nat
            /\ frames'[j].gas <= frames[j].gas
            /\ j # n - 1 => frames'[j] = frames[j]
      <4> SUFFICES ASSUME NEW j \in DOMAIN frames'
                   PROVE  /\ j \in DOMAIN frames /\ frames'[j].gas \in Nat
                          /\ frames'[j].gas <= frames[j].gas
                          /\ j # n - 1 => frames'[j] = frames[j]
        OBVIOUS
      <4>1. j \in DOMAIN frames
        BY <3>1
      <4>2. CASE j = n - 1
        BY <3>1, <3>3, <3>4, <4>2
      <4>3. CASE j # n - 1
        <5>1. j \in 1 .. (n - 2)
          BY <3>1, <4>3
        <5>2. frames'[j] = frames[j] /\ frames[j].gas \in Nat
          BY <3>1, <3>3, <4>1, <5>1
        <5> QED
          BY <4>1, <5>2
      <4> QED
        BY <4>1, <4>2, <4>3
    <3>6. \A j \in DOMAIN frames' : frames'[j].gas <= InitialGas(tx.limit)
      BY <1>b, <3>3, <3>5 DEF GasInv, Bounded
    <3>7. ASSUME NEW j \in DOMAIN frames', j > 1 PROVE frames'[j].gas <= frames'[j - 1].gas
      <4>1. j \in DOMAIN frames /\ j - 1 \in DOMAIN frames' /\ j - 1 # n - 1
            /\ j - 1 \in DOMAIN frames
        BY <3>1, <3>7
      <4>2. frames[j].gas <= frames[j - 1].gas /\ frames'[j - 1] = frames[j - 1]
        BY <3>5, <3>7, <4>1 DEF GasInv, Bounded
      <4> QED
        BY <3>3, <3>5, <4>1, <4>2
    <3> QED
      BY <2>1, <3>1, <3>6, <3>7 DEF GasInv, Bounded
  <2>7. CASE ~(Len(frames) > 1)
    <3>1. frames' = <<>> /\ left' = frames[1].gas /\ DOMAIN frames = {1}
      BY <1>a, <2>1, <2>5, <2>7, EndTxShape
    <3>2. left' <= InitialGas(tx'.limit)
      BY <2>1, <3>1 DEF GasInv, Bounded
    <3> QED
      BY <1>c, <3>1, <3>2 DEF GasInv
  <2> QED
    BY <2>6, <2>7
<1>6. CASE Panics \/ PayFee \/ ReturnCompleted
  <2>1. /\ UNCHANGED <<frames, tx, left>> /\ phase' # "fee"
        /\ phase' \in {"next", "fee", "done"} => phase \in {"next", "fee", "done"}
    BY <1>6 DEF Panics, PayFee, ReturnCompleted
  <2> QED
    BY <2>1 DEF GasInv
<1>7. CASE UNCHANGED vars
  BY <1>7 DEF vars, GasInv
<1> QED
  BY <1>0, <1>1, <1>2, <1>3, <1>4, <1>5, <1>6, <1>7 DEF Next, Take, Step

\* Gas is never gained, and the fee is the gas that was used, for any limit and
\* any width of the gas counter: the two casts to 32 bits cancel out.
THEOREM GasIsAccounted == Spec => []GasAccounting
<1>1. Init => GasInv
  BY DEF Init, GasInv, Bounded
<1>2. TypeOK /\ GasInv => GasAccounting
  <2> SUFFICES ASSUME TypeOK, GasInv PROVE GasAccounting
    OBVIOUS
  <2>1. tx.limit \in Nat /\ left \in Nat
    BY DEF TypeOK, Txs
  <2>2. ASSUME left <= InitialGas(tx.limit)
        PROVE  GasUsed = InitialGas(tx.limit) - left
    BY <2>1, <2>2, ConstantsAssumption, ModMinus DEF InitialGas, GasUsed
  <2> QED
    BY <2>2 DEF GasInv, Bounded, GasAccounting
<1> QED
  BY <1>1, <1>2, InitTypeOK, NextTypeOK, NextGasInv, PTL DEF Spec

-----------------------------------------------------------------------------
(* Atomicity *)

\* In call i, and in the calls it is waiting for, nothing was committed yet.
NoCommits(fs, i) == \A j \in DOMAIN fs : j >= i => ~fs[j].commits

\* A call that started with nothing pending, and inside of which nothing was
\* committed, started from the changeset as it is now: a trap restores it.
Restorable(fs, c) ==
  \A i \in DOMAIN fs : ~fs[i].pending /\ NoCommits(fs, i) => fs[i].saved = c

\* TransactionsAreAtomic is about the end of a transaction.  During one, the
\* changesets together are what the calls that did not trap have written.
AtomicInv ==
  lapses = {} =>
    /\ phase \in {"next", "done"} => block = ideal
    /\ phase = "running" =>
         ideal = Extend(changeset, working) /\ Restorable(frames, changeset)
    /\ phase = "fee" => ideal = changeset

\* A lapse is never forgotten.
LEMMA LapsesGrow == [Next]_vars => lapses \subseteq lapses'
<1> SUFFICES ASSUME [Next]_vars PROVE lapses \subseteq lapses'
  OBVIOUS
<1>1. CASE CallTraps \/ ArgumentsRefused
  BY <1>1 DEF CallTraps, ArgumentsRefused
<1>2. CASE lapses' = lapses
  BY <1>2
<1> QED
  BY <1>1, <1>2
     DEF vars, Next, Take, Step, Run, ContractNotFound, CreateContract, SystemNothing,
         StartEnds, ArgumentsWritten, Proceeds, GetValue, SetValue, ExternalCall, CallReturnsError, CallReturns, Panics,
         PayFee, ReturnCompleted

\* Gas has nothing to do with what a trap restores.
LEMMA ChargeRestorable ==
  ASSUME NEW fs \in Seq(Frames), fs # <<>>, NEW c \in Nat, fs[Len(fs)].gas >= c,
         NEW cs, Restorable(fs, cs)
  PROVE  Restorable([fs EXCEPT ![Len(fs)].gas = @ - c], cs)
<1> DEFINE t == [fs EXCEPT ![Len(fs)].gas = @ - c]
<1>1. /\ DOMAIN t = DOMAIN fs
      /\ \A j \in DOMAIN fs : /\ t[j].commits = fs[j].commits
                              /\ t[j].pending = fs[j].pending
                              /\ t[j].saved = fs[j].saved
  BY ChargeShape
<1> HIDE DEF t
<1>2. Restorable(t, cs)
  BY <1>1 DEF Restorable, NoCommits
<1> QED
  BY <1>2 DEF t

\* Nor has the stage of a call.
LEMMA ProceedRestorable ==
  ASSUME NEW fs \in Seq(Frames), fs # <<>>, NEW to \in Stages, NEW cs, Restorable(fs, cs)
  PROVE  Restorable([fs EXCEPT ![Len(fs)].stage = to], cs)
<1> DEFINE t == [fs EXCEPT ![Len(fs)].stage = to]
<1>1. /\ DOMAIN t = DOMAIN fs
      /\ \A j \in DOMAIN fs : /\ t[j].commits = fs[j].commits
                              /\ t[j].pending = fs[j].pending
                              /\ t[j].saved = fs[j].saved
  BY ProceedShape
<1> HIDE DEF t
<1>2. Restorable(t, cs)
  BY <1>1 DEF Restorable, NoCommits
<1> QED
  BY <1>2 DEF t

\* A call that is entered with nothing pending starts from the changeset.
LEMMA EnterRestorable ==
  ASSUME NEW fs \in Seq(Frames), NEW f \in Frames, NEW cs, Restorable(fs, cs),
         ~f.pending => f.saved = cs, ~f.commits
  PROVE  Restorable(Append(fs, f), cs)
<1> DEFINE t == Append(fs, f)
           n == Len(fs)
<1>1. /\ n \in Nat /\ DOMAIN fs = 1 .. n /\ DOMAIN t = 1 .. (n + 1)
      /\ t[n + 1] = f /\ \A j \in 1 .. n : t[j] = fs[j]
  BY EnterShape
<1> HIDE DEF t, n
<1>2. ASSUME NEW i \in DOMAIN t, ~t[i].pending, NoCommits(t, i) PROVE t[i].saved = cs
  <2>1. CASE i = n + 1
    BY <1>1, <1>2, <2>1
  <2>2. CASE i \in 1 .. n
    <3>1. NoCommits(fs, i)
      BY <1>1, <1>2 DEF NoCommits
    <3> QED
      BY <1>1, <1>2, <2>2, <3>1 DEF Restorable
  <2> QED
    BY <1>1, <2>1, <2>2
<1> QED
  BY <1>2 DEF Restorable, t

\* The end of a nested call: a caller that sees no commit has seen none in the
\* call either, so that the changeset is still the one it started from.
LEMMA EndRestorable ==
  ASSUME frames \in Seq(Frames), frames # <<>>, Len(frames) > 1,
         NEW committed \in BOOLEAN, NEW kept, EndCall(committed, kept),
         NEW cs, NEW ds, Restorable(frames, cs),
         ~committed => cs = ds /\ ~frames[Len(frames)].commits
  PROVE  Restorable(frames', ds)
<1> DEFINE n == Len(frames)
<1>1. /\ n \in Nat /\ n > 1 /\ DOMAIN frames = 1 .. n /\ DOMAIN frames' = 1 .. (n - 1)
      /\ \A j \in 1 .. (n - 2) : frames'[j] = frames[j]
      /\ frames'[n - 1].commits = (frames[n - 1].commits \/ committed)
      /\ frames'[n - 1].pending = frames[n - 1].pending
      /\ frames'[n - 1].saved = frames[n - 1].saved
  BY EndCallShape
<1>2. ~committed => ~frames[n].commits
  OBVIOUS
<1> HIDE DEF n
<1>3. ASSUME NEW i \in DOMAIN frames', ~frames'[i].pending, NoCommits(frames', i)
      PROVE  frames'[i].saved = ds
  <2>1. n - 1 \in DOMAIN frames' /\ n - 1 >= i
    BY <1>1
  <2>2. ~frames'[n - 1].commits
    BY <1>3, <2>1 DEF NoCommits
  <2>3. ~committed /\ ~frames[n - 1].commits
    BY <1>1, <2>2
  <2>4. NoCommits(frames, i)
    <3> SUFFICES ASSUME NEW j \in DOMAIN frames, j >= i PROVE ~frames[j].commits
      BY DEF NoCommits
    <3>1. CASE j = n
      BY <1>2, <2>3, <3>1
    <3>2. CASE j = n - 1
      BY <2>3, <3>2
    <3>3. CASE j \in 1 .. (n - 2)
      <4>1. j \in DOMAIN frames' /\ frames'[j] = frames[j]
        BY <1>1, <3>3
      <4> QED
        BY <1>3, <4>1 DEF NoCommits
    <3> QED
      BY <1>1, <3>1, <3>2, <3>3
  <2>5. i \in DOMAIN frames /\ frames'[i].pending = frames[i].pending
        /\ frames'[i].saved = frames[i].saved
    BY <1>1
  <2>6. frames[i].saved = cs
    BY <1>3, <2>4, <2>5 DEF Restorable
  <2> QED
    BY <2>3, <2>5, <2>6
<1> QED
  BY <1>3 DEF Restorable

\* Every step keeps AtomicInv.
LEMMA NextAtomicInv == TypeOK /\ AtomicInv /\ [Next]_vars => AtomicInv'
<1> SUFFICES ASSUME TypeOK, AtomicInv, [Next]_vars, lapses' = {} PROVE AtomicInv'
  BY DEF AtomicInv
<1> USE DEF changeVars
<1>a. /\ block \in Changesets /\ changeset \in Changesets /\ working \in Changesets
      /\ ideal \in Changesets /\ frames \in Seq(Frames) /\ txs \in Nat
      /\ phase = "running" => frames # <<>>
  BY DEF TypeOK
<1>b. lapses = {}
  BY LapsesGrow
<1>c. phase = "running" => Top \in Frames /\ Top.gas \in Nat /\ Top.commits \in BOOLEAN
                             /\ Top.pending \in BOOLEAN
  <2>1. phase = "running" => Top \in Frames
    BY <1>a DEF Top
  <2> QED
    BY <2>1, FrameParts
<1>1. CASE Run
  <2>1. /\ phase = "next" /\ phase' = "running" /\ changeset' = block /\ working' = Empty
        /\ frames' = <<Entered(InitialGas(tx'.limit), FALSE, FALSE)>>
        /\ ideal' = ideal
    BY <1>1 DEF Run, Takes
  <2>2. block = ideal
    BY <1>b, <2>1 DEF AtomicInv
  <2>3. ideal' = Extend(changeset', working')
    BY <1>a, <2>1, <2>2, ExtendProperties
  <2>4. Restorable(frames', changeset')
    BY <2>1, <2>2 DEF Restorable, Entered
  <2> QED
    BY <2>1, <2>3, <2>4 DEF AtomicInv
<1>2. CASE ContractNotFound
  BY <1>2, <1>b DEF ContractNotFound, Takes, AtomicInv
<1>3. CASE CreateContract
  <2>1. /\ phase = "next" /\ phase' = "running" /\ working' = Empty
        /\ frames' = <<Entered(InitialGas(tx'.limit), TRUE, FALSE)>>
    BY <1>3 DEF CreateContract, Takes
  <2>2. block = ideal
    BY <1>b, <2>1 DEF AtomicInv
  <2>3. PICK k \in Keys, code \in Values :
          changeset' = [block EXCEPT ![k] = code] /\ ideal' = [ideal EXCEPT ![k] = code]
    BY <1>3 DEF CreateContract
  <2>4. changeset' \in Changesets
    BY <1>a, <2>3, ExtendProperties
  <2>5. ideal' = Extend(changeset', working')
    BY <2>1, <2>2, <2>3, <2>4, ExtendProperties
  <2>6. Restorable(frames', changeset')
    BY <2>1 DEF Restorable, NoCommits, Entered
  <2> QED
    BY <2>1, <2>5, <2>6 DEF AtomicInv
<1>4. CASE SystemNothing \/ ReturnCompleted
  BY <1>4, <1>b DEF SystemNothing, ReturnCompleted, Takes, AtomicInv
<1>0. CASE StartEnds \/ ArgumentsWritten
  <2>1. PICK to \in Stages :
          /\ phase = "running" /\ frames' = [frames EXCEPT ![Len(frames)].stage = to]
          /\ UNCHANGED <<phase, changeset, working, ideal>>
    BY <1>0 DEF StartEnds, ArgumentsWritten, Proceeds, Stages
  <2>2. Restorable(frames', changeset)
    BY <1>a, <1>b, <2>1, ProceedRestorable DEF AtomicInv
  <2> QED
    BY <1>b, <2>1, <2>2 DEF AtomicInv
<1>5. CASE GetValue \/ SetValue \/ CallReturnsError
  <2>1. PICK c \in Costs : UseGas(c)
    BY <1>5 DEF GetValue, SetValue, CallReturnsError
  <2>2. phase = "running" /\ frames # <<>> /\ c \in Nat /\ UNCHANGED <<phase, changeset>>
    BY <1>5, <1>a, ConstantsAssumption DEF GetValue, SetValue, CallReturnsError, Metered
  <2>3. Restorable(frames', changeset')
    BY <1>a, <1>b, <2>1, <2>2, ChargeRestorable DEF UseGas, Top, AtomicInv
  <2>4. ideal' = Extend(changeset', working')
    <3>1. CASE SetValue
      <4>1. PICK k \in Keys, v \in Values :
              working' = [working EXCEPT ![k] = v] /\ ideal' = [ideal EXCEPT ![k] = v]
        BY <3>1 DEF SetValue
      <4>2. ideal = Extend(changeset, working)
        BY <1>b, <2>2 DEF AtomicInv
      <4>3. Extend(changeset, [working EXCEPT ![k] = v]) =
              [Extend(changeset, working) EXCEPT ![k] = v]
        BY <1>a, ExtendProperties
      <4> QED
        BY <2>2, <4>1, <4>2, <4>3
    <3>2. CASE ~SetValue
      BY <3>2, <1>5, <1>b, <2>2 DEF GetValue, CallReturnsError, AtomicInv
    <3> QED
      BY <3>1, <3>2
  <2> QED
    BY <2>2, <2>3, <2>4 DEF AtomicInv
<1>6. CASE ExternalCall
  <2>1. phase = "running" /\ frames # <<>> /\ UNCHANGED <<phase, changeset, working, ideal>>
    BY <1>6, <1>a DEF ExternalCall, Metered
  <2>2. PICK c \in Costs :
          /\ Top.gas >= c
          /\ frames' = Append([frames EXCEPT ![Len(frames)].gas = @ - c],
                              Entered(Top.gas - c, FALSE, working # Empty))
    BY <1>6 DEF ExternalCall
  <2> DEFINE fs == [frames EXCEPT ![Len(frames)].gas = @ - c]
             f  == Entered(Top.gas - c, FALSE, working # Empty)
  <2>3. c \in Nat
    BY ConstantsAssumption
  <2>4. fs \in Seq(Frames)
    BY <1>a, <2>1, <2>2, <2>3, ChargeShape DEF Top
  <2>5. Restorable(fs, changeset)
    BY <1>a, <1>b, <2>1, <2>2, <2>3, ChargeRestorable DEF Top, AtomicInv
  <2>6. /\ f \in Frames /\ ~f.commits /\ f.saved = ideal
        /\ ~f.pending => working = Empty
    <3>1. Top.gas - c \in Nat
      BY <1>c, <2>1, <2>2, <2>3
    <3>2. (working # Empty) \in BOOLEAN
      OBVIOUS
    <3> QED
      BY <1>a, <3>1, <3>2, EnteredParts
  <2>7. ~f.pending => f.saved = changeset
    BY <1>a, <1>b, <2>1, <2>6, ExtendProperties DEF AtomicInv
  <2>8. frames' = Append(fs, f)
    BY <2>2
  <2> HIDE DEF fs, f
  <2>9. Restorable(frames', changeset)
    BY <2>4, <2>5, <2>6, <2>7, <2>8, EnterRestorable
  <2> QED
    BY <1>b, <2>1, <2>9 DEF AtomicInv
<1>7. CASE CallReturns
  <2>1. /\ phase = "running" /\ frames # <<>> /\ ideal' = ideal /\ working' = Empty
        /\ changeset' = Extend(changeset, working)
        /\ EndCall(Top.commits \/ working # Empty, changeset')
    BY <1>7, <1>a DEF CallReturns
  <2>2. ideal = Extend(changeset, working) /\ Restorable(frames, changeset)
    BY <1>b, <2>1 DEF AtomicInv
  <2>3. ideal' = changeset' /\ changeset' \in Changesets
    BY <1>a, <2>1, <2>2, ExtendProperties
  <2>4. ideal' = Extend(changeset', working')
    BY <2>1, <2>3, ExtendProperties
  <2> DEFINE committed == Top.commits \/ working # Empty
  <2>5. committed \in BOOLEAN
    OBVIOUS
  <2>6. ~committed => changeset = changeset' /\ ~frames[Len(frames)].commits
    BY <1>a, <2>1, ExtendProperties DEF Top
  <2>7. EndCall(committed, changeset')
    BY <2>1
  <2> HIDE DEF committed
  <2>8. CASE Len(frames) > 1
    <3>1. phase' = phase
      BY <1>a, <2>1, <2>5, <2>7, <2>8, EndCallShape
    <3>2. Restorable(frames', changeset')
      BY <1>a, <2>1, <2>2, <2>5, <2>6, <2>7, <2>8, EndRestorable
    <3> QED
      BY <2>1, <2>4, <3>1, <3>2 DEF AtomicInv
  <2>9. CASE ~(Len(frames) > 1)
    <3>1. /\ phase' = (IF tx.create THEN "next" ELSE "fee")
          /\ block' = (IF tx.create THEN changeset' ELSE block)
      BY <1>a, <2>1, <2>7, <2>9, EndTxShape
    <3> QED
      BY <2>3, <3>1 DEF AtomicInv
  <2> QED
    BY <2>8, <2>9
<1>8. CASE CallTraps
  <2>1. /\ phase = "running" /\ frames # <<>> /\ ideal' = Top.saved /\ working' = Empty
        /\ changeset' = changeset /\ EndCall(FALSE, changeset)
        /\ ~Top.commits /\ ~Top.pending
    BY <1>8, <1>a DEF CallTraps
  <2>2. Restorable(frames, changeset)
    BY <1>b, <2>1 DEF AtomicInv
  <2>3. Top.saved = changeset
    <3>1. Len(frames) \in Nat /\ Len(frames) \in DOMAIN frames /\ DOMAIN frames = 1 .. Len(frames)
      BY <1>a, <2>1
    <3>2. NoCommits(frames, Len(frames))
      <4>1. \A j \in DOMAIN frames : j >= Len(frames) => j = Len(frames)
        BY <3>1
      <4> QED
        BY <2>1, <4>1 DEF NoCommits, Top
    <3> QED
      BY <2>1, <2>2, <3>1, <3>2 DEF Restorable, Top
  <2>4. ideal' = Extend(changeset', working') /\ ideal' = changeset'
    BY <1>a, <2>1, <2>3, ExtendProperties
  <2>5. CASE Len(frames) > 1
    <3>1. phase' = phase
      BY <1>a, <2>1, <2>5, EndCallShape
    <3>2. Restorable(frames', changeset')
      BY <1>a, <2>1, <2>2, <2>5, EndRestorable DEF Top
    <3> QED
      BY <2>1, <2>4, <3>1, <3>2 DEF AtomicInv
  <2>6. CASE ~(Len(frames) > 1)
    <3>1. /\ phase' = (IF tx.create THEN "next" ELSE "fee")
          /\ block' = (IF tx.create THEN changeset ELSE block)
      BY <1>a, <2>1, <2>6, EndTxShape
    <3> QED
      BY <2>1, <2>4, <3>1 DEF AtomicInv
  <2> QED
    BY <2>5, <2>6
<1>12. CASE ArgumentsRefused
  <2>1. /\ phase = "running" /\ frames # <<>> /\ ideal' = ideal
        /\ UNCHANGED <<changeset, working>> /\ Len(frames) > 1
        /\ EndCall(FALSE, changeset) /\ ~Top.commits
    BY <1>12, <1>a DEF ArgumentsRefused
  <2>2. ideal = Extend(changeset, working) /\ Restorable(frames, changeset)
    BY <1>b, <2>1 DEF AtomicInv
  <2>3. phase' = phase
    BY <1>a, <2>1, EndCallShape
  <2>4. Restorable(frames', changeset)
    BY <1>a, <2>1, <2>2, EndRestorable DEF Top
  <2> QED
    BY <2>1, <2>2, <2>3, <2>4 DEF AtomicInv
<1>9. CASE Panics
  BY <1>9 DEF Panics, AtomicInv
<1>10. CASE PayFee
  BY <1>10, <1>b DEF PayFee, AtomicInv
<1>11. CASE UNCHANGED vars
  BY <1>11 DEF vars, AtomicInv
<1> QED
  BY <1>0, <1>1, <1>2, <1>3, <1>4, <1>5, <1>6, <1>7, <1>8, <1>9, <1>10, <1>11, <1>12
     DEF Next, Take, Step

\* AtomicInv holds at first.
LEMMA InitAtomicInv == Init => AtomicInv
BY DEF Init, AtomicInv

\* Transactions are all or nothing but for the three lapses, whatever calls their
\* contracts nest, in whatever order they write, return and trap.
THEOREM TransactionsAtomic == Spec => []TransactionsAreAtomic
<1>1. AtomicInv => TransactionsAreAtomic
  BY DEF AtomicInv, TransactionsAreAtomic
<1> QED
  BY <1>1, InitAtomicInv, InitTypeOK, NextTypeOK, NextAtomicInv, PTL DEF Spec

-----------------------------------------------------------------------------
(* Reads *)

\* What a contract has just read is what is there, or the key has a write
\* pending; nothing is remembered as read outside of a call.
ReadInv ==
  /\ read # {} => phase = "running"
  /\ ReadsAreCurrent

\* Every step keeps ReadInv.
LEMMA NextReadInv == TypeOK /\ AtomicInv /\ ReadInv /\ [Next]_vars => ReadInv'
<1> SUFFICES ASSUME TypeOK, AtomicInv, ReadInv, [Next]_vars PROVE ReadInv'
  OBVIOUS
<1> USE DEF changeVars
<1>1. CASE GetValue
  <2>1. /\ phase = "running" /\ UNCHANGED <<phase, changeset, working, ideal, lapses>>
        /\ \E k \in Keys : read' = {[key |-> k, value |-> changeset[k]]}
    BY <1>1 DEF GetValue, Get, Metered
  <2>2. PICK k \in Keys : read' = {[key |-> k, value |-> changeset[k]]}
    BY <2>1
  <2>3. changeset \in Changesets /\ working \in Changesets
    BY DEF TypeOK
  <2>4. lapses = {} => changeset[k] = ideal[k] \/ working[k] # Nil
    BY <2>1, <2>3, ExtendProperties DEF AtomicInv
  <2>5. ASSUME lapses' = {}, NEW r \in read'
        PROVE  r.value = ideal'[r.key] \/ working'[r.key] # Nil
    BY <2>1, <2>2, <2>4, <2>5
  <2> QED
    BY <2>1, <2>5 DEF ReadInv, ReadsAreCurrent
<1>2. CASE read' = {}
  BY <1>2 DEF ReadInv, ReadsAreCurrent
<1>3. CASE Take \/ ReturnCompleted
  <2>1. phase = "next" /\ read' = read
    BY <1>3 DEF Take, Run, ContractNotFound, CreateContract, SystemNothing, Takes,
                ReturnCompleted
  <2> QED
    BY <1>2, <2>1 DEF ReadInv
<1>4. CASE UNCHANGED vars \/ StartEnds \/ ArgumentsWritten
  <2>1. UNCHANGED <<phase, working, read, ideal, lapses>>
    BY <1>4 DEF vars, StartEnds, ArgumentsWritten, Proceeds
  <2> QED
    BY <2>1 DEF ReadInv, ReadsAreCurrent
<1> QED
  BY <1>1, <1>2, <1>3, <1>4
     DEF Next, Step, SetValue, ExternalCall, CallReturnsError, CallReturns, CallTraps,
         ArgumentsRefused, Panics, PayFee

\* A contract never reads a value that a call before it has replaced, or that a
\* call which trapped has written, while there is no lapse.
THEOREM ReadsSeeCommits == Spec => []ReadsAreCurrent
<1>1. Init => ReadInv
  BY DEF Init, ReadInv, ReadsAreCurrent
<1>2. ReadInv => ReadsAreCurrent
  BY DEF ReadInv
<1> QED
  BY <1>1, <1>2, InitTypeOK, NextTypeOK, InitAtomicInv, NextAtomicInv, NextReadInv, PTL
     DEF Spec

-----------------------------------------------------------------------------
(* Fees *)

\* What FeesConserveTokens says of the sum, account by account: a sender that is
\* not the winner and the winner have together what they had, a winner that pays
\* itself gains the fee, and nobody else's balance changes.
FeeMoves ==
  LET s == tx.sender
  IN  /\ \A a \in Accounts \ {s, Winner} : balance'[a] = balance[a]
      /\ \/ balance' = balance
         \/ s # Winner /\ balance'[s] + balance'[Winner] = balance[s] + balance[Winner]
         \/ s = Winner /\ balance'[s] = balance[s] + GasUsed

\* A fee moves tokens from one account to another.
LEMMA FeeStep == TypeOK /\ [Next]_vars => [FeeMoves]_vars
<1> SUFFICES ASSUME TypeOK, Next PROVE FeeMoves
  OBVIOUS
<1>1. CASE PayFee
  <2> DEFINE s == tx.sender
  <2>1. /\ balance \in [Accounts -> Nat] /\ s \in Accounts /\ Winner \in Accounts
        /\ tx.limit \in Nat /\ left \in Nat
    BY ConstantsAssumption DEF TypeOK, Txs
  <2>2. balance[s] \in Nat /\ balance[Winner] \in Nat /\ GasUsed \in Nat
    BY <2>1, GasTyped
  <2>3. balance' = Transfer(s, Winner, GasUsed)
    BY <1>1 DEF PayFee
  <2> HIDE DEF GasUsed, s
  <2>4. CASE balance[s] < GasUsed
    BY <2>3, <2>4 DEF Transfer, FeeMoves
  <2>5. CASE ~(balance[s] < GasUsed)
    <3>1. balance' = [[balance EXCEPT ![s] = balance[s] - GasUsed]
                        EXCEPT ![Winner] = balance[Winner] + GasUsed]
      BY <2>3, <2>5 DEF Transfer
    <3>2. \A a \in Accounts \ {s, Winner} : balance'[a] = balance[a]
      BY <2>1, <3>1
    <3>3. balance'[Winner] = balance[Winner] + GasUsed
      BY <2>1, <3>1
    <3>4. s # Winner => balance'[s] = balance[s] - GasUsed
      BY <2>1, <3>1
    <3>5. s # Winner => balance'[s] + balance'[Winner] = balance[s] + balance[Winner]
      BY <2>2, <3>3, <3>4
    <3> QED
      BY <3>2, <3>3, <3>5 DEF FeeMoves, s
  <2> QED
    BY <2>4, <2>5
<1>2. CASE ~PayFee
  <2>1. balance' = balance
    BY <1>2 DEF Next, Take, Step, Run, ContractNotFound, CreateContract, SystemNothing,
                StartEnds, ArgumentsWritten, Proceeds, ArgumentsRefused, GetValue, SetValue, ExternalCall, CallReturnsError, CallReturns,
                CallTraps, Panics, ReturnCompleted
  <2> QED
    BY <2>1 DEF FeeMoves
<1> QED
  BY <1>1, <1>2

\* No step moves tokens but between the sender of the transaction and the winner,
\* and a fee that is paid to somebody else is neither lost nor made.
THEOREM FeesMoveTokens == Spec => [][FeeMoves]_vars
BY FeeStep, InitTypeOK, NextTypeOK, PTL DEF Spec

\* The account that a fold takes next, what it adds, and the sums of all subsets.
Chosen(s) == CHOOSE x \in s : TRUE
SumStep(b, g, s) == IF s = {} THEN 0 ELSE b[Chosen(s)] + g[s \ {Chosen(s)}]
SumOf(b) == CHOOSE g : g = [s \in SUBSET Accounts |-> SumStep(b, g, s)]

\* Supply is such a sum, before and after a step.
LEMMA SupplyIsSum == Supply = SumOf(balance)[Accounts] /\ Supply' = SumOf(balance')[Accounts]
BY DEF Supply, SumOf, SumStep, MapThenSumSet, MapThenFoldSet, Chosen

\* The recursion of the fold defines a function: by induction on the size of the
\* subsets for which it does.
LEMMA SumDefined ==
  ASSUME NEW b \in [Accounts -> Int]
  PROVE  \A s \in SUBSET Accounts : SumOf(b)[s] = SumStep(b, SumOf(b), s)
<1> DEFINE D(n) == {s \in SUBSET Accounts : Cardinality(s) <= n}
           Good(n, g) == g \in [D(n) -> Int] /\ \A s \in D(n) : g[s] = SumStep(b, g, s)
           Ns == {n \in Nat : \E g : Good(n, g)}
<1>0. ASSUME NEW s \in SUBSET Accounts
      PROVE  /\ Cardinality(s) \in Nat /\ (Cardinality(s) = 0 <=> s = {})
             /\ s # {} => /\ Chosen(s) \in s /\ Chosen(s) \in Accounts /\ s \ {Chosen(s)} \in SUBSET Accounts
                          /\ Cardinality(s \ {Chosen(s)}) = Cardinality(s) - 1
  <2>1. IsFiniteSet(s)
    BY ConstantsAssumption, FS_Subset
  <2>2. s # {} => Chosen(s) \in s
    BY DEF Chosen
  <2> QED
    BY <2>1, <2>2, FS_CardinalityType, FS_EmptySet, FS_RemoveElement
<1>1. 0 \in Ns
  <2> DEFINE g == [s \in D(0) |-> 0]
  <2>1. ASSUME NEW s \in D(0) PROVE s = {}
    <3>1. s \in SUBSET Accounts /\ Cardinality(s) <= 0
      OBVIOUS
    <3>2. Cardinality(s) \in Nat /\ (Cardinality(s) = 0 <=> s = {})
      BY <1>0, <3>1
    <3> QED
      BY <3>1, <3>2
  <2>2. Good(0, g)
    BY <2>1 DEF SumStep
  <2> QED
    BY <2>2
<1>2. ASSUME NEW n \in Ns PROVE n + 1 \in Ns
  <2>0. n \in Nat /\ n + 1 \in Nat
    OBVIOUS
  <2>1. PICK g : Good(n, g)
    OBVIOUS
  <2> DEFINE h == [s \in D(n + 1) |-> SumStep(b, g, s)]
  <2>2. ASSUME NEW s \in D(n + 1), s # {}
        PROVE  s \ {Chosen(s)} \in D(n) /\ s \ {Chosen(s)} \in D(n + 1) /\ Chosen(s) \in Accounts
    <3>1. s \in SUBSET Accounts /\ Cardinality(s) <= n + 1
      OBVIOUS
    <3>2. /\ Cardinality(s) \in Nat /\ Chosen(s) \in Accounts
          /\ s \ {Chosen(s)} \in SUBSET Accounts
          /\ Cardinality(s \ {Chosen(s)}) = Cardinality(s) - 1
      BY <1>0, <2>2, <3>1
    <3> QED
      BY <2>0, <3>1, <3>2
  <2>3. ASSUME NEW s \in D(n + 1)
        PROVE  h[s] \in Int /\ h[s] = SumStep(b, h, s)
    <3>1. CASE s = {}
      BY <3>1 DEF SumStep
    <3>2. CASE s # {}
      <4> DEFINE r == s \ {Chosen(s)}
      <4>1. r \in D(n) /\ r \in D(n + 1) /\ Chosen(s) \in Accounts
        BY <2>2, <3>2
      <4>2. h[r] = g[r] /\ g[r] \in Int
        BY <2>1, <4>1
      <4>3. h[s] = b[Chosen(s)] + g[r]
        BY <3>2 DEF SumStep
      <4> QED
        BY <3>2, <4>1, <4>2, <4>3 DEF SumStep
    <3> QED
      BY <3>1, <3>2
  <2>4. Good(n + 1, h)
    BY <2>3
  <2> QED
    BY <2>0, <2>4
<1>3. Cardinality(Accounts) \in Ns
  <2> HIDE DEF Ns
  <2>1. Ns \in SUBSET Nat
    BY DEF Ns
  <2> QED
    BY <1>1, <1>2, <2>1, InductionOnNat, <1>0
<1>4. PICK g : Good(Cardinality(Accounts), g)
  BY <1>3
<1>5. D(Cardinality(Accounts)) = SUBSET Accounts
  <2>1. ASSUME NEW s \in SUBSET Accounts PROVE Cardinality(s) <= Cardinality(Accounts)
    BY ConstantsAssumption, FS_Subset
  <2> QED
    BY <2>1
<1>6. g = [s \in SUBSET Accounts |-> SumStep(b, g, s)]
  BY <1>4, <1>5
<1>7. SumOf(b) = [s \in SUBSET Accounts |-> SumStep(b, SumOf(b), s)]
  BY <1>6 DEF SumOf
<1> QED
  BY <1>7

\* When the balances of two accounts change the sum changes by as much: by induction
\* on the size of the subsets, which both sums run through in the same order.
LEMMA SumChanges ==
  ASSUME NEW b \in [Accounts -> Int], NEW c \in [Accounts -> Int],
         NEW x \in Accounts, NEW y \in Accounts,
         \A a \in Accounts \ {x, y} : c[a] = b[a]
  PROVE  /\ SumOf(b)[Accounts] \in Int /\ SumOf(c)[Accounts] \in Int
         /\ SumOf(c)[Accounts] - SumOf(b)[Accounts] =
              IF x = y THEN c[x] - b[x] ELSE (c[x] - b[x]) + (c[y] - b[y])
<1> DEFINE B == SumOf(b)
           C == SumOf(c)
           Change(s) == (IF x \in s THEN c[x] - b[x] ELSE 0)
                        + (IF y \in s /\ y # x THEN c[y] - b[y] ELSE 0)
           Good(s) == B[s] \in Int /\ C[s] \in Int /\ C[s] - B[s] = Change(s)
           Ns == {n \in Nat : \A s \in SUBSET Accounts : Cardinality(s) = n => Good(s)}
<1>1. /\ \A s \in SUBSET Accounts : B[s] = SumStep(b, B, s)
      /\ \A s \in SUBSET Accounts : C[s] = SumStep(c, C, s)
  BY SumDefined
<1> HIDE DEF B, C
<1>2. ASSUME NEW s \in SUBSET Accounts
      PROVE  /\ Cardinality(s) \in Nat /\ (Cardinality(s) = 0 <=> s = {})
             /\ s # {} => /\ Chosen(s) \in s /\ Chosen(s) \in Accounts /\ s \ {Chosen(s)} \in SUBSET Accounts
                          /\ Cardinality(s \ {Chosen(s)}) = Cardinality(s) - 1
  <2>1. IsFiniteSet(s)
    BY ConstantsAssumption, FS_Subset
  <2>2. s # {} => Chosen(s) \in s
    BY DEF Chosen
  <2> QED
    BY <2>1, <2>2, FS_CardinalityType, FS_EmptySet, FS_RemoveElement
<1>3. Good({})
  <2>1. B[{}] = 0 /\ C[{}] = 0
    BY <1>1 DEF SumStep
  <2> QED
    BY <2>1
<1>4. ASSUME NEW s \in SUBSET Accounts, s # {}, Good(s \ {Chosen(s)}) PROVE Good(s)
  <2> DEFINE z == Chosen(s)
             r == s \ {z}
  <2>1. z \in s /\ z \in Accounts /\ r \in SUBSET Accounts
    BY <1>2, <1>4
  <2>2. B[s] = b[z] + B[r] /\ C[s] = c[z] + C[r]
    BY <1>1, <1>4 DEF SumStep
  <2>3. b[z] \in Int /\ c[z] \in Int /\ b[x] \in Int /\ c[x] \in Int /\ b[y] \in Int /\ c[y] \in Int
    BY <2>1
  <2>4. B[r] \in Int /\ C[r] \in Int /\ C[r] - B[r] = Change(r)
    BY <1>4
  <2>5. Change(s) = Change(r) + (c[z] - b[z])
    <3> HIDE DEF z
    <3>1. CASE z = x
      BY <2>1, <2>3, <3>1
    <3>2. CASE z # x /\ z = y
      BY <2>1, <2>3, <3>2
    <3>3. CASE z # x /\ z # y
      BY <2>1, <2>3, <3>3
    <3> QED
      BY <3>1, <3>2, <3>3
  <2>6. Change(r) \in Int
    BY <2>3
  <2> HIDE DEF z, r, Change
  <2> QED
    BY <2>2, <2>3, <2>4, <2>5, <2>6
<1> HIDE DEF Good
<1>5. 0 \in Ns
  BY <1>2, <1>3
<1>6. ASSUME NEW n \in Ns PROVE n + 1 \in Ns
  <2>1. n \in Nat
    OBVIOUS
  <2>2. ASSUME NEW s \in SUBSET Accounts, Cardinality(s) = n + 1 PROVE Good(s)
    <3>1. s # {}
      BY <1>2, <2>1, <2>2
    <3>2. s \ {Chosen(s)} \in SUBSET Accounts /\ Cardinality(s \ {Chosen(s)}) = n
      BY <1>2, <2>1, <2>2, <3>1
    <3>3. Good(s \ {Chosen(s)})
      BY <3>2
    <3> QED
      BY <1>4, <3>1, <3>3
  <2> QED
    BY <2>1, <2>2
<1>7. Good(Accounts)
  <2>1. Ns \in SUBSET Nat /\ Cardinality(Accounts) \in Nat
    BY <1>2
  <2>2. Cardinality(Accounts) \in Ns
    <3> HIDE DEF Ns
    <3> QED
      BY <1>5, <1>6, <2>1, InductionOnNat
  <2> QED
    BY <2>2
<1> QED
  BY <1>7 DEF Good, B, C

\* The base token is conserved, but for the fee of a winner that pays itself.
THEOREM SupplyIsConserved == Spec => FeesConserveTokens
<1> DEFINE Conserved == Supply' = Supply \/ (tx.sender = Winner /\ Supply' = Supply + GasUsed)
<1>1. TypeOK /\ [Next]_vars => [Conserved]_vars
  <2> SUFFICES ASSUME TypeOK, TypeOK', [FeeMoves]_vars PROVE [Conserved]_vars
    BY FeeStep, NextTypeOK
  <2>1. /\ balance \in [Accounts -> Int] /\ balance' \in [Accounts -> Int]
        /\ tx.sender \in Accounts /\ Winner \in Accounts
    BY ConstantsAssumption DEF TypeOK, Txs
  <2>2. CASE UNCHANGED vars
    BY <2>2
  <2>3. CASE FeeMoves
    <3> DEFINE s == tx.sender
    <3>1. /\ Supply \in Int /\ Supply' \in Int
          /\ Supply' - Supply =
               IF s = Winner THEN balance'[s] - balance[s]
               ELSE (balance'[s] - balance[s]) + (balance'[Winner] - balance[Winner])
      <4>1. \A a \in Accounts \ {s, Winner} : balance'[a] = balance[a]
        BY <2>3 DEF FeeMoves
      <4> HIDE DEF s
      <4>2. s \in Accounts
        BY <2>1 DEF s
      <4> QED
        BY <2>1, <4>1, <4>2, SupplyIsSum, SumChanges
    <3>2. /\ balance[s] \in Int /\ balance'[s] \in Int
          /\ balance[Winner] \in Int /\ balance'[Winner] \in Int
      BY <2>1
    <3>3. GasUsed \in Int
      BY GasTyped DEF TypeOK, Txs
    <3> HIDE DEF Supply, GasUsed
    <3>4. CASE balance' = balance
      BY <3>1, <3>2, <3>4
    <3>5. CASE s # Winner /\ balance'[s] + balance'[Winner] = balance[s] + balance[Winner]
      BY <3>1, <3>2, <3>5
    <3>6. CASE s = Winner /\ balance'[s] = balance[s] + GasUsed
      BY <3>1, <3>2, <3>3, <3>6
    <3> QED
      BY <2>3, <3>4, <3>5, <3>6 DEF FeeMoves
  <2> QED
    BY <2>2, <2>3
<1> QED
  BY <1>1, InitTypeOK, NextTypeOK, PTL DEF Spec, FeesConserveTokens
=============================================================================
