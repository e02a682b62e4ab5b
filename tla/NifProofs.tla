------------------------------ MODULE NifProofs ------------------------------
(***************************************************************************)
(* Proofs about the NIF library: NifCalls for any buffers, sizes and       *)
(* sequences of steps, NifResources for any types, addresses and           *)
(* alignments, and NifEnvs for any threads, environments and saved terms.  *)
(***************************************************************************)
EXTENDS NifEnvs, NifResources, NifCalls, FiniteSetTheorems, SequenceTheorems, TLAPS

-----------------------------------------------------------------------------
(* NifCalls *)

Funs == Ed25519 \cup {"any", "none"}

CallType ==
  /\ mem \in [Buffers -> [owner : {"free", "rust", "vm"}, size : Nat]]
  /\ owned \in SUBSET Buffers
  /\ views \in SUBSET [buf : Buffers, off : Nat, len : Nat]
  /\ call \in [fun : Funs, args : Seq(ArgKinds), step : Nat]

\* The inductive invariant
CallInv == CallType /\ BinariesAreSound

LEMMA InitCallInv == CallInit => CallInv
<1> SUFFICES ASSUME CallInit PROVE CallInv
  OBVIOUS
<1>1. CallType
  BY DEF CallInit, CallType, FreeBuffer, NoCall, Funs
<1>2. BinariesAreSound
  BY DEF CallInit, BinariesAreSound, FreeBuffer
<1> QED
  BY <1>1, <1>2 DEF CallInv

LEMMA NoCallTyped == NoCall \in [fun : Funs, args : Seq(ArgKinds), step : Nat]
BY DEF NoCall, Funs

\* However a function is left, its OwnedBinary values are dropped.
LEMMA LeaveInv ==
  ASSUME CallInv, NEW how, Leave(how)
  PROVE  CallInv'
<1>1. /\ call' = NoCall /\ owned' = {} /\ views' = {}
      /\ broken' = (broken \/ \E b \in owned : mem[b].owner # "rust")
      /\ mem' = [b \in Buffers |->
                   IF b \in owned \/ mem[b].owner = "vm" THEN FreeBuffer ELSE mem[b]]
  BY DEF Leave
<1>2. /\ ~broken /\ \A b \in Buffers : (mem[b].owner = "rust") <=> (b \in owned)
      /\ mem \in [Buffers -> [owner : {"free", "rust", "vm"}, size : Nat]]
      /\ owned \in SUBSET Buffers
  BY DEF CallInv, CallType, BinariesAreSound
<1>3. ~broken'
  BY <1>1, <1>2
<1>4. FreeBuffer \in [owner : {"free", "rust", "vm"}, size : Nat] /\ FreeBuffer.owner = "free"
  BY DEF FreeBuffer
<1>5. mem' \in [Buffers -> [owner : {"free", "rust", "vm"}, size : Nat]]
  BY <1>1, <1>2, <1>4
<1>6. \A b \in Buffers : mem'[b].owner # "rust"
  BY <1>1, <1>2, <1>4
<1>7. CallType'
  BY <1>1, <1>5, NoCallTyped DEF CallType
<1>8. BinariesAreSound'
  BY <1>1, <1>3, <1>6 DEF BinariesAreSound
<1> QED
  BY <1>7, <1>8 DEF CallInv

\* A step goes on within the call.
LEMMA StepGoesOn ==
  ASSUME CallInv, NextStep, call.fun # "none"
  PROVE  call' \in [fun : Funs, args : Seq(ArgKinds), step : Nat] /\ call' # NoCall
<1>1. /\ call \in [fun : Funs, args : Seq(ArgKinds), step : Nat]
      /\ call' = [call EXCEPT !.step = @ + 1]
  BY DEF CallInv, CallType, NextStep
<1>2. call' \in [fun : Funs, args : Seq(ArgKinds), step : Nat]
  BY <1>1
<1>3. call'.fun = call.fun
  BY <1>1
<1>4. NoCall.fun = "none"
  BY DEF NoCall
<1> QED
  BY <1>2, <1>3, <1>4

LEMMA StepIsInCall ==
  ASSUME NEW s, AtStep(s)
  PROVE  call.fun # "none"
BY DEF AtStep, Ed25519

\* A function begins; nothing is owned.
LEMMA BeginInv ==
  ASSUME CallInv, BeginCall \/ BeginAny
  PROVE  CallInv'
<1>1. CASE BeginCall
  <2>1. PICK f \in Ed25519 : \E as \in [1 .. Arity[f] -> ArgKinds] :
          call' = [fun |-> f, args |-> as, step |-> 1]
    BY <1>1 DEF BeginCall
  <2>2. PICK as \in [1 .. Arity[f] -> ArgKinds] : call' = [fun |-> f, args |-> as, step |-> 1]
    BY <2>1
  <2>3. Arity[f] \in Nat
    BY DEF Arity, Ed25519
  <2>4. as \in Seq(ArgKinds)
    BY <2>3, SeqDef
  <2>5. call' \in [fun : Funs, args : Seq(ArgKinds), step : Nat] /\ call' # NoCall
    <3>1. f \in Funs /\ f # "none"
      BY DEF Funs, Ed25519
    <3> QED
      BY <2>2, <2>4, <3>1 DEF NoCall
  <2>6. UNCHANGED <<mem, owned, views, broken>>
    BY <1>1 DEF BeginCall
  <2> QED
    BY <2>5, <2>6 DEF CallInv, CallType, BinariesAreSound
<1>2. CASE BeginAny
  <2>1. /\ call' = [fun |-> "any", args |-> <<"fits">>, step |-> 1]
        /\ UNCHANGED <<owned, broken>>
    BY <1>2 DEF BeginAny
  <2>2. PICK b \in Unused, n \in Sizes :
          /\ mem' = [mem EXCEPT ![b] = [owner |-> "vm", size |-> n]]
          /\ views' = {[buf |-> b, len |-> n, off |-> 0]}
    BY <1>2 DEF BeginAny
  <2>3. call' \in [fun : Funs, args : Seq(ArgKinds), step : Nat] /\ call' # NoCall
    <3>1. <<"fits">> \in Seq(ArgKinds)
      BY DEF ArgKinds
    <3> QED
      BY <2>1, <3>1 DEF Funs, NoCall
  <2>4. n \in Nat /\ b \in Buffers /\ mem[b].owner = "free"
    BY NifCallsAssumption DEF Unused
  <2>5. CallType'
    BY <2>1, <2>2, <2>3, <2>4 DEF CallInv, CallType
  <2>6. BinariesAreSound'
    <3>1. \A c \in Buffers : (mem'[c].owner = "rust") <=> (c \in owned')
      BY <2>1, <2>2, <2>4 DEF CallInv, CallType, BinariesAreSound
    <3>2. \A v \in views' : mem'[v.buf].owner = "vm" /\ v.off + v.len <= mem'[v.buf].size
      BY <2>2, <2>4 DEF CallInv, CallType
    <3> QED
      BY <2>1, <2>3, <3>1, <3>2 DEF CallInv, BinariesAreSound
  <2> QED
    BY <2>5, <2>6 DEF CallInv
<1> QED
  BY <1>1, <1>2

\* Arguments are decoded and parsed.
LEMMA ArgumentInv ==
  ASSUME CallInv, DecodeBinary \/ FromBytes
  PROVE  CallInv'
<1>1. \/ \E how : Leave(how)
      \/ NextStep /\ call.fun # "none" /\ UNCHANGED <<mem, owned, views, result, broken>>
  BY DEF DecodeBinary, FromBytes, Unwinds, Ed25519
<1>2. CASE \E how : Leave(how)
  BY <1>2, LeaveInv
<1>3. CASE NextStep /\ call.fun # "none" /\ UNCHANGED <<mem, owned, views, result, broken>>
  BY <1>3, StepGoesOn DEF CallInv, CallType, BinariesAreSound
<1> QED
  BY <1>1, <1>2, <1>3
\* A buffer is allocated for an OwnedBinary, or there is no memory for it.
LEMMA NewOwnedInv ==
  ASSUME CallInv, NewOwned
  PROVE  CallInv'
<1>1. CASE Unwinds
  BY <1>1, LeaveInv DEF Unwinds
<1>2. ASSUME NEW b \in Unused, NEW n \in Sizes, mem' = Alloc(mem, b, n),
             owned' = owned \cup {b}, NextStep, UNCHANGED <<views, result, broken>>
      PROVE  CallInv'
  <2>1. call' \in [fun : Funs, args : Seq(ArgKinds), step : Nat] /\ call' # NoCall
    BY <1>2, StepGoesOn, StepIsInCall DEF NewOwned
  <2>2. /\ n \in Nat /\ b \in Buffers /\ mem[b].owner = "free"
        /\ mem' = [mem EXCEPT ![b] = [owner |-> "rust", size |-> n]]
    BY <1>2, NifCallsAssumption DEF Unused, Alloc
  <2>3. CallType'
    BY <1>2, <2>1, <2>2 DEF CallInv, CallType
  <2>4. \A c \in Buffers : (mem'[c].owner = "rust") <=> (c \in owned')
    BY <1>2, <2>2 DEF CallInv, CallType, BinariesAreSound
  <2>5. \A v \in views : v.buf \in Buffers /\ v.buf # b
    BY <2>2 DEF CallInv, CallType, BinariesAreSound
  <2>6. \A v \in views' : mem'[v.buf].owner = "vm" /\ v.off + v.len <= mem'[v.buf].size
    BY <1>2, <2>2, <2>5 DEF CallInv, CallType, BinariesAreSound
  <2> QED
    BY <1>2, <2>1, <2>3, <2>4, <2>6 DEF CallInv, BinariesAreSound
<1> QED
  BY <1>1, <1>2 DEF NewOwned

\* A buffer becomes the VM's, and a view of all of it is made.
LEMMA ReleaseOwnedInv ==
  ASSUME CallInv, ReleaseOwned
  PROVE  CallInv'
<1>1. PICK b \in owned :
        /\ mem' = [mem EXCEPT ![b].owner = "vm"] /\ broken' = broken
        /\ owned' = owned \ {b}
        /\ views' = views \cup {[buf |-> b, off |-> 0, len |-> mem[b].size]}
  BY DEF ReleaseOwned, ReleasedFrom
<1>2. call' \in [fun : Funs, args : Seq(ArgKinds), step : Nat] /\ call' # NoCall
  BY StepGoesOn, StepIsInCall DEF ReleaseOwned
<1>3. b \in Buffers /\ mem[b].size \in Nat /\ mem[b].owner = "rust"
  BY DEF CallInv, CallType, BinariesAreSound
<1>4. CallType'
  <2>1. /\ mem \in [Buffers -> [owner : {"free", "rust", "vm"}, size : Nat]]
        /\ owned \in SUBSET Buffers
        /\ views \in SUBSET [buf : Buffers, off : Nat, len : Nat]
    BY DEF CallInv, CallType
  <2>2. mem' \in [Buffers -> [owner : {"free", "rust", "vm"}, size : Nat]]
    BY <1>1, <1>3, <2>1
  <2>3. [buf |-> b, off |-> 0, len |-> mem[b].size] \in [buf : Buffers, off : Nat, len : Nat]
    BY <1>3
  <2> QED
    BY <1>1, <1>2, <2>1, <2>2, <2>3 DEF CallType
<1>5. \A c \in Buffers : (mem'[c].owner = "rust") <=> (c \in owned')
  BY <1>1, <1>3 DEF CallInv, CallType, BinariesAreSound
<1>6. \A v \in views : v.buf \in Buffers /\ v.buf # b
  BY <1>3 DEF CallInv, CallType, BinariesAreSound
<1>7. mem'[b].owner = "vm" /\ mem'[b].size = mem[b].size /\ 0 + mem[b].size <= mem[b].size
  BY <1>1, <1>3 DEF CallInv, CallType
<1>8. \A v \in views : mem'[v.buf].owner = "vm" /\ v.off + v.len <= mem'[v.buf].size
  BY <1>1, <1>6 DEF CallInv, CallType, BinariesAreSound
<1>9. \A v \in views' : mem'[v.buf].owner = "vm" /\ v.off + v.len <= mem'[v.buf].size
  BY <1>1, <1>7, <1>8
<1> QED
  BY <1>1, <1>2, <1>4, <1>5, <1>9 DEF CallInv, BinariesAreSound

\* A buffer that grows or moves is Rust's; no view is of it.
LEMMA ReallocInv ==
  ASSUME CallInv, ReallocOrCopy
  PROVE  CallInv'
<1>1. CASE Unwinds
  BY <1>1, LeaveInv DEF Unwinds
<1>2. call.fun = "any"
  BY DEF ReallocOrCopy
<1>3. ASSUME NEW b \in owned, NEW n \in Sizes, mem' = [mem EXCEPT ![b].size = n],
             NextStep, UNCHANGED <<owned, views, result, broken>>
      PROVE  CallInv'
  <2>1. call' \in [fun : Funs, args : Seq(ArgKinds), step : Nat] /\ call' # NoCall
    BY <1>2, <1>3, StepGoesOn
  <2>2. b \in Buffers /\ mem[b].owner = "rust" /\ n \in Nat
    BY NifCallsAssumption DEF CallInv, CallType, BinariesAreSound
  <2>3. CallType'
    BY <1>3, <2>1, <2>2 DEF CallInv, CallType
  <2>4. \A c \in Buffers : mem'[c].owner = mem[c].owner /\ (c # b => mem'[c] = mem[c])
    BY <1>3, <2>2 DEF CallInv, CallType
  <2>5. \A v \in views : v.buf \in Buffers /\ v.buf # b
    BY <2>2 DEF CallInv, CallType, BinariesAreSound
  <2> QED
    BY <1>3, <2>1, <2>3, <2>4, <2>5 DEF CallInv, BinariesAreSound
<1>4. ASSUME NEW b \in owned, NEW n \in Sizes, NEW c \in Unused,
             mem' = FreedIn(Alloc(mem, c, n), {b}),
             owned' = (owned \ {b}) \cup {c}, NextStep, UNCHANGED <<views, result, broken>>
      PROVE  CallInv'
  <2>1. call' \in [fun : Funs, args : Seq(ArgKinds), step : Nat] /\ call' # NoCall
    BY <1>2, <1>4, StepGoesOn
  <2>2. /\ b \in Buffers /\ mem[b].owner = "rust" /\ n \in Nat
        /\ c \in Buffers /\ mem[c].owner = "free" /\ c # b
    BY NifCallsAssumption DEF CallInv, CallType, BinariesAreSound, Unused
  <2>3. mem' = [d \in Buffers |-> IF d = b THEN FreeBuffer
                                  ELSE IF d = c THEN [owner |-> "rust", size |-> n] ELSE mem[d]]
    <3>1. \A d \in Buffers : Alloc(mem, c, n)[d] =
            IF d = c THEN [owner |-> "rust", size |-> n] ELSE mem[d]
      BY <2>2 DEF CallInv, CallType, Alloc
    <3>2. mem' = [d \in Buffers |-> IF d \in {b} THEN FreeBuffer ELSE Alloc(mem, c, n)[d]]
      BY <1>4 DEF FreedIn
    <3> QED
      BY <3>1, <3>2
  <2>4. FreeBuffer \in [owner : {"free", "rust", "vm"}, size : Nat] /\ FreeBuffer.owner = "free"
    BY DEF FreeBuffer
  <2>5. CallType'
    <3>1. mem' \in [Buffers -> [owner : {"free", "rust", "vm"}, size : Nat]]
      BY <2>2, <2>3, <2>4 DEF CallInv, CallType
    <3> QED
      BY <1>4, <2>1, <2>2, <3>1 DEF CallInv, CallType
  <2>6. ASSUME NEW d \in Buffers PROVE (mem'[d].owner = "rust") <=> (d \in owned')
    <3>1. CASE d = b
      BY <1>4, <2>2, <2>3, <2>4, <3>1
    <3>2. CASE d = c
      BY <1>4, <2>2, <2>3, <3>2
    <3>3. CASE d # b /\ d # c
      <4>1. mem'[d] = mem[d] /\ (d \in owned' <=> d \in owned)
        BY <1>4, <2>3, <3>3
      <4> QED
        BY <4>1 DEF CallInv, BinariesAreSound
    <3> QED
      BY <3>1, <3>2, <3>3
  <2>7. \A v \in views : v.buf \in Buffers /\ v.buf # b /\ v.buf # c
    BY <2>2 DEF CallInv, CallType, BinariesAreSound
  <2>8. \A v \in views' : mem'[v.buf].owner = "vm" /\ v.off + v.len <= mem'[v.buf].size
    BY <1>4, <2>3, <2>7 DEF CallInv, CallType, BinariesAreSound
  <2> QED
    BY <1>4, <2>1, <2>5, <2>6, <2>8 DEF CallInv, BinariesAreSound
<1> QED
  BY <1>1, <1>3, <1>4 DEF ReallocOrCopy

\* A part of a view lies inside it: the sum does not wrap around.
LEMMA MakeSubbinaryInv ==
  ASSUME CallInv, MakeSubbinary
  PROVE  CallInv'
<1>1. CASE Leave("badarg")
  BY <1>1, LeaveInv
<1>2. ASSUME NEW v \in views, NEW off \in 0 .. (Usize - 1), NEW len \in 0 .. (Usize - 1),
             SubFits(v, off, len),
             views' = views \cup {[buf |-> v.buf, off |-> v.off + off, len |-> len]},
             NextStep, UNCHANGED <<mem, owned, result, broken>>
      PROVE  CallInv'
  <2>1. call' \in [fun : Funs, args : Seq(ArgKinds), step : Nat] /\ call' # NoCall
    BY <1>2, StepGoesOn DEF MakeSubbinary
  <2>2. /\ off \in Nat /\ len \in Nat /\ off + len <= v.len
        /\ v.buf \in Buffers /\ v.off \in Nat /\ v.len \in Nat
    BY <1>2, NifCallsAssumption DEF SubFits, CallInv, CallType
  <2>3. mem[v.buf].owner = "vm" /\ v.off + v.len <= mem[v.buf].size /\ mem[v.buf].size \in Nat
    BY <2>2 DEF CallInv, CallType, BinariesAreSound
  <2>4. (v.off + off) + len <= mem[v.buf].size /\ v.off + off \in Nat
    BY <2>2, <2>3
  <2>5. CallType'
    BY <1>2, <2>1, <2>2, <2>4 DEF CallInv, CallType
  <2>6. \A w \in views' : mem'[w.buf].owner = "vm" /\ w.off + w.len <= mem'[w.buf].size
    BY <1>2, <2>3, <2>4 DEF CallInv, BinariesAreSound
  <2> QED
    BY <1>2, <2>1, <2>5, <2>6 DEF CallInv, BinariesAreSound
<1> QED
  BY <1>1, <1>2 DEF MakeSubbinary

LEMMA NextCallInv == CallInv /\ [CallNext]_callVars => CallInv'
<1> SUFFICES ASSUME CallInv, [CallNext]_callVars PROVE CallInv'
  OBVIOUS
<1>1. CASE BeginCall \/ BeginAny
  BY <1>1, BeginInv
<1>2. CASE DecodeBinary \/ FromBytes
  BY <1>2, ArgumentInv
<1>3. CASE NewOwned \/ ReleaseOwned \/ ReallocOrCopy \/ MakeSubbinary
  BY <1>3, NewOwnedInv, ReleaseOwnedInv, ReallocInv, MakeSubbinaryInv
<1>4. CASE FailsItself \/ ReturnsOk
  <2>1. \E how : Leave(how)
    BY <1>4 DEF FailsItself, ReturnsOk, Unwinds, Ends
  <2> QED
    BY <2>1, LeaveInv
<1>5. CASE UNCHANGED callVars
  BY <1>5 DEF callVars, CallInv, CallType, BinariesAreSound
<1> QED
  BY <1>1, <1>2, <1>3, <1>4, <1>5 DEF CallNext, CallStep

\* For any buffers and sizes, and any steps in any order: every buffer has one owner
\* and is freed by it, however the call ends, and a Binary lies inside a buffer that
\* the VM keeps.
THEOREM CallsLeaveBinariesSound == CallSpec => []BinariesAreSound
<1>1. CallInit => CallInv
  BY InitCallInv
<1>2. CallInv /\ [CallNext]_callVars => CallInv'
  BY NextCallInv
<1>3. CallInv => BinariesAreSound
  BY DEF CallInv
<1> QED
  BY <1>1, <1>2, <1>3, PTL DEF CallSpec
-----------------------------------------------------------------------------
(* NifResources *)

Resources ==
  [type : ResourceTypes \cup {"none"}, place : Nat, size : Nat, count : Nat]

ResType ==
  /\ opened \in SUBSET ResourceTypes
  /\ heap \in [Raws -> Resources]
  /\ holders \in [ResourceTypes -> [Raws -> Nat]]
  /\ handles \in [Raws -> Nat]
  /\ decoding \in SUBSET (ResourceTypes \X Raws)

\* NoDanglingReference, of one address
Counted(r) ==
  /\ \A y \in ResourceTypes \ {heap[r].type} : holders[y][r] = 0
  /\ heap[r].count =
       handles[r] + IF heap[r].type = "none" THEN 0 ELSE holders[heap[r].type][r]
  /\ (heap[r].count = 0) <=> (heap[r] = NoRes)

\* A value is where its type puts it, in memory enough.
Placed(r) ==
  IF heap[r].type = "none" THEN heap[r] = NoRes
  ELSE heap[r].place = Aligned(heap[r].type, r) /\ heap[r].size = AllocSize(heap[r].type)

\* What from_term has found is the value of a term that is kept for it.
DecodingInv ==
  /\ \A d, e \in decoding : d = e
  /\ \A d \in decoding : heap[d[2]].type = d[1] /\ handles[d[2]] > 0

\* The inductive invariant
ResInv == ResType /\ (\A r \in Raws : Counted(r) /\ Placed(r)) /\ DecodingInv

LEMMA Division ==
  ASSUME NEW a \in Nat, a > 0, NEW x \in Nat
  PROVE  x \div a \in Nat /\ x % a \in 0 .. (a - 1) /\ x = a * (x \div a) + (x % a)
BY SMT

LEMMA Multiple == ASSUME NEW a \in Nat, a > 0, NEW q \in Nat PROVE (a * q) % a = 0
BY Z3

\* What is missing to the next multiple is added.
LEMMA NextMultiple ==
  ASSUME NEW a \in Nat, a > 0, NEW x \in Nat
  PROVE  /\ (x + (a - (x % a))) % a = 0
         /\ x + (a - (x % a)) \in Nat
         /\ x <= x + (a - (x % a)) /\ x + (a - (x % a)) <= x + a
<1> DEFINE q == x \div a  m == x % a
<1>1. q \in Nat /\ m \in 0 .. (a - 1) /\ x = a * q + m
  BY Division
<1> HIDE DEF q, m
<1>2. a * (q + 1) = a * q + a
  BY <1>1
<1>3. a * q \in Nat
  BY <1>1
<1>4. x + (a - m) = a * (q + 1)
  BY <1>1, <1>2, <1>3
<1>5. (a * (q + 1)) % a = 0
  BY <1>1, Multiple
<1>6. x + (a - m) \in Nat /\ x <= x + (a - m) /\ x + (a - m) <= x + a
  BY <1>1
<1> QED
  BY <1>4, <1>5, <1>6 DEF m

\* A value is aligned, and inside of what is allocated, at any address.
LEMMA AlignedIs ==
  ASSUME NEW y \in ResourceTypes, NEW r \in Raws
  PROVE  /\ Aligned(y, r) \in Nat /\ Aligned(y, r) % Align[y] = 0
         /\ Aligned(y, r) >= r /\ Aligned(y, r) + Size[y] <= r + AllocSize(y)
         /\ AllocSize(y) \in Nat
<1>1. /\ Align[y] \in Nat /\ Align[y] > 0 /\ Size[y] \in Nat /\ r \in Nat
  BY NifResourcesAssumption
<1> DEFINE inner == r + (Align[y] - (r % Align[y]))
<1>2. inner % Align[y] = 0 /\ inner \in Nat /\ r <= inner /\ inner <= r + Align[y]
  BY <1>1, NextMultiple
<1>3. Aligned(y, r) = inner
  BY DEF Aligned
<1> HIDE DEF inner
<1> QED
  BY <1>1, <1>2, <1>3 DEF AllocSize

LEMMA InitResInv == ResInit => ResInv
<1> SUFFICES ASSUME ResInit PROVE ResInv
  OBVIOUS
<1>1. /\ \A r \in Raws : heap[r] = NoRes /\ handles[r] = 0
      /\ \A y \in ResourceTypes, r \in Raws : holders[y][r] = 0
  BY DEF ResInit
<1>2. NoRes \in Resources /\ NoRes.type = "none" /\ NoRes.count = 0
  BY DEF NoRes, Resources
<1>3. ResType
  BY <1>2 DEF ResInit, ResType
<1>4. \A r \in Raws : Counted(r) /\ Placed(r)
  BY <1>1, <1>2 DEF Counted, Placed
<1> QED
  BY <1>3, <1>4 DEF ResInv, DecodingInv, ResInit

\* A ResourceArc is one of the references to a value of its type.
LEMMA HeldIs ==
  ASSUME ResInv, NEW p \in Held
  PROVE  /\ p[1] \in ResourceTypes /\ p[2] \in Raws /\ holders[p[1]][p[2]] > 0
         /\ heap[p[2]].type = p[1] /\ p[1] # "none"
<1>1. p[1] \in ResourceTypes /\ p[2] \in Raws /\ holders[p[1]][p[2]] > 0
  BY DEF Held
<1>2. Counted(p[2]) /\ holders[p[1]][p[2]] \in Nat
  BY <1>1 DEF ResInv, ResType
<1>3. heap[p[2]].type = p[1]
  BY <1>1, <1>2 DEF Counted
<1> QED
  BY <1>1, <1>3, NifResourcesAssumption

\* What happens to the value at one address leaves the others alone.
LEMMA OneAddress ==
  ASSUME ResInv, NEW r \in Raws, ResType', Counted(r)', Placed(r)', DecodingInv',
         \A q \in Raws \ {r} :
           /\ heap'[q] = heap[q] /\ handles'[q] = handles[q]
           /\ \A y \in ResourceTypes : holders'[y][q] = holders[y][q]
  PROVE  ResInv'
<1>1. ASSUME NEW q \in Raws \ {r} PROVE Counted(q)' /\ Placed(q)'
  <2>1. Counted(q) /\ Placed(q)
    BY DEF ResInv
  <2>2. heap[q].type \in ResourceTypes \cup {"none"}
    BY DEF ResInv, ResType, Resources
  <2>3. Counted(q)'
    BY <2>1, <2>2 DEF Counted
  <2>4. Placed(q)'
    BY <2>1 DEF Placed
  <2> QED
    BY <2>3, <2>4
<1> QED
  BY <1>1 DEF ResInv

\* A reference more, counted by the VM
LEMMA KeepRefIs ==
  ASSUME ResInv, NEW r \in Raws, KeepRef(r)
  PROVE  /\ heap' \in [Raws -> Resources]
         /\ heap'[r].type = heap[r].type /\ heap'[r].count = heap[r].count + 1
         /\ heap'[r].place = heap[r].place /\ heap'[r].size = heap[r].size
         /\ heap'[r] # NoRes
         /\ \A q \in Raws \ {r} : heap'[q] = heap[q]
<1>1. heap \in [Raws -> Resources] /\ heap' = [heap EXCEPT ![r].count = @ + 1]
  BY DEF ResInv, ResType, KeepRef
<1>2. /\ heap'[r].type = heap[r].type /\ heap'[r].count = heap[r].count + 1
      /\ heap'[r].place = heap[r].place /\ heap'[r].size = heap[r].size
      /\ \A q \in Raws \ {r} : heap'[q] = heap[q]
  BY <1>1 DEF Resources
<1>3. heap' \in [Raws -> Resources]
  BY <1>1 DEF Resources
<1>4. heap[r].count \in Nat
  BY <1>1 DEF Resources
<1>5. heap'[r] # NoRes
  BY <1>2, <1>4 DEF NoRes
<1> QED
  BY <1>2, <1>3, <1>5

\* A reference less; without any the value is gone.
LEMMA ReleaseRefIs ==
  ASSUME ResInv, NEW r \in Raws, heap[r].count > 0, ReleaseRef(r)
  PROVE  /\ heap' \in [Raws -> Resources]
         /\ heap'[r].count = heap[r].count - 1
         /\ heap[r].count = 1 => heap'[r] = NoRes
         /\ heap[r].count # 1 => /\ heap'[r].type = heap[r].type /\ heap'[r] # NoRes
                                 /\ heap'[r].place = heap[r].place /\ heap'[r].size = heap[r].size
         /\ \A q \in Raws \ {r} : heap'[q] = heap[q]
<1>1. heap \in [Raws -> Resources] /\ heap[r] \in Resources /\ heap[r].count \in Nat
  BY DEF ResInv, ResType, Resources
<1>2. CASE heap[r].count = 1
  <2>1. heap' = [heap EXCEPT ![r] = NoRes]
    BY <1>2 DEF ReleaseRef
  <2>2. NoRes \in Resources /\ NoRes.count = 0
    BY DEF NoRes, Resources
  <2> QED
    BY <1>1, <1>2, <2>1, <2>2
<1>3. CASE heap[r].count # 1
  <2>1. heap' = [heap EXCEPT ![r].count = @ - 1]
    BY <1>3 DEF ReleaseRef
  <2>2. heap[r].count - 1 \in Nat /\ heap[r].count - 1 # 0
    BY <1>1, <1>3
  <2>3. /\ heap'[r].type = heap[r].type /\ heap'[r].count = heap[r].count - 1
        /\ heap'[r].place = heap[r].place /\ heap'[r].size = heap[r].size
        /\ \A q \in Raws \ {r} : heap'[q] = heap[q]
    BY <1>1, <2>1 DEF Resources
  <2>4. heap' \in [Raws -> Resources]
    BY <1>1, <2>1, <2>2 DEF Resources
  <2>5. heap'[r] # NoRes
    <3>1. heap'[r].count # 0 /\ NoRes.count = 0
      BY <2>2, <2>3 DEF NoRes
    <3> QED
      BY <3>1
  <2> QED
    BY <1>3, <2>3, <2>4, <2>5
<1> QED
  BY <1>2, <1>3
LEMMA GainsIs ==
  ASSUME ResType, NEW y \in ResourceTypes, NEW r \in Raws, Gains(y, r)
  PROVE  /\ holders' \in [ResourceTypes -> [Raws -> Nat]]
         /\ holders'[y][r] = holders[y][r] + 1
         /\ \A z \in ResourceTypes, q \in Raws :
              z # y \/ q # r => holders'[z][q] = holders[z][q]
<1>1. holders \in [ResourceTypes -> [Raws -> Nat]]
  BY DEF ResType
<1>2. holders' = [holders EXCEPT ![y] = [holders[y] EXCEPT ![r] = holders[y][r] + 1]]
  BY <1>1 DEF Gains
<1> QED
  BY <1>1, <1>2

\* A ResourceArc more: the value is of its type.
LEMMA GainInv ==
  ASSUME ResInv, NEW y \in ResourceTypes, NEW r \in Raws, heap[r].type = y,
         KeepRef(r), Gains(y, r), UNCHANGED <<opened, handles>>, decoding' \in {decoding, {}}
  PROVE  ResInv'
<1>1. /\ heap' \in [Raws -> Resources]
      /\ heap'[r].type = y /\ heap'[r].count = heap[r].count + 1
      /\ heap'[r].place = heap[r].place /\ heap'[r].size = heap[r].size
      /\ heap'[r] # NoRes
      /\ \A q \in Raws \ {r} : heap'[q] = heap[q]
  BY KeepRefIs
<1>2. /\ holders' \in [ResourceTypes -> [Raws -> Nat]]
      /\ holders'[y][r] = holders[y][r] + 1
      /\ \A z \in ResourceTypes, q \in Raws :
           z # y \/ q # r => holders'[z][q] = holders[z][q]
  BY GainsIs DEF ResInv
<1>3. ResType'
  BY <1>1, <1>2 DEF ResInv, ResType
<1>4. heap[r].count \in Nat /\ handles[r] \in Nat /\ holders[y][r] \in Nat
  BY DEF ResInv, ResType, Resources
<1>5. Counted(r) /\ Placed(r)
  BY DEF ResInv
<1>6. Counted(r)'
  <2>1. y # "none"
    BY NifResourcesAssumption
  <2>2. heap[r].count = handles[r] + holders[y][r]
    BY <1>5, <2>1 DEF Counted
  <2>3. heap'[r].count = handles'[r] + holders'[y][r] /\ heap'[r].count # 0
    BY <1>1, <1>2, <1>4, <2>2
  <2>4. \A z \in ResourceTypes \ {y} : holders'[z][r] = 0
    BY <1>2, <1>5 DEF Counted
  <2> QED
    BY <1>1, <2>1, <2>3, <2>4 DEF Counted
<1>7. Placed(r)'
  BY <1>1, <1>5, NifResourcesAssumption DEF Placed
<1>8. DecodingInv'
  <2>1. \A d \in decoding : d[2] \in Raws /\ heap'[d[2]].type = heap[d[2]].type
    BY <1>1 DEF ResInv, ResType
  <2> QED
    BY <2>1 DEF ResInv, DecodingInv
<1> QED
  BY <1>1, <1>2, <1>3, <1>6, <1>7, <1>8, OneAddress

LEMMA NewResourceInv ==
  ASSUME ResInv, NewResource
  PROVE  ResInv'
<1>1. PICK y \in opened, r \in Raws :
        /\ heap[r] = NoRes
        /\ heap' = [heap EXCEPT ![r] = [type |-> y, place |-> Aligned(y, r),
                                        size |-> AllocSize(y), count |-> 1]]
        /\ Gains(y, r)
  BY DEF NewResource
<1>2. UNCHANGED <<opened, handles, decoding>>
  BY DEF NewResource
<1>3. y \in ResourceTypes /\ y # "none"
  BY NifResourcesAssumption DEF ResInv, ResType
<1>4. Aligned(y, r) \in Nat /\ AllocSize(y) \in Nat
  BY <1>3, AlignedIs
<1>5. /\ holders' \in [ResourceTypes -> [Raws -> Nat]]
      /\ holders'[y][r] = holders[y][r] + 1
      /\ \A z \in ResourceTypes, q \in Raws :
           z # y \/ q # r => holders'[z][q] = holders[z][q]
  BY <1>1, <1>3, GainsIs DEF ResInv
<1>6. /\ heap' \in [Raws -> Resources]
      /\ heap'[r].type = y /\ heap'[r].count = 1
      /\ heap'[r].place = Aligned(y, r) /\ heap'[r].size = AllocSize(y)
      /\ \A q \in Raws \ {r} : heap'[q] = heap[q]
  BY <1>1, <1>3, <1>4 DEF ResInv, ResType, Resources
<1>7. handles[r] = 0 /\ \A z \in ResourceTypes : holders[z][r] = 0
  <2>1. Counted(r) /\ handles[r] \in Nat
    BY DEF ResInv, ResType
  <2>2. heap[r].type = "none" /\ heap[r].count = 0
    BY <1>1 DEF NoRes
  <2>3. handles[r] = 0
    BY <2>1, <2>2 DEF Counted
  <2> QED
    BY <2>1, <2>2, <2>3, NifResourcesAssumption DEF Counted
<1>8. ResType'
  BY <1>2, <1>5, <1>6 DEF ResInv, ResType
<1>9. Counted(r)'
  <2>1. \A z \in ResourceTypes \ {y} : holders'[z][r] = 0
    BY <1>5, <1>7
  <2>2. handles'[r] = 0 /\ holders'[y][r] = 1
    BY <1>2, <1>3, <1>5, <1>7
  <2>3. heap'[r] # NoRes
    <3>1. NoRes.count = 0
      BY DEF NoRes
    <3> QED
      BY <1>6, <3>1
  <2> QED
    BY <1>3, <1>6, <2>1, <2>2, <2>3 DEF Counted
<1>10. Placed(r)'
  BY <1>3, <1>6 DEF Placed
<1>11. DecodingInv'
  <2>1. \A d \in decoding : d[2] \in Raws /\ d[2] # r
    BY <1>7 DEF ResInv, ResType, DecodingInv
  <2> QED
    BY <1>2, <1>6, <2>1 DEF ResInv, DecodingInv
<1> QED
  BY <1>2, <1>5, <1>6, <1>8, <1>9, <1>10, <1>11, OneAddress

LEMMA AsTermInv ==
  ASSUME ResInv, AsTerm
  PROVE  ResInv'
<1>1. PICK p \in Held : KeepRef(p[2]) /\ handles' = [handles EXCEPT ![p[2]] = @ + 1]
  BY DEF AsTerm
<1> DEFINE r == p[2]  y == p[1]
<1>2. y \in ResourceTypes /\ r \in Raws /\ heap[r].type = y /\ y # "none"
  BY HeldIs
<1>3. UNCHANGED <<opened, holders, decoding>>
  BY DEF AsTerm
<1>4. KeepRef(r) /\ handles' = [handles EXCEPT ![r] = @ + 1]
  BY <1>1
<1> HIDE DEF r, y
<1>5. /\ heap' \in [Raws -> Resources]
      /\ heap'[r].type = y /\ heap'[r].count = heap[r].count + 1
      /\ heap'[r].place = heap[r].place /\ heap'[r].size = heap[r].size
      /\ heap'[r] # NoRes
      /\ \A q \in Raws \ {r} : heap'[q] = heap[q]
  BY <1>2, <1>4, KeepRefIs
<1>6. /\ handles' \in [Raws -> Nat] /\ handles'[r] = handles[r] + 1
      /\ \A q \in Raws \ {r} : handles'[q] = handles[q]
  BY <1>2, <1>4 DEF ResInv, ResType
<1>7. ResType'
  BY <1>3, <1>5, <1>6 DEF ResInv, ResType
<1>8. Counted(r) /\ Placed(r)
  BY <1>2 DEF ResInv
<1>9. Counted(r)'
  <2>1. heap[r].count \in Nat /\ handles[r] \in Nat /\ holders[y][r] \in Nat
    BY <1>2 DEF ResInv, ResType, Resources
  <2>2. heap[r].count = handles[r] + holders[y][r]
    BY <1>2, <1>8 DEF Counted
  <2>3. heap'[r].count = handles'[r] + holders'[y][r] /\ heap'[r].count # 0
    BY <1>3, <1>5, <1>6, <2>1, <2>2
  <2> QED
    BY <1>2, <1>3, <1>5, <1>8, <2>3 DEF Counted
<1>10. Placed(r)'
  BY <1>2, <1>5, <1>8 DEF Placed
<1>11. DecodingInv'
  <2>1. \A q \in Raws : heap'[q].type = heap[q].type /\ (handles[q] > 0 => handles'[q] > 0)
    BY <1>2, <1>5, <1>6 DEF ResInv, ResType
  <2>2. \A d \in decoding : d[2] \in Raws
    BY DEF ResInv, ResType
  <2> QED
    BY <1>3, <2>1, <2>2 DEF ResInv, DecodingInv
<1> QED
  BY <1>2, <1>3, <1>5, <1>6, <1>7, <1>9, <1>10, <1>11, OneAddress
\* from_term finds a value of the type asked for, behind a term that is there.
LEMMA FromTermFindsInv ==
  ASSUME ResInv, FromTermFinds
  PROVE  ResInv'
<1>1. PICK r \in Handed, y \in ResourceTypes : decoding' = GetResource(y, r)
  BY DEF FromTermFinds
<1>2. UNCHANGED <<opened, heap, holders, handles>>
  BY DEF FromTermFinds
<1>3. r \in Raws /\ handles[r] > 0
  BY DEF Handed
<1>4. decoding' = {} \/ (decoding' = {<<y, r>>} /\ heap[r].type = y)
  BY <1>1 DEF GetResource
<1>5. ResType'
  BY <1>2, <1>3, <1>4 DEF ResInv, ResType
<1>6. DecodingInv'
  BY <1>2, <1>3, <1>4 DEF DecodingInv
<1>7. \A q \in Raws : Counted(q)' /\ Placed(q)'
  BY <1>2 DEF ResInv, Counted, Placed
<1> QED
  BY <1>5, <1>6, <1>7 DEF ResInv

LEMMA GainStepsInv ==
  ASSUME ResInv, FromTermKeeps \/ CloneArc
  PROVE  ResInv'
<1>1. CASE FromTermKeeps
  <2>1. PICK d \in decoding : KeepRef(d[2]) /\ Gains(d[1], d[2])
    BY <1>1 DEF FromTermKeeps
  <2>2. d[1] \in ResourceTypes /\ d[2] \in Raws /\ heap[d[2]].type = d[1]
    BY DEF ResInv, ResType, DecodingInv
  <2>3. UNCHANGED <<opened, handles>> /\ decoding' \in {decoding, {}}
    BY <1>1 DEF FromTermKeeps
  <2> QED
    BY <2>1, <2>2, <2>3, GainInv
<1>2. CASE CloneArc
  <2>1. PICK p \in Held : KeepRef(p[2]) /\ Gains(p[1], p[2])
    BY <1>2 DEF CloneArc
  <2>2. p[1] \in ResourceTypes /\ p[2] \in Raws /\ heap[p[2]].type = p[1]
    BY HeldIs
  <2>3. UNCHANGED <<opened, handles>> /\ decoding' \in {decoding, {}}
    BY <1>2 DEF CloneArc
  <2> QED
    BY <2>1, <2>2, <2>3, GainInv
<1> QED
  BY <1>1, <1>2

\* A reference less, of a ResourceArc (n = 0) or of a term (n = 1)
LEMMA LossInv ==
  ASSUME ResInv, NEW y \in ResourceTypes, NEW r \in Raws, heap[r].type = y,
         ReleaseRef(r), ResType', heap[r].count > 0,
         handles'[r] + holders'[y][r] = handles[r] + holders[y][r] - 1,
         \A z \in ResourceTypes \ {y} : holders'[z][r] = holders[z][r],
         \A q \in Raws \ {r} : /\ handles'[q] = handles[q]
                               /\ \A z \in ResourceTypes : holders'[z][q] = holders[z][q],
         UNCHANGED decoding,
         \A d \in decoding : d[2] = r => handles'[r] > 0
  PROVE  ResInv'
<1>1. /\ heap'[r].count = heap[r].count - 1
      /\ heap[r].count = 1 => heap'[r] = NoRes
      /\ heap[r].count # 1 => /\ heap'[r].type = y /\ heap'[r] # NoRes
                              /\ heap'[r].place = heap[r].place /\ heap'[r].size = heap[r].size
      /\ \A q \in Raws \ {r} : heap'[q] = heap[q]
  BY ReleaseRefIs
<1>2. Counted(r) /\ Placed(r) /\ y # "none"
  BY NifResourcesAssumption DEF ResInv
<1>3. heap[r].count = handles[r] + holders[y][r]
  BY <1>2 DEF Counted
<1>4. \A z \in ResourceTypes \ {y} : holders'[z][r] = 0
  BY <1>2 DEF Counted
<1>5. /\ heap[r].count \in Nat /\ handles'[r] \in Nat /\ holders'[y][r] \in Nat
      /\ handles[r] \in Nat /\ holders[y][r] \in Nat
  BY DEF ResInv, ResType, Resources
<1>6. heap'[r].count = handles'[r] + holders'[y][r]
  BY <1>1, <1>3, <1>5
<1>7. NoRes.type = "none" /\ NoRes.count = 0
  BY DEF NoRes
<1>8. CASE heap[r].count = 1
  <2>1. handles'[r] = 0 /\ holders'[y][r] = 0
    BY <1>3, <1>5, <1>8
  <2>2. \A z \in ResourceTypes : holders'[z][r] = 0
    BY <1>4, <2>1
  <2>3. Counted(r)' /\ Placed(r)'
    BY <1>1, <1>7, <1>8, <2>1, <2>2 DEF Counted, Placed
  <2>4. DecodingInv'
    <3>1. \A d \in decoding : d[2] \in Raws /\ d[2] # r
      BY <2>1 DEF ResInv, ResType
    <3> QED
      BY <1>1, <3>1 DEF ResInv, DecodingInv
  <2> QED
    BY <1>1, <2>3, <2>4, OneAddress
<1>9. CASE heap[r].count # 1
  <2>1. heap'[r].count # 0
    BY <1>1, <1>5, <1>9
  <2>2. Counted(r)'
    BY <1>1, <1>2, <1>4, <1>6, <1>9, <2>1 DEF Counted
  <2>3. Placed(r)'
    BY <1>1, <1>2, <1>9 DEF Placed
  <2>4. DecodingInv'
    <3>1. \A d \in decoding : d[2] \in Raws /\ heap'[d[2]].type = heap[d[2]].type
      BY <1>1, <1>9 DEF ResInv, ResType
    <3>2. \A d \in decoding : handles'[d[2]] > 0
      BY <3>1 DEF ResInv, DecodingInv
    <3> QED
      BY <3>1, <3>2 DEF ResInv, DecodingInv
  <2> QED
    BY <1>1, <2>2, <2>3, <2>4, OneAddress
<1> QED
  BY <1>8, <1>9

LEMMA DropArcInv ==
  ASSUME ResInv, DropArc
  PROVE  ResInv'
<1>1. PICK p \in Held : /\ ReleaseRef(p[2])
                        /\ holders' = [holders EXCEPT ![p[1]][p[2]] = @ - 1]
  BY DEF DropArc
<1>2. PICK y \in ResourceTypes, r \in Raws : y = p[1] /\ r = p[2]
  BY HeldIs
<1>3. holders[y][r] > 0 /\ heap[r].type = y /\ y # "none"
  BY <1>2, HeldIs
<1>4. ReleaseRef(r) /\ UNCHANGED <<opened, handles, decoding>>
  BY <1>1, <1>2 DEF DropArc
<1>5. /\ holders \in [ResourceTypes -> [Raws -> Nat]]
      /\ holders' = [holders EXCEPT ![y] = [holders[y] EXCEPT ![r] = holders[y][r] - 1]]
  BY <1>1, <1>2 DEF ResInv, ResType
<1>6. /\ handles[r] \in Nat /\ holders[y][r] \in Nat
      /\ heap[r].count = handles[r] + holders[y][r]
  BY <1>3, <1>5 DEF ResInv, ResType, Counted
<1>7. heap[r].count > 0 /\ holders[y][r] - 1 \in Nat
  BY <1>3, <1>6
<1>8. /\ holders' \in [ResourceTypes -> [Raws -> Nat]]
      /\ holders'[y][r] = holders[y][r] - 1
      /\ \A z \in ResourceTypes, q \in Raws :
           z # y \/ q # r => holders'[z][q] = holders[z][q]
  BY <1>5, <1>7
<1>9. ResType'
  BY <1>4, <1>7, <1>8, ReleaseRefIs DEF ResInv, ResType
<1>10. handles'[r] + holders'[y][r] = handles[r] + holders[y][r] - 1
  BY <1>4, <1>6, <1>8
<1>11. \A d \in decoding : d[2] = r => handles'[r] > 0
  BY <1>4 DEF ResInv, DecodingInv
<1>12. /\ \A z \in ResourceTypes \ {y} : holders'[z][r] = holders[z][r]
       /\ \A q \in Raws \ {r} : /\ handles'[q] = handles[q]
                                /\ \A z \in ResourceTypes : holders'[z][q] = holders[z][q]
  BY <1>4, <1>8
<1> QED
  BY <1>3, <1>4, <1>7, <1>9, <1>10, <1>11, <1>12, LossInv

\* The term that a call decodes is not the one that goes.
LEMMA CollectTermInv ==
  ASSUME ResInv, CollectTerm
  PROVE  ResInv'
<1>1. PICK r \in Handed : /\ handles[r] > Cardinality({d \in decoding : d[2] = r})
                          /\ ReleaseRef(r)
                          /\ handles' = [handles EXCEPT ![r] = @ - 1]
  BY DEF CollectTerm
<1>2. UNCHANGED <<opened, holders, decoding>>
  BY DEF CollectTerm
<1>3. r \in Raws /\ handles[r] > 0 /\ Counted(r)
  BY DEF Handed, ResInv
<1>4. handles[r] \in Nat /\ handles \in [Raws -> Nat] /\ holders \in [ResourceTypes -> [Raws -> Nat]]
  BY <1>3 DEF ResInv, ResType
<1>5. heap[r].type \in ResourceTypes
  <2>1. heap[r].type # "none"
    <3> SUFFICES ASSUME heap[r].type = "none" PROVE FALSE
      OBVIOUS
    <3>1. heap[r].count = 0
      BY <1>3 DEF ResInv, Placed, NoRes
    <3>2. heap[r].count = handles[r] + 0
      BY <1>3 DEF Counted
    <3> QED
      BY <1>3, <1>4, <3>1, <3>2
  <2> QED
    BY <1>3, <2>1 DEF ResInv, ResType, Resources
<1> DEFINE y == heap[r].type
<1>6. y \in ResourceTypes /\ y # "none" /\ holders[y][r] \in Nat
  BY <1>3, <1>4, <1>5, NifResourcesAssumption
<1>7. heap[r].count = handles[r] + holders[y][r]
  BY <1>3, <1>6 DEF Counted
<1> HIDE DEF y
<1>8. heap[r].count > 0 /\ handles[r] - 1 \in Nat
  BY <1>3, <1>4, <1>6, <1>7
<1>9. /\ handles' \in [Raws -> Nat] /\ handles'[r] = handles[r] - 1
      /\ \A q \in Raws \ {r} : handles'[q] = handles[q]
  BY <1>1, <1>3, <1>4, <1>8
<1>10. ResType'
  BY <1>1, <1>2, <1>3, <1>8, <1>9, ReleaseRefIs DEF ResInv, ResType
<1>11. handles'[r] + holders'[y][r] = handles[r] + holders[y][r] - 1
  BY <1>2, <1>4, <1>6, <1>9
<1>12. ASSUME NEW d \in decoding, d[2] = r PROVE handles'[r] > 0
  <2>1. {e \in decoding : e[2] = r} = {d}
    BY <1>12 DEF ResInv, DecodingInv
  <2>2. handles[r] > 1
    BY <1>1, <2>1, FS_Singleton
  <2> QED
    BY <1>4, <1>9, <2>2
<1>13. /\ \A z \in ResourceTypes \ {y} : holders'[z][r] = holders[z][r]
       /\ \A q \in Raws \ {r} : /\ handles'[q] = handles[q]
                                /\ \A z \in ResourceTypes : holders'[z][q] = holders[z][q]
  BY <1>2, <1>9
<1>14. ReleaseRef(r) /\ heap[r].type = y /\ UNCHANGED decoding
  BY <1>1, <1>2 DEF y
<1> QED
  BY <1>3, <1>6, <1>8, <1>10, <1>11, <1>12, <1>13, <1>14, LossInv

LEMMA NextResInv == ResInv /\ [ResNext]_resVars => ResInv'
<1> SUFFICES ASSUME ResInv, [ResNext]_resVars PROVE ResInv'
  OBVIOUS
<1>1. CASE OpenType
  <2>1. opened' \in SUBSET ResourceTypes
    BY <1>1 DEF OpenType, OpensType, ResInv, ResType
  <2>2. UNCHANGED <<heap, holders, handles, decoding>>
    BY <1>1 DEF OpenType
  <2> QED
    BY <2>1, <2>2 DEF ResInv, ResType, Counted, Placed, DecodingInv
<1>2. CASE UNCHANGED resVars
  BY <1>2 DEF resVars, ResInv, ResType, Counted, Placed, DecodingInv
<1> QED
  BY <1>1, <1>2, NewResourceInv, AsTermInv, FromTermFindsInv, GainStepsInv, DropArcInv,
     CollectTermInv DEF ResNext

\* Whatever the types, their sizes and the addresses: the VM's count of a value is
\* exactly the ResourceArcs and terms of it, so that the destructor runs with the
\* last one and never before.
THEOREM ResourcesAreKept == ResSpec => []NoDanglingReference
<1>1. ResInit => ResInv
  BY InitResInv
<1>2. ResInv /\ [ResNext]_resVars => ResInv'
  BY NextResInv
<1>3. ResInv => NoDanglingReference
  BY DEF ResInv, Counted, NoDanglingReference
<1> QED
  BY <1>1, <1>2, <1>3, PTL DEF ResSpec

\* For any size, alignment and address: every ResourceArc reads a value of its type,
\* aligned and inside of what was allocated for it.
THEOREM ArcsAreAligned == ResSpec => []ArcReadsWhatWasWritten
<1>1. ResInit => ResInv
  BY InitResInv
<1>2. ResInv /\ [ResNext]_resVars => ResInv'
  BY NextResInv
<1>3. ResInv => ArcReadsWhatWasWritten
  <2> SUFFICES ASSUME ResInv, NEW p \in Held
               PROVE  LET res == heap[p[2]]  inner == Aligned(p[1], p[2]) IN
                      /\ res.type = p[1] /\ res.place = inner
                      /\ inner % Align[p[1]] = 0
                      /\ inner >= p[2] /\ inner + Size[p[1]] <= p[2] + res.size
    BY DEF ArcReadsWhatWasWritten
  <2>1. p[1] \in ResourceTypes /\ p[2] \in Raws /\ heap[p[2]].type = p[1] /\ p[1] # "none"
    BY HeldIs
  <2>2. heap[p[2]].place = Aligned(p[1], p[2]) /\ heap[p[2]].size = AllocSize(p[1])
    BY <2>1 DEF ResInv, Placed
  <2> QED
    BY <2>1, <2>2, AlignedIs
<1> QED
  BY <1>1, <1>2, <1>3, PTL DEF ResSpec
-----------------------------------------------------------------------------
(* NifEnvs *)

EnvType ==
  /\ envs \in [Addrs -> [live : BOOLEAN, fill : Nat]]
  /\ arcs \in [1..MaxArcs -> [addr : Addrs, strong : Int]]
  /\ made \in 0..MaxArcs
  /\ own \in [Threads -> 0..made]
  /\ at \in [Threads -> Places]
  /\ saved \subseteq Saved
  /\ arg \in [Threads -> SUBSET Saved]
  /\ sent \in [Jobs -> Nat]

\* The address of a thread's environment, and whether it has one that is not freed
Address(t) == arcs[own[t]].addr
Has(t) == own[t] # 0 /\ at[t] # "dropping"

\* Every environment that is allocated has one OwnedEnv, and a generation one owner.
OwnersInv ==
  /\ \A t \in Threads : Has(t) => envs[Address(t)].live
  /\ \A t, u \in Threads : t # u /\ own[t] # 0 => own[t] # own[u]
  /\ \A t, u \in Threads : t # u /\ Has(t) /\ Has(u) => Address(t) # Address(u)
  /\ \A a \in Addrs : envs[a].live => \E u \in Threads : Has(u) /\ Address(u) = a

\* A job has answered when its environment goes.
JobsInv ==
  /\ \A t \in Threads : at[t] = "dropping" => own[t] # 0
  /\ \A t \in Jobs : at[t] \in {"dropping", "done"} => sent[t] = 1

\* The inductive invariant, wherever the OwnedEnvs and the saved terms go
EnvInv == EnvType /\ OwnersInv /\ JobsInv

\* A load that is not late: the thread owns the generation of the term, or has the
\* environment of another address, and the comparison will refuse the term.
LoadsInv ==
  /\ \A t \in Threads : at[t] \notin {"loading", "using"} => arg[t] = {}
  /\ \A t \in Threads : \A s \in arg[t] : s \in saved /\ \A r \in arg[t] : r = s
  /\ \A t \in Threads \ late : at[t] = "loading" => \A s \in arg[t] :
       own[t] = s.arc \/ (own[t] # 0 => Address(t) # s.addr)
  /\ \A t \in Threads \ late : at[t] = "using" => \A s \in arg[t] : own[t] = s.arc

\* A saved term is alive while an OwnedEnv has its generation and is not dropped.
SavedInv ==
  \A s \in saved :
    /\ s.arc <= made /\ s.addr = arcs[s.arc].addr
    /\ \A u \in Threads : own[u] = s.arc /\ at[u] # "dropping" => Alive(s)

\* The inductive invariant of the loads that find an Arc in use
OnTimeInv == EnvInv /\ LoadsInv /\ SavedInv

LEMMA AddressType ==
  ASSUME EnvType, NEW t \in Threads
  PROVE  /\ own[t] \in 0..made /\ own[t] \in 0..MaxArcs /\ made \in Nat /\ MaxArcs \in Nat
         /\ own[t] # 0 => own[t] \in 1..MaxArcs /\ own[t] <= made /\ Address(t) \in Addrs
BY NifEnvsAssumption DEF EnvType, Address

LEMMA InitEnvInv == EnvInit => EnvInv
<1> SUFFICES ASSUME EnvInit PROVE EnvInv
  OBVIOUS
<1>1. (CHOOSE a \in Addrs : TRUE) \in Addrs
  BY NifEnvsAssumption
<1>2. EnvType
  BY <1>1, NifEnvsAssumption DEF EnvInit, EnvType, Places
<1>3. \A t \in Threads : own[t] = 0 /\ at[t] = "idle"
  BY DEF EnvInit
<1>4. \A a \in Addrs : ~envs[a].live
  BY DEF EnvInit
<1>5. Jobs \subseteq Threads
  BY NifEnvsAssumption
<1> QED
  BY <1>2, <1>3, <1>4, <1>5 DEF EnvInv, OwnersInv, JobsInv, Has

\* The owners keep their environments.
LEMMA OwnersStay ==
  ASSUME EnvInv, \A a \in Addrs : envs'[a].live = envs[a].live,
         \A u \in Threads : Has(u)' = Has(u) /\ (Has(u) => Address(u)' = Address(u)),
         \A u, v \in Threads : u # v /\ own'[u] # 0 => own'[u] # own'[v]
  PROVE  OwnersInv'
<1>1. \A u \in Threads : Has(u) => Address(u) \in Addrs /\ envs[Address(u)].live
  BY AddressType DEF EnvInv, OwnersInv, Has
<1>2. \A u \in Threads : Has(u)' => envs'[Address(u)'].live
  BY <1>1
<1>3. \A u, v \in Threads : u # v /\ Has(u)' /\ Has(v)' => Address(u)' # Address(v)'
  BY DEF EnvInv, OwnersInv
<1>4. ASSUME NEW a \in Addrs, envs'[a].live
      PROVE  \E u \in Threads : Has(u)' /\ Address(u)' = a
  BY <1>4 DEF EnvInv, OwnersInv
<1> QED
  BY <1>2, <1>3, <1>4 DEF OwnersInv

\* A thread goes from place to place and changes no environment.
LEMMA MoveInv ==
  ASSUME EnvInv, EnvType', NEW t \in Threads, NEW p, at' = [at EXCEPT ![t] = p],
         at[t] # "dropping", p \notin {"dropping", "done"},
         UNCHANGED <<envs, own, sent>>,
         \A g \in 1..MaxArcs : arcs'[g].addr = arcs[g].addr
  PROVE  EnvInv'
<1>1. \A u \in Threads : at'[u] = IF u = t THEN p ELSE at[u]
  BY DEF EnvInv, EnvType
<1>2. \A u \in Threads : Has(u)' = Has(u)
  BY <1>1 DEF Has
<1>3. \A u \in Threads : Has(u) => Address(u)' = Address(u)
  BY AddressType DEF EnvInv, Has, Address
<1>4. \A u, v \in Threads : u # v /\ own'[u] # 0 => own'[u] # own'[v]
  BY DEF EnvInv, OwnersInv
<1>5. OwnersInv'
  BY <1>2, <1>3, <1>4, OwnersStay
<1>6. Jobs \subseteq Threads
  BY NifEnvsAssumption
<1>7. JobsInv'
  BY <1>1, <1>6 DEF EnvInv, JobsInv
<1> QED
  BY <1>5, <1>7 DEF EnvInv

\* A strong reference more or less leaves the address of the generation.
LEMMA StrongIs ==
  ASSUME EnvType, NEW g \in 1..MaxArcs, NEW n \in Int,
         arcs' = [arcs EXCEPT ![g].strong = n]
  PROVE  /\ arcs' \in [1..MaxArcs -> [addr : Addrs, strong : Int]]
         /\ \A h \in 1..MaxArcs : arcs'[h].addr = arcs[h].addr
         /\ arcs'[g].strong = n
         /\ \A h \in 1..MaxArcs : h # g => arcs'[h] = arcs[h]
BY DEF EnvType

\* The next generation of a thread's environment
LEMMA GenerationIs ==
  ASSUME EnvType, NEW t \in Threads, own[t] # 0, NewGeneration(t)
  PROVE  /\ arcs' \in [1..MaxArcs -> [addr : Addrs, strong : Int]]
         /\ made' = made + 1 /\ made' \in 1..MaxArcs
         /\ own' \in [Threads -> 0..made']
         /\ own'[t] = made + 1 /\ \A u \in Threads \ {t} : own'[u] = own[u]
         /\ arcs'[made + 1] = [addr |-> Address(t), strong |-> 1]
         /\ arcs'[own[t]].strong = arcs[own[t]].strong - 1
         /\ \A g \in 1..made : arcs'[g].addr = arcs[g].addr
         /\ \A g \in 1..MaxArcs : g # own[t] /\ g # made + 1 => arcs'[g] = arcs[g]
<1>1. /\ made \in Nat /\ MaxArcs \in Nat /\ own[t] \in 1..MaxArcs /\ own[t] <= made
      /\ Address(t) \in Addrs
  BY AddressType
<1>2. /\ made < MaxArcs /\ made' = made + 1
      /\ own' = [own EXCEPT ![t] = made + 1]
      /\ arcs' = [arcs EXCEPT ![own[t]].strong = @ - 1,
                              ![made + 1] = [addr |-> Address(t), strong |-> 1]]
  BY DEF NewGeneration, Address
<1>3. /\ arcs \in [1..MaxArcs -> [addr : Addrs, strong : Int]]
      /\ own \in [Threads -> 0..made]
  BY DEF EnvType
<1>4. made + 1 \in 1..MaxArcs /\ own[t] # made + 1 /\ made' \in 1..MaxArcs
      /\ 0..made \subseteq 0..made' /\ made + 1 \in 0..made' /\ 1..made \subseteq 1..MaxArcs
      /\ \A g \in 1..made : g # made + 1
  BY <1>1, <1>2
<1>5. /\ own' \in [Threads -> 0..made']
      /\ own'[t] = made + 1 /\ \A u \in Threads \ {t} : own'[u] = own[u]
  BY <1>2, <1>3, <1>4
<1> DEFINE old == [arcs[own[t]] EXCEPT !.strong = @ - 1]
           new == [addr |-> Address(t), strong |-> 1]
<1>6. /\ old \in [addr : Addrs, strong : Int] /\ old.addr = arcs[own[t]].addr
      /\ old.strong = arcs[own[t]].strong - 1
  BY <1>1, <1>3
<1>7. new \in [addr : Addrs, strong : Int]
  BY <1>1
<1>8. arcs' = [g \in 1..MaxArcs |-> IF g = made + 1 THEN new
                                    ELSE IF g = own[t] THEN old ELSE arcs[g]]
  BY <1>1, <1>2, <1>3, <1>4
<1> HIDE DEF old
<1>9. arcs' \in [1..MaxArcs -> [addr : Addrs, strong : Int]]
  BY <1>3, <1>6, <1>7, <1>8
<1>10. /\ arcs'[made + 1] = new /\ arcs'[own[t]] = old
       /\ \A g \in 1..MaxArcs : g # own[t] /\ g # made + 1 => arcs'[g] = arcs[g]
  BY <1>1, <1>4, <1>8
<1>11. \A g \in 1..made : arcs'[g].addr = arcs[g].addr
  BY <1>4, <1>6, <1>10
<1> QED
  BY <1>2, <1>4, <1>5, <1>6, <1>9, <1>10, <1>11
\* The owner of the next generation is the one of the last, at the same address.
LEMMA GenerationInv ==
  ASSUME EnvInv, NEW t \in Threads, own[t] # 0, at[t] # "dropping", NewGeneration(t),
         EnvType', NEW p, at' = [at EXCEPT ![t] = p], p \notin {"dropping", "done"},
         \A a \in Addrs : envs'[a].live = envs[a].live,
         \A j \in Jobs :
        sent'[j] = sent[j] \/ (sent[j] = 0 /\ at[j] \notin {"dropping", "done"})
  PROVE  EnvInv'
<1>1. /\ made' = made + 1
      /\ own'[t] = made + 1 /\ \A u \in Threads \ {t} : own'[u] = own[u]
      /\ arcs'[made + 1] = [addr |-> Address(t), strong |-> 1]
      /\ \A g \in 1..made : arcs'[g].addr = arcs[g].addr
  BY GenerationIs DEF EnvInv
<1>2. \A u \in Threads : at'[u] = IF u = t THEN p ELSE at[u]
  BY DEF EnvInv, EnvType
<1>3. \A u \in Threads : /\ own[u] \in 0..made /\ made \in Nat
                         /\ own[u] # made + 1 /\ (own[u] # 0 => own[u] \in 1..made)
  BY AddressType DEF EnvInv
<1>4. Has(t) /\ Has(t)'
  BY <1>1, <1>2, <1>3 DEF Has
<1>12. Has(t)' = Has(t)
  BY <1>4 DEF Has
<1>5. \A u \in Threads \ {t} : Has(u)' = Has(u)
  BY <1>1, <1>2 DEF Has
<1>6. Address(t)' = Address(t)
  BY <1>1 DEF Address
<1>7. \A u \in Threads \ {t} : Has(u) => Address(u)' = Address(u)
  BY <1>1, <1>3 DEF Has, Address
<1>8. \A u, v \in Threads : u # v /\ own'[u] # 0 => own'[u] # own'[v]
  <2> SUFFICES ASSUME NEW u \in Threads, NEW v \in Threads, u # v, own'[u] # 0
               PROVE  own'[u] # own'[v]
    OBVIOUS
  <2>1. CASE u = t \/ v = t
    BY <1>1, <1>3, <2>1
  <2>2. CASE u # t /\ v # t
    BY <1>1, <2>2 DEF EnvInv, OwnersInv
  <2> QED
    BY <2>1, <2>2
<1>9. OwnersInv'
  <2>1. \A u \in Threads : Has(u)' = Has(u) /\ (Has(u) => Address(u)' = Address(u))
    BY <1>5, <1>6, <1>7, <1>12
  <2> QED
    BY <1>8, <2>1, OwnersStay
<1>10. Jobs \subseteq Threads
  BY NifEnvsAssumption
<1>11. JobsInv'
  <2>1. \A u \in Threads : at'[u] = "dropping" => own'[u] # 0
    BY <1>1, <1>2, <1>3 DEF EnvInv, JobsInv
  <2>2. ASSUME NEW j \in Jobs, at'[j] \in {"dropping", "done"} PROVE sent'[j] = 1
    <3>1. j # t /\ at'[j] = at[j]
      BY <1>2, <1>10, <2>2
    <3> QED
      BY <2>2, <3>1 DEF EnvInv, JobsInv
  <2> QED
    BY <2>1, <2>2 DEF JobsInv
<1> QED
  BY <1>9, <1>11 DEF EnvInv

\* A free address becomes a thread's.
LEMMA NewEnvIs ==
  ASSUME EnvType, NEW t \in Threads, NewEnv(t)
  PROVE  \E a \in Addrs :
    /\ ~envs[a].live /\ envs'[a].live
    /\ \A b \in Addrs \ {a} : envs'[b] = envs[b]
    /\ envs' \in [Addrs -> [live : BOOLEAN, fill : Nat]]
    /\ made' = made + 1 /\ made' \in 1..MaxArcs
    /\ own[t] = 0 /\ own' \in [Threads -> 0..made']
    /\ own'[t] = made + 1 /\ \A u \in Threads \ {t} : own'[u] = own[u]
    /\ arcs' \in [1..MaxArcs -> [addr : Addrs, strong : Int]]
    /\ arcs'[made + 1] = [addr |-> a, strong |-> 1]
    /\ \A g \in 1..MaxArcs : g # made + 1 => arcs'[g] = arcs[g]
<1>1. PICK a \in Addrs :
        /\ ~envs[a].live
        /\ envs' = [envs EXCEPT ![a] = [live |-> TRUE, fill |-> @.fill + 1]]
        /\ arcs' = [arcs EXCEPT ![made + 1] = [addr |-> a, strong |-> 1]]
  BY DEF NewEnv
<1>2. made < MaxArcs /\ made' = made + 1 /\ own' = [own EXCEPT ![t] = made + 1] /\ own[t] = 0
  BY DEF NewEnv
<1>3. made \in Nat /\ MaxArcs \in Nat
  BY AddressType
<1>4. made + 1 \in 1..MaxArcs /\ made' \in 1..MaxArcs /\ 0..made \subseteq 0..made'
      /\ made + 1 \in 0..made'
  BY <1>2, <1>3
<1>5. /\ envs' \in [Addrs -> [live : BOOLEAN, fill : Nat]] /\ envs'[a].live
      /\ \A b \in Addrs \ {a} : envs'[b] = envs[b]
  BY <1>1 DEF EnvType
<1>6. /\ own' \in [Threads -> 0..made']
      /\ own'[t] = made + 1 /\ \A u \in Threads \ {t} : own'[u] = own[u]
  BY <1>2, <1>4 DEF EnvType
<1>7. /\ arcs' \in [1..MaxArcs -> [addr : Addrs, strong : Int]]
      /\ arcs'[made + 1] = [addr |-> a, strong |-> 1]
      /\ \A g \in 1..MaxArcs : g # made + 1 => arcs'[g] = arcs[g]
  BY <1>1, <1>4 DEF EnvType
<1> QED
  BY <1>1, <1>2, <1>4, <1>5, <1>6, <1>7

LEMMA NewEnvInv ==
  ASSUME EnvInv, NEW t \in Threads, NewEnv(t)
  PROVE  EnvInv'
<1>1. PICK a \in Addrs :
        /\ ~envs[a].live /\ envs'[a].live
        /\ \A b \in Addrs \ {a} : envs'[b] = envs[b]
        /\ envs' \in [Addrs -> [live : BOOLEAN, fill : Nat]]
        /\ made' = made + 1 /\ made' \in 1..MaxArcs
        /\ own[t] = 0 /\ own' \in [Threads -> 0..made']
        /\ own'[t] = made + 1 /\ \A u \in Threads \ {t} : own'[u] = own[u]
        /\ arcs' \in [1..MaxArcs -> [addr : Addrs, strong : Int]]
        /\ arcs'[made + 1] = [addr |-> a, strong |-> 1]
        /\ \A g \in 1..MaxArcs : g # made + 1 => arcs'[g] = arcs[g]
  BY NewEnvIs DEF EnvInv
<1>2. at[t] = "idle" /\ UNCHANGED <<at, arg, saved, sent>>
  BY DEF NewEnv
<1>3. EnvType'
  BY <1>1, <1>2 DEF EnvInv, EnvType
<1>4. \A u \in Threads : /\ own[u] \in 0..made /\ made \in Nat
                         /\ own[u] # made + 1 /\ (own[u] # 0 => own[u] \in 1..MaxArcs)
  BY AddressType DEF EnvInv
<1>5. Has(t)' /\ Address(t)' = a
  BY <1>1, <1>2, <1>4 DEF Has, Address
<1>6. \A u \in Threads \ {t} : /\ Has(u)' = Has(u)
                               /\ Has(u) => Address(u)' = Address(u)
  BY <1>1, <1>2, <1>4 DEF Has, Address
<1>7. \A u \in Threads : Has(u) => u # t /\ Address(u) \in Addrs /\ Address(u) # a
  BY <1>1, AddressType DEF Has, EnvInv, OwnersInv
<1>8. OwnersInv'
  <2>1. \A u \in Threads : Has(u)' => envs'[Address(u)'].live
    BY <1>1, <1>5, <1>6, <1>7 DEF EnvInv, OwnersInv
  <2>2. \A u, v \in Threads : u # v /\ own'[u] # 0 => own'[u] # own'[v]
    <3> SUFFICES ASSUME NEW u \in Threads, NEW v \in Threads, u # v, own'[u] # 0
                 PROVE  own'[u] # own'[v]
      OBVIOUS
    <3>1. CASE u = t \/ v = t
      BY <1>1, <1>4, <3>1
    <3>2. CASE u # t /\ v # t
      BY <1>1, <3>2 DEF EnvInv, OwnersInv
    <3> QED
      BY <3>1, <3>2
  <2>3. \A u, v \in Threads : u # v /\ Has(u)' /\ Has(v)' => Address(u)' # Address(v)'
    BY <1>5, <1>6, <1>7 DEF EnvInv, OwnersInv
  <2>4. ASSUME NEW b \in Addrs, envs'[b].live
        PROVE  \E u \in Threads : Has(u)' /\ Address(u)' = b
    <3>1. CASE b = a
      BY <1>5, <3>1
    <3>2. CASE b # a
      <4>1. PICK u \in Threads : Has(u) /\ Address(u) = b
        BY <1>1, <2>4, <3>2 DEF EnvInv, OwnersInv
      <4> QED
        BY <1>6, <1>7, <4>1
    <3> QED
      BY <3>1, <3>2
  <2> QED
    BY <2>1, <2>2, <2>3, <2>4 DEF OwnersInv
<1>9. JobsInv'
  BY <1>1, <1>2, <1>4 DEF EnvInv, JobsInv
<1> QED
  BY <1>3, <1>8, <1>9 DEF EnvInv
\* drop frees the environment; the thread gives its generation up afterwards.
LEMMA DropInv ==
  ASSUME EnvInv, NEW t \in Threads, DropFrees(t) \/ DropReleases(t)
  PROVE  EnvInv'
<1>0. Jobs \subseteq Threads
  BY NifEnvsAssumption
<1>1. CASE DropFrees(t)
  <2> DEFINE a == Address(t)
  <2>1. /\ own[t] # 0 /\ at[t] = "idle" /\ (t \in Jobs => sent[t] = 1)
        /\ envs' = [envs EXCEPT ![a].live = FALSE]
        /\ at' = [at EXCEPT ![t] = "dropping"]
        /\ UNCHANGED <<arcs, made, own, arg, saved, sent>>
    BY <1>1 DEF DropFrees, Address
  <2>2. a \in Addrs /\ Has(t)
    BY <2>1, AddressType DEF EnvInv, Has
  <2> HIDE DEF a
  <2>3. /\ envs' \in [Addrs -> [live : BOOLEAN, fill : Nat]] /\ ~envs'[a].live
        /\ \A b \in Addrs \ {a} : envs'[b] = envs[b]
    BY <2>1, <2>2 DEF EnvInv, EnvType
  <2>4. \A u \in Threads : at'[u] = IF u = t THEN "dropping" ELSE at[u]
    BY <2>1 DEF EnvInv, EnvType
  <2>5. EnvType'
    BY <2>1, <2>3 DEF EnvInv, EnvType, Places
  <2>6. \A u \in Threads : /\ Has(u)' <=> (Has(u) /\ u # t)
                           /\ Address(u)' = Address(u)
    BY <2>1, <2>4 DEF Has, Address
  <2>7. \A u \in Threads \ {t} : Has(u) => Address(u) # a /\ Address(u) \in Addrs
    BY <2>2, AddressType DEF EnvInv, OwnersInv, Has, a
  <2>8. OwnersInv'
    <3>1. \A u \in Threads : Has(u)' => envs'[Address(u)'].live
      BY <2>3, <2>6, <2>7 DEF EnvInv, OwnersInv
    <3>2. \A u, v \in Threads : u # v /\ own'[u] # 0 => own'[u] # own'[v]
      BY <2>1 DEF EnvInv, OwnersInv
    <3>3. \A u, v \in Threads : u # v /\ Has(u)' /\ Has(v)' => Address(u)' # Address(v)'
      BY <2>6 DEF EnvInv, OwnersInv
    <3>4. ASSUME NEW b \in Addrs, envs'[b].live
          PROVE  \E u \in Threads : Has(u)' /\ Address(u)' = b
      <4>1. b # a /\ envs[b].live
        BY <2>3, <3>4
      <4>2. PICK u \in Threads : Has(u) /\ Address(u) = b
        BY <4>1 DEF EnvInv, OwnersInv
      <4>3. u # t
        BY <4>1, <4>2 DEF a
      <4> QED
        BY <2>6, <4>2, <4>3
    <3> QED
      BY <3>1, <3>2, <3>3, <3>4 DEF OwnersInv
  <2>9. JobsInv'
    BY <1>0, <2>1, <2>4 DEF EnvInv, JobsInv
  <2> QED
    BY <2>5, <2>8, <2>9 DEF EnvInv
<1>2. CASE DropReleases(t)
  <2>1. /\ at[t] = "dropping" /\ own' = [own EXCEPT ![t] = 0]
        /\ at' = [at EXCEPT ![t] = IF t \in Jobs THEN "done" ELSE "idle"]
        /\ arcs' = [arcs EXCEPT ![own[t]].strong = @ - 1]
        /\ UNCHANGED <<envs, made, arg, saved, sent>>
    BY <1>2 DEF DropReleases
  <2>2. own[t] \in 1..MaxArcs /\ ~Has(t)
    BY <2>1, AddressType DEF EnvInv, JobsInv, Has
  <2>3. /\ arcs' \in [1..MaxArcs -> [addr : Addrs, strong : Int]]
        /\ \A h \in 1..MaxArcs : arcs'[h].addr = arcs[h].addr
    <3>1. arcs[own[t]].strong - 1 \in Int
      BY <2>2 DEF EnvInv, EnvType
    <3> QED
      BY <2>1, <2>2, <3>1, StrongIs DEF EnvInv
  <2>4. \A u \in Threads : own'[u] = IF u = t THEN 0 ELSE own[u]
    BY <2>1 DEF EnvInv, EnvType
  <2>5. \A u \in Threads : u # t => at'[u] = at[u]
    BY <2>1 DEF EnvInv, EnvType
  <2>6. at'[t] = IF t \in Jobs THEN "done" ELSE "idle"
    BY <2>1 DEF EnvInv, EnvType
  <2>7. EnvType'
    <3>1. own' \in [Threads -> 0..made'] /\ at' \in [Threads -> Places]
      BY <2>1, AddressType DEF EnvInv, EnvType, Places
    <3> QED
      BY <2>1, <2>3, <3>1 DEF EnvInv, EnvType
  <2>8. ~Has(t)' /\ Has(t)' = Has(t)
    BY <2>2, <2>4 DEF Has
  <2>9. \A u \in Threads : Has(u)' = Has(u)
    BY <2>4, <2>5, <2>8 DEF Has
  <2>10. \A u \in Threads : Has(u) => Address(u)' = Address(u)
    BY <2>2, <2>3, <2>4, AddressType DEF EnvInv, Has, Address
  <2>11. \A u, v \in Threads : u # v /\ own'[u] # 0 => own'[u] # own'[v]
    BY <2>4 DEF EnvInv, OwnersInv
  <2>12. OwnersInv'
    BY <2>1, <2>9, <2>10, <2>11, OwnersStay
  <2>13. JobsInv'
    <3>1. \A u \in Threads : at'[u] = "dropping" => own'[u] # 0
      BY <2>4, <2>5, <2>6 DEF EnvInv, JobsInv
    <3>2. \A u \in Jobs : at'[u] \in {"dropping", "done"} => sent'[u] = 1
      BY <1>0, <2>1, <2>5 DEF EnvInv, JobsInv
    <3> QED
      BY <3>1, <3>2 DEF JobsInv
  <2> QED
    BY <2>7, <2>12, <2>13 DEF EnvInv
<1> QED
  BY <1>1, <1>2
LEMMA RefillIs ==
  ASSUME EnvType, NEW a \in Addrs, Refill(a)
  PROVE  /\ envs' \in [Addrs -> [live : BOOLEAN, fill : Nat]]
         /\ \A b \in Addrs : envs'[b].live = envs[b].live
         /\ \A b \in Addrs \ {a} : envs'[b] = envs[b]
<1> DEFINE filled == [envs[a] EXCEPT !.fill = @ + 1]
<1>1. envs \in [Addrs -> [live : BOOLEAN, fill : Nat]] /\ envs' = [envs EXCEPT ![a] = filled]
  BY DEF EnvType, Refill
<1>2. filled \in [live : BOOLEAN, fill : Nat] /\ filled.live = envs[a].live
  BY <1>1
<1> HIDE DEF filled
<1> QED
  BY <1>1, <1>2

\* clear, and send_and_clear
LEMMA ClearsInv ==
  ASSUME EnvInv, NEW t \in Threads, Clear(t) \/ SendAndClear(t)
  PROVE  EnvInv'
<1>1. /\ own[t] # 0 /\ at[t] \in {"idle", "using"} /\ NewGeneration(t)
      /\ Refill(Address(t)) \/ UNCHANGED envs
      /\ saved' = saved
  BY DEF Clear, SendAndClear, Address
<1>2. Address(t) \in Addrs
  BY <1>1, AddressType DEF EnvInv
<1>3. /\ envs' \in [Addrs -> [live : BOOLEAN, fill : Nat]]
      /\ \A b \in Addrs : envs'[b].live = envs[b].live
  <2>1. CASE Refill(Address(t))
    BY <1>2, <2>1, RefillIs DEF EnvInv
  <2>2. CASE UNCHANGED envs
    BY <2>2 DEF EnvInv, EnvType
  <2> QED
    BY <1>1, <2>1, <2>2
<1>4. /\ arcs' \in [1..MaxArcs -> [addr : Addrs, strong : Int]]
      /\ made' \in 0..MaxArcs /\ own' \in [Threads -> 0..made']
  <2>1. /\ arcs' \in [1..MaxArcs -> [addr : Addrs, strong : Int]]
        /\ made' \in 1..MaxArcs /\ own' \in [Threads -> 0..made']
    BY <1>1, GenerationIs DEF EnvInv
  <2> QED
    BY <2>1, NifEnvsAssumption
<1>5. /\ at' = [at EXCEPT ![t] = "idle"] /\ at' \in [Threads -> Places]
      /\ arg' \in [Threads -> SUBSET Saved]
  <2>1. CASE Clear(t)
    BY <2>1 DEF Clear, EnvInv, EnvType
  <2>2. CASE SendAndClear(t)
    BY <2>2 DEF SendAndClear, EnvInv, EnvType, Places
  <2> QED
    BY <2>1, <2>2
<1>6. /\ sent' \in [Jobs -> Nat]
      /\ \A j \in Jobs :
        sent'[j] = sent[j] \/ (sent[j] = 0 /\ at[j] \notin {"dropping", "done"})
  <2>1. CASE sent' = sent
    BY <2>1 DEF EnvInv, EnvType
  <2>2. CASE t \in Jobs /\ sent[t] = 0 /\ sent' = [sent EXCEPT ![t] = @ + 1]
    BY <1>1, <2>2 DEF EnvInv, EnvType
  <2> QED
    BY <2>1, <2>2 DEF Clear, SendAndClear
<1>7. EnvType'
  BY <1>1, <1>3, <1>4, <1>5, <1>6 DEF EnvInv, EnvType
<1>8. /\ own[t] # 0 /\ at[t] # "dropping" /\ NewGeneration(t) /\ EnvType'
      /\ at' = [at EXCEPT ![t] = "idle"] /\ "idle" \notin {"dropping", "done"}
      /\ \A b \in Addrs : envs'[b].live = envs[b].live
      /\ \A j \in Jobs :
           sent'[j] = sent[j] \/ (sent[j] = 0 /\ at[j] \notin {"dropping", "done"})
  BY <1>1, <1>3, <1>5, <1>6, <1>7
<1> QED
  BY <1>8, GenerationInv

LEMMA SaveInv ==
  ASSUME EnvInv, NEW t \in Threads, Save(t)
  PROVE  EnvInv'
<1>1. /\ at[t] = "idle" /\ own[t] # 0 /\ UNCHANGED <<envs, arcs, made, own, at, arg, sent>>
      /\ saved' = saved \cup {[arc |-> own[t], addr |-> Address(t), fill |-> envs[Address(t)].fill]}
  BY DEF Save, Address
<1>2. [arc |-> own[t], addr |-> Address(t), fill |-> envs[Address(t)].fill] \in Saved
  <2>1. own[t] \in 1..MaxArcs /\ Address(t) \in Addrs
    BY <1>1, AddressType DEF EnvInv
  <2> QED
    BY <2>1 DEF Saved, EnvInv, EnvType
<1>3. EnvType'
  BY <1>1, <1>2 DEF EnvInv, EnvType
<1>4. UNCHANGED <<envs, arcs, own, at, sent>>
  BY <1>1
<1> QED
  BY <1>3, <1>4 DEF EnvInv, OwnersInv, JobsInv, Has, Address

\* An OwnedEnv goes from one thread to another, with its generation and its address.
LEMMA OwnerMovesIs ==
  ASSUME EnvInv, NEW t \in Threads, NEW u \in Threads, MoveEnv(t, u)
  PROVE  /\ t # u /\ own[t] # 0 /\ own[u] = 0 /\ at[t] = "idle" /\ at[u] = "idle"
         /\ \A v \in Threads :
              own'[v] = IF v = u THEN own[t] ELSE IF v = t THEN 0 ELSE own[v]
         /\ own' \in [Threads -> 0..made]
         /\ UNCHANGED <<envs, arcs, made, at, arg, saved, sent, late>>
<1>1. /\ own[t] # 0 /\ own[u] = 0 /\ at[t] = "idle" /\ at[u] = "idle"
      /\ own' = [own EXCEPT ![u] = own[t], ![t] = 0]
      /\ UNCHANGED <<envs, arcs, made, at, arg, saved, sent, late>>
  BY DEF MoveEnv
<1>2. own \in [Threads -> 0..made] /\ 0 \in 0..made /\ t # u
  BY <1>1, AddressType DEF EnvInv, EnvType
<1> QED
  BY <1>1, <1>2

LEMMA OwnerMovesInv ==
  ASSUME EnvInv, NEW t \in Threads, \E u \in Threads : MoveEnv(t, u)
  PROVE  EnvInv'
<1>1. PICK u \in Threads : MoveEnv(t, u)
  OBVIOUS
<1>2. /\ t # u /\ own[t] # 0 /\ own[u] = 0 /\ at[t] = "idle" /\ at[u] = "idle"
      /\ \A v \in Threads :
           own'[v] = IF v = u THEN own[t] ELSE IF v = t THEN 0 ELSE own[v]
      /\ own' \in [Threads -> 0..made]
      /\ UNCHANGED <<envs, arcs, made, at, arg, saved, sent, late>>
  BY <1>1, OwnerMovesIs
<1>3. EnvType'
  BY <1>2 DEF EnvInv, EnvType
<1>4. /\ Has(t) /\ ~Has(u) /\ ~Has(t)' /\ Has(u)' /\ Address(u)' = Address(t)
  BY <1>2 DEF Has, Address
<1>5. \A v \in Threads \ {t, u} : Has(v)' = Has(v) /\ Address(v)' = Address(v)
  BY <1>2 DEF Has, Address
<1>6. \A v, w \in Threads : v # w /\ own'[v] # 0 => own'[v] # own'[w]
  <2> SUFFICES ASSUME NEW v \in Threads, NEW w \in Threads, v # w, own'[v] # 0
               PROVE  own'[v] # own'[w]
    OBVIOUS
  <2>1. \A x, y \in Threads : x # y /\ own[x] # 0 => own[x] # own[y]
    BY DEF EnvInv, OwnersInv
  <2>2. CASE v = u
    BY <1>2, <2>1, <2>2
  <2>3. CASE v # u
    BY <1>2, <2>1, <2>3
  <2> QED
    BY <2>2, <2>3
<1>7. \A v, w \in Threads : v # w /\ Has(v)' /\ Has(w)' => Address(v)' # Address(w)'
  <2>1. \A v, w \in Threads : v # w /\ Has(v) /\ Has(w) => Address(v) # Address(w)
    BY DEF EnvInv, OwnersInv
  <2> QED
    BY <1>4, <1>5, <2>1
<1>8. \A v \in Threads : Has(v)' => envs'[Address(v)'].live
  BY <1>2, <1>4, <1>5 DEF EnvInv, OwnersInv
<1>9. ASSUME NEW a \in Addrs, envs'[a].live
      PROVE  \E v \in Threads : Has(v)' /\ Address(v)' = a
  <2>1. PICK v \in Threads : Has(v) /\ Address(v) = a
    BY <1>2, <1>9 DEF EnvInv, OwnersInv
  <2> QED
    BY <1>4, <1>5, <2>1
<1>10. OwnersInv'
  BY <1>6, <1>7, <1>8, <1>9 DEF OwnersInv
<1>11. JobsInv'
  BY <1>2 DEF EnvInv, JobsInv
<1> QED
  BY <1>3, <1>10, <1>11 DEF EnvInv

LEMMA LoadUpgradesInv ==
  ASSUME EnvInv, NEW t \in Threads, LoadUpgrades(t)
  PROVE  EnvInv'
<1>1. at[t] = "idle" /\ UNCHANGED <<envs, made, own, saved, sent>>
  BY DEF LoadUpgrades
<1>2. PICK s \in saved :
        \/ /\ at' = [at EXCEPT ![t] = Panicked(t)] /\ UNCHANGED <<arcs, arg>>
        \/ /\ at' = [at EXCEPT ![t] = "loading"] /\ arg' = [arg EXCEPT ![t] = {s}]
           /\ arcs' = [arcs EXCEPT ![s.arc].strong = @ + 1]
  BY DEF LoadUpgrades
<1>3. s \in Saved /\ s.arc \in 1..MaxArcs /\ arcs[s.arc].strong + 1 \in Int
  BY DEF EnvInv, EnvType, Saved
<1>4. CASE at' = [at EXCEPT ![t] = Panicked(t)] /\ UNCHANGED <<arcs, arg>>
  <2>1. Panicked(t) \in {"panicked", "idle"}
    BY DEF Panicked
  <2>2. EnvType'
    BY <1>1, <1>4, <2>1 DEF EnvInv, EnvType, Places
  <2> QED
    BY <1>1, <1>4, <2>1, <2>2, MoveInv
<1>5. CASE /\ at' = [at EXCEPT ![t] = "loading"] /\ arg' = [arg EXCEPT ![t] = {s}]
           /\ arcs' = [arcs EXCEPT ![s.arc].strong = @ + 1]
  <2>1. /\ arcs' \in [1..MaxArcs -> [addr : Addrs, strong : Int]]
        /\ \A h \in 1..MaxArcs : arcs'[h].addr = arcs[h].addr
    BY <1>3, <1>5, StrongIs DEF EnvInv
  <2>2. EnvType'
    BY <1>1, <1>3, <1>5, <2>1 DEF EnvInv, EnvType, Places
  <2>3. "loading" \notin {"dropping", "done"} /\ at[t] # "dropping"
    BY <1>1
  <2> QED
    BY <1>1, <1>5, <2>1, <2>2, <2>3, MoveInv
<1> QED
  BY <1>2, <1>4, <1>5

LEMMA LoadComparesInv ==
  ASSUME EnvInv, NEW t \in Threads, LoadCompares(t)
  PROVE  EnvInv'
<1>1. at[t] = "loading" /\ UNCHANGED <<envs, made, own, saved, sent>>
  BY DEF LoadCompares
<1>2. PICK s \in arg[t] :
        /\ \/ at' = [at EXCEPT ![t] = "using"] /\ UNCHANGED arg
           \/ at' = [at EXCEPT ![t] = Panicked(t)] /\ arg' = [arg EXCEPT ![t] = {}]
        /\ arcs' = [arcs EXCEPT ![s.arc].strong = @ - 1]
  BY DEF LoadCompares
<1>3. s.arc \in 1..MaxArcs /\ arcs[s.arc].strong - 1 \in Int
  BY DEF EnvInv, EnvType, Saved
<1>4. /\ arcs' \in [1..MaxArcs -> [addr : Addrs, strong : Int]]
      /\ \A h \in 1..MaxArcs : arcs'[h].addr = arcs[h].addr
  BY <1>2, <1>3, StrongIs DEF EnvInv
<1>5. PICK p \in {"using", "panicked", "idle"} : at' = [at EXCEPT ![t] = p]
  BY <1>2 DEF Panicked
<1>6. EnvType'
  BY <1>1, <1>2, <1>4, <1>5 DEF EnvInv, EnvType, Places
<1> QED
  BY <1>1, <1>4, <1>5, <1>6, MoveInv

LEMMA ClosureInv ==
  ASSUME EnvInv, NEW t \in Threads,
         SendInRun(t) \/ RunEnds(t) \/ JobPanics(t) \/ CatchUnwind(t)
  PROVE  EnvInv'
<1>1. /\ at[t] # "dropping" /\ UNCHANGED <<envs, arcs, made, own, saved, sent>>
      /\ arg' = arg \/ arg' = [arg EXCEPT ![t] = {}]
  BY DEF SendInRun, RunEnds, JobPanics, CatchUnwind
<1>2. PICK p \in {"using", "panicked", "idle"} : at' = [at EXCEPT ![t] = p]
  BY DEF SendInRun, RunEnds, JobPanics, CatchUnwind, Panicked
<1>3. EnvType'
  BY <1>1, <1>2 DEF EnvInv, EnvType, Places
<1> QED
  BY <1>1, <1>2, <1>3, MoveInv

LEMMA NextEnvInv == EnvInv /\ [EnvNext]_envVars => EnvInv'
<1> SUFFICES ASSUME EnvInv, [EnvNext]_envVars PROVE EnvInv'
  OBVIOUS
<1>1. CASE EnvNext
  <2>1. PICK t \in Threads : EnvStep(t)
    BY <1>1 DEF EnvNext
  <2> QED
    BY <2>1, NewEnvInv, OwnerMovesInv, SaveInv, ClearsInv, DropInv, LoadUpgradesInv,
       LoadComparesInv, ClosureInv DEF EnvStep
<1>2. CASE UNCHANGED envVars
  BY <1>2 DEF envVars, EnvInv, EnvType, OwnersInv, JobsInv, Has, Address
<1> QED
  BY <1>1, <1>2

\* However threads save, load, panic, move their environments and share their terms: a job that is done has
\* sent one message, and every environment that is allocated still has its OwnedEnv.
THEOREM JobsAnswerOnce == EnvSpec => []JobAnswersOnce
<1>1. EnvInit => EnvInv
  BY InitEnvInv
<1>2. EnvInv /\ [EnvNext]_envVars => EnvInv'
  BY NextEnvInv
<1>3. EnvInv => JobAnswersOnce
  <2> SUFFICES ASSUME EnvInv, NEW t \in Jobs, at[t] = "done"
               PROVE  /\ sent[t] = 1
                      /\ \A a \in Addrs : envs[a].live => \E u \in Threads : a \in Target(u)
    BY DEF JobAnswersOnce
  <2>1. sent[t] = 1
    BY DEF EnvInv, JobsInv
  <2>2. ASSUME NEW a \in Addrs, envs[a].live PROVE \E u \in Threads : a \in Target(u)
    BY <2>2 DEF EnvInv, OwnersInv, Has, Address, Target
  <2> QED
    BY <2>1, <2>2
<1> QED
  BY <1>1, <1>2, <1>3, PTL DEF EnvSpec
LEMMA InitOnTimeInv == EnvInit => OnTimeInv
BY InitEnvInv DEF OnTimeInv, EnvInit, LoadsInv, SavedInv

\* The generations that the threads own and that the terms were saved in
LEMMA OnTimeIs ==
  ASSUME OnTimeInv
  PROVE  /\ EnvType /\ made \in Nat /\ MaxArcs \in Nat
         /\ \A u \in Threads : own[u] # 0 => /\ own[u] \in 1..made /\ own[u] \in 1..MaxArcs
                                             /\ own[u] # made + 1 /\ Address(u) \in Addrs
         /\ \A s \in saved : /\ s.arc \in 1..MaxArcs /\ s.arc \in 1..made /\ s.arc # 0
                             /\ s.arc # made + 1 /\ s.addr \in Addrs /\ s.fill \in Nat
                             /\ s.addr = arcs[s.arc].addr
         /\ \A u \in Threads : \A s \in arg[u] : s \in saved
<1>1. EnvType
  BY DEF OnTimeInv, EnvInv
<1>2. made \in Nat /\ MaxArcs \in Nat
  BY <1>1, NifEnvsAssumption DEF EnvType
<1>3. ASSUME NEW u \in Threads, own[u] # 0
      PROVE  /\ own[u] \in 1..made /\ own[u] \in 1..MaxArcs
             /\ own[u] # made + 1 /\ Address(u) \in Addrs
  <2>1. own[u] \in 1..MaxArcs /\ own[u] <= made /\ Address(u) \in Addrs
    BY <1>1, <1>3, AddressType
  <2> QED
    BY <1>2, <2>1
<1>4. ASSUME NEW s \in saved
      PROVE  /\ s.arc \in 1..MaxArcs /\ s.arc \in 1..made /\ s.arc # 0
             /\ s.arc # made + 1 /\ s.addr \in Addrs /\ s.fill \in Nat
             /\ s.addr = arcs[s.arc].addr
  <2>1. s.arc \in 1..MaxArcs /\ s.addr \in Addrs /\ s.fill \in Nat
    BY <1>1 DEF EnvType, Saved
  <2>2. s.arc <= made /\ s.addr = arcs[s.arc].addr
    BY DEF OnTimeInv, SavedInv
  <2> QED
    BY <1>2, <2>1, <2>2
<1> QED
  BY <1>1, <1>2, <1>3, <1>4 DEF OnTimeInv, LoadsInv

\* The loads of the other threads stay as they are when a thread has none.
LEMMA LoadsStay ==
  ASSUME OnTimeInv, NEW t \in Threads, arg'[t] = {}, saved \subseteq saved',
         \A u \in Threads \ {t} :
           /\ at'[u] = at[u] /\ arg'[u] = arg[u] /\ (u \in late' <=> u \in late)
           /\ at[u] \in {"loading", "using"} =>
                own'[u] = own[u] /\ (own[u] # 0 => Address(u)' = Address(u))
  PROVE  LoadsInv'
BY DEF OnTimeInv, LoadsInv

\* A term keeps what it refers to when its generation has an OwnedEnv that had it
\* before and its environment is the same.
LEMMA SavedStay ==
  ASSUME OnTimeInv, saved' = saved, made' >= made, made' \in Nat,
         \A s \in saved : arcs'[s.arc].addr = arcs[s.arc].addr,
         \A s \in saved : \A u \in Threads :
           own'[u] = s.arc /\ at'[u] # "dropping" =>
             /\ \E v \in Threads : own[v] = s.arc /\ at[v] # "dropping"
             /\ envs'[s.addr] = envs[s.addr]
  PROVE  SavedInv'
<1> SUFFICES ASSUME NEW s \in saved
             PROVE  /\ s.arc <= made' /\ s.addr = arcs'[s.arc].addr
                    /\ \A u \in Threads : own'[u] = s.arc /\ at'[u] # "dropping" => Alive(s)'
  BY DEF SavedInv
<1>1. s.arc <= made'
  BY OnTimeIs
<1>2. s.addr = arcs'[s.arc].addr
  BY OnTimeIs
<1>3. ASSUME NEW u \in Threads, own'[u] = s.arc, at'[u] # "dropping" PROVE Alive(s)'
  BY <1>3 DEF OnTimeInv, SavedInv, Alive
<1> QED
  BY <1>1, <1>2, <1>3

LEMMA NewEnvOnTime ==
  ASSUME OnTimeInv, NEW t \in Threads, NewEnv(t)
  PROVE  LoadsInv' /\ SavedInv'
<1>1. PICK a \in Addrs :
        /\ ~envs[a].live /\ \A b \in Addrs \ {a} : envs'[b] = envs[b]
        /\ made' = made + 1 /\ own[t] = 0
        /\ own'[t] = made + 1 /\ \A u \in Threads \ {t} : own'[u] = own[u]
        /\ \A g \in 1..MaxArcs : g # made + 1 => arcs'[g] = arcs[g]
  BY NewEnvIs DEF OnTimeInv, EnvInv
<1>2. at[t] = "idle" /\ UNCHANGED <<at, arg, saved, late>>
  BY DEF NewEnv
<1>3. arg'[t] = {}
  BY <1>2 DEF OnTimeInv, LoadsInv
<1>4. \A u \in Threads \ {t} : own[u] # 0 => Address(u)' = Address(u)
  BY <1>1, OnTimeIs DEF Address
<1>5. LoadsInv'
  BY <1>1, <1>2, <1>3, <1>4, LoadsStay
<1>6. \A s \in saved : arcs'[s.arc].addr = arcs[s.arc].addr
  BY <1>1, OnTimeIs
<1>7. ASSUME NEW s \in saved, NEW u \in Threads, own'[u] = s.arc, at'[u] # "dropping"
      PROVE  /\ \E v \in Threads : own[v] = s.arc /\ at[v] # "dropping"
             /\ envs'[s.addr] = envs[s.addr]
  <2>1. u # t /\ own[u] = s.arc /\ at[u] # "dropping"
    BY <1>1, <1>2, <1>7, OnTimeIs
  <2>2. Alive(s) /\ s.addr \in Addrs
    BY <2>1, OnTimeIs DEF OnTimeInv, SavedInv
  <2>3. s.addr # a
    BY <1>1, <2>2 DEF Alive
  <2> QED
    BY <1>1, <2>1, <2>2, <2>3
<1>8. made' >= made /\ made' \in Nat
  BY <1>1, OnTimeIs
<1>9. SavedInv'
  BY <1>2, <1>6, <1>7, <1>8, SavedStay
<1> QED
  BY <1>5, <1>9

LEMMA OwnerMovesOnTime ==
  ASSUME OnTimeInv, NEW t \in Threads, \E u \in Threads : MoveEnv(t, u)
  PROVE  LoadsInv' /\ SavedInv'
<1>1. PICK u \in Threads : MoveEnv(t, u)
  OBVIOUS
<1>2. /\ t # u /\ own[t] # 0 /\ own[u] = 0 /\ at[t] = "idle" /\ at[u] = "idle"
      /\ \A v \in Threads :
           own'[v] = IF v = u THEN own[t] ELSE IF v = t THEN 0 ELSE own[v]
      /\ UNCHANGED <<envs, arcs, made, at, arg, saved, sent, late>>
  BY <1>1, OwnerMovesIs DEF OnTimeInv
<1>3. arg'[t] = {}
  BY <1>2 DEF OnTimeInv, LoadsInv
<1>4. \A v \in Threads : at[v] \in {"loading", "using"} =>
        own'[v] = own[v] /\ Address(v)' = Address(v)
  BY <1>2 DEF Address
<1>5. LoadsInv'
  BY <1>2, <1>3, <1>4, LoadsStay
<1>6. ASSUME NEW s \in saved, NEW v \in Threads, own'[v] = s.arc, at'[v] # "dropping"
      PROVE  \E w \in Threads : own[w] = s.arc /\ at[w] # "dropping"
  <2>1. s.arc # 0
    BY OnTimeIs
  <2>2. CASE v = u
    BY <1>2, <1>6, <2>2
  <2>3. CASE v # u
    BY <1>2, <1>6, <2>1, <2>3
  <2> QED
    BY <2>2, <2>3
<1>7. made' >= made /\ made' \in Nat
  BY <1>2, OnTimeIs
<1>8. SavedInv'
  BY <1>2, <1>6, <1>7, SavedStay
<1> QED
  BY <1>5, <1>8

LEMMA SaveOnTime ==
  ASSUME OnTimeInv, NEW t \in Threads, Save(t)
  PROVE  LoadsInv' /\ SavedInv'
<1> DEFINE new == [arc |-> own[t], addr |-> Address(t), fill |-> envs[Address(t)].fill]
<1>1. /\ at[t] = "idle" /\ own[t] # 0
      /\ UNCHANGED <<envs, arcs, made, own, at, arg, late>>
      /\ saved' = saved \cup {new}
  BY DEF Save, Address
<1>2. LoadsInv'
  BY <1>1 DEF OnTimeInv, LoadsInv, Address
<1>3. Alive(new)
  BY <1>1 DEF OnTimeInv, EnvInv, OwnersInv, Has, Alive
<1>4. new.arc <= made /\ new.addr = arcs[new.arc].addr
  BY <1>1, OnTimeIs DEF Address
<1> HIDE DEF new
<1>5. SavedInv'
  BY <1>1, <1>3, <1>4 DEF OnTimeInv, SavedInv, Alive
<1> QED
  BY <1>2, <1>5

\* The terms saved in the generation that is given up are not loaded any more.
LEMMA ClearsOnTime ==
  ASSUME OnTimeInv, NEW t \in Threads, Clear(t) \/ SendAndClear(t)
  PROVE  LoadsInv' /\ SavedInv'
<1>1. /\ own[t] # 0 /\ at[t] \in {"idle", "using"} /\ NewGeneration(t)
      /\ Refill(Address(t)) \/ UNCHANGED envs
      /\ saved' = saved /\ late' = late
  BY DEF Clear, SendAndClear, Address
<1>2. /\ made' = made + 1
      /\ own'[t] = made + 1 /\ \A u \in Threads \ {t} : own'[u] = own[u]
      /\ \A g \in 1..made : arcs'[g].addr = arcs[g].addr
  BY <1>1, GenerationIs DEF OnTimeInv, EnvInv
<1>3. /\ at'[t] = "idle" /\ arg'[t] = {}
      /\ \A u \in Threads \ {t} : at'[u] = at[u] /\ arg'[u] = arg[u]
  <2>1. at \in [Threads -> Places] /\ arg \in [Threads -> SUBSET Saved]
    BY DEF OnTimeInv, EnvInv, EnvType
  <2>2. CASE Clear(t)
    BY <2>2 DEF Clear, OnTimeInv, LoadsInv
  <2>3. CASE SendAndClear(t)
    BY <2>1, <2>3 DEF SendAndClear
  <2> QED
    BY <2>2, <2>3
<1>4. \A b \in Addrs : b # Address(t) => envs'[b] = envs[b]
  <2>1. Address(t) \in Addrs
    BY <1>1, OnTimeIs
  <2>2. CASE Refill(Address(t))
    BY <2>1, <2>2, RefillIs DEF OnTimeInv, EnvInv
  <2> QED
    BY <1>1, <2>2
<1>5. \A u \in Threads \ {t} : own[u] # 0 => Address(u)' = Address(u)
  BY <1>2, OnTimeIs DEF Address
<1>6. LoadsInv'
  BY <1>1, <1>2, <1>3, <1>5, LoadsStay
<1>7. \A s \in saved : arcs'[s.arc].addr = arcs[s.arc].addr
  BY <1>2, OnTimeIs
<1>8. ASSUME NEW s \in saved, NEW u \in Threads, own'[u] = s.arc, at'[u] # "dropping"
      PROVE  /\ \E v \in Threads : own[v] = s.arc /\ at[v] # "dropping"
             /\ envs'[s.addr] = envs[s.addr]
  <2>1. u # t /\ own[u] = s.arc /\ at[u] # "dropping" /\ own[u] # 0
    BY <1>2, <1>3, <1>8, OnTimeIs
  <2>2. s.addr = Address(u) /\ s.addr \in Addrs
    BY <2>1, OnTimeIs DEF Address
  <2>3. Address(u) # Address(t)
    BY <1>1, <2>1 DEF OnTimeInv, EnvInv, OwnersInv, Has
  <2> QED
    BY <1>4, <2>1, <2>2, <2>3
<1>9. made' >= made /\ made' \in Nat
  BY <1>2, OnTimeIs
<1>10. SavedInv'
  BY <1>1, <1>7, <1>8, <1>9, SavedStay
<1> QED
  BY <1>6, <1>10

LEMMA DropOnTime ==
  ASSUME OnTimeInv, NEW t \in Threads, DropFrees(t) \/ DropReleases(t)
  PROVE  LoadsInv' /\ SavedInv'
<1>0. /\ at \in [Threads -> Places] /\ own \in [Threads -> 0..made]
      /\ envs \in [Addrs -> [live : BOOLEAN, fill : Nat]]
  BY DEF OnTimeInv, EnvInv, EnvType
<1>1. CASE DropFrees(t)
  <2>1. /\ own[t] # 0 /\ at[t] = "idle"
        /\ envs' = [envs EXCEPT ![Address(t)].live = FALSE]
        /\ at' = [at EXCEPT ![t] = "dropping"]
        /\ UNCHANGED <<arcs, made, own, arg, saved, late>>
    BY <1>1 DEF DropFrees, Address
  <2>2. at'[t] = "dropping" /\ \A u \in Threads \ {t} : at'[u] = at[u]
    BY <1>0, <2>1
  <2>3. \A b \in Addrs : b # Address(t) => envs'[b] = envs[b]
    BY <1>0, <2>1
  <2>4. arg'[t] = {}
    BY <2>1 DEF OnTimeInv, LoadsInv
  <2>5. LoadsInv'
    BY <2>1, <2>2, <2>4, LoadsStay DEF Address
  <2>6. ASSUME NEW s \in saved, NEW u \in Threads, own'[u] = s.arc, at'[u] # "dropping"
        PROVE  /\ \E v \in Threads : own[v] = s.arc /\ at[v] # "dropping"
               /\ envs'[s.addr] = envs[s.addr]
    <3>1. u # t /\ own[u] = s.arc /\ at[u] # "dropping" /\ own[u] # 0
      BY <2>1, <2>2, <2>6, OnTimeIs
    <3>2. s.addr = Address(u) /\ s.addr \in Addrs
      BY <3>1, OnTimeIs DEF Address
    <3>3. Address(u) # Address(t)
      BY <2>1, <3>1 DEF OnTimeInv, EnvInv, OwnersInv, Has
    <3> QED
      BY <2>3, <3>1, <3>2, <3>3
  <2>7. made' >= made /\ made' \in Nat
    BY <2>1, OnTimeIs
  <2>8. SavedInv'
    BY <2>1, <2>6, <2>7, SavedStay
  <2> QED
    BY <2>5, <2>8
<1>2. CASE DropReleases(t)
  <2>1. /\ at[t] = "dropping" /\ own' = [own EXCEPT ![t] = 0]
        /\ at' = [at EXCEPT ![t] = IF t \in Jobs THEN "done" ELSE "idle"]
        /\ arcs' = [arcs EXCEPT ![own[t]].strong = @ - 1]
        /\ UNCHANGED <<envs, made, arg, saved, late>>
    BY <1>2 DEF DropReleases
  <2>2. own[t] \in 1..MaxArcs
    BY <2>1, OnTimeIs DEF OnTimeInv, EnvInv, JobsInv
  <2>3. \A h \in 1..MaxArcs : arcs'[h].addr = arcs[h].addr
    <3>1. EnvType /\ arcs[own[t]].strong - 1 \in Int
      BY <2>2 DEF OnTimeInv, EnvInv, EnvType
    <3> QED
      BY <2>1, <2>2, <3>1, StrongIs
  <2>4. \A u \in Threads : own'[u] = IF u = t THEN 0 ELSE own[u]
    BY <1>0, <2>1
  <2>5. \A u \in Threads \ {t} : at'[u] = at[u]
    BY <1>0, <2>1
  <2>6. arg'[t] = {}
    BY <2>1 DEF OnTimeInv, LoadsInv
  <2>7. \A u \in Threads \ {t} : own[u] # 0 => Address(u)' = Address(u)
    BY <2>3, <2>4, OnTimeIs DEF Address
  <2>8. LoadsInv'
    BY <2>1, <2>4, <2>5, <2>6, <2>7, LoadsStay
  <2>9. ASSUME NEW s \in saved, NEW u \in Threads, own'[u] = s.arc, at'[u] # "dropping"
        PROVE  \E v \in Threads : own[v] = s.arc /\ at[v] # "dropping"
    BY <2>4, <2>5, <2>9, OnTimeIs
  <2>10. \A s \in saved : arcs'[s.arc].addr = arcs[s.arc].addr
    BY <2>3, OnTimeIs
  <2>11. made' >= made /\ made' \in Nat
    BY <2>1, OnTimeIs
  <2>12. SavedInv'
    BY <2>1, <2>9, <2>10, <2>11, SavedStay
  <2> QED
    BY <2>8, <2>12
<1> QED
  BY <1>1, <1>2

\* The environments and their owners stay, and no thread is dropped or stops to be.
LEMMA SavedKept ==
  ASSUME OnTimeInv, NEW t \in Threads, UNCHANGED <<envs, made, own, saved>>,
         \A u \in Threads \ {t} : at'[u] = at[u], at[t] # "dropping", at'[t] # "dropping",
         \A h \in 1..MaxArcs : arcs'[h].addr = arcs[h].addr
  PROVE  SavedInv'
<1>1. ASSUME NEW s \in saved, NEW u \in Threads, own'[u] = s.arc, at'[u] # "dropping"
      PROVE  own[u] = s.arc /\ at[u] # "dropping"
  <2>1. CASE u = t
    BY <1>1, <2>1
  <2>2. CASE u # t
    BY <1>1, <2>2
  <2> QED
    BY <2>1, <2>2
<1>2. \A s \in saved : arcs'[s.arc].addr = arcs[s.arc].addr
  BY OnTimeIs
<1>3. made' >= made /\ made' \in Nat
  BY OnTimeIs
<1> QED
  BY <1>1, <1>2, <1>3, SavedStay

\* A load that finds the generation in use: it is the thread's own, or its OwnedEnv
\* has another address than the thread's.
LEMMA InUseIs ==
  ASSUME OnTimeInv, NEW t \in Threads, at[t] = "idle", NEW s \in saved, InUse(s.arc)
  PROVE  own[t] = s.arc \/ (own[t] # 0 => Address(t) # s.addr)
<1>1. PICK u \in Threads : own[u] = s.arc /\ at[u] # "dropping"
  BY DEF InUse
<1>2. Has(u) /\ s.addr = Address(u)
  BY <1>1, OnTimeIs DEF Has, Address
<1>3. CASE u = t
  BY <1>1, <1>3
<1>4. CASE u # t
  BY <1>2, <1>4 DEF OnTimeInv, EnvInv, OwnersInv, Has
<1> QED
  BY <1>3, <1>4

LEMMA LoadUpgradesOnTime ==
  ASSUME OnTimeInv, NEW t \in Threads, LoadUpgrades(t)
  PROVE  LoadsInv' /\ SavedInv'
<1>1. at[t] = "idle" /\ UNCHANGED <<envs, made, own, saved>>
  BY DEF LoadUpgrades
<1>2. PICK s \in saved :
        \/ /\ at' = [at EXCEPT ![t] = Panicked(t)] /\ UNCHANGED <<arcs, arg, late>>
        \/ /\ at' = [at EXCEPT ![t] = "loading"] /\ arg' = [arg EXCEPT ![t] = {s}]
           /\ arcs' = [arcs EXCEPT ![s.arc].strong = @ + 1]
           /\ late' = IF InUse(s.arc) THEN late \ {t} ELSE late \cup {t}
  BY DEF LoadUpgrades
<1>3. /\ at \in [Threads -> Places] /\ arg \in [Threads -> SUBSET Saved] /\ EnvType
  BY DEF OnTimeInv, EnvInv, EnvType
<1>4. CASE at' = [at EXCEPT ![t] = Panicked(t)] /\ UNCHANGED <<arcs, arg, late>>
  <2>1. /\ at'[t] \in {"panicked", "idle"}
        /\ \A u \in Threads \ {t} : at'[u] = at[u]
    BY <1>3, <1>4 DEF Panicked
  <2>2. arg'[t] = {}
    BY <1>1, <1>4 DEF OnTimeInv, LoadsInv
  <2>3. LoadsInv'
    BY <1>1, <1>4, <2>1, <2>2, LoadsStay DEF Address
  <2>4. SavedInv'
    BY <1>1, <1>4, <2>1, SavedKept
  <2> QED
    BY <2>3, <2>4
<1>5. CASE /\ at' = [at EXCEPT ![t] = "loading"] /\ arg' = [arg EXCEPT ![t] = {s}]
           /\ arcs' = [arcs EXCEPT ![s.arc].strong = @ + 1]
           /\ late' = IF InUse(s.arc) THEN late \ {t} ELSE late \cup {t}
  <2>1. \A h \in 1..MaxArcs : arcs'[h].addr = arcs[h].addr
    <3>1. s.arc \in 1..MaxArcs /\ arcs[s.arc].strong + 1 \in Int
      BY <1>3, OnTimeIs DEF EnvType
    <3> QED
      BY <1>3, <1>5, <3>1, StrongIs
  <2>2. /\ at'[t] = "loading" /\ arg'[t] = {s}
        /\ \A u \in Threads \ {t} :
             at'[u] = at[u] /\ arg'[u] = arg[u] /\ (u \in late' <=> u \in late)
    BY <1>3, <1>5
  <2>3. \A u \in Threads : own'[u] = own[u] /\ (own[u] # 0 => Address(u)' = Address(u))
    BY <1>1, <2>1, OnTimeIs DEF Address
  <2>4. t \notin late' => own[t] = s.arc \/ (own[t] # 0 => Address(t) # s.addr)
    BY <1>1, <1>5, InUseIs
  <2>5. LoadsInv'
    <3>1. \A u \in Threads : at'[u] \notin {"loading", "using"} => arg'[u] = {}
      BY <2>2 DEF OnTimeInv, LoadsInv
    <3>2. \A u \in Threads : \A r \in arg'[u] : r \in saved' /\ \A q \in arg'[u] : q = r
      BY <1>1, <2>2 DEF OnTimeInv, LoadsInv
    <3>3. ASSUME NEW u \in Threads \ late', at'[u] = "loading", NEW r \in arg'[u]
          PROVE  own'[u] = r.arc \/ (own'[u] # 0 => Address(u)' # r.addr)
      <4>1. CASE u = t
        BY <2>2, <2>3, <2>4, <3>3, <4>1
      <4>2. CASE u # t
        BY <2>2, <2>3, <3>3, <4>2 DEF OnTimeInv, LoadsInv
      <4> QED
        BY <4>1, <4>2
    <3>4. \A u \in Threads \ late' : at'[u] = "using" => \A r \in arg'[u] : own'[u] = r.arc
      BY <2>2, <2>3 DEF OnTimeInv, LoadsInv
    <3> QED
      BY <3>1, <3>2, <3>3, <3>4 DEF LoadsInv
  <2>6. SavedInv'
    BY <1>1, <2>1, <2>2, SavedKept
  <2> QED
    BY <2>5, <2>6
<1> QED
  BY <1>2, <1>4, <1>5

LEMMA LoadComparesOnTime ==
  ASSUME OnTimeInv, NEW t \in Threads, LoadCompares(t)
  PROVE  LoadsInv' /\ SavedInv'
<1>1. at[t] = "loading" /\ UNCHANGED <<envs, made, own, saved, late>>
  BY DEF LoadCompares
<1>2. PICK s \in arg[t] :
        /\ \/ /\ Matches(t, s)
              /\ at' = [at EXCEPT ![t] = "using"] /\ UNCHANGED arg
           \/ at' = [at EXCEPT ![t] = Panicked(t)] /\ arg' = [arg EXCEPT ![t] = {}]
        /\ arcs' = [arcs EXCEPT ![s.arc].strong = @ - 1]
  BY DEF LoadCompares
<1>3. /\ at \in [Threads -> Places] /\ arg \in [Threads -> SUBSET Saved] /\ EnvType
  BY DEF OnTimeInv, EnvInv, EnvType
<1>4. \A h \in 1..MaxArcs : arcs'[h].addr = arcs[h].addr
  <2>1. s.arc \in 1..MaxArcs /\ arcs[s.arc].strong - 1 \in Int
    BY <1>3, OnTimeIs DEF EnvType
  <2> QED
    BY <1>2, <1>3, <2>1, StrongIs
<1>5. \A u \in Threads : own'[u] = own[u] /\ (own[u] # 0 => Address(u)' = Address(u))
  BY <1>1, <1>4, OnTimeIs DEF Address
<1>6. /\ at'[t] # "dropping"
      /\ \A u \in Threads \ {t} : at'[u] = at[u] /\ arg'[u] = arg[u]
  BY <1>2, <1>3 DEF Panicked
<1>7. SavedInv'
  BY <1>1, <1>4, <1>6, SavedKept
<1>8. CASE at' = [at EXCEPT ![t] = Panicked(t)] /\ arg' = [arg EXCEPT ![t] = {}]
  <2>1. arg'[t] = {}
    BY <1>3, <1>8
  <2> QED
    BY <1>1, <1>5, <1>6, <1>7, <2>1, LoadsStay
<1>9. CASE Matches(t, s) /\ at' = [at EXCEPT ![t] = "using"] /\ UNCHANGED arg
  <2>1. at'[t] = "using" /\ arg'[t] = arg[t]
    BY <1>3, <1>9
  <2>2. t \notin late => \A r \in arg[t] : own[t] = r.arc
    <3> SUFFICES ASSUME t \notin late, NEW r \in arg[t] PROVE own[t] = r.arc
      OBVIOUS
    <3>1. own[t] = r.arc \/ (own[t] # 0 => Address(t) # r.addr)
      BY <1>1 DEF OnTimeInv, LoadsInv
    <3>2. r = s
      BY <1>1 DEF OnTimeInv, LoadsInv
    <3>3. own[t] # 0 /\ Address(t) = s.addr
      BY <1>9, OnTimeIs DEF Matches, Target, Address
    <3> QED
      BY <3>1, <3>2, <3>3
  <2>3. LoadsInv'
    <3>1. \A u \in Threads : at'[u] \notin {"loading", "using"} => arg'[u] = {}
      BY <1>6, <2>1 DEF OnTimeInv, LoadsInv
    <3>2. \A u \in Threads : \A r \in arg'[u] : r \in saved' /\ \A q \in arg'[u] : q = r
      BY <1>1, <1>6, <2>1 DEF OnTimeInv, LoadsInv
    <3>3. \A u \in Threads \ late' : at'[u] = "loading" => \A r \in arg'[u] :
            own'[u] = r.arc \/ (own'[u] # 0 => Address(u)' # r.addr)
      BY <1>1, <1>5, <1>6, <2>1 DEF OnTimeInv, LoadsInv
    <3>4. \A u \in Threads \ late' : at'[u] = "using" => \A r \in arg'[u] : own'[u] = r.arc
      BY <1>1, <1>5, <1>6, <2>1, <2>2 DEF OnTimeInv, LoadsInv
    <3> QED
      BY <3>1, <3>2, <3>3, <3>4 DEF LoadsInv
  <2> QED
    BY <1>7, <2>3
<1> QED
  BY <1>2, <1>8, <1>9

LEMMA ClosureOnTime ==
  ASSUME OnTimeInv, NEW t \in Threads,
         SendInRun(t) \/ RunEnds(t) \/ JobPanics(t) \/ CatchUnwind(t)
  PROVE  LoadsInv' /\ SavedInv'
<1>1. /\ at[t] # "dropping" /\ UNCHANGED <<envs, arcs, made, own, saved, late>>
  BY DEF SendInRun, RunEnds, JobPanics, CatchUnwind
<1>2. /\ at \in [Threads -> Places] /\ arg \in [Threads -> SUBSET Saved]
  BY DEF OnTimeInv, EnvInv, EnvType
<1>3. /\ at'[t] \in {"using", "panicked", "idle"} /\ arg'[t] = {}
      /\ \A u \in Threads \ {t} : at'[u] = at[u] /\ arg'[u] = arg[u]
  <2>1. CASE CatchUnwind(t)
    BY <1>2, <2>1 DEF CatchUnwind, OnTimeInv, LoadsInv
  <2>2. CASE SendInRun(t) \/ RunEnds(t) \/ JobPanics(t)
    BY <1>2, <2>2 DEF SendInRun, RunEnds, JobPanics, Panicked
  <2> QED
    BY <2>1, <2>2
<1>4. LoadsInv'
  BY <1>1, <1>3, LoadsStay DEF Address
<1>5. SavedInv'
  BY <1>1, <1>3, SavedKept
<1> QED
  BY <1>4, <1>5

LEMMA NextOnTimeInv == OnTimeInv /\ [EnvNext]_envVars => OnTimeInv'
<1> SUFFICES ASSUME OnTimeInv, [EnvNext]_envVars PROVE OnTimeInv'
  OBVIOUS
<1>1. EnvInv'
  BY NextEnvInv DEF OnTimeInv
<1>2. CASE EnvNext
  <2>1. PICK t \in Threads : EnvStep(t)
    BY <1>2 DEF EnvNext
  <2>2. LoadsInv' /\ SavedInv'
    BY <2>1, NewEnvOnTime, OwnerMovesOnTime, SaveOnTime, ClearsOnTime, DropOnTime,
       LoadUpgradesOnTime, LoadComparesOnTime, ClosureOnTime DEF EnvStep
  <2> QED
    BY <1>1, <2>2 DEF OnTimeInv
<1>3. CASE UNCHANGED envVars
  BY <1>1, <1>3 DEF envVars, OnTimeInv, LoadsInv, SavedInv, Address, Alive
<1> QED
  BY <1>2, <1>3

\* Whichever threads an OwnedEnv and the clones of a SavedTerm go to, and however
\* often environments are cleared, freed and given again: what load returns is
\* alive unless load found an Arc that no OwnedEnv uses.  Nif_shared shows that it
\* need not be otherwise.
THEOREM OnTimeTermsAreAlive == EnvSpec => []OnlyLateLoadsAreStale
<1>1. EnvInit => OnTimeInv
  BY InitOnTimeInv
<1>2. OnTimeInv /\ [EnvNext]_envVars => OnTimeInv'
  BY NextOnTimeInv
<1>3. OnTimeInv => OnlyLateLoadsAreStale
  <2> SUFFICES ASSUME OnTimeInv, NEW t \in Threads, at[t] = "using", t \notin late,
                      NEW s \in arg[t]
               PROVE  Alive(s)
    BY DEF OnlyLateLoadsAreStale
  <2>1. s \in saved /\ own[t] = s.arc
    BY DEF OnTimeInv, LoadsInv
  <2> QED
    BY <2>1 DEF OnTimeInv, SavedInv
<1> QED
  BY <1>1, <1>2, <1>3, PTL DEF EnvSpec
=============================================================================
