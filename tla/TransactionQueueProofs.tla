----------------------- MODULE TransactionQueueProofs -----------------------
(***************************************************************************)
(* Proofs about TransactionQueue, for any number of transactions, mining   *)
(* rounds and programs that die.                                           *)
(***************************************************************************)
EXTENDS TransactionQueue, SequenceTheorems, FiniteSetTheorems, TLAPS

-----------------------------------------------------------------------------
(* The lists *)

\* LPUSH puts an entry at the front.
LEMMA PushShape ==
  ASSUME NEW S, NEW s \in Seq(S), NEW e \in S
  PROVE  /\ <<e>> \o s \in Seq(S) /\ Len(s) \in Nat /\ Len(<<e>> \o s) = Len(s) + 1
         /\ DOMAIN s = 1 .. Len(s) /\ DOMAIN (<<e>> \o s) = 1 .. (Len(s) + 1)
         /\ (<<e>> \o s)[1] = e
         /\ \A j \in 1 .. Len(s) : (<<e>> \o s)[j + 1] = s[j]
         /\ \A j \in DOMAIN (<<e>> \o s) : j # 1 =>
              j - 1 \in DOMAIN s /\ (<<e>> \o s)[j] = s[j - 1]
<1>1. /\ <<e>> \in Seq(S) /\ Len(<<e>>) = 1 /\ <<e>>[1] = e
      /\ Len(s) \in Nat /\ DOMAIN s = 1 .. Len(s)
  OBVIOUS
<1>2. /\ <<e>> \o s \in Seq(S) /\ Len(<<e>> \o s) = 1 + Len(s)
      /\ \A j \in 1 .. (1 + Len(s)) :
           (<<e>> \o s)[j] = IF j <= 1 THEN <<e>>[j] ELSE s[j - 1]
  BY <1>1, ConcatProperties
<1>3. DOMAIN (<<e>> \o s) = 1 .. (Len(s) + 1)
  BY <1>1, <1>2
<1>4. (<<e>> \o s)[1] = e
  BY <1>1, <1>2
<1>5. ASSUME NEW j \in DOMAIN (<<e>> \o s), j # 1
      PROVE  j - 1 \in DOMAIN s /\ (<<e>> \o s)[j] = s[j - 1]
  BY <1>1, <1>2, <1>3, <1>5
<1>6. ASSUME NEW j \in 1 .. Len(s) PROVE (<<e>> \o s)[j + 1] = s[j]
  <2>1. j + 1 \in DOMAIN (<<e>> \o s) /\ j + 1 # 1 /\ (j + 1) - 1 = j
    BY <1>1, <1>3
  <2> QED
    BY <1>5, <2>1
<1> QED
  BY <1>1, <1>2, <1>3, <1>4, <1>5, <1>6

\* RPOP takes the entry at the end.
LEMMA PopShape ==
  ASSUME NEW S, NEW s \in Seq(S), s # <<>>
  PROVE  /\ Front(s) \in Seq(S) /\ Last(s) \in S /\ Last(s) = s[Len(s)]
         /\ Len(s) \in Nat /\ Len(s) >= 1 /\ Len(Front(s)) = Len(s) - 1
         /\ DOMAIN s = 1 .. Len(s) /\ DOMAIN Front(s) = 1 .. (Len(s) - 1)
         /\ \A j \in 1 .. (Len(s) - 1) : Front(s)[j] = s[j]
<1>1. Len(s) \in Nat /\ Len(s) >= 1 /\ DOMAIN s = 1 .. Len(s)
  OBVIOUS
<1>2. Last(s) \in S /\ Last(s) = s[Len(s)]
  BY <1>1 DEF Last
<1>3. /\ Front(s) \in Seq(S) /\ Len(Front(s)) = Len(s) - 1
      /\ \A j \in 1 .. (Len(s) - 1) : Front(s)[j] = s[j]
  BY <1>1, SubSeqProperties DEF Front
<1>4. DOMAIN Front(s) = 1 .. (Len(s) - 1)
  BY <1>1, <1>3
<1> QED
  BY <1>1, <1>2, <1>3, <1>4

\* A list without e is left alone by LREM.
LEMMA LRemNothing ==
  ASSUME NEW s, NEW e, \A i \in DOMAIN s : s[i] # e
  PROVE  LRem(s, e) = s
BY DEF LRem

-----------------------------------------------------------------------------
(* Type correctness *)

\* The transactions that are not queued any more are the first ones posted: the
\* queue holds the others, newest first.
Taken == posted - Len(queued)

QueueInv ==
  /\ Len(queued) <= posted
  /\ \A i \in DOMAIN queued : queued[i] = AsPosted(posted + 1 - i)
  /\ \A i \in DOMAIN processing : processing[i][1] = "map"

TypeInv == TypeOK /\ QueueInv

\* The parts of a program, and programs with other parts.
LEMMA ProgramParts ==
  ASSUME NEW p \in Programs
  PROVE  /\ p.round \in Nat /\ p.completed \in Seq(Nat) /\ p.current \in Seq(Nat)
         /\ \A t \in Nat :
              LET q == [p EXCEPT !.current = <<t>>]
              IN  /\ q \in Programs /\ q.round = p.round /\ q.open = p.open
                  /\ q.completed = p.completed /\ q.current = <<t>>
         /\ LET q == [p EXCEPT !.completed = @ \o p.current, !.current = <<>>]
            IN  /\ q \in Programs /\ q.round = p.round /\ q.open = p.open
                /\ q.completed = p.completed \o p.current /\ q.current = <<>>
         /\ LET q == [p EXCEPT !.open = FALSE]
            IN  /\ q \in Programs /\ q.round = p.round
                /\ q.completed = p.completed /\ q.current = p.current
<1>1. p.round \in Nat /\ p.completed \in Seq(Nat) /\ p.current \in Seq(Nat)
  BY DEF Programs
<1>2. p.completed \o p.current \in Seq(Nat) /\ <<>> \in Seq(Nat)
  BY <1>1, ConcatProperties
<1>3. \A t \in Nat : <<t>> \in Seq(Nat)
  OBVIOUS
<1>4. ASSUME NEW t \in Nat
      PROVE  LET q == [p EXCEPT !.current = <<t>>]
             IN  /\ q \in Programs /\ q.round = p.round /\ q.open = p.open
                 /\ q.completed = p.completed /\ q.current = <<t>>
  BY <1>3 DEF Programs
<1>5. LET q == [p EXCEPT !.completed = @ \o p.current, !.current = <<>>]
      IN  /\ q \in Programs /\ q.round = p.round /\ q.open = p.open
          /\ q.completed = p.completed \o p.current /\ q.current = <<>>
  BY <1>2 DEF Programs
<1>6. LET q == [p EXCEPT !.open = FALSE]
      IN  /\ q \in Programs /\ q.round = p.round
          /\ q.completed = p.completed /\ q.current = p.current
  BY DEF Programs
<1> QED
  BY <1>1, <1>4, <1>5, <1>6

\* The transaction that GetNextTransaction takes is the oldest one queued.
LEMMA OldestQueued ==
  ASSUME TypeInv, queued # <<>>
  PROVE  /\ Last(queued) = AsPosted(Taken + 1) /\ Last(queued)[2] = Taken + 1
         /\ Last(queued) \in Entries /\ Taken \in Nat
         /\ posted - Len(Front(queued)) = Taken + 1
<1>1. queued \in Seq(Entries) /\ posted \in Nat
  BY DEF TypeInv, TypeOK
<1>2. /\ Last(queued) \in Entries /\ Last(queued) = queued[Len(queued)]
      /\ Len(queued) \in Nat /\ Len(queued) \in DOMAIN queued
      /\ Len(Front(queued)) = Len(queued) - 1
  BY <1>1, PopShape
<1>3. Last(queued) = AsPosted(posted + 1 - Len(queued))
  BY <1>2 DEF TypeInv, QueueInv
<1>4. Taken \in Nat /\ posted + 1 - Len(queued) = Taken + 1
  BY <1>1, <1>2 DEF TypeInv, QueueInv, Taken
<1> QED
  BY <1>1, <1>2, <1>3, <1>4 DEF AsPosted, Taken

\* Posting a transaction keeps the order of the queue.
LEMMA PostTypes ==
  ASSUME TypeInv, Post
  PROVE  /\ queued' \in Seq(Entries) /\ posted' \in Nat /\ posted' = posted + 1
         /\ Len(queued') <= posted' /\ Taken' = Taken
         /\ \A i \in DOMAIN queued' : queued'[i] = AsPosted(posted' + 1 - i)
<1>1. queued \in Seq(Entries) /\ posted \in Nat
  BY DEF TypeInv, TypeOK
<1>2. AsPosted(posted + 1) \in Entries
  BY <1>1 DEF AsPosted, Entries
<1>3. queued' = <<AsPosted(posted + 1)>> \o queued /\ posted' = posted + 1
  BY DEF Post
<1>4. /\ queued' \in Seq(Entries) /\ Len(queued') = Len(queued) + 1
      /\ Len(queued) \in Nat /\ DOMAIN queued' = 1 .. (Len(queued) + 1)
      /\ queued'[1] = AsPosted(posted + 1)
      /\ \A j \in DOMAIN queued' : j # 1 =>
           j - 1 \in DOMAIN queued /\ queued'[j] = queued[j - 1]
  BY <1>1, <1>2, <1>3, PushShape
<1>5. ASSUME NEW i \in DOMAIN queued' PROVE queued'[i] = AsPosted(posted' + 1 - i)
  <2>1. CASE i = 1
    <3>1. posted' + 1 - i = posted + 1
      BY <1>1, <1>3, <2>1
    <3> QED
      BY <1>4, <2>1, <3>1
  <2>2. CASE i # 1
    <3>1. posted' + 1 - i = posted + 1 - (i - 1)
      BY <1>1, <1>3, <1>4
    <3>2. queued'[i] = AsPosted(posted + 1 - (i - 1))
      BY <1>4, <2>2 DEF TypeInv, QueueInv
    <3> QED
      BY <3>1, <3>2
  <2> QED
    BY <2>1, <2>2
<1>6. Len(queued') <= posted' /\ Taken' = Taken
  BY <1>1, <1>3, <1>4 DEF TypeInv, QueueInv, Taken
<1> QED
  BY <1>1, <1>3, <1>4, <1>5, <1>6

\* Types and the order of the queue hold at first ...
LEMMA InitTypeInv == Init => TypeInv
BY DEF Init, TypeInv, TypeOK, QueueInv

\* ... and after every step.
LEMMA NextTypeInv == TypeInv /\ [Next]_vars => TypeInv'
<1> SUFFICES ASSUME TypeInv, [Next]_vars PROVE TypeInv'
  OBVIOUS
<1> USE DEF minerVars
<1>a. /\ queued \in Seq(Entries) /\ processing \in Seq(Entries) /\ posted \in Nat
      /\ programs \subseteq Programs /\ round \in Nat /\ answers \in Seq(Answers)
      /\ work \in Seq(Nat) /\ blocks \in Seq(Seq(Nat)) /\ faults \in Nat
      /\ lapses \subseteq LapseKinds
  BY DEF TypeInv, TypeOK
<1>b. UNCHANGED <<queued, processing, posted>> => QueueInv'
  BY DEF TypeInv, QueueInv
<1>c. <<>> \in Seq(Nat)
  OBVIOUS
<1>1. CASE Receive
  <2>1. /\ queued' \in Seq(Entries) /\ posted' \in Nat /\ Len(queued') <= posted'
        /\ \A i \in DOMAIN queued' : queued'[i] = AsPosted(posted' + 1 - i)
    BY <1>1, PostTypes DEF Receive
  <2> QED
    BY <1>1, <2>1 DEF Receive, TypeInv, TypeOK, QueueInv
<1>2. CASE MineNextBlock
  <2>1. /\ queued' \in Seq(Entries) /\ posted' \in Nat /\ Len(queued') <= posted'
        /\ \A i \in DOMAIN queued' : queued'[i] = AsPosted(posted' + 1 - i)
    BY <1>2, PostTypes DEF MineNextBlock
  <2>2. programs' \subseteq Programs /\ round' \in Nat
    <3>1. round' \in Nat
      BY <1>2, <1>a DEF MineNextBlock
    <3>2. [round |-> round', completed |-> <<>>, current |-> <<>>, open |-> TRUE]
            \in Programs
      BY <1>c, <3>1 DEF Programs
    <3> QED
      BY <1>2, <1>a, <3>1, <3>2 DEF MineNextBlock
  <2> QED
    BY <1>2, <2>1, <2>2 DEF MineNextBlock, TypeInv, TypeOK, QueueInv
<1>3. CASE ProcessingDone
  <2>1. answers # <<>> /\ work' = Head(answers).completed /\ answers' = Tail(answers)
    BY <1>3 DEF ProcessingDone
  <2>2. Head(answers) \in Answers /\ Tail(answers) \in Seq(Answers)
    BY <1>a, <2>1
  <2>3. work' \in Seq(Nat)
    BY <2>1, <2>2 DEF Answers
  <2>4. lapses' \subseteq LapseKinds
    BY <1>3, <1>a DEF ProcessingDone, LapseKinds
  <2> QED
    BY <1>3, <1>b, <2>1, <2>2, <2>3, <2>4 DEF ProcessingDone, TypeInv, TypeOK
<1>4. CASE ProcessingStopped
  <2>1. programs' \subseteq Programs
    <3>1. \A p \in programs : p \in Programs /\ [p EXCEPT !.open = FALSE] \in Programs
      BY <1>a, ProgramParts
    <3> QED
      BY <1>4, <3>1 DEF ProcessingStopped
  <2>2. lapses' \subseteq LapseKinds
    BY <1>4, <1>a DEF ProcessingStopped, LapseKinds
  <2> QED
    BY <1>4, <1>b, <2>1, <2>2 DEF ProcessingStopped, TypeInv, TypeOK
<1>5. CASE HashingStopped \/ InsertFails
  <2>1. lapses' \subseteq LapseKinds
    BY <1>5, <1>a DEF HashingStopped, InsertFails, LapseKinds
  <2> QED
    BY <1>5, <1>b, <1>c, <2>1 DEF HashingStopped, InsertFails, TypeInv, TypeOK
<1>6. CASE InsertBlock
  <2>1. blocks' \in Seq(Seq(Nat))
    BY <1>6, <1>a DEF InsertBlock
  <2> QED
    BY <1>6, <1>b, <1>c, <2>1 DEF InsertBlock, TypeInv, TypeOK
<1>7. CASE MinerDies
  <2>1. programs' \subseteq Programs
    <3>1. \A p \in programs : [p EXCEPT !.open = FALSE] \in Programs
      BY <1>a, ProgramParts
    <3> QED
      BY <1>7, <3>1 DEF MinerDies
  <2>2. lapses' \subseteq LapseKinds /\ <<>> \in Seq(Answers)
    BY <1>7, <1>a DEF MinerDies, LapseKinds
  <2> QED
    BY <1>7, <1>b, <1>c, <2>1, <2>2 DEF MinerDies, TypeInv, TypeOK
<1>8. ASSUME NEW p \in programs, GetNextTransaction(p) PROVE TypeInv'
  <2>1. /\ queued # <<>> /\ queued' = Front(queued)
        /\ processing' = <<Last(queued)>> \o processing
        /\ programs' = (programs \ {p}) \cup {[p EXCEPT !.current = <<Last(queued)[2]>>]}
        /\ UNCHANGED <<posted, minerVars, faults, lapses>>
    BY <1>8 DEF GetNextTransaction
  <2>2. /\ Last(queued) = AsPosted(Taken + 1) /\ Last(queued)[2] = Taken + 1
        /\ Last(queued) \in Entries /\ Taken \in Nat
    BY <2>1, OldestQueued
  <2>3. /\ queued' \in Seq(Entries) /\ Len(queued') = Len(queued) - 1 /\ Len(queued) \in Nat
        /\ \A i \in DOMAIN queued' : i \in DOMAIN queued /\ queued'[i] = queued[i]
    <3>1. /\ Front(queued) \in Seq(Entries) /\ Len(queued) \in Nat
          /\ Len(Front(queued)) = Len(queued) - 1
          /\ DOMAIN queued = 1 .. Len(queued)
          /\ DOMAIN Front(queued) = 1 .. (Len(queued) - 1)
          /\ \A j \in 1 .. (Len(queued) - 1) : Front(queued)[j] = queued[j]
      BY <1>a, <2>1, PopShape
    <3> QED
      BY <2>1, <3>1
  <2>4. /\ processing' \in Seq(Entries)
        /\ \A i \in DOMAIN processing' : processing'[i][1] = "map"
    <3>1. /\ processing' \in Seq(Entries) /\ processing'[1] = Last(queued)
          /\ \A j \in DOMAIN processing' : j # 1 =>
               j - 1 \in DOMAIN processing /\ processing'[j] = processing[j - 1]
      BY <1>a, <2>1, <2>2, PushShape
    <3> QED
      BY <2>2, <3>1 DEF TypeInv, QueueInv, AsPosted
  <2>5. programs' \subseteq Programs
    <3>1. p \in Programs /\ Taken + 1 \in Nat
      BY <1>a, <2>2
    <3>2. [p EXCEPT !.current = <<Taken + 1>>] \in Programs
      BY <3>1, ProgramParts
    <3> QED
      BY <1>a, <2>1, <2>2, <3>2
  <2>6. QueueInv'
    BY <1>a, <2>1, <2>3, <2>4 DEF TypeInv, QueueInv
  <2> QED
    BY <2>1, <2>3, <2>4, <2>5, <2>6 DEF TypeInv, TypeOK
<1>9. ASSUME NEW p \in programs, RunTransaction(p) PROVE TypeInv'
  <2>1. processing' = processing
    BY <1>9, LRemNothing DEF RunTransaction, AsRecoded, TypeInv, QueueInv
  <2>2. programs' \subseteq Programs
    BY <1>9, <1>a, ProgramParts DEF RunTransaction
  <2> QED
    BY <1>9, <1>b, <2>1, <2>2 DEF RunTransaction, TypeInv, TypeOK
<1>10. ASSUME NEW p \in programs, ReturnCompleted(p) PROVE TypeInv'
  <2>1. p.round \in Nat /\ p.completed \in Seq(Nat)
    BY <1>a, ProgramParts
  <2>2. [round |-> p.round, completed |-> p.completed] \in Answers
    BY <2>1 DEF Answers
  <2>3. answers' \in Seq(Answers)
    BY <1>10, <1>a, <2>2 DEF ReturnCompleted
  <2> QED
    BY <1>10, <1>b, <2>3 DEF ReturnCompleted, TypeInv, TypeOK
<1>11. ASSUME NEW p \in programs, ProgramDies(p) PROVE TypeInv'
  <2>1. lapses' \subseteq LapseKinds
    BY <1>11, <1>a DEF ProgramDies, LapseKinds
  <2> QED
    BY <1>11, <1>b, <2>1 DEF ProgramDies, TypeInv, TypeOK
<1>12. CASE UNCHANGED vars
  BY <1>12, <1>b DEF vars, TypeInv, TypeOK
<1> QED
  BY <1>1, <1>2, <1>3, <1>4, <1>5, <1>6, <1>7, <1>8, <1>9, <1>10, <1>11, <1>12
     DEF Next, ProgramStep

\* The lists, programs, answers and blocks always have their types.
THEOREM TypeCorrect == Spec => []TypeOK
<1>1. TypeInv => TypeOK
  BY DEF TypeInv
<1> QED
  BY <1>1, InitTypeInv, NextTypeInv, PTL DEF Spec

-----------------------------------------------------------------------------
(* NothingForgotten *)

\* Redis moves a transaction from the one list to the other in one step, and no
\* entry is ever removed from the second.
LEMMA NextNothingForgotten ==
  TypeInv /\ NothingForgotten /\ [Next]_vars => NothingForgotten'
<1> SUFFICES ASSUME TypeInv, NothingForgotten, [Next]_vars PROVE NothingForgotten'
  OBVIOUS
<1> USE DEF minerVars
<1>a. queued \in Seq(Entries) /\ processing \in Seq(Entries) /\ posted \in Nat
  BY DEF TypeInv, TypeOK
<1>b. UNCHANGED <<queued, processing, posted>> => NothingForgotten'
  BY DEF NothingForgotten
<1>1. CASE Receive \/ MineNextBlock
  <2>1. /\ queued' = <<AsPosted(posted + 1)>> \o queued /\ posted' = posted + 1
        /\ processing' = processing
    BY <1>1 DEF Receive, MineNextBlock, Post
  <2>2. AsPosted(posted + 1) \in Entries
    BY <1>a DEF AsPosted, Entries
  <2>3. /\ Len(queued) \in Nat /\ DOMAIN queued = 1 .. Len(queued)
        /\ DOMAIN queued' = 1 .. (Len(queued) + 1) /\ queued'[1] = AsPosted(posted + 1)
        /\ \A j \in 1 .. Len(queued) : queued'[j + 1] = queued[j]
    BY <1>a, <2>1, <2>2, PushShape
  <2>4. ASSUME NEW t \in 1 .. posted'
        PROVE  \/ \E i \in DOMAIN queued' : queued'[i] = AsPosted(t)
               \/ \E i \in DOMAIN processing' : processing'[i] = AsPosted(t)
    <3>1. CASE t = posted + 1
      <4>1. 1 \in DOMAIN queued'
        BY <2>3
      <4> QED
        BY <2>3, <3>1, <4>1
    <3>2. CASE t # posted + 1
      <4>1. t \in 1 .. posted
        BY <1>a, <2>1, <3>2
      <4>2. CASE \E i \in DOMAIN queued : queued[i] = AsPosted(t)
        <5>1. PICK i \in DOMAIN queued : queued[i] = AsPosted(t)
          BY <4>2
        <5>2. i + 1 \in DOMAIN queued' /\ queued'[i + 1] = AsPosted(t)
          BY <2>3, <5>1
        <5> QED
          BY <5>2
      <4> QED
        BY <2>1, <4>1, <4>2 DEF NothingForgotten
    <3> QED
      BY <3>1, <3>2
  <2> QED
    BY <2>4 DEF NothingForgotten
<1>2. ASSUME NEW p \in programs, GetNextTransaction(p) PROVE NothingForgotten'
  <2>1. /\ queued # <<>> /\ queued' = Front(queued) /\ posted' = posted
        /\ processing' = <<Last(queued)>> \o processing
    BY <1>2 DEF GetNextTransaction
  <2>2. /\ Last(queued) \in Entries /\ Last(queued) = queued[Len(queued)]
        /\ Len(queued) \in Nat /\ DOMAIN queued = 1 .. Len(queued)
        /\ DOMAIN queued' = 1 .. (Len(queued) - 1)
        /\ \A j \in 1 .. (Len(queued) - 1) : queued'[j] = queued[j]
    BY <1>a, <2>1, PopShape
  <2>3. /\ Len(processing) \in Nat /\ DOMAIN processing = 1 .. Len(processing)
        /\ DOMAIN processing' = 1 .. (Len(processing) + 1)
        /\ processing'[1] = Last(queued)
        /\ \A j \in 1 .. Len(processing) : processing'[j + 1] = processing[j]
    BY <1>a, <2>1, <2>2, PushShape
  <2>4. ASSUME NEW t \in 1 .. posted'
        PROVE  \/ \E i \in DOMAIN queued' : queued'[i] = AsPosted(t)
               \/ \E i \in DOMAIN processing' : processing'[i] = AsPosted(t)
    <3>1. CASE \E i \in DOMAIN queued : queued[i] = AsPosted(t)
      <4>1. PICK i \in DOMAIN queued : queued[i] = AsPosted(t)
        BY <3>1
      <4>2. CASE i = Len(queued)
        <5>1. 1 \in DOMAIN processing'
          BY <2>3
        <5> QED
          BY <2>2, <2>3, <4>1, <4>2, <5>1
      <4>3. CASE i # Len(queued)
        <5>1. i \in DOMAIN queued' /\ queued'[i] = AsPosted(t)
          BY <2>2, <4>1, <4>3
        <5> QED
          BY <5>1
      <4> QED
        BY <4>2, <4>3
    <3>2. CASE \E i \in DOMAIN processing : processing[i] = AsPosted(t)
      <4>1. PICK i \in DOMAIN processing : processing[i] = AsPosted(t)
        BY <3>2
      <4>2. i + 1 \in DOMAIN processing' /\ processing'[i + 1] = AsPosted(t)
        BY <2>3, <4>1
      <4> QED
        BY <4>2
    <3> QED
      BY <2>1, <3>1, <3>2 DEF NothingForgotten
  <2> QED
    BY <2>4 DEF NothingForgotten
<1>3. ASSUME NEW p \in programs, RunTransaction(p) PROVE NothingForgotten'
  <2>1. processing' = processing
    BY <1>3, LRemNothing DEF RunTransaction, AsRecoded, TypeInv, QueueInv
  <2> QED
    BY <1>3, <1>b, <2>1 DEF RunTransaction
<1>4. CASE \/ ProcessingDone \/ ProcessingStopped \/ HashingStopped \/ InsertBlock
           \/ InsertFails \/ MinerDies \/ UNCHANGED vars
  BY <1>4, <1>b DEF ProcessingDone, ProcessingStopped, HashingStopped, InsertBlock,
     InsertFails, MinerDies, vars
<1>5. ASSUME NEW p \in programs, ReturnCompleted(p) \/ ProgramDies(p)
      PROVE  NothingForgotten'
  BY <1>5, <1>b DEF ReturnCompleted, ProgramDies
<1> QED
  BY <1>1, <1>2, <1>3, <1>4, <1>5 DEF Next, ProgramStep

\* Every transaction that was ever posted is in one of the two Redis lists: no
\* crash of a program or of Miner between two commands loses its last copy.
THEOREM PostedIsKept == Spec => []NothingForgotten
<1>1. Init => NothingForgotten
  BY DEF Init, NothingForgotten
<1> QED
  BY <1>1, InitTypeInv, NextTypeInv, NextNothingForgotten, PTL DEF Spec

-----------------------------------------------------------------------------
(* Contents of sequences *)

LEMMA EmptyContents == ToSet(<<>>) = {}
BY DEF ToSet

LEMMA ConcatContents ==
  ASSUME NEW S, NEW s \in Seq(S), NEW u \in Seq(S)
  PROVE  ToSet(s \o u) = ToSet(s) \cup ToSet(u)
<1>1. /\ Len(s) \in Nat /\ Len(u) \in Nat
      /\ DOMAIN s = 1 .. Len(s) /\ DOMAIN u = 1 .. Len(u)
  OBVIOUS
<1>2. /\ s \o u \in Seq(S) /\ Len(s \o u) = Len(s) + Len(u)
      /\ \A i \in 1 .. (Len(s) + Len(u)) :
           (s \o u)[i] = IF i <= Len(s) THEN s[i] ELSE u[i - Len(s)]
  BY ConcatProperties
<1>3. DOMAIN (s \o u) = 1 .. (Len(s) + Len(u))
  BY <1>1, <1>2
<1>4. ASSUME NEW i \in DOMAIN s PROVE i \in DOMAIN (s \o u) /\ (s \o u)[i] = s[i]
  BY <1>1, <1>2, <1>3
<1>5. ASSUME NEW i \in DOMAIN u
      PROVE  i + Len(s) \in DOMAIN (s \o u) /\ (s \o u)[i + Len(s)] = u[i]
  <2>1. /\ i + Len(s) \in 1 .. (Len(s) + Len(u)) /\ ~(i + Len(s) <= Len(s))
        /\ (i + Len(s)) - Len(s) = i
    BY <1>1
  <2> QED
    BY <1>2, <1>3, <2>1
<1>6. ASSUME NEW i \in DOMAIN (s \o u)
      PROVE  \/ i \in DOMAIN s /\ (s \o u)[i] = s[i]
             \/ i - Len(s) \in DOMAIN u /\ (s \o u)[i] = u[i - Len(s)]
  BY <1>1, <1>2, <1>3
<1>7. ASSUME NEW x \in ToSet(s) \cup ToSet(u) PROVE x \in ToSet(s \o u)
  BY <1>4, <1>5 DEF ToSet
<1>8. ASSUME NEW x \in ToSet(s \o u) PROVE x \in ToSet(s) \cup ToSet(u)
  BY <1>6 DEF ToSet
<1> QED
  BY <1>7, <1>8

LEMMA AppendContents ==
  ASSUME NEW S, NEW s \in Seq(S), NEW e \in S
  PROVE  ToSet(Append(s, e)) = ToSet(s) \cup {e}
<1>1. Append(s, e) = s \o <<e>> /\ <<e>> \in Seq(S)
  BY AppendIsConcat
<1>2. ToSet(<<e>>) = {e}
  BY DEF ToSet
<1>3. ToSet(s \o <<e>>) = ToSet(s) \cup ToSet(<<e>>)
  BY <1>1, ConcatContents
<1> QED
  BY <1>1, <1>2, <1>3

-----------------------------------------------------------------------------
(* LostOnlyByLapse *)

\* InHand, transaction by transaction.
Held(t) ==
  \/ t \in ToSet(work)
  \/ \E b \in DOMAIN blocks : t \in ToSet(blocks[b])
  \/ \E p \in programs : p.open /\ (t \in ToSet(p.completed) \/ t \in ToSet(p.current))
  \/ \E k \in DOMAIN answers : t \in ToSet(answers[k].completed)
  \/ \E i \in DOMAIN queued : queued[i][2] = t

\* As long as nothing went wrong, every program still answers to Miner, and Miner
\* has an empty block in its hands when it takes an answer.
HandInv ==
  /\ miner # "hashing" => work = <<>>
  /\ lapses = {} =>
       /\ \A p \in programs : p.open
       /\ \A t \in 1 .. posted : Held(t)

LEMMA HeldIsInHand == ASSUME NEW t, Held(t) PROVE t \in InHand
<1>1. CASE t \in ToSet(work)
  BY <1>1 DEF InHand, Pending
<1>2. CASE \E b \in DOMAIN blocks : t \in ToSet(blocks[b])
  BY <1>2 DEF InHand, Pending
<1>3. CASE \E p \in programs : p.open /\ (t \in ToSet(p.completed) \/ t \in ToSet(p.current))
  <2>1. t \in UNION {ToSet(p.completed) \cup ToSet(p.current) : p \in {q \in programs : q.open}}
    BY <1>3
  <2> QED
    BY <2>1 DEF InHand, Pending
<1>4. CASE \E k \in DOMAIN answers : t \in ToSet(answers[k].completed)
  <2>1. t \in UNION {ToSet(answers[i].completed) : i \in DOMAIN answers}
    BY <1>4
  <2> QED
    BY <2>1 DEF InHand, Pending
<1>5. CASE \E i \in DOMAIN queued : queued[i][2] = t
  <2>1. t \in {queued[i][2] : i \in DOMAIN queued}
    BY <1>5
  <2> QED
    BY <2>1 DEF InHand, Pending
<1> QED
  BY <1>1, <1>2, <1>3, <1>4, <1>5 DEF Held

\* Every step that is not a lapse hands a transaction on.
LEMMA NextHandInv == TypeInv /\ HandInv /\ [Next]_vars => HandInv'
<1> SUFFICES ASSUME TypeInv, HandInv, [Next]_vars PROVE HandInv'
  OBVIOUS
<1> USE DEF minerVars
<1>a. /\ queued \in Seq(Entries) /\ posted \in Nat /\ programs \subseteq Programs
      /\ answers \in Seq(Answers) /\ work \in Seq(Nat) /\ blocks \in Seq(Seq(Nat))
  BY DEF TypeInv, TypeOK
<1>b. ASSUME posted' = posted, lapses' = lapses, miner' # "hashing" => work' = <<>>,
             lapses = {} => \A p \in programs' : p.open,
             lapses = {} => \A t \in 1 .. posted : Held(t) => Held(t)'
      PROVE  HandInv'
  BY <1>b DEF HandInv
<1>1. CASE Receive \/ MineNextBlock
  <2>1. /\ queued' = <<AsPosted(posted + 1)>> \o queued /\ posted' = posted + 1
        /\ UNCHANGED <<answers, work, blocks, lapses>>
        /\ programs \subseteq programs' /\ \A p \in programs' \ programs : p.open
    BY <1>1 DEF Receive, MineNextBlock, Post
  <2>2. AsPosted(posted + 1) \in Entries /\ AsPosted(posted + 1)[2] = posted + 1
    BY <1>a DEF AsPosted, Entries
  <2>3. /\ Len(queued) \in Nat /\ DOMAIN queued = 1 .. Len(queued)
        /\ DOMAIN queued' = 1 .. (Len(queued) + 1) /\ queued'[1] = AsPosted(posted + 1)
        /\ \A j \in 1 .. Len(queued) : queued'[j + 1] = queued[j]
    BY <1>a, <2>1, <2>2, PushShape
  <2>4. 1 \in DOMAIN queued' /\ \A j \in DOMAIN queued : j + 1 \in DOMAIN queued'
    BY <2>3
  <2>5. ASSUME NEW t, Held(t) PROVE Held(t)'
    <3>1. CASE \E i \in DOMAIN queued : queued[i][2] = t
      BY <2>3, <2>4, <3>1 DEF Held
    <3> QED
      BY <2>1, <2>5, <3>1 DEF Held
  <2>6. ASSUME NEW t, t = posted + 1 PROVE Held(t)'
    BY <2>2, <2>3, <2>4, <2>6 DEF Held
  <2>7. miner' # "hashing" => work' = <<>>
    BY <1>1, <2>1 DEF Receive, MineNextBlock, HandInv
  <2>8. ASSUME lapses = {}, NEW t \in 1 .. posted' PROVE Held(t)'
    <3>1. t = posted + 1 \/ t \in 1 .. posted
      BY <1>a, <2>1
    <3> QED
      BY <2>5, <2>6, <2>8, <3>1 DEF HandInv
  <2> QED
    BY <2>1, <2>7, <2>8 DEF HandInv
<1>2. CASE ProcessingDone
  <2>1. /\ miner = "processing" /\ answers # <<>> /\ miner' = "hashing"
        /\ work' = Head(answers).completed /\ answers' = Tail(answers)
        /\ UNCHANGED <<queued, posted, programs, blocks>>
        /\ lapses' = {} => lapses = {}
    BY <1>2 DEF ProcessingDone
  <2>2. work = <<>> /\ ToSet(work) = {}
    BY <2>1, EmptyContents DEF HandInv
  <2>3. ASSUME NEW k \in DOMAIN answers
        PROVE  \/ answers[k] = Head(answers)
               \/ \E j \in DOMAIN answers' : answers[k] = answers'[j]
    <3>1. /\ Len(answers) \in Nat /\ DOMAIN answers = 1 .. Len(answers)
          /\ Tail(answers) \in Seq(Answers) /\ Len(Tail(answers)) = Len(answers) - 1
          /\ \A i \in 1 .. Len(Tail(answers)) : Tail(answers)[i] = answers[i + 1]
      BY <1>a, <2>1, HeadTailProperties
    <3>2. CASE k = 1
      BY <3>2
    <3>3. CASE k # 1
      <4>1. /\ k - 1 \in 1 .. (Len(answers) - 1) /\ (k - 1) + 1 = k
            /\ DOMAIN Tail(answers) = 1 .. (Len(answers) - 1)
        BY <3>1, <3>3
      <4> QED
        BY <2>1, <3>1, <4>1
    <3> QED
      BY <3>2, <3>3
  <2>4. ASSUME NEW t, Held(t) PROVE Held(t)'
    BY <2>1, <2>2, <2>3, <2>4 DEF Held
  <2> QED
    BY <2>1, <2>4 DEF HandInv
<1>3. CASE ProcessingStopped \/ HashingStopped \/ InsertFails \/ MinerDies
  <2>1. lapses' # {} /\ (miner' # "hashing" => work' = <<>>)
    BY <1>3 DEF ProcessingStopped, HashingStopped, InsertFails, MinerDies, HandInv
  <2> QED
    BY <2>1 DEF HandInv
<1>4. CASE InsertBlock
  <2>1. /\ blocks' = Append(blocks, work) /\ miner' = "idle" /\ work' = <<>>
        /\ UNCHANGED <<queued, posted, programs, answers, lapses>>
    BY <1>4 DEF InsertBlock
  <2>2. /\ Len(blocks) \in Nat /\ DOMAIN blocks = 1 .. Len(blocks)
        /\ DOMAIN blocks' = 1 .. (Len(blocks) + 1)
        /\ \A b \in 1 .. Len(blocks) : blocks'[b] = blocks[b]
        /\ blocks'[Len(blocks) + 1] = work
    BY <1>a, <2>1, AppendProperties
  <2>3. ASSUME NEW t, Held(t) PROVE Held(t)'
    <3>1. CASE t \in ToSet(work)
      <4>1. Len(blocks) + 1 \in DOMAIN blocks'
        BY <2>2
      <4> QED
        BY <2>2, <3>1, <4>1 DEF Held
    <3>2. CASE \E b \in DOMAIN blocks : t \in ToSet(blocks[b])
      <4>1. \A b \in DOMAIN blocks : b \in DOMAIN blocks' /\ blocks'[b] = blocks[b]
        BY <2>2
      <4> QED
        BY <3>2, <4>1 DEF Held
    <3> QED
      BY <2>1, <2>3, <3>1, <3>2 DEF Held
  <2> QED
    BY <1>b, <2>1, <2>3 DEF HandInv
<1>5. ASSUME NEW p \in programs, GetNextTransaction(p) PROVE HandInv'
  <2> DEFINE q == [p EXCEPT !.current = <<Last(queued)[2]>>]
  <2>1. /\ p.current = <<>> /\ queued # <<>> /\ queued' = Front(queued)
        /\ programs' = (programs \ {p}) \cup {q}
        /\ UNCHANGED <<posted, miner, round, answers, work, blocks, lapses>>
    BY <1>5 DEF GetNextTransaction
  <2>2. Last(queued)[2] \in Nat
    BY <2>1, OldestQueued
  <2>3. /\ q.open = p.open /\ q.completed = p.completed /\ q.current = <<Last(queued)[2]>>
    BY <1>a, <2>2, ProgramParts
  <2>4. ToSet(p.current) = {} /\ Last(queued)[2] \in ToSet(q.current)
    BY <2>1, <2>3, EmptyContents DEF ToSet
  <2>5. /\ Len(queued) \in Nat /\ DOMAIN queued = 1 .. Len(queued)
        /\ Last(queued) = queued[Len(queued)] /\ DOMAIN queued' = 1 .. (Len(queued) - 1)
        /\ \A j \in 1 .. (Len(queued) - 1) : queued'[j] = queued[j]
    BY <1>a, <2>1, PopShape
  <2>6. \A i \in DOMAIN queued : i # Len(queued) => i \in DOMAIN queued' /\ queued'[i] = queued[i]
    BY <2>5
  <2> HIDE DEF q
  <2>7. ASSUME lapses = {}, NEW t, Held(t) PROVE Held(t)'
    <3>1. p.open /\ q.open
      BY <2>3, <2>7 DEF HandInv
    <3>2. CASE \E r \in programs : r.open /\ (t \in ToSet(r.completed) \/ t \in ToSet(r.current))
      BY <2>1, <2>3, <2>4, <3>1, <3>2 DEF Held
    <3>3. CASE \E i \in DOMAIN queued : queued[i][2] = t
      BY <2>1, <2>4, <2>5, <2>6, <3>1, <3>3 DEF Held
    <3> QED
      BY <2>1, <2>7, <3>2, <3>3 DEF Held
  <2>8. lapses = {} => \A r \in programs' : r.open
    BY <2>1, <2>3 DEF HandInv
  <2> QED
    BY <1>b, <2>1, <2>7, <2>8 DEF HandInv
<1>6. ASSUME NEW p \in programs, RunTransaction(p) PROVE HandInv'
  <2> DEFINE q == [p EXCEPT !.completed = @ \o p.current, !.current = <<>>]
  <2>1. /\ programs' = (programs \ {p}) \cup {q}
        /\ UNCHANGED <<queued, posted, miner, round, answers, work, blocks, lapses>>
    BY <1>6 DEF RunTransaction
  <2>2. q.open = p.open /\ q.completed = p.completed \o p.current
    BY <1>a, ProgramParts
  <2>3. p.completed \in Seq(Nat) /\ p.current \in Seq(Nat)
    BY <1>a, ProgramParts
  <2>4. ToSet(q.completed) = ToSet(p.completed) \cup ToSet(p.current)
    BY <2>2, <2>3, ConcatContents
  <2> HIDE DEF q
  <2>5. ASSUME NEW t, Held(t) PROVE Held(t)'
    <3>1. CASE \E r \in programs : r.open /\ (t \in ToSet(r.completed) \/ t \in ToSet(r.current))
      BY <2>1, <2>2, <2>4, <3>1 DEF Held
    <3> QED
      BY <2>1, <2>5, <3>1 DEF Held
  <2>6. lapses = {} => \A r \in programs' : r.open
    BY <2>1, <2>2 DEF HandInv
  <2> QED
    BY <1>b, <2>1, <2>5, <2>6 DEF HandInv
<1>7. ASSUME NEW p \in programs, ReturnCompleted(p) PROVE HandInv'
  <2> DEFINE a == [round |-> p.round, completed |-> p.completed]
  <2>1. /\ p.current = <<>> /\ programs' = programs \ {p}
        /\ p.open => answers' = Append(answers, a)
        /\ UNCHANGED <<queued, posted, miner, round, work, blocks, lapses>>
    BY <1>7 DEF ReturnCompleted
  <2>2. a \in Answers /\ a.completed = p.completed
    BY <1>a, ProgramParts DEF Answers
  <2> HIDE DEF a
  <2>3. p.open =>
          /\ Len(answers) \in Nat /\ DOMAIN answers = 1 .. Len(answers)
          /\ DOMAIN answers' = 1 .. (Len(answers) + 1)
          /\ \A k \in 1 .. Len(answers) : answers'[k] = answers[k]
          /\ answers'[Len(answers) + 1] = a
    <3> SUFFICES ASSUME p.open
                 PROVE  /\ Len(answers) \in Nat /\ DOMAIN answers = 1 .. Len(answers)
                        /\ DOMAIN answers' = 1 .. (Len(answers) + 1)
                        /\ \A k \in 1 .. Len(answers) : answers'[k] = answers[k]
                        /\ answers'[Len(answers) + 1] = a
      OBVIOUS
    <3>1. answers' = Append(answers, a)
      BY <2>1
    <3>2. /\ answers' \in Seq(Answers) /\ Len(answers') = Len(answers) + 1
          /\ \A k \in 1 .. Len(answers) : answers'[k] = answers[k]
          /\ answers'[Len(answers) + 1] = a
      BY <1>a, <2>2, <3>1, AppendProperties
    <3>3. Len(answers) \in Nat /\ DOMAIN answers = 1 .. Len(answers)
      BY <1>a
    <3> QED
      BY <3>2, <3>3
  <2>4. p.open =>
          /\ \A k \in DOMAIN answers : k \in DOMAIN answers' /\ answers'[k] = answers[k]
          /\ Len(answers) + 1 \in DOMAIN answers'
    BY <2>3
  <2>5. ToSet(p.current) = {}
    BY <2>1, EmptyContents
  <2>6. ASSUME lapses = {}, NEW t, Held(t) PROVE Held(t)'
    <3>1. p.open
      BY <2>6 DEF HandInv
    <3>2. CASE \E r \in programs : r.open /\ (t \in ToSet(r.completed) \/ t \in ToSet(r.current))
      BY <2>1, <2>2, <2>3, <2>4, <2>5, <3>1, <3>2 DEF Held
    <3> QED
      BY <2>1, <2>4, <2>6, <3>1, <3>2 DEF Held
  <2>7. lapses = {} => \A r \in programs' : r.open
    BY <2>1 DEF HandInv
  <2> QED
    BY <1>b, <2>1, <2>6, <2>7 DEF HandInv
<1>8. ASSUME NEW p \in programs, ProgramDies(p) PROVE HandInv'
  BY <1>8 DEF ProgramDies, HandInv
<1>9. CASE UNCHANGED vars
  BY <1>9, <1>b DEF vars, HandInv, Held
<1> QED
  BY <1>1, <1>2, <1>3, <1>4, <1>5, <1>6, <1>7, <1>8, <1>9 DEF Next, ProgramStep

\* Until a round is stopped, an insert fails, a program or Miner dies or a late
\* answer is taken, every transaction posted is queued, with a program that answers
\* to Miner, in Miner's hands or mined.
THEOREM NothingLostWithoutLapse == Spec => []LostOnlyByLapse
<1>1. Init => HandInv
  BY DEF Init, HandInv
<1>2. HandInv => LostOnlyByLapse
  BY HeldIsInHand DEF HandInv, LostOnlyByLapse
<1> QED
  BY <1>1, <1>2, InitTypeInv, NextTypeInv, NextHandInv, PTL DEF Spec

-----------------------------------------------------------------------------
(* MinedOnceInOrder *)

\* The transactions a program has taken.
Txs(p) == p.completed \o p.current

Increasing(s)  == \A i, j \in DOMAIN s : i < j => s[i] < s[j]

Sound(s, n)    == Increasing(s) /\ \A t \in ToSet(s) : t <= n

Disjoint(s, u) == ToSet(s) \cap ToSet(u) = {}

Below(s, u)    == \A x \in ToSet(s), y \in ToSet(u) : x < y

\* No two of the programs P, the answers A, the work w and the blocks B hold the
\* same transaction, each holds its own in order, and no transaction after n.
Once(P, A, w, B, n) ==
  /\ \A p \in P : Sound(Txs(p), n)
  /\ \A p, q \in P : p = q \/ Disjoint(Txs(p), Txs(q))
  /\ Sound(w, n)
  /\ \A p \in P : Disjoint(w, Txs(p))
  /\ \A k \in DOMAIN A : Sound(A[k].completed, n) /\ Disjoint(A[k].completed, w)
  /\ \A k \in DOMAIN A, p \in P : Disjoint(A[k].completed, Txs(p))
  /\ \A k, l \in DOMAIN A : k = l \/ Disjoint(A[k].completed, A[l].completed)
  /\ \A b \in DOMAIN B : Sound(B[b], n) /\ Disjoint(B[b], w)
  /\ \A b \in DOMAIN B, p \in P : Disjoint(B[b], Txs(p))
  /\ \A b \in DOMAIN B, k \in DOMAIN A : Disjoint(B[b], A[k].completed)
  /\ \A b, c \in DOMAIN B : b = c \/ Disjoint(B[b], B[c])

\* The blocks follow each other, and what the current round takes follows them.
Follows ==
  /\ \A b, c \in DOMAIN blocks : b < c => Below(blocks[b], blocks[c])
  /\ \A b \in DOMAIN blocks :
       /\ miner = "hashing" => Below(blocks[b], work)
       /\ miner = "processing" =>
            /\ \A p \in programs : p.round = round => Below(blocks[b], Txs(p))
            /\ \A k \in DOMAIN answers :
                 answers[k].round = round => Below(blocks[b], answers[k].completed)

OnceInv == Once(programs, answers, work, blocks, Taken)

OrderInv ==
  /\ \A p \in programs : p.round <= round
  /\ \A k \in DOMAIN answers : answers[k].round <= round
  /\ "late_answer" \notin lapses => Follows

LEMMA EmptySound == ASSUME NEW n PROVE Sound(<<>>, n) /\ \A s : Disjoint(<<>>, s) /\ Disjoint(s, <<>>)
BY EmptyContents DEF Sound, Increasing, Disjoint

\* Txs of a program that starts, takes a transaction, runs it or is cut off.
LEMMA TxsParts ==
  ASSUME NEW p \in Programs
  PROVE  /\ Txs(p) \in Seq(Nat)
         /\ p.current = <<>> => Txs(p) = p.completed
         /\ \A t \in Nat : p.current = <<>> =>
              Txs([p EXCEPT !.current = <<t>>]) = Append(Txs(p), t)
         /\ Txs([p EXCEPT !.completed = @ \o p.current, !.current = <<>>]) = Txs(p)
         /\ Txs([p EXCEPT !.open = FALSE]) = Txs(p)
<1>1. p.completed \in Seq(Nat) /\ p.current \in Seq(Nat)
  BY ProgramParts
<1>2. Txs(p) \in Seq(Nat)
  BY <1>1, ConcatProperties DEF Txs
<1>3. p.current = <<>> => Txs(p) = p.completed
  BY <1>1, ConcatEmptySeq DEF Txs
<1>4. ASSUME NEW t \in Nat, p.current = <<>>
      PROVE  Txs([p EXCEPT !.current = <<t>>]) = Append(Txs(p), t)
  <2>1. Txs([p EXCEPT !.current = <<t>>]) = p.completed \o <<t>>
    BY ProgramParts DEF Txs
  <2> QED
    BY <1>1, <1>3, <1>4, <2>1, AppendIsConcat
<1>5. Txs([p EXCEPT !.completed = @ \o p.current, !.current = <<>>]) = Txs(p)
  <2>1. Txs([p EXCEPT !.completed = @ \o p.current, !.current = <<>>]) = Txs(p) \o <<>>
    BY ProgramParts DEF Txs
  <2> QED
    BY <1>2, <2>1, ConcatEmptySeq
<1>6. Txs([p EXCEPT !.open = FALSE]) = Txs(p)
  BY ProgramParts DEF Txs
<1> QED
  BY <1>2, <1>3, <1>4, <1>5, <1>6

\* A transaction later than all others may be put at the end.
LEMMA AppendSound ==
  ASSUME NEW s \in Seq(Nat), NEW n \in Nat, Sound(s, n)
  PROVE  Sound(Append(s, n + 1), n + 1)
<1>1. /\ Len(s) \in Nat /\ DOMAIN s = 1 .. Len(s)
      /\ DOMAIN Append(s, n + 1) = 1 .. (Len(s) + 1)
      /\ \A i \in DOMAIN s : Append(s, n + 1)[i] = s[i]
      /\ Append(s, n + 1)[Len(s) + 1] = n + 1
  BY AppendProperties
<1>2. \A i \in DOMAIN s : s[i] \in Nat /\ s[i] <= n
  BY <1>1 DEF Sound, ToSet
<1>3. Increasing(Append(s, n + 1))
  <2> SUFFICES ASSUME NEW i \in 1 .. (Len(s) + 1), NEW j \in 1 .. (Len(s) + 1), i < j
               PROVE  Append(s, n + 1)[i] < Append(s, n + 1)[j]
    BY <1>1 DEF Increasing
  <2>1. CASE j = Len(s) + 1
    <3>1. i \in DOMAIN s
      BY <1>1, <2>1
    <3> QED
      BY <1>1, <1>2, <2>1, <3>1
  <2>2. CASE j # Len(s) + 1
    <3>1. i \in DOMAIN s /\ j \in DOMAIN s
      BY <1>1, <2>2
    <3> QED
      BY <1>1, <3>1 DEF Sound, Increasing
  <2> QED
    BY <2>1, <2>2
<1>4. ASSUME NEW t \in ToSet(Append(s, n + 1)) PROVE t <= n + 1
  <2>1. t = n + 1 \/ t \in ToSet(s)
    BY <1>4, AppendContents
  <2>2. t \in ToSet(s) => t \in Nat /\ t <= n
    BY <1>2 DEF ToSet
  <2> QED
    BY <2>1, <2>2
<1> QED
  BY <1>3, <1>4 DEF Sound

-----------------------------------------------------------------------------
(* How the steps move transactions *)

\* Programs that hold what others held, or that are fewer.
LEMMA OncePrograms ==
  ASSUME NEW P, NEW A, NEW w, NEW B, NEW n, NEW Q, Once(P, A, w, B, n),
         \A q \in Q : \E p \in P : Txs(p) = Txs(q),
         \A q, r \in Q : q = r \/ \E p, o \in P : p # o /\ Txs(p) = Txs(q) /\ Txs(o) = Txs(r)
  PROVE  Once(Q, A, w, B, n)
<1>1. /\ \A p \in Q : Sound(Txs(p), n)
      /\ \A p \in Q : Disjoint(w, Txs(p))
      /\ \A k \in DOMAIN A, p \in Q : Disjoint(A[k].completed, Txs(p))
      /\ \A b \in DOMAIN B, p \in Q : Disjoint(B[b], Txs(p))
  BY DEF Once
<1>2. \A p, q \in Q : p = q \/ Disjoint(Txs(p), Txs(q))
  BY DEF Once
<1> QED
  BY <1>1, <1>2 DEF Once

\* The work is given up.
LEMMA OnceNoWork ==
  ASSUME NEW P, NEW A, NEW w, NEW B, NEW n, Once(P, A, w, B, n)
  PROVE  Once(P, A, <<>>, B, n)
BY EmptySound DEF Once

\* The answers are lost.
LEMMA OnceNoAnswers ==
  ASSUME NEW P, NEW A, NEW w, NEW B, NEW n, Once(P, A, w, B, n)
  PROVE  Once(P, <<>>, w, B, n)
<1>1. DOMAIN <<>> = {}
  OBVIOUS
<1> QED
  BY <1>1 DEF Once

\* An answer becomes the work.
LEMMA OnceTakeAnswer ==
  ASSUME NEW P, NEW A \in Seq(Answers), NEW w, NEW B, NEW n, Once(P, A, w, B, n), A # <<>>
  PROVE  Once(P, Tail(A), Head(A).completed, B, n)
<1>1. /\ Len(A) \in Nat /\ Len(A) >= 1 /\ DOMAIN A = 1 .. Len(A)
      /\ Tail(A) \in Seq(Answers) /\ Len(Tail(A)) = Len(A) - 1
      /\ \A i \in 1 .. Len(Tail(A)) : Tail(A)[i] = A[i + 1]
  BY HeadTailProperties
<1>2. 1 \in DOMAIN A /\ Head(A) = A[1] /\ DOMAIN Tail(A) = 1 .. (Len(A) - 1)
  BY <1>1
<1>3. \A i \in DOMAIN Tail(A) : i + 1 \in DOMAIN A /\ i + 1 # 1 /\ Tail(A)[i] = A[i + 1]
  BY <1>1, <1>2
<1>4. \A i, j \in DOMAIN Tail(A) : i = j \/ i + 1 # j + 1
  BY <1>2
<1>5. /\ Sound(Head(A).completed, n)
      /\ \A p \in P : Disjoint(Head(A).completed, Txs(p))
      /\ \A b \in DOMAIN B : Disjoint(B[b], Head(A).completed)
  BY <1>2 DEF Once
<1>6. /\ \A k \in DOMAIN Tail(A) :
           Sound(Tail(A)[k].completed, n) /\ Disjoint(Tail(A)[k].completed, Head(A).completed)
      /\ \A k \in DOMAIN Tail(A), p \in P : Disjoint(Tail(A)[k].completed, Txs(p))
      /\ \A b \in DOMAIN B, k \in DOMAIN Tail(A) : Disjoint(B[b], Tail(A)[k].completed)
  BY <1>2, <1>3 DEF Once
<1>7. \A k, l \in DOMAIN Tail(A) : k = l \/ Disjoint(Tail(A)[k].completed, Tail(A)[l].completed)
  BY <1>3, <1>4 DEF Once
<1> QED
  BY <1>5, <1>6, <1>7 DEF Once

\* The work becomes a block.
LEMMA OnceMined ==
  ASSUME NEW P, NEW A, NEW w \in Seq(Nat), NEW B \in Seq(Seq(Nat)), NEW n, Once(P, A, w, B, n)
  PROVE  Once(P, A, <<>>, Append(B, w), n)
<1> DEFINE C == Append(B, w)
<1>1. /\ Len(B) \in Nat /\ DOMAIN B = 1 .. Len(B) /\ DOMAIN C = 1 .. (Len(B) + 1)
      /\ \A b \in DOMAIN B : C[b] = B[b]
      /\ C[Len(B) + 1] = w
  BY AppendProperties
<1> HIDE DEF C
<1>2. ASSUME NEW b \in DOMAIN C
      PROVE  (b \in DOMAIN B /\ C[b] = B[b]) \/ (b = Len(B) + 1 /\ C[b] = w)
  <2>1. b \in DOMAIN B \/ b = Len(B) + 1
    BY <1>1
  <2> QED
    BY <1>1, <2>1
<1>3. Sound(<<>>, n) /\ \A s : Disjoint(<<>>, s) /\ Disjoint(s, <<>>)
  BY EmptySound
<1>4. /\ \A b \in DOMAIN C : Sound(C[b], n)
      /\ \A b \in DOMAIN C, p \in P : Disjoint(C[b], Txs(p))
  BY <1>2 DEF Once
<1>5. \A b \in DOMAIN C, k \in DOMAIN A : Disjoint(C[b], A[k].completed)
  BY <1>2 DEF Once, Disjoint
<1>6. \A b, c \in DOMAIN C : b = c \/ Disjoint(C[b], C[c])
  BY <1>2 DEF Once, Disjoint
<1>7. Once(P, A, <<>>, C, n)
  BY <1>3, <1>4, <1>5, <1>6 DEF Once
<1> QED
  BY <1>7 DEF C

\* A program starts.
LEMMA OnceStart ==
  ASSUME NEW P, NEW A, NEW w, NEW B, NEW n, Once(P, A, w, B, n), NEW q, Txs(q) = <<>>
  PROVE  Once(P \cup {q}, A, w, B, n)
<1>1. Sound(Txs(q), n) /\ \A s : Disjoint(Txs(q), s) /\ Disjoint(s, Txs(q))
  BY EmptySound
<1>2. \A p \in P \cup {q} : p \in P \/ p = q
  OBVIOUS
<1> QED
  BY <1>1, <1>2 DEF Once

\* A program takes the next transaction.
LEMMA OnceTake ==
  ASSUME NEW P \in SUBSET Programs, NEW A, NEW w, NEW B, NEW n \in Nat, Once(P, A, w, B, n),
         \A k \in DOMAIN A : A[k].completed \in Seq(Nat), w \in Seq(Nat),
         \A b \in DOMAIN B : B[b] \in Seq(Nat),
         NEW p \in P, NEW q, Txs(q) = Append(Txs(p), n + 1)
  PROVE  Once((P \ {p}) \cup {q}, A, w, B, n + 1)
<1> DEFINE Q == (P \ {p}) \cup {q}
<1>1. ASSUME NEW s \in Seq(Nat), Sound(s, n)
      PROVE  Sound(s, n + 1) /\ n + 1 \notin ToSet(s)
  <2>1. \A t \in ToSet(s) : t \in Nat /\ t <= n
    <3>1. \A i \in DOMAIN s : s[i] \in Nat
      OBVIOUS
    <3> QED
      BY <1>1, <3>1 DEF Sound, ToSet
  <2> QED
    BY <1>1, <2>1 DEF Sound
<1>2. \A r \in P : Txs(r) \in Seq(Nat) /\ Sound(Txs(r), n + 1) /\ n + 1 \notin ToSet(Txs(r))
  BY <1>1, TxsParts DEF Once
<1>3. Sound(w, n + 1) /\ n + 1 \notin ToSet(w)
  BY <1>1 DEF Once
<1>4. \A k \in DOMAIN A : Sound(A[k].completed, n + 1) /\ n + 1 \notin ToSet(A[k].completed)
  BY <1>1 DEF Once
<1>5. \A b \in DOMAIN B : Sound(B[b], n + 1) /\ n + 1 \notin ToSet(B[b])
  BY <1>1 DEF Once
<1>6. Sound(Txs(q), n + 1) /\ ToSet(Txs(q)) = ToSet(Txs(p)) \cup {n + 1}
  <2>1. Txs(p) \in Seq(Nat) /\ Sound(Txs(p), n)
    BY <1>2 DEF Once
  <2>2. Sound(Append(Txs(p), n + 1), n + 1)
    BY <2>1, AppendSound
  <2>3. ToSet(Append(Txs(p), n + 1)) = ToSet(Txs(p)) \cup {n + 1}
    BY <2>1, AppendContents
  <2> QED
    BY <2>2, <2>3
<1>7. ASSUME NEW s, Disjoint(s, Txs(p)), n + 1 \notin ToSet(s)
      PROVE  Disjoint(s, Txs(q)) /\ Disjoint(Txs(q), s)
  BY <1>6, <1>7 DEF Disjoint
<1> HIDE DEF Q
<1>8. \A r \in Q : (r \in P /\ r # p) \/ r = q
  BY DEF Q
<1>9. \A r \in Q : Sound(Txs(r), n + 1)
  BY <1>2, <1>6, <1>8
<1>10. \A r, o \in Q : r = o \/ Disjoint(Txs(r), Txs(o))
  <2> SUFFICES ASSUME NEW r \in Q, NEW o \in Q, r # o PROVE Disjoint(Txs(r), Txs(o))
    OBVIOUS
  <2>1. CASE r \in P /\ r # p /\ o \in P /\ o # p
    BY <2>1 DEF Once
  <2>2. CASE r \in P /\ r # p /\ o = q
    <3>1. Disjoint(Txs(r), Txs(p))
      BY <2>2 DEF Once
    <3> QED
      BY <1>2, <1>7, <2>2, <3>1
  <2>3. CASE o \in P /\ o # p /\ r = q
    <3>1. Disjoint(Txs(o), Txs(p))
      BY <2>3 DEF Once
    <3> QED
      BY <1>2, <1>7, <2>3, <3>1
  <2> QED
    BY <1>8, <2>1, <2>2, <2>3
<1>11. \A r \in Q : Disjoint(w, Txs(r))
  BY <1>3, <1>7, <1>8 DEF Once
<1>12. \A k \in DOMAIN A, r \in Q : Disjoint(A[k].completed, Txs(r))
  BY <1>4, <1>7, <1>8 DEF Once
<1>13. \A b \in DOMAIN B, r \in Q : Disjoint(B[b], Txs(r))
  BY <1>5, <1>7, <1>8 DEF Once
<1>14. Once(Q, A, w, B, n + 1)
  BY <1>3, <1>4, <1>5, <1>9, <1>10, <1>11, <1>12, <1>13 DEF Once
<1> QED
  BY <1>14 DEF Q

\* A program answers.
LEMMA OnceAnswer ==
  ASSUME NEW P, NEW A \in Seq(Answers), NEW w, NEW B, NEW n, Once(P, A, w, B, n),
         NEW p \in P, NEW a \in Answers, a.completed = Txs(p)
  PROVE  Once(P \ {p}, Append(A, a), w, B, n)
<1> DEFINE C == Append(A, a)
<1>1. /\ Len(A) \in Nat /\ DOMAIN A = 1 .. Len(A) /\ DOMAIN C = 1 .. (Len(A) + 1)
      /\ \A k \in DOMAIN A : C[k] = A[k]
      /\ C[Len(A) + 1] = a
  BY AppendProperties
<1> HIDE DEF C
<1>2. ASSUME NEW k \in DOMAIN C
      PROVE  (k \in DOMAIN A /\ C[k] = A[k]) \/ (k = Len(A) + 1 /\ C[k] = a)
  <2>1. k \in DOMAIN A \/ k = Len(A) + 1
    BY <1>1
  <2> QED
    BY <1>1, <2>1
<1>3. \A k \in DOMAIN C : Sound(C[k].completed, n) /\ Disjoint(C[k].completed, w)
  BY <1>2 DEF Once, Disjoint
<1>4. \A k \in DOMAIN C, q \in P \ {p} : Disjoint(C[k].completed, Txs(q))
  BY <1>2 DEF Once, Disjoint
<1>5. \A k, l \in DOMAIN C : k = l \/ Disjoint(C[k].completed, C[l].completed)
  BY <1>2 DEF Once, Disjoint
<1>6. \A b \in DOMAIN B, k \in DOMAIN C : Disjoint(B[b], C[k].completed)
  BY <1>2 DEF Once
<1>7. Once(P \ {p}, C, w, B, n)
  BY <1>3, <1>4, <1>5, <1>6 DEF Once
<1> QED
  BY <1>7 DEF C

-----------------------------------------------------------------------------

\* No step puts a transaction into a second hand.
LEMMA NextOnceInv == TypeInv /\ OnceInv /\ [Next]_vars => OnceInv'
<1> SUFFICES ASSUME TypeInv, OnceInv, [Next]_vars PROVE OnceInv'
  OBVIOUS
<1> USE DEF minerVars
<1>a. /\ queued \in Seq(Entries) /\ posted \in Nat /\ programs \subseteq Programs
      /\ answers \in Seq(Answers) /\ work \in Seq(Nat) /\ blocks \in Seq(Seq(Nat))
  BY DEF TypeInv, TypeOK
<1>b. Once(programs, answers, work, blocks, Taken)
  BY DEF OnceInv
<1>c. UNCHANGED <<queued, posted>> => Taken' = Taken
  BY DEF Taken
<1>1. CASE Receive
  <2>1. Taken' = Taken
    BY <1>1, PostTypes DEF Receive
  <2> QED
    BY <1>1, <1>b, <2>1 DEF Receive, OnceInv
<1>2. CASE MineNextBlock
  <2> DEFINE q == [round |-> round', completed |-> <<>>, current |-> <<>>, open |-> TRUE]
  <2>1. Taken' = Taken
    BY <1>2, PostTypes DEF MineNextBlock
  <2>2. programs' = programs \cup {q} /\ UNCHANGED <<answers, work, blocks>>
    BY <1>2 DEF MineNextBlock
  <2>3. Txs(q) = <<>>
    <3>1. q.completed = <<>> /\ q.current = <<>> /\ <<>> \in Seq(Nat)
      OBVIOUS
    <3> QED
      BY <3>1, ConcatEmptySeq DEF Txs
  <2> HIDE DEF q
  <2>4. Once(programs \cup {q}, answers, work, blocks, Taken)
    BY <1>b, <2>3, OnceStart
  <2> QED
    BY <2>1, <2>2, <2>4 DEF OnceInv
<1>3. CASE ProcessingDone
  <2>1. Once(programs, Tail(answers), Head(answers).completed, blocks, Taken)
    BY <1>3, <1>a, <1>b, OnceTakeAnswer DEF ProcessingDone
  <2> QED
    BY <1>3, <1>c, <2>1 DEF ProcessingDone, OnceInv
<1>d. ASSUME NEW F \in SUBSET programs,
             programs' = {IF p \in F THEN [p EXCEPT !.open = FALSE] ELSE p : p \in programs}
      PROVE  Once(programs', answers, work, blocks, Taken)
  <2> DEFINE m(p) == IF p \in F THEN [p EXCEPT !.open = FALSE] ELSE p
  <2>1. \A p \in programs : Txs(m(p)) = Txs(p)
    BY <1>a, TxsParts
  <2>2. programs' = {m(p) : p \in programs}
    BY <1>d
  <2> HIDE DEF m
  <2>3. \A q \in programs' : \E p \in programs : Txs(p) = Txs(q)
    BY <2>1, <2>2
  <2>4. \A q, r \in programs' : q = r \/ \E p, o \in programs :
          p # o /\ Txs(p) = Txs(q) /\ Txs(o) = Txs(r)
    BY <2>1, <2>2
  <2> QED
    BY <1>b, <2>3, <2>4, OncePrograms
<1>4. CASE ProcessingStopped
  <2> DEFINE F == {p \in programs : p.round = round}
  <2>1. programs' = {IF p \in F THEN [p EXCEPT !.open = FALSE] ELSE p : p \in programs}
    BY <1>4 DEF ProcessingStopped
  <2>2. Once(programs', answers, work, blocks, Taken)
    BY <1>d, <2>1
  <2> QED
    BY <1>4, <1>c, <2>2 DEF ProcessingStopped, OnceInv
<1>5. CASE HashingStopped \/ InsertFails
  <2>1. Once(programs, answers, <<>>, blocks, Taken)
    BY <1>b, OnceNoWork
  <2> QED
    BY <1>5, <1>c, <2>1 DEF HashingStopped, InsertFails, OnceInv
<1>6. CASE InsertBlock
  <2>1. Once(programs, answers, <<>>, Append(blocks, work), Taken)
    BY <1>a, <1>b, OnceMined
  <2> QED
    BY <1>6, <1>c, <2>1 DEF InsertBlock, OnceInv
<1>7. CASE MinerDies
  <2>1. programs' = {IF p \in programs THEN [p EXCEPT !.open = FALSE] ELSE p : p \in programs}
    BY <1>7 DEF MinerDies
  <2>2. Once(programs', answers, work, blocks, Taken)
    BY <1>d, <2>1
  <2>3. Once(programs', <<>>, <<>>, blocks, Taken)
    BY <2>2, OnceNoWork, OnceNoAnswers
  <2> QED
    BY <1>7, <1>c, <2>3 DEF MinerDies, OnceInv
<1>8. ASSUME NEW p \in programs, GetNextTransaction(p) PROVE OnceInv'
  <2> DEFINE q == [p EXCEPT !.current = <<Last(queued)[2]>>]
  <2>1. /\ p.current = <<>> /\ queued # <<>> /\ queued' = Front(queued)
        /\ programs' = (programs \ {p}) \cup {q}
        /\ UNCHANGED <<posted, answers, work, blocks>>
    BY <1>8 DEF GetNextTransaction
  <2>2. /\ Last(queued)[2] = Taken + 1 /\ Taken \in Nat
        /\ posted - Len(Front(queued)) = Taken + 1
    BY <2>1, OldestQueued
  <2>3. Taken' = Taken + 1
    BY <2>1, <2>2 DEF Taken
  <2>4. Txs(q) = Append(Txs(p), Taken + 1)
    <3>1. p \in Programs /\ Taken + 1 \in Nat
      BY <1>a, <2>2
    <3> QED
      BY <2>1, <2>2, <3>1, TxsParts
  <2> HIDE DEF q
  <2>5. \A k \in DOMAIN answers : answers[k].completed \in Seq(Nat)
    <3>1. \A k \in DOMAIN answers : answers[k] \in Answers
      BY <1>a
    <3> QED
      BY <3>1 DEF Answers
  <2>6. \A b \in DOMAIN blocks : blocks[b] \in Seq(Nat)
    BY <1>a
  <2>7. programs \in SUBSET Programs
    BY <1>a
  <2>8. Once((programs \ {p}) \cup {q}, answers, work, blocks, Taken + 1)
    BY <1>a, <1>b, <2>2, <2>4, <2>5, <2>6, <2>7, OnceTake
  <2> QED
    BY <2>1, <2>3, <2>8 DEF OnceInv
<1>9. ASSUME NEW p \in programs, RunTransaction(p) PROVE OnceInv'
  <2> DEFINE q == [p EXCEPT !.completed = @ \o p.current, !.current = <<>>]
  <2>1. /\ programs' = (programs \ {p}) \cup {q}
        /\ UNCHANGED <<queued, posted, answers, work, blocks>>
    BY <1>9 DEF RunTransaction
  <2>2. Txs(q) = Txs(p)
    BY <1>a, TxsParts
  <2> HIDE DEF q
  <2>3. \A r \in programs' : \E o \in programs : Txs(o) = Txs(r)
    BY <2>1, <2>2
  <2>4. \A r, s \in programs' : r = s \/ \E u, o \in programs :
          u # o /\ Txs(u) = Txs(r) /\ Txs(o) = Txs(s)
    BY <2>1, <2>2
  <2>5. Once(programs', answers, work, blocks, Taken)
    BY <1>b, <2>3, <2>4, OncePrograms
  <2> QED
    BY <1>c, <2>1, <2>5 DEF OnceInv
<1>e. ASSUME NEW p \in programs PROVE Once(programs \ {p}, answers, work, blocks, Taken)
  BY <1>b, OncePrograms
<1>10. ASSUME NEW p \in programs, ReturnCompleted(p) PROVE OnceInv'
  <2> DEFINE a == [round |-> p.round, completed |-> p.completed]
  <2>1. /\ p.current = <<>> /\ programs' = programs \ {p}
        /\ answers' = Append(answers, a) \/ answers' = answers
        /\ UNCHANGED <<queued, posted, work, blocks>>
    BY <1>10 DEF ReturnCompleted
  <2>2. a \in Answers /\ a.completed = Txs(p)
    <3>1. a \in Answers
      BY <1>a, ProgramParts DEF Answers
    <3>2. p.completed = Txs(p)
      BY <1>a, <2>1, TxsParts
    <3> QED
      BY <3>1, <3>2
  <2> HIDE DEF a
  <2>3. CASE answers' = Append(answers, a)
    <3>1. Once(programs \ {p}, Append(answers, a), work, blocks, Taken)
      BY <1>a, <1>b, <2>2, OnceAnswer
    <3> QED
      BY <1>c, <2>1, <2>3, <3>1 DEF OnceInv
  <2>4. CASE answers' = answers
    BY <1>c, <1>e, <2>1, <2>4 DEF OnceInv
  <2> QED
    BY <2>1, <2>3, <2>4
<1>11. ASSUME NEW p \in programs, ProgramDies(p) PROVE OnceInv'
  BY <1>11, <1>c, <1>e DEF ProgramDies, OnceInv
<1>12. CASE UNCHANGED vars
  BY <1>12, <1>b, <1>c DEF vars, OnceInv
<1> QED
  BY <1>1, <1>2, <1>3, <1>4, <1>5, <1>6, <1>7, <1>8, <1>9, <1>10, <1>11, <1>12
     DEF Next, ProgramStep

\* Blocks and rounds follow each other, unless a late answer was taken.
LEMMA NextOrderInv == TypeInv /\ OnceInv /\ OrderInv /\ [Next]_vars => OrderInv'
<1> SUFFICES ASSUME TypeInv, OnceInv, OrderInv, [Next]_vars PROVE OrderInv'
  OBVIOUS
<1> USE DEF minerVars
<1>a. /\ queued \in Seq(Entries) /\ posted \in Nat /\ programs \subseteq Programs
      /\ round \in Nat
      /\ answers \in Seq(Answers) /\ work \in Seq(Nat) /\ blocks \in Seq(Seq(Nat))
  BY DEF TypeInv, TypeOK
<1>b. /\ \A p \in programs : p.round \in Nat /\ p.round <= round
      /\ \A k \in DOMAIN answers : answers[k].round \in Nat /\ answers[k].round <= round
  <2>1. \A k \in DOMAIN answers : answers[k] \in Answers
    BY <1>a
  <2> QED
    BY <1>a, <2>1, ProgramParts DEF OrderInv, Answers
<1>c. \A s : Below(s, <<>>)
  BY EmptyContents DEF Below
<1>1. CASE Receive
  BY <1>1 DEF Receive, OrderInv, Follows
<1>2. CASE MineNextBlock
  <2> DEFINE q == [round |-> round', completed |-> <<>>, current |-> <<>>, open |-> TRUE]
  <2>1. /\ round' = round + 1 /\ programs' = programs \cup {q} /\ miner' = "processing"
        /\ UNCHANGED <<answers, work, blocks, lapses>>
    BY <1>2 DEF MineNextBlock
  <2>2. Txs(q) = <<>> /\ q.round = round + 1
    <3>1. q.completed = <<>> /\ q.current = <<>> /\ <<>> \in Seq(Nat)
      OBVIOUS
    <3> QED
      BY <2>1, <3>1, ConcatEmptySeq DEF Txs
  <2> HIDE DEF q
  <2>3. \A r \in programs' : r.round <= round' /\ (r.round = round' => Txs(r) = <<>>)
    BY <1>a, <1>b, <2>1, <2>2
  <2>4. \A k \in DOMAIN answers' : answers'[k].round <= round' /\ answers'[k].round # round'
    BY <1>a, <1>b, <2>1
  <2>5. Follows => Follows'
    BY <1>c, <2>1, <2>3, <2>4 DEF Follows
  <2> QED
    BY <2>1, <2>3, <2>4, <2>5 DEF OrderInv
<1>3. CASE ProcessingDone
  <2>1. /\ miner = "processing" /\ answers # <<>> /\ miner' = "hashing"
        /\ work' = Head(answers).completed /\ answers' = Tail(answers)
        /\ UNCHANGED <<programs, round, blocks>>
        /\ lapses' = lapses \cup (IF Head(answers).round = round THEN {} ELSE {"late_answer"})
    BY <1>3 DEF ProcessingDone
  <2>2. 1 \in DOMAIN answers /\ Head(answers) = answers[1]
    BY <1>a, <2>1
  <2>3. \A k \in DOMAIN answers' : k + 1 \in DOMAIN answers /\ answers'[k] = answers[k + 1]
    BY <1>a, <2>1
  <2>4. \A k \in DOMAIN answers' : answers'[k].round <= round'
    BY <1>b, <2>1, <2>3
  <2>5. ASSUME "late_answer" \notin lapses' PROVE Follows'
    <3>1. answers[1].round = round /\ "late_answer" \notin lapses
      BY <2>1, <2>2, <2>5
    <3>2. Follows
      BY <3>1 DEF OrderInv
    <3> QED
      BY <2>1, <2>2, <3>1, <3>2 DEF Follows
  <2> QED
    BY <1>b, <2>1, <2>4, <2>5 DEF OrderInv
<1>d. ASSUME miner' = "idle", UNCHANGED <<round, blocks>>, lapses \subseteq lapses',
             \A p \in programs' : \E q \in programs : q.round = p.round,
             answers' = answers \/ answers' = <<>>
      PROVE  OrderInv'
  <2>1. \A p \in programs' : p.round <= round'
    BY <1>b, <1>d
  <2>2. \A k \in DOMAIN answers' : answers'[k].round <= round'
    BY <1>b, <1>d
  <2>3. "late_answer" \notin lapses' => Follows'
    BY <1>d DEF OrderInv, Follows
  <2> QED
    BY <2>1, <2>2, <2>3 DEF OrderInv
<1>e. \A p \in programs : [p EXCEPT !.open = FALSE].round = p.round
  BY <1>a, ProgramParts
<1>4. CASE ProcessingStopped
  <2>1. \A p \in programs' : \E q \in programs : q.round = p.round
    BY <1>4, <1>e DEF ProcessingStopped
  <2> QED
    BY <1>4, <1>d, <2>1 DEF ProcessingStopped
<1>5. CASE HashingStopped \/ InsertFails
  BY <1>5, <1>d DEF HashingStopped, InsertFails
<1>6. CASE InsertBlock
  <2>1. /\ miner = "hashing" /\ blocks' = Append(blocks, work) /\ miner' = "idle"
        /\ UNCHANGED <<programs, round, answers, lapses>>
    BY <1>6 DEF InsertBlock
  <2>2. /\ Len(blocks) \in Nat /\ DOMAIN blocks = 1 .. Len(blocks)
        /\ DOMAIN blocks' = 1 .. (Len(blocks) + 1)
        /\ \A b \in 1 .. Len(blocks) : blocks'[b] = blocks[b]
        /\ blocks'[Len(blocks) + 1] = work
    BY <1>a, <2>1, AppendProperties
  <2>3. ASSUME Follows, NEW b \in DOMAIN blocks', NEW c \in DOMAIN blocks', b < c
        PROVE  Below(blocks'[b], blocks'[c])
    <3>1. b \in DOMAIN blocks /\ blocks'[b] = blocks[b]
      BY <2>2, <2>3
    <3>2. CASE c = Len(blocks) + 1
      BY <2>1, <2>2, <2>3, <3>1, <3>2 DEF Follows
    <3>3. CASE c # Len(blocks) + 1
      <4>1. c \in DOMAIN blocks /\ blocks'[c] = blocks[c]
        BY <2>2, <3>3
      <4> QED
        BY <2>3, <3>1, <4>1 DEF Follows
    <3> QED
      BY <3>2, <3>3
  <2>4. Follows => Follows'
    BY <2>1, <2>3 DEF Follows
  <2> QED
    BY <1>b, <2>1, <2>4 DEF OrderInv
<1>7. CASE MinerDies
  <2>1. \A p \in programs' : \E q \in programs : q.round = p.round
    BY <1>7, <1>e DEF MinerDies
  <2> QED
    BY <1>7, <1>d, <2>1 DEF MinerDies
<1>8. ASSUME NEW p \in programs, GetNextTransaction(p) PROVE OrderInv'
  <2> DEFINE q == [p EXCEPT !.current = <<Last(queued)[2]>>]
  <2>1. /\ p.current = <<>> /\ queued # <<>>
        /\ programs' = (programs \ {p}) \cup {q}
        /\ UNCHANGED <<miner, round, answers, work, blocks, lapses>>
    BY <1>8 DEF GetNextTransaction
  <2>2. Last(queued)[2] = Taken + 1 /\ Taken \in Nat
    BY <2>1, OldestQueued
  <2>3. p \in Programs /\ Taken + 1 \in Nat /\ Txs(p) \in Seq(Nat)
    <3>1. p \in Programs
      BY <1>a
    <3>2. Txs(p) \in Seq(Nat)
      BY <3>1, TxsParts
    <3> QED
      BY <2>2, <3>1, <3>2
  <2>4. Txs(q) = Append(Txs(p), Taken + 1) /\ q.round = p.round
    <3>1. Txs(q) = Append(Txs(p), Taken + 1)
      BY <2>1, <2>2, <2>3, TxsParts
    <3>2. q.round = p.round
      BY <2>2, <2>3, ProgramParts
    <3> QED
      BY <3>1, <3>2
  <2> HIDE DEF q
  <2>5. ToSet(Txs(q)) = ToSet(Txs(p)) \cup {Taken + 1}
    BY <2>3, <2>4, AppendContents
  <2>6. ASSUME NEW b \in DOMAIN blocks, Below(blocks[b], Txs(p))
        PROVE  Below(blocks[b], Txs(q))
    <3>1. blocks[b] \in Seq(Nat)
      BY <1>a
    <3>2. \A x \in ToSet(blocks[b]) : x \in Nat /\ x <= Taken
      <4>1. \A i \in DOMAIN blocks[b] : blocks[b][i] \in Nat
        BY <3>1
      <4>2. Sound(blocks[b], Taken)
        BY DEF OnceInv, Once
      <4> QED
        BY <4>1, <4>2 DEF Sound, ToSet
    <3>3. \A x \in ToSet(blocks[b]) : x < Taken + 1
      BY <2>2, <3>2
    <3> QED
      BY <2>5, <2>6, <3>3 DEF Below
  <2>7. Follows => Follows'
    BY <2>1, <2>4, <2>6 DEF Follows
  <2>8. \A r \in programs' : r.round <= round'
    BY <1>b, <2>1, <2>4
  <2> QED
    BY <1>b, <2>1, <2>7, <2>8 DEF OrderInv
<1>9. ASSUME NEW p \in programs, RunTransaction(p) PROVE OrderInv'
  <2> DEFINE q == [p EXCEPT !.completed = @ \o p.current, !.current = <<>>]
  <2>1. /\ programs' = (programs \ {p}) \cup {q}
        /\ UNCHANGED <<miner, round, answers, work, blocks, lapses>>
    BY <1>9 DEF RunTransaction
  <2>2. Txs(q) = Txs(p) /\ q.round = p.round
    BY <1>a, TxsParts, ProgramParts
  <2> HIDE DEF q
  <2>3. Follows => Follows'
    BY <2>1, <2>2 DEF Follows
  <2>4. \A r \in programs' : r.round <= round'
    BY <1>b, <2>1, <2>2
  <2> QED
    BY <1>b, <2>1, <2>3, <2>4 DEF OrderInv
<1>10. ASSUME NEW p \in programs, ReturnCompleted(p) PROVE OrderInv'
  <2> DEFINE a == [round |-> p.round, completed |-> p.completed]
  <2>1. /\ p.current = <<>> /\ programs' = programs \ {p}
        /\ answers' = Append(answers, a) \/ answers' = answers
        /\ UNCHANGED <<miner, round, work, blocks, lapses>>
    BY <1>10 DEF ReturnCompleted
  <2>2. a \in Answers /\ a.completed = Txs(p) /\ a.round = p.round
    <3>1. a \in Answers
      BY <1>a, ProgramParts DEF Answers
    <3>2. p.completed = Txs(p)
      BY <1>a, <2>1, TxsParts
    <3> QED
      BY <3>1, <3>2
  <2> HIDE DEF a
  <2>3. \A k \in DOMAIN answers' :
          \/ k \in DOMAIN answers /\ answers'[k] = answers[k]
          \/ answers'[k] = a
    <3>1. CASE answers' = Append(answers, a)
      BY <1>a, <2>2, <3>1, AppendProperties
    <3> QED
      BY <2>1, <3>1
  <2>4. \A k \in DOMAIN answers' : answers'[k].round <= round'
    BY <1>b, <2>1, <2>2, <2>3
  <2>5. Follows => Follows'
    BY <2>1, <2>2, <2>3 DEF Follows
  <2> QED
    BY <1>b, <2>1, <2>4, <2>5 DEF OrderInv
<1>11. ASSUME NEW p \in programs, ProgramDies(p) PROVE OrderInv'
  <2>1. programs' \subseteq programs /\ UNCHANGED minerVars /\ lapses \subseteq lapses'
    BY <1>11 DEF ProgramDies
  <2>2. Follows => Follows'
    BY <2>1 DEF Follows
  <2> QED
    BY <1>b, <2>1, <2>2 DEF OrderInv
<1>12. CASE UNCHANGED vars
  BY <1>12 DEF vars, OrderInv, Follows
<1> QED
  BY <1>1, <1>2, <1>3, <1>4, <1>5, <1>6, <1>7, <1>8, <1>9, <1>10, <1>11, <1>12
     DEF Next, ProgramStep

\* Although programs of stopped rounds take transactions beside the current one,
\* no transaction is mined twice, and none before one that was posted earlier
\* unless a late answer was taken.
THEOREM MinedOnce == Spec => []MinedOnceInOrder
<1>1. Init => OnceInv /\ OrderInv
  <2>1. ASSUME Init PROVE Once({}, <<>>, <<>>, <<>>, Taken)
    <3>1. DOMAIN <<>> = {}
      OBVIOUS
    <3> QED
      BY <3>1, EmptySound DEF Once
  <2> QED
    BY <2>1 DEF Init, OnceInv, OrderInv, Follows
<1>2. TypeInv /\ OnceInv /\ OrderInv => MinedOnceInOrder
  <2> SUFFICES ASSUME TypeInv, OnceInv, OrderInv,
                      NEW b \in DOMAIN blocks, NEW c \in DOMAIN blocks,
                      NEW i \in DOMAIN blocks[b], NEW j \in DOMAIN blocks[c],
                      b < c \/ (b = c /\ i < j)
               PROVE  /\ blocks[b][i] # blocks[c][j]
                      /\ "late_answer" \notin lapses => blocks[b][i] < blocks[c][j]
    BY DEF MinedOnceInOrder
  <2>1. blocks \in Seq(Seq(Nat)) /\ blocks[b] \in Seq(Nat) /\ blocks[c] \in Seq(Nat)
    BY DEF TypeInv, TypeOK
  <2>2. b \in Nat /\ c \in Nat /\ blocks[b][i] \in Nat /\ blocks[c][j] \in Nat
    BY <2>1
  <2>3. blocks[b][i] \in ToSet(blocks[b]) /\ blocks[c][j] \in ToSet(blocks[c])
    BY DEF ToSet
  <2>4. CASE b < c
    <3>1. Disjoint(blocks[b], blocks[c])
      BY <2>2, <2>4 DEF OnceInv, Once
    <3>2. "late_answer" \notin lapses => Below(blocks[b], blocks[c])
      BY <2>4 DEF OrderInv, Follows
    <3> QED
      BY <2>3, <3>1, <3>2 DEF Disjoint, Below
  <2>5. CASE b = c /\ i < j
    <3>1. Increasing(blocks[b])
      BY DEF OnceInv, Once, Sound
    <3>2. blocks[b][i] < blocks[c][j]
      BY <2>5, <3>1 DEF Increasing
    <3> QED
      BY <2>2, <3>2
  <2> QED
    BY <2>4, <2>5
<1> QED
  BY <1>1, <1>2, InitTypeInv, NextTypeInv, NextOnceInv, NextOrderInv, PTL DEF Spec

-----------------------------------------------------------------------------
(* ImplementsTransactionPool *)

\* Pending, transaction by transaction.
Waits(t) ==
  \/ t \in ToSet(work)
  \/ \E p \in programs : p.open /\ (t \in ToSet(p.completed) \/ t \in ToSet(p.current))
  \/ \E k \in DOMAIN answers : t \in ToSet(answers[k].completed)
  \/ \E i \in DOMAIN queued : queued[i][2] = t

LEMMA PendingWaits == \A t : t \in Pending <=> Waits(t)
<1> SUFFICES ASSUME NEW t PROVE t \in Pending <=> Waits(t)
  OBVIOUS
<1>1. (t \in UNION {ToSet(p.completed) \cup ToSet(p.current) : p \in {q \in programs : q.open}})
        <=> \E p \in programs : p.open /\ (t \in ToSet(p.completed) \/ t \in ToSet(p.current))
  OBVIOUS
<1>2. (t \in UNION {ToSet(answers[i].completed) : i \in DOMAIN answers})
        <=> \E k \in DOMAIN answers : t \in ToSet(answers[k].completed)
  OBVIOUS
<1>3. (t \in {queued[i][2] : i \in DOMAIN queued}) <=> \E i \in DOMAIN queued : queued[i][2] = t
  OBVIOUS
<1> QED
  BY <1>1, <1>2, <1>3 DEF Pending, Waits

LEMMA PendingWaitsNext == \A t : t \in Pending' <=> Waits(t)'
<1> SUFFICES ASSUME NEW t PROVE t \in Pending' <=> Waits(t)'
  OBVIOUS
<1>1. (t \in UNION {ToSet(p.completed) \cup ToSet(p.current) : p \in {q \in programs' : q.open}})
        <=> \E p \in programs' : p.open /\ (t \in ToSet(p.completed) \/ t \in ToSet(p.current))
  OBVIOUS
<1>2. (t \in UNION {ToSet(answers'[i].completed) : i \in DOMAIN answers'})
        <=> \E k \in DOMAIN answers' : t \in ToSet(answers'[k].completed)
  OBVIOUS
<1>3. (t \in {queued'[i][2] : i \in DOMAIN queued'}) <=> \E i \in DOMAIN queued' : queued'[i][2] = t
  OBVIOUS
<1> QED
  BY <1>1, <1>2, <1>3 DEF Pending, Waits

\* A step that only hands transactions on is not seen ...
LEMMA PoolStutters ==
  ASSUME \A t : Waits(t)' <=> Waits(t), UNCHANGED <<posted, blocks, lapses>>
  PROVE  UNCHANGED Pool!poolVars
<1>1. Pending' = Pending
  BY PendingWaits, PendingWaitsNext
<1> QED
  BY <1>1 DEF Pool!poolVars

\* ... and one that drops some is a failure.
LEMMA PoolFails ==
  ASSUME \A t : Waits(t)' => Waits(t), UNCHANGED <<posted, blocks>>, lapses' # {}
  PROVE  Pool!Next
<1>1. Pending' \subseteq Pending
  BY PendingWaits, PendingWaitsNext
<1>2. Pool!Fail
  BY <1>1 DEF Pool!Fail
<1> QED
  BY <1>2 DEF Pool!Next

\* A transaction that is posted waits at the new end of the queue.
LEMMA PoolSubmits ==
  ASSUME TypeInv, Post, UNCHANGED <<answers, work, blocks, lapses>>, programs \subseteq programs',
         \A p \in programs' \ programs : p.completed = <<>> /\ p.current = <<>>
  PROVE  Pool!Next
<1>1. queued \in Seq(Entries) /\ posted \in Nat
  BY DEF TypeInv, TypeOK
<1>2. queued' = <<AsPosted(posted + 1)>> \o queued /\ posted' = posted + 1
  BY DEF Post
<1>3. AsPosted(posted + 1) \in Entries /\ AsPosted(posted + 1)[2] = posted + 1
  BY <1>1 DEF AsPosted, Entries
<1>4. /\ Len(queued) \in Nat /\ DOMAIN queued = 1 .. Len(queued)
      /\ DOMAIN queued' = 1 .. (Len(queued) + 1) /\ queued'[1] = AsPosted(posted + 1)
      /\ \A j \in 1 .. Len(queued) : queued'[j + 1] = queued[j]
      /\ \A j \in DOMAIN queued' : j # 1 => j - 1 \in DOMAIN queued /\ queued'[j] = queued[j - 1]
  BY <1>1, <1>2, <1>3, PushShape
<1>5. 1 \in DOMAIN queued' /\ \A j \in DOMAIN queued : j + 1 \in DOMAIN queued'
  BY <1>4
<1>6. ASSUME NEW t PROVE Waits(t)' <=> (Waits(t) \/ t = posted + 1)
  <2>1. (\E i \in DOMAIN queued' : queued'[i][2] = t)
          <=> (\E i \in DOMAIN queued : queued[i][2] = t) \/ t = posted + 1
    BY <1>3, <1>4, <1>5
  <2>2. (\E p \in programs' : p.open /\ (t \in ToSet(p.completed) \/ t \in ToSet(p.current)))
          <=> \E p \in programs : p.open /\ (t \in ToSet(p.completed) \/ t \in ToSet(p.current))
    BY EmptyContents
  <2> QED
    BY <2>1, <2>2 DEF Waits
<1>7. Pending' = Pending \cup {posted + 1}
  BY <1>6, PendingWaits, PendingWaitsNext
<1>8. Pool!Submit
  BY <1>2, <1>7 DEF Pool!Submit
<1> QED
  BY <1>8 DEF Pool!Next

\* As long as nothing went wrong at most one program runs, and Miner waits for it:
\* no transaction waits with a program or in an answer while a block is hashed.
LoneInv ==
  lapses = {} =>
    /\ miner # "processing" => programs = {} /\ answers = <<>>
    /\ miner = "processing" =>
         \/ programs = {} /\ \E a : answers = <<a>>
         \/ answers = <<>> /\ \E p : programs = {p}

LEMMA NextLoneInv == TypeInv /\ HandInv /\ LoneInv /\ [Next]_vars => LoneInv'
<1> SUFFICES ASSUME TypeInv, HandInv, LoneInv, [Next]_vars PROVE LoneInv'
  OBVIOUS
<1> USE DEF minerVars
<1>1. CASE Receive
  BY <1>1 DEF Receive, LoneInv
<1>2. CASE MineNextBlock
  <2> DEFINE q == [round |-> round', completed |-> <<>>, current |-> <<>>, open |-> TRUE]
  <2>1. /\ miner = "idle" /\ miner' = "processing" /\ programs' = programs \cup {q}
        /\ UNCHANGED <<answers, lapses>>
    BY <1>2 DEF MineNextBlock
  <2> HIDE DEF q
  <2>2. ASSUME lapses' = {} PROVE programs' = {q} /\ answers' = <<>>
    BY <2>1, <2>2 DEF LoneInv
  <2> QED
    BY <2>1, <2>2 DEF LoneInv
<1>3. CASE ProcessingDone
  <2>1. /\ miner = "processing" /\ answers # <<>> /\ miner' = "hashing"
        /\ answers' = Tail(answers) /\ programs' = programs
        /\ lapses' = {} => lapses = {}
    BY <1>3 DEF ProcessingDone
  <2>2. ASSUME lapses' = {} PROVE programs' = {} /\ answers' = <<>>
    <3>1. programs = {} /\ \E a : answers = <<a>>
      BY <2>1, <2>2 DEF LoneInv
    <3>2. PICK a : answers = <<a>>
      BY <3>1
    <3>3. Tail(<<a>>) = <<>>
      OBVIOUS
    <3> QED
      BY <2>1, <3>1, <3>2, <3>3
  <2> QED
    BY <2>1, <2>2 DEF LoneInv
<1>4. CASE ProcessingStopped \/ HashingStopped \/ InsertFails \/ MinerDies
  <2>1. lapses' # {}
    BY <1>4 DEF ProcessingStopped, HashingStopped, InsertFails, MinerDies
  <2> QED
    BY <2>1 DEF LoneInv
<1>5. CASE InsertBlock
  BY <1>5 DEF InsertBlock, LoneInv
<1>6. ASSUME NEW p \in programs, NEW q, programs' = (programs \ {p}) \cup {q},
             UNCHANGED <<miner, answers, lapses>>
      PROVE  LoneInv'
  <2>1. ASSUME lapses = {} PROVE miner = "processing" /\ answers = <<>> /\ programs' = {q}
    BY <1>6, <2>1 DEF LoneInv
  <2> QED
    BY <1>6, <2>1 DEF LoneInv
<1>7. ASSUME NEW p \in programs, GetNextTransaction(p) PROVE LoneInv'
  BY <1>6, <1>7 DEF GetNextTransaction
<1>8. ASSUME NEW p \in programs, RunTransaction(p) PROVE LoneInv'
  BY <1>6, <1>8 DEF RunTransaction
<1>9. ASSUME NEW p \in programs, ReturnCompleted(p) PROVE LoneInv'
  <2> DEFINE a == [round |-> p.round, completed |-> p.completed]
  <2>1. /\ programs' = programs \ {p} /\ (p.open => answers' = Append(answers, a))
        /\ UNCHANGED <<miner, lapses>>
    BY <1>9 DEF ReturnCompleted
  <2> HIDE DEF a
  <2>2. ASSUME lapses = {}
        PROVE  miner = "processing" /\ programs' = {} /\ answers' = <<a>>
    <3>1. miner = "processing" /\ answers = <<>> /\ programs' = {} /\ p.open
      BY <2>1, <2>2 DEF LoneInv, HandInv
    <3>2. Append(<<>>, a) = <<a>>
      OBVIOUS
    <3> QED
      BY <2>1, <3>1, <3>2
  <2> QED
    BY <2>1, <2>2 DEF LoneInv
<1>10. ASSUME NEW p \in programs, ProgramDies(p) PROVE LoneInv'
  BY <1>10 DEF ProgramDies, LoneInv
<1>11. CASE UNCHANGED vars
  BY <1>11 DEF vars, LoneInv
<1> QED
  BY <1>1, <1>2, <1>3, <1>4, <1>5, <1>7, <1>8, <1>9, <1>10, <1>11 DEF Next, ProgramStep

\* A sequence in which every transaction is later than the ones before it is the
\* set of its transactions, in order.
LEMMA IncreasingIsInOrder ==
  ASSUME NEW s \in Seq(Nat), Increasing(s)
  PROVE  s \in Pool!InOrder(ToSet(s))
<1>1. Len(s) \in Nat /\ DOMAIN s = 1 .. Len(s) /\ s \in [1 .. Len(s) -> Nat]
  OBVIOUS
<1>2. s \in [1 .. Len(s) -> ToSet(s)]
  BY <1>1 DEF ToSet
<1>3. \A i, j \in 1 .. Len(s) : s[i] = s[j] => i = j
  <2> SUFFICES ASSUME NEW i \in 1 .. Len(s), NEW j \in 1 .. Len(s), s[i] = s[j], i # j
               PROVE  FALSE
    OBVIOUS
  <2>1. i < j \/ j < i
    OBVIOUS
  <2>2. s[i] \in Nat /\ s[j] \in Nat
    BY <1>1
  <2>3. i < j => s[i] < s[j]
    BY <1>1 DEF Increasing
  <2>4. j < i => s[j] < s[i]
    BY <1>1 DEF Increasing
  <2> QED
    BY <2>1, <2>2, <2>3, <2>4
<1>4. \A t \in ToSet(s) : \E i \in 1 .. Len(s) : s[i] = t
  BY <1>1 DEF ToSet
<1>5. s \in Bijection(1 .. Len(s), ToSet(s))
  BY <1>2, <1>3, <1>4 DEF Bijection, Injection, Surjection, IsInjective
<1>6. Cardinality(ToSet(s)) = Len(s)
  BY <1>1, <1>5, FS_CountingElements DEF ExistsBijection
<1>7. s \in [1 .. Pool!Cardinality(ToSet(s)) -> ToSet(s)]
  <2>1. Pool!Cardinality(ToSet(s)) = Cardinality(ToSet(s))
    BY DEF Cardinality, Pool!Cardinality
  <2> QED
    BY <1>2, <1>6, <2>1
<1>8. \A i, j \in DOMAIN s : i < j => s[i] < s[j]
  BY DEF Increasing
<1> QED
  BY <1>7, <1>8 DEF Pool!InOrder

\* A block takes the transactions that Miner has in its hands, and only those.
LEMMA PoolMines ==
  ASSUME TypeInv, HandInv, OnceInv, LoneInv, InsertBlock
  PROVE  Pool!Next
<1>1. /\ miner = "hashing" /\ blocks' = Append(blocks, work) /\ work' = <<>>
      /\ UNCHANGED <<queued, posted, programs, answers, lapses>>
  BY DEF InsertBlock
<1>2. /\ queued \in Seq(Entries) /\ posted \in Nat /\ work \in Seq(Nat)
      /\ programs \subseteq Programs
  BY DEF TypeInv, TypeOK
<1>3. \A t \in ToSet(work) : t \in Nat /\ t <= Taken
  <2>1. \A i \in DOMAIN work : work[i] \in Nat
    BY <1>2
  <2>2. Sound(work, Taken)
    BY DEF OnceInv, Once
  <2> QED
    BY <2>1, <2>2 DEF Sound, ToSet
<1>4. \A i \in DOMAIN queued : queued[i][2] \in Nat /\ queued[i][2] > Taken
  <2> SUFFICES ASSUME NEW i \in DOMAIN queued
               PROVE  queued[i][2] \in Nat /\ queued[i][2] > Taken
    OBVIOUS
  <2>1. queued[i] = AsPosted(posted + 1 - i) /\ Len(queued) <= posted
    BY DEF TypeInv, QueueInv
  <2>2. queued[i][2] = posted + 1 - i
    BY <2>1 DEF AsPosted
  <2>3. Len(queued) \in Nat /\ i \in 1 .. Len(queued)
    BY <1>2
  <2> QED
    BY <1>2, <2>1, <2>2, <2>3 DEF Taken
<1>5. Taken \in Int
  BY <1>2 DEF Taken
<1>6. \A i \in DOMAIN queued : queued[i][2] \notin ToSet(work)
  BY <1>3, <1>4, <1>5
<1>7. \A p \in programs :
        ToSet(p.completed) \cap ToSet(work) = {} /\ ToSet(p.current) \cap ToSet(work) = {}
  <2> SUFFICES ASSUME NEW p \in programs
               PROVE  /\ ToSet(p.completed) \cap ToSet(work) = {}
                      /\ ToSet(p.current) \cap ToSet(work) = {}
    OBVIOUS
  <2>1. p.completed \in Seq(Nat) /\ p.current \in Seq(Nat)
    BY <1>2, ProgramParts
  <2>2. ToSet(Txs(p)) = ToSet(p.completed) \cup ToSet(p.current)
    BY <2>1, ConcatContents DEF Txs
  <2>3. Disjoint(work, Txs(p))
    BY DEF OnceInv, Once
  <2> QED
    BY <2>2, <2>3 DEF Disjoint
<1>8. \A k \in DOMAIN answers : ToSet(answers[k].completed) \cap ToSet(work) = {}
  BY DEF OnceInv, Once, Disjoint
<1>9. ASSUME NEW t PROVE Waits(t)' <=> Waits(t) /\ t \notin ToSet(work)
  <2>1. ToSet(work') = {}
    BY <1>1, EmptyContents
  <2>2. Waits(t)' <=>
          \/ \E p \in programs : p.open /\ (t \in ToSet(p.completed) \/ t \in ToSet(p.current))
          \/ \E k \in DOMAIN answers : t \in ToSet(answers[k].completed)
          \/ \E i \in DOMAIN queued : queued[i][2] = t
    BY <1>1, <2>1 DEF Waits
  <2> QED
    BY <1>6, <1>7, <1>8, <2>2 DEF Waits
<1>10. Pending' = Pending \ ToSet(work) /\ ToSet(work) \subseteq Pending
  <2>1. ToSet(work) \subseteq Pending
    BY PendingWaits DEF Waits
  <2> QED
    BY <1>9, <2>1, PendingWaits, PendingWaitsNext
<1>11. ASSUME lapses = {}, NEW t \in ToSet(work), NEW u \in Pending \ ToSet(work) PROVE t < u
  <2>1. programs = {} /\ answers = <<>>
    BY <1>1, <1>11 DEF LoneInv
  <2>2. \E i \in DOMAIN queued : queued[i][2] = u
    <3>1. Waits(u) /\ u \notin ToSet(work)
      BY <1>11, PendingWaits
    <3>2. DOMAIN answers = {}
      BY <2>1
    <3> QED
      BY <2>1, <3>1, <3>2 DEF Waits
  <2> QED
    BY <1>3, <1>4, <1>5, <2>2
<1>12. work \in Pool!InOrder(ToSet(work))
  BY <1>2, IncreasingIsInOrder DEF OnceInv, Once, Sound
<1>13. Pool!Mine(ToSet(work))
  BY <1>1, <1>10, <1>11, <1>12 DEF Pool!Mine
<1> QED
  BY <1>10, <1>13 DEF Pool!Next

\* Every step hands transactions on, or is a step of the pool.
LEMMA PoolStep ==
  TypeInv /\ HandInv /\ OnceInv /\ LoneInv /\ [Next]_vars => [Pool!Next]_(Pool!poolVars)
<1> SUFFICES ASSUME TypeInv, HandInv, OnceInv, LoneInv, [Next]_vars
             PROVE  Pool!Next \/ UNCHANGED Pool!poolVars
  OBVIOUS
<1> USE DEF minerVars
<1>a. /\ queued \in Seq(Entries) /\ programs \subseteq Programs /\ answers \in Seq(Answers)
  BY DEF TypeInv, TypeOK
<1>1. CASE Receive
  BY <1>1, PoolSubmits DEF Receive
<1>2. CASE MineNextBlock
  <2> DEFINE q == [round |-> round', completed |-> <<>>, current |-> <<>>, open |-> TRUE]
  <2>1. /\ Post /\ programs' = programs \cup {q} /\ UNCHANGED <<answers, work, blocks, lapses>>
        /\ q.completed = <<>> /\ q.current = <<>>
    BY <1>2 DEF MineNextBlock
  <2> HIDE DEF q
  <2> QED
    BY <2>1, PoolSubmits
<1>3. CASE ProcessingDone
  <2>1. /\ miner = "processing" /\ answers # <<>>
        /\ work' = Head(answers).completed /\ answers' = Tail(answers)
        /\ UNCHANGED <<queued, posted, programs, blocks>>
        /\ lapses' = lapses \/ lapses' # {}
    BY <1>3 DEF ProcessingDone
  <2>2. ToSet(work) = {}
    BY <2>1, EmptyContents DEF HandInv
  <2>3. /\ Len(answers) \in Nat /\ DOMAIN answers = 1 .. Len(answers)
        /\ Tail(answers) \in Seq(Answers) /\ Len(Tail(answers)) = Len(answers) - 1
        /\ \A i \in 1 .. Len(Tail(answers)) : Tail(answers)[i] = answers[i + 1]
        /\ 1 \in DOMAIN answers /\ Head(answers) = answers[1]
    BY <1>a, <2>1, HeadTailProperties
  <2>4. \A k \in DOMAIN answers' : k + 1 \in DOMAIN answers /\ answers'[k] = answers[k + 1]
    BY <2>1, <2>3
  <2>5. \A k \in DOMAIN answers : k = 1 \/ (k - 1 \in DOMAIN answers' /\ answers'[k - 1] = answers[k])
    BY <2>1, <2>3
  <2>6. ASSUME NEW t
        PROVE  (\E k \in DOMAIN answers : t \in ToSet(answers[k].completed))
                 <=> \/ t \in ToSet(work')
                     \/ \E k \in DOMAIN answers' : t \in ToSet(answers'[k].completed)
    BY <2>1, <2>3, <2>4, <2>5
  <2>7. \A t : Waits(t)' <=> Waits(t)
    BY <2>1, <2>2, <2>6 DEF Waits
  <2> QED
    BY <2>1, <2>7, PoolStutters, PoolFails
<1>4. CASE ProcessingStopped
  <2>1. /\ programs' = {IF p.round = round THEN [p EXCEPT !.open = FALSE] ELSE p : p \in programs}
        /\ UNCHANGED <<queued, posted, answers, work, blocks>> /\ lapses' # {}
    BY <1>4 DEF ProcessingStopped
  <2>2. \A q \in programs' : q.open => q \in programs
    BY <1>a, <2>1 DEF Programs
  <2>3. \A t : Waits(t)' => Waits(t)
    BY <2>1, <2>2 DEF Waits
  <2> QED
    BY <2>1, <2>3, PoolFails
<1>5. CASE HashingStopped \/ InsertFails
  <2>1. /\ work' = <<>> /\ UNCHANGED <<queued, posted, programs, answers, blocks>>
        /\ lapses' # {}
    BY <1>5 DEF HashingStopped, InsertFails
  <2>2. \A t : Waits(t)' => Waits(t)
    BY <2>1, EmptyContents DEF Waits
  <2> QED
    BY <2>1, <2>2, PoolFails
<1>6. CASE InsertBlock
  BY <1>6, PoolMines
<1>7. CASE MinerDies
  <2>1. /\ programs' = {[p EXCEPT !.open = FALSE] : p \in programs}
        /\ answers' = <<>> /\ work' = <<>>
        /\ UNCHANGED <<queued, posted, blocks>> /\ lapses' # {}
    BY <1>7 DEF MinerDies
  <2>2. \A q \in programs' : ~q.open
    BY <1>a, <2>1 DEF Programs
  <2>3. DOMAIN answers' = {} /\ ToSet(work') = {}
    BY <2>1, EmptyContents
  <2>4. \A t : Waits(t)' => Waits(t)
    BY <2>1, <2>2, <2>3 DEF Waits
  <2> QED
    BY <2>1, <2>4, PoolFails
<1>8. ASSUME NEW p \in programs, GetNextTransaction(p)
      PROVE  Pool!Next \/ UNCHANGED Pool!poolVars
  <2> DEFINE q == [p EXCEPT !.current = <<Last(queued)[2]>>]
  <2>1. /\ p.current = <<>> /\ queued # <<>> /\ queued' = Front(queued)
        /\ programs' = (programs \ {p}) \cup {q}
        /\ UNCHANGED <<posted, answers, work, blocks, lapses>>
    BY <1>8 DEF GetNextTransaction
  <2>2. Last(queued)[2] \in Nat
    BY <2>1, OldestQueued
  <2>3. /\ q.open = p.open /\ q.completed = p.completed /\ q.current = <<Last(queued)[2]>>
    BY <1>a, <2>2, ProgramParts
  <2>4. ToSet(p.current) = {} /\ ToSet(q.current) = {Last(queued)[2]}
    BY <2>1, <2>3, EmptyContents DEF ToSet
  <2>5. /\ Len(queued) \in Nat /\ Len(queued) >= 1
        /\ DOMAIN queued = 1 .. Len(queued)
        /\ Last(queued) = queued[Len(queued)] /\ DOMAIN queued' = 1 .. (Len(queued) - 1)
        /\ \A j \in 1 .. (Len(queued) - 1) : queued'[j] = queued[j]
    BY <1>a, <2>1, PopShape
  <2>6. \A i \in DOMAIN queued :
          i = Len(queued) \/ (i \in DOMAIN queued' /\ queued'[i] = queued[i])
    BY <2>5
  <2>7. /\ Len(queued) \in DOMAIN queued
        /\ \A i \in DOMAIN queued' : i \in DOMAIN queued /\ queued'[i] = queued[i]
    BY <2>5
  <2> HIDE DEF q
  <2>8. ASSUME NEW t
        PROVE  (\E i \in DOMAIN queued : queued[i][2] = t)
                 <=> (\E i \in DOMAIN queued' : queued'[i][2] = t) \/ t = Last(queued)[2]
    BY <2>5, <2>6, <2>7
  <2>9. ASSUME NEW t
        PROVE  (\E r \in programs' : r.open /\ (t \in ToSet(r.completed) \/ t \in ToSet(r.current)))
                 <=> \/ \E r \in programs : r.open /\ (t \in ToSet(r.completed) \/ t \in ToSet(r.current))
                     \/ p.open /\ t = Last(queued)[2]
    BY <2>1, <2>3, <2>4
  <2>10. CASE p.open
    <3>1. \A t : Waits(t)' <=> Waits(t)
      BY <2>1, <2>8, <2>9, <2>10 DEF Waits
    <3> QED
      BY <2>1, <3>1, PoolStutters
  <2>11. CASE ~p.open
    <3>1. \A t : Waits(t)' => Waits(t)
      BY <2>1, <2>8, <2>9, <2>11 DEF Waits
    <3>2. lapses' # {}
      BY <2>1, <2>11 DEF HandInv
    <3> QED
      BY <2>1, <3>1, <3>2, PoolFails
  <2> QED
    BY <2>10, <2>11
<1>9. ASSUME NEW p \in programs, RunTransaction(p) PROVE UNCHANGED Pool!poolVars
  <2> DEFINE q == [p EXCEPT !.completed = @ \o p.current, !.current = <<>>]
  <2>1. /\ programs' = (programs \ {p}) \cup {q}
        /\ UNCHANGED <<queued, posted, answers, work, blocks, lapses>>
    BY <1>9 DEF RunTransaction
  <2>2. q.open = p.open /\ q.completed = p.completed \o p.current /\ q.current = <<>>
    BY <1>a, ProgramParts
  <2>3. p.completed \in Seq(Nat) /\ p.current \in Seq(Nat)
    BY <1>a, ProgramParts
  <2>4. ToSet(q.completed) = ToSet(p.completed) \cup ToSet(p.current) /\ ToSet(q.current) = {}
    BY <2>2, <2>3, ConcatContents, EmptyContents
  <2> HIDE DEF q
  <2>5. ASSUME NEW t
        PROVE  (\E r \in programs' : r.open /\ (t \in ToSet(r.completed) \/ t \in ToSet(r.current)))
                 <=> \E r \in programs : r.open /\ (t \in ToSet(r.completed) \/ t \in ToSet(r.current))
    BY <2>1, <2>2, <2>4
  <2>6. \A t : Waits(t)' <=> Waits(t)
    BY <2>1, <2>5 DEF Waits
  <2> QED
    BY <2>1, <2>6, PoolStutters
<1>10. ASSUME NEW p \in programs, ReturnCompleted(p) PROVE UNCHANGED Pool!poolVars
  <2> DEFINE a == [round |-> p.round, completed |-> p.completed]
  <2>1. /\ p.current = <<>> /\ programs' = programs \ {p}
        /\ answers' = IF p.open THEN Append(answers, a) ELSE answers
        /\ UNCHANGED <<queued, posted, work, blocks, lapses>>
    BY <1>10 DEF ReturnCompleted
  <2>2. a \in Answers /\ a.completed = p.completed
    BY <1>a, ProgramParts DEF Answers
  <2> HIDE DEF a
  <2>3. ToSet(p.current) = {}
    BY <2>1, EmptyContents
  <2>4. ASSUME NEW t
        PROVE  (\E r \in programs : r.open /\ (t \in ToSet(r.completed) \/ t \in ToSet(r.current)))
                 <=> \/ \E r \in programs' : r.open /\ (t \in ToSet(r.completed) \/ t \in ToSet(r.current))
                     \/ p.open /\ t \in ToSet(a.completed)
    BY <2>1, <2>2, <2>3
  <2>5. CASE p.open
    <3>1. answers' = Append(answers, a)
      BY <2>1, <2>5
    <3>2. /\ Len(answers) \in Nat /\ DOMAIN answers = 1 .. Len(answers)
          /\ DOMAIN answers' = 1 .. (Len(answers) + 1)
          /\ \A k \in 1 .. Len(answers) : answers'[k] = answers[k]
          /\ answers'[Len(answers) + 1] = a
      BY <1>a, <2>2, <3>1, AppendProperties
    <3>3. /\ \A k \in DOMAIN answers : k \in DOMAIN answers' /\ answers'[k] = answers[k]
          /\ Len(answers) + 1 \in DOMAIN answers'
          /\ \A k \in DOMAIN answers' : k \in DOMAIN answers \/ k = Len(answers) + 1
      BY <3>2
    <3>4. ASSUME NEW t
          PROVE  (\E k \in DOMAIN answers' : t \in ToSet(answers'[k].completed))
                   <=> \/ \E k \in DOMAIN answers : t \in ToSet(answers[k].completed)
                       \/ t \in ToSet(a.completed)
      BY <3>2, <3>3
    <3>5. \A t : Waits(t)' <=> Waits(t)
      BY <2>1, <2>4, <2>5, <3>4 DEF Waits
    <3> QED
      BY <2>1, <3>5, PoolStutters
  <2>6. CASE ~p.open
    <3>1. answers' = answers
      BY <2>1, <2>6
    <3>2. \A t : Waits(t)' <=> Waits(t)
      BY <2>1, <2>4, <2>6, <3>1 DEF Waits
    <3> QED
      BY <2>1, <3>2, PoolStutters
  <2> QED
    BY <2>5, <2>6
<1>11. ASSUME NEW p \in programs, ProgramDies(p) PROVE Pool!Next
  <2>1. /\ programs' = programs \ {p} /\ lapses' # {}
        /\ UNCHANGED <<queued, posted, answers, work, blocks>>
    BY <1>11 DEF ProgramDies
  <2>2. \A t : Waits(t)' => Waits(t)
    BY <2>1 DEF Waits
  <2> QED
    BY <2>1, <2>2, PoolFails
<1>12. CASE UNCHANGED vars
  <2>1. UNCHANGED <<queued, posted, programs, answers, work, blocks, lapses>>
    BY <1>12 DEF vars
  <2>2. \A t : Waits(t)' <=> Waits(t)
    BY <2>1 DEF Waits
  <2> QED
    BY <2>1, <2>2, PoolStutters
<1> QED
  BY <1>1, <1>2, <1>3, <1>4, <1>5, <1>6, <1>7, <1>8, <1>9, <1>10, <1>11, <1>12
     DEF Next, ProgramStep

\* The two lists, the programs, the answers and the rounds make a pool: a block takes
\* transactions that were posted, each once and in order, the oldest ones while nothing
\* has failed, and what was lost with a failed round is never mined.
THEOREM PoolIsImplemented == Spec => ImplementsTransactionPool
<1>1. Init => HandInv /\ LoneInv
  BY DEF Init, HandInv, LoneInv
<1>2. Init => OnceInv
  <2>1. ASSUME Init PROVE Once({}, <<>>, <<>>, <<>>, Taken)
    <3>1. DOMAIN <<>> = {}
      OBVIOUS
    <3> QED
      BY <3>1, EmptySound DEF Once
  <2> QED
    BY <2>1 DEF Init, OnceInv
<1>3. Init => Pool!Init
  <2> SUFFICES ASSUME Init PROVE posted = 0 /\ Pending = {} /\ blocks = <<>> /\ lapses = {}
    BY DEF Pool!Init
  <2>1. DOMAIN queued = {} /\ DOMAIN answers = {} /\ programs = {} /\ ToSet(work) = {}
    BY EmptyContents DEF Init
  <2>2. \A t : ~Waits(t)
    BY <2>1 DEF Waits
  <2> QED
    BY <2>2, PendingWaits DEF Init
<1> QED
  BY <1>1, <1>2, <1>3, InitTypeInv, NextTypeInv, NextHandInv, NextOnceInv, NextLoneInv, PoolStep,
     PTL DEF Spec, ImplementsTransactionPool, Pool!Spec
=============================================================================
