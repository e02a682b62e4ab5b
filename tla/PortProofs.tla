----------------------------- MODULE PortProofs -----------------------------
(***************************************************************************)
(* Proofs about the programs behind ports and the processes that talk to   *)
(* them: Hashfactor for any hash function and target, RocksDBPort for any  *)
(* number of callers, calls and programs, NativeAnswer for any lines, and  *)
(* Libp2p for any frames and any cuts between them.                        *)
(***************************************************************************)
EXTENDS RocksDBPort, Hashfactor, NativeAnswer, Libp2pSend, SequenceTheorems, TLAPS

-----------------------------------------------------------------------------
(* Mailboxes *)

\* A message is put at the end.
LEMMA SendShape ==
  ASSUME NEW S, NEW s \in Seq(S), NEW e \in S
  PROVE  /\ Append(s, e) \in Seq(S) /\ Len(s) \in Nat
         /\ DOMAIN s = 1 .. Len(s) /\ DOMAIN Append(s, e) = 1 .. (Len(s) + 1)
         /\ Append(s, e)[Len(s) + 1] = e /\ Len(Append(s, e)) = Len(s) + 1
         /\ \A i \in 1 .. Len(s) : Append(s, e)[i] = s[i]
OBVIOUS

\* The first message is taken.
LEMMA TakeShape ==
  ASSUME NEW S, NEW s \in Seq(S), s # <<>>
  PROVE  /\ Head(s) \in S /\ Head(s) = s[1] /\ Tail(s) \in Seq(S)
         /\ Len(s) \in Nat /\ Len(s) >= 1 /\ Len(Tail(s)) = Len(s) - 1
         /\ DOMAIN s = 1 .. Len(s) /\ DOMAIN Tail(s) = 1 .. (Len(s) - 1)
         /\ \A i \in DOMAIN Tail(s) : i + 1 \in DOMAIN s /\ Tail(s)[i] = s[i + 1]
<1>1. /\ Len(s) \in Nat /\ Len(s) >= 1 /\ DOMAIN s = 1 .. Len(s)
      /\ Head(s) = s[1] /\ Head(s) \in S
  OBVIOUS
<1>2. Tail(s) \in Seq(S) /\ Len(Tail(s)) = Len(s) - 1
  OBVIOUS
<1>3. DOMAIN Tail(s) = 1 .. (Len(s) - 1)
  BY <1>1, <1>2
<1>4. ASSUME NEW i \in DOMAIN Tail(s) PROVE i + 1 \in DOMAIN s /\ Tail(s)[i] = s[i + 1]
  BY <1>1, <1>2, <1>3
<1> QED
  BY <1>1, <1>2, <1>3, <1>4

-----------------------------------------------------------------------------
(* Hashfactor *)

\* The letters of the runner's mailbox
HashLetters == [what : {"stop"}] \cup [what : {"data"}, nonce : Nat]

\* The program and the nodes test a nonce in the same way.
LEMMA SameTest == \A n : IsFactor(n) <=> ValidNonce(n)
BY DEF IsFactor, ValidNonce

\* The search that began at `start' has come to n and passed over no factor.
PassedNone(n) == n >= start /\ \A m \in start .. (n - 1) : ~IsFactor(m)

FirstFactor(n) == n \in Nat /\ PassedNone(n) /\ IsFactor(n)

HashfactorType ==
  /\ start \in Nat /\ nonce \in Nat
  /\ inbox \in Seq(HashLetters)
  /\ runner \in [at : {"idle", "waiting", "answered", "stopped", "killed"}, nonce : Nat]

\* No answer is under way before the search has begun, of which there is one.
NoAnswerYet ==
  /\ \A i \in DOMAIN inbox : inbox[i].what # "data"
  /\ runner.at # "answered"

\* The inductive invariant
HashfactorInv ==
  /\ HashfactorType
  /\ runner.at = "idle" => searcher = "ended" /\ inbox = <<>>
  /\ searcher = "reading" => NoAnswerYet
  /\ searcher = "searching" => PassedNone(nonce)
  /\ searcher = "found" => FirstFactor(nonce)
  /\ \A i \in DOMAIN inbox : inbox[i].what = "data" => FirstFactor(inbox[i].nonce)
  /\ runner.at = "answered" => FirstFactor(runner.nonce)

\* Only BeginSearch chooses where the search begins: for everything else what is
\* a first factor stays one.
LEMMA SameSearch ==
  ASSUME UNCHANGED <<sha256, start>>
  PROVE  \A n : (PassedNone(n)' <=> PassedNone(n)) /\ (FirstFactor(n)' <=> FirstFactor(n))
<1>1. ASSUME NEW n PROVE IsFactor(n)' <=> IsFactor(n)
  BY DEF IsFactor
<1>2. ASSUME NEW n PROVE PassedNone(n)' <=> PassedNone(n)
  BY <1>1 DEF PassedNone
<1> QED
  BY <1>1, <1>2 DEF FirstFactor

LEMMA NothingPassed == \A n \in Nat : n >= n /\ n .. (n - 1) = {}
OBVIOUS

LEMMA InitHashfactorInv == HashfactorInit => HashfactorInv
BY HashfactorAssumption
DEF HashfactorInit, HashfactorInv, HashfactorType, NoAnswerYet, HashLetters

LEMMA NextHashfactorInv == HashfactorInv /\ [HashfactorNext]_hashfactorVars => HashfactorInv'
<1> SUFFICES ASSUME HashfactorInv, [HashfactorNext]_hashfactorVars PROVE HashfactorInv'
  OBVIOUS
<1> USE DEF HashfactorInv, HashfactorType
<1>1. CASE RunHashfactor
  <2>1. \A n : FirstFactor(n)' <=> FirstFactor(n)
    BY <1>1, SameSearch DEF RunHashfactor
  <2> QED
    BY <1>1, <2>1 DEF RunHashfactor, NoAnswerYet
<1>2. CASE SendStop
  <2>1. \A n : (PassedNone(n)' <=> PassedNone(n)) /\ (FirstFactor(n)' <=> FirstFactor(n))
    BY <1>2, SameSearch DEF SendStop
  <2>2. [what |-> "stop"] \in HashLetters
    BY DEF HashLetters
  <2>3. /\ inbox' \in Seq(HashLetters) /\ DOMAIN inbox' = 1 .. (Len(inbox) + 1)
        /\ inbox'[Len(inbox) + 1].what = "stop" /\ Len(inbox) \in Nat
        /\ \A i \in 1 .. Len(inbox) : i \in DOMAIN inbox /\ inbox'[i] = inbox[i]
    BY <1>2, <2>2, SendShape DEF SendStop
  <2>4. \A i \in DOMAIN inbox' : inbox'[i].what = "data" =>
          i \in DOMAIN inbox /\ inbox'[i] = inbox[i]
    BY <2>3
  <2> QED
    BY <1>2, <2>1, <2>3, <2>4 DEF SendStop, NoAnswerYet
<1>3. CASE ReceiveNonce \/ ReceiveStop
  <2>1. \A n : (PassedNone(n)' <=> PassedNone(n)) /\ (FirstFactor(n)' <=> FirstFactor(n))
    BY <1>3, SameSearch DEF ReceiveNonce, ReceiveStop
  <2>2. /\ inbox # <<>> /\ inbox' = Tail(inbox)
        /\ 1 \in DOMAIN inbox /\ Head(inbox) = inbox[1] /\ inbox' \in Seq(HashLetters)
        /\ \A i \in DOMAIN inbox' : i + 1 \in DOMAIN inbox /\ inbox'[i] = inbox[i + 1]
    <3>1. inbox # <<>> /\ inbox' = Tail(inbox) /\ inbox \in Seq(HashLetters)
      BY <1>3 DEF ReceiveNonce, ReceiveStop
    <3>2. /\ Head(inbox) = inbox[1] /\ Tail(inbox) \in Seq(HashLetters)
          /\ Len(inbox) \in Nat /\ Len(inbox) >= 1 /\ DOMAIN inbox = 1 .. Len(inbox)
          /\ \A i \in DOMAIN Tail(inbox) : i + 1 \in DOMAIN inbox /\ Tail(inbox)[i] = inbox[i + 1]
      BY <3>1, TakeShape
    <3> QED
      BY <3>1, <3>2
  <2>3. /\ searcher' = searcher /\ nonce' = nonce /\ start' = start
        /\ (\A i \in DOMAIN inbox : inbox[i].what = "data" => FirstFactor(inbox[i].nonce))'
    BY <1>3, <2>1, <2>2 DEF ReceiveNonce, ReceiveStop
  <2>4. CASE ReceiveNonce
    <3>1. inbox[1].what = "data" /\ searcher # "reading" /\ FirstFactor(inbox[1].nonce)
      BY <2>2, <2>4 DEF ReceiveNonce, NoAnswerYet
    <3>2. runner' = [at |-> "answered", nonce |-> inbox[1].nonce] /\ inbox[1].nonce \in Nat
      BY <2>2, <2>4, <3>1 DEF ReceiveNonce, FirstFactor
    <3> QED
      BY <2>1, <2>2, <2>3, <3>1, <3>2 DEF NoAnswerYet
  <2>5. CASE ReceiveStop
    BY <2>1, <2>2, <2>3, <2>5 DEF ReceiveStop, NoAnswerYet
  <2> QED
    BY <1>3, <2>4, <2>5
<1>4. CASE RunnerDies
  <2>1. \A n : (PassedNone(n)' <=> PassedNone(n)) /\ (FirstFactor(n)' <=> FirstFactor(n))
    BY <1>4, SameSearch DEF RunnerDies
  <2> QED
    BY <1>4, <2>1 DEF RunnerDies, NoAnswerYet
<1>5. CASE BeginSearch
  <2>1. NoAnswerYet /\ UNCHANGED <<sha256, runner, inbox>> /\ searcher' = "searching"
    BY <1>5 DEF BeginSearch
  <2>2. start' \in Nat /\ nonce' = start' /\ PassedNone(nonce)'
    <3>1. start' \in Nat /\ nonce' = start'
      BY <1>5, HashfactorAssumption DEF BeginSearch
    <3>2. PassedNone(nonce)'
      BY <3>1, NothingPassed DEF PassedNone
    <3> QED
      BY <3>1, <3>2
  <2>3. /\ \A i \in DOMAIN inbox' : inbox'[i].what # "data"
        /\ runner'.at \notin {"answered", "idle"} \/ runner'.at = "idle"
    BY <2>1 DEF NoAnswerYet
  <2>4. runner'.at # "idle"
    BY <1>5, <2>1 DEF BeginSearch
  <2> QED
    BY <2>1, <2>2, <2>3, <2>4
<1>6. CASE NextNonce
  <2>1. \A n : (PassedNone(n)' <=> PassedNone(n)) /\ (FirstFactor(n)' <=> FirstFactor(n))
    BY <1>6, SameSearch DEF NextNonce
  <2>2. CASE IsFactor(nonce)
    BY <1>6, <2>1, <2>2 DEF NextNonce, NoAnswerYet, FirstFactor
  <2>3. CASE ~IsFactor(nonce)
    <3>1. PassedNone(nonce) /\ nonce' = nonce + 1 /\ searcher' = searcher
      BY <1>6, <2>3 DEF NextNonce
    <3>2. PassedNone(nonce + 1)
      BY <2>3, <3>1 DEF PassedNone
    <3> QED
      BY <1>6, <2>1, <3>1, <3>2 DEF NextNonce, NoAnswerYet
  <2> QED
    BY <2>2, <2>3
<1>7. CASE PrintNonce
  <2>1. \A n : (PassedNone(n)' <=> PassedNone(n)) /\ (FirstFactor(n)' <=> FirstFactor(n))
    BY <1>7, SameSearch DEF PrintNonce
  <2>2. CASE stdin = "closed"
    BY <1>7, <2>1, <2>2 DEF PrintNonce, NoAnswerYet
  <2>3. CASE stdin # "closed"
    <3> DEFINE m == [what |-> "data", nonce |-> nonce]
    <3>1. m \in HashLetters /\ FirstFactor(m.nonce)
      BY <1>7 DEF PrintNonce, HashLetters
    <3>2. /\ inbox' \in Seq(HashLetters) /\ DOMAIN inbox' = 1 .. (Len(inbox) + 1)
          /\ inbox'[Len(inbox) + 1] = m /\ Len(inbox) \in Nat
          /\ \A i \in 1 .. Len(inbox) : i \in DOMAIN inbox /\ inbox'[i] = inbox[i]
      BY <1>7, <2>3, <3>1, SendShape DEF PrintNonce
    <3>3. \A i \in DOMAIN inbox' : inbox'[i] = m \/ (i \in DOMAIN inbox /\ inbox'[i] = inbox[i])
      BY <3>2
    <3> QED
      BY <1>7, <2>1, <3>1, <3>2, <3>3 DEF PrintNonce, NoAnswerYet
  <2> QED
    BY <2>2, <2>3
<1>8. CASE ExitOnClose
  <2>1. \A n : FirstFactor(n)' <=> FirstFactor(n)
    BY <1>8, SameSearch DEF ExitOnClose
  <2> QED
    BY <1>8, <2>1 DEF ExitOnClose, NoAnswerYet
<1>9. CASE UNCHANGED hashfactorVars
  <2>1. \A n : (PassedNone(n)' <=> PassedNone(n)) /\ (FirstFactor(n)' <=> FirstFactor(n))
    BY <1>9, SameSearch DEF hashfactorVars
  <2> QED
    BY <1>9, <2>1 DEF hashfactorVars, NoAnswerYet
<1> QED
  BY <1>1, <1>2, <1>3, <1>4, <1>5, <1>6, <1>7, <1>8, <1>9 DEF HashfactorNext

\* For any hash function, target and start: the nonce that Hashfactor.run returns
\* is one that valid_nonce? accepts at every node, and the search has passed over
\* no such nonce; stops, deaths and closed ports change nothing of it.
THEOREM AnswerIsAccepted == HashfactorSpec => []AnswerIsFirstAccepted
<1>1. HashfactorInv => AnswerIsFirstAccepted
  BY SameTest DEF HashfactorInv, FirstFactor, PassedNone, AnswerIsFirstAccepted
<1> QED
  BY <1>1, InitHashfactorInv, NextHashfactorInv, PTL DEF HashfactorSpec

-----------------------------------------------------------------------------
(* RocksDBPort *)

StoredValues == StoreValues \cup {Absent}

RocksCalls ==
  [kind : {"call"}, id : Nat \ {0}, from : Callers, op : {"get", "put"}, cell : Cells,
   value : StoredValues]

Answers == [kind : {"data"}, what : {"ok", "whole", "first", "second", "joined"},
            value : StoredValues]

Commands == [op : {"get", "put"}, cell : Cells, value : StoredValues]

RocksPrograms ==
  [input : Seq(Commands), output : Seq(Answers), open : BOOLEAN, eof : BOOLEAN, up : BOOLEAN]

Busy == [at : {"get", "put", "sleep"}, call : RocksCalls]

RocksType ==
  /\ mailbox \in Seq(RocksCalls \cup Answers)
  /\ server \in Busy \cup {IdleServer}
  /\ waiting \in [Callers -> RocksCalls \cup {NoRequest}] /\ issued \in Nat
  /\ port \in 1 .. MaxPrograms /\ programs \in [1 .. MaxPrograms -> RocksPrograms]
  /\ db \in [Cells -> StoredValues] /\ last \in [Cells -> StoredValues]
  /\ pending \in SUBSET RocksCalls
  /\ split \in BOOLEAN

Carries(command, call) ==
  command.op = call.op /\ command.cell = call.cell /\ command.value = call.value

\* The calls come in the order of their numbers, and their puts are pending.
CallsInv ==
  /\ \A i \in DOMAIN mailbox :
       IsCall(mailbox[i]) =>
         /\ mailbox[i].id <= issued /\ server.call.id < mailbox[i].id
         /\ mailbox[i].op = "put" => mailbox[i] \in pending
         /\ \A j \in DOMAIN mailbox :
              i < j /\ IsCall(mailbox[j]) => mailbox[i].id < mailbox[j].id
  /\ server.call.id <= issued /\ \A q \in pending : q.id <= issued
  /\ server.at \in {"put", "sleep"} => server.call \in pending /\ server.call.op = "put"
  /\ server.at = "get" => server.call.op = "get"

\* What the programs of earlier servers were told to put is pending for good.
OldPutsInv ==
  \A p \in 1 .. MaxPrograms :
    /\ p < port => \A i \in DOMAIN programs[p].input :
         programs[p].input[i].op = "put" =>
           \E q \in pending :
             /\ Carries(programs[p].input[i], q) /\ q # server.call
             /\ \A j \in DOMAIN mailbox : mailbox[j] # q
    /\ p > port => programs[p].input = <<>> /\ programs[p].output = <<>>
    /\ p # port => programs[p].output = <<>>

\* The put that the server waits for has been done, and what the database holds
\* instead has been put by an earlier program.
Landed ==
  \/ db[server.call.cell] = server.call.value
  \/ \E q \in pending \ {server.call} :
       q.cell = server.call.cell /\ q.value = db[server.call.cell]

Ok(m) == m.kind = "data" /\ m.what = "ok"

\* The ok that the server waits for is on its way once, behind its put.
OkInv ==
  LET in == programs[port].input  out == programs[port].output IN
  /\ \A i \in DOMAIN in : in[i].op = "put" =>
       /\ i = Len(in) /\ server.at = "put" /\ Carries(in[i], server.call)
       /\ \A j \in DOMAIN out : ~Ok(out[j])
       /\ \A j \in DOMAIN mailbox : ~Ok(mailbox[j])
  /\ \A i \in DOMAIN out : Ok(out[i]) =>
       /\ i = Len(out) /\ in = <<>> /\ server.at = "put" /\ Landed
       /\ \A j \in DOMAIN mailbox : ~Ok(mailbox[j])
  /\ \A i \in DOMAIN mailbox : Ok(mailbox[i]) =>
       /\ server.at = "put" /\ Landed
       /\ \A j \in DOMAIN mailbox : Ok(mailbox[j]) => j = i
  /\ server.at = "sleep" => Landed

StoredInv ==
  /\ AnsweredPutIsStored
  /\ CallsInv /\ OldPutsInv /\ OkInv

\* As long as no answer was split, one command, answer or piece of data is under
\* way, for the call of the server.
WholeInv ==
  LET in == programs[port].input  out == programs[port].output IN
  ~split =>
    /\ \A i \in DOMAIN in :
         /\ i = 1 /\ Len(in) = 1 /\ out = <<>> /\ server.at \in {"get", "put"}
         /\ Carries(in[i], server.call)
         /\ \A j \in DOMAIN mailbox : IsCall(mailbox[j])
    /\ \A i \in DOMAIN out :
         /\ Len(out) = 1 /\ server.at \in {"get", "put"}
         /\ server.at = "get" => out[i].what = "whole" /\ out[i].value \in Possible(server.call.cell)
         /\ \A j \in DOMAIN mailbox : IsCall(mailbox[j])
    /\ \A i \in DOMAIN mailbox : ~IsCall(mailbox[i]) =>
         /\ server.at \in {"get", "put"}
         /\ server.at = "get" =>
              mailbox[i].what = "whole" /\ mailbox[i].value \in Possible(server.call.cell)
         /\ \A j \in DOMAIN mailbox : ~IsCall(mailbox[j]) => j = i

-----------------------------------------------------------------------------
(* The types of RocksDBPort *)

\* A receive takes a message out of the middle.
LEMMA RemoveShape ==
  ASSUME NEW S, NEW s \in Seq(S), NEW i \in DOMAIN s
  PROVE  /\ RemoveAt(s, i) \in Seq(S) /\ Len(s) \in Nat
         /\ Len(RemoveAt(s, i)) = Len(s) - 1
         /\ DOMAIN s = 1 .. Len(s) /\ DOMAIN RemoveAt(s, i) = 1 .. (Len(s) - 1)
         /\ \A j \in 1 .. (Len(s) - 1) :
              RemoveAt(s, i)[j] = s[IF j < i THEN j ELSE j + 1]
<1> DEFINE a == SubSeq(s, 1, i - 1)  b == SubSeq(s, i + 1, Len(s))
<1>1. /\ Len(s) \in Nat /\ i \in 1 .. Len(s) /\ DOMAIN s = 1 .. Len(s)
      /\ \A j \in 1 .. Len(s) : s[j] \in S
  OBVIOUS
<1>2. /\ a \in Seq(S) /\ Len(a) = i - 1 /\ \A j \in 1 .. (i - 1) : a[j] = s[j]
  <2>1. \A j \in 1 .. (i - 1) : s[j] \in S
    BY <1>1
  <2> QED
    BY <1>1, <2>1, SubSeqProperties
<1>3. /\ b \in Seq(S) /\ Len(b) = Len(s) - i
      /\ \A j \in 1 .. (Len(s) - i) : b[j] = s[i + j]
  <2>1. \A j \in (i + 1) .. Len(s) : s[j] \in S
    BY <1>1
  <2> QED
    BY <1>1, <2>1, SubSeqProperties
<1> HIDE DEF a, b
<1>4. /\ a \o b \in Seq(S) /\ Len(a \o b) = Len(a) + Len(b)
      /\ \A j \in 1 .. (Len(a) + Len(b)) :
           (a \o b)[j] = IF j <= Len(a) THEN a[j] ELSE b[j - Len(a)]
  BY <1>2, <1>3, ConcatProperties
<1>5. Len(a) + Len(b) = Len(s) - 1
  BY <1>1, <1>2, <1>3
<1>6. ASSUME NEW j \in 1 .. (Len(s) - 1)
      PROVE  (a \o b)[j] = s[IF j < i THEN j ELSE j + 1]
  <2>1. CASE j < i
    BY <1>1, <1>2, <1>4, <1>5, <2>1
  <2>2. CASE ~(j < i)
    <3>1. (a \o b)[j] = b[j - (i - 1)] /\ j - (i - 1) \in 1 .. (Len(s) - i)
      BY <1>1, <1>2, <1>4, <1>5, <2>2
    <3>2. i + (j - (i - 1)) = j + 1
      BY <1>1
    <3> QED
      BY <1>3, <2>2, <3>1, <3>2
  <2> QED
    BY <2>1, <2>2
<1>7. RemoveAt(s, i) = a \o b
  BY DEF RemoveAt, a, b
<1>8. DOMAIN (a \o b) = 1 .. (Len(s) - 1)
  BY <1>1, <1>4, <1>5, LenProperties
<1> QED
  BY <1>1, <1>4, <1>5, <1>6, <1>7, <1>8

LEMMA MessageKinds ==
  /\ \A m \in RocksCalls : IsCall(m) /\ m # NoRequest /\ m.id \in Nat /\ m.id >= 1
  /\ \A m \in Answers : ~IsCall(m) /\ m \notin RocksCalls
  /\ \A m \in RocksCalls \cup Answers :
       (IsCall(m) => m \in RocksCalls) /\ (~IsCall(m) => m \in Answers)
BY DEF RocksCalls, Answers, IsCall, NoRequest

LEMMA IdleParts == IdleServer.at = "idle" /\ IdleServer.call = NoRequest /\ NoRequest.id = 0
BY DEF IdleServer, NoRequest

LEMMA ServerParts ==
  ASSUME server \in Busy \cup {IdleServer}
  PROVE  /\ server.at \in {"idle", "get", "put", "sleep"}
         /\ server.at # "idle" => server \in Busy /\ server.call \in RocksCalls
         /\ server.at = "idle" => server = IdleServer
         /\ server.call \in RocksCalls \cup {NoRequest}
BY DEF Busy, IdleServer

LEMMA FreshParts ==
  /\ FreshProgram \in RocksPrograms /\ [FreshProgram EXCEPT !.up = FALSE] \in RocksPrograms
  /\ FreshProgram.input = <<>> /\ FreshProgram.output = <<>>
  /\ [FreshProgram EXCEPT !.up = FALSE].input = <<>>
  /\ [FreshProgram EXCEPT !.up = FALSE].output = <<>>
<1>1. /\ FreshProgram.input = <<>> /\ FreshProgram.output = <<>>
      /\ FreshProgram = [input |-> <<>>, output |-> <<>>, open |-> FALSE, eof |-> FALSE,
                         up |-> TRUE]
  BY DEF FreshProgram
<1>3. <<>> \in Seq(Commands) /\ <<>> \in Seq(Answers)
  OBVIOUS
<1>4. FreshProgram \in RocksPrograms
  BY <1>1, <1>3 DEF RocksPrograms
<1>5. ASSUME NEW r \in RocksPrograms
      PROVE  /\ [r EXCEPT !.up = FALSE] \in RocksPrograms
             /\ [r EXCEPT !.up = FALSE].input = r.input
             /\ [r EXCEPT !.up = FALSE].output = r.output
  BY DEF RocksPrograms
<1> QED
  BY <1>1, <1>4, <1>5

LEMMA DataTypes ==
  ASSUME NEW what \in {"ok", "whole", "first", "second", "joined"}, NEW v \in StoredValues
  PROVE  /\ Data(what, v) \in Answers
         /\ Data(what, v).what = what /\ Data(what, v).value = v /\ Data(what, v).kind = "data"
BY DEF Data, Answers

-----------------------------------------------------------------------------
(* What the operators of RocksDBPort do to the programs *)

LEMMA SetProgram ==
  ASSUME programs \in [1 .. MaxPrograms -> RocksPrograms], NEW p \in 1 .. MaxPrograms,
         NEW r \in RocksPrograms
  PROVE  /\ [programs EXCEPT ![p] = r] \in [1 .. MaxPrograms -> RocksPrograms]
         /\ [programs EXCEPT ![p] = r][p] = r
         /\ \A q \in 1 .. MaxPrograms : q # p => [programs EXCEPT ![p] = r][q] = programs[q]
OBVIOUS

LEMMA SetInput ==
  ASSUME NEW r \in RocksPrograms, NEW s \in Seq(Commands)
  PROVE  /\ [r EXCEPT !.input = s] \in RocksPrograms
         /\ [r EXCEPT !.input = s].input = s /\ [r EXCEPT !.input = s].output = r.output
BY DEF RocksPrograms

LEMMA SetOutput ==
  ASSUME NEW r \in RocksPrograms, NEW s \in Seq(Answers)
  PROVE  /\ [r EXCEPT !.output = s] \in RocksPrograms
         /\ [r EXCEPT !.output = s].output = s /\ [r EXCEPT !.output = s].input = r.input
BY DEF RocksPrograms

LEMMA CommandParts ==
  ASSUME RocksType, NEW call \in RocksCalls, Command(call)
  PROVE  /\ programs' \in [1 .. MaxPrograms -> RocksPrograms]
         /\ \A q \in 1 .. MaxPrograms : q # port => programs'[q] = programs[q]
         /\ programs'[port].output = programs[port].output
         /\ \/ programs'[port].input = programs[port].input
            \/ \E command \in Commands :
                 /\ Carries(command, call)
                 /\ programs'[port].input = Append(programs[port].input, command)
<1> DEFINE command == [op |-> call.op, cell |-> CellOf(call.cell[1], call.cell[2]),
                       value |-> call.value]
<1>1. /\ programs \in [1 .. MaxPrograms -> RocksPrograms] /\ port \in 1 .. MaxPrograms
      /\ programs[port] \in RocksPrograms
  BY DEF RocksType
<1>2. call.cell \in Cells /\ CellOf(call.cell[1], call.cell[2]) = call.cell
  BY DEF RocksCalls, CellOf, Cells
<1>3. command \in Commands /\ Carries(command, call)
  BY <1>2 DEF Commands, RocksCalls, Carries
<1> HIDE DEF command
<1>4. programs[port].input \in Seq(Commands)
  BY <1>1 DEF RocksPrograms
<1>5. Append(programs[port].input, command) \in Seq(Commands)
  BY <1>3, <1>4, SendShape
<1> DEFINE r == [programs[port] EXCEPT !.input = Append(programs[port].input, command)]
<1>6. CASE programs[port].up
  <2>1. programs' = [programs EXCEPT ![port].input = Append(@, command)]
    BY <1>6 DEF Command, command
  <2>2. programs' = [programs EXCEPT ![port] = r]
    BY <1>1, <2>1
  <2>3. /\ r \in RocksPrograms /\ r.input = Append(programs[port].input, command)
        /\ r.output = programs[port].output
    BY <1>1, <1>5, SetInput
  <2> HIDE DEF r
  <2> QED
    BY <1>1, <1>3, <2>2, <2>3, SetProgram
<1>7. CASE ~programs[port].up
  BY <1>1, <1>7 DEF Command
<1> QED
  BY <1>6, <1>7

LEMMA PrintsParts ==
  ASSUME RocksType, NEW p \in Started, NEW what \in {"ok", "whole"}, NEW v \in StoredValues,
         programs[p].input # <<>>, Prints(p, what, v)
  PROVE  /\ programs' \in [1 .. MaxPrograms -> RocksPrograms]
         /\ \A q \in 1 .. MaxPrograms : q # p => programs'[q] = programs[q]
         /\ p # port => /\ programs'[p].input = <<>> /\ programs'[p].output = <<>>
                        /\ split' = split
         /\ p = port =>
              /\ programs'[p].input = Tail(programs[p].input)
              /\ \/ /\ programs'[p].output = Append(programs[p].output, Data(what, v))
                    /\ split' = split
                 \/ /\ programs'[p].output = programs[p].output \o
                                               <<Data("first", v), Data("second", v)>>
                    /\ split' = TRUE
<1>1. /\ programs \in [1 .. MaxPrograms -> RocksPrograms] /\ p \in 1 .. MaxPrograms
      /\ programs[p] \in RocksPrograms
  BY RocksDBPortAssumption DEF RocksType, Started
<1>2. programs[p].input \in Seq(Commands) /\ programs[p].output \in Seq(Answers)
  BY <1>1 DEF RocksPrograms
<1>3. Tail(programs[p].input) \in Seq(Commands)
  BY <1>2, TakeShape
<1>4. CASE p # port
  <2>1. programs' = [programs EXCEPT ![p] = [FreshProgram EXCEPT !.up = FALSE]] /\ split' = split
    BY <1>4 DEF Prints
  <2> QED
    BY <1>1, <1>4, <2>1, SetProgram, FreshParts
<1>5. CASE p = port
  <2> DEFINE q == [programs[p] EXCEPT !.input = Tail(programs[p].input)]
  <2>1. /\ q \in RocksPrograms /\ q.input = Tail(programs[p].input)
        /\ q.output = programs[p].output
    BY <1>1, <1>3, SetInput
  <2>2. \/ /\ programs' = [programs EXCEPT ![p] = [q EXCEPT !.output = Append(@, Data(what, v))]]
           /\ split' = split
        \/ /\ programs' = [programs EXCEPT ![p] =
                [q EXCEPT !.output = @ \o <<Data("first", v), Data("second", v)>>]]
           /\ split' = TRUE
    BY <1>5 DEF Prints
  <2> HIDE DEF q
  <2>3. CASE /\ programs' = [programs EXCEPT ![p] = [q EXCEPT !.output = Append(@, Data(what, v))]]
             /\ split' = split
    <3> DEFINE o == Append(q.output, Data(what, v))
    <3>1. o \in Seq(Answers) /\ o = Append(programs[p].output, Data(what, v))
      BY <1>2, <2>1, DataTypes, SendShape
    <3>2. programs' = [programs EXCEPT ![p] = [q EXCEPT !.output = o]]
      BY <2>3
    <3> HIDE DEF o
    <3>3. /\ [q EXCEPT !.output = o] \in RocksPrograms /\ [q EXCEPT !.output = o].output = o
          /\ [q EXCEPT !.output = o].input = q.input
      BY <2>1, <3>1, SetOutput
    <3> QED
      BY <1>1, <1>5, <2>1, <2>3, <3>1, <3>2, <3>3, SetProgram
  <2>4. CASE /\ programs' = [programs EXCEPT ![p] =
                  [q EXCEPT !.output = @ \o <<Data("first", v), Data("second", v)>>]]
             /\ split' = TRUE
    <3> DEFINE two == <<Data("first", v), Data("second", v)>>
    <3> DEFINE o == q.output \o two
    <3>1. two \in Seq(Answers)
      BY DataTypes
    <3>2. o \in Seq(Answers) /\ o = programs[p].output \o two
      BY <1>2, <2>1, <3>1, ConcatProperties
    <3>3. programs' = [programs EXCEPT ![p] = [q EXCEPT !.output = o]]
      BY <2>4
    <3> HIDE DEF o, two
    <3>4. /\ [q EXCEPT !.output = o] \in RocksPrograms /\ [q EXCEPT !.output = o].output = o
          /\ [q EXCEPT !.output = o].input = q.input
      BY <2>1, <3>2, SetOutput
    <3>5. /\ programs' \in [1 .. MaxPrograms -> RocksPrograms]
          /\ \A r \in 1 .. MaxPrograms : r # p => programs'[r] = programs[r]
          /\ programs'[p].input = Tail(programs[p].input) /\ programs'[p].output = o
      BY <1>1, <2>1, <3>3, <3>4, SetProgram
    <3> QED
      BY <1>5, <2>4, <3>2, <3>5 DEF two
  <2> QED
    BY <2>2, <2>3, <2>4
<1> QED
  BY <1>4, <1>5

LEMMA JoinedType ==
  ASSUME NEW out \in Seq(Answers), NEW n \in 1 .. Len(out)
  PROVE  /\ Joined(SubSeq(out, 1, n)) \in Answers
         /\ n = 1 => Joined(SubSeq(out, 1, n)) = out[1]
         /\ Joined(SubSeq(out, 1, n)).what = "ok" => n = 1
<1> DEFINE s == SubSeq(out, 1, n)
<1>1. \A i \in 1 .. n : out[i] \in Answers
  OBVIOUS
<1>2. s \in Seq(Answers) /\ Len(s) = n /\ \A i \in 1 .. n : s[i] = out[1 + i - 1]
  BY <1>1, SubSeqProperties
<1> HIDE DEF s
<1>3. s[1] = out[1] /\ Head(s) = s[1] /\ s[n] \in Answers /\ s[1] \in Answers /\ Last(s) = s[n]
  BY <1>2 DEF Last
<1>4. s[1].value \in StoredValues /\ s[n].value \in StoredValues
  BY <1>3 DEF Answers
<1>5. CASE n = 1
  <2>1. Joined(s) = s[1]
    BY <1>2, <1>3, <1>5 DEF Joined
  <2> QED
    BY <1>3, <1>5, <2>1 DEF s
<1>6. CASE n = 2 /\ s[1].what = "first"
  <2>1. Joined(s) = Data("whole", s[1].value)
    BY <1>2, <1>6 DEF Joined
  <2> QED
    BY <1>4, <1>6, <2>1, DataTypes DEF s
<1>7. CASE n # 1 /\ ~(n = 2 /\ s[1].what = "first")
  <2>1. Joined(s) = Data("joined", s[n].value)
    BY <1>2, <1>3, <1>7 DEF Joined
  <2> QED
    BY <1>4, <1>7, <2>1, DataTypes DEF s
<1> QED
  BY <1>5, <1>6, <1>7

LEMMA NewServerParts ==
  ASSUME RocksType, NewServer
  PROVE  /\ port' = port + 1 /\ port' \in 1 .. MaxPrograms
         /\ programs' \in [1 .. MaxPrograms -> RocksPrograms]
         /\ \A q \in 1 .. MaxPrograms : q # port => programs'[q] = programs[q]
         /\ programs'[port].input = programs[port].input /\ programs'[port].output = <<>>
         /\ mailbox' = <<>> /\ server' = IdleServer
         /\ waiting' \in [Callers -> RocksCalls \cup {NoRequest}]
<1>1. /\ programs \in [1 .. MaxPrograms -> RocksPrograms] /\ port \in 1 .. MaxPrograms
      /\ programs[port] \in RocksPrograms
  BY DEF RocksType
<1> DEFINE e == [programs[port] EXCEPT !.eof = TRUE]
           r == [e EXCEPT !.output = <<>>]
<1>2. e \in RocksPrograms /\ e.input = programs[port].input
  BY <1>1 DEF RocksPrograms
<1> HIDE DEF e
<1>3. r \in RocksPrograms /\ r.input = e.input /\ r.output = <<>>
  <2>1. <<>> \in Seq(Answers)
    OBVIOUS
  <2> QED
    BY <1>2, <2>1, SetOutput
<1>4. programs' = [programs EXCEPT ![port] = r]
  BY <1>1 DEF NewServer, e
<1> HIDE DEF r
<1>5. /\ port' = port + 1 /\ port' \in 1 .. MaxPrograms
      /\ mailbox' = <<>> /\ server' = IdleServer /\ waiting' = [c \in Callers |-> NoRequest]
  BY <1>1, RocksDBPortAssumption DEF NewServer
<1> QED
  BY <1>1, <1>2, <1>3, <1>4, <1>5, SetProgram

\* The call of a caller comes last.
LEMMA GetOrPutParts ==
  ASSUME RocksType, NEW c \in Callers, GetOrPut(c)
  PROVE  \E call \in RocksCalls :
           /\ call.id = issued + 1 /\ issued' = issued + 1
           /\ mailbox' = Append(mailbox, call)
           /\ waiting' \in [Callers -> RocksCalls \cup {NoRequest}]
           /\ pending' = IF call.op = "put" THEN pending \cup {call} ELSE pending
           /\ UNCHANGED <<server, programs, port, db, last, split, died, answer>>
<1>1. PICK b \in BlockNumbers, k \in StoreKeys, v \in StoreValues, op \in {"get", "put"} :
        LET call == [kind |-> "call", id |-> issued + 1, from |-> c, op |-> op,
                     cell |-> <<b, k>>, value |-> IF op = "put" THEN v ELSE Absent]
        IN  /\ mailbox' = Append(mailbox, call)
            /\ waiting' = [waiting EXCEPT ![c] = call]
            /\ pending' = IF op = "put" THEN pending \cup {call} ELSE pending
  BY DEF GetOrPut
<1> DEFINE call == [kind |-> "call", id |-> issued + 1, from |-> c, op |-> op,
                    cell |-> <<b, k>>, value |-> IF op = "put" THEN v ELSE Absent]
<1>2. issued \in Nat /\ issued' = issued + 1
  BY DEF RocksType, GetOrPut
<1>3. call \in RocksCalls /\ call.id = issued + 1 /\ call.op = op
  BY <1>2 DEF RocksCalls, Cells, StoredValues
<1>4. /\ mailbox' = Append(mailbox, call)
      /\ waiting' = [waiting EXCEPT ![c] = call]
      /\ pending' = IF op = "put" THEN pending \cup {call} ELSE pending
  BY <1>1
<1> HIDE DEF call
<1>5. waiting' \in [Callers -> RocksCalls \cup {NoRequest}]
  BY <1>3, <1>4 DEF RocksType
<1>6. UNCHANGED <<server, programs, port, db, last, split, died, answer>>
  BY DEF GetOrPut
<1> QED
  BY <1>2, <1>3, <1>4, <1>5, <1>6

LEMMA ReplyParts ==
  ASSUME RocksType, server.at # "idle", Reply(server.call)
  PROVE  server' = IdleServer /\ waiting' \in [Callers -> RocksCalls \cup {NoRequest}]
<1>1. server.call \in RocksCalls /\ waiting \in [Callers -> RocksCalls \cup {NoRequest}]
  BY ServerParts DEF RocksType
<1>2. server.call.from \in Callers
  BY <1>1 DEF RocksCalls
<1> QED
  BY <1>1, <1>2 DEF Reply

\* The receive of a put takes an ok, that of a get any data.
LEMMA ReceiveOkParts ==
  ASSUME RocksType, ReceiveOk
  PROVE  \E i \in DOMAIN mailbox :
           /\ Ok(mailbox[i]) /\ ~IsCall(mailbox[i]) /\ mailbox' = RemoveAt(mailbox, i)
           /\ server.at = "put" /\ server'.at = "sleep" /\ server'.call = server.call
           /\ server' \in Busy
           /\ UNCHANGED <<waiting, issued, programs, port, db, histVars>>
<1>1. PICK i \in FirstData(LAMBDA m : m.what = "ok") : mailbox' = RemoveAt(mailbox, i)
  BY DEF ReceiveOk
<1>2. i \in DOMAIN mailbox /\ ~IsCall(mailbox[i]) /\ mailbox[i].what = "ok"
  BY <1>1 DEF FirstData
<1>3. mailbox[i] \in Answers
  BY <1>2, MessageKinds DEF RocksType
<1>4. Ok(mailbox[i])
  BY <1>2, <1>3 DEF Ok, Answers
<1>5. /\ server.at = "put" /\ server' = [server EXCEPT !.at = "sleep"]
      /\ UNCHANGED <<waiting, issued, programs, port, db, histVars>>
  BY DEF ReceiveOk
<1>6. server \in Busy
  BY <1>5, ServerParts DEF RocksType
<1>7. server'.at = "sleep" /\ server'.call = server.call /\ server' \in Busy
  BY <1>5, <1>6 DEF Busy
<1> QED
  BY <1>1, <1>2, <1>4, <1>5, <1>7

LEMMA ReceiveValueParts ==
  ASSUME RocksType, ReceiveValue
  PROVE  /\ server.at = "get" /\ server' = IdleServer
         /\ UNCHANGED <<issued, db, last, pending, split, died>>
         /\ \/ NewServer /\ answer' = answer
            \/ /\ \E i \in DOMAIN mailbox :
                    /\ ~IsCall(mailbox[i]) /\ mailbox' = RemoveAt(mailbox, i)
                    /\ \E v \in Decoded(mailbox[i]) :
                         \/ answer' = answer
                         \/ answer' = [cell |-> server.call.cell, value |-> v,
                                       possible |-> Possible(server.call.cell)]
               /\ waiting' \in [Callers -> RocksCalls \cup {NoRequest}]
               /\ UNCHANGED <<programs, port>>
<1>1. PICK i \in FirstData(LAMBDA m : TRUE) : \E v \in Decoded(mailbox[i]) :
        IF v = Raise THEN NewServer /\ UNCHANGED answer
        ELSE /\ mailbox' = RemoveAt(mailbox, i)
             /\ Reply(server.call)
             /\ answer' = IF Expected(server.call)
                          THEN [cell |-> server.call.cell, value |-> v,
                                possible |-> Possible(server.call.cell)]
                          ELSE answer
             /\ UNCHANGED <<programs, port>>
  BY DEF ReceiveValue
<1>2. i \in DOMAIN mailbox /\ ~IsCall(mailbox[i])
  BY <1>1 DEF FirstData
<1>3. server.at = "get" /\ UNCHANGED <<issued, db, last, pending, split, died>>
  BY DEF ReceiveValue
<1>4. PICK v \in Decoded(mailbox[i]) :
        IF v = Raise THEN NewServer /\ UNCHANGED answer
        ELSE /\ mailbox' = RemoveAt(mailbox, i)
             /\ Reply(server.call)
             /\ answer' = IF Expected(server.call)
                          THEN [cell |-> server.call.cell, value |-> v,
                                possible |-> Possible(server.call.cell)]
                          ELSE answer
             /\ UNCHANGED <<programs, port>>
  BY <1>1
<1>5. CASE v = Raise
  BY <1>3, <1>4, <1>5, NewServerParts
<1>6. CASE v # Raise
  <2>1. server' = IdleServer /\ waiting' \in [Callers -> RocksCalls \cup {NoRequest}]
    BY <1>3, <1>4, <1>6, ReplyParts
  <2>2. \/ answer' = answer
        \/ answer' = [cell |-> server.call.cell, value |-> v,
                      possible |-> Possible(server.call.cell)]
    BY <1>4, <1>6
  <2>3. mailbox' = RemoveAt(mailbox, i) /\ UNCHANGED <<programs, port>>
    BY <1>4, <1>6
  <2> QED
    BY <1>2, <1>3, <1>4, <2>1, <2>2, <2>3
<1> QED
  BY <1>5, <1>6

LEMMA PortReadsParts ==
  ASSUME RocksType, PortReads
  PROVE  \E n \in 1 .. Len(programs[port].output) : \E m \in Answers :
           /\ m = Joined(SubSeq(programs[port].output, 1, n))
           /\ mailbox' = Append(mailbox, m)
           /\ programs' \in [1 .. MaxPrograms -> RocksPrograms]
           /\ \A q \in 1 .. MaxPrograms : q # port => programs'[q] = programs[q]
           /\ programs'[port].input = programs[port].input
           /\ programs'[port].output =
                SubSeq(programs[port].output, n + 1, Len(programs[port].output))
           /\ UNCHANGED <<server, waiting, issued, port, db, histVars>>
<1> DEFINE out == programs[port].output
<1>1. /\ programs \in [1 .. MaxPrograms -> RocksPrograms] /\ port \in 1 .. MaxPrograms
      /\ programs[port] \in RocksPrograms /\ out \in Seq(Answers)
  BY DEF RocksType, RocksPrograms
<1>2. PICK n \in 1 .. Len(out) :
        /\ mailbox' = Append(mailbox, Joined(SubSeq(out, 1, n)))
        /\ programs' = [programs EXCEPT ![port].output = SubSeq(@, n + 1, Len(@))]
  BY DEF PortReads
<1> DEFINE s == SubSeq(out, n + 1, Len(out))
<1>3. s \in Seq(Answers)
  <2>1. \A i \in (n + 1) .. Len(out) : out[i] \in Answers
    BY <1>1
  <2> QED
    BY <1>1, <2>1, SubSeqProperties
<1>4. programs' = [programs EXCEPT ![port] = [programs[port] EXCEPT !.output = s]]
  BY <1>1, <1>2
<1>5. Joined(SubSeq(out, 1, n)) \in Answers
  BY <1>1, JoinedType
<1>6. UNCHANGED <<server, waiting, issued, port, db, histVars>>
  BY DEF PortReads
<1> HIDE DEF s
<1>7. /\ [programs[port] EXCEPT !.output = s] \in RocksPrograms
      /\ [programs[port] EXCEPT !.output = s].output = s
      /\ [programs[port] EXCEPT !.output = s].input = programs[port].input
  BY <1>1, <1>3, SetOutput
<1>8. /\ programs' \in [1 .. MaxPrograms -> RocksPrograms]
      /\ \A q \in 1 .. MaxPrograms : q # port => programs'[q] = programs[q]
      /\ programs'[port].input = programs[port].input /\ programs'[port].output = s
  BY <1>1, <1>4, <1>7, SetProgram
<1> QED
  BY <1>2, <1>5, <1>6, <1>8 DEF s

LEMMA HeadCommand ==
  ASSUME RocksType, NEW p \in Started, programs[p].input # <<>>
  PROVE  /\ p \in 1 .. MaxPrograms /\ p <= port /\ programs[p] \in RocksPrograms
         /\ programs[p].input \in Seq(Commands) /\ 1 \in DOMAIN programs[p].input
         /\ Head(programs[p].input) = programs[p].input[1]
         /\ Head(programs[p].input) \in Commands
<1>1. p \in 1 .. MaxPrograms /\ p <= port
  BY RocksDBPortAssumption DEF RocksType, Started
<1>2. programs[p] \in RocksPrograms
  BY <1>1 DEF RocksType
<1>3. programs[p].input \in Seq(Commands)
  BY <1>2 DEF RocksPrograms
<1> QED
  BY <1>1, <1>2, <1>3, TakeShape

\* The steps of the programs that are not calls of println
LEMMA ProgramEndParts ==
  ASSUME RocksType, NEW p \in Started, MainEnds(p)
  PROVE  /\ programs' \in [1 .. MaxPrograms -> RocksPrograms]
         /\ \A q \in 1 .. MaxPrograms :
              programs'[q] = programs[q] \/
              (programs'[q].input = <<>> /\ programs'[q].output = <<>>)
         /\ UNCHANGED <<mailbox, server, waiting, issued, port, db, histVars>>
<1>1. p \in 1 .. MaxPrograms /\ programs \in [1 .. MaxPrograms -> RocksPrograms]
  BY RocksDBPortAssumption DEF RocksType, Started
<1>2. /\ programs' = [programs EXCEPT ![p] = [FreshProgram EXCEPT !.up = FALSE]]
      /\ UNCHANGED <<mailbox, server, waiting, issued, port, db, histVars>>
  BY DEF MainEnds
<1> QED
  BY <1>1, <1>2, SetProgram, FreshParts

LEMMA ProgramDiesParts ==
  ASSUME RocksType, RocksProgramDies
  PROVE  /\ programs' \in [1 .. MaxPrograms -> RocksPrograms]
         /\ \A q \in 1 .. MaxPrograms :
              programs'[q] = programs[q] \/
              (programs'[q].input = <<>> /\ programs'[q].output = <<>>)
         /\ UNCHANGED <<mailbox, server, waiting, issued, port, db, last, pending, split, answer>>
<1>1. port \in 1 .. MaxPrograms /\ programs \in [1 .. MaxPrograms -> RocksPrograms]
  BY DEF RocksType
<1>2. /\ programs' = [programs EXCEPT ![port] = [FreshProgram EXCEPT !.up = FALSE]]
      /\ UNCHANGED <<mailbox, server, waiting, issued, port, db, last, pending, split, answer>>
  BY DEF RocksProgramDies
<1> QED
  BY <1>1, <1>2, SetProgram, FreshParts

LEMMA OpensParts ==
  ASSUME RocksType, NEW p \in Started, Opens(p)
  PROVE  /\ programs' \in [1 .. MaxPrograms -> RocksPrograms]
         /\ \A q \in 1 .. MaxPrograms :
              programs'[q].input = programs[q].input /\ programs'[q].output = programs[q].output
         /\ UNCHANGED <<mailbox, server, waiting, issued, port, db, histVars>>
<1>1. /\ p \in 1 .. MaxPrograms /\ programs \in [1 .. MaxPrograms -> RocksPrograms]
      /\ programs[p] \in RocksPrograms
  BY RocksDBPortAssumption DEF RocksType, Started
<1> DEFINE r == [programs[p] EXCEPT !.open = TRUE]
<1>2. r \in RocksPrograms /\ r.input = programs[p].input /\ r.output = programs[p].output
  BY <1>1 DEF RocksPrograms
<1>3. programs' = [programs EXCEPT ![p] = r]
  BY <1>1 DEF Opens
<1>4. UNCHANGED <<mailbox, server, waiting, issued, port, db, histVars>>
  BY DEF Opens
<1> HIDE DEF r
<1> QED
  BY <1>1, <1>2, <1>3, <1>4, SetProgram

LEMMA PutsParts ==
  ASSUME RocksType, NEW p \in Started, Puts(p)
  PROVE  /\ programs[p].input # <<>> /\ Head(programs[p].input).op = "put"
         /\ db' = [db EXCEPT ![Head(programs[p].input).cell] = Head(programs[p].input).value]
         /\ Prints(p, "ok", Absent) /\ Absent \in StoredValues
         /\ UNCHANGED <<mailbox, server, waiting, issued, port, last, pending, died, answer>>
BY DEF Puts, StoredValues

LEMMA GetsParts ==
  ASSUME RocksType, NEW p \in Started, Gets(p)
  PROVE  /\ programs[p].input # <<>> /\ Head(programs[p].input).op = "get"
         /\ Prints(p, "whole", db[Head(programs[p].input).cell])
         /\ db[Head(programs[p].input).cell] \in StoredValues
         /\ UNCHANGED <<mailbox, server, waiting, issued, port, db, last, pending, died, answer>>
<1>1. programs[p].input # <<>>
  BY DEF Gets
<1>2. Head(programs[p].input).cell \in Cells
  BY <1>1, HeadCommand DEF Commands
<1> QED
  BY <1>1, <1>2 DEF Gets, RocksType

LEMMA InitRocksType == RocksInit => RocksType
<1> SUFFICES ASSUME RocksInit PROVE RocksType
  OBVIOUS
<1>1. programs \in [1 .. MaxPrograms -> RocksPrograms]
  BY FreshParts DEF RocksInit
<1>2. mailbox \in Seq(RocksCalls \cup Answers) /\ server \in Busy \cup {IdleServer}
  BY DEF RocksInit
<1>3. waiting \in [Callers -> RocksCalls \cup {NoRequest}] /\ issued \in Nat
  BY DEF RocksInit
<1>4. port \in 1 .. MaxPrograms /\ split \in BOOLEAN /\ pending \in SUBSET RocksCalls
  <2>1. port = 1 /\ split = FALSE /\ pending = {}
    BY DEF RocksInit
  <2>2. 1 \in 1 .. MaxPrograms
    BY RocksDBPortAssumption
  <2> QED
    BY <2>1, <2>2
<1>5. db \in [Cells -> StoredValues] /\ last \in [Cells -> StoredValues]
  BY DEF RocksInit, StoredValues
<1> QED
  BY <1>1, <1>2, <1>3, <1>4, <1>5 DEF RocksType

LEMMA NextRocksType == RocksType /\ [RocksNext]_rocksVars => RocksType'
<1> SUFFICES ASSUME RocksType, [RocksNext]_rocksVars PROVE RocksType'
  OBVIOUS
<1> DEFINE Letters == RocksCalls \cup Answers
<1>0. /\ mailbox \in Seq(Letters) /\ <<>> \in Seq(Letters)
      /\ server \in Busy \cup {IdleServer} /\ issued \in Nat
      /\ waiting \in [Callers -> RocksCalls \cup {NoRequest}]
      /\ port \in 1 .. MaxPrograms /\ programs \in [1 .. MaxPrograms -> RocksPrograms]
      /\ db \in [Cells -> StoredValues] /\ last \in [Cells -> StoredValues]
      /\ pending \in SUBSET RocksCalls /\ split \in BOOLEAN
  BY DEF RocksType
<1> HIDE DEF Letters
<1>a. ASSUME NEW m \in RocksCalls \cup Answers PROVE Append(mailbox, m) \in Seq(Letters)
  BY <1>0, <1>a DEF Letters
<1>b. mailbox # <<>> => Head(mailbox) \in Letters /\ Tail(mailbox) \in Seq(Letters)
  BY <1>0, TakeShape
<1>c. ASSUME NEW i \in DOMAIN mailbox PROVE RemoveAt(mailbox, i) \in Seq(Letters)
  BY <1>0, RemoveShape
<1>1. CASE \E c \in Callers : GetOrPut(c)
  <2>1. PICK call \in RocksCalls :
           /\ call.id = issued + 1 /\ issued' = issued + 1
           /\ mailbox' = Append(mailbox, call)
           /\ waiting' \in [Callers -> RocksCalls \cup {NoRequest}]
           /\ pending' = IF call.op = "put" THEN pending \cup {call} ELSE pending
           /\ UNCHANGED <<server, programs, port, db, last, split, died, answer>>
    BY <1>1, GetOrPutParts
  <2>2. mailbox' \in Seq(Letters)
    BY <1>a, <2>1
  <2> QED
    BY <1>0, <2>1, <2>2 DEF RocksType, Letters
<1>2. CASE \E c \in Callers : TimesOut(c)
  BY <1>0, <1>2 DEF TimesOut, RocksType, Letters, histVars
<1>3. CASE HandleCall
  <2>1. /\ Head(mailbox) \in RocksCalls /\ mailbox' \in Seq(Letters)
    BY <1>3, <1>b, MessageKinds DEF HandleCall, Letters
  <2>2. /\ Command(Head(mailbox)) /\ server' = [at |-> Head(mailbox).op, call |-> Head(mailbox)]
        /\ UNCHANGED <<waiting, issued, port, db, histVars>>
    BY <1>3 DEF HandleCall
  <2>3. programs' \in [1 .. MaxPrograms -> RocksPrograms]
    BY <2>1, <2>2, CommandParts
  <2>4. server' \in Busy
    BY <2>1, <2>2 DEF Busy, RocksCalls
  <2> QED
    BY <1>0, <2>1, <2>2, <2>3, <2>4 DEF RocksType, Letters, histVars
<1>4. CASE HandleInfo
  BY <1>0, <1>4, <1>b DEF HandleInfo, RocksType, Letters, histVars
<1>5. CASE ReceiveOk
  BY <1>0, <1>5, <1>c, ReceiveOkParts DEF RocksType, Letters, histVars
<1>6. CASE Sleeps
  <2>1. server.at = "sleep" /\ Reply(server.call) /\ server.call \in RocksCalls
    BY <1>6, <1>0, ServerParts DEF Sleeps
  <2>2. server' = IdleServer /\ waiting' \in [Callers -> RocksCalls \cup {NoRequest}]
    BY <2>1, ReplyParts
  <2>3. server.call.cell \in Cells /\ server.call.value \in StoredValues
    BY <2>1 DEF RocksCalls
  <2>4. last' \in [Cells -> StoredValues] /\ pending' \in SUBSET RocksCalls
    BY <1>0, <1>6, <2>3 DEF Sleeps
  <2>5. UNCHANGED <<mailbox, issued, programs, port, db, split, died, answer>>
    BY <1>6 DEF Sleeps
  <2> QED
    BY <1>0, <2>2, <2>4, <2>5 DEF RocksType, Letters
<1>7. CASE ReceiveValue
  <2>1. server' = IdleServer /\ UNCHANGED <<issued, db, last, pending, split, died>>
    BY <1>7, ReceiveValueParts
  <2>2. CASE NewServer
    BY <1>0, <2>1, <2>2, NewServerParts DEF RocksType, Letters
  <2>3. CASE ~NewServer
    <3>1. PICK i \in DOMAIN mailbox : mailbox' = RemoveAt(mailbox, i)
      BY <1>7, <2>3, ReceiveValueParts
    <3>2. /\ waiting' \in [Callers -> RocksCalls \cup {NoRequest}]
          /\ UNCHANGED <<programs, port>>
      BY <1>7, <2>3, ReceiveValueParts
    <3> QED
      BY <1>0, <1>c, <2>1, <3>1, <3>2 DEF RocksType, Letters
  <2> QED
    BY <2>2, <2>3
<1>8. CASE Restarts
  <2>1. NewServer /\ UNCHANGED <<issued, db, histVars>>
    BY <1>8 DEF Restarts
  <2> QED
    BY <1>0, <2>1, NewServerParts DEF RocksType, Letters, histVars
<1>9. CASE \E p \in Started : Opens(p)
  BY <1>0, <1>9, OpensParts DEF RocksType, histVars
<1>10. CASE \E p \in Started : Puts(p)
  <2>1. PICK p \in Started : Puts(p)
    BY <1>10
  <2>2. Head(programs[p].input).cell \in Cells /\ Head(programs[p].input).value \in StoredValues
    BY <2>1, PutsParts, HeadCommand DEF Commands
  <2>3. db' \in [Cells -> StoredValues]
    BY <1>0, <2>1, <2>2, PutsParts
  <2>4. programs' \in [1 .. MaxPrograms -> RocksPrograms] /\ split' \in BOOLEAN
    BY <1>0, <2>1, PutsParts, PrintsParts
  <2>5. UNCHANGED <<mailbox, server, waiting, issued, port, last, pending>>
    BY <2>1, PutsParts
  <2> QED
    BY <1>0, <2>3, <2>4, <2>5 DEF RocksType, Letters
<1>11. CASE \E p \in Started : Gets(p)
  <2>1. PICK p \in Started : Gets(p)
    BY <1>11
  <2>2. programs' \in [1 .. MaxPrograms -> RocksPrograms] /\ split' \in BOOLEAN
    BY <1>0, <2>1, GetsParts, PrintsParts
  <2>3. UNCHANGED <<mailbox, server, waiting, issued, port, db, last, pending>>
    BY <2>1, GetsParts
  <2> QED
    BY <1>0, <2>2, <2>3 DEF RocksType, Letters
<1>12. CASE \E p \in Started : MainEnds(p)
  BY <1>0, <1>12, ProgramEndParts DEF RocksType, histVars, Letters
<1>13. CASE PortReads
  BY <1>0, <1>13, <1>a, PortReadsParts DEF RocksType, histVars, Letters
<1>14. CASE RocksProgramDies
  BY <1>0, <1>14, ProgramDiesParts DEF RocksType, Letters
<1>15. CASE UNCHANGED rocksVars
  BY <1>0, <1>15 DEF RocksType, rocksVars, histVars, Letters
<1> QED
  BY <1>1, <1>2, <1>3, <1>4, <1>5, <1>6, <1>7, <1>8, <1>9, <1>10, <1>11, <1>12, <1>13, <1>14,
     <1>15 DEF RocksNext, ServerStep, ProgramStep

-----------------------------------------------------------------------------
(* The calls in the mailbox *)

\* The step takes messages out of the mailbox and leaves the others in order: f says
\* where they stood.
SubMail(f) ==
  /\ f \in [DOMAIN mailbox' -> DOMAIN mailbox]
  /\ \A j \in DOMAIN mailbox' : mailbox'[j] = mailbox[f[j]]
  /\ \A i, j \in DOMAIN mailbox' : i < j => f[i] < f[j]

LEMMA TakesHead ==
  ASSUME RocksType, mailbox # <<>>, mailbox' = Tail(mailbox)
  PROVE  /\ \E f : SubMail(f)
         /\ 1 \in DOMAIN mailbox /\ Head(mailbox) = mailbox[1]
         /\ \A j \in DOMAIN mailbox' : j + 1 \in DOMAIN mailbox /\ mailbox'[j] = mailbox[j + 1]
         /\ DOMAIN mailbox \subseteq Nat \ {0} /\ DOMAIN mailbox' \subseteq Nat \ {0}
<1>1. mailbox \in Seq(RocksCalls \cup Answers)
  BY DEF RocksType
<1>2. /\ Len(mailbox) \in Nat /\ Len(mailbox) >= 1 /\ DOMAIN mailbox = 1 .. Len(mailbox)
      /\ Head(mailbox) = mailbox[1] /\ DOMAIN mailbox' = 1 .. (Len(mailbox) - 1)
      /\ \A j \in DOMAIN mailbox' : j + 1 \in DOMAIN mailbox /\ mailbox'[j] = mailbox[j + 1]
  BY <1>1, TakeShape
<1>3. SubMail([j \in DOMAIN mailbox' |-> j + 1])
  BY <1>2 DEF SubMail
<1> QED
  BY <1>2, <1>3

LEMMA TakesOne ==
  ASSUME RocksType, NEW i \in DOMAIN mailbox, mailbox' = RemoveAt(mailbox, i)
  PROVE  \E f : SubMail(f) /\ \A j \in DOMAIN mailbox' : f[j] # i
<1>1. mailbox \in Seq(RocksCalls \cup Answers)
  BY DEF RocksType
<1>2. /\ Len(mailbox) \in Nat /\ DOMAIN mailbox = 1 .. Len(mailbox)
      /\ DOMAIN mailbox' = 1 .. (Len(mailbox) - 1)
      /\ \A j \in 1 .. (Len(mailbox) - 1) : mailbox'[j] = mailbox[IF j < i THEN j ELSE j + 1]
  BY <1>1, RemoveShape
<1> DEFINE f == [j \in DOMAIN mailbox' |-> IF j < i THEN j ELSE j + 1]
<1>3. SubMail(f) /\ \A j \in DOMAIN mailbox' : f[j] # i
  BY <1>2 DEF SubMail
<1> QED
  BY <1>3

LEMMA KeepsMail ==
  ASSUME RocksType, mailbox' = mailbox
  PROVE  \E f : SubMail(f)
<1>1. DOMAIN mailbox = 1 .. Len(mailbox) /\ Len(mailbox) \in Nat
  BY DEF RocksType
<1>2. SubMail([j \in DOMAIN mailbox' |-> j])
  BY <1>1 DEF SubMail
<1> QED
  BY <1>2

LEMMA EmptiesMail ==
  ASSUME mailbox' = <<>>
  PROVE  DOMAIN mailbox' = {} /\ \E f : SubMail(f)
<1>1. DOMAIN mailbox' = {}
  OBVIOUS
<1>2. SubMail([j \in DOMAIN mailbox' |-> j])
  BY <1>1 DEF SubMail
<1> QED
  BY <1>1, <1>2

LEMMA PutsMail ==
  ASSUME RocksType, NEW m \in RocksCalls \cup Answers, mailbox' = Append(mailbox, m)
  PROVE  /\ Len(mailbox) \in Nat /\ DOMAIN mailbox = 1 .. Len(mailbox)
         /\ DOMAIN mailbox' = 1 .. (Len(mailbox) + 1) /\ mailbox'[Len(mailbox) + 1] = m
         /\ \A j \in DOMAIN mailbox' : \/ j = Len(mailbox) + 1
                                       \/ j \in DOMAIN mailbox /\ mailbox'[j] = mailbox[j]
         /\ \A j \in DOMAIN mailbox : j \in DOMAIN mailbox' /\ mailbox'[j] = mailbox[j]
<1>1. mailbox \in Seq(RocksCalls \cup Answers)
  BY DEF RocksType
<1>2. /\ Len(mailbox) \in Nat /\ DOMAIN mailbox = 1 .. Len(mailbox)
      /\ DOMAIN mailbox' = 1 .. (Len(mailbox) + 1) /\ mailbox'[Len(mailbox) + 1] = m
      /\ \A j \in 1 .. Len(mailbox) : mailbox'[j] = mailbox[j]
  BY <1>1, SendShape
<1> QED
  BY <1>2

\* What CallsInv says of the mailbox stays true when messages are taken out.
LEMMA CallsShrink ==
  ASSUME RocksType, CallsInv, NEW f, SubMail(f)
  PROVE  \A i \in DOMAIN mailbox' :
           IsCall(mailbox'[i]) =>
             /\ mailbox'[i] \in RocksCalls
             /\ mailbox'[i].id <= issued /\ server.call.id < mailbox'[i].id
             /\ mailbox'[i].op = "put" => mailbox'[i] \in pending
             /\ \A j \in DOMAIN mailbox' :
                  i < j /\ IsCall(mailbox'[j]) => mailbox'[i].id < mailbox'[j].id
<1> SUFFICES ASSUME NEW i \in DOMAIN mailbox', IsCall(mailbox'[i])
             PROVE  /\ mailbox'[i] \in RocksCalls
                    /\ mailbox'[i].id <= issued /\ server.call.id < mailbox'[i].id
                    /\ mailbox'[i].op = "put" => mailbox'[i] \in pending
                    /\ \A j \in DOMAIN mailbox' :
                         i < j /\ IsCall(mailbox'[j]) => mailbox'[i].id < mailbox'[j].id
  OBVIOUS
<1>1. f[i] \in DOMAIN mailbox /\ mailbox'[i] = mailbox[f[i]]
  BY DEF SubMail
<1>2. mailbox[f[i]] \in RocksCalls
  BY <1>1, MessageKinds DEF RocksType
<1>3. ASSUME NEW j \in DOMAIN mailbox', i < j, IsCall(mailbox'[j])
      PROVE  mailbox'[i].id < mailbox'[j].id
  <2>1. f[j] \in DOMAIN mailbox /\ mailbox'[j] = mailbox[f[j]] /\ f[i] < f[j]
    BY <1>3 DEF SubMail
  <2> QED
    BY <1>1, <1>3, <2>1 DEF CallsInv
<1> QED
  BY <1>1, <1>2, <1>3 DEF CallsInv

\* The steps that neither the mailbox nor the server sees
Aside ==
  \/ \E c \in Callers : TimesOut(c)
  \/ \E p \in Started : Opens(p) \/ Puts(p) \/ Gets(p) \/ MainEnds(p)
  \/ RocksProgramDies \/ UNCHANGED rocksVars

LEMMA AsideParts ==
  ASSUME RocksType, Aside
  PROVE  UNCHANGED <<mailbox, server, issued, pending, port, last, answer>>
<1>1. CASE \E c \in Callers : TimesOut(c)
  BY <1>1 DEF TimesOut, histVars
<1>2. CASE \E p \in Started : Opens(p)
  BY <1>2 DEF Opens, histVars
<1>3. CASE \E p \in Started : Puts(p) \/ Gets(p)
  BY <1>3 DEF Puts, Gets
<1>4. CASE \E p \in Started : MainEnds(p)
  BY <1>4 DEF MainEnds, histVars
<1>5. CASE RocksProgramDies
  BY <1>5 DEF RocksProgramDies
<1>6. CASE UNCHANGED rocksVars
  BY <1>6 DEF rocksVars
<1> QED
  BY <1>1, <1>2, <1>3, <1>4, <1>5, <1>6 DEF Aside

LEMMA RocksSteps ==
  ASSUME [RocksNext]_rocksVars
  PROVE  \/ \E c \in Callers : GetOrPut(c)
         \/ HandleCall \/ HandleInfo \/ ReceiveOk \/ Sleeps \/ ReceiveValue
         \/ Restarts \/ PortReads \/ Aside
BY DEF RocksNext, ServerStep, ProgramStep, Aside

\* A server ends without its calls: the mailbox of the next one is empty.
LEMMA CallsRestart ==
  ASSUME RocksType, CallsInv, NewServer, issued' = issued, pending' = pending
  PROVE  CallsInv'
<1>1. mailbox' = <<>> /\ server'.at = "idle" /\ server'.call.id = 0 /\ issued \in Nat
  BY NewServerParts, IdleParts DEF RocksType
<1>2. DOMAIN mailbox' = {}
  BY <1>1
<1> QED
  BY <1>1, <1>2 DEF CallsInv

\* The server is idle again and has taken something out of the mailbox.
LEMMA CallsReplied ==
  ASSUME RocksType, CallsInv, server' = IdleServer, issued' = issued,
         NEW f, SubMail(f),
         \A q \in pending : q = server.call \/ q \in pending',
         pending' \subseteq pending
  PROVE  CallsInv'
<1>1. server'.at = "idle" /\ server'.call.id = 0 /\ issued \in Nat
  BY IdleParts DEF RocksType
<1>2. ASSUME NEW i \in DOMAIN mailbox', IsCall(mailbox'[i])
      PROVE  /\ mailbox'[i].id <= issued' /\ server'.call.id < mailbox'[i].id
             /\ mailbox'[i].op = "put" => mailbox'[i] \in pending'
             /\ \A j \in DOMAIN mailbox' :
                  i < j /\ IsCall(mailbox'[j]) => mailbox'[i].id < mailbox'[j].id
  <2>1. /\ mailbox'[i] \in RocksCalls
        /\ mailbox'[i].id <= issued /\ server.call.id < mailbox'[i].id
        /\ mailbox'[i].op = "put" => mailbox'[i] \in pending
        /\ \A j \in DOMAIN mailbox' :
             i < j /\ IsCall(mailbox'[j]) => mailbox'[i].id < mailbox'[j].id
    BY <1>2, CallsShrink
  <2>2. mailbox'[i].id \in Nat /\ mailbox'[i].id >= 1
    BY <2>1, MessageKinds
  <2>3. server.call.id \in Nat
    BY ServerParts, MessageKinds, IdleParts DEF RocksType
  <2>4. mailbox'[i] # server.call
    BY <2>1, <2>2, <2>3
  <2> QED
    BY <1>1, <2>1, <2>2, <2>4
<1> QED
  BY <1>1, <1>2 DEF CallsInv, IsCall

LEMMA NextCallsInv == RocksType /\ CallsInv /\ [RocksNext]_rocksVars => CallsInv'
<1> SUFFICES ASSUME RocksType, CallsInv, [RocksNext]_rocksVars PROVE CallsInv'
  OBVIOUS
<1>0. /\ issued \in Nat /\ server.call.id \in Nat
      /\ server.at # "idle" => server.call \in RocksCalls
  BY ServerParts, MessageKinds, IdleParts DEF RocksType
<1>1. CASE \E c \in Callers : GetOrPut(c)
  <2>1. PICK call \in RocksCalls :
           /\ call.id = issued + 1 /\ issued' = issued + 1
           /\ mailbox' = Append(mailbox, call)
           /\ pending' = IF call.op = "put" THEN pending \cup {call} ELSE pending
           /\ server' = server
    BY <1>1, GetOrPutParts
  <2>2. call \in RocksCalls \cup Answers
    OBVIOUS
  <2>3. /\ Len(mailbox) \in Nat /\ DOMAIN mailbox = 1 .. Len(mailbox)
        /\ DOMAIN mailbox' = 1 .. (Len(mailbox) + 1) /\ mailbox'[Len(mailbox) + 1] = call
        /\ \A j \in DOMAIN mailbox' : \/ j = Len(mailbox) + 1
                                      \/ j \in DOMAIN mailbox /\ mailbox'[j] = mailbox[j]
    BY <2>1, <2>2, PutsMail
  <2>4. ASSUME NEW i \in DOMAIN mailbox', IsCall(mailbox'[i])
        PROVE  /\ mailbox'[i].id <= issued' /\ server'.call.id < mailbox'[i].id
               /\ mailbox'[i].op = "put" => mailbox'[i] \in pending'
               /\ \A j \in DOMAIN mailbox' :
                    i < j /\ IsCall(mailbox'[j]) => mailbox'[i].id < mailbox'[j].id
    <3>1. CASE i = Len(mailbox) + 1
      <4>1. server.call.id <= issued
        BY DEF CallsInv
      <4> QED
        BY <1>0, <2>1, <2>3, <3>1, <4>1
    <3>2. CASE i # Len(mailbox) + 1
      <4>1. i \in DOMAIN mailbox /\ mailbox'[i] = mailbox[i]
        BY <2>3, <3>2
      <4>2. /\ mailbox[i].id <= issued /\ server.call.id < mailbox[i].id
            /\ mailbox[i].op = "put" => mailbox[i] \in pending
            /\ \A j \in DOMAIN mailbox :
                 i < j /\ IsCall(mailbox[j]) => mailbox[i].id < mailbox[j].id
        BY <2>4, <4>1 DEF CallsInv
      <4>3. mailbox[i].id \in Nat
        BY <2>4, <4>1, MessageKinds DEF RocksType
      <4>4. ASSUME NEW j \in DOMAIN mailbox', i < j, IsCall(mailbox'[j])
            PROVE  mailbox'[i].id < mailbox'[j].id
        BY <1>0, <2>1, <2>3, <4>1, <4>2, <4>3, <4>4
      <4> QED
        BY <1>0, <2>1, <4>1, <4>2, <4>3, <4>4
    <3> QED
      BY <3>1, <3>2
  <2>5. \A q \in pending' : q.id <= issued'
    BY <1>0, <2>1, MessageKinds DEF CallsInv, RocksType
  <2>6. server'.call.id <= issued'
    BY <1>0, <2>1 DEF CallsInv
  <2> QED
    BY <2>1, <2>4, <2>5, <2>6 DEF CallsInv, IsCall
<1>2. CASE HandleCall
  <2>1. /\ mailbox # <<>> /\ mailbox' = Tail(mailbox) /\ IsCall(Head(mailbox))
        /\ server' = [at |-> Head(mailbox).op, call |-> Head(mailbox)]
        /\ issued' = issued /\ pending' = pending
    BY <1>2 DEF HandleCall, histVars
  <2>2. /\ 1 \in DOMAIN mailbox /\ Head(mailbox) = mailbox[1]
        /\ \A j \in DOMAIN mailbox' : j + 1 \in DOMAIN mailbox /\ mailbox'[j] = mailbox[j + 1]
        /\ DOMAIN mailbox' \subseteq Nat \ {0}
    BY <2>1, TakesHead
  <2>3. PICK f : SubMail(f)
    BY <2>1, TakesHead
  <2>4. mailbox[1] \in RocksCalls /\ mailbox[1].op \in {"get", "put"}
    BY <2>1, <2>2, MessageKinds DEF RocksType, RocksCalls
  <2>5. ASSUME NEW i \in DOMAIN mailbox', IsCall(mailbox'[i])
        PROVE  mailbox[1].id < mailbox'[i].id
    BY <2>1, <2>2, <2>5 DEF CallsInv
  <2>6. /\ mailbox[1].id <= issued /\ mailbox[1].op = "put" => mailbox[1] \in pending
    BY <2>1, <2>2 DEF CallsInv
  <2>7. server'.at = mailbox[1].op /\ server'.call = mailbox[1]
    BY <2>1, <2>2
  <2>8. \A i \in DOMAIN mailbox' :
           IsCall(mailbox'[i]) =>
             /\ mailbox'[i].id <= issued
             /\ mailbox'[i].op = "put" => mailbox'[i] \in pending
             /\ \A j \in DOMAIN mailbox' :
                  i < j /\ IsCall(mailbox'[j]) => mailbox'[i].id < mailbox'[j].id
    BY <2>3, CallsShrink
  <2>9. \A q \in pending' : q.id <= issued'
    BY <2>1 DEF CallsInv
  <2> QED
    BY <2>1, <2>4, <2>5, <2>6, <2>7, <2>8, <2>9 DEF CallsInv, IsCall
<1>3. CASE HandleInfo \/ ReceiveOk
  <2>1. (\E f : SubMail(f)) /\ server'.call = server.call /\ issued' = issued /\ pending' = pending
    <3>1. CASE HandleInfo
      BY <3>1, TakesHead DEF HandleInfo, histVars
    <3>2. CASE ReceiveOk
      BY <3>2, ReceiveOkParts, TakesOne DEF histVars
    <3> QED
      BY <1>3, <3>1, <3>2
  <2>2. PICK f : SubMail(f)
    BY <2>1
  <2>3. server' = server \/ (server.at = "put" /\ server'.at = "sleep")
    BY <1>3, ReceiveOkParts DEF HandleInfo
  <2>4. \A i \in DOMAIN mailbox' :
           IsCall(mailbox'[i]) =>
             /\ mailbox'[i].id <= issued /\ server.call.id < mailbox'[i].id
             /\ mailbox'[i].op = "put" => mailbox'[i] \in pending
             /\ \A j \in DOMAIN mailbox' :
                  i < j /\ IsCall(mailbox'[j]) => mailbox'[i].id < mailbox'[j].id
    BY <2>2, CallsShrink
  <2>5. /\ server'.call.id <= issued' /\ \A q \in pending' : q.id <= issued'
        /\ server'.at \in {"put", "sleep"} => server'.call \in pending' /\ server'.call.op = "put"
        /\ server'.at = "get" => server'.call.op = "get"
    BY <2>1, <2>3 DEF CallsInv
  <2> QED
    BY <2>1, <2>4, <2>5 DEF CallsInv, IsCall
<1>4. CASE Sleeps
  <2>1. /\ server' = IdleServer /\ mailbox' = mailbox /\ issued' = issued
        /\ \A q \in pending : q = server.call \/ q \in pending'
        /\ pending' \subseteq pending
    BY <1>4 DEF Sleeps, Reply
  <2>2. PICK f : SubMail(f)
    BY <2>1, KeepsMail
  <2> QED
    BY <2>1, <2>2, CallsReplied
<1>5. CASE ReceiveValue
  <2>1. server' = IdleServer /\ issued' = issued /\ pending' = pending
    BY <1>5, ReceiveValueParts
  <2>2. CASE NewServer
    BY <2>1, <2>2, CallsRestart
  <2>3. CASE ~NewServer
    <3>1. PICK i \in DOMAIN mailbox : mailbox' = RemoveAt(mailbox, i)
      BY <1>5, <2>3, ReceiveValueParts
    <3>2. PICK f : SubMail(f)
      BY <3>1, TakesOne
    <3> QED
      BY <2>1, <3>2, CallsReplied
  <2> QED
    BY <2>2, <2>3
<1>6. CASE Restarts
  BY <1>6, CallsRestart DEF Restarts, histVars
<1>7. CASE PortReads
  <2>1. PICK m \in Answers : mailbox' = Append(mailbox, m)
    BY <1>7, PortReadsParts
  <2>2. UNCHANGED <<server, issued, pending>>
    BY <1>7 DEF PortReads, histVars
  <2>3. m \in RocksCalls \cup Answers /\ ~IsCall(m)
    BY MessageKinds
  <2>4. \A j \in DOMAIN mailbox' : IsCall(mailbox'[j]) =>
          j \in DOMAIN mailbox /\ mailbox'[j] = mailbox[j]
    BY <2>1, <2>3, PutsMail
  <2> QED
    BY <2>2, <2>4 DEF CallsInv, IsCall
<1>8. CASE Aside
  BY <1>8, AsideParts DEF CallsInv, IsCall
<1> QED
  BY <1>1, <1>2, <1>3, <1>4, <1>5, <1>6, <1>7, <1>8, RocksSteps

-----------------------------------------------------------------------------
(* The puts of earlier programs *)

\* What becomes of a program that is not the server's
LEMMA AsideOthers ==
  ASSUME RocksType, Aside, NEW q \in 1 .. MaxPrograms, q # port
  PROVE  \/ programs'[q].input = programs[q].input /\ programs'[q].output = programs[q].output
         \/ programs'[q].input = <<>> /\ programs'[q].output = <<>>
<1>1. CASE \E c \in Callers : TimesOut(c)
  BY <1>1 DEF TimesOut
<1>2. CASE \E p \in Started : Opens(p)
  BY <1>2, OpensParts
<1>3. CASE \E p \in Started : Puts(p)
  <2>1. PICK p \in Started : Puts(p)
    BY <1>3
  <2>2. p # q => programs'[q] = programs[q]
    BY <2>1, PutsParts, PrintsParts
  <2>3. p # port => programs'[p].input = <<>> /\ programs'[p].output = <<>>
    BY <2>1, PutsParts, PrintsParts
  <2> QED
    BY <2>2, <2>3
<1>4. CASE \E p \in Started : Gets(p)
  <2>1. PICK p \in Started : Gets(p)
    BY <1>4
  <2>2. p # q => programs'[q] = programs[q]
    BY <2>1, GetsParts, PrintsParts
  <2>3. p # port => programs'[p].input = <<>> /\ programs'[p].output = <<>>
    BY <2>1, GetsParts, PrintsParts
  <2> QED
    BY <2>2, <2>3
<1>5. CASE \E p \in Started : MainEnds(p)
  BY <1>5, ProgramEndParts
<1>6. CASE RocksProgramDies
  BY <1>6, ProgramDiesParts
<1>7. CASE UNCHANGED rocksVars
  BY <1>7 DEF rocksVars
<1> QED
  BY <1>1, <1>2, <1>3, <1>4, <1>5, <1>6, <1>7 DEF Aside

\* The puts of an earlier program stay pending, in no mailbox and with no server.
LEMMA OldPutsStay ==
  ASSUME RocksType, OldPutsInv, port' = port,
         \A q \in 1 .. MaxPrograms : q # port =>
           \/ programs'[q].input = programs[q].input /\ programs'[q].output = programs[q].output
           \/ programs'[q].input = <<>> /\ programs'[q].output = <<>>,
         \A q \in pending :
           q # server.call /\ (\A j \in DOMAIN mailbox : mailbox[j] # q) =>
             /\ q \in pending' /\ q # server'.call
             /\ \A j \in DOMAIN mailbox' : mailbox'[j] # q
  PROVE  OldPutsInv'
<1> SUFFICES ASSUME NEW p \in 1 .. MaxPrograms
             PROVE  /\ p < port' => \A i \in DOMAIN programs'[p].input :
                         programs'[p].input[i].op = "put" =>
                           \E q \in pending' :
                             /\ Carries(programs'[p].input[i], q) /\ q # server'.call
                             /\ \A j \in DOMAIN mailbox' : mailbox'[j] # q
                    /\ p > port' => programs'[p].input = <<>> /\ programs'[p].output = <<>>
                    /\ p # port' => programs'[p].output = <<>>
  BY DEF OldPutsInv, Carries
<1>0. port \in Nat /\ p \in Nat /\ DOMAIN <<>> = {}
  BY DEF RocksType
<1>1. ASSUME p < port, NEW i \in DOMAIN programs'[p].input, programs'[p].input[i].op = "put"
      PROVE  \E q \in pending' :
               /\ Carries(programs'[p].input[i], q) /\ q # server'.call
               /\ \A j \in DOMAIN mailbox' : mailbox'[j] # q
  <2>1. programs'[p].input = programs[p].input
    BY <1>0, <1>1
  <2>2. PICK q \in pending :
           /\ Carries(programs[p].input[i], q) /\ q # server.call
           /\ \A j \in DOMAIN mailbox : mailbox[j] # q
    BY <1>1, <2>1 DEF OldPutsInv
  <2> QED
    BY <2>1, <2>2
<1>2. p > port => programs'[p].input = <<>> /\ programs'[p].output = <<>>
  BY <1>0 DEF OldPutsInv
<1>3. p # port => programs'[p].output = <<>>
  BY DEF OldPutsInv
<1> QED
  BY <1>1, <1>2, <1>3

\* The program of a server that ends is an earlier one, with the put that the server
\* had given to it.
LEMMA OldPutsRestart ==
  ASSUME RocksType, CallsInv, OldPutsInv, OkInv, NewServer, pending' = pending
  PROVE  OldPutsInv'
<1>1. /\ port' = port + 1 /\ port \in Nat
      /\ \A q \in 1 .. MaxPrograms : q # port => programs'[q] = programs[q]
      /\ programs'[port].input = programs[port].input /\ programs'[port].output = <<>>
      /\ DOMAIN mailbox' = {} /\ server'.call = NoRequest
  BY NewServerParts, EmptiesMail, IdleParts DEF RocksType
<1> SUFFICES ASSUME NEW p \in 1 .. MaxPrograms
             PROVE  /\ p < port' => \A i \in DOMAIN programs'[p].input :
                         programs'[p].input[i].op = "put" =>
                           \E q \in pending' :
                             /\ Carries(programs'[p].input[i], q) /\ q # server'.call
                             /\ \A j \in DOMAIN mailbox' : mailbox'[j] # q
                    /\ p > port' => programs'[p].input = <<>> /\ programs'[p].output = <<>>
                    /\ p # port' => programs'[p].output = <<>>
  BY DEF OldPutsInv, Carries
<1>2. \A q \in pending : q # NoRequest
  BY MessageKinds DEF RocksType
<1>3. ASSUME p < port', NEW i \in DOMAIN programs'[p].input, programs'[p].input[i].op = "put"
      PROVE  \E q \in pending' :
               /\ Carries(programs'[p].input[i], q) /\ q # server'.call
               /\ \A j \in DOMAIN mailbox' : mailbox'[j] # q
  <2>1. programs'[p].input = programs[p].input
    BY <1>1
  <2>2. \E q \in pending : Carries(programs[p].input[i], q)
    <3>1. CASE p = port
      <4>1. server.at = "put" /\ Carries(programs[p].input[i], server.call)
        BY <1>3, <2>1, <3>1 DEF OkInv
      <4> QED
        BY <4>1 DEF CallsInv
    <3>2. CASE p # port
      <4>1. p < port
        BY <1>1, <1>3, <3>2
      <4> QED
        BY <1>3, <2>1, <4>1 DEF OldPutsInv
    <3> QED
      BY <3>1, <3>2
  <2> QED
    BY <1>1, <1>2, <2>1, <2>2
<1>4. p > port' => programs'[p].input = <<>> /\ programs'[p].output = <<>>
  BY <1>1 DEF OldPutsInv
<1>5. p # port' => programs'[p].output = <<>>
  BY <1>1 DEF OldPutsInv
<1> QED
  BY <1>3, <1>4, <1>5

LEMMA NextOldPutsInv ==
  RocksType /\ CallsInv /\ OldPutsInv /\ OkInv /\ [RocksNext]_rocksVars => OldPutsInv'
<1> SUFFICES ASSUME RocksType, CallsInv, OldPutsInv, OkInv, [RocksNext]_rocksVars
             PROVE  OldPutsInv'
  OBVIOUS
<1>0. \A q \in pending : q \in RocksCalls /\ q # NoRequest /\ q.id \in Nat /\ q.id <= issued
  BY MessageKinds DEF RocksType, CallsInv
<1>a. ASSUME NEW f, SubMail(f), NEW q, \A j \in DOMAIN mailbox : mailbox[j] # q
      PROVE  \A j \in DOMAIN mailbox' : mailbox'[j] # q
  BY <1>a DEF SubMail
<1>1. CASE \E c \in Callers : GetOrPut(c)
  <2>1. PICK call \in RocksCalls :
           /\ call.id = issued + 1
           /\ mailbox' = Append(mailbox, call)
           /\ pending' = IF call.op = "put" THEN pending \cup {call} ELSE pending
           /\ server' = server /\ programs' = programs /\ port' = port
    BY <1>1, GetOrPutParts
  <2>2. call \in RocksCalls \cup Answers /\ issued \in Nat
    BY DEF RocksType
  <2>3. \A q \in pending : call # q
    BY <1>0, <2>1, <2>2
  <2>4. \A j \in DOMAIN mailbox' : mailbox'[j] = call \/
          (j \in DOMAIN mailbox /\ mailbox'[j] = mailbox[j])
    BY <2>1, <2>2, PutsMail
  <2> QED
    BY <2>1, <2>3, <2>4, OldPutsStay
<1>2. CASE HandleCall
  <2>1. /\ mailbox # <<>> /\ mailbox' = Tail(mailbox) /\ IsCall(Head(mailbox))
        /\ server'.call = Head(mailbox) /\ port' = port /\ pending' = pending
        /\ Command(Head(mailbox))
    BY <1>2 DEF HandleCall, histVars
  <2>2. 1 \in DOMAIN mailbox /\ Head(mailbox) = mailbox[1]
    BY <2>1, TakesHead
  <2>3. PICK f : SubMail(f)
    BY <2>1, TakesHead
  <2>4. Head(mailbox) \in RocksCalls
    BY <2>1, <2>2, MessageKinds DEF RocksType
  <2>5. \A q \in 1 .. MaxPrograms : q # port => programs'[q] = programs[q]
    BY <2>1, <2>4, CommandParts
  <2> QED
    BY <1>a, <2>1, <2>2, <2>3, <2>5, OldPutsStay
<1>3. CASE HandleInfo \/ ReceiveOk
  <2>1. /\ server'.call = server.call /\ port' = port /\ pending' = pending
        /\ programs' = programs /\ \E f : SubMail(f)
    <3>1. CASE HandleInfo
      BY <3>1, TakesHead DEF HandleInfo, histVars
    <3>2. CASE ReceiveOk
      BY <3>2, ReceiveOkParts, TakesOne DEF histVars
    <3> QED
      BY <1>3, <3>1, <3>2
  <2>2. PICK f : SubMail(f)
    BY <2>1
  <2> QED
    BY <1>a, <2>1, <2>2, OldPutsStay
<1>4. CASE Sleeps
  <2>1. /\ server'.call = NoRequest /\ mailbox' = mailbox /\ port' = port /\ programs' = programs
        /\ \A q \in pending : q = server.call \/ q \in pending'
    BY <1>4, IdleParts DEF Sleeps, Reply
  <2> QED
    BY <1>0, <2>1, OldPutsStay
<1>5. CASE ReceiveValue
  <2>1. server'.call = NoRequest /\ pending' = pending
    BY <1>5, ReceiveValueParts, IdleParts
  <2>2. CASE NewServer
    BY <2>1, <2>2, OldPutsRestart
  <2>3. CASE ~NewServer
    <3>1. PICK i \in DOMAIN mailbox : mailbox' = RemoveAt(mailbox, i)
      BY <1>5, <2>3, ReceiveValueParts
    <3>2. PICK f : SubMail(f)
      BY <3>1, TakesOne
    <3>3. UNCHANGED <<programs, port>>
      BY <1>5, <2>3, ReceiveValueParts
    <3> QED
      BY <1>0, <1>a, <2>1, <3>2, <3>3, OldPutsStay
  <2> QED
    BY <2>2, <2>3
<1>6. CASE Restarts
  BY <1>6, OldPutsRestart DEF Restarts, histVars
<1>7. CASE PortReads
  <2>1. PICK m \in Answers :
          mailbox' = Append(mailbox, m) /\
          \A q \in 1 .. MaxPrograms : q # port => programs'[q] = programs[q]
    BY <1>7, PortReadsParts
  <2>2. UNCHANGED <<server, port, pending>>
    BY <1>7 DEF PortReads, histVars
  <2>3. m \in RocksCalls \cup Answers /\ m \notin RocksCalls
    BY MessageKinds
  <2>4. \A j \in DOMAIN mailbox' : mailbox'[j] = m \/
          (j \in DOMAIN mailbox /\ mailbox'[j] = mailbox[j])
    BY <2>1, <2>3, PutsMail
  <2>5. \A q \in pending : q # m
    BY <1>0, <2>3
  <2> QED
    BY <2>1, <2>2, <2>4, <2>5, OldPutsStay
<1>8. CASE Aside
  BY <1>8, AsideParts, AsideOthers, OldPutsStay
<1> QED
  BY <1>1, <1>2, <1>3, <1>4, <1>5, <1>6, <1>7, <1>8, RocksSteps

-----------------------------------------------------------------------------
(* The ok of a put *)

\* No put and no ok is under way.
Calm ==
  /\ \A i \in DOMAIN programs[port].input : programs[port].input[i].op # "put"
  /\ \A i \in DOMAIN programs[port].output : ~Ok(programs[port].output[i])
  /\ \A i \in DOMAIN mailbox : ~Ok(mailbox[i])

LEMMA NotPutting == OkInv /\ server.at # "put" => Calm
BY DEF OkInv, Calm

LEMMA CalmIsOk ==
  ASSUME Calm', server'.at = "sleep" => Landed'
  PROVE  OkInv'
BY DEF Calm, OkInv, Ok, Carries

LEMMA OkKeeps ==
  ASSUME OkInv, server'.at = server.at, server'.call = server.call, port' = port,
         Landed => Landed',
         \/ programs'[port].input = programs[port].input /\
            programs'[port].output = programs[port].output
         \/ programs'[port].input = <<>> /\ programs'[port].output = <<>>,
         \A j \in DOMAIN mailbox' : Ok(mailbox'[j]) =>
           j \in DOMAIN mailbox /\ mailbox'[j] = mailbox[j]
  PROVE  OkInv'
<1> DEFINE in == programs[port].input  out == programs[port].output
           inx == programs'[port].input  outx == programs'[port].output
<1>1. /\ \A i \in DOMAIN inx : i \in DOMAIN in /\ inx = in /\ outx = out
      /\ \A i \in DOMAIN outx : i \in DOMAIN out /\ outx = out /\ inx = in
  <2>1. DOMAIN <<>> = {}
    OBVIOUS
  <2> QED
    BY <2>1
<1>2. ASSUME NEW i \in DOMAIN inx, inx[i].op = "put"
      PROVE  /\ i = Len(inx) /\ server'.at = "put" /\ Carries(inx[i], server'.call)
             /\ \A j \in DOMAIN outx : ~Ok(outx[j])
             /\ \A j \in DOMAIN mailbox' : ~Ok(mailbox'[j])
  BY <1>1, <1>2 DEF OkInv
<1>3. ASSUME NEW i \in DOMAIN outx, Ok(outx[i])
      PROVE  /\ i = Len(outx) /\ inx = <<>> /\ server'.at = "put" /\ Landed'
             /\ \A j \in DOMAIN mailbox' : ~Ok(mailbox'[j])
  BY <1>1, <1>3 DEF OkInv
<1>4. ASSUME NEW i \in DOMAIN mailbox', Ok(mailbox'[i])
      PROVE  /\ server'.at = "put" /\ Landed'
             /\ \A j \in DOMAIN mailbox' : Ok(mailbox'[j]) => j = i
  BY <1>4 DEF OkInv
<1>5. server'.at = "sleep" => Landed'
  BY DEF OkInv
<1> QED
  BY <1>2, <1>3, <1>4, <1>5 DEF OkInv, Ok, Carries

LEMMA LandedStays ==
  ASSUME server'.call = server.call, db' = db, pending \subseteq pending'
  PROVE  Landed => Landed'
BY DEF Landed

\* A new server has a program without commands.
LEMMA OkRestart ==
  ASSUME RocksType, OldPutsInv, NewServer
  PROVE  OkInv'
<1>1. /\ port' = port + 1 /\ port \in Nat /\ port' \in 1 .. MaxPrograms
      /\ \A q \in 1 .. MaxPrograms : q # port => programs'[q] = programs[q]
      /\ DOMAIN mailbox' = {} /\ server'.at = "idle"
  BY NewServerParts, EmptiesMail, IdleParts DEF RocksType
<1>2. programs'[port'].input = <<>> /\ programs'[port'].output = <<>>
  BY <1>1 DEF OldPutsInv
<1>3. DOMAIN programs'[port'].input = {} /\ DOMAIN programs'[port'].output = {}
  BY <1>2
<1>4. Calm'
  BY <1>1, <1>3 DEF Calm
<1> QED
  BY <1>1, <1>4, CalmIsOk

LEMMA OneTaken ==
  ASSUME NEW S, NEW s \in Seq(S), Len(s) = 1
  PROVE  Tail(s) = <<>>
<1>1. s # <<>>
  OBVIOUS
<1>2. Tail(s) \in Seq(S) /\ Len(Tail(s)) = 0
  BY <1>1, TakeShape
<1> QED
  BY <1>2, EmptySeq

\* The two parts of an answer are no ok.
LEMMA SplitShape ==
  ASSUME NEW out \in Seq(Answers), NEW v \in StoredValues,
         NEW o, o = out \o <<Data("first", v), Data("second", v)>>
  PROVE  \A i \in DOMAIN o : (i \in DOMAIN out /\ o[i] = out[i]) \/ ~Ok(o[i])
<1> DEFINE two == <<Data("first", v), Data("second", v)>>
<1>1. Data("first", v) \in Answers /\ Data("second", v) \in Answers
  BY DataTypes
<1>2. ~Ok(Data("first", v)) /\ ~Ok(Data("second", v))
  BY DataTypes DEF Ok
<1>3. /\ two \in Seq(Answers) /\ Len(two) = 2
      /\ two[1] = Data("first", v) /\ two[2] = Data("second", v)
  BY <1>1
<1> HIDE DEF two
<1>4. /\ out \o two \in Seq(Answers) /\ Len(out \o two) = Len(out) + 2
      /\ \A i \in 1 .. (Len(out) + 2) :
           (out \o two)[i] = IF i <= Len(out) THEN out[i] ELSE two[i - Len(out)]
  <2>1. /\ out \o two \in Seq(Answers) /\ Len(out \o two) = Len(out) + Len(two)
        /\ \A i \in 1 .. (Len(out) + Len(two)) :
             (out \o two)[i] = IF i <= Len(out) THEN out[i] ELSE two[i - Len(out)]
    BY <1>3, ConcatProperties, Zenon
  <2> QED
    BY <1>3, <2>1, Zenon
<1>5. o = out \o two
  BY DEF two
<1>6. Len(out) \in Nat /\ DOMAIN out = 1 .. Len(out) /\ DOMAIN o = 1 .. (Len(out) + 2)
  BY <1>4, <1>5, LenProperties
<1>7. ASSUME NEW i \in DOMAIN o, i \notin DOMAIN out PROVE ~Ok(o[i])
  <2>1. CASE i = Len(out) + 1
    <3>1. i - Len(out) = 1 /\ ~(i <= Len(out)) /\ i \in 1 .. (Len(out) + 2)
      BY <1>6, <2>1
    <3> QED
      BY <1>2, <1>3, <1>4, <1>5, <3>1
  <2>2. CASE i = Len(out) + 2
    <3>1. i - Len(out) = 2 /\ ~(i <= Len(out)) /\ i \in 1 .. (Len(out) + 2)
      BY <1>6, <2>2
    <3> QED
      BY <1>2, <1>3, <1>4, <1>5, <3>1
  <2> QED
    BY <1>6, <1>7, <2>1, <2>2
<1>8. ASSUME NEW i \in DOMAIN out PROVE o[i] = out[i]
  BY <1>4, <1>5, <1>6
<1> QED
  BY <1>7, <1>8

\* The program of the server carries out a put.
LEMMA OwnPut ==
  ASSUME RocksType, OkInv, Puts(port)
  PROVE  OkInv'
<1> DEFINE in == programs[port].input  out == programs[port].output
           outx == programs'[port].output
<1>1. port \in Started
  BY DEF RocksType, Started
<1>2. /\ in # <<>> /\ Head(in).op = "put" /\ Prints(port, "ok", Absent)
      /\ Absent \in StoredValues
      /\ db' = [db EXCEPT ![Head(in).cell] = Head(in).value]
      /\ UNCHANGED <<mailbox, server, port, pending>>
  BY <1>1, PutsParts
<1>3. /\ in \in Seq(Commands) /\ 1 \in DOMAIN in /\ Head(in) = in[1] /\ Head(in) \in Commands
      /\ programs[port] \in RocksPrograms
  BY <1>1, <1>2, HeadCommand
<1>4. /\ Len(in) = 1 /\ server.at = "put" /\ Carries(in[1], server.call)
      /\ \A j \in DOMAIN out : ~Ok(out[j])
      /\ \A j \in DOMAIN mailbox : ~Ok(mailbox[j])
  BY <1>2, <1>3 DEF OkInv
<1>5. programs'[port].input = Tail(in) /\ DOMAIN Tail(in) = {} /\ Tail(in) = <<>>
  <2>1. programs'[port].input = Tail(in)
    BY <1>1, <1>2, PrintsParts
  <2>2. Tail(in) = <<>>
    BY <1>3, <1>4, OneTaken
  <2> QED
    BY <2>1, <2>2
<1>6. Landed'
  <2>1. in[1].cell \in Cells /\ in[1].cell = server.call.cell /\ in[1].value = server.call.value
    BY <1>3, <1>4 DEF Commands, Carries
  <2>2. db'[server.call.cell] = server.call.value
    BY <1>2, <1>3, <2>1 DEF RocksType
  <2> QED
    BY <1>2, <2>2 DEF Landed
<1>7. out \in Seq(Answers)
  BY <1>3 DEF RocksPrograms
<1>8. \A i \in DOMAIN outx : Ok(outx[i]) => i = Len(outx)
  <2>1. CASE outx = Append(out, Data("ok", Absent))
    <3>1. Data("ok", Absent) \in Answers
      BY <1>2, DataTypes
    <3>2. /\ Len(out) \in Nat /\ DOMAIN out = 1 .. Len(out) /\ DOMAIN outx = 1 .. (Len(out) + 1)
          /\ Len(outx) = Len(out) + 1 /\ \A i \in 1 .. Len(out) : outx[i] = out[i]
      BY <1>7, <2>1, <3>1, SendShape
    <3> QED
      BY <1>4, <3>2
  <2>2. CASE outx = out \o <<Data("first", Absent), Data("second", Absent)>>
    BY <1>2, <1>4, <1>7, <2>2, SplitShape
  <2> QED
    BY <1>1, <1>2, <2>1, <2>2, PrintsParts
<1> QED
  BY <1>2, <1>4, <1>5, <1>6, <1>8 DEF OkInv, Ok, Carries

\* The program of the server prints the answer to what it carries out.
LEMMA OwnPrints ==
  ASSUME RocksType, port \in Started, NEW what \in {"ok", "whole"}, NEW v \in StoredValues,
         programs[port].input # <<>>, Prints(port, what, v)
  PROVE  /\ programs'[port].input = Tail(programs[port].input)
         /\ \/ programs'[port].output = Append(programs[port].output, Data(what, v))
            \/ programs'[port].output = programs[port].output \o
                                          <<Data("first", v), Data("second", v)>>
BY PrintsParts

\* The program of the server carries out a get.
LEMMA OwnGet ==
  ASSUME RocksType, OkInv, Gets(port)
  PROVE  OkInv'
<1> DEFINE in == programs[port].input  out == programs[port].output
           v == db[Head(in).cell]
           inx == programs'[port].input  outx == programs'[port].output
<1>1. port \in Started
  BY DEF RocksType, Started
<1>2. /\ in # <<>> /\ Head(in).op = "get" /\ Prints(port, "whole", v) /\ v \in StoredValues
      /\ UNCHANGED <<mailbox, server, port, db, pending>>
  BY <1>1, GetsParts
<1>3. in \in Seq(Commands) /\ programs[port] \in RocksPrograms
  BY <1>1, <1>2, HeadCommand
<1>4. /\ out \in Seq(Answers) /\ \A j \in DOMAIN out : ~Ok(out[j])
  BY <1>2, <1>3 DEF RocksPrograms, OkInv
<1>9. /\ inx = Tail(in)
      /\ \/ outx = Append(out, Data("whole", v))
         \/ outx = out \o <<Data("first", v), Data("second", v)>>
  <2> HIDE DEF v
  <2>1. "whole" \in {"ok", "whole"} /\ v \in StoredValues /\ Prints(port, "whole", v)
    BY <1>2
  <2> QED
    BY <1>1, <1>2, <2>1, OwnPrints
<1>5. /\ inx = Tail(in) /\ Len(in) \in Nat /\ Len(inx) = Len(in) - 1
      /\ DOMAIN in = 1 .. Len(in) /\ DOMAIN inx = 1 .. (Len(in) - 1)
      /\ \A i \in DOMAIN inx : i + 1 \in DOMAIN in /\ inx[i] = in[i + 1]
  <2> HIDE DEF in
  <2>1. /\ Tail(in) \in Seq(Commands)
        /\ Len(in) \in Nat /\ Len(Tail(in)) = Len(in) - 1
        /\ DOMAIN in = 1 .. Len(in) /\ DOMAIN Tail(in) = 1 .. (Len(in) - 1)
        /\ \A i \in DOMAIN Tail(in) : i + 1 \in DOMAIN in /\ Tail(in)[i] = in[i + 1]
    BY <1>2, <1>3, TakeShape
  <2> HIDE DEF inx
  <2> QED
    BY <1>9, <2>1
<1>6. \A i \in DOMAIN outx : ~Ok(outx[i])
  <2>1. CASE outx = Append(out, Data("whole", v))
    <3>1. Data("whole", v) \in Answers /\ ~Ok(Data("whole", v))
      BY <1>2, DataTypes DEF Ok
    <3>2. /\ Len(out) \in Nat /\ DOMAIN out = 1 .. Len(out) /\ DOMAIN outx = 1 .. (Len(out) + 1)
          /\ outx[Len(out) + 1] = Data("whole", v)
          /\ \A i \in 1 .. Len(out) : outx[i] = out[i]
      BY <1>4, <2>1, <3>1, SendShape
    <3>3. ASSUME NEW i \in DOMAIN outx PROVE ~Ok(outx[i])
      <4>1. i = Len(out) + 1 \/ i \in 1 .. Len(out)
        BY <3>2
      <4>2. CASE i = Len(out) + 1
        BY <3>1, <3>2, <4>2
      <4>3. CASE i \in 1 .. Len(out)
        <5>1. outx[i] = out[i] /\ i \in DOMAIN out
          BY <3>2, <4>3
        <5> QED
          BY <1>4, <5>1
      <4> QED
        BY <4>1, <4>2, <4>3
    <3> QED
      BY <3>3
  <2>2. CASE outx = out \o <<Data("first", v), Data("second", v)>>
    BY <1>2, <1>4, <2>2, SplitShape
  <2> QED
    BY <1>9, <2>1, <2>2
<1>7. ASSUME NEW i \in DOMAIN inx, inx[i].op = "put"
      PROVE  /\ i = Len(inx) /\ server.at = "put" /\ Carries(inx[i], server.call)
             /\ \A j \in DOMAIN mailbox : ~Ok(mailbox[j])
  BY <1>5, <1>7 DEF OkInv
<1>8. Landed => Landed'
  BY <1>2, LandedStays
<1> QED
  BY <1>2, <1>6, <1>7, <1>8 DEF OkInv, Ok, Carries

\* A program of an earlier server puts what is pending for good.
LEMMA OldPut ==
  ASSUME RocksType, OldPutsInv, NEW p \in Started, p # port, Puts(p)
  PROVE  \E q \in pending :
           /\ q # server.call /\ q.cell \in Cells
           /\ db' = [db EXCEPT ![q.cell] = q.value]
<1>1. /\ programs[p].input # <<>> /\ Head(programs[p].input).op = "put"
      /\ db' = [db EXCEPT ![Head(programs[p].input).cell] = Head(programs[p].input).value]
  BY PutsParts
<1>2. /\ p \in 1 .. MaxPrograms /\ p <= port /\ port \in Nat
      /\ 1 \in DOMAIN programs[p].input
      /\ Head(programs[p].input) = programs[p].input[1]
      /\ Head(programs[p].input).cell \in Cells
  BY <1>1, HeadCommand DEF RocksType, Commands
<1>3. p < port
  BY <1>2
<1>4. PICK q \in pending : Carries(programs[p].input[1], q) /\ q # server.call
  BY <1>1, <1>2, <1>3 DEF OldPutsInv
<1> QED
  BY <1>1, <1>2, <1>4 DEF Carries

LEMMA OldPutLands ==
  ASSUME RocksType, OldPutsInv, NEW p \in Started, p # port, Puts(p), Landed
  PROVE  Landed'
<1>1. PICK q \in pending :
        /\ q # server.call /\ q.cell \in Cells
        /\ db' = [db EXCEPT ![q.cell] = q.value]
  BY OldPut
<1>2. UNCHANGED <<server, pending>> /\ db \in [Cells -> StoredValues]
  BY PutsParts DEF RocksType
<1>3. CASE q.cell = server.call.cell
  BY <1>1, <1>2, <1>3 DEF Landed
<1>4. CASE q.cell # server.call.cell
  BY <1>1, <1>2, <1>4 DEF Landed
<1> QED
  BY <1>3, <1>4

LEMMA AsideOkInv ==
  ASSUME RocksType, OldPutsInv, OkInv, Aside
  PROVE  OkInv'
<1>0. UNCHANGED <<mailbox, server, port, pending>> /\ port \in 1 .. MaxPrograms
  BY AsideParts DEF RocksType
<1>1. CASE \E c \in Callers : TimesOut(c)
  <2>1. programs' = programs /\ db' = db
    BY <1>1 DEF TimesOut
  <2> QED
    BY <1>0, <2>1, LandedStays, OkKeeps
<1>2. CASE \E p \in Started : Opens(p)
  <2>1. /\ programs'[port].input = programs[port].input
        /\ programs'[port].output = programs[port].output /\ db' = db
    BY <1>0, <1>2, OpensParts
  <2> QED
    BY <1>0, <2>1, LandedStays, OkKeeps
<1>3. CASE \E p \in Started : Puts(p)
  <2>1. PICK p \in Started : Puts(p)
    BY <1>3
  <2>2. CASE p = port
    BY <2>1, <2>2, OwnPut
  <2>3. CASE p # port
    <3>1. programs'[port] = programs[port]
      BY <1>0, <2>1, <2>3, PutsParts, PrintsParts
    <3>2. Landed => Landed'
      BY <2>1, <2>3, OldPutLands
    <3> QED
      BY <1>0, <3>1, <3>2, OkKeeps
  <2> QED
    BY <2>2, <2>3
<1>4. CASE \E p \in Started : Gets(p)
  <2>1. PICK p \in Started : Gets(p)
    BY <1>4
  <2>2. CASE p = port
    BY <2>1, <2>2, OwnGet
  <2>3. CASE p # port
    <3>1. programs'[port] = programs[port] /\ db' = db
      BY <1>0, <2>1, <2>3, GetsParts, PrintsParts
    <3> QED
      BY <1>0, <3>1, LandedStays, OkKeeps
  <2> QED
    BY <2>2, <2>3
<1>5. CASE \E p \in Started : MainEnds(p)
  <2>1. /\ \/ programs'[port] = programs[port]
           \/ programs'[port].input = <<>> /\ programs'[port].output = <<>>
        /\ db' = db
    BY <1>0, <1>5, ProgramEndParts
  <2> QED
    BY <1>0, <2>1, LandedStays, OkKeeps
<1>6. CASE RocksProgramDies
  <2>1. /\ \/ programs'[port] = programs[port]
           \/ programs'[port].input = <<>> /\ programs'[port].output = <<>>
        /\ db' = db
    BY <1>0, <1>6, ProgramDiesParts
  <2> QED
    BY <1>0, <2>1, LandedStays, OkKeeps
<1>7. CASE UNCHANGED rocksVars
  BY <1>7, LandedStays, OkKeeps DEF rocksVars
<1> QED
  BY <1>1, <1>2, <1>3, <1>4, <1>5, <1>6, <1>7 DEF Aside

\* The port hands over some of the output: the ok goes alone or not at all.
LEMMA ReadOkInv ==
  ASSUME RocksType, OkInv, PortReads
  PROVE  OkInv'
<1> DEFINE in == programs[port].input  out == programs[port].output
           outx == programs'[port].output
<1>1. /\ port \in 1 .. MaxPrograms /\ out \in Seq(Answers)
  BY DEF RocksType, RocksPrograms
<1>2. PICK n \in 1 .. Len(out), m \in Answers :
        /\ m = Joined(SubSeq(out, 1, n)) /\ mailbox' = Append(mailbox, m)
        /\ programs'[port].input = in
        /\ outx = SubSeq(out, n + 1, Len(out))
        /\ UNCHANGED <<server, port, db, histVars>>
  BY PortReadsParts
<1>3. Len(out) \in Nat /\ DOMAIN out = 1 .. Len(out) /\ \A i \in 1 .. Len(out) : out[i] \in Answers
  BY <1>1
<1>4. /\ outx \in Seq(Answers) /\ Len(outx) = Len(out) - n
      /\ DOMAIN outx = 1 .. (Len(out) - n)
      /\ \A i \in 1 .. (Len(out) - n) : n + i \in DOMAIN out /\ outx[i] = out[n + i]
  <2>1. \A i \in (n + 1) .. Len(out) : out[i] \in Answers
    BY <1>3
  <2>2. /\ outx \in Seq(Answers)
        /\ Len(outx) = IF n + 1 <= Len(out) THEN Len(out) - (n + 1) + 1 ELSE 0
        /\ \A i \in 1 .. (Len(out) - (n + 1) + 1) : outx[i] = out[(n + 1) + i - 1]
    BY <1>2, <1>3, <2>1, SubSeqProperties
  <2>3. Len(outx) = Len(out) - n
    BY <1>3, <2>2
  <2>4. DOMAIN outx = 1 .. (Len(out) - n)
    BY <2>2, <2>3, LenProperties
  <2>5. ASSUME NEW i \in 1 .. (Len(out) - n) PROVE n + i \in DOMAIN out /\ outx[i] = out[n + i]
    <3>1. i \in 1 .. (Len(out) - (n + 1) + 1) /\ (n + 1) + i - 1 = n + i
      BY <1>3
    <3> QED
      BY <1>3, <2>2, <3>1
  <2> QED
    BY <2>2, <2>3, <2>4, <2>5
<1>5. m.what = "ok" => n = 1 /\ m = out[1]
  BY <1>1, <1>2, JoinedType
<1>6. Ok(m) => Ok(out[1]) /\ n = 1 /\ Len(out) = 1
  <2>1. Ok(m) => Ok(out[1]) /\ n = 1
    BY <1>5 DEF Ok
  <2> QED
    BY <1>3, <2>1 DEF OkInv
<1>7. m \in RocksCalls \cup Answers
  OBVIOUS
<1>8. /\ \A j \in DOMAIN mailbox' : mailbox'[j] = m \/ (j \in DOMAIN mailbox /\ mailbox'[j] = mailbox[j])
      /\ \A i, j \in DOMAIN mailbox' : i \notin DOMAIN mailbox /\ j \notin DOMAIN mailbox => i = j
      /\ \A j \in DOMAIN mailbox' : j \notin DOMAIN mailbox => mailbox'[j] = m
      /\ \A j \in DOMAIN mailbox : mailbox'[j] = mailbox[j]
  BY <1>2, <1>7, PutsMail
<1>9. Landed => Landed'
  BY <1>2, LandedStays DEF histVars
<1>10. ASSUME NEW i \in DOMAIN in, in[i].op = "put"
       PROVE  /\ i = Len(in) /\ server.at = "put" /\ Carries(in[i], server.call)
              /\ \A j \in DOMAIN outx : ~Ok(outx[j])
              /\ \A j \in DOMAIN mailbox' : ~Ok(mailbox'[j])
  <2>1. /\ i = Len(in) /\ server.at = "put" /\ Carries(in[i], server.call)
        /\ \A j \in DOMAIN out : ~Ok(out[j])
        /\ \A j \in DOMAIN mailbox : ~Ok(mailbox[j])
    BY <1>10 DEF OkInv
  <2>2. ~Ok(m)
    BY <1>3, <1>6, <2>1
  <2> QED
    BY <1>4, <1>8, <2>1, <2>2
<1>11. ASSUME NEW i \in DOMAIN outx, Ok(outx[i])
       PROVE  /\ i = Len(outx) /\ in = <<>> /\ server.at = "put" /\ Landed'
              /\ \A j \in DOMAIN mailbox' : ~Ok(mailbox'[j])
  <2>1. n + i \in DOMAIN out /\ Ok(out[n + i])
    BY <1>4, <1>11
  <2>2. /\ n + i = Len(out) /\ in = <<>> /\ server.at = "put" /\ Landed
        /\ \A j \in DOMAIN mailbox : ~Ok(mailbox[j])
    BY <2>1 DEF OkInv
  <2>3. ~Ok(m)
    BY <1>3, <1>4, <1>6, <2>2
  <2>4. i = Len(outx)
    BY <1>3, <1>4, <2>2
  <2> QED
    BY <1>8, <1>9, <2>2, <2>3, <2>4
<1>12. ASSUME NEW i \in DOMAIN mailbox', Ok(mailbox'[i])
       PROVE  /\ server.at = "put" /\ Landed'
              /\ \A j \in DOMAIN mailbox' : Ok(mailbox'[j]) => j = i
  <2>1. CASE i \in DOMAIN mailbox /\ mailbox'[i] = mailbox[i]
    <3>1. server.at = "put" /\ Landed /\ \A j \in DOMAIN mailbox : Ok(mailbox[j]) => j = i
      BY <1>12, <2>1 DEF OkInv
    <3>2. ~Ok(m)
      BY <1>3, <1>6, <1>12, <2>1 DEF OkInv
    <3> QED
      BY <1>8, <1>9, <3>1, <3>2
  <2>2. CASE ~(i \in DOMAIN mailbox /\ mailbox'[i] = mailbox[i])
    <3>1. Ok(m) /\ i \notin DOMAIN mailbox
      BY <1>2, <1>7, <1>8, <1>12, <2>2, PutsMail
    <3>2. /\ server.at = "put" /\ Landed /\ \A j \in DOMAIN mailbox : ~Ok(mailbox[j])
      BY <1>3, <1>6, <3>1 DEF OkInv
    <3> QED
      BY <1>8, <1>9, <3>1, <3>2
  <2> QED
    BY <2>1, <2>2
<1>13. server.at = "sleep" => Landed'
  BY <1>9 DEF OkInv
<1>14. port' = port /\ server' = server /\ programs'[port].input = in
  BY <1>2
<1> QED
  BY <1>10, <1>11, <1>12, <1>13, <1>14 DEF OkInv, Ok, Carries

LEMMA NextOkInv ==
  RocksType /\ CallsInv /\ OldPutsInv /\ OkInv /\ [RocksNext]_rocksVars => OkInv'
<1> SUFFICES ASSUME RocksType, CallsInv, OldPutsInv, OkInv, [RocksNext]_rocksVars
             PROVE  OkInv'
  OBVIOUS
<1>0. port \in 1 .. MaxPrograms
  BY DEF RocksType
<1>a. ASSUME NEW f, SubMail(f), \A j \in DOMAIN mailbox : ~Ok(mailbox[j])
      PROVE  \A j \in DOMAIN mailbox' : ~Ok(mailbox'[j])
  BY <1>a DEF SubMail
<1>1. CASE \E c \in Callers : GetOrPut(c)
  <2>1. PICK call \in RocksCalls :
           /\ mailbox' = Append(mailbox, call)
           /\ pending' = IF call.op = "put" THEN pending \cup {call} ELSE pending
           /\ server' = server /\ programs' = programs /\ port' = port /\ db' = db
    BY <1>1, GetOrPutParts
  <2>2. call \in RocksCalls \cup Answers /\ ~Ok(call)
    BY DEF RocksCalls, Ok
  <2>3. \A j \in DOMAIN mailbox' : mailbox'[j] = call \/
          (j \in DOMAIN mailbox /\ mailbox'[j] = mailbox[j])
    BY <2>1, <2>2, PutsMail
  <2>4. Landed => Landed'
    BY <2>1, LandedStays
  <2> QED
    BY <2>1, <2>2, <2>3, <2>4, OkKeeps
<1>2. CASE HandleCall
  <2>1. /\ mailbox # <<>> /\ mailbox' = Tail(mailbox) /\ IsCall(Head(mailbox))
        /\ server.at = "idle" /\ server'.call = Head(mailbox) /\ server'.at = Head(mailbox).op
        /\ port' = port /\ Command(Head(mailbox))
    BY <1>2 DEF HandleCall, histVars
  <2>2. 1 \in DOMAIN mailbox /\ Head(mailbox) = mailbox[1] /\ \E f : SubMail(f)
    BY <2>1, TakesHead
  <2>3. Head(mailbox) \in RocksCalls /\ Head(mailbox).op \in {"get", "put"}
    BY <2>1, <2>2, MessageKinds DEF RocksType, RocksCalls
  <2>4. Calm
    BY <2>1, NotPutting
  <2>5. \A j \in DOMAIN mailbox' : ~Ok(mailbox'[j])
    BY <1>a, <2>2, <2>4 DEF Calm
  <2>6. \A j \in DOMAIN programs'[port].output : ~Ok(programs'[port].output[j])
    BY <2>1, <2>3, <2>4, CommandParts DEF Calm
  <2>7. CASE programs'[port].input = programs[port].input
    <3>1. Calm'
      BY <2>1, <2>4, <2>5, <2>6, <2>7 DEF Calm
    <3> QED
      BY <2>1, <2>3, <3>1, CalmIsOk
  <2>8. CASE programs'[port].input # programs[port].input
    <3>1. PICK command \in Commands :
            /\ Carries(command, Head(mailbox))
            /\ programs'[port].input = Append(programs[port].input, command)
      BY <2>1, <2>3, <2>8, CommandParts
    <3>2. programs[port].input \in Seq(Commands)
      BY <1>0 DEF RocksType, RocksPrograms
    <3>3. ASSUME NEW i \in DOMAIN programs'[port].input, programs'[port].input[i].op = "put"
          PROVE  /\ i = Len(programs'[port].input) /\ server'.at = "put"
                 /\ Carries(programs'[port].input[i], server'.call)
      <4>1. /\ Len(programs[port].input) \in Nat
            /\ DOMAIN programs[port].input = 1 .. Len(programs[port].input)
            /\ DOMAIN programs'[port].input = 1 .. (Len(programs[port].input) + 1)
            /\ Len(programs'[port].input) = Len(programs[port].input) + 1
            /\ programs'[port].input[Len(programs[port].input) + 1] = command
            /\ \A j \in 1 .. Len(programs[port].input) :
                 programs'[port].input[j] = programs[port].input[j]
        BY <3>1, <3>2, SendShape
      <4>2. i = Len(programs[port].input) + 1
        BY <2>4, <3>3, <4>1 DEF Calm
      <4> QED
        BY <2>1, <3>1, <3>3, <4>1, <4>2 DEF Carries
    <3> QED
      BY <2>1, <2>3, <2>5, <2>6, <3>3 DEF OkInv, Ok, Carries
  <2> QED
    BY <2>7, <2>8
<1>3. CASE HandleInfo
  <2>1. /\ server.at = "idle" /\ server' = server /\ port' = port /\ programs' = programs
        /\ \E f : SubMail(f)
    BY <1>3, TakesHead DEF HandleInfo, histVars
  <2>2. Calm
    BY <2>1, NotPutting
  <2>3. Calm'
    BY <1>a, <2>1, <2>2 DEF Calm
  <2> QED
    BY <2>1, <2>3, CalmIsOk
<1>4. CASE ReceiveOk
  <2>1. PICK i \in DOMAIN mailbox :
           /\ Ok(mailbox[i]) /\ mailbox' = RemoveAt(mailbox, i)
           /\ server'.at = "sleep" /\ server'.call = server.call
           /\ UNCHANGED <<programs, port, db, histVars>>
    BY <1>4, ReceiveOkParts
  <2>2. /\ Landed /\ \A j \in DOMAIN mailbox : Ok(mailbox[j]) => j = i
        /\ \A j \in DOMAIN programs[port].input : programs[port].input[j].op # "put"
        /\ \A j \in DOMAIN programs[port].output : ~Ok(programs[port].output[j])
    BY <2>1 DEF OkInv
  <2>3. PICK f : SubMail(f) /\ \A j \in DOMAIN mailbox' : f[j] # i
    BY <2>1, TakesOne
  <2>4. \A j \in DOMAIN mailbox' : ~Ok(mailbox'[j])
    BY <2>2, <2>3 DEF SubMail
  <2>5. Calm'
    BY <2>1, <2>2, <2>4 DEF Calm
  <2>6. Landed'
    BY <2>1, <2>2, LandedStays DEF histVars
  <2> QED
    BY <2>5, <2>6, CalmIsOk
<1>5. CASE Sleeps
  <2>1. /\ server.at = "sleep" /\ server'.at = "idle"
        /\ UNCHANGED <<mailbox, programs, port>>
    BY <1>5, IdleParts DEF Sleeps, Reply
  <2>2. Calm'
    BY <2>1, NotPutting DEF Calm
  <2> QED
    BY <2>1, <2>2, CalmIsOk
<1>6. CASE ReceiveValue
  <2>1. server.at = "get" /\ server'.at = "idle"
    BY <1>6, ReceiveValueParts, IdleParts
  <2>2. CASE NewServer
    BY <2>2, OkRestart
  <2>3. CASE ~NewServer
    <3>1. PICK i \in DOMAIN mailbox : mailbox' = RemoveAt(mailbox, i)
      BY <1>6, <2>3, ReceiveValueParts
    <3>2. PICK f : SubMail(f)
      BY <3>1, TakesOne
    <3>3. UNCHANGED <<programs, port>>
      BY <1>6, <2>3, ReceiveValueParts
    <3>4. Calm
      BY <2>1, NotPutting
    <3>5. Calm'
      BY <1>a, <3>2, <3>3, <3>4 DEF Calm
    <3> QED
      BY <2>1, <3>5, CalmIsOk
  <2> QED
    BY <2>2, <2>3
<1>7. CASE Restarts
  BY <1>7, OkRestart DEF Restarts
<1>8. CASE PortReads
  BY <1>8, ReadOkInv
<1>9. CASE Aside
  BY <1>9, AsideOkInv
<1> QED
  BY <1>1, <1>2, <1>3, <1>4, <1>5, <1>6, <1>7, <1>8, <1>9, RocksSteps

-----------------------------------------------------------------------------
(* Answered puts are stored *)

LEMMA PossibleParts ==
  ASSUME NEW c, NEW v
  PROVE  v \in Possible(c) <=> v = last[c] \/ \E q \in pending : q.cell = c /\ q.value = v
BY DEF Possible

LEMMA PossiblePartsNext ==
  ASSUME NEW c, NEW v
  PROVE  v \in Possible(c)' <=> v = last'[c] \/ \E q \in pending' : q.cell = c /\ q.value = v
BY DEF Possible

LEMMA PossibleGrows ==
  ASSUME last' = last, pending \subseteq pending'
  PROVE  \A c : Possible(c) \subseteq Possible(c)'
BY PossibleParts, PossiblePartsNext

\* What the cell of a put holds: the value of the put or another pending one.
LEMMA NextStored ==
  RocksType /\ StoredInv /\ [RocksNext]_rocksVars => AnsweredPutIsStored'
<1> SUFFICES ASSUME RocksType, StoredInv, [RocksNext]_rocksVars,
                    NEW c \in Cells
             PROVE  db'[c] \in Possible(c)'
  BY DEF AnsweredPutIsStored
<1>0. db[c] \in Possible(c) /\ CallsInv /\ OldPutsInv /\ OkInv
  BY DEF StoredInv, AnsweredPutIsStored
<1>a. CASE db' = db /\ last' = last /\ pending \subseteq pending'
  BY <1>0, <1>a, PossibleGrows
<1>1. CASE \E d \in Callers : GetOrPut(d)
  BY <1>1, <1>a, GetOrPutParts
<1>2. CASE HandleCall \/ HandleInfo \/ ReceiveOk \/ Restarts \/ PortReads
  BY <1>2, <1>a DEF HandleCall, HandleInfo, ReceiveOk, Restarts, PortReads, histVars
<1>3. CASE ReceiveValue
  BY <1>3, <1>a, ReceiveValueParts
<1>4. CASE Sleeps
  <2>1. db' = db /\ server.at = "sleep"
    BY <1>4 DEF Sleeps
  <2>2. CASE ~Expected(server.call)
    BY <1>4, <1>a, <2>1, <2>2 DEF Sleeps
  <2>3. CASE Expected(server.call)
    <3>1. /\ last' = [last EXCEPT ![server.call.cell] = server.call.value]
          /\ pending' = pending \ {server.call} /\ Landed
      BY <1>0, <1>4, <2>1, <2>3 DEF Sleeps, OkInv
    <3>2. last \in [Cells -> StoredValues]
      BY DEF RocksType
    <3>3. CASE c = server.call.cell
      <4>1. last'[c] = server.call.value
        BY <3>1, <3>2, <3>3
      <4> QED
        BY <2>1, <3>1, <3>3, <4>1, PossiblePartsNext DEF Landed
    <3>4. CASE c # server.call.cell
      <4>1. last'[c] = last[c]
        BY <3>1, <3>2, <3>4
      <4>2. \A q \in pending : q.cell = c => q \in pending'
        BY <3>1, <3>4
      <4> QED
        BY <1>0, <2>1, <4>1, <4>2, PossibleParts, PossiblePartsNext
    <3> QED
      BY <3>3, <3>4
  <2> QED
    BY <2>2, <2>3
<1>5. CASE \E p \in Started : Puts(p)
  <2>1. PICK p \in Started : Puts(p)
    BY <1>5
  <2>2. \E q \in pending : q.cell \in Cells /\ db' = [db EXCEPT ![q.cell] = q.value]
    <3>1. CASE p # port
      BY <1>0, <2>1, <3>1, OldPut
    <3>2. CASE p = port
      <4>1. /\ programs[p].input # <<>> /\ Head(programs[p].input).op = "put"
            /\ db' = [db EXCEPT ![Head(programs[p].input).cell] = Head(programs[p].input).value]
        BY <2>1, PutsParts
      <4>2. /\ 1 \in DOMAIN programs[p].input
            /\ Head(programs[p].input) = programs[p].input[1]
            /\ Head(programs[p].input).cell \in Cells
        BY <4>1, HeadCommand DEF Commands
      <4>3. server.at = "put" /\ Carries(programs[p].input[1], server.call)
        BY <1>0, <3>2, <4>1, <4>2 DEF OkInv
      <4>4. server.call \in pending
        BY <1>0, <4>3 DEF CallsInv
      <4> QED
        BY <4>1, <4>2, <4>3, <4>4 DEF Carries
    <3> QED
      BY <3>1, <3>2
  <2>3. PICK q \in pending : q.cell \in Cells /\ db' = [db EXCEPT ![q.cell] = q.value]
    BY <2>2
  <2>4. last' = last /\ pending' = pending /\ db \in [Cells -> StoredValues]
    BY <2>1, PutsParts DEF RocksType
  <2>5. db'[c] = IF c = q.cell THEN q.value ELSE db[c]
    BY <2>3, <2>4
  <2> QED
    BY <1>0, <2>3, <2>4, <2>5, PossibleParts, PossiblePartsNext
<1>6. CASE Aside /\ ~(\E p \in Started : Puts(p))
  <2>1. db' = db
    BY <1>6 DEF Aside, TimesOut, Opens, Gets, MainEnds, RocksProgramDies, rocksVars
  <2> QED
    BY <1>6, <1>a, <2>1, AsideParts
<1> QED
  BY <1>1, <1>2, <1>3, <1>4, <1>5, <1>6, RocksSteps

LEMMA InitStoredInv == RocksInit => StoredInv
<1> SUFFICES ASSUME RocksInit PROVE StoredInv
  OBVIOUS
<1>1. /\ DOMAIN mailbox = {} /\ server.at = "idle" /\ server.call.id = 0 /\ issued = 0
      /\ pending = {} /\ port = 1 /\ port \in 1 .. MaxPrograms
  BY InitRocksType, IdleParts DEF RocksInit, RocksType
<1>2. \A p \in 1 .. MaxPrograms : programs[p] = FreshProgram
  BY DEF RocksInit
<1>3. \A p \in 1 .. MaxPrograms :
        programs[p].input = <<>> /\ programs[p].output = <<>> /\
        DOMAIN programs[p].input = {} /\ DOMAIN programs[p].output = {}
  BY <1>2, FreshParts
<1>4. AnsweredPutIsStored
  BY PossibleParts DEF AnsweredPutIsStored, RocksInit
<1>5. CallsInv
  BY <1>1 DEF CallsInv
<1>6. OldPutsInv
  BY <1>3 DEF OldPutsInv
<1>7. OkInv
  BY <1>1, <1>3 DEF OkInv
<1> QED
  BY <1>4, <1>5, <1>6, <1>7 DEF StoredInv

LEMMA NextStoredInv == RocksType /\ StoredInv /\ [RocksNext]_rocksVars => StoredInv'
BY NextStored, NextCallsInv, NextOldPutsInv, NextOkInv DEF StoredInv

\* For any callers, calls and programs: a cell holds the value of its last answered
\* put or of a put whose caller never heard of it.  Callers give up, servers and
\* programs die, and a program that outlives its server goes on putting.
THEOREM AnsweredPutsAreStored == RocksSpec => []AnsweredPutIsStored
<1>1. RocksInit => RocksType /\ StoredInv
  BY InitRocksType, InitStoredInv
<1>2. RocksType /\ StoredInv /\ [RocksNext]_rocksVars => RocksType' /\ StoredInv'
  BY NextRocksType, NextStoredInv
<1>3. StoredInv => AnsweredPutIsStored
  BY DEF StoredInv
<1> QED
  BY <1>1, <1>2, <1>3, PTL DEF RocksSpec

-----------------------------------------------------------------------------
(* A get returns what was put *)

\* Nothing is under way between the server and its program.
Silent ==
  /\ programs[port].input = <<>> /\ programs[port].output = <<>>
  /\ \A j \in DOMAIN mailbox : IsCall(mailbox[j])

\* A sequence without places is empty.
LEMMA NoPlaces ==
  ASSUME NEW S, NEW s \in Seq(S)
  PROVE  (s = <<>> <=> DOMAIN s = {}) /\ (s # <<>> => 1 \in DOMAIN s)
<1>1. DOMAIN s = 1 .. Len(s) /\ Len(s) \in Nat /\ (s # <<>> => Len(s) # 0)
  BY EmptySeq
<1>2. s = <<>> => DOMAIN s = {}
  OBVIOUS
<1>3. s # <<>> => 1 \in DOMAIN s
  BY <1>1
<1> QED
  BY <1>2, <1>3

LEMMA SilentIsWhole == Silent' => WholeInv'
<1>1. DOMAIN <<>> = {}
  OBVIOUS
<1> QED
  BY <1>1 DEF Silent, WholeInv, IsCall, Carries

LEMMA NotAsking ==
  ASSUME RocksType, WholeInv, ~split, server.at \notin {"get", "put"}
  PROVE  Silent
<1>1. programs[port].input \in Seq(Commands) /\ programs[port].output \in Seq(Answers)
  BY DEF RocksType, RocksPrograms
<1>2. DOMAIN programs[port].input = {} /\ DOMAIN programs[port].output = {}
  BY DEF WholeInv
<1>3. \A j \in DOMAIN mailbox : IsCall(mailbox[j])
  BY DEF WholeInv
<1> QED
  BY <1>1, <1>2, <1>3, NoPlaces DEF Silent

\* Data in the mailbox is all that there is, and taking it leaves nothing.
LEMMA DataTaken ==
  ASSUME RocksType, WholeInv, ~split, NEW i \in DOMAIN mailbox, ~IsCall(mailbox[i]),
         mailbox' = RemoveAt(mailbox, i), programs' = programs, port' = port
  PROVE  Silent'
<1>1. programs[port].input \in Seq(Commands) /\ programs[port].output \in Seq(Answers)
  BY DEF RocksType, RocksPrograms
<1>2. DOMAIN programs[port].input = {} /\ DOMAIN programs[port].output = {}
  BY DEF WholeInv
<1>3. \A j \in DOMAIN mailbox : ~IsCall(mailbox[j]) => j = i
  BY DEF WholeInv
<1>4. PICK f : SubMail(f) /\ \A j \in DOMAIN mailbox' : f[j] # i
  BY TakesOne
<1>5. \A j \in DOMAIN mailbox' : IsCall(mailbox'[j])
  BY <1>3, <1>4 DEF SubMail
<1> QED
  BY <1>1, <1>2, <1>5, NoPlaces DEF Silent, IsCall

LEMMA SilentRestart ==
  ASSUME RocksType, OldPutsInv, NewServer
  PROVE  Silent'
<1>1. /\ port' = port + 1 /\ port \in Nat /\ port' \in 1 .. MaxPrograms
      /\ \A q \in 1 .. MaxPrograms : q # port => programs'[q] = programs[q]
      /\ DOMAIN mailbox' = {}
  BY NewServerParts, EmptiesMail DEF RocksType
<1>2. programs'[port'].input = <<>> /\ programs'[port'].output = <<>>
  BY <1>1 DEF OldPutsInv
<1> QED
  BY <1>1, <1>2 DEF Silent

LEMMA WholeKeeps ==
  ASSUME WholeInv, split' = split, server' = server, port' = port,
         last' = last, pending \subseteq pending',
         \/ programs'[port].input = programs[port].input /\
            programs'[port].output = programs[port].output
         \/ programs'[port].input = <<>> /\ programs'[port].output = <<>>,
         \A j \in DOMAIN mailbox' :
           IsCall(mailbox'[j]) \/ (j \in DOMAIN mailbox /\ mailbox'[j] = mailbox[j])
  PROVE  WholeInv'
<1> DEFINE in == programs[port].input  out == programs[port].output
           inx == programs'[port].input  outx == programs'[port].output
<1> SUFFICES ASSUME ~split PROVE WholeInv'
  BY DEF WholeInv
<1>1. /\ \A i \in DOMAIN inx : i \in DOMAIN in /\ inx = in /\ outx = out
      /\ \A i \in DOMAIN outx : i \in DOMAIN out /\ outx = out /\ inx = in
  <2>1. DOMAIN <<>> = {}
    OBVIOUS
  <2> QED
    BY <2>1
<1>2. \A v : v \in Possible(server.call.cell) => v \in Possible(server.call.cell)'
  BY PossibleParts, PossiblePartsNext
<1>3. ASSUME NEW i \in DOMAIN inx
      PROVE  /\ i = 1 /\ Len(inx) = 1 /\ outx = <<>> /\ server.at \in {"get", "put"}
             /\ Carries(inx[i], server.call)
             /\ \A j \in DOMAIN mailbox' : IsCall(mailbox'[j])
  BY <1>1 DEF WholeInv
<1>4. ASSUME NEW i \in DOMAIN outx
      PROVE  /\ Len(outx) = 1 /\ server.at \in {"get", "put"}
             /\ server.at = "get" =>
                  outx[i].what = "whole" /\ outx[i].value \in Possible(server.call.cell)'
             /\ \A j \in DOMAIN mailbox' : IsCall(mailbox'[j])
  BY <1>1, <1>2 DEF WholeInv
<1>5. ASSUME NEW i \in DOMAIN mailbox', ~IsCall(mailbox'[i])
      PROVE  /\ server.at \in {"get", "put"}
             /\ server.at = "get" =>
                  mailbox'[i].what = "whole" /\ mailbox'[i].value \in Possible(server.call.cell)'
             /\ \A j \in DOMAIN mailbox' : ~IsCall(mailbox'[j]) => j = i
  BY <1>2, <1>5 DEF WholeInv
<1> HIDE DEF inx, outx
<1>6. inx = programs'[port].input /\ outx = programs'[port].output
  BY DEF inx, outx
<1> QED
  BY <1>3, <1>4, <1>5, <1>6 DEF WholeInv, IsCall, Carries

\* The program of the server answers its one command.
LEMMA OwnAnswer ==
  ASSUME RocksType, StoredInv, WholeInv, ~split', Puts(port) \/ Gets(port)
  PROVE  WholeInv'
<1> DEFINE in == programs[port].input  out == programs[port].output
           outx == programs'[port].output
<1>0. port \in Started /\ CallsInv
  BY DEF RocksType, Started, StoredInv
<1>1. /\ in # <<>> /\ UNCHANGED <<mailbox, server, port, last, pending>>
  BY <1>0, PutsParts, GetsParts
<1>2. in \in Seq(Commands) /\ 1 \in DOMAIN in /\ Head(in) = in[1] /\ programs[port] \in RocksPrograms
  BY <1>0, <1>1, HeadCommand
<1>3. PICK what \in {"ok", "whole"}, v \in StoredValues :
        /\ Prints(port, what, v)
        /\ Head(in).op = "get" => what = "whole" /\ v = db[Head(in).cell]
        /\ Head(in).op \in {"get", "put"}
  BY <1>0, PutsParts, GetsParts
<1>4. /\ programs'[port].input = Tail(in)
      /\ outx = Append(out, Data(what, v)) /\ split' = split
  BY <1>0, <1>1, <1>3, PrintsParts
<1>5. /\ Len(in) = 1 /\ out = <<>> /\ server.at \in {"get", "put"}
      /\ Carries(in[1], server.call)
      /\ \A j \in DOMAIN mailbox : IsCall(mailbox[j])
  BY <1>2, <1>4 DEF WholeInv
<1>6. programs'[port].input = <<>> /\ DOMAIN programs'[port].input = {}
  <2>1. Tail(in) = <<>>
    BY <1>2, <1>5, OneTaken
  <2> QED
    BY <1>4, <2>1
<1>7. Len(outx) = 1 /\ DOMAIN outx = {1} /\ outx[1] = Data(what, v)
  <2>1. Data(what, v) \in Answers
    BY DataTypes
  <2>2. outx = Append(<<>>, Data(what, v))
    BY <1>4, <1>5
  <2> QED
    BY <2>1, <2>2
<1>8. ASSUME server.at = "get"
      PROVE  outx[1].what = "whole" /\ outx[1].value \in Possible(server.call.cell)'
  <2>1. in[1].op = "get" /\ in[1].cell = server.call.cell
    BY <1>0, <1>5, <1>8 DEF CallsInv, Carries
  <2>2. what = "whole" /\ v = db[server.call.cell]
    BY <1>2, <1>3, <2>1
  <2>3. server.call.cell \in Cells
    BY <1>8, ServerParts DEF RocksType, RocksCalls
  <2>4. v \in Possible(server.call.cell)
    BY <2>2, <2>3 DEF StoredInv, AnsweredPutIsStored
  <2>5. v \in Possible(server.call.cell)'
    BY <1>1, <2>4, PossibleParts, PossiblePartsNext
  <2> QED
    BY <1>7, <2>2, <2>5, DataTypes
<1>9. port' = port /\ server' = server /\ mailbox' = mailbox
  BY <1>1
<1> HIDE DEF outx
<1>10. outx = programs'[port].output
  BY DEF outx
<1> QED
  BY <1>5, <1>6, <1>7, <1>8, <1>9, <1>10 DEF WholeInv, IsCall, Carries

LEMMA ReadWhole ==
  ASSUME RocksType, WholeInv, ~split, PortReads
  PROVE  WholeInv'
<1> DEFINE in == programs[port].input  out == programs[port].output
<1>1. PICK n \in 1 .. Len(out), m \in Answers :
        /\ m = Joined(SubSeq(out, 1, n)) /\ mailbox' = Append(mailbox, m)
        /\ programs'[port].input = in
        /\ programs'[port].output = SubSeq(out, n + 1, Len(out))
        /\ UNCHANGED <<server, port, db, histVars>>
  BY PortReadsParts
<1>2. in \in Seq(Commands) /\ out \in Seq(Answers)
  BY DEF RocksType, RocksPrograms
<1>3. 1 \in DOMAIN out /\ Len(out) \in Nat
  BY <1>2
<1>4. /\ Len(out) = 1 /\ server.at \in {"get", "put"}
      /\ server.at = "get" =>
           out[1].what = "whole" /\ out[1].value \in Possible(server.call.cell)
      /\ \A j \in DOMAIN mailbox : IsCall(mailbox[j])
  BY <1>3 DEF WholeInv
<1>5. n = 1 /\ m = out[1]
  BY <1>1, <1>2, <1>4, JoinedType
<1>6. DOMAIN in = {}
  <2>1. DOMAIN <<>> = {}
    OBVIOUS
  <2> QED
    BY <1>3, <2>1 DEF WholeInv
<1>7. DOMAIN programs'[port].output = {}
  <2>1. programs'[port].output = SubSeq(out, 2, 1)
    BY <1>1, <1>4, <1>5
  <2>2. SubSeq(out, 2, 1) = <<>>
    BY SubSeqEmpty
  <2> QED
    BY <2>1, <2>2
<1>8. m \in RocksCalls \cup Answers
  OBVIOUS
<1>9. /\ \A j \in DOMAIN mailbox' : j = Len(mailbox) + 1 \/
           (j \in DOMAIN mailbox /\ mailbox'[j] = mailbox[j])
      /\ mailbox'[Len(mailbox) + 1] = m
  BY <1>1, <1>8, PutsMail
<1>10. \A v : v \in Possible(server.call.cell) => v \in Possible(server.call.cell)'
  BY <1>1, PossibleParts, PossiblePartsNext DEF histVars
<1>11. ASSUME NEW i \in DOMAIN mailbox', ~IsCall(mailbox'[i])
       PROVE  /\ server.at \in {"get", "put"}
              /\ server.at = "get" =>
                   mailbox'[i].what = "whole" /\ mailbox'[i].value \in Possible(server.call.cell)'
              /\ \A j \in DOMAIN mailbox' : ~IsCall(mailbox'[j]) => j = i
  <2>1. \A j \in DOMAIN mailbox' : ~IsCall(mailbox'[j]) => j = Len(mailbox) + 1
    BY <1>4, <1>9
  <2>2. i = Len(mailbox) + 1 /\ mailbox'[i] = out[1]
    BY <1>5, <1>9, <1>11, <2>1
  <2> QED
    BY <1>4, <1>10, <2>1, <2>2
<1>12. port' = port /\ server' = server /\ programs'[port].input = in
  BY <1>1
<1> QED
  BY <1>6, <1>7, <1>11, <1>12 DEF WholeInv, IsCall, Carries

\* The server hands over a command when nothing else is under way.
LEMMA HandWhole ==
  ASSUME RocksType, WholeInv, ~split, HandleCall
  PROVE  WholeInv'
<1>1. /\ mailbox # <<>> /\ mailbox' = Tail(mailbox) /\ IsCall(Head(mailbox))
      /\ server.at = "idle" /\ server'.call = Head(mailbox) /\ server'.at = Head(mailbox).op
      /\ port' = port /\ Command(Head(mailbox))
  BY DEF HandleCall, histVars
<1>2. 1 \in DOMAIN mailbox /\ Head(mailbox) = mailbox[1] /\ \E f : SubMail(f)
  BY <1>1, TakesHead
<1>3. Head(mailbox) \in RocksCalls /\ Head(mailbox).op \in {"get", "put"}
  BY <1>1, <1>2, MessageKinds DEF RocksType, RocksCalls
<1>4. Silent
  BY <1>1, NotAsking
<1>5. \A j \in DOMAIN mailbox' : IsCall(mailbox'[j])
  BY <1>2, <1>4 DEF Silent, SubMail
<1>6. programs'[port].output = <<>> /\ DOMAIN programs'[port].output = {}
  <2>1. programs'[port].output = <<>>
    BY <1>1, <1>3, <1>4, CommandParts DEF Silent
  <2> QED
    BY <2>1
<1>7. \/ programs'[port].input = <<>>
      \/ \E command \in Commands :
           Carries(command, Head(mailbox)) /\ programs'[port].input = Append(<<>>, command)
  BY <1>1, <1>3, <1>4, CommandParts DEF Silent
<1>8. ASSUME NEW i \in DOMAIN programs'[port].input
      PROVE  /\ i = 1 /\ Len(programs'[port].input) = 1
             /\ Carries(programs'[port].input[i], Head(mailbox))
  <2>1. programs'[port].input # <<>>
    BY <1>8
  <2>2. PICK command \in Commands :
          Carries(command, Head(mailbox)) /\ programs'[port].input = Append(<<>>, command)
    BY <1>7, <2>1
  <2>3. /\ Len(Append(<<>>, command)) = 1 /\ DOMAIN Append(<<>>, command) = {1}
        /\ Append(<<>>, command)[1] = command
    OBVIOUS
  <2> QED
    BY <1>8, <2>2, <2>3
<1> QED
  BY <1>1, <1>3, <1>5, <1>6, <1>8 DEF WholeInv, IsCall, Carries

LEMMA NextWholeInv ==
  RocksType /\ StoredInv /\ WholeInv /\ [RocksNext]_rocksVars => WholeInv'
<1> SUFFICES ASSUME RocksType, StoredInv, WholeInv, [RocksNext]_rocksVars, ~split'
             PROVE  WholeInv'
  BY DEF WholeInv
<1>0. OldPutsInv /\ port \in 1 .. MaxPrograms
  BY DEF StoredInv, RocksType
<1>1. CASE \E c \in Callers : GetOrPut(c)
  <2>1. PICK call \in RocksCalls :
           /\ mailbox' = Append(mailbox, call)
           /\ pending' = IF call.op = "put" THEN pending \cup {call} ELSE pending
           /\ UNCHANGED <<server, programs, port, last, split>>
    BY <1>1, GetOrPutParts
  <2>2. call \in RocksCalls \cup Answers /\ IsCall(call)
    BY MessageKinds
  <2>3. \A j \in DOMAIN mailbox' : mailbox'[j] = call \/
          (j \in DOMAIN mailbox /\ mailbox'[j] = mailbox[j])
    BY <2>1, <2>2, PutsMail
  <2>4. \A j \in DOMAIN mailbox' : IsCall(mailbox'[j]) \/
          (j \in DOMAIN mailbox /\ mailbox'[j] = mailbox[j])
    BY <2>2, <2>3
  <2> QED
    BY <2>1, <2>4, WholeKeeps
<1>2. CASE HandleCall
  BY <1>2, HandWhole DEF HandleCall, histVars
<1>3. CASE HandleInfo
  <2>1. /\ mailbox # <<>> /\ ~IsCall(Head(mailbox)) /\ server.at = "idle" /\ split' = split
        /\ mailbox' = Tail(mailbox)
    BY <1>3 DEF HandleInfo, histVars
  <2>2. 1 \in DOMAIN mailbox /\ Head(mailbox) = mailbox[1]
    BY <2>1, TakesHead
  <2>3. Silent
    BY <2>1, NotAsking
  <2> QED
    BY <2>1, <2>2, <2>3 DEF Silent
<1>4. CASE ReceiveOk
  BY <1>4, ReceiveOkParts, DataTaken, SilentIsWhole DEF histVars
<1>5. CASE Sleeps
  <2>1. /\ server.at = "sleep" /\ UNCHANGED <<mailbox, programs, port, split>>
    BY <1>5 DEF Sleeps
  <2>2. Silent
    BY <2>1, NotAsking
  <2>3. Silent'
    BY <2>1, <2>2 DEF Silent, IsCall
  <2> QED
    BY <2>3, SilentIsWhole
<1>6. CASE ReceiveValue
  <2>1. split' = split
    BY <1>6, ReceiveValueParts
  <2>2. CASE NewServer
    BY <1>0, <2>2, SilentRestart, SilentIsWhole
  <2>3. CASE ~NewServer
    <3>1. PICK i \in DOMAIN mailbox : ~IsCall(mailbox[i]) /\ mailbox' = RemoveAt(mailbox, i)
      BY <1>6, <2>3, ReceiveValueParts
    <3>2. UNCHANGED <<programs, port>>
      BY <1>6, <2>3, ReceiveValueParts
    <3> QED
      BY <2>1, <3>1, <3>2, DataTaken, SilentIsWhole
  <2> QED
    BY <2>2, <2>3
<1>7. CASE Restarts
  BY <1>0, <1>7, SilentRestart, SilentIsWhole DEF Restarts
<1>8. CASE PortReads
  BY <1>8, ReadWhole DEF PortReads, histVars
<1>9. CASE Aside
  <2>1. CASE Puts(port) \/ Gets(port)
    BY <2>1, OwnAnswer
  <2>2. CASE ~(Puts(port) \/ Gets(port))
    <3>1. /\ split' = split
          /\ \/ programs'[port].input = programs[port].input /\
                programs'[port].output = programs[port].output
             \/ programs'[port].input = <<>> /\ programs'[port].output = <<>>
      <4>1. CASE \E c \in Callers : TimesOut(c)
        BY <4>1 DEF TimesOut, histVars
      <4>2. CASE \E p \in Started : Opens(p)
        BY <1>0, <4>2, OpensParts DEF histVars
      <4>3. CASE \E p \in Started : Puts(p)
        <5>1. PICK p \in Started : Puts(p) /\ p # port
          BY <2>2, <4>3
        <5> QED
          BY <1>0, <5>1, PutsParts, PrintsParts
      <4>4. CASE \E p \in Started : Gets(p)
        <5>1. PICK p \in Started : Gets(p) /\ p # port
          BY <2>2, <4>4
        <5> QED
          BY <1>0, <5>1, GetsParts, PrintsParts
      <4>5. CASE \E p \in Started : MainEnds(p)
        BY <1>0, <4>5, ProgramEndParts DEF histVars
      <4>6. CASE RocksProgramDies
        BY <1>0, <4>6, ProgramDiesParts
      <4>7. CASE UNCHANGED rocksVars
        BY <4>7 DEF rocksVars
      <4> QED
        BY <1>9, <4>1, <4>2, <4>3, <4>4, <4>5, <4>6, <4>7 DEF Aside
    <3> QED
      BY <1>9, <3>1, AsideParts, WholeKeeps
  <2> QED
    BY <2>1, <2>2
<1> QED
  BY <1>1, <1>2, <1>3, <1>4, <1>5, <1>6, <1>7, <1>8, <1>9, RocksSteps

LEMMA InitWholeInv == RocksInit => WholeInv /\ GetReturnsWhatWasPut
<1> SUFFICES ASSUME RocksInit PROVE WholeInv /\ GetReturnsWhatWasPut
  OBVIOUS
<1>1. port \in 1 .. MaxPrograms /\ programs[port] = FreshProgram
  BY InitRocksType DEF RocksInit, RocksType
<1>2. /\ DOMAIN programs[port].input = {} /\ DOMAIN programs[port].output = {}
      /\ DOMAIN mailbox = {}
  BY <1>1, FreshParts DEF RocksInit
<1> QED
  BY <1>2 DEF WholeInv, GetReturnsWhatWasPut, RocksInit

LEMMA NextGetReturns ==
  RocksType /\ WholeInv /\ GetReturnsWhatWasPut /\ [RocksNext]_rocksVars =>
    GetReturnsWhatWasPut'
<1> SUFFICES ASSUME RocksType, WholeInv, GetReturnsWhatWasPut, [RocksNext]_rocksVars
             PROVE  GetReturnsWhatWasPut'
  OBVIOUS
<1>1. CASE ReceiveValue
  <2>1. server.at = "get" /\ split' = split
    BY <1>1, ReceiveValueParts
  <2>2. CASE answer' = answer
    BY <2>1, <2>2 DEF GetReturnsWhatWasPut
  <2>3. CASE answer' # answer
    <3>1. PICK i \in DOMAIN mailbox :
            /\ ~IsCall(mailbox[i])
            /\ \E v \in Decoded(mailbox[i]) :
                 answer' = [cell |-> server.call.cell, value |-> v,
                            possible |-> Possible(server.call.cell)]
      BY <1>1, <2>3, ReceiveValueParts
    <3>2. CASE ~split
      <4>1. mailbox[i].what = "whole" /\ mailbox[i].value \in Possible(server.call.cell)
        BY <2>1, <3>1, <3>2 DEF WholeInv
      <4>2. Decoded(mailbox[i]) = {mailbox[i].value}
        BY <4>1 DEF Decoded
      <4> QED
        BY <3>1, <4>1, <4>2 DEF GetReturnsWhatWasPut
    <3> QED
      BY <2>1, <3>2 DEF GetReturnsWhatWasPut
  <2> QED
    BY <2>2, <2>3
<1>2. CASE ~ReceiveValue
  <2>1. answer' = answer
    <3>1. CASE \E c \in Callers : GetOrPut(c)
      BY <3>1 DEF GetOrPut
    <3>2. CASE Aside
      BY <3>2, AsideParts
    <3>3. CASE HandleCall \/ HandleInfo \/ ReceiveOk \/ Sleeps \/ Restarts \/ PortReads
      BY <3>3 DEF HandleCall, HandleInfo, ReceiveOk, Sleeps, Restarts, PortReads, histVars
    <3> QED
      BY <1>2, <3>1, <3>2, <3>3, RocksSteps
  <2>2. split => split'
    <3>1. CASE \E c \in Callers : GetOrPut(c) \/ TimesOut(c)
      BY <3>1 DEF GetOrPut, TimesOut, histVars
    <3>2. CASE HandleCall \/ HandleInfo \/ ReceiveOk \/ Sleeps \/ Restarts \/ PortReads
      BY <3>2 DEF HandleCall, HandleInfo, ReceiveOk, Sleeps, Restarts, PortReads, histVars
    <3>3. CASE \E p \in Started : Opens(p) \/ MainEnds(p)
      BY <3>3 DEF Opens, MainEnds, histVars
    <3>4. CASE \E p \in Started : Puts(p) \/ Gets(p)
      BY <3>4 DEF Puts, Gets, Prints
    <3>5. CASE RocksProgramDies \/ UNCHANGED rocksVars
      BY <3>5 DEF RocksProgramDies, rocksVars
    <3> QED
      BY <1>2, <3>1, <3>2, <3>3, <3>4, <3>5, RocksSteps DEF Aside
  <2> QED
    BY <2>1, <2>2 DEF GetReturnsWhatWasPut
<1> QED
  BY <1>1, <1>2

\* For any callers, calls and programs: as long as no answer came in two parts, a
\* get answers with what its own cell may hold; the answer of another call is never
\* taken for its own, though callers give up and the server goes on.
THEOREM GetsReturnPuts == RocksSpec => []GetReturnsWhatWasPut
<1> DEFINE Inv == RocksType /\ StoredInv /\ WholeInv /\ GetReturnsWhatWasPut
<1>1. RocksInit => Inv
  BY InitRocksType, InitStoredInv, InitWholeInv
<1>2. Inv /\ [RocksNext]_rocksVars => Inv'
  BY NextRocksType, NextStoredInv, NextWholeInv, NextGetReturns
<1>3. Inv => GetReturnsWhatWasPut
  OBVIOUS
<1> HIDE DEF Inv
<1> QED
  BY <1>1, <1>2, <1>3, PTL DEF RocksSpec

-----------------------------------------------------------------------------
(* NativeAnswer *)

Lines == [to : Nat \ {0}, log : BOOLEAN]

AnswerLetters == [stop : BOOLEAN, to : Nat]

AnswerType ==
  /\ lines \in Seq(Lines) /\ letters \in Seq(AnswerLetters)
  /\ portAt \in Nat /\ heard \in Nat /\ begun \in Nat
  /\ result \in {"none", "stop", "answer"}
  /\ cuts \in SUBSET Nat

\* Lines follow one another; only the last one may be the answer.
LinesInv ==
  /\ \A i, j \in DOMAIN lines : i < j => lines[i].to < lines[j].to
  /\ \A i \in DOMAIN lines : i < Len(lines) => lines[i].log

\* The chunks come in order; one that was cut has been heard or is in the mailbox.
ChunksInv ==
  /\ heard <= portAt /\ portAt <= Printed
  /\ \A i \in DOMAIN letters : ~letters[i].stop =>
       /\ heard < letters[i].to /\ letters[i].to <= portAt /\ letters[i].to \in cuts
       /\ \A j \in DOMAIN letters : i < j /\ ~letters[j].stop => letters[i].to < letters[j].to
  /\ \A c \in cuts :
       /\ c <= portAt
       /\ c <= heard \/ \E i \in DOMAIN letters : ~letters[i].stop /\ letters[i].to = c

\* The message that is collected begins behind the last chunk that ended a line.
BegunInv ==
  /\ begun <= heard
  /\ begun = 0 \/ (begun \in cuts /\ begun \in Newlines)
  /\ \A c \in cuts : c \in Newlines /\ c <= heard => c <= begun

ResultInv ==
  /\ result = "answer" =>
       /\ Answered /\ parsed = <<Last(lines)>> /\ heard = Printed
       /\ LastLog \in cuts \cup {0}
  /\ result = "none" /\ Answered /\ heard = Printed => LastLog \notin cuts \cup {0}

\* The inductive invariant
AnswerInv == AnswerType /\ LinesInv /\ ChunksInv /\ BegunInv /\ ResultInv

LEMMA LinesParts ==
  ASSUME AnswerType
  PROVE  /\ Len(lines) \in Nat /\ DOMAIN lines = 1 .. Len(lines)
         /\ \A i \in DOMAIN lines : lines[i] \in Lines /\ lines[i].to \in Nat /\ lines[i].to > 0
         /\ lines = <<>> => Len(lines) = 0 /\ Printed = 0 /\ ~Answered
         /\ lines # <<>> => /\ Len(lines) \in DOMAIN lines /\ Last(lines) = lines[Len(lines)]
                            /\ Printed = lines[Len(lines)].to
                            /\ Answered <=> ~lines[Len(lines)].log
         /\ Printed \in Nat
<1>1. /\ Len(lines) \in Nat /\ DOMAIN lines = 1 .. Len(lines)
      /\ \A i \in DOMAIN lines : lines[i] \in Lines
  BY DEF AnswerType
<1>2. \A i \in DOMAIN lines : lines[i].to \in Nat /\ lines[i].to > 0
  BY <1>1 DEF Lines
<1>3. lines = <<>> => Len(lines) = 0 /\ Printed = 0 /\ ~Answered
  BY DEF Printed, Answered
<1>4. lines # <<>> => Len(lines) \in DOMAIN lines
  BY <1>1 DEF AnswerType
<1>5. lines # <<>> => /\ Last(lines) = lines[Len(lines)]
                      /\ Printed = lines[Len(lines)].to
                      /\ Answered <=> ~lines[Len(lines)].log
  BY DEF Last, Printed, Answered
<1>6. Printed \in Nat
  BY <1>2, <1>3, <1>4, <1>5
<1> QED
  BY <1>1, <1>2, <1>3, <1>4, <1>5, <1>6

\* Up to the end of a line there are as many lines as its place says.
LEMMA LinesCounted ==
  ASSUME AnswerType, LinesInv
  PROVE  LinesUpTo(0) = 0 /\ \A k \in DOMAIN lines : LinesUpTo(lines[k].to) = k
<1> DEFINE Is(place, n) == \A i \in DOMAIN lines : lines[i].to <= place <=> i <= n
<1>1. /\ Len(lines) \in Nat /\ DOMAIN lines = 1 .. Len(lines)
      /\ \A i \in DOMAIN lines : lines[i].to \in Nat /\ lines[i].to > 0
  BY LinesParts
<1>2. Is(0, 0) /\ 0 \in 0 .. Len(lines)
  BY <1>1
<1>3. ASSUME NEW k \in DOMAIN lines PROVE Is(lines[k].to, k) /\ k \in 0 .. Len(lines)
  <2>1. ASSUME NEW i \in DOMAIN lines PROVE lines[i].to <= lines[k].to <=> i <= k
    <3>1. CASE i < k
      BY <1>1, <3>1 DEF LinesInv
    <3>2. CASE i = k
      BY <1>1, <3>2
    <3>3. CASE k < i
      BY <1>1, <3>3 DEF LinesInv
    <3> QED
      BY <1>1, <3>1, <3>2, <3>3
  <2> QED
    BY <1>1, <2>1
<1>4. ASSUME NEW place, NEW m \in 0 .. Len(lines), NEW n \in 0 .. Len(lines),
             Is(place, m), Is(place, n)
      PROVE  m = n
  <2>1. CASE m < n
    <3>1. n \in DOMAIN lines /\ n <= n /\ ~(n <= m)
      BY <1>1, <2>1
    <3> QED
      BY <1>4, <3>1
  <2>2. CASE n < m
    <3>1. m \in DOMAIN lines /\ m <= m /\ ~(m <= n)
      BY <1>1, <2>2
    <3> QED
      BY <1>4, <3>1
  <2> QED
    BY <1>1, <2>1, <2>2
<1> HIDE DEF Is
<1>5. ASSUME NEW place, NEW n \in 0 .. Len(lines), Is(place, n)
      PROVE  LinesUpTo(place) = n
  <2>1. LinesUpTo(place) = CHOOSE m \in 0 .. Len(lines) : Is(place, m)
    BY DEF LinesUpTo, Is
  <2> QED
    BY <1>4, <1>5, <2>1
<1> QED
  BY <1>2, <1>3, <1>5

\* The last log is the line before the answer.
LEMMA LastLogIs ==
  ASSUME AnswerType, LinesInv, Answered
  PROVE  LastLog = IF Len(lines) = 1 THEN 0 ELSE lines[Len(lines) - 1].to
<1> DEFINE S == {0} \cup {l.to : l \in {k \in ToSet(lines) : k.log}}
           m == IF Len(lines) = 1 THEN 0 ELSE lines[Len(lines) - 1].to
<1>1. /\ Len(lines) \in Nat /\ DOMAIN lines = 1 .. Len(lines)
      /\ \A i \in DOMAIN lines : lines[i].to \in Nat /\ lines[i].to > 0
      /\ lines # <<>> /\ Len(lines) \in DOMAIN lines /\ ~lines[Len(lines)].log
  BY LinesParts DEF Answered
<1>2. ASSUME NEW y
      PROVE  y \in S <=> y = 0 \/ \E i \in DOMAIN lines : lines[i].log /\ y = lines[i].to
  BY DEF ToSet
<1>3. m \in S /\ m \in Nat
  <2>1. CASE Len(lines) = 1
    BY <1>2, <2>1
  <2>2. CASE Len(lines) # 1
    <3>1. Len(lines) - 1 \in DOMAIN lines /\ Len(lines) - 1 < Len(lines)
      BY <1>1, <2>2
    <3>2. lines[Len(lines) - 1].log
      BY <3>1 DEF LinesInv
    <3> QED
      BY <1>1, <1>2, <2>2, <3>1, <3>2
  <2> QED
    BY <2>1, <2>2
<1>4. ASSUME NEW y \in S PROVE y \in Nat /\ m >= y
  <2>1. CASE y = 0
    BY <1>3, <2>1
  <2>2. ASSUME NEW i \in DOMAIN lines, lines[i].log, y = lines[i].to PROVE y \in Nat /\ m >= y
    <3>1. i # Len(lines)
      BY <1>1, <2>2
    <3>2. CASE i = Len(lines) - 1
      BY <1>1, <2>2, <3>2
    <3>3. CASE i # Len(lines) - 1
      <4>1. i < Len(lines) - 1 /\ Len(lines) - 1 \in DOMAIN lines /\ Len(lines) # 1
        BY <1>1, <3>1, <3>3
      <4>2. lines[i].to < lines[Len(lines) - 1].to
        BY <4>1 DEF LinesInv
      <4> QED
        BY <1>1, <2>2, <4>1, <4>2
    <3> QED
      BY <3>2, <3>3
  <2> QED
    BY <1>2, <2>1, <2>2
<1> HIDE DEF S, m
<1>5. \A x \in S : (\A y \in S : x >= y) => x = m
  BY <1>3, <1>4
<1>6. LastLog = Max(S)
  BY DEF LastLog, S
<1>7. Max(S) = m
  BY <1>3, <1>4, <1>5 DEF Max
<1> QED
  BY <1>6, <1>7 DEF m

LEMMA InitAnswerInv == AnswerInit => AnswerInv
<1> SUFFICES ASSUME AnswerInit PROVE AnswerInv
  OBVIOUS
<1>1. AnswerType
  BY DEF AnswerInit, AnswerType
<1>2. DOMAIN lines = {} /\ DOMAIN letters = {} /\ Printed = 0 /\ ~Answered
  BY DEF AnswerInit, Printed, Answered
<1> QED
  BY <1>1, <1>2 DEF AnswerInit, AnswerInv, LinesInv, ChunksInv, BegunInv, ResultInv

\* A line is printed behind everything that the port has read.
LEMMA PrintAnswerInv ==
  ASSUME AnswerInv, Log \/ ReturnCompleted
  PROVE  AnswerInv'
<1>1. /\ ~Answered /\ UNCHANGED <<letters, portAt, heard, begun, result, parsed, cuts>>
  BY DEF Log, ReturnCompleted
<1>2. PICK n \in LineSizes, b \in BOOLEAN : lines' = Append(lines, [to |-> Printed + n, log |-> b])
  BY DEF Log, ReturnCompleted
<1> DEFINE l == [to |-> Printed + n, log |-> b]  k == Len(lines)
<1>3. /\ Len(lines) \in Nat /\ DOMAIN lines = 1 .. Len(lines)
      /\ \A i \in DOMAIN lines : lines[i] \in Lines /\ lines[i].to \in Nat /\ lines[i].to > 0
      /\ lines = <<>> => Len(lines) = 0 /\ Printed = 0 /\ ~Answered
      /\ lines # <<>> => /\ Len(lines) \in DOMAIN lines
                         /\ Printed = lines[Len(lines)].to
                         /\ Answered <=> ~lines[Len(lines)].log
      /\ Printed \in Nat
  BY LinesParts DEF AnswerInv
<1>4. n \in Nat /\ n > 0 /\ Printed + n \in Nat /\ Printed < Printed + n
  BY <1>3, NativeAnswerAssumption
<1>5. l \in Lines /\ l.to = Printed + n
  <2>1. Printed + n \in Nat \ {0}
    BY <1>3, <1>4
  <2> QED
    BY <2>1, Zenon DEF Lines
<1> HIDE DEF l
<1>6. lines \in Seq(Lines) /\ lines' = Append(lines, l)
  BY <1>2 DEF AnswerInv, AnswerType, l
<1>7. /\ lines' \in Seq(Lines) /\ Len(lines') = k + 1 /\ DOMAIN lines' = 1 .. (k + 1)
      /\ lines'[k + 1] = l /\ \A i \in 1 .. k : lines'[i] = lines[i]
  BY <1>5, <1>6, SendShape
<1>8. AnswerType'
  BY <1>1, <1>7 DEF AnswerInv, AnswerType
<1>9. Printed' = Printed + n
  BY <1>3, <1>5, <1>7, <1>8, LinesParts DEF Printed, Last
<1>10. LinesInv'
  <2>1. ASSUME NEW i \in DOMAIN lines PROVE lines[i].to <= Printed
    <3>1. lines # <<>>
      BY <2>1
    <3>2. CASE i = Len(lines)
      BY <1>3, <3>1, <3>2
    <3>3. CASE i # Len(lines)
      <4>1. i < Len(lines) /\ Len(lines) \in DOMAIN lines
        BY <1>3, <3>1, <3>3
      <4>2. lines[i].to < lines[Len(lines)].to
        BY <4>1 DEF AnswerInv, LinesInv
      <4> QED
        BY <1>3, <3>1, <4>2
    <3> QED
      BY <3>2, <3>3
  <2>2. ASSUME NEW i \in DOMAIN lines', NEW j \in DOMAIN lines', i < j
        PROVE  lines'[i].to < lines'[j].to
    <3>1. i \in DOMAIN lines /\ lines'[i] = lines[i]
      BY <1>3, <1>7, <2>2
    <3>2. CASE j = k + 1
      BY <1>3, <1>4, <1>5, <1>7, <2>1, <3>1, <3>2
    <3>3. CASE j # k + 1
      BY <1>3, <1>7, <2>2, <3>1, <3>3 DEF AnswerInv, LinesInv
    <3> QED
      BY <3>2, <3>3
  <2>3. ASSUME NEW i \in DOMAIN lines', i < Len(lines') PROVE lines'[i].log
    <3>1. i \in DOMAIN lines /\ lines'[i] = lines[i] /\ lines # <<>>
      BY <1>3, <1>7, <2>3
    <3>2. CASE i < Len(lines)
      BY <3>1, <3>2 DEF AnswerInv, LinesInv
    <3>3. CASE ~(i < Len(lines))
      <4>1. i = Len(lines)
        BY <1>3, <3>1, <3>3
      <4> QED
        BY <1>1, <1>3, <3>1, <4>1
    <3> QED
      BY <3>2, <3>3
  <2> QED
    BY <2>2, <2>3 DEF LinesInv
<1>11. ChunksInv'
  BY <1>1, <1>3, <1>4, <1>9 DEF AnswerInv, AnswerType, ChunksInv
<1>12. \A x : x \in Newlines' <=> x \in Newlines \/ x = Printed + n
  <2>1. \A x : x \in Newlines <=> \E i \in DOMAIN lines : x = lines[i].to
    BY DEF Newlines
  <2>2. \A x : x \in Newlines' <=> \E i \in DOMAIN lines' : x = lines'[i].to
    BY DEF Newlines
  <2>3. k + 1 \in DOMAIN lines' /\ \A i \in DOMAIN lines' : i = k + 1 \/ i \in DOMAIN lines
    BY <1>3, <1>7
  <2> QED
    BY <1>3, <1>5, <1>7, <2>1, <2>2, <2>3
<1>13. Printed + n \notin cuts
  BY <1>3, <1>4 DEF AnswerInv, AnswerType, ChunksInv
<1>14. BegunInv'
  BY <1>1, <1>12, <1>13 DEF AnswerInv, BegunInv
<1>15. heard # Printed'
  BY <1>3, <1>4, <1>9 DEF AnswerInv, AnswerType, ChunksInv
<1>16. ResultInv'
  BY <1>1, <1>15 DEF AnswerInv, ResultInv
<1> QED
  BY <1>8, <1>10, <1>11, <1>14, <1>16 DEF AnswerInv

\* Everything but the lines and what was heard of them
LEMMA SameLines ==
  ASSUME lines' = lines
  PROVE  /\ Printed' = Printed /\ Answered' = Answered /\ Newlines' = Newlines
         /\ LastLog' = LastLog /\ (LinesInv => LinesInv')
BY DEF Printed, Answered, Newlines, LastLog, LinesInv

LEMMA PortAnswerInv ==
  ASSUME AnswerInv, PortHandsOver
  PROVE  AnswerInv'
<1>1. PICK to \in (portAt + 1) .. Printed :
        letters' = Append(letters, Part(to)) /\ portAt' = to /\ cuts' = cuts \cup {to}
  BY DEF PortHandsOver
<1>2. UNCHANGED <<lines, heard, begun, result, parsed>>
  BY DEF PortHandsOver
<1>3. /\ portAt \in Nat /\ heard \in Nat /\ begun \in Nat /\ Printed \in Nat /\ cuts \in SUBSET Nat
      /\ letters \in Seq(AnswerLetters)
  BY LinesParts DEF AnswerInv, AnswerType
<1>4. to \in Nat /\ portAt < to /\ to <= Printed
  BY <1>1, <1>3
<1>5. Part(to) \in AnswerLetters /\ ~Part(to).stop /\ Part(to).to = to
  BY <1>4 DEF Part, AnswerLetters
<1>6. /\ letters' \in Seq(AnswerLetters) /\ Len(letters) \in Nat
      /\ DOMAIN letters = 1 .. Len(letters) /\ DOMAIN letters' = 1 .. (Len(letters) + 1)
      /\ letters'[Len(letters) + 1] = Part(to)
      /\ \A i \in 1 .. Len(letters) : letters'[i] = letters[i]
  BY <1>1, <1>3, <1>5, SendShape
<1>7. AnswerType'
  BY <1>1, <1>2, <1>3, <1>4, <1>6 DEF AnswerInv, AnswerType
<1>8. \A c \in cuts : c <= portAt
  BY DEF AnswerInv, ChunksInv
<1>9. ChunksInv'
  <2>1. ASSUME NEW i \in DOMAIN letters', ~letters'[i].stop
        PROVE  /\ heard < letters'[i].to /\ letters'[i].to <= portAt' /\ letters'[i].to \in cuts'
               /\ \A j \in DOMAIN letters' : i < j /\ ~letters'[j].stop => letters'[i].to < letters'[j].to
    <3>1. CASE i = Len(letters) + 1
      <4>1. heard < to
        BY <1>3, <1>4 DEF AnswerInv, ChunksInv
      <4> QED
        BY <1>1, <1>4, <1>5, <1>6, <3>1, <4>1
    <3>2. CASE i # Len(letters) + 1
      <4>1. i \in DOMAIN letters /\ letters'[i] = letters[i]
        BY <1>6, <3>2
      <4>2. /\ heard < letters[i].to /\ letters[i].to <= portAt /\ letters[i].to \in cuts
            /\ \A j \in DOMAIN letters : i < j /\ ~letters[j].stop => letters[i].to < letters[j].to
        BY <2>1, <4>1 DEF AnswerInv, ChunksInv
      <4>3. letters[i].to \in Nat
        BY <1>3, <4>2
      <4>4. ASSUME NEW j \in DOMAIN letters', i < j, ~letters'[j].stop
            PROVE  letters'[i].to < letters'[j].to
        <5>1. CASE j = Len(letters) + 1
          BY <1>3, <1>4, <1>5, <1>6, <4>1, <4>2, <4>3, <5>1
        <5>2. CASE j # Len(letters) + 1
          BY <1>6, <4>1, <4>2, <4>4, <5>2
        <5> QED
          BY <5>1, <5>2
      <4> QED
        BY <1>1, <1>3, <1>4, <4>1, <4>2, <4>3, <4>4
    <3> QED
      BY <3>1, <3>2
  <2>2. ASSUME NEW c \in cuts'
        PROVE  /\ c <= portAt'
               /\ c <= heard \/ \E i \in DOMAIN letters' : ~letters'[i].stop /\ letters'[i].to = c
    <3>1. CASE c \in cuts
      <4>1. c <= heard \/ \E i \in DOMAIN letters : ~letters[i].stop /\ letters[i].to = c
        BY <3>1 DEF AnswerInv, ChunksInv
      <4>2. \A i \in DOMAIN letters : i \in DOMAIN letters' /\ letters'[i] = letters[i]
        BY <1>6
      <4>3. c <= portAt'
        BY <1>1, <1>3, <1>4, <1>8, <3>1
      <4> QED
        BY <4>1, <4>2, <4>3
    <3>2. CASE c = to
      <4>1. Len(letters) + 1 \in DOMAIN letters'
        BY <1>6
      <4> QED
        BY <1>1, <1>4, <1>5, <1>6, <3>2, <4>1
    <3> QED
      BY <1>1, <3>1, <3>2
  <2>3. heard <= portAt' /\ portAt' <= Printed'
    BY <1>1, <1>2, <1>3, <1>4, SameLines DEF AnswerInv, ChunksInv
  <2> QED
    BY <1>2, <2>1, <2>2, <2>3 DEF ChunksInv
<1>10. BegunInv'
  <2>1. ~(to <= heard)
    BY <1>3, <1>4 DEF AnswerInv, ChunksInv
  <2> QED
    BY <1>1, <1>2, <2>1, SameLines DEF AnswerInv, BegunInv
<1>11. ResultInv'
  <2>1. heard # Printed
    BY <1>3, <1>4 DEF AnswerInv, ChunksInv
  <2>2. result # "answer"
    BY <2>1 DEF AnswerInv, ResultInv
  <2> QED
    BY <1>2, <2>1, <2>2, SameLines DEF ResultInv
<1> QED
  BY <1>2, <1>7, <1>9, <1>10, <1>11, SameLines DEF AnswerInv

\* A :stop in the mailbox moves no chunk.
LEMMA StopAnswerInv ==
  ASSUME AnswerInv, StopMiner \/ HearStop
  PROVE  AnswerInv'
<1>1. /\ UNCHANGED <<lines, portAt, heard, begun, parsed, cuts>>
      /\ result' = result \/ result' = "stop"
  BY DEF StopMiner, HearStop
<1>2. letters \in Seq(AnswerLetters)
  BY DEF AnswerInv, AnswerType
<1> DEFINE Chunk(c) == \E i \in DOMAIN letters : ~letters[i].stop /\ letters[i].to = c
           Before(c, d) == \E i, j \in DOMAIN letters :
                             /\ i < j /\ ~letters[i].stop /\ ~letters[j].stop
                             /\ letters[i].to = c /\ letters[j].to = d
<1>3. /\ letters' \in Seq(AnswerLetters)
      /\ \A c : Chunk(c)' <=> Chunk(c)
      /\ \A c, d : Before(c, d)' => Before(c, d)
  <2>1. CASE StopMiner
    <3>1. Stop \in AnswerLetters /\ Stop.stop /\ letters' = Append(letters, Stop)
      BY <2>1 DEF StopMiner, Stop, AnswerLetters
    <3>2. /\ letters' \in Seq(AnswerLetters) /\ Len(letters) \in Nat
          /\ DOMAIN letters = 1 .. Len(letters) /\ DOMAIN letters' = 1 .. (Len(letters) + 1)
          /\ letters'[Len(letters) + 1] = Stop
          /\ \A i \in 1 .. Len(letters) : letters'[i] = letters[i]
      BY <1>2, <3>1, SendShape
    <3>3. \A i \in DOMAIN letters' :
            ~letters'[i].stop <=> i \in DOMAIN letters /\ ~letters[i].stop
      BY <3>1, <3>2
    <3>4. \A i \in DOMAIN letters : i \in DOMAIN letters' /\ letters'[i] = letters[i]
      BY <3>2
    <3> QED
      BY <3>2, <3>3, <3>4
  <2>2. CASE HearStop
    <3>1. letters # <<>> /\ Head(letters).stop /\ letters' = Tail(letters)
      BY <2>2 DEF HearStop
    <3>2. /\ letters' \in Seq(AnswerLetters) /\ Len(letters) \in Nat /\ Head(letters) = letters[1]
          /\ DOMAIN letters = 1 .. Len(letters) /\ DOMAIN letters' = 1 .. (Len(letters) - 1)
          /\ \A i \in DOMAIN letters' : i + 1 \in DOMAIN letters /\ letters'[i] = letters[i + 1]
      BY <1>2, <3>1, TakeShape
    <3>3. ASSUME NEW i \in DOMAIN letters, ~letters[i].stop
          PROVE  i - 1 \in DOMAIN letters' /\ letters'[i - 1] = letters[i]
      BY <3>1, <3>2, <3>3
    <3>4. \A c : Chunk(c)' <=> Chunk(c)
      BY <3>2, <3>3
    <3>5. \A c, d : Before(c, d)' => Before(c, d)
      <4>1. ASSUME NEW i \in DOMAIN letters', NEW j \in DOMAIN letters', i < j,
                   ~letters'[i].stop, ~letters'[j].stop
            PROVE  Before(letters'[i].to, letters'[j].to)
        <5>1. i + 1 \in DOMAIN letters /\ j + 1 \in DOMAIN letters /\ i + 1 < j + 1
          BY <3>2, <4>1
        <5> QED
          BY <3>2, <4>1, <5>1
      <4> QED
        BY <4>1
    <3> QED
      BY <3>2, <3>4, <3>5
  <2> QED
    BY <2>1, <2>2
<1>4. ChunksInv'
  <2>1. /\ \A c : Chunk(c) => heard < c /\ c <= portAt /\ c \in cuts
        /\ \A c, d : Before(c, d) => c < d
        /\ \A c \in cuts : c <= portAt /\ (c <= heard \/ Chunk(c))
        /\ heard <= portAt /\ portAt <= Printed
    BY DEF AnswerInv, ChunksInv
  <2>2. heard' = heard /\ portAt' = portAt /\ cuts' = cuts /\ Printed' = Printed
    BY <1>1, SameLines
  <2> HIDE DEF Chunk, Before
  <2>3. \A c : Chunk(c)' => heard' < c /\ c <= portAt' /\ c \in cuts'
    BY <1>3, <2>1, <2>2
  <2>4. \A c, d : Before(c, d)' => c < d
    BY <1>3, <2>1
  <2>5. \A c \in cuts' : c <= portAt' /\ (c <= heard' \/ Chunk(c)')
    BY <1>3, <2>1, <2>2
  <2> USE DEF Chunk, Before
  <2> QED
    BY <2>1, <2>2, <2>3, <2>4, <2>5 DEF ChunksInv
<1>5. AnswerType'
  BY <1>1, <1>3 DEF AnswerInv, AnswerType
<1>6. BegunInv'
  BY <1>1, SameLines DEF AnswerInv, BegunInv
<1>7. ResultInv'
  BY <1>1, SameLines DEF AnswerInv, ResultInv
<1> QED
  BY <1>1, <1>4, <1>5, <1>6, <1>7, SameLines DEF AnswerInv

\* The process hears the chunk that comes next.
LEMMA ChunkHeard ==
  ASSUME AnswerInv, letters # <<>>, ~Head(letters).stop,
         heard' = Head(letters).to, letters' = Tail(letters),
         UNCHANGED <<lines, portAt, cuts>>
  PROVE  /\ ChunksInv' /\ letters' \in Seq(AnswerLetters)
         /\ heard' \in Nat /\ heard < heard' /\ heard' \in cuts /\ heard' <= Printed
         /\ \A c \in cuts : c <= heard' => c <= heard \/ c = heard'
<1>1. /\ letters' \in Seq(AnswerLetters) /\ Len(letters) \in Nat /\ Head(letters) = letters[1]
      /\ DOMAIN letters = 1 .. Len(letters) /\ DOMAIN letters' = 1 .. (Len(letters) - 1)
      /\ 1 \in DOMAIN letters
      /\ \A i \in DOMAIN letters' : i + 1 \in DOMAIN letters /\ letters'[i] = letters[i + 1]
  BY TakeShape DEF AnswerInv, AnswerType
<1>2. /\ portAt \in Nat /\ heard \in Nat /\ Printed \in Nat /\ cuts \in SUBSET Nat
  BY LinesParts DEF AnswerInv, AnswerType
<1>3. /\ heard < heard' /\ heard' <= portAt /\ heard' \in cuts /\ heard' <= Printed
  <2>1. heard < heard' /\ heard' <= portAt /\ heard' \in cuts /\ portAt <= Printed
    BY <1>1 DEF AnswerInv, ChunksInv
  <2> QED
    BY <1>2, <2>1
<1>4. ASSUME NEW i \in DOMAIN letters, i # 1, ~letters[i].stop
      PROVE  /\ i - 1 \in DOMAIN letters' /\ letters'[i - 1] = letters[i]
             /\ heard' < letters[i].to
  <2>1. 1 < i /\ i - 1 \in DOMAIN letters' /\ letters'[i - 1] = letters[i]
    BY <1>1, <1>4
  <2>2. letters[1].to < letters[i].to
    BY <1>1, <1>4, <2>1 DEF AnswerInv, ChunksInv
  <2> QED
    BY <1>1, <2>1, <2>2
<1>5. ASSUME NEW c \in cuts
      PROVE  /\ c <= portAt
             /\ \/ c <= heard \/ c = heard'
                \/ heard' < c /\ \E i \in DOMAIN letters' : ~letters'[i].stop /\ letters'[i].to = c
  <2>1. c <= portAt /\ (c <= heard \/ \E i \in DOMAIN letters : ~letters[i].stop /\ letters[i].to = c)
    BY DEF AnswerInv, ChunksInv
  <2>2. ASSUME NEW i \in DOMAIN letters, ~letters[i].stop, letters[i].to = c
        PROVE  \/ c = heard'
               \/ heard' < c /\ \E j \in DOMAIN letters' : ~letters'[j].stop /\ letters'[j].to = c
    <3>1. CASE i = 1
      BY <1>1, <2>2, <3>1
    <3>2. CASE i # 1
      BY <1>4, <2>2, <3>2
    <3> QED
      BY <3>1, <3>2
  <2> QED
    BY <2>1, <2>2
<1>6. ASSUME NEW i \in DOMAIN letters', ~letters'[i].stop
      PROVE  /\ heard' < letters'[i].to /\ letters'[i].to <= portAt' /\ letters'[i].to \in cuts'
             /\ \A j \in DOMAIN letters' : i < j /\ ~letters'[j].stop => letters'[i].to < letters'[j].to
  <2>1. i + 1 \in DOMAIN letters /\ letters'[i] = letters[i + 1] /\ i + 1 # 1
    BY <1>1
  <2>2. /\ letters[i + 1].to <= portAt /\ letters[i + 1].to \in cuts
        /\ \A j \in DOMAIN letters : i + 1 < j /\ ~letters[j].stop => letters[i + 1].to < letters[j].to
    BY <1>6, <2>1 DEF AnswerInv, ChunksInv
  <2>3. \A j \in DOMAIN letters' : i < j => i + 1 < j + 1
    BY <1>1
  <2> QED
    BY <1>1, <1>4, <1>6, <2>1, <2>2, <2>3
<1>7. ChunksInv'
  <2>1. \A c \in cuts' :
          /\ c <= portAt'
          /\ c <= heard' \/ \E i \in DOMAIN letters' : ~letters'[i].stop /\ letters'[i].to = c
    <3>1. \A c \in cuts : c <= heard => c <= heard'
      BY <1>2, <1>3
    <3>2. heard' <= heard'
      BY <1>2, <1>3
    <3> QED
      BY <1>5, <3>1, <3>2
  <2>2. heard' <= portAt' /\ portAt' <= Printed'
    BY <1>3, SameLines DEF AnswerInv, ChunksInv
  <2> QED
    BY <1>6, <2>1, <2>2 DEF ChunksInv
<1> QED
  BY <1>1, <1>2, <1>3, <1>5, <1>7

\* A chunk within a line: the output goes on behind it.
LEMMA PartAnswerInv ==
  ASSUME AnswerInv, HearPart
  PROVE  AnswerInv'
<1>1. /\ result = "none" /\ letters # <<>> /\ ~Head(letters).stop
      /\ heard' = Head(letters).to /\ letters' = Tail(letters) /\ heard' \notin Newlines
      /\ UNCHANGED <<lines, portAt, begun, result, parsed, cuts>>
  BY DEF HearPart, IsLast
<1>2. /\ ChunksInv' /\ letters' \in Seq(AnswerLetters)
      /\ heard' \in Nat /\ heard < heard' /\ heard' \in cuts /\ heard' <= Printed
      /\ \A c \in cuts : c <= heard' => c <= heard \/ c = heard'
  BY <1>1, ChunkHeard
<1>3. AnswerType'
  BY <1>1, <1>2 DEF AnswerInv, AnswerType
<1>4. begun <= heard'
  BY <1>2 DEF AnswerInv, AnswerType, BegunInv
<1>5. BegunInv'
  BY <1>1, <1>2, <1>4, SameLines DEF AnswerInv, BegunInv
<1>6. Answered => Printed \in Newlines
  <2>1. Answered => Len(lines) \in DOMAIN lines /\ Printed = lines[Len(lines)].to
    BY LinesParts DEF AnswerInv, Answered
  <2> QED
    BY <2>1 DEF Newlines
<1>7. ResultInv'
  BY <1>1, <1>6, SameLines DEF ResultInv
<1> QED
  BY <1>1, <1>2, <1>3, <1>5, <1>7, SameLines DEF AnswerInv

\* The chunk that ends a message ends the message's last line; the message begins
\* with the line behind those of the messages before it.
LEMMA MessageIs ==
  ASSUME AnswerInv, HearLast
  PROVE  \E k \in DOMAIN lines, a \in 0 .. Len(lines) :
           /\ heard' = lines[k].to /\ a < k
           /\ begun = IF a = 0 THEN 0 ELSE lines[a].to
           /\ LinesWithin(begun, heard') = SubSeq(lines, a + 1, k)
<1>1. PICK k \in DOMAIN lines : heard' = lines[k].to
  BY DEF HearLast, IsLast, Newlines
<1>2. heard < heard' /\ heard' \in Nat
  BY ChunkHeard DEF HearLast
<1>3. begun <= heard /\ begun \in Nat /\ heard \in Nat
  BY DEF AnswerInv, AnswerType, BegunInv
<1>4. /\ Len(lines) \in Nat /\ DOMAIN lines = 1 .. Len(lines)
      /\ \A i \in DOMAIN lines : lines[i].to \in Nat /\ lines[i].to > 0
  BY LinesParts DEF AnswerInv
<1>5. LinesUpTo(0) = 0 /\ \A i \in DOMAIN lines : LinesUpTo(lines[i].to) = i
  BY LinesCounted DEF AnswerInv
<1>6. PICK a \in 0 .. Len(lines) : begun = IF a = 0 THEN 0 ELSE lines[a].to
  <2>1. CASE begun = 0
    BY <1>4, <2>1
  <2>2. CASE begun # 0
    <3>1. PICK i \in DOMAIN lines : begun = lines[i].to
      BY <2>2 DEF AnswerInv, BegunInv, Newlines
    <3>2. i \in 0 .. Len(lines) /\ i # 0
      BY <1>4
    <3> QED
      BY <3>1, <3>2
  <2> QED
    BY <2>1, <2>2
<1>7. a < k
  <2>1. CASE a = 0
    BY <1>4, <2>1
  <2>2. CASE a # 0
    <3>1. a \in DOMAIN lines /\ begun = lines[a].to /\ lines[a].to < lines[k].to
      BY <1>1, <1>2, <1>3, <1>4, <1>6, <2>2
    <3>2. ~(k < a) /\ k # a
      BY <1>4, <3>1 DEF AnswerInv, LinesInv
    <3> QED
      BY <1>4, <3>1, <3>2
  <2> QED
    BY <2>1, <2>2
<1>8. LinesUpTo(begun) = a /\ LinesUpTo(heard') = k
  BY <1>1, <1>4, <1>5, <1>6
<1>9. LinesWithin(begun, heard') = SubSeq(lines, a + 1, k)
  BY <1>8 DEF LinesWithin
<1> QED
  BY <1>1, <1>6, <1>7, <1>9

\* A part of the lines: its length, its first line and, when it is one line, the whole
LEMMA PartShape ==
  ASSUME NEW S, NEW s \in Seq(S), NEW k \in DOMAIN s, NEW a \in Nat, a < k
  PROVE  /\ SubSeq(s, a + 1, k) # <<>> /\ Head(SubSeq(s, a + 1, k)) = s[a + 1]
         /\ k = a + 1 => SubSeq(s, a + 1, k) = <<s[k]>>
<1> DEFINE p == SubSeq(s, a + 1, k)
<1>1. Len(s) \in Nat /\ DOMAIN s = 1 .. Len(s) /\ k \in 1 .. Len(s) /\ a \in Nat /\ a < k
  OBVIOUS
<1>2. \A i \in (a + 1) .. k : s[i] \in S
  BY <1>1
<1>3. /\ p \in Seq(S) /\ Len(p) = IF a + 1 <= k THEN k - (a + 1) + 1 ELSE 0
      /\ \A i \in 1 .. (k - (a + 1) + 1) : p[i] = s[(a + 1) + i - 1]
  BY <1>1, <1>2, SubSeqProperties
<1> HIDE DEF p
<1>4. Len(p) = k - a /\ p[1] = s[a + 1]
  <2>1. Len(p) = k - a /\ 1 \in 1 .. (k - (a + 1) + 1) /\ (a + 1) + 1 - 1 = a + 1
    BY <1>1, <1>3
  <2> QED
    BY <1>3, <2>1
<1>5. p # <<>> /\ Head(p) = s[a + 1]
  <2>1. Len(p) >= 1
    BY <1>1, <1>4
  <2> QED
    BY <1>3, <1>4, <2>1
<1>6. k = a + 1 => p = <<s[k]>>
  BY <1>1, <1>3, <1>4
<1> QED
  BY <1>5, <1>6 DEF p

\* A message is complete.  A message that begins with a log leaves the answer out
\* that it may hold; one that does not is the answer.
LEMMA LastAnswerInv ==
  ASSUME AnswerInv, HearLast
  PROVE  AnswerInv'
<1>1. /\ result = "none" /\ letters # <<>> /\ ~Head(letters).stop
      /\ heard' = Head(letters).to /\ letters' = Tail(letters)
      /\ begun' = heard' /\ heard' \in Newlines
      /\ UNCHANGED <<lines, portAt, cuts>>
  BY DEF HearLast, IsLast
<1>2. LET message == LinesWithin(begun, heard')
      IN  IF message # <<>> /\ Head(message).log THEN UNCHANGED <<result, parsed>>
          ELSE result' = "answer" /\ parsed' = message
  BY DEF HearLast
<1>3. /\ ChunksInv' /\ letters' \in Seq(AnswerLetters)
      /\ heard' \in Nat /\ heard < heard' /\ heard' \in cuts /\ heard' <= Printed
      /\ \A c \in cuts : c <= heard' => c <= heard \/ c = heard'
  BY <1>1, ChunkHeard
<1>4. PICK k \in DOMAIN lines, a \in 0 .. Len(lines) :
        /\ heard' = lines[k].to /\ a < k
        /\ begun = IF a = 0 THEN 0 ELSE lines[a].to
        /\ LinesWithin(begun, heard') = SubSeq(lines, a + 1, k)
  BY MessageIs
<1> DEFINE final == Len(lines)
<1>5. /\ final \in Nat /\ DOMAIN lines = 1 .. final /\ final \in DOMAIN lines
      /\ Last(lines) = lines[final]
      /\ Printed = lines[final].to
      /\ Answered <=> ~lines[final].log
      /\ \A i \in DOMAIN lines : lines[i].to \in Nat /\ lines[i].to > 0
  <2>1. lines # <<>>
    BY <1>4
  <2> QED
    BY <2>1, LinesParts DEF AnswerInv
<1>6. /\ LinesWithin(begun, heard') # <<>> /\ Head(LinesWithin(begun, heard')) = lines[a + 1]
      /\ k = a + 1 => LinesWithin(begun, heard') = <<lines[k]>>
  <2>1. lines \in Seq(Lines) /\ a \in Nat
    BY <1>5 DEF AnswerInv, AnswerType
  <2> QED
    BY <1>4, <2>1, PartShape
<1>0. /\ \A i, j \in DOMAIN lines : i < j => lines[i].to < lines[j].to
      /\ \A i \in DOMAIN lines : i < final => lines[i].log
  BY DEF AnswerInv, LinesInv
<1>12. Answered => LastLog = IF final = 1 THEN 0 ELSE lines[final - 1].to
  BY LastLogIs DEF AnswerInv
<1> HIDE DEF final
<1>7. /\ k \in 1 .. final /\ a \in 0 .. final /\ a < k
      /\ k \in DOMAIN lines /\ a + 1 \in DOMAIN lines
  <2>1. k \in DOMAIN lines /\ a \in 0 .. final
    BY DEF final
  <2> QED
    BY <1>4, <1>5, <2>1
<1>8. begun \in Nat /\ heard \in Nat /\ begun <= heard
  BY DEF AnswerInv, AnswerType, BegunInv
<1>9. BegunInv'
  <2>1. begun' <= heard' /\ begun' \in cuts' /\ begun' \in Newlines'
    BY <1>1, <1>3, SameLines
  <2>2. \A c \in cuts' : c \in Newlines' /\ c <= heard' => c <= begun'
    BY <1>1
  <2> QED
    BY <2>1, <2>2 DEF BegunInv
<1>10. CASE lines[a + 1].log
  <2>1. result' = "none"
    BY <1>1, <1>2, <1>6, <1>10
  <2>2. ASSUME Answered, heard' = Printed PROVE LastLog \notin cuts \cup {0}
    <3>1. a + 1 # final /\ k = final
      <4>1. a + 1 # final
        BY <1>5, <1>10, <2>2
      <4>2. ASSUME k < final PROVE FALSE
        <5>1. lines[k].to < lines[final].to /\ lines[k].to \in Nat
          BY <1>0, <1>5, <1>7, <4>2
        <5>2. lines[k].to = lines[final].to
          BY <1>4, <1>5, <2>2
        <5> QED
          BY <5>1, <5>2
      <4> QED
        BY <1>5, <1>7, <4>1, <4>2
    <3>2. final # 1 /\ final - 1 \in DOMAIN lines /\ a < final - 1 /\ final - 1 < final
      BY <1>5, <1>7, <3>1
    <3>3. LastLog = lines[final - 1].to
      BY <1>12, <2>2, <3>2
    <3>4. LastLog # 0
      BY <1>5, <3>2, <3>3
    <3>5. LastLog \in Newlines /\ LastLog < heard' /\ LastLog \in Nat
      <4>1. lines[final - 1].to < lines[final].to
        BY <1>0, <1>5, <3>2
      <4> QED
        BY <1>5, <2>2, <3>2, <3>3, <4>1 DEF Newlines
    <3>6. begun < LastLog
      <4>1. CASE a = 0
        BY <1>4, <1>5, <3>2, <3>3, <4>1
      <4>2. CASE a # 0
        <5>1. a \in DOMAIN lines
          BY <1>5, <1>7, <4>2
        <5>2. lines[a].to < lines[final - 1].to
          BY <1>0, <3>2, <5>1
        <5> QED
          BY <1>4, <3>3, <4>2, <5>2
      <4> QED
        BY <4>1, <4>2
    <3>7. ASSUME LastLog \in cuts PROVE FALSE
      <4>1. LastLog <= heard' /\ LastLog # heard'
        BY <1>3, <3>5
      <4>2. LastLog <= heard
        BY <1>3, <3>7, <4>1
      <4>3. LastLog <= begun
        BY <3>5, <3>7, <4>2 DEF AnswerInv, BegunInv
      <4> QED
        BY <1>8, <3>5, <3>6, <4>3
    <3> QED
      BY <3>4, <3>7
  <2>3. ResultInv'
    BY <1>1, <2>1, <2>2, SameLines DEF ResultInv
  <2>4. AnswerType'
    BY <1>1, <1>3, <2>1 DEF AnswerInv, AnswerType
  <2> QED
    BY <1>1, <1>3, <1>9, <2>3, <2>4, SameLines DEF AnswerInv
<1>11. CASE ~lines[a + 1].log
  <2>1. result' = "answer" /\ parsed' = LinesWithin(begun, heard')
    BY <1>2, <1>6, <1>11
  <2>2. a + 1 = final /\ k = final
    <3>1. ~(a + 1 < final)
      BY <1>0, <1>7, <1>11
    <3> QED
      BY <1>5, <1>7, <3>1
  <2>3. Answered /\ heard' = Printed /\ parsed' = <<Last(lines)>>
    BY <1>4, <1>5, <1>6, <1>11, <2>1, <2>2
  <2>4. LastLog \in cuts \cup {0}
    <3>1. LastLog = IF final = 1 THEN 0 ELSE lines[final - 1].to
      BY <1>12, <2>3
    <3>2. CASE a = 0
      BY <2>2, <3>1, <3>2
    <3>3. CASE a # 0
      <4>1. final # 1 /\ final - 1 = a /\ a \in DOMAIN lines
        BY <1>5, <1>7, <2>2, <3>3
      <4>2. begun = lines[a].to
        BY <1>4, <3>3
      <4>3. LastLog = lines[a].to /\ lines[a].to > 0
        BY <1>5, <3>1, <4>1
      <4> QED
        BY <4>2, <4>3 DEF AnswerInv, BegunInv
    <3> QED
      BY <3>2, <3>3
  <2>5. ResultInv'
    BY <1>1, <2>1, <2>3, <2>4, SameLines DEF ResultInv, Last
  <2>6. AnswerType'
    BY <1>1, <1>3, <2>1 DEF AnswerInv, AnswerType
  <2> QED
    BY <1>1, <1>3, <1>9, <2>5, <2>6, SameLines DEF AnswerInv
<1> QED
  BY <1>10, <1>11

LEMMA NextAnswerInv == AnswerInv /\ [AnswerNext]_answerVars => AnswerInv'
<1> SUFFICES ASSUME AnswerInv, [AnswerNext]_answerVars PROVE AnswerInv'
  OBVIOUS
<1>1. CASE Log \/ ReturnCompleted
  BY <1>1, PrintAnswerInv
<1>2. CASE PortHandsOver
  BY <1>2, PortAnswerInv
<1>3. CASE StopMiner \/ HearStop
  BY <1>3, StopAnswerInv
<1>4. CASE HearPart
  BY <1>4, PartAnswerInv
<1>5. CASE HearLast
  BY <1>5, LastAnswerInv
<1>6. CASE UNCHANGED answerVars
  <2>1. UNCHANGED <<lines, letters, portAt, heard, begun, result, parsed, cuts>>
    BY <1>6 DEF answerVars
  <2>2. LinesInv'
    BY <2>1, SameLines DEF AnswerInv
  <2>3. AnswerType' /\ ChunksInv'
    BY <2>1, SameLines DEF AnswerInv, AnswerType, ChunksInv
  <2>4. BegunInv' /\ ResultInv'
    BY <2>1, SameLines DEF AnswerInv, BegunInv, ResultInv
  <2> QED
    BY <2>2, <2>3, <2>4 DEF AnswerInv
<1> QED
  BY <1>1, <1>2, <1>3, <1>4, <1>5, <1>6 DEF AnswerNext

\* However the output is cut and however many logs there are: what is parsed is the
\* answer's line and nothing else, and once everything was heard the answer was taken
\* if and only if a chunk ended with the last log.
THEOREM AnswerIsTakenUnlessMerged == AnswerSpec => []AnswerTakenUnlessMerged
<1>1. AnswerInit => AnswerInv
  BY InitAnswerInv
<1>2. AnswerInv /\ [AnswerNext]_answerVars => AnswerInv'
  BY NextAnswerInv
<1>3. AnswerInv => AnswerTakenUnlessMerged
  BY DEF AnswerInv, AnswerType, ResultInv, AnswerTakenUnlessMerged
<1> QED
  BY <1>1, <1>2, <1>3, PTL DEF AnswerSpec

-----------------------------------------------------------------------------
(* Libp2p *)

TransportType ==
  /\ epoch \in Nat /\ ends \in Seq(Nat) /\ chunks \in Seq(Nat)
  /\ handled \in Nat /\ pc \in {"idle", "receiving", "down"}
  /\ messages \in Seq(Nat) /\ awaited \in Nat
  /\ delivered \in Seq(Nat \X Nat)

\* n frames end up to the place.
Counts(place, n) == \A f \in DOMAIN ends : (ends[f] <= place) <=> (f <= n)

\* Where the n-th frame ends
PlaceOf(n) == IF n = 0 THEN 0 ELSE ends[n]

\* Frames and chunks follow one another, and nothing is read before it is written.
StreamInv ==
  /\ \A f \in DOMAIN ends : ends[f] > 0
  /\ \A f, g \in DOMAIN ends : f < g => ends[f] < ends[g]
  /\ \A place \in 0 .. Written : \E n \in 0 .. Len(ends) : Counts(place, n)
  /\ handled <= Written
  /\ \A i \in DOMAIN chunks :
       /\ handled < chunks[i] /\ chunks[i] <= Written
       /\ \A j \in DOMAIN chunks : i < j => chunks[i] < chunks[j]

\* The frames of this run of the program that P2P was sent, or would have been
Told == IF pc = "receiving" THEN awaited - Len(messages) - 1 ELSE FramesUpTo(handled)

\* Between two chunks the process stands at the end of a frame; in continue_receiving it
\* has the frames between those it passed on and the one it waits for.
PlaceInv ==
  /\ pc = "idle" => \E n \in 0 .. Len(ends) : handled = PlaceOf(n)
  /\ pc = "receiving" =>
       /\ awaited \in DOMAIN ends /\ Len(messages) < awaited
       /\ messages = [i \in 1 .. Len(messages) |-> Told + i]

DeliveredInv ==
  /\ \A i \in DOMAIN delivered : delivered[i][1] <= epoch
  /\ pc # "down" =>
       /\ \A i \in DOMAIN delivered : delivered[i][1] = epoch => delivered[i][2] <= Told
       /\ "unsubscribed" \notin lapses =>
            \A f \in 1 .. Told : \E i \in DOMAIN delivered : delivered[i] = <<epoch, f>>
  /\ OnceAndInOrder

\* The inductive invariant
TransportInv == TransportType /\ StreamInv /\ PlaceInv /\ DeliveredInv

LEMMA EndsParts ==
  ASSUME TransportType
  PROVE  /\ Len(ends) \in Nat /\ DOMAIN ends = 1 .. Len(ends)
         /\ \A f \in DOMAIN ends : ends[f] \in Nat
         /\ Written = PlaceOf(Len(ends)) /\ Written \in Nat
         /\ \A n \in 0 .. Len(ends) : PlaceOf(n) \in Nat
<1>1. /\ Len(ends) \in Nat /\ DOMAIN ends = 1 .. Len(ends)
      /\ \A f \in DOMAIN ends : ends[f] \in Nat
      /\ ends = <<>> <=> Len(ends) = 0
  BY DEF TransportType
<1>2. \A n \in 0 .. Len(ends) : PlaceOf(n) \in Nat
  BY <1>1 DEF PlaceOf
<1>3. Written = PlaceOf(Len(ends))
  BY <1>1 DEF Written, PlaceOf, Last
<1> QED
  BY <1>1, <1>2, <1>3

\* Places are counted by the frames that end there.
LEMMA FramesCounted ==
  ASSUME TransportType, StreamInv
  PROVE  /\ \A n \in 0 .. Len(ends) : Counts(PlaceOf(n), n)
         /\ \A place, n : n \in 0 .. Len(ends) /\ Counts(place, n) => FramesUpTo(place) = n
         /\ \A place \in 0 .. Written :
              FramesUpTo(place) \in 0 .. Len(ends) /\ Counts(place, FramesUpTo(place))
         /\ \A n \in 0 .. Len(ends) : FramesUpTo(PlaceOf(n)) = n
<1>1. /\ Len(ends) \in Nat /\ DOMAIN ends = 1 .. Len(ends)
      /\ \A f \in DOMAIN ends : ends[f] \in Nat
  BY EndsParts
<1>2. ASSUME NEW n \in 0 .. Len(ends) PROVE Counts(PlaceOf(n), n)
  <2>1. CASE n = 0
    BY <1>1, <2>1 DEF Counts, PlaceOf, StreamInv
  <2>2. CASE n # 0
    <3>1. n \in DOMAIN ends /\ PlaceOf(n) = ends[n]
      BY <1>1, <2>2 DEF PlaceOf
    <3>2. ASSUME NEW f \in DOMAIN ends PROVE (ends[f] <= ends[n]) <=> (f <= n)
      <4>1. CASE f < n
        BY <1>1, <3>1, <4>1 DEF StreamInv
      <4>2. CASE f = n
        BY <1>1, <3>1, <4>2
      <4>3. CASE n < f
        BY <1>1, <3>1, <4>3 DEF StreamInv
      <4> QED
        BY <1>1, <3>1, <4>1, <4>2, <4>3
    <3> QED
      BY <3>1, <3>2 DEF Counts
  <2> QED
    BY <2>1, <2>2
<1>3. ASSUME NEW place, NEW m \in 0 .. Len(ends), NEW n \in 0 .. Len(ends),
             Counts(place, m), Counts(place, n)
      PROVE  m = n
  <2>1. CASE m < n
    <3>1. n \in DOMAIN ends /\ n <= n /\ ~(n <= m)
      BY <1>1, <2>1
    <3> QED
      BY <1>3, <3>1 DEF Counts
  <2>2. CASE n < m
    <3>1. m \in DOMAIN ends /\ m <= m /\ ~(m <= n)
      BY <1>1, <2>2
    <3> QED
      BY <1>3, <3>1 DEF Counts
  <2> QED
    BY <1>1, <2>1, <2>2
<1>4. ASSUME NEW place, NEW n \in 0 .. Len(ends), Counts(place, n)
      PROVE  FramesUpTo(place) = n
  <2>1. FramesUpTo(place) = CHOOSE m \in 0 .. Len(ends) : Counts(place, m)
    BY DEF FramesUpTo, Counts
  <2> QED
    BY <1>3, <1>4, <2>1
<1>5. \A place \in 0 .. Written :
        FramesUpTo(place) \in 0 .. Len(ends) /\ Counts(place, FramesUpTo(place))
  BY <1>4 DEF StreamInv
<1> QED
  BY <1>2, <1>4, <1>5

\* What lies between the end of a frame and a place behind it
LEMMA WithinIs ==
  ASSUME TransportType, StreamInv, NEW n \in 0 .. Len(ends), NEW to \in 0 .. Written,
         PlaceOf(n) <= to
  PROVE  \E m \in n .. Len(ends) :
           /\ m = FramesUpTo(to) /\ Counts(to, m)
           /\ Within(PlaceOf(n), to) = [i \in 1 .. (m - n) |-> n + i]
           /\ Rest(PlaceOf(n), to) = PlaceOf(m)
<1> DEFINE m == FramesUpTo(to)
<1>1. /\ m \in 0 .. Len(ends) /\ Counts(to, m) /\ FramesUpTo(PlaceOf(n)) = n
      /\ Counts(PlaceOf(n), n)
  BY FramesCounted
<1>2. /\ Len(ends) \in Nat /\ DOMAIN ends = 1 .. Len(ends)
      /\ \A f \in DOMAIN ends : ends[f] \in Nat
  BY EndsParts
<1>3. n <= m
  <2>1. CASE n = 0
    BY <1>1, <2>1
  <2>2. CASE n # 0
    <3>1. n \in DOMAIN ends /\ ends[n] <= to
      BY <1>2, <2>2 DEF PlaceOf
    <3> QED
      BY <1>1, <3>1 DEF Counts
  <2> QED
    BY <2>1, <2>2
<1> DEFINE found == [i \in 1 .. (m - n) |-> n + i]
<1>4. Within(PlaceOf(n), to) = found
  BY <1>1 DEF Within
<1> HIDE DEF m
<1>5. Rest(PlaceOf(n), to) = PlaceOf(m)
  <2>1. CASE m = n
    <3>1. found = <<>>
      BY <1>1, <2>1
    <3> QED
      BY <1>4, <2>1, <3>1 DEF Rest
  <2>2. CASE m # n
    <3>1. m - n \in Nat /\ m - n >= 1 /\ n + (m - n) = m /\ m # 0
      BY <1>1, <1>3, <2>2
    <3>2. Len(found) = m - n /\ found # <<>> /\ found[m - n] = m
      BY <3>1
    <3>3. Last(found) = m
      BY <3>2 DEF Last
    <3> QED
      BY <1>4, <3>1, <3>2, <3>3 DEF Rest, PlaceOf
  <2> QED
    BY <2>1, <2>2
<1> QED
  BY <1>1, <1>2, <1>3, <1>4, <1>5 DEF m

\* The last of the frames that were found comes first.
LEMMA SplitIs ==
  ASSUME NEW n \in Nat, NEW m \in Nat, n < m
  PROVE  LET s == Split([i \in 1 .. (m - n) |-> n + i])
         IN  /\ s \in Seq(Nat) /\ Len(s) = m - n /\ s[1] = m
             /\ \A p \in 2 .. (m - n) : s[p] = n + p - 1
<1> DEFINE k == m - n  found == [i \in 1 .. k |-> n + i]  s == Split(found)
<1>1. k \in Nat /\ k >= 1 /\ n + k = m
  OBVIOUS
<1> HIDE DEF k
<1>2. found \in Seq(Nat) /\ Len(found) = k /\ \A i \in 1 .. k : found[i] = n + i
  BY <1>1
<1> HIDE DEF found
<1>3. Last(found) = m
  BY <1>1, <1>2 DEF Last
<1> DEFINE front == SubSeq(found, 1, k - 1)
<1>4. /\ front \in Seq(Nat) /\ Len(front) = k - 1
      /\ \A i \in 1 .. (k - 1) : front[i] = n + i
  <2>1. \A i \in 1 .. (k - 1) : found[i] \in Nat
    BY <1>1, <1>2
  <2>2. /\ front \in Seq(Nat)
        /\ Len(front) = IF 1 <= k - 1 THEN (k - 1) - 1 + 1 ELSE 0
        /\ \A i \in 1 .. ((k - 1) - 1 + 1) : front[i] = found[1 + i - 1]
    BY <1>1, <2>1, SubSeqProperties
  <2> HIDE DEF front
  <2>3. Len(front) = k - 1
    BY <1>1, <2>2
  <2>4. ASSUME NEW i \in 1 .. (k - 1) PROVE front[i] = n + i
    <3>1. i \in 1 .. ((k - 1) - 1 + 1) /\ 1 + i - 1 = i /\ i \in 1 .. k
      BY <1>1
    <3> QED
      BY <1>2, <2>2, <3>1
  <2> QED
    BY <2>2, <2>3, <2>4
<1>5. Front(found) = front
  BY <1>2 DEF Front
<1> HIDE DEF front
<1>6. s = <<m>> \o front
  BY <1>3, <1>5 DEF Split
<1>7. /\ <<m>> \o front \in Seq(Nat) /\ Len(<<m>> \o front) = 1 + (k - 1)
      /\ (<<m>> \o front)[1] = m
      /\ \A p \in 2 .. (1 + (k - 1)) : (<<m>> \o front)[p] = front[p - 1]
  BY <1>1, <1>4
<1>8. ASSUME NEW p \in 2 .. k PROVE s[p] = n + p - 1
  <2>1. p \in 2 .. (1 + (k - 1)) /\ p - 1 \in 1 .. (k - 1)
    BY <1>1
  <2> QED
    BY <1>4, <1>6, <1>7, <2>1
<1>9. s \in Seq(Nat) /\ Len(s) = k /\ s[1] = m
  BY <1>1, <1>6, <1>7
<1> QED
  BY <1>8, <1>9 DEF k, found

\* Nothing is sent twice, and only the last message of a chunk overtakes others.
InOrder(d) ==
  \A i, j \in DOMAIN d :
    i < j =>
      /\ d[i] # d[j]
      /\ d[i][1] <= d[j][1]
      /\ d[i][1] = d[j][1] /\ d[i][2] > d[j][2] =>
           \A q \in (i + 1) .. j : d[q] = <<d[j][1], d[j][2] - (j - q)>>

\* A sequence is what P2P was sent with the next frames behind, the last one first.
SentUpTo(d, n, m) ==
  LET s == Split([i \in 1 .. (m - n) |-> n + i])
  IN  d = delivered \o [i \in DOMAIN s |-> <<epoch, s[i]>>]

LEMMA SentInOrder ==
  ASSUME TransportInv, pc # "down", NEW n \in Nat, NEW m \in Nat, n < m, Told = n, NEW d,
         SentUpTo(d, n, m)
  PROVE  /\ d \in Seq(Nat \X Nat)
         /\ \A i \in DOMAIN d : d[i][1] <= epoch /\ (d[i][1] = epoch => d[i][2] <= m)
         /\ "unsubscribed" \notin lapses =>
              \A f \in 1 .. m : \E i \in DOMAIN d : d[i] = <<epoch, f>>
         /\ InOrder(d)
<1>14. pc # "down"
  OBVIOUS
<1> DEFINE s == Split([i \in 1 .. (m - n) |-> n + i])  k == m - n
<1>1. /\ s \in Seq(Nat) /\ Len(s) = k /\ s[1] = m
      /\ \A p \in 2 .. k : s[p] = n + p - 1
  BY SplitIs
<1>2. k \in Nat /\ k >= 1 /\ n + k = m
  OBVIOUS
<1> DEFINE L == Len(delivered)
<1>6. delivered \in Seq(Nat \X Nat) /\ epoch \in Nat
  BY DEF TransportInv, TransportType
<1>7. L \in Nat /\ DOMAIN delivered = 1 .. L
  BY <1>6
<1>8. \A i \in 1 .. L : delivered[i] \in Nat \X Nat
  BY <1>6, <1>7
<1>9. \A i \in 1 .. L : delivered[i][1] \in Nat /\ delivered[i][2] \in Nat
  BY <1>8
<1> HIDE DEF L
<1>3. \A i \in 1 .. L : delivered[i][1] <= epoch /\ (delivered[i][1] = epoch => delivered[i][2] <= n)
  BY <1>7, <1>14 DEF TransportInv, DeliveredInv
<1>11. "unsubscribed" \notin lapses =>
         \A f \in 1 .. n : \E i \in 1 .. L : delivered[i] = <<epoch, f>>
  BY <1>7, <1>14 DEF TransportInv, DeliveredInv
<1>12. \A x \in Nat : x <= n => x <= m
  OBVIOUS
<1>13. \A a, b, c \in Nat : /\ n + (a - c) - 1 = (n + (b - c) - 1) - (b - a)
                            /\ a < b => n + (a - c) - 1 < n + (b - c) - 1
  OBVIOUS
<1>10. InOrder(delivered)
  BY DEF TransportInv, DeliveredInv, OnceAndInOrder, InOrder
<1>5. QED
  <2> DEFINE new == [i \in DOMAIN s |-> <<epoch, s[i]>>]
             frame(q) == IF q = L + 1 THEN m ELSE n + (q - L) - 1
  <2>1. d = delivered \o new
    BY DEF SentUpTo
  <2> HIDE DEF s
  <2>2. /\ new \in Seq(Nat \X Nat) /\ Len(new) = k
        /\ \A p \in 1 .. k : new[p] = <<epoch, s[p]>>
    <3>1. DOMAIN s = 1 .. k /\ \A p \in 1 .. k : s[p] \in Nat
      BY <1>1
    <3> QED
      BY <1>1, <1>2, <1>6, <3>1
  <2> HIDE DEF new
  <2>10. /\ d \in Seq(Nat \X Nat) /\ Len(d) = L + k
         /\ \A q \in 1 .. L : d[q] = delivered[q]
         /\ \A q \in (L + 1) .. (L + k) : d[q] = new[q - L]
    <3>1. /\ delivered \o new \in Seq(Nat \X Nat)
          /\ Len(delivered \o new) = Len(delivered) + Len(new)
          /\ \A q \in 1 .. (Len(delivered) + Len(new)) :
               (delivered \o new)[q] =
                 IF q <= Len(delivered) THEN delivered[q] ELSE new[q - Len(delivered)]
      BY <1>6, <2>2, ConcatProperties
    <3>2. Len(delivered) = L /\ Len(new) = k
      BY <2>2 DEF L
    <3> HIDE DEF k
    <3>3. \A q \in (L + 1) .. (L + k) : q \in 1 .. (L + k) /\ ~(q <= L)
      BY <1>7
    <3>4. \A q \in 1 .. L : q \in 1 .. (L + k) /\ q <= L
      BY <1>2, <1>7
    <3>5. \A q \in 1 .. (L + k) :
            d[q] = IF q <= L THEN delivered[q] ELSE new[q - L]
      BY <2>1, <3>1, <3>2
    <3> QED
      BY <2>1, <3>1, <3>2, <3>3, <3>4, <3>5
  <2> HIDE DEF k
  <2>3. DOMAIN d = 1 .. (L + k)
    BY <2>10
  <2>4. ASSUME NEW q \in (L + 1) .. (L + k)
        PROVE  d[q] = <<epoch, frame(q)>> /\ frame(q) \in (n + 1) .. m
    <3>1. q - L \in 1 .. k /\ q \in Nat
      BY <1>2, <1>7
    <3>2. d[q] = <<epoch, s[q - L]>>
      BY <2>2, <2>10, <3>1
    <3>3. CASE q = L + 1
      <4>1. q - L = 1
        BY <1>7, <3>3
      <4> QED
        BY <1>1, <1>2, <3>2, <3>3, <4>1
    <3>4. CASE q # L + 1
      <4>1. q - L \in 2 .. k
        BY <1>2, <1>7, <3>1, <3>4
      <4>2. s[q - L] = n + (q - L) - 1
        BY <1>1, <4>1 DEF k
      <4>3. n + (q - L) - 1 \in (n + 1) .. m
        BY <1>2, <4>1
      <4> QED
        BY <3>2, <3>4, <4>2, <4>3
    <3> QED
      BY <3>3, <3>4
  <2>5. /\ \A q \in DOMAIN d : q \in 1 .. L \/ q \in (L + 1) .. (L + k)
        /\ \A q \in 1 .. (L + k) : q \in Nat
    BY <1>2, <1>7, <2>3
  <2>6. ASSUME NEW i \in DOMAIN d
        PROVE  /\ d[i][1] <= epoch
               /\ d[i][1] = epoch => d[i][2] <= m
    <3>1. CASE i \in 1 .. L
      <4>1. d[i] = delivered[i]
        BY <2>10, <3>1
      <4> QED
        BY <1>3, <1>9, <1>12, <3>1, <4>1
    <3>2. CASE i \in (L + 1) .. (L + k)
      <4>1. d[i] = <<epoch, frame(i)>> /\ frame(i) \in (n + 1) .. m
        BY <2>4, <3>2
      <4>2. d[i][1] = epoch /\ d[i][2] = frame(i)
        BY <4>1
      <4> HIDE DEF frame
      <4> QED
        BY <1>2, <1>6, <4>1, <4>2
    <3> QED
      BY <2>5, <3>1, <3>2
  <2>7. ASSUME "unsubscribed" \notin lapses, NEW f \in 1 .. m
        PROVE  \E i \in DOMAIN d : d[i] = <<epoch, f>>
    <3>1. CASE f <= n
      <4>0. f \in 1 .. n
        BY <3>1
      <4>1. PICK i \in 1 .. L : delivered[i] = <<epoch, f>>
        BY <1>11, <2>1, <2>7, <4>0
      <4>2. i \in DOMAIN d
        BY <1>2, <1>7, <2>3
      <4> QED
        BY <2>10, <4>1, <4>2
    <3>2. CASE f = m
      <4>1. L + 1 \in (L + 1) .. (L + k) /\ L + 1 \in DOMAIN d
        BY <1>2, <1>7, <2>3
      <4>2. d[L + 1] = <<epoch, m>>
        BY <2>4, <4>1
      <4> QED
        BY <3>2, <4>1, <4>2
    <3>3. CASE n < f /\ f < m
      <4> DEFINE q == L + (f - n) + 1
      <4>1. /\ q \in (L + 1) .. (L + k) /\ q \in DOMAIN d /\ q # L + 1
            /\ n + (q - L) - 1 = f
        BY <1>2, <1>7, <2>3, <3>3
      <4>2. d[q] = <<epoch, f>>
        BY <2>4, <4>1
      <4> QED
        BY <4>1, <4>2
    <3> QED
      BY <3>1, <3>2, <3>3
  <2>8. ASSUME NEW i \in DOMAIN d, NEW j \in DOMAIN d, i < j
        PROVE  /\ d[i] # d[j]
               /\ d[i][1] <= d[j][1]
               /\ d[i][1] = d[j][1] /\ d[i][2] > d[j][2] =>
                    \A q \in (i + 1) .. j :
                      d[q] = <<d[j][1], d[j][2] - (j - q)>>
    <3>0. i \in Nat /\ j \in Nat /\ i >= 1
      BY <1>2, <1>7, <2>3
    <3>1. CASE j \in 1 .. L
      <4>1. i \in 1 .. L /\ \A q \in (i + 1) .. j : q \in 1 .. L
        BY <1>7, <2>8, <3>0, <3>1
      <4>2. /\ delivered[i] # delivered[j]
            /\ delivered[i][1] <= delivered[j][1]
            /\ delivered[i][1] = delivered[j][1] /\ delivered[i][2] > delivered[j][2] =>
                 \A q \in (i + 1) .. j :
                   delivered[q] = <<delivered[j][1], delivered[j][2] - (j - q)>>
        BY <1>7, <1>10, <2>8, <3>1, <4>1 DEF InOrder
      <4>3. /\ d[i] = delivered[i] /\ d[j] = delivered[j]
            /\ \A q \in (i + 1) .. j : d[q] = delivered[q]
        BY <2>10, <3>1, <4>1
      <4> QED
        BY <4>2, <4>3
    <3>2. CASE j \in (L + 1) .. (L + k)
      <4>1. d[j] = <<epoch, frame(j)>> /\ frame(j) \in (n + 1) .. m
        BY <2>4, <3>2
      <4>2. CASE i \in 1 .. L
        <5>1. /\ d[i] = delivered[i] /\ delivered[i][1] \in Nat /\ delivered[i][2] \in Nat
              /\ delivered[i][1] <= epoch /\ (delivered[i][1] = epoch => delivered[i][2] <= n)
          BY <1>3, <1>9, <2>10, <4>2
        <5>2. d[j][1] = epoch /\ d[j][2] = frame(j)
          BY <4>1
        <5> HIDE DEF frame
        <5>3. frame(j) \in Nat /\ n < frame(j)
          BY <4>1
        <5>4. ~(delivered[i][1] = epoch /\ delivered[i][2] >= frame(j))
          BY <5>1, <5>3
        <5>5. d[i] # d[j]
          BY <5>1, <5>2, <5>3, <5>4
        <5>6. d[i][1] <= d[j][1]
          BY <5>1, <5>2
        <5>7. ~(d[i][1] = d[j][1] /\ d[i][2] > d[j][2])
          BY <5>1, <5>2, <5>3, <5>4
        <5> QED
          BY <5>5, <5>6, <5>7
      <4>3. CASE i \in (L + 1) .. (L + k)
        <5>1. d[i] = <<epoch, frame(i)>> /\ frame(i) \in (n + 1) .. m
          BY <2>4, <4>3
        <5>2. j # L + 1 /\ frame(j) = n + (j - L) - 1
          BY <1>7, <2>8, <3>0, <3>2, <4>3
        <5>3. CASE i = L + 1
          <6>1. frame(i) = m /\ frame(j) < m
            <7>1. frame(i) = m
              BY <5>3
            <7>2. j - L <= k /\ j - L \in Int
              BY <1>2, <1>7, <3>2
            <7> QED
              BY <1>2, <5>2, <7>1, <7>2
          <6>2. ASSUME NEW q \in (i + 1) .. j
                PROVE  d[q] = <<epoch, frame(j) - (j - q)>>
            <7>1. q \in (L + 1) .. (L + k) /\ q # L + 1 /\ q \in Nat
              BY <1>2, <1>7, <3>0, <3>2, <5>3
            <7>2. frame(q) = n + (q - L) - 1
              BY <7>1
            <7>3. d[q] = <<epoch, frame(q)>>
              BY <2>4, <7>1
            <7> HIDE DEF frame
            <7>4. frame(q) = frame(j) - (j - q)
              BY <1>7, <1>13, <3>0, <5>2, <7>1, <7>2
            <7> QED
              BY <7>3, <7>4
          <6>3. frame(i) # frame(j)
            BY <4>1, <6>1
          <6> HIDE DEF frame
          <6> QED
            BY <1>6, <4>1, <5>1, <6>2, <6>3
        <5>4. CASE i # L + 1
          <6>0. frame(i) = n + (i - L) - 1
            BY <5>4
          <6> HIDE DEF frame
          <6>1. frame(i) < frame(j)
            BY <1>7, <1>13, <2>8, <3>0, <5>2, <6>0
          <6>2. ~(frame(i) > frame(j)) /\ frame(i) # frame(j)
            BY <4>1, <5>1, <6>1
          <6> QED
            BY <1>6, <4>1, <5>1, <6>2
        <5> QED
          BY <5>3, <5>4
      <4> QED
        BY <2>5, <4>2, <4>3
    <3> QED
      BY <2>5, <3>1, <3>2
  <2>9. InOrder(d)
    BY <2>8 DEF InOrder
  <2> QED
    BY <2>6, <2>7, <2>9, <2>10

\* The next frames are sent to the subscribers.
LEMMA DeliverNext ==
  ASSUME TransportInv, pc # "down", NEW n \in Nat, NEW m \in Nat, n < m, Told = n,
         Told' = m, Deliver(Split([i \in 1 .. (m - n) |-> n + i])), epoch' = epoch
  PROVE  delivered' \in Seq(Nat \X Nat) /\ DeliveredInv'
<1>6. delivered \in Seq(Nat \X Nat) /\ epoch \in Nat
  BY DEF TransportInv, TransportType
<1>4. CASE ~subscribed
  <2>1. delivered' = delivered /\ "unsubscribed" \in lapses'
    BY <1>4 DEF Deliver
  <2>2. OnceAndInOrder'
    BY <2>1 DEF TransportInv, DeliveredInv, OnceAndInOrder
  <2>3. ASSUME NEW i \in DOMAIN delivered'
        PROVE  /\ delivered'[i][1] <= epoch'
               /\ delivered'[i][1] = epoch' => delivered'[i][2] <= m
    <3>1. delivered'[i] = delivered[i] /\ i \in DOMAIN delivered
      BY <2>1
    <3>2. delivered[i][1] <= epoch /\ (delivered[i][1] = epoch => delivered[i][2] <= n)
      BY <3>1 DEF TransportInv, DeliveredInv
    <3>3. delivered[i][2] \in Nat
      BY <1>6, <3>1
    <3> QED
      BY <3>1, <3>2, <3>3
  <2> QED
    BY <1>6, <2>1, <2>2, <2>3 DEF DeliveredInv
<1>5. CASE subscribed
  <2> DEFINE s == Split([i \in 1 .. (m - n) |-> n + i])
  <2>1. /\ delivered' = delivered \o [i \in DOMAIN s |-> <<epoch, s[i]>>]
        /\ lapses' = lapses
    BY <1>5 DEF Deliver, Sends
  <2>2. /\ delivered' \in Seq(Nat \X Nat)
        /\ \A i \in DOMAIN delivered' :
             /\ delivered'[i][1] <= epoch
             /\ delivered'[i][1] = epoch => delivered'[i][2] <= m
        /\ "unsubscribed" \notin lapses =>
             \A f \in 1 .. m : \E i \in DOMAIN delivered' : delivered'[i] = <<epoch, f>>
        /\ InOrder(delivered')
    <3>1. SentUpTo(delivered', n, m)
      BY <2>1 DEF SentUpTo
    <3> QED
      BY <3>1, SentInOrder
  <2> HIDE DEF s
  <2>3. OnceAndInOrder'
    BY <2>2 DEF OnceAndInOrder, InOrder
  <2> QED
    BY <2>1, <2>2, <2>3 DEF DeliveredInv
<1> QED
  BY <1>4, <1>5

\* Frames with the run of the program they belong to
LEMMA FramesOfRun ==
  ASSUME NEW s \in Seq(Nat), NEW e \in Nat
  PROVE  LET t == [i \in DOMAIN s |-> <<e, s[i]>>]
         IN  /\ t \in Seq(Nat \X Nat) /\ Len(t) = Len(s)
             /\ \A i \in 1 .. Len(s) : t[i] = <<e, s[i]>>
<1>1. Len(s) \in Nat /\ DOMAIN s = 1 .. Len(s) /\ \A i \in DOMAIN s : s[i] \in Nat
  OBVIOUS
<1> QED
  BY <1>1

\* A message cannot be decoded: those in front of it were sent.
LEMMA RaisesDelivers ==
  ASSUME TransportInv, pc # "down", NEW n \in Nat, NEW m \in Nat, n < m, Told = n,
         DecodeRaises(Split([i \in 1 .. (m - n) |-> n + i]))
  PROVE  delivered' \in Seq(Nat \X Nat) /\ DeliveredInv'
<1> DEFINE s == Split([i \in 1 .. (m - n) |-> n + i])  k == m - n
           d == delivered \o [i \in DOMAIN s |-> <<epoch, s[i]>>]
<1>1. /\ s \in Seq(Nat) /\ Len(s) = k /\ k \in Nat /\ DOMAIN s = 1 .. k
      /\ \A i \in 1 .. k : s[i] \in Nat
  <2>1. s \in Seq(Nat) /\ Len(s) = k /\ k \in Nat
    BY SplitIs
  <2> HIDE DEF s, k
  <2> QED
    BY <2>1
<1>2. d \in Seq(Nat \X Nat) /\ InOrder(d) /\ \A i \in DOMAIN d : d[i][1] <= epoch
  <2>1. SentUpTo(d, n, m)
    BY DEF SentUpTo
  <2> QED
    BY <2>1, SentInOrder
<1>3. delivered \in Seq(Nat \X Nat) /\ epoch \in Nat
  BY DEF TransportInv, TransportType
<1>4. PICK x \in DOMAIN s : Sends(SubSeq(s, 1, x - 1))
  BY DEF DecodeRaises
<1>5. epoch' = epoch /\ pc' = "down"
  BY DEF DecodeRaises
<1> DEFINE y == x - 1
           front == SubSeq(s, 1, y)
           old == [i \in DOMAIN front |-> <<epoch, front[i]>>]
           new == [i \in DOMAIN s |-> <<epoch, s[i]>>]
           L == Len(delivered)
<1>6. delivered' = delivered \o old
  BY <1>4 DEF Sends
<1> HIDE DEF s, k
<1>7. y \in Nat /\ y < k /\ k \in Nat
  BY <1>1
<1> HIDE DEF y
<1>16. \A i \in 1 .. y : i \in 1 .. k
  BY <1>7
<1>8. /\ front \in Seq(Nat) /\ Len(front) = y
      /\ \A i \in 1 .. y : front[i] = s[i]
  <2>1. \A i \in 1 .. y : s[i] \in Nat
    BY <1>1, <1>16
  <2>2. /\ front \in Seq(Nat)
        /\ Len(front) = IF 1 <= y THEN y - 1 + 1 ELSE 0
        /\ \A i \in 1 .. (y - 1 + 1) : front[i] = s[1 + i - 1]
    BY <1>7, <2>1, SubSeqProperties
  <2> HIDE DEF front
  <2>3. Len(front) = y /\ y - 1 + 1 = y /\ \A i \in Nat : 1 + i - 1 = i
    BY <1>7, <2>2
  <2> QED
    BY <2>2, <2>3
<1> HIDE DEF front
<1>9. /\ old \in Seq(Nat \X Nat) /\ Len(old) = y
      /\ new \in Seq(Nat \X Nat) /\ Len(new) = k
      /\ \A i \in 1 .. y : i \in 1 .. k /\ old[i] = new[i]
  <2>3. old \in Seq(Nat \X Nat) /\ Len(old) = y /\ \A i \in 1 .. y : old[i] = <<epoch, front[i]>>
    BY <1>3, <1>8, FramesOfRun
  <2>4. new \in Seq(Nat \X Nat) /\ Len(new) = k /\ \A i \in 1 .. k : new[i] = <<epoch, s[i]>>
    BY <1>1, <1>3, FramesOfRun
  <2> HIDE DEF old, new
  <2> QED
    BY <1>8, <1>16, <2>3, <2>4
<1> HIDE DEF old, new
<1>10. L \in Nat /\ DOMAIN delivered = 1 .. L
  BY <1>3
<1>11. /\ delivered' \in Seq(Nat \X Nat) /\ DOMAIN delivered' = 1 .. (L + y)
       /\ \A q \in 1 .. (L + y) :
            delivered'[q] = IF q <= L THEN delivered[q] ELSE old[q - L]
  <2>1. /\ delivered \o old \in Seq(Nat \X Nat)
        /\ Len(delivered \o old) = Len(delivered) + Len(old)
        /\ \A q \in 1 .. (Len(delivered) + Len(old)) :
             (delivered \o old)[q] =
               IF q <= Len(delivered) THEN delivered[q] ELSE old[q - Len(delivered)]
    BY <1>3, <1>9, ConcatProperties
  <2> QED
    BY <1>6, <1>9, <2>1
<1>12. /\ DOMAIN d = 1 .. (L + k)
       /\ \A q \in 1 .. (L + k) : d[q] = IF q <= L THEN delivered[q] ELSE new[q - L]
  <2>1. /\ delivered \o new \in Seq(Nat \X Nat)
        /\ Len(delivered \o new) = Len(delivered) + Len(new)
        /\ \A q \in 1 .. (Len(delivered) + Len(new)) :
             (delivered \o new)[q] =
               IF q <= Len(delivered) THEN delivered[q] ELSE new[q - Len(delivered)]
    BY <1>3, <1>9, ConcatProperties
  <2>2. d = delivered \o new
    BY DEF new
  <2> HIDE DEF d
  <2>3. Len(d) = L + k /\ Len(d) \in Nat
    BY <1>2, <1>9, <2>1, <2>2
  <2>4. DOMAIN d = 1 .. (L + k)
    BY <1>2, <2>3
  <2> QED
    BY <1>9, <2>1, <2>2, <2>4
<1> HIDE DEF d, L
<1>13. ASSUME NEW q \in DOMAIN delivered' PROVE q \in DOMAIN d /\ delivered'[q] = d[q]
  <2>0. q \in 1 .. (L + y)
    BY <1>11
  <2>1. q \in 1 .. (L + y) /\ q \in 1 .. (L + k) /\ q \in Nat
    BY <1>7, <1>10, <2>0
  <2>2. CASE q <= L
    BY <1>11, <1>12, <2>1, <2>2
  <2>3. CASE ~(q <= L)
    <3>1. q - L \in 1 .. y
      BY <1>7, <1>10, <2>1, <2>3
    <3> QED
      BY <1>9, <1>11, <1>12, <2>1, <2>3, <3>1
  <2> QED
    BY <2>2, <2>3
<1>14. OnceAndInOrder'
  <2>1. ASSUME NEW i \in DOMAIN delivered', NEW j \in DOMAIN delivered', i < j
        PROVE  /\ d[i] # d[j]
               /\ d[i][1] <= d[j][1]
               /\ d[i][1] = d[j][1] /\ d[i][2] > d[j][2] =>
                    \A q \in (i + 1) .. j :
                      q \in DOMAIN delivered' /\ d[q] = <<d[j][1], d[j][2] - (j - q)>>
    <3>0. i \in 1 .. (L + y) /\ j \in 1 .. (L + y)
      BY <1>11
    <3>1. \A q \in (i + 1) .. j : q \in DOMAIN delivered'
      BY <1>7, <1>10, <1>11, <3>0
    <3>2. i \in DOMAIN d /\ j \in DOMAIN d
      BY <1>13
    <3>3. /\ d[i] # d[j]
          /\ d[i][1] <= d[j][1]
          /\ d[i][1] = d[j][1] /\ d[i][2] > d[j][2] =>
               \A q \in (i + 1) .. j : d[q] = <<d[j][1], d[j][2] - (j - q)>>
      BY <1>2, <2>1, <3>2 DEF InOrder
    <3> QED
      BY <3>1, <3>3
  <2> QED
    BY <1>13, <2>1 DEF OnceAndInOrder
<1>15. \A i \in DOMAIN delivered' : delivered'[i][1] <= epoch'
  BY <1>2, <1>5, <1>13
<1> QED
  BY <1>5, <1>11, <1>14, <1>15 DEF DeliveredInv

LEMMA InitTransportInv == TransportInit => TransportInv
<1> SUFFICES ASSUME TransportInit PROVE TransportInv
  OBVIOUS
<1>1. TransportType
  BY DEF TransportInit, TransportType
<1>2. Len(ends) = 0 /\ DOMAIN ends = {} /\ Written = 0 /\ DOMAIN chunks = {} /\ handled = PlaceOf(0)
  BY DEF TransportInit, Written, PlaceOf
<1>3. StreamInv
  <2>1. \A place \in 0 .. Written : Counts(place, 0)
    BY <1>2 DEF Counts
  <2> QED
    BY <1>2, <2>1 DEF StreamInv, TransportInit
<1>4. Told = 0
  <2>1. FramesUpTo(PlaceOf(0)) = 0
    BY <1>1, <1>2, <1>3, FramesCounted
  <2> QED
    BY <1>2, <2>1 DEF Told, TransportInit
<1>5. PlaceInv
  BY <1>2 DEF PlaceInv, TransportInit
<1>6. DeliveredInv
  BY <1>4 DEF DeliveredInv, OnceAndInOrder, TransportInit
<1> QED
  BY <1>1, <1>3, <1>5, <1>6 DEF TransportInv

\* Between two chunks P2P has been sent what ends up to there.
LEMMA StandsAt ==
  ASSUME TransportInv, pc # "down"
  PROVE  /\ Told \in 0 .. Len(ends)
         /\ pc = "idle" => handled = PlaceOf(Told) /\ Told = FramesUpTo(handled)
<1>1. CASE pc = "receiving"
  <2>1. awaited \in DOMAIN ends /\ Len(messages) < awaited /\ Len(messages) \in Nat
    BY <1>1 DEF TransportInv, TransportType, PlaceInv
  <2>2. Len(ends) \in Nat /\ DOMAIN ends = 1 .. Len(ends)
    BY EndsParts DEF TransportInv
  <2> QED
    BY <1>1, <2>1, <2>2 DEF Told
<1>2. CASE pc = "idle"
  <2>1. PICK n \in 0 .. Len(ends) : handled = PlaceOf(n)
    BY <1>2 DEF TransportInv, PlaceInv
  <2>2. FramesUpTo(PlaceOf(n)) = n
    BY FramesCounted DEF TransportInv
  <2>3. Told = n
    BY <1>2, <2>1, <2>2 DEF Told
  <2> QED
    BY <1>2, <2>1, <2>2, <2>3
<1> QED
  BY <1>1, <1>2 DEF TransportInv, TransportType

LEMMA SameEnds ==
  ASSUME ends' = ends
  PROVE  /\ Written' = Written
         /\ \A n : PlaceOf(n)' = PlaceOf(n)
         /\ FramesUpTo(handled)' = FramesUpTo(handled')
BY DEF Written, PlaceOf, FramesUpTo

\* Nothing is sent, and the frames that follow those that were stay the same.
LEMMA NothingSent ==
  ASSUME TransportInv, pc' # "down" => pc # "down" /\ Told' = Told,
         delivered' = delivered, epoch' = epoch,
         "unsubscribed" \in lapses => "unsubscribed" \in lapses'
  PROVE  DeliveredInv'
<1>1. OnceAndInOrder'
  BY DEF TransportInv, DeliveredInv, OnceAndInOrder
<1> QED
  BY <1>1 DEF TransportInv, DeliveredInv

\* A chunk is taken from the mailbox.
LEMMA ChunkTaken ==
  ASSUME TransportInv, chunks # <<>>, ends' = ends,
         handled' = Head(chunks), chunks' = Tail(chunks)
  PROVE  /\ StreamInv' /\ chunks' \in Seq(Nat) /\ handled' \in Nat
         /\ handled < handled' /\ handled' <= Written
<1>1. /\ chunks' \in Seq(Nat) /\ handled' \in Nat /\ handled' = chunks[1]
      /\ DOMAIN chunks = 1 .. Len(chunks) /\ DOMAIN chunks' = 1 .. (Len(chunks) - 1)
      /\ Len(chunks) \in Nat /\ Len(chunks) >= 1
      /\ \A i \in DOMAIN chunks' : i + 1 \in DOMAIN chunks /\ chunks'[i] = chunks[i + 1]
  BY TakeShape DEF TransportInv, TransportType
<1>2. handled < handled' /\ handled' <= Written
  BY <1>1 DEF TransportInv, StreamInv
<1>3. ASSUME NEW i \in DOMAIN chunks'
      PROVE  /\ handled' < chunks'[i] /\ chunks'[i] <= Written'
             /\ \A j \in DOMAIN chunks' : i < j => chunks'[i] < chunks'[j]
  <2>0. i \in Nat /\ i >= 1 /\ \A j \in DOMAIN chunks' : j \in Nat
    BY <1>1
  <2>1. /\ 1 \in DOMAIN chunks /\ i + 1 \in DOMAIN chunks /\ 1 < i + 1 /\ chunks'[i] = chunks[i + 1]
        /\ \A j \in DOMAIN chunks' :
             i < j => i + 1 < j + 1 /\ j + 1 \in DOMAIN chunks /\ chunks'[j] = chunks[j + 1]
    <3>1. 1 \in DOMAIN chunks /\ 1 < i + 1
      BY <1>1, <2>0
    <3>2. \A j \in DOMAIN chunks' : i < j => i + 1 < j + 1
      BY <2>0
    <3> QED
      BY <1>1, <3>1, <3>2
  <2>2. /\ chunks[1] < chunks[i + 1] /\ chunks[i + 1] <= Written
        /\ \A j \in DOMAIN chunks : i + 1 < j => chunks[i + 1] < chunks[j]
    BY <2>1 DEF TransportInv, StreamInv
  <2> QED
    BY <1>1, <2>1, <2>2, SameEnds
<1>4. /\ \A f \in DOMAIN ends' : ends'[f] > 0
      /\ \A f, g \in DOMAIN ends' : f < g => ends'[f] < ends'[g]
      /\ \A place \in 0 .. Written' : \E n \in 0 .. Len(ends') : Counts(place, n)'
  <2>1. \A place, n : Counts(place, n)' <=> Counts(place, n)
    BY DEF Counts
  <2> QED
    BY <2>1, SameEnds DEF TransportInv, StreamInv
<1>5. handled' <= Written'
  BY <1>2, SameEnds
<1> QED
  BY <1>1, <1>2, <1>3, <1>4, <1>5 DEF StreamInv

\* How many of some places come up to another one
CountUpTo(e, place) ==
  CHOOSE n \in 0 .. Len(e) : \A f \in DOMAIN e : e[f] <= place <=> f <= n

LEMMA CountIs ==
  ASSUME NEW e \in Seq(Nat), NEW place, NEW n \in 0 .. Len(e),
         \A f \in DOMAIN e : (e[f] <= place) <=> (f <= n)
  PROVE  CountUpTo(e, place) = n
<1> DEFINE Is(m) == \A f \in DOMAIN e : e[f] <= place <=> f <= m
<1>1. Len(e) \in Nat /\ DOMAIN e = 1 .. Len(e)
  OBVIOUS
<1>2. Is(n)
  OBVIOUS
<1>3. ASSUME NEW m \in 0 .. Len(e), Is(m) PROVE m = n
  <2>1. CASE m < n
    <3>1. n \in DOMAIN e /\ n <= n /\ ~(n <= m)
      BY <1>1, <2>1
    <3> QED
      BY <1>2, <1>3, <3>1
  <2>2. CASE n < m
    <3>1. m \in DOMAIN e /\ m <= m /\ ~(m <= n)
      BY <1>1, <2>2
    <3> QED
      BY <1>2, <1>3, <3>1
  <2> QED
    BY <1>1, <2>1, <2>2
<1>4. CountUpTo(e, place) = CHOOSE m \in 0 .. Len(e) : Is(m)
  BY DEF CountUpTo
<1> HIDE DEF Is
<1> QED
  BY <1>2, <1>3, <1>4

\* A frame is written behind those that were.
LEMMA WriteInv ==
  ASSUME TransportInv, WriteMessage
  PROVE  TransportInv'
<1>1. PICK size \in Sizes : ends' = Append(ends, Written + Header + size)
  BY DEF WriteMessage
<1>2. UNCHANGED <<epoch, chunks, handled, pc, messages, awaited, subscribed, delivered, lapses>>
  BY DEF WriteMessage, processVars
<1>23. Len(ends) \in Nat
  BY EndsParts DEF TransportInv
<1>0. PICK k \in Nat : k = Len(ends)
  BY <1>23
<1> DEFINE end == Written + Header + size
<1>3. /\ k \in Nat /\ DOMAIN ends = 1 .. k /\ Written \in Nat /\ Written = PlaceOf(k)
      /\ \A f \in DOMAIN ends : ends[f] \in Nat
  BY <1>0, EndsParts DEF TransportInv
<1>4. end \in Nat /\ Written < end /\ end > 0
  BY <1>3, TransportAssumption
<1>5. ends \in Seq(Nat) /\ ends' = Append(ends, end)
  BY <1>1 DEF TransportInv, TransportType
<1> HIDE DEF end
<1>6. /\ ends' \in Seq(Nat) /\ Len(ends') = k + 1 /\ DOMAIN ends' = 1 .. (k + 1)
      /\ ends'[k + 1] = end /\ \A f \in 1 .. k : ends'[f] = ends[f]
  BY <1>0, <1>4, <1>5, SendShape
<1>21. \A f \in DOMAIN ends' : f = k + 1 \/ (f \in DOMAIN ends /\ ends'[f] = ends[f] /\ f <= k)
  BY <1>3, <1>6
<1>22. /\ \A f \in DOMAIN ends : ends[f] > 0
       /\ \A f, g \in DOMAIN ends : f < g => ends[f] < ends[g]
  BY DEF TransportInv, StreamInv
<1>7. Written' = end
  <2>1. ends' # <<>>
    BY <1>3, <1>6
  <2> QED
    BY <1>6, <2>1 DEF Written, Last
<1>8. \A f \in DOMAIN ends : ends[f] <= Written
  <2>1. Counts(PlaceOf(k), k)
    BY <1>0, <1>3, FramesCounted DEF TransportInv
  <2> QED
    BY <1>3, <2>1 DEF Counts
<1>9. TransportType'
  BY <1>2, <1>6 DEF TransportInv, TransportType
<1>10. \A f \in DOMAIN ends' : ends'[f] > 0
  BY <1>4, <1>6, <1>21, <1>22
<1>11. ASSUME NEW f \in DOMAIN ends', NEW g \in DOMAIN ends', f < g
       PROVE  ends'[f] < ends'[g]
  <2>1. f \in DOMAIN ends /\ ends'[f] = ends[f]
    BY <1>3, <1>6, <1>11
  <2>2. CASE g = k + 1
    BY <1>3, <1>4, <1>6, <1>8, <2>1, <2>2
  <2>3. CASE g # k + 1
    BY <1>11, <1>21, <1>22, <2>1, <2>3
  <2> QED
    BY <2>2, <2>3
<1>12. ASSUME NEW place \in 0 .. Written, NEW n \in 0 .. k, Counts(place, n)
       PROVE  Counts(place, n)'
  <2>1. ASSUME NEW f \in DOMAIN ends' PROVE (ends'[f] <= place) <=> (f <= n)
    <3>1. CASE f = k + 1
      <4>1. ~(ends'[f] <= place)
        BY <1>3, <1>4, <1>6, <3>1
      <4>2. ~(f <= n)
        BY <1>3, <3>1
      <4> QED
        BY <4>1, <4>2
    <3>2. CASE f # k + 1
      BY <1>12, <1>21, <3>2 DEF Counts
    <3> QED
      BY <3>1, <3>2
  <2> QED
    BY <2>1 DEF Counts
<1>13. ASSUME NEW place \in 0 .. Written'
       PROVE  \E n \in 0 .. Len(ends') : Counts(place, n)'
  <2>1. CASE place <= Written
    <3>1. PICK n \in 0 .. k : Counts(place, n)
      BY <1>0, <1>3, <1>7, <2>1 DEF TransportInv, StreamInv
    <3>2. n \in 0 .. Len(ends')
      BY <1>3, <1>6
    <3> QED
      BY <1>3, <1>7, <1>12, <2>1, <3>1, <3>2
  <2>2. CASE Written < place /\ place < end
    <3>1. Counts(place, k)'
      <4>1. ASSUME NEW f \in DOMAIN ends' PROVE (ends'[f] <= place) <=> (f <= k)
        <5>1. CASE f = k + 1
          BY <1>3, <1>4, <1>6, <1>7, <2>2, <5>1
        <5>2. CASE f # k + 1
          <6>1. f \in DOMAIN ends /\ ends'[f] = ends[f] /\ f <= k /\ ends[f] <= Written
            BY <1>3, <1>6, <1>8, <5>2
          <6> QED
            BY <1>3, <1>4, <1>7, <2>2, <6>1
        <5> QED
          BY <5>1, <5>2
      <4> QED
        BY <4>1 DEF Counts
    <3> QED
      BY <1>3, <1>6, <3>1
  <2>3. CASE place = end
    <3>1. Counts(place, k + 1)'
      <4>1. ASSUME NEW f \in DOMAIN ends' PROVE (ends'[f] <= place) <=> (f <= k + 1)
        <5>1. CASE f = k + 1
          BY <1>3, <1>4, <1>6, <2>3, <5>1
        <5>2. CASE f # k + 1
          <6>1. f \in DOMAIN ends /\ ends'[f] = ends[f] /\ f <= k + 1 /\ ends[f] <= Written
            BY <1>3, <1>6, <1>8, <5>2
          <6> QED
            BY <1>3, <1>4, <2>3, <6>1
        <5> QED
          BY <5>1, <5>2
      <4> QED
        BY <4>1 DEF Counts
    <3> QED
      BY <1>3, <1>6, <3>1
  <2> QED
    BY <1>3, <1>4, <1>7, <2>1, <2>2, <2>3
<1>14. \A i \in DOMAIN chunks' :
         /\ handled' < chunks'[i] /\ chunks'[i] <= Written'
         /\ \A j \in DOMAIN chunks' : i < j => chunks'[i] < chunks'[j]
  <2>1. \A i \in DOMAIN chunks : chunks[i] \in Nat
    BY DEF TransportInv, TransportType
  <2> QED
    BY <1>2, <1>3, <1>4, <1>7, <2>1 DEF TransportInv, StreamInv
<1>15. handled \in Nat /\ handled <= Written
  BY DEF TransportInv, TransportType, StreamInv
<1>16. handled' <= Written'
  BY <1>2, <1>3, <1>4, <1>7, <1>15
<1>17. StreamInv'
  BY <1>10, <1>11, <1>13, <1>14, <1>16 DEF StreamInv
<1>18. Told' = Told
  <2>1. CASE pc = "receiving"
    BY <1>2, <2>1 DEF Told
  <2>2. CASE pc # "receiving"
    <3>1. PICK place \in 0 .. Written : place = handled
      BY <1>3, <1>15
    <3>2. PICK n \in 0 .. k : n = FramesUpTo(place) /\ Counts(place, n)
      BY <1>0, FramesCounted DEF TransportInv
    <3>3. Counts(place, n)' /\ n \in 0 .. Len(ends')
      BY <1>3, <1>6, <1>12, <3>2
    <3>4. CountUpTo(ends', place) = n
      BY <1>6, <3>3, CountIs DEF Counts
    <3>5. FramesUpTo(handled)' = CountUpTo(ends', handled')
      BY DEF FramesUpTo, CountUpTo
    <3> QED
      BY <1>2, <2>2, <3>1, <3>2, <3>4, <3>5 DEF Told
  <2> QED
    BY <2>1, <2>2
<1>19. PlaceInv'
  <2>1. CASE pc = "receiving"
    <3>1. /\ awaited \in DOMAIN ends /\ Len(messages) < awaited
          /\ messages = [i \in 1 .. Len(messages) |-> Told + i]
      BY <2>1 DEF TransportInv, PlaceInv
    <3>2. awaited \in DOMAIN ends'
      BY <1>3, <1>6, <3>1
    <3> QED
      BY <1>2, <1>18, <2>1, <3>1, <3>2 DEF PlaceInv
  <2>2. CASE pc # "receiving"
    <3>1. pc = "idle"
      BY <2>2 DEF WriteMessage, TransportInv, TransportType
    <3>2. PICK n \in 0 .. k : handled = PlaceOf(n)
      BY <1>0, <3>1 DEF TransportInv, PlaceInv
    <3>3. PlaceOf(n)' = PlaceOf(n) /\ n \in 0 .. Len(ends')
      BY <1>3, <1>6 DEF PlaceOf
    <3> QED
      BY <1>2, <2>2, <3>2, <3>3 DEF PlaceInv
  <2> QED
    BY <2>1, <2>2
<1>20. DeliveredInv'
  BY <1>2, <1>18, NothingSent
<1> QED
  BY <1>9, <1>17, <1>19, <1>20 DEF TransportInv

\* The port reads on; P2P subscribes.
LEMMA PassInv ==
  ASSUME TransportInv, PortPasses \/ Subscribe
  PROVE  TransportInv'
<1>1. /\ UNCHANGED <<epoch, ends, handled, pc, messages, awaited, delivered, lapses>>
      /\ subscribed' = subscribed \/ subscribed' = TRUE
  BY DEF PortPasses, Subscribe, processVars
<1>2. Told' = Told
  BY <1>1 DEF Told, FramesUpTo
<1>3. PlaceInv'
  <2>1. \A n : PlaceOf(n)' = PlaceOf(n)
    BY <1>1, SameEnds
  <2> QED
    BY <1>1, <1>2, <2>1 DEF TransportInv, PlaceInv
<1>4. DeliveredInv'
  BY <1>1, <1>2, NothingSent
<1>5. /\ chunks \in Seq(Nat) /\ handled \in Nat /\ Written \in Nat
      /\ \A i \in DOMAIN chunks :
           /\ handled < chunks[i] /\ chunks[i] <= Written
           /\ \A j \in DOMAIN chunks : i < j => chunks[i] < chunks[j]
  BY EndsParts DEF TransportInv, TransportType, StreamInv
<1>6. /\ chunks' \in Seq(Nat)
      /\ \A i \in DOMAIN chunks' :
           /\ handled < chunks'[i] /\ chunks'[i] <= Written
           /\ \A j \in DOMAIN chunks' : i < j => chunks'[i] < chunks'[j]
  <2>1. CASE PortPasses
    <3>1. PICK to \in (Taken + 1) .. Written : chunks' = Append(chunks, to)
      BY <2>1 DEF PortPasses
    <3>2. /\ Len(chunks) \in Nat /\ DOMAIN chunks = 1 .. Len(chunks)
          /\ \A i \in DOMAIN chunks : chunks[i] \in Nat
      BY <1>5
    <3>3. /\ Taken \in Nat /\ handled <= Taken
          /\ \A i \in DOMAIN chunks : chunks[i] <= Taken
      <4>1. CASE chunks = <<>>
        BY <1>5, <3>2, <4>1 DEF Taken
      <4>2. CASE chunks # <<>>
        <5>1. Len(chunks) \in DOMAIN chunks /\ Taken = chunks[Len(chunks)]
          BY <1>5, <3>2, <4>2 DEF Taken, Last
        <5>2. ASSUME NEW i \in DOMAIN chunks PROVE chunks[i] <= chunks[Len(chunks)]
          <6>1. CASE i = Len(chunks)
            BY <3>2, <5>1, <6>1
          <6>2. CASE i # Len(chunks)
            <7>1. i < Len(chunks)
              BY <3>2, <6>2
            <7>2. chunks[i] < chunks[Len(chunks)]
              BY <1>5, <5>1, <7>1
            <7> QED
              BY <3>2, <5>1, <7>2
          <6> QED
            BY <6>1, <6>2
        <5>3. handled < chunks[Len(chunks)]
          BY <1>5, <5>1
        <5> QED
          BY <1>5, <3>2, <5>1, <5>2, <5>3
      <4> QED
        BY <4>1, <4>2
    <3>4. to \in Nat /\ Taken < to /\ to <= Written
      BY <1>5, <3>1, <3>3
    <3>5. /\ chunks' \in Seq(Nat) /\ DOMAIN chunks' = 1 .. (Len(chunks) + 1)
          /\ chunks'[Len(chunks) + 1] = to
          /\ \A i \in 1 .. Len(chunks) : chunks'[i] = chunks[i]
      BY <1>5, <3>1, <3>4, SendShape
    <3>6. \A i \in DOMAIN chunks' : \/ i = Len(chunks) + 1
                                    \/ i \in DOMAIN chunks /\ chunks'[i] = chunks[i]
      BY <3>2, <3>5
    <3>7. ASSUME NEW i \in DOMAIN chunks'
          PROVE  /\ handled < chunks'[i] /\ chunks'[i] <= Written
                 /\ \A j \in DOMAIN chunks' : i < j => chunks'[i] < chunks'[j]
      <4>1. CASE i = Len(chunks) + 1
        <5>1. handled < to
          BY <1>5, <3>3, <3>4
        <5>2. \A j \in DOMAIN chunks' : ~(i < j)
          BY <3>2, <3>5, <4>1
        <5> QED
          BY <3>4, <3>5, <4>1, <5>1, <5>2
      <4>2. CASE i # Len(chunks) + 1
        <5>1. i \in DOMAIN chunks /\ chunks'[i] = chunks[i] /\ chunks[i] <= Taken
          BY <3>3, <3>6, <4>2
        <5>2. chunks[i] < to
          BY <3>2, <3>3, <3>4, <5>1
        <5> QED
          BY <1>5, <3>5, <3>6, <5>1, <5>2
      <4> QED
        BY <4>1, <4>2
    <3> QED
      BY <3>5, <3>7
  <2>2. CASE Subscribe
    BY <1>5, <2>2 DEF Subscribe
  <2> QED
    BY <2>1, <2>2
<1>7. TransportType'
  BY <1>1, <1>6 DEF TransportInv, TransportType
<1>8. StreamInv'
  <2>1. \A place, n : Counts(place, n)' <=> Counts(place, n)
    BY <1>1 DEF Counts
  <2>2. Written' = Written
    BY <1>1, SameEnds
  <2>3. /\ \A f \in DOMAIN ends' : ends'[f] > 0
        /\ \A f, g \in DOMAIN ends' : f < g => ends'[f] < ends'[g]
        /\ \A place \in 0 .. Written' : \E n \in 0 .. Len(ends') : Counts(place, n)'
        /\ handled' <= Written'
    BY <1>1, <2>1, <2>2 DEF TransportInv, StreamInv
  <2> QED
    BY <1>1, <1>6, <2>2, <2>3 DEF StreamInv
<1> QED
  BY <1>3, <1>4, <1>7, <1>8 DEF TransportInv

\* The frames of data that ends with a frame are the next ones.
LEMMA WholeFrames ==
  ASSUME TransportInv, pc = "idle", chunks # <<>>,
         Rest(handled, Head(chunks)) = Head(chunks)
  PROVE  \E n, m \in Nat :
           n < m /\ n = Told /\ Within(handled, Head(chunks)) = [i \in 1 .. (m - n) |-> n + i]
<1>1. Head(chunks) \in Nat /\ handled < Head(chunks) /\ Head(chunks) <= Written
  <2>1. 1 \in DOMAIN chunks /\ Head(chunks) = chunks[1] /\ chunks[1] \in Nat
    BY DEF TransportInv, TransportType
  <2> QED
    BY <2>1 DEF TransportInv, StreamInv
<1>2. PICK n \in 0 .. Len(ends) : n = Told /\ handled = PlaceOf(n)
  BY StandsAt
<1>3. /\ Len(ends) \in Nat /\ Written \in Nat /\ \A f \in 0 .. Len(ends) : PlaceOf(f) \in Nat
      /\ handled \in Nat
  BY EndsParts DEF TransportInv, TransportType
<1>4. PICK to \in 0 .. Written : to = Head(chunks)
  BY <1>1, <1>3
<1>5. PICK m \in n .. Len(ends) :
        /\ Within(handled, to) = [i \in 1 .. (m - n) |-> n + i]
        /\ Rest(handled, to) = PlaceOf(m)
  <2>1. PlaceOf(n) <= to
    BY <1>1, <1>2, <1>3, <1>4
  <2> QED
    BY <1>2, <2>1, WithinIs DEF TransportInv
<1>6. PlaceOf(m) = to /\ PlaceOf(n) # to
  BY <1>1, <1>2, <1>3, <1>4, <1>5
<1>7. n \in Nat /\ m \in Nat /\ n < m
  <2>1. m # n
    BY <1>6
  <2> QED
    BY <1>3, <2>1
<1> QED
  BY <1>2, <1>4, <1>5, <1>7

\* The data ends with a frame.
LEMMA FramesInv ==
  ASSUME TransportInv, HandleWhole
  PROVE  TransportInv'
<1>1. /\ pc = "idle" /\ chunks # <<>> /\ Rest(handled, Head(chunks)) = Head(chunks)
      /\ Deliver(Split(Within(handled, Head(chunks))))
      /\ handled' = Head(chunks) /\ chunks' = Tail(chunks)
      /\ UNCHANGED <<epoch, ends, pc, messages, awaited, subscribed>>
  BY DEF HandleWhole
<1>2. /\ StreamInv' /\ chunks' \in Seq(Nat) /\ handled' \in Nat
      /\ handled < handled' /\ handled' <= Written
  BY <1>1, ChunkTaken
<1>3. PICK n \in 0 .. Len(ends) : n = Told /\ handled = PlaceOf(n)
  BY <1>1, StandsAt
<1>4. /\ Len(ends) \in Nat /\ Written \in Nat /\ \A f \in 0 .. Len(ends) : PlaceOf(f) \in Nat
      /\ handled \in Nat
  BY EndsParts DEF TransportInv, TransportType
<1>5. PICK to \in 0 .. Written : to = handled'
  BY <1>2, <1>4
<1>6. PICK m \in n .. Len(ends) :
        /\ m = FramesUpTo(to) /\ Within(handled, to) = [i \in 1 .. (m - n) |-> n + i]
        /\ Rest(handled, to) = PlaceOf(m)
  <2>1. PlaceOf(n) <= to
    BY <1>2, <1>3, <1>4, <1>5
  <2> QED
    BY <1>3, <2>1, WithinIs DEF TransportInv
<1>7. n \in Nat /\ m \in Nat /\ n < m /\ m \in 0 .. Len(ends) /\ PlaceOf(m) = to
  <2>1. PlaceOf(m) = to
    BY <1>1, <1>5, <1>6
  <2>2. PlaceOf(n) # to
    BY <1>2, <1>3, <1>4, <1>5
  <2>3. m # n
    BY <2>1, <2>2
  <2> QED
    BY <1>4, <2>1, <2>3
<1>8. Told' = m
  BY <1>1, <1>5, <1>6, SameEnds DEF Told
<1>9. delivered' \in Seq(Nat \X Nat) /\ DeliveredInv'
  <2>1. Deliver(Split([i \in 1 .. (m - n) |-> n + i]))
    BY <1>1, <1>5, <1>6
  <2> QED
    BY <1>1, <1>3, <1>7, <1>8, <2>1, DeliverNext DEF TransportInv, TransportType
<1>10. TransportType'
  BY <1>1, <1>2, <1>9 DEF TransportInv, TransportType
<1>11. PlaceInv'
  <2>1. handled' = PlaceOf(m)' /\ m \in 0 .. Len(ends')
    BY <1>1, <1>5, <1>7, SameEnds
  <2> QED
    BY <1>1, <2>1 DEF PlaceInv
<1> QED
  BY <1>2, <1>9, <1>10, <1>11 DEF TransportInv

\* The data ends inside a message.
LEMMA PartInv ==
  ASSUME TransportInv, HandlePart
  PROVE  TransportInv'
<1>1. /\ pc = "idle" /\ chunks # <<>>
      /\ Head(chunks) - Rest(handled, Head(chunks)) >= Header
      /\ messages' = Within(handled, Head(chunks))
      /\ awaited' = CHOOSE f \in DOMAIN ends : Start(f) = Rest(handled, Head(chunks))
      /\ pc' = "receiving"
      /\ handled' = Head(chunks) /\ chunks' = Tail(chunks)
      /\ UNCHANGED <<epoch, ends, subscribed, delivered, lapses>>
  BY DEF HandlePart
<1>2. /\ StreamInv' /\ chunks' \in Seq(Nat) /\ handled' \in Nat
      /\ handled < handled' /\ handled' <= Written
  BY <1>1, ChunkTaken
<1>3. PICK n \in 0 .. Len(ends) : n = Told /\ handled = PlaceOf(n)
  BY <1>1, StandsAt
<1>4. /\ Len(ends) \in Nat /\ DOMAIN ends = 1 .. Len(ends)
      /\ Written \in Nat /\ Written = PlaceOf(Len(ends))
      /\ \A f \in 0 .. Len(ends) : PlaceOf(f) \in Nat
      /\ handled \in Nat
  BY EndsParts DEF TransportInv, TransportType
<1>16. Written = PlaceOf(Len(ends))
  BY <1>4
<1>17. Len(ends) \in Nat /\ DOMAIN ends = 1 .. Len(ends)
  BY <1>4
<1>5. PICK to \in 0 .. Written : to = handled'
  BY <1>2, <1>4
<1>6. PICK m \in n .. Len(ends) :
        /\ Within(handled, to) = [i \in 1 .. (m - n) |-> n + i]
        /\ Rest(handled, to) = PlaceOf(m)
  <2>1. PlaceOf(n) <= to
    BY <1>2, <1>3, <1>4, <1>5
  <2> QED
    BY <1>3, <2>1, WithinIs DEF TransportInv
<1>7. n \in Nat /\ m \in Nat /\ m \in 0 .. Len(ends) /\ n <= m /\ m - n \in Nat /\ m - n <= m
  BY <1>4
<1>8. m < Len(ends)
  <2>1. to - PlaceOf(m) >= Header /\ Header > 0 /\ Header \in Nat
    BY <1>1, <1>5, <1>6, TransportAssumption
  <2>2. PlaceOf(m) # Written
    <3>1. PlaceOf(m) \in Nat /\ to <= Written /\ to \in Nat
      BY <1>4, <1>7
    <3> QED
      BY <1>4, <2>1, <3>1
  <2>3. m # Len(ends)
    BY <1>16, <2>2
  <2>4. m <= Len(ends) /\ m \in Nat /\ Len(ends) \in Nat
    BY <1>7, <1>17
  <2> QED
    BY <2>3, <2>4
<1>9. \A f \in DOMAIN ends : Start(f) = PlaceOf(m) <=> f = m + 1
  <2>1. ASSUME NEW f \in DOMAIN ends
        PROVE  f - 1 \in 0 .. Len(ends) /\ Start(f) = PlaceOf(f - 1)
    <3>1. f \in Nat /\ f - 1 \in 0 .. Len(ends) /\ ((f - 1 = 0) <=> (f = 1))
      BY <1>17
    <3> QED
      BY <3>1 DEF Start, PlaceOf
  <2>2. \A f \in 0 .. Len(ends) : PlaceOf(f) = PlaceOf(m) => f = m
    BY <1>7, FramesCounted DEF TransportInv
  <2>3. \A f \in Nat : f - 1 = m <=> f = m + 1
    BY <1>7
  <2>4. \A f \in DOMAIN ends : f \in Nat
    BY <1>4
  <2> QED
    BY <2>1, <2>2, <2>3, <2>4
<1>10. awaited' = m + 1 /\ m + 1 \in DOMAIN ends
  <2>1. m + 1 \in DOMAIN ends
    BY <1>4, <1>7, <1>8
  <2>2. awaited' = CHOOSE f \in DOMAIN ends : Start(f) = PlaceOf(m)
    BY <1>1, <1>5, <1>6
  <2> QED
    BY <1>9, <2>1, <2>2
<1>11. messages' = [i \in 1 .. (m - n) |-> n + i] /\ messages' \in Seq(Nat) /\ Len(messages') = m - n
  <2>1. messages' = [i \in 1 .. (m - n) |-> n + i]
    BY <1>1, <1>5, <1>6
  <2>2. m - n \in Nat /\ \A i \in 1 .. (m - n) : n + i \in Nat
    BY <1>4, <1>7
  <2> QED
    BY <2>1, <2>2
<1>12. Told' = n
  <2>1. Told' = awaited' - Len(messages') - 1
    BY <1>1 DEF Told
  <2> QED
    BY <1>7, <1>10, <1>11, <2>1
<1>13. TransportType'
  <2>1. m + 1 \in Nat
    BY <1>7
  <2> QED
    BY <1>1, <1>2, <1>10, <1>11, <2>1 DEF TransportInv, TransportType
<1>14. PlaceInv'
  <2>1. Len(messages') < awaited'
    BY <1>4, <1>7, <1>10, <1>11
  <2> QED
    BY <1>1, <1>10, <1>11, <1>12, <2>1 DEF PlaceInv
<1>15. DeliveredInv'
  BY <1>1, <1>3, <1>12, NothingSent
<1> QED
  BY <1>2, <1>13, <1>14, <1>15 DEF TransportInv

\* The messages found, with the one that is waited for, are the next frames.
LEMMA LastFrames ==
  ASSUME TransportInv, pc = "receiving"
  PROVE  \E n, m \in Nat :
           /\ n < m /\ n = Told /\ m = awaited
           /\ Append(messages, awaited) = [i \in 1 .. (m - n) |-> n + i]
<1>3. /\ awaited \in DOMAIN ends /\ Len(messages) < awaited
      /\ messages = [i \in 1 .. Len(messages) |-> Told + i]
  BY DEF TransportInv, PlaceInv
<1>5. /\ messages \in Seq(Nat) /\ Len(messages) \in Nat /\ awaited \in Nat
      /\ Told = awaited - Len(messages) - 1
  BY DEF TransportInv, TransportType, Told
<1>7. PICK n \in Nat : n = Told
  BY <1>3, <1>5
<1>8. PICK m \in Nat : m = awaited
  BY <1>5
<1>9. n < m /\ Len(messages) = (m - n) - 1 /\ m - n \in Nat
  BY <1>3, <1>5, <1>7, <1>8
<1>10. Append(messages, awaited) = [i \in 1 .. (m - n) |-> n + i]
  <2> DEFINE k == Len(messages)
  <2>1. /\ Append(messages, awaited) \in Seq(Nat) /\ Len(Append(messages, awaited)) = k + 1
        /\ Append(messages, awaited)[k + 1] = awaited
        /\ \A i \in 1 .. k : Append(messages, awaited)[i] = messages[i]
    BY <1>5, SendShape
  <2> HIDE DEF k
  <2>2. k \in Nat /\ k + 1 = m - n /\ messages = [i \in 1 .. k |-> n + i]
    BY <1>3, <1>5, <1>7, <1>9 DEF k
  <2>3. ASSUME NEW i \in 1 .. (m - n) PROVE Append(messages, awaited)[i] = n + i
    <3>1. CASE i = k + 1
      BY <1>8, <2>1, <2>2, <3>1
    <3>2. CASE i # k + 1
      <4>1. i \in 1 .. k
        BY <2>2, <3>2
      <4> QED
        BY <2>1, <2>2, <4>1
    <3> QED
      BY <3>1, <3>2
  <2> DEFINE found == Append(messages, awaited)
  <2>4. found \in Seq(Nat) /\ Len(found) = m - n
    BY <2>1, <2>2
  <2>5. \A i \in 1 .. (m - n) : found[i] = n + i
    BY <2>3
  <2> HIDE DEF found
  <2>6. found = [i \in 1 .. (m - n) |-> found[i]]
    BY <2>4
  <2>7. found = [i \in 1 .. (m - n) |-> n + i]
    BY <2>5, <2>6
  <2> QED
    BY <2>7 DEF found
<1> QED
  BY <1>7, <1>8, <1>9, <1>10

\* The missing bytes have come, or fewer, or more.
LEMMA ReceiveInv ==
  ASSUME TransportInv, ReceiveLast \/ ReceiveMore
  PROVE  TransportInv'
<1>1. /\ pc = "receiving" /\ chunks # <<>>
      /\ handled' = Head(chunks) /\ chunks' = Tail(chunks)
      /\ UNCHANGED <<epoch, ends, subscribed>>
  BY DEF ReceiveLast, ReceiveMore
<1>2. /\ StreamInv' /\ chunks' \in Seq(Nat) /\ handled' \in Nat
  BY <1>1, ChunkTaken
<1>3. /\ awaited \in DOMAIN ends /\ Len(messages) < awaited
      /\ messages = [i \in 1 .. Len(messages) |-> Told + i]
  BY <1>1 DEF TransportInv, PlaceInv
<1>4. Len(ends) \in Nat /\ DOMAIN ends = 1 .. Len(ends)
  BY EndsParts DEF TransportInv
<1>5. /\ messages \in Seq(Nat) /\ Len(messages) \in Nat /\ awaited \in Nat
      /\ Told = awaited - Len(messages) - 1
  BY <1>1 DEF TransportInv, TransportType, Told
<1>6. CASE ReceiveLast
  <2>1. /\ handled' = ends[awaited] /\ Deliver(Split(Append(messages, awaited)))
        /\ pc' = "idle" /\ messages' = <<>> /\ awaited' = 0
    BY <1>1, <1>6 DEF ReceiveLast
  <2>2. PICK n \in Nat : n = Told
    BY <1>3, <1>5
  <2>3. PICK m \in Nat : m = awaited
    BY <1>5
  <2>4. n < m /\ Len(messages) = (m - n) - 1 /\ m - n \in Nat
    BY <1>3, <1>5, <2>2, <2>3
  <2>5. Append(messages, awaited) = [i \in 1 .. (m - n) |-> n + i]
    BY <1>1, <1>5, <2>2, <2>3, LastFrames
  <2>6. m \in 0 .. Len(ends) /\ handled' = PlaceOf(m)
    BY <1>3, <1>4, <2>1, <2>3 DEF PlaceOf
  <2>7. Told' = m
    <3>1. FramesUpTo(PlaceOf(m)) = m
      BY <2>6, FramesCounted DEF TransportInv
    <3> QED
      BY <1>1, <2>1, <2>6, <3>1, SameEnds DEF Told
  <2>8. delivered' \in Seq(Nat \X Nat) /\ DeliveredInv'
    BY <1>1, <2>1, <2>2, <2>4, <2>5, <2>7, DeliverNext
  <2>9. TransportType'
    BY <1>1, <1>2, <2>1, <2>8 DEF TransportInv, TransportType
  <2>10. PlaceInv'
    <3>1. handled' = PlaceOf(m)' /\ m \in 0 .. Len(ends')
      BY <1>1, <2>6, SameEnds
    <3> QED
      BY <2>1, <3>1 DEF PlaceInv
  <2> QED
    BY <1>2, <2>8, <2>9, <2>10 DEF TransportInv
<1>7. CASE ReceiveMore
  <2>1. /\ UNCHANGED <<pc, messages, awaited, delivered>>
        /\ "unsubscribed" \in lapses => "unsubscribed" \in lapses'
    BY <1>7 DEF ReceiveMore
  <2>2. Told' = Told
    BY <1>1, <2>1 DEF Told
  <2>3. PlaceInv'
    BY <1>1, <1>3, <2>1, <2>2 DEF PlaceInv
  <2>4. DeliveredInv'
    BY <1>1, <2>1, <2>2, NothingSent
  <2>5. TransportType'
    BY <1>1, <1>2, <2>1 DEF TransportInv, TransportType
  <2> QED
    BY <1>2, <2>3, <2>4, <2>5 DEF TransportInv
<1> QED
  BY <1>6, <1>7

\* The process dies on a length that was cut.
LEMMA ShortInv ==
  ASSUME TransportInv, HandleShort
  PROVE  TransportInv'
<1>1. /\ pc = "idle" /\ pc' = "down" /\ lapses' = lapses \cup {"split_header"}
      /\ UNCHANGED <<epoch, ends, chunks, handled, messages, awaited, delivered>>
  BY DEF HandleShort
<1>2. Told' = Told
  BY <1>1 DEF Told, FramesUpTo
<1>3. PlaceInv'
  <2>1. \A n : PlaceOf(n)' = PlaceOf(n)
    BY <1>1, SameEnds
  <2> QED
    BY <1>1, <2>1 DEF TransportInv, PlaceInv
<1>4. DeliveredInv'
  BY <1>1, <1>2, NothingSent
<1>5. TransportType'
  BY <1>1 DEF TransportInv, TransportType
<1>6. StreamInv'
  <2>1. \A place, n : Counts(place, n)' <=> Counts(place, n)
    BY <1>1 DEF Counts
  <2>2. Written' = Written
    BY <1>1, SameEnds
  <2> QED
    BY <1>1, <2>1, <2>2 DEF TransportInv, StreamInv
<1> QED
  BY <1>3, <1>4, <1>5, <1>6 DEF TransportInv

\* The process dies on a message that it cannot decode.
LEMMA RaisesInv ==
  ASSUME TransportInv, HandleWholeRaises \/ ReceiveLastRaises
  PROVE  TransportInv'
<1>1. /\ pc # "down" /\ pc' = "down"
      /\ UNCHANGED <<epoch, ends, chunks, handled, messages, awaited>>
  BY DEF HandleWholeRaises, ReceiveLastRaises, DecodeRaises
<1>2. delivered' \in Seq(Nat \X Nat) /\ DeliveredInv'
  <2>1. CASE HandleWholeRaises
    <3>1. PICK n \in Nat, m \in Nat :
            n < m /\ n = Told /\ Within(handled, Head(chunks)) = [i \in 1 .. (m - n) |-> n + i]
      BY <2>1, WholeFrames DEF HandleWholeRaises
    <3> QED
      BY <1>1, <2>1, <3>1, RaisesDelivers DEF HandleWholeRaises
  <2>2. CASE ReceiveLastRaises
    <3>1. PICK n \in Nat, m \in Nat :
            /\ n < m /\ n = Told /\ m = awaited
            /\ Append(messages, awaited) = [i \in 1 .. (m - n) |-> n + i]
      BY <2>2, LastFrames DEF ReceiveLastRaises
    <3> QED
      BY <1>1, <2>2, <3>1, RaisesDelivers DEF ReceiveLastRaises
  <2> QED
    BY <2>1, <2>2 DEF HandleWholeRaises, ReceiveLastRaises
<1>3. PlaceInv'
  BY <1>1 DEF PlaceInv
<1>5. TransportType'
  BY <1>1, <1>2 DEF TransportInv, TransportType
<1>6. StreamInv'
  <2>1. \A place, n : Counts(place, n)' <=> Counts(place, n)
    BY <1>1 DEF Counts
  <2>2. Written' = Written
    BY <1>1, SameEnds
  <2> QED
    BY <1>1, <2>1, <2>2 DEF TransportInv, StreamInv
<1> QED
  BY <1>2, <1>3, <1>5, <1>6 DEF TransportInv

\* A new program begins a new stream; what was sent was sent before.
LEMMA RestartInv ==
  ASSUME TransportInv, Restart
  PROVE  TransportInv'
<1>1. /\ epoch' = epoch + 1 /\ ends' = <<>> /\ chunks' = <<>> /\ handled' = 0
      /\ pc' = "idle" /\ messages' = <<>> /\ awaited' = 0
      /\ UNCHANGED <<delivered, lapses>>
  BY DEF Restart
<1>2. epoch \in Nat /\ delivered \in Seq(Nat \X Nat)
  BY DEF TransportInv, TransportType
<1>3. TransportType'
  BY <1>1, <1>2 DEF TransportType
<1>4. Len(ends') = 0 /\ DOMAIN ends' = {} /\ Written' = 0 /\ DOMAIN chunks' = {}
  BY <1>1 DEF Written
<1>5. StreamInv'
  <2>1. \A place \in 0 .. Written' : Counts(place, 0)'
    BY <1>4 DEF Counts
  <2> QED
    BY <1>1, <1>4, <2>1 DEF StreamInv
<1>6. Told' = 0
  <2>1. FramesUpTo(handled)' = CountUpTo(ends', handled')
    BY DEF FramesUpTo, CountUpTo
  <2>2. CountUpTo(ends', handled') = 0
    <3>1. ends' \in Seq(Nat) /\ 0 \in 0 .. Len(ends')
      BY <1>1, <1>4
    <3> QED
      BY <1>4, <3>1, CountIs
  <2> QED
    BY <1>1, <2>1, <2>2 DEF Told
<1>7. PlaceInv'
  BY <1>1, <1>4 DEF PlaceInv, PlaceOf
<1>8. DeliveredInv'
  <2>1. OnceAndInOrder'
    BY <1>1 DEF TransportInv, DeliveredInv, OnceAndInOrder
  <2>2. ASSUME NEW i \in DOMAIN delivered
        PROVE  delivered[i][1] <= epoch' /\ delivered[i][1] # epoch'
    <3>1. delivered[i][1] <= epoch /\ delivered[i][1] \in Nat
      BY <1>2 DEF TransportInv, DeliveredInv
    <3>2. epoch \in Nat /\ epoch' = epoch + 1
      BY <1>1, <1>2
    <3>3. \A x, y \in Nat : x <= y => x <= y + 1 /\ x # y + 1
      OBVIOUS
    <3> QED
      BY <3>1, <3>2, <3>3
  <2> QED
    BY <1>1, <1>6, <2>1, <2>2 DEF DeliveredInv
<1> QED
  BY <1>3, <1>5, <1>7, <1>8 DEF TransportInv

LEMMA NextTransportInv ==
  TransportInv /\ [Libp2pNext]_libp2pVars => TransportInv'
<1> SUFFICES ASSUME TransportInv, [Libp2pNext]_libp2pVars PROVE TransportInv'
  OBVIOUS
<1>1. CASE TransportNext
  BY <1>1, WriteInv, PassInv, FramesInv, PartInv, ShortInv, ReceiveInv, RaisesInv, RestartInv
  DEF TransportNext, Process
<1>2. CASE UNCHANGED transportVars
  <2>1. UNCHANGED <<epoch, ends, chunks, handled, pc, messages, awaited, delivered, lapses>>
    BY <1>2 DEF transportVars, processVars
  <2>2. Told' = Told /\ TransportType'
    BY <2>1 DEF Told, FramesUpTo, TransportInv, TransportType
  <2>3. \A n : PlaceOf(n)' = PlaceOf(n) /\ Written' = Written
    BY <2>1, SameEnds
  <2>4. \A place, n : Counts(place, n)' <=> Counts(place, n)
    BY <2>1 DEF Counts
  <2>5. StreamInv'
    BY <2>1, <2>3, <2>4 DEF TransportInv, StreamInv
  <2>6. PlaceInv'
    BY <2>1, <2>2, <2>3 DEF TransportInv, PlaceInv
  <2>7. DeliveredInv'
    BY <2>1, <2>2, NothingSent
  <2> QED
    BY <2>2, <2>5, <2>6, <2>7 DEF TransportInv
<1>3. TransportNext \/ UNCHANGED transportVars
  BY DEF Libp2pNext, Broadcast, HandleBroadcast, ReadMessage, ReadLength, ReadBody, libp2pVars
<1> QED
  BY <1>1, <1>2, <1>3

\* For any frames, however the port cuts them, and any number of runs of the program:
\* between two chunks the process stands at the end of a frame, and P2P has got every
\* frame up to there unless it was not subscribed.
THEOREM NoFrameIsSkipped == Libp2pSpec => []NothingSkipped
<1>1. Libp2pInit => TransportInv
  BY InitTransportInv DEF Libp2pInit
<1>2. TransportInv /\ [Libp2pNext]_libp2pVars => TransportInv'
  BY NextTransportInv
<1>3. ASSUME TransportInv PROVE NothingSkipped
  <2>1. SUFFICES ASSUME pc = "idle"
                 PROVE  /\ handled = 0 \/ \E f \in DOMAIN ends : ends[f] = handled
                        /\ "unsubscribed" \notin lapses =>
                             \A f \in DOMAIN ends : ends[f] <= handled =>
                               \E i \in DOMAIN delivered : delivered[i] = <<epoch, f>>
    BY DEF NothingSkipped
  <2>2. /\ Told \in 0 .. Len(ends) /\ handled = PlaceOf(Told)
        /\ Len(ends) \in Nat /\ DOMAIN ends = 1 .. Len(ends)
        /\ Counts(PlaceOf(Told), Told)
    BY <1>3, <2>1, StandsAt, EndsParts, FramesCounted DEF TransportInv
  <2>3. handled = 0 \/ \E f \in DOMAIN ends : ends[f] = handled
    <3>1. CASE Told = 0
      BY <2>2, <3>1 DEF PlaceOf
    <3>2. CASE Told # 0
      <4>1. Told \in DOMAIN ends
        BY <2>2, <3>2
      <4> QED
        BY <2>2, <3>2, <4>1 DEF PlaceOf
    <3> QED
      BY <3>1, <3>2
  <2>4. \A f \in DOMAIN ends : ends[f] <= handled => f \in 1 .. Told
    BY <2>2 DEF Counts
  <2>5. pc # "down"
    BY <2>1
  <2> QED
    BY <1>3, <2>3, <2>4, <2>5 DEF TransportInv, DeliveredInv
<1> QED
  BY <1>1, <1>2, <1>3, PTL DEF Libp2pSpec

\* P2P gets nothing twice, and the only thing that overtakes others is the last
\* message of a chunk.
THEOREM OnceAndAlmostInOrder == Libp2pSpec => []OnceAndInOrder
<1>1. Libp2pInit => TransportInv
  BY InitTransportInv DEF Libp2pInit
<1>2. TransportInv /\ [Libp2pNext]_libp2pVars => TransportInv'
  BY NextTransportInv
<1>3. TransportInv => OnceAndInOrder
  BY DEF TransportInv, DeliveredInv
<1> QED
  BY <1>1, <1>2, <1>3, PTL DEF Libp2pSpec
=============================================================================
