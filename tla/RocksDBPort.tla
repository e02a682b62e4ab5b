----------------------------- MODULE RocksDBPort -----------------------------
(***************************************************************************)
(* The RocksDB server and the program behind its port.  The server handles *)
(* one call at a time and waits for the program's answer in its mailbox,   *)
(* where other calls wait too; its callers give up after five seconds, and *)
(* what they asked for is done nevertheless.  The program opens the        *)
(* database with its first command and keeps it; the program of an earlier *)
(* server keeps it until it has read its input to the end.                 *)
(***************************************************************************)
EXTENDS Integers, Sequences, FiniteSets, SequencesExt

CONSTANTS
  Callers,        \* processes that call get and put
  BlockNumbers, StoreKeys, StoreValues,
  LargeValues,    \* values whose encoding does not fit the output buffer
  MaxCalls,       \* bound on the calls
  MaxPrograms     \* bound on the programs that are started

ASSUME RocksDBPortAssumption ==
  /\ LargeValues \subseteq StoreValues
  /\ MaxCalls \in Nat /\ MaxPrograms \in Nat \ {0}

VARIABLES
  mailbox,    \* of the server: calls and data
  server,     \* what it does, and for which call
  waiting,    \* caller |-> the call that it waits for
  issued,     \* number of calls
  programs,   \* program |-> its input, its output, whether it has the database
  port,       \* the program of the server
  db,         \* what the database holds
  last,       \* history: cell |-> value of the last put that was answered
  pending,    \* history: the puts that were not answered
  split,      \* history: an answer was cut in two
  died,       \* history: the server's program died
  answer      \* the last answer to a get

rocksVars == <<mailbox, server, waiting, issued, programs, port, db,
               last, pending, split, died, answer>>

\* What a get of an absent key answers (the byte 123).
Absent == "absent"
Garbage == "garbage"
Raise == "raise"

\* <<block_number::little-size(64)>> <> key
CellOf(b, k) == <<b, k>>

Cells == BlockNumbers \X StoreKeys

NoRequest == [id |-> 0]
IdleServer == [at |-> "idle", call |-> NoRequest]
FreshProgram == [input |-> <<>>, output |-> <<>>, open |-> FALSE, eof |-> FALSE, up |-> TRUE]

IsCall(m) == m.kind = "call"
Data(what, value) == [kind |-> "data", what |-> what, value |-> value]

RocksInit ==
  /\ mailbox = <<>> /\ server = IdleServer
  /\ waiting = [c \in Callers |-> NoRequest] /\ issued = 0
  /\ programs = [p \in 1..MaxPrograms |-> FreshProgram] /\ port = 1
  /\ db = [c \in Cells |-> Absent]
  /\ last = [c \in Cells |-> Absent] /\ pending = {}
  /\ split = FALSE /\ died = FALSE
  /\ answer = [cell |-> <<>>, value |-> Absent, possible |-> {Absent}]

histVars == <<last, pending, split, died, answer>>

-----------------------------------------------------------------------------
(* Callers *)

GetOrPut(c) ==
  /\ waiting[c] = NoRequest /\ issued < MaxCalls
  /\ \E b \in BlockNumbers, k \in StoreKeys, v \in StoreValues, op \in {"get", "put"} :
       LET call == [kind |-> "call", id |-> issued + 1, from |-> c, op |-> op,
                    cell |-> <<b, k>>, value |-> IF op = "put" THEN v ELSE Absent]
       IN  /\ mailbox' = Append(mailbox, call)
           /\ waiting' = [waiting EXCEPT ![c] = call]
           /\ pending' = IF op = "put" THEN pending \cup {call} ELSE pending
  /\ issued' = issued + 1
  /\ UNCHANGED <<server, programs, port, db, last, split, died, answer>>

\* GenServer.call exits after 5000 ms; the call stays in the mailbox.
TimesOut(c) ==
  /\ waiting[c] # NoRequest
  /\ waiting' = [waiting EXCEPT ![c] = NoRequest]
  /\ UNCHANGED <<mailbox, server, issued, programs, port, db, histVars>>

-----------------------------------------------------------------------------
(* The server *)

\* The command goes to the program; a port whose program is gone takes it, too.
Command(call) ==
  LET command == [op |-> call.op, cell |-> CellOf(call.cell[1], call.cell[2]),
                  value |-> call.value]
  IN  programs' = IF programs[port].up
                  THEN [programs EXCEPT ![port].input = Append(@, command)] ELSE programs

HandleCall ==
  /\ server.at = "idle" /\ mailbox # <<>> /\ IsCall(Head(mailbox))
  /\ Command(Head(mailbox))
  /\ server' = [at |-> Head(mailbox).op, call |-> Head(mailbox)]
  /\ mailbox' = Tail(mailbox)
  /\ UNCHANGED <<waiting, issued, port, db, histVars>>

\* Data that nobody waits for
HandleInfo ==
  /\ server.at = "idle" /\ mailbox # <<>> /\ ~IsCall(Head(mailbox))
  /\ mailbox' = Tail(mailbox)
  /\ UNCHANGED <<server, waiting, issued, programs, port, db, histVars>>

\* The first message of the mailbox that the receive matches is taken out.
FirstData(Fits(_)) ==
  LET found == {i \in DOMAIN mailbox : ~IsCall(mailbox[i]) /\ Fits(mailbox[i])}
  IN  {i \in found : \A j \in found : i <= j}

\* Mutant of ReceiveOk: put does not wait for the program.
ReceiveOk_Not ==
  /\ server.at = "put"
  /\ server' = [server EXCEPT !.at = "sleep"]
  /\ UNCHANGED <<mailbox, waiting, issued, programs, port, db, histVars>>

\* Mutant of ReceiveOk: the answer stays in the mailbox.
ReceiveOk_Leaves ==
  /\ server.at = "put"
  /\ FirstData(LAMBDA m : m.what = "ok") # {}
  /\ server' = [server EXCEPT !.at = "sleep"]
  /\ UNCHANGED <<mailbox, waiting, issued, programs, port, db, histVars>>

\* {_port, {:data, 'ok\n'}}
ReceiveOk ==
  /\ server.at = "put"
  /\ \E i \in FirstData(LAMBDA m : m.what = "ok") : mailbox' = RemoveAt(mailbox, i)
  /\ server' = [server EXCEPT !.at = "sleep"]
  /\ UNCHANGED <<waiting, issued, programs, port, db, histVars>>

Possible(cell) == {last[cell]} \cup {p.value : p \in {q \in pending : q.cell = cell}}

Expected(call) == waiting[call.from] = call

\* A reply to a caller that has given up is dropped.
Reply(call) ==
  /\ server' = IdleServer
  /\ waiting' = IF Expected(call) THEN [waiting EXCEPT ![call.from] = NoRequest] ELSE waiting

\* :timer.sleep(1000) after the put
Sleeps ==
  /\ server.at = "sleep"
  /\ Reply(server.call)
  /\ IF Expected(server.call)
     THEN /\ last' = [last EXCEPT ![server.call.cell] = server.call.value]
          /\ pending' = pending \ {server.call}
     ELSE UNCHANGED <<last, pending>>
  /\ UNCHANGED <<mailbox, issued, programs, port, db, split, died, answer>>

\* Base.decode64!: the first part of an answer may be the whole value without its
\* newline, and the other part the newline.
Decoded(m) ==
  CASE m.what = "whole" -> {m.value}
    [] m.what \in {"first", "joined"} -> {m.value, Garbage, Raise}
    [] OTHER -> {Garbage, Raise}

\* The next server has a program of its own; the earlier one reads to the end of
\* its input.  Callers exit.
NewServer ==
  /\ port < MaxPrograms
  /\ port' = port + 1
  /\ programs' = [programs EXCEPT ![port].eof = TRUE, ![port].output = <<>>]
  /\ mailbox' = <<>> /\ server' = IdleServer
  /\ waiting' = [c \in Callers |-> NoRequest]

ReceiveValue ==
  /\ server.at = "get"
  /\ \E i \in FirstData(LAMBDA m : TRUE) : \E v \in Decoded(mailbox[i]) :
       IF v = Raise THEN NewServer /\ UNCHANGED answer
       ELSE /\ mailbox' = RemoveAt(mailbox, i)
            /\ Reply(server.call)
            /\ answer' = IF Expected(server.call)
                         THEN [cell |-> server.call.cell, value |-> v,
                               possible |-> Possible(server.call.cell)]
                         ELSE answer
            /\ UNCHANGED <<programs, port>>
  /\ UNCHANGED <<issued, db, last, pending, split, died>>

\* The node is restarted.
Restarts ==
  /\ NewServer
  /\ UNCHANGED <<issued, db, histVars>>

-----------------------------------------------------------------------------
(* The programs *)

Started == 1..port

\* Mutant of Opens: an error ends the program.
Opens_Once(p) ==
  /\ programs[p].up /\ ~programs[p].open /\ programs[p].input # <<>>
  /\ programs' = IF \E q \in Started : programs[q].open
                 THEN [programs EXCEPT ![p].up = FALSE] ELSE [programs EXCEPT ![p].open = TRUE]
  /\ UNCHANGED <<mailbox, server, waiting, issued, port, db, histVars>>

\* rocksdb() in the first command: again and again until the lock is free
Opens(p) ==
  /\ programs[p].up /\ ~programs[p].open /\ programs[p].input # <<>>
  /\ \A q \in Started : ~programs[q].open
  /\ programs' = [programs EXCEPT ![p].open = TRUE]
  /\ UNCHANGED <<mailbox, server, waiting, issued, port, db, histVars>>

\* println: a large answer and its newline are written one after the other; on a
\* port that is closed it panics, which ends the program.
Prints(p, what, value) ==
  LET q == [programs[p] EXCEPT !.input = Tail(@)] IN
  IF p # port
  THEN /\ programs' = [programs EXCEPT ![p] = [FreshProgram EXCEPT !.up = FALSE]]
       /\ UNCHANGED split
  ELSE \/ /\ programs' = [programs EXCEPT ![p] = [q EXCEPT !.output = Append(@, Data(what, value))]]
          /\ UNCHANGED split
       \/ /\ value \in LargeValues
          /\ programs' = [programs EXCEPT ![p] =
               [q EXCEPT !.output = @ \o <<Data("first", value), Data("second", value)>>]]
          /\ split' = TRUE

Puts(p) ==
  /\ programs[p].open /\ programs[p].input # <<>>
  /\ Head(programs[p].input).op = "put"
  /\ db' = [db EXCEPT ![Head(programs[p].input).cell] = Head(programs[p].input).value]
  /\ Prints(p, "ok", Absent)
  /\ UNCHANGED <<mailbox, server, waiting, issued, port, last, pending, died, answer>>

Gets(p) ==
  /\ programs[p].open /\ programs[p].input # <<>>
  /\ Head(programs[p].input).op = "get"
  /\ Prints(p, "whole", db[Head(programs[p].input).cell])
  /\ UNCHANGED <<mailbox, server, waiting, issued, port, db, last, pending, died, answer>>

\* What one read of several writes gives: the two parts of an answer are the
\* answer again, any other writes are none.
Joined(out) ==
  CASE Len(out) = 1 -> Head(out)
    [] Len(out) = 2 /\ out[1].what = "first" -> Data("whole", out[1].value)
    [] OTHER -> Data("joined", Last(out).value)

\* The port reads some of what the program has written.
PortReads ==
  /\ \E n \in 1..Len(programs[port].output) :
       /\ mailbox' = Append(mailbox, Joined(SubSeq(programs[port].output, 1, n)))
       /\ programs' = [programs EXCEPT ![port].output = SubSeq(@, n + 1, Len(@))]
  /\ UNCHANGED <<server, waiting, issued, port, db, histVars>>

\* The end of the input ends main.
MainEnds(p) ==
  /\ programs[p].up /\ programs[p].eof /\ programs[p].input = <<>>
  /\ programs' = [programs EXCEPT ![p] = [FreshProgram EXCEPT !.up = FALSE]]
  /\ UNCHANGED <<mailbox, server, waiting, issued, port, db, histVars>>

\* The server is not told: the exit of a port is no error.
RocksProgramDies ==
  /\ programs[port].up
  /\ programs' = [programs EXCEPT ![port] = [FreshProgram EXCEPT !.up = FALSE]]
  /\ died' = TRUE
  /\ UNCHANGED <<mailbox, server, waiting, issued, port, db, last, pending, split, answer>>

-----------------------------------------------------------------------------
ServerStep  == HandleCall \/ HandleInfo \/ ReceiveOk \/ Sleeps \/ ReceiveValue
ProgramStep(p) == Opens(p) \/ Puts(p) \/ Gets(p) \/ MainEnds(p)

RocksNext ==
  \/ \E c \in Callers : GetOrPut(c) \/ TimesOut(c)
  \/ ServerStep \/ Restarts
  \/ \E p \in Started : ProgramStep(p)
  \/ PortReads \/ RocksProgramDies

\* The server, the port and the programs run when they can.
RocksFairness ==
  /\ WF_rocksVars(ServerStep) /\ WF_rocksVars(PortReads)
  /\ \A p \in 1..MaxPrograms : WF_rocksVars(p \in Started /\ ProgramStep(p))

RocksSpec == RocksInit /\ [][RocksNext]_rocksVars /\ RocksFairness

-----------------------------------------------------------------------------
(* Properties *)

\* A put that was answered is in the database, whatever became of other calls, of
\* their callers, of the server and of its programs: a cell holds the value of its
\* last answered put, or of one whose caller never heard of it.
AnsweredPutIsStored == \A c \in Cells : db[c] \in Possible(c)

\* A get answers with what its own cell may hold, even though the calls before
\* it timed out or failed; answers that come in two parts are the exception.
GetReturnsWhatWasPut == split \/ answer.value \in answer.possible

\* As long as its program lives, the server gets an answer to every command, also
\* when the program of an earlier server still has the database.  After an answer
\* in two parts the newline of the first may come in one piece with the ok of the
\* second, which put does not recognise.
ServerComesBack == (server.at # "idle") ~> (server.at = "idle" \/ died \/ split)
=============================================================================
