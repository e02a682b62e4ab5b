---------------------------- MODULE NativeAnswer ----------------------------
(***************************************************************************)
(* How TransactionProcessor reads transaction_processor's answer.  The     *)
(* program prints a line for every log of a contract and a line with its   *)
(* answer; the port hands the bytes over in chunks cut anywhere; a chunk   *)
(* that ends with a newline ends a message, and a message that begins with *)
(* "debug: " is written to the console.  A byte is its place in the        *)
(* output, a line and a chunk are the place where they end.                *)
(***************************************************************************)
EXTENDS Integers, Sequences, FiniteSets, SequencesExt

CONSTANTS
  LineSizes,  \* bytes of a line, with its newline
  MaxLogs     \* bound on the lines of contracts

ASSUME NativeAnswerAssumption == LineSizes \subseteq Nat \ {0} /\ MaxLogs \in Nat

VARIABLES
  lines,     \* what was printed: the end of each line, and whether it is a log
  letters,   \* the mailbox: chunks and :stop
  portAt,    \* how far the port has read
  heard,     \* how far receive_stop_or_message has heard
  begun,     \* where the message that it collects begins
  result,    \* what receive_native returns: "none" yet, "stop" or "answer"
  parsed,    \* the lines that it parses
  cuts       \* history: where the chunks ended

answerVars == <<lines, letters, portAt, heard, begun, result, parsed, cuts>>

Stop == [stop |-> TRUE, to |-> 0]
Part(to) == [stop |-> FALSE, to |-> to]

Printed == IF lines = <<>> THEN 0 ELSE Last(lines).to
Answered == lines # <<>> /\ ~Last(lines).log
Newlines == {lines[i].to : i \in DOMAIN lines}

\* How many lines end up to a place
LinesUpTo(place) ==
  CHOOSE n \in 0 .. Len(lines) : \A i \in DOMAIN lines : lines[i].to <= place <=> i <= n

\* The lines of a message: those that begin behind `from' and end up to `to'.
LinesWithin(from, to) == SubSeq(lines, LinesUpTo(from) + 1, LinesUpTo(to))

AnswerInit ==
  /\ lines = <<>> /\ letters = <<>> /\ portAt = 0 /\ heard = 0 /\ begun = 0
  /\ result = "none" /\ parsed = <<>> /\ cuts = {}

-----------------------------------------------------------------------------
(* The program *)

\* VM::log: println of the contract's message, its newlines escaped
Log ==
  /\ ~Answered /\ Len(lines) < MaxLogs
  /\ \E n \in LineSizes : lines' = Append(lines, [to |-> Printed + n, log |-> TRUE])
  /\ UNCHANGED <<letters, portAt, heard, begun, result, parsed, cuts>>

\* return_completed_transactions: one line; the program ends.
ReturnCompleted ==
  /\ ~Answered
  /\ \E n \in LineSizes : lines' = Append(lines, [to |-> Printed + n, log |-> FALSE])
  /\ UNCHANGED <<letters, portAt, heard, begun, result, parsed, cuts>>

\* The port reads some of what was printed, until it is closed.
PortHandsOver ==
  /\ result # "stop"
  /\ \E to \in (portAt + 1) .. Printed :
       /\ letters' = Append(letters, Part(to)) /\ portAt' = to
       /\ cuts' = cuts \cup {to}
  /\ UNCHANGED <<lines, heard, begun, result, parsed>>

-----------------------------------------------------------------------------
(* The process *)

StopMiner ==
  /\ Stop \notin ToSet(letters)
  /\ result = "none"
  /\ letters' = Append(letters, Stop)
  /\ UNCHANGED <<lines, portAt, heard, begun, result, parsed, cuts>>

HearStop ==
  /\ result = "none" /\ letters # <<>> /\ Head(letters).stop
  /\ result' = "stop" /\ letters' = Tail(letters)
  /\ UNCHANGED <<lines, portAt, heard, begun, parsed, cuts>>

\* Mutant of IsLast: every chunk is a message.
IsLast_Any(to) == TRUE

\* <<List.last(message_part)>> == "\n"
IsLast(to) == to \in Newlines

HearPart ==
  /\ result = "none" /\ letters # <<>> /\ ~Head(letters).stop
  /\ ~IsLast(Head(letters).to)
  /\ heard' = Head(letters).to /\ letters' = Tail(letters)
  /\ UNCHANGED <<lines, portAt, begun, result, parsed, cuts>>

\* The message is complete.  receive_native looks at its beginning.
HearLast ==
  /\ result = "none" /\ letters # <<>> /\ ~Head(letters).stop
  /\ IsLast(Head(letters).to)
  /\ heard' = Head(letters).to /\ begun' = heard' /\ letters' = Tail(letters)
  /\ LET message == LinesWithin(begun, heard')
     IN  IF message # <<>> /\ Head(message).log THEN UNCHANGED <<result, parsed>>
         ELSE result' = "answer" /\ parsed' = message
  /\ UNCHANGED <<lines, portAt, cuts>>

AnswerNext ==
  \/ Log \/ ReturnCompleted \/ PortHandsOver
  \/ StopMiner \/ HearStop \/ HearPart \/ HearLast

AnswerSpec == AnswerInit /\ [][AnswerNext]_answerVars

-----------------------------------------------------------------------------
(* Properties *)

LastLog == Max({0} \cup {l.to : l \in {k \in ToSet(lines) : k.log}})

\* Once the process has heard everything, it has the answer, the whole of it and
\* nothing else, if and only if a chunk ended where the last log ended: an answer
\* that comes in one piece with a log is taken for the log's, and the process waits
\* for another one until it is stopped.
AnswerTakenUnlessMerged ==
  /\ result = "answer" => parsed = <<Last(lines)>> /\ Answered
  /\ Answered /\ heard = Printed /\ result # "stop" =>
       (result = "answer" <=> LastLog \in cuts \cup {0})
=============================================================================
