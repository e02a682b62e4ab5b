----------------------------- MODULE Hashfactor -----------------------------
(***************************************************************************)
(* One proof of work: Hashfactor.run starts the program and waits for its  *)
(* answer or for :stop; the program searches in one thread while another   *)
(* one watches for the end of the input; every node checks the answer with *)
(* code of its own, in another language.                                   *)
(*                                                                         *)
(* SHA-256 is any function: a behaviour chooses it.  Numbers are written   *)
(* in digits of base Base, as the code writes them in bytes.               *)
(***************************************************************************)
EXTENDS Integers, Sequences, SequencesExt

CONSTANTS
  Base,         \* values of a byte (256)
  Numerator,    \* NUMERATOR_BYTE_LENGTH (8)
  HashValues,   \* values of SHA-256: sequences of bytes
  Target,       \* hashfactor_target
  MaxNonce      \* bound on the search; it goes on beyond, unrecorded

ASSUME HashfactorAssumption ==
  /\ Base \in Nat \ {0, 1} /\ Numerator \in Nat \ {0} /\ Target \in Nat \ {0}
  /\ MaxNonce \in Nat /\ MaxNonce >= Target
  /\ \A h \in HashValues : h \in Seq(0 .. (Base - 1)) /\ Len(h) >= Numerator

VARIABLES
  sha256,    \* of the hash of the data and the bytes of a nonce
  runner,    \* what Hashfactor.run does: and the nonce that it returns
  inbox,     \* of the runner: "stop", or the answer
  stdin,     \* of the program: "line", "empty" or "closed"
  searcher,  \* the program's main thread
  start,     \* the random nonce that the search began with
  nonce,     \* of the search
  watcher    \* the thread of exit_on_close: "none", "reading" or "done"

hashfactorVars == <<sha256, runner, inbox, stdin, searcher, start, nonce, watcher>>

-----------------------------------------------------------------------------
Nonces == 0 .. MaxNonce

\* BigUint::to_bytes_le, and :binary.encode_unsigned(_, :little): no digits in
\* vain, but one for zero.
ToBytesLe[n \in Nat] ==
  IF n < Base THEN <<n>> ELSE <<n % Base>> \o ToBytesLe[n \div Base]

\* BigUint::from_bytes_le, and :binary.decode_unsigned(_, :little)
FromBytesLe(bytes) == FoldRight(LAMBDA b, n : b + Base * n, bytes, 0)

FirstBytes(hash) == SubSeq(hash, 1, Numerator)

\* Mutant of IsFactor: the target itself divides.
IsFactor_Target(n) == FromBytesLe(FirstBytes(sha256[ToBytesLe[n]])) % Target = 0

\* The program's test: hash_with_nonce, first_bytes_as_u64, is_factor_of
IsFactor(n) == FromBytesLe(FirstBytes(sha256[ToBytesLe[n]])) % (Target + 1) = 0

\* The test of the nodes: Hashfactor.valid_nonce?
ValidNonce(n) ==
  LET numerator == FromBytesLe(FirstBytes(sha256[ToBytesLe[n]]))
  IN  numerator % (Target + 1) = 0

HashfactorInit ==
  /\ sha256 \in [{ToBytesLe[n] : n \in Nonces} -> HashValues]
  /\ runner = [at |-> "idle", nonce |-> 0] /\ inbox = <<>>
  /\ stdin = "empty" /\ searcher = "ended" /\ start = 0 /\ nonce = 0
  /\ watcher = "none"

-----------------------------------------------------------------------------
(* Hashfactor.run *)

\* The port is opened and the data sent to it.
RunHashfactor ==
  /\ runner.at = "idle"
  /\ runner' = [runner EXCEPT !.at = "waiting"]
  /\ stdin' = "line" /\ searcher' = "reading"
  /\ UNCHANGED <<sha256, inbox, start, nonce, watcher>>

\* Another process stops the miner.
SendStop ==
  /\ runner.at = "waiting" /\ "stop" \notin {m.what : m \in ToSet(inbox)}
  /\ inbox' = Append(inbox, [what |-> "stop"])
  /\ UNCHANGED <<sha256, runner, stdin, searcher, start, nonce, watcher>>

ReceiveNonce ==
  /\ runner.at = "waiting" /\ inbox # <<>> /\ Head(inbox).what = "data"
  /\ runner' = [at |-> "answered", nonce |-> Head(inbox).nonce]
  /\ inbox' = Tail(inbox)
  /\ UNCHANGED <<sha256, stdin, searcher, start, nonce, watcher>>

\* :stop: the port is closed.
ReceiveStop ==
  /\ runner.at = "waiting" /\ inbox # <<>> /\ Head(inbox).what = "stop"
  /\ runner' = [runner EXCEPT !.at = "stopped"] /\ inbox' = Tail(inbox) /\ stdin' = "closed"
  /\ UNCHANGED <<sha256, searcher, start, nonce, watcher>>

\* The runner is killed, which closes its port.
RunnerDies ==
  /\ runner.at = "waiting"
  /\ runner' = [runner EXCEPT !.at = "killed"] /\ stdin' = "closed"
  /\ UNCHANGED <<sha256, inbox, searcher, start, nonce, watcher>>

-----------------------------------------------------------------------------
(* The program *)

Running == searcher # "ended"

\* main: the line is read, then exit_on_close starts its thread, then the search
\* begins somewhere below the target.  The end of the input is an empty line.
BeginSearch ==
  /\ searcher = "reading"
  /\ watcher' = "reading"
  /\ start' \in 0 .. (Target - 1) /\ nonce' = start'
  /\ stdin' = IF stdin = "line" THEN "empty" ELSE stdin
  /\ searcher' = "searching"
  /\ UNCHANGED <<sha256, runner, inbox>>

\* One turn of the loop
NextNonce ==
  /\ searcher = "searching"
  /\ IF IsFactor(nonce) THEN searcher' = "found" /\ nonce' = nonce
     ELSE nonce < MaxNonce /\ nonce' = nonce + 1 /\ searcher' = searcher
  /\ UNCHANGED <<sha256, runner, inbox, stdin, start, watcher>>

\* println, which panics when the port is closed; either way main ends.
PrintNonce ==
  /\ searcher = "found"
  /\ inbox' = IF stdin = "closed" THEN inbox
              ELSE Append(inbox, [what |-> "data", nonce |-> nonce])
  /\ searcher' = "ended"
  /\ UNCHANGED <<sha256, runner, stdin, start, nonce, watcher>>

\* Mutant of ExitOnClose: the thread ends, and not the process.
ExitOnClose_Thread ==
  /\ Running /\ watcher = "reading" /\ stdin = "closed"
  /\ watcher' = "done" /\ searcher' = searcher
  /\ UNCHANGED <<sha256, runner, inbox, stdin, start, nonce>>

\* exit_on_close: read_line returns no bytes.
ExitOnClose ==
  /\ Running /\ watcher = "reading" /\ stdin = "closed"
  /\ watcher' = "done" /\ searcher' = "ended"
  /\ UNCHANGED <<sha256, runner, inbox, stdin, start, nonce>>

HashfactorNext ==
  \/ RunHashfactor \/ SendStop \/ ReceiveNonce \/ ReceiveStop \/ RunnerDies
  \/ BeginSearch \/ NextNonce \/ PrintNonce \/ ExitOnClose

\* The two threads of the program run.
HashfactorFairness ==
  /\ WF_hashfactorVars(BeginSearch) /\ WF_hashfactorVars(NextNonce \/ PrintNonce)
  /\ WF_hashfactorVars(ExitOnClose)

HashfactorSpec ==
  HashfactorInit /\ [][HashfactorNext]_hashfactorVars /\ HashfactorFairness

-----------------------------------------------------------------------------
(* Properties *)

\* The nonce that Hashfactor.run returns is one that the check of every node
\* accepts, and the search has passed over no such nonce on its way.
AnswerIsFirstAccepted ==
  runner.at = "answered" =>
    /\ ValidNonce(runner.nonce) /\ runner.nonce >= start
    /\ \A n \in start .. (runner.nonce - 1) : ~ValidNonce(n)

\* A program whose port was closed ends, though it would search for ever: with
\* :stop, with the death of the runner, before and after the data was read.
ClosedProgramEnds == stdin = "closed" ~> ~Running
=============================================================================
