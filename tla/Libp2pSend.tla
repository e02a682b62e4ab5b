----------------------------- MODULE Libp2pSend -----------------------------
(***************************************************************************)
(* The other direction of the libp2p transport: broadcast casts a message  *)
(* to the Libp2p process, which writes it to the port behind its length    *)
(* when it is not inside continue_receiving; the Go program reads lengths  *)
(* and messages through a buffer and publishes one message a second.  As   *)
(* in Libp2p, a frame is the place where it ends in the stream.            *)
(***************************************************************************)
EXTENDS Libp2p

CONSTANTS MaxCasts   \* bound on the broadcasts

ASSUME SendAssumption == MaxCasts \in Nat

VARIABLES
  casts,      \* broadcasts in the mailbox: their sizes
  asked,      \* number of broadcasts
  sent,       \* the ends of the frames on the program's standard input
  buffered,   \* how far the program's bufio.Reader has read
  consumed,   \* how far readMessage has read
  reader,     \* where readMessage is: "length", "body", or "lost" in the stream
  published,  \* the frames that were published
  missed      \* history: a length was cut, or the process died with broadcasts

sendVars == <<casts, asked, sent, buffered, consumed, reader, published, missed>>

Sent == IF sent = <<>> THEN 0 ELSE Last(sent)

SendInit ==
  /\ casts = <<>> /\ asked = 0 /\ sent = <<>> /\ buffered = 0 /\ consumed = 0
  /\ reader = "length" /\ published = <<>> /\ missed = FALSE

-----------------------------------------------------------------------------
Broadcast ==
  /\ asked < MaxCasts /\ pc # "down"
  /\ \E size \in Sizes : casts' = Append(casts, size)
  /\ asked' = asked + 1
  /\ UNCHANGED <<transportVars, sent, buffered, consumed, reader, published, missed>>

\* handle_cast({:broadcast, struct})
HandleBroadcast ==
  /\ pc = "idle" /\ casts # <<>>
  /\ sent' = Append(sent, Sent + Header + Head(casts))
  /\ casts' = Tail(casts)
  /\ UNCHANGED <<transportVars, asked, buffered, consumed, reader, published, missed>>

\* reader.Read(byteLengthBuf): what the buffer holds, or what one read of the
\* input gives.  Of a length that is cut the program takes the missing bytes for
\* zeros, and its place in the stream is lost.
ReadLength ==
  /\ pc # "down" /\ reader = "length"
  /\ \E to \in IF buffered > consumed THEN {buffered} ELSE (consumed + 1) .. Sent :
       /\ buffered' = to
       /\ IF to - consumed < Header
          THEN reader' = "lost" /\ missed' = TRUE /\ UNCHANGED consumed
          ELSE reader' = "body" /\ consumed' = consumed + Header /\ UNCHANGED missed
  /\ UNCHANGED <<transportVars, casts, asked, sent, published>>

\* The frame whose body is read
Current == Len(published) + 1

\* Mutant of ReadBody: one Read for the message, too.
ReadBody_Once ==
  /\ pc # "down" /\ reader = "body"
  /\ \E to \in IF buffered > consumed THEN {buffered} ELSE (consumed + 1) .. Sent :
       /\ buffered' = to
       /\ consumed' = IF to < sent[Current] THEN to ELSE sent[Current]
  /\ published' = Append(published, consumed') /\ reader' = "length"
  /\ UNCHANGED <<transportVars, casts, asked, sent, missed>>

\* io.ReadFull, then Broadcast and the pause.  The last read of the input may have
\* taken bytes beyond the message.
ReadBody ==
  /\ pc # "down" /\ reader = "body"
  /\ buffered' \in IF buffered >= sent[Current] THEN {buffered} ELSE sent[Current] .. Sent
  /\ consumed' = sent[Current]
  /\ published' = Append(published, sent[Current]) /\ reader' = "length"
  /\ UNCHANGED <<transportVars, casts, asked, sent, missed>>

\* The mailbox goes with the process, and a new program reads a new stream.  The old
\* program does not end: it ignores that its input has, may still publish what is
\* left in it, and goes on publishing empty messages.  Here its frames are missed.
SendRestarts ==
  /\ casts' = <<>> /\ sent' = <<>> /\ buffered' = 0 /\ consumed' = 0
  /\ reader' = "length" /\ published' = <<>> /\ asked' = asked
  /\ missed' = (missed \/ casts # <<>> \/ sent # published)

ReadMessage == ReadLength \/ ReadBody

Libp2pInit == TransportInit /\ SendInit

Libp2pNext ==
  \/ TransportNext /\ IF epoch' # epoch THEN SendRestarts ELSE UNCHANGED sendVars
  \/ Broadcast \/ HandleBroadcast \/ ReadMessage

libp2pVars == <<transportVars, sendVars>>

Libp2pSpec == Libp2pInit /\ [][Libp2pNext]_libp2pVars

\* The port, the process and the program run when they can.
Libp2pFairness ==
  /\ WF_libp2pVars(PortPasses /\ UNCHANGED sendVars)
  /\ WF_libp2pVars(Process /\ IF epoch' # epoch THEN SendRestarts ELSE UNCHANGED sendVars)
  /\ WF_libp2pVars(HandleBroadcast) /\ WF_libp2pVars(ReadMessage)

-----------------------------------------------------------------------------
(* Properties *)

\* Everything that is broadcast is published, frame by frame as it was broadcast,
\* unless the four bytes of a length came in two reads, the process died, of a length
\* cut in two or of a message it cannot decode, or it waits in continue_receiving for
\* a total that is never exact.
BroadcastsGoOut ==
  asked > 0 ~>
    \/ casts = <<>> /\ published = sent
    \/ missed \/ lapses \cap {"split_header", "overshoot", "undecodable"} # {}
=============================================================================
