------------------------------- MODULE Libp2p -------------------------------
(***************************************************************************)
(* The libp2p transport: the Go program writes the messages of other nodes *)
(* to its standard output, each behind its length; the port hands the      *)
(* bytes to the Libp2p process in chunks cut anywhere; the process finds   *)
(* the messages and sends them to its subscriber, P2P.  Libp2pSend is the  *)
(* other direction.                                                        *)
(*                                                                         *)
(* Bytes are counted, not kept: a frame is where it ends in the stream, a  *)
(* chunk where it ends.  Every frame starts where the one before it ends.  *)
(* A frame is a message with a type, which need not be one that decode     *)
(* takes: peers are free to send what they like.  What is only printed     *)
(* (log:, started, a message without a type) is left out.                  *)
(***************************************************************************)
EXTENDS Integers, Sequences, SequencesExt

CONSTANTS
  Header,     \* bytes of the length in front of a message (4)
  Sizes,      \* sizes of messages
  MaxFrames,  \* bound on the frames of one run of the program
  MaxEpochs   \* bound on the runs of the program

ASSUME TransportAssumption ==
  /\ Header \in Nat \ {0} /\ Sizes \subseteq Nat \ {0}
  /\ MaxFrames \in Nat /\ MaxEpochs \in Nat

VARIABLES
  epoch,      \* which run of the program this is
  ends,       \* where each frame the program has written ends
  malformed,  \* the frames among them that Messages.decode raises on
  chunks,     \* where each chunk in the mailbox ends
  handled,    \* how far the process has taken the stream
  pc,         \* "idle", "receiving" in continue_receiving, or "down"
  messages,   \* split_messages: the messages found so far
  awaited,    \* continue_receiving: the frame it waits for the end of
  subscribed, \* whether P2P is among the subscribers
  delivered,  \* what P2P was sent
  lapses      \* history: chunks that were cut badly, messages for nobody or
              \* that nobody can read

processVars == <<handled, pc, messages, awaited>>
transportVars ==
  <<epoch, ends, malformed, chunks, processVars, subscribed, delivered, lapses>>

-----------------------------------------------------------------------------
Written == IF ends = <<>> THEN 0 ELSE Last(ends)
Start(f) == IF f = 1 THEN 0 ELSE ends[f - 1]

\* How far the port has read.
Taken == IF chunks = <<>> THEN handled ELSE Last(chunks)

\* How many frames end up to a place of the stream
FramesUpTo(place) ==
  CHOOSE n \in 0 .. Len(ends) : \A f \in DOMAIN ends : ends[f] <= place <=> f <= n

\* The frames that lie between two places, the first of which ends a frame.
Within(from, to) ==
  [i \in 1 .. (FramesUpTo(to) - FramesUpTo(from)) |-> FramesUpTo(from) + i]

\* Where the first incomplete frame behind `from' begins in a stream up to `to'.
Rest(from, to) ==
  LET whole == Within(from, to)
  IN  IF whole = <<>> THEN from ELSE ends[Last(whole)]

\* Mutant of Split: the message that ends with the data is forgotten.
Split_DropsLast(found) == Front(found)

\* Mutant of Split: every message is put in front of those before it.
Split_Reverses(found) == Reverse(found)

\* split_messages: a message that ends with the data is put in front of those
\* that were found before it.
Split(found) == <<Last(found)>> \o Front(found)

\* What is sent of a list of messages.
Sends(found) == delivered' = delivered \o [i \in DOMAIN found |-> <<epoch, found[i]>>]

\* handle_port_data for every message: each is decoded for the subscribers and sent
\* to them.
Deliver(found) ==
  IF subscribed
  THEN /\ \A i \in DOMAIN found : found[i] \notin malformed
       /\ Sends(found)
       /\ lapses' = lapses
  ELSE /\ delivered' = delivered
       /\ lapses' = lapses \cup {"unsubscribed"}

\* handle_port_data: Messages.decode raises, and the process dies with its port, the
\* rest of the messages and its subscribers.
DecodeRaises(found) ==
  /\ subscribed
  /\ \E i \in DOMAIN found :
       /\ found[i] \in malformed
       /\ \A j \in 1 .. (i - 1) : found[j] \notin malformed
       /\ Sends(SubSeq(found, 1, i - 1))
  /\ pc' = "down"
  /\ lapses' = lapses \cup {"undecodable"}
  /\ UNCHANGED <<epoch, ends, malformed, chunks, handled, messages, awaited,
                 subscribed>>

-----------------------------------------------------------------------------
TransportInit ==
  /\ epoch = 1 /\ ends = <<>> /\ malformed = {} /\ chunks = <<>> /\ handled = 0
  /\ pc = "idle" /\ messages = <<>> /\ awaited = 0
  /\ subscribed = FALSE /\ delivered = <<>> /\ lapses = {}

\* receiveMessages and writeMessage in the Go program.
WriteMessage ==
  /\ pc # "down" /\ Len(ends) < MaxFrames
  /\ \E size \in Sizes : ends' = Append(ends, Written + Header + size)
  /\ malformed' \in {malformed, malformed \cup {Len(ends')}}
  /\ UNCHANGED <<epoch, chunks, processVars, subscribed, delivered, lapses>>

\* The port reads what is there, up to some byte.
PortPasses ==
  /\ pc # "down"
  /\ \E to \in (Taken + 1) .. Written : chunks' = Append(chunks, to)
  /\ UNCHANGED <<epoch, ends, malformed, processVars, subscribed, delivered, lapses>>

\* P2P.init: transport().subscribe(self()), at its start or restart.
Subscribe ==
  /\ pc = "idle" /\ ~subscribed
  /\ subscribed' = TRUE
  /\ UNCHANGED <<epoch, ends, malformed, chunks, processVars, delivered, lapses>>

\* handle_info({_port, {:data, data}}): the data ends with a frame.
HandleWhole ==
  /\ pc = "idle" /\ chunks # <<>>
  /\ Rest(handled, Head(chunks)) = Head(chunks)
  /\ Deliver(Split(Within(handled, Head(chunks))))
  /\ handled' = Head(chunks) /\ chunks' = Tail(chunks)
  /\ UNCHANGED <<epoch, ends, malformed, pc, messages, awaited, subscribed>>

\* ... and holds a message that cannot be decoded.
HandleWholeRaises ==
  /\ pc = "idle" /\ chunks # <<>>
  /\ Rest(handled, Head(chunks)) = Head(chunks)
  /\ DecodeRaises(Split(Within(handled, Head(chunks))))

\* ... it ends inside a message: split_messages goes on to continue_receiving.
HandlePart ==
  /\ pc = "idle" /\ chunks # <<>>
  /\ Head(chunks) - Rest(handled, Head(chunks)) >= Header
  /\ messages' = Within(handled, Head(chunks))
  /\ awaited' = CHOOSE f \in DOMAIN ends : Start(f) = Rest(handled, Head(chunks))
  /\ pc' = "receiving"
  /\ handled' = Head(chunks) /\ chunks' = Tail(chunks)
  /\ UNCHANGED <<epoch, ends, malformed, subscribed, delivered, lapses>>

\* ... or inside a length: no clause of split_messages matches and the process
\* dies, with its port and with the messages in front.
HandleShort ==
  /\ pc = "idle" /\ chunks # <<>>
  /\ Head(chunks) - Rest(handled, Head(chunks)) \in 1 .. (Header - 1)
  /\ pc' = "down"
  /\ lapses' = lapses \cup {"split_header"}
  /\ UNCHANGED <<epoch, ends, malformed, chunks, handled, messages, awaited,
                 subscribed, delivered>>

\* Mutant of ReceiveLast: the length that is waited for lacks the header.
ReceiveLast_NoHeader ==
  /\ pc = "receiving" /\ chunks # <<>>
  /\ Head(chunks) = ends[awaited] - Header
  /\ Deliver(Split(Append(messages, awaited)))
  /\ pc' = "idle" /\ messages' = <<>> /\ awaited' = 0
  /\ handled' = Head(chunks) /\ chunks' = Tail(chunks)
  /\ UNCHANGED <<epoch, ends, malformed, subscribed>>

\* continue_receiving: exactly the bytes that are missing have come.
ReceiveLast ==
  /\ pc = "receiving" /\ chunks # <<>>
  /\ Head(chunks) = ends[awaited]
  /\ Deliver(Split(Append(messages, awaited)))
  /\ pc' = "idle" /\ messages' = <<>> /\ awaited' = 0
  /\ handled' = Head(chunks) /\ chunks' = Tail(chunks)
  /\ UNCHANGED <<epoch, ends, malformed, subscribed>>

\* ... and one of the messages cannot be decoded.
ReceiveLastRaises ==
  /\ pc = "receiving" /\ chunks # <<>>
  /\ Head(chunks) = ends[awaited]
  /\ DecodeRaises(Split(Append(messages, awaited)))

\* continue_receiving: fewer bytes, or more, have come.  It goes on waiting for a
\* total that is exact.
ReceiveMore ==
  /\ pc = "receiving" /\ chunks # <<>>
  /\ Head(chunks) # ends[awaited]
  /\ handled' = Head(chunks) /\ chunks' = Tail(chunks)
  /\ lapses' = lapses \cup
       (IF Head(chunks) > ends[awaited] THEN {"overshoot"} ELSE {})
  /\ UNCHANGED <<epoch, ends, malformed, pc, messages, awaited, subscribed, delivered>>

\* The supervisor starts the process again, with a new program and without
\* subscribers.
Restart ==
  /\ pc = "down" /\ epoch < MaxEpochs
  /\ epoch' = epoch + 1
  /\ ends' = <<>> /\ malformed' = {} /\ chunks' = <<>> /\ handled' = 0
  /\ pc' = "idle" /\ messages' = <<>> /\ awaited' = 0 /\ subscribed' = FALSE
  /\ UNCHANGED <<delivered, lapses>>

Process ==
  \/ HandleWhole \/ HandleWholeRaises \/ HandlePart \/ HandleShort
  \/ ReceiveLast \/ ReceiveLastRaises \/ ReceiveMore \/ Restart

TransportNext == WriteMessage \/ PortPasses \/ Subscribe \/ Process

-----------------------------------------------------------------------------
(* Properties *)

\* The process never loses its place: between two chunks of a stream that it has
\* not given up, it stands at the end of a frame, and P2P has got every frame up to
\* there, unless there was a time when it was not subscribed.
NothingSkipped ==
  pc = "idle" =>
    /\ handled = 0 \/ \E f \in DOMAIN ends : ends[f] = handled
    /\ "unsubscribed" \notin lapses =>
         \A f \in DOMAIN ends :
           ends[f] <= handled => \E i \in DOMAIN delivered : delivered[i] = <<epoch, f>>

\* P2P gets no message twice, and a message that overtakes others overtakes a run
\* of messages that follow it in the order they were written: the last message of
\* a chunk comes first, and that is all the reordering there is.
OnceAndInOrder ==
  \A i, j \in DOMAIN delivered :
    i < j =>
      /\ delivered[i] # delivered[j]
      /\ delivered[i][1] <= delivered[j][1]
      /\ delivered[i][1] = delivered[j][1] /\ delivered[i][2] > delivered[j][2] =>
           \A m \in (i + 1) .. j :
             delivered[m] = <<delivered[j][1], delivered[j][2] - (j - m)>>

\* Whatever is written arrives, however it is cut, unless a chunk ended inside a
\* length, went beyond the message that was waited for, or nobody was subscribed,
\* or some message, not necessarily this one, could not be decoded.
MessagesArrive ==
  \A f \in 1 .. MaxFrames :
    Len(ends) >= f ~>
      \/ \E i \in DOMAIN delivered : delivered[i][2] = f
      \/ lapses \cap {"split_header", "overshoot", "unsubscribed", "undecodable"} # {}
=============================================================================
