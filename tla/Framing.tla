------------------------------ MODULE Framing ------------------------------
(***************************************************************************)
(* One direction of a connection: messages that one peer writes to the     *)
(* stream, in fragments, and the other one cuts out of it again.  The      *)
(* stream keeps the order of the cells and delivers them in pieces of any  *)
(* length; the writer may stop after any fragment.                         *)
(*                                                                         *)
(* A cell is the smallest piece (the code could also see a part of a       *)
(* field, which is as bad as not to see it).                               *)
(***************************************************************************)
EXTENDS Messages

CONSTANTS
    Sendable,       \* the messages the writer may send, in a sequence
    MaxSent,        \* bound on the number of messages
    MaxFragment     \* MAX_MESSAGE_SIZE, in cells

ASSUME FramingAssumption == MaxSent \in Nat /\ MaxFragment \in Nat \ {0}

\* What the program sends was made by its constructors.
ASSUME SendableAssumption ==
    Len(Sendable) \in Nat /\ \A m \in 1 .. Len(Sendable) : IsMessage(Sendable[m])

VARIABLES
    isConfirmed,    \* the reader has seen an ACK or answered the VERSION
    isUNL,          \* the writer is on the reader's UNL
    sent,           \* history: the messages so far, by their places in Sendable
    outgoing,       \* cells of the last message that are not written yet
    stream,         \* cells on their way
    arrived,        \* cells at the socket of the reader
    closed,         \* the writer is gone
    reading,        \* the message under construction: its header and its cells, or NoMessage
    closeFlag,      \* the reader has seen the end of the stream
    delivered,      \* messages handed to the processor, as they are deserialized
    lost            \* history: a header was peeked before all of it had arrived

NoMessage == [cells |-> <<>>, header |-> MessageHeader(<<>>)]

writer == <<sent, outgoing, closed>>
reader == <<isConfirmed, isUNL, reading, closeFlag, delivered, lost>>
vars == <<writer, stream, arrived, reader>>

\* The reader has answered a VERSION before or not: notifyConnectionVersion.
Init ==
    /\ isConfirmed \in BOOLEAN
    /\ isUNL \in BOOLEAN
    /\ sent = <<>>
    /\ outgoing = <<>>
    /\ stream = <<>>
    /\ arrived = <<>>
    /\ closed = FALSE
    /\ reading = NoMessage
    /\ closeFlag = FALSE
    /\ delivered = <<>>
    /\ lost = FALSE

Least(m, n) == IF m < n THEN m ELSE n

Drop(cells, n) == SubSeq(cells, n + 1, Len(cells))

-----------------------------------------------------------------------------
(* The writer: sendMessage *)

SendMessage(m) ==
    /\ ~ closed /\ outgoing = <<>> /\ Len(sent) < MaxSent
    /\ sent' = Append(sent, m)
    /\ outgoing' = OnWire(Sendable[m])
    /\ UNCHANGED <<closed, stream, arrived, reader>>

SendFragment ==
    LET n == Least(Len(outgoing), MaxFragment)
    IN  /\ ~ closed /\ outgoing # <<>>
        /\ stream' = stream \o SubSeq(outgoing, 1, n)
        /\ outgoing' = Drop(outgoing, n)
        /\ UNCHANGED <<sent, closed, arrived, reader>>

\* The writer stops, with a message half written or not.
Shutdown ==
    /\ ~ closed
    /\ closed' = TRUE
    /\ outgoing' = <<>>
    /\ UNCHANGED <<sent, stream, arrived, reader>>

Arrive(n) ==
    /\ stream # <<>>
    /\ arrived' = arrived \o SubSeq(stream, 1, n)
    /\ stream' = Drop(stream, n)
    /\ UNCHANGED <<writer, reader>>

-----------------------------------------------------------------------------
(* The reader: receiveMessage *)

Ended == closed /\ stream = <<>> /\ arrived = <<>>

\* peekForHeader, and createMessage with what it found.  The buffer of the header
\* is zero where nothing has arrived.  Without the magic number nothing is read.
PeekForHeader ==
    LET header == MessageHeader(arrived)
    IN  /\ reading = NoMessage /\ arrived # <<>> /\ ~ closeFlag
        /\ header.magicNum = Magic
        /\ reading' = [cells |-> <<>>, header |-> header]
        /\ lost' = (lost \/ Len(arrived) < MessageHeaderSize)
        /\ UNCHANGED <<writer, stream, arrived, isConfirmed, isUNL, closeFlag, delivered>>

PeekEnd ==
    /\ reading = NoMessage /\ Ended /\ ~ closeFlag
    /\ closeFlag' = TRUE
    /\ UNCHANGED <<writer, stream, arrived, isConfirmed, isUNL, reading, delivered, lost>>

TotalSize == MessageHeaderSize + reading.header.size

\* Mutant of Incomplete: a message is what the first fragment holds.
IncompleteUntilFirst == reading.cells = <<>>

Incomplete == Len(reading.cells) < TotalSize

\* Mutant of BufferSize: the size of the buffer is not adjusted to what is missing.
BufferSizeFixed == Least(TotalSize, MaxFragment)

\* bufferSize: what is missing, or as much as a fragment holds.
BufferSize == Least(TotalSize - Len(reading.cells), MaxFragment)

\* One pass of the loop.  Recv takes what is there, at most the size of the buffer.
ReceiveFragment ==
    LET n == Least(BufferSize, Len(arrived))
    IN  /\ reading # NoMessage /\ Incomplete /\ arrived # <<>>
        /\ reading' = [reading EXCEPT !.cells = @ \o SubSeq(arrived, 1, n)]
        /\ arrived' = Drop(arrived, n)
        /\ UNCHANGED <<writer, stream, isConfirmed, isUNL, closeFlag, delivered, lost>>

filterMessage(type) ==
    CASE type = ACK -> FALSE
      [] type = VERSION -> ~ isConfirmed
      [] type \in {BLOCKPROPOSAL, TXSETPROPOSAL} -> isConfirmed /\ isUNL
      [] OTHER -> isConfirmed

\* The loop ends with the message or with the stream.  A message that is not
\* complete, or does not fit its check sum, is dropped.
FinishMessage ==
    LET type == reading.header.type
        payload == Drop(reading.cells, MessageHeaderSize)
        checked == checkMessage(reading.header, reading.cells)
    IN  /\ reading # NoMessage
        /\ ~ Incomplete \/ Ended
        /\ reading' = NoMessage
        /\ isConfirmed' = (isConfirmed \/ (checked /\ type = ACK))
        /\ delivered' = IF checked /\ filterMessage(type)
                        THEN Append(delivered, [type |-> type,
                                                content |-> Deserialized(type, payload)])
                        ELSE delivered
        /\ UNCHANGED <<writer, stream, arrived, isUNL, closeFlag, lost>>

Receive ==
    \/ PeekForHeader
    \/ PeekEnd
    \/ ReceiveFragment
    \/ FinishMessage

Next ==
    \/ \E m \in 1 .. Len(Sendable) : SendMessage(m)
    \/ SendFragment
    \/ Shutdown
    \/ \E n \in 1 .. Len(stream) : Arrive(n)
    \/ Receive

Spec == Init /\ [][Next]_vars

\* What was written arrives, a begun message is written to its end unless the
\* writer stops, and the manager reads what has arrived.
FairSpec ==
    /\ Spec
    /\ WF_vars(SendFragment)
    /\ WF_vars(\E n \in 1 .. Len(stream) : Arrive(n))
    /\ WF_vars(Receive)

-----------------------------------------------------------------------------
(* Properties *)

TypeOK ==
    /\ {isConfirmed, isUNL, closed, closeFlag, lost} \subseteq BOOLEAN
    /\ sent \in Seq(1 .. Len(Sendable)) /\ Len(sent) <= MaxSent
    /\ \A cells \in {outgoing, stream, arrived, reading.cells} : cells \in Seq(Nat)
    /\ Len(reading.cells) <= TotalSize
    /\ \A i \in 1 .. Len(delivered) : delivered[i].type \in MessageType \ {ACK}

\* What the reader should make of a message: itself, but for the addresses of an
\* account beyond those that are written.
AsRead(message) ==
    IF message.type = ACCOUNT THEN [message.content EXCEPT !.addresses = Written(@)]
    ELSE message.content

\* What reaches the processor are messages of the writer, whole, in the order in
\* which they were sent and none of them twice, whatever pieces the stream cuts
\* them into, wherever the writer stops and however many messages are dropped.
DeliveredIsSent ==
    /\ \A i \in 1 .. Len(delivered) : delivered[i].content.ok
    /\ \E place \in [1 .. Len(delivered) -> 1 .. Len(sent)] :
        \A i \in 1 .. Len(delivered) :
            /\ i > 1 => place[i - 1] < place[i]
            /\ delivered[i].type = Sendable[sent[place[i]]].type
            /\ delivered[i].content.value = AsRead(Sendable[sent[place[i]]])

\* Between two messages the reader stands at the header of one, unless it once
\* peeked at a header that had not arrived whole: then it takes a payload for a
\* header, finds no magic number in it and reads nothing from this peer any more.
ReaderKeepsStep ==
    reading = NoMessage /\ ~ lost /\ arrived # <<>> => arrived[1] = Magic

\* The messages that pass the filter: all of those of a confirmed peer of the UNL
\* but VERSION and ACK.
Passing == SelectSeq(sent, LAMBDA m : Sendable[m].type \notin {VERSION, ACK})

\* A peer that is confirmed and on the UNL from the beginning is heard: every message
\* that passes the filter arrives, if no header was peeked half and the writer does
\* not stop.
AllArrive ==
    (isConfirmed /\ isUNL) => []<>(lost \/ closed \/ Len(delivered) = Len(Passing))
=============================================================================
