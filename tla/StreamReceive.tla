--------------------------- MODULE StreamReceive ---------------------------
(***************************************************************************)
(* The receiving side of a stream: QuicStreamBase::Recv for STREAM frames  *)
(* and the reordering buffer QuicStreamRxBuffer.  The peer cuts its byte   *)
(* stream into frames; the network delivers them in any order, and more    *)
(* than once (a retransmission of data that had arrived, or a duplicated   *)
(* packet).                                                                *)
(*                                                                         *)
(* The bytes of the stream are numbered 0, 1, 2, ... and a byte is its     *)
(* number.  FIN, RST_STREAM, STOP_SENDING and MAX_STREAM_DATA frames are   *)
(* left out: no code creates one outside the unit tests.                   *)
(***************************************************************************)
EXTENDS Integers, Sequences, SequencesExt

CONSTANTS StreamBytes,      \* bound: bytes the peer sends on the stream
          FrameSizes,       \* lengths of its STREAM frames
          MaxBuffer,        \* m_rxBuffer's m_maxBuffer
          MaxStreamData,    \* m_maxStreamData
          MaxDataInterval   \* m_maxDataInterval

ASSUME ReceiveAssumption ==
    /\ StreamBytes \in Nat
    /\ FrameSizes \subseteq Nat \ {0}
    /\ MaxBuffer \in Nat
    /\ MaxStreamData \in Nat
    /\ MaxDataInterval \in Nat

VARIABLES frames,         \* the frames the peer has sent
          sentSize,       \* the peer's m_sentSize: offset of its next frame
          received,       \* frames received at least once
          recvSize,       \* m_recvSize
          buffer,         \* m_streamRecvList
          numBytes,       \* m_numBytesInBuffer
          maxAdvertised,  \* m_maxAdvertisedData
          handed,         \* bytes passed to QuicL5Protocol::Recv, in order
          aborted,        \* AbortConnection was called
          stale           \* history: a frame was received after it was passed up

peerVars == <<frames, sentSize>>
vars == <<frames, sentSize, received, recvSize, buffer, numBytes,
          maxAdvertised, handed, aborted, stale>>

Frame == [offset : 0..StreamBytes, length : FrameSizes]
Bytes(f) == [i \in 1..f.length |-> f.offset + i - 1]

\* The first i of the buffered items, merged, for each i.
Merged(items) ==
    LET data[i \in 0..Len(items)] ==
            IF i = 0 THEN <<>> ELSE data[i - 1] \o Bytes(items[i])
    IN  data

TypeOK ==
    /\ frames \subseteq Frame
    /\ sentSize \in 0..StreamBytes
    /\ received \subseteq frames
    /\ recvSize \in Nat
    /\ buffer \in Seq(Frame)
    /\ numBytes \in 0..MaxBuffer
    /\ maxAdvertised \in Nat
    /\ handed \in Seq(0..(StreamBytes - 1))
    /\ aborted \in BOOLEAN
    /\ stale \in BOOLEAN

Init ==
    /\ frames = {}
    /\ sentSize = 0
    /\ received = {}
    /\ recvSize = 0
    /\ buffer = <<>>
    /\ numBytes = 0
    /\ maxAdvertised = 0
    /\ handed = <<>>
    /\ aborted = FALSE
    /\ stale = FALSE

\* The peer sends the next frame of the stream.
SendDataFrame(length) ==
    /\ sentSize + length <= StreamBytes
    /\ frames' = frames \cup {[offset |-> sentSize, length |-> length]}
    /\ sentSize' = sentSize + length
    /\ UNCHANGED <<received, recvSize, buffer, numBytes, maxAdvertised,
                   handed, aborted, stale>>

Available == MaxBuffer - numBytes

\* Mutant: only the first item of the run is counted.
GetDeliverableFirstOnly(offset) ==
    LET length[i \in 0..Len(buffer)] ==
            IF i = 0 THEN 0
            ELSE IF buffer[i].offset = offset THEN buffer[i].length
            ELSE length[i - 1]
    IN  length[Len(buffer)]

\* The number of in-order bytes the buffer holds from offset on.
GetDeliverable(offset) ==
    LET length[i \in 0..Len(buffer)] ==
            IF i = 0 THEN 0
            ELSE IF buffer[i].offset = offset + length[i - 1]
            THEN length[i - 1] + buffer[i].length
            ELSE length[i - 1]
    IN  length[Len(buffer)]

\* How many items Extract takes from the front of the list: as many as fit.
Extracted(maxSize) ==
    CHOOSE n \in 0..Len(buffer) :
        /\ Len(Merged(buffer)[n]) <= maxSize
        /\ n < Len(buffer) => Len(Merged(buffer)[n + 1]) > maxSize

\* The frame that was expected next, followed by what the buffer releases.
RecvInOrder(f) ==
    LET end == recvSize + f.length
        deliverable == GetDeliverable(end)
        n == Extracted(IF deliverable < numBytes THEN deliverable ELSE numBytes)
        out == Merged(buffer)[n]
        offer == end + Available
    IN  /\ f.offset = recvSize
        /\ numBytes + f.length <= MaxStreamData
        /\ maxAdvertised' = IF \/ maxAdvertised = 0
                               \/ offer > maxAdvertised + MaxDataInterval
                            THEN offer ELSE maxAdvertised
        /\ recvSize' = end + deliverable
        /\ buffer' = SubSeq(buffer, n + 1, Len(buffer))
        /\ numBytes' = numBytes - Len(out)
        /\ handed' = handed \o Bytes(f) \o out
        /\ UNCHANGED aborted

\* Mutant: a frame is always appended.
InsertedAtEnd(f) == Append(buffer, f)

\* The buffer with f inserted before the first item with a larger offset.
Inserted(f) ==
    LET place == CHOOSE i \in 1..(Len(buffer) + 1) :
                     /\ \A j \in 1..(i - 1) : buffer[j].offset < f.offset
                     /\ i <= Len(buffer) => f.offset < buffer[i].offset
    IN  InsertAt(buffer, place, f)

\* Mutant: the room in the buffer is not checked.
RecvOutOfOrderNoRoom(f) ==
    LET known == \E i \in 1..Len(buffer) : buffer[i].offset = f.offset
    IN  /\ f.offset # recvSize
        /\ numBytes + f.length <= MaxStreamData
        /\ IF ~known
           THEN /\ buffer' = Inserted(f)
                /\ numBytes' = numBytes + f.length
           ELSE UNCHANGED <<buffer, numBytes>>
        /\ UNCHANGED <<aborted, recvSize, maxAdvertised, handed>>

\* Any other frame goes to the buffer, a duplicate of a buffered one is
\* discarded, and one that does not fit aborts the connection.
RecvOutOfOrder(f) ==
    LET fits == f.length <= Available
        known == \E i \in 1..Len(buffer) : buffer[i].offset = f.offset
    IN  /\ f.offset # recvSize
        /\ numBytes + f.length <= MaxStreamData
        /\ IF fits /\ ~known
           THEN /\ buffer' = Inserted(f)
                /\ numBytes' = numBytes + f.length
           ELSE UNCHANGED <<buffer, numBytes>>
        /\ aborted' = ~fits
        /\ UNCHANGED <<recvSize, maxAdvertised, handed>>

\* More buffered data than m_maxStreamData allows: FLOW_CONTROL_ERROR.
RecvFlowControlError(f) ==
    /\ numBytes + f.length > MaxStreamData
    /\ aborted' = TRUE
    /\ UNCHANGED <<recvSize, buffer, numBytes, maxAdvertised, handed>>

\* A STREAM frame arrives.
Recv(f) ==
    /\ ~aborted
    /\ received' = received \cup {f}
    /\ stale' = (stale \/ f.offset < recvSize)
    /\ RecvInOrder(f) \/ RecvOutOfOrder(f) \/ RecvFlowControlError(f)
    /\ UNCHANGED peerVars

Next ==
    \/ \E length \in FrameSizes : SendDataFrame(length)
    \/ \E f \in frames : Recv(f)

Spec == Init /\ [][Next]_vars
-----------------------------------------------------------------------------
\* What the stream passes up is the beginning of the peer's byte stream: each
\* byte once, none skipped, and m_recvSize counts them.
InOrder ==
    /\ \A i \in 1..Len(handed) : handed[i] = i - 1
    /\ Len(handed) = recvSize

\* Frames received again while they are buffered do no harm: as long as none
\* comes back after it was passed up, the stream passes up the peer's bytes in
\* order.
InOrderUnlessStale == ~stale => InOrder

\* A received frame is passed up as soon as everything before it has arrived:
\* the buffer holds only data behind a gap.
NothingHeldBack ==
    ~stale =>
        /\ \A i \in 1..Len(buffer) : buffer[i].offset > recvSize
        /\ ~aborted /\ received = frames => recvSize = sentSize

\* A frame of the peer begins here, or its next one will.
Edge(n) == n = sentSize \/ \E f \in frames : f.offset = n

\* The peer's frames cut its stream without a gap and without overlap.
CutInv ==
    /\ Edge(0)
    /\ \A f \in frames : f.offset + f.length <= sentSize /\ Edge(f.offset + f.length)
    /\ \A f, g \in frames : \/ f = g
                            \/ f.offset + f.length <= g.offset
                            \/ g.offset + g.length <= f.offset

\* The buffer holds received frames, sorted, and counts their bytes.
BufferInv ==
    /\ \A i \in 1..Len(buffer) : buffer[i] \in received
    /\ \A i, j \in 1..Len(buffer) : i < j => buffer[i].offset < buffer[j].offset
    /\ numBytes = Len(Merged(buffer)[Len(buffer)])
    /\ recvSize <= sentSize

\* Until an old frame comes back: whole frames were passed up, in order, and every
\* other received frame is in the buffer, behind a gap.
PassedInv ==
    ~stale =>
        /\ Edge(recvSize)
        /\ \A i \in 1..Len(buffer) : buffer[i].offset > recvSize
        /\ ~aborted => \A f \in received :
               f.offset < recvSize \/ \E i \in 1..Len(buffer) : buffer[i] = f
        /\ InOrder

\* The inductive invariant of the stream.
StreamInv == TypeOK /\ CutInv /\ BufferInv /\ PassedInv
=============================================================================
