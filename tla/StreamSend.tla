----------------------------- MODULE StreamSend -----------------------------
(***************************************************************************)
(* The sending side of a data stream: QuicStreamBase::Send, the event that *)
(* runs SendPendingData, and QuicStreamTxBuffer.  Frames go to the socket  *)
(* transmission buffer, which rejects a frame it has no room for.  Here    *)
(* that buffer is its free room; SendPath puts the real one in its place.  *)
(*                                                                         *)
(* Bytes are numbered in the order the application writes them; an item of *)
(* a list is the sequence of its bytes.  m_appSize is the number of bytes  *)
(* in the list.  The header of a frame counts as HeaderSize bytes.         *)
(***************************************************************************)
EXTENDS Integers, Sequences, SequencesExt

CONSTANTS AppSizes,       \* sizes of the packets the application sends
          StreamBytes,    \* bound: bytes the application writes
          MaxBuffer,      \* m_maxBuffer of the stream's transmission buffer
          SegSize,        \* GetMaxPacketSize ()
          MaxStreamData,  \* m_maxStreamData
          HeaderSize,     \* bytes of a STREAM frame's header
          Modulus         \* number of values of a uint32_t

ASSUME SendAssumption ==
    /\ AppSizes \subseteq Nat \ {0}
    /\ StreamBytes \in Nat
    /\ MaxBuffer \in Nat
    /\ SegSize \in Nat \ {0}
    /\ MaxStreamData \in Nat
    /\ HeaderSize \in Nat
    /\ Modulus \in Nat
    /\ StreamBytes + MaxStreamData < Modulus

VARIABLES written,   \* bytes the stream's transmission buffer has accepted
          appList,   \* m_appList
          sentList,  \* m_sentList: the sizes of its items
          bufSent,   \* the transmission buffer's m_sentSize
          sentSize,  \* the stream's m_sentSize: offset of the next frame
          frames,    \* frames the socket transmission buffer accepted
          room,      \* Available () of the socket transmission buffer
          pending,   \* m_streamSendPendingDataEvent.IsRunning ()
          crashed,   \* pop_back was called on an empty list
          large      \* history: a packet larger than a segment was accepted

vars == <<written, appList, sentList, bufSent, sentSize, frames, room,
          pending, crashed, large>>

Total(sizes) ==
    LET sum[i \in 0..Len(sizes)] == IF i = 0 THEN 0 ELSE sum[i - 1] + sizes[i]
    IN  sum[Len(sizes)]
Byte == 0..(StreamBytes - 1)

TypeOK ==
    /\ written \in 0..StreamBytes
    /\ appList \in Seq(Seq(Byte))
    /\ Len(FlattenSeq(appList)) <= MaxBuffer
    /\ sentList \in Seq(1..StreamBytes)
    /\ bufSent \in 0..(Modulus - 1)
    /\ sentSize \in 0..StreamBytes
    /\ frames \in Seq([offset : Byte, bytes : Seq(Byte)])
    /\ room \in 0..(Modulus - 1)
    /\ pending \in BOOLEAN
    /\ crashed \in BOOLEAN
    /\ large \in BOOLEAN

Init ==
    /\ written = 0
    /\ appList = <<>>
    /\ sentList = <<>>
    /\ bufSent = 0
    /\ sentSize = 0
    /\ frames = <<>>
    /\ pending = FALSE
    /\ crashed = FALSE
    /\ large = FALSE

\* StreamWindow for a stream with sent bytes counted as in flight.
Window(sent) == IF sent > MaxStreamData THEN 0 ELSE MaxStreamData - sent

\* The application sends a packet of size bytes on the stream.
Send(size) ==
    /\ ~crashed
    /\ written + size <= StreamBytes
    /\ IF size <= MaxBuffer - Len(FlattenSeq(appList))
       THEN /\ appList' = Append(appList, [i \in 1..size |-> written + i - 1])
            /\ written' = written + size
            /\ large' = (large \/ size > SegSize)
       ELSE UNCHANGED <<appList, written, large>>
    /\ pending' = (pending \/ Window(bufSent) > 0)
    /\ UNCHANGED <<sentList, bufSent, sentSize, frames, room, crashed>>

\* The state SendPendingData works on.
Stream == [app |-> appList, list |-> sentList, buf |-> bufSent,
           size |-> sentSize, frames |-> frames, room |-> room,
           crashed |-> FALSE, stop |-> FALSE]

\* GetNewSegment: whole items as long as they fit, then the first part of one
\* that does not.  The segment enters the sent list only if it holds at least
\* one whole item.
GetNewSegment(app, numBytes) ==
    LET bytes == FlattenSeq(app)
        size == IF Len(bytes) < numBytes THEN Len(bytes) ELSE numBytes
        k == CHOOSE n \in 0..Len(app) :
                 /\ Len(FlattenSeq(SubSeq(app, 1, n))) <= numBytes
                 /\ n < Len(app) => Len(FlattenSeq(SubSeq(app, 1, n + 1))) > numBytes
        cut == size - Len(FlattenSeq(SubSeq(app, 1, k)))
        rest == SubSeq(app, k + 1, Len(app))
    IN  [bytes |-> SubSeq(bytes, 1, size),
         toInsert |-> k > 0,
         app |-> IF cut = 0 THEN rest
                 ELSE <<SubSeq(Head(rest), cut + 1, Len(Head(rest)))>>
                      \o Tail(rest)]

\* Mutant: a rejected frame stays in the sent list.
RejectedStillListed(s, seg) ==
    [s EXCEPT !.app = <<seg.bytes>> \o seg.app,
              !.buf = (@ - Len(seg.bytes)) % Modulus,
              !.stop = TRUE]

\* The socket rejected the frame: it goes back to the front of the list, and
\* the last item leaves the sent list, whether or not it is this frame.
Rejected(s, seg) ==
    [s EXCEPT !.app = <<seg.bytes>> \o seg.app,
              !.list = IF @ = <<>> THEN @ ELSE Front(@),
              !.buf = (@ - Len(seg.bytes)) % Modulus,
              !.crashed = (s.list = <<>>),
              !.stop = TRUE]

\* Mutant: the offset is not set back when the socket rejects the frame.
SendDataFrameNoRollback(s, maxSize) ==
    LET seg == GetNewSegment(s.app, maxSize)
        n == Len(seg.bytes)
        taken == IF seg.toInsert
                 THEN [s EXCEPT !.list = Append(@, n), !.buf = (@ + n) % Modulus]
                 ELSE s
    IN  IF n + HeaderSize > s.room
        THEN [Rejected(taken, seg) EXCEPT !.size = @ + n]
        ELSE [taken EXCEPT
                  !.app = seg.app,
                  !.size = @ + n,
                  !.frames = Append(@, [offset |-> s.size, bytes |-> seg.bytes]),
                  !.room = @ - n - HeaderSize]

\* Mutant: the header does not count when the socket is asked for room.
SendDataFrameBare(s, maxSize) ==
    LET seg == GetNewSegment(s.app, maxSize)
        n == Len(seg.bytes)
        taken == IF seg.toInsert
                 THEN [s EXCEPT !.list = Append(@, n), !.buf = (@ + n) % Modulus]
                 ELSE s
    IN  IF n > s.room
        THEN Rejected(taken, seg)
        ELSE [taken EXCEPT
                  !.app = seg.app,
                  !.size = @ + n,
                  !.frames = Append(@, [offset |-> s.size, bytes |-> seg.bytes]),
                  !.room = @ - n]

\* SendDataFrame with frames of at most maxSize bytes.
SendDataFrame(s, maxSize) ==
    LET seg == GetNewSegment(s.app, maxSize)
        n == Len(seg.bytes)
        taken == IF seg.toInsert
                 THEN [s EXCEPT !.list = Append(@, n), !.buf = (@ + n) % Modulus]
                 ELSE s
    IN  IF n + HeaderSize > s.room
        THEN Rejected(taken, seg)
        ELSE [taken EXCEPT
                  !.app = seg.app,
                  !.size = @ + n,
                  !.frames = Append(@, [offset |-> s.size, bytes |-> seg.bytes]),
                  !.room = @ - n - HeaderSize]

\* The loop of SendPendingData; each turn takes at least one byte.
SendNext(s) ==
    LET w == Window(s.buf) IN
    IF s.stop \/ w = 0 \/ s.app = <<>> THEN s
    ELSE SendDataFrame(s, IF w < SegSize THEN w ELSE SegSize)

SendAll ==
    LET after[i \in 0..StreamBytes] == IF i = 0 THEN Stream ELSE SendNext(after[i - 1])
    IN  after[StreamBytes]

\* The event the stream schedules for SendPendingData.
SendPendingData ==
    /\ ~crashed
    /\ pending
    /\ pending' = FALSE
    /\ LET s == SendAll IN
       /\ appList' = s.app
       /\ sentList' = s.list
       /\ bufSent' = s.buf
       /\ sentSize' = s.size
       /\ frames' = s.frames
       /\ room' = s.room
       /\ crashed' = s.crashed
    /\ UNCHANGED <<written, large>>
-----------------------------------------------------------------------------
\* The frames given to the socket, in order, and the data still buffered are
\* the bytes the application wrote, through every rejection; and the offset in
\* each frame is the position of its first byte.
ByteStream ==
    LET handed == FlattenSeq([i \in 1..Len(frames) |-> frames[i].bytes]) IN
    /\ handed \o FlattenSeq(appList) = [i \in 1..written |-> i - 1]
    /\ \A i \in 1..Len(frames) : frames[i].offset = Head(frames[i].bytes)
    /\ sentSize = Len(handed)

\* m_sentSize, which the stream takes as its bytes in flight, is the size of
\* all data in the sent list, and pop_back finds the item it is meant for: true
\* as long as no packet is cut, neither by the segment size nor by the window.
SentListCounted ==
    ~large /\ sentSize + SegSize <= MaxStreamData =>
        bufSent = Total(sentList) /\ ~crashed
=============================================================================
