--------------------------- MODULE SocketReceive ---------------------------
(***************************************************************************)
(* The reception buffer of a QUIC socket (QuicSocketRxBuffer): streams     *)
(* append packets in AppendingRx, the application takes them out with      *)
(* Recv, at once from the data callback or at any later time.              *)
(*                                                                         *)
(* Sizes are uint32_t in the code.  Modulus stands for 2^32: any value     *)
(* larger than all sizes together shows the same wrap-arounds.             *)
(***************************************************************************)
EXTENDS Integers, Sequences, SequencesExt

CONSTANTS Sizes,       \* sizes of the packets the streams hand over
          ReadSizes,   \* values of maxSize the application uses
          MaxBuffer,   \* m_maxBuffer
          MaxPackets,  \* bound: packets handed over
          Modulus      \* number of values of a uint32_t, above
                       \* (MaxPackets + 1) * s for every size s

VARIABLES list,      \* m_socketRecvList: the sizes of the buffered packets
          recvSize,  \* m_recvSize
          accepted,  \* sizes of the packets Add accepted, oldest first
          read,      \* sizes of the packets the application has got
          answer     \* the last Recv: maxSize, and the bytes it returned

vars == <<list, recvSize, accepted, read, answer>>

Total(s) ==
    LET sum[i \in 0..Len(s)] == IF i = 0 THEN 0 ELSE sum[i - 1] + s[i]
    IN  sum[Len(s)]

TypeOK ==
    /\ list \in Seq(Sizes)
    /\ recvSize \in 0..(Modulus - 1)
    /\ accepted \in Seq(Sizes)
    /\ read \in Seq(Sizes)
    /\ answer \in [max : ReadSizes \cup {0}, bytes : Nat]

Init ==
    /\ list = <<>>
    /\ recvSize = 0
    /\ accepted = <<>>
    /\ read = <<>>
    /\ answer = [max |-> 0, bytes |-> 0]

Available == (MaxBuffer - recvSize) % Modulus

\* Mutant: Add inserts at the front of the list.
AppendingRxNewestFirst(size) ==
    /\ Len(accepted) < MaxPackets
    /\ IF size > 0 /\ size <= Available
       THEN /\ list' = <<size>> \o list
            /\ recvSize' = (recvSize + size) % Modulus
            /\ accepted' = Append(accepted, size)
       ELSE UNCHANGED <<list, recvSize, accepted>>
    /\ UNCHANGED <<read, answer>>

\* Mutant: Add does not count the packet.
AppendingRxUncounted(size) ==
    /\ Len(accepted) < MaxPackets
    /\ IF size > 0 /\ size <= Available
       THEN /\ list' = Append(list, size)
            /\ UNCHANGED recvSize
            /\ accepted' = Append(accepted, size)
       ELSE UNCHANGED <<list, recvSize, accepted>>
    /\ UNCHANGED <<read, answer>>

\* A stream hands a packet over; without room it is dropped.
AppendingRx(size) ==
    /\ Len(accepted) < MaxPackets
    /\ IF size > 0 /\ size <= Available
       THEN /\ list' = Append(list, size)
            /\ recvSize' = (recvSize + size) % Modulus
            /\ accepted' = Append(accepted, size)
       ELSE UNCHANGED <<list, recvSize, accepted>>
    /\ UNCHANGED <<read, answer>>

\* What *it refers to once the i-th packet has been erased: the packet that
\* followed it.  Behind the last one the iterator points to a destroyed Ptr,
\* whose memory still refers to the erased packet.
AfterErase(i) == IF i < Len(list) THEN list[i + 1] ELSE list[i]

\* Mutant: only extractSize is reduced, not m_recvSize.
ExtractOneUncounted(x, i) ==
    IF x.size > 0 /\ x.taken = i - 1 /\ list[i] + x.bytes <= x.size
    THEN [x EXCEPT !.taken = i,
                   !.bytes = @ + list[i],
                   !.size = (@ - AfterErase(i)) % Modulus]
    ELSE x

\* Mutant: m_recvSize is a signed number.
ExtractOneSigned(x, i) ==
    IF x.size > 0 /\ x.taken = i - 1 /\ list[i] + x.bytes <= x.size
    THEN [taken |-> i,
          bytes |-> x.bytes + list[i],
          size |-> (x.size - AfterErase(i)) % Modulus,
          recvSize |-> x.recvSize - AfterErase(i)]
    ELSE x

\* One turn of the loop of Extract on the i-th packet of the buffer: x.taken
\* packets of x.bytes bytes are out, x.size is extractSize.
ExtractOne(x, i) ==
    IF x.size > 0 /\ x.taken = i - 1 /\ list[i] + x.bytes <= x.size
    THEN [taken |-> i,
          bytes |-> x.bytes + list[i],
          size |-> (x.size - AfterErase(i)) % Modulus,
          recvSize |-> (x.recvSize - AfterErase(i)) % Modulus]
    ELSE x

\* Mutant: maxSize does not limit the request.
ExtractBeyondLimit(maxSize) ==
    LET x[i \in 0..Len(list)] ==
            IF i = 0
            THEN [taken |-> 0, bytes |-> 0, recvSize |-> recvSize,
                  size |-> IF maxSize = 0 THEN 0 ELSE recvSize]
            ELSE ExtractOne(x[i - 1], i)
    IN  x[Len(list)]

\* Packets are taken from the front as long as they fit in extractSize.
Extract(maxSize) ==
    LET x[i \in 0..Len(list)] ==
            IF i = 0
            THEN [taken |-> 0, bytes |-> 0, recvSize |-> recvSize,
                  size |-> IF maxSize < recvSize THEN maxSize ELSE recvSize]
            ELSE ExtractOne(x[i - 1], i)
    IN  x[Len(list)]

\* The application reads.
Recv(maxSize) ==
    \E x \in {Extract(maxSize)} :
        /\ list' = SubSeq(list, x.taken + 1, Len(list))
        /\ recvSize' = x.recvSize
        /\ read' = read \o SubSeq(list, 1, x.taken)
        /\ answer' = [max |-> maxSize, bytes |-> x.bytes]
        /\ UNCHANGED accepted

Next ==
    \/ \E size \in Sizes : AppendingRx(size)
    \/ \E maxSize \in ReadSizes : Recv(maxSize)

Spec == Init /\ [][Next]_vars
-----------------------------------------------------------------------------
\* The application gets the accepted packets, in the order they came in, and
\* what it has not got is still in the buffer (QuicSocketRxBuffer::Extract).
Fifo == read \o list = accepted

\* Recv returns a packet of size no larger than maxSize.
ReadLimit == answer.bytes <= answer.max

\* All packets so far had one size: Extract's use of the erased iterator then
\* does no harm.
Uniform == \A i, j \in 1..Len(accepted) : accepted[i] = accepted[j]

\* With packets of one size, m_recvSize, which Add, Extract and the connection's
\* flow control rely on, is the number of bytes in the buffer, and requests are
\* respected.
CountedIfUniform == Uniform => recvSize = Total(list) /\ ReadLimit

\* The inductive invariant of the socket's buffer: with packets of one size
\* m_recvSize never exceeds m_maxBuffer, so that Available does not wrap around.
SocketInv ==
    /\ TypeOK /\ Fifo /\ CountedIfUniform
    /\ Uniform => recvSize <= MaxBuffer
=============================================================================
