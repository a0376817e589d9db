---------------------------- MODULE ReceivePath ----------------------------
(***************************************************************************)
(* From the network to the application: a stream (StreamReceive) hands its *)
(* data to the reception buffer of the socket (SocketReceive) in the same  *)
(* event in which an in-order frame arrives, through QuicL5Protocol::Recv  *)
(* and AppendingRx, which drops what does not fit.  The application reads  *)
(* at any time.                                                            *)
(***************************************************************************)
EXTENDS StreamReceive

CONSTANTS ReadSizes,      \* values of maxSize the application uses
          SocketBuffer,   \* m_maxBuffer of the socket's buffer
          Modulus         \* number of values of a uint32_t

ASSUME PathAssumption ==
    /\ ReadSizes \subseteq Nat
    /\ SocketBuffer \in ReadSizes
    /\ Modulus \in Nat /\ Modulus > (StreamBytes + 1) * (StreamBytes + SocketBuffer)

VARIABLES list, sockSize, accepted, read, answer    \* of the socket's buffer

Socket == INSTANCE SocketReceive
              WITH recvSize <- sockSize, Sizes <- 1..StreamBytes,
                   MaxBuffer <- SocketBuffer, MaxPackets <- StreamBytes

socketVars == <<list, sockSize, accepted, read, answer>>
pathVars == <<vars, socketVars>>

PathTypeOK == TypeOK /\ Socket!TypeOK

PathInit == Init /\ Socket!Init

\* A frame arrives: what the stream passes up is one packet for the socket.
Arrive(f) ==
    /\ Recv(f)
    /\ IF Len(handed') > Len(handed)
       THEN Socket!AppendingRx(Len(handed') - Len(handed))
       ELSE UNCHANGED socketVars

\* The application reads.
Read(maxSize) == Socket!Recv(maxSize) /\ UNCHANGED vars

PathNext ==
    \/ \E length \in FrameSizes : SendDataFrame(length) /\ UNCHANGED socketVars
    \/ \E f \in frames : Arrive(f)
    \/ \E maxSize \in ReadSizes : Read(maxSize)

\* The peer retransmits a frame until it arrives, and the application keeps
\* reading without a limit, as those of the repository do.
PathSpec ==
    /\ PathInit /\ [][PathNext]_pathVars
    /\ WF_pathVars(\E f \in frames \ received : Arrive(f))
    /\ WF_pathVars(Read(SocketBuffer))
-----------------------------------------------------------------------------
\* The application gets the packets the socket accepted, in order, and what it
\* has not got is still in the buffer (QuicSocketRxBuffer::Extract).
Fifo == Socket!Fifo

\* With packets of one size, m_recvSize of the socket's buffer is the number of
\* bytes in it, and requests are respected.
CountedIfUniform == Socket!CountedIfUniform

\* The socket has dropped data the stream counts as received (AppendingRx).
Dropped == Socket!Total(accepted) < Len(handed)

\* As long as all packets have one size, data is dropped only while the
\* application has left something unread, or when one packet exceeds the buffer.
DropsOnlyWhenFull ==
    [][Len(handed') > Len(handed) /\ accepted' = accepted =>
          \/ list # <<>>
          \/ Len(handed') - Len(handed) > SocketBuffer
          \/ ~Socket!Uniform]_pathVars

\* What the peer has sent reaches the application, again and again all of it,
\* unless the stream has aborted the connection or got an old frame again, or
\* the socket has dropped something or got packets of several sizes.
EverythingRead ==
    []<>(\/ Socket!Total(read) = sentSize
         \/ aborted \/ stale \/ Dropped \/ ~Socket!Uniform)

\* The inductive invariant of the path: what each of its parts keeps.
PathInv == StreamInv /\ Socket!SocketInv
=============================================================================
