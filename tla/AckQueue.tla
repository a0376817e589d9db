------------------------------ MODULE AckQueue ------------------------------
(***************************************************************************)
(* Acknowledgment scheduling of QuicSocketBase on one path: which received *)
(* packets ask for an ACK, the decimation and delayed-ACK timers of        *)
(* MaybeQueueAck, and SendAck, for two endpoints exchanging packets over a *)
(* network that loses them.  Packet numbers are left to LossRecovery: here *)
(* a packet is only what its frames are.                                   *)
(***************************************************************************)
EXTENDS Naturals

CONSTANTS Client, Server,      \* the two endpoints
          MaxBeforeAck,        \* m_kMaxPacketsReceivedBeforeAckSend
          Capacity,            \* bound: packets of one kind queued per direction
          MaxData              \* bound: data packets an endpoint sends

ASSUME EndpointAssumption == Client # Server
ASSUME BoundAssumption ==
    /\ MaxBeforeAck \in Nat
    /\ Capacity \in Nat \ {0}
    /\ MaxData \in Nat

Endpoint == {Client, Server}
Peer(e) == IF e = Client THEN Server ELSE Client

\* The "QUIC decimation option" of MaybeQueueAck.
Decimation == 2

Larger(a, b) == IF a > b THEN a ELSE b
Smaller(a, b) == IF a < b THEN a ELSE b

\* MaybeQueueAck only compares the counter with the two thresholds, so the
\* model does not count past them.
CountCap == Larger(MaxBeforeAck, Decimation) + 1

VARIABLES
    numSince,  \* m_numPacketsReceivedSinceLastAckSent
    queueAck,  \* m_queue_ack
    delAck,    \* m_delAckEvent.IsRunning ()
    sendAck,   \* m_sendAckEvent.IsRunning ()
    received,  \* ~m_receivedPacketNumbers.empty ()
    ackParity, \* history: number of ACK packets e has sent, modulo 2
    net,       \* net[e][k]: packets of kind k on their way to e
    dataLeft   \* data packets e may still send (bound)

vars == <<numSince, queueAck, delAck, sendAck, received, ackParity, net, dataLeft>>
ackVars == <<numSince, queueAck, delAck, sendAck, received, ackParity>>

\* A data packet carries STREAM frames; SendAck builds a packet whose only
\* frame is the one OnSendingAckFrame creates, of type MP_ACK.
Kind == {"data", "ack"}
FrameTypes(k) == IF k = "data" THEN {"STREAM", "MP_ACK"} ELSE {"MP_ACK"}

\* QuicSubheader::IsAck
IsAck(frameType) == frameType = "ACK"

\* QuicL5Protocol::DispatchRecv: TRUE when the packet must be acknowledged.
DispatchRecv(k) == \E f \in FrameTypes(k) : ~IsAck(f)

TypeOK ==
    /\ numSince \in [Endpoint -> 0..CountCap]
    /\ queueAck \in [Endpoint -> BOOLEAN]
    /\ delAck \in [Endpoint -> BOOLEAN]
    /\ sendAck \in [Endpoint -> BOOLEAN]
    /\ received \in [Endpoint -> BOOLEAN]
    /\ ackParity \in [Endpoint -> BOOLEAN]
    /\ net \in [Endpoint -> [Kind -> 0..Capacity]]
    /\ dataLeft \in [Endpoint -> 0..MaxData]

Init ==
    /\ numSince = [e \in Endpoint |-> 0]
    /\ queueAck = [e \in Endpoint |-> FALSE]
    /\ delAck = [e \in Endpoint |-> FALSE]
    /\ sendAck = [e \in Endpoint |-> FALSE]
    /\ received = [e \in Endpoint |-> FALSE]
    /\ ackParity = [e \in Endpoint |-> FALSE]
    /\ net = [e \in Endpoint |-> [k \in Kind |-> 0]]
    /\ dataLeft = [e \in Endpoint |-> MaxData]

-----------------------------------------------------------------------------
\* The drop-tail queue towards e: a packet that finds it full is lost.
Enqueue(e, k) == [net EXCEPT ![e][k] = Smaller(@ + 1, Capacity)]

\* SendDataPacket, as far as this module sees it.
SendData(e) ==
    /\ dataLeft[e] > 0
    /\ dataLeft' = [dataLeft EXCEPT ![e] = @ - 1]
    /\ net' = Enqueue(Peer(e), "data")
    /\ UNCHANGED ackVars

Drop(e, k) ==
    /\ net[e][k] > 0
    /\ net' = [net EXCEPT ![e][k] = @ - 1]
    /\ UNCHANGED <<ackVars, dataLeft>>

-----------------------------------------------------------------------------
\* Faulty variant: the delayed-ACK timer is only started for the first packet
\* of a batch when the batch is not yet queued by the maximum count.
MaybeQueueAckLateTimer(e) ==
    LET n         == Smaller(numSince[e] + 1, CountCap)
        immediate == n > MaxBeforeAck
        decimated == ~(queueAck[e] \/ immediate) /\ n > Decimation
    IN  /\ numSince' = [numSince EXCEPT ![e] = n]
        /\ queueAck' = [queueAck EXCEPT ![e] = @ \/ immediate \/ decimated]
        /\ sendAck' = [sendAck EXCEPT ![e] = @ \/ immediate \/ decimated]
        /\ delAck' = [delAck EXCEPT ![e] = @ \/ n = Decimation]

\* Faulty variant: the decimation threshold is off by one.
MaybeQueueAckOffByOne(e) ==
    LET n         == Smaller(numSince[e] + 1, CountCap)
        immediate == n > MaxBeforeAck
        decimated == ~(queueAck[e] \/ immediate) /\ n > Decimation + 1
        delayed   == ~(queueAck[e] \/ immediate) /\ ~(n > Decimation + 1)
    IN  /\ numSince' = [numSince EXCEPT ![e] = n]
        /\ queueAck' = [queueAck EXCEPT ![e] = @ \/ immediate \/ decimated]
        /\ sendAck' = [sendAck EXCEPT ![e] = @ \/ immediate \/ decimated]
        /\ delAck' = [delAck EXCEPT ![e] = @ \/ delayed]

\* QuicSocketBase::MaybeQueueAck.  HasReceivedMissing () is constantly false,
\* so its branch never runs.
MaybeQueueAck(e) ==
    LET n         == Smaller(numSince[e] + 1, CountCap)
        immediate == n > MaxBeforeAck
        decimated == ~(queueAck[e] \/ immediate) /\ n > Decimation
        delayed   == ~(queueAck[e] \/ immediate) /\ ~(n > Decimation)
    IN  /\ numSince' = [numSince EXCEPT ![e] = n]
        /\ queueAck' = [queueAck EXCEPT ![e] = @ \/ immediate \/ decimated]
        /\ sendAck' = [sendAck EXCEPT ![e] = @ \/ immediate \/ decimated]
        /\ delAck' = [delAck EXCEPT ![e] = @ \/ delayed]

\* QuicSocketBase::ReceivedData, short header in state OPEN.  The packet number
\* is recorded first, so MaybeQueueAck never meets an empty list.
ReceivedData(e, k) ==
    /\ net[e][k] > 0
    /\ net' = [net EXCEPT ![e][k] = @ - 1]
    /\ received' = [received EXCEPT ![e] = TRUE]
    /\ IF DispatchRecv(k)
       THEN MaybeQueueAck(e)
       ELSE UNCHANGED <<numSince, queueAck, delAck, sendAck>>
    /\ UNCHANGED <<ackParity, dataLeft>>

\* Faulty variant: the delayed-ACK timer survives an ACK sent by the other one.
SendAckKeepTimer(e) ==
    /\ delAck' = delAck
    /\ sendAck' = [sendAck EXCEPT ![e] = FALSE]
    /\ queueAck' = [queueAck EXCEPT ![e] = FALSE]
    /\ numSince' = [numSince EXCEPT ![e] = 0]
    /\ net' = IF received[e] THEN Enqueue(Peer(e), "ack") ELSE net
    /\ ackParity' = [ackParity EXCEPT ![e] = @ # received[e]]
    /\ UNCHANGED <<received, dataLeft>>

\* QuicSocketBase::SendAck: both timers and both counters are cleared, and an
\* ACK packet leaves if anything was ever received.
SendAck(e) ==
    /\ delAck' = [delAck EXCEPT ![e] = FALSE]
    /\ sendAck' = [sendAck EXCEPT ![e] = FALSE]
    /\ queueAck' = [queueAck EXCEPT ![e] = FALSE]
    /\ numSince' = [numSince EXCEPT ![e] = 0]
    /\ net' = IF received[e] THEN Enqueue(Peer(e), "ack") ELSE net
    /\ ackParity' = [ackParity EXCEPT ![e] = @ # received[e]]
    /\ UNCHANGED <<received, dataLeft>>

\* The two events that call SendAck.
DelAckEvent(e) == delAck[e] /\ SendAck(e)
SendAckEvent(e) == sendAck[e] /\ SendAck(e)

-----------------------------------------------------------------------------
Next ==
    \E e \in Endpoint :
        \/ SendData(e)
        \/ DelAckEvent(e)
        \/ SendAckEvent(e)
        \/ \E k \in Kind : ReceivedData(e, k) \/ Drop(e, k)

Spec == Init /\ [][Next]_vars

\* The simulator runs every scheduled event that is not cancelled.
FairSpec ==
    /\ Spec
    /\ \A e \in Endpoint : WF_vars(DelAckEvent(e)) /\ WF_vars(SendAckEvent(e))

-----------------------------------------------------------------------------
\* No received packet is forgotten: as long as packets have been received since
\* the last ACK, MaybeQueueAck has left one of the two events that call SendAck
\* scheduled, whatever mixture of immediate, decimated and delayed requests and
\* of cancellations by SendAck came before.
AckScheduled ==
    \A e \in Endpoint : numSince[e] > 0 => delAck[e] \/ sendAck[e]

\* The slow timer alone never holds back more than two packets: once a third
\* one is waiting ("more than 2 packets received" in MaybeQueueAck) the
\* one-step event has been scheduled.
DecimationBound ==
    \A e \in Endpoint : ~sendAck[e] => numSince[e] <= Decimation

\* What MaybeQueueAck and SendAck preserve together: a queued ACK is a running
\* one-step event, an unqueued duty is a running delayed-ACK event, and no event
\* outlives the duty it was scheduled for.
AckInv ==
    \A e \in Endpoint :
        /\ queueAck[e] => sendAck[e]
        /\ (numSince[e] > 0 /\ ~queueAck[e]) => delAck[e] /\ numSince[e] <= Decimation
        /\ delAck[e] \/ sendAck[e] => numSince[e] > 0 /\ received[e]

\* The scheduling implements the abstract duty to acknowledge: SendAck never
\* runs without an unacknowledged packet, and every packet is acknowledged.
Duty == INSTANCE AckDuty WITH due <- [e \in Endpoint |-> numSince[e] > 0],
                              parity <- ackParity
ImplementsDuty == Duty!DutySpec
=============================================================================
