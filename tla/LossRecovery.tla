---------------------------- MODULE LossRecovery ----------------------------
(***************************************************************************)
(* Packet numbers, acknowledgments, loss detection and retransmission of   *)
(* QuicSocketBase and QuicSocketTxBuffer on one path of an established     *)
(* connection (both sockets OPEN), for two endpoints over a network that   *)
(* loses, reorders and duplicates packets.                                 *)
(*                                                                         *)
(* A frame stands for the STREAM data one packet takes from the socket     *)
(* transmission buffer.  The windows, the pacing timer and the scheduler   *)
(* only decide how many frames leave the buffer: that number is chosen     *)
(* freely.  Time is abstract: an alarm may expire at any moment.           *)
(***************************************************************************)
EXTENDS Integers, FiniteSets

CONSTANTS Client, Server,       \* the two endpoints
          ClientFrames,         \* bound: frames the client's application writes
          ServerFrames,         \* bound: frames the server's application writes
          HandshakePns,         \* packet numbers each side used to connect
          MaxPn,                \* bound: packet numbers of the path
          ServerMaxPn,          \* bound: packet numbers the server uses
          ReorderingThreshold,  \* m_kReorderingThreshold
          MaxTLPs,              \* m_kMaxTLPs
          MaxTrackedGaps,       \* m_maxTrackedGaps
          SegSize,              \* GetSegSize ()
          MaxStale              \* bound: superseded alarms that are remembered

ASSUME EndpointAssumption == Client # Server
ASSUME BoundAssumption ==
    /\ ClientFrames \in Nat
    /\ ServerFrames \in Nat
    /\ HandshakePns \in Nat \ {0}
    /\ MaxPn \in Nat
    /\ HandshakePns <= MaxPn
    /\ ServerMaxPn \in HandshakePns..MaxPn
    /\ ReorderingThreshold \in Nat
    /\ MaxTLPs \in Nat
    /\ MaxTrackedGaps \in Nat
    /\ SegSize \in Nat \ {0}
    /\ MaxStale \in Nat

Endpoint == {Client, Server}
Peer(e) == IF e = Client THEN Server ELSE Client
PN == 1..MaxPn
LastPn(e) == IF e = Client THEN MaxPn ELSE ServerMaxPn
Frames(e) == IF e = Client THEN 1..ClientFrames ELSE 1..ServerFrames
Frame == 1..ClientFrames \cup 1..ServerFrames

TlpAlarm == 2
RtoAlarm == 3

\* The alarm SetReTxTimeout chooses when probes tail loss probes were sent.
AlarmFor(probes) == IF probes < MaxTLPs THEN TlpAlarm ELSE RtoAlarm

\* The MP_ACK frame of a packet: the largest acknowledged packet number and
\* the packet numbers its gaps report as missing.
AckFrame == [largest : 0..MaxPn, missing : SUBSET PN]
NoAck == [largest |-> 0, missing |-> {}]

VARIABLES
    nextTx,       \* m_nextTxSequence
    sent,         \* packet numbers in m_subflowSentList
    sacked,       \* those whose item has m_sacked set
    payload,      \* payload[e][pn]: frames of e's packet pn
    ack,          \* ack[e][pn]: the MP_ACK frame of e's packet pn
    written,      \* frames appended to the transmission buffer so far
    taken,        \* frames taken out of the transmission buffer so far
    sendPending,  \* m_sendPendingDataEvent.IsRunning ()
    rcvd,         \* m_receivedPacketNumbers
    largestRcvd,  \* its largest element
    delivered,    \* frames passed up by DispatchRecv
    due,          \* an acknowledgment is scheduled (module AckDuty)
    tlp,          \* m_tlpCount
    rto,          \* m_rtoCount > 0
    beforeRto,    \* m_largestSentBeforeRto
    highTx,       \* m_highTxMark
    alarmType,    \* m_alarmType
    armed,        \* Now < m_nextAlarmTrigger, with the alarm for that time pending
    stale         \* pending ReTxTimeout events that a later alarm superseded

txVars == <<nextTx, payload, ack, taken>>
appVars == <<written, sendPending>>
listVars == <<sent, sacked>>
rxVars == <<rcvd, largestRcvd, delivered>>
rtoVars == <<tlp, rto, beforeRto>>
alarmVars == <<alarmType, armed, stale>>
vars == <<txVars, appVars, listVars, rxVars, due, rtoVars, highTx, alarmVars>>

\* What the path carries: packets, acknowledgments, frames.
DataTypeOK ==
    /\ nextTx \in [Endpoint -> 0..MaxPn]
    /\ sent \in [Endpoint -> SUBSET PN]
    /\ sacked \in [Endpoint -> SUBSET PN]
    /\ payload \in [Endpoint -> [PN -> SUBSET Frame]]
    /\ ack \in [Endpoint -> [PN -> AckFrame]]
    /\ written \in [Endpoint -> Nat]
    /\ taken \in [Endpoint -> Nat]
    /\ rcvd \in [Endpoint -> SUBSET PN]
    /\ largestRcvd \in [Endpoint -> PN]
    /\ delivered \in [Endpoint -> SUBSET Frame]

\* The events and the counters of the loss detection alarm.
TimerTypeOK ==
    /\ sendPending \in [Endpoint -> BOOLEAN]
    /\ due \in [Endpoint -> BOOLEAN]
    /\ tlp \in [Endpoint -> 0..MaxTLPs]
    /\ rto \in [Endpoint -> BOOLEAN]
    /\ beforeRto \in [Endpoint -> 0..MaxPn]
    /\ highTx \in [Endpoint -> 0..MaxPn]
    /\ alarmType \in [Endpoint -> {TlpAlarm, RtoAlarm}]
    /\ armed \in [Endpoint -> BOOLEAN]
    /\ stale \in [Endpoint -> 0..MaxStale]

TypeOK == DataTypeOK /\ TimerTypeOK

\* The handshake packets have all been received and acknowledged; the ACK of
\* the server's last one is still owed by the client.
Init ==
    /\ nextTx = [e \in Endpoint |-> HandshakePns]
    /\ sent = [e \in Endpoint |-> {}]
    /\ sacked = [e \in Endpoint |-> {}]
    /\ payload = [e \in Endpoint |-> [pn \in PN |-> {}]]
    /\ ack = [e \in Endpoint |-> [pn \in PN |-> NoAck]]
    /\ written = [e \in Endpoint |-> 0]
    /\ taken = [e \in Endpoint |-> 0]
    /\ sendPending = [e \in Endpoint |-> FALSE]
    /\ rcvd = [e \in Endpoint |-> 1..HandshakePns]
    /\ largestRcvd = [e \in Endpoint |-> HandshakePns]
    /\ delivered = [e \in Endpoint |-> {}]
    /\ due = [e \in Endpoint |-> e = Client]
    /\ tlp = [e \in Endpoint |-> 0]
    /\ rto = [e \in Endpoint |-> FALSE]
    /\ beforeRto = [e \in Endpoint |-> 0]
    /\ highTx = [e \in Endpoint |-> HandshakePns]
    /\ alarmType = [e \in Endpoint |-> AlarmFor(0)]
    /\ armed = [e \in Endpoint |-> TRUE]
    /\ stale = [e \in Endpoint |-> 0]

-----------------------------------------------------------------------------
\* OnSendingAckFrame walks the received numbers R downwards from the largest
\* and reports a gap wherever two neighbours are not consecutive, until
\* MaxTrackedGaps gaps are reported.  Nothing below the smallest received
\* number is a gap.
GapsAbove(R, L, pn) == Cardinality({g \in pn..L : g \notin R /\ g + 1 \in R})

\* Faulty variant: a gap ends one number too low (gaps.push_back (curr - 2)).
MissingShortGap(R, L) ==
    {pn \in 1..L : /\ pn \notin R
                   /\ pn + 1 \notin R
                   /\ \E r \in R : r < pn
                   /\ GapsAbove(R, L, pn) <= MaxTrackedGaps}

Missing(R, L) ==
    {pn \in 1..L : /\ pn \notin R
                   /\ \E r \in R : r < pn
                   /\ GapsAbove(R, L, pn) <= MaxTrackedGaps}

OnSendingAckFrame(R, L) == [largest |-> L, missing |-> Missing(R, L)]

\* OnAckUpdate, the blocks of an ACK: everything up to the largest except the
\* reported gaps; the block after the last reported gap has no lower end.
Covers(a, pn) == pn <= a.largest /\ pn \notin a.missing

NewlyAcked(e, a) == {pn \in sent[e] \ sacked[e] : Covers(a, pn)}

\* OnAckUpdate, the loss marking: only when the largest acknowledged packet is
\* still in the sent list.
ReorderLost(e, a, sacks) ==
    IF a.largest \in sent[e]
    THEN {pn \in sent[e] \ sacks : pn + ReorderingThreshold <= a.largest}
    ELSE {}

\* Faulty variant: everything up to the newest sacked item is dropped.
CleanSentListToNewest(e, sacks) == {pn \in sent[e] : \A q \in sent[e] \cap sacks : q < pn}

\* CleanSentList drops the sacked items in front of the first other one.
CleanSentList(e, sacks) == {pn \in sent[e] : \E q \in sent[e] \ sacks : q <= pn}

\* ResetSentList, called when a packet sent after the RTO is acknowledged.
ResetSentList(list, sacks, keepItems) ==
    {pn \in list \ sacks : Cardinality({q \in list : q > pn}) >= keepItems}

RtoVerified(e, a) == rto[e] /\ beforeRto[e] < a.largest

\* Whether m_rtoCount stays positive: an ACK that verifies the RTO does not
\* reset it, except in OnPacketAcked, which OnAckReceived calls for the newly
\* acknowledged packets that CleanSentList has removed.
RtoAfterAck(e, a, sacks) ==
    RtoVerified(e, a) /\ NewlyAcked(e, a) \subseteq CleanSentList(e, sacks)

\* DetectLostPackets at the end of OnReceivedAckFrame's two loss detections.
DetectLostPackets(e, a, sacks) ==
    ReorderLost(e, a, sacks) \cup
    (IF RtoVerified(e, a)
     THEN ResetSentList(CleanSentList(e, sacks), sacks,
                        (a.largest - beforeRto[e]) \div SegSize)
     ELSE {})

-----------------------------------------------------------------------------
Min2(a, b) == IF a < b THEN a ELSE b

\* SetReTxTimeout called calls times in a row with the tail-loss-probe count
\* probes.  The previous alarm is not cancelled.
SetReTxTimeout(e, probes, calls) ==
    IF calls = 0
    THEN UNCHANGED alarmVars
    ELSE /\ alarmType' = [alarmType EXCEPT ![e] = AlarmFor(probes)]
         /\ armed' = [armed EXCEPT ![e] = TRUE]
         /\ stale' = [stale EXCEPT ![e] =
                          Min2(MaxStale, IF armed[e] THEN @ + calls ELSE @ + calls - 1)]

Unsent(e) == taken[e] + 1 .. written[e]

\* SendDataPacket: e sends a packet with the content of the lost ones, if any,
\* then k packets with new data, then j empty ones, each with an ACK frame for
\* the received numbers R, of which L is the largest.
SendPackets(e, R, L, lost, k, j) ==
    LET retx  == IF lost = {} THEN 0 ELSE 1
        first == nextTx[e] + retx
        last  == first + k + j
    IN  /\ taken[e] + k <= written[e]
        /\ last <= LastPn(e)
        /\ nextTx' = [nextTx EXCEPT ![e] = last]
        /\ taken' = [taken EXCEPT ![e] = @ + k]
        /\ payload' = [payload EXCEPT ![e] =
              [pn \in PN |->
                 IF pn = first /\ retx = 1
                 THEN UNION {payload[e][q] : q \in lost}
                 ELSE IF first < pn /\ pn <= first + k
                      THEN {taken[e] + pn - first}
                      ELSE payload[e][pn]]]
        /\ ack' = [ack EXCEPT ![e] =
              [pn \in PN |-> IF nextTx[e] < pn /\ pn <= last
                             THEN OnSendingAckFrame(R, L)
                             ELSE ack[e][pn]]]

\* The numbers SendPackets adds to the sent list (empty packets are not added).
Outgoing(e, lost, k) == nextTx[e] + 1 .. nextTx[e] + (IF lost = {} THEN 0 ELSE 1) + k

-----------------------------------------------------------------------------
\* AppendingTx: one more frame in the transmission buffer.
AppendingTx(e) ==
    /\ written[e] + 1 \in Frames(e)
    /\ written' = [written EXCEPT ![e] = @ + 1]
    /\ sendPending' = [sendPending EXCEPT ![e] = TRUE]
    /\ UNCHANGED <<txVars, listVars, rxVars, due, rtoVars, highTx, alarmVars>>

\* The event AppendingTx scheduled; the windows let k packets out.
SendPendingData(e) ==
    /\ sendPending[e]
    /\ sendPending' = [sendPending EXCEPT ![e] = FALSE]
    /\ \E k \in 0..Cardinality(Unsent(e)) :
          /\ SendPackets(e, rcvd[e], largestRcvd[e], {}, k, 0)
          /\ sent' = [sent EXCEPT ![e] = @ \cup Outgoing(e, {}, k)]
          /\ highTx' = IF k = 0 THEN highTx ELSE [highTx EXCEPT ![e] = nextTx[e] + k]
          /\ SetReTxTimeout(e, tlp[e], k)
    /\ UNCHANGED <<written, sacked, rxVars, due, rtoVars>>

\* Faulty variant: Retransmission leaves the lost items in the sent list.
OnReceivedAckFrameKeepLost(e, a, R, L) ==
    LET new   == NewlyAcked(e, a)
        sacks == sacked[e] \cup new
        lost  == DetectLostPackets(e, a, sacks)
        kept  == CleanSentList(e, sacks)
        probes == IF new = {} THEN tlp[e] ELSE 0
        retx  == IF lost = {} THEN 0 ELSE 1
    IN  \E k \in 0..Cardinality(Unsent(e)) :
          /\ SendPackets(e, R, L, lost, k, 0)
          /\ sent' = [sent EXCEPT ![e] = kept \cup Outgoing(e, lost, k)]
          /\ sacked' = [sacked EXCEPT ![e] = sacks \cap kept]
          /\ rto' = [rto EXCEPT ![e] = RtoAfterAck(e, a, sacks)]
          /\ tlp' = [tlp EXCEPT ![e] = probes]
          /\ highTx' = IF retx + k = 0 THEN highTx
                       ELSE [highTx EXCEPT ![e] = nextTx[e] + retx + k]
          /\ SetReTxTimeout(e, probes, retx + k + 1)

\* OnReceivedAckFrame, after the packet has been recorded in R with largest L.
OnReceivedAckFrame(e, a, R, L) ==
    LET new   == NewlyAcked(e, a)
        sacks == sacked[e] \cup new
        lost  == DetectLostPackets(e, a, sacks)
        kept  == CleanSentList(e, sacks) \ lost
        probes == IF new = {} THEN tlp[e] ELSE 0
        retx  == IF lost = {} THEN 0 ELSE 1
    IN  \E k \in 0..Cardinality(Unsent(e)) :
          /\ SendPackets(e, R, L, lost, k, 0)
          /\ sent' = [sent EXCEPT ![e] = kept \cup Outgoing(e, lost, k)]
          /\ sacked' = [sacked EXCEPT ![e] = sacks \cap kept]
          /\ rto' = [rto EXCEPT ![e] = RtoAfterAck(e, a, sacks)]
          /\ tlp' = [tlp EXCEPT ![e] = probes]
          /\ highTx' = IF retx + k = 0 THEN highTx
                       ELSE [highTx EXCEPT ![e] = nextTx[e] + retx + k]
          /\ SetReTxTimeout(e, probes, retx + k + 1)

\* ReceivedData, short header: e receives packet pn of its peer, for the first
\* time or again.  Every packet asks for an acknowledgment (module AckQueue).
ReceivedData(e, pn) ==
    LET R == rcvd[e] \cup {pn}
        L == IF pn > largestRcvd[e] THEN pn ELSE largestRcvd[e]
    IN  /\ HandshakePns < pn /\ pn <= nextTx[Peer(e)]
        /\ rcvd' = [rcvd EXCEPT ![e] = R]
        /\ largestRcvd' = [largestRcvd EXCEPT ![e] = L]
        /\ delivered' = [delivered EXCEPT ![e] = @ \cup payload[Peer(e)][pn]]
        /\ OnReceivedAckFrame(e, ack[Peer(e)][pn], R, L)
        /\ due' = [due EXCEPT ![e] = TRUE]
        /\ UNCHANGED <<appVars, beforeRto>>

\* SendAck: a packet number is used up, but neither the sent list nor
\* m_highTxMark learns of it.
SendAck(e) ==
    /\ due[e]
    /\ due' = [due EXCEPT ![e] = FALSE]
    /\ SendPackets(e, rcvd[e], largestRcvd[e], {}, 0, 1)
    /\ UNCHANGED <<appVars, listVars, rxVars, rtoVars, highTx, alarmVars>>

\* An alarm that expires before m_nextAlarmTrigger does nothing.
CanceledAlarm(e) ==
    /\ armed[e] /\ stale[e] > 0
    /\ stale' = [stale EXCEPT ![e] = @ - 1]
    /\ UNCHANGED <<txVars, appVars, listVars, rxVars, due, rtoVars, highTx,
                   alarmType, armed>>

\* An alarm expires: the latest one, or a superseded one that outlives it.
\* calls: how often the handler calls SetReTxTimeout.
Expire(e, calls) ==
    /\ armed[e] \/ stale[e] > 0
    /\ LET left == IF armed[e] THEN stale[e] ELSE stale[e] - 1
       IN  IF calls = 0
           THEN /\ armed' = [armed EXCEPT ![e] = FALSE]
                /\ stale' = [stale EXCEPT ![e] = left]
                /\ UNCHANGED alarmType
           ELSE /\ alarmType' = [alarmType EXCEPT ![e] = AlarmFor(tlp[e])]
                /\ armed' = [armed EXCEPT ![e] = TRUE]
                /\ stale' = [stale EXCEPT ![e] = Min2(MaxStale, left + calls - 1)]

\* ReTxTimeout's probes: n packets in all, the first k of them with new data.
\* Only a packet with data is recorded and sets the next alarm.
SendProbes(e, n, k) ==
    /\ SendPackets(e, rcvd[e], largestRcvd[e], {}, k, n - k)
    /\ sent' = [sent EXCEPT ![e] = @ \cup Outgoing(e, {}, k)]
    /\ highTx' = [highTx EXCEPT ![e] = nextTx[e] + n]
    /\ Expire(e, k)
    /\ UNCHANGED <<appVars, sacked, rxVars, due>>

\* Faulty variant: the number of probes is not checked.
TailLossProbeUnlimited(e) ==
    /\ alarmType[e] = TlpAlarm
    /\ \E k \in 0..1 : SendProbes(e, 1, k)
    /\ tlp' = [tlp EXCEPT ![e] = @ + 1]
    /\ UNCHANGED <<rto, beforeRto>>

\* ReTxTimeout, tail loss probe.  The count is raised after the next alarm is set.
TailLossProbe(e) ==
    /\ alarmType[e] = TlpAlarm /\ tlp[e] < MaxTLPs
    /\ \E k \in 0..1 : SendProbes(e, 1, k)
    /\ tlp' = [tlp EXCEPT ![e] = @ + 1]
    /\ UNCHANGED <<rto, beforeRto>>

\* ReTxTimeout, retransmission timeout.
RetransmissionTimeout(e) ==
    /\ alarmType[e] = RtoAlarm
    /\ \E k \in 0..2 : SendProbes(e, 2, k)
    /\ rto' = [rto EXCEPT ![e] = TRUE]
    /\ beforeRto' = IF rto[e] THEN beforeRto ELSE [beforeRto EXCEPT ![e] = highTx[e]]
    /\ UNCHANGED tlp

\* ReTxTimeout, no branch applies: a tail-loss alarm after the last probe.
IdleTimeout(e) ==
    /\ alarmType[e] = TlpAlarm /\ tlp[e] = MaxTLPs
    /\ Expire(e, 0)
    /\ UNCHANGED <<txVars, appVars, listVars, rxVars, due, rtoVars, highTx>>

Next ==
    \E e \in Endpoint :
        \/ AppendingTx(e)
        \/ SendPendingData(e)
        \/ \E pn \in PN : ReceivedData(e, pn)
        \/ SendAck(e)
        \/ CanceledAlarm(e)
        \/ TailLossProbe(e)
        \/ RetransmissionTimeout(e)
        \/ IdleTimeout(e)

Spec == Init /\ [][Next]_vars

-----------------------------------------------------------------------------
\* A frame that left the transmission buffer is delivered to the peer or held
\* by a packet of the sent list that is not yet acknowledged: OnAckUpdate,
\* CleanSentList and Retransmission together never let data fall out of the
\* socket before the peer has it.
NoDataLost ==
    \A e \in Endpoint : \A f \in 1..taken[e] :
        \/ f \in delivered[Peer(e)]
        \/ \E pn \in sent[e] \ sacked[e] : f \in payload[e][pn]

\* Every acknowledgment ever sent is true: the numbers the peer's OnAckUpdate
\* will mark as acknowledged were received by the sender of the ACK frame.
AcksAreTrue ==
    \A e \in Endpoint : \A pn \in HandshakePns + 1 .. nextTx[e] :
        \A q \in PN : Covers(ack[e][pn], q) => q \in rcvd[e]

\* The attribute kMaxTLPs: "Maximum number of tail loss probes before an RTO
\* fires".  With the probes used up and data in flight, an alarm is pending
\* and it is the one of the retransmission timeout.
RtoFollowsProbes ==
    \A e \in Endpoint :
        tlp[e] = MaxTLPs /\ sent[e] # sacked[e] =>
            /\ armed[e] \/ stale[e] > 0
            /\ alarmType[e] = RtoAlarm

\* Retransmission moves data: no frame is in two packets of the sent list.
OneCopyOutstanding ==
    \A e \in Endpoint : \A p, q \in sent[e] :
        p # q => payload[e][p] \cap payload[e][q] = {}

-----------------------------------------------------------------------------
\* How the numbers hang together: the sent list holds numbers that were used,
\* and what was received was sent and is bounded by the largest received.
NumbersInv ==
    \A e \in Endpoint :
        /\ HandshakePns <= nextTx[e]
        /\ sent[e] \subseteq 1..nextTx[e]
        /\ sacked[e] \subseteq sent[e]
        /\ taken[e] <= written[e]
        /\ 1..written[e] \subseteq Frame
        /\ 1 \in rcvd[e]
        /\ rcvd[e] \subseteq 1..nextTx[Peer(e)]
        /\ \A r \in rcvd[e] : r <= largestRcvd[e]

\* ReceivedData passes the content of a packet up when it records its number.
ReceivedInv ==
    \A e \in Endpoint : \A pn \in rcvd[e] : payload[Peer(e)][pn] \subseteq delivered[e]

\* Retransmission moves data of the sent list, which came from the buffer.
CopiesInv ==
    /\ OneCopyOutstanding
    /\ \A e \in Endpoint : \A p \in sent[e] : payload[e][p] \subseteq 1..taken[e]

\* What holds however few gaps an ACK frame can report.
ListInv == DataTypeOK /\ NumbersInv /\ ReceivedInv /\ CopiesInv

\* The inductive invariant behind NoDataLost: an item leaves the sent list as
\* acknowledged only for an ACK that is true, and a number the peer received
\* is data the peer's streams have.
RecoveryInv == ListInv /\ AcksAreTrue /\ NoDataLost

=============================================================================
