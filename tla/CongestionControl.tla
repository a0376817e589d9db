------------------------- MODULE CongestionControl -------------------------
(***************************************************************************)
(* The QUIC congestion controller (QuicCongestionOps) of one path, driven  *)
(* by OnReceivedAckFrame, SendDataPacket and the alarms.  Which packets    *)
(* an ACK covers and which are declared lost is chosen freely: that is the *)
(* subject of module LossRecovery.  The size of a packet, which matters    *)
(* only when the packet is acknowledged, is chosen then.                   *)
(*                                                                         *)
(* OnAckReceived loops over the acknowledged packets, lowest number first. *)
(* A step of the loop is a step of the model (OnPacketAcked); no other     *)
(* action is possible until the loop has ended.                            *)
(***************************************************************************)
EXTENDS Integers, FiniteSets

CONSTANTS MaxPn,          \* bound: packet numbers
          SegSize,        \* m_segmentSize
          Sizes,          \* sizes of data packets
          InitialThresh,  \* m_initialSsThresh
          LossNum,        \* m_kLossReductionFactor is LossNum / LossDen
          LossDen

ASSUME CongestionAssumption ==
    /\ MaxPn \in Nat
    /\ SegSize \in Nat \ {0}
    /\ Sizes \subseteq Nat
    /\ InitialThresh \in Nat
    /\ LossNum \in Nat
    /\ LossDen \in Nat \ {0}
    /\ LossNum <= LossDen

PN == 1..MaxPn

\* m_kMinimumWindow, and m_initialCWnd with it (SetSegSize).
MinimumWindow == 2 * SegSize

VARIABLES nextTx,         \* m_nextTxSequence
          list,           \* packet numbers in m_subflowSentList
          sacked,         \* those with m_sacked set
          highTx,         \* m_highTxMark
          cWnd,           \* m_cWnd
          ssThresh,       \* m_ssThresh
          endOfRecovery,  \* m_endOfRecovery
          rto,            \* m_rtoCount > 0
          beforeRto,      \* m_largestSentBeforeRto
          todo,           \* acknowledged packets OnAckReceived has yet to process
          flight,         \* history: packets in the sent list when cWnd was last cut
          deserved        \* history: that cut was due to a packet sent after the one before

txVars == <<nextTx, highTx>>
windowVars == <<cWnd, ssThresh, endOfRecovery>>
rtoVars == <<rto, beforeRto>>
historyVars == <<flight, deserved>>
vars == <<txVars, list, sacked, windowVars, rtoVars, todo, historyVars>>

TypeOK ==
    /\ nextTx \in 0..MaxPn
    /\ list \in SUBSET PN
    /\ sacked \in SUBSET PN
    /\ highTx \in 0..MaxPn
    /\ cWnd \in Nat
    /\ ssThresh \in Nat
    /\ endOfRecovery \in 0..MaxPn
    /\ rto \in BOOLEAN
    /\ beforeRto \in 0..MaxPn
    /\ todo \in SUBSET PN
    /\ flight \in SUBSET PN
    /\ deserved \in BOOLEAN

\* Every path is created with the window and the threshold 0, which the subflow's
\* constructor copies before SetSegSize and the path manager set the initial
\* values.  Connecting with an INITIAL packet, and adding a further path, then
\* copies those; nothing does for path 0 of a server or of a 0-RTT client.
Init ==
    /\ nextTx = 0
    /\ list = {}
    /\ sacked = {}
    /\ highTx = 0
    /\ \/ cWnd = MinimumWindow /\ ssThresh = InitialThresh
       \/ cWnd = 0 /\ ssThresh = 0
    /\ endOfRecovery = 0
    /\ rto = FALSE
    /\ beforeRto = 0
    /\ todo = {}
    /\ flight = {}
    /\ deserved = TRUE

\* Mutant: m_highTxMark is not advanced.
SendDataKeepMark(first, n, recorded, rest) ==
    /\ first + n <= MaxPn
    /\ nextTx' = first + n
    /\ UNCHANGED highTx
    /\ list' = rest \cup recorded

\* SendDataPacket for the n numbers after first: the packets in recorded hold
\* data and enter the sent list, of which rest is left.
SendData(first, n, recorded, rest) ==
    /\ first + n <= MaxPn
    /\ nextTx' = first + n
    /\ highTx' = IF n > 0 THEN first + n ELSE highTx
    /\ list' = rest \cup recorded

\* The application writes or the pacing timer expires: n packets leave.
SendPendingData ==
    /\ todo = {}
    /\ \E n \in 1..MaxPn : SendData(nextTx, n, nextTx + 1 .. nextTx + n, list)
    /\ UNCHANGED <<sacked, windowVars, rtoVars, todo, historyVars>>

\* SendAck uses a number but the congestion controller is not told.
SendAck ==
    /\ todo = {}
    /\ nextTx < MaxPn
    /\ nextTx' = nextTx + 1
    /\ UNCHANGED <<highTx, list, sacked, windowVars, rtoVars, todo, historyVars>>

\* ReTxTimeout, tail loss probe: one packet, with data if there is some.
TailLossProbe ==
    /\ todo = {}
    /\ \E k \in 0..1 : SendData(nextTx, 1, nextTx + 1 .. nextTx + k, list)
    /\ UNCHANGED <<sacked, windowVars, rtoVars, todo, historyVars>>

\* ReTxTimeout, RTO: two packets, with data as far as there is some.
RetransmissionTimeout ==
    /\ todo = {}
    /\ rto' = TRUE
    /\ beforeRto' = IF rto THEN beforeRto ELSE highTx
    /\ \E k \in 0..2 : SendData(nextTx, 2, nextTx + 1 .. nextTx + k, list)
    /\ UNCHANGED <<sacked, windowVars, todo, historyVars>>

\* Mutant: the last packet of the recovery period counts as sent after it.
InRecoveryShort(pn) == pn < endOfRecovery

InRecovery(pn) == pn <= endOfRecovery

Reduced(w) ==
    LET r == (w * LossNum) \div LossDen
    IN  IF r < MinimumWindow THEN MinimumWindow ELSE r

\* OnPacketsLost looks at the last packet of the vector, the largest number: it
\* is behind the recovery period if and only if some number is.
OnPacketsLost(lost) ==
    IF \E pn \in lost : ~InRecovery(pn)
    THEN /\ endOfRecovery' = highTx
         /\ cWnd' = Reduced(cWnd)
         /\ ssThresh' = cWnd'
         /\ deserved' = (\E pn \in lost : pn \notin flight)
         /\ flight' = list
    ELSE UNCHANGED <<windowVars, historyVars>>

\* The items CleanSentList leaves in the sent list when sacks are acknowledged.
CleanSentList(sacks) == {pn \in list : \E q \in list \ sacks : q <= pn}

\* An ACK arrives that newly acknowledges new, up to the number largest, and
\* makes the packets in lost lost: the window is reduced, the lost content goes
\* into one new packet, and the packets removed from the sent list are passed
\* to OnAckReceived.  Without any, SendPendingData ends the handler.
OnReceivedAckFrame(new, lost, largest) ==
    LET sacks == sacked \cup new
        kept  == CleanSentList(sacks)
        acked == new \ kept
        retx  == IF lost = {} THEN 0 ELSE 1
    IN  /\ todo = {}
        /\ OnPacketsLost(lost)
        /\ rto' = (rto /\ beforeRto < largest)
        /\ sacked' = sacks \cap kept
        /\ todo' = acked
        /\ \E k \in 0..MaxPn :
              /\ acked # {} => k = 0
              /\ SendData(nextTx, retx + k, nextTx + 1 .. nextTx + retx + k,
                          kept \ lost)
        /\ UNCHANGED beforeRto

\* Mutant: packets of the recovery period let the window grow.
OnPacketAckedCCAlways(pn, size) ==
    IF cWnd < ssThresh THEN cWnd + size
    ELSE IF cWnd > 0 THEN cWnd + (SegSize * size) \div cWnd
    ELSE MinimumWindow

\* OnPacketAckedCC: the window after the acknowledgment of a packet of the given
\* size.
OnPacketAckedCC(pn, size) ==
    IF InRecovery(pn) THEN cWnd
    ELSE IF cWnd < ssThresh THEN cWnd + size
    ELSE IF cWnd > 0 THEN cWnd + (SegSize * size) \div cWnd
    ELSE MinimumWindow

\* OnAckReceived, the loop: pn is the next acknowledged packet.  After the last
\* one OnReceivedAckFrame ends with SendPendingData.
OnPacketAcked(pn, size) ==
    /\ pn \in todo
    /\ \A q \in todo : pn <= q
    /\ cWnd' = IF rto /\ pn > beforeRto
               THEN MinimumWindow
               ELSE OnPacketAckedCC(pn, size)
    /\ rto' = FALSE
    /\ todo' = todo \ {pn}
    /\ IF todo' = {}
       THEN \E k \in 0..MaxPn :
                SendData(nextTx, k, nextTx + 1 .. nextTx + k, list)
       ELSE UNCHANGED <<txVars, list>>
    /\ UNCHANGED <<sacked, ssThresh, endOfRecovery, beforeRto, historyVars>>

Next ==
    \/ SendPendingData
    \/ SendAck
    \/ TailLossProbe
    \/ RetransmissionTimeout
    \/ \E new \in SUBSET (list \ sacked) :
       \E lost \in SUBSET (list \ (sacked \cup new)) :
       \E largest \in 1..nextTx :
           /\ \A pn \in new : pn <= largest
           /\ OnReceivedAckFrame(new, lost, largest)
    \/ \E pn \in todo, size \in Sizes : OnPacketAcked(pn, size)

Spec == Init /\ [][Next]_vars
-----------------------------------------------------------------------------
\* The window is never below m_kMinimumWindow, whatever is lost, except on a
\* path that was created with the window 0: there it stays 0 until the first
\* acknowledgment or loss, which takes it to the minimum.
WindowFloor ==
    \/ cWnd >= MinimumWindow
    \/ cWnd = 0 /\ ssThresh = 0 /\ endOfRecovery = 0 /\ flight = {}

\* The window is cut at most once for the packets in flight: every cut after
\* the first is due to a packet that was sent after the cut before it.
OneCutPerFlight == deserved

\* Packets that were in flight when the window was cut do not let it grow when
\* they are acknowledged later, and nothing else does: only a window that was
\* created 0 is also raised by a loss, to the minimum and no further.
NoGrowthFromFlight ==
    [][cWnd' > cWnd =>
          \/ \E pn \in todo \ todo' : pn \notin flight
          \/ cWnd = 0 /\ cWnd' = MinimumWindow]_vars

\* What makes the two hold: m_highTxMark covers every packet in the sent list,
\* m_endOfRecovery covers the packets that were in flight at the last cut.
MarkInv ==
    /\ highTx <= nextTx
    /\ \A pn \in list : pn <= highTx
    /\ \A pn \in flight : pn <= endOfRecovery
    /\ sacked \subseteq list

CongestionInv == WindowFloor /\ OneCutPerFlight /\ MarkInv
=============================================================================
