---------------------- MODULE CongestionControlProofs ----------------------
(***************************************************************************)
(* Proofs about module CongestionControl, for every segment size,          *)
(* threshold, loss reduction factor and bound.                             *)
(***************************************************************************)
EXTENDS CongestionControl, TLAPS

-----------------------------------------------------------------------------
(* Arithmetic of the window. *)

\* The minimum window is two segments, and a segment is not empty.
LEMMA MinimumIsPositive == MinimumWindow \in Nat \ {0}
BY CongestionAssumption DEF MinimumWindow

\* The quotient of two naturals is a natural: the window stays a natural number
\* whatever OnPacketAckedCC adds to it and OnPacketsLost takes from it.
LEMMA QuotientIsNat ==
    ASSUME NEW a \in Nat, NEW b \in Nat \ {0}
    PROVE  a \div b \in Nat
OBVIOUS

\* Products of naturals are naturals.
LEMMA ProductIsNat ==
    ASSUME NEW a \in Nat, NEW b \in Nat
    PROVE  a * b \in Nat
OBVIOUS

\* A factor of at most one does not enlarge a window.
LEMMA FactorShrinks ==
    ASSUME NEW w \in Nat, NEW n \in Nat, NEW d \in Nat \ {0}, n <= d
    PROVE  (w * n) \div d <= w
<1>1. w * n <= w * d
  OBVIOUS
<1>2. w * n \in Nat /\ w * d \in Nat
  BY ProductIsNat
<1> DEFINE q == (w * n) \div d
<1>3. q \in Nat
  BY <1>2, QuotientIsNat
<1>4. q * d <= w * n
  BY <1>2
<1>5. q * d <= w * d
  BY <1>1, <1>2, <1>3, <1>4
<1>6. q <= w
  <2>1. SUFFICES ASSUME w + 1 <= q PROVE FALSE
    BY <1>3
  <2>2. (w + 1) * d <= q * d
    BY <2>1, <1>3
  <2>3. (w + 1) * d = w * d + d
    OBVIOUS
  <2> QED
    BY <2>2, <2>3, <1>5, <1>2, <1>3
<1> QED
  BY <1>6

\* The reduced window is a natural number, at least the floor, and not larger
\* than the window was, unless that was 0.
LEMMA ReducedWindow ==
    ASSUME NEW w \in Nat, w >= MinimumWindow \/ w = 0
    PROVE  /\ Reduced(w) \in Nat
           /\ Reduced(w) >= MinimumWindow
           /\ Reduced(w) <= w \/ (w = 0 /\ Reduced(w) = MinimumWindow)
<1> DEFINE r == (w * LossNum) \div LossDen
<1>1. LossNum \in Nat /\ LossDen \in Nat \ {0} /\ LossNum <= LossDen /\ MinimumWindow \in Nat
  BY CongestionAssumption, MinimumIsPositive
<1>2. r \in Nat
  BY <1>1, ProductIsNat, QuotientIsNat
<1>3. r <= w
  BY <1>1, FactorShrinks
<1>4. Reduced(w) = IF r < MinimumWindow THEN MinimumWindow ELSE r
  BY DEF Reduced
<1> HIDE DEF r
<1> QED
  BY <1>1, <1>2, <1>3, <1>4

-----------------------------------------------------------------------------
(* The inductive invariant. *)

Inv == TypeOK /\ CongestionInv

\* Initially nothing has been sent, and the window is the initial one or 0.
LEMMA InitInv == Init => Inv
<1> SUFFICES ASSUME Init PROVE Inv
  OBVIOUS
<1>1. OneCutPerFlight /\ deserved \in BOOLEAN /\ rto \in BOOLEAN
  BY Zenon DEF Init, OneCutPerFlight
<1>2. TypeOK
  BY <1>1, CongestionAssumption, MinimumIsPositive DEF Init, TypeOK
<1>3. WindowFloor /\ MarkInv
  BY MinimumIsPositive DEF Init, WindowFloor, MarkInv
<1> QED
  BY <1>1, <1>2, <1>3 DEF Inv, CongestionInv

\* What SendDataPacket does to the numbers: m_highTxMark is the last number used
\* when something is sent, so it covers the sent list.
LEMMA SendDataMarks ==
    ASSUME Inv, NEW n \in Nat, NEW k \in Nat, k <= n, NEW rest, rest \subseteq list,
           SendData(nextTx, n, nextTx + 1 .. nextTx + k, rest)
    PROVE  /\ nextTx' \in 0..MaxPn
           /\ highTx' \in 0..MaxPn
           /\ highTx <= highTx'
           /\ highTx' <= nextTx'
           /\ list' \in SUBSET PN
           /\ \A pn \in list' : pn <= highTx'
           /\ rest \subseteq list'
<1>1. MaxPn \in Nat /\ nextTx \in Nat /\ highTx \in Nat /\ highTx <= nextTx
      /\ list \subseteq PN /\ (\A pn \in list : pn <= highTx)
  BY CongestionAssumption DEF Inv, TypeOK, CongestionInv, MarkInv, PN
<1>2. /\ nextTx + n <= MaxPn
      /\ nextTx' = nextTx + n
      /\ highTx' = IF n > 0 THEN nextTx + n ELSE highTx
      /\ list' = rest \cup (nextTx + 1 .. nextTx + k)
  BY DEF SendData
<1>3. nextTx' \in 0..MaxPn /\ highTx' \in 0..MaxPn /\ highTx <= highTx' /\ highTx' <= nextTx'
  BY <1>1, <1>2
<1>4. ASSUME NEW pn \in list' PROVE pn \in PN /\ pn <= highTx'
  <2>1. CASE pn \in rest
    <3>1. pn \in list /\ pn \in PN /\ pn <= highTx
      BY <2>1, <1>1
    <3> QED
      BY <3>1, <1>1, <1>3 DEF PN
  <2>2. CASE pn \in nextTx + 1 .. nextTx + k
    BY <2>2, <1>1, <1>2 DEF PN
  <2> QED
    BY <2>1, <2>2, <1>2
<1> QED
  BY <1>2, <1>3, <1>4

\* An action that sends and leaves the window alone keeps the invariant.
LEMMA SendingKeepsInv ==
    ASSUME Inv, NEW n \in Nat, NEW k \in Nat, k <= n,
           SendData(nextTx, n, nextTx + 1 .. nextTx + k, list),
           UNCHANGED <<sacked, windowVars, todo, historyVars>>,
           rto' \in BOOLEAN, beforeRto' \in 0..MaxPn
    PROVE  Inv'
<1>1. /\ nextTx' \in 0..MaxPn /\ highTx' \in 0..MaxPn /\ highTx <= highTx'
      /\ highTx' <= nextTx' /\ list' \in SUBSET PN
      /\ (\A pn \in list' : pn <= highTx') /\ list \subseteq list'
  BY SendDataMarks
<1> QED
  BY <1>1
  DEF Inv, TypeOK, CongestionInv, WindowFloor, OneCutPerFlight, MarkInv, windowVars, historyVars

-----------------------------------------------------------------------------
(* The two actions that change the window. *)

\* OnPacketAckedCC never shrinks the window, and leaves it alone for a packet of
\* the recovery period; a window of 0 becomes the minimum.
LEMMA AckedWindow ==
    ASSUME Inv, NEW pn \in PN, NEW size \in Sizes
    PROVE  /\ OnPacketAckedCC(pn, size) \in Nat
           /\ OnPacketAckedCC(pn, size) >= MinimumWindow
           /\ InRecovery(pn) => OnPacketAckedCC(pn, size) = cWnd
<1>1. size \in Nat /\ SegSize \in Nat /\ MinimumWindow \in Nat \ {0} /\ cWnd \in Nat
      /\ pn \in Nat \ {0}
  BY CongestionAssumption, MinimumIsPositive DEF Inv, TypeOK, PN
<1>a. CASE ~ cWnd >= MinimumWindow
  <2>1. cWnd = 0 /\ ssThresh = 0 /\ endOfRecovery = 0
    BY <1>a DEF Inv, CongestionInv, WindowFloor
  <2>2. ~InRecovery(pn) /\ ~ cWnd < ssThresh /\ ~ cWnd > 0
    BY <1>1, <2>1 DEF InRecovery
  <2>3. OnPacketAckedCC(pn, size) = MinimumWindow
    BY <2>2 DEF OnPacketAckedCC
  <2> QED
    BY <1>1, <2>2, <2>3
<1>b. SUFFICES ASSUME cWnd >= MinimumWindow
               PROVE  /\ OnPacketAckedCC(pn, size) \in Nat
                      /\ OnPacketAckedCC(pn, size) >= cWnd
                      /\ InRecovery(pn) => OnPacketAckedCC(pn, size) = cWnd
  BY <1>1, <1>a
<1>2. cWnd \in Nat \ {0}
  BY <1>1, <1>b
<1> DEFINE q == (SegSize * size) \div cWnd
<1>3. q \in Nat
  BY <1>1, <1>2, ProductIsNat, QuotientIsNat
<1>4. OnPacketAckedCC(pn, size) = IF InRecovery(pn) THEN cWnd
                                  ELSE IF cWnd < ssThresh THEN cWnd + size
                                  ELSE cWnd + q
  BY <1>2 DEF OnPacketAckedCC
<1> HIDE DEF q
<1> QED
  BY <1>1, <1>2, <1>3, <1>4

\* OnPacketsLost: the window is cut for a packet sent after the last cut only,
\* and the new end of recovery covers the whole sent list.
LEMMA LostWindow ==
    ASSUME Inv, NEW lost \in SUBSET list, OnPacketsLost(lost)
    PROVE  /\ cWnd' \in Nat /\ ssThresh' \in Nat /\ endOfRecovery' \in 0..MaxPn
           /\ flight' \in SUBSET PN /\ deserved' \in BOOLEAN
           /\ WindowFloor'
           /\ cWnd' <= cWnd \/ (cWnd = 0 /\ cWnd' = MinimumWindow)
           /\ deserved'
           /\ \A pn \in flight' : pn <= endOfRecovery'
<1>1. cWnd \in Nat /\ (cWnd >= MinimumWindow \/ cWnd = 0) /\ highTx \in 0..MaxPn /\ list \subseteq PN
      /\ (\A pn \in list : pn <= highTx) /\ deserved
      /\ (\A pn \in flight : pn <= endOfRecovery) /\ flight \in SUBSET PN
      /\ endOfRecovery \in 0..MaxPn /\ ssThresh \in Nat /\ deserved \in BOOLEAN
  BY DEF Inv, TypeOK, CongestionInv, WindowFloor, OneCutPerFlight, MarkInv
<1>2. CASE \E pn \in lost : ~InRecovery(pn)
  <2>1. /\ endOfRecovery' = highTx
        /\ cWnd' = Reduced(cWnd)
        /\ ssThresh' = cWnd'
        /\ deserved' = (\E pn \in lost : pn \notin flight)
        /\ flight' = list
    BY <1>2 DEF OnPacketsLost
  <2>2. /\ Reduced(cWnd) \in Nat
        /\ Reduced(cWnd) >= MinimumWindow
        /\ Reduced(cWnd) <= cWnd \/ (cWnd = 0 /\ Reduced(cWnd) = MinimumWindow)
    BY <1>1, ReducedWindow
  <2>3. \E pn \in lost : pn \notin flight
    BY <1>1, <1>2 DEF InRecovery
  <2> QED
    BY <1>1, <2>1, <2>2, <2>3 DEF WindowFloor
<1>3. CASE ~ \E pn \in lost : ~InRecovery(pn)
  <2>1. UNCHANGED <<windowVars, historyVars>>
    BY <1>3 DEF OnPacketsLost
  <2>2. cWnd' = cWnd /\ cWnd \in Nat /\ cWnd' <= cWnd
    BY <1>1, <2>1 DEF windowVars
  <2>3. WindowFloor'
    BY <2>1 DEF Inv, CongestionInv, WindowFloor, windowVars, historyVars
  <2> QED
    BY <1>1, <2>1, <2>2, <2>3 DEF windowVars, historyVars
<1> QED
  BY <1>2, <1>3

\* OnReceivedAckFrame keeps the invariant and does not enlarge the window, unless
\* that is still 0.
LEMMA AckFrameStep ==
    ASSUME Inv, NEW new \in SUBSET (list \ sacked),
           NEW lost \in SUBSET (list \ (sacked \cup new)), NEW largest \in 1..nextTx,
           OnReceivedAckFrame(new, lost, largest)
    PROVE  Inv' /\ (cWnd' <= cWnd \/ (cWnd = 0 /\ cWnd' = MinimumWindow))
<1> DEFINE sacks == sacked \cup new
           kept  == CleanSentList(sacks)
           retx  == IF lost = {} THEN 0 ELSE 1
<1>1. PICK k \in 0..MaxPn :
          SendData(nextTx, retx + k, nextTx + 1 .. nextTx + retx + k, kept \ lost)
  BY DEF OnReceivedAckFrame
<1>2. /\ OnPacketsLost(lost)
      /\ rto' = (rto /\ beforeRto < largest)
      /\ sacked' = sacks \cap kept
      /\ todo' = new \ kept
      /\ UNCHANGED beforeRto
  BY DEF OnReceivedAckFrame
<1>3. kept \subseteq list
  BY DEF CleanSentList
<1>4. retx + k \in Nat /\ nextTx + retx + k = nextTx + (retx + k) /\ nextTx \in Nat
  BY CongestionAssumption DEF Inv, TypeOK
<1>5. SendData(nextTx, retx + k, nextTx + 1 .. nextTx + (retx + k), kept \ lost)
  BY <1>1, <1>4
<1>6. kept \ lost \subseteq list
  BY <1>3
<1> HIDE DEF kept, retx
<1>7. /\ nextTx' \in 0..MaxPn /\ highTx' \in 0..MaxPn /\ highTx <= highTx'
      /\ highTx' <= nextTx' /\ list' \in SUBSET PN
      /\ (\A pn \in list' : pn <= highTx') /\ kept \ lost \subseteq list'
  <2>1. retx + k <= retx + k
    BY <1>4
  <2> QED
    BY <1>4, <1>5, <1>6, <2>1, SendDataMarks
<1>8. /\ cWnd' \in Nat /\ ssThresh' \in Nat /\ endOfRecovery' \in 0..MaxPn
      /\ flight' \in SUBSET PN /\ deserved' \in BOOLEAN
      /\ WindowFloor'
      /\ cWnd' <= cWnd \/ (cWnd = 0 /\ cWnd' = MinimumWindow)
      /\ deserved'
      /\ \A pn \in flight' : pn <= endOfRecovery'
  BY <1>2, LostWindow
<1>9. sacked' \subseteq list' /\ sacked' \in SUBSET PN
  <2>1. lost \cap sacks = {}
    OBVIOUS
  <2>2. sacked' \subseteq kept \ lost
    BY <1>2, <2>1
  <2> QED
    BY <2>2, <1>7
<1>10. todo' \in SUBSET PN
  BY <1>2 DEF Inv, TypeOK
<1>11. rto' \in BOOLEAN /\ beforeRto' \in 0..MaxPn
  BY <1>2 DEF Inv, TypeOK
<1> QED
  BY <1>7, <1>8, <1>9, <1>10, <1>11
  DEF Inv, TypeOK, CongestionInv, OneCutPerFlight, MarkInv

\* OnPacketAcked keeps the invariant; only a packet sent after the last cut
\* enlarges the window.
LEMMA PacketAckedStep ==
    ASSUME Inv, NEW pn \in todo, NEW size \in Sizes, OnPacketAcked(pn, size)
    PROVE  /\ Inv'
           /\ cWnd' > cWnd => pn \in todo \ todo' /\ pn \notin flight
<1>1. cWnd \in Nat /\ pn \in PN /\ pn \in Nat \ {0} /\ MinimumWindow \in Nat
      /\ endOfRecovery \in Nat /\ (\A q \in flight : q <= endOfRecovery)
      /\ (cWnd >= MinimumWindow \/ flight = {})
  BY CongestionAssumption, MinimumIsPositive
  DEF Inv, TypeOK, CongestionInv, WindowFloor, MarkInv, PN
<1>2. /\ OnPacketAckedCC(pn, size) \in Nat
      /\ OnPacketAckedCC(pn, size) >= MinimumWindow
      /\ InRecovery(pn) => OnPacketAckedCC(pn, size) = cWnd
  BY <1>1, AckedWindow
<1>3. /\ cWnd' = IF rto /\ pn > beforeRto THEN MinimumWindow ELSE OnPacketAckedCC(pn, size)
      /\ rto' = FALSE
      /\ todo' = todo \ {pn}
      /\ UNCHANGED <<sacked, ssThresh, endOfRecovery, beforeRto, historyVars>>
  BY DEF OnPacketAcked
<1>4. cWnd' \in Nat /\ cWnd' >= MinimumWindow
  BY <1>1, <1>2, <1>3
<1>5. cWnd' > cWnd => ~InRecovery(pn) \/ flight = {}
  BY <1>1, <1>2, <1>3
<1>6. cWnd' > cWnd => pn \notin flight
  BY <1>1, <1>5 DEF InRecovery
<1>7. /\ nextTx' \in 0..MaxPn /\ highTx' \in 0..MaxPn
      /\ highTx' <= nextTx' /\ list' \in SUBSET PN
      /\ (\A q \in list' : q <= highTx') /\ list \subseteq list'
  <2>1. CASE todo' = {}
    <3>1. PICK k \in 0..MaxPn : SendData(nextTx, k, nextTx + 1 .. nextTx + k, list)
      BY <2>1 DEF OnPacketAcked
    <3>2. k \in Nat /\ k <= k
      OBVIOUS
    <3> QED
      BY <3>1, <3>2, SendDataMarks
  <2>2. CASE todo' # {}
    <3>1. UNCHANGED <<txVars, list>>
      BY <2>2 DEF OnPacketAcked
    <3> QED
      BY <3>1 DEF txVars, Inv, TypeOK, CongestionInv, MarkInv
  <2> QED
    BY <2>1, <2>2
<1>8. Inv'
  BY <1>3, <1>4, <1>7
  DEF Inv, TypeOK, CongestionInv, WindowFloor, OneCutPerFlight, MarkInv, historyVars
<1> QED
  BY <1>3, <1>6, <1>8

-----------------------------------------------------------------------------
\* One step of the controller: the invariant is kept, and the window grows only
\* for a packet that was not in flight at the last cut, or from 0 to the minimum.
LEMMA StepFacts ==
    ASSUME Inv, [Next]_vars
    PROVE  /\ Inv'
           /\ cWnd' > cWnd => \/ \E pn \in todo \ todo' : pn \notin flight
                              \/ cWnd = 0 /\ cWnd' = MinimumWindow
<1>0. cWnd \in Nat /\ MaxPn \in Nat /\ nextTx \in Nat /\ highTx \in 0..MaxPn /\ rto \in BOOLEAN
      /\ beforeRto \in 0..MaxPn
  BY CongestionAssumption DEF Inv, TypeOK
<1>1. CASE SendPendingData
  <2>1. PICK n \in 1..MaxPn : SendData(nextTx, n, nextTx + 1 .. nextTx + n, list)
    BY <1>1 DEF SendPendingData
  <2>2. UNCHANGED <<sacked, windowVars, rtoVars, todo, historyVars>>
    BY <1>1 DEF SendPendingData
  <2>3. n \in Nat /\ n <= n /\ rto' \in BOOLEAN /\ beforeRto' \in 0..MaxPn
    BY <1>0, <2>2 DEF rtoVars
  <2>4. Inv'
    BY <2>1, <2>2, <2>3, SendingKeepsInv
  <2> QED
    BY <1>0, <2>2, <2>4 DEF windowVars
<1>2. CASE SendAck
  <2>1. nextTx' = nextTx + 1 /\ nextTx < MaxPn
        /\ UNCHANGED <<highTx, list, sacked, windowVars, rtoVars, todo, historyVars>>
    BY <1>2 DEF SendAck
  <2>2. nextTx' \in 0..MaxPn /\ (highTx <= nextTx => highTx' <= nextTx')
    BY <1>0, <2>1
  <2>3. Inv'
    BY <2>1, <2>2
    DEF Inv, TypeOK, CongestionInv, WindowFloor, OneCutPerFlight, MarkInv,
        windowVars, rtoVars, historyVars
  <2> QED
    BY <1>0, <2>1, <2>3 DEF windowVars
<1>3. CASE TailLossProbe
  <2>1. PICK k \in 0..1 : SendData(nextTx, 1, nextTx + 1 .. nextTx + k, list)
    BY <1>3 DEF TailLossProbe
  <2>2. UNCHANGED <<sacked, windowVars, rtoVars, todo, historyVars>>
    BY <1>3 DEF TailLossProbe
  <2>3. k \in Nat /\ k <= 1 /\ rto' \in BOOLEAN /\ beforeRto' \in 0..MaxPn
    BY <1>0, <2>2 DEF rtoVars
  <2>4. Inv'
    BY <2>1, <2>2, <2>3, SendingKeepsInv
  <2> QED
    BY <1>0, <2>2, <2>4 DEF windowVars
<1>4. CASE RetransmissionTimeout
  <2>1. PICK k \in 0..2 : SendData(nextTx, 2, nextTx + 1 .. nextTx + k, list)
    BY <1>4 DEF RetransmissionTimeout
  <2>2. UNCHANGED <<sacked, windowVars, todo, historyVars>> /\ rto' = TRUE
        /\ beforeRto' = IF rto THEN beforeRto ELSE highTx
    BY <1>4 DEF RetransmissionTimeout
  <2>3. k \in Nat /\ k <= 2 /\ rto' \in BOOLEAN /\ beforeRto' \in 0..MaxPn
    BY <1>0, <2>2
  <2>4. Inv'
    BY <2>1, <2>2, <2>3, SendingKeepsInv
  <2> QED
    BY <1>0, <2>2, <2>4 DEF windowVars
<1>5. ASSUME NEW new \in SUBSET (list \ sacked),
             NEW lost \in SUBSET (list \ (sacked \cup new)), NEW largest \in 1..nextTx,
             OnReceivedAckFrame(new, lost, largest)
      PROVE  /\ Inv'
             /\ cWnd' > cWnd => \/ \E pn \in todo \ todo' : pn \notin flight
                                \/ cWnd = 0 /\ cWnd' = MinimumWindow
  <2>1. Inv' /\ (cWnd' <= cWnd \/ (cWnd = 0 /\ cWnd' = MinimumWindow))
    BY <1>5, AckFrameStep
  <2>2. cWnd' \in Nat
    BY <2>1 DEF Inv, TypeOK
  <2> QED
    BY <1>0, <2>1, <2>2
<1>6. ASSUME NEW pn \in todo, NEW size \in Sizes, OnPacketAcked(pn, size)
      PROVE  /\ Inv'
             /\ cWnd' > cWnd => \/ \E q \in todo \ todo' : q \notin flight
                                \/ cWnd = 0 /\ cWnd' = MinimumWindow
  <2>1. Inv' /\ (cWnd' > cWnd => pn \in todo \ todo' /\ pn \notin flight)
    BY <1>6, PacketAckedStep
  <2> QED
    BY <2>1
<1>7. CASE UNCHANGED vars
  <2>1. Inv'
    BY <1>7
    DEF Inv, TypeOK, CongestionInv, WindowFloor, OneCutPerFlight, MarkInv, vars, txVars,
        windowVars, rtoVars, historyVars
  <2> QED
    BY <1>0, <1>7, <2>1 DEF vars, windowVars
<1> QED
  BY <1>1, <1>2, <1>3, <1>4, <1>5, <1>6, <1>7 DEF Next

-----------------------------------------------------------------------------
\* TypeOK and CongestionInv together are inductive.
LEMMA InvAlways == Spec => []Inv
<1>1. Init => Inv
  BY InitInv
<1>2. Inv /\ [Next]_vars => Inv'
  BY StepFacts
<1> QED
  BY <1>1, <1>2, PTL DEF Spec

\* The congestion controller's variables keep their types.
THEOREM TypeCorrect == Spec => []TypeOK
<1>1. Inv => TypeOK
  BY DEF Inv
<1> QED
  BY <1>1, InvAlways, PTL

\* The floor of the window (but for a window that is still the 0 it was created
\* with), at most one cut per flight, and what they rest on, for every segment
\* size, threshold, loss reduction factor and pattern of loss.
THEOREM CongestionInvariant == Spec => []CongestionInv
<1>1. Inv => CongestionInv
  BY DEF Inv
<1> QED
  BY <1>1, InvAlways, PTL

\* OnPacketsLost cuts the window at most once for the packets in flight.
THEOREM OneCutPerFlightHolds == Spec => []OneCutPerFlight
<1>1. Inv => OneCutPerFlight
  BY DEF Inv, CongestionInv
<1> QED
  BY <1>1, InvAlways, PTL

\* An acknowledgment of a packet that was in flight when the window was cut does
\* not enlarge the window (OnPacketAckedCC's return in the recovery period), and a
\* loss enlarges it only from the 0 it was created with to m_kMinimumWindow.
THEOREM NoGrowthFromFlightHolds == Spec => NoGrowthFromFlight
<1>1. Inv /\ [Next]_vars =>
          [cWnd' > cWnd => \/ \E pn \in todo \ todo' : pn \notin flight
                           \/ cWnd = 0 /\ cWnd' = MinimumWindow]_vars
  BY StepFacts
<1> QED
  BY <1>1, InvAlways, PTL DEF Spec, NoGrowthFromFlight
=============================================================================
