------------------------- MODULE LossRecoveryProofs -------------------------
(***************************************************************************)
(* Proofs about LossRecovery for every bound, every reordering threshold   *)
(* and every number of probes.  ListInv is inductive as it stands.         *)
(* RecoveryInv is inductive when the ACK frames have room for every gap;   *)
(* with fewer gaps it is false, which the run over LossRecoveryGaps.cfg    *)
(* shows.                                                                  *)
(***************************************************************************)
EXTENDS LossRecovery, FiniteSetTheorems, TLAPS

\* The peer of an endpoint is the other endpoint.
LEMMA PeerFacts ==
    \A e \in Endpoint : Peer(e) \in Endpoint /\ Peer(e) # e /\ Peer(Peer(e)) = e
  BY EndpointAssumption DEF Endpoint, Peer

\* OnSendingAckFrame builds a well-formed ACK frame.
LEMMA AckFrameType ==
    ASSUME NEW R \in SUBSET PN, NEW L \in PN
    PROVE  OnSendingAckFrame(R, L) \in AckFrame
  <1>1. Missing(R, L) \subseteq PN
    BY BoundAssumption DEF Missing, PN
  <1>2. QED BY <1>1, BoundAssumption DEF OnSendingAckFrame, AckFrame, PN

\* With room for every gap, an ACK frame covers received numbers only.
LEMMA AckTruth ==
    ASSUME MaxTrackedGaps >= MaxPn,
           NEW R \in SUBSET PN, NEW L \in PN, 1 \in R,
           NEW q \in PN, Covers(OnSendingAckFrame(R, L), q)
    PROVE  q \in R
  <1> SUFFICES ASSUME q \notin R PROVE FALSE
    OBVIOUS
  <1>1. q \in 1..L /\ q \notin Missing(R, L)
    BY DEF Covers, OnSendingAckFrame, PN
  <1>2. \E r \in R : r < q
    BY DEF PN
  <1>3. GapsAbove(R, L, q) <= MaxTrackedGaps
    <2> DEFINE G == {g \in q..L : g \notin R /\ g + 1 \in R}
    <2>1. IsFiniteSet(q..L) /\ Cardinality(q..L) <= MaxPn
      BY <1>1, FS_Interval, BoundAssumption DEF PN
    <2>2. /\ Cardinality(q..L) \in Nat
          /\ Cardinality(G) <= Cardinality(q..L)
          /\ Cardinality(G) \in Nat
      BY <2>1, FS_Subset, FS_CardinalityType
    <2>3. QED BY <2>1, <2>2, BoundAssumption DEF GapsAbove
  <1>4. QED BY <1>1, <1>2, <1>3 DEF Missing

\* What the packets lost carry, whether SendPackets begins with it, and the last
\* number it uses.
Content(e, lost) == UNION {payload[e][q] : q \in lost}
Retx(lost) == IF lost = {} THEN 0 ELSE 1
Last(e, lost, k, j) == nextTx[e] + Retx(lost) + k + j

\* What SendPackets does to the packets of e.
SendOutcome(e, R, L, lost, k, j) ==
    /\ nextTx' = [nextTx EXCEPT ![e] = nextTx[e] + Retx(lost) + k + j]
    /\ taken' = [taken EXCEPT ![e] = taken[e] + k]
    /\ taken[e] + k <= written[e]
    /\ nextTx[e] + Retx(lost) + k + j \in 0..MaxPn
    /\ payload' \in [Endpoint -> [PN -> SUBSET Frame]]
    /\ ack' \in [Endpoint -> [PN -> AckFrame]]
    /\ \A x \in Endpoint : x # e =>
          payload'[x] = payload[x] /\ ack'[x] = ack[x]
    /\ \A pn \in 1..nextTx[e] :
          payload'[e][pn] = payload[e][pn] /\ ack'[e][pn] = ack[e][pn]
    /\ \A pn \in nextTx[e] + 1 .. nextTx[e] + Retx(lost) + k + j :
          ack'[e][pn] = OnSendingAckFrame(R, L)
    /\ lost # {} => payload'[e][nextTx[e] + 1] =
          Content(e, lost)
    /\ \A i \in 1..k :
          payload'[e][nextTx[e] + Retx(lost) + i] = {taken[e] + i}

\* SendPackets does it.
LEMMA SendFacts ==
    ASSUME DataTypeOK, NumbersInv, NEW e \in Endpoint,
           NEW R \in SUBSET PN, NEW L \in PN, NEW lost \in SUBSET PN,
           NEW k \in Nat, NEW j \in Nat, SendPackets(e, R, L, lost, k, j)
    PROVE  SendOutcome(e, R, L, lost, k, j)
  <1> DEFINE retx == Retx(lost)
             first == nextTx[e] + retx
             last == first + k + j
             P == [pn \in PN |->
                     IF pn = first /\ retx = 1
                     THEN UNION {payload[e][q] : q \in lost}
                     ELSE IF first < pn /\ pn <= first + k
                          THEN {taken[e] + pn - first}
                          ELSE payload[e][pn]]
             A == [pn \in PN |-> IF nextTx[e] < pn /\ pn <= last
                                 THEN OnSendingAckFrame(R, L)
                                 ELSE ack[e][pn]]
  <1>1. /\ taken[e] + k <= written[e]
        /\ last <= LastPn(e)
        /\ nextTx' = [nextTx EXCEPT ![e] = last]
        /\ taken' = [taken EXCEPT ![e] = taken[e] + k]
        /\ payload' = [payload EXCEPT ![e] = P]
        /\ ack' = [ack EXCEPT ![e] = A]
    BY DEF SendPackets, Retx
  <1>a. retx \in Nat /\ (lost = {} => retx = 0) /\ (lost # {} => retx = 1)
    BY DEF Retx
  <1> HIDE DEF retx
  <1>b. MaxPn \in Nat /\ LastPn(e) \in 0..MaxPn
    BY BoundAssumption DEF LastPn
  <1>c. nextTx[e] \in 0..MaxPn /\ taken[e] \in Nat /\ written[e] \in Nat
    BY DEF DataTypeOK
  <1>2. /\ nextTx[e] \in Nat /\ first \in Nat /\ last \in 0..MaxPn
        /\ taken[e] \in Nat /\ written[e] \in Nat
    BY <1>1, <1>a, <1>b, <1>c
  <1>3. P \in [PN -> SUBSET Frame]
    <2> SUFFICES ASSUME NEW pn \in PN PROVE P[pn] \subseteq Frame
      OBVIOUS
    <2>1. payload[e] \in [PN -> SUBSET Frame]
      BY DEF DataTypeOK
    <2>2. UNION {payload[e][q] : q \in lost} \subseteq Frame
      BY <2>1
    <2>3. first < pn /\ pn <= first + k => taken[e] + pn - first \in 1..written[e]
      <3>1. taken[e] + k <= written[e] /\ pn \in Nat
        BY <1>1, <1>b DEF PN
      <3> HIDE DEF first
      <3>2. QED BY <3>1, <1>2
    <2>4. 1..written[e] \subseteq Frame
      BY DEF NumbersInv
    <2>5. QED BY <2>1, <2>2, <2>3, <2>4
  <1>4. A \in [PN -> AckFrame]
    BY AckFrameType DEF DataTypeOK
  <1>5. payload' \in [Endpoint -> [PN -> SUBSET Frame]] /\ payload'[e] = P
    BY <1>1, <1>3 DEF DataTypeOK
  <1>6. ack' \in [Endpoint -> [PN -> AckFrame]] /\ ack'[e] = A
    BY <1>1, <1>4 DEF DataTypeOK
  <1>7. \A x \in Endpoint : x # e => payload'[x] = payload[x] /\ ack'[x] = ack[x]
    BY <1>1 DEF DataTypeOK
  <1>8. \A pn \in 1..nextTx[e] : payload'[e][pn] = payload[e][pn] /\ ack'[e][pn] = ack[e][pn]
    <2> SUFFICES ASSUME NEW pn \in 1..nextTx[e]
                 PROVE  payload'[e][pn] = payload[e][pn] /\ ack'[e][pn] = ack[e][pn]
      OBVIOUS
    <2>1. pn \in PN /\ ~(nextTx[e] < pn) /\ ~(first < pn) /\ ~(pn = first /\ retx = 1)
      BY <1>2, <1>a, <1>b, <1>c DEF PN
    <2>2. P[pn] = payload[e][pn] /\ A[pn] = ack[e][pn]
      BY <2>1
    <2>3. QED BY <2>2, <1>5, <1>6
  <1>9. \A pn \in nextTx[e] + 1 .. last : ack'[e][pn] = OnSendingAckFrame(R, L)
    <2> SUFFICES ASSUME NEW pn \in nextTx[e] + 1 .. last
                 PROVE  A[pn] = OnSendingAckFrame(R, L)
      BY <1>6
    <2>1. pn \in PN /\ nextTx[e] < pn /\ pn <= last
      BY <1>2, <1>a, <1>b DEF PN
    <2>2. QED BY <2>1
  <1>10. lost # {} => payload'[e][nextTx[e] + 1] = Content(e, lost)
    <2> SUFFICES ASSUME lost # {}
                 PROVE  P[nextTx[e] + 1] = UNION {payload[e][q] : q \in lost}
      BY <1>5 DEF Content
    <2>1. retx = 1 /\ first = nextTx[e] + 1 /\ first \in PN
      BY <1>2, <1>a, <1>b DEF PN
    <2>2. P[first] = UNION {payload[e][x] : x \in lost}
      BY <2>1
    <2>3. QED BY <2>1, <2>2
  <1>11. \A i \in 1..k : payload'[e][first + i] = {taken[e] + i}
    <2> SUFFICES ASSUME NEW i \in 1..k PROVE P[first + i] = {taken[e] + i}
      BY <1>5
    <2>1. /\ first + i \in PN /\ first < first + i /\ first + i <= first + k
          /\ first + i # first /\ taken[e] + (first + i) - first = taken[e] + i
      BY <1>2, <1>a, <1>b DEF PN
    <2>2. QED BY <2>1
  <1>12. QED BY <1>1, <1>2, <1>5, <1>6, <1>7, <1>8, <1>9, <1>10, <1>11 DEF retx, SendOutcome

-----------------------------------------------------------------------------
\* The step every action that sends has in common: e records the numbers R, has
\* the frames D passed up, keeps the items kept of which sk are acknowledged,
\* and sends.
Sending(e, R, L, D, kept, sk, lost, k, j) ==
    /\ SendPackets(e, R, L, lost, k, j)
    /\ rcvd' = [rcvd EXCEPT ![e] = R]
    /\ largestRcvd' = [largestRcvd EXCEPT ![e] = L]
    /\ delivered' = [delivered EXCEPT ![e] = D]
    /\ sent' = [sent EXCEPT ![e] = kept \cup Outgoing(e, lost, k)]
    /\ sacked' = [sacked EXCEPT ![e] = sk]
    /\ written' = written
    /\ rcvd[e] \subseteq R
    /\ R \subseteq 1..nextTx[Peer(e)]
    /\ \A r \in R : r <= L
    /\ delivered[e] \subseteq D
    /\ \A pn \in R : payload[Peer(e)][pn] \subseteq D
    /\ kept \subseteq sent[e]
    /\ sk \subseteq kept
    /\ lost \subseteq sent[e]
    /\ lost \cap kept = {}

\* An unacknowledged item leaves the list only when it is retransmitted or its
\* number is one the peer received.
Accounted(e, kept, sk, lost) ==
    \A pn \in sent[e] \ sacked[e] :
        pn \in lost \/ pn \in kept \ sk \/ pn \in rcvd[Peer(e)]

\* What such a step does to the variables.
SendingOutcome(e, R, L, D, kept, sk, lost, k, j) ==
    /\ Retx(lost) \in Nat /\ (lost = {} => Retx(lost) = 0) /\ (lost # {} => Retx(lost) = 1)
    /\ MaxPn \in Nat /\ HandshakePns \in Nat \ {0}
    /\ nextTx[e] \in 0..MaxPn /\ taken[e] \in Nat /\ written[e] \in Nat
    /\ Last(e, lost, k, j) \in 0..MaxPn /\ nextTx[e] <= Last(e, lost, k, j)
    /\ taken[e] + k <= written[e]
    /\ Outgoing(e, lost, k) = nextTx[e] + 1 .. nextTx[e] + Retx(lost) + k
    /\ Outgoing(e, lost, k) \subseteq 1..Last(e, lost, k, j)
    /\ Outgoing(e, lost, k) \subseteq PN
    /\ Outgoing(e, lost, k) \cap 1..nextTx[e] = {}
    /\ payload' \in [Endpoint -> [PN -> SUBSET Frame]]
    /\ ack' \in [Endpoint -> [PN -> AckFrame]]
    /\ sent'[e] = kept \cup Outgoing(e, lost, k)
    /\ sacked'[e] = sk
    /\ rcvd'[e] = R /\ largestRcvd'[e] = L /\ delivered'[e] = D
    /\ nextTx'[e] = Last(e, lost, k, j) /\ taken'[e] = taken[e] + k
    /\ nextTx' = [nextTx EXCEPT ![e] = Last(e, lost, k, j)]
    /\ taken' = [taken EXCEPT ![e] = taken[e] + k]
    /\ written' = written
    /\ \A x \in Endpoint : x # e =>
          /\ sent'[x] = sent[x] /\ sacked'[x] = sacked[x]
          /\ rcvd'[x] = rcvd[x] /\ largestRcvd'[x] = largestRcvd[x]
          /\ delivered'[x] = delivered[x]
          /\ nextTx'[x] = nextTx[x] /\ taken'[x] = taken[x]
    /\ \A x \in Endpoint : nextTx[x] \in 0..MaxPn /\ nextTx[x] <= nextTx'[x]
    /\ \A x \in Endpoint : \A pn \in 1..nextTx[x] :
          payload'[x][pn] = payload[x][pn] /\ ack'[x][pn] = ack[x][pn]
    /\ \A pn \in nextTx[e] + 1 .. Last(e, lost, k, j) : ack'[e][pn] = OnSendingAckFrame(R, L)
    /\ lost # {} => payload'[e][nextTx[e] + 1] =
          Content(e, lost)
    /\ \A i \in 1..k : payload'[e][nextTx[e] + Retx(lost) + i] = {taken[e] + i}

\* Such a step does it.
LEMMA SendingFacts ==
    ASSUME DataTypeOK, NumbersInv, NEW e \in Endpoint,
           NEW R \in SUBSET PN, NEW L \in PN, NEW D \in SUBSET Frame,
           NEW kept \in SUBSET PN, NEW sk \in SUBSET PN, NEW lost \in SUBSET PN,
           NEW k \in Nat, NEW j \in Nat,
           Sending(e, R, L, D, kept, sk, lost, k, j)
    PROVE  SendingOutcome(e, R, L, D, kept, sk, lost, k, j)
  <1> DEFINE retx == Retx(lost)
             last == Last(e, lost, k, j)
  <1>1. retx \in Nat /\ (lost = {} => retx = 0) /\ (lost # {} => retx = 1)
    BY DEF Retx
  <1>2. /\ nextTx' = [nextTx EXCEPT ![e] = last]
        /\ taken' = [taken EXCEPT ![e] = taken[e] + k]
        /\ taken[e] + k <= written[e]
        /\ last \in 0..MaxPn
        /\ payload' \in [Endpoint -> [PN -> SUBSET Frame]]
        /\ ack' \in [Endpoint -> [PN -> AckFrame]]
        /\ \A x \in Endpoint : x # e => payload'[x] = payload[x] /\ ack'[x] = ack[x]
        /\ \A pn \in 1..nextTx[e] :
              payload'[e][pn] = payload[e][pn] /\ ack'[e][pn] = ack[e][pn]
        /\ \A pn \in nextTx[e] + 1 .. last : ack'[e][pn] = OnSendingAckFrame(R, L)
        /\ lost # {} => payload'[e][nextTx[e] + 1] = Content(e, lost)
        /\ \A i \in 1..k : payload'[e][nextTx[e] + retx + i] = {taken[e] + i}
    <2>1. SendPackets(e, R, L, lost, k, j)
      BY DEF Sending
    <2>2. SendOutcome(e, R, L, lost, k, j)
      BY <2>1, SendFacts
    <2>3. QED BY <2>2 DEF SendOutcome, Last
  <1>3. Outgoing(e, lost, k) = nextTx[e] + 1 .. nextTx[e] + retx + k
    BY DEF Outgoing, Retx
  <1>4. /\ MaxPn \in Nat /\ nextTx[e] \in 0..MaxPn /\ taken[e] \in Nat /\ written[e] \in Nat
        /\ HandshakePns \in Nat \ {0}
    BY BoundAssumption DEF DataTypeOK
  <1>5. /\ Outgoing(e, lost, k) \subseteq 1..last
        /\ Outgoing(e, lost, k) \subseteq PN
        /\ Outgoing(e, lost, k) \cap 1..nextTx[e] = {}
        /\ nextTx[e] <= last
    <2>1. last \in 0..MaxPn
      BY <1>2
    <2>2. /\ nextTx[e] + retx + k <= last
          /\ nextTx[e] <= last
          /\ nextTx[e] + 1 >= 1
      BY <1>1, <1>4 DEF Last
    <2>3. \A pn \in nextTx[e] + 1 .. nextTx[e] + retx + k :
             pn \in 1..last /\ pn \in 1..MaxPn /\ pn \notin 1..nextTx[e]
      BY <1>1, <1>4, <2>1, <2>2
    <2>4. QED BY <1>3, <2>2, <2>3 DEF PN
  <1>6. /\ sent'[e] = kept \cup Outgoing(e, lost, k)
        /\ sacked'[e] = sk
        /\ rcvd'[e] = R /\ largestRcvd'[e] = L /\ delivered'[e] = D
        /\ nextTx'[e] = last /\ taken'[e] = taken[e] + k
        /\ written' = written
    BY <1>2 DEF Sending, DataTypeOK
  <1>7. \A x \in Endpoint : x # e =>
           /\ sent'[x] = sent[x] /\ sacked'[x] = sacked[x]
           /\ rcvd'[x] = rcvd[x] /\ largestRcvd'[x] = largestRcvd[x]
           /\ delivered'[x] = delivered[x]
           /\ nextTx'[x] = nextTx[x] /\ taken'[x] = taken[x]
    BY <1>2 DEF Sending, DataTypeOK
  <1>8. \A x \in Endpoint : nextTx[x] \in 0..MaxPn /\ nextTx[x] <= nextTx'[x]
    <2>1. nextTx \in [Endpoint -> 0..MaxPn]
      BY DEF DataTypeOK
    <2>2. \A x \in Endpoint : nextTx[x] \in 0..MaxPn /\ nextTx[x] <= nextTx[x]
      BY <2>1, <1>4
    <2>3. QED BY <2>2, <1>5, <1>6, <1>7
  <1>9. \A x \in Endpoint : \A pn \in 1..nextTx[x] :
           payload'[x][pn] = payload[x][pn] /\ ack'[x][pn] = ack[x][pn]
    BY <1>2
  <1>10. QED BY <1>1, <1>2, <1>3, <1>4, <1>5, <1>6, <1>7, <1>8, <1>9 DEF SendingOutcome

\* Such a step preserves ListInv.
LEMMA SendingKeepsList ==
    ASSUME ListInv, NEW e \in Endpoint,
           NEW R \in SUBSET PN, NEW L \in PN, NEW D \in SUBSET Frame,
           NEW kept \in SUBSET PN, NEW sk \in SUBSET PN, NEW lost \in SUBSET PN,
           NEW k \in Nat, NEW j \in Nat,
           Sending(e, R, L, D, kept, sk, lost, k, j)
    PROVE  ListInv'
  <1> DEFINE retx == Retx(lost)
             last == Last(e, lost, k, j)
  <1>0. DataTypeOK /\ NumbersInv /\ ReceivedInv /\ CopiesInv
    BY DEF ListInv
  <1>1. SendingOutcome(e, R, L, D, kept, sk, lost, k, j)
    BY <1>0, SendingFacts
  <1> HIDE DEF retx, last
  <1>2. /\ nextTx' = [nextTx EXCEPT ![e] = last]
        /\ taken' = [taken EXCEPT ![e] = taken[e] + k]
        /\ taken[e] + k <= written[e]
        /\ last \in 0..MaxPn
        /\ payload' \in [Endpoint -> [PN -> SUBSET Frame]]
        /\ ack' \in [Endpoint -> [PN -> AckFrame]]
        /\ \A pn \in nextTx[e] + 1 .. last : ack'[e][pn] = OnSendingAckFrame(R, L)
        /\ lost # {} => payload'[e][nextTx[e] + 1] = Content(e, lost)
        /\ \A i \in 1..k : payload'[e][nextTx[e] + retx + i] = {taken[e] + i}
    BY <1>1 DEF SendingOutcome, retx, last
  <1>a. retx \in Nat /\ (lost = {} => retx = 0) /\ (lost # {} => retx = 1)
    BY <1>1 DEF SendingOutcome, retx
  <1>3. Outgoing(e, lost, k) = nextTx[e] + 1 .. nextTx[e] + retx + k
    BY <1>1 DEF SendingOutcome, retx
  <1>4. /\ MaxPn \in Nat /\ nextTx[e] \in 0..MaxPn /\ taken[e] \in Nat /\ written[e] \in Nat
        /\ HandshakePns \in Nat \ {0}
    BY <1>1 DEF SendingOutcome
  <1>5. /\ Outgoing(e, lost, k) \subseteq 1..last
        /\ Outgoing(e, lost, k) \subseteq PN
        /\ Outgoing(e, lost, k) \cap 1..nextTx[e] = {}
        /\ nextTx[e] <= last
    BY <1>1 DEF SendingOutcome, last
  <1>6. /\ sent'[e] = kept \cup Outgoing(e, lost, k)
        /\ sacked'[e] = sk
        /\ rcvd'[e] = R /\ largestRcvd'[e] = L /\ delivered'[e] = D
        /\ nextTx'[e] = last /\ taken'[e] = taken[e] + k
        /\ written' = written
    BY <1>1 DEF SendingOutcome, last
  <1>7. \A x \in Endpoint : x # e =>
           /\ sent'[x] = sent[x] /\ sacked'[x] = sacked[x]
           /\ rcvd'[x] = rcvd[x] /\ largestRcvd'[x] = largestRcvd[x]
           /\ delivered'[x] = delivered[x]
           /\ nextTx'[x] = nextTx[x] /\ taken'[x] = taken[x]
    BY <1>1 DEF SendingOutcome
  <1>8. \A x \in Endpoint : nextTx[x] \in 0..MaxPn /\ nextTx[x] <= nextTx'[x]
    BY <1>1 DEF SendingOutcome
  <1>9. \A x \in Endpoint : \A pn \in 1..nextTx[x] :
           payload'[x][pn] = payload[x][pn] /\ ack'[x][pn] = ack[x][pn]
    BY <1>1 DEF SendingOutcome
  <1>10. DataTypeOK'
    <2>1. nextTx' \in [Endpoint -> 0..MaxPn]
      BY <1>0, <1>2 DEF DataTypeOK
    <2>2. taken' \in [Endpoint -> Nat] /\ written' \in [Endpoint -> Nat]
      BY <1>0, <1>2, <1>4, <1>6 DEF DataTypeOK
    <2>3. sent' \in [Endpoint -> SUBSET PN] /\ sacked' \in [Endpoint -> SUBSET PN]
      BY <1>0, <1>5 DEF DataTypeOK, Sending
    <2>4. /\ rcvd' \in [Endpoint -> SUBSET PN]
          /\ largestRcvd' \in [Endpoint -> PN]
          /\ delivered' \in [Endpoint -> SUBSET Frame]
      BY <1>0 DEF DataTypeOK, Sending
    <2>5. QED BY <1>2, <2>1, <2>2, <2>3, <2>4 DEF DataTypeOK
  <1>11. NumbersInv'
    <2> SUFFICES ASSUME NEW x \in Endpoint
                 PROVE  /\ HandshakePns <= nextTx'[x]
                        /\ sent'[x] \subseteq 1..nextTx'[x]
                        /\ sacked'[x] \subseteq sent'[x]
                        /\ taken'[x] <= written'[x]
                        /\ 1..written'[x] \subseteq Frame
                        /\ 1 \in rcvd'[x]
                        /\ rcvd'[x] \subseteq 1..nextTx'[Peer(x)]
                        /\ \A r \in rcvd'[x] : r <= largestRcvd'[x]
      BY DEF NumbersInv
    <2>0. /\ HandshakePns <= nextTx[x] /\ sent[x] \subseteq 1..nextTx[x]
          /\ sacked[x] \subseteq sent[x] /\ taken[x] <= written[x]
          /\ 1..written[x] \subseteq Frame /\ 1 \in rcvd[x]
          /\ rcvd[x] \subseteq 1..nextTx[Peer(x)]
          /\ \A r \in rcvd[x] : r <= largestRcvd[x]
      BY <1>0 DEF NumbersInv
    <2>1. HandshakePns <= nextTx'[x]
      <3>1. nextTx'[x] \in Nat
        BY <1>10 DEF DataTypeOK
      <3>2. QED BY <2>0, <3>1, <1>8, <1>4
    <2>2. sent'[x] \subseteq 1..nextTx'[x]
      <3>1. CASE x = e
        <4>1. kept \subseteq 1..nextTx[e]
          BY <2>0, <3>1 DEF Sending
        <4>2. 1..nextTx[e] \subseteq 1..last
          BY <1>4, <1>5, <1>2
        <4>3. QED BY <3>1, <4>1, <4>2, <1>5, <1>6
      <3>2. CASE x # e
        BY <3>2, <2>0, <1>7
      <3>3. QED BY <3>1, <3>2
    <2>3. sacked'[x] \subseteq sent'[x]
      BY <2>0, <1>6, <1>7 DEF Sending
    <2>4. taken'[x] <= written'[x] /\ 1..written'[x] \subseteq Frame
      BY <2>0, <1>2, <1>6, <1>7
    <2>5. 1 \in rcvd'[x] /\ \A r \in rcvd'[x] : r <= largestRcvd'[x]
      BY <2>0, <1>6, <1>7 DEF Sending
    <2>6. rcvd'[x] \subseteq 1..nextTx'[Peer(x)]
      <3>1. rcvd'[x] \subseteq 1..nextTx[Peer(x)]
        BY <2>0, <1>6, <1>7 DEF Sending
      <3>2. 1..nextTx[Peer(x)] \subseteq 1..nextTx'[Peer(x)]
        <4>1. Peer(x) \in Endpoint
          BY PeerFacts
        <4>2. nextTx'[Peer(x)] \in Nat
          BY <4>1, <1>10 DEF DataTypeOK
        <4>3. QED BY <4>1, <4>2, <1>8, <1>4
      <3>3. QED BY <3>1, <3>2
    <2>7. QED BY <2>1, <2>2, <2>3, <2>4, <2>5, <2>6
  <1>12. ReceivedInv'
    <2> SUFFICES ASSUME NEW x \in Endpoint, NEW pn \in rcvd'[x]
                 PROVE  payload'[Peer(x)][pn] \subseteq delivered'[x]
      BY DEF ReceivedInv
    <2>1. Peer(x) \in Endpoint
      BY PeerFacts
    <2>2. pn \in 1..nextTx[Peer(x)]
      <3>1. CASE x = e
        BY <3>1, <1>6 DEF Sending
      <3>2. CASE x # e
        BY <3>2, <1>7, <1>0 DEF NumbersInv
      <3>3. QED BY <3>1, <3>2
    <2>3. payload'[Peer(x)][pn] = payload[Peer(x)][pn]
      BY <2>1, <2>2, <1>9
    <2>4. payload[Peer(x)][pn] \subseteq delivered'[x]
      <3>1. CASE x = e
        BY <3>1, <1>6 DEF Sending
      <3>2. CASE x # e
        BY <3>2, <1>7, <1>0 DEF ReceivedInv
      <3>3. QED BY <3>1, <3>2
    <2>5. QED BY <2>3, <2>4
  <1>13. CopiesInv'
    <2>1. \A p \in sent[e] : p \in 1..nextTx[e] /\ p \in PN
      BY <1>0 DEF NumbersInv, DataTypeOK
    <2>2. \A p \in kept : payload'[e][p] = payload[e][p] /\ payload[e][p] \subseteq 1..taken[e]
      BY <2>1, <1>0, <1>9 DEF Sending, CopiesInv
    <2>3. lost # {} => /\ payload'[e][nextTx[e] + 1] \subseteq 1..taken[e]
                       /\ \A p \in kept : payload'[e][nextTx[e] + 1] \cap payload[e][p] = {}
      <3>1. \A q \in lost : payload[e][q] \subseteq 1..taken[e]
        BY <1>0 DEF Sending, CopiesInv
      <3>2. \A p \in kept, q \in lost : payload[e][q] \cap payload[e][p] = {}
        BY <1>0 DEF Sending, CopiesInv, OneCopyOutstanding
      <3>3. QED BY <3>1, <3>2, <1>2 DEF Content
    <2>4. \A p \in Outgoing(e, lost, k) :
             \/ lost # {} /\ p = nextTx[e] + 1
             \/ \E i \in 1..k : p = nextTx[e] + retx + i
      <3> SUFFICES ASSUME NEW p \in Outgoing(e, lost, k), ~(lost # {} /\ p = nextTx[e] + 1)
                   PROVE  \E i \in 1..k : p = nextTx[e] + retx + i
        OBVIOUS
      <3>1. /\ p \in Int /\ nextTx[e] \in Int /\ retx \in {0, 1}
            /\ nextTx[e] + 1 <= p /\ p <= nextTx[e] + retx + k
        BY <1>3, <1>4, <1>a
      <3>2. nextTx[e] + retx + 1 <= p
        BY <3>1, <1>a
      <3>3. p - nextTx[e] - retx \in 1..k /\ p = nextTx[e] + retx + (p - nextTx[e] - retx)
        BY <3>1, <3>2
      <3>4. QED BY <3>3
    <2>5. \A i \in 1..k : taken[e] + i \in 1..taken'[e] /\ taken[e] + i \notin 1..taken[e]
      BY <1>4, <1>6
    <2>6. 1..taken[e] \subseteq 1..taken'[e]
      BY <1>4, <1>6
    <2>7. \A p \in sent'[e] : payload'[e][p] \subseteq 1..taken'[e]
      <3>1. ASSUME NEW p \in kept PROVE payload'[e][p] \subseteq 1..taken'[e]
        BY <2>2, <2>6
      <3>2. ASSUME NEW p \in Outgoing(e, lost, k) PROVE payload'[e][p] \subseteq 1..taken'[e]
        <4>1. CASE lost # {} /\ p = nextTx[e] + 1
          BY <4>1, <2>3, <2>6
        <4>2. ASSUME NEW i \in 1..k, p = nextTx[e] + retx + i
              PROVE  payload'[e][p] \subseteq 1..taken'[e]
          BY <4>2, <2>5, <1>2
        <4>3. QED BY <4>1, <4>2, <2>4
      <3>3. QED BY <3>1, <3>2, <1>6
    <2>8. \A p, q \in sent'[e] : p # q => payload'[e][p] \cap payload'[e][q] = {}
      <3>1. ASSUME NEW p \in kept, NEW q \in kept, p # q
            PROVE  payload'[e][p] \cap payload'[e][q] = {}
        BY <3>1, <2>2, <1>0 DEF Sending, CopiesInv, OneCopyOutstanding
      <3>2. ASSUME NEW p \in kept, NEW q \in Outgoing(e, lost, k)
            PROVE  payload'[e][p] \cap payload'[e][q] = {}
        <4>1. CASE lost # {} /\ q = nextTx[e] + 1
          BY <4>1, <2>2, <2>3
        <4>2. ASSUME NEW i \in 1..k, q = nextTx[e] + retx + i
              PROVE  payload'[e][p] \cap payload'[e][q] = {}
          BY <4>2, <2>2, <2>5, <1>2
        <4>3. QED BY <4>1, <4>2, <2>4
      <3>3. ASSUME NEW p \in Outgoing(e, lost, k), NEW q \in Outgoing(e, lost, k), p # q
            PROVE  payload'[e][p] \cap payload'[e][q] = {}
        <4>1. ASSUME NEW i \in 1..k, NEW m \in 1..k,
                     p = nextTx[e] + retx + i, q = nextTx[e] + retx + m
              PROVE  payload'[e][p] \cap payload'[e][q] = {}
          <5>1. i # m
            BY <3>3, <4>1
          <5>2. taken[e] + i # taken[e] + m
            BY <5>1, <1>4
          <5>3. QED BY <4>1, <5>2, <1>2
        <4>2. ASSUME NEW i \in 1..k, lost # {}
              PROVE  payload'[e][nextTx[e] + 1] \cap payload'[e][nextTx[e] + retx + i] = {}
          BY <4>2, <2>3, <2>5, <1>2
        <4>3. QED BY <3>3, <4>1, <4>2, <2>4
      <3>4. QED BY <3>1, <3>2, <3>3, <1>6
    <2>9. ASSUME NEW x \in Endpoint, x # e
          PROVE  /\ taken'[x] = taken[x] /\ sent'[x] = sent[x]
                 /\ \A p \in sent[x] : payload'[x][p] = payload[x][p]
      BY <2>9, <1>0, <1>7, <1>9 DEF NumbersInv
    <2>10. QED BY <2>7, <2>8, <2>9, <1>0 DEF CopiesInv, OneCopyOutstanding
  <1>14. QED BY <1>10, <1>11, <1>12, <1>13 DEF ListInv

\* If it accounts for every unacknowledged item and the ACK frames have room for
\* every gap, it preserves RecoveryInv.
LEMMA SendingKeepsRecovery ==
    ASSUME MaxTrackedGaps >= MaxPn, RecoveryInv, NEW e \in Endpoint,
           NEW R \in SUBSET PN, NEW L \in PN, NEW D \in SUBSET Frame,
           NEW kept \in SUBSET PN, NEW sk \in SUBSET PN, NEW lost \in SUBSET PN,
           NEW k \in Nat, NEW j \in Nat,
           Sending(e, R, L, D, kept, sk, lost, k, j),
           Accounted(e, kept, sk, lost)
    PROVE  RecoveryInv'
  <1> DEFINE retx == Retx(lost)
             last == Last(e, lost, k, j)
  <1>0. DataTypeOK /\ NumbersInv /\ ReceivedInv /\ CopiesInv /\ AcksAreTrue /\ NoDataLost
    BY DEF RecoveryInv, ListInv
  <1>1. SendingOutcome(e, R, L, D, kept, sk, lost, k, j)
    BY <1>0, SendingFacts
  <1> HIDE DEF retx, last
  <1>2. /\ nextTx' = [nextTx EXCEPT ![e] = last]
        /\ taken' = [taken EXCEPT ![e] = taken[e] + k]
        /\ taken[e] + k <= written[e]
        /\ last \in 0..MaxPn
        /\ payload' \in [Endpoint -> [PN -> SUBSET Frame]]
        /\ ack' \in [Endpoint -> [PN -> AckFrame]]
        /\ \A pn \in nextTx[e] + 1 .. last : ack'[e][pn] = OnSendingAckFrame(R, L)
        /\ lost # {} => payload'[e][nextTx[e] + 1] = Content(e, lost)
        /\ \A i \in 1..k : payload'[e][nextTx[e] + retx + i] = {taken[e] + i}
    BY <1>1 DEF SendingOutcome, retx, last
  <1>a. retx \in Nat /\ (lost = {} => retx = 0) /\ (lost # {} => retx = 1)
    BY <1>1 DEF SendingOutcome, retx
  <1>3. Outgoing(e, lost, k) = nextTx[e] + 1 .. nextTx[e] + retx + k
    BY <1>1 DEF SendingOutcome, retx
  <1>4. /\ MaxPn \in Nat /\ nextTx[e] \in 0..MaxPn /\ taken[e] \in Nat /\ written[e] \in Nat
        /\ HandshakePns \in Nat \ {0}
    BY <1>1 DEF SendingOutcome
  <1>5. /\ Outgoing(e, lost, k) \subseteq 1..last
        /\ Outgoing(e, lost, k) \subseteq PN
        /\ Outgoing(e, lost, k) \cap 1..nextTx[e] = {}
        /\ nextTx[e] <= last
    BY <1>1 DEF SendingOutcome, last
  <1>6. /\ sent'[e] = kept \cup Outgoing(e, lost, k)
        /\ sacked'[e] = sk
        /\ rcvd'[e] = R /\ largestRcvd'[e] = L /\ delivered'[e] = D
        /\ nextTx'[e] = last /\ taken'[e] = taken[e] + k
        /\ written' = written
    BY <1>1 DEF SendingOutcome, last
  <1>7. \A x \in Endpoint : x # e =>
           /\ sent'[x] = sent[x] /\ sacked'[x] = sacked[x]
           /\ rcvd'[x] = rcvd[x] /\ largestRcvd'[x] = largestRcvd[x]
           /\ delivered'[x] = delivered[x]
           /\ nextTx'[x] = nextTx[x] /\ taken'[x] = taken[x]
    BY <1>1 DEF SendingOutcome
  <1>8. \A x \in Endpoint : nextTx[x] \in 0..MaxPn /\ nextTx[x] <= nextTx'[x]
    BY <1>1 DEF SendingOutcome
  <1>9. \A x \in Endpoint : \A pn \in 1..nextTx[x] :
           payload'[x][pn] = payload[x][pn] /\ ack'[x][pn] = ack[x][pn]
    BY <1>1 DEF SendingOutcome
  <1>13. AcksAreTrue'
    <2> SUFFICES ASSUME NEW x \in Endpoint, NEW pn \in HandshakePns + 1 .. nextTx'[x],
                        NEW q \in PN, Covers(ack'[x][pn], q)
                 PROVE  q \in rcvd'[x]
      BY DEF AcksAreTrue, Covers
    <2>1. rcvd[x] \subseteq rcvd'[x]
      BY <1>6, <1>7 DEF Sending
    <2>2. CASE pn \in HandshakePns + 1 .. nextTx[x]
      <3>1. pn \in 1..nextTx[x]
        BY <2>2, <1>4, <1>8
      <3>2. Covers(ack[x][pn], q)
        BY <3>1, <1>9
      <3>3. q \in rcvd[x]
        BY <2>2, <3>2, <1>0 DEF AcksAreTrue
      <3>4. QED BY <2>1, <3>3
    <2>3. CASE pn \notin HandshakePns + 1 .. nextTx[x]
      <3>1. x = e /\ pn \in nextTx[e] + 1 .. last
        BY <2>3, <1>2, <1>4, <1>6, <1>7, <1>8
      <3>2. Covers(OnSendingAckFrame(R, L), q)
        BY <3>1, <1>2
      <3>3. 1 \in R
        BY <1>0 DEF NumbersInv, Sending
      <3>4. QED BY <3>1, <3>2, <3>3, <1>6, AckTruth
    <2>4. QED BY <2>2, <2>3
  <1>14. NoDataLost'
    <2> SUFFICES ASSUME NEW x \in Endpoint, NEW f \in 1..taken'[x],
                        f \notin delivered'[Peer(x)]
                 PROVE  \E pn \in sent'[x] \ sacked'[x] : f \in payload'[x][pn]
      BY DEF NoDataLost
    <2>0. /\ Peer(x) \in Endpoint /\ Peer(x) # x
          /\ delivered[Peer(x)] \subseteq delivered'[Peer(x)]
      BY PeerFacts, <1>6, <1>7 DEF Sending
    <2>1. CASE f \in 1..taken[x]
      <3>1. PICK pn \in sent[x] \ sacked[x] : f \in payload[x][pn]
        BY <2>0, <2>1, <1>0 DEF NoDataLost
      <3>2. pn \in 1..nextTx[x] /\ payload'[x][pn] = payload[x][pn]
        BY <3>1, <1>0, <1>9 DEF NumbersInv
      <3>3. CASE x # e
        BY <3>1, <3>2, <3>3, <1>7
      <3>4. CASE x = e /\ pn \in kept \ sk
        BY <3>1, <3>2, <3>4, <1>6
      <3>5. CASE x = e /\ pn \in lost
        <4>1. nextTx[e] + 1 \in Outgoing(e, lost, k)
          BY <3>5, <1>a, <1>3, <1>4
        <4>2. nextTx[e] + 1 \notin sk
          BY <1>0, <1>4 DEF NumbersInv, Sending
        <4>3. f \in payload'[e][nextTx[e] + 1]
          BY <3>1, <3>5, <1>2 DEF Content
        <4>4. QED BY <3>5, <4>1, <4>2, <4>3, <1>6
      <3>6. CASE x = e /\ pn \in rcvd[Peer(e)]
        <4>1. payload[Peer(Peer(e))][pn] \subseteq delivered[Peer(e)]
          BY <3>6, <1>0, PeerFacts DEF ReceivedInv
        <4>2. QED BY <3>1, <3>6, <4>1, <2>0, PeerFacts
      <3>7. QED BY <3>1, <3>3, <3>4, <3>5, <3>6 DEF Accounted
    <2>2. CASE f \notin 1..taken[x]
      <3>1. x = e
        BY <2>2, <1>7
      <3>2. PICK i \in 1..k : f = taken[e] + i
        <4>1. f - taken[e] \in 1..k /\ f = taken[e] + (f - taken[e])
          BY <2>2, <3>1, <1>4, <1>6
        <4>2. QED BY <4>1
      <3>3. nextTx[e] + retx + i \in Outgoing(e, lost, k)
        BY <1>a, <1>3, <1>4
      <3>4. nextTx[e] + retx + i \notin sk
        <4>1. nextTx[e] + retx + i \notin 1..nextTx[e]
          BY <3>3, <1>5
        <4>2. sk \subseteq 1..nextTx[e]
          BY <1>0 DEF NumbersInv, Sending
        <4>3. QED BY <4>1, <4>2
      <3>5. QED BY <3>1, <3>2, <3>3, <3>4, <1>2, <1>6
    <2>3. QED BY <2>1, <2>2
  <1>15. ListInv'
    BY <1>0, SendingKeepsList DEF ListInv
  <1>16. QED BY <1>13, <1>14, <1>15 DEF RecoveryInv


-----------------------------------------------------------------------------
\* A step that sends.  What its ACK frame takes off the sent list is accounted
\* for if the acknowledgments are true.
SendStep ==
    \E e \in Endpoint, R \in SUBSET PN, L \in PN, D \in SUBSET Frame,
       kept \in SUBSET PN, sk \in SUBSET PN, lost \in SUBSET PN, k \in Nat, j \in Nat :
          /\ Sending(e, R, L, D, kept, sk, lost, k, j)
          /\ AcksAreTrue => Accounted(e, kept, sk, lost)

\* Writing back what a variable already holds leaves it unchanged.
LEMMA UnchangedExcept ==
    ASSUME DataTypeOK, NEW e \in Endpoint
    PROVE  /\ rcvd = [rcvd EXCEPT ![e] = rcvd[e]]
           /\ largestRcvd = [largestRcvd EXCEPT ![e] = largestRcvd[e]]
           /\ delivered = [delivered EXCEPT ![e] = delivered[e]]
           /\ sacked = [sacked EXCEPT ![e] = sacked[e]]
           /\ sent = [sent EXCEPT ![e] = sent[e]]
  BY DEF DataTypeOK

\* Sending new data or probes, with nothing received, is such a step.
LEMMA SendOnlyIsSendStep ==
    ASSUME ListInv, NEW e \in Endpoint,
           NEW k \in Nat, NEW j \in Nat,
           SendPackets(e, rcvd[e], largestRcvd[e], {}, k, j),
           sent' = [sent EXCEPT ![e] = sent[e] \cup Outgoing(e, {}, k)],
           sacked' = sacked, rcvd' = rcvd, largestRcvd' = largestRcvd,
           delivered' = delivered, written' = written
    PROVE  SendStep
  <1>1. DataTypeOK /\ NumbersInv /\ ReceivedInv
    BY DEF ListInv
  <1>2. /\ rcvd[e] \in SUBSET PN /\ largestRcvd[e] \in PN /\ delivered[e] \in SUBSET Frame
        /\ sent[e] \in SUBSET PN /\ sacked[e] \in SUBSET PN
    BY <1>1 DEF DataTypeOK
  <1>3. Sending(e, rcvd[e], largestRcvd[e], delivered[e], sent[e], sacked[e], {}, k, j)
    BY <1>1, UnchangedExcept DEF Sending, NumbersInv, ReceivedInv
  <1>4. Accounted(e, sent[e], sacked[e], {})
    BY DEF Accounted
  <1>5. {} \in SUBSET PN
    OBVIOUS
  <1>6. QED BY <1>2, <1>3, <1>4, <1>5 DEF SendStep

\* Receiving a packet, with all that OnReceivedAckFrame does, is such a step.
LEMMA ReceivedDataIsSendStep ==
    ASSUME ListInv, NEW e \in Endpoint, NEW pn \in PN, ReceivedData(e, pn)
    PROVE  SendStep
  <1> DEFINE R == rcvd[e] \cup {pn}
             L == IF pn > largestRcvd[e] THEN pn ELSE largestRcvd[e]
             D == delivered[e] \cup payload[Peer(e)][pn]
             a == ack[Peer(e)][pn]
             sacks == sacked[e] \cup NewlyAcked(e, a)
             lost == DetectLostPackets(e, a, sacks)
             kept == CleanSentList(e, sacks) \ lost
  <1>1. DataTypeOK /\ NumbersInv /\ ReceivedInv
    BY DEF ListInv
  <1>2. Peer(e) \in Endpoint /\ Peer(Peer(e)) = e
    BY PeerFacts
  <1>3. HandshakePns < pn /\ pn <= nextTx[Peer(e)]
    BY DEF ReceivedData
  <1>4. PICK k \in 0..Cardinality(Unsent(e)) :
           /\ SendPackets(e, R, L, lost, k, 0)
           /\ sent' = [sent EXCEPT ![e] = kept \cup Outgoing(e, lost, k)]
           /\ sacked' = [sacked EXCEPT ![e] = sacks \cap kept]
    BY DEF ReceivedData, OnReceivedAckFrame
  <1>5. k \in Nat /\ 0 \in Nat
    OBVIOUS
  <1>6. /\ rcvd' = [rcvd EXCEPT ![e] = R]
        /\ largestRcvd' = [largestRcvd EXCEPT ![e] = L]
        /\ delivered' = [delivered EXCEPT ![e] = D]
        /\ written' = written
    BY DEF ReceivedData, appVars
  <1>7. /\ R \in SUBSET PN /\ L \in PN /\ rcvd[e] \subseteq R
        /\ D \in SUBSET Frame /\ delivered[e] \subseteq D
    BY <1>1, <1>2 DEF DataTypeOK
  <1>8. R \subseteq 1..nextTx[Peer(e)]
    <2>1. pn \in 1..nextTx[Peer(e)]
      BY <1>2, <1>3, <1>1, BoundAssumption DEF PN, DataTypeOK
    <2>2. QED BY <2>1, <1>1 DEF NumbersInv
  <1>9. \A r \in R : r <= L
    <2>1. /\ largestRcvd[e] \in Int /\ pn \in Int /\ rcvd[e] \subseteq Int
          /\ \A r \in rcvd[e] : r <= largestRcvd[e]
      BY <1>1, BoundAssumption DEF DataTypeOK, NumbersInv, PN
    <2>2. QED BY <2>1
  <1>10. \A q \in R : payload[Peer(e)][q] \subseteq D
    BY <1>1 DEF ReceivedInv
  <1>11. NewlyAcked(e, a) \subseteq sent[e]
    BY DEF NewlyAcked
  <1>12. /\ sent[e] \in SUBSET PN /\ sacked[e] \subseteq sent[e]
         /\ sacks \subseteq sent[e]
    BY <1>1, <1>11 DEF DataTypeOK, NumbersInv
  <1>13. CleanSentList(e, sacks) \subseteq sent[e] /\ sent[e] \ sacks \subseteq CleanSentList(e, sacks)
    <2>1. \A q \in sent[e] : q <= q
      BY <1>12, BoundAssumption DEF PN
    <2>2. QED BY <2>1 DEF CleanSentList
  <1>14. lost \subseteq sent[e] /\ lost \cap sacks = {}
    BY <1>13 DEF DetectLostPackets, ReorderLost, ResetSentList
  <1>15. kept \in SUBSET PN /\ sacks \cap kept \in SUBSET PN /\ lost \in SUBSET PN
    BY <1>12, <1>13, <1>14
  <1>16. AcksAreTrue => Accounted(e, kept, sacks \cap kept, lost)
    <2>1. pn \in HandshakePns + 1 .. nextTx[Peer(e)]
      BY <1>2, <1>3, <1>1, BoundAssumption DEF PN, DataTypeOK
    <2>2. AcksAreTrue => \A q \in PN : Covers(a, q) => q \in rcvd[Peer(e)]
      BY <2>1, <1>2 DEF AcksAreTrue
    <2>3. AcksAreTrue => NewlyAcked(e, a) \subseteq rcvd[Peer(e)]
      BY <2>2, <1>12 DEF NewlyAcked
    <2>4. QED BY <2>3, <1>13 DEF Accounted
  <1> HIDE DEF R, L, D, a, sacks, lost, kept
  <1>17. Sending(e, R, L, D, kept, sacks \cap kept, lost, k, 0)
    <2>1. kept \subseteq sent[e] /\ sacks \cap kept \subseteq kept /\ lost \cap kept = {}
      BY <1>13 DEF kept
    <2>2. QED BY <1>4, <1>6, <1>7, <1>8, <1>9, <1>10, <1>14, <2>1 DEF Sending
  <1>18. QED BY <1>5, <1>7, <1>15, <1>16, <1>17 DEF SendStep

\* Every step sends, adds a frame to the transmission buffer, or leaves the
\* packets alone.
LEMMA StepKinds ==
    ASSUME ListInv, [Next]_vars
    PROVE  \/ SendStep
           \/ \E e \in Endpoint : AppendingTx(e)
           \/ UNCHANGED <<txVars, written, listVars, rxVars>>
  <1>0. DataTypeOK
    BY DEF ListInv
  <1>1. CASE UNCHANGED vars
    BY <1>1 DEF vars, appVars
  <1>2. ASSUME NEW e \in Endpoint, SendPendingData(e) PROVE SendStep
    <2>1. PICK k \in 0..Cardinality(Unsent(e)) :
             /\ SendPackets(e, rcvd[e], largestRcvd[e], {}, k, 0)
             /\ sent' = [sent EXCEPT ![e] = sent[e] \cup Outgoing(e, {}, k)]
      BY <1>2 DEF SendPendingData
    <2>2. k \in Nat
      OBVIOUS
    <2>3. QED BY <1>2, <2>1, <2>2, SendOnlyIsSendStep DEF SendPendingData, rxVars
  <1>3. ASSUME NEW e \in Endpoint, SendAck(e) PROVE SendStep
    <2>1. SendPackets(e, rcvd[e], largestRcvd[e], {}, 0, 1)
      BY <1>3 DEF SendAck
    <2>2. sent' = [sent EXCEPT ![e] = sent[e] \cup Outgoing(e, {}, 0)]
      <3>1. nextTx[e] \in Nat
        BY <1>0 DEF DataTypeOK
      <3>2. Outgoing(e, {}, 0) = {}
        BY <3>1 DEF Outgoing
      <3>3. QED BY <1>0, <1>3, <3>2, UnchangedExcept DEF SendAck, listVars
    <2>3. QED BY <1>3, <2>1, <2>2, SendOnlyIsSendStep DEF SendAck, listVars, rxVars, appVars
  <1>4. ASSUME NEW e \in Endpoint, NEW n \in 1..2, NEW k \in 0..n, SendProbes(e, n, k)
        PROVE  SendStep
    <2>1. k \in Nat /\ n - k \in Nat
      OBVIOUS
    <2>2. QED BY <1>4, <2>1, SendOnlyIsSendStep DEF SendProbes, rxVars, appVars
  <1>5. ASSUME NEW e \in Endpoint, TailLossProbe(e) \/ RetransmissionTimeout(e)
        PROVE  SendStep
    BY <1>4, <1>5 DEF TailLossProbe, RetransmissionTimeout
  <1>6. ASSUME NEW e \in Endpoint, CanceledAlarm(e) \/ IdleTimeout(e)
        PROVE  UNCHANGED <<txVars, written, listVars, rxVars>>
    BY <1>6 DEF CanceledAlarm, IdleTimeout, appVars
  <1>7. QED
    BY <1>1, <1>2, <1>3, <1>5, <1>6, ReceivedDataIsSendStep DEF Next

\* A new frame in the transmission buffer changes nothing of what was sent.
LEMMA AppendingKeepsList ==
    ASSUME ListInv, NEW e \in Endpoint, AppendingTx(e)
    PROVE  ListInv' /\ UNCHANGED <<txVars, listVars, rxVars>>
  <1>1. /\ written[e] + 1 \in Frames(e)
        /\ written' = [written EXCEPT ![e] = written[e] + 1]
        /\ UNCHANGED <<txVars, listVars, rxVars>>
    BY DEF AppendingTx
  <1>2. DataTypeOK'
    BY <1>1 DEF ListInv, DataTypeOK, txVars, listVars, rxVars
  <1>3. NumbersInv'
    <2> SUFFICES ASSUME NEW x \in Endpoint
                 PROVE  taken[x] <= written'[x] /\ 1..written'[x] \subseteq Frame
      BY <1>1 DEF ListInv, NumbersInv, txVars, listVars, rxVars
    <2>1. taken[x] \in Nat /\ written[x] \in Nat /\ taken[x] <= written[x]
          /\ 1..written[x] \subseteq Frame
      BY DEF ListInv, DataTypeOK, NumbersInv
    <2>2. CASE x = e
      <3>1. written'[x] = written[x] + 1
        BY <1>1, <2>2 DEF ListInv, DataTypeOK
      <3>2. written[x] + 1 \in Frame
        BY <1>1, <2>2 DEF Frames, Frame
      <3>3. 1..(written[x] + 1) = 1..written[x] \cup {written[x] + 1}
        BY <2>1
      <3>4. QED BY <2>1, <3>1, <3>2, <3>3
    <2>3. CASE x # e
      BY <1>1, <2>1, <2>3 DEF ListInv, DataTypeOK
    <2>4. QED BY <2>2, <2>3
  <1>4. ReceivedInv' /\ CopiesInv'
    BY <1>1 DEF ListInv, ReceivedInv, CopiesInv, OneCopyOutstanding, txVars, listVars, rxVars
  <1>5. QED BY <1>1, <1>2, <1>3, <1>4 DEF ListInv

\* Every step preserves ListInv.
LEMMA ListStep ==
    ASSUME ListInv, [Next]_vars
    PROVE  ListInv'
  <1>1. CASE SendStep
    BY <1>1, SendingKeepsList DEF SendStep
  <1>2. CASE UNCHANGED <<txVars, written, listVars, rxVars>>
    BY <1>2 DEF txVars, listVars, rxVars, ListInv, DataTypeOK,
                NumbersInv, ReceivedInv, CopiesInv, OneCopyOutstanding
  <1>3. QED BY <1>1, <1>2, StepKinds, AppendingKeepsList

\* With room for every gap, every step preserves RecoveryInv.
LEMMA RecoveryStep ==
    ASSUME MaxTrackedGaps >= MaxPn, RecoveryInv, [Next]_vars
    PROVE  RecoveryInv'
  <1>0. ListInv /\ AcksAreTrue /\ NoDataLost
    BY DEF RecoveryInv
  <1>1. CASE SendStep
    BY <1>0, <1>1, SendingKeepsRecovery DEF SendStep
  <1>2. CASE UNCHANGED <<txVars, listVars, rxVars>>
    <2>1. ListInv'
      BY <1>0, ListStep
    <2>2. QED BY <1>0, <1>2, <2>1 DEF RecoveryInv, AcksAreTrue, NoDataLost,
                                      txVars, listVars, rxVars
  <1>3. QED BY <1>0, <1>1, <1>2, StepKinds, AppendingKeepsList

\* The state after the handshake satisfies both invariants.
LEMMA RecoveryInit == Init => RecoveryInv
  <1> SUFFICES ASSUME Init PROVE RecoveryInv
    OBVIOUS
  <1>1. HandshakePns \in 1..MaxPn /\ MaxPn \in Nat
    BY BoundAssumption
  <1>2. DataTypeOK
    <2>1. NoAck \in AckFrame
      BY <1>1 DEF NoAck, AckFrame
    <2>2. QED BY <1>1, <2>1 DEF Init, DataTypeOK, PN
  <1>3. NumbersInv
    BY <1>1, PeerFacts DEF Init, NumbersInv
  <1>4. ReceivedInv
    BY <1>1, PeerFacts DEF Init, ReceivedInv, PN
  <1>5. AcksAreTrue
    BY <1>1 DEF Init, AcksAreTrue
  <1>6. NoDataLost /\ CopiesInv
    BY DEF Init, NoDataLost, CopiesInv, OneCopyOutstanding
  <1>7. QED BY <1>2, <1>3, <1>4, <1>5, <1>6 DEF RecoveryInv, ListInv

-----------------------------------------------------------------------------
\* SetReTxTimeout leaves well-formed alarm variables.
LEMMA SetReTxTimeoutType ==
    ASSUME TimerTypeOK, NEW e \in Endpoint, NEW probes \in 0..MaxTLPs, NEW calls \in Nat,
           SetReTxTimeout(e, probes, calls)
    PROVE  /\ alarmType' \in [Endpoint -> {TlpAlarm, RtoAlarm}]
           /\ armed' \in [Endpoint -> BOOLEAN]
           /\ stale' \in [Endpoint -> 0..MaxStale]
  <1>1. CASE calls = 0
    BY <1>1 DEF SetReTxTimeout, TimerTypeOK, alarmVars
  <1>2. CASE calls # 0
    <2>1. AlarmFor(probes) \in {TlpAlarm, RtoAlarm}
      BY DEF AlarmFor
    <2> DEFINE left == IF armed[e] THEN stale[e] + calls ELSE stale[e] + calls - 1
    <2>2. /\ alarmType' = [alarmType EXCEPT ![e] = AlarmFor(probes)]
          /\ armed' = [armed EXCEPT ![e] = TRUE]
          /\ stale' = [stale EXCEPT ![e] = Min2(MaxStale, left)]
      BY <1>2 DEF SetReTxTimeout
    <2>3. left \in Nat
      BY <1>2, BoundAssumption DEF TimerTypeOK
    <2> HIDE DEF left
    <2>4. Min2(MaxStale, left) \in 0..MaxStale
      BY <2>3, BoundAssumption DEF Min2
    <2>5. QED BY <2>1, <2>2, <2>4 DEF TimerTypeOK
  <1>3. QED BY <1>1, <1>2

\* So does an alarm that expires.
LEMMA ExpireType ==
    ASSUME TimerTypeOK, NEW e \in Endpoint, NEW calls \in Nat, Expire(e, calls)
    PROVE  /\ alarmType' \in [Endpoint -> {TlpAlarm, RtoAlarm}]
           /\ armed' \in [Endpoint -> BOOLEAN]
           /\ stale' \in [Endpoint -> 0..MaxStale]
  <1> DEFINE left == IF armed[e] THEN stale[e] ELSE stale[e] - 1
  <1>1. left \in 0..MaxStale
    BY BoundAssumption DEF Expire, TimerTypeOK
  <1> HIDE DEF left
  <1>2. CASE calls = 0
    BY <1>1, <1>2 DEF Expire, TimerTypeOK, left
  <1>3. CASE calls # 0
    <2>1. AlarmFor(tlp[e]) \in {TlpAlarm, RtoAlarm}
      BY DEF AlarmFor
    <2>2. Min2(MaxStale, left + calls - 1) \in 0..MaxStale
      BY <1>1, <1>3, BoundAssumption DEF Min2
    <2>3. QED BY <1>3, <2>1, <2>2 DEF Expire, TimerTypeOK, left
  <1>4. QED BY <1>2, <1>3

\* Every step keeps the events and the counters of the alarm well-formed.
LEMMA TimerStep ==
    ASSUME ListInv, TimerTypeOK, [Next]_vars
    PROVE  TimerTypeOK'
  <1>0. DataTypeOK /\ NumbersInv
    BY DEF ListInv
  <1>1. CASE UNCHANGED vars
    BY <1>1 DEF vars, appVars, rtoVars, alarmVars, TimerTypeOK
  <1>2. ASSUME NEW e \in Endpoint, AppendingTx(e) PROVE TimerTypeOK'
    BY <1>2 DEF AppendingTx, rtoVars, alarmVars, TimerTypeOK
  <1>3. ASSUME NEW e \in Endpoint, NEW R, NEW L, NEW lost, NEW k \in Nat, NEW j \in Nat,
               SendPackets(e, R, L, lost, k, j)
        PROVE  /\ nextTx[e] + Retx(lost) + k + j \in 0..MaxPn
               /\ nextTx[e] + Retx(lost) + k \in 0..MaxPn
               /\ Retx(lost) \in Nat
    <2>1. nextTx[e] + Retx(lost) + k + j <= LastPn(e)
      BY <1>3 DEF SendPackets, Retx
    <2>2. MaxPn \in Nat /\ LastPn(e) \in 0..MaxPn /\ nextTx[e] \in Nat /\ Retx(lost) \in Nat
      BY <1>0, BoundAssumption DEF LastPn, DataTypeOK, Retx
    <2>3. QED BY <2>1, <2>2
  <1>4. ASSUME NEW e \in Endpoint, SendPendingData(e) PROVE TimerTypeOK'
    <2>1. PICK k \in 0..Cardinality(Unsent(e)) :
             /\ SendPackets(e, rcvd[e], largestRcvd[e], {}, k, 0)
             /\ highTx' = IF k = 0 THEN highTx ELSE [highTx EXCEPT ![e] = nextTx[e] + k]
             /\ SetReTxTimeout(e, tlp[e], k)
      BY <1>4 DEF SendPendingData
    <2>2. k \in Nat /\ Retx({}) = 0 /\ nextTx[e] \in Nat
      BY <1>0 DEF Retx, DataTypeOK
    <2>3. nextTx[e] + Retx({}) + k \in 0..MaxPn
      BY <1>3, <2>1, <2>2
    <2>4. highTx' \in [Endpoint -> 0..MaxPn]
      BY <2>1, <2>2, <2>3 DEF TimerTypeOK
    <2>5. tlp[e] \in 0..MaxTLPs
      BY DEF TimerTypeOK
    <2>6. /\ alarmType' \in [Endpoint -> {TlpAlarm, RtoAlarm}]
          /\ armed' \in [Endpoint -> BOOLEAN]
          /\ stale' \in [Endpoint -> 0..MaxStale]
      BY <2>1, <2>2, <2>5, SetReTxTimeoutType
    <2>7. QED BY <1>4, <2>4, <2>6 DEF SendPendingData, TimerTypeOK, rtoVars
  <1>5. ASSUME NEW e \in Endpoint, NEW pn \in PN, ReceivedData(e, pn) PROVE TimerTypeOK'
    <2> DEFINE R == rcvd[e] \cup {pn}
               L == IF pn > largestRcvd[e] THEN pn ELSE largestRcvd[e]
               a == ack[Peer(e)][pn]
               sacks == sacked[e] \cup NewlyAcked(e, a)
               lost == DetectLostPackets(e, a, sacks)
               probes == IF NewlyAcked(e, a) = {} THEN tlp[e] ELSE 0
               r == RtoAfterAck(e, a, sacks)
    <2>1. PICK k \in 0..Cardinality(Unsent(e)) :
             /\ SendPackets(e, R, L, lost, k, 0)
             /\ rto' = [rto EXCEPT ![e] = r]
             /\ tlp' = [tlp EXCEPT ![e] = probes]
             /\ highTx' = IF Retx(lost) + k = 0 THEN highTx
                          ELSE [highTx EXCEPT ![e] = nextTx[e] + Retx(lost) + k]
             /\ SetReTxTimeout(e, probes, Retx(lost) + k + 1)
      BY <1>5 DEF ReceivedData, OnReceivedAckFrame, Retx
    <2>2. r \in BOOLEAN
      BY DEF RtoAfterAck, RtoVerified
    <2>3. probes \in 0..MaxTLPs
      BY BoundAssumption DEF TimerTypeOK
    <2>4. UNCHANGED <<sendPending, beforeRto>> /\ due' = [due EXCEPT ![e] = TRUE]
      BY <1>5 DEF ReceivedData, appVars
    <2> HIDE DEF R, L, a, sacks, lost, probes, r
    <2>5. k \in Nat
      OBVIOUS
    <2>6. nextTx[e] + Retx(lost) + k \in 0..MaxPn /\ Retx(lost) \in Nat
      BY <1>3, <2>1, <2>5
    <2>7. highTx' \in [Endpoint -> 0..MaxPn]
      BY <2>1, <2>6 DEF TimerTypeOK
    <2>8. rto' \in [Endpoint -> BOOLEAN] /\ tlp' \in [Endpoint -> 0..MaxTLPs]
      BY <2>1, <2>2, <2>3 DEF TimerTypeOK
    <2>9. Retx(lost) + k + 1 \in Nat
      BY <2>5, <2>6
    <2>10. /\ alarmType' \in [Endpoint -> {TlpAlarm, RtoAlarm}]
           /\ armed' \in [Endpoint -> BOOLEAN]
           /\ stale' \in [Endpoint -> 0..MaxStale]
      BY <2>1, <2>3, <2>9, SetReTxTimeoutType
    <2>11. QED BY <2>4, <2>7, <2>8, <2>10 DEF TimerTypeOK
  <1>6. ASSUME NEW e \in Endpoint, SendAck(e) PROVE TimerTypeOK'
    BY <1>6 DEF SendAck, appVars, rtoVars, alarmVars, TimerTypeOK
  <1>7. ASSUME NEW e \in Endpoint, CanceledAlarm(e) PROVE TimerTypeOK'
    BY <1>7, BoundAssumption DEF CanceledAlarm, appVars, rtoVars, TimerTypeOK
  <1>8. ASSUME NEW e \in Endpoint, NEW n \in 1..2, NEW k \in 0..n, SendProbes(e, n, k)
        PROVE  /\ highTx' \in [Endpoint -> 0..MaxPn]
               /\ alarmType' \in [Endpoint -> {TlpAlarm, RtoAlarm}]
               /\ armed' \in [Endpoint -> BOOLEAN]
               /\ stale' \in [Endpoint -> 0..MaxStale]
               /\ UNCHANGED <<sendPending, due>>
    <2>1. k \in Nat /\ n - k \in Nat /\ k + (n - k) = n /\ Retx({}) = 0 /\ nextTx[e] \in Nat
      BY <1>0 DEF Retx, DataTypeOK
    <2>2. nextTx[e] + Retx({}) + k + (n - k) \in 0..MaxPn
      BY <1>3, <1>8, <2>1 DEF SendProbes
    <2>3. nextTx[e] + n \in 0..MaxPn
      BY <2>1, <2>2
    <2>4. QED BY <1>8, <2>1, <2>3, ExpireType DEF SendProbes, appVars, TimerTypeOK
  <1>9. ASSUME NEW e \in Endpoint, TailLossProbe(e) PROVE TimerTypeOK'
    <2>1. PICK k \in 0..1 : SendProbes(e, 1, k)
      BY <1>9 DEF TailLossProbe
    <2>2. tlp' \in [Endpoint -> 0..MaxTLPs]
      BY <1>9, BoundAssumption DEF TailLossProbe, TimerTypeOK
    <2>3. QED BY <1>8, <1>9, <2>1, <2>2 DEF TailLossProbe, TimerTypeOK
  <1>10. ASSUME NEW e \in Endpoint, RetransmissionTimeout(e) PROVE TimerTypeOK'
    <2>1. PICK k \in 0..2 : SendProbes(e, 2, k)
      BY <1>10 DEF RetransmissionTimeout
    <2>2. beforeRto' \in [Endpoint -> 0..MaxPn] /\ rto' \in [Endpoint -> BOOLEAN]
      BY <1>10 DEF RetransmissionTimeout, TimerTypeOK
    <2>3. QED BY <1>8, <1>10, <2>1, <2>2 DEF RetransmissionTimeout, TimerTypeOK
  <1>11. ASSUME NEW e \in Endpoint, IdleTimeout(e) PROVE TimerTypeOK'
    BY <1>11, ExpireType DEF IdleTimeout, appVars, rtoVars, TimerTypeOK
  <1>12. QED
    BY <1>1, <1>2, <1>4, <1>5, <1>6, <1>7, <1>9, <1>10, <1>11 DEF Next

\* The alarm variables start well-formed.
LEMMA TimerInit == Init => TimerTypeOK
  BY BoundAssumption DEF Init, TimerTypeOK, AlarmFor

-----------------------------------------------------------------------------
\* The variables keep their types: the packet numbers stay within the path's
\* bound and the probes within kMaxTLPs, whatever is lost and whenever an alarm
\* expires.
THEOREM TypeCorrect == Spec => []TypeOK
  <1>1. Init => ListInv /\ TimerTypeOK
    BY RecoveryInit, TimerInit DEF RecoveryInv
  <1>2. ListInv /\ TimerTypeOK /\ [Next]_vars => ListInv' /\ TimerTypeOK'
    BY ListStep, TimerStep
  <1>3. ListInv /\ TimerTypeOK => TypeOK
    BY DEF ListInv, TypeOK
  <1>4. QED BY <1>1, <1>2, <1>3, PTL DEF Spec

\* Retransmission never leaves the same data in two items of the sent list
\* (DoRetransmit, Retransmission), however few gaps the ACK frames report.
THEOREM RetransmissionMovesData == Spec => []OneCopyOutstanding
  <1>1. Init => ListInv
    BY RecoveryInit DEF RecoveryInv
  <1>2. ListInv /\ [Next]_vars => ListInv'
    BY ListStep
  <1>3. ListInv => OneCopyOutstanding
    BY DEF ListInv, CopiesInv
  <1>4. QED BY <1>1, <1>2, <1>3, PTL DEF Spec

\* RecoveryInv holds throughout: what OnAckUpdate removes from the sent list is
\* what the peer's ReceivedData has recorded and passed up.
THEOREM RecoveryInvariant ==
    ASSUME MaxTrackedGaps >= MaxPn
    PROVE  Spec => []RecoveryInv
  <1>1. RecoveryInv /\ [Next]_vars => RecoveryInv'
    BY RecoveryStep
  <1>2. QED BY <1>1, RecoveryInit, PTL DEF Spec

\* For every loss, reordering and duplication, data that left the transmission
\* buffer is with the peer or still held for retransmission (SendDataPacket,
\* OnReceivedAckFrame, DoRetransmit, ReTxTimeout).
THEOREM DataIsNeverLost ==
    ASSUME MaxTrackedGaps >= MaxPn
    PROVE  Spec => []NoDataLost
  <1>1. RecoveryInv => NoDataLost
    BY DEF RecoveryInv
  <1>2. QED BY <1>1, RecoveryInvariant, PTL

\* Every ACK frame OnSendingAckFrame has built covers received numbers only.
THEOREM AcknowledgmentsAreTrue ==
    ASSUME MaxTrackedGaps >= MaxPn
    PROVE  Spec => []AcksAreTrue
  <1>1. RecoveryInv => AcksAreTrue
    BY DEF RecoveryInv
  <1>2. QED BY <1>1, RecoveryInvariant, PTL

=============================================================================
