--------------------------- MODULE AckQueueProofs ---------------------------
(***************************************************************************)
(* Proofs about AckQueue for every pair of endpoints, every threshold and  *)
(* every bound.  AckInv is the strengthening that makes AckScheduled,      *)
(* DecimationBound and the refinement of AckDuty inductive.                *)
(***************************************************************************)
EXTENDS AckQueue, TLAPS

\* The peer of an endpoint is an endpoint.
LEMMA PeerIsEndpoint == \A e \in Endpoint : Peer(e) \in Endpoint
  BY DEF Endpoint, Peer

\* The saturation point of the counter lies beyond both thresholds.
LEMMA CountCapFacts ==
    /\ CountCap \in Nat
    /\ CountCap > Decimation
    /\ CountCap > MaxBeforeAck
  BY BoundAssumption DEF CountCap, Larger, Decimation

\* A packet put into a network of the right type leaves it of the right type.
LEMMA EnqueueType ==
    ASSUME net \in [Endpoint -> [Kind -> 0..Capacity]],
           NEW e \in Endpoint, NEW k \in Kind
    PROVE  Enqueue(e, k) \in [Endpoint -> [Kind -> 0..Capacity]]
  <1>1. Smaller(net[e][k] + 1, Capacity) \in 0..Capacity
    BY BoundAssumption DEF Smaller
  <1>2. Enqueue(e, k) = [net EXCEPT ![e] = [net[e] EXCEPT ![k] = Smaller(net[e][k] + 1, Capacity)]]
    BY DEF Enqueue
  <1>3. QED BY <1>1, <1>2

\* MaybeQueueAck and SendAck keep every variable in its range (ReceivedData,
\* the two timer events, SendDataPacket and packet loss).
THEOREM TypeCorrect == Spec => []TypeOK
  <1>1. Init => TypeOK
    BY BoundAssumption, CountCapFacts DEF Init, TypeOK
  <1>2. TypeOK /\ [Next]_vars => TypeOK'
    <2> SUFFICES ASSUME TypeOK, [Next]_vars PROVE TypeOK'
      OBVIOUS
    <2>1. CASE UNCHANGED vars
      BY <2>1 DEF TypeOK, vars
    <2>2. ASSUME NEW e \in Endpoint, SendData(e) PROVE TypeOK'
      <3>1. net' \in [Endpoint -> [Kind -> 0..Capacity]]
        BY <2>2, EnqueueType, PeerIsEndpoint DEF SendData, TypeOK, Kind
      <3>2. dataLeft' \in [Endpoint -> 0..MaxData]
        BY <2>2, BoundAssumption DEF SendData, TypeOK
      <3>3. QED BY <2>2, <3>1, <3>2 DEF SendData, ackVars, TypeOK
    <2>3. ASSUME NEW e \in Endpoint, SendAck(e) PROVE TypeOK'
      <3>1. net' \in [Endpoint -> [Kind -> 0..Capacity]]
        BY <2>3, EnqueueType, PeerIsEndpoint DEF SendAck, TypeOK, Kind
      <3>2. numSince' \in [Endpoint -> 0..CountCap]
        BY <2>3, CountCapFacts DEF SendAck, TypeOK
      <3>3. QED BY <2>3, <3>1, <3>2 DEF SendAck, TypeOK
    <2>4. ASSUME NEW e \in Endpoint, NEW k \in Kind, net[e][k] > 0,
                 net' = [net EXCEPT ![e][k] = @ - 1]
          PROVE  net' \in [Endpoint -> [Kind -> 0..Capacity]]
      <3>1. net[e][k] - 1 \in 0..Capacity
        BY <2>4, BoundAssumption DEF TypeOK
      <3>2. net' = [net EXCEPT ![e] = [net[e] EXCEPT ![k] = net[e][k] - 1]]
        BY <2>4
      <3>3. QED BY <3>1, <3>2 DEF TypeOK
    <2>5. ASSUME NEW e \in Endpoint, NEW k \in Kind, Drop(e, k) PROVE TypeOK'
      BY <2>4, <2>5 DEF Drop, ackVars, TypeOK
    <2>6. ASSUME NEW e \in Endpoint, NEW k \in Kind, ReceivedData(e, k) PROVE TypeOK'
      <3>1. net' \in [Endpoint -> [Kind -> 0..Capacity]]
        BY <2>4, <2>6 DEF ReceivedData
      <3>2. Smaller(numSince[e] + 1, CountCap) \in 0..CountCap
        BY CountCapFacts DEF Smaller, TypeOK
      <3>3. CASE DispatchRecv(k)
        <4>1. numSince' \in [Endpoint -> 0..CountCap]
          BY <2>6, <3>2, <3>3 DEF ReceivedData, MaybeQueueAck, TypeOK
        <4>2. /\ queueAck' \in [Endpoint -> BOOLEAN]
              /\ sendAck' \in [Endpoint -> BOOLEAN]
              /\ delAck' \in [Endpoint -> BOOLEAN]
              /\ received' \in [Endpoint -> BOOLEAN]
          BY <2>6, <3>3, Zenon DEF ReceivedData, MaybeQueueAck, TypeOK
        <4>3. QED BY <2>6, <3>1, <4>1, <4>2 DEF ReceivedData, TypeOK
      <3>4. CASE ~DispatchRecv(k)
        BY <2>6, <3>1, <3>4 DEF ReceivedData, TypeOK
      <3>5. QED BY <3>3, <3>4
    <2>7. QED
      BY <2>1, <2>2, <2>3, <2>5, <2>6 DEF Next, DelAckEvent, SendAckEvent
  <1>3. QED BY <1>1, <1>2, PTL DEF Spec

\* The inductive step of AckInv: only a received packet and SendAck touch the
\* timers and the counter.
LEMMA AckInvStep == TypeOK /\ AckInv /\ [Next]_vars => AckInv'
  <1> SUFFICES ASSUME TypeOK, AckInv, [Next]_vars, NEW f \in Endpoint
               PROVE  (/\ queueAck[f] => sendAck[f]
                       /\ (numSince[f] > 0 /\ ~queueAck[f])
                             => delAck[f] /\ numSince[f] <= Decimation
                       /\ delAck[f] \/ sendAck[f] => numSince[f] > 0 /\ received[f])'
    BY DEF AckInv
  <1>1. CASE UNCHANGED ackVars
    BY <1>1 DEF AckInv, ackVars
  <1>2. ASSUME NEW e \in Endpoint, SendAck(e)
        PROVE  (/\ queueAck[f] => sendAck[f]
                /\ (numSince[f] > 0 /\ ~queueAck[f])
                      => delAck[f] /\ numSince[f] <= Decimation
                /\ delAck[f] \/ sendAck[f] => numSince[f] > 0 /\ received[f])'
    BY <1>2 DEF SendAck, AckInv, TypeOK
  <1>3. ASSUME NEW e \in Endpoint, NEW k \in Kind, ReceivedData(e, k)
        PROVE  (/\ queueAck[f] => sendAck[f]
                /\ (numSince[f] > 0 /\ ~queueAck[f])
                      => delAck[f] /\ numSince[f] <= Decimation
                /\ delAck[f] \/ sendAck[f] => numSince[f] > 0 /\ received[f])'
    <2>1. CASE ~DispatchRecv(k)
      BY <1>3, <2>1 DEF ReceivedData, AckInv, TypeOK
    <2>2. CASE DispatchRecv(k) /\ f # e
      BY <1>3, <2>2 DEF ReceivedData, MaybeQueueAck, AckInv, TypeOK
    <2>3. CASE DispatchRecv(k) /\ f = e
      <3> DEFINE n         == Smaller(numSince[e] + 1, CountCap)
                 immediate == n > MaxBeforeAck
      <3>1. n \in Nat /\ n > 0
        BY CountCapFacts DEF Smaller, TypeOK, Decimation
      <3>2. /\ numSince'[f] = n
            /\ received'[f] = TRUE
            /\ queueAck'[f] = (queueAck[e] \/ immediate
                                 \/ (~(queueAck[e] \/ immediate) /\ n > Decimation))
            /\ sendAck'[f] = (sendAck[e] \/ immediate
                                 \/ (~(queueAck[e] \/ immediate) /\ n > Decimation))
            /\ delAck'[f] = (delAck[e] \/ (~(queueAck[e] \/ immediate) /\ ~(n > Decimation)))
        BY <1>3, <2>3 DEF ReceivedData, MaybeQueueAck, TypeOK
      <3>3. queueAck[e] => sendAck[e]
        BY DEF AckInv
      <3>4. ~(n > Decimation) => n <= Decimation
        BY <3>1 DEF Decimation
      <3> HIDE DEF n, immediate
      <3>5. QED BY <3>1, <3>2, <3>3, <3>4
    <2>4. QED BY <2>1, <2>2, <2>3
  <1>4. QED
    BY <1>1, <1>2, <1>3 DEF Next, vars, ackVars, DelAckEvent, SendAckEvent, SendData, Drop

\* The scheduling invariant of MaybeQueueAck and SendAck holds in every
\* reachable state.
THEOREM AckInvariant == Spec => []AckInv
  <1>1. Init => AckInv
    BY DEF Init, AckInv
  <1>2. QED BY <1>1, AckInvStep, TypeCorrect, PTL DEF Spec

\* No received packet is forgotten by MaybeQueueAck, whatever the thresholds.
THEOREM NothingForgotten == Spec => []AckScheduled
  <1>1. AckInv => AckScheduled
    BY DEF AckInv, AckScheduled
  <1>2. QED BY <1>1, AckInvariant, PTL

\* At most two packets wait for the delayed-ACK timer alone.
THEOREM DecimationHolds == Spec => []DecimationBound
  <1>1. TypeOK /\ AckInv => DecimationBound
    BY DEF AckInv, DecimationBound, TypeOK, Decimation
  <1>2. QED BY <1>1, AckInvariant, TypeCorrect, PTL

\* The timers implement the safety part of the abstract duty: in particular an
\* ACK is never sent by an event that outlived its reason.
THEOREM ImplementsDutySafety == Spec => Duty!DutySafety
  <1> DEFINE owed == [e \in Endpoint |-> numSince[e] > 0]
  <1>1. Init => Duty!DutyInit
    <2> SUFFICES ASSUME Init PROVE owed = [e \in Endpoint |-> FALSE]
      BY DEF Duty!DutyInit, Init
    <2>1. \A e \in Endpoint : (numSince[e] > 0) = FALSE
      BY DEF Init
    <2>2. QED BY <2>1, Zenon
  <1>2. TypeOK /\ AckInv /\ [Next]_vars => [Duty!DutyNext]_<<owed, ackParity>>
    <2> SUFFICES ASSUME TypeOK, AckInv, [Next]_vars
                 PROVE  Duty!DutyNext \/ (owed' = owed /\ ackParity' = ackParity)
      OBVIOUS
    <2>1. CASE UNCHANGED ackVars
      BY <2>1 DEF ackVars
    <2>2. ASSUME NEW e \in Endpoint, SendAck(e), delAck[e] \/ sendAck[e]
          PROVE  Duty!DutyNext
      <3>1. owed[e] = TRUE /\ received[e] = TRUE
        BY <2>2 DEF AckInv, TypeOK
      <3>2. owed' = [owed EXCEPT ![e] = FALSE]
        <4>1. /\ numSince'[e] = 0
              /\ \A f \in Endpoint \ {e} : numSince'[f] = numSince[f]
          BY <2>2 DEF SendAck, TypeOK
        <4>2. (numSince'[e] > 0) = FALSE
          BY <4>1
        <4>3. \A f \in Endpoint : (numSince'[f] > 0) = IF f = e THEN FALSE ELSE numSince[f] > 0
          BY <4>1, <4>2, Zenon
        <4>4. QED BY <4>3, Zenon
      <3>3. ackParity' = [ackParity EXCEPT ![e] = ~ackParity[e]]
        <4>1. ackParity[e] \in BOOLEAN
          BY DEF TypeOK
        <4>2. (ackParity[e] # received[e]) = ~ackParity[e]
          BY <3>1, <4>1
        <4>3. QED BY <2>2, <4>2 DEF SendAck
      <3>4. QED BY <3>1, <3>2, <3>3 DEF Duty!DutyNext, Duty!Discharge
    <2>3. ASSUME NEW e \in Endpoint, NEW k \in Kind, ReceivedData(e, k)
          PROVE  Duty!DutyNext \/ (owed' = owed /\ ackParity' = ackParity)
      <3>1. CASE ~DispatchRecv(k)
        BY <2>3, <3>1 DEF ReceivedData
      <3>2. CASE DispatchRecv(k)
        <4>1. numSince'[e] > 0 /\ \A f \in Endpoint \ {e} : numSince'[f] = numSince[f]
          BY <2>3, <3>2, CountCapFacts
             DEF ReceivedData, MaybeQueueAck, Smaller, TypeOK, Decimation
        <4>2. owed' = [owed EXCEPT ![e] = TRUE]
          <5>1. \A f \in Endpoint : (numSince'[f] > 0) = IF f = e THEN TRUE ELSE numSince[f] > 0
            BY <4>1
          <5>2. QED BY <5>1, Zenon
        <4>3. QED BY <2>3, <4>2 DEF ReceivedData, Duty!DutyNext, Duty!Incur
      <3>3. QED BY <3>1, <3>2
    <2>4. QED
      BY <2>1, <2>2, <2>3 DEF Next, vars, ackVars, DelAckEvent, SendAckEvent, SendData, Drop
  <1>3. QED
    BY <1>1, <1>2, TypeCorrect, AckInvariant, PTL DEF Spec, Duty!DutySafety, Duty!dutyVars
=============================================================================
