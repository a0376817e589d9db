----------------------------- MODULE Connection -----------------------------
(***************************************************************************)
(* One connection, from Connect to the removal of both sockets: the state  *)
(* machine of QuicSocketBase (handshake with version negotiation, 0-RTT,   *)
(* closing, idle and draining timeouts) at the client and at the server,   *)
(* and the part of QuicL4Protocol::ForwardUp that hands packets to it.     *)
(*                                                                         *)
(* One action is one event of the simulator: a call of the application, a  *)
(* packet that arrives, a scheduled event.  Frames are numbered in the     *)
(* order they are first sent.  The wires keep packets in order; losing or  *)
(* overtaking one is a fault.  Loss detection and windows are left to      *)
(* LossRecovery and CongestionControl: a socket sends what it has, and     *)
(* sends again what is not acknowledged.  Where data may exceed a limit of *)
(* its receiver is chosen freely: that is the subject of ReceivePath.      *)
(* m_serverBusy is never set by any code, INITIAL packets have the         *)
(* configured size, and the transport parameters are the configured ones,  *)
(* so that their maximum packet size is valid: the aborts for these are    *)
(* left out.                                                               *)
(***************************************************************************)
EXTENDS Integers, Sequences, SequencesExt, FiniteSetsExt

CONSTANTS MaxData,      \* bound: frames the application of each end sends
          MaxFaults,    \* bound: packets lost or overtaken
          MaxWire,      \* bound: packets on the wires when an alarm sends one more
          Starts        \* what m_flushOnClose and m_appCloseSentListNoEmpty of
                        \* each end may hold at first: the latter is never
                        \* initialized, the former not in a cloned socket

Ends == {"clt", "svr"}
Peer(e) == IF e = "clt" THEN "svr" ELSE "clt"

ASSUME ConnectionAssumption ==
    /\ MaxData \in [Ends -> Nat]
    /\ {MaxFaults, MaxWire} \subseteq Nat
    /\ Starts \subseteq [Ends -> [flush : BOOLEAN, closeLater : BOOLEAN]]

VARIABLES sock,      \* the two sockets
          bound,     \* ends whose socket has a binding in QuicL4Protocol
          listener,  \* the listening socket still has its binding
          auth,      \* ends whose L4 has the peer in m_authAddresses
          zrtt,      \* m_0RTTHandshakeStart, set alike at both ends
          vers,      \* the client's m_vers is one of the supported versions
          wire,      \* packets on their way to each end
          fatal,     \* NS_FATAL_ERROR has stopped the program
          faults,    \* packets lost or overtaken so far
          opened,    \* history: ends that have reached OPEN
          reason     \* history: a socket has had a reason to close

vars == <<sock, bound, listener, auth, zrtt, vers, wire, fatal, faults,
          opened, reason>>

States == {"IDLE", "LISTENING", "CONNECTING_SVR", "CONNECTING_CLT", "OPEN",
           "CLOSING"}

Socket == [state : States,
           connected : BOOLEAN,    \* m_connected
           idle : BOOLEAN,         \* m_idleTimeoutEvent is running
           orphan : BOOLEAN,       \* an idle timeout nobody can cancel is pending
           draining : BOOLEAN,     \* m_drainingPeriodEvent is running
           closeLater : BOOLEAN,   \* m_appCloseSentListNoEmpty
           closeOnEmpty : BOOLEAN, \* m_closeOnEmpty
           flush : BOOLEAN,        \* m_flushOnClose
           params : BOOLEAN,       \* m_receivedTransportParameters
           could : BOOLEAN,        \* m_couldContainTransportParameters
           stream0 : Nat,          \* frames of stream 0 in m_txBuffer
           data : Nat,             \* frames of other streams in m_txBuffer
           pending : BOOLEAN,      \* m_sendPendingDataEvent is running
           frames : Nat,           \* frames sent at least once
           sent : SUBSET Nat,      \* frames in the sent list
           rcvd : SUBSET Nat,      \* frames received
           ack : BOOLEAN,          \* an ACK is scheduled
           hung : BOOLEAN,         \* the loop of SendPendingData does not end
           written : Nat]          \* history: frames the application sent

Packet == [type : {"INITIAL", "HANDSHAKE", "ZRTT", "NEGOTIATION", "SHORT"},
           body : {"stream", "ack", "close", "versions"},
           ok : BOOLEAN,           \* the version is supported
           n : Nat,                \* the frame it carries
           acks : SUBSET Nat]      \* the frames it acknowledges

TypeOK ==
    /\ sock \in [Ends -> Socket]
    /\ bound \subseteq Ends
    /\ auth \subseteq Ends
    /\ wire \in [Ends -> Seq(Packet)]
    /\ {listener, zrtt, vers, fatal, reason} \subseteq BOOLEAN
    /\ faults \in 0..MaxFaults
    /\ opened \subseteq Ends

\* A socket as its constructor leaves it.
NewSocket(state, s) ==
    [state |-> state, connected |-> FALSE, idle |-> FALSE, orphan |-> FALSE,
     draining |-> FALSE, closeLater |-> s.closeLater,
     closeOnEmpty |-> FALSE, flush |-> s.flush, params |-> FALSE, could |-> TRUE, stream0 |-> 0,
     data |-> 0, pending |-> FALSE, frames |-> 0, sent |-> {}, rcvd |-> {},
     ack |-> FALSE, hung |-> FALSE, written |-> 0]

Init ==
    /\ \E start \in Starts :
           /\ sock = [clt |-> NewSocket("IDLE", start.clt),
                      svr |-> NewSocket("LISTENING", start.svr)]
           /\ reason = (\E e \in Ends : start[e].closeLater)
    /\ bound = {"clt"}
    /\ listener = TRUE
    /\ auth = {}
    /\ zrtt \in BOOLEAN
    /\ vers \in {v \in BOOLEAN : zrtt => v}
    /\ wire = [e \in Ends |-> <<>>]
    /\ fatal = FALSE
    /\ faults = 0
    /\ opened = {}

Pkt(type, body, n, acks) ==
    [type |-> type, body |-> body, ok |-> vers, n |-> n, acks |-> acks]
ClosePacket == Pkt("SHORT", "close", 0, {})

\* The program has neither stopped nor got caught in a loop.
Running == ~fatal /\ \A e \in Ends : ~sock[e].hung

\* What a handler has done so far: the socket and the packets it sent.
Step(r, out) == [r |-> r, out |-> out]
-----------------------------------------------------------------------------
\* The end e has run a handler whose result is x; a socket without a binding
\* sends nothing.
Finish(e, x) ==
    /\ sock' = [sock EXCEPT ![e] = x.r]
    /\ opened' = IF x.r.state = "OPEN" THEN opened \cup {e} ELSE opened

Sent(e, x) ==
    IF e \in bound THEN [wire EXCEPT ![Peer(e)] = @ \o x.out] ELSE wire

\* The socket asks the event queue to close it after the draining period.
Drain(r) == [r EXCEPT !.state = "CLOSING", !.draining = TRUE]

\* Mutant: the sent list is not looked at.
CloseAtOnce(r) ==
    LET c == [r EXCEPT !.params = FALSE]
    IN  IF r.state \in {"IDLE", "CLOSING"} THEN Step(c, <<>>)
        ELSE IF ~r.idle THEN Step(Drain(c), <<>>)
        ELSE IF r.flush
        THEN Step([c EXCEPT !.state = "CLOSING", !.closeLater = FALSE,
                            !.closeOnEmpty = TRUE], <<>>)
        ELSE Step([Drain(c) EXCEPT !.closeLater = FALSE], <<ClosePacket>>)

\* Mutant: no draining period is scheduled.
CloseUndrained(r) ==
    LET c == [r EXCEPT !.params = FALSE]
    IN  IF r.state \in {"IDLE", "CLOSING"} THEN Step(c, <<>>)
        ELSE IF ~r.idle THEN Step([c EXCEPT !.state = "CLOSING"], <<>>)
        ELSE IF r.sent # {} THEN Step([c EXCEPT !.closeLater = TRUE], <<>>)
        ELSE IF r.flush
        THEN Step([c EXCEPT !.state = "CLOSING", !.closeLater = FALSE,
                            !.closeOnEmpty = TRUE], <<>>)
        ELSE Step([Drain(c) EXCEPT !.closeLater = FALSE], <<ClosePacket>>)

\* Close: asked for while the connection is in use, it waits for the sent list
\* to be empty; after the idle timeout it starts the draining period.  (The
\* branch for a listening socket is CloseListener.)
Close(r) ==
    LET c == [r EXCEPT !.params = FALSE]
    IN  IF r.state \in {"IDLE", "CLOSING"} THEN Step(c, <<>>)
        ELSE IF ~r.idle THEN Step(Drain(c), <<>>)
        ELSE IF r.sent # {} THEN Step([c EXCEPT !.closeLater = TRUE], <<>>)
        ELSE IF r.flush
        THEN Step([c EXCEPT !.state = "CLOSING", !.closeLater = FALSE,
                            !.closeOnEmpty = TRUE], <<>>)
        ELSE Step([Drain(c) EXCEPT !.closeLater = FALSE], <<ClosePacket>>)

\* The header SendDataPacket gives a packet.
Header(r) ==
    CASE r.state = "CONNECTING_SVR" -> "HANDSHAKE"
      [] r.state = "CONNECTING_CLT" -> "INITIAL"
      [] OTHER -> IF r.connected THEN "SHORT"
                  ELSE IF zrtt THEN "ZRTT" ELSE "HANDSHAKE"

\* Mutant: the frames of the other streams are counted on stream 0 too.
SendFramesMiscounted(r, k) ==
    Step([r EXCEPT !.idle = TRUE, !.stream0 = @ - k, !.frames = @ + k,
                   !.connected = @ \/ r.state \in {"OPEN", "CONNECTING_SVR"},
                   !.sent = @ \cup (r.frames + 1)..(r.frames + k)],
         [i \in 1..k |-> Pkt(Header(r), "stream", r.frames + i, {})])

\* SendDataPacket for the next k > 0 frames of the transmission buffer.  A
\* closed socket takes them out of the buffer and sends nothing.
SendFrames(r, k) ==
    LET data == IF k > r.stream0 THEN k - r.stream0 ELSE 0
        s == [r EXCEPT !.idle = TRUE,
                       !.orphan = @ \/ data > 0,
                       !.connected = @ \/ r.state \in {"OPEN", "CONNECTING_SVR"},
                       !.stream0 = @ - (k - data),
                       !.data = @ - data,
                       !.frames = @ + k,
                       !.sent = @ \cup (r.frames + 1)..(r.frames + k)]
    IN  Step(s, IF r.state \in {"OPEN", "CONNECTING_SVR", "CONNECTING_CLT"}
                THEN [i \in 1..k |-> Pkt(IF i = 1 THEN Header(r) ELSE Header(s),
                                         "stream", r.frames + i, {})]
                ELSE <<>>)

\* SendPendingData: the frames of stream 0 first, the others only on an open
\* connection.  With nothing to send, a socket that was to close on empty ends
\* the draining period and says so to the peer.  In the draining period
\* SendDataPacket returns at once, and the loop over stream 0 makes no progress.
SendPendingData(r) ==
    LET k == IF r.state \in {"CONNECTING_CLT", "CONNECTING_SVR"}
             THEN r.stream0 ELSE r.stream0 + r.data
    IN  IF r.stream0 + r.data = 0
        THEN IF r.closeOnEmpty
             THEN Step([r EXCEPT !.draining = FALSE], <<ClosePacket>>)
             ELSE Step(r, <<>>)
        ELSE IF r.draining \/ k = 0
        THEN Step([r EXCEPT !.hung = r.draining /\ r.stream0 > 0], <<>>)
        ELSE SendFrames(r, k)

\* x followed by the handler F.
Then(x, F(_)) == LET y == F(x.r) IN Step(y.r, x.out \o y.out)

\* SendInitialHandshake and AppendingTx: a message on stream 0.
SendInitialHandshake(r) ==
    Step([r EXCEPT !.stream0 = @ + 1, !.pending = TRUE], <<>>)

\* AbortConnection: the peer is told, then the socket closed.
AbortConnection(r) ==
    LET type == CASE r.state = "CONNECTING_CLT" -> "INITIAL"
                  [] r.state = "CONNECTING_SVR" -> "HANDSHAKE"
                  [] r.state = "OPEN" /\ ~r.connected -> "HANDSHAKE"
                  [] OTHER -> "SHORT"
    IN  Then(Step(r, <<Pkt(type, "close", 0, {})>>), Close)

\* OnReceivedTransportParameters.
OnReceivedTransportParameters(r) ==
    IF r.params THEN AbortConnection(r)
                ELSE Step([r EXCEPT !.params = TRUE], <<>>)

\* Mutant: the socket closes as soon as everything is acknowledged.
OnReceivedAckFrameEager(r, acks) ==
    LET a == [r EXCEPT !.sent = @ \ acks]
    IN  Then(IF a.sent = {} THEN Close(a) ELSE Step(a, <<>>), SendPendingData)

\* OnReceivedAckFrame: a close that waited for the sent list is carried out,
\* then more data is sent.
OnReceivedAckFrame(r, acks) ==
    LET a == [r EXCEPT !.sent = @ \ acks]
    IN  Then(IF a.closeLater /\ a.sent = {} THEN Close(a) ELSE Step(a, <<>>),
             SendPendingData)

\* DispatchRecv of a packet that is beyond the MaxData limit, or whose frame its
\* stream refuses (its limit, a full buffer): the packet's number is already
\* recorded, the connection is aborted.
DispatchExcess(r, p) ==
    AbortConnection([r EXCEPT !.rcvd = IF p.body = "stream" THEN @ \cup {p.n}
                                                            ELSE @])

\* DispatchRecv: the frame of the packet reaches stream 0, another stream or
\* the socket.
DispatchRecv(r, p) ==
    CASE p.body = "ack" -> OnReceivedAckFrame(r, p.acks)
      [] p.body = "close" -> Close(r)
      [] OTHER -> LET s == [r EXCEPT !.rcvd = @ \cup {p.n}]
                  IN  IF r.could /\ p.type # "SHORT"
                      THEN OnReceivedTransportParameters(s) ELSE Step(s, <<>>)
-----------------------------------------------------------------------------
\* ReceivedData, one operator per branch.  A 0-RTT packet opens the connection
\* of a new server socket.
ReceivedZrtt(r, p) ==
    Then(DispatchRecv([r EXCEPT !.could = TRUE], p),
         LAMBDA s : Step([s EXCEPT !.connected = TRUE, !.state = "OPEN",
                                   !.could = FALSE, !.ack = TRUE], <<>>))

\* Mutant: the flag of the transport parameters is not reset.
ReceivedInitialOnce(r, p) ==
    Then(DispatchRecv(r, p),
         LAMBDA s : IF p.ok THEN SendInitialHandshake([s EXCEPT !.could = FALSE])
                    ELSE Step(s, <<Pkt("NEGOTIATION", "versions", 0, {})>>))

\* The server answers an INITIAL packet, with its own handshake message or
\* with the versions it supports.
ReceivedInitial(r, p) ==
    Then(DispatchRecv(r, p),
         LAMBDA s : IF p.ok THEN SendInitialHandshake([s EXCEPT !.could = FALSE])
                    ELSE Step([s EXCEPT !.params = FALSE, !.could = TRUE],
                              <<Pkt("NEGOTIATION", "versions", 0, {})>>))

\* The client opens and completes the handshake.
ReceivedHandshakeAtClient(r, p) ==
    Then(DispatchRecv(r, p),
         LAMBDA s : SendInitialHandshake([s EXCEPT !.state = "OPEN",
                                                   !.could = FALSE]))

\* The server opens and sends what its application has written.
ReceivedHandshakeAtServer(r, p) ==
    Then(Then(DispatchRecv(r, p),
              LAMBDA s : Step([s EXCEPT !.state = "OPEN"], <<>>)),
         SendPendingData)

\* A packet on the open connection, which exceeds the limit over of the
\* connection, of a stream, or nothing.  It will be acknowledged, except where
\* DispatchRecv returns -1.
ReceivedShort(r, p, over) ==
    Then(IF over = "nothing" THEN DispatchRecv(r, p) ELSE DispatchExcess(r, p),
         LAMBDA s : Step([s EXCEPT !.ack = @ \/ over # "connection"], <<>>))

\* Mutant: the server opens with the first packet of the client.
ReceivedDataHasty(q, p, over) ==
    LET r == [q EXCEPT !.idle = TRUE]
    IN  IF q.draining THEN Step(q, <<>>) ELSE
        CASE p.type = "INITIAL" /\ r.state = "CONNECTING_SVR" ->
                 Then(ReceivedInitial(r, p),
                      LAMBDA s : Step([s EXCEPT !.state = "OPEN"], <<>>))
          [] p.type = "ZRTT" /\ r.state = "LISTENING" -> ReceivedZrtt(r, p)
          [] p.type = "HANDSHAKE" /\ r.state = "CONNECTING_CLT" ->
                 ReceivedHandshakeAtClient(r, p)
          [] p.type = "SHORT" /\ r.state = "OPEN" -> ReceivedShort(r, p, over)
          [] OTHER -> Step(r, <<>>)

\* A packet reaches the socket.  It puts off the idle timeout; in the draining
\* period it is discarded, in any other combination of type and state ignored.
ReceivedData(q, p, over) ==
    LET r == [q EXCEPT !.idle = TRUE]
    IN  IF q.draining THEN Step(q, <<>>) ELSE
        CASE p.type = "ZRTT" /\ r.state = "LISTENING" -> ReceivedZrtt(r, p)
          [] p.type = "INITIAL" /\ r.state = "CONNECTING_SVR" ->
                 ReceivedInitial(r, p)
          [] p.type = "HANDSHAKE" /\ r.state = "CONNECTING_CLT" ->
                 ReceivedHandshakeAtClient(r, p)
          [] p.type = "HANDSHAKE" /\ r.state = "CONNECTING_SVR" ->
                 ReceivedHandshakeAtServer(r, p)
          [] p.type = "NEGOTIATION" /\ r.state = "CONNECTING_CLT" ->
                 SendInitialHandshake(r)
          [] p.type = "SHORT" /\ r.state = "OPEN" -> ReceivedShort(r, p, over)
          [] r.state = "CLOSING" -> AbortConnection(r)
          [] OTHER -> Step(r, <<>>)
-----------------------------------------------------------------------------
\* Mutant: a server socket is created for 0-RTT packets only.
ClonedZrtt(e, p) == e = "svr" /\ p.type = "ZRTT"

\* ForwardUp creates a server socket for the packet.  Its Connect takes it to
\* CONNECTING_SVR, or leaves it LISTENING where a 0-RTT handshake is possible.
Cloned(e, p) ==
    /\ e = "svr"
    /\ \/ p.type = "INITIAL" /\ e \notin bound
       \/ p.type = "ZRTT"

\* ForwardUp refuses packets of an address it has not authenticated.
Refused(e, p) == p.type \in {"ZRTT", "SHORT"} /\ e \notin auth /\ ~zrtt

\* The limits that a packet to e may exceed when the socket takes it.  Only on an
\* open connection is there data to count, and only after the application of the
\* peer has sent some; the peer opens after a packet that has set m_connected.
\* Any packet meets the connection's limit, which counts what waits to be read.
Exceeds(e, p) ==
    {over \in {"nothing", "connection", "stream"} :
        over # "nothing" =>
            /\ p.type = "SHORT" /\ ~Refused(e, p) /\ e \in bound
            /\ sock[e].state = "OPEN" /\ sock[e].connected /\ ~sock[e].draining
            /\ sock[Peer(e)].data < sock[Peer(e)].written
            /\ over = "stream" => p.body = "stream"}

\* A packet arrives: ForwardUp looks for its socket and hands it over.  The
\* program stops where there is none, or no listener to clone.
ForwardUp(e, p, over, rest) ==
    LET clone == Cloned(e, p)
        found == e \in bound \/ (clone /\ listener)
        known == \/ p.type \in {"ZRTT", "SHORT"}
                 \/ p.type = "HANDSHAKE" /\ e \in bound
        r == IF clone /\ ~(zrtt \/ e \in auth)
             THEN [sock[e] EXCEPT !.state = "CONNECTING_SVR"] ELSE sock[e]
    IN  IF Refused(e, p)
        THEN /\ wire' = rest
             /\ UNCHANGED <<sock, bound, auth, vers, fatal, opened>>
        ELSE /\ fatal' = ~found
             /\ bound' = IF found THEN bound \cup {e} ELSE bound
             /\ auth' = IF known THEN auth \cup {e} ELSE auth
             /\ vers' = (vers \/ /\ p.type = "NEGOTIATION"
                                 /\ r.state = "CONNECTING_CLT" /\ ~r.draining)
             /\ IF found
                THEN \E x \in {ReceivedData(r, p, over)} :
                         Finish(e, x) /\ wire' = [rest EXCEPT ![Peer(e)] = @ \o x.out]
                ELSE wire' = rest /\ UNCHANGED <<sock, opened>>

\* The i-th packet on the wire to e arrives; with i > 1 it overtakes others.
Deliver(e, i) ==
    /\ Running
    /\ i \in 1..Len(wire[e])
    /\ i > 1 => faults < MaxFaults
    /\ faults' = IF i > 1 THEN faults + 1 ELSE faults
    /\ \E over \in Exceeds(e, wire[e][i]) :
          /\ ForwardUp(e, wire[e][i], over, [wire EXCEPT ![e] = RemoveAt(@, i)])
          /\ reason' = (reason \/ over # "nothing")
    /\ UNCHANGED <<listener, zrtt>>

\* A packet is lost.
Lose(e) ==
    /\ Running
    /\ wire[e] # <<>>
    /\ faults < MaxFaults
    /\ faults' = faults + 1
    /\ wire' = [wire EXCEPT ![e] = Tail(@)]
    /\ UNCHANGED <<sock, bound, listener, auth, zrtt, vers, fatal, opened, reason>>

\* A handler of the socket of e runs, with the result x.
Run(e, x) ==
    /\ Running
    /\ Finish(e, x)
    /\ UNCHANGED <<listener, auth, zrtt, vers, fatal, faults>>

\* The application of the client connects.  DoConnect, or DoFastConnect where
\* a 0-RTT handshake is possible.
Connect ==
    LET r == sock["clt"]
        x == SendInitialHandshake([r EXCEPT !.state = IF zrtt THEN "OPEN"
                                                      ELSE "CONNECTING_CLT"])
    IN  /\ r.state = "IDLE" /\ r.frames = 0 /\ r.stream0 = 0
        /\ Run("clt", x)
        /\ UNCHANGED <<bound, wire, reason>>

\* The application sends, as soon as the socket is connecting; data that comes
\* before the connection is open waits in the buffer.  (In IDLE AppendingTx stops
\* the program, and there is nothing to send on a listening socket.)
Send(e) ==
    LET r == sock[e]
    IN  /\ e \in bound
        /\ r.state \notin {"IDLE", "LISTENING"} /\ ~r.draining
        /\ r.written < MaxData[e]
        /\ Run(e, Step([r EXCEPT !.data = @ + 1, !.written = @ + 1,
                                 !.pending = TRUE], <<>>))
        /\ UNCHANGED <<bound, wire, reason>>

\* The event scheduled by AppendingTx.
RunSendPendingData(e) ==
    /\ sock[e].pending
    /\ \E x \in {SendPendingData([sock[e] EXCEPT !.pending = FALSE])} :
           Run(e, x) /\ wire' = Sent(e, x)
    /\ UNCHANGED <<bound, reason>>

\* The event scheduled by MaybeQueueAck; it looks at no state.
SendAck(e) ==
    LET r == sock[e]
        x == Step([r EXCEPT !.ack = FALSE], <<Pkt("SHORT", "ack", 0, r.rcvd)>>)
    IN  /\ r.ack
        /\ Len(wire[e]) + Len(wire[Peer(e)]) < MaxWire
        /\ Run(e, x)
        /\ wire' = Sent(e, x)
        /\ UNCHANGED <<bound, reason>>

\* A loss detection alarm on the open connection: the oldest frame that has
\* not been acknowledged is sent again.  (While connecting, the alarm only counts.)
ReTxTimeout(e) ==
    LET r == sock[e]
    IN  /\ r.state = "OPEN" /\ ~r.draining /\ ~r.pending
        /\ Len(wire[e]) + Len(wire[Peer(e)]) < MaxWire
        /\ r.sent # {}
        /\ LET x == Step([r EXCEPT !.idle = TRUE, !.orphan = TRUE],
                         <<Pkt("SHORT", "stream", Min(r.sent), {})>>)
           IN  Run(e, x) /\ wire' = Sent(e, x)
        /\ UNCHANGED <<bound, reason>>

\* Close is called by the application or by a timeout.
CallClose(e, r) ==
    /\ \E x \in {Close(r)} : Run(e, x) /\ wire' = Sent(e, x)
    /\ reason' = TRUE
    /\ UNCHANGED bound

\* The application closes its socket.
AppClose(e) ==
    /\ e \in bound
    /\ sock[e].state \in {"OPEN", "CONNECTING_CLT"}
    /\ CallClose(e, sock[e])

\* Nothing is on its way and no event is due within the idle timeout.
Quiet == \A e \in Ends : wire[e] = <<>> /\ ~sock[e].pending /\ ~sock[e].ack

\* The idle timeout; it is far longer than any round trip.
IdleTimeout(e) ==
    /\ sock[e].idle /\ Quiet
    /\ CallClose(e, [sock[e] EXCEPT !.idle = FALSE])

\* An idle timeout whose event was overwritten, and which no packet puts off.
\* Any further one finds the close already asked for, and changes nothing.
OrphanTimeout(e) ==
    /\ sock[e].orphan
    /\ CallClose(e, [sock[e] EXCEPT !.orphan = FALSE])

\* The end of the draining period: DoClose, and RemoveSocket of the L4.
DoClose(e) ==
    /\ sock[e].draining
    /\ Run(e, Step([sock[e] EXCEPT !.draining = FALSE, !.state = "IDLE"], <<>>))
    /\ bound' = bound \ {e}
    /\ UNCHANGED <<wire, reason>>

\* The listening socket is closed: RemoveSocket closes its clones with it.
CloseListener ==
    /\ listener
    /\ listener' = FALSE
    /\ \E x \in {IF "svr" \in bound THEN Close(sock["svr"])
                                    ELSE Step(sock["svr"], <<>>)} :
           /\ Running
           /\ Finish("svr", x)
           /\ wire' = Sent("svr", x)
    /\ reason' = TRUE
    /\ UNCHANGED <<bound, auth, zrtt, vers, fatal, faults>>

Next ==
    \/ Connect
    \/ CloseListener
    \/ \E e \in Ends :
           \/ \E i \in 1..Len(wire[e]) : Deliver(e, i)
           \/ Lose(e) \/ Send(e) \/ RunSendPendingData(e) \/ SendAck(e)
           \/ ReTxTimeout(e) \/ AppClose(e) \/ IdleTimeout(e)
           \/ OrphanTimeout(e) \/ DoClose(e)

Spec == Init /\ [][Next]_vars

\* Packets that are not lost arrive, and the events that the simulator has in
\* its queue and nobody cancels are executed.
Fairness ==
    /\ \A e \in Ends : WF_vars(Deliver(e, 1))
    /\ WF_vars(\E e \in Ends : RunSendPendingData(e) \/ DoClose(e))

FairSpec == Spec /\ Fairness
-----------------------------------------------------------------------------
\* The server's connection opens only after the client's, whatever the network
\* does and whoever closes: the handshake of ReceivedData is in three steps.
ClientOpensFirst == "svr" \in opened => "clt" \in opened

\* Without loss or reordering, both ends of a connection that has no reason to close
\* become OPEN, with or without version negotiation and 0-RTT.
HandshakeCompletes ==
    []<>(sock["clt"].state = "IDLE" \/ opened = Ends \/ faults > 0 \/ reason)

\* A socket that does not flush is released at the end of the draining period:
\* no end stays in CLOSING with its binding for ever.
Released ==
    []<>(Running => \A e \in bound : sock[e].state = "CLOSING" => sock[e].flush)

\* A connection is closed for a reason: an application, a timeout, an
\* uninitialized flag, or data beyond a limit of its receiver.  No order of
\* packets of the handshake, no loss and no late ACK makes a socket close.
ClosedForAReason ==
    \A e \in Ends : sock[e].state = "CLOSING" => reason

\* Once a socket has sent its first packet, closing it cannot catch the program
\* in the loop of SendPendingData: no frame of stream 0 waits while it drains.
NoHangOnceSent ==
    \A e \in Ends :
        sock[e].draining /\ sock[e].stream0 > 0 => sock[e].frames = 0

\* ForwardUp stops the program for want of a socket only after a packet was lost
\* or overtaken, or once a socket had a reason to close.
StopsOnlyDisturbed == fatal => faults > 0 \/ reason

\* A connection in use starts to close only when everything it has sent is
\* acknowledged (OnReceivedAckFrame and Close look at the sent list).
ClosedWhenAcknowledged ==
    [][\A e \in Ends :
          sock[e].state = "OPEN" /\ sock'[e].state = "CLOSING" /\ sock'[e].idle =>
              sock'[e].sent \cap 1..sock[e].frames = {}]_vars
-----------------------------------------------------------------------------
\* The packets on the wire to e.
OnWire(e) == ToSet(wire[e])

\* Who may be in which state, and the packets that open the server are sent by
\* an open client.
OpenInv ==
    /\ sock["clt"].state \notin {"LISTENING", "CONNECTING_SVR"}
    /\ sock["svr"].state # "CONNECTING_CLT"
    /\ \A e \in Ends : sock[e].state = "OPEN" => e \in opened
    /\ \A p \in OnWire("svr") : p.type \in {"HANDSHAKE", "ZRTT"} => "clt" \in opened
    /\ ClientOpensFirst

\* Until there is a reason to close, nothing that leads to Close is set or on its way, and
\* the transport parameters are awaited once.
ReasonInv ==
    ~reason =>
        /\ listener /\ "clt" \in bound
        /\ "svr" \notin bound => sock["svr"].state = "LISTENING"
        /\ sock["clt"].state = "IDLE" => ~sock["clt"].pending
        /\ \A e \in Ends :
              /\ sock[e].state # "CLOSING"
              /\ ~sock[e].draining /\ ~sock[e].closeLater /\ ~sock[e].closeOnEmpty
              /\ sock[e].state \in {"IDLE", "LISTENING"} => ~sock[e].params
              /\ sock[e].state \in {"CONNECTING_CLT", "CONNECTING_SVR"} =>
                    ~(sock[e].params /\ sock[e].could)
              /\ \A p \in OnWire(e) : p.body # "close"

\* The server has, or is about to have, the client's second flight.
SecondFlight ==
    \/ "svr" \in opened
    \/ \E p \in OnWire("svr") : p.type \in {"HANDSHAKE", "ZRTT"}

\* A socket that has sent a packet and has stream 0 to send holds the packet in
\* its sent list: ACKs come with or after the second flight only.
HangInv ==
    /\ \A e \in Ends :
          /\ sock[e].stream0 > 0 => sock[e].pending \/ sock[e].hung
          /\ sock[e].state \in {"CONNECTING_CLT", "CONNECTING_SVR"} =>
                sock[e].frames = 0 \/ sock[e].sent # {}
          /\ sock[e].state = "OPEN" =>
                sock[e].stream0 = 0 \/ sock[e].frames = 0 \/ sock[e].sent # {}
          /\ sock[e].state \in {"CONNECTING_CLT", "CONNECTING_SVR", "OPEN"} =>
                sock[e].idle \/ sock[e].frames = 0
          /\ \A p \in OnWire(e) : p.body = "ack" => p.type = "SHORT"
    /\ sock["svr"].state = "LISTENING" => sock["svr"].stream0 = 0
    /\ sock["svr"].state = "OPEN" =>
          /\ sock["svr"].stream0 = 0 \/ sock["svr"].draining
          /\ zrtt \/ "svr" \in auth
    /\ zrtt \/ "svr" \in auth \/ sock["svr"].frames = 0 \/ sock["svr"].sent # {}
    /\ "svr" \notin bound =>
          /\ sock["svr"].state \in {"IDLE", "LISTENING"} /\ ~sock["svr"].draining
          /\ sock["svr"].state = "LISTENING" =>
                ~sock["svr"].idle /\ ~sock["svr"].orphan /\ ~sock["svr"].pending
    /\ sock["svr"].ack => "svr" \in opened
    /\ \A p \in OnWire("clt") : p.body = "ack" => "svr" \in opened
    /\ SecondFlight => /\ sock["clt"].stream0 = 0 /\ sock["clt"].frames > 0
                       /\ sock["clt"].state # "CONNECTING_CLT"
    /\ NoHangOnceSent

\* Until a packet is lost or a socket closed, the first packet a server without a
\* socket receives is one that ForwardUp creates a socket for.
StopInv ==
    faults = 0 /\ ~reason =>
        /\ ~fatal
        /\ sock["clt"].sent # {} => sock["clt"].frames > 0
        /\ "svr" \notin bound =>
              /\ wire["clt"] = <<>> /\ ~sock["clt"].ack
              /\ zrtt \/ sock["clt"].state # "OPEN"
              /\ IF sock["clt"].frames = 0
                 THEN wire["svr"] = <<>> /\ ~sock["clt"].connected
                 ELSE /\ wire["svr"] # <<>>
                      /\ \/ wire["svr"][1].type = "INITIAL"
                         \/ wire["svr"][1].type = "ZRTT" /\ zrtt

\* The inductive invariant of the connection.
ConnectionInv == TypeOK /\ OpenInv /\ ReasonInv /\ HangInv /\ StopInv
=============================================================================
