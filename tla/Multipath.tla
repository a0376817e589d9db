----------------------------- MODULE Multipath -----------------------------
(***************************************************************************)
(* The paths of the connections of one server, and the multiplexers that   *)
(* carry them: QuicL4Protocol with its list of UDP bindings, cloned        *)
(* sockets and authenticated addresses at both ends, MpQuicPathManager,    *)
(* the ADD_ADDRESS / PATH_CHALLENGE / PATH_RESPONSE exchange of            *)
(* QuicSocketBase, and the round robin of MpQuicScheduler.                 *)
(*                                                                         *)
(* Packets of one connection on one path and in one direction keep their   *)
(* order unless a fault happens; different paths race.  A message handed   *)
(* to AppendingTx leaves a nanosecond later, and here at once; what else   *)
(* the handshake may meet is in Connection.                                *)
(***************************************************************************)
EXTENDS Integers, Sequences, SequencesExt, FiniteSets

CONSTANTS Conns,      \* the connections, by connection id
          Setups,     \* the placements of clients on nodes to consider, each
                      \* with the number of interfaces of a node besides the
                      \* first, and of data packets a client sends (a bound)
          MaxFaults   \* bound: packets lost or overtaken

ASSUME MultipathAssumption ==
    /\ Conns \subseteq Nat
    /\ \A s \in Setups : /\ s.home \in [DOMAIN s.home -> Nat \ {0}]
                         /\ DOMAIN s.home \subseteq Conns
                         /\ {s.paths, s.data} \subseteq Nat
    /\ MaxFaults \in Nat

VARIABLES setup,     \* the placement of the clients
          clt,       \* the sockets of the clients
          svr,       \* the sockets cloned by the server, oldest first
          bindings,  \* m_quicUdpBindingList of the server, without the listener
          manager,   \* m_socket of the path manager the clones share
          auth,      \* m_authAddresses of each node
          zrtt,      \* nodes whose m_0RTTHandshakeStart is set
          net,       \* packets on their way, by flow
          fatal,     \* NS_FATAL_ERROR: no handler for a packet
          corrupt,   \* m_subflows was indexed out of range
          faults,    \* packets lost or overtaken so far
          overlap,   \* history: a socket was cloned during another's handshake
          race       \* history: a path was validated before one with a lower id

l4 == <<auth, zrtt>>
server == <<svr, bindings, manager>>
histories == <<faults, overlap, race>>
vars == <<setup, clt, svr, bindings, manager, auth, zrtt, net, fatal, corrupt,
          faults, overlap, race>>

Paths == UNION {0..s.paths : s \in Setups}
Nodes == UNION {{s.home[c] : c \in DOMAIN s.home} : s \in Setups}
home == setup.home
NPaths == setup.paths
Server == 0      \* the node of the server

Subflow == [id : Paths, active : BOOLEAN]
Client == [state : {"IDLE", "CONNECTING_CLT", "OPEN"},
           flows : Seq(Subflow),         \* m_subflows
           last : Nat,                   \* m_lastUsedPathId of its scheduler
           sent : Nat,                   \* data packets sent
           stray : BOOLEAN]              \* history: sent on a path not active
Clone == [conn : Conns,
          state : {"LISTENING", "CONNECTING_SVR", "OPEN", "IDLE"},
          flows : Seq(Subflow)]
Address == Nodes \X Paths
Binding == [sock : Nat, path : Paths, peer : Address]
Packet == [type : {"INITIAL", "HANDSHAKE", "ZRTT", "ADD_ADDRESS",
                   "PATH_CHALLENGE", "PATH_RESPONSE", "DATA", "ACK"},
           arg : Paths,     \* the path an ADD_ADDRESS announces
           to : Nodes \cup {Server}]
Flow == [conn : Conns, path : Paths, to : {"clt", "svr"}]

TypeOK ==
    /\ setup \in Setups
    /\ clt \in [Conns -> Client]
    /\ svr \in Seq(Clone)
    /\ bindings \in Seq(Binding)
    /\ manager \in 0..Len(svr)
    /\ auth \in [Nodes \cup {Server} -> SUBSET (Address \cup ({Server} \X Paths))]
    /\ zrtt \subseteq Nodes \cup {Server}
    /\ net \in [Flow -> Seq(Packet)]
    /\ {fatal, corrupt, overlap, race} \subseteq BOOLEAN
    /\ faults \in 0..MaxFaults

Init ==
    /\ setup \in Setups
    /\ clt = [c \in Conns |-> [state |-> "IDLE", flows |-> <<>>, last |-> 0,
                               sent |-> 0, stray |-> FALSE]]
    /\ svr = <<>>
    /\ bindings = <<>>
    /\ manager = 0
    /\ auth = [n \in Nodes \cup {Server} |-> {}]
    /\ zrtt = {}
    /\ net = [f \in Flow |-> <<>>]
    /\ fatal = FALSE
    /\ corrupt = FALSE
    /\ faults = 0
    /\ overlap = FALSE
    /\ race = FALSE

Running == ~fatal /\ ~corrupt

\* A subflow of the path manager: path 0 is active at once (InitialSubflow0),
\* the others are to be validated.
NewSubflow(p) == [id |-> p, active |-> p = 0]

\* m_subflows[p]: the vector is indexed by path id.
InRange(flows, p) == p < Len(flows)
Activated(flows, p) == [flows EXCEPT ![p + 1].active = TRUE]

\* The flow of a packet of connection c on path p, and the packet itself.
ToServer(c, p) == [conn |-> c, path |-> p, to |-> "svr"]
ToClient(c, p) == [conn |-> c, path |-> p, to |-> "clt"]
Pkt(type, arg, to) == [type |-> type, arg |-> arg, to |-> to]
Put(n, f, pkts) == [n EXCEPT ![f] = @ \o pkts]
-----------------------------------------------------------------------------
\* The multiplexer of the server.

\* The socket ForwardUp finds for connection c: that of the first binding.
SocketOf(c) ==
    LET i == SelectInSeq(bindings, LAMBDA b : svr[b.sock].conn = c)
    IN  IF i = 0 THEN 0 ELSE bindings[i].sock

\* The binding SendPacket uses for path p of socket s, or 0.
BindingOf(bs, s, p) == SelectInSeq(bs, LAMBDA b : b.sock = s /\ b.path = p)

\* SendPacket of socket s on path p: without a binding nothing is sent.
SendPacket(n, bs, s, p, types) ==
    LET i == BindingOf(bs, s, p)
    IN  IF i = 0 THEN n
        ELSE Put(n, ToClient(svr[s].conn, p),
                 [k \in 1..Len(types) |->
                     Pkt(types[k][1], types[k][2], bs[i].peer[1])])

\* ReDoUdpConnect: the first binding with the path id, whoever owns it.
ReDoUdpConnect(p, from) ==
    LET i == SelectInSeq(bindings, LAMBDA b : b.path = p)
    IN  IF i = 0 THEN bindings ELSE [bindings EXCEPT ![i].peer = from]

\* The node takes packets from this address.
Accepts(n, from) == from \in auth[n] \/ n \in zrtt
Authenticated(n, from) == [auth EXCEPT ![n] = @ \cup {from}]

\* CloneSocket, and Connect of the clone: its copy constructor points the
\* shared path manager to it.
Cloned(c, state, from) ==
    LET s == Len(svr) + 1
    IN  /\ svr' = Append(svr, [conn |-> c, state |-> state,
                               flows |-> <<NewSubflow(0)>>])
        /\ bindings' = Append(bindings, [sock |-> s, path |-> 0, peer |-> from])
        /\ manager' = s
        /\ overlap' = (overlap \/ \E i \in 1..Len(svr) :
                                      svr[i].state = "CONNECTING_SVR")

\* An INITIAL packet creates a socket.  From an address that is already
\* authenticated the clone stays LISTENING and ignores the packet; otherwise
\* it answers with its handshake message.
RecvInitial(c, from, rest) ==
    LET fast == Accepts(Server, from)
    IN  /\ Cloned(c, IF fast THEN "LISTENING" ELSE "CONNECTING_SVR", from)
        /\ net' = IF fast THEN rest
                  ELSE Put(rest, ToClient(c, 0), <<Pkt("HANDSHAKE", 0, from[1])>>)
        /\ UNCHANGED <<l4, fatal, corrupt, race>>

\* A 0-RTT packet of an accepted address creates a socket that is OPEN.
RecvZrtt(c, from, rest) ==
    /\ IF Accepts(Server, from)
       THEN /\ Cloned(c, "OPEN", from)
            /\ auth' = Authenticated(Server, from)
       ELSE UNCHANGED <<server, auth, overlap>>
    /\ net' = rest
    /\ UNCHANGED <<zrtt, fatal, corrupt, race>>

\* CreateNewSubflows, called by socket s: the path manager adds the paths to
\* the socket it points to, and announces them to that socket's client.
CreateNewSubflows(s, from, rest) ==
    LET new == [p \in 1..NPaths |-> [sock |-> manager, path |-> p, peer |-> from]]
    IN  /\ svr' = [svr EXCEPT ![manager].flows =
                                  @ \o [p \in 1..NPaths |-> NewSubflow(p)],
                              ![s].state = "OPEN"]
        /\ bindings' = bindings \o new
        /\ zrtt' = IF NPaths > 0 THEN zrtt \cup {Server} ELSE zrtt
        /\ net' = SendPacket(rest, bindings, manager, 0,
                             [p \in 1..NPaths |-> <<"ADD_ADDRESS", p>>])

\* The handshake message of a client completes the connection of its socket.
\* The program stops if it has none.
RecvHandshake(c, from, rest) ==
    LET s == SocketOf(c)
    IN  /\ IF s # 0 /\ svr[s].state = "CONNECTING_SVR"
           THEN CreateNewSubflows(s, from, rest)
           ELSE net' = rest /\ UNCHANGED <<svr, bindings, zrtt>>
        /\ auth' = IF s # 0 THEN Authenticated(Server, from) ELSE auth
        /\ fatal' = (s = 0)
        /\ UNCHANGED <<manager, corrupt, overlap, race>>

\* Mutant: the path is not marked active.
OnReceivedPathChallengeFrameForgets(s, p, from, rest) ==
    /\ UNCHANGED svr
    /\ bindings' = ReDoUdpConnect(p, from)
    /\ net' = SendPacket(rest, bindings', s, p, <<<<"PATH_RESPONSE", 0>>>>)

\* OnReceivedPathChallengeFrame: the path is active for the server.
OnReceivedPathChallengeFrame(s, p, from, rest) ==
    /\ svr' = [svr EXCEPT ![s].flows = Activated(@, p)]
    /\ bindings' = ReDoUdpConnect(p, from)
    /\ net' = SendPacket(rest, bindings', s, p, <<<<"PATH_RESPONSE", 0>>>>)

\* A packet on the open connection: a PATH_CHALLENGE, or data, which is
\* acknowledged on its path.
RecvShort(c, p, type, from, rest) ==
    LET s == SocketOf(c)
        ok == Accepts(Server, from)
        open == ok /\ s # 0 /\ svr[s].state = "OPEN"
    IN  /\ auth' = IF ok THEN Authenticated(Server, from) ELSE auth
        /\ fatal' = (ok /\ s = 0)
        /\ corrupt' = (open /\ ~InRange(svr[s].flows, p))
        /\ IF open /\ ~corrupt' /\ type = "PATH_CHALLENGE"
           THEN OnReceivedPathChallengeFrame(s, p, from, rest)
           ELSE /\ net' = IF open /\ ~corrupt'
                          THEN SendPacket(rest, bindings, s, p, <<<<"ACK", 0>>>>)
                          ELSE rest
                /\ UNCHANGED <<svr, bindings>>
        /\ UNCHANGED <<manager, zrtt, overlap, race>>

\* ForwardUp at the server.
ForwardUp(c, p, pkt, rest) ==
    LET from == <<home[c], p>>
    IN  /\ CASE pkt.type = "INITIAL" -> RecvInitial(c, from, rest)
             [] pkt.type = "HANDSHAKE" -> RecvHandshake(c, from, rest)
             [] pkt.type = "ZRTT" -> RecvZrtt(c, from, rest)
             [] OTHER -> RecvShort(c, p, pkt.type, from, rest)
        /\ UNCHANGED clt

\* DoClose and RemoveSocket at the end of the draining period: the first
\* binding of the socket is removed.
DoClose(s) ==
    /\ Running
    /\ svr[s].state = "OPEN"
    /\ svr' = [svr EXCEPT ![s].state = "IDLE"]
    /\ bindings' = LET i == SelectInSeq(bindings, LAMBDA b : b.sock = s)
                   IN  IF i = 0 THEN bindings ELSE RemoveAt(bindings, i)
    /\ UNCHANGED <<setup, clt, manager, l4, net, fatal, corrupt, histories>>
-----------------------------------------------------------------------------
\* The clients.

\* The header of the first packet of a client whose connection is OPEN.
FirstHeader(c) == IF home[c] \in zrtt THEN "ZRTT" ELSE "HANDSHAKE"

\* Mutant: every server is taken for a known one.
ConnectFast(c) ==
    /\ Running
    /\ clt[c].state = "IDLE"
    /\ clt' = [clt EXCEPT ![c].state = "OPEN", ![c].flows = <<NewSubflow(0)>>]
    /\ net' = Put(net, ToServer(c, 0), <<Pkt(FirstHeader(c), 0, Server)>>)
    /\ UNCHANGED <<setup, server, l4, fatal, corrupt, histories>>

\* Connect: at once (DoFastConnect) where the node knows the server, else with
\* an INITIAL packet.
Connect(c) ==
    LET fast == Accepts(home[c], <<Server, 0>>)
    IN  /\ Running /\ clt[c].state = "IDLE"
        /\ clt' = [clt EXCEPT ![c].state = IF fast THEN "OPEN" ELSE "CONNECTING_CLT",
                              ![c].flows = <<NewSubflow(0)>>]
        /\ net' = Put(net, ToServer(c, 0),
                      <<Pkt(IF fast THEN FirstHeader(c) ELSE "INITIAL", 0, Server)>>)
        /\ UNCHANGED <<setup, server, l4, fatal, corrupt, histories>>

\* The server's handshake message: the client is OPEN and answers.
RecvServerHandshake(c, rest) ==
    /\ clt' = [clt EXCEPT ![c].state = "OPEN"]
    /\ auth' = Authenticated(home[c], <<Server, 0>>)
    /\ net' = Put(rest, ToServer(c, 0), <<Pkt(FirstHeader(c), 0, Server)>>)
    /\ UNCHANGED <<zrtt, fatal, corrupt, race>>

\* Mutant: the new subflow is put in front of the others.
AddSubflowInFront(c, p, rest) ==
    LET flows == <<NewSubflow(p)>> \o clt[c].flows
    IN  /\ clt' = [clt EXCEPT ![c].flows = flows]
        /\ zrtt' = zrtt \cup {home[c]}
        /\ corrupt' = ~InRange(flows, p)
        /\ net' = IF corrupt' THEN rest
                  ELSE Put(rest, ToServer(c, p), <<Pkt("PATH_CHALLENGE", 0, Server)>>)

\* Mutant: the challenge is left out.
AddSubflowSilently(c, p, rest) ==
    /\ clt' = [clt EXCEPT ![c].flows = Append(@, NewSubflow(p))]
    /\ zrtt' = zrtt \cup {home[c]}
    /\ net' = rest
    /\ UNCHANGED corrupt

\* OnReceivedAddAddressFrame: a binding, a subflow and a challenge for the path.
OnReceivedAddAddressFrame(c, p, rest) ==
    LET flows == Append(clt[c].flows, NewSubflow(p))
    IN  /\ clt' = [clt EXCEPT ![c].flows = flows]
        /\ zrtt' = zrtt \cup {home[c]}
        /\ corrupt' = ~InRange(flows, p)
        /\ net' = IF corrupt' THEN rest
                  ELSE Put(rest, ToServer(c, p), <<Pkt("PATH_CHALLENGE", 0, Server)>>)

\* OnReceivedPathResponseFrame: the path is active for the client.  An ACK
\* looks at the same subflow.
OnReceivedPathResponseFrame(c, p, type, rest) ==
    LET flows == clt[c].flows
        valid == type = "PATH_RESPONSE" /\ InRange(flows, p)
    IN  /\ corrupt' = ~InRange(flows, p)
        /\ clt' = IF valid THEN [clt EXCEPT ![c].flows = Activated(@, p)] ELSE clt
        /\ race' = (race \/ (valid /\ \E i \in 1..p : ~flows[i].active))
        /\ net' = rest
        /\ UNCHANGED zrtt

\* A packet of the open connection reaches a node.  It is dropped if its sender
\* is unknown, stops the program if the node has no such connection, and is
\* ignored by a client that is not OPEN.
RecvShortAtClient(c, p, pkt, rest) ==
    LET n == pkt.to
        ok == Accepts(n, <<Server, p>>)
        lost == ok /\ (n # home[c] \/ clt[c].state = "IDLE")
    IN  /\ auth' = IF ok THEN Authenticated(n, <<Server, p>>) ELSE auth
        /\ fatal' = lost
        /\ IF ~ok \/ lost \/ clt[c].state # "OPEN"
           THEN net' = rest /\ UNCHANGED <<clt, zrtt, corrupt, race>>
           ELSE IF pkt.type = "ADD_ADDRESS"
           THEN OnReceivedAddAddressFrame(c, pkt.arg, rest) /\ UNCHANGED race
           ELSE OnReceivedPathResponseFrame(c, p, pkt.type, rest)

ForwardUpAtClient(c, p, pkt, rest) ==
    /\ IF pkt.type = "HANDSHAKE" THEN RecvServerHandshake(c, rest)
                                 ELSE RecvShortAtClient(c, p, pkt, rest)
    /\ UNCHANGED <<server, overlap>>

\* Mutant: subflows that are not validated count as well.
GetActiveSubflowsAll(flows) == 1..Len(flows)

\* The subflows the scheduler chooses from.
GetActiveSubflows(flows) == {i \in 1..Len(flows) : flows[i].active}

\* The index the round robin scheduler answers: into the active subflows.
RoundRobin(r) ==
    LET n == Cardinality(GetActiveSubflows(r.flows))
    IN  IF n <= 1 THEN 0 ELSE (r.last + 1) % n

\* SendPendingData of a client: the scheduler's answer is used as a path id.
\* SendPacket needs a binding of that path.
SendData(c) ==
    LET r == clt[c]
        p == RoundRobin(r)
        ok == InRange(r.flows, p)
    IN  /\ Running
        /\ r.state = "OPEN" /\ r.sent < setup.data
        /\ clt' = [clt EXCEPT ![c] = [r EXCEPT !.last = p, !.sent = @ + 1,
                                               !.stray = @ \/ (ok /\ ~r.flows[p + 1].active)]]
        /\ net' = IF ok /\ \E i \in 1..Len(r.flows) : r.flows[i].id = p
                  THEN Put(net, ToServer(c, p), <<Pkt("DATA", 0, Server)>>) ELSE net
        /\ corrupt' = ~ok
        /\ UNCHANGED <<setup, server, l4, fatal, histories>>
-----------------------------------------------------------------------------
\* The i-th packet of flow f arrives; with i > 1 it overtakes others.
Deliver(f, i) ==
    /\ Running
    /\ i \in 1..Len(net[f])
    /\ i > 1 => faults < MaxFaults
    /\ faults' = IF i > 1 THEN faults + 1 ELSE faults
    /\ LET pkt == net[f][i]
           rest == [net EXCEPT ![f] = RemoveAt(@, i)]
       IN  IF f.to = "svr" THEN ForwardUp(f.conn, f.path, pkt, rest)
                            ELSE ForwardUpAtClient(f.conn, f.path, pkt, rest)
    /\ UNCHANGED setup

\* A packet is lost.
Lose(f) ==
    /\ Running
    /\ net[f] # <<>>
    /\ faults < MaxFaults
    /\ faults' = faults + 1
    /\ net' = [net EXCEPT ![f] = Tail(@)]
    /\ UNCHANGED <<setup, clt, server, l4, fatal, corrupt, overlap, race>>

Next ==
    \/ \E c \in DOMAIN home : Connect(c) \/ SendData(c)
    \/ \E f \in Flow : Lose(f) \/ \E i \in 1..Len(net[f]) : Deliver(f, i)
    \/ \E s \in 1..Len(svr) : DoClose(s)

Spec == Init /\ [][Next]_vars

\* While packets are on their way, one of them arrives.
FairSpec == Spec /\ WF_vars(\E f \in Flow : Deliver(f, 1))
-----------------------------------------------------------------------------
\* No packet was lost or overtaken, no socket closed, and the server had one
\* handshake at a time.
Undisturbed ==
    /\ faults = 0
    /\ ~overlap
    /\ \A s \in 1..Len(svr) : svr[s].state # "IDLE"

\* m_subflows is indexed by path id at both ends, although subflows are
\* appended in the order of events: undisturbed, index and path id agree.
IndexIsPathId ==
    Undisturbed =>
        /\ ~corrupt
        /\ \A c \in Conns : \A i \in 1..Len(clt[c].flows) :
               clt[c].flows[i].id = i - 1
        /\ \A s \in 1..Len(svr) : \A i \in 1..Len(svr[s].flows) :
               svr[s].flows[i].id = i - 1

\* A path that is active for the client is active for the socket the server
\* finds for the connection, whatever is lost, overtaken or mixed up between
\* connections.
ActiveAtBoth ==
    \A c \in Conns : SocketOf(c) # 0 /\ svr[SocketOf(c)].state # "IDLE" =>
        \A i \in 1..Len(clt[c].flows) :
            clt[c].flows[i].active =>
                /\ i <= Len(svr[SocketOf(c)].flows)
                /\ svr[SocketOf(c)].flows[i].active

\* A client sends data only on validated paths as long as paths are validated
\* in the order of their ids (the scheduler's index counts active paths only).
SendsOnActive == \A c \in Conns : clt[c].stray => race

\* A node has opened two connections.
Shared ==
    \E c, d \in DOMAIN home :
        c # d /\ home[c] = home[d] /\ "IDLE" \notin {clt[c].state, clt[d].state}

\* Undisturbed, a packet without a socket stops the program only if a node has
\* opened two connections: the second takes the server for a known one.
StopsOnlyShared == fatal /\ Undisturbed => Shared

\* A client is the first the server has to do with.
First(c) == \A d \in Conns \ {c} : clt[d].state = "IDLE"

\* Undisturbed, every path announced to the first client becomes active.
PathsValidated ==
    \A c \in Conns :
        clt[c].state # "IDLE" ~>
            \/ ~Undisturbed \/ ~First(c)
            \/ /\ Len(clt[c].flows) = NPaths + 1
               /\ \A i \in 1..(NPaths + 1) : clt[c].flows[i].active

\* A clone that waits for an incoming connection gets one: it leaves LISTENING.
ListeningAnswers ==
    []<>(Running => \A s \in 1..Len(svr) : svr[s].state # "LISTENING")
-----------------------------------------------------------------------------
\* The parts of the inductive invariant.  Those about packets take the packets
\* on their way as a parameter: one that arrives is first taken out.

\* Paths are validated in order until race is set.
ClientInv ==
    \A c \in Conns :
        /\ clt[c].stray => race
        /\ clt[c].state = "IDLE" => clt[c].flows = <<>>
        /\ clt[c].state # "IDLE" => /\ c \in DOMAIN home
                                    /\ clt[c].flows # <<>>
                                    /\ clt[c].flows[1].active
        /\ race \/ \A i, j \in 1..Len(clt[c].flows) :
                      i < j /\ clt[c].flows[j].active => clt[c].flows[i].active

\* The server has a socket for connection c.
HasSocket(c) == \E s \in 1..Len(svr) : svr[s].conn = c

\* The socket of connection c that the server finds as long as it is not closed
\* has been opened, and has path p active.
Validated(c, p) ==
    \E s \in 1..Len(svr) :
        /\ svr[s].conn = c
        /\ \A t \in 1..(s - 1) : svr[t].conn # c
        /\ svr[s].state \in {"OPEN", "IDLE"}
        /\ p < Len(svr[s].flows)
        /\ svr[s].flows[p + 1].active

\* What may be on its way, on which path, and what its sender has seen.
PacketOk(f, pkt) ==
    /\ clt[f.conn].state # "IDLE" /\ f.path < Len(clt[f.conn].flows)
    /\ pkt.type \in {"INITIAL", "HANDSHAKE", "ZRTT", "ADD_ADDRESS"} => f.path = 0
    /\ f.to = "svr" =>
           /\ pkt.type \in {"INITIAL", "HANDSHAKE", "ZRTT", "PATH_CHALLENGE", "DATA"}
           /\ pkt.type # "INITIAL" => clt[f.conn].state = "OPEN"
           /\ pkt.type = "HANDSHAKE" => <<Server, 0>> \in auth[home[f.conn]]
           /\ pkt.type = "PATH_CHALLENGE" => f.path > 0
    /\ f.to = "clt" =>
           /\ pkt.type \in {"HANDSHAKE", "ADD_ADDRESS", "PATH_RESPONSE", "ACK"}
           /\ HasSocket(f.conn)
           /\ pkt.type = "ADD_ADDRESS" => pkt.arg \in 1..NPaths
           /\ pkt.type = "PATH_RESPONSE" => Validated(f.conn, f.path)

PacketInv(n) == \A f \in Flow : \A i \in 1..Len(n[f]) : PacketOk(f, n[f][i])

\* A node knows the server from a connection of its own.
NodeInv ==
    \A m \in Nodes : m \in zrtt \/ auth[m] # {} =>
        \E c \in DOMAIN home : home[c] = m /\ clt[c].state = "OPEN"

\* Every socket that is not closed has its first binding ahead of all bindings
\* of later sockets.
SocketInv ==
    /\ svr # <<>> => manager > 0
    /\ \A k \in 1..Len(bindings) : bindings[k].sock \in 1..Len(svr)
    /\ \A s \in 1..Len(svr) :
           /\ clt[svr[s].conn].state # "IDLE"
           /\ svr[s].flows # <<>> /\ svr[s].flows[1].active
           /\ svr[s].state # "IDLE" =>
                  \E k \in 1..Len(bindings) :
                      /\ bindings[k].sock = s
                      /\ \A j \in 1..(k - 1) : bindings[j].sock < s

\* A packet of the handshake.
Opening(pkt) == pkt.type \in {"INITIAL", "HANDSHAKE", "ZRTT"}

\* A connection has at most one packet of its handshake on its way.
OneOpening(n) ==
    \A f, g \in Flow : \A i \in 1..Len(n[f]), j \in 1..Len(n[g]) :
        Opening(n[f][i]) /\ Opening(n[g][j]) /\ f.conn = g.conn => f = g /\ i = j

\* While it is on its way the connection has at most one socket, which waits.
OneSocket(n) ==
    \A f \in Flow : \A i \in 1..Len(n[f]), s \in 1..Len(svr) :
        Opening(n[f][i]) /\ svr[s].conn = f.conn =>
            /\ n[f][i].type # "INITIAL"
            /\ svr[s].state = "CONNECTING_SVR"
            /\ \A t \in 1..Len(svr) : svr[t].conn = f.conn => t = s

\* Of two sockets of a connection the first is stuck in the handshake.
FirstStuck ==
    \A s, t \in 1..Len(svr) :
        s < t /\ svr[s].conn = svr[t].conn => svr[s].state = "CONNECTING_SVR"

OpeningInv(n) == OneOpening(n) /\ OneSocket(n) /\ FirstStuck

\* The server has validated what a client takes for validated.
ValidInv ==
    \A c \in Conns : \A i \in 2..Len(clt[c].flows) :
        clt[c].flows[i].active => Validated(c, i - 1)

\* Unless a node has opened two connections, a client that is OPEN has a socket
\* at the server.
ServedInv == Shared \/ \A c \in Conns : clt[c].state = "OPEN" => HasSocket(c)

\* The server, undisturbed: one handshake at a time, paths for one connection.
CalmServer ==
    /\ \A s, t \in 1..Len(svr) : svr[s].conn = svr[t].conn => s = t
    /\ \A s \in 1..Len(svr) :
           /\ svr[s].state = "CONNECTING_SVR" =>
                  s = Len(svr) /\ manager = s /\ Len(svr[s].flows) = 1 /\ Server \notin zrtt
           /\ Len(svr[s].flows) > 1 =>
                  /\ Len(svr[s].flows) = NPaths + 1
                  /\ svr[s].state = "OPEN" /\ Server \in zrtt
                  /\ clt[svr[s].conn].state = "OPEN"
                  /\ <<Server, 0>> \in auth[home[svr[s].conn]]
                  /\ \A t \in 1..Len(svr) : Len(svr[t].flows) > 1 => t = s
           /\ \A i \in 1..Len(svr[s].flows) : svr[s].flows[i].id = i - 1
    /\ \A k \in 1..Len(bindings) :
           /\ bindings[k].peer[1] = home[svr[bindings[k].sock].conn]
           /\ bindings[k].path > 0 => Len(svr[bindings[k].sock].flows) > 1

\* The socket of connection c has further paths.
Announced(c) == \E s \in 1..Len(svr) : svr[s].conn = c /\ Len(svr[s].flows) > 1

\* The clients, undisturbed: they learn the paths of their socket in order.
CalmClients ==
    \A c \in Conns :
        /\ \A i \in 1..Len(clt[c].flows) : clt[c].flows[i].id = i - 1
        /\ Len(clt[c].flows) > 1 =>
               /\ Len(clt[c].flows) <= NPaths + 1
               /\ Announced(c)

\* The packets, undisturbed: addresses come first and in order.
CalmPacket(n, f, i) ==
    f.to = "clt" =>
        /\ n[f][i].to = home[f.conn]
        /\ \A s \in 1..Len(svr) :
               svr[s].conn = f.conn /\ svr[s].state = "CONNECTING_SVR" =>
                   n[f][i].type = "HANDSHAKE"
        /\ n[f][i].type = "ADD_ADDRESS" =>
               /\ n[f][i].arg = Len(clt[f.conn].flows) + i - 1
               /\ \A j \in 1..i : n[f][j].type = "ADD_ADDRESS"
               /\ Announced(f.conn)

CalmWires(n) == \A f \in Flow : \A i \in 1..Len(n[f]) : CalmPacket(n, f, i)

CalmInv(n) == Undisturbed => CalmServer /\ CalmClients /\ CalmWires(n)

\* The inductive invariant.
MultipathInv ==
    /\ TypeOK /\ ClientInv /\ NodeInv /\ SocketInv /\ ValidInv /\ ServedInv
    /\ PacketInv(net) /\ OpeningInv(net) /\ CalmInv(net)
    /\ Undisturbed => ~corrupt /\ (fatal => Shared)
=============================================================================
