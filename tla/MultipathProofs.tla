--------------------------- MODULE MultipathProofs ---------------------------
(***************************************************************************)
(* Proofs about Multipath, for any number of connections, of clients on a  *)
(* node, of paths and of faults.  MultipathInv is inductive.  A packet     *)
(* that arrives is first taken off its flow (Remaining); what its handler  *)
(* does is then a step in which the sockets only grow (ClientsGrow,        *)
(* ServerGrows) and some packets are added at the end of a flow (Adds).    *)
(***************************************************************************)
EXTENDS Multipath, SequenceTheorems, FiniteSetTheorems, WellFoundedInduction, TLAPS

\* A nonempty set of numbers has a least element.
LEMMA LeastIn ==
    ASSUME NEW S \in SUBSET Nat, S # {}
    PROVE  Min(S) \in S /\ \A y \in S : Min(S) <= y
  <1> DEFINE R == OpToRel(<, Nat)
  <1>1. IsWellFoundedOn(R, Nat)
    BY NatLessThanWellFounded, Zenon
  <1>2. \A x, y \in Nat : x < y => <<x, y>> \in R
    BY DEF OpToRel
  <1> HIDE DEF R
  <1>3. PICK x \in S : \A y \in S : ~(<<y, x>> \in R)
    BY <1>1, WFMin
  <1>4. \A y \in S : ~(y < x)
    BY <1>2, <1>3
  <1>5. \A y \in S : x <= y
    BY <1>4
  <1>6. QED BY <1>5 DEF Min

\* The setting: every client is on a node of its own right, never the server's.
LEMMA Setting ==
    ASSUME setup \in Setups
    PROVE  /\ NPaths \in Nat /\ 0..NPaths \subseteq Paths
           /\ Paths \subseteq Nat /\ \A p \in Paths : 0..p \subseteq Paths
           /\ DOMAIN home \subseteq Conns
           /\ \A c \in DOMAIN home : home[c] \in Nodes
           /\ Nodes \subseteq Nat \ {0} /\ Server \notin Nodes
  <1>1. \A s \in Setups : /\ s.home \in [DOMAIN s.home -> Nat \ {0}]
                          /\ DOMAIN s.home \subseteq Conns
                          /\ s.paths \in Nat
    BY MultipathAssumption
  <1>2. NPaths \in Nat /\ 0..NPaths \subseteq Paths
    BY <1>1 DEF NPaths, Paths
  <1>3. Paths \subseteq Nat /\ \A p \in Paths : 0..p \subseteq Paths
    BY <1>1 DEF Paths
  <1>4. DOMAIN home \subseteq Conns /\ \A c \in DOMAIN home : home[c] \in Nodes
    BY <1>1 DEF home, Nodes
  <1>5. Nodes \subseteq Nat \ {0}
    BY <1>1 DEF Nodes
  <1>6. QED BY <1>2, <1>3, <1>4, <1>5 DEF Server

-----------------------------------------------------------------------------
\* What is left of a sequence without its i-th element.
LEMMA RemoveFacts ==
    ASSUME NEW S, NEW s \in Seq(S), NEW i \in 1..Len(s)
    PROVE  /\ RemoveAt(s, i) \in Seq(S) /\ Len(RemoveAt(s, i)) = Len(s) - 1
           /\ \A j \in 1..(Len(s) - 1) :
                 RemoveAt(s, i)[j] = IF j < i THEN s[j] ELSE s[j + 1]
  <1>1. Len(s) \in Nat /\ \A m \in 1..Len(s) : s[m] \in S
    BY LenProperties, ElementOfSeq
  <1>2. i \in Nat /\ 1 <= i /\ i <= Len(s)
    BY <1>1
  <1> DEFINE a == SubSeq(s, 1, i - 1)
             b == SubSeq(s, i + 1, Len(s))
             n == Len(s)
  <1>3. /\ a \in Seq(S) /\ Len(a) = i - 1 /\ \A m \in 1..(i - 1) : a[m] = s[m]
    <2>1. \A m \in 1..(i - 1) : s[m] \in S
      BY <1>1
    <2>2. /\ a \in Seq(S)
          /\ Len(a) = IF 1 <= i - 1 THEN (i - 1) - 1 + 1 ELSE 0
          /\ \A m \in 1..((i - 1) - 1 + 1) : a[m] = s[1 + m - 1]
      BY <1>1, <2>1, SubSeqProperties
    <2> HIDE DEF a
    <2>3. (i - 1) - 1 + 1 = i - 1 /\ (i - 1 < 1 => i - 1 = 0) /\ \A m \in Nat : 1 + m - 1 = m
      OBVIOUS
    <2>4. QED BY <1>1, <2>2, <2>3
  <1>4. /\ b \in Seq(S) /\ Len(b) = n - i /\ \A m \in 1..(n - i) : b[m] = s[i + m]
    <2>1. \A m \in (i + 1)..n : s[m] \in S
      BY <1>1
    <2>2. /\ b \in Seq(S)
          /\ Len(b) = IF i + 1 <= n THEN n - (i + 1) + 1 ELSE 0
          /\ \A m \in 1..(n - (i + 1) + 1) : b[m] = s[(i + 1) + m - 1]
      BY <1>1, <2>1, SubSeqProperties
    <2> HIDE DEF a, b
    <2>3. n \in Nat
      BY <1>1
    <2> HIDE DEF n
    <2>4. n - (i + 1) + 1 = n - i /\ \A m \in Nat : (i + 1) + m - 1 = i + m
      BY <2>3
    <2>5. i <= n
      BY <1>2 DEF n
    <2>6. Len(b) = n - i
      BY <2>2, <2>3, <2>4, <2>5, <1>2
    <2>7. ASSUME NEW m \in 1..(n - i) PROVE b[m] = s[i + m]
      <3>1. m \in Nat /\ m \in 1..(n - (i + 1) + 1)
        BY <2>3, <2>4
      <3>2. QED BY <3>1, <2>2, <2>4
    <2>8. QED BY <2>2, <2>6, <2>7
  <1> HIDE DEF a, b
  <1>5. RemoveAt(s, i) = a \o b
    BY DEF RemoveAt, a, b
  <1>6. /\ a \o b \in Seq(S) /\ Len(a \o b) = Len(a) + Len(b)
        /\ \A j \in 1..(Len(a) + Len(b)) :
              (a \o b)[j] = IF j <= Len(a) THEN a[j] ELSE b[j - Len(a)]
    BY <1>3, <1>4, ConcatProperties
  <1>7. Len(a) + Len(b) = n - 1 /\ n \in Nat
    BY <1>1, <1>2, <1>3, <1>4
  <1> HIDE DEF n
  <1>8. ASSUME NEW j \in 1..(n - 1)
        PROVE  (a \o b)[j] = IF j < i THEN s[j] ELSE s[j + 1]
    <2>1. CASE j < i
      BY <2>1, <1>2, <1>3, <1>6, <1>7
    <2>2. CASE j >= i
      <3>1. j - (i - 1) \in 1..(n - i) /\ i + (j - (i - 1)) = j + 1 /\ ~(j <= i - 1)
        BY <2>2, <1>2, <1>7
      <3>2. QED BY <3>1, <2>2, <1>2, <1>3, <1>4, <1>6, <1>7
    <2>3. j < i \/ j >= i
      BY <1>2, <1>7
    <2>4. QED BY <2>1, <2>2, <2>3
  <1>9. QED BY <1>5, <1>6, <1>7, <1>8 DEF n

\* The flows are without the i-th packet of flow f.
Remaining(n, f, i) ==
    /\ n \in [Flow -> Seq(Packet)]
    /\ \A h \in Flow : \A j \in 1..Len(n[h]) :
          \/ (h # f \/ j < i) /\ j \in 1..Len(net[h]) /\ n[h][j] = net[h][j]
          \/ h = f /\ j >= i /\ j + 1 \in 1..Len(net[h]) /\ n[h][j] = net[h][j + 1]

\* A packet is taken off its flow.
LEMMA TakenOff ==
    ASSUME net \in [Flow -> Seq(Packet)], NEW f \in Flow, NEW i \in 1..Len(net[f])
    PROVE  Remaining([net EXCEPT ![f] = RemoveAt(@, i)], f, i)
  <1> DEFINE n == [net EXCEPT ![f] = RemoveAt(@, i)]
  <1>1. \A h \in Flow : net[h] \in Seq(Packet) /\ Len(net[h]) \in Nat
    BY LenProperties
  <1>2. /\ RemoveAt(net[f], i) \in Seq(Packet) /\ Len(RemoveAt(net[f], i)) = Len(net[f]) - 1
        /\ \A j \in 1..(Len(net[f]) - 1) :
              RemoveAt(net[f], i)[j] = IF j < i THEN net[f][j] ELSE net[f][j + 1]
    BY <1>1, RemoveFacts
  <1>3. n \in [Flow -> Seq(Packet)] /\ n[f] = RemoveAt(net[f], i)
        /\ \A h \in Flow : h # f => n[h] = net[h]
    BY <1>2
  <1> HIDE DEF n
  <1>4. ASSUME NEW j \in 1..Len(n[f])
        PROVE  \/ j < i /\ j \in 1..Len(net[f]) /\ n[f][j] = net[f][j]
               \/ j >= i /\ j + 1 \in 1..Len(net[f]) /\ n[f][j] = net[f][j + 1]
    <2>1. j \in 1..(Len(net[f]) - 1) /\ j \in 1..Len(net[f]) /\ j + 1 \in 1..Len(net[f])
      BY <1>1, <1>2, <1>3
    <2>2. n[f][j] = IF j < i THEN net[f][j] ELSE net[f][j + 1]
      BY <2>1, <1>2, <1>3
    <2>3. j < i \/ j >= i
      BY <1>1
    <2>4. QED BY <2>1, <2>2, <2>3
  <1>5. QED BY <1>3, <1>4 DEF Remaining, n

\* So is the first one if it is lost.
LEMMA LostOff ==
    ASSUME net \in [Flow -> Seq(Packet)], NEW f \in Flow, net[f] # <<>>
    PROVE  Remaining([net EXCEPT ![f] = Tail(@)], f, 1)
  <1> DEFINE n == [net EXCEPT ![f] = Tail(@)]
  <1>1. net[f] \in Seq(Packet) /\ Len(net[f]) \in Nat \ {0}
    BY EmptySeq
  <1>2. /\ Tail(net[f]) \in Seq(Packet) /\ Len(Tail(net[f])) = Len(net[f]) - 1
        /\ \A j \in 1..Len(Tail(net[f])) : Tail(net[f])[j] = net[f][j + 1]
    BY <1>1, HeadTailProperties
  <1>3. n \in [Flow -> Seq(Packet)] /\ n[f] = Tail(net[f])
        /\ \A h \in Flow : h # f => n[h] = net[h]
    BY <1>2
  <1> HIDE DEF n
  <1>4. \A j \in 1..Len(n[f]) : j >= 1 /\ j + 1 \in 1..Len(net[f]) /\ n[f][j] = net[f][j + 1]
    BY <1>1, <1>2, <1>3
  <1>5. QED BY <1>3, <1>4 DEF Remaining, n

\* The flows m are the flows n with packets added at the end of flow g.
Adds(n, m, g, pkts) ==
    /\ m \in [Flow -> Seq(Packet)]
    /\ \A h \in Flow : \A j \in 1..Len(m[h]) :
          \/ j \in 1..Len(n[h]) /\ m[h][j] = n[h][j]
          \/ /\ h = g /\ j > Len(n[g]) /\ j - Len(n[g]) \in 1..Len(pkts)
             /\ m[h][j] = pkts[j - Len(n[g])]

\* Put adds packets.
LEMMA PutAdds ==
    ASSUME NEW n \in [Flow -> Seq(Packet)], NEW g \in Flow, NEW pkts \in Seq(Packet)
    PROVE  Adds(n, Put(n, g, pkts), g, pkts)
  <1> DEFINE m == Put(n, g, pkts)
  <1>1. n[g] \in Seq(Packet) /\ Len(n[g]) \in Nat /\ Len(pkts) \in Nat
    BY LenProperties
  <1>2. /\ n[g] \o pkts \in Seq(Packet) /\ Len(n[g] \o pkts) = Len(n[g]) + Len(pkts)
        /\ \A j \in 1..(Len(n[g]) + Len(pkts)) :
              (n[g] \o pkts)[j] = IF j <= Len(n[g]) THEN n[g][j] ELSE pkts[j - Len(n[g])]
    BY <1>1, ConcatProperties
  <1>3. m \in [Flow -> Seq(Packet)] /\ m[g] = n[g] \o pkts /\ \A h \in Flow : h # g => m[h] = n[h]
    BY <1>2 DEF Put
  <1> HIDE DEF m
  <1>4. ASSUME NEW j \in 1..Len(m[g])
        PROVE  \/ j \in 1..Len(n[g]) /\ m[g][j] = n[g][j]
               \/ /\ j > Len(n[g]) /\ j - Len(n[g]) \in 1..Len(pkts)
                  /\ m[g][j] = pkts[j - Len(n[g])]
    <2>1. j \in 1..(Len(n[g]) + Len(pkts)) /\ m[g][j] = (n[g] \o pkts)[j]
      BY <1>2, <1>3
    <2>2. (j <= Len(n[g]) /\ j \in 1..Len(n[g])) \/ (~(j <= Len(n[g])) /\ j > Len(n[g]) /\ j - Len(n[g]) \in 1..Len(pkts))
      BY <1>1, <2>1
    <2>3. QED BY <1>2, <2>1, <2>2
  <1>5. QED BY <1>3, <1>4 DEF Adds, m

\* Nothing is added.
LEMMA NothingAdds ==
    ASSUME NEW n \in [Flow -> Seq(Packet)], NEW g \in Flow
    PROVE  Adds(n, n, g, <<>>)
  BY DEF Adds

\* One packet.
LEMMA OnePacket ==
    ASSUME NEW p \in Packet
    PROVE  <<p>> \in Seq(Packet) /\ Len(<<p>>) = 1 /\ <<p>>[1] = p
  OBVIOUS

-----------------------------------------------------------------------------
\* No step takes anything back: clients do not return to an earlier state, and
\* keep their subflows.
ClientsGrow ==
    \A c \in Conns :
        /\ clt[c].state # "IDLE" => clt'[c].state # "IDLE"
        /\ clt[c].state = "OPEN" => clt'[c].state = "OPEN"
        /\ Len(clt[c].flows) <= Len(clt'[c].flows)

\* Nor do the sockets of the server.
ServerGrows ==
    /\ Len(svr) <= Len(svr')
    /\ \A s \in 1..Len(svr) :
          /\ svr'[s].conn = svr[s].conn
          /\ svr[s].state = "IDLE" => svr'[s].state = "IDLE"
          /\ svr[s].state = "OPEN" => svr'[s].state \in {"OPEN", "IDLE"}
          /\ svr'[s].state = "CONNECTING_SVR" => svr[s].state = "CONNECTING_SVR"
          /\ Len(svr[s].flows) <= Len(svr'[s].flows)
          /\ \A i \in 1..Len(svr[s].flows) :
                svr[s].flows[i].active => svr'[s].flows[i].active

Grows ==
    /\ setup' = setup
    /\ ClientsGrow /\ ServerGrows
    /\ \A m \in Nodes : auth[m] \subseteq auth'[m]

\* A connection keeps its sockets.
LEMMA SocketKept ==
    ASSUME TypeOK, TypeOK', ServerGrows, NEW c, HasSocket(c)
    PROVE  HasSocket(c)'
  <1>1. PICK s \in 1..Len(svr) : svr[s].conn = c
    BY DEF HasSocket
  <1>2. Len(svr) \in Nat /\ Len(svr') \in Nat
    BY LenProperties DEF TypeOK
  <1>3. s \in 1..Len(svr') /\ svr'[s].conn = c
    BY <1>1, <1>2 DEF ServerGrows
  <1>4. QED BY <1>3 DEF HasSocket

\* A path stays validated.
LEMMA ValidatedKept ==
    ASSUME TypeOK, TypeOK', ServerGrows, NEW c, NEW p \in Nat, Validated(c, p)
    PROVE  Validated(c, p)'
  <1>1. PICK s \in 1..Len(svr) :
            /\ svr[s].conn = c
            /\ \A t \in 1..(s - 1) : svr[t].conn # c
            /\ svr[s].state \in {"OPEN", "IDLE"}
            /\ p < Len(svr[s].flows)
            /\ svr[s].flows[p + 1].active
    BY DEF Validated
  <1>2. Len(svr) \in Nat /\ Len(svr') \in Nat
    BY LenProperties DEF TypeOK
  <1>3. s \in 1..Len(svr') /\ \A t \in 1..(s - 1) : t \in 1..Len(svr)
    BY <1>1, <1>2 DEF ServerGrows
  <1>4. svr[s] \in Clone /\ svr'[s] \in Clone
    BY <1>3, ElementOfSeq DEF TypeOK
  <1>5. Len(svr[s].flows) \in Nat /\ Len(svr'[s].flows) \in Nat
    BY <1>4, LenProperties DEF Clone
  <1>6. p + 1 \in 1..Len(svr[s].flows)
    BY <1>1, <1>5
  <1>7. svr'[s].conn = c /\ svr'[s].state \in {"OPEN", "IDLE"}
    BY <1>1 DEF ServerGrows
  <1>8. svr'[s].flows[p + 1].active /\ Len(svr[s].flows) <= Len(svr'[s].flows)
    BY <1>1, <1>6 DEF ServerGrows
  <1>9. \A t \in 1..(s - 1) : svr'[t].conn # c
    BY <1>1, <1>3 DEF ServerGrows
  <1>10. QED BY <1>1, <1>3, <1>5, <1>7, <1>8, <1>9 DEF Validated

\* What holds of a packet on its way goes on to hold.
LEMMA PacketKept ==
    ASSUME TypeOK, TypeOK', Grows, NEW f \in Flow, NEW pkt,
           PacketOk(f, pkt), ClientInv
    PROVE  PacketOk(f, pkt)'
  <1>1. f.conn \in Conns /\ f.path \in Paths /\ f.to \in {"clt", "svr"}
    BY DEF Flow
  <1>2. f.path \in Nat
    BY <1>1, Setting DEF TypeOK
  <1>3. clt[f.conn] \in Client /\ clt'[f.conn] \in Client
    BY <1>1 DEF TypeOK
  <1>4. Len(clt[f.conn].flows) \in Nat /\ Len(clt'[f.conn].flows) \in Nat
    BY <1>3, LenProperties DEF Client
  <1>5. clt'[f.conn].state # "IDLE" /\ f.path < Len(clt'[f.conn].flows)
    BY <1>1, <1>2, <1>4 DEF PacketOk, Grows, ClientsGrow
  <1>6. pkt.type \in {"INITIAL", "HANDSHAKE", "ZRTT", "ADD_ADDRESS"} => f.path = 0
    BY DEF PacketOk
  <1>7. ASSUME f.to = "svr"
        PROVE  /\ pkt.type \in {"INITIAL", "HANDSHAKE", "ZRTT", "PATH_CHALLENGE", "DATA"}
               /\ pkt.type # "INITIAL" => clt'[f.conn].state = "OPEN"
               /\ pkt.type = "PATH_CHALLENGE" => f.path > 0
    BY <1>1, <1>7 DEF PacketOk, Grows, ClientsGrow
  <1>8. ASSUME f.to = "svr", pkt.type = "HANDSHAKE"
        PROVE  <<Server, 0>> \in auth'[home'[f.conn]]
    <2>1. <<Server, 0>> \in auth[home[f.conn]] /\ clt[f.conn].state # "IDLE"
      BY <1>8 DEF PacketOk
    <2>2. home[f.conn] \in Nodes
      BY <1>1, <2>1, Setting DEF TypeOK, ClientInv
    <2>3. home' = home
      BY DEF Grows, home
    <2>4. QED BY <2>1, <2>2, <2>3 DEF Grows
  <1>9. ASSUME f.to = "clt"
        PROVE  /\ pkt.type \in {"HANDSHAKE", "ADD_ADDRESS", "PATH_RESPONSE", "ACK"}
               /\ HasSocket(f.conn)'
               /\ pkt.type = "ADD_ADDRESS" => pkt.arg \in 1..NPaths'
               /\ pkt.type = "PATH_RESPONSE" => Validated(f.conn, f.path)'
    <2>1. /\ pkt.type \in {"HANDSHAKE", "ADD_ADDRESS", "PATH_RESPONSE", "ACK"}
          /\ HasSocket(f.conn)
          /\ pkt.type = "ADD_ADDRESS" => pkt.arg \in 1..NPaths
          /\ pkt.type = "PATH_RESPONSE" => Validated(f.conn, f.path)
      BY <1>9 DEF PacketOk
    <2>2. NPaths' = NPaths /\ ServerGrows
      BY DEF Grows, NPaths
    <2>3. HasSocket(f.conn)'
      BY <2>1, <2>2, SocketKept
    <2>4. pkt.type = "PATH_RESPONSE" => Validated(f.conn, f.path)'
      BY <2>1, <2>2, <1>2, ValidatedKept
    <2>5. QED BY <2>1, <2>2, <2>3, <2>4
  <1>10. QED BY <1>5, <1>6, <1>7, <1>8, <1>9 DEF PacketOk

\* The packets after a step: those that remained and those that were added.
LEMMA PacketsStep ==
    ASSUME TypeOK, TypeOK', Grows, ClientInv,
           NEW n \in [Flow -> Seq(Packet)], PacketInv(n),
           NEW g \in Flow, NEW pkts, Adds(n, net', g, pkts),
           \A k \in 1..Len(pkts) : PacketOk(g, pkts[k])'
    PROVE  PacketInv(net)'
  <1> SUFFICES ASSUME NEW f \in Flow, NEW i \in 1..Len(net'[f])
               PROVE  PacketOk(f, net[f][i])'
    BY DEF PacketInv
  <1>1. CASE i \in 1..Len(n[f]) /\ net'[f][i] = n[f][i]
    <2>1. PacketOk(f, n[f][i])
      BY <1>1 DEF PacketInv
    <2>2. PICK p : p = n[f][i]
      OBVIOUS
    <2>3. PacketOk(f, p)'
      BY <2>1, <2>2, PacketKept
    <2>4. net'[f][i] = p
      BY <1>1, <2>2
    <2>5. QED BY <2>3, <2>4 DEF PacketOk
  <1>2. CASE f = g /\ i - Len(n[g]) \in 1..Len(pkts) /\ net'[f][i] = pkts[i - Len(n[g])]
    <2>1. PICK k \in 1..Len(pkts) : f = g /\ net'[f][i] = pkts[k]
      BY <1>2
    <2>2. PacketOk(g, pkts[k])'
      OBVIOUS
    <2>3. QED BY <2>1, <2>2 DEF PacketOk
  <1>3. QED BY <1>1, <1>2 DEF Adds

\* A packet that arrives satisfies the invariant, and the others still do.
LEMMA RestPackets ==
    ASSUME TypeOK, PacketInv(net), NEW f \in Flow, NEW i \in 1..Len(net[f]),
           NEW n, Remaining(n, f, i)
    PROVE  PacketInv(n) /\ PacketOk(f, net[f][i])
  <1>1. ASSUME NEW h \in Flow, NEW j \in 1..Len(n[h])
        PROVE  PacketOk(h, n[h][j])
    BY DEF Remaining, PacketInv
  <1>2. QED BY <1>1 DEF PacketInv

\* The same for the packets of the handshake: if one arrives, no other remains.
LEMMA RestOpening ==
    ASSUME TypeOK, OpeningInv(net), NEW f \in Flow, NEW i \in 1..Len(net[f]),
           NEW n, Remaining(n, f, i)
    PROVE  /\ OpeningInv(n)
           /\ Opening(net[f][i]) =>
                 \A h \in Flow : \A j \in 1..Len(n[h]) :
                     h.conn = f.conn => ~Opening(n[h][j])
  <1>1. \A h \in Flow : Len(net[h]) \in Nat /\ Len(n[h]) \in Nat
    BY LenProperties DEF TypeOK, Remaining
  <1> DEFINE O(h, j) == IF h = f /\ j >= i THEN j + 1 ELSE j
  <1>2. \A h \in Flow : \A j \in 1..Len(n[h]) :
            /\ O(h, j) \in 1..Len(net[h]) /\ n[h][j] = net[h][O(h, j)]
            /\ h = f => O(h, j) # i
    BY <1>1 DEF Remaining
  <1>3. \A h \in Flow : \A j, k \in 1..Len(n[h]) : O(h, j) = O(h, k) => j = k
    BY <1>1
  <1> HIDE DEF O
  <1>4. OneOpening(n)
    <2> SUFFICES ASSUME NEW h \in Flow, NEW k \in Flow,
                        NEW j \in 1..Len(n[h]), NEW l \in 1..Len(n[k]),
                        Opening(n[h][j]), Opening(n[k][l]), h.conn = k.conn
                 PROVE  h = k /\ j = l
      BY DEF OneOpening
    <2>1. /\ O(h, j) \in 1..Len(net[h]) /\ n[h][j] = net[h][O(h, j)]
          /\ O(k, l) \in 1..Len(net[k]) /\ n[k][l] = net[k][O(k, l)]
      BY <1>2
    <2>2. Opening(net[h][O(h, j)]) /\ Opening(net[k][O(k, l)])
      BY <2>1
    <2>3. OneOpening(net)
      BY DEF OpeningInv
    <2>4. PICK a \in 1..Len(net[h]), b \in 1..Len(net[k]) : a = O(h, j) /\ b = O(k, l)
      BY <2>1
    <2>5. Opening(net[h][a]) /\ Opening(net[k][b])
      BY <2>2, <2>4
    <2>6. h = k /\ a = b
      BY <2>3, <2>5 DEF OneOpening
    <2>7. QED BY <2>4, <2>6, <1>3
  <1>5. OneSocket(n)
    <2> SUFFICES ASSUME NEW h \in Flow, NEW j \in 1..Len(n[h]), NEW s \in 1..Len(svr),
                        Opening(n[h][j]), svr[s].conn = h.conn
                 PROVE  /\ n[h][j].type # "INITIAL"
                        /\ svr[s].state = "CONNECTING_SVR"
                        /\ \A t \in 1..Len(svr) : svr[t].conn = h.conn => t = s
      BY DEF OneSocket
    <2>1. QED BY <1>2 DEF OneSocket, OpeningInv
  <1>6. ASSUME Opening(net[f][i]), NEW h \in Flow, NEW j \in 1..Len(n[h]),
               h.conn = f.conn, Opening(n[h][j])
        PROVE  FALSE
    BY <1>2, <1>6 DEF OneOpening, OpeningInv
  <1>7. QED BY <1>4, <1>5, <1>6 DEF OpeningInv

-----------------------------------------------------------------------------
\* Two connections of a node stay two.
LEMMA SharedKept ==
    ASSUME TypeOK, setup' = setup, ClientsGrow, Shared
    PROVE  Shared'
  <1>1. home' = home /\ DOMAIN home \subseteq Conns
    BY Setting DEF home, TypeOK
  <1>2. PICK c, d \in DOMAIN home :
            c # d /\ home[c] = home[d] /\ "IDLE" \notin {clt[c].state, clt[d].state}
    BY DEF Shared
  <1>3. clt'[c].state # "IDLE" /\ clt'[d].state # "IDLE"
    BY <1>1, <1>2 DEF ClientsGrow
  <1>4. QED BY <1>1, <1>2, <1>3 DEF Shared

\* A socket's further paths stay announced.
LEMMA AnnouncedKept ==
    ASSUME TypeOK, TypeOK', ServerGrows, NEW c, Announced(c)
    PROVE  Announced(c)'
  <1>1. PICK s \in 1..Len(svr) : svr[s].conn = c /\ Len(svr[s].flows) > 1
    BY DEF Announced
  <1>2. Len(svr) \in Nat /\ Len(svr') \in Nat
    BY LenProperties DEF TypeOK
  <1>3. s \in 1..Len(svr')
    BY <1>1, <1>2 DEF ServerGrows
  <1>4. svr[s] \in Clone /\ svr'[s] \in Clone
    BY <1>3, ElementOfSeq DEF TypeOK
  <1>5. Len(svr[s].flows) \in Nat /\ Len(svr'[s].flows) \in Nat
    BY <1>4, LenProperties DEF Clone
  <1>6. svr'[s].conn = c /\ Len(svr'[s].flows) > 1
    BY <1>1, <1>5 DEF ServerGrows
  <1>7. QED BY <1>3, <1>6 DEF Announced

\* What is undisturbed after a step was so before it.
LEMMA CalmBack ==
    ASSUME TypeOK, TypeOK', ServerGrows, faults <= faults', overlap => overlap',
           Undisturbed'
    PROVE  Undisturbed
  <1>1. Len(svr) \in Nat /\ Len(svr') \in Nat
    BY LenProperties DEF TypeOK
  <1>2. faults \in Nat /\ faults' \in Nat
    BY MultipathAssumption DEF TypeOK
  <1>3. faults = 0
    BY <1>2 DEF Undisturbed
  <1>4. \A s \in 1..Len(svr) : svr[s].state # "IDLE"
    BY <1>1 DEF Undisturbed, ServerGrows
  <1>5. QED BY <1>3, <1>4 DEF Undisturbed

\* A step of the server disturbs nothing at the clients.
LEMMA ServerSide ==
    ASSUME TypeOK, TypeOK', ClientInv, NodeInv, ValidInv, ServedInv, ServerGrows,
           UNCHANGED <<setup, clt, race>>,
           \A m \in Nodes : auth'[m] = auth[m] /\ (m \in zrtt' <=> m \in zrtt)
    PROVE  /\ Grows /\ ClientInv' /\ NodeInv' /\ ValidInv' /\ ServedInv'
           /\ CalmClients => CalmClients'
  <1>1. home' = home /\ NPaths' = NPaths
    BY DEF home, NPaths
  <1>2. \A c \in Conns : Len(clt[c].flows) \in Nat /\ clt' = clt
    BY LenProperties DEF TypeOK, Client
  <1>3. ClientsGrow
    BY <1>2 DEF ClientsGrow
  <1>4. ClientInv'
    BY <1>1 DEF ClientInv
  <1>5. NodeInv'
    BY <1>1 DEF NodeInv
  <1>6. ValidInv'
    <2> SUFFICES ASSUME NEW c \in Conns, NEW i \in 2..Len(clt[c].flows),
                        clt[c].flows[i].active
                 PROVE  Validated(c, i - 1)'
      BY DEF ValidInv
    <2>1. Validated(c, i - 1)
      BY DEF ValidInv
    <2>2. PICK p \in Nat : p = i - 1
      BY <1>2
    <2>3. Validated(c, p)
      BY <2>1, <2>2
    <2>4. Validated(c, p)'
      BY <2>3, ValidatedKept
    <2>5. QED BY <2>2, <2>4
  <1>7. ServedInv'
    <2>1. Shared => Shared'
      BY <1>3, SharedKept
    <2>2. ASSUME NEW c \in Conns, HasSocket(c) PROVE HasSocket(c)'
      BY <2>2, SocketKept
    <2>3. QED BY <2>1, <2>2 DEF ServedInv
  <1>8. CalmClients => CalmClients'
    <2>1. ASSUME NEW c \in Conns, Announced(c) PROVE Announced(c)'
      BY <2>1, AnnouncedKept
    <2>2. QED BY <1>1, <2>1 DEF CalmClients
  <1>9. QED BY <1>3, <1>4, <1>5, <1>6, <1>7, <1>8 DEF Grows

\* A step of a client disturbs nothing at the server.
LEMMA ClientSide ==
    ASSUME TypeOK, TypeOK', SocketInv, ClientInv, ClientsGrow,
           UNCHANGED <<setup, server>>,
           \A m \in Nodes : auth[m] \subseteq auth'[m],
           Server \in zrtt' <=> Server \in zrtt
    PROVE  Grows /\ SocketInv' /\ (CalmServer => CalmServer')
  <1>1. home' = home /\ NPaths' = NPaths
    BY DEF home, NPaths
  <1>2. svr' = svr /\ bindings' = bindings /\ manager' = manager
    BY DEF server
  <1>3. Len(svr) \in Nat /\ \A s \in 1..Len(svr) : svr[s] \in Clone
    BY LenProperties, ElementOfSeq DEF TypeOK
  <1>4. \A s \in 1..Len(svr) : Len(svr[s].flows) \in Nat /\ svr[s].conn \in Conns
    BY <1>3, LenProperties DEF Clone
  <1>5. ServerGrows
    BY <1>2, <1>3, <1>4 DEF ServerGrows
  <1>6. SocketInv'
    BY <1>2, <1>4 DEF SocketInv, ClientsGrow
  <1>7. ASSUME CalmServer PROVE CalmServer'
    <2>1. ASSUME NEW s \in 1..Len(svr), clt[svr[s].conn].state = "OPEN",
                 <<Server, 0>> \in auth[home[svr[s].conn]]
          PROVE  clt'[svr[s].conn].state = "OPEN" /\ <<Server, 0>> \in auth'[home[svr[s].conn]]
      <3>1. svr[s].conn \in Conns
        BY <1>4
      <3>2. home[svr[s].conn] \in Nodes
        BY <3>1, <2>1, Setting DEF ClientInv, TypeOK
      <3>3. QED BY <2>1, <3>1, <3>2 DEF ClientsGrow
    <2>2. QED BY <1>1, <1>2, <1>7, <2>1 DEF CalmServer
  <1>8. QED BY <1>5, <1>6, <1>7 DEF Grows

\* The sockets of the server are in the same states.
SameSockets ==
    /\ Len(svr') = Len(svr)
    /\ \A s \in 1..Len(svr) : svr'[s].conn = svr[s].conn /\ svr'[s].state = svr[s].state

\* Packets that are not of the handshake do not disturb it.
LEMMA OpeningKept ==
    ASSUME NEW n, OpeningInv(n), SameSockets, NEW g \in Flow, NEW pkts,
           Adds(n, net', g, pkts), \A k \in 1..Len(pkts) : ~Opening(pkts[k])
    PROVE  OpeningInv(net)'
  <1>1. \A h \in Flow : \A j \in 1..Len(net'[h]) :
            Opening(net'[h][j]) => j \in 1..Len(n[h]) /\ net'[h][j] = n[h][j]
    BY DEF Adds
  <1>2. OneOpening(net)'
    <2> SUFFICES ASSUME NEW h \in Flow, NEW k \in Flow,
                        NEW j \in 1..Len(net'[h]), NEW l \in 1..Len(net'[k]),
                        Opening(net'[h][j]), Opening(net'[k][l]), h.conn = k.conn
                 PROVE  h = k /\ j = l
      BY DEF OneOpening, Opening
    <2>1. j \in 1..Len(n[h]) /\ l \in 1..Len(n[k]) /\ Opening(n[h][j]) /\ Opening(n[k][l])
      BY <1>1
    <2>2. OneOpening(n)
      BY DEF OpeningInv
    <2>3. QED BY <2>1, <2>2 DEF OneOpening
  <1>3. OneSocket(net)'
    <2> SUFFICES ASSUME NEW h \in Flow, NEW j \in 1..Len(net'[h]), NEW s \in 1..Len(svr),
                        Opening(net'[h][j]), svr[s].conn = h.conn
                 PROVE  /\ net'[h][j].type # "INITIAL"
                        /\ svr[s].state = "CONNECTING_SVR"
                        /\ \A t \in 1..Len(svr) : svr[t].conn = h.conn => t = s
      BY DEF OneSocket, SameSockets, Opening
    <2>1. j \in 1..Len(n[h]) /\ net'[h][j] = n[h][j] /\ Opening(n[h][j])
      BY <1>1
    <2>2. QED BY <2>1 DEF OneSocket, OpeningInv
  <1>4. FirstStuck'
    BY DEF FirstStuck, OpeningInv, SameSockets
  <1>5. QED BY <1>2, <1>3, <1>4 DEF OpeningInv

\* The packets on their way stay undisturbed if no client learns a path, and no
\* socket begins its handshake while packets are on their way to its client.
LEMMA CalmKept ==
    ASSUME TypeOK, TypeOK', setup' = setup, ServerGrows,
           NEW n, CalmWires(n),
           \A c \in Conns : (\E h \in Flow : \E j \in 1..Len(n[h]) : h.conn = c /\ h.to = "clt") =>
               /\ Len(clt'[c].flows) = Len(clt[c].flows)
               /\ \A s \in 1..Len(svr') : s > Len(svr) => svr'[s].conn # c
    PROVE  CalmWires(n)'
  <1> SUFFICES ASSUME NEW f \in Flow, NEW i \in 1..Len(n[f]), f.to = "clt"
               PROVE  CalmPacket(n, f, i)'
    BY DEF CalmWires, CalmPacket
  <1>1. CalmPacket(n, f, i)
    BY DEF CalmWires
  <1>2. f.conn \in Conns /\ home' = home
    BY DEF Flow, home
  <1>3. Len(svr) \in Nat /\ Len(svr') \in Nat
    BY LenProperties DEF TypeOK
  <1>4. /\ Len(clt'[f.conn].flows) = Len(clt[f.conn].flows)
        /\ \A s \in 1..Len(svr') : s > Len(svr) => svr'[s].conn # f.conn
    BY <1>2
  <1>5. ASSUME NEW s \in 1..Len(svr'), svr'[s].conn = f.conn, svr'[s].state = "CONNECTING_SVR"
        PROVE  n[f][i].type = "HANDSHAKE"
    <2>1. s \in 1..Len(svr)
      BY <1>3, <1>4, <1>5
    <2>2. svr[s].conn = f.conn /\ svr[s].state = "CONNECTING_SVR"
      BY <1>5, <2>1 DEF ServerGrows
    <2>3. QED BY <1>1, <2>1, <2>2 DEF CalmPacket
  <1>6. Announced(f.conn) => Announced(f.conn)'
    BY AnnouncedKept
  <1>7. QED BY <1>1, <1>2, <1>4, <1>5, <1>6 DEF CalmPacket

\* Packets for the right node are added.
LEMMA CalmAdds ==
    ASSUME NEW n, CalmWires(n)', NEW g \in Flow, NEW pkts, Adds(n, net', g, pkts),
           g.to = "clt" => \A k \in 1..Len(pkts) :
               /\ pkts[k].to = home'[g.conn]
               /\ pkts[k].type # "ADD_ADDRESS"
               /\ \A s \in 1..Len(svr') :
                     svr'[s].conn = g.conn /\ svr'[s].state = "CONNECTING_SVR" =>
                         pkts[k].type = "HANDSHAKE"
    PROVE  CalmWires(net)'
  <1> SUFFICES ASSUME NEW f \in Flow, NEW i \in 1..Len(net'[f]), f.to = "clt"
               PROVE  CalmPacket(net, f, i)'
    BY DEF CalmWires, CalmPacket
  <1>1. CASE i \in 1..Len(n[f]) /\ net'[f][i] = n[f][i]
    <2>1. CalmPacket(n, f, i)'
      BY <1>1 DEF CalmWires
    <2>2. ASSUME n[f][i].type = "ADD_ADDRESS", NEW j \in 1..i
          PROVE  net'[f][j].type = "ADD_ADDRESS"
      <3>1. n[f][j].type = "ADD_ADDRESS"
        BY <2>1, <2>2 DEF CalmPacket
      <3>2. j \in 1..Len(net'[f]) /\ ~(j > Len(n[f]))
        <4>1. Len(net'[f]) \in Nat
          BY LenProperties DEF Adds
        <4>2. \A a, b, c \in Int : a <= b /\ b <= c => ~(a > c)
          OBVIOUS
        <4>3. QED BY <4>1, <1>1
      <3>3. net'[f][j] = n[f][j]
        BY <3>2 DEF Adds
      <3>4. QED BY <3>1, <3>3
    <2>3. QED BY <1>1, <2>1, <2>2 DEF CalmPacket
  <1>2. CASE f = g /\ i - Len(n[g]) \in 1..Len(pkts) /\ net'[f][i] = pkts[i - Len(n[g])]
    BY <1>2 DEF CalmPacket
  <1>3. QED BY <1>1, <1>2 DEF Adds

-----------------------------------------------------------------------------
\* The socket ForwardUp finds: that of the first binding of the connection.
LEMMA SocketFound ==
    ASSUME TypeOK, SocketInv, NEW c
    PROVE  \/ /\ SocketOf(c) = 0
              /\ \A k \in 1..Len(bindings) : svr[bindings[k].sock].conn # c
           \/ /\ SocketOf(c) \in 1..Len(svr) /\ svr[SocketOf(c)].conn = c
              /\ \E k \in 1..Len(bindings) :
                    /\ bindings[k].sock = SocketOf(c)
                    /\ \A j \in 1..(k - 1) : svr[bindings[j].sock].conn # c
  <1> DEFINE I == {k \in 1..Len(bindings) : svr[bindings[k].sock].conn = c}
  <1>1. Len(bindings) \in Nat
    BY LenProperties DEF TypeOK
  <1>2. SocketOf(c) = LET i == IF I # {} THEN Min(I) ELSE 0
                      IN  IF i = 0 THEN 0 ELSE bindings[i].sock
    BY DEF SocketOf, SelectInSeq
  <1>3. CASE I = {}
    BY <1>2, <1>3
  <1>4. CASE I # {}
    <2>1. I \in SUBSET Nat
      BY <1>1
    <2>2. Min(I) \in I /\ \A y \in I : Min(I) <= y
      BY <2>1, <1>4, LeastIn
    <2> HIDE DEF I
    <2>3. PICK k \in I : k = Min(I) /\ \A y \in I : k <= y
      BY <2>2
    <2>4. k \in 1..Len(bindings) /\ svr[bindings[k].sock].conn = c /\ k # 0
      <3>1. k \in 1..Len(bindings) /\ svr[bindings[k].sock].conn = c
        BY <2>3 DEF I
      <3>2. QED BY <3>1, <1>1
    <2>5. SocketOf(c) = bindings[k].sock
      BY <1>2, <1>4, <2>3, <2>4
    <2>6. bindings[k].sock \in 1..Len(svr)
      BY <2>4 DEF SocketInv
    <2>7. ASSUME NEW j \in 1..(k - 1) PROVE svr[bindings[j].sock].conn # c
      <3>1. j \in 1..Len(bindings) /\ ~(k <= j)
        BY <2>4, <1>1
      <3>2. j \notin I
        BY <2>3, <3>1
      <3>3. QED BY <3>1, <3>2 DEF I
    <2>8. QED BY <2>4, <2>5, <2>6, <2>7
  <1>5. QED BY <1>3, <1>4

\* Every connection with a socket that is not closed is found.
LEMMA SocketFoundIf ==
    ASSUME TypeOK, SocketInv, NEW s \in 1..Len(svr), svr[s].state # "IDLE"
    PROVE  SocketOf(svr[s].conn) # 0
  <1>1. PICK k \in 1..Len(bindings) : bindings[k].sock = s
    BY DEF SocketInv
  <1>2. Len(svr) \in Nat
    BY LenProperties DEF TypeOK
  <1>3. QED BY <1>1, <1>2, SocketFound

\* A socket that is found and not in its handshake is the first of its connection.
LEMMA FoundFirst ==
    ASSUME TypeOK, SocketInv, FirstStuck, NEW c, SocketOf(c) # 0,
           svr[SocketOf(c)].state # "CONNECTING_SVR",
           NEW t \in 1..Len(svr), svr[t].conn = c, t # SocketOf(c)
    PROVE  FALSE
  <1>1. PICK s \in 1..Len(svr) : s = SocketOf(c) /\ svr[s].conn = c
    BY SocketFound
  <1>2. Len(svr) \in Nat /\ s \in Nat /\ t \in Nat /\ Len(bindings) \in Nat
    BY LenProperties DEF TypeOK
  <1>3. CASE s < t
    BY <1>1, <1>3 DEF FirstStuck
  <1>4. CASE t < s
    <2>1. svr[t].state = "CONNECTING_SVR"
      BY <1>1, <1>4 DEF FirstStuck
    <2>2. PICK k \in 1..Len(bindings) : /\ bindings[k].sock = t
                                        /\ \A j \in 1..(k - 1) : bindings[j].sock < t
      BY <2>1 DEF SocketInv
    <2>3. PICK l \in 1..Len(bindings) : /\ bindings[l].sock = s
                                        /\ \A j \in 1..(l - 1) : svr[bindings[j].sock].conn # c
      BY <1>1, SocketFound
    <2>4. k < l \/ l < k \/ k = l
      BY <1>2
    <2>5. ~(k < l)
      BY <1>2, <2>2, <2>3
    <2>6. ~(l < k)
      BY <1>2, <1>4, <2>2, <2>3
    <2>7. QED BY <2>2, <2>3, <2>4, <2>5, <2>6, <1>2, <1>4
  <1>5. QED BY <1>1, <1>2, <1>3, <1>4

\* The binding SendPacket uses.
LEMMA BindingFound ==
    ASSUME NEW bs \in Seq(Binding), NEW s, NEW p
    PROVE  \/ BindingOf(bs, s, p) = 0
           \/ /\ BindingOf(bs, s, p) \in 1..Len(bs)
              /\ bs[BindingOf(bs, s, p)].sock = s
              /\ bs[BindingOf(bs, s, p)].path = p
  <1> DEFINE I == {k \in 1..Len(bs) : bs[k].sock = s /\ bs[k].path = p}
  <1>1. I \in SUBSET Nat
    BY LenProperties
  <1>2. BindingOf(bs, s, p) = IF I # {} THEN Min(I) ELSE 0
    BY DEF BindingOf, SelectInSeq
  <1>3. I # {} => Min(I) \in I
    BY <1>1, LeastIn
  <1>4. QED BY <1>2, <1>3

\* Messages a server sends to an open connection.
Messages(types) ==
    /\ Len(types) \in Nat
    /\ \A k \in 1..Len(types) : /\ types[k][1] \in {"ADD_ADDRESS", "PATH_RESPONSE", "ACK"}
                                /\ types[k][2] \in Paths

\* Packets for the listed messages, all of them to the address of a binding.
Sends(bs, s, p, types, pkts) ==
    \A k \in 1..Len(pkts) :
        /\ k \in 1..Len(types)
        /\ \E b \in 1..Len(bs) :
              /\ bs[b].sock = s /\ bs[b].path = p
              /\ pkts[k] = Pkt(types[k][1], types[k][2], bs[b].peer[1])

\* Those are the packets SendPacket sends.
LEMMA SendPacketAdds ==
    ASSUME TypeOK, NEW n \in [Flow -> Seq(Packet)], NEW bs \in Seq(Binding),
           NEW s \in 1..Len(svr), NEW p \in Paths, NEW types, Messages(types),
           NEW g, g = ToClient(svr[s].conn, p), NEW m, m = SendPacket(n, bs, s, p, types)
    PROVE  /\ g \in Flow /\ g.conn = svr[s].conn /\ g.path = p /\ g.to = "clt"
           /\ \E pkts \in Seq(Packet) : Adds(n, m, g, pkts) /\ Sends(bs, s, p, types, pkts)
  <1>1. svr[s] \in Clone
    BY ElementOfSeq DEF TypeOK
  <1>2. g \in Flow /\ g.conn = svr[s].conn /\ g.path = p /\ g.to = "clt"
    BY <1>1 DEF Clone, Flow, ToClient
  <1>3. PICK i : i = BindingOf(bs, s, p)
    OBVIOUS
  <1>4. CASE i = 0
    <2>1. m = n
      BY <1>3, <1>4 DEF SendPacket
    <2>2. Adds(n, m, g, <<>>) /\ <<>> \in Seq(Packet) /\ Len(<<>>) = 0
      BY <1>2, <2>1, NothingAdds
    <2>3. Sends(bs, s, p, types, <<>>)
      BY <2>2 DEF Sends
    <2>4. QED BY <1>2, <2>2, <2>3
  <1>5. CASE i # 0
    <2>1. i \in 1..Len(bs) /\ bs[i].sock = s /\ bs[i].path = p
      BY <1>3, <1>5, BindingFound
    <2>2. bs[i] \in Binding
      BY <2>1, ElementOfSeq
    <2>3. bs[i].peer[1] \in Nodes
      BY <2>2 DEF Binding, Address
    <2>4. PICK pkts : pkts = [k \in 1..Len(types) |-> Pkt(types[k][1], types[k][2], bs[i].peer[1])]
      OBVIOUS
    <2>5. \A k \in 1..Len(types) : Pkt(types[k][1], types[k][2], bs[i].peer[1]) \in Packet
      BY <2>3 DEF Pkt, Packet, Messages
    <2>6. pkts \in Seq(Packet) /\ Len(pkts) = Len(types)
      BY <2>4, <2>5 DEF Messages
    <2>7. m = Put(n, g, pkts)
      BY <1>3, <1>5, <2>4 DEF SendPacket
    <2>8. Sends(bs, s, p, types, pkts)
      <3>1. \A k \in 1..Len(pkts) : k \in 1..Len(types) /\ pkts[k] = Pkt(types[k][1], types[k][2], bs[i].peer[1])
        BY <2>4, <2>6
      <3>2. QED BY <2>1, <3>1 DEF Sends
    <2>9. Adds(n, m, g, pkts)
      BY <1>2, <2>6, <2>7, PutAdds
    <2>10. QED BY <1>2, <2>6, <2>8, <2>9
  <1>6. QED BY <1>4, <1>5

-----------------------------------------------------------------------------
\* The parts of the invariant that are not about packets.
StateInv == TypeOK /\ ClientInv /\ NodeInv /\ SocketInv /\ ValidInv /\ ServedInv

\* Packet pkt of flow f has been taken off, and n is what remains.
Arrives(n, f, pkt) ==
    /\ n \in [Flow -> Seq(Packet)] /\ f \in Flow /\ pkt \in Packet
    /\ PacketInv(n) /\ OpeningInv(n) /\ PacketOk(f, pkt)
    /\ Opening(pkt) =>
          /\ \A h \in Flow : \A j \in 1..Len(n[h]) : h.conn = f.conn => ~Opening(n[h][j])
          /\ \A s \in 1..Len(svr) : svr[s].conn = f.conn =>
                /\ pkt.type # "INITIAL"
                /\ svr[s].state = "CONNECTING_SVR"
                /\ \A t \in 1..Len(svr) : svr[t].conn = f.conn => t = s

\* If the step leaves all undisturbed, all was in order.
CalmBefore(n) == Undisturbed' => CalmServer /\ CalmClients /\ CalmWires(n)

\* No program error, or one that is accounted for.
ErrorInv == Undisturbed => ~corrupt /\ (fatal => Shared)

\* What is left to show for a step of the server.
LEMMA ServerDone ==
    ASSUME StateInv, TypeOK', ServerGrows, SocketInv', UNCHANGED <<setup, clt, race>>,
           \A m \in Nodes : auth'[m] = auth[m] /\ (m \in zrtt' <=> m \in zrtt),
           NEW n, NEW f, NEW pkt, Arrives(n, f, pkt), CalmBefore(n),
           NEW g \in Flow, NEW pkts, Adds(n, net', g, pkts),
           \A k \in 1..Len(pkts) : PacketOk(g, pkts[k])',
           OpeningInv(net)', ErrorInv',
           Undisturbed' => CalmServer' /\ CalmWires(net)'
    PROVE  MultipathInv'
  <1>1. /\ Grows /\ ClientInv' /\ NodeInv' /\ ValidInv' /\ ServedInv'
        /\ CalmClients => CalmClients'
    BY ServerSide DEF StateInv
  <1>2. PacketInv(net)'
    BY <1>1, PacketsStep DEF StateInv, Arrives
  <1>3. CalmInv(net)'
    BY <1>1 DEF CalmInv, CalmBefore
  <1>4. QED BY <1>1, <1>2, <1>3 DEF MultipathInv, ErrorInv

\* A new socket of connection c.
NewClone(c, state) == [conn |-> c, state |-> state, flows |-> <<NewSubflow(0)>>]

\* What cloning a socket does.
Clones(c, state) ==
    /\ svr' \in Seq(Clone) /\ Len(svr') = Len(svr) + 1
    /\ \A s \in 1..Len(svr) : svr'[s] = svr[s]
    /\ svr'[Len(svr) + 1] = NewClone(c, state)
    /\ bindings' \in Seq(Binding) /\ Len(bindings') = Len(bindings) + 1
    /\ \A k \in 1..Len(bindings) : bindings'[k] = bindings[k]
    /\ bindings'[Len(bindings) + 1] = [sock |-> Len(svr) + 1, path |-> 0, peer |-> <<home[c], 0>>]
    /\ manager' = Len(svr) + 1
    /\ overlap' = (overlap \/ \E i \in 1..Len(svr) : svr[i].state = "CONNECTING_SVR")

\* The first subflow.
LEMMA FirstSubflow ==
    ASSUME 0 \in Paths
    PROVE  <<NewSubflow(0)>> \in Seq(Subflow) /\ Len(<<NewSubflow(0)>>) = 1
           /\ <<NewSubflow(0)>>[1].active /\ <<NewSubflow(0)>>[1].id = 0
           /\ <<NewSubflow(0)>> # <<>>
  <1>1. NewSubflow(0) \in Subflow /\ NewSubflow(0).active /\ NewSubflow(0).id = 0
    BY DEF NewSubflow, Subflow
  <1>2. QED BY <1>1

\* CloneSocket clones.
LEMMA ClonedClones ==
    ASSUME TypeOK, NEW c \in DOMAIN home, 0 \in Paths,
           NEW state \in {"LISTENING", "CONNECTING_SVR", "OPEN"},
           Cloned(c, state, <<home[c], 0>>)
    PROVE  Clones(c, state)
  <1>1. Len(svr) \in Nat /\ svr \in Seq(Clone) /\ bindings \in Seq(Binding)
    BY LenProperties DEF TypeOK
  <1>2. c \in Conns /\ home[c] \in Nodes
    BY Setting DEF TypeOK
  <1>3. NewClone(c, state) \in Clone
    BY <1>2, FirstSubflow DEF NewClone, Clone
  <1> DEFINE b == [sock |-> Len(svr) + 1, path |-> 0, peer |-> <<home[c], 0>>]
  <1>4. b \in Binding
    BY <1>1, <1>2 DEF Binding, Address
  <1>5. svr' = Append(svr, NewClone(c, state)) /\ bindings' = Append(bindings, b)
    BY DEF Cloned, NewClone
  <1>6. manager' = Len(svr) + 1
        /\ overlap' = (overlap \/ \E i \in 1..Len(svr) : svr[i].state = "CONNECTING_SVR")
    BY DEF Cloned
  <1> HIDE DEF b
  <1>7. /\ svr' \in Seq(Clone) /\ Len(svr') = Len(svr) + 1
        /\ \A s \in 1..Len(svr) : svr'[s] = svr[s]
        /\ svr'[Len(svr) + 1] = NewClone(c, state)
    BY <1>1, <1>3, <1>5, AppendProperties
  <1>8. /\ bindings' \in Seq(Binding) /\ Len(bindings') = Len(bindings) + 1
        /\ \A k \in 1..Len(bindings) : bindings'[k] = bindings[k]
        /\ bindings'[Len(bindings) + 1] = b
    BY <1>1, <1>4, <1>5, AppendProperties
  <1>9. QED BY <1>6, <1>7, <1>8 DEF Clones, b

\* The sockets grow by it.
LEMMA CloneGrows ==
    ASSUME TypeOK, SocketInv, NEW c, NEW state, Clones(c, state),
           clt[c].state # "IDLE", clt' = clt, 0 \in Paths
    PROVE  ServerGrows /\ SocketInv' /\ (overlap => overlap')
  <1>1. Len(svr) \in Nat /\ Len(bindings) \in Nat /\ \A s \in 1..Len(svr) : svr[s] \in Clone
    BY LenProperties, ElementOfSeq DEF TypeOK
  <1>2. \A s \in 1..Len(svr) : Len(svr[s].flows) \in Nat
    BY <1>1, LenProperties DEF Clone
  <1>3. ServerGrows
    BY <1>1, <1>2 DEF ServerGrows, Clones
  <1>4. manager' > 0
    BY <1>1 DEF Clones
  <1>5. ASSUME NEW k \in 1..Len(bindings') PROVE bindings'[k].sock \in 1..Len(svr')
    <2>1. CASE k \in 1..Len(bindings)
      <3>1. bindings'[k] = bindings[k] /\ Len(svr') = Len(svr) + 1
        BY <2>1 DEF Clones
      <3>2. bindings[k].sock \in 1..Len(svr)
        BY <2>1 DEF SocketInv
      <3>3. QED BY <1>1, <3>1, <3>2
    <2>2. CASE k = Len(bindings) + 1
      BY <1>1, <2>2 DEF Clones
    <2>3. QED BY <1>1, <2>1, <2>2 DEF Clones
  <1>6. ASSUME NEW s \in 1..Len(svr')
        PROVE  /\ clt'[svr'[s].conn].state # "IDLE"
               /\ svr'[s].flows # <<>> /\ svr'[s].flows[1].active
               /\ svr'[s].state # "IDLE" =>
                      \E k \in 1..Len(bindings') :
                          /\ bindings'[k].sock = s
                          /\ \A j \in 1..(k - 1) : bindings'[j].sock < s
    <2>1. CASE s \in 1..Len(svr)
      <3>1. svr'[s] = svr[s]
        BY <2>1 DEF Clones
      <3>2. ASSUME svr[s].state # "IDLE"
            PROVE  \E k \in 1..Len(bindings') :
                          /\ bindings'[k].sock = s
                          /\ \A j \in 1..(k - 1) : bindings'[j].sock < s
        <4>1. PICK k \in 1..Len(bindings) :
                      /\ bindings[k].sock = s
                      /\ \A j \in 1..(k - 1) : bindings[j].sock < s
          BY <2>1, <3>2 DEF SocketInv
        <4>2. k \in 1..Len(bindings') /\ \A j \in 1..(k - 1) : j \in 1..Len(bindings)
          BY <1>1 DEF Clones
        <4>3. bindings'[k] = bindings[k] /\ \A j \in 1..(k - 1) : bindings'[j] = bindings[j]
          BY <4>2 DEF Clones
        <4>4. QED BY <4>1, <4>2, <4>3
      <3>3. QED BY <2>1, <3>1, <3>2 DEF SocketInv
    <2>2. CASE s = Len(svr) + 1
      <3>1. svr'[s].conn = c /\ svr'[s].flows # <<>> /\ svr'[s].flows[1].active
        BY <2>2, FirstSubflow DEF Clones, NewClone
      <3>2. PICK k \in 1..Len(bindings') : k = Len(bindings) + 1
        BY <1>1 DEF Clones
      <3>3. bindings'[k].sock = s
        BY <2>2, <3>2 DEF Clones
      <3>4. ASSUME NEW j \in 1..(k - 1) PROVE bindings'[j].sock < s
        <4>1. j \in 1..Len(bindings)
          BY <1>1, <3>2
        <4>2. bindings'[j] = bindings[j] /\ bindings[j].sock \in 1..Len(svr)
          BY <4>1 DEF Clones, SocketInv
        <4>3. QED BY <1>1, <2>2, <4>2
      <3>5. QED BY <3>1, <3>3, <3>4
    <2>3. QED BY <1>1, <2>1, <2>2 DEF Clones
  <1>7. QED BY <1>3, <1>4, <1>5, <1>6 DEF SocketInv, Clones

\* The handshake goes on, with at most the answer of the new socket.
LEMMA CloneOpening ==
    ASSUME TypeOK, NEW n, NEW f, NEW pkt, Arrives(n, f, pkt), Opening(pkt),
           NEW state, Clones(f.conn, state),
           NEW g \in Flow, NEW pkts, Adds(n, net', g, pkts),
           \/ Len(pkts) = 0
           \/ /\ Len(pkts) = 1 /\ pkts[1].type = "HANDSHAKE" /\ g.conn = f.conn
              /\ pkt.type = "INITIAL" /\ state = "CONNECTING_SVR"
    PROVE  OpeningInv(net)'
  <1>1. Len(svr) \in Nat /\ Len(n[g]) \in Nat /\ \A h \in Flow : Len(n[h]) \in Nat
    BY LenProperties DEF TypeOK, Arrives
  <1>2. \A h \in Flow : \A j \in 1..Len(n[h]) : h.conn = f.conn => ~Opening(n[h][j])
    BY DEF Arrives
  <1>3. ASSUME NEW h \in Flow, NEW j \in 1..Len(net'[h])
        PROVE  \/ j \in 1..Len(n[h]) /\ net'[h][j] = n[h][j]
               \/ /\ h = g /\ j = Len(n[g]) + 1 /\ net'[h][j] = pkts[1]
                  /\ Len(pkts) = 1
    <2>1. CASE h = g /\ j > Len(n[g]) /\ j - Len(n[g]) \in 1..Len(pkts)
               /\ net'[h][j] = pkts[j - Len(n[g])]
      <3>1. Len(pkts) = 1
        BY <2>1
      <3>2. Len(net'[h]) \in Nat
        BY LenProperties DEF Adds
      <3>3. j - Len(n[g]) = 1
        BY <2>1, <3>1, <1>1
      <3>4. j = Len(n[g]) + 1
        BY <3>2, <3>3, <1>1
      <3>5. QED BY <2>1, <3>1, <3>3, <3>4
    <2>2. QED BY <2>1 DEF Adds
  <1>4. ASSUME NEW s \in 1..Len(svr'), svr'[s].conn = f.conn, pkt.type = "INITIAL"
        PROVE  s = Len(svr) + 1 /\ svr'[s].state = state
    <2>1. s \in 1..Len(svr) \/ s = Len(svr) + 1
      BY <1>1 DEF Clones
    <2>2. s \notin 1..Len(svr)
      BY <1>4 DEF Arrives, Clones
    <2>3. QED BY <2>1, <2>2 DEF Clones, NewClone
  <1>5. OneOpening(net)'
    <2> SUFFICES ASSUME NEW h \in Flow, NEW k \in Flow,
                        NEW j \in 1..Len(net'[h]), NEW l \in 1..Len(net'[k]),
                        Opening(net'[h][j]), Opening(net'[k][l]), h.conn = k.conn
                 PROVE  h = k /\ j = l
      BY DEF OneOpening, Opening
    <2>1. OneOpening(n)
      BY DEF Arrives, OpeningInv
    <2>2. CASE j \in 1..Len(n[h]) /\ net'[h][j] = n[h][j] /\ l \in 1..Len(n[k]) /\ net'[k][l] = n[k][l]
      BY <2>1, <2>2 DEF OneOpening
    <2>3. CASE j \in 1..Len(n[h]) /\ net'[h][j] = n[h][j] /\ k = g /\ Len(pkts) = 1
      BY <2>3, <1>2
    <2>4. CASE l \in 1..Len(n[k]) /\ net'[k][l] = n[k][l] /\ h = g /\ Len(pkts) = 1
      BY <2>4, <1>2
    <2>5. QED BY <1>3, <2>2, <2>3, <2>4
  <1>6. OneSocket(net)'
    <2> SUFFICES ASSUME NEW h \in Flow, NEW j \in 1..Len(net'[h]), NEW s \in 1..Len(svr'),
                        Opening(net'[h][j]), svr'[s].conn = h.conn
                 PROVE  /\ net'[h][j].type # "INITIAL"
                        /\ svr'[s].state = "CONNECTING_SVR"
                        /\ \A t \in 1..Len(svr') : svr'[t].conn = h.conn => t = s
      BY DEF OneSocket, Opening
    <2>1. CASE j \in 1..Len(n[h]) /\ net'[h][j] = n[h][j]
      <3>1. h.conn # f.conn
        BY <1>2, <2>1
      <3>2. \A t \in 1..Len(svr') : svr'[t].conn = h.conn => t \in 1..Len(svr) /\ svr[t] = svr'[t]
        <4>1. \A t \in 1..Len(svr') : t \in 1..Len(svr) \/ t = Len(svr) + 1
          BY <1>1 DEF Clones
        <4>2. svr'[Len(svr) + 1].conn = f.conn
          BY DEF Clones, NewClone
        <4>3. QED BY <3>1, <4>1, <4>2 DEF Clones
      <3>3. OneSocket(n)
        BY DEF Arrives, OpeningInv
      <3>4. QED BY <2>1, <3>2, <3>3 DEF OneSocket
    <2>2. CASE h = g /\ net'[h][j] = pkts[1] /\ Len(pkts) = 1
      BY <2>2, <1>4
    <2>3. QED BY <1>3, <2>1, <2>2
  <1>7. FirstStuck'
    <2> SUFFICES ASSUME NEW s \in 1..Len(svr'), NEW t \in 1..Len(svr'), s < t,
                        svr'[s].conn = svr'[t].conn
                 PROVE  svr'[s].state = "CONNECTING_SVR"
      BY DEF FirstStuck
    <2>1. s \in 1..Len(svr) /\ (t \in 1..Len(svr) \/ t = Len(svr) + 1)
      BY <1>1 DEF Clones
    <2>2. svr'[s] = svr[s]
      BY <2>1 DEF Clones
    <2>3. CASE t \in 1..Len(svr)
      BY <2>1, <2>2, <2>3 DEF Clones, FirstStuck, Arrives, OpeningInv
    <2>4. CASE t = Len(svr) + 1
      <3>1. svr[s].conn = f.conn
        BY <2>2, <2>4 DEF Clones, NewClone
      <3>2. QED BY <2>1, <2>2, <3>1 DEF Arrives
    <2>5. QED BY <2>1, <2>3, <2>4
  <1>8. QED BY <1>5, <1>6, <1>7 DEF OpeningInv

\* Undisturbed, the new socket is the first of its connection, and all is well.
LEMMA CloneCalm ==
    ASSUME TypeOK, TypeOK', SocketInv, ClientInv, NEW n, NEW f, NEW pkt,
           Arrives(n, f, pkt), Opening(pkt), NEW state, Clones(f.conn, state),
           UNCHANGED <<setup, clt, zrtt>>, \A m \in Nodes : auth'[m] = auth[m],
           ServerGrows, 0 \in Paths, state = "CONNECTING_SVR" => Server \notin zrtt,
           ~overlap', CalmServer, CalmWires(n)
    PROVE  CalmServer' /\ CalmWires(n)'
  <1>1. Len(svr) \in Nat /\ Len(bindings) \in Nat /\ \A s \in 1..Len(svr) : svr[s] \in Clone
    BY LenProperties, ElementOfSeq DEF TypeOK
  <1>2. home' = home /\ NPaths' = NPaths
    BY DEF home, NPaths
  <1>3. \A s \in 1..Len(svr) : svr[s].state # "CONNECTING_SVR" /\ svr[s].conn # f.conn
    BY DEF Clones, Arrives
  <1> DEFINE N == Len(svr) + 1
  <1>4. \A s \in 1..Len(svr') : (s \in 1..Len(svr) /\ svr'[s] = svr[s]) \/ s = N
    BY <1>1 DEF Clones
  <1>5. svr'[N].conn = f.conn /\ svr'[N].state = state /\ svr'[N].flows = <<NewSubflow(0)>>
    BY DEF Clones, NewClone
  <1>6. Len(svr'[N].flows) = 1 /\ svr'[N].flows[1].id = 0
    BY <1>5, FirstSubflow
  <1>7. N = Len(svr') /\ manager' = N
    BY DEF Clones
  <1> HIDE DEF N
  <1>8. \A s, t \in 1..Len(svr') : svr'[s].conn = svr'[t].conn => s = t
    BY <1>3, <1>4, <1>5 DEF CalmServer
  <1>9. ASSUME NEW s \in 1..Len(svr')
        PROVE  /\ svr'[s].state = "CONNECTING_SVR" =>
                     /\ s = Len(svr') /\ manager' = s /\ Len(svr'[s].flows) = 1
                     /\ Server \notin zrtt'
               /\ Len(svr'[s].flows) > 1 =>
                     /\ Len(svr'[s].flows) = NPaths' + 1
                     /\ svr'[s].state = "OPEN" /\ Server \in zrtt'
                     /\ clt'[svr'[s].conn].state = "OPEN"
                     /\ <<Server, 0>> \in auth'[home'[svr'[s].conn]]
                     /\ \A t \in 1..Len(svr') : Len(svr'[t].flows) > 1 => t = s
               /\ \A i \in 1..Len(svr'[s].flows) : svr'[s].flows[i].id = i - 1
    <2>1. CASE s \in 1..Len(svr) /\ svr'[s] = svr[s]
      <3>1. svr'[s].state # "CONNECTING_SVR"
        BY <1>3, <2>1
      <3>2. ASSUME Len(svr'[s].flows) > 1
            PROVE  /\ Len(svr'[s].flows) = NPaths' + 1
                   /\ svr'[s].state = "OPEN" /\ Server \in zrtt'
                   /\ clt'[svr'[s].conn].state = "OPEN"
                   /\ <<Server, 0>> \in auth'[home'[svr'[s].conn]]
                   /\ \A t \in 1..Len(svr') : Len(svr'[t].flows) > 1 => t = s
        <4>1. /\ Len(svr[s].flows) = NPaths + 1
              /\ svr[s].state = "OPEN" /\ Server \in zrtt
              /\ clt[svr[s].conn].state = "OPEN"
              /\ <<Server, 0>> \in auth[home[svr[s].conn]]
              /\ \A t \in 1..Len(svr) : Len(svr[t].flows) > 1 => t = s
          BY <2>1, <3>2 DEF CalmServer
        <4>2. svr[s].conn \in Conns
          BY <1>1, <2>1 DEF Clone
        <4>3. home[svr[s].conn] \in Nodes
          BY <4>1, <4>2, Setting DEF ClientInv, TypeOK
        <4>4. ASSUME NEW t \in 1..Len(svr'), Len(svr'[t].flows) > 1 PROVE t = s
          <5>1. t # N
            <6>1. ASSUME t = N PROVE Len(svr'[t].flows) = 1
              BY <1>6, <6>1
            <6>2. svr'[t] \in Clone
              BY ElementOfSeq DEF TypeOK
            <6>3. Len(svr'[t].flows) \in Nat
              BY <6>2, LenProperties DEF Clone
            <6>4. \A x \in Nat : x > 1 => x # 1
              OBVIOUS
            <6>5. QED BY <4>4, <6>1, <6>3, <6>4
          <5>2. t \in 1..Len(svr) /\ svr'[t] = svr[t]
            BY <1>4, <5>1
          <5>3. QED BY <4>1, <4>4, <5>2
        <4>5. QED BY <1>2, <2>1, <4>1, <4>3, <4>4
      <3>3. \A i \in 1..Len(svr'[s].flows) : svr'[s].flows[i].id = i - 1
        BY <2>1 DEF CalmServer
      <3>4. QED BY <3>1, <3>2, <3>3
    <2>2. CASE s = N
      BY <2>2, <1>5, <1>6, <1>7
    <2>3. QED BY <1>4, <2>1, <2>2
  <1>10. ASSUME NEW k \in 1..Len(bindings')
         PROVE  /\ bindings'[k].peer[1] = home'[svr'[bindings'[k].sock].conn]
                /\ bindings'[k].path > 0 => Len(svr'[bindings'[k].sock].flows) > 1
    <2>1. CASE k \in 1..Len(bindings)
      <3>1. bindings'[k] = bindings[k] /\ bindings[k].sock \in 1..Len(svr)
        BY <2>1 DEF Clones, SocketInv
      <3>2. svr'[bindings[k].sock] = svr[bindings[k].sock]
        BY <3>1 DEF Clones
      <3>3. QED BY <1>2, <2>1, <3>1, <3>2 DEF CalmServer
    <2>2. CASE k = Len(bindings) + 1
      <3>1. bindings'[k].sock = N /\ bindings'[k].path = 0 /\ bindings'[k].peer[1] = home[f.conn]
        BY <2>2 DEF Clones, N
      <3>2. QED BY <1>2, <1>5, <3>1
    <2>3. QED BY <1>1, <2>1, <2>2 DEF Clones
  <1>11. CalmServer'
    BY <1>8, <1>9, <1>10 DEF CalmServer
  <1>12. ASSUME NEW h \in Flow, NEW j \in 1..Len(n[h]), h.to = "clt"
         PROVE  h.conn # f.conn
    <2>1. HasSocket(h.conn)
      BY <1>12 DEF Arrives, PacketInv, PacketOk
    <2>2. QED BY <2>1, <1>3 DEF HasSocket
  <1>13. CalmWires(n)'
    <2>1. \A s \in 1..Len(svr') : s > Len(svr) => svr'[s].conn = f.conn
      BY <1>1, <1>4, <1>5
    <2>2. QED BY <1>12, <2>1, CalmKept
  <1>14. QED BY <1>11, <1>13

-----------------------------------------------------------------------------
\* An INITIAL packet arrives.
LEMMA RecvInitialKeeps ==
    ASSUME StateInv, Running, NEW n, NEW f, NEW pkt, Arrives(n, f, pkt),
           pkt.type = "INITIAL", f.to = "svr", CalmBefore(n),
           RecvInitial(f.conn, <<home[f.conn], f.path>>, n),
           UNCHANGED <<setup, clt>>, faults' \in 0..MaxFaults
    PROVE  MultipathInv'
  <1> DEFINE c == f.conn
             fast == Accepts(Server, <<home[c], 0>>)
             state == IF fast THEN "LISTENING" ELSE "CONNECTING_SVR"
  <1> PICK g : g = ToClient(c, 0)
    OBVIOUS
  <1> PICK hs : hs = Pkt("HANDSHAKE", 0, home[c])
    OBVIOUS
  <1> PICK pkts : pkts = IF fast THEN <<>> ELSE <<hs>>
    OBVIOUS
  <1>1. f \in Flow /\ Opening(pkt) /\ PacketOk(f, pkt) /\ n \in [Flow -> Seq(Packet)]
    BY DEF Arrives, Opening
  <1>2. c \in Conns /\ f.path \in Paths
    BY <1>1 DEF Flow
  <1>3. f.path = 0 /\ clt[c].state # "IDLE" /\ 0 < Len(clt[c].flows)
    BY <1>1 DEF PacketOk
  <1>4. 0 \in Paths /\ c \in DOMAIN home /\ home[c] \in Nodes /\ TypeOK
    BY <1>2, <1>3, Setting DEF StateInv, TypeOK, ClientInv
  <1>5. Cloned(c, state, <<home[c], 0>>)
    BY <1>3 DEF RecvInitial
  <1>6. Clones(c, state)
    BY <1>4, <1>5, ClonedClones
  <1>7. ServerGrows /\ SocketInv' /\ (overlap => overlap')
    BY <1>3, <1>4, <1>6, CloneGrows DEF StateInv
  <1>8. g \in Flow /\ g.conn = c /\ g.path = 0 /\ g.to = "clt"
    BY <1>2, <1>4 DEF ToClient, Flow
  <1>9. hs \in Packet /\ hs.type = "HANDSHAKE" /\ hs.to = home[c]
    BY <1>4 DEF Pkt, Packet
  <1>10. net' = IF fast THEN n ELSE Put(n, g, <<hs>>)
    BY <1>3 DEF RecvInitial
  <1>11. UNCHANGED <<auth, zrtt, fatal, corrupt, race>>
    BY DEF RecvInitial, l4
  <1>12. fast => Server \in zrtt \/ <<home[c], 0>> \in auth[Server]
    BY DEF Accepts
  <1>13. ~fast => Server \notin zrtt
    BY DEF Accepts
  <1>14. /\ pkts \in Seq(Packet)
         /\ fast => Len(pkts) = 0
         /\ ~fast => Len(pkts) = 1 /\ pkts[1] = hs
    BY <1>9, OnePacket
  <1> HIDE DEF c, fast
  <1>15. Adds(n, net', g, pkts)
    BY <1>1, <1>8, <1>9, <1>10, NothingAdds, PutAdds, OnePacket
  <1>16. TypeOK'
    <2>1. svr' \in Seq(Clone) /\ bindings' \in Seq(Binding) /\ Len(svr') = Len(svr) + 1
          /\ manager' = Len(svr) + 1
      BY <1>6 DEF Clones
    <2>2. Len(svr) \in Nat
      BY <1>4, LenProperties DEF TypeOK
    <2>3. manager' \in 0..Len(svr')
      BY <2>1, <2>2
    <2>4. overlap' \in BOOLEAN
      BY <1>4, <1>6 DEF Clones, TypeOK
    <2>5. net' \in [Flow -> Seq(Packet)]
      BY <1>15 DEF Adds
    <2>6. QED BY <1>4, <1>11, <2>1, <2>3, <2>4, <2>5 DEF TypeOK
  <1>17. ASSUME NEW k \in 1..Len(pkts) PROVE PacketOk(g, pkts[k])'
    <2>1. ~fast /\ k = 1 /\ pkts[k] = hs
      BY <1>14
    <2>2. HasSocket(c)'
      <3>1. Len(svr) + 1 \in 1..Len(svr') /\ svr'[Len(svr) + 1].conn = c
        <4>1. Len(svr) \in Nat
          BY <1>4, LenProperties DEF TypeOK
        <4>2. QED BY <4>1, <1>6 DEF Clones, NewClone
      <3>2. QED BY <3>1 DEF HasSocket
    <2>3. clt' = clt
      OBVIOUS
    <2>4. QED BY <2>1, <2>2, <2>3, <1>3, <1>8, <1>9 DEF PacketOk
  <1>18. OpeningInv(net)'
    <2>1. \/ Len(pkts) = 0
          \/ /\ Len(pkts) = 1 /\ pkts[1].type = "HANDSHAKE" /\ g.conn = f.conn
             /\ pkt.type = "INITIAL" /\ state = "CONNECTING_SVR"
      BY <1>8, <1>9, <1>14 DEF c
    <2> HIDE DEF state
    <2>2. QED BY <1>1, <1>4, <1>6, <1>8, <1>15, <2>1, CloneOpening DEF c
  <1>19. ErrorInv'
    BY <1>11 DEF ErrorInv, Running
  <1>20. ASSUME Undisturbed' PROVE CalmServer' /\ CalmWires(net)'
    <2>1. CalmServer /\ CalmWires(n) /\ ~overlap'
      BY <1>20 DEF CalmBefore, Undisturbed
    <2>2. state = "CONNECTING_SVR" => Server \notin zrtt
      BY <1>13
    <2>3. \A m \in Nodes : auth'[m] = auth[m]
      BY <1>11
    <2>4. CalmServer' /\ CalmWires(n)'
      <3> HIDE DEF state
      <3>1. SocketInv /\ ClientInv /\ UNCHANGED <<setup, clt, zrtt>>
        BY <1>11 DEF StateInv
      <3>2. Clones(f.conn, state)
        BY <1>6 DEF c
      <3>3. QED BY <1>1, <1>4, <1>7, <1>16, <2>1, <2>2, <2>3, <3>1, <3>2, CloneCalm
    <2>5. ASSUME NEW k \in 1..Len(pkts)
          PROVE  pkts[k].to = home'[g.conn] /\ pkts[k].type = "HANDSHAKE"
      <3>1. pkts[k] = hs /\ home' = home
        BY <1>14 DEF home
      <3>2. QED BY <3>1, <1>8, <1>9
    <2>6. CalmWires(net)'
      BY <1>8, <1>15, <2>4, <2>5, CalmAdds
    <2>7. QED BY <2>4, <2>6
  <1>21. \A m \in Nodes : auth'[m] = auth[m] /\ (m \in zrtt' <=> m \in zrtt)
    BY <1>11
  <1>22. QED BY <1>7, <1>8, <1>11, <1>15, <1>16, <1>17, <1>18, <1>19, <1>20, <1>21, ServerDone

\* What is left to show for a step that leaves the sockets as they are.
LEMMA QuietDone ==
    ASSUME StateInv, TypeOK', UNCHANGED <<setup, clt, server, zrtt, race>>,
           \A m \in Nodes : auth'[m] = auth[m],
           NEW n, NEW f, NEW pkt, Arrives(n, f, pkt), CalmBefore(n),
           NEW g \in Flow, NEW pkts, Adds(n, net', g, pkts),
           \A k \in 1..Len(pkts) : /\ PacketOk(g, pkts[k])' /\ ~Opening(pkts[k])
                                   /\ pkts[k].type # "ADD_ADDRESS",
           Undisturbed' /\ g.to = "clt" => \A k \in 1..Len(pkts) :
               /\ pkts[k].to = home[g.conn]
               /\ \A s \in 1..Len(svr) :
                     svr[s].conn = g.conn => svr[s].state # "CONNECTING_SVR",
           ErrorInv'
    PROVE  MultipathInv'
  <1>1. svr' = svr /\ bindings' = bindings /\ manager' = manager /\ home' = home
    BY DEF server, home
  <1>2. \A c \in Conns : Len(clt[c].flows) \in Nat
    BY LenProperties DEF StateInv, TypeOK, Client
  <1>3. ClientsGrow
    BY <1>2 DEF ClientsGrow
  <1>4. Grows /\ SocketInv' /\ (CalmServer => CalmServer')
    BY <1>3, ClientSide DEF StateInv
  <1>5. ServerGrows
    BY <1>4 DEF Grows
  <1>6. OpeningInv(net)'
    <2>1. SameSockets /\ OpeningInv(n)
      BY <1>1 DEF SameSockets, Arrives
    <2>2. QED BY <2>1, OpeningKept
  <1>7. ASSUME Undisturbed' PROVE CalmServer' /\ CalmWires(net)'
    <2>1. CalmServer /\ CalmWires(n)
      BY <1>7 DEF CalmBefore
    <2>2. \A s \in 1..Len(svr') : ~(s > Len(svr))
      <3>1. Len(svr) \in Nat
        BY LenProperties DEF StateInv, TypeOK
      <3>2. QED BY <1>1, <3>1
    <2>3. CalmWires(n)'
      BY <1>5, <2>1, <2>2, CalmKept DEF StateInv
    <2>4. CalmWires(net)'
      BY <1>1, <1>7, <2>3, CalmAdds
    <2>5. QED BY <1>4, <2>1, <2>4
  <1>8. QED BY <1>4, <1>5, <1>6, <1>7, ServerDone

\* The errors of a step that causes none.
LEMMA NoError ==
    ASSUME Running, UNCHANGED <<fatal, corrupt>>
    PROVE  ErrorInv'
  BY DEF Running, ErrorInv

\* The addresses a server accepts do not concern the clients.
LEMMA AuthAtServer ==
    ASSUME TypeOK, NEW c \in DOMAIN home, NEW p \in Paths,
           auth' = auth \/ auth' = Authenticated(Server, <<home[c], p>>)
    PROVE  /\ auth' \in [Nodes \cup {Server} -> SUBSET (Address \cup ({Server} \X Paths))]
           /\ \A m \in Nodes : auth'[m] = auth[m]
  <1>1. home[c] \in Nodes /\ Server \notin Nodes
    BY Setting DEF TypeOK
  <1>2. <<home[c], p>> \in Address
    BY <1>1 DEF Address
  <1> DEFINE V == SUBSET (Address \cup ({Server} \X Paths))
  <1>3. auth \in [Nodes \cup {Server} -> V] /\ Server \in Nodes \cup {Server}
    BY DEF TypeOK
  <1>4. auth[Server] \cup {<<home[c], p>>} \in V
    <2>1. auth[Server] \in V
      BY <1>3
    <2>2. QED BY <1>2, <2>1
  <1> HIDE DEF V
  <1>5. CASE auth' = auth
    BY <1>3, <1>5 DEF V
  <1>6. CASE auth' = Authenticated(Server, <<home[c], p>>)
    <2>1. auth' = [auth EXCEPT ![Server] = auth[Server] \cup {<<home[c], p>>}]
      BY <1>6 DEF Authenticated
    <2>2. auth' \in [Nodes \cup {Server} -> V]
      BY <1>3, <1>4, <2>1
    <2>3. \A m \in Nodes : auth'[m] = auth[m]
      BY <1>1, <1>3, <2>1
    <2>4. QED BY <2>2, <2>3 DEF V
  <1>7. QED BY <1>5, <1>6

\* A 0-RTT packet arrives.
LEMMA RecvZrttKeeps ==
    ASSUME StateInv, Running, NEW n, NEW f, NEW pkt, Arrives(n, f, pkt),
           pkt.type = "ZRTT", f.to = "svr", CalmBefore(n),
           RecvZrtt(f.conn, <<home[f.conn], f.path>>, n),
           UNCHANGED <<setup, clt>>, faults' \in 0..MaxFaults
    PROVE  MultipathInv'
  <1> DEFINE c == f.conn
  <1>1. f \in Flow /\ Opening(pkt) /\ PacketOk(f, pkt) /\ n \in [Flow -> Seq(Packet)]
    BY DEF Arrives, Opening
  <1>2. c \in Conns /\ f.path \in Paths
    BY <1>1 DEF Flow
  <1>3. f.path = 0 /\ clt[c].state # "IDLE" /\ 0 < Len(clt[c].flows)
    BY <1>1 DEF PacketOk
  <1>4. 0 \in Paths /\ c \in DOMAIN home /\ home[c] \in Nodes /\ TypeOK
    BY <1>2, <1>3, Setting DEF StateInv, TypeOK, ClientInv
  <1>5. net' = n /\ UNCHANGED <<zrtt, fatal, corrupt, race>>
    BY DEF RecvZrtt
  <1>6. ErrorInv'
    BY <1>5, NoError
  <1>7. Adds(n, net', f, <<>>) /\ \A k \in 1..Len(<<>>) : FALSE
    BY <1>1, <1>5, NothingAdds
  <1>8. CASE Accepts(Server, <<home[c], 0>>)
    <2>1. Cloned(c, "OPEN", <<home[c], 0>>) /\ auth' = Authenticated(Server, <<home[c], 0>>)
      BY <1>3, <1>8 DEF RecvZrtt
    <2>2. Clones(c, "OPEN")
      BY <1>4, <2>1, ClonedClones
    <2>3. ServerGrows /\ SocketInv' /\ (overlap => overlap')
      BY <1>3, <1>4, <2>2, CloneGrows DEF StateInv
    <2>4. /\ auth' \in [Nodes \cup {Server} -> SUBSET (Address \cup ({Server} \X Paths))]
          /\ \A m \in Nodes : auth'[m] = auth[m]
      BY <1>4, <2>1, AuthAtServer
    <2>5. TypeOK'
      <3>1. svr' \in Seq(Clone) /\ bindings' \in Seq(Binding) /\ Len(svr') = Len(svr) + 1
            /\ manager' = Len(svr) + 1
        BY <2>2 DEF Clones
      <3>2. Len(svr) \in Nat
        BY <1>4, LenProperties DEF TypeOK
      <3>3. manager' \in 0..Len(svr')
        BY <3>1, <3>2
      <3>4. overlap' \in BOOLEAN
        BY <1>4, <2>2 DEF Clones, TypeOK
      <3>5. QED BY <1>1, <1>4, <1>5, <2>4, <3>1, <3>3, <3>4 DEF TypeOK
    <2>6. OpeningInv(net)'
      <3>1. Len(<<>>) = 0
        OBVIOUS
      <3>2. QED BY <1>1, <1>4, <1>7, <2>2, <3>1, CloneOpening
    <2>7. ASSUME Undisturbed' PROVE CalmServer' /\ CalmWires(net)'
      <3>1. CalmServer /\ CalmWires(n) /\ ~overlap'
        BY <2>7 DEF CalmBefore, Undisturbed
      <3>2. SocketInv /\ ClientInv
        BY DEF StateInv
      <3>3. CalmServer' /\ CalmWires(n)'
        BY <1>1, <1>4, <1>5, <2>2, <2>3, <2>4, <2>5, <3>1, <3>2, CloneCalm
      <3>4. CalmWires(net)'
        BY <1>1, <1>7, <3>3, CalmAdds
      <3>5. QED BY <3>3, <3>4
    <2>8. QED BY <1>1, <1>5, <1>6, <1>7, <2>3, <2>4, <2>5, <2>6, <2>7, ServerDone
  <1>9. CASE ~Accepts(Server, <<home[c], 0>>)
    <2>1. UNCHANGED <<server, auth, overlap>>
      BY <1>3, <1>9 DEF RecvZrtt
    <2>2. svr' = svr /\ bindings' = bindings /\ manager' = manager
      BY <2>1 DEF server
    <2>3. TypeOK'
      BY <1>1, <1>4, <1>5, <2>1, <2>2 DEF TypeOK
    <2>4. QED BY <1>1, <1>5, <1>6, <1>7, <2>1, <2>3, QuietDone
  <1>10. QED BY <1>8, <1>9

-----------------------------------------------------------------------------
\* What completing the handshake of socket s does: the paths go to socket m.
Opens(s, m, from) ==
    /\ svr' \in Seq(Clone) /\ Len(svr') = Len(svr)
    /\ \A t \in 1..Len(svr) :
          /\ svr'[t].conn = svr[t].conn
          /\ svr'[t].state = IF t = s THEN "OPEN" ELSE svr[t].state
          /\ t # m => svr'[t].flows = svr[t].flows
    /\ Len(svr'[m].flows) = Len(svr[m].flows) + NPaths
    /\ \A i \in 1..Len(svr[m].flows) : svr'[m].flows[i] = svr[m].flows[i]
    /\ \A p \in 1..NPaths : svr'[m].flows[Len(svr[m].flows) + p] = NewSubflow(p)
    /\ bindings' \in Seq(Binding) /\ Len(bindings') = Len(bindings) + NPaths
    /\ \A k \in 1..Len(bindings) : bindings'[k] = bindings[k]
    /\ \A p \in 1..NPaths :
          bindings'[Len(bindings) + p] = [sock |-> m, path |-> p, peer |-> from]

\* A function on 1..N is a sequence.
LEMMA Listed ==
    ASSUME NEW S, NEW N \in Nat, NEW e, e = [k \in 1..N |-> e[k]], \A k \in 1..N : e[k] \in S
    PROVE  e \in Seq(S) /\ Len(e) = N
  <1>1. e \in [1..N -> S]
    OBVIOUS
  <1>2. e \in Seq(S)
    BY <1>1, SeqDef
  <1>3. DOMAIN e = 1..N
    BY <1>1
  <1>4. QED BY <1>2, <1>3, LenProperties

\* CreateNewSubflows does so.
LEMMA SubflowsOpen ==
    ASSUME TypeOK, NEW s \in 1..Len(svr), manager \in 1..Len(svr), NEW n,
           NEW from \in Address, CreateNewSubflows(s, from, n)
    PROVE  Opens(s, manager, from)
  <1>1. Len(svr) \in Nat /\ svr \in Seq(Clone) /\ bindings \in Seq(Binding) /\ Len(bindings) \in Nat
    BY LenProperties DEF TypeOK
  <1>2. NPaths \in Nat /\ 0..NPaths \subseteq Paths
    BY Setting DEF TypeOK
  <1> DEFINE m == manager
             new == [p \in 1..NPaths |-> NewSubflow(p)]
             bs == [p \in 1..NPaths |-> [sock |-> m, path |-> p, peer |-> from]]
             a == [svr[m] EXCEPT !.flows = svr[m].flows \o new]
             mid == [svr EXCEPT ![m] = a]
  <1>3. \A p \in 1..NPaths : NewSubflow(p) \in Subflow /\ [sock |-> m, path |-> p, peer |-> from] \in Binding
    BY <1>1, <1>2 DEF NewSubflow, Subflow, Binding
  <1>4. new \in Seq(Subflow) /\ Len(new) = NPaths /\ \A p \in 1..NPaths : new[p] = NewSubflow(p)
    <2>1. \A p \in 1..NPaths : new[p] = NewSubflow(p) /\ new[p] \in Subflow
      BY <1>3
    <2>2. new = [p \in 1..NPaths |-> new[p]]
      OBVIOUS
    <2> HIDE DEF new
    <2>3. QED BY <1>2, <2>1, <2>2, Listed
  <1>5. bs \in Seq(Binding) /\ Len(bs) = NPaths
        /\ \A p \in 1..NPaths : bs[p] = [sock |-> m, path |-> p, peer |-> from]
    <2>1. \A p \in 1..NPaths : bs[p] = [sock |-> m, path |-> p, peer |-> from] /\ bs[p] \in Binding
      BY <1>3
    <2>2. bs = [p \in 1..NPaths |-> bs[p]]
      OBVIOUS
    <2> HIDE DEF bs
    <2>3. QED BY <1>2, <2>1, <2>2, Listed
  <1>6. svr' = [mid EXCEPT ![s].state = "OPEN"] /\ bindings' = bindings \o bs
    BY DEF CreateNewSubflows
  <1> HIDE DEF new, bs
  <1>7. svr[m] \in Clone /\ svr[m].flows \in Seq(Subflow) /\ Len(svr[m].flows) \in Nat
    <2>1. svr[m] \in Clone
      BY <1>1, ElementOfSeq
    <2>2. svr[m].flows \in Seq(Subflow)
      BY <2>1 DEF Clone
    <2>3. QED BY <2>1, <2>2, LenProperties
  <1>8. /\ svr[m].flows \o new \in Seq(Subflow)
        /\ Len(svr[m].flows \o new) = Len(svr[m].flows) + NPaths
        /\ \A i \in 1..(Len(svr[m].flows) + NPaths) :
              (svr[m].flows \o new)[i] = IF i <= Len(svr[m].flows) THEN svr[m].flows[i]
                                         ELSE new[i - Len(svr[m].flows)]
    BY <1>4, <1>7, ConcatProperties
  <1>9. a \in Clone /\ a.conn = svr[m].conn /\ a.state = svr[m].state /\ a.flows = svr[m].flows \o new
    BY <1>7, <1>8 DEF Clone
  <1> HIDE DEF a
  <1>10. mid \in Seq(Clone) /\ Len(mid) = Len(svr)
         /\ \A t \in 1..Len(svr) : mid[t] = IF t = m THEN a ELSE svr[t]
    BY <1>1, <1>9, ExceptSeq
  <1> HIDE DEF mid
  <1> DEFINE b == [mid[s] EXCEPT !.state = "OPEN"]
  <1>11. mid[s] \in Clone
    BY <1>10, ElementOfSeq
  <1>12. b \in Clone /\ b.conn = mid[s].conn /\ b.state = "OPEN" /\ b.flows = mid[s].flows
    BY <1>11 DEF Clone
  <1>13. svr' = [mid EXCEPT ![s] = b]
    BY <1>6
  <1> HIDE DEF b
  <1>14. svr' \in Seq(Clone) /\ Len(svr') = Len(svr)
         /\ \A t \in 1..Len(svr) : svr'[t] = IF t = s THEN b ELSE mid[t]
    BY <1>10, <1>12, <1>13, ExceptSeq
  <1>15. \A t \in 1..Len(svr) :
             /\ svr'[t].conn = svr[t].conn
             /\ svr'[t].state = IF t = s THEN "OPEN" ELSE svr[t].state
             /\ svr'[t].flows = IF t = m THEN svr[m].flows \o new ELSE svr[t].flows
    BY <1>9, <1>10, <1>12, <1>14
  <1>16. svr'[m].flows = svr[m].flows \o new
    BY <1>15
  <1>17. /\ Len(svr'[m].flows) = Len(svr[m].flows) + NPaths
         /\ \A i \in 1..Len(svr[m].flows) : svr'[m].flows[i] = svr[m].flows[i]
    BY <1>2, <1>7, <1>8, <1>16
  <1>18. ASSUME NEW p \in 1..NPaths
         PROVE  svr'[m].flows[Len(svr[m].flows) + p] = NewSubflow(p)
    <2>1. /\ Len(svr[m].flows) + p \in 1..(Len(svr[m].flows) + NPaths)
          /\ ~(Len(svr[m].flows) + p <= Len(svr[m].flows))
          /\ (Len(svr[m].flows) + p) - Len(svr[m].flows) = p
      BY <1>2, <1>7
    <2>2. QED BY <1>4, <1>8, <1>16, <2>1
  <1>19. /\ bindings' \in Seq(Binding) /\ Len(bindings') = Len(bindings) + NPaths
         /\ \A k \in 1..(Len(bindings) + NPaths) :
               bindings'[k] = IF k <= Len(bindings) THEN bindings[k] ELSE bs[k - Len(bindings)]
    BY <1>1, <1>5, <1>6, ConcatProperties
  <1>20. \A k \in 1..Len(bindings) : bindings'[k] = bindings[k]
    BY <1>1, <1>2, <1>19
  <1>21. ASSUME NEW p \in 1..NPaths
         PROVE  bindings'[Len(bindings) + p] = [sock |-> m, path |-> p, peer |-> from]
    <2>1. /\ Len(bindings) + p \in 1..(Len(bindings) + NPaths)
          /\ ~(Len(bindings) + p <= Len(bindings))
          /\ (Len(bindings) + p) - Len(bindings) = p
      BY <1>1, <1>2
    <2>2. QED BY <1>5, <1>19, <2>1
  <1>22. QED BY <1>14, <1>15, <1>17, <1>18, <1>19, <1>20, <1>21 DEF Opens

\* The sockets grow by it.
LEMMA OpenGrows ==
    ASSUME TypeOK, SocketInv, NEW s \in 1..Len(svr), svr[s].state = "CONNECTING_SVR",
           NEW m \in 1..Len(svr), NEW from, Opens(s, m, from),
           clt' = clt, manager' = manager, setup' = setup
    PROVE  ServerGrows /\ SocketInv'
  <1>1. Len(svr) \in Nat /\ Len(bindings) \in Nat /\ \A t \in 1..Len(svr) : svr[t] \in Clone
    BY LenProperties, ElementOfSeq DEF TypeOK
  <1>2. \A t \in 1..Len(svr) : Len(svr[t].flows) \in Nat /\ svr[t].flows \in Seq(Subflow)
    BY <1>1, LenProperties DEF Clone
  <1>3. NPaths \in Nat
    BY Setting DEF TypeOK
  <1>4. ASSUME NEW t \in 1..Len(svr)
        PROVE  /\ Len(svr[t].flows) <= Len(svr'[t].flows)
               /\ \A i \in 1..Len(svr[t].flows) : svr'[t].flows[i] = svr[t].flows[i]
    <2>1. CASE t = m
      BY <2>1, <1>2, <1>3 DEF Opens
    <2>2. CASE t # m
      BY <2>2, <1>2 DEF Opens
    <2>3. QED BY <2>1, <2>2
  <1>5. ServerGrows
    <2>1. \A t \in 1..Len(svr) :
             /\ svr'[t].conn = svr[t].conn
             /\ svr'[t].state = IF t = s THEN "OPEN" ELSE svr[t].state
      BY DEF Opens
    <2>2. Len(svr) <= Len(svr')
      BY <1>1 DEF Opens
    <2>3. QED BY <1>4, <2>1, <2>2 DEF ServerGrows
  <1>6. svr' # <<>> => manager' > 0
    <2>1. svr # <<>>
      BY <1>1
    <2>2. QED BY <2>1 DEF SocketInv
  <1>7. ASSUME NEW k \in 1..Len(bindings') PROVE bindings'[k].sock \in 1..Len(svr')
    <2>1. CASE k \in 1..Len(bindings)
      BY <2>1 DEF Opens, SocketInv
    <2>2. CASE k \notin 1..Len(bindings)
      <3>1. PICK p \in 1..NPaths : k = Len(bindings) + p
        <4>1. k - Len(bindings) \in 1..NPaths /\ k = Len(bindings) + (k - Len(bindings))
          BY <1>1, <1>3, <2>2 DEF Opens
        <4>2. QED BY <4>1
      <3>2. bindings'[Len(bindings) + p] = [sock |-> m, path |-> p, peer |-> from]
        BY <3>1 DEF Opens
      <3>3. bindings'[k].sock = m
        BY <3>1, <3>2
      <3>4. QED BY <3>3 DEF Opens
    <2>3. QED BY <2>1, <2>2
  <1>8. ASSUME NEW t \in 1..Len(svr')
        PROVE  /\ clt'[svr'[t].conn].state # "IDLE"
               /\ svr'[t].flows # <<>> /\ svr'[t].flows[1].active
               /\ svr'[t].state # "IDLE" =>
                      \E k \in 1..Len(bindings') :
                          /\ bindings'[k].sock = t
                          /\ \A j \in 1..(k - 1) : bindings'[j].sock < t
    <2>1. t \in 1..Len(svr) /\ svr'[t].conn = svr[t].conn
      BY DEF Opens
    <2>2. svr[t].flows # <<>> /\ svr[t].flows[1].active /\ clt[svr[t].conn].state # "IDLE"
      BY <2>1 DEF SocketInv
    <2>3. 1 \in 1..Len(svr[t].flows)
      BY <1>2, <2>1, <2>2, EmptySeq
    <2>4. svr'[t].flows[1].active /\ 1 <= Len(svr'[t].flows)
      <3>1. Len(svr[t].flows) <= Len(svr'[t].flows) /\ svr'[t].flows[1] = svr[t].flows[1]
        BY <1>4, <2>1, <2>3
      <3>2. svr'[t] \in Clone
        BY ElementOfSeq DEF Opens
      <3>3. Len(svr'[t].flows) \in Nat
        BY <3>2, LenProperties DEF Clone
      <3>4. QED BY <1>2, <2>1, <2>2, <2>3, <3>1, <3>3
    <2>5. svr'[t].flows # <<>>
      <3>1. Len(<<>>) = 0
        OBVIOUS
      <3>2. QED BY <2>4, <3>1
    <2>6. ASSUME svr'[t].state # "IDLE"
          PROVE  \E k \in 1..Len(bindings') :
                          /\ bindings'[k].sock = t
                          /\ \A j \in 1..(k - 1) : bindings'[j].sock < t
      <3>1. svr[t].state # "IDLE"
        BY <2>1, <2>6 DEF Opens
      <3>2. PICK k \in 1..Len(bindings) :
                    /\ bindings[k].sock = t
                    /\ \A j \in 1..(k - 1) : bindings[j].sock < t
        BY <2>1, <3>1 DEF SocketInv
      <3>3. k \in 1..Len(bindings') /\ \A j \in 1..(k - 1) : j \in 1..Len(bindings)
        BY <1>1, <1>3 DEF Opens
      <3>4. bindings'[k] = bindings[k] /\ \A j \in 1..(k - 1) : bindings'[j] = bindings[j]
        BY <3>3 DEF Opens
      <3>5. QED BY <3>2, <3>3, <3>4
    <2>7. QED BY <2>1, <2>2, <2>4, <2>5, <2>6
  <1>9. QED BY <1>5, <1>6, <1>7, <1>8 DEF SocketInv

\* No packet of the handshake is left when it is complete.
LEMMA OpenOpening ==
    ASSUME TypeOK, NEW n, NEW f, NEW pkt, Arrives(n, f, pkt), Opening(pkt),
           NEW s \in 1..Len(svr), svr[s].conn = f.conn,
           NEW m, NEW from, Opens(s, m, from),
           NEW g \in Flow, NEW pkts, Adds(n, net', g, pkts),
           \A k \in 1..Len(pkts) : ~Opening(pkts[k])
    PROVE  OpeningInv(net)'
  <1>1. \A h \in Flow : \A j \in 1..Len(net'[h]) :
            Opening(net'[h][j]) => j \in 1..Len(n[h]) /\ net'[h][j] = n[h][j]
    BY DEF Adds
  <1>2. \A h \in Flow : \A j \in 1..Len(net'[h]) : Opening(net'[h][j]) => h.conn # f.conn
    BY <1>1 DEF Arrives
  <1>3. OneOpening(net)'
    <2> SUFFICES ASSUME NEW h \in Flow, NEW k \in Flow,
                        NEW j \in 1..Len(net'[h]), NEW l \in 1..Len(net'[k]),
                        Opening(net'[h][j]), Opening(net'[k][l]), h.conn = k.conn
                 PROVE  h = k /\ j = l
      BY DEF OneOpening, Opening
    <2>1. j \in 1..Len(n[h]) /\ l \in 1..Len(n[k]) /\ Opening(n[h][j]) /\ Opening(n[k][l])
      BY <1>1
    <2>2. OneOpening(n)
      BY DEF OpeningInv, Arrives
    <2>3. QED BY <2>1, <2>2 DEF OneOpening
  <1>4. OneSocket(net)'
    <2> SUFFICES ASSUME NEW h \in Flow, NEW j \in 1..Len(net'[h]), NEW t \in 1..Len(svr),
                        Opening(net'[h][j]), svr[t].conn = h.conn
                 PROVE  /\ net'[h][j].type # "INITIAL"
                        /\ svr'[t].state = "CONNECTING_SVR"
                        /\ \A u \in 1..Len(svr) : svr[u].conn = h.conn => u = t
      <3>1. Len(svr') = Len(svr) /\ \A t \in 1..Len(svr) : svr'[t].conn = svr[t].conn
        BY DEF Opens
      <3>2. QED BY <3>1 DEF OneSocket, Opening
    <2>1. j \in 1..Len(n[h]) /\ net'[h][j] = n[h][j] /\ Opening(n[h][j]) /\ t # s
      BY <1>1, <1>2
    <2>2. OneSocket(n)
      BY DEF OpeningInv, Arrives
    <2>3. svr'[t].state = svr[t].state
      BY <2>1 DEF Opens
    <2>4. QED BY <2>1, <2>2, <2>3 DEF OneSocket
  <1>5. FirstStuck'
    <2> SUFFICES ASSUME NEW t \in 1..Len(svr), NEW u \in 1..Len(svr), t < u,
                        svr[t].conn = svr[u].conn
                 PROVE  svr'[t].state = "CONNECTING_SVR"
      BY DEF FirstStuck, Opens
    <2>1. svr[t].state = "CONNECTING_SVR"
      BY DEF FirstStuck, Arrives, OpeningInv
    <2>2. Len(svr) \in Nat
      BY LenProperties DEF TypeOK
    <2>3. t # s
      <3>1. ASSUME t = s PROVE u = s
        BY <3>1 DEF Arrives
      <3>2. QED BY <3>1, <2>2
    <2>4. QED BY <2>1, <2>3 DEF Opens
  <1>6. QED BY <1>3, <1>4, <1>5 DEF OpeningInv

\* Undisturbed, the paths go to the socket that was waiting, and the client
\* hears of them in order.
LEMMA OpenCalm ==
    ASSUME TypeOK, TypeOK', SocketInv, ClientInv, NEW n, NEW f, NEW pkt, Arrives(n, f, pkt),
           pkt.type = "HANDSHAKE", f.to = "svr",
           NEW s \in 1..Len(svr), svr[s].conn = f.conn, svr[s].state = "CONNECTING_SVR",
           Opens(s, manager, <<home[f.conn], 0>>), ServerGrows,
           UNCHANGED <<setup, clt, manager>>, \A m \in Nodes : auth'[m] = auth[m],
           zrtt' = IF NPaths > 0 THEN zrtt \cup {Server} ELSE zrtt,
           CalmServer, CalmClients, CalmWires(n),
           NEW g \in Flow, g.conn = f.conn, g.to = "clt", NEW pkts, Adds(n, net', g, pkts),
           \A k \in 1..Len(pkts) : \E b \in 1..Len(bindings) :
               /\ bindings[b].sock = manager /\ k \in 1..NPaths
               /\ pkts[k] = Pkt("ADD_ADDRESS", k, bindings[b].peer[1])
    PROVE  CalmServer' /\ CalmWires(net)'
  <1>1. Len(svr) \in Nat /\ Len(bindings) \in Nat /\ \A t \in 1..Len(svr) : svr[t] \in Clone /\ svr'[t] \in Clone
    BY LenProperties, ElementOfSeq DEF TypeOK, Opens
  <1>2. \A t \in 1..Len(svr) : Len(svr[t].flows) \in Nat /\ Len(svr'[t].flows) \in Nat
    BY <1>1, LenProperties DEF Clone
  <1>3. NPaths \in Nat /\ home' = home /\ NPaths' = NPaths
    BY Setting DEF TypeOK, home, NPaths
  <1>4. s = Len(svr) /\ manager = s /\ Len(svr[s].flows) = 1 /\ Server \notin zrtt
    BY DEF CalmServer
  <1>5. \A t \in 1..Len(svr) : ~(Len(svr[t].flows) > 1)
    BY <1>4 DEF CalmServer
  <1>6. /\ clt[f.conn].state = "OPEN" /\ <<Server, 0>> \in auth[home[f.conn]]
        /\ f \in Flow /\ f.conn \in Conns /\ f.path < Len(clt[f.conn].flows) /\ f.path = 0
    BY DEF Arrives, PacketOk, Flow
  <1>7. home[f.conn] \in Nodes
    BY <1>6, Setting DEF TypeOK, ClientInv
  <1>8. Len(svr'[s].flows) = 1 + NPaths
    BY <1>4 DEF Opens
  <1>9. \A t \in 1..Len(svr) : t # s => Len(svr'[t].flows) = Len(svr[t].flows)
    BY <1>4 DEF Opens
  <1>10. ASSUME NEW t \in 1..Len(svr), Len(svr'[t].flows) > 1 PROVE t = s /\ NPaths > 0
    <2>1. t = s
      BY <1>5, <1>9, <1>10
    <2>2. QED BY <1>3, <1>8, <1>10, <2>1
  <1>11. \A t \in 1..Len(svr) : svr'[t].state # "CONNECTING_SVR"
    <2> SUFFICES ASSUME NEW t \in 1..Len(svr), svr'[t].state = "CONNECTING_SVR"
                 PROVE  FALSE
      OBVIOUS
    <2>1. t # s /\ svr[t].state = "CONNECTING_SVR"
      BY DEF Opens
    <2>2. t = Len(svr)
      BY <2>1 DEF CalmServer
    <2>3. QED BY <1>4, <2>1, <2>2
  <1>12. ASSUME NEW t \in 1..Len(svr), NEW i \in 1..Len(svr'[t].flows)
         PROVE  svr'[t].flows[i].id = i - 1
    <2>1. CASE t # s
      <3>1. svr'[t].flows = svr[t].flows
        BY <1>4, <2>1 DEF Opens
      <3>2. QED BY <3>1 DEF CalmServer
    <2>2. CASE t = s /\ i = 1
      <3>1. svr'[s].flows[1] = svr[s].flows[1]
        BY <1>4 DEF Opens
      <3>2. svr[s].flows[1].id = 1 - 1
        BY <1>4 DEF CalmServer
      <3>3. QED BY <2>2, <3>1, <3>2
    <2>3. CASE t = s /\ i # 1
      <3>1. i \in 1..(1 + NPaths)
        BY <1>8, <2>3
      <3>2. PICK p \in 1..NPaths : i = 1 + p
        <4>1. i - 1 \in 1..NPaths /\ i = 1 + (i - 1)
          BY <1>3, <2>3, <3>1
        <4>2. QED BY <4>1
      <3>3. svr'[s].flows[1 + p] = NewSubflow(p)
        BY <1>4 DEF Opens
      <3>4. NewSubflow(p).id = p
        BY DEF NewSubflow
      <3>5. QED BY <1>3, <2>3, <3>2, <3>3, <3>4
    <2>4. QED BY <2>1, <2>2, <2>3
  <1>13. ASSUME NEW k \in 1..Len(bindings')
         PROVE  /\ bindings'[k].peer[1] = home'[svr'[bindings'[k].sock].conn]
                /\ bindings'[k].path > 0 => Len(svr'[bindings'[k].sock].flows) > 1
    <2>1. CASE k \in 1..Len(bindings)
      <3>1. bindings'[k] = bindings[k] /\ bindings[k].sock \in 1..Len(svr)
        BY <2>1 DEF Opens, SocketInv
      <3>2. svr'[bindings[k].sock].conn = svr[bindings[k].sock].conn
        BY <3>1 DEF Opens
      <3>3. /\ bindings[k].peer[1] = home[svr[bindings[k].sock].conn]
            /\ bindings[k].path > 0 => Len(svr[bindings[k].sock].flows) > 1
        BY <2>1 DEF CalmServer
      <3>4. QED BY <1>3, <1>5, <3>1, <3>2, <3>3
    <2>2. CASE k \notin 1..Len(bindings)
      <3>1. PICK p \in 1..NPaths : k = Len(bindings) + p
        <4>1. k - Len(bindings) \in 1..NPaths /\ k = Len(bindings) + (k - Len(bindings))
          BY <1>1, <1>3, <2>2 DEF Opens
        <4>2. QED BY <4>1
      <3>2. bindings'[Len(bindings) + p] = [sock |-> manager, path |-> p, peer |-> <<home[f.conn], 0>>]
        BY DEF Opens
      <3>3. bindings'[k].sock = s /\ bindings'[k].peer[1] = home[f.conn]
        BY <1>4, <3>1, <3>2
      <3>4. svr'[s].conn = f.conn
        BY DEF Opens
      <3>5. Len(svr'[s].flows) > 1
        BY <1>3, <1>8, <3>1
      <3>6. QED BY <1>3, <3>3, <3>4, <3>5
    <2>3. QED BY <2>1, <2>2
  <1>14. CalmServer'
    <2>1. Len(svr') = Len(svr) /\ \A t \in 1..Len(svr) : svr'[t].conn = svr[t].conn
      BY DEF Opens
    <2>2. \A t, u \in 1..Len(svr') : svr'[t].conn = svr'[u].conn => t = u
      BY <2>1 DEF CalmServer
    <2>3. ASSUME NEW t \in 1..Len(svr), Len(svr'[t].flows) > 1
          PROVE  /\ Len(svr'[t].flows) = NPaths' + 1
                 /\ svr'[t].state = "OPEN" /\ Server \in zrtt'
                 /\ clt'[svr'[t].conn].state = "OPEN"
                 /\ <<Server, 0>> \in auth'[home'[svr'[t].conn]]
                 /\ \A u \in 1..Len(svr) : Len(svr'[u].flows) > 1 => u = t
      <3>1. t = s /\ NPaths > 0
        BY <1>10, <2>3
      <3>2. svr'[t].conn = f.conn /\ svr'[t].state = "OPEN"
        BY <3>1 DEF Opens
      <3>3. Len(svr'[t].flows) = NPaths' + 1
        BY <1>3, <1>8, <3>1
      <3>4. <<Server, 0>> \in auth'[home'[svr'[t].conn]]
        BY <1>3, <1>6, <1>7, <3>2
      <3>5. QED BY <1>6, <1>10, <3>1, <3>2, <3>3, <3>4
    <2>4. ASSUME NEW t \in 1..Len(svr')
          PROVE  /\ svr'[t].state # "CONNECTING_SVR"
                 /\ Len(svr'[t].flows) > 1 =>
                       /\ Len(svr'[t].flows) = NPaths' + 1
                       /\ svr'[t].state = "OPEN" /\ Server \in zrtt'
                       /\ clt'[svr'[t].conn].state = "OPEN"
                       /\ <<Server, 0>> \in auth'[home'[svr'[t].conn]]
                       /\ \A u \in 1..Len(svr') : Len(svr'[u].flows) > 1 => u = t
                 /\ \A i \in 1..Len(svr'[t].flows) : svr'[t].flows[i].id = i - 1
      <3>1. t \in 1..Len(svr)
        BY <2>1
      <3>2. \A i \in 1..Len(svr'[t].flows) : svr'[t].flows[i].id = i - 1
        BY <1>12, <3>1
      <3>3. QED BY <1>11, <2>1, <2>3, <3>1, <3>2
    <2>5. QED BY <1>13, <2>2, <2>4 DEF CalmServer
  <1>15. ASSUME NEW h \in Flow, NEW j \in 1..Len(n[h]), h.to = "clt" PROVE h.conn # f.conn
    <2>1. ASSUME h.conn = f.conn PROVE n[h][j].type = "HANDSHAKE"
      <3>1. CalmPacket(n, h, j)
        BY DEF CalmWires
      <3>2. QED BY <1>15, <2>1, <3>1 DEF CalmPacket
    <2>2. h.conn = f.conn => ~Opening(n[h][j])
      BY DEF Arrives, Opening
    <2>3. QED BY <2>1, <2>2 DEF Opening
  <1>16. CalmWires(n)'
    <2>1. \A t \in 1..Len(svr') : ~(t > Len(svr))
      BY <1>1 DEF Opens
    <2>2. QED BY <2>1, CalmKept
  <1>17. Len(n[g]) = 0 /\ Len(clt[f.conn].flows) = 1
    <2>1. Len(n[g]) \in Nat
      BY LenProperties DEF Arrives
    <2>2. ~(1 \in 1..Len(n[g]))
      BY <1>15
    <2>3. clt[f.conn].flows \in Seq(Subflow)
      BY <1>6 DEF TypeOK, Client
    <2>4. Len(clt[f.conn].flows) \in Nat
      BY <2>3, LenProperties
    <2>5. ~(Len(clt[f.conn].flows) > 1)
      BY <1>5, <1>6 DEF CalmClients, Announced
    <2>6. 0 < Len(clt[f.conn].flows)
      BY <1>6
    <2>7. \A x \in Nat : /\ ~(1 \in 1..x) => x = 0
                       /\ 0 < x /\ ~(x > 1) => x = 1
      OBVIOUS
    <2>8. Len(n[g]) = 0
      BY <2>1, <2>2, <2>7
    <2>9. Len(clt[f.conn].flows) = 1
      <3>1. PICK x \in Nat : x = Len(clt[f.conn].flows)
        BY <2>4
      <3>2. 0 < x /\ ~(x > 1)
        BY <2>5, <2>6, <3>1
      <3>3. x = 1
        BY <3>2
      <3>4. QED BY <3>1, <3>3
    <2>10. QED BY <2>8, <2>9
  <1>18. ASSUME NEW h \in Flow, NEW i \in 1..Len(net'[h]), h.to = "clt"
         PROVE  CalmPacket(net, h, i)'
    <2>0. Len(net'[h]) \in Nat
      BY LenProperties DEF Adds
    <2>1. CASE h # g
      <3>1. i \in 1..Len(n[h]) /\ net'[h][i] = n[h][i]
        BY <2>1 DEF Adds
      <3>2. CalmPacket(n, h, i)'
        BY <1>16, <3>1 DEF CalmWires
      <3>3. \A j \in 1..i : net'[h][j] = n[h][j]
        <4>1. \A j \in 1..i : j \in 1..Len(net'[h])
          BY <2>0
        <4>2. QED BY <2>1, <4>1 DEF Adds
      <3>4. QED BY <3>1, <3>2, <3>3 DEF CalmPacket
    <2>2. CASE h = g
      <3>1. ASSUME NEW j \in 1..Len(net'[h]) PROVE j \in 1..Len(pkts) /\ net'[h][j] = pkts[j]
        <4>1. j \notin 1..Len(n[h])
          BY <1>17, <2>2
        <4>2. j - Len(n[g]) = j
          BY <1>17, <2>0
        <4>3. QED BY <4>1, <4>2, <2>2 DEF Adds
      <3>2. ASSUME NEW j \in 1..Len(net'[h])
            PROVE  /\ net'[h][j].type = "ADD_ADDRESS" /\ net'[h][j].arg = j
                   /\ j \in 1..NPaths /\ net'[h][j].to = home[f.conn]
        <4>1. PICK b \in 1..Len(bindings) :
                  /\ bindings[b].sock = manager /\ j \in 1..NPaths
                  /\ pkts[j] = Pkt("ADD_ADDRESS", j, bindings[b].peer[1])
          BY <3>1
        <4>2. bindings[b].peer[1] = home[svr[bindings[b].sock].conn]
          BY DEF CalmServer
        <4>3. QED BY <1>4, <3>1, <4>1, <4>2 DEF Pkt
      <3>3. \A j \in 1..i : net'[h][j].type = "ADD_ADDRESS"
        <4>1. \A j \in 1..i : j \in 1..Len(net'[h])
          BY <2>0
        <4>2. QED BY <3>2, <4>1
      <3>4. Announced(f.conn)'
        <4>1. i \in 1..NPaths
          BY <3>2
        <4>2. Len(svr'[s].flows) > 1
          BY <1>3, <1>8, <4>1
        <4>3. s \in 1..Len(svr') /\ svr'[s].conn = f.conn
          BY DEF Opens
        <4>4. QED BY <4>2, <4>3 DEF Announced
      <3>5. net'[h][i].arg = Len(clt'[f.conn].flows) + i - 1
        <4>1. net'[h][i].arg = i /\ i \in Nat
          BY <2>0, <3>2
        <4>2. Len(clt'[f.conn].flows) = 1
          BY <1>17
        <4>3. QED BY <4>1, <4>2
      <3>6. \A t \in 1..Len(svr') : svr'[t].state # "CONNECTING_SVR"
        BY <1>11 DEF Opens
      <3>7. net'[h][i].to = home'[h.conn]
        BY <1>3, <2>2, <3>2
      <3>8. QED BY <2>2, <3>3, <3>4, <3>5, <3>6, <3>7 DEF CalmPacket
    <2>3. QED BY <2>1, <2>2
  <1>19. CalmWires(net)'
    BY <1>18 DEF CalmWires, CalmPacket
  <1>20. QED BY <1>14, <1>19

\* The server has no socket for an open connection: a node has two.
LEMMA NotServed ==
    ASSUME StateInv, NEW c \in Conns, clt[c].state = "OPEN", SocketOf(c) = 0,
           \A s \in 1..Len(svr) : svr[s].state # "IDLE"
    PROVE  Shared
  <1> SUFFICES ASSUME ~Shared
               PROVE  FALSE
    OBVIOUS
  <1>1. PICK s \in 1..Len(svr) : svr[s].conn = c
    BY DEF StateInv, ServedInv, HasSocket
  <1>2. SocketOf(svr[s].conn) # 0
    BY SocketFoundIf DEF StateInv
  <1>3. QED BY <1>1, <1>2

\* The list SendPacket is given to announce the paths.
LEMMA AddressList ==
    ASSUME setup \in Setups, NEW types, types = [p \in 1..NPaths |-> <<"ADD_ADDRESS", p>>]
    PROVE  /\ Len(types) = NPaths
           /\ \A k \in 1..NPaths : /\ types[k][1] = "ADD_ADDRESS" /\ types[k][2] = k
                                   /\ k \in Paths
  <1>1. NPaths \in Nat /\ 0..NPaths \subseteq Paths
    BY Setting
  <1>2. \A k \in 1..NPaths : types[k] = <<"ADD_ADDRESS", k>>
    OBVIOUS
  <1>3. \A k \in 1..NPaths : types[k] \in {"ADD_ADDRESS"} \X (1..NPaths)
    BY <1>2
  <1>4. types = [k \in 1..NPaths |-> types[k]]
    OBVIOUS
  <1>5. Len(types) = NPaths
    BY <1>1, <1>3, <1>4, Listed
  <1>6. QED BY <1>1, <1>2, <1>5

\* A handshake message of a client arrives.
LEMMA RecvHandshakeKeeps ==
    ASSUME StateInv, Running, NEW n, NEW f, NEW pkt, Arrives(n, f, pkt),
           pkt.type = "HANDSHAKE", f.to = "svr", CalmBefore(n),
           RecvHandshake(f.conn, <<home[f.conn], f.path>>, n),
           UNCHANGED <<setup, clt>>, faults' \in 0..MaxFaults
    PROVE  MultipathInv'
  <1> PICK c : c = f.conn
    OBVIOUS
  <1> PICK s : s = SocketOf(c)
    OBVIOUS
  <1>1. f \in Flow /\ Opening(pkt) /\ PacketOk(f, pkt) /\ n \in [Flow -> Seq(Packet)]
    BY DEF Arrives, Opening
  <1>2. c \in Conns /\ f.path \in Paths
    BY <1>1 DEF Flow
  <1>3. f.path = 0 /\ clt[c].state = "OPEN" /\ 0 < Len(clt[c].flows)
    BY <1>1 DEF PacketOk
  <1>4. 0 \in Paths /\ c \in DOMAIN home /\ home[c] \in Nodes /\ TypeOK /\ setup \in Setups
    BY <1>2, <1>3, Setting DEF StateInv, TypeOK, ClientInv
  <1>5. /\ auth' = auth \/ auth' = Authenticated(Server, <<home[c], 0>>)
        /\ fatal' = (s = 0) /\ UNCHANGED <<manager, corrupt, overlap, race>>
    BY <1>3 DEF RecvHandshake
  <1>6. /\ auth' \in [Nodes \cup {Server} -> SUBSET (Address \cup ({Server} \X Paths))]
        /\ \A m \in Nodes : auth'[m] = auth[m]
    BY <1>4, <1>5, AuthAtServer
  <1>7. s = 0 \/ (s \in 1..Len(svr) /\ svr[s].conn = c)
    BY <1>4, SocketFound DEF StateInv
  <1>8. Len(svr) \in Nat
    BY <1>4, LenProperties DEF TypeOK
  <1>9. CASE s # 0 /\ svr[s].state = "CONNECTING_SVR"
    <2>1. CreateNewSubflows(s, <<home[c], 0>>, n) /\ s \in 1..Len(svr) /\ svr[s].conn = f.conn
      BY <1>3, <1>7, <1>9 DEF RecvHandshake
    <2>2. manager \in 1..Len(svr)
      <3>1. svr # <<>>
        BY <1>8, <2>1
      <3>2. QED BY <3>1, <1>4 DEF StateInv, SocketInv, TypeOK
    <2>3. <<home[c], 0>> \in Address
      BY <1>4 DEF Address
    <2>4. Opens(s, manager, <<home[c], 0>>)
      BY <1>4, <2>1, <2>2, <2>3, SubflowsOpen
    <2>5. ServerGrows /\ SocketInv'
      BY <1>4, <1>5, <1>9, <2>1, <2>2, <2>4, OpenGrows DEF StateInv
    <2>6. NPaths \in Nat /\ NPaths' = NPaths /\ Server \notin Nodes
      BY <1>4, Setting DEF NPaths
    <2>7. /\ zrtt' = IF NPaths > 0 THEN zrtt \cup {Server} ELSE zrtt
          /\ net' = SendPacket(n, bindings, manager, 0, [p \in 1..NPaths |-> <<"ADD_ADDRESS", p>>])
      BY <2>1 DEF CreateNewSubflows
    <2>8. PICK types : types = [p \in 1..NPaths |-> <<"ADD_ADDRESS", p>>]
      OBVIOUS
    <2>9. /\ Len(types) = NPaths
          /\ \A k \in 1..NPaths : /\ types[k][1] = "ADD_ADDRESS" /\ types[k][2] = k
                                  /\ k \in Paths
      BY <1>4, <2>8, AddressList
    <2>10. PICK g : g = ToClient(svr[manager].conn, 0)
      OBVIOUS
    <2>11. net' = SendPacket(n, bindings, manager, 0, types)
      BY <2>7, <2>8
    <2>12. /\ g \in Flow /\ g.conn = svr[manager].conn /\ g.path = 0 /\ g.to = "clt"
           /\ \E pkts \in Seq(Packet) : Adds(n, net', g, pkts) /\ Sends(bindings, manager, 0, types, pkts)
      <3>1. bindings \in Seq(Binding)
        BY <1>4 DEF TypeOK
      <3>2. Messages(types)
        BY <2>6, <2>9 DEF Messages
      <3>3. PICK m : m = net'
        OBVIOUS
      <3>4. m = SendPacket(n, bindings, manager, 0, types)
        BY <2>11, <3>3
      <3>5. PICK bs \in Seq(Binding), t \in 1..Len(svr), p \in Paths : bs = bindings /\ t = manager /\ p = 0
        BY <1>4, <2>2, <3>1
      <3>6. g = ToClient(svr[t].conn, p) /\ m = SendPacket(n, bs, t, p, types)
        BY <2>10, <3>4, <3>5
      <3>7. TypeOK /\ n \in [Flow -> Seq(Packet)]
        BY <1>1, <1>4
      <3>8. /\ g \in Flow /\ g.conn = svr[t].conn /\ g.path = p /\ g.to = "clt"
            /\ \E pkts \in Seq(Packet) : Adds(n, m, g, pkts) /\ Sends(bs, t, p, types, pkts)
        BY <3>2, <3>6, <3>7, SendPacketAdds
      <3>9. QED BY <3>3, <3>5, <3>8
    <2>13. g.conn \in Conns
      BY <2>12 DEF Flow
    <2>14. PICK pkts : /\ Adds(n, net', g, pkts)
                       /\ \A k \in 1..Len(pkts) : \E b \in 1..Len(bindings) :
                             /\ bindings[b].sock = manager /\ k \in 1..NPaths
                             /\ pkts[k] = Pkt("ADD_ADDRESS", k, bindings[b].peer[1])
      <3>1. PICK pkts : Adds(n, net', g, pkts) /\ Sends(bindings, manager, 0, types, pkts)
        BY <2>12
      <3>2. ASSUME NEW k \in 1..Len(pkts)
            PROVE  \E b \in 1..Len(bindings) :
                      /\ bindings[b].sock = manager /\ k \in 1..NPaths
                      /\ pkts[k] = Pkt("ADD_ADDRESS", k, bindings[b].peer[1])
        <4>1. PICK b \in 1..Len(bindings) :
                  /\ bindings[b].sock = manager /\ k \in 1..Len(types)
                  /\ pkts[k] = Pkt(types[k][1], types[k][2], bindings[b].peer[1])
          BY <3>1 DEF Sends
        <4>2. k \in 1..NPaths /\ types[k][1] = "ADD_ADDRESS" /\ types[k][2] = k
          BY <2>9, <4>1
        <4>3. QED BY <4>1, <4>2
      <3>3. QED BY <3>1, <3>2
    <2>15. \A k \in 1..Len(pkts) : pkts[k].type = "ADD_ADDRESS" /\ pkts[k].arg \in 1..NPaths
      <3> SUFFICES ASSUME NEW k \in 1..Len(pkts)
                   PROVE  pkts[k].type = "ADD_ADDRESS" /\ pkts[k].arg \in 1..NPaths
        OBVIOUS
      <3>1. PICK b \in 1..Len(bindings) :
                /\ k \in 1..NPaths /\ pkts[k] = Pkt("ADD_ADDRESS", k, bindings[b].peer[1])
        BY <2>14
      <3>2. QED BY <3>1 DEF Pkt
    <2>16. TypeOK'
      <3>1. svr' \in Seq(Clone) /\ bindings' \in Seq(Binding) /\ Len(svr') = Len(svr)
        BY <2>4 DEF Opens
      <3>2. net' \in [Flow -> Seq(Packet)]
        BY <2>14 DEF Adds
      <3>3. zrtt' \subseteq Nodes \cup {Server}
        BY <1>4, <2>7 DEF TypeOK
      <3>4. fatal' \in BOOLEAN
        BY <1>5
      <3>5. QED BY <1>4, <1>5, <1>6, <3>1, <3>2, <3>3, <3>4 DEF TypeOK
    <2>17. ASSUME NEW k \in 1..Len(pkts) PROVE PacketOk(g, pkts[k])'
      <3>1. clt[g.conn].state # "IDLE"
        BY <2>2, <2>12 DEF StateInv, SocketInv
      <3>2. 0 < Len(clt[g.conn].flows)
        <4>1. clt[g.conn].flows # <<>> /\ clt[g.conn] \in Client
          BY <2>13, <3>1, <1>4 DEF StateInv, ClientInv, TypeOK
        <4>2. QED BY <4>1, EmptySeq, LenProperties DEF Client
      <3>3. HasSocket(g.conn)'
        <4>1. manager \in 1..Len(svr') /\ svr'[manager].conn = g.conn
          BY <2>2, <2>4, <2>12 DEF Opens
        <4>2. QED BY <4>1 DEF HasSocket
      <3>4. clt' = clt
        OBVIOUS
      <3>5. pkts[k].type = "ADD_ADDRESS" /\ pkts[k].arg \in 1..NPaths'
        BY <2>6, <2>15
      <3>6. QED BY <2>12, <3>1, <3>2, <3>3, <3>4, <3>5 DEF PacketOk
    <2>18. OpeningInv(net)'
      <3>1. \A k \in 1..Len(pkts) : ~Opening(pkts[k])
        BY <2>15 DEF Opening
      <3>2. QED BY <1>1, <1>4, <2>1, <2>4, <2>12, <2>14, <3>1, OpenOpening
    <2>19. ErrorInv'
      BY <1>5, <1>9 DEF ErrorInv, Running
    <2>20. ASSUME Undisturbed' PROVE CalmServer' /\ CalmWires(net)'
      <3>1. CalmServer /\ CalmClients /\ CalmWires(n)
        BY <2>20 DEF CalmBefore
      <3>2. manager = s
        BY <1>9, <2>1, <3>1 DEF CalmServer
      <3>3. g.conn = f.conn
        BY <2>1, <2>12, <3>2
      <3>4. Opens(s, manager, <<home[f.conn], 0>>)
        BY <2>4
      <3>5. SocketInv /\ ClientInv
        BY DEF StateInv
      <3>6. QED BY <1>4, <1>5, <1>6, <1>9, <2>1, <2>5, <2>7, <2>12, <2>14, <2>16, <3>1,
                   <3>3, <3>4, <3>5, OpenCalm
    <2>21. \A m \in Nodes : auth'[m] = auth[m] /\ (m \in zrtt' <=> m \in zrtt)
      BY <1>6, <2>6, <2>7
    <2>22. QED BY <1>5, <2>5, <2>12, <2>14, <2>16, <2>17, <2>18, <2>19, <2>20, <2>21, ServerDone
  <1>10. CASE ~(s # 0 /\ svr[s].state = "CONNECTING_SVR")
    <2>1. net' = n /\ UNCHANGED <<svr, bindings, zrtt>>
      BY <1>10 DEF RecvHandshake
    <2>2. UNCHANGED <<server, zrtt, race>>
      BY <1>5, <2>1 DEF server
    <2>3. Adds(n, net', f, <<>>) /\ \A k \in 1..Len(<<>>) : FALSE
      BY <1>1, <2>1, NothingAdds
    <2>4. TypeOK'
      <3>1. fatal' \in BOOLEAN
        BY <1>5
      <3>2. QED BY <1>1, <1>4, <1>5, <1>6, <2>1, <3>1 DEF TypeOK
    <2>5. ErrorInv'
      <3>1. ASSUME Undisturbed', s = 0 PROVE Shared'
        <4>1. \A t \in 1..Len(svr) : svr[t].state # "IDLE"
          BY <2>1, <3>1 DEF Undisturbed
        <4>2. Shared
          BY <1>2, <1>3, <3>1, <4>1, NotServed
        <4>3. home' = home /\ clt' = clt
          BY DEF home
        <4>4. QED BY <4>2, <4>3 DEF Shared
      <3>2. QED BY <1>5, <3>1 DEF ErrorInv, Running
    <2>6. QED BY <1>1, <1>6, <2>2, <2>3, <2>4, <2>5, QuietDone
  <1>11. QED BY <1>9, <1>10

-----------------------------------------------------------------------------
\* A path is marked active.
LEMMA ActivatedFacts ==
    ASSUME NEW flows \in Seq(Subflow), NEW p \in Nat, p < Len(flows)
    PROVE  /\ Activated(flows, p) \in Seq(Subflow) /\ Len(Activated(flows, p)) = Len(flows)
           /\ \A i \in 1..Len(flows) : Activated(flows, p)[i].id = flows[i].id
           /\ \A i \in 1..Len(flows) :
                 Activated(flows, p)[i].active <=> flows[i].active \/ i = p + 1
           /\ p + 1 \in 1..Len(flows)
  <1>1. Len(flows) \in Nat
    BY LenProperties
  <1>2. p + 1 \in 1..Len(flows)
    BY <1>1
  <1>3. flows[p + 1] \in Subflow
    BY <1>2, ElementOfSeq
  <1>4. PICK x : x = [flows[p + 1] EXCEPT !.active = TRUE]
    OBVIOUS
  <1>5. x \in Subflow /\ x.id = flows[p + 1].id /\ x.active = TRUE
    BY <1>3, <1>4 DEF Subflow
  <1>6. Activated(flows, p) = [flows EXCEPT ![p + 1] = x]
    BY <1>4 DEF Activated
  <1>7. /\ Activated(flows, p) \in Seq(Subflow) /\ Len(Activated(flows, p)) = Len(flows)
        /\ \A i \in 1..Len(flows) : Activated(flows, p)[i] = IF i = p + 1 THEN x ELSE flows[i]
    BY <1>2, <1>5, <1>6, ExceptSeq
  <1>8. QED BY <1>2, <1>5, <1>7

\* What the answer to a PATH_CHALLENGE of path p does to socket s.
Answers(s, p, from) ==
    /\ svr' \in Seq(Clone) /\ SameSockets
    /\ \A t \in 1..Len(svr) :
          /\ Len(svr'[t].flows) = Len(svr[t].flows)
          /\ \A i \in 1..Len(svr[t].flows) :
                /\ svr'[t].flows[i].id = svr[t].flows[i].id
                /\ svr[t].flows[i].active => svr'[t].flows[i].active
    /\ svr'[s].flows[p + 1].active
    /\ bindings' \in Seq(Binding) /\ Len(bindings') = Len(bindings)
    /\ \A k \in 1..Len(bindings) :
          /\ bindings'[k].sock = bindings[k].sock /\ bindings'[k].path = bindings[k].path
          /\ bindings'[k].peer = bindings[k].peer \/ (bindings[k].path = p /\ bindings'[k].peer = from)

\* OnReceivedPathChallengeFrame does so.
LEMMA ChallengeAnswers ==
    ASSUME TypeOK, NEW s \in 1..Len(svr), NEW p \in Nat, p < Len(svr[s].flows),
           NEW from \in Address, NEW n, OnReceivedPathChallengeFrame(s, p, from, n)
    PROVE  Answers(s, p, from)
  <1>1. svr \in Seq(Clone) /\ bindings \in Seq(Binding) /\ Len(bindings) \in Nat
    BY LenProperties DEF TypeOK
  <1>2. svr[s] \in Clone
    BY <1>1, ElementOfSeq
  <1>3. PICK flows \in Seq(Subflow) : flows = svr[s].flows
    BY <1>2 DEF Clone
  <1>4. PICK fl : fl = Activated(flows, p)
    OBVIOUS
  <1>5. /\ fl \in Seq(Subflow) /\ Len(fl) = Len(flows)
        /\ \A i \in 1..Len(flows) : fl[i].id = flows[i].id
        /\ \A i \in 1..Len(flows) : fl[i].active <=> flows[i].active \/ i = p + 1
        /\ p + 1 \in 1..Len(flows)
    BY <1>3, <1>4, ActivatedFacts
  <1>6. PICK x : x = [svr[s] EXCEPT !.flows = fl]
    OBVIOUS
  <1>7. x \in Clone /\ x.conn = svr[s].conn /\ x.state = svr[s].state /\ x.flows = fl
    BY <1>2, <1>5, <1>6 DEF Clone
  <1>8. svr' = [svr EXCEPT ![s] = x]
    BY <1>3, <1>4, <1>6 DEF OnReceivedPathChallengeFrame
  <1>9. svr' \in Seq(Clone) /\ Len(svr') = Len(svr)
        /\ \A t \in 1..Len(svr) : svr'[t] = IF t = s THEN x ELSE svr[t]
    BY <1>1, <1>7, <1>8, ExceptSeq
  <1>10. SameSockets
    BY <1>7, <1>9 DEF SameSockets
  <1>11. ASSUME NEW t \in 1..Len(svr)
         PROVE  /\ Len(svr'[t].flows) = Len(svr[t].flows)
                /\ \A i \in 1..Len(svr[t].flows) :
                      /\ svr'[t].flows[i].id = svr[t].flows[i].id
                      /\ svr[t].flows[i].active => svr'[t].flows[i].active
    <2>1. CASE t = s
      <3>1. svr'[t].flows = fl /\ svr[t].flows = flows
        BY <1>3, <1>7, <1>9, <2>1
      <3>2. QED BY <1>5, <3>1
    <2>2. CASE t # s
      BY <1>9, <2>2
    <2>3. QED BY <2>1, <2>2
  <1>12. svr'[s].flows[p + 1].active
    BY <1>5, <1>7, <1>9
  <1> DEFINE I == {k \in 1..Len(bindings) : bindings[k].path = p}
  <1>13. bindings' = LET i == IF I # {} THEN Min(I) ELSE 0
                     IN  IF i = 0 THEN bindings ELSE [bindings EXCEPT ![i].peer = from]
    BY DEF OnReceivedPathChallengeFrame, ReDoUdpConnect, SelectInSeq
  <1>14. I # {} => Min(I) \in I
    <2>1. I \in SUBSET Nat
      BY <1>1
    <2> HIDE DEF I
    <2>2. QED BY <2>1, LeastIn
  <1>15. CASE bindings' = bindings
    BY <1>1, <1>9, <1>10, <1>11, <1>12, <1>15 DEF Answers
  <1>16. CASE bindings' # bindings
    <2>1. PICK i \in I : bindings' = [bindings EXCEPT ![i].peer = from]
      <3> HIDE DEF I
      <3>1. I # {} /\ bindings' = [bindings EXCEPT ![Min(I)].peer = from]
        BY <1>13, <1>16
      <3>2. QED BY <1>14, <3>1
    <2>2. i \in 1..Len(bindings) /\ bindings[i].path = p
      BY <2>1
    <2>3. bindings[i] \in Binding
      BY <1>1, <2>2, ElementOfSeq
    <2>4. PICK b : b = [bindings[i] EXCEPT !.peer = from]
      OBVIOUS
    <2>5. b \in Binding /\ b.sock = bindings[i].sock /\ b.path = bindings[i].path /\ b.peer = from
      BY <2>3, <2>4 DEF Binding
    <2>6. bindings' = [bindings EXCEPT ![i] = b]
      BY <2>1, <2>4
    <2>7. bindings' \in Seq(Binding) /\ Len(bindings') = Len(bindings)
          /\ \A k \in 1..Len(bindings) : bindings'[k] = IF k = i THEN b ELSE bindings[k]
      BY <1>1, <2>2, <2>5, <2>6, ExceptSeq
    <2>8. \A k \in 1..Len(bindings) :
             /\ bindings'[k].sock = bindings[k].sock /\ bindings'[k].path = bindings[k].path
             /\ bindings'[k].peer = bindings[k].peer \/ (bindings[k].path = p /\ bindings'[k].peer = from)
      BY <2>2, <2>5, <2>7
    <2>9. QED BY <1>9, <1>10, <1>11, <1>12, <2>7, <2>8 DEF Answers
  <1>17. QED BY <1>15, <1>16

\* The sockets grow by it.
LEMMA AnswerGrows ==
    ASSUME TypeOK, SocketInv, NEW s, NEW p, NEW from, Answers(s, p, from),
           clt' = clt, manager' = manager
    PROVE  ServerGrows /\ SocketInv'
  <1>1. Len(svr) \in Nat /\ \A t \in 1..Len(svr) : svr[t] \in Clone /\ svr'[t] \in Clone
    BY LenProperties, ElementOfSeq DEF TypeOK, Answers, SameSockets
  <1>2. \A t \in 1..Len(svr) : /\ Len(svr[t].flows) \in Nat /\ svr[t].flows \in Seq(Subflow)
                               /\ Len(svr'[t].flows) \in Nat /\ svr'[t].flows \in Seq(Subflow)
    BY <1>1, LenProperties DEF Clone
  <1>3. /\ Len(svr') = Len(svr)
        /\ \A t \in 1..Len(svr) : /\ svr'[t].conn = svr[t].conn /\ svr'[t].state = svr[t].state
                                  /\ Len(svr'[t].flows) = Len(svr[t].flows)
                                  /\ \A i \in 1..Len(svr[t].flows) :
                                        svr[t].flows[i].active => svr'[t].flows[i].active
    BY DEF Answers, SameSockets
  <1>4. ServerGrows
    BY <1>1, <1>2, <1>3 DEF ServerGrows
  <1>5. svr' # <<>> => manager' > 0
    <2>1. svr = <<>> => Len(svr') = 0
      BY <1>3
    <2>2. svr' \in Seq(Clone)
      BY DEF Answers
    <2>3. svr' # <<>> => svr # <<>>
      BY <2>1, <2>2, EmptySeq
    <2>4. QED BY <2>3 DEF SocketInv
  <1>6. \A k \in 1..Len(bindings') : bindings'[k].sock \in 1..Len(svr')
    BY <1>3 DEF Answers, SocketInv
  <1>7. ASSUME NEW t \in 1..Len(svr')
        PROVE  /\ clt'[svr'[t].conn].state # "IDLE"
               /\ svr'[t].flows # <<>> /\ svr'[t].flows[1].active
               /\ svr'[t].state # "IDLE" =>
                      \E k \in 1..Len(bindings') :
                          /\ bindings'[k].sock = t
                          /\ \A j \in 1..(k - 1) : bindings'[j].sock < t
    <2>1. t \in 1..Len(svr) /\ svr'[t].conn = svr[t].conn /\ svr'[t].state = svr[t].state
      BY <1>3
    <2>2. svr[t].flows # <<>> /\ svr[t].flows[1].active /\ clt[svr[t].conn].state # "IDLE"
      BY <2>1 DEF SocketInv
    <2>3. 1 \in 1..Len(svr[t].flows)
      BY <1>2, <2>1, <2>2, EmptySeq
    <2>4. svr'[t].flows[1].active
      BY <1>3, <2>1, <2>2, <2>3
    <2>5. svr'[t].flows # <<>>
      BY <1>2, <1>3, <2>1, <2>3
    <2>6. ASSUME svr'[t].state # "IDLE"
          PROVE  \E k \in 1..Len(bindings') :
                          /\ bindings'[k].sock = t
                          /\ \A j \in 1..(k - 1) : bindings'[j].sock < t
      <3>1. PICK k \in 1..Len(bindings) :
                    /\ bindings[k].sock = t
                    /\ \A j \in 1..(k - 1) : bindings[j].sock < t
        BY <2>1, <2>6 DEF SocketInv
      <3>2. Len(bindings) \in Nat
        BY LenProperties DEF TypeOK
      <3>3. \A j \in 1..(k - 1) : j \in 1..Len(bindings)
        BY <3>2
      <3>4. /\ Len(bindings') = Len(bindings)
            /\ \A j \in 1..Len(bindings) : bindings'[j].sock = bindings[j].sock
        BY DEF Answers
      <3>5. QED BY <3>1, <3>3, <3>4
    <2>7. QED BY <2>1, <2>2, <2>4, <2>5, <2>6
  <1>8. QED BY <1>4, <1>5, <1>6, <1>7 DEF SocketInv

\* Undisturbed, all further paths are those of one socket.
LEMMA AnswerCalm ==
    ASSUME TypeOK, TypeOK', SocketInv, NEW s \in 1..Len(svr), NEW p \in Nat, p > 0,
           p < Len(svr[s].flows), Answers(s, p, <<home[svr[s].conn], p>>),
           UNCHANGED <<setup, clt, manager, zrtt>>, ClientInv, \A m \in Nodes : auth'[m] = auth[m],
           CalmServer
    PROVE  CalmServer'
  <1>1. Len(svr) \in Nat /\ \A t \in 1..Len(svr) : svr[t] \in Clone
    BY LenProperties, ElementOfSeq DEF TypeOK
  <1>2. \A t \in 1..Len(svr) : Len(svr[t].flows) \in Nat /\ svr[t].conn \in Conns
    BY <1>1, LenProperties DEF Clone
  <1>3. home' = home /\ NPaths' = NPaths
    BY DEF home, NPaths
  <1>4. /\ Len(svr') = Len(svr)
        /\ \A t \in 1..Len(svr) : /\ svr'[t].conn = svr[t].conn /\ svr'[t].state = svr[t].state
                                  /\ Len(svr'[t].flows) = Len(svr[t].flows)
                                  /\ \A i \in 1..Len(svr[t].flows) :
                                        svr'[t].flows[i].id = svr[t].flows[i].id
    BY DEF Answers, SameSockets
  <1>5. \A t, u \in 1..Len(svr') : svr'[t].conn = svr'[u].conn => t = u
    BY <1>4 DEF CalmServer
  <1>6. ASSUME NEW t \in 1..Len(svr')
        PROVE  /\ svr'[t].state = "CONNECTING_SVR" =>
                     /\ t = Len(svr') /\ manager' = t /\ Len(svr'[t].flows) = 1
                     /\ Server \notin zrtt'
               /\ Len(svr'[t].flows) > 1 =>
                     /\ Len(svr'[t].flows) = NPaths' + 1
                     /\ svr'[t].state = "OPEN" /\ Server \in zrtt'
                     /\ clt'[svr'[t].conn].state = "OPEN"
                     /\ <<Server, 0>> \in auth'[home'[svr'[t].conn]]
                     /\ \A u \in 1..Len(svr') : Len(svr'[u].flows) > 1 => u = t
               /\ \A i \in 1..Len(svr'[t].flows) : svr'[t].flows[i].id = i - 1
    <2>1. t \in 1..Len(svr)
      BY <1>4
    <2>2. svr'[t].state = "CONNECTING_SVR" =>
                     /\ t = Len(svr') /\ manager' = t /\ Len(svr'[t].flows) = 1
                     /\ Server \notin zrtt'
      BY <1>4, <2>1 DEF CalmServer
    <2>3. ASSUME Len(svr'[t].flows) > 1
          PROVE  /\ Len(svr'[t].flows) = NPaths' + 1
                 /\ svr'[t].state = "OPEN" /\ Server \in zrtt'
                 /\ clt'[svr'[t].conn].state = "OPEN"
                 /\ <<Server, 0>> \in auth'[home'[svr'[t].conn]]
                 /\ \A u \in 1..Len(svr') : Len(svr'[u].flows) > 1 => u = t
      <3>1. /\ Len(svr[t].flows) = NPaths + 1
            /\ svr[t].state = "OPEN" /\ Server \in zrtt
            /\ clt[svr[t].conn].state = "OPEN"
            /\ <<Server, 0>> \in auth[home[svr[t].conn]]
            /\ \A u \in 1..Len(svr) : Len(svr[u].flows) > 1 => u = t
        BY <1>4, <2>1, <2>3 DEF CalmServer
      <3>2. home[svr[t].conn] \in Nodes
        BY <1>2, <2>1, <3>1, Setting DEF ClientInv, TypeOK
      <3>3. QED BY <1>3, <1>4, <2>1, <3>1, <3>2
    <2>4. \A i \in 1..Len(svr'[t].flows) : svr'[t].flows[i].id = i - 1
      <3>1. \A i \in 1..Len(svr[t].flows) : svr[t].flows[i].id = i - 1
        BY <2>1 DEF CalmServer
      <3>2. QED BY <1>4, <2>1, <3>1
    <2>5. QED BY <2>2, <2>3, <2>4
  <1>7. ASSUME NEW k \in 1..Len(bindings')
        PROVE  /\ bindings'[k].peer[1] = home'[svr'[bindings'[k].sock].conn]
               /\ bindings'[k].path > 0 => Len(svr'[bindings'[k].sock].flows) > 1
    <2>1. k \in 1..Len(bindings) /\ bindings'[k].sock = bindings[k].sock /\ bindings'[k].path = bindings[k].path
      BY DEF Answers
    <2>2. bindings[k].sock \in 1..Len(svr)
      BY <2>1 DEF SocketInv
    <2>3. /\ bindings[k].peer[1] = home[svr[bindings[k].sock].conn]
          /\ bindings[k].path > 0 => Len(svr[bindings[k].sock].flows) > 1
      BY <2>1 DEF CalmServer
    <2>4. /\ svr'[bindings[k].sock].conn = svr[bindings[k].sock].conn
          /\ Len(svr'[bindings[k].sock].flows) = Len(svr[bindings[k].sock].flows)
      BY <1>4, <2>2
    <2>5. CASE bindings'[k].peer = bindings[k].peer
      BY <1>3, <2>1, <2>3, <2>4, <2>5
    <2>6. CASE bindings[k].path = p /\ bindings'[k].peer = <<home[svr[s].conn], p>>
      <3>1. Len(svr[bindings[k].sock].flows) > 1
        BY <2>3, <2>6
      <3>2. Len(svr[s].flows) > 1
        BY <1>2
      <3>3. bindings[k].sock = s
        BY <2>2, <3>1, <3>2 DEF CalmServer
      <3>4. QED BY <1>3, <2>1, <2>3, <2>4, <2>6, <3>3
    <2>7. QED BY <2>1, <2>5, <2>6 DEF Answers
  <1>8. QED BY <1>5, <1>6, <1>7 DEF CalmServer

\* The message list of an answer.
LEMMA OneMessage ==
    ASSUME NEW type \in {"PATH_RESPONSE", "ACK"}, 0 \in Paths, NEW types, types = <<<<type, 0>>>>
    PROVE  Messages(types) /\ Len(types) = 1 /\ types[1][1] = type
  <1>1. Len(types) = 1 /\ types[1] = <<type, 0>>
    OBVIOUS
  <1>2. QED BY <1>1 DEF Messages

\* An answer of socket s on path p: packets of one type, to the address of a
\* binding of the socket.
Answered(n, m, bs, s, p, type) ==
    \E g \in Flow, pkts \in Seq(Packet) :
        /\ g.conn = svr[s].conn /\ g.path = p /\ g.to = "clt" /\ Adds(n, m, g, pkts)
        /\ \A k \in 1..Len(pkts) :
              /\ pkts[k].type = type
              /\ \E b \in 1..Len(bs) : bs[b].sock = s /\ pkts[k].to = bs[b].peer[1]

\* SendPacket sends one.
LEMMA AnswerSent ==
    ASSUME TypeOK, NEW n \in [Flow -> Seq(Packet)], NEW bs \in Seq(Binding),
           NEW s \in 1..Len(svr), NEW p \in Paths, 0 \in Paths,
           NEW type \in {"PATH_RESPONSE", "ACK"},
           NEW m, m = SendPacket(n, bs, s, p, <<<<type, 0>>>>)
    PROVE  Answered(n, m, bs, s, p, type)
  <1>1. PICK types : types = <<<<type, 0>>>>
    OBVIOUS
  <1>2. Messages(types) /\ Len(types) = 1 /\ types[1][1] = type
    BY <1>1, OneMessage
  <1>3. PICK g : g = ToClient(svr[s].conn, p)
    OBVIOUS
  <1>4. m = SendPacket(n, bs, s, p, types)
    BY <1>1
  <1>5. /\ g \in Flow /\ g.conn = svr[s].conn /\ g.path = p /\ g.to = "clt"
        /\ \E pkts \in Seq(Packet) : Adds(n, m, g, pkts) /\ Sends(bs, s, p, types, pkts)
    BY <1>2, <1>3, <1>4, SendPacketAdds
  <1>6. PICK pkts \in Seq(Packet) : Adds(n, m, g, pkts) /\ Sends(bs, s, p, types, pkts)
    BY <1>5
  <1>7. ASSUME NEW k \in 1..Len(pkts)
        PROVE  /\ pkts[k].type = type
               /\ \E b \in 1..Len(bs) : bs[b].sock = s /\ pkts[k].to = bs[b].peer[1]
    <2>1. PICK b \in 1..Len(bs) : /\ k \in 1..Len(types) /\ bs[b].sock = s
                                  /\ pkts[k] = Pkt(types[k][1], types[k][2], bs[b].peer[1])
      BY <1>6 DEF Sends
    <2>2. k = 1
      BY <1>2, <2>1
    <2>3. pkts[k].type = type /\ pkts[k].to = bs[b].peer[1]
      BY <1>2, <2>1, <2>2 DEF Pkt
    <2>4. QED BY <2>1, <2>3
  <1>8. QED BY <1>5, <1>6, <1>7 DEF Answered

\* Undisturbed, the socket has every path its client has.
LEMMA PathInRange ==
    ASSUME TypeOK, SocketInv, CalmServer, CalmClients, NEW s \in 1..Len(svr),
           NEW p \in Nat, p < Len(clt[svr[s].conn].flows)
    PROVE  p < Len(svr[s].flows)
  <1>1. Len(svr) \in Nat /\ \A t \in 1..Len(svr) : svr[t] \in Clone
    BY LenProperties, ElementOfSeq DEF TypeOK
  <1>2. Len(svr[s].flows) \in Nat /\ svr[s].conn \in Conns /\ svr[s].flows \in Seq(Subflow)
    BY <1>1, LenProperties DEF Clone
  <1>3. PICK x \in Nat : x = Len(clt[svr[s].conn].flows)
    <2>1. clt[svr[s].conn] \in Client
      BY <1>2 DEF TypeOK
    <2>2. QED BY <2>1, LenProperties DEF Client
  <1>4. NPaths \in Nat
    BY Setting DEF TypeOK
  <1>5. CASE x > 1
    <2>1. x <= NPaths + 1 /\ Announced(svr[s].conn)
      BY <1>2, <1>3, <1>5 DEF CalmClients
    <2>2. PICK t \in 1..Len(svr) : svr[t].conn = svr[s].conn /\ Len(svr[t].flows) > 1
      BY <2>1 DEF Announced
    <2>3. t = s
      BY <2>2 DEF CalmServer
    <2>4. Len(svr[s].flows) = NPaths + 1
      BY <2>2, <2>3 DEF CalmServer
    <2>5. p < x
      BY <1>3
    <2>6. QED BY <1>4, <2>1, <2>4, <2>5
  <1>6. CASE ~(x > 1)
    <2>1. p < x
      BY <1>3
    <2>2. p = 0
      BY <1>6, <2>1
    <2>3. svr[s].flows # <<>>
      BY DEF SocketInv
    <2>4. Len(svr[s].flows) # 0
      BY <1>2, <2>3, EmptySeq
    <2>5. QED BY <1>2, <2>2, <2>4
  <1>7. QED BY <1>5, <1>6

\* A packet of an open connection arrives.
LEMMA RecvShortKeeps ==
    ASSUME StateInv, Running, NEW n, NEW f, NEW pkt, Arrives(n, f, pkt),
           pkt.type \in {"PATH_CHALLENGE", "DATA"}, f.to = "svr", CalmBefore(n),
           RecvShort(f.conn, f.path, pkt.type, <<home[f.conn], f.path>>, n),
           UNCHANGED <<setup, clt>>, faults' \in 0..MaxFaults
    PROVE  MultipathInv'
  <1> PICK c : c = f.conn
    OBVIOUS
  <1> PICK p : p = f.path
    OBVIOUS
  <1> PICK s : s = SocketOf(c)
    OBVIOUS
  <1> DEFINE ok == Accepts(Server, <<home[c], p>>)
             open == ok /\ s # 0 /\ svr[s].state = "OPEN"
  <1>1. f \in Flow /\ PacketOk(f, pkt) /\ n \in [Flow -> Seq(Packet)]
    BY DEF Arrives
  <1>2. c \in Conns /\ p \in Paths
    BY <1>1 DEF Flow
  <1>3. clt[c].state = "OPEN" /\ p < Len(clt[c].flows) /\ (pkt.type = "PATH_CHALLENGE" => p > 0)
    BY <1>1 DEF PacketOk
  <1>4. 0 \in Paths /\ c \in DOMAIN home /\ home[c] \in Nodes /\ TypeOK /\ setup \in Setups /\ p \in Nat
    BY <1>2, <1>3, Setting DEF StateInv, TypeOK, ClientInv
  <1>5. /\ auth' = auth \/ auth' = Authenticated(Server, <<home[c], p>>)
        /\ fatal' = (ok /\ s = 0)
        /\ corrupt' = (open /\ ~(p < Len(svr[s].flows)))
        /\ UNCHANGED <<manager, zrtt, overlap, race>>
    BY DEF RecvShort, InRange
  <1>6. /\ auth' \in [Nodes \cup {Server} -> SUBSET (Address \cup ({Server} \X Paths))]
        /\ \A m \in Nodes : auth'[m] = auth[m]
    BY <1>2, <1>4, <1>5, AuthAtServer
  <1>7. s = 0 \/ (s \in 1..Len(svr) /\ svr[s].conn = c)
    BY <1>4, SocketFound DEF StateInv
  <1>8. IF open /\ ~corrupt' /\ pkt.type = "PATH_CHALLENGE"
        THEN OnReceivedPathChallengeFrame(s, p, <<home[c], p>>, n)
        ELSE /\ net' = IF open /\ ~corrupt' THEN SendPacket(n, bindings, s, p, <<<<"ACK", 0>>>>)
                       ELSE n
             /\ UNCHANGED <<svr, bindings>>
    BY DEF RecvShort, InRange
  <1>9. fatal' \in BOOLEAN /\ corrupt' \in BOOLEAN
    BY <1>5
  <1> HIDE DEF ok
  <1>10. ErrorInv'
    <2>1. ASSUME Undisturbed' PROVE ~corrupt'
      <3>1. CalmServer /\ CalmClients
        BY <2>1 DEF CalmBefore
      <3>2. ASSUME open PROVE p < Len(svr[s].flows)
        BY <1>3, <1>4, <1>7, <3>1, <3>2, PathInRange DEF StateInv
      <3>3. QED BY <1>5, <3>2
    <2>2. ASSUME Undisturbed', fatal' PROVE Shared'
      <3>1. s = 0 /\ ~open
        BY <1>5, <2>2
      <3>2. svr' = svr
        BY <1>8, <3>1
      <3>3. \A t \in 1..Len(svr) : svr[t].state # "IDLE"
        BY <2>2, <3>2 DEF Undisturbed
      <3>4. Shared
        BY <1>2, <1>3, <3>1, <3>3, NotServed
      <3>5. home' = home /\ clt' = clt
        BY DEF home
      <3>6. QED BY <3>4, <3>5 DEF Shared
    <2>3. QED BY <2>1, <2>2 DEF ErrorInv
  <1>11. CASE ~(open /\ ~corrupt')
    <2>1. net' = n /\ UNCHANGED <<svr, bindings>>
      BY <1>8, <1>11
    <2>2. UNCHANGED <<server, zrtt, race>>
      BY <1>5, <2>1 DEF server
    <2>3. Adds(n, net', f, <<>>) /\ \A k \in 1..Len(<<>>) : FALSE
      BY <1>1, <2>1, NothingAdds
    <2>4. TypeOK'
      BY <1>1, <1>4, <1>5, <1>6, <1>9, <2>1 DEF TypeOK
    <2>5. QED BY <1>1, <1>6, <1>10, <2>2, <2>3, <2>4, QuietDone
  <1>12. CASE open /\ ~corrupt' /\ pkt.type # "PATH_CHALLENGE"
    <2>1. net' = SendPacket(n, bindings, s, p, <<<<"ACK", 0>>>>) /\ UNCHANGED <<svr, bindings>>
      BY <1>8, <1>12
    <2>2. UNCHANGED <<server, zrtt, race>>
      BY <1>5, <2>1 DEF server
    <2>3. PICK m : m = net'
      OBVIOUS
    <2>4. s \in 1..Len(svr) /\ svr[s].conn = c /\ bindings \in Seq(Binding)
      BY <1>4, <1>7, <1>12 DEF TypeOK
    <2>5. PICK bs \in Seq(Binding) : bs = bindings
      BY <2>4
    <2>6. m = SendPacket(n, bs, s, p, <<<<"ACK", 0>>>>)
      BY <2>1, <2>3, <2>5
    <2>7. Answered(n, m, bs, s, p, "ACK")
      BY <1>1, <1>2, <1>4, <2>4, <2>6, AnswerSent
    <2>8. PICK g \in Flow, pkts \in Seq(Packet) :
              /\ g.conn = c /\ g.path = p /\ g.to = "clt" /\ Adds(n, net', g, pkts)
              /\ \A k \in 1..Len(pkts) :
                    /\ pkts[k].type = "ACK"
                    /\ \E b \in 1..Len(bindings) : bindings[b].sock = s /\ pkts[k].to = bindings[b].peer[1]
      BY <2>3, <2>4, <2>5, <2>7 DEF Answered
    <2>9. TypeOK'
      <3>1. net' \in [Flow -> Seq(Packet)]
        BY <2>8 DEF Adds
      <3>2. QED BY <1>4, <1>5, <1>6, <1>9, <2>1, <3>1 DEF TypeOK
    <2>10. ASSUME NEW k \in 1..Len(pkts)
           PROVE  /\ PacketOk(g, pkts[k])' /\ ~Opening(pkts[k])
                  /\ pkts[k].type # "ADD_ADDRESS"
      <3>1. HasSocket(c)'
        BY <2>1, <2>4 DEF HasSocket
      <3>2. pkts[k].type = "ACK" /\ clt' = clt
        BY <2>8
      <3>3. PacketOk(g, pkts[k])'
        BY <1>3, <2>8, <3>1, <3>2 DEF PacketOk
      <3>4. QED BY <3>2, <3>3 DEF Opening
    <2>11. ASSUME Undisturbed', NEW k \in 1..Len(pkts)
           PROVE  /\ pkts[k].to = home[g.conn]
                  /\ \A t \in 1..Len(svr) :
                        svr[t].conn = g.conn => svr[t].state # "CONNECTING_SVR"
      <3>1. CalmServer
        BY <2>11 DEF CalmBefore
      <3>2. PICK b \in 1..Len(bindings) : bindings[b].sock = s /\ pkts[k].to = bindings[b].peer[1]
        BY <2>8
      <3>3. pkts[k].to = home[g.conn]
        BY <2>4, <2>8, <3>1, <3>2 DEF CalmServer
      <3>4. \A t \in 1..Len(svr) : svr[t].conn = g.conn => t = s
        BY <2>4, <2>8, <3>1 DEF CalmServer
      <3>5. QED BY <1>12, <3>3, <3>4
    <2>12. QED BY <1>6, <1>10, <2>2, <2>8, <2>9, <2>10, <2>11, QuietDone
  <1>13. CASE open /\ ~corrupt' /\ pkt.type = "PATH_CHALLENGE"
    <2>1. OnReceivedPathChallengeFrame(s, p, <<home[c], p>>, n) /\ p > 0
      BY <1>3, <1>8, <1>13
    <2>2. s \in 1..Len(svr) /\ svr[s].conn = c /\ p < Len(svr[s].flows) /\ svr[s].state = "OPEN"
      BY <1>5, <1>7, <1>13
    <2>3. <<home[c], p>> \in Address
      BY <1>2, <1>4 DEF Address
    <2>4. Answers(s, p, <<home[c], p>>)
      BY <1>4, <2>1, <2>2, <2>3, ChallengeAnswers
    <2>5. ServerGrows /\ SocketInv'
      BY <1>4, <1>5, <2>4, AnswerGrows DEF StateInv
    <2>6. PICK bs \in Seq(Binding) : bs = bindings'
      BY <2>4 DEF Answers
    <2>7. PICK m : m = net'
      OBVIOUS
    <2>8. m = SendPacket(n, bs, s, p, <<<<"PATH_RESPONSE", 0>>>>)
      BY <2>1, <2>6, <2>7 DEF OnReceivedPathChallengeFrame
    <2>9. Answered(n, m, bs, s, p, "PATH_RESPONSE")
      BY <1>1, <1>2, <1>4, <2>2, <2>8, AnswerSent
    <2>10. PICK g \in Flow, pkts \in Seq(Packet) :
              /\ g.conn = c /\ g.path = p /\ g.to = "clt" /\ Adds(n, net', g, pkts)
              /\ \A k \in 1..Len(pkts) :
                    /\ pkts[k].type = "PATH_RESPONSE"
                    /\ \E b \in 1..Len(bindings') : bindings'[b].sock = s /\ pkts[k].to = bindings'[b].peer[1]
      BY <2>2, <2>6, <2>7, <2>9 DEF Answered
    <2>11. TypeOK'
      <3>1. net' \in [Flow -> Seq(Packet)]
        BY <2>10 DEF Adds
      <3>2. svr' \in Seq(Clone) /\ Len(svr') = Len(svr) /\ bindings' \in Seq(Binding)
        BY <2>4 DEF Answers, SameSockets
      <3>3. QED BY <1>4, <1>5, <1>6, <1>9, <3>1, <3>2 DEF TypeOK
    <2>12. Validated(c, p)'
      <3>1. \A t \in 1..Len(svr) : svr[t].conn = c => t = s
        <4>1. SocketInv /\ FirstStuck
          BY DEF StateInv, Arrives, OpeningInv
        <4>2. SocketOf(c) # 0 /\ svr[SocketOf(c)].state # "CONNECTING_SVR"
          BY <1>13, <2>2
        <4>3. QED BY <1>4, <4>1, <4>2, FoundFirst
      <3>2. Len(svr) \in Nat
        BY <1>4, LenProperties DEF TypeOK
      <3>3. \A t \in 1..(s - 1) : t \in 1..Len(svr) /\ t # s
        BY <2>2, <3>2
      <3>4. /\ Len(svr') = Len(svr)
            /\ \A t \in 1..Len(svr) : svr'[t].conn = svr[t].conn /\ svr'[t].state = svr[t].state
            /\ Len(svr'[s].flows) = Len(svr[s].flows)
            /\ svr'[s].flows[p + 1].active
        BY <2>2, <2>4 DEF Answers, SameSockets
      <3>5. \A t \in 1..(s - 1) : svr'[t].conn # c
        BY <3>1, <3>3, <3>4
      <3>6. s \in 1..Len(svr') /\ svr'[s].conn = c /\ svr'[s].state = "OPEN"
        BY <2>2, <3>4
      <3>7. QED BY <2>2, <3>4, <3>5, <3>6 DEF Validated
    <2>13. ASSUME NEW k \in 1..Len(pkts)
           PROVE  PacketOk(g, pkts[k])' /\ ~Opening(pkts[k]) /\ pkts[k].type = "PATH_RESPONSE"
      <3>1. HasSocket(c)'
        BY <2>12 DEF Validated, HasSocket
      <3>2. pkts[k].type = "PATH_RESPONSE" /\ clt' = clt
        BY <2>10
      <3>3. PacketOk(g, pkts[k])'
        BY <1>3, <2>10, <2>12, <3>1, <3>2 DEF PacketOk
      <3>4. QED BY <3>2, <3>3 DEF Opening
    <2>14. OpeningInv(net)'
      BY <2>4, <2>10, <2>13, OpeningKept DEF Answers, Arrives
    <2>15. ASSUME Undisturbed' PROVE CalmServer' /\ CalmWires(net)'
      <3>1. CalmServer /\ CalmWires(n)
        BY <2>15 DEF CalmBefore
      <3>2. Answers(s, p, <<home[svr[s].conn], p>>)
        BY <2>2, <2>4
      <3>3. SocketInv /\ ClientInv
        BY DEF StateInv
      <3>4. CalmServer'
        BY <1>4, <1>5, <1>6, <2>1, <2>2, <2>11, <3>1, <3>2, <3>3, AnswerCalm
      <3>5. Len(svr') = Len(svr) /\ \A t \in 1..Len(svr) : svr'[t].conn = svr[t].conn /\ svr'[t].state = svr[t].state
        BY <2>4 DEF Answers, SameSockets
      <3>6. CalmWires(n)'
        <4>1. Len(svr) \in Nat
          BY <1>4, LenProperties DEF TypeOK
        <4>2. \A t \in 1..Len(svr') : ~(t > Len(svr))
          BY <3>5, <4>1
        <4>3. QED BY <1>4, <2>5, <2>11, <3>1, <4>2, CalmKept
      <3>7. ASSUME NEW k \in 1..Len(pkts)
            PROVE  /\ pkts[k].to = home'[g.conn]
                   /\ pkts[k].type # "ADD_ADDRESS"
                   /\ \A t \in 1..Len(svr') : svr'[t].conn = g.conn => svr'[t].state # "CONNECTING_SVR"
        <4>1. PICK b \in 1..Len(bindings') : bindings'[b].sock = s /\ pkts[k].to = bindings'[b].peer[1]
          BY <2>10
        <4>2. bindings'[b].peer[1] = home'[svr'[bindings'[b].sock].conn]
          BY <3>4 DEF CalmServer
        <4>3. pkts[k].to = home'[g.conn]
          BY <2>2, <2>10, <3>5, <4>1, <4>2
        <4>4. \A t \in 1..Len(svr) : svr[t].conn = c => t = s
          BY <2>2, <3>1 DEF CalmServer
        <4>5. QED BY <2>2, <2>10, <2>13, <3>5, <4>3, <4>4
      <3>8. CalmWires(net)'
        BY <2>10, <3>6, <3>7, CalmAdds
      <3>9. QED BY <3>4, <3>8
    <2>16. \A q \in Nodes : auth'[q] = auth[q] /\ (q \in zrtt' <=> q \in zrtt)
      BY <1>5, <1>6
    <2>17. QED BY <1>5, <1>10, <2>5, <2>10, <2>11, <2>13, <2>14, <2>15, <2>16, ServerDone
  <1>14. QED BY <1>11, <1>12, <1>13

\* A packet arrives at the server.
LEMMA ForwardUpKeeps ==
    ASSUME StateInv, Running, NEW n, NEW f, NEW pkt, Arrives(n, f, pkt), f.to = "svr",
           CalmBefore(n), ForwardUp(f.conn, f.path, pkt, n),
           setup' = setup, faults' \in 0..MaxFaults
    PROVE  MultipathInv'
  <1>1. UNCHANGED <<setup, clt>>
    BY DEF ForwardUp
  <1>2. pkt.type \in {"INITIAL", "HANDSHAKE", "ZRTT", "PATH_CHALLENGE", "DATA"}
    BY DEF Arrives, PacketOk
  <1>3. CASE pkt.type = "INITIAL"
    BY <1>1, <1>3, RecvInitialKeeps DEF ForwardUp
  <1>4. CASE pkt.type = "HANDSHAKE"
    BY <1>1, <1>4, RecvHandshakeKeeps DEF ForwardUp
  <1>5. CASE pkt.type = "ZRTT"
    BY <1>1, <1>5, RecvZrttKeeps DEF ForwardUp
  <1>6. CASE pkt.type \in {"PATH_CHALLENGE", "DATA"}
    <2>1. RecvShort(f.conn, f.path, pkt.type, <<home[f.conn], f.path>>, n)
      BY <1>6 DEF ForwardUp
    <2>2. QED BY <1>1, <1>6, <2>1, RecvShortKeeps
  <1>7. QED BY <1>2, <1>3, <1>4, <1>5, <1>6

-----------------------------------------------------------------------------
\* What is left to show for a step of a client.
LEMMA ClientDone ==
    ASSUME StateInv, TypeOK', ClientsGrow, UNCHANGED <<setup, server>>,
           \A m \in Nodes : auth[m] \subseteq auth'[m],
           Server \in zrtt' <=> Server \in zrtt,
           ClientInv', NodeInv', ValidInv', ServedInv',
           NEW n \in [Flow -> Seq(Packet)], PacketInv(n), Undisturbed' => CalmServer,
           NEW g \in Flow, NEW pkts, Adds(n, net', g, pkts),
           \A k \in 1..Len(pkts) : PacketOk(g, pkts[k])',
           OpeningInv(net)', ErrorInv',
           Undisturbed' => CalmClients' /\ CalmWires(net)'
    PROVE  MultipathInv'
  <1>1. Grows /\ SocketInv' /\ (CalmServer => CalmServer')
    BY ClientSide DEF StateInv
  <1>2. PacketInv(net)'
    BY <1>1, PacketsStep DEF StateInv
  <1>3. CalmInv(net)'
    BY <1>1 DEF CalmInv
  <1>4. QED BY <1>1, <1>2, <1>3 DEF MultipathInv, ErrorInv

\* A packet of the handshake is sent, the only one of its connection.
LEMMA OpeningSent ==
    ASSUME NEW n \in [Flow -> Seq(Packet)], OpeningInv(n), svr' = svr,
           NEW g \in Flow, NEW p \in Packet, Adds(n, net', g, <<p>>),
           \A h \in Flow : \A j \in 1..Len(n[h]) : h.conn = g.conn => ~Opening(n[h][j]),
           \A s \in 1..Len(svr) : svr[s].conn = g.conn =>
               /\ p.type # "INITIAL"
               /\ svr[s].state = "CONNECTING_SVR"
               /\ \A t \in 1..Len(svr) : svr[t].conn = g.conn => t = s
    PROVE  OpeningInv(net)'
  <1>1. \A h \in Flow : Len(n[h]) \in Nat /\ Len(net'[h]) \in Nat
    BY LenProperties DEF Adds
  <1>2. ASSUME NEW h \in Flow, NEW j \in 1..Len(net'[h])
        PROVE  \/ j \in 1..Len(n[h]) /\ net'[h][j] = n[h][j]
               \/ h = g /\ j = Len(n[g]) + 1 /\ net'[h][j] = p
    <2>1. CASE h = g /\ j > Len(n[g]) /\ j - Len(n[g]) \in 1..Len(<<p>>)
               /\ net'[h][j] = <<p>>[j - Len(n[g])]
      <3>1. j - Len(n[g]) = 1
        BY <2>1, OnePacket
      <3>2. j = Len(n[g]) + 1
        BY <3>1, <1>1
      <3>3. QED BY <2>1, <3>1, <3>2, OnePacket
    <2>2. QED BY <2>1 DEF Adds
  <1>3. OneOpening(net)'
    <2> SUFFICES ASSUME NEW h \in Flow, NEW k \in Flow,
                        NEW j \in 1..Len(net'[h]), NEW l \in 1..Len(net'[k]),
                        Opening(net'[h][j]), Opening(net'[k][l]), h.conn = k.conn
                 PROVE  h = k /\ j = l
      BY DEF OneOpening, Opening
    <2>1. OneOpening(n)
      BY DEF OpeningInv
    <2>2. CASE j \in 1..Len(n[h]) /\ net'[h][j] = n[h][j] /\ l \in 1..Len(n[k]) /\ net'[k][l] = n[k][l]
      BY <2>1, <2>2 DEF OneOpening
    <2>3. CASE j \in 1..Len(n[h]) /\ net'[h][j] = n[h][j] /\ k = g
      BY <2>3
    <2>4. CASE l \in 1..Len(n[k]) /\ net'[k][l] = n[k][l] /\ h = g
      BY <2>4
    <2>5. QED BY <1>2, <2>2, <2>3, <2>4
  <1>4. OneSocket(net)'
    <2> SUFFICES ASSUME NEW h \in Flow, NEW j \in 1..Len(net'[h]), NEW s \in 1..Len(svr),
                        Opening(net'[h][j]), svr[s].conn = h.conn
                 PROVE  /\ net'[h][j].type # "INITIAL"
                        /\ svr[s].state = "CONNECTING_SVR"
                        /\ \A t \in 1..Len(svr) : svr[t].conn = h.conn => t = s
      BY DEF OneSocket, Opening
    <2>1. CASE j \in 1..Len(n[h]) /\ net'[h][j] = n[h][j]
      <3>1. OneSocket(n) /\ Opening(n[h][j])
        BY <2>1 DEF OpeningInv
      <3>2. QED BY <2>1, <3>1 DEF OneSocket
    <2>2. CASE h = g /\ net'[h][j] = p
      BY <2>2
    <2>3. QED BY <1>2, <2>1, <2>2
  <1>5. FirstStuck'
    BY DEF FirstStuck, OpeningInv
  <1>6. QED BY <1>3, <1>4, <1>5 DEF OpeningInv

\* An address is taken for authenticated at node m.
LEMMA AuthAt ==
    ASSUME TypeOK, NEW m \in Nodes \cup {Server}, NEW p \in Paths,
           auth' = auth \/ auth' = Authenticated(m, <<Server, p>>)
    PROVE  /\ auth' \in [Nodes \cup {Server} -> SUBSET (Address \cup ({Server} \X Paths))]
           /\ \A k \in Nodes : auth[k] \subseteq auth'[k]
           /\ \A k \in Nodes : k # m => auth'[k] = auth[k]
           /\ auth' = Authenticated(m, <<Server, p>>) => <<Server, p>> \in auth'[m]
  <1> DEFINE V == SUBSET (Address \cup ({Server} \X Paths))
  <1>1. auth \in [Nodes \cup {Server} -> V]
    BY DEF TypeOK
  <1>2. auth[m] \cup {<<Server, p>>} \in V
    <2>1. auth[m] \in V
      BY <1>1
    <2>2. QED BY <2>1
  <1> HIDE DEF V
  <1>3. CASE auth' = Authenticated(m, <<Server, p>>)
    <2>1. auth' = [auth EXCEPT ![m] = auth[m] \cup {<<Server, p>>}]
      BY <1>3 DEF Authenticated
    <2>2. auth' \in [Nodes \cup {Server} -> V] /\ auth'[m] = auth[m] \cup {<<Server, p>>}
      BY <1>1, <1>2, <2>1
    <2>3. \A k \in Nodes : k # m => auth'[k] = auth[k]
      BY <1>1, <2>1
    <2>4. \A k \in Nodes : auth[k] \subseteq auth'[k]
      BY <2>2, <2>3
    <2>5. QED BY <2>2, <2>3, <2>4 DEF V
  <1>4. CASE auth' = auth /\ auth' # Authenticated(m, <<Server, p>>)
    BY <1>1, <1>4 DEF V
  <1>5. QED BY <1>3, <1>4

\* Nodes know the server from an open connection of their own.
LEMMA NodeKept ==
    ASSUME TypeOK, NodeInv, ClientsGrow, setup' = setup,
           \A m \in Nodes : auth'[m] # auth[m] \/ (m \in zrtt' /\ m \notin zrtt) =>
               \E c \in DOMAIN home : home[c] = m /\ clt'[c].state = "OPEN"
    PROVE  NodeInv'
  <1>1. home' = home /\ DOMAIN home \subseteq Conns
    BY Setting DEF home, TypeOK
  <1> SUFFICES ASSUME NEW m \in Nodes, m \in zrtt' \/ auth'[m] # {}
               PROVE  \E c \in DOMAIN home : home[c] = m /\ clt'[c].state = "OPEN"
    BY <1>1 DEF NodeInv
  <1>2. CASE m \in zrtt \/ auth[m] # {}
    <2>1. PICK c \in DOMAIN home : home[c] = m /\ clt[c].state = "OPEN"
      BY <1>2 DEF NodeInv
    <2>2. QED BY <1>1, <2>1 DEF ClientsGrow
  <1>3. QED BY <1>2

\* No client has changed its state.
LEMMA ServedKept ==
    ASSUME TypeOK, ServedInv, setup' = setup, svr' = svr,
           \A c \in Conns : clt'[c].state = clt[c].state
    PROVE  ServedInv'
  <1>1. home' = home /\ DOMAIN home \subseteq Conns
    BY Setting DEF home, TypeOK
  <1>2. Shared => Shared'
    BY <1>1 DEF Shared
  <1>3. QED BY <1>2 DEF ServedInv, HasSocket

\* What the server has validated is as before.
LEMMA ValidSame ==
    ASSUME svr' = svr
    PROVE  \A c, p : /\ Validated(c, p)' <=> Validated(c, p)
                     /\ Announced(c)' <=> Announced(c)
  BY DEF Validated, Announced

\* No client has learnt a path.
LEMMA CalmClientsKept ==
    ASSUME setup' = setup, svr' = svr, CalmClients,
           \A d \in Conns : /\ Len(clt'[d].flows) = Len(clt[d].flows)
                            /\ \A i \in 1..Len(clt[d].flows) :
                                  clt'[d].flows[i].id = clt[d].flows[i].id
    PROVE  CalmClients'
  <1> SUFFICES ASSUME NEW d \in Conns
               PROVE  /\ \A i \in 1..Len(clt'[d].flows) : clt'[d].flows[i].id = i - 1
                      /\ Len(clt'[d].flows) > 1 =>
                            Len(clt'[d].flows) <= NPaths' + 1 /\ Announced(d)'
    BY DEF CalmClients
  <1>1. NPaths' = NPaths
    BY DEF NPaths
  <1>2. /\ \A i \in 1..Len(clt[d].flows) : clt[d].flows[i].id = i - 1
        /\ Len(clt[d].flows) > 1 => Len(clt[d].flows) <= NPaths + 1 /\ Announced(d)
    BY DEF CalmClients
  <1>3. Announced(d) => Announced(d)'
    BY ValidSame
  <1>4. QED BY <1>1, <1>2, <1>3

\* The handshake message of the server arrives.
LEMMA RecvServerHandshakeKeeps ==
    ASSUME StateInv, Running, NEW n, NEW f, NEW pkt, Arrives(n, f, pkt),
           pkt.type = "HANDSHAKE", f.to = "clt", CalmBefore(n),
           RecvServerHandshake(f.conn, n), UNCHANGED <<setup, server, overlap>>,
           faults' \in 0..MaxFaults
    PROVE  MultipathInv'
  <1> PICK c : c = f.conn
    OBVIOUS
  <1> PICK g : g = ToServer(c, 0)
    OBVIOUS
  <1> PICK hs : hs = Pkt(FirstHeader(c), 0, Server)
    OBVIOUS
  <1>1. f \in Flow /\ Opening(pkt) /\ PacketOk(f, pkt) /\ n \in [Flow -> Seq(Packet)] /\ PacketInv(n)
    BY DEF Arrives, Opening
  <1>2. c \in Conns /\ f.path \in Paths
    BY <1>1 DEF Flow
  <1>3. f.path = 0 /\ clt[c].state # "IDLE" /\ 0 < Len(clt[c].flows) /\ HasSocket(c)
    BY <1>1 DEF PacketOk
  <1>4. 0 \in Paths /\ c \in DOMAIN home /\ home[c] \in Nodes /\ TypeOK /\ setup \in Setups
        /\ Server \notin Nodes
    BY <1>2, <1>3, Setting DEF StateInv, TypeOK, ClientInv
  <1>5. /\ clt' = [clt EXCEPT ![c].state = "OPEN"]
        /\ auth' = Authenticated(home[c], <<Server, 0>>)
        /\ net' = Put(n, g, <<hs>>)
        /\ UNCHANGED <<zrtt, fatal, corrupt, race>>
    BY DEF RecvServerHandshake
  <1>6. svr' = svr /\ bindings' = bindings /\ manager' = manager /\ home' = home /\ NPaths' = NPaths
    BY DEF server, home, NPaths
  <1>7. clt \in [Conns -> Client] /\ clt[c] \in Client
    BY <1>2, <1>4 DEF TypeOK
  <1>8. PICK x : x = [clt[c] EXCEPT !.state = "OPEN"]
    OBVIOUS
  <1>9. x \in Client /\ x.state = "OPEN" /\ x.flows = clt[c].flows /\ x.stray = clt[c].stray
    BY <1>7, <1>8 DEF Client
  <1>10. /\ clt' \in [Conns -> Client] /\ clt'[c] = x
         /\ \A d \in Conns : d # c => clt'[d] = clt[d]
    BY <1>2, <1>5, <1>7, <1>8, <1>9
  <1>11. \A d \in Conns : /\ clt'[d].flows = clt[d].flows /\ clt'[d].stray = clt[d].stray
                          /\ clt'[d].state = IF d = c THEN "OPEN" ELSE clt[d].state
                          /\ Len(clt[d].flows) \in Nat
    <2>1. \A d \in Conns : Len(clt[d].flows) \in Nat
      BY <1>7, LenProperties DEF Client
    <2>2. QED BY <2>1, <1>9, <1>10
  <1>12. ClientsGrow
    BY <1>11 DEF ClientsGrow
  <1>13. /\ auth' \in [Nodes \cup {Server} -> SUBSET (Address \cup ({Server} \X Paths))]
         /\ \A k \in Nodes : auth[k] \subseteq auth'[k]
         /\ \A k \in Nodes : k # home[c] => auth'[k] = auth[k]
         /\ <<Server, 0>> \in auth'[home[c]]
    BY <1>4, <1>5, AuthAt
  <1>14. hs \in Packet /\ hs.type \in {"ZRTT", "HANDSHAKE"}
    BY <1>4 DEF FirstHeader, Pkt, Packet
  <1>15. g \in Flow /\ g.conn = c /\ g.path = 0 /\ g.to = "svr"
    BY <1>2, <1>4 DEF ToServer, Flow
  <1>16. Adds(n, net', g, <<hs>>)
    BY <1>1, <1>5, <1>14, <1>15, OnePacket, PutAdds
  <1>17. TypeOK'
    <2>1. net' \in [Flow -> Seq(Packet)]
      BY <1>16 DEF Adds
    <2>2. QED BY <1>4, <1>5, <1>6, <1>10, <1>13, <2>1 DEF TypeOK
  <1>18. ClientInv'
    <2> SUFFICES ASSUME NEW d \in Conns
                 PROVE  /\ clt'[d].stray => race
                        /\ clt'[d].state = "IDLE" => clt'[d].flows = <<>>
                        /\ clt'[d].state # "IDLE" => /\ d \in DOMAIN home
                                                     /\ clt'[d].flows # <<>>
                                                     /\ clt'[d].flows[1].active
                        /\ race \/ \A i, j \in 1..Len(clt'[d].flows) :
                              i < j /\ clt'[d].flows[j].active => clt'[d].flows[i].active
      BY <1>5, <1>6 DEF ClientInv
    <2>1. QED BY <1>3, <1>11 DEF StateInv, ClientInv
  <1>19. NodeInv'
    <2>1. \A m \in Nodes : auth'[m] # auth[m] \/ (m \in zrtt' /\ m \notin zrtt) =>
               \E d \in DOMAIN home : home[d] = m /\ clt'[d].state = "OPEN"
      BY <1>2, <1>4, <1>5, <1>11, <1>13
    <2>2. QED BY <1>4, <1>12, <2>1, NodeKept DEF StateInv
  <1>20. ValidInv'
    BY <1>6, <1>11, ValidSame DEF StateInv, ValidInv
  <1>21. ServedInv'
    <2>1. Shared => Shared'
      BY <1>4, <1>12, SharedKept
    <2>2. \A d \in Conns : HasSocket(d) => HasSocket(d)'
      BY <1>6 DEF HasSocket
    <2>3. QED BY <1>3, <1>11, <2>1, <2>2 DEF StateInv, ServedInv
  <1>22. ASSUME NEW k \in 1..Len(<<hs>>) PROVE PacketOk(g, <<hs>>[k])'
    <2>1. k = 1 /\ <<hs>>[k] = hs
      BY <1>14, OnePacket
    <2>2. clt'[c].state = "OPEN" /\ 0 < Len(clt'[c].flows)
      BY <1>2, <1>3, <1>11
    <2>3. PacketOk(g, hs)'
      BY <1>6, <1>13, <1>14, <1>15, <2>2 DEF PacketOk
    <2>4. QED BY <2>1, <2>3
  <1>23. OpeningInv(net)'
    <2>1. /\ \A h \in Flow : \A j \in 1..Len(n[h]) : h.conn = g.conn => ~Opening(n[h][j])
          /\ \A s \in 1..Len(svr) : svr[s].conn = g.conn =>
               /\ hs.type # "INITIAL"
               /\ svr[s].state = "CONNECTING_SVR"
               /\ \A t \in 1..Len(svr) : svr[t].conn = g.conn => t = s
      BY <1>1, <1>14, <1>15 DEF Arrives
    <2>2. OpeningInv(n)
      BY DEF Arrives
    <2>3. QED BY <1>1, <1>6, <1>14, <1>15, <1>16, <2>1, <2>2, OpeningSent
  <1>24. ErrorInv'
    BY <1>5, NoError
  <1>25. ASSUME Undisturbed' PROVE CalmClients' /\ CalmWires(net)'
    <2>1. CalmServer /\ CalmClients /\ CalmWires(n)
      BY <1>25 DEF CalmBefore
    <2>2. CalmClients'
      BY <1>6, <1>11, <2>1, CalmClientsKept
    <2>3. ServerGrows
      BY <1>4, <1>12, <1>13, <1>17, <1>5, ClientSide DEF StateInv, Grows
    <2>4. \A s \in 1..Len(svr') : ~(s > Len(svr))
      <3>1. Len(svr) \in Nat
        BY <1>4, LenProperties DEF TypeOK
      <3>2. QED BY <1>6, <3>1
    <2>5. CalmWires(n)'
      BY <1>4, <1>11, <1>17, <2>1, <2>3, <2>4, CalmKept
    <2>6. CalmWires(net)'
      BY <1>15, <1>16, <2>5, CalmAdds
    <2>7. QED BY <2>2, <2>6
  <1>26. QED BY <1>1, <1>5, <1>12, <1>13, <1>15, <1>16, <1>17, <1>18, <1>19, <1>20, <1>21,
                <1>22, <1>23, <1>24, <1>25, ClientDone DEF CalmBefore

\* What is left to show for a packet of an open connection at a client, which
\* changes no client's state.
LEMMA ShortDone ==
    ASSUME StateInv, TypeOK', ClientInv', ValidInv', ErrorInv',
           UNCHANGED <<setup, server>>, NEW n, NEW f, NEW pkt, Arrives(n, f, pkt), ~Opening(pkt),
           \A d \in Conns : /\ clt'[d].state = clt[d].state
                            /\ Len(clt[d].flows) <= Len(clt'[d].flows),
           NEW m \in Nodes \cup {Server}, NEW p \in Paths,
           auth' = auth \/ auth' = Authenticated(m, <<Server, p>>),
           auth' # auth => Accepts(m, <<Server, p>>),
           zrtt' = zrtt \/ (zrtt' = zrtt \cup {home[f.conn]} /\ clt[f.conn].state = "OPEN"),
           NEW g \in Flow, NEW pkts, Adds(n, net', g, pkts),
           \A k \in 1..Len(pkts) : PacketOk(g, pkts[k])' /\ ~Opening(pkts[k]),
           Undisturbed' => CalmServer /\ CalmClients' /\ CalmWires(net)'
    PROVE  MultipathInv'
  <1>1. f \in Flow /\ f.conn \in Conns /\ PacketOk(f, pkt) /\ n \in [Flow -> Seq(Packet)] /\ PacketInv(n)
    BY DEF Arrives, Flow
  <1>2. clt[f.conn].state # "IDLE"
    BY <1>1 DEF PacketOk
  <1>3. f.conn \in DOMAIN home /\ home[f.conn] \in Nodes /\ TypeOK /\ Server \notin Nodes
    BY <1>1, <1>2, Setting DEF StateInv, TypeOK, ClientInv
  <1>4. svr' = svr
    BY DEF server
  <1>5. ClientsGrow
    BY DEF ClientsGrow
  <1>6. /\ \A k \in Nodes : auth[k] \subseteq auth'[k]
        /\ \A k \in Nodes : k # m => auth'[k] = auth[k]
    BY <1>3, AuthAt
  <1>7. ServedInv'
    BY <1>3, <1>4, ServedKept DEF StateInv
  <1>8. NodeInv'
    <2> SUFFICES ASSUME NEW k \in Nodes, auth'[k] # auth[k] \/ (k \in zrtt' /\ k \notin zrtt)
                 PROVE  \E c \in DOMAIN home : home[c] = k /\ clt'[c].state = "OPEN"
      BY <1>3, <1>5, NodeKept DEF StateInv
    <2>1. CASE auth'[k] # auth[k]
      <3>1. k = m /\ (auth[k] # {} \/ k \in zrtt)
        BY <1>6, <2>1 DEF Accepts
      <3>2. PICK c \in DOMAIN home : home[c] = k /\ clt[c].state = "OPEN"
        BY <3>1 DEF StateInv, NodeInv
      <3>3. c \in Conns
        BY <1>3, Setting DEF TypeOK
      <3>4. QED BY <3>2, <3>3
    <2>2. CASE k \in zrtt' /\ k \notin zrtt
      BY <1>1, <1>3, <2>2
    <2>3. QED BY <2>1, <2>2
  <1>9. Server \in zrtt' <=> Server \in zrtt
    BY <1>3
  <1>10. OpeningInv(net)'
    <2>1. SameSockets /\ OpeningInv(n)
      BY <1>4 DEF SameSockets, Arrives
    <2>2. QED BY <2>1, OpeningKept
  <1>11. QED BY <1>1, <1>5, <1>6, <1>7, <1>8, <1>9, <1>10, ClientDone

\* Clients, and all else but the packets and the address, stay as they are.
LEMMA DroppedKeeps ==
    ASSUME StateInv, Running, NEW n, NEW f, NEW pkt, Arrives(n, f, pkt), ~Opening(pkt),
           UNCHANGED <<setup, server, clt, zrtt, corrupt, overlap, race>>, net' = n,
           faults' \in 0..MaxFaults, fatal' \in BOOLEAN,
           NEW m \in Nodes \cup {Server}, NEW p \in Paths,
           auth' = auth \/ auth' = Authenticated(m, <<Server, p>>),
           auth' # auth => Accepts(m, <<Server, p>>),
           Undisturbed' => ~fatal' /\ CalmServer /\ CalmClients /\ CalmWires(n)
    PROVE  MultipathInv'
  <1>1. f \in Flow /\ n \in [Flow -> Seq(Packet)] /\ TypeOK
    BY DEF Arrives, StateInv
  <1>2. svr' = svr /\ bindings' = bindings /\ manager' = manager /\ home' = home
    BY DEF server, home
  <1>3. auth' \in [Nodes \cup {Server} -> SUBSET (Address \cup ({Server} \X Paths))]
    BY <1>1, AuthAt
  <1>4. TypeOK'
    BY <1>1, <1>2, <1>3 DEF TypeOK
  <1>5. ClientInv'
    BY <1>2 DEF StateInv, ClientInv
  <1>6. ValidInv'
    BY <1>2, ValidSame DEF StateInv, ValidInv
  <1>7. ErrorInv'
    BY DEF ErrorInv, Running
  <1>8. \A d \in Conns : Len(clt[d].flows) \in Nat
    BY <1>1, LenProperties DEF TypeOK, Client
  <1>9. Adds(n, net', f, <<>>) /\ \A k \in 1..Len(<<>>) : FALSE
    BY <1>1, NothingAdds
  <1>10. ASSUME Undisturbed' PROVE CalmServer /\ CalmClients' /\ CalmWires(net)'
    <2>1. CalmServer /\ CalmClients /\ CalmWires(n)
      BY <1>10
    <2>2. CalmClients'
      BY <1>2, <2>1, CalmClientsKept
    <2>3. CalmWires(n)'
      BY <1>2, <2>1, ValidSame DEF CalmWires, CalmPacket
    <2>4. CalmWires(net)'
      BY <1>1, <1>9, <2>3, CalmAdds
    <2>5. QED BY <2>1, <2>2, <2>4
  <1>11. \A d \in Conns : clt'[d].state = clt[d].state /\ Len(clt[d].flows) <= Len(clt'[d].flows)
    BY <1>8
  <1>12. QED BY <1>1, <1>4, <1>5, <1>6, <1>7, <1>9, <1>10, <1>11, ShortDone

\* A PATH_RESPONSE or an ACK arrives at an open client.
LEMMA ResponseKeeps ==
    ASSUME StateInv, Running, NEW n, NEW f, NEW pkt, Arrives(n, f, pkt),
           pkt.type \in {"PATH_RESPONSE", "ACK"}, f.to = "clt", clt[f.conn].state = "OPEN",
           CalmBefore(n), OnReceivedPathResponseFrame(f.conn, f.path, pkt.type, n),
           UNCHANGED <<setup, server, overlap>>, fatal' = FALSE, faults' \in 0..MaxFaults,
           NEW m \in Nodes \cup {Server}, NEW p \in Paths,
           auth' = auth \/ auth' = Authenticated(m, <<Server, p>>),
           auth' # auth => Accepts(m, <<Server, p>>)
    PROVE  MultipathInv'
  <1> PICK c : c = f.conn
    OBVIOUS
  <1> PICK q : q = f.path
    OBVIOUS
  <1>1. f \in Flow /\ PacketOk(f, pkt) /\ n \in [Flow -> Seq(Packet)] /\ TypeOK
    BY DEF Arrives, StateInv
  <1>2. c \in Conns /\ q \in Paths /\ q \in Nat
    BY <1>1, Setting DEF Flow, TypeOK
  <1>3. /\ q < Len(clt[c].flows) /\ clt[c].state = "OPEN"
        /\ pkt.type = "PATH_RESPONSE" => Validated(c, q)
    BY <1>1 DEF PacketOk
  <1>4. svr' = svr /\ bindings' = bindings /\ manager' = manager /\ home' = home
    BY DEF server, home
  <1>5. clt \in [Conns -> Client] /\ clt[c] \in Client
    BY <1>1, <1>2 DEF TypeOK
  <1>6. PICK flows \in Seq(Subflow) : flows = clt[c].flows
    BY <1>5 DEF Client
  <1>7. /\ corrupt' = FALSE /\ net' = n /\ zrtt' = zrtt
        /\ clt' = IF pkt.type = "PATH_RESPONSE" THEN [clt EXCEPT ![c].flows = Activated(@, q)] ELSE clt
        /\ race' = (race \/ (pkt.type = "PATH_RESPONSE" /\ \E i \in 1..q : ~flows[i].active))
    BY <1>3, <1>6 DEF OnReceivedPathResponseFrame, InRange
  <1>8. PICK fl : fl = IF pkt.type = "PATH_RESPONSE" THEN Activated(flows, q) ELSE flows
    OBVIOUS
  <1>9. /\ fl \in Seq(Subflow) /\ Len(fl) = Len(flows) /\ Len(flows) \in Nat
        /\ \A i \in 1..Len(flows) : fl[i].id = flows[i].id
        /\ \A i \in 1..Len(flows) :
              fl[i].active <=> flows[i].active \/ (i = q + 1 /\ pkt.type = "PATH_RESPONSE")
    <2>1. Len(flows) \in Nat
      BY LenProperties
    <2>2. CASE pkt.type = "PATH_RESPONSE"
      BY <1>2, <1>3, <1>6, <1>8, <2>1, <2>2, ActivatedFacts
    <2>3. CASE pkt.type # "PATH_RESPONSE"
      BY <1>8, <2>1, <2>3
    <2>4. QED BY <2>2, <2>3
  <1>10. PICK x : x = [clt[c] EXCEPT !.flows = fl]
    OBVIOUS
  <1>11. x \in Client /\ x.state = clt[c].state /\ x.flows = fl /\ x.stray = clt[c].stray
    BY <1>5, <1>9, <1>10 DEF Client
  <1>12. /\ clt' \in [Conns -> Client] /\ clt'[c] = x
         /\ \A d \in Conns : d # c => clt'[d] = clt[d]
    <2>1. CASE pkt.type = "PATH_RESPONSE"
      <3>1. clt' = [clt EXCEPT ![c] = x]
        BY <1>6, <1>7, <1>8, <1>10, <2>1
      <3>2. QED BY <1>2, <1>5, <1>11, <3>1
    <2>2. CASE pkt.type # "PATH_RESPONSE"
      <3>1. clt' = clt /\ x = clt[c]
        BY <1>5, <1>6, <1>7, <1>8, <1>10, <2>2 DEF Client
      <3>2. QED BY <1>5, <3>1
    <2>3. QED BY <2>1, <2>2
  <1>13. /\ auth' \in [Nodes \cup {Server} -> SUBSET (Address \cup ({Server} \X Paths))]
    BY <1>1, AuthAt
  <1>14. race' \in BOOLEAN /\ (race => race')
    BY <1>1, <1>7 DEF TypeOK
  <1>15. TypeOK'
    BY <1>1, <1>4, <1>7, <1>12, <1>13, <1>14 DEF TypeOK
  <1>16. ClientInv'
    <2> SUFFICES ASSUME NEW d \in Conns
                 PROVE  /\ clt'[d].stray => race'
                        /\ clt'[d].state = "IDLE" => clt'[d].flows = <<>>
                        /\ clt'[d].state # "IDLE" => /\ d \in DOMAIN home
                                                     /\ clt'[d].flows # <<>>
                                                     /\ clt'[d].flows[1].active
                        /\ race' \/ \A i, j \in 1..Len(clt'[d].flows) :
                              i < j /\ clt'[d].flows[j].active => clt'[d].flows[i].active
      BY <1>4 DEF ClientInv
    <2>1. CASE d # c
      <3>1. clt'[d] = clt[d]
        BY <1>12, <2>1
      <3>2. QED BY <1>14, <3>1 DEF StateInv, ClientInv
    <2>2. CASE d = c
      <3>1. /\ clt[c].stray => race
            /\ c \in DOMAIN home /\ flows # <<>> /\ flows[1].active
            /\ race \/ \A i, j \in 1..Len(flows) : i < j /\ flows[j].active => flows[i].active
        BY <1>2, <1>3, <1>6 DEF StateInv, ClientInv
      <3>2. 1 \in 1..Len(flows)
        BY <1>2, <1>3, <1>6, <1>9
      <3>3. fl # <<>> /\ fl[1].active
        BY <1>9, <3>1, <3>2
      <3>4. ASSUME ~race', NEW i \in 1..Len(fl), NEW j \in 1..Len(fl), i < j, fl[j].active
            PROVE  fl[i].active
        <4>1. ~race
          BY <1>14, <3>4
        <4>2. i \in 1..Len(flows) /\ j \in 1..Len(flows)
          BY <1>9
        <4>3. CASE flows[j].active
          BY <1>9, <3>1, <3>4, <4>1, <4>2, <4>3
        <4>4. CASE j = q + 1 /\ pkt.type = "PATH_RESPONSE"
          <5>1. i \in 1..q
            BY <1>2, <1>9, <3>4, <4>2, <4>4
          <5>2. flows[i].active
            BY <1>7, <3>4, <4>4, <5>1
          <5>3. QED BY <1>9, <4>2, <5>2
        <4>5. QED BY <1>9, <3>4, <4>2, <4>3, <4>4
      <3>5. clt'[d].flows = fl /\ clt'[d].state = "OPEN" /\ clt'[d].stray = clt[c].stray
        BY <1>3, <1>11, <1>12, <2>2
      <3>6. QED BY <1>14, <2>2, <3>1, <3>3, <3>4, <3>5
    <2>3. QED BY <2>1, <2>2
  <1>17. ValidInv'
    <2> SUFFICES ASSUME NEW d \in Conns, NEW i \in 2..Len(clt'[d].flows), clt'[d].flows[i].active
                 PROVE  Validated(d, i - 1)
      BY <1>4, ValidSame DEF ValidInv
    <2>1. CASE d # c
      BY <1>12, <2>1 DEF StateInv, ValidInv
    <2>2. CASE d = c
      <3>1. clt'[d].flows = fl
        BY <1>11, <1>12, <2>2
      <3>2. i \in 1..Len(flows) /\ i \in 2..Len(flows)
        BY <1>9, <3>1
      <3>3. CASE flows[i].active
        BY <1>2, <1>6, <2>2, <3>2, <3>3 DEF StateInv, ValidInv
      <3>4. CASE i = q + 1 /\ pkt.type = "PATH_RESPONSE"
        <4>1. i - 1 = q
          BY <1>2, <3>4
        <4>2. QED BY <1>3, <2>2, <3>4, <4>1
      <3>5. QED BY <1>9, <3>1, <3>2, <3>3, <3>4
    <2>3. QED BY <2>1, <2>2
  <1>18. ErrorInv'
    BY <1>7 DEF ErrorInv
  <1>19. Adds(n, net', f, <<>>) /\ \A k \in 1..Len(<<>>) : FALSE
    BY <1>1, <1>7, NothingAdds
  <1>20. \A d \in Conns : /\ clt'[d].state = clt[d].state
                          /\ Len(clt'[d].flows) = Len(clt[d].flows) /\ Len(clt[d].flows) \in Nat
                          /\ \A i \in 1..Len(clt[d].flows) : clt'[d].flows[i].id = clt[d].flows[i].id
    <2> SUFFICES ASSUME NEW d \in Conns
                 PROVE  /\ clt'[d].state = clt[d].state
                        /\ Len(clt'[d].flows) = Len(clt[d].flows) /\ Len(clt[d].flows) \in Nat
                        /\ \A i \in 1..Len(clt[d].flows) : clt'[d].flows[i].id = clt[d].flows[i].id
      OBVIOUS
    <2>1. Len(clt[d].flows) \in Nat
      BY <1>5, LenProperties DEF Client
    <2>2. CASE d # c
      BY <1>12, <2>1, <2>2
    <2>3. CASE d = c
      BY <1>6, <1>9, <1>11, <1>12, <2>3
    <2>4. QED BY <2>2, <2>3
  <1>21. ASSUME Undisturbed' PROVE CalmServer /\ CalmClients' /\ CalmWires(net)'
    <2>1. CalmServer /\ CalmClients /\ CalmWires(n)
      BY <1>21 DEF CalmBefore
    <2>2. CalmClients'
      BY <1>4, <1>20, <2>1, CalmClientsKept
    <2>3. CalmWires(n)'
      <3> SUFFICES ASSUME NEW h \in Flow, NEW i \in 1..Len(n[h]) PROVE CalmPacket(n, h, i)'
        BY DEF CalmWires
      <3>1. CalmPacket(n, h, i) /\ h.conn \in Conns
        BY <2>1 DEF CalmWires, Flow
      <3>2. QED BY <1>4, <1>20, <3>1, ValidSame DEF CalmPacket
    <2>4. CalmWires(net)'
      BY <1>1, <1>19, <2>3, CalmAdds
    <2>5. QED BY <2>1, <2>2, <2>4
  <1>22. ~Opening(pkt)
    BY DEF Opening
  <1>23. \A d \in Conns : clt'[d].state = clt[d].state /\ Len(clt[d].flows) <= Len(clt'[d].flows)
    BY <1>20
  <1>24. QED BY <1>1, <1>7, <1>15, <1>16, <1>17, <1>18, <1>19, <1>21, <1>22, <1>23, ShortDone

\* The wires with one address less, and one subflow more.
LEMMA CalmShift ==
    ASSUME TypeOK, setup' = setup, svr' = svr, NEW f \in Flow, f.to = "clt", f.path = 0,
           NEW n, Remaining(n, f, 1), PacketInv(n), CalmWires(net),
           Len(clt'[f.conn].flows) = Len(clt[f.conn].flows) + 1,
           \A d \in Conns : d # f.conn => clt'[d].flows = clt[d].flows
    PROVE  CalmWires(n)'
  <1>1. home' = home /\ f.conn \in Conns
    BY DEF home, Flow
  <1>2. Len(clt[f.conn].flows) \in Nat
    BY <1>1, LenProperties DEF TypeOK, Client
  <1>3. \A h \in Flow : Len(n[h]) \in Nat /\ Len(net[h]) \in Nat
    BY LenProperties DEF TypeOK, Remaining
  <1> SUFFICES ASSUME NEW h \in Flow, NEW i \in 1..Len(n[h]), h.to = "clt"
               PROVE  CalmPacket(n, h, i)'
    BY DEF CalmWires, CalmPacket
  <1>4. i \in Nat /\ i >= 1 /\ \A j \in 1..i : j \in 1..Len(n[h])
    BY <1>3
  <1>5. CASE h # f
    <2>1. \A j \in 1..i : n[h][j] = net[h][j] /\ j \in 1..Len(net[h])
      BY <1>4, <1>5 DEF Remaining
    <2>2. n[h][i] = net[h][i] /\ i \in 1..Len(net[h])
      BY <1>4, <2>1
    <2>3. CalmPacket(net, h, i)
      BY <2>2 DEF CalmWires
    <2>4. n[h][i].type = "ADD_ADDRESS" => h.path = 0
      BY DEF PacketInv, PacketOk
    <2>5. ASSUME n[h][i].type = "ADD_ADDRESS" PROVE h.conn # f.conn
      BY <1>5, <2>4, <2>5 DEF Flow
    <2>6. h.conn \in Conns
      BY DEF Flow
    <2>7. ASSUME n[h][i].type = "ADD_ADDRESS"
          PROVE  /\ n[h][i].arg = Len(clt'[h.conn].flows) + i - 1
                 /\ \A j \in 1..i : n[h][j].type = "ADD_ADDRESS"
                 /\ Announced(h.conn)
      <3>1. /\ net[h][i].arg = Len(clt[h.conn].flows) + i - 1
            /\ \A j \in 1..i : net[h][j].type = "ADD_ADDRESS"
            /\ Announced(h.conn)
        BY <2>2, <2>3, <2>7 DEF CalmPacket
      <3>2. clt'[h.conn].flows = clt[h.conn].flows
        BY <2>5, <2>6, <2>7
      <3>3. QED BY <2>1, <2>2, <3>1, <3>2
    <2>8. QED BY <1>1, <2>2, <2>3, <2>7, ValidSame DEF CalmPacket
  <1>6. CASE h = f
    <2>1. \A j \in 1..i : n[h][j] = net[h][j + 1] /\ j + 1 \in 1..Len(net[h])
      <3> SUFFICES ASSUME NEW j \in 1..i
                   PROVE  n[h][j] = net[h][j + 1] /\ j + 1 \in 1..Len(net[h])
        OBVIOUS
      <3>1. j \in 1..Len(n[h]) /\ ~(j < 1)
        BY <1>4
      <3>2. QED BY <1>6, <3>1 DEF Remaining
    <2>2. n[h][i] = net[h][i + 1] /\ i + 1 \in 1..Len(net[h])
      BY <1>4, <2>1
    <2>3. CalmPacket(net, h, i + 1)
      BY <2>2 DEF CalmWires
    <2>4. ASSUME n[h][i].type = "ADD_ADDRESS"
          PROVE  /\ n[h][i].arg = Len(clt'[h.conn].flows) + i - 1
                 /\ \A j \in 1..i : n[h][j].type = "ADD_ADDRESS"
                 /\ Announced(h.conn)
      <3>1. /\ net[h][i + 1].arg = Len(clt[h.conn].flows) + (i + 1) - 1
            /\ \A j \in 1..(i + 1) : net[h][j].type = "ADD_ADDRESS"
            /\ Announced(h.conn)
        BY <2>2, <2>3, <2>4 DEF CalmPacket
      <3>2. Len(clt[f.conn].flows) + (i + 1) - 1 = (Len(clt[f.conn].flows) + 1) + i - 1
        BY <1>2, <1>4
      <3>3. \A j \in 1..i : j + 1 \in 1..(i + 1)
        BY <1>4
      <3>4. QED BY <1>6, <2>1, <2>2, <3>1, <3>2, <3>3
    <2>5. QED BY <1>1, <2>2, <2>3, <2>4, ValidSame DEF CalmPacket
  <1>7. QED BY <1>5, <1>6

\* An ADD_ADDRESS arrives at an open client.
LEMMA AddressKeeps ==
    ASSUME StateInv, Running, NEW n, NEW f, NEW pkt, Arrives(n, f, pkt),
           pkt.type = "ADD_ADDRESS", f.to = "clt", clt[f.conn].state = "OPEN",
           OnReceivedAddAddressFrame(f.conn, pkt.arg, n),
           UNCHANGED <<setup, server, overlap, race>>, fatal' = FALSE, faults' \in 0..MaxFaults,
           NEW m \in Nodes \cup {Server}, NEW p \in Paths,
           auth' = auth \/ auth' = Authenticated(m, <<Server, p>>),
           auth' # auth => Accepts(m, <<Server, p>>),
           Undisturbed' => /\ CalmServer /\ CalmClients /\ CalmWires(net) /\ Remaining(n, f, 1)
                           /\ 1 \in 1..Len(net[f]) /\ pkt = net[f][1]
    PROVE  MultipathInv'
  <1> PICK c : c = f.conn
    OBVIOUS
  <1> PICK a : a = pkt.arg
    OBVIOUS
  <1>1. f \in Flow /\ PacketOk(f, pkt) /\ n \in [Flow -> Seq(Packet)] /\ TypeOK /\ PacketInv(n)
    BY DEF Arrives, StateInv
  <1>2. c \in Conns
    BY <1>1 DEF Flow
  <1>3. f.path = 0 /\ clt[c].state = "OPEN" /\ a \in 1..NPaths
    BY <1>1 DEF PacketOk
  <1>4. /\ NPaths \in Nat /\ a \in Paths /\ a \in Nat /\ a > 0 /\ 0 \in Paths
        /\ c \in DOMAIN home /\ home[c] \in Nodes /\ Server \notin Nodes
    <2>1. NPaths \in Nat /\ 0..NPaths \subseteq Paths
      BY <1>1, Setting DEF TypeOK
    <2>2. c \in DOMAIN home
      BY <1>2, <1>3 DEF StateInv, ClientInv
    <2>3. home[c] \in Nodes /\ Server \notin Nodes
      BY <1>1, <2>2, Setting DEF TypeOK
    <2>4. QED BY <1>3, <2>1, <2>2, <2>3
  <1>5. svr' = svr /\ bindings' = bindings /\ manager' = manager /\ home' = home /\ NPaths' = NPaths
    BY DEF server, home, NPaths
  <1>6. clt \in [Conns -> Client] /\ clt[c] \in Client
    BY <1>1, <1>2 DEF TypeOK
  <1>7. PICK flows \in Seq(Subflow) : flows = clt[c].flows
    BY <1>6 DEF Client
  <1>8. PICK fl : fl = Append(flows, NewSubflow(a))
    OBVIOUS
  <1>9. NewSubflow(a) \in Subflow /\ NewSubflow(a).id = a /\ ~NewSubflow(a).active
    <2>1. NewSubflow(a) = [id |-> a, active |-> FALSE]
      <3>1. (a = 0) = FALSE
        BY <1>4
      <3>2. QED BY <3>1 DEF NewSubflow
    <2>2. QED BY <1>4, <2>1 DEF Subflow
  <1>10. /\ fl \in Seq(Subflow) /\ Len(fl) = Len(flows) + 1 /\ Len(flows) \in Nat
         /\ \A i \in 1..Len(flows) : fl[i] = flows[i]
         /\ fl[Len(flows) + 1] = NewSubflow(a)
    BY <1>8, <1>9, AppendProperties, LenProperties
  <1>11. /\ clt' = [clt EXCEPT ![c].flows = fl]
         /\ zrtt' = zrtt \cup {home[c]}
         /\ corrupt' = ~(a < Len(fl))
         /\ net' = IF corrupt' THEN n ELSE Put(n, ToServer(c, a), <<Pkt("PATH_CHALLENGE", 0, Server)>>)
    BY <1>7, <1>8 DEF OnReceivedAddAddressFrame, InRange
  <1>12. PICK x : x = [clt[c] EXCEPT !.flows = fl]
    OBVIOUS
  <1>13. x \in Client /\ x.state = "OPEN" /\ x.flows = fl /\ x.stray = clt[c].stray
    BY <1>3, <1>6, <1>10, <1>12 DEF Client
  <1>14. clt' = [clt EXCEPT ![c] = x]
    BY <1>11, <1>12
  <1>15. /\ clt' \in [Conns -> Client] /\ clt'[c] = x
         /\ \A d \in Conns : d # c => clt'[d] = clt[d]
    BY <1>2, <1>6, <1>13, <1>14
  <1>16. PICK g : g = ToServer(c, a)
    OBVIOUS
  <1>17. g \in Flow /\ g.conn = c /\ g.path = a /\ g.to = "svr"
    BY <1>2, <1>4, <1>16 DEF ToServer, Flow
  <1>18. PICK hs : hs = Pkt("PATH_CHALLENGE", 0, Server)
    OBVIOUS
  <1>19. hs \in Packet /\ hs.type = "PATH_CHALLENGE"
    BY <1>4, <1>18 DEF Pkt, Packet
  <1>20. PICK pkts : pkts = IF corrupt' THEN <<>> ELSE <<hs>>
    OBVIOUS
  <1>21. Adds(n, net', g, pkts)
    <2>1. CASE corrupt'
      BY <1>1, <1>11, <1>17, <1>20, <2>1, NothingAdds
    <2>2. CASE ~corrupt'
      <3>1. net' = Put(n, g, <<hs>>) /\ pkts = <<hs>>
        BY <1>11, <1>16, <1>18, <1>20, <2>2
      <3>2. QED BY <1>1, <1>17, <1>19, <3>1, OnePacket, PutAdds
    <2>3. QED BY <2>1, <2>2
  <1>22. auth' \in [Nodes \cup {Server} -> SUBSET (Address \cup ({Server} \X Paths))]
    BY <1>1, AuthAt
  <1>23. TypeOK'
    <2>1. net' \in [Flow -> Seq(Packet)]
      BY <1>21 DEF Adds
    <2>2. zrtt' \subseteq Nodes \cup {Server}
      BY <1>1, <1>4, <1>11 DEF TypeOK
    <2>3. corrupt' \in BOOLEAN
      BY <1>11
    <2>4. QED BY <1>1, <1>5, <1>15, <1>22, <2>1, <2>2, <2>3 DEF TypeOK
  <1>24. ClientInv'
    <2> SUFFICES ASSUME NEW d \in Conns
                 PROVE  /\ clt'[d].stray => race
                        /\ clt'[d].state = "IDLE" => clt'[d].flows = <<>>
                        /\ clt'[d].state # "IDLE" => /\ d \in DOMAIN home
                                                     /\ clt'[d].flows # <<>>
                                                     /\ clt'[d].flows[1].active
                        /\ race \/ \A i, j \in 1..Len(clt'[d].flows) :
                              i < j /\ clt'[d].flows[j].active => clt'[d].flows[i].active
      BY <1>5 DEF ClientInv
    <2>1. CASE d # c
      <3>1. clt'[d] = clt[d]
        BY <1>15, <2>1
      <3>2. QED BY <3>1 DEF StateInv, ClientInv
    <2>2. CASE d = c
      <3>1. /\ clt[c].stray => race
            /\ flows # <<>> /\ flows[1].active
            /\ race \/ \A i, j \in 1..Len(flows) : i < j /\ flows[j].active => flows[i].active
        BY <1>2, <1>3, <1>7 DEF StateInv, ClientInv
      <3>2. 1 \in 1..Len(flows)
        BY <1>10, <3>1, EmptySeq
      <3>3. fl # <<>> /\ fl[1].active
        BY <1>10, <3>1, <3>2
      <3>4. ASSUME ~race, NEW i \in 1..Len(fl), NEW j \in 1..Len(fl), i < j, fl[j].active
            PROVE  fl[i].active
        <4>1. j # Len(flows) + 1
          BY <1>9, <1>10, <3>4
        <4>2. i \in 1..Len(flows) /\ j \in 1..Len(flows)
          BY <1>10, <3>4, <4>1
        <4>3. QED BY <1>10, <3>1, <3>4, <4>2
      <3>5. clt'[d].flows = fl /\ clt'[d].state = "OPEN" /\ clt'[d].stray = clt[c].stray
        BY <1>13, <1>15, <2>2
      <3>6. QED BY <1>4, <2>2, <3>1, <3>3, <3>4, <3>5
    <2>3. QED BY <2>1, <2>2
  <1>25. ValidInv'
    <2> SUFFICES ASSUME NEW d \in Conns, NEW i \in 2..Len(clt'[d].flows), clt'[d].flows[i].active
                 PROVE  Validated(d, i - 1)
      BY <1>5, ValidSame DEF ValidInv
    <2>1. CASE d # c
      BY <1>15, <2>1 DEF StateInv, ValidInv
    <2>2. CASE d = c
      <3>1. clt'[d].flows = fl
        BY <1>13, <1>15, <2>2
      <3>2. i # Len(flows) + 1
        BY <1>9, <1>10, <3>1
      <3>3. i \in 2..Len(flows) /\ i \in 1..Len(flows)
        BY <1>10, <3>1, <3>2
      <3>4. flows[i].active
        BY <1>10, <3>1, <3>3
      <3>5. QED BY <1>2, <1>7, <2>2, <3>3, <3>4 DEF StateInv, ValidInv
    <2>3. QED BY <2>1, <2>2
  <1>26. ASSUME Undisturbed' PROVE a = Len(flows) /\ Announced(c)
    <2>1. CalmPacket(net, f, 1) /\ pkt = net[f][1]
      BY <1>1, <1>26 DEF CalmWires
    <2>2. pkt.arg = Len(clt[c].flows) + 1 - 1 /\ Announced(c)
      BY <2>1 DEF CalmPacket
    <2>3. a = Len(flows) + 1 - 1
      BY <1>7, <2>2
    <2>4. QED BY <1>10, <2>2, <2>3
  <1>27. ErrorInv'
    <2>1. Undisturbed' => ~corrupt'
      <3>1. ASSUME Undisturbed' PROVE a < Len(fl)
        <4>1. a = Len(flows)
          BY <1>26, <3>1
        <4>2. QED BY <1>10, <4>1
      <3>2. QED BY <1>11, <3>1
    <2>2. QED BY <2>1 DEF ErrorInv
  <1>28. \A d \in Conns : clt'[d].state = clt[d].state /\ Len(clt[d].flows) <= Len(clt'[d].flows)
    <2> SUFFICES ASSUME NEW d \in Conns
                 PROVE  clt'[d].state = clt[d].state /\ Len(clt[d].flows) <= Len(clt'[d].flows)
      OBVIOUS
    <2>1. Len(clt[d].flows) \in Nat
      BY <1>6, LenProperties DEF Client
    <2>2. CASE d # c
      BY <1>15, <2>1, <2>2
    <2>3. CASE d = c
      BY <1>3, <1>7, <1>10, <1>13, <1>15, <2>3
    <2>4. QED BY <2>2, <2>3
  <1>29. ASSUME NEW k \in 1..Len(pkts) PROVE PacketOk(g, pkts[k])' /\ ~Opening(pkts[k])
    <2>1. ~corrupt' /\ pkts[k] = hs
      BY <1>19, <1>20, OnePacket
    <2>2. clt'[c].state = "OPEN" /\ a < Len(clt'[c].flows)
      BY <1>11, <1>13, <1>15, <2>1
    <2>3. PacketOk(g, hs)'
      BY <1>4, <1>17, <1>19, <2>2 DEF PacketOk
    <2>4. QED BY <1>19, <2>1, <2>3 DEF Opening
  <1>30. ASSUME Undisturbed' PROVE CalmServer /\ CalmClients' /\ CalmWires(net)'
    <2>1. CalmServer /\ CalmClients /\ CalmWires(net) /\ Remaining(n, f, 1)
      BY <1>30
    <2>2. CalmClients'
      <3> SUFFICES ASSUME NEW d \in Conns
                   PROVE  /\ \A i \in 1..Len(clt'[d].flows) : clt'[d].flows[i].id = i - 1
                          /\ Len(clt'[d].flows) > 1 =>
                                Len(clt'[d].flows) <= NPaths + 1 /\ Announced(d)
        BY <1>5, ValidSame DEF CalmClients
      <3>1. CASE d # c
        BY <1>15, <2>1, <3>1 DEF CalmClients
      <3>2. CASE d = c
        <4>1. clt'[d].flows = fl
          BY <1>13, <1>15, <3>2
        <4>2. ASSUME NEW i \in 1..Len(fl) PROVE fl[i].id = i - 1
          <5>1. CASE i \in 1..Len(flows)
            BY <1>2, <1>7, <1>10, <2>1, <5>1 DEF CalmClients
          <5>2. CASE i = Len(flows) + 1
            BY <1>9, <1>10, <1>26, <1>30, <5>2
          <5>3. QED BY <1>10, <5>1, <5>2
        <4>3. Len(fl) <= NPaths + 1 /\ Announced(c)
          BY <1>3, <1>4, <1>10, <1>26, <1>30
        <4>4. QED BY <3>2, <4>1, <4>2, <4>3
      <3>3. QED BY <3>1, <3>2
    <2>3. CalmWires(n)'
      <3>1. Len(clt'[f.conn].flows) = Len(clt[f.conn].flows) + 1
        BY <1>7, <1>10, <1>13, <1>15
      <3>2. \A d \in Conns : d # f.conn => clt'[d].flows = clt[d].flows
        BY <1>15
      <3>3. QED BY <1>1, <1>3, <1>5, <2>1, <3>1, <3>2, CalmShift
    <2>4. CalmWires(net)'
      BY <1>17, <1>21, <2>3, CalmAdds
    <2>5. QED BY <2>1, <2>2, <2>4
  <1>31. zrtt' = zrtt \cup {home[f.conn]} /\ ~Opening(pkt)
    BY <1>11 DEF Opening
  <1>32. QED BY <1>17, <1>21, <1>23, <1>24, <1>25, <1>27, <1>28, <1>29, <1>30, <1>31, ShortDone

\* A packet arrives at a client.
LEMMA ForwardUpAtClientKeeps ==
    ASSUME StateInv, Running, NEW n, NEW f, NEW pkt, Arrives(n, f, pkt), f.to = "clt",
           ForwardUpAtClient(f.conn, f.path, pkt, n), setup' = setup, faults' \in 0..MaxFaults,
           pkt.type # "ADD_ADDRESS" => CalmBefore(n),
           Undisturbed' => /\ CalmServer /\ CalmClients /\ CalmWires(net) /\ Remaining(n, f, 1)
                           /\ 1 \in 1..Len(net[f]) /\ pkt = net[f][1]
    PROVE  MultipathInv'
  <1> PICK c : c = f.conn
    OBVIOUS
  <1> PICK p : p = f.path
    OBVIOUS
  <1> PICK m : m = pkt.to
    OBVIOUS
  <1>1. f \in Flow /\ PacketOk(f, pkt) /\ n \in [Flow -> Seq(Packet)] /\ TypeOK /\ pkt \in Packet
    BY DEF Arrives, StateInv
  <1>2. c \in Conns /\ p \in Paths /\ m \in Nodes \cup {Server}
    BY <1>1 DEF Flow, Packet
  <1>3. /\ clt[c].state # "IDLE" /\ (pkt.type = "ADD_ADDRESS" => p = 0)
        /\ pkt.type \in {"HANDSHAKE", "ADD_ADDRESS", "PATH_RESPONSE", "ACK"}
    BY <1>1 DEF PacketOk
  <1>4. UNCHANGED <<setup, server, overlap>>
    BY DEF ForwardUpAtClient
  <1>5. CASE pkt.type = "HANDSHAKE"
    <2>1. RecvServerHandshake(f.conn, n) /\ CalmBefore(n)
      BY <1>5 DEF ForwardUpAtClient
    <2>2. QED BY <1>4, <1>5, <2>1, RecvServerHandshakeKeeps
  <1>6. CASE pkt.type # "HANDSHAKE"
    <2> DEFINE ok == Accepts(m, <<Server, p>>)
               lost == ok /\ (m # home[c] \/ clt[c].state = "IDLE")
    <2>1. /\ auth' = IF ok THEN Authenticated(m, <<Server, p>>) ELSE auth
          /\ fatal' = lost
          /\ IF ~ok \/ lost \/ clt[c].state # "OPEN"
             THEN net' = n /\ UNCHANGED <<clt, zrtt, corrupt, race>>
             ELSE IF pkt.type = "ADD_ADDRESS"
             THEN OnReceivedAddAddressFrame(c, pkt.arg, n) /\ UNCHANGED race
             ELSE OnReceivedPathResponseFrame(c, p, pkt.type, n)
      BY <1>6 DEF ForwardUpAtClient, RecvShortAtClient
    <2>2. /\ auth' = auth \/ auth' = Authenticated(m, <<Server, p>>)
          /\ auth' # auth => Accepts(m, <<Server, p>>)
          /\ fatal' \in BOOLEAN
      BY <2>1
    <2>3. ~Opening(pkt)
      BY <1>3, <1>6 DEF Opening
    <2>4. Undisturbed' => m = home[c]
      <3>1. Undisturbed' => CalmPacket(net, f, 1) /\ pkt = net[f][1]
        BY <1>1 DEF CalmWires
      <3>2. QED BY <3>1 DEF CalmPacket
    <2>5. ASSUME Undisturbed', pkt.type = "ADD_ADDRESS"
          PROVE  ok /\ clt[c].state = "OPEN"
      <3>1. Announced(c)
        <4>1. CalmPacket(net, f, 1) /\ pkt = net[f][1]
          BY <1>1, <2>5 DEF CalmWires
        <4>2. QED BY <2>5, <4>1 DEF CalmPacket
      <3>2. PICK s \in 1..Len(svr) : svr[s].conn = c /\ Len(svr[s].flows) > 1
        BY <3>1 DEF Announced
      <3>3. clt[c].state = "OPEN" /\ <<Server, 0>> \in auth[home[c]]
        BY <2>5, <3>2 DEF CalmServer
      <3>4. QED BY <1>3, <2>4, <2>5, <3>3 DEF Accepts
    <2> HIDE DEF ok
    <2>6. CASE ~ok \/ lost \/ clt[c].state # "OPEN"
      <3>1. net' = n /\ UNCHANGED <<clt, zrtt, corrupt, race>>
        BY <2>1, <2>6
      <3>2. ASSUME Undisturbed' PROVE ~fatal' /\ CalmServer /\ CalmClients /\ CalmWires(n)
        <4>1. ~lost
          BY <1>3, <2>4, <3>2
        <4>2. pkt.type # "ADD_ADDRESS"
          BY <2>5, <2>6, <3>2, <4>1
        <4>3. QED BY <2>1, <3>2, <4>1, <4>2 DEF CalmBefore
      <3>3. QED BY <1>2, <1>4, <2>2, <2>3, <3>1, <3>2, DroppedKeeps
    <2>7. CASE ~(~ok \/ lost \/ clt[c].state # "OPEN") /\ pkt.type = "ADD_ADDRESS"
      <3>1. /\ OnReceivedAddAddressFrame(f.conn, pkt.arg, n) /\ race' = race /\ fatal' = FALSE
            /\ clt[f.conn].state = "OPEN"
        BY <2>1, <2>7
      <3>2. QED BY <1>2, <1>4, <2>2, <2>7, <3>1, AddressKeeps
    <2>8. CASE ~(~ok \/ lost \/ clt[c].state # "OPEN") /\ pkt.type # "ADD_ADDRESS"
      <3>1. /\ OnReceivedPathResponseFrame(f.conn, f.path, pkt.type, n) /\ fatal' = FALSE
            /\ clt[f.conn].state = "OPEN" /\ pkt.type \in {"PATH_RESPONSE", "ACK"} /\ CalmBefore(n)
        BY <1>3, <1>6, <2>1, <2>8
      <3>2. QED BY <1>2, <1>4, <2>2, <3>1, ResponseKeeps
    <2>9. QED BY <2>6, <2>7, <2>8
  <1>7. QED BY <1>5, <1>6

-----------------------------------------------------------------------------
\* Whatever the server does with a packet, its sockets grow.
LEMMA ForwardUpGrows ==
    ASSUME StateInv, NEW n, NEW f, NEW pkt, Arrives(n, f, pkt), f.to = "svr",
           ForwardUp(f.conn, f.path, pkt, n), setup' = setup
    PROVE  ServerGrows /\ (overlap => overlap')
  <1> PICK c : c = f.conn
    OBVIOUS
  <1>1. f \in Flow /\ PacketOk(f, pkt) /\ TypeOK /\ SocketInv
    BY DEF Arrives, StateInv
  <1>2. c \in Conns /\ f.path \in Paths /\ clt[c].state # "IDLE" /\ clt' = clt
    BY <1>1 DEF Flow, PacketOk, ForwardUp
  <1>3. /\ pkt.type \in {"INITIAL", "HANDSHAKE", "ZRTT", "PATH_CHALLENGE", "DATA"}
        /\ pkt.type \in {"INITIAL", "HANDSHAKE", "ZRTT"} => f.path = 0
    BY <1>1 DEF PacketOk
  <1>4. 0 \in Paths /\ c \in DOMAIN home /\ home[c] \in Nodes /\ f.path \in Nat
    <2>1. c \in DOMAIN home /\ setup \in Setups
      BY <1>1, <1>2 DEF StateInv, TypeOK, ClientInv
    <2>2. f.path \in Nat /\ 0..f.path \subseteq Paths /\ home[c] \in Nodes
      BY <1>2, <2>1, Setting
    <2>3. 0 \in 0..f.path
      BY <2>2
    <2>4. QED BY <2>1, <2>2, <2>3
  <1>5. Len(svr) \in Nat /\ \A s \in 1..Len(svr) : Len(svr[s].flows) \in Nat
    <2>1. Len(svr) \in Nat /\ \A s \in 1..Len(svr) : svr[s] \in Clone
      BY <1>1, LenProperties, ElementOfSeq DEF TypeOK
    <2>2. QED BY <2>1, LenProperties DEF Clone
  <1>6. svr' = svr => ServerGrows
    BY <1>5 DEF ServerGrows
  <1>7. ASSUME NEW state \in {"LISTENING", "CONNECTING_SVR", "OPEN"},
               Cloned(c, state, <<home[c], 0>>)
        PROVE  ServerGrows /\ (overlap => overlap')
    <2>1. Clones(c, state)
      BY <1>1, <1>4, <1>7, ClonedClones
    <2>2. QED BY <1>1, <1>2, <1>4, <2>1, CloneGrows
  <1>8. CASE pkt.type = "INITIAL"
    <2>1. PICK state \in {"LISTENING", "CONNECTING_SVR", "OPEN"} : Cloned(c, state, <<home[c], 0>>)
      BY <1>3, <1>8 DEF ForwardUp, RecvInitial
    <2>2. QED BY <1>7, <2>1
  <1>9. CASE pkt.type = "ZRTT"
    <2>1. Cloned(c, "OPEN", <<home[c], 0>>) \/ UNCHANGED <<server, overlap>>
      BY <1>3, <1>9 DEF ForwardUp, RecvZrtt
    <2>2. QED BY <1>6, <1>7, <2>1 DEF server
  <1>10. CASE pkt.type = "HANDSHAKE"
    <2>1. RecvHandshake(c, <<home[c], 0>>, n)
      BY <1>3, <1>10 DEF ForwardUp
    <2>2. PICK s : s = SocketOf(c)
      OBVIOUS
    <2>3. manager' = manager /\ overlap' = overlap
      BY <2>1 DEF RecvHandshake
    <2>4. CASE s # 0 /\ svr[s].state = "CONNECTING_SVR"
      <3>1. CreateNewSubflows(s, <<home[c], 0>>, n)
        BY <2>1, <2>2, <2>4 DEF RecvHandshake
      <3>2. s \in 1..Len(svr)
        BY <1>1, <2>2, <2>4, SocketFound
      <3>3. manager \in 1..Len(svr)
        <4>1. svr # <<>>
          BY <1>5, <3>2
        <4>2. QED BY <1>1, <4>1 DEF SocketInv, TypeOK
      <3>4. <<home[c], 0>> \in Address
        BY <1>4 DEF Address
      <3>5. Opens(s, manager, <<home[c], 0>>)
        BY <1>1, <3>1, <3>2, <3>3, <3>4, SubflowsOpen
      <3>6. QED BY <1>1, <1>2, <2>3, <2>4, <3>2, <3>3, <3>5, OpenGrows
    <2>5. CASE ~(s # 0 /\ svr[s].state = "CONNECTING_SVR")
      <3>1. svr' = svr
        BY <2>1, <2>2, <2>5 DEF RecvHandshake
      <3>2. QED BY <1>6, <2>3, <3>1
    <2>6. QED BY <2>4, <2>5
  <1>11. CASE pkt.type \in {"PATH_CHALLENGE", "DATA"}
    <2>1. RecvShort(c, f.path, pkt.type, <<home[c], f.path>>, n)
      BY <1>11 DEF ForwardUp
    <2>2. PICK s : s = SocketOf(c)
      OBVIOUS
    <2>3. manager' = manager /\ overlap' = overlap
      BY <2>1 DEF RecvShort
    <2>4. \/ svr' = svr
          \/ /\ OnReceivedPathChallengeFrame(s, f.path, <<home[c], f.path>>, n)
             /\ s # 0 /\ f.path < Len(svr[s].flows)
      BY <2>1, <2>2 DEF RecvShort, InRange
    <2>5. CASE svr' = svr
      BY <1>6, <2>3, <2>5
    <2>6. CASE /\ OnReceivedPathChallengeFrame(s, f.path, <<home[c], f.path>>, n)
               /\ s # 0 /\ f.path < Len(svr[s].flows)
      <3>1. s \in 1..Len(svr)
        BY <1>1, <2>2, <2>6, SocketFound
      <3>2. <<home[c], f.path>> \in Address
        BY <1>2, <1>4 DEF Address
      <3>3. PICK q \in Nat, from \in Address : q = f.path /\ from = <<home[c], f.path>>
        BY <1>4, <3>2
      <3>4. OnReceivedPathChallengeFrame(s, q, from, n) /\ q < Len(svr[s].flows)
        BY <2>6, <3>3
      <3>5. Answers(s, q, from)
        BY <1>1, <3>1, <3>4, ChallengeAnswers
      <3>6. QED BY <1>1, <1>2, <2>3, <3>5, AnswerGrows
    <2>7. QED BY <2>4, <2>5, <2>6
  <1>12. QED BY <1>3, <1>8, <1>9, <1>10, <1>11

\* The wires without the first packet of a flow that is not an address.
LEMMA CalmRest ==
    ASSUME TypeOK, CalmWires(net), NEW f \in Flow, NEW n, Remaining(n, f, 1),
           1 \in 1..Len(net[f]), net[f][1].type # "ADD_ADDRESS"
    PROVE  CalmWires(n)
  <1>1. \A h \in Flow : Len(n[h]) \in Nat /\ Len(net[h]) \in Nat
    BY LenProperties DEF TypeOK, Remaining
  <1> SUFFICES ASSUME NEW h \in Flow, NEW i \in 1..Len(n[h]), h.to = "clt"
               PROVE  CalmPacket(n, h, i)
    BY DEF CalmWires, CalmPacket
  <1>2. i \in Nat /\ i >= 1 /\ \A j \in 1..i : j \in 1..Len(n[h])
    BY <1>1
  <1>3. CASE h # f
    <2>1. \A j \in 1..i : n[h][j] = net[h][j] /\ j \in 1..Len(net[h])
      BY <1>2, <1>3 DEF Remaining
    <2>2. n[h][i] = net[h][i] /\ i \in 1..Len(net[h])
      BY <1>2, <2>1
    <2>3. CalmPacket(net, h, i)
      BY <2>2 DEF CalmWires
    <2>4. QED BY <2>1, <2>2, <2>3 DEF CalmPacket
  <1>4. CASE h = f
    <2>1. n[h][i] = net[h][i + 1] /\ i + 1 \in 1..Len(net[h])
      <3>1. ~(i < 1)
        BY <1>2
      <3>2. QED BY <1>4, <3>1 DEF Remaining
    <2>2. CalmPacket(net, h, i + 1)
      BY <2>1 DEF CalmWires
    <2>3. 1 \in 1..(i + 1)
      BY <1>2
    <2>4. n[h][i].type # "ADD_ADDRESS"
      BY <1>4, <2>1, <2>2, <2>3 DEF CalmPacket
    <2>5. QED BY <2>1, <2>2, <2>4 DEF CalmPacket
  <1>5. QED BY <1>3, <1>4

\* A packet is delivered.
LEMMA DeliverKeeps ==
    ASSUME MultipathInv, NEW f \in Flow, NEW i \in 1..Len(net[f]), Deliver(f, i)
    PROVE  MultipathInv'
  <1> PICK pkt : pkt = net[f][i]
    OBVIOUS
  <1> PICK n : n = [net EXCEPT ![f] = RemoveAt(@, i)]
    OBVIOUS
  <1>1. StateInv /\ PacketInv(net) /\ OpeningInv(net) /\ CalmInv(net)
    BY DEF MultipathInv, StateInv
  <1>2. TypeOK /\ net \in [Flow -> Seq(Packet)] /\ Len(net[f]) \in Nat /\ i \in Nat /\ i >= 1
    <2>1. TypeOK /\ net \in [Flow -> Seq(Packet)]
      BY <1>1 DEF StateInv, TypeOK
    <2>2. Len(net[f]) \in Nat
      BY <2>1, LenProperties
    <2>3. QED BY <2>1, <2>2
  <1>3. Remaining(n, f, i)
    BY <1>2, TakenOff
  <1>4. n \in [Flow -> Seq(Packet)]
    BY <1>3 DEF Remaining
  <1>5. PacketInv(n) /\ PacketOk(f, pkt)
    BY <1>1, <1>2, <1>3, RestPackets
  <1>6. /\ OpeningInv(n)
        /\ Opening(pkt) =>
              \A h \in Flow : \A j \in 1..Len(n[h]) : h.conn = f.conn => ~Opening(n[h][j])
    BY <1>1, <1>2, <1>3, RestOpening
  <1>7. pkt \in Packet
    BY <1>2, ElementOfSeq
  <1>8. ASSUME Opening(pkt), NEW s \in 1..Len(svr), svr[s].conn = f.conn
        PROVE  /\ pkt.type # "INITIAL"
               /\ svr[s].state = "CONNECTING_SVR"
               /\ \A t \in 1..Len(svr) : svr[t].conn = f.conn => t = s
    <2>1. OneSocket(net)
      BY <1>1 DEF OpeningInv
    <2>2. QED BY <1>8, <2>1 DEF OneSocket
  <1>9. Arrives(n, f, pkt)
    BY <1>4, <1>5, <1>6, <1>7, <1>8 DEF Arrives
  <1>10. /\ Running /\ setup' = setup
         /\ i > 1 => faults < MaxFaults
         /\ faults' = IF i > 1 THEN faults + 1 ELSE faults
         /\ f.to = "svr" => ForwardUp(f.conn, f.path, pkt, n)
         /\ f.to # "svr" => ForwardUpAtClient(f.conn, f.path, pkt, n)
    BY DEF Deliver
  <1>11. faults' \in 0..MaxFaults /\ faults \in Nat /\ (faults' = 0 => faults = 0 /\ i = 1)
    <2>1. MaxFaults \in Nat /\ faults \in 0..MaxFaults
      BY <1>2, MultipathAssumption DEF TypeOK
    <2>2. CASE i > 1
      BY <1>10, <2>1, <2>2
    <2>3. CASE ~(i > 1)
      BY <1>2, <1>10, <2>1, <2>3
    <2>4. QED BY <2>2, <2>3
  <1>12. ServerGrows /\ (overlap => overlap')
    <2>1. CASE f.to = "svr"
      BY <1>1, <1>9, <1>10, <2>1, ForwardUpGrows
    <2>2. CASE f.to # "svr"
      <3>1. svr' = svr /\ overlap' = overlap
        BY <1>10, <2>2 DEF ForwardUpAtClient, server
      <3>2. Len(svr) \in Nat /\ \A s \in 1..Len(svr) : svr[s] \in Clone
        BY <1>2, LenProperties, ElementOfSeq DEF TypeOK
      <3>3. \A s \in 1..Len(svr) : Len(svr[s].flows) \in Nat
        BY <3>2, LenProperties DEF Clone
      <3>4. QED BY <3>1, <3>2, <3>3 DEF ServerGrows
    <2>3. QED BY <2>1, <2>2
  <1>13. ASSUME Undisturbed'
         PROVE  /\ CalmServer /\ CalmClients /\ CalmWires(net) /\ Remaining(n, f, 1)
                /\ 1 \in 1..Len(net[f]) /\ pkt = net[f][1]
    <2>1. faults = 0 /\ i = 1
      BY <1>11, <1>13 DEF Undisturbed
    <2>2. Len(svr) \in Nat /\ Len(svr') \in Nat
      <3>1. Len(svr) \in Nat
        BY <1>2, LenProperties DEF TypeOK
      <3>2. QED BY <1>12, <3>1 DEF ServerGrows
    <2>3. \A s \in 1..Len(svr) : svr[s].state # "IDLE"
      BY <1>12, <1>13, <2>2 DEF Undisturbed, ServerGrows
    <2>4. ~overlap
      BY <1>12, <1>13 DEF Undisturbed
    <2>5. Undisturbed
      BY <2>1, <2>3, <2>4 DEF Undisturbed
    <2>6. QED BY <1>1, <1>3, <2>1, <2>5 DEF CalmInv
  <1>14. pkt.type # "ADD_ADDRESS" => CalmBefore(n)
    <2> SUFFICES ASSUME pkt.type # "ADD_ADDRESS", Undisturbed'
                 PROVE  CalmServer /\ CalmClients /\ CalmWires(n)
      BY DEF CalmBefore
    <2>1. /\ CalmServer /\ CalmClients /\ CalmWires(net) /\ Remaining(n, f, 1)
          /\ 1 \in 1..Len(net[f]) /\ pkt = net[f][1]
      BY <1>13
    <2>2. CalmWires(n)
      BY <1>2, <2>1, CalmRest
    <2>3. QED BY <2>1, <2>2
  <1>15. CASE f.to = "svr"
    <2>1. pkt.type # "ADD_ADDRESS"
      BY <1>5, <1>15 DEF PacketOk
    <2>2. QED BY <1>1, <1>9, <1>10, <1>11, <1>14, <1>15, <2>1, ForwardUpKeeps
  <1>16. CASE f.to # "svr"
    <2>1. f.to = "clt"
      BY <1>16 DEF Flow
    <2>2. QED BY <1>1, <1>9, <1>10, <1>11, <1>13, <1>14, <1>16, <2>1, ForwardUpAtClientKeeps
  <1>17. QED BY <1>15, <1>16


-----------------------------------------------------------------------------
\* A packet is lost: the rest of its flow stays, and the run is disturbed.
LEMMA LoseKeeps ==
    ASSUME MultipathInv, NEW f \in Flow, Lose(f)
    PROVE  MultipathInv'
  <1> PICK n : n = [net EXCEPT ![f] = Tail(@)]
    OBVIOUS
  <1>1. StateInv /\ PacketInv(net) /\ OpeningInv(net) /\ TypeOK /\ SocketInv /\ ClientInv
    BY DEF MultipathInv, StateInv
  <1>2. /\ Running /\ net[f] # <<>> /\ net' = n /\ faults < MaxFaults /\ faults' = faults + 1
        /\ UNCHANGED <<setup, clt, server, auth, zrtt, fatal, corrupt, overlap, race>>
    BY DEF Lose, l4
  <1>3. net \in [Flow -> Seq(Packet)] /\ Remaining(n, f, 1)
    BY <1>1, <1>2, LostOff DEF TypeOK
  <1>4. n \in [Flow -> Seq(Packet)] /\ 1 \in 1..Len(net[f])
    <2>1. Len(net[f]) \in Nat /\ Len(net[f]) # 0
      BY <1>2, <1>3, EmptySeq, LenProperties
    <2>2. QED BY <1>3, <2>1 DEF Remaining
  <1>5. PacketInv(n)
    BY <1>1, <1>3, <1>4, RestPackets
  <1>6. OpeningInv(n)
    BY <1>1, <1>3, <1>4, RestOpening
  <1>7. faults' \in 0..MaxFaults /\ ~Undisturbed'
    <2>1. MaxFaults \in Nat /\ faults \in 0..MaxFaults
      BY <1>1, MultipathAssumption DEF TypeOK
    <2>2. QED BY <1>2, <2>1 DEF Undisturbed
  <1>8. svr' = svr /\ bindings' = bindings /\ manager' = manager /\ home' = home /\ NPaths' = NPaths
    BY <1>2 DEF server, home, NPaths
  <1>9. TypeOK'
    BY <1>1, <1>2, <1>4, <1>7, <1>8 DEF TypeOK
  <1>10. ClientsGrow
    <2>1. \A c \in Conns : Len(clt[c].flows) \in Nat
      BY <1>1, LenProperties DEF TypeOK, Client
    <2>2. QED BY <1>2, <2>1 DEF ClientsGrow
  <1>11. ClientInv' /\ NodeInv' /\ ServedInv'
    BY <1>1, <1>2, <1>8 DEF StateInv, ClientInv, NodeInv, ServedInv, Shared, HasSocket
  <1>12. ValidInv'
    BY <1>1, <1>2, <1>8, ValidSame DEF StateInv, ValidInv
  <1>13. Adds(n, net', f, <<>>) /\ Len(<<>>) = 0
    BY <1>2, <1>4, NothingAdds
  <1>14. OpeningInv(net)'
    <2>1. SameSockets
      BY <1>8 DEF SameSockets
    <2>2. QED BY <1>6, <1>13, <2>1, OpeningKept
  <1>15. ErrorInv'
    BY <1>2, NoError
  <1>16. PICK pkts : pkts = <<>>
    OBVIOUS
  <1>17. Adds(n, net', f, pkts) /\ \A k \in 1..Len(pkts) : PacketOk(f, pkts[k])'
    BY <1>13, <1>16
  <1>18. /\ \A m \in Nodes : auth[m] \subseteq auth'[m]
         /\ Server \in zrtt' <=> Server \in zrtt
    BY <1>2
  <1>19. QED BY <1>1, <1>2, <1>4, <1>5, <1>7, <1>9, <1>10, <1>11, <1>12, <1>14, <1>15, <1>17,
                <1>18, ClientDone

\* A step that changes nothing.
LEMMA StutterKeeps ==
    ASSUME MultipathInv, UNCHANGED vars
    PROVE  MultipathInv'
  <1>1. UNCHANGED <<setup, clt, svr, bindings, manager, auth, zrtt, net, fatal, corrupt,
                    faults, overlap, race>>
    BY DEF vars
  <1>2. home' = home /\ NPaths' = NPaths /\ (Shared' <=> Shared) /\ (Undisturbed' <=> Undisturbed)
    BY <1>1 DEF home, NPaths, Shared, Undisturbed
  <1>3. TypeOK' /\ ClientInv' /\ NodeInv' /\ SocketInv'
    BY <1>1, <1>2 DEF MultipathInv, TypeOK, ClientInv, NodeInv, SocketInv
  <1>4. /\ \A c, p : Validated(c, p)' <=> Validated(c, p)
        /\ \A c : (Announced(c)' <=> Announced(c)) /\ (HasSocket(c)' <=> HasSocket(c))
    BY <1>1 DEF Validated, Announced, HasSocket
  <1>5. ValidInv' /\ ServedInv'
    BY <1>1, <1>2, <1>4 DEF MultipathInv, ValidInv, ServedInv
  <1>6. PacketInv(net)'
    <2>1. \A pkt : \A f \in Flow : PacketOk(f, pkt) => PacketOk(f, pkt)'
      BY <1>1, <1>2, <1>4 DEF PacketOk
    <2> SUFFICES ASSUME NEW f \in Flow, NEW i \in 1..Len(net'[f])
                 PROVE  PacketOk(f, net[f][i])'
      BY DEF PacketInv
    <2>2. PICK pkt : pkt = net[f][i]
      OBVIOUS
    <2>3. PacketOk(f, pkt) /\ net'[f][i] = pkt
      BY <1>1, <2>2 DEF MultipathInv, PacketInv
    <2>4. PacketOk(f, pkt)'
      BY <2>1, <2>3
    <2>5. QED BY <2>3, <2>4
  <1>7. OpeningInv(net)'
    BY <1>1 DEF MultipathInv, OpeningInv, OneOpening, OneSocket, FirstStuck, Opening
  <1>8. CalmInv(net)'
    <2> SUFFICES ASSUME Undisturbed PROVE CalmServer' /\ CalmClients' /\ CalmWires(net)'
      BY <1>2 DEF CalmInv
    <2>1. CalmServer /\ CalmClients /\ CalmWires(net)
      BY DEF MultipathInv, CalmInv
    <2>2. CalmServer'
      BY <1>1, <1>2, <2>1 DEF CalmServer
    <2>3. CalmClients'
      BY <1>1, <1>2, <1>4, <2>1 DEF CalmClients
    <2>4. CalmWires(net)'
      BY <1>1, <1>2, <1>4, <2>1 DEF CalmWires, CalmPacket
    <2>5. QED BY <2>2, <2>3, <2>4
  <1>9. QED BY <1>1, <1>2, <1>3, <1>5, <1>6, <1>7, <1>8 DEF MultipathInv

\* A client opens its connection.
LEMMA ConnectKeeps ==
    ASSUME MultipathInv, NEW c \in DOMAIN home, Connect(c)
    PROVE  MultipathInv'
  <1> PICK fast : fast = Accepts(home[c], <<Server, 0>>)
    OBVIOUS
  <1> PICK g : g = ToServer(c, 0)
    OBVIOUS
  <1> PICK hs : hs = Pkt(IF fast THEN FirstHeader(c) ELSE "INITIAL", 0, Server)
    OBVIOUS
  <1> PICK state : state = IF fast THEN "OPEN" ELSE "CONNECTING_CLT"
    OBVIOUS
  <1> PICK n : n = net
    OBVIOUS
  <1>1. StateInv /\ PacketInv(n) /\ OpeningInv(n) /\ CalmInv(n) /\ TypeOK /\ SocketInv
        /\ n \in [Flow -> Seq(Packet)]
    BY DEF MultipathInv, StateInv, TypeOK
  <1>2. c \in Conns /\ 0 \in Paths /\ home[c] \in Nodes /\ setup \in Setups /\ Server \notin Nodes
    <2>1. setup \in Setups
      BY <1>1 DEF TypeOK
    <2>2. 0 \in 0..NPaths /\ 0..NPaths \subseteq Paths
      BY <2>1, Setting
    <2>3. QED BY <2>1, <2>2, Setting
  <1>3. /\ Running /\ clt[c].state = "IDLE"
        /\ clt' = [clt EXCEPT ![c].state = state, ![c].flows = <<NewSubflow(0)>>]
        /\ net' = Put(n, g, <<hs>>)
        /\ UNCHANGED <<setup, server, auth, zrtt, fatal, corrupt, faults, overlap, race>>
    BY DEF Connect, l4, histories
  <1>4. svr' = svr /\ bindings' = bindings /\ manager' = manager /\ home' = home /\ NPaths' = NPaths
    BY <1>3 DEF server, home, NPaths
  <1>5. clt \in [Conns -> Client] /\ clt[c] \in Client /\ clt[c].flows = <<>> /\ ClientInv
    BY <1>1, <1>2, <1>3 DEF TypeOK, StateInv, ClientInv
  <1>6. PICK first : first = <<NewSubflow(0)>>
    OBVIOUS
  <1>7. first \in Seq(Subflow) /\ Len(first) = 1 /\ first[1].active /\ first[1].id = 0 /\ first # <<>>
    BY <1>2, <1>6, FirstSubflow
  <1>8. PICK x : x = [clt[c] EXCEPT !.state = state, !.flows = first]
    OBVIOUS
  <1>9. /\ x \in Client /\ x.state = state /\ x.flows = first /\ x.stray = clt[c].stray
        /\ state \in {"OPEN", "CONNECTING_CLT"}
    BY <1>5, <1>7, <1>8 DEF Client
  <1>10. /\ clt' \in [Conns -> Client] /\ clt'[c] = x
         /\ \A d \in Conns : d # c => clt'[d] = clt[d]
    BY <1>2, <1>3, <1>5, <1>6, <1>8, <1>9
  <1>11. \A d \in Conns : Len(clt[d].flows) \in Nat
    BY <1>5, LenProperties DEF Client
  <1>12. ClientsGrow
    <2>1. Len(clt[c].flows) = 0
      BY <1>5
    <2>2. QED BY <1>3, <1>7, <1>9, <1>10, <1>11, <2>1 DEF ClientsGrow
  <1>13. hs \in Packet /\ hs.type \in {"ZRTT", "HANDSHAKE", "INITIAL"}
    BY <1>2 DEF FirstHeader, Pkt, Packet
  <1>14. g \in Flow /\ g.conn = c /\ g.path = 0 /\ g.to = "svr"
    BY <1>2 DEF ToServer, Flow
  <1>15. Adds(n, net', g, <<hs>>)
    BY <1>1, <1>3, <1>13, <1>14, OnePacket, PutAdds
  <1>16. TypeOK'
    <2>1. net' \in [Flow -> Seq(Packet)]
      BY <1>15 DEF Adds
    <2>2. QED BY <1>1, <1>3, <1>4, <1>10, <2>1 DEF TypeOK
  <1>17. ClientInv'
    <2> SUFFICES ASSUME NEW d \in Conns
                 PROVE  /\ clt'[d].stray => race
                        /\ clt'[d].state = "IDLE" => clt'[d].flows = <<>>
                        /\ clt'[d].state # "IDLE" => /\ d \in DOMAIN home
                                                     /\ clt'[d].flows # <<>>
                                                     /\ clt'[d].flows[1].active
                        /\ race \/ \A i, j \in 1..Len(clt'[d].flows) :
                              i < j /\ clt'[d].flows[j].active => clt'[d].flows[i].active
      BY <1>3, <1>4 DEF ClientInv
    <2>1. CASE d # c
      BY <1>5, <1>10, <2>1 DEF ClientInv
    <2>2. CASE d = c
      <3>1. clt[c].stray => race
        BY <1>2, <1>5 DEF ClientInv
      <3>2. \A i, j \in 1..Len(first) : ~(i < j)
        BY <1>7
      <3>3. QED BY <1>7, <1>9, <1>10, <2>2, <3>1, <3>2
    <2>3. QED BY <2>1, <2>2
  <1>18. NodeInv'
    BY <1>1, <1>3, <1>12, NodeKept DEF StateInv
  <1>19. ValidInv'
    <2> SUFFICES ASSUME NEW d \in Conns, NEW i \in 2..Len(clt'[d].flows), clt'[d].flows[i].active
                 PROVE  Validated(d, i - 1)
      BY <1>4, ValidSame DEF ValidInv
    <2>1. d # c
      BY <1>7, <1>9, <1>10
    <2>2. QED BY <1>1, <1>10, <2>1 DEF StateInv, ValidInv
  <1>20. fast => Shared'
    <2> SUFFICES ASSUME fast PROVE Shared'
      OBVIOUS
    <2>1. home[c] \in zrtt \/ auth[home[c]] # {}
      BY DEF Accepts
    <2>2. PICK d \in DOMAIN home : home[d] = home[c] /\ clt[d].state = "OPEN"
      BY <1>1, <1>2, <2>1 DEF StateInv, NodeInv
    <2>3. d \in Conns /\ d # c
      BY <1>2, <1>3, <2>2, Setting
    <2>4. clt'[d].state # "IDLE" /\ clt'[c].state # "IDLE"
      BY <1>9, <1>10, <2>2, <2>3
    <2>5. QED BY <1>4, <2>2, <2>3, <2>4 DEF Shared
  <1>21. ServedInv'
    <2>1. Shared => Shared'
      BY <1>1, <1>3, <1>12, SharedKept
    <2>2. \A d \in Conns : HasSocket(d) => HasSocket(d)'
      BY <1>4 DEF HasSocket
    <2>3. CASE fast
      BY <1>20, <2>3 DEF ServedInv
    <2>4. CASE ~fast
      <3>1. clt'[c].state # "OPEN"
        BY <1>9, <1>10, <2>4
      <3>2. QED BY <1>1, <1>10, <2>1, <2>2, <3>1 DEF StateInv, ServedInv
    <2>5. QED BY <2>3, <2>4
  <1>22. ASSUME NEW k \in 1..Len(<<hs>>) PROVE PacketOk(g, <<hs>>[k])'
    <2>1. k = 1 /\ <<hs>>[k] = hs
      BY <1>13, OnePacket
    <2>2. clt'[c].state = state /\ 0 < Len(clt'[c].flows) /\ state # "IDLE"
      BY <1>7, <1>9, <1>10
    <2>3. hs.type # "INITIAL" => state = "OPEN"
      BY DEF Pkt
    <2>4. hs.type = "HANDSHAKE" => <<Server, 0>> \in auth[home[c]]
      <3> SUFFICES ASSUME hs.type = "HANDSHAKE" PROVE <<Server, 0>> \in auth[home[c]]
        OBVIOUS
      <3>1. fast /\ FirstHeader(c) = "HANDSHAKE"
        BY DEF Pkt
      <3>2. home[c] \notin zrtt
        BY <3>1 DEF FirstHeader
      <3>3. QED BY <3>1, <3>2 DEF Accepts
    <2>5. PacketOk(g, hs)'
      BY <1>3, <1>4, <1>13, <1>14, <2>2, <2>3, <2>4 DEF PacketOk
    <2>6. QED BY <2>1, <2>5
  <1>23. /\ \A h \in Flow : \A j \in 1..Len(n[h]) : h.conn # c
         /\ \A s \in 1..Len(svr) : svr[s].conn # c
    BY <1>1, <1>3 DEF PacketInv, PacketOk, SocketInv
  <1>24. OpeningInv(net)'
    BY <1>1, <1>4, <1>13, <1>14, <1>15, <1>23, OpeningSent
  <1>25. ErrorInv'
    BY <1>3, NoError
  <1>26. Undisturbed' <=> Undisturbed
    BY <1>3, <1>4 DEF Undisturbed
  <1>27. ASSUME Undisturbed' PROVE CalmClients' /\ CalmWires(net)'
    <2>1. CalmServer /\ CalmClients /\ CalmWires(n)
      BY <1>1, <1>26, <1>27 DEF CalmInv
    <2>2. CalmClients'
      <3> SUFFICES ASSUME NEW d \in Conns
                   PROVE  /\ \A i \in 1..Len(clt'[d].flows) : clt'[d].flows[i].id = i - 1
                          /\ Len(clt'[d].flows) > 1 =>
                                Len(clt'[d].flows) <= NPaths + 1 /\ Announced(d)
        BY <1>4, ValidSame DEF CalmClients
      <3>1. CASE d # c
        BY <1>10, <2>1, <3>1 DEF CalmClients
      <3>2. CASE d = c
        <4>1. \A i \in 1..Len(first) : i = 1
          BY <1>7
        <4>2. \A i \in 1..Len(first) : first[i].id = i - 1
          BY <1>7, <4>1
        <4>3. clt'[d].flows = first /\ ~(Len(first) > 1)
          BY <1>7, <1>9, <1>10, <3>2
        <4>4. QED BY <4>2, <4>3
      <3>3. QED BY <3>1, <3>2
    <2>3. ServerGrows
      BY <1>1, <1>3, <1>12, <1>16, ClientSide DEF StateInv, Grows
    <2>4. \A s \in 1..Len(svr') : ~(s > Len(svr))
      <3>1. Len(svr) \in Nat
        BY <1>1, LenProperties DEF TypeOK
      <3>2. QED BY <1>4, <3>1
    <2>5. CalmWires(n)'
      BY <1>1, <1>3, <1>10, <1>16, <1>23, <2>1, <2>3, <2>4, CalmKept
    <2>6. CalmWires(net)'
      BY <1>14, <1>15, <2>5, CalmAdds
    <2>7. QED BY <2>2, <2>6
  <1>28. Undisturbed' => CalmServer
    BY <1>1, <1>26 DEF CalmInv
  <1>29. QED BY <1>1, <1>3, <1>12, <1>14, <1>15, <1>16, <1>17, <1>18, <1>19, <1>21, <1>22,
                <1>24, <1>25, <1>27, <1>28, ClientDone

\* The path the scheduler answers is one of the client's, and a validated one
\* as long as paths are validated in order.
LEMMA ChosenPath ==
    ASSUME TypeOK, ClientInv, NEW c \in Conns, clt[c].state = "OPEN",
           NEW p, p = RoundRobin(clt[c])
    PROVE  /\ p \in Nat /\ p < Len(clt[c].flows) /\ p + 1 \in 1..Len(clt[c].flows)
           /\ race \/ clt[c].flows[p + 1].active
  <1> PICK flows : flows = clt[c].flows
    OBVIOUS
  <1> PICK last : last = clt[c].last
    OBVIOUS
  <1> DEFINE A == GetActiveSubflows(flows)
  <1>1. flows \in Seq(Subflow) /\ last \in Nat /\ Len(flows) \in Nat
    <2>1. clt[c] \in Client
      BY DEF TypeOK
    <2>2. QED BY <2>1, LenProperties DEF Client
  <1>2. flows # <<>> /\ flows[1].active
    BY DEF ClientInv
  <1>3. PICK L \in Nat : L = Len(flows) /\ L >= 1
    BY <1>1, <1>2, EmptySeq
  <1>4. A \in SUBSET (1..L)
    BY <1>3 DEF GetActiveSubflows
  <1>5. IsFiniteSet(1..L) /\ Cardinality(1..L) = L
    <2>1. 1 \in Int /\ L \in Int /\ ~(1 > L) /\ L - 1 + 1 = L
      BY <1>3
    <2>2. QED BY <2>1, FS_Interval
  <1>6. IsFiniteSet(A) /\ Cardinality(A) <= L /\ Cardinality(A) \in Nat
    BY <1>4, <1>5, FS_Subset, FS_CardinalityType
  <1>7. PICK n \in Nat : n = Cardinality(A) /\ n <= L
    BY <1>6
  <1>8. p = IF n <= 1 THEN 0 ELSE (last + 1) % n
    BY <1>7 DEF RoundRobin
  <1>9. p \in Nat /\ p < L /\ (n > 1 => p < n) /\ (n <= 1 => p = 0)
    <2>1. CASE n <= 1
      BY <1>3, <1>8, <2>1
    <2>2. CASE n > 1
      <3>1. (last + 1) % n \in 0..(n - 1)
        BY <1>1, <2>2
      <3>2. QED BY <1>7, <1>8, <2>2, <3>1
    <2>3. QED BY <2>1, <2>2
  <1>10. p + 1 \in 1..L
    BY <1>9
  <1>11. ASSUME ~race PROVE flows[p + 1].active
    <2>1. \A i, j \in 1..L : i < j /\ flows[j].active => flows[i].active
      BY <1>3, <1>11 DEF ClientInv
    <2>2. CASE n <= 1
      <3>1. p + 1 = 1
        BY <1>9, <2>2
      <3>2. QED BY <1>2, <3>1
    <2>3. CASE n > 1
      <3> SUFFICES ASSUME ~flows[p + 1].active PROVE FALSE
        OBVIOUS
      <3>1. \A j \in 1..L : flows[j].active => j \in 1..p
        <4> SUFFICES ASSUME NEW j \in 1..L, flows[j].active PROVE j \in 1..p
          OBVIOUS
        <4>1. ~(p + 1 < j)
          BY <1>10, <2>1
        <4>2. j # p + 1
          OBVIOUS
        <4>3. QED BY <1>9, <4>1, <4>2
      <3>2. A \in SUBSET (1..p)
        BY <1>3, <3>1 DEF GetActiveSubflows
      <3>3. IsFiniteSet(1..p) /\ Cardinality(1..p) = p
        BY <1>9, FS_Interval
      <3>4. Cardinality(A) <= p
        BY <3>2, <3>3, FS_Subset
      <3>5. QED BY <1>7, <1>9, <2>3, <3>4
    <2>4. QED BY <2>2, <2>3
  <1>12. QED BY <1>3, <1>9, <1>10, <1>11

\* A client sends data.
LEMMA SendDataKeeps ==
    ASSUME MultipathInv, NEW c \in DOMAIN home, SendData(c)
    PROVE  MultipathInv'
  <1> PICK p : p = RoundRobin(clt[c])
    OBVIOUS
  <1> PICK g : g = ToServer(c, p)
    OBVIOUS
  <1> PICK d : d = Pkt("DATA", 0, Server)
    OBVIOUS
  <1> PICK n : n = net
    OBVIOUS
  <1> PICK x : x = [clt[c] EXCEPT !.last = p, !.sent = @ + 1,
                                  !.stray = @ \/ (InRange(clt[c].flows, p) /\ ~clt[c].flows[p + 1].active)]
    OBVIOUS
  <1>1. StateInv /\ PacketInv(n) /\ OpeningInv(n) /\ CalmInv(n) /\ TypeOK /\ SocketInv /\ ClientInv
        /\ n \in [Flow -> Seq(Packet)]
    BY DEF MultipathInv, StateInv, TypeOK
  <1>2. c \in Conns /\ 0 \in Paths /\ setup \in Setups
    <2>1. setup \in Setups
      BY <1>1 DEF TypeOK
    <2>2. 0 \in 0..NPaths /\ 0..NPaths \subseteq Paths
      BY <2>1, Setting
    <2>3. QED BY <2>1, <2>2, Setting
  <1>3. /\ Running /\ clt[c].state = "OPEN"
        /\ clt' = [clt EXCEPT ![c] = x]
        /\ net' = IF InRange(clt[c].flows, p) /\ \E i \in 1..Len(clt[c].flows) : clt[c].flows[i].id = p
                  THEN Put(n, g, <<d>>) ELSE n
        /\ corrupt' = ~InRange(clt[c].flows, p)
        /\ UNCHANGED <<setup, server, auth, zrtt, fatal, faults, overlap, race>>
    BY DEF SendData, l4, histories
  <1>4. svr' = svr /\ bindings' = bindings /\ manager' = manager /\ home' = home /\ NPaths' = NPaths
    BY <1>3 DEF server, home, NPaths
  <1>5. /\ p \in Nat /\ p < Len(clt[c].flows) /\ p + 1 \in 1..Len(clt[c].flows)
        /\ race \/ clt[c].flows[p + 1].active
    BY <1>1, <1>2, <1>3, ChosenPath
  <1>6. clt \in [Conns -> Client] /\ clt[c] \in Client
    BY <1>1, <1>2 DEF TypeOK
  <1>7. clt[c].flows[p + 1] \in Subflow
    BY <1>5, <1>6, ElementOfSeq DEF Client
  <1>8. /\ x \in Client /\ x.state = clt[c].state /\ x.flows = clt[c].flows
        /\ x.stray => race
    <2>1. clt[c].stray => race
      BY <1>1, <1>2 DEF ClientInv
    <2>2. x.stray \in BOOLEAN
      BY <1>6, <1>7 DEF Client, Subflow, InRange
    <2>3. x.stray => race
      BY <1>5, <1>6, <2>1 DEF Client
    <2>4. x \in Client
      <3>1. PICK st : st = x.stray
        OBVIOUS
      <3>2. clt[c].sent + 1 \in Nat
        BY <1>6 DEF Client
      <3>3. x = [clt[c] EXCEPT !.last = p, !.sent = clt[c].sent + 1, !.stray = st]
        BY <1>6, <3>1 DEF Client
      <3>4. QED BY <1>5, <1>6, <2>2, <3>1, <3>2, <3>3 DEF Client
    <2>5. QED BY <1>6, <2>3, <2>4 DEF Client
  <1>9. /\ clt' \in [Conns -> Client] /\ clt'[c] = x
        /\ \A e \in Conns : e # c => clt'[e] = clt[e]
    BY <1>2, <1>3, <1>6, <1>8
  <1>10. \A e \in Conns : /\ clt'[e].flows = clt[e].flows /\ clt'[e].state = clt[e].state
                          /\ clt'[e].stray => race
                          /\ Len(clt[e].flows) \in Nat
    <2>1. \A e \in Conns : Len(clt[e].flows) \in Nat
      BY <1>6, LenProperties DEF Client
    <2>2. \A e \in Conns : clt[e].stray => race
      BY <1>1 DEF ClientInv
    <2>3. QED BY <1>8, <1>9, <2>1, <2>2
  <1>11. ClientsGrow
    BY <1>10 DEF ClientsGrow
  <1>12. PICK h \in Flow, pkts \in Seq(Packet) :
            /\ Adds(n, net', h, pkts) /\ h.to = "svr"
            /\ \A k \in 1..Len(pkts) : h = g /\ pkts[k] = d
    <2>1. CASE net' = n
      <3>1. ToServer(c, 0) \in Flow /\ ToServer(c, 0).to = "svr"
        BY <1>2 DEF ToServer, Flow
      <3>2. Adds(n, net', ToServer(c, 0), <<>>)
        BY <1>1, <2>1, <3>1, NothingAdds
      <3>3. PICK q \in Seq(Packet) : q = <<>> /\ Len(q) = 0
        <4>1. <<>> \in Seq(Packet) /\ Len(<<>>) = 0
          OBVIOUS
        <4>2. QED BY <4>1
      <3>4. \A k \in 1..Len(q) : FALSE
        BY <3>3
      <3>5. QED BY <3>1, <3>2, <3>3, <3>4
    <2>2. CASE net' # n
      <3>1. net' = Put(n, g, <<d>>) /\ \E i \in 1..Len(clt[c].flows) : clt[c].flows[i].id = p
        BY <1>3, <2>2
      <3>2. PICK i \in 1..Len(clt[c].flows) : clt[c].flows[i].id = p
        BY <3>1
      <3>3. clt[c].flows[i] \in Subflow
        BY <1>6, ElementOfSeq DEF Client
      <3>4. p \in Paths
        BY <3>2, <3>3 DEF Subflow
      <3>5. g \in Flow /\ g.to = "svr"
        BY <1>2, <3>4 DEF ToServer, Flow
      <3>6. d \in Packet
        BY <1>2 DEF Pkt, Packet
      <3>7. Adds(n, net', g, <<d>>)
        BY <1>1, <3>1, <3>5, <3>6, OnePacket, PutAdds
      <3>8. \A k \in 1..Len(<<d>>) : <<d>>[k] = d
        BY <3>6, OnePacket
      <3>9. PICK q \in Seq(Packet) : q = <<d>>
        BY <3>6, OnePacket
      <3>10. QED BY <3>5, <3>7, <3>8, <3>9
    <2>3. QED BY <2>1, <2>2
  <1>13. TypeOK'
    <2>1. net' \in [Flow -> Seq(Packet)]
      BY <1>12 DEF Adds
    <2>2. corrupt' \in BOOLEAN
      BY <1>3
    <2>3. QED BY <1>1, <1>3, <1>4, <1>9, <2>1, <2>2 DEF TypeOK
  <1>14. ClientInv'
    BY <1>1, <1>3, <1>4, <1>10 DEF ClientInv
  <1>15. NodeInv'
    BY <1>1, <1>3, <1>11, NodeKept DEF StateInv
  <1>16. ValidInv'
    BY <1>1, <1>4, <1>10, ValidSame DEF StateInv, ValidInv
  <1>17. ServedInv'
    BY <1>1, <1>3, <1>4, <1>10, ServedKept DEF StateInv
  <1>18. ASSUME NEW k \in 1..Len(pkts) PROVE PacketOk(h, pkts[k])' /\ ~Opening(pkts[k])
    <2>1. h = g /\ pkts[k] = d
      BY <1>12
    <2>2. clt'[c].state = "OPEN" /\ p < Len(clt'[c].flows)
      BY <1>2, <1>3, <1>5, <1>10
    <2>3. g.conn = c /\ g.path = p /\ g.to = "svr" /\ d.type = "DATA"
      BY DEF ToServer, Pkt
    <2>4. PacketOk(g, d)' /\ ~Opening(d)
      BY <2>2, <2>3 DEF PacketOk, Opening
    <2>5. QED BY <2>1, <2>4
  <1>19. OpeningInv(net)'
    <2>1. SameSockets
      BY <1>4 DEF SameSockets
    <2>2. QED BY <1>1, <1>12, <1>18, <2>1, OpeningKept
  <1>20. ErrorInv'
    BY <1>3, <1>5 DEF ErrorInv, Running, InRange
  <1>21. Undisturbed' <=> Undisturbed
    BY <1>3, <1>4 DEF Undisturbed
  <1>22. ASSUME Undisturbed' PROVE CalmClients' /\ CalmWires(net)'
    <2>1. CalmServer /\ CalmClients /\ CalmWires(n)
      BY <1>1, <1>21, <1>22 DEF CalmInv
    <2>2. CalmClients'
      BY <1>3, <1>4, <1>10, <2>1, CalmClientsKept
    <2>3. ServerGrows
      BY <1>1, <1>3, <1>11, <1>13, ClientSide DEF StateInv, Grows
    <2>4. \A s \in 1..Len(svr') : ~(s > Len(svr))
      <3>1. Len(svr) \in Nat
        BY <1>1, LenProperties DEF TypeOK
      <3>2. QED BY <1>4, <3>1
    <2>5. CalmWires(n)'
      BY <1>1, <1>3, <1>10, <1>13, <2>1, <2>3, <2>4, CalmKept
    <2>6. CalmWires(net)'
      BY <1>12, <2>5, CalmAdds
    <2>7. QED BY <2>2, <2>6
  <1>23. Undisturbed' => CalmServer
    BY <1>1, <1>21 DEF CalmInv
  <1>24. QED BY <1>1, <1>3, <1>11, <1>12, <1>13, <1>14, <1>15, <1>16, <1>17, <1>18, <1>19,
                <1>20, <1>22, <1>23, ClientDone

\* The bindings without the first one of socket s.
LEMMA BindingRemoved ==
    ASSUME TypeOK, NEW s, DoClose(s)
    PROVE  /\ bindings' \in Seq(Binding)
           /\ \A k \in 1..Len(bindings') : \E j \in 1..Len(bindings) : bindings'[k] = bindings[j]
           /\ \A t, k : /\ k \in 1..Len(bindings) /\ bindings[k].sock = t /\ t # s
                        /\ \A j \in 1..(k - 1) : bindings[j].sock < t
                     => \E l \in 1..Len(bindings') :
                           /\ bindings'[l].sock = t
                           /\ \A j \in 1..(l - 1) : bindings'[j].sock < t
  <1> DEFINE I == {k \in 1..Len(bindings) : bindings[k].sock = s}
  <1> PICK i : i = SelectInSeq(bindings, LAMBDA b : b.sock = s)
    OBVIOUS
  <1>1. bindings \in Seq(Binding) /\ Len(bindings) \in Nat
    BY LenProperties DEF TypeOK
  <1>2. /\ i = IF I # {} THEN Min(I) ELSE 0
        /\ bindings' = IF i = 0 THEN bindings ELSE RemoveAt(bindings, i)
    BY DEF SelectInSeq, DoClose
  <1>3. i = 0 \/ (i \in 1..Len(bindings) /\ bindings[i].sock = s)
    <2>1. CASE I # {}
      <3>1. I \in SUBSET Nat
        BY <1>1
      <3>2. Min(I) \in I
        BY <2>1, <3>1, LeastIn
      <3>3. QED BY <1>2, <2>1, <3>2
    <2>2. QED BY <1>2, <2>1
  <1> HIDE DEF I
  <1>4. CASE i = 0
    <2>1. bindings' = bindings
      BY <1>2, <1>4
    <2>2. QED BY <1>1, <2>1
  <1>5. CASE i # 0 /\ i \in 1..Len(bindings) /\ bindings[i].sock = s
    <2>1. bindings' = RemoveAt(bindings, i)
      BY <1>2, <1>5
    <2>2. /\ bindings' \in Seq(Binding) /\ Len(bindings') = Len(bindings) - 1
          /\ \A j \in 1..(Len(bindings) - 1) :
                bindings'[j] = IF j < i THEN bindings[j] ELSE bindings[j + 1]
      BY <1>1, <1>5, <2>1, RemoveFacts
    <2>3. PICK L \in Nat : L = Len(bindings) /\ i \in 1..L
      BY <1>1, <1>5
    <2>4. ASSUME NEW k \in 1..Len(bindings')
          PROVE  \E j \in 1..Len(bindings) : bindings'[k] = bindings[j]
      <3>1. k \in 1..(L - 1) /\ k \in 1..L /\ k + 1 \in 1..L
        BY <2>2, <2>3
      <3>2. QED BY <2>2, <2>3, <3>1
    <2>5. ASSUME NEW t, NEW k \in 1..Len(bindings), bindings[k].sock = t, t # s,
                 \A j \in 1..(k - 1) : bindings[j].sock < t
          PROVE  \E l \in 1..Len(bindings') :
                           /\ bindings'[l].sock = t
                           /\ \A j \in 1..(l - 1) : bindings'[j].sock < t
      <3>1. k # i /\ k \in 1..L
        BY <1>5, <2>3, <2>5
      <3>2. CASE k < i
        <4>1. k \in 1..(L - 1)
          BY <2>3, <3>1, <3>2
        <4>2. \A j \in 1..(k - 1) : j < i /\ j \in 1..(L - 1)
          BY <2>3, <3>2, <4>1
        <4>3. \A j \in 1..(k - 1) : bindings'[j].sock < t
          BY <2>2, <2>3, <2>5, <4>2
        <4>4. bindings'[k].sock = t
          BY <2>2, <2>3, <2>5, <3>2, <4>1
        <4>5. QED BY <2>2, <2>3, <4>1, <4>3, <4>4
      <3>3. CASE k > i
        <4>1. PICK l \in 1..(L - 1) : l = k - 1 /\ l >= i
          <5>1. k \in Int /\ i \in Int /\ k <= L /\ i >= 1
            BY <2>3, <3>1
          <5>2. k - 1 \in 1..(L - 1) /\ k - 1 >= i
            BY <3>3, <5>1
          <5>3. QED BY <5>2
        <4>2. bindings'[l] = bindings[k]
          <5>1. ~(l < i) /\ l + 1 = k
            BY <2>3, <3>1, <4>1
          <5>2. QED BY <2>2, <2>3, <4>1, <5>1
        <4>3. ASSUME NEW j \in 1..(l - 1) PROVE bindings'[j].sock < t
          <5>1. j \in 1..(L - 1) /\ j \in 1..(k - 1) /\ j + 1 \in 1..(k - 1)
            BY <2>3, <3>1, <4>1
          <5>2. bindings'[j] = bindings[j] \/ bindings'[j] = bindings[j + 1]
            BY <2>2, <2>3, <5>1
          <5>3. QED BY <2>5, <5>1, <5>2
        <4>4. QED BY <2>2, <2>3, <2>5, <4>1, <4>2, <4>3
      <3>4. k < i \/ k > i
        <4>1. k \in Int /\ i \in Int
          BY <2>3, <3>1
        <4>2. QED BY <3>1, <4>1
      <3>5. QED BY <3>2, <3>3, <3>4
    <2>6. QED BY <2>2, <2>4, <2>5
  <1>6. QED BY <1>3, <1>4, <1>5

\* A socket of the server is closed.
LEMMA DoCloseKeeps ==
    ASSUME MultipathInv, NEW s \in 1..Len(svr), DoClose(s)
    PROVE  MultipathInv'
  <1> PICK n : n = net
    OBVIOUS
  <1>1. StateInv /\ PacketInv(n) /\ OpeningInv(n) /\ TypeOK /\ SocketInv
        /\ n \in [Flow -> Seq(Packet)] /\ ClientInv
    BY DEF MultipathInv, StateInv, TypeOK
  <1>2. /\ Running /\ svr[s].state = "OPEN" /\ svr' = [svr EXCEPT ![s].state = "IDLE"]
        /\ UNCHANGED <<setup, clt, manager, auth, zrtt, net, fatal, corrupt, faults, overlap, race>>
    BY DEF DoClose, l4, histories
  <1>3. svr \in Seq(Clone) /\ Len(svr) \in Nat /\ svr[s] \in Clone
    BY <1>1, LenProperties, ElementOfSeq DEF TypeOK
  <1>4. PICK x : x = [svr[s] EXCEPT !.state = "IDLE"]
    OBVIOUS
  <1>5. x \in Clone /\ x.state = "IDLE" /\ x.conn = svr[s].conn /\ x.flows = svr[s].flows
    BY <1>3, <1>4 DEF Clone
  <1>6. svr' = [svr EXCEPT ![s] = x]
    BY <1>2, <1>4
  <1>7. /\ svr' \in Seq(Clone) /\ Len(svr') = Len(svr) /\ svr'[s] = x
        /\ \A t \in 1..Len(svr) : t # s => svr'[t] = svr[t]
    BY <1>3, <1>5, <1>6, ExceptSeq
  <1>8. \A t \in 1..Len(svr) :
           /\ svr'[t].conn = svr[t].conn /\ svr'[t].flows = svr[t].flows
           /\ svr'[t].state = IF t = s THEN "IDLE" ELSE svr[t].state
           /\ Len(svr[t].flows) \in Nat
    <2>1. \A t \in 1..Len(svr) : Len(svr[t].flows) \in Nat
      BY <1>3, LenProperties, ElementOfSeq DEF Clone
    <2>2. QED BY <1>5, <1>7, <2>1
  <1>9. /\ bindings' \in Seq(Binding)
        /\ \A k \in 1..Len(bindings') : \E j \in 1..Len(bindings) : bindings'[k] = bindings[j]
        /\ \A t, k : /\ k \in 1..Len(bindings) /\ bindings[k].sock = t /\ t # s
                     /\ \A j \in 1..(k - 1) : bindings[j].sock < t
                  => \E l \in 1..Len(bindings') :
                        /\ bindings'[l].sock = t
                        /\ \A j \in 1..(l - 1) : bindings'[j].sock < t
    BY <1>1, BindingRemoved
  <1>10. TypeOK'
    BY <1>1, <1>2, <1>7, <1>9 DEF TypeOK
  <1>11. ServerGrows
    BY <1>2, <1>3, <1>7, <1>8 DEF ServerGrows
  <1>12. /\ Grows /\ ClientInv' /\ NodeInv' /\ ValidInv' /\ ServedInv'
    BY <1>1, <1>2, <1>10, <1>11, ServerSide DEF StateInv
  <1>13. SocketInv'
    <2>1. svr' # <<>> => manager' > 0
      <3>1. svr # <<>>
        BY <1>3, EmptySeq
      <3>2. QED BY <1>1, <1>2, <3>1 DEF SocketInv
    <2>2. \A k \in 1..Len(bindings') : bindings'[k].sock \in 1..Len(svr')
      BY <1>1, <1>7, <1>9 DEF SocketInv
    <2>3. ASSUME NEW t \in 1..Len(svr)
          PROVE  /\ clt'[svr'[t].conn].state # "IDLE"
                 /\ svr'[t].flows # <<>> /\ svr'[t].flows[1].active
                 /\ svr'[t].state # "IDLE" =>
                       \E k \in 1..Len(bindings') :
                           /\ bindings'[k].sock = t
                           /\ \A j \in 1..(k - 1) : bindings'[j].sock < t
      <3>1. /\ clt'[svr'[t].conn].state # "IDLE"
            /\ svr'[t].flows # <<>> /\ svr'[t].flows[1].active
        BY <1>1, <1>2, <1>8 DEF SocketInv
      <3>2. ASSUME svr'[t].state # "IDLE"
            PROVE  \E k \in 1..Len(bindings') :
                           /\ bindings'[k].sock = t
                           /\ \A j \in 1..(k - 1) : bindings'[j].sock < t
        <4>1. t # s /\ svr[t].state # "IDLE"
          BY <1>8, <3>2
        <4>2. PICK k \in 1..Len(bindings) : /\ bindings[k].sock = t
                                            /\ \A j \in 1..(k - 1) : bindings[j].sock < t
          BY <1>1, <4>1 DEF SocketInv
        <4>3. QED BY <1>9, <4>1, <4>2
      <3>3. QED BY <3>1, <3>2
    <2>4. QED BY <1>7, <2>1, <2>2, <2>3 DEF SocketInv
  <1>14. PacketInv(net)'
    <2>1. PICK g \in Flow : TRUE \/ Flow = {}
      <3>1. PICK c \in Conns : TRUE
        BY <1>3 DEF Clone
      <3>2. 0 \in Paths
        <4>1. setup \in Setups
          BY <1>1 DEF TypeOK
        <4>2. 0 \in 0..NPaths /\ 0..NPaths \subseteq Paths
          BY <4>1, Setting
        <4>3. QED BY <4>2
      <3>3. ToServer(c, 0) \in Flow
        BY <3>1, <3>2 DEF ToServer, Flow
      <3>4. QED BY <3>3
    <2>2. PICK pkts : pkts = <<>> /\ Len(pkts) = 0
      OBVIOUS
    <2>3. Adds(n, net', g, pkts)
      BY <1>1, <1>2, <2>1, <2>2, NothingAdds
    <2>4. \A k \in 1..Len(pkts) : PacketOk(g, pkts[k])'
      BY <2>2
    <2>5. QED BY <1>1, <1>10, <1>12, <2>1, <2>3, <2>4, PacketsStep
  <1>15. OpeningInv(net)'
    <2>1. OneOpening(net)'
      BY <1>1, <1>2 DEF OpeningInv, OneOpening, Opening
    <2>2. OneSocket(net)'
      BY <1>1, <1>2, <1>7, <1>8 DEF OpeningInv, OneSocket, Opening
    <2>3. FirstStuck'
      BY <1>1, <1>2, <1>7, <1>8 DEF OpeningInv, FirstStuck
    <2>4. QED BY <2>1, <2>2, <2>3 DEF OpeningInv
  <1>16. ~Undisturbed'
    BY <1>7, <1>8 DEF Undisturbed
  <1>17. QED BY <1>10, <1>12, <1>13, <1>14, <1>15, <1>16 DEF MultipathInv, CalmInv

-----------------------------------------------------------------------------
\* The invariant holds initially.
LEMMA Initially ==
    ASSUME Init
    PROVE  MultipathInv
  <1> PICK idle : idle = [state |-> "IDLE", flows |-> <<>>, last |-> 0, sent |-> 0, stray |-> FALSE]
    OBVIOUS
  <1>1. /\ setup \in Setups /\ clt = [c \in Conns |-> idle]
        /\ svr = <<>> /\ bindings = <<>> /\ manager = 0
        /\ auth = [n \in Nodes \cup {Server} |-> {}] /\ zrtt = {}
        /\ net = [f \in Flow |-> <<>>]
        /\ fatal = FALSE /\ corrupt = FALSE /\ faults = 0 /\ overlap = FALSE /\ race = FALSE
    BY DEF Init
  <1>2. idle \in Client /\ idle.state = "IDLE" /\ idle.flows = <<>> /\ idle.stray = FALSE
    BY DEF Client
  <1>3. \A c \in Conns : clt[c] = idle
    BY <1>1
  <1>4. \A f \in Flow : net[f] = <<>>
    BY <1>1
  <1>5. Len(svr) = 0 /\ Len(bindings) = 0 /\ Len(idle.flows) = 0 /\ \A f \in Flow : Len(net[f]) = 0
    BY <1>1, <1>2, <1>4
  <1>6. TypeOK
    <2>1. clt \in [Conns -> Client] /\ net \in [Flow -> Seq(Packet)]
      BY <1>1, <1>2
    <2>2. auth \in [Nodes \cup {Server} -> SUBSET (Address \cup ({Server} \X Paths))]
      BY <1>1
    <2>3. faults \in 0..MaxFaults /\ manager \in 0..Len(svr)
      BY <1>1, <1>5, MultipathAssumption
    <2>4. svr \in Seq(Clone) /\ bindings \in Seq(Binding)
      BY <1>1
    <2>5. {fatal, corrupt, overlap, race} \subseteq BOOLEAN /\ zrtt \subseteq Nodes \cup {Server}
      BY <1>1
    <2>6. QED BY <1>1, <2>1, <2>2, <2>3, <2>4, <2>5 DEF TypeOK
  <1>7. ClientInv
    BY <1>2, <1>3, <1>5 DEF ClientInv
  <1>8. NodeInv
    BY <1>1 DEF NodeInv
  <1>9. SocketInv
    BY <1>1, <1>5 DEF SocketInv
  <1>10. ValidInv /\ ServedInv
    BY <1>2, <1>3, <1>5 DEF ValidInv, ServedInv
  <1>11. PacketInv(net) /\ CalmWires(net)
    BY <1>5 DEF PacketInv, CalmWires
  <1>12. OpeningInv(net)
    BY <1>5 DEF OpeningInv, OneOpening, OneSocket, FirstStuck
  <1>13. CalmServer
    BY <1>5 DEF CalmServer
  <1>14. CalmClients
    BY <1>2, <1>3, <1>5 DEF CalmClients
  <1>15. QED BY <1>1, <1>6, <1>7, <1>8, <1>9, <1>10, <1>11, <1>12, <1>13, <1>14
             DEF MultipathInv, CalmInv

\* Every step keeps the invariant.
LEMMA StepKeeps ==
    ASSUME MultipathInv, [Next]_vars
    PROVE  MultipathInv'
  <1>1. ASSUME NEW c \in DOMAIN home, Connect(c) PROVE MultipathInv'
    BY <1>1, ConnectKeeps
  <1>2. ASSUME NEW c \in DOMAIN home, SendData(c) PROVE MultipathInv'
    BY <1>2, SendDataKeeps
  <1>3. ASSUME NEW f \in Flow, Lose(f) PROVE MultipathInv'
    BY <1>3, LoseKeeps
  <1>4. ASSUME NEW f \in Flow, NEW i \in 1..Len(net[f]), Deliver(f, i) PROVE MultipathInv'
    BY <1>4, DeliverKeeps
  <1>5. ASSUME NEW s \in 1..Len(svr), DoClose(s) PROVE MultipathInv'
    BY <1>5, DoCloseKeeps
  <1>6. CASE UNCHANGED vars
    BY <1>6, StutterKeeps
  <1>7. QED BY <1>1, <1>2, <1>3, <1>4, <1>5, <1>6 DEF Next

\* The inductive invariant holds in every state, whatever connections there are,
\* on whatever nodes and paths, and whatever is lost, overtaken or closed.
THEOREM MultipathInvariant == Spec => []MultipathInv
  <1>1. Init => MultipathInv
    BY Initially
  <1>2. MultipathInv /\ [Next]_vars => MultipathInv'
    BY StepKeeps
  <1>3. QED BY <1>1, <1>2, PTL DEF Spec

\* The sockets, the bindings of the multiplexer, the subflows of each socket
\* and the packets on their way keep their types.
THEOREM TypeCorrect == Spec => []TypeOK
  <1>1. MultipathInv => TypeOK
    BY DEF MultipathInv
  <1>2. QED BY <1>1, MultipathInvariant, PTL

\* m_subflows can be indexed by path id, at clients and at the server, as long
\* as nothing is lost, overtaken or closed and no two handshakes overlap.
THEOREM IndexAgrees == Spec => []IndexIsPathId
  <1>1. MultipathInv => IndexIsPathId
    BY DEF MultipathInv, CalmInv, CalmServer, CalmClients, IndexIsPathId
  <1>2. QED BY <1>1, MultipathInvariant, PTL

\* A path a client takes for active is active for the socket ForwardUp finds
\* for the connection, whatever happens.
THEOREM ActiveAgrees == Spec => []ActiveAtBoth
  <1>1. ASSUME MultipathInv PROVE ActiveAtBoth
    <2>1. TypeOK /\ SocketInv /\ ValidInv /\ FirstStuck
      BY <1>1 DEF MultipathInv, OpeningInv
    <2> SUFFICES ASSUME NEW c \in Conns, SocketOf(c) # 0,
                        NEW i \in 1..Len(clt[c].flows), clt[c].flows[i].active
                 PROVE  /\ i <= Len(svr[SocketOf(c)].flows)
                        /\ svr[SocketOf(c)].flows[i].active
      BY DEF ActiveAtBoth
    <2>2. PICK s : s = SocketOf(c)
      OBVIOUS
    <2>3. s \in 1..Len(svr) /\ svr[s].conn = c
      BY <2>1, <2>2, SocketFound
    <2>4. Len(svr) \in Nat /\ Len(clt[c].flows) \in Nat
      BY <2>1, LenProperties DEF TypeOK, Client
    <2>5. CASE i = 1
      <3>1. svr[s].flows # <<>> /\ svr[s].flows[1].active
        BY <2>1, <2>3 DEF SocketInv
      <3>2. svr[s].flows \in Seq(Subflow)
        <4>1. svr[s] \in Clone
          BY <2>1, <2>3, ElementOfSeq DEF TypeOK
        <4>2. QED BY <4>1 DEF Clone
      <3>3. Len(svr[s].flows) >= 1
        BY <3>1, <3>2, EmptySeq, LenProperties
      <3>4. QED BY <2>2, <2>5, <3>1, <3>3
    <2>6. CASE i # 1
      <3>1. i \in 2..Len(clt[c].flows) /\ (i - 1) + 1 = i
        BY <2>4, <2>6
      <3>2. Validated(c, i - 1)
        BY <2>1, <3>1 DEF ValidInv
      <3>3. PICK t \in 1..Len(svr) :
               /\ svr[t].conn = c /\ \A u \in 1..(t - 1) : svr[u].conn # c
               /\ svr[t].state \in {"OPEN", "IDLE"}
               /\ i - 1 < Len(svr[t].flows) /\ svr[t].flows[(i - 1) + 1].active
        BY <3>2 DEF Validated
      <3>4. t = s
        <4> SUFFICES ASSUME t # s PROVE FALSE
          OBVIOUS
        <4>1. ~(s < t)
          BY <2>3, <2>4, <3>3
        <4>2. t < s
          BY <2>3, <2>4, <4>1
        <4>3. svr[t].state = "CONNECTING_SVR"
          BY <2>1, <2>3, <3>3, <4>2 DEF FirstStuck
        <4>4. QED BY <3>3, <4>3
      <3>5. Len(svr[s].flows) \in Nat
        <4>1. svr[s] \in Clone
          BY <2>1, <2>3, ElementOfSeq DEF TypeOK
        <4>2. QED BY <4>1, LenProperties DEF Clone
      <3>6. i <= Len(svr[s].flows) /\ svr[s].flows[i].active
        BY <3>1, <3>3, <3>4, <3>5
      <3>7. QED BY <2>2, <3>6
    <2>7. QED BY <2>5, <2>6
  <1>2. QED BY <1>1, MultipathInvariant, PTL

\* The round robin, which answers an index into the active paths, picks a path
\* that is not active only after a path was validated before one of a lower id.
THEOREM SendsValidated == Spec => []SendsOnActive
  <1>1. MultipathInv => SendsOnActive
    BY DEF MultipathInv, ClientInv, SendsOnActive
  <1>2. QED BY <1>1, MultipathInvariant, PTL

\* Undisturbed, the program stops on a packet without a socket only when a node
\* has opened two connections.
THEOREM StopsForShared == Spec => []StopsOnlyShared
  <1>1. MultipathInv => StopsOnlyShared
    BY DEF MultipathInv, StopsOnlyShared
  <1>2. QED BY <1>1, MultipathInvariant, PTL
=============================================================================
