-------------------------- MODULE ConnectionProofs --------------------------
(***************************************************************************)
(* Proofs about Connection, for every number of frames, faults and packets *)
(* on the wires, and for every initial value of the flags that the         *)
(* constructors leave open.  ConnectionInv is inductive.  Each handler is  *)
(* summarized by what it does to the socket and by the packets it sends.   *)
(***************************************************************************)
EXTENDS Connection, SequenceTheorems, WellFoundedInduction, TLAPS

\* The packets of two sequences sent one after the other.
LEMMA ConcatSet ==
    ASSUME NEW S, NEW s \in Seq(S), NEW t \in Seq(S)
    PROVE  s \o t \in Seq(S) /\ ToSet(s \o t) = ToSet(s) \cup ToSet(t)
  <1>1. s \o t \in Seq(S) /\ Len(s \o t) = Len(s) + Len(t) /\ Len(s) \in Nat /\ Len(t) \in Nat
    BY ConcatProperties, LenProperties
  <1>2. \A i \in 1..Len(s) : (s \o t)[i] = s[i] /\ i \in 1..Len(s \o t)
    BY <1>1, ConcatProperties
  <1>3. \A i \in 1..Len(t) : (s \o t)[Len(s) + i] = t[i] /\ Len(s) + i \in 1..Len(s \o t)
    BY <1>1, ConcatProperties
  <1>4. ASSUME NEW i \in 1..Len(s \o t)
        PROVE  (s \o t)[i] \in ToSet(s) \cup ToSet(t)
    <2>1. CASE i <= Len(s)
      BY <1>1, <1>2, <2>1, LenProperties DEF ToSet
    <2>2. CASE i > Len(s)
      <3>1. i - Len(s) \in 1..Len(t) /\ i = Len(s) + (i - Len(s))
        BY <1>1, <2>2
      <3>2. (s \o t)[i] = t[i - Len(s)]
        BY <3>1, <1>3
      <3>3. QED BY <3>1, <3>2, LenProperties DEF ToSet
    <2>3. QED BY <1>1, <2>1, <2>2
  <1>5. DOMAIN (s \o t) = 1..Len(s \o t) /\ DOMAIN s = 1..Len(s) /\ DOMAIN t = 1..Len(t)
    BY <1>1, LenProperties
  <1>6. ToSet(s) \cup ToSet(t) \subseteq ToSet(s \o t)
    BY <1>2, <1>3, <1>5 DEF ToSet
  <1>7. ToSet(s \o t) \subseteq ToSet(s) \cup ToSet(t)
    BY <1>4, <1>5 DEF ToSet
  <1>8. QED BY <1>1, <1>6, <1>7

\* The packets of short sequences.
LEMMA ShortSet ==
    /\ ToSet(<<>>) = {}
    /\ \A p : ToSet(<<p>>) = {p}
  BY DEF ToSet

\* A packet that arrives is taken off the wire.
LEMMA RemoveSet ==
    ASSUME NEW S, NEW s \in Seq(S), NEW i \in 1..Len(s)
    PROVE  /\ RemoveAt(s, i) \in Seq(S) /\ ToSet(RemoveAt(s, i)) \subseteq ToSet(s)
           /\ s[i] \in ToSet(s) /\ s[i] \in S
           /\ Len(RemoveAt(s, i)) = Len(s) - 1
  <1>1. Len(s) \in Nat /\ DOMAIN s = 1..Len(s)
    BY LenProperties
  <1>2. i \in Nat /\ 1 <= i /\ i <= Len(s)
    BY <1>1
  <1> DEFINE a == SubSeq(s, 1, i - 1)
             b == SubSeq(s, i + 1, Len(s))
  <1>3. /\ a \in Seq(S) /\ Len(a) = i - 1 /\ \A m \in 1..(i - 1) : a[m] = s[m]
    <2>1. \A m \in 1..(i - 1) : m \in 1..Len(s) /\ s[m] \in S
      BY <1>1
    <2>2. /\ a \in Seq(S)
          /\ Len(a) = IF 1 <= i - 1 THEN (i - 1) - 1 + 1 ELSE 0
          /\ \A m \in 1..((i - 1) - 1 + 1) : a[m] = s[1 + m - 1]
      BY <1>1, <2>1, SubSeqProperties
    <2> HIDE DEF a
    <2>3. (i - 1) - 1 + 1 = i - 1 /\ (i - 1 < 1 => i - 1 = 0) /\ \A m \in Nat : 1 + m - 1 = m
      OBVIOUS
    <2>4. QED BY <1>1, <2>2, <2>3
  <1>4. /\ b \in Seq(S) /\ Len(b) = Len(s) - i /\ \A m \in 1..(Len(s) - i) : b[m] = s[i + m]
    <2>1. \A m \in (i + 1)..Len(s) : m \in 1..Len(s) /\ s[m] \in S
      BY <1>1
    <2>2. /\ b \in Seq(S)
          /\ Len(b) = IF i + 1 <= Len(s) THEN Len(s) - (i + 1) + 1 ELSE 0
          /\ \A m \in 1..(Len(s) - (i + 1) + 1) : b[m] = s[(i + 1) + m - 1]
      BY <1>1, <2>1, SubSeqProperties
    <2> HIDE DEF b
    <2> HIDE DEF a
    <2>3. Len(s) - (i + 1) + 1 = Len(s) - i /\ \A m \in Nat : (i + 1) + m - 1 = i + m
      BY <1>1, <1>2
    <2>4. \A n, m \in Nat : m <= n => (m + 1 <= n) \/ (~(m + 1 <= n) /\ n - m = 0)
      OBVIOUS
    <2>5. (i + 1 <= Len(s)) \/ (~(i + 1 <= Len(s)) /\ Len(s) - i = 0)
      BY <1>1, <1>2, <2>4
    <2>6. i + 1 <= Len(s) => Len(b) = Len(s) - i
      BY <2>2, <2>3
    <2>7. ~(i + 1 <= Len(s)) => Len(b) = 0
      BY <2>2
    <2>8. Len(b) = Len(s) - i
      BY <2>5, <2>6, <2>7
    <2>9. \A m \in 1..(Len(s) - i) : b[m] = s[i + m]
      <3> SUFFICES ASSUME NEW m \in 1..(Len(s) - i) PROVE b[m] = s[i + m]
        OBVIOUS
      <3>1. m \in Nat /\ m \in 1..(Len(s) - (i + 1) + 1)
        BY <1>1, <1>2, <2>3
      <3>2. QED BY <3>1, <2>2, <2>3
    <2>10. QED BY <2>2, <2>8, <2>9
  <1> HIDE DEF a, b
  <1>5. ToSet(a) \subseteq ToSet(s) /\ ToSet(b) \subseteq ToSet(s)
    <2>1. DOMAIN a = 1..(i - 1) /\ DOMAIN b = 1..(Len(s) - i)
      BY <1>3, <1>4, LenProperties
    <2>2. \A m \in 1..(i - 1) : a[m] \in ToSet(s)
      <3> SUFFICES ASSUME NEW m \in 1..(i - 1) PROVE s[m] \in ToSet(s)
        BY <1>3
      <3>1. m \in DOMAIN s
        BY <1>1
      <3>2. QED BY <3>1 DEF ToSet
    <2>3. \A m \in 1..(Len(s) - i) : b[m] \in ToSet(s)
      <3> SUFFICES ASSUME NEW m \in 1..(Len(s) - i) PROVE s[i + m] \in ToSet(s)
        BY <1>4
      <3>1. i + m \in DOMAIN s
        BY <1>1
      <3>2. QED BY <3>1 DEF ToSet
    <2>4. QED BY <2>1, <2>2, <2>3 DEF ToSet
  <1>6. s[i] \in S /\ s[i] \in ToSet(s)
    BY <1>1 DEF ToSet
  <1>7. RemoveAt(s, i) = a \o b
    BY DEF RemoveAt, a, b
  <1>8. Len(a \o b) = Len(s) - 1
    <2>1. Len(a \o b) = Len(a) + Len(b)
      BY <1>3, <1>4, ConcatProperties
    <2>2. QED BY <1>1, <1>3, <1>4, <2>1
  <1>9. QED BY <1>3, <1>4, <1>5, <1>6, <1>7, <1>8, ConcatSet

\* So is the first packet when it is lost.
LEMMA TailSet ==
    ASSUME NEW S, NEW s \in Seq(S), s # <<>>
    PROVE  Tail(s) \in Seq(S) /\ ToSet(Tail(s)) \subseteq ToSet(s)
  <1>1. Tail(s) \in Seq(S) /\ Len(Tail(s)) = Len(s) - 1 /\ Len(s) \in Nat \ {0}
    BY HeadTailProperties, EmptySeq
  <1>2. \A i \in 1..Len(Tail(s)) : Tail(s)[i] = s[i + 1] /\ i + 1 \in 1..Len(s)
    BY <1>1, HeadTailProperties
  <1>3. QED BY <1>1, <1>2, LenProperties DEF ToSet

\* A nonempty set of numbers has a least element.
LEMMA MinNat ==
    ASSUME NEW S \in SUBSET Nat, S # {}
    PROVE  Min(S) \in Nat
  <1> DEFINE R == OpToRel(<, Nat)
  <1>1. IsWellFoundedOn(R, Nat)
    BY NatLessThanWellFounded, Zenon
  <1>2. \A x, y \in Nat : x < y => <<x, y>> \in R
    BY DEF OpToRel
  <1> HIDE DEF R
  <1>3. PICK x \in S : \A y \in S : ~(<<y, x>> \in R)
    BY <1>1, WFMin
  <1>4. \A y \in S : ~(y < x)
    BY <1>2, <1>3
  <1>5. \A y \in S : x <= y
    BY <1>4
  <1>6. QED BY <1>5 DEF Min

-----------------------------------------------------------------------------
\* A packet of the program is well-formed.
LEMMA PktType ==
    ASSUME vers \in BOOLEAN,
           NEW type \in {"INITIAL", "HANDSHAKE", "ZRTT", "NEGOTIATION", "SHORT"},
           NEW body \in {"stream", "ack", "close", "versions"},
           NEW n \in Nat, NEW acks \in SUBSET Nat
    PROVE  /\ Pkt(type, body, n, acks) \in Packet
           /\ Pkt(type, body, n, acks).type = type
           /\ Pkt(type, body, n, acks).body = body
           /\ Pkt(type, body, n, acks).n = n
  BY DEF Pkt, Packet

\* The packets a handler sends, of the types and bodies given.
Sends(out, types, bodies) ==
    /\ out \in Seq(Packet)
    /\ \A p \in ToSet(out) : p.type \in types /\ p.body \in bodies

\* No packet, and one.
LEMMA SendsOne ==
    ASSUME vers \in BOOLEAN,
           NEW type \in {"INITIAL", "HANDSHAKE", "ZRTT", "NEGOTIATION", "SHORT"},
           NEW body \in {"stream", "ack", "close", "versions"},
           NEW n \in Nat, NEW acks \in SUBSET Nat
    PROVE  /\ Sends(<<>>, {}, {})
           /\ Sends(<<Pkt(type, body, n, acks)>>, {type}, {body})
  <1>1. <<>> \in Seq(Packet) /\ <<Pkt(type, body, n, acks)>> \in Seq(Packet)
    BY PktType
  <1>2. QED BY <1>1, PktType, ShortSet DEF Sends

\* Nothing is outstanding in a sent list.
Clear(list) == list = {}

\* What the handlers below the state machine do to a socket r: at most close it
\* or send all of stream 0, which leaves a packet in the sent list.  A draining
\* period starts on a socket that is idle or has nothing outstanding.
Effect(r, x) ==
    /\ x.r \in Socket /\ x.out \in Seq(Packet)
    /\ x.r.state \in {r.state, "CLOSING"}
    /\ x.r.pending = r.pending /\ x.r.ack = r.ack /\ x.r.could = r.could
    /\ \/ /\ x.r.frames = r.frames /\ x.r.stream0 = r.stream0
          /\ x.r.idle = r.idle /\ x.r.sent \subseteq r.sent
       \/ /\ x.r.frames > r.frames /\ x.r.stream0 = 0
          /\ x.r.idle = TRUE /\ ~Clear(x.r.sent) /\ x.r.draining = FALSE
    /\ x.r.draining = TRUE =>
          \/ r.draining = TRUE
          \/ r.state \notin {"IDLE", "CLOSING"} /\ (r.idle = FALSE \/ Clear(x.r.sent))
    /\ r.draining = TRUE => x.r.draining = TRUE \/ x.r.stream0 = 0
    /\ r.state = "OPEN" /\ x.r.state = "CLOSING" /\ x.r.idle = TRUE =>
          Clear(x.r.sent \cap 1..r.frames)
    /\ \A p \in ToSet(x.out) :
          /\ p.body # "ack"
          /\ p.type \in {"HANDSHAKE", "ZRTT"} =>
                \/ r.state = "CONNECTING_SVR"
                \/ r.state = "OPEN" /\ x.r.state = "OPEN" /\ x.r.frames > r.frames

\* What Close does.
Closed(r, x) ==
    /\ x.r \in Socket
    /\ Sends(x.out, {"SHORT"}, {"close"})
    /\ x.r.state \in {r.state, "CLOSING"}
    /\ x.r.sent = r.sent /\ x.r.frames = r.frames /\ x.r.stream0 = r.stream0
    /\ x.r.pending = r.pending /\ x.r.ack = r.ack /\ x.r.could = r.could
    /\ x.r.idle = r.idle
    /\ r.draining = TRUE => x.r.draining = TRUE
    /\ x.r.draining = TRUE =>
          \/ r.draining = TRUE
          \/ r.state \notin {"IDLE", "CLOSING"} /\ (r.idle = FALSE \/ Clear(r.sent))
    /\ x.r.state # r.state => Clear(r.sent) \/ (r.idle = FALSE /\ x.r.draining = TRUE)
    /\ r.idle = FALSE => x.r.state \in {"IDLE", "CLOSING"}
    /\ r.state \in {"IDLE", "CLOSING"} => x.r.state = r.state

\* Close does it.
LEMMA CloseDoes ==
    ASSUME vers \in BOOLEAN, NEW r \in Socket
    PROVE  Closed(r, Close(r))
  <1> DEFINE c == [r EXCEPT !.params = FALSE]
             late == [c EXCEPT !.closeLater = TRUE]
             flush == [c EXCEPT !.state = "CLOSING", !.closeLater = FALSE,
                                !.closeOnEmpty = TRUE]
             drain == [Drain(c) EXCEPT !.closeLater = FALSE]
             Same(d) == /\ d \in Socket
                        /\ d.sent = r.sent /\ d.frames = r.frames /\ d.stream0 = r.stream0
                        /\ d.pending = r.pending /\ d.ack = r.ack /\ d.could = r.could
                        /\ d.idle = r.idle
  <1>1. Sends(<<>>, {"SHORT"}, {"close"}) /\ Sends(<<ClosePacket>>, {"SHORT"}, {"close"})
    BY SendsOne DEF Sends, ClosePacket
  <1>2. Same(c) /\ c.state = r.state /\ c.draining = r.draining
    BY DEF Socket
  <1>3. Same(late) /\ late.state = r.state /\ late.draining = r.draining
    BY DEF Socket
  <1>4. Same(flush) /\ flush.state = "CLOSING" /\ flush.draining = r.draining
    BY DEF Socket, States
  <1>5. Same(drain) /\ drain.state = "CLOSING" /\ drain.draining = TRUE
    BY DEF Socket, States, Drain
  <1>6. Same(Drain(c)) /\ Drain(c).state = "CLOSING" /\ Drain(c).draining = TRUE
    BY DEF Socket, States, Drain
  <1>7. r.idle \in BOOLEAN /\ r.draining \in BOOLEAN /\ r.flush \in BOOLEAN
    BY DEF Socket
  <1>8. \/ r.state \in {"IDLE", "CLOSING"} /\ Close(r) = Step(c, <<>>)
        \/ r.state \notin {"IDLE", "CLOSING"} /\ r.idle = FALSE /\ Close(r) = Step(Drain(c), <<>>)
        \/ r.idle = TRUE /\ ~Clear(r.sent) /\ Close(r) = Step(late, <<>>)
        \/ /\ r.state \notin {"IDLE", "CLOSING"} /\ r.idle = TRUE /\ Clear(r.sent)
           /\ Close(r) = Step(flush, <<>>)
        \/ /\ r.state \notin {"IDLE", "CLOSING"} /\ r.idle = TRUE /\ Clear(r.sent)
           /\ Close(r) = Step(drain, <<ClosePacket>>)
    BY <1>7 DEF Close, Clear
  <1> HIDE DEF c, late, flush, drain
  <1>9. \A d, o : Step(d, o).r = d /\ Step(d, o).out = o
    BY DEF Step
  <1>10. CASE r.state \in {"IDLE", "CLOSING"} /\ Close(r) = Step(c, <<>>)
    BY <1>1, <1>2, <1>7, <1>9, <1>10 DEF Closed
  <1>11. CASE r.state \notin {"IDLE", "CLOSING"} /\ r.idle = FALSE /\ Close(r) = Step(Drain(c), <<>>)
    BY <1>1, <1>6, <1>7, <1>9, <1>11 DEF Closed
  <1>12. CASE r.idle = TRUE /\ ~Clear(r.sent) /\ Close(r) = Step(late, <<>>)
    BY <1>1, <1>3, <1>7, <1>9, <1>12 DEF Closed
  <1>13. CASE /\ r.state \notin {"IDLE", "CLOSING"} /\ r.idle = TRUE /\ Clear(r.sent)
              /\ Close(r) = Step(flush, <<>>)
    BY <1>1, <1>4, <1>7, <1>9, <1>13 DEF Closed
  <1>14. CASE /\ r.state \notin {"IDLE", "CLOSING"} /\ r.idle = TRUE /\ Clear(r.sent)
              /\ Close(r) = Step(drain, <<ClosePacket>>)
    BY <1>1, <1>5, <1>7, <1>9, <1>14 DEF Closed
  <1>15. QED BY <1>8, <1>10, <1>11, <1>12, <1>13, <1>14

\* Close, as the handlers that call it see it.
LEMMA CloseEffect ==
    ASSUME vers \in BOOLEAN, NEW r \in Socket
    PROVE  Effect(r, Close(r)) /\ r.sent \subseteq Close(r).r.sent
  <1> DEFINE x == Close(r)
  <1>1. Closed(r, x)
    BY CloseDoes
  <1> HIDE DEF x
  <1>2. r.idle \in BOOLEAN
    BY DEF Socket
  <1>3. Clear(r.sent) => Clear(r.sent \cap 1..r.frames)
    BY DEF Clear
  <1>4. QED BY <1>1, <1>2, <1>3 DEF Closed, Effect, Sends, x

-----------------------------------------------------------------------------
\* The header of a data packet.
LEMMA HeaderType ==
    ASSUME NEW r \in Socket, zrtt \in BOOLEAN
    PROVE  /\ Header(r) \in {"HANDSHAKE", "INITIAL", "SHORT", "ZRTT"}
           /\ Header(r) \in {"HANDSHAKE", "ZRTT"} => r.state # "CONNECTING_CLT"
           /\ r.state = "CONNECTING_CLT" => Header(r) = "INITIAL"
           /\ r.state = "OPEN" /\ r.connected = FALSE /\ zrtt => Header(r) = "ZRTT"
  <1>1. r.connected \in BOOLEAN
    BY DEF Socket
  <1>2. QED BY <1>1 DEF Header

\* What SendDataPacket does for the next k frames, stream 0 among them.
Framed(r, k, x) ==
    /\ x.r \in Socket /\ x.out \in Seq(Packet)
    /\ x.r.state = r.state /\ x.r.draining = r.draining
    /\ x.r.pending = r.pending /\ x.r.ack = r.ack /\ x.r.could = r.could
    /\ x.r.params = r.params /\ x.r.closeLater = r.closeLater
    /\ x.r.closeOnEmpty = r.closeOnEmpty
    /\ x.r.idle = TRUE
    /\ x.r.frames = r.frames + k /\ x.r.stream0 = 0
    /\ x.r.sent = r.sent \cup (r.frames + 1)..(r.frames + k)
    /\ \A p \in ToSet(x.out) :
          /\ p.body = "stream"
          /\ p.type \in {"HANDSHAKE", "ZRTT"} => r.state \in {"CONNECTING_SVR", "OPEN"}
    /\ r.state \in {"OPEN", "CONNECTING_SVR", "CONNECTING_CLT"} =>
          x.out # <<>> /\ x.out[1].type = Header(r)

\* SendFrames does it.
LEMMA SendFramesDoes ==
    ASSUME vers \in BOOLEAN, zrtt \in BOOLEAN, NEW r \in Socket, NEW k \in Nat \ {0},
           r.stream0 <= k, k <= r.stream0 + r.data
    PROVE  Framed(r, k, SendFrames(r, k))
  <1> DEFINE data == IF k > r.stream0 THEN k - r.stream0 ELSE 0
             s == [r EXCEPT !.idle = TRUE,
                            !.orphan = @ \/ data > 0,
                            !.connected = @ \/ r.state \in {"OPEN", "CONNECTING_SVR"},
                            !.stream0 = @ - (k - data),
                            !.data = @ - data,
                            !.frames = @ + k,
                            !.sent = @ \cup (r.frames + 1)..(r.frames + k)]
             out == IF r.state \in {"OPEN", "CONNECTING_SVR", "CONNECTING_CLT"}
                    THEN [i \in 1..k |-> Pkt(IF i = 1 THEN Header(r) ELSE Header(s),
                                             "stream", r.frames + i, {})]
                    ELSE <<>>
  <1>1. SendFrames(r, k) = Step(s, out)
    BY DEF SendFrames
  <1>2. /\ r.stream0 \in Nat /\ r.data \in Nat /\ r.frames \in Nat /\ r.sent \subseteq Nat
        /\ r.connected \in BOOLEAN /\ r.orphan \in BOOLEAN
    BY DEF Socket
  <1>3. /\ data \in Nat /\ r.stream0 - (k - data) = 0 /\ r.data - data \in Nat
        /\ r.frames + k \in Nat /\ r.sent \cup (r.frames + 1)..(r.frames + k) \in SUBSET Nat
    BY <1>2
  <1> HIDE DEF data
  <1>4. (r.orphan \/ data > 0) \in BOOLEAN
        /\ (r.connected \/ r.state \in {"OPEN", "CONNECTING_SVR"}) \in BOOLEAN
    BY <1>2
  <1>5. /\ s \in Socket /\ s.state = r.state /\ s.draining = r.draining
        /\ s.pending = r.pending /\ s.ack = r.ack /\ s.could = r.could
        /\ s.params = r.params /\ s.closeLater = r.closeLater
        /\ s.closeOnEmpty = r.closeOnEmpty /\ s.idle = TRUE
        /\ s.frames = r.frames + k /\ s.stream0 = 0
        /\ s.sent = r.sent \cup (r.frames + 1)..(r.frames + k)
    <2>1. s = [r EXCEPT !.idle = TRUE,
                        !.orphan = r.orphan \/ data > 0,
                        !.connected = r.connected \/ r.state \in {"OPEN", "CONNECTING_SVR"},
                        !.stream0 = r.stream0 - (k - data),
                        !.data = r.data - data,
                        !.frames = r.frames + k,
                        !.sent = r.sent \cup (r.frames + 1)..(r.frames + k)]
      OBVIOUS
    <2> HIDE DEF s
    <2>2. 0 \in Nat
      OBVIOUS
    <2> DEFINE o == r.orphan \/ data > 0
               c == r.connected \/ r.state \in {"OPEN", "CONNECTING_SVR"}
               n1 == r.data - data
               n2 == r.frames + k
               S == r.sent \cup (r.frames + 1)..(r.frames + k)
    <2>3. /\ s = [r EXCEPT !.idle = TRUE, !.orphan = o, !.connected = c, !.stream0 = 0,
                            !.data = n1, !.frames = n2, !.sent = S]
          /\ o \in BOOLEAN /\ c \in BOOLEAN /\ n1 \in Nat /\ n2 \in Nat /\ S \in SUBSET Nat
      BY <1>3, <1>4, <2>1
    <2> HIDE DEF o, c, n1, n2, S
    <2>4. /\ s \in Socket /\ s.state = r.state /\ s.draining = r.draining
          /\ s.pending = r.pending /\ s.ack = r.ack /\ s.could = r.could
          /\ s.params = r.params /\ s.closeLater = r.closeLater
          /\ s.closeOnEmpty = r.closeOnEmpty /\ s.idle = TRUE
          /\ s.frames = n2 /\ s.stream0 = 0 /\ s.sent = S
      BY <2>3, ZenonT(60) DEF Socket
    <2>5. QED BY <2>4 DEF n2, S
  <1> HIDE DEF s
  <1>6. CASE r.state \in {"OPEN", "CONNECTING_SVR", "CONNECTING_CLT"}
    <2>1. out = [i \in 1..k |-> Pkt(IF i = 1 THEN Header(r) ELSE Header(s),
                                    "stream", r.frames + i, {})]
      BY <1>6
    <2>2. ASSUME NEW i \in 1..k
          PROVE  /\ out[i] \in Packet /\ out[i].body = "stream"
                 /\ out[i].type = IF i = 1 THEN Header(r) ELSE Header(s)
      <3>1. r.frames + i \in Nat /\ {} \in SUBSET Nat
        BY <1>2
      <3>2. (IF i = 1 THEN Header(r) ELSE Header(s)) \in {"HANDSHAKE", "INITIAL", "SHORT", "ZRTT"}
        BY <1>5, HeaderType
      <3>3. out[i] = Pkt(IF i = 1 THEN Header(r) ELSE Header(s), "stream", r.frames + i, {})
        BY <2>1
      <3>4. QED BY <3>1, <3>2, <3>3, PktType
    <2>3. DOMAIN out = 1..k /\ 1 \in 1..k
      BY <2>1
    <2>4. out \in [1..k -> Packet]
      BY <2>1, <2>2
    <2> HIDE DEF out
    <2>5. out \in Seq(Packet) /\ Len(out) = k /\ out # <<>>
      BY <2>3, <2>4, IsASeq, LenProperties, EmptySeq
    <2>6. ASSUME NEW p \in ToSet(out)
          PROVE  /\ p.body = "stream"
                 /\ p.type \in {"HANDSHAKE", "ZRTT"} => r.state \in {"CONNECTING_SVR", "OPEN"}
      <3>1. PICK i \in 1..k : p = out[i]
        BY <2>3 DEF ToSet
      <3>2. p.body = "stream" /\ (p.type = Header(r) \/ p.type = Header(s))
        BY <2>2, <3>1
      <3>3. Header(r) \in {"HANDSHAKE", "ZRTT"} => r.state # "CONNECTING_CLT"
        BY HeaderType
      <3>4. Header(s) \in {"HANDSHAKE", "ZRTT"} => r.state # "CONNECTING_CLT"
        BY <1>5, HeaderType
      <3>5. QED BY <1>6, <3>2, <3>3, <3>4
    <2>7. QED BY <1>1, <1>5, <2>2, <2>3, <2>5, <2>6 DEF Framed, Step
  <1>7. CASE r.state \notin {"OPEN", "CONNECTING_SVR", "CONNECTING_CLT"}
    <2>1. out = <<>>
      BY <1>7
    <2> HIDE DEF out
    <2>2. out \in Seq(Packet) /\ ToSet(out) = {}
      BY <2>1, ShortSet, EmptySeq
    <2>3. QED BY <1>1, <1>5, <1>7, <2>2 DEF Framed, Step
  <1>8. QED BY <1>6, <1>7

\* What SendPendingData does: the effect above, on a socket that it does not
\* close, and all of stream 0 is sent unless its loop does not end.
Pended(r, x) ==
    /\ Effect(r, x)
    /\ r.sent \subseteq x.r.sent
    /\ x.r.state = r.state
    /\ x.r.stream0 = 0 \/ (x.r.hung = TRUE /\ x.r.draining = TRUE)
    /\ x.r.params = r.params /\ x.r.closeLater = r.closeLater
    /\ x.r.closeOnEmpty = r.closeOnEmpty
    /\ r.draining = FALSE => x.r.draining = FALSE
    /\ r.draining = TRUE => x.r.frames = r.frames
    /\ x.r.sent \cap 1..r.frames \subseteq r.sent
    /\ r.closeOnEmpty = FALSE => \A p \in ToSet(x.out) : p.body # "close"
    /\ \/ x.r.sent = r.sent /\ x.r.frames = r.frames /\ x.r.connected = r.connected
          /\ (r.closeOnEmpty = FALSE => x.out = <<>>)
       \/ /\ x.r.frames > r.frames
          /\ r.state \in {"OPEN", "CONNECTING_SVR", "CONNECTING_CLT"} =>
                x.out # <<>> /\ x.out[1].type = Header(r)

\* A handler that sends no frame.
LEMMA NoFrame ==
    ASSUME NEW r \in Socket, NEW x, x.r \in Socket, x.out \in Seq(Packet),
           x.r.state = r.state, x.r.sent = r.sent, x.r.frames = r.frames,
           x.r.stream0 = r.stream0, x.r.pending = r.pending, x.r.ack = r.ack,
           x.r.could = r.could, x.r.params = r.params, x.r.closeLater = r.closeLater,
           x.r.closeOnEmpty = r.closeOnEmpty, x.r.idle = r.idle, x.r.connected = r.connected,
           r.draining = TRUE => x.r.draining = TRUE \/ x.r.stream0 = 0,
           x.r.draining = TRUE => r.draining = TRUE,
           x.r.stream0 = 0 \/ (x.r.hung = TRUE /\ x.r.draining = TRUE),
           \A p \in ToSet(x.out) : p.type = "SHORT" /\ p.body = "close",
           r.closeOnEmpty = FALSE => x.out = <<>>
    PROVE  Pended(r, x)
  <1>1. r.draining \in BOOLEAN /\ r.closeOnEmpty \in BOOLEAN /\ x.r.draining \in BOOLEAN
    BY DEF Socket
  <1>2. \A p \in ToSet(x.out) : p.body # "ack" /\ p.type \notin {"HANDSHAKE", "ZRTT"}
    OBVIOUS
  <1>3. Effect(r, x)
    BY <1>1, <1>2 DEF Effect
  <1>4. r.closeOnEmpty = FALSE => ToSet(x.out) = {}
    BY ShortSet
  <1>5. QED BY <1>1, <1>3, <1>4 DEF Pended

\* SendPendingData does it.
LEMMA SendPendingDataDoes ==
    ASSUME vers \in BOOLEAN, zrtt \in BOOLEAN, NEW r \in Socket
    PROVE  Pended(r, SendPendingData(r))
  <1> DEFINE k == IF r.state \in {"CONNECTING_CLT", "CONNECTING_SVR"}
                  THEN r.stream0 ELSE r.stream0 + r.data
             x == SendPendingData(r)
             end == [r EXCEPT !.draining = FALSE]
             stay == [r EXCEPT !.hung = r.draining /\ r.stream0 > 0]
  <1>1. /\ r.stream0 \in Nat /\ r.data \in Nat /\ r.frames \in Nat /\ r.draining \in BOOLEAN
        /\ r.closeOnEmpty \in BOOLEAN /\ r.idle \in BOOLEAN
    BY DEF Socket
  <1>2. k \in Nat /\ r.stream0 <= k /\ k <= r.stream0 + r.data
    BY <1>1
  <1>3. \/ r.stream0 + r.data = 0 /\ r.closeOnEmpty = TRUE /\ x = Step(end, <<ClosePacket>>)
        \/ r.stream0 + r.data = 0 /\ r.closeOnEmpty = FALSE /\ x = Step(r, <<>>)
        \/ (r.draining = TRUE \/ k = 0) /\ x = Step(stay, <<>>)
        \/ r.draining = FALSE /\ k # 0 /\ x = SendFrames(r, k)
    BY <1>1 DEF SendPendingData
  <1>4. \A d, o : Step(d, o).r = d /\ Step(d, o).out = o
    BY DEF Step
  <1>5. Sends(<<>>, {}, {}) /\ Sends(<<ClosePacket>>, {"SHORT"}, {"close"})
    BY SendsOne DEF ClosePacket
  <1>6. <<>> \in Seq(Packet) /\ ToSet(<<>>) = {}
    BY ShortSet, EmptySeq
  <1> HIDE DEF k, x
  <1>7. CASE r.stream0 + r.data = 0 /\ r.closeOnEmpty = TRUE /\ x = Step(end, <<ClosePacket>>)
    <2>1. /\ end \in Socket /\ end.state = r.state /\ end.draining = FALSE
          /\ end.sent = r.sent /\ end.frames = r.frames /\ end.stream0 = r.stream0
          /\ end.pending = r.pending /\ end.ack = r.ack /\ end.could = r.could
          /\ end.params = r.params /\ end.closeLater = r.closeLater
          /\ end.closeOnEmpty = r.closeOnEmpty /\ end.idle = r.idle
          /\ end.connected = r.connected
      BY DEF Socket
    <2> HIDE DEF end
    <2>2. r.stream0 = 0
      BY <1>1, <1>7
    <2>3. x.r = end /\ x.out = <<ClosePacket>>
      BY <1>4, <1>7
    <2>4. x.out \in Seq(Packet) /\ \A p \in ToSet(x.out) : p.type = "SHORT" /\ p.body = "close"
      BY <1>5, <2>3 DEF Sends
    <2>5. Pended(r, x)
      BY <1>7, <2>1, <2>2, <2>3, <2>4, NoFrame, ZenonT(60)
    <2>6. QED BY <2>5 DEF x
  <1>8. CASE r.stream0 + r.data = 0 /\ r.closeOnEmpty = FALSE /\ x = Step(r, <<>>)
    <2>1. r.stream0 = 0
      BY <1>1, <1>8
    <2>2. x.r = r /\ x.out = <<>>
      BY <1>4, <1>8
    <2>3. Pended(r, x)
      BY <1>6, <2>1, <2>2, NoFrame
    <2>4. QED BY <2>3 DEF x
  <1>9. CASE (r.draining = TRUE \/ k = 0) /\ x = Step(stay, <<>>)
    <2>1. (r.draining /\ r.stream0 > 0) \in BOOLEAN
      OBVIOUS
    <2>2. /\ stay \in Socket /\ stay.state = r.state /\ stay.draining = r.draining
          /\ stay.sent = r.sent /\ stay.frames = r.frames /\ stay.stream0 = r.stream0
          /\ stay.pending = r.pending /\ stay.ack = r.ack /\ stay.could = r.could
          /\ stay.params = r.params /\ stay.closeLater = r.closeLater
          /\ stay.closeOnEmpty = r.closeOnEmpty /\ stay.idle = r.idle
          /\ stay.connected = r.connected
      BY <2>1 DEF Socket
    <2>3. stay.hung = (r.draining /\ r.stream0 > 0)
      BY DEF Socket
    <2> HIDE DEF stay
    <2>4. r.stream0 = 0 \/ (stay.hung = TRUE /\ r.draining = TRUE)
      <3>1. r.draining = TRUE /\ r.stream0 # 0 => stay.hung = TRUE
        BY <1>1, <2>3
      <3>2. QED BY <1>1, <1>2, <1>9, <3>1
    <2>5. x.r = stay /\ x.out = <<>>
      BY <1>4, <1>9
    <2>6. /\ x.r \in Socket /\ x.r.state = r.state /\ x.r.draining = r.draining
          /\ x.r.sent = r.sent /\ x.r.frames = r.frames /\ x.r.stream0 = r.stream0
          /\ x.r.pending = r.pending /\ x.r.ack = r.ack /\ x.r.could = r.could
          /\ x.r.params = r.params /\ x.r.closeLater = r.closeLater
          /\ x.r.closeOnEmpty = r.closeOnEmpty /\ x.r.idle = r.idle
          /\ x.r.connected = r.connected
      BY <2>2, <2>5
    <2>7. x.r.stream0 = 0 \/ (x.r.hung = TRUE /\ x.r.draining = TRUE)
      BY <2>2, <2>4, <2>5
    <2>8. Pended(r, x)
      BY <1>6, <2>5, <2>6, <2>7, NoFrame
    <2>9. QED BY <2>8 DEF x
  <1>10. CASE r.draining = FALSE /\ k # 0 /\ x = SendFrames(r, k)
    <2>1. Framed(r, k, x)
      BY <1>2, <1>10, SendFramesDoes
    <2>2. ~Clear(x.r.sent) /\ r.sent \subseteq x.r.sent
      <3>1. r.frames + 1 \in (r.frames + 1)..(r.frames + k)
        BY <1>1, <1>2, <1>10
      <3>2. QED BY <2>1, <3>1 DEF Framed, Clear
    <2>3. x.r.frames > r.frames
      BY <1>1, <1>2, <1>10, <2>1 DEF Framed
    <2>4. x.r.sent \cap 1..r.frames \subseteq r.sent
      <3>1. (r.frames + 1)..(r.frames + k) \cap 1..r.frames = {}
        BY <1>1, <1>2
      <3>2. QED BY <2>1, <3>1 DEF Framed
    <2>5. Effect(r, x)
      BY <1>1, <1>10, <2>1, <2>2, <2>3 DEF Effect, Framed
    <2>6. QED BY <1>10, <2>1, <2>2, <2>3, <2>4, <2>5 DEF Pended, Framed, x
  <1>11. QED BY <1>3, <1>7, <1>8, <1>9, <1>10


-----------------------------------------------------------------------------
\* Nothing that leads to Close is set in a socket.
Calm(r) ==
    /\ r.state # "CLOSING" /\ r.draining = FALSE
    /\ r.closeLater = FALSE /\ r.closeOnEmpty = FALSE

\* A handler that neither closes the socket nor tells the peer to.
Calmly(r, x) ==
    /\ Calm(x.r) /\ x.r.state = r.state
    /\ \A p \in ToSet(x.out) : p.body # "close"

\* A handler that sends nothing and changes at most the flag of the transport
\* parameters and the set of received frames.
LEMMA NoEffect ==
    ASSUME NEW r \in Socket, NEW x, x.r \in Socket, x.out = <<>>,
           x.r.state = r.state, x.r.sent = r.sent, x.r.frames = r.frames,
           x.r.stream0 = r.stream0, x.r.pending = r.pending, x.r.ack = r.ack,
           x.r.could = r.could, x.r.closeLater = r.closeLater,
           x.r.closeOnEmpty = r.closeOnEmpty, x.r.idle = r.idle,
           x.r.draining = r.draining
    PROVE  /\ Effect(r, x) /\ r.sent \subseteq x.r.sent
           /\ Calm(r) => Calmly(r, x)
  <1>1. x.out \in Seq(Packet) /\ ToSet(x.out) = {}
    BY ShortSet, EmptySeq
  <1>2. r.draining \in BOOLEAN
    BY DEF Socket
  <1>3. r.state = "OPEN" /\ x.r.state = "CLOSING" => FALSE
    OBVIOUS
  <1>4. QED BY <1>1, <1>2, <1>3 DEF Effect, Calm, Calmly

\* AbortConnection: on an open connection, only once m_connected is set.
LEMMA AbortDoes ==
    ASSUME vers \in BOOLEAN, NEW r \in Socket, r.state = "OPEN" => r.connected = TRUE
    PROVE  /\ Effect(r, AbortConnection(r)) /\ r.sent \subseteq AbortConnection(r).r.sent
           /\ Closed(r, Close(r)) /\ AbortConnection(r).r = Close(r).r
  <1> DEFINE type == CASE r.state = "CONNECTING_CLT" -> "INITIAL"
                       [] r.state = "CONNECTING_SVR" -> "HANDSHAKE"
                       [] r.state = "OPEN" /\ ~r.connected -> "HANDSHAKE"
                       [] OTHER -> "SHORT"
             p == <<Pkt(type, "close", 0, {})>>
             y == Close(r)
             x == AbortConnection(r)
  <1>1. x.r = y.r /\ x.out = p \o y.out
    BY DEF AbortConnection, Then, Step
  <1>2. type \in {"INITIAL", "HANDSHAKE", "SHORT"} /\ (type = "HANDSHAKE" => r.state = "CONNECTING_SVR")
    OBVIOUS
  <1>3. Sends(p, {type}, {"close"})
    <2> HIDE DEF type
    <2>1. 0 \in Nat /\ {} \in SUBSET Nat
      OBVIOUS
    <2>2. QED BY <1>2, <2>1, SendsOne
  <1>4. Effect(r, y) /\ r.sent \subseteq y.r.sent /\ Closed(r, y)
    BY CloseEffect, CloseDoes
  <1> HIDE DEF type, p, y, x
  <1>5. p \in Seq(Packet) /\ y.out \in Seq(Packet)
    BY <1>3, <1>4 DEF Sends, Effect
  <1>6. x.out \in Seq(Packet) /\ ToSet(x.out) = ToSet(p) \cup ToSet(y.out)
    BY <1>1, <1>5, ConcatSet
  <1>7. \A q \in ToSet(x.out) :
          /\ q.body # "ack"
          /\ q.type \in {"HANDSHAKE", "ZRTT"} => r.state = "CONNECTING_SVR"
    BY <1>2, <1>3, <1>4, <1>6 DEF Sends, Closed
  <1>8. Effect(r, x)
    BY <1>1, <1>4, <1>6, <1>7 DEF Effect
  <1>9. QED BY <1>1, <1>4, <1>8 DEF x, y

\* OnReceivedAckFrame.
LEMMA AckDoes ==
    ASSUME vers \in BOOLEAN, zrtt \in BOOLEAN, NEW r \in Socket, NEW acks
    PROVE  /\ Effect(r, OnReceivedAckFrame(r, acks))
           /\ Calm(r) => Calmly(r, OnReceivedAckFrame(r, acks))
  <1> DEFINE S == r.sent \ acks
             a == [r EXCEPT !.sent = S]
             y == IF a.closeLater /\ a.sent = {} THEN Close(a) ELSE Step(a, <<>>)
             z == SendPendingData(y.r)
             x == OnReceivedAckFrame(r, acks)
  <1>1. x.r = z.r /\ x.out = y.out \o z.out
    BY DEF OnReceivedAckFrame, Then, Step
  <1>2. S \subseteq r.sent /\ S \in SUBSET Nat
    BY DEF Socket
  <1> HIDE DEF S
  <1>3. /\ a \in Socket /\ a.sent = S /\ a.state = r.state /\ a.frames = r.frames
        /\ a.stream0 = r.stream0 /\ a.pending = r.pending /\ a.ack = r.ack
        /\ a.could = r.could /\ a.closeLater = r.closeLater /\ a.idle = r.idle
        /\ a.closeOnEmpty = r.closeOnEmpty /\ a.draining = r.draining
    BY <1>2 DEF Socket
  <1> HIDE DEF a
  <1>4. a.closeLater \in BOOLEAN /\ r.idle \in BOOLEAN /\ r.draining \in BOOLEAN
    BY <1>3 DEF Socket
  <1>5. Closed(a, y) \/ (y.r = a /\ y.out = <<>>)
    <2>1. CASE a.closeLater = TRUE /\ a.sent = {}
      BY <1>3, <2>1, CloseDoes
    <2>2. CASE ~(a.closeLater = TRUE /\ a.sent = {})
      <3>1. y = Step(a, <<>>)
        BY <1>4, <2>2
      <3>2. QED BY <3>1 DEF Step
    <2>3. QED BY <2>1, <2>2
  <1>6. r.closeLater = FALSE => y.r = a /\ y.out = <<>>
    <2>1. r.closeLater = FALSE => y = Step(a, <<>>)
      BY <1>3
    <2>2. Step(a, <<>>).r = a /\ Step(a, <<>>).out = <<>>
      BY DEF Step
    <2> HIDE DEF y
    <2>3. QED BY <2>1, <2>2
  <1> HIDE DEF y
  <1>7. /\ y.r \in Socket /\ y.out \in Seq(Packet)
        /\ \A p \in ToSet(y.out) : p.type = "SHORT" /\ p.body = "close"
    <2>1. CASE Closed(a, y)
      BY <2>1 DEF Closed, Sends
    <2>2. CASE y.r = a /\ y.out = <<>>
      BY <1>3, <2>2, ShortSet, EmptySeq
    <2>3. QED BY <1>5, <2>1, <2>2
  <1>8. /\ y.r.state \in {r.state, "CLOSING"}
        /\ y.r.sent = S /\ y.r.frames = r.frames /\ y.r.stream0 = r.stream0
        /\ y.r.pending = r.pending /\ y.r.ack = r.ack /\ y.r.could = r.could
        /\ y.r.idle = r.idle
        /\ r.draining = TRUE => y.r.draining = TRUE
        /\ y.r.draining = TRUE =>
             \/ r.draining = TRUE
             \/ r.state \notin {"IDLE", "CLOSING"} /\ (r.idle = FALSE \/ Clear(S))
        /\ y.r.state # r.state => Clear(S) \/ (r.idle = FALSE /\ y.r.draining = TRUE)
    <2>1. CASE Closed(a, y)
      BY <1>3, <2>1 DEF Closed
    <2>2. CASE y.r = a /\ y.out = <<>>
      BY <1>3, <2>2
    <2>3. QED BY <1>5, <2>1, <2>2
  <1>9. Pended(y.r, z)
    BY <1>7, SendPendingDataDoes
  <1> HIDE DEF z, x
  <1>10. Effect(y.r, z) /\ z.r.state = y.r.state
    BY <1>9 DEF Pended
  <1>11. x.out \in Seq(Packet) /\ ToSet(x.out) = ToSet(y.out) \cup ToSet(z.out)
    <2>1. z.out \in Seq(Packet)
      BY <1>10 DEF Effect
    <2>2. QED BY <1>1, <1>7, <2>1, ConcatSet
  <1>12. z.r \in Socket
    BY <1>10 DEF Effect
  <1>13. r.frames \in Nat /\ z.r.frames \in Nat /\ y.r.draining \in BOOLEAN
    BY <1>12, <1>7 DEF Socket
  <1>14. Effect(r, x)
    <2>1. \/ /\ x.r.frames = r.frames /\ x.r.stream0 = r.stream0
             /\ x.r.idle = r.idle /\ x.r.sent \subseteq S
          \/ /\ x.r.frames > r.frames /\ x.r.stream0 = 0
             /\ x.r.idle = TRUE /\ ~Clear(x.r.sent) /\ x.r.draining = FALSE
      BY <1>1, <1>8, <1>10 DEF Effect
    <2>2. x.r.draining = TRUE => y.r.draining = TRUE
      BY <1>1, <1>9, <1>13 DEF Pended
    <2>3. y.r.draining = TRUE => x.r.frames = r.frames
      BY <1>1, <1>8, <1>9 DEF Pended
    <2>4. y.r.draining = TRUE => x.r.sent \subseteq S /\ x.r.idle = r.idle
      BY <1>13, <1>1, <2>1, <2>3
    <2>5. x.r.draining = TRUE =>
             \/ r.draining = TRUE
             \/ r.state \notin {"IDLE", "CLOSING"} /\ (r.idle = FALSE \/ Clear(x.r.sent))
      <3>1. Clear(S) /\ x.r.sent \subseteq S => Clear(x.r.sent)
        BY DEF Clear
      <3>2. QED BY <1>8, <2>2, <2>4, <3>1
    <2>6. r.draining = TRUE => x.r.draining = TRUE \/ x.r.stream0 = 0
      BY <1>1, <1>8, <1>10 DEF Effect
    <2>7. r.state = "OPEN" /\ x.r.state = "CLOSING" /\ x.r.idle = TRUE =>
             Clear(x.r.sent \cap 1..r.frames)
      <3> SUFFICES ASSUME r.state = "OPEN", x.r.state = "CLOSING", x.r.idle = TRUE
                   PROVE  Clear(x.r.sent \cap 1..r.frames)
        OBVIOUS
      <3>1. y.r.state # r.state
        BY <1>1, <1>10
      <3>2. Clear(S)
        BY <1>8, <2>4, <3>1
      <3>3. x.r.sent \cap 1..r.frames \subseteq S
        BY <1>1, <1>8, <1>9 DEF Pended
      <3>4. QED BY <3>2, <3>3 DEF Clear
    <2>8. \A p \in ToSet(x.out) :
            /\ p.body # "ack"
            /\ p.type \in {"HANDSHAKE", "ZRTT"} =>
                  \/ r.state = "CONNECTING_SVR"
                  \/ r.state = "OPEN" /\ x.r.state = "OPEN" /\ x.r.frames > r.frames
      <3> SUFFICES ASSUME NEW p \in ToSet(x.out)
                   PROVE  /\ p.body # "ack"
                          /\ p.type \in {"HANDSHAKE", "ZRTT"} =>
                                \/ r.state = "CONNECTING_SVR"
                                \/ r.state = "OPEN" /\ x.r.state = "OPEN" /\ x.r.frames > r.frames
        OBVIOUS
      <3>1. CASE p \in ToSet(y.out)
        BY <1>7, <3>1
      <3>2. CASE p \in ToSet(z.out)
        BY <1>1, <1>8, <1>10, <3>2 DEF Effect
      <3>3. QED BY <1>11, <3>1, <3>2
    <2>9. /\ x.r \in Socket /\ x.r.state \in {r.state, "CLOSING"}
          /\ x.r.pending = r.pending /\ x.r.ack = r.ack /\ x.r.could = r.could
      BY <1>1, <1>8, <1>10 DEF Effect
    <2>10. QED BY <1>2, <1>11, <2>1, <2>5, <2>6, <2>7, <2>8, <2>9 DEF Effect
  <1>15. ASSUME Calm(r) PROVE Calmly(r, x)
    <2>1. y.r = a /\ ToSet(y.out) = {}
      BY <1>6, <1>15, ShortSet DEF Calm
    <2>2. Calm(a)
      BY <1>3, <1>15 DEF Calm
    <2>3. Calm(x.r) /\ x.r.state = r.state
      BY <1>1, <1>3, <1>9, <2>1, <2>2 DEF Calm, Pended
    <2>4. \A p \in ToSet(x.out) : p.body # "close"
      BY <1>9, <1>11, <2>1, <2>2 DEF Calm, Pended
    <2>5. QED BY <2>3, <2>4 DEF Calmly
  <1>16. QED BY <1>14, <1>15 DEF x

\* DispatchRecv of a packet that exceeds a limit.
LEMMA ExcessDoes ==
    ASSUME vers \in BOOLEAN, NEW r \in Socket, NEW p \in Packet,
           r.state = "OPEN" => r.connected = TRUE
    PROVE  /\ Effect(r, DispatchExcess(r, p))
           /\ r.sent \subseteq DispatchExcess(r, p).r.sent
  <1> DEFINE R == IF p.body = "stream" THEN r.rcvd \cup {p.n} ELSE r.rcvd
             s == [r EXCEPT !.rcvd = R]
             x == DispatchExcess(r, p)
  <1>1. R \in SUBSET Nat
    BY DEF Socket, Packet
  <1>2. x = AbortConnection(s)
    BY DEF DispatchExcess
  <1> HIDE DEF R
  <1>3. /\ s \in Socket /\ s.sent = r.sent /\ s.state = r.state /\ s.frames = r.frames
        /\ s.stream0 = r.stream0 /\ s.pending = r.pending /\ s.ack = r.ack
        /\ s.could = r.could /\ s.closeLater = r.closeLater /\ s.idle = r.idle
        /\ s.closeOnEmpty = r.closeOnEmpty /\ s.draining = r.draining
        /\ s.connected = r.connected
    BY <1>1 DEF Socket
  <1> HIDE DEF s, x
  <1>4. Effect(s, x) /\ s.sent \subseteq x.r.sent
    BY <1>2, <1>3, AbortDoes
  <1>5. Effect(r, x) /\ r.sent \subseteq x.r.sent
    BY <1>3, <1>4 DEF Effect
  <1>6. QED BY <1>5 DEF x

\* DispatchRecv: on an open connection, only packets with the short header come
\* this far.
LEMMA DispatchDoes ==
    ASSUME vers \in BOOLEAN, zrtt \in BOOLEAN, NEW r \in Socket, NEW p \in Packet,
           r.state = "OPEN" => p.type = "SHORT"
    PROVE  /\ Effect(r, DispatchRecv(r, p))
           /\ p.body # "ack" => r.sent \subseteq DispatchRecv(r, p).r.sent
           /\ Calm(r) /\ p.body # "close" /\ ~(r.params = TRUE /\ r.could = TRUE /\ p.type # "SHORT")
                => Calmly(r, DispatchRecv(r, p))
  <1> DEFINE R == r.rcvd \cup {p.n}
             s == [r EXCEPT !.rcvd = R]
             t == [s EXCEPT !.params = TRUE]
             x == DispatchRecv(r, p)
  <1>1. r.params \in BOOLEAN /\ r.could \in BOOLEAN
    BY DEF Socket
  <1>2. R \in SUBSET Nat
    BY DEF Socket, Packet
  <1> HIDE DEF R
  <1>3. /\ s \in Socket /\ s.sent = r.sent /\ s.state = r.state /\ s.frames = r.frames
        /\ s.stream0 = r.stream0 /\ s.pending = r.pending /\ s.ack = r.ack
        /\ s.could = r.could /\ s.closeLater = r.closeLater /\ s.idle = r.idle
        /\ s.closeOnEmpty = r.closeOnEmpty /\ s.draining = r.draining /\ s.params = r.params
    BY <1>2 DEF Socket
  <1>4. /\ t \in Socket /\ t.sent = r.sent /\ t.state = r.state /\ t.frames = r.frames
        /\ t.stream0 = r.stream0 /\ t.pending = r.pending /\ t.ack = r.ack
        /\ t.could = r.could /\ t.closeLater = r.closeLater /\ t.idle = r.idle
        /\ t.closeOnEmpty = r.closeOnEmpty /\ t.draining = r.draining
    BY <1>3 DEF Socket
  <1>5. CASE p.body = "ack"
    BY <1>5, AckDoes DEF DispatchRecv
  <1>6. CASE p.body = "close"
    BY <1>6, CloseEffect DEF DispatchRecv
  <1>7. CASE p.body \notin {"ack", "close"}
    <2>1. x = IF r.could /\ p.type # "SHORT" THEN OnReceivedTransportParameters(s)
              ELSE Step(s, <<>>)
      BY <1>7 DEF DispatchRecv, R
    <2>2. OnReceivedTransportParameters(s) = IF s.params THEN AbortConnection(s) ELSE Step(t, <<>>)
      BY DEF OnReceivedTransportParameters
    <2> HIDE DEF x, s, t
    <2>3. CASE r.could = TRUE /\ p.type # "SHORT" /\ r.params = TRUE
      <3>1. x = AbortConnection(s)
        BY <1>3, <2>1, <2>2, <2>3
      <3>2. s.state # "OPEN"
        BY <1>3, <2>3
      <3>3. Effect(s, x) /\ s.sent \subseteq x.r.sent
        BY <1>3, <3>1, <3>2, AbortDoes
      <3>4. Effect(r, x) /\ r.sent \subseteq x.r.sent
        BY <1>3, <3>3 DEF Effect
      <3>5. QED BY <2>3, <3>4 DEF x
    <2>4. CASE r.could = TRUE /\ p.type # "SHORT" /\ r.params = FALSE
      <3>1. x = Step(t, <<>>)
        BY <1>3, <2>1, <2>2, <2>4
      <3>2. x.r = t /\ x.out = <<>>
        BY <3>1 DEF Step
      <3>3. /\ Effect(r, x) /\ r.sent \subseteq x.r.sent
            /\ Calm(r) => Calmly(r, x)
        BY <1>4, <3>2, NoEffect
      <3>4. QED BY <3>3 DEF x
    <2>5. CASE ~(r.could = TRUE /\ p.type # "SHORT")
      <3>1. x = Step(s, <<>>)
        BY <1>1, <2>1, <2>5
      <3>2. x.r = s /\ x.out = <<>>
        BY <3>1 DEF Step
      <3>3. /\ Effect(r, x) /\ r.sent \subseteq x.r.sent
            /\ Calm(r) => Calmly(r, x)
        BY <1>3, <3>2, NoEffect
      <3>4. QED BY <3>3 DEF x
    <2>6. QED BY <1>1, <2>3, <2>4, <2>5
  <1>8. QED BY <1>5, <1>6, <1>7

-----------------------------------------------------------------------------
Connecting == {"CONNECTING_CLT", "CONNECTING_SVR"}

\* The part of HangInv about one socket.
Sound(d) ==
    /\ d.stream0 > 0 => d.pending = TRUE \/ d.hung = TRUE
    /\ d.state \in Connecting => d.frames = 0 \/ ~Clear(d.sent)
    /\ d.state = "OPEN" => d.stream0 = 0 \/ d.frames = 0 \/ ~Clear(d.sent)
    /\ d.state \in Connecting \cup {"OPEN"} => d.idle = TRUE \/ d.frames = 0
    /\ d.draining = TRUE /\ d.stream0 > 0 => d.frames = 0

\* The same, whatever the idle timeout.
Held(d) ==
    /\ d.stream0 > 0 => d.pending = TRUE \/ d.hung = TRUE
    /\ d.state \in Connecting => d.frames = 0 \/ ~Clear(d.sent)
    /\ d.state = "OPEN" => d.stream0 = 0 \/ d.frames = 0 \/ ~Clear(d.sent)
    /\ d.draining = TRUE /\ d.stream0 > 0 => d.frames = 0

\* The transport parameters are awaited once.
Once(d) ==
    /\ d.state \in {"IDLE", "LISTENING"} => d.params = FALSE
    /\ d.state \in Connecting => ~(d.params = TRUE /\ d.could = TRUE)

\* A packet p that may reach the socket q.
Arrival(q, p) ==
    /\ q \in Socket /\ q.hung = FALSE /\ Held(q)
    /\ q.draining = TRUE => Sound(q)
    /\ p \in Packet
    /\ p.body = "ack" =>
          p.type = "SHORT" /\ (q.state = "OPEN" /\ q.draining = FALSE => q.stream0 = 0)
    /\ q.state = "LISTENING" => q.stream0 = 0

\* What ReceivedData does with it, if it exceeds the limit over or nothing.
Taken(q, p, over, x) ==
    /\ x.r \in Socket /\ x.out \in Seq(Packet)
    /\ Sound(x.r)
    /\ \/ x.r.state \in {q.state, "CLOSING"}
       \/ x.r.state = "OPEN" /\ q.state = "LISTENING" /\ p.type = "ZRTT"
       \/ x.r.state = "OPEN" /\ q.state \in Connecting /\ p.type = "HANDSHAKE"
    /\ \A o \in ToSet(x.out) :
          /\ o.body # "ack"
          /\ o.type \in {"HANDSHAKE", "ZRTT"} =>
                \/ q.state = "CONNECTING_SVR"
                \/ /\ q.state = "OPEN" /\ x.r.state = "OPEN"
                   /\ x.r.frames > q.frames /\ x.r.stream0 = 0
    /\ q.state \notin Connecting /\ q.stream0 = 0 => x.r.stream0 = 0
    /\ q.state = "CONNECTING_SVR" /\ x.r.state = "OPEN" =>
          x.r.stream0 = 0 \/ x.r.draining = TRUE
    /\ q.draining = TRUE => x.r = q
    /\ x.r.frames >= q.frames
    /\ q.state # "OPEN" /\ (q.frames = 0 \/ ~Clear(q.sent)) =>
          x.r.frames = 0 \/ ~Clear(x.r.sent)
    /\ x.r.ack = TRUE => q.ack = TRUE \/ "OPEN" \in {q.state, x.r.state}
    /\ q.state = "OPEN" /\ x.r.state = "CLOSING" /\ x.r.idle = TRUE =>
          Clear(x.r.sent \cap 1..q.frames)
    /\ Clear(q.sent) \/ q.frames > 0 => Clear(x.r.sent) \/ x.r.frames > 0
    /\ q.state = "IDLE" => x.r.pending = q.pending
    /\ over = "nothing" /\ Calm(q) /\ Once(q) /\ p.body # "close" =>
          /\ Calm(x.r) /\ Once(x.r) /\ x.r.state \in {q.state, "OPEN"}
          /\ \A o \in ToSet(x.out) : o.body # "close"

\* The socket before its branch of ReceivedData: the idle timeout is put off.
Awake(q, r) ==
    /\ r \in Socket /\ r.idle = TRUE
    /\ r.state = q.state /\ r.draining = FALSE /\ q.draining = FALSE
    /\ r.closeLater = q.closeLater /\ r.closeOnEmpty = q.closeOnEmpty
    /\ r.stream0 = q.stream0 /\ r.pending = q.pending /\ r.frames = q.frames
    /\ r.sent = q.sent /\ r.ack = q.ack /\ r.params = q.params
    /\ r.connected = q.connected
    /\ q.state # "LISTENING" => r.could = q.could

\* What is left of a socket once its frame has been dispatched.
After(q, p, x) ==
    /\ x.r.idle = TRUE /\ x.r.frames >= q.frames
    /\ x.r.stream0 > 0 => x.r.pending = TRUE /\ x.r.stream0 = q.stream0 /\ x.r.frames = q.frames
    /\ q.stream0 = 0 => x.r.stream0 = 0
    /\ q.state \in Connecting /\ p.type # "SHORT" => x.r.frames = 0 \/ ~Clear(x.r.sent)
    /\ q.state # "OPEN" /\ p.type # "SHORT" /\ (q.frames = 0 \/ ~Clear(q.sent)) =>
          x.r.frames = 0 \/ ~Clear(x.r.sent)
    /\ q.state = "OPEN" => x.r.stream0 = 0 \/ x.r.frames = 0 \/ ~Clear(x.r.sent)
    /\ q.state \in Connecting /\ p.type # "SHORT" /\ x.r.draining = TRUE => x.r.frames = 0
    /\ q.state = "OPEN" /\ x.r.draining = TRUE /\ x.r.stream0 > 0 => x.r.frames = 0
    /\ Clear(q.sent) \/ q.frames > 0 => Clear(x.r.sent) \/ x.r.frames > 0
    /\ x.r.frames \in Nat /\ x.r.stream0 \in Nat

\* A branch of ReceivedData that wakes the socket and then runs a handler.
LEMMA Dispatched ==
    ASSUME NEW q, NEW p, Arrival(q, p), NEW r, Awake(q, r), NEW x, Effect(r, x),
           p.body # "ack" => r.sent \subseteq x.r.sent
    PROVE  After(q, p, x)
  <1>1. /\ q.frames \in Nat /\ q.stream0 \in Nat /\ x.r.frames \in Nat /\ x.r.stream0 \in Nat
        /\ q.sent \subseteq Nat
    BY DEF Arrival, Effect, Socket
  <1>2. /\ x.r.idle = TRUE /\ x.r.frames >= q.frames
        /\ x.r.stream0 > 0 => x.r.pending = TRUE /\ x.r.stream0 = q.stream0 /\ x.r.frames = q.frames
        /\ q.stream0 = 0 => x.r.stream0 = 0
    <2>1. q.stream0 > 0 => q.pending = TRUE
      BY DEF Arrival, Held
    <2>2. QED BY <1>1, <2>1 DEF Effect, Awake
  <1>3. \/ x.r.frames = q.frames /\ x.r.stream0 = q.stream0 /\ x.r.sent \subseteq q.sent
        \/ ~Clear(x.r.sent) /\ x.r.frames > q.frames /\ x.r.stream0 = 0 /\ x.r.draining = FALSE
    BY DEF Effect, Awake
  <1>4. p.body # "ack" /\ ~Clear(q.sent) => ~Clear(x.r.sent)
    BY DEF Awake, Clear
  <1>5. Clear(q.sent) /\ x.r.sent \subseteq q.sent => Clear(x.r.sent)
    BY DEF Clear
  <1>6. x.r.draining = TRUE => Clear(x.r.sent) /\ x.r.frames = q.frames
    BY <1>3 DEF Effect, Awake
  <1>7. q.state \in Connecting => q.frames = 0 \/ ~Clear(q.sent)
    BY DEF Arrival, Held
  <1>8. q.state = "OPEN" => q.stream0 = 0 \/ q.frames = 0 \/ ~Clear(q.sent)
    BY DEF Arrival, Held
  <1>9. p.body = "ack" => p.type = "SHORT" /\ (q.state = "OPEN" => q.stream0 = 0)
    BY DEF Arrival, Awake
  <1>10. q.state \in Connecting /\ p.type # "SHORT" => x.r.frames = 0 \/ ~Clear(x.r.sent)
    BY <1>1, <1>3, <1>4, <1>7, <1>9
  <1>11. QED
    BY <1>1, <1>2, <1>3, <1>4, <1>5, <1>6, <1>7, <1>8, <1>9, <1>10 DEF After

\* DispatchRecv on a calm socket.
LEMMA DispatchedCalmly ==
    ASSUME vers \in BOOLEAN, zrtt \in BOOLEAN,
           NEW q, NEW p, Arrival(q, p), NEW r, Awake(q, r),
           q.state = "OPEN" => p.type = "SHORT",
           p.type = "SHORT" \/ q.state \in Connecting \cup {"LISTENING"},
           Calm(q), Once(q), p.body # "close"
    PROVE  Calmly(r, DispatchRecv(r, p)) /\ Calm(r)
  <1>1. r \in Socket /\ p \in Packet
    BY DEF Awake, Arrival
  <1>2. Calm(r)
    BY DEF Calm, Awake
  <1>3. ~(r.params = TRUE /\ r.could = TRUE /\ p.type # "SHORT")
    BY DEF Once, Awake, Connecting
  <1>4. r.state = "OPEN" => p.type = "SHORT"
    BY DEF Awake
  <1>5. QED BY <1>1, <1>2, <1>3, <1>4, DispatchDoes

\* DispatchRecv on any socket that a packet may reach.
LEMMA DispatchedAny ==
    ASSUME vers \in BOOLEAN, zrtt \in BOOLEAN,
           NEW q, NEW p, Arrival(q, p), NEW r, Awake(q, r),
           q.state = "OPEN" => p.type = "SHORT"
    PROVE  /\ Effect(r, DispatchRecv(r, p))
           /\ p.body # "ack" => r.sent \subseteq DispatchRecv(r, p).r.sent
  <1>1. r \in Socket /\ p \in Packet
    BY DEF Awake, Arrival
  <1>2. r.state = "OPEN" => p.type = "SHORT"
    BY DEF Awake
  <1>3. QED BY <1>1, <1>2, DispatchDoes

\* A packet on the open connection.
LEMMA ShortTaken ==
    ASSUME vers \in BOOLEAN, zrtt \in BOOLEAN,
           NEW q, NEW p, Arrival(q, p), NEW r, Awake(q, r),
           q.state = "OPEN", p.type = "SHORT",
           NEW over, over # "nothing" => q.connected = TRUE
    PROVE  Taken(q, p, over, ReceivedShort(r, p, over))
  <1> DEFINE d == IF over = "nothing" THEN DispatchRecv(r, p) ELSE DispatchExcess(r, p)
             a == d.r.ack \/ over # "connection"
             u == [d.r EXCEPT !.ack = a]
             x == ReceivedShort(r, p, over)
  <1>1. x.r = u /\ x.out = d.out \o <<>>
    BY DEF ReceivedShort, Then, Step
  <1>2. Effect(r, d) /\ (p.body # "ack" => r.sent \subseteq d.r.sent)
    <2>1. CASE over = "nothing"
      BY <2>1, DispatchedAny
    <2>2. CASE over # "nothing"
      <3>1. r \in Socket /\ p \in Packet /\ r.connected = TRUE
        BY <2>2 DEF Awake, Arrival
      <3>2. QED BY <2>2, <3>1, ExcessDoes
    <2>3. QED BY <2>1, <2>2
  <1>3. over = "nothing" /\ Calm(q) /\ Once(q) /\ p.body # "close" => Calmly(r, d)
    BY DispatchedCalmly
  <1>4. q \in Socket /\ r \in Socket /\ d.r \in Socket /\ d.out \in Seq(Packet)
    BY <1>2 DEF Effect, Awake, Arrival
  <1>a. a \in BOOLEAN
    OBVIOUS
  <1> HIDE DEF d, x, a
  <1>5. /\ u \in Socket /\ u.state = d.r.state /\ u.draining = d.r.draining
        /\ u.idle = d.r.idle /\ u.pending = d.r.pending /\ u.hung = d.r.hung
        /\ u.closeLater = d.r.closeLater /\ u.closeOnEmpty = d.r.closeOnEmpty
        /\ u.stream0 = d.r.stream0 /\ u.frames = d.r.frames /\ u.sent = d.r.sent
    BY <1>4, <1>a DEF Socket
  <1> HIDE DEF u
  <1>6. x.out = d.out
    BY <1>1, <1>4, ConcatEmptySeq
  <1>7. /\ d.r.idle = TRUE /\ d.r.frames >= q.frames
        /\ d.r.stream0 > 0 => d.r.pending = TRUE /\ d.r.stream0 = q.stream0 /\ d.r.frames = q.frames
        /\ q.stream0 = 0 => d.r.stream0 = 0
        /\ d.r.stream0 = 0 \/ d.r.frames = 0 \/ ~Clear(d.r.sent)
        /\ d.r.draining = TRUE /\ d.r.stream0 > 0 => d.r.frames = 0
        /\ Clear(q.sent) \/ q.frames > 0 => Clear(d.r.sent) \/ d.r.frames > 0
        /\ d.r.frames \in Nat /\ d.r.stream0 \in Nat
    <2>1. After(q, p, d)
      BY <1>2, Dispatched
    <2>2. QED BY <2>1 DEF After
  <1>8. d.r.state \in {"OPEN", "CLOSING"}
    BY <1>2 DEF Effect, Awake
  <1>9. Sound(u)
    BY <1>5, <1>7, <1>8 DEF Sound, Connecting
  <1>10. \A o \in ToSet(x.out) :
            /\ o.body # "ack"
            /\ o.type \in {"HANDSHAKE", "ZRTT"} =>
                  u.state = "OPEN" /\ u.frames > q.frames /\ u.stream0 = 0
    <2>1. d.r.frames > r.frames => d.r.stream0 = 0
      BY <1>2, <1>7 DEF Effect, Awake
    <2>2. QED BY <1>2, <1>5, <1>6, <2>1 DEF Effect, Awake
  <1>11. u.state = "CLOSING" /\ u.idle = TRUE => Clear(u.sent \cap 1..q.frames)
    BY <1>2, <1>5 DEF Effect, Awake
  <1>12. over = "nothing" /\ Calm(q) /\ Once(q) /\ p.body # "close" =>
            /\ Calm(u) /\ Once(u) /\ u.state = "OPEN"
            /\ \A o \in ToSet(x.out) : o.body # "close"
    <2> SUFFICES ASSUME over = "nothing", Calm(q), Once(q), p.body # "close"
                 PROVE  /\ Calm(u) /\ Once(u) /\ u.state = "OPEN"
                        /\ \A o \in ToSet(x.out) : o.body # "close"
      OBVIOUS
    <2>1. Calmly(r, d)
      BY <1>3
    <2>2. u.state = "OPEN" /\ Calm(u)
      BY <1>5, <2>1 DEF Calmly, Calm, Awake
    <2>3. Once(u)
      BY <2>2 DEF Once, Connecting
    <2>4. QED BY <1>6, <2>1, <2>2, <2>3 DEF Calmly
  <1>13. q.draining = FALSE
    BY DEF Awake
  <1>14. QED
    BY <1>1, <1>4, <1>5, <1>6, <1>7, <1>8, <1>9, <1>10, <1>11, <1>12, <1>13 DEF Taken, Connecting, x

\* A 0-RTT packet at a new server socket; r awaits the transport parameters.
LEMMA ZrttTaken ==
    ASSUME vers \in BOOLEAN, zrtt \in BOOLEAN,
           NEW q, NEW p, Arrival(q, p), NEW r, Awake(q, r),
           q.state = "LISTENING", p.type = "ZRTT", r.could = TRUE
    PROVE  \A over : Taken(q, p, over, ReceivedZrtt(r, p))
  <1> DEFINE d == DispatchRecv(r, p)
             u == [d.r EXCEPT !.connected = TRUE, !.state = "OPEN",
                              !.could = FALSE, !.ack = TRUE]
             x == ReceivedZrtt(r, p)
  <1>1. x.r = u /\ x.out = d.out \o <<>>
    <2>1. r \in Socket
      BY DEF Awake
    <2>2. [r EXCEPT !.could = TRUE] = r
      BY <2>1 DEF Socket
    <2>3. QED BY <2>2 DEF ReceivedZrtt, Then, Step
  <1>2. Effect(r, d) /\ (p.body # "ack" => r.sent \subseteq d.r.sent)
    BY DispatchedAny
  <1>3. Calm(q) /\ Once(q) /\ p.body # "close" => Calmly(r, d)
    BY DispatchedCalmly
  <1>4. q \in Socket /\ r \in Socket /\ d.r \in Socket /\ d.out \in Seq(Packet)
    BY <1>2 DEF Effect, Awake, Arrival
  <1> HIDE DEF d, x
  <1>5. /\ u \in Socket /\ u.state = "OPEN" /\ u.draining = d.r.draining
        /\ u.idle = d.r.idle /\ u.pending = d.r.pending
        /\ u.closeLater = d.r.closeLater /\ u.closeOnEmpty = d.r.closeOnEmpty
        /\ u.stream0 = d.r.stream0 /\ u.frames = d.r.frames /\ u.sent = d.r.sent
    BY <1>4, ZenonT(60) DEF Socket, States
  <1> HIDE DEF u
  <1>6. x.out = d.out
    BY <1>1, <1>4, ConcatEmptySeq
  <1>7. /\ d.r.idle = TRUE /\ d.r.frames >= q.frames
        /\ q.stream0 = 0 => d.r.stream0 = 0
        /\ q.frames = 0 \/ ~Clear(q.sent) => d.r.frames = 0 \/ ~Clear(d.r.sent)
        /\ Clear(q.sent) \/ q.frames > 0 => Clear(d.r.sent) \/ d.r.frames > 0
        /\ d.r.frames \in Nat /\ d.r.stream0 \in Nat
    <2>1. After(q, p, d)
      BY <1>2, Dispatched
    <2>2. QED BY <2>1 DEF After
  <1>8. u.stream0 = 0
    BY <1>5, <1>7 DEF Arrival
  <1>9. Sound(u)
    BY <1>5, <1>7, <1>8 DEF Sound, Connecting
  <1>10. \A o \in ToSet(x.out) : o.body # "ack" /\ o.type \notin {"HANDSHAKE", "ZRTT"}
    BY <1>2, <1>6 DEF Effect, Awake
  <1>11. Calm(q) /\ Once(q) /\ p.body # "close" =>
            /\ Calm(u) /\ Once(u) /\ \A o \in ToSet(x.out) : o.body # "close"
    <2> SUFFICES ASSUME Calm(q), Once(q), p.body # "close"
                 PROVE  Calm(u) /\ Once(u) /\ \A o \in ToSet(x.out) : o.body # "close"
      OBVIOUS
    <2>1. Calmly(r, d)
      BY <1>3
    <2>2. Calm(u) /\ Once(u)
      BY <1>5, <2>1 DEF Calmly, Calm, Once, Connecting
    <2>3. QED BY <1>6, <2>1, <2>2 DEF Calmly
  <1>12. q.draining = FALSE
    BY DEF Awake
  <1>13. QED
    BY <1>1, <1>4, <1>5, <1>6, <1>7, <1>8, <1>9, <1>10, <1>11, <1>12 DEF Taken, Connecting, x

\* An INITIAL packet at the server.
LEMMA InitialTaken ==
    ASSUME vers \in BOOLEAN, zrtt \in BOOLEAN,
           NEW q, NEW p, Arrival(q, p), NEW r, Awake(q, r),
           q.state = "CONNECTING_SVR", p.type = "INITIAL"
    PROVE  \A over : Taken(q, p, over, ReceivedInitial(r, p))
  <1> DEFINE d == DispatchRecv(r, p)
             n == d.r.stream0 + 1
             u == [d.r EXCEPT !.could = FALSE, !.stream0 = n, !.pending = TRUE]
             v == [d.r EXCEPT !.params = FALSE, !.could = TRUE]
             o == <<Pkt("NEGOTIATION", "versions", 0, {})>>
             x == ReceivedInitial(r, p)
  <1>1. Effect(r, d) /\ (p.body # "ack" => r.sent \subseteq d.r.sent)
    BY DispatchedAny
  <1>2. Calm(q) /\ Once(q) /\ p.body # "close" => Calmly(r, d)
    BY DispatchedCalmly DEF Connecting
  <1>3. q \in Socket /\ r \in Socket /\ d.r \in Socket /\ d.out \in Seq(Packet)
    BY <1>1 DEF Effect, Awake, Arrival
  <1>4. \/ x.r = u /\ x.out = d.out \o <<>>
        \/ x.r = v /\ x.out = d.out \o o
    <2>1. CASE p.ok
      <3>1. /\ x.r = SendInitialHandshake([d.r EXCEPT !.could = FALSE]).r
            /\ x.out = d.out \o <<>>
        BY <2>1 DEF ReceivedInitial, Then, Step, SendInitialHandshake
      <3> HIDE DEF d, x
      <3>2. SendInitialHandshake([d.r EXCEPT !.could = FALSE]).r = u
        BY <1>3 DEF SendInitialHandshake, Step, Socket
      <3>3. QED BY <3>1, <3>2
    <2>2. CASE ~p.ok
      BY <2>2 DEF ReceivedInitial, Then, Step
    <2>3. QED BY <2>1, <2>2
  <1>5. n \in Nat
    BY <1>3 DEF Socket
  <1>6. o \in Seq(Packet) /\ \A b \in ToSet(o) : b.type = "NEGOTIATION" /\ b.body = "versions"
    <2>1. 0 \in Nat /\ {} \in SUBSET Nat
      OBVIOUS
    <2>2. QED BY <2>1, SendsOne DEF Sends
  <1> HIDE DEF d, x, n, o
  <1>7. /\ u \in Socket /\ u.state = d.r.state /\ u.draining = d.r.draining
        /\ u.idle = d.r.idle /\ u.ack = d.r.ack /\ u.pending = TRUE /\ u.could = FALSE
        /\ u.closeLater = d.r.closeLater /\ u.closeOnEmpty = d.r.closeOnEmpty
        /\ u.frames = d.r.frames /\ u.sent = d.r.sent
    BY <1>3, <1>5 DEF Socket
  <1>8. /\ v \in Socket /\ v.state = d.r.state /\ v.draining = d.r.draining
        /\ v.idle = d.r.idle /\ v.ack = d.r.ack /\ v.pending = d.r.pending /\ v.params = FALSE
        /\ v.closeLater = d.r.closeLater /\ v.closeOnEmpty = d.r.closeOnEmpty
        /\ v.frames = d.r.frames /\ v.sent = d.r.sent /\ v.stream0 = d.r.stream0
    BY <1>3 DEF Socket
  <1> HIDE DEF u, v
  <1>9. /\ x.out \in Seq(Packet)
        /\ \A b \in ToSet(x.out) : b \in ToSet(d.out) \/ (b.type = "NEGOTIATION" /\ b.body = "versions")
    <2>1. CASE x.out = d.out \o <<>>
      BY <1>3, <2>1, ConcatEmptySeq
    <2>2. CASE x.out = d.out \o o
      BY <1>3, <1>6, <2>2, ConcatSet
    <2>3. QED BY <1>4, <2>1, <2>2
  <1>10. /\ d.r.idle = TRUE /\ d.r.frames >= q.frames
         /\ d.r.stream0 > 0 => d.r.pending = TRUE
         /\ d.r.frames = 0 \/ ~Clear(d.r.sent)
         /\ d.r.draining = TRUE => d.r.frames = 0
         /\ Clear(q.sent) \/ q.frames > 0 => Clear(d.r.sent) \/ d.r.frames > 0
    <2>1. After(q, p, d)
      BY <1>1, Dispatched
    <2>2. QED BY <2>1 DEF After, Connecting
  <1>11. d.r.state \in {"CONNECTING_SVR", "CLOSING"} /\ d.r.ack = q.ack /\ q.draining = FALSE
    BY <1>1 DEF Effect, Awake
  <1>12. /\ x.r \in Socket /\ x.r.state = d.r.state /\ x.r.draining = d.r.draining
         /\ x.r.idle = TRUE /\ x.r.ack = q.ack
         /\ x.r.closeLater = d.r.closeLater /\ x.r.closeOnEmpty = d.r.closeOnEmpty
         /\ x.r.frames = d.r.frames /\ x.r.sent = d.r.sent
         /\ x.r.stream0 > 0 => x.r.pending = TRUE
         /\ ~(x.r.params = TRUE /\ x.r.could = TRUE)
    BY <1>4, <1>7, <1>8, <1>10, <1>11
  <1>13. Sound(x.r)
    BY <1>10, <1>11, <1>12 DEF Sound, Connecting
  <1>14. \A b \in ToSet(x.out) : b.body # "ack"
    BY <1>1, <1>9 DEF Effect
  <1>15. Calm(q) /\ Once(q) /\ p.body # "close" =>
            /\ Calm(x.r) /\ Once(x.r) /\ x.r.state = q.state
            /\ \A b \in ToSet(x.out) : b.body # "close"
    <2> SUFFICES ASSUME Calm(q), Once(q), p.body # "close"
                 PROVE  /\ Calm(x.r) /\ Once(x.r) /\ x.r.state = q.state
                        /\ \A b \in ToSet(x.out) : b.body # "close"
      OBVIOUS
    <2>1. Calmly(r, d)
      BY <1>2
    <2>2. Calm(x.r) /\ Once(x.r) /\ x.r.state = q.state
      BY <1>11, <1>12, <2>1 DEF Calmly, Calm, Once, Awake
    <2>3. QED BY <1>9, <2>1, <2>2 DEF Calmly
  <1>16. QED
    BY <1>9, <1>10, <1>11, <1>12, <1>13, <1>14, <1>15 DEF Taken, Connecting, x

\* The handshake of the server reaches the client.
LEMMA HandshakeTakenAtClient ==
    ASSUME vers \in BOOLEAN, zrtt \in BOOLEAN,
           NEW q, NEW p, Arrival(q, p), NEW r, Awake(q, r),
           q.state = "CONNECTING_CLT", p.type = "HANDSHAKE"
    PROVE  \A over : Taken(q, p, over, ReceivedHandshakeAtClient(r, p))
  <1> DEFINE d == DispatchRecv(r, p)
             n == d.r.stream0 + 1
             u == [d.r EXCEPT !.state = "OPEN", !.could = FALSE, !.stream0 = n,
                              !.pending = TRUE]
             x == ReceivedHandshakeAtClient(r, p)
  <1>1. Effect(r, d) /\ (p.body # "ack" => r.sent \subseteq d.r.sent)
    BY DispatchedAny
  <1>2. Calm(q) /\ Once(q) /\ p.body # "close" => Calmly(r, d)
    BY DispatchedCalmly DEF Connecting
  <1>3. q \in Socket /\ r \in Socket /\ d.r \in Socket /\ d.out \in Seq(Packet)
    BY <1>1 DEF Effect, Awake, Arrival
  <1>4. x.r = u /\ x.out = d.out \o <<>>
    <2>1. /\ x.r = SendInitialHandshake([d.r EXCEPT !.state = "OPEN", !.could = FALSE]).r
          /\ x.out = d.out \o <<>>
      BY DEF ReceivedHandshakeAtClient, Then, Step, SendInitialHandshake
    <2> HIDE DEF d, x
    <2>2. SendInitialHandshake([d.r EXCEPT !.state = "OPEN", !.could = FALSE]).r = u
      BY <1>3 DEF SendInitialHandshake, Step, Socket
    <2>3. QED BY <2>1, <2>2
  <1>5. n \in Nat
    BY <1>3 DEF Socket
  <1> HIDE DEF d, x, n
  <1>6. /\ u \in Socket /\ u.state = "OPEN" /\ u.draining = d.r.draining
        /\ u.idle = d.r.idle /\ u.pending = TRUE /\ u.ack = d.r.ack
        /\ u.closeLater = d.r.closeLater /\ u.closeOnEmpty = d.r.closeOnEmpty
        /\ u.stream0 = n /\ u.frames = d.r.frames /\ u.sent = d.r.sent
    BY <1>3, <1>5 DEF Socket, States
  <1> HIDE DEF u
  <1>7. x.out = d.out
    BY <1>3, <1>4, ConcatEmptySeq
  <1>8. /\ d.r.idle = TRUE /\ d.r.frames >= q.frames
        /\ d.r.frames = 0 \/ ~Clear(d.r.sent)
        /\ d.r.draining = TRUE => d.r.frames = 0
        /\ Clear(q.sent) \/ q.frames > 0 => Clear(d.r.sent) \/ d.r.frames > 0
        /\ d.r.frames \in Nat /\ d.r.stream0 \in Nat
    <2>1. After(q, p, d)
      BY <1>1, Dispatched
    <2>2. QED BY <2>1 DEF After, Connecting
  <1>9. Sound(u)
    BY <1>6, <1>8 DEF Sound, Connecting
  <1>10. \A o \in ToSet(x.out) : o.body # "ack" /\ o.type \notin {"HANDSHAKE", "ZRTT"}
    BY <1>1, <1>7 DEF Effect, Awake
  <1>11. Calm(q) /\ Once(q) /\ p.body # "close" =>
            /\ Calm(u) /\ Once(u) /\ \A o \in ToSet(x.out) : o.body # "close"
    <2> SUFFICES ASSUME Calm(q), Once(q), p.body # "close"
                 PROVE  Calm(u) /\ Once(u) /\ \A o \in ToSet(x.out) : o.body # "close"
      OBVIOUS
    <2>1. Calmly(r, d)
      BY <1>2
    <2>2. Calm(u) /\ Once(u)
      BY <1>6, <2>1 DEF Calmly, Calm, Once, Connecting
    <2>3. QED BY <1>7, <2>1, <2>2 DEF Calmly
  <1>12. q.draining = FALSE
    BY DEF Awake
  <1>13. QED
    BY <1>3, <1>4, <1>6, <1>7, <1>8, <1>9, <1>10, <1>11, <1>12 DEF Taken, Connecting, x

\* The client's second flight reaches the server.
LEMMA HandshakeTakenAtServer ==
    ASSUME vers \in BOOLEAN, zrtt \in BOOLEAN,
           NEW q, NEW p, Arrival(q, p), NEW r, Awake(q, r),
           q.state = "CONNECTING_SVR", p.type = "HANDSHAKE"
    PROVE  \A over : Taken(q, p, over, ReceivedHandshakeAtServer(r, p))
  <1> DEFINE d == DispatchRecv(r, p)
             u == [d.r EXCEPT !.state = "OPEN"]
             z == SendPendingData(u)
             x == ReceivedHandshakeAtServer(r, p)
  <1>1. Effect(r, d) /\ (p.body # "ack" => r.sent \subseteq d.r.sent)
    BY DispatchedAny
  <1>2. Calm(q) /\ Once(q) /\ p.body # "close" => Calmly(r, d)
    BY DispatchedCalmly DEF Connecting
  <1>3. q \in Socket /\ r \in Socket /\ d.r \in Socket /\ d.out \in Seq(Packet)
    BY <1>1 DEF Effect, Awake, Arrival
  <1>4. x.r = z.r /\ x.out = (d.out \o <<>>) \o z.out
    BY DEF ReceivedHandshakeAtServer, Then, Step
  <1> HIDE DEF d, x, z
  <1>5. /\ u \in Socket /\ u.state = "OPEN" /\ u.draining = d.r.draining
        /\ u.idle = d.r.idle /\ u.pending = d.r.pending /\ u.ack = d.r.ack
        /\ u.closeLater = d.r.closeLater /\ u.closeOnEmpty = d.r.closeOnEmpty
        /\ u.stream0 = d.r.stream0 /\ u.frames = d.r.frames /\ u.sent = d.r.sent
    BY <1>3 DEF Socket, States
  <1> HIDE DEF u
  <1>6. Pended(u, z)
    BY <1>5, SendPendingDataDoes DEF z
  <1>7. /\ Effect(u, z) /\ z.r.state = "OPEN" /\ z.r \in Socket /\ z.out \in Seq(Packet)
        /\ z.r.stream0 = 0 \/ (z.r.hung = TRUE /\ z.r.draining = TRUE)
        /\ u.draining = FALSE => z.r.draining = FALSE
        /\ u.draining = TRUE => z.r.frames = u.frames
        /\ u.sent \subseteq z.r.sent
        /\ z.r.ack = u.ack
    BY <1>5, <1>6 DEF Pended, Effect
  <1>8. x.out \in Seq(Packet) /\ ToSet(x.out) = ToSet(d.out) \cup ToSet(z.out)
    <2>1. d.out \o <<>> = d.out
      BY <1>3, ConcatEmptySeq
    <2>2. QED BY <1>3, <1>4, <1>7, <2>1, ConcatSet
  <1>9. /\ d.r.idle = TRUE /\ d.r.frames >= q.frames
        /\ d.r.frames = 0 \/ ~Clear(d.r.sent)
        /\ d.r.draining = TRUE => d.r.frames = 0
        /\ Clear(q.sent) \/ q.frames > 0 => Clear(d.r.sent) \/ d.r.frames > 0
        /\ d.r.frames \in Nat /\ q.frames \in Nat /\ d.r.draining \in BOOLEAN
    <2>1. After(q, p, d)
      BY <1>1, Dispatched
    <2>2. QED BY <1>3, <2>1 DEF After, Connecting, Socket
  <1>10. z.r.frames \in Nat /\ z.r.stream0 \in Nat /\ z.r.draining \in BOOLEAN
    BY <1>7 DEF Socket
  <1>11. \/ z.r.frames = d.r.frames /\ z.r.idle = TRUE /\ z.r.sent \subseteq d.r.sent
         \/ z.r.frames > d.r.frames /\ z.r.idle = TRUE /\ ~Clear(z.r.sent)
    BY <1>5, <1>7, <1>9 DEF Effect
  <1>12. z.r.frames = 0 \/ ~Clear(z.r.sent)
    <2>1. ~Clear(d.r.sent) => ~Clear(z.r.sent)
      BY <1>5, <1>7 DEF Clear
    <2>2. QED BY <1>9, <1>11, <2>1
  <1>13. z.r.draining = TRUE => z.r.frames = 0
    BY <1>5, <1>7, <1>9
  <1>14. Sound(z.r)
    BY <1>7, <1>10, <1>11, <1>12, <1>13 DEF Sound, Connecting
  <1>15. \A o \in ToSet(x.out) : o.body # "ack"
    BY <1>1, <1>7, <1>8 DEF Effect
  <1>16. Clear(q.sent) \/ q.frames > 0 => Clear(z.r.sent) \/ z.r.frames > 0
    <2>1. Clear(d.r.sent) /\ z.r.sent \subseteq d.r.sent => Clear(z.r.sent)
      BY DEF Clear
    <2>2. QED BY <1>9, <1>10, <1>11, <2>1
  <1>17. Calm(q) /\ Once(q) /\ p.body # "close" =>
            /\ Calm(z.r) /\ Once(z.r) /\ \A o \in ToSet(x.out) : o.body # "close"
    <2> SUFFICES ASSUME Calm(q), Once(q), p.body # "close"
                 PROVE  Calm(z.r) /\ Once(z.r) /\ \A o \in ToSet(x.out) : o.body # "close"
      OBVIOUS
    <2>1. Calmly(r, d)
      BY <1>2
    <2>2. Calm(u)
      BY <1>5, <2>1 DEF Calmly, Calm
    <2>3. Calm(z.r) /\ \A o \in ToSet(z.out) : o.body # "close"
      BY <1>6, <1>7, <2>2 DEF Pended, Calm
    <2>4. Once(z.r)
      BY <1>7 DEF Once, Connecting
    <2>5. QED BY <1>8, <2>1, <2>3, <2>4 DEF Calmly
  <1>18. q.draining = FALSE /\ z.r.ack = q.ack
    BY <1>1, <1>5, <1>7 DEF Awake, Effect
  <1>19. z.r.frames >= q.frames
    BY <1>9, <1>10, <1>11
  <1>20. QED
    BY <1>4, <1>7, <1>8, <1>12, <1>14, <1>15, <1>16, <1>17, <1>18, <1>19 DEF Taken, Connecting, x

\* ReceivedData, every branch.
LEMMA ReceivedTaken ==
    ASSUME vers \in BOOLEAN, zrtt \in BOOLEAN, NEW q, NEW p, Arrival(q, p),
           NEW over, over # "nothing" => q.connected = TRUE
    PROVE  Taken(q, p, over, ReceivedData(q, p, over))
  <1> DEFINE r == [q EXCEPT !.idle = TRUE]
             x == ReceivedData(q, p, over)
  <1>1. /\ q \in Socket /\ p \in Packet /\ q.draining \in BOOLEAN /\ q.frames \in Nat
        /\ q.stream0 \in Nat /\ q.pending \in BOOLEAN
    BY DEF Arrival, Socket
  <1>2. \A d, o : Step(d, o).r = d /\ Step(d, o).out = o
    BY DEF Step
  <1>3. <<>> \in Seq(Packet) /\ ToSet(<<>>) = {}
    BY ShortSet, EmptySeq
  <1>4. CASE q.draining = TRUE
    <2>1. x = Step(q, <<>>)
      BY <1>4 DEF ReceivedData
    <2>2. x.r = q /\ x.out = <<>>
      BY <1>2, <2>1
    <2> HIDE DEF x
    <2>3. Sound(q)
      BY <1>4 DEF Arrival
    <2>4. Calm(q) => FALSE
      BY <1>4 DEF Calm
    <2>5. Taken(q, p, over, x)
      BY <1>1, <1>3, <1>4, <2>2, <2>3, <2>4 DEF Taken, Connecting
    <2>6. QED BY <2>5 DEF x
  <1>5. CASE q.draining = FALSE
    <2>1. /\ r \in Socket /\ r.idle = TRUE /\ r.state = q.state /\ r.draining = q.draining
          /\ r.closeLater = q.closeLater /\ r.closeOnEmpty = q.closeOnEmpty
          /\ r.stream0 = q.stream0 /\ r.pending = q.pending /\ r.frames = q.frames
          /\ r.sent = q.sent /\ r.ack = q.ack /\ r.params = q.params /\ r.could = q.could
          /\ r.connected = q.connected
      BY <1>1 DEF Socket
    <2> DEFINE zrttOk == p.type = "ZRTT" /\ q.state = "LISTENING"
               initial == p.type = "INITIAL" /\ q.state = "CONNECTING_SVR"
               client == p.type = "HANDSHAKE" /\ q.state = "CONNECTING_CLT"
               server == p.type = "HANDSHAKE" /\ q.state = "CONNECTING_SVR"
               negotiation == p.type = "NEGOTIATION" /\ q.state = "CONNECTING_CLT"
               short == p.type = "SHORT" /\ q.state = "OPEN"
               closing == q.state = "CLOSING"
    <2>2. /\ zrttOk => x = ReceivedZrtt(r, p)
          /\ initial => x = ReceivedInitial(r, p)
          /\ client => x = ReceivedHandshakeAtClient(r, p)
          /\ server => x = ReceivedHandshakeAtServer(r, p)
          /\ negotiation => x = SendInitialHandshake(r)
          /\ short => x = ReceivedShort(r, p, over)
          /\ closing => x = AbortConnection(r)
          /\ ~(zrttOk \/ initial \/ client \/ server \/ negotiation \/ short \/ closing) =>
                x = Step(r, <<>>)
      <3> HIDE DEF r
      <3>1. x = CASE p.type = "ZRTT" /\ r.state = "LISTENING" -> ReceivedZrtt(r, p)
                  [] p.type = "INITIAL" /\ r.state = "CONNECTING_SVR" -> ReceivedInitial(r, p)
                  [] p.type = "HANDSHAKE" /\ r.state = "CONNECTING_CLT" ->
                         ReceivedHandshakeAtClient(r, p)
                  [] p.type = "HANDSHAKE" /\ r.state = "CONNECTING_SVR" ->
                         ReceivedHandshakeAtServer(r, p)
                  [] p.type = "NEGOTIATION" /\ r.state = "CONNECTING_CLT" ->
                         SendInitialHandshake(r)
                  [] p.type = "SHORT" /\ r.state = "OPEN" -> ReceivedShort(r, p, over)
                  [] r.state = "CLOSING" -> AbortConnection(r)
                  [] OTHER -> Step(r, <<>>)
        BY <1>5, <2>1 DEF ReceivedData, r
      <3> HIDE DEF x
      <3>2. QED BY <2>1, <3>1
    <2> HIDE DEF r
    <2>3. Awake(q, r)
      BY <1>5, <2>1 DEF Awake
    <2>4. Sound(r)
      BY <1>5, <2>1 DEF Sound, Held, Arrival, Connecting
    <2>5. /\ Calm(q) => Calm(r)
          /\ Once(q) => Once(r)
      BY <2>1 DEF Calm, Once
    <2>6. q.stream0 > 0 => q.pending = TRUE
      BY DEF Arrival, Held
    <2>7. CASE zrttOk
      <3> DEFINE c == [r EXCEPT !.could = TRUE]
      <3>1. /\ c \in Socket /\ c.idle = TRUE /\ c.state = q.state /\ c.draining = q.draining
            /\ c.closeLater = q.closeLater /\ c.closeOnEmpty = q.closeOnEmpty
            /\ c.stream0 = q.stream0 /\ c.pending = q.pending /\ c.frames = q.frames
            /\ c.sent = q.sent /\ c.ack = q.ack /\ c.params = q.params /\ c.could = TRUE
            /\ c.connected = q.connected
        BY <2>1 DEF Socket
      <3>2. [c EXCEPT !.could = TRUE] = c
        BY <2>1 DEF Socket
      <3>3. ReceivedZrtt(r, p) = ReceivedZrtt(c, p)
        BY <3>2 DEF ReceivedZrtt
      <3> HIDE DEF c
      <3>4. Awake(q, c)
        BY <1>5, <2>7, <3>1 DEF Awake
      <3>5. QED BY <2>2, <2>7, <3>1, <3>3, <3>4, ZrttTaken
    <2>8. CASE initial
      BY <2>2, <2>3, <2>8, InitialTaken
    <2>9. CASE client
      BY <2>2, <2>3, <2>9, HandshakeTakenAtClient
    <2>10. CASE server
      BY <2>2, <2>3, <2>10, HandshakeTakenAtServer
    <2>11. CASE short
      BY <2>2, <2>3, <2>11, ShortTaken
    <2>12. CASE negotiation
      <3> DEFINE n == r.stream0 + 1
                 u == [r EXCEPT !.stream0 = n, !.pending = TRUE]
      <3>1. x = Step(u, <<>>)
        BY <2>2, <2>12 DEF SendInitialHandshake
      <3>2. n \in Nat
        BY <1>1, <2>1
      <3> HIDE DEF n, x
      <3>3. /\ u \in Socket /\ u.idle = TRUE /\ u.state = q.state /\ u.draining = FALSE
            /\ u.closeLater = q.closeLater /\ u.closeOnEmpty = q.closeOnEmpty
            /\ u.pending = TRUE /\ u.frames = q.frames
            /\ u.sent = q.sent /\ u.ack = q.ack /\ u.params = q.params /\ u.could = q.could
        BY <1>5, <2>1, <3>2 DEF Socket
      <3> HIDE DEF u
      <3>4. x.r = u /\ x.out = <<>>
        BY <1>2, <3>1
      <3>5. Sound(u)
        BY <2>1, <2>4, <2>12, <3>3 DEF Sound, Connecting
      <3>6. (Calm(q) => Calm(u)) /\ (Once(q) => Once(u))
        BY <3>3 DEF Calm, Once
      <3>7. Taken(q, p, over, x)
        BY <1>1, <1>3, <1>5, <2>12, <3>3, <3>4, <3>5, <3>6 DEF Taken, Connecting
      <3>8. QED BY <3>7 DEF x
    <2>13. CASE closing
      <3> DEFINE y == Close(r)
      <3>1. x = AbortConnection(r)
        BY <2>2, <2>13
      <3> HIDE DEF x
      <3>2. Effect(r, x) /\ x.r = y.r /\ Closed(r, y)
        BY <2>1, <2>13, <3>1, AbortDoes
      <3> HIDE DEF y
      <3>3. /\ x.r \in Socket /\ x.out \in Seq(Packet) /\ x.r.state = "CLOSING"
            /\ x.r.sent = q.sent /\ x.r.frames = q.frames /\ x.r.stream0 = q.stream0
            /\ x.r.pending = q.pending /\ x.r.ack = q.ack
            /\ \A o \in ToSet(x.out) : o.body # "ack" /\ o.type \notin {"HANDSHAKE", "ZRTT"}
        BY <2>1, <2>13, <3>2 DEF Effect, Closed
      <3>4. x.r.draining # TRUE
        BY <1>5, <2>1, <2>13, <3>2 DEF Closed
      <3>5. Sound(x.r)
        BY <1>1, <2>6, <3>3, <3>4 DEF Sound, Connecting
      <3>6. Calm(q) => FALSE
        BY <2>13 DEF Calm
      <3>7. Taken(q, p, over, x)
        BY <1>1, <1>5, <2>13, <3>3, <3>5, <3>6 DEF Taken, Connecting
      <3>8. QED BY <3>7 DEF x
    <2>14. CASE ~(zrttOk \/ initial \/ client \/ server \/ negotiation \/ short \/ closing)
      <3>1. x = Step(r, <<>>)
        BY <2>2, <2>14
      <3> HIDE DEF x
      <3>2. x.r = r /\ x.out = <<>>
        BY <1>2, <3>1
      <3>3. x.r.state = q.state /\ q.state # "CLOSING" /\ (x.r.state = "CLOSING" => FALSE)
        BY <2>1, <2>14, <3>2
      <3>4. Taken(q, p, over, x)
        BY <1>1, <1>3, <1>5, <2>1, <2>4, <2>5, <3>2, <3>3 DEF Taken, Connecting
      <3>5. QED BY <3>4 DEF x
    <2>15. QED BY <2>7, <2>8, <2>9, <2>10, <2>11, <2>12, <2>13, <2>14
  <1>6. QED BY <1>1, <1>4, <1>5

-----------------------------------------------------------------------------
\* The parts of the invariant once more, in the form the steps below use.
ReasonFlat ==
    reason = FALSE =>
        /\ listener = TRUE /\ "clt" \in bound
        /\ "svr" \notin bound => sock["svr"].state = "LISTENING"
        /\ sock["clt"].state = "IDLE" => sock["clt"].pending = FALSE
        /\ \A e \in Ends : Calm(sock[e]) /\ Once(sock[e])
        /\ \A e \in Ends : \A p \in OnWire(e) : p.body # "close"

\* The server's socket, and the client's once its second flight has left.
Served ==
    /\ sock["svr"].state = "LISTENING" => sock["svr"].stream0 = 0
    /\ sock["svr"].state = "OPEN" =>
          /\ sock["svr"].stream0 = 0 \/ sock["svr"].draining = TRUE
          /\ zrtt = TRUE \/ "svr" \in auth
    /\ zrtt = TRUE \/ "svr" \in auth \/ sock["svr"].frames = 0 \/ ~Clear(sock["svr"].sent)
    /\ "svr" \notin bound =>
          /\ sock["svr"].state \in {"IDLE", "LISTENING"} /\ sock["svr"].draining = FALSE
          /\ sock["svr"].state = "LISTENING" =>
                /\ sock["svr"].idle = FALSE /\ sock["svr"].orphan = FALSE
                /\ sock["svr"].pending = FALSE
    /\ sock["svr"].ack = TRUE => "svr" \in opened

Flown(d) == d.stream0 = 0 /\ d.frames > 0 /\ d.state # "CONNECTING_CLT"

HangFlat ==
    /\ \A e \in Ends : Sound(sock[e])
    /\ \A e \in Ends : \A p \in OnWire(e) : p.body = "ack" => p.type = "SHORT"
    /\ Served
    /\ \A p \in OnWire("clt") : p.body = "ack" => "svr" \in opened
    /\ SecondFlight => Flown(sock["clt"])

StopFlat ==
    faults = 0 /\ reason = FALSE =>
        /\ fatal = FALSE
        /\ Clear(sock["clt"].sent) \/ sock["clt"].frames > 0
        /\ "svr" \notin bound =>
              /\ wire["clt"] = <<>> /\ sock["clt"].ack = FALSE
              /\ zrtt = TRUE \/ sock["clt"].state # "OPEN"
              /\ sock["clt"].frames = 0 => wire["svr"] = <<>> /\ sock["clt"].connected = FALSE
              /\ sock["clt"].frames # 0 =>
                    /\ wire["svr"] # <<>>
                    /\ \/ wire["svr"][1].type = "INITIAL"
                       \/ wire["svr"][1].type = "ZRTT" /\ zrtt = TRUE

\* The flags of a socket are Boolean.
LEMMA SockType ==
    TypeOK => /\ sock["clt"] \in Socket /\ sock["svr"] \in Socket
              /\ \A e \in Ends : sock[e] \in Socket /\ wire[e] \in Seq(Packet)
              /\ {listener, zrtt, vers, fatal, reason} \subseteq BOOLEAN
  BY DEF TypeOK, Ends

\* The flags and counters of a socket.
LEMMA FlagType ==
    ASSUME NEW d \in Socket
    PROVE  /\ d.connected \in BOOLEAN /\ d.idle \in BOOLEAN /\ d.orphan \in BOOLEAN
           /\ d.draining \in BOOLEAN /\ d.closeLater \in BOOLEAN
           /\ d.closeOnEmpty \in BOOLEAN /\ d.params \in BOOLEAN /\ d.could \in BOOLEAN
           /\ d.pending \in BOOLEAN /\ d.ack \in BOOLEAN /\ d.hung \in BOOLEAN
           /\ d.frames \in Nat /\ d.stream0 \in Nat /\ d.sent \subseteq Nat
  BY DEF Socket

\* ReasonInv and its flat form say the same of well-typed states.
LEMMA ReasonIff == TypeOK => (ReasonInv <=> ReasonFlat)
  <1> SUFFICES ASSUME TypeOK PROVE ReasonInv <=> ReasonFlat
    OBVIOUS
  <1>1. reason \in BOOLEAN /\ listener \in BOOLEAN
    BY SockType
  <1>2. \A e \in Ends :
          /\ sock[e].draining \in BOOLEAN /\ sock[e].closeLater \in BOOLEAN
          /\ sock[e].closeOnEmpty \in BOOLEAN /\ sock[e].params \in BOOLEAN
          /\ sock[e].could \in BOOLEAN /\ sock[e].pending \in BOOLEAN
    BY SockType, FlagType
  <1>3. QED BY <1>1, <1>2 DEF ReasonInv, ReasonFlat, Calm, Once, Connecting, Ends

\* HangInv and its flat form say the same of well-typed states.
LEMMA HangIff == TypeOK => (HangInv <=> HangFlat)
  <1> SUFFICES ASSUME TypeOK PROVE HangInv <=> HangFlat
    OBVIOUS
  <1>1. zrtt \in BOOLEAN
    BY SockType
  <1>2. \A e \in Ends :
          /\ sock[e].draining \in BOOLEAN /\ sock[e].idle \in BOOLEAN
          /\ sock[e].orphan \in BOOLEAN /\ sock[e].ack \in BOOLEAN
          /\ sock[e].hung \in BOOLEAN /\ sock[e].pending \in BOOLEAN
          /\ sock[e].frames \in Nat /\ sock[e].stream0 \in Nat
    BY SockType, FlagType
  <1>3. (\A e \in Ends : Sound(sock[e])) <=>
           /\ \A e \in Ends :
                 /\ sock[e].stream0 > 0 => sock[e].pending \/ sock[e].hung
                 /\ sock[e].state \in {"CONNECTING_CLT", "CONNECTING_SVR"} =>
                       sock[e].frames = 0 \/ sock[e].sent # {}
                 /\ sock[e].state = "OPEN" =>
                       sock[e].stream0 = 0 \/ sock[e].frames = 0 \/ sock[e].sent # {}
                 /\ sock[e].state \in {"CONNECTING_CLT", "CONNECTING_SVR", "OPEN"} =>
                       sock[e].idle \/ sock[e].frames = 0
           /\ NoHangOnceSent
    BY <1>2 DEF Sound, Clear, Connecting, NoHangOnceSent
  <1>4. Served <=>
           /\ sock["svr"].state = "LISTENING" => sock["svr"].stream0 = 0
           /\ sock["svr"].state = "OPEN" =>
                 /\ sock["svr"].stream0 = 0 \/ sock["svr"].draining
                 /\ zrtt \/ "svr" \in auth
           /\ zrtt \/ "svr" \in auth \/ sock["svr"].frames = 0 \/ sock["svr"].sent # {}
           /\ "svr" \notin bound =>
                 /\ sock["svr"].state \in {"IDLE", "LISTENING"} /\ ~sock["svr"].draining
                 /\ sock["svr"].state = "LISTENING" =>
                       ~sock["svr"].idle /\ ~sock["svr"].orphan /\ ~sock["svr"].pending
           /\ sock["svr"].ack => "svr" \in opened
    BY <1>1, <1>2 DEF Served, Clear, Ends
  <1>5. QED BY <1>3, <1>4 DEF HangInv, HangFlat, Flown

\* StopInv and its flat form say the same of well-typed states.
LEMMA StopIff == TypeOK => (StopInv <=> StopFlat)
  <1> SUFFICES ASSUME TypeOK PROVE StopInv <=> StopFlat
    OBVIOUS
  <1>1. zrtt \in BOOLEAN /\ fatal \in BOOLEAN /\ reason \in BOOLEAN
    BY SockType
  <1>2. /\ sock["clt"].ack \in BOOLEAN /\ sock["clt"].connected \in BOOLEAN
        /\ sock["clt"].frames \in Nat
    BY SockType, FlagType
  <1>3. QED BY <1>1, <1>2 DEF StopInv, StopFlat, Clear

\* The inductive invariant, and its flat form.
FlatInv == TypeOK /\ OpenInv /\ ReasonFlat /\ HangFlat /\ StopFlat

\* The inductive invariant may be shown in either form.
LEMMA FlatIff == ConnectionInv <=> FlatInv
  BY ReasonIff, HangIff, StopIff DEF ConnectionInv, FlatInv

-----------------------------------------------------------------------------
\* The end e has run a handler that leaves its socket as d and sends out; the
\* packets on the wires are among the old ones and those.
Handled(e, d, out) ==
    /\ d \in Socket /\ out \in Seq(Packet)
    /\ sock' = [sock EXCEPT ![e] = d]
    /\ opened' = IF d.state = "OPEN" THEN opened \cup {e} ELSE opened
    /\ zrtt' = zrtt
    /\ wire' \in [Ends -> Seq(Packet)]
    /\ ToSet(wire'[e]) \subseteq OnWire(e)
    /\ ToSet(wire'[Peer(e)]) \subseteq OnWire(Peer(e)) \cup ToSet(out)

\* A packet of the client's second flight.
Flight(out) == \E o \in ToSet(out) : o.type \in {"HANDSHAKE", "ZRTT"}

\* A handler changes the socket of its own end only.
LEMMA HandledSock ==
    ASSUME TypeOK, NEW e \in Ends, NEW d, NEW out, Handled(e, d, out)
    PROVE  /\ sock' \in [Ends -> Socket] /\ sock'[e] = d
           /\ \A f \in Ends : f # e => sock'[f] = sock[f]
           /\ opened' \subseteq Ends /\ opened \subseteq opened'
           /\ opened' \subseteq opened \cup {e}
           /\ d.state = "OPEN" => e \in opened'
           /\ \A f \in Ends : \A p \in ToSet(wire'[f]) :
                 p \in OnWire(f) \/ (f = Peer(e) /\ p \in ToSet(out))
  <1>1. sock \in [Ends -> Socket] /\ opened \subseteq Ends
    BY DEF TypeOK
  <1>2. /\ sock' \in [Ends -> Socket] /\ sock'[e] = d
        /\ \A f \in Ends : f # e => sock'[f] = sock[f]
    BY <1>1 DEF Handled
  <1>3. \A f \in Ends : f = e \/ f = Peer(e)
    BY DEF Ends, Peer
  <1>4. QED BY <1>1, <1>2, <1>3 DEF Handled

OpenOk(e, d, out) ==
    /\ e = "clt" => d.state \notin {"LISTENING", "CONNECTING_SVR"}
    /\ e = "svr" => d.state # "CONNECTING_CLT"
    /\ e = "clt" /\ Flight(out) => "OPEN" \in {sock["clt"].state, d.state}
    /\ e = "svr" /\ d.state = "OPEN" => "svr" \in opened \/ "clt" \in opened

\* A handler keeps OpenInv if what it does to its socket is OpenOk.
LEMMA OpenStep ==
    ASSUME TypeOK, OpenInv, NEW e \in Ends, NEW d, NEW out, Handled(e, d, out),
           OpenOk(e, d, out)
    PROVE  OpenInv'
  <1>1. /\ sock'[e] = d
        /\ \A f \in Ends : f # e => sock'[f] = sock[f]
        /\ opened \subseteq opened' /\ opened' \subseteq opened \cup {e}
        /\ d.state = "OPEN" => e \in opened'
        /\ \A f \in Ends : \A p \in ToSet(wire'[f]) :
              p \in OnWire(f) \/ (f = Peer(e) /\ p \in ToSet(out))
    BY HandledSock
  <1>2. /\ sock["clt"].state \notin {"LISTENING", "CONNECTING_SVR"}
        /\ sock["svr"].state # "CONNECTING_CLT"
        /\ \A f \in Ends : sock[f].state = "OPEN" => f \in opened
        /\ \A p \in OnWire("svr") : p.type \in {"HANDSHAKE", "ZRTT"} => "clt" \in opened
        /\ "svr" \in opened => "clt" \in opened
    BY DEF OpenInv, ClientOpensFirst
  <1>3. /\ sock'["clt"].state \notin {"LISTENING", "CONNECTING_SVR"}
        /\ sock'["svr"].state # "CONNECTING_CLT"
    BY <1>1, <1>2 DEF OpenOk, Ends
  <1>4. \A f \in Ends : sock'[f].state = "OPEN" => f \in opened'
    BY <1>1, <1>2
  <1>5. \A p \in ToSet(wire'["svr"]) : p.type \in {"HANDSHAKE", "ZRTT"} => "clt" \in opened'
    <2> SUFFICES ASSUME NEW p \in ToSet(wire'["svr"]), p.type \in {"HANDSHAKE", "ZRTT"}
                 PROVE  "clt" \in opened'
      OBVIOUS
    <2>1. CASE p \in OnWire("svr")
      BY <1>1, <1>2, <2>1
    <2>2. CASE "svr" = Peer(e) /\ p \in ToSet(out)
      <3>1. e = "clt" /\ Flight(out)
        BY <2>2 DEF Peer, Flight, Ends
      <3>2. QED BY <1>1, <1>2, <3>1 DEF OpenOk, Ends
    <2>3. QED BY <1>1, <2>1, <2>2 DEF Ends
  <1>6. "svr" \in opened' => "clt" \in opened'
    <2>1. CASE "svr" \in opened
      BY <1>1, <1>2, <2>1
    <2>2. CASE "svr" \notin opened /\ "svr" \in opened'
      <3>1. e = "svr" /\ d.state = "OPEN"
        BY <1>1, <2>2 DEF Handled
      <3>2. QED BY <1>1, <2>2, <3>1 DEF OpenOk
    <2>3. QED BY <2>1, <2>2
  <1>7. QED BY <1>3, <1>4, <1>5, <1>6 DEF OpenInv, ClientOpensFirst, OnWire

\* A connection in use starts to close when all it has sent is acknowledged.
AckedOk(e, d) ==
    sock[e].state = "OPEN" /\ d.state = "CLOSING" /\ d.idle = TRUE =>
        Clear(d.sent \cap 1..sock[e].frames)

AckedStep == \A f \in Ends : AckedOk(f, sock'[f])

HangOk(e, d, out) ==
    /\ AckedOk(e, d)
    /\ Sound(d)
    /\ \A o \in ToSet(out) :
          o.body = "ack" => o.type = "SHORT" /\ (e = "svr" => "svr" \in opened)
    /\ e = "clt" /\ (SecondFlight \/ Flight(out)) => Flown(d)
    /\ e = "svr" /\ d.state = "OPEN" => SecondFlight

\* A handler keeps HangInv if what it does to its socket is HangOk.
LEMMA HangStep ==
    ASSUME TypeOK, HangFlat, NEW e \in Ends, NEW d, NEW out, Handled(e, d, out),
           HangOk(e, d, out), Served'
    PROVE  HangFlat'
  <1>1. /\ sock'[e] = d
        /\ \A f \in Ends : f # e => sock'[f] = sock[f]
        /\ opened \subseteq opened' /\ opened' \subseteq opened \cup {e}
        /\ \A f \in Ends : \A p \in ToSet(wire'[f]) :
              p \in OnWire(f) \/ (f = Peer(e) /\ p \in ToSet(out))
    BY HandledSock
  <1>2. \A f \in Ends : Sound(sock'[f])
    BY <1>1 DEF HangFlat, HangOk
  <1>3. \A f \in Ends : \A p \in ToSet(wire'[f]) : p.body = "ack" => p.type = "SHORT"
    BY <1>1 DEF HangFlat, HangOk
  <1>4. \A p \in ToSet(wire'["clt"]) : p.body = "ack" => "svr" \in opened'
    <2>1. Peer(e) = "clt" => e = "svr"
      BY DEF Peer, Ends
    <2>2. QED BY <1>1, <2>1 DEF HangFlat, HangOk, Ends
  <1>5. SecondFlight' => Flown(sock'["clt"])
    <2>1. CASE e = "clt"
      <3>1. SecondFlight' => SecondFlight \/ Flight(out)
        <4>1. "svr" \in opened' => "svr" \in opened
          BY <1>1, <2>1
        <4>2. \A p \in ToSet(wire'["svr"]) : p \in OnWire("svr") \/ p \in ToSet(out)
          BY <1>1 DEF Ends
        <4>3. QED BY <4>1, <4>2 DEF SecondFlight, Flight, OnWire
      <3>2. QED BY <1>1, <2>1, <3>1 DEF HangOk
    <2>2. CASE e = "svr"
      <3>1. Peer(e) # "svr"
        BY <2>2 DEF Peer
      <3>2. \A p \in ToSet(wire'["svr"]) : p \in OnWire("svr")
        BY <1>1, <3>1 DEF Ends
      <3>3. "svr" \in opened' => "svr" \in opened \/ d.state = "OPEN"
        BY <2>2 DEF Handled
      <3>4. SecondFlight' => SecondFlight
        BY <2>2, <3>2, <3>3 DEF SecondFlight, OnWire, HangOk
      <3>5. sock'["clt"] = sock["clt"]
        BY <1>1, <2>2 DEF Ends
      <3>6. QED BY <3>4, <3>5 DEF HangFlat
    <2>3. QED BY <2>1, <2>2 DEF Ends
  <1>6. QED BY <1>2, <1>3, <1>4, <1>5 DEF HangFlat, OnWire

\* A handler that is HangOk enters CLOSING only with everything acknowledged.
LEMMA AckedByHandler ==
    ASSUME TypeOK, NEW e \in Ends, NEW d, NEW out, Handled(e, d, out), HangOk(e, d, out)
    PROVE  AckedStep
  <1>1. sock'[e] = d /\ \A f \in Ends : f # e => sock'[f] = sock[f]
    BY HandledSock
  <1>2. QED BY <1>1 DEF HangOk, AckedStep, AckedOk

\* What the step of the client leaves of the server's part.
LEMMA ServedByClient ==
    ASSUME TypeOK, HangFlat, NEW d, NEW out, Handled("clt", d, out),
           "svr" \in bound' <=> "svr" \in bound, auth \subseteq auth'
    PROVE  Served'
  <1>1. sock'["svr"] = sock["svr"] /\ opened \subseteq opened'
    BY HandledSock DEF Ends
  <1>2. zrtt' = zrtt
    BY DEF Handled
  <1>3. QED BY <1>1, <1>2 DEF Served, HangFlat

ReasonOk(e, d, out) ==
    reason' = FALSE =>
        /\ reason = FALSE /\ listener' = TRUE /\ "clt" \in bound'
        /\ "svr" \notin bound' => sock'["svr"].state = "LISTENING"
        /\ e = "clt" /\ d.state = "IDLE" => d.pending = FALSE
        /\ Calm(d) /\ Once(d)
        /\ \A o \in ToSet(out) : o.body # "close"

\* A handler keeps ReasonInv if what it does to its socket is ReasonOk.
LEMMA ReasonStep ==
    ASSUME TypeOK, ReasonFlat, NEW e \in Ends, NEW d, NEW out, Handled(e, d, out),
           ReasonOk(e, d, out)
    PROVE  ReasonFlat'
  <1> SUFFICES ASSUME reason' = FALSE
               PROVE  /\ listener' = TRUE /\ "clt" \in bound'
                      /\ "svr" \notin bound' => sock'["svr"].state = "LISTENING"
                      /\ sock'["clt"].state = "IDLE" => sock'["clt"].pending = FALSE
                      /\ \A f \in Ends : Calm(sock'[f]) /\ Once(sock'[f])
                      /\ \A f \in Ends : \A p \in ToSet(wire'[f]) : p.body # "close"
    BY DEF ReasonFlat, OnWire
  <1>1. /\ sock'[e] = d
        /\ \A f \in Ends : f # e => sock'[f] = sock[f]
        /\ \A f \in Ends : \A p \in ToSet(wire'[f]) :
              p \in OnWire(f) \/ (f = Peer(e) /\ p \in ToSet(out))
    BY HandledSock
  <1>2. /\ reason = FALSE /\ listener' = TRUE /\ "clt" \in bound'
        /\ "svr" \notin bound' => sock'["svr"].state = "LISTENING"
        /\ e = "clt" /\ d.state = "IDLE" => d.pending = FALSE
        /\ Calm(d) /\ Once(d)
        /\ \A o \in ToSet(out) : o.body # "close"
    BY DEF ReasonOk
  <1>3. /\ sock["clt"].state = "IDLE" => sock["clt"].pending = FALSE
        /\ \A f \in Ends : Calm(sock[f]) /\ Once(sock[f])
        /\ \A f \in Ends : \A p \in OnWire(f) : p.body # "close"
    BY <1>2 DEF ReasonFlat
  <1>4. QED BY <1>1, <1>2, <1>3 DEF Ends

-----------------------------------------------------------------------------
\* The wires after a step that adds out to one of them, or nothing.
LEMMA AddedWire ==
    ASSUME TypeOK, NEW e \in Ends, NEW out \in Seq(Packet),
           wire' = wire \/ wire' = [wire EXCEPT ![Peer(e)] = @ \o out]
    PROVE  /\ wire' \in [Ends -> Seq(Packet)]
           /\ wire'[e] = wire[e]
           /\ wire' = [wire EXCEPT ![Peer(e)] = @ \o out] => wire'[Peer(e)] = wire[Peer(e)] \o out
           /\ ToSet(wire'[e]) \subseteq OnWire(e)
           /\ ToSet(wire'[Peer(e)]) \subseteq OnWire(Peer(e)) \cup ToSet(out)
  <1>1. Peer(e) \in Ends /\ Peer(e) # e /\ wire \in [Ends -> Seq(Packet)]
    BY DEF Peer, Ends, TypeOK
  <1>2. /\ wire[Peer(e)] \o out \in Seq(Packet)
        /\ ToSet(wire[Peer(e)] \o out) = ToSet(wire[Peer(e)]) \cup ToSet(out)
    BY <1>1, ConcatSet
  <1>3. wire' = [wire EXCEPT ![Peer(e)] = @ \o out] => wire'[Peer(e)] = wire[Peer(e)] \o out
    BY <1>1
  <1>4. CASE wire' = wire
    BY <1>1, <1>4, <1>3 DEF OnWire
  <1>5. CASE wire' = [wire EXCEPT ![Peer(e)] = @ \o out]
    <2>1. wire'[e] = wire[e] /\ wire'[Peer(e)] = wire[Peer(e)] \o out
      BY <1>1, <1>5, <1>3
    <2>2. wire' \in [Ends -> Seq(Packet)]
      BY <1>1, <1>2, <1>5
    <2>3. QED BY <1>2, <2>1, <2>2 DEF OnWire
  <1>6. QED BY <1>4, <1>5

\* A handler that the event queue or an application runs.
LEMMA RunHandled ==
    ASSUME TypeOK, NEW e \in Ends, NEW x, x.r \in Socket, x.out \in Seq(Packet),
           Run(e, x), wire' = wire \/ wire' = Sent(e, x)
    PROVE  /\ Handled(e, x.r, x.out)
           /\ sock[e].hung = FALSE /\ sock[e] \in Socket
           /\ e \notin bound => wire' = wire
  <1>1. wire' = wire \/ wire' = [wire EXCEPT ![Peer(e)] = @ \o x.out]
    BY DEF Sent
  <1>2. /\ wire' \in [Ends -> Seq(Packet)]
        /\ ToSet(wire'[e]) \subseteq OnWire(e)
        /\ ToSet(wire'[Peer(e)]) \subseteq OnWire(Peer(e)) \cup ToSet(x.out)
    BY <1>1, AddedWire
  <1>3. sock[e] \in Socket /\ sock[e].hung \in BOOLEAN
    BY SockType, FlagType
  <1>4. sock[e].hung = FALSE
    BY <1>3 DEF Run, Running
  <1>5. Handled(e, x.r, x.out)
    BY <1>2 DEF Run, Finish, Handled
  <1>6. QED BY <1>3, <1>4, <1>5 DEF Sent

\* The variables that such a handler leaves alone.
LEMMA RunType ==
    ASSUME TypeOK, NEW e \in Ends, NEW x, Handled(e, x.r, x.out), Run(e, x),
           bound' \subseteq Ends, reason' \in BOOLEAN
    PROVE  TypeOK'
  <1>1. sock' \in [Ends -> Socket] /\ opened' \subseteq Ends
    BY HandledSock
  <1>2. wire' \in [Ends -> Seq(Packet)]
    BY DEF Handled
  <1>3. /\ auth' \subseteq Ends /\ faults' \in 0..MaxFaults
        /\ {listener', zrtt', vers', fatal', reason'} \subseteq BOOLEAN
    BY DEF Run, TypeOK
  <1>4. QED BY <1>1, <1>2, <1>3 DEF TypeOK

\* What such a step of the client may do before the server has a socket.
StopOk(d, out) ==
    Clear(sock["clt"].sent) \/ sock["clt"].frames > 0 =>
        /\ Clear(d.sent) \/ d.frames > 0
        /\ "svr" \notin bound /\ sock["clt"].ack = FALSE
                 /\ (zrtt = TRUE \/ sock["clt"].state # "OPEN") =>
              /\ d.ack = FALSE /\ (zrtt = TRUE \/ d.state # "OPEN")
              /\ \/ /\ d.frames = sock["clt"].frames /\ d.connected = sock["clt"].connected
                    /\ out = <<>> \/ sock["clt"].frames > 0
                 \/ /\ d.frames > 0 /\ out # <<>>
                    /\ sock["clt"].frames = 0 /\ sock["clt"].connected = FALSE =>
                          \/ out[1].type = "INITIAL"
                          \/ out[1].type = "ZRTT" /\ zrtt = TRUE

\* A handler of the client keeps StopInv if what it does is StopOk.
LEMMA StopByClient ==
    ASSUME TypeOK, StopFlat, NEW d, NEW out, Handled("clt", d, out),
           faults' = faults, fatal' = fatal, bound' = bound,
           reason' = FALSE =>
               /\ reason = FALSE /\ StopOk(d, out)
               /\ \/ wire' = wire /\ out = <<>>
                  \/ wire' = [wire EXCEPT ![Peer("clt")] = @ \o out]
    PROVE  StopFlat'
  <1> SUFFICES ASSUME faults' = 0, reason' = FALSE
               PROVE  /\ fatal' = FALSE
                      /\ Clear(sock'["clt"].sent) \/ sock'["clt"].frames > 0
                      /\ "svr" \notin bound' =>
                            /\ wire'["clt"] = <<>> /\ sock'["clt"].ack = FALSE
                            /\ zrtt' = TRUE \/ sock'["clt"].state # "OPEN"
                            /\ sock'["clt"].frames = 0 =>
                                  wire'["svr"] = <<>> /\ sock'["clt"].connected = FALSE
                            /\ sock'["clt"].frames # 0 =>
                                  /\ wire'["svr"] # <<>>
                                  /\ \/ wire'["svr"][1].type = "INITIAL"
                                     \/ wire'["svr"][1].type = "ZRTT" /\ zrtt' = TRUE
    BY DEF StopFlat
  <1>1. "clt" \in Ends /\ "svr" \in Ends /\ Peer("clt") = "svr"
    BY DEF Ends, Peer
  <1>2. sock'["clt"] = d /\ zrtt' = zrtt /\ d \in Socket /\ out \in Seq(Packet)
    BY <1>1, HandledSock DEF Handled
  <1>3. wire'["clt"] = wire["clt"]
    BY <1>1, <1>2, AddedWire
  <1>4. wire'["svr"] = wire["svr"] \o out
    <2>1. CASE wire' = wire /\ out = <<>>
      <3>1. wire["svr"] \in Seq(Packet)
        BY <1>1, SockType
      <3>2. QED BY <2>1, <3>1, ConcatEmptySeq
    <2>2. CASE wire' = [wire EXCEPT ![Peer("clt")] = @ \o out]
      BY <1>1, <1>2, <2>2, AddedWire
    <2>3. QED BY <2>1, <2>2
  <1>5. /\ fatal = FALSE /\ StopOk(d, out)
        /\ Clear(sock["clt"].sent) \/ sock["clt"].frames > 0
        /\ "svr" \notin bound =>
              /\ wire["clt"] = <<>> /\ sock["clt"].ack = FALSE
              /\ zrtt = TRUE \/ sock["clt"].state # "OPEN"
              /\ sock["clt"].frames = 0 => wire["svr"] = <<>> /\ sock["clt"].connected = FALSE
              /\ sock["clt"].frames # 0 =>
                    /\ wire["svr"] # <<>>
                    /\ \/ wire["svr"][1].type = "INITIAL"
                       \/ wire["svr"][1].type = "ZRTT" /\ zrtt = TRUE
    BY DEF StopFlat
  <1>6. sock["clt"].frames \in Nat /\ d.frames \in Nat
    BY <1>1, <1>2, SockType, FlagType
  <1>7. wire["svr"] \in Seq(Packet)
    BY <1>1, SockType
  <1>8. wire["svr"] # <<>> => wire'["svr"] # <<>> /\ wire'["svr"][1] = wire["svr"][1]
    <2> SUFFICES ASSUME wire["svr"] # <<>>
                 PROVE  wire'["svr"] # <<>> /\ wire'["svr"][1] = wire["svr"][1]
      OBVIOUS
    <2>1. Len(wire["svr"]) \in Nat \ {0}
      BY <1>7, EmptySeq, LenProperties
    <2>2. /\ Len(wire["svr"] \o out) = Len(wire["svr"]) + Len(out) /\ Len(out) \in Nat
          /\ (wire["svr"] \o out)[1] = wire["svr"][1]
      BY <1>2, <1>7, <2>1, ConcatProperties, LenProperties
    <2>3. wire["svr"] \o out # <<>>
      BY <2>1, <2>2, EmptySeq
    <2>4. QED BY <1>4, <2>2, <2>3
  <1>9. wire["svr"] = <<>> => wire'["svr"] = out
    BY <1>2, <1>4, ConcatEmptySeq
  <1>10. QED
    <2>1. fatal' = FALSE /\ (Clear(d.sent) \/ d.frames > 0)
      BY <1>5 DEF StopOk
    <2>2. ASSUME "svr" \notin bound
          PROVE  /\ wire'["clt"] = <<>> /\ d.ack = FALSE
                 /\ zrtt = TRUE \/ d.state # "OPEN"
                 /\ d.frames = 0 => wire'["svr"] = <<>> /\ d.connected = FALSE
                 /\ d.frames # 0 =>
                       /\ wire'["svr"] # <<>>
                       /\ \/ wire'["svr"][1].type = "INITIAL"
                          \/ wire'["svr"][1].type = "ZRTT" /\ zrtt = TRUE
      <3>1. CASE sock["clt"].frames = 0
        BY <1>3, <1>5, <1>6, <1>9, <2>2, <3>1 DEF StopOk
      <3>2. CASE sock["clt"].frames # 0
        BY <1>3, <1>5, <1>6, <1>8, <2>2, <3>2 DEF StopOk
      <3>3. QED BY <3>1, <3>2
    <2>3. QED BY <1>2, <2>1, <2>2

\* A step of the server does nothing to that.
LEMMA StopByServer ==
    ASSUME TypeOK, StopFlat, NEW d, NEW out, Handled("svr", d, out),
           "svr" \notin bound' => wire' = wire /\ "svr" \notin bound,
           faults' = faults, fatal' = fatal, reason' = FALSE => reason = FALSE
    PROVE  StopFlat'
  <1>1. sock'["clt"] = sock["clt"] /\ zrtt' = zrtt
    BY HandledSock DEF Handled, Ends
  <1>2. QED BY <1>1 DEF StopFlat

\* The server's part, after a handler of its socket.
ServedOk(d) ==
    /\ d.state = "LISTENING" => d.stream0 = 0
    /\ d.state = "OPEN" =>
          /\ d.stream0 = 0 \/ d.draining = TRUE
          /\ zrtt = TRUE \/ "svr" \in auth
    /\ zrtt = TRUE \/ "svr" \in auth \/ d.frames = 0 \/ ~Clear(d.sent)
    /\ "svr" \notin bound =>
          /\ d.state \in {"IDLE", "LISTENING"} /\ d.draining = FALSE
          /\ d.state = "LISTENING" => d.idle = FALSE /\ d.orphan = FALSE /\ d.pending = FALSE
    /\ d.ack = TRUE => "svr" \in opened \/ d.state = "OPEN"

\* A handler of the server keeps the server's part of HangInv if it is ServedOk.
LEMMA ServedByServer ==
    ASSUME TypeOK, NEW d, NEW out, Handled("svr", d, out), bound' = bound, auth' = auth,
           ServedOk(d)
    PROVE  Served'
  <1>1. sock'["svr"] = d /\ opened \subseteq opened' /\ (d.state = "OPEN" => "svr" \in opened')
    BY HandledSock DEF Ends
  <1>2. zrtt' = zrtt
    BY DEF Handled
  <1>3. QED BY <1>1, <1>2 DEF Served, ServedOk

\* What is asked of a handler while nobody has closed.
CalmOk(e, d, out) ==
    /\ Calm(d) /\ Once(d)
    /\ \A o \in ToSet(out) : o.body # "close"
    /\ e = "clt" /\ d.state = "IDLE" => d.pending = FALSE
    /\ e = "svr" /\ "svr" \notin bound => d.state = "LISTENING"
    /\ e = "clt" => StopOk(d, out)

\* A handler run by a timer or the application keeps the whole invariant.
LEMMA RunKeeps ==
    ASSUME FlatInv, NEW e \in Ends, NEW x, x.r \in Socket, x.out \in Seq(Packet), Run(e, x),
           (wire' = wire /\ x.out = <<>>) \/ wire' = Sent(e, x), bound' = bound,
           OpenOk(e, x.r, x.out), HangOk(e, x.r, x.out), e = "svr" => ServedOk(x.r),
           reason' = TRUE \/ (reason' = reason /\ (reason = FALSE => CalmOk(e, x.r, x.out)))
    PROVE  FlatInv' /\ AckedStep
  <1>1. TypeOK /\ OpenInv /\ ReasonFlat /\ HangFlat /\ StopFlat
    BY DEF FlatInv
  <1>2. reason \in BOOLEAN /\ bound \subseteq Ends
    BY <1>1, SockType DEF TypeOK
  <1>3. Handled(e, x.r, x.out) /\ (e \notin bound => wire' = wire)
    BY <1>1, RunHandled
  <1>4. /\ listener' = listener /\ auth' = auth /\ faults' = faults /\ fatal' = fatal
        /\ reason' \in BOOLEAN
    BY <1>2 DEF Run
  <1>5. TypeOK'
    BY <1>1, <1>2, <1>3, <1>4, RunType
  <1>6. OpenInv'
    BY <1>1, <1>3, OpenStep
  <1>7. HangFlat'
    <2>1. CASE e = "clt"
      <3>1. Served'
        BY <1>1, <1>3, <1>4, <2>1, ServedByClient
      <3>2. QED BY <1>1, <1>3, <3>1, HangStep
    <2>2. CASE e = "svr"
      <3>1. Served'
        BY <1>1, <1>3, <1>4, <2>2, ServedByServer
      <3>2. QED BY <1>1, <1>3, <3>1, HangStep
    <2>3. QED BY <2>1, <2>2 DEF Ends
  <1>8. ReasonFlat'
    <2>1. ReasonOk(e, x.r, x.out)
      <3> SUFFICES ASSUME reason' = FALSE
                   PROVE  /\ reason = FALSE /\ listener' = TRUE /\ "clt" \in bound'
                          /\ "svr" \notin bound' => sock'["svr"].state = "LISTENING"
                          /\ e = "clt" /\ x.r.state = "IDLE" => x.r.pending = FALSE
                          /\ Calm(x.r) /\ Once(x.r)
                          /\ \A o \in ToSet(x.out) : o.body # "close"
        BY DEF ReasonOk
      <3>1. reason = FALSE /\ CalmOk(e, x.r, x.out)
        OBVIOUS
      <3>2. /\ listener = TRUE /\ "clt" \in bound
            /\ "svr" \notin bound => sock["svr"].state = "LISTENING"
        BY <1>1, <3>1 DEF ReasonFlat
      <3>3. "svr" \notin bound => sock'["svr"].state = "LISTENING"
        <4>1. sock'[e] = x.r /\ \A f \in Ends : f # e => sock'[f] = sock[f]
          BY <1>1, <1>3, HandledSock
        <4>2. QED BY <3>1, <3>2, <4>1 DEF CalmOk, Ends
      <3>4. QED BY <1>4, <3>1, <3>2, <3>3 DEF CalmOk
    <2>2. QED BY <1>1, <1>3, <2>1, ReasonStep
  <1>9. StopFlat'
    <2>1. CASE e = "clt"
      <3>1. reason' = FALSE =>
               /\ reason = FALSE /\ StopOk(x.r, x.out)
               /\ \/ wire' = wire /\ x.out = <<>>
                  \/ wire' = [wire EXCEPT ![Peer("clt")] = @ \o x.out]
        BY <1>1, <2>1 DEF CalmOk, ReasonFlat, Sent
      <3>2. QED BY <1>1, <1>3, <1>4, <2>1, <3>1, StopByClient
    <2>2. CASE e = "svr"
      BY <1>1, <1>3, <1>4, <2>2, StopByServer
    <2>3. QED BY <2>1, <2>2 DEF Ends
  <1>10. AckedStep
    BY <1>1, <1>3, AckedByHandler
  <1>11. QED BY <1>5, <1>6, <1>7, <1>8, <1>9, <1>10 DEF FlatInv

-----------------------------------------------------------------------------
\* A step that sends nothing sends no flight.
LEMMA NoFlight == <<>> \in Seq(Packet) /\ ToSet(<<>>) = {} /\ ~Flight(<<>>)
  BY ShortSet, EmptySeq DEF Flight

\* The application of the client connects.
LEMMA ConnectKeeps ==
    ASSUME FlatInv, Connect
    PROVE  FlatInv' /\ AckedStep
  <1> DEFINE r == sock["clt"]
             state == IF zrtt THEN "OPEN" ELSE "CONNECTING_CLT"
             n == r.stream0 + 1
             d == [r EXCEPT !.state = state, !.stream0 = n, !.pending = TRUE]
             x == Step(d, <<>>)
  <1>1. TypeOK /\ OpenInv /\ ReasonFlat /\ HangFlat /\ StopFlat
    BY DEF FlatInv
  <1>2. /\ "clt" \in Ends /\ r \in Socket /\ zrtt \in BOOLEAN
        /\ bound \subseteq Ends /\ reason \in BOOLEAN
    BY <1>1, SockType DEF Ends, TypeOK
  <1>3. /\ r.state = "IDLE" /\ r.frames = 0 /\ r.stream0 = 0 /\ Run("clt", x)
        /\ bound' = bound /\ wire' = wire /\ reason' = reason
    <2>1. SendInitialHandshake([r EXCEPT !.state = state]) = x
      <3> HIDE DEF state, r
      <3>1. QED BY <1>2 DEF SendInitialHandshake, Socket
    <2>2. QED BY <2>1 DEF Connect
  <1>4. state \in {"OPEN", "CONNECTING_CLT"} /\ (state = "OPEN" => zrtt = TRUE)
    BY <1>2
  <1>5. n = 1
    BY <1>3
  <1>6. x.r = d /\ x.out = <<>>
    BY DEF Step
  <1> HIDE DEF state, n, x, r
  <1>7. /\ d \in Socket /\ d.state = state /\ d.stream0 = 1 /\ d.pending = TRUE
        /\ d.frames = r.frames /\ d.sent = r.sent /\ d.draining = r.draining /\ d.ack = r.ack
        /\ d.closeLater = r.closeLater /\ d.closeOnEmpty = r.closeOnEmpty
        /\ d.params = r.params /\ d.could = r.could /\ d.connected = r.connected
    BY <1>2, <1>4, <1>5 DEF Socket, States
  <1> HIDE DEF d
  <1>8. OpenOk("clt", d, <<>>)
    BY <1>4, <1>7, NoFlight DEF OpenOk
  <1>9. HangOk("clt", d, <<>>)
    <2>1. Sound(d)
      BY <1>3, <1>4, <1>7 DEF Sound
    <2>2. SecondFlight => FALSE
      BY <1>1, <1>3 DEF HangFlat, Flown, r
    <2>3. AckedOk("clt", d)
      BY <1>3 DEF AckedOk, r
    <2>4. QED BY <2>1, <2>2, <2>3, NoFlight DEF HangOk
  <1>10. reason = FALSE => CalmOk("clt", d, <<>>)
    <2> SUFFICES ASSUME reason = FALSE PROVE CalmOk("clt", d, <<>>)
      OBVIOUS
    <2>1. Calm(r) /\ Once(r)
      BY <1>1, <1>2 DEF ReasonFlat, r
    <2>2. Calm(d) /\ Once(d)
      BY <1>3, <1>4, <1>7, <2>1 DEF Calm, Once, Connecting
    <2>3. StopOk(d, <<>>)
      BY <1>3, <1>4, <1>7 DEF StopOk, r
    <2>4. QED BY <1>4, <1>7, <2>2, <2>3, NoFlight DEF CalmOk
  <1>11. QED
    BY <1>2, <1>3, <1>6, <1>7, <1>8, <1>9, <1>10, NoFlight, RunKeeps

\* A handler that keeps what the invariant is about, on a socket that it may
\* leave with an event or a timeout more.
Kept(r, d) ==
    /\ d \in Socket
    /\ d.state = r.state /\ d.stream0 = r.stream0 /\ d.frames = r.frames /\ d.sent = r.sent
    /\ d.draining = r.draining /\ d.closeLater = r.closeLater
    /\ d.closeOnEmpty = r.closeOnEmpty /\ d.params = r.params /\ d.could = r.could
    /\ d.connected = r.connected /\ d.hung = r.hung
    /\ d.pending = r.pending \/ (d.pending = TRUE /\ r.state \notin {"IDLE", "LISTENING"})
    /\ (d.idle = r.idle /\ d.orphan = r.orphan) \/ (d.idle = TRUE /\ r.state = "OPEN")
    /\ d.ack = TRUE => r.ack = TRUE

\* A handler that leaves the state of the socket and stream 0 alone is harmless.
LEMMA KeptOk ==
    ASSUME FlatInv, NEW e \in Ends, NEW d, Kept(sock[e], d), NEW out,
           \A o \in ToSet(out) : o.type = "SHORT" /\ o.body # "close",
           \A o \in ToSet(out) : o.body = "ack" /\ e = "svr" => "svr" \in opened
    PROVE  /\ OpenOk(e, d, out) /\ HangOk(e, d, out)
           /\ e = "svr" => ServedOk(d)
           /\ reason = FALSE /\ (e = "clt" => StopOk(d, out)) => CalmOk(e, d, out)
  <1> DEFINE r == sock[e]
  <1>1. TypeOK /\ OpenInv /\ ReasonFlat /\ HangFlat
    BY DEF FlatInv
  <1>2. r \in Socket
    BY <1>1, SockType
  <1>3. ~Flight(out)
    BY DEF Flight
  <1>4. r.state = "OPEN" => e \in opened
    BY <1>1 DEF OpenInv
  <1>5. OpenOk(e, d, out)
    BY <1>1, <1>3, <1>4 DEF OpenOk, OpenInv, Kept, Ends
  <1>6. Sound(r)
    BY <1>1 DEF HangFlat
  <1>7. Sound(d)
    BY <1>2, <1>6 DEF Sound, Kept
  <1>8. e = "clt" /\ SecondFlight => Flown(d)
    BY <1>1 DEF HangFlat, Flown, Kept
  <1>9. e = "svr" /\ d.state = "OPEN" => SecondFlight
    BY <1>4 DEF SecondFlight, Kept
  <1>10. AckedOk(e, d)
    BY DEF AckedOk, Kept
  <1>11. HangOk(e, d, out)
    BY <1>3, <1>7, <1>8, <1>9, <1>10 DEF HangOk
  <1>12. e = "svr" => ServedOk(d)
    BY <1>1 DEF HangFlat, Served, ServedOk, Kept
  <1>13. ASSUME reason = FALSE, e = "clt" => StopOk(d, out) PROVE CalmOk(e, d, out)
    <2>1. /\ Calm(r) /\ Once(r)
          /\ sock["clt"].state = "IDLE" => sock["clt"].pending = FALSE
          /\ "svr" \notin bound => sock["svr"].state = "LISTENING"
      BY <1>1, <1>13 DEF ReasonFlat
    <2>2. Calm(d) /\ Once(d)
      BY <2>1 DEF Calm, Once, Kept
    <2>3. QED BY <1>13, <2>1, <2>2 DEF CalmOk, Kept
  <1>14. QED BY <1>5, <1>11, <1>12, <1>13

\* The application sends.
LEMMA SendKeeps ==
    ASSUME FlatInv, NEW e \in Ends, Send(e)
    PROVE  FlatInv' /\ AckedStep
  <1> DEFINE r == sock[e]
             n == r.data + 1
             w == r.written + 1
             d == [r EXCEPT !.data = n, !.written = w, !.pending = TRUE]
             x == Step(d, <<>>)
  <1>1. r \in Socket
    BY SockType DEF FlatInv
  <1>2. /\ r.state \notin {"IDLE", "LISTENING"} /\ Run(e, x) /\ bound' = bound /\ wire' = wire /\ reason' = reason
    BY <1>1 DEF Send
  <1>3. n \in Nat /\ w \in Nat
    BY <1>1 DEF Socket
  <1>4. x.r = d /\ x.out = <<>>
    BY DEF Step
  <1> HIDE DEF n, w, x
  <1>5. Kept(r, d)
    BY <1>1, <1>2, <1>3 DEF Socket, Kept
  <1> HIDE DEF d
  <1>6. e = "clt" => StopOk(d, <<>>)
    BY <1>1, <1>5, FlagType DEF StopOk, Kept
  <1>7. /\ OpenOk(e, d, <<>>) /\ HangOk(e, d, <<>>)
        /\ e = "svr" => ServedOk(d)
        /\ reason = FALSE => CalmOk(e, d, <<>>)
    BY <1>5, <1>6, NoFlight, KeptOk
  <1>8. d \in Socket
    BY <1>5 DEF Kept
  <1>9. QED BY <1>2, <1>4, <1>7, <1>8, NoFlight, RunKeeps

\* A scheduled ACK is sent.
LEMMA SendAckKeeps ==
    ASSUME FlatInv, NEW e \in Ends, SendAck(e)
    PROVE  FlatInv' /\ AckedStep
  <1> DEFINE r == sock[e]
             d == [r EXCEPT !.ack = FALSE]
             out == <<Pkt("SHORT", "ack", 0, r.rcvd)>>
             x == Step(d, out)
  <1>1. r \in Socket /\ r.ack \in BOOLEAN /\ r.rcvd \in SUBSET Nat /\ vers \in BOOLEAN
    <2>1. TypeOK
      BY DEF FlatInv
    <2>2. r \in Socket /\ vers \in BOOLEAN
      BY <2>1, SockType
    <2>3. QED BY <2>2 DEF Socket
  <1>2. r.ack = TRUE /\ Run(e, x) /\ bound' = bound /\ wire' = Sent(e, x) /\ reason' = reason
    BY <1>1 DEF SendAck
  <1>3. out \in Seq(Packet) /\ \A o \in ToSet(out) : o.type = "SHORT" /\ o.body = "ack"
    <2>1. 0 \in Nat
      OBVIOUS
    <2>2. QED BY <1>1, <2>1, SendsOne DEF Sends
  <1>4. x.r = d /\ x.out = out
    BY DEF Step
  <1> HIDE DEF x, out
  <1>5. Kept(r, d) /\ d.ack = FALSE
    BY <1>1 DEF Socket, Kept
  <1> HIDE DEF d
  <1>6. e = "clt" => StopOk(d, out)
    BY <1>1, <1>2, <1>5 DEF StopOk, Kept
  <1>7. e = "svr" => "svr" \in opened
    BY <1>2 DEF FlatInv, HangFlat, Served
  <1>8. /\ OpenOk(e, d, out) /\ HangOk(e, d, out)
        /\ e = "svr" => ServedOk(d)
        /\ reason = FALSE => CalmOk(e, d, out)
    BY <1>3, <1>5, <1>6, <1>7, KeptOk
  <1>9. d \in Socket
    BY <1>5 DEF Kept
  <1>10. QED BY <1>2, <1>3, <1>4, <1>8, <1>9, RunKeeps

\* A frame is sent again.
LEMMA ReTxTimeoutKeeps ==
    ASSUME FlatInv, NEW e \in Ends, ReTxTimeout(e)
    PROVE  FlatInv' /\ AckedStep
  <1> DEFINE r == sock[e]
             d == [r EXCEPT !.idle = TRUE, !.orphan = TRUE]
             out == <<Pkt("SHORT", "stream", Min(r.sent), {})>>
             x == Step(d, out)
  <1>1. r \in Socket /\ r.sent \in SUBSET Nat /\ r.frames \in Nat /\ vers \in BOOLEAN
    <2>1. TypeOK
      BY DEF FlatInv
    <2>2. r \in Socket /\ vers \in BOOLEAN
      BY <2>1, SockType
    <2>3. QED BY <2>2 DEF Socket
  <1>2. /\ r.state = "OPEN" /\ r.sent # {} /\ Run(e, x) /\ bound' = bound
        /\ wire' = Sent(e, x) /\ reason' = reason
    BY DEF ReTxTimeout
  <1>3. out \in Seq(Packet) /\ \A o \in ToSet(out) : o.type = "SHORT" /\ o.body = "stream"
    <2>1. Min(r.sent) \in Nat /\ {} \in SUBSET Nat
      BY <1>1, <1>2, MinNat
    <2>2. QED BY <1>1, <2>1, SendsOne DEF Sends
  <1>4. x.r = d /\ x.out = out
    BY DEF Step
  <1> HIDE DEF x, out
  <1>5. Kept(r, d) /\ d.ack = r.ack
    BY <1>1, <1>2 DEF Socket, Kept
  <1> HIDE DEF d
  <1>6. e = "clt" => StopOk(d, out)
    BY <1>1, <1>2, <1>5 DEF StopOk, Kept, Clear
  <1>7. /\ OpenOk(e, d, out) /\ HangOk(e, d, out)
        /\ e = "svr" => ServedOk(d)
        /\ reason = FALSE => CalmOk(e, d, out)
    BY <1>3, <1>5, <1>6, KeptOk
  <1>8. d \in Socket
    BY <1>5 DEF Kept
  <1>9. QED BY <1>2, <1>3, <1>4, <1>7, <1>8, RunKeeps

\* The event of AppendingTx.
LEMMA RunSendPendingDataKeeps ==
    ASSUME FlatInv, NEW e \in Ends, RunSendPendingData(e)
    PROVE  FlatInv' /\ AckedStep
  <1> DEFINE q == sock[e]
             r == [q EXCEPT !.pending = FALSE]
             x == SendPendingData(r)
  <1>1. TypeOK /\ OpenInv /\ ReasonFlat /\ HangFlat
    BY DEF FlatInv
  <1>2. /\ q \in Socket /\ vers \in BOOLEAN /\ zrtt \in BOOLEAN /\ q.pending \in BOOLEAN
        /\ q.frames \in Nat /\ q.stream0 \in Nat /\ q.closeOnEmpty \in BOOLEAN
    BY <1>1, SockType, FlagType
  <1>3. /\ q.pending = TRUE /\ Run(e, x) /\ bound' = bound
        /\ wire' = Sent(e, x) /\ reason' = reason
    BY <1>2 DEF RunSendPendingData
  <1>4. /\ r \in Socket /\ r.state = q.state /\ r.stream0 = q.stream0 /\ r.frames = q.frames
        /\ r.sent = q.sent /\ r.draining = q.draining /\ r.closeLater = q.closeLater
        /\ r.closeOnEmpty = q.closeOnEmpty /\ r.params = q.params /\ r.could = q.could
        /\ r.connected = q.connected /\ r.ack = q.ack /\ r.idle = q.idle
    BY <1>2 DEF Socket
  <1> HIDE DEF r
  <1>5. Pended(r, x)
    BY <1>2, <1>4, SendPendingDataDoes
  <1> HIDE DEF x
  <1>6. /\ x.r \in Socket /\ x.out \in Seq(Packet) /\ x.r.state = q.state /\ x.r.ack = q.ack
        /\ x.r.could = q.could /\ x.r.params = q.params /\ x.r.closeLater = q.closeLater
        /\ x.r.closeOnEmpty = q.closeOnEmpty
        /\ q.sent \subseteq x.r.sent
        /\ x.r.stream0 = 0 \/ (x.r.hung = TRUE /\ x.r.draining = TRUE)
        /\ q.draining = FALSE => x.r.draining = FALSE
        /\ q.draining = TRUE => x.r.draining = TRUE \/ x.r.stream0 = 0
        /\ \/ /\ x.r.frames = q.frames /\ x.r.stream0 = q.stream0
              /\ x.r.idle = q.idle /\ x.r.sent \subseteq q.sent
           \/ /\ x.r.frames > q.frames /\ x.r.stream0 = 0
              /\ x.r.idle = TRUE /\ ~Clear(x.r.sent) /\ x.r.draining = FALSE
        /\ \A o \in ToSet(x.out) :
              /\ o.body # "ack"
              /\ o.type \in {"HANDSHAKE", "ZRTT"} =>
                    \/ q.state = "CONNECTING_SVR"
                    \/ q.state = "OPEN" /\ x.r.frames > q.frames
    BY <1>4, <1>5 DEF Pended, Effect
  <1>7. /\ x.r.frames \in Nat /\ x.r.stream0 \in Nat /\ x.r.draining \in BOOLEAN
        /\ q.draining \in BOOLEAN
    BY <1>2, <1>6, FlagType
  <1>8. Sound(q)
    BY <1>1 DEF HangFlat
  <1>9. ~Clear(q.sent) => ~Clear(x.r.sent)
    BY <1>6 DEF Clear
  <1>10. Sound(x.r)
    BY <1>2, <1>6, <1>7, <1>8, <1>9 DEF Sound
  <1>11. /\ sock["clt"].state \notin {"LISTENING", "CONNECTING_SVR"}
         /\ sock["svr"].state # "CONNECTING_CLT"
         /\ q.state = "OPEN" => e \in opened
    BY <1>1 DEF OpenInv
  <1>12. e = "clt" /\ Flight(x.out) =>
            q.state = "OPEN" /\ x.r.frames > q.frames /\ x.r.stream0 = 0
    <2> SUFFICES ASSUME e = "clt", NEW o \in ToSet(x.out), o.type \in {"HANDSHAKE", "ZRTT"}
                 PROVE  q.state = "OPEN" /\ x.r.frames > q.frames /\ x.r.stream0 = 0
      BY DEF Flight
    <2>1. q.state = "OPEN" /\ x.r.frames > q.frames
      BY <1>6, <1>11
    <2>2. QED BY <1>2, <1>6, <1>7, <2>1
  <1>13. OpenOk(e, x.r, x.out)
    BY <1>6, <1>11, <1>12 DEF OpenOk
  <1>14. HangOk(e, x.r, x.out)
    <2>1. e = "clt" /\ SecondFlight => Flown(x.r)
      BY <1>1, <1>2, <1>6, <1>7 DEF HangFlat, Flown
    <2>2. e = "clt" /\ Flight(x.out) => Flown(x.r)
      BY <1>2, <1>6, <1>7, <1>12 DEF Flown
    <2>3. e = "svr" /\ x.r.state = "OPEN" => SecondFlight
      BY <1>6, <1>11 DEF SecondFlight
    <2>4. AckedOk(e, x.r)
      BY <1>6 DEF AckedOk
    <2>5. QED BY <1>6, <1>10, <2>1, <2>2, <2>3, <2>4 DEF HangOk
  <1>15. e = "svr" => ServedOk(x.r)
    <2> SUFFICES ASSUME e = "svr" PROVE ServedOk(x.r)
      OBVIOUS
    <2>1. /\ q.state = "LISTENING" => q.stream0 = 0
          /\ q.state = "OPEN" =>
                /\ q.stream0 = 0 \/ q.draining = TRUE
                /\ zrtt = TRUE \/ "svr" \in auth
          /\ zrtt = TRUE \/ "svr" \in auth \/ q.frames = 0 \/ ~Clear(q.sent)
          /\ "svr" \notin bound =>
                /\ q.state \in {"IDLE", "LISTENING"} /\ q.draining = FALSE
                /\ q.state = "LISTENING" => q.pending = FALSE
          /\ q.ack = TRUE => "svr" \in opened
      BY <1>1 DEF HangFlat, Served
    <2>2. QED BY <1>2, <1>3, <1>6, <1>7, <1>9, <2>1 DEF ServedOk
  <1>16. reason = FALSE => CalmOk(e, x.r, x.out)
    <2> SUFFICES ASSUME reason = FALSE PROVE CalmOk(e, x.r, x.out)
      OBVIOUS
    <2>1. /\ Calm(q) /\ Once(q)
          /\ sock["clt"].state = "IDLE" => sock["clt"].pending = FALSE
          /\ "svr" \notin bound => sock["svr"].state = "LISTENING"
      BY <1>1 DEF ReasonFlat
    <2>2. Calm(x.r) /\ Once(x.r)
      BY <1>6, <2>1 DEF Calm, Once
    <2>3. \A o \in ToSet(x.out) : o.body # "close"
      BY <1>4, <1>5, <2>1 DEF Pended, Calm
    <2>4. e = "clt" => StopOk(x.r, x.out)
      <3> SUFFICES ASSUME e = "clt" PROVE StopOk(x.r, x.out)
        OBVIOUS
      <3>1. q.state \in {"OPEN", "CONNECTING_CLT"}
        <4>1. q.state \in States
          BY <1>2 DEF Socket
        <4>2. QED BY <1>3, <1>11, <2>1, <4>1 DEF States, Calm
      <3>2. \/ /\ x.r.sent = q.sent /\ x.r.frames = q.frames /\ x.r.connected = q.connected
               /\ x.out = <<>>
            \/ /\ x.r.frames > q.frames
               /\ x.out # <<>> /\ x.out[1].type = Header(r)
        BY <1>4, <1>5, <2>1, <3>1 DEF Pended, Calm
      <3>3. /\ q.state = "CONNECTING_CLT" => Header(r) = "INITIAL"
            /\ q.state = "OPEN" /\ q.connected = FALSE /\ zrtt = TRUE => Header(r) = "ZRTT"
        BY <1>2, <1>4, HeaderType
      <3>4. QED BY <1>2, <1>6, <1>7, <3>1, <3>2, <3>3 DEF StopOk
    <2>5. QED BY <1>3, <1>6, <2>1, <2>2, <2>3, <2>4 DEF CalmOk
  <1>17. QED BY <1>3, <1>6, <1>13, <1>14, <1>15, <1>16, RunKeeps

-----------------------------------------------------------------------------
\* The socket r is the one of e, or that after its idle timeout.
Closing(e, r) ==
    /\ r \in Socket /\ sock[e].hung = FALSE
    /\ r.state = sock[e].state /\ r.stream0 = sock[e].stream0 /\ r.frames = sock[e].frames
    /\ r.sent = sock[e].sent /\ r.draining = sock[e].draining /\ r.pending = sock[e].pending
    /\ r.ack = sock[e].ack
    /\ r.idle = sock[e].idle \/ (r.idle = FALSE /\ r.stream0 = 0)
    /\ e = "svr" /\ "svr" \notin bound => r.state # "LISTENING"

\* Close keeps the invariant.
LEMMA ClosedOk ==
    ASSUME FlatInv, NEW e \in Ends, NEW r, Closing(e, r), NEW x, Closed(r, x)
    PROVE  /\ OpenOk(e, x.r, x.out) /\ HangOk(e, x.r, x.out)
           /\ e = "svr" => ServedOk(x.r)
  <1> DEFINE q == sock[e]
  <1>1. TypeOK /\ OpenInv /\ HangFlat
    BY DEF FlatInv
  <1>2. /\ r.idle \in BOOLEAN /\ r.stream0 \in Nat /\ r.frames \in Nat /\ r.draining \in BOOLEAN
        /\ r.state \in States
    BY FlagType DEF Closing, Socket
  <1>3. \A o \in ToSet(x.out) : o.type = "SHORT" /\ o.body = "close"
    BY DEF Closed, Sends
  <1>4. ~Flight(x.out)
    BY <1>3 DEF Flight
  <1>5. /\ sock["clt"].state \notin {"LISTENING", "CONNECTING_SVR"}
        /\ sock["svr"].state # "CONNECTING_CLT"
        /\ q.state = "OPEN" => e \in opened
    BY <1>1 DEF OpenInv
  <1>6. OpenOk(e, x.r, x.out)
    BY <1>4, <1>5 DEF OpenOk, Closed, Closing
  <1>7. Sound(q) /\ (e = "svr" => (q.state = "LISTENING" => q.stream0 = 0))
    BY <1>1 DEF HangFlat, Served
  <1>8. x.r.draining = TRUE /\ x.r.stream0 > 0 => x.r.frames = 0
    <2> SUFFICES ASSUME x.r.draining = TRUE, r.stream0 > 0 PROVE r.frames = 0
      BY DEF Closed
    <2>1. CASE r.draining = TRUE
      BY <1>7, <2>1 DEF Sound, Closing
    <2>2. CASE r.state \notin {"IDLE", "CLOSING"} /\ (r.idle = FALSE \/ Clear(r.sent))
      <3>1. r.state # "LISTENING"
        BY <1>2, <1>5, <1>7 DEF Closing, Ends
      <3>2. r.state \in Connecting \cup {"OPEN"}
        BY <1>2, <2>2, <3>1 DEF States, Connecting
      <3>3. r.idle = q.idle
        BY <1>2 DEF Closing
      <3>4. QED BY <1>2, <1>7, <2>2, <3>2, <3>3 DEF Sound, Closing
    <2>3. QED BY <2>1, <2>2 DEF Closed
  <1>9. r.stream0 > 0 => r.pending = TRUE
    BY <1>7 DEF Sound, Closing
  <1>10. Sound(x.r)
    BY <1>2, <1>7, <1>8, <1>9 DEF Sound, Closed, Closing, Connecting
  <1>11. e = "clt" /\ SecondFlight => Flown(x.r)
    BY <1>1 DEF HangFlat, Flown, Closed, Closing
  <1>12. e = "svr" /\ x.r.state = "OPEN" => SecondFlight
    BY <1>5 DEF SecondFlight, Closed, Closing
  <1>13. AckedOk(e, x.r)
    <2>1. Clear(r.sent) => Clear(r.sent \cap 1..r.frames)
      BY DEF Clear
    <2>2. QED BY <1>2, <2>1 DEF AckedOk, Closed, Closing
  <1>14. HangOk(e, x.r, x.out)
    BY <1>3, <1>4, <1>10, <1>11, <1>12, <1>13 DEF HangOk
  <1>15. e = "svr" => ServedOk(x.r)
    <2> SUFFICES ASSUME e = "svr" PROVE ServedOk(x.r)
      OBVIOUS
    <2>1. /\ r.state = "LISTENING" => r.stream0 = 0
          /\ r.state = "OPEN" =>
                /\ r.stream0 = 0 \/ r.draining = TRUE
                /\ zrtt = TRUE \/ "svr" \in auth
          /\ zrtt = TRUE \/ "svr" \in auth \/ r.frames = 0 \/ ~Clear(r.sent)
          /\ "svr" \notin bound => r.state = "IDLE" /\ r.draining = FALSE
          /\ r.ack = TRUE => "svr" \in opened
      BY <1>1 DEF HangFlat, Served, Closing
    <2>2. x.r.draining \in BOOLEAN
      BY FlagType DEF Closed
    <2>3. QED BY <2>1, <2>2 DEF ServedOk, Closed
  <1>16. QED BY <1>6, <1>14, <1>15

\* Close, called by the application or a timeout.
LEMMA CallCloseKeeps ==
    ASSUME FlatInv, NEW e \in Ends, NEW r, CallClose(e, r),
           sock[e].hung = FALSE => Closing(e, r)
    PROVE  FlatInv' /\ AckedStep
  <1> DEFINE x == Close(r)
  <1>1. Run(e, x) /\ wire' = Sent(e, x) /\ reason' = TRUE /\ bound' = bound
    BY DEF CallClose
  <1>2. sock[e].hung \in BOOLEAN /\ vers \in BOOLEAN
    BY SockType, FlagType DEF FlatInv
  <1>3. Closing(e, r)
    BY <1>1, <1>2 DEF Run, Running
  <1>4. Closed(r, x)
    BY <1>2, <1>3, CloseDoes DEF Closing
  <1> HIDE DEF x
  <1>5. x.r \in Socket /\ x.out \in Seq(Packet)
    BY <1>4 DEF Closed, Sends
  <1>6. OpenOk(e, x.r, x.out) /\ HangOk(e, x.r, x.out) /\ (e = "svr" => ServedOk(x.r))
    BY <1>3, <1>4, ClosedOk
  <1>7. QED BY <1>1, <1>5, <1>6, RunKeeps

\* The application closes.
LEMMA AppCloseKeeps ==
    ASSUME FlatInv, NEW e \in Ends, AppClose(e)
    PROVE  FlatInv' /\ AckedStep
  <1>1. sock[e] \in Socket
    BY SockType DEF FlatInv
  <1>2. sock[e].hung = FALSE => Closing(e, sock[e])
    BY <1>1 DEF Closing, AppClose
  <1>3. CallClose(e, sock[e])
    BY DEF AppClose
  <1>4. QED BY <1>2, <1>3, CallCloseKeeps

\* The idle timeout.
LEMMA IdleTimeoutKeeps ==
    ASSUME FlatInv, NEW e \in Ends, IdleTimeout(e)
    PROVE  FlatInv' /\ AckedStep
  <1> DEFINE r == [sock[e] EXCEPT !.idle = FALSE]
  <1>1. TypeOK /\ HangFlat
    BY DEF FlatInv
  <1>2. /\ sock[e] \in Socket /\ sock[e].idle \in BOOLEAN /\ sock[e].pending \in BOOLEAN
        /\ sock[e].stream0 \in Nat
    BY <1>1, SockType, FlagType
  <1>3. CallClose(e, r) /\ sock[e].idle = TRUE /\ sock[e].pending = FALSE
    BY <1>2 DEF IdleTimeout, Quiet
  <1>4. /\ r \in Socket /\ r.idle = FALSE /\ r.state = sock[e].state
        /\ r.stream0 = sock[e].stream0 /\ r.frames = sock[e].frames
        /\ r.sent = sock[e].sent /\ r.draining = sock[e].draining /\ r.pending = sock[e].pending
        /\ r.ack = sock[e].ack
    BY <1>2 DEF Socket
  <1> HIDE DEF r
  <1>5. sock[e].hung = FALSE => sock[e].stream0 = 0
    BY <1>1, <1>2, <1>3 DEF HangFlat, Sound
  <1>6. e = "svr" /\ "svr" \notin bound => sock[e].state # "LISTENING"
    BY <1>1, <1>3 DEF HangFlat, Served
  <1>7. sock[e].hung = FALSE => Closing(e, r)
    BY <1>4, <1>5, <1>6 DEF Closing
  <1>8. QED BY <1>3, <1>7, CallCloseKeeps

\* An idle timeout that was overwritten.
LEMMA OrphanTimeoutKeeps ==
    ASSUME FlatInv, NEW e \in Ends, OrphanTimeout(e)
    PROVE  FlatInv' /\ AckedStep
  <1> DEFINE r == [sock[e] EXCEPT !.orphan = FALSE]
  <1>1. TypeOK /\ HangFlat
    BY DEF FlatInv
  <1>2. sock[e] \in Socket /\ sock[e].orphan \in BOOLEAN
    BY <1>1, SockType, FlagType
  <1>3. CallClose(e, r) /\ sock[e].orphan = TRUE
    BY <1>2 DEF OrphanTimeout
  <1>4. /\ r \in Socket /\ r.idle = sock[e].idle /\ r.state = sock[e].state
        /\ r.stream0 = sock[e].stream0 /\ r.frames = sock[e].frames
        /\ r.sent = sock[e].sent /\ r.draining = sock[e].draining /\ r.pending = sock[e].pending
        /\ r.ack = sock[e].ack
    BY <1>2 DEF Socket
  <1> HIDE DEF r
  <1>5. e = "svr" /\ "svr" \notin bound => sock[e].state # "LISTENING"
    BY <1>1, <1>3 DEF HangFlat, Served
  <1>6. sock[e].hung = FALSE => Closing(e, r)
    BY <1>4, <1>5 DEF Closing
  <1>7. QED BY <1>3, <1>6, CallCloseKeeps

\* The listening socket is closed, and the server's socket with it.
LEMMA CloseListenerKeeps ==
    ASSUME FlatInv, CloseListener
    PROVE  FlatInv' /\ AckedStep
  <1> DEFINE q == sock["svr"]
             x == IF "svr" \in bound THEN Close(q) ELSE Step(q, <<>>)
  <1>1. TypeOK /\ OpenInv /\ ReasonFlat /\ HangFlat /\ StopFlat
    BY DEF FlatInv
  <1>2. /\ "svr" \in Ends /\ q \in Socket /\ q.hung \in BOOLEAN /\ vers \in BOOLEAN
        /\ bound \subseteq Ends
    BY <1>1, SockType, FlagType DEF Ends, TypeOK
  <1>3. /\ Running /\ Finish("svr", x) /\ wire' = Sent("svr", x) /\ listener' = FALSE
        /\ reason' = TRUE /\ bound' = bound /\ auth' = auth /\ zrtt' = zrtt
        /\ vers' = vers /\ fatal' = fatal /\ faults' = faults
    BY DEF CloseListener
  <1>4. q.hung = FALSE
    BY <1>2, <1>3 DEF Running
  <1>5. /\ x.r \in Socket /\ x.out \in Seq(Packet)
        /\ OpenOk("svr", x.r, x.out) /\ HangOk("svr", x.r, x.out) /\ ServedOk(x.r)
    <2>1. CASE "svr" \in bound
      <3>1. Closing("svr", q)
        BY <1>2, <1>4, <2>1 DEF Closing
      <3>2. Closed(q, x)
        BY <1>2, <2>1, CloseDoes
      <3> HIDE DEF x
      <3>3. QED BY <1>2, <3>1, <3>2, ClosedOk DEF Closed, Sends
    <2>2. CASE "svr" \notin bound
      <3>1. x = Step(q, <<>>)
        BY <2>2
      <3> HIDE DEF x
      <3>2. x.r = q /\ x.out = <<>>
        BY <3>1 DEF Step
      <3>3. Kept(q, q)
        BY <1>2 DEF Kept
      <3>4. OpenOk("svr", q, <<>>) /\ HangOk("svr", q, <<>>) /\ ServedOk(q)
        BY <1>2, <3>3, NoFlight, KeptOk
      <3>5. QED BY <1>2, <3>2, <3>4, NoFlight
    <2>3. QED BY <2>1, <2>2
  <1> HIDE DEF x
  <1>6. Handled("svr", x.r, x.out)
    <2>1. wire' = wire \/ wire' = [wire EXCEPT ![Peer("svr")] = @ \o x.out]
      BY <1>3 DEF Sent
    <2>2. /\ wire' \in [Ends -> Seq(Packet)]
          /\ ToSet(wire'["svr"]) \subseteq OnWire("svr")
          /\ ToSet(wire'[Peer("svr")]) \subseteq OnWire(Peer("svr")) \cup ToSet(x.out)
      BY <1>1, <1>2, <1>5, <2>1, AddedWire
    <2>3. QED BY <1>3, <1>5, <2>2 DEF Finish, Handled
  <1>7. TypeOK'
    <2>1. sock' \in [Ends -> Socket] /\ opened' \subseteq Ends
      BY <1>1, <1>2, <1>6, HandledSock
    <2>2. wire' \in [Ends -> Seq(Packet)]
      BY <1>6 DEF Handled
    <2>3. QED BY <1>1, <1>3, <2>1, <2>2 DEF TypeOK
  <1>8. OpenInv'
    BY <1>1, <1>2, <1>5, <1>6, OpenStep
  <1>9. HangFlat'
    <2>1. Served'
      BY <1>1, <1>3, <1>5, <1>6, ServedByServer
    <2>2. QED BY <1>1, <1>2, <1>5, <1>6, <2>1, HangStep
  <1>10. ReasonFlat' /\ StopFlat'
    BY <1>3 DEF ReasonFlat, StopFlat
  <1>11. AckedStep
    BY <1>1, <1>2, <1>5, <1>6, AckedByHandler
  <1>12. QED BY <1>7, <1>8, <1>9, <1>10, <1>11 DEF FlatInv

\* The end of the draining period.
LEMMA DoCloseKeeps ==
    ASSUME FlatInv, NEW e \in Ends, DoClose(e)
    PROVE  FlatInv' /\ AckedStep
  <1> DEFINE q == sock[e]
             d == [q EXCEPT !.draining = FALSE, !.state = "IDLE"]
             x == Step(d, <<>>)
  <1>1. TypeOK /\ OpenInv /\ ReasonFlat /\ HangFlat /\ StopFlat
    BY DEF FlatInv
  <1>2. /\ q \in Socket /\ q.draining \in BOOLEAN /\ reason \in BOOLEAN
        /\ bound \subseteq Ends /\ q.hung \in BOOLEAN /\ q.stream0 \in Nat
    BY <1>1, SockType, FlagType DEF TypeOK
  <1>3. /\ q.draining = TRUE /\ Run(e, x) /\ bound' = bound \ {e}
        /\ wire' = wire /\ reason' = reason
    BY <1>2 DEF DoClose
  <1>4. reason = TRUE
    BY <1>1, <1>2, <1>3 DEF ReasonFlat, Calm
  <1>5. x.r = d /\ x.out = <<>>
    BY DEF Step
  <1> HIDE DEF x
  <1>6. /\ d \in Socket /\ d.state = "IDLE" /\ d.draining = FALSE /\ d.stream0 = q.stream0
        /\ d.frames = q.frames /\ d.sent = q.sent /\ d.pending = q.pending /\ d.hung = q.hung
        /\ d.ack = q.ack
    BY <1>2 DEF Socket, States
  <1> HIDE DEF d
  <1>7. Handled(e, d, <<>>)
    BY <1>1, <1>3, <1>5, <1>6, NoFlight, RunHandled
  <1>8. TypeOK'
    BY <1>1, <1>2, <1>3, <1>5, <1>7, RunType
  <1>9. OpenInv'
    <2>1. OpenOk(e, d, <<>>)
      BY <1>6, NoFlight DEF OpenOk
    <2>2. QED BY <1>1, <1>7, <2>1, OpenStep
  <1>10. HangOk(e, d, <<>>)
    <2>1. Sound(d)
      BY <1>1, <1>6 DEF HangFlat, Sound, Connecting
    <2>2. e = "clt" /\ SecondFlight => Flown(d)
      BY <1>1, <1>6 DEF HangFlat, Flown
    <2>3. AckedOk(e, d)
      BY <1>6 DEF AckedOk
    <2>4. QED BY <1>6, <2>1, <2>2, <2>3, NoFlight DEF HangOk
  <1>11. HangFlat'
    <2>1. Served'
      <3>1. CASE e = "clt"
        <4>1. "svr" \in bound' <=> "svr" \in bound
          BY <1>3, <3>1
        <4>2. auth' = auth
          BY <1>3 DEF Run
        <4>3. QED BY <1>1, <1>7, <3>1, <4>1, <4>2, ServedByClient
      <3>2. CASE e = "svr"
        <4>1. sock'["svr"] = d /\ opened \subseteq opened'
          BY <1>1, <1>7, <3>2, HandledSock
        <4>2. auth' = auth /\ zrtt' = zrtt
          BY <1>3 DEF Run
        <4>3. QED BY <1>1, <1>6, <3>2, <4>1, <4>2 DEF HangFlat, Served
      <3>3. QED BY <3>1, <3>2 DEF Ends
    <2>2. QED BY <1>1, <1>7, <1>10, <2>1, HangStep
  <1>12. ReasonFlat' /\ StopFlat'
    BY <1>3, <1>4 DEF ReasonFlat, StopFlat
  <1>13. AckedStep
    BY <1>1, <1>7, <1>10, AckedByHandler
  <1>14. QED BY <1>8, <1>9, <1>11, <1>12, <1>13 DEF FlatInv

\* The wires lose a packet, and nothing else changes that the invariant is about,
\* unless a program that stops has come to know the address of its peer.
LEMMA WireShrinks ==
    ASSUME FlatInv, UNCHANGED <<sock, bound, listener, zrtt, opened, reason>>,
           auth \subseteq auth', auth' \subseteq Ends, vers' \in BOOLEAN, fatal' \in BOOLEAN,
           faults' \in 0..MaxFaults, wire' \in [Ends -> Seq(Packet)],
           \A f \in Ends : ToSet(wire'[f]) \subseteq OnWire(f),
           StopFlat'
    PROVE  FlatInv' /\ AckedStep
  <1>1. TypeOK /\ OpenInv /\ ReasonFlat /\ HangFlat
    BY DEF FlatInv
  <1>2. \A f \in Ends : \A p \in ToSet(wire'[f]) : p \in OnWire(f)
    OBVIOUS
  <1>3. TypeOK'
    BY <1>1 DEF TypeOK
  <1>4. OpenInv'
    BY <1>1, <1>2 DEF OpenInv, ClientOpensFirst, OnWire, Ends
  <1>5. ReasonFlat'
    BY <1>1, <1>2 DEF ReasonFlat, OnWire
  <1>6. SecondFlight' => SecondFlight
    BY <1>2 DEF SecondFlight, OnWire, Ends
  <1>7. Served'
    BY <1>1 DEF HangFlat, Served
  <1>8. HangFlat'
    BY <1>1, <1>2, <1>6, <1>7 DEF HangFlat, OnWire, Ends
  <1>9. AckedStep
    BY DEF AckedStep, AckedOk
  <1>10. QED BY <1>3, <1>4, <1>5, <1>8, <1>9 DEF FlatInv

\* A packet is lost.
LEMMA LoseKeeps ==
    ASSUME FlatInv, NEW e \in Ends, Lose(e)
    PROVE  FlatInv' /\ AckedStep
  <1>1. TypeOK /\ StopFlat
    BY DEF FlatInv
  <1>2. wire \in [Ends -> Seq(Packet)] /\ faults \in Nat /\ MaxFaults \in Nat
    BY <1>1, ConnectionAssumption DEF TypeOK
  <1>3. /\ wire[e] # <<>> /\ faults < MaxFaults /\ faults' = faults + 1
        /\ wire' = [wire EXCEPT ![e] = Tail(@)]
        /\ UNCHANGED <<sock, bound, listener, auth, zrtt, vers, fatal, opened, reason>>
    BY DEF Lose
  <1>4. Tail(wire[e]) \in Seq(Packet) /\ ToSet(Tail(wire[e])) \subseteq ToSet(wire[e])
    BY <1>2, <1>3, TailSet
  <1>5. /\ wire' \in [Ends -> Seq(Packet)]
        /\ \A f \in Ends : ToSet(wire'[f]) \subseteq OnWire(f)
    BY <1>2, <1>3, <1>4 DEF OnWire
  <1>6. StopFlat'
    BY <1>2, <1>3 DEF StopFlat
  <1>7. QED BY <1>1, <1>2, <1>3, <1>5, <1>6, WireShrinks DEF TypeOK

-----------------------------------------------------------------------------
\* The socket that ForwardUp hands a packet to.
Target(e, p) ==
    IF Cloned(e, p) /\ ~(zrtt \/ e \in auth)
    THEN [sock[e] EXCEPT !.state = "CONNECTING_SVR"] ELSE sock[e]

Found(e, p) == e \in bound \/ (Cloned(e, p) /\ listener)

Known(e, p) == p.type \in {"ZRTT", "SHORT"} \/ (p.type = "HANDSHAKE" /\ e \in bound)

\* The packet p has left the wire to e.
Rest(e, i) == [wire EXCEPT ![e] = RemoveAt(@, i)]

\* The wires rest, with the answer out of e.
Answered(e, rest, out) == [rest EXCEPT ![Peer(e)] = @ \o out]

\* What ForwardUp does, with these names.
LEMMA ForwardUpDoes ==
    ASSUME NEW e, NEW p, NEW over, NEW rest, ForwardUp(e, p, over, rest), ~Refused(e, p)
    PROVE  /\ fatal' = ~Found(e, p)
           /\ bound' = IF Found(e, p) THEN bound \cup {e} ELSE bound
           /\ auth' = IF Known(e, p) THEN auth \cup {e} ELSE auth
           /\ vers' \in BOOLEAN
           /\ Found(e, p) =>
                 /\ Finish(e, ReceivedData(Target(e, p), p, over))
                 /\ wire' = Answered(e, rest, ReceivedData(Target(e, p), p, over).out)
           /\ ~Found(e, p) => wire' = rest /\ UNCHANGED <<sock, opened>>
  BY DEF ForwardUp, Found, Known, Target, Answered

\* A packet that arrives may reach its socket.
LEMMA TargetArrival ==
    ASSUME FlatInv, NEW e \in Ends, NEW p \in Packet, p \in OnWire(e), ~Refused(e, p),
           sock[e].hung = FALSE
    PROVE  /\ Arrival(Target(e, p), p)
           /\ \/ Target(e, p) = sock[e]
              \/ /\ e = "svr" /\ "svr" \notin bound /\ p.type = "INITIAL"
                 /\ zrtt = FALSE /\ "svr" \notin auth
                 /\ Target(e, p) = [sock["svr"] EXCEPT !.state = "CONNECTING_SVR"]
  <1> DEFINE q == sock[e]
             r == Target(e, p)
             c == [q EXCEPT !.state = "CONNECTING_SVR"]
  <1>1. TypeOK /\ OpenInv /\ HangFlat
    BY DEF FlatInv
  <1>2. q \in Socket /\ zrtt \in BOOLEAN /\ q.frames \in Nat /\ q.stream0 \in Nat
    BY <1>1, SockType, FlagType
  <1>3. \/ r = q
        \/ /\ e = "svr" /\ "svr" \notin bound /\ p.type = "INITIAL"
           /\ zrtt = FALSE /\ "svr" \notin auth /\ r = c
    BY <1>2 DEF Target, Cloned, Refused
  <1>4. p.body = "ack" => p.type = "SHORT" /\ (q.state = "OPEN" /\ q.draining = FALSE => q.stream0 = 0)
    <2>1. p.body = "ack" => p.type = "SHORT"
      BY <1>1 DEF HangFlat
    <2>2. p.body = "ack" /\ e = "clt" => q.stream0 = 0
      BY <1>1 DEF HangFlat, SecondFlight, Flown
    <2>3. e = "svr" /\ q.state = "OPEN" /\ q.draining = FALSE => q.stream0 = 0
      BY <1>1 DEF HangFlat, Served
    <2>4. QED BY <2>1, <2>2, <2>3 DEF Ends
  <1>5. q.state = "LISTENING" => q.stream0 = 0
    BY <1>1 DEF OpenInv, HangFlat, Served, Ends
  <1>6. Sound(q)
    BY <1>1 DEF HangFlat
  <1>7. CASE r = q
    <2>1. Held(q)
      BY <1>6 DEF Held, Sound
    <2>2. Arrival(q, p)
      BY <1>2, <1>4, <1>5, <1>6, <2>1 DEF Arrival
    <2>3. QED BY <1>7, <2>2
  <1>8. CASE /\ e = "svr" /\ "svr" \notin bound /\ p.type = "INITIAL"
             /\ zrtt = FALSE /\ "svr" \notin auth /\ r = c
    <2>1. /\ c \in Socket /\ c.state = "CONNECTING_SVR" /\ c.hung = q.hung
          /\ c.stream0 = q.stream0 /\ c.pending = q.pending /\ c.frames = q.frames
          /\ c.sent = q.sent /\ c.draining = q.draining
      BY <1>2 DEF Socket, States
    <2> HIDE DEF c
    <2>2. (q.frames = 0 \/ ~Clear(q.sent)) /\ q.draining = FALSE
      BY <1>1, <1>8 DEF HangFlat, Served
    <2>3. Held(c)
      BY <1>6, <2>1, <2>2 DEF Held, Sound
    <2>4. Arrival(c, p)
      BY <1>4, <1>8, <2>1, <2>2, <2>3 DEF Arrival
    <2>5. QED BY <1>8, <2>4 DEF c
  <1>9. QED BY <1>3, <1>7, <1>8

\* The wires once the packet is taken off and the answer put on.
LEMMA ArrivedWire ==
    ASSUME TypeOK, NEW e \in Ends, NEW i \in 1..Len(wire[e])
    PROVE  /\ Rest(e, i) \in [Ends -> Seq(Packet)]
           /\ \A f \in Ends : ToSet(Rest(e, i)[f]) \subseteq OnWire(f)
           /\ wire[e][i] \in Packet /\ wire[e][i] \in OnWire(e)
           /\ \A out \in Seq(Packet) :
                 LET w == [Rest(e, i) EXCEPT ![Peer(e)] = @ \o out]
                 IN  /\ w \in [Ends -> Seq(Packet)]
                     /\ ToSet(w[e]) \subseteq OnWire(e)
                     /\ ToSet(w[Peer(e)]) \subseteq OnWire(Peer(e)) \cup ToSet(out)
  <1> DEFINE rest == Rest(e, i)
  <1>1. wire \in [Ends -> Seq(Packet)] /\ Peer(e) \in Ends /\ Peer(e) # e
    BY DEF TypeOK, Ends, Peer
  <1>2. /\ RemoveAt(wire[e], i) \in Seq(Packet) /\ ToSet(RemoveAt(wire[e], i)) \subseteq ToSet(wire[e])
        /\ wire[e][i] \in ToSet(wire[e]) /\ wire[e][i] \in Packet
    BY <1>1, RemoveSet
  <1>3. /\ rest \in [Ends -> Seq(Packet)]
        /\ \A f \in Ends : ToSet(rest[f]) \subseteq OnWire(f)
    BY <1>1, <1>2 DEF Rest, OnWire
  <1> HIDE DEF rest
  <1>4. ASSUME NEW out \in Seq(Packet)
        PROVE  LET w == [rest EXCEPT ![Peer(e)] = @ \o out]
               IN  /\ w \in [Ends -> Seq(Packet)]
                   /\ ToSet(w[e]) \subseteq OnWire(e)
                   /\ ToSet(w[Peer(e)]) \subseteq OnWire(Peer(e)) \cup ToSet(out)
    <2> DEFINE w == [rest EXCEPT ![Peer(e)] = @ \o out]
    <2>1. /\ rest[Peer(e)] \o out \in Seq(Packet)
          /\ ToSet(rest[Peer(e)] \o out) = ToSet(rest[Peer(e)]) \cup ToSet(out)
      BY <1>1, <1>3, ConcatSet
    <2>2. w \in [Ends -> Seq(Packet)] /\ w[e] = rest[e] /\ w[Peer(e)] = rest[Peer(e)] \o out
      BY <1>1, <1>3, <2>1
    <2> HIDE DEF w
    <2>3. /\ ToSet(w[e]) \subseteq OnWire(e)
          /\ ToSet(w[Peer(e)]) \subseteq OnWire(Peer(e)) \cup ToSet(out)
      BY <1>1, <1>3, <2>1, <2>2
    <2>4. QED BY <2>2, <2>3 DEF w
  <1>5. QED BY <1>2, <1>3, <1>4 DEF rest, OnWire

\* A packet arrives.
LEMMA DeliverKeeps ==
    ASSUME FlatInv, NEW e \in Ends, NEW i \in 1..Len(wire[e]), Deliver(e, i)
    PROVE  FlatInv' /\ AckedStep
  <1> DEFINE q == sock[e]
             p == wire[e][i]
             r == Target(e, p)
             rest == Rest(e, i)
  <1>1. TypeOK /\ OpenInv /\ ReasonFlat /\ HangFlat /\ StopFlat
    BY DEF FlatInv
  <1>2. /\ q \in Socket /\ q.hung \in BOOLEAN /\ vers \in BOOLEAN /\ zrtt \in BOOLEAN
        /\ fatal \in BOOLEAN /\ reason \in BOOLEAN /\ listener \in BOOLEAN
        /\ bound \subseteq Ends /\ auth \subseteq Ends
        /\ faults \in 0..MaxFaults /\ MaxFaults \in Nat
    BY <1>1, SockType, FlagType, ConnectionAssumption DEF TypeOK
  <1>3. /\ Running /\ (i > 1 => faults < MaxFaults)
        /\ faults' = IF i > 1 THEN faults + 1 ELSE faults
        /\ listener' = listener /\ zrtt' = zrtt
    BY DEF Deliver
  <1>a. PICK over \in Exceeds(e, p) :
           ForwardUp(e, p, over, rest) /\ reason' = (reason \/ over # "nothing")
    BY DEF Deliver, Rest
  <1> DEFINE x == ReceivedData(r, p, over)
  <1>b. over # "nothing" =>
           /\ p.type = "SHORT" /\ e \in bound /\ ~Refused(e, p)
           /\ q.connected = TRUE
    BY <1>2 DEF Exceeds, Socket
  <1>c. /\ reason' \in BOOLEAN
        /\ reason' = FALSE => reason = FALSE /\ over = "nothing"
        /\ over = "nothing" => reason' = reason
    BY <1>2, <1>a
  <1>4. q.hung = FALSE /\ fatal = FALSE
    BY <1>2, <1>3 DEF Running
  <1>5. /\ rest \in [Ends -> Seq(Packet)]
        /\ \A f \in Ends : ToSet(rest[f]) \subseteq OnWire(f)
        /\ p \in Packet /\ p \in OnWire(e)
    BY <1>1, ArrivedWire
  <1>6. faults' \in 0..MaxFaults /\ (faults' = 0 => faults = 0 /\ i = 1)
    <2>1. i \in Nat /\ i >= 1
      OBVIOUS
    <2> HIDE DEF p, rest
    <2>2. QED BY <1>2, <1>3, <2>1
  \* Until a packet is lost or a socket closed, the packet finds its socket.
  <1>7. ASSUME faults' = 0, reason = FALSE
        PROVE  /\ Found(e, p)
               /\ Clear(sock["clt"].sent) \/ sock["clt"].frames > 0
               /\ "svr" \notin bound => e = "svr" /\ ~Refused(e, p)
    <2>1. faults = 0 /\ i = 1
      BY <1>6, <1>7
    <2>2. /\ listener = TRUE /\ "clt" \in bound
      BY <1>1, <1>7 DEF ReasonFlat
    <2>3. /\ Clear(sock["clt"].sent) \/ sock["clt"].frames > 0
          /\ "svr" \notin bound =>
                /\ wire["clt"] = <<>>
                /\ sock["clt"].frames = 0 => wire["svr"] = <<>>
                /\ sock["clt"].frames # 0 =>
                      \/ wire["svr"][1].type = "INITIAL"
                      \/ wire["svr"][1].type = "ZRTT" /\ zrtt = TRUE
      BY <1>1, <1>7, <2>1 DEF StopFlat
    <2>4. wire[e] # <<>>
      BY <2>1, EmptySeq
    <2>5. ASSUME "svr" \notin bound
          PROVE  /\ e = "svr"
                 /\ p.type = "INITIAL" \/ (p.type = "ZRTT" /\ zrtt = TRUE)
      <3>1. e = "svr"
        BY <2>3, <2>4, <2>5 DEF Ends
      <3>2. QED BY <2>1, <2>3, <2>4, <2>5, <3>1
    <2> HIDE DEF p
    <2>6. "svr" \notin bound => Found(e, p) /\ e = "svr" /\ ~Refused(e, p)
      BY <2>2, <2>5 DEF Found, Cloned, Refused
    <2>7. "svr" \in bound => Found(e, p)
      BY <2>2 DEF Found, Ends
    <2>8. QED BY <2>3, <2>6, <2>7
  <1>8. CASE Refused(e, p)
    <2>1. wire' = rest /\ UNCHANGED <<sock, bound, auth, vers, fatal, opened>>
      BY <1>a, <1>8 DEF ForwardUp
    <2>a. reason' = reason
      BY <1>8, <1>b, <1>c
    <2>2. StopFlat'
      <3>1. faults' = 0 /\ reason' = FALSE =>
               /\ "svr" \in bound'
               /\ Clear(sock'["clt"].sent) \/ sock'["clt"].frames > 0
        BY <1>7, <1>8, <2>1, <2>a
      <3>2. QED BY <1>4, <2>1, <3>1 DEF StopFlat
    <2> HIDE DEF p, rest
    <2>3. QED BY <1>2, <1>3, <1>5, <1>6, <2>1, <2>2, <2>a, WireShrinks
  <1>9. CASE ~Refused(e, p) /\ ~Found(e, p)
    <2>1. /\ fatal' = TRUE /\ bound' = bound /\ auth \subseteq auth' /\ auth' \subseteq Ends
          /\ vers' \in BOOLEAN /\ wire' = rest /\ UNCHANGED <<sock, opened>>
      <3> HIDE DEF p, rest
      <3>1. /\ fatal' = ~Found(e, p) /\ vers' \in BOOLEAN
            /\ bound' = (IF Found(e, p) THEN bound \cup {e} ELSE bound)
            /\ auth' = (IF Known(e, p) THEN auth \cup {e} ELSE auth)
            /\ wire' = rest /\ UNCHANGED <<sock, opened>>
        BY <1>a, <1>9, ForwardUpDoes
      <3>2. auth \subseteq auth' /\ auth' \subseteq Ends
        BY <1>2, <3>1
      <3>3. QED BY <1>9, <3>1, <3>2
    <2>a. reason' = reason
      BY <1>9, <1>b, <1>c DEF Found
    <2>2. StopFlat'
      BY <1>7, <1>9, <2>a DEF StopFlat
    <2> HIDE DEF p, rest
    <2>3. QED BY <1>2, <1>3, <1>5, <1>6, <2>1, <2>2, <2>a, WireShrinks
  <1>10. CASE ~Refused(e, p) /\ Found(e, p)
    <2>1. /\ fatal' = FALSE /\ bound' = bound \cup {e}
          /\ auth' = (IF Known(e, p) THEN auth \cup {e} ELSE auth)
          /\ vers' \in BOOLEAN /\ Finish(e, x)
          /\ wire' = [rest EXCEPT ![Peer(e)] = @ \o x.out]
      <3> HIDE DEF p, rest
      <3>1. ForwardUp(e, p, over, rest)
        BY <1>a
      <3>2. /\ fatal' = ~Found(e, p)
            /\ bound' = (IF Found(e, p) THEN bound \cup {e} ELSE bound)
            /\ auth' = (IF Known(e, p) THEN auth \cup {e} ELSE auth)
            /\ vers' \in BOOLEAN
            /\ Finish(e, x) /\ wire' = Answered(e, rest, x.out)
        BY <1>10, <3>1, ForwardUpDoes
      <3>3. QED BY <1>10, <3>2 DEF Answered
    <2>2. /\ Arrival(r, p)
          /\ \/ r = q
             \/ /\ e = "svr" /\ "svr" \notin bound /\ p.type = "INITIAL"
                /\ zrtt = FALSE /\ "svr" \notin auth
                /\ r = [q EXCEPT !.state = "CONNECTING_SVR"]
      <3> HIDE DEF p
      <3>1. QED BY <1>4, <1>5, <1>10, TargetArrival
    <2>3. Taken(r, p, over, x)
      <3>1. over # "nothing" => r.connected = TRUE
        BY <1>b, <2>2
      <3> HIDE DEF r, p
      <3>2. QED BY <1>2, <2>2, <3>1, ReceivedTaken
    <2>4. /\ r.stream0 = q.stream0 /\ r.frames = q.frames /\ r.sent = q.sent
          /\ r.draining = q.draining /\ r.pending = q.pending /\ r.ack = q.ack
          /\ r.params = q.params /\ r.closeLater = q.closeLater
          /\ r.closeOnEmpty = q.closeOnEmpty
          /\ \/ r = q
             \/ /\ e = "svr" /\ "svr" \notin bound /\ p.type = "INITIAL"
                /\ zrtt = FALSE /\ "svr" \notin auth /\ r.state = "CONNECTING_SVR"
      <3> HIDE DEF r, p
      <3>1. CASE r = q
        BY <3>1
      <3>2. CASE /\ e = "svr" /\ "svr" \notin bound /\ p.type = "INITIAL"
                 /\ zrtt = FALSE /\ "svr" \notin auth
                 /\ r = [q EXCEPT !.state = "CONNECTING_SVR"]
        BY <1>2, <3>2 DEF Socket
      <3>3. QED BY <2>2, <3>1, <3>2
    <2> HIDE DEF r, x
    <2>5. Handled(e, x.r, x.out)
      <3>1. x.r \in Socket /\ x.out \in Seq(Packet)
        BY <2>3 DEF Taken
      <3>2. /\ wire' \in [Ends -> Seq(Packet)]
            /\ ToSet(wire'[e]) \subseteq OnWire(e)
            /\ ToSet(wire'[Peer(e)]) \subseteq OnWire(Peer(e)) \cup ToSet(x.out)
        BY <1>1, <2>1, <3>1, ArrivedWire
      <3>3. QED BY <1>3, <2>1, <3>1, <3>2 DEF Finish, Handled
    <2> HIDE DEF p, rest
    <2>6. TypeOK'
      <3>1. sock' \in [Ends -> Socket] /\ opened' \subseteq Ends
        BY <1>1, <2>5, HandledSock
      <3>2. wire' \in [Ends -> Seq(Packet)]
        BY <2>5 DEF Handled
      <3>3. QED BY <1>2, <1>3, <1>6, <1>c, <2>1, <3>1, <3>2 DEF TypeOK
    <2>7. /\ sock["clt"].state \notin {"LISTENING", "CONNECTING_SVR"}
          /\ sock["svr"].state # "CONNECTING_CLT"
          /\ q.state = "OPEN" => e \in opened
          /\ e = "svr" /\ p.type \in {"HANDSHAKE", "ZRTT"} => "clt" \in opened
      BY <1>1, <1>5 DEF OpenInv
    <2>8. /\ e = "clt" => r = q
          /\ r.state = "OPEN" => q.state = "OPEN"
      BY <2>4
    <2>9. e = "clt" /\ Flight(x.out) =>
             q.state = "OPEN" /\ x.r.state = "OPEN" /\ x.r.frames > q.frames /\ x.r.stream0 = 0
      BY <2>3, <2>7, <2>8 DEF Taken, Flight
    <2>10. OpenOk(e, x.r, x.out)
      <3>1. CASE e = "clt"
        BY <2>3, <2>7, <2>8, <2>9, <3>1 DEF OpenOk, Taken
      <3>2. CASE e = "svr"
        BY <2>3, <2>4, <2>7, <2>8, <3>2 DEF OpenOk, Taken, Connecting
      <3>3. QED BY <3>1, <3>2 DEF Ends
    <2>11. OpenInv'
      BY <1>1, <2>5, <2>10, OpenStep
    <2>12. x.r.frames \in Nat /\ q.frames \in Nat /\ x.r.frames >= q.frames
      <3>1. x.r \in Socket /\ x.r.frames >= r.frames
        BY <2>3 DEF Taken
      <3>2. QED BY <1>2, <2>4, <3>1, FlagType
    <2>13. HangOk(e, x.r, x.out)
      <3>1. e = "clt" /\ SecondFlight => Flown(x.r)
        <4> SUFFICES ASSUME e = "clt", SecondFlight PROVE Flown(x.r)
          OBVIOUS
        <4>1. q.stream0 = 0 /\ q.frames > 0 /\ q.state # "CONNECTING_CLT"
          BY <1>1 DEF HangFlat, Flown
        <4>2. q.state \notin Connecting
          BY <2>7, <4>1 DEF Connecting
        <4>3. QED BY <2>3, <2>8, <2>12, <4>1, <4>2 DEF Taken, Flown
      <3>2. e = "clt" /\ Flight(x.out) => Flown(x.r)
        BY <2>9, <2>12 DEF Flown
      <3>3. e = "svr" /\ x.r.state = "OPEN" => SecondFlight
        BY <1>5, <2>3, <2>7, <2>8 DEF Taken, SecondFlight
      <3>4. AckedOk(e, x.r)
        <4>1. q.state = "OPEN" => r = q
          BY <1>1, <2>4 DEF HangFlat, Served
        <4>2. QED BY <2>3, <4>1 DEF AckedOk, Taken
      <3>5. QED BY <2>3, <3>1, <3>2, <3>3, <3>4 DEF HangOk, Taken
    <2>14. Served'
      <3>1. CASE e = "clt"
        <4>1. "svr" \in bound' <=> "svr" \in bound
          BY <2>1, <3>1
        <4>2. auth \subseteq auth'
          BY <2>1
        <4>3. QED BY <1>1, <2>5, <3>1, <4>1, <4>2, ServedByClient
      <3>2. CASE e = "svr"
        <4>1. /\ sock'["svr"] = x.r /\ opened \subseteq opened'
              /\ x.r.state = "OPEN" => "svr" \in opened'
          BY <1>1, <2>5, <3>2, HandledSock
        <4>2. "svr" \in bound' /\ auth \subseteq auth' /\ (Known(e, p) => "svr" \in auth')
          BY <2>1, <3>2
        <4>3. /\ q.state = "LISTENING" => q.stream0 = 0
              /\ q.state = "OPEN" =>
                    /\ q.stream0 = 0 \/ q.draining = TRUE
                    /\ zrtt = TRUE \/ "svr" \in auth
              /\ zrtt = TRUE \/ "svr" \in auth \/ q.frames = 0 \/ ~Clear(q.sent)
              /\ q.ack = TRUE => "svr" \in opened
          BY <1>1, <3>2 DEF HangFlat, Served
        <4>4. r.state # "CONNECTING_CLT" /\ (r.state = "LISTENING" => q.state = "LISTENING")
          BY <2>4, <2>7, <3>2
        <4>5. x.r.state = "LISTENING" => x.r.stream0 = 0
          BY <2>3, <2>4, <4>3, <4>4 DEF Taken, Connecting
        <4>6. x.r.state = "OPEN" => x.r.stream0 = 0 \/ x.r.draining = TRUE
          BY <2>3, <2>4, <2>8, <4>3, <4>4 DEF Taken, Connecting
        <4>7. x.r.state = "OPEN" => zrtt = TRUE \/ "svr" \in auth'
          <5>1. p.type = "HANDSHAKE" => Known(e, p)
            BY <1>10 DEF Found, Known, Cloned
          <5>2. p.type = "ZRTT" => Known(e, p)
            BY DEF Known
          <5>3. QED BY <2>3, <2>8, <4>2, <4>3, <5>1, <5>2 DEF Taken
        <4>8. zrtt = TRUE \/ "svr" \in auth' \/ x.r.frames = 0 \/ ~Clear(x.r.sent)
          BY <2>3, <2>4, <2>8, <4>2, <4>3 DEF Taken
        <4>9. x.r.ack = TRUE => "svr" \in opened'
          BY <2>3, <2>4, <2>7, <2>8, <3>2, <4>1, <4>3 DEF Taken
        <4>10. QED BY <1>3, <4>1, <4>2, <4>5, <4>6, <4>7, <4>8, <4>9 DEF Served
      <3>3. QED BY <3>1, <3>2 DEF Ends
    <2>15. HangFlat'
      BY <1>1, <2>5, <2>13, <2>14, HangStep
    <2>16. ReasonFlat'
      <3>1. ReasonOk(e, x.r, x.out)
        <4> SUFFICES ASSUME reason = FALSE, over = "nothing"
                     PROVE  /\ listener' = TRUE /\ "clt" \in bound'
                            /\ "svr" \notin bound' => sock'["svr"].state = "LISTENING"
                            /\ e = "clt" /\ x.r.state = "IDLE" => x.r.pending = FALSE
                            /\ Calm(x.r) /\ Once(x.r)
                            /\ \A o \in ToSet(x.out) : o.body # "close"
          BY <1>c DEF ReasonOk
        <4>1. /\ listener = TRUE /\ "clt" \in bound
              /\ "svr" \notin bound => sock["svr"].state = "LISTENING"
              /\ sock["clt"].state = "IDLE" => sock["clt"].pending = FALSE
              /\ Calm(q) /\ Once(q) /\ p.body # "close"
          BY <1>1, <1>5 DEF ReasonFlat
        <4>2. Calm(r) /\ Once(r)
          <5>1. CASE r = q
            BY <4>1, <5>1
          <5>2. CASE r # q
            BY <2>4, <4>1, <5>2 DEF Calm, Once
          <5>3. QED BY <5>1, <5>2
        <4>3. /\ Calm(x.r) /\ Once(x.r) /\ x.r.state \in {r.state, "OPEN"}
              /\ \A o \in ToSet(x.out) : o.body # "close"
          BY <2>3, <4>1, <4>2 DEF Taken
        <4>4. e = "clt" /\ x.r.state = "IDLE" => x.r.pending = FALSE
          BY <2>3, <2>8, <4>1, <4>3 DEF Taken
        <4>5. "svr" \notin bound' => sock'["svr"].state = "LISTENING"
          <5> SUFFICES ASSUME "svr" \notin bound' PROVE sock'["svr"].state = "LISTENING"
            OBVIOUS
          <5>1. e # "svr" /\ "svr" \notin bound
            BY <2>1
          <5>2. sock'["svr"] = sock["svr"]
            BY <1>1, <2>5, <5>1, HandledSock DEF Ends
          <5>3. QED BY <4>1, <5>1, <5>2
        <4>6. QED BY <1>3, <2>1, <4>1, <4>3, <4>4, <4>5
      <3>2. QED BY <1>1, <2>5, <3>1, ReasonStep
    <2>17. StopFlat'
      <3> SUFFICES ASSUME faults' = 0, reason' = FALSE
                   PROVE  /\ fatal' = FALSE /\ "svr" \in bound'
                          /\ Clear(sock'["clt"].sent) \/ sock'["clt"].frames > 0
        BY DEF StopFlat
      <3>1. /\ Clear(sock["clt"].sent) \/ sock["clt"].frames > 0
            /\ "svr" \notin bound => e = "svr"
        BY <1>7, <1>c
      <3>2. sock'[e] = x.r /\ \A f \in Ends : f # e => sock'[f] = sock[f]
        BY <1>1, <2>5, HandledSock
      <3>3. Clear(sock'["clt"].sent) \/ sock'["clt"].frames > 0
        <4>1. CASE e = "clt"
          BY <2>3, <2>8, <3>1, <3>2, <4>1 DEF Taken
        <4>2. CASE e # "clt"
          BY <3>1, <3>2, <4>2 DEF Ends
        <4>3. QED BY <4>1, <4>2
      <3>4. QED BY <2>1, <3>1, <3>3
    <2>18. AckedStep
      BY <1>1, <2>5, <2>13, AckedByHandler
    <2>19. QED BY <2>6, <2>11, <2>15, <2>16, <2>17, <2>18 DEF FlatInv
  <1>11. QED BY <1>8, <1>9, <1>10

-----------------------------------------------------------------------------
\* What a new socket holds.
Fresh(d, state, s) ==
    /\ d \in Socket /\ d.state = state /\ d.closeLater = s.closeLater
    /\ d.connected = FALSE /\ d.idle = FALSE /\ d.orphan = FALSE
    /\ d.draining = FALSE /\ d.closeOnEmpty = FALSE /\ d.params = FALSE
    /\ d.stream0 = 0 /\ d.pending = FALSE /\ d.frames = 0 /\ d.sent = {}
    /\ d.ack = FALSE

\* The constructors of QuicSocketBase build such a socket.
LEMMA NewSocketType ==
    ASSUME NEW state \in States, NEW s \in [flush : BOOLEAN, closeLater : BOOLEAN]
    PROVE  Fresh(NewSocket(state, s), state, s)
  BY DEF NewSocket, Socket, Fresh

\* The initial states satisfy the invariant.
LEMMA InitFlat == Init => FlatInv
  <1> SUFFICES ASSUME Init PROVE FlatInv
    OBVIOUS
  <1>1. PICK start \in Starts :
           /\ sock = [clt |-> NewSocket("IDLE", start.clt), svr |-> NewSocket("LISTENING", start.svr)]
           /\ reason = (\E e \in Ends : start[e].closeLater)
    BY DEF Init
  <1>2. /\ bound = {"clt"} /\ listener = TRUE /\ auth = {} /\ zrtt \in BOOLEAN
        /\ vers \in BOOLEAN /\ wire = [e \in Ends |-> <<>>] /\ fatal = FALSE
        /\ faults = 0 /\ opened = {} /\ reason \in BOOLEAN
    BY <1>1 DEF Init
  <1> DEFINE c == NewSocket("IDLE", start.clt)
             s == NewSocket("LISTENING", start.svr)
  <1>3. start \in [Ends -> [flush : BOOLEAN, closeLater : BOOLEAN]]
    BY ConnectionAssumption
  <1>4. /\ start.clt \in [flush : BOOLEAN, closeLater : BOOLEAN]
        /\ start.svr \in [flush : BOOLEAN, closeLater : BOOLEAN]
        /\ start.clt = start["clt"] /\ start.svr = start["svr"]
    BY <1>3 DEF Ends
  <1>5. /\ sock["clt"] = c /\ sock["svr"] = s
        /\ DOMAIN sock = Ends /\ sock = [e \in Ends |-> IF e = "clt" THEN c ELSE s]
    <2> HIDE DEF c, s
    <2>1. sock = [clt |-> c, svr |-> s]
      BY <1>1 DEF c, s
    <2>2. QED BY <2>1 DEF Ends
  <1>6. Fresh(c, "IDLE", start.clt) /\ Fresh(s, "LISTENING", start.svr)
    <2>1. "IDLE" \in States /\ "LISTENING" \in States
      BY DEF States
    <2>2. QED BY <1>4, <2>1, NewSocketType
  <1>7. /\ c \in Socket /\ c.state = "IDLE" /\ c.closeLater = start.clt.closeLater
        /\ c.connected = FALSE /\ c.draining = FALSE /\ c.closeOnEmpty = FALSE
        /\ c.params = FALSE /\ c.stream0 = 0 /\ c.pending = FALSE /\ c.frames = 0
        /\ c.sent = {} /\ c.ack = FALSE
    <2> HIDE DEF c
    <2>1. QED BY <1>6 DEF Fresh
  <1>8. /\ s \in Socket /\ s.state = "LISTENING" /\ s.closeLater = start.svr.closeLater
        /\ s.idle = FALSE /\ s.orphan = FALSE /\ s.draining = FALSE /\ s.closeOnEmpty = FALSE
        /\ s.params = FALSE /\ s.stream0 = 0 /\ s.pending = FALSE /\ s.frames = 0
        /\ s.sent = {} /\ s.ack = FALSE
    <2> HIDE DEF s
    <2>1. QED BY <1>6 DEF Fresh
  <1> HIDE DEF c, s
  <1>9. \A e \in Ends : wire[e] = <<>> /\ OnWire(e) = {}
    BY <1>2, ShortSet DEF OnWire
  <1>10. TypeOK
    <2>1. sock \in [Ends -> Socket]
      BY <1>5, <1>7, <1>8
    <2>2. wire \in [Ends -> Seq(Packet)]
      BY <1>2, EmptySeq
    <2>3. faults \in 0..MaxFaults
      BY <1>2, ConnectionAssumption
    <2>4. QED BY <1>2, <2>1, <2>2, <2>3 DEF TypeOK, Ends
  <1>11. OpenInv
    BY <1>2, <1>5, <1>7, <1>8, <1>9 DEF OpenInv, ClientOpensFirst, Ends
  <1>12. ReasonFlat
    <2>1. reason = FALSE => start.clt.closeLater = FALSE /\ start.svr.closeLater = FALSE
      <3>1. start.clt.closeLater \in BOOLEAN /\ start.svr.closeLater \in BOOLEAN
        BY <1>4
      <3>2. QED BY <1>1, <1>4, <3>1 DEF Ends
    <2>2. reason = FALSE => Calm(c) /\ Once(c) /\ Calm(s) /\ Once(s)
      BY <1>7, <1>8, <2>1 DEF Calm, Once, Connecting
    <2>3. QED BY <1>2, <1>5, <1>7, <1>8, <1>9, <2>2 DEF ReasonFlat, Ends
  <1>13. HangFlat
    <2>1. Sound(c) /\ Sound(s)
      BY <1>7, <1>8 DEF Sound, Connecting
    <2>2. Served
      BY <1>2, <1>5, <1>8 DEF Served
    <2>3. ~SecondFlight
      BY <1>2, <1>9 DEF SecondFlight, Ends
    <2>4. QED BY <1>5, <1>9, <2>1, <2>2, <2>3 DEF HangFlat, Ends
  <1>14. StopFlat
    BY <1>2, <1>5, <1>7, <1>9 DEF StopFlat, Clear, Ends
  <1>15. QED BY <1>10, <1>11, <1>12, <1>13, <1>14 DEF FlatInv

\* Every step keeps the invariant.
LEMMA NextFlat == FlatInv /\ [Next]_vars => FlatInv' /\ AckedStep
  <1> SUFFICES ASSUME FlatInv, [Next]_vars PROVE FlatInv' /\ AckedStep
    OBVIOUS
  <1>1. CASE UNCHANGED vars
    <2>1. FlatInv'
      BY <1>1 DEF FlatInv, vars, TypeOK, OpenInv, ClientOpensFirst, ReasonFlat, HangFlat,
                  StopFlat, Served, SecondFlight, OnWire
    <2>2. AckedStep
      BY <1>1 DEF AckedStep, AckedOk, vars
    <2>3. QED BY <2>1, <2>2
  <1>2. CASE Connect
    BY <1>2, ConnectKeeps
  <1>3. CASE CloseListener
    BY <1>3, CloseListenerKeeps
  <1>4. ASSUME NEW e \in Ends, NEW i \in 1..Len(wire[e]), Deliver(e, i)
        PROVE  FlatInv' /\ AckedStep
    BY <1>4, DeliverKeeps
  <1>5. ASSUME NEW e \in Ends,
               \/ Lose(e) \/ Send(e) \/ RunSendPendingData(e) \/ SendAck(e)
               \/ ReTxTimeout(e) \/ AppClose(e) \/ IdleTimeout(e)
               \/ OrphanTimeout(e) \/ DoClose(e)
        PROVE  FlatInv' /\ AckedStep
    BY <1>5, LoseKeeps, SendKeeps, RunSendPendingDataKeeps, SendAckKeeps, ReTxTimeoutKeeps,
       AppCloseKeeps, IdleTimeoutKeeps, OrphanTimeoutKeeps, DoCloseKeeps
  <1>6. QED BY <1>1, <1>2, <1>3, <1>4, <1>5 DEF Next

-----------------------------------------------------------------------------
\* ConnectionInv holds throughout, for every bound and every initial value of
\* the flags that the constructors of QuicSocketBase leave open.
THEOREM ConnectionInvariant == Spec => []ConnectionInv
  <1>1. Init => FlatInv
    BY InitFlat
  <1>2. FlatInv /\ [Next]_vars => FlatInv'
    BY NextFlat
  <1>3. FlatInv => ConnectionInv
    BY FlatIff
  <1>4. QED BY <1>1, <1>2, <1>3, PTL DEF Spec

\* The handlers of QuicSocketBase keep every socket and every packet well-formed.
THEOREM TypeCorrect == Spec => []TypeOK
  <1>1. ConnectionInv => TypeOK
    BY DEF ConnectionInv
  <1>2. QED BY <1>1, ConnectionInvariant, PTL

\* The server's connection opens only after the client's (ReceivedData), whatever
\* is lost or overtaken and whoever closes.
THEOREM OpensInOrder == Spec => []ClientOpensFirst
  <1>1. ConnectionInv => ClientOpensFirst
    BY DEF ConnectionInv, OpenInv
  <1>2. QED BY <1>1, ConnectionInvariant, PTL

\* A socket is in CLOSING only after an application or a timeout has called Close,
\* because a flag was not initialized, or because data exceeded a limit of its
\* receiver: no other packet of the peer, retransmitted or overtaken, aborts a
\* connection or carries out a close that was not asked for.
THEOREM ClosesForAReason == Spec => []ClosedForAReason
  <1>1. ConnectionInv => ClosedForAReason
    <2> SUFFICES ASSUME ConnectionInv, NEW e \in Ends, sock[e].state = "CLOSING"
                 PROVE  reason
      BY DEF ClosedForAReason
    <2>1. QED BY DEF ConnectionInv, ReasonInv
  <1>2. QED BY <1>1, ConnectionInvariant, PTL

\* Once a socket has sent a packet, the loop of SendPendingData ends, however the
\* socket is closed.
THEOREM LoopEndsOnceSent == Spec => []NoHangOnceSent
  <1>1. ConnectionInv => NoHangOnceSent
    BY DEF ConnectionInv, HangInv
  <1>2. QED BY <1>1, ConnectionInvariant, PTL

\* ForwardUp finds a socket, or a listener to clone, as long as nothing is lost,
\* overtaken or closed.
THEOREM StopsForAReason == Spec => []StopsOnlyDisturbed
  <1>1. ConnectionInv => StopsOnlyDisturbed
    <2> SUFFICES ASSUME ConnectionInv, fatal, ~reason PROVE faults > 0
      BY DEF StopsOnlyDisturbed
    <2>1. faults # 0
      BY DEF ConnectionInv, StopInv
    <2>2. faults \in Nat
      BY ConnectionAssumption DEF ConnectionInv, TypeOK
    <2>3. QED BY <2>1, <2>2
  <1>2. QED BY <1>1, ConnectionInvariant, PTL

\* A connection in use enters CLOSING only with everything it had sent acknowledged.
THEOREM ClosesAcknowledged == Spec => ClosedWhenAcknowledged
  <1>1. FlatInv /\ [Next]_vars =>
           [\A e \in Ends :
               sock[e].state = "OPEN" /\ sock'[e].state = "CLOSING" /\ sock'[e].idle =>
                   sock'[e].sent \cap 1..sock[e].frames = {}]_vars
    <2> SUFFICES ASSUME FlatInv, [Next]_vars, NEW e \in Ends,
                        sock[e].state = "OPEN", sock'[e].state = "CLOSING", sock'[e].idle
                 PROVE  sock'[e].sent \cap 1..sock[e].frames = {}
      OBVIOUS
    <2>1. FlatInv' /\ AckedStep
      BY NextFlat
    <2>2. sock'[e] \in Socket
      BY <2>1 DEF FlatInv, TypeOK
    <2>3. sock'[e].idle = TRUE
      BY <2>2, FlagType
    <2>4. QED BY <2>1, <2>3 DEF AckedStep, AckedOk, Clear
  <1>2. Init => FlatInv
    BY InitFlat
  <1>3. FlatInv /\ [Next]_vars => FlatInv'
    BY NextFlat
  <1>4. QED BY <1>1, <1>2, <1>3, PTL DEF Spec, ClosedWhenAcknowledged
=============================================================================
