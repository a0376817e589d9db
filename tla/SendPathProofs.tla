--------------------------- MODULE SendPathProofs ---------------------------
(***************************************************************************)
(* Proofs about SendPath, for every size of the buffers and of a segment,  *)
(* every limit of the stream and every number of packets.  First the       *)
(* stream's side (GetNewSegment, SendDataFrame, the loop of                *)
(* SendPendingData), then lists of packets and the bytes they hold, the    *)
(* scheduler's segments, sending and retransmitting, the order of the      *)
(* queue, the frames inside packets, and the buffer's handlers one by one; *)
(* at the end the inductive invariant SendInv and the theorems.            *)
(***************************************************************************)
EXTENDS SendPath, ListLemmas, FiniteSetTheorems

\* A uint32_t holds a number below the modulus as it is.
LEMMA NoWrap ==
    ASSUME NEW M \in Nat, M > 0, NEW a \in Int
    PROVE  /\ a % M \in 0..(M - 1)
           /\ 0 <= a /\ a < M => a % M = a
  OBVIOUS

\* The constants.
LEMMA Constants ==
    /\ StreamBytes \in Nat /\ MaxBuffer \in Nat /\ SegSize \in Nat /\ SegSize > 0
    /\ MaxStreamData \in Nat /\ HeaderSize = 1 /\ Modulus \in Nat /\ Modulus > 0
    /\ StreamBytes + MaxStreamData < Modulus /\ TxBufferSize \in 0..(Modulus - 1)
    /\ MaxZero \in Nat /\ MaxAcks \in Nat /\ MaxLeft \in Nat
  BY SendAssumption, SendPathAssumption

\* The sums of the first elements of a list.
Adds(s, p) == p[0] = 0 /\ \A i \in 1..Len(s) : p[i] = p[i - 1] + s[i]

\* Total is the last of these sums, whichever function describes them.
LEMMA TotalIs ==
    ASSUME NEW s \in Seq(Nat), NEW p \in [0..Len(s) -> Nat], Adds(s, p)
    PROVE  Total(s) = p[Len(s)]
  <1> DEFINE Eq(f) == f = [i \in 0..Len(s) |-> IF i = 0 THEN 0 ELSE f[i - 1] + s[i]]
  <1>1. Total(s) = (CHOOSE f : Eq(f))[Len(s)]
    BY DEF Total
  <1>2. PICK n : n = Len(s) /\ n \in Nat
    BY LenProperties
  <1>3. \A i \in 0..n : p[i] = IF i = 0 THEN 0 ELSE p[i - 1] + s[i]
    BY <1>2 DEF Adds
  <1>4. Eq(p)
    BY <1>2, <1>3
  <1>5. Eq(CHOOSE f : Eq(f))
    BY <1>4
  <1>6. PICK f : f = CHOOSE h : Eq(h)
    OBVIOUS
  <1>7. f = [i \in 0..n |-> IF i = 0 THEN 0 ELSE f[i - 1] + s[i]]
    BY <1>2, <1>5, <1>6
  <1>8. \A i \in 0..n : f[i] = IF i = 0 THEN 0 ELSE f[i - 1] + s[i]
    BY <1>7
  <1> DEFINE T == {k \in Nat : k <= n => f[k] = p[k]}
  <1>9. 0 \in T
    BY <1>2, <1>3, <1>8
  <1>10. ASSUME NEW k \in Nat, k \in T
         PROVE  k + 1 \in T
    <2>1. SUFFICES ASSUME k + 1 <= n
                   PROVE  f[k + 1] = p[k + 1]
      OBVIOUS
    <2>2. f[k] = p[k] /\ k + 1 \in 0..n /\ k + 1 # 0 /\ (k + 1) - 1 = k
      BY <1>2, <1>10, <2>1
    <2>3. f[k + 1] = f[k] + s[k + 1] /\ p[k + 1] = p[k] + s[k + 1]
      BY <1>3, <1>8, <2>2
    <2>4. QED BY <2>2, <2>3
  <1>11. \A k \in Nat : k \in T
    <2> HIDE DEF T
    <2>1. QED BY <1>9, <1>10, Induction
  <1>12. f[n] = p[n]
    BY <1>2, <1>11
  <1>13. QED BY <1>1, <1>2, <1>6, <1>12

\* The sums exist.
LEMMA TotalExists ==
    ASSUME NEW s \in Seq(Nat)
    PROVE  \E p \in [0..Len(s) -> Nat] : Adds(s, p)
  <1> DEFINE n == Len(s)
             step == [w \in Nat \X (1..n) |-> w[1] + s[w[2]]]
  <1>1. n \in Nat /\ 0 \in Nat /\ \A i \in 1..n : s[i] \in Nat
    BY LenProperties, ElementOfSeq
  <1> HIDE DEF n
  <1>2. \A v \in Nat, i \in 1..n : v + s[i] \in Nat /\ step[<<v, i>>] = v + s[i]
    BY <1>1
  <1>3. step \in [Nat \X (1..n) -> Nat]
    BY <1>2
  <1> HIDE DEF step
  <1>4. PICK p \in [0..n -> Nat] : Recursive(p, n, 0, step)
    BY <1>1, <1>3, RecursionExists
  <1>5. p[0] = 0 /\ \A i \in 1..n : p[i] = step[<<p[i - 1], i>>] /\ p[i - 1] \in Nat
    BY <1>1, <1>4 DEF Recursive
  <1>6. Adds(s, p)
    BY <1>2, <1>5 DEF Adds, n
  <1>7. QED BY <1>4, <1>6 DEF n

\* The sum of a list grows by the element added to it.
LEMMA TotalAppend ==
    ASSUME NEW s \in Seq(Nat), NEW x \in Nat
    PROVE  Total(<<>>) = 0 /\ Total(s) \in Nat /\ Total(Append(s, x)) = Total(s) + x
  <1>1. PICK p \in [0..Len(s) -> Nat] : Adds(s, p)
    BY TotalExists
  <1>2. PICK n : n = Len(s) /\ n \in Nat
    BY LenProperties
  <1>3. Total(s) = p[n] /\ p[n] \in Nat
    BY <1>1, <1>2, TotalIs
  <1>4. Total(<<>>) = 0
    <2>1. PICK e \in Seq(Nat) : e = <<>> /\ Len(e) = 0
      BY EmptySeq
    <2>2. PICK q \in [0..Len(e) -> Nat] : Adds(e, q)
      BY TotalExists
    <2>3. Total(e) = q[Len(e)]
      BY <2>2, TotalIs
    <2>4. QED BY <2>1, <2>2, <2>3 DEF Adds
  <1>5. PICK a : a = Append(s, x)
    OBVIOUS
  <1>6. /\ a \in Seq(Nat) /\ Len(a) = n + 1 /\ a[n + 1] = x
        /\ \A i \in 1..n : a[i] = s[i]
    BY <1>2, <1>5, AppendProperties
  <1> DEFINE q == [i \in 0..(n + 1) |-> IF i <= n THEN p[i] ELSE p[n] + x]
  <1>7. q \in [0..(n + 1) -> Nat]
    BY <1>1, <1>2, <1>3
  <1>8. q[0] = 0 /\ \A i \in 1..(n + 1) : q[i] = q[i - 1] + a[i]
    <2>1. q[0] = 0
      BY <1>1, <1>2 DEF Adds
    <2>2. ASSUME NEW i \in 1..(n + 1)
          PROVE  q[i] = q[i - 1] + a[i]
      <3>1. CASE i <= n
        <4>1. q[i] = p[i] /\ q[i - 1] = p[i - 1] /\ i \in 1..n
          BY <1>2, <3>1
        <4>2. p[i] = p[i - 1] + s[i]
          BY <1>1, <1>2, <4>1 DEF Adds
        <4>3. QED BY <1>6, <4>1, <4>2
      <3>2. CASE i = n + 1
        BY <1>2, <1>6, <3>2
      <3>3. QED BY <1>2, <3>1, <3>2
    <2>3. QED BY <2>1, <2>2
  <1>9. q[n + 1] = p[n] + x
    BY <1>2
  <1> HIDE DEF q
  <1>10. q \in [0..Len(a) -> Nat] /\ Adds(a, q)
    BY <1>6, <1>7, <1>8 DEF Adds
  <1>11. Total(a) = q[Len(a)]
    BY <1>6, <1>10, TotalIs
  <1>12. QED BY <1>3, <1>4, <1>5, <1>6, <1>9, <1>11

-----------------------------------------------------------------------------
\* What a segment takes from a list of packets: its bytes are the first of the
\* list, no packet left is empty or larger than before, and a first packet that
\* fits is taken whole.
Takes(app, numBytes, seg) ==
    /\ seg.bytes \in Seq(Byte) /\ Len(seg.bytes) \in 1..numBytes
    /\ seg.toInsert \in BOOLEAN
    /\ seg.app \in Seq(Seq(Byte))
    /\ seg.bytes \o FlattenSeq(seg.app) = FlattenSeq(app)
    /\ \A i \in 1..Len(seg.app) :
           /\ seg.app[i] # <<>>
           /\ \E j \in 1..Len(app) : Len(seg.app[i]) <= Len(app[j])
    /\ Len(app[1]) <= numBytes => seg.toInsert

\* The stream's GetNewSegment does this.
LEMMA SegmentTakes ==
    ASSUME NEW app \in Seq(Seq(Byte)), app # <<>>,
           \A i \in 1..Len(app) : app[i] # <<>>,
           NEW numBytes \in Nat, numBytes > 0
    PROVE  Takes(app, numBytes, GetNewSegment(app, numBytes))
  <1>1. PICK n : n = Len(app) /\ n \in Nat /\ n > 0
    BY EmptySeq, SMTT(30)
  <1>2. PICK bytes : bytes = FlattenSeq(app) /\ bytes \in Seq(Byte)
    BY FlatType
  <1>3. PICK k : k = CHOOSE m \in 0..Len(app) :
                         /\ Len(FlattenSeq(SubSeq(app, 1, m))) <= numBytes
                         /\ m < Len(app) => Len(FlattenSeq(SubSeq(app, 1, m + 1))) > numBytes
    OBVIOUS
  <1>4. k \in 0..n /\ Fits(app, numBytes, k)
    <2>1. \E m \in 0..Len(app) : Fits(app, numBytes, m)
      BY FitsExists
    <2>2. QED BY <1>1, <1>3, <2>1 DEF Fits
  <1>5. PICK whole, rest : /\ whole = FlattenSeq(SubSeq(app, 1, k))
                           /\ rest = SubSeq(app, k + 1, Len(app))
    OBVIOUS
  <1>6. /\ rest \in Seq(Seq(Byte)) /\ Len(rest) = n - k /\ whole \in Seq(Byte)
        /\ bytes = whole \o FlattenSeq(rest) /\ Len(whole) <= numBytes
    <2>1. /\ SubSeq(app, 1, k) \in Seq(Seq(Byte)) /\ rest \in Seq(Seq(Byte))
          /\ Len(rest) = n - k /\ bytes = whole \o FlattenSeq(rest)
      <3>1. k \in 0..Len(app)
        BY <1>1, <1>4
      <3>2. /\ SubSeq(app, 1, k) \in Seq(Seq(Byte))
            /\ SubSeq(app, k + 1, Len(app)) \in Seq(Seq(Byte))
            /\ Len(SubSeq(app, k + 1, Len(app))) = Len(app) - k
            /\ FlattenSeq(app) = FlattenSeq(SubSeq(app, 1, k))
                                    \o FlattenSeq(SubSeq(app, k + 1, Len(app)))
        BY <3>1, FlatSplit
      <3>3. QED BY <1>1, <1>2, <1>5, <3>2
    <2>2. QED BY <1>4, <1>5, <2>1, FlatType DEF Fits
  <1>7. \A i \in 1..(n - k) : rest[i] = app[k + i]
    <2>1. \A i \in (k + 1)..n : app[i] \in Seq(Byte)
      BY <1>1, <1>4, ElementOfSeq
    <2>2. \A i \in 1..(n - (k + 1) + 1) : rest[i] = app[(k + 1) + i - 1]
      BY <1>1, <1>4, <1>5, <2>1, SubSeqProperties
    <2>3. QED BY <1>1, <1>4, <2>2
  <1>8. PICK size, cut : /\ size = IF Len(bytes) < numBytes THEN Len(bytes) ELSE numBytes
                         /\ cut = size - Len(whole)
    OBVIOUS
  <1>9. PICK seg : seg = [bytes |-> SubSeq(bytes, 1, size), toInsert |-> k > 0,
                          app |-> IF cut = 0 THEN rest
                                  ELSE <<SubSeq(Head(rest), cut + 1, Len(Head(rest)))>>
                                       \o Tail(rest)]
    OBVIOUS
  <1>10. GetNewSegment(app, numBytes) = seg
    BY <1>2, <1>3, <1>5, <1>8, <1>9 DEF GetNewSegment
  <1>11. PICK F : F = FlattenSeq(rest) /\ F \in Seq(Byte) /\ bytes = whole \o F
    BY <1>6, FlatType
  <1>12. Len(bytes) = Len(whole) + Len(F) /\ Len(whole) \in Nat /\ Len(F) \in Nat
    BY <1>6, <1>11, ConcatProperties, LenProperties
  <1>13. CASE k = n
    <2>1. rest = <<>> /\ F = <<>>
      <3>1. Len(rest) = 0
        BY <1>1, <1>6, <1>13
      <3>2. rest = <<>>
        BY <1>6, <3>1, EmptySeq
      <3>3. QED BY <1>11, <3>2 DEF FlattenSeq
    <2>2. Len(F) = 0 /\ size = Len(bytes) /\ cut = 0 /\ Len(bytes) <= numBytes
      BY <1>6, <1>8, <1>12, <2>1
    <2>3. seg.bytes = bytes /\ seg.app = <<>> /\ seg.toInsert
      <3>1. SubSeq(bytes, 1, Len(bytes)) = bytes
        BY <1>2, SubSeqFull
      <3>2. QED BY <1>1, <1>9, <1>13, <2>1, <2>2, <3>1
    <2>4. Len(bytes) >= 1
      <3>1. 1 \in 1..n /\ 0 \in 0..(Len(app) - 1) /\ 1 \in 0..Len(app)
        BY <1>1
      <3>2. app[1] \in Seq(Byte) /\ app[1] # <<>>
        BY <1>1, <3>1, ElementOfSeq
      <3>3. Len(app[1]) >= 1
        BY <3>2, EmptySeq
      <3>4. bytes = FlattenSeq(SubSeq(app, 1, 1)) \o FlattenSeq(SubSeq(app, 1 + 1, Len(app)))
        BY <1>2, <3>1, FlatSplit
      <3>5. /\ SubSeq(app, 1, 1) \in Seq(Seq(Byte))
            /\ SubSeq(app, 1 + 1, Len(app)) \in Seq(Seq(Byte))
        BY <3>1, FlatSplit
      <3>6. FlattenSeq(SubSeq(app, 1, 0 + 1)) = FlattenSeq(SubSeq(app, 1, 0)) \o app[0 + 1]
        BY <3>1, FlatNext
      <3>7. FlattenSeq(SubSeq(app, 1, 0)) = <<>>
        BY SubSeqEmpty DEF FlattenSeq
      <3>8. FlattenSeq(SubSeq(app, 1, 1)) = app[1]
        <4>1. <<>> \o app[1] = app[1]
          BY <3>2, ConcatEmptySeq
        <4>2. 0 + 1 = 1
          OBVIOUS
        <4>3. QED BY <3>6, <3>7, <4>1, <4>2
      <3>9. PICK G : G = FlattenSeq(SubSeq(app, 1 + 1, Len(app))) /\ G \in Seq(Byte)
        BY <3>5, FlatType
      <3>10. Len(bytes) = Len(app[1]) + Len(G) /\ Len(G) \in Nat
        BY <3>2, <3>4, <3>8, <3>9, ConcatProperties, LenProperties
      <3>11. QED BY <3>2, <3>3, <3>10, LenProperties
    <2>5. bytes \o FlattenSeq(<<>>) = bytes
      BY <1>2, ConcatEmptySeq DEF FlattenSeq
    <2>6. <<>> \in Seq(Seq(Byte)) /\ Len(<<>>) = 0 /\ Len(bytes) \in 1..numBytes
      BY <1>12, <2>2, <2>4, EmptySeq
    <2>7. Takes(app, numBytes, seg)
      BY <1>2, <2>3, <2>5, <2>6 DEF Takes
    <2>8. QED BY <1>10, <2>7
  <1>14. CASE k < n
    <2>1. PICK h : h = app[k + 1] /\ h \in Seq(Byte) /\ h # <<>> /\ Len(h) \in Nat /\ Len(h) >= 1
      <3>1. k + 1 \in 1..n
        BY <1>1, <1>4, <1>14
      <3>2. app[k + 1] \in Seq(Byte) /\ app[k + 1] # <<>>
        BY <1>1, <3>1, ElementOfSeq
      <3>3. QED BY <3>2, EmptySeq
    <2>2. Len(whole) + Len(h) > numBytes
      <3>1. k \in 0..(Len(app) - 1)
        BY <1>1, <1>4, <1>14
      <3>2. FlattenSeq(SubSeq(app, 1, k + 1)) = whole \o h
        BY <1>5, <2>1, <3>1, FlatNext
      <3>3. Len(FlattenSeq(SubSeq(app, 1, k + 1))) > numBytes
        BY <1>1, <1>4, <1>14 DEF Fits
      <3>4. QED BY <1>6, <2>1, <3>2, <3>3, ConcatProperties
    <2>3. /\ rest # <<>> /\ Head(rest) = h /\ Tail(rest) \in Seq(Seq(Byte))
          /\ Len(Tail(rest)) = n - k - 1
          /\ \A i \in 1..(n - k - 1) : Tail(rest)[i] = rest[i + 1]
      <3>1. Len(rest) = n - k /\ n - k > 0
        BY <1>1, <1>4, <1>6, <1>14
      <3>2. rest # <<>> /\ Head(rest) = rest[1] /\ 1 \in 1..(n - k)
        BY <1>1, <1>4, <3>1
      <3>3. rest[1] = h
        BY <1>1, <1>4, <1>7, <2>1, <3>2
      <3>4. QED BY <1>6, <3>1, <3>2, <3>3, HeadTailProperties
    <2>4. PICK t, G : t = Tail(rest) /\ G = FlattenSeq(t) /\ G \in Seq(Byte)
      BY <2>3, FlatType
    <2>5. F = h \o G
      <3>1. rest = <<h>> \o t
        <4>1. <<h>> \o t \in Seq(Seq(Byte)) /\ Len(<<h>> \o t) = n - k
          BY <1>1, <1>4, <2>1, <2>3, <2>4
        <4>2. \A i \in 1..(n - k) : (<<h>> \o t)[i] = rest[i]
          BY <1>1, <1>4, <1>7, <2>1, <2>3, <2>4, SMTT(30)
        <4>3. QED BY <1>6, <4>1, <4>2, SeqEqual
      <3>2. <<h>> \in Seq(Seq(Byte)) /\ t \in Seq(Seq(Byte))
        BY <2>1, <2>3, <2>4
      <3>3. FlattenSeq(<<h>> \o t) = FlattenSeq(<<h>>) \o FlattenSeq(t)
        BY <3>2, FlatConcat
      <3>4. FlattenSeq(<<h>>) = h
        BY <2>1, FlatSmall
      <3>5. QED BY <1>11, <2>4, <3>1, <3>3, <3>4
    <2>6. Len(F) = Len(h) + Len(G) /\ Len(G) \in Nat
      BY <2>1, <2>4, <2>5, ConcatProperties, LenProperties
    <2>7. size = numBytes /\ cut = numBytes - Len(whole) /\ cut \in 0..(Len(h) - 1)
      BY <1>6, <1>8, <1>12, <2>1, <2>2, <2>6, SMTT(30)
    <2>8. seg.toInsert \in BOOLEAN /\ (Len(app[1]) <= numBytes => seg.toInsert)
      <3>1. CASE k = 0
        <4>1. whole = <<>> /\ h = app[1]
          <5>1. SubSeq(app, 1, 0) = <<>>
            BY SubSeqEmpty
          <5>2. QED BY <1>5, <2>1, <3>1, <5>1 DEF FlattenSeq
        <4>2. Len(app[1]) > numBytes
          BY <2>1, <2>2, <4>1
        <4>3. QED BY <1>4, <1>9, <2>1, <4>1, <4>2
      <3>2. CASE k # 0
        <4>1. k > 0
          BY <1>1, <1>4, <3>2
        <4>2. QED BY <1>9, <4>1
      <3>3. QED BY <3>1, <3>2
    <2>9. PICK h1, h2 : h1 = SubSeq(h, 1, cut) /\ h2 = SubSeq(h, cut + 1, Len(h))
      OBVIOUS
    <2>10. /\ h1 \in Seq(Byte) /\ h2 \in Seq(Byte) /\ h1 \o h2 = h
           /\ Len(h1) = cut /\ Len(h2) = Len(h) - cut
      <3>1. \A i \in 1..Len(h) : h[i] \in Byte
        BY <2>1, ElementOfSeq
      <3>2. h1 \in Seq(Byte) /\ Len(h1) = IF 1 <= cut THEN cut - 1 + 1 ELSE 0
        <4>1. 1 \in Int /\ cut \in Int /\ \A i \in 1..cut : h[i] \in Byte
          BY <2>1, <2>7, <3>1
        <4>2. QED BY <2>9, <4>1, SubSeqProperties
      <3>3. h2 \in Seq(Byte) /\ Len(h2) = IF cut + 1 <= Len(h) THEN Len(h) - (cut + 1) + 1 ELSE 0
        <4>1. cut + 1 \in Int /\ Len(h) \in Int /\ \A i \in (cut + 1)..Len(h) : h[i] \in Byte
          BY <2>1, <2>7, <3>1
        <4>2. QED BY <2>9, <4>1, SubSeqProperties
      <3>4. h1 \o h2 = SubSeq(h, 1, Len(h))
        <4>1. 1 \in 1..Len(h) + 1 /\ cut \in 1 - 1..Len(h) /\ Len(h) \in cut..Len(h)
          BY <2>1, <2>7
        <4>2. QED BY <2>1, <2>9, <4>1, ConcatAdjacentSubSeq
      <3>5. QED BY <2>1, <2>7, <3>2, <3>3, <3>4, SubSeqFull, SMTT(30)
    <2>11. seg.bytes = whole \o h1
      <3>1. PICK b : b = SubSeq(bytes, 1, numBytes)
        OBVIOUS
      <3>2. bytes = whole \o (h \o G) /\ Len(bytes) >= numBytes
        BY <1>11, <1>12, <2>1, <2>2, <2>5, <2>6
      <3>3. \A i \in 1..Len(bytes) : bytes[i] \in Byte
        BY <1>2, ElementOfSeq
      <3>4. b \in Seq(Byte) /\ Len(b) = numBytes /\ \A i \in 1..numBytes : b[i] = bytes[i]
        <4>1. 1 \in Int /\ numBytes \in Int /\ \A i \in 1..numBytes : bytes[i] \in Byte
          BY <1>12, <3>2, <3>3
        <4>2. /\ b \in Seq(Byte) /\ Len(b) = IF 1 <= numBytes THEN numBytes - 1 + 1 ELSE 0
              /\ \A i \in 1..(numBytes - 1 + 1) : b[i] = bytes[1 + i - 1]
          BY <3>1, <4>1, SubSeqProperties
        <4>3. QED BY <4>2
      <3>5. whole \o h1 \in Seq(Byte) /\ Len(whole \o h1) = numBytes
        BY <1>6, <1>12, <2>7, <2>10, ConcatProperties
      <3>6. ASSUME NEW i \in 1..numBytes
            PROVE  b[i] = (whole \o h1)[i]
        <4>1. h \o G \in Seq(Byte) /\ Len(h \o G) = Len(h) + Len(G)
          BY <2>1, <2>4, ConcatProperties
        <4>2. bytes[i] = IF i <= Len(whole) THEN whole[i] ELSE (h \o G)[i - Len(whole)]
          BY <1>6, <1>12, <2>2, <2>6, <3>2, <4>1, ConcatProperties
        <4>3. (whole \o h1)[i] = IF i <= Len(whole) THEN whole[i] ELSE h1[i - Len(whole)]
          BY <1>6, <1>12, <2>7, <2>10, ConcatProperties, SMTT(30)
        <4>4. CASE i <= Len(whole)
          BY <3>4, <4>2, <4>3, <4>4
        <4>5. CASE ~(i <= Len(whole))
          <5>1. PICK j : j = i - Len(whole) /\ j \in 1..cut /\ j \in 1..Len(h)
            BY <1>12, <2>1, <2>7, <4>5
          <5>2. (h \o G)[j] = h[j]
            <6>1. h \in Seq(Byte) /\ G \in Seq(Byte) /\ j <= Len(h) /\ j \in 1..(Len(h) + Len(G))
              BY <2>1, <2>4, <2>6, <5>1
            <6>2. QED BY <6>1, ConcatProperties
          <5>3. h1[j] = h[j]
            <6>1. (h1 \o h2)[j] = h1[j]
              BY <2>10, <5>1
            <6>2. QED BY <2>10, <6>1
          <5>4. QED BY <3>4, <4>2, <4>3, <4>5, <5>1, <5>2, <5>3
        <4>6. QED BY <4>4, <4>5
      <3>7. b = whole \o h1
        BY <3>4, <3>5, <3>6, SeqEqual
      <3>8. QED BY <1>9, <2>7, <3>1, <3>7
    <2>12. /\ seg.bytes \in Seq(Byte) /\ Len(seg.bytes) = numBytes
      BY <1>6, <1>12, <2>7, <2>10, <2>11, ConcatProperties
    <2>13. PICK a : a = IF cut = 0 THEN rest ELSE <<h2>> \o t
      OBVIOUS
    <2>14. seg.app = a
      BY <1>9, <2>3, <2>4, <2>9, <2>13
    <2>15. h1 \o FlattenSeq(a) = F /\ a \in Seq(Seq(Byte))
      <3>1. CASE cut = 0
        <4>1. h1 = <<>>
          BY <2>10, <3>1, EmptySeq
        <4>2. QED BY <1>6, <1>11, <2>13, <3>1, <4>1, ConcatEmptySeq
      <3>2. CASE cut # 0
        <4>1. <<h2>> \in Seq(Seq(Byte)) /\ t \in Seq(Seq(Byte))
          BY <2>3, <2>4, <2>10
        <4>2. FlattenSeq(<<h2>> \o t) = FlattenSeq(<<h2>>) \o FlattenSeq(t)
          BY <4>1, FlatConcat
        <4>3. FlattenSeq(<<h2>>) = h2
          BY <2>10, FlatSmall
        <4>4. (h1 \o h2) \o G = h1 \o (h2 \o G)
          <5>1. h1 \in Seq(Byte) /\ h2 \in Seq(Byte) /\ G \in Seq(Byte)
            BY <2>4, <2>10
          <5>2. QED BY <5>1, ConcatAssociative, SMTT(30)
        <4>5. a = <<h2>> \o t /\ a \in Seq(Seq(Byte))
          BY <2>13, <3>2, <4>1, ConcatProperties
        <4>6. QED BY <2>4, <2>5, <2>10, <4>2, <4>3, <4>4, <4>5
      <3>3. QED BY <3>1, <3>2
    <2>16. seg.bytes \o FlattenSeq(seg.app) = bytes
      <3>1. PICK H : H = FlattenSeq(a) /\ H \in Seq(Byte)
        BY <2>15, FlatType
      <3>2. (whole \o h1) \o H = whole \o (h1 \o H)
        <4>1. whole \in Seq(Byte) /\ h1 \in Seq(Byte) /\ H \in Seq(Byte)
          BY <1>6, <2>10, <3>1
        <4>2. QED BY <4>1, ConcatAssociative, SMTT(30)
      <3>3. QED BY <1>11, <2>11, <2>14, <2>15, <3>1, <3>2
    <2>17. ASSUME NEW i \in 1..Len(a)
           PROVE  a[i] # <<>> /\ \E j \in 1..Len(app) : Len(a[i]) <= Len(app[j])
      <3>1. \A j \in 1..n : /\ app[j] # <<>> /\ app[j] \in Seq(Byte)
                            /\ Len(app[j]) \in Nat /\ Len(app[j]) <= Len(app[j])
        BY <1>1, ElementOfSeq, LenProperties
      <3>2. CASE cut = 0
        <4>1. i \in 1..(n - k) /\ a[i] = app[k + i] /\ k + i \in 1..n
          BY <1>1, <1>4, <1>6, <1>7, <2>13, <3>2, SMTT(30)
        <4>2. QED BY <1>1, <3>1, <4>1
      <3>3. CASE cut # 0 /\ i = 1
        <4>1. a[i] = h2 /\ Len(h2) <= Len(h) /\ Len(h2) > 0
          BY <2>1, <2>3, <2>4, <2>7, <2>10, <2>13, <3>3
        <4>2. h2 # <<>>
          BY <4>1
        <4>3. k + 1 \in 1..n
          BY <1>1, <1>4, <1>14
        <4>4. QED BY <1>1, <2>1, <4>1, <4>2, <4>3
      <3>4. CASE cut # 0 /\ i # 1
        <4>1. Len(a) = n - k /\ i - 1 \in 1..(n - k - 1) /\ a[i] = t[i - 1]
          <5>1. a = <<h2>> \o t /\ Len(t) = n - k - 1 /\ t \in Seq(Seq(Byte)) /\ <<h2>> \in Seq(Seq(Byte))
            BY <2>3, <2>4, <2>10, <2>13, <3>4, SMTT(30)
          <5>2. Len(<<h2>>) = 1 /\ Len(a) = n - k
            <6>1. Len(<<h2>>) = 1
              OBVIOUS
            <6>2. Len(a) = Len(<<h2>>) + Len(t)
              BY <5>1, ConcatProperties
            <6>3. Len(a) = 1 + (n - k - 1) /\ n \in Int /\ k \in Int
              <7>1. Len(t) = n - k - 1
                BY <5>1
              <7>2. Len(a) = 1 + Len(t)
                BY <6>1, <6>2, Zenon
              <7>3. QED BY <1>1, <1>4, <7>1, <7>2
            <6>4. 1 + (n - k - 1) = n - k
              BY <6>3
            <6>5. QED BY <6>1, <6>3, <6>4
          <5>3. i - 1 \in 1..(n - k - 1)
            BY <1>1, <1>4, <3>4, <5>2
          <5>4. QED BY <5>1, <5>2, <5>3
        <4>2. t[i - 1] = rest[i] /\ i \in 1..(n - k)
          BY <1>1, <1>4, <2>3, <2>4, <4>1
        <4>3. a[i] = app[k + i] /\ k + i \in 1..n
          BY <1>1, <1>4, <1>7, <4>1, <4>2, SMTT(30)
        <4>4. QED BY <1>1, <3>1, <4>3
      <3>5. QED BY <3>2, <3>3, <3>4
    <2>18. Takes(app, numBytes, seg)
      BY <1>2, <2>8, <2>12, <2>14, <2>15, <2>16, <2>17 DEF Takes
    <2>19. QED BY <1>10, <2>18
  <1>15. QED BY <1>1, <1>4, <1>13, <1>14

-----------------------------------------------------------------------------
\* The bytes that frames carry together.
StreamFrames == [offset : Byte, bytes : Seq(Byte)]
Handed(f) == FlattenSeq([i \in 1..Len(f) |-> f[i].bytes])

\* The list of the bytes in each frame.
LEMMA PayloadsType ==
    ASSUME NEW f \in Seq(StreamFrames)
    PROVE  /\ [i \in 1..Len(f) |-> f[i].bytes] \in Seq(Seq(Byte))
           /\ Len([i \in 1..Len(f) |-> f[i].bytes]) = Len(f)
           /\ Handed(f) \in Seq(Byte) /\ Len(Handed(f)) \in Nat
  <1>1. Len(f) \in Nat /\ \A i \in 1..Len(f) : f[i].bytes \in Seq(Byte)
    <2>1. Len(f) \in Nat /\ \A i \in 1..Len(f) : f[i] \in StreamFrames
      BY LenProperties, ElementOfSeq
    <2>2. QED BY <2>1 DEF StreamFrames
  <1>2. PICK n, p : n = Len(f) /\ p = [i \in 1..n |-> f[i].bytes]
    OBVIOUS
  <1>3. n \in Nat /\ p \in [1..n -> Seq(Byte)]
    BY <1>1, <1>2
  <1>4. p \in Seq(Seq(Byte)) /\ Len(p) = n
    BY <1>3, SeqDef, LenProperties
  <1>5. FlattenSeq(p) \in Seq(Byte) /\ Len(FlattenSeq(p)) \in Nat
    BY <1>4, FlatType
  <1>6. QED BY <1>2, <1>4, <1>5 DEF Handed

\* One more frame adds its bytes.
LEMMA HandedAppend ==
    ASSUME NEW f \in Seq(StreamFrames), NEW x \in StreamFrames
    PROVE  Handed(Append(f, x)) = Handed(f) \o x.bytes
  <1>1. PICK n, a : n = Len(f) /\ a = Append(f, x) /\ n \in Nat
    BY LenProperties
  <1>2. /\ a \in Seq(StreamFrames) /\ Len(a) = n + 1
        /\ \A i \in 1..n : a[i] = f[i]
        /\ a[n + 1] = x
    BY <1>1, AppendProperties
  <1>3. PICK p, q : p = [i \in 1..n |-> f[i].bytes] /\ q = [i \in 1..(n + 1) |-> a[i].bytes]
    OBVIOUS
  <1>4. p \in Seq(Seq(Byte)) /\ Len(p) = n /\ q \in Seq(Seq(Byte)) /\ Len(q) = n + 1
    BY <1>1, <1>2, <1>3, PayloadsType
  <1>5. x.bytes \in Seq(Byte) /\ <<x.bytes>> \in Seq(Seq(Byte))
    BY DEF StreamFrames
  <1>6. PICK c : c = p \o <<x.bytes>>
    OBVIOUS
  <1>7. c \in Seq(Seq(Byte)) /\ Len(c) = n + 1
    BY <1>1, <1>4, <1>5, <1>6, ConcatProperties
  <1>8. \A i \in 1..(n + 1) : q[i] = c[i]
    <2>1. ASSUME NEW i \in 1..(n + 1)
          PROVE  q[i] = c[i]
      <3>1. CASE i <= n
        <4>1. q[i] = f[i].bytes /\ p[i] = f[i].bytes
          BY <1>1, <1>2, <1>3, <3>1
        <4>2. c[i] = p[i]
          BY <1>1, <1>4, <1>5, <1>6, <3>1
        <4>3. QED BY <4>1, <4>2
      <3>2. CASE i = n + 1
        <4>1. q[i] = x.bytes
          BY <1>1, <1>2, <1>3, <3>2
        <4>2. c[i] = x.bytes
          <5>1. Len(<<x.bytes>>) = 1 /\ <<x.bytes>>[1] = x.bytes
            OBVIOUS
          <5>2. c[n + 1] = <<x.bytes>>[(n + 1) - n]
            <6>1. n + 1 \in 1..(Len(p) + Len(<<x.bytes>>)) /\ ~(n + 1 <= Len(p))
              BY <1>1, <1>4, <5>1
            <6>2. QED BY <1>4, <1>5, <1>6, <6>1, ConcatProperties
          <5>3. (n + 1) - n = 1
            BY <1>1
          <5>4. QED BY <3>2, <5>1, <5>2, <5>3
        <4>3. QED BY <4>1, <4>2
      <3>3. QED BY <1>1, <3>1, <3>2
    <2>2. QED BY <2>1
  <1>9. q = c
    BY <1>4, <1>7, <1>8, SeqEqual
  <1>10. FlattenSeq(c) = FlattenSeq(p) \o FlattenSeq(<<x.bytes>>)
    BY <1>4, <1>5, <1>6, FlatConcat
  <1>11. FlattenSeq(<<x.bytes>>) = x.bytes
    BY <1>5, FlatSmall
  <1>12. Handed(f) = FlattenSeq(p) /\ Handed(a) = FlattenSeq(q)
    BY <1>1, <1>2, <1>3 DEF Handed
  <1>13. QED BY <1>1, <1>9, <1>10, <1>11, <1>12

\* A frame that begins where the others end continues them.
LEMMA RunAppend ==
    ASSUME NEW f \in Seq(StreamFrames), NEW size \in Nat, Run(f, size),
           NEW x \in StreamFrames, x.offset = size, x.bytes # <<>>,
           \A j \in 1..Len(x.bytes) : x.bytes[j] = size + j - 1
    PROVE  Run(Append(f, x), size + Len(x.bytes))
  <1>1. PICK n, a : n = Len(f) /\ a = Append(f, x) /\ n \in Nat
    BY LenProperties
  <1>2. /\ a \in Seq(StreamFrames) /\ Len(a) = n + 1
        /\ \A i \in 1..n : a[i] = f[i]
        /\ a[n + 1] = x
    BY <1>1, AppendProperties
  <1>3. ASSUME NEW i \in 1..(n + 1)
        PROVE  /\ a[i].bytes # <<>>
               /\ \A j \in 1..Len(a[i].bytes) : a[i].bytes[j] = a[i].offset + j - 1
               /\ a[i].offset + Len(a[i].bytes) =
                      IF i = n + 1 THEN size + Len(x.bytes) ELSE a[i + 1].offset
    <2>1. CASE i = n + 1
      <3>1. a[i] = x
        BY <1>2, <2>1
      <3>2. QED BY <2>1, <3>1
    <2>2. CASE i < n
      <3>1. i \in 1..n /\ i + 1 \in 1..n /\ i # n /\ i # n + 1
        BY <1>1, <2>2
      <3>2. a[i] = f[i] /\ a[i + 1] = f[i + 1]
        BY <1>2, <3>1
      <3>3. QED BY <1>1, <3>1, <3>2 DEF Run, NextOffset
    <2>3. CASE i = n
      <3>1. n \in 1..n /\ n # n + 1 /\ a[n] = f[n] /\ a[n + 1] = x
        BY <1>1, <1>2, <2>3
      <3>2. QED BY <1>1, <2>3, <3>1 DEF Run, NextOffset
    <2>4. QED BY <1>1, <2>1, <2>2, <2>3
  <1>4. a[1].offset = 0 /\ n + 1 # 0
    <2>1. n + 1 # 0 /\ (n = 0 \/ 1 \in 1..n)
      BY <1>1
    <2>2. CASE n = 0
      BY <1>1, <1>2, <2>2 DEF Run, NextOffset
    <2>3. CASE n # 0 /\ 1 \in 1..n
      BY <1>1, <1>2, <2>3 DEF Run, NextOffset
    <2>4. QED BY <2>1, <2>2, <2>3
  <1>5. NextOffset(a, size + Len(x.bytes), 0) = 0
    BY <1>2, <1>4 DEF NextOffset
  <1>6. QED BY <1>1, <1>2, <1>3, <1>5 DEF Run, NextOffset

-----------------------------------------------------------------------------
\* A state of the loop of SendPendingData that has left nothing out: the parts of
\* the invariant, and what the loop has added to the frames and taken of the room.
StreamRec == [app : Seq(Seq(Byte)), list : Seq(1..StreamBytes), buf : 0..(Modulus - 1),
              size : 0..StreamBytes, frames : Seq(StreamFrames), room : 0..(Modulus - 1),
              crashed : BOOLEAN, stop : BOOLEAN]
Whole(s) ==
    /\ Handed(s.frames) \o FlattenSeq(s.app) = [i \in 1..written |-> i - 1]
    /\ Len(FlattenSeq(s.app)) <= MaxBuffer
    /\ s.size = Len(Handed(s.frames))
Uncut(s) == \A i \in 1..Len(s.app) : s.app[i] # <<>> /\ (large \/ Len(s.app[i]) <= SegSize)
Counted(s) ==
    ~large /\ s.size + SegSize <= MaxStreamData =>
        s.buf = s.size /\ Total(s.list) = s.size /\ ~s.crashed
Grows(s) ==
    /\ Len(frames) <= Len(s.frames) /\ \A i \in 1..Len(frames) : s.frames[i] = frames[i]
    /\ s.room + s.size + Len(s.frames) = room + sentSize + Len(frames)
Good(s) ==
    /\ s \in StreamRec
    /\ Whole(s) /\ Run(s.frames, s.size) /\ Uncut(s) /\ Counted(s) /\ Grows(s)

\* The bytes buffered continue those handed over, and a segment takes the first.
LEMMA SegmentContinues ==
    ASSUME written \in 0..StreamBytes, NEW s, Good(s),
           NEW m \in Nat, NEW seg, Takes(s.app, m, seg)
    PROVE  /\ s.size + Len(seg.bytes) <= StreamBytes /\ Len(seg.bytes) \in 1..m
           /\ \A j \in 1..Len(seg.bytes) : seg.bytes[j] = s.size + j - 1
           /\ Len(FlattenSeq(seg.app)) <= Len(FlattenSeq(s.app))
           /\ (Handed(s.frames) \o seg.bytes) \o FlattenSeq(seg.app)
                  = [i \in 1..written |-> i - 1]
  <1>1. PICK H, A, B, b : /\ H = Handed(s.frames) /\ A = FlattenSeq(s.app)
                          /\ B = FlattenSeq(seg.app) /\ b = seg.bytes
    OBVIOUS
  <1>2. s.frames \in Seq(StreamFrames) /\ s.app \in Seq(Seq(Byte)) /\ s.size \in 0..StreamBytes
    BY DEF Good, StreamRec
  <1>3. /\ H \in Seq(Byte) /\ Len(H) \in Nat /\ A \in Seq(Byte) /\ Len(A) \in Nat
        /\ B \in Seq(Byte) /\ Len(B) \in Nat /\ b \in Seq(Byte) /\ Len(b) \in 1..m
        /\ b \o B = A
    BY <1>1, <1>2, PayloadsType, FlatType DEF Takes
  <1>4. Len(A) = Len(b) + Len(B) /\ Len(b) \in Nat
    BY <1>3, ConcatProperties, LenProperties
  <1>5. H \o A = [i \in 1..written |-> i - 1] /\ s.size = Len(H)
    BY <1>1 DEF Good, Whole
  <1>6. written \in Nat /\ written <= StreamBytes /\ StreamBytes \in Nat
    BY Constants
  <1>7. Len([i \in 1..written |-> i - 1]) = written
    BY <1>6
  <1>8. Len(H) + Len(A) = written
    BY <1>3, <1>5, <1>7, ConcatProperties
  <1>9. \A j \in 1..Len(A) : A[j] = s.size + j - 1
    <2>1. ASSUME NEW j \in 1..Len(A)
          PROVE  A[j] = s.size + j - 1
      <3>1. PICK k : /\ k = Len(H) + j /\ k \in 1..(Len(H) + Len(A)) /\ ~(k <= Len(H))
                     /\ k - Len(H) = j
        BY <1>3
      <3>2. (H \o A)[k] = A[k - Len(H)]
        BY <1>3, <3>1, ConcatProperties
      <3>3. (H \o A)[k] = k - 1
        BY <1>5, <1>8, <3>1
      <3>4. A[j] = k - 1
        BY <3>1, <3>2, <3>3
      <3>5. k - 1 = s.size + j - 1
        <4>1. s.size = Len(H) /\ Len(H) \in Nat
          BY <1>3, <1>5
        <4>2. QED BY <3>1, <4>1
      <3>6. QED BY <3>4, <3>5
    <2>2. QED BY <2>1
  <1>10. \A j \in 1..Len(b) : b[j] = A[j] /\ j \in 1..Len(A)
    <2>1. ASSUME NEW j \in 1..Len(b)
          PROVE  b[j] = A[j] /\ j \in 1..Len(A)
      <3>1. j \in 1..(Len(b) + Len(B)) /\ j <= Len(b)
        BY <1>3, <1>4
      <3>2. (b \o B)[j] = b[j]
        BY <1>3, <3>1, ConcatProperties
      <3>3. QED BY <1>3, <1>4, <3>1, <3>2
    <2>2. QED BY <2>1
  <1>11. (H \o b) \o B = H \o (b \o B)
    <2>1. H \in Seq(Byte) /\ b \in Seq(Byte) /\ B \in Seq(Byte)
      BY <1>3
    <2>2. QED BY <2>1, ConcatAssociative
  <1>12. s.size + Len(b) <= StreamBytes /\ Len(B) <= Len(A)
    BY <1>3, <1>4, <1>5, <1>6, <1>8
  <1>13. \A j \in 1..Len(b) : b[j] = s.size + j - 1
    BY <1>9, <1>10
  <1>14. (H \o b) \o B = [i \in 1..written |-> i - 1]
    BY <1>3, <1>5, <1>11
  <1>15. QED BY <1>1, <1>3, <1>12, <1>13, <1>14

\* As long as no packet is cut, the first packet fits in the segment.
LEMMA WholePacketFits ==
    ASSUME NEW s, Good(s), s.app # <<>>, ~large, s.size + SegSize <= MaxStreamData,
           NEW m, m = IF Window(s.buf) < SegSize THEN Window(s.buf) ELSE SegSize
    PROVE  Len(s.app[1]) <= m
  <1>1. s.buf = s.size /\ s.size \in Nat /\ s.app \in Seq(Seq(Byte))
    BY Constants DEF Good, Counted, StreamRec
  <1>2. Window(s.buf) = MaxStreamData - s.size /\ m = SegSize
    BY <1>1, Constants DEF Window
  <1>3. 1 \in 1..Len(s.app)
    BY <1>1, EmptySeq
  <1>4. QED BY <1>2, <1>3 DEF Good, Uncut

\* A packet that is not larger than one of the list is not too large.
LEMMA UncutAfter ==
    ASSUME NEW s, Good(s), NEW m \in Nat, NEW seg, Takes(s.app, m, seg),
           NEW i \in 1..Len(seg.app)
    PROVE  seg.app[i] # <<>> /\ (large \/ Len(seg.app[i]) <= SegSize)
  <1>1. PICK j \in 1..Len(s.app) : Len(seg.app[i]) <= Len(s.app[j])
    BY DEF Takes
  <1>2. s.app[j] \in Seq(Byte) /\ seg.app[i] \in Seq(Byte)
    BY <1>1, ElementOfSeq DEF Good, StreamRec, Takes
  <1>3. Len(s.app[j]) \in Nat /\ Len(seg.app[i]) \in Nat
    BY <1>2, LenProperties
  <1>4. large \/ Len(s.app[j]) <= SegSize
    BY <1>1 DEF Good, Uncut
  <1>5. QED BY SMTT(30), <1>1, <1>3, <1>4, Constants DEF Takes

\* The largest frame of SendPendingData, a segment in the sent list, and the two
\* outcomes of SendDataFrame.
Limit(s) == IF Window(s.buf) < SegSize THEN Window(s.buf) ELSE SegSize
Taken(s, seg) == IF seg.toInsert
                 THEN [s EXCEPT !.list = Append(@, Len(seg.bytes)),
                                !.buf = (@ + Len(seg.bytes)) % Modulus]
                 ELSE s
Accepted(s, seg) == [Taken(s, seg) EXCEPT
                         !.app = seg.app,
                         !.size = @ + Len(seg.bytes),
                         !.frames = Append(@, [offset |-> s.size, bytes |-> seg.bytes]),
                         !.room = @ - Len(seg.bytes) - HeaderSize]

\* A segment in the sent list.
LEMMA TakenIs ==
    ASSUME NEW s \in StreamRec, NEW seg, NEW n \in 1..StreamBytes, Len(seg.bytes) = n,
           seg.toInsert \in BOOLEAN
    PROVE  /\ Taken(s, seg) \in StreamRec
           /\ Taken(s, seg).app = s.app /\ Taken(s, seg).size = s.size
           /\ Taken(s, seg).frames = s.frames /\ Taken(s, seg).room = s.room
           /\ Taken(s, seg).crashed = s.crashed /\ Taken(s, seg).stop = s.stop
           /\ Taken(s, seg).list = IF seg.toInsert THEN Append(s.list, n) ELSE s.list
           /\ Taken(s, seg).buf = IF seg.toInsert THEN (s.buf + n) % Modulus ELSE s.buf
  <1>1. s.list \in Seq(1..StreamBytes) /\ s.buf \in 0..(Modulus - 1)
    BY DEF StreamRec
  <1>2. Append(s.list, n) \in Seq(1..StreamBytes)
    BY <1>1, AppendProperties
  <1>3. (s.buf + n) % Modulus \in 0..(Modulus - 1)
    <2>1. s.buf \in Int /\ n \in Int
      BY <1>1, Constants
    <2>2. s.buf + n \in Int
      BY <2>1
    <2>3. QED BY <2>2, Constants, NoWrap
  <1>4. CASE seg.toInsert
    <2>1. Taken(s, seg) = [s EXCEPT !.list = Append(s.list, n), !.buf = (s.buf + n) % Modulus]
      BY <1>4 DEF Taken
    <2>2. QED BY <1>2, <1>3, <1>4, <2>1 DEF StreamRec
  <1>5. CASE ~seg.toInsert
    BY <1>5 DEF Taken
  <1>6. QED BY <1>4, <1>5

\* SendDataFrame keeps a state good when the socket accepts the frame.
LEMMA AcceptKeeps ==
    ASSUME written \in 0..StreamBytes, large \in BOOLEAN,
           NEW s, Good(s), s.app # <<>>, Limit(s) \in Nat,
           NEW seg, Takes(s.app, Limit(s), seg), Len(seg.bytes) + HeaderSize <= s.room
    PROVE  Good(Accepted(s, seg))
  <1>1. PICK n, m, taken, r : /\ n = Len(seg.bytes) /\ m = Limit(s) /\ taken = Taken(s, seg)
                              /\ r = Accepted(s, seg)
    OBVIOUS
  <1>2. /\ s \in StreamRec
        /\ s.frames \in Seq(StreamFrames) /\ s.app \in Seq(Seq(Byte)) /\ s.size \in 0..StreamBytes
        /\ s.list \in Seq(1..StreamBytes) /\ s.buf \in 0..(Modulus - 1) /\ s.room \in 0..(Modulus - 1)
    BY DEF Good, StreamRec
  <1>3. /\ s.size + n <= StreamBytes /\ n \in 1..m
        /\ \A j \in 1..n : seg.bytes[j] = s.size + j - 1
        /\ Len(FlattenSeq(seg.app)) <= Len(FlattenSeq(s.app))
        /\ (Handed(s.frames) \o seg.bytes) \o FlattenSeq(seg.app) = [i \in 1..written |-> i - 1]
    BY <1>1, SegmentContinues
  <1>4. /\ n \in Nat /\ n >= 1 /\ n \in 1..StreamBytes /\ s.size \in Nat /\ s.room - n - 1 \in 0..(Modulus - 1)
        /\ s.size \in Byte /\ s.size + n \in 0..StreamBytes
    <2>1. PICK z, rm, M, B : z = s.size /\ rm = s.room /\ M = Modulus /\ B = StreamBytes
      OBVIOUS
    <2>2. /\ z \in 0..B /\ rm \in 0..(M - 1) /\ z + n <= B /\ n \in 1..m /\ n + 1 <= rm
          /\ B \in Nat /\ M \in Nat
      BY <1>1, <1>2, <1>3, <2>1, Constants
    <2>3. /\ n \in Nat /\ n >= 1 /\ n \in 1..B /\ z \in Nat /\ rm - n - 1 \in 0..(M - 1)
          /\ z \in 0..(B - 1) /\ z + n \in 0..B
      BY <2>2
    <2>4. QED BY <2>1, <2>3 DEF Byte
  <1>5. seg.app \in Seq(Seq(Byte)) /\ seg.bytes \in Seq(Byte) /\ seg.toInsert \in BOOLEAN
    BY DEF Takes
  <1>6. PICK x : x = [offset |-> s.size, bytes |-> seg.bytes]
    OBVIOUS
  <1>7. x \in StreamFrames /\ x.offset = s.size /\ x.bytes = seg.bytes
    BY <1>4, <1>5, <1>6 DEF StreamFrames
  <1>8. /\ taken \in StreamRec
        /\ taken.app = s.app /\ taken.size = s.size /\ taken.frames = s.frames
        /\ taken.room = s.room /\ taken.crashed = s.crashed /\ taken.stop = s.stop
        /\ taken.list = IF seg.toInsert THEN Append(s.list, n) ELSE s.list
        /\ taken.buf = IF seg.toInsert THEN (s.buf + n) % Modulus ELSE s.buf
    BY <1>1, <1>2, <1>4, <1>5, TakenIs
  <1>9. PICK fs : fs = Append(s.frames, x)
    OBVIOUS
  <1>10. /\ fs \in Seq(StreamFrames) /\ Len(fs) = Len(s.frames) + 1
        /\ \A i \in 1..Len(s.frames) : fs[i] = s.frames[i]
    BY <1>2, <1>7, <1>9, AppendProperties
  <1>11. /\ r \in StreamRec
         /\ r.app = seg.app /\ r.size = s.size + n /\ r.frames = fs
         /\ r.room = s.room - n - 1 /\ r.crashed = s.crashed /\ r.stop = s.stop
         /\ r.list = taken.list /\ r.buf = taken.buf
    <2>1. r = [taken EXCEPT !.app = seg.app, !.size = s.size + n, !.frames = fs,
                            !.room = s.room - n - 1]
      BY <1>1, <1>6, <1>8, <1>9, Constants DEF Accepted
    <2>2. QED BY <1>4, <1>5, <1>8, <1>10, <2>1 DEF StreamRec
  <1>12. Handed(fs) = Handed(s.frames) \o seg.bytes
    BY <1>2, <1>7, <1>9, HandedAppend
  <1>13. Whole(r)
    <2>1. Handed(r.frames) \o FlattenSeq(r.app) = [i \in 1..written |-> i - 1]
      BY <1>3, <1>11, <1>12
    <2>2. Len(FlattenSeq(r.app)) <= MaxBuffer
      <3>1. Len(FlattenSeq(seg.app)) \in Nat /\ Len(FlattenSeq(s.app)) \in Nat
        BY <1>2, <1>5, FlatType
      <3>2. Len(FlattenSeq(s.app)) <= MaxBuffer
        BY DEF Good, Whole
      <3>3. QED BY <1>3, <1>11, <3>1, <3>2, Constants
    <2>3. r.size = Len(Handed(r.frames))
      <3>1. Handed(s.frames) \in Seq(Byte) /\ s.size = Len(Handed(s.frames))
        BY <1>2, PayloadsType DEF Good, Whole
      <3>2. Len(Handed(s.frames) \o seg.bytes) = Len(Handed(s.frames)) + Len(seg.bytes)
        BY <1>5, <3>1, ConcatProperties
      <3>3. QED BY <1>1, <1>11, <1>12, <3>1, <3>2
    <2>4. QED BY <2>1, <2>2, <2>3 DEF Whole
  <1>14. Run(r.frames, r.size)
    <2>1. x.bytes # <<>> /\ Run(s.frames, s.size)
      <3>1. Len(x.bytes) >= 1
        BY <1>1, <1>4, <1>7
      <3>2. QED BY <3>1 DEF Good
    <2>2. Run(Append(s.frames, x), s.size + Len(x.bytes))
      BY <1>1, <1>2, <1>3, <1>4, <1>7, <2>1, RunAppend
    <2>3. QED BY <1>1, <1>7, <1>9, <1>11, <2>2
  <1>15. Uncut(r)
    BY <1>11, UncutAfter DEF Uncut
  <1>16. Counted(r)
    <2>1. SUFFICES ASSUME ~large, r.size + SegSize <= MaxStreamData
                   PROVE  r.buf = r.size /\ Total(r.list) = r.size /\ ~r.crashed
      BY DEF Counted
    <2>2. s.size + SegSize <= MaxStreamData
      <3>1. s.size + n + SegSize <= MaxStreamData
        BY <1>11, <2>1
      <3>2. QED BY <1>4, <3>1, Constants
    <2>3. s.buf = s.size /\ Total(s.list) = s.size /\ ~s.crashed
      BY <2>1, <2>2 DEF Good, Counted
    <2>4. seg.toInsert
      <3>1. Len(s.app[1]) <= m
        BY <1>1, <2>1, <2>2, WholePacketFits DEF Limit
      <3>2. QED BY <1>1, <3>1 DEF Takes
    <2>5. (s.size + n) % Modulus = s.size + n
      <3>1. s.size + n \in Int /\ 0 <= s.size + n /\ s.size + n < Modulus
        BY <1>3, <1>4, Constants
      <3>2. QED BY <3>1, Constants, NoWrap
    <2>6. Total(Append(s.list, n)) = Total(s.list) + n
      <3>1. s.list \in Seq(Nat)
        BY <1>2, Constants, SeqMonotonic, SMTT(30)
      <3>2. QED BY <1>4, <3>1, TotalAppend
    <2>7. QED BY <1>8, <1>11, <2>3, <2>4, <2>5, <2>6
  <1>17. Grows(r)
    <2>1. /\ Len(frames) <= Len(s.frames) /\ \A i \in 1..Len(frames) : s.frames[i] = frames[i]
          /\ s.room + s.size + Len(s.frames) = room + sentSize + Len(frames)
      BY DEF Good, Grows
    <2>2. Len(frames) <= Len(fs) /\ \A i \in 1..Len(frames) : fs[i] = frames[i]
      <3>1. PICK a, b : a = Len(frames) /\ b = Len(s.frames) /\ b \in Nat
        BY <1>2, LenProperties
      <3>2. a <= b /\ \A i \in 1..a : i \in 1..b
        BY <2>1, <3>1
      <3>3. a <= b + 1
        BY <3>1, <3>2
      <3>4. QED BY <1>10, <2>1, <3>1, <3>2, <3>3
    <2>3. r.room + r.size + Len(fs) = s.room + s.size + Len(s.frames)
      <3>1. Len(s.frames) \in Nat /\ s.room \in Int
        <4>1. Len(s.frames) \in Nat
          BY <1>2, LenProperties
        <4>2. s.room \in Int
          BY <1>2, Constants
        <4>3. QED BY <4>1, <4>2
      <3>2. PICK z, rm, k : z = s.size /\ rm = s.room /\ k = Len(s.frames)
        OBVIOUS
      <3>3. z \in Nat /\ rm \in Int /\ k \in Nat /\ n \in Nat
        BY <1>4, <3>1, <3>2
      <3>4. r.room = rm - n - 1 /\ r.size = z + n /\ Len(fs) = k + 1
        BY <1>10, <1>11, <3>2
      <3>5. (rm - n - 1) + (z + n) + (k + 1) = rm + z + k
        BY <3>3
      <3>6. QED BY <3>2, <3>4, <3>5
    <2>4. QED BY <1>11, <2>1, <2>2, <2>3 DEF Grows
  <1>18. QED BY <1>1, <1>11, <1>13, <1>14, <1>15, <1>16, <1>17 DEF Good

\* SendDataFrame keeps a state good when the socket rejects the frame.
LEMMA RejectKeeps ==
    ASSUME written \in 0..StreamBytes, large \in BOOLEAN,
           NEW s, Good(s), s.app # <<>>, Limit(s) \in Nat, Limit(s) <= SegSize,
           NEW seg, Takes(s.app, Limit(s), seg)
    PROVE  Good(Rejected(Taken(s, seg), seg))
  <1>1. PICK n, m, taken, r : /\ n = Len(seg.bytes) /\ m = Limit(s) /\ taken = Taken(s, seg)
                              /\ r = Rejected(Taken(s, seg), seg)
    OBVIOUS
  <1>2. /\ s \in StreamRec
        /\ s.frames \in Seq(StreamFrames) /\ s.app \in Seq(Seq(Byte)) /\ s.size \in 0..StreamBytes
        /\ s.list \in Seq(1..StreamBytes) /\ s.buf \in 0..(Modulus - 1) /\ s.room \in 0..(Modulus - 1)
    BY DEF Good, StreamRec
  <1>3. /\ s.size + n <= StreamBytes /\ n \in 1..m
    BY <1>1, SegmentContinues
  <1>4. n \in Nat /\ n >= 1 /\ n \in 1..StreamBytes /\ s.size \in Nat /\ n <= SegSize
    <2>1. PICK z, B, g : z = s.size /\ B = StreamBytes /\ g = SegSize
      OBVIOUS
    <2>2. /\ z \in 0..B /\ z + n <= B /\ n \in 1..m /\ m <= g
          /\ B \in Nat /\ g \in Nat /\ m \in Nat
      BY <1>1, <1>2, <1>3, <2>1, Constants
    <2>3. n \in Nat /\ n >= 1 /\ n \in 1..B /\ z \in Nat /\ n <= g
      BY <2>2
    <2>4. QED BY <2>1, <2>3
  <1>5. seg.app \in Seq(Seq(Byte)) /\ seg.bytes \in Seq(Byte) /\ seg.toInsert \in BOOLEAN
    BY DEF Takes
  <1>6. /\ taken \in StreamRec
        /\ taken.app = s.app /\ taken.size = s.size /\ taken.frames = s.frames
        /\ taken.room = s.room /\ taken.crashed = s.crashed /\ taken.stop = s.stop
        /\ taken.list = IF seg.toInsert THEN Append(s.list, n) ELSE s.list
        /\ taken.buf = IF seg.toInsert THEN (s.buf + n) % Modulus ELSE s.buf
    BY <1>1, <1>2, <1>4, <1>5, TakenIs
  <1>7. PICK list, app : /\ list = IF taken.list = <<>> THEN taken.list ELSE Front(taken.list)
                         /\ app = <<seg.bytes>> \o seg.app
    OBVIOUS
  <1>8. taken.list \in Seq(1..StreamBytes) /\ taken.buf \in Int
    <2>1. taken.list \in Seq(1..StreamBytes) /\ taken.buf \in 0..(Modulus - 1)
      BY <1>6 DEF StreamRec
    <2>2. QED BY <2>1, Constants
  <1>9. list \in Seq(1..StreamBytes)
    <2>1. CASE taken.list = <<>>
      BY <1>7, <1>8, <2>1
    <2>2. CASE taken.list # <<>>
      <3>1. Len(taken.list) \in Nat /\ Len(taken.list) > 0
        BY <1>8, <2>2, EmptySeq
      <3>2. \A i \in 1..(Len(taken.list) - 1) : taken.list[i] \in 1..StreamBytes
        <4>1. \A i \in 1..Len(taken.list) : taken.list[i] \in 1..StreamBytes
          BY <1>8, ElementOfSeq
        <4>2. QED BY <3>1, <4>1
      <3>3. Front(taken.list) \in Seq(1..StreamBytes)
        BY <3>1, <3>2, SubSeqProperties DEF Front
      <3>4. QED BY <1>7, <2>2, <3>3
    <2>3. QED BY <2>1, <2>2
  <1>10. (taken.buf - n) % Modulus \in 0..(Modulus - 1)
    <2>1. taken.buf - n \in Int
      BY <1>4, <1>8
    <2>2. QED BY <2>1, Constants, NoWrap
  <1>11. /\ app \in Seq(Seq(Byte)) /\ Len(app) = 1 + Len(seg.app) /\ app[1] = seg.bytes
         /\ \A i \in 2..Len(app) : i - 1 \in 1..Len(seg.app) /\ app[i] = seg.app[i - 1]
    <2>1. PICK b, q, o : b = seg.bytes /\ q = seg.app /\ o = <<b>>
      OBVIOUS
    <2>2. /\ q \in Seq(Seq(Byte)) /\ o \in Seq(Seq(Byte)) /\ Len(o) = 1 /\ o[1] = b
          /\ Len(q) \in Nat /\ app = o \o q
      BY <1>5, <1>7, <2>1, LenProperties
    <2>3. /\ app \in Seq(Seq(Byte)) /\ Len(app) = Len(o) + Len(q)
          /\ \A i \in 1..(Len(o) + Len(q)) : app[i] = IF i <= Len(o) THEN o[i] ELSE q[i - Len(o)]
      BY <2>2, ConcatProperties
    <2>4. app[1] = b /\ \A i \in 2..Len(app) : i - 1 \in 1..Len(q) /\ app[i] = q[i - 1]
      BY <2>2, <2>3
    <2>5. QED BY <2>1, <2>2, <2>3, <2>4
  <1>12. /\ r \in StreamRec
         /\ r.app = app /\ r.size = s.size /\ r.frames = s.frames
         /\ r.room = s.room /\ r.crashed = (taken.list = <<>>) /\ r.stop = TRUE
         /\ r.list = list /\ r.buf = (taken.buf - n) % Modulus
    <2>1. r = [taken EXCEPT !.app = app, !.list = list, !.buf = (taken.buf - n) % Modulus,
                            !.crashed = (taken.list = <<>>), !.stop = TRUE]
      BY <1>1, <1>6, <1>7 DEF Rejected, StreamRec
    <2>2. QED BY <1>6, <1>9, <1>10, <1>11, <2>1 DEF StreamRec
  <1>13. FlattenSeq(app) = FlattenSeq(s.app)
    <2>1. PICK b, q : b = seg.bytes /\ q = seg.app
      OBVIOUS
    <2>2. b \in Seq(Byte) /\ q \in Seq(Seq(Byte)) /\ <<b>> \in Seq(Seq(Byte))
      BY <1>5, <2>1
    <2>3. FlattenSeq(<<b>> \o q) = FlattenSeq(<<b>>) \o FlattenSeq(q)
      BY <2>2, FlatConcat
    <2>4. FlattenSeq(<<b>>) = b
      BY <2>2, FlatSmall
    <2>5. b \o FlattenSeq(q) = FlattenSeq(s.app)
      BY <2>1 DEF Takes
    <2>6. QED BY <1>7, <2>1, <2>3, <2>4, <2>5
  <1>14. Whole(r)
    BY <1>12, <1>13 DEF Good, Whole
  <1>15. Run(r.frames, r.size)
    BY <1>12 DEF Good
  <1>16. Uncut(r)
    <2>1. ASSUME NEW i \in 1..Len(app)
          PROVE  app[i] # <<>> /\ (large \/ Len(app[i]) <= SegSize)
      <3>1. CASE i = 1
        <4>1. Len(app[1]) = n
          BY <1>1, <1>11
        <4>2. app[1] # <<>>
          BY <1>4, <4>1
        <4>3. QED BY <1>4, <3>1, <4>1, <4>2
      <3>2. CASE i # 1
        <4>1. i \in 2..Len(app)
          BY <1>5, <1>11, <3>2, LenProperties
        <4>2. i - 1 \in 1..Len(seg.app) /\ app[i] = seg.app[i - 1]
          BY <1>11, <4>1
        <4>3. QED BY <4>2, UncutAfter
      <3>3. QED BY <3>1, <3>2
    <2>2. QED BY <1>12, <2>1 DEF Uncut
  <1>17. Counted(r)
    <2>1. SUFFICES ASSUME ~large, s.size + SegSize <= MaxStreamData
                   PROVE  r.buf = r.size /\ Total(r.list) = r.size /\ ~r.crashed
      BY <1>12 DEF Counted
    <2>2. s.buf = s.size /\ Total(s.list) = s.size /\ ~s.crashed
      BY <2>1 DEF Good, Counted
    <2>3. seg.toInsert
      <3>1. Len(s.app[1]) <= m
        BY <1>1, <2>1, WholePacketFits DEF Limit
      <3>2. QED BY <1>1, <3>1 DEF Takes
    <2>4. taken.list = Append(s.list, n) /\ taken.buf = (s.size + n) % Modulus
      BY <1>6, <2>2, <2>3
    <2>5. (s.size + n) % Modulus = s.size + n
      <3>1. s.size + n \in Int /\ 0 <= s.size + n /\ s.size + n < Modulus
        BY <1>3, <1>4, Constants
      <3>2. QED BY <3>1, Constants, NoWrap
    <2>6. r.buf = s.size
      <3>1. taken.buf - n = s.size /\ s.size \in Int /\ 0 <= s.size /\ s.size < Modulus
        BY <1>3, <1>4, <2>4, <2>5, Constants
      <3>2. s.size % Modulus = s.size
        BY <3>1, Constants, NoWrap
      <3>3. QED BY <1>12, <3>1, <3>2
    <2>7. taken.list # <<>> /\ Front(taken.list) = s.list
      <3>1. PICK l, a : l = s.list /\ a = Append(l, n)
        OBVIOUS
      <3>2. l \in Seq(1..StreamBytes) /\ Len(l) \in Nat
        BY <1>2, <3>1, LenProperties
      <3>3. /\ a \in Seq(1..StreamBytes) /\ a # <<>> /\ Len(a) = Len(l) + 1
            /\ \A i \in 1..Len(l) : a[i] = l[i]
        BY <1>4, <3>1, <3>2, AppendProperties
      <3>4. Len(a) - 1 = Len(l) /\ \A i \in 1..Len(l) : l[i] \in 1..StreamBytes
        <4>1. \A i \in 1..Len(l) : l[i] \in 1..StreamBytes
          BY <3>2, ElementOfSeq
        <4>2. QED BY <3>2, <3>3, <4>1
      <3>5. PICK b : b = SubSeq(a, 1, Len(l))
        OBVIOUS
      <3>6. b \in Seq(1..StreamBytes) /\ Len(b) = Len(l) /\ \A i \in 1..Len(l) : b[i] = a[i]
        <4>1. 1 \in Int /\ Len(l) \in Int /\ \A i \in 1..Len(l) : a[i] \in 1..StreamBytes
          BY <3>2, <3>3, <3>4
        <4>2. /\ b \in Seq(1..StreamBytes) /\ Len(b) = IF 1 <= Len(l) THEN Len(l) - 1 + 1 ELSE 0
              /\ \A i \in 1..(Len(l) - 1 + 1) : b[i] = a[1 + i - 1]
          BY <3>5, <4>1, SubSeqProperties
        <4>3. QED BY <3>2, <4>2
      <3>7. b = l
        <4>1. \A i \in 1..Len(b) : b[i] = l[i]
          BY <3>3, <3>6
        <4>2. QED BY <3>2, <3>6, <4>1, SeqEqual
      <3>8. Front(a) = b
        BY <3>4, <3>5 DEF Front
      <3>9. QED BY <2>4, <3>1, <3>3, <3>7, <3>8
    <2>8. QED BY <1>7, <1>12, <2>2, <2>6, <2>7
  <1>18. Grows(r)
    BY <1>12 DEF Good, Grows
  <1>19. QED BY <1>1, <1>12, <1>14, <1>15, <1>16, <1>17, <1>18 DEF Good

\* One turn of the loop of SendPendingData.
LEMMA SendNextKeeps ==
    ASSUME written \in 0..StreamBytes, large \in BOOLEAN, NEW s, Good(s)
    PROVE  Good(SendNext(s))
  <1>1. s.buf \in 0..(Modulus - 1) /\ s.app \in Seq(Seq(Byte))
    BY DEF Good, StreamRec
  <1>2. Window(s.buf) \in Nat
    BY <1>1, Constants DEF Window
  <1>3. CASE s.stop \/ Window(s.buf) = 0 \/ s.app = <<>>
    BY <1>3 DEF SendNext
  <1>4. CASE ~(s.stop \/ Window(s.buf) = 0 \/ s.app = <<>>)
    <2>1. Limit(s) \in Nat /\ Limit(s) > 0 /\ Limit(s) <= SegSize
      BY <1>2, <1>4, Constants DEF Limit
    <2>2. PICK seg : seg = GetNewSegment(s.app, Limit(s))
      OBVIOUS
    <2>3. Takes(s.app, Limit(s), seg)
      <3>1. \A i \in 1..Len(s.app) : s.app[i] # <<>>
        BY DEF Good, Uncut
      <3>2. s.app # <<>>
        BY <1>4
      <3>3. QED BY <1>1, <2>1, <2>2, <3>1, <3>2, SegmentTakes
    <2>4. SendNext(s) = SendDataFrame(s, Limit(s))
      BY <1>4 DEF SendNext, Limit
    <2>5. SendDataFrame(s, Limit(s)) = IF Len(seg.bytes) + HeaderSize > s.room
                                       THEN Rejected(Taken(s, seg), seg)
                                       ELSE Accepted(s, seg)
      BY <2>2 DEF SendDataFrame, Taken, Accepted
    <2>6. Len(seg.bytes) + HeaderSize > s.room \/ Len(seg.bytes) + HeaderSize <= s.room
      <3>1. Len(seg.bytes) \in Int
        BY <2>3, LenProperties DEF Takes
      <3>2. s.room \in Int
        <4>1. s.room \in 0..(Modulus - 1)
          BY DEF Good, StreamRec
        <4>2. QED BY <4>1, Constants
      <3>3. QED BY <3>1, <3>2, Constants
    <2>7. CASE Len(seg.bytes) + HeaderSize > s.room
      BY <1>4, <2>1, <2>3, <2>4, <2>5, <2>7, RejectKeeps
    <2>8. CASE ~(Len(seg.bytes) + HeaderSize > s.room)
      BY <1>4, <2>1, <2>3, <2>4, <2>5, <2>6, <2>8, AcceptKeeps
    <2>9. QED BY <2>7, <2>8
  <1>5. QED BY <1>3, <1>4

\* The loop ends in a good state.
LEMMA SendAllKeeps ==
    ASSUME written \in 0..StreamBytes, large \in BOOLEAN, Good(Stream)
    PROVE  Good(SendAll)
  <1> DEFINE V == {s \in StreamRec : Good(s)}
             step == [w \in V \X (1..StreamBytes) |-> SendNext(w[1])]
             Eq(f) == f = [i \in 0..StreamBytes |-> IF i = 0 THEN Stream ELSE SendNext(f[i - 1])]
  <1>1. \A s : s \in V <=> Good(s)
    BY DEF Good
  <1>2. Stream \in V /\ \A s \in V : SendNext(s) \in V
    BY <1>1, SendNextKeeps
  <1>3. \A s \in V, i \in 1..StreamBytes : step[<<s, i>>] = SendNext(s)
    OBVIOUS
  <1>4. step \in [V \X (1..StreamBytes) -> V]
    BY <1>2
  <1> HIDE DEF V, step
  <1>5. StreamBytes \in Nat
    BY Constants
  <1>6. PICK f \in [0..StreamBytes -> V] : Recursive(f, StreamBytes, Stream, step)
    BY <1>2, <1>4, <1>5, RecursionExists
  <1>7. Eq(f)
    <2>1. \A i \in 0..StreamBytes : i # 0 => step[<<f[i - 1], i>>] = SendNext(f[i - 1])
      <3>1. ASSUME NEW i \in 0..StreamBytes, i # 0
            PROVE  i \in 1..StreamBytes /\ f[i - 1] \in V
        BY <1>5, <1>6, <3>1
      <3>2. QED BY <1>3, <3>1, Zenon
    <2>2. QED BY <1>6, <2>1 DEF Recursive
  <1>8. PICK g : g = CHOOSE h : Eq(h)
    OBVIOUS
  <1>9. g = [i \in 0..StreamBytes |-> IF i = 0 THEN Stream ELSE SendNext(g[i - 1])]
    BY <1>7, <1>8
  <1>10. SendAll = g[StreamBytes]
    BY <1>8 DEF SendAll
  <1>11. g[0] \in V /\ \A i \in 1..StreamBytes : g[i] = SendNext(g[i - 1])
    BY <1>2, <1>5, <1>9
  <1>12. \A i \in 1..StreamBytes : g[i - 1] \in V => g[i] \in V
    BY <1>2, <1>11
  <1>13. \A i \in 0..StreamBytes : g[i] \in V
    BY <1>5, <1>11, <1>12, RecursionIn
  <1>14. SendAll \in V
    BY <1>5, <1>10, <1>13
  <1>15. QED BY <1>1, <1>14

-----------------------------------------------------------------------------
\* The stream's state is one the loop may start from.
LEMMA StreamIsGood ==
    ASSUME TypeOK, StreamInv
    PROVE  Good(Stream)
  <1>1. PICK s : s = Stream
    OBVIOUS
  <1>2. /\ s.app = appList /\ s.list = sentList /\ s.buf = bufSent /\ s.size = sentSize
        /\ s.frames = frames /\ s.room = room /\ s.crashed = FALSE /\ s.stop = FALSE
    BY <1>1 DEF Stream
  <1>3. s \in StreamRec
    BY <1>1 DEF Stream, StreamRec, StreamFrames, TypeOK
  <1>4. Whole(s)
    BY <1>2 DEF Whole, Handed, StreamInv, ByteStream, TypeOK
  <1>5. Run(s.frames, s.size) /\ Uncut(s) /\ Grows(s)
    <2>1. Len(frames) <= Len(frames)
      <3>1. Len(frames) \in Nat
        BY LenProperties DEF TypeOK
      <3>2. QED BY <3>1
    <2>2. QED BY <1>2, <2>1 DEF StreamInv, Uncut, Grows
  <1>6. Counted(s)
    BY <1>2 DEF StreamInv, Counted
  <1>7. QED BY <1>1, <1>3, <1>4, <1>5, <1>6 DEF Good

\* The stream's event keeps its part of the invariant; the frames it adds are
\* behind those it gave before, and the room shrinks by what they take.
LEMMA HandKeepsStream ==
    ASSUME TypeOK, StreamInv, SendPendingData
    PROVE  /\ TypeOK' /\ StreamInv'
           /\ Len(frames) <= Len(frames') /\ \A i \in 1..Len(frames) : frames'[i] = frames[i]
           /\ room' + sentSize' + Len(frames') = room + sentSize + Len(frames)
           /\ sentSize' \in Nat /\ written' = written
  <1>1. written \in 0..StreamBytes /\ large \in BOOLEAN
    BY DEF TypeOK
  <1>2. PICK s : s = SendAll
    OBVIOUS
  <1>3. Good(s)
    BY <1>1, <1>2, StreamIsGood, SendAllKeeps
  <1>4. /\ appList' = s.app /\ sentList' = s.list /\ bufSent' = s.buf /\ sentSize' = s.size
        /\ frames' = s.frames /\ room' = s.room /\ crashed' = s.crashed
        /\ written' = written /\ large' = large /\ pending' = FALSE
    BY <1>2 DEF SendPendingData
  <1>5. /\ s.app \in Seq(Seq(Byte)) /\ s.list \in Seq(1..StreamBytes) /\ s.buf \in 0..(Modulus - 1)
        /\ s.size \in 0..StreamBytes /\ s.frames \in Seq(StreamFrames) /\ s.room \in 0..(Modulus - 1)
        /\ s.crashed \in BOOLEAN
    BY <1>3 DEF Good, StreamRec
  <1>6. Whole(s)
    BY <1>3 DEF Good
  <1>7. TypeOK'
    BY <1>1, <1>4, <1>5, <1>6 DEF TypeOK, Whole, StreamFrames
  <1>8. Run(frames', sentSize')
    BY <1>3, <1>4 DEF Good
  <1>9. \A i \in 1..Len(frames') : frames'[i].offset = Head(frames'[i].bytes)
    <2>1. ASSUME NEW i \in 1..Len(s.frames)
          PROVE  s.frames[i].offset = Head(s.frames[i].bytes)
      <3>1. s.frames[i] \in StreamFrames
        BY <1>5, ElementOfSeq
      <3>2. s.frames[i].bytes \in Seq(Byte) /\ s.frames[i].offset \in Byte
        BY <3>1 DEF StreamFrames
      <3>3. /\ s.frames[i].bytes # <<>>
            /\ \A j \in 1..Len(s.frames[i].bytes) : s.frames[i].bytes[j] = s.frames[i].offset + j - 1
        BY <1>3 DEF Good, Run
      <3>4. 1 \in 1..Len(s.frames[i].bytes) /\ Head(s.frames[i].bytes) = s.frames[i].bytes[1]
        BY <3>2, <3>3, EmptySeq
      <3>5. s.frames[i].offset \in Int
        BY <3>2, Constants DEF Byte
      <3>6. s.frames[i].bytes[1] = s.frames[i].offset + 1 - 1
        BY <3>3, <3>4
      <3>7. QED BY <3>4, <3>5, <3>6
    <2>2. QED BY <1>4, <2>1
  <1>10. ByteStream'
    BY <1>4, <1>6, <1>9 DEF Whole, Handed, ByteStream
  <1>11. StreamInv'
    <2>1. Uncut(s) /\ Counted(s)
      BY <1>3 DEF Good
    <2>2. QED BY <1>4, <1>8, <1>10, <2>1 DEF StreamInv, Uncut, Counted
  <1>12. s.size \in Nat
    BY <1>5, Constants
  <1>13. QED BY <1>3, <1>4, <1>7, <1>11, <1>12 DEF Good, Grows

\* The application's packet keeps the stream's part of the invariant.
LEMMA SendKeepsStream ==
    ASSUME TypeOK, StreamInv, NEW size \in AppSizes, Send(size)
    PROVE  TypeOK' /\ StreamInv'
  <1>1. size \in Nat /\ size > 0
    BY SendAssumption
  <1>2. /\ written \in 0..StreamBytes /\ written + size <= StreamBytes
        /\ sentList' = sentList /\ bufSent' = bufSent /\ sentSize' = sentSize
        /\ frames' = frames /\ room' = room /\ crashed' = crashed
        /\ pending' = (pending \/ Window(bufSent) > 0)
    BY DEF TypeOK, Send
  <1>3. CASE ~(size <= MaxBuffer - Len(FlattenSeq(appList)))
    <2>1. appList' = appList /\ written' = written /\ large' = large
      BY <1>3 DEF Send
    <2>2. QED BY <1>2, <2>1 DEF TypeOK, StreamInv, ByteStream
  <1>4. CASE size <= MaxBuffer - Len(FlattenSeq(appList))
    <2>1. PICK new : new = [i \in 1..size |-> written + i - 1]
      OBVIOUS
    <2>2. /\ appList' = Append(appList, new) /\ written' = written + size
          /\ large' = (large \/ size > SegSize)
      BY <1>4, <2>1 DEF Send
    <2>3. PICK w, B : w = written /\ B = StreamBytes /\ w \in Nat /\ B \in Nat /\ w + size <= B
      BY <1>2, Constants
    <2>4. new \in Seq(Byte) /\ Len(new) = size
      <3>1. \A i \in 1..size : w + i - 1 \in 0..(B - 1)
        BY <1>1, <2>3
      <3>2. new \in [1..size -> Byte]
        BY <2>1, <2>3, <3>1 DEF Byte
      <3>3. QED BY <1>1, <3>2, SeqDef, LenProperties
    <2>5. PICK A, H : A = FlattenSeq(appList) /\ H = Handed(frames)
      OBVIOUS
    <2>6. appList \in Seq(Seq(Byte)) /\ frames \in Seq(StreamFrames)
      BY DEF TypeOK, StreamFrames
    <2>7. /\ A \in Seq(Byte) /\ Len(A) \in Nat /\ H \in Seq(Byte) /\ Len(H) \in Nat
      BY <2>5, <2>6, FlatType, PayloadsType
    <2>8. FlattenSeq(appList') = A \o new
      <3>1. appList' = appList \o <<new>> /\ <<new>> \in Seq(Seq(Byte))
        BY <2>2, <2>4, <2>6, AppendIsConcat
      <3>2. FlattenSeq(appList \o <<new>>) = FlattenSeq(appList) \o FlattenSeq(<<new>>)
        BY <2>6, <3>1, FlatConcat
      <3>3. FlattenSeq(<<new>>) = new
        BY <2>4, FlatSmall
      <3>4. QED BY <2>5, <3>1, <3>2, <3>3
    <2>9. Len(FlattenSeq(appList')) <= MaxBuffer
      <3>1. Len(A \o new) = Len(A) + size
        BY <2>4, <2>7, ConcatProperties
      <3>2. size <= MaxBuffer - Len(A)
        BY <1>4, <2>5
      <3>3. QED BY <1>1, <2>7, <2>8, <3>1, <3>2, Constants
    <2>10. appList' \in Seq(Seq(Byte)) /\ written' \in 0..StreamBytes /\ large' \in BOOLEAN
      <3>1. appList' \in Seq(Seq(Byte))
        BY <2>2, <2>4, <2>6, AppendProperties
      <3>2. w + size \in 0..B
        BY <1>1, <2>3
      <3>3. QED BY <2>2, <2>3, <3>1, <3>2
    <2>11. TypeOK'
      BY <1>2, <2>9, <2>10 DEF TypeOK
    <2>12. H \o FlattenSeq(appList') = [i \in 1..written' |-> i - 1]
      <3>1. PICK h : h = H \o A
        OBVIOUS
      <3>2. h = [i \in 1..w |-> i - 1]
        BY <2>3, <2>5, <3>1 DEF StreamInv, ByteStream, Handed
      <3>3. h \in Seq(Byte) /\ Len(h) = w
        <4>1. h \in Seq(Byte)
          BY <2>7, <3>1, ConcatProperties
        <4>2. QED BY <2>3, <3>2, <4>1
      <3>4. (H \o A) \o new = H \o (A \o new)
        <4>1. H \in Seq(Byte) /\ A \in Seq(Byte) /\ new \in Seq(Byte)
          BY <2>4, <2>7
        <4>2. QED BY <4>1, ConcatAssociative
      <3>5. PICK c, d : c = h \o new /\ d = [i \in 1..(w + size) |-> i - 1]
        OBVIOUS
      <3>6. /\ c \in Seq(Byte) /\ Len(c) = w + size
            /\ \A i \in 1..(w + size) : c[i] = IF i <= w THEN h[i] ELSE new[i - w]
        BY <2>4, <3>3, <3>5, ConcatProperties
      <3>7. \A i \in 1..(w + size) : c[i] = i - 1
        <4>1. ASSUME NEW i \in 1..(w + size)
              PROVE  c[i] = i - 1
          <5>1. CASE i <= w
            BY <1>1, <2>3, <3>2, <3>6, <5>1
          <5>2. CASE ~(i <= w)
            <6>1. i - w \in 1..size /\ w + (i - w) - 1 = i - 1
              BY <1>1, <2>3, <5>2
            <6>2. new[i - w] = w + (i - w) - 1
              BY <2>1, <2>3, <6>1
            <6>3. QED BY <3>6, <5>2, <6>1, <6>2
          <5>3. QED BY <5>1, <5>2
        <4>2. QED BY <4>1
      <3>8. d \in Seq(Byte) /\ Len(d) = w + size /\ \A i \in 1..(w + size) : d[i] = i - 1
        <4>1. \A i \in 1..(w + size) : i - 1 \in 0..(B - 1)
          BY <1>1, <2>3
        <4>2. d \in [1..(w + size) -> Byte] /\ w + size \in Nat
          BY <1>1, <2>3, <3>5, <4>1 DEF Byte
        <4>3. d \in Seq(Byte) /\ Len(d) = w + size
          BY <4>2, SeqDef, LenProperties
        <4>4. QED BY <3>5, <4>3
      <3>9. c = d
        <4>1. \A i \in 1..Len(c) : c[i] = d[i]
          BY <3>6, <3>7, <3>8
        <4>2. QED BY <3>6, <3>8, <4>1, SeqEqual
      <3>10. QED BY <2>2, <2>3, <2>8, <3>1, <3>4, <3>5, <3>9
    <2>13. ByteStream'
      <3>1. Handed(frames') = H /\ frames' = frames /\ sentSize' = sentSize
        BY <1>2, <2>5
      <3>2. QED BY <2>5, <2>12, <3>1 DEF StreamInv, ByteStream, Handed
    <2>14. ASSUME NEW i \in 1..Len(appList')
           PROVE  appList'[i] # <<>> /\ (large' \/ Len(appList'[i]) <= SegSize)
      <3>1. PICK n : n = Len(appList) /\ n \in Nat
        BY <2>6, LenProperties
      <3>2. /\ Len(appList') = n + 1 /\ appList'[n + 1] = new
            /\ \A j \in 1..n : appList'[j] = appList[j]
        BY <2>2, <2>4, <2>6, <3>1, AppendProperties
      <3>3. CASE i = n + 1
        <4>1. new # <<>> /\ (large' \/ size <= SegSize)
          <5>1. size > SegSize \/ size <= SegSize
            BY <1>1, Constants
          <5>2. new # <<>>
            BY <1>1, <2>4
          <5>3. QED BY <2>2, <5>1, <5>2
        <4>2. QED BY <2>4, <3>2, <3>3, <4>1
      <3>4. CASE i \in 1..n
        BY <2>2, <3>1, <3>2, <3>4 DEF StreamInv
      <3>5. QED BY <3>1, <3>2, <3>3, <3>4
    <2>15. ~large' => ~large
      BY <2>2
    <2>16. StreamInv'
      BY <1>2, <2>13, <2>14, <2>15 DEF StreamInv
    <2>17. QED BY <2>11, <2>16
  <1>5. QED BY <1>3, <1>4

-----------------------------------------------------------------------------
\* The operators of the library are the same in the buffer's module.
LEMMA SameOperators ==
    ASSUME NEW s
    PROVE  /\ Tx!FlattenSeq(s) = FlattenSeq(s)
           /\ \A i, e : Tx!InsertAt(s, i, e) = InsertAt(s, i, e)
           /\ \A i : Tx!RemoveAt(s, i) = RemoveAt(s, i)
  BY DEF FlattenSeq, Tx!FlattenSeq, InsertAt, Tx!InsertAt, RemoveAt, Tx!RemoveAt

\* Items of which the lists consist: those of the queue, of stream 0, and of the
\* sent list.
Packet == Seq(Tx!AnyUnit)
QueueItem == [retx : BOOLEAN, key : Nat, packet : Packet]
ZeroItem == [packet : Packet]
SentItem == [zero : BOOLEAN, packet : Packet]
HasPackets(R) == \A x \in R : x.packet \in Packet

\* All of them hold a packet.
LEMMA ItemsHold == HasPackets(QueueItem) /\ HasPackets(ZeroItem) /\ HasPackets(SentItem)
  BY DEF HasPackets, QueueItem, ZeroItem, SentItem

\* The packets of a list.
Packets(q) == [i \in 1..Len(q) |-> q[i].packet]

\* Their units.
LEMMA UnitsIs ==
    ASSUME NEW R, HasPackets(R), NEW q \in Seq(R)
    PROVE  /\ Packets(q) \in Seq(Packet) /\ Len(Packets(q)) = Len(q)
           /\ Tx!Units(q) = FlattenSeq(Packets(q))
           /\ Tx!Units(q) \in Packet /\ Len(Tx!Units(q)) \in Nat
  <1>1. PICK n : n = Len(q) /\ n \in Nat
    BY LenProperties
  <1>2. \A i \in 1..n : q[i].packet \in Packet
    <2>1. \A i \in 1..n : q[i] \in R
      BY <1>1, ElementOfSeq
    <2>2. QED BY <2>1 DEF HasPackets
  <1>3. Packets(q) \in [1..n -> Packet]
    BY <1>1, <1>2 DEF Packets
  <1>4. Packets(q) \in Seq(Packet) /\ Len(Packets(q)) = n
    BY <1>1, <1>3, SeqDef, LenProperties
  <1>5. Tx!Units(q) = FlattenSeq(Packets(q))
    BY SameOperators DEF Tx!Units, Packets
  <1>6. FlattenSeq(Packets(q)) \in Packet /\ Len(FlattenSeq(Packets(q))) \in Nat
    BY <1>4, FlatType DEF Packet
  <1>7. QED BY <1>1, <1>4, <1>5, <1>6

\* The units of two lists.
LEMMA UnitsConcat ==
    ASSUME NEW R, HasPackets(R), NEW q \in Seq(R), NEW r \in Seq(R)
    PROVE  Tx!Units(q \o r) = Tx!Units(q) \o Tx!Units(r)
  <1>1. PICK c, m, n : c = q \o r /\ m = Len(q) /\ n = Len(r) /\ m \in Nat /\ n \in Nat
    BY LenProperties
  <1>2. /\ c \in Seq(R) /\ Len(c) = m + n
        /\ \A i \in 1..(m + n) : c[i] = IF i <= m THEN q[i] ELSE r[i - m]
    BY <1>1, ConcatProperties
  <1>3. PICK a, b, d : a = Packets(q) /\ b = Packets(r) /\ d = Packets(c)
    OBVIOUS
  <1>4. /\ a \in Seq(Packet) /\ Len(a) = m /\ b \in Seq(Packet) /\ Len(b) = n
        /\ d \in Seq(Packet) /\ Len(d) = m + n
    BY <1>1, <1>2, <1>3, UnitsIs
  <1>5. /\ \A i \in 1..m : a[i] = q[i].packet
        /\ \A i \in 1..n : b[i] = r[i].packet
        /\ \A i \in 1..(m + n) : d[i] = c[i].packet
    BY <1>1, <1>2, <1>3 DEF Packets
  <1>6. PICK e : e = a \o b
    OBVIOUS
  <1>7. /\ e \in Seq(Packet) /\ Len(e) = m + n
        /\ \A i \in 1..(m + n) : e[i] = IF i <= m THEN a[i] ELSE b[i - m]
    BY <1>4, <1>6, ConcatProperties
  <1>8. ASSUME NEW i \in 1..(m + n)
        PROVE  d[i] = e[i]
    <2>1. CASE i <= m
      BY <1>1, <1>2, <1>5, <1>7, <2>1
    <2>2. CASE ~(i <= m)
      <3>1. i - m \in 1..n
        BY <1>1, <2>2
      <3>2. QED BY <1>2, <1>5, <1>7, <2>2, <3>1
    <2>3. QED BY <2>1, <2>2
  <1>9. d = e
    BY <1>4, <1>7, <1>8, SeqEqual
  <1>10. FlattenSeq(a \o b) = FlattenSeq(a) \o FlattenSeq(b)
    BY <1>4, FlatConcat DEF Packet
  <1>11. Tx!Units(q) = FlattenSeq(a) /\ Tx!Units(r) = FlattenSeq(b) /\ Tx!Units(c) = FlattenSeq(d)
    BY <1>2, <1>3, UnitsIs
  <1>12. QED BY <1>1, <1>6, <1>9, <1>10, <1>11

\* The units of no item and of one.
LEMMA UnitsSmall ==
    ASSUME NEW R, HasPackets(R), NEW x \in R
    PROVE  Tx!Units(<<>>) = <<>> /\ Tx!Units(<<x>>) = x.packet
  <1>1. Tx!Units(<<>>) = <<>>
    <2>1. <<>> \in Seq(R) /\ Len(<<>>) = 0
      BY EmptySeq
    <2>2. Packets(<<>>) \in Seq(Packet) /\ Len(Packets(<<>>)) = 0 /\ Tx!Units(<<>>) = FlattenSeq(Packets(<<>>))
      BY <2>1, UnitsIs
    <2>3. Packets(<<>>) = <<>>
      BY <2>2, EmptySeq
    <2>4. QED BY <2>2, <2>3 DEF FlattenSeq
  <1>2. x.packet \in Packet
    BY DEF HasPackets
  <1>3. <<x>> \in Seq(R) /\ Len(<<x>>) = 1 /\ <<x>>[1] = x
    OBVIOUS
  <1>4. Packets(<<x>>) \in Seq(Packet) /\ Len(Packets(<<x>>)) = 1 /\ Tx!Units(<<x>>) = FlattenSeq(Packets(<<x>>))
    BY <1>3, UnitsIs
  <1>5. Packets(<<x>>)[1] = x.packet
    BY <1>3 DEF Packets
  <1>6. Packets(<<x>>) = <<x.packet>>
    <2>1. PICK a, b : a = Packets(<<x>>) /\ b = <<x.packet>>
      OBVIOUS
    <2>2. b \in Seq(Packet) /\ Len(b) = 1 /\ b[1] = x.packet
      BY <1>2, <2>1
    <2>3. \A i \in 1..Len(a) : a[i] = b[i]
      BY <1>4, <1>5, <2>1, <2>2
    <2>4. QED BY <1>4, <2>1, <2>2, <2>3, SeqEqual
  <1>7. FlattenSeq(<<x.packet>>) = x.packet
    BY <1>2, FlatSmall DEF Packet
  <1>8. QED BY <1>1, <1>4, <1>6, <1>7

-----------------------------------------------------------------------------
\* The number of bytes among units.
Count(u) == Cardinality(Tx!Places(u))

\* The bytes of two sequences of units.
LEMMA BytesConcat ==
    ASSUME NEW u \in Packet, NEW v \in Packet
    PROVE  /\ Count(u) \in Nat /\ Count(v) \in Nat
           /\ Count(u \o v) = Count(u) + Count(v)
           /\ Tx!Numbers(u \o v) = Tx!Numbers(u) \cup Tx!Numbers(v)
  <1>1. PICK w, m, n : w = u \o v /\ m = Len(u) /\ n = Len(v) /\ m \in Nat /\ n \in Nat
    BY LenProperties DEF Packet
  <1>2. /\ Len(w) = m + n
        /\ \A i \in 1..(m + n) : w[i] = IF i <= m THEN u[i] ELSE v[i - m]
    BY <1>1, ConcatProperties DEF Packet
  <1>3. PICK A, B, C : A = Tx!Places(u) /\ B = Tx!Places(v) /\ C = Tx!Places(w)
    OBVIOUS
  <1>4. /\ A = {i \in 1..m : u[i].kind = "byte"} /\ B = {i \in 1..n : v[i].kind = "byte"}
        /\ C = {i \in 1..(m + n) : w[i].kind = "byte"}
    BY <1>1, <1>2, <1>3 DEF Tx!Places
  <1>5. IsFiniteSet(A) /\ IsFiniteSet(B) /\ Cardinality(A) \in Nat /\ Cardinality(B) \in Nat
    <2>1. IsFiniteSet(1..m) /\ IsFiniteSet(1..n)
      BY <1>1, FS_Interval
    <2>2. A \subseteq 1..m /\ B \subseteq 1..n
      BY <1>4
    <2>3. IsFiniteSet(A) /\ IsFiniteSet(B)
      BY <2>1, <2>2, FS_Subset
    <2>4. QED BY <2>3, FS_CardinalityType
  <1> DEFINE D == {i + m : i \in B}
  <1>6. C = A \cup D /\ A \cap D = {}
    <2>1. ASSUME NEW i \in C
          PROVE  i \in A \cup D
      <3>1. i \in 1..(m + n) /\ w[i].kind = "byte"
        BY <1>4
      <3>2. CASE i <= m
        BY <1>1, <1>2, <1>4, <3>1, <3>2
      <3>3. CASE ~(i <= m)
        <4>1. i - m \in 1..n /\ (i - m) + m = i /\ w[i] = v[i - m]
          BY <1>1, <1>2, <3>1, <3>3
        <4>2. i - m \in B
          BY <1>4, <3>1, <4>1
        <4>3. QED BY <4>1, <4>2
      <3>4. QED BY <3>2, <3>3
    <2>2. ASSUME NEW i \in A
          PROVE  i \in C
      BY <1>1, <1>2, <1>4
    <2>3. ASSUME NEW i \in B
          PROVE  i + m \in C /\ i + m \notin A
      <3>1. i \in 1..n /\ v[i].kind = "byte"
        BY <1>4
      <3>2. i + m \in 1..(m + n) /\ ~(i + m <= m) /\ (i + m) - m = i
        BY <1>1, <3>1
      <3>3. w[i + m] = v[i]
        BY <1>2, <3>2
      <3>4. QED BY <1>1, <1>4, <3>1, <3>2, <3>3
    <2>4. QED BY <2>1, <2>2, <2>3
  <1>7. IsFiniteSet(D) /\ Cardinality(D) = Cardinality(B)
    <2>1. PICK f : f = [i \in B |-> i + m]
      OBVIOUS
    <2>2. B \subseteq Int
      BY <1>4
    <2>3. f \in Bijection(B, D)
      <3>1. f \in [B -> D] /\ \A y \in D : \E x \in B : f[x] = y
        BY <2>1
      <3>2. \A x, y \in B : f[x] = f[y] => x = y
        BY <1>1, <2>1, <2>2
      <3>3. f \in Injection(B, D)
        BY <3>1, <3>2 DEF Injection, IsInjective
      <3>4. f \in Surjection(B, D)
        BY <3>1 DEF Surjection
      <3>5. QED BY <3>3, <3>4 DEF Bijection
    <2>4. ExistsBijection(B, D)
      BY <2>3 DEF ExistsBijection
    <2>5. QED BY <1>5, <2>4, FS_Bijection, FS_SameCardinalityBij
  <1> HIDE DEF D
  <1>8. Cardinality(C) = Cardinality(A) + Cardinality(B)
    <2>1. Cardinality(A \cup D) = Cardinality(A) + Cardinality(D) - Cardinality(A \cap D)
      BY <1>5, <1>7, FS_Union
    <2>2. Cardinality(A \cap D) = 0
      BY <1>6, FS_EmptySet
    <2>3. QED BY <1>5, <1>6, <1>7, <2>1, <2>2
  <1>9. Tx!Numbers(w) = Tx!Numbers(u) \cup Tx!Numbers(v)
    <2>1. /\ Tx!Numbers(u) = {u[i].n : i \in A} /\ Tx!Numbers(v) = {v[i].n : i \in B}
          /\ Tx!Numbers(w) = {w[i].n : i \in C}
      BY <1>3 DEF Tx!Numbers
    <2>2. ASSUME NEW i \in A
          PROVE  i \in C /\ w[i] = u[i]
      BY <1>1, <1>2, <1>4
    <2>3. ASSUME NEW i \in B
          PROVE  i + m \in C /\ w[i + m] = v[i]
      <3>1. i \in 1..n /\ i + m \in D
        BY <1>4 DEF D
      <3>2. i + m \in 1..(m + n) /\ ~(i + m <= m) /\ (i + m) - m = i
        BY <1>1, <3>1
      <3>3. QED BY <1>2, <1>6, <3>1, <3>2
    <2>4. ASSUME NEW i \in C
          PROVE  w[i].n \in Tx!Numbers(u) \cup Tx!Numbers(v)
      <3>1. CASE i \in A
        BY <2>1, <2>2, <3>1
      <3>2. CASE i \in D
        <4>1. PICK j \in B : i = j + m
          BY <3>2 DEF D
        <4>2. QED BY <2>1, <2>3, <4>1
      <3>3. QED BY <1>6, <3>1, <3>2
    <2>5. Tx!Numbers(u) \subseteq Tx!Numbers(w)
      BY <2>1, <2>2
    <2>6. Tx!Numbers(v) \subseteq Tx!Numbers(w)
      BY <2>1, <2>3
    <2>7. Tx!Numbers(w) \subseteq Tx!Numbers(u) \cup Tx!Numbers(v)
      BY <2>1, <2>4
    <2>8. QED BY <2>5, <2>6, <2>7
  <1>10. QED BY <1>1, <1>3, <1>5, <1>8, <1>9 DEF Count

\* The list c holds what the list q holds and the units u.
Gains(c, q, u) ==
    /\ Len(Tx!Units(c)) = Len(Tx!Units(q)) + Len(u)
    /\ Count(Tx!Units(c)) = Count(Tx!Units(q)) + Count(u)
    /\ Tx!Numbers(Tx!Units(c)) = Tx!Numbers(Tx!Units(q)) \cup Tx!Numbers(u)

\* An item is inserted into a list.
LEMMA InsertedAt ==
    ASSUME NEW R, HasPackets(R), NEW q \in Seq(R), NEW x \in R, NEW p \in 1..(Len(q) + 1)
    PROVE  /\ InsertAt(q, p, x) \in Seq(R) /\ Len(InsertAt(q, p, x)) = Len(q) + 1
           /\ \A i \in 1..(Len(q) + 1) :
                  InsertAt(q, p, x)[i] = IF i < p THEN q[i] ELSE IF i = p THEN x ELSE q[i - 1]
           /\ Gains(InsertAt(q, p, x), q, x.packet)
  <1>1. PICK n : n = Len(q) /\ n \in Nat
    BY LenProperties
  <1>2. PICK a, b, o : a = SubSeq(q, 1, p - 1) /\ b = SubSeq(q, p, n) /\ o = <<x>>
    OBVIOUS
  <1>3. \A i \in 1..n : q[i] \in R
    BY <1>1, ElementOfSeq
  <1>4. a \in Seq(R) /\ Len(a) = p - 1 /\ \A i \in 1..(p - 1) : a[i] = q[i]
    <2>1. 1 \in Int /\ p - 1 \in Int /\ \A i \in 1..(p - 1) : q[i] \in R
      BY <1>1, <1>3
    <2>2. /\ a \in Seq(R) /\ Len(a) = IF 1 <= p - 1 THEN (p - 1) - 1 + 1 ELSE 0
          /\ \A i \in 1..((p - 1) - 1 + 1) : a[i] = q[1 + i - 1]
      BY <1>2, <2>1, SubSeqProperties
    <2>3. QED BY <1>1, <2>2
  <1>5. b \in Seq(R) /\ Len(b) = n - p + 1 /\ \A i \in 1..(n - p + 1) : b[i] = q[p + i - 1]
    <2>1. p \in Int /\ n \in Int /\ \A i \in p..n : q[i] \in R
      BY <1>1, <1>3
    <2>2. /\ b \in Seq(R) /\ Len(b) = IF p <= n THEN n - p + 1 ELSE 0
          /\ \A i \in 1..(n - p + 1) : b[i] = q[p + i - 1]
      BY <1>2, <2>1, SubSeqProperties
    <2>3. QED BY <1>1, <2>2
  <1>6. o \in Seq(R) /\ Len(o) = 1 /\ o[1] = x
    BY <1>2
  <1>7. a \o b = q
    <2>1. 1 \in 1..Len(q) + 1 /\ p - 1 \in 1 - 1..Len(q) /\ n \in p - 1..Len(q) /\ (p - 1) + 1 = p
      BY <1>1
    <2>2. SubSeq(q, 1, p - 1) \o SubSeq(q, (p - 1) + 1, n) = SubSeq(q, 1, n)
      BY <2>1, ConcatAdjacentSubSeq
    <2>3. QED BY <1>1, <1>2, <2>1, <2>2, SubSeqFull
  <1>8. PICK d, c : d = a \o o /\ c = d \o b
    OBVIOUS
  <1>9. InsertAt(q, p, x) = c
    BY <1>1, <1>2, <1>8 DEF InsertAt
  <1>10. /\ d \in Seq(R) /\ Len(d) = p
         /\ \A i \in 1..p : d[i] = IF i <= p - 1 THEN a[i] ELSE o[i - (p - 1)]
    <2>1. (p - 1) + 1 = p
      BY <1>1
    <2>2. /\ d \in Seq(R) /\ Len(d) = Len(a) + Len(o)
          /\ \A i \in 1..(Len(a) + Len(o)) : d[i] = IF i <= Len(a) THEN a[i] ELSE o[i - Len(a)]
      BY <1>4, <1>6, <1>8, ConcatProperties
    <2>3. Len(a) + Len(o) = p
      BY <1>4, <1>6, <2>1
    <2>4. QED BY <1>4, <2>2, <2>3
  <1>11. /\ c \in Seq(R) /\ Len(c) = n + 1
         /\ \A i \in 1..(n + 1) : c[i] = IF i <= p THEN d[i] ELSE b[i - p]
    <2>1. p + (n - p + 1) = n + 1
      BY <1>1
    <2>2. QED BY <1>5, <1>8, <1>10, <2>1, ConcatProperties, SMTT(30)
  <1>12. ASSUME NEW i \in 1..(n + 1)
         PROVE  c[i] = IF i < p THEN q[i] ELSE IF i = p THEN x ELSE q[i - 1]
    <2>1. CASE i < p
      <3>1. i \in 1..(p - 1) /\ i \in 1..p /\ i <= p /\ i <= p - 1
        BY <1>1, <2>1
      <3>2. QED BY <1>4, <1>10, <1>11, <2>1, <3>1
    <2>2. CASE i = p
      <3>1. i <= p /\ i \in 1..p /\ ~(i <= p - 1) /\ i - (p - 1) = 1 /\ ~(i < p)
        BY <1>1, <2>2
      <3>2. QED BY <1>6, <1>10, <1>11, <2>2, <3>1
    <2>3. CASE i > p
      <3>1. ~(i <= p) /\ i - p \in 1..(n - p + 1) /\ p + (i - p) - 1 = i - 1 /\ ~(i < p) /\ i # p
        BY <1>1, <2>3
      <3>2. c[i] = b[i - p] /\ b[i - p] = q[p + (i - p) - 1]
        BY <1>5, <1>11, <3>1
      <3>3. QED BY <3>1, <3>2
    <2>4. QED BY <1>1, <2>1, <2>2, <2>3
  <1>13. Gains(c, q, x.packet)
    <2>1. PICK ua, ub, ux : ua = Tx!Units(a) /\ ub = Tx!Units(b) /\ ux = x.packet
      OBVIOUS
    <2>2. /\ ua \in Packet /\ ub \in Packet /\ ux \in Packet
          /\ Len(ua) \in Nat /\ Len(ub) \in Nat /\ Len(ux) \in Nat
      BY <1>4, <1>5, <2>1, UnitsIs, LenProperties DEF HasPackets, Packet
    <2>3. Tx!Units(q) = ua \o ub
      BY <1>4, <1>5, <1>7, <2>1, UnitsConcat
    <2>4. Tx!Units(d) = ua \o ux
      <3>1. Tx!Units(a \o o) = Tx!Units(a) \o Tx!Units(o)
        BY <1>4, <1>6, UnitsConcat
      <3>2. Tx!Units(o) = ux
        BY <1>2, <2>1, UnitsSmall
      <3>3. QED BY <1>8, <2>1, <3>1, <3>2
    <2>5. Tx!Units(c) = (ua \o ux) \o ub
      <3>1. Tx!Units(d \o b) = Tx!Units(d) \o Tx!Units(b)
        BY <1>5, <1>10, UnitsConcat
      <3>2. QED BY <1>8, <2>1, <2>4, <3>1
    <2>6. PICK ud : ud = ua \o ux
      OBVIOUS
    <2>7. ud \in Packet /\ Len(ud) = Len(ua) + Len(ux)
      BY <2>2, <2>6, ConcatProperties DEF Packet
    <2>8. Len(ud \o ub) = Len(ud) + Len(ub) /\ Len(ua \o ub) = Len(ua) + Len(ub)
      BY <2>2, <2>7, ConcatProperties DEF Packet
    <2>9. /\ Count(ua) \in Nat /\ Count(ub) \in Nat /\ Count(ux) \in Nat /\ Count(ud) \in Nat
          /\ Count(ud) = Count(ua) + Count(ux)
          /\ Count(ud \o ub) = Count(ud) + Count(ub)
          /\ Count(ua \o ub) = Count(ua) + Count(ub)
          /\ Tx!Numbers(ud) = Tx!Numbers(ua) \cup Tx!Numbers(ux)
          /\ Tx!Numbers(ud \o ub) = Tx!Numbers(ud) \cup Tx!Numbers(ub)
          /\ Tx!Numbers(ua \o ub) = Tx!Numbers(ua) \cup Tx!Numbers(ub)
      BY <2>2, <2>6, <2>7, BytesConcat
    <2>10. Len(ud \o ub) = Len(ua \o ub) + Len(ux)
      BY <2>2, <2>7, <2>8
    <2>11. Count(ud \o ub) = Count(ua \o ub) + Count(ux)
      BY <2>9
    <2>12. Tx!Numbers(ud \o ub) = Tx!Numbers(ua \o ub) \cup Tx!Numbers(ux)
      BY <2>9
    <2>13. QED BY <2>1, <2>3, <2>5, <2>6, <2>10, <2>11, <2>12 DEF Gains
  <1>14. QED BY <1>1, <1>9, <1>11, <1>12, <1>13

\* The item a leaves the queue before a new item.
Ahead(a, item, first) == Tx!Before(a, item) \/ (~first /\ ~Tx!Before(item, a))

\* Where the scheduler puts an item.
LEMMA InsertIs ==
    ASSUME NEW q \in Seq(QueueItem), NEW item, NEW first
    PROVE  \E p \in 1..(Len(q) + 1) : /\ Tx!Insert(q, item, first) = InsertAt(q, p, item)
                                      /\ \A j \in 1..(p - 1) : Ahead(q[j], item, first)
                                      /\ p <= Len(q) => ~Ahead(q[p], item, first)
  <1>1. PICK n : n = Len(q) /\ n \in Nat
    BY LenProperties
  <1> DEFINE ahead(i) == Tx!Before(q[i], item) \/ (~first /\ ~Tx!Before(item, q[i]))
             P(i) == (\A j \in 1..(i - 1) : ahead(j)) /\ (i <= Len(q) => ~ahead(i))
             A == {i \in 1..n : ahead(i)}
  <1>2. \E i \in 1..(n + 1) : (\A j \in 1..(i - 1) : j \in A) /\ (i <= n => i \notin A)
    <2> HIDE DEF A
    <2>1. QED BY <1>1, FirstOutside
  <1>3. \E i \in 1..(Len(q) + 1) : P(i)
    <2>1. PICK i \in 1..(n + 1) : (\A j \in 1..(i - 1) : j \in A) /\ (i <= n => i \notin A)
      BY <1>2
    <2>2. i <= n => ~ahead(i)
      BY <1>1, <2>1
    <2>3. QED BY <1>1, <2>1, <2>2
  <1>4. PICK p : p = CHOOSE i \in 1..(Len(q) + 1) : P(i)
    OBVIOUS
  <1>5. p \in 1..(Len(q) + 1) /\ P(p)
    BY <1>3, <1>4
  <1>6. Tx!Insert(q, item, first) = InsertAt(q, p, item)
    BY <1>4, SameOperators DEF Tx!Insert
  <1>7. QED BY <1>5, <1>6 DEF Ahead

\* Where the sent list puts a packet.
LEMMA RecordIs ==
    ASSUME NEW list \in Seq(SentItem), NEW item
    PROVE  \E p \in 1..(Len(list) + 1) : Tx!Record(list, item) = InsertAt(list, p, item)
  <1>1. PICK n : n = Len(list) /\ n \in Nat
    BY LenProperties
  <1> DEFINE ahead(i) == Head(list[i].packet).n <= Head(item.packet).n
             P(i) == (\A j \in 1..(i - 1) : ahead(j)) /\ (i <= Len(list) => ~ahead(i))
             A == {i \in 1..n : ahead(i)}
  <1>2. \E i \in 1..(n + 1) : (\A j \in 1..(i - 1) : j \in A) /\ (i <= n => i \notin A)
    <2> HIDE DEF A
    <2>1. QED BY <1>1, FirstOutside
  <1>3. \E i \in 1..(Len(list) + 1) : P(i)
    <2>1. PICK i \in 1..(n + 1) : (\A j \in 1..(i - 1) : j \in A) /\ (i <= n => i \notin A)
      BY <1>2
    <2>2. i <= n => ~ahead(i)
      BY <1>1, <2>1
    <2>3. QED BY <1>1, <2>1, <2>2
  <1>4. PICK p : p = CHOOSE i \in 1..(Len(list) + 1) : P(i)
    OBVIOUS
  <1>5. p \in 1..(Len(list) + 1) /\ P(p)
    BY <1>3, <1>4
  <1>6. Tx!Record(list, item) = InsertAt(list, p, item)
    BY <1>4, SameOperators DEF Tx!Record
  <1>7. QED BY <1>5, <1>6

-----------------------------------------------------------------------------
\* The first k items of a list and the rest.
LEMMA ListSplit ==
    ASSUME NEW R, HasPackets(R), NEW q \in Seq(R), NEW k \in 0..Len(q)
    PROVE  /\ SubSeq(q, 1, k) \in Seq(R) /\ Len(SubSeq(q, 1, k)) = k
           /\ \A i \in 1..k : SubSeq(q, 1, k)[i] = q[i]
           /\ SubSeq(q, k + 1, Len(q)) \in Seq(R)
           /\ Len(SubSeq(q, k + 1, Len(q))) = Len(q) - k
           /\ \A i \in 1..(Len(q) - k) : SubSeq(q, k + 1, Len(q))[i] = q[k + i]
           /\ SubSeq(q, 1, k) \o SubSeq(q, k + 1, Len(q)) = q
           /\ Tx!Units(q) = Tx!Units(SubSeq(q, 1, k)) \o Tx!Units(SubSeq(q, k + 1, Len(q)))
  <1>1. PICK n, a, b : n = Len(q) /\ n \in Nat /\ a = SubSeq(q, 1, k) /\ b = SubSeq(q, k + 1, n)
    BY LenProperties
  <1>2. \A i \in 1..n : q[i] \in R
    BY <1>1, ElementOfSeq
  <1>3. a \in Seq(R) /\ Len(a) = k /\ \A i \in 1..k : a[i] = q[i]
    <2>1. 1 \in Int /\ k \in Int /\ \A i \in 1..k : q[i] \in R
      BY <1>1, <1>2
    <2>2. /\ a \in Seq(R) /\ Len(a) = IF 1 <= k THEN k - 1 + 1 ELSE 0
          /\ \A i \in 1..(k - 1 + 1) : a[i] = q[1 + i - 1]
      BY <1>1, <2>1, SubSeqProperties
    <2>3. QED BY <1>1, <2>2
  <1>4. b \in Seq(R) /\ Len(b) = n - k /\ \A i \in 1..(n - k) : b[i] = q[k + i]
    <2>1. k + 1 \in Int /\ n \in Int /\ \A i \in (k + 1)..n : q[i] \in R
      BY <1>1, <1>2
    <2>2. /\ b \in Seq(R) /\ Len(b) = IF k + 1 <= n THEN n - (k + 1) + 1 ELSE 0
          /\ \A i \in 1..(n - (k + 1) + 1) : b[i] = q[(k + 1) + i - 1]
      BY <1>1, <2>1, SubSeqProperties
    <2>3. QED BY <1>1, <2>2
  <1>5. a \o b = q
    <2>1. 1 \in 1..Len(q) + 1 /\ k \in 1 - 1..Len(q) /\ n \in k..Len(q)
      BY <1>1
    <2>2. SubSeq(q, 1, k) \o SubSeq(q, k + 1, n) = SubSeq(q, 1, n)
      BY <2>1, ConcatAdjacentSubSeq
    <2>3. QED BY <1>1, <2>2, SubSeqFull
  <1>6. Tx!Units(a \o b) = Tx!Units(a) \o Tx!Units(b)
    BY <1>3, <1>4, UnitsConcat
  <1>7. QED BY <1>1, <1>3, <1>4, <1>5, <1>6

\* One item more.
LEMMA UnitsNext ==
    ASSUME NEW R, HasPackets(R), NEW q \in Seq(R), NEW k \in Nat, k < Len(q)
    PROVE  /\ q[k + 1] \in R /\ q[k + 1].packet \in Packet
           /\ Tx!Units(SubSeq(q, 1, k + 1)) = Tx!Units(SubSeq(q, 1, k)) \o q[k + 1].packet
           /\ Tx!Units(SubSeq(q, k + 1, Len(q)))
                  = q[k + 1].packet \o Tx!Units(SubSeq(q, k + 2, Len(q)))
  <1>1. PICK n : n = Len(q) /\ n \in Nat
    BY LenProperties
  <1>2. k \in 0..Len(q) /\ k + 1 \in 0..Len(q) /\ k + 1 \in 1..Len(q) /\ (k + 1) + 1 = k + 2
    BY <1>1
  <1>3. q[k + 1] \in R /\ q[k + 1].packet \in Packet
    BY <1>2, ElementOfSeq DEF HasPackets
  <1>4. PICK a, b, x, o : /\ a = SubSeq(q, 1, k) /\ b = SubSeq(q, k + 2, Len(q))
                          /\ x = q[k + 1] /\ o = <<x>>
    OBVIOUS
  <1>5. a \in Seq(R) /\ b \in Seq(R) /\ o \in Seq(R)
    BY <1>2, <1>3, <1>4, ListSplit
  <1>6. SubSeq(q, 1, k + 1) = a \o o
    <2>1. 1 \in 1..Len(q) /\ k + 1 \in 1..Len(q) /\ (k + 1) - 1 = k
      BY <1>1, <1>2
    <2>2. SubSeq(q, 1, k + 1) = SubSeq(q, 1, (k + 1) - 1) \o <<q[k + 1]>>
      BY <2>1, SubSeqRecursiveSecond
    <2>3. QED BY <1>4, <2>1, <2>2
  <1>7. SubSeq(q, k + 1, Len(q)) = o \o b
    <2>1. k + 1 \in 1..Len(q) /\ Len(q) \in k + 1..Len(q)
      BY <1>1, <1>2
    <2>2. SubSeq(q, k + 1, Len(q)) = <<q[k + 1]>> \o SubSeq(q, (k + 1) + 1, Len(q))
      BY <2>1, SubSeqRecursiveFirst
    <2>3. QED BY <1>2, <1>4, <2>2
  <1>8. Tx!Units(a \o o) = Tx!Units(a) \o Tx!Units(o) /\ Tx!Units(o \o b) = Tx!Units(o) \o Tx!Units(b)
    BY <1>5, UnitsConcat
  <1>9. Tx!Units(o) = x.packet
    BY <1>3, <1>4, UnitsSmall
  <1>10. QED BY <1>3, <1>4, <1>6, <1>7, <1>8, <1>9

\* As many whole items as fit in a number of bytes.
LEMMA UnitsFit ==
    ASSUME NEW R, HasPackets(R), NEW q \in Seq(R), NEW size \in Nat
    PROVE  \E k \in 0..Len(q) :
               /\ Len(Tx!Units(SubSeq(q, 1, k))) <= size
               /\ k < Len(q) => Len(Tx!Units(SubSeq(q, 1, k + 1))) > size
  <1>1. PICK n, p : n = Len(q) /\ n \in Nat /\ p = Packets(q)
    BY LenProperties
  <1>2. p \in Seq(Packet) /\ Len(p) = n
    BY <1>1, UnitsIs
  <1>3. ASSUME NEW k \in 0..n
        PROVE  Tx!Units(SubSeq(q, 1, k)) = FlattenSeq(SubSeq(p, 1, k))
    <2>1. PICK a : a = SubSeq(q, 1, k)
      OBVIOUS
    <2>2. a \in Seq(R) /\ Len(a) = k /\ \A i \in 1..k : a[i] = q[i]
      BY <1>1, <2>1, ListSplit
    <2>3. PICK b, c : b = Packets(a) /\ c = SubSeq(p, 1, k)
      OBVIOUS
    <2>4. b \in Seq(Packet) /\ Len(b) = k /\ Tx!Units(a) = FlattenSeq(b)
      BY <2>2, <2>3, UnitsIs
    <2>5. c \in Seq(Packet) /\ Len(c) = k /\ \A i \in 1..k : c[i] = p[i]
      <3>1. 1 \in Int /\ k \in Int /\ \A i \in 1..k : p[i] \in Packet
        BY <1>1, <1>2, ElementOfSeq
      <3>2. /\ c \in Seq(Packet) /\ Len(c) = IF 1 <= k THEN k - 1 + 1 ELSE 0
            /\ \A i \in 1..(k - 1 + 1) : c[i] = p[1 + i - 1]
        BY <2>3, <3>1, SubSeqProperties
      <3>3. QED BY <1>1, <3>2
    <2>6. \A i \in 1..k : b[i] = c[i]
      BY <1>1, <2>2, <2>3, <2>5 DEF Packets
    <2>7. b = c
      BY <2>4, <2>5, <2>6, SeqEqual
    <2>8. QED BY <2>1, <2>3, <2>4, <2>7
  <1>4. PICK k \in 0..Len(p) : Fits(p, size, k)
    BY <1>2, FitsExists DEF Packet
  <1>5. k \in 0..n /\ (k < n => k + 1 \in 0..n)
    BY <1>1, <1>2
  <1>6. QED BY <1>1, <1>2, <1>3, <1>4, <1>5 DEF Fits

-----------------------------------------------------------------------------
\* A unit that is not a byte.
LEMMA NoByte ==
    ASSUME NEW u \in Tx!AnyUnit, u.kind # "byte"
    PROVE  <<u>> \in Packet /\ Count(<<u>>) = 0 /\ Tx!Numbers(<<u>>) = {}
  <1>1. <<u>> \in Packet /\ Len(<<u>>) = 1 /\ <<u>>[1] = u
    BY DEF Packet
  <1>2. Tx!Places(<<u>>) = {}
    BY <1>1 DEF Tx!Places
  <1>3. QED BY <1>1, <1>2, FS_EmptySet DEF Count, Tx!Numbers

\* The parts of a split packet.
SplitFacts(packet, size, parts) ==
    /\ parts.first \in Packet /\ Len(parts.first) = size + 1
    /\ parts.first[1] = Tx!Header(packet[1].n, size)
    /\ \A j \in 2..(size + 1) : parts.first[j] = packet[j]
    /\ parts.second \in Packet /\ Len(parts.second) = Len(packet) - size
    /\ parts.second[1] = Tx!Header(packet[1].n + size, Len(packet) - 1 - size)
    /\ \A j \in 2..(Len(packet) - size) : parts.second[j] = packet[size + j]
    /\ Count(parts.first) \in Nat /\ Count(parts.second) \in Nat
    /\ Count(packet) = Count(parts.first) + Count(parts.second)
    /\ Tx!Numbers(packet) = Tx!Numbers(parts.first) \cup Tx!Numbers(parts.second)

\* Split takes a header off and puts a header on both parts.
LEMMA SplitIs ==
    ASSUME NEW item, item.packet \in Packet, Tx!Opens(item.packet),
           NEW size \in Nat, size > 0, size + 1 < Len(item.packet)
    PROVE  SplitFacts(item.packet, size, Tx!Split(item, size))
  <1>1. PICK p, n : p = item.packet /\ n = Len(p) /\ n \in Nat
    BY LenProperties DEF Packet
  <1>2. p \in Packet /\ p # <<>> /\ p[1].kind = "header" /\ size + 1 < n
    BY <1>1 DEF Tx!Opens
  <1>3. \A i \in 1..n : p[i] \in Tx!AnyUnit
    BY <1>1, <1>2, ElementOfSeq DEF Packet
  <1>4. PICK h, d : h = p[1] /\ d = Tail(p)
    OBVIOUS
  <1>5. /\ Head(p) = h /\ d \in Packet /\ Len(d) = n - 1
        /\ \A i \in 1..(n - 1) : d[i] = p[i + 1]
    <2>1. Head(p) = p[1]
      BY <1>2
    <2>2. d \in Packet /\ Len(d) = n - 1 /\ \A i \in 1..Len(d) : d[i] = p[i + 1]
      BY <1>1, <1>2, <1>4, HeadTailProperties DEF Packet
    <2>3. QED BY <1>4, <2>1, <2>2
  <1>6. h \in Tx!AnyUnit /\ h.n \in Nat
    <2>1. 1 \in 1..n
      BY <1>1, <1>2
    <2>2. h \in Tx!AnyUnit
      BY <1>3, <1>4, <2>1
    <2>3. QED BY <2>2 DEF Tx!AnyUnit
  <1>7. PICK h1, h2, d1, d2 : /\ h1 = Tx!Header(h.n, size)
                              /\ h2 = Tx!Header(h.n + size, n - 1 - size)
                              /\ d1 = SubSeq(d, 1, size) /\ d2 = SubSeq(d, size + 1, n - 1)
    OBVIOUS
  <1>8. /\ h1 \in Tx!AnyUnit /\ h1.kind # "byte" /\ h2 \in Tx!AnyUnit /\ h2.kind # "byte"
        /\ h.kind # "byte"
    <2>1. n - 1 - size \in Nat /\ h.n + size \in Nat
      BY <1>1, <1>2, <1>6
    <2>2. QED BY <1>2, <1>4, <1>6, <1>7, <2>1 DEF Tx!AnyUnit, Tx!Header, Tx!Unit
  <1>9. d1 \in Packet /\ Len(d1) = size /\ \A i \in 1..size : d1[i] = d[i]
    <2>1. 1 \in Int /\ size \in Int /\ \A i \in 1..size : d[i] \in Tx!AnyUnit
      BY <1>1, <1>2, <1>3, <1>5
    <2>2. /\ d1 \in Packet /\ Len(d1) = IF 1 <= size THEN size - 1 + 1 ELSE 0
          /\ \A i \in 1..(size - 1 + 1) : d1[i] = d[1 + i - 1]
      BY <1>7, <2>1, SubSeqProperties DEF Packet
    <2>3. QED BY <2>2
  <1>10. d2 \in Packet /\ Len(d2) = n - 1 - size /\ \A i \in 1..(n - 1 - size) : d2[i] = d[size + i]
    <2>1. /\ size + 1 \in Int /\ n - 1 \in Int
          /\ \A i \in (size + 1)..(n - 1) : d[i] \in Tx!AnyUnit
      BY <1>1, <1>2, <1>3, <1>5
    <2>2. /\ d2 \in Packet /\ Len(d2) = IF size + 1 <= n - 1 THEN (n - 1) - (size + 1) + 1 ELSE 0
          /\ \A i \in 1..((n - 1) - (size + 1) + 1) : d2[i] = d[(size + 1) + i - 1]
      BY <1>7, <2>1, SubSeqProperties DEF Packet
    <2>3. size + 1 <= n - 1 /\ (n - 1) - (size + 1) + 1 = n - 1 - size
      BY <1>1, <1>2
    <2>4. \A i \in 1..(n - 1 - size) : (size + 1) + i - 1 = size + i
      OBVIOUS
    <2>5. d2 \in Packet /\ Len(d2) = n - 1 - size
      BY <2>2, <2>3
    <2>6. \A i \in 1..(n - 1 - size) : d2[i] = d[size + i]
      BY <2>2, <2>3, <2>4
    <2>7. QED BY <2>5, <2>6
  <1>11. d1 \o d2 = d
    <2>1. 1 \in 1..Len(d) + 1 /\ size \in 1 - 1..Len(d) /\ n - 1 \in size..Len(d)
      BY <1>1, <1>2, <1>5
    <2>2. SubSeq(d, 1, size) \o SubSeq(d, size + 1, n - 1) = SubSeq(d, 1, n - 1)
      BY <1>5, <2>1, ConcatAdjacentSubSeq DEF Packet
    <2>3. SubSeq(d, 1, Len(d)) = d
      BY <1>5, SubSeqFull DEF Packet
    <2>4. QED BY <1>5, <1>7, <2>2, <2>3
  <1>12. PICK a, b, o, o1, o2 : /\ o = <<h>> /\ o1 = <<h1>> /\ o2 = <<h2>>
                                /\ a = o1 \o d1 /\ b = o2 \o d2
    OBVIOUS
  <1>13. /\ o \in Packet /\ o1 \in Packet /\ o2 \in Packet
         /\ Len(o) = 1 /\ Len(o1) = 1 /\ Len(o2) = 1 /\ o[1] = h /\ o1[1] = h1 /\ o2[1] = h2
         /\ Count(o) = 0 /\ Count(o1) = 0 /\ Count(o2) = 0
         /\ Tx!Numbers(o) = {} /\ Tx!Numbers(o1) = {} /\ Tx!Numbers(o2) = {}
    BY <1>6, <1>8, <1>12, NoByte
  <1>14. PICK parts : parts = [first |-> a, second |-> b]
    OBVIOUS
  <1>15. Tx!Split(item, size) = parts
    BY <1>1, <1>4, <1>5, <1>7, <1>12, <1>14 DEF Tx!Split
  <1>16. p = o \o d
    <2>1. PICK c : c = o \o d
      OBVIOUS
    <2>2. /\ c \in Packet /\ Len(c) = Len(o) + Len(d)
          /\ \A i \in 1..(Len(o) + Len(d)) : c[i] = IF i <= Len(o) THEN o[i] ELSE d[i - Len(o)]
      <3>1. o \in Packet /\ d \in Packet
        BY <1>5, <1>13
      <3>2. QED BY <2>1, <3>1, ConcatProperties DEF Packet
    <2>3. Len(o) + Len(d) = n
      BY <1>1, <1>5, <1>13
    <2>4. \A i \in 1..n : c[i] = p[i]
      BY <1>1, <1>4, <1>5, <1>13, <2>2, <2>3
    <2>5. QED BY <1>1, <1>2, <2>1, <2>2, <2>3, <2>4, SeqEqual DEF Packet
  <1>17. a \in Packet /\ Len(a) = size + 1 /\ a[1] = h1 /\ \A j \in 2..(size + 1) : a[j] = p[j]
    <2>1. /\ a \in Packet /\ Len(a) = Len(o1) + Len(d1)
          /\ \A i \in 1..(Len(o1) + Len(d1)) : a[i] = IF i <= Len(o1) THEN o1[i] ELSE d1[i - Len(o1)]
      BY <1>9, <1>12, <1>13, ConcatProperties DEF Packet
    <2>2. Len(a) = size + 1 /\ \A i \in 1..(size + 1) : a[i] = IF i <= 1 THEN o1[i] ELSE d1[i - 1]
      BY <1>9, <1>13, <2>1
    <2>3. ASSUME NEW j \in 2..(size + 1)
          PROVE  a[j] = p[j]
      <3>1. j \in 1..(size + 1) /\ ~(j <= 1) /\ j - 1 \in 1..size /\ j - 1 \in 1..(n - 1) /\ (j - 1) + 1 = j
        BY <1>1, <1>2
      <3>2. QED BY <1>5, <1>9, <2>2, <3>1
    <2>4. QED BY <1>13, <2>1, <2>2, <2>3
  <1>18. /\ b \in Packet /\ Len(b) = n - size /\ b[1] = h2
         /\ \A j \in 2..(n - size) : b[j] = p[size + j]
    <2>1. /\ b \in Packet /\ Len(b) = Len(o2) + Len(d2)
          /\ \A i \in 1..(Len(o2) + Len(d2)) : b[i] = IF i <= Len(o2) THEN o2[i] ELSE d2[i - Len(o2)]
      BY <1>10, <1>12, <1>13, ConcatProperties DEF Packet
    <2>2. Len(o2) + Len(d2) = n - size
      BY <1>1, <1>10, <1>13
    <2>3. ASSUME NEW j \in 2..(n - size)
          PROVE  b[j] = p[size + j]
      <3>1. /\ j \in 1..(n - size) /\ ~(j <= 1) /\ j - 1 \in 1..(n - 1 - size)
            /\ size + (j - 1) \in 1..(n - 1) /\ (size + (j - 1)) + 1 = size + j
        BY <1>1, <1>2
      <3>2. b[j] = d2[j - 1]
        BY <1>13, <2>1, <2>2, <3>1
      <3>3. QED BY <1>5, <1>10, <3>1, <3>2
    <2>4. 1 \in 1..(n - size)
      BY <1>1, <1>2
    <2>5. QED BY <1>13, <2>1, <2>2, <2>3, <2>4
  <1>19. /\ Count(d1) \in Nat /\ Count(d2) \in Nat /\ Count(d) = Count(d1) + Count(d2)
         /\ Tx!Numbers(d) = Tx!Numbers(d1) \cup Tx!Numbers(d2)
    BY <1>9, <1>10, <1>11, BytesConcat
  <1>20. /\ Count(p) = Count(o) + Count(d) /\ Count(a) = Count(o1) + Count(d1)
         /\ Count(b) = Count(o2) + Count(d2)
         /\ Tx!Numbers(p) = Tx!Numbers(o) \cup Tx!Numbers(d)
         /\ Tx!Numbers(a) = Tx!Numbers(o1) \cup Tx!Numbers(d1)
         /\ Tx!Numbers(b) = Tx!Numbers(o2) \cup Tx!Numbers(d2)
    <2>1. /\ o \in Packet /\ o1 \in Packet /\ o2 \in Packet
          /\ d \in Packet /\ d1 \in Packet /\ d2 \in Packet
      BY <1>5, <1>9, <1>10, <1>13
    <2>2. /\ Count(o \o d) = Count(o) + Count(d) /\ Count(o1 \o d1) = Count(o1) + Count(d1)
          /\ Count(o2 \o d2) = Count(o2) + Count(d2)
          /\ Tx!Numbers(o \o d) = Tx!Numbers(o) \cup Tx!Numbers(d)
          /\ Tx!Numbers(o1 \o d1) = Tx!Numbers(o1) \cup Tx!Numbers(d1)
          /\ Tx!Numbers(o2 \o d2) = Tx!Numbers(o2) \cup Tx!Numbers(d2)
      BY <2>1, BytesConcat
    <2>3. a = o1 \o d1 /\ b = o2 \o d2
      BY <1>12
    <2>4. QED BY <1>16, <2>2, <2>3
  <1>21. Count(p) = Count(a) + Count(b) /\ Count(a) \in Nat /\ Count(b) \in Nat
    BY <1>13, <1>19, <1>20
  <1>22. Tx!Numbers(p) = Tx!Numbers(a) \cup Tx!Numbers(b)
    BY <1>13, <1>19, <1>20
  <1>23. parts.first = a /\ parts.second = b
    BY <1>14
  <1>24. SplitFacts(p, size, parts)
    BY <1>1, <1>4, <1>7, <1>17, <1>18, <1>21, <1>22, <1>23 DEF SplitFacts
  <1>25. QED BY <1>1, <1>15, <1>24

-----------------------------------------------------------------------------
\* Units that follow a packet with a header.
LEMMA OpensConcat ==
    ASSUME NEW u \in Packet, NEW v \in Packet, Tx!Opens(u)
    PROVE  Tx!Opens(u \o v)
  <1>1. Len(u) \in Nat /\ Len(u) > 0 /\ Len(v) \in Nat /\ u[1].kind = "header"
    BY EmptySeq, LenProperties DEF Packet, Tx!Opens
  <1>2. u \o v \in Packet /\ Len(u \o v) = Len(u) + Len(v) /\ (u \o v)[1] = u[1]
    <2>1. 1 \in 1..(Len(u) + Len(v)) /\ 1 <= Len(u)
      BY <1>1
    <2>2. QED BY <2>1, ConcatProperties DEF Packet
  <1>3. Len(u \o v) > 0
    BY <1>1, <1>2
  <1>4. u \o v # <<>>
    BY <1>2, <1>3
  <1>5. QED BY <1>1, <1>2, <1>4 DEF Tx!Opens

\* The units of a list that begins with such a packet.
LEMMA UnitsOpen ==
    ASSUME NEW R, HasPackets(R), NEW q \in Seq(R), Len(q) > 0, Tx!Opens(q[1].packet)
    PROVE  Tx!Opens(Tx!Units(q))
  <1>1. 0 \in Nat /\ 0 < Len(q) /\ 0 + 1 = 1 /\ 0 + 2 = 2 /\ Len(q) \in Nat
    BY LenProperties
  <1>2. /\ q[1].packet \in Packet
        /\ Tx!Units(SubSeq(q, 1, Len(q))) = q[1].packet \o Tx!Units(SubSeq(q, 2, Len(q)))
    BY <1>1, UnitsNext
  <1>3. SubSeq(q, 1, Len(q)) = q
    BY SubSeqFull
  <1>4. 1 \in 0..Len(q) /\ 1 + 1 = 2
    BY <1>1
  <1>5. SubSeq(q, 2, Len(q)) \in Seq(R)
    BY <1>4, ListSplit
  <1>6. Tx!Units(SubSeq(q, 2, Len(q))) \in Packet
    BY <1>5, UnitsIs
  <1>7. QED BY <1>2, <1>3, <1>6, OpensConcat

\* What the scheduler takes from its queue: k whole items, then perhaps the first
\* part of the next.
WholeItems(q, k) == Tx!Units(SubSeq(q, 1, k))
Part(q, k, numBytes) == numBytes - Len(WholeItems(q, k)) - 1
Cut(q, k, numBytes) == Tx!Split(q[k + 1], Part(q, k, numBytes))
Segment(q, numBytes, first, k, seg) ==
    /\ Len(WholeItems(q, k)) <= numBytes
    /\ k < Len(q) => Len(WholeItems(q, k)) + Len(q[k + 1].packet) > numBytes
    /\ \/ /\ k = Len(q) \/ Part(q, k, numBytes) <= 0
          /\ seg.packet = WholeItems(q, k)
          /\ seg.queue = SubSeq(q, k + 1, Len(q))
       \/ /\ k < Len(q) /\ Part(q, k, numBytes) > 0
          /\ seg.packet = WholeItems(q, k) \o Cut(q, k, numBytes).first
          /\ seg.queue = Tx!Insert(SubSeq(q, k + 2, Len(q)),
                                   [q[k + 1] EXCEPT !.packet = Cut(q, k, numBytes).second],
                                   first)

\* GetNewSegment of the scheduler does this.
LEMMA SegmentIs ==
    ASSUME NEW q \in Seq(QueueItem), NEW numBytes \in Nat, NEW first
    PROVE  \E k \in 0..Len(q) :
               Segment(q, numBytes, first, k, Tx!GetNewSegment(q, numBytes, first))
  <1>1. PICK n : n = Len(q) /\ n \in Nat
    BY LenProperties
  <1> DEFINE P(m) == /\ Tx!Size(SubSeq(q, 1, m)) <= numBytes
                     /\ m < Len(q) => Tx!Size(SubSeq(q, 1, m + 1)) > numBytes
  <1>2. \E m \in 0..Len(q) : P(m)
    BY ItemsHold, UnitsFit DEF Tx!Size
  <1>3. PICK k : k = CHOOSE m \in 0..Len(q) : P(m)
    OBVIOUS
  <1>4. k \in 0..n /\ P(k)
    BY <1>1, <1>2, <1>3
  <1>5. PICK whole, rest, size : /\ whole = Tx!Units(SubSeq(q, 1, k))
                                 /\ rest = SubSeq(q, k + 1, Len(q))
                                 /\ size = numBytes - Len(whole) - 1
    OBVIOUS
  <1>6. PICK seg : seg = Tx!GetNewSegment(q, numBytes, first)
    OBVIOUS
  <1>7. seg = IF rest = <<>> \/ size <= 0
              THEN [packet |-> whole, queue |-> rest]
              ELSE [packet |-> whole \o Tx!Split(Head(rest), size).first,
                    queue |-> Tx!Insert(Tail(rest),
                                        [Head(rest) EXCEPT !.packet = Tx!Split(Head(rest), size).second],
                                        first)]
    BY <1>3, <1>5, <1>6 DEF Tx!GetNewSegment
  <1>8. whole = WholeItems(q, k) /\ size = Part(q, k, numBytes)
    BY <1>5 DEF WholeItems, Part
  <1>9. /\ rest \in Seq(QueueItem) /\ Len(rest) = n - k
        /\ SubSeq(q, 1, k) \in Seq(QueueItem)
        /\ \A i \in 1..(n - k) : rest[i] = q[k + i]
    BY <1>1, <1>4, <1>5, ItemsHold, ListSplit
  <1>10. whole \in Packet /\ Len(whole) \in Nat /\ size \in Int
    <2>1. whole \in Packet /\ Len(whole) \in Nat
      BY <1>5, <1>9, ItemsHold, UnitsIs
    <2>2. QED BY <1>5, <2>1
  <1>11. Len(whole) <= numBytes
    BY <1>4, <1>5 DEF Tx!Size
  <1>12. k < Len(q) => Len(whole) + Len(q[k + 1].packet) > numBytes
    <2>1. SUFFICES ASSUME k < Len(q)
                   PROVE  Len(whole) + Len(q[k + 1].packet) > numBytes
      OBVIOUS
    <2>2. k \in Nat
      BY <1>4
    <2>3. q[k + 1].packet \in Packet /\ Tx!Units(SubSeq(q, 1, k + 1)) = whole \o q[k + 1].packet
      BY <1>5, <2>1, <2>2, ItemsHold, UnitsNext
    <2>4. Len(Tx!Units(SubSeq(q, 1, k + 1))) > numBytes
      BY <1>4, <2>1 DEF Tx!Size
    <2>5. Len(whole \o q[k + 1].packet) = Len(whole) + Len(q[k + 1].packet)
      BY <1>10, <2>3, ConcatProperties DEF Packet
    <2>6. QED BY <2>3, <2>4, <2>5
  <1>13. CASE k = Len(q) \/ size <= 0
    <2>1. rest = <<>> \/ size <= 0
      <3>1. CASE k = Len(q)
        <4>1. Len(rest) = 0
          BY <1>1, <1>9, <3>1
        <4>2. QED BY <1>9, <4>1, EmptySeq
      <3>2. QED BY <1>13, <3>1
    <2>2. seg.packet = whole /\ seg.queue = rest
      BY <1>7, <2>1
    <2>3. Segment(q, numBytes, first, k, seg)
      BY <1>5, <1>8, <1>11, <1>12, <1>13, <2>2 DEF Segment
    <2>4. QED BY <1>1, <1>4, <1>6, <2>3
  <1>14. CASE ~(k = Len(q) \/ size <= 0)
    <2>1. k < Len(q) /\ size > 0 /\ Len(rest) > 0 /\ k + 1 \in 0..Len(q) /\ (k + 1) + 1 = k + 2
      BY <1>1, <1>4, <1>9, <1>10, <1>14
    <2>2. rest # <<>>
      BY <2>1
    <2>3. Head(rest) = q[k + 1]
      <3>1. 1 \in 1..(n - k)
        BY <1>1, <1>4, <1>9, <2>1
      <3>2. Head(rest) = rest[1]
        BY <1>9, <2>2
      <3>3. QED BY <1>9, <3>1, <3>2
    <2>4. Tail(rest) = SubSeq(q, k + 2, Len(q))
      <3>1. k + 1 \in 1..Len(q) /\ Len(q) \in k + 1..Len(q)
        BY <1>1, <1>4, <2>1
      <3>2. Tail(SubSeq(q, k + 1, Len(q))) = SubSeq(q, (k + 1) + 1, Len(q))
        BY <3>1, HeadTailOfSubSeq
      <3>3. QED BY <1>5, <2>1, <3>2
    <2>5. /\ seg.packet = whole \o Tx!Split(q[k + 1], size).first
          /\ seg.queue = Tx!Insert(SubSeq(q, k + 2, Len(q)),
                                   [q[k + 1] EXCEPT !.packet = Tx!Split(q[k + 1], size).second],
                                   first)
      BY <1>7, <1>14, <2>2, <2>3, <2>4
    <2>6. Segment(q, numBytes, first, k, seg)
      BY <1>8, <1>11, <1>12, <2>1, <2>5 DEF Segment, Cut
    <2>7. QED BY <1>1, <1>4, <1>6, <2>6
  <1>15. QED BY <1>13, <1>14

\* The packet and the queue that remains hold what the queue held; each packet
\* begins with a header.
SegmentKept(q, seg) ==
    /\ seg.packet \in Packet /\ seg.queue \in Seq(QueueItem)
    /\ \A i \in 1..Len(seg.queue) : Tx!Opens(seg.queue[i].packet)
    /\ seg.packet # <<>> => Tx!Opens(seg.packet)
    /\ Count(seg.packet) \in Nat /\ Count(Tx!Units(seg.queue)) \in Nat
    /\ Count(Tx!Units(q)) = Count(seg.packet) + Count(Tx!Units(seg.queue))
    /\ Tx!Numbers(Tx!Units(q)) = Tx!Numbers(seg.packet) \cup Tx!Numbers(Tx!Units(seg.queue))
    /\ Len(Tx!Units(seg.queue)) <= Len(Tx!Units(q))

\* The part that is cut off is shorter than the packet.
LEMMA CutIs ==
    ASSUME NEW q \in Seq(QueueItem), \A i \in 1..Len(q) : Tx!Opens(q[i].packet),
           NEW numBytes \in Nat, NEW first, NEW k \in 0..Len(q), NEW seg,
           Segment(q, numBytes, first, k, seg), k < Len(q), Part(q, k, numBytes) > 0
    PROVE  /\ q[k + 1] \in QueueItem /\ Part(q, k, numBytes) \in Nat
           /\ Part(q, k, numBytes) + 1 < Len(q[k + 1].packet)
           /\ SplitFacts(q[k + 1].packet, Part(q, k, numBytes), Cut(q, k, numBytes))
  <1>1. PICK n, x, w, z : /\ n = Len(q) /\ n \in Nat /\ x = q[k + 1] /\ w = WholeItems(q, k)
                          /\ z = Part(q, k, numBytes)
    BY LenProperties
  <1>2. k + 1 \in 1..Len(q)
    BY <1>1
  <1>3. x \in QueueItem /\ x.packet \in Packet /\ Tx!Opens(x.packet) /\ Len(x.packet) \in Nat
    <2>1. x \in QueueItem /\ Tx!Opens(x.packet)
      BY <1>1, <1>2, ElementOfSeq
    <2>2. x.packet \in Packet
      BY <2>1 DEF QueueItem
    <2>3. QED BY <2>1, <2>2, LenProperties DEF Packet
  <1>4. w \in Packet /\ Len(w) \in Nat
    <2>1. SubSeq(q, 1, k) \in Seq(QueueItem)
      BY ItemsHold, ListSplit
    <2>2. QED BY <1>1, <2>1, ItemsHold, UnitsIs DEF WholeItems
  <1>5. Len(w) + Len(x.packet) > numBytes /\ z = numBytes - Len(w) - 1 /\ z > 0
    BY <1>1 DEF Segment, Part
  <1>6. z \in Nat /\ z + 1 < Len(x.packet)
    BY <1>3, <1>4, <1>5
  <1>7. SplitFacts(x.packet, z, Tx!Split(x, z))
    BY <1>3, <1>5, <1>6, SplitIs
  <1>8. QED BY <1>1, <1>3, <1>6, <1>7 DEF Cut

\* A header opens a packet.
LEMMA HeaderOpens ==
    ASSUME NEW u \in Packet, Len(u) > 0, NEW a, NEW b, u[1] = Tx!Header(a, b)
    PROVE  Tx!Opens(u)
  <1>1. u # <<>>
    OBVIOUS
  <1>2. QED BY <1>1 DEF Tx!Opens, Tx!Header, Tx!Unit

\* GetNewSegment of the scheduler loses nothing.
LEMMA SegmentKeeps ==
    ASSUME NEW q \in Seq(QueueItem), \A i \in 1..Len(q) : Tx!Opens(q[i].packet),
           NEW numBytes \in Nat, NEW first, NEW k \in 0..Len(q), NEW seg,
           Segment(q, numBytes, first, k, seg)
    PROVE  SegmentKept(q, seg)
  <1>1. PICK n, w, a, b : /\ n = Len(q) /\ n \in Nat /\ w = WholeItems(q, k)
                          /\ a = SubSeq(q, 1, k) /\ b = SubSeq(q, k + 1, Len(q))
    BY LenProperties
  <1>2. /\ a \in Seq(QueueItem) /\ b \in Seq(QueueItem) /\ Len(a) = k /\ Len(b) = n - k
        /\ \A i \in 1..k : a[i] = q[i]
        /\ \A i \in 1..(n - k) : b[i] = q[k + i]
        /\ Tx!Units(q) = Tx!Units(a) \o Tx!Units(b)
    <2>1. HasPackets(QueueItem)
      BY ItemsHold
    <2>2. /\ SubSeq(q, 1, k) \in Seq(QueueItem) /\ Len(SubSeq(q, 1, k)) = k
          /\ \A i \in 1..k : SubSeq(q, 1, k)[i] = q[i]
          /\ SubSeq(q, k + 1, Len(q)) \in Seq(QueueItem)
          /\ Len(SubSeq(q, k + 1, Len(q))) = Len(q) - k
          /\ \A i \in 1..(Len(q) - k) : SubSeq(q, k + 1, Len(q))[i] = q[k + i]
          /\ Tx!Units(q) = Tx!Units(SubSeq(q, 1, k)) \o Tx!Units(SubSeq(q, k + 1, Len(q)))
      BY <2>1, ListSplit
    <2>3. QED BY <1>1, <2>2
  <1>3. w = Tx!Units(a) /\ w \in Packet /\ Len(w) \in Nat
    BY <1>1, <1>2, ItemsHold, UnitsIs DEF WholeItems
  <1>4. PICK ub : ub = Tx!Units(b) /\ ub \in Packet /\ Len(ub) \in Nat
    BY <1>2, ItemsHold, UnitsIs
  <1>5. k > 0 => Tx!Opens(w)
    <2>1. SUFFICES ASSUME k > 0 PROVE Tx!Opens(w)
      OBVIOUS
    <2>2. Len(a) > 0 /\ a[1] = q[1] /\ 1 \in 1..Len(q)
      BY <1>1, <1>2, <2>1
    <2>3. QED BY <1>2, <1>3, <2>2, ItemsHold, UnitsOpen
  <1>6. k = 0 => w = <<>>
    <2>1. k = 0 => Len(a) = 0
      BY <1>2
    <2>2. k = 0 => a = <<>>
      BY <1>2, <2>1, EmptySeq
    <2>3. Tx!Units(<<>>) = <<>>
      <3>1. \E x : x \in QueueItem
        <4>1. <<>> \in Packet
          BY EmptySeq DEF Packet
        <4>2. [retx |-> TRUE, key |-> 0, packet |-> <<>>] \in QueueItem
          BY <4>1 DEF QueueItem
        <4>3. QED BY <4>2
      <3>2. QED BY <3>1, ItemsHold, UnitsSmall
    <2>4. QED BY <1>3, <2>2, <2>3
  <1>7. /\ Count(w) \in Nat /\ Count(ub) \in Nat
        /\ Count(Tx!Units(q)) = Count(w) + Count(ub)
        /\ Tx!Numbers(Tx!Units(q)) = Tx!Numbers(w) \cup Tx!Numbers(ub)
        /\ Len(Tx!Units(q)) = Len(w) + Len(ub)
    <2>1. Tx!Units(q) = w \o ub
      BY <1>2, <1>3, <1>4
    <2>2. Len(w \o ub) = Len(w) + Len(ub)
      BY <1>3, <1>4, ConcatProperties DEF Packet
    <2>3. QED BY <1>3, <1>4, <2>1, <2>2, BytesConcat
  <1>8. CASE k = Len(q) \/ Part(q, k, numBytes) <= 0
    <2>1. seg.packet = w /\ seg.queue = b
      <3>1. ~(k < Len(q) /\ Part(q, k, numBytes) > 0)
        <4>1. Part(q, k, numBytes) \in Int
          BY <1>1, <1>3 DEF Part
        <4>2. QED BY <1>1, <1>8, <4>1
      <3>2. QED BY <1>1, <3>1 DEF Segment
    <2>2. \A i \in 1..Len(b) : Tx!Opens(b[i].packet)
      <3>1. \A i \in 1..(n - k) : k + i \in 1..n
        BY <1>1
      <3>2. QED BY <1>1, <1>2, <3>1
    <2>3. w # <<>> => Tx!Opens(w)
      BY <1>1, <1>5, <1>6
    <2>4. QED BY <1>2, <1>3, <1>4, <1>7, <2>1, <2>2, <2>3 DEF SegmentKept
  <1>9. CASE k < Len(q) /\ Part(q, k, numBytes) > 0
    <2>1. PICK x, z, parts : /\ x = q[k + 1] /\ z = Part(q, k, numBytes)
                             /\ parts = Cut(q, k, numBytes)
      OBVIOUS
    <2>2. x \in QueueItem /\ z \in Nat /\ z + 1 < Len(x.packet) /\ SplitFacts(x.packet, z, parts)
      BY <1>9, <2>1, CutIs
    <2>3. PICK d, y : d = SubSeq(q, k + 2, Len(q)) /\ y = [x EXCEPT !.packet = parts.second]
      OBVIOUS
    <2>4. seg.packet = w \o parts.first /\ seg.queue = Tx!Insert(d, y, first)
      <3>1. ~(k = Len(q) \/ Part(q, k, numBytes) <= 0)
        BY <1>1, <1>9, <2>1, <2>2
      <3>2. QED BY <1>1, <2>1, <2>3, <3>1 DEF Segment
    <2>5. /\ d \in Seq(QueueItem) /\ Len(d) = n - (k + 1)
          /\ \A i \in 1..(n - (k + 1)) : d[i] = q[(k + 1) + i]
      <3>1. k + 1 \in 0..Len(q) /\ (k + 1) + 1 = k + 2
        BY <1>1, <1>9
      <3>2. HasPackets(QueueItem)
        BY ItemsHold
      <3>3. /\ SubSeq(q, (k + 1) + 1, Len(q)) \in Seq(QueueItem)
            /\ Len(SubSeq(q, (k + 1) + 1, Len(q))) = Len(q) - (k + 1)
            /\ \A i \in 1..(Len(q) - (k + 1)) : SubSeq(q, (k + 1) + 1, Len(q))[i] = q[(k + 1) + i]
        BY <3>1, <3>2, ListSplit
      <3>4. QED BY <1>1, <2>3, <3>1, <3>3
    <2>6. y \in QueueItem /\ y.packet = parts.second /\ y.retx = x.retx /\ y.key = x.key
      BY <2>2, <2>3 DEF QueueItem, SplitFacts
    <2>7. PICK p \in 1..(Len(d) + 1) : seg.queue = InsertAt(d, p, y)
      BY <2>4, <2>5, InsertIs
    <2>8. /\ seg.queue \in Seq(QueueItem) /\ Len(seg.queue) = Len(d) + 1
          /\ \A i \in 1..(Len(d) + 1) :
                 seg.queue[i] = IF i < p THEN d[i] ELSE IF i = p THEN y ELSE d[i - 1]
          /\ Gains(seg.queue, d, y.packet)
      <3>1. HasPackets(QueueItem) /\ d \in Seq(QueueItem) /\ y \in QueueItem
        BY <2>5, <2>6, ItemsHold
      <3>2. /\ InsertAt(d, p, y) \in Seq(QueueItem) /\ Len(InsertAt(d, p, y)) = Len(d) + 1
            /\ \A i \in 1..(Len(d) + 1) :
                   InsertAt(d, p, y)[i] = IF i < p THEN d[i] ELSE IF i = p THEN y ELSE d[i - 1]
            /\ Gains(InsertAt(d, p, y), d, y.packet)
        BY <3>1, InsertedAt
      <3>3. QED BY <2>7, <3>2
    <2>9. PICK ud : ud = Tx!Units(d) /\ ud \in Packet /\ Len(ud) \in Nat
      BY <2>5, ItemsHold, UnitsIs
    <2>10. ub = x.packet \o ud /\ x.packet \in Packet
      <3>1. k \in Nat
        BY <1>1
      <3>2. QED BY <1>1, <1>4, <1>9, <2>1, <2>3, <2>9, <3>1, ItemsHold, UnitsNext
    <2>11. /\ Len(ub) = Len(x.packet) + Len(ud) /\ Count(ub) = Count(x.packet) + Count(ud)
           /\ Count(ud) \in Nat /\ Tx!Numbers(ub) = Tx!Numbers(x.packet) \cup Tx!Numbers(ud)
      BY <2>9, <2>10, ConcatProperties, BytesConcat DEF Packet
    <2>12. /\ parts.first \in Packet /\ Len(parts.first) = z + 1 /\ Count(parts.first) \in Nat
           /\ parts.second \in Packet /\ Len(parts.second) = Len(x.packet) - z
           /\ Count(parts.second) \in Nat
           /\ Count(x.packet) = Count(parts.first) + Count(parts.second)
           /\ Tx!Numbers(x.packet) = Tx!Numbers(parts.first) \cup Tx!Numbers(parts.second)
      BY <2>2 DEF SplitFacts
    <2>13. Tx!Opens(parts.first) /\ Tx!Opens(parts.second)
      <3>1. /\ Len(parts.first) > 0 /\ Len(parts.second) > 0
        <4>1. Len(x.packet) \in Nat
          BY <2>10, LenProperties DEF Packet
        <4>2. QED BY <2>2, <2>12, <4>1
      <3>2. /\ parts.first[1] = Tx!Header(x.packet[1].n, z)
            /\ parts.second[1] = Tx!Header(x.packet[1].n + z, Len(x.packet) - 1 - z)
        BY <2>2 DEF SplitFacts
      <3>3. QED BY <2>12, <3>1, <3>2, HeaderOpens
    <2>14. /\ seg.packet \in Packet /\ Count(seg.packet) = Count(w) + Count(parts.first)
           /\ Tx!Numbers(seg.packet) = Tx!Numbers(w) \cup Tx!Numbers(parts.first)
      <3>1. PICK pf : pf = parts.first /\ pf \in Packet /\ w \in Packet
        BY <1>3, <2>12
      <3>2. w \o pf \in Packet
        BY <3>1, ConcatProperties DEF Packet
      <3>3. /\ Count(w \o pf) = Count(w) + Count(pf)
            /\ Tx!Numbers(w \o pf) = Tx!Numbers(w) \cup Tx!Numbers(pf)
        BY <3>1, BytesConcat
      <3>4. QED BY <2>4, <3>1, <3>2, <3>3
    <2>15. Tx!Opens(seg.packet)
      <3>1. CASE k = 0
        <4>1. w \o parts.first = parts.first
          BY <1>6, <2>12, <3>1, ConcatEmptySeq DEF Packet
        <4>2. QED BY <2>4, <2>13, <4>1
      <3>2. CASE k # 0
        <4>1. Tx!Opens(w)
          BY <1>1, <1>5, <3>2
        <4>2. QED BY <1>3, <2>4, <2>12, <4>1, OpensConcat
      <3>3. QED BY <3>1, <3>2
    <2>16. ASSUME NEW i \in 1..Len(seg.queue)
           PROVE  Tx!Opens(seg.queue[i].packet)
      <3>1. Len(d) \in Nat /\ Len(d) = n - (k + 1)
        BY <2>5, LenProperties
      <3>2. \A j \in 1..Len(d) : Tx!Opens(d[j].packet)
        <4>1. \A j \in 1..Len(d) : (k + 1) + j \in 1..Len(q)
          BY <1>1, <3>1
        <4>2. QED BY <2>5, <3>1, <4>1
      <3>3. CASE i < p
        <4>1. i \in 1..Len(d)
          BY <2>8, <3>1, <3>3
        <4>2. QED BY <2>8, <3>2, <3>3, <4>1
      <3>4. CASE i = p
        BY <2>6, <2>8, <2>13, <3>4
      <3>5. CASE i > p
        <4>1. i - 1 \in 1..Len(d) /\ ~(i < p) /\ i # p
          BY <2>8, <3>1, <3>5
        <4>2. QED BY <2>8, <3>2, <4>1
      <3>6. QED BY <2>8, <3>1, <3>3, <3>4, <3>5
    <2>17. /\ Len(Tx!Units(seg.queue)) = Len(ud) + Len(parts.second)
           /\ Count(Tx!Units(seg.queue)) = Count(ud) + Count(parts.second)
           /\ Tx!Numbers(Tx!Units(seg.queue)) = Tx!Numbers(ud) \cup Tx!Numbers(parts.second)
      BY <2>6, <2>8, <2>9 DEF Gains
    <2>18. Len(Tx!Units(seg.queue)) <= Len(Tx!Units(q))
      <3>1. Len(x.packet) \in Nat
        BY <2>10, LenProperties DEF Packet
      <3>2. PICK lx, lq, lw, lb, ld, ls, lt :
                /\ lx = Len(x.packet) /\ lq = Len(Tx!Units(q)) /\ lw = Len(w) /\ lb = Len(ub)
                /\ ld = Len(ud) /\ ls = Len(Tx!Units(seg.queue)) /\ lt = Len(parts.second)
        OBVIOUS
      <3>3. lx \in Nat /\ lw \in Nat /\ ld \in Nat /\ z \in Nat
        BY <1>3, <2>2, <2>9, <3>1, <3>2
      <3>4. lq = lw + lb /\ lb = lx + ld /\ ls = ld + lt /\ lt = lx - z
        BY <1>7, <2>11, <2>12, <2>17, <3>2
      <3>5. ls <= lq
        BY <3>3, <3>4
      <3>6. QED BY <3>2, <3>5
    <2>19. /\ Count(Tx!Units(q)) = Count(seg.packet) + Count(Tx!Units(seg.queue))
           /\ Count(seg.packet) \in Nat /\ Count(Tx!Units(seg.queue)) \in Nat
      <3>1. PICK cx, cq, cw, cb, cd, cs, cf, ct, cp :
                /\ cx = Count(x.packet) /\ cq = Count(Tx!Units(q)) /\ cw = Count(w) /\ cb = Count(ub)
                /\ cd = Count(ud) /\ cs = Count(Tx!Units(seg.queue)) /\ ct = Count(parts.second)
                /\ cf = Count(parts.first) /\ cp = Count(seg.packet)
        OBVIOUS
      <3>2. cw \in Nat /\ cd \in Nat /\ cf \in Nat /\ ct \in Nat
        BY <1>7, <2>11, <2>12, <3>1
      <3>3. cq = cw + cb /\ cb = cx + cd /\ cx = cf + ct /\ cp = cw + cf /\ cs = cd + ct
        BY <1>7, <2>11, <2>12, <2>14, <2>17, <3>1
      <3>4. cq = cp + cs /\ cp \in Nat /\ cs \in Nat
        BY <3>2, <3>3
      <3>5. QED BY <3>1, <3>4
    <2>20. Tx!Numbers(Tx!Units(q)) = Tx!Numbers(seg.packet) \cup Tx!Numbers(Tx!Units(seg.queue))
      BY <1>7, <2>11, <2>12, <2>14, <2>17
    <2>21. QED BY <2>8, <2>14, <2>15, <2>16, <2>18, <2>19, <2>20 DEF SegmentKept
  <1>10. Part(q, k, numBytes) \in Int
    BY <1>1, <1>3 DEF Part
  <1>11. QED BY <1>1, <1>8, <1>9, <1>10

-----------------------------------------------------------------------------
\* Every item of c is the item x or one of q.
Draws(c, q, x) ==
    /\ Len(c) = Len(q) + 1
    /\ \A i \in 1..Len(c) : c[i] = x \/ \E j \in 1..Len(q) : c[i] = q[j]

\* So it is after an insertion.
LEMMA InsertedDraws ==
    ASSUME NEW R, HasPackets(R), NEW q \in Seq(R), NEW x \in R, NEW p \in 1..(Len(q) + 1)
    PROVE  Draws(InsertAt(q, p, x), q, x)
  <1>1. PICK n, c : n = Len(q) /\ n \in Nat /\ c = InsertAt(q, p, x)
    BY LenProperties
  <1>2. /\ InsertAt(q, p, x) \in Seq(R) /\ Len(InsertAt(q, p, x)) = Len(q) + 1
        /\ \A i \in 1..(Len(q) + 1) :
               InsertAt(q, p, x)[i] = IF i < p THEN q[i] ELSE IF i = p THEN x ELSE q[i - 1]
    BY InsertedAt
  <1>3. /\ Len(c) = n + 1
        /\ \A i \in 1..(n + 1) : c[i] = IF i < p THEN q[i] ELSE IF i = p THEN x ELSE q[i - 1]
    BY <1>1, <1>2
  <1>4. p \in 1..(n + 1)
    BY <1>1
  <1>5. ASSUME NEW i \in 1..(n + 1)
        PROVE  c[i] = x \/ \E j \in 1..n : c[i] = q[j]
    <2>1. CASE i < p
      <3>1. i \in 1..n
        BY <1>1, <1>4, <2>1
      <3>2. QED BY <1>3, <2>1, <3>1
    <2>2. CASE i = p
      BY <1>3, <2>2
    <2>3. CASE i > p
      <3>1. i - 1 \in 1..n /\ ~(i < p) /\ i # p
        BY <1>1, <1>4, <2>3
      <3>2. c[i] = q[i - 1]
        BY <1>3, <3>1
      <3>3. QED BY <3>1, <3>2
    <2>4. QED BY <1>1, <1>4, <2>1, <2>2, <2>3
  <1>6. QED BY <1>1, <1>3, <1>5 DEF Draws

\* The scheduler's queue with one more item, and the sent list with one more.
LEMMA InsertGains ==
    ASSUME NEW q \in Seq(QueueItem), NEW x \in QueueItem, NEW first
    PROVE  /\ Tx!Insert(q, x, first) \in Seq(QueueItem)
           /\ Gains(Tx!Insert(q, x, first), q, x.packet)
           /\ Draws(Tx!Insert(q, x, first), q, x)
  <1>1. HasPackets(QueueItem)
    BY ItemsHold
  <1>2. PICK p \in 1..(Len(q) + 1) : Tx!Insert(q, x, first) = InsertAt(q, p, x)
    BY InsertIs
  <1>3. InsertAt(q, p, x) \in Seq(QueueItem) /\ Gains(InsertAt(q, p, x), q, x.packet)
    BY <1>1, InsertedAt
  <1>4. Draws(InsertAt(q, p, x), q, x)
    BY <1>1, InsertedDraws
  <1>5. QED BY <1>2, <1>3, <1>4

\* The sent list with one more packet.
LEMMA RecordGains ==
    ASSUME NEW q \in Seq(SentItem), NEW x \in SentItem
    PROVE  /\ Tx!Record(q, x) \in Seq(SentItem)
           /\ Gains(Tx!Record(q, x), q, x.packet)
           /\ Draws(Tx!Record(q, x), q, x)
  <1>1. HasPackets(SentItem)
    BY ItemsHold
  <1>2. PICK p \in 1..(Len(q) + 1) : Tx!Record(q, x) = InsertAt(q, p, x)
    BY RecordIs
  <1>3. InsertAt(q, p, x) \in Seq(SentItem) /\ Gains(InsertAt(q, p, x), q, x.packet)
    BY <1>1, InsertedAt
  <1>4. Draws(InsertAt(q, p, x), q, x)
    BY <1>1, InsertedDraws
  <1>5. QED BY <1>2, <1>3, <1>4

-----------------------------------------------------------------------------
\* The states the buffer's handlers work on, and what they keep: the shape of the
\* packets, and the bytes held with their number.
Bufs == [queue : Seq(QueueItem), zero : Seq(ZeroItem), sent : Seq(SentItem), toRetx : Nat]
Shaped(s) == s \in Bufs /\ Tx!HeadersOK(s.queue, s.zero, s.sent)
Holding(s) == Tx!Numbers(Tx!Units(s.queue)) \cup Tx!Numbers(Tx!Units(s.sent))
Amount(s) == Count(Tx!Units(s.queue)) + Count(Tx!Units(s.sent))
Filling(s) == Tx!Size(s.queue) + Tx!Size(s.zero)

\* The counts are numbers.
LEMMA CountType ==
    ASSUME NEW R, HasPackets(R), NEW q \in Seq(R)
    PROVE  Count(Tx!Units(q)) \in Nat /\ Tx!Size(q) \in Nat
  <1>1. Tx!Units(q) \in Packet /\ Len(Tx!Units(q)) \in Nat
    BY UnitsIs
  <1>2. QED BY <1>1, BytesConcat DEF Tx!Size

\* The parts of a buffer, and the sizes and counts taken of them, have their types.
LEMMA BufType ==
    ASSUME NEW s \in Bufs
    PROVE  /\ s.queue \in Seq(QueueItem) /\ s.zero \in Seq(ZeroItem) /\ s.sent \in Seq(SentItem)
           /\ s.toRetx \in Nat
           /\ Count(Tx!Units(s.queue)) \in Nat /\ Count(Tx!Units(s.sent)) \in Nat
           /\ Amount(s) \in Nat
           /\ Tx!Size(s.queue) \in Nat /\ Tx!Size(s.zero) \in Nat /\ Filling(s) \in Nat
  <1>1. /\ s.queue \in Seq(QueueItem) /\ s.zero \in Seq(ZeroItem) /\ s.sent \in Seq(SentItem)
        /\ s.toRetx \in Nat
    BY DEF Bufs
  <1>2. HasPackets(QueueItem) /\ HasPackets(ZeroItem) /\ HasPackets(SentItem)
    BY ItemsHold
  <1>3. Count(Tx!Units(s.queue)) \in Nat /\ Tx!Size(s.queue) \in Nat
    BY <1>1, <1>2, CountType
  <1>4. Tx!Size(s.zero) \in Nat
    BY <1>1, <1>2, CountType
  <1>5. Count(Tx!Units(s.sent)) \in Nat
    BY <1>1, <1>2, CountType
  <1>6. QED BY <1>1, <1>3, <1>4, <1>5 DEF Amount, Filling

\* A packet of acknowledgments and frames of stream 0 holds no bytes.
LEMMA BareHolds ==
    ASSUME NEW u \in Packet, Tx!Bare(u)
    PROVE  Count(u) = 0 /\ Tx!Numbers(u) = {}
  <1>1. Tx!Places(u) = {}
    BY DEF Tx!Bare, Tx!Places
  <1>2. QED BY <1>1, FS_EmptySet DEF Count, Tx!Numbers

\* The ACK frame that may follow a packet.
AckTail(ack) == IF ack THEN <<Tx!AckFrame>> ELSE <<>>

\* An ACK frame changes neither the bytes of a packet nor the way it begins.
LEMMA AckTailIs ==
    ASSUME NEW ack, NEW u \in Packet
    PROVE  /\ AckTail(ack) \in Packet /\ u \o AckTail(ack) \in Packet
           /\ Count(u \o AckTail(ack)) = Count(u)
           /\ Tx!Numbers(u \o AckTail(ack)) = Tx!Numbers(u)
           /\ Tx!Opens(u) => Tx!Opens(u \o AckTail(ack))
           /\ Tx!Bare(u) => Tx!Bare(u \o AckTail(ack))
  <1>1. Tx!AckFrame \in Tx!AnyUnit /\ Tx!AckFrame.kind = "ack"
    BY DEF Tx!AckFrame, Tx!Unit, Tx!AnyUnit
  <1>2. PICK v : v = AckTail(ack)
    OBVIOUS
  <1>3. v \in Packet /\ Count(v) = 0 /\ Tx!Numbers(v) = {}
    <2>1. CASE ack
      <3>1. <<Tx!AckFrame>> \in Packet /\ Count(<<Tx!AckFrame>>) = 0 /\ Tx!Numbers(<<Tx!AckFrame>>) = {}
        BY <1>1, NoByte
      <3>2. QED BY <1>2, <2>1, <3>1 DEF AckTail
    <2>2. CASE ~ack
      <3>1. v = <<>>
        BY <1>2, <2>2 DEF AckTail
      <3>2. <<>> \in Packet /\ Len(<<>>) = 0
        BY EmptySeq DEF Packet
      <3>3. Tx!Places(<<>>) = {}
        BY <3>2 DEF Tx!Places
      <3>4. Count(<<>>) = 0 /\ Tx!Numbers(<<>>) = {}
        BY <3>3, FS_EmptySet DEF Count, Tx!Numbers
      <3>5. QED BY <3>1, <3>2, <3>4
    <2>3. QED BY <2>1, <2>2
  <1>4. /\ Count(u) \in Nat /\ Count(u \o v) = Count(u) + Count(v)
        /\ Tx!Numbers(u \o v) = Tx!Numbers(u) \cup Tx!Numbers(v)
    BY <1>3, BytesConcat
  <1>5. Tx!Opens(u) => Tx!Opens(u \o v)
    BY <1>3, OpensConcat
  <1>6. u \o v \in Packet
    BY <1>3, ConcatProperties DEF Packet
  <1>7. ASSUME Tx!Bare(u)
        PROVE  Tx!Bare(u \o v)
    <2>1. PICK m, n, w : m = Len(u) /\ n = Len(v) /\ m \in Nat /\ n \in Nat /\ w = u \o v
      BY <1>3, LenProperties DEF Packet
    <2>2. Len(w) = m + n /\ \A i \in 1..(m + n) : w[i] = IF i <= m THEN u[i] ELSE v[i - m]
      BY <1>3, <2>1, ConcatProperties DEF Packet
    <2>3. m > 0 /\ \A i \in 1..m : u[i].kind \in {"ack", "zero"}
      BY <1>7, <2>1, EmptySeq DEF Tx!Bare, Packet
    <2>4. \A i \in 1..n : v[i].kind \in {"ack", "zero"}
      <3>1. CASE ack
        <4>1. n = 1 /\ v[1] = Tx!AckFrame
          BY <1>2, <2>1, <3>1 DEF AckTail
        <4>2. QED BY <1>1, <4>1
      <3>2. CASE ~ack
        <4>1. v = <<>>
          BY <1>2, <3>2 DEF AckTail
        <4>2. n = 0
          BY <2>1, <4>1
        <4>3. QED BY <4>2
      <3>3. QED BY <3>1, <3>2
    <2>5. \A i \in 1..(m + n) : i <= m \/ i - m \in 1..n
      BY <2>1
    <2>6. \A i \in 1..(m + n) : w[i].kind \in {"ack", "zero"}
      BY <2>1, <2>2, <2>3, <2>4, <2>5
    <2>7. w # <<>>
      BY <2>1, <2>2, <2>3
    <2>8. QED BY <2>1, <2>2, <2>6, <2>7 DEF Tx!Bare
  <1>8. QED BY <1>2, <1>3, <1>4, <1>5, <1>6, <1>7

-----------------------------------------------------------------------------
\* What a step from s to t keeps of the buffer.
Keeps(s, t) ==
    /\ Shaped(t) /\ t.toRetx = s.toRetx
    /\ Holding(t) = Holding(s) /\ Amount(t) = Amount(s)
    /\ Filling(t) <= Filling(s)

\* One packet more in the sent list.
LEMMA RecordShaped ==
    ASSUME NEW s, Shaped(s), NEW x \in SentItem,
           IF x.zero THEN Tx!Bare(x.packet) ELSE Tx!Opens(x.packet)
    PROVE  LET r == Tx!Record(s.sent, x) IN
           /\ r \in Seq(SentItem)
           /\ \A i \in 1..Len(r) : IF r[i].zero THEN Tx!Bare(r[i].packet) ELSE Tx!Opens(r[i].packet)
           /\ Count(Tx!Units(r)) = Count(Tx!Units(s.sent)) + Count(x.packet)
           /\ Tx!Numbers(Tx!Units(r)) = Tx!Numbers(Tx!Units(s.sent)) \cup Tx!Numbers(x.packet)
  <1>1. PICK l, r : l = s.sent /\ r = Tx!Record(s.sent, x)
    OBVIOUS
  <1>2. l \in Seq(SentItem) /\ \A i \in 1..Len(l) : IF l[i].zero THEN Tx!Bare(l[i].packet) ELSE Tx!Opens(l[i].packet)
    BY <1>1 DEF Shaped, Bufs, Tx!HeadersOK
  <1>3. r \in Seq(SentItem) /\ Gains(r, l, x.packet) /\ Draws(r, l, x)
    BY <1>1, <1>2, RecordGains
  <1>4. \A i \in 1..Len(r) : IF r[i].zero THEN Tx!Bare(r[i].packet) ELSE Tx!Opens(r[i].packet)
    BY <1>2, <1>3 DEF Draws
  <1>5. QED BY <1>1, <1>3, <1>4 DEF Gains

\* A list without its first item.
LEMMA TailIs ==
    ASSUME NEW R, HasPackets(R), NEW q \in Seq(R), q # <<>>
    PROVE  /\ Head(q) = q[1] /\ q[1] \in R /\ Tail(q) \in Seq(R) /\ Len(q) > 0
           /\ Len(Tail(q)) = Len(q) - 1 /\ \A i \in 1..(Len(q) - 1) : Tail(q)[i] = q[i + 1]
           /\ Tx!Units(q) = q[1].packet \o Tx!Units(Tail(q))
           /\ Tx!Size(Tail(q)) + Len(q[1].packet) = Tx!Size(q)
  <1>1. PICK n : n = Len(q) /\ n \in Nat /\ n > 0
    BY LenProperties, EmptySeq
  <1>2. /\ Head(q) = q[1] /\ Head(q) \in R /\ Tail(q) \in Seq(R) /\ Len(Tail(q)) = n - 1
        /\ \A i \in 1..Len(Tail(q)) : Tail(q)[i] = q[i + 1]
    BY <1>1, HeadTailProperties
  <1>3. q = <<q[1]>> \o Tail(q)
    <2>1. 1 \in 1..Len(q) /\ Len(q) \in 1..Len(q) /\ 1 + 1 = 2
      BY <1>1
    <2>2. SubSeq(q, 1, Len(q)) = <<q[1]>> \o SubSeq(q, 1 + 1, Len(q))
      BY <2>1, SubSeqRecursiveFirst
    <2>3. Tail(SubSeq(q, 1, Len(q))) = SubSeq(q, 1 + 1, Len(q))
      BY <2>1, HeadTailOfSubSeq
    <2>4. QED BY <2>2, <2>3, SubSeqFull
  <1>4. <<q[1]>> \in Seq(R)
    BY <1>2
  <1>5. Tx!Units(<<q[1]>> \o Tail(q)) = Tx!Units(<<q[1]>>) \o Tx!Units(Tail(q))
    BY <1>2, <1>4, UnitsConcat
  <1>6. Tx!Units(<<q[1]>>) = q[1].packet
    BY <1>2, UnitsSmall
  <1>7. Tx!Units(q) = q[1].packet \o Tx!Units(Tail(q))
    BY <1>3, <1>5, <1>6
  <1>8. Tx!Units(Tail(q)) \in Packet /\ q[1].packet \in Packet
    BY <1>2, UnitsIs DEF HasPackets
  <1>9. PICK u, v : u = q[1].packet /\ v = Tx!Units(Tail(q)) /\ u \in Packet /\ v \in Packet
    BY <1>8
  <1>10. Len(u \o v) = Len(u) + Len(v) /\ Len(u) \in Nat /\ Len(v) \in Nat
    BY <1>9, ConcatProperties, LenProperties DEF Packet
  <1>11. Len(v) + Len(u) = Len(Tx!Units(q))
    BY <1>7, <1>9, <1>10
  <1>12. QED BY <1>1, <1>2, <1>7, <1>9, <1>11 DEF Tx!Size

\* SendDataPacket keeps the bytes and the shape of the packets.
LEMMA SendPacketKeeps ==
    ASSUME NEW s, Shaped(s), NEW maxSize \in Nat, NEW ack, NEW first
    PROVE  Keeps(s, Tx!SendDataPacket(s, maxSize, ack, first))
  <1>1. PICK q, z, l, t, seg : /\ q = s.queue /\ z = s.zero /\ l = s.sent
                               /\ t = Tx!SendDataPacket(s, maxSize, ack, first)
                               /\ seg = Tx!GetNewSegment(q, maxSize, first)
    OBVIOUS
  <1>2. s \in Bufs /\ q \in Seq(QueueItem) /\ z \in Seq(ZeroItem) /\ l \in Seq(SentItem)
    BY <1>1 DEF Shaped, Bufs
  <1>3. /\ \A i \in 1..Len(q) : Tx!Opens(q[i].packet)
        /\ \A i \in 1..Len(z) : Tx!Bare(z[i].packet)
    BY <1>1 DEF Shaped, Tx!HeadersOK
  <1>4. Filling(s) \in Nat /\ Tx!Size(q) \in Nat /\ Tx!Size(z) \in Nat /\ Amount(s) \in Nat
        /\ Count(Tx!Units(q)) \in Nat /\ Count(Tx!Units(l)) \in Nat
    BY <1>1, <1>2, BufType
  <1>5. CASE z # <<>>
    <2>1. PICK u, v, x : u = z[1].packet /\ v = u \o AckTail(ack) /\ x = [zero |-> TRUE, packet |-> v]
      OBVIOUS
    <2>2. HasPackets(ZeroItem)
      BY ItemsHold
    <2>3. /\ Head(z) = z[1] /\ z[1] \in ZeroItem /\ Tail(z) \in Seq(ZeroItem) /\ Len(z) > 0
          /\ Len(Tail(z)) = Len(z) - 1 /\ \A i \in 1..(Len(z) - 1) : Tail(z)[i] = z[i + 1]
          /\ Tx!Size(Tail(z)) + Len(z[1].packet) = Tx!Size(z)
      BY <1>2, <1>5, <2>2, TailIs
    <2>4. u \in Packet /\ Tx!Bare(u) /\ Len(u) \in Nat
      <3>1. 1 \in 1..Len(z)
        BY <1>2, <2>3, LenProperties
      <3>2. u \in Packet
        BY <2>1, <2>3 DEF ZeroItem
      <3>3. QED BY <1>3, <2>1, <3>1, <3>2, LenProperties DEF Packet
    <2>5. v \in Packet /\ Tx!Bare(v) /\ Count(v) = 0 /\ Tx!Numbers(v) = {}
      <3>1. v \in Packet /\ Tx!Bare(v)
        BY <2>1, <2>4, AckTailIs
      <3>2. QED BY <3>1, BareHolds
    <2>6. x \in SentItem /\ x.zero /\ x.packet = v
      BY <2>1, <2>5 DEF SentItem
    <2>7. PICK r : r = Tx!Record(s.sent, x)
      OBVIOUS
    <2>8. /\ r \in Seq(SentItem)
          /\ \A i \in 1..Len(r) : IF r[i].zero THEN Tx!Bare(r[i].packet) ELSE Tx!Opens(r[i].packet)
          /\ Count(Tx!Units(r)) = Count(Tx!Units(s.sent)) + Count(x.packet)
          /\ Tx!Numbers(Tx!Units(r)) = Tx!Numbers(Tx!Units(s.sent)) \cup Tx!Numbers(x.packet)
      BY <2>5, <2>6, <2>7, RecordShaped
    <2>9. t = [s EXCEPT !.zero = Tail(@), !.sent = r]
      <3>1. t = [s EXCEPT !.zero = Tail(@),
                          !.sent = Tx!Record(@, [zero |-> TRUE, packet |-> Head(s.zero).packet \o AckTail(ack)])]
        BY <1>1, <1>5 DEF Tx!SendDataPacket, AckTail
      <3>2. [zero |-> TRUE, packet |-> Head(s.zero).packet \o AckTail(ack)] = x
        BY <1>1, <2>1, <2>3
      <3>3. QED BY <2>7, <3>1, <3>2
    <2>10. t \in Bufs /\ t.queue = q /\ t.zero = Tail(z) /\ t.sent = r /\ t.toRetx = s.toRetx
      BY <1>1, <1>2, <2>3, <2>8, <2>9 DEF Bufs
    <2>11. \A i \in 1..Len(Tail(z)) : Tx!Bare(Tail(z)[i].packet)
      <3>1. \A i \in 1..(Len(z) - 1) : i + 1 \in 1..Len(z)
        BY <1>2, LenProperties
      <3>2. QED BY <1>3, <2>3, <3>1
    <2>12. Shaped(t)
      BY <1>3, <2>8, <2>10, <2>11 DEF Shaped, Tx!HeadersOK
    <2>13. Holding(t) = Holding(s) /\ Amount(t) = Amount(s)
      <3>1. Tx!Numbers(Tx!Units(r)) = Tx!Numbers(Tx!Units(l)) /\ Count(Tx!Units(r)) = Count(Tx!Units(l))
        BY <1>1, <1>4, <2>5, <2>6, <2>8
      <3>2. QED BY <1>1, <2>10, <3>1 DEF Holding, Amount
    <2>14. Filling(t) <= Filling(s)
      <3>1. PICK a, b, c, d : a = Tx!Size(q) /\ b = Tx!Size(z) /\ c = Tx!Size(Tail(z)) /\ d = Len(u)
        OBVIOUS
      <3>2. a \in Nat /\ b \in Nat /\ d \in Nat /\ c + d = b /\ c \in Nat
        <4>1. c \in Nat
          BY <2>2, <2>3, <3>1, CountType
        <4>2. QED BY <1>4, <2>1, <2>3, <2>4, <3>1, <4>1
      <3>3. Filling(t) = a + c /\ Filling(s) = a + b
        BY <1>1, <2>10, <3>1 DEF Filling
      <3>4. QED BY <3>2, <3>3
    <2>15. QED BY <1>1, <2>10, <2>12, <2>13, <2>14 DEF Keeps
  <1>6. PICK k \in 0..Len(q) : Segment(q, maxSize, first, k, seg)
    BY <1>1, <1>2, SegmentIs
  <1>7. SegmentKept(q, seg)
    BY <1>2, <1>3, <1>6, SegmentKeeps
  <1>8. CASE z = <<>> /\ seg.packet # <<>>
    <2>1. PICK u, v, x : u = seg.packet /\ v = u \o AckTail(ack) /\ x = [zero |-> FALSE, packet |-> v]
      OBVIOUS
    <2>2. PICK d : d = seg.queue
      OBVIOUS
    <2>3. /\ u \in Packet /\ d \in Seq(QueueItem)
          /\ \A i \in 1..Len(d) : Tx!Opens(d[i].packet)
          /\ Tx!Opens(u)
          /\ Count(u) \in Nat /\ Count(Tx!Units(d)) \in Nat
          /\ Count(Tx!Units(q)) = Count(u) + Count(Tx!Units(d))
          /\ Tx!Numbers(Tx!Units(q)) = Tx!Numbers(u) \cup Tx!Numbers(Tx!Units(d))
          /\ Len(Tx!Units(d)) <= Len(Tx!Units(q))
      BY <1>7, <1>8, <2>1, <2>2 DEF SegmentKept
    <2>4. v \in Packet /\ Tx!Opens(v) /\ Count(v) = Count(u) /\ Tx!Numbers(v) = Tx!Numbers(u)
      BY <2>1, <2>3, AckTailIs
    <2>5. x \in SentItem /\ ~x.zero /\ x.packet = v
      BY <2>1, <2>4 DEF SentItem
    <2>6. PICK r : r = Tx!Record(s.sent, x)
      OBVIOUS
    <2>7. /\ r \in Seq(SentItem)
          /\ \A i \in 1..Len(r) : IF r[i].zero THEN Tx!Bare(r[i].packet) ELSE Tx!Opens(r[i].packet)
          /\ Count(Tx!Units(r)) = Count(Tx!Units(s.sent)) + Count(x.packet)
          /\ Tx!Numbers(Tx!Units(r)) = Tx!Numbers(Tx!Units(s.sent)) \cup Tx!Numbers(x.packet)
      BY <2>4, <2>5, <2>6, RecordShaped
    <2>8. t = [s EXCEPT !.queue = d, !.sent = r]
      <3>1. t = [s EXCEPT !.queue = seg.queue,
                          !.sent = Tx!Record(@, [zero |-> FALSE, packet |-> seg.packet \o AckTail(ack)])]
        BY <1>1, <1>8 DEF Tx!SendDataPacket, AckTail
      <3>2. QED BY <2>1, <2>2, <2>6, <3>1
    <2>9. t \in Bufs /\ t.queue = d /\ t.zero = z /\ t.sent = r /\ t.toRetx = s.toRetx
      BY <1>1, <1>2, <2>3, <2>7, <2>8 DEF Bufs
    <2>10. Shaped(t)
      BY <1>3, <2>3, <2>7, <2>9 DEF Shaped, Tx!HeadersOK
    <2>11. Holding(t) = Holding(s)
      BY <1>1, <2>3, <2>4, <2>5, <2>7, <2>9 DEF Holding
    <2>12. Amount(t) = Amount(s)
      <3>1. PICK a, b, c, e : a = Count(Tx!Units(d)) /\ b = Count(u) /\ c = Count(Tx!Units(l)) /\ e = Count(Tx!Units(q))
        OBVIOUS
      <3>2. a \in Nat /\ b \in Nat /\ c \in Nat /\ e = b + a
        BY <1>4, <2>3, <3>1
      <3>3. Count(Tx!Units(r)) = c + b
        BY <1>1, <2>4, <2>5, <2>7, <3>1
      <3>4. Amount(t) = a + (c + b) /\ Amount(s) = e + c
        BY <1>1, <2>9, <3>1, <3>3 DEF Amount
      <3>5. QED BY <3>2, <3>4
    <2>13. Filling(t) <= Filling(s)
      <3>1. PICK a, b, c : a = Tx!Size(d) /\ b = Tx!Size(q) /\ c = Tx!Size(z)
        OBVIOUS
      <3>2. a \in Nat /\ b \in Nat /\ c \in Nat /\ a <= b
        <4>1. HasPackets(QueueItem)
          BY ItemsHold
        <4>2. a \in Nat
          BY <2>3, <3>1, <4>1, CountType
        <4>3. QED BY <1>4, <2>3, <3>1, <4>2 DEF Tx!Size
      <3>3. Filling(t) = a + c /\ Filling(s) = b + c
        BY <1>1, <2>9, <3>1 DEF Filling
      <3>4. QED BY <3>2, <3>3
    <2>14. QED BY <1>1, <2>9, <2>10, <2>11, <2>12, <2>13 DEF Keeps
  <1>9. CASE z = <<>> /\ seg.packet = <<>>
    <2>1. t = s
      BY <1>1, <1>9 DEF Tx!SendDataPacket, AckTail
    <2>2. Filling(s) <= Filling(s)
      BY <1>4
    <2>3. QED BY <1>1, <2>1, <2>2 DEF Keeps
  <1>10. QED BY <1>5, <1>8, <1>9

-----------------------------------------------------------------------------
\* Packets sent one after the other keep what each of them keeps.
LEMMA SendPacketsIn ==
    ASSUME NEW V, NEW s \in V, NEW sizes \in Seq(Nat), NEW ack, NEW first,
           \A t \in V, m \in Nat : Tx!SendDataPacket(t, m, ack, first) \in V
    PROVE  Tx!SendPackets(s, sizes, ack, first) \in V
  <1>1. PICK n : n = Len(sizes) /\ n \in Nat
    BY LenProperties
  <1>2. \A i \in 1..n : sizes[i] \in Nat
    BY <1>1, ElementOfSeq
  <1> DEFINE step == [w \in V \X (1..n) |-> Tx!SendDataPacket(w[1], sizes[w[2]], ack, first)]
             Eq(f) == f = [i \in 0..Len(sizes) |-> IF i = 0 THEN s
                                        ELSE Tx!SendDataPacket(f[i - 1], sizes[i], ack, first)]
  <1>3. \A t \in V, i \in 1..n : step[<<t, i>>] = Tx!SendDataPacket(t, sizes[i], ack, first)
    OBVIOUS
  <1>4. step \in [V \X (1..n) -> V]
    BY <1>2
  <1> HIDE DEF step
  <1>5. PICK f \in [0..n -> V] : Recursive(f, n, s, step)
    BY <1>1, <1>4, RecursionExists
  <1>6. Eq(f)
    <2>1. \A i \in 0..n : i # 0 => step[<<f[i - 1], i>>] = Tx!SendDataPacket(f[i - 1], sizes[i], ack, first)
      <3>1. ASSUME NEW i \in 0..n, i # 0
            PROVE  i \in 1..n /\ f[i - 1] \in V
        BY <1>1, <1>5, <3>1, SMTT(30)
      <3>2. QED BY <1>3, <3>1, Zenon
    <2>2. f = [i \in 0..n |-> IF i = 0 THEN s ELSE step[<<f[i - 1], i>>]]
      BY <1>5 DEF Recursive
    <2>3. QED BY <1>1, <2>1, <2>2
  <1>7. PICK g : g = CHOOSE h : Eq(h)
    OBVIOUS
  <1>8. g = [i \in 0..n |-> IF i = 0 THEN s ELSE Tx!SendDataPacket(g[i - 1], sizes[i], ack, first)]
    BY <1>1, <1>6, <1>7
  <1>9. Tx!SendPackets(s, sizes, ack, first) = g[n]
    BY <1>1, <1>7 DEF Tx!SendPackets
  <1>10. g[0] \in V /\ \A i \in 1..n : g[i] = Tx!SendDataPacket(g[i - 1], sizes[i], ack, first)
    <2>1. 0 \in 0..n /\ \A i \in 1..n : i \in 0..n /\ i # 0
      BY <1>1
    <2>2. \A i \in 0..n : g[i] = IF i = 0 THEN s ELSE Tx!SendDataPacket(g[i - 1], sizes[i], ack, first)
      BY <1>8, Zenon
    <2>3. QED BY <2>1, <2>2, Zenon
  <1>11. \A i \in 1..n : g[i - 1] \in V => g[i] \in V
    BY <1>2, <1>10
  <1>12. \A i \in 0..n : g[i] \in V
    BY <1>1, <1>10, <1>11, RecursionIn
  <1>13. QED BY <1>1, <1>9, <1>12

\* The item a frame of the stream becomes.
NewItem(f) == [retx |-> FALSE, key |-> f.offset, packet |-> Tx!StreamFrame(f)]

\* The queue while frames are added one after the other.
Adding(g, fs) ==
    /\ g[0] = queue
    /\ \A i \in 0..Len(fs) : g[i] \in Seq(QueueItem)
    /\ \A i \in 1..Len(fs) : g[i] = Tx!Insert(g[i - 1], NewItem(fs[i]), FALSE)

\* Add does this.
LEMMA AddIs ==
    ASSUME NEW fs, Len(fs) \in Nat, \A i \in 1..Len(fs) : NewItem(fs[i]) \in QueueItem,
           queue \in Seq(QueueItem), Tx!Add(fs)
    PROVE  \E g : Adding(g, fs) /\ queue' = g[Len(fs)]
  <1>1. PICK n, V : n = Len(fs) /\ n \in Nat /\ V = Seq(QueueItem)
    OBVIOUS
  <1> DEFINE step == [w \in V \X (1..n) |-> Tx!Insert(w[1], NewItem(fs[w[2]]), FALSE)]
             Eq(f) == f = [i \in 0..Len(fs) |-> IF i = 0 THEN queue
                                     ELSE Tx!Insert(f[i - 1], NewItem(fs[i]), FALSE)]
  <1>2. \A q \in V, i \in 1..n : step[<<q, i>>] = Tx!Insert(q, NewItem(fs[i]), FALSE)
    OBVIOUS
  <1>3. \A q \in V, i \in 1..n : Tx!Insert(q, NewItem(fs[i]), FALSE) \in V
    <2>1. SUFFICES ASSUME NEW q \in V, NEW i \in 1..n
                   PROVE  Tx!Insert(q, NewItem(fs[i]), FALSE) \in V
      OBVIOUS
    <2>2. PICK x : x = NewItem(fs[i]) /\ x \in QueueItem
      BY <1>1
    <2>3. QED BY <1>1, <2>2, InsertGains
  <1>4. step \in [V \X (1..n) -> V]
    BY <1>3
  <1> HIDE DEF step
  <1>5. PICK f \in [0..n -> V] : Recursive(f, n, queue, step)
    BY <1>1, <1>4, RecursionExists
  <1>6. Eq(f)
    <2>1. \A i \in 0..n : i # 0 => step[<<f[i - 1], i>>] = Tx!Insert(f[i - 1], NewItem(fs[i]), FALSE)
      <3>1. ASSUME NEW i \in 0..n, i # 0
            PROVE  i \in 1..n /\ f[i - 1] \in V
        BY <1>1, <1>5, <3>1
      <3>2. QED BY <1>2, <3>1, Zenon
    <2>2. f = [i \in 0..n |-> IF i = 0 THEN queue ELSE step[<<f[i - 1], i>>]]
      BY <1>5 DEF Recursive
    <2>3. QED BY <1>1, <2>1, <2>2
  <1>7. PICK g : g = CHOOSE h : Eq(h)
    OBVIOUS
  <1>8. g = [i \in 0..n |-> IF i = 0 THEN queue ELSE Tx!Insert(g[i - 1], NewItem(fs[i]), FALSE)]
    BY <1>1, <1>6, <1>7
  <1>9. queue' = g[n]
    BY <1>1, <1>7 DEF Tx!Add, NewItem
  <1>10. g[0] = queue /\ g[0] \in V /\ \A i \in 1..n : g[i] = Tx!Insert(g[i - 1], NewItem(fs[i]), FALSE)
    <2>1. 0 \in 0..n /\ (\A i \in 1..n : i \in 0..n /\ i # 0) /\ queue \in V
      BY <1>1
    <2>2. \A i \in 0..n : g[i] = IF i = 0 THEN queue ELSE Tx!Insert(g[i - 1], NewItem(fs[i]), FALSE)
      BY <1>8, Zenon
    <2>3. QED BY <2>1, <2>2, Zenon
  <1>11. \A i \in 1..n : g[i - 1] \in V => g[i] \in V
    BY <1>3, <1>10
  <1>12. \A i \in 0..n : g[i] \in V
    BY <1>1, <1>10, <1>11, RecursionIn
  <1>13. Adding(g, fs)
    BY <1>1, <1>10, <1>12 DEF Adding
  <1>14. QED BY <1>1, <1>9, <1>13

\* The packets of the sent list that Retransmission has handled, from the last.
Handled(s, i, lost, first) ==
    IF i \in lost THEN Tx!Requeue(s, sent[i], first)
    ELSE [s EXCEPT !.sent = <<sent[i]>> \o @]

\* A lost packet goes back.
LEMMA RequeueType ==
    ASSUME NEW s \in Bufs, NEW x \in SentItem, NEW first, IF x.zero THEN TRUE ELSE Tx!Opens(x.packet)
    PROVE  /\ Tx!Requeue(s, x, first) \in Bufs
           /\ x.zero => [retx |-> TRUE, key |-> 0, packet |-> x.packet] \in QueueItem
           /\ ~x.zero => [retx |-> TRUE, key |-> Head(x.packet).n, packet |-> x.packet] \in QueueItem
  <1>1. PICK u : u = x.packet /\ u \in Packet /\ Len(u) \in Nat
    BY LenProperties DEF SentItem, Packet
  <1>2. /\ s.queue \in Seq(QueueItem) /\ s.zero \in Seq(ZeroItem) /\ s.sent \in Seq(SentItem)
        /\ s.toRetx \in Nat
    BY DEF Bufs
  <1>3. CASE x.zero
    <2>1. PICK z : z = [packet |-> u] /\ z \in ZeroItem
      <3>1. [packet |-> u] \in ZeroItem
        BY <1>1 DEF ZeroItem
      <3>2. QED BY <3>1
    <2>2. <<z>> \o s.zero \in Seq(ZeroItem)
      <3>1. <<z>> \in Seq(ZeroItem)
        BY <2>1
      <3>2. QED BY <1>2, <3>1, ConcatProperties
    <2>3. s.toRetx + Len(u) \in Nat
      BY <1>1, <1>2
    <2>4. Tx!Requeue(s, x, first) = [s EXCEPT !.zero = <<z>> \o @, !.toRetx = @ + Len(u)]
      BY <1>1, <1>3, <2>1 DEF Tx!Requeue
    <2>5. Tx!Requeue(s, x, first) \in Bufs
      BY <2>2, <2>3, <2>4 DEF Bufs
    <2>6. [retx |-> TRUE, key |-> 0, packet |-> x.packet] \in QueueItem
      BY <1>1 DEF QueueItem
    <2>7. QED BY <1>3, <2>5, <2>6
  <1>4. CASE ~x.zero
    <2>1. u # <<>> /\ Head(u) \in Tx!AnyUnit
      <3>1. u # <<>>
        BY <1>1, <1>4 DEF Tx!Opens
      <3>2. QED BY <1>1, <3>1, HeadTailProperties DEF Packet
    <2>2. Head(u).n \in Nat
      BY <2>1 DEF Tx!AnyUnit
    <2>3. PICK y : y = [retx |-> TRUE, key |-> Head(u).n, packet |-> u] /\ y \in QueueItem
      <3>1. [retx |-> TRUE, key |-> Head(u).n, packet |-> u] \in QueueItem
        BY <1>1, <2>2 DEF QueueItem
      <3>2. QED BY <3>1
    <2>4. Tx!Insert(s.queue, y, first) \in Seq(QueueItem)
      BY <1>2, <2>3, InsertGains
    <2>5. s.toRetx + Len(u) \in Nat
      BY <1>1, <1>2
    <2>6. Tx!Requeue(s, x, first) = [s EXCEPT !.queue = Tx!Insert(@, y, first), !.toRetx = @ + Len(u)]
      BY <1>1, <1>4, <2>3 DEF Tx!Requeue
    <2>7. Tx!Requeue(s, x, first) \in Bufs
      BY <2>4, <2>5, <2>6 DEF Bufs
    <2>8. QED BY <1>1, <1>4, <2>3, <2>7
  <1>5. QED BY <1>3, <1>4

\* The buffer while Retransmission works.
Resending(g, lost, first) ==
    /\ g[0] = [Tx!Buffer EXCEPT !.sent = <<>>]
    /\ \A k \in 0..Len(sent) : g[k] \in Bufs
    /\ \A k \in 1..Len(sent) : g[k] = Handled(g[k - 1], Len(sent) - k + 1, lost, first)

\* Retransmission does this.
LEMMA RetransmissionIs ==
    ASSUME NEW lost, NEW first, Shaped(Tx!Buffer)
    PROVE  \E g : Resending(g, lost, first) /\ Tx!Retransmission(lost, first) = g[Len(sent)]
  <1>1. /\ Tx!Buffer \in Bufs /\ sent \in Seq(SentItem)
        /\ \A i \in 1..Len(sent) : IF sent[i].zero THEN Tx!Bare(sent[i].packet) ELSE Tx!Opens(sent[i].packet)
    BY DEF Shaped, Bufs, Tx!Buffer, Tx!HeadersOK
  <1>2. PICK n, B : n = Len(sent) /\ n \in Nat /\ B = [Tx!Buffer EXCEPT !.sent = <<>>]
    BY <1>1, LenProperties
  <1>3. B \in Bufs
    <2>1. <<>> \in Seq(SentItem)
      BY EmptySeq
    <2>2. QED BY <1>1, <1>2, <2>1 DEF Bufs
  <1> DEFINE V == Bufs
             step == [w \in V \X (1..n) |-> Handled(w[1], n - w[2] + 1, lost, first)]
             Eq(f) == f = [k \in 0..Len(sent) |-> IF k = 0 THEN [Tx!Buffer EXCEPT !.sent = <<>>]
                                     ELSE IF Len(sent) - k + 1 \in lost
                                          THEN Tx!Requeue(f[k - 1], sent[Len(sent) - k + 1], first)
                                          ELSE [f[k - 1] EXCEPT !.sent = <<sent[Len(sent) - k + 1]>> \o @]]
  <1>4. \A s \in V, k \in 1..n : step[<<s, k>>] = Handled(s, n - k + 1, lost, first)
    OBVIOUS
  <1>5. \A s \in V, k \in 1..n : Handled(s, n - k + 1, lost, first) \in V
    <2>1. SUFFICES ASSUME NEW s \in V, NEW k \in 1..n
                   PROVE  Handled(s, n - k + 1, lost, first) \in V
      OBVIOUS
    <2>2. PICK i : i = n - k + 1 /\ i \in 1..n
      BY <1>2
    <2>3. PICK x : x = sent[i] /\ x \in SentItem /\ IF x.zero THEN TRUE ELSE Tx!Opens(x.packet)
      BY <1>1, <1>2, <2>2, ElementOfSeq
    <2>4. Tx!Requeue(s, x, first) \in Bufs
      BY <2>3, RequeueType
    <2>5. <<x>> \o s.sent \in Seq(SentItem)
      <3>1. <<x>> \in Seq(SentItem) /\ s.sent \in Seq(SentItem)
        BY <2>3 DEF Bufs
      <3>2. QED BY <3>1, ConcatProperties
    <2>6. [s EXCEPT !.sent = <<x>> \o @] \in Bufs
      BY <2>5 DEF Bufs
    <2>7. QED BY <2>2, <2>3, <2>4, <2>6 DEF Handled
  <1>6. step \in [V \X (1..n) -> V]
    BY <1>5
  <1> HIDE DEF step
  <1>7. PICK f \in [0..n -> V] : Recursive(f, n, B, step)
    BY <1>2, <1>3, <1>6, RecursionExists
  <1>8. Eq(f)
    <2>1. \A k \in 0..n : k # 0 => step[<<f[k - 1], k>>] = Handled(f[k - 1], n - k + 1, lost, first)
      <3>1. ASSUME NEW k \in 0..n, k # 0
            PROVE  k \in 1..n /\ f[k - 1] \in V
        BY <1>2, <1>7, <3>1
      <3>2. QED BY <1>4, <3>1, Zenon
    <2>2. f = [k \in 0..n |-> IF k = 0 THEN B ELSE step[<<f[k - 1], k>>]]
      BY <1>7 DEF Recursive
    <2>3. f = [k \in 0..n |-> IF k = 0 THEN B ELSE Handled(f[k - 1], n - k + 1, lost, first)]
      BY <2>1, <2>2
    <2>4. QED BY <1>2, <2>3 DEF Handled
  <1>9. PICK g : g = CHOOSE h : Eq(h)
    OBVIOUS
  <1>10. Eq(g)
    BY <1>8, <1>9
  <1>11. g = [k \in 0..n |-> IF k = 0 THEN B ELSE Handled(g[k - 1], n - k + 1, lost, first)]
    BY <1>2, <1>10 DEF Handled
  <1>12. Tx!Retransmission(lost, first) = g[n]
    BY <1>2, <1>9 DEF Tx!Retransmission
  <1>13. g[0] = B /\ g[0] \in V /\ \A k \in 1..n : g[k] = Handled(g[k - 1], n - k + 1, lost, first)
    <2>1. 0 \in 0..n /\ \A k \in 1..n : k \in 0..n /\ k # 0
      BY <1>2
    <2>2. \A k \in 0..n : g[k] = IF k = 0 THEN B ELSE Handled(g[k - 1], n - k + 1, lost, first)
      BY <1>11, Zenon
    <2>3. QED BY <1>3, <2>1, <2>2, Zenon
  <1>14. \A k \in 1..n : g[k - 1] \in V => g[k] \in V
    BY <1>5, <1>13
  <1>15. \A k \in 0..n : g[k] \in V
    BY <1>2, <1>13, <1>14, RecursionIn
  <1>16. Resending(g, lost, first)
    BY <1>2, <1>13, <1>15 DEF Resending
  <1>17. QED BY <1>2, <1>12, <1>16

-----------------------------------------------------------------------------
\* A list with an item in front.
LEMMA ConsIs ==
    ASSUME NEW R, HasPackets(R), NEW q \in Seq(R), NEW x \in R
    PROVE  /\ <<x>> \o q \in Seq(R) /\ Len(<<x>> \o q) = Len(q) + 1
           /\ (<<x>> \o q)[1] = x /\ \A i \in 1..Len(q) : (<<x>> \o q)[i + 1] = q[i]
           /\ Gains(<<x>> \o q, q, x.packet)
           /\ Draws(<<x>> \o q, q, x)
  <1>1. PICK n, o, c : n = Len(q) /\ n \in Nat /\ o = <<x>> /\ c = <<x>> \o q
    BY LenProperties
  <1>2. o \in Seq(R) /\ Len(o) = 1 /\ o[1] = x
    BY <1>1
  <1>3. /\ c \in Seq(R) /\ Len(c) = 1 + n
        /\ \A i \in 1..(1 + n) : c[i] = IF i <= 1 THEN o[i] ELSE q[i - 1]
    <2>1. /\ o \o q \in Seq(R) /\ Len(o \o q) = Len(o) + Len(q)
          /\ \A i \in 1..(Len(o) + Len(q)) : (o \o q)[i] = IF i <= Len(o) THEN o[i] ELSE q[i - Len(o)]
      BY <1>2, ConcatProperties
    <2>2. QED BY <1>1, <1>2, <2>1
  <1>4. c[1] = x /\ \A i \in 1..n : c[i + 1] = q[i]
    BY <1>1, <1>2, <1>3
  <1>5. \A i \in 1..(n + 1) : c[i] = x \/ \E j \in 1..n : c[i] = q[j]
    <2>1. SUFFICES ASSUME NEW i \in 1..(n + 1), i # 1
                   PROVE  \E j \in 1..n : c[i] = q[j]
      BY <1>4
    <2>2. i - 1 \in 1..n /\ i = (i - 1) + 1
      BY <1>1, <2>1
    <2>3. QED BY <1>4, <2>2
  <1>6. PICK u, v : u = x.packet /\ v = Tx!Units(q) /\ u \in Packet /\ v \in Packet
    BY UnitsIs DEF HasPackets
  <1>7. Tx!Units(c) = u \o v
    <2>1. Tx!Units(o \o q) = Tx!Units(o) \o Tx!Units(q)
      BY <1>2, UnitsConcat
    <2>2. Tx!Units(<<x>>) = x.packet
      BY UnitsSmall
    <2>3. QED BY <1>1, <1>6, <2>1, <2>2
  <1>8. /\ Count(u) \in Nat /\ Count(v) \in Nat /\ Count(u \o v) = Count(u) + Count(v)
        /\ Tx!Numbers(u \o v) = Tx!Numbers(u) \cup Tx!Numbers(v)
    BY <1>6, BytesConcat
  <1>9. Len(u \o v) = Len(u) + Len(v) /\ Len(u) \in Nat /\ Len(v) \in Nat
    BY <1>6, ConcatProperties, LenProperties DEF Packet
  <1>10. Gains(c, q, u)
    <2>1. Len(u \o v) = Len(v) + Len(u)
      BY <1>9
    <2>2. Count(u \o v) = Count(v) + Count(u)
      BY <1>8
    <2>3. Tx!Numbers(u \o v) = Tx!Numbers(v) \cup Tx!Numbers(u)
      BY <1>8
    <2>4. QED BY <1>6, <1>7, <2>1, <2>2, <2>3 DEF Gains
  <1>11. Len(c) = n + 1
    BY <1>1, <1>3
  <1>12. Draws(c, q, x)
    BY <1>1, <1>5, <1>11 DEF Draws
  <1>13. QED BY <1>1, <1>3, <1>4, <1>6, <1>10, <1>11, <1>12

\* The packet of a sent item is what its kind says.
Proper(x) == x \in SentItem /\ IF x.zero THEN Tx!Bare(x.packet) ELSE Tx!Opens(x.packet)

\* The buffer t is s with the bytes of the packet of x.
Receives(s, t, x) ==
    /\ Shaped(t)
    /\ Holding(t) = Holding(s) \cup Tx!Numbers(x.packet)
    /\ Amount(t) = Amount(s) + Count(x.packet)

\* A lost packet goes back to the queue or to stream 0, another to the sent list.
LEMMA HandledKeeps ==
    ASSUME NEW s, Shaped(s), NEW i, Proper(sent[i]), NEW lost, NEW first
    PROVE  Receives(s, Handled(s, i, lost, first), sent[i])
  <1>1. PICK x, u, t, q, z, l : /\ x = sent[i] /\ u = x.packet /\ t = Handled(s, i, lost, first)
                                /\ q = s.queue /\ z = s.zero /\ l = s.sent
    OBVIOUS
  <1>2. s \in Bufs /\ q \in Seq(QueueItem) /\ z \in Seq(ZeroItem) /\ l \in Seq(SentItem) /\ s.toRetx \in Nat
    BY <1>1 DEF Shaped, Bufs
  <1>3. /\ \A j \in 1..Len(q) : Tx!Opens(q[j].packet)
        /\ \A j \in 1..Len(z) : Tx!Bare(z[j].packet)
        /\ \A j \in 1..Len(l) : IF l[j].zero THEN Tx!Bare(l[j].packet) ELSE Tx!Opens(l[j].packet)
    BY <1>1 DEF Shaped, Tx!HeadersOK
  <1>4. x \in SentItem /\ u \in Packet /\ Len(u) \in Nat /\ (IF x.zero THEN Tx!Bare(u) ELSE Tx!Opens(u))
    <2>1. x \in SentItem /\ u \in Packet /\ (IF x.zero THEN Tx!Bare(u) ELSE Tx!Opens(u))
      BY <1>1 DEF Proper, SentItem
    <2>2. QED BY <2>1, LenProperties DEF Packet
  <1>5. PICK cq, cl, cu, nq, nl, nu : /\ cq = Count(Tx!Units(q)) /\ cl = Count(Tx!Units(l)) /\ cu = Count(u)
                                      /\ nq = Tx!Numbers(Tx!Units(q)) /\ nl = Tx!Numbers(Tx!Units(l))
                                      /\ nu = Tx!Numbers(u)
    OBVIOUS
  <1>6. cq \in Nat /\ cl \in Nat /\ cu \in Nat /\ Amount(s) = cq + cl /\ Holding(s) = nq \cup nl
    <2>1. cu \in Nat
      BY <1>4, <1>5, BytesConcat
    <2>2. QED BY <1>1, <1>2, <1>5, <2>1, BufType DEF Amount, Holding
  <1>7. CASE i \in lost /\ x.zero
    <2>1. PICK y : y = [packet |-> u]
      OBVIOUS
    <2>2. y \in ZeroItem /\ y.packet = u /\ Tx!Bare(u)
      BY <1>4, <1>7, <2>1 DEF ZeroItem
    <2>3. t = [s EXCEPT !.zero = <<y>> \o @, !.toRetx = @ + Len(u)]
      BY <1>1, <1>7, <2>1 DEF Handled, Tx!Requeue
    <2>4. PICK c : c = <<y>> \o z
      OBVIOUS
    <2>5. c \in Seq(ZeroItem) /\ Draws(c, z, y)
      <3>1. HasPackets(ZeroItem)
        BY ItemsHold
      <3>2. <<y>> \o z \in Seq(ZeroItem) /\ Draws(<<y>> \o z, z, y)
        BY <1>2, <2>2, <3>1, ConsIs
      <3>3. QED BY <2>4, <3>2
    <2>6. s.toRetx + Len(u) \in Nat
      BY <1>2, <1>4
    <2>7. t \in Bufs /\ t.queue = q /\ t.zero = c /\ t.sent = l
      BY <1>1, <1>2, <2>3, <2>4, <2>5, <2>6 DEF Bufs
    <2>8. \A j \in 1..Len(c) : Tx!Bare(c[j].packet)
      BY <1>3, <2>2, <2>5 DEF Draws
    <2>9. Shaped(t)
      BY <1>3, <2>7, <2>8 DEF Shaped, Tx!HeadersOK
    <2>10. cu = 0 /\ nu = {}
      BY <1>4, <1>5, <2>2, BareHolds
    <2>11. Amount(t) = cq + cl /\ Holding(t) = nq \cup nl
      BY <1>5, <2>7 DEF Amount, Holding
    <2>12. Amount(t) = Amount(s) + cu /\ Holding(t) = Holding(s) \cup nu
      BY <1>6, <2>10, <2>11
    <2>13. QED BY <1>1, <1>5, <2>9, <2>12 DEF Receives
  <1>8. CASE i \in lost /\ ~x.zero
    <2>1. PICK y, c : y = [retx |-> TRUE, key |-> Head(x.packet).n, packet |-> x.packet] /\ c = Tx!Insert(q, y, first)
      OBVIOUS
    <2>2. y \in QueueItem
      <3>1. IF x.zero THEN TRUE ELSE Tx!Opens(x.packet)
        BY <1>1, <1>4
      <3>2. QED BY <1>2, <1>4, <1>8, <2>1, <3>1, RequeueType
    <2>3. y.packet = u /\ Tx!Opens(u)
      BY <1>1, <1>4, <1>8, <2>1
    <2>4. t = [s EXCEPT !.queue = Tx!Insert(@, y, first), !.toRetx = @ + Len(u)]
      BY <1>1, <1>8, <2>1 DEF Handled, Tx!Requeue
    <2>5. c \in Seq(QueueItem) /\ Gains(c, q, y.packet) /\ Draws(c, q, y)
      BY <1>2, <2>1, <2>2, InsertGains
    <2>6. s.toRetx + Len(u) \in Nat
      BY <1>2, <1>4
    <2>7. t \in Bufs /\ t.queue = c /\ t.zero = z /\ t.sent = l
      BY <1>1, <1>2, <2>1, <2>4, <2>5, <2>6 DEF Bufs
    <2>8. \A j \in 1..Len(c) : Tx!Opens(c[j].packet)
      BY <1>3, <2>3, <2>5 DEF Draws
    <2>9. Shaped(t)
      BY <1>3, <2>7, <2>8 DEF Shaped, Tx!HeadersOK
    <2>10. Count(Tx!Units(c)) = cq + cu /\ Tx!Numbers(Tx!Units(c)) = nq \cup nu
      BY <1>5, <2>3, <2>5 DEF Gains
    <2>11. Amount(t) = (cq + cu) + cl /\ Holding(t) = (nq \cup nu) \cup nl
      BY <1>5, <2>7, <2>10 DEF Amount, Holding
    <2>12. Amount(t) = Amount(s) + cu /\ Holding(t) = Holding(s) \cup nu
      BY <1>6, <2>11
    <2>13. QED BY <1>1, <1>5, <2>9, <2>12 DEF Receives
  <1>9. CASE i \notin lost
    <2>1. PICK c : c = <<x>> \o l
      OBVIOUS
    <2>2. c \in Seq(SentItem) /\ Draws(c, l, x) /\ Gains(c, l, x.packet)
      <3>1. HasPackets(SentItem)
        BY ItemsHold
      <3>2. <<x>> \o l \in Seq(SentItem) /\ Draws(<<x>> \o l, l, x) /\ Gains(<<x>> \o l, l, x.packet)
        BY <1>2, <1>4, <3>1, ConsIs
      <3>3. QED BY <2>1, <3>2
    <2>3. t = [s EXCEPT !.sent = <<x>> \o @]
      BY <1>1, <1>9 DEF Handled
    <2>4. t \in Bufs /\ t.queue = q /\ t.zero = z /\ t.sent = c
      BY <1>1, <1>2, <2>1, <2>2, <2>3 DEF Bufs
    <2>5. \A j \in 1..Len(c) : IF c[j].zero THEN Tx!Bare(c[j].packet) ELSE Tx!Opens(c[j].packet)
      BY <1>1, <1>3, <1>4, <2>2 DEF Draws
    <2>6. Shaped(t)
      BY <1>3, <2>4, <2>5 DEF Shaped, Tx!HeadersOK
    <2>7. Count(Tx!Units(c)) = cl + cu /\ Tx!Numbers(Tx!Units(c)) = nl \cup nu
      BY <1>1, <1>5, <2>2 DEF Gains
    <2>8. Amount(t) = cq + (cl + cu) /\ Holding(t) = nq \cup (nl \cup nu)
      BY <1>5, <2>4, <2>7 DEF Amount, Holding
    <2>9. Amount(t) = Amount(s) + cu /\ Holding(t) = Holding(s) \cup nu
      BY <1>6, <2>8
    <2>10. QED BY <1>1, <1>5, <2>6, <2>9 DEF Receives
  <1>10. QED BY <1>7, <1>8, <1>9

\* No items.
LEMMA NoItems == /\ Tx!Units(<<>>) = <<>> /\ Tx!Size(<<>>) = 0
                 /\ Count(Tx!Units(<<>>)) = 0 /\ Tx!Numbers(Tx!Units(<<>>)) = {}
  <1>1. Tx!Units(<<>>) = <<>>
    <2>1. <<>> \in Packet
      BY EmptySeq DEF Packet
    <2>2. [packet |-> <<>>] \in ZeroItem
      BY <2>1 DEF ZeroItem
    <2>3. QED BY <2>2, ItemsHold, UnitsSmall
  <1>2. Len(<<>>) = 0
    OBVIOUS
  <1>3. Tx!Places(<<>>) = {}
    BY <1>2 DEF Tx!Places
  <1>4. Count(<<>>) = 0 /\ Tx!Numbers(<<>>) = {}
    BY <1>3, FS_EmptySet DEF Count, Tx!Numbers
  <1>5. QED BY <1>1, <1>2, <1>4 DEF Tx!Size

\* Retransmission loses nothing.
LEMMA RetransmissionKeeps ==
    ASSUME Shaped(Tx!Buffer), NEW lost, NEW first, NEW g, Resending(g, lost, first)
    PROVE  /\ \A k \in 0..Len(sent) : Shaped(g[k])
           /\ Holding(g[Len(sent)]) = Holding(Tx!Buffer)
           /\ Amount(g[Len(sent)]) = Amount(Tx!Buffer)
  <1>1. /\ Tx!Buffer \in Bufs /\ sent \in Seq(SentItem) /\ queue \in Seq(QueueItem)
        /\ \A i \in 1..Len(queue) : Tx!Opens(queue[i].packet)
        /\ \A i \in 1..Len(zeroList) : Tx!Bare(zeroList[i].packet)
        /\ \A i \in 1..Len(sent) : IF sent[i].zero THEN Tx!Bare(sent[i].packet) ELSE Tx!Opens(sent[i].packet)
    BY DEF Shaped, Bufs, Tx!Buffer, Tx!HeadersOK
  <1>2. PICK n, B : n = Len(sent) /\ n \in Nat /\ B = [Tx!Buffer EXCEPT !.sent = <<>>]
    BY <1>1, LenProperties
  <1>3. HasPackets(SentItem)
    BY ItemsHold
  <1>4. \A i \in 1..n : Proper(sent[i])
    BY <1>1, <1>2, ElementOfSeq DEF Proper
  <1> DEFINE N(i) == Tx!Numbers(Tx!Units(SubSeq(sent, 1, i)))
             C(i) == Count(Tx!Units(SubSeq(sent, 1, i)))
  <1>5. ASSUME NEW i \in 1..n
        PROVE  /\ C(i) = C(i - 1) + Count(sent[i].packet) /\ N(i) = N(i - 1) \cup Tx!Numbers(sent[i].packet)
               /\ C(i - 1) \in Nat /\ Count(sent[i].packet) \in Nat
    <2>1. PICK j : j = i - 1 /\ j \in Nat /\ j < Len(sent) /\ j + 1 = i /\ j \in 0..Len(sent)
      BY <1>2
    <2>2. /\ sent[j + 1].packet \in Packet
          /\ Tx!Units(SubSeq(sent, 1, j + 1)) = Tx!Units(SubSeq(sent, 1, j)) \o sent[j + 1].packet
      BY <1>1, <1>3, <2>1, UnitsNext
    <2>3. SubSeq(sent, 1, j) \in Seq(SentItem)
      BY <1>1, <1>3, <2>1, ListSplit
    <2>4. PICK u, v : u = Tx!Units(SubSeq(sent, 1, j)) /\ v = sent[i].packet /\ u \in Packet /\ v \in Packet
      BY <1>3, <2>1, <2>2, <2>3, UnitsIs
    <2>5. /\ Count(u) \in Nat /\ Count(v) \in Nat /\ Count(u \o v) = Count(u) + Count(v)
          /\ Tx!Numbers(u \o v) = Tx!Numbers(u) \cup Tx!Numbers(v)
      BY <2>4, BytesConcat
    <2>6. C(i) = Count(u \o v) /\ N(i) = Tx!Numbers(u \o v) /\ C(i - 1) = Count(u) /\ N(i - 1) = Tx!Numbers(u)
      BY <2>1, <2>2, <2>4
    <2>7. QED BY <2>4, <2>5, <2>6
  <1>6. C(0) = 0 /\ N(0) = {}
    <2>1. SubSeq(sent, 1, 0) = <<>>
      BY <1>1, SubSeqEmpty
    <2>2. QED BY <2>1, NoItems
  <1>7. SubSeq(sent, 1, n) = sent
    BY <1>1, <1>2, SubSeqFull
  <1>8. /\ g[0] = B /\ \A k \in 0..n : g[k] \in Bufs
        /\ \A k \in 1..n : g[k] = Handled(g[k - 1], n - k + 1, lost, first)
    BY <1>2 DEF Resending
  <1>9. B.queue = queue /\ B.zero = zeroList /\ B.sent = <<>>
    BY <1>2 DEF Tx!Buffer
  <1> DEFINE P(k) == /\ Shaped(g[k])
                     /\ Holding(g[k]) \cup N(n - k) = Holding(Tx!Buffer)
                     /\ Amount(g[k]) + C(n - k) = Amount(Tx!Buffer)
             S == {k \in Nat : k <= n => P(k)}
  <1>10. Tx!Buffer.queue = queue /\ Tx!Buffer.sent = sent
    BY DEF Tx!Buffer
  <1>11. PICK cq, nq, cs, ns : /\ cq = Count(Tx!Units(queue)) /\ nq = Tx!Numbers(Tx!Units(queue))
                               /\ cs = Count(Tx!Units(sent)) /\ ns = Tx!Numbers(Tx!Units(sent))
    OBVIOUS
  <1>12. cq \in Nat /\ cs \in Nat /\ Holding(Tx!Buffer) = nq \cup ns /\ Amount(Tx!Buffer) = cq + cs
    BY <1>1, <1>10, <1>11, BufType DEF Holding, Amount
  <1>13. 0 \in S
    <2>1. Shaped(B)
      <3>1. \A i \in 1..Len(<<>>) : FALSE
        OBVIOUS
      <3>2. B \in Bufs
        BY <1>2, <1>8
      <3>3. QED BY <1>1, <1>9, <3>1, <3>2 DEF Shaped, Tx!HeadersOK
    <2>2. Holding(B) = nq /\ Amount(B) = cq
      <3>1. Holding(B) = nq \cup {} /\ Amount(B) = cq + 0
        BY <1>9, <1>11, NoItems DEF Holding, Amount
      <3>2. QED BY <1>12, <3>1
    <2>3. N(n - 0) = ns /\ C(n - 0) = cs
      <3>1. n - 0 = n
        BY <1>2
      <3>2. QED BY <1>7, <1>11, <3>1
    <2>4. QED BY <1>8, <1>12, <2>1, <2>2, <2>3
  <1>14. ASSUME NEW k \in Nat, k \in S
         PROVE  k + 1 \in S
    <2>1. SUFFICES ASSUME k + 1 <= n
                   PROVE  P(k + 1)
      OBVIOUS
    <2>2. PICK i : i = n - k /\ i \in 1..n /\ n - (k + 1) = i - 1 /\ n - (k + 1) + 1 = i
      BY <1>2, <2>1
    <2>3. k + 1 \in 1..n /\ (k + 1) - 1 = k
      BY <2>1
    <2>4. Shaped(g[k]) /\ Holding(g[k]) \cup N(i) = Holding(Tx!Buffer) /\ Amount(g[k]) + C(i) = Amount(Tx!Buffer)
      <3>1. k <= n
        BY <1>2, <2>1
      <3>2. P(k)
        <4> HIDE DEF P
        <4>1. QED BY <1>14, <3>1
      <3>3. QED BY <2>2, <3>2
    <2>5. PICK s, t, x : s = g[k] /\ t = g[k + 1] /\ x = sent[i]
      OBVIOUS
    <2>6. t = Handled(s, i, lost, first)
      BY <1>8, <2>2, <2>3, <2>5
    <2>7. Shaped(s) /\ Proper(sent[i])
      BY <1>4, <2>2, <2>4, <2>5
    <2>8. Receives(s, Handled(s, i, lost, first), sent[i])
      BY <2>7, HandledKeeps
    <2>9. /\ Shaped(t) /\ Holding(t) = Holding(s) \cup Tx!Numbers(x.packet)
          /\ Amount(t) = Amount(s) + Count(x.packet)
      BY <2>5, <2>6, <2>8 DEF Receives
    <2>10. /\ C(i) = C(i - 1) + Count(x.packet) /\ N(i) = N(i - 1) \cup Tx!Numbers(x.packet)
           /\ C(i - 1) \in Nat /\ Count(x.packet) \in Nat
      BY <1>5, <2>2, <2>5
    <2>11. Holding(t) \cup N(i - 1) = Holding(Tx!Buffer)
      BY <2>4, <2>5, <2>9, <2>10
    <2>12. Amount(t) + C(i - 1) = Amount(Tx!Buffer)
      <3>1. Amount(s) \in Nat
        BY <2>7, BufType DEF Shaped
      <3>2. PICK az, at, ci, cj, cx, ab : /\ az = Amount(s) /\ at = Amount(t) /\ ci = C(i) /\ cj = C(i - 1)
                                          /\ cx = Count(x.packet) /\ ab = Amount(Tx!Buffer)
        OBVIOUS
      <3>3. az \in Nat /\ cj \in Nat /\ cx \in Nat /\ ci = cj + cx /\ at = az + cx /\ ab = az + ci
        BY <2>4, <2>5, <2>9, <2>10, <3>1, <3>2
      <3>4. at + cj = ab
        BY <3>3
      <3>5. QED BY <3>2, <3>4
    <2>13. QED BY <2>2, <2>5, <2>9, <2>11, <2>12
  <1>15. \A k \in 0..n : P(k)
    <2> HIDE DEF P
    <2>1. \A k \in Nat : k \in S
      <3> HIDE DEF S
      <3>1. QED BY <1>13, <1>14, Induction
    <2>2. QED BY <2>1
  <1>16. P(n) /\ n - n = 0
    BY <1>2, <1>15
  <1>17. Holding(g[n]) \cup N(0) = Holding(Tx!Buffer) /\ Amount(g[n]) + C(0) = Amount(Tx!Buffer) /\ Shaped(g[n])
    BY <1>16
  <1>18. Amount(g[n]) \in Nat
    BY <1>17, BufType DEF Shaped
  <1>19. Holding(g[n]) = Holding(Tx!Buffer) /\ Amount(g[n]) = Amount(Tx!Buffer)
    <2>1. Holding(g[n]) \cup {} = Holding(Tx!Buffer) /\ Amount(g[n]) + 0 = Amount(Tx!Buffer)
      BY <1>6, <1>17
    <2>2. Amount(g[n]) + 0 = Amount(g[n])
      BY <1>18
    <2>3. QED BY <2>1, <2>2
  <1>20. QED BY <1>2, <1>15, <1>19

-----------------------------------------------------------------------------
\* A packet holds at least as many bytes as different ones.
LEMMA NumbersBound ==
    ASSUME NEW u \in Packet
    PROVE  /\ IsFiniteSet(Tx!Numbers(u)) /\ Cardinality(Tx!Numbers(u)) \in Nat
           /\ Cardinality(Tx!Numbers(u)) <= Count(u)
  <1>1. PICK n, A, N : n = Len(u) /\ n \in Nat /\ A = Tx!Places(u) /\ N = Tx!Numbers(u)
    BY LenProperties DEF Packet
  <1>2. A \subseteq 1..n
    BY <1>1 DEF Tx!Places
  <1>3. IsFiniteSet(A)
    <2>1. IsFiniteSet(1..n)
      <3>1. 1 \in Int /\ n \in Int
        BY <1>1
      <3>2. QED BY <3>1, FS_Interval
    <2>2. QED BY <1>2, <2>1, FS_Subset
  <1>4. N = {u[i].n : i \in A}
    BY <1>1 DEF Tx!Numbers
  <1> DEFINE f == [i \in A |-> u[i].n]
  <1>5. f \in Surjection(A, N)
    <2>1. f \in [A -> N]
      BY <1>4
    <2>2. \A m \in N : \E i \in A : f[i] = m
      BY <1>4
    <2>3. QED BY <2>1, <2>2 DEF Surjection
  <1> HIDE DEF f
  <1>6. IsFiniteSet(N) /\ Cardinality(N) <= Cardinality(A)
    BY <1>3, <1>5, FS_Surjection
  <1>7. Cardinality(N) \in Nat
    BY <1>6, FS_CardinalityType
  <1>8. QED BY <1>1, <1>6, <1>7 DEF Count

\* Of the bytes 0..(n - 1) those in H are held, c in number, and those in a are
\* acknowledged: each is in one place.
OnePlace(H, c, a, n) ==
    /\ H \cap a = {}
    /\ H \cup a = 0..(n - 1)
    /\ c = n - Cardinality(a)

\* If c places hold the bytes H and d places the bytes X and together they hold
\* each byte once, then no byte is in both and X has d bytes.
LEMMA OncePlaced ==
    ASSUME NEW H, NEW X, NEW a, NEW c \in Nat, NEW d \in Nat, NEW n \in Nat,
           IsFiniteSet(H), IsFiniteSet(X), Cardinality(H) <= c, Cardinality(X) <= d,
           OnePlace(H \cup X, c + d, a, n)
    PROVE  OnePlace(H, c, a \cup X, n)
  <1>1. (H \cup X) \cap a = {} /\ (H \cup X) \cup a = 0..(n - 1) /\ c + d = n - Cardinality(a)
    BY DEF OnePlace
  <1>2. IsFiniteSet(0..(n - 1)) /\ Cardinality(0..(n - 1)) = n
    <2>1. 0 \in Int /\ n - 1 \in Int
      OBVIOUS
    <2>2. IsFiniteSet(0..(n - 1)) /\ Cardinality(0..(n - 1)) = IF 0 > n - 1 THEN 0 ELSE (n - 1) - 0 + 1
      BY <2>1, FS_Interval
    <2>3. QED BY <2>2
  <1>3. IsFiniteSet(a)
    <2>1. a \subseteq 0..(n - 1)
      BY <1>1
    <2>2. QED BY <1>2, <2>1, FS_Subset
  <1>4. PICK Y : Y = H \cup X
    OBVIOUS
  <1>5. IsFiniteSet(Y) /\ Cardinality(Y) = Cardinality(H) + Cardinality(X) - Cardinality(H \cap X)
    BY <1>4, FS_Union
  <1>6. n = Cardinality(Y) + Cardinality(a)
    <2>1. Cardinality(Y \cup a) = Cardinality(Y) + Cardinality(a) - Cardinality(Y \cap a)
      BY <1>3, <1>5, FS_Union
    <2>2. Cardinality(Y \cap a) = 0
      <3>1. Y \cap a = {}
        BY <1>1, <1>4
      <3>2. QED BY <3>1, FS_EmptySet
    <2>3. Cardinality(Y \cup a) = n
      BY <1>1, <1>2, <1>4
    <2>4. Cardinality(Y) \in Nat /\ Cardinality(a) \in Nat
      BY <1>3, <1>5, FS_CardinalityType
    <2>5. QED BY <2>1, <2>2, <2>3, <2>4
  <1>7. IsFiniteSet(H \cap X)
    BY FS_Intersection
  <1>8. PICK h, x, i, y, e : /\ h = Cardinality(H) /\ x = Cardinality(X) /\ i = Cardinality(H \cap X)
                             /\ y = Cardinality(Y) /\ e = Cardinality(a)
    OBVIOUS
  <1>9. h \in Nat /\ x \in Nat /\ i \in Nat /\ y \in Nat /\ e \in Nat
    BY <1>3, <1>5, <1>7, <1>8, FS_CardinalityType
  <1>10. h <= c /\ x <= d /\ y = h + x - i /\ n = y + e /\ c + d = n - e
    BY <1>1, <1>5, <1>6, <1>8
  <1>11. i = 0 /\ x = d
    BY <1>9, <1>10
  <1>12. H \cap X = {}
    BY <1>7, <1>8, <1>11, FS_EmptySet
  <1>13. Cardinality(a \cup X) = e + d
    <2>1. Cardinality(a \cup X) = Cardinality(a) + Cardinality(X) - Cardinality(a \cap X)
      BY <1>3, FS_Union
    <2>2. a \cap X = {}
      BY <1>1
    <2>3. Cardinality(a \cap X) = 0
      BY <2>2, FS_EmptySet
    <2>4. QED BY <1>8, <1>9, <1>11, <2>1, <2>3
  <1>14. c = n - (e + d)
    BY <1>9, <1>10
  <1>15. H \cap (a \cup X) = {} /\ H \cup (a \cup X) = 0..(n - 1)
    BY <1>1, <1>12
  <1>16. QED BY <1>13, <1>14, <1>15 DEF OnePlace

\* A list without its item i.
LEMMA RemovedAt ==
    ASSUME NEW R, HasPackets(R), NEW q \in Seq(R), NEW i \in 1..Len(q)
    PROVE  /\ RemoveAt(q, i) \in Seq(R) /\ Gains(q, RemoveAt(q, i), q[i].packet)
           /\ \A j \in 1..Len(RemoveAt(q, i)) : \E k \in 1..Len(q) : RemoveAt(q, i)[j] = q[k]
  <1>1. PICK n, h, a, b, x : /\ n = Len(q) /\ n \in Nat /\ h = i - 1 /\ x = q[i]
                             /\ a = SubSeq(q, 1, i - 1) /\ b = SubSeq(q, i + 1, Len(q))
    BY LenProperties
  <1>2. h \in Nat /\ h < Len(q) /\ h + 1 = i /\ h + 2 = i + 1 /\ h \in 0..Len(q) /\ i \in 0..Len(q) /\ i \in 1..n
    BY <1>1
  <1>3. a \in Seq(R) /\ Len(a) = h /\ \A j \in 1..h : a[j] = q[j]
    <2>1. /\ SubSeq(q, 1, h) \in Seq(R) /\ Len(SubSeq(q, 1, h)) = h
          /\ \A j \in 1..h : SubSeq(q, 1, h)[j] = q[j]
      BY <1>2, ListSplit
    <2>2. QED BY <1>1, <2>1
  <1>4. b \in Seq(R) /\ Len(b) = n - i /\ \A j \in 1..(n - i) : b[j] = q[i + j]
    <2>1. /\ SubSeq(q, i + 1, Len(q)) \in Seq(R) /\ Len(SubSeq(q, i + 1, Len(q))) = Len(q) - i
          /\ \A j \in 1..(Len(q) - i) : SubSeq(q, i + 1, Len(q))[j] = q[i + j]
      BY <1>2, ListSplit
    <2>2. QED BY <1>1, <2>1
  <1>5. PICK c : c = RemoveAt(q, i) /\ c = a \o b
    BY <1>1 DEF RemoveAt
  <1>6. /\ c \in Seq(R) /\ Len(c) = h + (n - i)
        /\ \A j \in 1..(h + (n - i)) : c[j] = IF j <= h THEN a[j] ELSE b[j - h]
    <2>1. /\ a \o b \in Seq(R) /\ Len(a \o b) = Len(a) + Len(b)
          /\ \A j \in 1..(Len(a) + Len(b)) : (a \o b)[j] = IF j <= Len(a) THEN a[j] ELSE b[j - Len(a)]
      BY <1>3, <1>4, ConcatProperties
    <2>2. QED BY <1>3, <1>4, <1>5, <2>1
  <1>7. ASSUME NEW j \in 1..Len(c)
        PROVE  \E k \in 1..n : c[j] = q[k]
    <2>1. CASE j <= h
      <3>1. j \in 1..h /\ j \in 1..n /\ j \in 1..(h + (n - i))
        BY <1>1, <1>2, <1>6, <2>1
      <3>2. QED BY <1>3, <1>6, <2>1, <3>1
    <2>2. CASE ~(j <= h)
      <3>1. j - h \in 1..(n - i) /\ i + (j - h) \in 1..n /\ j \in 1..(h + (n - i))
        BY <1>1, <1>2, <1>6, <2>2
      <3>2. c[j] = q[i + (j - h)]
        BY <1>4, <1>6, <2>2, <3>1
      <3>3. QED BY <3>1, <3>2
    <2>3. QED BY <2>1, <2>2
  <1>8. PICK ua, ub, ux : ua = Tx!Units(a) /\ ub = Tx!Units(b) /\ ux = x.packet
    OBVIOUS
  <1>9. ua \in Packet /\ ub \in Packet /\ ux \in Packet
    <2>1. x \in R
      BY <1>1, <1>2, ElementOfSeq
    <2>2. QED BY <1>3, <1>4, <1>8, <2>1, UnitsIs DEF HasPackets
  <1>10. Tx!Units(c) = ua \o ub
    BY <1>3, <1>4, <1>5, <1>8, UnitsConcat
  <1>11. PICK ud : ud = ux \o ub
    OBVIOUS
  <1>12. Tx!Units(q) = ua \o ud
    <2>1. Tx!Units(q) = Tx!Units(SubSeq(q, 1, h)) \o Tx!Units(SubSeq(q, h + 1, Len(q)))
      BY <1>2, ListSplit
    <2>2. Tx!Units(SubSeq(q, h + 1, Len(q))) = q[h + 1].packet \o Tx!Units(SubSeq(q, h + 2, Len(q)))
      BY <1>2, UnitsNext
    <2>3. QED BY <1>1, <1>2, <1>8, <1>11, <2>1, <2>2
  <1>13. /\ ud \in Packet /\ Len(ud) = Len(ux) + Len(ub) /\ Len(ux) \in Nat /\ Len(ub) \in Nat /\ Len(ua) \in Nat
    BY <1>9, <1>11, ConcatProperties, LenProperties DEF Packet
  <1>14. Len(ua \o ud) = Len(ua) + Len(ud) /\ Len(ua \o ub) = Len(ua) + Len(ub)
    BY <1>9, <1>13, ConcatProperties DEF Packet
  <1>15. /\ Count(ua) \in Nat /\ Count(ub) \in Nat /\ Count(ux) \in Nat /\ Count(ud) \in Nat
         /\ Count(ud) = Count(ux) + Count(ub) /\ Tx!Numbers(ud) = Tx!Numbers(ux) \cup Tx!Numbers(ub)
         /\ Count(ua \o ud) = Count(ua) + Count(ud) /\ Tx!Numbers(ua \o ud) = Tx!Numbers(ua) \cup Tx!Numbers(ud)
         /\ Count(ua \o ub) = Count(ua) + Count(ub) /\ Tx!Numbers(ua \o ub) = Tx!Numbers(ua) \cup Tx!Numbers(ub)
    BY <1>9, <1>11, <1>13, BytesConcat
  <1>16. Len(ua \o ud) = Len(ua \o ub) + Len(ux)
    BY <1>13, <1>14
  <1>17. Count(ua \o ud) = Count(ua \o ub) + Count(ux)
    BY <1>15
  <1>18. Tx!Numbers(ua \o ud) = Tx!Numbers(ua \o ub) \cup Tx!Numbers(ux)
    BY <1>15
  <1>19. Gains(q, c, ux)
    BY <1>10, <1>12, <1>16, <1>17, <1>18 DEF Gains
  <1>20. QED BY <1>1, <1>5, <1>6, <1>7, <1>8, <1>19

-----------------------------------------------------------------------------
\* The order of the queue, item by item: x is new data that ends at e, and y is
\* behind the new data x.
New(x, e) ==
    /\ Tx!Frame(x.packet) /\ x.key <= x.packet[1].n
    /\ Tx!End(x.packet) = e
Follows(x, y) == x.key < y.key /\ Tx!End(x.packet) <= y.packet[1].n
Until(q, i, size) == IF i = Len(q) THEN size ELSE q[i + 1].packet[1].n

\* The order of the queue in these words.
LEMMA OrderedIs ==
    ASSUME NEW q, NEW size
    PROVE  Tx!Ordered(q, size) <=>
               /\ \A i, j \in 1..Len(q) : i < j /\ q[j].retx => q[i].retx
               /\ \A i \in 1..Len(q) : ~q[i].retx => New(q[i], Until(q, i, size))
               /\ \A i, j \in 1..Len(q) : i < j /\ ~q[i].retx => Follows(q[i], q[j])
  BY DEF Tx!Ordered, New, Follows, Until

\* What comes behind the first k items keeps its order.
LEMMA OrderedRest ==
    ASSUME NEW q \in Seq(QueueItem), NEW size, Tx!Ordered(q, size), NEW k \in 0..Len(q)
    PROVE  Tx!Ordered(SubSeq(q, k + 1, Len(q)), size)
  <1>1. PICK n, d : n = Len(q) /\ n \in Nat /\ d = SubSeq(q, k + 1, Len(q))
    BY LenProperties
  <1>2. Len(d) = n - k /\ \A i \in 1..(n - k) : d[i] = q[k + i]
    <2>1. HasPackets(QueueItem)
      BY ItemsHold
    <2>2. /\ Len(SubSeq(q, k + 1, Len(q))) = Len(q) - k
          /\ \A i \in 1..(Len(q) - k) : SubSeq(q, k + 1, Len(q))[i] = q[k + i]
      BY <2>1, ListSplit
    <2>3. QED BY <1>1, <2>2
  <1>3. /\ \A i, j \in 1..n : i < j /\ q[j].retx => q[i].retx
        /\ \A i \in 1..n : ~q[i].retx => New(q[i], Until(q, i, size))
        /\ \A i, j \in 1..n : i < j /\ ~q[i].retx => Follows(q[i], q[j])
    BY <1>1, OrderedIs
  <1>4. \A i \in 1..(n - k) : k + i \in 1..n
    BY <1>1
  <1>5. \A i, j \in 1..(n - k) : i < j => k + i < k + j
    BY <1>1
  <1>6. \A i, j \in 1..(n - k) : i < j /\ d[j].retx => d[i].retx
    BY <1>2, <1>3, <1>4, <1>5
  <1>7. \A i, j \in 1..(n - k) : i < j /\ ~d[i].retx => Follows(d[i], d[j])
    BY <1>2, <1>3, <1>4, <1>5
  <1>8. ASSUME NEW i \in 1..(n - k)
        PROVE  Until(d, i, size) = Until(q, k + i, size)
    <2>1. CASE i = n - k
      <3>1. k + i = n
        BY <1>1, <2>1
      <3>2. QED BY <1>1, <1>2, <2>1, <3>1 DEF Until
    <2>2. CASE i # n - k
      <3>1. i + 1 \in 1..(n - k) /\ k + (i + 1) = (k + i) + 1 /\ k + i # n
        BY <1>1, <2>2
      <3>2. d[i + 1] = q[(k + i) + 1]
        BY <1>2, <3>1
      <3>3. QED BY <1>1, <1>2, <2>2, <3>1, <3>2 DEF Until
    <2>3. QED BY <2>1, <2>2
  <1>9. \A i \in 1..(n - k) : ~d[i].retx => New(d[i], Until(d, i, size))
    BY <1>2, <1>3, <1>4, <1>8
  <1>10. Tx!Ordered(d, size)
    BY <1>2, <1>6, <1>7, <1>9, OrderedIs
  <1>11. QED BY <1>1, <1>10

\* A retransmission goes ahead of all new data.
LEMMA InsertRetx ==
    ASSUME NEW q \in Seq(QueueItem), NEW size, Tx!Ordered(q, size),
           NEW y \in QueueItem, y.retx, NEW first
    PROVE  Tx!Ordered(Tx!Insert(q, y, first), size)
  <1>1. PICK n, r : n = Len(q) /\ n \in Nat /\ r = Tx!Insert(q, y, first)
    BY LenProperties
  <1>2. PICK p \in 1..(n + 1) : /\ r = InsertAt(q, p, y)
                                /\ \A j \in 1..(p - 1) : Ahead(q[j], y, first)
    BY <1>1, InsertIs
  <1>3. Len(r) = n + 1 /\ \A i \in 1..(n + 1) : r[i] = IF i < p THEN q[i] ELSE IF i = p THEN y ELSE q[i - 1]
    <2>1. HasPackets(QueueItem) /\ p \in 1..(Len(q) + 1)
      BY <1>1, ItemsHold
    <2>2. /\ Len(InsertAt(q, p, y)) = Len(q) + 1
          /\ \A i \in 1..(Len(q) + 1) :
                 InsertAt(q, p, y)[i] = IF i < p THEN q[i] ELSE IF i = p THEN y ELSE q[i - 1]
      BY <2>1, InsertedAt
    <2>3. QED BY <1>1, <1>2, <2>2
  <1>4. /\ \A i, j \in 1..n : i < j /\ q[j].retx => q[i].retx
        /\ \A i \in 1..n : ~q[i].retx => New(q[i], Until(q, i, size))
        /\ \A i, j \in 1..n : i < j /\ ~q[i].retx => Follows(q[i], q[j])
    BY <1>1, OrderedIs
  <1>5. \A j \in 1..(p - 1) : j \in 1..n /\ q[j].retx
    <2>1. \A j \in 1..(p - 1) : j \in 1..n
      BY <1>1
    <2>2. SUFFICES ASSUME NEW j \in 1..(p - 1)
                   PROVE  q[j].retx
      BY <2>1
    <2>3. q[j].retx \in BOOLEAN /\ y.retx = TRUE
      <3>1. q[j] \in QueueItem
        BY <1>1, <2>1, ElementOfSeq
      <3>2. QED BY <3>1 DEF QueueItem
    <2>4. Ahead(q[j], y, first)
      BY <1>2
    <2>5. QED BY <2>3, <2>4 DEF Ahead, Tx!Before
  <1>6. \A i \in 1..(n + 1) : i < p \/ i = p \/ (i > p /\ i - 1 \in 1..n)
    BY <1>1
  <1>7. \A i \in 1..(n + 1) : i < p => i \in 1..(p - 1)
    BY <1>1
  <1>8. \A i \in 1..(n + 1) : ~r[i].retx => i > p /\ i - 1 \in 1..n /\ r[i] = q[i - 1] /\ ~q[i - 1].retx
    <2>1. SUFFICES ASSUME NEW i \in 1..(n + 1), ~r[i].retx
                   PROVE  i > p /\ i - 1 \in 1..n /\ r[i] = q[i - 1] /\ ~q[i - 1].retx
      OBVIOUS
    <2>2. ~(i < p)
      BY <1>3, <1>5, <1>7, <2>1
    <2>3. i # p
      BY <1>3, <2>1
    <2>4. i > p /\ i - 1 \in 1..n
      BY <1>6, <2>2, <2>3
    <2>5. r[i] = q[i - 1]
      BY <1>3, <2>2, <2>3
    <2>6. QED BY <2>1, <2>4, <2>5
  <1>9. ASSUME NEW i \in 1..(n + 1), NEW j \in 1..(n + 1), i < j, ~r[i].retx
        PROVE  i - 1 \in 1..n /\ j - 1 \in 1..n /\ i - 1 < j - 1 /\ r[i] = q[i - 1] /\ r[j] = q[j - 1]
               /\ ~q[i - 1].retx
    <2>1. i > p /\ i - 1 \in 1..n /\ r[i] = q[i - 1] /\ ~q[i - 1].retx
      BY <1>8, <1>9
    <2>2. ~(j < p) /\ j # p /\ j - 1 \in 1..n /\ i - 1 < j - 1
      BY <1>1, <1>9, <2>1
    <2>3. r[j] = q[j - 1]
      BY <1>3, <2>2
    <2>4. QED BY <2>1, <2>2, <2>3
  <1>10. \A i, j \in 1..(n + 1) : i < j /\ r[j].retx => r[i].retx
    <2>1. SUFFICES ASSUME NEW i \in 1..(n + 1), NEW j \in 1..(n + 1), i < j, ~r[i].retx
                   PROVE  ~r[j].retx
      <3>1. QED BY <2>1
    <2>2. PICK a, b : a = i - 1 /\ b = j - 1
      OBVIOUS
    <2>3. a \in 1..n /\ b \in 1..n /\ a < b /\ r[j] = q[b] /\ ~q[a].retx
      BY <1>9, <2>1, <2>2
    <2>4. QED BY <1>4, <2>3
  <1>11. \A i, j \in 1..(n + 1) : i < j /\ ~r[i].retx => Follows(r[i], r[j])
    <2>1. SUFFICES ASSUME NEW i \in 1..(n + 1), NEW j \in 1..(n + 1), i < j, ~r[i].retx
                   PROVE  Follows(r[i], r[j])
      OBVIOUS
    <2>2. PICK a, b : a = i - 1 /\ b = j - 1
      OBVIOUS
    <2>3. a \in 1..n /\ b \in 1..n /\ a < b /\ r[i] = q[a] /\ r[j] = q[b] /\ ~q[a].retx
      BY <1>9, <2>1, <2>2
    <2>4. QED BY <1>4, <2>3
  <1>12. \A i \in 1..(n + 1) : ~r[i].retx => New(r[i], Until(r, i, size))
    <2>1. SUFFICES ASSUME NEW i \in 1..(n + 1), ~r[i].retx
                   PROVE  New(r[i], Until(r, i, size))
      OBVIOUS
    <2>2. PICK a : a = i - 1 /\ a \in 1..n /\ r[i] = q[a] /\ ~q[a].retx /\ i > p
      BY <1>8, <2>1
    <2>3. New(q[a], Until(q, a, size))
      BY <1>4, <2>2
    <2>4. Until(r, i, size) = Until(q, a, size)
      <3>1. CASE i = n + 1
        <4>1. a = n
          BY <1>1, <2>2, <3>1
        <4>2. QED BY <1>1, <1>3, <3>1, <4>1 DEF Until
      <3>2. CASE i # n + 1
        <4>1. i + 1 \in 1..(n + 1) /\ ~(i + 1 < p) /\ i + 1 # p /\ (i + 1) - 1 = a + 1 /\ a # n
          BY <1>1, <2>2, <3>2
        <4>2. r[i + 1] = q[a + 1]
          BY <1>3, <4>1
        <4>3. QED BY <1>1, <1>3, <3>2, <4>1, <4>2 DEF Until
      <3>3. QED BY <3>1, <3>2
    <2>5. QED BY <2>2, <2>3, <2>4
  <1>13. Tx!Ordered(r, size)
    BY <1>3, <1>10, <1>11, <1>12, OrderedIs
  <1>14. QED BY <1>1, <1>13

\* Both parts of a frame are frames, and the second ends where the frame does.
LEMMA SplitFrame ==
    ASSUME NEW p \in Packet, Tx!Frame(p), NEW z \in Nat, z > 0, z + 1 < Len(p),
           NEW parts, SplitFacts(p, z, parts)
    PROVE  /\ Tx!Frame(parts.first) /\ Tx!Frame(parts.second)
           /\ parts.second[1].n = p[1].n + z /\ p[1].n \in Nat
           /\ Tx!End(parts.second) = Tx!End(p)
  <1>1. PICK n, m, a, b : n = Len(p) /\ n \in Nat /\ m = p[1].n /\ a = parts.first /\ b = parts.second
    BY LenProperties DEF Packet
  <1>2. /\ n > 1 /\ p[1] = Tx!Header(m, n - 1)
        /\ \A j \in 2..n : p[j] = Tx!Unit("byte", m + j - 2, 0)
    BY <1>1 DEF Tx!Frame
  <1>3. m \in Nat
    <2>1. 1 \in 1..n
      BY <1>1, <1>2
    <2>2. p[1] \in Tx!AnyUnit
      BY <1>1, <2>1, ElementOfSeq DEF Packet
    <2>3. QED BY <1>1, <2>2 DEF Tx!AnyUnit
  <1>4. /\ Len(a) = z + 1 /\ a[1] = Tx!Header(m, z) /\ \A j \in 2..(z + 1) : a[j] = p[j]
        /\ Len(b) = n - z /\ b[1] = Tx!Header(m + z, n - 1 - z)
        /\ \A j \in 2..(n - z) : b[j] = p[z + j]
    BY <1>1 DEF SplitFacts
  <1>5. z + 1 < n
    BY <1>1
  <1>6. a[1].n = m /\ b[1].n = m + z
    BY <1>4 DEF Tx!Header, Tx!Unit
  <1>7. Tx!Frame(a)
    <2>1. Len(a) > 1 /\ Len(a) - 1 = z
      BY <1>4
    <2>2. \A j \in 2..Len(a) : a[j] = Tx!Unit("byte", m + j - 2, 0)
      BY <1>1, <1>2, <1>4, <1>5
    <2>3. QED BY <1>4, <1>6, <2>1, <2>2 DEF Tx!Frame
  <1>8. Tx!Frame(b)
    <2>1. Len(b) > 1 /\ Len(b) - 1 = n - 1 - z
      BY <1>1, <1>4, <1>5
    <2>2. ASSUME NEW j \in 2..Len(b)
          PROVE  b[j] = Tx!Unit("byte", (m + z) + j - 2, 0)
      <3>1. j \in 2..(n - z) /\ z + j \in 2..n /\ m + (z + j) - 2 = (m + z) + j - 2
        BY <1>1, <1>3, <1>4, <1>5
      <3>2. b[j] = Tx!Unit("byte", m + (z + j) - 2, 0)
        BY <1>2, <1>4, <3>1
      <3>3. QED BY <3>1, <3>2
    <2>3. QED BY <1>4, <1>6, <2>1, <2>2 DEF Tx!Frame
  <1>9. Tx!End(b) = Tx!End(p)
    <2>1. Tx!End(b) = (m + z) + (n - z) - 1
      BY <1>4, <1>6 DEF Tx!End
    <2>2. Tx!End(p) = m + n - 1
      BY <1>1 DEF Tx!End
    <2>3. QED BY <1>1, <1>3, <2>1, <2>2
  <1>10. QED BY <1>1, <1>3, <1>6, <1>7, <1>8, <1>9

\* The second part of new data stays ahead of the new data behind it.
LEMMA InsertRest ==
    ASSUME NEW q \in Seq(QueueItem), NEW size, Tx!Ordered(q, size), Len(q) > 0, ~q[1].retx,
           NEW d \in Seq(QueueItem), Len(d) = Len(q) - 1,
           \A i \in 1..(Len(q) - 1) : d[i] = q[i + 1],
           NEW y \in QueueItem, ~y.retx, y.key = q[1].key, NEW first,
           New(y, Tx!End(q[1].packet))
    PROVE  /\ Tx!Ordered(Tx!Insert(d, y, first), size)
           /\ \A i \in 1..Len(q) : ~q[i].retx
  <1>1. PICK n, r, x : n = Len(q) /\ n \in Nat /\ n > 0 /\ r = Tx!Insert(d, y, first) /\ x = q[1]
    BY LenProperties
  <1>2. /\ \A i, j \in 1..n : i < j /\ q[j].retx => q[i].retx
        /\ \A i \in 1..n : ~q[i].retx => New(q[i], Until(q, i, size))
        /\ \A i, j \in 1..n : i < j /\ ~q[i].retx => Follows(q[i], q[j])
    BY <1>1, OrderedIs
  <1>3. \A i \in 1..n : ~q[i].retx
    <2>1. SUFFICES ASSUME NEW i \in 1..n, q[i].retx
                   PROVE  FALSE
      OBVIOUS
    <2>2. 1 \in 1..n /\ (i = 1 \/ 1 < i)
      BY <1>1
    <2>3. QED BY <1>2, <2>1, <2>2
  <1>4. \A i \in 1..n : q[i] \in QueueItem /\ q[i].key \in Nat /\ q[i].retx \in BOOLEAN
    <2>1. \A i \in 1..n : q[i] \in QueueItem
      BY <1>1, ElementOfSeq
    <2>2. QED BY <2>1 DEF QueueItem
  <1>5. y.key \in Nat /\ y.retx = FALSE
    BY DEF QueueItem
  <1>6. PICK p \in 1..(Len(d) + 1) : /\ r = InsertAt(d, p, y)
                                     /\ \A j \in 1..(p - 1) : Ahead(d[j], y, first)
    BY <1>1, InsertIs
  <1>7. p = 1
    <2>1. SUFFICES ASSUME p # 1 PROVE FALSE
      OBVIOUS
    <2>2. 1 \in 1..(p - 1) /\ 1 \in 1..(n - 1) /\ 1 + 1 \in 1..n /\ 1 \in 1..n
      BY <1>1, <1>6, <2>1
    <2>3. d[1] = q[1 + 1]
      BY <1>1, <2>2
    <2>4. Follows(q[1], q[1 + 1])
      BY <1>2, <1>3, <2>2
    <2>5. y.key < d[1].key /\ d[1].retx = FALSE /\ d[1].key \in Nat
      BY <1>3, <1>4, <2>2, <2>3, <2>4 DEF Follows
    <2>6. Ahead(d[1], y, first)
      BY <1>6, <2>2
    <2>7. d[1].retx = y.retx /\ ~(d[1].key < y.key)
      <3>1. PICK a, b : a = d[1].key /\ b = y.key /\ a \in Nat /\ b \in Nat /\ b < a
        BY <1>5, <2>5
      <3>2. ~(a < b)
        BY <3>1
      <3>3. QED BY <1>5, <2>5, <3>1, <3>2
    <2>8. ~Tx!Before(d[1], y) /\ Tx!Before(y, d[1])
      BY <2>5, <2>7 DEF Tx!Before
    <2>9. QED BY <2>6, <2>8 DEF Ahead
  <1>8. Len(r) = n /\ \A i \in 1..n : r[i] = IF i = 1 THEN y ELSE q[i]
    <2>1. HasPackets(QueueItem)
      BY ItemsHold
    <2>2. /\ Len(InsertAt(d, p, y)) = Len(d) + 1
          /\ \A i \in 1..(Len(d) + 1) :
                 InsertAt(d, p, y)[i] = IF i < p THEN d[i] ELSE IF i = p THEN y ELSE d[i - 1]
      BY <2>1, InsertedAt
    <2>3. Len(r) = n /\ \A i \in 1..n : r[i] = IF i = 1 THEN y ELSE d[i - 1]
      BY <1>1, <1>6, <1>7, <2>2
    <2>4. \A i \in 1..n : i # 1 => i - 1 \in 1..(n - 1) /\ (i - 1) + 1 = i
      BY <1>1
    <2>5. \A i \in 1..n : i # 1 => d[i - 1] = q[i]
      <3>1. SUFFICES ASSUME NEW i \in 1..n, i # 1
                     PROVE  d[i - 1] = q[i]
        OBVIOUS
      <3>2. PICK j : j = i - 1 /\ j \in 1..(n - 1) /\ j + 1 = i
        BY <2>4, <3>1
      <3>3. d[j] = q[j + 1]
        BY <1>1, <3>2
      <3>4. QED BY <3>2, <3>3
    <2>6. QED BY <2>3, <2>5
  <1>9. \A i \in 1..n : ~r[i].retx
    BY <1>3, <1>8
  <1>10. \A i \in 1..n : Until(r, i, size) = Until(q, i, size)
    <2>1. SUFFICES ASSUME NEW i \in 1..n
                   PROVE  Until(r, i, size) = Until(q, i, size)
      OBVIOUS
    <2>2. CASE i = n
      BY <1>1, <1>8, <2>2 DEF Until
    <2>3. CASE i # n
      <3>1. i + 1 \in 1..n /\ i + 1 # 1
        BY <1>1, <2>3
      <3>2. r[i + 1] = q[i + 1]
        BY <1>8, <3>1
      <3>3. QED BY <1>1, <1>8, <2>3, <3>2 DEF Until
    <2>4. QED BY <2>2, <2>3
  <1>11. 1 \in 1..n
    BY <1>1
  <1>12. Tx!End(x.packet) = Until(q, 1, size) /\ Tx!End(y.packet) = Tx!End(x.packet)
    BY <1>1, <1>2, <1>3, <1>11 DEF New
  <1>13. \A i \in 1..n : ~r[i].retx => New(r[i], Until(r, i, size))
    <2>1. SUFFICES ASSUME NEW i \in 1..n
                   PROVE  New(r[i], Until(r, i, size))
      OBVIOUS
    <2>2. CASE i = 1
      <3>1. New(y, Until(q, 1, size))
        BY <1>1, <1>12 DEF New
      <3>2. QED BY <1>8, <1>10, <1>11, <2>2, <3>1
    <2>3. CASE i # 1
      BY <1>2, <1>3, <1>8, <1>10, <2>3
    <2>4. QED BY <2>2, <2>3
  <1>14. \A i, j \in 1..n : i < j /\ ~r[i].retx => Follows(r[i], r[j])
    <2>1. SUFFICES ASSUME NEW i \in 1..n, NEW j \in 1..n, i < j
                   PROVE  Follows(r[i], r[j])
      OBVIOUS
    <2>2. j # 1 /\ r[j] = q[j] /\ Follows(q[i], q[j])
      <3>1. j # 1
        BY <1>1, <2>1
      <3>2. QED BY <1>2, <1>3, <1>8, <2>1, <3>1
    <2>3. CASE i = 1
      <3>1. r[i] = y /\ Follows(x, q[j])
        BY <1>1, <1>8, <2>2, <2>3
      <3>2. QED BY <1>1, <1>12, <2>2, <3>1 DEF Follows
    <2>4. CASE i # 1
      BY <1>8, <2>2, <2>4
    <2>5. QED BY <2>3, <2>4
  <1>15. Tx!Ordered(r, size)
    BY <1>8, <1>9, <1>13, <1>14, OrderedIs
  <1>16. QED BY <1>1, <1>3, <1>15

\* The scheduler keeps the order of its queue when it takes a segment.
LEMMA SegmentOrdered ==
    ASSUME NEW q \in Seq(QueueItem), \A i \in 1..Len(q) : Tx!Opens(q[i].packet),
           NEW size, Tx!Ordered(q, size),
           NEW numBytes \in Nat, NEW first, NEW k \in 0..Len(q), NEW seg,
           Segment(q, numBytes, first, k, seg)
    PROVE  Tx!Ordered(seg.queue, size)
  <1>1. PICK n, b : n = Len(q) /\ n \in Nat /\ b = SubSeq(q, k + 1, Len(q))
    BY LenProperties
  <1>2. Tx!Ordered(b, size)
    BY <1>1, OrderedRest
  <1>3. Part(q, k, numBytes) \in Int
    <2>1. SubSeq(q, 1, k) \in Seq(QueueItem)
      BY ItemsHold, ListSplit
    <2>2. Len(WholeItems(q, k)) \in Nat
      BY <2>1, ItemsHold, UnitsIs DEF WholeItems
    <2>3. QED BY <2>2 DEF Part
  <1>4. CASE k = Len(q) \/ Part(q, k, numBytes) <= 0
    <2>1. ~(k < Len(q) /\ Part(q, k, numBytes) > 0)
      BY <1>1, <1>3, <1>4
    <2>2. seg.queue = b
      BY <1>1, <2>1 DEF Segment
    <2>3. QED BY <1>2, <2>2
  <1>5. CASE k < Len(q) /\ Part(q, k, numBytes) > 0
    <2>1. PICK x, z, parts : /\ x = q[k + 1] /\ z = Part(q, k, numBytes)
                             /\ parts = Cut(q, k, numBytes)
      OBVIOUS
    <2>2. x \in QueueItem /\ z \in Nat /\ z > 0 /\ z + 1 < Len(x.packet) /\ SplitFacts(x.packet, z, parts)
      BY <1>5, <2>1, CutIs
    <2>3. PICK d, y : d = SubSeq(q, k + 2, Len(q)) /\ y = [x EXCEPT !.packet = parts.second]
      OBVIOUS
    <2>4. seg.queue = Tx!Insert(d, y, first)
      <3>1. ~(k = Len(q) \/ Part(q, k, numBytes) <= 0)
        BY <1>1, <1>3, <1>5
      <3>2. QED BY <1>1, <2>1, <2>3, <3>1 DEF Segment
    <2>5. k + 1 \in 0..Len(q) /\ (k + 1) + 1 = k + 2 /\ n - k > 0 /\ n - (k + 1) = (n - k) - 1
      BY <1>1, <1>5
    <2>6. /\ d \in Seq(QueueItem) /\ Len(d) = n - (k + 1)
          /\ \A i \in 1..(n - (k + 1)) : d[i] = q[(k + 1) + i]
      <3>1. HasPackets(QueueItem)
        BY ItemsHold
      <3>2. /\ SubSeq(q, (k + 1) + 1, Len(q)) \in Seq(QueueItem)
            /\ Len(SubSeq(q, (k + 1) + 1, Len(q))) = Len(q) - (k + 1)
            /\ \A i \in 1..(Len(q) - (k + 1)) : SubSeq(q, (k + 1) + 1, Len(q))[i] = q[(k + 1) + i]
        BY <2>5, <3>1, ListSplit
      <3>3. QED BY <1>1, <2>3, <2>5, <3>2
    <2>7. y \in QueueItem /\ y.packet = parts.second /\ y.retx = x.retx /\ y.key = x.key
      BY <2>2, <2>3 DEF QueueItem, SplitFacts
    <2>8. CASE x.retx
      <3>1. Tx!Ordered(SubSeq(q, (k + 1) + 1, Len(q)), size)
        BY <2>5, OrderedRest
      <3>2. Tx!Ordered(d, size)
        BY <2>3, <2>5, <3>1
      <3>3. QED BY <2>4, <2>6, <2>7, <2>8, <3>2, InsertRetx
    <2>9. CASE ~x.retx
      <3>1. b \in Seq(QueueItem) /\ Len(b) = n - k /\ \A i \in 1..(n - k) : b[i] = q[k + i]
        <4>1. HasPackets(QueueItem)
          BY ItemsHold
        <4>2. /\ SubSeq(q, k + 1, Len(q)) \in Seq(QueueItem) /\ Len(SubSeq(q, k + 1, Len(q))) = Len(q) - k
              /\ \A i \in 1..(Len(q) - k) : SubSeq(q, k + 1, Len(q))[i] = q[k + i]
          BY <4>1, ListSplit
        <4>3. QED BY <1>1, <4>2
      <3>2. Len(b) > 0 /\ b[1] = x /\ Len(d) = Len(b) - 1
        <4>1. 1 \in 1..(n - k)
          BY <1>1, <2>5
        <4>2. QED BY <2>1, <2>5, <2>6, <3>1, <4>1
      <3>3. \A i \in 1..(Len(b) - 1) : d[i] = b[i + 1]
        <4>1. SUFFICES ASSUME NEW i \in 1..(Len(b) - 1)
                       PROVE  d[i] = b[i + 1]
          OBVIOUS
        <4>2. i \in 1..(n - (k + 1)) /\ i + 1 \in 1..(n - k) /\ (k + 1) + i = k + (i + 1)
          BY <1>1, <2>5, <3>1
        <4>3. QED BY <2>6, <3>1, <4>2, SMTT(30)
      <3>4. New(x, Until(b, 1, size))
        <4>1. 1 \in 1..Len(b)
          BY <1>1, <2>5, <3>1
        <4>2. QED BY <1>2, <2>9, <3>2, <4>1, OrderedIs
      <3>5. x.packet \in Packet /\ Tx!Frame(x.packet) /\ x.key <= x.packet[1].n /\ x.key \in Nat
        BY <2>2, <3>4 DEF New, QueueItem
      <3>6. PICK u, v : u = x.packet /\ v = parts.second
        OBVIOUS
      <3>7. Tx!Frame(v) /\ v[1].n = u[1].n + z /\ u[1].n \in Nat /\ Tx!End(v) = Tx!End(u)
        BY <2>2, <3>5, <3>6, SplitFrame
      <3>8. y.key <= v[1].n
        BY <2>2, <2>7, <3>5, <3>6, <3>7, SMTT(30)
      <3>9. New(y, Tx!End(x.packet))
        BY <2>7, <3>6, <3>7, <3>8 DEF New
      <3>10. Tx!Ordered(Tx!Insert(d, y, first), size)
        <4>1. ~b[1].retx /\ ~y.retx /\ y.key = b[1].key /\ New(y, Tx!End(b[1].packet))
          BY <2>7, <2>9, <3>2, <3>9
        <4>2. QED BY <1>2, <2>6, <2>7, <3>1, <3>2, <3>3, <4>1, InsertRest
      <3>11. QED BY <2>4, <3>10
    <2>10. QED BY <2>8, <2>9
  <1>6. QED BY <1>1, <1>3, <1>4, <1>5

-----------------------------------------------------------------------------
\* What WellFormed says.
LEMMA WellFormedIs ==
    ASSUME NEW u
    PROVE  WellFormed(u) <=>
               /\ \A i \in 1..Len(u) : u[i].kind = "header" =>
                      \A j \in (i + 1)..(i + u[i].len) :
                          j <= Len(u) /\ u[j].kind = "byte" /\ u[j].n = u[i].n + (j - i - 1)
               /\ \A j \in 1..Len(u) : u[j].kind = "byte" =>
                      \E i \in 1..Len(u) : u[i].kind = "header" /\ j \in (i + 1)..(i + u[i].len)
  BY DEF WellFormed

\* Well-formed packets one behind the other.
LEMMA WellFormedConcat ==
    ASSUME NEW u \in Packet, NEW v \in Packet, WellFormed(u), WellFormed(v)
    PROVE  WellFormed(u \o v)
  <1>1. PICK w, m, n : w = u \o v /\ m = Len(u) /\ n = Len(v) /\ m \in Nat /\ n \in Nat
    BY LenProperties DEF Packet
  <1>2. Len(w) = m + n /\ \A i \in 1..(m + n) : w[i] = IF i <= m THEN u[i] ELSE v[i - m]
    BY <1>1, ConcatProperties DEF Packet
  <1>3. /\ \A i \in 1..m : u[i].kind = "header" =>
               \A j \in (i + 1)..(i + u[i].len) :
                   j <= m /\ u[j].kind = "byte" /\ u[j].n = u[i].n + (j - i - 1)
        /\ \A j \in 1..m : u[j].kind = "byte" =>
               \E i \in 1..m : u[i].kind = "header" /\ j \in (i + 1)..(i + u[i].len)
    BY <1>1, WellFormedIs, SMTT(30)
  <1>4. /\ \A i \in 1..n : v[i].kind = "header" =>
               \A j \in (i + 1)..(i + v[i].len) :
                   j <= n /\ v[j].kind = "byte" /\ v[j].n = v[i].n + (j - i - 1)
        /\ \A j \in 1..n : v[j].kind = "byte" =>
               \E i \in 1..n : v[i].kind = "header" /\ j \in (i + 1)..(i + v[i].len)
    BY <1>1, WellFormedIs
  <1>5. (\A i \in 1..m : u[i].len \in Nat) /\ (\A i \in 1..n : v[i].len \in Nat)
    <2>1. (\A i \in 1..m : u[i] \in Tx!AnyUnit) /\ (\A i \in 1..n : v[i] \in Tx!AnyUnit)
      BY <1>1, ElementOfSeq DEF Packet
    <2>2. QED BY <2>1 DEF Tx!AnyUnit
  <1>6. \A i \in 1..m : i \in 1..(m + n) /\ w[i] = u[i]
    BY <1>1, <1>2
  <1>7. \A i \in 1..n : m + i \in 1..(m + n) /\ w[m + i] = v[i]
    <2>1. \A i \in 1..n : m + i \in 1..(m + n) /\ ~(m + i <= m) /\ (m + i) - m = i
      BY <1>1
    <2>2. QED BY <1>2, <2>1
  <1>8. \A i \in 1..(m + n) : i \in 1..m \/ \E h \in 1..n : i = m + h
    <2>1. SUFFICES ASSUME NEW i \in 1..(m + n), i \notin 1..m
                   PROVE  \E h \in 1..n : i = m + h
      OBVIOUS
    <2>2. i - m \in 1..n /\ i = m + (i - m)
      BY <1>1, <2>1
    <2>3. QED BY <2>2
  <1>9. ASSUME NEW i \in 1..(m + n), w[i].kind = "header", NEW j \in (i + 1)..(i + w[i].len)
        PROVE  j <= m + n /\ w[j].kind = "byte" /\ w[j].n = w[i].n + (j - i - 1)
    <2>1. CASE i \in 1..m
      <3>1. w[i] = u[i] /\ u[i].kind = "header" /\ u[i].len \in Nat
        BY <1>5, <1>6, <1>9, <2>1
      <3>2. j <= m /\ u[j].kind = "byte" /\ u[j].n = u[i].n + (j - i - 1)
        BY <1>3, <1>9, <2>1, <3>1
      <3>3. j \in 1..m /\ j <= m + n
        BY <1>1, <3>1, <3>2
      <3>4. w[j] = u[j]
        BY <1>6, <3>3
      <3>5. QED BY <3>1, <3>2, <3>3, <3>4
    <2>2. CASE i \notin 1..m
      <3>1. PICK h \in 1..n : i = m + h
        BY <1>8, <2>2
      <3>2. w[i] = v[h] /\ v[h].kind = "header" /\ v[h].len \in Nat
        BY <1>5, <1>7, <1>9, <3>1
      <3>3. PICK l : l = v[h].len
        OBVIOUS
      <3>4. j \in (m + h + 1)..(m + h + l) /\ l \in Nat
        BY <3>1, <3>2, <3>3
      <3>5. PICK e : e = j - m /\ e \in (h + 1)..(h + l) /\ j = m + e /\ e - h - 1 = j - i - 1
        <4>1. h \in Int /\ m \in Int /\ j \in Int /\ m + h + 1 <= j /\ j <= m + h + l
          BY <1>1, <3>1, <3>4
        <4>2. j - m \in (h + 1)..(h + l) /\ j = m + (j - m) /\ (j - m) - h - 1 = j - i - 1
          BY <3>1, <3>4, <4>1
        <4>3. QED BY <4>2
      <3>6. e <= n /\ v[e].kind = "byte" /\ v[e].n = v[h].n + (e - h - 1)
        BY <1>4, <3>2, <3>3, <3>5
      <3>7. e \in 1..n /\ j <= m + n
        <4>1. e \in Int /\ h >= 1 /\ h + 1 <= e
          BY <1>1, <3>4, <3>5
        <4>2. QED BY <1>1, <3>5, <3>6, <4>1
      <3>8. w[j] = v[e]
        BY <1>7, <3>5, <3>7
      <3>9. QED BY <3>2, <3>5, <3>6, <3>7, <3>8
    <2>3. QED BY <2>1, <2>2
  <1>10. ASSUME NEW j \in 1..(m + n), w[j].kind = "byte"
         PROVE  \E i \in 1..(m + n) : w[i].kind = "header" /\ j \in (i + 1)..(i + w[i].len)
    <2>1. CASE j \in 1..m
      <3>1. PICK i \in 1..m : u[i].kind = "header" /\ j \in (i + 1)..(i + u[i].len)
        BY <1>3, <1>6, <1>10, <2>1
      <3>2. QED BY <1>6, <3>1
    <2>2. CASE j \notin 1..m
      <3>1. PICK e \in 1..n : j = m + e
        BY <1>8, <2>2
      <3>2. v[e].kind = "byte"
        BY <1>7, <1>10, <3>1
      <3>3. PICK h \in 1..n : v[h].kind = "header" /\ e \in (h + 1)..(h + v[h].len)
        BY <1>4, <3>1, <3>2
      <3>4. PICK l : l = v[h].len /\ l \in Nat
        BY <1>5
      <3>5. j \in ((m + h) + 1)..((m + h) + l)
        BY <1>1, <3>1, <3>3, <3>4
      <3>6. m + h \in 1..(m + n) /\ w[m + h] = v[h]
        BY <1>7
      <3>7. QED BY <3>3, <3>4, <3>5, <3>6
    <2>3. QED BY <2>1, <2>2
  <1>11. /\ \A i \in 1..Len(w) : w[i].kind = "header" =>
                \A j \in (i + 1)..(i + w[i].len) :
                    j <= Len(w) /\ w[j].kind = "byte" /\ w[j].n = w[i].n + (j - i - 1)
         /\ \A j \in 1..Len(w) : w[j].kind = "byte" =>
                \E i \in 1..Len(w) : w[i].kind = "header" /\ j \in (i + 1)..(i + w[i].len)
    BY <1>2, <1>9, <1>10
  <1>12. WellFormed(w)
    BY <1>11, WellFormedIs
  <1>13. QED BY <1>1, <1>12

\* Packets without stream data, and single frames.
LEMMA BareWellFormed ==
    ASSUME NEW u \in Packet, \A i \in 1..Len(u) : u[i].kind \in {"ack", "zero"}
    PROVE  WellFormed(u)
  <1>1. \A i \in 1..Len(u) : u[i].kind # "header" /\ u[i].kind # "byte"
    OBVIOUS
  <1>2. QED BY <1>1, WellFormedIs

\* One frame is well-formed.
LEMMA FrameWellFormed ==
    ASSUME NEW u \in Packet, Tx!Frame(u)
    PROVE  WellFormed(u)
  <1>1. PICK n, m : n = Len(u) /\ n \in Nat /\ m = u[1].n
    BY LenProperties DEF Packet
  <1>2. /\ n > 1 /\ u[1] = Tx!Header(m, n - 1)
        /\ \A j \in 2..n : u[j] = Tx!Unit("byte", m + j - 2, 0)
    BY <1>1 DEF Tx!Frame
  <1>3. u[1].kind = "header" /\ u[1].n = m /\ u[1].len = n - 1 /\ 1 \in 1..n
    BY <1>1, <1>2 DEF Tx!Header, Tx!Unit
  <1>4. m \in Nat
    <2>1. u[1] \in Tx!AnyUnit
      BY <1>1, <1>3, ElementOfSeq DEF Packet
    <2>2. QED BY <1>1, <2>1 DEF Tx!AnyUnit
  <1>5. \A j \in 2..n : u[j].kind = "byte" /\ u[j].n = m + (j - 1 - 1)
    <2>1. SUFFICES ASSUME NEW j \in 2..n
                   PROVE  u[j].kind = "byte" /\ u[j].n = m + (j - 1 - 1)
      OBVIOUS
    <2>2. u[j].kind = "byte" /\ u[j].n = m + j - 2
      <3>1. u[j] = Tx!Unit("byte", m + j - 2, 0)
        BY <1>2
      <3>2. QED BY <3>1 DEF Tx!Unit
    <2>3. m + j - 2 = m + (j - 1 - 1)
      BY <1>1, <1>4
    <2>4. QED BY <2>2, <2>3
  <1>6. ASSUME NEW i \in 1..n, u[i].kind = "header", NEW j \in (i + 1)..(i + u[i].len)
        PROVE  j <= n /\ u[j].kind = "byte" /\ u[j].n = u[i].n + (j - i - 1)
    <2>1. i = 1
      <3>1. i # 1 => i \in 2..n
        BY <1>1
      <3>2. QED BY <1>5, <1>6, <3>1
    <2>2. j \in 2..n
      <3>1. j \in (1 + 1)..(1 + (n - 1))
        BY <1>3, <1>6, <2>1
      <3>2. QED BY <1>1, <3>1
    <2>3. QED BY <1>1, <1>3, <1>5, <2>1, <2>2
  <1>7. ASSUME NEW j \in 1..n, u[j].kind = "byte"
        PROVE  \E i \in 1..n : u[i].kind = "header" /\ j \in (i + 1)..(i + u[i].len)
    <2>1. j # 1
      BY <1>3, <1>7
    <2>2. j \in (1 + 1)..(1 + (n - 1))
      BY <1>1, <2>1
    <2>3. QED BY <1>3, <2>2
  <1>8. QED BY <1>1, <1>6, <1>7, WellFormedIs

\* The units of well-formed packets.
LEMMA UnitsWellFormed ==
    ASSUME NEW R, HasPackets(R), NEW q \in Seq(R), \A i \in 1..Len(q) : WellFormed(q[i].packet)
    PROVE  WellFormed(Tx!Units(q))
  <1>1. PICK n : n = Len(q) /\ n \in Nat
    BY LenProperties
  <1> DEFINE S == {k \in Nat : k <= n => WellFormed(Tx!Units(SubSeq(q, 1, k)))}
  <1>2. 0 \in S
    <2>1. SubSeq(q, 1, 0) = <<>>
      BY SubSeqEmpty
    <2>2. <<>> \in Packet /\ Len(<<>>) = 0
      BY EmptySeq DEF Packet
    <2>3. WellFormed(<<>>)
      BY <2>2, BareWellFormed
    <2>4. QED BY <2>1, <2>3, NoItems
  <1>3. ASSUME NEW k \in Nat, k \in S
        PROVE  k + 1 \in S
    <2>1. SUFFICES ASSUME k + 1 <= n
                   PROVE  WellFormed(Tx!Units(SubSeq(q, 1, k + 1)))
      OBVIOUS
    <2>2. k < Len(q) /\ k \in 0..Len(q) /\ k + 1 \in 1..Len(q) /\ k <= n
      BY <1>1, <2>1
    <2>3. /\ q[k + 1].packet \in Packet
          /\ Tx!Units(SubSeq(q, 1, k + 1)) = Tx!Units(SubSeq(q, 1, k)) \o q[k + 1].packet
      BY <2>2, UnitsNext
    <2>4. SubSeq(q, 1, k) \in Seq(R)
      BY <2>2, ListSplit
    <2>5. Tx!Units(SubSeq(q, 1, k)) \in Packet
      BY <2>4, UnitsIs
    <2>6. WellFormed(Tx!Units(SubSeq(q, 1, k))) /\ WellFormed(q[k + 1].packet)
      BY <1>3, <2>2
    <2>7. QED BY <2>3, <2>5, <2>6, WellFormedConcat
  <1>4. \A k \in Nat : k \in S
    <2> HIDE DEF S
    <2>1. QED BY <1>2, <1>3, Induction
  <1>5. WellFormed(Tx!Units(SubSeq(q, 1, n)))
    BY <1>1, <1>4
  <1>6. SubSeq(q, 1, n) = q
    BY <1>1, SubSeqFull
  <1>7. QED BY <1>5, <1>6

-----------------------------------------------------------------------------
\* From a queue of new data the scheduler makes well-formed packets and leaves new
\* data.
LEMMA SegmentFresh ==
    ASSUME NEW q \in Seq(QueueItem), \A i \in 1..Len(q) : Tx!Opens(q[i].packet),
           NEW size, Tx!Ordered(q, size), \A i \in 1..Len(q) : ~q[i].retx,
           NEW numBytes \in Nat, NEW first, NEW k \in 0..Len(q), NEW seg,
           Segment(q, numBytes, first, k, seg)
    PROVE  WellFormed(seg.packet) /\ \A i \in 1..Len(seg.queue) : ~seg.queue[i].retx
  <1>1. PICK n, a, b, w : /\ n = Len(q) /\ n \in Nat /\ a = SubSeq(q, 1, k) /\ b = SubSeq(q, k + 1, Len(q))
                          /\ w = WholeItems(q, k)
    BY LenProperties
  <1>2. HasPackets(QueueItem)
    BY ItemsHold
  <1>3. /\ a \in Seq(QueueItem) /\ Len(a) = k /\ \A i \in 1..k : a[i] = q[i]
        /\ Len(b) = n - k /\ \A i \in 1..(n - k) : b[i] = q[k + i]
    <2>1. /\ SubSeq(q, 1, k) \in Seq(QueueItem) /\ Len(SubSeq(q, 1, k)) = k
          /\ \A i \in 1..k : SubSeq(q, 1, k)[i] = q[i]
          /\ Len(SubSeq(q, k + 1, Len(q))) = Len(q) - k
          /\ \A i \in 1..(Len(q) - k) : SubSeq(q, k + 1, Len(q))[i] = q[k + i]
      BY <1>2, ListSplit
    <2>2. QED BY <1>1, <2>1
  <1>4. \A i \in 1..n : Tx!Frame(q[i].packet) /\ q[i].packet \in Packet
    <2>1. \A i \in 1..n : New(q[i], Until(q, i, size))
      BY <1>1, OrderedIs
    <2>2. \A i \in 1..n : q[i] \in QueueItem
      BY <1>1, ElementOfSeq
    <2>3. QED BY <2>1, <2>2 DEF New, QueueItem
  <1>5. \A i \in 1..n : WellFormed(q[i].packet)
    BY <1>4, FrameWellFormed
  <1>6. w \in Packet /\ Len(w) \in Nat /\ WellFormed(w)
    <2>1. \A i \in 1..Len(a) : WellFormed(a[i].packet)
      <3>1. \A i \in 1..k : i \in 1..n
        BY <1>1
      <3>2. QED BY <1>3, <1>5, <3>1
    <2>2. w = Tx!Units(a)
      BY <1>1 DEF WholeItems
    <2>3. WellFormed(Tx!Units(a))
      BY <1>2, <1>3, <2>1, UnitsWellFormed
    <2>4. QED BY <1>2, <1>3, <2>2, <2>3, UnitsIs
  <1>7. Part(q, k, numBytes) \in Int
    BY <1>1, <1>6 DEF Part
  <1>8. CASE k = Len(q) \/ Part(q, k, numBytes) <= 0
    <2>1. ~(k < Len(q) /\ Part(q, k, numBytes) > 0)
      BY <1>1, <1>7, <1>8
    <2>2. seg.queue = b /\ seg.packet = w
      BY <1>1, <2>1 DEF Segment
    <2>3. \A i \in 1..(n - k) : k + i \in 1..n
      BY <1>1
    <2>4. \A i \in 1..Len(b) : ~b[i].retx
      BY <1>1, <1>3, <2>3
    <2>5. QED BY <1>6, <2>2, <2>4
  <1>9. CASE k < Len(q) /\ Part(q, k, numBytes) > 0
    <2>1. PICK x, z, parts : /\ x = q[k + 1] /\ z = Part(q, k, numBytes)
                             /\ parts = Cut(q, k, numBytes)
      OBVIOUS
    <2>2. x \in QueueItem /\ z \in Nat /\ z > 0 /\ z + 1 < Len(x.packet) /\ SplitFacts(x.packet, z, parts)
      BY <1>9, <2>1, CutIs
    <2>3. PICK d, y : d = SubSeq(q, k + 2, Len(q)) /\ y = [x EXCEPT !.packet = parts.second]
      OBVIOUS
    <2>4. seg.queue = Tx!Insert(d, y, first) /\ seg.packet = w \o parts.first
      <3>1. ~(k = Len(q) \/ Part(q, k, numBytes) <= 0)
        BY <1>1, <1>7, <1>9
      <3>2. QED BY <1>1, <2>1, <2>3, <3>1 DEF Segment
    <2>5. k + 1 \in 0..Len(q) /\ (k + 1) + 1 = k + 2 /\ k + 1 \in 1..n
      BY <1>1, <1>9
    <2>6. /\ d \in Seq(QueueItem) /\ Len(d) = n - (k + 1)
          /\ \A i \in 1..(n - (k + 1)) : d[i] = q[(k + 1) + i]
      <3>1. /\ SubSeq(q, (k + 1) + 1, Len(q)) \in Seq(QueueItem)
            /\ Len(SubSeq(q, (k + 1) + 1, Len(q))) = Len(q) - (k + 1)
            /\ \A i \in 1..(Len(q) - (k + 1)) : SubSeq(q, (k + 1) + 1, Len(q))[i] = q[(k + 1) + i]
        BY <1>2, <2>5, ListSplit
      <3>2. QED BY <1>1, <2>3, <2>5, <3>1
    <2>7. y \in QueueItem /\ y.retx = x.retx
      BY <2>2, <2>3 DEF QueueItem, SplitFacts
    <2>8. PICK c : c = Tx!Insert(d, y, first)
      OBVIOUS
    <2>9. Draws(c, d, y)
      BY <2>6, <2>7, <2>8, InsertGains
    <2>10. \A j \in 1..Len(d) : ~d[j].retx
      <3>1. \A j \in 1..(n - (k + 1)) : (k + 1) + j \in 1..n
        BY <1>1, <2>5
      <3>2. QED BY <1>1, <2>6, <3>1
    <2>11. ~y.retx
      BY <1>1, <2>1, <2>5, <2>7
    <2>12. \A i \in 1..Len(c) : ~c[i].retx
      BY <2>9, <2>10, <2>11 DEF Draws
    <2>13. PICK u, v : u = x.packet /\ v = parts.first
      OBVIOUS
    <2>14. u \in Packet /\ Tx!Frame(u)
      BY <1>4, <2>1, <2>5, <2>13
    <2>15. Tx!Frame(v) /\ v \in Packet
      <3>1. Tx!Frame(v)
        BY <2>2, <2>13, <2>14, SplitFrame
      <3>2. v \in Packet
        BY <2>2, <2>13 DEF SplitFacts
      <3>3. QED BY <3>1, <3>2
    <2>16. WellFormed(w \o v)
      BY <1>6, <2>15, FrameWellFormed, WellFormedConcat
    <2>17. QED BY <2>4, <2>8, <2>12, <2>13, <2>16
  <1>10. QED BY <1>1, <1>7, <1>8, <1>9

\* The state of the buffer as long as every retransmission has left at once.
Fresh(s) ==
    /\ \A i \in 1..Len(s.queue) : ~s.queue[i].retx
    /\ \A i \in 1..Len(s.sent) : WellFormed(s.sent[i].packet)
    /\ Filling(s) <= TxBufferSize

\* A well-formed packet with an ACK frame behind it.
LEMMA AckWellFormed ==
    ASSUME NEW ack, NEW u \in Packet, WellFormed(u)
    PROVE  WellFormed(u \o AckTail(ack))
  <1>1. PICK v : v = AckTail(ack) /\ v \in Packet
    BY AckTailIs
  <1>2. \A i \in 1..Len(v) : v[i].kind \in {"ack", "zero"}
    <2>1. CASE ack
      <3>1. Len(v) = 1 /\ v[1] = Tx!AckFrame
        BY <1>1, <2>1 DEF AckTail
      <3>2. Tx!AckFrame.kind = "ack"
        BY DEF Tx!AckFrame, Tx!Unit
      <3>3. QED BY <3>1, <3>2
    <2>2. CASE ~ack
      <3>1. v = <<>>
        BY <1>1, <2>2 DEF AckTail
      <3>2. Len(v) = 0
        BY <3>1
      <3>3. QED BY <3>2
    <2>3. QED BY <2>1, <2>2
  <1>3. WellFormed(v)
    BY <1>1, <1>2, BareWellFormed
  <1>4. QED BY <1>1, <1>3, WellFormedConcat

\* A sent list with a well-formed packet more.
LEMMA RecordWellFormed ==
    ASSUME NEW l \in Seq(SentItem), \A i \in 1..Len(l) : WellFormed(l[i].packet),
           NEW x \in SentItem, WellFormed(x.packet)
    PROVE  \A i \in 1..Len(Tx!Record(l, x)) : WellFormed(Tx!Record(l, x)[i].packet)
  <1>1. PICK r : r = Tx!Record(l, x) /\ Draws(r, l, x)
    BY RecordGains
  <1>2. \A i \in 1..Len(r) : WellFormed(r[i].packet)
    BY <1>1 DEF Draws
  <1>3. QED BY <1>1, <1>2

\* SendDataPacket keeps the order of the queue, and with new data only all packets
\* are well-formed.
LEMMA SendPacketOrdered ==
    ASSUME NEW s, Shaped(s), NEW size, Tx!Ordered(s.queue, size),
           NEW maxSize \in Nat, NEW ack, NEW first, NEW t,
           t = Tx!SendDataPacket(s, maxSize, ack, first)
    PROVE  Tx!Ordered(t.queue, size) /\ (Fresh(s) => Fresh(t))
  <1>1. PICK q, z, l, seg : /\ q = s.queue /\ z = s.zero /\ l = s.sent
                            /\ seg = Tx!GetNewSegment(q, maxSize, first)
    OBVIOUS
  <1>2. /\ s \in Bufs /\ q \in Seq(QueueItem) /\ z \in Seq(ZeroItem) /\ l \in Seq(SentItem)
        /\ Tx!Ordered(q, size)
    BY <1>1 DEF Shaped, Bufs
  <1>3. /\ \A i \in 1..Len(q) : Tx!Opens(q[i].packet)
        /\ \A i \in 1..Len(z) : Tx!Bare(z[i].packet)
    BY <1>1 DEF Shaped, Tx!HeadersOK
  <1>4. /\ Keeps(s, t) /\ Filling(t) <= Filling(s) /\ Filling(s) \in Nat /\ Filling(t) \in Nat
        /\ TxBufferSize \in Int
    <2>1. Keeps(s, t)
      BY SendPacketKeeps
    <2>2. t \in Bufs /\ Filling(t) <= Filling(s)
      BY <2>1 DEF Keeps, Shaped
    <2>3. TxBufferSize \in Int
      BY SendPathAssumption, SendAssumption
    <2>4. QED BY <1>2, <2>1, <2>2, <2>3, BufType
  <1>5. Filling(s) <= TxBufferSize => Filling(t) <= TxBufferSize
    <2>1. PICK a, b : a = Filling(s) /\ b = Filling(t) /\ a \in Int /\ b \in Int /\ b <= a
      BY <1>4
    <2>2. a <= TxBufferSize => b <= TxBufferSize
      BY <1>4, <2>1
    <2>3. QED BY <2>1, <2>2
  <1>6. Fresh(s) => /\ \A i \in 1..Len(q) : ~q[i].retx
                    /\ \A i \in 1..Len(l) : WellFormed(l[i].packet)
    BY <1>1 DEF Fresh
  <1>7. CASE z # <<>>
    <2>1. PICK u, v, x : u = Head(z).packet /\ v = u \o AckTail(ack) /\ x = [zero |-> TRUE, packet |-> v]
      OBVIOUS
    <2>2. t = [s EXCEPT !.zero = Tail(@), !.sent = Tx!Record(@, x)]
      BY <1>1, <1>7, <2>1 DEF Tx!SendDataPacket, AckTail
    <2>3. t.queue = q /\ t.sent = Tx!Record(l, x)
      BY <1>1, <1>2, <2>2 DEF Bufs
    <2>4. u \in Packet /\ Tx!Bare(u)
      <3>1. HasPackets(ZeroItem)
        BY ItemsHold
      <3>2. Head(z) = z[1] /\ z[1] \in ZeroItem /\ Len(z) > 0
        BY <1>2, <1>7, <3>1, TailIs
      <3>3. 1 \in 1..Len(z)
        BY <1>2, <3>2, LenProperties
      <3>4. QED BY <1>3, <2>1, <3>2, <3>3 DEF ZeroItem
    <2>5. WellFormed(v) /\ v \in Packet
      <3>1. WellFormed(u)
        BY <2>4, BareWellFormed DEF Tx!Bare
      <3>2. QED BY <2>1, <2>4, <3>1, AckWellFormed, AckTailIs
    <2>6. x \in SentItem /\ x.packet = v
      BY <2>1, <2>5 DEF SentItem
    <2>7. Fresh(s) => \A i \in 1..Len(t.sent) : WellFormed(t.sent[i].packet)
      BY <1>2, <1>6, <2>3, <2>5, <2>6, RecordWellFormed
    <2>8. QED BY <1>1, <1>2, <1>5, <1>6, <2>3, <2>7 DEF Fresh
  <1>8. PICK k \in 0..Len(q) : Segment(q, maxSize, first, k, seg)
    BY <1>1, <1>2, SegmentIs
  <1>9. Tx!Ordered(seg.queue, size)
    BY <1>2, <1>3, <1>8, SegmentOrdered
  <1>10. Fresh(s) => WellFormed(seg.packet) /\ \A i \in 1..Len(seg.queue) : ~seg.queue[i].retx
    BY <1>2, <1>3, <1>6, <1>8, SegmentFresh
  <1>11. CASE z = <<>> /\ seg.packet # <<>>
    <2>1. PICK u, v, x : u = seg.packet /\ v = u \o AckTail(ack) /\ x = [zero |-> FALSE, packet |-> v]
      OBVIOUS
    <2>2. t = [s EXCEPT !.queue = seg.queue, !.sent = Tx!Record(@, x)]
      BY <1>1, <1>11, <2>1 DEF Tx!SendDataPacket, AckTail
    <2>3. t.queue = seg.queue /\ t.sent = Tx!Record(l, x)
      BY <1>1, <1>2, <2>2 DEF Bufs
    <2>4. u \in Packet
      <3>1. SegmentKept(q, seg)
        BY <1>2, <1>3, <1>8, SegmentKeeps
      <3>2. QED BY <2>1, <3>1 DEF SegmentKept
    <2>5. v \in Packet /\ (Fresh(s) => WellFormed(v))
      BY <1>10, <2>1, <2>4, AckWellFormed, AckTailIs
    <2>6. x \in SentItem /\ x.packet = v
      BY <2>1, <2>5 DEF SentItem
    <2>7. Fresh(s) => \A i \in 1..Len(t.sent) : WellFormed(t.sent[i].packet)
      BY <1>2, <1>6, <2>3, <2>5, <2>6, RecordWellFormed
    <2>8. Fresh(s) => \A i \in 1..Len(t.queue) : ~t.queue[i].retx
      BY <1>10, <2>3
    <2>9. Fresh(s) => Filling(t) <= TxBufferSize
      BY <1>5 DEF Fresh
    <2>10. Fresh(s) => Fresh(t)
      BY <2>7, <2>8, <2>9 DEF Fresh
    <2>11. QED BY <1>9, <2>3, <2>10
  <1>12. CASE z = <<>> /\ seg.packet = <<>>
    <2>1. t = s
      BY <1>1, <1>12 DEF Tx!SendDataPacket, AckTail
    <2>2. QED BY <2>1
  <1>13. QED BY <1>7, <1>11, <1>12

-----------------------------------------------------------------------------
\* What the handlers make of a buffer b that holds new data up to size.
Sound(s, b, size) ==
    /\ Shaped(s) /\ Holding(s) = Holding(b) /\ Amount(s) = Amount(b)
    /\ Tx!Ordered(s.queue, size)
    /\ Fresh(b) => Fresh(s)

\* Packets sent one after the other.
LEMMA SendPacketsSound ==
    ASSUME NEW b, Shaped(b), NEW size, Tx!Ordered(b.queue, size),
           NEW sizes \in Seq(Nat), NEW ack, NEW first
    PROVE  Sound(Tx!SendPackets(b, sizes, ack, first), b, size)
  <1> DEFINE V == {s \in Bufs : Sound(s, b, size)}
  <1>1. b \in V
    BY DEF Sound, Shaped
  <1>2. ASSUME NEW s \in V, NEW m \in Nat
        PROVE  Tx!SendDataPacket(s, m, ack, first) \in V
    <2>1. PICK t : t = Tx!SendDataPacket(s, m, ack, first)
      OBVIOUS
    <2>2. /\ Shaped(s) /\ Holding(s) = Holding(b) /\ Amount(s) = Amount(b)
          /\ Tx!Ordered(s.queue, size) /\ (Fresh(b) => Fresh(s))
      BY DEF Sound
    <2>3. Keeps(s, Tx!SendDataPacket(s, m, ack, first))
      BY <2>2, SendPacketKeeps
    <2>4. Shaped(t) /\ Holding(t) = Holding(s) /\ Amount(t) = Amount(s)
      BY <2>1, <2>3 DEF Keeps
    <2>5. Tx!Ordered(t.queue, size) /\ (Fresh(s) => Fresh(t))
      BY <2>1, <2>2, SendPacketOrdered
    <2>6. Sound(t, b, size) /\ t \in Bufs
      BY <2>2, <2>4, <2>5 DEF Sound, Shaped
    <2>7. QED BY <2>1, <2>6
  <1>3. Tx!SendPackets(b, sizes, ack, first) \in V
    <2> HIDE DEF V
    <2>1. \A s \in V, m \in Nat : Tx!SendDataPacket(s, m, ack, first) \in V
      BY <1>2
    <2>2. QED BY <1>1, <2>1, SendPacketsIn
  <1>4. QED BY <1>3

\* Retransmission keeps the order.
LEMMA RetransmissionOrdered ==
    ASSUME Shaped(Tx!Buffer), NEW size, Tx!Ordered(queue, size),
           NEW lost, NEW first, NEW g, Resending(g, lost, first)
    PROVE  Tx!Ordered(g[Len(sent)].queue, size)
  <1>1. /\ sent \in Seq(SentItem)
        /\ \A i \in 1..Len(sent) : IF sent[i].zero THEN Tx!Bare(sent[i].packet) ELSE Tx!Opens(sent[i].packet)
    BY DEF Shaped, Bufs, Tx!Buffer, Tx!HeadersOK
  <1>2. PICK n : n = Len(sent) /\ n \in Nat
    BY <1>1, LenProperties
  <1>3. /\ g[0] = [Tx!Buffer EXCEPT !.sent = <<>>] /\ \A k \in 0..n : g[k] \in Bufs
        /\ \A k \in 1..n : g[k] = Handled(g[k - 1], n - k + 1, lost, first)
    BY <1>2 DEF Resending
  <1> DEFINE V == {s \in Bufs : Tx!Ordered(s.queue, size)}
  <1>4. g[0] \in V
    <2>1. g[0].queue = queue
      BY <1>3 DEF Tx!Buffer
    <2>2. g[0] \in Bufs
      BY <1>2, <1>3
    <2>3. QED BY <2>1, <2>2
  <1>5. ASSUME NEW k \in 1..n, g[k - 1] \in V
        PROVE  g[k] \in V
    <2>1. PICK i, s, t, x : i = n - k + 1 /\ s = g[k - 1] /\ t = g[k] /\ x = sent[i]
      OBVIOUS
    <2>2. i \in 1..n /\ t \in Bufs /\ s \in Bufs /\ Tx!Ordered(s.queue, size) /\ t = Handled(s, i, lost, first)
      BY <1>2, <1>3, <1>5, <2>1
    <2>3. x \in SentItem /\ IF x.zero THEN TRUE ELSE Tx!Opens(x.packet)
      BY <1>1, <1>2, <2>1, <2>2, ElementOfSeq
    <2>4. CASE i \in lost /\ ~x.zero
      <3>1. PICK y : y = [retx |-> TRUE, key |-> Head(x.packet).n, packet |-> x.packet]
        OBVIOUS
      <3>2. y \in QueueItem /\ y.retx
        <4>1. y \in QueueItem
          BY <2>2, <2>3, <2>4, <3>1, RequeueType
        <4>2. QED BY <3>1, <4>1
      <3>3. t = [s EXCEPT !.queue = Tx!Insert(@, y, first), !.toRetx = @ + Len(x.packet)]
        BY <2>1, <2>2, <2>4, <3>1 DEF Handled, Tx!Requeue
      <3>4. t.queue = Tx!Insert(s.queue, y, first) /\ s.queue \in Seq(QueueItem)
        BY <2>2, <3>3 DEF Bufs
      <3>5. Tx!Ordered(Tx!Insert(s.queue, y, first), size)
        BY <2>2, <3>2, <3>4, InsertRetx
      <3>6. QED BY <2>1, <2>2, <3>4, <3>5
    <2>5. CASE ~(i \in lost /\ ~x.zero)
      <3>1. t.queue = s.queue
        BY <2>1, <2>2, <2>5 DEF Handled, Tx!Requeue, Bufs
      <3>2. QED BY <2>1, <2>2, <3>1
    <2>6. QED BY <2>4, <2>5
  <1>6. \A k \in 0..n : g[k] \in V
    <2> HIDE DEF V
    <2>1. QED BY <1>2, <1>4, <1>5, RecursionIn
  <1>7. g[n] \in V
    BY <1>2, <1>6
  <1>8. QED BY <1>2, <1>7

-----------------------------------------------------------------------------
\* A retransmission is inserted into the front part R of a queue whose other part Q
\* is new data.
LEMMA InsertFront ==
    ASSUME NEW R \in Seq(QueueItem), NEW Q \in Seq(QueueItem), \A i \in 1..Len(Q) : ~Q[i].retx,
           NEW y \in QueueItem, y.retx, NEW first
    PROVE  \E p \in 1..(Len(R) + 1) : Tx!Insert(R \o Q, y, first) = InsertAt(R, p, y) \o Q
  <1>1. PICK m, n, q : m = Len(R) /\ n = Len(Q) /\ m \in Nat /\ n \in Nat /\ q = R \o Q
    BY LenProperties
  <1>2. /\ q \in Seq(QueueItem) /\ Len(q) = m + n
        /\ \A i \in 1..(m + n) : q[i] = IF i <= m THEN R[i] ELSE Q[i - m]
    BY <1>1, ConcatProperties
  <1>3. PICK p \in 1..(Len(q) + 1) : /\ Tx!Insert(q, y, first) = InsertAt(q, p, y)
                                     /\ \A j \in 1..(p - 1) : Ahead(q[j], y, first)
    BY <1>2, InsertIs
  <1>4. p \in 1..(m + 1)
    <2>1. SUFFICES ASSUME p > m + 1 PROVE FALSE
      BY <1>1, <1>2, <1>3
    <2>2. m + 1 \in 1..(p - 1) /\ m + 1 \in 1..(m + n) /\ ~(m + 1 <= m) /\ (m + 1) - m = 1 /\ 1 \in 1..n
      BY <1>1, <1>2, <1>3, <2>1
    <2>3. q[m + 1] = Q[1]
      BY <1>2, <2>2
    <2>4. Ahead(Q[1], y, first)
      BY <1>3, <2>2, <2>3
    <2>5. Q[1].retx = FALSE /\ y.retx = TRUE
      <3>1. Q[1] \in QueueItem
        BY <1>1, <2>2, ElementOfSeq
      <3>2. Q[1].retx \in BOOLEAN /\ y.retx \in BOOLEAN
        BY <3>1 DEF QueueItem
      <3>3. QED BY <1>1, <2>2, <3>2
    <2>6. ~Tx!Before(Q[1], y) /\ Tx!Before(y, Q[1])
      BY <2>5 DEF Tx!Before
    <2>7. QED BY <2>4, <2>6 DEF Ahead
  <1>5. HasPackets(QueueItem)
    BY ItemsHold
  <1>6. PICK c, e, f : c = InsertAt(q, p, y) /\ e = InsertAt(R, p, y) /\ f = e \o Q
    OBVIOUS
  <1>7. /\ c \in Seq(QueueItem) /\ Len(c) = (m + n) + 1
        /\ \A i \in 1..((m + n) + 1) : c[i] = IF i < p THEN q[i] ELSE IF i = p THEN y ELSE q[i - 1]
    <2>1. p \in 1..(Len(q) + 1) /\ q \in Seq(QueueItem)
      BY <1>2, <1>3
    <2>2. /\ InsertAt(q, p, y) \in Seq(QueueItem) /\ Len(InsertAt(q, p, y)) = Len(q) + 1
          /\ \A i \in 1..(Len(q) + 1) :
                 InsertAt(q, p, y)[i] = IF i < p THEN q[i] ELSE IF i = p THEN y ELSE q[i - 1]
      BY <1>5, <2>1, InsertedAt
    <2>3. QED BY <1>2, <1>6, <2>2
  <1>8. /\ e \in Seq(QueueItem) /\ Len(e) = m + 1
        /\ \A i \in 1..(m + 1) : e[i] = IF i < p THEN R[i] ELSE IF i = p THEN y ELSE R[i - 1]
    <2>1. p \in 1..(Len(R) + 1)
      BY <1>1, <1>4
    <2>2. /\ InsertAt(R, p, y) \in Seq(QueueItem) /\ Len(InsertAt(R, p, y)) = Len(R) + 1
          /\ \A i \in 1..(Len(R) + 1) :
                 InsertAt(R, p, y)[i] = IF i < p THEN R[i] ELSE IF i = p THEN y ELSE R[i - 1]
      BY <1>5, <2>1, InsertedAt
    <2>3. QED BY <1>1, <1>6, <2>2
  <1>9. /\ f \in Seq(QueueItem) /\ Len(f) = (m + 1) + n
        /\ \A i \in 1..((m + 1) + n) : f[i] = IF i <= m + 1 THEN e[i] ELSE Q[i - (m + 1)]
    <2>1. /\ e \o Q \in Seq(QueueItem) /\ Len(e \o Q) = Len(e) + Len(Q)
          /\ \A i \in 1..(Len(e) + Len(Q)) : (e \o Q)[i] = IF i <= Len(e) THEN e[i] ELSE Q[i - Len(e)]
      BY <1>8, ConcatProperties
    <2>2. QED BY <1>1, <1>6, <1>8, <2>1
  <1>10. ASSUME NEW i \in 1..((m + n) + 1)
         PROVE  c[i] = f[i]
    <2>1. CASE i < p
      <3>1. i <= m /\ i <= m + 1 /\ i \in 1..(m + n) /\ i \in 1..(m + 1) /\ i \in 1..((m + 1) + n)
        BY <1>1, <1>4, <2>1
      <3>2. QED BY <1>2, <1>7, <1>8, <1>9, <2>1, <3>1
    <2>2. CASE i = p
      <3>1. i <= m + 1 /\ i \in 1..(m + 1) /\ i \in 1..((m + 1) + n) /\ ~(i < p)
        BY <1>1, <1>4, <2>2
      <3>2. QED BY <1>7, <1>8, <1>9, <2>2, <3>1
    <2>3. CASE i > p /\ i <= m + 1
      <3>1. ~(i < p) /\ i # p /\ i - 1 \in 1..(m + n) /\ i - 1 <= m /\ i \in 1..(m + 1) /\ i \in 1..((m + 1) + n)
        BY <1>1, <1>4, <2>3
      <3>2. QED BY <1>2, <1>7, <1>8, <1>9, <2>3, <3>1
    <2>4. CASE i > m + 1
      <3>1. /\ ~(i < p) /\ i # p /\ i - 1 \in 1..(m + n) /\ ~(i - 1 <= m) /\ ~(i <= m + 1)
            /\ (i - 1) - m = i - (m + 1) /\ i \in 1..((m + 1) + n)
        BY <1>1, <1>4, <2>4
      <3>2. c[i] = Q[(i - 1) - m]
        BY <1>2, <1>7, <3>1
      <3>3. f[i] = Q[i - (m + 1)]
        BY <1>9, <3>1
      <3>4. QED BY <3>1, <3>2, <3>3
    <2>5. QED BY <1>1, <1>4, <2>1, <2>2, <2>3, <2>4
  <1>11. c = f
    <2>1. Len(c) = Len(f)
      BY <1>1, <1>7, <1>9
    <2>2. \A i \in 1..Len(c) : c[i] = f[i]
      BY <1>7, <1>10
    <2>3. QED BY <1>7, <1>9, <2>1, <2>2, SeqEqual
  <1>12. QED BY <1>1, <1>3, <1>4, <1>6, <1>11

\* The sizes of the first items of a list.
LEMMA WholeGrows ==
    ASSUME NEW q \in Seq(QueueItem), NEW i \in Nat, NEW j \in 0..Len(q), i < j
    PROVE  /\ Len(WholeItems(q, i)) \in Nat /\ Len(q[i + 1].packet) \in Nat /\ Len(WholeItems(q, j)) \in Nat
           /\ Len(WholeItems(q, i)) + Len(q[i + 1].packet) <= Len(WholeItems(q, j))
  <1>1. PICK n : n = Len(q) /\ n \in Nat
    BY LenProperties
  <1>2. HasPackets(QueueItem)
    BY ItemsHold
  <1>3. i < Len(q) /\ i \in 0..Len(q) /\ i + 1 \in 0..Len(q) /\ i + 1 \in 1..j
    BY <1>1
  <1>4. /\ q[i + 1].packet \in Packet
        /\ Tx!Units(SubSeq(q, 1, i + 1)) = Tx!Units(SubSeq(q, 1, i)) \o q[i + 1].packet
    BY <1>2, <1>3, UnitsNext
  <1>5. PICK a, b, c, d : /\ a = SubSeq(q, 1, i) /\ b = SubSeq(q, 1, i + 1)
                          /\ c = SubSeq(q, (i + 1) + 1, j) /\ d = SubSeq(q, 1, j)
    OBVIOUS
  <1>6. a \in Seq(QueueItem) /\ b \in Seq(QueueItem) /\ d \in Seq(QueueItem)
    BY <1>2, <1>3, <1>5, ListSplit
  <1>7. c \in Seq(QueueItem)
    <2>1. (i + 1) + 1 \in Int /\ j \in Int /\ \A k \in ((i + 1) + 1)..j : q[k] \in QueueItem
      <3>1. \A k \in 1..n : q[k] \in QueueItem
        BY <1>1, ElementOfSeq
      <3>2. \A k \in ((i + 1) + 1)..j : k \in 1..n
        BY <1>1
      <3>3. QED BY <1>1, <3>1, <3>2
    <2>2. QED BY <1>5, <2>1, SubSeqProperties
  <1>8. d = b \o c
    <2>1. 1 \in 1..Len(q) + 1 /\ i + 1 \in 1 - 1..Len(q) /\ j \in i + 1..Len(q)
      BY <1>1, <1>3
    <2>2. SubSeq(q, 1, i + 1) \o SubSeq(q, (i + 1) + 1, j) = SubSeq(q, 1, j)
      BY <2>1, ConcatAdjacentSubSeq
    <2>3. QED BY <1>5, <2>2
  <1>9. Tx!Units(b \o c) = Tx!Units(b) \o Tx!Units(c)
    BY <1>2, <1>6, <1>7, UnitsConcat
  <1>10. PICK ua, ub, uc, ux : ua = Tx!Units(a) /\ ub = Tx!Units(b) /\ uc = Tx!Units(c) /\ ux = q[i + 1].packet
    OBVIOUS
  <1>11. ua \in Packet /\ ub \in Packet /\ uc \in Packet /\ ux \in Packet
    BY <1>2, <1>4, <1>6, <1>7, <1>10, UnitsIs
  <1>12. ub = ua \o ux
    BY <1>4, <1>5, <1>10
  <1>13. /\ Len(ua \o ux) = Len(ua) + Len(ux) /\ Len(ub \o uc) = Len(ub) + Len(uc)
         /\ Len(ua) \in Nat /\ Len(ux) \in Nat /\ Len(ub) \in Nat /\ Len(uc) \in Nat
    BY <1>11, ConcatProperties, LenProperties DEF Packet
  <1>14. Len(ua) + Len(ux) <= Len(ub) + Len(uc) /\ Len(ub) + Len(uc) \in Nat
    BY <1>12, <1>13
  <1>15. WholeItems(q, i) = ua /\ WholeItems(q, j) = ub \o uc
    BY <1>5, <1>8, <1>9, <1>10 DEF WholeItems
  <1>16. QED BY <1>10, <1>13, <1>14, <1>15

\* From a queue of new data, Retransmission makes one with well-formed packets R in
\* front of it, as large together as what is to be retransmitted unless there are
\* frames of stream 0.
InFront(s, R) ==
    /\ R \in Seq(QueueItem) /\ s.queue = R \o queue
    /\ \A i \in 1..Len(R) : R[i].retx /\ WellFormed(R[i].packet)
    /\ s.zero = <<>> => zeroList = <<>> /\ s.toRetx = Tx!Size(R)
PutBack(s) ==
    /\ \A i \in 1..Len(s.sent) : WellFormed(s.sent[i].packet)
    /\ \E R : InFront(s, R)

\* Handling one more packet of the sent list keeps this.
LEMMA HandledPutBack ==
    ASSUME queue \in Seq(QueueItem), \A i \in 1..Len(queue) : ~queue[i].retx,
           NEW s \in Bufs, PutBack(s), NEW i, Proper(sent[i]), WellFormed(sent[i].packet),
           NEW lost, NEW first
    PROVE  PutBack(Handled(s, i, lost, first))
  <1>1. PICK x, u, t, q, z, l : /\ x = sent[i] /\ u = x.packet /\ t = Handled(s, i, lost, first)
                                /\ q = s.queue /\ z = s.zero /\ l = s.sent
    OBVIOUS
  <1>2. q \in Seq(QueueItem) /\ z \in Seq(ZeroItem) /\ l \in Seq(SentItem) /\ s.toRetx \in Nat
    BY <1>1 DEF Bufs
  <1>3. /\ x \in SentItem /\ u \in Packet /\ Len(u) \in Nat /\ (IF x.zero THEN Tx!Bare(u) ELSE Tx!Opens(u))
        /\ WellFormed(u)
    <2>1. x \in SentItem /\ u \in Packet /\ (IF x.zero THEN Tx!Bare(u) ELSE Tx!Opens(u)) /\ WellFormed(u)
      BY <1>1 DEF Proper, SentItem
    <2>2. QED BY <2>1, LenProperties DEF Packet
  <1>4. PICK R : InFront(s, R)
    BY DEF PutBack
  <1>5. /\ R \in Seq(QueueItem) /\ q = R \o queue
        /\ \A j \in 1..Len(R) : R[j].retx /\ WellFormed(R[j].packet)
        /\ z = <<>> => zeroList = <<>> /\ s.toRetx = Tx!Size(R)
        /\ \A j \in 1..Len(l) : WellFormed(l[j].packet)
    BY <1>1, <1>4 DEF InFront, PutBack
  <1>6. CASE i \in lost /\ x.zero
    <2>1. PICK y, c : y = [packet |-> u] /\ c = <<y>> \o z
      OBVIOUS
    <2>2. t = [s EXCEPT !.zero = <<y>> \o @, !.toRetx = @ + Len(u)]
      BY <1>1, <1>6, <2>1 DEF Handled, Tx!Requeue
    <2>3. t.queue = q /\ t.sent = l /\ t.zero = c
      BY <1>1, <2>1, <2>2 DEF Bufs
    <2>4. c # <<>>
      <3>1. y \in ZeroItem
        BY <1>3, <2>1 DEF ZeroItem
      <3>2. HasPackets(ZeroItem)
        BY ItemsHold
      <3>3. Len(<<y>> \o z) = Len(z) + 1 /\ Len(z) \in Nat
        BY <1>2, <3>1, <3>2, ConsIs, LenProperties
      <3>4. Len(c) > 0
        BY <2>1, <3>3
      <3>5. QED BY <3>4
    <2>5. InFront(t, R)
      BY <1>5, <2>3, <2>4 DEF InFront
    <2>6. QED BY <1>1, <1>5, <2>3, <2>5 DEF PutBack
  <1>7. CASE i \in lost /\ ~x.zero
    <2>1. PICK y : y = [retx |-> TRUE, key |-> Head(x.packet).n, packet |-> x.packet]
      OBVIOUS
    <2>2. y \in QueueItem
      <3>1. IF x.zero THEN TRUE ELSE Tx!Opens(x.packet)
        BY <1>1, <1>3
      <3>2. QED BY <1>3, <1>7, <2>1, <3>1, RequeueType
    <2>3. y.packet = u /\ y.retx
      BY <1>1, <2>1
    <2>4. t = [s EXCEPT !.queue = Tx!Insert(@, y, first), !.toRetx = @ + Len(u)]
      BY <1>1, <1>7, <2>1 DEF Handled, Tx!Requeue
    <2>5. t.queue = Tx!Insert(q, y, first) /\ t.sent = l /\ t.zero = z /\ t.toRetx = s.toRetx + Len(u)
      BY <1>1, <2>4 DEF Bufs
    <2>6. PICK p \in 1..(Len(R) + 1) : Tx!Insert(R \o queue, y, first) = InsertAt(R, p, y) \o queue
      BY <1>5, <2>2, <2>3, InsertFront
    <2>7. PICK T : T = InsertAt(R, p, y)
      OBVIOUS
    <2>8. T \in Seq(QueueItem) /\ Gains(T, R, u) /\ Draws(T, R, y)
      <3>1. HasPackets(QueueItem)
        BY ItemsHold
      <3>2. InsertAt(R, p, y) \in Seq(QueueItem) /\ Gains(InsertAt(R, p, y), R, y.packet)
        BY <1>5, <2>2, <2>6, <3>1, InsertedAt
      <3>3. Draws(InsertAt(R, p, y), R, y)
        BY <1>5, <2>2, <2>6, <3>1, InsertedDraws
      <3>4. QED BY <2>3, <2>7, <3>2, <3>3
    <2>9. \A j \in 1..Len(T) : T[j].retx /\ WellFormed(T[j].packet)
      BY <1>3, <1>5, <2>3, <2>8 DEF Draws
    <2>10. Tx!Size(T) = Tx!Size(R) + Len(u)
      BY <2>8 DEF Gains, Tx!Size
    <2>11. t.queue = T \o queue
      BY <1>5, <2>5, <2>6, <2>7
    <2>12. t.zero = <<>> => zeroList = <<>> /\ t.toRetx = Tx!Size(T)
      BY <1>5, <2>5, <2>10
    <2>13. InFront(t, T)
      BY <2>8, <2>9, <2>11, <2>12 DEF InFront
    <2>14. QED BY <1>1, <1>5, <2>5, <2>13 DEF PutBack
  <1>8. CASE i \notin lost
    <2>1. PICK c : c = <<x>> \o l
      OBVIOUS
    <2>2. t = [s EXCEPT !.sent = <<x>> \o @]
      BY <1>1, <1>8 DEF Handled
    <2>3. t.queue = q /\ t.zero = z /\ t.sent = c /\ t.toRetx = s.toRetx
      BY <1>1, <2>1, <2>2 DEF Bufs
    <2>4. Draws(c, l, x)
      <3>1. HasPackets(SentItem)
        BY ItemsHold
      <3>2. Draws(<<x>> \o l, l, x)
        BY <1>2, <1>3, <3>1, ConsIs
      <3>3. QED BY <2>1, <3>2
    <2>5. \A j \in 1..Len(c) : WellFormed(c[j].packet)
      BY <1>1, <1>3, <1>5, <2>4 DEF Draws
    <2>6. InFront(t, R)
      BY <1>5, <2>3 DEF InFront
    <2>7. QED BY <1>1, <2>3, <2>5, <2>6 DEF PutBack
  <1>9. QED BY <1>6, <1>7, <1>8

\* So it is at the end of Retransmission.
LEMMA RetransmissionPutBack ==
    ASSUME Shaped(Tx!Buffer), Fresh(Tx!Buffer),
           NEW lost, NEW first, NEW g, Resending(g, lost, first)
    PROVE  PutBack(g[Len(sent)])
  <1>1. /\ sent \in Seq(SentItem) /\ queue \in Seq(QueueItem) /\ Tx!Buffer \in Bufs
        /\ \A i \in 1..Len(sent) : IF sent[i].zero THEN Tx!Bare(sent[i].packet) ELSE Tx!Opens(sent[i].packet)
        /\ \A i \in 1..Len(sent) : WellFormed(sent[i].packet)
        /\ \A i \in 1..Len(queue) : ~queue[i].retx
    BY DEF Shaped, Bufs, Tx!Buffer, Tx!HeadersOK, Fresh
  <1>2. PICK n : n = Len(sent) /\ n \in Nat
    BY <1>1, LenProperties
  <1>3. /\ g[0] = [Tx!Buffer EXCEPT !.sent = <<>>] /\ \A k \in 0..n : g[k] \in Bufs
        /\ \A k \in 1..n : g[k] = Handled(g[k - 1], n - k + 1, lost, first)
    BY <1>2 DEF Resending
  <1>4. \A i \in 1..n : Proper(sent[i])
    BY <1>1, <1>2, ElementOfSeq DEF Proper
  <1> DEFINE V == {s \in Bufs : PutBack(s)}
  <1>5. g[0] \in V
    <2>1. g[0].queue = queue /\ g[0].sent = <<>> /\ g[0].zero = zeroList /\ g[0].toRetx = 0
      BY <1>3 DEF Tx!Buffer
    <2>2. <<>> \in Seq(QueueItem) /\ Len(<<>>) = 0
      BY EmptySeq
    <2>3. queue = <<>> \o queue
      BY <1>1, ConcatEmptySeq
    <2>4. \A i \in 1..Len(<<>>) : FALSE
      BY <2>2
    <2>5. InFront(g[0], <<>>)
      BY <2>1, <2>2, <2>3, <2>4, NoItems DEF InFront
    <2>6. g[0] \in Bufs
      BY <1>2, <1>3
    <2>7. PutBack(g[0])
      BY <2>1, <2>4, <2>5 DEF PutBack
    <2>8. QED BY <2>6, <2>7
  <1>6. ASSUME NEW k \in 1..n, g[k - 1] \in V
        PROVE  g[k] \in V
    <2>1. PICK i, s, t : i = n - k + 1 /\ s = g[k - 1] /\ t = g[k]
      OBVIOUS
    <2>2. i \in 1..n /\ t \in Bufs /\ s \in Bufs /\ PutBack(s) /\ t = Handled(s, i, lost, first)
      BY <1>2, <1>3, <1>6, <2>1
    <2>3. Proper(sent[i]) /\ WellFormed(sent[i].packet)
      BY <1>1, <1>2, <1>4, <2>2
    <2>4. PutBack(Handled(s, i, lost, first))
      BY <1>1, <2>2, <2>3, HandledPutBack
    <2>5. QED BY <2>1, <2>2, <2>4
  <1>7. \A k \in 0..n : g[k] \in V
    <2> HIDE DEF V
    <2>1. QED BY <1>2, <1>5, <1>6, RecursionIn
  <1>8. g[n] \in V
    BY <1>2, <1>7
  <1>9. QED BY <1>2, <1>8

\* The packet that follows takes exactly what was put in front of the queue.
LEMMA ResendExact ==
    ASSUME queue \in Seq(QueueItem), NEW s, Shaped(s), NEW R, InFront(s, R), s.zero = <<>>,
           NEW first, NEW k \in 0..Len(s.queue), NEW seg,
           Segment(s.queue, s.toRetx, first, k, seg)
    PROVE  seg.packet = Tx!Units(R) /\ seg.queue = queue
  <1>1. PICK q, m, n : q = s.queue /\ m = Len(R) /\ n = Len(queue) /\ m \in Nat /\ n \in Nat
    BY LenProperties DEF InFront
  <1>2. R \in Seq(QueueItem) /\ q = R \o queue /\ s.toRetx = Tx!Size(R)
    BY <1>1 DEF InFront
  <1>3. q \in Seq(QueueItem) /\ \A i \in 1..Len(q) : Tx!Opens(q[i].packet)
    BY <1>1 DEF Shaped, Bufs, Tx!HeadersOK
  <1>4. Len(q) = m + n /\ \A i \in 1..(m + n) : q[i] = IF i <= m THEN R[i] ELSE queue[i - m]
    BY <1>1, <1>2, ConcatProperties
  <1>5. m \in 0..Len(q) /\ k \in 0..Len(q) /\ k \in Nat
    BY <1>1, <1>4
  <1>6. HasPackets(QueueItem)
    BY ItemsHold
  <1>7. PICK a, b : a = SubSeq(q, 1, m) /\ b = SubSeq(q, m + 1, Len(q))
    OBVIOUS
  <1>8. /\ a \in Seq(QueueItem) /\ Len(a) = m /\ \A i \in 1..m : a[i] = q[i]
        /\ b \in Seq(QueueItem) /\ Len(b) = n /\ \A i \in 1..n : b[i] = q[m + i]
    <2>1. /\ SubSeq(q, 1, m) \in Seq(QueueItem) /\ Len(SubSeq(q, 1, m)) = m
          /\ \A i \in 1..m : SubSeq(q, 1, m)[i] = q[i]
          /\ SubSeq(q, m + 1, Len(q)) \in Seq(QueueItem)
          /\ Len(SubSeq(q, m + 1, Len(q))) = Len(q) - m
          /\ \A i \in 1..(Len(q) - m) : SubSeq(q, m + 1, Len(q))[i] = q[m + i]
      BY <1>3, <1>5, <1>6, ListSplit
    <2>2. Len(q) - m = n
      BY <1>1, <1>4
    <2>3. QED BY <1>7, <2>1, <2>2
  <1>9. a = R
    <2>1. \A i \in 1..m : i \in 1..(m + n) /\ i <= m
      BY <1>1
    <2>2. \A i \in 1..Len(a) : a[i] = R[i]
      BY <1>4, <1>8, <2>1
    <2>3. QED BY <1>1, <1>2, <1>8, <2>2, SeqEqual
  <1>10. b = queue
    <2>1. \A i \in 1..n : m + i \in 1..(m + n) /\ ~(m + i <= m) /\ (m + i) - m = i
      BY <1>1
    <2>2. \A i \in 1..Len(b) : b[i] = queue[i]
      BY <1>4, <1>8, <2>1
    <2>3. QED BY <1>1, <1>8, <2>2, SeqEqual
  <1>11. WholeItems(q, m) = Tx!Units(R) /\ Len(WholeItems(q, m)) = s.toRetx /\ s.toRetx \in Nat
    <2>1. WholeItems(q, m) = Tx!Units(R)
      BY <1>7, <1>9 DEF WholeItems
    <2>2. s.toRetx \in Nat
      BY DEF Shaped, Bufs
    <2>3. QED BY <1>2, <2>1, <2>2 DEF Tx!Size
  <1>12. /\ Len(WholeItems(q, k)) <= s.toRetx
         /\ k < Len(q) => Len(WholeItems(q, k)) + Len(q[k + 1].packet) > s.toRetx
    BY <1>1 DEF Segment
  <1>13. ~(k < m)
    <2>1. SUFFICES ASSUME k < m PROVE FALSE
      OBVIOUS
    <2>2. /\ Len(WholeItems(q, k)) \in Nat /\ Len(q[k + 1].packet) \in Nat
          /\ Len(WholeItems(q, k)) + Len(q[k + 1].packet) <= Len(WholeItems(q, m))
      BY <1>3, <1>5, <2>1, WholeGrows
    <2>3. k < Len(q)
      BY <1>1, <1>4, <1>5, <2>1
    <2>4. PICK v, w : v = Len(WholeItems(q, k)) + Len(q[k + 1].packet) /\ w = s.toRetx
      OBVIOUS
    <2>5. v \in Nat /\ w \in Nat /\ v <= w /\ v > w
      BY <1>11, <1>12, <2>2, <2>3, <2>4
    <2>6. QED BY <2>5
  <1>14. ~(k > m)
    <2>1. SUFFICES ASSUME k > m PROVE FALSE
      OBVIOUS
    <2>2. m < k
      BY <1>1, <1>5, <2>1
    <2>3. /\ Len(WholeItems(q, m)) \in Nat /\ Len(q[m + 1].packet) \in Nat /\ Len(WholeItems(q, k)) \in Nat
          /\ Len(WholeItems(q, m)) + Len(q[m + 1].packet) <= Len(WholeItems(q, k))
      BY <1>1, <1>3, <1>5, <2>2, WholeGrows
    <2>4. Len(q[m + 1].packet) > 0
      <3>1. m + 1 \in 1..Len(q)
        BY <1>1, <1>4, <1>5, <2>1
      <3>2. q[m + 1].packet \in Packet /\ q[m + 1].packet # <<>>
        <4>1. q[m + 1] \in QueueItem
          BY <1>3, <3>1, ElementOfSeq
        <4>2. QED BY <1>3, <3>1, <4>1 DEF QueueItem, Tx!Opens
      <3>3. QED BY <3>2, EmptySeq, LenProperties DEF Packet
    <2>5. PICK v, w, e, f : /\ v = Len(WholeItems(q, m)) /\ w = Len(WholeItems(q, k)) /\ e = Len(q[m + 1].packet)
                            /\ f = s.toRetx
      OBVIOUS
    <2>6. v \in Nat /\ w \in Nat /\ e \in Nat /\ v + e <= w /\ e > 0 /\ w <= f /\ v = f
      BY <1>11, <1>12, <2>3, <2>4, <2>5
    <2>7. QED BY <2>6
  <1>15. k = m
    BY <1>1, <1>5, <1>13, <1>14
  <1>16. Part(q, k, s.toRetx) <= 0
    <2>1. Part(q, k, s.toRetx) = s.toRetx - s.toRetx - 1
      BY <1>11, <1>15 DEF Part
    <2>2. QED BY <1>11, <2>1
  <1>17. ~(Part(q, k, s.toRetx) > 0)
    <2>1. Part(q, k, s.toRetx) = s.toRetx - s.toRetx - 1
      BY <1>11, <1>15 DEF Part
    <2>2. QED BY <1>11, <2>1
  <1>18. seg.packet = WholeItems(q, k) /\ seg.queue = SubSeq(q, k + 1, Len(q))
    BY <1>1, <1>17 DEF Segment
  <1>19. QED BY <1>7, <1>10, <1>11, <1>15, <1>18

\* If no retransmission stays in the buffer, the buffer is as it was.
LEMMA ResendFresh ==
    ASSUME Shaped(Tx!Buffer), Fresh(Tx!Buffer), NEW s, Shaped(s), PutBack(s), NEW ack, NEW first,
           NEW t, t = Tx!SendDataPacket(s, s.toRetx, ack, first),
           t.zero = <<>>, \A i \in 1..Len(t.queue) : ~t.queue[i].retx
    PROVE  Fresh(t)
  <1>1. PICK q, z, l, n : q = s.queue /\ z = s.zero /\ l = s.sent /\ n = s.toRetx
    OBVIOUS
  <1>2. /\ s \in Bufs /\ q \in Seq(QueueItem) /\ z \in Seq(ZeroItem) /\ l \in Seq(SentItem) /\ n \in Nat
        /\ \A i \in 1..Len(q) : Tx!Opens(q[i].packet)
        /\ \A i \in 1..Len(z) : Tx!Bare(z[i].packet)
    BY <1>1 DEF Shaped, Bufs, Tx!HeadersOK
  <1>3. PICK R : InFront(s, R)
    BY DEF PutBack
  <1>4. /\ R \in Seq(QueueItem) /\ q = R \o queue
        /\ \A i \in 1..Len(R) : R[i].retx /\ WellFormed(R[i].packet)
        /\ \A i \in 1..Len(l) : WellFormed(l[i].packet)
    BY <1>1, <1>3 DEF InFront, PutBack
  <1>5. /\ queue \in Seq(QueueItem) /\ zeroList \in Seq(ZeroItem)
        /\ Tx!Size(queue) + Tx!Size(zeroList) <= TxBufferSize
        /\ \A i \in 1..Len(queue) : ~queue[i].retx
    BY DEF Shaped, Bufs, Tx!Buffer, Fresh, Filling
  <1>6. /\ HasPackets(QueueItem) /\ HasPackets(ZeroItem) /\ HasPackets(SentItem)
    BY ItemsHold
  <1>7. Len(R) \in Nat /\ Len(queue) \in Nat
    BY <1>4, <1>5, LenProperties
  <1>8. q = queue \/ Len(R) > 0
    <2>1. CASE Len(R) = 0
      <3>1. R = <<>>
        BY <1>4, <2>1, EmptySeq
      <3>2. <<>> \o queue = queue
        BY <1>5, ConcatEmptySeq
      <3>3. QED BY <1>4, <3>1, <3>2
    <2>2. QED BY <1>7, <2>1
  <1>9. t.queue = queue /\ \A i \in 1..Len(t.sent) : WellFormed(t.sent[i].packet)
    <2>1. CASE z # <<>>
      <3>1. PICK u, v, x : u = Head(z).packet /\ v = u \o AckTail(ack) /\ x = [zero |-> TRUE, packet |-> v]
        OBVIOUS
      <3>2. t = [s EXCEPT !.zero = Tail(@), !.sent = Tx!Record(@, x)]
        BY <1>1, <2>1, <3>1 DEF Tx!SendDataPacket, AckTail
      <3>3. t.queue = q /\ t.sent = Tx!Record(l, x)
        BY <1>1, <1>2, <3>2 DEF Bufs
      <3>4. u \in Packet /\ Tx!Bare(u)
        <4>1. Head(z) = z[1] /\ z[1] \in ZeroItem /\ Len(z) > 0
          BY <1>2, <1>6, <2>1, TailIs
        <4>2. 1 \in 1..Len(z)
          BY <1>2, <4>1, LenProperties
        <4>3. QED BY <1>2, <3>1, <4>1, <4>2 DEF ZeroItem
      <3>5. WellFormed(v) /\ v \in Packet
        <4>1. WellFormed(u)
          BY <3>4, BareWellFormed DEF Tx!Bare
        <4>2. QED BY <3>1, <3>4, <4>1, AckWellFormed, AckTailIs
      <3>6. x \in SentItem /\ x.packet = v
        BY <3>1, <3>5 DEF SentItem
      <3>7. \A i \in 1..Len(t.sent) : WellFormed(t.sent[i].packet)
        BY <1>2, <1>4, <3>3, <3>5, <3>6, RecordWellFormed
      <3>8. ~(Len(R) > 0)
        <4>1. SUFFICES ASSUME Len(R) > 0 PROVE FALSE
          OBVIOUS
        <4>2. /\ Len(q) = Len(R) + Len(queue)
              /\ \A i \in 1..(Len(R) + Len(queue)) : q[i] = IF i <= Len(R) THEN R[i] ELSE queue[i - Len(R)]
          BY <1>4, <1>5, ConcatProperties
        <4>3. 1 \in 1..(Len(R) + Len(queue)) /\ 1 <= Len(R) /\ 1 \in 1..Len(R)
          BY <1>7, <4>1
        <4>4. q[1] = R[1] /\ R[1].retx /\ 1 \in 1..Len(q)
          BY <1>4, <4>2, <4>3
        <4>5. QED BY <3>3, <4>4
      <3>9. QED BY <1>8, <3>3, <3>7, <3>8
    <2>2. CASE z = <<>>
      <3>1. PICK seg : seg = Tx!GetNewSegment(q, n, first)
        OBVIOUS
      <3>2. PICK k \in 0..Len(q) : Segment(q, n, first, k, seg)
        BY <1>2, <3>1, SegmentIs
      <3>3. seg.packet = Tx!Units(R) /\ seg.queue = queue
        <4>1. Segment(s.queue, s.toRetx, first, k, seg) /\ k \in 0..Len(s.queue) /\ s.zero = <<>>
          BY <1>1, <2>2, <3>2
        <4>2. QED BY <1>3, <1>5, <4>1, ResendExact
      <3>4. WellFormed(seg.packet) /\ seg.packet \in Packet
        BY <1>4, <1>6, <3>3, UnitsWellFormed, UnitsIs
      <3>5. CASE seg.packet # <<>>
        <4>1. PICK u, v, x : u = seg.packet /\ v = u \o AckTail(ack) /\ x = [zero |-> FALSE, packet |-> v]
          OBVIOUS
        <4>2. t = [s EXCEPT !.queue = seg.queue, !.sent = Tx!Record(@, x)]
          BY <1>1, <2>2, <3>1, <3>5, <4>1 DEF Tx!SendDataPacket, AckTail
        <4>3. t.queue = queue /\ t.sent = Tx!Record(l, x)
          BY <1>1, <1>2, <3>3, <4>2 DEF Bufs
        <4>4. v \in Packet /\ WellFormed(v)
          BY <3>4, <4>1, AckWellFormed, AckTailIs
        <4>5. x \in SentItem /\ x.packet = v
          BY <4>1, <4>4 DEF SentItem
        <4>6. QED BY <1>2, <1>4, <4>3, <4>4, <4>5, RecordWellFormed
      <3>6. CASE seg.packet = <<>>
        <4>1. t = s
          BY <1>1, <2>2, <3>1, <3>6 DEF Tx!SendDataPacket, AckTail
        <4>2. ~(Len(R) > 0)
          <5>1. SUFFICES ASSUME Len(R) > 0 PROVE FALSE
            OBVIOUS
          <5>2. /\ Len(q) = Len(R) + Len(queue)
                /\ \A i \in 1..(Len(R) + Len(queue)) : q[i] = IF i <= Len(R) THEN R[i] ELSE queue[i - Len(R)]
            BY <1>4, <1>5, ConcatProperties
          <5>3. 1 \in 1..(Len(R) + Len(queue)) /\ 1 <= Len(R)
            BY <1>7, <5>1
          <5>4. q[1] = R[1] /\ 1 \in 1..Len(q)
            BY <5>2, <5>3
          <5>5. Tx!Opens(R[1].packet)
            BY <1>2, <5>4
          <5>6. Tx!Opens(Tx!Units(R))
            BY <1>4, <1>6, <5>1, <5>5, UnitsOpen
          <5>7. QED BY <3>3, <3>6, <5>6 DEF Tx!Opens
        <4>3. QED BY <1>1, <1>4, <1>8, <4>1, <4>2
      <3>7. QED BY <3>5, <3>6
    <2>3. QED BY <2>1, <2>2
  <1>10. Filling(t) <= TxBufferSize
    <2>1. Tx!Size(queue) \in Nat /\ Tx!Size(zeroList) \in Nat
      BY <1>5, <1>6, CountType
    <2>2. Filling(t) = Tx!Size(queue) + 0
      BY <1>9, NoItems DEF Filling
    <2>3. TxBufferSize \in Int
      BY SendPathAssumption, SendAssumption
    <2>4. PICK a, b, c : a = Tx!Size(queue) /\ b = Tx!Size(zeroList) /\ c = Filling(t)
      OBVIOUS
    <2>5. a \in Nat /\ b \in Nat /\ a + b <= TxBufferSize /\ c = a + 0
      BY <1>5, <2>1, <2>2, <2>4
    <2>6. c <= TxBufferSize
      BY <2>3, <2>5
    <2>7. QED BY <2>4, <2>6
  <1>11. QED BY <1>9, <1>10 DEF Fresh

-----------------------------------------------------------------------------
\* The buffer's part of the invariant, for a state t of the buffer, the bytes a that
\* are acknowledged, the size of the stream and the number of retransmissions.
Stored(t, a, size, n) ==
    /\ Shaped(t)
    /\ OnePlace(Holding(t), Amount(t), a, size)
    /\ Tx!Ordered(t.queue, size)
    /\ n = 0 => Fresh(t)
BufferInv ==
    /\ Tx!ListsOK(queue, zeroList, sent) /\ Tx!HeadersOK(queue, zeroList, sent)
    /\ Tx!Ordered(queue, sentSize)
    /\ Conserved
    /\ FreshInv

\* What Conserved says of the bytes held.
LEMMA HeldIs ==
    ASSUME NEW q \in Seq(QueueItem), NEW l \in Seq(SentItem)
    PROVE  /\ Tx!Numbers(Tx!Units(q) \o Tx!Units(l)) = Tx!Numbers(Tx!Units(q)) \cup Tx!Numbers(Tx!Units(l))
           /\ Cardinality(Tx!Places(Tx!Units(q) \o Tx!Units(l))) = Count(Tx!Units(q)) + Count(Tx!Units(l))
  <1>1. HasPackets(QueueItem) /\ HasPackets(SentItem)
    BY ItemsHold
  <1>2. PICK u, v : u = Tx!Units(q) /\ v = Tx!Units(l)
    OBVIOUS
  <1>3. u \in Packet /\ v \in Packet
    BY <1>1, <1>2, UnitsIs
  <1>4. Count(u \o v) = Count(u) + Count(v) /\ Tx!Numbers(u \o v) = Tx!Numbers(u) \cup Tx!Numbers(v)
    BY <1>3, BytesConcat
  <1>5. QED BY <1>2, <1>4 DEF Count

\* The invariant says it of the buffer as it is.
LEMMA StoredNow ==
    ASSUME BufferInv
    PROVE  Stored(Tx!Buffer, acked, sentSize, left)
  <1>1. PICK t : t = Tx!Buffer
    OBVIOUS
  <1>2. t.queue = queue /\ t.zero = zeroList /\ t.sent = sent /\ t.toRetx = 0
    BY <1>1 DEF Tx!Buffer
  <1>3. queue \in Seq(QueueItem) /\ zeroList \in Seq(ZeroItem) /\ sent \in Seq(SentItem)
    BY DEF BufferInv, Tx!ListsOK, QueueItem, ZeroItem, SentItem, Packet
  <1>4. Shaped(t)
    <2>1. t \in Bufs
      BY <1>1, <1>3 DEF Tx!Buffer, Bufs
    <2>2. QED BY <1>2, <2>1 DEF Shaped, BufferInv
  <1>5. OnePlace(Holding(t), Amount(t), acked, sentSize)
    <2>1. /\ Tx!Numbers(Tx!Units(queue) \o Tx!Units(sent)) = Holding(t)
          /\ Cardinality(Tx!Places(Tx!Units(queue) \o Tx!Units(sent))) = Amount(t)
      BY <1>2, <1>3, HeldIs DEF Holding, Amount
    <2>2. /\ Tx!Numbers(Tx!Units(queue) \o Tx!Units(sent)) \cap acked = {}
          /\ Tx!Numbers(Tx!Units(queue) \o Tx!Units(sent)) \cup acked = 0..(sentSize - 1)
          /\ Cardinality(Tx!Places(Tx!Units(queue) \o Tx!Units(sent))) = sentSize - Cardinality(acked)
      BY DEF BufferInv, Conserved
    <2>3. QED BY <2>1, <2>2 DEF OnePlace
  <1>6. Tx!Ordered(t.queue, sentSize)
    BY <1>2 DEF BufferInv
  <1>7. left = 0 => Fresh(t)
    BY <1>2 DEF BufferInv, FreshInv, Fresh, Filling, Tx!AppSize
  <1>8. QED BY <1>1, <1>4, <1>5, <1>6, <1>7 DEF Stored

\* A handler whose outcome is such a buffer keeps the invariant.
LEMMA StoredNext ==
    ASSUME NEW t, queue' = t.queue, zeroList' = t.zero, sent' = t.sent,
           Stored(t, acked', sentSize', left')
    PROVE  BufferInv'
  <1>1. /\ Shaped(t) /\ OnePlace(Holding(t), Amount(t), acked', sentSize')
        /\ Tx!Ordered(t.queue, sentSize') /\ (left' = 0 => Fresh(t))
    BY DEF Stored
  <1>2. t.queue \in Seq(QueueItem) /\ t.zero \in Seq(ZeroItem) /\ t.sent \in Seq(SentItem)
    BY <1>1 DEF Shaped, Bufs
  <1>3. Tx!ListsOK(queue', zeroList', sent')
    BY <1>2 DEF Tx!ListsOK, QueueItem, ZeroItem, SentItem, Packet
  <1>4. Tx!HeadersOK(queue', zeroList', sent')
    BY <1>1 DEF Shaped
  <1>5. Tx!Ordered(queue', sentSize')
    BY <1>1
  <1>6. Conserved'
    <2>1. /\ Tx!Numbers(Tx!Units(queue') \o Tx!Units(sent')) = Holding(t)
          /\ Cardinality(Tx!Places(Tx!Units(queue') \o Tx!Units(sent'))) = Amount(t)
      BY <1>2, HeldIs DEF Holding, Amount
    <2>2. /\ Holding(t) \cap acked' = {}
          /\ Holding(t) \cup acked' = 0..(sentSize' - 1)
          /\ Amount(t) = sentSize' - Cardinality(acked')
      BY <1>1 DEF OnePlace
    <2>3. QED BY <2>1, <2>2 DEF Conserved
  <1>7. FreshInv'
    BY <1>1 DEF FreshInv, Fresh, Filling, Tx!AppSize
  <1>8. QED BY <1>3, <1>4, <1>5, <1>6, <1>7 DEF BufferInv

\* The sound result of a handler is stored.
LEMMA SoundStored ==
    ASSUME NEW b, NEW t, NEW a, NEW size, NEW n, NEW m,
           Stored(b, a, size, n), Sound(t, b, size), m = 0 => n = 0
    PROVE  Stored(t, a, size, m)
  BY DEF Stored, Sound

\* The bounds of the history variables, and acknowledged bytes are the stream's.
HistoryOK ==
    /\ acked \subseteq Byte
    /\ zeros \in 0..MaxZero
    /\ acks \in 0..MaxAcks
    /\ left \in 0..MaxLeft

\* SendPendingData of the socket.
LEMMA SendPendingKeeps ==
    ASSUME BufferInv, HistoryOK, sentSize' = sentSize, NEW ack \in BOOLEAN, NEW first,
           Tx!SendPendingData(ack, first)
    PROVE  BufferInv' /\ HistoryOK'
  <1>1. PICK n \in 0..(Tx!AppSize \div SegSize) :
            LET count == Len(zeroList) + n IN
            /\ count > 0
            /\ \E s \in {Tx!SendPackets(Tx!Buffer, [i \in 1..count |-> SegSize], ack, first)} :
                   Tx!Leaves(s, count, ack)
            /\ UNCHANGED <<acked, zeros, left>>
    BY DEF Tx!SendPendingData
  <1>2. PICK count, sizes, t : /\ count = Len(zeroList) + n /\ sizes = [i \in 1..count |-> SegSize]
                               /\ t = Tx!SendPackets(Tx!Buffer, sizes, ack, first)
    OBVIOUS
  <1>3. count > 0 /\ Tx!Leaves(t, count, ack) /\ acked' = acked /\ zeros' = zeros /\ left' = left
    BY <1>1, <1>2
  <1>4. Stored(Tx!Buffer, acked, sentSize, left)
    BY StoredNow
  <1>5. count \in Nat
    <2>1. Len(zeroList) \in Nat
      BY LenProperties DEF BufferInv, Tx!ListsOK
    <2>2. n \in Int /\ n >= 0
      BY <1>1
    <2>3. QED BY <1>2, <2>1, <2>2
  <1>6. sizes \in Seq(Nat)
    <2>1. SegSize \in Nat
      BY SendAssumption
    <2>2. sizes \in [1..count -> Nat]
      BY <1>2, <2>1
    <2>3. QED BY <1>5, <2>2, SeqDef
  <1>7. Sound(t, Tx!Buffer, sentSize)
    <2>1. Shaped(Tx!Buffer) /\ Tx!Ordered(Tx!Buffer.queue, sentSize)
      BY <1>4 DEF Stored
    <2>2. QED BY <1>2, <1>6, <2>1, SendPacketsSound
  <1>8. Stored(t, acked', sentSize', left')
    BY <1>3, <1>4, <1>7, SoundStored
  <1>9. BufferInv'
    BY <1>3, <1>8, StoredNext DEF Tx!Leaves
  <1>10. HistoryOK'
    <2>1. acks' = acks + (IF ack THEN count ELSE 0) /\ acks' <= MaxAcks
      BY <1>3 DEF Tx!Leaves
    <2>2. acks' \in 0..MaxAcks
      BY <1>5, <2>1, SendPathAssumption DEF HistoryOK
    <2>3. QED BY <1>3, <2>2 DEF HistoryOK, Byte
  <1>11. QED BY <1>9, <1>10

\* ReTxTimeout, with packets of any sizes.
LEMMA TimeoutKeeps ==
    ASSUME BufferInv, HistoryOK, sentSize' = sentSize, NEW ack \in BOOLEAN, NEW first,
           NEW sizes \in Seq(Nat), Tx!ReTxTimeout(sizes, ack, first)
    PROVE  BufferInv' /\ HistoryOK'
  <1>1. PICK t, n : t = Tx!SendPackets(Tx!Buffer, sizes, ack, first) /\ n = Len(sizes) /\ n \in Nat
    BY LenProperties
  <1>2. /\ left < MaxLeft /\ Tx!Leaves(t, n, ack) /\ acked' = acked /\ zeros' = zeros
        /\ left' = IF left > 0 THEN left + 1 ELSE 0
    BY <1>1 DEF Tx!ReTxTimeout
  <1>3. Stored(Tx!Buffer, acked, sentSize, left)
    BY StoredNow
  <1>4. Sound(t, Tx!Buffer, sentSize)
    <2>1. Shaped(Tx!Buffer) /\ Tx!Ordered(Tx!Buffer.queue, sentSize)
      BY <1>3 DEF Stored
    <2>2. QED BY <1>1, <2>1, SendPacketsSound
  <1>5. left' = 0 => left = 0
    BY <1>2, SendPathAssumption DEF HistoryOK
  <1>6. Stored(t, acked', sentSize', left')
    BY <1>2, <1>3, <1>4, <1>5, SoundStored
  <1>7. BufferInv'
    BY <1>2, <1>6, StoredNext DEF Tx!Leaves
  <1>8. HistoryOK'
    <2>1. acks' = acks + (IF ack THEN n ELSE 0) /\ acks' <= MaxAcks
      BY <1>2 DEF Tx!Leaves
    <2>2. acks' \in 0..MaxAcks
      BY <1>1, <2>1, SendPathAssumption DEF HistoryOK
    <2>3. left' \in 0..MaxLeft
      BY <1>2, SendPathAssumption DEF HistoryOK
    <2>4. QED BY <1>2, <2>2, <2>3 DEF HistoryOK, Byte
  <1>9. QED BY <1>7, <1>8

\* DoRetransmit: the lost packets go back, then one packet leaves.
LEMMA DoRetransmitKeeps ==
    ASSUME BufferInv, HistoryOK, sentSize' = sentSize, NEW ack \in BOOLEAN, NEW first,
           NEW lost, Tx!DoRetransmit(lost, ack, first)
    PROVE  BufferInv' /\ HistoryOK'
  <1>1. Stored(Tx!Buffer, acked, sentSize, left)
    BY StoredNow
  <1>2. /\ Shaped(Tx!Buffer) /\ OnePlace(Holding(Tx!Buffer), Amount(Tx!Buffer), acked, sentSize)
        /\ Tx!Ordered(queue, sentSize) /\ (left = 0 => Fresh(Tx!Buffer))
    BY <1>1 DEF Stored, Tx!Buffer
  <1>3. PICK s, t : s = Tx!Retransmission(lost, first) /\ t = Tx!SendDataPacket(s, s.toRetx, ack, first)
    OBVIOUS
  <1>4. /\ left < MaxLeft /\ Tx!Leaves(t, 1, ack) /\ acked' = acked /\ zeros' = zeros
        /\ left' = IF left > 0 \/ zeroList' # <<>> \/ (\E i \in 1..Len(queue') : queue'[i].retx)
                   THEN left + 1 ELSE 0
    BY <1>3 DEF Tx!DoRetransmit
  <1>5. queue' = t.queue /\ zeroList' = t.zero /\ sent' = t.sent
    BY <1>4 DEF Tx!Leaves
  <1>6. PICK g : Resending(g, lost, first) /\ s = g[Len(sent)]
    BY <1>2, <1>3, RetransmissionIs
  <1>7. Len(sent) \in Nat
    BY LenProperties DEF BufferInv, Tx!ListsOK
  <1>8. Shaped(s) /\ Holding(s) = Holding(Tx!Buffer) /\ Amount(s) = Amount(Tx!Buffer)
    BY <1>2, <1>6, <1>7, RetransmissionKeeps
  <1>9. Tx!Ordered(s.queue, sentSize)
    BY <1>2, <1>6, RetransmissionOrdered
  <1>10. s.toRetx \in Nat
    BY <1>8 DEF Shaped, Bufs
  <1>11. Keeps(s, Tx!SendDataPacket(s, s.toRetx, ack, first))
    BY <1>8, <1>10, SendPacketKeeps
  <1>12. Shaped(t) /\ Holding(t) = Holding(Tx!Buffer) /\ Amount(t) = Amount(Tx!Buffer)
    BY <1>3, <1>8, <1>11 DEF Keeps
  <1>13. Tx!Ordered(t.queue, sentSize)
    BY <1>3, <1>8, <1>9, <1>10, SendPacketOrdered
  <1>14. left' = 0 => Fresh(t)
    <2>1. SUFFICES ASSUME left' = 0
                   PROVE  Fresh(t)
      OBVIOUS
    <2>2. ~(left > 0 \/ zeroList' # <<>> \/ \E i \in 1..Len(queue') : queue'[i].retx)
      <3>1. left \in Nat /\ left + 1 # 0
        BY SendPathAssumption DEF HistoryOK
      <3>2. QED BY <1>4, <2>1, <3>1
    <2>3. left = 0
      BY <2>2, SendPathAssumption DEF HistoryOK
    <2>4. PutBack(s)
      BY <1>2, <1>6, <2>3, RetransmissionPutBack
    <2>5. t.zero = <<>> /\ \A i \in 1..Len(t.queue) : ~t.queue[i].retx
      BY <1>5, <2>2
    <2>6. QED BY <1>2, <1>3, <1>8, <2>3, <2>4, <2>5, ResendFresh
  <1>15. Stored(t, acked', sentSize', left')
    BY <1>2, <1>4, <1>12, <1>13, <1>14 DEF Stored
  <1>16. BufferInv'
    BY <1>5, <1>15, StoredNext
  <1>17. HistoryOK'
    <2>1. acks' = acks + (IF ack THEN 1 ELSE 0) /\ acks' <= MaxAcks
      BY <1>4 DEF Tx!Leaves
    <2>2. acks' \in 0..MaxAcks
      BY <2>1, SendPathAssumption DEF HistoryOK
    <2>3. left' \in 0..MaxLeft
      BY <1>4, SendPathAssumption DEF HistoryOK
    <2>4. QED BY <1>4, <2>2, <2>3 DEF HistoryOK, Byte
  <1>18. QED BY <1>16, <1>17

\* A packet of the sent list has been acknowledged.
LEMMA AcknowledgedKeeps ==
    ASSUME BufferInv, HistoryOK, sentSize' = sentSize, sentSize \in 0..StreamBytes,
           NEW i \in 1..Len(sent), Tx!Acknowledged(i)
    PROVE  BufferInv' /\ HistoryOK'
  <1>1. Stored(Tx!Buffer, acked, sentSize, left)
    BY StoredNow
  <1>2. PICK b, t : b = Tx!Buffer /\ t = [b EXCEPT !.sent = RemoveAt(sent, i)]
    OBVIOUS
  <1>3. /\ Shaped(b) /\ OnePlace(Holding(b), Amount(b), acked, sentSize)
        /\ Tx!Ordered(queue, sentSize) /\ (left = 0 => Fresh(b))
    BY <1>1, <1>2 DEF Stored, Tx!Buffer
  <1>4. b.queue = queue /\ b.zero = zeroList /\ b.sent = sent /\ b.toRetx = 0 /\ b \in Bufs
    BY <1>2, <1>3 DEF Tx!Buffer, Shaped
  <1>5. /\ acked' = acked \cup Tx!Numbers(sent[i].packet) /\ sent' = RemoveAt(sent, i)
        /\ queue' = queue /\ zeroList' = zeroList /\ zeros' = zeros /\ acks' = acks /\ left' = left
    BY SameOperators DEF Tx!Acknowledged
  <1>6. queue \in Seq(QueueItem) /\ zeroList \in Seq(ZeroItem) /\ sent \in Seq(SentItem)
    BY <1>4 DEF Bufs
  <1>7. HasPackets(QueueItem) /\ HasPackets(ZeroItem) /\ HasPackets(SentItem)
    BY ItemsHold
  <1>8. PICK l : l = RemoveAt(sent, i)
    OBVIOUS
  <1>9. /\ l \in Seq(SentItem) /\ Gains(sent, l, sent[i].packet)
        /\ \A j \in 1..Len(l) : \E k \in 1..Len(sent) : l[j] = sent[k]
    <2>1. HasPackets(SentItem) /\ sent \in Seq(SentItem) /\ i \in 1..Len(sent)
      BY <1>6, <1>7
    <2>2. /\ RemoveAt(sent, i) \in Seq(SentItem) /\ Gains(sent, RemoveAt(sent, i), sent[i].packet)
          /\ \A j \in 1..Len(RemoveAt(sent, i)) : \E k \in 1..Len(sent) : RemoveAt(sent, i)[j] = sent[k]
      BY <2>1, RemovedAt, ZenonT(60)
    <2>3. QED BY <1>8, <2>2
  <1>10. t \in Bufs /\ t.queue = queue /\ t.zero = zeroList /\ t.sent = l
    BY <1>2, <1>4, <1>8, <1>9 DEF Bufs
  <1>11. Shaped(t)
    <2>1. Tx!HeadersOK(queue, zeroList, sent)
      BY <1>3, <1>4 DEF Shaped
    <2>2. Tx!HeadersOK(queue, zeroList, l)
      BY <1>9, <2>1 DEF Tx!HeadersOK
    <2>3. QED BY <1>10, <2>2 DEF Shaped
  <1>12. PICK u, v, x : u = Tx!Units(queue) /\ v = Tx!Units(l) /\ x = sent[i].packet
    OBVIOUS
  <1>13. u \in Packet /\ v \in Packet /\ x \in Packet
    <2>1. sent[i] \in SentItem
      BY <1>6, ElementOfSeq
    <2>2. x \in Packet
      BY <1>12, <2>1 DEF SentItem
    <2>3. u \in Packet
      BY <1>6, <1>7, <1>12, UnitsIs
    <2>4. v \in Packet
      BY <1>7, <1>9, <1>12, UnitsIs
    <2>5. QED BY <2>2, <2>3, <2>4
  <1>14. u \o v \in Packet
    BY <1>13, ConcatProperties DEF Packet
  <1>15. /\ Count(u) \in Nat /\ Count(v) \in Nat /\ Count(x) \in Nat
         /\ Count(u \o v) = Count(u) + Count(v)
         /\ Tx!Numbers(u \o v) = Tx!Numbers(u) \cup Tx!Numbers(v)
    BY <1>13, BytesConcat
  <1>16. PICK H, X, c, d : /\ H = Tx!Numbers(u \o v) /\ X = Tx!Numbers(x)
                           /\ c = Count(u \o v) /\ d = Count(x)
    OBVIOUS
  <1>17. /\ IsFiniteSet(H) /\ Cardinality(H) <= c
         /\ IsFiniteSet(X) /\ Cardinality(X) <= d
    BY <1>13, <1>14, <1>16, NumbersBound
  <1>18. Holding(t) = H /\ Amount(t) = c
    BY <1>10, <1>12, <1>15, <1>16 DEF Holding, Amount
  <1>19. Holding(b) = H \cup X /\ Amount(b) = c + d
    <2>1. /\ Count(Tx!Units(sent)) = Count(v) + Count(x)
          /\ Tx!Numbers(Tx!Units(sent)) = Tx!Numbers(v) \cup Tx!Numbers(x)
      BY <1>9, <1>12 DEF Gains
    <2>2. Holding(b) = Tx!Numbers(u) \cup (Tx!Numbers(v) \cup Tx!Numbers(x))
      BY <1>4, <1>12, <2>1 DEF Holding
    <2>3. Amount(b) = Count(u) + (Count(v) + Count(x))
      BY <1>4, <1>12, <2>1 DEF Amount
    <2>4. Count(u) + (Count(v) + Count(x)) = c + d
      BY <1>15, <1>16
    <2>5. QED BY <1>15, <1>16, <2>2, <2>3, <2>4
  <1>20. sentSize \in Nat
    BY SendAssumption
  <1>21. c \in Nat /\ d \in Nat
    BY <1>15, <1>16
  <1>22. OnePlace(H \cup X, c + d, acked, sentSize)
    BY <1>3, <1>19
  <1>23. OnePlace(H, c, acked \cup X, sentSize)
    BY <1>17, <1>20, <1>21, <1>22, OncePlaced
  <1>24. acked' = acked \cup X
    BY <1>5, <1>12, <1>16
  <1>25. left' = 0 => Fresh(t)
    <2>1. SUFFICES ASSUME left' = 0
                   PROVE  Fresh(t)
      OBVIOUS
    <2>2. Fresh(b)
      BY <1>3, <1>5, <2>1
    <2>3. Filling(t) = Filling(b)
      BY <1>4, <1>10 DEF Filling
    <2>4. \A j \in 1..Len(l) : WellFormed(l[j].packet)
      BY <1>4, <1>9, <2>2 DEF Fresh
    <2>5. QED BY <1>4, <1>10, <2>2, <2>3, <2>4 DEF Fresh
  <1>26. Stored(t, acked', sentSize', left')
    BY <1>3, <1>10, <1>11, <1>18, <1>23, <1>24, <1>25 DEF Stored
  <1>27. BufferInv'
    BY <1>5, <1>8, <1>10, <1>26, StoredNext
  <1>28. HistoryOK'
    <2>1. X \subseteq 0..(sentSize - 1)
      BY <1>22 DEF OnePlace
    <2>2. 0..(sentSize - 1) \subseteq 0..(StreamBytes - 1)
      BY SendAssumption
    <2>3. X \subseteq 0..(StreamBytes - 1)
      BY <2>1, <2>2
    <2>4. QED BY <1>5, <1>24, <2>3 DEF HistoryOK, Byte
  <1>29. QED BY <1>27, <1>28

\* Free room in a buffer that is not above its size is room below it.
LEMMA RoomIs ==
    ASSUME NEW z \in Nat, NEW a \in Nat, a + z <= TxBufferSize
    PROVE  (TxBufferSize - z - a) % Modulus = TxBufferSize - z - a
  <1>1. PICK B, M : B = TxBufferSize /\ M = Modulus /\ B \in 0..(M - 1) /\ M \in Nat /\ M > 0
    BY Constants
  <1>2. B - z - a \in Int /\ 0 <= B - z - a /\ B - z - a < M
    BY <1>1
  <1>3. QED BY <1>1, <1>2, NoWrap

\* A frame of stream 0 is added.
LEMMA AddStream0Keeps ==
    ASSUME BufferInv, HistoryOK, sentSize' = sentSize, Tx!AddStream0
    PROVE  BufferInv' /\ HistoryOK'
  <1>1. Stored(Tx!Buffer, acked, sentSize, left)
    BY StoredNow
  <1>2. PICK x, z : x = [packet |-> <<Tx!ZeroFrame>>] /\ z = Append(zeroList, x)
    OBVIOUS
  <1>3. PICK b, t : b = Tx!Buffer /\ t = [b EXCEPT !.zero = z]
    OBVIOUS
  <1>4. /\ zeros < MaxZero /\ Tx!Available >= 1 /\ zeroList' = z /\ zeros' = zeros + 1
        /\ queue' = queue /\ sent' = sent /\ acked' = acked /\ acks' = acks /\ left' = left
    BY <1>2 DEF Tx!AddStream0
  <1>5. /\ Shaped(b) /\ OnePlace(Holding(b), Amount(b), acked, sentSize)
        /\ Tx!Ordered(queue, sentSize) /\ (left = 0 => Fresh(b))
    BY <1>1, <1>3 DEF Stored, Tx!Buffer
  <1>6. b.queue = queue /\ b.zero = zeroList /\ b.sent = sent /\ b.toRetx = 0 /\ b \in Bufs
    BY <1>3, <1>5 DEF Tx!Buffer, Shaped
  <1>7. queue \in Seq(QueueItem) /\ zeroList \in Seq(ZeroItem) /\ sent \in Seq(SentItem)
    BY <1>6 DEF Bufs
  <1>8. HasPackets(QueueItem) /\ HasPackets(ZeroItem)
    BY ItemsHold
  <1>9. x.packet \in Packet /\ Len(x.packet) = 1 /\ x.packet[1].kind = "zero" /\ x \in ZeroItem
    <2>1. Tx!ZeroFrame \in Tx!AnyUnit /\ Tx!ZeroFrame.kind = "zero"
      BY DEF Tx!ZeroFrame, Tx!Unit, Tx!AnyUnit
    <2>2. x.packet = <<Tx!ZeroFrame>>
      BY <1>2
    <2>3. x.packet \in Packet /\ Len(x.packet) = 1 /\ x.packet[1] = Tx!ZeroFrame
      BY <2>1, <2>2 DEF Packet
    <2>4. QED BY <1>2, <2>1, <2>2, <2>3 DEF ZeroItem
  <1>10. PICK n : n = Len(zeroList) /\ n \in Nat
    BY <1>7, LenProperties
  <1>11. /\ z \in Seq(ZeroItem) /\ Len(z) = n + 1 /\ z[n + 1] = x
         /\ \A i \in 1..n : z[i] = zeroList[i]
    BY <1>2, <1>7, <1>9, <1>10, AppendProperties
  <1>12. Tx!Size(z) = Tx!Size(zeroList) + 1
    <2>1. z = zeroList \o <<x>> /\ <<x>> \in Seq(ZeroItem)
      BY <1>2, <1>7, <1>9, AppendIsConcat
    <2>2. Tx!Units(zeroList \o <<x>>) = Tx!Units(zeroList) \o Tx!Units(<<x>>)
      BY <1>7, <1>8, <2>1, UnitsConcat
    <2>3. Tx!Units(<<x>>) = x.packet
      BY <1>8, <1>9, UnitsSmall
    <2>4. Tx!Units(zeroList) \in Packet
      BY <1>7, <1>8, UnitsIs
    <2>5. Len(Tx!Units(zeroList) \o x.packet) = Len(Tx!Units(zeroList)) + 1
      <3>1. PICK u, v : u = Tx!Units(zeroList) /\ v = x.packet
        OBVIOUS
      <3>2. u \in Seq(Tx!AnyUnit) /\ v \in Seq(Tx!AnyUnit) /\ Len(v) = 1
        BY <1>9, <2>4, <3>1 DEF Packet
      <3>3. Len(u \o v) = Len(u) + Len(v)
        BY <3>2, ConcatProperties
      <3>4. QED BY <3>1, <3>2, <3>3
    <2>6. QED BY <2>1, <2>2, <2>3, <2>5 DEF Tx!Size
  <1>13. t \in Bufs /\ t.queue = queue /\ t.zero = z /\ t.sent = sent
    BY <1>3, <1>6, <1>11 DEF Bufs
  <1>14. Shaped(t)
    <2>1. Tx!HeadersOK(queue, zeroList, sent)
      BY <1>5, <1>6 DEF Shaped
    <2>2. Tx!Bare(x.packet)
      BY <1>9 DEF Tx!Bare
    <2>3. \A i \in 1..(n + 1) : i = n + 1 \/ i \in 1..n
      BY <1>10
    <2>4. \A i \in 1..n : Tx!Bare(zeroList[i].packet)
      BY <1>10, <2>1 DEF Tx!HeadersOK
    <2>5. \A i \in 1..Len(z) : Tx!Bare(z[i].packet)
      BY <1>11, <2>2, <2>3, <2>4
    <2>6. Tx!HeadersOK(queue, z, sent)
      BY <2>1, <2>5 DEF Tx!HeadersOK
    <2>7. QED BY <1>13, <2>6 DEF Shaped
  <1>15. Holding(t) = Holding(b) /\ Amount(t) = Amount(b)
    BY <1>6, <1>13 DEF Holding, Amount
  <1>16. left' = 0 => Fresh(t)
    <2>1. SUFFICES ASSUME left' = 0
                   PROVE  Fresh(t)
      OBVIOUS
    <2>2. Fresh(b)
      BY <1>4, <1>5, <2>1
    <2>3. PICK a, y : a = Tx!Size(queue) /\ y = Tx!Size(zeroList)
      OBVIOUS
    <2>4. a \in Nat /\ y \in Nat
      BY <1>6, <2>3, BufType
    <2>5. a + y <= TxBufferSize
      BY <1>6, <2>2, <2>3 DEF Fresh, Filling
    <2>6. (TxBufferSize - y - a) % Modulus = TxBufferSize - y - a
      BY <2>4, <2>5, RoomIs
    <2>7. TxBufferSize - y - a >= 1
      BY <1>4, <2>3, <2>6 DEF Tx!Available, Tx!AppSize
    <2>8. Filling(t) = a + (y + 1)
      BY <1>12, <1>13, <2>3 DEF Filling
    <2>9. a + (y + 1) <= TxBufferSize
      BY <2>4, <2>7, Constants
    <2>10. QED BY <1>6, <1>13, <2>2, <2>8, <2>9 DEF Fresh
  <1>17. Stored(t, acked', sentSize', left')
    BY <1>4, <1>5, <1>13, <1>14, <1>15, <1>16 DEF Stored
  <1>18. BufferInv'
    BY <1>4, <1>13, <1>17, StoredNext
  <1>19. HistoryOK'
    <2>1. zeros' \in 0..MaxZero
      BY <1>4, SendPathAssumption DEF HistoryOK
    <2>2. QED BY <1>4, <2>1 DEF HistoryOK, Byte
  <1>20. QED BY <1>18, <1>19

\* Whatever the socket does with its buffer.
LEMMA TransmitKeeps ==
    ASSUME BufferInv, HistoryOK, TypeOK, StreamInv, Transmit
    PROVE  TypeOK' /\ StreamInv' /\ BufferInv' /\ HistoryOK' /\ (room = Tx!Available)'
  <1>1. /\ Tx!TxNext /\ room' = Tx!Available'
        /\ written' = written /\ appList' = appList /\ sentList' = sentList /\ bufSent' = bufSent
        /\ sentSize' = sentSize /\ frames' = frames /\ pending' = pending /\ crashed' = crashed
        /\ large' = large
    BY DEF Transmit
  <1>2. sentSize \in 0..StreamBytes
    BY DEF TypeOK
  <1>3. BufferInv' /\ HistoryOK'
    <2>1. CASE Tx!AddStream0
      BY <1>1, <2>1, AddStream0Keeps
    <2>2. CASE \E i \in 1..Len(sent) : Tx!Acknowledged(i)
      BY <1>1, <1>2, <2>2, AcknowledgedKeeps
    <2>3. ASSUME NEW ack \in BOOLEAN, NEW first, Tx!SendPendingData(ack, first)
          PROVE  BufferInv' /\ HistoryOK'
      BY <1>1, <2>3, SendPendingKeeps
    <2>4. ASSUME NEW ack \in BOOLEAN, NEW first, NEW s \in 2..SegSize, Tx!ReTxTimeout(<<s>>, ack, first)
          PROVE  BufferInv' /\ HistoryOK'
      <3>1. s \in Nat
        BY SendAssumption
      <3>2. <<s>> \in Seq(Nat)
        BY <3>1
      <3>3. QED BY <1>1, <2>4, <3>2, TimeoutKeeps
    <2>5. ASSUME NEW ack \in BOOLEAN, NEW first, NEW s \in 2..SegSize, NEW t \in 2..s,
                 Tx!ReTxTimeout(<<s, t>>, ack, first)
          PROVE  BufferInv' /\ HistoryOK'
      <3>1. s \in Nat /\ t \in Nat
        BY SendAssumption
      <3>2. <<s, t>> \in Seq(Nat)
        BY <3>1
      <3>3. QED BY <1>1, <2>5, <3>2, TimeoutKeeps
    <2>6. ASSUME NEW ack \in BOOLEAN, NEW first, NEW lost, Tx!DoRetransmit(lost, ack, first)
          PROVE  BufferInv' /\ HistoryOK'
      BY <1>1, <2>6, DoRetransmitKeeps
    <2>7. CASE \E ack \in IF acks < MaxAcks THEN BOOLEAN ELSE {FALSE},
                  first \in IF left = 0 THEN {FALSE} ELSE BOOLEAN :
                   \/ Tx!SendPendingData(ack, first)
                   \/ \E s \in 2..SegSize : Tx!ReTxTimeout(<<s>>, ack, first)
                   \/ \E s \in 2..SegSize : \E t \in 2..s : Tx!ReTxTimeout(<<s, t>>, ack, first)
                   \/ \E lost \in SUBSET (1..Len(sent)) \ {{}} : Tx!DoRetransmit(lost, ack, first)
      <3>1. PICK ack \in BOOLEAN, first \in BOOLEAN :
                   \/ Tx!SendPendingData(ack, first)
                   \/ \E s \in 2..SegSize : Tx!ReTxTimeout(<<s>>, ack, first)
                   \/ \E s \in 2..SegSize : \E t \in 2..s : Tx!ReTxTimeout(<<s, t>>, ack, first)
                   \/ \E lost \in SUBSET (1..Len(sent)) \ {{}} : Tx!DoRetransmit(lost, ack, first)
        BY <2>7
      <3>2. QED BY <2>3, <2>4, <2>5, <2>6, <3>1
    <2>8. QED BY <1>1, <2>1, <2>2, <2>7 DEF Tx!TxNext
  <1>4. room' \in 0..(Modulus - 1)
    <2>1. queue' \in Seq(QueueItem) /\ zeroList' \in Seq(ZeroItem)
      BY <1>3 DEF BufferInv, Tx!ListsOK, QueueItem, ZeroItem, SentItem, Packet
    <2>2. HasPackets(QueueItem) /\ HasPackets(ZeroItem)
      BY ItemsHold
    <2>3. PICK a, z : a = Tx!Size(queue') /\ z = Tx!Size(zeroList')
      OBVIOUS
    <2>4. a \in Nat /\ z \in Nat
      BY <2>1, <2>2, <2>3, CountType
    <2>5. room' = (TxBufferSize - z - a) % Modulus
      BY <1>1, <2>3 DEF Tx!Available, Tx!AppSize
    <2>6. TxBufferSize - z - a \in Int /\ Modulus \in Nat /\ Modulus > 0
      BY <2>4, Constants
    <2>7. QED BY <2>5, <2>6, NoWrap
  <1>5. TypeOK'
    BY <1>1, <1>4 DEF TypeOK, Byte
  <1>6. StreamInv'
    BY <1>1 DEF StreamInv, ByteStream
  <1>7. QED BY <1>1, <1>3, <1>5, <1>6

-----------------------------------------------------------------------------
\* What a frame of the stream holds.
FrameFacts(p, m, n) ==
    /\ p \in Packet /\ Len(p) = n + 1 /\ Tx!Frame(p) /\ Tx!Opens(p)
    /\ p[1].n = m /\ Tx!End(p) = m + n
    /\ Count(p) = n /\ Tx!Numbers(p) = m..(m + n - 1)

\* The item that a frame of the stream becomes.
LEMMA NewItemIs ==
    ASSUME NEW f \in StreamFrames, f.bytes # <<>>,
           \A j \in 1..Len(f.bytes) : f.bytes[j] = f.offset + j - 1
    PROVE  /\ f.offset \in Nat /\ Len(f.bytes) \in Nat /\ Len(f.bytes) > 0
           /\ FrameFacts(NewItem(f).packet, f.offset, Len(f.bytes))
           /\ NewItem(f) \in QueueItem
           /\ NewItem(f).retx = FALSE /\ NewItem(f).key = f.offset
  <1>1. PICK m, n, b : m = f.offset /\ b = f.bytes /\ n = Len(b)
    OBVIOUS
  <1>2. m \in Nat /\ b \in Seq(Byte) /\ n \in Nat /\ n > 0
    <2>1. f.offset \in Byte /\ f.bytes \in Seq(Byte)
      BY DEF StreamFrames
    <2>2. m \in Nat
      BY <1>1, <2>1, Constants DEF Byte
    <2>3. n \in Nat /\ n > 0
      BY <1>1, <2>1, EmptySeq
    <2>4. QED BY <1>1, <2>1, <2>2, <2>3
  <1>3. PICK h, d, p : /\ h = Tx!Header(m, n) /\ d = [i \in 1..n |-> Tx!Unit("byte", b[i], 0)]
                       /\ p = <<h>> \o d
    OBVIOUS
  <1>4. p = Tx!StreamFrame(f)
    BY <1>1, <1>3 DEF Tx!StreamFrame
  <1>5. h \in Tx!AnyUnit /\ h.kind = "header" /\ h.n = m /\ h.len = n
    BY <1>2, <1>3 DEF Tx!Header, Tx!Unit, Tx!AnyUnit
  <1>6. \A i \in 1..n : d[i] = Tx!Unit("byte", m + i - 1, 0) /\ d[i] \in Tx!AnyUnit
    <2>1. \A i \in 1..n : b[i] = m + i - 1 /\ m + i - 1 \in Nat
      BY <1>1, <1>2
    <2>2. QED BY <1>3, <2>1 DEF Tx!Unit, Tx!AnyUnit
  <1>7. d \in Seq(Tx!AnyUnit) /\ Len(d) = n
    <2>1. d \in [1..n -> Tx!AnyUnit]
      BY <1>3, <1>6
    <2>2. QED BY <1>2, <2>1, SeqDef, LenProperties
  <1>8. <<h>> \in Seq(Tx!AnyUnit) /\ Len(<<h>>) = 1 /\ <<h>>[1] = h
    BY <1>5
  <1>9. /\ p \in Seq(Tx!AnyUnit) /\ Len(p) = 1 + n
        /\ \A i \in 1..(1 + n) : p[i] = IF i <= 1 THEN <<h>>[i] ELSE d[i - 1]
    <2>1. PICK a : a = <<h>>
      OBVIOUS
    <2>2. a \in Seq(Tx!AnyUnit) /\ Len(a) = 1
      BY <1>8, <2>1
    <2>3. /\ a \o d \in Seq(Tx!AnyUnit) /\ Len(a \o d) = Len(a) + Len(d)
          /\ \A i \in 1..(Len(a) + Len(d)) : (a \o d)[i] = IF i <= Len(a) THEN a[i] ELSE d[i - Len(a)]
      BY <1>7, <2>2, ConcatProperties
    <2>4. QED BY <1>3, <1>7, <2>1, <2>2, <2>3
  <1>10. p \in Packet /\ Len(p) = n + 1
    BY <1>2, <1>9 DEF Packet
  <1>11. p[1] = h
    BY <1>2, <1>8, <1>9
  <1>12. ASSUME NEW j \in 2..(n + 1)
         PROVE  p[j] = Tx!Unit("byte", m + j - 2, 0)
    <2>1. j - 1 \in 1..n /\ j \in 1..(1 + n) /\ ~(j <= 1) /\ m + (j - 1) - 1 = m + j - 2
      BY <1>2
    <2>2. QED BY <1>6, <1>9, <2>1
  <1>13. Tx!Frame(p)
    <2>1. p[1] = Tx!Header(m, n) /\ p[1].n = m
      BY <1>3, <1>5, <1>11
    <2>2. Len(p) > 1 /\ Len(p) - 1 = n
      BY <1>2, <1>10
    <2>3. QED BY <1>10, <1>12, <2>1, <2>2 DEF Tx!Frame
  <1>14. Tx!Opens(p)
    BY <1>2, <1>5, <1>10, <1>11 DEF Tx!Opens
  <1>15. Tx!End(p) = m + n
    BY <1>2, <1>5, <1>10, <1>11 DEF Tx!End
  <1>16. \A j \in 2..(n + 1) : p[j].kind = "byte" /\ p[j].n = m + j - 2
    <2>1. \A k : Tx!Unit("byte", k, 0).kind = "byte" /\ Tx!Unit("byte", k, 0).n = k
      BY DEF Tx!Unit
    <2>2. QED BY <1>12, <2>1, SMTT(30)
  <1>17. Tx!Places(p) = 2..(n + 1)
    BY <1>2, <1>5, <1>10, <1>11, <1>16 DEF Tx!Places
  <1>18. Count(p) = n
    <2>1. Cardinality(2..(n + 1)) = IF 2 > n + 1 THEN 0 ELSE (n + 1) - 2 + 1
      BY <1>2, FS_Interval
    <2>2. QED BY <1>2, <1>17, <2>1 DEF Count
  <1>19. Tx!Numbers(p) = m..(m + n - 1)
    <2>1. Tx!Numbers(p) = {p[j].n : j \in 2..(n + 1)}
      BY <1>17 DEF Tx!Numbers
    <2>2. \A x \in m..(m + n - 1) : x - m + 2 \in 2..(n + 1) /\ x = m + (x - m + 2) - 2
      BY <1>2
    <2>3. \A x \in m..(m + n - 1) : x = p[x - m + 2].n
      BY <1>16, <2>2
    <2>4. \A j \in 2..(n + 1) : m + j - 2 \in m..(m + n - 1)
      BY <1>2
    <2>5. \A j \in 2..(n + 1) : p[j].n \in m..(m + n - 1)
      BY <1>16, <2>4
    <2>6. m..(m + n - 1) \subseteq Tx!Numbers(p)
      BY <2>1, <2>2, <2>3
    <2>7. Tx!Numbers(p) \subseteq m..(m + n - 1)
      BY <2>1, <2>5
    <2>8. QED BY <2>6, <2>7
  <1>20. FrameFacts(p, m, n)
    BY <1>5, <1>10, <1>11, <1>13, <1>14, <1>15, <1>18, <1>19 DEF FrameFacts
  <1>21. NewItem(f) = [retx |-> FALSE, key |-> m, packet |-> p]
    BY <1>1, <1>4 DEF NewItem
  <1>22. NewItem(f) \in QueueItem /\ NewItem(f).retx = FALSE /\ NewItem(f).key = m /\ NewItem(f).packet = p
    BY <1>2, <1>10, <1>21 DEF QueueItem
  <1>23. QED BY <1>1, <1>2, <1>20, <1>22

\* New data ends behind its key.
LEMMA NewEnds ==
    ASSUME NEW x \in QueueItem, NEW e, New(x, e)
    PROVE  x.key \in Nat /\ x.packet[1].n \in Nat /\ e \in Nat /\ x.key <= x.packet[1].n /\ x.packet[1].n < e
  <1>1. x.key \in Nat /\ x.packet \in Packet
    BY DEF QueueItem
  <1>2. PICK p, n, m : p = x.packet /\ n = Len(p) /\ m = p[1].n
    OBVIOUS
  <1>3. n \in Nat /\ n > 1 /\ x.key <= m /\ m + n - 1 = e
    BY <1>1, <1>2, LenProperties DEF New, Tx!Frame, Tx!End, Packet
  <1>4. p[1] \in Tx!AnyUnit
    BY <1>1, <1>2, <1>3, ElementOfSeq DEF Packet
  <1>5. m \in Nat
    BY <1>2, <1>4 DEF Tx!AnyUnit
  <1>6. e \in Nat /\ m < e
    BY <1>3, <1>5
  <1>7. QED BY <1>1, <1>2, <1>3, <1>5, <1>6

\* The stream's next frame goes behind all that is in the queue.
LEMMA InsertNew ==
    ASSUME NEW q \in Seq(QueueItem), NEW e \in Nat, Tx!Ordered(q, e), NEW n \in Nat,
           NEW y \in QueueItem, ~y.retx, y.key = e, FrameFacts(y.packet, e, n)
    PROVE  /\ Tx!Ordered(Tx!Insert(q, y, FALSE), e + n)
           /\ Len(Tx!Insert(q, y, FALSE)) = Len(q) + 1
           /\ \A i \in 1..Len(q) : Tx!Insert(q, y, FALSE)[i] = q[i]
           /\ Tx!Insert(q, y, FALSE)[Len(q) + 1] = y
  <1>1. PICK m, r : m = Len(q) /\ m \in Nat /\ r = Tx!Insert(q, y, FALSE)
    BY LenProperties
  <1>2. PICK p \in 1..(m + 1) : r = InsertAt(q, p, y) /\ (p <= m => ~Ahead(q[p], y, FALSE))
    BY <1>1, InsertIs
  <1>3. Len(r) = m + 1 /\ \A i \in 1..(m + 1) : r[i] = IF i < p THEN q[i] ELSE IF i = p THEN y ELSE q[i - 1]
    <2>1. HasPackets(QueueItem) /\ p \in 1..(Len(q) + 1)
      BY <1>1, ItemsHold
    <2>2. /\ Len(InsertAt(q, p, y)) = Len(q) + 1
          /\ \A i \in 1..(Len(q) + 1) :
                 InsertAt(q, p, y)[i] = IF i < p THEN q[i] ELSE IF i = p THEN y ELSE q[i - 1]
      BY <2>1, InsertedAt
    <2>3. QED BY <1>1, <1>2, <2>2
  <1>4. /\ \A i, j \in 1..m : i < j /\ q[j].retx => q[i].retx
        /\ \A i \in 1..m : ~q[i].retx => New(q[i], Until(q, i, e))
        /\ \A i, j \in 1..m : i < j /\ ~q[i].retx => Follows(q[i], q[j])
    BY <1>1, OrderedIs
  <1>5. \A i \in 1..m : q[i] \in QueueItem
    BY <1>1, ElementOfSeq
  <1>6. ASSUME NEW i \in 1..m, ~q[i].retx
        PROVE  q[i].key \in Nat /\ q[i].key < e /\ Tx!End(q[i].packet) <= e
    <2>1. New(q[i], Until(q, i, e))
      BY <1>4, <1>6
    <2>2. PICK k, a, u : k = q[i].key /\ a = q[i].packet[1].n /\ u = Until(q, i, e)
      OBVIOUS
    <2>3. k \in Nat /\ a \in Nat /\ u \in Nat /\ k <= a /\ a < u
      BY <1>5, <2>1, <2>2, NewEnds
    <2>4. Tx!End(q[i].packet) = u
      BY <2>1, <2>2 DEF New
    <2>5. u <= e
      <3>1. CASE i = m
        BY <1>1, <2>2, <2>3, <3>1 DEF Until
      <3>2. CASE i # m
        <4>1. m \in 1..m /\ i < m
          BY <1>1, <3>2
        <4>2. ~q[m].retx /\ Follows(q[i], q[m])
          BY <1>4, <1>6, <4>1
        <4>3. New(q[m], Until(q, m, e)) /\ Until(q, m, e) = e
          BY <1>1, <1>4, <4>1, <4>2 DEF Until
        <4>4. q[m].packet[1].n \in Nat /\ q[m].packet[1].n < e
          BY <1>5, <4>1, <4>3, NewEnds
        <4>5. u <= q[m].packet[1].n
          BY <2>4, <4>2 DEF Follows
        <4>6. QED BY <2>3, <4>4, <4>5
      <3>3. QED BY <3>1, <3>2
    <2>6. QED BY <2>2, <2>3, <2>4, <2>5
  <1>7. p = m + 1
    <2>1. SUFFICES ASSUME p <= m
                   PROVE  FALSE
      BY <1>1
    <2>2. p \in 1..m
      BY <1>1, <2>1
    <2>3. ~Ahead(q[p], y, FALSE)
      BY <1>2, <2>1
    <2>4. q[p].retx \in BOOLEAN
      BY <1>5, <2>2 DEF QueueItem
    <2>5. ~q[p].retx
      BY <2>3, <2>4 DEF Ahead, Tx!Before
    <2>6. q[p].key \in Nat /\ q[p].key < e
      BY <1>6, <2>2, <2>5
    <2>7. ~(q[p].key < e)
      BY <2>3, <2>4, <2>5 DEF Ahead, Tx!Before
    <2>8. QED BY <2>6, <2>7
  <1>8. r[m + 1] = y /\ \A i \in 1..m : r[i] = q[i]
    <2>1. m + 1 \in 1..(m + 1) /\ ~(m + 1 < p) /\ m + 1 = p
      BY <1>1, <1>7
    <2>2. \A i \in 1..m : i \in 1..(m + 1) /\ i < p
      BY <1>1, <1>7
    <2>3. r[m + 1] = y
      BY <1>3, <2>1
    <2>4. QED BY <1>3, <2>2, <2>3
  <1>9. \A i \in 1..(m + 1) : i = m + 1 \/ i \in 1..m
    BY <1>1
  <1>10. /\ Tx!Frame(y.packet) /\ y.packet[1].n = e /\ Tx!End(y.packet) = e + n
    BY DEF FrameFacts
  <1>11. New(y, e + n)
    BY <1>10 DEF New
  <1>12. \A i, j \in 1..(m + 1) : i < j /\ r[j].retx => r[i].retx
    <2>1. SUFFICES ASSUME NEW i \in 1..(m + 1), NEW j \in 1..(m + 1), i < j, r[j].retx
                   PROVE  r[i].retx
      OBVIOUS
    <2>2. j \in 1..m
      BY <1>8, <1>9, <2>1
    <2>3. i \in 1..m
      BY <1>1, <2>1, <2>2
    <2>4. QED BY <1>4, <1>8, <2>1, <2>2, <2>3
  <1>13. \A i, j \in 1..(m + 1) : i < j /\ ~r[i].retx => Follows(r[i], r[j])
    <2>1. SUFFICES ASSUME NEW i \in 1..(m + 1), NEW j \in 1..(m + 1), i < j, ~r[i].retx
                   PROVE  Follows(r[i], r[j])
      OBVIOUS
    <2>2. i \in 1..m
      BY <1>1, <2>1
    <2>3. r[i] = q[i] /\ ~q[i].retx
      BY <1>8, <2>1, <2>2
    <2>4. CASE j \in 1..m
      BY <1>4, <1>8, <2>1, <2>2, <2>3, <2>4
    <2>5. CASE j = m + 1
      <3>1. r[j] = y /\ q[i].key < e /\ Tx!End(q[i].packet) <= e
        BY <1>6, <1>8, <2>2, <2>3, <2>5
      <3>2. QED BY <1>10, <2>3, <3>1 DEF Follows
    <2>6. QED BY <1>9, <2>4, <2>5
  <1>14. \A i \in 1..(m + 1) : ~r[i].retx => New(r[i], Until(r, i, e + n))
    <2>1. SUFFICES ASSUME NEW i \in 1..(m + 1), ~r[i].retx
                   PROVE  New(r[i], Until(r, i, e + n))
      OBVIOUS
    <2>2. CASE i = m + 1
      <3>1. Until(r, i, e + n) = e + n
        BY <1>3, <2>2 DEF Until
      <3>2. QED BY <1>8, <1>11, <2>2, <3>1
    <2>3. CASE i \in 1..m
      <3>1. r[i] = q[i] /\ New(q[i], Until(q, i, e))
        BY <1>4, <1>8, <2>1, <2>3
      <3>2. i # m + 1
        BY <1>1, <2>3
      <3>3. Until(r, i, e + n) = r[i + 1].packet[1].n
        BY <1>3, <3>2 DEF Until
      <3>4. r[i + 1].packet[1].n = Until(q, i, e)
        <4>1. CASE i = m
          BY <1>1, <1>8, <1>10, <4>1 DEF Until
        <4>2. CASE i # m
          <5>1. i + 1 \in 1..m
            BY <1>1, <2>3, <4>2
          <5>2. QED BY <1>1, <1>8, <4>2, <5>1 DEF Until
        <4>3. QED BY <4>1, <4>2
      <3>5. QED BY <3>1, <3>3, <3>4
    <2>4. QED BY <1>9, <2>2, <2>3
  <1>15. Tx!Ordered(r, e + n)
    BY <1>3, <1>12, <1>13, <1>14, OrderedIs
  <1>16. QED BY <1>1, <1>3, <1>8, <1>15

\* A list that continues another one begins where that one ends.
LEMMA RunContinues ==
    ASSUME NEW f \in Seq(StreamFrames), NEW c \in Seq(StreamFrames), NEW m, NEW n,
           Run(f, m), Run(c, n),
           Len(f) <= Len(c), \A i \in 1..Len(f) : c[i] = f[i]
    PROVE  m = NextOffset(c, n, Len(f))
  <1>1. PICK k, h : k = Len(f) /\ h = Len(c) /\ k \in Nat /\ h \in Nat /\ k <= h
    BY LenProperties
  <1>2. CASE k = 0
    <2>1. m = 0
      BY <1>1, <1>2 DEF Run, NextOffset
    <2>2. NextOffset(c, n, 0) = 0
      BY DEF Run
    <2>3. QED BY <1>1, <1>2, <2>1, <2>2
  <1>3. CASE k # 0
    <2>1. k \in 1..k /\ k \in 1..h
      BY <1>1, <1>3
    <2>2. f[k].offset + Len(f[k].bytes) = m
      BY <1>1, <2>1 DEF Run, NextOffset
    <2>3. c[k].offset + Len(c[k].bytes) = NextOffset(c, n, k)
      BY <1>1, <2>1 DEF Run
    <2>4. c[k] = f[k]
      BY <1>1, <2>1
    <2>5. QED BY <1>1, <2>2, <2>3, <2>4
  <1>4. QED BY <1>2, <1>3

\* The queue after i frames have been added to b: it has grown to the stream's end e.
Grown(q, b, size, i, e) ==
    /\ q \in Seq(QueueItem) /\ \A j \in 1..Len(q) : Tx!Opens(q[j].packet)
    /\ e \in Nat /\ size <= e /\ Tx!Ordered(q, e)
    /\ Tx!Numbers(Tx!Units(q)) = Tx!Numbers(Tx!Units(b)) \cup size..(e - 1)
    /\ Count(Tx!Units(q)) = Count(Tx!Units(b)) + (e - size)
    /\ Tx!Size(q) = Tx!Size(b) + (e - size) + i
    /\ (\A j \in 1..Len(b) : ~b[j].retx) => \A j \in 1..Len(q) : ~q[j].retx

\* One more frame.
LEMMA GrownNext ==
    ASSUME NEW b \in Seq(QueueItem), NEW size \in Nat, NEW i \in Nat, NEW e, NEW q,
           Grown(q, b, size, i, e),
           NEW f \in StreamFrames, f.bytes # <<>>, f.offset = e,
           \A j \in 1..Len(f.bytes) : f.bytes[j] = f.offset + j - 1
    PROVE  Grown(Tx!Insert(q, NewItem(f), FALSE), b, size, i + 1, e + Len(f.bytes))
  <1>1. PICK n, y, r : n = Len(f.bytes) /\ y = NewItem(f) /\ r = Tx!Insert(q, y, FALSE)
    OBVIOUS
  <1>2. /\ n \in Nat /\ n > 0 /\ FrameFacts(y.packet, e, n) /\ y \in QueueItem
        /\ y.retx = FALSE /\ y.key = e
    BY <1>1, NewItemIs
  <1>3. q \in Seq(QueueItem) /\ e \in Nat /\ size <= e /\ Tx!Ordered(q, e)
    BY DEF Grown
  <1>4. PICK m : m = Len(q) /\ m \in Nat
    BY <1>3, LenProperties
  <1>5. /\ Tx!Ordered(r, e + n) /\ Len(r) = m + 1 /\ r[m + 1] = y
        /\ \A j \in 1..m : r[j] = q[j]
    <2>1. /\ Tx!Ordered(Tx!Insert(q, y, FALSE), e + n)
          /\ Len(Tx!Insert(q, y, FALSE)) = Len(q) + 1
          /\ \A j \in 1..Len(q) : Tx!Insert(q, y, FALSE)[j] = q[j]
          /\ Tx!Insert(q, y, FALSE)[Len(q) + 1] = y
      <3>1. /\ q \in Seq(QueueItem) /\ e \in Nat /\ Tx!Ordered(q, e) /\ n \in Nat
            /\ y \in QueueItem /\ ~y.retx /\ y.key = e /\ FrameFacts(y.packet, e, n)
        BY <1>2, <1>3
      <3>2. QED BY <3>1, InsertNew, ZenonT(60)
    <2>2. QED BY <1>1, <1>4, <2>1
  <1>6. r \in Seq(QueueItem) /\ Gains(r, q, y.packet)
    BY <1>1, <1>2, <1>3, InsertGains
  <1>7. \A j \in 1..(m + 1) : j = m + 1 \/ j \in 1..m
    BY <1>4
  <1>8. Tx!Opens(y.packet) /\ Len(y.packet) = n + 1 /\ Count(y.packet) = n /\ Tx!Numbers(y.packet) = e..(e + n - 1)
    BY <1>2 DEF FrameFacts
  <1>9. \A j \in 1..Len(r) : Tx!Opens(r[j].packet)
    BY <1>4, <1>5, <1>7, <1>8 DEF Grown
  <1>10. (\A j \in 1..Len(b) : ~b[j].retx) => \A j \in 1..Len(r) : ~r[j].retx
    BY <1>2, <1>4, <1>5, <1>7 DEF Grown
  <1>11. Tx!Numbers(Tx!Units(r)) = Tx!Numbers(Tx!Units(b)) \cup size..((e + n) - 1)
    <2>1. size..(e - 1) \cup e..(e + n - 1) = size..((e + n) - 1)
      BY <1>2, <1>3
    <2>2. Tx!Numbers(Tx!Units(q)) = Tx!Numbers(Tx!Units(b)) \cup size..(e - 1)
      BY DEF Grown
    <2>3. Tx!Numbers(Tx!Units(r)) = Tx!Numbers(Tx!Units(q)) \cup e..(e + n - 1)
      BY <1>6, <1>8 DEF Gains
    <2>4. QED BY <2>1, <2>2, <2>3
  <1>12. HasPackets(QueueItem)
    BY ItemsHold
  <1>13. PICK c, s : c = Count(Tx!Units(b)) /\ s = Tx!Size(b) /\ c \in Nat /\ s \in Nat
    BY <1>12, CountType
  <1>14. Count(Tx!Units(r)) = c + ((e + n) - size)
    <2>1. Count(Tx!Units(r)) = (c + (e - size)) + n
      BY <1>6, <1>8, <1>13 DEF Gains, Grown
    <2>2. (c + (e - size)) + n = c + ((e + n) - size)
      BY <1>2, <1>3, <1>13
    <2>3. QED BY <2>1, <2>2
  <1>15. Tx!Size(r) = s + ((e + n) - size) + (i + 1)
    <2>1. Tx!Size(r) = (s + (e - size) + i) + (n + 1)
      BY <1>6, <1>8, <1>13 DEF Gains, Grown, Tx!Size
    <2>2. n \in Int /\ e \in Int /\ s \in Int /\ size \in Int /\ i \in Int
      BY <1>2, <1>3, <1>13
    <2>3. (s + (e - size) + i) + (n + 1) = s + ((e + n) - size) + (i + 1)
      BY <2>2
    <2>4. QED BY <2>1, <2>3
  <1>16. e + n \in Nat /\ size <= e + n
    BY <1>2, <1>3
  <1>17. Grown(r, b, size, i + 1, e + n)
    BY <1>5, <1>6, <1>9, <1>10, <1>11, <1>13, <1>14, <1>15, <1>16 DEF Grown
  <1>18. QED BY <1>1, <1>17

\* What is taken from a remainder is taken from the number.
LEMMA ModSub ==
    ASSUME NEW M \in Nat, M > 0, NEW a \in Int, NEW d \in Int, 0 <= d, d <= a % M
    PROVE  (a - d) % M = (a % M) - d
  OBVIOUS

\* The frames that the stream's event gives to the socket, from the k frames it gave
\* before to all frames c.
LEMMA HandedOver ==
    ASSUME NEW c \in Seq(StreamFrames), NEW n, Run(c, n), NEW k \in 0..Len(c),
           NEW fs, fs = SubSeq(c, k + 1, Len(c))
    PROVE  /\ Len(fs) = Len(c) - k
           /\ \A i \in 1..(Len(c) - k) :
                  /\ fs[i] \in StreamFrames /\ fs[i].bytes # <<>>
                  /\ \A j \in 1..Len(fs[i].bytes) : fs[i].bytes[j] = fs[i].offset + j - 1
                  /\ fs[i].offset = NextOffset(c, n, k + (i - 1))
                  /\ fs[i].offset + Len(fs[i].bytes) = NextOffset(c, n, k + i)
  <1>1. PICK h : h = Len(c) /\ h \in Nat /\ k \in 0..h
    BY LenProperties
  <1>2. /\ Len(fs) = h - k
        /\ \A i \in 1..(h - k) : fs[i] = c[k + i]
    <2>1. k + 1 \in 1..(h + 1) /\ h \in 0..h
      BY <1>1
    <2>2. \A i \in k + 1..h : c[i] \in StreamFrames
      BY <1>1, ElementOfSeq
    <2>3. /\ Len(SubSeq(c, k + 1, h)) = IF k + 1 <= h THEN h - (k + 1) + 1 ELSE 0
          /\ \A i \in 1..(h - (k + 1) + 1) : SubSeq(c, k + 1, h)[i] = c[(k + 1) + i - 1]
      BY <2>1, <2>2, SubSeqProperties
    <2>4. \A i \in 1..(h - k) : i \in 1..(h - (k + 1) + 1) /\ (k + 1) + i - 1 = k + i
      BY <1>1
    <2>5. (IF k + 1 <= h THEN h - (k + 1) + 1 ELSE 0) = h - k
      BY <1>1
    <2>6. QED BY <1>1, <2>3, <2>4, <2>5
  <1>3. ASSUME NEW i \in 1..(h - k)
        PROVE  /\ fs[i] \in StreamFrames /\ fs[i].bytes # <<>>
               /\ \A j \in 1..Len(fs[i].bytes) : fs[i].bytes[j] = fs[i].offset + j - 1
               /\ fs[i].offset = NextOffset(c, n, k + (i - 1))
               /\ fs[i].offset + Len(fs[i].bytes) = NextOffset(c, n, k + i)
    <2>1. k + i \in 1..h /\ k + (i - 1) # h /\ (k + (i - 1)) + 1 = k + i
      BY <1>1
    <2>2. fs[i] = c[k + i] /\ c[k + i] \in StreamFrames
      BY <1>1, <1>2, <2>1, ElementOfSeq
    <2>3. /\ c[k + i].bytes # <<>>
          /\ \A j \in 1..Len(c[k + i].bytes) : c[k + i].bytes[j] = c[k + i].offset + j - 1
          /\ c[k + i].offset + Len(c[k + i].bytes) = NextOffset(c, n, k + i)
      BY <1>1, <2>1 DEF Run
    <2>4. NextOffset(c, n, k + (i - 1)) = c[k + i].offset
      BY <1>1, <2>1 DEF NextOffset
    <2>5. QED BY <2>2, <2>3, <2>4
  <1>4. QED BY <1>1, <1>2, <1>3

\* The queue after all frames.
LEMMA AddGrows ==
    ASSUME queue \in Seq(QueueItem), \A j \in 1..Len(queue) : Tx!Opens(queue[j].packet),
           NEW m \in Nat, Tx!Ordered(queue, m),
           NEW c \in Seq(StreamFrames), NEW n, Run(c, n), NEW k \in 0..Len(c),
           m = NextOffset(c, n, k), Tx!Add(SubSeq(c, k + 1, Len(c)))
    PROVE  Grown(queue', queue, m, Len(c) - k, n)
  <1>1. PICK h, K, fs : /\ h = Len(c) /\ h \in Nat /\ K = h - k /\ K \in Nat
                        /\ fs = SubSeq(c, k + 1, Len(c))
    <2>1. Len(c) \in Nat
      BY LenProperties
    <2>2. Len(c) - k \in Nat
      BY <2>1
    <2>3. QED BY <2>1, <2>2
  <1>2. /\ Len(fs) = K
        /\ \A i \in 1..K :
               /\ fs[i] \in StreamFrames /\ fs[i].bytes # <<>>
               /\ \A j \in 1..Len(fs[i].bytes) : fs[i].bytes[j] = fs[i].offset + j - 1
               /\ fs[i].offset = NextOffset(c, n, k + (i - 1))
               /\ fs[i].offset + Len(fs[i].bytes) = NextOffset(c, n, k + i)
    <2>1. /\ Len(fs) = Len(c) - k
          /\ \A i \in 1..(Len(c) - k) :
                 /\ fs[i] \in StreamFrames /\ fs[i].bytes # <<>>
                 /\ \A j \in 1..Len(fs[i].bytes) : fs[i].bytes[j] = fs[i].offset + j - 1
                 /\ fs[i].offset = NextOffset(c, n, k + (i - 1))
                 /\ fs[i].offset + Len(fs[i].bytes) = NextOffset(c, n, k + i)
      BY <1>1, HandedOver, SMTT(30)
    <2>2. QED BY <1>1, <2>1
  <1>3. \A i \in 1..K : NewItem(fs[i]) \in QueueItem
    BY <1>2, NewItemIs
  <1>4. PICK g : Adding(g, fs) /\ queue' = g[K]
    <2>1. \A i \in 1..Len(fs) : NewItem(fs[i]) \in QueueItem
      BY <1>2, <1>3
    <2>2. Len(fs) \in Nat /\ Tx!Add(fs)
      BY <1>1, <1>2
    <2>3. \E g : Adding(g, fs) /\ queue' = g[Len(fs)]
      BY <2>1, <2>2, AddIs
    <2>4. QED BY <1>2, <2>3
  <1>5. g[0] = queue /\ \A i \in 1..K : g[i] = Tx!Insert(g[i - 1], NewItem(fs[i]), FALSE)
    BY <1>2, <1>4 DEF Adding
  <1>6. DEFINE S == {i \in Nat : i <= K => Grown(g[i], queue, m, i, NextOffset(c, n, k + i))}
  <1>7. 0 \in S
    <2>1. k + 0 = k
      BY <1>1
    <2>2. Grown(queue, queue, m, 0, m)
      <3>1. HasPackets(QueueItem)
        BY ItemsHold
      <3>2. PICK a, s : a = Count(Tx!Units(queue)) /\ s = Tx!Size(queue) /\ a \in Nat /\ s \in Nat
        BY <3>1, CountType
      <3>3. m..(m - 1) = {} /\ a = a + (m - m) /\ s = s + (m - m) + 0 /\ m <= m
        BY <3>2
      <3>4. QED BY <3>2, <3>3 DEF Grown
    <2>3. QED BY <1>5, <2>1, <2>2
  <1>8. ASSUME NEW i \in Nat, i \in S
        PROVE  i + 1 \in S
    <2>1. SUFFICES ASSUME i + 1 <= K
                   PROVE  Grown(g[i + 1], queue, m, i + 1, NextOffset(c, n, k + (i + 1)))
      OBVIOUS
    <2>2. i + 1 \in 1..K /\ i <= K /\ (i + 1) - 1 = i
      BY <1>1, <2>1
    <2>3. PICK e, f, q : e = NextOffset(c, n, k + i) /\ f = fs[i + 1] /\ q = g[i]
      OBVIOUS
    <2>4. Grown(q, queue, m, i, e)
      BY <1>8, <2>2, <2>3
    <2>5. /\ f \in StreamFrames /\ f.bytes # <<>> /\ f.offset = e
          /\ \A j \in 1..Len(f.bytes) : f.bytes[j] = f.offset + j - 1
          /\ e + Len(f.bytes) = NextOffset(c, n, k + (i + 1))
      BY <1>2, <2>2, <2>3
    <2>6. Grown(Tx!Insert(q, NewItem(f), FALSE), queue, m, i + 1, e + Len(f.bytes))
      BY <2>4, <2>5, GrownNext
    <2>7. g[i + 1] = Tx!Insert(q, NewItem(f), FALSE)
      BY <1>5, <2>2, <2>3
    <2>8. QED BY <2>5, <2>6, <2>7
  <1>9. HIDE DEF S
  <1>10. \A i \in Nat : i \in S
    BY <1>7, <1>8, Induction
  <1>11. Grown(g[K], queue, m, K, NextOffset(c, n, k + K))
    <2>1. K \in S /\ K <= K
      BY <1>1, <1>10
    <2>2. QED BY <2>1 DEF S
  <1>12. NextOffset(c, n, k + K) = n
    <2>1. k + K = Len(c)
      BY <1>1
    <2>2. QED BY <2>1 DEF NextOffset
  <1>13. QED BY <1>1, <1>4, <1>11, <1>12

\* The stream's event, with what the socket accepts of its frames.
LEMMA HandKeeps ==
    ASSUME BufferInv, HistoryOK, TypeOK, StreamInv, room = Tx!Available, Hand
    PROVE  TypeOK' /\ StreamInv' /\ BufferInv' /\ HistoryOK' /\ (room = Tx!Available)'
  <1>1. /\ TypeOK' /\ StreamInv'
        /\ Len(frames) <= Len(frames') /\ \A i \in 1..Len(frames) : frames'[i] = frames[i]
        /\ room' + sentSize' + Len(frames') = room + sentSize + Len(frames)
    BY HandKeepsStream DEF Hand
  <1>2. /\ Tx!Add(SubSeq(frames', Len(frames) + 1, Len(frames')))
        /\ zeroList' = zeroList /\ sent' = sent /\ acked' = acked /\ zeros' = zeros
        /\ acks' = acks /\ left' = left
    BY DEF Hand, Tx!Add
  <1>3. PICK c, k, h, m, n : /\ c = frames' /\ k = Len(frames) /\ h = Len(c)
                             /\ m = sentSize /\ n = sentSize'
    OBVIOUS
  <1>4. frames \in Seq(StreamFrames) /\ c \in Seq(StreamFrames)
    BY <1>1, <1>3 DEF TypeOK, StreamFrames, Byte
  <1>5. k \in Nat /\ h \in Nat /\ k <= h /\ k \in 0..h
    <2>1. k \in Nat /\ h \in Nat
      BY <1>3, <1>4, LenProperties
    <2>2. k <= h
      BY <1>1, <1>3
    <2>3. QED BY <2>1, <2>2
  <1>6. m \in Nat /\ n \in Nat /\ m \in 0..StreamBytes
    BY <1>1, <1>3, Constants DEF TypeOK
  <1>7. Run(c, n) /\ Run(frames, m)
    BY <1>1, <1>3 DEF StreamInv
  <1>8. m = NextOffset(c, n, k)
    <2>1. m = NextOffset(c, n, Len(frames))
      BY <1>1, <1>3, <1>4, <1>7, RunContinues
    <2>2. QED BY <1>3, <2>1
  <1>9. Stored(Tx!Buffer, acked, sentSize, left)
    BY StoredNow
  <1>10. PICK b : b = Tx!Buffer
    OBVIOUS
  <1>11. /\ Shaped(b) /\ OnePlace(Holding(b), Amount(b), acked, m)
         /\ Tx!Ordered(queue, m) /\ (left = 0 => Fresh(b))
    BY <1>3, <1>9, <1>10 DEF Stored, Tx!Buffer
  <1>12. b.queue = queue /\ b.zero = zeroList /\ b.sent = sent /\ b.toRetx = 0 /\ b \in Bufs
    BY <1>10, <1>11 DEF Tx!Buffer, Shaped
  <1>13. Tx!HeadersOK(queue, zeroList, sent)
    BY <1>11, <1>12 DEF Shaped
  <1>14. queue \in Seq(QueueItem) /\ zeroList \in Seq(ZeroItem) /\ sent \in Seq(SentItem)
    BY <1>12 DEF Bufs
  <1>15. Grown(queue', queue, m, h - k, n)
    <2>1. \A j \in 1..Len(queue) : Tx!Opens(queue[j].packet)
      BY <1>13 DEF Tx!HeadersOK
    <2>2. Tx!Add(SubSeq(c, k + 1, Len(c))) /\ k \in 0..Len(c)
      BY <1>2, <1>3, <1>5
    <2>3. Grown(queue', queue, m, Len(c) - k, n)
      BY <1>4, <1>6, <1>7, <1>8, <1>11, <1>14, <2>1, <2>2, AddGrows
    <2>4. QED BY <1>3, <2>3
  <1>16. PICK t, q : q = queue' /\ t = [b EXCEPT !.queue = q]
    OBVIOUS
  <1>17. /\ q \in Seq(QueueItem) /\ \A j \in 1..Len(q) : Tx!Opens(q[j].packet)
         /\ m <= n /\ Tx!Ordered(q, n)
         /\ Tx!Numbers(Tx!Units(q)) = Tx!Numbers(Tx!Units(queue)) \cup m..(n - 1)
         /\ Count(Tx!Units(q)) = Count(Tx!Units(queue)) + (n - m)
         /\ Tx!Size(q) = Tx!Size(queue) + (n - m) + (h - k)
         /\ (\A j \in 1..Len(queue) : ~queue[j].retx) => \A j \in 1..Len(q) : ~q[j].retx
    BY <1>15, <1>16 DEF Grown
  <1>18. t \in Bufs /\ t.queue = q /\ t.zero = zeroList /\ t.sent = sent
    BY <1>12, <1>16, <1>17 DEF Bufs
  <1>19. Shaped(t)
    <2>1. Tx!HeadersOK(q, zeroList, sent)
      BY <1>13, <1>17 DEF Tx!HeadersOK
    <2>2. QED BY <1>18, <2>1 DEF Shaped
  <1>20. OnePlace(Holding(t), Amount(t), acked, n)
    <2>1. PICK H, A : H = Holding(b) /\ A = Amount(b)
      OBVIOUS
    <2>2. H \cap acked = {} /\ H \cup acked = 0..(m - 1) /\ A = m - Cardinality(acked)
      BY <1>11, <2>1 DEF OnePlace
    <2>3. Holding(t) = H \cup m..(n - 1)
      BY <1>12, <1>17, <1>18, <2>1 DEF Holding
    <2>4. Amount(t) = A + (n - m)
      <3>1. PICK u, v : u = Count(Tx!Units(queue)) /\ v = Count(Tx!Units(sent)) /\ u \in Nat /\ v \in Nat
        BY <1>12, BufType
      <3>2. A = u + v /\ Amount(t) = (u + (n - m)) + v
        BY <1>12, <1>17, <1>18, <2>1, <3>1 DEF Amount
      <3>3. (u + (n - m)) + v = (u + v) + (n - m)
        BY <1>6, <3>1
      <3>4. QED BY <3>2, <3>3
    <2>5. acked \cap m..(n - 1) = {}
      <3>1. \A x \in 0..(m - 1) : x \notin m..(n - 1)
        BY <1>6
      <3>2. QED BY <2>2, <3>1
    <2>6. 0..(m - 1) \cup m..(n - 1) = 0..(n - 1)
      BY <1>6, <1>17
    <2>7. Cardinality(acked) \in Int
      <3>1. acked \subseteq 0..(m - 1)
        BY <2>2
      <3>2. IsFiniteSet(0..(m - 1))
        BY <1>6, FS_Interval
      <3>3. IsFiniteSet(acked)
        BY <3>1, <3>2, FS_Subset
      <3>4. QED BY <3>3, FS_CardinalityType
    <2>8. A + (n - m) = n - Cardinality(acked)
      BY <1>6, <2>2, <2>7
    <2>9. (H \cup m..(n - 1)) \cap acked = {}
      BY <2>2, <2>5
    <2>10. (H \cup m..(n - 1)) \cup acked = 0..(n - 1)
      BY <2>2, <2>6
    <2>11. QED BY <2>3, <2>4, <2>8, <2>9, <2>10 DEF OnePlace
  <1>21. PICK a, z, d : a = Tx!Size(queue) /\ z = Tx!Size(zeroList) /\ d = (n - m) + (h - k)
    OBVIOUS
  <1>22. a \in Nat /\ z \in Nat /\ d \in Nat /\ Tx!Size(q) = a + d
    <2>1. a \in Nat /\ z \in Nat
      BY <1>12, <1>21, BufType
    <2>2. d \in Nat
      BY <1>5, <1>6, <1>17, <1>21
    <2>3. a + (n - m) + (h - k) = a + ((n - m) + (h - k))
      BY <1>5, <1>6, <2>1
    <2>4. QED BY <1>17, <1>21, <2>1, <2>2, <2>3
  <1>23. room \in Nat /\ room' \in Nat /\ room' = room - d
    <2>1. room \in Nat /\ room' \in Nat
      BY <1>1, Constants DEF TypeOK
    <2>2. room' + n + h = room + m + k
      BY <1>1, <1>3
    <2>3. room' = room - ((n - m) + (h - k))
      <3>1. PICK r, s : r = room /\ s = room'
        OBVIOUS
      <3>2. s + n + h = r + m + k
        BY <2>2, <3>1, Zenon
      <3>3. r \in Nat /\ s \in Nat
        BY <2>1, <3>1, Zenon
      <3>4. m \in Nat /\ n \in Nat /\ k \in Nat /\ h \in Nat
        BY <1>5, <1>6, Zenon
      <3>5. s = r - ((n - m) + (h - k))
        BY <3>2, <3>3, <3>4
      <3>6. QED BY <3>1, <3>5, Zenon
    <2>4. QED BY <1>21, <2>1, <2>3
  <1>24. left' = 0 => Fresh(t)
    <2>1. SUFFICES ASSUME left' = 0
                   PROVE  Fresh(t)
      OBVIOUS
    <2>2. Fresh(b)
      BY <1>2, <1>11, <2>1
    <2>3. a + z <= TxBufferSize
      BY <1>12, <1>21, <2>2 DEF Fresh, Filling
    <2>4. (TxBufferSize - z - a) % Modulus = TxBufferSize - z - a
      BY <1>22, <2>3, RoomIs
    <2>5. room = TxBufferSize - z - a
      BY <1>21, <2>4 DEF Tx!Available, Tx!AppSize
    <2>6. (a + d) + z <= TxBufferSize
      BY <1>22, <1>23, <2>5, Constants
    <2>7. Filling(t) = (a + d) + z
      BY <1>18, <1>21, <1>22 DEF Filling
    <2>8. QED BY <1>12, <1>17, <1>18, <2>2, <2>6, <2>7 DEF Fresh
  <1>25. Stored(t, acked', sentSize', left')
    BY <1>2, <1>3, <1>17, <1>18, <1>19, <1>20, <1>24 DEF Stored
  <1>26. BufferInv'
    BY <1>2, <1>16, <1>18, <1>25, StoredNext
  <1>27. HistoryOK'
    BY <1>2 DEF HistoryOK, Byte
  <1>28. room' = Tx!Available'
    <2>1. PICK w : w = TxBufferSize - z - a /\ w \in Int
      BY <1>22, Constants
    <2>2. room = w % Modulus
      BY <1>21, <2>1 DEF Tx!Available, Tx!AppSize
    <2>3. Modulus \in Nat /\ Modulus > 0 /\ d <= w % Modulus /\ d \in Int /\ 0 <= d
      BY <1>22, <1>23, <2>2, Constants
    <2>4. (w - d) % Modulus = (w % Modulus) - d
      BY <2>1, <2>3, ModSub
    <2>5. TxBufferSize - z - (a + d) = w - d
      BY <1>22, <2>1, Constants
    <2>6. Tx!Available' = (TxBufferSize - z - (a + d)) % Modulus
      BY <1>2, <1>16, <1>21, <1>22 DEF Tx!Available, Tx!AppSize
    <2>7. QED BY <1>23, <2>2, <2>4, <2>5, <2>6
  <1>29. QED BY <1>1, <1>26, <1>27, <1>28

-----------------------------------------------------------------------------
\* The parts of the inductive invariant.
LEMMA SendInvIs ==
    SendInv <=> TypeOK /\ room = Tx!Available /\ HistoryOK /\ StreamInv /\ BufferInv
  BY DEF SendInv, PathTypeOK, HistoryOK, BufferInv

\* Nothing has been written and nothing is in the buffer.
LEMMA InitKeeps ==
    ASSUME PathInit
    PROVE  SendInv
  <1>1. /\ written = 0 /\ appList = <<>> /\ sentList = <<>> /\ bufSent = 0 /\ sentSize = 0
        /\ frames = <<>> /\ pending = FALSE /\ crashed = FALSE /\ large = FALSE
        /\ queue = <<>> /\ zeroList = <<>> /\ sent = <<>> /\ acked = {} /\ zeros = 0
        /\ acks = 0 /\ left = 0 /\ room = Tx!Available
    BY DEF PathInit, Init, Tx!TxInit
  <1>2. Len(<<>>) = 0 /\ 1..0 = {}
    BY EmptySeq
  <1>3. Tx!Units(<<>>) = <<>> /\ Tx!Size(<<>>) = 0 /\ Count(Tx!Units(<<>>)) = 0 /\ Tx!Numbers(Tx!Units(<<>>)) = {}
    BY NoItems
  <1>4. FlattenSeq(<<>>) = <<>> /\ Total(<<>>) = 0
    <2>1. <<>> \in Seq(Nat)
      BY EmptySeq
    <2>2. FlattenSeq(<<>>) = <<>>
      BY <2>1, FlatSmall
    <2>3. Total(<<>>) = 0
      BY <2>1, TotalAppend
    <2>4. QED BY <2>2, <2>3
  <1>5. room = TxBufferSize
    <2>1. (TxBufferSize - 0 - 0) % Modulus = TxBufferSize - 0 - 0
      BY RoomIs, Constants
    <2>2. room = (TxBufferSize - 0 - 0) % Modulus
      BY <1>1, <1>3 DEF Tx!Available, Tx!AppSize
    <2>3. QED BY <2>1, <2>2, Constants
  <1>6. TypeOK
    <2>1. /\ appList \in Seq(Seq(Byte)) /\ sentList \in Seq(1..StreamBytes)
          /\ frames \in Seq([offset : Byte, bytes : Seq(Byte)])
      BY <1>1, EmptySeq
    <2>2. room \in 0..(Modulus - 1) /\ bufSent \in 0..(Modulus - 1)
      BY <1>1, <1>5, Constants
    <2>3. Len(FlattenSeq(appList)) <= MaxBuffer /\ written \in 0..StreamBytes /\ sentSize \in 0..StreamBytes
      BY <1>1, <1>2, <1>4, Constants
    <2>4. QED BY <1>1, <2>1, <2>2, <2>3 DEF TypeOK
  <1>7. HistoryOK
    BY <1>1, SendPathAssumption DEF HistoryOK
  <1>8. StreamInv
    <2>1. ByteStream
      <3>1. [i \in 1..Len(frames) |-> frames[i].bytes] = <<>>
        <4>1. PICK p : p = [i \in 1..Len(frames) |-> frames[i].bytes]
          OBVIOUS
        <4>2. frames \in Seq(StreamFrames)
          BY <1>1, EmptySeq
        <4>3. p \in Seq(Seq(Byte)) /\ Len(p) = 0
          BY <1>1, <1>2, <4>1, <4>2, PayloadsType
        <4>4. QED BY <4>1, <4>3, EmptySeq
      <3>2. <<>> \o <<>> = [i \in 1..written |-> i - 1]
        BY <1>1
      <3>3. QED BY <1>1, <1>2, <1>4, <3>1, <3>2 DEF ByteStream
    <2>2. Run(frames, sentSize)
      BY <1>1, <1>2 DEF Run, NextOffset
    <2>3. QED BY <1>1, <1>2, <1>4, <2>1, <2>2 DEF StreamInv
  <1>9. Tx!ListsOK(queue, zeroList, sent)
    BY <1>1, EmptySeq DEF Tx!ListsOK
  <1>10. Tx!HeadersOK(queue, zeroList, sent)
    BY <1>1, <1>2 DEF Tx!HeadersOK
  <1>11. Tx!Ordered(queue, sentSize)
    BY <1>1, <1>2 DEF Tx!Ordered
  <1>12. Conserved
    <2>1. queue \in Seq(QueueItem) /\ sent \in Seq(SentItem)
      BY <1>1, EmptySeq
    <2>2. /\ Tx!Numbers(Tx!Units(queue) \o Tx!Units(sent)) = {}
          /\ Cardinality(Tx!Places(Tx!Units(queue) \o Tx!Units(sent))) = 0
      <3>1. /\ Tx!Numbers(Tx!Units(queue) \o Tx!Units(sent)) = Tx!Numbers(Tx!Units(queue)) \cup Tx!Numbers(Tx!Units(sent))
            /\ Cardinality(Tx!Places(Tx!Units(queue) \o Tx!Units(sent))) = Count(Tx!Units(queue)) + Count(Tx!Units(sent))
        BY <2>1, HeldIs
      <3>2. /\ Tx!Numbers(Tx!Units(queue)) = {} /\ Tx!Numbers(Tx!Units(sent)) = {}
            /\ Count(Tx!Units(queue)) = 0 /\ Count(Tx!Units(sent)) = 0
        BY <1>1, <1>3
      <3>3. QED BY <3>1, <3>2
    <2>3. Cardinality({}) = 0 /\ 0..(0 - 1) = {}
      BY FS_EmptySet
    <2>4. QED BY <1>1, <2>2, <2>3 DEF Conserved
  <1>13. FreshInv
    BY <1>1, <1>2, <1>3, Constants DEF FreshInv, Tx!AppSize
  <1>14. QED BY <1>1, <1>6, <1>7, <1>8, <1>9, <1>10, <1>11, <1>12, <1>13, SendInvIs DEF BufferInv

\* Every step keeps the invariant.
LEMMA StepKeeps ==
    ASSUME SendInv, [PathNext]_pathVars
    PROVE  SendInv'
  <1>1. TypeOK /\ room = Tx!Available /\ HistoryOK /\ StreamInv /\ BufferInv
    BY SendInvIs
  <1>2. SUFFICES TypeOK' /\ (room = Tx!Available)' /\ HistoryOK' /\ StreamInv' /\ BufferInv'
    BY DEF SendInv, PathTypeOK, HistoryOK, BufferInv
  <1>3. ASSUME txVars' = txVars, sentSize' = sentSize
        PROVE  HistoryOK' /\ BufferInv' /\ Tx!Available' = Tx!Available
    <2>1. /\ queue' = queue /\ zeroList' = zeroList /\ sent' = sent /\ acked' = acked
          /\ zeros' = zeros /\ acks' = acks /\ left' = left
      BY <1>3 DEF txVars
    <2>2. HistoryOK'
      BY <1>1, <2>1 DEF HistoryOK, Byte
    <2>3. Tx!Available' = Tx!Available
      BY <2>1 DEF Tx!Available, Tx!AppSize
    <2>4. BufferInv'
      <3>1. Stored(Tx!Buffer, acked', sentSize', left')
        BY <1>1, <1>3, <2>1, StoredNow
      <3>2. PICK t : t = Tx!Buffer
        OBVIOUS
      <3>3. t.queue = queue /\ t.zero = zeroList /\ t.sent = sent
        BY <3>2 DEF Tx!Buffer
      <3>4. QED BY <2>1, <3>1, <3>2, <3>3, StoredNext
    <2>5. QED BY <2>2, <2>3, <2>4
  <1>4. CASE \E size \in AppSizes : Write(size)
    <2>1. PICK size \in AppSizes : Write(size)
      BY <1>4
    <2>2. Send(size) /\ txVars' = txVars /\ sentSize' = sentSize /\ room' = room
      BY <2>1 DEF Write, Send
    <2>3. TypeOK' /\ StreamInv'
      BY <1>1, <2>2, SendKeepsStream
    <2>4. QED BY <1>1, <1>3, <2>2, <2>3
  <1>5. CASE Hand
    BY <1>1, <1>5, HandKeeps
  <1>6. CASE ~crashed /\ Transmit
    BY <1>1, <1>6, TransmitKeeps
  <1>7. CASE UNCHANGED pathVars
    <2>1. /\ txVars' = txVars /\ sentSize' = sentSize /\ room' = room /\ written' = written
          /\ appList' = appList /\ sentList' = sentList /\ bufSent' = bufSent /\ frames' = frames
          /\ pending' = pending /\ crashed' = crashed /\ large' = large
      BY <1>7 DEF pathVars, vars
    <2>2. TypeOK'
      BY <1>1, <2>1 DEF TypeOK, Byte
    <2>3. StreamInv'
      BY <1>1, <2>1 DEF StreamInv, ByteStream
    <2>4. QED BY <1>1, <1>3, <2>1, <2>2, <2>3
  <1>8. QED BY <1>4, <1>5, <1>6, <1>7 DEF PathNext

\* The inductive invariant holds in every state of the send path.
THEOREM SendInvariant == PathSpec => []SendInv
  BY InitKeeps, StepKeeps, PTL DEF PathSpec

\* Types and bounds, and the stream's view of the room (the socket's Available).
THEOREM TypeCorrect == PathSpec => []PathTypeOK
  <1>1. SendInv => PathTypeOK
    BY DEF SendInv
  <1>2. QED BY <1>1, SendInvariant, PTL

\* What the stream gives to the socket and what it still holds are the bytes the
\* application wrote, in order, through every rejection by the socket.
THEOREM StreamDelivered == PathSpec => []ByteStream
  <1>1. SendInv => ByteStream
    BY DEF SendInv, StreamInv
  <1>2. QED BY <1>1, SendInvariant, PTL

\* The stream counts its bytes in flight as its sent list does, and pop_back finds
\* its item, as long as no packet is cut.
THEOREM BytesCounted == PathSpec => []SentListCounted
  <1>1. SendInv => SentListCounted
    <2>1. SUFFICES ASSUME SendInv, ~large, sentSize + SegSize <= MaxStreamData
                   PROVE  bufSent = Total(sentList) /\ ~crashed
      BY DEF SentListCounted
    <2>2. bufSent = sentSize /\ Total(sentList) = sentSize /\ ~crashed
      BY <2>1 DEF SendInv, StreamInv
    <2>3. QED BY <2>2
  <1>2. QED BY <1>1, SendInvariant, PTL

\* No byte the socket accepted is lost or doubled by merging, splitting and
\* retransmission, whatever the sizes and whichever packets are lost.
THEOREM BytesConserved == PathSpec => []Conserved
  <1>1. SendInv => Conserved
    BY DEF SendInv
  <1>2. QED BY <1>1, SendInvariant, PTL

\* The socket's buffer stays within its size, and Available does not wrap around,
\* until a retransmission stays in it.
THEOREM BufferBounded == PathSpec => []RoomKept
  <1>1. SendInv => RoomKept
    BY DEF SendInv, FreshInv, RoomKept
  <1>2. QED BY <1>1, SendInvariant, PTL

\* The headers in the buffer and in the packets sent announce the bytes behind them,
\* until a retransmission stays in the buffer.
THEOREM HeadersTrue == PathSpec => []FramesIntact
  <1>1. ASSUME SendInv
        PROVE  FramesIntact
    <2>1. SUFFICES ASSUME left = 0
                   PROVE  /\ \A i \in 1..Len(queue) : WellFormed(queue[i].packet)
                          /\ \A i \in 1..Len(sent) : WellFormed(sent[i].packet)
      BY DEF FramesIntact
    <2>2. /\ \A i \in 1..Len(queue) : ~queue[i].retx
          /\ \A i \in 1..Len(sent) : WellFormed(sent[i].packet)
      BY <1>1, <2>1 DEF SendInv, FreshInv
    <2>3. queue \in Seq(QueueItem)
      BY <1>1 DEF SendInv, Tx!ListsOK, QueueItem, Packet
    <2>4. ASSUME NEW i \in 1..Len(queue)
          PROVE  WellFormed(queue[i].packet)
      <3>1. Tx!Frame(queue[i].packet)
        BY <1>1, <2>2 DEF SendInv, Tx!Ordered
      <3>2. queue[i] \in QueueItem
        BY <2>3, ElementOfSeq
      <3>3. queue[i].packet \in Packet
        BY <3>2 DEF QueueItem
      <3>4. QED BY <3>1, <3>3, FrameWellFormed
    <2>5. QED BY <2>2, <2>4
  <1>2. QED BY <1>1, SendInvariant, PTL

-----------------------------------------------------------------------------
\* The bytes of a frame.
LEMMA FrameHolds ==
    ASSUME NEW p \in Packet, Tx!Frame(p)
    PROVE  /\ p[1].n \in Nat /\ Tx!End(p) \in Nat /\ p[1].n < Tx!End(p)
           /\ \A j \in Tx!Places(p) : j \in 2..Len(p) /\ p[j].n = p[1].n + j - 2 /\ p[j].n < Tx!End(p)
           /\ Tx!Numbers(p) = p[1].n..(Tx!End(p) - 1)
  <1>1. PICK m, n, e : m = p[1].n /\ n = Len(p) /\ e = Tx!End(p)
    OBVIOUS
  <1>2. n \in Nat /\ n > 1 /\ e = m + n - 1
    BY <1>1, LenProperties DEF Tx!Frame, Tx!End, Packet
  <1>3. m \in Nat
    <2>1. p[1] \in Tx!AnyUnit
      BY <1>1, <1>2, ElementOfSeq DEF Packet
    <2>2. QED BY <1>1, <2>1 DEF Tx!AnyUnit
  <1>4. e \in Nat /\ m < e
    BY <1>2, <1>3
  <1>5. p[1].kind = "header"
    BY DEF Tx!Frame, Tx!Header, Tx!Unit
  <1>6. \A j \in 2..n : p[j].kind = "byte" /\ p[j].n = m + j - 2
    <2>1. \A j \in 2..n : p[j] = Tx!Unit("byte", m + j - 2, 0)
      BY <1>1 DEF Tx!Frame
    <2>2. \A k : Tx!Unit("byte", k, 0).kind = "byte" /\ Tx!Unit("byte", k, 0).n = k
      BY DEF Tx!Unit
    <2>3. QED BY <2>1, <2>2, Zenon
  <1>7. Tx!Places(p) = 2..n
    BY <1>1, <1>2, <1>5, <1>6 DEF Tx!Places
  <1>8. \A j \in 2..n : m + j - 2 \in m..(e - 1) /\ m + j - 2 < e
    BY <1>2, <1>3
  <1>9. Tx!Numbers(p) = m..(e - 1)
    <2>1. Tx!Numbers(p) = {p[j].n : j \in 2..n}
      BY <1>7 DEF Tx!Numbers
    <2>2. \A x \in m..(e - 1) : x - m + 2 \in 2..n /\ x = m + (x - m + 2) - 2
      BY <1>2, <1>3
    <2>3. \A x \in m..(e - 1) : x = p[x - m + 2].n
      BY <1>6, <2>2
    <2>4. \A j \in 2..n : p[j].n \in m..(e - 1)
      BY <1>6, <1>8
    <2>5. m..(e - 1) \subseteq Tx!Numbers(p)
      BY <2>1, <2>2, <2>3
    <2>6. Tx!Numbers(p) \subseteq m..(e - 1)
      BY <2>1, <2>4
    <2>7. QED BY <2>5, <2>6
  <1>10. QED BY <1>1, <1>3, <1>4, <1>6, <1>7, <1>8, <1>9

\* The new data of an ordered queue is the end of the stream.
LEMMA NewDataIs ==
    ASSUME NEW q \in Seq(QueueItem), NEW size \in Nat, Tx!Ordered(q, size)
    PROVE  \E n \in 0..size :
               UNION {Tx!Numbers(q[i].packet) : i \in {j \in 1..Len(q) : ~q[j].retx}} = n..(size - 1)
  <1>1. PICK h, X : h = Len(q) /\ h \in Nat /\ X = {j \in 1..h : ~q[j].retx}
    BY LenProperties
  <1>2. /\ \A i, j \in 1..h : i < j /\ q[j].retx => q[i].retx
        /\ \A i \in 1..h : ~q[i].retx => New(q[i], Until(q, i, size))
        /\ \A i, j \in 1..h : i < j /\ ~q[i].retx => Follows(q[i], q[j])
    BY <1>1, OrderedIs
  <1>3. \A i \in 1..h : q[i] \in QueueItem /\ q[i].packet \in Packet
    <2>1. \A i \in 1..h : q[i] \in QueueItem
      BY <1>1, ElementOfSeq
    <2>2. QED BY <2>1 DEF QueueItem
  <1>4. DEFINE A == {j \in 1..h : q[j].retx}
               num(i) == Tx!Numbers(q[i].packet)
               m(i) == q[i].packet[1].n
               e(i) == Tx!End(q[i].packet)
  <1>5. PICK k \in 1..(h + 1) : (\A j \in 1..(k - 1) : j \in A) /\ (k <= h => k \notin A)
    BY <1>1, FirstOutside
  <1>6. X = k..h
    <2>1. ASSUME NEW j \in 1..h, j < k
          PROVE  q[j].retx
      BY <1>1, <1>5, <2>1
    <2>2. ASSUME NEW j \in 1..h, k <= j
          PROVE  ~q[j].retx
      <3>1. k \in 1..h /\ ~q[k].retx
        BY <1>1, <1>5, <2>2
      <3>2. CASE k = j
        BY <3>1, <3>2
      <3>3. CASE k < j
        BY <1>2, <3>1, <3>3
      <3>4. QED BY <1>1, <2>2, <3>2, <3>3
    <2>3. \A j : j \in k..h <=> j \in 1..h /\ k <= j
      BY <1>1
    <2>4. \A j \in 1..h : j < k \/ k <= j
      BY <1>1
    <2>5. QED BY <1>1, <2>1, <2>2, <2>3, <2>4
  <1>7. \A i \in k..h : /\ i \in 1..h /\ ~q[i].retx /\ New(q[i], Until(q, i, size)) /\ Tx!Frame(q[i].packet)
                        /\ e(i) = Until(q, i, size)
    BY <1>1, <1>2, <1>6 DEF New
  <1>8. \A i \in k..h : m(i) \in Nat /\ e(i) \in Nat /\ m(i) < e(i) /\ num(i) = m(i)..(e(i) - 1)
    BY <1>3, <1>7, FrameHolds
  <1>9. CASE k = h + 1
    <2>1. k..h = {}
      BY <1>1, <1>9
    <2>2. UNION {num(i) : i \in X} = {}
      BY <1>6, <2>1
    <2>3. size..(size - 1) = {} /\ size \in 0..size
      OBVIOUS
    <2>4. QED BY <1>1, <2>2, <2>3
  <1>10. CASE k # h + 1
    <2>1. k \in k..h /\ h \in k..h
      BY <1>1, <1>10
    <2>2. PICK n : n = m(k) /\ n \in Nat
      BY <1>8, <2>1
    <2>3. DEFINE S == {d \in Nat : k + d <= h =>
                           n < e(k + d) /\ UNION {num(i) : i \in k..(k + d)} = n..(e(k + d) - 1)}
    <2>4. 0 \in S
      <3>1. k + 0 = k /\ k..k = {k}
        BY <1>1
      <3>2. n < e(k) /\ num(k) = n..(e(k) - 1)
        BY <1>8, <2>1, <2>2
      <3>3. UNION {num(i) : i \in {k}} = num(k)
        OBVIOUS
      <3>4. QED BY <3>1, <3>2, <3>3
    <2>5. ASSUME NEW d \in Nat, d \in S
          PROVE  d + 1 \in S
      <3>1. SUFFICES ASSUME k + (d + 1) <= h
                     PROVE  /\ n < e(k + (d + 1))
                            /\ UNION {num(i) : i \in k..(k + (d + 1))} = n..(e(k + (d + 1)) - 1)
        OBVIOUS
      <3>2. PICK a, b : a = k + d /\ b = k + (d + 1)
        OBVIOUS
      <3>3. a \in k..h /\ b \in k..h /\ a # h /\ b = a + 1 /\ a <= h
        BY <1>1, <3>1, <3>2
      <3>4. n < e(a) /\ UNION {num(i) : i \in k..a} = n..(e(a) - 1)
        BY <2>5, <3>2, <3>3
      <3>5. e(a) = m(b)
        BY <1>1, <1>7, <3>3 DEF Until
      <3>6. PICK u, v : u = m(b) /\ v = e(b) /\ u \in Nat /\ v \in Nat /\ u < v /\ num(b) = u..(v - 1)
        BY <1>8, <3>3
      <3>7. n < v /\ n..(u - 1) \cup u..(v - 1) = n..(v - 1)
        <4>1. n < u
          BY <3>4, <3>5, <3>6, Zenon
        <4>2. n \in Nat /\ u \in Nat /\ v \in Nat /\ u < v
          BY <2>2, <3>6, Zenon
        <4>3. n < v
          BY <4>1, <4>2
        <4>4. n..(u - 1) \cup u..(v - 1) = n..(v - 1)
          BY <4>1, <4>2
        <4>5. QED BY <4>3, <4>4
      <3>8. k..b = k..a \cup {b}
        BY <1>1, <3>3
      <3>9. UNION {num(i) : i \in k..a \cup {b}} = (UNION {num(i) : i \in k..a}) \cup num(b)
        OBVIOUS
      <3>10. UNION {num(i) : i \in k..b} = n..(v - 1)
        BY <3>4, <3>5, <3>6, <3>7, <3>8, <3>9
      <3>11. QED BY <3>2, <3>6, <3>7, <3>10
    <2>6. HIDE DEF S
    <2>7. \A d \in Nat : d \in S
      BY <2>4, <2>5, Induction
    <2>8. PICK d : d = h - k /\ d \in Nat /\ k + d = h
      BY <1>1, <2>1
    <2>9. n < e(h) /\ UNION {num(i) : i \in k..h} = n..(e(h) - 1)
      <3>1. d \in S /\ k + d <= h
        BY <1>1, <2>7, <2>8
      <3>2. QED BY <2>8, <3>1 DEF S
    <2>10. e(h) = size
      BY <1>1, <1>7, <2>1 DEF Until
    <2>11. n \in 0..size
      BY <2>2, <2>9, <2>10
    <2>12. QED BY <1>1, <1>6, <2>9, <2>10, <2>11
  <1>11. QED BY <1>9, <1>10

\* New data leaves in order: what the queue holds of it is the end of the stream, one
\* frame behind the other, whatever was split, sent or put back before.
THEOREM NewDataOrdered == PathSpec => []NewDataInOrder
  <1>1. ASSUME SendInv
        PROVE  NewDataInOrder
    <2>1. queue \in Seq(QueueItem) /\ Tx!Ordered(queue, sentSize) /\ sentSize \in Nat
      <3>1. sentSize \in 0..StreamBytes
        BY <1>1 DEF SendInv, PathTypeOK, TypeOK
      <3>2. QED BY <1>1, <3>1, Constants DEF SendInv, Tx!ListsOK, QueueItem, Packet
    <2>2. PICK h : h = Len(queue) /\ h \in Nat
      BY <2>1, LenProperties
    <2>3. /\ \A i \in 1..h : ~queue[i].retx => Tx!Frame(queue[i].packet)
          /\ \A i, j \in 1..h : i < j /\ ~queue[i].retx => Tx!End(queue[i].packet) <= queue[j].packet[1].n
      BY <2>1, <2>2 DEF Tx!Ordered
    <2>4. \A i \in 1..h : queue[i].packet \in Packet
      <3>1. \A i \in 1..h : queue[i] \in QueueItem
        BY <2>1, <2>2, ElementOfSeq
      <3>2. QED BY <3>1 DEF QueueItem
    <2>5. ASSUME NEW i \in 1..h, ~queue[i].retx, NEW k \in 1..h, ~queue[k].retx,
                 NEW j \in Tx!Places(queue[i].packet), NEW l \in Tx!Places(queue[k].packet),
                 i < k \/ (i = k /\ j < l)
          PROVE  queue[i].packet[j].n < queue[k].packet[l].n
      <3>1. PICK p, r : p = queue[i].packet /\ r = queue[k].packet
        OBVIOUS
      <3>2. p \in Packet /\ Tx!Frame(p) /\ r \in Packet /\ Tx!Frame(r) /\ j \in Tx!Places(p) /\ l \in Tx!Places(r)
        BY <2>3, <2>4, <2>5, <3>1
      <3>3. /\ p[1].n \in Nat /\ Tx!End(p) \in Nat
            /\ j \in 2..Len(p) /\ p[j].n = p[1].n + j - 2 /\ p[j].n < Tx!End(p)
        BY <3>2, FrameHolds
      <3>4. /\ r[1].n \in Nat /\ Tx!End(r) \in Nat
            /\ l \in 2..Len(r) /\ r[l].n = r[1].n + l - 2 /\ r[l].n < Tx!End(r)
        BY <3>2, FrameHolds
      <3>5. Len(p) \in Nat /\ Len(r) \in Nat
        BY <3>2, LenProperties DEF Packet
      <3>6. PICK a, b, e : a = p[1].n /\ b = r[1].n /\ e = Tx!End(p)
        OBVIOUS
      <3>7. a \in Nat /\ b \in Nat /\ e \in Nat /\ j \in Nat /\ l \in Nat /\ l >= 2 /\ a + j - 2 < e
        BY <3>3, <3>4, <3>5, <3>6
      <3>8. CASE i < k
        <4>1. e <= b
          BY <2>3, <2>5, <3>1, <3>6, <3>8
        <4>2. a + j - 2 < b + l - 2
          BY <3>7, <4>1
        <4>3. QED BY <3>1, <3>3, <3>4, <3>6, <4>2
      <3>9. CASE i = k /\ j < l
        <4>1. a = b
          BY <3>1, <3>6, <3>9
        <4>2. a + j - 2 < b + l - 2
          BY <3>7, <3>9, <4>1
        <4>3. QED BY <3>1, <3>3, <3>4, <3>6, <4>2
      <3>10. QED BY <2>5, <3>8, <3>9
    <2>6. \E n \in 0..sentSize :
              UNION {Tx!Numbers(queue[i].packet) : i \in {j \in 1..Len(queue) : ~queue[j].retx}} = n..(sentSize - 1)
      BY <2>1, NewDataIs
    <2>7. QED BY <2>2, <2>5, <2>6 DEF NewDataInOrder
  <1>2. QED BY <1>1, SendInvariant, PTL

=============================================================================
