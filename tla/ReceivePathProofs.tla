-------------------------- MODULE ReceivePathProofs --------------------------
(***************************************************************************)
(* Proofs about ReceivePath, for every stream, every cutting of it into    *)
(* frames, and every size of the buffers.  PathInv is inductive: the       *)
(* stream's part (StreamInv) and the socket's part (SocketInv) are kept    *)
(* separately.  The loops of GetDeliverable and of the two Extracts are    *)
(* recursive functions; what they compute is shown by induction on the     *)
(* number of items they have looked at.                                    *)
(***************************************************************************)
EXTENDS ReceivePath, ListLemmas

-----------------------------------------------------------------------------
\* The bytes of a frame.
LEMMA BytesType ==
    ASSUME NEW f \in Frame
    PROVE  /\ Bytes(f) \in Seq(Nat) /\ Len(Bytes(f)) = f.length
           /\ f.offset \in Nat /\ f.length \in Nat /\ f.length > 0
           /\ \A i \in 1..f.length : Bytes(f)[i] = f.offset + i - 1
  <1>1. f.offset \in Nat /\ f.length \in Nat /\ f.length > 0
    <2>1. f.offset \in 0..StreamBytes /\ f.length \in FrameSizes
      BY DEF Frame
    <2>2. f.length \in Nat /\ f.length # 0 /\ StreamBytes \in Nat
      BY <2>1, ReceiveAssumption, Zenon
    <2>3. QED BY <2>1, <2>2
  <1>2. Bytes(f) \in [1..f.length -> Nat]
    BY <1>1 DEF Bytes
  <1>3. Bytes(f) \in Seq(Nat) /\ Len(Bytes(f)) = f.length
    BY <1>1, <1>2, SeqDef, LenProperties
  <1>4. QED BY <1>1, <1>3 DEF Bytes

\* What the recursive function Merged computes, item by item.
MergedFacts(b) ==
    /\ Merged(b) \in [0..Len(b) -> Seq(Nat)]
    /\ Merged(b)[0] = <<>>
    /\ \A i \in 1..Len(b) : Merged(b)[i] = Merged(b)[i - 1] \o Bytes(b[i])

\* The recursive function Merged exists and has these values.
LEMMA MergedDef ==
    ASSUME NEW b \in Seq(Frame)
    PROVE  MergedFacts(b)
  <1> DEFINE n == Len(b)
             V == Seq(Nat)
             base == <<>>
             step == [w \in V \X (1..n) |-> w[1] \o Bytes(b[w[2]])]
             Eq(f) == f = [i \in 0..n |-> IF i = 0 THEN base ELSE f[i - 1] \o Bytes(b[i])]
  <1>1. n \in Nat /\ base \in V /\ \A i \in 1..n : b[i] \in Frame
    BY LenProperties, ElementOfSeq
  <1>2. \A v \in V, i \in 1..n : v \o Bytes(b[i]) \in V /\ step[<<v, i>>] = v \o Bytes(b[i])
    BY <1>1, BytesType, ConcatProperties
  <1>3. step \in [V \X (1..n) -> V]
    BY <1>2
  <1> HIDE DEF step, n, V, base
  <1>4. PICK f \in [0..n -> V] : Recursive(f, n, base, step)
    <2>1. n \in Nat /\ base \in V
      BY <1>1
    <2>2. QED BY <1>3, <2>1, RecursionExists
  <1>5. Eq(f)
    <2>1. \A i \in 0..n : i # 0 => /\ f[i - 1] \in V /\ i \in 1..n
                                  /\ step[<<f[i - 1], i>>] = f[i - 1] \o Bytes(b[i])
      <3>1. ASSUME NEW i \in 0..n, i # 0
            PROVE  i \in 1..n /\ i - 1 \in 0..n
        BY <1>1, <3>1
      <3>2. \A j \in 0..n : f[j] \in V
        BY <1>4
      <3>3. QED BY <1>2, <3>1, <3>2, Zenon
    <2>2. QED BY <1>4, <2>1 DEF Recursive
  <1>6. Merged(b) = CHOOSE g : Eq(g)
    BY DEF Merged, n, base
  <1>7. Eq(Merged(b))
    BY <1>5, <1>6
  <1> DEFINE g == Merged(b)
  <1> HIDE DEF g
  <1>8. g[0] = base /\ \A i \in 1..n : g[i] = g[i - 1] \o Bytes(b[i])
    BY <1>1, <1>7 DEF g
  <1> DEFINE S == {k \in Nat : k <= n => g[k] \in V}
  <1>9. 0 \in S
    BY <1>1, <1>8
  <1>10. ASSUME NEW k \in Nat, k \in S
         PROVE  k + 1 \in S
    <2> SUFFICES ASSUME k + 1 <= n
                 PROVE  g[k + 1] \in V
      OBVIOUS
    <2>1. g[k] \in V /\ k + 1 \in 1..n /\ (k + 1) - 1 = k
      BY <1>1, <1>10
    <2>2. QED BY <1>2, <1>8, <2>1
  <1>11. \A k \in Nat : k \in S
    <2> HIDE DEF S
    <2>1. QED BY <1>9, <1>10, Induction
  <1>12. g = [i \in 0..n |-> IF i = 0 THEN base ELSE g[i - 1] \o Bytes(b[i])]
    BY <1>7 DEF g
  <1>13. g \in [0..n -> V]
    <2>1. \A i \in 0..n : g[i] \in V
      BY <1>1, <1>11
    <2>2. DOMAIN g = 0..n /\ g = [i \in DOMAIN g |-> g[i]]
      BY <1>12
    <2>3. QED BY <2>1, <2>2
  <1>14. QED BY <1>8, <1>13 DEF MergedFacts, g, n, V, base

-----------------------------------------------------------------------------
\* The number of bytes of the first i items of a list.
Size(b, i) == Len(Merged(b)[i])

\* It grows by the length of each item.
SizeFacts(b) ==
    /\ Len(b) \in Nat
    /\ \A i \in 0..Len(b) : Size(b, i) \in Nat
    /\ Size(b, 0) = 0
    /\ \A i \in 1..Len(b) :
          /\ Size(b, i) = Size(b, i - 1) + b[i].length
          /\ b[i] \in Frame /\ b[i].offset \in Nat
          /\ b[i].length \in Nat /\ b[i].length > 0

\* The sizes of the merged items follow from their lengths.
LEMMA SizeDef ==
    ASSUME NEW b \in Seq(Frame)
    PROVE  SizeFacts(b)
  <1>1. MergedFacts(b)
    BY MergedDef
  <1>2. Len(b) \in Nat /\ \A i \in 1..Len(b) : b[i] \in Frame
    BY LenProperties, ElementOfSeq
  <1> DEFINE d == Merged(b)
  <1>3. /\ d[0] = <<>> /\ \A i \in 0..Len(b) : d[i] \in Seq(Nat)
        /\ \A i \in 1..Len(b) : d[i] = d[i - 1] \o Bytes(b[i])
    BY <1>1, <1>2 DEF MergedFacts
  <1> HIDE DEF d
  <1>4. \A i \in 0..Len(b) : Len(d[i]) \in Nat
    BY <1>3, LenProperties
  <1>5. Len(d[0]) = 0
    BY <1>3, EmptySeq
  <1>6. ASSUME NEW i \in 1..Len(b)
        PROVE  /\ Len(d[i]) = Len(d[i - 1]) + b[i].length
               /\ b[i] \in Frame /\ b[i].offset \in Nat
               /\ b[i].length \in Nat /\ b[i].length > 0
    <2>1. i - 1 \in 0..Len(b)
      BY <1>2
    <2>2. d[i - 1] \in Seq(Nat) /\ d[i] = d[i - 1] \o Bytes(b[i]) /\ b[i] \in Frame
      BY <1>2, <1>3, <2>1
    <2>3. /\ Bytes(b[i]) \in Seq(Nat) /\ Len(Bytes(b[i])) = b[i].length
          /\ b[i].offset \in Nat /\ b[i].length \in Nat /\ b[i].length > 0
      BY <2>2, BytesType
    <2>4. Len(d[i]) = Len(d[i - 1]) + Len(Bytes(b[i]))
      BY <2>2, <2>3, ConcatProperties
    <2>5. QED BY <2>2, <2>3, <2>4
  <1>7. QED BY <1>2, <1>4, <1>5, <1>6 DEF SizeFacts, Size, d

\* Every item has bytes.
LEMMA SizeGrows ==
    ASSUME NEW b \in Seq(Frame), NEW i \in 0..Len(b), NEW j \in 0..Len(b), i < j
    PROVE  Size(b, i) < Size(b, j)
  <1>1. SizeFacts(b)
    BY SizeDef
  <1> DEFINE S == {k \in Nat : i + 1 + k <= Len(b) => Size(b, i) < Size(b, i + 1 + k)}
             P(k) == Size(b, k)
  <1>2. /\ Len(b) \in Nat /\ \A k \in 0..Len(b) : P(k) \in Nat
        /\ \A k \in 1..Len(b) : P(k) > P(k - 1)
    <2>1. /\ Len(b) \in Nat /\ \A k \in 0..Len(b) : P(k) \in Nat
          /\ \A k \in 1..Len(b) : P(k) = P(k - 1) + b[k].length
                                 /\ b[k].length \in Nat /\ b[k].length > 0
      BY <1>1 DEF SizeFacts
    <2> HIDE DEF P
    <2>2. ASSUME NEW k \in 1..Len(b)
          PROVE  P(k) > P(k - 1)
      <3>1. k - 1 \in 0..Len(b)
        BY <2>1
      <3>2. P(k - 1) \in Nat /\ P(k) = P(k - 1) + b[k].length /\ b[k].length \in Nat /\ b[k].length > 0
        BY <2>1, <3>1
      <3>3. QED BY <3>2
    <2>3. QED BY <2>1, <2>2
  <1>3. 0 \in S
    <2>1. i + 1 <= Len(b) => i + 1 \in 1..Len(b) /\ (i + 1) - 1 = i
      BY <1>2
    <2>2. QED BY <1>2, <2>1
  <1>4. ASSUME NEW k \in Nat, k \in S
        PROVE  k + 1 \in S
    <2> SUFFICES ASSUME i + 1 + (k + 1) <= Len(b)
                 PROVE  P(i) < P(i + 1 + (k + 1))
      OBVIOUS
    <2> DEFINE m == i + 1 + k
    <2>1. /\ m \in 0..Len(b) /\ m + 1 \in 1..Len(b) /\ (m + 1) - 1 = m
          /\ i + 1 + (k + 1) = m + 1
      BY <1>2
    <2>2. P(i) < P(m)
      BY <1>4, <2>1
    <2> HIDE DEF m, P
    <2>3. P(m + 1) > P(m) /\ P(i) \in Nat /\ P(m) \in Nat /\ P(m + 1) \in Nat
      BY <1>2, <2>1
    <2>4. QED BY <2>1, <2>2, <2>3
  <1>5. \A k \in Nat : k \in S
    <2> HIDE DEF S
    <2>1. QED BY <1>3, <1>4, Induction
  <1>6. (j - i) - 1 \in Nat /\ i + 1 + ((j - i) - 1) = j /\ j <= Len(b)
    BY <1>2
  <1>7. QED BY <1>5, <1>6

\* The m items of b after the p-th are those of c after the q-th.
SameRun(b, p, c, q, m) == \A i \in 1..m : c[q + i] = b[p + i]
SameSize(b, p, c, q, m) == Size(c, q + m) - Size(c, q) = Size(b, p + m) - Size(b, p)

\* The same run of m items has the same size in two lists.
LEMMA SizeOfRun ==
    ASSUME NEW b \in Seq(Frame), NEW c \in Seq(Frame), NEW p \in Nat, NEW q \in Nat,
           NEW m \in Nat, p + m <= Len(b), q + m <= Len(c),
           SameRun(b, p, c, q, m)
    PROVE  SameSize(b, p, c, q, m)
  <1>1. SizeFacts(b) /\ SizeFacts(c)
    BY SizeDef
  <1> DEFINE B(k) == Size(b, k)
             C(k) == Size(c, k)
             S == {k \in Nat : k <= m => C(q + k) - C(q) = B(p + k) - B(p)}
  <1>2. /\ Len(b) \in Nat /\ \A k \in 0..Len(b) : B(k) \in Nat
        /\ \A k \in 1..Len(b) : B(k) = B(k - 1) + b[k].length /\ b[k].length \in Nat
    BY <1>1 DEF SizeFacts
  <1>3. /\ Len(c) \in Nat /\ \A k \in 0..Len(c) : C(k) \in Nat
        /\ \A k \in 1..Len(c) : C(k) = C(k - 1) + c[k].length /\ c[k].length \in Nat
    BY <1>1 DEF SizeFacts
  <1> HIDE DEF B, C
  <1>4. 0 \in S
    <2>1. p \in 0..Len(b) /\ q \in 0..Len(c) /\ p + 0 = p /\ q + 0 = q
      BY <1>2, <1>3
    <2>2. QED BY <1>2, <1>3, <2>1
  <1>5. ASSUME NEW k \in Nat, k \in S
        PROVE  k + 1 \in S
    <2> SUFFICES ASSUME k + 1 <= m
                 PROVE  C(q + (k + 1)) - C(q) = B(p + (k + 1)) - B(p)
      OBVIOUS
    <2>1. C(q + k) - C(q) = B(p + k) - B(p)
      BY <1>5
    <2>2. /\ p + (k + 1) \in 1..Len(b) /\ (p + (k + 1)) - 1 = p + k
          /\ p + k \in 0..Len(b) /\ p \in 0..Len(b)
          /\ q + (k + 1) \in 1..Len(c) /\ (q + (k + 1)) - 1 = q + k
          /\ q + k \in 0..Len(c) /\ q \in 0..Len(c) /\ k + 1 \in 1..m
      BY <1>2, <1>3
    <2>3. /\ B(p + (k + 1)) = B(p + k) + b[p + (k + 1)].length
          /\ C(q + (k + 1)) = C(q + k) + c[q + (k + 1)].length
          /\ c[q + (k + 1)] = b[p + (k + 1)] /\ b[p + (k + 1)].length \in Nat
          /\ B(p + k) \in Nat /\ C(q + k) \in Nat /\ B(p) \in Nat /\ C(q) \in Nat
      BY <1>2, <1>3, <2>2 DEF SameRun
    <2>4. c[q + (k + 1)].length = b[p + (k + 1)].length
      BY <2>3
    <2> DEFINE l == b[p + (k + 1)].length
    <2>5. l \in Nat /\ B(p + (k + 1)) = B(p + k) + l /\ C(q + (k + 1)) = C(q + k) + l
      BY <2>3, <2>4
    <2> DEFINE B0 == B(p)
               B1 == B(p + k)
               B2 == B(p + (k + 1))
               C0 == C(q)
               C1 == C(q + k)
               C2 == C(q + (k + 1))
    <2> HIDE DEF l
    <2>6. /\ C1 - C0 = B1 - B0 /\ B2 = B1 + l /\ C2 = C1 + l
          /\ B0 \in Nat /\ B1 \in Nat /\ C0 \in Nat /\ C1 \in Nat
      BY <2>1, <2>3, <2>5
    <2> HIDE DEF B0, B1, B2, C0, C1, C2
    <2>7. C2 - C0 = B2 - B0
      BY <2>5, <2>6
    <2>8. QED BY <2>7 DEF B0, B2, C0, C2
  <1>6. \A k \in Nat : k \in S
    <2> HIDE DEF S
    <2>1. QED BY <1>4, <1>5, Induction
  <1>7. C(q + m) - C(q) = B(p + m) - B(p)
    BY <1>6
  <1>8. QED BY <1>7 DEF B, C, SameSize

\* Taking the first n items off a list takes their bytes off.
LEMMA DropFront ==
    ASSUME NEW b \in Seq(Frame), NEW n \in 0..Len(b)
    PROVE  LET c == SubSeq(b, n + 1, Len(b))
           IN  /\ c \in Seq(Frame) /\ Len(c) = Len(b) - n
               /\ \A i \in 1..(Len(b) - n) : c[i] = b[n + i]
               /\ Size(c, Len(c)) = Size(b, Len(b)) - Size(b, n)
  <1> DEFINE c == SubSeq(b, n + 1, Len(b))
  <1>1. Len(b) \in Nat /\ n \in Nat /\ n + 1 \in 1..(Len(b) + 1)
    BY LenProperties
  <1>2. /\ c \in Seq(Frame) /\ Len(c) = Len(b) - n
        /\ \A i \in 1..(Len(b) - n) : c[i] = b[n + i]
    BY <1>1, SubSeqProperties
  <1> HIDE DEF c
  <1>3. SameSize(b, n, c, 0, Len(b) - n)
    <2>1. SameRun(b, n, c, 0, Len(b) - n)
      BY <1>2 DEF SameRun
    <2>2. Len(b) - n \in Nat /\ n + (Len(b) - n) <= Len(b) /\ 0 + (Len(b) - n) <= Len(c) /\ 0 \in Nat
      BY <1>1, <1>2
    <2>3. QED BY <1>1, <1>2, <2>1, <2>2, SizeOfRun, Zenon
  <1>4. Size(c, 0) = 0 /\ Size(c, Len(c)) \in Nat
    <2>1. SizeFacts(c)
      BY <1>2, SizeDef
    <2>2. QED BY <2>1 DEF SizeFacts
  <1>5. 0 + (Len(b) - n) = Len(c) /\ n + (Len(b) - n) = Len(b)
    BY <1>1, <1>2
  <1>6. Size(c, Len(c)) - 0 = Size(b, Len(b)) - Size(b, n)
    BY <1>3, <1>4, <1>5 DEF SameSize
  <1>7. QED BY <1>2, <1>4, <1>6 DEF c

\* Inserting an item adds its bytes.
Insertion(b, p, f, c) ==
    /\ c \in Seq(Frame) /\ Len(c) = Len(b) + 1 /\ c[p] = f
    /\ \A i \in 1..(p - 1) : c[i] = b[i]
    /\ \A i \in p..Len(b) : c[i + 1] = b[i]
    /\ Size(c, Len(c)) = Size(b, Len(b)) + f.length

\* What InsertAt makes of the buffer.
LEMMA InsertOne ==
    ASSUME NEW b \in Seq(Frame), NEW p \in 1..(Len(b) + 1), NEW f \in Frame
    PROVE  Insertion(b, p, f, InsertAt(b, p, f))
  <1> DEFINE c == InsertAt(b, p, f)
             n == Len(b)
             s == SubSeq(b, 1, p - 1)
             t == SubSeq(b, p, n)
             u == s \o <<f>>
  <1>1. n \in Nat /\ p \in Nat /\ p >= 1 /\ p <= n + 1
    BY LenProperties
  <1>2. s \in Seq(Frame) /\ Len(s) = p - 1 /\ \A i \in 1..(p - 1) : s[i] = b[i]
    BY <1>1, SubSeqProperties
  <1>3. t \in Seq(Frame) /\ Len(t) = n - p + 1 /\ \A i \in 1..(n - p + 1) : t[i] = b[p + i - 1]
    BY <1>1, SubSeqProperties
  <1>4. <<f>> \in Seq(Frame) /\ Len(<<f>>) = 1 /\ <<f>>[1] = f
    OBVIOUS
  <1>5. c = u \o t
    BY DEF InsertAt
  <1> HIDE DEF c, s, t, n
  <1>6. u \in Seq(Frame) /\ Len(u) = p /\ u[p] = f /\ \A i \in 1..(p - 1) : u[i] = b[i]
    <2>1. /\ u \in Seq(Frame) /\ Len(u) = Len(s) + 1
          /\ \A i \in 1..(Len(s) + Len(<<f>>)) :
                u[i] = IF i <= Len(s) THEN s[i] ELSE <<f>>[i - Len(s)]
      BY <1>2, <1>4, ConcatProperties
    <2> HIDE DEF u
    <2>2. Len(u) = p /\ p \in 1..(Len(s) + Len(<<f>>)) /\ p - Len(s) = 1 /\ ~(p <= Len(s))
      BY <1>1, <1>2, <1>4, <2>1
    <2>3. u[p] = f
      BY <1>4, <2>1, <2>2
    <2>4. \A i \in 1..(p - 1) : u[i] = b[i]
      BY <1>1, <1>2, <1>4, <2>1
    <2>5. QED BY <2>1, <2>2, <2>3, <2>4
  <1> HIDE DEF u
  <1>7. /\ c \in Seq(Frame) /\ Len(c) = n + 1
        /\ \A i \in 1..p : c[i] = u[i]
        /\ \A i \in 1..(n - p + 1) : c[p + i] = t[i]
    <2>1. /\ c \in Seq(Frame) /\ Len(c) = Len(u) + Len(t)
          /\ \A i \in 1..(Len(u) + Len(t)) :
                c[i] = IF i <= Len(u) THEN u[i] ELSE t[i - Len(u)]
      BY <1>3, <1>5, <1>6, ConcatProperties
    <2>2. Len(c) = n + 1 /\ Len(u) + Len(t) = n + 1
      BY <1>1, <1>3, <1>6, <2>1
    <2>3. \A i \in 1..p : c[i] = u[i]
      BY <1>1, <1>6, <2>1, <2>2
    <2>4. ASSUME NEW i \in 1..(n - p + 1)
          PROVE  c[p + i] = t[i]
      <3>1. p + i \in 1..(Len(u) + Len(t)) /\ ~(p + i <= Len(u)) /\ (p + i) - Len(u) = i
        BY <1>1, <1>6, <2>2
      <3>2. QED BY <2>1, <3>1
    <2>5. QED BY <2>1, <2>2, <2>3, <2>4
  <1>8. c[p] = f /\ \A i \in 1..(p - 1) : c[i] = b[i]
    BY <1>1, <1>6, <1>7
  <1>9. ASSUME NEW i \in p..n
        PROVE  c[i + 1] = b[i]
    <2>1. i - p + 1 \in 1..(n - p + 1) /\ p + (i - p + 1) = i + 1 /\ p + (i - p + 1) - 1 = i
      BY <1>1
    <2>2. QED BY <1>3, <1>7, <2>1
  <1>10. SameSize(b, 0, c, 0, p - 1)
    <2>1. SameRun(b, 0, c, 0, p - 1)
      BY <1>1, <1>8 DEF SameRun
    <2>2. p - 1 \in Nat /\ 0 + (p - 1) <= Len(b) /\ 0 + (p - 1) <= Len(c) /\ 0 \in Nat
      BY <1>1, <1>7 DEF n
    <2>3. QED BY <1>7, <2>1, <2>2, SizeOfRun, Zenon
  <1>11. SameSize(b, p - 1, c, p, n - p + 1)
    <2>1. SameRun(b, p - 1, c, p, n - p + 1)
      <3>1. ASSUME NEW i \in 1..(n - p + 1)
            PROVE  c[p + i] = b[(p - 1) + i]
        <4>1. (p - 1) + i \in p..n /\ ((p - 1) + i) + 1 = p + i
          BY <1>1
        <4>2. QED BY <1>9, <4>1
      <3>2. QED BY <3>1 DEF SameRun
    <2>2. /\ p - 1 \in Nat /\ p \in Nat /\ n - p + 1 \in Nat
          /\ (p - 1) + (n - p + 1) <= Len(b) /\ p + (n - p + 1) <= Len(c)
      BY <1>1, <1>7 DEF n
    <2>3. QED BY <1>7, <2>1, <2>2, SizeOfRun, Zenon
  <1>12. /\ Size(b, 0) = 0 /\ Size(c, 0) = 0 /\ Size(c, p) = Size(c, p - 1) + f.length
         /\ Size(b, p - 1) \in Nat /\ Size(b, n) \in Nat /\ Size(c, n + 1) \in Nat
         /\ Size(c, p - 1) \in Nat /\ f.length \in Nat
    <2>1. SizeFacts(b) /\ SizeFacts(c)
      BY <1>7, SizeDef
    <2>2. p - 1 \in 0..Len(b) /\ p - 1 \in 0..Len(c) /\ p \in 1..Len(c)
          /\ n \in 0..Len(b) /\ n + 1 \in 0..Len(c)
      BY <1>1, <1>7 DEF n
    <2>3. QED BY <1>8, <2>1, <2>2 DEF SizeFacts
  <1>13. Size(c, p - 1) = Size(b, p - 1)
    <2>1. 0 + (p - 1) = p - 1
      BY <1>1
    <2>2. QED BY <1>10, <1>12, <2>1 DEF SameSize
  <1>14. Size(c, n + 1) - Size(c, p) = Size(b, n) - Size(b, p - 1)
    <2>1. p + (n - p + 1) = n + 1 /\ (p - 1) + (n - p + 1) = n
      BY <1>1
    <2>2. QED BY <1>11, <2>1 DEF SameSize
  <1>15. Size(c, n + 1) = Size(b, n) + f.length
    BY <1>12, <1>13, <1>14
  <1>16. QED BY <1>7, <1>8, <1>9, <1>15 DEF Insertion, c, n

-----------------------------------------------------------------------------
\* The loop of GetDeliverable, from offset o on.
RunFacts(L, o) ==
    /\ L \in [0..Len(buffer) -> Nat]
    /\ L[0] = 0
    /\ \A i \in 1..Len(buffer) :
          L[i] = IF buffer[i].offset = o + L[i - 1] THEN L[i - 1] + buffer[i].length
                                                    ELSE L[i - 1]
    /\ GetDeliverable(o) = L[Len(buffer)]

\* The recursive function that GetDeliverable walks the buffer with exists.
LEMMA DeliverableDef ==
    ASSUME buffer \in Seq(Frame), NEW o \in Nat
    PROVE  \E L : RunFacts(L, o)
  <1> DEFINE n == Len(buffer)
             b == buffer
             E(v, i) == IF b[i].offset = o + v THEN v + b[i].length ELSE v
             step == [w \in Nat \X (1..n) |-> E(w[1], w[2])]
             Eq(f) == f = [i \in 0..n |-> IF i = 0 THEN 0 ELSE E(f[i - 1], i)]
  <1>1. n \in Nat /\ \A i \in 1..n : b[i].length \in Nat
    <2>1. SizeFacts(buffer)
      BY SizeDef
    <2>2. QED BY <2>1 DEF SizeFacts
  <1>2. \A v \in Nat, i \in 1..n : E(v, i) \in Nat
    BY <1>1
  <1> HIDE DEF n, b, E
  <1>3. \A v \in Nat, i \in 1..n : step[<<v, i>>] = E(v, i)
    OBVIOUS
  <1>4. step \in [Nat \X (1..n) -> Nat]
    BY <1>2
  <1> HIDE DEF step
  <1>5. PICK f \in [0..n -> Nat] : Recursive(f, n, 0, step)
    <2>1. 0 \in Nat
      OBVIOUS
    <2>2. QED BY <1>1, <1>4, <2>1, RecursionExists
  <1>6. Eq(f)
    <2>1. \A i \in 0..n : i # 0 => step[<<f[i - 1], i>>] = E(f[i - 1], i)
      <3>1. ASSUME NEW i \in 0..n, i # 0
            PROVE  i \in 1..n /\ i - 1 \in 0..n
        BY <1>1, <3>1
      <3>2. \A j \in 0..n : f[j] \in Nat
        BY <1>5
      <3>3. QED BY <1>3, <3>1, <3>2, Zenon
    <2>2. QED BY <1>5, <2>1 DEF Recursive
  <1> DEFINE g == CHOOSE h : Eq(h)
  <1>7. Eq(g)
    BY <1>6
  <1>8. GetDeliverable(o) = g[n]
    BY DEF GetDeliverable, n, b, E
  <1> HIDE DEF g
  <1>9. g[0] = 0 /\ \A i \in 1..n : g[i] = E(g[i - 1], i)
    BY <1>1, <1>7
  <1> DEFINE S == {k \in Nat : k <= n => g[k] \in Nat}
  <1>10. 0 \in S
    BY <1>9
  <1>11. ASSUME NEW k \in Nat, k \in S
         PROVE  k + 1 \in S
    <2> SUFFICES ASSUME k + 1 <= n
                 PROVE  g[k + 1] \in Nat
      OBVIOUS
    <2>1. g[k] \in Nat /\ k + 1 \in 1..n /\ (k + 1) - 1 = k
      BY <1>1, <1>11
    <2>2. g[k + 1] = E(g[k], k + 1)
      BY <1>9, <2>1
    <2>3. QED BY <1>2, <2>1, <2>2
  <1>12. \A k \in Nat : k \in S
    <2> HIDE DEF S
    <2>1. QED BY <1>10, <1>11, Induction
  <1>13. g \in [0..n -> Nat]
    <2>1. \A i \in 0..n : g[i] \in Nat
      <3>1. \A i \in 0..n : i \in Nat /\ i <= n
        BY <1>1
      <3>2. \A k \in Nat : k <= n => g[k] \in Nat
        BY <1>12
      <3>3. QED BY <3>1, <3>2
    <2>2. DOMAIN g = 0..n /\ g = [i \in DOMAIN g |-> g[i]]
      BY <1>7
    <2>3. QED BY <2>1, <2>2
  <1>14. RunFacts(g, o)
    BY <1>8, <1>9, <1>13 DEF RunFacts, E, n, b
  <1>15. QED BY <1>14

\* GetDeliverable does not count beyond the end of the last item.
LEMMA DeliverableBound ==
    ASSUME buffer \in Seq(Frame), NEW o \in Nat, NEW m \in Nat, o <= m,
           \A i \in 1..Len(buffer) : buffer[i].offset + buffer[i].length <= m
    PROVE  GetDeliverable(o) \in Nat /\ o + GetDeliverable(o) <= m
  <1>1. PICK L : RunFacts(L, o)
    BY DeliverableDef
  <1> DEFINE n == Len(buffer)
             S == {k \in Nat : k <= n => o + L[k] <= m}
  <1>2. /\ n \in Nat /\ \A i \in 0..n : L[i] \in Nat
        /\ L[0] = 0 /\ GetDeliverable(o) = L[n]
    BY <1>1, LenProperties DEF RunFacts
  <1>3. 0 \in S
    BY <1>2
  <1>4. ASSUME NEW k \in Nat, k \in S
        PROVE  k + 1 \in S
    <2> SUFFICES ASSUME k + 1 <= n
                 PROVE  o + L[k + 1] <= m
      OBVIOUS
    <2>1. k \in 0..n /\ k + 1 \in 1..n /\ (k + 1) - 1 = k /\ o + L[k] <= m /\ L[k] \in Nat
      BY <1>2, <1>4
    <2>2. L[k + 1] = IF buffer[k + 1].offset = o + L[k] THEN L[k] + buffer[k + 1].length
                                                        ELSE L[k]
      BY <1>1, <2>1 DEF RunFacts
    <2>3. buffer[k + 1].offset + buffer[k + 1].length <= m /\ buffer[k + 1].length \in Nat
      <3>1. SizeFacts(buffer)
        BY SizeDef
      <3>2. QED BY <2>1, <3>1 DEF SizeFacts
    <2>4. QED BY <2>1, <2>2, <2>3
  <1>5. \A k \in Nat : k \in S
    <2> HIDE DEF S
    <2>1. QED BY <1>3, <1>4, Induction
  <1>6. o + L[n] <= m /\ L[n] \in Nat
    BY <1>2, <1>5
  <1>7. QED BY <1>2, <1>6

\* The first k items continue the stream from offset o, the others are behind a gap.
Continues(k, o) ==
    /\ k \in 0..Len(buffer)
    /\ \A j \in 1..k : buffer[j].offset = o + Size(buffer, j - 1)
    /\ \A j \in (k + 1)..Len(buffer) : buffer[j].offset > o + Size(buffer, k)

\* In a sorted list without overlaps, GetDeliverable counts a run at the front.
LEMMA DeliverableRun ==
    ASSUME buffer \in Seq(Frame), NEW o \in Nat,
           \A i \in 1..Len(buffer) : buffer[i].offset >= o,
           \A i, j \in 1..Len(buffer) :
               i < j => buffer[i].offset + buffer[i].length <= buffer[j].offset
    PROVE  \E k : Continues(k, o) /\ GetDeliverable(o) = Size(buffer, k)
  <1>1. PICK L : RunFacts(L, o)
    BY DeliverableDef
  <1> DEFINE n == Len(buffer)
             off(i) == buffer[i].offset
             len(i) == buffer[i].length
             P(i) == Size(buffer, i)
             Q(k, i) == /\ k \in 0..i
                        /\ \A j \in 1..k : off(j) = o + P(j - 1)
                        /\ L[i] = P(k)
                        /\ \A j \in (k + 1)..i : off(j) > o + P(k)
             S == {i \in Nat : i <= n => \E k \in Nat : Q(k, i)}
  <1>2. /\ n \in Nat /\ L[0] = 0 /\ GetDeliverable(o) = L[n]
        /\ \A i \in 1..n : L[i] = IF off(i) = o + L[i - 1] THEN L[i - 1] + len(i) ELSE L[i - 1]
    BY <1>1, LenProperties DEF RunFacts
  <1>3. /\ P(0) = 0 /\ \A i \in 0..n : P(i) \in Nat
        /\ \A i \in 1..n : /\ P(i) = P(i - 1) + len(i)
                           /\ off(i) \in Nat /\ len(i) \in Nat /\ len(i) > 0
    <2>1. SizeFacts(buffer)
      BY SizeDef
    <2>2. QED BY <2>1 DEF SizeFacts
  <1>4. /\ \A i \in 1..n : off(i) >= o
        /\ \A i, j \in 1..n : i < j => off(i) + len(i) <= off(j)
    OBVIOUS
  <1> HIDE DEF n, off, len, P
  <1>5. 0 \in S
    <2>1. Q(0, 0)
      BY <1>2, <1>3
    <2>2. QED BY <2>1
  <1>6. ASSUME NEW i \in Nat, i \in S
        PROVE  i + 1 \in S
    <2> SUFFICES ASSUME i + 1 <= n
                 PROVE  \E k \in Nat : Q(k, i + 1)
      OBVIOUS
    <2>1. PICK k \in Nat : Q(k, i)
      BY <1>2, <1>6
    <2>2. /\ i + 1 \in 1..n /\ (i + 1) - 1 = i /\ k <= i /\ k \in 0..n
          /\ P(k) \in Nat /\ off(i + 1) \in Nat
      BY <1>2, <1>3, <2>1
    <2>3. L[i + 1] = IF off(i + 1) = o + P(k) THEN P(k) + len(i + 1) ELSE P(k)
      BY <1>2, <2>1, <2>2
    \* The next item does not begin before the run ends.
    <2>4. off(i + 1) >= o + P(k)
      <3>1. CASE k = 0
        BY <1>3, <1>4, <2>2, <3>1
      <3>2. CASE k # 0
        <4>1. k \in 1..n /\ k < i + 1 /\ k \in 1..k
          BY <1>2, <2>2, <3>2
        <4>2. off(k) = o + P(k - 1) /\ P(k) = P(k - 1) + len(k)
          BY <1>3, <2>1, <4>1
        <4>3. off(k) + len(k) <= off(i + 1)
          BY <1>4, <2>2, <4>1
        <4>4. k - 1 \in 0..n
          BY <1>2, <4>1
        <4>5. P(k - 1) \in Nat /\ len(k) \in Nat
          BY <1>3, <4>1, <4>4
        <4>6. QED BY <4>2, <4>3, <4>5
      <3>3. QED BY <3>1, <3>2
    <2>5. CASE k = i /\ off(i + 1) = o + P(k)
      <3>1. L[i + 1] = P(i + 1)
        BY <1>3, <2>2, <2>3, <2>5
      <3>2. ASSUME NEW j \in 1..(i + 1)
            PROVE  off(j) = o + P(j - 1)
        <4>1. CASE j = i + 1
          BY <2>2, <2>5, <4>1
        <4>2. CASE j # i + 1
          BY <2>1, <2>2, <2>5, <4>2
        <4>3. QED BY <4>1, <4>2
      <3>3. i + 1 \in 0..(i + 1) /\ i + 1 \in Nat /\ \A j \in ((i + 1) + 1)..(i + 1) : FALSE
        OBVIOUS
      <3>4. Q(i + 1, i + 1)
        BY <3>1, <3>2, <3>3
      <3>5. QED BY <3>3, <3>4
    <2>6. CASE ~(k = i /\ off(i + 1) = o + P(k))
      <3>1. off(i + 1) > o + P(k)
        <4>1. CASE k = i
          BY <2>2, <2>4, <2>6, <4>1
        <4>2. CASE k < i
          <5>1. i \in (k + 1)..i /\ i \in 1..n /\ i < i + 1
            BY <1>2, <2>2, <4>2
          <5>2. off(i) > o + P(k) /\ off(i) + len(i) <= off(i + 1)
                /\ off(i) \in Nat /\ len(i) \in Nat
            BY <1>3, <1>4, <2>1, <2>2, <5>1
          <5>3. QED BY <2>2, <5>2
        <4>3. QED BY <2>2, <4>1, <4>2
      <3>2. L[i + 1] = P(k)
        BY <2>2, <2>3, <3>1
      <3>3. ASSUME NEW j \in (k + 1)..(i + 1)
            PROVE  off(j) > o + P(k)
        <4>1. CASE j = i + 1
          BY <3>1, <4>1
        <4>2. CASE j # i + 1
          BY <2>1, <2>2, <4>2
        <4>3. QED BY <4>1, <4>2
      <3>4. k \in 0..(i + 1) /\ \A j \in 1..k : off(j) = o + P(j - 1)
        BY <2>1, <2>2
      <3>5. Q(k, i + 1)
        BY <3>2, <3>3, <3>4
      <3>6. QED BY <3>5
    <2>7. QED BY <2>5, <2>6
  <1>7. n \in S
    <2> HIDE DEF S
    <2>1. QED BY <1>2, <1>5, <1>6, Induction
  <1>8. PICK k \in Nat : Q(k, n)
    BY <1>2, <1>7
  <1>9. Continues(k, o) /\ GetDeliverable(o) = Size(buffer, k)
    BY <1>2, <1>8 DEF Continues, n, off, P
  <1>10. QED BY <1>9

\* Extract takes as many items as fit.
LEMMA ExtractedFits ==
    ASSUME buffer \in Seq(Frame), NEW m \in Nat
    PROVE  /\ Extracted(m) \in 0..Len(buffer)
           /\ Size(buffer, Extracted(m)) <= m
           /\ Extracted(m) < Len(buffer) => Size(buffer, Extracted(m) + 1) > m
  <1> DEFINE n == Len(buffer)
             P(i) == Size(buffer, i)
             Below(i) == P(i) <= m /\ (i < n => P(i + 1) > m)
             S == {i \in Nat : i <= n => P(i) <= m}
  <1>1. n \in Nat /\ P(0) = 0 /\ \A i \in 0..n : P(i) \in Nat
    <2>1. SizeFacts(buffer)
      BY SizeDef
    <2>2. QED BY <2>1 DEF SizeFacts
  <1>2. Extracted(m) = CHOOSE i \in 0..n : Below(i)
    BY DEF Extracted, Size
  <1> HIDE DEF n, P
  <1>3. \E i \in 0..n : Below(i)
    <2> SUFFICES ASSUME \A i \in 0..n : ~Below(i)
                 PROVE  FALSE
      OBVIOUS
    <2>1. 0 \in S
      BY <1>1
    <2>2. ASSUME NEW i \in Nat, i \in S
          PROVE  i + 1 \in S
      <3> SUFFICES ASSUME i + 1 <= n
                   PROVE  P(i + 1) <= m
        OBVIOUS
      <3>1. i \in 0..n /\ i < n /\ P(i) <= m /\ i + 1 \in 0..n
        BY <1>1, <2>2
      <3>2. ~(P(i + 1) > m) /\ P(i + 1) \in Nat
        BY <1>1, <3>1
      <3>3. QED BY <3>2
    <2>3. n \in S
      <3> HIDE DEF S
      <3>1. QED BY <1>1, <2>1, <2>2, Induction
    <2>4. Below(n) /\ n \in 0..n
      BY <1>1, <2>3
    <2>5. QED BY <2>4
  <1>4. Extracted(m) \in 0..n /\ Below(Extracted(m))
    <2> HIDE DEF Below
    <2>1. QED BY <1>2, <1>3
  <1>5. QED BY <1>4 DEF n, P

\* If the size of the first k items is asked for, those are taken.
LEMMA ExtractedRun ==
    ASSUME buffer \in Seq(Frame), NEW k \in 0..Len(buffer)
    PROVE  Extracted(Size(buffer, k)) = k
  <1> DEFINE m == Size(buffer, k)
             x == Extracted(m)
  <1>1. Len(buffer) \in Nat /\ \A i \in 0..Len(buffer) : Size(buffer, i) \in Nat
    <2>1. SizeFacts(buffer)
      BY SizeDef
    <2>2. QED BY <2>1 DEF SizeFacts
  <1>2. /\ x \in 0..Len(buffer) /\ Size(buffer, x) <= m
        /\ x < Len(buffer) => Size(buffer, x + 1) > m
    BY <1>1, ExtractedFits
  <1> HIDE DEF x
  <1>3. ~(k < x)
    <2>1. k < x => m < Size(buffer, x)
      BY <1>2, SizeGrows
    <2>2. QED BY <1>1, <1>2, <2>1
  <1>4. ~(x < k)
    <2> SUFFICES ASSUME x < k PROVE FALSE
      OBVIOUS
    <2>1. x < Len(buffer) /\ x + 1 \in 0..Len(buffer) /\ (x + 1 = k \/ x + 1 < k)
      BY <1>1, <1>2
    <2>2. x + 1 < k => Size(buffer, x + 1) < m
      BY <2>1, SizeGrows
    <2>3. QED BY <1>1, <1>2, <2>1, <2>2
  <1>5. x = k
    BY <1>1, <1>2, <1>3, <1>4
  <1>6. QED BY <1>5 DEF x

\* Items that continue the stream give its bytes in order.
LEMMA MergedRun ==
    ASSUME buffer \in Seq(Frame), NEW o \in Nat, NEW k, Continues(k, o)
    PROVE  /\ Merged(buffer)[k] \in Seq(Nat)
           /\ \A m \in 1..Size(buffer, k) : Merged(buffer)[k][m] = o + m - 1
  <1> DEFINE n == Len(buffer)
             d == Merged(buffer)
             T(i) == \A m \in 1..Len(d[i]) : d[i][m] = o + m - 1
             S == {i \in Nat : i <= k => T(i)}
  <1>1. k \in 0..n /\ n \in Nat /\ \A j \in 1..k : buffer[j].offset = o + Len(d[j - 1])
    BY LenProperties DEF Continues, Size
  <1>2. /\ d[0] = <<>> /\ \A i \in 0..n : d[i] \in Seq(Nat)
        /\ \A i \in 1..n : d[i] = d[i - 1] \o Bytes(buffer[i])
    <2>1. MergedFacts(buffer)
      BY MergedDef
    <2>2. QED BY <1>1, <2>1 DEF MergedFacts
  <1> HIDE DEF d
  <1>3. 0 \in S
    BY <1>2, EmptySeq
  <1>4. ASSUME NEW i \in Nat, i \in S
        PROVE  i + 1 \in S
    <2> SUFFICES ASSUME i + 1 <= k
                 PROVE  T(i + 1)
      <3> HIDE DEF T
      <3>1. QED OBVIOUS
    <2> SUFFICES ASSUME NEW m \in 1..Len(d[i + 1])
                 PROVE  d[i + 1][m] = o + m - 1
      OBVIOUS
    <2> DEFINE f == buffer[i + 1]
               s == d[i]
    <2>1. i + 1 \in 1..n /\ i + 1 \in 1..k /\ (i + 1) - 1 = i /\ i \in 0..n
      BY <1>1
    <2>2. f \in Frame /\ f.offset = o + Len(s) /\ d[i + 1] = s \o Bytes(f) /\ s \in Seq(Nat)
      BY <1>1, <1>2, <2>1, ElementOfSeq
    <2>3. \A l \in 1..Len(s) : s[l] = o + l - 1
      <3>1. T(i)
        <4> HIDE DEF T
        <4>1. QED BY <1>1, <1>4, <2>1
      <3>2. QED BY <3>1
    <2> HIDE DEF f, s
    <2>4. /\ Bytes(f) \in Seq(Nat) /\ Len(Bytes(f)) = f.length /\ f.length \in Nat
          /\ \A l \in 1..f.length : Bytes(f)[l] = f.offset + l - 1
      BY <2>2, BytesType
    <2>5. /\ Len(d[i + 1]) = Len(s) + Len(Bytes(f)) /\ Len(s) \in Nat
          /\ \A l \in 1..(Len(s) + Len(Bytes(f))) :
                d[i + 1][l] = IF l <= Len(s) THEN s[l] ELSE Bytes(f)[l - Len(s)]
      <3>1. Len(s) \in Nat
        BY <2>2, LenProperties
      <3> DEFINE B == Bytes(f)
      <3>2. B \in Seq(Nat)
        BY <2>4
      <3> HIDE DEF B
      <3>3. /\ Len(s \o B) = Len(s) + Len(B)
            /\ \A l \in 1..(Len(s) + Len(B)) :
                  (s \o B)[l] = IF l <= Len(s) THEN s[l] ELSE B[l - Len(s)]
        BY <2>2, <3>2, ConcatProperties
      <3>4. QED BY <2>2, <3>1, <3>3 DEF B
    <2>6. CASE m <= Len(s)
      BY <2>3, <2>5, <2>6
    <2>7. CASE ~(m <= Len(s))
      <3>1. m - Len(s) \in 1..f.length /\ m \in 1..(Len(s) + Len(Bytes(f)))
        BY <2>4, <2>5, <2>7
      <3>2. d[i + 1][m] = f.offset + (m - Len(s)) - 1
        BY <2>4, <2>5, <2>7, <3>1
      <3>3. QED BY <2>2, <2>5, <3>1, <3>2
    <2>8. QED BY <2>6, <2>7
  <1>5. \A i \in Nat : i \in S
    <2> HIDE DEF S
    <2>1. QED BY <1>3, <1>4, Induction
  <1>6. d[k] \in Seq(Nat) /\ T(k)
    <2> HIDE DEF T
    <2>1. QED BY <1>1, <1>2, <1>5
  <1>7. QED BY <1>6 DEF Size, d

\* The merged items consist of the bytes of the items.
LEMMA MergedIn ==
    ASSUME NEW b \in Seq(Frame), NEW B, \A i \in 1..Len(b) : Bytes(b[i]) \in Seq(B)
    PROVE  \A i \in 0..Len(b) : Merged(b)[i] \in Seq(B)
  <1> DEFINE d == Merged(b)
             S == {i \in Nat : i <= Len(b) => d[i] \in Seq(B)}
  <1>1. Len(b) \in Nat /\ d[0] = <<>> /\ \A i \in 1..Len(b) : d[i] = d[i - 1] \o Bytes(b[i])
    BY MergedDef, LenProperties DEF MergedFacts
  <1> HIDE DEF d
  <1>2. 0 \in S
    <2>1. <<>> \in Seq(B)
      OBVIOUS
    <2>2. d[0] \in Seq(B)
      BY <1>1, <2>1
    <2>3. QED BY <2>2
  <1>3. ASSUME NEW i \in Nat, i \in S
        PROVE  i + 1 \in S
    <2> SUFFICES ASSUME i + 1 <= Len(b)
                 PROVE  d[i + 1] \in Seq(B)
      OBVIOUS
    <2>1. i + 1 \in 1..Len(b) /\ (i + 1) - 1 = i /\ d[i] \in Seq(B)
      BY <1>1, <1>3
    <2>2. d[i + 1] = d[i] \o Bytes(b[i + 1]) /\ Bytes(b[i + 1]) \in Seq(B)
      BY <1>1, <2>1
    <2>3. QED BY <2>1, <2>2, ConcatProperties
  <1>4. \A i \in Nat : i \in S
    <2> HIDE DEF S
    <2>1. QED BY <1>2, <1>3, Induction
  <1>5. QED BY <1>1, <1>4 DEF d

-----------------------------------------------------------------------------
\* What StreamInv says of the peer's frames and of the buffer.
LEMMA FrameFacts ==
    ASSUME TypeOK, CutInv, BufferInv
    PROVE  /\ \A f \in frames : /\ f \in Frame /\ f.offset \in Nat
                                /\ f.length \in Nat /\ f.length > 0
                                /\ f.offset + f.length <= sentSize
           /\ Len(buffer) \in Nat
           /\ \A i \in 1..Len(buffer) : buffer[i] \in frames
           /\ \A i, j \in 1..Len(buffer) :
                 i < j => buffer[i].offset + buffer[i].length <= buffer[j].offset
           /\ sentSize \in Nat /\ sentSize <= StreamBytes /\ recvSize \in Nat
           /\ recvSize <= sentSize /\ numBytes \in Nat /\ numBytes <= MaxBuffer
           /\ StreamBytes \in Nat /\ MaxBuffer \in Nat
  <1>1. StreamBytes \in Nat /\ MaxBuffer \in Nat
    BY ReceiveAssumption
  <1>2. /\ frames \subseteq Frame /\ received \subseteq frames /\ buffer \in Seq(Frame)
        /\ sentSize \in 0..StreamBytes /\ recvSize \in Nat /\ numBytes \in 0..MaxBuffer
    BY DEF TypeOK
  <1>3. ASSUME NEW f \in frames
        PROVE  /\ f \in Frame /\ f.offset \in Nat /\ f.length \in Nat /\ f.length > 0
               /\ f.offset + f.length <= sentSize
    <2>1. f \in Frame /\ f.offset + f.length <= sentSize
      BY <1>2 DEF CutInv
    <2>2. QED BY <2>1, BytesType
  <1>4. Len(buffer) \in Nat /\ \A i \in 1..Len(buffer) : buffer[i] \in frames
    BY <1>2, LenProperties DEF BufferInv
  <1>5. ASSUME NEW i \in 1..Len(buffer), NEW j \in 1..Len(buffer), i < j
        PROVE  buffer[i].offset + buffer[i].length <= buffer[j].offset
    <2>1. buffer[i] \in frames /\ buffer[j] \in frames /\ buffer[i].offset < buffer[j].offset
      BY <1>4, <1>5 DEF BufferInv
    <2>2. \/ buffer[i].offset + buffer[i].length <= buffer[j].offset
          \/ buffer[j].offset + buffer[j].length <= buffer[i].offset
          \/ buffer[i] = buffer[j]
      BY <2>1 DEF CutInv
    <2>3. /\ buffer[i].offset \in Nat /\ buffer[i].length \in Nat
          /\ buffer[j].offset \in Nat /\ buffer[j].length \in Nat
      BY <1>3, <2>1
    <2>4. buffer[i].offset # buffer[j].offset
      BY <2>1, <2>3
    <2>5. QED BY <2>1, <2>2, <2>3, <2>4
  <1>6. recvSize <= sentSize
    BY DEF BufferInv
  <1>7. QED BY <1>1, <1>2, <1>3, <1>4, <1>5, <1>6

\* A frame's bytes lie within the stream.
LEMMA BytesIn ==
    ASSUME TypeOK, CutInv, BufferInv, NEW f \in frames
    PROVE  Bytes(f) \in Seq(0..(StreamBytes - 1))
  <1>1. /\ f \in Frame /\ f.offset \in Nat /\ f.length \in Nat /\ f.offset + f.length <= sentSize
        /\ sentSize \in Nat /\ sentSize <= StreamBytes /\ StreamBytes \in Nat
    BY FrameFacts
  <1>2. \A i \in 1..f.length : f.offset + i - 1 \in 0..(StreamBytes - 1)
    BY <1>1
  <1>3. Bytes(f) \in [1..f.length -> 0..(StreamBytes - 1)]
    BY <1>2 DEF Bytes
  <1>4. QED BY <1>1, <1>3, SeqDef

\* The peer sends the next frame of its stream.
LEMMA SendKeeps ==
    ASSUME StreamInv, NEW length \in FrameSizes, SendDataFrame(length)
    PROVE  StreamInv'
  <1> DEFINE g == [offset |-> sentSize, length |-> length]
  <1>1. TypeOK /\ CutInv /\ BufferInv /\ PassedInv
    BY DEF StreamInv
  <1>2. /\ frames' = frames \cup {g} /\ sentSize' = sentSize + length
        /\ sentSize + length <= StreamBytes
        /\ UNCHANGED <<received, recvSize, buffer, numBytes, maxAdvertised, handed, aborted, stale>>
    BY DEF SendDataFrame
  <1>3. length \in Nat /\ length # 0
    BY ReceiveAssumption, Zenon
  <1>4. /\ sentSize \in Nat /\ recvSize \in Nat /\ recvSize <= sentSize /\ StreamBytes \in Nat
        /\ sentSize <= StreamBytes
        /\ \A f \in frames : /\ f.offset \in Nat /\ f.length \in Nat /\ f.length > 0
                             /\ f.offset + f.length <= sentSize
    BY <1>1, FrameFacts
  <1>5. g \in Frame /\ g.offset = sentSize /\ g.length = length
    BY <1>4 DEF Frame
  <1> HIDE DEF g
  <1>6. \A m : Edge(m) => Edge(m)'
    BY <1>2, <1>5 DEF Edge
  <1>7. TypeOK'
    BY <1>1, <1>2, <1>3, <1>4, <1>5 DEF TypeOK
  <1>8. CutInv'
    <2>1. ASSUME NEW f \in frames'
          PROVE  f.offset + f.length <= sentSize' /\ Edge(f.offset + f.length)'
      <3>1. CASE f \in frames
        BY <1>1, <1>2, <1>3, <1>4, <1>6, <3>1 DEF CutInv
      <3>2. CASE f = g
        BY <1>2, <1>3, <1>4, <1>5, <3>2 DEF Edge
      <3>3. QED BY <1>2, <3>1, <3>2
    <2>2. ASSUME NEW f \in frames', NEW h \in frames'
          PROVE  \/ f = h
                 \/ f.offset + f.length <= h.offset
                 \/ h.offset + h.length <= f.offset
      <3>1. CASE f \in frames /\ h \in frames
        BY <1>1, <3>1 DEF CutInv
      <3>2. CASE f = g \/ h = g
        BY <1>2, <1>4, <1>5, <3>2
      <3>3. QED BY <1>2, <3>1, <3>2
    <2>3. Edge(0)'
      BY <1>1, <1>6 DEF CutInv
    <2>4. QED BY <2>1, <2>2, <2>3 DEF CutInv
  <1>9. BufferInv'
    BY <1>1, <1>2, <1>3, <1>4 DEF BufferInv
  <1>10. PassedInv'
    <2>1. InOrder' <=> InOrder
      BY <1>2 DEF InOrder
    <2>2. Edge(recvSize) => Edge(recvSize)'
      <3>1. recvSize' = recvSize
        BY <1>2
      <3>2. QED BY <1>2, <1>5, <3>1 DEF Edge
    <2>3. QED BY <1>1, <1>2, <2>1, <2>2 DEF PassedInv
  <1>11. QED BY <1>7, <1>8, <1>9, <1>10 DEF StreamInv

\* The frame that was expected next: what is released, and what is left.
LEMMA InOrderKeeps ==
    ASSUME StreamInv, NEW f \in frames, RecvInOrder(f), received' = received \cup {f},
           stale' = (stale \/ f.offset < recvSize), UNCHANGED peerVars
    PROVE  /\ StreamInv'
           /\ Len(handed) \in Nat
           /\ Len(handed') - Len(handed) \in 1..StreamBytes
  <1> DEFINE end == recvSize + f.length
             D == GetDeliverable(end)
             x == IF D < numBytes THEN D ELSE numBytes
             n == Extracted(x)
             out == Merged(buffer)[n]
             P(i) == Size(buffer, i)
             N == Len(buffer)
  <1>1. TypeOK /\ CutInv /\ BufferInv /\ PassedInv
    BY DEF StreamInv
  <1>2. /\ f.offset = recvSize /\ maxAdvertised' \in {maxAdvertised, end + Available}
        /\ recvSize' = end + D /\ buffer' = SubSeq(buffer, n + 1, N)
        /\ numBytes' = numBytes - Len(out)
        /\ handed' = handed \o Bytes(f) \o out /\ aborted' = aborted
        /\ frames' = frames /\ sentSize' = sentSize
    BY DEF RecvInOrder, peerVars
  <1>3. /\ f.offset \in Nat /\ f.length \in Nat /\ f.length > 0 /\ f \in Frame
        /\ f.offset + f.length <= sentSize
        /\ N \in Nat /\ sentSize \in Nat /\ sentSize <= StreamBytes /\ recvSize \in Nat
        /\ recvSize <= sentSize /\ numBytes \in Nat /\ numBytes <= MaxBuffer
        /\ StreamBytes \in Nat /\ MaxBuffer \in Nat /\ buffer \in Seq(Frame)
    BY <1>1, FrameFacts DEF TypeOK
  <1>4. end \in Nat /\ end <= sentSize
    BY <1>2, <1>3
  <1>5. D \in Nat /\ end + D <= sentSize
    <2>1. \A i \in 1..N : buffer[i].offset + buffer[i].length <= sentSize
      BY <1>1, FrameFacts
    <2> HIDE DEF end
    <2>2. QED BY <1>3, <1>4, <2>1, DeliverableBound
  <1>6. /\ P(0) = 0 /\ \A i \in 0..N : P(i) \in Nat
        /\ \A i \in 1..N : P(i) = P(i - 1) + buffer[i].length
    <2>1. SizeFacts(buffer)
      BY <1>3, SizeDef
    <2>2. QED BY <2>1 DEF SizeFacts
  <1> HIDE DEF end, D
  <1>7. x \in Nat /\ x <= D /\ x <= numBytes
    BY <1>3, <1>5
  <1>8. n \in 0..N /\ P(n) <= x /\ n \in Nat /\ P(n) \in Nat /\ Len(out) = P(n)
    <2> HIDE DEF x
    <2>1. n \in 0..N /\ P(n) <= x
      BY <1>3, <1>7, ExtractedFits
    <2>2. QED BY <1>3, <1>6, <2>1 DEF Size
  <1> HIDE DEF n
  <1>9. /\ buffer' \in Seq(Frame) /\ Len(buffer') = N - n
        /\ \A i \in 1..(N - n) : buffer'[i] = buffer[n + i]
        /\ Size(buffer', Len(buffer')) = P(N) - P(n)
    BY <1>2, <1>3, <1>8, DropFront
  <1>10. /\ Bytes(f) \in Seq(0..(StreamBytes - 1)) /\ Len(Bytes(f)) = f.length
         /\ out \in Seq(0..(StreamBytes - 1)) /\ handed \in Seq(0..(StreamBytes - 1))
    <2>1. \A i \in 1..N : Bytes(buffer[i]) \in Seq(0..(StreamBytes - 1))
      BY <1>1, FrameFacts, BytesIn
    <2>2. \A i \in 0..N : Merged(buffer)[i] \in Seq(0..(StreamBytes - 1))
      BY <1>3, <2>1, MergedIn
    <2>3. QED BY <1>1, <1>3, <1>8, <2>2, BytesIn, BytesType DEF TypeOK
  <1>11. /\ handed' \in Seq(0..(StreamBytes - 1)) /\ Len(handed) \in Nat
         /\ Len(handed') = Len(handed) + f.length + P(n)
    <2> DEFINE V == 0..(StreamBytes - 1)
               B == Bytes(f)
    <2>1. B \in Seq(V) /\ out \in Seq(V) /\ handed \in Seq(V) /\ Len(B) = f.length
      BY <1>10
    <2>2. handed' = (handed \o B) \o out /\ Len(out) = P(n)
      BY <1>2, <1>8
    <2> HIDE DEF V, B, out, P
    <2>3. handed \o B \in Seq(V) /\ Len(handed \o B) = Len(handed) + Len(B)
      BY <2>1, ConcatProperties
    <2>4. /\ (handed \o B) \o out \in Seq(V)
          /\ Len((handed \o B) \o out) = Len(handed \o B) + Len(out)
      BY <2>1, <2>3, ConcatProperties
    <2>5. Len(handed) \in Nat
      BY <2>1, LenProperties
    <2>6. handed' \in Seq(V) /\ Len(handed') = Len(handed) + f.length + P(n)
      BY <2>1, <2>2, <2>3, <2>4
    <2>7. QED BY <2>5, <2>6 DEF V
  <1>12. Len(handed') - Len(handed) \in 1..StreamBytes
    <2> DEFINE h == Len(handed)
               l == f.length
               p == P(n)
    <2>1. /\ h \in Nat /\ l \in Nat /\ l > 0 /\ p \in Nat /\ p <= D /\ Len(handed') = h + l + p
          /\ recvSize + l + D <= StreamBytes
      <3> HIDE DEF x
      <3>1. p \in Nat /\ p <= D
        BY <1>5, <1>7, <1>8
      <3>2. recvSize + l + D <= StreamBytes
        BY <1>3, <1>5 DEF end
      <3>3. QED BY <1>3, <1>11, <3>1, <3>2
    <2> HIDE DEF h, l, p, x
    <2>2. Len(handed') - h \in 1..StreamBytes
      BY <1>3, <1>5, <2>1
    <2>3. QED BY <2>2 DEF h
  <1>13. TypeOK'
    <2>1. maxAdvertised' \in Nat
      <3>1. maxAdvertised \in Nat
        BY <1>1 DEF TypeOK
      <3>2. end + Available \in Nat
        BY <1>3, <1>4 DEF Available
      <3>3. QED BY <1>2, <3>1, <3>2
    <2>2. recvSize' \in Nat /\ numBytes' \in 0..MaxBuffer
      BY <1>2, <1>3, <1>4, <1>5, <1>7, <1>8
    <2>3. received' \subseteq frames' /\ stale' \in BOOLEAN
      BY <1>1, <1>2 DEF TypeOK
    <2> HIDE DEF out, x
    <2>4. QED BY <1>1, <1>2, <1>9, <1>11, <2>1, <2>2, <2>3 DEF TypeOK
  <1>14. \A m : Edge(m)' <=> Edge(m)
    BY <1>2 DEF Edge
  <1>15. CutInv'
    BY <1>1, <1>2, <1>14 DEF CutInv
  <1>16. BufferInv'
    <2>1. ASSUME NEW i \in 1..Len(buffer')
          PROVE  buffer'[i] \in received' /\ buffer'[i] = buffer[n + i] /\ n + i \in 1..N
      <3>1. i \in 1..(N - n) /\ n + i \in 1..N
        BY <1>3, <1>8, <1>9
      <3>2. buffer'[i] = buffer[n + i] /\ buffer[n + i] \in received
        BY <1>1, <1>9, <3>1 DEF BufferInv
      <3>3. QED BY <3>1, <3>2
    <2>2. ASSUME NEW i \in 1..Len(buffer'), NEW j \in 1..Len(buffer'), i < j
          PROVE  buffer'[i].offset < buffer'[j].offset
      <3>1. n + i \in 1..N /\ n + j \in 1..N /\ n + i < n + j
        BY <1>8, <2>1, <2>2
      <3>2. buffer[n + i].offset < buffer[n + j].offset
        BY <1>1, <3>1 DEF BufferInv
      <3>3. QED BY <2>1, <3>2
    <2>3. numBytes' = Len(Merged(buffer')[Len(buffer')])
      <3>1. numBytes = P(N)
        BY <1>1 DEF BufferInv, Size
      <3>2. numBytes' = P(N) - P(n)
        BY <1>2, <1>8, <3>1
      <3>3. QED BY <1>9, <3>2 DEF Size
    <2>4. recvSize' <= sentSize'
      BY <1>2, <1>5
    <2>5. QED BY <2>1, <2>2, <2>3, <2>4 DEF BufferInv
  <1>17. PassedInv'
    <2> SUFFICES ASSUME stale = FALSE
                 PROVE  /\ Edge(recvSize)'
                        /\ \A i \in 1..Len(buffer') : buffer'[i].offset > recvSize'
                        /\ \A g \in received' :
                              \/ g.offset < recvSize'
                              \/ aborted
                              \/ \E i \in 1..Len(buffer') : buffer'[i] = g
                        /\ InOrder'
      <3>1. ~stale' => stale = FALSE
        BY <1>1 DEF TypeOK
      <3>2. QED BY <1>2, <3>1 DEF PassedInv
    <2>1. /\ Edge(recvSize)
          /\ \A i \in 1..N : buffer[i].offset > recvSize
          /\ \A g \in received :
                g.offset < recvSize \/ aborted \/ \E i \in 1..N : buffer[i] = g
          /\ \A i \in 1..Len(handed) : handed[i] = i - 1
          /\ Len(handed) = recvSize
      BY <1>1 DEF PassedInv, InOrder
    \* The buffered items come after the frame, and the run at the front is taken.
    <2>2. PICK k : Continues(k, end) /\ D = P(k)
      <3>1. ASSUME NEW i \in 1..N
            PROVE  buffer[i].offset >= end
        <4>1. /\ buffer[i] \in frames /\ buffer[i].offset \in Nat /\ buffer[i].length \in Nat
              /\ buffer[i].offset > recvSize
          BY <1>1, <2>1, FrameFacts
        <4>2. \/ f = buffer[i]
              \/ f.offset + f.length <= buffer[i].offset
              \/ buffer[i].offset + buffer[i].length <= f.offset
          BY <1>1, <4>1 DEF CutInv
        <4>3. QED BY <1>2, <1>3, <4>1, <4>2 DEF end
      <3>2. \A i, j \in 1..N : i < j => buffer[i].offset + buffer[i].length <= buffer[j].offset
        BY <1>1, FrameFacts
      <3>3. QED BY <1>3, <1>4, <3>1, <3>2, DeliverableRun DEF D
    <2>3. /\ k \in 0..N /\ P(k) \in Nat
          /\ \A j \in 1..k : buffer[j].offset = end + P(j - 1)
          /\ \A j \in (k + 1)..N : buffer[j].offset > end + P(k)
      BY <1>6, <2>2 DEF Continues
    <2>4. P(k) <= P(N)
      <3>1. k = N \/ k < N
        BY <1>3, <2>3
      <3>2. k < N => P(k) < P(N)
        <4>1. N \in 0..N
          BY <1>3
        <4>2. QED BY <1>3, <2>3, <4>1, SizeGrows
      <3>3. N \in 0..N
        BY <1>3
      <3>4. QED BY <1>6, <2>3, <3>1, <3>2, <3>3
    <2>5. n = k
      <3>1. numBytes = P(N)
        BY <1>1 DEF BufferInv, Size
      <3>2. x = P(k)
        BY <1>3, <2>2, <2>3, <2>4, <3>1
      <3>3. QED BY <1>3, <2>3, <3>2, ExtractedRun DEF n
    <2>6. recvSize' = end + P(k)
      BY <1>2, <2>2
    <2>7. Edge(recvSize)'
      <3>1. CASE k = 0
        <4>1. recvSize' = f.offset + f.length
          BY <1>2, <1>3, <1>4, <1>6, <2>6, <3>1 DEF end
        <4>2. Edge(f.offset + f.length)
          BY <1>1 DEF CutInv
        <4>3. QED BY <1>2, <4>1, <4>2 DEF Edge
      <3>2. CASE k # 0
        <4>1. k \in 1..k /\ k \in 1..N /\ k - 1 \in 0..N
          BY <1>3, <2>3, <3>2
        <4>2. /\ buffer[k] \in frames /\ buffer[k].offset = end + P(k - 1)
              /\ P(k) = P(k - 1) + buffer[k].length
              /\ P(k - 1) \in Nat /\ buffer[k].length \in Nat
          BY <1>1, <1>6, <2>3, <4>1, FrameFacts
        <4>3. recvSize' = buffer[k].offset + buffer[k].length
          BY <1>4, <2>6, <4>2
        <4>4. Edge(buffer[k].offset + buffer[k].length)
          BY <1>1, <4>2 DEF CutInv
        <4>5. QED BY <1>2, <4>3, <4>4 DEF Edge
      <3>3. QED BY <3>1, <3>2
    <2>8. ASSUME NEW i \in 1..Len(buffer')
          PROVE  buffer'[i].offset > recvSize'
      <3>1. i \in 1..(N - k) /\ k + i \in (k + 1)..N
        BY <1>3, <1>9, <2>3, <2>5
      <3>2. buffer'[i] = buffer[k + i]
        BY <1>9, <2>5, <3>1
      <3>3. QED BY <2>3, <2>6, <3>1, <3>2
    <2>9. ASSUME NEW g \in received'
          PROVE  g.offset < recvSize' \/ aborted \/ \E i \in 1..Len(buffer') : buffer'[i] = g
      <3>1. recvSize < recvSize' /\ recvSize' \in Nat
        BY <1>3, <1>4, <2>3, <2>6 DEF end
      <3>2. CASE g = f
        BY <1>2, <3>1, <3>2
      <3>3. CASE g \in received /\ g.offset < recvSize
        <4>1. g.offset \in Nat
          BY <1>1, <3>3, FrameFacts DEF TypeOK
        <4>2. QED BY <1>3, <3>1, <3>3, <4>1
      <3>4. ASSUME NEW i \in 1..N, buffer[i] = g
            PROVE  g.offset < recvSize' \/ \E j \in 1..Len(buffer') : buffer'[j] = g
        <4>1. CASE i <= k
          <5>1. i \in 1..k /\ i - 1 \in 0..N /\ i - 1 < k
            BY <1>3, <2>3, <4>1
          <5>2. g.offset = end + P(i - 1)
            BY <2>3, <3>4, <5>1
          <5>3. P(i - 1) < P(k) /\ P(i - 1) \in Nat
            BY <1>3, <1>6, <2>3, <5>1, SizeGrows
          <5>4. QED BY <1>4, <2>3, <2>6, <5>2, <5>3
        <4>2. CASE ~(i <= k)
          <5>1. i - k \in 1..(N - k) /\ k + (i - k) = i
            BY <1>3, <2>3, <4>2
          <5>2. i - k \in 1..Len(buffer') /\ buffer'[i - k] = buffer[k + (i - k)]
            BY <1>9, <2>5, <5>1
          <5>3. QED BY <3>4, <5>1, <5>2
        <4>3. QED BY <4>1, <4>2
      <3>5. QED BY <2>1, <3>2, <3>3, <3>4
    <2>10. InOrder'
      <3> DEFINE B == Bytes(f)
                 u == handed \o B
                 V == 0..(StreamBytes - 1)
      <3>1. /\ B \in Seq(V) /\ Len(B) = f.length /\ handed \in Seq(V) /\ Len(handed) \in Nat
            /\ \A i \in 1..f.length : B[i] = recvSize + i - 1
        BY <1>2, <1>3, <1>10, <1>11, BytesType
      <3>2. /\ out \in Seq(V) /\ Len(out) = P(k)
            /\ \A i \in 1..P(k) : out[i] = end + i - 1
        BY <1>3, <1>4, <1>8, <1>10, <2>2, <2>5, MergedRun
      <3>3. handed' = u \o out
        BY <1>2
      <3> HIDE DEF B, out, V
      <3>4. /\ u \in Seq(V) /\ Len(u) = Len(handed) + Len(B)
            /\ \A i \in 1..(Len(handed) + Len(B)) :
                  u[i] = IF i <= Len(handed) THEN handed[i] ELSE B[i - Len(handed)]
        BY <3>1, ConcatProperties
      <3> HIDE DEF u
      <3>5. Len(u) = end /\ \A i \in 1..end : u[i] = i - 1
        <4>1. Len(u) = end
          BY <2>1, <3>1, <3>4 DEF end
        <4>2. ASSUME NEW i \in 1..end
              PROVE  u[i] = i - 1
          <5>1. i \in 1..(Len(handed) + Len(B))
            BY <3>4, <4>1
          <5>2. CASE i <= Len(handed)
            BY <2>1, <3>1, <3>4, <5>1, <5>2
          <5>3. CASE ~(i <= Len(handed))
            <6>1. i - recvSize \in 1..f.length
              BY <1>3, <1>4, <2>1, <5>3 DEF end
            <6>2. u[i] = B[i - recvSize]
              BY <2>1, <3>4, <5>1, <5>3
            <6>3. QED BY <1>3, <1>4, <3>1, <6>1, <6>2
          <5>4. QED BY <5>2, <5>3
        <4>3. QED BY <4>1, <4>2
      <3>6. /\ Len(handed') = Len(u) + Len(out)
            /\ \A i \in 1..(Len(u) + Len(out)) :
                  handed'[i] = IF i <= Len(u) THEN u[i] ELSE out[i - Len(u)]
        <4>1. /\ Len(u \o out) = Len(u) + Len(out)
              /\ \A i \in 1..(Len(u) + Len(out)) :
                    (u \o out)[i] = IF i <= Len(u) THEN u[i] ELSE out[i - Len(u)]
          BY <3>2, <3>4, ConcatProperties
        <4>2. QED BY <3>3, <4>1
      <3>7. Len(handed') = recvSize'
        BY <2>6, <3>2, <3>5, <3>6
      <3>8. ASSUME NEW i \in 1..Len(handed')
            PROVE  handed'[i] = i - 1
        <4>1. handed'[i] = IF i <= end THEN u[i] ELSE out[i - end]
          BY <3>5, <3>6
        <4>2. CASE i <= end
          <5>1. i \in 1..end
            BY <1>4, <4>2
          <5>2. QED BY <3>5, <4>1, <4>2, <5>1
        <4>3. CASE ~(i <= end)
          <5>1. i - end \in 1..P(k)
            BY <1>4, <2>3, <2>6, <3>7, <4>3
          <5>2. QED BY <1>4, <2>3, <3>2, <4>1, <4>3, <5>1
        <4>4. QED BY <4>2, <4>3
      <3>9. QED BY <3>7, <3>8 DEF InOrder
    <2>11. QED BY <2>7, <2>8, <2>9, <2>10
  <1>18. QED BY <1>11, <1>12, <1>13, <1>15, <1>16, <1>17 DEF StreamInv

\* Where Add inserts a frame with a new offset.
Place(p, f) ==
    /\ p \in 1..(Len(buffer) + 1)
    /\ \A j \in 1..(p - 1) : buffer[j].offset < f.offset
    /\ \A j \in p..Len(buffer) : buffer[j].offset > f.offset

\* Such a place exists, and Inserted chooses it.
LEMMA InsertedAt ==
    ASSUME TypeOK, CutInv, BufferInv, NEW f \in frames,
           \A i \in 1..Len(buffer) : buffer[i].offset # f.offset
    PROVE  \E p : Place(p, f) /\ Inserted(f) = InsertAt(buffer, p, f)
  <1> DEFINE N == Len(buffer)
             off(i) == buffer[i].offset
             Here(i) == /\ \A j \in 1..(i - 1) : off(j) < f.offset
                        /\ i <= N => f.offset < off(i)
             T(i) == \A j \in 1..i : off(j) < f.offset
             S == {i \in Nat : i <= N => T(i)}
             p == CHOOSE i \in 1..(N + 1) : Here(i)
  <1>1. /\ N \in Nat /\ f.offset \in Nat /\ \A i \in 1..N : off(i) \in Nat /\ off(i) # f.offset
        /\ \A i, j \in 1..N : i < j => off(i) < off(j)
    BY FrameFacts DEF BufferInv
  <1>2. Inserted(f) = InsertAt(buffer, p, f)
    BY DEF Inserted
  <1> HIDE DEF N, off
  <1>3. \E i \in 1..(N + 1) : Here(i)
    <2> SUFFICES ASSUME \A i \in 1..(N + 1) : ~Here(i)
                 PROVE  FALSE
      OBVIOUS
    <2>1. 0 \in S
      OBVIOUS
    <2>2. ASSUME NEW i \in Nat, i \in S
          PROVE  i + 1 \in S
      <3>1. SUFFICES ASSUME i + 1 <= N
                     PROVE  T(i + 1)
        <4> HIDE DEF T
        <4>1. QED OBVIOUS
      <3>2. T(i)
        <4> HIDE DEF T
        <4>1. QED BY <1>1, <2>2, <3>1
      <3>3. i + 1 \in 1..(N + 1) /\ (i + 1) - 1 = i /\ i + 1 \in 1..N
        BY <1>1, <3>1
      <3>4. ~(f.offset < off(i + 1))
        BY <3>1, <3>2, <3>3
      <3>5. off(i + 1) < f.offset
        BY <1>1, <3>3, <3>4
      <3>6. ASSUME NEW j \in 1..(i + 1)
            PROVE  off(j) < f.offset
        <4>1. j = i + 1 \/ j \in 1..i
          BY <3>6
        <4>2. QED BY <3>2, <3>5, <4>1
      <3>7. QED BY <3>6
    <2>3. T(N)
      <3>1. N \in S
        <4> HIDE DEF S
        <4>1. QED BY <1>1, <2>1, <2>2, Induction
      <3> HIDE DEF T
      <3>2. QED BY <1>1, <3>1
    <2>4. N + 1 \in 1..(N + 1) /\ (N + 1) - 1 = N /\ ~(N + 1 <= N)
      BY <1>1
    <2>5. Here(N + 1)
      BY <2>3, <2>4
    <2>6. QED BY <2>4, <2>5
  <1>4. p \in 1..(N + 1) /\ Here(p)
    <2> HIDE DEF Here
    <2>1. QED BY <1>3
  <1> HIDE DEF p
  <1>5. ASSUME NEW j \in p..N
        PROVE  off(j) > f.offset
    <2>1. p \in 1..N /\ j \in 1..N /\ (p = j \/ p < j)
      BY <1>1, <1>4
    <2>2. f.offset < off(p) /\ off(p) \in Nat /\ off(j) \in Nat
      BY <1>1, <1>4, <2>1
    <2>3. p < j => off(p) < off(j)
      BY <1>1, <2>1
    <2>4. QED BY <1>1, <2>1, <2>2, <2>3
  <1>6. Place(p, f)
    BY <1>4, <1>5 DEF Place, N, off
  <1>7. QED BY <1>2, <1>6

\* Any other frame that fits is added in its place.
LEMMA InsertKeeps ==
    ASSUME TypeOK, CutInv, BufferInv, NEW f \in frames, numBytes + f.length <= MaxBuffer,
           \A i \in 1..Len(buffer) : buffer[i].offset # f.offset,
           buffer' = Inserted(f), numBytes' = numBytes + f.length,
           received' = received \cup {f}, recvSize' = recvSize, UNCHANGED peerVars
    PROVE  /\ buffer' \in Seq(Frame) /\ numBytes' \in 0..MaxBuffer
           /\ BufferInv'
           /\ \A g : (\E i \in 1..Len(buffer') : buffer'[i] = g) <=>
                         (g = f \/ \E i \in 1..Len(buffer) : buffer[i] = g)
  <1> DEFINE N == Len(buffer)
             c == buffer'
  <1>1. PICK p : Place(p, f) /\ buffer' = InsertAt(buffer, p, f)
    BY InsertedAt
  <1>2. /\ N \in Nat /\ f \in Frame /\ f.offset \in Nat /\ f.length \in Nat /\ f.length > 0
        /\ numBytes \in Nat /\ MaxBuffer \in Nat /\ recvSize \in Nat
        /\ buffer \in Seq(Frame) /\ \A i \in 1..N : buffer[i].offset \in Nat
        /\ \A i \in 1..N : buffer[i] \in received
        /\ \A i, j \in 1..N : i < j => buffer[i].offset < buffer[j].offset
    BY FrameFacts DEF TypeOK, BufferInv
  <1>3. /\ p \in 1..(N + 1) /\ \A j \in 1..(p - 1) : buffer[j].offset < f.offset
        /\ \A j \in p..N : buffer[j].offset > f.offset
    BY <1>1 DEF Place
  <1>4. /\ c \in Seq(Frame) /\ Len(c) = N + 1 /\ c[p] = f
        /\ \A i \in 1..(p - 1) : c[i] = buffer[i]
        /\ \A i \in p..N : c[i + 1] = buffer[i]
        /\ Size(c, Len(c)) = Size(buffer, N) + f.length
    <2>1. Insertion(buffer, p, f, c)
      BY <1>1, <1>2, <1>3, InsertOne
    <2>2. QED BY <2>1 DEF Insertion
  <1> HIDE DEF c, N
  \* An item of the new list is the frame or one of the old list.
  <1>5. ASSUME NEW i \in 1..(N + 1)
        PROVE  \/ i < p /\ i \in 1..N /\ i \in 1..(p - 1) /\ c[i] = buffer[i]
               \/ i = p /\ c[i] = f
               \/ i > p /\ i - 1 \in 1..N /\ i - 1 \in p..N /\ c[i] = buffer[i - 1]
    <2>1. CASE i < p
      BY <1>2, <1>3, <1>4, <2>1
    <2>2. CASE i = p
      BY <1>4, <2>2
    <2>3. CASE i > p
      <3>1. i - 1 \in p..N /\ i - 1 \in 1..N /\ (i - 1) + 1 = i
        BY <1>2, <1>3, <2>3
      <3>2. QED BY <1>4, <2>3, <3>1
    <2>4. QED BY <1>2, <1>3, <2>1, <2>2, <2>3
  <1>6. \A i \in 1..(N + 1) : c[i] \in received'
    BY <1>2, <1>5
  <1>7. ASSUME NEW i \in 1..(N + 1), NEW j \in 1..(N + 1), i < j
        PROVE  c[i].offset < c[j].offset
    <2>1. CASE i < p
      <3>1. c[i] = buffer[i] /\ i \in 1..N /\ buffer[i].offset < f.offset
        BY <1>3, <1>5, <2>1
      <3>2. CASE j < p
        <4>1. c[j] = buffer[j] /\ j \in 1..N
          BY <1>3, <1>5, <3>2
        <4>2. QED BY <1>2, <1>7, <3>1, <4>1
      <3>3. CASE j = p
        BY <1>4, <3>1, <3>3
      <3>4. CASE j > p
        <4>1. c[j] = buffer[j - 1] /\ j - 1 \in 1..N /\ buffer[j - 1].offset > f.offset
          BY <1>3, <1>5, <3>4
        <4>2. QED BY <1>2, <3>1, <4>1
      <3>5. QED BY <1>3, <3>2, <3>3, <3>4
    <2>2. CASE i = p
      <3>1. c[j] = buffer[j - 1] /\ buffer[j - 1].offset > f.offset
        BY <1>3, <1>5, <1>7, <2>2
      <3>2. QED BY <1>2, <1>4, <2>2, <3>1
    <2>3. CASE i > p
      <3>1. /\ c[i] = buffer[i - 1] /\ i - 1 \in 1..N
            /\ c[j] = buffer[j - 1] /\ j - 1 \in 1..N /\ i - 1 < j - 1
        <4>1. j > p /\ i - 1 < j - 1
          BY <1>2, <1>3, <1>7, <2>3
        <4>2. c[i] = buffer[i - 1] /\ i - 1 \in 1..N
          BY <1>3, <1>5, <2>3
        <4>3. c[j] = buffer[j - 1] /\ j - 1 \in 1..N
          BY <1>3, <1>5, <4>1
        <4>4. QED BY <4>1, <4>2, <4>3
      <3>2. QED BY <1>2, <3>1
    <2>4. QED BY <1>2, <1>3, <2>1, <2>2, <2>3
  <1>8. numBytes' = Size(c, Len(c)) /\ numBytes' \in 0..MaxBuffer
    <2>1. numBytes = Size(buffer, N)
      BY DEF BufferInv, Size, N
    <2>2. QED BY <1>2, <1>4, <2>1
  <1>9. ASSUME NEW g
        PROVE  (\E i \in 1..(N + 1) : c[i] = g) <=> (g = f \/ \E i \in 1..N : buffer[i] = g)
    <2>1. (\E i \in 1..(N + 1) : c[i] = g) => (g = f \/ \E i \in 1..N : buffer[i] = g)
      BY <1>5
    <2>2. g = f => \E i \in 1..(N + 1) : c[i] = g
      BY <1>3, <1>4
    <2>3. ASSUME NEW i \in 1..N, buffer[i] = g
          PROVE  \E j \in 1..(N + 1) : c[j] = g
      <3>1. CASE i < p
        <4>1. i \in 1..(p - 1) /\ i \in 1..(N + 1)
          BY <1>2, <1>3, <3>1
        <4>2. QED BY <1>4, <2>3, <4>1
      <3>2. CASE i >= p
        <4>1. i \in p..N /\ i + 1 \in 1..(N + 1)
          BY <1>2, <1>3, <3>2
        <4>2. QED BY <1>4, <2>3, <4>1
      <3>3. QED BY <1>2, <1>3, <3>1, <3>2
    <2>4. QED BY <2>1, <2>2, <2>3
  <1>10. BufferInv'
    <2>1. sentSize' = sentSize /\ recvSize <= sentSize
      BY DEF peerVars, BufferInv
    <2>2. QED BY <1>4, <1>6, <1>7, <1>8, <2>1 DEF BufferInv, Size, c
  <1>11. QED BY <1>4, <1>8, <1>9, <1>10 DEF c, N

\* A frame that is not the next one: added, a duplicate, or without room.
LEMMA OutOfOrderKeeps ==
    ASSUME StreamInv, NEW f \in frames, RecvOutOfOrder(f), ~aborted,
           received' = received \cup {f},
           stale' = (stale \/ f.offset < recvSize), UNCHANGED peerVars
    PROVE  StreamInv'
  <1> DEFINE N == Len(buffer)
             Held(g) == \E i \in 1..N : buffer[i] = g
             fits == f.length <= Available
             known == \E i \in 1..N : buffer[i].offset = f.offset
  <1>1. TypeOK /\ CutInv /\ BufferInv /\ PassedInv
    BY DEF StreamInv
  <1>2. /\ f.offset # recvSize /\ recvSize' = recvSize /\ maxAdvertised' = maxAdvertised
        /\ handed' = handed /\ frames' = frames /\ sentSize' = sentSize
        /\ aborted' = ~fits
        /\ \/ fits /\ ~known /\ buffer' = Inserted(f) /\ numBytes' = numBytes + f.length
           \/ ~(fits /\ ~known) /\ buffer' = buffer /\ numBytes' = numBytes
    BY DEF RecvOutOfOrder, peerVars
  <1>3. /\ f \in Frame /\ f.offset \in Nat /\ f.length \in Nat /\ f.length > 0
        /\ N \in Nat /\ recvSize \in Nat /\ numBytes \in Nat /\ MaxBuffer \in Nat
        /\ buffer \in Seq(Frame) /\ numBytes \in 0..MaxBuffer
        /\ \A i \in 1..N : buffer[i] \in frames
    BY <1>1, FrameFacts DEF TypeOK
  <1>4. /\ buffer' \in Seq(Frame) /\ numBytes' \in 0..MaxBuffer /\ BufferInv'
        /\ \A g : (\E i \in 1..Len(buffer') : buffer'[i] = g) =>  g = f \/ Held(g)
        /\ \A g : Held(g) => \E i \in 1..Len(buffer') : buffer'[i] = g
        /\ aborted' = FALSE => \E i \in 1..Len(buffer') : buffer'[i] = f
    <2>1. CASE fits /\ ~known /\ buffer' = Inserted(f) /\ numBytes' = numBytes + f.length
      <3>1. numBytes + f.length <= MaxBuffer
        BY <1>3, <2>1 DEF Available
      <3>2. \A i \in 1..N : buffer[i].offset # f.offset
        BY <2>1
      <3>3. /\ buffer' \in Seq(Frame) /\ numBytes' \in 0..MaxBuffer /\ BufferInv'
            /\ \A g : (\E i \in 1..Len(buffer') : buffer'[i] = g) <=> (g = f \/ Held(g))
        BY <1>1, <1>2, <2>1, <3>1, <3>2, InsertKeeps
      <3>4. QED BY <3>3
    <2>2. CASE ~(fits /\ ~known) /\ buffer' = buffer /\ numBytes' = numBytes
      <3>1. BufferInv'
        BY <1>1, <1>2, <2>2 DEF BufferInv
      <3>2. aborted' = FALSE => Held(f)
        <4> SUFFICES ASSUME aborted' = FALSE PROVE Held(f)
          OBVIOUS
        <4>1. known
          BY <1>2, <2>2
        <4>2. PICK i \in 1..N : buffer[i].offset = f.offset
          BY <4>1
        <4>3. \/ f = buffer[i]
              \/ f.offset + f.length <= buffer[i].offset
              \/ buffer[i].offset + buffer[i].length <= f.offset
          BY <1>1, <1>3 DEF CutInv
        <4>4. buffer[i].length \in Nat /\ buffer[i].length > 0
          BY <1>1, <1>3, FrameFacts
        <4>5. f = buffer[i]
          BY <1>3, <4>2, <4>3, <4>4
        <4>6. QED BY <4>5
      <3>3. QED BY <1>3, <2>2, <3>1, <3>2
    <2>3. QED BY <1>2, <2>1, <2>2
  <1>5. TypeOK'
    <2>1. received' \subseteq frames' /\ stale' \in BOOLEAN /\ aborted' \in BOOLEAN
      BY <1>1, <1>2 DEF TypeOK
    <2> HIDE DEF fits, known, Held
    <2>2. QED BY <1>1, <1>2, <1>4, <2>1 DEF TypeOK
  <1>6. \A m : Edge(m)' <=> Edge(m)
    BY <1>2 DEF Edge
  <1>7. CutInv'
    BY <1>1, <1>2, <1>6 DEF CutInv
  <1>8. PassedInv'
    <2> SUFFICES ASSUME stale = FALSE, ~(f.offset < recvSize)
                 PROVE  /\ Edge(recvSize)'
                        /\ \A i \in 1..Len(buffer') : buffer'[i].offset > recvSize'
                        /\ \A g \in received' :
                              \/ g.offset < recvSize'
                              \/ aborted'
                              \/ \E i \in 1..Len(buffer') : buffer'[i] = g
                        /\ InOrder'
      <3>1. ~stale' => stale = FALSE /\ ~(f.offset < recvSize)
        BY <1>1 DEF TypeOK
      <3>2. QED BY <3>1 DEF PassedInv
    <2> HIDE DEF fits, known, Held
    <2>1. /\ Edge(recvSize)
          /\ \A i \in 1..N : buffer[i].offset > recvSize
          /\ \A g \in received : g.offset < recvSize \/ Held(g)
          /\ InOrder
      BY <1>1 DEF PassedInv, Held
    <2>2. f.offset > recvSize
      BY <1>2, <1>3
    <2>3. ASSUME NEW i \in 1..Len(buffer')
          PROVE  buffer'[i].offset > recvSize'
      <3>1. buffer'[i] = f \/ Held(buffer'[i])
        BY <1>4
      <3>2. QED BY <1>2, <2>1, <2>2, <3>1 DEF Held
    <2>4. ASSUME NEW g \in received'
          PROVE  g.offset < recvSize' \/ aborted' \/ \E i \in 1..Len(buffer') : buffer'[i] = g
      <3>1. CASE g = f
        BY <1>4, <1>5, <3>1 DEF TypeOK
      <3>2. CASE g \in received
        BY <1>2, <1>4, <2>1, <3>2
      <3>3. QED BY <3>1, <3>2
    <2>5. Edge(recvSize)' /\ InOrder'
      BY <1>2, <2>1 DEF Edge, InOrder
    <2>6. QED BY <2>3, <2>4, <2>5
  <1>9. QED BY <1>4, <1>5, <1>7, <1>8 DEF StreamInv

\* A frame beyond the limit of flow control.
LEMMA FlowControlKeeps ==
    ASSUME StreamInv, NEW f \in frames, RecvFlowControlError(f), received' = received \cup {f},
           stale' = (stale \/ f.offset < recvSize), UNCHANGED peerVars
    PROVE  StreamInv'
  <1>1. TypeOK /\ CutInv /\ BufferInv /\ PassedInv
    BY DEF StreamInv
  <1>2. /\ aborted' = TRUE /\ recvSize' = recvSize /\ buffer' = buffer /\ numBytes' = numBytes
        /\ maxAdvertised' = maxAdvertised /\ handed' = handed
        /\ frames' = frames /\ sentSize' = sentSize
    BY DEF RecvFlowControlError, peerVars
  <1>3. \A m : Edge(m)' <=> Edge(m)
    BY <1>2 DEF Edge
  <1>4. TypeOK'
    <2>1. received' \subseteq frames' /\ stale' \in BOOLEAN
      BY <1>1, <1>2 DEF TypeOK
    <2>2. QED BY <1>1, <1>2, <2>1 DEF TypeOK
  <1>5. CutInv' /\ BufferInv'
    BY <1>1, <1>2, <1>3 DEF CutInv, BufferInv
  <1>6. PassedInv'
    <2>1. Edge(recvSize)' <=> Edge(recvSize)
      BY <1>2 DEF Edge
    <2>2. InOrder' <=> InOrder
      BY <1>2 DEF InOrder
    <2>3. QED BY <1>1, <1>2, <2>1, <2>2 DEF PassedInv
  <1>7. QED BY <1>4, <1>5, <1>6 DEF StreamInv

\* A STREAM frame arrives.  What is passed up fits a packet.
LEMMA RecvKeeps ==
    ASSUME StreamInv, NEW f \in frames, Recv(f)
    PROVE  /\ StreamInv'
           /\ Len(handed') > Len(handed) => Len(handed') - Len(handed) \in 1..StreamBytes
  <1>1. /\ ~aborted /\ received' = received \cup {f} /\ UNCHANGED peerVars
        /\ stale' = (stale \/ f.offset < recvSize)
        /\ RecvInOrder(f) \/ RecvOutOfOrder(f) \/ RecvFlowControlError(f)
    BY DEF Recv
  <1>2. CASE RecvInOrder(f)
    BY <1>1, <1>2, InOrderKeeps
  <1>3. Len(handed) \in Nat
    BY LenProperties DEF StreamInv, TypeOK
  <1>4. CASE RecvOutOfOrder(f)
    <2>1. handed' = handed
      BY <1>4 DEF RecvOutOfOrder
    <2>2. QED BY <1>1, <1>3, <1>4, <2>1, OutOfOrderKeeps
  <1>5. CASE RecvFlowControlError(f)
    <2>1. handed' = handed
      BY <1>5 DEF RecvFlowControlError
    <2>2. QED BY <1>1, <1>3, <1>5, <2>1, FlowControlKeeps
  <1>6. QED BY <1>1, <1>2, <1>4, <1>5

\* Nothing has been sent.
LEMMA StreamInit == Init => StreamInv
  <1> SUFFICES ASSUME Init PROVE StreamInv
    OBVIOUS
  <1>1. /\ frames = {} /\ sentSize = 0 /\ received = {} /\ recvSize = 0 /\ buffer = <<>>
        /\ numBytes = 0 /\ maxAdvertised = 0 /\ handed = <<>> /\ aborted = FALSE /\ stale = FALSE
    BY DEF Init
  <1>2. Len(buffer) = 0 /\ Len(handed) = 0 /\ buffer \in Seq(Frame)
        /\ handed \in Seq(0..(StreamBytes - 1))
    BY <1>1
  <1>3. StreamBytes \in Nat /\ MaxBuffer \in Nat
    BY ReceiveAssumption
  <1>4. TypeOK
    <2>1. sentSize \in 0..StreamBytes /\ numBytes \in 0..MaxBuffer
      BY <1>1, <1>3
    <2>2. frames \subseteq Frame /\ received \subseteq frames
      BY <1>1
    <2>3. recvSize \in Nat /\ maxAdvertised \in Nat /\ aborted \in BOOLEAN /\ stale \in BOOLEAN
      BY <1>1
    <2>4. QED BY <1>2, <2>1, <2>2, <2>3 DEF TypeOK
  <1>5. CutInv
    BY <1>1 DEF CutInv, Edge
  <1>6. BufferInv
    <2>1. SizeFacts(buffer)
      BY <1>2, SizeDef
    <2>2. Size(buffer, Len(buffer)) = 0
      BY <1>2, <2>1 DEF SizeFacts
    <2>3. QED BY <1>1, <1>2, <2>2 DEF BufferInv, Size
  <1>7. PassedInv
    BY <1>1, <1>2 DEF PassedInv, Edge, InOrder
  <1>8. QED BY <1>4, <1>5, <1>6, <1>7 DEF StreamInv

-----------------------------------------------------------------------------
\* A uint32_t holds a number below the modulus as it is.
LEMMA NoWrap ==
    ASSUME NEW M \in Nat, M > 0, NEW a \in Int
    PROVE  /\ a % M \in 0..(M - 1)
           /\ 0 <= a /\ a < M => a % M = a
  OBVIOUS

\* The constants of the path.
LEMMA PathConstants ==
    /\ StreamBytes \in Nat /\ SocketBuffer \in Nat /\ Modulus \in Nat
    /\ Modulus > 0 /\ SocketBuffer < Modulus /\ ReadSizes \subseteq Nat
  <1>1. /\ StreamBytes \in Nat /\ SocketBuffer \in Nat /\ Modulus \in Nat /\ ReadSizes \subseteq Nat
        /\ Modulus > (StreamBytes + 1) * (StreamBytes + SocketBuffer)
    BY ReceiveAssumption, PathAssumption
  <1> DEFINE a == StreamBytes
             b == StreamBytes + SocketBuffer
  <1>2. (a + 1) * b >= b
    <2>1. a \in Nat /\ b \in Nat
      BY <1>1
    <2> HIDE DEF a, b
    <2>2. a * b \in Nat /\ (a + 1) * b = a * b + b
      BY <2>1
    <2>3. QED BY <2>1, <2>2
  <1>3. b >= SocketBuffer
    BY <1>1
  <1>4. QED BY <1>1, <1>2, <1>3

\* All elements of a list are v.
AllAre(s, v) == \A i \in 1..Len(s) : s[i] = v

\* The sum of equal sizes.
LEMMA TotalUniform ==
    ASSUME NEW s \in Seq(Nat), NEW v \in Nat, AllAre(s, v)
    PROVE  Socket!Total(s) = Len(s) * v
  <1> DEFINE n == Len(s)
             step == [w \in Nat \X (1..n) |-> w[1] + s[w[2]]]
             Eq(f) == f = [i \in 0..n |-> IF i = 0 THEN 0 ELSE f[i - 1] + s[i]]
  <1>1. n \in Nat /\ \A i \in 1..n : s[i] \in Nat /\ s[i] = v
    BY LenProperties, ElementOfSeq DEF AllAre
  <1> HIDE DEF n
  <1>2. \A w \in Nat, i \in 1..n : step[<<w, i>>] = w + s[i]
    OBVIOUS
  <1>3. step \in [Nat \X (1..n) -> Nat]
    BY <1>1
  <1> HIDE DEF step
  <1>4. PICK f \in [0..n -> Nat] : Recursive(f, n, 0, step)
    <2>1. 0 \in Nat
      OBVIOUS
    <2>2. QED BY <1>1, <1>3, <2>1, RecursionExists
  <1>5. Eq(f)
    <2>1. \A i \in 0..n : i # 0 => step[<<f[i - 1], i>>] = f[i - 1] + s[i]
      <3>1. ASSUME NEW i \in 0..n, i # 0
            PROVE  i \in 1..n /\ i - 1 \in 0..n
        BY <1>1, <3>1
      <3>2. \A j \in 0..n : f[j] \in Nat
        BY <1>4
      <3>3. QED BY <1>2, <3>1, <3>2, Zenon
    <2>2. QED BY <1>4, <2>1 DEF Recursive
  <1> DEFINE g == CHOOSE h : Eq(h)
  <1>6. Eq(g)
    BY <1>5
  <1>7. Socket!Total(s) = g[n]
    BY DEF Socket!Total, n
  <1> HIDE DEF g
  <1>8. g[0] = 0 /\ \A i \in 1..n : g[i] = g[i - 1] + v
    BY <1>1, <1>6
  <1> DEFINE S == {i \in Nat : i <= n => g[i] = i * v}
  <1>9. 0 \in S
    BY <1>8
  <1>10. ASSUME NEW i \in Nat, i \in S
         PROVE  i + 1 \in S
    <2> SUFFICES ASSUME i + 1 <= n
                 PROVE  g[i + 1] = (i + 1) * v
      OBVIOUS
    <2>1. i + 1 \in 1..n /\ (i + 1) - 1 = i /\ g[i] = i * v
      BY <1>1, <1>10
    <2>2. g[i + 1] = g[i] + v
      BY <1>8, <2>1
    <2>3. (i + 1) * v = i * v + v
      OBVIOUS
    <2>4. QED BY <2>1, <2>2, <2>3
  <1>11. \A i \in Nat : i \in S
    <2> HIDE DEF S
    <2>1. QED BY <1>9, <1>10, Induction
  <1>12. g[n] = n * v
    BY <1>1, <1>11
  <1>13. QED BY <1>7, <1>12 DEF n

\* The loop of the socket's Extract: what it has taken after each packet.
Extraction == [taken : Nat, bytes : Nat, size : 0..(Modulus - 1), recvSize : 0..(Modulus - 1)]
First(m) == [taken |-> 0, bytes |-> 0, recvSize |-> sockSize,
             size |-> IF m < sockSize THEN m ELSE sockSize]
ExtractFacts(X, m) ==
    /\ \A i \in 0..Len(list) : X[i] \in Extraction
    /\ X[0] = First(m)
    /\ \A i \in 1..Len(list) : X[i] = Socket!ExtractOne(X[i - 1], i)
    /\ Socket!Extract(m) = X[Len(list)]

\* The recursive function that Extract walks the list with exists.
LEMMA ExtractDef ==
    ASSUME Socket!TypeOK, NEW m \in Nat
    PROVE  \E X : ExtractFacts(X, m)
  <1> DEFINE n == Len(list)
             E(w, i) == Socket!ExtractOne(w, i)
             base == First(m)
             step == [w \in Extraction \X (1..n) |-> E(w[1], w[2])]
             Eq(f) == f = [i \in 0..n |-> IF i = 0 THEN base ELSE E(f[i - 1], i)]
  <1>1. /\ n \in Nat /\ \A i \in 1..n : list[i] \in Nat
        /\ sockSize \in 0..(Modulus - 1) /\ Modulus \in Nat /\ Modulus > 0
    <2>1. list \in Seq(1..StreamBytes) /\ sockSize \in 0..(Modulus - 1)
      BY DEF Socket!TypeOK
    <2>2. n \in Nat /\ \A i \in 1..n : list[i] \in 1..StreamBytes
      BY <2>1, LenProperties, ElementOfSeq
    <2>3. QED BY <2>1, <2>2, PathConstants
  <1>2. base \in Extraction
    BY <1>1 DEF First, Extraction
  <1>3. ASSUME NEW w \in Extraction, NEW i \in 1..n
        PROVE  E(w, i) \in Extraction
    <2> DEFINE a == Socket!AfterErase(i)
    <2>1. a \in Nat
      <3>1. i + 1 \in 1..n \/ ~(i < n)
        BY <1>1
      <3>2. QED BY <1>1, <3>1 DEF Socket!AfterErase
    <2> HIDE DEF a
    <2>2. w.size \in Int /\ w.recvSize \in Int /\ w.bytes \in Nat /\ list[i] \in Nat /\ i \in Nat
      BY <1>1 DEF Extraction
    <2>3. (w.size - a) % Modulus \in 0..(Modulus - 1)
      <3>1. w.size - a \in Int
        BY <2>1, <2>2
      <3>2. QED BY <1>1, <3>1, NoWrap
    <2>4. (w.recvSize - a) % Modulus \in 0..(Modulus - 1)
      <3>1. w.recvSize - a \in Int
        BY <2>1, <2>2
      <3>2. QED BY <1>1, <3>1, NoWrap
    <2> DEFINE sz == (w.size - a) % Modulus
               rs == (w.recvSize - a) % Modulus
               by == w.bytes + list[i]
    <2>5. E(w, i) \in {w, [taken |-> i, bytes |-> by, size |-> sz, recvSize |-> rs]}
      BY DEF Socket!ExtractOne, a
    <2>6. sz \in 0..(Modulus - 1) /\ rs \in 0..(Modulus - 1) /\ by \in Nat
      BY <2>2, <2>3, <2>4
    <2> HIDE DEF sz, rs, by, E
    <2>7. QED BY <2>2, <2>5, <2>6 DEF Extraction
  <1> HIDE DEF n, E, base
  <1>4. \A w \in Extraction, i \in 1..n : step[<<w, i>>] = E(w, i)
    OBVIOUS
  <1>5. step \in [Extraction \X (1..n) -> Extraction]
    BY <1>3
  <1> HIDE DEF step
  <1>6. PICK f \in [0..n -> Extraction] : Recursive(f, n, base, step)
    BY <1>1, <1>2, <1>5, RecursionExists
  <1>7. Eq(f)
    <2>1. \A i \in 0..n : i # 0 => step[<<f[i - 1], i>>] = E(f[i - 1], i)
      <3>1. ASSUME NEW i \in 0..n, i # 0
            PROVE  i \in 1..n /\ i - 1 \in 0..n
        BY <1>1, <3>1
      <3>2. \A j \in 0..n : f[j] \in Extraction
        BY <1>6
      <3>3. QED BY <1>4, <3>1, <3>2, Zenon
    <2>2. QED BY <1>6, <2>1 DEF Recursive
  <1> DEFINE g == CHOOSE h : Eq(h)
  <1>8. Eq(g)
    BY <1>7
  <1>9. Socket!Extract(m) = g[n]
    BY DEF Socket!Extract, n, E, base, First
  <1> HIDE DEF g
  <1>10. g[0] = base /\ \A i \in 1..n : g[i] = E(g[i - 1], i)
    BY <1>1, <1>8
  <1> DEFINE S == {k \in Nat : k <= n => g[k] \in Extraction}
  <1>11. 0 \in S
    BY <1>2, <1>10
  <1>12. ASSUME NEW k \in Nat, k \in S
         PROVE  k + 1 \in S
    <2> SUFFICES ASSUME k + 1 <= n
                 PROVE  g[k + 1] \in Extraction
      OBVIOUS
    <2>1. g[k] \in Extraction /\ k + 1 \in 1..n /\ (k + 1) - 1 = k
      BY <1>1, <1>12
    <2>2. g[k + 1] = E(g[k], k + 1)
      BY <1>10, <2>1
    <2>3. QED BY <1>3, <2>1, <2>2
  <1>13. \A k \in Nat : k \in S
    <2> HIDE DEF S
    <2>1. QED BY <1>11, <1>12, Induction
  <1>14. \A i \in 0..n : g[i] \in Extraction
    BY <1>1, <1>13
  <1>15. ExtractFacts(g, m)
    BY <1>9, <1>10, <1>14 DEF ExtractFacts, E, n, base
  <1>16. QED BY <1>15

\* Extract takes packets that are there.
LEMMA ExtractTakes ==
    ASSUME Socket!TypeOK, NEW m \in Nat
    PROVE  Socket!Extract(m) \in Extraction /\ Socket!Extract(m).taken \in 0..Len(list)
  <1>1. PICK X : ExtractFacts(X, m)
    BY ExtractDef
  <1> DEFINE n == Len(list)
             S == {k \in Nat : k <= n => X[k].taken <= k}
  <1>2. n \in Nat
    BY LenProperties DEF Socket!TypeOK
  <1>3. /\ \A i \in 0..n : X[i] \in Extraction /\ X[i].taken \in Nat
        /\ X[0].taken = 0 /\ Socket!Extract(m) = X[n]
        /\ \A i \in 1..n : X[i] = Socket!ExtractOne(X[i - 1], i)
    BY <1>1 DEF ExtractFacts, First, Extraction
  <1>4. 0 \in S
    BY <1>3
  <1>5. ASSUME NEW k \in Nat, k \in S
        PROVE  k + 1 \in S
    <2> SUFFICES ASSUME k + 1 <= n
                 PROVE  X[k + 1].taken <= k + 1
      OBVIOUS
    <2>1. /\ k + 1 \in 1..n /\ (k + 1) - 1 = k /\ k \in 0..n
          /\ X[k].taken <= k /\ X[k].taken \in Nat
      BY <1>2, <1>3, <1>5
    <2>2. X[k + 1] = Socket!ExtractOne(X[k], k + 1)
      BY <1>3, <2>1
    <2>3. X[k + 1] = X[k] \/ X[k + 1].taken = k + 1
      BY <2>2 DEF Socket!ExtractOne
    <2>4. QED BY <2>1, <2>3
  <1>6. \A k \in Nat : k \in S
    <2> HIDE DEF S
    <2>1. QED BY <1>4, <1>5, Induction
  <1>7. X[n].taken <= n /\ X[n] \in Extraction /\ X[n].taken \in Nat
    BY <1>2, <1>3, <1>6
  <1>8. QED BY <1>2, <1>3, <1>7

\* With packets of one size the counters follow the bytes taken, although Extract
\* reads the size of the packet behind the one it has erased.
Counts(w, m, v) ==
    /\ w.bytes = w.taken * v /\ w.bytes <= m /\ w.bytes <= sockSize
    /\ w.recvSize = sockSize - w.bytes
    /\ w.size = (IF m < sockSize THEN m ELSE sockSize) - w.bytes

\* Every packet that Extract takes keeps its counters right.
LEMMA ExtractCounts ==
    ASSUME Socket!TypeOK, NEW m \in Nat, NEW v \in Nat, AllAre(list, v)
    PROVE  Counts(Socket!Extract(m), m, v)
  <1>1. PICK X : ExtractFacts(X, m)
    BY ExtractDef
  <1> DEFINE n == Len(list)
             S == {k \in Nat : k <= n => Counts(X[k], m, v)}
             z == IF m < sockSize THEN m ELSE sockSize
  <1>2. /\ n \in Nat /\ \A i \in 1..n : list[i] = v
        /\ sockSize \in Nat /\ sockSize < Modulus /\ Modulus \in Nat /\ Modulus > 0
    <2>1. list \in Seq(1..StreamBytes) /\ sockSize \in 0..(Modulus - 1)
      BY DEF Socket!TypeOK
    <2>2. QED BY <2>1, LenProperties, PathConstants DEF AllAre
  <1>3. /\ \A i \in 0..n : X[i] \in Extraction /\ X[i].taken \in Nat
        /\ X[0] = First(m) /\ Socket!Extract(m) = X[n]
        /\ \A i \in 1..n : X[i] = Socket!ExtractOne(X[i - 1], i)
    BY <1>1 DEF ExtractFacts, Extraction
  <1>4. z \in Nat /\ z <= m /\ z <= sockSize
    BY <1>2
  <1>5. 0 \in S
    <2>1. /\ X[0].bytes = 0 /\ X[0].taken = 0 /\ X[0].recvSize = sockSize /\ X[0].size = z
      BY <1>3 DEF First
    <2>2. 0 = 0 * v
      OBVIOUS
    <2>3. Counts(X[0], m, v)
      BY <1>2, <1>4, <2>1, <2>2 DEF Counts
    <2>4. QED BY <2>3
  <1>6. ASSUME NEW k \in Nat, k \in S
        PROVE  k + 1 \in S
    <2> SUFFICES ASSUME k + 1 <= n
                 PROVE  Counts(X[k + 1], m, v)
      OBVIOUS
    <2> DEFINE w == X[k]
               y == X[k + 1]
    <2>1. /\ k + 1 \in 1..n /\ (k + 1) - 1 = k /\ k \in 0..n
          /\ Counts(w, m, v) /\ w \in Extraction
      BY <1>2, <1>3, <1>6
    <2>2. y = Socket!ExtractOne(w, k + 1)
      BY <1>3, <2>1
    <2>3. Socket!AfterErase(k + 1) = v /\ list[k + 1] = v
      <3>1. k + 1 < n => (k + 1) + 1 \in 1..n
        BY <1>2
      <3>2. QED BY <1>2, <2>1, <3>1 DEF Socket!AfterErase
    <2> HIDE DEF w, y, z
    <2>4. CASE w.size > 0 /\ w.taken = (k + 1) - 1 /\ v + w.bytes <= w.size
      <3> DEFINE b == w.bytes
      <3>1. /\ b \in Nat /\ w.recvSize = sockSize - b /\ w.size = z - b
            /\ b = k * v /\ v + b <= z - b
        BY <2>1, <2>4 DEF Counts, Extraction, z
      <3>2. y = [taken |-> k + 1, bytes |-> b + v, size |-> (w.size - v) % Modulus,
                 recvSize |-> (w.recvSize - v) % Modulus]
        BY <2>2, <2>3, <2>4 DEF Socket!ExtractOne
      <3> HIDE DEF b
      <3>3. (w.size - v) % Modulus = z - (b + v)
        <4>1. w.size - v = z - (b + v) /\ z - (b + v) \in Int /\ 0 <= z - (b + v) /\ z - (b + v) < Modulus
          BY <1>2, <1>4, <3>1
        <4>2. QED BY <1>2, <4>1, NoWrap
      <3>4. (w.recvSize - v) % Modulus = sockSize - (b + v)
        <4>1. /\ w.recvSize - v = sockSize - (b + v) /\ sockSize - (b + v) \in Int
              /\ 0 <= sockSize - (b + v) /\ sockSize - (b + v) < Modulus
          BY <1>2, <1>4, <3>1
        <4>2. QED BY <1>2, <4>1, NoWrap
      <3>5. (k + 1) * v = k * v + v
        OBVIOUS
      <3>6. /\ y.taken = k + 1 /\ y.bytes = b + v /\ y.size = z - (b + v)
            /\ y.recvSize = sockSize - (b + v)
        BY <3>2, <3>3, <3>4
      <3>7. b + v = (k + 1) * v /\ b + v <= m /\ b + v <= sockSize
        BY <1>2, <1>4, <3>1, <3>5
      <3>8. Counts(y, m, v)
        BY <3>6, <3>7 DEF Counts, z
      <3>9. QED BY <3>8 DEF y
    <2>5. CASE ~(w.size > 0 /\ w.taken = (k + 1) - 1 /\ v + w.bytes <= w.size)
      <3>1. y = w
        BY <2>2, <2>3, <2>5 DEF Socket!ExtractOne
      <3>2. QED BY <2>1, <3>1 DEF y
    <2>6. QED BY <2>4, <2>5
  <1>7. \A k \in Nat : k \in S
    <2> HIDE DEF S
    <2>1. QED BY <1>5, <1>6, Induction
  <1>8. QED BY <1>2, <1>3, <1>7

\* What has been read and what is buffered are the packets accepted.
LEMMA ListFacts ==
    ASSUME Socket!TypeOK, Socket!Fifo
    PROVE  /\ Len(accepted) = Len(read) + Len(list)
           /\ Len(accepted) \in Nat /\ Len(read) \in Nat /\ Len(list) \in Nat
           /\ \A i \in 1..Len(list) : list[i] = accepted[Len(read) + i]
           /\ \A i \in 1..Len(list) : Len(read) + i \in 1..Len(accepted)
           /\ \A i \in 1..Len(list) : list[i] \in Nat
           /\ list \in Seq(Nat)
  <1> DEFINE V == 1..StreamBytes
  <1>1. list \in Seq(V) /\ read \in Seq(V) /\ accepted = read \o list
    BY DEF Socket!TypeOK, Socket!Fifo
  <1>2. \A x \in V : x \in Nat
    BY PathConstants
  <1> HIDE DEF V
  <1>3. Len(read) \in Nat /\ Len(list) \in Nat /\ \A i \in 1..Len(list) : list[i] \in V
    BY <1>1, LenProperties, ElementOfSeq
  <1>4. /\ Len(read \o list) = Len(read) + Len(list)
        /\ \A i \in 1..(Len(read) + Len(list)) :
              (read \o list)[i] = IF i <= Len(read) THEN read[i] ELSE list[i - Len(read)]
    BY <1>1, ConcatProperties
  <1>5. Len(accepted) = Len(read) + Len(list)
    BY <1>1, <1>4
  <1>6. ASSUME NEW i \in 1..Len(list)
        PROVE  list[i] = accepted[Len(read) + i] /\ Len(read) + i \in 1..Len(accepted)
    <2>1. /\ Len(read) + i \in 1..(Len(read) + Len(list)) /\ ~(Len(read) + i <= Len(read))
          /\ (Len(read) + i) - Len(read) = i
      BY <1>3
    <2>2. QED BY <1>1, <1>4, <1>5, <2>1
  <1>7. list \in Seq(Nat)
    <2>1. list \in [1..Len(list) -> V]
      BY <1>1, LenProperties
    <2>2. list \in [1..Len(list) -> Nat]
      BY <1>2, <2>1
    <2>3. QED BY <1>3, <2>2, SeqDef
  <1>8. QED BY <1>2, <1>3, <1>5, <1>6, <1>7

\* A stream hands a packet over.
LEMMA AppendingKeeps ==
    ASSUME Socket!SocketInv, NEW size \in 1..StreamBytes, Socket!AppendingRx(size)
    PROVE  /\ Socket!SocketInv'
           /\ accepted' = accepted =>
                 \/ list # <<>> \/ size > SocketBuffer \/ ~Socket!Uniform
  <1> DEFINE V == 1..StreamBytes
             avail == Socket!Available
  <1>1. Socket!TypeOK /\ Socket!Fifo /\ Socket!CountedIfUniform
        /\ (Socket!Uniform => sockSize <= SocketBuffer)
    BY DEF Socket!SocketInv
  <1>2. /\ list \in Seq(V) /\ read \in Seq(V) /\ accepted \in Seq(V)
        /\ sockSize \in Nat /\ sockSize < Modulus
        /\ answer \in [max : ReadSizes \cup {0}, bytes : Nat]
    BY <1>1, PathConstants DEF Socket!TypeOK
  <1>3. /\ Len(list) \in Nat /\ Len(accepted) \in Nat /\ Len(read) \in Nat
        /\ \A i \in 1..Len(list) : list[i] = accepted[Len(read) + i]
        /\ \A i \in 1..Len(list) : Len(read) + i \in 1..Len(accepted)
        /\ list \in Seq(Nat)
    BY <1>1, ListFacts
  <1>4. size \in Nat /\ size > 0 /\ size \in V
    BY PathConstants
  <1>5. read' = read /\ answer' = answer
    BY DEF Socket!AppendingRx
  \* With packets of one size there is no wrap-around.
  <1>6. Socket!Uniform => avail = SocketBuffer - sockSize
    <2> SUFFICES ASSUME sockSize <= SocketBuffer
                 PROVE  avail = SocketBuffer - sockSize
      BY <1>1
    <2>1. /\ SocketBuffer - sockSize \in Int /\ 0 <= SocketBuffer - sockSize
          /\ SocketBuffer - sockSize < Modulus /\ Modulus \in Nat /\ Modulus > 0
      BY <1>2, PathConstants
    <2>2. avail = (SocketBuffer - sockSize) % Modulus
      BY DEF Socket!Available
    <2>3. QED BY <2>1, <2>2, NoWrap
  <1>7. CASE size > 0 /\ size <= avail
    <2>1. /\ list' = Append(list, size) /\ sockSize' = (sockSize + size) % Modulus
          /\ accepted' = Append(accepted, size)
      BY <1>7 DEF Socket!AppendingRx
    <2> HIDE DEF V, avail
    <2>2. /\ list' \in Seq(V) /\ Len(list') = Len(list) + 1 /\ list'[Len(list) + 1] = size
          /\ \A i \in 1..Len(list) : list'[i] = list[i]
      BY <1>2, <1>4, <2>1, AppendProperties
    <2>3. /\ accepted' \in Seq(V) /\ Len(accepted') = Len(accepted) + 1
          /\ accepted'[Len(accepted) + 1] = size
          /\ \A i \in 1..Len(accepted) : accepted'[i] = accepted[i]
      BY <1>2, <1>4, <2>1, AppendProperties
    <2>4. sockSize' \in 0..(Modulus - 1)
      <3>1. sockSize + size \in Int
        BY <1>2, <1>4
      <3>2. QED BY <2>1, <3>1, NoWrap, PathConstants
    <2>5. Socket!TypeOK'
      BY <1>2, <1>5, <2>2, <2>3, <2>4 DEF Socket!TypeOK, V
    <2>6. Socket!Fifo'
      <3>1. read \o Append(list, size) = Append(read \o list, size)
        BY <1>2, <1>4
      <3>2. QED BY <1>1, <1>5, <2>1, <3>1 DEF Socket!Fifo
    <2>7. ASSUME Socket!Uniform'
          PROVE  /\ sockSize' = Socket!Total(list') /\ sockSize' <= SocketBuffer
                 /\ answer'.bytes <= answer'.max
      <3>1. Len(accepted) + 1 \in 1..Len(accepted')
        BY <1>3, <2>3
      <3>2. \A i \in 1..Len(accepted') : accepted'[i] = size
        BY <2>3, <2>7, <3>1 DEF Socket!Uniform
      <3>3. \A i \in 1..Len(accepted) : accepted[i] = size
        BY <1>3, <2>3, <3>2
      <3>4. Socket!Uniform
        BY <3>3 DEF Socket!Uniform
      <3>5. AllAre(list, size)
        BY <1>3, <3>3 DEF AllAre
      <3>6. AllAre(list', size)
        <4>1. ASSUME NEW i \in 1..Len(list')
              PROVE  list'[i] = size
          <5>1. i = Len(list) + 1 \/ i \in 1..Len(list)
            BY <1>3, <2>2
          <5>2. QED BY <2>2, <3>5, <5>1 DEF AllAre
        <4>2. QED BY <4>1 DEF AllAre
      <3>7. sockSize = Len(list) * size /\ answer.bytes <= answer.max
        <4>1. sockSize = Socket!Total(list) /\ answer.bytes <= answer.max
          BY <1>1, <3>4 DEF Socket!CountedIfUniform, Socket!ReadLimit
        <4>2. QED BY <1>3, <1>4, <3>5, <4>1, TotalUniform
      <3>8. list' \in Seq(Nat)
        <4>1. list' = Append(list, size) /\ list \in Seq(Nat) /\ size \in Nat
          BY <1>3, <1>4, <2>1
        <4>2. QED BY <4>1, AppendProperties
      <3>9. Socket!Total(list') = (Len(list) + 1) * size
        BY <1>4, <2>2, <3>6, <3>8, TotalUniform
      <3>10. (Len(list) + 1) * size = Len(list) * size + size
        BY <1>3, <1>4
      <3>11. sockSize + size <= SocketBuffer
        BY <1>2, <1>4, <1>6, <1>7, <3>4, PathConstants
      <3>12. sockSize' = sockSize + size
        <4>1. sockSize + size \in Int /\ 0 <= sockSize + size /\ sockSize + size < Modulus
          BY <1>2, <1>4, <3>11, PathConstants
        <4>2. QED BY <2>1, <4>1, NoWrap, PathConstants
      <3>13. QED BY <1>5, <3>7, <3>9, <3>10, <3>11, <3>12
    <2>8. Socket!SocketInv'
      BY <2>5, <2>6, <2>7 DEF Socket!SocketInv, Socket!CountedIfUniform, Socket!ReadLimit
    <2>9. accepted' # accepted
      BY <1>3, <2>3
    <2>10. QED BY <2>8, <2>9
  <1>8. CASE ~(size > 0 /\ size <= avail)
    <2>1. list' = list /\ sockSize' = sockSize /\ accepted' = accepted
      BY <1>8 DEF Socket!AppendingRx
    <2>2. Socket!SocketInv'
      BY <1>1, <1>5, <2>1 DEF Socket!SocketInv, Socket!TypeOK, Socket!Fifo, Socket!Uniform,
                              Socket!CountedIfUniform, Socket!ReadLimit
    <2>3. ASSUME list = <<>>, Socket!Uniform
          PROVE  size > SocketBuffer
      <3>1. Socket!Total(list) = Len(list) * 0
        <4>1. AllAre(list, 0)
          BY <2>3 DEF AllAre
        <4>2. 0 \in Nat
          OBVIOUS
        <4>3. QED BY <1>3, <4>1, <4>2, TotalUniform
      <3>2. sockSize = Len(list) * 0
        BY <1>1, <2>3, <3>1 DEF Socket!CountedIfUniform
      <3>3. sockSize = 0
        BY <1>3, <3>2
      <3> HIDE DEF avail
      <3>4. avail = SocketBuffer
        BY <1>6, <2>3, <3>3, PathConstants
      <3>5. QED BY <1>4, <1>8, <3>4, PathConstants
    <2>4. QED BY <2>2, <2>3
  <1>9. QED BY <1>7, <1>8

\* The application reads.
LEMMA ReadKeeps ==
    ASSUME Socket!SocketInv, NEW m \in ReadSizes, Socket!Recv(m)
    PROVE  Socket!SocketInv'
  <1> DEFINE V == 1..StreamBytes
             x == Socket!Extract(m)
             t == x.taken
             n == Len(list)
             out == SubSeq(list, 1, t)
  <1>1. Socket!TypeOK /\ Socket!Fifo /\ Socket!CountedIfUniform
        /\ (Socket!Uniform => sockSize <= SocketBuffer)
    BY DEF Socket!SocketInv
  <1>2. /\ list' = SubSeq(list, t + 1, n) /\ sockSize' = x.recvSize /\ read' = read \o out
        /\ answer' = [max |-> m, bytes |-> x.bytes] /\ accepted' = accepted
    BY DEF Socket!Recv
  <1>3. list \in Seq(V) /\ read \in Seq(V) /\ accepted \in Seq(V) /\ sockSize \in Nat /\ m \in Nat
    BY <1>1, PathConstants DEF Socket!TypeOK
  <1>4. /\ n \in Nat /\ Len(accepted) \in Nat /\ Len(read) \in Nat
        /\ \A i \in 1..n : list[i] = accepted[Len(read) + i]
        /\ \A i \in 1..n : Len(read) + i \in 1..Len(accepted)
        /\ \A i \in 1..n : list[i] \in Nat
        /\ list \in Seq(Nat)
    BY <1>1, ListFacts
  <1>5. x \in Extraction /\ t \in 0..n
    BY <1>1, <1>3, ExtractTakes
  <1>6. x.recvSize \in 0..(Modulus - 1) /\ x.bytes \in Nat /\ t \in Nat /\ t <= n
    <2> HIDE DEF x
    <2>1. QED BY <1>4, <1>5 DEF Extraction
  <1> HIDE DEF x, t
  <1>7. /\ list' \in Seq(V) /\ Len(list') = n - t
        /\ \A i \in 1..(n - t) : list'[i] = list[t + i]
    <2>1. t + 1 \in 1..(n + 1) /\ n \in (t + 1 - 1)..n /\ n - (t + 1) + 1 = n - t
      BY <1>4, <1>6
    <2> DEFINE c == SubSeq(list, t + 1, n)
    <2> HIDE DEF V
    <2>2. /\ c \in Seq(V) /\ Len(c) = n - t
          /\ \A i \in 1..(n - t) : c[i] = list[t + i]
      <3>1. /\ c \in Seq(V)
            /\ Len(c) = n - (t + 1) + 1
            /\ \A i \in 1..(n - (t + 1) + 1) : c[i] = list[(t + 1) + i - 1]
        BY <1>3, <2>1, SubSeqProperties
      <3>2. \A i \in 1..(n - t) : (t + 1) + i - 1 = t + i
        BY <1>4, <1>6
      <3>3. QED BY <2>1, <3>1, <3>2
    <2>3. QED BY <1>2, <2>2
  <1>8. /\ out \in Seq(V) /\ Len(out) = t /\ \A i \in 1..t : out[i] = list[i]
    <2> HIDE DEF V
    <2>1. QED BY <1>3, <1>4, <1>6, SubSeqProperties
  <1> HIDE DEF out
  <1>9. Socket!TypeOK'
    <2>1. read' \in Seq(V)
      BY <1>2, <1>3, <1>8, ConcatProperties
    <2>2. answer' \in [max : ReadSizes \cup {0}, bytes : Nat]
      BY <1>2, <1>6
    <2>3. QED BY <1>2, <1>3, <1>6, <1>7, <2>1, <2>2 DEF Socket!TypeOK
  <1>10. Socket!Fifo'
    <2> HIDE DEF V
    <2>1. out \o list' = list
      <3>1. /\ out \o list' \in Seq(V) /\ Len(out \o list') = t + (n - t)
            /\ \A i \in 1..(t + (n - t)) :
                  (out \o list')[i] = IF i <= t THEN out[i] ELSE list'[i - t]
        BY <1>7, <1>8, ConcatProperties
      <3>2. t + (n - t) = n
        BY <1>4, <1>6
      <3>3. ASSUME NEW i \in 1..n
            PROVE  (out \o list')[i] = list[i]
        <4>1. CASE i <= t
          <5>1. i \in 1..t
            BY <1>6, <4>1
          <5>2. QED BY <1>8, <3>1, <3>2, <4>1, <5>1
        <4>2. CASE ~(i <= t)
          <5>1. i - t \in 1..(n - t) /\ t + (i - t) = i
            BY <1>4, <1>6, <4>2
          <5>2. QED BY <1>7, <3>1, <3>2, <4>2, <5>1
        <4>3. QED BY <4>1, <4>2
      <3>4. QED BY <1>3, <3>1, <3>2, <3>3, SeqEqual
    <2>2. (read \o out) \o list' = read \o (out \o list')
      <3>1. read \in Seq(V) /\ out \in Seq(V) /\ list' \in Seq(V)
        BY <1>3, <1>7, <1>8
      <3> DEFINE l == list'
      <3> HIDE DEF l
      <3>2. (read \o out) \o l = read \o (out \o l)
        BY <3>1, ConcatAssociative DEF l
      <3>3. QED BY <3>2 DEF l
    <2>3. QED BY <1>1, <1>2, <2>1, <2>2 DEF Socket!Fifo
  <1>11. ASSUME Socket!Uniform'
         PROVE  /\ sockSize' = Socket!Total(list') /\ sockSize' <= SocketBuffer
                /\ answer'.bytes <= answer'.max
    <2>1. Socket!Uniform
      BY <1>2, <1>11 DEF Socket!Uniform
    <2>2. PICK v \in Nat : AllAre(list, v)
      <3>1. CASE n = 0
        BY <3>1 DEF AllAre
      <3>2. CASE n # 0
        <4>1. 1 \in 1..n
          BY <1>4, <3>2
        <4>2. AllAre(list, list[1]) /\ list[1] \in Nat
          BY <1>4, <2>1, <4>1 DEF AllAre, Socket!Uniform
        <4>3. QED BY <4>2
      <3>3. QED BY <3>1, <3>2
    <2>3. /\ x.bytes = t * v /\ x.bytes <= m /\ x.bytes <= sockSize
          /\ x.recvSize = sockSize - x.bytes
      BY <1>1, <1>3, <2>2, ExtractCounts DEF Counts, x, t
    <2>4. sockSize = n * v /\ sockSize <= SocketBuffer
      <3>1. sockSize = Socket!Total(list) /\ sockSize <= SocketBuffer
        BY <1>1, <2>1 DEF Socket!CountedIfUniform
      <3>2. QED BY <1>4, <2>2, <3>1, TotalUniform
    <2>5. AllAre(list', v) /\ list' \in Seq(Nat)
      <3>1. ASSUME NEW i \in 1..Len(list')
            PROVE  list'[i] = v
        <4>1. i \in 1..(n - t) /\ t + i \in 1..n
          BY <1>4, <1>6, <1>7
        <4>2. QED BY <1>7, <2>2, <4>1 DEF AllAre
      <3>2. list' \in Seq(Nat)
        <4>1. t + 1 \in 1..(n + 1)
          BY <1>4, <1>6
        <4>2. QED BY <1>2, <1>4, <1>6, <4>1, SubSeqProperties
      <3>3. QED BY <3>1, <3>2 DEF AllAre
    <2>6. Socket!Total(list') = (n - t) * v
      BY <1>7, <2>2, <2>5, TotalUniform
    <2>7. (n - t) * v = n * v - t * v
      BY <1>4, <1>6, <2>2
    <2>8. answer'.bytes = x.bytes /\ answer'.max = m
      BY <1>2
    <2>9. sockSize' = sockSize - x.bytes /\ sockSize' <= SocketBuffer
      BY <1>2, <1>3, <1>6, <2>3, <2>4, PathConstants
    <2>10. QED BY <2>3, <2>4, <2>6, <2>7, <2>8, <2>9
  <1>12. QED BY <1>9, <1>10, <1>11 DEF Socket!SocketInv, Socket!CountedIfUniform, Socket!ReadLimit

\* An empty buffer.
LEMMA SocketInit == Socket!Init => Socket!SocketInv
  <1> SUFFICES ASSUME Socket!Init PROVE Socket!SocketInv
    OBVIOUS
  <1>1. /\ list = <<>> /\ sockSize = 0 /\ accepted = <<>> /\ read = <<>>
        /\ answer = [max |-> 0, bytes |-> 0]
    BY DEF Socket!Init
  <1>2. Socket!TypeOK
    <2>1. sockSize \in 0..(Modulus - 1)
      BY <1>1, PathConstants
    <2>2. QED BY <1>1, <2>1 DEF Socket!TypeOK
  <1>3. Socket!Fifo
    BY <1>1 DEF Socket!Fifo
  <1>4. sockSize = Socket!Total(list)
    <2>1. AllAre(list, 0) /\ list \in Seq(Nat) /\ 0 \in Nat /\ Len(list) = 0
      BY <1>1 DEF AllAre
    <2>2. Socket!Total(list) = Len(list) * 0
      BY <2>1, TotalUniform
    <2>3. QED BY <1>1, <2>1, <2>2
  <1>5. answer.bytes <= answer.max /\ sockSize <= SocketBuffer
    BY <1>1, PathConstants
  <1>6. QED BY <1>2, <1>3, <1>4, <1>5 DEF Socket!SocketInv, Socket!CountedIfUniform, Socket!ReadLimit

-----------------------------------------------------------------------------
\* Every step of the path keeps the invariant of both parts, and a packet is
\* dropped only for a reason.
LEMMA PathStep ==
    ASSUME PathInv, [PathNext]_pathVars
    PROVE  /\ PathInv'
           /\ Len(handed') > Len(handed) /\ accepted' = accepted =>
                 \/ list # <<>>
                 \/ Len(handed') - Len(handed) > SocketBuffer
                 \/ ~Socket!Uniform
  <1> DEFINE Drop == Len(handed') > Len(handed) /\ accepted' = accepted =>
                         \/ list # <<>>
                         \/ Len(handed') - Len(handed) > SocketBuffer
                         \/ ~Socket!Uniform
             Same == UNCHANGED socketVars => Socket!SocketInv'
  <1>1. StreamInv /\ Socket!SocketInv /\ Len(handed) \in Nat
    BY LenProperties DEF PathInv, StreamInv, TypeOK
  <1>2. Same
    BY <1>1 DEF socketVars, Socket!SocketInv, Socket!TypeOK, Socket!Fifo, Socket!Uniform,
                Socket!CountedIfUniform, Socket!ReadLimit
  <1>3. ASSUME UNCHANGED vars
        PROVE  StreamInv' /\ Drop
    <2>1. /\ frames' = frames /\ sentSize' = sentSize /\ received' = received
          /\ recvSize' = recvSize /\ buffer' = buffer /\ numBytes' = numBytes
          /\ maxAdvertised' = maxAdvertised /\ handed' = handed /\ aborted' = aborted
          /\ stale' = stale
      BY <1>3 DEF vars
    <2>2. StreamInv'
      BY <1>1, <2>1 DEF StreamInv, TypeOK, CutInv, BufferInv, PassedInv, InOrder, Edge
    <2>3. QED BY <1>1, <2>1, <2>2
  <1>4. ASSUME NEW length \in FrameSizes, SendDataFrame(length), UNCHANGED socketVars
        PROVE  PathInv' /\ Drop
    <2>1. StreamInv'
      BY <1>1, <1>4, SendKeeps
    <2>2. handed' = handed
      BY <1>4 DEF SendDataFrame
    <2>3. QED BY <1>1, <1>2, <1>4, <2>1, <2>2 DEF PathInv
  <1>5. ASSUME NEW f \in frames, Arrive(f)
        PROVE  PathInv' /\ Drop
    <2>1. /\ Recv(f)
          /\ Len(handed') > Len(handed) => Socket!AppendingRx(Len(handed') - Len(handed))
          /\ ~(Len(handed') > Len(handed)) => UNCHANGED socketVars
      BY <1>5 DEF Arrive
    <2>2. /\ StreamInv'
          /\ Len(handed') > Len(handed) => Len(handed') - Len(handed) \in 1..StreamBytes
      BY <1>1, <2>1, RecvKeeps
    <2>3. CASE Len(handed') > Len(handed)
      <3> DEFINE size == Len(handed') - Len(handed)
      <3>1. size \in 1..StreamBytes /\ Socket!AppendingRx(size)
        BY <2>1, <2>2, <2>3
      <3> HIDE DEF size
      <3>2. /\ Socket!SocketInv'
            /\ accepted' = accepted => list # <<>> \/ size > SocketBuffer \/ ~Socket!Uniform
        BY <1>1, <3>1, AppendingKeeps
      <3>3. QED BY <2>2, <3>2 DEF PathInv, size
    <2>4. CASE ~(Len(handed') > Len(handed))
      BY <1>2, <2>1, <2>2, <2>4 DEF PathInv
    <2>5. QED BY <2>3, <2>4
  <1>6. ASSUME NEW m \in ReadSizes, Read(m)
        PROVE  PathInv' /\ Drop
    <2>1. Socket!SocketInv'
      BY <1>1, <1>6, ReadKeeps DEF Read
    <2>2. QED BY <1>3, <1>6, <2>1 DEF PathInv, Read
  <1>7. CASE UNCHANGED pathVars
    BY <1>2, <1>3, <1>7 DEF PathInv, pathVars
  <1>8. QED BY <1>4, <1>5, <1>6, <1>7 DEF PathNext

\* The initial states satisfy the invariant.
LEMMA PathStart == PathInit => PathInv
  BY StreamInit, SocketInit DEF PathInit, PathInv

\* PathInv holds throughout, for every cutting of every stream and all buffers.
THEOREM PathInvariant == PathSpec => []PathInv
  <1>1. PathInit => PathInv
    BY PathStart
  <1>2. PathInv /\ [PathNext]_pathVars => PathInv'
    BY PathStep
  <1>3. QED BY <1>1, <1>2, PTL DEF PathSpec

\* The buffers of the stream and of the socket keep their types: neither holds
\* more than its limit, and m_recvSize of the socket remains a uint32_t.
THEOREM PathTypeCorrect == PathSpec => []PathTypeOK
  <1>1. PathInv => PathTypeOK
    BY DEF PathInv, StreamInv, Socket!SocketInv, PathTypeOK
  <1>2. QED BY <1>1, PathInvariant, PTL

\* QuicStreamBase::Recv passes up the peer's bytes, each once, none skipped, as
\* long as no frame is received after it was passed up.
THEOREM StreamInOrder == PathSpec => []InOrderUnlessStale
  <1>1. PathInv => InOrderUnlessStale
    BY DEF PathInv, StreamInv, PassedInv, InOrderUnlessStale
  <1>2. QED BY <1>1, PathInvariant, PTL

\* The reordering buffer holds only data behind a gap: when all frames have
\* arrived, all have been passed up.
THEOREM ReleasesWhatItCan == PathSpec => []NothingHeldBack
  <1>1. PathInv => NothingHeldBack
    <2> SUFFICES ASSUME PathInv, ~stale
                 PROVE  /\ \A i \in 1..Len(buffer) : buffer[i].offset > recvSize
                        /\ ~aborted /\ received = frames => recvSize = sentSize
      BY DEF NothingHeldBack
    <2>1. /\ TypeOK /\ CutInv /\ BufferInv /\ Edge(recvSize)
          /\ \A i \in 1..Len(buffer) : buffer[i].offset > recvSize
          /\ ~aborted => \A f \in received :
                f.offset < recvSize \/ \E i \in 1..Len(buffer) : buffer[i] = f
      BY DEF PathInv, StreamInv, PassedInv
    <2>2. ASSUME ~aborted, received = frames, recvSize # sentSize
          PROVE  FALSE
      <3>1. PICK f \in frames : f.offset = recvSize
        BY <2>1, <2>2 DEF Edge
      <3>2. recvSize \in Nat
        BY <2>1 DEF TypeOK
      <3>3. PICK i \in 1..Len(buffer) : buffer[i] = f
        BY <2>1, <2>2, <3>1, <3>2
      <3>4. QED BY <2>1, <3>1, <3>2, <3>3
    <2>3. QED BY <2>1, <2>2
  <1>2. QED BY <1>1, PathInvariant, PTL

\* The application gets the accepted packets in order, and none is lost between
\* Add and Extract.
THEOREM ReadsInOrder == PathSpec => []Fifo
  <1>1. PathInv => Fifo
    BY DEF PathInv, Socket!SocketInv, Fifo
  <1>2. QED BY <1>1, PathInvariant, PTL

\* With packets of one size, Extract's use of the erased iterator is harmless:
\* m_recvSize is the number of bytes in the buffer and requests are respected.
THEOREM CountsUniform == PathSpec => []CountedIfUniform
  <1>1. PathInv => CountedIfUniform
    BY DEF PathInv, Socket!SocketInv, CountedIfUniform
  <1>2. QED BY <1>1, PathInvariant, PTL

\* AppendingRx drops what a stream has passed up only if the application has left
\* something unread, or a packet exceeds the buffer, or sizes differ.
THEOREM DropsForAReason == PathSpec => DropsOnlyWhenFull
  <1>1. PathInv /\ [PathNext]_pathVars =>
            [Len(handed') > Len(handed) /\ accepted' = accepted =>
                \/ list # <<>>
                \/ Len(handed') - Len(handed) > SocketBuffer
                \/ ~Socket!Uniform]_pathVars
    BY PathStep
  <1>2. PathInit => PathInv
    BY PathStart
  <1>3. PathInv /\ [PathNext]_pathVars => PathInv'
    BY PathStep
  <1>4. QED BY <1>1, <1>2, <1>3, PTL DEF PathSpec, DropsOnlyWhenFull
=============================================================================
