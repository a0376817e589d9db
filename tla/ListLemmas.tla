----------------------------- MODULE ListLemmas -----------------------------
(***************************************************************************)
(* What the proofs need to know about lists and loops: induction, the      *)
(* existence of a function defined by recursion, the first place of a list *)
(* where a condition fails, and the sequence FlattenSeq makes of a list of *)
(* sequences.                                                              *)
(***************************************************************************)
EXTENDS Integers, Sequences, SequencesExt, SequenceTheorems,
        WellFoundedInduction, TLAPS

\* Induction over the natural numbers, for a set of numbers.
LEMMA Induction ==
    ASSUME NEW S, 0 \in S, \A n \in Nat : n \in S => n + 1 \in S
    PROVE  \A n \in Nat : n \in S
  <1> DEFINE T == {n \in Nat : n \notin S}
             R == OpToRel(<, Nat)
  <1> SUFFICES ASSUME T # {} PROVE FALSE
    OBVIOUS
  <1>1. IsWellFoundedOn(R, Nat)
    BY NatLessThanWellFounded, Zenon
  <1>2. \A x, y \in Nat : x < y => <<x, y>> \in R
    BY DEF OpToRel
  <1> HIDE DEF R
  <1>3. PICK n \in T : \A m \in T : ~(<<m, n>> \in R)
    BY <1>1, WFMin
  <1>4. n \in Nat /\ n # 0 /\ n - 1 \in Nat /\ n - 1 < n /\ n = (n - 1) + 1
    BY <1>3
  <1>5. n - 1 \in S
    <2>1. <<n - 1, n>> \in R
      BY <1>2, <1>4
    <2>2. n - 1 \notin T
      BY <1>3, <2>1
    <2>3. QED BY <1>4, <2>2
  <1>6. QED BY <1>3, <1>4, <1>5

\* The function f on 0..n begins with base and continues with step.
Recursive(f, n, base, step) ==
    f = [i \in 0..n |-> IF i = 0 THEN base ELSE step[<<f[i - 1], i>>]]

\* A function that is defined by recursion over 0..n exists.
LEMMA RecursionExists ==
    ASSUME NEW V, NEW base \in V, NEW n \in Nat, NEW step \in [V \X (1..n) -> V]
    PROVE  \E f \in [0..n -> V] : Recursive(f, n, base, step)
  <1> DEFINE Upto(k, f) == /\ f \in [0..k -> V]
                           /\ f[0] = base
                           /\ \A i \in 1..k : f[i] = step[<<f[i - 1], i>>]
             S == {k \in Nat : k <= n => \E f : Upto(k, f)}
  <1>1. 0 \in S
    <2> DEFINE f == [i \in 0..0 |-> base]
    <2>1. Upto(0, f)
      OBVIOUS
    <2>2. QED BY <2>1
  <1>2. ASSUME NEW k \in Nat, k \in S
        PROVE  k + 1 \in S
    <2> SUFFICES ASSUME k + 1 <= n
                 PROVE  \E f : Upto(k + 1, f)
      OBVIOUS
    <2>1. PICK f : Upto(k, f)
      BY <1>2
    <2> DEFINE g == [i \in 0..(k + 1) |-> IF i <= k THEN f[i] ELSE step[<<f[k], k + 1>>]]
    <2>2. f[k] \in V /\ k + 1 \in 1..n
      BY <2>1
    <2>3. step[<<f[k], k + 1>>] \in V
      BY <2>2
    <2>4. g \in [0..(k + 1) -> V] /\ g[0] = base
      BY <2>1, <2>3
    <2>5. ASSUME NEW i \in 1..(k + 1)
          PROVE  g[i] = step[<<g[i - 1], i>>]
      <3>1. CASE i <= k
        BY <2>1, <3>1
      <3>2. CASE i = k + 1
        BY <3>2
      <3>3. QED BY <3>1, <3>2
    <2>6. Upto(k + 1, g)
      BY <2>4, <2>5
    <2>7. QED BY <2>6
  <1>3. n \in S
    <2> HIDE DEF S
    <2>1. QED BY <1>1, <1>2, Induction
  <1>4. PICK f : Upto(n, f)
    BY <1>3
  <1>5. Recursive(f, n, base, step)
    BY <1>4 DEF Recursive
  <1>6. QED BY <1>4, <1>5

-----------------------------------------------------------------------------
\* Whatever follows the recursion as long as it is in V stays in V.
LEMMA RecursionIn ==
    ASSUME NEW V, NEW n \in Nat, NEW g, g[0] \in V,
           \A i \in 1..n : g[i - 1] \in V => g[i] \in V
    PROVE  \A i \in 0..n : g[i] \in V
  <1> DEFINE S == {k \in Nat : k <= n => g[k] \in V}
  <1>1. 0 \in S
    OBVIOUS
  <1>2. ASSUME NEW k \in Nat, k \in S
        PROVE  k + 1 \in S
    <2>1. SUFFICES ASSUME k + 1 <= n
                   PROVE  g[k + 1] \in V
      OBVIOUS
    <2>2. k + 1 \in 1..n /\ (k + 1) - 1 = k /\ g[k] \in V
      BY <1>2, <2>1
    <2>3. QED BY <2>2
  <1>3. \A k \in Nat : k \in S
    <2> HIDE DEF S
    <2>1. QED BY <1>1, <1>2, Induction
  <1>4. QED BY <1>3

\* The first of n places, or the place behind them, that is not in A.
LEMMA FirstOutside ==
    ASSUME NEW A, NEW n \in Nat
    PROVE  \E i \in 1..(n + 1) : (\A j \in 1..(i - 1) : j \in A) /\ (i <= n => i \notin A)
  <1> DEFINE P(m) == \E i \in 1..(m + 1) : /\ \A j \in 1..(i - 1) : j \in A
                                           /\ i <= m => i \notin A
             S == {m \in Nat : P(m)}
  <1>1. 0 \in S
    <2>1. 1 \in 1..(0 + 1) /\ (\A j \in 1..(1 - 1) : j \in A) /\ ~(1 <= 0)
      OBVIOUS
    <2>2. P(0)
      BY <2>1
    <2>3. QED BY <2>2
  <1>2. ASSUME NEW m \in Nat, m \in S
        PROVE  m + 1 \in S
    <2>1. PICK i \in 1..(m + 1) : (\A j \in 1..(i - 1) : j \in A) /\ (i <= m => i \notin A)
      BY <1>2
    <2>2. CASE i \notin A
      <3>1. i \in 1..((m + 1) + 1)
        OBVIOUS
      <3>2. P(m + 1)
        BY <2>1, <2>2, <3>1
      <3>3. QED BY <3>2
    <2>3. CASE i \in A
      <3>1. i = m + 1 /\ i + 1 \in 1..((m + 1) + 1) /\ ~(i + 1 <= m + 1)
        BY <2>1, <2>3
      <3>2. \A j \in 1..((i + 1) - 1) : j \in A
        BY <2>1, <2>3
      <3>3. P(m + 1)
        BY <3>1, <3>2
      <3>4. QED BY <3>3
    <2>4. QED BY <2>2, <2>3
  <1>3. n \in S
    <2> HIDE DEF S
    <2>1. QED BY <1>1, <1>2, Induction
  <1>4. QED BY <1>3

-----------------------------------------------------------------------------
\* The sequence p holds what the first items of s make together.
Sums(s, p) ==
    /\ p[0] = <<>>
    /\ \A i \in 1..Len(s) : p[i] = p[i - 1] \o s[i]

\* FlattenSeq ends with the last of them, whichever function describes them.
LEMMA FlatIs ==
    ASSUME NEW S, NEW s \in Seq(Seq(S)), NEW p \in [0..Len(s) -> Seq(S)], Sums(s, p)
    PROVE  FlattenSeq(s) = p[Len(s)]
  <1> DEFINE n == Len(s)
             Eq(f) == f = [i \in 1..n |-> IF i = 1 THEN s[i] ELSE f[i - 1] \o s[i]]
  <1>1. n \in Nat /\ \A i \in 1..n : s[i] \in Seq(S)
    BY LenProperties, ElementOfSeq
  <1>2. CASE n = 0
    <2>1. s = <<>>
      BY <1>2, EmptySeq
    <2>2. QED BY <1>2, <2>1 DEF FlattenSeq, Sums
  <1>3. CASE n # 0
    <2>1. FlattenSeq(s) = (CHOOSE f : Eq(f))[n]
      BY <1>3 DEF FlattenSeq
    <2> HIDE DEF n
    <2> DEFINE g == [i \in 1..n |-> p[i]]
    <2>2. \A i \in 1..n : p[i - 1] \in Seq(S) /\ p[i] = p[i - 1] \o s[i]
      <3>1. \A i \in 1..n : i - 1 \in 0..n
        BY <1>1 DEF n
      <3>2. \A i \in 0..n : p[i] \in Seq(S)
        BY DEF n
      <3>3. QED BY <3>1, <3>2 DEF Sums, n
    <2>3. n > 0 => p[1] = s[1]
      <3>1. SUFFICES ASSUME n > 0 PROVE p[1] = s[1]
        OBVIOUS
      <3>2. s[1] \in Seq(S) /\ p[1] = <<>> \o s[1]
        <4>1. 1 \in 1..n /\ 1 - 1 = 0 /\ p[0] = <<>>
          BY <1>1, <3>1 DEF Sums
        <4>2. QED BY <1>1, <2>2, <4>1
      <3>3. QED BY <3>2, ConcatEmptySeq
    <2>4. Eq(g)
      <3>1. \A i \in 1..n : i # 1 => i - 1 \in 1..n
        BY <1>1
      <3>2. ASSUME NEW i \in 1..n
            PROVE  p[i] = IF i = 1 THEN s[i] ELSE g[i - 1] \o s[i]
        <4>1. CASE i = 1
          <5>1. n > 0
            BY <1>1, <4>1
          <5>2. QED BY <2>3, <4>1, <5>1
        <4>2. CASE i # 1
          <5>1. g[i - 1] = p[i - 1]
            BY <3>1, <4>2
          <5>2. QED BY <2>2, <4>2, <5>1
        <4>3. QED BY <4>1, <4>2
      <3>3. QED BY <3>2
    <2>5. Eq(CHOOSE f : Eq(f))
      BY <2>4
    <2>6. PICK f : f = CHOOSE h : Eq(h)
      OBVIOUS
    <2>7. f = [i \in 1..n |-> IF i = 1 THEN s[i] ELSE f[i - 1] \o s[i]]
      BY <2>5, <2>6
    <2>8. \A i \in 1..n : f[i] = IF i = 1 THEN s[i] ELSE f[i - 1] \o s[i]
      BY <2>7
    <2> DEFINE T == {k \in Nat : k + 1 <= n => f[k + 1] = p[k + 1]}
    <2>9. 0 \in T
      BY <1>1, <2>3, <2>8
    <2>10. ASSUME NEW k \in Nat, k \in T
           PROVE  k + 1 \in T
      <3>1. SUFFICES ASSUME (k + 1) + 1 <= n
                     PROVE  f[(k + 1) + 1] = p[(k + 1) + 1]
        OBVIOUS
      <3>2. /\ f[k + 1] = p[k + 1] /\ (k + 1) + 1 \in 1..n
            /\ (k + 1) + 1 # 1 /\ ((k + 1) + 1) - 1 = k + 1
        BY <1>1, <2>10, <3>1
      <3>3. f[(k + 1) + 1] = f[k + 1] \o s[(k + 1) + 1]
        BY <2>8, <3>2
      <3>4. p[(k + 1) + 1] = p[k + 1] \o s[(k + 1) + 1]
        BY <2>2, <3>2
      <3>5. QED BY <3>2, <3>3, <3>4
    <2>11. \A k \in Nat : k \in T
      <3> HIDE DEF T
      <3>1. QED BY <2>9, <2>10, Induction
    <2>12. n - 1 \in Nat /\ (n - 1) + 1 = n /\ n <= n
      BY <1>1, <1>3 DEF n
    <2>13. f[n] = p[n]
      BY <2>11, <2>12
    <2>14. QED BY <2>1, <2>6, <2>13 DEF n
  <1>4. QED BY <1>2, <1>3

\* Such a function exists.
LEMMA FlatExists ==
    ASSUME NEW S, NEW s \in Seq(Seq(S))
    PROVE  \E p \in [0..Len(s) -> Seq(S)] : Sums(s, p) /\ FlattenSeq(s) = p[Len(s)]
  <1> DEFINE n == Len(s)
             V == Seq(S)
             step == [w \in V \X (1..n) |-> w[1] \o s[w[2]]]
  <1>1. n \in Nat /\ <<>> \in V /\ \A i \in 1..n : s[i] \in V
    BY LenProperties, ElementOfSeq, EmptySeq
  <1>2. \A v \in V, i \in 1..n : v \o s[i] \in V /\ step[<<v, i>>] = v \o s[i]
    BY <1>1, ConcatProperties
  <1>3. step \in [V \X (1..n) -> V]
    BY <1>2
  <1> HIDE DEF step, n, V
  <1>4. PICK p \in [0..n -> V] : Recursive(p, n, <<>>, step)
    <2>1. n \in Nat /\ <<>> \in V
      BY <1>1
    <2>2. QED BY <1>3, <2>1, RecursionExists
  <1>5. p[0] = <<>> /\ \A i \in 1..n : p[i] = step[<<p[i - 1], i>>] /\ p[i - 1] \in V
    BY <1>1, <1>4 DEF Recursive
  <1>6. Sums(s, p)
    BY <1>2, <1>5 DEF Sums, n
  <1>7. FlattenSeq(s) = p[n]
    BY <1>4, <1>6, FlatIs DEF n, V
  <1>8. QED BY <1>4, <1>6, <1>7 DEF n, V

\* Flattening keeps the type.
LEMMA FlatType ==
    ASSUME NEW S, NEW s \in Seq(Seq(S))
    PROVE  FlattenSeq(s) \in Seq(S) /\ Len(FlattenSeq(s)) \in Nat
  <1>1. PICK p \in [0..Len(s) -> Seq(S)] : FlattenSeq(s) = p[Len(s)]
    BY FlatExists
  <1>2. Len(s) \in Nat
    BY LenProperties
  <1>3. FlattenSeq(s) \in Seq(S)
    BY <1>1, <1>2
  <1>4. QED BY <1>3, LenProperties

\* Nothing makes nothing, and one item makes itself.
LEMMA FlatSmall ==
    ASSUME NEW S, NEW x \in Seq(S)
    PROVE  FlattenSeq(<<>>) = <<>> /\ FlattenSeq(<<x>>) = x
  <1>1. FlattenSeq(<<>>) = <<>>
    BY DEF FlattenSeq
  <1>2. <<x>> \in Seq(Seq(S)) /\ Len(<<x>>) = 1 /\ <<x>>[1] = x
    OBVIOUS
  <1> DEFINE p == [i \in 0..1 |-> IF i = 0 THEN <<>> ELSE x]
  <1>3. <<>> \in Seq(S) /\ <<>> \o x = x
    BY EmptySeq, ConcatEmptySeq
  <1>4. p \in [0..Len(<<x>>) -> Seq(S)]
    BY <1>2, <1>3
  <1>5. p[0] = <<>> /\ p[1] = x
    OBVIOUS
  <1> HIDE DEF p
  <1>6. Sums(<<x>>, p)
    <2>1. \A i \in 1..1 : i = 1 /\ i - 1 = 0
      OBVIOUS
    <2>2. p[1] = p[1 - 1] \o <<x>>[1]
      BY <1>2, <1>3, <1>5
    <2>3. QED BY <1>2, <1>5, <2>1, <2>2 DEF Sums
  <1>7. FlattenSeq(<<x>>) = p[1]
    BY <1>2, <1>4, <1>6, FlatIs
  <1>8. QED BY <1>1, <1>5, <1>7

\* Flattening a concatenation.
LEMMA FlatConcat ==
    ASSUME NEW S, NEW s \in Seq(Seq(S)), NEW t \in Seq(Seq(S))
    PROVE  FlattenSeq(s \o t) = FlattenSeq(s) \o FlattenSeq(t)
  <1>1. PICK p \in [0..Len(s) -> Seq(S)] : Sums(s, p) /\ FlattenSeq(s) = p[Len(s)]
    BY FlatExists
  <1>2. PICK r \in [0..Len(t) -> Seq(S)] : Sums(t, r) /\ FlattenSeq(t) = r[Len(t)]
    BY FlatExists
  <1>3. PICK m, n : m = Len(s) /\ n = Len(t) /\ m \in Nat /\ n \in Nat
    BY LenProperties
  <1>4. PICK c : c = s \o t
    OBVIOUS
  <1>5. /\ c \in Seq(Seq(S)) /\ Len(c) = m + n
        /\ \A i \in 1..(m + n) : c[i] = IF i <= m THEN s[i] ELSE t[i - m]
    BY <1>3, <1>4, ConcatProperties
  <1> DEFINE q == [i \in 0..(m + n) |-> IF i <= m THEN p[i] ELSE p[m] \o r[i - m]]
  <1>6. p[m] \in Seq(S) /\ \A j \in 0..n : r[j] \in Seq(S) /\ p[m] \o r[j] \in Seq(S)
    <2>1. m \in 0..m /\ m = Len(s) /\ n = Len(t)
      BY <1>3
    <2>2. p[m] \in Seq(S) /\ \A j \in 0..n : r[j] \in Seq(S)
      BY <1>1, <1>2, <2>1
    <2>3. QED BY <2>2, ConcatProperties
  <1>7. q \in [0..(m + n) -> Seq(S)]
    <2>1. ASSUME NEW i \in 0..(m + n)
          PROVE  (IF i <= m THEN p[i] ELSE p[m] \o r[i - m]) \in Seq(S)
      <3>1. CASE i <= m
        <4>1. i \in 0..Len(s)
          BY <1>3, <3>1
        <4>2. QED BY <3>1, <4>1
      <3>2. CASE ~(i <= m)
        <4>1. i - m \in 0..n
          BY <1>3, <3>2
        <4>2. QED BY <1>6, <3>2, <4>1
      <3>3. QED BY <3>1, <3>2
    <2>2. QED BY <2>1
  <1>8. q[0] = <<>>
    BY <1>1, <1>3 DEF Sums
  <1>9. ASSUME NEW i \in 1..(m + n)
        PROVE  q[i] = q[i - 1] \o c[i]
    <2>1. CASE i <= m
      <3>1. q[i] = p[i] /\ q[i - 1] = p[i - 1] /\ c[i] = s[i] /\ i \in 1..Len(s)
        BY <1>3, <1>5, <2>1
      <3>2. QED BY <1>1, <3>1 DEF Sums
    <2>2. CASE ~(i <= m)
      <3>1. PICK j : j = i - m /\ j \in 1..n /\ (i - 1) - m = j - 1 /\ j - 1 \in 0..n
        BY <1>3, <2>2
      <3>2. q[i] = p[m] \o r[j] /\ c[i] = t[j]
        <4>1. i \in 0..(m + n) /\ q[i] = p[m] \o r[i - m]
          BY <1>3, <2>2
        <4>2. c[i] = t[i - m]
          BY <1>5, <2>2
        <4>3. QED BY <3>1, <4>1, <4>2
      <3>3. r[j] = r[j - 1] \o t[j] /\ t[j] \in Seq(S) /\ r[j - 1] \in Seq(S)
        BY <1>2, <1>3, <1>6, <3>1, ElementOfSeq DEF Sums
      <3>4. q[i - 1] = p[m] \o r[j - 1]
        <4>1. CASE i - 1 <= m
          <5>1. i - 1 = m /\ j - 1 = 0
            BY <1>3, <2>2, <3>1, <4>1
          <5>2. q[i - 1] = p[m] /\ r[j - 1] = <<>>
            BY <1>2, <1>3, <5>1 DEF Sums
          <5>3. QED BY <1>6, <5>2, ConcatEmptySeq
        <4>2. CASE ~(i - 1 <= m)
          BY <1>3, <3>1, <4>2
        <4>3. QED BY <4>1, <4>2
      <3>5. (p[m] \o r[j - 1]) \o t[j] = p[m] \o (r[j - 1] \o t[j])
        <4>1. p[m] \in Seq(S)
          BY <1>6
        <4>2. PICK a, b, d : a = p[m] /\ b = r[j - 1] /\ d = t[j]
          OBVIOUS
        <4>3. a \in Seq(S) /\ b \in Seq(S) /\ d \in Seq(S)
          BY <3>3, <4>1, <4>2
        <4>4. (a \o b) \o d = a \o (b \o d)
          BY <4>3, ConcatAssociative
        <4>5. QED BY <4>2, <4>4
      <3>6. QED BY <3>2, <3>3, <3>4, <3>5
    <2>3. QED BY <2>1, <2>2
  <1>10. q[m + n] = p[m] \o r[n]
    <2>1. CASE n = 0
      <3>1. q[m + n] = p[m] /\ r[n] = <<>>
        BY <1>2, <1>3, <2>1 DEF Sums
      <3>2. QED BY <1>6, <3>1, ConcatEmptySeq
    <2>2. CASE n # 0
      <3>1. m + n \in 0..(m + n) /\ ~(m + n <= m) /\ (m + n) - m = n
        BY <1>3, <2>2
      <3>2. QED BY <3>1
    <2>3. QED BY <2>1, <2>2
  <1> HIDE DEF q
  <1>11. Sums(c, q)
    BY <1>5, <1>8, <1>9 DEF Sums
  <1>12. FlattenSeq(c) = q[m + n]
    <2>1. q \in [0..Len(c) -> Seq(S)]
      BY <1>5, <1>7
    <2>2. FlattenSeq(c) = q[Len(c)]
      BY <1>5, <1>11, <2>1, FlatIs
    <2>3. QED BY <1>5, <2>2
  <1>13. QED BY <1>1, <1>2, <1>3, <1>4, <1>10, <1>12

\* The first k items and the rest.
LEMMA FlatSplit ==
    ASSUME NEW S, NEW s \in Seq(Seq(S)), NEW k \in 0..Len(s)
    PROVE  /\ SubSeq(s, 1, k) \in Seq(Seq(S)) /\ Len(SubSeq(s, 1, k)) = k
           /\ SubSeq(s, k + 1, Len(s)) \in Seq(Seq(S))
           /\ Len(SubSeq(s, k + 1, Len(s))) = Len(s) - k
           /\ SubSeq(s, 1, k) \o SubSeq(s, k + 1, Len(s)) = s
           /\ FlattenSeq(s) = FlattenSeq(SubSeq(s, 1, k))
                                  \o FlattenSeq(SubSeq(s, k + 1, Len(s)))
  <1>1. PICK n : n = Len(s) /\ n \in Nat
    BY LenProperties
  <1>2. \A i \in 1..n : s[i] \in Seq(S)
    BY <1>1, ElementOfSeq
  <1>3. SubSeq(s, 1, k) \in Seq(Seq(S)) /\ Len(SubSeq(s, 1, k)) = k
    <2>1. 1 \in Int /\ k \in Int /\ \A i \in 1..k : s[i] \in Seq(S)
      BY <1>1, <1>2
    <2>2. /\ SubSeq(s, 1, k) \in Seq(Seq(S))
          /\ Len(SubSeq(s, 1, k)) = IF 1 <= k THEN k - 1 + 1 ELSE 0
      BY <2>1, SubSeqProperties
    <2>3. QED BY <1>1, <2>2
  <1>4. SubSeq(s, k + 1, n) \in Seq(Seq(S)) /\ Len(SubSeq(s, k + 1, n)) = n - k
    <2>1. k + 1 \in Int /\ n \in Int /\ \A i \in (k + 1)..n : s[i] \in Seq(S)
      BY <1>1, <1>2
    <2>2. /\ SubSeq(s, k + 1, n) \in Seq(Seq(S))
          /\ Len(SubSeq(s, k + 1, n)) = IF k + 1 <= n THEN n - (k + 1) + 1 ELSE 0
      BY <2>1, SubSeqProperties
    <2>3. QED BY <1>1, <2>2
  <1>5. SubSeq(s, 1, k) \o SubSeq(s, k + 1, n) = s
    <2>1. 1 \in 1..Len(s) + 1 /\ k \in 1 - 1..Len(s) /\ n \in k..Len(s)
      BY <1>1
    <2>2. SubSeq(s, 1, k) \o SubSeq(s, k + 1, n) = SubSeq(s, 1, n)
      BY <2>1, ConcatAdjacentSubSeq
    <2>3. QED BY <1>1, <2>2, SubSeqFull
  <1>6. PICK a, b : a = SubSeq(s, 1, k) /\ b = SubSeq(s, k + 1, n)
    OBVIOUS
  <1>7. FlattenSeq(a \o b) = FlattenSeq(a) \o FlattenSeq(b)
    BY <1>3, <1>4, <1>6, FlatConcat
  <1>8. QED BY <1>1, <1>3, <1>4, <1>5, <1>6, <1>7

\* One item is added to the first k.
LEMMA FlatNext ==
    ASSUME NEW S, NEW s \in Seq(Seq(S)), NEW k \in 0..(Len(s) - 1)
    PROVE  /\ FlattenSeq(SubSeq(s, 1, k + 1)) = FlattenSeq(SubSeq(s, 1, k)) \o s[k + 1]
           /\ FlattenSeq(SubSeq(s, 1, k)) \in Seq(S) /\ s[k + 1] \in Seq(S)
  <1>1. PICK n : n = Len(s) /\ n \in Nat
    BY LenProperties
  <1>2. k \in 0..n /\ k + 1 \in 1..n /\ k + 1 \in 0..n
    BY <1>1
  <1>3. s[k + 1] \in Seq(S) /\ SubSeq(s, 1, k) \in Seq(Seq(S))
    BY <1>1, <1>2, ElementOfSeq, FlatSplit
  <1>4. SubSeq(s, 1, k + 1) = SubSeq(s, 1, k) \o <<s[k + 1]>>
    <2>1. 1 \in 1..Len(s) /\ k + 1 \in 1..Len(s) /\ (k + 1) - 1 = k
      BY <1>1, <1>2
    <2>2. SubSeq(s, 1, k + 1) = SubSeq(s, 1, (k + 1) - 1) \o <<s[k + 1]>>
      BY <2>1, SubSeqRecursiveSecond
    <2>3. QED BY <2>1, <2>2
  <1>5. PICK a, x : a = SubSeq(s, 1, k) /\ x = s[k + 1]
    OBVIOUS
  <1>6. a \in Seq(Seq(S)) /\ x \in Seq(S) /\ <<x>> \in Seq(Seq(S))
    BY <1>3, <1>5
  <1>7. FlattenSeq(a \o <<x>>) = FlattenSeq(a) \o FlattenSeq(<<x>>)
    BY <1>6, FlatConcat
  <1>8. FlattenSeq(<<x>>) = x /\ FlattenSeq(a) \in Seq(S)
    BY <1>6, FlatSmall, FlatType
  <1>9. QED BY <1>3, <1>4, <1>5, <1>7, <1>8

\* As many whole items as fit in room.
Fits(s, room, k) ==
    /\ Len(FlattenSeq(SubSeq(s, 1, k))) <= room
    /\ k < Len(s) => Len(FlattenSeq(SubSeq(s, 1, k + 1))) > room

\* There is such a number.
LEMMA FitsExists ==
    ASSUME NEW S, NEW s \in Seq(Seq(S)), NEW room \in Nat
    PROVE  \E k \in 0..Len(s) : Fits(s, room, k)
  <1> DEFINE size(j) == Len(FlattenSeq(SubSeq(s, 1, j)))
             A == {j \in 1..Len(s) : size(j) <= room}
  <1>1. PICK n : n = Len(s) /\ n \in Nat
    BY LenProperties
  <1>2. PICK i \in 1..(n + 1) : (\A j \in 1..(i - 1) : j \in A) /\ (i <= n => i \notin A)
    <2> HIDE DEF A
    <2>1. QED BY <1>1, FirstOutside
  <1>3. \A j \in 0..n : size(j) \in Nat
    <2>1. ASSUME NEW j \in 0..n
          PROVE  size(j) \in Nat
      <3>1. SubSeq(s, 1, j) \in Seq(Seq(S))
        BY <1>1, FlatSplit
      <3>2. QED BY <3>1, FlatType
    <2>2. QED BY <2>1
  <1>4. PICK k : k = i - 1 /\ k \in 0..n /\ k + 1 = i
    BY <1>1, <1>2
  <1>5. size(k) <= room
    <2>1. CASE k = 0
      <3>1. SubSeq(s, 1, 0) = <<>>
        BY SubSeqEmpty
      <3>2. FlattenSeq(<<>>) = <<>>
        BY DEF FlattenSeq
      <3>3. FlattenSeq(SubSeq(s, 1, k)) = <<>> /\ Len(<<>>) = 0
        BY <2>1, <3>1, <3>2
      <3>4. size(k) = 0
        BY <3>3
      <3>5. QED BY <3>4
    <2>2. CASE k # 0
      <3>1. k \in 1..(i - 1)
        BY <1>1, <1>4, <2>2
      <3>2. QED BY <1>2, <3>1
    <2>3. QED BY <2>1, <2>2
  <1>6. k < n => size(k + 1) > room
    <2>1. SUFFICES ASSUME k < n PROVE size(k + 1) > room
      OBVIOUS
    <2>2. i <= n /\ i \in 1..Len(s) /\ i \in 0..n /\ size(i) \in Nat
      BY <1>1, <1>3, <1>4, <2>1
    <2>3. ~(size(i) <= room)
      BY <1>2, <2>2
    <2>4. size(i) > room
      <3> HIDE DEF size
      <3>1. QED BY <2>2, <2>3
    <2>5. QED BY <1>4, <2>4
  <1>7. QED BY <1>1, <1>4, <1>5, <1>6 DEF Fits

=============================================================================
