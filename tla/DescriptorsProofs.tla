------------------------- MODULE DescriptorsProofs -------------------------
(***************************************************************************)
(* The descriptor parser, for every list of descriptors a device may       *)
(* publish and every block its bytes may arrive as.                        *)
(***************************************************************************)
EXTENDS Descriptors, SequenceTheorems, WellFoundedInduction, FiniteSetTheorems, TLAPS
-----------------------------------------------------------------------------
(* Sequences, and the recursive functions on the naturals behind them.       *)

\* The library's induction theorems take the induction hypothesis as an operator. Here
\* it is a set, and induction a consequence of the least elements that WFMin gives, so
\* that it can be cited in a leaf.
LEMMA Induction ==
    ASSUME NEW T, 0 \in T, \A n \in Nat : n \in T => n + 1 \in T
    PROVE  Nat \subseteq T
<1> DEFINE R == {p \in Nat \X Nat : p[1] < p[2]}
           Missing == Nat \ T
<1>1. SUFFICES ASSUME Missing # {}
               PROVE  FALSE
  OBVIOUS
<1>2. IsWellFoundedOn(R, Nat)
  BY NatLessThanWellFounded DEF OpToRel
<1>3. PICK x \in Missing : \A y \in Missing : <<y, x>> \notin R
  <2> HIDE DEF R
  <2> QED
    BY <1>1, <1>2, WFMin
<1>4. x \in Nat /\ x # 0
  OBVIOUS
<1>5. x - 1 \in Nat /\ x = (x - 1) + 1
  BY <1>4
<1>6. CASE x - 1 \in T
  BY <1>5, <1>6
<1>7. CASE x - 1 \notin T
  <2>1. <<x - 1, x>> \in R
    BY <1>4, <1>5
  <2>2. QED
    BY <1>3, <1>5, <1>7, <2>1
<1>8. QED
  BY <1>6, <1>7

\* The same up to a bound.
LEMMA BoundedInduction ==
    ASSUME NEW m \in Nat, NEW T, 0 \in T, \A n \in 0..m - 1 : n \in T => n + 1 \in T
    PROVE  0..m \subseteq T
<1> DEFINE U == {n \in Nat : n <= m => n \in T}
<1>1. 0 \in U
  OBVIOUS
<1>2. \A n \in Nat : n \in U => n + 1 \in U
  OBVIOUS
<1>3. Nat \subseteq U
  <2> HIDE DEF U
  <2> QED
    BY <1>1, <1>2, Induction
<1>4. QED
  BY <1>3

\* A first value and a step define a function on the numbers.
Iterates(f, S, base, next) ==
    f \in [Nat -> S] /\ f[0] = base /\ \A n \in Nat : f[n + 1] = next[n][f[n]]

LEMMA Recursion ==
    ASSUME NEW S, NEW base \in S, NEW next \in [Nat -> [S -> S]]
    PROVE  \E f : Iterates(f, S, base, next)
<1> DEFINE UpTo(n, g) == /\ g \in [0..n -> S] /\ g[0] = base
                         /\ \A i \in 0..n - 1 : g[i + 1] = next[i][g[i]]
           T == {n \in Nat : \E g : UpTo(n, g)}
<1>1. 0 \in T
  <2>1. UpTo(0, [i \in 0..0 |-> base])
    OBVIOUS
  <2>2. QED
    BY <2>1
<1>2. ASSUME NEW n \in Nat, n \in T
      PROVE  n + 1 \in T
  <2>1. PICK g : UpTo(n, g)
    BY <1>2
  <2> DEFINE h == [i \in 0..n + 1 |-> IF i = n + 1 THEN next[n][g[n]] ELSE g[i]]
  <2>2. next[n][g[n]] \in S
    <3>1. g[n] \in S
      BY <2>1
    <3>2. \A x \in S : next[n][x] \in S
      OBVIOUS
    <3>3. QED
      BY <3>1, <3>2
  <2>3. h \in [0..n + 1 -> S] /\ h[0] = base
    BY <2>1, <2>2
  <2>4. ASSUME NEW i \in 0..n
        PROVE  h[i + 1] = next[i][h[i]]
    <3>1. CASE i = n
      BY <3>1
    <3>2. CASE i # n
      <4>1. i \in 0..n - 1 /\ i + 1 \in 0..n + 1 /\ i \in 0..n + 1 /\ i + 1 # n + 1 /\ i # n + 1
        BY <3>2
      <4>2. g[i + 1] = next[i][g[i]]
        BY <2>1, <4>1
      <4>3. h[i + 1] = g[i + 1] /\ h[i] = g[i]
        BY <4>1
      <4>4. QED
        BY <4>2, <4>3
    <3>3. QED
      BY <3>1, <3>2
  <2>5. UpTo(n + 1, h)
    <3>1. 0..(n + 1) - 1 = 0..n
      OBVIOUS
    <3> HIDE DEF h
    <3>2. QED
      BY <2>3, <2>4, <3>1
  <2>6. QED
    <3> HIDE DEF UpTo, h
    <3> QED
      BY <2>5
<1>3. Nat \subseteq T
  <2> HIDE DEF T
  <2> QED
    BY <1>1, <1>2, Induction
<1>4. ASSUME NEW m \in Nat, NEW n \in Nat, m <= n, NEW g, NEW h, UpTo(m, g), UpTo(n, h)
      PROVE  g[m] = h[m]
  <2> DEFINE E == {i \in Nat : i <= m => g[i] = h[i]}
  <2>1. 0 \in E
    BY <1>4
  <2>2. \A i \in Nat : i \in E => i + 1 \in E
    BY <1>4
  <2>3. Nat \subseteq E
    <3> HIDE DEF E
    <3> QED
      BY <2>1, <2>2, Induction
  <2>4. QED
    BY <2>3
<1> DEFINE at == [n \in Nat |-> CHOOSE g : UpTo(n, g)]
           f  == [n \in Nat |-> at[n][n]]
<1>5. \A n \in Nat : UpTo(n, at[n])
  BY <1>3
<1> HIDE DEF at
<1>6. f \in [Nat -> S] /\ f[0] = base
  BY <1>5
<1>7. ASSUME NEW n \in Nat
      PROVE  f[n + 1] = next[n][f[n]]
  <2>1. UpTo(n, at[n]) /\ UpTo(n + 1, at[n + 1])
    BY <1>5
  <2>2. at[n + 1][n + 1] = next[n][at[n + 1][n]]
    <3>1. n \in 0..(n + 1) - 1
      OBVIOUS
    <3>2. \A i \in 0..(n + 1) - 1 : at[n + 1][i + 1] = next[i][at[n + 1][i]]
      BY <2>1
    <3>3. QED
      BY <3>1, <3>2
  <2>3. at[n + 1][n] = at[n][n]
    <3>1. n \in Nat /\ n + 1 \in Nat /\ n <= n + 1
      OBVIOUS
    <3> HIDE DEF UpTo
    <3> QED
      BY <1>4, <2>1, <3>1
  <2>4. QED
    BY <2>2, <2>3
<1>8. QED
  <2> HIDE DEF f
  <2> QED
    BY <1>6, <1>7 DEF Iterates
-----------------------------------------------------------------------------
(* FlattenSeq, of sequences of sequences over B.                             *)

\* f[n] is the first n pieces of s in a row.
Flattens(f, s, B) ==
    /\ f \in [0..Len(s) -> Seq(B)] /\ f[0] = <<>>
    /\ \A i \in 1..Len(s) : f[i] = f[i - 1] \o s[i]

LEMMA FlattensExists ==
    ASSUME NEW B, NEW s \in Seq(Seq(B))
    PROVE  \E f : Flattens(f, s, B)
<1> DEFINE next == [i \in Nat |-> [x \in Seq(B) |-> IF i < Len(s) THEN x \o s[i + 1] ELSE x]]
<1>1. next \in [Nat -> [Seq(B) -> Seq(B)]]
  <2>1. ASSUME NEW i \in Nat, NEW x \in Seq(B), i < Len(s)
        PROVE  x \o s[i + 1] \in Seq(B)
    <3>1. s[i + 1] \in Seq(B)
      BY <2>1
    <3>2. QED
      BY <3>1, ConcatProperties
  <2>2. QED
    BY <2>1
<1>2. <<>> \in Seq(B)
  OBVIOUS
<1>3. PICK f \in [Nat -> Seq(B)] : f[0] = <<>> /\ \A n \in Nat : f[n + 1] = next[n][f[n]]
  <2> HIDE DEF next
  <2>1. PICK f : Iterates(f, Seq(B), <<>>, next)
    BY <1>1, <1>2, Recursion
  <2>2. QED
    BY <2>1 DEF Iterates
<1> DEFINE n == Len(s)
           g == [i \in 0..n |-> f[i]]
<1>4. n \in Nat /\ \A i \in Nat, x \in Seq(B) : i < n => next[i][x] = x \o s[i + 1]
  <2>1. n \in Nat
    OBVIOUS
  <2>2. \A i \in Nat, x \in Seq(B) : i < n => next[i][x] = x \o s[i + 1]
    OBVIOUS
  <2>3. QED
    BY <2>1, <2>2
<1> HIDE DEF next, n
<1>5. ASSUME NEW i \in 1..n
      PROVE  f[i] = f[i - 1] \o s[i]
  <2>1. i - 1 \in Nat /\ i - 1 < n /\ (i - 1) + 1 = i /\ f[i - 1] \in Seq(B)
    BY <1>4
  <2>2. f[(i - 1) + 1] = next[i - 1][f[i - 1]]
    BY <1>3, <2>1
  <2>3. next[i - 1][f[i - 1]] = f[i - 1] \o s[(i - 1) + 1]
    BY <1>4, <2>1
  <2>4. QED
    BY <2>1, <2>2, <2>3
<1>6. \A i \in 1..n : g[i] = g[i - 1] \o s[i]
  <2>1. \A i \in 1..n : i \in 0..n /\ i - 1 \in 0..n
    BY <1>4
  <2>2. QED
    BY <1>5, <2>1
<1>7. Flattens(g, s, B)
  <2>1. g \in [0..n -> Seq(B)] /\ g[0] = <<>>
    BY <1>3, <1>4
  <2> HIDE DEF g
  <2>2. QED
    BY <1>6, <2>1 DEF Flattens, n
<1>8. QED
  BY <1>7

LEMMA FlattensIs ==
    ASSUME NEW B, NEW s \in Seq(Seq(B)), NEW f, Flattens(f, s, B)
    PROVE  FlattenSeq(s) = f[Len(s)]
<1>1. CASE s = <<>>
  BY <1>1 DEF FlattenSeq, Flattens
<1>2. CASE s # <<>>
  <2> DEFINE g == CHOOSE g : g = [i \in 1..Len(s) |-> IF i = 1 THEN s[i] ELSE g[i - 1] \o s[i]]
  <2>1. Len(s) \in Nat \ {0}
    BY <1>2
  <2>2. FlattenSeq(s) = g[Len(s)]
    BY <2>1 DEF FlattenSeq
  <2> DEFINE n == Len(s)
  <2>3. n \in Nat \ {0} /\ s \in [1..n -> Seq(B)]
    BY <2>1
  <2>4. f \in [0..n -> Seq(B)] /\ f[0] = <<>> /\ \A i \in 1..n : f[i] = f[i - 1] \o s[i]
    BY DEF Flattens
  <2> HIDE DEF n
  <2>5. f[1] = s[1]
    <3>1. 1 \in 1..n /\ 1 - 1 = 0
      BY <2>3
    <3>2. f[1] = <<>> \o s[1] /\ s[1] \in Seq(B)
      BY <2>3, <2>4, <3>1
    <3>3. QED
      BY <3>2, ConcatEmptySeq
  <2>6. g = [i \in 1..n |-> IF i = 1 THEN s[i] ELSE g[i - 1] \o s[i]]
    <3> DEFINE h == [i \in 1..n |-> f[i]]
    <3>1. \A i \in 1..n : i # 1 => i - 1 \in 1..n
      BY <2>3
    <3>2. h = [i \in 1..n |-> IF i = 1 THEN s[i] ELSE h[i - 1] \o s[i]]
      BY <2>4, <2>5, <3>1
    <3> HIDE DEF h
    <3>3. QED
      BY <3>2 DEF n
  <2> HIDE DEF g
  <2> DEFINE E == {i \in Nat : i \in 1..n => g[i] = f[i]}
  <2>7. 0 \in E
    OBVIOUS
  <2>8. ASSUME NEW i \in Nat, i \in E
        PROVE  i + 1 \in E
    <3>1. CASE i + 1 \notin 1..n
      BY <3>1
    <3>2. CASE i = 0
      BY <2>3, <2>5, <2>6, <3>2
    <3>3. CASE i + 1 \in 1..n /\ i # 0
      <4>1. i \in 1..n /\ i + 1 # 1 /\ (i + 1) - 1 = i
        BY <2>3, <3>3
      <4>2. g[i + 1] = g[i] \o s[i + 1]
        BY <2>6, <3>3, <4>1
      <4>3. f[i + 1] = f[i] \o s[i + 1]
        BY <2>4, <3>3, <4>1
      <4>4. g[i] = f[i]
        BY <2>8, <4>1
      <4>5. g[i + 1] = f[i + 1]
        BY <4>2, <4>3, <4>4
      <4>6. QED
        BY <4>5
    <3>4. QED
      BY <3>1, <3>2, <3>3, <2>3
  <2>9. Nat \subseteq E
    <3> HIDE DEF E
    <3> QED
      BY <2>7, <2>8, Induction
  <2>10. QED
    BY <2>2, <2>3, <2>9 DEF n
<1>3. QED
  BY <1>1, <1>2

LEMMA FlattenType ==
    ASSUME NEW B, NEW s \in Seq(Seq(B))
    PROVE  FlattenSeq(s) \in Seq(B)
<1>1. PICK f : Flattens(f, s, B)
  BY FlattensExists
<1>2. FlattenSeq(s) = f[Len(s)] /\ Len(s) \in 0..Len(s)
  BY <1>1, FlattensIs
<1>3. QED
  BY <1>1, <1>2 DEF Flattens

LEMMA FlattenEmpty == FlattenSeq(<<>>) = <<>>
BY DEF FlattenSeq

LEMMA FlattenAppend ==
    ASSUME NEW B, NEW s \in Seq(Seq(B)), NEW x \in Seq(B)
    PROVE  FlattenSeq(Append(s, x)) = FlattenSeq(s) \o x
<1> DEFINE n == Len(s)
           t == Append(s, x)
<1>1. /\ n \in Nat /\ Len(t) = n + 1 /\ t \in Seq(Seq(B))
      /\ \A i \in 1..n : t[i] = s[i]
      /\ t[n + 1] = x
  BY AppendProperties
<1>2. PICK f : Flattens(f, s, B)
  BY FlattensExists
<1>3. FlattenSeq(s) = f[n] /\ f[n] \in Seq(B)
  <2>1. FlattenSeq(s) = f[n]
    BY <1>2, FlattensIs
  <2>2. n \in 0..n
    BY <1>1
  <2>3. f[n] \in Seq(B)
    BY <1>2, <2>2 DEF Flattens
  <2>4. QED
    BY <2>1, <2>3
<1> DEFINE g == [i \in 0..n + 1 |-> IF i = n + 1 THEN f[n] \o x ELSE f[i]]
<1>4. f[n] \o x \in Seq(B)
  BY <1>3, ConcatProperties
<1> HIDE DEF n, t
<1>5. Flattens(g, t, B)
  <2>1. g \in [0..n + 1 -> Seq(B)] /\ g[0] = <<>>
    BY <1>1, <1>2, <1>4 DEF Flattens, n
  <2>2. ASSUME NEW i \in 1..n + 1
        PROVE  g[i] = g[i - 1] \o t[i]
    <3>1. CASE i = n + 1
      <4>1. i \in 0..n + 1 /\ i - 1 \in 0..n + 1 /\ i - 1 = n /\ i - 1 # n + 1
        BY <1>1, <3>1
      <4>2. g[i] = f[n] \o x /\ g[i - 1] = f[n]
        BY <3>1, <4>1
      <4>3. QED
        BY <1>1, <3>1, <4>2
    <3>2. CASE i # n + 1
      <4>1. i \in 1..n /\ i \in 0..n + 1 /\ i - 1 \in 0..n + 1 /\ i - 1 # n + 1
        BY <1>1, <3>2
      <4>2. f[i] = f[i - 1] \o s[i]
        BY <1>2, <4>1 DEF Flattens, n
      <4>3. g[i] = f[i] /\ g[i - 1] = f[i - 1]
        BY <3>2, <4>1
      <4>4. QED
        BY <1>1, <4>1, <4>2, <4>3
    <3>3. QED
      BY <3>1, <3>2
  <2>3. QED
    BY <1>1, <2>1, <2>2 DEF Flattens
<1>6. FlattenSeq(t) = g[n + 1]
  <2> HIDE DEF g
  <2> QED
    BY <1>1, <1>5, FlattensIs
<1>7. QED
  BY <1>1, <1>3, <1>6 DEF t

LEMMA FlattensFacts ==
    ASSUME NEW B, NEW s \in Seq(Seq(B)), NEW f, Flattens(f, s, B)
    PROVE  /\ Len(s) \in Nat
           /\ \A i \in 0..Len(s) : f[i] \in Seq(B)
           /\ \A i \in 1..Len(s) : /\ s[i] \in Seq(B) /\ i - 1 \in 0..Len(s) /\ i \in 0..Len(s)
                                   /\ f[i] = f[i - 1] \o s[i]
<1> DEFINE n == Len(s)
<1>1. n \in Nat /\ s \in [1..n -> Seq(B)]
  OBVIOUS
<1>2. /\ f \in [0..n -> Seq(B)] /\ f[0] = <<>>
      /\ \A i \in 1..n : f[i] = f[i - 1] \o s[i]
  BY DEF Flattens
<1> HIDE DEF n
<1>3. /\ \A i \in 0..n : f[i] \in Seq(B)
      /\ \A i \in 1..n : s[i] \in Seq(B) /\ i - 1 \in 0..n /\ i \in 0..n
  BY <1>1, <1>2
<1>4. QED
  BY <1>1, <1>2, <1>3 DEF n

\* The first pieces in a row are where the whole begins.
LEMMA FlattenPrefix ==
    ASSUME NEW B, NEW s \in Seq(Seq(B)), NEW f, Flattens(f, s, B),
           NEW m \in 0..Len(s), NEW n \in m..Len(s)
    PROVE  Len(f[m]) <= Len(f[n]) /\ f[m] = SubSeq(f[n], 1, Len(f[m]))
<1> DEFINE Begins(i) == Len(f[m]) <= Len(f[i]) /\ f[m] = SubSeq(f[i], 1, Len(f[m]))
           T == {i \in Nat : m + i <= Len(s) => Begins(m + i)}
<1>1. m \in Nat /\ Len(s) \in Nat /\ f[m] \in Seq(B)
  BY DEF Flattens
<1>2. 0 \in T
  <2>1. Begins(m)
    BY <1>1
  <2>2. m + 0 = m
    BY <1>1
  <2> HIDE DEF Begins
  <2>3. QED
    BY <2>1, <2>2
<1>3. ASSUME NEW i \in Nat, i \in T
      PROVE  i + 1 \in T
  <2>1. SUFFICES ASSUME m + i + 1 <= Len(s)
                 PROVE  Begins(m + i + 1)
    OBVIOUS
  <2>2. m + i \in 0..Len(s) /\ m + i + 1 \in 1..Len(s) /\ (m + i + 1) - 1 = m + i
    BY <1>1, <2>1
  <2>3. Begins(m + i)
    BY <1>3, <2>2
  <2> DEFINE a == f[m]
             b == f[m + i]
             d == s[m + i + 1]
  <2>4. a \in Seq(B) /\ b \in Seq(B) /\ d \in Seq(B)
    BY <1>1, <2>2, FlattensFacts
  <2>5. f[m + i + 1] = b \o d
    BY <2>2, FlattensFacts
  <2>6. Len(a) <= Len(b) /\ a = SubSeq(b, 1, Len(a))
    BY <2>3
  <2> HIDE DEF a, b, d
  <2>7. Len(b \o d) = Len(b) + Len(d) /\ SubSeq(b \o d, 1, Len(a)) = SubSeq(b, 1, Len(a))
    BY <2>4, <2>6
  <2>8. Len(a) <= Len(b \o d) /\ a = SubSeq(b \o d, 1, Len(a))
    BY <2>4, <2>6, <2>7
  <2>9. QED
    BY <2>5, <2>8 DEF a
<1>4. Nat \subseteq T
  <2> HIDE DEF T
  <2> QED
    BY <1>2, <1>3, Induction
<1>5. n - m \in Nat /\ m + (n - m) = n /\ n <= Len(s)
  BY <1>1
<1>6. n - m \in T
  BY <1>4, <1>5
<1>7. Begins(m + (n - m))
  BY <1>5, <1>6
<1>8. QED
  BY <1>5, <1>7

\* After as many elements as a has, whole goes on with x.
GoesOn(whole, a, x) == \A i \in 1..Len(x) : whole[Len(a) + i] = x[i]

\* What follows a prefix of the pieces is the next piece.
LEMMA FlattenPlace ==
    ASSUME NEW B, NEW s \in Seq(Seq(B)), NEW f, Flattens(f, s, B), NEW n \in 1..Len(s)
    PROVE  /\ Len(f[n]) = Len(f[n - 1]) + Len(s[n])
           /\ GoesOn(f[Len(s)], f[n - 1], s[n])
<1>1. /\ n - 1 \in 0..Len(s) /\ n \in 0..Len(s) /\ Len(s) \in n..Len(s)
      /\ f[n - 1] \in Seq(B) /\ f[n] \in Seq(B) /\ f[Len(s)] \in Seq(B)
      /\ s[n] \in Seq(B) /\ f[n] = f[n - 1] \o s[n]
  <2>1. Len(s) \in Nat /\ Len(s) \in 0..Len(s) /\ Len(s) \in n..Len(s)
    OBVIOUS
  <2>2. QED
    BY <2>1, FlattensFacts
<1>2. f[n] = SubSeq(f[Len(s)], 1, Len(f[n])) /\ Len(f[n]) <= Len(f[Len(s)])
  BY <1>1, FlattenPrefix
<1> DEFINE a == f[n - 1]
           b == s[n]
           d == f[n]
           e == f[Len(s)]
<1>3. a \in Seq(B) /\ b \in Seq(B) /\ d = a \o b /\ e \in Seq(B) /\ d = SubSeq(e, 1, Len(d))
      /\ Len(d) <= Len(e)
  BY <1>1, <1>2
<1> HIDE DEF a, b, d, e
<1>4. Len(d) = Len(a) + Len(b) /\ \A i \in 1..Len(b) : d[Len(a) + i] = b[i]
  BY <1>3
<1>5. \A j \in 1..Len(d) : d[j] = e[j]
  BY <1>3
<1>6. \A i \in 1..Len(b) : e[Len(a) + i] = b[i]
  <2>1. \A i \in 1..Len(b) : Len(a) + i \in 1..Len(d)
    BY <1>3, <1>4
  <2>2. QED
    BY <1>4, <1>5, <2>1
<1>7. QED
  BY <1>4, <1>6 DEF a, b, d, e, GoesOn
-----------------------------------------------------------------------------
DSpec == DInit /\ [][DNext]_dvars
-----------------------------------------------------------------------------
(* Counting.                                                                 *)

LEMMA RankStep ==
    ASSUME NEW S, NEW n \in Nat
    PROVE  /\ Rank(S, n) \in 0..n
           /\ Rank(S, 0) = 0
           /\ n + 1 \in S => Rank(S, n + 1) = Rank(S, n) + 1
           /\ n + 1 \notin S => Rank(S, n + 1) = Rank(S, n)
<1>1. /\ IsFiniteSet(S \cap 1..n)
      /\ Cardinality(S \cap 1..n) \in Nat
      /\ Cardinality(S \cap 1..n) <= n
  <2>1. IsFiniteSet(1..n) /\ Cardinality(1..n) = n
    BY FS_Interval
  <2>2. S \cap 1..n \subseteq 1..n
    OBVIOUS
  <2>3. IsFiniteSet(S \cap 1..n) /\ Cardinality(S \cap 1..n) <= Cardinality(1..n)
    BY <2>1, <2>2, FS_Subset
  <2>4. QED
    BY <2>1, <2>3, FS_CardinalityType
<1>2. Rank(S, 0) = 0
  <2>1. S \cap 1..0 = {}
    OBVIOUS
  <2>2. QED
    BY <2>1, FS_EmptySet DEF Rank
<1>3. ASSUME n + 1 \in S
      PROVE  Rank(S, n + 1) = Rank(S, n) + 1
  <2>1. S \cap 1..n + 1 = (S \cap 1..n) \cup {n + 1}
    BY <1>3
  <2>2. n + 1 \notin S \cap 1..n
    OBVIOUS
  <2>3. Cardinality((S \cap 1..n) \cup {n + 1}) = Cardinality(S \cap 1..n) + 1
    BY <1>1, <2>2, FS_AddElement
  <2>4. QED
    BY <2>1, <2>3 DEF Rank
<1>4. ASSUME n + 1 \notin S
      PROVE  Rank(S, n + 1) = Rank(S, n)
  <2>1. S \cap 1..n + 1 = S \cap 1..n
    BY <1>4
  <2>2. QED
    BY <2>1 DEF Rank
<1>5. QED
  BY <1>1, <1>2, <1>3, <1>4 DEF Rank

LEMMA RankMonotone ==
    ASSUME NEW S, NEW m \in Nat, NEW n \in Nat, m <= n
    PROVE  Rank(S, m) <= Rank(S, n)
<1>1. IsFiniteSet(1..n)
  BY FS_Interval
<1>2. S \cap 1..m \subseteq S \cap 1..n /\ S \cap 1..n \subseteq 1..n
  OBVIOUS
<1>3. IsFiniteSet(S \cap 1..n)
  BY <1>1, <1>2, FS_Subset
<1>4. Cardinality(S \cap 1..m) <= Cardinality(S \cap 1..n)
  BY <1>2, <1>3, FS_Subset
<1>5. QED
  BY <1>4 DEF Rank

\* A number of the set is counted where it is, and each is counted once.
LEMMA RankPositive ==
    ASSUME NEW S, NEW n \in Nat \ {0}, n \in S
    PROVE  Rank(S, n) \in 1..n /\ Rank(S, n) = Rank(S, n - 1) + 1
<1>1. n - 1 \in Nat /\ (n - 1) + 1 = n
  OBVIOUS
<1>2. (n - 1) + 1 \in S
  BY <1>1
<1>3. Rank(S, (n - 1) + 1) = Rank(S, n - 1) + 1 /\ Rank(S, n - 1) \in 0..n - 1
  BY <1>1, <1>2, RankStep
<1>4. QED
  BY <1>1, <1>3
-----------------------------------------------------------------------------
(* What is on the wire.                                                      *)

\* Every descriptor is bytes that begin with how many they are.
LEMMA BytesAre ==
    ASSUME NEW d \in Descriptor
    PROVE  Bytes(d) \in Seq(Byte) /\ Len(Bytes(d)) >= 2 /\ Bytes(d)[1] = Len(Bytes(d))
<1>1. CASE d \in [kind : {"configuration"}, is : [Value : Byte, Attributes : Byte, MaxPower : Byte]]
  <2>1. Bytes(d) = <<9, 2, 0, 0, 1, d.is.Value, 0, d.is.Attributes, d.is.MaxPower>>
    BY <1>1 DEF Bytes
  <2>2. QED
    BY <1>1, <2>1 DEF Byte
<1>2. CASE d \in [kind : {"interface"}, is : InterfaceFields]
  <2>1. Bytes(d) = <<9, 4, d.is.Number, d.is.Alternate, 0, d.is.Class, d.is.SubClass, d.is.Protocol, 0>>
    BY <1>2 DEF Bytes
  <2>2. QED
    BY <1>2, <2>1 DEF Byte, InterfaceFields
<1>3. CASE d \in [kind : {"endpoint"}, is : EndpointFields]
  <2>1. Bytes(d) = <<7, 5, d.is.Address, d.is.Attributes,
                     d.is.MaxPacketSize % 256, d.is.MaxPacketSize \div 256, d.is.Interval>>
    BY <1>3 DEF Bytes
  <2>2. \A p \in PacketSizes : p % 256 \in Byte /\ p \div 256 \in Byte
    <3>1. \A l, h \in Nat : l < 256 => (l + 256 * h) % 256 = l /\ (l + 256 * h) \div 256 = h
      BY SMT
    <3>2. \A l \in Byte : l \in Nat /\ l < 256
      BY DEF Byte
    <3>3. QED
      BY <3>1, <3>2 DEF PacketSizes
  <2>3. d.is.MaxPacketSize \in PacketSizes
    BY <1>3 DEF EndpointFields
  <2>4. d.is.MaxPacketSize % 256 \in Byte /\ d.is.MaxPacketSize \div 256 \in Byte
    BY <2>2, <2>3
  <2>5. d.is.Address \in Byte /\ d.is.Attributes \in Byte /\ d.is.Interval \in Byte /\ 5 \in Byte /\ 7 \in Byte
    BY <1>3 DEF EndpointFields, Byte
  <2>6. QED
    BY <2>1, <2>4, <2>5
<1>4. CASE d \in [kind : {"association"}, is : AssociationFields]
  <2>1. Bytes(d) = <<8, 11, d.is.FirstInterface, d.is.InterfaceCount,
                     d.is.Class, d.is.SubClass, d.is.Protocol, 0>>
    BY <1>4 DEF Bytes
  <2>2. QED
    BY <1>4, <2>1 DEF Byte, AssociationFields
<1>5. CASE d \in [kind : {"other"}, is : OtherBytes]
  <2>1. Bytes(d) = d.is
    BY <1>5 DEF Bytes
  <2>2. QED
    BY <1>5, <2>1 DEF OtherBytes
<1>6. QED
  BY <1>1, <1>2, <1>3, <1>4, <1>5 DEF Descriptor

\* The wire after n descriptors, as a function of n.
Place(ds) == [n \in 0..Len(ds) |-> Wire(SubSeq(ds, 1, n))]

\* The wire is the descriptors' bytes in a row.
LEMMA WireIs ==
    ASSUME NEW ds \in Seq(Descriptor)
    PROVE  /\ Place(ds)[Len(ds)] = Wire(ds) /\ Wire(ds) \in Seq(Byte)
           /\ Place(ds)[0] = <<>>
           /\ \A n \in 0..Len(ds) :
                /\ Place(ds)[n] \in Seq(Byte)
                /\ \A m \in 0..n : Len(Place(ds)[m]) <= Len(Place(ds)[n])
                /\ Len(Place(ds)[n]) <= Len(Wire(ds))
                /\ Place(ds)[n] = SubSeq(Wire(ds), 1, Len(Place(ds)[n]))
           /\ \A n \in 1..Len(ds) :
                /\ Len(Place(ds)[n]) = Len(Place(ds)[n - 1]) + Len(Bytes(ds[n]))
                /\ \A i \in 1..Len(Bytes(ds[n])) :
                      Wire(ds)[Len(Place(ds)[n - 1]) + i] = Bytes(ds[n])[i]
<1> DEFINE s == [j \in DOMAIN ds |-> Bytes(ds[j])]
           N == Len(ds)
<1>1. /\ N \in Nat /\ DOMAIN ds = 1..N /\ ds \in [1..N -> Descriptor]
      /\ s \in Seq(Seq(Byte)) /\ Len(s) = N
      /\ \A j \in 1..N : s[j] = Bytes(ds[j])
  <2>1. N \in Nat /\ DOMAIN ds = 1..N /\ ds \in [1..N -> Descriptor]
    OBVIOUS
  <2> HIDE DEF N
  <2>2. s \in [1..N -> Seq(Byte)]
    BY <2>1, BytesAre
  <2>3. QED
    BY <2>1, <2>2
<1> HIDE DEF N
<1>2. PICK f : Flattens(f, s, Byte)
  <2> HIDE DEF s
  <2> QED
    BY <1>1, FlattensExists
<1>3. ASSUME NEW n \in 0..N
      PROVE  Wire(SubSeq(ds, 1, n)) = f[n]
  <2> DEFINE d == SubSeq(ds, 1, n)
             t == [j \in DOMAIN d |-> Bytes(d[j])]
             g == [i \in 0..n |-> f[i]]
  <2>1. DOMAIN d = 1..n /\ \A j \in 1..n : d[j] = ds[j] /\ j \in 1..N
    BY <1>1
  <2>2. t \in Seq(Seq(Byte)) /\ Len(t) = n /\ \A j \in 1..n : t[j] = s[j]
    <3>1. \A j \in 1..n : s[j] \in Seq(Byte) /\ t[j] = s[j]
      BY <1>1, <2>1, BytesAre
    <3>2. DOMAIN t = 1..n /\ t \in [1..n -> Seq(Byte)]
      <4> HIDE DEF d
      <4> QED
        BY <2>1, <3>1
    <3>3. QED
      BY <3>1, <3>2
  <2>3. Wire(d) = FlattenSeq(t)
    BY DEF Wire
  <2> HIDE DEF d, t, s
  <2>4. Flattens(g, t, Byte)
    <3>1. f \in [0..N -> Seq(Byte)] /\ f[0] = <<>> /\ \A i \in 1..N : f[i] = f[i - 1] \o s[i]
      BY <1>1, <1>2 DEF Flattens
    <3>2. \A i \in 1..n : i \in 1..N /\ i \in 0..n /\ i - 1 \in 0..n
      BY <1>1
    <3>3. g \in [0..n -> Seq(Byte)] /\ g[0] = <<>> /\ \A i \in 1..n : g[i] = g[i - 1] \o t[i]
      <4>1. 0 \in 0..n /\ \A i \in 0..n : g[i] = f[i] /\ f[i] \in Seq(Byte)
        BY <1>1, <3>1
      <4>2. \A i \in 1..n : g[i] = g[i - 1] \o t[i]
        BY <2>2, <3>1, <3>2, <4>1
      <4>3. QED
        BY <3>1, <4>1, <4>2
    <3> HIDE DEF g
    <3>4. QED
      BY <2>2, <3>3 DEF Flattens
  <2>5. FlattenSeq(t) = g[n]
    <3> HIDE DEF g
    <3> QED
      BY <2>2, <2>4, FlattensIs
  <2>6. g[n] = f[n]
    BY <1>1
  <2>7. QED
    BY <2>3, <2>5, <2>6 DEF d
<1>4. SubSeq(ds, 1, N) = ds
  BY <1>1
<1>5. \A n \in 0..N : Place(ds)[n] = f[n]
  BY <1>3 DEF Place, N
<1>6. Wire(ds) = f[N] /\ N \in 0..N /\ 0 \in 0..N
  <2>1. N \in 0..N /\ 0 \in 0..N
    BY <1>1
  <2>2. Wire(SubSeq(ds, 1, N)) = f[N]
    BY <1>3, <2>1
  <2>3. QED
    BY <1>4, <2>1, <2>2
<1> HIDE DEF s
<1>7. \A n \in 0..N : f[n] \in Seq(Byte) /\ f[0] = <<>>
  BY <1>1, <1>2, FlattensFacts DEF Flattens
<1>8. ASSUME NEW n \in 0..N
      PROVE  /\ \A m \in 0..n : Len(f[m]) <= Len(f[n])
             /\ Len(f[n]) <= Len(f[N])
             /\ f[n] = SubSeq(f[N], 1, Len(f[n]))
  <2>1. N \in n..N /\ n \in 0..Len(s) /\ \A m \in 0..n : m \in 0..Len(s) /\ n \in m..Len(s)
    BY <1>1
  <2>2. \A m \in 0..n : Len(f[m]) <= Len(f[n])
    BY <1>1, <1>2, <2>1, FlattenPrefix
  <2>3. Len(f[n]) <= Len(f[N]) /\ f[n] = SubSeq(f[N], 1, Len(f[n]))
    BY <1>1, <1>2, <2>1, FlattenPrefix
  <2>4. QED
    BY <2>2, <2>3
<1>9. ASSUME NEW n \in 1..N
      PROVE  /\ Len(f[n]) = Len(f[n - 1]) + Len(s[n])
             /\ \A i \in 1..Len(s[n]) : f[N][Len(f[n - 1]) + i] = s[n][i]
  <2>1. n \in 1..Len(s)
    BY <1>1
  <2>2. /\ Len(f[n]) = Len(f[n - 1]) + Len(s[n])
        /\ GoesOn(f[Len(s)], f[n - 1], s[n])
    BY <1>1, <1>2, <2>1, FlattenPlace
  <2>3. QED
    BY <1>1, <2>2 DEF GoesOn
<1>10. \A n \in 1..N : n - 1 \in 0..N /\ n \in 0..N
  BY <1>1
<1>11. QED
  <2>1. /\ Place(ds)[N] = Wire(ds) /\ Wire(ds) \in Seq(Byte) /\ Place(ds)[0] = <<>>
    BY <1>5, <1>6, <1>7
  <2>2. ASSUME NEW n \in 0..N
        PROVE  /\ Place(ds)[n] \in Seq(Byte)
               /\ \A m \in 0..n : Len(Place(ds)[m]) <= Len(Place(ds)[n])
               /\ Len(Place(ds)[n]) <= Len(Wire(ds))
               /\ Place(ds)[n] = SubSeq(Wire(ds), 1, Len(Place(ds)[n]))
    <3>1. \A m \in 0..n : m \in 0..N
      BY <1>1
    <3>2. QED
      BY <1>5, <1>6, <1>7, <1>8, <3>1
  <2>3. ASSUME NEW n \in 1..N
        PROVE  /\ Len(Place(ds)[n]) = Len(Place(ds)[n - 1]) + Len(Bytes(ds[n]))
               /\ \A i \in 1..Len(Bytes(ds[n])) :
                     Wire(ds)[Len(Place(ds)[n - 1]) + i] = Bytes(ds[n])[i]
    <3>1. n \in 1..N /\ n - 1 \in 0..N /\ n \in 0..N /\ N \in 0..N
      BY <1>1, <1>10
    <3>2. Place(ds)[n] = f[n] /\ Place(ds)[n - 1] = f[n - 1]
      BY <1>5, <3>1
    <3>3. Wire(ds) = f[N] /\ s[n] = Bytes(ds[n])
      BY <1>1, <1>6, <3>1
    <3>4. QED
      BY <1>9, <3>1, <3>2, <3>3
  <2>4. QED
    BY <2>1, <2>2, <2>3 DEF N
-----------------------------------------------------------------------------
(* One turn of ParseConfig's loop.                                           *)

IsInterface(r)   == IsA(r, DescInterface, minInterfaceDesc)
IsEndpoint(r)    == IsA(r, DescEndpoint, minEndpointDesc)
IsAssociation(r) == IsA(r, DescInterfaceAssociation, minAssociationDesc)

\* What stays when only an interface, an association or the count changes.
SameHeader(s, cfg) ==
    s.Value = cfg.Value /\ s.Attributes = cfg.Attributes /\ s.MaxPower = cfg.MaxPower

\* The endpoint e comes last in the interface that comes last, and nothing else changes.
AddsEndpoint(s, cfg, e) ==
    LET m == Len(cfg.Interfaces)
    IN  /\ m > 0 /\ Len(s.Interfaces) = m
        /\ \A i \in 1..m : i # m => s.Interfaces[i] = cfg.Interfaces[i]
        /\ s.Interfaces[m].Endpoints = Append(cfg.Interfaces[m].Endpoints, e)
        /\ \A f \in {"Number", "Alternate", "Class", "SubClass", "Protocol"} :
              s.Interfaces[m][f] = cfg.Interfaces[m][f]

LEMMA KindsDiffer ==
    ASSUME NEW r
    PROVE  /\ IsInterface(r) => r[2] # DescConfigurationDesc /\ ~IsEndpoint(r) /\ ~IsAssociation(r)
           /\ IsEndpoint(r) => r[2] # DescConfigurationDesc /\ ~IsInterface(r) /\ ~IsAssociation(r)
           /\ IsAssociation(r) => r[2] # DescConfigurationDesc /\ ~IsInterface(r) /\ ~IsEndpoint(r)
BY DEF IsInterface, IsEndpoint, IsAssociation, IsA, DescConfigurationDesc, DescInterface,
       DescEndpoint, DescInterfaceAssociation

LEMMA Read ==
    ASSUME NEW r \in Seq(Byte)
    PROVE  /\ IsInterface(r) => AsInterface(r) \in Interface
           /\ IsEndpoint(r) => AsEndpoint(r) \in EndpointFields
           /\ IsAssociation(r) => AsAssociation(r) \in AssociationFields
<1>1. \A n \in Nat : Len(r) >= n => \A i \in 1..n : r[i] \in Byte
  OBVIOUS
<1>2. ASSUME IsInterface(r)
      PROVE  AsInterface(r) \in Interface
  <2>1. \A i \in 1..9 : r[i] \in Byte
    BY <1>1, <1>2 DEF IsInterface, IsA, minInterfaceDesc
  <2>2. r[3] \in Byte /\ r[4] \in Byte /\ r[6] \in Byte /\ r[7] \in Byte /\ r[8] \in Byte
    BY <2>1
  <2>3. <<>> \in Seq(EndpointFields)
    OBVIOUS
  <2>4. QED
    BY <2>2, <2>3 DEF AsInterface, Interface
<1>3. ASSUME IsEndpoint(r)
      PROVE  AsEndpoint(r) \in EndpointFields
  <2>1. \A i \in 1..7 : r[i] \in Byte
    BY <1>1, <1>3 DEF IsEndpoint, IsA, minEndpointDesc
  <2>2. r[3] \in Byte /\ r[4] \in Byte /\ r[5] \in Byte /\ r[6] \in Byte /\ r[7] \in Byte
    BY <2>1
  <2>3. \A p, q \in Byte : p + 256 * q \in PacketSizes
    BY DEF PacketSizes
  <2>4. r[5] + 256 * r[6] \in PacketSizes
    BY <2>2, <2>3
  <2>5. QED
    BY <2>2, <2>4 DEF AsEndpoint, EndpointFields
<1>4. ASSUME IsAssociation(r)
      PROVE  AsAssociation(r) \in AssociationFields
  <2>1. \A i \in 1..8 : r[i] \in Byte
    BY <1>1, <1>4 DEF IsAssociation, IsA, minAssociationDesc
  <2>2. r[3] \in Byte /\ r[4] \in Byte /\ r[5] \in Byte /\ r[6] \in Byte /\ r[7] \in Byte
    BY <2>1
  <2>3. QED
    BY <2>2 DEF AsAssociation, AssociationFields
<1>5. QED
  BY <1>2, <1>3, <1>4

\* A descriptor changes one part of the Config, by one.
Turn(s, cfg, r) ==
    \/ /\ r[2] = DescConfigurationDesc
       /\ s = cfg
    \/ /\ IsInterface(r)
       /\ s.Interfaces = Append(cfg.Interfaces, AsInterface(r))
       /\ s.Associations = cfg.Associations /\ s.Unknown = cfg.Unknown
    \/ /\ IsEndpoint(r) /\ AddsEndpoint(s, cfg, AsEndpoint(r))
       /\ s.Associations = cfg.Associations /\ s.Unknown = cfg.Unknown
    \/ /\ IsAssociation(r)
       /\ s.Associations = Append(cfg.Associations, AsAssociation(r))
       /\ s.Interfaces = cfg.Interfaces /\ s.Unknown = cfg.Unknown
    \/ /\ IsEndpoint(r) => cfg.Interfaces = <<>>
       /\ r[2] # DescConfigurationDesc /\ ~IsInterface(r) /\ ~IsAssociation(r)
       /\ s.Unknown = cfg.Unknown + 1
       /\ s.Interfaces = cfg.Interfaces /\ s.Associations = cfg.Associations

LEMMA SortedIs ==
    ASSUME NEW r \in Seq(Byte), NEW cfg \in Config
    PROVE  Sorted(r, cfg) \in Config /\ SameHeader(Sorted(r, cfg), cfg) /\ Turn(Sorted(r, cfg), cfg, r)
<1>0. SUFFICES ASSUME NEW s, s = Sorted(r, cfg)
               PROVE  s \in Config /\ SameHeader(s, cfg) /\ Turn(s, cfg, r)
  OBVIOUS
<1>1. CASE r[2] = DescConfigurationDesc
  <2>1. ~IsInterface(r) /\ ~IsEndpoint(r) /\ ~IsAssociation(r)
    BY <1>1, KindsDiffer
  <2>2. s = cfg
    BY <1>0, <1>1, <2>1 DEF Sorted, IsInterface, IsEndpoint, IsAssociation
  <2>3. QED
    BY <1>1, <2>2 DEF SameHeader, Turn
<1>2. CASE IsInterface(r)
  <2>1. s = [cfg EXCEPT !.Interfaces = Append(@, AsInterface(r))]
    <3>1. r[2] # DescConfigurationDesc /\ ~IsEndpoint(r) /\ ~IsAssociation(r)
      BY <1>2, KindsDiffer
    <3>2. QED
      BY <1>0, <1>2, <3>1 DEF Sorted, IsInterface, IsEndpoint, IsAssociation
  <2>2. AsInterface(r) \in Interface
    BY <1>2, Read
  <2>3. Append(cfg.Interfaces, AsInterface(r)) \in Seq(Interface)
    BY <2>2 DEF Config
  <2>4. s \in Config /\ s.Interfaces = Append(cfg.Interfaces, AsInterface(r))
        /\ s.Associations = cfg.Associations /\ s.Unknown = cfg.Unknown /\ SameHeader(s, cfg)
    BY <2>1, <2>3 DEF Config, SameHeader
  <2>5. QED
    BY <1>2, <2>4 DEF Turn
<1>3. CASE IsAssociation(r)
  <2>1. s = [cfg EXCEPT !.Associations = Append(@, AsAssociation(r))]
    <3>1. r[2] # DescConfigurationDesc /\ ~IsInterface(r) /\ ~IsEndpoint(r)
      BY <1>3, KindsDiffer
    <3>2. QED
      BY <1>0, <1>3, <3>1 DEF Sorted, IsInterface, IsEndpoint, IsAssociation
  <2>2. AsAssociation(r) \in AssociationFields
    BY <1>3, Read
  <2>3. Append(cfg.Associations, AsAssociation(r)) \in Seq(AssociationFields)
    BY <2>2 DEF Config
  <2>4. s \in Config /\ s.Associations = Append(cfg.Associations, AsAssociation(r))
        /\ s.Interfaces = cfg.Interfaces /\ s.Unknown = cfg.Unknown /\ SameHeader(s, cfg)
    BY <2>1, <2>3 DEF Config, SameHeader
  <2>5. QED
    BY <1>3, <2>4 DEF Turn
<1>4. CASE IsEndpoint(r) /\ cfg.Interfaces # <<>>
  <2> DEFINE m == Len(cfg.Interfaces)
             I == cfg.Interfaces
             E == Append(I[m].Endpoints, AsEndpoint(r))
             J == [I EXCEPT ![m] = [I[m] EXCEPT !.Endpoints = E]]
  <2>1. s = [cfg EXCEPT !.Interfaces[m].Endpoints = Append(@, AsEndpoint(r))]
    BY <1>0, <1>4, KindsDiffer DEF Sorted, Attach, IsInterface, IsEndpoint, IsAssociation
  <2>2. cfg.Interfaces \in Seq(Interface) /\ m \in Nat \ {0} /\ m \in 1..m
    BY <1>4 DEF Config
  <2>3. s = [cfg EXCEPT !.Interfaces = J]
    BY <2>1
  <2>4. I[m] \in Interface
    BY <2>2
  <2>5. E \in Seq(EndpointFields)
    BY <1>4, <2>4, Read DEF Interface
  <2> HIDE DEF E
  <2>6. [I[m] EXCEPT !.Endpoints = E] \in Interface
    BY <2>4, <2>5 DEF Interface
  <2>7. J \in Seq(Interface) /\ Len(J) = m
    BY <2>2, <2>6
  <2>8. /\ \A i \in 1..m : i # m => J[i] = I[i]
        /\ J[m] = [I[m] EXCEPT !.Endpoints = E]
    BY <2>2
  <2> HIDE DEF J
  <2>9. /\ J[m].Endpoints = E
        /\ \A f \in {"Number", "Alternate", "Class", "SubClass", "Protocol"} : J[m][f] = I[m][f]
    BY <2>4, <2>8 DEF Interface
  <2>10. s \in Config /\ s.Interfaces = J
         /\ s.Associations = cfg.Associations /\ s.Unknown = cfg.Unknown /\ SameHeader(s, cfg)
    BY <2>3, <2>7 DEF Config, SameHeader
  <2>11. AddsEndpoint(s, cfg, AsEndpoint(r))
    <3>1. \A i \in 1..m : i # m => s.Interfaces[i] = I[i]
      BY <2>8, <2>10
    <3>2. /\ s.Interfaces[m].Endpoints = Append(I[m].Endpoints, AsEndpoint(r))
          /\ \A f \in {"Number", "Alternate", "Class", "SubClass", "Protocol"} :
                s.Interfaces[m][f] = I[m][f]
      BY <2>9, <2>10 DEF E
    <3>3. m > 0 /\ Len(s.Interfaces) = m
      BY <2>2, <2>7, <2>10
    <3> HIDE DEF m, I
    <3>4. QED
      BY <3>1, <3>2, <3>3 DEF AddsEndpoint, m, I
  <2>12. QED
    BY <1>4, <2>10, <2>11 DEF Turn
<1>5. CASE /\ IsEndpoint(r) => cfg.Interfaces = <<>>
           /\ r[2] # DescConfigurationDesc /\ ~IsInterface(r) /\ ~IsAssociation(r)
  <2>1. s = [cfg EXCEPT !.Unknown = @ + 1]
    BY <1>0, <1>5, KindsDiffer DEF Sorted, Attach, IsInterface, IsEndpoint, IsAssociation
  <2>2. s \in Config /\ s.Interfaces = cfg.Interfaces /\ s.Unknown = cfg.Unknown + 1
        /\ s.Associations = cfg.Associations /\ SameHeader(s, cfg)
    <3>1. cfg.Unknown + 1 \in Nat
      BY DEF Config
    <3>2. QED
      BY <2>1, <3>1 DEF Config, SameHeader
  <2>3. QED
    BY <1>5, <2>2 DEF Turn
<1>6. QED
  BY <1>1, <1>2, <1>3, <1>4, <1>5

\* What a Config accounts for.
Places(cfg) ==
    Len(cfg.Interfaces) + Len(cfg.Associations) + cfg.Unknown + Cardinality(EndpointsIn(cfg))

LEMMA PlacesAre ==
    ASSUME NEW cfg, NEW i \in Nat, NEW a \in Nat, NEW u \in Nat, NEW e \in Nat,
           Len(cfg.Interfaces) = i, Len(cfg.Associations) = a, cfg.Unknown = u,
           Cardinality(EndpointsIn(cfg)) = e
    PROVE  Places(cfg) = i + a + u + e
BY DEF Places

LEMMA PlaceIn ==
    ASSUME NEW cfg \in Config
    PROVE  \A p : p \in EndpointsIn(cfg) <=>
              \E i \in DOMAIN cfg.Interfaces : \E e \in DOMAIN cfg.Interfaces[i].Endpoints : p = <<i, e>>
BY DEF EndpointsIn

\* Each turn finds one more place, but for a configuration header.
LEMMA TurnCounts ==
    ASSUME NEW r \in Seq(Byte), NEW cfg \in Config, IsFiniteSet(EndpointsIn(cfg)),
           NEW s \in Config, Turn(s, cfg, r)
    PROVE  /\ IsFiniteSet(EndpointsIn(s)) /\ Places(cfg) \in Nat
           /\ Places(s) = IF r[2] = DescConfigurationDesc THEN Places(cfg) ELSE Places(cfg) + 1
<1>1. /\ cfg.Interfaces \in Seq(Interface) /\ cfg.Associations \in Seq(AssociationFields)
      /\ cfg.Unknown \in Nat /\ Len(cfg.Interfaces) \in Nat /\ Len(cfg.Associations) \in Nat
      /\ DOMAIN cfg.Interfaces = 1..Len(cfg.Interfaces)
      /\ s.Interfaces \in Seq(Interface) /\ DOMAIN s.Interfaces = 1..Len(s.Interfaces)
  BY DEF Config
<1>2. Cardinality(EndpointsIn(cfg)) \in Nat
  BY FS_CardinalityType
<1> DEFINE ni == Len(cfg.Interfaces)
           na == Len(cfg.Associations)
           nu == cfg.Unknown
           ne == Cardinality(EndpointsIn(cfg))
<1>3. ni \in Nat /\ na \in Nat /\ nu \in Nat /\ ne \in Nat /\ Places(cfg) \in Nat /\ Places(cfg) = ni + na + nu + ne
  <2>1. ni \in Nat /\ na \in Nat /\ nu \in Nat /\ ne \in Nat
    BY <1>1, <1>2
  <2>2. Len(cfg.Interfaces) = ni /\ Len(cfg.Associations) = na /\ cfg.Unknown = nu
        /\ Cardinality(EndpointsIn(cfg)) = ne
    OBVIOUS
  <2> HIDE DEF ni, na, nu, ne
  <2>3. Places(cfg) = ni + na + nu + ne
    BY <2>1, <2>2, PlacesAre
  <2>4. QED
    BY <2>1, <2>3
<1> HIDE DEF ni, na, nu, ne
<1>4. ASSUME s.Interfaces = cfg.Interfaces
      PROVE  EndpointsIn(s) = EndpointsIn(cfg)
  BY <1>4 DEF EndpointsIn
<1>5. CASE r[2] = DescConfigurationDesc
  <2>1. s = cfg
    BY <1>5, KindsDiffer DEF Turn
  <2>2. QED
    BY <1>3, <1>5, <2>1
<1>6. CASE IsInterface(r)
  <2> DEFINE m == Len(cfg.Interfaces)
  <2>1. /\ s.Interfaces = Append(cfg.Interfaces, AsInterface(r))
        /\ s.Associations = cfg.Associations /\ s.Unknown = cfg.Unknown
        /\ r[2] # DescConfigurationDesc
    BY <1>6, KindsDiffer DEF Turn
  <2>2. AsInterface(r) \in Interface /\ AsInterface(r).Endpoints = <<>>
    BY <1>6, Read DEF AsInterface
  <2>3. /\ Len(s.Interfaces) = m + 1 /\ DOMAIN s.Interfaces = 1..m + 1
        /\ \A i \in 1..m : s.Interfaces[i] = cfg.Interfaces[i]
        /\ s.Interfaces[m + 1].Endpoints = <<>>
    BY <1>1, <2>1, <2>2
  <2>4. EndpointsIn(s) = EndpointsIn(cfg)
    <3>1. ASSUME NEW p, p \in EndpointsIn(s)
          PROVE  p \in EndpointsIn(cfg)
      <4>1. PICK i \in 1..m + 1 : \E e \in DOMAIN s.Interfaces[i].Endpoints : p = <<i, e>>
        BY <2>3, <3>1, PlaceIn
      <4>2. i # m + 1
        BY <2>3, <4>1
      <4>3. i \in 1..m
        BY <1>1, <4>2
      <4>4. QED
        BY <1>1, <2>3, <4>1, <4>3, PlaceIn
    <3>2. ASSUME NEW p, p \in EndpointsIn(cfg)
          PROVE  p \in EndpointsIn(s)
      <4>1. PICK i \in 1..m : \E e \in DOMAIN cfg.Interfaces[i].Endpoints : p = <<i, e>>
        BY <1>1, <3>2, PlaceIn
      <4>2. i \in DOMAIN s.Interfaces
        BY <1>1, <2>3
      <4>3. QED
        BY <2>3, <4>1, <4>2, PlaceIn
    <3>3. QED
      BY <3>1, <3>2
  <2>5. Places(s) = Places(cfg) + 1
    <3>1. /\ Len(s.Interfaces) = ni + 1 /\ Len(s.Associations) = na /\ s.Unknown = nu
          /\ Cardinality(EndpointsIn(s)) = ne
      BY <2>1, <2>3, <2>4 DEF ni, na, nu, ne
    <3>2. PICK b \in Nat : b = ni + 1 /\ Len(s.Interfaces) = b
      BY <1>3, <3>1
    <3>3. Places(s) = b + na + nu + ne
      BY <1>3, <3>1, <3>2, PlacesAre
    <3>4. QED
      BY <1>3, <3>2, <3>3
  <2>6. QED
    BY <1>3, <2>1, <2>5, <2>4
<1>7. CASE IsEndpoint(r) /\ cfg.Interfaces # <<>>
  <2> DEFINE m == Len(cfg.Interfaces)
             n == Len(cfg.Interfaces[m].Endpoints)
  <2>1. /\ AddsEndpoint(s, cfg, AsEndpoint(r)) /\ r[2] # DescConfigurationDesc
        /\ s.Associations = cfg.Associations /\ s.Unknown = cfg.Unknown
    BY <1>7, KindsDiffer DEF Turn
  <2>2. m \in 1..m /\ m \in Nat \ {0} /\ cfg.Interfaces[m] \in Interface
    BY <1>1, <1>7
  <2>3. cfg.Interfaces[m].Endpoints \in Seq(EndpointFields) /\ n \in Nat
        /\ DOMAIN cfg.Interfaces[m].Endpoints = 1..n
    BY <2>2 DEF Interface
  <2>4. AsEndpoint(r) \in EndpointFields
    BY <1>7, Read
  <2>5. /\ Len(s.Interfaces) = m /\ DOMAIN s.Interfaces = 1..m
        /\ \A i \in 1..m : i # m => s.Interfaces[i] = cfg.Interfaces[i]
        /\ s.Interfaces[m].Endpoints = Append(cfg.Interfaces[m].Endpoints, AsEndpoint(r))
    BY <1>1, <2>1 DEF AddsEndpoint
  <2>6. DOMAIN s.Interfaces[m].Endpoints = 1..n + 1
    BY <2>3, <2>4, <2>5
  <2> HIDE DEF m, n
  <2>7. EndpointsIn(s) = EndpointsIn(cfg) \cup {<<m, n + 1>>}
    <3>1. ASSUME NEW p, p \in EndpointsIn(s)
          PROVE  p \in EndpointsIn(cfg) \cup {<<m, n + 1>>}
      <4>1. PICK i \in 1..m : \E e \in DOMAIN s.Interfaces[i].Endpoints : p = <<i, e>>
        BY <2>5, <3>1, PlaceIn
      <4>2. CASE i # m
        BY <1>1, <2>5, <4>1, <4>2, PlaceIn DEF m
      <4>3. CASE i = m
        <5>1. PICK e \in 1..n + 1 : p = <<m, e>>
          BY <2>6, <4>1, <4>3
        <5>2. e = n + 1 \/ e \in 1..n
          BY <2>3, <5>1
        <5>3. QED
          BY <1>1, <2>2, <2>3, <5>1, <5>2, PlaceIn DEF m
      <4>4. QED
        BY <4>2, <4>3
    <3>2. ASSUME NEW p, p \in EndpointsIn(cfg)
          PROVE  p \in EndpointsIn(s)
      <4>1. PICK i \in 1..m : \E e \in DOMAIN cfg.Interfaces[i].Endpoints : p = <<i, e>>
        BY <1>1, <3>2, PlaceIn DEF m
      <4>2. CASE i # m
        BY <2>5, <4>1, <4>2, PlaceIn
      <4>3. CASE i = m
        <5>1. PICK e \in 1..n : p = <<m, e>>
          BY <2>3, <4>1, <4>3
        <5>2. e \in 1..n + 1
          BY <2>3, <5>1
        <5>3. QED
          BY <2>2, <2>5, <2>6, <5>1, <5>2, PlaceIn
      <4>4. QED
        BY <4>2, <4>3
    <3>3. <<m, n + 1>> \in EndpointsIn(s)
      <4>1. n + 1 \in 1..n + 1
        BY <2>3
      <4>2. QED
        BY <2>2, <2>5, <2>6, <4>1, PlaceIn
    <3>4. QED
      BY <3>1, <3>2, <3>3
  <2>8. <<m, n + 1>> \notin EndpointsIn(cfg)
    <3>1. n + 1 \notin 1..n
      BY <2>3
    <3>2. QED
      BY <2>3, <3>1, PlaceIn
  <2>9. IsFiniteSet(EndpointsIn(s)) /\ Cardinality(EndpointsIn(s)) = Cardinality(EndpointsIn(cfg)) + 1
    BY <2>7, <2>8, FS_AddElement
  <2>10. Places(s) = Places(cfg) + 1
    <3>1. /\ Len(s.Interfaces) = ni /\ Len(s.Associations) = na /\ s.Unknown = nu
          /\ Cardinality(EndpointsIn(s)) = ne + 1
      BY <2>1, <2>5, <2>9 DEF ni, na, nu, ne, m
    <3>2. PICK b \in Nat : b = ne + 1 /\ Cardinality(EndpointsIn(s)) = b
      BY <1>3, <3>1
    <3>3. Places(s) = ni + na + nu + b
      BY <1>3, <3>1, <3>2, PlacesAre
    <3>4. QED
      BY <1>3, <3>2, <3>3
  <2>11. QED
    BY <1>3, <2>1, <2>10, <2>9
<1>8. CASE IsAssociation(r)
  <2>1. /\ s.Associations = Append(cfg.Associations, AsAssociation(r))
        /\ s.Interfaces = cfg.Interfaces /\ s.Unknown = cfg.Unknown
        /\ r[2] # DescConfigurationDesc
    BY <1>8, KindsDiffer DEF Turn
  <2>2. AsAssociation(r) \in AssociationFields
    BY <1>8, Read
  <2>3. Len(s.Associations) = Len(cfg.Associations) + 1
    BY <1>1, <2>1, <2>2
  <2>4. EndpointsIn(s) = EndpointsIn(cfg)
    BY <1>4, <2>1
  <2>5. Places(s) = Places(cfg) + 1
    <3>1. Len(s.Interfaces) = ni /\ s.Unknown = nu /\ Cardinality(EndpointsIn(s)) = ne
      <4>1. s.Interfaces = cfg.Interfaces /\ s.Unknown = cfg.Unknown
        BY <2>1
      <4>2. QED
        BY <2>4, <4>1 DEF ni, nu, ne
    <3>2. PICK b \in Nat : b = na + 1 /\ Len(s.Associations) = b
      BY <1>3, <2>3 DEF na
    <3>3. Places(s) = ni + b + nu + ne
      BY <3>1, <3>2 DEF Places
    <3>4. QED
      BY <1>3, <3>2, <3>3
  <2>6. QED
    BY <1>3, <2>1, <2>5, <2>4
<1>9. CASE /\ IsEndpoint(r) => cfg.Interfaces = <<>>
           /\ r[2] # DescConfigurationDesc /\ ~IsInterface(r) /\ ~IsAssociation(r)
  <2>1. s.Unknown = cfg.Unknown + 1 /\ s.Interfaces = cfg.Interfaces
        /\ s.Associations = cfg.Associations
    <3>1. ~(IsEndpoint(r) /\ AddsEndpoint(s, cfg, AsEndpoint(r)))
      BY <1>9 DEF AddsEndpoint
    <3>2. QED
      BY <1>9, <3>1 DEF Turn
  <2>2. EndpointsIn(s) = EndpointsIn(cfg)
    BY <1>4, <2>1
  <2>3. Places(s) = Places(cfg) + 1
    <3>1. /\ Len(s.Interfaces) = ni /\ Len(s.Associations) = na /\ s.Unknown = nu + 1
          /\ Cardinality(EndpointsIn(s)) = ne
      BY <2>1, <2>2 DEF ni, na, nu, ne
    <3>2. PICK b \in Nat : b = nu + 1 /\ s.Unknown = b
      BY <1>3, <3>1
    <3>3. Places(s) = ni + na + b + ne
      BY <3>1, <3>2 DEF Places
    <3>4. QED
      BY <1>3, <3>2, <3>3
  <2>4. QED
    BY <1>3, <2>1, <2>3, <1>9, <2>2
<1>10. QED
  BY <1>5, <1>6, <1>7, <1>8, <1>9
-----------------------------------------------------------------------------
(* What a turn makes of the descriptor it was given.                         *)

InterfaceParts == {"Number", "Alternate", "Class", "SubClass", "Protocol"}

LEMMA BytesReadBack ==
    ASSUME NEW d \in Descriptor
    PROVE  /\ d.kind \in {"configuration", "interface", "endpoint", "association", "other"}
           /\ d.kind = "configuration" => Bytes(d)[2] = DescConfigurationDesc
           /\ d.kind = "interface" =>
                /\ IsInterface(Bytes(d)) /\ DOMAIN d.is = InterfaceParts
                /\ AsInterface(Bytes(d)).Endpoints = <<>>
                /\ \A f \in InterfaceParts : AsInterface(Bytes(d))[f] = d.is[f]
           /\ d.kind = "endpoint" => IsEndpoint(Bytes(d)) /\ AsEndpoint(Bytes(d)) = d.is
           /\ d.kind = "association" => IsAssociation(Bytes(d)) /\ AsAssociation(Bytes(d)) = d.is
           /\ d.kind = "other" =>
                /\ Bytes(d)[2] # DescConfigurationDesc /\ ~IsInterface(Bytes(d))
                /\ ~IsEndpoint(Bytes(d)) /\ ~IsAssociation(Bytes(d))
<1> DEFINE r == Bytes(d)
<1>1. d.kind \in {"configuration", "interface", "endpoint", "association", "other"}
  BY DEF Descriptor
<1>2. ASSUME d.kind = "configuration"
      PROVE  r[2] = DescConfigurationDesc
  BY <1>2 DEF Bytes, DescConfigurationDesc
<1>3. ASSUME d.kind = "interface"
      PROVE  /\ IsInterface(r) /\ DOMAIN d.is = InterfaceParts /\ AsInterface(r).Endpoints = <<>>
             /\ \A f \in InterfaceParts : AsInterface(r)[f] = d.is[f]
  <2>1. r = <<9, 4, d.is.Number, d.is.Alternate, 0, d.is.Class, d.is.SubClass, d.is.Protocol, 0>>
    BY <1>3 DEF Bytes
  <2>2. d.is \in InterfaceFields
    BY <1>3 DEF Descriptor
  <2> HIDE DEF r
  <2>3. IsInterface(r)
    BY <2>1 DEF IsInterface, IsA, DescInterface, minInterfaceDesc
  <2>4. DOMAIN d.is = InterfaceParts
    BY <2>2 DEF InterfaceFields, InterfaceParts
  <2>5. AsInterface(r) = [Number |-> d.is.Number, Alternate |-> d.is.Alternate, Class |-> d.is.Class,
                          SubClass |-> d.is.SubClass, Protocol |-> d.is.Protocol, Endpoints |-> <<>>]
    BY <2>1 DEF AsInterface
  <2>6. QED
    BY <2>3, <2>4, <2>5 DEF InterfaceParts
<1>4. ASSUME d.kind = "endpoint"
      PROVE  IsEndpoint(r) /\ AsEndpoint(r) = d.is
  <2>1. r = <<7, 5, d.is.Address, d.is.Attributes,
              d.is.MaxPacketSize % 256, d.is.MaxPacketSize \div 256, d.is.Interval>>
    BY <1>4 DEF Bytes
  <2>2. d.is \in EndpointFields
    BY <1>4 DEF Descriptor
  <2> HIDE DEF r
  <2>3. IsEndpoint(r)
    BY <2>1 DEF IsEndpoint, IsA, DescEndpoint, minEndpointDesc
  <2>4. \A p \in PacketSizes : (p % 256) + 256 * (p \div 256) = p
    <3>1. \A l, h \in Nat : l < 256 => (l + 256 * h) % 256 = l /\ (l + 256 * h) \div 256 = h
      BY SMT
    <3>2. \A l \in Byte : l \in Nat /\ l < 256
      BY DEF Byte
    <3>3. QED
      BY <3>1, <3>2 DEF PacketSizes
  <2>5. r[5] + 256 * r[6] = d.is.MaxPacketSize
    BY <2>1, <2>2, <2>4 DEF EndpointFields
  <2>6. AsEndpoint(r) = [Address |-> d.is.Address, Attributes |-> d.is.Attributes,
                         MaxPacketSize |-> d.is.MaxPacketSize, Interval |-> d.is.Interval]
    BY <2>1, <2>5 DEF AsEndpoint
  <2>7. QED
    BY <2>2, <2>3, <2>6 DEF EndpointFields
<1>5. ASSUME d.kind = "association"
      PROVE  IsAssociation(r) /\ AsAssociation(r) = d.is
  <2>1. r = <<8, 11, d.is.FirstInterface, d.is.InterfaceCount,
              d.is.Class, d.is.SubClass, d.is.Protocol, 0>>
    BY <1>5 DEF Bytes
  <2>2. d.is \in AssociationFields
    BY <1>5 DEF Descriptor
  <2> HIDE DEF r
  <2>3. IsAssociation(r)
    BY <2>1 DEF IsAssociation, IsA, DescInterfaceAssociation, minAssociationDesc
  <2>4. AsAssociation(r) = [FirstInterface |-> d.is.FirstInterface, InterfaceCount |-> d.is.InterfaceCount,
                            Class |-> d.is.Class, SubClass |-> d.is.SubClass, Protocol |-> d.is.Protocol]
    BY <2>1 DEF AsAssociation
  <2>5. QED
    BY <2>2, <2>3, <2>4 DEF AssociationFields
<1>6. ASSUME d.kind = "other"
      PROVE  r[2] # DescConfigurationDesc /\ ~IsInterface(r) /\ ~IsEndpoint(r) /\ ~IsAssociation(r)
  <2>1. r = d.is /\ d.is \in OtherBytes
    BY <1>6 DEF Bytes, Descriptor
  <2> HIDE DEF r
  <2>2. r \in Seq(Byte) /\ Len(r) \in Nat
    BY <2>1 DEF OtherBytes
  <2>3. QED
    BY <2>1, <2>2 DEF OtherBytes, IsInterface, IsEndpoint, IsAssociation, IsA,
                     minInterfaceDesc, minEndpointDesc, minAssociationDesc
<1>7. QED
  BY <1>1, <1>2, <1>3, <1>4, <1>5, <1>6

\* The descriptor at n + 1 is of one kind.
LEMMA OneKind ==
    ASSUME NEW ds \in Seq(Descriptor), NEW n \in Nat, n < Len(ds), NEW kind
    PROVE  n + 1 \in Kind(ds, kind) <=> ds[n + 1].kind = kind
BY DEF Kind

LEMMA AssociationsStay ==
    ASSUME NEW ds, NEW n \in Nat, NEW cfg, NEW s, SaysAssociations(ds, n, cfg),
           n + 1 \notin Kind(ds, "association"), s.Associations = cfg.Associations
    PROVE  SaysAssociations(ds, n + 1, s)
<1> DEFINE A == Kind(ds, "association")
<1>1. Rank(A, n + 1) = Rank(A, n) /\ A \cap 1..n + 1 = A \cap 1..n
  <2>1. n + 1 \notin A
    OBVIOUS
  <2> HIDE DEF A
  <2>2. QED
    BY <2>1, RankStep
<1>2. QED
  BY <1>1 DEF SaysAssociations

LEMMA AssociationsGrow ==
    ASSUME NEW ds, NEW n \in Nat, NEW cfg \in Config, NEW s, SaysAssociations(ds, n, cfg),
           n + 1 \in Kind(ds, "association"), NEW a \in AssociationFields, ds[n + 1].is = a,
           s.Associations = Append(cfg.Associations, a)
    PROVE  SaysAssociations(ds, n + 1, s)
<1> DEFINE A == Kind(ds, "association")
           old == cfg.Associations
           new == s.Associations
<1>1. /\ old \in Seq(AssociationFields) /\ new = Append(old, a) /\ Len(old) = Rank(A, n)
      /\ \A j \in A \cap 1..n : old[Rank(A, j)] = ds[j].is
      /\ n + 1 \in A
  BY DEF Config, SaysAssociations
<1> HIDE DEF A, old, new
<1>2. Rank(A, n + 1) = Rank(A, n) + 1
  BY <1>1, RankStep
<1>3. Len(new) = Rank(A, n + 1) /\ new[Rank(A, n + 1)] = a /\ \A i \in 1..Len(old) : new[i] = old[i]
  BY <1>1, <1>2
<1>4. ASSUME NEW j \in A \cap 1..n + 1
      PROVE  new[Rank(A, j)] = ds[j].is
  <2>1. CASE j = n + 1
    BY <1>3, <2>1
  <2>2. CASE j # n + 1
    <3>1. j \in A \cap 1..n /\ j \in Nat \ {0} /\ j <= n
      BY <2>2
    <3>2. Rank(A, j) \in 1..j /\ Rank(A, j) <= Rank(A, n)
      BY <3>1, RankPositive, RankMonotone
    <3>3. Rank(A, j) \in 1..Len(old)
      BY <1>1, <3>1, <3>2
    <3>4. QED
      BY <1>1, <1>3, <3>1, <3>3
  <2>3. QED
    BY <2>1, <2>2
<1>5. QED
  BY <1>3, <1>4 DEF SaysAssociations, A, new

LEMMA InterfacesStay ==
    ASSUME NEW ds, NEW n \in Nat, NEW cfg, NEW s, SaysInterfaces(ds, n, cfg),
           n + 1 \notin Kind(ds, "interface"), Len(s.Interfaces) = Len(cfg.Interfaces),
           \A j \in Kind(ds, "interface") : DOMAIN ds[j].is = InterfaceParts,
           \A i \in 1..Len(cfg.Interfaces) : \A f \in InterfaceParts :
              s.Interfaces[i][f] = cfg.Interfaces[i][f]
    PROVE  SaysInterfaces(ds, n + 1, s)
<1> DEFINE I == Kind(ds, "interface")
<1>1. /\ n + 1 \notin I /\ Len(cfg.Interfaces) = Rank(I, n)
      /\ \A j \in I \cap 1..n : \A f \in DOMAIN ds[j].is : cfg.Interfaces[Rank(I, j)][f] = ds[j].is[f]
      /\ \A j \in I : DOMAIN ds[j].is = InterfaceParts
  BY DEF SaysInterfaces, InterfaceAt
<1> HIDE DEF I
<1>2. Rank(I, n + 1) = Rank(I, n) /\ I \cap 1..n + 1 = I \cap 1..n
  BY <1>1, RankStep
<1>3. ASSUME NEW j \in I \cap 1..n
      PROVE  Rank(I, j) \in 1..Len(cfg.Interfaces)
  <2>1. j \in Nat \ {0} /\ j <= n
    OBVIOUS
  <2>2. Rank(I, j) \in 1..j /\ Rank(I, j) <= Rank(I, n) /\ Rank(I, n) \in Nat
    BY <2>1, RankPositive, RankMonotone, RankStep
  <2>3. QED
    BY <1>1, <2>1, <2>2
<1>4. QED
  BY <1>1, <1>2, <1>3 DEF SaysInterfaces, InterfaceAt, I

LEMMA InterfacesGrow ==
    ASSUME NEW ds, NEW n \in Nat, NEW cfg \in Config, NEW s, SaysInterfaces(ds, n, cfg),
           n + 1 \in Kind(ds, "interface"), NEW a \in Interface, DOMAIN ds[n + 1].is = InterfaceParts,
           \A f \in InterfaceParts : a[f] = ds[n + 1].is[f],
           s.Interfaces = Append(cfg.Interfaces, a)
    PROVE  SaysInterfaces(ds, n + 1, s)
<1> DEFINE I == Kind(ds, "interface")
           old == cfg.Interfaces
           new == s.Interfaces
<1>1. /\ old \in Seq(Interface) /\ new = Append(old, a) /\ Len(old) = Rank(I, n)
      /\ \A j \in I \cap 1..n : \A f \in DOMAIN ds[j].is : old[Rank(I, j)][f] = ds[j].is[f]
      /\ n + 1 \in I
  BY DEF Config, SaysInterfaces, InterfaceAt
<1> HIDE DEF I, old, new
<1>2. Rank(I, n + 1) = Rank(I, n) + 1
  BY <1>1, RankStep
<1>3. Len(new) = Rank(I, n + 1) /\ new[Rank(I, n + 1)] = a /\ \A i \in 1..Len(old) : new[i] = old[i]
  BY <1>1, <1>2
<1>4. ASSUME NEW j \in I \cap 1..n + 1
      PROVE  \A f \in DOMAIN ds[j].is : new[Rank(I, j)][f] = ds[j].is[f]
  <2>1. CASE j = n + 1
    BY <1>3, <2>1
  <2>2. CASE j # n + 1
    <3>1. j \in I \cap 1..n /\ j \in Nat \ {0} /\ j <= n
      BY <2>2
    <3>2. Rank(I, j) \in 1..j /\ Rank(I, j) <= Rank(I, n)
      BY <3>1, RankPositive, RankMonotone
    <3>3. Rank(I, j) \in 1..Len(old)
      BY <1>1, <3>1, <3>2
    <3>4. QED
      BY <1>1, <1>3, <3>1, <3>3
  <2>3. QED
    BY <2>1, <2>2
<1>5. QED
  BY <1>3, <1>4 DEF SaysInterfaces, InterfaceAt, I, new

LEMMA EndpointsStay ==
    ASSUME NEW ds, NEW n \in Nat, NEW cfg, NEW s, SaysEndpoints(ds, n, cfg),
           n + 1 \notin Kind(ds, "endpoint"), s.Interfaces = cfg.Interfaces
    PROVE  SaysEndpoints(ds, n + 1, s)
<1>1. ASSUME NEW i
      PROVE  /\ Rank(EndpointsOf(ds, i), n + 1) = Rank(EndpointsOf(ds, i), n)
             /\ EndpointsOf(ds, i) \cap 1..n + 1 = EndpointsOf(ds, i) \cap 1..n
  <2>1. n + 1 \notin EndpointsOf(ds, i)
    BY DEF EndpointsOf
  <2>2. QED
    BY <2>1, RankStep
<1>2. QED
  BY <1>1 DEF SaysEndpoints

LEMMA EndpointsBegin ==
    ASSUME NEW ds, NEW n \in Nat, NEW cfg \in Config, NEW s, SaysEndpoints(ds, n, cfg),
           n + 1 \notin Kind(ds, "endpoint"), Len(cfg.Interfaces) = InterfaceAt(ds, n),
           NEW a \in Interface, a.Endpoints = <<>>, s.Interfaces = Append(cfg.Interfaces, a)
    PROVE  SaysEndpoints(ds, n + 1, s)
<1> DEFINE I == Kind(ds, "interface")
           old == cfg.Interfaces
           new == s.Interfaces
           m == Len(old)
           E(i) == EndpointsOf(ds, i)
<1>1. /\ old \in Seq(Interface) /\ new = Append(old, a) /\ m = Rank(I, n) /\ m \in Nat
      /\ \A i \in 1..m : Len(old[i].Endpoints) = Rank(E(i), n)
      /\ \A i \in 1..m : \A j \in E(i) \cap 1..n : old[i].Endpoints[Rank(E(i), j)] = ds[j].is
  BY DEF Config, SaysEndpoints, InterfaceAt
<1>2. /\ DOMAIN new = 1..m + 1 /\ new[m + 1] = a
      /\ \A i \in 1..m : new[i] = old[i]
  BY <1>1
<1>3. ASSUME NEW i
      PROVE  Rank(E(i), n + 1) = Rank(E(i), n) /\ E(i) \cap 1..n + 1 = E(i) \cap 1..n
  <2>1. n + 1 \notin E(i)
    BY DEF EndpointsOf
  <2> HIDE DEF E
  <2>2. QED
    BY <2>1, RankStep
<1>4. E(m + 1) \cap 1..n = {}
  <2>1. SUFFICES ASSUME NEW j \in E(m + 1), j \in 1..n
                 PROVE  FALSE
    OBVIOUS
  <2>2. Rank(I, j) = m + 1
    BY DEF EndpointsOf, InterfaceAt
  <2>3. j \in Nat /\ j <= n
    BY <2>1
  <2> HIDE DEF I, m, E, old, new
  <2>4. Rank(I, j) <= m
    BY <1>1, <2>3, RankMonotone
  <2>5. QED
    BY <1>1, <2>2, <2>4
<1>5. Rank(E(m + 1), n) = 0
  BY <1>4, FS_EmptySet DEF Rank
<1> HIDE DEF I, old, new, m, E
<1>6. ASSUME NEW i \in 1..m + 1
      PROVE  /\ Len(new[i].Endpoints) = Rank(E(i), n + 1)
             /\ \A j \in E(i) \cap 1..n + 1 : new[i].Endpoints[Rank(E(i), j)] = ds[j].is
  <2>1. CASE i = m + 1
    BY <1>2, <1>3, <1>4, <1>5, <2>1
  <2>2. CASE i # m + 1
    <3>1. i \in 1..m
      BY <1>1, <2>2
    <3>2. QED
      BY <1>1, <1>2, <1>3, <3>1
  <2>3. QED
    BY <2>1, <2>2
<1>7. QED
  BY <1>2, <1>6 DEF SaysEndpoints, new, E

LEMMA EndpointsGrow ==
    ASSUME NEW ds, NEW n \in Nat, NEW cfg \in Config, NEW s, SaysEndpoints(ds, n, cfg),
           n + 1 \in Kind(ds, "endpoint"), InterfaceAt(ds, n + 1) = Len(cfg.Interfaces),
           NEW e \in EndpointFields, ds[n + 1].is = e, AddsEndpoint(s, cfg, e),
           DOMAIN s.Interfaces = DOMAIN cfg.Interfaces
    PROVE  SaysEndpoints(ds, n + 1, s)
<1> DEFINE old == cfg.Interfaces
           new == s.Interfaces
           m == Len(old)
           E(i) == EndpointsOf(ds, i)
           es == old[m].Endpoints
<1>1. /\ old \in Seq(Interface) /\ m \in Nat /\ m > 0
      /\ \A i \in 1..m : Len(old[i].Endpoints) = Rank(E(i), n)
      /\ \A i \in 1..m : \A j \in E(i) \cap 1..n : old[i].Endpoints[Rank(E(i), j)] = ds[j].is
      /\ DOMAIN new = 1..m
      /\ \A i \in 1..m : i # m => new[i] = old[i]
      /\ new[m].Endpoints = Append(es, e)
  BY DEF Config, SaysEndpoints, AddsEndpoint
<1>2. m \in 1..m /\ old[m] \in Interface
  BY <1>1
<1>3. es \in Seq(EndpointFields)
  BY <1>2 DEF Interface
<1>4. n + 1 \in E(m) /\ \A i : i # m => n + 1 \notin E(i)
  BY DEF EndpointsOf
<1> HIDE DEF old, new, E, m
<1>5. /\ Rank(E(m), n + 1) = Rank(E(m), n) + 1
      /\ \A i : i # m => Rank(E(i), n + 1) = Rank(E(i), n) /\ E(i) \cap 1..n + 1 = E(i) \cap 1..n
  BY <1>4, RankStep
<1>6. Len(es) = Rank(E(m), n) /\ \A j \in E(m) \cap 1..n : es[Rank(E(m), j)] = ds[j].is
  BY <1>1, <1>2
<1> HIDE DEF es
<1>7. /\ Len(new[m].Endpoints) = Rank(E(m), n + 1) /\ new[m].Endpoints[Rank(E(m), n + 1)] = e
      /\ \A i \in 1..Len(es) : new[m].Endpoints[i] = es[i]
  BY <1>1, <1>3, <1>5, <1>6
<1>8. ASSUME NEW i \in 1..m
      PROVE  /\ Len(new[i].Endpoints) = Rank(E(i), n + 1)
             /\ \A j \in E(i) \cap 1..n + 1 : new[i].Endpoints[Rank(E(i), j)] = ds[j].is
  <2>1. CASE i = m
    <3>1. ASSUME NEW j \in E(m) \cap 1..n + 1
          PROVE  new[m].Endpoints[Rank(E(m), j)] = ds[j].is
      <4>1. CASE j = n + 1
        BY <1>7, <4>1
      <4>2. CASE j # n + 1
        <5>1. j \in E(m) \cap 1..n /\ j \in Nat \ {0} /\ j <= n
          BY <4>2
        <5>2. Rank(E(m), j) \in 1..j /\ Rank(E(m), j) <= Rank(E(m), n)
          BY <5>1, RankPositive, RankMonotone
        <5>3. Rank(E(m), n) \in Nat
          BY RankStep
        <5>4. Rank(E(m), j) \in 1..Len(es)
          BY <1>6, <5>1, <5>2, <5>3
        <5>5. QED
          BY <1>6, <1>7, <5>1, <5>4
      <4>3. QED
        BY <4>1, <4>2
    <3>2. QED
      BY <1>7, <2>1, <3>1
  <2>2. CASE i # m
    BY <1>1, <1>5, <2>2
  <2>3. QED
    BY <2>1, <2>2
<1>9. QED
  BY <1>1, <1>8 DEF SaysEndpoints, new, E

LEMMA TurnDescribes ==
    ASSUME NEW ds \in Seq(Descriptor), NEW n \in Nat, n < Len(ds), NEW cfg \in Config, NEW s \in Config,
           SameHeader(s, cfg), Turn(s, cfg, Bytes(ds[n + 1])), Describes(ds, n, cfg)
    PROVE  Describes(ds, n + 1, s)
<1> DEFINE d == ds[n + 1]
           r == Bytes(d)
<1>1. d \in Descriptor /\ \A j \in DOMAIN ds : ds[j] \in Descriptor
  OBVIOUS
<1>2. \A kind : n + 1 \in Kind(ds, kind) <=> d.kind = kind
  BY OneKind
<1>3. \A j \in Kind(ds, "interface") : DOMAIN ds[j].is = InterfaceParts
  BY <1>1, BytesReadBack DEF Kind
<1>4. /\ SaysAssociations(ds, n, cfg) /\ SaysInterfaces(ds, n, cfg) /\ SaysEndpoints(ds, n, cfg)
      /\ cfg.Unknown = Rank(Uninterpreted(ds), n) /\ cfg.Unknown \in Nat
      /\ Len(cfg.Interfaces) = InterfaceAt(ds, n)
  BY DEF Describes, SaysInterfaces, Config
<1>5. SaysHeader(ds, s)
  BY DEF SameHeader, Describes, SaysHeader
<1>6. SUFFICES /\ SaysAssociations(ds, n + 1, s) /\ SaysInterfaces(ds, n + 1, s)
               /\ SaysEndpoints(ds, n + 1, s) /\ s.Unknown = Rank(Uninterpreted(ds), n + 1)
  BY <1>5 DEF Describes
<1>7. n + 1 \notin Kind(ds, "interface") => InterfaceAt(ds, n + 1) = Len(cfg.Interfaces)
  BY <1>4, RankStep DEF InterfaceAt
<1>8. /\ n + 1 \in Uninterpreted(ds) => Rank(Uninterpreted(ds), n + 1) = cfg.Unknown + 1
      /\ n + 1 \notin Uninterpreted(ds) => Rank(Uninterpreted(ds), n + 1) = cfg.Unknown
  BY <1>4, RankStep
<1>9. n + 1 \in Uninterpreted(ds) <=>
         d.kind = "other" \/ (d.kind = "endpoint" /\ InterfaceAt(ds, n + 1) = 0)
  BY <1>2 DEF Uninterpreted, EndpointsOf
<1>10. Len(cfg.Interfaces) \in Nat /\ (Len(cfg.Interfaces) = 0 <=> cfg.Interfaces = <<>>)
       /\ DOMAIN cfg.Interfaces = 1..Len(cfg.Interfaces) /\ DOMAIN s.Interfaces = 1..Len(s.Interfaces)
  BY DEF Config
<1>11. Turn(s, cfg, r)
  OBVIOUS
<1>12. d.kind \in {"configuration", "interface", "endpoint", "association", "other"}
  BY <1>1, BytesReadBack
<1> HIDE DEF d
<1>13. CASE d.kind = "configuration"
  <2>1. r[2] = DescConfigurationDesc
    BY <1>1, <1>13, BytesReadBack
  <2>2. s = cfg
    BY <1>11, <2>1, KindsDiffer DEF Turn
  <2>3. n + 1 \notin Kind(ds, "interface") /\ n + 1 \notin Kind(ds, "endpoint")
        /\ n + 1 \notin Kind(ds, "association")
    BY <1>2, <1>13
  <2> HIDE DEF r
  <2>4. SaysAssociations(ds, n + 1, s)
    BY <1>4, <2>2, <2>3, AssociationsStay
  <2>5. SaysInterfaces(ds, n + 1, s)
    BY <1>3, <1>4, <2>2, <2>3, InterfacesStay
  <2>6. SaysEndpoints(ds, n + 1, s)
    BY <1>4, <2>2, <2>3, EndpointsStay
  <2>7. QED
    BY <1>8, <1>9, <1>13, <2>2, <2>4, <2>5, <2>6
<1>14. CASE d.kind = "interface"
  <2>1. /\ IsInterface(r) /\ DOMAIN d.is = InterfaceParts /\ AsInterface(r).Endpoints = <<>>
        /\ \A f \in InterfaceParts : AsInterface(r)[f] = d.is[f]
    BY <1>1, <1>14, BytesReadBack
  <2>2. s.Interfaces = Append(cfg.Interfaces, AsInterface(r))
        /\ s.Associations = cfg.Associations /\ s.Unknown = cfg.Unknown
    BY <1>11, <2>1, KindsDiffer DEF Turn
  <2>3. AsInterface(r) \in Interface
    BY <1>1, <2>1, BytesAre, Read
  <2>4. n + 1 \in Kind(ds, "interface") /\ n + 1 \notin Kind(ds, "endpoint")
        /\ n + 1 \notin Kind(ds, "association")
    BY <1>2, <1>14
  <2> HIDE DEF r
  <2>5. SaysAssociations(ds, n + 1, s)
    BY <1>4, <2>2, <2>4, AssociationsStay
  <2>6. SaysInterfaces(ds, n + 1, s)
    BY <1>4, <2>1, <2>2, <2>3, <2>4, InterfacesGrow DEF d
  <2>7. SaysEndpoints(ds, n + 1, s)
    BY <1>4, <2>1, <2>2, <2>3, <2>4, EndpointsBegin
  <2>8. QED
    BY <1>8, <1>9, <1>14, <2>2, <2>5, <2>6, <2>7
<1>15. CASE d.kind = "endpoint" /\ cfg.Interfaces # <<>>
  <2>1. IsEndpoint(r) /\ AsEndpoint(r) = d.is
    BY <1>1, <1>15, BytesReadBack
  <2>2. AddsEndpoint(s, cfg, d.is) /\ s.Associations = cfg.Associations /\ s.Unknown = cfg.Unknown
    BY <1>11, <1>15, <2>1, KindsDiffer DEF Turn
  <2>3. d.is \in EndpointFields
    BY <1>1, <2>1, BytesAre, Read
  <2>4. n + 1 \notin Kind(ds, "interface") /\ n + 1 \in Kind(ds, "endpoint")
        /\ n + 1 \notin Kind(ds, "association")
    BY <1>2, <1>15
  <2> HIDE DEF r
  <2>5. Len(s.Interfaces) = Len(cfg.Interfaces) /\ DOMAIN s.Interfaces = DOMAIN cfg.Interfaces
        /\ \A i \in 1..Len(cfg.Interfaces) : \A f \in InterfaceParts :
              s.Interfaces[i][f] = cfg.Interfaces[i][f]
    BY <1>10, <2>2 DEF AddsEndpoint, InterfaceParts
  <2>6. SaysAssociations(ds, n + 1, s)
    BY <1>4, <2>2, <2>4, AssociationsStay
  <2>7. SaysInterfaces(ds, n + 1, s)
    BY <1>3, <1>4, <2>4, <2>5, InterfacesStay
  <2>8. SaysEndpoints(ds, n + 1, s)
    BY <1>4, <1>7, <2>2, <2>3, <2>4, <2>5, EndpointsGrow DEF d
  <2>9. QED
    BY <1>7, <1>8, <1>9, <1>10, <1>15, <2>2, <2>4, <2>6, <2>7, <2>8
<1>16. CASE d.kind = "association"
  <2>1. IsAssociation(r) /\ AsAssociation(r) = d.is
    BY <1>1, <1>16, BytesReadBack
  <2>2. s.Associations = Append(cfg.Associations, d.is)
        /\ s.Interfaces = cfg.Interfaces /\ s.Unknown = cfg.Unknown
    BY <1>11, <2>1, KindsDiffer DEF Turn
  <2>3. d.is \in AssociationFields
    BY <1>1, <2>1, BytesAre, Read
  <2>4. n + 1 \notin Kind(ds, "interface") /\ n + 1 \notin Kind(ds, "endpoint")
        /\ n + 1 \in Kind(ds, "association")
    BY <1>2, <1>16
  <2> HIDE DEF r
  <2>5. SaysAssociations(ds, n + 1, s)
    BY <1>4, <2>2, <2>3, <2>4, AssociationsGrow DEF d
  <2>6. SaysInterfaces(ds, n + 1, s) /\ SaysEndpoints(ds, n + 1, s)
    BY <1>3, <1>4, <2>2, <2>4, InterfacesStay, EndpointsStay
  <2>7. QED
    BY <1>8, <1>9, <1>16, <2>2, <2>5, <2>6
<1>17. CASE d.kind = "other" \/ (d.kind = "endpoint" /\ cfg.Interfaces = <<>>)
  <2>1. /\ IsEndpoint(r) => cfg.Interfaces = <<>>
        /\ r[2] # DescConfigurationDesc /\ ~IsInterface(r) /\ ~IsAssociation(r)
    BY <1>1, <1>17, BytesReadBack, KindsDiffer
  <2>2. s.Unknown = cfg.Unknown + 1 /\ s.Interfaces = cfg.Interfaces
        /\ s.Associations = cfg.Associations
    <3>1. ~(IsEndpoint(r) /\ AddsEndpoint(s, cfg, AsEndpoint(r)))
      BY <2>1 DEF AddsEndpoint
    <3>2. QED
      BY <1>11, <2>1, <3>1 DEF Turn
  <2>3. n + 1 \notin Kind(ds, "interface") /\ n + 1 \notin Kind(ds, "association")
    BY <1>2, <1>17
  <2>4. n + 1 \in Uninterpreted(ds)
    BY <1>7, <1>9, <1>10, <1>17, <2>3
  <2>5. SaysAssociations(ds, n + 1, s) /\ SaysInterfaces(ds, n + 1, s)
    BY <1>3, <1>4, <2>2, <2>3, AssociationsStay, InterfacesStay
  <2>6. SaysEndpoints(ds, n + 1, s)
    <3>1. CASE cfg.Interfaces = <<>>
      BY <2>2, <3>1 DEF SaysEndpoints
    <3>2. CASE d.kind = "other"
      <4>1. n + 1 \notin Kind(ds, "endpoint")
        BY <1>2, <3>2
      <4>2. QED
        BY <1>4, <2>2, <4>1, EndpointsStay
    <3>3. QED
      BY <1>17, <3>1, <3>2
  <2>7. QED
    BY <1>8, <2>2, <2>4, <2>5, <2>6
<1>18. QED
  BY <1>12, <1>13, <1>14, <1>15, <1>16, <1>17
-----------------------------------------------------------------------------
(* The invariant.                                                            *)

\* The headers among the first n pieces.
Headers == {j \in DOMAIN raws : raws[j][2] = DescConfigurationDesc}

\* Of the pieces sorted so far, each has a place in the Config or is a header.
Tally == IsFiniteSet(EndpointsIn(c)) /\ k = Rank(Headers, k) + Places(c)

\* What each stage of ParseConfig has and has not done.
Stages ==
    /\ stage = "start" => off = 0 /\ raws = <<>> /\ c = NoConfig
    /\ stage \in {"start", "split"} => k = 0
    /\ stage = "split" => c.Interfaces = <<>> /\ c.Associations = <<>> /\ c.Unknown = 0
    /\ stage \in {"split", "walk"} => Len(block) >= minConfigDesc
    /\ stage = "walk" => off = Len(block)
    /\ stage = "done" => k = Len(raws)

\* An honest block is where the wire begins, what was split off it are the first
\* descriptors, and the Config says of them what it should.
Faithful ==
    /\ meant \in Seq(Descriptor) /\ meant # <<>> /\ meant[1].kind = "configuration"
    /\ Len(block) <= Len(Wire(meant)) /\ block = SubSeq(Wire(meant), 1, Len(block))
    /\ Len(raws) <= Len(meant) /\ \A j \in 1..Len(raws) : raws[j] = Bytes(meant[j])
    /\ off = Len(Place(meant)[Len(raws)])
    /\ stage \in {"split", "walk", "done"} => Describes(meant, k, c)
    /\ stage = "done" => Len(raws) > 0 /\ block = Place(meant)[Len(raws)]
    /\ stage = "bad" => \A n \in 1..Len(meant) : Place(meant)[n] # block

DInv ==
    /\ DTypeOK
    /\ WalkCovers
    /\ Tally
    /\ Stages
    /\ honest => Faithful

LEMMA NothingYet ==
    ASSUME NEW cfg \in Config, cfg.Interfaces = <<>>, cfg.Associations = <<>>, cfg.Unknown = 0
    PROVE  IsFiniteSet(EndpointsIn(cfg)) /\ Places(cfg) = 0
<1>1. EndpointsIn(cfg) = {}
  BY DEF EndpointsIn
<1>2. IsFiniteSet(EndpointsIn(cfg)) /\ Cardinality(EndpointsIn(cfg)) = 0
  BY <1>1, FS_EmptySet
<1>3. QED
  BY <1>2 DEF Places

LEMMA NoConfigIs == NoConfig \in Config /\ NoConfig.Interfaces = <<>> /\ NoConfig.Associations = <<>>
                    /\ NoConfig.Unknown = 0
BY DEF NoConfig, Config, Byte

\* A Config without anything describes no descriptors, if its header is right.
LEMMA DescribesNone ==
    ASSUME NEW ds, NEW cfg \in Config, SaysHeader(ds, cfg),
           cfg.Interfaces = <<>>, cfg.Associations = <<>>, cfg.Unknown = 0
    PROVE  Describes(ds, 0, cfg)
<1>1. \A S : Rank(S, 0) = 0 /\ S \cap 1..0 = {}
  BY RankStep
<1>2. SaysAssociations(ds, 0, cfg)
  BY <1>1 DEF SaysAssociations
<1>3. SaysInterfaces(ds, 0, cfg)
  BY <1>1 DEF SaysInterfaces, InterfaceAt
<1>4. SaysEndpoints(ds, 0, cfg)
  BY DEF SaysEndpoints
<1>5. QED
  BY <1>1, <1>2, <1>3, <1>4 DEF Describes

LEMMA DescriptorsInit == DInit => DInv
<1> SUFFICES ASSUME DInit
             PROVE  DInv
  OBVIOUS
<1>1. PICK ds \in Published : \E b \in Cuts(ds) \cup Lies(ds) : Arrives(ds, b)
  BY DEF DInit
<1>2. PICK b \in Cuts(ds) \cup Lies(ds) : Arrives(ds, b)
  BY <1>1
<1>3. /\ meant = ds /\ block = b /\ honest = (b \in Cuts(ds))
      /\ stage = "start" /\ off = 0 /\ raws = <<>> /\ k = 0 /\ c = NoConfig
  BY <1>2 DEF Arrives
<1>4. ds \in Seq(Descriptor) /\ ds # <<>> /\ ds[1].kind = "configuration"
  BY PublishedAssumption
<1>5. Wire(ds) \in Seq(Byte) /\ Place(ds)[0] = <<>>
  BY <1>4, WireIs
<1>6. ASSUME b \in Cuts(ds)
      PROVE  b \in Seq(Byte) /\ Len(b) <= Len(Wire(ds)) /\ b = SubSeq(Wire(ds), 1, Len(b))
  <2>1. PICK n \in 0..Len(Wire(ds)) : b = SubSeq(Wire(ds), 1, n)
    BY <1>6 DEF Cuts
  <2>2. n \in Nat /\ n <= Len(Wire(ds)) /\ Len(b) = n
    BY <1>5, <2>1
  <2>3. QED
    BY <1>5, <2>1, <2>2
<1>7. ASSUME b \in Lies(ds)
      PROVE  b \in Seq(Byte)
  <2>1. PICK p \in Starts(ds), n \in {0, 1, 3, 10, 255} : b = [Wire(ds) EXCEPT ![p] = n]
    BY <1>7 DEF Lies
  <2>2. n \in Byte
    BY DEF Byte
  <2> DEFINE w == Wire(ds)
             m == Len(w)
  <2>3. m \in Nat /\ w \in [1..m -> Byte]
    BY <1>5
  <2> HIDE DEF w, m
  <2>4. [w EXCEPT ![p] = n] \in [1..m -> Byte]
    BY <2>2, <2>3
  <2>5. [w EXCEPT ![p] = n] \in Seq(Byte)
    BY <2>3, <2>4
  <2>6. QED
    BY <2>1, <2>5 DEF w
<1>8. DTypeOK
  <2>1. <<>> \in Seq(Seq(Byte)) /\ Len(<<>>) = 0
    OBVIOUS
  <2>2. b \in Seq(Byte)
    BY <1>2, <1>6, <1>7
  <2>3. QED
    BY <1>3, <2>1, <2>2, NoConfigIs DEF DTypeOK
<1>9. WalkCovers
  <2>1. SubSeq(block, 1, 0) = <<>> /\ DOMAIN raws = {}
    BY <1>3
  <2>2. QED
    BY <1>3, <2>1, FlattenEmpty DEF WalkCovers
<1>10. Tally
  BY <1>3, NoConfigIs, NothingYet, RankStep DEF Tally
<1>11. Stages
  BY <1>3 DEF Stages
<1>12. ASSUME honest
       PROVE  Faithful
  <2>1. b \in Cuts(ds)
    BY <1>3, <1>12
  <2>2. Len(<<>>) = 0 /\ Len(ds) \in Nat
    BY <1>4
  <2>3. Len(raws) = 0 /\ \A j \in 1..Len(raws) : raws[j] = Bytes(meant[j])
    BY <1>3, <2>2
  <2>4. off = Len(Place(meant)[Len(raws)])
    BY <1>3, <1>5, <2>2, <2>3
  <2>5. QED
    BY <1>3, <1>4, <1>6, <2>1, <2>2, <2>3, <2>4 DEF Faithful
<1>13. QED
  BY <1>8, <1>9, <1>10, <1>11, <1>12 DEF DInv

\* The header's fields are those of the first descriptor, if the block has it.
LEMMA HeaderOk == DInv /\ Header => DInv'
<1> SUFFICES ASSUME DInv, Header
             PROVE  DInv'
  OBVIOUS
<1>1. /\ stage = "start" /\ off = 0 /\ raws = <<>> /\ k = 0 /\ c = NoConfig
      /\ meant' = meant /\ block' = block /\ honest' = honest /\ off' = off /\ raws' = raws /\ k' = k
      /\ block \in Seq(Byte) /\ DTypeOK /\ WalkCovers
  BY DEF DInv, Stages, Header, DTypeOK
<1>2. CASE Len(block) < minConfigDesc
  <2>1. stage' = "bad" /\ c' = c
    BY <1>2 DEF Header
  <2>2. ASSUME honest
        PROVE  \A n \in 1..Len(meant) : Place(meant)[n] # block
    <3>1. meant \in Seq(Descriptor) /\ Len(meant) \in Nat \ {0} /\ meant[1].kind = "configuration"
          /\ meant[1] \in Descriptor
      BY <2>2 DEF DInv, Faithful
    <3>2. Len(Bytes(meant[1])) = 9
      BY <3>1 DEF Bytes
    <3>3. 1 \in 1..Len(meant) /\ 1 \in 0..Len(meant)
      BY <3>1
    <3>4. Len(Place(meant)[1]) = Len(Place(meant)[1 - 1]) + Len(Bytes(meant[1])) /\ Place(meant)[0] = <<>>
      BY <3>1, <3>3, WireIs
    <3>5. Len(Place(meant)[1]) = 9
      BY <3>2, <3>4
    <3>6. ASSUME NEW n \in 1..Len(meant)
          PROVE  Len(Place(meant)[n]) >= 9
      <4>1. n \in 0..Len(meant) /\ 1 \in 0..n
        BY <3>1
      <4>2. Len(Place(meant)[1]) <= Len(Place(meant)[n]) /\ Place(meant)[n] \in Seq(Byte)
        BY <3>1, <4>1, WireIs
      <4>3. QED
        BY <3>5, <4>2
    <3>7. QED
      BY <1>1, <1>2, <3>6 DEF minConfigDesc
  <2>3. DTypeOK' /\ WalkCovers' /\ Stages'
    BY <1>1, <2>1 DEF DTypeOK, WalkCovers, Stages
  <2>4. Tally'
    BY <1>1, <2>1, NoConfigIs, NothingYet, RankStep DEF Tally
  <2>5. honest => Faithful'
    BY <1>1, <2>1, <2>2 DEF DInv, Faithful
  <2>6. QED
    BY <1>1, <2>3, <2>4, <2>5 DEF DInv
<1>3. CASE Len(block) >= minConfigDesc
  <2>1. /\ stage' = "split"
        /\ c' = [NoConfig EXCEPT !.Value = block[6], !.Attributes = block[8], !.MaxPower = block[9]]
    BY <1>1, <1>3 DEF Header, At, minConfigDesc
  <2>2. block[6] \in Byte /\ block[8] \in Byte /\ block[9] \in Byte
    BY <1>1, <1>3 DEF minConfigDesc
  <2>3. /\ c' \in Config /\ c'.Interfaces = <<>> /\ c'.Associations = <<>> /\ c'.Unknown = 0
        /\ c'.Value = block[6] /\ c'.Attributes = block[8] /\ c'.MaxPower = block[9]
    <3>1. c' = [Value |-> block[6], Attributes |-> block[8], MaxPower |-> block[9],
                Associations |-> <<>>, Interfaces |-> <<>>, Unknown |-> 0]
      BY <2>1 DEF NoConfig
    <3>2. <<>> \in Seq(AssociationFields) /\ <<>> \in Seq(Interface)
      OBVIOUS
    <3>3. QED
      BY <2>2, <3>1, <3>2 DEF Config
  <2>4. DTypeOK' /\ WalkCovers' /\ Stages'
    BY <1>1, <1>3, <2>1, <2>3 DEF DTypeOK, WalkCovers, Stages
  <2>5. Tally'
    BY <1>1, <2>3, NothingYet, RankStep DEF Tally
  <2>6. ASSUME honest
        PROVE  Faithful'
    <3>1. meant \in Seq(Descriptor) /\ Len(meant) \in Nat \ {0} /\ meant[1].kind = "configuration"
          /\ Len(block) <= Len(Wire(meant)) /\ block = SubSeq(Wire(meant), 1, Len(block)) /\ Faithful
      BY <2>6 DEF DInv, Faithful
    <3>2. Bytes(meant[1]) = <<9, 2, 0, 0, 1, meant[1].is.Value, 0, meant[1].is.Attributes,
                              meant[1].is.MaxPower>>
      BY <3>1 DEF Bytes
    <3>3. 1 \in 1..Len(meant)
      BY <3>1
    <3>4. /\ Place(meant)[0] = <<>> /\ Wire(meant) \in Seq(Byte) /\ 1 - 1 = 0
          /\ \A i \in 1..Len(Bytes(meant[1])) : Wire(meant)[Len(Place(meant)[1 - 1]) + i] = Bytes(meant[1])[i]
      <4>1. \A i \in 1..Len(Bytes(meant[1])) : Wire(meant)[Len(Place(meant)[1 - 1]) + i] = Bytes(meant[1])[i]
        BY <3>1, <3>3, WireIs
      <4>2. Place(meant)[0] = <<>> /\ Wire(meant) \in Seq(Byte)
        BY <3>1, WireIs
      <4>3. QED
        BY <4>1, <4>2
    <3>5. \A i \in 1..9 : Wire(meant)[i] = Bytes(meant[1])[i]
      <4>1. Len(Bytes(meant[1])) = 9
        BY <3>2
      <4>2. Len(Place(meant)[1 - 1]) = 0
        BY <3>4
      <4>3. SUFFICES ASSUME NEW i \in 1..9
                     PROVE  Wire(meant)[i] = Bytes(meant[1])[i]
        OBVIOUS
      <4>4. 0 + i = i
        OBVIOUS
      <4>5. QED
        BY <3>4, <4>1, <4>2, <4>4
    <3>6. \A i \in 1..9 : block[i] = Bytes(meant[1])[i]
      <4>1. Len(block) \in Nat /\ 9 <= Len(block)
        BY <1>1, <1>3 DEF minConfigDesc
      <4>2. SUFFICES ASSUME NEW i \in 1..9
                     PROVE  block[i] = Wire(meant)[i]
        BY <3>5
      <4>3. i \in 1..Len(block)
        BY <4>1
      <4>4. Len(block) <= Len(Wire(meant)) /\ block = SubSeq(Wire(meant), 1, Len(block))
        BY <3>1
      <4>5. QED
        BY <3>4, <4>1, <4>3, <4>4
    <3>7. block[6] = meant[1].is.Value /\ block[8] = meant[1].is.Attributes /\ block[9] = meant[1].is.MaxPower
      BY <3>2, <3>6
    <3>8. SaysHeader(meant, c')
      BY <2>3, <3>7 DEF SaysHeader
    <3>9. Describes(meant, 0, c')
      BY <2>3, <3>8, DescribesNone
    <3>10. QED
      BY <1>1, <2>1, <3>1, <3>9 DEF Faithful
  <2>7. QED
    BY <1>1, <2>4, <2>5, <2>6 DEF DInv
<1>4. QED
  BY <1>1, <1>2, <1>3 DEF minConfigDesc

\* What Split cuts off lies in the block, and is as long as it says.
LEMMA PieceIs ==
    ASSUME DTypeOK, Whole
    PROVE  LET x == SubSeq(block, off + 1, off + At(off))
           IN  /\ At(off) \in Nat /\ At(off) >= 2 /\ off + At(off) <= Len(block)
               /\ x \in Seq(Byte) /\ Len(x) = At(off)
               /\ \A i \in 1..At(off) : x[i] = block[off + i]
               /\ SubSeq(block, 1, off) \o x = SubSeq(block, 1, off + At(off))
<1> DEFINE n == At(off)
           x == SubSeq(block, off + 1, off + n)
<1>1. off \in Nat /\ block \in Seq(Byte) /\ Len(block) \in Nat /\ off + 1 \in 1..Len(block)
      /\ n = block[off + 1]
  BY DEF DTypeOK, Whole, At
<1>2. n \in Nat /\ n >= 2 /\ off + n <= Len(block)
  <2>1. block[off + 1] \in Byte
    BY <1>1
  <2>2. n \in Nat
    <3>1. \A v \in Byte : v \in Nat
      BY DEF Byte
    <3>2. QED
      BY <1>1, <2>1, <3>1
  <2>3. QED
    BY <2>2 DEF Whole
<1> HIDE DEF n
<1>3. x \in Seq(Byte) /\ Len(x) = n
  BY <1>1, <1>2
<1>4. ASSUME NEW i \in 1..n
      PROVE  x[i] = block[off + i]
  <2>1. x[i] = block[(off + 1) + i - 1]
    BY <1>1, <1>2
  <2>2. (off + 1) + i - 1 = off + i
    BY <1>1, <1>2
  <2>3. QED
    BY <2>1, <2>2
<1>5. SubSeq(block, 1, off) \o x = SubSeq(block, 1, off + n)
  <2> DEFINE a == SubSeq(block, 1, off)
             b == SubSeq(block, 1, off + n)
  <2>1. /\ a \in Seq(Byte) /\ Len(a) = off /\ \A i \in 1..off : a[i] = block[i]
        /\ b \in Seq(Byte) /\ Len(b) = off + n /\ \A i \in 1..off + n : b[i] = block[i]
    BY <1>1, <1>2
  <2> HIDE DEF a, b, x
  <2>2. /\ a \o x \in Seq(Byte) /\ Len(a \o x) = off + n
        /\ \A i \in 1..off + n : (a \o x)[i] = IF i <= off THEN a[i] ELSE x[i - off]
    <3>1. /\ a \o x \in Seq(Byte) /\ Len(a \o x) = Len(a) + Len(x)
          /\ \A i \in 1..Len(a) + Len(x) :
                (a \o x)[i] = IF i <= Len(a) THEN a[i] ELSE x[i - Len(a)]
      BY <1>3, <2>1, ConcatProperties
    <3>2. QED
      BY <1>3, <2>1, <3>1
  <2>3. ASSUME NEW i \in 1..off + n
        PROVE  (a \o x)[i] = b[i]
    <3>1. CASE i <= off
      <4>1. i \in 1..off
        BY <1>1, <3>1
      <4>2. (a \o x)[i] = a[i]
        BY <2>2, <3>1
      <4>3. a[i] = block[i] /\ b[i] = block[i]
        BY <2>1, <4>1
      <4>4. QED
        BY <4>2, <4>3
    <3>2. CASE i > off
      <4>1. i - off \in 1..n /\ off + (i - off) = i
        BY <1>1, <1>2, <3>2
      <4>2. (a \o x)[i] = x[i - off]
        BY <1>1, <1>2, <2>2, <3>2
      <4>3. QED
        BY <1>4, <2>1, <4>1, <4>2
    <3>3. i <= off \/ i > off
      BY <1>1, <1>2
    <3>4. QED
      BY <3>1, <3>2, <3>3, Zenon
  <2>4. QED
    BY <2>1, <2>2, <2>3
<1>6. QED
  BY <1>2, <1>3, <1>4, <1>5 DEF n

\* Where the walk stands in an honest block, the device's next descriptor begins.
LEMMA NextIs ==
    ASSUME DInv, honest, off < Len(block)
    PROVE  LET r == Len(raws)
               b == Bytes(meant[r + 1])
           IN  /\ r \in Nat /\ r + 1 \in 1..Len(meant) /\ b \in Seq(Byte) /\ Len(b) >= 2
               /\ Len(Place(meant)[r + 1]) = off + Len(b)
               /\ At(off) = Len(b)
               /\ \A i \in 1..Len(b) : off + i <= Len(block) => block[off + i] = b[i]
<1> DEFINE r == Len(raws)
           b == Bytes(meant[r + 1])
           M == Len(meant)
           W == Wire(meant)
<1>1. /\ off \in Nat /\ r \in Nat /\ block \in Seq(Byte) /\ Len(block) \in Nat
      /\ meant \in Seq(Descriptor) /\ M \in Nat
      /\ Len(block) <= Len(W) /\ block = SubSeq(W, 1, Len(block))
      /\ r <= M /\ off = Len(Place(meant)[r])
  BY DEF DInv, DTypeOK, Faithful
<1>2. Place(meant)[M] = W /\ W \in Seq(Byte) /\ Len(W) \in Nat
  <2>1. Place(meant)[M] = W /\ W \in Seq(Byte)
    BY <1>1, WireIs
  <2>2. QED
    BY <2>1
<1>3. r # M
  BY <1>1, <1>2
<1>4. r + 1 \in 1..M /\ (r + 1) - 1 = r
  BY <1>1, <1>3
<1>5. b \in Seq(Byte) /\ Len(b) >= 2 /\ b[1] = Len(b) /\ Len(b) \in Nat
  <2>1. meant[r + 1] \in Descriptor
    BY <1>1, <1>4
  <2>2. b \in Seq(Byte) /\ Len(b) >= 2 /\ b[1] = Len(b)
    BY <2>1, BytesAre
  <2>3. QED
    BY <2>2
<1>6. /\ Len(Place(meant)[r + 1]) = Len(Place(meant)[(r + 1) - 1]) + Len(b)
      /\ \A i \in 1..Len(b) : W[Len(Place(meant)[(r + 1) - 1]) + i] = b[i]
  BY <1>1, <1>4, WireIs
<1>7. Len(Place(meant)[r + 1]) = off + Len(b) /\ \A i \in 1..Len(b) : W[off + i] = b[i]
  BY <1>1, <1>4, <1>6
<1> HIDE DEF b, W, r, M
<1>8. ASSUME NEW i \in 1..Len(b), off + i <= Len(block)
      PROVE  block[off + i] = b[i]
  <2>1. off + i \in 1..Len(block)
    BY <1>1, <1>5, <1>8
  <2>2. block[off + i] = W[off + i]
    BY <1>1, <1>2, <2>1
  <2>3. QED
    BY <1>7, <2>2
<1>9. At(off) = Len(b)
  <2>1. 1 \in 1..Len(b) /\ off + 1 <= Len(block)
    BY <1>1, <1>5
  <2>2. block[off + 1] = b[1]
    BY <1>8, <2>1
  <2>3. QED
    BY <1>5, <2>2 DEF At
<1>10. QED
  BY <1>1, <1>4, <1>5, <1>7, <1>8, <1>9 DEF b, r, M

LEMMA SplitOk == DInv /\ Split => DInv'
<1> SUFFICES ASSUME DInv, Split
             PROVE  DInv'
  OBVIOUS
<1>1. /\ DTypeOK /\ WalkCovers /\ Tally /\ Stages
      /\ stage = "split" /\ off < Len(block) /\ k = 0
      /\ meant' = meant /\ block' = block /\ honest' = honest /\ k' = k /\ c' = c
  BY DEF DInv, Split, Stages
<1>2. k' = 0 /\ Tally'
  <2>1. Rank(Headers', 0) = 0 /\ Rank(Headers, 0) = 0
    BY RankStep
  <2>2. QED
    BY <1>1, <2>1 DEF Tally
<1>3. CASE Whole
  <2> DEFINE x == SubSeq(block, off + 1, off + At(off))
  <2>1. raws' = Append(raws, x) /\ off' = off + At(off) /\ stage' = stage
    BY <1>3 DEF Split
  <2>2. /\ At(off) \in Nat /\ At(off) >= 2 /\ off + At(off) <= Len(block)
        /\ x \in Seq(Byte) /\ Len(x) = At(off)
        /\ \A i \in 1..At(off) : x[i] = block[off + i]
        /\ SubSeq(block, 1, off) \o x = SubSeq(block, 1, off + At(off))
    BY <1>1, <1>3, PieceIs
  <2> HIDE DEF x
  <2>3. /\ raws \in Seq(Seq(Byte)) /\ Len(raws) \in Nat /\ raws' \in Seq(Seq(Byte)) /\ Len(raws') = Len(raws) + 1
        /\ \A j \in 1..Len(raws) : raws'[j] = raws[j]
        /\ raws'[Len(raws) + 1] = x
    <3>1. raws \in Seq(Seq(Byte))
      BY <1>1 DEF DTypeOK
    <3>2. QED
      BY <2>1, <2>2, <3>1, AppendProperties
  <2>4. DTypeOK'
    BY <1>1, <1>2, <2>1, <2>2, <2>3 DEF DTypeOK
  <2>5. WalkCovers'
    <3>1. FlattenSeq(raws') = FlattenSeq(raws) \o x
      BY <2>1, <2>2, <2>3, FlattenAppend
    <3>2. FlattenSeq(raws') = SubSeq(block', 1, off')
      BY <1>1, <2>1, <2>2, <3>1 DEF WalkCovers
    <3>3. x[1] = Len(x)
      <4>1. 1 \in 1..At(off)
        BY <2>2
      <4>2. QED
        BY <2>2, <4>1 DEF At
    <3>4. \A j \in DOMAIN raws' : raws'[j][1] = Len(raws'[j])
      <4>1. DOMAIN raws' = 1..Len(raws) + 1 /\ DOMAIN raws = 1..Len(raws)
        BY <2>3
      <4>2. \A j \in 1..Len(raws) : raws[j][1] = Len(raws[j])
        BY <1>1, <4>1 DEF WalkCovers
      <4>3. DOMAIN raws' = 1..Len(raws) \cup {Len(raws) + 1}
        BY <2>3, <4>1
      <4>4. QED
        BY <2>3, <3>3, <4>1, <4>2, <4>3
    <3>5. QED
      BY <3>2, <3>4 DEF WalkCovers
  <2>6. Stages'
    BY <1>1, <1>2, <2>1 DEF Stages
  <2>7. ASSUME honest
        PROVE  Faithful'
    <3> DEFINE r == Len(raws)
               b == Bytes(meant[r + 1])
    <3>1. /\ r \in Nat /\ r + 1 \in 1..Len(meant) /\ b \in Seq(Byte) /\ Len(b) >= 2
          /\ Len(Place(meant)[r + 1]) = off + Len(b)
          /\ At(off) = Len(b)
          /\ \A i \in 1..Len(b) : off + i <= Len(block) => block[off + i] = b[i]
      BY <1>1, <2>7, NextIs
    <3>2. Faithful /\ off \in Nat /\ Len(block) \in Nat
      BY <1>1, <2>7 DEF DInv, DTypeOK
    <3> HIDE DEF b
    <3>3. x = b
      <4>1. \A i \in 1..Len(b) : off + i <= Len(block)
        BY <2>2, <3>1, <3>2
      <4>2. \A i \in 1..Len(b) : x[i] = b[i]
        BY <2>2, <3>1, <4>1
      <4>3. Len(x) = Len(b) /\ x \in Seq(Byte)
        BY <2>2, <3>1
      <4>4. QED
        BY <3>1, <4>2, <4>3
    <3>4. \A j \in 1..Len(raws') : raws'[j] = Bytes(meant[j])
      <4>1. \A j \in 1..r : raws[j] = Bytes(meant[j])
        BY <3>2 DEF Faithful
      <4>2. 1..Len(raws') = 1..r \cup {r + 1}
        BY <2>3, <3>1
      <4>3. \A j \in 1..r : raws'[j] = Bytes(meant[j])
        BY <2>3, <4>1
      <4>4. raws'[r + 1] = Bytes(meant[r + 1])
        BY <2>3, <3>3 DEF b
      <4>5. QED
        BY <4>2, <4>3, <4>4
    <3>5. Len(raws') = r + 1 /\ off' = Len(Place(meant)[r + 1]) /\ Len(raws') <= Len(meant)
      BY <2>1, <2>3, <3>1
    <3>6. /\ meant' \in Seq(Descriptor) /\ meant' # <<>> /\ meant'[1].kind = "configuration"
          /\ Len(block') <= Len(Wire(meant')) /\ block' = SubSeq(Wire(meant'), 1, Len(block'))
          /\ Describes(meant', k', c')
      BY <1>1, <3>2 DEF Faithful
    <3>7. stage' = "split"
      BY <1>1, <2>1
    <3>8. \A j \in 1..Len(raws') : raws'[j] = Bytes(meant'[j])
      BY <1>1, <3>4
    <3>9. off' = Len(Place(meant')[Len(raws')]) /\ Len(raws') <= Len(meant')
      BY <1>1, <3>5
    <3>10. QED
      BY <3>6, <3>7, <3>8, <3>9 DEF Faithful
  <2>8. QED
    BY <1>1, <1>2, <2>4, <2>5, <2>6, <2>7 DEF DInv
<1>4. CASE ~Whole
  <2>1. stage' = "bad" /\ off' = off /\ raws' = raws
    BY <1>4 DEF Split
  <2>2. DTypeOK' /\ WalkCovers' /\ Stages'
    BY <1>1, <2>1 DEF DTypeOK, WalkCovers, Stages
  <2>3. ASSUME honest
        PROVE  Faithful'
    <3> DEFINE r == Len(raws)
               b == Bytes(meant[r + 1])
               P == Place(meant)
    <3>1. /\ r \in Nat /\ r + 1 \in 1..Len(meant) /\ b \in Seq(Byte) /\ Len(b) >= 2
          /\ Len(P[r + 1]) = off + Len(b)
          /\ At(off) = Len(b)
      BY <1>1, <2>3, NextIs
    <3>2. /\ Faithful /\ off \in Nat /\ Len(block) \in Nat /\ meant \in Seq(Descriptor)
          /\ off = Len(P[r])
      BY <1>1, <2>3 DEF DInv, DTypeOK, Faithful
    <3>3. Len(block) < Len(P[r + 1])
      <4>1. Len(b) \in Nat
        BY <3>1
      <4> HIDE DEF b
      <4>2. QED
        BY <1>4, <3>1, <3>2, <4>1 DEF Whole
    <3>4. ASSUME NEW n \in 1..Len(meant)
          PROVE  P[n] # block
      <4> DEFINE N == Len(meant)
      <4>1. N \in Nat /\ n \in 0..N /\ r \in 0..N /\ r + 1 \in 0..N
        BY <3>1, <3>2
      <4>2. /\ \A m \in 0..r : Len(P[m]) <= Len(P[r])
            /\ \A m \in 0..n : Len(P[m]) <= Len(P[n])
            /\ P[n] \in Seq(Byte) /\ P[r] \in Seq(Byte) /\ P[r + 1] \in Seq(Byte)
        BY <3>2, <4>1, WireIs
      <4>3. Len(P[n]) \in Nat /\ Len(P[r]) \in Nat /\ Len(P[r + 1]) \in Nat
        BY <4>2
      <4> HIDE DEF P
      <4>4. CASE n <= r
        <5>1. n \in 0..r
          BY <3>1, <4>1, <4>4
        <5>2. QED
          BY <1>1, <3>2, <4>2, <4>3, <5>1
      <4>5. CASE n > r
        <5>1. r + 1 \in 0..n
          BY <3>1, <4>1, <4>5
        <5>2. QED
          BY <3>2, <3>3, <4>2, <4>3, <5>1
      <4>6. QED
        BY <3>1, <4>1, <4>4, <4>5
    <3>5. QED
      BY <1>1, <2>1, <3>2, <3>4 DEF Faithful
  <2>4. QED
    BY <1>1, <1>2, <2>2, <2>3 DEF DInv
<1>5. QED
  BY <1>3, <1>4

LEMMA SplitReturnsOk == DInv /\ SplitReturns => DInv'
<1> SUFFICES ASSUME DInv, SplitReturns
             PROVE  DInv'
  OBVIOUS
<1>1. /\ DTypeOK /\ WalkCovers /\ Tally /\ Stages
      /\ stage = "split" /\ off >= Len(block) /\ stage' = "walk"
      /\ UNCHANGED <<meant, block, honest, off, raws, k, c>>
  BY DEF DInv, SplitReturns
<1>2. off = Len(block)
  BY <1>1 DEF DTypeOK
<1>3. DTypeOK' /\ WalkCovers' /\ Stages'
  BY <1>1, <1>2 DEF DTypeOK, WalkCovers, Stages
<1>4. Tally'
  BY <1>1 DEF Tally, Headers
<1>5. ASSUME honest
      PROVE  Faithful'
  <2>1. Faithful
    BY <1>5 DEF DInv
  <2>2. QED
    BY <1>1, <2>1 DEF Faithful
<1>6. QED
  BY <1>1, <1>3, <1>4, <1>5 DEF DInv

LEMMA SortOk == DInv /\ Sort => DInv'
<1> SUFFICES ASSUME DInv, Sort
             PROVE  DInv'
  OBVIOUS
<1> DEFINE r == raws[k + 1]
<1>1. /\ DTypeOK /\ WalkCovers /\ Tally /\ Stages
      /\ stage = "walk" /\ k < Len(raws) /\ k' = k + 1 /\ c' = Sorted(r, c)
      /\ UNCHANGED <<meant, block, honest, stage, off, raws>>
  BY DEF DInv, Sort
<1>2. /\ k \in Nat /\ raws \in Seq(Seq(Byte)) /\ Len(raws) \in Nat /\ c \in Config
      /\ k + 1 \in 1..Len(raws) /\ r \in Seq(Byte)
  BY <1>1 DEF DTypeOK
<1> HIDE DEF r
<1>3. c' \in Config /\ SameHeader(c', c) /\ Turn(c', c, r)
  BY <1>1, <1>2, SortedIs
<1>4. DTypeOK' /\ WalkCovers' /\ Stages'
  <2>1. k' \in 0..Len(raws)
    BY <1>1, <1>2
  <2>2. QED
    BY <1>1, <1>3, <2>1 DEF DTypeOK, WalkCovers, Stages
<1>5. Tally'
  <2>1. /\ IsFiniteSet(EndpointsIn(c')) /\ Places(c) \in Nat
        /\ Places(c') = IF r[2] = DescConfigurationDesc THEN Places(c) ELSE Places(c) + 1
    BY <1>1, <1>2, <1>3, TurnCounts DEF Tally
  <2>2. k + 1 \in Headers <=> r[2] = DescConfigurationDesc
    BY <1>2 DEF Headers, r
  <2>3. /\ Rank(Headers, k) \in Nat
        /\ k + 1 \in Headers => Rank(Headers, k + 1) = Rank(Headers, k) + 1
        /\ k + 1 \notin Headers => Rank(Headers, k + 1) = Rank(Headers, k)
    <3>1. /\ Rank(Headers, k) \in 0..k
          /\ k + 1 \in Headers => Rank(Headers, k + 1) = Rank(Headers, k) + 1
          /\ k + 1 \notin Headers => Rank(Headers, k + 1) = Rank(Headers, k)
      BY <1>2, RankStep
    <3>2. QED
      BY <1>2, <3>1
  <2>4. k + 1 = Rank(Headers, k + 1) + Places(c')
    BY <1>1, <1>2, <2>1, <2>2, <2>3 DEF Tally
  <2>5. Headers' = Headers
    BY <1>1 DEF Headers
  <2>6. QED
    BY <1>1, <2>1, <2>4, <2>5 DEF Tally
<1>6. ASSUME honest
      PROVE  Faithful'
  <2>1. Faithful
    BY <1>6 DEF DInv
  <2>2. /\ meant \in Seq(Descriptor) /\ Len(meant) \in Nat /\ Len(raws) <= Len(meant)
        /\ \A j \in 1..Len(raws) : raws[j] = Bytes(meant[j])
        /\ Describes(meant, k, c)
    BY <1>1, <2>1 DEF Faithful
  <2>3. r = Bytes(meant[k + 1]) /\ k < Len(meant)
    BY <1>1, <1>2, <2>2 DEF r
  <2>4. Describes(meant, k + 1, c')
    BY <1>2, <1>3, <2>2, <2>3, TurnDescribes
  <2>5. Describes(meant', k', c')
    BY <1>1, <2>4
  <2>6. QED
    BY <1>1, <2>1, <2>5 DEF Faithful
<1>7. QED
  BY <1>1, <1>4, <1>5, <1>6 DEF DInv

LEMMA ParseReturnsOk == DInv /\ ParseReturns => DInv'
<1> SUFFICES ASSUME DInv, ParseReturns
             PROVE  DInv'
  OBVIOUS
<1>1. /\ DTypeOK /\ WalkCovers /\ Tally /\ Stages
      /\ stage = "walk" /\ k = Len(raws) /\ stage' = "done"
      /\ UNCHANGED <<meant, block, honest, off, raws, k, c>>
  BY DEF DInv, ParseReturns
<1>2. DTypeOK' /\ WalkCovers' /\ Stages'
  BY <1>1 DEF DTypeOK, WalkCovers, Stages
<1>3. Tally'
  BY <1>1 DEF Tally, Headers
<1>4. ASSUME honest
      PROVE  Faithful'
  <2>1. Faithful /\ meant \in Seq(Descriptor) /\ Len(raws) \in Nat /\ Len(raws) <= Len(meant)
        /\ off = Len(Place(meant)[Len(raws)]) /\ block = SubSeq(Wire(meant), 1, Len(block))
    BY <1>1, <1>4 DEF DInv, Faithful, DTypeOK
  <2>2. off = Len(block) /\ off >= 9
    BY <1>1 DEF Stages, minConfigDesc
  <2>3. Len(raws) > 0
    <3>1. Place(meant)[0] = <<>>
      BY <2>1, WireIs
    <3>2. Len(Place(meant)[0]) = 0
      BY <3>1
    <3>3. ASSUME Len(raws) = 0
          PROVE  FALSE
      <4>1. Place(meant)[Len(raws)] = Place(meant)[0]
        BY <3>3
      <4>2. off = Len(Place(meant)[Len(raws)])
        BY <2>1
      <4>3. off = 0
        BY <3>2, <4>1, <4>2
      <4>4. QED
        BY <2>2, <4>3
    <3>4. QED
      BY <2>1, <3>3
  <2>4. block = Place(meant)[Len(raws)]
    <3>1. Len(raws) \in 0..Len(meant)
      BY <2>1
    <3>2. Place(meant)[Len(raws)] = SubSeq(Wire(meant), 1, Len(Place(meant)[Len(raws)]))
      BY <2>1, <3>1, WireIs
    <3>3. QED
      BY <2>1, <2>2, <3>2
  <2>5. QED
    BY <1>1, <2>1, <2>3, <2>4 DEF Faithful
<1>5. QED
  BY <1>1, <1>2, <1>3, <1>4 DEF DInv

\* The invariant is inductive.
LEMMA DescriptorsStep == DInv /\ [DNext]_dvars => DInv'
<1> SUFFICES ASSUME DInv, [DNext]_dvars
             PROVE  DInv'
  OBVIOUS
<1>1. CASE Header
  BY <1>1, HeaderOk
<1>2. CASE Split
  BY <1>2, SplitOk
<1>3. CASE SplitReturns
  BY <1>3, SplitReturnsOk
<1>4. CASE Sort
  BY <1>4, SortOk
<1>5. CASE ParseReturns
  BY <1>5, ParseReturnsOk
<1>6. CASE UNCHANGED dvars
  <2>1. UNCHANGED <<meant, block, honest, stage, off, raws, k, c>>
    BY <1>6 DEF dvars
  <2>2. DTypeOK' /\ WalkCovers' /\ Tally' /\ Stages'
    BY <2>1 DEF DInv, DTypeOK, WalkCovers, Tally, Headers, Stages
  <2>3. (honest => Faithful)'
    BY <2>1 DEF DInv, Faithful
  <2>4. QED
    BY <2>2, <2>3 DEF DInv
<1>7. QED
  BY <1>1, <1>2, <1>3, <1>4, <1>5, <1>6 DEF DNext

LEMMA Inductive == DSpec => []DInv
BY DescriptorsInit, DescriptorsStep, PTL DEF DSpec

\* Type correctness: whatever bytes a block holds, ParseConfig never reads outside
\* it, and what it returns is a Config of bytes and 16-bit packet sizes.
THEOREM DTypeCorrect == DSpec => []DTypeOK
<1>1. DInv => DTypeOK
  BY DEF DInv
<1>2. QED
  BY Inductive, <1>1, PTL

\* "Walking by bLength": the pieces Split has cut off are the block up to where it
\* stands, each as long as it says, in every block, honest or not.
THEOREM WalkIsComplete == DSpec => []WalkCovers
<1>1. DInv => WalkCovers
  BY DEF DInv
<1>2. QED
  BY Inductive, <1>1, PTL

LEMMA CountFollows == DInv => NothingDropped
<1> SUFFICES ASSUME DInv, stage = "done"
             PROVE  Len(raws) = Cardinality(Headers)
                       + Len(c.Interfaces) + Len(c.Associations) + c.Unknown
                       + Cardinality(EndpointsIn(c))
  BY DEF NothingDropped, Headers
<1>1. /\ raws \in Seq(Seq(Byte)) /\ Len(raws) \in Nat /\ c \in Config /\ k = Len(raws)
      /\ IsFiniteSet(EndpointsIn(c)) /\ k = Rank(Headers, k) + Places(c)
  BY DEF DInv, DTypeOK, Stages, Tally
<1>2. Headers \cap 1..Len(raws) = Headers
  BY <1>1 DEF Headers
<1>3. Rank(Headers, k) = Cardinality(Headers)
  BY <1>1, <1>2 DEF Rank
<1>4. Rank(Headers, k) \in Nat
  <2>1. Rank(Headers, k) \in 0..k
    BY <1>1, RankStep
  <2>2. QED
    BY <1>1, <2>1
<1>5. Len(raws) = Cardinality(Headers) + Places(c) /\ Cardinality(Headers) \in Nat
  BY <1>1, <1>3, <1>4
<1>6. /\ Len(c.Interfaces) \in Nat /\ Len(c.Associations) \in Nat /\ c.Unknown \in Nat
      /\ Cardinality(EndpointsIn(c)) \in Nat
  BY <1>1, FS_CardinalityType DEF Config
<1> DEFINE i == Len(c.Interfaces)
           a == Len(c.Associations)
           u == c.Unknown
           e == Cardinality(EndpointsIn(c))
           h == Cardinality(Headers)
<1>7. i \in Nat /\ a \in Nat /\ u \in Nat /\ e \in Nat /\ h \in Nat
  BY <1>5, <1>6
<1>8. Places(c) = i + a + u + e
  BY DEF Places
<1>9. Len(raws) = h + Places(c)
  BY <1>5
<1> HIDE DEF i, a, u, e, h
<1>10. Len(raws) = h + i + a + u + e
  BY <1>7, <1>8, <1>9
<1>11. QED
  BY <1>10 DEF i, a, u, e, h

\* "Count it rather than drop it silently": however many descriptors a block has
\* and whatever they are, each but the headers has one place in the Config.
THEOREM NothingIsDropped == DSpec => []NothingDropped
BY CountFollows, Inductive, PTL

LEMMA CutFollows == DInv => CutIsNoticed
<1> DEFINE Before == {n \in 1..Len(meant) : Wire(SubSeq(meant, 1, n)) = block}
<1> SUFFICES ASSUME DInv, honest
             PROVE  /\ stage = "done" => \E n \in Before : Describes(meant, n, c)
                    /\ stage = "bad" => Before = {}
  BY DEF CutIsNoticed
<1>1. Faithful /\ meant \in Seq(Descriptor) /\ Len(meant) \in Nat /\ Len(raws) \in Nat
  BY DEF DInv, Faithful, DTypeOK
<1>2. \A n \in 1..Len(meant) : Place(meant)[n] = Wire(SubSeq(meant, 1, n))
  BY <1>1 DEF Place
<1>3. ASSUME stage = "done"
      PROVE  \E n \in Before : Describes(meant, n, c)
  <2>1. /\ Len(raws) \in 1..Len(meant) /\ block = Place(meant)[Len(raws)]
        /\ k = Len(raws) /\ Describes(meant, k, c)
    BY <1>1, <1>3 DEF Faithful, DInv, Stages
  <2>2. k \in Before
    BY <1>2, <2>1
  <2>3. QED
    BY <2>1, <2>2
<1>4. ASSUME stage = "bad"
      PROVE  Before = {}
  BY <1>1, <1>2, <1>4 DEF Faithful
<1>5. QED
  BY <1>3, <1>4

\* Reading a block back: for every list of descriptors a device can publish, a
\* block cut between two of them decodes to exactly what those before the cut say,
\* every interface with its own endpoints, and one cut inside a descriptor is refused.
THEOREM CutsAreNoticed == DSpec => []CutIsNoticed
BY CutFollows, Inductive, PTL
=============================================================================
