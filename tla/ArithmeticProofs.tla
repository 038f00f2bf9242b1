-------------------------- MODULE ArithmeticProofs --------------------------
(***************************************************************************)
(* The binary ladders of log and client agree, for every u32::MAX, greatest *)
(* version and target.  What both walk is described once, without          *)
(* recursion, by the bounds between which the greatest version is known to *)
(* lie after each lookup.  The index trees fit together at every size:     *)
(* every node is over a block of entries, and what a recursive definition  *)
(* yields at a node is told by its block.                                  *)
(***************************************************************************)
EXTENDS Arithmetic, LogMathProofs

\* The greatest version is at least the first bound and below the second.
AllBounds == (Absent .. MaxVersion) \X (0 .. Unbounded)
Between(b) == b \in AllBounds /\ b[1] < b[2]
Met(b) == b[2] - b[1] <= 1

\* s are the lookups that narrow the bounds b to the greatest version m, h the bounds after
\* each of them.
LadderBy(s, b, m, h) ==
  /\ s \in Seq(0 .. MaxVersion)
  /\ h \in [0 .. Len(s) -> AllBounds]
  /\ h[0] = b
  /\ \A i \in 1 .. Len(s) :
       /\ ~Met(h[i - 1])
       /\ s[i] = NextLookup(h[i - 1])
       /\ h[i] = Narrowed(h[i - 1], s[i], s[i] <= m)
  /\ Met(h[Len(s)])

Ladder(s, b, m) == \E h : LadderBy(s, b, m, h)

\* Every lookup lies strictly between the bounds.
LEMMA LookupBetween ==
  ASSUME NEW b, Between(b), ~Met(b)
  PROVE  /\ NextLookup(b) \in 0 .. MaxVersion
         /\ b[1] < NextLookup(b) /\ NextLookup(b) < b[2]
<1>1. PICK x \in Absent .. MaxVersion, y \in 0 .. Unbounded : b = <<x, y>>
  BY DEF Between, AllBounds
<1>2. x \in Int /\ y \in Int /\ -1 <= x /\ x <= MaxVersion /\ 0 <= y /\ y <= MaxVersion + 1 /\ y - x > 1
  BY <1>1, WidthAssumption DEF Between, Met, Absent, Unbounded
<1>3. MaxVersion \in Nat /\ MaxVersion >= 1
  BY WidthAssumption
<1>4. CASE y # Unbounded
  <2>1. NextLookup(b) = Middle(x, y)
    BY <1>1, <1>4 DEF NextLookup
  <2>2. y <= MaxVersion
    BY <1>2, <1>3, <1>4 DEF Unbounded
  <2> QED
    BY <1>1, <1>2, <1>3, <2>1, <2>2 DEF Middle
<1>5. CASE y = Unbounded /\ x = Absent
  <2>1. NextLookup(b) = 0
    BY <1>1, <1>5 DEF NextLookup
  <2> QED
    BY <1>1, <1>2, <1>3, <1>5, <2>1 DEF Absent, Unbounded
<1>6. CASE y = Unbounded /\ x # Absent
  <2>1. NextLookup(b) = Double(x)
    BY <1>1, <1>6 DEF NextLookup
  <2>2. x >= 0 /\ x < MaxVersion
    BY <1>2, <1>3, <1>6 DEF Absent, Unbounded
  <2> QED
    BY <1>1, <1>2, <1>3, <1>6, <2>1, <2>2 DEF Double, Unbounded
<1> QED
  BY <1>4, <1>5, <1>6

\* A lookup narrows the bounds.
LEMMA NarrowedBetween ==
  ASSUME NEW b, Between(b), NEW v \in 0 .. MaxVersion, b[1] < v, v < b[2], NEW i \in BOOLEAN
  PROVE  Between(Narrowed(b, v, i)) /\ Narrowed(b, v, i) \in AllBounds
<1>1. PICK x \in Absent .. MaxVersion, y \in 0 .. Unbounded : b = <<x, y>>
  BY DEF Between, AllBounds
<1>2. v \in Absent .. MaxVersion /\ v \in 0 .. Unbounded
  BY WidthAssumption DEF Absent, Unbounded
<1>3. <<v, y>> \in AllBounds /\ <<x, v>> \in AllBounds
  BY <1>2 DEF AllBounds
<1>4. Narrowed(b, v, i) = IF i THEN <<v, y>> ELSE <<x, v>>
  BY <1>1 DEF Narrowed
<1> QED
  BY <1>1, <1>3, <1>4 DEF Between

\* Nothing is looked up once the bounds have met.
LEMMA LadderMet ==
  ASSUME NEW b \in AllBounds, Met(b), NEW m
  PROVE  Ladder(<<>>, b, m)
<1>1. PICK h : h = [i \in 0 .. 0 |-> b]
  OBVIOUS
<1>2. h \in [0 .. 0 -> AllBounds] /\ h[0] = b
  BY <1>1
<1>3. Len(<<>>) = 0 /\ <<>> \in Seq(0 .. MaxVersion) /\ 1 .. 0 = {}
  OBVIOUS
<1>4. LadderBy(<<>>, b, m, h)
  BY <1>2, <1>3 DEF LadderBy
<1> QED
  BY <1>4 DEF Ladder

\* A first lookup before a ladder.
LEMMA LadderCons ==
  ASSUME NEW b, Between(b), ~Met(b), NEW m \in Int, NEW s,
         Ladder(s, Narrowed(b, NextLookup(b), NextLookup(b) <= m), m)
  PROVE  /\ <<NextLookup(b)>> \o s \in Seq(0 .. MaxVersion)
         /\ Ladder(<<NextLookup(b)>> \o s, b, m)
<1>1. PICK v \in 0 .. MaxVersion : v = NextLookup(b)
  BY LookupBetween
<1>2. PICK h : LadderBy(s, Narrowed(b, v, v <= m), m, h)
  BY <1>1 DEF Ladder
<1>3. PICK N \in Nat : N = Len(s)
  BY <1>2, LenProperties DEF LadderBy
<1>4. s \in Seq(0 .. MaxVersion)
  BY <1>2 DEF LadderBy
<1>5. PICK r : r = <<v>> \o s
  OBVIOUS
<1>6. r \in Seq(0 .. MaxVersion) /\ Len(r) = N + 1
  BY <1>1, <1>3, <1>4, <1>5
<1>7. r[1] = v /\ \A i \in 2 .. N + 1 : r[i] = s[i - 1]
  BY <1>1, <1>3, <1>4, <1>5
<1>8. PICK f : f = [i \in 0 .. N + 1 |-> IF i = 0 THEN b ELSE h[i - 1]]
  OBVIOUS
<1>9. f[0] = b /\ \A i \in 1 .. N + 1 : f[i] = h[i - 1]
  BY <1>8
<1>10. h \in [0 .. N -> AllBounds] /\ h[0] = Narrowed(b, v, v <= m) /\ Met(h[N])
  BY <1>2, <1>3 DEF LadderBy
<1>11. f \in [0 .. N + 1 -> AllBounds]
  <2>1. b \in AllBounds
    BY DEF Between
  <2>2. \A i \in 0 .. N + 1 : i # 0 => i - 1 \in 0 .. N
    OBVIOUS
  <2> QED
    BY <1>8, <1>10, <2>1, <2>2
<1>12. ASSUME NEW i \in 1 .. N + 1
       PROVE  ~Met(f[i - 1]) /\ r[i] = NextLookup(f[i - 1]) /\ f[i] = Narrowed(f[i - 1], r[i], r[i] <= m)
  <2>1. CASE i = 1
    BY <1>1, <1>7, <1>9, <1>10, <2>1
  <2>2. CASE i # 1
    <3>1. PICK k \in 1 .. N : k = i - 1
      BY <2>2
    <3>2. r[i] = s[k] /\ f[i] = h[k] /\ f[i - 1] = h[k - 1]
      <4>1. i \in 2 .. N + 1 /\ i - 1 \in 1 .. N + 1 /\ i - 1 = k
        BY <2>2, <3>1
      <4> QED
        BY <1>7, <1>9, <4>1
    <3>3. ~Met(h[k - 1]) /\ s[k] = NextLookup(h[k - 1]) /\ h[k] = Narrowed(h[k - 1], s[k], s[k] <= m)
      BY <1>2, <1>3 DEF LadderBy
    <3> QED
      BY <3>2, <3>3
  <2> QED
    BY <2>1, <2>2
<1>13. f[N + 1] = h[N]
  BY <1>9
<1>14. LadderBy(r, b, m, f)
  BY <1>6, <1>9, <1>10, <1>11, <1>12, <1>13 DEF LadderBy
<1> QED
  BY <1>1, <1>5, <1>6, <1>14 DEF Ladder

-----------------------------------------------------------------------------
\* One step of the bisection from bounds b, with f for the rest.
Halving(b, f, m) ==
  IF b[2] - b[1] <= 1 THEN <<>>
  ELSE <<Middle(b[1], b[2])>> \o f[Narrowed(b, Middle(b[1], b[2]), Middle(b[1], b[2]) <= m)]

\* The middle of two numbers that are not next to each other lies between them.
LEMMA MiddleBetween ==
  ASSUME NEW x \in Nat, NEW y \in Nat, y - x > 1
  PROVE  Middle(x, y) \in Nat /\ x < Middle(x, y) /\ Middle(x, y) < y
  BY DEF Middle

\* The bisection ends, as the bounds come closer with every lookup.
LEMMA BisectDefined ==
  ASSUME NEW m \in Int
  PROVE  \E f : /\ \A b \in Nat \X Nat : f[b] = Halving(b, f, m)
                /\ \A x \in Nat, y \in Nat : Bisect(x, y, m) = f[<<x, y>>]
<1>1. PICK S : S = Nat \X Nat
  OBVIOUS
<1>2. PICK V : V = Seq(Nat)
  OBVIOUS
<1>3. PICK mu : mu = [b \in S |-> IF b[2] > b[1] THEN b[2] - b[1] ELSE 0]
  OBVIOUS
<1>4. mu \in [S -> Nat]
  BY <1>1, <1>3
<1> DEFINE F == [a \in [S -> V] \X S |-> Halving(a[2], a[1], m)]
<1>5. \A f \in [S -> V], b \in S : F[<<f, b>>] = Halving(b, f, m)
  OBVIOUS
<1>6. ASSUME NEW b \in S, ~(b[2] - b[1] <= 1)
      PROVE  /\ Middle(b[1], b[2]) \in Nat
             /\ Narrowed(b, Middle(b[1], b[2]), Middle(b[1], b[2]) <= m) \in S
             /\ mu[Narrowed(b, Middle(b[1], b[2]), Middle(b[1], b[2]) <= m)] < mu[b]
  <2>1. PICK x \in Nat, y \in Nat : b = <<x, y>> /\ y - x > 1
    BY <1>1, <1>6
  <2>2. PICK z \in Nat : z = Middle(x, y) /\ x < z /\ z < y
    BY <2>1, MiddleBetween
  <2>3. PICK c : c = Narrowed(b, z, z <= m)
    OBVIOUS
  <2>4. c = <<z, y>> \/ c = <<x, z>>
    BY <2>1, <2>3 DEF Narrowed
  <2>5. c \in S /\ mu[c] < mu[b]
    <3>1. b \in S /\ mu[b] = y - x
      BY <1>3, <2>1
    <3>2. CASE c = <<z, y>>
      <4>1. c \in S
        BY <1>1, <3>2
      <4>2. mu[c] = y - z
        BY <1>3, <2>2, <3>2, <4>1
      <4> QED
        BY <2>1, <2>2, <3>1, <4>1, <4>2
    <3>3. CASE c = <<x, z>>
      <4>1. c \in S
        BY <1>1, <3>3
      <4>2. mu[c] = z - x
        BY <1>3, <2>2, <3>3, <4>1
      <4> QED
        BY <2>1, <2>2, <3>1, <4>1, <4>2
    <3> QED
      BY <2>4, <3>2, <3>3
  <2> QED
    BY <2>1, <2>2, <2>3, <2>5
<1>7. F \in [[S -> V] \X S -> V]
  <2>1. ASSUME NEW a \in [S -> V] \X S PROVE Halving(a[2], a[1], m) \in V
    <3>1. PICK f \in [S -> V], b \in S : a = <<f, b>>
      OBVIOUS
    <3>2. CASE b[2] - b[1] <= 1
      BY <1>2, <3>1, <3>2 DEF Halving
    <3>3. CASE ~(b[2] - b[1] <= 1)
      <4>1. PICK z \in Nat, c \in S : z = Middle(b[1], b[2]) /\ c = Narrowed(b, z, z <= m)
        BY <1>6, <3>3
      <4>2. f[c] \in Seq(Nat) /\ <<z>> \in Seq(Nat)
        BY <1>2
      <4>3. <<z>> \o f[c] \in Seq(Nat)
        BY <4>2
      <4>4. Halving(b, f, m) = <<z>> \o f[c]
        BY <3>3, <4>1 DEF Halving
      <4> QED
        BY <1>2, <3>1, <4>3, <4>4
    <3> QED
      BY <3>2, <3>3
  <2> QED
    BY <2>1
<1>8. ASSUME NEW f \in [S -> V], NEW k \in [S -> V], NEW b \in S,
             \A c \in S : mu[c] < mu[b] => f[c] = k[c]
      PROVE  F[<<f, b>>] = F[<<k, b>>]
  <2> HIDE DEF F
  <2>1. CASE b[2] - b[1] <= 1
    <3>1. Halving(b, f, m) = <<>> /\ Halving(b, k, m) = <<>>
      BY <2>1 DEF Halving
    <3> QED
      BY <1>5, <3>1
  <2>2. CASE ~(b[2] - b[1] <= 1)
    <3>1. f[Narrowed(b, Middle(b[1], b[2]), Middle(b[1], b[2]) <= m)]
            = k[Narrowed(b, Middle(b[1], b[2]), Middle(b[1], b[2]) <= m)]
      BY <1>6, <1>8, <2>2
    <3> QED
      BY <1>5, <2>2, <3>1 DEF Halving
  <2> QED
    BY <2>1, <2>2
<1> HIDE DEF F
<1>9. Measured(F, S, V, mu)
  BY <1>4, <1>7, <1>8, Zenon DEF Measured
<1>10. <<>> \in V
  BY <1>2
<1>11. PICK k \in [S -> V] : Solves(k, F, S)
  BY <1>9, <1>10, MeasuredSolution
<1>12. k = [b \in S |-> Halving(b, k, m)]
  <2>1. \A b \in S : k[b] = Halving(b, k, m)
    BY <1>5, <1>11 DEF Solves
  <2> QED
    BY <2>1
<1> DEFINE d == CHOOSE f : f = [b \in S |-> Halving(b, f, m)]
<1>13. d = [b \in S |-> Halving(b, d, m)]
  BY <1>12
<1>14. ASSUME NEW x \in Nat, NEW y \in Nat PROVE Bisect(x, y, m) = d[<<x, y>>]
  BY <1>1 DEF Bisect, Halving
<1> HIDE DEF d
<1> QED
  BY <1>1, <1>13, <1>14

\* The second loop of the ladder, from an included and a missing version.
LEMMA BisectIsLadder ==
  ASSUME NEW m \in 0 .. MaxVersion, NEW x \in 0 .. MaxVersion, NEW y \in 0 .. MaxVersion,
         x <= m, m < y
  PROVE  Bisect(x, y, m) \in Seq(0 .. MaxVersion) /\ Ladder(Bisect(x, y, m), <<x, y>>, m)
<1>0. MaxVersion \in Nat /\ MaxVersion >= 1 /\ m \in Int
  BY WidthAssumption
<1>1. PICK f : /\ \A b \in Nat \X Nat : f[b] = Halving(b, f, m)
               /\ \A v \in Nat, w \in Nat : Bisect(v, w, m) = f[<<v, w>>]
  BY <1>0, BisectDefined
<1> DEFINE Right(d) == \A v \in 0 .. m, w \in m + 1 .. MaxVersion :
                         w - v = d => f[<<v, w>>] \in Seq(0 .. MaxVersion) /\ Ladder(f[<<v, w>>], <<v, w>>, m)
           Wrong == {d \in Nat : ~Right(d)}
<1>2. ASSUME Wrong # {} PROVE FALSE
  <2>1. PICK d \in Wrong : \A e \in Nat : e < d => e \notin Wrong
    <3>1. Wrong \in SUBSET Nat
      OBVIOUS
    <3> HIDE DEF Wrong
    <3> QED
      BY <1>2, <3>1, LeastElement
  <2>2. d \in Nat /\ ~Right(d) /\ \A e \in Nat : e < d => Right(e)
    BY <2>1
  <2>3. PICK v \in 0 .. m, w \in m + 1 .. MaxVersion :
          w - v = d /\ ~(f[<<v, w>>] \in Seq(0 .. MaxVersion) /\ Ladder(f[<<v, w>>], <<v, w>>, m))
    BY <2>2
  <2>4. PICK b : b = <<v, w>>
    OBVIOUS
  <2>5. b \in AllBounds /\ b \in Nat \X Nat /\ Between(b) /\ w # Unbounded
    <3>1. v \in Absent .. MaxVersion /\ w \in 0 .. Unbounded /\ v < w /\ v \in Nat /\ w \in Nat /\ w # Unbounded
      BY <1>0 DEF Absent, Unbounded
    <3> QED
      BY <2>4, <3>1 DEF AllBounds, Between
  <2>6. f[b] = Halving(b, f, m)
    BY <1>1, <2>5
  <2>7. CASE w - v <= 1
    <3>1. f[b] = <<>> /\ Met(b)
      BY <2>4, <2>6, <2>7 DEF Halving, Met
    <3>2. Ladder(<<>>, b, m)
      BY <2>5, <3>1, LadderMet
    <3> QED
      BY <2>3, <2>4, <3>1, <3>2
  <2>8. CASE ~(w - v <= 1)
    <3>1. ~Met(b)
      BY <2>4, <2>8 DEF Met
    <3>2. NextLookup(b) = Middle(v, w)
      BY <2>4, <2>5 DEF NextLookup
    <3>3. PICK z \in 0 .. MaxVersion : z = Middle(v, w) /\ v < z /\ z < w
      BY <2>4, <2>5, <3>1, <3>2, LookupBetween
    <3>4. PICK c : c = Narrowed(b, z, z <= m)
      OBVIOUS
    <3>5. f[b] = <<z>> \o f[c]
      BY <2>4, <2>6, <2>8, <3>3, <3>4 DEF Halving
    <3>6. Ladder(f[c], c, m)
      <4>1. CASE z <= m
        <5>1. c = <<z, w>> /\ z \in 0 .. m /\ w - z \in Nat /\ w - z < d
          BY <2>3, <2>4, <3>3, <3>4, <4>1 DEF Narrowed
        <5>2. Right(w - z)
          BY <2>2, <5>1
        <5> QED
          BY <5>1, <5>2
      <4>2. CASE ~(z <= m)
        <5>1. c = <<v, z>> /\ z \in m + 1 .. MaxVersion /\ z - v \in Nat /\ z - v < d
          BY <2>3, <2>4, <3>3, <3>4, <4>2 DEF Narrowed
        <5>2. Right(z - v)
          BY <2>2, <5>1
        <5> QED
          BY <5>1, <5>2
      <4> QED
        BY <4>1, <4>2
    <3>7. Ladder(f[c], Narrowed(b, NextLookup(b), NextLookup(b) <= m), m)
      BY <3>2, <3>3, <3>4, <3>6
    <3>8. /\ <<NextLookup(b)>> \o f[c] \in Seq(0 .. MaxVersion)
          /\ Ladder(<<NextLookup(b)>> \o f[c], b, m)
      BY <1>0, <2>5, <3>1, <3>7, LadderCons
    <3> QED
      BY <2>3, <2>4, <3>2, <3>3, <3>5, <3>8
  <2> QED
    BY <2>7, <2>8
<1>3. PICK d \in Nat : d = y - x /\ x \in 0 .. m /\ y \in m + 1 .. MaxVersion /\ x \in Nat /\ y \in Nat
  BY <1>0
<1>4. Right(d)
  BY <1>2
<1> QED
  BY <1>1, <1>3, <1>4

\* One step of the doubling, with f for the rest.
Rung(v, f, m) == IF v > m \/ v = MaxVersion THEN <<v>> ELSE <<v>> \o f[Double(v)]

\* The doubling ends: each power is greater than the one before.
LEMMA DoublingDefined ==
  ASSUME NEW m \in Int
  PROVE  \E f : /\ f \in [0 .. MaxVersion -> Seq(0 .. MaxVersion)]
                /\ \A v \in 0 .. MaxVersion : f[v] = Rung(v, f, m)
                /\ Doubling(m) = f[0]
<1>1. PICK V : V = Seq(0 .. MaxVersion)
  OBVIOUS
<1>2. PICK N \in Nat : N = MaxVersion + 1 /\ 0 .. N - 1 = 0 .. MaxVersion
  BY WidthAssumption
<1>3. \A v \in 0 .. N - 1 : v # MaxVersion => Double(v) \in v + 1 .. N - 1
  BY <1>2, WidthAssumption DEF Double
<1> DEFINE F == [a \in [0 .. N - 1 -> V] \X (0 .. N - 1) |-> Rung(a[2], a[1], m)]
<1>4. \A f \in [0 .. N - 1 -> V], v \in 0 .. N - 1 : F[<<f, v>>] = Rung(v, f, m)
  OBVIOUS
<1>5. ASSUME NEW f \in [0 .. N - 1 -> V], NEW v \in 0 .. N - 1 PROVE Rung(v, f, m) \in V
  <2>0. v \in 0 .. MaxVersion
    BY <1>2
  <2>1. <<v>> \in Seq(0 .. MaxVersion)
    BY <2>0
  <2>2. CASE v > m \/ v = MaxVersion
    BY <1>1, <2>1, <2>2 DEF Rung
  <2>3. CASE ~(v > m \/ v = MaxVersion)
    <3>1. PICK w \in 0 .. N - 1 : w = Double(v)
      BY <1>3, <2>3
    <3>2. f[w] \in Seq(0 .. MaxVersion)
      BY <1>1
    <3>3. <<v>> \o f[w] \in Seq(0 .. MaxVersion)
      BY <2>1, <3>2, ConcatProperties
    <3>4. Rung(v, f, m) = <<v>> \o f[w]
      BY <2>3, <3>1 DEF Rung
    <3> QED
      BY <1>1, <3>3, <3>4
  <2> QED
    BY <2>2, <2>3
<1>6. F \in [[0 .. N - 1 -> V] \X (0 .. N - 1) -> V]
  <2>1. \A a \in [0 .. N - 1 -> V] \X (0 .. N - 1) : Rung(a[2], a[1], m) \in V
    BY <1>5
  <2> QED
    BY <2>1
<1> HIDE DEF F
<1>7. ASSUME NEW f \in [0 .. N - 1 -> V], NEW k \in [0 .. N - 1 -> V], NEW v \in 0 .. N - 1,
             \A w \in v + 1 .. N - 1 : f[w] = k[w]
      PROVE  F[<<f, v>>] = F[<<k, v>>]
  <2>1. CASE v > m \/ v = MaxVersion
    BY <1>4, <2>1 DEF Rung
  <2>2. CASE ~(v > m \/ v = MaxVersion)
    <3>1. f[Double(v)] = k[Double(v)]
      BY <1>3, <1>7, <2>2
    <3> QED
      BY <1>4, <2>2, <3>1 DEF Rung
  <2> QED
    BY <2>1, <2>2
<1>8. RecursiveFromRight(F, V, N)
  BY <1>6, <1>7, Zenon DEF RecursiveFromRight
<1>9. <<>> \in V
  BY <1>1
<1>10. PICK k \in [0 .. N - 1 -> V] : \A v \in 0 .. N - 1 : k[v] = F[<<k, v>>]
  BY <1>8, <1>9, RecursionFromRight
<1>11. \A v \in 0 .. N - 1 : k[v] = Rung(v, k, m)
  BY <1>4, <1>10
<1>12. k = [v \in 0 .. MaxVersion |-> Rung(v, k, m)]
  BY <1>2, <1>11
<1> DEFINE d == CHOOSE f : f = [v \in 0 .. MaxVersion |-> Rung(v, f, m)]
<1>13. d = [v \in 0 .. MaxVersion |-> Rung(v, d, m)]
  BY <1>12
<1>14. Doubling(m) = d[0]
  BY DEF Doubling, Rung
<1> HIDE DEF d
<1>15. \A v \in 0 .. N - 1 : d[v] = Rung(v, d, m)
  BY <1>2, <1>13
<1>16. d \in [0 .. MaxVersion -> V]
  <2> DEFINE Wrong == {i \in Nat : i < N /\ d[N - 1 - i] \notin V}
  <2>1. ASSUME Wrong # {} PROVE FALSE
    <3>1. PICK i \in Wrong : \A j \in Nat : j < i => j \notin Wrong
      <4>1. Wrong \in SUBSET Nat
        OBVIOUS
      <4> HIDE DEF Wrong
      <4> QED
        BY <2>1, <4>1, LeastElement
    <3>2. PICK v \in 0 .. N - 1 : v = N - 1 - i /\ d[v] \notin V /\ i < N /\ i \in Nat
      OBVIOUS
    <3>3. d[v] = Rung(v, d, m)
      BY <1>15
    <3>a. v \in 0 .. MaxVersion
      BY <1>2
    <3>4. <<v>> \in Seq(0 .. MaxVersion)
      BY <3>a
    <3>5. CASE v > m \/ v = MaxVersion
      BY <1>1, <3>2, <3>3, <3>4, <3>5 DEF Rung
    <3>6. CASE ~(v > m \/ v = MaxVersion)
      <4>1. PICK w \in v + 1 .. N - 1 : w = Double(v)
        BY <1>3, <3>6
      <4>2. PICK j \in Nat : j = N - 1 - w /\ j < i /\ j < N /\ N - 1 - j = w
        BY <3>2
      <4>3. d[w] \in Seq(0 .. MaxVersion)
        BY <1>1, <3>1, <4>2
      <4>4. <<v>> \o d[w] \in Seq(0 .. MaxVersion)
        BY <3>4, <4>3, ConcatProperties
      <4>5. d[v] = <<v>> \o d[w]
        BY <3>3, <3>6, <4>1 DEF Rung
      <4> QED
        BY <1>1, <3>2, <4>4, <4>5
    <3> QED
      BY <3>5, <3>6
  <2>2. ASSUME NEW v \in 0 .. MaxVersion PROVE d[v] \in V
    <3>1. v \in 0 .. N - 1
      BY <1>2
    <3>2. PICK i \in Nat : i = N - 1 - v /\ i < N /\ N - 1 - i = v
      BY <3>1
    <3> QED
      BY <2>1, <3>2
  <2>3. d = [v \in 0 .. MaxVersion |-> d[v]]
    BY <1>13
  <2> HIDE DEF Wrong
  <2> QED
    BY <2>2, <2>3
<1> QED
  BY <1>1, <1>2, <1>14, <1>15, <1>16
\* The bisection looks up versions.
Bisects(m) ==
  \A x \in 0 .. MaxVersion, y \in 0 .. MaxVersion :
    x <= m /\ m < y => Bisect(x, y, m) \in Seq(0 .. MaxVersion)

\* The ladder from rung v on, after the included version low, when r are the rungs.
Completed(r, low, m) ==
  IF Last(r) > m THEN r \o Bisect(IF Len(r) >= 2 THEN r[Len(r) - 1] ELSE low, Last(r), m) ELSE r

\* All rungs but the last are below m.
RungsBelow(r, m) == Len(r) >= 2 => r[Len(r) - 1] <= m

\* The rungs r may follow the rung v.
Precedes(v, r, m) == \A low : Completed(<<v>> \o r, low, m) = <<v>> \o Completed(r, v, m)

\* A first rung before the others.
LEMMA CompletedCons ==
  ASSUME NEW r \in Seq(0 .. MaxVersion), NEW v \in 0 .. MaxVersion, NEW m \in 0 .. MaxVersion,
         r # <<>>, v <= m, Bisects(m), RungsBelow(r, m)
  PROVE  Precedes(v, r, m)
<1> SUFFICES ASSUME NEW low PROVE Completed(<<v>> \o r, low, m) = <<v>> \o Completed(r, v, m)
  BY DEF Precedes
<1>0. Len(r) >= 2 => r[Len(r) - 1] <= m
  BY DEF RungsBelow
<1>1. PICK N \in Nat : N = Len(r) /\ N >= 1
  <2>1. Len(r) \in Nat /\ Len(r) # 0
    BY EmptySeq
  <2> QED
    BY <2>1
<1>2. PICK q : q = <<v>> \o r
  OBVIOUS
<1>3. q \in Seq(0 .. MaxVersion) /\ Len(q) = N + 1 /\ q[1] = v /\ \A i \in 1 .. N : q[i + 1] = r[i]
  BY <1>1, <1>2
<1>4. Last(q) = r[N] /\ Last(r) = r[N]
  BY <1>1, <1>3 DEF Last
<1>5. q[Len(q) - 1] = IF N >= 2 THEN r[N - 1] ELSE v
  <2>1. CASE N = 1
    BY <1>3, <2>1
  <2>2. CASE N # 1
    <3>1. PICK k \in 1 .. N : k = N - 1
      BY <1>1, <2>2
    <3>2. q[k + 1] = r[k] /\ k + 1 = Len(q) - 1
      BY <1>3, <3>1
    <3> QED
      BY <1>1, <2>2, <3>1, <3>2
  <2> QED
    BY <2>1, <2>2
<1>6. CASE ~(r[N] > m)
  BY <1>2, <1>4, <1>6 DEF Completed
<1>7. CASE r[N] > m
  <2>1. PICK x : x = IF N >= 2 THEN r[N - 1] ELSE v
    OBVIOUS
  <2>2. x \in 0 .. MaxVersion /\ x <= m /\ r[N] \in 0 .. MaxVersion
    <3>1. N \in 1 .. N /\ (N >= 2 => N - 1 \in 1 .. N)
      BY <1>1
    <3>2. \A k \in 1 .. N : r[k] \in 0 .. MaxVersion
      BY <1>1, ElementOfSeq
    <3> QED
      BY <1>0, <1>1, <2>1, <3>1, <3>2
  <2>3. PICK s \in Seq(0 .. MaxVersion) : s = Bisect(x, r[N], m)
    <3>1. r[N] \in Int /\ m \in Int /\ m < r[N]
      BY <1>7, <2>2, WidthAssumption
    <3> QED
      BY <2>2, <3>1 DEF Bisects
  <2>4. Completed(q, low, m) = q \o s
    <3>1. (IF Len(q) >= 2 THEN q[Len(q) - 1] ELSE low) = x
      BY <1>1, <1>3, <1>5, <2>1
    <3> QED
      BY <1>4, <1>7, <2>3, <3>1 DEF Completed
  <2>5. Completed(r, v, m) = r \o s
    <3>1. (IF Len(r) >= 2 THEN r[Len(r) - 1] ELSE v) = x
      BY <1>1, <2>1
    <3> QED
      BY <1>4, <1>7, <2>3, <3>1 DEF Completed
  <2>6. (<<v>> \o r) \o s = <<v>> \o (r \o s)
    <3>0. <<v>> \in Seq(0 .. MaxVersion)
      OBVIOUS
    <3>1. PICK p \in Seq(0 .. MaxVersion) : p = <<v>>
      BY <3>0
    <3>2. (p \o r) \o s = p \o (r \o s)
      BY <2>3, <3>1, ConcatAssociative
    <3> QED
      BY <3>1, <3>2
  <2> QED
    BY <1>2, <2>4, <2>5, <2>6
<1> QED
  BY <1>2, <1>6, <1>7

\* base_binary_ladder narrows the bounds from nothing known to the greatest version.
LEMMA BaseIsLadder ==
  ASSUME NEW m \in 0 .. MaxVersion
  PROVE  /\ base_binary_ladder(m) \in Seq(0 .. MaxVersion)
         /\ Ladder(base_binary_ladder(m), <<Absent, Unbounded>>, m)
<1>0. MaxVersion \in Nat /\ MaxVersion >= 1 /\ m \in Int
  BY WidthAssumption
<1>1. PICK f \in [0 .. MaxVersion -> Seq(0 .. MaxVersion)] :
        /\ \A v \in 0 .. MaxVersion : f[v] = Rung(v, f, m)
        /\ Doubling(m) = f[0]
  BY <1>0, DoublingDefined
<1>2. \A v \in 0 .. MaxVersion : v # MaxVersion => Double(v) \in v + 1 .. MaxVersion
  BY <1>0 DEF Double
<1>b. \A x \in 0 .. MaxVersion, y \in 0 .. MaxVersion :
        x <= m /\ m < y => Bisect(x, y, m) \in Seq(0 .. MaxVersion) /\ Ladder(Bisect(x, y, m), <<x, y>>, m)
  BY BisectIsLadder
<1>3. \A v \in 0 .. MaxVersion : f[v] # <<>>
  <2> TAKE v \in 0 .. MaxVersion
  <2>1. f[v] = <<v>> \/ (v # MaxVersion /\ f[v] = <<v>> \o f[Double(v)])
    BY <1>1 DEF Rung
  <2>2. CASE f[v] = <<v>>
    BY <2>2
  <2>3. CASE v # MaxVersion /\ f[v] = <<v>> \o f[Double(v)]
    <3>1. PICK r \in Seq(0 .. MaxVersion) : r = f[Double(v)]
      BY <1>2, <2>3
    <3>2. Len(<<v>> \o r) = 1 + Len(r) /\ Len(r) \in Nat
      OBVIOUS
    <3>3. <<v>> \o r # <<>>
      BY <3>2
    <3> QED
      BY <2>3, <3>1, <3>3
  <2> QED
    BY <2>1, <2>2, <2>3
<1> DEFINE Right(v) ==
      /\ Len(f[v]) >= 2 => f[v][Len(f[v]) - 1] <= m
      /\ \A low \in Absent .. m :
           low < v /\ NextLookup(<<low, Unbounded>>) = v
           => Ladder(Completed(f[v], low, m), <<low, Unbounded>>, m)
    Wrong == {i \in Nat : i <= MaxVersion /\ ~Right(MaxVersion - i)}
<1>4. ASSUME NEW v \in 0 .. MaxVersion,
             v <= m /\ v # MaxVersion => Right(Double(v))
      PROVE  Right(v)
  <2>1. f[v] = Rung(v, f, m)
    BY <1>1
  <2>2. ASSUME NEW low \in Absent .. m, low < v, NEW b, b = <<low, Unbounded>>, NextLookup(b) = v
        PROVE  Between(b) /\ ~Met(b)
    <3>1. low \in Absent .. MaxVersion /\ Unbounded \in 0 .. Unbounded /\ low < Unbounded /\ Unbounded - low > 1
      BY <1>0, <2>2 DEF Absent, Unbounded
    <3> QED
      BY <2>2, <3>1 DEF Between, AllBounds, Met
  <2>3. CASE v > m
    <3>1. f[v] = <<v>>
      BY <2>1, <2>3 DEF Rung
    <3>2. Len(<<v>>) = 1 /\ Last(<<v>>) = v
      BY DEF Last
    <3>3. ASSUME NEW low \in Absent .. m, low < v, NextLookup(<<low, Unbounded>>) = v
          PROVE  Ladder(Completed(f[v], low, m), <<low, Unbounded>>, m)
      <4>1. PICK b : b = <<low, Unbounded>>
        OBVIOUS
      <4>2. low # Absent
        <5>1. ASSUME low = Absent PROVE v = 0
          BY <3>3, <5>1 DEF NextLookup
        <5>2. v # 0
          BY <1>0, <2>3
        <5> QED
          BY <5>1, <5>2
      <4>3. low \in 0 .. MaxVersion /\ low <= m /\ m < v
        BY <1>0, <2>3, <4>2 DEF Absent
      <4>4. Narrowed(b, v, v <= m) = <<low, v>>
        BY <1>0, <2>3, <4>1 DEF Narrowed
      <4>5. Ladder(Bisect(low, v, m), <<low, v>>, m)
        BY <1>b, <4>3
      <4>6. Ladder(<<v>> \o Bisect(low, v, m), b, m)
        BY <1>0, <2>2, <3>3, <4>1, <4>4, <4>5, LadderCons
      <4>7. Completed(f[v], low, m) = <<v>> \o Bisect(low, v, m)
        BY <2>3, <3>1, <3>2 DEF Completed
      <4> QED
        BY <4>1, <4>6, <4>7
    <3> QED
      BY <3>1, <3>2, <3>3
  <2>4. CASE ~(v > m) /\ v = MaxVersion
    <3>1. f[v] = <<v>>
      BY <2>1, <2>4 DEF Rung
    <3>2. Len(<<v>>) = 1 /\ Last(<<v>>) = v
      BY DEF Last
    <3>3. ASSUME NEW low \in Absent .. m, low < v, NextLookup(<<low, Unbounded>>) = v
          PROVE  Ladder(Completed(f[v], low, m), <<low, Unbounded>>, m)
      <4>1. PICK b : b = <<low, Unbounded>>
        OBVIOUS
      <4>2. PICK c : c = Narrowed(b, v, v <= m)
        OBVIOUS
      <4>3. c = <<v, Unbounded>>
        BY <1>0, <2>4, <4>1, <4>2 DEF Narrowed
      <4>4. c \in AllBounds /\ Met(c)
        BY <1>0, <2>4, <4>3 DEF AllBounds, Met, Absent, Unbounded
      <4>5. Ladder(<<>>, c, m)
        BY <4>4, LadderMet
      <4>6. Ladder(<<v>> \o <<>>, b, m)
        BY <1>0, <2>2, <3>3, <4>1, <4>2, <4>5, LadderCons
      <4>7. <<v>> \o <<>> = <<v>>
        <5>1. <<v>> \in Seq(0 .. MaxVersion)
          OBVIOUS
        <5> QED
          BY <5>1, ConcatEmptySeq
      <4>8. Completed(f[v], low, m) = <<v>>
        BY <2>4, <3>1, <3>2 DEF Completed
      <4> QED
        BY <4>1, <4>6, <4>7, <4>8
    <3> QED
      BY <3>1, <3>2, <3>3
  <2>5. CASE v <= m /\ v # MaxVersion
    <3>1. PICK w \in v + 1 .. MaxVersion : w = Double(v) /\ w \in 0 .. MaxVersion
      BY <1>0, <1>2, <2>5
    <3>2. PICK r \in Seq(0 .. MaxVersion) : r = f[w] /\ r # <<>>
      BY <1>3, <3>1
    <3>3. f[v] = <<v>> \o r
      <4>1. ~(v > m \/ v = MaxVersion)
        BY <1>0, <2>5
      <4> QED
        BY <2>1, <3>1, <3>2, <4>1 DEF Rung
    <3>4. Len(r) >= 2 => r[Len(r) - 1] <= m
      BY <1>4, <2>5, <3>1, <3>2
    <3>5. Ladder(Completed(r, v, m), <<v, Unbounded>>, m)
      <4>1. NextLookup(<<v, Unbounded>>) = w /\ v \in Absent .. m /\ v < w
        BY <1>0, <2>5, <3>1 DEF NextLookup, Absent
      <4> QED
        BY <1>4, <2>5, <3>1, <3>2, <4>1
    <3>6. Len(f[v]) >= 2 => f[v][Len(f[v]) - 1] <= m
      <4>1. PICK N \in Nat : N = Len(r) /\ N >= 1
        <5>1. Len(r) \in Nat /\ Len(r) # 0
          BY <3>2, EmptySeq
        <5> QED
          BY <5>1
      <4>2. Len(f[v]) = N + 1 /\ f[v][1] = v /\ \A i \in 1 .. N : f[v][i + 1] = r[i]
        BY <3>3, <4>1
      <4>3. CASE N = 1
        BY <2>5, <4>2, <4>3
      <4>4. CASE N # 1
        <5>0. N >= 2 /\ N - 1 \in 1 .. N
          BY <4>1, <4>4
        <5>1. PICK k \in 1 .. N : k = N - 1 /\ N >= 2
          BY <5>0
        <5>2. f[v][k + 1] = r[k]
          BY <4>2
        <5>3. k + 1 = Len(f[v]) - 1 /\ k = Len(r) - 1
          BY <4>1, <4>2, <5>1
        <5> QED
          BY <3>4, <4>1, <5>1, <5>2, <5>3
      <4> QED
        BY <4>3, <4>4
    <3>7. ASSUME NEW low \in Absent .. m, low < v, NextLookup(<<low, Unbounded>>) = v
          PROVE  Ladder(Completed(f[v], low, m), <<low, Unbounded>>, m)
      <4>1. PICK b : b = <<low, Unbounded>>
        OBVIOUS
      <4>2. Narrowed(b, v, v <= m) = <<v, Unbounded>>
        BY <2>5, <4>1 DEF Narrowed
      <4>3. Completed(<<v>> \o r, low, m) = <<v>> \o Completed(r, v, m)
        <5>1. Bisects(m)
          BY <1>b DEF Bisects
        <5>2. r \in Seq(0 .. MaxVersion) /\ r # <<>> /\ v <= m
          BY <2>5, <3>2
        <5>3. RungsBelow(r, m)
          BY <3>4 DEF RungsBelow
        <5>4. Precedes(v, r, m)
          BY <5>1, <5>2, <5>3, CompletedCons
        <5> QED
          BY <5>4 DEF Precedes
      <4>4. Ladder(<<v>> \o Completed(r, v, m), b, m)
        BY <1>0, <2>2, <3>5, <3>7, <4>1, <4>2, LadderCons
      <4> QED
        BY <3>3, <4>1, <4>3, <4>4
    <3> QED
      BY <3>6, <3>7
  <2> QED
    BY <1>0, <2>3, <2>4, <2>5
<1> HIDE DEF Right
<1>5. ASSUME Wrong # {} PROVE FALSE
  <2>1. PICK i \in Wrong : \A j \in Nat : j < i => j \notin Wrong
    <3>1. Wrong \in SUBSET Nat
      OBVIOUS
    <3> HIDE DEF Wrong
    <3> QED
      BY <1>5, <3>1, LeastElement
  <2>2. PICK v \in 0 .. MaxVersion : v = MaxVersion - i /\ ~Right(v) /\ i \in Nat
    BY <1>0
  <2>3. ASSUME v <= m, v # MaxVersion PROVE Right(Double(v))
    <3>1. PICK w \in v + 1 .. MaxVersion : w = Double(v)
      BY <1>2, <2>3
    <3>2. PICK j \in Nat : j = MaxVersion - w /\ j < i /\ j <= MaxVersion /\ MaxVersion - j = w
      BY <1>0, <2>2
    <3> QED
      BY <2>1, <3>1, <3>2
  <2> QED
    BY <1>4, <2>2, <2>3
<1>6. Right(0)
  <2>1. MaxVersion \in Nat /\ MaxVersion <= MaxVersion /\ MaxVersion - MaxVersion = 0
    BY <1>0
  <2> QED
    BY <1>5, <2>1
<1>7. Ladder(Completed(f[0], Absent, m), <<Absent, Unbounded>>, m)
  <2>1. NextLookup(<<Absent, Unbounded>>) = 0 /\ Absent \in Absent .. m /\ Absent < 0
    BY <1>0 DEF NextLookup, Absent
  <2> QED
    BY <1>6, <2>1 DEF Right
<1>8. base_binary_ladder(m) = Completed(f[0], Absent, m)
  <2>1. 0 \in 0 .. MaxVersion /\ 0 # MaxVersion /\ ~(0 > m)
    BY <1>0
  <2>2. f[0] = <<0>> \o f[Double(0)]
    BY <1>1, <2>1 DEF Rung
  <2>a. PICK w \in 0 .. MaxVersion : w = Double(0)
    BY <1>0, <1>2, <2>1
  <2>3. PICK r \in Seq(0 .. MaxVersion) : r = f[Double(0)] /\ r # <<>>
    BY <1>3, <2>a
  <2>4. Len(r) \in Nat /\ Len(r) # 0 /\ Len(<<0>> \o r) = 1 + Len(r)
    BY <2>3, EmptySeq
  <2>5. Len(f[0]) >= 2
    BY <2>2, <2>3, <2>4
  <2> QED
    BY <1>1, <2>5 DEF base_binary_ladder, Completed
<1>9. PICK s : s = base_binary_ladder(m) /\ Ladder(s, <<Absent, Unbounded>>, m)
  BY <1>7, <1>8
<1>10. s \in Seq(0 .. MaxVersion)
  BY <1>9 DEF Ladder, LadderBy
<1> QED
  BY <1>9, <1>10

-----------------------------------------------------------------------------
Unknown == <<Absent, Unbounded>>

\* After k lookups: the bounds enclose m, come from lookups, and no lookup lies between them.
Encloses(s, h, m, k) ==
  /\ Between(h[k]) /\ h[k][1] <= m /\ m < h[k][2]
  /\ h[k][1] = Absent \/ \E i \in 1 .. k : s[i] = h[k][1]
  /\ h[k][2] = Unbounded \/ \E i \in 1 .. k : s[i] = h[k][2]
  /\ \A i \in 1 .. k : s[i] <= h[k][1] \/ h[k][2] <= s[i]

\* One more lookup.
LEMMA EnclosesNext ==
  ASSUME NEW m \in 0 .. MaxVersion, NEW s, NEW h, LadderBy(s, Unknown, m, h),
         NEW k \in 1 .. Len(s), Encloses(s, h, m, k - 1)
  PROVE  /\ Encloses(s, h, m, k)
         /\ h[k - 1][1] < s[k] /\ s[k] < h[k - 1][2]
<1>0. MaxVersion \in Nat /\ s \in Seq(0 .. MaxVersion) /\ Len(s) \in Nat
  BY WidthAssumption DEF LadderBy
<1>1. PICK b : b = h[k - 1] /\ Between(b)
  BY DEF Encloses
<1>2. PICK v : v = s[k]
  OBVIOUS
<1>3. ~Met(b) /\ v = NextLookup(b) /\ h[k] = Narrowed(b, v, v <= m)
  BY <1>1, <1>2 DEF LadderBy
<1>4. v \in 0 .. MaxVersion /\ b[1] < v /\ v < b[2]
  BY <1>1, <1>3, LookupBetween
<1>5. (v <= m) \in BOOLEAN
  OBVIOUS
<1>6. Between(h[k])
  BY <1>1, <1>3, <1>4, <1>5, NarrowedBetween
<1>7. PICK x \in Absent .. MaxVersion, y \in 0 .. Unbounded : b = <<x, y>>
  BY <1>1 DEF Between, AllBounds
<1>8. x \in Int /\ y \in Int /\ v \in Int /\ m \in Int /\ x < v /\ v < y /\ x <= m /\ m < y
  BY <1>0, <1>1, <1>4, <1>7 DEF Absent, Unbounded, Encloses
<1>9. PICK j \in Nat : j = k - 1 /\ 1 .. k = (1 .. j) \cup {k}
  BY <1>0
<1>10. ASSUME NEW i \in 1 .. j PROVE s[i] \in Int /\ (s[i] <= x \/ y <= s[i])
  <2>1. i \in 1 .. Len(s)
    BY <1>0, <1>9
  <2>2. s[i] \in 0 .. MaxVersion
    BY <1>0, <2>1, ElementOfSeq
  <2> QED
    BY <1>0, <1>1, <1>7, <1>9, <2>2 DEF Encloses
<1>11. /\ x = Absent \/ \E i \in 1 .. j : s[i] = x
       /\ y = Unbounded \/ \E i \in 1 .. j : s[i] = y
  BY <1>1, <1>7, <1>9 DEF Encloses
<1>12. CASE v <= m
  <2>1. h[k] = <<v, y>>
    BY <1>3, <1>7, <1>12 DEF Narrowed
  <2>2. h[k][1] = v /\ h[k][2] = y
    BY <2>1
  <2>3. \A i \in 1 .. k : s[i] <= v \/ y <= s[i]
    BY <1>2, <1>8, <1>9, <1>10
  <2>4. \E i \in 1 .. k : s[i] = v
    BY <1>2
  <2>5. y = Unbounded \/ \E i \in 1 .. k : s[i] = y
    BY <1>9, <1>11
  <2>6. Encloses(s, h, m, k)
    BY <1>6, <1>8, <1>12, <2>2, <2>3, <2>4, <2>5 DEF Encloses
  <2> QED
    BY <1>1, <1>2, <1>4, <2>6
<1>13. CASE ~(v <= m)
  <2>1. h[k] = <<x, v>>
    BY <1>3, <1>7, <1>13 DEF Narrowed
  <2>2. h[k][1] = x /\ h[k][2] = v
    BY <2>1
  <2>3. \A i \in 1 .. k : s[i] <= x \/ v <= s[i]
    BY <1>2, <1>8, <1>9, <1>10
  <2>4. \E i \in 1 .. k : s[i] = v
    BY <1>2
  <2>5. x = Absent \/ \E i \in 1 .. k : s[i] = x
    BY <1>9, <1>11
  <2>6. Encloses(s, h, m, k)
    BY <1>6, <1>8, <1>13, <2>2, <2>3, <2>4, <2>5 DEF Encloses
  <2> QED
    BY <1>1, <1>2, <1>4, <2>6
<1> QED
  BY <1>12, <1>13

\* So after every lookup.
LEMMA AlwaysEncloses ==
  ASSUME NEW m \in 0 .. MaxVersion, NEW s, NEW h, LadderBy(s, Unknown, m, h)
  PROVE  \A k \in 0 .. Len(s) : Encloses(s, h, m, k)
<1>0. MaxVersion \in Nat /\ MaxVersion >= 1 /\ Len(s) \in Nat
  BY WidthAssumption DEF LadderBy
<1> DEFINE Wrong == {k \in Nat : k <= Len(s) /\ ~Encloses(s, h, m, k)}
<1>1. Encloses(s, h, m, 0)
  <2>1. h[0] = <<Absent, Unbounded>>
    BY DEF LadderBy, Unknown
  <2>2. Absent \in Absent .. MaxVersion /\ Unbounded \in 0 .. Unbounded /\ Absent < Unbounded
        /\ Absent <= m /\ m < Unbounded
    BY <1>0 DEF Absent, Unbounded
  <2>3. 1 .. 0 = {}
    OBVIOUS
  <2> QED
    BY <2>1, <2>2, <2>3 DEF Encloses, Between, AllBounds
<1>2. ASSUME Wrong # {} PROVE FALSE
  <2>1. PICK k \in Wrong : \A i \in Nat : i < k => i \notin Wrong
    <3>1. Wrong \in SUBSET Nat
      OBVIOUS
    <3> HIDE DEF Wrong
    <3> QED
      BY <1>2, <3>1, LeastElement
  <2>2. k \in Nat /\ k <= Len(s) /\ ~Encloses(s, h, m, k) /\ k # 0
    BY <1>1, <2>1
  <2>3. k \in 1 .. Len(s) /\ k - 1 \in Nat /\ k - 1 < k /\ k - 1 <= Len(s)
    BY <1>0, <2>2
  <2>4. Encloses(s, h, m, k - 1)
    BY <2>1, <2>3
  <2> QED
    BY <2>2, <2>3, <2>4, EnclosesNext
<1> QED
  BY <1>0, <1>2

\* What a complete ladder has looked up.
LEMMA LadderHolds ==
  ASSUME NEW m \in 0 .. MaxVersion, NEW s, NEW h, LadderBy(s, Unknown, m, h)
  PROVE  /\ Len(s) \in Nat /\ Len(s) >= 1
         /\ \A i \in 1 .. Len(s) : s[i] \in 0 .. MaxVersion
         /\ \E i \in 1 .. Len(s) : s[i] = m
         /\ m < MaxVersion => \E i \in 1 .. Len(s) : s[i] = m + 1
         /\ \A i, k \in 1 .. Len(s) : s[i] = s[k] => i = k
<1>0. MaxVersion \in Nat /\ MaxVersion >= 1 /\ s \in Seq(0 .. MaxVersion) /\ Len(s) \in Nat
  BY WidthAssumption DEF LadderBy
<1>1. \A k \in 0 .. Len(s) : Encloses(s, h, m, k)
  BY AlwaysEncloses
<1>2. PICK L \in Nat : L = Len(s) /\ Met(h[L]) /\ Encloses(s, h, m, L)
  BY <1>0, <1>1 DEF LadderBy
<1>3. PICK x \in Absent .. MaxVersion, y \in 0 .. Unbounded : h[L] = <<x, y>>
  BY <1>2 DEF Encloses, Between, AllBounds
<1>4. x = m /\ y = m + 1
  <2>1. x \in Int /\ y \in Int /\ m \in Int /\ x <= m /\ m < y /\ y - x <= 1
    BY <1>0, <1>2, <1>3 DEF Encloses, Met, Absent, Unbounded
  <2> QED
    BY <2>1
<1>5. \E i \in 1 .. L : s[i] = m
  BY <1>0, <1>2, <1>3, <1>4 DEF Encloses, Absent
<1>6. m < MaxVersion => \E i \in 1 .. L : s[i] = m + 1
  BY <1>0, <1>2, <1>3, <1>4 DEF Encloses, Unbounded
<1>7. \A i \in 1 .. Len(s) : s[i] \in 0 .. MaxVersion
  BY <1>0, ElementOfSeq
<1>8. ASSUME NEW i \in 1 .. L, NEW k \in 1 .. L, i < k PROVE s[i] # s[k]
  <2>1. k - 1 \in 0 .. Len(s) /\ i \in 1 .. k - 1 /\ k \in 1 .. Len(s)
    BY <1>2, <1>8
  <2>2. Encloses(s, h, m, k - 1)
    BY <1>1, <2>1
  <2>3. h[k - 1][1] < s[k] /\ s[k] < h[k - 1][2]
    BY <2>1, <2>2, EnclosesNext
  <2>4. s[i] <= h[k - 1][1] \/ h[k - 1][2] <= s[i]
    BY <2>1, <2>2 DEF Encloses
  <2>5. PICK v \in Absent .. MaxVersion, w \in 0 .. Unbounded : h[k - 1] = <<v, w>>
    BY <2>2 DEF Encloses, Between, AllBounds
  <2>6. s[i] \in Int /\ s[k] \in Int /\ v \in Int /\ w \in Int
    BY <1>0, <1>2, <1>7 DEF Absent, Unbounded
  <2> QED
    BY <2>3, <2>4, <2>5, <2>6
<1>9. \A i, k \in 1 .. L : s[i] = s[k] => i = k
  <2> TAKE i, k \in 1 .. L
  <2>1. i < k \/ k < i \/ i = k
    OBVIOUS
  <2> QED
    BY <1>8, <2>1
<1>10. L >= 1
  BY <1>5
<1> QED
  BY <1>0, <1>2, <1>5, <1>6, <1>7, <1>9, <1>10

\* A full ladder proves its greatest version: it looks up g and finds it, looks up g + 1
\* and does not, and never repeats a lookup, up to u32::MAX where g + 1 does not exist.
LEMMA GreatestIsProved ==
  LadderProvesGreatest
<1> SUFFICES ASSUME AreVersions, g # Absent PROVE
        /\ Contains(base_binary_ladder(g), g)
        /\ g < MaxVersion => Contains(base_binary_ladder(g), g + 1)
        /\ \A i, k \in DOMAIN base_binary_ladder(g) : base_binary_ladder(g)[i] = base_binary_ladder(g)[k] => i = k
        /\ ToSet(base_binary_ladder(g)) \subseteq 0 .. MaxVersion
  BY DEF LadderProvesGreatest
<1>1. PICK m \in 0 .. MaxVersion : m = g
  <2>1. g \in Absent .. MaxVersion /\ g # Absent
    BY DEF AreVersions
  <2> HIDE DEF g
  <2> QED
    BY <2>1, WidthAssumption DEF Absent
<1>2. PICK s, h : s = base_binary_ladder(m) /\ LadderBy(s, Unknown, m, h)
  BY BaseIsLadder DEF Ladder, Unknown
<1>3. s \in Seq(0 .. MaxVersion) /\ DOMAIN s = 1 .. Len(s)
  BY <1>2 DEF LadderBy
<1>4. /\ \A i \in 1 .. Len(s) : s[i] \in 0 .. MaxVersion
      /\ \E i \in 1 .. Len(s) : s[i] = m
      /\ m < MaxVersion => \E i \in 1 .. Len(s) : s[i] = m + 1
      /\ \A i, k \in 1 .. Len(s) : s[i] = s[k] => i = k
  BY <1>2, LadderHolds
<1> QED
  BY <1>1, <1>2, <1>3, <1>4 DEF Contains, ToSet

-----------------------------------------------------------------------------
AllLookups == [version : Int, inclusion : BOOLEAN]
DecodeStates == [out : Seq(AllLookups), bounds : Int \X Int, over : BOOLEAN]

\* Reading one more result gives a state again.
LEMMA DecodeTyped ==
  ASSUME NEW q \in DecodeStates, NEW i \in BOOLEAN, NEW a \in Int
  PROVE  Decode(q, i, a) \in DecodeStates
<1>1. CASE q.over
  BY <1>1 DEF Decode
<1>2. CASE ~q.over
  <2>1. PICK x \in Int, y \in Int : q.bounds = <<x, y>>
    BY DEF DecodeStates
  <2>2. PICK v \in Int : v = NextLookup(q.bounds)
    <3>1. Middle(x, y) \in Int /\ Double(x) \in Int
      BY WidthAssumption DEF Middle, Double
    <3>2. NextLookup(q.bounds) \in Int
      BY <2>1, <3>1 DEF NextLookup
    <3> QED
      BY <3>2
  <2>3. PICK b \in Int \X Int : b = Narrowed(q.bounds, v, i)
    <3>1. Narrowed(q.bounds, v, i) = IF i THEN <<v, y>> ELSE <<x, v>>
      BY <2>1 DEF Narrowed
    <3>2. <<v, y>> \in Int \X Int /\ <<x, v>> \in Int \X Int
      OBVIOUS
    <3> QED
      BY <3>1, <3>2
  <2>4. PICK e \in AllLookups : e = [version |-> v, inclusion |-> i]
    BY DEF AllLookups
  <2>5. Append(q.out, e) \in Seq(AllLookups)
    <3>1. q.out \in Seq(AllLookups)
      BY DEF DecodeStates
    <3> QED
      BY <3>1
  <2>6. PICK o \in BOOLEAN : o = Decides(v, i, b, a)
    BY DEF Decides
  <2>7. Decode(q, i, a) = [out |-> Append(q.out, e), bounds |-> b, over |-> o]
    BY <1>2, <2>2, <2>3, <2>4, <2>6 DEF Decode, Probe, Looked
  <2> QED
    BY <2>5, <2>7 DEF DecodeStates
<1> QED
  BY <1>1, <1>2 DEF DecodeStates

\* The loop of decode_search_ladder over the results.
Decoding(f, r, a) ==
  /\ f[0] = Undecided
  /\ \A k \in 1 .. Len(r) : f[k] = Decode(f[k - 1], r[k], a)

\* The loop is defined.
LEMMA DecodeDefined ==
  ASSUME NEW r \in Seq(BOOLEAN), NEW a \in Int
  PROVE  \E f : Decoding(f, r, a) /\ decode_search_ladder(r, a) = Finish(f[Len(r)], r)
<1>1. PICK L \in Nat : L = Len(r)
  OBVIOUS
<1>2. Undecided \in DecodeStates
  <2>1. <<>> \in Seq(AllLookups) /\ <<Absent, Unbounded>> \in Int \X Int
    BY WidthAssumption DEF Absent, Unbounded
  <2> QED
    BY <2>1 DEF Undecided, DecodeStates
<1>3. PICK V, v : V = DecodeStates /\ v = Undecided
  OBVIOUS
<1> DEFINE G == [p \in V \X (1 .. L) |-> Decode(p[1], r[p[2]], a)]
<1>4. \A q \in V, k \in 1 .. L : G[<<q, k>>] = Decode(q, r[k], a)
  OBVIOUS
<1>5. G \in [V \X (1 .. L) -> V]
  <2>1. ASSUME NEW p \in V \X (1 .. L) PROVE Decode(p[1], r[p[2]], a) \in V
    <3>1. p[1] \in DecodeStates /\ p[2] \in 1 .. Len(r)
      BY <1>1, <1>3
    <3>2. r[p[2]] \in BOOLEAN
      BY <3>1, ElementOfSeq
    <3> QED
      BY <1>3, <3>1, <3>2, DecodeTyped
  <2> QED
    BY <2>1
<1> HIDE DEF G
<1>6. PICK f \in [0 .. L -> V] : Looped(V, v, G, L, f)
  <2>1. v \in V
    BY <1>2, <1>3
  <2> QED
    BY <1>5, <2>1, LoopDefined
<1>7. f = [k \in 0 .. L |-> IF k = 0 THEN v ELSE G[<<f[k - 1], k>>]]
  BY <1>6 DEF Looped
<1>8. \A k \in 1 .. L : f[k - 1] \in V
  BY <1>6
<1>9. f = [k \in 0 .. L |-> IF k = 0 THEN v ELSE Decode(f[k - 1], r[k], a)]
  <2>1. \A k \in 0 .. L : f[k] = IF k = 0 THEN v ELSE Decode(f[k - 1], r[k], a)
    <3> TAKE k \in 0 .. L
    <3>1. CASE k = 0
      BY <1>7, <3>1
    <3>2. CASE k # 0
      <4>1. k \in 1 .. L
        BY <3>2
      <4> QED
        BY <1>4, <1>7, <1>8, <3>2, <4>1
    <3> QED
      BY <3>1, <3>2
  <2> QED
    BY <1>6, <2>1
<1> DEFINE d == CHOOSE e : e = [k \in 0 .. Len(r) |-> IF k = 0 THEN Undecided ELSE Decode(e[k - 1], r[k], a)]
<1>10. d = [k \in 0 .. Len(r) |-> IF k = 0 THEN Undecided ELSE Decode(d[k - 1], r[k], a)]
  BY <1>1, <1>3, <1>9
<1>11. decode_search_ladder(r, a) = Finish(d[Len(r)], r)
  BY DEF decode_search_ladder
<1> HIDE DEF d
<1>12. Decoding(d, r, a)
  <2>1. 0 \in 0 .. Len(r) /\ \A k \in 1 .. Len(r) : k \in 0 .. Len(r) /\ k # 0
    OBVIOUS
  <2> QED
    BY <1>10, <2>1 DEF Decoding
<1> QED
  BY <1>11, <1>12

\* The first k lookups of s with their outcomes.
LookedUp(s, m, k) == [i \in 1 .. k |-> [version |-> s[i], inclusion |-> s[i] <= m]]

\* One more of them.
LEMMA LookedUpNext ==
  ASSUME NEW k \in Nat, NEW s, NEW m \in Int, \A i \in 1 .. k + 1 : s[i] \in Int
  PROVE  /\ LookedUp(s, m, k) \in Seq(AllLookups) /\ Len(LookedUp(s, m, k)) = k
         /\ Append(LookedUp(s, m, k), [version |-> s[k + 1], inclusion |-> s[k + 1] <= m])
              = LookedUp(s, m, k + 1)
<1>1. ASSUME NEW i \in 1 .. k + 1 PROVE [version |-> s[i], inclusion |-> s[i] <= m] \in AllLookups
  <2>1. s[i] \in Int /\ (s[i] <= m) \in BOOLEAN
    OBVIOUS
  <2> QED
    BY <2>1 DEF AllLookups
<1> DEFINE E(i) == [version |-> s[i], inclusion |-> s[i] <= m]
<1>2. LookedUp(s, m, k) = [i \in 1 .. k |-> E(i)] /\ LookedUp(s, m, k + 1) = [i \in 1 .. k + 1 |-> E(i)]
  BY DEF LookedUp
<1>3. \A i \in 1 .. k + 1 : E(i) \in AllLookups
  BY <1>1
<1> HIDE DEF E
<1>a. k + 1 \in 1 .. k + 1
  OBVIOUS
<1>4. PICK e \in AllLookups : e = E(k + 1)
  BY <1>3, <1>a
<1>5. PICK p \in Seq(AllLookups) : p = [i \in 1 .. k |-> E(i)] /\ Len(p) = k
  <2>1. PICK w : w = [i \in 1 .. k |-> E(i)]
    OBVIOUS
  <2>2. \A i \in 1 .. k : E(i) \in AllLookups
    BY <1>3
  <2>3. w \in [1 .. k -> AllLookups] /\ k \in Nat
    BY <2>1, <2>2
  <2>4. w \in Seq(AllLookups) /\ DOMAIN w = 1 .. k
    BY <2>3, SeqDef
  <2>5. Len(w) = k
    BY <2>3, <2>4, LenProperties
  <2> QED
    BY <2>1, <2>4, <2>5
<1>6. PICK q \in Seq(AllLookups) : q = [i \in 1 .. k + 1 |-> E(i)] /\ Len(q) = k + 1
  <2>1. PICK w : w = [i \in 1 .. k + 1 |-> E(i)]
    OBVIOUS
  <2>2. \A i \in 1 .. k + 1 : E(i) \in AllLookups
    BY <1>3
  <2>3. w \in [1 .. k + 1 -> AllLookups] /\ k + 1 \in Nat
    BY <2>1, <2>2
  <2>4. w \in Seq(AllLookups) /\ DOMAIN w = 1 .. k + 1
    BY <2>3, SeqDef
  <2>5. Len(w) = k + 1
    BY <2>3, <2>4, LenProperties
  <2> QED
    BY <2>1, <2>4, <2>5
<1>7. Append(p, e) = q
  <2>1. Append(p, e) \in Seq(AllLookups) /\ Len(Append(p, e)) = k + 1
    BY <1>5
  <2>2. \A i \in 1 .. k + 1 : Append(p, e)[i] = q[i]
    <3> TAKE i \in 1 .. k + 1
    <3>1. CASE i = k + 1
      BY <1>4, <1>5, <1>6, <3>1
    <3>2. CASE i # k + 1
      <4>1. i \in 1 .. k
        BY <3>2
      <4> QED
        BY <1>5, <1>6, <4>1
    <3> QED
      BY <3>1, <3>2
  <2> QED
    BY <1>6, <2>1, <2>2, SeqEqual
<1> QED
  BY <1>2, <1>4, <1>5, <1>6, <1>7 DEF E

\* The decoder is where the ladder was after its k-th lookup.
InStep(q, s, h, m, k) == q.out = LookedUp(s, m, k) /\ q.bounds = h[k]

\* The k-th lookup decides the comparison with target a.
DecidesAt(s, h, m, a, k) == Decides(s[k], s[k] <= m, h[k], a)

\* Decoder and ladder take a step together.
LEMMA StepsTogether ==
  ASSUME NEW m \in 0 .. MaxVersion, NEW s, NEW h, LadderBy(s, Unknown, m, h),
         NEW k \in 1 .. Len(s), NEW a, NEW q, InStep(q, s, h, m, k - 1), ~q.over
  PROVE  /\ InStep(Decode(q, s[k] <= m, a), s, h, m, k)
         /\ Decode(q, s[k] <= m, a).over = DecidesAt(s, h, m, a, k)
<1>0. m \in Int /\ Len(s) \in Nat
  BY WidthAssumption DEF LadderBy
<1>1. s[k] = NextLookup(h[k - 1]) /\ h[k] = Narrowed(h[k - 1], s[k], s[k] <= m)
  BY DEF LadderBy
<1>2. Append(LookedUp(s, m, k - 1), [version |-> s[k], inclusion |-> s[k] <= m]) = LookedUp(s, m, k)
  <2>1. PICK j \in Nat : j = k - 1 /\ j + 1 = k
    BY <1>0
  <2>2. \A i \in 1 .. j + 1 : s[i] \in Int
    <3>1. \A i \in 1 .. Len(s) : s[i] \in 0 .. MaxVersion
      BY LadderHolds
    <3> QED
      BY <1>0, <2>1, <3>1, WidthAssumption
  <2>3. Append(LookedUp(s, m, j), [version |-> s[j + 1], inclusion |-> s[j + 1] <= m]) = LookedUp(s, m, j + 1)
    BY <1>0, <2>1, <2>2, LookedUpNext
  <2> QED
    BY <2>1, <2>3
<1>3. q.out = LookedUp(s, m, k - 1) /\ q.bounds = h[k - 1]
  BY DEF InStep
<1>4. Decode(q, s[k] <= m, a) = Looked(q.out, s[k], s[k] <= m, h[k], a)
  BY <1>1, <1>3 DEF Decode, Probe
<1>5. PICK z : z = Looked(q.out, s[k], s[k] <= m, h[k], a)
  OBVIOUS
<1>6. z.out = LookedUp(s, m, k) /\ z.bounds = h[k] /\ z.over = DecidesAt(s, h, m, a, k)
  BY <1>2, <1>3, <1>5 DEF Looked, DecidesAt
<1> QED
  BY <1>4, <1>5, <1>6 DEF InStep

\* r are the outcomes of the first lookups of s.
OutcomesOf(r, s, m) ==
  r \in Seq(BOOLEAN) /\ Len(r) \in 1 .. Len(s) /\ \A i \in 1 .. Len(r) : r[i] = (s[i] <= m)

\* The decoder starts where the ladder starts.
LEMMA StartsTogether ==
  ASSUME NEW s, NEW h, NEW m, LadderBy(s, Unknown, m, h)
  PROVE  InStep(Undecided, s, h, m, 0) /\ ~Undecided.over
<1>1. h[0] = Unknown
  BY DEF LadderBy
<1>2. LookedUp(s, m, 0) = <<>>
  <2>1. 1 .. 0 = {}
    OBVIOUS
  <2>2. LookedUp(s, m, 0) = [i \in {} |-> [version |-> s[i], inclusion |-> s[i] <= m]]
    BY <2>1 DEF LookedUp
  <2> QED
    BY <2>2
<1> QED
  BY <1>1, <1>2 DEF InStep, Undecided, Unknown

\* Whatever the target: results that can be decoded stand for the lookups of the ladder.
LEMMA DecodedIsLadder ==
  ASSUME NEW m \in 0 .. MaxVersion, NEW s, NEW h, LadderBy(s, Unknown, m, h),
         NEW r, OutcomesOf(r, s, m), NEW a \in Int, decode_search_ladder(r, a) # BadLadder
  PROVE  decode_search_ladder(r, a) = LookedUp(s, m, Len(r))
<1>0. r \in Seq(BOOLEAN) /\ Len(r) \in Nat /\ Len(s) \in Nat /\ Len(r) <= Len(s) /\ \A i \in 1 .. Len(r) : r[i] = (s[i] <= m)
  BY DEF OutcomesOf, LadderBy
<1>1. PICK f : Decoding(f, r, a) /\ decode_search_ladder(r, a) = Finish(f[Len(r)], r)
  BY <1>0, DecodeDefined
<1> DEFINE Fell(q, k) == q.over /\ \E j \in 0 .. k - 1 : q.out = LookedUp(s, m, j)
           Right(k) == InStep(f[k], s, h, m, k) \/ Fell(f[k], k)
           Wrong == {k \in Nat : k <= Len(r) /\ ~Right(k)}
<1>2. Right(0)
  BY <1>1, StartsTogether DEF Decoding
<1>3. ASSUME NEW k \in 1 .. Len(r), Right(k - 1) PROVE Right(k)
  <2>1. f[k] = Decode(f[k - 1], s[k] <= m, a) /\ k \in 1 .. Len(s)
    BY <1>0, <1>1 DEF Decoding
  <2>2. CASE InStep(f[k - 1], s, h, m, k - 1) /\ ~f[k - 1].over
    BY <2>1, <2>2, StepsTogether
  <2>3. CASE InStep(f[k - 1], s, h, m, k - 1) /\ f[k - 1].over
    <3>1. f[k] = f[k - 1]
      BY <2>1, <2>3 DEF Decode
    <3>2. f[k - 1].out = LookedUp(s, m, k - 1) /\ k - 1 \in 0 .. k - 1
      BY <1>0, <2>3 DEF InStep
    <3> QED
      BY <2>3, <3>1, <3>2
  <2>4. CASE Fell(f[k - 1], k - 1)
    <3>1. f[k] = f[k - 1]
      BY <2>1, <2>4 DEF Decode
    <3>2. 0 .. (k - 1) - 1 \subseteq 0 .. k - 1
      BY <1>0
    <3> QED
      BY <2>4, <3>1, <3>2
  <2> QED
    BY <1>3, <2>2, <2>3, <2>4
<1> HIDE DEF Right
<1>4. ASSUME Wrong # {} PROVE FALSE
  <2>1. PICK k \in Wrong : \A i \in Nat : i < k => i \notin Wrong
    <3>1. Wrong \in SUBSET Nat
      OBVIOUS
    <3> HIDE DEF Wrong
    <3> QED
      BY <1>4, <3>1, LeastElement
  <2>2. k \in 1 .. Len(r) /\ ~Right(k) /\ k - 1 \in Nat /\ k - 1 < k /\ k - 1 <= Len(r)
    BY <1>0, <1>2, <2>1
  <2> QED
    BY <1>3, <2>1, <2>2
<1>5. Right(Len(r))
  BY <1>0, <1>4
<1>6. PICK q : q = f[Len(r)] /\ q.over /\ Len(q.out) = Len(r) /\ decode_search_ladder(r, a) = q.out
  BY <1>1 DEF Finish
<1>7. ~Fell(q, Len(r))
  <2>1. ASSUME NEW j \in 0 .. Len(r) - 1 PROVE Len(LookedUp(s, m, j)) = j /\ j # Len(r)
    <3>1. \A i \in 1 .. Len(s) : s[i] \in 0 .. MaxVersion
      BY LadderHolds
    <3>2. \A i \in 1 .. j + 1 : s[i] \in Int
      BY <1>0, <3>1, WidthAssumption
    <3>3. m \in Int /\ j \in Nat
      BY WidthAssumption
    <3>4. Len(LookedUp(s, m, j)) = j
      BY <3>2, <3>3, LookedUpNext
    <3>5. j # Len(r)
      BY <1>0
    <3> QED
      BY <3>4, <3>5
  <2> QED
    BY <1>6, <2>1
<1> QED
  BY <1>5, <1>6, <1>7 DEF Right, InStep

\* The decoder accepts exactly the lookups up to the first one that decides.
LEMMA DecodesTo ==
  ASSUME NEW m \in 0 .. MaxVersion, NEW s, NEW h, LadderBy(s, Unknown, m, h),
         NEW r, OutcomesOf(r, s, m), NEW a \in Int,
         \A k \in 1 .. Len(r) : DecidesAt(s, h, m, a, k) <=> k = Len(r)
  PROVE  /\ decode_search_ladder(r, a) = LookedUp(s, m, Len(r))
         /\ decode_search_ladder(r, a) # BadLadder
<1>0. /\ r \in Seq(BOOLEAN) /\ Len(r) \in Nat /\ Len(r) >= 1 /\ Len(s) \in Nat /\ Len(r) <= Len(s)
      /\ \A i \in 1 .. Len(r) : r[i] = (s[i] <= m)
  BY DEF OutcomesOf, LadderBy
<1>1. PICK f : Decoding(f, r, a) /\ decode_search_ladder(r, a) = Finish(f[Len(r)], r)
  BY <1>0, DecodeDefined
<1> DEFINE Right(k) == InStep(f[k], s, h, m, k) /\ (f[k].over <=> k = Len(r))
           Wrong == {k \in Nat : k <= Len(r) /\ ~Right(k)}
<1>2. Right(0)
  BY <1>0, <1>1, StartsTogether DEF Decoding
<1>3. ASSUME NEW k \in 1 .. Len(r), Right(k - 1) PROVE Right(k)
  <2>1. f[k] = Decode(f[k - 1], s[k] <= m, a) /\ k \in 1 .. Len(s)
    BY <1>0, <1>1 DEF Decoding
  <2>2. ~f[k - 1].over
    BY <1>0, <1>3
  <2>3. InStep(f[k], s, h, m, k) /\ f[k].over = DecidesAt(s, h, m, a, k)
    BY <1>3, <2>1, <2>2, StepsTogether
  <2> QED
    BY <2>3
<1> HIDE DEF Right
<1>4. ASSUME Wrong # {} PROVE FALSE
  <2>1. PICK k \in Wrong : \A i \in Nat : i < k => i \notin Wrong
    <3>1. Wrong \in SUBSET Nat
      OBVIOUS
    <3> HIDE DEF Wrong
    <3> QED
      BY <1>4, <3>1, LeastElement
  <2>2. k \in 1 .. Len(r) /\ ~Right(k) /\ k - 1 \in Nat /\ k - 1 < k /\ k - 1 <= Len(r)
    BY <1>0, <1>2, <2>1
  <2> QED
    BY <1>3, <2>1, <2>2
<1>5. Right(Len(r))
  BY <1>0, <1>4
<1>6. Len(LookedUp(s, m, Len(r))) = Len(r)
  <2>1. PICK j \in Nat : j = Len(r) - 1 /\ j + 1 = Len(r)
    BY <1>0
  <2>2. \A i \in 1 .. Len(s) : s[i] \in 0 .. MaxVersion
    BY LadderHolds
  <2>3. m \in Int /\ \A i \in 1 .. j + 1 : s[i] \in Int
    BY <1>0, <2>1, <2>2, WidthAssumption
  <2>4. LookedUp(s, m, j) \in Seq(AllLookups) /\ Len(LookedUp(s, m, j)) = j
    BY <2>3, LookedUpNext
  <2>5. LookedUp(s, m, j + 1) = Append(LookedUp(s, m, j), [version |-> s[j + 1], inclusion |-> s[j + 1] <= m])
    BY <2>3, LookedUpNext
  <2>6. PICK e \in AllLookups : e = [version |-> s[j + 1], inclusion |-> s[j + 1] <= m]
    <3>1. s[j + 1] \in Int /\ (s[j + 1] <= m) \in BOOLEAN
      BY <2>1, <2>3
    <3> QED
      BY <3>1 DEF AllLookups
  <2> QED
    BY <2>1, <2>4, <2>5, <2>6
<1>7. decode_search_ladder(r, a) = LookedUp(s, m, Len(r))
  BY <1>1, <1>5, <1>6 DEF Right, InStep, Finish
<1>8. LookedUp(s, m, Len(r)) # BadLadder
  BY <1>0, <1>6 DEF BadLadder
<1> QED
  BY <1>7, <1>8

-----------------------------------------------------------------------------
\* L is the first lookup of s that settles the comparison with a, or the last lookup.
CutAt(s, a, m, L) ==
  /\ L \in 1 .. Len(s)
  /\ L = Len(s) \/ Settles(s[L], a, m)
  /\ \A k \in 1 .. Len(s) : k < L => ~Settles(s[k], a, m)

\* The decoder ends where the ladder of the log ends.
LEMMA DecidesOrSettles ==
  ASSUME NEW m \in 0 .. MaxVersion, NEW s, NEW h, LadderBy(s, Unknown, m, h),
         NEW a \in Int, NEW k \in 1 .. Len(s)
  PROVE  DecidesAt(s, h, m, a, k) <=> Settles(s[k], a, m) \/ k = Len(s)
<1>0. Len(s) \in Nat /\ m \in Int /\ s[k] \in Int
  <2>1. s[k] \in 0 .. MaxVersion /\ Len(s) \in Nat
    BY LadderHolds
  <2> QED
    BY <2>1, WidthAssumption
<1>1. Met(h[k]) <=> k = Len(s)
  <2>1. CASE k = Len(s)
    BY <2>1 DEF LadderBy
  <2>2. CASE k # Len(s)
    <3>1. PICK i \in 1 .. Len(s) : i = k + 1 /\ i - 1 = k
      BY <1>0, <2>2
    <3>2. ~Met(h[i - 1])
      BY DEF LadderBy
    <3> QED
      BY <2>2, <3>1, <3>2
  <2> QED
    BY <2>1, <2>2
<1>2. DecidesAt(s, h, m, a, k) <=> (s[k] <= m) = (s[k] > a) \/ Met(h[k])
  BY DEF DecidesAt, Decides, Met
<1>3. Settles(s[k], a, m) <=> (s[k] <= m) = (s[k] > a)
  BY <1>0 DEF Settles
<1> QED
  BY <1>1, <1>2, <1>3

\* Results and decoding of a ladder that is cut.
Reads(s, a, m, L) ==
  LET out == SubSeq(s, 1, L)
      d   == decode_search_ladder(Results(out, m), a)
  IN  /\ d # BadLadder /\ DOMAIN d = 1 .. L /\ Len(d) = Len(out) /\ Len(out) = L
      /\ \A i \in 1 .. L : out[i] = s[i] /\ d[i].version = s[i] /\ d[i].inclusion = (s[i] <= m)

\* The client recovers the lookups of such a ladder.
LEMMA CutIsRead ==
  ASSUME NEW m \in 0 .. MaxVersion, NEW s, NEW h, LadderBy(s, Unknown, m, h),
         NEW a \in Int, NEW L, CutAt(s, a, m, L)
  PROVE  Reads(s, a, m, L)
<1>0. Len(s) \in Nat /\ m \in Int /\ L \in 1 .. Len(s) /\ s \in Seq(0 .. MaxVersion)
      /\ \A i \in 1 .. Len(s) : s[i] \in 0 .. MaxVersion /\ s[i] \in Int
  <2>1. Len(s) \in Nat /\ \A i \in 1 .. Len(s) : s[i] \in 0 .. MaxVersion
    BY LadderHolds
  <2> QED
    BY <2>1, WidthAssumption DEF CutAt, LadderBy
<1>1. PICK o : o = SubSeq(s, 1, L)
  OBVIOUS
<1>2. o \in Seq(0 .. MaxVersion) /\ Len(o) = L /\ DOMAIN o = 1 .. L /\ \A i \in 1 .. L : o[i] = s[i]
  <2>1. L \in Int /\ 1 \in Int /\ \A i \in 1 .. L : s[i] \in 0 .. MaxVersion
    BY <1>0
  <2>2. /\ o \in Seq(0 .. MaxVersion) /\ Len(o) = (IF 1 <= L THEN L - 1 + 1 ELSE 0)
        /\ \A i \in 1 .. L - 1 + 1 : o[i] = s[1 + i - 1]
    BY <1>1, <2>1, SubSeqProperties
  <2>3. Len(o) = L /\ \A i \in 1 .. L : i \in 1 .. L - 1 + 1 /\ 1 + i - 1 = i
    BY <1>0, <2>2
  <2> QED
    BY <2>2, <2>3
<1>3. PICK r : r = Results(o, m)
  OBVIOUS
<1>4. r = [i \in 1 .. L |-> o[i] <= m]
  BY <1>2, <1>3 DEF Results
<1>5. r \in Seq(BOOLEAN) /\ Len(r) = L /\ \A i \in 1 .. L : r[i] = (s[i] <= m)
  <2>1. L \in Nat /\ \A i \in 1 .. L : (o[i] <= m) \in BOOLEAN
    BY <1>0
  <2>2. r \in [1 .. L -> BOOLEAN]
    BY <1>4, <2>1
  <2>3. r \in Seq(BOOLEAN) /\ Len(r) = L
    BY <2>1, <2>2
  <2> QED
    BY <1>2, <1>4, <2>3
<1>6. OutcomesOf(r, s, m)
  BY <1>0, <1>5 DEF OutcomesOf
<1>7. \A k \in 1 .. Len(r) : DecidesAt(s, h, m, a, k) <=> k = Len(r)
  <2> TAKE k \in 1 .. Len(r)
  <2>1. k \in 1 .. Len(s)
    BY <1>0, <1>5
  <2>2. DecidesAt(s, h, m, a, k) <=> Settles(s[k], a, m) \/ k = Len(s)
    BY <2>1, DecidesOrSettles
  <2>3. k < L => ~Settles(s[k], a, m) /\ k # Len(s)
    BY <1>0, <2>1 DEF CutAt
  <2>4. L = Len(s) \/ Settles(s[L], a, m)
    BY DEF CutAt
  <2>5. k < L \/ k = L
    BY <1>0, <1>5
  <2> QED
    BY <1>5, <2>2, <2>3, <2>4, <2>5, <1>0
<1>8. PICK d : d = decode_search_ladder(r, a) /\ d = LookedUp(s, m, L) /\ d # BadLadder
  BY <1>5, <1>6, <1>7, DecodesTo
<1>9. DOMAIN d = 1 .. L /\ Len(d) = L /\ \A i \in 1 .. L : d[i].version = s[i] /\ d[i].inclusion = (s[i] <= m)
  BY <1>0, <1>8 DEF LookedUp
<1> QED
  BY <1>1, <1>2, <1>3, <1>8, <1>9 DEF Reads

\* The ladder of a search is such a cut of the full ladder.
LEMMA SearchIsCut ==
  ASSUME NEW m \in 0 .. MaxVersion, NEW a \in Int, NEW s, s = base_binary_ladder(m),
         s \in Seq(0 .. MaxVersion), Len(s) >= 1
  PROVE  \E L : CutAt(s, a, m, L) /\ search_binary_ladder(a, m) = SubSeq(s, 1, L)
<1>0. Len(s) \in Nat /\ DOMAIN s = 1 .. Len(s)
  OBVIOUS
<1>1. PICK ends : ends = {i \in 1 .. Len(s) : Settles(s[i], a, m)}
  OBVIOUS
<1>2. search_binary_ladder(a, m) =
        IF ends = {} THEN s ELSE SubSeq(s, 1, CHOOSE i \in ends : \A k \in ends : i <= k)
  BY <1>0, <1>1 DEF search_binary_ladder
<1>3. CASE ends = {}
  <2>1. SubSeq(s, 1, Len(s)) = s
    BY <1>0
  <2>2. CutAt(s, a, m, Len(s))
    BY <1>0, <1>1, <1>3 DEF CutAt
  <2> QED
    BY <1>2, <1>3, <2>1, <2>2
<1>4. CASE ends # {}
  <2>1. ends \in SUBSET Nat
    BY <1>0, <1>1
  <2>2. PICK L \in ends : \A k \in Nat : k < L => k \notin ends
    BY <1>4, <2>1, LeastElement
  <2>3. \A k \in ends : L <= k
    BY <2>1, <2>2
  <2>4. PICK K : K = CHOOSE i \in ends : \A k \in ends : i <= k
    OBVIOUS
  <2>5. K \in ends /\ \A k \in ends : K <= k
    BY <2>2, <2>3, <2>4
  <2>6. CutAt(s, a, m, K)
    <3>1. K \in 1 .. Len(s) /\ Settles(s[K], a, m)
      BY <1>1, <2>5
    <3>2. ASSUME NEW k \in 1 .. Len(s), k < K PROVE ~Settles(s[k], a, m)
      <4>1. k \notin ends
        BY <1>0, <2>1, <2>5, <3>2
      <4> QED
        BY <1>1, <4>1
    <3> QED
      BY <3>1, <3>2 DEF CutAt
  <2> QED
    BY <1>2, <1>4, <2>4, <2>6
<1> QED
  BY <1>3, <1>4

\* What the log sends of a label's ladder in one entry, and how the client reads it.
LEMMA EntryIsRead ==
  ASSUME NEW m \in 0 .. MaxVersion, NEW a \in Int
  PROVE  \E s, h, L : /\ s = base_binary_ladder(m) /\ LadderBy(s, Unknown, m, h)
                      /\ CutAt(s, a, m, L) /\ EntryLadder(a, m) = SubSeq(s, 1, L)
                      /\ search_binary_ladder(a, m) = SubSeq(s, 1, L)
                      /\ Reads(s, a, m, L)
<1>1. PICK s, h : s = base_binary_ladder(m) /\ LadderBy(s, Unknown, m, h)
  BY BaseIsLadder DEF Ladder, Unknown
<1>2. s \in Seq(0 .. MaxVersion) /\ Len(s) >= 1
  <2>1. Len(s) >= 1
    BY <1>1, LadderHolds
  <2> QED
    BY <1>1, <2>1 DEF LadderBy
<1>3. PICK L : CutAt(s, a, m, L) /\ search_binary_ladder(a, m) = SubSeq(s, 1, L)
  BY <1>1, <1>2, SearchIsCut
<1>4. Reads(s, a, m, L)
  BY <1>1, <1>3, CutIsRead
<1>5. EntryLadder(a, m) = search_binary_ladder(a, m)
  <2>1. m # Absent
    BY WidthAssumption DEF Absent
  <2> QED
    BY <2>1 DEF EntryLadder
<1> QED
  BY <1>1, <1>3, <1>4, <1>5

\* A label that is absent takes one lookup.
LEMMA AbsentIsRead ==
  ASSUME NEW a \in 0 .. MaxVersion
  PROVE  /\ EntryLadder(a, Absent) = <<0>>
         /\ decode_search_ladder(Results(<<0>>, Absent), a) = <<[version |-> 0, inclusion |-> FALSE]>>
<1>1. EntryLadder(a, Absent) = <<0>>
  BY DEF EntryLadder
<1>2. PICK r : r = Results(<<0>>, Absent)
  OBVIOUS
<1>3. r = [i \in 1 .. 1 |-> FALSE]
  <2>1. r = [i \in 1 .. 1 |-> <<0>>[i] <= Absent]
    BY <1>2 DEF Results
  <2>2. \A i \in 1 .. 1 : (<<0>>[i] <= Absent) = FALSE
    BY DEF Absent
  <2> QED
    BY <2>1, <2>2
<1>4. r \in Seq(BOOLEAN) /\ Len(r) = 1 /\ r[1] = FALSE /\ a \in Int
  BY <1>3, WidthAssumption
<1>5. PICK f : Decoding(f, r, a) /\ decode_search_ladder(r, a) = Finish(f[Len(r)], r)
  BY <1>4, DecodeDefined
<1>6. f[0] = Undecided /\ f[1] = Decode(f[0], FALSE, a)
  <2>1. f[1] = Decode(f[1 - 1], r[1], a)
    BY <1>4, <1>5 DEF Decoding
  <2>2. 1 - 1 = 0
    OBVIOUS
  <2> QED
    BY <1>4, <1>5, <2>1, <2>2 DEF Decoding
<1>7. NextLookup(Unknown) = 0
  BY DEF NextLookup, Unknown
<1>8. Undecided.out = <<>> /\ Undecided.bounds = Unknown /\ ~Undecided.over
  BY DEF Undecided, Unknown
<1>9. f[1] = Looked(<<>>, 0, FALSE, Narrowed(Unknown, 0, FALSE), a)
  BY <1>6, <1>7, <1>8 DEF Decode, Probe
<1>10. Narrowed(Unknown, 0, FALSE) = <<Absent, 0>>
  BY DEF Narrowed, Unknown
<1>11. f[1].out = <<[version |-> 0, inclusion |-> FALSE]>> /\ f[1].over
  <2>1. Decides(0, FALSE, <<Absent, 0>>, a)
    BY DEF Decides, Absent
  <2>2. Append(<<>>, [version |-> 0, inclusion |-> FALSE]) = <<[version |-> 0, inclusion |-> FALSE]>>
    OBVIOUS
  <2>3. PICK z : z = Looked(<<>>, 0, FALSE, <<Absent, 0>>, a)
    OBVIOUS
  <2>4. z.out = Append(<<>>, [version |-> 0, inclusion |-> FALSE]) /\ z.over = Decides(0, FALSE, <<Absent, 0>>, a)
    BY <2>3 DEF Looked
  <2>5. f[1] = z
    BY <1>9, <1>10, <2>3
  <2> QED
    BY <2>1, <2>2, <2>4, <2>5
<1>12. Finish(f[1], r) = f[1].out
  BY <1>4, <1>11 DEF Finish
<1> QED
  BY <1>1, <1>2, <1>4, <1>5, <1>11, <1>12

\* decode_search_ladder inverts the log: from the outcomes alone the client recovers the
\* version of every lookup of the ladder the log walked.
LEMMA OutcomesAreInverted ==
  DecodeInverts
<1> SUFFICES ASSUME AreVersions PROVE
      /\ Len(decode_search_ladder(Results(EntryLadder(t, g), g), t)) = Len(EntryLadder(t, g))
      /\ \A i \in DOMAIN decode_search_ladder(Results(EntryLadder(t, g), g), t) :
           /\ decode_search_ladder(Results(EntryLadder(t, g), g), t)[i].version = EntryLadder(t, g)[i]
           /\ decode_search_ladder(Results(EntryLadder(t, g), g), t)[i].inclusion = (EntryLadder(t, g)[i] <= g)
  BY DEF DecodeInverts
<1>1. PICK a, m : a = t /\ m = g
  OBVIOUS
<1>2. a \in 0 .. MaxVersion /\ a \in Int /\ m \in Absent .. MaxVersion
  BY <1>1, WidthAssumption DEF AreVersions
<1>3. PICK o, d : o = EntryLadder(a, m) /\ d = decode_search_ladder(Results(o, m), a)
  OBVIOUS
<1>4. CASE m = Absent
  <2>1. o = <<0>> /\ d = <<[version |-> 0, inclusion |-> FALSE]>>
    BY <1>2, <1>3, <1>4, AbsentIsRead
  <2>2. Len(o) = 1 /\ Len(d) = 1 /\ DOMAIN d = {1} /\ o[1] = 0
    BY <2>1
  <2>3. d[1].version = 0 /\ d[1].inclusion = FALSE
    BY <2>1
  <2>4. (o[1] <= m) = FALSE
    BY <1>4, <2>2 DEF Absent
  <2>5. \A i \in DOMAIN d : d[i].version = o[i] /\ d[i].inclusion = (o[i] <= m)
    <3> TAKE i \in DOMAIN d
    <3>1. i = 1
      BY <2>2
    <3> QED
      BY <2>2, <2>3, <2>4, <3>1
  <2> QED
    BY <1>1, <1>3, <2>2, <2>5
<1>5. CASE m # Absent
  <2>1. m \in 0 .. MaxVersion
    BY <1>2, <1>5, WidthAssumption DEF Absent
  <2>2. PICK s, L : o = SubSeq(s, 1, L) /\ Reads(s, a, m, L)
    BY <1>2, <1>3, <2>1, EntryIsRead
  <2>3. /\ DOMAIN d = 1 .. L /\ Len(d) = Len(o)
        /\ \A i \in 1 .. L : o[i] = s[i] /\ d[i].version = s[i] /\ d[i].inclusion = (s[i] <= m)
    BY <1>3, <2>2 DEF Reads
  <2>4. \A i \in DOMAIN d : d[i].version = o[i] /\ d[i].inclusion = (o[i] <= m)
    BY <2>3
  <2> QED
    BY <1>1, <1>3, <2>3, <2>4
<1> QED
  BY <1>2, <1>4, <1>5

\* The direction the client reads off the lookups.
Above(d, a) == \E i \in DOMAIN d : d[i].inclusion /\ d[i].version > a
Below(d, a) == \E i \in DOMAIN d : ~d[i].inclusion /\ d[i].version <= a

\* A cut ladder tells how the greatest version compares with the target.
LEMMA CutSettles ==
  ASSUME NEW m \in 0 .. MaxVersion, NEW a \in 0 .. MaxVersion, NEW s, NEW h, LadderBy(s, Unknown, m, h),
         NEW L, CutAt(s, a, m, L)
  PROVE  /\ (\E i \in 1 .. L : s[i] <= m /\ s[i] > a) = (m > a)
         /\ (\E i \in 1 .. L : ~(s[i] <= m) /\ s[i] <= a) = (m < a)
<1>0. /\ MaxVersion \in Nat /\ m \in Int /\ a \in Int /\ a <= MaxVersion /\ Len(s) \in Nat
      /\ L \in 1 .. Len(s) /\ \A i \in 1 .. Len(s) : s[i] \in Int
  <2>1. Len(s) \in Nat /\ \A i \in 1 .. Len(s) : s[i] \in 0 .. MaxVersion
    BY LadderHolds
  <2> QED
    BY <2>1, WidthAssumption DEF CutAt
<1>1. ASSUME NEW i \in 1 .. Len(s), Settles(s[i], a, m) PROVE Settles(s[L], a, m)
  <2>1. i = L \/ i < L \/ L < i
    BY <1>0
  <2>2. CASE L < i
    <3>1. L # Len(s)
      BY <1>0, <2>2
    <3> QED
      BY <3>1 DEF CutAt
  <2>3. ~(i < L)
    BY <1>1 DEF CutAt
  <2> QED
    BY <1>1, <2>1, <2>2, <2>3
<1>2. L \in 1 .. L /\ L \in 1 .. Len(s) /\ \A i \in 1 .. L : i \in 1 .. Len(s)
  BY <1>0
<1>3. ASSUME m > a PROVE s[L] <= m /\ s[L] > a
  <2>1. PICK i \in 1 .. Len(s) : s[i] = m
    BY LadderHolds
  <2>2. Settles(s[i], a, m)
    BY <1>0, <1>3, <2>1 DEF Settles
  <2>3. Settles(s[L], a, m)
    BY <1>1, <2>2
  <2> QED
    BY <1>0, <1>2, <1>3, <2>3 DEF Settles
<1>4. ASSUME m < a PROVE ~(s[L] <= m) /\ s[L] <= a
  <2>1. PICK i \in 1 .. Len(s) : s[i] = m + 1
    <3>1. m < MaxVersion
      BY <1>0, <1>4
    <3> QED
      BY <3>1, LadderHolds
  <2>2. Settles(s[i], a, m)
    BY <1>0, <1>4, <2>1 DEF Settles
  <2>3. Settles(s[L], a, m)
    BY <1>1, <2>2
  <2> QED
    BY <1>0, <1>2, <1>4, <2>3 DEF Settles
<1>5. ASSUME NEW i \in 1 .. L, s[i] <= m, s[i] > a PROVE m > a
  BY <1>0, <1>2, <1>5
<1>6. ASSUME NEW i \in 1 .. L, ~(s[i] <= m), s[i] <= a PROVE m < a
  BY <1>0, <1>2, <1>6
<1>7. (\E i \in 1 .. L : s[i] <= m /\ s[i] > a) <=> m > a
  BY <1>2, <1>3, <1>5
<1>8. (\E i \in 1 .. L : ~(s[i] <= m) /\ s[i] <= a) <=> m < a
  BY <1>2, <1>4, <1>6
<1>9. (m > a) \in BOOLEAN /\ (m < a) \in BOOLEAN
  BY <1>0
<1> QED
  BY <1>7, <1>8, <1>9

\* The client stops, goes left or goes right as the log did.
LEMMA SearchIsSettled ==
  LadderSettlesSearch
<1> SUFFICES ASSUME AreVersions
             PROVE  /\ Above(decode_search_ladder(Results(EntryLadder(t, g), g), t), t) = (g > t)
                    /\ Below(decode_search_ladder(Results(EntryLadder(t, g), g), t), t) = (g < t)
  BY DEF LadderSettlesSearch, Above, Below
<1>1. PICK a, m : a = t /\ m = g
  OBVIOUS
<1>2. a \in 0 .. MaxVersion /\ a \in Int /\ m \in Absent .. MaxVersion
  BY <1>1, WidthAssumption DEF AreVersions
<1>3. PICK o, d : o = EntryLadder(a, m) /\ d = decode_search_ladder(Results(o, m), a)
  OBVIOUS
<1>4. CASE m = Absent
  <2>1. o = <<0>> /\ d = <<[version |-> 0, inclusion |-> FALSE]>>
    BY <1>2, <1>3, <1>4, AbsentIsRead
  <2>2. DOMAIN d = {1} /\ d[1].version = 0 /\ d[1].inclusion = FALSE
    BY <2>1
  <2>3. Above(d, a) = FALSE
    BY <2>2 DEF Above
  <2>4. Below(d, a) = TRUE
    BY <1>2, <2>2, WidthAssumption DEF Below
  <2>5. (m > a) = FALSE /\ (m < a) = TRUE
    BY <1>2, <1>4, WidthAssumption DEF Absent
  <2> QED
    BY <1>1, <1>3, <2>3, <2>4, <2>5
<1>5. CASE m # Absent
  <2>1. m \in 0 .. MaxVersion
    BY <1>2, <1>5, WidthAssumption DEF Absent
  <2>2. PICK s, h, L : /\ LadderBy(s, Unknown, m, h) /\ CutAt(s, a, m, L)
                       /\ o = SubSeq(s, 1, L) /\ Reads(s, a, m, L)
    BY <1>2, <1>3, <2>1, EntryIsRead
  <2>3. /\ DOMAIN d = 1 .. L
        /\ \A i \in 1 .. L : d[i].version = s[i] /\ d[i].inclusion = (s[i] <= m)
    BY <1>3, <2>2 DEF Reads
  <2>4. /\ (\E i \in 1 .. L : s[i] <= m /\ s[i] > a) = (m > a)
        /\ (\E i \in 1 .. L : ~(s[i] <= m) /\ s[i] <= a) = (m < a)
    BY <1>2, <2>1, <2>2, CutSettles
  <2>5. Above(d, a) = (m > a) /\ Below(d, a) = (m < a)
    BY <2>3, <2>4 DEF Above, Below
  <2> QED
    BY <1>1, <1>3, <2>5
<1> QED
  BY <1>2, <1>4, <1>5

\* The monitoring ladder has lookups of the full ladder only, none above its target.
LEMMA MonitoringKeeps ==
  ASSUME NEW a \in 0 .. MaxVersion, NEW s \in Seq(0 .. MaxVersion), s = base_binary_ladder(a)
  PROVE  monitoring_binary_ladder(a) \in Seq({v \in ToSet(s) : v <= a})
<1>1. PICK N \in Nat : N = Len(s) /\ DOMAIN s = 1 .. N
  OBVIOUS
<1>2. PICK V, T : T = {v \in ToSet(s) : v <= a} /\ V = Seq(T)
  OBVIOUS
<1> DEFINE Keep(q, k) == IF s[k] <= a THEN Append(q, s[k]) ELSE q
           G == [p \in V \X (1 .. N) |-> Keep(p[1], p[2])]
<1>3. \A q \in V, k \in 1 .. N : G[<<q, k>>] = Keep(q, k)
  OBVIOUS
<1>4. G \in [V \X (1 .. N) -> V]
  <2>1. ASSUME NEW p \in V \X (1 .. N) PROVE Keep(p[1], p[2]) \in V
    <3>1. s[p[2]] <= a => s[p[2]] \in T
      BY <1>1, <1>2 DEF ToSet
    <3> QED
      BY <1>2, <3>1
  <2> QED
    BY <2>1
<1>5. <<>> \in V
  BY <1>2
<1> HIDE DEF G
<1>6. PICK f \in [0 .. N -> V] : Looped(V, <<>>, G, N, f)
  BY <1>4, <1>5, LoopDefined
<1>7. f = [k \in 0 .. N |-> IF k = 0 THEN <<>> ELSE G[<<f[k - 1], k>>]]
  BY <1>6 DEF Looped
<1>8. \A k \in 1 .. N : f[k - 1] \in V
  BY <1>6
<1>9. f = [k \in 0 .. N |-> IF k = 0 THEN <<>> ELSE Keep(f[k - 1], k)]
  <2>1. \A k \in 0 .. N : f[k] = IF k = 0 THEN <<>> ELSE Keep(f[k - 1], k)
    <3> TAKE k \in 0 .. N
    <3>1. CASE k = 0
      BY <1>7, <3>1
    <3>2. CASE k # 0
      <4>1. k \in 1 .. N
        BY <3>2
      <4> QED
        BY <1>3, <1>7, <1>8, <3>2, <4>1
    <3> QED
      BY <3>1, <3>2
  <2> QED
    BY <1>6, <2>1
<1> DEFINE d == CHOOSE e : e = [k \in 0 .. N |-> IF k = 0 THEN <<>> ELSE Keep(e[k - 1], k)]
<1>10. d = [k \in 0 .. N |-> IF k = 0 THEN <<>> ELSE Keep(d[k - 1], k)]
  BY <1>9
<1>11. monitoring_binary_ladder(a) = d[N]
  BY <1>1 DEF monitoring_binary_ladder
<1>12. d[0] = <<>> /\ \A k \in 1 .. N : d[k] = Keep(d[k - 1], k)
  <2>1. 0 \in 0 .. N /\ \A k \in 1 .. N : k \in 0 .. N /\ k # 0
    OBVIOUS
  <2> HIDE DEF d, Keep
  <2> QED
    BY <1>10, <2>1
<1> HIDE DEF d
<1>13. d[N] \in V
  <2> DEFINE Wrong == {k \in Nat : k <= N /\ d[k] \notin V}
  <2>1. ASSUME NEW k \in 1 .. N, d[k - 1] \in V PROVE d[k] \in V
    <3>1. s[k] <= a => s[k] \in T
      BY <1>1, <1>2 DEF ToSet
    <3>2. d[k] = IF s[k] <= a THEN Append(d[k - 1], s[k]) ELSE d[k - 1]
      BY <1>12
    <3>3. PICK q : q = d[k - 1] /\ q \in Seq(T)
      BY <1>2, <2>1
    <3>4. s[k] <= a => Append(q, s[k]) \in Seq(T)
      BY <3>1, <3>3
    <3> QED
      BY <1>2, <3>2, <3>3, <3>4
  <2>2. ASSUME Wrong # {} PROVE FALSE
    <3>1. PICK k \in Wrong : \A i \in Nat : i < k => i \notin Wrong
      <4>1. Wrong \in SUBSET Nat
        OBVIOUS
      <4> HIDE DEF Wrong
      <4> QED
        BY <2>2, <4>1, LeastElement
    <3>2. k \in 1 .. N /\ k - 1 \in Nat /\ k - 1 < k /\ k - 1 <= N
      BY <1>1, <1>5, <1>12, <3>1
    <3> QED
      BY <2>1, <3>1, <3>2
  <2> QED
    BY <1>1, <2>2
<1> QED
  BY <1>2, <1>11, <1>13

\* The ladder of a search that found its target is the full ladder.
LEMMA CoveredByFullLadder ==
  MonitoringIsCovered
<1> SUFFICES ASSUME AreVersions
             PROVE  ToSet(monitoring_binary_ladder(t)) \subseteq {v \in ToSet(search_binary_ladder(t, t)) : v <= t}
  BY DEF MonitoringIsCovered
<1>1. PICK a : a = t /\ a \in 0 .. MaxVersion /\ a \in Int
  BY WidthAssumption DEF AreVersions
<1>2. PICK s, h, L : /\ s = base_binary_ladder(a) /\ LadderBy(s, Unknown, a, h)
                     /\ CutAt(s, a, a, L) /\ search_binary_ladder(a, a) = SubSeq(s, 1, L)
  BY <1>1, EntryIsRead
<1>3. s \in Seq(0 .. MaxVersion) /\ Len(s) \in Nat
  BY <1>2 DEF LadderBy
<1>4. L = Len(s)
  <2>1. L \in 1 .. Len(s) /\ s[L] \in Int
    <3>1. L \in 1 .. Len(s)
      BY <1>2 DEF CutAt
    <3>2. s[L] \in 0 .. MaxVersion
      BY <1>3, <3>1, ElementOfSeq
    <3> QED
      BY <3>1, <3>2, WidthAssumption
  <2>2. ~Settles(s[L], a, a)
    BY <1>1, <2>1 DEF Settles
  <2> QED
    BY <1>2, <2>2 DEF CutAt
<1>5. search_binary_ladder(a, a) = s
  BY <1>2, <1>3, <1>4
<1>6. monitoring_binary_ladder(a) \in Seq({v \in ToSet(s) : v <= a})
  BY <1>1, <1>2, <1>3, MonitoringKeeps
<1>7. ToSet(monitoring_binary_ladder(a)) \subseteq {v \in ToSet(s) : v <= a}
  <2>1. PICK T, q : T = {v \in ToSet(s) : v <= a} /\ q = monitoring_binary_ladder(a) /\ q \in Seq(T)
    BY <1>6
  <2>2. ToSet(q) \subseteq T
    BY <2>1 DEF ToSet
  <2> QED
    BY <2>1, <2>2
<1> QED
  BY <1>1, <1>5, <1>7

\* A search for the greatest version itself takes the full ladder.
LEMMA FullIsCut ==
  ASSUME NEW m \in 0 .. MaxVersion
  PROVE  \E s, h : /\ s = base_binary_ladder(m) /\ LadderBy(s, Unknown, m, h)
                   /\ EntryLadder(m, m) = s /\ search_binary_ladder(m, m) = s
                   /\ s \in Seq(0 .. MaxVersion) /\ Len(s) \in Nat /\ SubSeq(s, 1, Len(s)) = s
                   /\ CutAt(s, m, m, Len(s))
<1>1. m \in Int
  BY WidthAssumption
<1>2. PICK s, h, L : /\ s = base_binary_ladder(m) /\ LadderBy(s, Unknown, m, h)
                     /\ CutAt(s, m, m, L) /\ EntryLadder(m, m) = SubSeq(s, 1, L)
                     /\ search_binary_ladder(m, m) = SubSeq(s, 1, L)
  BY <1>1, EntryIsRead
<1>3. s \in Seq(0 .. MaxVersion) /\ Len(s) \in Nat
  BY <1>2 DEF LadderBy
<1>4. L = Len(s)
  <2>1. L \in 1 .. Len(s) /\ s[L] \in Int
    <3>1. L \in 1 .. Len(s)
      BY <1>2 DEF CutAt
    <3>2. s[L] \in 0 .. MaxVersion
      BY <1>3, <3>1, ElementOfSeq
    <3> QED
      BY <3>1, <3>2, WidthAssumption
  <2>2. ~Settles(s[L], m, m)
    BY <1>1, <2>1 DEF Settles
  <2> QED
    BY <1>2, <2>2 DEF CutAt
<1>5. SubSeq(s, 1, Len(s)) = s
  BY <1>3
<1> QED
  BY <1>2, <1>3, <1>4, <1>5

\* The results of the full ladder are the outcomes of its lookups.
LEMMA ResultsAreOutcomes ==
  ASSUME NEW m \in 0 .. MaxVersion, NEW s \in Seq(0 .. MaxVersion), Len(s) >= 1
  PROVE  Len(Results(s, m)) = Len(s) /\ OutcomesOf(Results(s, m), s, m)
<1>1. PICK N \in Nat : N = Len(s) /\ N >= 1 /\ DOMAIN s = 1 .. N
  OBVIOUS
<1>2. PICK r : r = Results(s, m)
  OBVIOUS
<1>3. r = [i \in 1 .. N |-> s[i] <= m]
  BY <1>1, <1>2 DEF Results
<1>4. r \in [1 .. N -> BOOLEAN] /\ \A i \in 1 .. N : r[i] = (s[i] <= m)
  <2>1. \A i \in 1 .. N : (s[i] <= m) \in BOOLEAN
    OBVIOUS
  <2> QED
    BY <1>3, <2>1
<1>5. r \in Seq(BOOLEAN) /\ Len(r) = N
  BY <1>1, <1>4
<1> QED
  BY <1>1, <1>2, <1>4, <1>5 DEF OutcomesOf

\* The greatest version that was found.
LEMMA GreatestIsRead ==
  ASSUME NEW m \in 0 .. MaxVersion, NEW s, NEW h, LadderBy(s, Unknown, m, h)
  PROVE  Greatest(Included(LookedUp(s, m, Len(s)))) = m
<1>1. m \in Int /\ \A i \in 1 .. Len(s) : s[i] \in Int
  <2>1. \A i \in 1 .. Len(s) : s[i] \in 0 .. MaxVersion
    BY LadderHolds
  <2> QED
    BY <2>1, WidthAssumption
<1>2. PICK d : d = LookedUp(s, m, Len(s))
  OBVIOUS
<1>3. DOMAIN d = 1 .. Len(s) /\ \A i \in 1 .. Len(s) : d[i].version = s[i] /\ d[i].inclusion = (s[i] <= m)
  BY <1>2 DEF LookedUp
<1>4. PICK S : S = Included(d)
  OBVIOUS
<1>5. S = {d[i].version : i \in {k \in DOMAIN d : d[k].inclusion}}
  BY <1>4 DEF Included
<1>6. \A v \in S : v \in Int /\ v <= m
  <2> TAKE v \in S
  <2>1. PICK i \in 1 .. Len(s) : v = d[i].version /\ d[i].inclusion
    BY <1>3, <1>5
  <2> QED
    BY <1>1, <1>3, <2>1
<1>7. m \in S
  <2>1. PICK i \in 1 .. Len(s) : s[i] = m
    BY LadderHolds
  <2>2. d[i].version = m
    BY <1>3, <2>1
  <2>3. s[i] <= m
    BY <1>1, <2>1
  <2>4. i \in {k \in DOMAIN d : d[k].inclusion}
    BY <1>3, <2>3
  <2> QED
    BY <1>5, <2>2, <2>4
<1>8. \A v \in S : (\A w \in S : w <= v) <=> v = m
  BY <1>1, <1>6, <1>7
<1>9. PICK e : e = CHOOSE v \in S : \A w \in S : w <= v
  OBVIOUS
<1>10. e \in S /\ \A w \in S : w <= e
  BY <1>7, <1>8, <1>9
<1>11. Greatest(S) = e
  BY <1>7, <1>9 DEF Greatest
<1> QED
  BY <1>2, <1>4, <1>8, <1>10, <1>11

\* After k lookups the bounds are x and y.
At(s, h, k, x, y) == k \in 0 .. Len(s) /\ h[k] = <<x, y>>

\* One more lookup.
LEMMA LadderGoesOn ==
  ASSUME NEW m \in 0 .. MaxVersion, NEW s, NEW h, LadderBy(s, Unknown, m, h),
         NEW k \in Int, NEW x \in Int, NEW y \in Int, At(s, h, k, x, y), y - x > 1,
         NEW v \in Int, v = NextLookup(<<x, y>>)
  PROVE  /\ k + 1 \in 1 .. Len(s) /\ s[k + 1] = v
         /\ v <= m => At(s, h, k + 1, v, y)
         /\ v > m => At(s, h, k + 1, x, v)
<1>1. Len(s) \in Nat /\ m \in Int
  BY WidthAssumption DEF LadderBy
<1>2. ~Met(h[k]) /\ k \in 0 .. Len(s)
  BY DEF Met, At
<1>3. k # Len(s)
  BY <1>2 DEF LadderBy
<1>4. PICK i \in 1 .. Len(s) : i = k + 1 /\ i - 1 = k /\ i \in 0 .. Len(s)
  BY <1>1, <1>2, <1>3
<1>5. s[i] = v /\ h[i] = Narrowed(<<x, y>>, v, v <= m)
  <2>1. s[i] = NextLookup(h[i - 1]) /\ h[i] = Narrowed(h[i - 1], s[i], s[i] <= m)
    BY DEF LadderBy
  <2>2. h[i - 1] = <<x, y>>
    BY <1>4 DEF At
  <2> QED
    BY <2>1, <2>2
<1>6. v <= m => h[i] = <<v, y>>
  BY <1>5 DEF Narrowed
<1>7. v > m => h[i] = <<x, v>>
  BY <1>1, <1>5 DEF Narrowed
<1> QED
  BY <1>4, <1>5, <1>6, <1>7 DEF At

\* The first lookups are 0, 1, 3, 7 and 15, as far as the greatest version reaches.
LEMMA LadderIsLong ==
  ASSUME NEW m \in 0 .. MaxVersion, m <= OwnerLimit, NEW s, NEW h, LadderBy(s, Unknown, m, h)
  PROVE  \/ m <= Len(s)
         \/ /\ m = 7 /\ Len(s) = 4
            /\ s[1] = 0 /\ s[2] = 1 /\ s[3] = 3 /\ s[4] = 7
<1>0. m \in Nat /\ m <= MaxVersion /\ m <= 8 /\ MaxVersion \in Nat /\ MaxVersion >= 1 /\ Len(s) \in Nat
  BY WidthAssumption DEF LadderBy, OwnerLimit
<1> DEFINE U == MaxVersion + 1
<1>u. Unbounded = U /\ U \in Int /\ Absent = -1
  BY <1>0 DEF Unbounded, Absent
<1>w. MaxVersion \in {1, 3, 7} \/ MaxVersion >= 15
  BY WidthAssumption
<1>1. At(s, h, 0, -1, U)
  BY <1>0, <1>u DEF At, LadderBy, Unknown
<1>2. 1 \in 1 .. Len(s) /\ s[1] = 0 /\ At(s, h, 1, 0, U)
  <2>1. 0 = NextLookup(<<-1, U>>)
    BY <1>u DEF NextLookup
  <2>2. U - (-1) > 1
    BY <1>0
  <2>3. 0 + 1 \in 1 .. Len(s) /\ s[0 + 1] = 0 /\ (0 <= m => At(s, h, 0 + 1, 0, U))
    BY <1>1, <1>u, <2>1, <2>2, LadderGoesOn
  <2> QED
    BY <1>0, <2>3
<1>3. m >= 1 \/ m <= Len(s)
  BY <1>0
<1>4. ASSUME m >= 0 PROVE 2 \in 1 .. Len(s) /\ s[2] = 1 /\ (m >= 1 => At(s, h, 2, 1, U))
  <2>1. 1 = NextLookup(<<0, U>>)
    BY <1>0, <1>u DEF NextLookup, Double
  <2>2. U - 0 > 1
    BY <1>0
  <2>3. 1 + 1 \in 1 .. Len(s) /\ s[1 + 1] = 1 /\ (1 <= m => At(s, h, 1 + 1, 1, U))
    BY <1>2, <1>u, <2>1, <2>2, LadderGoesOn
  <2> QED
    BY <1>0, <2>3
<1>5. ASSUME m >= 3 PROVE 3 \in 1 .. Len(s) /\ s[3] = 3 /\ At(s, h, 3, 3, U)
  <2>1. MaxVersion >= 3
    BY <1>0, <1>5
  <2>2. 3 = NextLookup(<<1, U>>)
    BY <1>0, <1>u, <2>1 DEF NextLookup, Double
  <2>3. U - 1 > 1 /\ At(s, h, 2, 1, U)
    BY <1>0, <1>4, <1>5, <2>1
  <2>4. 2 + 1 \in 1 .. Len(s) /\ s[2 + 1] = 3 /\ (3 <= m => At(s, h, 2 + 1, 3, U))
    BY <1>u, <2>2, <2>3, LadderGoesOn
  <2> QED
    BY <1>0, <1>5, <2>4
<1>6. ASSUME m >= 4 PROVE /\ 4 \in 1 .. Len(s) /\ s[4] = 7 /\ MaxVersion >= 7
                          /\ m < 7 => At(s, h, 4, 3, 7)
                          /\ m >= 7 => At(s, h, 4, 7, U)
  <2>1. MaxVersion >= 7
    BY <1>0, <1>w, <1>6
  <2>2. 7 = NextLookup(<<3, U>>)
    BY <1>0, <1>u, <2>1 DEF NextLookup, Double
  <2>3. U - 3 > 1 /\ At(s, h, 3, 3, U)
    BY <1>0, <1>5, <1>6, <2>1
  <2>4. /\ 3 + 1 \in 1 .. Len(s) /\ s[3 + 1] = 7
        /\ 7 <= m => At(s, h, 3 + 1, 7, U)
        /\ 7 > m => At(s, h, 3 + 1, 3, 7)
    BY <1>u, <2>2, <2>3, LadderGoesOn
  <2> QED
    BY <1>0, <1>6, <2>1, <2>4
<1>7. ASSUME m \in 5 .. 6 PROVE 6 \in 1 .. Len(s)
  <2>0. MaxVersion >= 7 /\ At(s, h, 4, 3, 7)
    BY <1>0, <1>6, <1>7
  <2>1. 5 = NextLookup(<<3, 7>>)
    BY <1>0, <1>u, <2>0 DEF NextLookup, Middle
  <2>2. 4 + 1 \in 1 .. Len(s) /\ (5 <= m => At(s, h, 4 + 1, 5, 7))
    BY <2>0, <2>1, LadderGoesOn
  <2>3. At(s, h, 5, 5, 7)
    BY <1>7, <2>2
  <2>4. 6 = NextLookup(<<5, 7>>)
    BY <1>0, <1>u, <2>0 DEF NextLookup, Middle
  <2>5. 5 + 1 \in 1 .. Len(s)
    BY <2>3, <2>4, LadderGoesOn
  <2> QED
    BY <2>5
<1>8. ASSUME m \in 7 .. 8, MaxVersion >= 15 PROVE 8 \in 1 .. Len(s)
  <2>0. At(s, h, 4, 7, U)
    BY <1>0, <1>6, <1>8
  <2>1. 15 = NextLookup(<<7, U>>) /\ U - 7 > 1
    BY <1>0, <1>u, <1>8 DEF NextLookup, Double
  <2>2. 15 > m => At(s, h, 4 + 1, 7, 15)
    BY <1>u, <2>0, <2>1, LadderGoesOn
  <2>3. At(s, h, 5, 7, 15)
    BY <1>8, <2>2
  <2>4. 11 = NextLookup(<<7, 15>>)
    BY <1>0, <1>u, <1>8 DEF NextLookup, Middle
  <2>5. 11 > m => At(s, h, 5 + 1, 7, 11)
    BY <2>3, <2>4, LadderGoesOn
  <2>6. At(s, h, 6, 7, 11)
    BY <1>8, <2>5
  <2>7. 9 = NextLookup(<<7, 11>>)
    BY <1>0, <1>u, <1>8 DEF NextLookup, Middle
  <2>8. 9 > m => At(s, h, 6 + 1, 7, 9)
    BY <2>6, <2>7, LadderGoesOn
  <2>9. At(s, h, 7, 7, 9)
    BY <1>8, <2>8
  <2>10. 8 = NextLookup(<<7, 9>>)
    BY <1>0, <1>u, <1>8 DEF NextLookup, Middle
  <2>11. 7 + 1 \in 1 .. Len(s)
    BY <2>9, <2>10, LadderGoesOn
  <2> QED
    BY <2>11
<1>9. CASE m <= 2
  BY <1>0, <1>4, <1>9
<1>10. CASE m \in 3 .. 4
  BY <1>0, <1>5, <1>6, <1>10
<1>11. CASE m \in 5 .. 6
  BY <1>0, <1>7, <1>11
<1>12. CASE m \in 7 .. 8 /\ MaxVersion >= 15
  BY <1>0, <1>8, <1>12
<1>13. CASE m \in 7 .. 8 /\ MaxVersion < 15
  <2>1. MaxVersion = 7 /\ m = 7
    BY <1>0, <1>w, <1>13
  <2>2. At(s, h, 4, 7, 8) /\ 4 \in 1 .. Len(s) /\ s[4] = 7 /\ s[3] = 3 /\ s[2] = 1
    BY <1>0, <1>4, <1>5, <1>6, <2>1
  <2>3. Met(h[4])
    BY <2>2 DEF Met, At
  <2>4. Len(s) = 4
    <3>1. ASSUME Len(s) # 4 PROVE FALSE
      <4>0. 4 \in 1 .. Len(s)
        BY <2>2
      <4>3. PICK N \in Nat : N = Len(s)
        BY <1>0
      <4>4. N >= 4 /\ N # 4
        BY <3>1, <4>0, <4>3
      <4>5. N >= 5
        BY <4>4
      <4>1. 5 \in 1 .. Len(s) /\ 5 - 1 = 4
        BY <4>3, <4>5
      <4>2. ~Met(h[5 - 1])
        BY <4>1 DEF LadderBy
      <4> QED
        BY <2>3, <4>1, <4>2
    <3> QED
      BY <3>1
  <2> QED
    BY <1>2, <2>1, <2>2, <2>4
<1> QED
  BY <1>0, <1>9, <1>10, <1>11, <1>12, <1>13

\* One of the candidates the owner tries decodes the results.
LEMMA CandidateFits ==
  ASSUME NEW m \in 0 .. MaxVersion, m <= OwnerLimit, NEW s, NEW h, LadderBy(s, Unknown, m, h),
         SubSeq(s, 1, Len(s)) = s, CutAt(s, m, m, Len(s))
  PROVE  /\ decode_search_ladder(Results(s, m), m) # BadLadder
         /\ \E c \in 0 .. Len(s) : decode_search_ladder(Results(s, m), c) # BadLadder
<1>0. m \in Int /\ Len(s) \in Nat /\ m >= 0
  BY WidthAssumption DEF LadderBy
<1>1. decode_search_ladder(Results(s, m), m) # BadLadder
  <2>1. Reads(s, m, m, Len(s))
    BY <1>0, CutIsRead
  <2> QED
    BY <2>1 DEF Reads
<1>2. CASE m <= Len(s)
  <2>1. m \in 0 .. Len(s)
    BY <1>0, <1>2
  <2> QED
    BY <1>1, <2>1
<1>3. CASE m = 7 /\ Len(s) = 4 /\ s[1] = 0 /\ s[2] = 1 /\ s[3] = 3 /\ s[4] = 7
  <2>1. \A k \in 1 .. 4 : k < 4 => ~Settles(s[k], 3, 7)
    <3> SUFFICES ASSUME NEW k \in 1 .. 4, k < 4 PROVE ~Settles(s[k], 3, 7)
      OBVIOUS
    <3>1. k = 1 \/ k = 2 \/ k = 3
      OBVIOUS
    <3>2. s[k] = 0 \/ s[k] = 1 \/ s[k] = 3
      BY <1>3, <3>1
    <3> QED
      BY <3>2 DEF Settles
  <2>2. CutAt(s, 3, m, Len(s))
    BY <1>3, <2>1 DEF CutAt
  <2>3. Reads(s, 3, m, Len(s))
    BY <2>2, CutIsRead
  <2>4. decode_search_ladder(Results(s, m), 3) # BadLadder
    BY <2>3 DEF Reads
  <2> QED
    BY <1>1, <1>3, <2>4
<1> QED
  BY <1>1, <1>2, <1>3, LadderIsLong

\* verify_owner_ladder recovers the greatest version from an honest full ladder by "trying
\* each candidate target": as long as the greatest version is among the candidates, which
\* are as many as the ladder has lookups.
LEMMA OwnerIsAnswered ==
  OwnerLadderDecodes
<1> SUFFICES ASSUME AreVersions, g <= OwnerLimit
             PROVE  verify_owner_ladder(Results(EntryLadder(g, g), g)) = g
  BY DEF OwnerLadderDecodes
<1>1. PICK m : m = g /\ m \in Absent .. MaxVersion /\ m <= OwnerLimit
  BY DEF AreVersions
<1>2. PICK r : r = Results(EntryLadder(m, m), m)
  OBVIOUS
<1>3. CASE m = Absent
  <2>0. 0 \in 0 .. MaxVersion /\ DOMAIN <<0>> = {1}
    BY WidthAssumption
  <2>1. EntryLadder(m, m) = <<0>> /\ r = Results(<<0>>, Absent)
    BY <1>2, <1>3 DEF EntryLadder
  <2>2. r = [i \in {1} |-> <<0>>[i] <= Absent]
    BY <2>0, <2>1 DEF Results
  <2>3. DOMAIN r = {1} /\ r \in Seq(BOOLEAN)
    <3>1. r = [i \in 1 .. 1 |-> <<0>>[i] <= Absent] /\ 1 .. 1 = {1}
      BY <2>2
    <3> QED
      BY <3>1
  <2>4. Len(r) = 1 /\ ~r[1]
    <3>1. r[1] = (<<0>>[1] <= Absent)
      BY <2>2
    <3>2. <<0>>[1] = 0
      OBVIOUS
    <3>3. ~(0 <= Absent)
      BY DEF Absent
    <3>4. Len(r) = 1
      BY <2>3
    <3> QED
      BY <3>1, <3>2, <3>3, <3>4
  <2>5. owner_ladder_greatest(r) = Absent
    BY <2>4 DEF owner_ladder_greatest
  <2>6. decode_search_ladder(r, 0) = <<[version |-> 0, inclusion |-> FALSE]>>
    BY <2>0, <2>1, AbsentIsRead
  <2>7. decode_search_ladder(r, 0) # BadLadder
    BY <2>6 DEF BadLadder
  <2>8. verify_owner_ladder(r) = Absent
    BY <2>5, <2>7 DEF verify_owner_ladder
  <2> QED
    BY <1>1, <1>2, <1>3, <2>8
<1>4. CASE m # Absent
  <2>0. m \in 0 .. MaxVersion /\ m \in Int
    BY <1>1, <1>4, WidthAssumption DEF Absent
  <2>1. PICK s, h : /\ LadderBy(s, Unknown, m, h) /\ EntryLadder(m, m) = s
                    /\ s \in Seq(0 .. MaxVersion) /\ Len(s) \in Nat /\ SubSeq(s, 1, Len(s)) = s
                    /\ CutAt(s, m, m, Len(s))
    BY <2>0, FullIsCut
  <2>2. Len(s) >= 1
    BY <2>0, <2>1, LadderHolds
  <2>3. r = Results(s, m) /\ Len(r) = Len(s) /\ OutcomesOf(r, s, m)
    BY <1>2, <2>0, <2>1, <2>2, ResultsAreOutcomes
  <2>4. /\ decode_search_ladder(r, m) # BadLadder
        /\ \E c \in 0 .. Len(r) : decode_search_ladder(r, c) # BadLadder
    BY <1>1, <2>0, <2>1, <2>3, CandidateFits
  <2>5. ~(Len(r) = 1 /\ ~r[1])
    <3>1. s[1] = NextLookup(Unknown)
      <4>1. 1 \in 1 .. Len(s) /\ 1 - 1 = 0
        BY <2>1, <2>2
      <4>2. s[1] = NextLookup(h[1 - 1])
        BY <2>1, <4>1 DEF LadderBy
      <4> QED
        BY <2>1, <4>1, <4>2 DEF LadderBy
    <3>2. s[1] = 0
      BY <3>1 DEF NextLookup, Unknown
    <3>3. 1 \in 1 .. Len(r)
      BY <2>1, <2>2, <2>3
    <3>4. r[1] = (s[1] <= m)
      BY <2>3, <3>3 DEF OutcomesOf
    <3>5. 0 <= m
      BY <2>0
    <3> QED
      BY <3>2, <3>4, <3>5
  <2>6. PICK fits : fits = {c \in 0 .. Len(r) : decode_search_ladder(r, c) # BadLadder}
    OBVIOUS
  <2>7. fits # {} /\ fits \in SUBSET Nat
    BY <2>1, <2>3, <2>4, <2>6
  <2>8. PICK first : first = CHOOSE c \in fits : \A k \in fits : c <= k
    OBVIOUS
  <2>9. first \in fits
    <3>1. PICK c \in fits : \A k \in Nat : k < c => k \notin fits
      BY <2>7, LeastElement
    <3>2. \A k \in fits : c <= k
      BY <2>7, <3>1
    <3> QED
      BY <2>8, <3>1, <3>2
  <2>10. first \in Int /\ decode_search_ladder(r, first) # BadLadder
    BY <2>6, <2>7, <2>9
  <2>11. decode_search_ladder(r, first) = LookedUp(s, m, Len(s))
    BY <2>0, <2>1, <2>3, <2>10, DecodedIsLadder
  <2>12. Greatest(Included(decode_search_ladder(r, first))) = m
    BY <2>0, <2>1, <2>11, GreatestIsRead
  <2>13. owner_ladder_greatest(r) = m
    BY <2>5, <2>6, <2>7, <2>8, <2>12 DEF owner_ladder_greatest
  <2>14. verify_owner_ladder(r) = m
    BY <1>4, <2>4, <2>13 DEF verify_owner_ladder
  <2> QED
    BY <1>1, <1>2, <2>14
<1> QED
  BY <1>3, <1>4

\* The ladders of log and client, for every u32::MAX, greatest version and target: what one
\* side derives from its data the other derives from its own.
THEOREM LaddersMatch ==
  LaddersAgree
<1> QED
  BY GreatestIsProved, OutcomesAreInverted, SearchIsSettled, CoveredByFullLadder, OwnerIsAnswered DEF LaddersAgree

-----------------------------------------------------------------------------
\* The blocks of a cut are nodes of the tree, and the last entry of each spans the block.
LEMMA CutBlocks ==
  ASSUME NEW N \in Nat, NEW b, NEW k, Cut(b, k, 0, N)
  PROVE  \A i \in 1 .. k :
           LET s == b[i] - b[i - 1]
           IN  /\ s \in Pow /\ s \in Nat \ {0} /\ s = msb[N - b[i - 1]]
               /\ b[i] <= N /\ N < b[i - 1] + 2 * s
               /\ Block(b[i - 1], s) /\ Block(b[i - 1], 2 * s)
               /\ b[i] - 1 \in Nat /\ span[b[i] - 1] = s
<1>1. k \in Nat /\ b \in [0 .. k -> Nat] /\ b[0] = 0 /\ b[k] = N
  BY DEF Cut
<1>2. \A i \in 1 .. k : i - 1 \in 0 .. k /\ i \in 0 .. k /\ b[i - 1] \in Nat /\ b[i] \in Nat
  BY <1>1
<1>3. \A i \in 1 .. k : b[i - 1] < N /\ b[i] = b[i - 1] + msb[N - b[i - 1]]
  BY DEF Cut
<1>4. ASSUME NEW i \in 1 .. k
      PROVE  \E s \in Pow : /\ s = b[i] - b[i - 1] /\ s \in Nat \ {0} /\ s = msb[N - b[i - 1]]
                            /\ b[i] <= N /\ N < b[i - 1] + 2 * s
  <2>1. PICK m \in Nat \ {0} : m = N - b[i - 1]
    BY <1>2, <1>3
  <2>2. PICK s \in Pow : s = msb[m] /\ s \in Nat \ {0} /\ s <= m /\ m < 2 * s
    BY <2>1, MsbIsPow
  <2> QED
    BY <1>2, <1>3, <2>1, <2>2
<1>5. ASSUME NEW lo \in Nat, NEW s \in Nat \ {0}, Block(lo, 2 * s)
      PROVE  Block(lo, s) /\ lo + s - 1 \in Nat /\ span[lo + s - 1] = s
  <2>1. PICK h \in Pow : h \in Nat \ {0} /\ 2 * s = 2 * h /\ Block(lo, h)
    BY <1>5, BlockHalves
  <2>2. PICK y \in Nat, z \in Nat : y = lo + s - 1 /\ z = Node(lo, 2 * s) /\ z % 2 # 0 /\ z \div 2 = y
    BY DEF Node
  <2>3. span[z] = 2 * span[y] /\ span[y] \in Nat
    BY <2>2, SpanDefined, SpanBounds
  <2>4. span[y] = s
    BY <1>5, <2>2, <2>3 DEF Block
  <2> QED
    BY <2>1, <2>2, <2>4
<1> DEFINE Wrong == {i \in Nat : i \in 1 .. k /\ ~Block(b[i - 1], 2 * (b[i] - b[i - 1]))}
<1>6. ASSUME Wrong # {} PROVE FALSE
  <2>1. PICK i \in Wrong : \A j \in Nat : j < i => j \notin Wrong
    <3>1. Wrong \in SUBSET Nat
      OBVIOUS
    <3> HIDE DEF Wrong
    <3> QED
      BY <1>6, <3>1, LeastElement
  <2>2. i \in 1 .. k /\ ~Block(b[i - 1], 2 * (b[i] - b[i - 1]))
    OBVIOUS
  <2>3. PICK s \in Pow : /\ s = b[i] - b[i - 1] /\ s \in Nat \ {0} /\ s = msb[N - b[i - 1]]
                         /\ b[i] <= N /\ N < b[i - 1] + 2 * s
    BY <1>4, <2>2
  <2>4. 2 * s \in Pow
    BY PowHalves
  <2>5. CASE i = 1
    BY <1>1, <2>2, <2>3, <2>4, <2>5, BlockOf, SMTT(30)
  <2>6. CASE i # 1
    <3>1. PICK j \in 1 .. k : j = i - 1
      BY <1>1, <2>2, <2>6
    <3>2. j \notin Wrong
      BY <1>1, <2>1, <2>2, <3>1
    <3> HIDE DEF Wrong
    <3>3. PICK q \in Pow : /\ q = b[j] - b[j - 1] /\ q \in Nat \ {0}
                           /\ b[j] <= N /\ N < b[j - 1] + 2 * q
      BY <1>4
    <3>4. Block(b[j - 1], 2 * q)
      BY <3>2, <3>3 DEF Wrong
    <3>5. Block(b[j - 1], q) /\ b[j - 1] + q = b[j]
      BY <1>2, <1>5, <3>3, <3>4
    <3>6. s < q
      <4>1. PICK u \in Nat, v \in Nat, w \in Nat : u = b[j - 1] /\ v = b[j] /\ w = b[i] /\ v = b[i - 1]
        BY <1>2, <2>2, <3>1
      <4> QED
        BY <2>3, <3>3, <4>1
    <3>7. 2 * s <= q
      BY <2>3, <3>3, <3>6, PowGap
    <3>8. Block(b[j], 2 * s)
      BY <2>4, <3>3, <3>5, <3>7, BlockNext
    <3> QED
      BY <2>2, <2>3, <3>1, <3>8
  <2> QED
    BY <2>5, <2>6
<1>7. \A i \in 1 .. k : Block(b[i - 1], 2 * (b[i] - b[i - 1]))
  BY <1>6
<1> HIDE DEF Wrong
<1> SUFFICES ASSUME NEW i \in 1 .. k
             PROVE  LET s == b[i] - b[i - 1]
                    IN  /\ s \in Pow /\ s \in Nat \ {0} /\ s = msb[N - b[i - 1]]
                        /\ b[i] <= N /\ N < b[i - 1] + 2 * s
                        /\ Block(b[i - 1], s) /\ Block(b[i - 1], 2 * s)
                        /\ b[i] - 1 \in Nat /\ span[b[i] - 1] = s
  OBVIOUS
<1>8. PICK s \in Pow : /\ s = b[i] - b[i - 1] /\ s \in Nat \ {0} /\ s = msb[N - b[i - 1]]
                       /\ b[i] <= N /\ N < b[i - 1] + 2 * s
  BY <1>4
<1>9. PICK lo \in Nat : lo = b[i - 1] /\ b[i] - 1 = lo + s - 1
  BY <1>2, <1>8
<1>10. Block(lo, 2 * s)
  BY <1>7, <1>8, <1>9
<1>11. Block(lo, s) /\ lo + s - 1 \in Nat /\ span[lo + s - 1] = s
  BY <1>5, <1>8, <1>10
<1> QED
  BY <1>8, <1>9, <1>10, <1>11

\* The right child of the last entry of one block of a cut is the last entry of the next.
LEMMA CutGoesRight ==
  ASSUME NEW N \in Nat, NEW b, NEW k, Cut(b, k, 0, N), NEW i \in 1 .. k, i # k
  PROVE  /\ b[i] - 1 \in 0 .. N - 1 /\ b[i] - 1 # N - 1
         /\ ibst_right_child(b[i] - 1, N) = b[i + 1] - 1
<1>1. k \in Nat /\ b \in [0 .. k -> Nat] /\ i + 1 \in 1 .. k /\ (i + 1) - 1 = i
  BY DEF Cut
<1>2. b[i] < N /\ b[i] \in Nat /\ b[i - 1] \in Nat /\ b[i + 1] = b[i] + msb[N - b[i]]
  BY <1>1, SMTT(30) DEF Cut
<1>3. PICK s \in Nat \ {0} : /\ s = b[i] - b[i - 1] /\ N < b[i - 1] + 2 * s
                             /\ b[i] - 1 \in Nat /\ span[b[i] - 1] = s
  BY CutBlocks
<1>4. PICK x \in 0 .. N - 1 : x = b[i] - 1 /\ x # N - 1 /\ span[x] = s /\ x + span[x] >= N
  BY <1>2, <1>3
<1>5. PICK r \in x + 1 .. N - 1 : r = ibst_right_child(x, N) /\ r + span[r] >= N
  BY <1>2, <1>4, RightChildReaches
<1>6. r - span[r] = x
  BY <1>4, <1>5, RightChildStarts DEF None
<1>7. PICK q \in Pow : q = span[r] /\ q \in Nat \ {0}
  BY <1>5, PowSpans, SpanBounds
<1>8. PICK m \in Nat : m = N - b[i] /\ q <= m /\ m < 2 * q
  BY <1>2, <1>4, <1>5, <1>6, <1>7
<1>9. msb[m] = q
  BY <1>7, <1>8, MsbIsOnly
<1>10. r = b[i + 1] - 1
  BY <1>2, <1>4, <1>6, <1>7, <1>8, <1>9
<1> QED
  BY <1>4, <1>5, <1>10

\* The frontier ends the blocks that get_roots lists.
LEMMA FrontierOfCut ==
  ASSUME NEW N \in Nat \ {0}, NEW b, NEW k, Cut(b, k, 0, N)
  PROVE  get_frontier(N) = [i \in 1 .. k |-> b[i] - 1]
<1>1. k \in Nat /\ b \in [0 .. k -> Nat] /\ b[0] = 0 /\ b[k] = N
  BY DEF Cut
<1>2. k # 0
  BY <1>1
<1> DEFINE Is(f) == f = [x \in 0 .. N - 1 |-> Onward(N, x, f)]
           d == CHOOSE f : Is(f)
           Rest(j) == [i \in 1 .. (k - j) + 1 |-> b[(j + i) - 1] - 1]
           Wrong == {j \in Nat : j < k /\ d[b[k - j] - 1] # Rest(k - j)}
<1>3. \E f : Is(f)
  BY SpineDefined
<1>4. Is(d)
  BY <1>3
<1>5. get_frontier(N) = d[root(N)]
  BY DEF get_frontier, Onward
<1>6. \A x \in 0 .. N - 1 : d[x] = Onward(N, x, d)
  BY <1>4
<1> HIDE DEF d, Is
<1>7. ASSUME Wrong # {} PROVE FALSE
  <2>1. PICK j \in Wrong : \A l \in Nat : l < j => l \notin Wrong
    <3>1. Wrong \in SUBSET Nat
      OBVIOUS
    <3> HIDE DEF Wrong
    <3> QED
      BY <1>7, <3>1, LeastElement
  <2>2. j \in Nat /\ j < k /\ d[b[k - j] - 1] # Rest(k - j)
    OBVIOUS
  <2>3. \A l \in Nat : l < j /\ l < k => d[b[k - l] - 1] = Rest(k - l)
    BY <2>1
  <2> HIDE DEF Wrong
  <2>4. PICK i \in 1 .. k : i = k - j /\ k - (k - j) = j
    BY <1>1, <2>2
  <2>5. CASE i = k
    <3>1. N - 1 \in 0 .. N - 1
      OBVIOUS
    <3>2. d[N - 1] = <<N - 1>>
      BY <1>6, <3>1 DEF Onward
    <3>3. Rest(i) = [l \in 1 .. 1 |-> N - 1]
      <4>1. (k - i) + 1 = 1 /\ \A l \in 1 .. 1 : b[(i + l) - 1] = N
        BY <1>1, <2>5
      <4> QED
        BY <4>1
    <3>4. [l \in 1 .. 1 |-> N - 1] = <<N - 1>>
      OBVIOUS
    <3>5. b[i] - 1 = N - 1
      BY <1>1, <2>5
    <3> QED
      BY <2>2, <2>4, <3>2, <3>3, <3>4, <3>5
  <2>6. CASE i # k
    <3>1. PICK x \in 0 .. N - 1 : x = b[i] - 1 /\ x # N - 1 /\ ibst_right_child(x, N) = b[i + 1] - 1
      BY <2>6, CutGoesRight
    <3>2. i + 1 \in 1 .. k /\ i + 1 = k - (j - 1) /\ j - 1 \in Nat /\ j - 1 < j /\ j - 1 < k
      BY <1>1, <2>2, <2>4, <2>6
    <3>3. d[b[i + 1] - 1] = Rest(i + 1)
      BY <2>3, <3>2
    <3>4. b[i + 1] - 1 # None
      <4>1. b[i + 1] - 1 \in Nat
        BY <3>2, CutBlocks
      <4> QED
        BY <4>1 DEF None
    <3>5. d[x] = <<x>> \o Rest(i + 1)
      BY <1>6, <3>1, <3>3, <3>4 DEF Onward
    <3>6. PICK M \in Nat : M = (k - (i + 1)) + 1 /\ M + 1 = (k - i) + 1
      BY <1>1, <3>2
    <3>7. \A l \in 1 .. M : b[((i + 1) + l) - 1] - 1 \in Nat
      <4> TAKE l \in 1 .. M
      <4>1. ((i + 1) + l) - 1 \in 1 .. k
        BY <1>1, <3>6
      <4> QED
        BY <4>1, CutBlocks
    <3>8. PICK w \in Seq(Nat) : w = Rest(i + 1) /\ Len(w) = M /\ \A l \in 1 .. M : w[l] = b[((i + 1) + l) - 1] - 1
      <4>1. PICK w : w = [l \in 1 .. M |-> b[((i + 1) + l) - 1] - 1]
        OBVIOUS
      <4> QED
        BY <3>6, <3>7, <4>1, SMTT(30)
    <3>9. PICK u \in Seq(Nat) : u = <<x>> /\ Len(u) = 1 /\ u[1] = x
      <4>1. PICK y \in Nat : y = x
        OBVIOUS
      <4>2. <<y>> \in Seq(Nat) /\ Len(<<y>>) = 1 /\ <<y>>[1] = y
        OBVIOUS
      <4> QED
        BY <4>1, <4>2, Zenon
    <3>10. PICK q : q = u \o w
      OBVIOUS
    <3>11. /\ q \in Seq(Nat) /\ Len(q) = M + 1
           /\ \A l \in 1 .. M + 1 : q[l] = IF l <= 1 THEN x ELSE w[l - 1]
      <4>1. /\ u \o w \in Seq(Nat) /\ Len(u \o w) = Len(u) + Len(w)
            /\ \A l \in 1 .. Len(u) + Len(w) : (u \o w)[l] = IF l <= Len(u) THEN u[l] ELSE w[l - Len(u)]
        BY ConcatProperties
      <4>5. Len(u) = 1 /\ Len(w) = M
        BY <3>8, <3>9, Zenon
      <4>6. 1 + M = M + 1
        OBVIOUS
      <4>2. Len(u) = 1 /\ Len(w) = M /\ 1 + M = M + 1
        BY <4>5, <4>6, Zenon
      <4>3. \A l \in 1 .. M + 1 : l <= 1 => l = 1
        OBVIOUS
      <4>4. \A l \in 1 .. M + 1 : q[l] = IF l <= 1 THEN u[l] ELSE w[l - 1]
        BY <3>10, <4>1, <4>2
      <4> QED
        BY <3>9, <3>10, <4>1, <4>2, <4>3, <4>4
    <3>12. \A l \in 1 .. M + 1 : q[l] = b[(i + l) - 1] - 1
      <4> TAKE l \in 1 .. M + 1
      <4>1. CASE l = 1
        BY <3>1, <3>11, <4>1
      <4>2. CASE l # 1
        <5>1. l - 1 \in 1 .. M /\ ((i + 1) + (l - 1)) - 1 = (i + l) - 1
          BY <4>2
        <5>2. q[l] = w[l - 1]
          BY <3>11, <4>2, SMTT(30)
        <5> QED
          BY <3>8, <5>1, <5>2
      <4> QED
        BY <4>1, <4>2
    <3>13. q = Rest(i)
      BY <3>6, <3>11, <3>12
    <3> QED
      BY <2>2, <2>4, <3>1, <3>5, <3>8, <3>9, <3>10, <3>13
  <2> QED
    BY <2>5, <2>6
<1>8. d[b[1] - 1] = Rest(1)
  <2>1. k - 1 \in Nat /\ k - 1 < k /\ k - (k - 1) = 1
    BY <1>1, <1>2
  <2> QED
    BY <1>7, <2>1
<1>9. root(N) = b[1] - 1
  <2>1. 1 \in 1 .. k /\ b[1] = b[0] + msb[N - b[0]] /\ N - 0 = N /\ msb[N] \in Nat
    BY <1>1, <1>2, MsbIsPow DEF Cut
  <2> QED
    BY <1>1, <2>1 DEF root
<1>10. Rest(1) = [i \in 1 .. k |-> b[i] - 1]
  <2>1. (k - 1) + 1 = k /\ \A i \in 1 .. k : (1 + i) - 1 = i
    BY <1>1
  <2> QED
    BY <2>1
<1> QED
  BY <1>5, <1>8, <1>9, <1>10

\* FrontierEndsPeaks for every size.
LEMMA FrontierEndsAll ==
  ASSUME n \in Nat
  PROVE  FrontierEndsPeaks
<1> SUFFICES ASSUME n > 0
             PROVE  get_frontier(n) =
                      [i \in DOMAIN get_roots(n) |->
                         leftmost_leaf_index[get_roots(n)[i]] + span[get_roots(n)[i]] - 1]
  BY DEF FrontierEndsPeaks
<1>1. PICK P \in Seq(Nat) : P = get_roots(n)
  BY RootsAreCut
<1>2. PICK k \in Nat : k = Len(P) /\ DOMAIN P = 1 .. k
  OBVIOUS
<1>3. PICK b : Cut(b, k, 0, n) /\ \A i \in 1 .. k : P[i] = Node(b[i - 1], b[i] - b[i - 1])
  <2>1. \E b : /\ Cut(b, Len(get_roots(n)), 0, n)
               /\ \A i \in 1 .. Len(get_roots(n)) : get_roots(n)[i] = Node(b[i - 1], b[i] - b[i - 1])
    BY RootsAreCut, Zenon
  <2> QED
    BY <1>1, <1>2, <2>1, Zenon
<1>4. n \in Nat \ {0} /\ get_frontier(n) = [i \in 1 .. k |-> b[i] - 1]
  BY <1>3, FrontierOfCut
<1>5. ASSUME NEW i \in 1 .. k PROVE leftmost_leaf_index[P[i]] + span[P[i]] - 1 = b[i] - 1
  <2>1. PICK lo, s : lo = b[i - 1] /\ s = b[i] - b[i - 1] /\ Block(lo, s) /\ P[i] = Node(lo, s)
    BY <1>3, CutBlocks
  <2>2. b[i] \in Nat /\ lo \in Nat /\ lo + s = b[i]
    BY <2>1, <1>3 DEF Cut
  <2>3. span[P[i]] = s /\ leftmost_leaf_index[P[i]] = lo
    BY <2>1, LeftmostOf DEF Block
  <2> QED
    BY <2>1, <2>2, <2>3, SMTT(30)
<1> QED
  BY <1>1, <1>2, <1>4, <1>5

\* PeaksStayValid for every size.
LEMMA PeaksCoverAll ==
  ASSUME t \in Nat
  PROVE  PeaksStayValid
<1>0. PICK N \in Nat : N = t + 1
  OBVIOUS
<1>1. PICK P \in Seq(Nat) : P = get_roots(N)
  BY RootsAreCut
<1>2. PICK k \in Nat : k = Len(P) /\ DOMAIN P = 1 .. k
  OBVIOUS
<1>3. PICK b : Cut(b, k, 0, N) /\ \A i \in 1 .. k : P[i] = Node(b[i - 1], b[i] - b[i - 1])
  <2>1. \E b : /\ Cut(b, Len(get_roots(N)), 0, N)
               /\ \A i \in 1 .. Len(get_roots(N)) : get_roots(N)[i] = Node(b[i - 1], b[i] - b[i - 1])
    BY RootsAreCut, Zenon
  <2> QED
    BY <1>1, <1>2, <2>1, Zenon
<1>4. b \in [0 .. k -> Nat] /\ b[0] = 0 /\ b[k] = N
  BY <1>3 DEF Cut
<1> DEFINE leaves(r) == leftmost_leaf_index[r] .. leftmost_leaf_index[r] + span[r] - 1
<1>5. ASSUME NEW i \in 1 .. k
      PROVE  leaves(P[i]) = b[i - 1] .. b[i] - 1 /\ b[i] <= N
  <2>1. PICK lo, s : /\ lo = b[i - 1] /\ s = b[i] - b[i - 1] /\ Block(lo, s) /\ P[i] = Node(lo, s)
                     /\ b[i] <= N
    BY <1>3, CutBlocks, SMTT(30)
  <2>2. b[i] \in Nat /\ lo \in Nat /\ lo + s = b[i]
    BY <2>1, <1>4
  <2>3. span[P[i]] = s /\ leftmost_leaf_index[P[i]] = lo
    BY <2>1, LeftmostOf DEF Block
  <2> QED
    BY <2>1, <2>2, <2>3
<1>6. ASSUME NEW v \in 0 .. t PROVE \E i \in 1 .. k : v \in b[i - 1] .. b[i] - 1
  <2> DEFINE Ends == {j \in Nat : j <= k /\ v < b[j]}
  <2>1. Ends \in SUBSET Nat /\ k \in Ends
    BY <1>0, <1>4
  <2>2. PICK j \in Ends : \A l \in Nat : l < j => l \notin Ends
    <3> HIDE DEF Ends
    <3> QED
      BY <2>1, LeastElement
  <2>3. j \in Nat /\ j <= k /\ v < b[j] /\ j # 0
    BY <1>4
  <2>4. j - 1 \in Nat /\ j - 1 < j /\ j - 1 <= k /\ j \in 1 .. k /\ j - 1 \in 0 .. k /\ j \in 0 .. k
    BY <2>3
  <2>5. ~(v < b[j - 1])
    BY <2>2, <2>4
  <2> QED
    BY <1>4, <2>3, <2>4, <2>5
<1>7. UNION {leaves(P[i]) : i \in 1 .. k} = 0 .. t
  <2>1. ASSUME NEW i \in 1 .. k, NEW v \in leaves(P[i]) PROVE v \in 0 .. t
    <3>1. b[i - 1] \in Nat /\ b[i] \in Nat
      BY <1>4
    <3> HIDE DEF leaves
    <3> QED
      BY <1>0, <1>5, <3>1, SMTT(30)
  <2>2. ASSUME NEW v \in 0 .. t PROVE \E i \in 1 .. k : v \in leaves(P[i])
    BY <1>5, <1>6
  <2> HIDE DEF leaves
  <2> QED
    BY <2>1, <2>2, Zenon
<1>8. UNION {leaves(get_roots(t + 1)[i]) : i \in DOMAIN get_roots(t + 1)} = 0 .. t
  <2> HIDE DEF leaves
  <2> QED
    BY <1>0, <1>1, <1>2, <1>7, SMTT(30)
<1> QED
  BY <1>8, Zenon DEF PeaksStayValid

\* One step of a recursion over the Merkle tree of N entries: leaf at the leaves, join of what
\* the two children yield above them.
OverTree(N, leaf, join, x, f) ==
  IF is_leaf(x) THEN leaf[x] ELSE join[<<x, f[left_child(x)], f[right_child(x, N)]>>]

\* Such a recursion ends: the children span less.
LEMMA OverTreeDefined ==
  ASSUME NEW N \in Nat, NEW V, NEW leaf \in [Nat -> V], NEW join \in [Nat \X V \X V -> V]
  PROVE  \E f \in [Nat -> V] : \A x \in Nat : f[x] = OverTree(N, leaf, join, x, f)
<1>1. \A x \in Nat : ~is_leaf(x) => /\ left_child(x) \in Nat /\ right_child(x, N) \in Nat
                                    /\ span[left_child(x)] < span[x]
                                    /\ span[right_child(x, N)] < span[x]
  BY ChildrenAreSmaller
<1> DEFINE F == [a \in [Nat -> V] \X Nat |-> OverTree(N, leaf, join, a[2], a[1])]
<1>2. \A f \in [Nat -> V], x \in Nat : OverTree(N, leaf, join, x, f) \in V
  <2> TAKE f \in [Nat -> V], x \in Nat
  <2>1. CASE is_leaf(x)
    BY <2>1 DEF OverTree
  <2>2. CASE ~is_leaf(x)
    <3>1. f[left_child(x)] \in V /\ f[right_child(x, N)] \in V
      BY <1>1, <2>2
    <3>2. PICK p : p = <<x, f[left_child(x)], f[right_child(x, N)]>>
      OBVIOUS
    <3>3. p \in Nat \X V \X V
      BY <3>1, <3>2
    <3>4. join[p] \in V
      BY <3>3
    <3> QED
      BY <2>2, <3>2, <3>4 DEF OverTree
  <2> QED
    BY <2>1, <2>2
<1>3. \A f \in [Nat -> V], x \in Nat : F[<<f, x>>] = OverTree(N, leaf, join, x, f)
  OBVIOUS
<1>4. F \in [[Nat -> V] \X Nat -> V]
  <2>1. \A a \in [Nat -> V] \X Nat : OverTree(N, leaf, join, a[2], a[1]) \in V
    BY <1>2
  <2> QED
    BY <2>1
<1> HIDE DEF F
<1>5. ASSUME NEW f \in [Nat -> V], NEW h \in [Nat -> V], NEW x \in Nat,
             \A y \in Nat : span[y] < span[x] => f[y] = h[y]
      PROVE  F[<<f, x>>] = F[<<h, x>>]
  <2>1. OverTree(N, leaf, join, x, f) = OverTree(N, leaf, join, x, h)
    <3>1. CASE is_leaf(x)
      BY <3>1 DEF OverTree
    <3>2. CASE ~is_leaf(x)
      <4>1. f[left_child(x)] = h[left_child(x)] /\ f[right_child(x, N)] = h[right_child(x, N)]
        BY <1>1, <1>5, <3>2
      <4> QED
        BY <4>1 DEF OverTree
    <3> QED
      BY <3>1, <3>2
  <2> QED
    BY <1>3, <2>1
<1>6. PICK mu : mu = [x \in Nat |-> span[x]]
  OBVIOUS
<1>7. mu \in [Nat -> Nat] /\ \A x \in Nat : mu[x] = span[x]
  BY <1>6, SpanBounds
<1>8. Measured(F, Nat, V, mu)
  <2>1. \A f, h \in [Nat -> V], x \in Nat :
          (\A y \in Nat : mu[y] < mu[x] => f[y] = h[y]) => F[<<f, x>>] = F[<<h, x>>]
    BY <1>5, <1>7
  <2> QED
    BY <1>4, <1>7, <2>1, Zenon DEF Measured
<1>9. PICK f \in [Nat -> V] : \A x \in Nat : f[x] = F[<<f, x>>]
  <2>1. PICK v : v \in V
    BY SMT
  <2>2. \E f \in [Nat -> V] : Solves(f, F, Nat)
    BY <1>8, <2>1, MeasuredSolution
  <2> QED
    BY <2>2 DEF Solves
<1> QED
  BY <1>3, <1>9

\* The entries from lo up to hi, in order.
Entries(lo, hi) == [i \in 1 .. hi - lo |-> lo + i - 1]

\* The entries of the two halves of a range are those of the range.
LEMMA EntriesJoin ==
  ASSUME NEW x \in Nat, NEW y \in Nat, NEW z \in Nat, x <= y, y <= z
  PROVE  /\ Entries(x, z) \in Seq(Nat) /\ ToSet(Entries(x, z)) = x .. z - 1
         /\ Entries(x, y) \o Entries(y, z) = Entries(x, z)
<1>1. ASSUME NEW a \in Nat, NEW b \in Nat, a <= b
      PROVE  \E k \in Nat : /\ k = b - a /\ Entries(a, b) \in Seq(Nat) /\ Len(Entries(a, b)) = k
                            /\ \A i \in 1 .. k : Entries(a, b)[i] = a + i - 1
  <2>1. PICK k \in Nat : k = b - a
    BY <1>1
  <2>2. \A i \in 1 .. k : a + i - 1 \in Nat
    OBVIOUS
  <2>3. PICK s : s = [i \in 1 .. k |-> a + i - 1]
    OBVIOUS
  <2>4. s \in Seq(Nat) /\ Len(s) = k /\ \A i \in 1 .. k : s[i] = a + i - 1
    BY <2>2, <2>3
  <2>5. s = Entries(a, b)
    BY <2>1, <2>3 DEF Entries
  <2> QED
    BY <2>1, <2>4, <2>5
<1>2. PICK k \in Nat : /\ k = z - x /\ Entries(x, z) \in Seq(Nat) /\ Len(Entries(x, z)) = k
                       /\ \A i \in 1 .. k : Entries(x, z)[i] = x + i - 1
  <2>1. x <= z
    OBVIOUS
  <2> QED
    BY <1>1, <2>1
<1>3. ToSet(Entries(x, z)) = x .. z - 1
  <2>1. DOMAIN Entries(x, z) = 1 .. k
    BY <1>2
  <2>2. \A i \in 1 .. k : Entries(x, z)[i] \in x .. z - 1
    BY <1>2
  <2>3. \A v \in x .. z - 1 : v - x + 1 \in 1 .. k /\ Entries(x, z)[v - x + 1] = v
    <3> TAKE v \in x .. z - 1
    <3>1. v - x + 1 \in 1 .. k /\ x + (v - x + 1) - 1 = v
      BY <1>2
    <3> QED
      BY <1>2, <3>1
  <2> QED
    BY <2>1, <2>2, <2>3 DEF ToSet
<1>4. PICK u \in Seq(Nat), k1 \in Nat : /\ u = Entries(x, y) /\ k1 = y - x /\ Len(u) = k1
                                      /\ \A i \in 1 .. k1 : u[i] = x + i - 1
  BY <1>1
<1>5. PICK w \in Seq(Nat), k2 \in Nat : /\ w = Entries(y, z) /\ k2 = z - y /\ Len(w) = k2
                                      /\ \A i \in 1 .. k2 : w[i] = y + i - 1
  BY <1>1
<1>6. PICK q : q = u \o w
  OBVIOUS
<1>7. k = k1 + k2
  BY <1>2, <1>4, <1>5
<1>8. /\ q \in Seq(Nat) /\ Len(q) = k1 + k2
      /\ \A i \in 1 .. k1 + k2 : q[i] = IF i <= k1 THEN u[i] ELSE w[i - k1]
  <2>1. /\ u \o w \in Seq(Nat) /\ Len(u \o w) = Len(u) + Len(w)
        /\ \A i \in 1 .. Len(u) + Len(w) : (u \o w)[i] = IF i <= Len(u) THEN u[i] ELSE w[i - Len(u)]
    BY <1>4, <1>5, ConcatProperties, SMTT(30)
  <2> QED
    BY <1>4, <1>5, <1>6, <2>1
<1>9. \A i \in 1 .. k : q[i] = x + i - 1
  <2> TAKE i \in 1 .. k
  <2>1. CASE i <= k1
    BY <1>4, <1>7, <1>8, <2>1
  <2>2. CASE ~(i <= k1)
    <3>1. i - k1 \in 1 .. k2 /\ y + (i - k1) - 1 = x + i - 1
      BY <1>4, <1>7, <2>2
    <3>2. q[i] = w[i - k1]
      BY <1>7, <1>8, <2>2
    <3> QED
      BY <1>5, <3>1, <3>2
  <2> QED
    BY <2>1, <2>2
<1>10. q = Entries(x, z)
  <2>1. q \in Seq(Nat) /\ Entries(x, z) \in Seq(Nat) /\ Len(q) = Len(Entries(x, z))
    BY <1>2, <1>7, <1>8
  <2>2. \A i \in 1 .. Len(q) : q[i] = Entries(x, z)[i]
    BY <1>2, <1>7, <1>8, <1>9
  <2> QED
    BY <2>1, <2>2, SeqEqual
<1> QED
  BY <1>2, <1>3, <1>4, <1>5, <1>6, <1>10

\* Where a node over the s entries from lo ends in a log of N.
EndOf(lo, s, N) == IF lo + s <= N THEN lo + s ELSE N

\* The nodes of the Merkle tree of N entries: two halves, or the left one alone.
LEMMA NodeHalves ==
  ASSUME NEW N \in Nat, NEW lo, NEW s, Block(lo, s), lo < N
  PROVE  /\ lo \in Nat /\ s \in Nat \ {0} /\ Node(lo, s) \in Nat /\ EndOf(lo, s, N) \in lo + 1 .. N
         /\ is_leaf(Node(lo, s)) <=> s = 1
         /\ s # 1 =>
              \E h \in Nat \ {0} :
                /\ s = 2 * h /\ Block(lo, h) /\ left_child(Node(lo, s)) = Node(lo, h)
                /\ Node(lo + h, h) # Node(lo, h)
                /\ lo + h < N => /\ Block(lo + h, h) /\ right_child(Node(lo, s), N) = Node(lo + h, h)
                                 /\ EndOf(lo, h, N) = lo + h /\ EndOf(lo + h, h, N) = EndOf(lo, s, N)
                /\ ~(lo + h < N) => /\ right_child(Node(lo, s), N) = Node(lo, h)
                                    /\ EndOf(lo, h, N) = EndOf(lo, s, N)
<1>1. lo \in Nat /\ s \in Nat \ {0}
  BY DEF Block
<1>2. Node(lo, s) \in Nat /\ EndOf(lo, s, N) \in lo + 1 .. N
  BY <1>1 DEF Node, EndOf
<1>3. is_leaf(Node(lo, s)) <=> s = 1
  BY BlockHalves
<1>4. ASSUME s # 1
      PROVE \E h \in Nat \ {0} :
                /\ s = 2 * h /\ Block(lo, h) /\ left_child(Node(lo, s)) = Node(lo, h)
                /\ Node(lo + h, h) # Node(lo, h)
                /\ lo + h < N => /\ Block(lo + h, h) /\ right_child(Node(lo, s), N) = Node(lo + h, h)
                                 /\ EndOf(lo, h, N) = lo + h /\ EndOf(lo + h, h, N) = EndOf(lo, s, N)
                /\ ~(lo + h < N) => /\ right_child(Node(lo, s), N) = Node(lo, h)
                                    /\ EndOf(lo, h, N) = EndOf(lo, s, N)
  <2>1. PICK h \in Pow : /\ h \in Nat \ {0} /\ s = 2 * h
                         /\ Block(lo, h) /\ left_child(Node(lo, s)) = Node(lo, h)
                         /\ Block(lo + h, h)
    BY <1>4, BlockHalves
  <2>2. right_child(Node(lo, s), N) = IF lo + h < N THEN Node(lo + h, h) ELSE Node(lo, h)
    BY <2>1, RightChildOf
  <2>3. Node(lo + h, h) # Node(lo, h)
    BY <1>1, <2>1 DEF Node
  <2>4. lo + h < N => EndOf(lo, h, N) = lo + h /\ EndOf(lo + h, h, N) = EndOf(lo, s, N)
    BY <1>1, <2>1 DEF EndOf
  <2>5. ~(lo + h < N) => EndOf(lo, h, N) = EndOf(lo, s, N)
    BY <1>1, <2>1 DEF EndOf
  <2> QED
    BY <2>1, <2>2, <2>3, <2>4, <2>5
<1> QED
  BY <1>1, <1>2, <1>3, <1>4

\* The recursion of resolve_node from a node meets its entries.
LEMMA LeavesAre ==
  ASSUME NEW N \in Nat, NEW lo, NEW s, Block(lo, s), lo < N
  PROVE  LeavesUnder(Node(lo, s), N) = Entries(lo, EndOf(lo, s, N))
<1> DEFINE Is(f) == f = [x \in Nat |->
                           IF is_leaf(x) THEN <<x \div 2>>
                           ELSE f[left_child(x)]
                                \o (IF left_child(x) = right_child(x, N) THEN <<>> ELSE f[right_child(x, N)])]
           c == CHOOSE f : Is(f)
<1>1. LeavesUnder(Node(lo, s), N) = c[Node(lo, s)]
  BY DEF LeavesUnder
<1>2. \E f : Is(f)
  <2>1. PICK V : V = Seq(Nat)
    OBVIOUS
  <2>2. PICK leaf : leaf = [x \in Nat |-> IF x % 2 = 0 THEN <<x \div 2>> ELSE <<>>]
    OBVIOUS
  <2>3. PICK join : join = [p \in Nat \X V \X V |->
                              p[2] \o (IF left_child(p[1]) = right_child(p[1], N) THEN <<>> ELSE p[3])]
    OBVIOUS
  <2>4. leaf \in [Nat -> V]
    <3>1. \A x \in Nat : (IF x % 2 = 0 THEN <<x \div 2>> ELSE <<>>) \in V
      BY <2>1
    <3> QED
      BY <2>2, <3>1
  <2>5. join \in [Nat \X V \X V -> V]
    <3>1. ASSUME NEW p \in Nat \X V \X V
          PROVE (p[2] \o (IF left_child(p[1]) = right_child(p[1], N) THEN <<>> ELSE p[3])) \in V
      <4>1. PICK a, b : a = p[2] /\ b = (IF left_child(p[1]) = right_child(p[1], N) THEN <<>> ELSE p[3])
        OBVIOUS
      <4>2. a \in Seq(Nat) /\ b \in Seq(Nat)
        BY <2>1, <4>1
      <4>3. a \o b \in Seq(Nat)
        BY <4>2, ConcatProperties
      <4> QED
        BY <2>1, <4>1, <4>3
    <3> QED
      BY <2>3, <3>1
  <2>6. PICK f \in [Nat -> V] : \A x \in Nat : f[x] = OverTree(N, leaf, join, x, f)
    BY <2>4, <2>5, OverTreeDefined
  <2>7. ASSUME NEW x \in Nat
        PROVE  f[x] = IF is_leaf(x) THEN <<x \div 2>>
                      ELSE f[left_child(x)]
                           \o (IF left_child(x) = right_child(x, N) THEN <<>> ELSE f[right_child(x, N)])
    <3>1. CASE is_leaf(x)
      <4>1. f[x] = leaf[x] /\ leaf[x] = <<x \div 2>>
        BY <2>2, <2>6, <3>1 DEF OverTree, is_leaf
      <4> QED
        BY <3>1, <4>1
    <3>2. CASE ~is_leaf(x)
      <4>1. left_child(x) \in Nat /\ right_child(x, N) \in Nat
        BY <3>2, ChildrenAreSmaller
      <4>2. PICK p : p = <<x, f[left_child(x)], f[right_child(x, N)]>>
        OBVIOUS
      <4>3. p \in Nat \X V \X V /\ p[1] = x /\ p[2] = f[left_child(x)] /\ p[3] = f[right_child(x, N)]
        BY <4>1, <4>2
      <4>4. f[x] = join[p]
        BY <2>6, <3>2, <4>2 DEF OverTree
      <4>5. join[p] = p[2] \o (IF left_child(p[1]) = right_child(p[1], N) THEN <<>> ELSE p[3])
        BY <2>3, <4>3, Zenon
      <4> QED
        BY <3>2, <4>3, <4>4, <4>5, Zenon
    <3> QED
      BY <3>1, <3>2
  <2>8. Is(f)
    BY <2>7
  <2> QED
    BY <2>8
<1>3. Is(c)
  BY <1>2
<1>4. \A x \in Nat : c[x] = IF is_leaf(x) THEN <<x \div 2>>
                            ELSE c[left_child(x)]
                                 \o (IF left_child(x) = right_child(x, N) THEN <<>> ELSE c[right_child(x, N)])
  BY <1>3
<1> HIDE DEF c, Is
<1> DEFINE Right(d) == \A l : Block(l, d) /\ l < N => c[Node(l, d)] = Entries(l, EndOf(l, d, N))
           Wrong == {d \in Nat : ~Right(d)}
<1>5. ASSUME Wrong # {} PROVE FALSE
  <2>1. PICK d \in Wrong : \A y \in Nat : y < d => y \notin Wrong
    <3>1. Wrong \in SUBSET Nat
      OBVIOUS
    <3> HIDE DEF Wrong
    <3> QED
      BY <1>5, <3>1, LeastElement
  <2>2. d \in Nat /\ ~Right(d) /\ \A y \in Nat : y < d => Right(y)
    BY <2>1
  <2>3. PICK l : Block(l, d) /\ l < N /\ c[Node(l, d)] # Entries(l, EndOf(l, d, N))
    BY <2>2
  <2>4. \A y \in Nat, k \in Nat : y < d /\ Block(k, y) /\ k < N => c[Node(k, y)] = Entries(k, EndOf(k, y, N))
    BY <2>2
  <2> HIDE DEF Wrong, Right
  <2>5. PICK x \in Nat : x = Node(l, d)
    BY <2>3, NodeHalves
  <2>6. l \in Nat /\ d \in Nat \ {0} /\ EndOf(l, d, N) \in l + 1 .. N /\ (is_leaf(x) <=> d = 1)
    BY <2>3, <2>5, NodeHalves
  <2>7. CASE d = 1
    <3>1. x \div 2 = l
      BY <2>5, <2>6, <2>7 DEF Node
    <3>2. c[x] = <<l>>
      BY <1>4, <2>6, <2>7, <3>1
    <3>3. EndOf(l, d, N) - l = 1
      BY <2>3, <2>6, <2>7 DEF EndOf
    <3>4. Entries(l, EndOf(l, d, N)) = [i \in 1 .. 1 |-> l]
      <4>1. \A i \in 1 .. 1 : l + i - 1 = l
        BY <2>6
      <4> QED
        BY <3>3, <4>1 DEF Entries
    <3>5. [i \in 1 .. 1 |-> l] = <<l>>
      OBVIOUS
    <3> QED
      BY <2>3, <2>5, <3>2, <3>4, <3>5
  <2>8. CASE d # 1
    <3>1. PICK h \in Nat \ {0} :
                /\ d = 2 * h /\ Block(l, h) /\ left_child(x) = Node(l, h)
                /\ Node(l + h, h) # Node(l, h)
                /\ l + h < N => /\ Block(l + h, h) /\ right_child(x, N) = Node(l + h, h)
                                /\ EndOf(l, h, N) = l + h /\ EndOf(l + h, h, N) = EndOf(l, d, N)
                /\ ~(l + h < N) => /\ right_child(x, N) = Node(l, h)
                                   /\ EndOf(l, h, N) = EndOf(l, d, N)
      BY <2>3, <2>5, <2>8, NodeHalves
    <3>2. h < d /\ l + h \in Nat
      BY <2>6, <3>1
    <3>3. c[Node(l, h)] = Entries(l, EndOf(l, h, N))
      BY <2>3, <2>4, <2>6, <3>1, <3>2
    <3>4. CASE l + h < N
      <4>1. c[Node(l + h, h)] = Entries(l + h, EndOf(l, d, N))
        BY <2>4, <3>1, <3>2, <3>4
      <4>2. c[x] = Entries(l, l + h) \o Entries(l + h, EndOf(l, d, N))
        BY <1>4, <2>6, <2>8, <3>1, <3>3, <3>4, <4>1
      <4>3. PICK e \in Nat : e = EndOf(l, d, N) /\ l <= l + h /\ l + h <= e
        BY <2>6, <3>1, <3>4 DEF EndOf
      <4>4. Entries(l, l + h) \o Entries(l + h, e) = Entries(l, e)
        BY <2>6, <3>2, <4>3, EntriesJoin
      <4> QED
        BY <2>3, <2>5, <4>2, <4>3, <4>4
    <3>5. CASE ~(l + h < N)
      <4>1. c[x] = Entries(l, EndOf(l, d, N)) \o <<>>
        BY <1>4, <2>6, <2>8, <3>1, <3>3, <3>5
      <4>2. PICK e \in Nat : e = EndOf(l, d, N) /\ l <= l /\ l <= e
        BY <2>6
      <4>3. Entries(l, e) \in Seq(Nat)
        BY <2>6, <4>2, EntriesJoin
      <4>4. Entries(l, e) \o <<>> = Entries(l, e)
        BY <4>3, ConcatEmptySeq
      <4> QED
        BY <2>3, <2>5, <4>1, <4>2, <4>4
    <3> QED
      BY <3>4, <3>5
  <2> QED
    BY <2>7, <2>8
<1>6. s \in Nat
  BY DEF Block
<1>7. Right(s)
  BY <1>5, <1>6
<1>8. c[Node(lo, s)] = Entries(lo, EndOf(lo, s, N))
  BY <1>7
<1> QED
  BY <1>1, <1>8

\* RootCoversLog for every size.
LEMMA RootCoversAll ==
  ASSUME n \in Nat
  PROVE  RootCoversLog
<1> SUFFICES ASSUME n > 0
             PROVE  LeavesUnder(merkle_root(n), n) = [i \in 1 .. n |-> i - 1]
  BY DEF RootCoversLog
<1>1. PICK s \in Nat \ {0} : merkle_root(n) = Node(0, s) /\ Block(0, s) /\ n <= s
  BY MerkleRootOf
<1>2. LeavesUnder(Node(0, s), n) = Entries(0, EndOf(0, s, n))
  BY <1>1, LeavesAre
<1>3. EndOf(0, s, n) = n
  BY <1>1 DEF EndOf
<1>4. Entries(0, n) = [i \in 1 .. n |-> i - 1]
  <2>1. n - 0 = n /\ \A i \in 1 .. n : 0 + i - 1 = i - 1
    OBVIOUS
  <2> QED
    BY <2>1 DEF Entries
<1> QED
  BY <1>1, <1>2, <1>3, <1>4

\* Every node is a half of a node.
LEMMA HalfOf ==
  \A x \in Nat : \E lo \in Nat, h \in Nat \ {0} :
    Block(lo, 2 * h) /\ x \in {Node(lo, h), Node(lo + h, h)}
<1> DEFINE Right(x) == \E lo \in Nat, h \in Nat \ {0} :
                         Block(lo, 2 * h) /\ x \in {Node(lo, h), Node(lo + h, h)}
           Wrong == {x \in Nat : ~Right(x)}
<1>1. ASSUME Wrong # {} PROVE FALSE
  <2>1. PICK x \in Wrong : \A y \in Nat : y < x => y \notin Wrong
    <3>1. Wrong \in SUBSET Nat
      OBVIOUS
    <3> HIDE DEF Wrong
    <3> QED
      BY <1>1, <3>1, LeastElement
  <2>2. x \in Nat /\ ~Right(x)
    OBVIOUS
  <2>3. \A y \in Nat : y < x => Right(y)
    BY <2>1
  <2> HIDE DEF Wrong, Right
  <2>4. CASE x % 2 = 0
    <3>1. PICK y \in Nat : y = x \div 2 /\ x = 2 * y
      BY <2>2, <2>4
    <3>2. CASE y % 2 = 0
      <4>1. PICK z \in Nat : z = x + 1 /\ z % 2 # 0 /\ z \div 2 = y
        BY <2>2, <3>1
      <4>2. span[y] = 1 /\ span[z] = 2 * span[y]
        BY <3>2, <4>1, SpanDefined
      <4>3. Node(y, 2) = z /\ Node(y, 1) = x
        BY <3>1, <4>1 DEF Node
      <4>4. Block(y, 2 * 1)
        BY <4>1, <4>2, <4>3 DEF Block
      <4> QED
        BY <2>2, <4>3, <4>4 DEF Right
    <3>3. CASE y % 2 # 0
      <4>1. PICK z \in Nat, u \in Nat : u = y - 1 /\ z = x - 1 /\ z % 2 # 0 /\ z \div 2 = u /\ u % 2 = 0
        BY <2>2, <3>1, <3>3
      <4>2. span[u] = 1 /\ span[z] = 2 * span[u]
        BY <4>1, SpanDefined
      <4>3. Node(u, 2) = z /\ Node(u + 1, 1) = x
        BY <3>1, <4>1 DEF Node
      <4>4. Block(u, 2 * 1)
        BY <4>1, <4>2, <4>3 DEF Block
      <4> QED
        BY <2>2, <4>3, <4>4 DEF Right
    <3> QED
      BY <3>2, <3>3
  <2>5. CASE x % 2 # 0
    <3>1. PICK y \in Nat : y = x \div 2 /\ x = 2 * y + 1 /\ y < x
      BY <2>2, <2>5
    <3>2. PICK lo \in Nat, h \in Nat \ {0} : Block(lo, 2 * h) /\ y \in {Node(lo, h), Node(lo + h, h)}
      BY <2>3, <3>1 DEF Right
    <3>3. PICK a \in Nat, d \in Nat \ {0} : a = 2 * lo /\ d = 2 * h
      OBVIOUS
    <3>4. PICK w \in Nat, z \in Nat : w = Node(lo, 2 * h) /\ z = 2 * w + 1 /\ z % 2 # 0 /\ z \div 2 = w
      BY DEF Node
    <3>5. span[z] = 2 * span[w] /\ span[w] = 2 * h
      BY <3>2, <3>4, SpanDefined DEF Block
    <3>6. Node(a, 2 * d) = z
      BY <3>3, <3>4 DEF Node
    <3>7. Block(a, 2 * d)
      BY <3>3, <3>5, <3>6 DEF Block
    <3>8. x \in {Node(a, d), Node(a + d, d)}
      BY <3>1, <3>2, <3>3 DEF Node
    <3> QED
      BY <2>2, <3>7, <3>8 DEF Right
  <2> QED
    BY <2>4, <2>5
<1>2. \A x \in Nat : Right(x)
  BY <1>1
<1> QED
  BY <1>2

\* A node is a child of its parent, which is one level up.
LEMMA ParentHolds ==
  ASSUME NEW x \in Nat
  PROVE  /\ parent(x) \in Nat /\ level[parent(x)] = level[x] + 1
         /\ x \in {left_child(parent(x)), full_right(parent(x))}
<1>1. PICK lo \in Nat, h \in Nat \ {0} : Block(lo, 2 * h) /\ x \in {Node(lo, h), Node(lo + h, h)}
  BY HalfOf
<1>2. PICK k \in Pow : /\ k \in Nat \ {0} /\ 2 * h = 2 * k
                       /\ Block(lo, k) /\ left_child(Node(lo, 2 * h)) = Node(lo, k)
                       /\ Block(lo + k, k) /\ full_right(Node(lo, 2 * h)) = Node(lo + k, k)
  <2>1. 2 * h # 1
    OBVIOUS
  <2> QED
    BY <1>1, <2>1, BlockHalves
<1>3. h = k
  BY <1>2
<1>4. parent(x) = Node(lo, 2 * h)
  BY <1>1, ParentOfHalves
<1>5. Node(lo, 2 * h) \in Nat /\ span[Node(lo, 2 * h)] = 2 * k
  BY <1>1, <1>2, BlockOf DEF Block
<1>6. span[x] = k
  BY <1>1, <1>2, <1>3 DEF Block
<1>7. level[x] = level[k - 1] /\ level[Node(lo, 2 * h)] = level[2 * k - 1]
  BY <1>5, <1>6, PowSpans
<1>8. level[2 * k - 1] = 1 + level[k - 1] /\ level[k - 1] \in Nat
  BY <1>2, PowHalves, LevelDefined
<1> QED
  BY <1>1, <1>2, <1>3, <1>4, <1>5, <1>7, <1>8

\* The recursion of chunk_id ends: the level rises to the next that is 3 modulo 4.
LEMMA ChunkIdDefined ==
  \A x \in Nat : chunk_id[x] = IF level[x] % 4 = 3 THEN x ELSE chunk_id[parent(x)]
<1> DEFINE Up(x, f) == IF level[x] % 4 = 3 THEN x ELSE f[parent(x)]
           F == [a \in [Nat -> Nat] \X Nat |-> Up(a[2], a[1])]
<1>1. \A x \in Nat : parent(x) \in Nat /\ level[x] \in Nat /\ level[parent(x)] = level[x] + 1
  BY ParentHolds, LevelDefined
<1>2. \A f \in [Nat -> Nat], x \in Nat : F[<<f, x>>] = Up(x, f) /\ Up(x, f) \in Nat
  BY <1>1
<1>3. F \in [[Nat -> Nat] \X Nat -> Nat]
  BY <1>1
<1>4. PICK mu : mu = [x \in Nat |-> 3 - (level[x] % 4)]
  OBVIOUS
<1>5. mu \in [Nat -> Nat] /\ \A x \in Nat : mu[x] = 3 - (level[x] % 4)
  <2>1. \A x \in Nat : 3 - (level[x] % 4) \in Nat
    BY <1>1
  <2> QED
    BY <1>4, <2>1
<1>6. \A x \in Nat : level[x] % 4 # 3 => mu[parent(x)] < mu[x]
  <2> TAKE x \in Nat
  <2> HAVE level[x] % 4 # 3
  <2>1. PICK a \in Nat : a = level[x] /\ level[parent(x)] = a + 1 /\ a % 4 # 3
    BY <1>1
  <2>2. (a + 1) % 4 = (a % 4) + 1
    BY <2>1
  <2>3. a % 4 \in 0 .. 3
    OBVIOUS
  <2> QED
    BY <1>1, <1>5, <2>1, <2>2, <2>3
<1> HIDE DEF F
<1>7. ASSUME NEW f \in [Nat -> Nat], NEW h \in [Nat -> Nat], NEW x \in Nat,
             \A y \in Nat : mu[y] < mu[x] => f[y] = h[y]
      PROVE  F[<<f, x>>] = F[<<h, x>>]
  <2>1. Up(x, f) = Up(x, h)
    BY <1>1, <1>6, <1>7
  <2> QED
    BY <1>2, <2>1
<1>8. Measured(F, Nat, Nat, mu)
  <2>1. \A f, h \in [Nat -> Nat], x \in Nat :
          (\A y \in Nat : mu[y] < mu[x] => f[y] = h[y]) => F[<<f, x>>] = F[<<h, x>>]
    BY <1>7
  <2> QED
    BY <1>3, <1>5, <2>1, Zenon DEF Measured
<1>9. PICK f \in [Nat -> Nat] : \A x \in Nat : f[x] = F[<<f, x>>]
  <2>1. \E f \in [Nat -> Nat] : Solves(f, F, Nat)
    <3>1. 0 \in Nat
      OBVIOUS
    <3> QED
      BY <1>8, <3>1, MeasuredSolution
  <2> QED
    BY <2>1 DEF Solves
<1> DEFINE Is(e) == e = [x \in Nat |-> IF level[x] % 4 = 3 THEN x ELSE e[parent(x)]]
           c == CHOOSE e : Is(e)
<1>10. Is(f)
  BY <1>2, <1>9
<1>11. Is(c)
  BY <1>10
<1>12. chunk_id = c
  BY DEF chunk_id
<1> HIDE DEF c
<1>13. \A x \in Nat : c[x] = IF level[x] % 4 = 3 THEN x ELSE c[parent(x)]
  BY <1>11
<1> QED
  BY <1>12, <1>13

\* The children of some nodes.
Children(S) == {left_child(x) : x \in S} \cup {full_right(x) : x \in S}

\* A chunk is three generations below its root.
LEMMA ChunkLayers ==
  ASSUME NEW c
  PROVE  chunk_layout(c) = {c} \cup Children({c}) \cup Children(Children({c}))
                               \cup Children(Children(Children({c})))
  BY DEF chunk_layout, Children

\* Every node is in its chunk.
LEMMA InItsChunk ==
  ASSUME NEW x \in Nat
  PROVE  x \in chunk_layout(chunk_id[x])
<1> DEFINE p1 == parent(x)
           p2 == parent(p1)
           p3 == parent(p2)
<1>1. \A y \in Nat : /\ parent(y) \in Nat /\ level[y] \in Nat /\ level[parent(y)] = level[y] + 1
                     /\ \A S : parent(y) \in S => y \in Children(S)
  <2> TAKE y \in Nat
  <2>1. /\ parent(y) \in Nat /\ level[y] \in Nat /\ level[parent(y)] = level[y] + 1
        /\ y \in {left_child(parent(y)), full_right(parent(y))}
    BY ParentHolds, LevelDefined
  <2>2. ASSUME NEW S, parent(y) \in S PROVE y \in Children(S)
    BY <2>1, <2>2 DEF Children
  <2> QED
    BY <2>1, <2>2
<1>2. \A y \in Nat : chunk_id[y] = IF level[y] % 4 = 3 THEN y ELSE chunk_id[parent(y)]
  BY ChunkIdDefined
<1>3. PICK a \in Nat : a = level[x]
  BY <1>1
<1>4. p1 \in Nat /\ p2 \in Nat /\ p3 \in Nat /\ level[p1] = a + 1 /\ level[p2] = a + 2 /\ level[p3] = a + 3
  <2>1. p1 \in Nat /\ level[p1] = a + 1
    BY <1>1, <1>3
  <2>2. p2 \in Nat /\ level[p2] = a + 1 + 1
    BY <1>1, <2>1
  <2>3. p3 \in Nat /\ level[p3] = a + 1 + 1 + 1
    BY <1>1, <2>2
  <2> QED
    BY <2>1, <2>2, <2>3
<1>5. PICK c : c = chunk_id[x]
  OBVIOUS
<1>6. /\ p1 \in {c} => x \in Children({c})
      /\ p2 \in {c} => x \in Children(Children({c}))
      /\ p3 \in {c} => x \in Children(Children(Children({c})))
  BY <1>1, <1>4
<1> HIDE DEF p1, p2, p3
<1>7. c = x \/ c = p1 \/ c = p2 \/ c = p3
  <2>1. a % 4 = 3 \/ (a + 1) % 4 = 3 \/ (a + 2) % 4 = 3 \/ (a + 3) % 4 = 3
    OBVIOUS
  <2>2. c = IF a % 4 = 3 THEN x ELSE chunk_id[p1]
    BY <1>2, <1>3, <1>5 DEF p1
  <2>3. chunk_id[p1] = IF (a + 1) % 4 = 3 THEN p1 ELSE chunk_id[p2]
    BY <1>2, <1>4 DEF p2
  <2>4. chunk_id[p2] = IF (a + 2) % 4 = 3 THEN p2 ELSE chunk_id[p3]
    BY <1>2, <1>4 DEF p3
  <2>5. (a + 3) % 4 = 3 => chunk_id[p3] = p3
    BY <1>2, <1>4
  <2> QED
    BY <2>1, <2>2, <2>3, <2>4, <2>5
<1>8. x \in chunk_layout(c)
  BY <1>6, <1>7, ChunkLayers
<1> QED
  BY <1>5, <1>8

\* ChunkHoldsNode for every size.
LEMMA ChunksHoldAll ==
  ASSUME n \in Nat, t \in Nat
  PROVE  ChunkHoldsNode
<1> SUFFICES ASSUME t < n
             PROVE  \A node \in {t, 2 * t, merkle_root(n)} : node \in chunk_layout(chunk_id[node])
  BY DEF ChunkHoldsNode, AreEntries
<1>1. PICK s \in Nat \ {0} : merkle_root(n) = Node(0, s)
  BY MerkleRootOf
<1>2. merkle_root(n) \in Nat
  BY <1>1 DEF Node
<1> QED
  BY <1>2, InItsChunk

\* Reversing a sequence twice yields the sequence.
LEMMA ReverseTwice ==
  ASSUME NEW V, NEW s \in Seq(V)
  PROVE  Reverse(Reverse(s)) = s
<1>1. PICK k \in Nat : k = Len(s)
  OBVIOUS
<1>2. PICK r : r = Reverse(s)
  OBVIOUS
<1>3. r = [i \in 1 .. k |-> s[(k - i) + 1]]
  BY <1>1, <1>2 DEF Reverse
<1>4. \A i \in 1 .. k : (k - i) + 1 \in 1 .. k /\ (k - ((k - i) + 1)) + 1 = i
  OBVIOUS
<1>5. \A i \in 1 .. k : s[(k - i) + 1] \in V
  BY <1>1, <1>4
<1>6. r \in Seq(V) /\ Len(r) = k
  BY <1>3, <1>5
<1>7. PICK q : q = Reverse(r)
  OBVIOUS
<1>8. q = [i \in 1 .. k |-> r[(k - i) + 1]]
  BY <1>6, <1>7 DEF Reverse
<1>9. \A i \in 1 .. k : q[i] = s[i]
  <2> TAKE i \in 1 .. k
  <2>1. q[i] = r[(k - i) + 1]
    BY <1>8
  <2>2. r[(k - i) + 1] = s[(k - ((k - i) + 1)) + 1]
    BY <1>3, <1>4
  <2> QED
    BY <1>4, <2>1, <2>2
<1>10. q \in Seq(V) /\ Len(q) = k
  <2>1. \A i \in 1 .. k : r[(k - i) + 1] \in V
    BY <1>4, <1>6
  <2> QED
    BY <1>8, <2>1
<1>11. q = s
  BY <1>1, <1>9, <1>10, SeqEqual
<1> QED
  BY <1>2, <1>7, <1>11

\* Concatenation is associative.
LEMMA ConcatLists ==
  ASSUME NEW u \in Seq(Nat), NEW w \in Seq(Nat), NEW v \in Seq(Nat)
  PROVE  (u \o w) \o v = u \o (w \o v)
  BY ConcatAssociative, SMTT(30)

\* Where the walk goes from entry x, and one step of it.
On(T, N, x) == IF T < x THEN left_child(x) ELSE ibst_right_child(x, N)
Walking(T, N, x, f) ==
  IF x = T \/ On(T, N, x) \in {x, None} THEN <<x>> ELSE <<x>> \o f[On(T, N, x)]

\* Where the walk goes it goes to an entry that spans less.
LEMMA OnIsSmaller ==
  ASSUME NEW N \in Nat, NEW T \in Nat, NEW x \in 0 .. N - 1, x # T, On(T, N, x) \notin {x, None}
  PROVE  On(T, N, x) \in 0 .. N - 1 /\ span[On(T, N, x)] < span[x]
<1>1. CASE T < x
  <2>1. On(T, N, x) = left_child(x)
    BY <1>1 DEF On
  <2>2. ~is_leaf(x)
    BY <2>1 DEF left_child
  <2>3. left_child(x) \in 0 .. x - 1 /\ span[left_child(x)] < span[x]
    BY <2>2, LeftChildIn
  <2> QED
    BY <2>1, <2>3
<1>2. CASE ~(T < x)
  <2>1. On(T, N, x) = ibst_right_child(x, N) /\ ibst_right_child(x, N) # None
    BY <1>2 DEF On
  <2>2. PICK r \in x + 1 .. N - 1 : r = ibst_right_child(x, N) /\ span[r] < span[x]
    BY <2>1, RightChildIn
  <2> QED
    BY <2>1, <2>2
<1> QED
  BY <1>1, <1>2

\* The walk ends.
LEMMA WalkDefined ==
  ASSUME NEW N \in Nat \ {0}, NEW T \in Nat
  PROVE  \E c : /\ Walk(T, N) = c[root(N)]
                /\ \A x \in 0 .. N - 1 : c[x] = Walking(T, N, x, c)
<1>1. PICK V : V = Seq(Nat)
  OBVIOUS
<1>2. PICK S : S = 0 .. N - 1
  OBVIOUS
<1> DEFINE Ends(x) == x = T \/ On(T, N, x) \in {x, None}
           F == [a \in [S -> V] \X S |-> Walking(T, N, a[2], a[1])]
<1>3. \A x \in S : ~Ends(x) => On(T, N, x) \in S /\ span[On(T, N, x)] < span[x]
  BY <1>2, OnIsSmaller
<1>4. \A x \in S : \A f : Walking(T, N, x, f) = IF Ends(x) THEN <<x>> ELSE <<x>> \o f[On(T, N, x)]
  BY DEF Walking
<1>5. \A f \in [S -> V], x \in S : F[<<f, x>>] = Walking(T, N, x, f)
  OBVIOUS
<1> HIDE DEF Ends
<1>6. \A f \in [S -> V], x \in S : Walking(T, N, x, f) \in V
  <2> TAKE f \in [S -> V], x \in S
  <2>1. <<x>> \in Seq(Nat)
    BY <1>2
  <2>2. CASE Ends(x)
    BY <1>1, <1>4, <2>1, <2>2
  <2>3. CASE ~Ends(x)
    <3>1. PICK w \in Seq(Nat) : w = f[On(T, N, x)]
      BY <1>1, <1>3, <2>3
    <3>2. <<x>> \o w \in Seq(Nat)
      BY <2>1, ConcatProperties
    <3> QED
      BY <1>1, <1>4, <2>3, <3>1, <3>2
  <2> QED
    BY <2>2, <2>3
<1>7. F \in [[S -> V] \X S -> V]
  <2>1. \A a \in [S -> V] \X S : Walking(T, N, a[2], a[1]) \in V
    BY <1>6
  <2> QED
    BY <2>1
<1> HIDE DEF F
<1>8. PICK mu : mu = [x \in S |-> span[x]]
  OBVIOUS
<1>9. mu \in [S -> Nat] /\ \A x \in S : mu[x] = span[x]
  <2>1. \A x \in S : span[x] \in Nat
    <3>1. \A x \in Nat : span[x] \in Nat
      BY SpanBounds
    <3>2. \A x \in S : x \in Nat
      BY <1>2
    <3> QED
      BY <3>1, <3>2
  <2> QED
    BY <1>8, <2>1
<1>10. ASSUME NEW f \in [S -> V], NEW h \in [S -> V], NEW x \in S,
              \A y \in S : mu[y] < mu[x] => f[y] = h[y]
       PROVE  F[<<f, x>>] = F[<<h, x>>]
  <2>1. ~Ends(x) => f[On(T, N, x)] = h[On(T, N, x)]
    BY <1>3, <1>9, <1>10
  <2>2. Walking(T, N, x, f) = Walking(T, N, x, h)
    BY <1>4, <2>1
  <2> QED
    BY <1>5, <2>2
<1>11. Measured(F, S, V, mu)
  <2>1. \A f, h \in [S -> V], x \in S :
          (\A y \in S : mu[y] < mu[x] => f[y] = h[y]) => F[<<f, x>>] = F[<<h, x>>]
    BY <1>10
  <2> QED
    BY <1>7, <1>9, <2>1, Zenon DEF Measured
<1>12. PICK f \in [S -> V] : \A x \in S : f[x] = F[<<f, x>>]
  <2>1. <<>> \in V
    BY <1>1
  <2>2. \E f \in [S -> V] : Solves(f, F, S)
    BY <1>11, <2>1, MeasuredSolution
  <2> QED
    BY <2>2 DEF Solves
<1> DEFINE Is(e) == e = [x \in 0 .. N - 1 |-> Walking(T, N, x, e)]
           c == CHOOSE e : Is(e)
<1>13. Is(f)
  BY <1>2, <1>5, <1>12
<1>14. Is(c)
  BY <1>13
<1>15. Walk(T, N) = c[root(N)]
  BY DEF Walk, Walking, On
<1> HIDE DEF c
<1>16. \A x \in 0 .. N - 1 : c[x] = Walking(T, N, x, c)
  BY <1>14
<1> QED
  BY <1>15, <1>16

\* The part of a log of N entries that entry x spans.
PartOf(x, N) ==
  LET o == x - span[x] + 1
  IN  IF 2 * span[x] - 1 <= N - o THEN <<2 * span[x] - 1, o>> ELSE <<N - o, o>>

\* The parts of its children are those ibst_direct_path goes on with.
LEMMA PartSplits ==
  ASSUME NEW N \in Nat, NEW x \in 0 .. N - 1
  PROVE  LET p == PartOf(x, N)
         IN  /\ p \in PartsOf(N) /\ p[1] \in Nat \ {0} /\ p[2] \in Nat /\ p[2] + msb[p[1]] - 1 = x
             /\ ~is_leaf(x) => PartOf(left_child(x), N) = <<msb[p[1]] - 1, p[2]>>
             /\ ibst_right_child(x, N) # None =>
                  PartOf(ibst_right_child(x, N), N) = <<p[1] - msb[p[1]], x + 1>>
<1>1. PICK q \in Pow : q = span[x] /\ q \in Nat \ {0} /\ q <= x + 1
  BY PowSpans, SpanBounds
<1>2. PICK o \in Nat : o = x - q + 1
  BY <1>1
<1>3. PICK z \in Nat \ {0} : /\ z = IF 2 * q - 1 <= N - o THEN 2 * q - 1 ELSE N - o
                             /\ PartOf(x, N) = <<z, o>> /\ q <= z /\ z < 2 * q /\ z <= N - o
  BY <1>1, <1>2 DEF PartOf
<1>4. msb[z] = q
  BY <1>1, <1>3, MsbIsOnly
<1>5. <<z, o>> \in PartsOf(N)
  <2>1. z \in 0 .. N /\ o \in 0 .. N /\ z + o <= N
    BY <1>1, <1>2, <1>3
  <2> QED
    BY <2>1 DEF PartsOf
<1>6. ASSUME ~is_leaf(x) PROVE PartOf(left_child(x), N) = <<q - 1, o>>
  <2>1. PICK l \in 0 .. x - 1 : l = left_child(x) /\ l + span[l] = x /\ l - span[l] = x - q /\ span[l] < q
    BY <1>1, <1>6, LeftChildIn
  <2>2. PICK h \in Nat \ {0} : h = span[l] /\ 2 * h = q /\ l - h + 1 = o
    <3>1. PICK h \in Nat \ {0} : h = span[l]
      <4>1. l \in Nat
        OBVIOUS
      <4> QED
        BY <4>1, SpanBounds
    <3>2. l + h = x /\ l - h = x - q
      BY <2>1, <3>1
    <3> QED
      BY <1>1, <1>2, <3>1, <3>2
  <2>3. 2 * h - 1 = q - 1 /\ 2 * h - 1 <= N - o
    BY <1>1, <1>2, <2>2
  <2> QED
    BY <2>1, <2>2, <2>3 DEF PartOf
<1>7. ASSUME ibst_right_child(x, N) # None
      PROVE  PartOf(ibst_right_child(x, N), N) = <<z - q, x + 1>>
  <2>1. PICK r \in x + 1 .. N - 1 :
                /\ r = ibst_right_child(x, N) /\ r - span[r] = x /\ span[r] < q
                /\ r + span[r] = x + q \/ (N <= r + span[r] /\ N <= x + q)
    BY <1>1, <1>7, RightChildIn
  <2>2. PICK h \in Nat \ {0} : h = span[r] /\ r - h + 1 = x + 1
    BY <2>1, SpanBounds
  <2>3. (IF 2 * h - 1 <= N - (x + 1) THEN 2 * h - 1 ELSE N - (x + 1)) = z - q
    <3>1. CASE r + h = x + q
      BY <1>1, <1>2, <1>3, <2>1, <2>2, <3>1
    <3>2. CASE N <= r + h /\ N <= x + q
      BY <1>1, <1>2, <1>3, <2>1, <2>2, <3>2
    <3> QED
      BY <2>1, <2>2, <3>1, <3>2
  <2> QED
    BY <2>1, <2>2, <2>3 DEF PartOf
<1>8. o + q - 1 = x
  BY <1>1, <1>2
<1>9. <<z, o>>[1] = z /\ <<z, o>>[2] = o
  OBVIOUS
<1> QED
  BY <1>3, <1>4, <1>5, <1>6, <1>7, <1>8, <1>9

\* Both walks go the same way from every entry that spans the target.
LEMMA WalksMeet ==
  ASSUME NEW N \in Nat \ {0}, NEW T \in 0 .. N - 1, NEW c, NEW f,
         \A x \in 0 .. N - 1 : c[x] = Walking(T, N, x, c),
         \A p \in PartsOf(N) : f[p] = Towards(T, p, f) /\ f[p] \in Seq(Nat)
  PROVE  \A x \in 0 .. N - 1 : x - span[x] < T /\ T < x + span[x] => c[x] = f[PartOf(x, N)] \o <<T>>
<1> DEFINE Right(x) == x - span[x] < T /\ T < x + span[x] => c[x] = f[PartOf(x, N)] \o <<T>>
           Wrong == {d \in Nat : \E x \in 0 .. N - 1 : span[x] = d /\ ~Right(x)}
<1>1. ASSUME Wrong # {} PROVE FALSE
  <2>1. PICK d \in Wrong : \A y \in Nat : y < d => y \notin Wrong
    <3>1. Wrong \in SUBSET Nat
      OBVIOUS
    <3> HIDE DEF Wrong
    <3> QED
      BY <1>1, <3>1, LeastElement
  <2>2. PICK x \in 0 .. N - 1 : span[x] = d /\ ~Right(x)
    OBVIOUS
  <2>3. \A y \in 0 .. N - 1 : span[y] < d => Right(y)
    <3>1. \A y \in Nat : span[y] \in Nat
      BY SpanBounds
    <3>2. \A y \in 0 .. N - 1 : span[y] \in Nat
      BY <3>1
    <3> HIDE DEF Right
    <3> QED
      BY <2>1, <3>2
  <2> HIDE DEF Wrong
  <2>4. x - span[x] < T /\ T < x + span[x] /\ c[x] # f[PartOf(x, N)] \o <<T>>
    BY <2>2
  <2>5. \A y \in 0 .. N - 1 : span[y] < d /\ y - span[y] < T /\ T < y + span[y] =>
          c[y] = f[PartOf(y, N)] \o <<T>>
    BY <2>3
  <2> HIDE DEF Right
  <2>6. PICK p \in PartsOf(N) :
             /\ p = PartOf(x, N) /\ p[1] \in Nat \ {0} /\ p[2] \in Nat /\ p[2] + msb[p[1]] - 1 = x
             /\ ~is_leaf(x) => PartOf(left_child(x), N) = <<msb[p[1]] - 1, p[2]>>
             /\ ibst_right_child(x, N) # None =>
                  PartOf(ibst_right_child(x, N), N) = <<p[1] - msb[p[1]], x + 1>>
    BY PartSplits
  <2>7. f[p] = IF T = x THEN <<>>
               ELSE <<x>> \o (IF T < x THEN f[<<msb[p[1]] - 1, p[2]>>] ELSE f[<<p[1] - msb[p[1]], x + 1>>])
    BY <2>6 DEF Towards
  <2>8. span[x] \in Nat \ {0} /\ (is_leaf(x) => span[x] = 1)
    <3>1. x \in Nat
      OBVIOUS
    <3>2. x % 2 = 0 => span[x] = 1
      BY <3>1, SpanDefined
    <3>3. span[x] \in Nat \ {0}
      BY <3>1, SpanBounds
    <3> QED
      BY <3>2, <3>3 DEF is_leaf
  <2>9. CASE T = x
    <3>1. c[x] = <<x>>
      BY <2>9 DEF Walking
    <3>2. f[p] = <<>>
      BY <2>7, <2>9
    <3>3. <<>> \o <<x>> = <<x>>
      OBVIOUS
    <3> QED
      BY <2>4, <2>6, <2>9, <3>1, <3>2, <3>3
  <2>10. ASSUME NEW y \in 0 .. N - 1, y = On(T, N, x), y # x, T # x, f[p] = <<x>> \o f[PartOf(y, N)],
                span[y] < d, y - span[y] < T, T < y + span[y]
         PROVE  FALSE
    <3>1. y \notin {x, None}
      BY <2>10 DEF None
    <3>2. c[x] = <<x>> \o c[y]
      BY <2>10, <3>1 DEF Walking
    <3>3. c[y] = f[PartOf(y, N)] \o <<T>>
      BY <2>5, <2>10
    <3>4. PICK w \in Seq(Nat) : w = f[PartOf(y, N)]
      BY PartSplits
    <3>5. <<x>> \in Seq(Nat) /\ <<T>> \in Seq(Nat)
      OBVIOUS
    <3>6. <<x>> \o (w \o <<T>>) = (<<x>> \o w) \o <<T>>
      <4>1. PICK u \in Seq(Nat), v \in Seq(Nat) : u = <<x>> /\ v = <<T>>
        BY <3>5
      <4>2. (u \o w) \o v = u \o (w \o v)
        BY ConcatLists
      <4> QED
        BY <4>1, <4>2
    <3> QED
      BY <2>4, <2>6, <2>10, <3>2, <3>3, <3>4, <3>6
  <2>11. CASE T < x
    <3>1. ~is_leaf(x)
      BY <2>4, <2>8, <2>11
    <3>2. PICK l \in 0 .. x - 1 : /\ l = left_child(x) /\ l + span[l] = x /\ l - span[l] = x - span[x]
                                  /\ span[l] < span[x]
      BY <3>1, LeftChildIn
    <3>3. l \in 0 .. N - 1 /\ l = On(T, N, x) /\ l # x /\ T # x
      BY <2>11, <3>2 DEF On
    <3>4. f[p] = <<x>> \o f[PartOf(l, N)]
      <4>1. T # x /\ PartOf(l, N) = <<msb[p[1]] - 1, p[2]>>
        BY <2>6, <2>11, <3>1, <3>2
      <4> QED
        BY <2>7, <2>11, <4>1, Zenon
    <3>5. l - span[l] < T /\ T < l + span[l] /\ span[l] < d
      BY <2>2, <2>4, <2>11, <3>2
    <3> QED
      BY <2>10, <3>3, <3>4, <3>5
  <2>12. CASE x < T
    <3>1. ibst_right_child(x, N) # None
      <4>1. ~is_leaf(x) /\ ~(N <= x + 1)
        BY <2>4, <2>8, <2>12
      <4> QED
        BY <4>1, RightChildIn
    <3>2. PICK r \in x + 1 .. N - 1 :
                /\ r = ibst_right_child(x, N) /\ r - span[r] = x /\ span[r] < span[x]
                /\ r + span[r] = x + span[x] \/ (N <= r + span[r] /\ N <= x + span[x])
      BY <3>1, RightChildIn
    <3>3. r \in 0 .. N - 1 /\ r = On(T, N, x) /\ r # x /\ T # x
      BY <2>12, <3>2 DEF On
    <3>4. f[p] = <<x>> \o f[PartOf(r, N)]
      <4>1. T # x /\ ~(T < x)
        BY <2>12
      <4>2. PartOf(r, N) = <<p[1] - msb[p[1]], x + 1>>
        BY <2>6, <3>1, <3>2
      <4> QED
        BY <2>7, <4>1, <4>2, Zenon
    <3>5. r - span[r] < T /\ T < r + span[r] /\ span[r] < d
      <4>1. span[r] \in Nat \ {0}
        <5>1. r \in Nat
          OBVIOUS
        <5> QED
          BY <5>1, SpanBounds
      <4>2. PICK h \in Nat \ {0}, e \in Nat \ {0} : h = span[r] /\ e = span[x]
        BY <2>8, <4>1
      <4> QED
        <5>1. r - h = x /\ h < e /\ (r + h = x + e \/ N <= r + h) /\ T < x + e
          BY <2>4, <3>2, <4>2
        <5>2. r - h < T /\ T < r + h
          <6>1. r + h = x + e \/ N <= r + h
            BY <5>1
          <6> QED
            BY <2>12, <5>1, <6>1
        <5> QED
          BY <2>2, <4>2, <5>1, <5>2
    <3> QED
      BY <2>10, <3>3, <3>4, <3>5
  <2> QED
    BY <2>9, <2>11, <2>12
<1>2. \A x \in 0 .. N - 1 : span[x] \in Nat
  BY SpanBounds
<1>3. \A x \in 0 .. N - 1 : Right(x)
  BY <1>1, <1>2
<1> QED
  BY <1>3

\* WalksAgree for every log and entry.
LEMMA WalksAgreeAll ==
  ASSUME n \in Nat, t \in Nat
  PROVE  WalksAgree
<1> SUFFICES ASSUME t < n
             PROVE  Walk(t, n) = Append(Reverse(ibst_direct_path(t, n)), t)
  BY DEF WalksAgree, AreEntries
<1>1. PICK N \in Nat \ {0}, T \in 0 .. n - 1 : N = n /\ T = t /\ T \in 0 .. N - 1
  OBVIOUS
<1>2. PICK c : /\ Walk(T, N) = c[root(N)]
               /\ \A x \in 0 .. N - 1 : c[x] = Walking(T, N, x, c)
  <2>1. N \in Nat \ {0} /\ T \in Nat
    OBVIOUS
  <2> QED
    BY <2>1, WalkDefined
<1>3. PICK f : /\ ibst_direct_path(T, N) = Reverse(f[<<N, 0>>])
               /\ \A p \in PartsOf(N) : f[p] = Towards(T, p, f) /\ f[p] \in Seq(Nat)
  <2>1. N \in Nat /\ T \in Nat
    OBVIOUS
  <2> QED
    BY <2>1, DirectPathDefined
<1>4. PICK r \in 0 .. N - 1 : /\ r = root(N) /\ span[r] \in Nat \ {0}
                              /\ r - span[r] = -1 /\ r + span[r] >= N
  BY RootIn
<1>5. c[r] = f[PartOf(r, N)] \o <<T>>
  <2>1. \A x \in 0 .. N - 1 : x - span[x] < T /\ T < x + span[x] => c[x] = f[PartOf(x, N)] \o <<T>>
    BY <1>1, <1>2, <1>3, WalksMeet
  <2>2. r - span[r] < T /\ T < r + span[r]
    BY <1>1, <1>4
  <2> QED
    BY <2>1, <2>2
<1>6. PartOf(r, N) = <<N, 0>> /\ <<N, 0>> \in PartsOf(N)
  BY <1>4 DEF PartOf, PartsOf
<1>7. PICK w \in Seq(Nat) : w = f[<<N, 0>>]
  BY <1>3, <1>6
<1>8. Reverse(Reverse(w)) = w
  BY ReverseTwice
<1>9. w \o <<T>> = Append(w, T)
  <2>1. T \in Nat
    OBVIOUS
  <2> QED
    BY <2>1, AppendIsConcat
<1> QED
  BY <1>1, <1>2, <1>3, <1>4, <1>5, <1>6, <1>7, <1>8, <1>9

\* One step of sub_proof.
SplitOf(N) == IF msb[N] = N THEN N \div 2 ELSE msb[N]
Shifted(s, k) == [i \in DOMAIN s |-> s[i] + 2 * k]
Proving(a, f) ==
  LET k == SplitOf(a[2])
  IN  IF a[1] = a[2] THEN (IF a[3] THEN <<>> ELSE <<root(a[1])>>)
      ELSE IF a[1] <= k THEN Append(f[<<a[1], k, a[3]>>], right_child(root(a[2]), a[2]))
      ELSE <<left_child(root(a[2]))>> \o Shifted(f[<<a[1] - k, a[2] - k, FALSE>>], k)

\* Shifting a list of nodes adds the same to each.
LEMMA ShiftedList ==
  ASSUME NEW s \in Seq(Nat), NEW k \in Nat
  PROVE  /\ Shifted(s, k) \in Seq(Nat) /\ Len(Shifted(s, k)) = Len(s)
         /\ \A i \in 1 .. Len(s) : Shifted(s, k)[i] = s[i] + 2 * k
<1>1. PICK l \in Nat : l = Len(s) /\ DOMAIN s = 1 .. l
  OBVIOUS
<1>2. \A i \in 1 .. l : s[i] + 2 * k \in Nat
  BY <1>1
<1>3. PICK r : r = [i \in 1 .. l |-> s[i] + 2 * k]
  OBVIOUS
<1>4. r \in Seq(Nat) /\ Len(r) = l /\ \A i \in 1 .. l : r[i] = s[i] + 2 * k
  BY <1>2, <1>3
<1>5. r = Shifted(s, k)
  BY <1>1, <1>3 DEF Shifted
<1> QED
  BY <1>1, <1>4, <1>5

\* The two parts a size is split into.
LEMMA SplitBetween ==
  ASSUME NEW N \in Nat, N >= 2
  PROVE  /\ SplitOf(N) \in Nat \ {0} /\ SplitOf(N) < N
         /\ ~is_leaf(root(N)) /\ root(N) \in Nat
<1>1. PICK q \in Pow : q = msb[N] /\ q \in Nat \ {0} /\ q <= N /\ N < 2 * q
  BY MsbIsPow
<1>2. q # 1 /\ q % 2 = 0
  BY <1>1, PowHalves
<1>3. root(N) = q - 1
  BY <1>1 DEF root
<1> QED
  BY <1>1, <1>2, <1>3 DEF SplitOf, is_leaf

\* The recursion of sub_proof ends, as the sizes get smaller.
LEMMA SubProofDefined ==
  \A a \in ProofArgs : sub_proof[a] = Proving(a, sub_proof)
<1>1. PICK V : V = Seq(Nat)
  OBVIOUS
<1>2. PICK S : S = ProofArgs
  OBVIOUS
<1> DEFINE F == [a \in [S -> V] \X S |-> Proving(a[2], a[1])]
<1>3. \A f \in [S -> V], a \in S : F[<<f, a>>] = Proving(a, f)
  OBVIOUS
<1>4. ASSUME NEW a \in S
      PROVE  /\ a[1] \in Nat \ {0} /\ a[2] \in Nat \ {0} /\ a[1] <= a[2] /\ a[3] \in BOOLEAN
             /\ a[1] # a[2] =>
                  /\ SplitOf(a[2]) \in Nat
                  /\ a[1] <= SplitOf(a[2]) => /\ <<a[1], SplitOf(a[2]), a[3]>> \in S
                                              /\ SplitOf(a[2]) < a[2]
                  /\ ~(a[1] <= SplitOf(a[2])) =>
                       /\ <<a[1] - SplitOf(a[2]), a[2] - SplitOf(a[2]), FALSE>> \in S
                       /\ a[2] - SplitOf(a[2]) < a[2]
                  /\ left_child(root(a[2])) \in Nat /\ right_child(root(a[2]), a[2]) \in Nat
  <2>1. PICK u \in Nat \ {0}, w \in Nat, b \in BOOLEAN : a = <<u, w, b>> /\ u <= w /\ u = a[1] /\ w = a[2] /\ b = a[3]
    BY <1>2 DEF ProofArgs
  <2>2. ASSUME u # w
        PROVE  /\ SplitOf(w) \in Nat
               /\ u <= SplitOf(w) => <<u, SplitOf(w), b>> \in S /\ SplitOf(w) < w
               /\ ~(u <= SplitOf(w)) => <<u - SplitOf(w), w - SplitOf(w), FALSE>> \in S /\ w - SplitOf(w) < w
               /\ left_child(root(w)) \in Nat /\ right_child(root(w), w) \in Nat
    <3>1. w >= 2
      BY <2>1, <2>2
    <3>2. PICK k \in Nat \ {0} : k = SplitOf(w) /\ k < w
      BY <3>1, SplitBetween
    <3>3. left_child(root(w)) \in Nat /\ right_child(root(w), w) \in Nat
      <4>1. root(w) \in Nat /\ ~is_leaf(root(w))
        BY <3>1, SplitBetween
      <4> QED
        BY <4>1, ChildrenAreSmaller
    <3>4. u <= k => <<u, k, b>> \in ProofArgs
      BY DEF ProofArgs
    <3>5. ASSUME ~(u <= k) PROVE <<u - k, w - k, FALSE>> \in ProofArgs /\ w - k < w
      <4>1. u - k \in Nat \ {0} /\ w - k \in Nat /\ u - k <= w - k /\ w - k < w
        BY <2>1, <3>2, <3>5
      <4> QED
        BY <4>1 DEF ProofArgs
    <3> QED
      BY <1>2, <3>2, <3>3, <3>4, <3>5
  <2>3. w \in Nat \ {0}
    BY <2>1
  <2> QED
    BY <2>1, <2>2, <2>3
<1>5. ASSUME NEW f \in [S -> V], NEW a \in S PROVE Proving(a, f) \in V
  <2>1. CASE a[1] = a[2]
    <3>1. root(a[1]) \in Nat
      <4>1. a[1] \in Nat \ {0}
        BY <1>4
      <4>2. root(a[1]) \in 0 .. a[1] - 1
        BY <4>1, RootIsEntry
      <4> QED
        BY <4>1, <4>2
    <3>2. <<>> \in Seq(Nat) /\ <<root(a[1])>> \in Seq(Nat)
      BY <3>1
    <3> QED
      BY <1>1, <2>1, <3>2 DEF Proving
  <2>2. CASE a[1] # a[2] /\ a[1] <= SplitOf(a[2])
    <3>1. PICK w \in Seq(Nat) : w = f[<<a[1], SplitOf(a[2]), a[3]>>]
      BY <1>1, <1>4, <2>2
    <3>2. PICK r \in Nat : r = right_child(root(a[2]), a[2])
      BY <1>4, <2>2
    <3>3. Append(w, r) \in Seq(Nat)
      BY AppendProperties
    <3>4. Proving(a, f) = Append(w, r)
      BY <2>2, <3>1, <3>2, Zenon DEF Proving
    <3> QED
      BY <1>1, <3>3, <3>4
  <2>3. CASE a[1] # a[2] /\ ~(a[1] <= SplitOf(a[2]))
    <3>1. PICK w \in Seq(Nat) : w = f[<<a[1] - SplitOf(a[2]), a[2] - SplitOf(a[2]), FALSE>>]
      BY <1>1, <1>4, <2>3
    <3>2. PICK r \in Nat, k \in Nat : r = left_child(root(a[2])) /\ k = SplitOf(a[2])
      BY <1>4, <2>3
    <3>3. Shifted(w, k) \in Seq(Nat) /\ <<r>> \in Seq(Nat)
      BY ShiftedList
    <3>4. <<r>> \o Shifted(w, k) \in Seq(Nat)
      BY <3>3, ConcatProperties
    <3>5. Proving(a, f) = <<r>> \o Shifted(w, k)
      BY <2>3, <3>1, <3>2, Zenon DEF Proving
    <3> QED
      BY <1>1, <3>4, <3>5
  <2> QED
    BY <2>1, <2>2, <2>3
<1>6. F \in [[S -> V] \X S -> V]
  <2>1. \A a \in [S -> V] \X S : Proving(a[2], a[1]) \in V
    BY <1>5
  <2> QED
    BY <2>1
<1> HIDE DEF F
<1>7. PICK mu : mu = [a \in S |-> a[2]]
  OBVIOUS
<1>8. mu \in [S -> Nat] /\ \A a \in S : mu[a] = a[2]
  <2>1. \A a \in S : a[2] \in Nat
    BY <1>4
  <2> QED
    BY <1>7, <2>1
<1>9. ASSUME NEW f \in [S -> V], NEW h \in [S -> V], NEW a \in S,
             \A y \in S : mu[y] < mu[a] => f[y] = h[y]
      PROVE  F[<<f, a>>] = F[<<h, a>>]
  <2>1. PICK y, z : /\ y = <<a[1], SplitOf(a[2]), a[3]>>
                    /\ z = <<a[1] - SplitOf(a[2]), a[2] - SplitOf(a[2]), FALSE>>
    OBVIOUS
  <2>2. y[2] = SplitOf(a[2]) /\ z[2] = a[2] - SplitOf(a[2])
    BY <2>1
  <2>3. a[1] # a[2] /\ a[1] <= SplitOf(a[2]) => f[y] = h[y]
    BY <1>4, <1>8, <1>9, <2>1, <2>2
  <2>4. a[1] # a[2] /\ ~(a[1] <= SplitOf(a[2])) => f[z] = h[z]
    BY <1>4, <1>8, <1>9, <2>1, <2>2
  <2>5. Proving(a, f) = Proving(a, h)
    BY <2>1, <2>3, <2>4, Zenon DEF Proving
  <2> QED
    BY <1>3, <2>5
<1>10. Measured(F, S, V, mu)
  <2>1. \A f, h \in [S -> V], a \in S :
          (\A y \in S : mu[y] < mu[a] => f[y] = h[y]) => F[<<f, a>>] = F[<<h, a>>]
    BY <1>9
  <2> QED
    BY <1>6, <1>8, <2>1, Zenon DEF Measured
<1>11. PICK f \in [S -> V] : \A a \in S : f[a] = F[<<f, a>>]
  <2>1. <<>> \in V
    BY <1>1
  <2>2. \E f \in [S -> V] : Solves(f, F, S)
    BY <1>10, <2>1, MeasuredSolution
  <2> QED
    BY <2>2 DEF Solves
<1> DEFINE Is(e) == e = [a \in ProofArgs |-> Proving(a, e)]
           c == CHOOSE e : Is(e)
<1>12. Is(f)
  BY <1>2, <1>3, <1>11
<1>13. Is(c)
  BY <1>12
<1>14. sub_proof = c
  BY DEF sub_proof, Proving, ProofArgs, SplitOf, Shifted
<1> HIDE DEF c
<1>15. \A a \in ProofArgs : c[a] = Proving(a, c)
  BY <1>13
<1> QED
  BY <1>14, <1>15

\* The first entry under a node, and the one behind the last.
Lo(x) == leftmost_leaf_index[x]
Stop(x) == leftmost_leaf_index[x] + span[x]

\* A node is over the block between them.
LEMMA NodeEnds ==
  /\ \A lo, s : Block(lo, s) => Lo(Node(lo, s)) = lo /\ Stop(Node(lo, s)) = lo + s
  /\ \A x \in Nat : \E lo \in Nat, s \in Nat \ {0} :
       x = Node(lo, s) /\ Block(lo, s) /\ s \in Pow /\ Lo(x) = lo /\ Stop(x) = lo + s
<1>1. ASSUME NEW lo, NEW s, Block(lo, s) PROVE Lo(Node(lo, s)) = lo /\ Stop(Node(lo, s)) = lo + s
  <2>1. leftmost_leaf_index[Node(lo, s)] = lo /\ span[Node(lo, s)] = s
    BY <1>1, LeftmostOf DEF Block
  <2> QED
    BY <2>1 DEF Lo, Stop
<1>2. ASSUME NEW x \in Nat
      PROVE  \E lo \in Nat, s \in Nat \ {0} :
               x = Node(lo, s) /\ Block(lo, s) /\ s \in Pow /\ Lo(x) = lo /\ Stop(x) = lo + s
  <2>1. PICK lo \in Nat, s \in Pow : x = Node(lo, s) /\ Block(lo, s)
    BY BlockOf
  <2>2. s \in Nat \ {0} /\ Lo(x) = lo /\ Stop(x) = lo + s
    BY <1>1, <2>1 DEF Block
  <2> QED
    BY <2>1, <2>2
<1> QED
  BY <1>1, <1>2

\* Both are numbers, the second greater.
LEMMA StopsAreEntries ==
  ASSUME NEW x \in Nat
  PROVE  Lo(x) \in Nat /\ Stop(x) \in Nat /\ Lo(x) < Stop(x)
<1>1. PICK lo \in Nat, s \in Nat \ {0} : x = Node(lo, s) /\ Block(lo, s) /\ Lo(x) = lo /\ Stop(x) = lo + s
  BY NodeEnds
<1> QED
  BY <1>1

\* Adding twice a power of two keeps the span of a node that is not wider.
LEMMA SpanShifted ==
  \A x \in Nat, k \in Pow : span[x] <= k => span[x + 2 * k] = span[x]
<1> DEFINE Right(x) == \A k \in Pow : span[x] <= k => span[x + 2 * k] = span[x]
           Wrong == {x \in Nat : ~Right(x)}
<1>1. ASSUME Wrong # {} PROVE FALSE
  <2>1. PICK x \in Wrong : \A y \in Nat : y < x => y \notin Wrong
    <3>1. Wrong \in SUBSET Nat
      OBVIOUS
    <3> HIDE DEF Wrong
    <3> QED
      BY <1>1, <3>1, LeastElement
  <2>2. x \in Nat /\ ~Right(x)
    OBVIOUS
  <2>3. \A y \in Nat : y < x => Right(y)
    BY <2>1
  <2>4. PICK k \in Pow : span[x] <= k /\ span[x + 2 * k] # span[x]
    BY <2>2
  <2> HIDE DEF Wrong
  <2>5. k \in Nat \ {0}
    BY PowHalves
  <2>6. PICK z \in Nat : z = x + 2 * k /\ (z % 2 = 0 <=> x % 2 = 0)
    BY <2>2, <2>5
  <2>7. CASE x % 2 = 0
    BY <2>2, <2>4, <2>6, <2>7, SpanDefined
  <2>8. CASE x % 2 # 0
    <3>1. PICK y \in Nat : y = x \div 2 /\ x = 2 * y + 1 /\ y < x
      BY <2>2, <2>8
    <3>2. PICK q \in Nat \ {0} : q = span[y] /\ span[x] = 2 * q
      <4>1. span[y] \in Nat \ {0} /\ span[x] = 2 * span[y]
        BY <2>2, <2>8, <3>1, SpanDefined, SpanBounds
      <4> QED
        BY <4>1
    <3>3. k # 1
      BY <2>4, <3>2
    <3>4. PICK h \in Pow : h \in Nat \ {0} /\ k = 2 * h
      <4>1. k \div 2 \in Pow /\ 2 * (k \div 2) = k
        BY <3>3, PowHalves
      <4>2. k \div 2 \in Nat \ {0}
        BY <4>1, PowHalves
      <4> QED
        BY <4>1, <4>2
    <3>5. q <= h
      BY <2>4, <3>2, <3>4
    <3>6. span[y + 2 * h] = span[y]
      BY <2>3, <3>1, <3>2, <3>5
    <3>7. PICK w \in Nat : w = y + 2 * h /\ z \div 2 = w
      BY <2>6, <3>1, <3>4
    <3>8. span[z] = 2 * span[w]
      BY <2>6, <2>8, <3>7, SpanDefined
    <3> QED
      BY <2>4, <2>6, <3>2, <3>6, <3>7, <3>8
  <2> QED
    BY <2>7, <2>8
<1>2. \A x \in Nat : Right(x)
  BY <1>1
<1> HIDE DEF Right
<1> QED
  BY <1>2, Zenon DEF Right

\* A node of the first k entries, moved to the k that follow.
LEMMA NodeShifted ==
  ASSUME NEW k \in Pow, NEW x \in Nat, Stop(x) <= k
  PROVE  k \in Nat \ {0} /\ Lo(x) \in Nat /\ Lo(x + 2 * k) = Lo(x) + k /\ Stop(x + 2 * k) = Stop(x) + k
<1>1. PICK lo \in Nat, s \in Nat \ {0} : x = Node(lo, s) /\ Block(lo, s) /\ Lo(x) = lo /\ Stop(x) = lo + s
  BY NodeEnds
<1>2. k \in Nat \ {0}
  BY PowHalves
<1>3. span[x] = s
  BY <1>1 DEF Block
<1>4. s <= k
  BY <1>1, <1>2
<1>5. span[x + 2 * k] = s
  BY <1>3, <1>4, SpanShifted
<1>6. Node(lo + k, s) = x + 2 * k
  BY <1>1, <1>2 DEF Node
<1>7. Block(lo + k, s)
  BY <1>1, <1>2, <1>5, <1>6 DEF Block
<1>8. Lo(x + 2 * k) = lo + k /\ Stop(x + 2 * k) = (lo + k) + s
  BY <1>6, <1>7, NodeEnds
<1> QED
  BY <1>1, <1>2, <1>8

\* The nodes of a list lie in a log of N entries and have no leaf in common.
Disjoint(x, y) == Stop(x) <= Lo(y) \/ Stop(y) <= Lo(x)
Spread(s, N) ==
  /\ s \in Seq(Nat)
  /\ \A i \in 1 .. Len(s) : Stop(s[i]) <= N
  /\ \A i, k \in 1 .. Len(s) : i # k => Disjoint(s[i], s[k])

\* ... and one of them ends the log.
Closes(s, N) == \E i \in 1 .. Len(s) : Stop(s[i]) = N

\* A node behind the others may be appended.
LEMMA SpreadAppend ==
  ASSUME NEW k \in Nat, NEW N \in Nat, k <= N, NEW s, Spread(s, k), NEW x \in Nat, Lo(x) = k, Stop(x) = N
  PROVE  Spread(Append(s, x), N) /\ Closes(Append(s, x), N)
<1>1. s \in Seq(Nat)
  BY DEF Spread
<1>2. PICK l \in Nat : l = Len(s)
  BY <1>1
<1>3. PICK r : r = Append(s, x)
  OBVIOUS
<1>4. r \in Seq(Nat) /\ Len(r) = l + 1 /\ r[l + 1] = x /\ \A i \in 1 .. l : r[i] = s[i]
  BY <1>1, <1>2, <1>3, AppendProperties
<1>5. \A i \in 1 .. l + 1 : i \in 1 .. l \/ i = l + 1
  BY <1>2
<1>6. \A i \in 1 .. l : s[i] \in Nat /\ Stop(s[i]) <= k
  BY <1>1, <1>2 DEF Spread
<1>7. \A y \in Nat : Stop(y) \in Nat
  BY StopsAreEntries
<1>8. \A i \in 1 .. l + 1 : Stop(r[i]) <= N
  <2> TAKE i \in 1 .. l + 1
  <2>1. CASE i \in 1 .. l
    <3>1. Stop(s[i]) <= k /\ Stop(s[i]) \in Nat /\ r[i] = s[i]
      BY <1>4, <1>6, <1>7, <2>1
    <3> QED
      BY <3>1
  <2>2. CASE i = l + 1
    BY <1>4, <2>2
  <2> QED
    BY <1>5, <2>1, <2>2
<1>9. \A i, j \in 1 .. l + 1 : i # j => Disjoint(r[i], r[j])
  <2> TAKE i, j \in 1 .. l + 1
  <2> HAVE i # j
  <2>1. CASE i \in 1 .. l /\ j \in 1 .. l
    BY <1>2, <1>4, <2>1 DEF Spread
  <2>2. CASE i \in 1 .. l /\ j = l + 1
    BY <1>4, <1>6, <2>2 DEF Disjoint
  <2>3. CASE i = l + 1 /\ j \in 1 .. l
    BY <1>4, <1>6, <2>3 DEF Disjoint
  <2> QED
    BY <1>5, <2>1, <2>2, <2>3
<1>10. Spread(r, N)
  BY <1>4, <1>8, <1>9 DEF Spread
<1>11. Closes(r, N)
  <2>1. l + 1 \in 1 .. Len(r)
    BY <1>2, <1>4
  <2> QED
    BY <1>4, <2>1 DEF Closes
<1> QED
  BY <1>3, <1>10, <1>11

\* A list moved behind a node over the first k entries.
LEMMA SpreadPrepend ==
  ASSUME NEW k \in Pow, NEW N \in Nat, N = 2 * k, NEW s, Spread(s, k), Closes(s, k),
         NEW x \in Nat, Stop(x) = k
  PROVE  Spread(<<x>> \o Shifted(s, k), N) /\ Closes(<<x>> \o Shifted(s, k), N)
<1>1. s \in Seq(Nat) /\ k \in Nat \ {0}
  BY PowHalves DEF Spread
<1>2. PICK l \in Nat : l = Len(s)
  BY <1>1
<1>3. PICK w \in Seq(Nat) : w = Shifted(s, k) /\ Len(w) = l /\ \A i \in 1 .. l : w[i] = s[i] + 2 * k
  BY <1>1, <1>2, ShiftedList
<1>4. PICK r : r = <<x>> \o w
  OBVIOUS
<1>5. r \in Seq(Nat) /\ Len(r) = l + 1 /\ r[1] = x /\ \A i \in 1 .. l : r[i + 1] = w[i]
  <2>1. <<x>> \in Seq(Nat) /\ Len(<<x>>) = 1 /\ <<x>>[1] = x
    OBVIOUS
  <2>2. /\ <<x>> \o w \in Seq(Nat) /\ Len(<<x>> \o w) = Len(<<x>>) + Len(w)
        /\ \A i \in 1 .. Len(<<x>>) + Len(w) :
             (<<x>> \o w)[i] = IF i <= Len(<<x>>) THEN <<x>>[i] ELSE w[i - Len(<<x>>)]
    BY <2>1, ConcatProperties
  <2>3. r \in Seq(Nat) /\ Len(r) = 1 + l
        /\ \A i \in 1 .. 1 + l : r[i] = IF i <= 1 THEN <<x>>[i] ELSE w[i - 1]
    BY <1>3, <1>4, <2>1, <2>2
  <2>4. \A i \in 1 .. l : i + 1 \in 1 .. 1 + l /\ ~(i + 1 <= 1) /\ (i + 1) - 1 = i
    OBVIOUS
  <2>5. \A i \in 1 .. l : r[i + 1] = w[i]
    BY <2>3, <2>4
  <2>6. r[1] = x /\ 1 + l = l + 1
    BY <2>1, <2>3
  <2> QED
    BY <2>3, <2>5, <2>6
<1>6. \A i \in 1 .. l : /\ s[i] \in Nat /\ w[i] \in Nat /\ Lo(s[i]) \in Nat /\ Stop(s[i]) \in Nat
                        /\ Stop(s[i]) <= k
                        /\ Lo(w[i]) = Lo(s[i]) + k /\ Stop(w[i]) = Stop(s[i]) + k
  <2> TAKE i \in 1 .. l
  <2>1. PICK y \in Nat : y = s[i] /\ Stop(y) <= k
    BY <1>1, <1>2 DEF Spread
  <2>2. Lo(y) \in Nat /\ Lo(y + 2 * k) = Lo(y) + k /\ Stop(y + 2 * k) = Stop(y) + k
    BY <2>1, NodeShifted
  <2>3. Stop(y) \in Nat
    BY StopsAreEntries
  <2> QED
    BY <1>3, <2>1, <2>2, <2>3
<1>7. \A i \in 1 .. l + 1 : i = 1 \/ \E j \in 1 .. l : i = j + 1
  <2> TAKE i \in 1 .. l + 1
  <2>1. i # 1 => i - 1 \in 1 .. l /\ i = (i - 1) + 1
    BY <1>2
  <2> QED
    BY <2>1
<1>8. \A i \in 1 .. l + 1 : Stop(r[i]) <= N
  <2> TAKE i \in 1 .. l + 1
  <2>1. CASE i = 1
    BY <1>1, <1>5, <2>1
  <2>2. ASSUME NEW j \in 1 .. l, i = j + 1 PROVE Stop(r[i]) <= N
    <3>1. r[i] = w[j] /\ Stop(w[j]) = Stop(s[j]) + k /\ Stop(s[j]) <= k /\ Stop(s[j]) \in Nat
      BY <1>5, <1>6, <2>2
    <3> QED
      BY <1>1, <3>1
  <2> QED
    BY <1>7, <2>1, <2>2
<1>9. \A j \in 1 .. l : Disjoint(x, w[j]) /\ Disjoint(w[j], x)
  <2> TAKE j \in 1 .. l
  <2>1. k <= Lo(w[j])
    BY <1>1, <1>6
  <2> QED
    BY <2>1 DEF Disjoint
<1>10. \A i, j \in 1 .. l : i # j => Disjoint(w[i], w[j])
  <2> TAKE i, j \in 1 .. l
  <2> HAVE i # j
  <2>1. Disjoint(s[i], s[j])
    BY <1>2 DEF Spread
  <2> QED
    BY <1>1, <1>6, <2>1 DEF Disjoint
<1>11. \A i, j \in 1 .. l + 1 : i # j => Disjoint(r[i], r[j])
  <2> TAKE i, j \in 1 .. l + 1
  <2> HAVE i # j
  <2>1. CASE i = 1
    <3>1. PICK b \in 1 .. l : j = b + 1
      BY <1>7, <2>1
    <3> QED
      BY <1>5, <1>9, <2>1, <3>1
  <2>2. CASE j = 1
    <3>1. PICK b \in 1 .. l : i = b + 1
      BY <1>7, <2>2
    <3> QED
      BY <1>5, <1>9, <2>2, <3>1
  <2>3. CASE i # 1 /\ j # 1
    <3>1. PICK a \in 1 .. l, b \in 1 .. l : i = a + 1 /\ j = b + 1
      BY <1>7, <2>3
    <3>2. Disjoint(w[a], w[b])
      BY <1>10, <3>1
    <3> QED
      BY <1>5, <3>1, <3>2
  <2> QED
    BY <2>1, <2>2, <2>3
<1>12. Spread(r, N)
  BY <1>5, <1>8, <1>11 DEF Spread
<1>13. Closes(r, N)
  <2>1. PICK j \in 1 .. l : Stop(s[j]) = k
    BY <1>2 DEF Closes
  <2>2. j + 1 \in 1 .. Len(r) /\ r[j + 1] = w[j]
    BY <1>2, <1>5
  <2>3. Stop(w[j]) = N
    BY <1>1, <1>6, <2>1
  <2> QED
    BY <2>2, <2>3 DEF Closes
<1> QED
  BY <1>3, <1>4, <1>12, <1>13

\* The Merkle tree over a power of two of entries.
LEMMA RootOfPow ==
  ASSUME NEW N \in Pow
  PROVE  /\ N \in Nat \ {0} /\ msb[N] = N /\ root(N) = Node(0, N) /\ Block(0, N)
         /\ root(N) \in Nat /\ Stop(root(N)) = N
         /\ N # 1 => \E k \in Pow :
              /\ k \in Nat \ {0} /\ N = 2 * k /\ SplitOf(N) = k
              /\ left_child(root(N)) \in Nat /\ Stop(left_child(root(N))) = k
              /\ right_child(root(N), N) \in Nat
              /\ Lo(right_child(root(N), N)) = k /\ Stop(right_child(root(N), N)) = N
<1>1. N \in Nat \ {0}
  BY PowHalves
<1>2. msb[N] = N
  BY <1>1, MsbIsOnly
<1>3. root(N) = Node(0, N)
  BY <1>1, <1>2 DEF root, Node
<1>4. Block(0, N)
  BY BlockOf
<1>5. root(N) \in Nat /\ Stop(root(N)) = N
  BY <1>1, <1>3, <1>4, NodeEnds, BlockOf
<1>6. ASSUME N # 1
      PROVE  \E k \in Pow :
              /\ k \in Nat \ {0} /\ N = 2 * k /\ SplitOf(N) = k
              /\ left_child(root(N)) \in Nat /\ Stop(left_child(root(N))) = k
              /\ right_child(root(N), N) \in Nat
              /\ Lo(right_child(root(N), N)) = k /\ Stop(right_child(root(N), N)) = N
  <2>1. PICK k \in Nat \ {0} :
                /\ N = 2 * k /\ Block(0, k) /\ left_child(Node(0, N)) = Node(0, k)
                /\ 0 + k < N => Block(0 + k, k) /\ right_child(Node(0, N), N) = Node(0 + k, k)
    BY <1>1, <1>4, <1>6, NodeHalves
  <2>2. 0 + k < N /\ 0 + k = k /\ k + k = N
    BY <2>1
  <2>3. Block(k, k) /\ right_child(Node(0, N), N) = Node(k, k)
    BY <2>1, <2>2
  <2>4. k \in Pow /\ Node(0, k) \in Nat /\ Node(k, k) \in Nat
    BY <2>1, <2>3, BlockOf
  <2>5. SplitOf(N) = k
    BY <1>2, <2>1 DEF SplitOf
  <2>6. Stop(Node(0, k)) = k /\ Lo(Node(k, k)) = k /\ Stop(Node(k, k)) = N
    BY <2>1, <2>2, <2>3, NodeEnds
  <2> QED
    BY <1>3, <2>1, <2>3, <2>4, <2>5, <2>6
<1> QED
  BY <1>1, <1>2, <1>3, <1>4, <1>5, <1>6

\* What sub_proof names is disjoint and closes the log, unless the sizes are equal.
LEMMA SubProofSpreads ==
  ASSUME NEW N \in Pow, NEW m \in 1 .. N, NEW b \in BOOLEAN
  PROVE  /\ Spread(sub_proof[<<m, N, b>>], N)
         /\ (m = N /\ b) \/ Closes(sub_proof[<<m, N, b>>], N)
<1> DEFINE Right(d) == \A u \in 1 .. d, e \in BOOLEAN :
                         /\ Spread(sub_proof[<<u, d, e>>], d)
                         /\ (u = d /\ e) \/ Closes(sub_proof[<<u, d, e>>], d)
           Wrong == {d \in Nat : d \in Pow /\ ~Right(d)}
<1>1. ASSUME Wrong # {} PROVE FALSE
  <2>1. PICK d \in Wrong : \A y \in Nat : y < d => y \notin Wrong
    <3>1. Wrong \in SUBSET Nat
      OBVIOUS
    <3> HIDE DEF Wrong
    <3> QED
      BY <1>1, <3>1, LeastElement
  <2>2. d \in Pow /\ ~Right(d)
    OBVIOUS
  <2>3. \A y \in Nat : y < d /\ y \in Pow => Right(y)
    BY <2>1
  <2> HIDE DEF Wrong
  <2>4. PICK u \in 1 .. d, e \in BOOLEAN :
           ~(/\ Spread(sub_proof[<<u, d, e>>], d)
             /\ (u = d /\ e) \/ Closes(sub_proof[<<u, d, e>>], d))
    BY <2>2
  <2>5. \A y \in Nat, v \in Nat, f \in BOOLEAN : y < d /\ y \in Pow /\ v \in 1 .. y =>
          /\ Spread(sub_proof[<<v, y, f>>], y)
          /\ (v = y /\ f) \/ Closes(sub_proof[<<v, y, f>>], y)
    BY <2>3
  <2> HIDE DEF Right
  <2>6. d \in Nat \ {0} /\ root(d) \in Nat /\ Stop(root(d)) = d
    BY <2>2, RootOfPow
  <2>7. <<u, d, e>> \in ProofArgs
    <3>1. u \in Nat \ {0} /\ u <= d
      BY <2>6
    <3> QED
      BY <2>6, <3>1 DEF ProofArgs
  <2>8. PICK s : s = sub_proof[<<u, d, e>>]
    OBVIOUS
  <2>9. s = IF u = d THEN (IF e THEN <<>> ELSE <<root(u)>>)
            ELSE IF u <= SplitOf(d) THEN Append(sub_proof[<<u, SplitOf(d), e>>], right_child(root(d), d))
            ELSE <<left_child(root(d))>> \o Shifted(sub_proof[<<u - SplitOf(d), d - SplitOf(d), FALSE>>], SplitOf(d))
    <3>1. s = Proving(<<u, d, e>>, sub_proof)
      BY <2>7, <2>8, SubProofDefined
    <3>2. <<u, d, e>>[1] = u /\ <<u, d, e>>[2] = d /\ <<u, d, e>>[3] = e
      OBVIOUS
    <3> QED
      BY <3>1, <3>2, Zenon DEF Proving
  <2>10. CASE u = d /\ e
    <3>1. s = <<>>
      BY <2>9, <2>10
    <3>2. Spread(<<>>, d)
      BY DEF Spread
    <3> QED
      BY <2>4, <2>8, <2>10, <3>1, <3>2
  <2>11. CASE u = d /\ ~e
    <3>1. s = <<root(d)>>
      BY <2>9, <2>11
    <3>2. PICK x \in Nat : x = root(d) /\ Stop(x) = d
      BY <2>6
    <3>3. <<x>> \in Seq(Nat) /\ Len(<<x>>) = 1 /\ <<x>>[1] = x
      OBVIOUS
    <3>4. \A i \in 1 .. 1 : i = 1
      OBVIOUS
    <3>5. Spread(<<x>>, d)
      BY <2>6, <3>2, <3>3, <3>4 DEF Spread
    <3>6. Closes(<<x>>, d)
      BY <3>2, <3>3 DEF Closes
    <3> QED
      BY <2>4, <2>8, <3>1, <3>2, <3>5, <3>6
  <2>12. CASE u # d
    <3>1. d # 1 /\ u \in Nat \ {0} /\ u <= d
      BY <2>6, <2>12
    <3>2. PICK k \in Pow :
              /\ k \in Nat \ {0} /\ d = 2 * k /\ SplitOf(d) = k
              /\ left_child(root(d)) \in Nat /\ Stop(left_child(root(d))) = k
              /\ right_child(root(d), d) \in Nat
              /\ Lo(right_child(root(d), d)) = k /\ Stop(right_child(root(d), d)) = d
      BY <2>2, <3>1, RootOfPow
    <3>3. k < d /\ d - k = k /\ k <= d
      BY <3>2
    <3>4. CASE u <= k
      <4>1. PICK w : w = sub_proof[<<u, k, e>>] /\ Spread(w, k)
        <5>1. u \in 1 .. k
          BY <3>1, <3>2, <3>4
        <5> QED
          BY <2>5, <3>1, <3>2, <3>3, <5>1
      <4>2. s = Append(w, right_child(root(d), d))
        BY <2>9, <2>12, <3>2, <3>4, <4>1
      <4>3. Spread(s, d) /\ Closes(s, d)
        BY <2>6, <3>2, <3>3, <4>1, <4>2, SpreadAppend
      <4> QED
        BY <2>4, <2>8, <4>3
    <3>5. CASE ~(u <= k)
      <4>1. PICK v \in Nat : v = u - k /\ v \in 1 .. k
        BY <3>1, <3>2, <3>5
      <4>2. PICK w : w = sub_proof[<<v, k, FALSE>>] /\ Spread(w, k) /\ Closes(w, k)
        <5>1. /\ Spread(sub_proof[<<v, k, FALSE>>], k)
              /\ (v = k /\ FALSE) \/ Closes(sub_proof[<<v, k, FALSE>>], k)
          BY <2>5, <3>2, <3>3, <4>1
        <5> QED
          BY <5>1
      <4>3. s = <<left_child(root(d))>> \o Shifted(w, k)
        BY <2>9, <2>12, <3>2, <3>3, <3>5, <4>1, <4>2
      <4>4. Spread(s, d) /\ Closes(s, d)
        BY <2>6, <3>2, <4>2, <4>3, SpreadPrepend
      <4> QED
        BY <2>4, <2>8, <4>4
    <3> QED
      BY <3>4, <3>5
  <2> QED
    BY <2>10, <2>11, <2>12
<1>2. N \in Nat
  BY PowHalves
<1>3. Right(N)
  BY <1>1, <1>2
<1> QED
  BY <1>3

\* The nodes met below a node whose block lies in the log: those over the blocks inside it.
LEMMA ReachesBelow ==
  ASSUME NEW N \in Nat, NEW L, NEW S, Block(L, S), L + S <= N,
         NEW x \in Nat, L <= Lo(x), Stop(x) <= L + S
  PROVE  x \in Reach(Node(L, S), N)
<1> DEFINE Is(f) == f = [y \in Nat |->
                           IF is_leaf(y) THEN {y}
                           ELSE {y} \cup f[left_child(y)] \cup f[right_child(y, N)]]
           c == CHOOSE f : Is(f)
<1>1. Reach(Node(L, S), N) = c[Node(L, S)]
  BY DEF Reach
<1>2. \E f : Is(f)
  <2>1. PICK V : V = SUBSET Nat
    OBVIOUS
  <2>2. PICK leaf : leaf = [y \in Nat |-> {y}]
    OBVIOUS
  <2>3. PICK join : join = [p \in Nat \X V \X V |-> {p[1]} \cup p[2] \cup p[3]]
    OBVIOUS
  <2>4. leaf \in [Nat -> V]
    <3>1. \A y \in Nat : {y} \in V
      BY <2>1
    <3> QED
      BY <2>2, <3>1
  <2>5. join \in [Nat \X V \X V -> V]
    <3>1. ASSUME NEW p \in Nat \X V \X V
          PROVE ({p[1]} \cup p[2] \cup p[3]) \in V
      <4>1. p[1] \in Nat /\ p[2] \in V /\ p[3] \in V
        OBVIOUS
      <4>2. {p[1]} \subseteq Nat /\ p[2] \subseteq Nat /\ p[3] \subseteq Nat
        BY <2>1, <4>1
      <4>3. ({p[1]} \cup p[2] \cup p[3]) \subseteq Nat
        BY <4>2, Zenon
      <4> QED
        BY <2>1, <4>3
    <3> QED
      BY <2>3, <3>1
  <2>6. PICK f \in [Nat -> V] : \A y \in Nat : f[y] = OverTree(N, leaf, join, y, f)
    <3>1. \E f \in [Nat -> V] : \A y \in Nat : f[y] = OverTree(N, leaf, join, y, f)
      <4>1. N \in Nat /\ leaf \in [Nat -> V] /\ join \in [Nat \X V \X V -> V]
        BY <2>4, <2>5
      <4> QED
        BY <4>1, OverTreeDefined, ZenonT(30)
    <3> QED
      BY <3>1
  <2>7. ASSUME NEW y \in Nat
        PROVE  f[y] = IF is_leaf(y) THEN {y}
                      ELSE {y} \cup f[left_child(y)] \cup f[right_child(y, N)]
    <3>1. CASE is_leaf(y)
      BY <2>2, <2>6, <3>1 DEF OverTree
    <3>2. CASE ~is_leaf(y)
      <4>1. left_child(y) \in Nat /\ right_child(y, N) \in Nat
        BY <3>2, ChildrenAreSmaller
      <4>2. PICK p : p = <<y, f[left_child(y)], f[right_child(y, N)]>>
        OBVIOUS
      <4>3. p \in Nat \X V \X V /\ p[1] = y /\ p[2] = f[left_child(y)] /\ p[3] = f[right_child(y, N)]
        BY <4>1, <4>2
      <4>4. f[y] = join[p]
        BY <2>6, <3>2, <4>2 DEF OverTree
      <4>5. join[p] = {p[1]} \cup p[2] \cup p[3]
        BY <2>3, <4>3, Zenon
      <4> QED
        BY <3>2, <4>3, <4>4, <4>5, Zenon
    <3> QED
      BY <3>1, <3>2
  <2>8. Is(f)
    BY <2>7
  <2> QED
    BY <2>8
<1>3. Is(c)
  BY <1>2
<1>4. \A y \in Nat : c[y] = IF is_leaf(y) THEN {y}
                            ELSE {y} \cup c[left_child(y)] \cup c[right_child(y, N)]
  BY <1>3
<1> HIDE DEF c, Is
<1>5. PICK lo \in Nat, s \in Nat \ {0} : x = Node(lo, s) /\ Block(lo, s) /\ Lo(x) = lo /\ Stop(x) = lo + s
  BY NodeEnds
<1> DEFINE Right(d) == \A l : Block(l, d) /\ l + d <= N /\ l <= lo /\ lo + s <= l + d => x \in c[Node(l, d)]
           Wrong == {d \in Nat : ~Right(d)}
<1>6. ASSUME Wrong # {} PROVE FALSE
  <2>1. PICK d \in Wrong : \A y \in Nat : y < d => y \notin Wrong
    <3>1. Wrong \in SUBSET Nat
      OBVIOUS
    <3> HIDE DEF Wrong
    <3> QED
      BY <1>6, <3>1, LeastElement
  <2>2. d \in Nat /\ ~Right(d) /\ \A y \in Nat : y < d => Right(y)
    BY <2>1
  <2>3. PICK l : Block(l, d) /\ l + d <= N /\ l <= lo /\ lo + s <= l + d /\ x \notin c[Node(l, d)]
    BY <2>2
  <2>4. \A y \in Nat, k \in Nat : y < d /\ Block(k, y) /\ k + y <= N /\ k <= lo /\ lo + s <= k + y
                                    => x \in c[Node(k, y)]
    BY <2>2
  <2> HIDE DEF Wrong, Right
  <2>5. l \in Nat /\ d \in Nat \ {0}
    BY <2>3 DEF Block
  <2>6. l < N
    BY <2>3, <2>5
  <2>7. PICK z \in Nat : z = Node(l, d) /\ (is_leaf(z) <=> d = 1)
    BY <2>3, <2>6, NodeHalves
  <2>8. x # z
    <3>1. z \in c[z]
      BY <1>4
    <3> QED
      BY <2>3, <2>7, <3>1
  <2>9. d # 1
    <3>1. d = 1 => s = 1 /\ lo = l
      BY <1>5, <2>3, <2>5
    <3> QED
      BY <1>5, <2>7, <2>8, <3>1
  <2>10. PICK h \in Nat \ {0} :
                /\ d = 2 * h /\ Block(l, h) /\ left_child(z) = Node(l, h)
                /\ l + h < N => Block(l + h, h) /\ right_child(z, N) = Node(l + h, h)
    BY <2>3, <2>6, <2>7, <2>9, NodeHalves
  <2>11. l + h < N /\ l + h \in Nat /\ h < d /\ l + h <= N /\ (l + h) + h <= N /\ (l + h) + h = l + d
    BY <2>3, <2>5, <2>10
  <2>12. c[z] = {z} \cup c[Node(l, h)] \cup c[Node(l + h, h)]
    <3>1. Block(l + h, h) /\ right_child(z, N) = Node(l + h, h)
      BY <2>10, <2>11
    <3> QED
      BY <1>4, <2>7, <2>9, <2>10, <3>1
  <2>13. ~(lo + s <= l + h)
    <3>1. lo + s <= l + h => x \in c[Node(l, h)]
      BY <2>3, <2>4, <2>5, <2>10, <2>11
    <3> QED
      BY <2>3, <2>7, <2>12, <3>1
  <2>14. ~(l + h <= lo)
    <3>1. l + h <= lo => x \in c[Node(l + h, h)]
      BY <2>3, <2>4, <2>5, <2>10, <2>11
    <3> QED
      BY <2>3, <2>7, <2>12, <3>1
  <2>15. span[z] = d /\ span[x] = s
    BY <1>5, <2>3, <2>7 DEF Block
  <2>16. z = 2 * l + d - 1 /\ x = 2 * lo + s - 1
    BY <1>5, <2>7 DEF Node
  <2>17. CASE x < z
    <3>1. z - d < x
      BY <1>5, <2>3, <2>5, <2>16
    <3>2. x + s <= z
      BY <2>7, <2>15, <2>17, <3>1, SubtreesNest
    <3>3. lo + s <= l + h
      BY <1>5, <2>5, <2>10, <2>16, <3>2
    <3> QED
      BY <2>13, <3>3
  <2>18. CASE z < x
    <3>1. x < z + d
      BY <1>5, <2>3, <2>5, <2>16
    <3>2. z <= x - s
      BY <2>7, <2>15, <2>18, <3>1, SubtreesNest
    <3>3. l + h <= lo
      BY <1>5, <2>5, <2>10, <2>16, <3>2
    <3> QED
      BY <2>14, <3>3
  <2> QED
    BY <2>7, <2>8, <2>17, <2>18
<1>7. S \in Nat
  BY DEF Block
<1>8. Right(S)
  BY <1>6, <1>7
<1>9. x \in c[Node(L, S)]
  BY <1>5, <1>8
<1> QED
  BY <1>1, <1>9

\* The leaves under a node whose block lies in the log.
LEMMA LeavesOfNode ==
  ASSUME NEW N \in Nat, NEW x \in Nat, Stop(x) <= N
  PROVE  Lo(x) \in Nat /\ Stop(x) \in Nat /\ Lo(x) < Stop(x)
         /\ ToSet(LeavesUnder(x, N)) = Lo(x) .. Stop(x) - 1
<1>1. PICK lo \in Nat, s \in Nat \ {0} : x = Node(lo, s) /\ Block(lo, s) /\ Lo(x) = lo /\ Stop(x) = lo + s
  BY NodeEnds
<1>2. lo < N /\ EndOf(lo, s, N) = lo + s /\ lo <= lo + s /\ lo <= lo /\ lo + s \in Nat
  BY <1>1 DEF EndOf
<1>3. LeavesUnder(x, N) = Entries(lo, lo + s)
  BY <1>1, <1>2, LeavesAre
<1>4. ToSet(Entries(lo, lo + s)) = lo .. (lo + s) - 1
  BY <1>2, EntriesJoin
<1> QED
  BY <1>1, <1>2, <1>3, <1>4

\* ConsistencyProofCovers for every size.
LEMMA ConsistencyCoversAll ==
  ASSUME n \in Nat, t \in Nat
  PROVE  ConsistencyProofCovers
<1> SUFFICES ASSUME AreEntries, t > 0, msb[n] = n
             PROVE  /\ ToSet(consistency_proof(t, n)) \subseteq Reach(merkle_root(n), n)
                    /\ \A i, k \in DOMAIN consistency_proof(t, n) :
                         i # k => ToSet(LeavesUnder(consistency_proof(t, n)[i], n))
                                    \cap ToSet(LeavesUnder(consistency_proof(t, n)[k], n)) = {}
                    /\ \E i \in DOMAIN consistency_proof(t, n) :
                         n - 1 \in ToSet(LeavesUnder(consistency_proof(t, n)[i], n))
  BY Zenon DEF ConsistencyProofCovers
<1>1. n \in Nat \ {0} /\ t \in 1 .. n /\ t # n /\ t # 0 /\ ~(t >= n)
  BY DEF AreEntries
<1>2. n \in Pow
  BY <1>1, MsbIsPow
<1>3. merkle_root(n) = Node(0, n) /\ Block(0, n)
  <2>1. PICK s \in Pow : /\ s \in Nat \ {0} /\ merkle_root(n) = Node(0, s) /\ Block(0, s)
                         /\ n <= s /\ s < 2 * n
    BY <1>1, MerkleRootOf
  <2>2. n < s => 2 * n <= s
    BY <1>2, PowGap
  <2>3. s = n
    BY <1>1, <2>1, <2>2
  <2> QED
    BY <2>1, <2>3
<1>4. PICK p : p = consistency_proof(t, n)
  OBVIOUS
<1>5. p = sub_proof[<<t, n, TRUE>>]
  BY <1>1, <1>4 DEF consistency_proof
<1>6. Spread(p, n) /\ Closes(p, n)
  <2>1. /\ Spread(sub_proof[<<t, n, TRUE>>], n)
        /\ (t = n /\ TRUE) \/ Closes(sub_proof[<<t, n, TRUE>>], n)
    BY <1>1, <1>2, SubProofSpreads
  <2> QED
    BY <1>1, <1>5, <2>1
<1>7. PICK l \in Nat : l = Len(p) /\ DOMAIN p = 1 .. l /\ p \in Seq(Nat)
  BY <1>6 DEF Spread
<1>8. \A i \in 1 .. l : /\ p[i] \in Nat /\ Stop(p[i]) <= n
                        /\ Lo(p[i]) \in Nat /\ Stop(p[i]) \in Nat /\ Lo(p[i]) < Stop(p[i])
                        /\ ToSet(LeavesUnder(p[i], n)) = Lo(p[i]) .. Stop(p[i]) - 1
  <2> TAKE i \in 1 .. l
  <2>1. p[i] \in Nat /\ Stop(p[i]) <= n
    BY <1>6, <1>7 DEF Spread
  <2> QED
    BY <2>1, LeavesOfNode
<1>9. ToSet(p) \subseteq Reach(merkle_root(n), n)
  <2>1. ASSUME NEW i \in 1 .. l PROVE p[i] \in Reach(merkle_root(n), n)
    <3>1. PICK x \in Nat : x = p[i] /\ 0 <= Lo(x) /\ Stop(x) <= 0 + n
      BY <1>8, SMTT(30)
    <3>2. 0 + n <= n
      OBVIOUS
    <3>3. x \in Reach(Node(0, n), n)
      BY <1>3, <3>1, <3>2, ReachesBelow
    <3> QED
      BY <1>3, <3>1, <3>3
  <2> QED
    BY <1>7, <2>1, Zenon DEF ToSet
<1>10. \A i, k \in 1 .. l : i # k => ToSet(LeavesUnder(p[i], n)) \cap ToSet(LeavesUnder(p[k], n)) = {}
  <2> TAKE i, k \in 1 .. l
  <2> HAVE i # k
  <2>1. Disjoint(p[i], p[k])
    BY <1>6, <1>7 DEF Spread
  <2>2. (Lo(p[i]) .. Stop(p[i]) - 1) \cap (Lo(p[k]) .. Stop(p[k]) - 1) = {}
    <3>1. PICK a \in Nat, b \in Nat : a = Lo(p[i]) /\ b = Stop(p[i])
      BY <1>8
    <3>2. PICK d \in Nat, e \in Nat : d = Lo(p[k]) /\ e = Stop(p[k])
      BY <1>8
    <3>3. b <= d \/ e <= a
      BY <2>1, <3>1, <3>2 DEF Disjoint
    <3>4. (a .. b - 1) \cap (d .. e - 1) = {}
      BY <3>3
    <3> QED
      BY <3>1, <3>2, <3>4
  <2> QED
    BY <1>8, <2>2
<1>11. \E i \in 1 .. l : n - 1 \in ToSet(LeavesUnder(p[i], n))
  <2>1. PICK i \in 1 .. l : Stop(p[i]) = n
    BY <1>6, <1>7 DEF Closes
  <2>2. n - 1 \in Lo(p[i]) .. Stop(p[i]) - 1
    BY <1>1, <1>8, <2>1
  <2> QED
    BY <1>8, <2>2
<1> QED
  BY <1>4, <1>7, <1>9, <1>10, <1>11, Zenon

\* The search tree and the Merkle tree over the same entries, their peaks, frontier, paths,
\* chunks and consistency proofs, for every number of entries and every entry or older size.
THEOREM TreesMatch ==
  ASSUME n \in Nat, t \in Nat
  PROVE  IndexTreesAgree
<1> QED
  BY WalksAgreeAll, FrontierEndsAll, PeaksCoverAll, RootCoversAll, ChunksHoldAll, ConsistencyCoversAll
     DEF IndexTreesAgree
=============================================================================
