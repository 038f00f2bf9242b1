---------------------------- MODULE LogMathProofs ----------------------------
(***************************************************************************)
(* What the recursive definitions of LogMath compute, for every log size.  *)
(* A recursive function is what its equation says once some function is    *)
(* known to satisfy that equation; Recursion provides one whenever the     *)
(* value at a number depends on smaller numbers only.  What holds at every *)
(* number is then shown by looking at the least one where it would not.    *)
(***************************************************************************)
EXTENDS LogMath, SequenceTheorems, WellFoundedInduction, TLAPS

\* A nonempty set of natural numbers has a least element.
LEMMA LeastElement ==
  ASSUME NEW S \in SUBSET Nat, S # {}
  PROVE  \E m \in S : \A n \in Nat : n < m => n \notin S
<1>1. PICK m \in S : \A n \in S : ~(<<n, m>> \in OpToRel(<, Nat))
  BY NatLessThanWellFounded, WFMin
<1>2. ASSUME NEW n \in Nat, n < m, n \in S PROVE FALSE
  BY <1>1, <1>2 DEF OpToRel
<1> QED
  BY <1>2

\* F computes the value at n from values at smaller arguments.
Recursive(F, V) ==
  /\ F \in [[Nat -> V] \X Nat -> V]
  /\ \A f, g \in [Nat -> V], n \in Nat :
       (\A m \in 0 .. n - 1 : f[m] = g[m]) => F[<<f, n>>] = F[<<g, n>>]

\* A function on the natural numbers may be defined from its values at smaller arguments.
LEMMA Recursion ==
  ASSUME NEW V, NEW v \in V, NEW F, Recursive(F, V)
  PROVE  \E f \in [Nat -> V] : \A n \in Nat : f[n] = F[<<f, n>>]
<1> DEFINE Upto(n, f) == \A m \in 0 .. n : f[m] = F[<<f, m>>]
           Missing == {n \in Nat : ~\E f \in [Nat -> V] : Upto(n, f)}
<1> USE DEF Recursive
<1>0. \A f \in [Nat -> V], n \in Nat : F[<<f, n>>] \in V
  OBVIOUS
<1>1. ASSUME Missing # {} PROVE FALSE
  <2>1. PICK n \in Missing : \A m \in Nat : m < n => m \notin Missing
    <3>1. Missing \in SUBSET Nat
      OBVIOUS
    <3> HIDE DEF Missing
    <3> QED
      BY <1>1, <3>1, LeastElement
  <2>2. n \in Nat /\ ~\E f \in [Nat -> V] : Upto(n, f)
    OBVIOUS
  <2>2a. n \in Nat
    OBVIOUS
  <2>3. \E g \in [Nat -> V] : \A m \in 0 .. n - 1 : g[m] = F[<<g, m>>]
    <3>1. CASE n = 0
      <4>1. [x \in Nat |-> v] \in [Nat -> V] /\ 0 .. n - 1 = {}
        BY <3>1
      <4> QED
        BY <4>1
    <3>2. CASE n # 0
      <4>1. n - 1 \in Nat /\ n - 1 < n
        BY <2>2, <3>2
      <4> QED
        BY <2>1, <4>1
    <3> QED
      BY <3>1, <3>2
  <2>4. PICK g \in [Nat -> V] : \A m \in 0 .. n - 1 : g[m] = F[<<g, m>>]
    BY <2>3
  <2>5. PICK f : f = [g EXCEPT ![n] = F[<<g, n>>]]
    OBVIOUS
  <2>6. f \in [Nat -> V]
    BY <1>0, <2>2, <2>5
  <2>7. \A m \in Nat : m < n => f[m] = g[m]
    BY <2>2, <2>5
  <2>8. f[n] = F[<<g, n>>]
    BY <2>2, <2>5
  <2>9. \A m \in 0 .. n : F[<<f, m>>] = F[<<g, m>>]
    <3> TAKE m \in 0 .. n
    <3>1. m \in Nat /\ \A k \in 0 .. m - 1 : f[k] = g[k]
      BY <2>2, <2>7
    <3> QED
      BY <2>4, <2>6, <3>1
  <2>10. \A m \in 0 .. n : f[m] = F[<<f, m>>]
    <3> TAKE m \in 0 .. n
    <3>1. CASE m = n
      BY <2>8, <2>9, <3>1
    <3>2. CASE m # n
      <4>1. m \in 0 .. n - 1 /\ m \in Nat /\ m < n
        BY <2>2a, <3>2
      <4> QED
        BY <2>4, <2>7, <2>9, <4>1
    <3> QED
      BY <3>1, <3>2
  <2> QED
    BY <2>2, <2>6, <2>10
<1>2. \A n \in Nat : \E f \in [Nat -> V] : Upto(n, f)
  BY <1>1
<1>3. ASSUME NEW f \in [Nat -> V], NEW g \in [Nat -> V], NEW n \in Nat, NEW m \in Nat,
             Upto(n, f), Upto(m, g), n <= m
      PROVE  \A k \in 0 .. n : f[k] = g[k]
  <2> DEFINE Apart == {k \in 0 .. n : f[k] # g[k]}
  <2>1. ASSUME Apart # {} PROVE FALSE
    <3>1. PICK k \in Apart : \A j \in Nat : j < k => j \notin Apart
      <4>1. Apart \in SUBSET Nat
        OBVIOUS
      <4> HIDE DEF Apart
      <4> QED
        BY <2>1, <4>1, LeastElement
    <3>2. k \in Nat /\ k \in 0 .. n /\ k \in 0 .. m /\ f[k] # g[k]
      BY <1>3
    <3>3. \A j \in 0 .. k - 1 : f[j] = g[j]
      BY <3>1, <3>2
    <3>4. F[<<f, k>>] = F[<<g, k>>]
      BY <3>2, <3>3
    <3> QED
      BY <1>3, <3>2, <3>4
  <2> QED
    BY <2>1
<1>4. PICK h : h = [n \in Nat |-> CHOOSE f \in [Nat -> V] : Upto(n, f)]
  OBVIOUS
<1>5. \A n \in Nat : h[n] \in [Nat -> V] /\ Upto(n, h[n])
  BY <1>2, <1>4
<1>6. PICK f : f = [n \in Nat |-> h[n][n]]
  OBVIOUS
<1>7. f \in [Nat -> V]
  BY <1>5, <1>6
<1> HIDE DEF Upto
<1>8. ASSUME NEW n \in Nat PROVE f[n] = F[<<f, n>>]
  <2>1. \A m \in 0 .. n : h[m][m] = h[n][m]
    <3> TAKE m \in 0 .. n
    <3>1. m \in Nat /\ m <= n /\ m \in 0 .. m
      OBVIOUS
    <3> QED
      BY <1>3, <1>5, <3>1
  <2>2. \A m \in 0 .. n - 1 : f[m] = h[n][m]
    BY <1>6, <2>1
  <2>3. F[<<f, n>>] = F[<<h[n], n>>]
    BY <1>5, <1>7, <2>2
  <2>4. n \in 0 .. n /\ f[n] = h[n][n]
    BY <1>6
  <2>5. h[n][n] = F[<<h[n], n>>]
    BY <1>5, <2>4 DEF Upto
  <2> QED
    BY <2>3, <2>4, <2>5
<1> QED
  BY <1>7, <1>8

\* A loop whose step keeps the state in V.
Looped(V, v, G, n, f) == f = [k \in 0 .. n |-> IF k = 0 THEN v ELSE G[<<f[k - 1], k>>]]

\* Such a loop is defined, and its states are in V.
LEMMA LoopDefined ==
  ASSUME NEW n \in Nat, NEW V, NEW v \in V, NEW G \in [V \X (1 .. n) -> V]
  PROVE  \E f \in [0 .. n -> V] : Looped(V, v, G, n, f)
<1> DEFINE F == [a \in [Nat -> V] \X Nat |->
                   IF a[2] = 0 \/ a[2] > n THEN v ELSE G[<<a[1][a[2] - 1], a[2]>>]]
<1>1. ASSUME NEW f \in [Nat -> V], NEW k \in Nat, ~(k = 0 \/ k > n)
      PROVE  <<f[k - 1], k>> \in V \X (1 .. n) /\ G[<<f[k - 1], k>>] \in V
  <2>1. k - 1 \in Nat /\ k \in 1 .. n
    BY <1>1
  <2>2. f[k - 1] \in V
    BY <2>1
  <2>3. <<f[k - 1], k>> \in V \X (1 .. n)
    BY <2>1, <2>2
  <2> QED
    BY <2>3
<1>2. \A f \in [Nat -> V], k \in Nat :
         F[<<f, k>>] = IF k = 0 \/ k > n THEN v ELSE G[<<f[k - 1], k>>]
  OBVIOUS
<1>3. F \in [[Nat -> V] \X Nat -> V]
  <2>1. \A a \in [Nat -> V] \X Nat :
          (IF a[2] = 0 \/ a[2] > n THEN v ELSE G[<<a[1][a[2] - 1], a[2]>>]) \in V
    BY <1>1
  <2> QED
    BY <2>1
<1> HIDE DEF F
<1>4. ASSUME NEW f \in [Nat -> V], NEW g \in [Nat -> V], NEW k \in Nat,
             \A m \in 0 .. k - 1 : f[m] = g[m]
      PROVE  F[<<f, k>>] = F[<<g, k>>]
  <2>1. k # 0 => f[k - 1] = g[k - 1]
    BY <1>4
  <2> QED
    BY <1>2, <2>1
<1>5. Recursive(F, V)
  BY <1>3, <1>4 DEF Recursive
<1>6. PICK f \in [Nat -> V] : \A k \in Nat : f[k] = F[<<f, k>>]
  BY <1>5, Recursion
<1>7. PICK g : g = [k \in 0 .. n |-> f[k]]
  OBVIOUS
<1>8. g \in [0 .. n -> V]
  BY <1>7
<1>9. ASSUME NEW k \in 0 .. n PROVE g[k] = IF k = 0 THEN v ELSE G[<<g[k - 1], k>>]
  <2>1. k \in Nat /\ ~(k > n) /\ (k # 0 => k - 1 \in 0 .. n)
    OBVIOUS
  <2>2. g[k] = f[k] /\ (k # 0 => g[k - 1] = f[k - 1])
    BY <1>7, <2>1
  <2>3. f[k] = F[<<f, k>>]
    BY <1>6, <2>1
  <2> QED
    BY <1>2, <2>1, <2>2, <2>3
<1>10. g = [k \in 0 .. n |-> IF k = 0 THEN v ELSE G[<<g[k - 1], k>>]]
  BY <1>7, <1>9
<1> QED
  BY <1>8, <1>10 DEF Looped

-----------------------------------------------------------------------------
\* The span of a node, the code's 1 << level(x), satisfies its recursive definition.
LEMMA SpanDefined ==
  \A x \in Nat : span[x] = IF x % 2 = 0 THEN 1 ELSE 2 * span[x \div 2]
<1> DEFINE F == [a \in [Nat -> Nat] \X Nat |-> IF a[2] % 2 = 0 THEN 1 ELSE 2 * a[1][a[2] \div 2]]
<1>1. \A f \in [Nat -> Nat], n \in Nat : F[<<f, n>>] = IF n % 2 = 0 THEN 1 ELSE 2 * f[n \div 2]
  OBVIOUS
<1>2. F \in [[Nat -> Nat] \X Nat -> Nat]
  OBVIOUS
<1>3. ASSUME NEW f \in [Nat -> Nat], NEW g \in [Nat -> Nat], NEW n \in Nat,
             \A m \in 0 .. n - 1 : f[m] = g[m]
      PROVE  F[<<f, n>>] = F[<<g, n>>]
  <2>1. n % 2 # 0 => n \div 2 \in 0 .. n - 1
    OBVIOUS
  <2> HIDE DEF F
  <2> QED
    BY <1>1, <1>3, <2>1
<1> HIDE DEF F
<1>4. Recursive(F, Nat)
  BY <1>2, <1>3, Zenon DEF Recursive
<1>5. PICK f \in [Nat -> Nat] : \A n \in Nat : f[n] = F[<<f, n>>]
  BY <1>4, Recursion
<1>6. f = [x \in Nat |-> IF x % 2 = 0 THEN 1 ELSE 2 * f[x \div 2]]
  BY <1>1, <1>5
<1>7. span = [x \in Nat |-> IF x % 2 = 0 THEN 1 ELSE 2 * span[x \div 2]]
  BY <1>6 DEF span
<1> QED
  BY <1>7, Zenon

\* It is at most one above the node and even for an inner node, so that left_child and
\* full_right halve it.
LEMMA SpanBounds ==
  ASSUME NEW x \in Nat
  PROVE  /\ span[x] \in Nat \ {0} /\ span[x] <= x + 1
         /\ x % 2 # 0 => span[x] % 2 = 0
<1> DEFINE Wrong == {y \in Nat : ~(span[y] \in Nat \ {0} /\ span[y] <= y + 1)}
<1>1. ASSUME Wrong # {} PROVE FALSE
  <2>1. PICK y \in Wrong : \A z \in Nat : z < y => z \notin Wrong
    <3>1. Wrong \in SUBSET Nat
      OBVIOUS
    <3> HIDE DEF Wrong
    <3> QED
      BY <1>1, <3>1, LeastElement
  <2>2. y \in Nat /\ ~(span[y] \in Nat \ {0} /\ span[y] <= y + 1)
    OBVIOUS
  <2>3. CASE y % 2 = 0
    <3>1. span[y] = 1
      BY <2>2, <2>3, SpanDefined
    <3> QED
      BY <2>2, <3>1
  <2>4. CASE y % 2 # 0
    <3>1. y \div 2 \in Nat /\ y \div 2 < y /\ 2 * (y \div 2) + 1 = y
      BY <2>2, <2>4
    <3>2. span[y] = 2 * span[y \div 2]
      BY <2>2, <2>4, SpanDefined
    <3>3. span[y \div 2] \in Nat \ {0} /\ span[y \div 2] <= (y \div 2) + 1
      BY <2>1, <3>1
    <3> QED
      BY <2>2, <3>1, <3>2, <3>3
  <2> QED
    BY <2>3, <2>4
<1>2. \A y \in Nat : span[y] \in Nat \ {0} /\ span[y] <= y + 1
  BY <1>1
<1>3. ASSUME x % 2 # 0 PROVE span[x] % 2 = 0
  <2>1. span[x] = 2 * span[x \div 2] /\ x \div 2 \in Nat
    BY <1>3, SpanDefined
  <2>2. span[x \div 2] \in Nat
    BY <1>2, <2>1
  <2> QED
    BY <2>1, <2>2
<1> QED
  BY <1>2, <1>3

\* Both children of an inner node span half of it: left_child and full_right go one level down.
LEMMA ChildSpans ==
  ASSUME NEW x \in Nat, x % 2 # 0
  PROVE  /\ span[x] \div 2 \in Nat \ {0} /\ 2 * (span[x] \div 2) = span[x]
         /\ x - span[x] \div 2 \in Nat /\ span[x - span[x] \div 2] = span[x] \div 2
         /\ span[x + span[x] \div 2] = span[x] \div 2
<1> DEFINE Half(y) == /\ span[y - span[y] \div 2] = span[y] \div 2
                      /\ span[y + span[y] \div 2] = span[y] \div 2
           Wrong == {y \in Nat : y % 2 # 0 /\ ~Half(y)}
<1>1. \A y \in Nat : y % 2 # 0 => /\ span[y] \in Nat \ {0} /\ span[y] <= y + 1 /\ span[y] % 2 = 0
                                  /\ 2 * (span[y] \div 2) = span[y]
                                  /\ span[y] \div 2 \in Nat \ {0} /\ y - span[y] \div 2 \in Nat
  <2> TAKE y \in Nat
  <2> HAVE y % 2 # 0
  <2>1. /\ span[y] \in Nat \ {0} /\ span[y] <= y + 1 /\ span[y] % 2 = 0
    BY SpanBounds
  <2> QED
    BY <2>1
<1>2. ASSUME Wrong # {} PROVE FALSE
  <2>1. PICK y \in Wrong : \A z \in Nat : z < y => z \notin Wrong
    <3>1. Wrong \in SUBSET Nat
      OBVIOUS
    <3> HIDE DEF Wrong
    <3> QED
      BY <1>2, <3>1, LeastElement
  <2>2. y \in Nat /\ y % 2 # 0 /\ ~Half(y)
    OBVIOUS
  <2>3. PICK z \in Nat : z = y \div 2 /\ y = 2 * z + 1 /\ z < y
    BY <2>2
  <2>4. span[y] = 2 * span[z] /\ span[y] \div 2 = span[z]
    <3>1. span[y] = 2 * span[z] /\ span[z] \in Nat
      BY <2>2, <2>3, SpanDefined, SpanBounds
    <3> QED
      BY <3>1
  <2>5. CASE z % 2 = 0
    <3>1. span[z] = 1 /\ span[y - 1] = 1 /\ span[y + 1] = 1
      <4>1. y - 1 \in Nat /\ (y - 1) % 2 = 0 /\ y + 1 \in Nat /\ (y + 1) % 2 = 0
        BY <2>3
      <4> QED
        BY <2>5, <4>1, SpanDefined
    <3> QED
      BY <2>2, <2>4, <3>1
  <2>6. CASE z % 2 # 0
    <3>1. PICK h \in Nat \ {0} : h = span[z] \div 2 /\ span[z] = 2 * h /\ z - h \in Nat
      BY <1>1, <2>6
    <3>2. span[z - h] = h /\ span[z + h] = h
      BY <2>1, <2>3, <2>6, <3>1
    <3>3. /\ y - span[z] \in Nat /\ (y - span[z]) % 2 # 0 /\ (y - span[z]) \div 2 = z - h
          /\ y + span[z] \in Nat /\ (y + span[z]) % 2 # 0 /\ (y + span[z]) \div 2 = z + h
      <4>1. \A a \in Nat : (2 * a + 1) % 2 # 0 /\ (2 * a + 1) \div 2 = a
        OBVIOUS
      <4>2. PICK a \in Nat, b \in Nat : a = z - h /\ b = z + h
        BY <3>1
      <4>3. PICK l \in Nat, r \in Nat : l = 2 * a + 1 /\ r = 2 * b + 1
        OBVIOUS
      <4>4. y - span[z] = l /\ y + span[z] = r
        <5>1. y = 2 * z + 1 /\ span[z] = 2 * h
          BY <2>3, <3>1
        <5> QED
          BY <4>2, <4>3, <5>1
      <4>5. l % 2 # 0 /\ l \div 2 = a /\ r % 2 # 0 /\ r \div 2 = b
        BY <4>1, <4>3
      <4> QED
        BY <4>2, <4>4, <4>5
    <3>4. span[y - span[z]] = 2 * h /\ span[y + span[z]] = 2 * h
      BY <3>2, <3>3, SpanDefined
    <3> QED
      BY <2>2, <2>4, <3>1, <3>4
  <2> QED
    BY <2>5, <2>6
<1>3. Half(x)
  BY <1>2
<1> QED
  BY <1>1, <1>3

\* One step down from r, as ibst_right_child takes it, with f for the rest.
Downward(n, r, f) == IF r < n THEN r ELSE IF is_leaf(r) THEN None ELSE f[left_child(r)]

\* The way down ends nowhere, or at an entry that is below its start by less than the span.
LEMMA DownwardEnds ==
  ASSUME NEW n \in Nat, NEW f, f = [r \in Nat |-> Downward(n, r, f)]
  PROVE  \A r \in Nat : \/ f[r] = None
                        \/ f[r] \in Nat /\ f[r] < n /\ r < f[r] + span[r]
<1> DEFINE Right(r) == \/ f[r] = None
                       \/ f[r] \in Nat /\ f[r] < n /\ r < f[r] + span[r]
           Wrong == {r \in Nat : ~Right(r)}
<1>1. ASSUME Wrong # {} PROVE FALSE
  <2>1. PICK r \in Wrong : \A z \in Nat : z < r => z \notin Wrong
    <3>1. Wrong \in SUBSET Nat
      OBVIOUS
    <3> HIDE DEF Wrong
    <3> QED
      BY <1>1, <3>1, LeastElement
  <2>2. r \in Nat /\ ~Right(r)
    OBVIOUS
  <2>3. f[r] = Downward(n, r, f)
    BY <2>2, Zenon
  <2>4. CASE r < n
    <3>1. f[r] = r /\ span[r] \in Nat \ {0}
      BY <2>2, <2>3, <2>4, SpanBounds DEF Downward
    <3> QED
      BY <2>2, <2>4, <3>1
  <2>5. CASE ~(r < n) /\ r % 2 = 0
    <3>1. f[r] = None
      BY <2>3, <2>5 DEF Downward, is_leaf
    <3> QED
      BY <2>2, <3>1
  <2>6. CASE ~(r < n) /\ r % 2 # 0
    <3>1. PICK h \in Nat \ {0} : span[r] = 2 * h /\ r - h \in Nat /\ span[r - h] = h /\ h = span[r] \div 2
      BY <2>2, <2>6, ChildSpans
    <3>2. f[r] = f[r - h]
      BY <2>3, <2>6, <3>1 DEF Downward, is_leaf, left_child
    <3>3. Right(r - h)
      <4>1. r - h < r
        BY <2>2, <3>1
      <4> QED
        BY <2>1, <3>1, <4>1
    <3>4. \/ f[r] = None
          \/ f[r] \in Nat /\ f[r] < n /\ r - h < f[r] + h
      BY <3>1, <3>2, <3>3
    <3> QED
      BY <2>2, <3>1, <3>4
  <2> QED
    BY <2>4, <2>5, <2>6
<1>2. \A r \in Nat : Right(r)
  BY <1>1
<1> HIDE DEF Right
<1> QED
  BY <1>2, Zenon DEF Right

\* The loop of ibst_right_child ends: its way down is defined from every node.
LEMMA DownwardDefined ==
  ASSUME NEW n \in Nat
  PROVE  \E f : f = [r \in Nat |-> Downward(n, r, f)]
<1> DEFINE F == [a \in [Nat -> Int] \X Nat |-> Downward(n, a[2], a[1])]
<1>1. \A r \in Nat : r % 2 # 0 => left_child(r) \in 0 .. r - 1
  <2> TAKE r \in Nat
  <2> HAVE r % 2 # 0
  <2>1. span[r] \div 2 \in Nat \ {0} /\ r - span[r] \div 2 \in Nat
    BY ChildSpans
  <2> QED
    BY <2>1 DEF left_child, is_leaf
<1>2. \A f \in [Nat -> Int], r \in Nat : F[<<f, r>>] = Downward(n, r, f)
  OBVIOUS
<1>3. \A f \in [Nat -> Int], r \in Nat : Downward(n, r, f) \in Int
  BY <1>1 DEF Downward, is_leaf, None
<1>4. F \in [[Nat -> Int] \X Nat -> Int]
  <2>1. \A a \in [Nat -> Int] \X Nat : Downward(n, a[2], a[1]) \in Int
    BY <1>3
  <2> QED
    BY <2>1
<1> HIDE DEF F
<1>5. ASSUME NEW f \in [Nat -> Int], NEW g \in [Nat -> Int], NEW r \in Nat,
             \A m \in 0 .. r - 1 : f[m] = g[m]
      PROVE  F[<<f, r>>] = F[<<g, r>>]
  <2>1. Downward(n, r, f) = Downward(n, r, g)
    BY <1>1, <1>5 DEF Downward, is_leaf
  <2> QED
    BY <1>2, <2>1
<1>6. Recursive(F, Int)
  BY <1>4, <1>5, Zenon DEF Recursive
<1>7. PICK f \in [Nat -> Int] : \A r \in Nat : f[r] = F[<<f, r>>]
  BY <1>6, Recursion
<1>8. f = [r \in Nat |-> Downward(n, r, f)]
  BY <1>2, <1>7
<1> QED
  BY <1>8

\* ibst_right_child of a node is an entry of the log to its right, or None.
LEMMA RightChildIsRight ==
  ASSUME NEW n \in Nat, NEW x \in Nat
  PROVE  \/ ibst_right_child(x, n) = None
         \/ ibst_right_child(x, n) \in x + 1 .. n - 1
<1>1. CASE x % 2 = 0
  BY <1>1 DEF ibst_right_child, is_leaf
<1>2. CASE x % 2 # 0
  <2>1. PICK g : g = [r \in Nat |-> Downward(n, r, g)]
    BY DownwardDefined
  <2> DEFINE d == CHOOSE f : f = [r \in Nat |-> Downward(n, r, f)]
  <2>2. d = [r \in Nat |-> Downward(n, r, d)]
    BY <2>1
  <2>3. ibst_right_child(x, n) = d[full_right(x)]
    BY <1>2 DEF ibst_right_child, is_leaf, Downward
  <2> HIDE DEF d
  <2>4. PICK h \in Nat \ {0} : full_right(x) = x + h /\ span[x + h] = h
    BY <1>2, ChildSpans DEF full_right
  <2>5. \/ d[x + h] = None
        \/ d[x + h] \in Nat /\ d[x + h] < n /\ x + h < d[x + h] + h
    <3>1. x + h \in Nat
      OBVIOUS
    <3> QED
      BY <2>2, <2>4, <3>1, DownwardEnds
  <2> QED
    BY <2>3, <2>4, <2>5
<1> QED
  BY <1>1, <1>2

\* The highest bit, the code's 1 << log2(n), satisfies its recursive definition.
LEMMA MsbDefined ==
  \A n \in Nat : msb[n] = IF n <= 1 THEN 1 ELSE 2 * msb[n \div 2]
<1> DEFINE F == [a \in [Nat -> Nat] \X Nat |-> IF a[2] <= 1 THEN 1 ELSE 2 * a[1][a[2] \div 2]]
<1>1. \A f \in [Nat -> Nat], n \in Nat : F[<<f, n>>] = IF n <= 1 THEN 1 ELSE 2 * f[n \div 2]
  OBVIOUS
<1>2. F \in [[Nat -> Nat] \X Nat -> Nat]
  OBVIOUS
<1>3. ASSUME NEW f \in [Nat -> Nat], NEW g \in [Nat -> Nat], NEW n \in Nat,
             \A m \in 0 .. n - 1 : f[m] = g[m]
      PROVE  F[<<f, n>>] = F[<<g, n>>]
  <2>1. ~(n <= 1) => n \div 2 \in 0 .. n - 1
    OBVIOUS
  <2> HIDE DEF F
  <2> QED
    BY <1>1, <1>3, <2>1
<1> HIDE DEF F
<1>4. Recursive(F, Nat)
  BY <1>2, <1>3, Zenon DEF Recursive
<1>5. PICK f \in [Nat -> Nat] : \A n \in Nat : f[n] = F[<<f, n>>]
  BY <1>4, Recursion
<1>6. f = [n \in Nat |-> IF n <= 1 THEN 1 ELSE 2 * f[n \div 2]]
  BY <1>1, <1>5
<1>7. msb = [n \in Nat |-> IF n <= 1 THEN 1 ELSE 2 * msb[n \div 2]]
  BY <1>6 DEF msb
<1> QED
  BY <1>7, Zenon

\* The root of the search tree over n entries is one of them.
LEMMA RootIsEntry ==
  ASSUME NEW n \in Nat \ {0}
  PROVE  root(n) \in 0 .. n - 1
<1> DEFINE Wrong == {m \in Nat : m > 0 /\ ~(msb[m] \in 1 .. m)}
<1>1. ASSUME Wrong # {} PROVE FALSE
  <2>1. PICK m \in Wrong : \A k \in Nat : k < m => k \notin Wrong
    <3>1. Wrong \in SUBSET Nat
      OBVIOUS
    <3> HIDE DEF Wrong
    <3> QED
      BY <1>1, <3>1, LeastElement
  <2>2. m \in Nat /\ m > 0 /\ ~(msb[m] \in 1 .. m)
    OBVIOUS
  <2>3. CASE m = 1
    BY <2>2, <2>3, MsbDefined
  <2>4. CASE m > 1
    <3>1. m \div 2 \in Nat /\ m \div 2 < m /\ m \div 2 > 0 /\ 2 * (m \div 2) <= m
      BY <2>2, <2>4
    <3>2. msb[m] = 2 * msb[m \div 2]
      BY <2>2, <2>4, MsbDefined
    <3>3. msb[m \div 2] \in 1 .. m \div 2
      BY <2>1, <3>1
    <3> QED
      BY <2>2, <3>1, <3>2, <3>3
  <2> QED
    BY <2>2, <2>3, <2>4
<1>2. msb[n] \in 1 .. n
  BY <1>1
<1> QED
  BY <1>2 DEF root

\* A sequence of entries that starts at x and only goes right.
Rising(s, x, n) ==
  /\ s \in Seq(0 .. n - 1) /\ Len(s) > 0 /\ s[1] = x
  /\ \A k \in 2 .. Len(s) : s[k - 1] < s[k]

\* Such a sequence may be extended on its left.
LEMMA RisingStep ==
  ASSUME NEW n \in Nat, NEW x \in 0 .. n - 1, NEW y \in x + 1 .. n - 1, NEW s, Rising(s, y, n)
  PROVE  Rising(<<x>> \o s, x, n)
<1>1. PICK l \in Nat : l = Len(s) /\ l > 0
  BY DEF Rising
<1>2. PICK t : t = <<x>> \o s
  OBVIOUS
<1>3. s \in Seq(0 .. n - 1) /\ <<x>> \in Seq(0 .. n - 1)
  BY DEF Rising
<1>4. t \in Seq(0 .. n - 1) /\ Len(t) = l + 1
  BY <1>1, <1>2, <1>3
<1>5. t[1] = x /\ \A k \in 1 .. l : t[k + 1] = s[k]
  BY <1>1, <1>2, <1>3
<1>6. ASSUME NEW k \in 2 .. l + 1 PROVE t[k - 1] < t[k]
  <2>1. k - 1 \in 1 .. l /\ t[k] = s[k - 1]
    BY <1>1, <1>5
  <2>2. CASE k = 2
    BY <1>5, <2>1, <2>2 DEF Rising
  <2>3. CASE k > 2
    <3>1. k - 2 \in 1 .. l /\ t[k - 1] = s[k - 2]
      BY <1>1, <1>5, <2>3
    <3>2. k - 1 \in 2 .. Len(s) /\ (k - 1) - 1 = k - 2
      BY <1>1, <2>3
    <3> QED
      BY <2>1, <3>1, <3>2 DEF Rising
  <2> QED
    BY <2>2, <2>3
<1>7. Rising(t, x, n)
  <2>1. Len(t) > 0 /\ \A k \in 2 .. Len(t) : t[k - 1] < t[k]
    BY <1>1, <1>4, <1>6
  <2> QED
    BY <1>4, <1>5, <2>1 DEF Rising
<1> QED
  BY <1>2, <1>7

\* G computes the value at an entry from values further right.
RecursiveFromRight(G, V, n) ==
  /\ G \in [[0 .. n - 1 -> V] \X (0 .. n - 1) -> V]
  /\ \A f, g \in [0 .. n - 1 -> V], x \in 0 .. n - 1 :
       (\A y \in x + 1 .. n - 1 : f[y] = g[y]) => G[<<f, x>>] = G[<<g, x>>]

\* A function on the entries of a log may be defined from its values further right.
LEMMA RecursionFromRight ==
  ASSUME NEW n \in Nat, NEW V, NEW v \in V, NEW G, RecursiveFromRight(G, V, n)
  PROVE  \E f \in [0 .. n - 1 -> V] : \A x \in 0 .. n - 1 : f[x] = G[<<f, x>>]
<1> DEFINE Back(h) == [x \in 0 .. n - 1 |-> h[n - 1 - x]]
           F == [a \in [Nat -> V] \X Nat |->
                   IF a[2] < n THEN G[<<Back(a[1]), n - 1 - a[2]>>] ELSE v]
<1> USE DEF RecursiveFromRight
<1>1. \A h \in [Nat -> V] : Back(h) \in [0 .. n - 1 -> V]
  OBVIOUS
<1>2. \A h \in [Nat -> V], x \in 0 .. n - 1 : Back(h)[x] = h[n - 1 - x]
  OBVIOUS
<1> HIDE DEF Back
<1>3. \A h \in [Nat -> V], i \in Nat :
        F[<<h, i>>] = IF i < n THEN G[<<Back(h), n - 1 - i>>] ELSE v
  OBVIOUS
<1>4. \A h \in [Nat -> V], i \in Nat : i < n => n - 1 - i \in 0 .. n - 1
  OBVIOUS
<1>5. F \in [[Nat -> V] \X Nat -> V]
  <2>1. \A a \in [Nat -> V] \X Nat :
          (IF a[2] < n THEN G[<<Back(a[1]), n - 1 - a[2]>>] ELSE v) \in V
    BY <1>1, <1>4
  <2> QED
    BY <2>1
<1> HIDE DEF F
<1>6. ASSUME NEW f \in [Nat -> V], NEW g \in [Nat -> V], NEW i \in Nat,
             \A m \in 0 .. i - 1 : f[m] = g[m]
      PROVE  F[<<f, i>>] = F[<<g, i>>]
  <2>1. CASE i < n
    <3>1. PICK x \in 0 .. n - 1 : x = n - 1 - i
      BY <2>1
    <3>2. \A y \in x + 1 .. n - 1 : Back(f)[y] = Back(g)[y]
      <4> TAKE y \in x + 1 .. n - 1
      <4>1. y \in 0 .. n - 1 /\ n - 1 - y \in 0 .. i - 1
        BY <3>1
      <4> QED
        BY <1>2, <1>6, <4>1
    <3>3. G[<<Back(f), x>>] = G[<<Back(g), x>>]
      BY <1>1, <3>2
    <3> QED
      BY <1>3, <2>1, <3>1, <3>3
  <2>2. CASE ~(i < n)
    BY <1>3, <2>2
  <2> QED
    BY <2>1, <2>2
<1>7. Recursive(F, V)
  BY <1>5, <1>6, Zenon DEF Recursive
<1>8. PICK h \in [Nat -> V] : \A i \in Nat : h[i] = F[<<h, i>>]
  BY <1>7, Recursion
<1>9. ASSUME NEW x \in 0 .. n - 1 PROVE Back(h)[x] = G[<<Back(h), x>>]
  <2>1. PICK i \in Nat : i = n - 1 - x /\ i < n /\ n - 1 - i = x
    OBVIOUS
  <2>2. h[i] = G[<<Back(h), x>>]
    BY <1>3, <1>8, <2>1
  <2> QED
    BY <1>2, <2>1, <2>2
<1> QED
  BY <1>1, <1>9

\* One step along the frontier, with f for the rest.
Onward(n, x, f) ==
  IF x = n - 1 \/ ibst_right_child(x, n) = None THEN <<x>>
  ELSE <<x>> \o f[ibst_right_child(x, n)]

\* The loop of get_frontier ends: it goes right at every step.
LEMMA SpineDefined ==
  ASSUME NEW n \in Nat
  PROVE  \E f : f = [x \in 0 .. n - 1 |-> Onward(n, x, f)]
<1>1. PICK V : V = Seq(Nat)
  OBVIOUS
<1> DEFINE Ends(x) == x = n - 1 \/ ibst_right_child(x, n) = None
           G == [a \in [0 .. n - 1 -> V] \X (0 .. n - 1) |-> Onward(n, a[2], a[1])]
<1>2. \A x \in 0 .. n - 1 : ~Ends(x) => ibst_right_child(x, n) \in x + 1 .. n - 1
  BY RightChildIsRight
<1>3. \A x \in 0 .. n - 1 : \A f : Ends(x) => Onward(n, x, f) = <<x>>
  BY DEF Onward
<1>4. \A x \in 0 .. n - 1 : \A f : ~Ends(x) => Onward(n, x, f) = <<x>> \o f[ibst_right_child(x, n)]
  BY DEF Onward
<1>5. \A f \in [0 .. n - 1 -> V], x \in 0 .. n - 1 : G[<<f, x>>] = Onward(n, x, f)
  OBVIOUS
<1> HIDE DEF Ends
<1>6. \A f \in [0 .. n - 1 -> V], x \in 0 .. n - 1 : Onward(n, x, f) \in V
  <2> TAKE f \in [0 .. n - 1 -> V], x \in 0 .. n - 1
  <2>1. <<x>> \in Seq(Nat)
    OBVIOUS
  <2>2. CASE Ends(x)
    BY <1>1, <1>3, <2>1, <2>2
  <2>3. CASE ~Ends(x)
    <3>1. PICK r \in 0 .. n - 1 : r = ibst_right_child(x, n)
      BY <1>2, <2>3
    <3>2. f[r] \in Seq(Nat)
      BY <1>1
    <3>3. <<x>> \o f[r] \in Seq(Nat)
      BY <2>1, <3>2, ConcatProperties
    <3> QED
      BY <1>1, <1>4, <2>3, <3>1, <3>3
  <2> QED
    BY <2>2, <2>3
<1>7. G \in [[0 .. n - 1 -> V] \X (0 .. n - 1) -> V]
  <2>1. \A a \in [0 .. n - 1 -> V] \X (0 .. n - 1) : Onward(n, a[2], a[1]) \in V
    BY <1>6
  <2> QED
    BY <2>1
<1> HIDE DEF G
<1>8. ASSUME NEW f \in [0 .. n - 1 -> V], NEW g \in [0 .. n - 1 -> V], NEW x \in 0 .. n - 1,
             \A y \in x + 1 .. n - 1 : f[y] = g[y]
      PROVE  G[<<f, x>>] = G[<<g, x>>]
  <2>1. CASE Ends(x)
    BY <1>3, <1>5, <2>1
  <2>2. CASE ~Ends(x)
    <3>1. PICK r \in x + 1 .. n - 1 : r = ibst_right_child(x, n)
      BY <1>2, <2>2
    <3>2. f[r] = g[r]
      BY <1>8
    <3> QED
      BY <1>4, <1>5, <2>2, <3>1, <3>2
  <2> QED
    BY <2>1, <2>2
<1>9. <<>> \in V
  BY <1>1
<1>r. RecursiveFromRight(G, V, n)
  BY <1>7, <1>8, Zenon DEF RecursiveFromRight
<1>10. PICK f \in [0 .. n - 1 -> V] : \A x \in 0 .. n - 1 : f[x] = G[<<f, x>>]
  BY <1>r, <1>9, RecursionFromRight, SMTT(30)
<1>11. f = [x \in 0 .. n - 1 |-> Onward(n, x, f)]
  BY <1>5, <1>10
<1> QED
  BY <1>11

\* get_frontier lists entries of the log from left to right, whatever its size.
THEOREM FrontierRises ==
  ASSUME NEW n \in Nat
  PROVE  /\ get_frontier(n) \in Seq(0 .. n - 1)
         /\ \A k \in 2 .. Len(get_frontier(n)) : get_frontier(n)[k - 1] < get_frontier(n)[k]
<1>1. CASE n = 0
  <2>1. get_frontier(n) = <<>>
    BY <1>1 DEF get_frontier
  <2> QED
    BY <2>1
<1>2. CASE n # 0
  <2> DEFINE d == CHOOSE f : f = [x \in 0 .. n - 1 |-> Onward(n, x, f)]
             Wrong == {i \in Nat : i < n /\ ~Rising(d[n - 1 - i], n - 1 - i, n)}
  <2>1. d = [x \in 0 .. n - 1 |-> Onward(n, x, d)]
    BY SpineDefined
  <2>2. get_frontier(n) = d[root(n)]
    BY <1>2 DEF get_frontier, Onward
  <2> HIDE DEF d
  <2>3. ASSUME Wrong # {} PROVE FALSE
    <3>1. PICK i \in Wrong : \A j \in Nat : j < i => j \notin Wrong
      <4>1. Wrong \in SUBSET Nat
        OBVIOUS
      <4> HIDE DEF Wrong
      <4> QED
        BY <2>3, <4>1, LeastElement
    <3>2. i \in Nat /\ i < n
      OBVIOUS
    <3>3. PICK x \in 0 .. n - 1 : x = n - 1 - i /\ ~Rising(d[x], x, n)
      BY <3>2
    <3>4. d[x] = Onward(n, x, d)
      BY <2>1
    <3>5. CASE x = n - 1 \/ ibst_right_child(x, n) = None
      <4>1. d[x] = <<x>>
        BY <3>4, <3>5 DEF Onward
      <4>2. Rising(<<x>>, x, n)
        BY DEF Rising
      <4> QED
        BY <3>3, <4>1, <4>2
    <3>6. CASE ~(x = n - 1 \/ ibst_right_child(x, n) = None)
      <4>1. PICK r \in x + 1 .. n - 1 : r = ibst_right_child(x, n)
        BY <3>6, RightChildIsRight
      <4>2. d[x] = <<x>> \o d[r]
        BY <3>4, <3>6, <4>1 DEF Onward
      <4>3. Rising(d[r], r, n)
        <5>1. PICK j \in Nat : j = n - 1 - r /\ j < i /\ j < n /\ n - 1 - j = r
          BY <3>3
        <5>2. j \notin Wrong
          BY <3>1, <5>1
        <5> QED
          BY <5>1, <5>2
      <4> QED
        BY <3>3, <4>2, <4>3, RisingStep
    <3> QED
      BY <3>5, <3>6
  <2>4. PICK r \in 0 .. n - 1 : r = root(n)
    BY <1>2, RootIsEntry
  <2>5. Rising(d[r], r, n)
    <3>1. PICK i \in Nat : i = n - 1 - r /\ i < n /\ n - 1 - i = r
      OBVIOUS
    <3> QED
      BY <2>3, <3>1
  <2> QED
    BY <2>2, <2>4, <2>5 DEF Rising
<1> QED
  BY <1>1, <1>2

-----------------------------------------------------------------------------
\* F computes the value at x from values where the measure mu is smaller.
Measured(F, S, V, mu) ==
  /\ mu \in [S -> Nat]
  /\ F \in [[S -> V] \X S -> V]
  /\ \A f, g \in [S -> V], x \in S :
       (\A y \in S : mu[y] < mu[x] => f[y] = g[y]) => F[<<f, x>>] = F[<<g, x>>]

\* F defines f: every value is what F makes of f's values.
Solves(f, F, S) == \A x \in S : f[x] = F[<<f, x>>]

\* A function may be defined from its values where some measure is smaller: the recursion on
\* the nodes of a tree, by their height.
LEMMA MeasuredSolution ==
  ASSUME NEW S, NEW V, NEW v \in V, NEW F, NEW mu, Measured(F, S, V, mu)
  PROVE  \E f \in [S -> V] : Solves(f, F, S)
<1>0. /\ \A x \in S : mu[x] \in Nat
      /\ \A f \in [S -> V], x \in S : F[<<f, x>>] \in V
      /\ \A f, g \in [S -> V], x \in S :
           (\A y \in S : mu[y] < mu[x] => f[y] = g[y]) => F[<<f, x>>] = F[<<g, x>>]
  BY DEF Measured
<1>1. PICK W : W = [S -> V]
  OBVIOUS
<1>2. PICK w \in W : w = [x \in S |-> v]
  BY <1>1
<1> DEFINE Next(f) == [x \in S |-> F[<<f, x>>]]
<1>3. \A f \in W : Next(f) \in W /\ \A x \in S : Next(f)[x] = F[<<f, x>>]
  BY <1>0, <1>1
<1> HIDE DEF Next
<1> DEFINE H == [a \in [Nat -> W] \X Nat |-> IF a[2] = 0 THEN w ELSE Next(a[1][a[2] - 1])]
<1>4. \A h \in [Nat -> W], n \in Nat : H[<<h, n>>] = IF n = 0 THEN w ELSE Next(h[n - 1])
  OBVIOUS
<1>5. Recursive(H, W)
  <2>1. H \in [[Nat -> W] \X Nat -> W]
    <3>1. \A a \in [Nat -> W] \X Nat : (IF a[2] = 0 THEN w ELSE Next(a[1][a[2] - 1])) \in W
      <4> TAKE a \in [Nat -> W] \X Nat
      <4>1. a[2] \in Nat /\ a[1] \in [Nat -> W]
        OBVIOUS
      <4>2. a[2] # 0 => a[2] - 1 \in Nat /\ a[1][a[2] - 1] \in W
        BY <4>1
      <4> QED
        BY <1>3, <4>2
    <3> QED
      BY <3>1
  <2>2. ASSUME NEW f \in [Nat -> W], NEW g \in [Nat -> W], NEW n \in Nat,
               \A m \in 0 .. n - 1 : f[m] = g[m]
        PROVE  H[<<f, n>>] = H[<<g, n>>]
    <3>1. n # 0 => n - 1 \in 0 .. n - 1
      OBVIOUS
    <3> HIDE DEF H
    <3> QED
      BY <1>4, <2>2, <3>1
  <2> HIDE DEF H
  <2> QED
    BY <2>1, <2>2, Zenon DEF Recursive
<1> HIDE DEF H
<1>6. PICK h \in [Nat -> W] : \A n \in Nat : h[n] = H[<<h, n>>]
  BY <1>5, Recursion
<1>7. \A n \in Nat : h[n] \in W /\ h[n + 1] = Next(h[n])
  <2> TAKE n \in Nat
  <2>1. PICK m \in Nat : m = n + 1 /\ m # 0 /\ m - 1 = n
    OBVIOUS
  <2>2. h[m] = Next(h[n])
    BY <1>4, <1>6, <2>1
  <2> QED
    BY <2>1, <2>2
<1> DEFINE Settled(m) == \A x \in S, i, j \in Nat : mu[x] = m /\ i > m /\ j > m => h[i][x] = h[j][x]
           Open == {m \in Nat : ~Settled(m)}
<1>8. ASSUME Open # {} PROVE FALSE
  <2>1. PICK m \in Open : \A n \in Nat : n < m => n \notin Open
    <3>1. Open \in SUBSET Nat
      OBVIOUS
    <3> HIDE DEF Open
    <3> QED
      BY <1>8, <3>1, LeastElement
  <2>2. m \in Nat /\ ~Settled(m) /\ \A n \in Nat : n < m => Settled(n)
    BY <2>1
  <2>3. PICK x \in S, i \in Nat, j \in Nat : mu[x] = m /\ i > m /\ j > m /\ h[i][x] # h[j][x]
    BY <2>2
  <2>4. i - 1 \in Nat /\ j - 1 \in Nat /\ (i - 1) + 1 = i /\ (j - 1) + 1 = j
    BY <2>2, <2>3
  <2>5. \A y \in S : mu[y] < m => h[i - 1][y] = h[j - 1][y]
    <3> TAKE y \in S
    <3> HAVE mu[y] < m
    <3>1. mu[y] \in Nat /\ Settled(mu[y]) /\ i - 1 > mu[y] /\ j - 1 > mu[y]
      BY <1>0, <2>2, <2>3
    <3> QED
      BY <2>4, <3>1
  <2>6. h[i][x] = F[<<h[i - 1], x>>] /\ h[j][x] = F[<<h[j - 1], x>>]
    <3>1. \A n \in Nat : h[n + 1][x] = F[<<h[n], x>>]
      BY <1>3, <1>7
    <3> QED
      BY <2>4, <3>1
  <2>7. h[i - 1] \in [S -> V] /\ h[j - 1] \in [S -> V]
    BY <1>1, <1>7, <2>4
  <2>8. F[<<h[i - 1], x>>] = F[<<h[j - 1], x>>]
    BY <1>0, <2>3, <2>5, <2>7
  <2> QED
    BY <2>3, <2>6, <2>8
<1>9. \A x \in S, i, j \in Nat : i > mu[x] /\ j > mu[x] => h[i][x] = h[j][x]
  <2>1. \A m \in Nat : Settled(m)
    BY <1>8
  <2> QED
    BY <1>0, <2>1
<1> HIDE DEF Settled, Open
<1>10. PICK f : f = [x \in S |-> h[mu[x] + 1][x]]
  OBVIOUS
<1>11. f \in [S -> V]
  <2>1. \A x \in S : mu[x] + 1 \in Nat
    BY <1>0
  <2> QED
    BY <1>1, <1>7, <1>10, <2>1
<1>12. ASSUME NEW x \in S PROVE f[x] = F[<<f, x>>]
  <2>1. mu[x] \in Nat /\ h[mu[x]] \in [S -> V]
    BY <1>0, <1>1, <1>7
  <2>2. f[x] = F[<<h[mu[x]], x>>]
    BY <1>3, <1>7, <1>10, <2>1
  <2>3. \A y \in S : mu[y] < mu[x] => f[y] = h[mu[x]][y]
    <3> TAKE y \in S
    <3> HAVE mu[y] < mu[x]
    <3>1. mu[y] \in Nat /\ mu[y] + 1 \in Nat /\ mu[y] + 1 > mu[y] /\ mu[x] > mu[y]
      BY <1>0
    <3> QED
      BY <1>9, <1>10, <2>1, <3>1
  <2> QED
    BY <1>0, <1>11, <2>1, <2>2, <2>3
<1>13. Solves(f, F, S)
  BY <1>12 DEF Solves
<1> QED
  BY <1>11, <1>13

\* The same without that name.
LEMMA MeasuredRecursion ==
  ASSUME NEW S, NEW V, NEW v \in V, NEW F, NEW mu, Measured(F, S, V, mu)
  PROVE  \E f \in [S -> V] : \A x \in S : f[x] = F[<<f, x>>]
<1>1. PICK f \in [S -> V] : Solves(f, F, S)
  BY MeasuredSolution
<1> QED
  BY <1>1 DEF Solves

\* The height of a node, the code's trailing_ones, satisfies its recursive definition.
LEMMA LevelDefined ==
  \A x \in Nat : level[x] \in Nat /\ level[x] = IF x % 2 = 0 THEN 0 ELSE 1 + level[x \div 2]
<1> DEFINE F == [a \in [Nat -> Nat] \X Nat |-> IF a[2] % 2 = 0 THEN 0 ELSE 1 + a[1][a[2] \div 2]]
<1>1. \A f \in [Nat -> Nat], n \in Nat : F[<<f, n>>] = IF n % 2 = 0 THEN 0 ELSE 1 + f[n \div 2]
  OBVIOUS
<1>2. F \in [[Nat -> Nat] \X Nat -> Nat]
  OBVIOUS
<1>3. ASSUME NEW f \in [Nat -> Nat], NEW g \in [Nat -> Nat], NEW n \in Nat,
             \A m \in 0 .. n - 1 : f[m] = g[m]
      PROVE  F[<<f, n>>] = F[<<g, n>>]
  <2>1. n % 2 # 0 => n \div 2 \in 0 .. n - 1
    OBVIOUS
  <2> HIDE DEF F
  <2> QED
    BY <1>1, <1>3, <2>1
<1> HIDE DEF F
<1>4. Recursive(F, Nat)
  BY <1>2, <1>3, Zenon DEF Recursive
<1>5. PICK f \in [Nat -> Nat] : \A n \in Nat : f[n] = F[<<f, n>>]
  BY <1>4, Recursion
<1> DEFINE Is(g) == g = [x \in Nat |-> IF x % 2 = 0 THEN 0 ELSE 1 + g[x \div 2]]
<1>6. Is(f)
  BY <1>1, <1>5
<1>7. Is(level)
  BY <1>6 DEF level
<1>8. \A g : Is(g) => \A x \in Nat : g[x] = IF x % 2 = 0 THEN 0 ELSE 1 + g[x \div 2]
  BY Zenon
<1>9. \A x \in Nat : level[x] = IF x % 2 = 0 THEN 0 ELSE 1 + level[x \div 2]
  BY <1>7, <1>8, Zenon
<1> DEFINE Wrong == {x \in Nat : level[x] \notin Nat}
<1>10. ASSUME Wrong # {} PROVE FALSE
  <2>1. PICK x \in Wrong : \A y \in Nat : y < x => y \notin Wrong
    <3>1. Wrong \in SUBSET Nat
      OBVIOUS
    <3> HIDE DEF Wrong
    <3> QED
      BY <1>10, <3>1, LeastElement
  <2>2. x \in Nat /\ level[x] \notin Nat
    OBVIOUS
  <2>3. x % 2 # 0 => x \div 2 \in Nat /\ x \div 2 < x
    BY <2>2
  <2> QED
    BY <1>9, <2>1, <2>2, <2>3
<1> QED
  BY <1>9, <1>10

\* The powers of two: the numbers of leaves under a node.
Pow == {p \in Nat \ {0} : span[p - 1] = p}

\* Half and double of a power of two are powers of two; the double is one level up.
LEMMA PowHalves ==
  ASSUME NEW p \in Pow
  PROVE  /\ p \in Nat \ {0} /\ 2 * p \in Pow /\ level[2 * p - 1] = 1 + level[p - 1]
         /\ p # 1 => /\ p % 2 = 0 /\ p \div 2 \in Pow /\ 2 * (p \div 2) = p /\ p \div 2 < p
                     /\ level[p - 1] = 1 + level[p \div 2 - 1]
<1>1. p \in Nat \ {0} /\ p - 1 \in Nat /\ span[p - 1] = p
  BY DEF Pow
<1>2. ASSUME NEW q \in Nat \ {0}
      PROVE  /\ span[2 * q - 1] = 2 * span[q - 1]
             /\ level[2 * q - 1] = 1 + level[q - 1]
  <2>1. PICK x \in Nat : x = 2 * q - 1 /\ x % 2 # 0 /\ x \div 2 = q - 1
    BY <1>2
  <2> QED
    BY <2>1, SpanDefined, LevelDefined
<1>3. 2 * p \in Pow
  BY <1>1, <1>2 DEF Pow
<1>4. ASSUME p # 1
      PROVE  /\ p % 2 = 0 /\ p \div 2 \in Pow /\ 2 * (p \div 2) = p /\ p \div 2 < p
             /\ level[p - 1] = 1 + level[p \div 2 - 1]
  <2>1. (p - 1) % 2 # 0
    BY <1>1, <1>4, SpanDefined
  <2>2. PICK q \in Nat \ {0} : p = 2 * q /\ q = p \div 2
    BY <1>1, <1>4, <2>1
  <2>3. span[q - 1] = q
    <3>1. 2 * q = 2 * span[q - 1]
      BY <1>1, <1>2, <2>2
    <3>2. q - 1 \in Nat /\ span[q - 1] \in Nat
      BY SpanBounds
    <3> QED
      BY <3>1, <3>2
  <2>4. level[p - 1] = 1 + level[q - 1]
    BY <1>2, <2>2
  <2>5. q \in Pow /\ p % 2 = 0 /\ q < p
    BY <2>2, <2>3 DEF Pow
  <2> QED
    BY <2>2, <2>4, <2>5
<1> QED
  BY <1>1, <1>2, <1>3, <1>4

\* One is a power of two; every span is one.
LEMMA PowSpans ==
  /\ 1 \in Pow /\ level[0] = 0
  /\ \A x \in Nat : span[x] \in Pow /\ level[x] = level[span[x] - 1]
<1>1. 1 \in Pow /\ level[0] = 0
  BY SpanDefined, LevelDefined DEF Pow
<1> DEFINE Right(x) == span[x] \in Pow /\ level[x] = level[span[x] - 1]
           Wrong == {x \in Nat : ~Right(x)}
<1>2. ASSUME Wrong # {} PROVE FALSE
  <2>1. PICK x \in Wrong : \A y \in Nat : y < x => y \notin Wrong
    <3>1. Wrong \in SUBSET Nat
      OBVIOUS
    <3> HIDE DEF Wrong
    <3> QED
      BY <1>2, <3>1, LeastElement
  <2>2. x \in Nat /\ ~Right(x) /\ \A y \in Nat : y < x => Right(y)
    BY <2>1
  <2>3. CASE x % 2 = 0
    BY <1>1, <2>2, <2>3, SpanDefined, LevelDefined
  <2>4. CASE x % 2 # 0
    <3>1. PICK y \in Nat : y = x \div 2 /\ y < x
      BY <2>2, <2>4
    <3>2. PICK p \in Pow : p = span[y] /\ level[y] = level[p - 1]
      BY <2>2, <3>1
    <3>3. span[x] = 2 * p /\ level[x] = 1 + level[p - 1]
      BY <2>2, <2>4, <3>1, <3>2, SpanDefined, LevelDefined
    <3>4. 2 * p \in Pow /\ level[2 * p - 1] = 1 + level[p - 1]
      BY PowHalves
    <3> QED
      BY <2>2, <3>3, <3>4
  <2> QED
    BY <2>3, <2>4
<1> QED
  BY <1>1, <1>2

\* Between a power of two and its double there is none; the greater one is on a higher level.
LEMMA PowGap ==
  \A q \in Pow, p \in Pow : p < q => 2 * p <= q /\ level[p - 1] < level[q - 1]
<1> DEFINE Right(q) == \A p \in Pow : p < q => 2 * p <= q /\ level[p - 1] < level[q - 1]
           Wrong == {q \in Nat : q \in Pow /\ ~Right(q)}
<1>1. ASSUME Wrong # {} PROVE FALSE
  <2>1. PICK q \in Wrong : \A y \in Nat : y < q => y \notin Wrong
    <3>1. Wrong \in SUBSET Nat
      OBVIOUS
    <3> HIDE DEF Wrong
    <3> QED
      BY <1>1, <3>1, LeastElement
  <2>2. q \in Pow /\ ~Right(q) /\ \A y \in Pow : y \in Nat /\ y < q => Right(y)
    BY <2>1
  <2>3. PICK p \in Pow : p < q /\ ~(2 * p <= q /\ level[p - 1] < level[q - 1])
    BY <2>2
  <2>4. q \in Nat \ {0} /\ p \in Nat \ {0} /\ q # 1
    BY <2>3, PowHalves
  <2>5. PICK k \in Pow : q = 2 * k /\ k < q /\ level[q - 1] = 1 + level[k - 1] /\ k = q \div 2
    BY <2>4, PowHalves
  <2>6. k \in Nat \ {0} /\ Right(k) /\ level[k - 1] \in Nat /\ level[p - 1] \in Nat
    <3>1. k \in Nat \ {0}
      BY PowHalves
    <3>2. k - 1 \in Nat /\ p - 1 \in Nat
      BY <2>4, <3>1
    <3> QED
      BY <2>2, <2>5, <3>1, <3>2, LevelDefined
  <2>7. CASE p < k
    BY <2>3, <2>4, <2>5, <2>6, <2>7
  <2>8. CASE p = k
    BY <2>3, <2>4, <2>5, <2>6, <2>8
  <2>9. CASE p > k
    <3>1. p # 1
      BY <2>6, <2>9
    <3>2. PICK j \in Pow : p = 2 * j /\ j = p \div 2 /\ j \in Nat \ {0}
      BY <3>1, PowHalves
    <3>3. j < k /\ k < 2 * j
      BY <2>3, <2>5, <2>6, <2>9, <3>2
    <3> QED
      BY <2>6, <3>2, <3>3
  <2> QED
    BY <2>4, <2>6, <2>7, <2>8, <2>9
<1> QED
  <2>1. \A q \in Pow : q \in Nat
    BY DEF Pow
  <2> QED
    BY <1>1, <2>1

\* 1 << log2(n) is the greatest power of two up to n.
LEMMA MsbIsPow ==
  \A n \in Nat \ {0} : msb[n] \in Pow /\ msb[n] \in Nat \ {0} /\ msb[n] <= n /\ n < 2 * msb[n]
<1> DEFINE Right(n) == msb[n] \in Pow /\ msb[n] \in Nat \ {0} /\ msb[n] <= n /\ n < 2 * msb[n]
           Wrong == {n \in Nat : n # 0 /\ ~Right(n)}
<1>1. ASSUME Wrong # {} PROVE FALSE
  <2>1. PICK n \in Wrong : \A y \in Nat : y < n => y \notin Wrong
    <3>1. Wrong \in SUBSET Nat
      OBVIOUS
    <3> HIDE DEF Wrong
    <3> QED
      BY <1>1, <3>1, LeastElement
  <2>2. n \in Nat \ {0} /\ ~Right(n) /\ \A y \in Nat \ {0} : y < n => Right(y)
    BY <2>1
  <2>3. CASE n = 1
    <3>1. msb[n] = 1
      BY <2>3, MsbDefined
    <3> QED
      BY <2>2, <2>3, <3>1, PowSpans
  <2>4. CASE n # 1
    <3>1. PICK m \in Nat \ {0} : m = n \div 2 /\ m < n /\ 2 * m <= n /\ n <= 2 * m + 1
      BY <2>2, <2>4
    <3>2. msb[n] = 2 * msb[m]
      BY <2>2, <2>4, <3>1, MsbDefined
    <3>3. Right(m)
      BY <2>2, <3>1
    <3>4. 2 * msb[m] \in Pow
      BY <3>3, PowHalves
    <3> QED
      BY <2>2, <3>1, <3>2, <3>3, <3>4
  <2> QED
    BY <2>3, <2>4
<1> QED
  BY <1>1

\* ... and no other power of two has that property.
LEMMA MsbIsOnly ==
  ASSUME NEW p \in Pow, NEW n \in Nat, p <= n, n < 2 * p
  PROVE  msb[n] = p
<1>1. p \in Nat \ {0} /\ n \in Nat \ {0}
  BY PowHalves
<1>2. PICK m \in Pow : m = msb[n] /\ m \in Nat \ {0} /\ m <= n /\ n < 2 * m
  BY <1>1, MsbIsPow
<1>3. (p < m => 2 * p <= m) /\ (m < p => 2 * m <= p)
  BY PowGap
<1> QED
  BY <1>1, <1>2, <1>3

\* The node over the s entries from lo; a node of the tree is aligned to its span.
Node(lo, s) == 2 * lo + s - 1
Block(lo, s) == lo \in Nat /\ s \in Nat \ {0} /\ span[Node(lo, s)] = s

\* Every node is over some block of entries, a power of two of them.
LEMMA BlockOf ==
  /\ \A x \in Nat : \E lo \in Nat, s \in Pow : x = Node(lo, s) /\ Block(lo, s)
  /\ \A lo \in Nat : \A s : Block(lo, s) => s \in Pow /\ Node(lo, s) \in Nat
  /\ \A lo \in Nat : Block(lo, 1)
  /\ \A p \in Pow : Block(0, p)
<1>1. ASSUME NEW x \in Nat
      PROVE  \E lo \in Nat, s \in Pow : x = Node(lo, s) /\ Block(lo, s)
  <2>1. PICK s \in Pow : s = span[x] /\ s \in Nat \ {0} /\ s <= x + 1 /\ (x % 2 # 0 => s % 2 = 0)
    BY PowSpans, SpanBounds
  <2>2. x % 2 = 0 => s = 1
    BY <2>1, SpanDefined
  <2>3. CASE x % 2 = 0
    <3>1. PICK lo \in Nat : x = 2 * lo /\ s = 1
      BY <2>2, <2>3
    <3> QED
      BY <2>1, <3>1 DEF Block, Node
  <2>4. CASE x % 2 # 0
    <3>1. PICK h \in Nat, y \in Nat : s = 2 * h /\ x = 2 * y + 1
      BY <2>1, <2>4
    <3>2. PICK lo \in Nat : lo = y + 1 - h
      BY <2>1, <3>1
    <3>3. x = Node(lo, s)
      BY <3>1, <3>2 DEF Node
    <3> QED
      BY <2>1, <3>3 DEF Block
  <2> QED
    BY <2>3, <2>4
<1>2. ASSUME NEW lo \in Nat, NEW s, Block(lo, s) PROVE s \in Pow /\ Node(lo, s) \in Nat
  <2>1. Node(lo, s) \in Nat
    BY <1>2 DEF Block, Node
  <2> QED
    BY <1>2, <2>1, PowSpans DEF Block
<1>3. ASSUME NEW lo \in Nat PROVE Block(lo, 1)
  <2>1. Node(lo, 1) \in Nat /\ Node(lo, 1) % 2 = 0
    BY DEF Node
  <2> QED
    BY <2>1, SpanDefined DEF Block
<1>4. ASSUME NEW p \in Pow PROVE Block(0, p)
  BY PowHalves DEF Pow, Block, Node
<1> QED
  BY <1>1, <1>2, <1>3, <1>4

\* left_child and full_right halve the block of an inner node.
LEMMA BlockHalves ==
  ASSUME NEW lo, NEW s, Block(lo, s)
  PROVE  /\ is_leaf(Node(lo, s)) <=> s = 1
         /\ s # 1 => \E h \in Pow : /\ h \in Nat \ {0} /\ s = 2 * h
                                    /\ Block(lo, h) /\ left_child(Node(lo, s)) = Node(lo, h)
                                    /\ Block(lo + h, h) /\ full_right(Node(lo, s)) = Node(lo + h, h)
<1>1. lo \in Nat /\ s \in Nat \ {0} /\ span[Node(lo, s)] = s
  BY DEF Block
<1>2. PICK x \in Nat : x = Node(lo, s) /\ x = 2 * lo + s - 1
  BY <1>1 DEF Node
<1>3. is_leaf(x) <=> s = 1
  <2>1. x % 2 = 0 => span[x] = 1
    BY SpanDefined
  <2>2. x % 2 # 0 => span[x] % 2 = 0
    BY SpanBounds
  <2> QED
    BY <1>1, <1>2, <2>1, <2>2 DEF is_leaf
<1>4. ASSUME s # 1
      PROVE  \E h \in Pow : /\ h \in Nat \ {0} /\ s = 2 * h
                            /\ Block(lo, h) /\ left_child(x) = Node(lo, h)
                            /\ Block(lo + h, h) /\ full_right(x) = Node(lo + h, h)
  <2>1. x % 2 # 0
    BY <1>3, <1>4 DEF is_leaf
  <2>2. PICK h \in Nat \ {0} : /\ h = span[x] \div 2 /\ 2 * h = span[x] /\ x - h \in Nat
                               /\ span[x - h] = h /\ span[x + h] = h
    BY <2>1, ChildSpans
  <2>3. s = 2 * h
    BY <1>1, <1>2, <2>2
  <2>4. Node(lo, h) = x - h /\ Node(lo + h, h) = x + h
    BY <1>1, <1>2, <2>3 DEF Node
  <2>5. Block(lo, h) /\ Block(lo + h, h)
    BY <1>1, <2>2, <2>4 DEF Block
  <2>6. h \in Pow
    BY <1>1, <2>5, BlockOf
  <2>7. left_child(x) = x - h /\ full_right(x) = x + h
    BY <2>1, <2>2 DEF left_child, full_right, is_leaf
  <2> QED
    BY <2>3, <2>4, <2>5, <2>6, <2>7
<1> QED
  BY <1>2, <1>3, <1>4

\* The next node of the same level spans as much.
LEMMA SpanAgain ==
  \A x \in Nat : span[x + 2 * span[x]] = span[x]
<1> DEFINE Right(x) == span[x + 2 * span[x]] = span[x]
           Wrong == {x \in Nat : ~Right(x)}
<1>1. ASSUME Wrong # {} PROVE FALSE
  <2>1. PICK x \in Wrong : \A y \in Nat : y < x => y \notin Wrong
    <3>1. Wrong \in SUBSET Nat
      OBVIOUS
    <3> HIDE DEF Wrong
    <3> QED
      BY <1>1, <3>1, LeastElement
  <2>2. x \in Nat /\ ~Right(x) /\ \A y \in Nat : y < x => Right(y)
    BY <2>1
  <2>3. CASE x % 2 = 0
    <3>1. span[x] = 1 /\ x + 2 \in Nat /\ (x + 2) % 2 = 0
      BY <2>2, <2>3, SpanDefined
    <3>2. span[x + 2] = 1
      BY <3>1, SpanDefined
    <3>3. x + 2 * span[x] = x + 2
      BY <2>2, <3>1
    <3> QED
      BY <2>2, <3>1, <3>2, <3>3
  <2>4. CASE x % 2 # 0
    <3>1. PICK y \in Nat : y = x \div 2 /\ x = 2 * y + 1 /\ y < x
      BY <2>2, <2>4
    <3>2. PICK s \in Nat \ {0} : s = span[y] /\ span[x] = 2 * s
      BY <2>2, <2>4, <3>1, SpanDefined, SpanBounds
    <3>3. span[y + 2 * s] = s
      BY <2>2, <3>1, <3>2
    <3>4. PICK z \in Nat : z = x + 2 * span[x] /\ z % 2 # 0 /\ z \div 2 = y + 2 * s
      BY <3>1, <3>2
    <3>5. span[z] = 2 * span[y + 2 * s]
      BY <3>4, SpanDefined
    <3> QED
      BY <2>2, <3>2, <3>3, <3>4, <3>5
  <2> QED
    BY <2>3, <2>4
<1> QED
  BY <1>1

\* After a block, a block of any smaller power of two may follow.
LEMMA BlockNext ==
  ASSUME NEW lo, NEW s, Block(lo, s), NEW q \in Pow, q <= s
  PROVE  Block(lo + s, q)
<1>1. lo \in Nat /\ s \in Nat \ {0} /\ span[Node(lo, s)] = s /\ Node(lo, s) \in Nat
  BY BlockOf DEF Block
<1>2. PICK a \in Nat : a = lo + s
  BY <1>1
<1>3. Block(a, s)
  <2>1. Node(a, s) = Node(lo, s) + 2 * s
    BY <1>1, <1>2 DEF Node
  <2>2. span[Node(lo, s) + 2 * s] = s
    BY <1>1, SpanAgain
  <2> QED
    BY <1>1, <2>1, <2>2 DEF Block
<1> DEFINE Wrong == {t \in Nat : Block(a, t) /\ q <= t /\ ~Block(a, q)}
<1>4. ASSUME Wrong # {} PROVE FALSE
  <2>1. PICK t \in Wrong : \A y \in Nat : y < t => y \notin Wrong
    <3>1. Wrong \in SUBSET Nat
      OBVIOUS
    <3> HIDE DEF Wrong
    <3> QED
      BY <1>4, <3>1, LeastElement
  <2>2. t \in Nat /\ Block(a, t) /\ q <= t /\ ~Block(a, q)
    OBVIOUS
  <2>3. q \in Nat \ {0} /\ t \in Pow /\ q # t
    BY <2>2, BlockOf, PowHalves
  <2>4. 2 * q <= t /\ t # 1
    BY <2>2, <2>3, PowGap
  <2>5. PICK h \in Nat \ {0} : t = 2 * h /\ Block(a, h)
    BY <2>2, <2>4, BlockHalves
  <2>6. q <= h /\ h < t
    BY <2>3, <2>4, <2>5
  <2> QED
    BY <2>1, <2>2, <2>5, <2>6
<1>5. s \in Wrong \/ Block(a, q)
  BY <1>1, <1>3
<1> QED
  BY <1>2, <1>4, <1>5

\* The quotient is the only number with its property.
LEMMA Quotient ==
  ASSUME NEW c \in Nat \ {0}, NEW q \in Nat, NEW a \in Nat, q * c <= a, a < q * c + c
  PROVE  a \div c = q
<1>1. PICK d \in Nat : d = a \div c /\ d * c <= a /\ a < d * c + c
  OBVIOUS
<1>2. ASSUME NEW x \in Nat, NEW y \in Nat, x < y PROVE x * c + c <= y * c
  <2>1. PICK z \in Nat : y = x + 1 + z
    BY <1>2
  <2>2. y * c = x * c + c + z * c /\ z * c \in Nat
    BY <2>1
  <2>3. x * c \in Nat /\ y * c \in Nat
    OBVIOUS
  <2> QED
    BY <2>2, <2>3
<1>3. d * c \in Nat /\ q * c \in Nat
  OBVIOUS
<1>4. ~(d < q) /\ ~(q < d)
  BY <1>1, <1>2, <1>3
<1> QED
  BY <1>1, <1>4

\* Halving both sides of a division keeps the quotient.
LEMMA HalfQuotient ==
  ASSUME NEW a \in Nat, NEW c \in Nat \ {0}
  PROVE  (2 * a + 1) \div (2 * c) = a \div c
<1>1. PICK d \in Nat : d = a \div c /\ d * c <= a /\ a < d * c + c
  OBVIOUS
<1>2. PICK e \in Nat : e = d * c
  OBVIOUS
<1>3. d * (2 * c) = 2 * e
  BY <1>2
<1>4. 2 * e <= 2 * a + 1 /\ 2 * a + 1 < 2 * e + 2 * c
  BY <1>1, <1>2
<1>5. 2 * c \in Nat \ {0} /\ 2 * a + 1 \in Nat
  OBVIOUS
<1> QED
  BY <1>1, <1>3, <1>4, <1>5, Quotient

\* Which half of its parent a node is, the code's bit above the level, is the same for the node
\* one level down at half its number.
LEMMA SideHalves ==
  ASSUME NEW x \in Nat, x % 2 # 0
  PROVE  x \div (2 * span[x]) = (x \div 2) \div (2 * span[x \div 2])
<1>1. PICK y \in Nat : y = x \div 2 /\ x = 2 * y + 1
  OBVIOUS
<1>2. PICK s \in Nat \ {0} : s = span[y] /\ span[x] = 2 * s
  BY <1>1, SpanDefined, SpanBounds
<1>3. PICK c \in Nat \ {0} : c = 2 * s
  OBVIOUS
<1>4. (2 * y + 1) \div (2 * c) = y \div c
  BY HalfQuotient
<1> QED
  BY <1>1, <1>2, <1>3, <1>4

\* The children of an inner node are a left and a right one.
LEMMA ChildSides ==
  \A x \in Nat, h \in Nat \ {0} : span[x] = 2 * h =>
    ((x - h) \div (2 * h)) % 2 = 0 /\ ((x + h) \div (2 * h)) % 2 = 1
<1> DEFINE Right(x) == \A h \in Nat \ {0} : span[x] = 2 * h =>
             ((x - h) \div (2 * h)) % 2 = 0 /\ ((x + h) \div (2 * h)) % 2 = 1
           Wrong == {x \in Nat : ~Right(x)}
<1>1. ASSUME Wrong # {} PROVE FALSE
  <2>1. PICK x \in Wrong : \A y \in Nat : y < x => y \notin Wrong
    <3>1. Wrong \in SUBSET Nat
      OBVIOUS
    <3> HIDE DEF Wrong
    <3> QED
      BY <1>1, <3>1, LeastElement
  <2>2. x \in Nat /\ ~Right(x) /\ \A y \in Nat : y < x => Right(y)
    BY <2>1
  <2>3. PICK h \in Nat \ {0} : /\ span[x] = 2 * h
                               /\ ~(((x - h) \div (2 * h)) % 2 = 0 /\ ((x + h) \div (2 * h)) % 2 = 1)
    BY <2>2
  <2>4. PICK y \in Nat : y = x \div 2 /\ x = 2 * y + 1 /\ y < x /\ span[y] = h
    <3>1. x % 2 # 0
      BY <2>2, <2>3, SpanDefined, SMTT(30)
    <3>2. PICK y \in Nat : y = x \div 2 /\ x = 2 * y + 1 /\ y < x
      BY <2>2, <3>1
    <3>3. span[x] = 2 * span[y] /\ span[y] \in Nat
      BY <2>2, <3>1, <3>2, SpanDefined, SpanBounds
    <3> QED
      BY <2>3, <3>2, <3>3
  <2>5. CASE h = 1
    <3>1. y % 2 = 0
      <4>1. y % 2 # 0 => span[y] % 2 = 0
        BY SpanBounds
      <4> QED
        BY <2>4, <2>5, <4>1
    <3>2. (x - h) \div (2 * h) = y /\ (x + h) \div (2 * h) = y + 1
      BY <2>4, <2>5
    <3> QED
      BY <2>3, <3>1, <3>2
  <2>6. CASE h # 1
    <3>1. y % 2 # 0 /\ h % 2 = 0
      <4>1. y % 2 # 0
        BY <2>4, <2>6, SpanDefined
      <4> QED
        BY <2>4, <4>1, SpanBounds
    <3>2. PICK g \in Nat \ {0} : h = 2 * g
      BY <3>1
    <3>3. ((y - g) \div h) % 2 = 0 /\ ((y + g) \div h) % 2 = 1 /\ y - g \in Nat
      <4>1. span[y] = 2 * g /\ g = span[y] \div 2
        BY <2>4, <3>2
      <4>2. y - g \in Nat
        BY <3>1, <4>1, ChildSpans
      <4> QED
        BY <2>2, <2>4, <3>2, <4>1, <4>2
    <3>4. x - h = 2 * (y - g) + 1 /\ x + h = 2 * (y + g) + 1
      BY <2>4, <3>2
    <3>5. (x - h) \div (2 * h) = (y - g) \div h /\ (x + h) \div (2 * h) = (y + g) \div h
      <4>1. y - g \in Nat /\ y + g \in Nat /\ h \in Nat \ {0}
        BY <3>3
      <4>2. \A a \in Nat : (2 * a + 1) \div (2 * h) = a \div h
        BY HalfQuotient
      <4> QED
        BY <3>4, <4>1, <4>2
    <3> QED
      BY <2>3, <3>3, <3>5
  <2> QED
    BY <2>5, <2>6
<1> QED
  BY <1>1

\* parent goes from both halves of a node back to it.
LEMMA ParentOfHalves ==
  ASSUME NEW lo, NEW h \in Nat \ {0}, Block(lo, 2 * h)
  PROVE  parent(Node(lo, h)) = Node(lo, 2 * h) /\ parent(Node(lo + h, h)) = Node(lo, 2 * h)
<1>1. lo \in Nat /\ span[Node(lo, 2 * h)] = 2 * h
  BY DEF Block
<1>2. PICK k \in Pow : /\ k \in Nat \ {0} /\ 2 * h = 2 * k
                       /\ Block(lo, k) /\ Block(lo + k, k)
  BY BlockHalves
<1>3. span[Node(lo, h)] = h /\ span[Node(lo + h, h)] = h
  BY <1>2 DEF Block
<1>4. PICK x \in Nat : x = Node(lo, 2 * h)
  BY <1>1 DEF Node
<1>5. Node(lo, h) = x - h /\ Node(lo + h, h) = x + h
  BY <1>1, <1>4 DEF Node
<1>6. ((x - h) \div (2 * h)) % 2 = 0 /\ ((x + h) \div (2 * h)) % 2 = 1
  BY <1>1, <1>4, ChildSides
<1>7. parent(x - h) = (x - h) + h
  BY <1>3, <1>5, <1>6 DEF parent
<1>8. parent(x + h) = (x + h) - h
  BY <1>3, <1>5, <1>6 DEF parent
<1> QED
  BY <1>4, <1>5, <1>7, <1>8

\* The first entry under a node satisfies its recursive definition.
LEMMA LeftmostDefined ==
  \A x \in Nat : leftmost_leaf_index[x] =
                   IF is_leaf(x) THEN x \div 2 ELSE leftmost_leaf_index[left_child(x)]
<1>1. \A n \in Nat : ~is_leaf(n) => left_child(n) \in 0 .. n - 1
  <2> TAKE n \in Nat
  <2> HAVE ~is_leaf(n)
  <2>1. n % 2 # 0 /\ left_child(n) = n - span[n] \div 2
    BY DEF is_leaf, left_child
  <2>2. span[n] \div 2 \in Nat \ {0} /\ n - span[n] \div 2 \in Nat
    BY <2>1, ChildSpans
  <2> QED
    BY <2>1, <2>2
<1> DEFINE F == [a \in [Nat -> Nat] \X Nat |-> IF is_leaf(a[2]) THEN a[2] \div 2 ELSE a[1][left_child(a[2])]]
<1>2. \A f \in [Nat -> Nat], n \in Nat : F[<<f, n>>] = IF is_leaf(n) THEN n \div 2 ELSE f[left_child(n)]
  OBVIOUS
<1>3. F \in [[Nat -> Nat] \X Nat -> Nat]
  <2>1. \A a \in [Nat -> Nat] \X Nat : (IF is_leaf(a[2]) THEN a[2] \div 2 ELSE a[1][left_child(a[2])]) \in Nat
    BY <1>1
  <2> QED
    BY <2>1
<1> HIDE DEF F
<1>4. Recursive(F, Nat)
  BY <1>1, <1>2, <1>3 DEF Recursive
<1>5. PICK f \in [Nat -> Nat] : \A n \in Nat : f[n] = F[<<f, n>>]
  BY <1>4, Recursion
<1> DEFINE Is(g) == g = [x \in Nat |-> IF is_leaf(x) THEN x \div 2 ELSE g[left_child(x)]]
<1>6. Is(f)
  BY <1>2, <1>5
<1>7. Is(leftmost_leaf_index)
  BY <1>6 DEF leftmost_leaf_index
<1> QED
  BY <1>7, Zenon

\* It is the first entry of the node's block.
LEMMA LeftmostOf ==
  \A lo, s : Block(lo, s) => leftmost_leaf_index[Node(lo, s)] = lo
<1> DEFINE Right(s) == \A lo : Block(lo, s) => leftmost_leaf_index[Node(lo, s)] = lo
           Wrong == {s \in Nat : ~Right(s)}
<1>1. ASSUME Wrong # {} PROVE FALSE
  <2>1. PICK s \in Wrong : \A y \in Nat : y < s => y \notin Wrong
    <3>1. Wrong \in SUBSET Nat
      OBVIOUS
    <3> HIDE DEF Wrong
    <3> QED
      BY <1>1, <3>1, LeastElement
  <2>2. s \in Nat /\ ~Right(s) /\ \A y \in Nat : y < s => Right(y)
    BY <2>1
  <2>3. PICK lo : Block(lo, s) /\ leftmost_leaf_index[Node(lo, s)] # lo
    BY <2>2
  <2>4. lo \in Nat /\ Node(lo, s) \in Nat
    BY <2>3, BlockOf DEF Block
  <2>5. CASE s = 1
    <3>1. is_leaf(Node(lo, s)) /\ Node(lo, s) \div 2 = lo
      BY <2>3, <2>4, <2>5, BlockHalves DEF Node
    <3> QED
      BY <2>3, <2>4, <3>1, LeftmostDefined
  <2>6. CASE s # 1
    <3>1. PICK h \in Nat \ {0} : s = 2 * h /\ Block(lo, h) /\ left_child(Node(lo, s)) = Node(lo, h)
      BY <2>3, <2>6, BlockHalves
    <3>2. leftmost_leaf_index[Node(lo, h)] = lo /\ ~is_leaf(Node(lo, s))
      BY <2>2, <2>3, <2>6, <3>1, BlockHalves
    <3> QED
      BY <2>3, <2>4, <3>1, <3>2, LeftmostDefined
  <2> QED
    BY <2>5, <2>6
<1>2. \A lo, s : Block(lo, s) => s \in Nat
  BY DEF Block
<1> QED
  BY <1>1, <1>2

\* The loop of right_child, with f for the rest and left for the node's left child.
Descent(n, left, r, f) ==
  IF leftmost_leaf_index[r] < n THEN r ELSE IF is_leaf(r) THEN left ELSE f[left_child(r)]

\* It ends: it goes to the left at every step.
LEMMA DescentDefined ==
  ASSUME NEW n \in Nat, NEW left \in Nat
  PROVE  \E f : f = [r \in Nat |-> Descent(n, left, r, f)]
<1>1. \A r \in Nat : ~is_leaf(r) => left_child(r) \in 0 .. r - 1
  <2> TAKE r \in Nat
  <2> HAVE ~is_leaf(r)
  <2>1. r % 2 # 0 /\ left_child(r) = r - span[r] \div 2
    BY DEF is_leaf, left_child
  <2>2. span[r] \div 2 \in Nat \ {0} /\ r - span[r] \div 2 \in Nat
    BY <2>1, ChildSpans
  <2> QED
    BY <2>1, <2>2
<1> DEFINE F == [a \in [Nat -> Nat] \X Nat |-> Descent(n, left, a[2], a[1])]
<1>2. \A f \in [Nat -> Nat], r \in Nat : F[<<f, r>>] = Descent(n, left, r, f)
  OBVIOUS
<1>3. F \in [[Nat -> Nat] \X Nat -> Nat]
  <2>1. \A a \in [Nat -> Nat] \X Nat : Descent(n, left, a[2], a[1]) \in Nat
    BY <1>1 DEF Descent
  <2> QED
    BY <2>1
<1> HIDE DEF F
<1>4. Recursive(F, Nat)
  BY <1>1, <1>2, <1>3 DEF Recursive, Descent
<1>5. PICK f \in [Nat -> Nat] : \A r \in Nat : f[r] = F[<<f, r>>]
  BY <1>4, Recursion
<1>6. f = [r \in Nat |-> Descent(n, left, r, f)]
  BY <1>2, <1>5
<1> QED
  BY <1>6

\* right_child is full_right, or the left child where there are no entries on the right.
LEMMA RightChildOf ==
  ASSUME NEW n \in Nat, NEW lo, NEW h \in Nat \ {0}, Block(lo, 2 * h)
  PROVE  right_child(Node(lo, 2 * h), n) = IF lo + h < n THEN Node(lo + h, h) ELSE Node(lo, h)
<1>1. lo \in Nat
  BY DEF Block
<1>2. /\ Block(lo + h, h) /\ full_right(Node(lo, 2 * h)) = Node(lo + h, h)
      /\ left_child(Node(lo, 2 * h)) = Node(lo, h)
  <2>1. PICK k \in Pow : /\ k \in Nat \ {0} /\ 2 * h = 2 * k
                         /\ left_child(Node(lo, 2 * h)) = Node(lo, k)
                         /\ Block(lo + k, k) /\ full_right(Node(lo, 2 * h)) = Node(lo + k, k)
    BY BlockHalves
  <2>2. k = h
    BY <2>1
  <2> QED
    BY <2>1, <2>2
<1>3. PICK left \in Nat : left = Node(lo, h)
  BY <1>1 DEF Node
<1> DEFINE d == CHOOSE f : f = [r \in Nat |-> Descent(n, left, r, f)]
<1>4. right_child(Node(lo, 2 * h), n) = d[Node(lo + h, h)]
  BY <1>2, <1>3 DEF right_child, Descent
<1>5. d = [r \in Nat |-> Descent(n, left, r, d)]
  BY DescentDefined
<1> HIDE DEF d
<1>6. \A r \in Nat : d[r] = Descent(n, left, r, d)
  BY <1>5
<1> DEFINE Right(t) == \A a \in Nat : Block(a, t) => d[Node(a, t)] = IF a < n THEN Node(a, t) ELSE left
           Wrong == {t \in Nat : ~Right(t)}
<1>7. ASSUME Wrong # {} PROVE FALSE
  <2>1. PICK t \in Wrong : \A y \in Nat : y < t => y \notin Wrong
    <3>1. Wrong \in SUBSET Nat
      OBVIOUS
    <3> HIDE DEF Wrong
    <3> QED
      BY <1>7, <3>1, LeastElement
  <2>2. t \in Nat /\ ~Right(t) /\ \A y \in Nat : y < t => Right(y)
    BY <2>1
  <2>3. PICK a \in Nat : Block(a, t) /\ d[Node(a, t)] # IF a < n THEN Node(a, t) ELSE left
    BY <2>2
  <2>4. /\ Node(a, t) \in Nat /\ leftmost_leaf_index[Node(a, t)] = a
        /\ is_leaf(Node(a, t)) <=> t = 1
    <3>1. Node(a, t) \in Nat
      BY <2>3, BlockOf
    <3>2. leftmost_leaf_index[Node(a, t)] = a
      BY <2>3, LeftmostOf
    <3>3. is_leaf(Node(a, t)) <=> t = 1
      BY <2>3, BlockHalves
    <3> QED
      BY <3>1, <3>2, <3>3
  <2>5. CASE a < n
    BY <1>6, <2>3, <2>4, <2>5 DEF Descent
  <2>6. CASE ~(a < n) /\ t = 1
    BY <1>6, <2>3, <2>4, <2>6 DEF Descent
  <2>7. CASE ~(a < n) /\ t # 1
    <3>1. PICK k \in Nat \ {0} : t = 2 * k /\ Block(a, k) /\ left_child(Node(a, t)) = Node(a, k)
      BY <2>3, <2>7, BlockHalves
    <3>2. d[Node(a, k)] = left
      BY <2>2, <2>7, <3>1
    <3> QED
      BY <1>6, <2>3, <2>4, <2>7, <3>1, <3>2 DEF Descent
  <2> QED
    BY <2>5, <2>6, <2>7
<1>8. lo + h \in Nat
  BY <1>1
<1> QED
  BY <1>2, <1>3, <1>4, <1>7, <1>8

\* The children of an inner node in a log of n entries span less.
LEMMA ChildrenAreSmaller ==
  ASSUME NEW n \in Nat, NEW x \in Nat, ~is_leaf(x)
  PROVE  /\ left_child(x) \in Nat /\ right_child(x, n) \in Nat
         /\ span[left_child(x)] < span[x] /\ span[right_child(x, n)] < span[x]
<1>1. PICK lo \in Nat, s \in Pow : x = Node(lo, s) /\ Block(lo, s)
  BY BlockOf
<1>2. s # 1
  BY <1>1, BlockHalves
<1>3. PICK h \in Pow : /\ h \in Nat \ {0} /\ s = 2 * h
                       /\ Block(lo, h) /\ left_child(x) = Node(lo, h) /\ Block(lo + h, h)
  BY <1>1, <1>2, BlockHalves
<1>4. right_child(x, n) = Node(lo + h, h) \/ right_child(x, n) = Node(lo, h)
  BY <1>1, <1>3, RightChildOf
<1>5. /\ Node(lo, h) \in Nat /\ Node(lo + h, h) \in Nat
      /\ span[x] = 2 * h /\ span[Node(lo, h)] = h /\ span[Node(lo + h, h)] = h
  <2>1. span[x] = 2 * h /\ span[Node(lo, h)] = h /\ span[Node(lo + h, h)] = h
    BY <1>1, <1>3 DEF Block
  <2>2. Node(lo, h) \in Nat /\ Node(lo + h, h) \in Nat
    BY <1>3 DEF Node
  <2> QED
    BY <2>1, <2>2
<1> QED
  BY <1>3, <1>4, <1>5

\* The root of the Merkle tree is over the least power of two that holds the log.
LEMMA MerkleRootOf ==
  ASSUME NEW n \in Nat \ {0}
  PROVE  \E s \in Pow : /\ s \in Nat \ {0} /\ merkle_root(n) = Node(0, s) /\ Block(0, s)
                        /\ n <= s /\ s < 2 * n
<1>1. CASE n = 1
  <2>1. merkle_root(n) = Node(0, 1)
    BY <1>1 DEF merkle_root, Node
  <2>2. 1 \in Pow /\ Block(0, 1)
    BY PowSpans, BlockOf
  <2> QED
    BY <1>1, <2>1, <2>2
<1>2. CASE n # 1
  <2>1. PICK m \in Nat \ {0} : m = n - 1
    BY <1>2
  <2>2. PICK p \in Pow : p = msb[m] /\ p \in Nat \ {0} /\ p <= m /\ m < 2 * p
    BY MsbIsPow
  <2>3. 2 * p \in Pow
    BY PowHalves
  <2>4. merkle_root(n) = Node(0, 2 * p)
    <3>1. ~(n <= 1) /\ merkle_root(n) = 2 * p - 1
      BY <1>2, <2>1, <2>2 DEF merkle_root
    <3> QED
      BY <2>2, <3>1 DEF Node
  <2>5. 2 * p \in Nat \ {0} /\ n <= 2 * p /\ 2 * p < 2 * n
    BY <2>1, <2>2
  <2>6. Block(0, 2 * p)
    BY <2>3, BlockOf
  <2> QED
    BY <2>3, <2>4, <2>5, <2>6
<1> QED
  BY <1>1, <1>2

\* The boundaries of the full subtrees of the entries from a up to n: each takes the greatest
\* power of two that is left.
Cut(b, k, a, n) ==
  /\ k \in Nat /\ b \in [0 .. k -> Nat] /\ b[0] = a /\ b[k] = n
  /\ \A i \in 1 .. k : b[i - 1] < n /\ b[i] = b[i - 1] + msb[n - b[i - 1]]

\* One step of get_roots.
Peaks(n, m, f) == IF m = 0 THEN <<>> ELSE <<root(msb[m]) + 2 * (n - m)>> \o f[m - msb[m]]

\* The recursion of get_roots ends: what is left gets smaller.
LEMMA PeaksDefined ==
  ASSUME NEW n \in Nat
  PROVE  \E f \in [0 .. n -> Seq(Nat)] : f = [m \in 0 .. n |-> Peaks(n, m, f)]
<1>1. PICK V : V = Seq(Nat)
  OBVIOUS
<1>2. \A m \in 0 .. n : m # 0 => m - msb[m] \in 0 .. m - 1 /\ m - msb[m] \in 0 .. n
                                 /\ root(msb[m]) + 2 * (n - m) \in Nat
  <2> TAKE m \in 0 .. n
  <2> HAVE m # 0
  <2>1. msb[m] \in Nat \ {0} /\ msb[m] <= m
    BY MsbIsPow
  <2>2. root(msb[m]) \in Nat
    BY <2>1, RootIsEntry
  <2> QED
    BY <2>1, <2>2
<1> DEFINE F == [a \in [0 .. n -> V] \X (0 .. n) |-> Peaks(n, a[2], a[1])]
           mu == [m \in 0 .. n |-> m]
<1>3. \A f \in [0 .. n -> V], m \in 0 .. n : F[<<f, m>>] = Peaks(n, m, f) /\ Peaks(n, m, f) \in V
  <2> TAKE f \in [0 .. n -> V], m \in 0 .. n
  <2>1. F[<<f, m>>] = Peaks(n, m, f)
    OBVIOUS
  <2>2. Peaks(n, m, f) \in Seq(Nat)
    <3>1. CASE m = 0
      BY <3>1 DEF Peaks
    <3>2. CASE m # 0
      <4>1. f[m - msb[m]] \in Seq(Nat) /\ <<root(msb[m]) + 2 * (n - m)>> \in Seq(Nat)
        BY <1>1, <1>2, <3>2, SMTT(30)
      <4>2. <<root(msb[m]) + 2 * (n - m)>> \o f[m - msb[m]] \in Seq(Nat)
        BY <4>1, ConcatProperties
      <4> QED
        BY <3>2, <4>2 DEF Peaks
    <3> QED
      BY <3>1, <3>2
  <2> QED
    BY <1>1, <2>1, <2>2
<1>4. F \in [[0 .. n -> V] \X (0 .. n) -> V]
  <2>1. \A a \in [0 .. n -> V] \X (0 .. n) : Peaks(n, a[2], a[1]) \in V
    BY <1>3
  <2> QED
    BY <2>1
<1>5. mu \in [0 .. n -> Nat] /\ \A m \in 0 .. n : mu[m] = m
  OBVIOUS
<1> HIDE DEF F, mu
<1>6. ASSUME NEW f \in [0 .. n -> V], NEW g \in [0 .. n -> V], NEW m \in 0 .. n,
             \A j \in 0 .. n : mu[j] < mu[m] => f[j] = g[j]
      PROVE  F[<<f, m>>] = F[<<g, m>>]
  <2>1. m # 0 => f[m - msb[m]] = g[m - msb[m]]
    BY <1>2, <1>5, <1>6, SMTT(30)
  <2>2. Peaks(n, m, f) = Peaks(n, m, g)
    BY <2>1 DEF Peaks
  <2> QED
    BY <1>3, <2>2
<1>7. Measured(F, 0 .. n, V, mu)
  BY <1>4, <1>5, <1>6, Zenon DEF Measured
<1>8. <<>> \in V
  BY <1>1
<1>9. PICK f \in [0 .. n -> V] : \A m \in 0 .. n : f[m] = F[<<f, m>>]
  <2>1. PICK S : S = 0 .. n
    OBVIOUS
  <2>2. PICK G, w : G = F /\ w = mu /\ Measured(G, S, V, w)
    BY <1>7, <2>1
  <2>3. \E f \in [S -> V] : \A m \in S : f[m] = G[<<f, m>>]
    <3>1. <<>> \in V /\ Measured(G, S, V, w)
      BY <1>8, <2>2
    <3> QED
      BY <3>1, MeasuredRecursion
  <2> QED
    BY <2>1, <2>2, <2>3
<1>10. f = [m \in 0 .. n |-> Peaks(n, m, f)]
  BY <1>3, <1>9
<1> QED
  BY <1>1, <1>10

\* get_roots lists the nodes over the full subtrees.
LEMMA RootsAreCut ==
  ASSUME NEW n \in Nat
  PROVE  /\ get_roots(n) \in Seq(Nat)
         /\ \E b : /\ Cut(b, Len(get_roots(n)), 0, n)
                   /\ \A i \in 1 .. Len(get_roots(n)) : get_roots(n)[i] = Node(b[i - 1], b[i] - b[i - 1])
<1> DEFINE Is(f) == f = [m \in 0 .. n |-> Peaks(n, m, f)]
           p == CHOOSE f : Is(f)
<1>1. get_roots(n) = p[n]
  BY DEF get_roots, Peaks
<1>2. Is(p)
  BY PeaksDefined
<1> HIDE DEF p
<1>3. \A m \in 0 .. n : p[m] = Peaks(n, m, p)
  BY <1>2
<1> DEFINE Lists(s, a) ==
             /\ s \in Seq(Nat)
             /\ \E b : /\ Cut(b, Len(s), a, n)
                       /\ \A i \in 1 .. Len(s) : s[i] = Node(b[i - 1], b[i] - b[i - 1])
           Wrong == {m \in Nat : m <= n /\ ~Lists(p[m], n - m)}
<1>4. ASSUME Wrong # {} PROVE FALSE
  <2>1. PICK m \in Wrong : \A y \in Nat : y < m => y \notin Wrong
    <3>1. Wrong \in SUBSET Nat
      OBVIOUS
    <3> HIDE DEF Wrong
    <3> QED
      BY <1>4, <3>1, LeastElement
  <2>2. m \in Nat /\ m <= n /\ ~Lists(p[m], n - m) /\ \A y \in Nat : y < m => Lists(p[y], n - y)
    BY <2>1
  <2> HIDE DEF Lists, Wrong
  <2>3. CASE m = 0
    <3>1. p[m] = <<>>
      <4>1. p[m] = Peaks(n, m, p)
        BY <1>3, <2>2
      <4> QED
        BY <2>3, <4>1 DEF Peaks
    <3>2. PICK b : b = [i \in 0 .. 0 |-> n]
      OBVIOUS
    <3>3. Cut(b, 0, n - m, n)
      BY <2>3, <3>2 DEF Cut
    <3>4. Lists(<<>>, n - m)
      BY <3>3 DEF Lists
    <3> QED
      BY <2>2, <3>1, <3>4
  <2>4. CASE m # 0
    <3>1. PICK q \in Pow : q = msb[m] /\ q \in Nat \ {0} /\ q <= m
      BY <2>2, <2>4, MsbIsPow
    <3>2. PICK j \in Nat : j = m - q /\ j < m /\ j <= n
      BY <2>2, <3>1
    <3>3. PICK s \in Seq(Nat) : s = p[j]
      BY <2>2, <3>2 DEF Lists
    <3>4. PICK c : /\ Cut(c, Len(s), n - j, n)
                   /\ \A i \in 1 .. Len(s) : s[i] = Node(c[i - 1], c[i] - c[i - 1])
      <4>1. Lists(s, n - j)
        BY <2>2, <3>2, <3>3
      <4> QED
        BY <4>1 DEF Lists
    <3>5. PICK a \in Nat : a = n - m /\ n - a = m /\ n - j = a + q
      BY <2>2, <3>1, <3>2
    <3>6. p[m] = <<Node(a, q)>> \o s
      <4>1. root(q) = q - 1
        <5>1. msb[q] = q
          BY <3>1, MsbIsOnly
        <5> QED
          BY <3>1, <5>1 DEF root
      <4>2. root(msb[m]) + 2 * (n - m) = Node(a, q)
        BY <3>1, <3>5, <4>1 DEF Node
      <4>3. p[m] = <<root(msb[m]) + 2 * (n - m)>> \o p[m - msb[m]]
        <5>1. p[m] = Peaks(n, m, p)
          BY <1>3, <2>2
        <5> QED
          BY <2>4, <5>1 DEF Peaks
      <4> QED
        BY <3>1, <3>2, <3>3, <4>2, <4>3
    <3>7. PICK k \in Nat : k = Len(s)
      OBVIOUS
    <3>8. PICK t : t = <<Node(a, q)>> \o s
      OBVIOUS
    <3>9. /\ t \in Seq(Nat) /\ Len(t) = k + 1 /\ t[1] = Node(a, q)
          /\ \A i \in 2 .. k + 1 : t[i] = s[i - 1]
      <4>1. PICK z \in Nat : z = Node(a, q)
        BY <3>1 DEF Node
      <4>2. PICK u \in Seq(Nat) : u = <<Node(a, q)>> /\ Len(u) = 1 /\ u[1] = Node(a, q)
        <5>1. <<z>> \in Seq(Nat) /\ Len(<<z>>) = 1 /\ <<z>>[1] = z
          OBVIOUS
        <5> QED
          BY <4>1, <5>1
      <4>3. /\ u \o s \in Seq(Nat) /\ Len(u \o s) = Len(u) + Len(s)
            /\ \A i \in 1 .. Len(u) + Len(s) : (u \o s)[i] = IF i <= Len(u) THEN u[i] ELSE s[i - Len(u)]
        BY ConcatProperties
      <4>4. t = u \o s /\ Len(u) = 1 /\ Len(s) = k
        BY <3>7, <3>8, <4>2
      <4> QED
        BY <4>2, <4>3, <4>4
    <3>10. PICK b : b = [i \in 0 .. k + 1 |-> IF i = 0 THEN a ELSE c[i - 1]]
      OBVIOUS
    <3>11. /\ c \in [0 .. k -> Nat] /\ c[0] = a + q /\ c[k] = n
           /\ \A i \in 1 .. k : c[i - 1] < n /\ c[i] = c[i - 1] + msb[n - c[i - 1]]
      BY <3>4, <3>5, <3>7 DEF Cut
    <3>12. b[0] = a /\ \A i \in 1 .. k + 1 : b[i] = c[i - 1]
      BY <3>10
    <3>13. Cut(b, k + 1, a, n)
      <4>1. b \in [0 .. k + 1 -> Nat]
        <5>1. \A i \in 0 .. k + 1 : (IF i = 0 THEN a ELSE c[i - 1]) \in Nat
          BY <3>11
        <5> QED
          BY <3>10, <5>1
      <4>2. b[k + 1] = n
        BY <3>11, <3>12
      <4>3. ASSUME NEW i \in 1 .. k + 1
            PROVE  b[i - 1] < n /\ b[i] = b[i - 1] + msb[n - b[i - 1]]
        <5>1. CASE i = 1
          <6>1. b[i - 1] = a /\ b[i] = a + q /\ a < n /\ msb[n - a] = q
            BY <2>2, <2>4, <3>1, <3>5, <3>11, <3>12, <5>1
          <6> QED
            BY <6>1
        <5>2. CASE i # 1
          <6>1. i - 1 \in 1 .. k /\ b[i] = c[i - 1] /\ b[i - 1] = c[(i - 1) - 1]
            BY <3>12, <5>2
          <6> QED
            BY <3>11, <6>1
        <5> QED
          BY <5>1, <5>2
      <4> QED
        BY <3>12, <4>1, <4>2, <4>3 DEF Cut
    <3>14. ASSUME NEW i \in 1 .. k + 1 PROVE t[i] = Node(b[i - 1], b[i] - b[i - 1])
      <4>1. CASE i = 1
        <5>1. b[i - 1] = a /\ b[i] - b[i - 1] = q
          BY <3>1, <3>11, <3>12, <4>1
        <5> QED
          BY <3>9, <4>1, <5>1
      <4>2. CASE i # 1
        <5>1. i - 1 \in 1 .. Len(s) /\ b[i] = c[i - 1] /\ b[i - 1] = c[(i - 1) - 1] /\ t[i] = s[i - 1]
          <6>1. i \in 2 .. k + 1 /\ i - 1 \in 1 .. k + 1
            BY <4>2
          <6> QED
            BY <3>7, <3>9, <3>12, <6>1
        <5> QED
          BY <3>4, <5>1
      <4> QED
        BY <4>1, <4>2
    <3>15. Lists(t, a)
      BY <3>9, <3>13, <3>14 DEF Lists
    <3> QED
      BY <2>2, <3>5, <3>6, <3>8, <3>15
  <2> QED
    BY <2>3, <2>4
<1>5. Lists(p[n], 0)
  <2>1. Lists(p[n], n - n)
    BY <1>4
  <2> QED
    BY <2>1
<1> QED
  BY <1>1, <1>5

\* The way down from a node that reaches over the last entry ends at such a node, and it ends
\* somewhere unless there are no entries under the node at all.
LEMMA DownwardReaches ==
  ASSUME NEW n \in Nat, NEW f, f = [r \in Nat |-> Downward(n, r, f)]
  PROVE  \A r \in Nat : /\ r + span[r] >= n /\ f[r] # None => f[r] + span[f[r]] >= n
                        /\ r + 1 < n + span[r] => f[r] # None
<1> DEFINE Right(r) == /\ r + span[r] >= n /\ f[r] # None => f[r] + span[f[r]] >= n
                       /\ r + 1 < n + span[r] => f[r] # None
           Wrong == {r \in Nat : ~Right(r)}
<1>1. ASSUME Wrong # {} PROVE FALSE
  <2>1. PICK r \in Wrong : \A z \in Nat : z < r => z \notin Wrong
    <3>1. Wrong \in SUBSET Nat
      OBVIOUS
    <3> HIDE DEF Wrong
    <3> QED
      BY <1>1, <3>1, LeastElement
  <2>2. r \in Nat /\ ~Right(r)
    OBVIOUS
  <2>3. f[r] = Downward(n, r, f)
    BY <2>2, Zenon
  <2>4. CASE r < n
    <3>1. f[r] = r /\ r # None
      BY <2>2, <2>3, <2>4 DEF Downward, None
    <3> QED
      BY <2>2, <3>1
  <2>5. CASE ~(r < n) /\ r % 2 = 0
    <3>1. f[r] = None /\ span[r] = 1
      BY <2>2, <2>3, <2>5, SpanDefined DEF Downward, is_leaf
    <3> QED
      BY <2>2, <2>5, <3>1
  <2>6. CASE ~(r < n) /\ r % 2 # 0
    <3>1. PICK h \in Nat \ {0} : span[r] = 2 * h /\ r - h \in Nat /\ span[r - h] = h /\ h = span[r] \div 2
      BY <2>2, <2>6, ChildSpans
    <3>2. f[r] = f[r - h]
      BY <2>3, <2>6, <3>1 DEF Downward, is_leaf, left_child
    <3>3. Right(r - h)
      <4>1. r - h < r
        BY <2>2, <3>1
      <4> QED
        BY <2>1, <3>1, <4>1
    <3>4. /\ (r - h) + h >= n /\ f[r] # None => f[r] + span[f[r]] >= n
          /\ (r - h) + 1 < n + h => f[r] # None
      BY <3>1, <3>2, <3>3
    <3>5. (r - h) + h >= n
      BY <2>2, <2>6, <3>1
    <3> QED
      BY <2>2, <3>1, <3>4, <3>5
  <2> QED
    BY <2>4, <2>5, <2>6
<1>2. \A r \in Nat : Right(r)
  BY <1>1
<1> HIDE DEF Right
<1> QED
  BY <1>2, Zenon DEF Right

\* From a node that reaches over the last entry, and is not the last, there is a way on to the
\* right, to such a node again.
LEMMA RightChildReaches ==
  ASSUME NEW n \in Nat \ {0}, NEW x \in 0 .. n - 1, x # n - 1, x + span[x] >= n
  PROVE  /\ ibst_right_child(x, n) \in x + 1 .. n - 1
         /\ ibst_right_child(x, n) + span[ibst_right_child(x, n)] >= n
<1>1. x % 2 # 0
  <2>1. x % 2 = 0 => span[x] = 1
    BY SpanDefined
  <2> QED
    BY <2>1
<1>2. PICK g : g = [r \in Nat |-> Downward(n, r, g)]
  BY DownwardDefined
<1> DEFINE d == CHOOSE f : f = [r \in Nat |-> Downward(n, r, f)]
<1>3. d = [r \in Nat |-> Downward(n, r, d)]
  BY <1>2
<1>4. ibst_right_child(x, n) = d[full_right(x)]
  BY <1>1 DEF ibst_right_child, is_leaf, Downward
<1> HIDE DEF d
<1>5. PICK h \in Nat \ {0} : full_right(x) = x + h /\ span[x + h] = h /\ span[x] = 2 * h
  <2>1. x \in Nat
    OBVIOUS
  <2>2. PICK h \in Nat \ {0} : h = span[x] \div 2 /\ 2 * h = span[x] /\ span[x + h] = h
    BY <1>1, <2>1, ChildSpans
  <2> QED
    BY <2>2 DEF full_right
<1>6. PICK r \in Nat : r = x + h
  OBVIOUS
<1>7. r + span[r] >= n /\ r + 1 < n + span[r]
  BY <1>5, <1>6
<1>8. /\ r + span[r] >= n /\ d[r] # None => d[r] + span[d[r]] >= n
      /\ r + 1 < n + span[r] => d[r] # None
  BY <1>3, DownwardReaches
<1>9. ibst_right_child(x, n) # None
  BY <1>4, <1>5, <1>6, <1>7, <1>8
<1> QED
  BY <1>4, <1>5, <1>6, <1>7, <1>8, <1>9, RightChildIsRight

\* A sequence of entries that ends at the last one.
Ending(s, n) == s \in Seq(0 .. n - 1) /\ Len(s) > 0 /\ s[Len(s)] = n - 1

\* Every frontier ends at the last entry, the one a proof of the newest version is read from.
THEOREM FrontierEnds ==
  ASSUME NEW n \in Nat \ {0}
  PROVE  Len(get_frontier(n)) > 0 /\ get_frontier(n)[Len(get_frontier(n))] = n - 1
<1> DEFINE d == CHOOSE f : f = [x \in 0 .. n - 1 |-> Onward(n, x, f)]
           Wrong == {i \in Nat : /\ i < n /\ (n - 1 - i) + span[n - 1 - i] >= n
                                 /\ ~Ending(d[n - 1 - i], n)}
<1>1. d = [x \in 0 .. n - 1 |-> Onward(n, x, d)]
  BY SpineDefined
<1>2. get_frontier(n) = d[root(n)]
  BY DEF get_frontier, Onward
<1> HIDE DEF d
<1>3. ASSUME Wrong # {} PROVE FALSE
  <2>1. PICK i \in Wrong : \A j \in Nat : j < i => j \notin Wrong
    <3>1. Wrong \in SUBSET Nat
      OBVIOUS
    <3> HIDE DEF Wrong
    <3> QED
      BY <1>3, <3>1, LeastElement
  <2>2. i \in Nat /\ i < n
    OBVIOUS
  <2>3. PICK x \in 0 .. n - 1 : x = n - 1 - i /\ x + span[x] >= n /\ ~Ending(d[x], n)
    BY <2>2
  <2>4. d[x] = Onward(n, x, d)
    BY <1>1
  <2>5. CASE x = n - 1
    <3>1. d[x] = <<x>>
      BY <2>4, <2>5 DEF Onward
    <3>2. Ending(<<x>>, n)
      BY <2>5 DEF Ending
    <3> QED
      BY <2>3, <3>1, <3>2
  <2>6. CASE x # n - 1
    <3>1. PICK r \in x + 1 .. n - 1 : r = ibst_right_child(x, n) /\ r + span[r] >= n
      BY <2>3, <2>6, RightChildReaches
    <3>2. r # None
      BY DEF None
    <3>3. d[x] = <<x>> \o d[r]
      BY <2>4, <2>6, <3>1, <3>2 DEF Onward
    <3>4. Ending(d[r], n)
      <4>1. PICK j \in Nat : j = n - 1 - r /\ j < i /\ j < n /\ n - 1 - j = r
        BY <2>3
      <4>2. j \notin Wrong
        BY <2>1, <4>1
      <4> QED
        BY <3>1, <4>1, <4>2
    <3>5. PICK u \in Seq(0 .. n - 1) : u = <<x>> /\ Len(u) = 1
      <4>1. PICK S : S = 0 .. n - 1
        OBVIOUS
      <4>2. <<x>> \in Seq(S) /\ Len(<<x>>) = 1
        BY <4>1
      <4> QED
        BY <4>1, <4>2
    <3>11. PICK w \in Seq(0 .. n - 1) : w = d[r] /\ Len(w) > 0 /\ w[Len(w)] = n - 1
      BY <3>4 DEF Ending
    <3>6. PICK t \in Seq(0 .. n - 1) : /\ t = u \o w /\ Len(t) = 1 + Len(w)
                                       /\ \A k \in 1 .. 1 + Len(w) : t[k] = IF k <= 1 THEN u[k] ELSE w[k - 1]
      <4>1. /\ u \o w \in Seq(0 .. n - 1) /\ Len(u \o w) = Len(u) + Len(w)
            /\ \A k \in 1 .. Len(u) + Len(w) : (u \o w)[k] = IF k <= Len(u) THEN u[k] ELSE w[k - Len(u)]
        BY ConcatProperties
      <4> QED
        BY <3>5, <4>1
    <3>7. PICK l \in Nat : l = Len(w) /\ l > 0
      BY <3>11
    <3>8. 1 + l \in 1 .. 1 + l /\ ~(1 + l <= 1) /\ (1 + l) - 1 = l
      BY <3>7
    <3>9. t[1 + l] = n - 1
      BY <3>11, <3>6, <3>7, <3>8
    <3>10. Ending(t, n)
      BY <3>6, <3>7, <3>9 DEF Ending
    <3> QED
      BY <2>3, <3>3, <3>5, <3>6, <3>10, <3>11
  <2> QED
    BY <2>5, <2>6
<1>4. PICK r \in 0 .. n - 1 : r = root(n)
  BY RootIsEntry
<1>5. r + span[r] >= n
  <2>1. PICK m \in Pow : m = msb[n] /\ m \in Nat \ {0} /\ m <= n /\ n < 2 * m
    BY MsbIsPow
  <2>2. r = m - 1 /\ span[r] = m
    BY <1>4, <2>1 DEF root, Pow
  <2> QED
    BY <2>1, <2>2
<1>6. Ending(d[r], n)
  <2>1. PICK i \in Nat : i = n - 1 - r /\ i < n /\ n - 1 - i = r
    OBVIOUS
  <2> QED
    BY <1>3, <1>5, <2>1
<1> QED
  BY <1>2, <1>4, <1>6 DEF Ending

\* The way down keeps the left edge of where it started.
LEMMA DownwardKeepsLeft ==
  ASSUME NEW n \in Nat, NEW f, f = [r \in Nat |-> Downward(n, r, f)]
  PROVE  \A r \in Nat : f[r] # None => f[r] - span[f[r]] = r - span[r]
<1> DEFINE Right(r) == f[r] # None => f[r] - span[f[r]] = r - span[r]
           Wrong == {r \in Nat : ~Right(r)}
<1>1. ASSUME Wrong # {} PROVE FALSE
  <2>1. PICK r \in Wrong : \A z \in Nat : z < r => z \notin Wrong
    <3>1. Wrong \in SUBSET Nat
      OBVIOUS
    <3> HIDE DEF Wrong
    <3> QED
      BY <1>1, <3>1, LeastElement
  <2>2. r \in Nat /\ ~Right(r)
    OBVIOUS
  <2>3. f[r] = Downward(n, r, f)
    BY <2>2, Zenon
  <2>4. CASE r < n
    BY <2>2, <2>3, <2>4 DEF Downward
  <2>5. CASE ~(r < n) /\ r % 2 = 0
    BY <2>2, <2>3, <2>5 DEF Downward, is_leaf
  <2>6. CASE ~(r < n) /\ r % 2 # 0
    <3>1. PICK h \in Nat \ {0} : span[r] = 2 * h /\ r - h \in Nat /\ span[r - h] = h /\ h = span[r] \div 2
      BY <2>2, <2>6, ChildSpans
    <3>2. f[r] = f[r - h]
      BY <2>3, <2>6, <3>1 DEF Downward, is_leaf, left_child
    <3>3. Right(r - h)
      <4>1. r - h < r
        BY <2>2, <3>1
      <4> QED
        BY <2>1, <3>1, <4>1
    <3>4. (r - h) - h = r - 2 * h
      BY <2>2, <3>1
    <3> QED
      BY <2>2, <3>1, <3>2, <3>3, <3>4
  <2> QED
    BY <2>4, <2>5, <2>6
<1>2. \A r \in Nat : Right(r)
  BY <1>1
<1> HIDE DEF Right
<1> QED
  BY <1>2, Zenon DEF Right

\* The entries under a right child start behind its parent.
LEMMA RightChildStarts ==
  ASSUME NEW n \in Nat, NEW x \in Nat, ibst_right_child(x, n) # None
  PROVE  ibst_right_child(x, n) - span[ibst_right_child(x, n)] = x
<1>1. x % 2 # 0
  BY DEF ibst_right_child, is_leaf
<1>2. PICK g : g = [r \in Nat |-> Downward(n, r, g)]
  BY DownwardDefined
<1> DEFINE d == CHOOSE f : f = [r \in Nat |-> Downward(n, r, f)]
<1>3. d = [r \in Nat |-> Downward(n, r, d)]
  BY <1>2
<1>4. ibst_right_child(x, n) = d[full_right(x)]
  BY <1>1 DEF ibst_right_child, is_leaf, Downward
<1> HIDE DEF d
<1>5. PICK h \in Nat \ {0} : full_right(x) = x + h /\ span[x + h] = h
  <2>1. PICK h \in Nat \ {0} : h = span[x] \div 2 /\ 2 * h = span[x] /\ span[x + h] = h
    BY <1>1, ChildSpans
  <2> QED
    BY <2>1 DEF full_right
<1>6. PICK r \in Nat : r = x + h
  OBVIOUS
<1>7. d[r] # None => d[r] - span[d[r]] = r - span[r]
  BY <1>3, DownwardKeepsLeft
<1>8. r - span[r] = x
  BY <1>5, <1>6
<1> QED
  BY <1>4, <1>5, <1>6, <1>7, <1>8

\* What is in one of two sequences is in both joined.
LEMMA InConcat ==
  ASSUME NEW S, NEW u \in Seq(S), NEW w \in Seq(S), NEW e, e \in ToSet(u) \/ e \in ToSet(w)
  PROVE  u \o w \in Seq(S) /\ e \in ToSet(u \o w)
<1>1. PICK k \in Nat, l \in Nat : k = Len(u) /\ l = Len(w) /\ DOMAIN u = 1 .. k /\ DOMAIN w = 1 .. l
  OBVIOUS
<1>2. PICK t \in Seq(S) : /\ t = u \o w /\ Len(t) = k + l
                          /\ \A i \in 1 .. k + l : t[i] = IF i <= k THEN u[i] ELSE w[i - k]
  <2>1. /\ u \o w \in Seq(S) /\ Len(u \o w) = Len(u) + Len(w)
        /\ \A i \in 1 .. Len(u) + Len(w) : (u \o w)[i] = IF i <= Len(u) THEN u[i] ELSE w[i - Len(u)]
    BY ConcatProperties
  <2> QED
    BY <1>1, <2>1
<1>3. DOMAIN t = 1 .. k + l
  BY <1>2
<1>4. CASE e \in ToSet(u)
  <2>1. PICK i \in 1 .. k : e = u[i]
    BY <1>1, <1>4 DEF ToSet
  <2>2. i \in 1 .. k + l /\ i <= k
    OBVIOUS
  <2>3. t[i] = e
    BY <1>2, <2>1, <2>2
  <2> QED
    BY <1>2, <1>3, <2>2, <2>3 DEF ToSet
<1>5. CASE e \in ToSet(w)
  <2>1. PICK i \in 1 .. l : e = w[i]
    BY <1>1, <1>5 DEF ToSet
  <2>2. k + i \in 1 .. k + l /\ ~(k + i <= k) /\ (k + i) - k = i
    OBVIOUS
  <2>3. t[k + i] = e
    BY <1>2, <2>1, <2>2
  <2> QED
    BY <1>2, <1>3, <2>2, <2>3 DEF ToSet
<1> QED
  BY <1>4, <1>5

\* Where the last entry is a leaf, the entry before it is its parent, and on the frontier too.
LEMMA FrontierPasses ==
  ASSUME NEW n \in Nat, n % 2 = 1, n # 1
  PROVE  n - 2 \in ToSet(get_frontier(n))
<1>0. n \in Nat \ {0} /\ n >= 3 /\ (n - 1) % 2 = 0 /\ n - 1 \in Nat
  OBVIOUS
<1> DEFINE d == CHOOSE f : f = [x \in 0 .. n - 1 |-> Onward(n, x, f)]
           Has(s) == s \in Seq(0 .. n - 1) /\ n - 2 \in ToSet(s)
           Wrong == {i \in Nat : /\ i < n /\ i # 0 /\ (n - 1 - i) + span[n - 1 - i] >= n
                                 /\ ~Has(d[n - 1 - i])}
<1>1. d = [x \in 0 .. n - 1 |-> Onward(n, x, d)]
  BY SpineDefined
<1>2. get_frontier(n) = d[root(n)]
  BY <1>0 DEF get_frontier, Onward
<1> HIDE DEF d
<1>a. span[n - 1] = 1
  BY <1>0, SpanDefined
<1>3. ASSUME Wrong # {} PROVE FALSE
  <2>1. PICK i \in Wrong : \A j \in Nat : j < i => j \notin Wrong
    <3>1. Wrong \in SUBSET Nat
      OBVIOUS
    <3> HIDE DEF Wrong
    <3> QED
      BY <1>3, <3>1, LeastElement
  <2>2. i \in Nat /\ i < n /\ i # 0
    OBVIOUS
  <2>3. PICK x \in 0 .. n - 1 : x = n - 1 - i /\ x + span[x] >= n /\ ~Has(d[x]) /\ x # n - 1
    BY <1>0, <2>2
  <2>4. d[x] = Onward(n, x, d)
    BY <1>1
  <2>5. PICK r \in x + 1 .. n - 1 : r = ibst_right_child(x, n) /\ r + span[r] >= n
    BY <1>0, <2>3, RightChildReaches
  <2>6. r # None
    BY DEF None
  <2>7. d[x] = <<x>> \o d[r]
    BY <2>3, <2>4, <2>5, <2>6 DEF Onward
  <2>8. PICK S : S = 0 .. n - 1
    OBVIOUS
  <2>9. PICK u \in Seq(S) : u = <<x>> /\ x \in ToSet(u)
    <3>1. <<x>> \in Seq(S) /\ 1 \in DOMAIN <<x>> /\ <<x>>[1] = x
      BY <2>8
    <3>2. x \in ToSet(<<x>>)
      BY <3>1 DEF ToSet
    <3> QED
      BY <3>1, <3>2
  <2>10. PICK w \in Seq(S) : w = d[r] /\ (n - 2 \in ToSet(u) \/ n - 2 \in ToSet(w))
    <3>1. CASE r = n - 1
      <4>1. x = n - 2
        <5>1. r - span[r] = x
          BY <2>5, <2>6, RightChildStarts
        <5>2. span[r] = 1
          BY <1>a, <3>1
        <5>3. r - 1 = x
          BY <5>1, <5>2
        <5> QED
          BY <3>1, <5>3
      <4>2. d[r] = Onward(n, r, d)
        <5>1. r \in 0 .. n - 1
          BY <1>0, <3>1
        <5> HIDE DEF Has, Wrong
        <5> QED
          BY <1>1, <5>1
      <4>3. d[r] = <<r>>
        BY <3>1, <4>2 DEF Onward
      <4>4. <<r>> \in Seq(S)
        BY <2>8
      <4> QED
        BY <2>9, <4>1, <4>3, <4>4
    <3>2. CASE r # n - 1
      <4>1. PICK j \in Nat : j = n - 1 - r /\ j < i /\ j < n /\ n - 1 - j = r /\ j # 0
        BY <2>3, <3>2
      <4>2. j \notin Wrong
        BY <2>1, <4>1
      <4>3. Has(d[r])
        BY <2>5, <4>1, <4>2
      <4> QED
        BY <2>8, <4>3
    <3> QED
      BY <3>1, <3>2
  <2>11. u \o w \in Seq(S) /\ n - 2 \in ToSet(u \o w)
    BY <2>10, InConcat
  <2> QED
    BY <2>3, <2>7, <2>8, <2>9, <2>10, <2>11
<1>4. PICK r \in 0 .. n - 1 : r = root(n)
  BY <1>0, RootIsEntry
<1>5. PICK m \in Pow : m = msb[n] /\ m \in Nat \ {0} /\ m <= n /\ n < 2 * m
  BY <1>0, MsbIsPow
<1>6. r = m - 1 /\ r + span[r] >= n
  <2>1. r = m - 1 /\ span[r] = m
    BY <1>0, <1>4, <1>5 DEF root, Pow
  <2> QED
    BY <1>5, <2>1
<1>7. r # n - 1
  <2>1. m # 1
    BY <1>0, <1>5
  <2>2. m % 2 = 0
    BY <2>1, PowHalves
  <2> QED
    BY <1>0, <1>4, <1>5, <1>6, <2>2
<1>8. Has(d[r])
  <2>1. PICK i \in Nat : i = n - 1 - r /\ i < n /\ n - 1 - i = r /\ i # 0
    BY <1>7
  <2> QED
    BY <1>3, <1>6, <2>1
<1> QED
  BY <1>2, <1>4, <1>8

\* One step down to the target, in a subtree of s[1] entries from s[2].
Towards(target, s, f) ==
  LET here == s[2] + msb[s[1]] - 1
  IN  IF s[1] = 0 \/ target = here THEN <<>>
      ELSE <<here>> \o (IF target < here THEN f[<<msb[s[1]] - 1, s[2]>>]
                        ELSE f[<<s[1] - msb[s[1]], here + 1>>])

\* Size and offset of the parts of a log of n entries.
PartsOf(n) == {p \in (0 .. n) \X (0 .. n) : p[1] + p[2] <= n}

\* The recursion of ibst_direct_path ends, as the parts get smaller, and makes lists of entries.
LEMMA DirectPathDefined ==
  ASSUME NEW n \in Nat, NEW target \in Nat
  PROVE  \E c : /\ ibst_direct_path(target, n) = Reverse(c[<<n, 0>>])
               /\ \A p \in PartsOf(n) : c[p] = Towards(target, p, c) /\ c[p] \in Seq(Nat)
<1>1. PICK V : V = Seq(Nat)
  OBVIOUS
<1>2. PICK D : D = {t \in (0 .. n) \X (0 .. n) : t[1] + t[2] <= n}
  OBVIOUS
<1>d. D = PartsOf(n)
  BY <1>2 DEF PartsOf
<1>3. ASSUME NEW s \in D, s[1] # 0
      PROVE  /\ s[2] + msb[s[1]] - 1 \in Nat
             /\ <<msb[s[1]] - 1, s[2]>> \in D /\ msb[s[1]] - 1 < s[1]
             /\ <<s[1] - msb[s[1]], s[2] + msb[s[1]] - 1 + 1>> \in D /\ s[1] - msb[s[1]] < s[1]
  <2>1. PICK a \in Nat, b \in Nat : a = s[1] /\ b = s[2] /\ a + b <= n /\ a # 0
    BY <1>2, <1>3
  <2>2. PICK m \in Nat \ {0} : m = msb[a] /\ m <= a
    BY <2>1, MsbIsPow
  <2>3. /\ m - 1 \in 0 .. n /\ b \in 0 .. n /\ m - 1 + b <= n
        /\ a - m \in 0 .. n /\ b + m - 1 + 1 \in 0 .. n /\ (a - m) + (b + m - 1 + 1) <= n
    BY <2>1, <2>2
  <2>4. <<m - 1, b>> \in D /\ <<a - m, b + m - 1 + 1>> \in D
    BY <1>2, <2>3
  <2>5. b + m - 1 \in Nat /\ m - 1 < a /\ a - m < a
    BY <2>1, <2>2
  <2> QED
    BY <2>1, <2>2, <2>4, <2>5
<1>4. ASSUME NEW f \in [D -> V], NEW s \in D PROVE Towards(target, s, f) \in V
  <2>1. CASE s[1] = 0
    BY <1>1, <2>1 DEF Towards
  <2>2. CASE s[1] # 0
    <3>1. PICK here \in Nat : here = s[2] + msb[s[1]] - 1
      BY <1>3, <2>2
    <3>2. f[<<msb[s[1]] - 1, s[2]>>] \in Seq(Nat) /\ f[<<s[1] - msb[s[1]], here + 1>>] \in Seq(Nat)
      BY <1>1, <1>3, <2>2, <3>1
    <3>3. <<here>> \in Seq(Nat) /\ <<>> \in Seq(Nat)
      OBVIOUS
    <3>4. PICK p, q : p = f[<<msb[s[1]] - 1, s[2]>>] /\ q = f[<<s[1] - msb[s[1]], here + 1>>]
      OBVIOUS
    <3>5. <<here>> \o p \in Seq(Nat) /\ <<here>> \o q \in Seq(Nat)
      BY <3>2, <3>3, <3>4, ConcatProperties
    <3>6. Towards(target, s, f) \in {<<>>, <<here>> \o p, <<here>> \o q}
      BY <2>2, <3>1, <3>4 DEF Towards
    <3> QED
      BY <1>1, <3>3, <3>5, <3>6
  <2> QED
    BY <2>1, <2>2
<1> DEFINE F == [a \in [D -> V] \X D |-> Towards(target, a[2], a[1])]
<1>5. \A f \in [D -> V], s \in D : F[<<f, s>>] = Towards(target, s, f)
  OBVIOUS
<1>6. F \in [[D -> V] \X D -> V]
  <2>1. \A a \in [D -> V] \X D : Towards(target, a[2], a[1]) \in V
    BY <1>4
  <2> QED
    BY <2>1
<1> HIDE DEF F
<1>7. PICK mu : mu = [s \in D |-> s[1]]
  OBVIOUS
<1>8. mu \in [D -> Nat] /\ \A s \in D : mu[s] = s[1]
  <2>1. \A s \in D : s[1] \in Nat
    BY <1>2
  <2> QED
    BY <1>7, <2>1
<1>9. ASSUME NEW f \in [D -> V], NEW g \in [D -> V], NEW s \in D,
             \A y \in D : mu[y] < mu[s] => f[y] = g[y]
      PROVE  F[<<f, s>>] = F[<<g, s>>]
  <2>1. CASE s[1] = 0
    BY <1>5, <2>1 DEF Towards
  <2>2. CASE s[1] # 0
    <3>1. PICK y, z : y = <<msb[s[1]] - 1, s[2]>> /\ z = <<s[1] - msb[s[1]], s[2] + msb[s[1]] - 1 + 1>>
      OBVIOUS
    <3>2. y \in D /\ z \in D /\ y[1] < s[1] /\ z[1] < s[1]
      BY <1>3, <2>2, <3>1
    <3>3. f[y] = g[y] /\ f[z] = g[z]
      BY <1>8, <1>9, <3>2
    <3>4. Towards(target, s, f) = Towards(target, s, g)
      BY <3>1, <3>3 DEF Towards
    <3> QED
      BY <1>5, <3>4
  <2> QED
    BY <2>1, <2>2
<1>10. Measured(F, D, V, mu)
  <2>1. \A f, g \in [D -> V], s \in D :
          (\A y \in D : mu[y] < mu[s] => f[y] = g[y]) => F[<<f, s>>] = F[<<g, s>>]
    BY <1>9
  <2> QED
    BY <1>6, <1>8, <2>1, Zenon DEF Measured
<1>11. PICK f \in [D -> V] : \A s \in D : f[s] = F[<<f, s>>]
  <2>1. PICK v : v \in V
    <3>1. <<>> \in V
      BY <1>1
    <3> QED
      BY <3>1
  <2>2. \E f \in [D -> V] : Solves(f, F, D)
    BY <1>10, <2>1, MeasuredSolution
  <2> QED
    BY <2>2 DEF Solves
<1> DEFINE Is(g) == g = [s \in D |-> Towards(target, s, g)]
           c == CHOOSE g : Is(g)
<1>12. Is(f)
  BY <1>5, <1>11
<1>13. Is(c)
  BY <1>12
<1>14. ibst_direct_path(target, n) = Reverse(c[<<n, 0>>])
  BY <1>2 DEF ibst_direct_path, Towards
<1> HIDE DEF c
<1>15. \A s \in D : c[s] = Towards(target, s, c)
  BY <1>13
<1> DEFINE Wrong == {k \in Nat : \E s \in D : s[1] = k /\ c[s] \notin V}
<1>16. ASSUME Wrong # {} PROVE FALSE
  <2>1. PICK k \in Wrong : \A y \in Nat : y < k => y \notin Wrong
    <3>1. Wrong \in SUBSET Nat
      OBVIOUS
    <3> HIDE DEF Wrong
    <3> QED
      BY <1>16, <3>1, LeastElement
  <2>2. PICK s \in D : s[1] = k /\ c[s] \notin V
    OBVIOUS
  <2>3. \A y \in D : y[1] < k => c[y] \in V
    <3>1. \A y \in D : y[1] \in Nat
      BY <1>2
    <3> QED
      BY <2>1, <3>1
  <2> HIDE DEF Wrong, Is
  <2>4. PICK g : g = [y \in D |-> IF y[1] < k THEN c[y] ELSE <<>>]
    OBVIOUS
  <2>5. g \in [D -> V] /\ \A y \in D : y[1] < k => g[y] = c[y]
    <3>1. \A y \in D : (IF y[1] < k THEN c[y] ELSE <<>>) \in V
      BY <1>1, <2>3
    <3> QED
      BY <2>4, <3>1
  <2>6. Towards(target, s, g) = Towards(target, s, c)
    <3>1. CASE s[1] = 0
      BY <3>1 DEF Towards
    <3>2. CASE s[1] # 0
      <4>1. PICK y, z : y = <<msb[s[1]] - 1, s[2]>> /\ z = <<s[1] - msb[s[1]], s[2] + msb[s[1]] - 1 + 1>>
        OBVIOUS
      <4>2. y \in D /\ z \in D /\ y[1] < k /\ z[1] < k
        BY <1>3, <2>2, <3>2, <4>1
      <4>3. g[y] = c[y] /\ g[z] = c[z]
        BY <2>5, <4>2
      <4> QED
        BY <4>1, <4>3 DEF Towards
    <3> QED
      BY <3>1, <3>2
  <2>7. c[s] \in V
    BY <1>4, <1>15, <2>5, <2>6
  <2> QED
    BY <2>2, <2>7
<1>17. \A s \in D : c[s] \in V
  <2>1. \A s \in D : s[1] \in Nat
    BY <1>2
  <2> QED
    BY <1>16, <2>1
<1> QED
  BY <1>1, <1>d, <1>14, <1>15, <1>17, Zenon

\* The way from the root of the search tree to any entry is a list of entries.
LEMMA DirectPathIsList ==
  ASSUME NEW n \in Nat, NEW target \in Nat
  PROVE  ToSet(ibst_direct_path(target, n)) \subseteq Nat
<1>14. PICK c : /\ ibst_direct_path(target, n) = Reverse(c[<<n, 0>>])
                /\ \A p \in PartsOf(n) : c[p] = Towards(target, p, c) /\ c[p] \in Seq(Nat)
  BY DirectPathDefined, Zenon
<1>17. PICK w \in Seq(Nat) : w = c[<<n, 0>>]
  <2>1. <<n, 0>> \in PartsOf(n)
    BY DEF PartsOf
  <2> QED
    BY <1>14, <2>1
<1>18. PICK k \in Nat : k = Len(w) /\ DOMAIN w = 1 .. k
  OBVIOUS
<1>19. PICK u : u = [i \in 1 .. k |-> w[(k - i) + 1]]
  OBVIOUS
<1>20. u = Reverse(w)
  BY <1>18, <1>19 DEF Reverse
<1>21. ToSet(u) \subseteq Nat
  <2>1. DOMAIN u = 1 .. k /\ \A i \in 1 .. k : u[i] = w[(k - i) + 1]
    BY <1>19
  <2>2. \A i \in 1 .. k : (k - i) + 1 \in 1 .. k
    OBVIOUS
  <2>3. \A i \in 1 .. k : u[i] \in Nat
    BY <1>18, <2>1, <2>2
  <2> QED
    BY <2>1, <2>3 DEF ToSet
<1> QED
  BY <1>14, <1>17, <1>20, <1>21

-----------------------------------------------------------------------------
\* Two entries' subtrees are disjoint or nested, and do not share an edge from inside: what
\* lies below x to its left ends at x at the latest, and what lies to its right begins there.
LEMMA SubtreesNest ==
  \A x \in Nat, y \in Nat :
    /\ x - span[x] < y /\ y < x => y + span[y] <= x /\ x - span[x] <= y - span[y]
    /\ x < y /\ y < x + span[x] => x <= y - span[y] /\ y + span[y] <= x + span[x]
<1> DEFINE Right(x) == \A y \in Nat :
             /\ x - span[x] < y /\ y < x => y + span[y] <= x /\ x - span[x] <= y - span[y]
             /\ x < y /\ y < x + span[x] => x <= y - span[y] /\ y + span[y] <= x + span[x]
           Wrong == {x \in Nat : ~Right(x)}
<1>1. ASSUME Wrong # {} PROVE FALSE
  <2>1. PICK x \in Wrong : \A z \in Nat : z < x => z \notin Wrong
    <3>1. Wrong \in SUBSET Nat
      OBVIOUS
    <3> HIDE DEF Wrong
    <3> QED
      BY <1>1, <3>1, LeastElement
  <2>2. x \in Nat /\ ~Right(x)
    OBVIOUS
  <2>3. x % 2 # 0
    <3>1. x % 2 = 0 => span[x] = 1
      BY SpanDefined
    <3> QED
      BY <2>2, <3>1
  <2>4. PICK a \in Nat : a = x \div 2 /\ x = 2 * a + 1 /\ a < x
    BY <2>2, <2>3
  <2>5. PICK s \in Nat \ {0} : s = span[a]
    BY SpanBounds
  <2>6. span[x] = 2 * s
    BY <2>2, <2>3, <2>4, <2>5, SpanDefined
  <2>7. Right(a)
    BY <2>1, <2>4
  <2>8. ASSUME NEW y \in Nat
        PROVE  /\ x - span[x] < y /\ y < x => y + span[y] <= x /\ x - span[x] <= y - span[y]
               /\ x < y /\ y < x + span[x] => x <= y - span[y] /\ y + span[y] <= x + span[x]
    <3>1. CASE y % 2 = 0
      <4>1. span[y] = 1
        BY <3>1, SpanDefined
      <4> QED
        BY <2>4, <2>6, <4>1
    <3>2. CASE y % 2 # 0
      <4>1. PICK b \in Nat : b = y \div 2 /\ y = 2 * b + 1
        BY <3>2
      <4>2. PICK u \in Nat \ {0} : u = span[b]
        BY SpanBounds
      <4>3. span[y] = 2 * u
        BY <3>2, <4>1, <4>2, SpanDefined
      <4>4. /\ a - s < b /\ b < a => b + u <= a /\ a - s <= b - u
            /\ a < b /\ b < a + s => a <= b - u /\ b + u <= a + s
        BY <2>5, <2>7, <4>2
      <4> QED
        BY <2>4, <2>6, <4>1, <4>3, <4>4
    <3> QED
      BY <3>1, <3>2
  <2> QED
    BY <2>2, <2>8
<1>2. \A x \in Nat : Right(x)
  BY <1>1
<1> HIDE DEF Right
<1> QED
  BY <1>2, Zenon DEF Right

\* What the left child of an inner entry spans is the left half.
LEMMA LeftChildIn ==
  ASSUME NEW x \in Nat, ~is_leaf(x)
  PROVE  /\ left_child(x) \in 0 .. x - 1
         /\ left_child(x) + span[left_child(x)] = x
         /\ left_child(x) - span[left_child(x)] = x - span[x]
         /\ span[left_child(x)] < span[x]
<1>1. x % 2 # 0
  BY DEF is_leaf
<1>2. PICK h \in Nat \ {0} : /\ h = span[x] \div 2 /\ 2 * h = span[x]
                             /\ x - h \in Nat /\ span[x - h] = h
  BY <1>1, ChildSpans
<1>3. left_child(x) = x - h
  BY <1>2 DEF left_child
<1> QED
  BY <1>2, <1>3

\* What its right child in a log of n entries spans is the right half, or what the log has of it.
LEMMA RightChildIn ==
  ASSUME NEW n \in Nat, NEW x \in Nat
  PROVE  /\ ibst_right_child(x, n) = None => is_leaf(x) \/ n <= x + 1
         /\ ibst_right_child(x, n) # None =>
              \E r \in x + 1 .. n - 1 :
                /\ r = ibst_right_child(x, n) /\ r - span[r] = x /\ span[r] < span[x]
                /\ r + span[r] = x + span[x] \/ (n <= r + span[r] /\ n <= x + span[x])
<1>1. CASE x % 2 = 0
  BY <1>1 DEF ibst_right_child, is_leaf
<1>2. CASE x % 2 # 0
  <2>1. PICK g : g = [r \in Nat |-> Downward(n, r, g)]
    BY DownwardDefined
  <2> DEFINE d == CHOOSE f : f = [r \in Nat |-> Downward(n, r, f)]
  <2>2. d = [r \in Nat |-> Downward(n, r, d)]
    BY <2>1
  <2>3. ibst_right_child(x, n) = d[full_right(x)]
    BY <1>2 DEF ibst_right_child, is_leaf, Downward
  <2> HIDE DEF d
  <2>4. PICK h \in Nat \ {0} : full_right(x) = x + h /\ span[x + h] = h /\ span[x] = 2 * h
    <3>1. PICK h \in Nat \ {0} : h = span[x] \div 2 /\ 2 * h = span[x] /\ span[x + h] = h
      BY <1>2, ChildSpans
    <3> QED
      BY <3>1 DEF full_right
  <2>5. PICK q \in Nat : q = x + h /\ span[q] = h
    BY <2>4
  <2>6. d[q] = Downward(n, q, d)
    BY <2>2
  <2>7. /\ q + span[q] >= n /\ d[q] # None => d[q] + span[d[q]] >= n
        /\ q + 1 < n + span[q] => d[q] # None
    BY <2>2, DownwardReaches
  <2>8. d[q] # None => d[q] - span[d[q]] = q - span[q]
    BY <2>2, DownwardKeepsLeft
  <2>9. ibst_right_child(x, n) = d[q]
    BY <2>3, <2>4, <2>5
  <2>10. ASSUME d[q] = None PROVE n <= x + 1
    BY <2>5, <2>7, <2>10
  <2>11. ASSUME d[q] # None
         PROVE  \E r \in x + 1 .. n - 1 :
                  /\ r = d[q] /\ r - span[r] = x /\ span[r] < span[x]
                  /\ r + span[r] = x + span[x] \/ (n <= r + span[r] /\ n <= x + span[x])
    <3>1. PICK r \in x + 1 .. n - 1 : r = d[q]
      BY <2>9, <2>11, RightChildIsRight
    <3>2. span[r] \in Nat \ {0}
      BY SpanBounds
    <3>3. r - span[r] = x
      BY <2>5, <2>8, <2>11, <3>1
    <3>4. CASE q < n
      <4>1. r = q
        BY <2>6, <3>1, <3>4 DEF Downward
      <4> QED
        BY <2>4, <2>5, <3>1, <3>3, <4>1
    <3>5. CASE ~(q < n)
      <4>1. r + span[r] >= n
        BY <2>5, <2>7, <2>11, <3>1, <3>5
      <4>2. span[r] < span[x]
        <5>1. r < n
          OBVIOUS
        <5> QED
          BY <2>4, <2>5, <3>2, <3>3, <3>5, <5>1
      <4> QED
        BY <2>4, <2>5, <3>1, <3>3, <3>5, <4>1, <4>2
    <3> QED
      BY <3>4, <3>5
  <2> QED
    BY <2>9, <2>10, <2>11
<1> QED
  BY <1>1, <1>2

\* The root spans the whole log.
LEMMA RootIn ==
  ASSUME NEW n \in Nat \ {0}
  PROVE  /\ root(n) \in 0 .. n - 1 /\ span[root(n)] \in Nat \ {0}
         /\ root(n) - span[root(n)] = -1 /\ root(n) + span[root(n)] >= n
<1>1. PICK r \in 0 .. n - 1 : r = root(n)
  BY RootIsEntry
<1>2. PICK m \in Pow : m = msb[n] /\ m \in Nat \ {0} /\ m <= n /\ n < 2 * m
  BY MsbIsPow
<1>3. r = m - 1 /\ span[r] = m
  BY <1>1, <1>2 DEF root, Pow
<1> QED
  BY <1>1, <1>2, <1>3
=============================================================================
