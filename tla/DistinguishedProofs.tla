------------------------- MODULE DistinguishedProofs -------------------------
(***************************************************************************)
(* Proofs for Distinguished, for every log, window, number of clients and  *)
(* response limit.  What is distinguished is given by the timestamps of an *)
(* entry's nearest ancestors on either side (Wide); an interval inside     *)
(* another one is not wider, so that the recursion of the log and the walk *)
(* of a client find the same entries.  Three results rest on that:         *)
(*   - what a client retains are the wide entries at its head, and heads   *)
(*     only get later, so that lists of clients begin with one another     *)
(*     (RetainedAreDistinguished, GossipTellsForks);                       *)
(*   - a client that takes the answers of the log reads them in step with  *)
(*     the walk that made them: what is left of the log's walk is what     *)
(*     lies below the client's stack (WalkVerifies).                       *)
(***************************************************************************)
EXTENDS Distinguished, LogMathProofs, FiniteSetTheorems

\* A log as the clock stamps it.
InOrder(L) == /\ \A i \in 1 .. Len(L) : L[i].ts \in Nat
              /\ \A i, j \in 1 .. Len(L) : i <= j => L[i].ts <= L[j].ts

\* The timestamps of the nearest ancestors of an entry on either side, in a log of n entries
\* whose head is stamped ts, and the entries whose interval is wide enough.
Before(L, x)       == IF x - span[x] < 0 THEN 0 ELSE L[x - span[x] + 1].ts
After(L, x, n, ts) == IF x + span[x] < n THEN L[x + span[x] + 1].ts ELSE ts
IsWide(L, x, n, ts) == saturating_sub(After(L, x, n, ts), Before(L, x)) >= RMW
Wide(L, n, ts)     == {x \in 0 .. n - 1 : IsWide(L, x, n, ts)}

\* A log of n entries, a prefix of L, whose head is stamped ts.
HeadOf(L, n, ts) == InOrder(L) /\ n \in Nat /\ n <= Len(L) /\ ts \in Nat
                    /\ (n > 0 => L[n].ts <= ts)

\* Before and After are timestamps, After of those the last.
LEMMA AroundIn ==
  ASSUME NEW L, NEW n, NEW ts, HeadOf(L, n, ts), NEW x \in 0 .. n - 1, Len(L) \in Nat
  PROVE  Before(L, x) \in Nat /\ After(L, x, n, ts) \in Nat
<1>1. x \in Nat
  BY DEF HeadOf
<1>2. span[x] \in Nat \ {0} /\ span[x] <= x + 1
  BY <1>1, SpanBounds
<1>3. x - span[x] < 0 \/ x - span[x] + 1 \in 1 .. Len(L)
  BY <1>2 DEF HeadOf
<1>4. x + span[x] < n => x + span[x] + 1 \in 1 .. Len(L)
  BY <1>2 DEF HeadOf
<1> QED
  BY <1>3, <1>4 DEF HeadOf, InOrder, Before, After

\* An interval inside another one is not wider.
LEMMA WideNests ==
  ASSUME NEW L, NEW n, NEW ts, HeadOf(L, n, ts), Len(L) \in Nat,
         NEW x \in 0 .. n - 1, NEW y \in 0 .. n - 1,
         x - span[x] <= y - span[y], y + span[y] <= x + span[x] \/ n <= x + span[x],
         RMW \in Nat \ {0}, IsWide(L, y, n, ts)
  PROVE  IsWide(L, x, n, ts)
<1>1. n \in Nat /\ x \in Nat /\ y \in Nat /\ n <= Len(L) /\ x < n /\ y < n
  BY DEF HeadOf
<1>2. PICK s \in Nat \ {0} : s = span[x] /\ s <= x + 1
  BY <1>1, SpanBounds
<1>3. PICK u \in Nat \ {0} : u = span[y] /\ u <= y + 1
  BY <1>1, SpanBounds
<1>4. PICK a \in Int, b \in Int, c \in Int, d \in Int :
         a = x - span[x] /\ b = x + span[x] /\ c = y - span[y] /\ d = y + span[y]
         /\ a <= c /\ a < n /\ c < n /\ b >= 0 /\ d >= 0 /\ (d <= b \/ n <= b)
  <2>1. PICK a \in Int, c \in Int : a = x - s /\ c = y - u
    BY <1>1
  <2>2. PICK b \in Int, d \in Int : b = x + s /\ d = y + u
    BY <1>1
  <2>3. a <= c /\ (d <= b \/ n <= b)
    BY <1>2, <1>3, <2>1, <2>2
  <2>4. a < n /\ c < n /\ b >= 0 /\ d >= 0
    BY <1>1, <2>1, <2>2
  <2> QED
    BY <1>2, <1>3, <2>1, <2>2, <2>3, <2>4
<1>5. /\ Before(L, x) \in Nat /\ After(L, x, n, ts) \in Nat
      /\ Before(L, y) \in Nat /\ After(L, y, n, ts) \in Nat
  BY AroundIn
<1>6. Before(L, x) <= Before(L, y)
  <2>1. CASE a < 0
    <3>1. Before(L, x) = 0
      BY <1>4, <2>1 DEF Before
    <3> QED
      BY <1>5, <3>1
  <2>2. CASE ~(a < 0)
    <3>0. a \in Int /\ c \in Int /\ 0 <= a /\ a <= c /\ c < n /\ n \in Nat /\ n <= Len(L)
      BY <1>1, <1>4, <2>2
    <3>1. a + 1 \in 1 .. Len(L) /\ c + 1 \in 1 .. Len(L) /\ a + 1 <= c + 1 /\ ~(c < 0)
      BY <3>0
    <3>2. L[a + 1].ts <= L[c + 1].ts
      BY <3>1 DEF HeadOf, InOrder
    <3> QED
      BY <1>4, <2>2, <3>1, <3>2 DEF Before
  <2> QED
    BY <2>1, <2>2
<1>7. After(L, y, n, ts) <= After(L, x, n, ts)
  <2>1. CASE b < n
    <3>0. d \in Int /\ b \in Int /\ d >= 0 /\ b >= 0 /\ d <= b /\ d < n /\ b < n
      BY <1>1, <1>4, <2>1
    <3>1. d + 1 \in 1 .. Len(L) /\ b + 1 \in 1 .. Len(L) /\ d + 1 <= b + 1 /\ d < n
      BY <1>1, <3>0
    <3>2. L[d + 1].ts <= L[b + 1].ts
      BY <3>1 DEF HeadOf, InOrder
    <3> QED
      BY <1>4, <2>1, <3>1, <3>2 DEF After
  <2>2. CASE ~(b < n)
    <3>1. CASE d < n
      <4>1. d + 1 \in 1 .. Len(L) /\ n \in 1 .. Len(L) /\ d + 1 <= n
        BY <1>1, <1>4, <3>1
      <4>2. L[d + 1].ts <= L[n].ts /\ L[n].ts <= ts /\ L[d + 1].ts \in Nat /\ L[n].ts \in Nat
        BY <4>1 DEF HeadOf, InOrder
      <4>3. After(L, y, n, ts) = L[d + 1].ts /\ After(L, x, n, ts) = ts /\ ts \in Nat
        BY <1>4, <2>2, <3>1 DEF After, HeadOf
      <4> QED
        BY <4>2, <4>3
    <3>2. CASE ~(d < n)
      BY <1>4, <2>2, <3>2 DEF After, HeadOf
    <3> QED
      BY <3>1, <3>2
  <2> QED
    BY <2>1, <2>2
<1> QED
  BY <1>5, <1>6, <1>7 DEF IsWide, saturating_sub

\* What lies below an entry in the search tree.
Under(x, n) == {y \in 0 .. n - 1 : x - span[x] < y /\ y < x + span[x]}

\* Nothing below an entry with a narrow interval has a wide one.
LEMMA NarrowBelow ==
  ASSUME NEW L, NEW n, NEW ts, HeadOf(L, n, ts), Len(L) \in Nat, RMW \in Nat \ {0},
         NEW x \in 0 .. n - 1, NEW y \in Under(x, n), IsWide(L, y, n, ts)
  PROVE  IsWide(L, x, n, ts)
<1>1. y \in 0 .. n - 1 /\ x - span[x] < y /\ y < x + span[x]
  BY DEF Under
<1>2. span[x] \in Nat \ {0} /\ span[y] \in Nat \ {0}
  BY <1>1, SpanBounds DEF HeadOf
<1>3. x \in Nat /\ y \in Nat
  BY <1>1 DEF HeadOf
<1>4. x - span[x] <= y - span[y] /\ y + span[y] <= x + span[x]
  BY <1>1, <1>2, <1>3, SubtreesNest
<1> QED
  BY <1>1, <1>4, WideNests

\* A subtree is its root and what is below the root's children, which divide the interval.
LEMMA SubtreeSplits ==
  ASSUME NEW L, NEW n, NEW ts, HeadOf(L, n, ts), Len(L) \in Nat, NEW x \in 0 .. n - 1
  PROVE  /\ is_leaf(x) => span[x] = 1
         /\ ~is_leaf(x) =>
              /\ left_child(x) \in 0 .. n - 1 /\ span[left_child(x)] < span[x]
              /\ Before(L, left_child(x)) = Before(L, x)
              /\ After(L, left_child(x), n, ts) = L[x + 1].ts
              /\ Under(left_child(x), n) = {y \in Under(x, n) : y < x}
         /\ ibst_right_child(x, n) = None => \A y \in Under(x, n) : y <= x
         /\ ibst_right_child(x, n) # None =>
              /\ ibst_right_child(x, n) \in 0 .. n - 1 /\ span[ibst_right_child(x, n)] < span[x]
              /\ Before(L, ibst_right_child(x, n)) = L[x + 1].ts
              /\ After(L, ibst_right_child(x, n), n, ts) = After(L, x, n, ts)
              /\ Under(ibst_right_child(x, n), n) = {y \in Under(x, n) : y > x}
<1>1. n \in Nat /\ x \in Nat /\ x < n
  BY DEF HeadOf
<1>2. PICK s \in Nat \ {0} : s = span[x] /\ s <= x + 1
  BY <1>1, SpanBounds
<1>3. is_leaf(x) => s = 1
  BY <1>1, <1>2, SpanDefined DEF is_leaf
<1>4. ASSUME ~is_leaf(x)
      PROVE  /\ left_child(x) \in 0 .. n - 1 /\ span[left_child(x)] < span[x]
             /\ Before(L, left_child(x)) = Before(L, x)
             /\ After(L, left_child(x), n, ts) = L[x + 1].ts
             /\ Under(left_child(x), n) = {y \in Under(x, n) : y < x}
  <2>1. PICK l \in 0 .. x - 1 : l = left_child(x)
    BY <1>1, <1>4, LeftChildIn
  <2>2. PICK u \in Nat \ {0} : u = span[l]
    <3>1. l \in Nat
      BY <1>1, <2>1
    <3> QED
      BY <3>1, SpanBounds
  <2>3. l + u = x /\ l - u = x - s /\ u < s
    BY <1>1, <1>2, <1>4, <2>1, <2>2, LeftChildIn
  <2>4. l \in 0 .. n - 1
    BY <1>1, <2>1
  <2>5. Under(l, n) = {y \in Under(x, n) : y < x}
    <3>1. \A y \in 0 .. n - 1 : (l - u < y /\ y < l + u) <=> (x - s < y /\ y < x + s /\ y < x)
      BY <1>1, <2>1, <2>3
    <3> QED
      BY <1>2, <2>2, <3>1 DEF Under
  <2>6. Before(L, l) = Before(L, x)
    BY <1>2, <2>2, <2>3 DEF Before
  <2>7. After(L, l, n, ts) = L[x + 1].ts
    BY <1>1, <2>2, <2>3 DEF After
  <2> QED
    BY <1>2, <2>1, <2>2, <2>3, <2>4, <2>5, <2>6, <2>7
<1>5. ASSUME ibst_right_child(x, n) = None PROVE \A y \in Under(x, n) : y <= x
  BY <1>1, <1>2, <1>3, <1>5, RightChildIn DEF Under
<1>6. ASSUME ibst_right_child(x, n) # None
      PROVE  /\ ibst_right_child(x, n) \in 0 .. n - 1 /\ span[ibst_right_child(x, n)] < span[x]
             /\ Before(L, ibst_right_child(x, n)) = L[x + 1].ts
             /\ After(L, ibst_right_child(x, n), n, ts) = After(L, x, n, ts)
             /\ Under(ibst_right_child(x, n), n) = {y \in Under(x, n) : y > x}
  <2>1. PICK r \in x + 1 .. n - 1 :
           /\ r = ibst_right_child(x, n) /\ r - span[r] = x /\ span[r] < span[x]
           /\ r + span[r] = x + span[x] \/ (n <= r + span[r] /\ n <= x + span[x])
    BY <1>1, <1>6, RightChildIn
  <2>2. PICK u \in Nat \ {0} : u = span[r]
    <3>1. r \in Nat
      BY <1>1, <2>1
    <3> QED
      BY <3>1, SpanBounds
  <2>3. r - u = x /\ u < s /\ (r + u = x + s \/ (n <= r + u /\ n <= x + s))
    BY <1>2, <2>1, <2>2
  <2>4. r \in 0 .. n - 1
    BY <1>1, <2>1
  <2>5. Under(r, n) = {y \in Under(x, n) : y > x}
    <3>1. \A y \in 0 .. n - 1 : (r - u < y /\ y < r + u) <=> (x - s < y /\ y < x + s /\ y > x)
      BY <1>1, <2>1, <2>3
    <3> QED
      BY <1>2, <2>2, <3>1 DEF Under
  <2>6. Before(L, r) = L[x + 1].ts
    BY <1>1, <2>2, <2>3 DEF Before
  <2>7. After(L, r, n, ts) = After(L, x, n, ts)
    <3>1. CASE r + u = x + s
      BY <1>2, <2>2, <3>1 DEF After
    <3>2. CASE n <= r + u /\ n <= x + s
      <4>1. ~(r + u < n) /\ ~(x + s < n)
        BY <1>1, <2>1, <3>2
      <4> QED
        BY <1>2, <2>2, <4>1 DEF After
    <3> QED
      BY <2>3, <3>1, <3>2
  <2> QED
    BY <1>2, <2>1, <2>2, <2>3, <2>4, <2>5, <2>6, <2>7
<1> QED
  BY <1>2, <1>3, <1>4, <1>5, <1>6

\* find_distinguished_nodes below an entry, from its values below the children.
Intervals(n) == (0 .. n - 1) \X Nat \X Nat
Below(n, s, f) ==
  LET x  == s[1]
      rc == ibst_right_child(x, n)
  IN  IF saturating_sub(s[3], s[2]) < RMW THEN {}
      ELSE {x}
           \cup (IF is_leaf(x) THEN {} ELSE f[<<left_child(x), s[2], get_timestamp(x)>>])
           \cup (IF rc = None THEN {} ELSE f[<<rc, get_timestamp(x), s[3]>>])

\* The recursion below an entry ends.
LEMMA BelowDefined ==
  ASSUME NEW n \in Nat, InOrder(log), n <= Len(log), Len(log) \in Nat
  PROVE  \E f : f = [s \in Intervals(n) |-> Below(n, s, f)]
<1>1. PICK S : S = Intervals(n)
  OBVIOUS
<1>2. PICK V : V = SUBSET (0 .. n - 1)
  OBVIOUS
<1>3. \A s \in S : s[1] \in 0 .. n - 1 /\ s[2] \in Nat /\ s[3] \in Nat
  BY <1>1 DEF Intervals
<1>4. \A x \in 0 .. n - 1, a \in Nat, b \in Nat : <<x, a, b>> \in S /\ <<x, a, b>>[1] = x
  BY <1>1 DEF Intervals
<1>5. \A x \in 0 .. n - 1 : get_timestamp(x) \in Nat
  <2> TAKE x \in 0 .. n - 1
  <2>1. x + 1 \in 1 .. Len(log)
    OBVIOUS
  <2> QED
    BY <2>1 DEF InOrder, get_timestamp
<1> DEFINE L(s) == <<left_child(s[1]), s[2], get_timestamp(s[1])>>
           R(s) == <<ibst_right_child(s[1], n), get_timestamp(s[1]), s[3]>>
           mu == [s \in S |-> span[s[1]]]
<1>6. \A s \in S : mu[s] \in Nat /\ mu[s] = span[s[1]]
  <2> TAKE s \in S
  <2>1. s[1] \in Nat
    BY <1>3
  <2> QED
    BY <2>1, SpanBounds
<1>7. ASSUME NEW s \in S
      PROVE  /\ ~is_leaf(s[1]) => L(s) \in S /\ mu[L(s)] < mu[s]
             /\ ibst_right_child(s[1], n) # None => R(s) \in S /\ mu[R(s)] < mu[s]
  <2>1. PICK x \in 0 .. n - 1 : x = s[1] /\ x \in Nat
    BY <1>3
  <2>2. ASSUME ~is_leaf(x) PROVE L(s) \in S /\ mu[L(s)] < mu[s]
    <3>1. PICK l \in 0 .. x - 1 : l = left_child(x) /\ span[l] < span[x]
      BY <2>1, <2>2, LeftChildIn
    <3>2. l \in 0 .. n - 1
      BY <2>1, <3>1
    <3>3. PICK t \in Nat, a \in Nat : t = get_timestamp(x) /\ a = s[2]
      BY <1>3, <1>5
    <3>4. L(s) = <<l, a, t>>
      BY <2>1, <3>1, <3>3
    <3> HIDE DEF L, mu
    <3>5. L(s) \in S /\ L(s)[1] = l
      BY <1>4, <3>2, <3>4
    <3> QED
      BY <1>6, <2>1, <3>1, <3>5
  <2>3. ASSUME ibst_right_child(x, n) # None PROVE R(s) \in S /\ mu[R(s)] < mu[s]
    <3>1. PICK r \in x + 1 .. n - 1 : r = ibst_right_child(x, n) /\ span[r] < span[x]
      BY <2>1, <2>3, RightChildIn
    <3>2. r \in 0 .. n - 1
      BY <2>1, <3>1
    <3>3. PICK t \in Nat, a \in Nat : t = get_timestamp(x) /\ a = s[3]
      BY <1>3, <1>5
    <3>4. R(s) = <<r, t, a>>
      BY <2>1, <3>1, <3>3
    <3> HIDE DEF R, mu
    <3>5. R(s) \in S /\ R(s)[1] = r
      BY <1>4, <3>2, <3>4
    <3> QED
      BY <1>6, <2>1, <3>1, <3>5
  <2> QED
    BY <2>1, <2>2, <2>3
<1> DEFINE F == [a \in [S -> V] \X S |-> Below(n, a[2], a[1])]
           Narrow(s) == saturating_sub(s[3], s[2]) < RMW
<1>8. \A s \in S : \A f : Below(n, s, f) =
        IF Narrow(s) THEN {}
        ELSE {s[1]} \cup (IF is_leaf(s[1]) THEN {} ELSE f[L(s)])
                    \cup (IF ibst_right_child(s[1], n) = None THEN {} ELSE f[R(s)])
  BY DEF Below
<1> HIDE DEF L, R, mu, Narrow
<1>9. \A f \in [S -> V], s \in S : F[<<f, s>>] = Below(n, s, f)
  OBVIOUS
<1>10. F \in [[S -> V] \X S -> V]
  <2>1. ASSUME NEW f \in [S -> V], NEW s \in S PROVE Below(n, s, f) \in V
    <3>1. ~is_leaf(s[1]) => f[L(s)] \in V
      BY <1>7
    <3>2. ibst_right_child(s[1], n) # None => f[R(s)] \in V
      BY <1>7
    <3>3. s[1] \in 0 .. n - 1
      BY <1>3
    <3> QED
      BY <1>2, <1>8, <3>1, <3>2, <3>3
  <2>2. \A a \in [S -> V] \X S : Below(n, a[2], a[1]) \in V
    BY <2>1
  <2> QED
    BY <2>2
<1> HIDE DEF F
<1>11. ASSUME NEW f \in [S -> V], NEW g \in [S -> V], NEW s \in S,
              \A y \in S : mu[y] < mu[s] => f[y] = g[y]
       PROVE  F[<<f, s>>] = F[<<g, s>>]
  <2>1. ~is_leaf(s[1]) => f[L(s)] = g[L(s)]
    BY <1>7, <1>11
  <2>2. ibst_right_child(s[1], n) # None => f[R(s)] = g[R(s)]
    BY <1>7, <1>11
  <2>3. Below(n, s, f) = Below(n, s, g)
    BY <1>8, <2>1, <2>2
  <2> QED
    BY <1>9, <2>3
<1>12. mu \in [S -> Nat]
  <2>1. \A s \in S : span[s[1]] \in Nat
    BY <1>6
  <2> QED
    BY <2>1 DEF mu
<1>13. Measured(F, S, V, mu)
  BY <1>10, <1>11, <1>12 DEF Measured
<1>14. \E f \in [S -> V] : Solves(f, F, S)
  <2>1. PICK v : v \in V
    BY <1>2
  <2>2. PICK G, m : G = F /\ m = mu /\ Measured(G, S, V, m)
    BY <1>13
  <2>3. \E f \in [S -> V] : Solves(f, G, S)
    BY <2>1, <2>2, MeasuredSolution
  <2> QED
    BY <2>2, <2>3
<1>15. PICK f \in [S -> V] : Solves(f, F, S)
  BY <1>14
<1>16. \A s \in S : f[s] = Below(n, s, f)
  BY <1>9, <1>15 DEF Solves
<1>17. f = [s \in S |-> Below(n, s, f)]
  BY <1>16
<1> QED
  BY <1>1, <1>17

\* The entries the log takes for distinguished are those with a wide interval.
LEMMA DistinguishedAreWide ==
  ASSUME NEW n \in Nat \ {0}, InOrder(log), n <= Len(log), Len(log) \in Nat, RMW \in Nat \ {0}
  PROVE  find_distinguished_nodes(n) = Wide(log, n, log[n].ts)
<1>1. PICK g : g = [s \in Intervals(n) |-> Below(n, s, g)]
  BY BelowDefined
<1> DEFINE d == CHOOSE f : f = [s \in Intervals(n) |-> Below(n, s, f)]
<1>2. d = [s \in Intervals(n) |-> Below(n, s, d)]
  BY <1>1
<1>3. find_distinguished_nodes(n) = d[<<root(n), 0, get_timestamp(n - 1)>>]
  BY DEF find_distinguished_nodes, Intervals, Below
<1> HIDE DEF d
<1>4. PICK ts \in Nat : ts = log[n].ts /\ ts = get_timestamp(n - 1)
  BY DEF InOrder, get_timestamp
<1>5. HeadOf(log, n, ts)
  BY <1>4 DEF HeadOf
<1> DEFINE At(x) == <<x, Before(log, x), After(log, x, n, ts)>>
           Right(x) == d[At(x)] = {y \in Under(x, n) : IsWide(log, y, n, ts)}
           Wrong == {k \in Nat : \E x \in 0 .. n - 1 : span[x] = k /\ ~Right(x)}
<1>6. \A x \in 0 .. n - 1 : At(x) \in Intervals(n)
  BY <1>5, AroundIn DEF Intervals
<1>7. ASSUME NEW x \in 0 .. n - 1, \A y \in 0 .. n - 1 : span[y] < span[x] => Right(y)
      PROVE  Right(x)
  <2>1. x \in Nat /\ span[x] \in Nat \ {0} /\ x - span[x] < x /\ x < x + span[x] /\ x \in Under(x, n)
    <3>1. x \in Nat
      OBVIOUS
    <3>2. PICK s \in Nat \ {0} : s = span[x]
      BY <3>1, SpanBounds
    <3>3. x - s < x /\ x < x + s
      BY <3>1
    <3> QED
      BY <3>1, <3>2, <3>3 DEF Under
  <2>2. d[At(x)] = Below(n, At(x), d)
    BY <1>2, <1>6
  <2>3. /\ At(x)[1] = x /\ At(x)[2] = Before(log, x) /\ At(x)[3] = After(log, x, n, ts)
    OBVIOUS
  <2>4. CASE ~IsWide(log, x, n, ts)
    <3>1. saturating_sub(At(x)[3], At(x)[2]) < RMW
      <4>1. After(log, x, n, ts) \in Nat /\ Before(log, x) \in Nat
        BY <1>5, AroundIn
      <4> QED
        BY <2>3, <2>4, <4>1 DEF IsWide, saturating_sub
    <3>2. d[At(x)] = {}
      BY <2>2, <3>1 DEF Below
    <3>3. \A y \in Under(x, n) : ~IsWide(log, y, n, ts)
      BY <1>5, <2>4, NarrowBelow
    <3> QED
      BY <3>2, <3>3
  <2>5. CASE IsWide(log, x, n, ts)
    <3>1. ~(saturating_sub(At(x)[3], At(x)[2]) < RMW)
      <4>1. After(log, x, n, ts) \in Nat /\ Before(log, x) \in Nat
        BY <1>5, AroundIn
      <4> QED
        BY <2>3, <2>5, <4>1 DEF IsWide, saturating_sub
    <3>2. get_timestamp(x) = log[x + 1].ts
      BY DEF get_timestamp
    <3> DEFINE LL == <<left_child(x), Before(log, x), log[x + 1].ts>>
               RR == <<ibst_right_child(x, n), log[x + 1].ts, After(log, x, n, ts)>>
    <3>3. d[At(x)] = {x} \cup (IF is_leaf(x) THEN {} ELSE d[LL])
                         \cup (IF ibst_right_child(x, n) = None THEN {} ELSE d[RR])
      BY <2>2, <2>3, <3>1, <3>2 DEF Below
    <3>4. (IF is_leaf(x) THEN {} ELSE d[LL]) = {y \in Under(x, n) : y < x /\ IsWide(log, y, n, ts)}
      <4>1. CASE is_leaf(x)
        <5>1. span[x] = 1
          BY <1>5, <4>1, SubtreeSplits
        <5>2. \A y \in Under(x, n) : ~(y < x)
          BY <2>1, <5>1 DEF Under
        <5> QED
          BY <4>1, <5>2
      <4>2. CASE ~is_leaf(x)
        <5>1. PICK l \in 0 .. n - 1 : l = left_child(x)
          BY <1>5, <4>2, SubtreeSplits
        <5>2. /\ span[l] < span[x] /\ LL = At(l) /\ Under(l, n) = {y \in Under(x, n) : y < x}
          BY <1>5, <4>2, <5>1, SubtreeSplits
        <5>3. Right(l)
          BY <1>7, <5>1, <5>2
        <5> QED
          BY <4>2, <5>2, <5>3
      <4> QED
        BY <4>1, <4>2
    <3>5. (IF ibst_right_child(x, n) = None THEN {} ELSE d[RR])
            = {y \in Under(x, n) : y > x /\ IsWide(log, y, n, ts)}
      <4>1. CASE ibst_right_child(x, n) = None
        <5>1. \A y \in Under(x, n) : y <= x /\ y \in Nat
          BY <1>5, <4>1, SubtreeSplits DEF Under
        <5>2. \A y \in Under(x, n) : ~(y > x)
          BY <2>1, <5>1
        <5> QED
          BY <4>1, <5>2
      <4>2. CASE ibst_right_child(x, n) # None
        <5>1. PICK r \in 0 .. n - 1 : r = ibst_right_child(x, n)
          BY <1>5, <4>2, SubtreeSplits
        <5>2. /\ span[r] < span[x] /\ RR = At(r) /\ Under(r, n) = {y \in Under(x, n) : y > x}
          BY <1>5, <4>2, <5>1, SubtreeSplits
        <5>3. Right(r)
          BY <1>7, <5>1, <5>2
        <5> QED
          BY <4>2, <5>2, <5>3
      <4> QED
        BY <4>1, <4>2
    <3>6. \A y \in Under(x, n) : y < x \/ y = x \/ y > x
      BY <2>1 DEF Under
    <3> QED
      BY <2>1, <2>5, <3>3, <3>4, <3>5, <3>6
  <2> QED
    BY <2>4, <2>5
<1>8. ASSUME Wrong # {} PROVE FALSE
  <2>1. PICK k \in Wrong : \A z \in Nat : z < k => z \notin Wrong
    <3>1. Wrong \in SUBSET Nat
      OBVIOUS
    <3> HIDE DEF Wrong
    <3> QED
      BY <1>8, <3>1, LeastElement
  <2>2. PICK x \in 0 .. n - 1 : span[x] = k /\ ~Right(x)
    OBVIOUS
  <2> HIDE DEF Right
  <2>3. \A y \in 0 .. n - 1 : span[y] < span[x] => Right(y)
    <3> SUFFICES ASSUME NEW y \in 0 .. n - 1, span[y] < span[x], ~Right(y) PROVE FALSE
      OBVIOUS
    <3>1. y \in Nat
      OBVIOUS
    <3>2. span[y] \in Nat
      BY <3>1, SpanBounds
    <3> QED
      BY <2>1, <2>2, <3>2
  <2> QED
    BY <1>7, <2>2, <2>3
<1>9. PICK r \in 0 .. n - 1 : r = root(n)
  BY RootIsEntry
<1>10. Right(r)
  <2> HIDE DEF Right
  <2>1. r \in Nat
    OBVIOUS
  <2>2. span[r] \in Nat
    BY <2>1, SpanBounds
  <2> QED
    BY <1>8, <2>2
<1>11. Before(log, r) = 0 /\ After(log, r, n, ts) = ts /\ Under(r, n) = 0 .. n - 1
  <2>1. PICK s \in Nat \ {0} : s = span[r] /\ r - s = -1 /\ r + s >= n
    BY <1>9, RootIn
  <2>2. ~(r + s < n)
    BY <2>1
  <2>3. \A y \in 0 .. n - 1 : r - s < y /\ y < r + s
    BY <2>1
  <2> QED
    BY <2>1, <2>2, <2>3 DEF Before, After, Under
<1> QED
  BY <1>3, <1>4, <1>9, <1>10, <1>11 DEF Wide

\* A set of entries in ascending order.
Ascends(q, S) == /\ q \in Seq(Nat)
                 /\ \A i, j \in 1 .. Len(q) : i < j => q[i] < q[j]
                 /\ \A x : x \in S <=> \E i \in 1 .. Len(q) : q[i] = x

\* Ascending returns the members of the set below n in ascending order.
LEMMA AscendingIs ==
  ASSUME NEW n \in Nat, NEW S
  PROVE  Ascends(Ascending(S, n), {x \in 0 .. n - 1 : x \in S})
<1> DEFINE Step(q, k) == IF k - 1 \in S THEN Append(q, k - 1) ELSE q
           G == [a \in Seq(Nat) \X (1 .. n) |-> Step(a[1], a[2])]
           d == CHOOSE f : f = [k \in 0 .. n |-> IF k = 0 THEN <<>>
                                   ELSE IF k - 1 \in S THEN Append(f[k - 1], k - 1) ELSE f[k - 1]]
<1>1. ASSUME NEW q \in Seq(Nat), NEW k \in 1 .. n PROVE Step(q, k) \in Seq(Nat)
  <2>1. k - 1 \in Nat
    OBVIOUS
  <2> QED
    BY <2>1
<1>2. \A q \in Seq(Nat), k \in 1 .. n : G[<<q, k>>] = Step(q, k)
  OBVIOUS
<1>3. G \in [Seq(Nat) \X (1 .. n) -> Seq(Nat)]
  <2>1. \A a \in Seq(Nat) \X (1 .. n) : Step(a[1], a[2]) \in Seq(Nat)
    BY <1>1
  <2> QED
    BY <2>1
<1> HIDE DEF G
<1>4. PICK g \in [0 .. n -> Seq(Nat)] : Looped(Seq(Nat), <<>>, G, n, g)
  <2>1. PICK V : V = Seq(Nat)
    OBVIOUS
  <2>2. PICK v : v = <<>>
    OBVIOUS
  <2>3. v \in V
    BY <2>1, <2>2
  <2>4. G \in [V \X (1 .. n) -> V]
    BY <1>3, <2>1
  <2>5. \E f \in [0 .. n -> V] : Looped(V, v, G, n, f)
    BY <2>3, <2>4, LoopDefined
  <2> QED
    BY <2>1, <2>2, <2>5
<1>5. \A k \in 0 .. n : g[k] = IF k = 0 THEN <<>> ELSE Step(g[k - 1], k)
  <2> TAKE k \in 0 .. n
  <2>1. g[k] = IF k = 0 THEN <<>> ELSE G[<<g[k - 1], k>>]
    BY <1>4 DEF Looped
  <2>2. k # 0 => k \in 1 .. n /\ g[k - 1] \in Seq(Nat)
    OBVIOUS
  <2> QED
    BY <1>2, <2>1, <2>2
<1>6. \E f : f = [k \in 0 .. n |-> IF k = 0 THEN <<>>
                                   ELSE IF k - 1 \in S THEN Append(f[k - 1], k - 1) ELSE f[k - 1]]
  <2>1. g = [k \in 0 .. n |-> IF k = 0 THEN <<>>
                                   ELSE IF k - 1 \in S THEN Append(g[k - 1], k - 1) ELSE g[k - 1]]
    BY <1>5
  <2> QED
    BY <2>1
<1>7. d = [k \in 0 .. n |-> IF k = 0 THEN <<>>
                                   ELSE IF k - 1 \in S THEN Append(d[k - 1], k - 1) ELSE d[k - 1]]
  BY <1>6
<1>8. Ascending(S, n) = d[n]
  BY DEF Ascending
<1> HIDE DEF d
<1>9. \A k \in 0 .. n : d[k] = IF k = 0 THEN <<>> ELSE Step(d[k - 1], k)
  BY <1>7
<1> HIDE DEF Step
<1> DEFINE Right(k) == Ascends(d[k], {x \in 0 .. k - 1 : x \in S})
           Wrong == {k \in Nat : k <= n /\ ~Right(k)}
<1>10. Right(0)
  <2>1. 0 \in 0 .. n
    OBVIOUS
  <2>2. d[0] = <<>>
    BY <1>9, <2>1
  <2>3. 0 .. 0 - 1 = {} /\ <<>> \in Seq(Nat) /\ Len(<<>>) = 0 /\ 1 .. 0 = {}
    OBVIOUS
  <2> QED
    BY <2>2, <2>3 DEF Ascends
<1>11. ASSUME NEW k \in 1 .. n, Right(k - 1) PROVE Right(k)
  <2>1. PICK q : q = d[k - 1]
    OBVIOUS
  <2>2. PICK h \in Nat : h = k - 1 /\ k - 1 \in 0 .. n /\ k = h + 1
    OBVIOUS
  <2>3. Ascends(q, {x \in 0 .. h - 1 : x \in S})
    BY <1>11, <2>1, <2>2
  <2>4. PICK l \in Nat : l = Len(q) /\ q \in Seq(Nat)
    BY <2>3 DEF Ascends
  <2>5. \A i \in 1 .. l : q[i] \in 0 .. h - 1 /\ q[i] \in S
    BY <2>3, <2>4 DEF Ascends
  <2>6. CASE h \in S
    <3>1. d[k] = Append(q, h)
      <4>1. k \in 0 .. n /\ k # 0
        OBVIOUS
      <4>2. d[k] = Step(d[k - 1], k)
        BY <1>9, <4>1
      <4> QED
        BY <2>1, <2>2, <2>6, <4>2 DEF Step
    <3>2. PICK r : r = Append(q, h)
      OBVIOUS
    <3>3. r \in Seq(Nat) /\ Len(r) = l + 1 /\ r[l + 1] = h /\ \A i \in 1 .. l : r[i] = q[i]
      BY <2>4, <3>2
    <3>4. \A i, j \in 1 .. Len(r) : i < j => r[i] < r[j]
      <4> TAKE i, j \in 1 .. Len(r)
      <4> HAVE i < j
      <4>1. i \in 1 .. l /\ (j \in 1 .. l \/ j = l + 1)
        BY <3>3
      <4>2. r[i] = q[i] /\ q[i] \in 0 .. h - 1
        BY <2>5, <3>3, <4>1
      <4>3. CASE j \in 1 .. l
        BY <2>3, <2>4, <3>3, <4>1, <4>3 DEF Ascends
      <4>4. CASE j = l + 1
        BY <3>3, <4>2, <4>4
      <4> QED
        BY <4>1, <4>3, <4>4
    <3>5. ASSUME NEW x PROVE (x \in 0 .. k - 1 /\ x \in S) <=> \E i \in 1 .. Len(r) : r[i] = x
      <4>1. x \in 0 .. k - 1 <=> x \in 0 .. h - 1 \/ x = h
        BY <2>2
      <4>2. (x \in 0 .. h - 1 /\ x \in S) <=> \E i \in 1 .. l : q[i] = x
        BY <2>3, <2>4 DEF Ascends
      <4>3. (\E i \in 1 .. Len(r) : r[i] = x) <=> (\E i \in 1 .. l : r[i] = x) \/ r[l + 1] = x
        <5>1. 1 .. Len(r) = 1 .. l \cup {l + 1}
          BY <3>3
        <5> QED
          BY <5>1
      <4> QED
        BY <2>6, <3>3, <4>1, <4>2, <4>3
    <3> QED
      BY <3>1, <3>2, <3>3, <3>4, <3>5 DEF Ascends
  <2>7. CASE h \notin S
    <3>1. d[k] = q
      BY <1>9, <2>1, <2>2, <2>7 DEF Step
    <3>2. {x \in 0 .. k - 1 : x \in S} = {x \in 0 .. h - 1 : x \in S}
      <4>1. 0 .. k - 1 = 0 .. h - 1 \cup {h}
        BY <2>2
      <4> QED
        BY <2>7, <4>1
    <3> QED
      BY <2>3, <3>1, <3>2
  <2> QED
    BY <2>6, <2>7
<1> HIDE DEF Right
<1>12. ASSUME Wrong # {} PROVE FALSE
  <2>1. PICK k \in Wrong : \A z \in Nat : z < k => z \notin Wrong
    <3>1. Wrong \in SUBSET Nat
      OBVIOUS
    <3> HIDE DEF Wrong
    <3> QED
      BY <1>12, <3>1, LeastElement
  <2>2. k \in Nat /\ k <= n /\ ~Right(k)
    OBVIOUS
  <2>3. k # 0
    BY <1>10, <2>2
  <2>4. k \in 1 .. n /\ k - 1 \in Nat /\ k - 1 < k /\ k - 1 <= n
    BY <2>2, <2>3
  <2>5. Right(k - 1)
    BY <2>1, <2>4
  <2> QED
    BY <1>11, <2>2, <2>4, <2>5
<1>13. Right(n)
  <2>1. n \in Nat /\ n <= n
    OBVIOUS
  <2> QED
    BY <1>12, <2>1
<1> QED
  BY <1>8, <1>13 DEF Right

\* Of two ascending lists, one with what the other one has and nothing else up to its end, the
\* shorter is the beginning of the longer.
LEMMA AscendingBegins ==
  ASSUME NEW a, NEW b, NEW S, NEW R, Ascends(a, S), Ascends(b, R), S \subseteq R,
         \A x \in S, y \in R \ S : x < y
  PROVE  Len(a) <= Len(b) /\ \A i \in 1 .. Len(a) : a[i] = b[i]
<1>1. PICK l \in Nat, m \in Nat : l = Len(a) /\ m = Len(b) /\ a \in Seq(Nat) /\ b \in Seq(Nat)
  BY DEF Ascends
<1> DEFINE Wrong == {i \in Nat : i \in 1 .. l /\ ~(i <= m /\ a[i] = b[i])}
<1>2. ASSUME Wrong # {} PROVE FALSE
  <2>1. PICK i \in Wrong : \A z \in Nat : z < i => z \notin Wrong
    <3>1. Wrong \in SUBSET Nat
      OBVIOUS
    <3> HIDE DEF Wrong
    <3> QED
      BY <1>2, <3>1, LeastElement
  <2>2. i \in 1 .. l /\ ~(i <= m /\ a[i] = b[i])
    OBVIOUS
  <2>3. \A k \in 1 .. i - 1 : k <= m /\ a[k] = b[k] /\ a[k] < a[i]
    <3> TAKE k \in 1 .. i - 1
    <3>1. k \in Nat /\ k < i /\ k \in 1 .. l
      BY <2>2
    <3>2. a[k] < a[i]
      BY <1>1, <2>2, <3>1 DEF Ascends
    <3> QED
      BY <2>1, <3>1, <3>2
  <2>4. PICK j \in 1 .. m : b[j] = a[i]
    BY <1>1, <2>2 DEF Ascends
  <2>5. j >= i
    <3> SUFFICES ASSUME j < i PROVE FALSE
      OBVIOUS
    <3>1. j \in 1 .. i - 1
      BY <2>2
    <3>2. a[j] = b[j] /\ a[j] < a[i] /\ a[i] \in Nat
      BY <1>1, <2>2, <2>3, <3>1
    <3> QED
      BY <2>4, <3>2
  <2>6. i \in 1 .. m /\ a[i] # b[i] /\ i # j
    BY <2>2, <2>4, <2>5
  <2>7. b[i] < a[i] /\ a[i] \in Nat /\ b[i] \in Nat
    <3>1. i < j
      BY <2>5, <2>6
    <3> QED
      BY <1>1, <2>2, <2>4, <2>6, <3>1 DEF Ascends
  <2>8. b[i] \in R /\ a[i] \in S
    BY <1>1, <2>2, <2>6 DEF Ascends
  <2>9. b[i] \in S
    <3> SUFFICES ASSUME b[i] \notin S PROVE FALSE
      OBVIOUS
    <3>1. a[i] < b[i]
      BY <2>8
    <3> QED
      BY <2>7, <3>1
  <2>10. PICK k \in 1 .. l : a[k] = b[i]
    BY <1>1, <2>9 DEF Ascends
  <2>11. k < i
    <3> SUFFICES ASSUME ~(k < i) PROVE FALSE
      OBVIOUS
    <3>1. k = i \/ i < k
      BY <2>2
    <3>2. i < k => a[i] < a[k]
      BY <1>1, <2>2 DEF Ascends
    <3> QED
      BY <2>7, <2>10, <3>1, <3>2
  <2>12. k \in 1 .. i - 1
    BY <2>2, <2>11
  <2>13. a[k] = b[k] /\ k \in 1 .. m
    BY <2>2, <2>3, <2>6, <2>12
  <2>14. b[k] < b[i]
    BY <1>1, <2>6, <2>11, <2>13 DEF Ascends
  <2> QED
    BY <2>7, <2>10, <2>13, <2>14
<1>3. \A i \in 1 .. l : i <= m /\ a[i] = b[i]
  BY <1>2
<1>4. l <= m
  <2>1. l # 0 => l \in 1 .. l
    OBVIOUS
  <2> QED
    BY <1>3, <2>1
<1> QED
  BY <1>1, <1>3, <1>4

\* An entry read once more is not read again.
Read(q, x) == IF x \in ToSet(q) THEN q ELSE Append(q, x)

\* o lists, visit by visit, the entries read so far, from those of q.
Reading(o, q, nodes) ==
  /\ o \in [0 .. Len(nodes) -> Seq(Nat)] /\ o[0] = q
  /\ \A k \in 1 .. Len(nodes) : o[k] = Read(o[k - 1], nodes[k])

\* One entry read: it joins the list unless it is there already, and what was there stays.
LEMMA ReadIs ==
  ASSUME NEW q \in Seq(Nat), NEW x \in Nat
  PROVE  /\ Read(q, x) \in Seq(Nat)
         /\ ToSet(Read(q, x)) = ToSet(q) \cup {x}
         /\ Len(Read(q, x)) >= Len(q) /\ \A i \in 1 .. Len(q) : Read(q, x)[i] = q[i]
<1>1. CASE x \in ToSet(q)
  BY <1>1 DEF Read
<1>2. CASE x \notin ToSet(q)
  <2>1. PICK r : r = Append(q, x)
    OBVIOUS
  <2>2. r \in Seq(Nat) /\ Len(r) = Len(q) + 1 /\ r[Len(q) + 1] = x /\ \A i \in 1 .. Len(q) : r[i] = q[i]
    BY <2>1
  <2>3. Read(q, x) = r
    BY <1>2, <2>1 DEF Read
  <2>4. ToSet(r) = ToSet(q) \cup {x}
    <3>1. DOMAIN r = 1 .. Len(q) \cup {Len(q) + 1} /\ DOMAIN q = 1 .. Len(q)
      BY <2>2
    <3> QED
      BY <2>2, <3>1 DEF ToSet
  <2> QED
    BY <2>2, <2>3, <2>4
<1> QED
  BY <1>1, <1>2

\* The entries of q and the first k of the others.
Visited(q, nodes, k) == ToSet(q) \cup {nodes[i] : i \in 1 .. k}

\* What a series of visits has read.
LEMMA ReadingIs ==
  ASSUME NEW q \in Seq(Nat), NEW nodes \in Seq(Nat), NEW o, Reading(o, q, nodes)
  PROVE  \A k \in 0 .. Len(nodes) :
           /\ o[k] \in Seq(Nat)
           /\ ToSet(o[k]) = Visited(q, nodes, k)
           /\ Len(o[k]) >= Len(q) /\ \A i \in 1 .. Len(q) : o[k][i] = q[i]
<1> DEFINE Right(k) == /\ o[k] \in Seq(Nat)
                       /\ ToSet(o[k]) = ToSet(q) \cup {nodes[i] : i \in 1 .. k}
                       /\ Len(o[k]) >= Len(q) /\ \A i \in 1 .. Len(q) : o[k][i] = q[i]
           Wrong == {k \in Nat : k <= Len(nodes) /\ ~Right(k)}
<1>1. Len(nodes) \in Nat
  OBVIOUS
<1>2. Right(0)
  <2>1. o[0] = q
    BY DEF Reading
  <2>2. 1 .. 0 = {}
    OBVIOUS
  <2> QED
    BY <2>1, <2>2
<1>3. ASSUME NEW k \in 1 .. Len(nodes), Right(k - 1) PROVE Right(k)
  <2>1. PICK u \in Seq(Nat) : u = o[k - 1]
    BY <1>3
  <2>2. PICK x \in Nat : x = nodes[k]
    OBVIOUS
  <2>3. o[k] = Read(u, x)
    BY <2>1, <2>2 DEF Reading
  <2>4. PICK v \in Seq(Nat) : v = Read(u, x)
    BY ReadIs
  <2>5. /\ ToSet(v) = ToSet(u) \cup {x}
        /\ Len(v) >= Len(u) /\ \A i \in 1 .. Len(u) : v[i] = u[i]
    BY <2>4, ReadIs
  <2>6. {nodes[i] : i \in 1 .. k} = {nodes[i] : i \in 1 .. k - 1} \cup {x}
    <3>1. 1 .. k = 1 .. k - 1 \cup {k}
      OBVIOUS
    <3> QED
      BY <2>2, <3>1
  <2>7. ToSet(u) = ToSet(q) \cup {nodes[i] : i \in 1 .. k - 1}
    BY <1>3, <2>1
  <2>8. Len(u) >= Len(q) /\ \A i \in 1 .. Len(q) : u[i] = q[i]
    BY <1>3, <2>1
  <2>9. Len(v) >= Len(q) /\ \A i \in 1 .. Len(q) : v[i] = q[i]
    BY <2>5, <2>8
  <2> QED
    BY <2>3, <2>4, <2>5, <2>6, <2>7, <2>9
<1> HIDE DEF Right
<1>4. ASSUME Wrong # {} PROVE FALSE
  <2>1. PICK k \in Wrong : \A z \in Nat : z < k => z \notin Wrong
    <3>1. Wrong \in SUBSET Nat
      OBVIOUS
    <3> HIDE DEF Wrong
    <3> QED
      BY <1>4, <3>1, LeastElement
  <2>2. k \in Nat /\ k <= Len(nodes) /\ ~Right(k)
    OBVIOUS
  <2>3. k # 0
    BY <1>2, <2>2
  <2>4. k \in 1 .. Len(nodes) /\ k - 1 \in Nat /\ k - 1 < k /\ k - 1 <= Len(nodes)
    BY <1>1, <2>2, <2>3
  <2>5. Right(k - 1)
    BY <2>1, <2>4
  <2> QED
    BY <1>3, <2>2, <2>4, <2>5
<1>5. \A k \in 0 .. Len(nodes) : Right(k)
  <2> TAKE k \in 0 .. Len(nodes)
  <2>1. k \in Nat /\ k <= Len(nodes)
    BY <1>1
  <2> QED
    BY <1>4, <2>1
<1> QED
  BY <1>5 DEF Right, Visited

\* A session that has read q and proved nothing.
Session(q) == [order |-> q, proofs |-> <<>>, ladder |-> <<>>, comms |-> {}]

\* visit_all reads entry after entry.
LEMMA VisitAllReads ==
  ASSUME NEW q \in Seq(Nat), NEW nodes \in Seq(Nat)
  PROVE  \E o : Reading(o, q, nodes) /\ visit_all(Session(q), nodes) = Session(o[Len(nodes)])
<1>1. PICK n \in Nat : n = Len(nodes)
  OBVIOUS
<1> DEFINE V == Seq(Nat)
           G == [a \in V \X (1 .. n) |-> Read(a[1], nodes[a[2]])]
<1>2. \A u \in V, k \in 1 .. n : G[<<u, k>>] = Read(u, nodes[k])
  OBVIOUS
<1>3. G \in [V \X (1 .. n) -> V]
  <2>1. \A a \in V \X (1 .. n) : Read(a[1], nodes[a[2]]) \in V
    <3> TAKE a \in V \X (1 .. n)
    <3>1. a[1] \in Seq(Nat) /\ nodes[a[2]] \in Nat
      BY <1>1
    <3> QED
      BY <3>1, ReadIs
  <2> QED
    BY <2>1
<1> HIDE DEF G
<1>4. PICK o \in [0 .. n -> Seq(Nat)] : Looped(Seq(Nat), q, G, n, o)
  <2>1. PICK W : W = Seq(Nat)
    OBVIOUS
  <2>2. q \in W
    BY <2>1
  <2>3. G \in [W \X (1 .. n) -> W]
    BY <1>3, <2>1
  <2>4. \E f \in [0 .. n -> W] : Looped(W, q, G, n, f)
    BY <2>2, <2>3, LoopDefined
  <2> QED
    BY <2>1, <2>4
<1>5. \A k \in 0 .. n : o[k] = IF k = 0 THEN q ELSE Read(o[k - 1], nodes[k])
  <2> TAKE k \in 0 .. n
  <2>1. o[k] = IF k = 0 THEN q ELSE G[<<o[k - 1], k>>]
    BY <1>4 DEF Looped
  <2>2. k # 0 => k \in 1 .. n /\ o[k - 1] \in Seq(Nat)
    OBVIOUS
  <2> QED
    BY <1>2, <2>1, <2>2
<1>t. (\A k \in 1 .. n : nodes[k] \in Nat) /\ (\A k \in 0 .. n : o[k] \in Seq(Nat))
  <2>1. ASSUME NEW k \in 1 .. n PROVE nodes[k] \in Nat
    BY <1>1
  <2>2. ASSUME NEW k \in 0 .. n PROVE o[k] \in Seq(Nat)
    OBVIOUS
  <2> QED
    BY <2>1, <2>2
<1>6. Reading(o, q, nodes)
  BY <1>1, <1>5 DEF Reading
<1> DEFINE Step(f, k) == IF k = 0 THEN Session(q) ELSE visit_timestamp_only(f[k - 1], nodes[k])
           d == CHOOSE f : f = [k \in 0 .. n |-> Step(f, k)]
           s == [k \in 0 .. n |-> Session(o[k])]
<1>7. \A u \in Seq(Nat), x \in Nat : visit_timestamp_only(Session(u), x) = Session(Read(u, x))
  <2> TAKE u \in Seq(Nat), x \in Nat
  <2>1. Contains(u, x) <=> x \in ToSet(u)
    BY DEF Contains, ToSet
  <2> QED
    BY <2>1 DEF visit_timestamp_only, add_node, Session, Read
<1>8. ASSUME NEW k \in 0 .. n PROVE s[k] = Step(s, k)
  <2>1. CASE k = 0
    BY <1>5, <2>1
  <2>2. CASE k # 0
    <3>1. k - 1 \in 0 .. n /\ k \in 1 .. n
      BY <2>2
    <3>2. k - 1 \in 0 .. n /\ o[k - 1] \in Seq(Nat) /\ nodes[k] \in Nat
      BY <1>t, <3>1
    <3>3. s[k - 1] = Session(o[k - 1]) /\ s[k] = Session(o[k])
      BY <3>2
    <3>4. o[k] = Read(o[k - 1], nodes[k])
      BY <1>5, <2>2
    <3> HIDE DEF s
    <3> QED
      BY <1>7, <2>2, <3>2, <3>3, <3>4
  <2> QED
    BY <2>1, <2>2
<1>9. s = [k \in 0 .. n |-> Step(s, k)]
  BY <1>8
<1> HIDE DEF Step
<1>10. d = [k \in 0 .. n |-> Step(d, k)]
  <2> HIDE DEF s
  <2> QED
    BY <1>9, Zenon
<1>11. visit_all(Session(q), nodes) = d[n]
  BY <1>1, Zenon DEF visit_all, Step
<1> HIDE DEF d
<1>12. ASSUME {k \in Nat : k <= n /\ d[k] # Session(o[k])} # {} PROVE FALSE
  <2> DEFINE Wrong == {k \in Nat : k <= n /\ d[k] # Session(o[k])}
  <2>1. PICK k \in Wrong : \A z \in Nat : z < k => z \notin Wrong
    <3>1. Wrong \in SUBSET Nat /\ Wrong # {}
      BY <1>12
    <3> HIDE DEF Wrong
    <3> QED
      BY <3>1, LeastElement
  <2>2. k \in 0 .. n /\ d[k] # Session(o[k])
    OBVIOUS
  <2>3. d[k] = Step(d, k)
    BY <1>10, <2>2
  <2>4. k # 0
    BY <1>5, <2>2, <2>3 DEF Step
  <2>5. k - 1 \in Nat /\ k - 1 < k /\ k - 1 <= n
    BY <2>2, <2>4
  <2>6. d[k - 1] = Session(o[k - 1])
    BY <2>1, <2>5
  <2>7. o[k] = Read(o[k - 1], nodes[k]) /\ o[k - 1] \in Seq(Nat) /\ nodes[k] \in Nat
    <3>1. k - 1 \in 0 .. n /\ k \in 1 .. n
      BY <2>2, <2>4, <2>5
    <3>2. o[k] = Read(o[k - 1], nodes[k])
      BY <1>5, <2>2, <2>4
    <3> QED
      BY <1>t, <3>1, <3>2
  <2> QED
    BY <1>7, <2>2, <2>3, <2>4, <2>6, <2>7 DEF Step
<1>13. d[n] = Session(o[n])
  <2>1. n \in {k \in Nat : k <= n}
    OBVIOUS
  <2> QED
    BY <1>12, <2>1
<1> QED
  BY <1>1, <1>6, <1>11, <1>13

\* WalkRight from an entry, with f for the walks from its children.
RightFirst(stop, dist, recent, n, x, f) ==
  LET rc == ibst_right_child(x, n)
  IN  IF x \notin dist THEN <<>>
      ELSE <<x>> \o (IF rc = None THEN <<>> ELSE f[rc])
           \o (IF ~is_leaf(x) /\ (stop = None \/ x > stop) /\ x \in recent
               THEN f[left_child(x)] ELSE <<>>)

\* The walk is over some list of entries.
LEMMA WalkRightIs ==
  ASSUME NEW n \in Nat \ {0}, NEW stop, NEW dist, NEW recent
  PROVE  \E f \in [0 .. n - 1 -> Seq(0 .. n - 1)] :
           /\ \A x \in 0 .. n - 1 : f[x] = RightFirst(stop, dist, recent, n, x, f)
           /\ WalkRight(stop, dist, recent, n) = f[root(n)]
<1>1. PICK S : S = 0 .. n - 1
  OBVIOUS
<1>2. PICK V : V = Seq(0 .. n - 1)
  OBVIOUS
<1>e. <<>> \in V
  <2>1. <<>> \in Seq(0 .. n - 1)
    OBVIOUS
  <2> QED
    BY <1>2, <2>1
<1> DEFINE R(x) == ibst_right_child(x, n)
           mu == [x \in S |-> span[x]]
           Gate(x) == ~is_leaf(x) /\ (stop = None \/ x > stop) /\ x \in recent
           Step(x, f) == RightFirst(stop, dist, recent, n, x, f)
           F == [a \in [S -> V] \X S |-> Step(a[2], a[1])]
<1>3. \A x \in S : mu[x] \in Nat /\ mu[x] = span[x]
  <2> TAKE x \in S
  <2>1. x \in Nat
    BY <1>1
  <2> QED
    BY <2>1, SpanBounds
<1>4. ASSUME NEW x \in S
      PROVE  /\ R(x) # None => R(x) \in S /\ mu[R(x)] < mu[x]
             /\ Gate(x) => left_child(x) \in S /\ mu[left_child(x)] < mu[x]
  <2>1. x \in Nat /\ x \in 0 .. n - 1 /\ n \in Nat
    BY <1>1
  <2>2. ASSUME R(x) # None PROVE R(x) \in S /\ mu[R(x)] < mu[x]
    <3>1. PICK r \in x + 1 .. n - 1 : r = ibst_right_child(x, n) /\ span[r] < span[x]
      BY <2>1, <2>2, RightChildIn
    <3>2. r \in S
      BY <1>1, <2>1, <3>1
    <3> QED
      BY <1>3, <3>1, <3>2
  <2>3. ASSUME Gate(x) PROVE left_child(x) \in S /\ mu[left_child(x)] < mu[x]
    <3>1. PICK l \in 0 .. x - 1 : l = left_child(x) /\ span[l] < span[x]
      BY <2>1, <2>3, LeftChildIn
    <3>2. l \in S
      BY <1>1, <2>1, <3>1
    <3> QED
      BY <1>3, <3>1, <3>2
  <2> QED
    BY <2>2, <2>3
<1>5. \A x \in S : \A f : Step(x, f) =
        IF x \notin dist THEN <<>>
        ELSE <<x>> \o (IF R(x) = None THEN <<>> ELSE f[R(x)])
             \o (IF Gate(x) THEN f[left_child(x)] ELSE <<>>)
  BY DEF RightFirst
<1>6. \A f \in [S -> V], x \in S : F[<<f, x>>] = Step(x, f)
  OBVIOUS
<1> HIDE DEF R, mu, Gate, Step
<1>7. F \in [[S -> V] \X S -> V]
  <2>1. ASSUME NEW f \in [S -> V], NEW x \in S PROVE Step(x, f) \in V
    <3>1. PICK u \in V : u = IF R(x) = None THEN <<>> ELSE f[R(x)]
      BY <1>e, <1>4
    <3>2. PICK w \in V : w = IF Gate(x) THEN f[left_child(x)] ELSE <<>>
      BY <1>e, <1>4
    <3>3. <<x>> \in Seq(0 .. n - 1) /\ u \in Seq(0 .. n - 1) /\ w \in Seq(0 .. n - 1)
      BY <1>1, <1>2, <3>1, <3>2
    <3>4. <<x>> \o u \o w \in Seq(0 .. n - 1)
      BY <3>3
    <3>5. Step(x, f) = IF x \notin dist THEN <<>> ELSE <<x>> \o u \o w
      BY <1>5, <3>1, <3>2
    <3> QED
      BY <1>e, <1>2, <3>4, <3>5
  <2>2. \A a \in [S -> V] \X S : Step(a[2], a[1]) \in V
    BY <2>1
  <2> QED
    BY <2>2
<1> HIDE DEF F
<1>8. ASSUME NEW f \in [S -> V], NEW g \in [S -> V], NEW x \in S,
             \A y \in S : mu[y] < mu[x] => f[y] = g[y]
      PROVE  F[<<f, x>>] = F[<<g, x>>]
  <2>1. R(x) # None => f[R(x)] = g[R(x)]
    BY <1>4, <1>8
  <2>2. Gate(x) => f[left_child(x)] = g[left_child(x)]
    BY <1>4, <1>8
  <2>3. Step(x, f) = Step(x, g)
    BY <1>5, <2>1, <2>2
  <2> QED
    BY <1>6, <2>3
<1>9. mu \in [S -> Nat]
  <2>1. \A x \in S : span[x] \in Nat
    BY <1>3
  <2> QED
    BY <2>1 DEF mu
<1>10. Measured(F, S, V, mu)
  BY <1>7, <1>8, <1>9 DEF Measured
<1>11. PICK g \in [S -> V] : Solves(g, F, S)
  <2>1. PICK v : v \in V
    <3>1. <<>> \in Seq(0 .. n - 1)
      OBVIOUS
    <3> QED
      BY <1>2, <3>1
  <2>2. PICK H, m : H = F /\ m = mu /\ Measured(H, S, V, m)
    BY <1>10
  <2>3. \E f \in [S -> V] : Solves(f, H, S)
    BY <2>1, <2>2, MeasuredSolution
  <2> QED
    BY <2>2, <2>3
<1>12. g = [x \in S |-> Step(x, g)]
  BY <1>6, <1>11 DEF Solves
<1> DEFINE d == CHOOSE f : f = [x \in S |-> Step(x, f)]
<1>13. d = [x \in S |-> Step(x, d)]
  BY <1>12, Zenon
<1>14. WalkRight(stop, dist, recent, n) = d[root(n)]
  BY <1>1, Zenon DEF WalkRight, RightFirst, Step
<1> HIDE DEF d
<1>15. \A x \in S : d[x] = Step(x, d)
  BY <1>13, Zenon
<1>16. DOMAIN d = S
  BY <1>13
<1> DEFINE Wrong == {k \in Nat : \E x \in S : span[x] = k /\ d[x] \notin V}
<1>17. ASSUME Wrong # {} PROVE FALSE
  <2>1. PICK k \in Wrong : \A z \in Nat : z < k => z \notin Wrong
    <3>1. Wrong \in SUBSET Nat
      OBVIOUS
    <3> HIDE DEF Wrong
    <3> QED
      BY <1>17, <3>1, LeastElement
  <2>2. PICK x \in S : span[x] = k /\ d[x] \notin V
    OBVIOUS
  <2>3. \A y \in S : mu[y] < mu[x] => d[y] \in V
    BY <1>3, <2>1, <2>2
  <2>4. R(x) # None => d[R(x)] \in V
    BY <1>4, <2>3
  <2>5. Gate(x) => d[left_child(x)] \in V
    BY <1>4, <2>3
  <2>6. PICK u \in V : u = IF R(x) = None THEN <<>> ELSE d[R(x)]
    BY <1>e, <2>4
  <2>7. PICK w \in V : w = IF Gate(x) THEN d[left_child(x)] ELSE <<>>
    BY <1>e, <2>5
  <2>8. <<x>> \in Seq(0 .. n - 1) /\ u \in Seq(0 .. n - 1) /\ w \in Seq(0 .. n - 1)
    BY <1>1, <1>2, <2>6, <2>7
  <2>9. <<x>> \o u \o w \in Seq(0 .. n - 1)
    BY <2>8
  <2>10. d[x] = IF x \notin dist THEN <<>> ELSE <<x>> \o u \o w
    BY <1>5, <1>15, <2>6, <2>7
  <2> QED
    BY <1>e, <1>2, <2>2, <2>9, <2>10
<1>18. \A x \in S : d[x] \in V
  <2> SUFFICES ASSUME NEW x \in S, d[x] \notin V PROVE FALSE
    OBVIOUS
  <2>1. span[x] \in Nat
    BY <1>3
  <2> QED
    BY <1>17, <2>1
<1>19. d \in [S -> V]
  BY <1>13, <1>15, <1>16, <1>18
<1>20. \A x \in S : d[x] = RightFirst(stop, dist, recent, n, x, d)
  BY <1>15 DEF Step
<1> QED
  BY <1>1, <1>2, <1>14, <1>19, <1>20

\* An answer that sends the timestamps of the entries of q, in that order, and no more.
Plain(p, q) == /\ p.timestamps = [k \in 1 .. Len(q) |-> get_timestamp(q[k])]
               /\ p.proofs = <<>>
               /\ p.roots = Ascending(ToSet(q), N)
               /\ p.visited = ToSet(q)

\* The answer to a walk: the frontier, then the visits.
LEMMA WalkAnswer ==
  ASSUME N \in Nat \ {0}, NEW stop, NEW nodes \in Seq(0 .. N - 1),
         WalkRight(stop, find_distinguished_nodes(N),
                   {x \in find_distinguished_nodes(N) :
                      Cardinality({y \in find_distinguished_nodes(N) : y > x}) < MaxResponse}, N) = nodes
  PROVE  \E o, u : /\ Reading(o, <<>>, get_frontier(N))
                   /\ Reading(u, o[Len(get_frontier(N))], nodes)
                   /\ u[Len(nodes)] \in Seq(Nat) /\ ToSet(u[Len(nodes)]) \subseteq 0 .. N - 1
                   /\ Plain(traverse_distinguished(N, stop), u[Len(nodes)])
<1>1. PICK spine \in Seq(0 .. N - 1) : spine = get_frontier(N)
  BY FrontierRises
<1>2. spine \in Seq(Nat) /\ nodes \in Seq(Nat) /\ <<>> \in Seq(Nat)
  OBVIOUS
<1>3. PICK o : Reading(o, <<>>, spine) /\ visit_all(Session(<<>>), spine) = Session(o[Len(spine)])
  BY <1>2, VisitAllReads
<1>4. PICK q : q = o[Len(spine)]
  OBVIOUS
<1>5. Len(spine) \in 0 .. Len(spine) /\ Len(nodes) \in 0 .. Len(nodes)
  BY <1>2
<1>6. q \in Seq(Nat) /\ ToSet(q) = Visited(<<>>, spine, Len(spine))
  <2>1. \A k \in 0 .. Len(spine) :
          o[k] \in Seq(Nat) /\ ToSet(o[k]) = Visited(<<>>, spine, k)
    BY <1>2, <1>3, ReadingIs
  <2> QED
    BY <1>4, <1>5, <2>1
<1>7. PICK u : Reading(u, q, nodes) /\ visit_all(Session(q), nodes) = Session(u[Len(nodes)])
  BY <1>2, <1>6, VisitAllReads
<1>8. PICK r : r = u[Len(nodes)]
  OBVIOUS
<1>9. r \in Seq(Nat) /\ ToSet(r) = Visited(q, nodes, Len(nodes))
  <2>1. \A k \in 0 .. Len(nodes) :
          u[k] \in Seq(Nat) /\ ToSet(u[k]) = Visited(q, nodes, k)
    BY <1>2, <1>6, <1>7, ReadingIs
  <2> QED
    BY <1>5, <1>8, <2>1
<1>10. ToSet(r) \subseteq 0 .. N - 1
  <2>1. ToSet(<<>>) = {}
    BY DEF ToSet
  <2>2. {spine[i] : i \in 1 .. Len(spine)} \subseteq 0 .. N - 1
    OBVIOUS
  <2>3. {nodes[i] : i \in 1 .. Len(nodes)} \subseteq 0 .. N - 1
    OBVIOUS
  <2> QED
    BY <1>6, <1>9, <2>1, <2>2, <2>3 DEF Visited
<1>11. visit_frontier(NewSession, N) = Session(q)
  BY <1>1, <1>3, <1>4 DEF visit_frontier, NewSession, Session
<1>12. traverse_distinguished(N, stop) = finalize(Session(r), N)
  BY <1>7, <1>8, <1>11 DEF traverse_distinguished
<1>13. Plain(finalize(Session(r), N), r)
  <2>1. Proved(Session(r)) = {}
    BY DEF Proved, Session
  <2>2. rootless(Session(r), N) = Ascending(ToSet(r), N)
    <3>1. ToSet(r) \ Proved(Session(r)) = ToSet(r)
      BY <2>1
    <3> QED
      BY <3>1 DEF rootless, Session
  <2>3. DOMAIN r = 1 .. Len(r)
    BY <1>9
  <2> QED
    BY <2>2, <2>3 DEF Plain, finalize, Session
<1> QED
  BY <1>1, <1>3, <1>4, <1>7, <1>8, <1>9, <1>10, <1>12, <1>13

\* The timestamps a client may have read, and its readers after b, as long as it reads
\* nothing but timestamps, m of them in the answer.
Stamps(n) == UNION {[D -> Nat] : D \in SUBSET (0 .. n - 1)}
Readers(b, n, m) ==
  [ts_idx : 0 .. m, proof_idx : {b.proof_idx}, assigned_ts : Stamps(n),
   entry_roots : {b.entry_roots}, wire_index : {b.wire_index}, material : {b.material},
   ok : BOOLEAN]

\* r1 knows what r knows.
Knows(r1, r) == /\ DOMAIN r.assigned_ts \subseteq DOMAIN r1.assigned_ts
                /\ \A x \in DOMAIN r.assigned_ts : r1.assigned_ts[x] = r.assigned_ts[x]

\* c is a with the timestamp t of one more entry.
Extends(c, a, x, t, n) == /\ c \in Stamps(n) /\ DOMAIN c = DOMAIN a \cup {x} /\ c[x] = t
                          /\ \A y \in DOMAIN a \ {x} : c[y] = a[y]

\* A timestamp a reader assigns extends the ones it has and changes no other.
LEMMA StampsGrow ==
  ASSUME NEW n \in Nat, NEW a \in Stamps(n), NEW x \in 0 .. n - 1, NEW t \in Nat
  PROVE  Extends(Insert(a, x, t), a, x, t, n)
<1>1. PICK D \in SUBSET (0 .. n - 1) : a \in [D -> Nat]
  BY DEF Stamps
<1>2. PICK c : c = Insert(a, x, t)
  OBVIOUS
<1>3. c = [y \in D \cup {x} |-> IF y = x THEN t ELSE a[y]]
  BY <1>1, <1>2 DEF Insert
<1>4. D \cup {x} \in SUBSET (0 .. n - 1) /\ c \in [D \cup {x} -> Nat]
  BY <1>1, <1>3
<1>5. c \in Stamps(n)
  BY <1>4 DEF Stamps
<1> QED
  BY <1>1, <1>2, <1>3, <1>5 DEF Extends

\* A client that reads the timestamp of an entry forgets none, and has that of the entry
\* unless it fails.
LEMMA TimestampIs ==
  ASSUME NEW n \in Nat, NEW m \in Nat, NEW p, p.timestamps \in Seq(Nat), Len(p.timestamps) = m,
         NEW b, NEW r \in Readers(b, n, m), NEW x \in 0 .. n - 1
  PROVE  /\ timestamp(r, p, x) \in Readers(b, n, m)
         /\ timestamp(r, p, x).ok =>
              r.ok /\ x \in DOMAIN timestamp(r, p, x).assigned_ts /\ Knows(timestamp(r, p, x), r)
<1>1. /\ r.ts_idx \in 0 .. m /\ r.ok \in BOOLEAN /\ r.assigned_ts \in Stamps(n)
      /\ r = [ts_idx |-> r.ts_idx, proof_idx |-> b.proof_idx, assigned_ts |-> r.assigned_ts,
              entry_roots |-> b.entry_roots, wire_index |-> b.wire_index,
              material |-> b.material, ok |-> r.ok]
  BY DEF Readers
<1>2. PICK r1 : r1 = timestamp(r, p, x)
  OBVIOUS
<1>3. CASE ~r.ok \/ x \in DOMAIN r.assigned_ts
  <2>1. r1 = r
    BY <1>2, <1>3 DEF timestamp
  <2> QED
    BY <1>2, <1>3, <2>1 DEF Knows
<1>4. CASE r.ok /\ x \notin DOMAIN r.assigned_ts /\ r.ts_idx = m
  <2>1. r1 = Fail(r)
    BY <1>2, <1>4 DEF timestamp
  <2>2. r1.ok = FALSE /\ r1 \in Readers(b, n, m)
    BY <1>1, <2>1 DEF Fail, Readers
  <2> QED
    BY <1>2, <2>2
<1>5. CASE r.ok /\ x \notin DOMAIN r.assigned_ts /\ r.ts_idx # m
  <2>1. PICK t \in Nat : t = p.timestamps[r.ts_idx + 1]
    <3>1. r.ts_idx + 1 \in 1 .. m
      BY <1>1, <1>5
    <3> QED
      BY <3>1
  <2>2. CASE \E q \in DOMAIN r.assigned_ts :
               \/ q < x /\ r.assigned_ts[q] > t
               \/ q > x /\ r.assigned_ts[q] < t
    <3>1. r1 = Fail(r)
      BY <1>2, <1>5, <2>1, <2>2 DEF timestamp
    <3>2. r1.ok = FALSE /\ r1 \in Readers(b, n, m)
      BY <1>1, <3>1 DEF Fail, Readers
    <3> QED
      BY <1>2, <3>2
  <2>3. CASE ~(\E q \in DOMAIN r.assigned_ts :
               \/ q < x /\ r.assigned_ts[q] > t
               \/ q > x /\ r.assigned_ts[q] < t)
    <3>1. PICK c : c = Insert(r.assigned_ts, x, t)
      OBVIOUS
    <3>2. r1 = [r EXCEPT !.ts_idx = r.ts_idx + 1, !.assigned_ts = c]
      BY <1>2, <1>5, <2>1, <2>3, <3>1 DEF timestamp
    <3>3. /\ c \in Stamps(n) /\ DOMAIN c = DOMAIN r.assigned_ts \cup {x}
          /\ \A y \in DOMAIN r.assigned_ts : c[y] = r.assigned_ts[y]
      <4>1. PICK a \in Stamps(n) : a = r.assigned_ts /\ x \notin DOMAIN a /\ c = Insert(a, x, t)
        BY <1>1, <1>5, <3>1
      <4>2. Extends(Insert(a, x, t), a, x, t, n)
        BY StampsGrow
      <4>3. Extends(c, a, x, t, n)
        BY <4>1, <4>2
      <4> QED
        BY <4>1, <4>3 DEF Extends
    <3>4. r.ts_idx + 1 \in 0 .. m
      BY <1>1, <1>5
    <3>5. r1.assigned_ts = c /\ r1 \in Readers(b, n, m)
      BY <1>1, <3>2, <3>3, <3>4 DEF Readers
    <3> QED
      BY <1>2, <1>5, <3>3, <3>5 DEF Knows
  <2> QED
    BY <2>2, <2>3
<1> QED
  BY <1>3, <1>4, <1>5

\* The timestamps of an answer are timestamps.
LEMMA PlainStamps ==
  ASSUME N \in Nat, InOrder(log), NEW q \in Seq(Nat), ToSet(q) \subseteq 0 .. N - 1, NEW p, Plain(p, q)
  PROVE  p.timestamps \in Seq(Nat) /\ Len(p.timestamps) = Len(q)
<1>1. \A k \in 1 .. Len(q) : get_timestamp(q[k]) \in Nat
  <2> TAKE k \in 1 .. Len(q)
  <2>1. q[k] \in 0 .. N - 1
    BY DEF ToSet
  <2>2. q[k] + 1 \in 1 .. Len(log)
    BY <2>1 DEF N
  <2> QED
    BY <2>2 DEF get_timestamp, InOrder
<1>2. PICK l \in Nat : l = Len(q)
  OBVIOUS
<1>3. PICK t : t = [k \in 1 .. l |-> get_timestamp(q[k])]
  OBVIOUS
<1>4. t \in [1 .. l -> Nat]
  BY <1>1, <1>2, <1>3
<1>5. t \in Seq(Nat) /\ Len(t) = l
  BY <1>4
<1> QED
  BY <1>2, <1>3, <1>5 DEF Plain

\* The reader of a client that has read the entries of q in that order.
Reader(q, w) ==
  [ts_idx |-> Len(q), proof_idx |-> 0, assigned_ts |-> [x \in ToSet(q) |-> get_timestamp(x)],
   entry_roots |-> <<>>, wire_index |-> w, material |-> {}, ok |-> TRUE]

\* q is the beginning of what an answer tells.
Begins(q, all) == Len(q) <= Len(all) /\ \A i \in 1 .. Len(q) : all[i] = q[i]

\* The answer of a log in order that tells the timestamps of the entries of all.
Honest(p, all) == /\ N \in Nat /\ InOrder(log) /\ all \in Seq(Nat)
                  /\ ToSet(all) \subseteq 0 .. N - 1 /\ Plain(p, all)

\* The next entry of a client that has read q is x.
Reads(p, q, x, w) == timestamp(Reader(q, w), p, x) = Reader(Read(q, x), w)

\* An honest answer is read entry by entry, in the order in which the log visits them.
LEMMA TimestampReads ==
  ASSUME NEW all, NEW p, Honest(p, all), NEW q \in Seq(Nat), NEW x \in 0 .. N - 1, NEW w,
         Begins(Read(q, x), all)
  PROVE  Reads(p, q, x, w)
<1>1. /\ N \in Nat /\ InOrder(log) /\ all \in Seq(Nat)
      /\ ToSet(all) \subseteq 0 .. N - 1 /\ Plain(p, all)
  BY DEF Honest
<1>2. PICK r : r = Reader(q, w)
  OBVIOUS
<1>3. /\ r.ok = TRUE /\ r.ts_idx = Len(q) /\ DOMAIN r.assigned_ts = ToSet(q)
      /\ \A y \in ToSet(q) : r.assigned_ts[y] = get_timestamp(y)
  BY <1>2 DEF Reader
<1>4. ASSUME x \in ToSet(q) PROVE timestamp(r, p, x) = Reader(Read(q, x), w)
  <2>1. timestamp(r, p, x) = r
    BY <1>3, <1>4 DEF timestamp
  <2> QED
    BY <1>2, <1>4, <2>1 DEF Read
<1>5. ASSUME x \notin ToSet(q) PROVE timestamp(r, p, x) = Reader(Read(q, x), w)
  <2>1. PICK l \in Nat : l = Len(q)
    OBVIOUS
  <2>2. PICK v : v \in Seq(Nat) /\ v = Append(q, x) /\ v = Read(q, x)
    <3>1. x \in Nat
      BY <1>1
    <3>2. Append(q, x) \in Seq(Nat)
      BY <3>1
    <3> QED
      BY <1>5, <3>2 DEF Read
  <2>3. Len(v) = l + 1 /\ v[l + 1] = x /\ \A i \in 1 .. l : v[i] = q[i]
    <3>1. PICK z \in Nat : z = x
      BY <1>1
    <3>2. PICK d : d = Append(q, z)
      OBVIOUS
    <3>3. Len(d) = l + 1 /\ d[l + 1] = z /\ \A i \in 1 .. l : d[i] = q[i]
      BY <2>1, <3>2
    <3> QED
      BY <2>2, <3>1, <3>2, <3>3
  <2>4. l + 1 <= Len(all) /\ all[l + 1] = x /\ \A i \in 1 .. l : all[i] = q[i]
    <3>1. l + 1 \in 1 .. l + 1 /\ \A i \in 1 .. l : i \in 1 .. l + 1
      OBVIOUS
    <3> QED
      BY <2>2, <2>3, <3>1 DEF Begins
  <2>5. p.timestamps = [k \in 1 .. Len(all) |-> get_timestamp(all[k])]
    BY <1>1 DEF Plain
  <2>6. Len(p.timestamps) = Len(all) /\ l + 1 \in 1 .. Len(all) /\ l # Len(all)
    BY <1>1, <2>1, <2>4, PlainStamps
  <2>7. p.timestamps[l + 1] = get_timestamp(x)
    BY <2>4, <2>5, <2>6
  <2>8. ASSUME NEW y \in ToSet(q)
        PROVE  ~(y < x /\ get_timestamp(y) > get_timestamp(x))
               /\ ~(y > x /\ get_timestamp(y) < get_timestamp(x))
    <3>1. y \in 0 .. N - 1
      <4>1. PICK i \in 1 .. l : q[i] = y
        BY <2>1 DEF ToSet
      <4>2. i \in 1 .. Len(all) /\ all[i] = y
        BY <2>1, <2>4, <4>1
      <4> QED
        BY <1>1, <4>2 DEF ToSet
    <3>2. y + 1 \in 1 .. Len(log) /\ x + 1 \in 1 .. Len(log)
      BY <1>1, <3>1 DEF N
    <3>3. log[y + 1].ts \in Nat /\ log[x + 1].ts \in Nat
      BY <1>1, <3>2 DEF InOrder
    <3>4. y < x => log[y + 1].ts <= log[x + 1].ts
      BY <1>1, <3>1, <3>2 DEF InOrder
    <3>5. y > x => log[x + 1].ts <= log[y + 1].ts
      BY <1>1, <3>1, <3>2 DEF InOrder
    <3> QED
      BY <3>3, <3>4, <3>5 DEF get_timestamp
  <2>9. timestamp(r, p, x)
          = [r EXCEPT !.ts_idx = r.ts_idx + 1,
                      !.assigned_ts = Insert(r.assigned_ts, x, get_timestamp(x))]
    BY <1>3, <1>5, <2>1, <2>6, <2>7, <2>8 DEF timestamp
  <2>10. ToSet(v) = ToSet(q) \cup {x}
    <3>1. x \in Nat
      BY <1>1
    <3> QED
      BY <2>2, <3>1, ReadIs
  <2>11. Insert(r.assigned_ts, x, get_timestamp(x)) = [y \in ToSet(v) |-> get_timestamp(y)]
    <3>1. r.assigned_ts = [y \in ToSet(q) |-> get_timestamp(y)]
      BY <1>2 DEF Reader
    <3> QED
      BY <1>5, <2>10, <3>1 DEF Insert
  <2> QED
    BY <1>2, <2>1, <2>2, <2>3, <2>9, <2>11 DEF Reader
<1>6. timestamp(r, p, x) = Reader(Read(q, x), w)
  BY <1>4, <1>5
<1> QED
  BY <1>2, <1>6 DEF Reads

\* What was read first comes first.
LEMMA ReadingBegins ==
  ASSUME NEW q \in Seq(Nat), NEW nodes \in Seq(Nat), NEW o, Reading(o, q, nodes)
  PROVE  \A k \in 0 .. Len(nodes) : Begins(o[k], o[Len(nodes)])
<1>1. PICK n \in Nat : n = Len(nodes)
  OBVIOUS
<1>2. \A k \in 0 .. n : o[k] \in Seq(Nat)
  BY <1>1 DEF Reading
<1>3. ASSUME NEW k \in 1 .. n PROVE Begins(o[k - 1], o[k])
  <2>1. PICK u \in Seq(Nat), x \in Nat : u = o[k - 1] /\ x = nodes[k]
    <3>1. k - 1 \in 0 .. n /\ k \in 1 .. Len(nodes)
      BY <1>1
    <3>2. nodes[k] \in Nat
      BY <3>1
    <3>3. o[k - 1] \in Seq(Nat)
      BY <1>2, <3>1
    <3> QED
      BY <3>2, <3>3
  <2>2. o[k] = Read(u, x)
    BY <1>1, <2>1 DEF Reading
  <2> QED
    <3>1. PICK v : v = Read(u, x)
      OBVIOUS
    <3>2. Len(v) >= Len(u) /\ \A i \in 1 .. Len(u) : v[i] = u[i]
      BY <3>1, ReadIs
    <3>3. v \in Seq(Nat)
      BY <3>1, ReadIs
    <3>4. Begins(u, v)
      BY <3>2, <3>3 DEF Begins
    <3> QED
      BY <2>1, <2>2, <3>1, <3>4
<1> DEFINE Right(k) == Begins(o[k], o[n])
           Wrong == {i \in Nat : i <= n /\ ~Right(n - i)}
<1>4. Right(n)
  <2>1. n \in 0 .. n
    OBVIOUS
  <2>2. PICK u \in Seq(Nat) : u = o[n]
    BY <1>2, <2>1
  <2>3. Begins(u, u)
    BY DEF Begins
  <2> QED
    BY <2>2, <2>3
<1>5. ASSUME NEW k \in 1 .. n, Right(k) PROVE Right(k - 1)
  <2>1. PICK a \in Seq(Nat) : a = o[k - 1]
    <3>1. k - 1 \in 0 .. n
      OBVIOUS
    <3> QED
      BY <1>2, <3>1
  <2>2. PICK b \in Seq(Nat) : b = o[k]
    <3>1. k \in 0 .. n
      OBVIOUS
    <3> QED
      BY <1>2, <3>1
  <2>3. PICK c \in Seq(Nat) : c = o[n]
    <3>1. n \in 0 .. n
      OBVIOUS
    <3> QED
      BY <1>2, <3>1
  <2>4. Begins(a, b) /\ Begins(b, c)
    BY <1>3, <1>5, <2>1, <2>2, <2>3
  <2>5. Len(a) <= Len(b) /\ \A i \in 1 .. Len(a) : i \in 1 .. Len(b)
    BY <2>4 DEF Begins
  <2>6. Begins(a, c)
    BY <2>4, <2>5 DEF Begins
  <2> QED
    BY <2>1, <2>3, <2>6
<1> HIDE DEF Right
<1>6. ASSUME Wrong # {} PROVE FALSE
  <2>1. PICK i \in Wrong : \A z \in Nat : z < i => z \notin Wrong
    <3>1. Wrong \in SUBSET Nat
      OBVIOUS
    <3> HIDE DEF Wrong
    <3> QED
      BY <1>6, <3>1, LeastElement
  <2>2. i \in Nat /\ i <= n /\ ~Right(n - i)
    OBVIOUS
  <2>3. i # 0
    BY <1>4, <2>2
  <2>4. PICK j \in Nat : j = i - 1 /\ j < i /\ j <= n /\ n - j \in 1 .. n /\ (n - j) - 1 = n - i
    BY <2>2, <2>3
  <2>5. Right(n - j)
    BY <2>1, <2>4
  <2> QED
    BY <1>5, <2>2, <2>4, <2>5
<1>7. ASSUME NEW k \in 0 .. n PROVE Right(k)
  <2>1. PICK i \in Nat : i = n - k /\ i <= n /\ n - i = k
    OBVIOUS
  <2> QED
    BY <1>6, <2>1
<1> QED
  BY <1>1, <1>7 DEF Right

\* Beginning with what begins with a list is beginning with the list.
LEMMA BeginsTwice ==
  ASSUME NEW a \in Seq(Nat), NEW b \in Seq(Nat), NEW c \in Seq(Nat), Begins(a, b), Begins(b, c)
  PROVE  Begins(a, c)
<1>1. PICK l \in Nat, m \in Nat, n \in Nat : l = Len(a) /\ m = Len(b) /\ n = Len(c)
  OBVIOUS
<1>2. l <= m /\ m <= n /\ (\A i \in 1 .. l : b[i] = a[i]) /\ (\A i \in 1 .. m : c[i] = b[i])
  BY <1>1 DEF Begins
<1>3. \A i \in 1 .. l : c[i] = a[i]
  BY <1>2
<1>4. l <= n
  BY <1>2
<1> QED
  BY <1>1, <1>3, <1>4 DEF Begins

\* A series of timestamps of an honest answer is read as the log visited the entries.
LEMMA TimestampsRead ==
  ASSUME NEW all, NEW p, Honest(p, all), NEW q \in Seq(Nat), NEW nodes \in Seq(0 .. N - 1), NEW w, NEW o,
         Reading(o, q, nodes), Begins(o[Len(nodes)], all)
  PROVE  timestamps(Reader(q, w), p, nodes) = Reader(o[Len(nodes)], w)
<1>1. PICK n \in Nat : n = Len(nodes)
  OBVIOUS
<1>r. all \in Seq(Nat) /\ N \in Nat
  BY DEF Honest
<1>2. (\A k \in 1 .. n : nodes[k] \in 0 .. N - 1) /\ (\A k \in 0 .. n : o[k] \in Seq(Nat))
  <2>1. ASSUME NEW k \in 1 .. n PROVE nodes[k] \in 0 .. N - 1
    <3>1. k \in 1 .. Len(nodes)
      BY <1>1
    <3> QED
      BY <3>1, ElementOfSeq
  <2>2. ASSUME NEW k \in 0 .. n PROVE o[k] \in Seq(Nat)
    BY <1>1 DEF Reading
  <2> QED
    BY <2>1, <2>2
<1>3. nodes \in Seq(Nat)
  BY <1>r
<1>4. \A k \in 0 .. n : Begins(o[k], all)
  <2> TAKE k \in 0 .. n
  <2>1. Begins(o[k], o[n])
    BY <1>1, <1>3, ReadingBegins
  <2>2. n \in 0 .. n /\ o[n] \in Seq(Nat) /\ o[k] \in Seq(Nat)
    BY <1>2
  <2>3. PICK a \in Seq(Nat), b \in Seq(Nat) : a = o[k] /\ b = o[n]
    BY <2>2
  <2>4. Begins(a, b) /\ Begins(b, all)
    BY <1>1, <2>1, <2>3
  <2> QED
    BY <1>r, <2>3, <2>4, BeginsTwice
<1> DEFINE Step(f, k) == IF k = 0 THEN Reader(q, w) ELSE timestamp(f[k - 1], p, nodes[k])
           d == CHOOSE f : f = [k \in 0 .. n |-> Step(f, k)]
           s == [k \in 0 .. n |-> Reader(o[k], w)]
<1>5. ASSUME NEW k \in 1 .. n
      PROVE  timestamp(Reader(o[k - 1], w), p, nodes[k]) = Reader(o[k], w)
  <2>1. PICK u \in Seq(Nat) : u = o[k - 1]
    <3>1. k - 1 \in 0 .. n
      OBVIOUS
    <3> QED
      BY <1>2, <3>1
  <2>2. PICK x \in 0 .. N - 1 : x = nodes[k]
    BY <1>2
  <2>3. o[k] = Read(u, x)
    BY <1>1, <2>1, <2>2 DEF Reading
  <2>4. Begins(Read(u, x), all)
    <3>1. k \in 0 .. n
      OBVIOUS
    <3> QED
      BY <1>4, <2>3, <3>1
  <2>5. timestamp(Reader(u, w), p, x) = Reader(Read(u, x), w)
    <3>1. Reads(p, u, x, w)
      BY <2>4, TimestampReads
    <3> QED
      BY <3>1 DEF Reads
  <2> QED
    BY <2>1, <2>2, <2>3, <2>5
<1>6. o[0] = q
  BY DEF Reading
<1>7. ASSUME NEW k \in 0 .. n PROVE s[k] = Step(s, k)
  <2>1. CASE k = 0
    BY <1>6, <2>1
  <2>2. CASE k # 0
    <3>1. k - 1 \in 0 .. n /\ k \in 1 .. n
      BY <2>2
    <3>2. s[k - 1] = Reader(o[k - 1], w) /\ s[k] = Reader(o[k], w)
      BY <3>1
    <3> HIDE DEF s
    <3> QED
      BY <1>5, <2>2, <3>1, <3>2
  <2> QED
    BY <2>1, <2>2
<1>8. s = [k \in 0 .. n |-> Step(s, k)]
  BY <1>7
<1> HIDE DEF Step
<1>9. d = [k \in 0 .. n |-> Step(d, k)]
  <2> HIDE DEF s
  <2> QED
    BY <1>8, Zenon
<1>10. timestamps(Reader(q, w), p, nodes) = d[n]
  BY <1>1, Zenon DEF timestamps, Step
<1> HIDE DEF d
<1> DEFINE Wrong == {k \in Nat : k <= n /\ d[k] # Reader(o[k], w)}
<1>11. ASSUME Wrong # {} PROVE FALSE
  <2>1. PICK k \in Wrong : \A z \in Nat : z < k => z \notin Wrong
    <3>1. Wrong \in SUBSET Nat
      OBVIOUS
    <3> HIDE DEF Wrong
    <3> QED
      BY <1>11, <3>1, LeastElement
  <2>2. k \in 0 .. n /\ d[k] # Reader(o[k], w)
    OBVIOUS
  <2>3. d[k] = Step(d, k)
    BY <1>9, <2>2
  <2>4. k # 0
    BY <1>6, <2>2, <2>3 DEF Step
  <2>5. k - 1 \in Nat /\ k - 1 < k /\ k - 1 <= n /\ k \in 1 .. n
    BY <2>2, <2>4
  <2>6. d[k - 1] = Reader(o[k - 1], w)
    BY <2>1, <2>5
  <2> QED
    BY <1>5, <2>2, <2>3, <2>4, <2>5, <2>6 DEF Step
<1>12. d[n] = Reader(o[n], w)
  <2>1. n \in Nat /\ n <= n
    OBVIOUS
  <2> QED
    BY <1>11, <2>1
<1> QED
  BY <1>1, <1>10, <1>12

\* A client starts out with nothing read.
LEMMA NewReaderReads ==
  ASSUME NEW w
  PROVE  NewReader(w) = Reader(<<>>, w)
<1>1. ToSet(<<>>) = {}
  BY DEF ToSet
<1>2. [x \in ToSet(<<>>) |-> get_timestamp(x)] = <<>>
  BY <1>1
<1>3. Len(<<>>) = 0
  OBVIOUS
<1> QED
  BY <1>2, <1>3 DEF NewReader, Reader

\* The client's stack and the states of its walk.
Items(n) == [node : 0 .. n - 1, lo : Nat, hi : Nat]
Walks(b, n, m) == [reader : Readers(b, n, m), walked : SUBSET (0 .. n - 1), stack : Seq(Items(n))]

\* A stack is what was below its top, and the top.
LEMMA StackTop ==
  ASSUME NEW S, NEW s \in Seq(S), s # <<>>
  PROVE  /\ Last(s) \in S /\ Front(s) \in Seq(S) /\ s = Append(Front(s), Last(s))
         /\ Len(s) \in Nat \ {0} /\ Len(Front(s)) = Len(s) - 1
         /\ \A i \in 1 .. Len(s) - 1 : Front(s)[i] = s[i]
<1>1. PICK l \in Nat : l = Len(s)
  OBVIOUS
<1>2. l # 0
  BY <1>1
<1>3. Last(s) \in S
  BY <1>1, <1>2, ElementOfSeq DEF Last
<1>4. PICK f : f = Front(s)
  OBVIOUS
<1>5. f = SubSeq(s, 1, l - 1)
  BY <1>1, <1>4 DEF Front
<1>6. f \in Seq(S) /\ Len(f) = l - 1 /\ \A i \in 1 .. l - 1 : f[i] = s[i]
  BY <1>1, <1>2, <1>5
<1>7. s = Append(f, s[l])
  BY <1>1, <1>2, <1>6
<1> QED
  BY <1>1, <1>2, <1>3, <1>4, <1>6, <1>7 DEF Last

\* Pending pushes one entry or none.
LEMMA PendingIs ==
  ASSUME NEW n \in Nat, NEW x, NEW lo \in Nat, NEW hi \in Nat, NEW s \in Seq(Items(n))
  PROVE  /\ x = None => s \o Pending(x, lo, hi) = s
         /\ x \in 0 .. n - 1 =>
              /\ s \o Pending(x, lo, hi) = Append(s, [node |-> x, lo |-> lo, hi |-> hi])
              /\ [node |-> x, lo |-> lo, hi |-> hi] \in Items(n)
              /\ s \o Pending(x, lo, hi) \in Seq(Items(n))
<1>1. ASSUME x = None PROVE s \o Pending(x, lo, hi) = s
  <2>1. Pending(x, lo, hi) = <<>>
    BY <1>1 DEF Pending
  <2> QED
    BY <2>1
<1>2. ASSUME x \in 0 .. n - 1
      PROVE  /\ s \o Pending(x, lo, hi) = Append(s, [node |-> x, lo |-> lo, hi |-> hi])
             /\ [node |-> x, lo |-> lo, hi |-> hi] \in Items(n)
             /\ s \o Pending(x, lo, hi) \in Seq(Items(n))
  <2>1. x # None
    BY <1>2 DEF None
  <2>2. PICK S : S = Items(n)
    OBVIOUS
  <2>3. PICK it : it = [node |-> x, lo |-> lo, hi |-> hi]
    OBVIOUS
  <2>4. it \in S
    BY <1>2, <2>2, <2>3 DEF Items
  <2>5. Pending(x, lo, hi) = <<it>>
    BY <2>1, <2>3 DEF Pending
  <2>6. s \in Seq(S)
    BY <2>2
  <2>7. s \o <<it>> = Append(s, it) /\ Append(s, it) \in Seq(S)
    BY <2>4, <2>6
  <2> QED
    BY <2>2, <2>3, <2>4, <2>5, <2>7
<1> QED
  BY <1>1, <1>2

\* What the client reads of an entry in its walk, and the stack it goes on with.
Seen(p, a) == timestamp(a.reader, p, Last(a.stack).node)
Pushed(p, stop, n, a) ==
  LET top == Last(a.stack)
      x   == top.node
      ts  == Seen(p, a).assigned_ts[x]
  IN  Front(a.stack)
      \o (IF ~is_leaf(x) /\ (stop = None \/ x > stop) THEN Pending(left_child(x), top.lo, ts) ELSE <<>>)
      \o Pending(ibst_right_child(x, n), ts, top.hi)

\* One step of the client's walk.
LEMMA ReplayStepIs ==
  ASSUME NEW n \in Nat, NEW m \in Nat, NEW p, p.timestamps \in Seq(Nat), Len(p.timestamps) = m,
         NEW stop, NEW b, NEW a \in Walks(b, n, m), a.stack # <<>>
  PROVE  /\ ~WideEnough(Last(a.stack).lo, Last(a.stack).hi) =>
              ReplayStep(p, stop, n, a)
                = [reader |-> a.reader, walked |-> a.walked, stack |-> Front(a.stack)]
         /\ WideEnough(Last(a.stack).lo, Last(a.stack).hi) =>
              ReplayStep(p, stop, n, a)
                = [reader |-> Seen(p, a), walked |-> a.walked \cup {Last(a.stack).node},
                   stack |-> IF ~Seen(p, a).ok THEN <<>> ELSE Pushed(p, stop, n, a)]
<1>1. a = [reader |-> a.reader, walked |-> a.walked, stack |-> a.stack]
  BY DEF Walks
<1>2. [a EXCEPT !.stack = Front(a.stack)]
        = [reader |-> a.reader, walked |-> a.walked, stack |-> Front(a.stack)]
  BY <1>1
<1>3. ASSUME ~WideEnough(Last(a.stack).lo, Last(a.stack).hi)
      PROVE  ReplayStep(p, stop, n, a)
                = [reader |-> a.reader, walked |-> a.walked, stack |-> Front(a.stack)]
  BY <1>2, <1>3 DEF ReplayStep
<1>4. ASSUME WideEnough(Last(a.stack).lo, Last(a.stack).hi)
      PROVE  ReplayStep(p, stop, n, a)
                = [reader |-> Seen(p, a), walked |-> a.walked \cup {Last(a.stack).node},
                   stack |-> IF ~Seen(p, a).ok THEN <<>> ELSE Pushed(p, stop, n, a)]
  BY <1>4, Zenon DEF ReplayStep, Seen, Pushed
<1> QED
  BY <1>3, <1>4

\* The states of the walk have their type.
LEMMA ReplayStepStays ==
  ASSUME NEW n \in Nat, NEW m \in Nat, NEW p, p.timestamps \in Seq(Nat), Len(p.timestamps) = m,
         NEW stop, NEW b, NEW a \in Walks(b, n, m), a.stack # <<>>
  PROVE  ReplayStep(p, stop, n, a) \in Walks(b, n, m)
<1>1. a.reader \in Readers(b, n, m) /\ a.walked \in SUBSET (0 .. n - 1) /\ a.stack \in Seq(Items(n))
  BY DEF Walks
<1>2. Last(a.stack) \in Items(n) /\ Front(a.stack) \in Seq(Items(n))
  BY <1>1, StackTop
<1>3. PICK x \in 0 .. n - 1, lo \in Nat, hi \in Nat :
         x = Last(a.stack).node /\ lo = Last(a.stack).lo /\ hi = Last(a.stack).hi
  BY <1>2 DEF Items
<1>4. PICK r : r = Seen(p, a)
  OBVIOUS
<1>5. r \in Readers(b, n, m) /\ (r.ok => x \in DOMAIN r.assigned_ts)
  BY <1>1, <1>3, <1>4, TimestampIs DEF Seen
<1>6. CASE ~WideEnough(lo, hi)
  <2>1. ~WideEnough(Last(a.stack).lo, Last(a.stack).hi)
    BY <1>3, <1>6
  <2>2. ReplayStep(p, stop, n, a) = [a EXCEPT !.stack = Front(a.stack)]
    BY <2>1, Zenon DEF ReplayStep
  <2> QED
    BY <1>1, <1>2, <2>2 DEF Walks
<1>7. CASE WideEnough(lo, hi)
  <2>1. PICK t : t = IF ~r.ok THEN <<>> ELSE Pushed(p, stop, n, a)
    OBVIOUS
  <2>2. ReplayStep(p, stop, n, a) = [reader |-> r, walked |-> a.walked \cup {x}, stack |-> t]
    BY <1>3, <1>4, <1>7, <2>1, ReplayStepIs
  <2>3. t \in Seq(Items(n))
    <3>1. CASE ~r.ok
      BY <2>1, <3>1
    <3>2. CASE r.ok
      <4>1. PICK ts \in Nat : ts = r.assigned_ts[x]
        <5>1. r.assigned_ts \in Stamps(n)
          BY <1>5 DEF Readers
        <5>2. PICK D \in SUBSET (0 .. n - 1) : r.assigned_ts \in [D -> Nat]
          BY <5>1 DEF Stamps
        <5> QED
          BY <1>5, <3>2, <5>2
      <4>2. PICK u : u = Front(a.stack) \o (IF ~is_leaf(x) /\ (stop = None \/ x > stop)
                                            THEN Pending(left_child(x), lo, ts) ELSE <<>>)
        OBVIOUS
      <4>3. t = u \o Pending(ibst_right_child(x, n), ts, hi)
        BY <1>3, <1>4, <2>1, <3>2, <4>1, <4>2 DEF Pushed
      <4>4. u \in Seq(Items(n))
        <5>1. CASE ~is_leaf(x) /\ (stop = None \/ x > stop)
          <6>1. left_child(x) \in 0 .. n - 1
            <7>1. left_child(x) \in 0 .. x - 1
              BY <5>1, LeftChildIn
            <7> QED
              BY <7>1
          <6>2. Front(a.stack) \o Pending(left_child(x), lo, ts) \in Seq(Items(n))
            BY <1>2, <6>1, PendingIs
          <6> QED
            BY <4>2, <5>1, <6>2
        <5>2. CASE ~(~is_leaf(x) /\ (stop = None \/ x > stop))
          <6>1. u = Front(a.stack) \o <<>>
            BY <4>2, <5>2
          <6> QED
            BY <1>2, <6>1
        <5> QED
          BY <5>1, <5>2
      <4>5. CASE ibst_right_child(x, n) = None
        BY <4>3, <4>4, <4>5, PendingIs
      <4>6. CASE ibst_right_child(x, n) # None
        <5>1. PICK rc \in x + 1 .. n - 1 : rc = ibst_right_child(x, n)
          BY <4>6, RightChildIn
        <5>2. rc \in 0 .. n - 1
          BY <5>1
        <5>3. u \o Pending(rc, ts, hi) \in Seq(Items(n))
          BY <4>4, <5>2, PendingIs
        <5> QED
          BY <4>3, <5>1, <5>3
      <4> QED
        BY <4>5, <4>6
    <3> QED
      BY <3>1, <3>2
  <2>4. a.walked \cup {x} \in SUBSET (0 .. n - 1)
    BY <1>1
  <2> QED
    BY <1>5, <2>2, <2>3, <2>4 DEF Walks
<1> QED
  BY <1>6, <1>7

\* f lists the states of the walk.
Walking(f, r, p, head_ts, stop, n) ==
  /\ f[0] = [reader |-> r, walked |-> {}, stack |-> Pending(root(n), 0, head_ts)]
  /\ \A k \in 1 .. n : f[k] = IF f[k - 1].stack = <<>> THEN f[k - 1]
                              ELSE ReplayStep(p, stop, n, f[k - 1])

\* The client's walk from a reader r on, and where it comes to.
Strides(f, b, m, r, p, head_ts, stop, n) ==
  f \in [0 .. n -> Walks(b, n, m)] /\ Walking(f, r, p, head_ts, stop, n)
Replays(f, b, m, r, p, head_ts, stop, n) ==
  Strides(f, b, m, r, p, head_ts, stop, n) /\ ReplayRight(r, p, head_ts, stop, n) = f[n]

\* There is such a walk.
LEMMA ReplayDefined ==
  ASSUME NEW n \in Nat \ {0}, NEW m \in Nat, NEW p, p.timestamps \in Seq(Nat), Len(p.timestamps) = m,
         NEW stop, NEW b, NEW r \in Readers(b, n, m), NEW head_ts \in Nat
  PROVE  \E f : Replays(f, b, m, r, p, head_ts, stop, n)
<1>1. PICK V : V = Walks(b, n, m)
  OBVIOUS
<1>2. PICK v : v = [reader |-> r, walked |-> {}, stack |-> Pending(root(n), 0, head_ts)]
  OBVIOUS
<1>3. v \in V
  <2>1. root(n) \in 0 .. n - 1 /\ <<>> \in Seq(Items(n))
    BY RootIn
  <2>2. <<>> \o Pending(root(n), 0, head_ts) \in Seq(Items(n))
    BY <2>1, PendingIs
  <2>3. Pending(root(n), 0, head_ts) \in Seq(Items(n))
    <3>1. root(n) # None
      BY <2>1 DEF None
    <3>2. [node |-> root(n), lo |-> 0, hi |-> head_ts] \in Items(n)
      BY <2>1 DEF Items
    <3> QED
      BY <3>1, <3>2 DEF Pending
  <2> QED
    BY <1>1, <1>2, <2>3 DEF Walks
<1> DEFINE Step(a) == IF a.stack = <<>> THEN a ELSE ReplayStep(p, stop, n, a)
           G == [c \in V \X (1 .. n) |-> Step(c[1])]
<1>4. ASSUME NEW a \in V PROVE Step(a) \in V
  BY <1>1, ReplayStepStays
<1>5. \A a \in V, k \in 1 .. n : G[<<a, k>>] = Step(a)
  OBVIOUS
<1>6. G \in [V \X (1 .. n) -> V]
  <2>1. \A c \in V \X (1 .. n) : Step(c[1]) \in V
    BY <1>4
  <2> QED
    BY <2>1
<1> HIDE DEF G
<1>7. PICK g \in [0 .. n -> V] : Looped(V, v, G, n, g)
  <2>1. PICK H : H = G /\ H \in [V \X (1 .. n) -> V]
    BY <1>6
  <2>2. \E f \in [0 .. n -> V] : Looped(V, v, H, n, f)
    BY <1>3, <2>1, LoopDefined
  <2> QED
    BY <2>1, <2>2
<1>8. \A k \in 0 .. n : g[k] = IF k = 0 THEN v ELSE Step(g[k - 1])
  <2> TAKE k \in 0 .. n
  <2>1. g[k] = IF k = 0 THEN v ELSE G[<<g[k - 1], k>>]
    BY <1>7 DEF Looped
  <2>2. k # 0 => k \in 1 .. n /\ g[k - 1] \in V
    OBVIOUS
  <2> QED
    BY <1>5, <2>1, <2>2
<1> DEFINE Body(k, f) == IF k = 0 THEN v ELSE Step(f[k - 1])
           d == CHOOSE f : f = [k \in 0 .. n |-> Body(k, f)]
<1>9. g = [k \in 0 .. n |-> Body(k, g)]
  BY <1>8
<1> HIDE DEF Body
<1>10. d = [k \in 0 .. n |-> Body(k, d)]
  BY <1>9, Zenon
<1>11. ReplayRight(r, p, head_ts, stop, n) = d[n]
  BY <1>2, Zenon DEF ReplayRight, Body
<1> HIDE DEF d
<1>12. \A k \in 0 .. n : d[k] = Body(k, d)
  BY <1>10, Zenon
<1> HIDE DEF Step
<1>13. \A k \in 0 .. n : d[k] = IF k = 0 THEN v ELSE Step(d[k - 1])
  BY <1>12 DEF Body
<1> DEFINE Wrong == {k \in Nat : k <= n /\ d[k] # g[k]}
<1>14. ASSUME Wrong # {} PROVE FALSE
  <2>1. PICK k \in Wrong : \A z \in Nat : z < k => z \notin Wrong
    <3>1. Wrong \in SUBSET Nat
      OBVIOUS
    <3> HIDE DEF Wrong
    <3> QED
      BY <1>14, <3>1, LeastElement
  <2>2. k \in 0 .. n /\ d[k] # g[k]
    OBVIOUS
  <2>3. k # 0
    BY <1>8, <1>13, <2>2
  <2>4. k - 1 \in Nat /\ k - 1 < k /\ k - 1 <= n
    BY <2>2, <2>3
  <2>5. d[k - 1] = g[k - 1]
    BY <2>1, <2>4
  <2> QED
    BY <1>8, <1>13, <2>2, <2>3, <2>5
<1>15. d[n] = g[n]
  <2>1. n \in Nat /\ n <= n
    OBVIOUS
  <2> QED
    BY <1>14, <2>1
<1>16. Walking(g, r, p, head_ts, stop, n)
  <2>1. 0 \in 0 .. n /\ \A k \in 1 .. n : k \in 0 .. n /\ k # 0
    OBVIOUS
  <2>2. g[0] = v
    BY <1>8, <2>1
  <2>3. \A k \in 1 .. n : g[k] = Step(g[k - 1])
    BY <1>8, <2>1
  <2> QED
    BY <1>2, <2>2, <2>3 DEF Walking, Step
<1> QED
  BY <1>1, <1>11, <1>15, <1>16 DEF Replays, Strides

\* What lies below the entries of a stack, and a stack of entries with their intervals, none
\* below another one.
Cover(s, n)   == {y \in 0 .. n - 1 : \E i \in 1 .. Len(s) : y \in Under(s[i].node, n)}
Fits(e, n, T) == e.lo = Before(log, e.node) /\ e.hi = After(log, e.node, n, T)
Apart(u, n)   == \A i, j \in 1 .. Len(u) : i # j => Under(u[i].node, n) \cap Under(u[j].node, n) = {}
Tidy(s, n, T) == (\A i \in 1 .. Len(s) : Fits(s[i], n, T)) /\ Apart(s, n)

\* The top of a tidy stack and what is below it.
LEMMA PopTidy ==
  ASSUME NEW n \in Nat, NEW T, NEW s \in Seq(Items(n)), s # <<>>, Tidy(s, n, T)
  PROVE  /\ Front(s) \in Seq(Items(n)) /\ Last(s) \in Items(n)
         /\ Tidy(Front(s), n, T) /\ Fits(Last(s), n, T)
         /\ Cover(s, n) = Cover(Front(s), n) \cup Under(Last(s).node, n)
         /\ Cover(Front(s), n) \cap Under(Last(s).node, n) = {}
<1>1. PICK u : u = Front(s)
  OBVIOUS
<1>2. PICK e : e = Last(s)
  OBVIOUS
<1>3. /\ e \in Items(n) /\ u \in Seq(Items(n)) /\ s = Append(u, e)
      /\ Len(s) \in Nat \ {0} /\ Len(u) = Len(s) - 1
      /\ \A i \in 1 .. Len(s) - 1 : u[i] = s[i]
  BY <1>1, <1>2, StackTop
<1>4. PICK l \in Nat \ {0} : l = Len(s) /\ Len(u) = l - 1
  BY <1>3
<1>5. s[l] = e /\ \A i \in 1 .. l - 1 : u[i] = s[i]
  BY <1>3, <1>4
<1>6. Tidy(u, n, T)
  <2>1. \A i \in 1 .. l - 1 : i \in 1 .. l
    BY <1>4
  <2> QED
    BY <1>4, <1>5, <2>1 DEF Tidy, Apart
<1>7. Fits(e, n, T)
  <2>1. l \in 1 .. l
    BY <1>4
  <2> QED
    BY <1>4, <1>5, <2>1 DEF Tidy
<1>8. Cover(s, n) = Cover(u, n) \cup Under(e.node, n)
  <2>1. ASSUME NEW y \in 0 .. n - 1
        PROVE  (\E i \in 1 .. l : y \in Under(s[i].node, n))
                 <=> (\E i \in 1 .. l - 1 : y \in Under(u[i].node, n)) \/ y \in Under(e.node, n)
    <3>1. \A i \in 1 .. l : i \in 1 .. l - 1 \/ i = l
      BY <1>4
    <3>2. l \in 1 .. l /\ \A i \in 1 .. l - 1 : i \in 1 .. l
      BY <1>4
    <3> QED
      BY <1>5, <3>1, <3>2
  <2>2. Under(e.node, n) \subseteq 0 .. n - 1
    BY DEF Under
  <2>3. \A y \in 0 .. n - 1 : y \in Cover(s, n) <=> y \in Cover(u, n) \/ y \in Under(e.node, n)
    BY <1>4, <2>1 DEF Cover
  <2>4. Cover(s, n) \subseteq 0 .. n - 1 /\ Cover(u, n) \subseteq 0 .. n - 1
    BY DEF Cover
  <2> QED
    BY <2>2, <2>3, <2>4
<1>9. Cover(u, n) \cap Under(e.node, n) = {}
  <2> SUFFICES ASSUME NEW y \in 0 .. n - 1, NEW i \in 1 .. l - 1, y \in Under(u[i].node, n),
                      y \in Under(e.node, n)
               PROVE  FALSE
    BY <1>4 DEF Cover
  <2>1. i \in 1 .. l /\ l \in 1 .. l /\ i # l
    BY <1>4
  <2>2. Under(s[i].node, n) \cap Under(s[l].node, n) = {}
    BY <1>4, <2>1 DEF Tidy, Apart
  <2> QED
    BY <1>5, <2>2
<1> QED
  BY <1>1, <1>2, <1>3, <1>6, <1>7, <1>8, <1>9

\* One more entry on a tidy stack.
LEMMA PushTidy ==
  ASSUME NEW n \in Nat, NEW T, NEW s \in Seq(Items(n)), Tidy(s, n, T), NEW e \in Items(n),
         Fits(e, n, T), Cover(s, n) \cap Under(e.node, n) = {}
  PROVE  /\ Append(s, e) \in Seq(Items(n)) /\ Tidy(Append(s, e), n, T)
         /\ Cover(Append(s, e), n) = Cover(s, n) \cup Under(e.node, n)
<1>1. PICK u : u = Append(s, e)
  OBVIOUS
<1>2. PICK S : S = Items(n)
  OBVIOUS
<1>3. PICK l \in Nat : l = Len(s)
  OBVIOUS
<1>4. /\ u \in Seq(S) /\ Len(u) = l + 1 /\ u[l + 1] = e /\ \A i \in 1 .. l : u[i] = s[i]
  <2>1. s \in Seq(S) /\ e \in S
    BY <1>2
  <2> QED
    BY <1>1, <1>3, <2>1
<1>5. \A i \in 1 .. l + 1 : i \in 1 .. l \/ i = l + 1
  BY <1>3
<1>6. l + 1 \in 1 .. l + 1 /\ \A i \in 1 .. l : i \in 1 .. l + 1
  BY <1>3
<1>7. \A i \in 1 .. l : Under(s[i].node, n) \cap Under(e.node, n) = {}
  BY <1>3 DEF Cover, Under
<1>8. Tidy(u, n, T)
  <2>1. \A i \in 1 .. l : Fits(s[i], n, T)
    BY <1>3 DEF Tidy
  <2>2. \A i \in 1 .. l + 1 : Fits(u[i], n, T)
    BY <1>4, <1>5, <2>1
  <2>3. ASSUME NEW i \in 1 .. l + 1, NEW j \in 1 .. l + 1, i # j
        PROVE  Under(u[i].node, n) \cap Under(u[j].node, n) = {}
    <3>1. CASE i \in 1 .. l /\ j \in 1 .. l
      <4>1. Under(s[i].node, n) \cap Under(s[j].node, n) = {}
        BY <1>3, <2>3, <3>1 DEF Tidy, Apart
      <4> QED
        BY <1>4, <3>1, <4>1
    <3>2. CASE i = l + 1
      <4>1. j \in 1 .. l
        BY <1>5, <2>3, <3>2
      <4> QED
        BY <1>4, <1>7, <3>2, <4>1
    <3>3. CASE j = l + 1
      <4>1. i \in 1 .. l
        BY <1>5, <2>3, <3>3
      <4> QED
        BY <1>4, <1>7, <3>3, <4>1
    <3> QED
      BY <1>5, <3>1, <3>2, <3>3
  <2> QED
    BY <1>4, <2>2, <2>3 DEF Tidy, Apart
<1>9. Cover(u, n) = Cover(s, n) \cup Under(e.node, n)
  <2>1. ASSUME NEW y \in 0 .. n - 1
        PROVE  (\E i \in 1 .. l + 1 : y \in Under(u[i].node, n))
                 <=> (\E i \in 1 .. l : y \in Under(s[i].node, n)) \/ y \in Under(e.node, n)
    BY <1>4, <1>5, <1>6
  <2>2. Under(e.node, n) \subseteq 0 .. n - 1
    BY DEF Under
  <2>3. \A y \in 0 .. n - 1 : y \in Cover(u, n) <=> y \in Cover(s, n) \/ y \in Under(e.node, n)
    BY <1>3, <1>4, <2>1 DEF Cover
  <2>4. Cover(s, n) \subseteq 0 .. n - 1 /\ Cover(u, n) \subseteq 0 .. n - 1
    BY DEF Cover
  <2> QED
    BY <2>2, <2>3, <2>4
<1> QED
  BY <1>1, <1>2, <1>4, <1>8, <1>9

\* w is the stack v with the entry x on top.
Pushes(w, v, x, n, T) == /\ w \in Seq(Items(n)) /\ Tidy(w, n, T)
                         /\ Cover(w, n) = Cover(v, n) \cup Under(x, n)

\* An entry pushed on the reader's stack adds what lies under it to what the stack covers.
LEMMA PendingPushes ==
  ASSUME NEW n \in Nat, NEW T, NEW v \in Seq(Items(n)), Tidy(v, n, T), NEW x \in 0 .. n - 1,
         NEW lo \in Nat, NEW hi \in Nat, lo = Before(log, x), hi = After(log, x, n, T),
         Cover(v, n) \cap Under(x, n) = {}
  PROVE  Pushes(v \o Pending(x, lo, hi), v, x, n, T)
<1>1. PICK e : e = [node |-> x, lo |-> lo, hi |-> hi]
  OBVIOUS
<1>2. v \o Pending(x, lo, hi) = Append(v, e) /\ e \in Items(n)
  <2>1. x # None
    BY DEF None
  <2>2. Pending(x, lo, hi) = <<e>>
    BY <1>1, <2>1 DEF Pending
  <2>3. e \in Items(n)
    BY <1>1 DEF Items
  <2>4. v \o <<e>> = Append(v, e)
    BY <2>3
  <2> QED
    BY <2>2, <2>3, <2>4
<1>3. e.node = x /\ Fits(e, n, T)
  BY <1>1 DEF Fits
<1>4. /\ Append(v, e) \in Seq(Items(n)) /\ Tidy(Append(v, e), n, T)
      /\ Cover(Append(v, e), n) = Cover(v, n) \cup Under(e.node, n)
  BY <1>2, <1>3, PushTidy
<1> QED
  BY <1>2, <1>3, <1>4 DEF Pushes

\* What lies below x to its right, and what lies below it to its left where the walk goes on
\* there.
RightOf(x, n)      == {y \in Under(x, n) : y > x}
LeftOf(x, n, stop) == {y \in Under(x, n) : y < x /\ (stop = None \/ x > stop)}

\* The stack u with the children of an entry.
Pushing(u, x, n, stop, lo, t, hi) ==
  u \o (IF ~is_leaf(x) /\ (stop = None \/ x > stop) THEN Pending(left_child(x), lo, t) ELSE <<>>)
    \o Pending(ibst_right_child(x, n), t, hi)

\* The stack after an entry whose timestamp is that of the log: what was below it is divided
\* between its children, the left one only past the stopping position.
LEMMA PushedTidy ==
  ASSUME NEW n \in Nat, NEW T, HeadOf(log, n, T), Len(log) \in Nat,
         NEW u \in Seq(Items(n)), Tidy(u, n, T), NEW x \in 0 .. n - 1,
         Cover(u, n) \cap Under(x, n) = {}, NEW stop,
         NEW lo, lo = Before(log, x), NEW t, t = get_timestamp(x), NEW hi, hi = After(log, x, n, T),
         NEW w, w = Pushing(u, x, n, stop, lo, t, hi)
  PROVE  /\ w \in Seq(Items(n)) /\ Tidy(w, n, T)
         /\ Cover(w, n) = Cover(u, n) \cup RightOf(x, n) \cup LeftOf(x, n, stop)
<1>1. x \in Nat /\ x < n
  BY DEF HeadOf
<1>2. lo \in Nat /\ hi \in Nat
  BY AroundIn
<1>3. t \in Nat /\ t = log[x + 1].ts
  <2>1. x + 1 \in 1 .. Len(log)
    BY <1>1 DEF HeadOf
  <2> QED
    BY <2>1 DEF HeadOf, InOrder, get_timestamp
<1>4. RightOf(x, n) \cap LeftOf(x, n, stop) = {} /\ RightOf(x, n) \subseteq Under(x, n)
      /\ LeftOf(x, n, stop) \subseteq Under(x, n)
  <2>1. \A y \in Under(x, n) : y \in Nat
    BY DEF Under
  <2> QED
    BY <1>1, <2>1 DEF RightOf, LeftOf
<1>5. PICK v : v = u \o (IF ~is_leaf(x) /\ (stop = None \/ x > stop)
                        THEN Pending(left_child(x), lo, t) ELSE <<>>)
  OBVIOUS
<1>6. w = v \o Pending(ibst_right_child(x, n), t, hi)
  BY <1>5 DEF Pushing
<1>7. /\ v \in Seq(Items(n)) /\ Tidy(v, n, T) /\ Cover(v, n) = Cover(u, n) \cup LeftOf(x, n, stop)
  <2>1. CASE ~(stop = None \/ x > stop)
    <3>1. u \o <<>> = u
      OBVIOUS
    <3>2. v = u
      BY <1>5, <2>1, <3>1
    <3>3. LeftOf(x, n, stop) = {}
      BY <2>1 DEF LeftOf
    <3> QED
      BY <3>2, <3>3
  <2>2. CASE is_leaf(x)
    <3>1. u \o <<>> = u
      OBVIOUS
    <3>2. v = u
      BY <1>5, <2>2, <3>1
    <3>3. span[x] = 1
      BY <2>2, SubtreeSplits
    <3>4. LeftOf(x, n, stop) = {}
      BY <1>1, <3>3 DEF Under, LeftOf
    <3> QED
      BY <3>2, <3>4
  <2>3. CASE ~is_leaf(x) /\ (stop = None \/ x > stop)
    <3>1. PICK l \in 0 .. n - 1 : l = left_child(x)
      BY <2>3, SubtreeSplits
    <3>2. /\ Before(log, l) = lo /\ After(log, l, n, T) = t
          /\ Under(l, n) = {y \in Under(x, n) : y < x}
      BY <1>3, <2>3, <3>1, SubtreeSplits
    <3>3. v = u \o Pending(l, lo, t)
      BY <1>5, <2>3, <3>1
    <3>4. Under(l, n) = LeftOf(x, n, stop)
      BY <2>3, <3>2 DEF LeftOf
    <3>5. Cover(u, n) \cap Under(l, n) = {}
      BY <1>4, <3>4
    <3>6. Pushes(u \o Pending(l, lo, t), u, l, n, T)
      BY <1>2, <1>3, <3>2, <3>5, PendingPushes
    <3> QED
      BY <3>3, <3>4, <3>6 DEF Pushes
  <2> QED
    BY <2>1, <2>2, <2>3
<1>8. /\ w \in Seq(Items(n)) /\ Tidy(w, n, T) /\ Cover(w, n) = Cover(v, n) \cup RightOf(x, n)
  <2>1. CASE ibst_right_child(x, n) = None
    <3>1. Pending(ibst_right_child(x, n), t, hi) = <<>>
      BY <2>1 DEF Pending
    <3>2. w = v
      BY <1>7, <1>6, <3>1
    <3>3. \A y \in Under(x, n) : y <= x /\ y \in Nat
      BY <2>1, SubtreeSplits DEF Under
    <3>4. RightOf(x, n) = {}
      BY <1>1, <3>3 DEF RightOf
    <3> QED
      BY <1>7, <3>2, <3>4
  <2>2. CASE ibst_right_child(x, n) # None
    <3>1. PICK l \in 0 .. n - 1 : l = ibst_right_child(x, n)
      BY <2>2, SubtreeSplits
    <3>2. /\ Before(log, l) = t /\ After(log, l, n, T) = hi
          /\ Under(l, n) = {y \in Under(x, n) : y > x}
      BY <1>3, <2>2, <3>1, SubtreeSplits
    <3>3. w = v \o Pending(l, t, hi)
      BY <1>6, <3>1
    <3>4. Under(l, n) = RightOf(x, n)
      BY <3>2 DEF RightOf
    <3>5. Cover(v, n) \cap Under(l, n) = {}
      BY <1>7, <1>4, <3>4
    <3>6. Pushes(v \o Pending(l, t, hi), v, l, n, T)
      BY <1>2, <1>3, <1>7, <3>2, <3>5, PendingPushes
    <3> QED
      BY <3>3, <3>4, <3>6 DEF Pushes
  <2> QED
    BY <2>1, <2>2
<1> QED
  BY <1>7, <1>8

\* A reader that has not failed and has nothing but the timestamps of the log.
True(r) == r.ok /\ \A x \in DOMAIN r.assigned_ts : r.assigned_ts[x] = get_timestamp(x)

\* c follows a in a walk: the entry that leaves the stack does not come back, no entry comes
\* to it that was not below one of it, and what leaves it with a wide interval was walked,
\* where no stopping position hides it.
Follows(a, c, stop, n, T) ==
  /\ Tidy(c.stack, n, T)
  /\ Cover(c.stack, n) \subseteq Cover(a.stack, n)
  /\ \E x \in Cover(a.stack, n) : x \notin Cover(c.stack, n)
  /\ a.walked \subseteq c.walked
  /\ \A y \in c.walked \ a.walked : IsWide(log, y, n, T)
  /\ stop = None =>
       \A y \in Cover(a.stack, n) \ Cover(c.stack, n) : IsWide(log, y, n, T) => y \in c.walked

\* A step that read the truth.
LEMMA StepFollows ==
  ASSUME NEW n \in Nat, NEW m \in Nat, NEW p, p.timestamps \in Seq(Nat), Len(p.timestamps) = m,
         NEW stop, NEW b, NEW a \in Walks(b, n, m), a.stack # <<>>, RMW \in Nat \ {0},
         NEW T, HeadOf(log, n, T), Len(log) \in Nat, Tidy(a.stack, n, T),
         NEW c, c = ReplayStep(p, stop, n, a), True(c.reader)
  PROVE  Follows(a, c, stop, n, T)
<1>1. a.reader \in Readers(b, n, m) /\ a.walked \in SUBSET (0 .. n - 1) /\ a.stack \in Seq(Items(n))
  BY DEF Walks
<1>2. PICK s : s = a.stack
  OBVIOUS
<1>3. PICK u : u = Front(s)
  OBVIOUS
<1>4. PICK e : e = Last(s)
  OBVIOUS
<1>5. /\ s \in Seq(Items(n)) /\ s # <<>> /\ Tidy(s, n, T)
  BY <1>1, <1>2
<1>6. /\ u \in Seq(Items(n)) /\ e \in Items(n) /\ Tidy(u, n, T) /\ Fits(e, n, T)
      /\ Cover(s, n) = Cover(u, n) \cup Under(e.node, n)
      /\ Cover(u, n) \cap Under(e.node, n) = {}
  BY <1>3, <1>4, <1>5, PopTidy
<1>7. PICK x \in 0 .. n - 1, lo \in Nat, hi \in Nat :
         x = e.node /\ lo = e.lo /\ hi = e.hi
  BY <1>6 DEF Items
<1>8. lo = Before(log, x) /\ hi = After(log, x, n, T)
  BY <1>6, <1>7 DEF Fits
<1>9. x \in Under(x, n) /\ x \in Nat
  <2>1. x \in Nat
    BY <1>7
  <2>2. PICK k \in Nat \ {0} : k = span[x]
    BY <2>1, SpanBounds
  <2>3. x - k < x /\ x < x + k
    BY <2>1
  <2> QED
    BY <2>1, <2>2, <2>3 DEF Under
<1>10. WideEnough(lo, hi) <=> IsWide(log, x, n, T)
  BY <1>8 DEF WideEnough, IsWide
<1>11. x \in Cover(s, n) /\ x \notin Cover(u, n)
  BY <1>6, <1>7, <1>9
<1>12. CASE ~WideEnough(lo, hi)
  <2>1. ~WideEnough(Last(a.stack).lo, Last(a.stack).hi)
    BY <1>2, <1>4, <1>7, <1>12
  <2>2. c = [a EXCEPT !.stack = Front(a.stack)]
    BY <2>1, Zenon DEF ReplayStep
  <2>3. c.stack = u /\ c.walked = a.walked
    BY <1>2, <1>3, <2>2 DEF Walks
  <2>4. \A y \in Under(x, n) : ~IsWide(log, y, n, T)
    BY <1>10, <1>12, NarrowBelow
  <2> QED
    BY <1>2, <1>6, <1>7, <1>11, <2>3, <2>4 DEF Follows
<1>13. CASE WideEnough(lo, hi)
  <2>1. WideEnough(Last(a.stack).lo, Last(a.stack).hi)
    BY <1>2, <1>4, <1>7, <1>13
  <2>2. PICK r : r = timestamp(a.reader, p, x)
    OBVIOUS
  <2>3. PICK t : t = r.assigned_ts[x]
    OBVIOUS
  <2>4. PICK w : w = Pushing(u, x, n, stop, lo, t, hi)
    OBVIOUS
  <2>5. Last(a.stack) = e /\ Front(a.stack) = u /\ e.node = x /\ e.lo = lo /\ e.hi = hi
    BY <1>2, <1>3, <1>4, <1>7
  <2>6. ReplayStep(p, stop, n, a)
          = [reader |-> r, walked |-> a.walked \cup {x}, stack |-> IF ~r.ok THEN <<>> ELSE w]
    BY <2>1, <2>2, <2>3, <2>4, <2>5 DEF ReplayStep, Pushing
  <2>7. c.reader = r /\ c.walked = a.walked \cup {x} /\ c.stack = IF ~r.ok THEN <<>> ELSE w
    BY <2>6
  <2>8. r.ok /\ c.stack = w
    BY <2>7 DEF True
  <2>9. x \in DOMAIN r.assigned_ts
    BY <1>1, <2>2, <2>8, TimestampIs
  <2>10. t = get_timestamp(x)
    BY <2>3, <2>7, <2>9 DEF True
  <2>11. Cover(u, n) \cap Under(x, n) = {}
    BY <1>6, <1>7
  <2>12. /\ w \in Seq(Items(n)) /\ Tidy(w, n, T)
         /\ Cover(w, n) = Cover(u, n) \cup RightOf(x, n) \cup LeftOf(x, n, stop)
    BY <1>6, <1>8, <2>4, <2>10, <2>11, PushedTidy
  <2>13. RightOf(x, n) \subseteq Under(x, n) /\ LeftOf(x, n, stop) \subseteq Under(x, n)
         /\ x \notin RightOf(x, n) /\ x \notin LeftOf(x, n, stop)
    BY <1>9 DEF RightOf, LeftOf
  <2>14. stop = None => Under(x, n) = RightOf(x, n) \cup LeftOf(x, n, stop) \cup {x}
    <3>1. \A y \in Under(x, n) : y < x \/ y = x \/ y > x
      BY <1>9 DEF Under
    <3> QED
      BY <1>9, <3>1 DEF RightOf, LeftOf
  <2>15. IsWide(log, x, n, T)
    BY <1>10, <1>13
  <2> QED
    BY <1>2, <1>6, <1>7, <1>11, <2>7, <2>8, <2>12, <2>13, <2>14, <2>15 DEF Follows
<1> QED
  BY <1>12, <1>13

\* What a step of the walk knew before.
LEMMA StepKnew ==
  ASSUME NEW n \in Nat, NEW m \in Nat, NEW p, p.timestamps \in Seq(Nat), Len(p.timestamps) = m,
         NEW stop, NEW b, NEW a \in Walks(b, n, m), a.stack # <<>>,
         NEW c, c = ReplayStep(p, stop, n, a), True(c.reader)
  PROVE  True(a.reader)
<1>1. a.reader \in Readers(b, n, m) /\ a.stack \in Seq(Items(n))
  BY DEF Walks
<1>2. PICK e : e = Last(a.stack)
  OBVIOUS
<1>3. e \in Items(n)
  BY <1>1, <1>2, StackTop
<1>4. PICK x \in 0 .. n - 1 : x = e.node
  BY <1>3 DEF Items
<1>5. CASE ~WideEnough(e.lo, e.hi)
  <2>1. c = [a EXCEPT !.stack = Front(a.stack)]
    BY <1>2, <1>5, Zenon DEF ReplayStep
  <2>2. c.reader = a.reader
    BY <2>1 DEF Walks
  <2> QED
    BY <2>2
<1>6. CASE WideEnough(e.lo, e.hi)
  <2>1. PICK r : r = timestamp(a.reader, p, x)
    OBVIOUS
  <2>2. c.reader = r
    BY <1>2, <1>4, <1>6, <2>1 DEF ReplayStep
  <2>3. r.ok => a.reader.ok /\ Knows(r, a.reader)
    BY <1>1, <2>1, TimestampIs
  <2>4. PICK q : q = a.reader
    OBVIOUS
  <2>5. q.ok /\ Knows(r, q)
    BY <2>2, <2>3, <2>4 DEF True
  <2> QED
    BY <2>2, <2>4, <2>5 DEF True, Knows
<1> QED
  BY <1>5, <1>6

\* A walk that has taken k of its steps.
OnTheWay(a, k, stop, n, T) ==
  /\ Tidy(a.stack, n, T)
  /\ a.stack = <<>> \/ Cardinality(Cover(a.stack, n)) + k <= n
  /\ a.walked \subseteq Wide(log, n, T)
  /\ stop = None => Wide(log, n, T) \subseteq a.walked \cup Cover(a.stack, n)

\* A set of entries that lost one is smaller.
LEMMA CoverShrinks ==
  ASSUME NEW n \in Nat, NEW A \in SUBSET (0 .. n - 1), NEW B \in SUBSET A, NEW x \in A, x \notin B
  PROVE  /\ Cardinality(A) \in Nat /\ Cardinality(B) \in Nat
         /\ Cardinality(B) + 1 <= Cardinality(A)
<1>1. IsFiniteSet(0 .. n - 1)
  BY FS_Interval
<1>2. IsFiniteSet(A)
  BY <1>1, FS_Subset
<1>3. IsFiniteSet(A \ {x}) /\ Cardinality(A \ {x}) = Cardinality(A) - 1
  BY <1>2, FS_RemoveElement
<1>4. B \in SUBSET (A \ {x})
  OBVIOUS
<1>5. IsFiniteSet(B) /\ Cardinality(B) <= Cardinality(A \ {x})
  BY <1>3, <1>4, FS_Subset
<1>6. Cardinality(A) \in Nat /\ Cardinality(B) \in Nat
  BY <1>2, <1>5, FS_CardinalityType
<1> QED
  BY <1>3, <1>5, <1>6

\* The walk stays on the way.
LEMMA FollowsOnTheWay ==
  ASSUME NEW n \in Nat, NEW T, NEW stop, NEW k \in Nat, NEW a, a.stack # <<>>, NEW c,
         a.walked \subseteq 0 .. n - 1, c.walked \subseteq 0 .. n - 1,
         OnTheWay(a, k, stop, n, T), Follows(a, c, stop, n, T)
  PROVE  OnTheWay(c, k + 1, stop, n, T)
<1>1. PICK A : A = Cover(a.stack, n)
  OBVIOUS
<1>2. PICK C : C = Cover(c.stack, n)
  OBVIOUS
<1>3. A \in SUBSET (0 .. n - 1) /\ C \in SUBSET A /\ \E x \in A : x \notin C
  BY <1>1, <1>2 DEF Follows, Cover
<1>4. Cardinality(A) \in Nat /\ Cardinality(C) \in Nat /\ Cardinality(C) + 1 <= Cardinality(A)
  BY <1>3, CoverShrinks
<1>5. Cardinality(A) + k <= n
  BY <1>1 DEF OnTheWay
<1>6. Cardinality(C) + (k + 1) <= n
  BY <1>4, <1>5
<1>7. c.walked \subseteq Wide(log, n, T)
  <2>1. \A y \in c.walked \ a.walked : IsWide(log, y, n, T) /\ y \in 0 .. n - 1
    BY DEF Follows
  <2>2. \A y \in c.walked \ a.walked : y \in Wide(log, n, T)
    BY <2>1 DEF Wide
  <2> QED
    BY <2>2 DEF OnTheWay
<1>8. ASSUME stop = None PROVE Wide(log, n, T) \subseteq c.walked \cup C
  <2>1. \A y \in A \ C : IsWide(log, y, n, T) => y \in c.walked
    BY <1>1, <1>2, <1>8 DEF Follows
  <2>2. Wide(log, n, T) \subseteq a.walked \cup A /\ a.walked \subseteq c.walked
    BY <1>1, <1>8 DEF OnTheWay, Follows
  <2>3. \A y \in Wide(log, n, T) : IsWide(log, y, n, T)
    BY DEF Wide
  <2> QED
    BY <2>1, <2>2, <2>3
<1> QED
  BY <1>2, <1>6, <1>7, <1>8 DEF OnTheWay, Follows

\* The walked entries of a replay are those with a wide interval, where there is no stopping
\* position all of them.
WalksWide(w, stop, n, T) == /\ w \subseteq Wide(log, n, T)
                            /\ stop = None => w = Wide(log, n, T)

\* A walk that came to its end.
Ended(f, stop, n, T) == /\ \A k \in 0 .. n : True(f[k].reader)
                        /\ f[n].stack = <<>> /\ WalksWide(f[n].walked, stop, n, T)

\* A walk that read the truth all along ends, and went over wide intervals, over all of them
\* if it has no stopping position.
LEMMA WalkEnds ==
  ASSUME NEW n \in Nat \ {0}, NEW m \in Nat, NEW p, p.timestamps \in Seq(Nat), Len(p.timestamps) = m,
         NEW stop, NEW b, NEW r \in Readers(b, n, m), RMW \in Nat \ {0},
         NEW T \in Nat, HeadOf(log, n, T), Len(log) \in Nat,
         NEW f \in [0 .. n -> Walks(b, n, m)], Walking(f, r, p, T, stop, n), True(f[n].reader)
  PROVE  Ended(f, stop, n, T)
<1>1. \A k \in 1 .. n : /\ k - 1 \in 0 .. n /\ f[k - 1] \in Walks(b, n, m)
                        /\ f[k] = IF f[k - 1].stack = <<>> THEN f[k - 1]
                                  ELSE ReplayStep(p, stop, n, f[k - 1])
  BY DEF Walking
<1>2. \A k \in 1 .. n : True(f[k].reader) => True(f[k - 1].reader)
  <2> SUFFICES ASSUME NEW k \in 1 .. n, True(f[k].reader) PROVE True(f[k - 1].reader)
    OBVIOUS
  <2>1. PICK a \in Walks(b, n, m) : a = f[k - 1]
    BY <1>1
  <2>2. CASE a.stack = <<>>
    BY <1>1, <2>1, <2>2
  <2>3. CASE a.stack # <<>>
    <3>1. f[k] = ReplayStep(p, stop, n, a)
      BY <1>1, <2>1, <2>3
    <3>2. PICK c : c = f[k]
      OBVIOUS
    <3>3. c = ReplayStep(p, stop, n, a) /\ True(c.reader)
      BY <3>1, <3>2
    <3>4. True(a.reader)
      BY <2>3, <3>3, StepKnew
    <3> QED
      BY <2>1, <3>4
  <2> QED
    BY <2>2, <2>3
<1> DEFINE Back == {i \in Nat : i <= n /\ ~True(f[n - i].reader)}
<1>3. ASSUME Back # {} PROVE FALSE
  <2>1. PICK i \in Back : \A z \in Nat : z < i => z \notin Back
    <3>1. Back \in SUBSET Nat
      OBVIOUS
    <3> HIDE DEF Back
    <3> QED
      BY <1>3, <3>1, LeastElement
  <2>2. i \in Nat /\ i <= n /\ ~True(f[n - i].reader)
    OBVIOUS
  <2>3. i # 0
    <3>1. n - 0 = n
      OBVIOUS
    <3> QED
      BY <2>2, <3>1
  <2>4. PICK j \in 1 .. n : j = n - (i - 1) /\ n - i = j - 1 /\ i - 1 \in Nat /\ i - 1 < i /\ i - 1 <= n
    BY <2>2, <2>3
  <2>5. True(f[j].reader)
    BY <2>1, <2>4
  <2> QED
    BY <1>2, <2>2, <2>4, <2>5
<1>4. \A k \in 0 .. n : True(f[k].reader)
  <2> TAKE k \in 0 .. n
  <2>1. n - k \in Nat /\ n - k <= n /\ n - (n - k) = k
    OBVIOUS
  <2> QED
    BY <1>3, <2>1
<1>5. \A k \in 0 .. n : f[k].stack \in Seq(Items(n)) /\ f[k].walked \subseteq 0 .. n - 1
  BY DEF Walks
<1>6. OnTheWay(f[0], 0, stop, n, T)
  <2>1. PICK x \in 0 .. n - 1 : x = root(n)
    BY RootIn
  <2>2. PICK s \in Nat \ {0} : s = span[x] /\ x - s = -1 /\ x + s >= n
    BY <2>1, RootIn
  <2>3. ~(x + s < n)
    BY <2>2
  <2>4. \A y \in 0 .. n - 1 : x - s < y /\ y < x + s
    BY <2>2
  <2>5. Before(log, x) = 0 /\ After(log, x, n, T) = T /\ Under(x, n) = 0 .. n - 1
    BY <2>2, <2>3, <2>4 DEF Before, After, Under
  <2>6. PICK e : e = [node |-> x, lo |-> 0, hi |-> T]
    OBVIOUS
  <2>7. f[0].walked = {} /\ f[0].stack = <<e>>
    <3>1. x # None
      BY <2>1 DEF None
    <3>2. Pending(x, 0, T) = <<e>>
      BY <2>6, <3>1 DEF Pending
    <3> QED
      BY <2>1, <3>2 DEF Walking
  <2>8. Tidy(<<e>>, n, T) /\ Cover(<<e>>, n) = 0 .. n - 1
    <3>1. Len(<<e>>) = 1 /\ <<e>>[1] = e
      OBVIOUS
    <3>2. Fits(e, n, T) /\ e.node = x
      BY <2>5, <2>6 DEF Fits
    <3>3. \A i \in 1 .. 1 : i = 1
      OBVIOUS
    <3>4. Tidy(<<e>>, n, T)
      BY <3>1, <3>2, <3>3 DEF Tidy, Apart
    <3>5. 1 \in 1 .. 1
      OBVIOUS
    <3>6. \A y \in 0 .. n - 1 : y \in Under(<<e>>[1].node, n)
      BY <2>5, <3>1, <3>2
    <3>7. \A y \in 0 .. n - 1 : \E i \in 1 .. Len(<<e>>) : y \in Under(<<e>>[i].node, n)
      BY <3>1, <3>5, <3>6
    <3> QED
      BY <3>4, <3>7 DEF Cover
  <2>9. Cardinality(0 .. n - 1) = n
    <3>1. 0 \in Int /\ n - 1 \in Int /\ ~(0 > n - 1) /\ n - 1 - 0 + 1 = n
      OBVIOUS
    <3> QED
      BY <3>1, FS_Interval
  <2>10. Wide(log, n, T) \subseteq 0 .. n - 1
    BY DEF Wide
  <2> QED
    BY <2>7, <2>8, <2>9, <2>10 DEF OnTheWay
<1> DEFINE Wrong == {k \in Nat : k <= n /\ ~OnTheWay(f[k], k, stop, n, T)}
<1>7. ASSUME Wrong # {} PROVE FALSE
  <2>1. PICK k \in Wrong : \A z \in Nat : z < k => z \notin Wrong
    <3>1. Wrong \in SUBSET Nat
      OBVIOUS
    <3> HIDE DEF Wrong
    <3> QED
      BY <1>7, <3>1, LeastElement
  <2>2. k \in Nat /\ k <= n /\ ~OnTheWay(f[k], k, stop, n, T)
    OBVIOUS
  <2>3. k # 0
    BY <1>6, <2>2
  <2>4. PICK j \in Nat : j = k - 1 /\ j < k /\ j <= n /\ j + 1 = k /\ k \in 1 .. n /\ j \in 0 .. n /\ k \in 0 .. n
    BY <2>2, <2>3
  <2>5. OnTheWay(f[j], j, stop, n, T)
    BY <2>1, <2>4
  <2> HIDE DEF Wrong
  <2>6. PICK a \in Walks(b, n, m) : a = f[j]
    BY <1>1, <2>4
  <2>7. PICK c : c = f[k]
    OBVIOUS
  <2>8. a.walked \subseteq 0 .. n - 1 /\ c.walked \subseteq 0 .. n - 1 /\ True(c.reader)
    BY <1>4, <1>5, <2>4, <2>6, <2>7
  <2>9. CASE a.stack = <<>>
    <3>1. c = a
      BY <1>1, <2>4, <2>6, <2>7, <2>9
    <3>2. OnTheWay(a, k, stop, n, T)
      BY <2>5, <2>6, <2>9 DEF OnTheWay
    <3> QED
      BY <2>2, <2>7, <3>1, <3>2
  <2>10. CASE a.stack # <<>>
    <3>1. c = ReplayStep(p, stop, n, a)
      BY <1>1, <2>4, <2>6, <2>7, <2>10
    <3>2. Tidy(a.stack, n, T)
      BY <2>5, <2>6 DEF OnTheWay
    <3>3. Follows(a, c, stop, n, T)
      BY <2>8, <2>10, <3>1, <3>2, StepFollows
    <3>4. OnTheWay(a, j, stop, n, T)
      BY <2>5, <2>6
    <3>5. OnTheWay(c, j + 1, stop, n, T)
      BY <2>8, <2>10, <3>3, <3>4, FollowsOnTheWay
    <3> QED
      BY <2>2, <2>4, <2>7, <3>5
  <2> QED
    BY <2>9, <2>10
<1>8. OnTheWay(f[n], n, stop, n, T)
  <2>1. n \in Nat /\ n <= n
    OBVIOUS
  <2> QED
    BY <1>7, <2>1
<1>9. n \in 0 .. n
  OBVIOUS
<1>10. PICK s \in Seq(Items(n)) : s = f[n].stack
  BY <1>5, <1>9
<1>11. s = <<>>
  <2> SUFFICES ASSUME s # <<>> PROVE FALSE
    OBVIOUS
  <2>1. PICK e : e = Last(s)
    OBVIOUS
  <2>2. e \in Items(n) /\ Under(e.node, n) \subseteq Cover(s, n)
    <3>1. Tidy(s, n, T)
      BY <1>8, <1>10 DEF OnTheWay
    <3> QED
      BY <2>1, <3>1, PopTidy
  <2>3. PICK x \in 0 .. n - 1 : x = e.node
    BY <2>2 DEF Items
  <2>4. x \in Under(x, n)
    <3>1. x \in Nat
      OBVIOUS
    <3>2. PICK k \in Nat \ {0} : k = span[x]
      BY <3>1, SpanBounds
    <3>3. x - k < x /\ x < x + k
      BY <3>1
    <3> QED
      BY <3>2, <3>3 DEF Under
  <2>5. PICK A : A = Cover(s, n)
    OBVIOUS
  <2>6. A \in SUBSET (0 .. n - 1) /\ x \in A
    BY <2>2, <2>3, <2>4, <2>5 DEF Cover
  <2>7. Cardinality(A) \in Nat /\ Cardinality(A) >= 1
    <3>1. PICK B : B = {}
      OBVIOUS
    <3>2. B \in SUBSET A /\ x \notin B
      BY <3>1
    <3>3. Cardinality(A) \in Nat /\ Cardinality(B) \in Nat /\ Cardinality(B) + 1 <= Cardinality(A)
      BY <2>6, <3>2, CoverShrinks
    <3> QED
      BY <3>3
  <2>8. Cardinality(A) + n <= n
    BY <1>8, <1>10, <2>5 DEF OnTheWay
  <2> QED
    BY <2>7, <2>8
<1>12. Cover(s, n) = {}
  <2>1. Len(s) = 0
    BY <1>11
  <2> QED
    BY <2>1 DEF Cover
<1> QED
  BY <1>4, <1>8, <1>10, <1>11, <1>12 DEF OnTheWay, Ended, WalksWide

\* A client that reads a series of timestamps has read timestamps.
LEMMA TimestampsStay ==
  ASSUME NEW n \in Nat, NEW m \in Nat, NEW p, p.timestamps \in Seq(Nat), Len(p.timestamps) = m,
         NEW b, NEW r \in Readers(b, n, m), NEW nodes \in Seq(0 .. n - 1)
  PROVE  timestamps(r, p, nodes) \in Readers(b, n, m)
<1>1. PICK V : V = Readers(b, n, m)
  OBVIOUS
<1>2. PICK l \in Nat : l = Len(nodes)
  OBVIOUS
<1>3. \A k \in 1 .. l : nodes[k] \in 0 .. n - 1
  BY <1>2, ElementOfSeq
<1> DEFINE G == [c \in V \X (1 .. l) |-> timestamp(c[1], p, nodes[c[2]])]
<1>4. \A a \in V, k \in 1 .. l : timestamp(a, p, nodes[k]) \in V
  BY <1>1, <1>3, TimestampIs
<1>5. \A a \in V, k \in 1 .. l : G[<<a, k>>] = timestamp(a, p, nodes[k])
  OBVIOUS
<1>6. G \in [V \X (1 .. l) -> V]
  BY <1>4
<1> HIDE DEF G
<1>7. PICK g \in [0 .. l -> V] : Looped(V, r, G, l, g)
  <2>1. PICK H : H = G /\ H \in [V \X (1 .. l) -> V]
    BY <1>6
  <2>2. r \in V
    BY <1>1
  <2>3. \E f \in [0 .. l -> V] : Looped(V, r, H, l, f)
    BY <2>1, <2>2, LoopDefined
  <2> QED
    BY <2>1, <2>3
<1> DEFINE Step(f, k) == IF k = 0 THEN r ELSE timestamp(f[k - 1], p, nodes[k])
           d == CHOOSE f : f = [k \in 0 .. l |-> Step(f, k)]
<1>8. \A k \in 0 .. l : g[k] = Step(g, k)
  <2> TAKE k \in 0 .. l
  <2>1. g[k] = IF k = 0 THEN r ELSE G[<<g[k - 1], k>>]
    BY <1>7 DEF Looped
  <2>2. k # 0 => k \in 1 .. l /\ g[k - 1] \in V
    OBVIOUS
  <2> QED
    BY <1>5, <2>1, <2>2
<1> HIDE DEF Step
<1>9. g = [k \in 0 .. l |-> Step(g, k)]
  BY <1>8
<1>10. d = [k \in 0 .. l |-> Step(d, k)]
  BY <1>9, Zenon
<1>11. timestamps(r, p, nodes) = d[l]
  BY <1>2, Zenon DEF timestamps, Step
<1> HIDE DEF d
<1>12. \A k \in 0 .. l : d[k] = Step(d, k)
  BY <1>10, Zenon
<1> DEFINE Wrong == {k \in Nat : k <= l /\ d[k] \notin V}
<1>13. ASSUME Wrong # {} PROVE FALSE
  <2>1. PICK k \in Wrong : \A z \in Nat : z < k => z \notin Wrong
    <3>1. Wrong \in SUBSET Nat
      OBVIOUS
    <3> HIDE DEF Wrong
    <3> QED
      BY <1>13, <3>1, LeastElement
  <2>2. k \in 0 .. l /\ d[k] \notin V
    OBVIOUS
  <2>3. k # 0
    BY <1>1, <1>12, <2>2 DEF Step
  <2>4. k - 1 \in Nat /\ k - 1 < k /\ k - 1 <= l /\ k \in 1 .. l
    BY <2>2, <2>3
  <2>5. d[k - 1] \in V
    BY <2>1, <2>4
  <2> QED
    BY <1>4, <1>12, <2>2, <2>3, <2>4, <2>5 DEF Step
<1> QED
  <2>1. l \in Nat /\ l <= l
    OBVIOUS
  <2> QED
    BY <1>1, <1>11, <1>13, <2>1

\* The answer to a walk without a stopping position, or to any other one: timestamps.
LEMMA AnswerStamps ==
  ASSUME N \in Nat \ {0}, InOrder(log), NEW stop
  PROVE  traverse_distinguished(N, stop).timestamps \in Seq(Nat)
<1>1. PICK dist : dist = find_distinguished_nodes(N)
  OBVIOUS
<1>2. PICK recent : recent = {x \in dist : Cardinality({y \in dist : y > x}) < MaxResponse}
  OBVIOUS
<1>3. PICK f \in [0 .. N - 1 -> Seq(0 .. N - 1)] : WalkRight(stop, dist, recent, N) = f[root(N)]
  BY WalkRightIs
<1>4. root(N) \in 0 .. N - 1
  BY RootIn
<1>5. PICK nodes \in Seq(0 .. N - 1) : nodes = WalkRight(stop, dist, recent, N)
  BY <1>3, <1>4
<1>6. WalkRight(stop, find_distinguished_nodes(N),
                {x \in find_distinguished_nodes(N) :
                   Cardinality({y \in find_distinguished_nodes(N) : y > x}) < MaxResponse}, N) = nodes
  BY <1>1, <1>2, <1>5
<1>7. PICK q : /\ q \in Seq(Nat) /\ ToSet(q) \subseteq 0 .. N - 1
               /\ Plain(traverse_distinguished(N, stop), q)
  BY <1>6, WalkAnswer
<1>8. PICK p : p = traverse_distinguished(N, stop)
  OBVIOUS
<1>9. Plain(p, q)
  BY <1>7, <1>8
<1>10. p.timestamps \in Seq(Nat)
  BY <1>7, <1>9, PlainStamps
<1> QED
  BY <1>8, <1>10

\* The frontier is a list of entries.
LEMMA FrontierEntries ==
  ASSUME NEW n \in Nat \ {0}
  PROVE  get_frontier(n) \in Seq(0 .. n - 1)
  BY FrontierRises

\* What a replay walked that read the truth.
LEMMA TrueReplay ==
  ASSUME NEW n \in Nat \ {0}, NEW m \in Nat, NEW p, p.timestamps \in Seq(Nat), Len(p.timestamps) = m,
         NEW stop, NEW b, NEW r \in Readers(b, n, m), NEW T \in Nat, RMW \in Nat \ {0},
         HeadOf(log, n, T), Len(log) \in Nat, True(ReplayRight(r, p, T, stop, n).reader)
  PROVE  WalksWide(ReplayRight(r, p, T, stop, n).walked, stop, n, T)
<1>1. PICK f : Replays(f, b, m, r, p, T, stop, n)
  BY ReplayDefined
<1>2. /\ f \in [0 .. n -> Walks(b, n, m)] /\ Walking(f, r, p, T, stop, n)
      /\ ReplayRight(r, p, T, stop, n) = f[n]
  BY <1>1 DEF Replays, Strides
<1>3. True(f[n].reader)
  BY <1>2
<1>4. Ended(f, stop, n, T)
  BY <1>2, <1>3, WalkEnds
<1> QED
  BY <1>2, <1>4 DEF Ended

\* A client starts with a reader that has read nothing but timestamps.
LEMMA FrontierReader ==
  ASSUME NEW n \in Nat \ {0}, NEW m \in Nat, NEW p, p.timestamps \in Seq(Nat), Len(p.timestamps) = m
  PROVE  ReadFrontier(p, n, <<>>) \in Readers(NewReader(<<>>), n, m)
<1>1. PICK b : b = NewReader(<<>>)
  OBVIOUS
<1>2. b \in Readers(b, n, m)
  <2>1. <<>> \in Stamps(n)
    <3>1. PICK D : D = {}
      OBVIOUS
    <3>2. <<>> \in [D -> Nat]
      BY <3>1
    <3>3. D \in SUBSET (0 .. n - 1)
      BY <3>1
    <3> QED
      BY <3>2, <3>3 DEF Stamps
  <2>2. 0 \in 0 .. m
    OBVIOUS
  <2> QED
    BY <1>1, <2>1, <2>2 DEF NewReader, Readers
<1>3. PICK q \in Seq(0 .. n - 1) : q = get_frontier(n)
  BY FrontierEntries
<1>4. timestamps(b, p, q) \in Readers(b, n, m)
  BY <1>2, TimestampsStay
<1> QED
  BY <1>1, <1>3, <1>4 DEF ReadFrontier

\* Whatever walk over the whole log a client accepts went over exactly the entries whose
\* interval is wide at the client's head.
LEMMA AcceptedWalk ==
  ASSUME N \in Nat \ {0}, InOrder(log), NEW T \in Nat, log[N].ts <= T, RMW \in Nat \ {0},
         NEW p, p.timestamps \in Seq(Nat), NEW stop,
         finish(ReplayRight(ReadFrontier(p, N, <<>>), p, T, stop, N).reader, p, N)
  PROVE  WalksWide(ReplayRight(ReadFrontier(p, N, <<>>), p, T, stop, N).walked, stop, N, T)
<1>1. PICK m \in Nat : Len(p.timestamps) = m
  OBVIOUS
<1>2. PICK b, r : /\ b = NewReader(<<>>) /\ r = ReadFrontier(p, N, <<>>)
  OBVIOUS
<1>3. r \in Readers(b, N, m)
  BY <1>1, <1>2, FrontierReader
<1>4. True(ReplayRight(r, p, T, stop, N).reader)
  <2>1. PICK rd : rd = ReplayRight(r, p, T, stop, N).reader
    OBVIOUS
  <2>2. finish(rd, p, N)
    BY <1>2, <2>1
  <2>3. rd.ok /\ \A x \in DOMAIN rd.assigned_ts : rd.assigned_ts[x] = get_timestamp(x)
    BY <2>2 DEF finish
  <2> QED
    BY <2>1, <2>3 DEF True
<1>5. HeadOf(log, N, T) /\ Len(log) \in Nat
  BY DEF HeadOf, N
<1>6. WalksWide(ReplayRight(r, p, T, stop, N).walked, stop, N, T)
  BY <1>1, <1>3, <1>4, <1>5, TrueReplay
<1> QED
  BY <1>2, <1>6

\* The types of the log and of what the clients retain.
Entry == [ts : Nat, ver : Absent .. Versions - 1]
TypeInv == /\ log \in Seq(Entry) /\ life \in Lifetimes /\ head \in Nat
           /\ state \in [Clients -> [size : Nat, ts : Nat]] /\ entries \in [Clients -> Seq(Nat)]

\* Timestamps do not go back, and the head is not older than the last entry.
OrderInv == InOrder(log) /\ (N > 0 => log[N].ts <= head)

\* A head of the log of its size that was stamped before the entries after it came.
HeadInv(s) == /\ s.size <= N /\ s.ts <= head
              /\ s.size > 0 => log[s.size].ts <= s.ts
              /\ \A i \in s.size + 1 .. N : s.ts <= log[i].ts

\* What a client retains are the entries with a wide interval at its head.
Retained(s) == Ascending(Wide(log, s.size, s.ts), s.size)
ClientInv == \A c \in Clients : HeadInv(state[c]) /\ entries[c] = Retained(state[c])

IInv == TypeInv /\ OrderInv /\ ClientInv

\* The wide intervals of a head do not change as the log grows.
LEMMA WideFixed ==
  ASSUME NEW L \in Seq(Entry), NEW e \in Entry, NEW n \in 0 .. Len(L), NEW ts
  PROVE  Wide(Append(L, e), n, ts) = Wide(L, n, ts)
<1>1. PICK M : M = Append(L, e)
  OBVIOUS
<1>2. n \in Nat /\ n <= Len(L) /\ Len(L) \in Nat
  OBVIOUS
<1>3. \A i \in 1 .. Len(L) : M[i] = L[i]
  BY <1>1
<1>4. ASSUME NEW x \in 0 .. n - 1
      PROVE  After(M, x, n, ts) = After(L, x, n, ts) /\ Before(M, x) = Before(L, x)
  <2>1. x \in Nat /\ x < n
    BY <1>2
  <2>2. PICK s \in Nat \ {0} : s = span[x]
    BY <2>1, SpanBounds
  <2>3. x + s < n => x + s + 1 \in 1 .. Len(L)
    BY <1>2, <2>1
  <2>4. ~(x - s < 0) => x - s + 1 \in 1 .. Len(L)
    BY <1>2, <2>1
  <2> QED
    BY <1>3, <2>2, <2>3, <2>4 DEF After, Before
<1> QED
  BY <1>1, <1>4 DEF Wide, IsWide

\* The first state.
LEMMA InitInv ==
  Init => IInv
<1> SUFFICES ASSUME Init PROVE IInv
  OBVIOUS
<1>1. log = <<>> /\ life \in Lifetimes /\ head = 0
  BY DEF Init, InitTree
<1>2. state = [c \in Clients |-> [size |-> 0, ts |-> 0]] /\ entries = [c \in Clients |-> <<>>]
  BY DEF Init
<1>3. N = 0 /\ Len(log) = 0
  BY <1>1 DEF N
<1>4. TypeInv
  BY <1>1, <1>2 DEF TypeInv
<1>5. OrderInv
  BY <1>1, <1>3 DEF OrderInv, InOrder
<1>6. ASSUME NEW c \in Clients PROVE HeadInv(state[c]) /\ entries[c] = Retained(state[c])
  <2>1. state[c].size = 0 /\ state[c].ts = 0 /\ entries[c] = <<>>
    BY <1>2
  <2>2. HeadInv(state[c])
    BY <1>1, <1>3, <2>1 DEF HeadInv
  <2>3. PICK S : S = Wide(log, state[c].size, state[c].ts)
    OBVIOUS
  <2>4. Ascending(S, 0) = <<>>
    <3>1. PICK q : q = Ascending(S, 0)
      OBVIOUS
    <3>2. Ascends(q, {x \in 0 .. 0 - 1 : x \in S})
      BY <3>1, AscendingIs
    <3>3. Len(q) = 0 /\ q \in Seq(Nat)
      <4>1. q \in Seq(Nat) /\ \A i \in 1 .. Len(q) : q[i] \in {x \in 0 .. 0 - 1 : x \in S}
        BY <3>2 DEF Ascends
      <4>2. \A i \in 1 .. Len(q) : FALSE
        BY <4>1
      <4>3. PICK l \in Nat : l = Len(q)
        BY <4>1
      <4>4. l # 0 => 1 \in 1 .. l
        BY <4>3
      <4> QED
        BY <4>1, <4>2, <4>3, <4>4
    <3> QED
      BY <3>1, <3>3
  <2> QED
    BY <2>1, <2>2, <2>3, <2>4 DEF Retained
<1> QED
  BY <1>4, <1>5, <1>6 DEF IInv, ClientInv

\* A new entry.
LEMMA LogGrowsInv ==
  IInv /\ LogGrows => IInv'
<1> SUFFICES ASSUME IInv, LogGrows PROVE IInv'
  OBVIOUS
<1>1. PICK ts \in Epoch .. Epoch + MaxTime, ver \in Absent .. Versions - 1 : apply_batch(ts, ver)
  BY DEF LogGrows, AnyBatch
<1>2. ts \in Nat
  <2>1. RMW \in Nat /\ life \in Nat /\ MaxTime \in Nat
    BY WindowAssumption DEF IInv, TypeInv
  <2> QED
    BY <2>1 DEF Epoch
<1>3. PICK e \in Entry : e = [ts |-> ts, ver |-> ver] /\ e.ts = ts
  <2>1. PICK e : e = [ts |-> ts, ver |-> ver]
    OBVIOUS
  <2>2. e \in Entry /\ e.ts = ts
    BY <1>2, <2>1 DEF Entry
  <2> QED
    BY <2>1, <2>2
<1>4. /\ log' = Append(log, e) /\ life' = life /\ UNCHANGED <<state, entries>>
      /\ log # <<>> => ts >= Last(log).ts
  BY <1>1, <1>3 DEF apply_batch, LogGrows
<1>5. log \in Seq(Entry) /\ head \in Nat /\ life \in Lifetimes
  BY DEF IInv, TypeInv
<1>6. PICK n \in Nat : n = Len(log) /\ N = n
  BY <1>5 DEF N
<1>7. log' \in Seq(Entry) /\ Len(log') = n + 1 /\ N' = n + 1 /\ log'[n + 1] = e /\ \A i \in 1 .. n : log'[i] = log[i]
  BY <1>4, <1>5, <1>6 DEF N
<1>8. head' = ts /\ ts >= head
  <2>1. Last(log') = e
    BY <1>7 DEF Last
  <2> QED
    BY <1>3, <2>1 DEF LogGrows
<1>9. \A i \in 1 .. n : log[i].ts \in Nat /\ log[i].ts <= ts
  <2> SUFFICES ASSUME NEW i \in 1 .. n PROVE log[i].ts \in Nat /\ log[i].ts <= ts
    OBVIOUS
  <2>1. n > 0 /\ n \in 1 .. n /\ i <= n
    BY <1>6
  <2>2. log[i].ts \in Nat /\ log[n].ts \in Nat /\ log[i].ts <= log[n].ts /\ log[n].ts <= head
    BY <1>6, <2>1 DEF IInv, OrderInv, InOrder
  <2> QED
    BY <1>2, <1>5, <1>8, <2>2
<1>10. TypeInv'
  BY <1>2, <1>4, <1>7, <1>8 DEF IInv, TypeInv
<1>11. OrderInv'
  <2>1. \A i \in 1 .. n + 1 : i \in 1 .. n \/ i = n + 1
    BY <1>6
  <2>2. \A i \in 1 .. n + 1 : log'[i].ts \in Nat /\ log'[i].ts <= ts
    BY <1>2, <1>3, <1>7, <1>9, <2>1
  <2>3. ASSUME NEW i \in 1 .. n + 1, NEW j \in 1 .. n + 1, i <= j PROVE log'[i].ts <= log'[j].ts
    <3>1. CASE j = n + 1
      BY <1>3, <1>7, <2>2, <3>1
    <3>2. CASE j \in 1 .. n
      <4>1. i \in 1 .. n
        BY <1>6, <2>3, <3>2
      <4> QED
        BY <1>6, <1>7, <2>3, <3>2, <4>1 DEF IInv, OrderInv, InOrder
    <3> QED
      BY <2>1, <3>1, <3>2
  <2>4. InOrder(log')
    BY <1>7, <2>2, <2>3 DEF InOrder
  <2>5. N' = n + 1 /\ head' = ts
    BY <1>3, <1>7, <1>8 DEF N
  <2>6. n + 1 > 0 /\ log'[n + 1].ts <= ts
    BY <1>2, <1>3, <1>6, <1>7
  <2> QED
    BY <2>4, <2>5, <2>6 DEF OrderInv, InOrder
<1>12. ASSUME NEW c \in Clients
       PROVE  HeadInv(state[c])' /\ entries'[c] = Retained(state[c])'
  <2>1. PICK s \in [size : Nat, ts : Nat] : s = state[c] /\ s = state'[c]
    BY <1>4 DEF IInv, TypeInv
  <2>2. PICK z \in Nat, t \in Nat : z = s.size /\ t = s.ts
    OBVIOUS
  <2>3. /\ z <= n /\ t <= head /\ (z > 0 => log[z].ts <= t) /\ \A i \in z + 1 .. n : t <= log[i].ts
    BY <1>6, <2>1, <2>2 DEF IInv, ClientInv, HeadInv
  <2>4. entries[c] = Ascending(Wide(log, z, t), z)
    BY <2>1, <2>2 DEF IInv, ClientInv, Retained
  <2>5. Wide(log', z, t) = Wide(log, z, t)
    BY <1>4, <1>5, <1>6, <2>3, WideFixed
  <2>6. entries'[c] = Ascending(Wide(log', z, t), z)
    BY <1>4, <2>4, <2>5
  <2>7. z <= n + 1 /\ t <= head'
    BY <1>2, <1>5, <1>8, <2>3
  <2>8. z > 0 => log'[z].ts <= t
    BY <1>7, <2>3
  <2>9. \A i \in z + 1 .. n + 1 : t <= log'[i].ts
    <3> TAKE i \in z + 1 .. n + 1
    <3>1. CASE i = n + 1
      BY <1>3, <1>7, <1>8, <2>7, <3>1
    <3>2. CASE i # n + 1
      <4>1. i \in z + 1 .. n /\ i \in 1 .. n
        BY <3>2
      <4> QED
        BY <1>7, <2>3, <4>1
    <3> QED
      BY <3>1, <3>2
  <2> QED
    BY <1>7, <2>1, <2>2, <2>6, <2>7, <2>8, <2>9 DEF HeadInv, Retained
<1> QED
  BY <1>10, <1>11, <1>12 DEF IInv, ClientInv

\* A head stamped anew.
LEMMA RefreshInv ==
  ASSUME IInv, NEW now \in Epoch .. Epoch + MaxTime, refresh_head_timestamp(now)
  PROVE  IInv'
<1>1. now \in Nat
  <2>1. RMW \in Nat /\ life \in Nat /\ MaxTime \in Nat
    BY WindowAssumption DEF IInv, TypeInv
  <2> QED
    BY <2>1 DEF Epoch
<1>2. /\ log' = log /\ life' = life /\ UNCHANGED <<state, entries>> /\ head' = now /\ now > head
      /\ N' = N
  BY DEF refresh_head_timestamp, tree, N
<1>3. TypeInv'
  BY <1>1, <1>2 DEF IInv, TypeInv
<1>4. OrderInv'
  <2>1. InOrder(log')
    BY <1>2 DEF IInv, OrderInv
  <2>2. N \in Nat /\ head \in Nat
    BY DEF IInv, TypeInv, N
  <2>3. N > 0 => log[N].ts \in Nat /\ log[N].ts <= head
    BY <2>2 DEF IInv, OrderInv, InOrder, N
  <2> QED
    BY <1>1, <1>2, <2>1, <2>2, <2>3 DEF OrderInv
<1>5. ASSUME NEW c \in Clients
      PROVE  HeadInv(state[c])' /\ entries'[c] = Retained(state[c])'
  <2>1. PICK s \in [size : Nat, ts : Nat] : s = state[c] /\ s = state'[c]
    BY <1>2 DEF IInv, TypeInv
  <2>2. HeadInv(s) /\ entries[c] = Retained(s)
    BY <2>1 DEF IInv, ClientInv
  <2>3. s.ts \in Nat /\ head \in Nat
    BY DEF IInv, TypeInv
  <2>4. s.ts <= head'
    BY <1>1, <1>2, <2>2, <2>3 DEF HeadInv
  <2>5. HeadInv(s)'
    BY <1>2, <2>2, <2>4 DEF HeadInv
  <2>6. entries'[c] = Retained(s)'
    BY <1>2, <2>2 DEF Retained
  <2> QED
    BY <2>1, <2>5, <2>6
<1> QED
  BY <1>3, <1>4, <1>5 DEF IInv, ClientInv

\* A walk that a client accepts.
LEMMA DistinguishedInv ==
  ASSUME IInv, NEW d \in Clients, distinguished(d)
  PROVE  IInv'
<1>1. /\ log \in Seq(Entry) /\ head \in Nat /\ N \in Nat \ {0} /\ InOrder(log) /\ Len(log) = N
      /\ log[N].ts <= head /\ log[N].ts \in Nat
  <2>1. log \in Seq(Entry) /\ head \in Nat /\ InOrder(log)
    BY DEF IInv, TypeInv, OrderInv
  <2>2. PICK n \in Nat : n = Len(log) /\ n = N
    BY <2>1 DEF N
  <2>3. n # 0
    BY <2>2 DEF distinguished
  <2>4. n \in 1 .. Len(log)
    BY <2>2, <2>3
  <2>5. log[n].ts \in Nat
    BY <2>1, <2>4 DEF InOrder
  <2>6. log[n].ts <= head
    BY <2>2, <2>3 DEF IInv, OrderInv
  <2> QED
    BY <2>1, <2>2, <2>3, <2>5, <2>6
<1>2. /\ UNCHANGED <<log, life, head>> /\ N' = N
      /\ state' = [state EXCEPT ![d] = FullTreeHead(d)]
      /\ entries' = [entries EXCEPT ![d] = Ascending(verify_distinguished(d, None).walked, N)]
      /\ verify_distinguished(d, None).ok
  BY DEF distinguished, tree, N, RetainedRoots
<1>3. state \in [Clients -> [size : Nat, ts : Nat]] /\ entries \in [Clients -> Seq(Nat)]
  BY DEF IInv, TypeInv
<1>4. PICK h \in [size : Nat, ts : Nat] : h = FullTreeHead(d)
  BY <1>1, <1>3 DEF FullTreeHead
<1>5. h.size = N /\ h.ts <= head /\ log[N].ts <= h.ts
  <2>1. CASE state[d].size = N
    <3>1. h = state[d]
      BY <1>4, <2>1 DEF FullTreeHead
    <3> QED
      BY <1>1, <2>1, <3>1 DEF IInv, ClientInv, HeadInv
  <2>2. CASE state[d].size # N
    BY <1>1, <1>4, <2>2 DEF FullTreeHead
  <2> QED
    BY <2>1, <2>2
<1>6. PICK T \in Nat : T = h.ts
  OBVIOUS
<1>7. PICK p : p = traverse_distinguished(N, None)
  OBVIOUS
<1>8. PICK w : w = verify_distinguished(d, None).walked
  OBVIOUS
<1>9. w = Wide(log, N, T)
  <2>1. p.timestamps \in Seq(Nat)
    BY <1>1, <1>7, AnswerStamps
  <2>2. PICK a : a = ReplayRight(ReadFrontier(p, N, <<>>), p, T, None, N)
    OBVIOUS
  <2>3. verify_distinguished(d, None) = [ok |-> finish(a.reader, p, N), walked |-> a.walked]
    BY <1>4, <1>6, <1>7, <2>2 DEF verify_distinguished
  <2>4. finish(ReplayRight(ReadFrontier(p, N, <<>>), p, T, None, N).reader, p, N) /\ w = a.walked
    BY <1>2, <1>8, <2>2, <2>3
  <2>5. log[N].ts <= T /\ RMW \in Nat \ {0}
    BY <1>5, <1>6, WindowAssumption
  <2>6. PICK none : none = None
    OBVIOUS
  <2>7. WalksWide(ReplayRight(ReadFrontier(p, N, <<>>), p, T, None, N).walked, None, N, T)
    BY <1>1, <2>1, <2>4, <2>5, AcceptedWalk
  <2> QED
    BY <2>2, <2>4, <2>7 DEF WalksWide
<1>10. PICK q : q = Ascending(w, N)
  OBVIOUS
<1>11. q \in Seq(Nat) /\ q = Retained(h)
  <2>1. N \in Nat
    BY <1>1
  <2>2. Ascends(q, {x \in 0 .. N - 1 : x \in w})
    BY <1>10, <2>1, AscendingIs
  <2> QED
    BY <1>5, <1>6, <1>9, <1>10, <2>2 DEF Ascends, Retained
<1>12. state' = [state EXCEPT ![d] = h] /\ entries' = [entries EXCEPT ![d] = q]
  BY <1>2, <1>4, <1>8, <1>10
<1>13. TypeInv'
  BY <1>2, <1>3, <1>11, <1>12 DEF IInv, TypeInv
<1>14. OrderInv'
  BY <1>2 DEF IInv, OrderInv
<1>15. HeadInv(h)
  <2>1. \A i \in N + 1 .. N : FALSE
    BY <1>1
  <2> QED
    BY <1>1, <1>5, <2>1 DEF HeadInv
<1>16. ASSUME NEW s PROVE HeadInv(s) => HeadInv(s)' /\ Retained(s)' = Retained(s)
  BY <1>2 DEF HeadInv, Retained
<1>17. ASSUME NEW c \in Clients
       PROVE  HeadInv(state[c])' /\ entries'[c] = Retained(state[c])'
  <2>1. CASE c = d
    <3>1. state'[c] = h /\ entries'[c] = q
      BY <1>3, <1>12, <2>1
    <3> QED
      BY <1>2, <1>11, <1>15, <3>1 DEF HeadInv, Retained
  <2>2. CASE c # d
    <3>1. state'[c] = state[c] /\ entries'[c] = entries[c]
      BY <1>3, <1>12, <2>2
    <3>2. HeadInv(state[c]) /\ entries[c] = Retained(state[c])
      BY DEF IInv, ClientInv
    <3> QED
      BY <1>2, <3>1, <3>2 DEF HeadInv, Retained
  <2> QED
    BY <2>1, <2>2
<1> QED
  BY <1>13, <1>14, <1>17 DEF IInv, ClientInv

\* The invariant holds all along.
THEOREM Invariance ==
  Spec => []IInv
<1>1. Init => IInv
  BY InitInv
<1>2. IInv /\ [Next]_vars => IInv'
  <2> SUFFICES ASSUME IInv, [Next]_vars PROVE IInv'
    OBVIOUS
  <2>1. CASE LogGrows
    BY <2>1, LogGrowsInv
  <2>2. CASE \E now \in Epoch .. Epoch + MaxTime : refresh_head_timestamp(now)
    BY <2>2, RefreshInv
  <2>3. CASE \E c \in Clients : distinguished(c)
    BY <2>3, DistinguishedInv
  <2>4. CASE IssueCredential \/ UNCHANGED vars
    <3>1. UNCHANGED <<log, life, head, state, entries>> /\ N' = N
      BY <2>4 DEF IssueCredential, vars, tree, N
    <3>2. TypeInv' /\ OrderInv'
      BY <3>1 DEF IInv, TypeInv, OrderInv
    <3>3. ClientInv'
      BY <3>1 DEF IInv, ClientInv, HeadInv, Retained
    <3> QED
      BY <3>2, <3>3 DEF IInv
  <2> QED
    BY <2>1, <2>2, <2>3, <2>4 DEF Next
<1> QED
  BY <1>1, <1>2, PTL DEF Spec

\* A head of the log of its size, stamped before the entries after it came.
Past(n, ts) == /\ HeadOf(log, n, ts) /\ Len(log) \in Nat
               /\ \A i \in n + 1 .. Len(log) : ts <= log[i].ts

\* The later of two heads.
Later(n, t, k, u) == n < k \/ (n = k /\ t <= u)

\* A later head has a later timestamp, and the interval after an entry only grows.
LEMMA AfterGrows ==
  ASSUME NEW n, NEW t, Past(n, t), NEW k, NEW u, Past(k, u), Later(n, t, k, u),
         NEW x \in 0 .. n - 1
  PROVE  /\ n \in Nat /\ k \in Nat /\ n <= k
         /\ After(log, x, n, t) \in Nat /\ After(log, x, k, u) \in Nat /\ Before(log, x) \in Nat
         /\ After(log, x, n, t) <= After(log, x, k, u)
         /\ x + span[x] < n => After(log, x, n, t) = After(log, x, k, u)
<1>1. /\ n \in Nat /\ k \in Nat /\ k <= Len(log) /\ n <= Len(log) /\ t \in Nat /\ u \in Nat
      /\ Len(log) \in Nat /\ InOrder(log)
  BY DEF Past, HeadOf
<1>2. n <= k /\ x \in 0 .. k - 1 /\ x \in Nat
  BY <1>1 DEF Later
<1>3. /\ After(log, x, n, t) \in Nat /\ After(log, x, k, u) \in Nat /\ Before(log, x) \in Nat
  BY <1>1, <1>2, AroundIn DEF Past
<1>4. PICK z \in Nat : z = x + span[x]
  <2>1. PICK s \in Nat : s = span[x]
    BY <1>2, SpanBounds
  <2>2. x + s \in Nat
    BY <1>2
  <2> QED
    BY <2>1, <2>2
<1>5. CASE z < n
  <2>1. z < k
    BY <1>1, <1>2, <1>5
  <2>2. After(log, x, n, t) = log[z + 1].ts /\ After(log, x, k, u) = log[z + 1].ts
    BY <1>4, <1>5, <2>1 DEF After
  <2> QED
    BY <1>1, <1>2, <1>3, <2>2
<1>6. CASE ~(z < n)
  <2>1. After(log, x, n, t) = t
    BY <1>4, <1>6 DEF After
  <2>2. t <= After(log, x, k, u)
    <3>1. CASE z < k
      <4>1. z + 1 \in n + 1 .. Len(log)
        BY <1>1, <1>6, <3>1
      <4>2. t <= log[z + 1].ts
        BY <4>1 DEF Past
      <4> QED
        BY <1>4, <3>1, <4>2 DEF After
    <3>2. CASE ~(z < k)
      <4>1. After(log, x, k, u) = u
        BY <1>4, <3>2 DEF After
      <4>2. t <= u
        <5>1. CASE n = k
          BY <1>1, <5>1 DEF Later
        <5>2. CASE n < k
          <6>1. k \in n + 1 .. Len(log) /\ k > 0 /\ k \in 1 .. Len(log)
            BY <1>1, <5>2
          <6>2. t <= log[k].ts /\ log[k].ts <= u /\ log[k].ts \in Nat
            BY <1>1, <6>1 DEF Past, HeadOf, InOrder
          <6> QED
            BY <1>1, <6>2
        <5> QED
          BY <1>1, <1>2, <5>1, <5>2
      <4> QED
        BY <4>1, <4>2
    <3> QED
      BY <3>1, <3>2
  <2> QED
    BY <1>1, <1>2, <1>3, <1>4, <1>6, <2>1, <2>2
<1> QED
  BY <1>5, <1>6

\* What is distinguished for a head stays so, and what becomes distinguished later lies to
\* the right of it.
LEMMA WideGrows ==
  ASSUME NEW n, NEW t, Past(n, t), NEW k, NEW u, Past(k, u), Later(n, t, k, u), RMW \in Nat \ {0}
  PROVE  /\ Wide(log, n, t) \subseteq Wide(log, k, u)
         /\ \A x \in Wide(log, n, t), y \in Wide(log, k, u) \ Wide(log, n, t) : x < y
<1>1. n \in Nat /\ k \in Nat /\ n <= k
  BY DEF Past, HeadOf, Later
<1>2. ASSUME NEW x \in 0 .. n - 1, IsWide(log, x, n, t) PROVE x \in 0 .. k - 1 /\ IsWide(log, x, k, u)
  <2>1. PICK a \in Nat, b \in Nat, c \in Nat :
           a = After(log, x, n, t) /\ b = After(log, x, k, u) /\ c = Before(log, x)
    BY AfterGrows
  <2>2. a <= b
    BY <2>1, AfterGrows
  <2>3. saturating_sub(a, c) >= RMW
    BY <1>2, <2>1 DEF IsWide
  <2>4. saturating_sub(b, c) >= RMW
    BY <2>2, <2>3 DEF saturating_sub
  <2> QED
    BY <1>1, <2>1, <2>4 DEF IsWide
<1>3. ASSUME NEW x \in 0 .. n - 1, IsWide(log, x, n, t), NEW y \in 0 .. k - 1,
             IsWide(log, y, k, u), ~(y \in 0 .. n - 1 /\ IsWide(log, y, n, t)), ~(x < y)
      PROVE  FALSE
  <2>1. y \in 0 .. n - 1 /\ y \in Nat /\ x \in Nat /\ y <= x /\ y # x
    BY <1>1, <1>2, <1>3
  <2>2. PICK s \in Nat \ {0} : s = span[y]
    BY <2>1, SpanBounds
  <2>3. CASE y + s < n
    <3>1. After(log, y, n, t) = After(log, y, k, u)
      BY <2>1, <2>2, <2>3, AfterGrows
    <3> QED
      BY <1>3, <2>1, <3>1 DEF IsWide
  <2>4. CASE ~(y + s < n)
    <3>1. y - s < x /\ x < y + s
      BY <1>1, <2>1, <2>4
    <3>2. x \in Under(y, n)
      BY <2>2, <3>1 DEF Under
    <3>3. IsWide(log, y, n, t)
      BY <1>3, <2>1, <3>2, NarrowBelow DEF Past
    <3> QED
      BY <1>3, <2>1, <3>3
  <2> QED
    BY <2>3, <2>4
<1> QED
  BY <1>2, <1>3 DEF Wide

\* Every client's head is one of the past.
LEMMA HeadPast ==
  ASSUME IInv, NEW c \in Clients
  PROVE  /\ Past(state[c].size, state[c].ts) /\ state[c].size \in Nat
         /\ Ascends(entries[c], Wide(log, state[c].size, state[c].ts))
<1>1. PICK n \in Nat, t \in Nat : n = state[c].size /\ t = state[c].ts
  BY DEF IInv, TypeInv
<1>2. Len(log) \in Nat /\ N = Len(log)
  BY DEF IInv, TypeInv, N
<1>3. Past(n, t)
  BY <1>1, <1>2 DEF IInv, OrderInv, ClientInv, HeadInv, Past, HeadOf
<1>4. PICK W : W = Wide(log, n, t)
  OBVIOUS
<1>5. entries[c] = Ascending(W, n)
  BY <1>1, <1>4 DEF IInv, ClientInv, Retained
<1>6. Ascends(Ascending(W, n), {x \in 0 .. n - 1 : x \in W})
  BY <1>1, AscendingIs
<1>7. W = {x \in 0 .. n - 1 : x \in W}
  BY <1>4 DEF Wide
<1> QED
  BY <1>1, <1>3, <1>4, <1>5, <1>6, <1>7

\* The log's own view.
LEMMA LogPast ==
  ASSUME IInv, N # 0
  PROVE  /\ N \in Nat \ {0} /\ Past(N, log[N].ts)
         /\ find_distinguished_nodes(N) = Wide(log, N, log[N].ts)
<1>1. PICK n \in Nat : n = N /\ n = Len(log)
  BY DEF IInv, TypeInv, N
<1>2. n \in 1 .. Len(log) /\ InOrder(log) /\ n # 0
  BY <1>1 DEF IInv, OrderInv
<1>3. log[n].ts \in Nat
  BY <1>2 DEF InOrder
<1>4. \A i \in n + 1 .. n : FALSE
  BY <1>1
<1>5. Past(n, log[n].ts)
  BY <1>1, <1>2, <1>3, <1>4 DEF Past, HeadOf
<1>6. find_distinguished_nodes(n) = Wide(log, n, log[n].ts)
  BY <1>1, <1>2, WindowAssumption, DistinguishedAreWide
<1> QED
  BY <1>1, <1>2, <1>5, <1>6

\* RetainedAreDistinguished: what a client retained is distinguished for the log as soon as
\* it has grown past the client's head, at any number of entries and with any window, also
\* where the client counted an entry early because the head was stamped anew
\* (verify_distinguished against find_distinguished_nodes).
THEOREM RetainedStayDistinguished ==
  Spec => []RetainedAreDistinguished
<1>1. IInv => RetainedAreDistinguished
  <2> SUFFICES ASSUME IInv, NEW c \in Clients, state[c].size < N
               PROVE  ToSet(entries[c]) \subseteq find_distinguished_nodes(N)
    BY DEF RetainedAreDistinguished
  <2>1. PICK n, t : n = state[c].size /\ t = state[c].ts
    BY HeadPast
  <2>2. Past(n, t) /\ Ascends(entries[c], Wide(log, n, t))
    BY <2>1, HeadPast
  <2>3. N # 0
    <3>1. n \in Nat /\ n < N
      BY <2>1, HeadPast
    <3> QED
      BY <3>1
  <2>4. PICK k, u : k = N /\ u = log[N].ts /\ Past(k, u) /\ find_distinguished_nodes(N) = Wide(log, k, u)
    BY <2>3, LogPast
  <2>5. Later(n, t, k, u)
    BY <2>1, <2>4 DEF Later
  <2>6. Wide(log, n, t) \subseteq Wide(log, k, u)
    BY <2>2, <2>4, <2>5, WindowAssumption, WideGrows
  <2>7. ToSet(entries[c]) \subseteq Wide(log, n, t)
    BY <2>2 DEF Ascends, ToSet
  <2> QED
    BY <2>4, <2>6, <2>7
<1> QED
  BY <1>1, Invariance, PTL

\* r is the part of s from lo to hi.
Part(S, r, s, lo, hi) == /\ Len(r) = hi - lo + 1 /\ r \in Seq(S)
                         /\ \A i \in 1 .. hi - lo + 1 : r[i] = s[i + lo - 1]

\* SubSeq is that part of the sequence.
LEMMA SubSeqIs ==
  ASSUME NEW S, NEW s \in Seq(S), NEW lo \in 1 .. Len(s), NEW hi \in lo .. Len(s)
  PROVE  Part(S, SubSeq(s, lo, hi), s, lo, hi)
<1>1. PICK r : r = SubSeq(s, lo, hi)
  OBVIOUS
<1>2. Len(r) = hi - lo + 1
  BY <1>1
<1>3. r \in Seq(S)
  BY <1>1
<1>4. \A i \in 1 .. hi - lo + 1 : r[i] = s[i + lo - 1]
  <2> TAKE i \in 1 .. hi - lo + 1
  <2>1. r[i] = s[lo + i - 1]
    BY <1>1
  <2>2. lo + i - 1 = i + lo - 1
    OBVIOUS
  <2> QED
    BY <2>1, <2>2
<1> QED
  BY <1>1, <1>2, <1>3, <1>4 DEF Part

\* Two lists of one length with the same entries.
LEMMA SameList ==
  ASSUME NEW v \in Seq(Nat), NEW w \in Seq(Nat), Len(v) = Len(w), \A i \in 1 .. Len(v) : v[i] = w[i]
  PROVE  v = w
OBVIOUS

\* Cut to the length of a list, another one that goes on after it has what the client of the
\* shorter one is looking for.
LEMMA PrefixOverlaps ==
  ASSUME NEW a \in Seq(Nat), NEW b \in Seq(Nat), Begins(a, b), Len(b) < 2 * Len(a)
  PROVE  /\ Len(a) # 0
         /\ \E x \in 0 .. Len(a) - 1 :
              SubSeq(SubSeq(b, Len(b) - Len(a) + 1, Len(b)), 1, Len(a) - x)
                = SubSeq(SubSeq(a, Len(a) - Len(a) + 1, Len(a)), x + 1, Len(a))
<1>1. PICK n \in Nat, l \in Nat : n = Len(a) /\ l = Len(b)
  OBVIOUS
<1>2. n <= l /\ l < 2 * n /\ n # 0 /\ \A i \in 1 .. n : b[i] = a[i]
  BY <1>1 DEF Begins
<1>3. PICK x \in 0 .. n - 1 : x = l - n
  <2>1. l - n \in 0 .. n - 1
    BY <1>1, <1>2
  <2> QED
    BY <2>1
<1>4. PICK r : r = SubSeq(b, l - n + 1, l)
  OBVIOUS
<1>5. PICK q : q = SubSeq(a, n - n + 1, n)
  OBVIOUS
<1>6. Part(Nat, r, b, l - n + 1, l)
  <2>1. l - n + 1 \in 1 .. Len(b) /\ l \in l - n + 1 .. Len(b)
    BY <1>1, <1>2
  <2> QED
    BY <1>4, <2>1, SubSeqIs
<1>7. Part(Nat, q, a, n - n + 1, n)
  <2>1. n - n + 1 \in 1 .. Len(a) /\ n \in n - n + 1 .. Len(a)
    BY <1>1, <1>2
  <2> QED
    BY <1>5, <2>1, SubSeqIs
<1>8. r \in Seq(Nat) /\ Len(r) = n /\ \A i \in 1 .. n : r[i] = b[i + x]
  <2>1. l - (l - n + 1) + 1 = n
    BY <1>1
  <2>2. r \in Seq(Nat) /\ Len(r) = n /\ \A i \in 1 .. n : r[i] = b[i + (l - n + 1) - 1]
    BY <1>6, <2>1 DEF Part
  <2>3. \A i \in 1 .. n : i + (l - n + 1) - 1 = i + x
    BY <1>1, <1>3
  <2> QED
    BY <2>2, <2>3
<1>9. q \in Seq(Nat) /\ Len(q) = n /\ \A i \in 1 .. n : q[i] = a[i]
  <2>1. n - (n - n + 1) + 1 = n
    BY <1>1
  <2>2. q \in Seq(Nat) /\ Len(q) = n /\ \A i \in 1 .. n : q[i] = a[i + (n - n + 1) - 1]
    BY <1>7, <2>1 DEF Part
  <2>3. \A i \in 1 .. n : i + (n - n + 1) - 1 = i
    BY <1>1
  <2> QED
    BY <2>2, <2>3
<1>10. PICK v : v = SubSeq(r, 1, n - x)
  OBVIOUS
<1>11. PICK w : w = SubSeq(q, x + 1, n)
  OBVIOUS
<1>12. Part(Nat, v, r, 1, n - x)
  <2>1. 1 \in 1 .. Len(r) /\ n - x \in 1 .. Len(r)
    BY <1>2, <1>3, <1>8
  <2> QED
    BY <1>8, <1>10, <2>1, SubSeqIs
<1>13. Part(Nat, w, q, x + 1, n)
  <2>1. x + 1 \in 1 .. Len(q) /\ n \in x + 1 .. Len(q)
    BY <1>2, <1>3, <1>9
  <2> QED
    BY <1>9, <1>11, <2>1, SubSeqIs
<1>14. v \in Seq(Nat) /\ w \in Seq(Nat) /\ Len(v) = n - x /\ Len(w) = n - x
  BY <1>1, <1>3, <1>12, <1>13 DEF Part
<1>15. \A i \in 1 .. n - x : v[i] = w[i]
  <2> TAKE i \in 1 .. n - x
  <2>1. i \in 1 .. n /\ i + x \in 1 .. n
    BY <1>3
  <2>2. v[i] = r[i]
    <3>1. i \in 1 .. (n - x) - 1 + 1 /\ i + 1 - 1 = i
      BY <1>3
    <3> QED
      BY <1>12, <3>1 DEF Part
  <2>3. w[i] = q[i + x]
    <3>1. i \in 1 .. n - (x + 1) + 1 /\ i + (x + 1) - 1 = i + x
      BY <1>3
    <3> QED
      BY <1>13, <3>1 DEF Part
  <2> QED
    BY <1>2, <1>8, <1>9, <2>1, <2>2, <2>3
<1>16. v = w
  BY <1>14, <1>15, SameList
<1> QED
  BY <1>1, <1>2, <1>3, <1>4, <1>5, <1>10, <1>11, <1>16

\* Two clients of one log find a common root.
LEMMA CommonRoot ==
  ASSUME NEW a \in Seq(Nat), NEW b \in Seq(Nat), Begins(a, b), Len(b) < 2 * Len(a)
  PROVE  check_gossiped_roots(a, b) = "ok" /\ check_gossiped_roots(b, a) = "ok"
<1>1. PICK n \in Nat, l \in Nat : n = Len(a) /\ l = Len(b) /\ n <= l
  BY DEF Begins
<1>2. /\ n # 0
      /\ \E x \in 0 .. n - 1 : SubSeq(SubSeq(b, l - n + 1, l), 1, n - x)
                                 = SubSeq(SubSeq(a, n - n + 1, n), x + 1, n)
  BY <1>1, PrefixOverlaps
<1>3. PICK r, q : r = SubSeq(b, l - n + 1, l) /\ q = SubSeq(a, n - n + 1, n)
  OBVIOUS
<1>4. Len(r) = n /\ Len(q) = n
  BY <1>1, <1>3
<1>5. PICK x \in 0 .. n - 1 : SubSeq(r, 1, n - x) = SubSeq(q, x + 1, n)
  BY <1>2, <1>3
<1>6. compare_roots(r, q) /\ compare_roots(q, r)
  BY <1>4, <1>5 DEF compare_roots
<1>7. /\ (IF Len(a) < Len(b) THEN Len(a) ELSE Len(b)) = n
      /\ (IF Len(b) < Len(a) THEN Len(b) ELSE Len(a)) = n
  BY <1>1
<1> QED
  BY <1>1, <1>2, <1>3, <1>6, <1>7 DEF check_gossiped_roots

\* Of two clients, the list of the one with the later head begins with that of the other.
LEMMA ListsBegin ==
  ASSUME IInv, NEW c \in Clients, NEW d \in Clients
  PROVE  Begins(entries[c], entries[d]) \/ Begins(entries[d], entries[c])
<1>1. ASSUME NEW n, NEW t, Past(n, t), NEW k, NEW u, Past(k, u), Later(n, t, k, u),
             NEW a, NEW b, Ascends(a, Wide(log, n, t)), Ascends(b, Wide(log, k, u))
      PROVE  Begins(a, b)
  <2>1. PICK S, R : S = Wide(log, n, t) /\ R = Wide(log, k, u)
    OBVIOUS
  <2>2. S \subseteq R /\ \A x \in S, y \in R \ S : x < y
    BY <1>1, <2>1, WindowAssumption, WideGrows
  <2>3. Len(a) <= Len(b) /\ \A i \in 1 .. Len(a) : a[i] = b[i]
    BY <1>1, <2>1, <2>2, AscendingBegins
  <2> QED
    BY <2>3 DEF Begins
<1>2. PICK n, t, k, u :
         n = state[c].size /\ t = state[c].ts /\ k = state[d].size /\ u = state[d].ts
  OBVIOUS
<1>3. PICK a, b : a = entries[c] /\ b = entries[d]
  OBVIOUS
<1>4. /\ Past(n, t) /\ Past(k, u) /\ Ascends(a, Wide(log, n, t)) /\ Ascends(b, Wide(log, k, u))
  BY <1>2, <1>3, HeadPast
<1>5. n \in Nat /\ t \in Nat /\ k \in Nat /\ u \in Nat
  BY <1>4 DEF Past, HeadOf
<1>6. Later(n, t, k, u) \/ Later(k, u, n, t)
  BY <1>2, <1>5 DEF Later
<1> QED
  BY <1>1, <1>3, <1>4, <1>6

\* Roots with the log they come from.
Marked == Nat \X {"common", "left", "right"}

\* The roots of one side: the last one is its own.
OneSided(r, side) == /\ r \in Seq(Marked) /\ Len(r) # 0
                     /\ \A i \in 1 .. Len(r) : r[i][2] = "common" \/ r[i][2] = side
                     /\ r[Len(r)][2] = side

\* The last element of a part.
LEMMA PartEnds ==
  ASSUME NEW S, NEW s \in Seq(S), NEW lo \in 1 .. Len(s), NEW hi \in lo .. Len(s)
  PROVE  SubSeq(s, lo, hi)[hi - lo + 1] = s[hi]
<1>1. PICK r : r = SubSeq(s, lo, hi)
  OBVIOUS
<1>2. Part(S, r, s, lo, hi)
  BY <1>1, SubSeqIs
<1>3. PICK k \in 1 .. hi - lo + 1 : k = hi - lo + 1 /\ k + lo - 1 = hi
  OBVIOUS
<1>4. r[k] = s[k + lo - 1]
  BY <1>2, <1>3 DEF Part
<1> QED
  BY <1>1, <1>3, <1>4

\* Roots of different logs have no overlap.
LEMMA NoOverlap ==
  ASSUME NEW n \in Nat, NEW side, NEW other, side # other, side # "common", other # "common",
         NEW r, OneSided(r, side), Len(r) = n, NEW q, OneSided(q, other), Len(q) = n,
         NEW x \in 0 .. n - 1
  PROVE  SubSeq(r, 1, n - x) # SubSeq(q, x + 1, n)
<1> SUFFICES ASSUME SubSeq(r, 1, n - x) = SubSeq(q, x + 1, n) PROVE FALSE
  OBVIOUS
<1>1. r \in Seq(Marked) /\ q \in Seq(Marked)
  BY DEF OneSided
<1>2. PICK m \in 1 .. n : m = n - x /\ m - 1 + 1 = m /\ n - (x + 1) + 1 = m
  OBVIOUS
<1>3. SubSeq(r, 1, m)[m - 1 + 1] = r[m]
  <2>1. 1 \in 1 .. Len(r) /\ m \in 1 .. Len(r)
    BY <1>2
  <2> QED
    BY <1>1, <2>1, PartEnds
<1>4. SubSeq(q, x + 1, n)[n - (x + 1) + 1] = q[n]
  <2>1. x + 1 \in 1 .. Len(q) /\ n \in x + 1 .. Len(q)
    BY <1>2
  <2> QED
    BY <1>1, <2>1, PartEnds
<1>5. r[m] = q[n]
  BY <1>2, <1>3, <1>4
<1>6. r[m][2] = "common" \/ r[m][2] = side
  BY <1>2 DEF OneSided
<1>7. q[n][2] = other
  BY DEF OneSided
<1> QED
  BY <1>5, <1>6, <1>7

\* The last n of the l roots of a list are of one side.
Recent(s, l, n, side) ==
  /\ Len(s) = l /\ OneSided(SubSeq(s, l - n + 1, l), side) /\ Len(SubSeq(s, l - n + 1, l)) = n

\* The recent roots of a list that has some since the fork.
LEMMA RecentOneSided ==
  ASSUME NEW a \in Seq(Nat), \A i, j \in 1 .. Len(a) : i < j => a[i] < a[j], NEW f \in Nat,
         \E k \in DOMAIN a : a[k] >= f, NEW n \in 1 .. Len(a), NEW side \in {"left", "right"}
  PROVE  Recent(RootsSince(a, f, side), Len(a), n, side)
<1>1. PICK l \in Nat : l = Len(a) /\ DOMAIN a = 1 .. l /\ l # 0
  <2>1. DOMAIN a = 1 .. Len(a) /\ Len(a) \in Nat
    OBVIOUS
  <2>2. Len(a) # 0
    OBVIOUS
  <2> QED
    BY <2>1, <2>2
<1>2. PICK s : s = RootsSince(a, f, side)
  OBVIOUS
<1>3. s = [k \in 1 .. l |-> IF a[k] < f THEN <<a[k], "common">> ELSE <<a[k], side>>]
  BY <1>1, <1>2 DEF RootsSince
<1>4. \A k \in 1 .. l : a[k] \in Nat
  BY <1>1
<1>5. \A k \in 1 .. l : s[k] \in Marked /\ (s[k][2] = "common" \/ s[k][2] = side)
  BY <1>3, <1>4 DEF Marked
<1>6. s \in Seq(Marked) /\ Len(s) = l
  BY <1>3, <1>5
<1>7. s[l][2] = side
  <2>1. PICK k \in 1 .. l : a[k] >= f
    BY <1>1
  <2>2. l \in 1 .. l /\ (k = l \/ k < l)
    BY <1>1
  <2>3. a[l] >= f
    BY <1>1, <1>4, <2>1, <2>2
  <2> QED
    BY <1>3, <1>4, <2>2, <2>3
<1>8. PICK lo \in 1 .. l : lo = l - n + 1 /\ l \in lo .. l /\ l - lo + 1 = n
  <2>1. n \in Nat /\ n >= 1 /\ n <= l
    BY <1>1
  <2> QED
    BY <2>1
<1>9. PICK r : r = SubSeq(s, lo, l)
  OBVIOUS
<1>10. Part(Marked, r, s, lo, l)
  BY <1>6, <1>8, <1>9, SubSeqIs
<1>11. r \in Seq(Marked) /\ Len(r) = n /\ \A i \in 1 .. n : r[i] = s[i + lo - 1]
  BY <1>8, <1>10 DEF Part
<1>12. \A i \in 1 .. n : i + lo - 1 \in 1 .. l
  BY <1>1, <1>8
<1>13. n \in 1 .. n /\ n + lo - 1 = l /\ n # 0
  BY <1>1, <1>8
<1>14. \A i \in 1 .. n : r[i][2] = "common" \/ r[i][2] = side
  BY <1>5, <1>11, <1>12
<1>15. r[n][2] = side
  BY <1>7, <1>11, <1>13
<1>16. OneSided(r, side)
  BY <1>11, <1>13, <1>14, <1>15 DEF OneSided
<1> QED
  BY <1>1, <1>2, <1>6, <1>8, <1>9, <1>11, <1>16 DEF Recent

\* Clients of logs that differ are never told that all is well.
LEMMA ForkTold ==
  ASSUME NEW a \in Seq(Nat), \A i, j \in 1 .. Len(a) : i < j => a[i] < a[j],
         NEW b \in Seq(Nat), \A i, j \in 1 .. Len(b) : i < j => b[i] < b[j],
         NEW f \in Nat, \E k \in DOMAIN a : a[k] >= f, \E k \in DOMAIN b : b[k] >= f
  PROVE  check_gossiped_roots(RootsSince(a, f, "left"), RootsSince(b, f, "right")) # "ok"
<1>1. PICK l \in Nat, k \in Nat : l = Len(a) /\ k = Len(b)
  OBVIOUS
<1>2. l # 0 /\ k # 0
  <2>1. DOMAIN a = 1 .. l /\ DOMAIN b = 1 .. k
    BY <1>1
  <2>2. \A i \in 1 .. 0 : FALSE
    OBVIOUS
  <2> QED
    BY <2>1, <2>2
<1>3. PICK n \in Nat : n = (IF l < k THEN l ELSE k) /\ n \in 1 .. l /\ n \in 1 .. k
  BY <1>1, <1>2
<1>4. PICK A, B : A = RootsSince(a, f, "left") /\ B = RootsSince(b, f, "right")
  OBVIOUS
<1>5. PICK r, q : r = SubSeq(A, l - n + 1, l) /\ q = SubSeq(B, k - n + 1, k)
  OBVIOUS
<1>6. Len(A) = l /\ OneSided(r, "left") /\ Len(r) = n
  <2>1. n \in 1 .. Len(a)
    BY <1>1, <1>3
  <2>2. Recent(RootsSince(a, f, "left"), Len(a), n, "left")
    BY <2>1, RecentOneSided
  <2> QED
    BY <1>1, <1>4, <1>5, <2>2 DEF Recent
<1>7. Len(B) = k /\ OneSided(q, "right") /\ Len(q) = n
  <2>1. n \in 1 .. Len(b)
    BY <1>1, <1>3
  <2>2. Recent(RootsSince(b, f, "right"), Len(b), n, "right")
    BY <2>1, RecentOneSided
  <2> QED
    BY <1>1, <1>4, <1>5, <2>2 DEF Recent
<1>8. ~compare_roots(r, q)
  <2> SUFFICES ASSUME NEW x \in 0 .. n - 1
               PROVE  /\ SubSeq(r, 1, n - x) # SubSeq(q, x + 1, n)
                      /\ SubSeq(q, 1, n - x) # SubSeq(r, x + 1, n)
    BY <1>6 DEF compare_roots
  <2>1. PICK c, d : c = "left" /\ d = "right" /\ c # d /\ c # "common" /\ d # "common"
    OBVIOUS
  <2>2. OneSided(r, c) /\ OneSided(q, d)
    BY <1>6, <1>7, <2>1
  <2>3. SubSeq(r, 1, n - x) # SubSeq(q, x + 1, n)
    BY <1>6, <1>7, <2>1, <2>2, NoOverlap
  <2>4. SubSeq(q, 1, n - x) # SubSeq(r, x + 1, n)
    BY <1>6, <1>7, <2>1, <2>2, NoOverlap
  <2> QED
    BY <2>3, <2>4
<1>9. check_gossiped_roots(A, B) = "fork"
  BY <1>3, <1>5, <1>6, <1>7, <1>8 DEF check_gossiped_roots
<1> QED
  BY <1>4, <1>9

\* GossipTellsForks: two clients of one log whose lists of distinguished roots differ in
\* length by less than a factor of two find a common root, whichever of them walked first and
\* however often the head was stamped anew between their walks; two clients whose logs differ
\* from some entry on, and who each hold a later root, are never told that all is well
\* (check_gossiped_roots on what verify_distinguished retained).
THEOREM GossipIsSound ==
  Spec => []GossipTellsForks
<1>1. IInv => GossipTellsForks
  <2> SUFFICES ASSUME IInv, NEW c \in Clients, NEW d \in Clients
               PROVE  /\ Len(entries[d]) < 2 * Len(entries[c]) /\ Len(entries[c]) < 2 * Len(entries[d])
                         => check_gossiped_roots(entries[c], entries[d]) = "ok"
                      /\ \A f \in 0 .. MaxSize :
                           /\ \E k \in DOMAIN entries[c] : entries[c][k] >= f
                           /\ \E k \in DOMAIN entries[d] : entries[d][k] >= f
                           => check_gossiped_roots(RootsSince(entries[c], f, "left"),
                                                   RootsSince(entries[d], f, "right")) # "ok"
    BY DEF GossipTellsForks
  <2>1. PICK a, b : a = entries[c] /\ b = entries[d]
    OBVIOUS
  <2>2. /\ a \in Seq(Nat) /\ \A i, j \in 1 .. Len(a) : i < j => a[i] < a[j]
        /\ b \in Seq(Nat) /\ \A i, j \in 1 .. Len(b) : i < j => b[i] < b[j]
    BY <2>1, HeadPast DEF Ascends
  <2>3. Begins(a, b) \/ Begins(b, a)
    BY <2>1, ListsBegin
  <2>4. Len(b) < 2 * Len(a) /\ Len(a) < 2 * Len(b) => check_gossiped_roots(a, b) = "ok"
    BY <2>2, <2>3, CommonRoot
  <2>5. ASSUME NEW f \in 0 .. MaxSize, \E k \in DOMAIN a : a[k] >= f, \E k \in DOMAIN b : b[k] >= f
        PROVE  check_gossiped_roots(RootsSince(a, f, "left"), RootsSince(b, f, "right")) # "ok"
    <3>1. f \in Nat
      BY WindowAssumption
    <3> QED
      BY <2>2, <2>5, <3>1, ForkTold
  <2> QED
    BY <2>1, <2>4, <2>5
<1> QED
  BY <1>1, Invariance, PTL

\* The list q has the entries below x whose subtree reaches the end of the log.
Reaches(q, x, n) ==
  /\ q \in Seq(Nat)
  /\ \A y \in Under(x, n) : y >= x /\ y + span[y] >= n => \E k \in 1 .. Len(q) : q[k] = y

\* An entry put before what reaches the end below its right child.
LEMMA ReachesStep ==
  ASSUME NEW n \in Nat, NEW x \in 0 .. n - 1, NEW r \in x + 1 .. n - 1, r = ibst_right_child(x, n),
         NEW q, Reaches(q, r, n)
  PROVE  Reaches(<<x>> \o q, x, n)
<1>1. x \in Nat /\ r \in Nat /\ q \in Seq(Nat) /\ <<x>> \in Seq(Nat) /\ Len(<<x>>) = 1
  BY DEF Reaches
<1>2. PICK s \in Nat \ {0}, t \in Nat \ {0} : s = span[x] /\ t = span[r]
  BY <1>1, SpanBounds
<1>3. r - t = x /\ (r + t = x + s \/ (n <= r + t /\ n <= x + s))
  <2>1. r # None
    BY <1>1 DEF None
  <2> QED
    BY <1>1, <1>2, <2>1, RightChildIn
<1>4. PICK p : p = <<x>> \o q
  OBVIOUS
<1>5. /\ p \in Seq(Nat) /\ Len(p) = Len(q) + 1 /\ p[1] = x
      /\ \A k \in 1 .. Len(q) : p[k + 1] = q[k]
  BY <1>1, <1>4
<1>6. ASSUME NEW y \in Under(x, n), y >= x, y + span[y] >= n PROVE \E k \in 1 .. Len(p) : p[k] = y
  <2>1. y \in 0 .. n - 1 /\ y \in Nat /\ x - s < y /\ y < x + s
    BY <1>2 DEF Under
  <2>2. PICK z \in Nat \ {0} : z = span[y]
    BY <2>1, SpanBounds
  <2>3. CASE y = x
    <3>1. 1 \in 1 .. Len(p)
      BY <1>5
    <3> QED
      BY <1>5, <2>3, <3>1
  <2>4. CASE y # x
    <3>1. r - t < y /\ y < r + t /\ y \in Under(r, n)
      <4>1. r - t < y /\ y < r + t
        BY <1>1, <1>3, <1>6, <2>1, <2>4
      <4> QED
        BY <1>2, <2>1, <4>1 DEF Under
    <3>2. y >= r
      <4> SUFFICES ASSUME y < r PROVE FALSE
        BY <1>1, <2>1
      <4>1. y + span[y] <= r
        BY <1>1, <1>2, <2>1, <3>1, SubtreesNest
      <4> QED
        BY <1>1, <1>6, <2>1, <2>2, <4>1
    <3>3. PICK k \in 1 .. Len(q) : q[k] = y
      BY <1>6, <3>1, <3>2 DEF Reaches
    <3>4. k + 1 \in 1 .. Len(p)
      BY <1>1, <1>5
    <3> QED
      BY <1>5, <3>3, <3>4
  <2> QED
    BY <2>3, <2>4
<1> QED
  BY <1>4, <1>5, <1>6 DEF Reaches

\* The frontier has every entry whose subtree reaches the end of the log: those whose
\* interval ends at the head.
LEMMA FrontierHas ==
  ASSUME NEW n \in Nat \ {0}, NEW y \in 0 .. n - 1, y + span[y] >= n
  PROVE  y \in ToSet(get_frontier(n))
<1> DEFINE d == CHOOSE f : f = [x \in 0 .. n - 1 |-> Onward(n, x, f)]
           Wrong == {i \in Nat : i < n /\ ~Reaches(d[n - 1 - i], n - 1 - i, n)}
<1>1. d = [x \in 0 .. n - 1 |-> Onward(n, x, d)]
  BY SpineDefined
<1>2. get_frontier(n) = d[root(n)]
  BY DEF get_frontier, Onward
<1> HIDE DEF d
<1>3. ASSUME Wrong # {} PROVE FALSE
  <2>1. PICK i \in Wrong : \A j \in Nat : j < i => j \notin Wrong
    <3>1. Wrong \in SUBSET Nat
      OBVIOUS
    <3> HIDE DEF Wrong
    <3> QED
      BY <1>3, <3>1, LeastElement
  <2>2. i \in Nat /\ i < n
    OBVIOUS
  <2>3. PICK x \in 0 .. n - 1 : x = n - 1 - i /\ ~Reaches(d[x], x, n)
    BY <2>2
  <2>4. d[x] = Onward(n, x, d)
    BY <1>1
  <2>5. CASE x = n - 1 \/ ibst_right_child(x, n) = None
    <3>1. d[x] = <<x>>
      BY <2>4, <2>5 DEF Onward
    <3>2. \A z \in Under(x, n) : z >= x => z = x
      <4>1. x \in Nat
        OBVIOUS
      <4>2. PICK s \in Nat : s = span[x]
        BY <4>1, SpanBounds
      <4>3. is_leaf(x) => s = 1
        BY <4>1, <4>2, SpanDefined DEF is_leaf
      <4>4. is_leaf(x) \/ n <= x + 1
        BY <2>5, <4>1, RightChildIn
      <4> QED
        BY <4>2, <4>3, <4>4 DEF Under
    <3>3. <<x>> \in Seq(Nat) /\ 1 \in 1 .. Len(<<x>>) /\ <<x>>[1] = x
      OBVIOUS
    <3>4. Reaches(<<x>>, x, n)
      BY <3>2, <3>3 DEF Reaches
    <3> QED
      BY <2>3, <3>1, <3>4
  <2>6. CASE ~(x = n - 1 \/ ibst_right_child(x, n) = None)
    <3>1. PICK r \in x + 1 .. n - 1 : r = ibst_right_child(x, n)
      BY <2>6, RightChildIsRight
    <3>2. d[x] = <<x>> \o d[r]
      BY <2>4, <2>6, <3>1 DEF Onward
    <3>3. Reaches(d[r], r, n)
      <4>1. PICK j \in Nat : j = n - 1 - r /\ j < i /\ j < n /\ n - 1 - j = r
        BY <2>3
      <4>2. j \notin Wrong
        BY <2>1, <4>1
      <4> QED
        BY <4>1, <4>2
    <3>4. PICK q : q = d[r]
      OBVIOUS
    <3>5. Reaches(<<x>> \o q, x, n)
      BY <3>1, <3>3, <3>4, ReachesStep
    <3> QED
      BY <2>3, <3>2, <3>4, <3>5
  <2> QED
    BY <2>5, <2>6
<1>4. PICK r \in 0 .. n - 1 : r = root(n)
  BY RootIsEntry
<1>5. Reaches(d[r], r, n)
  <2>1. PICK i \in Nat : i = n - 1 - r /\ i < n /\ n - 1 - i = r
    OBVIOUS
  <2> QED
    BY <1>3, <2>1
<1>6. y \in Nat /\ r \in Nat
  OBVIOUS
<1>7. PICK s \in Nat \ {0}, z \in Nat \ {0} : s = span[r] /\ z = span[y] /\ r - s = -1 /\ r + s >= n
  BY <1>4, <1>6, RootIn, SpanBounds
<1>8. r - s < y /\ y < r + s /\ y \in Under(r, n)
  <2>1. r - s < y /\ y < r + s
    BY <1>6, <1>7
  <2> QED
    BY <1>7, <2>1 DEF Under
<1>9. y >= r
  <2> SUFFICES ASSUME y < r PROVE FALSE
    BY <1>6
  <2>1. y + span[y] <= r
    BY <1>6, <1>7, <1>8, SubtreesNest
  <2> QED
    BY <1>6, <1>7, <2>1
<1>10. PICK k \in 1 .. Len(d[r]) : d[r][k] = y
  BY <1>5, <1>8, <1>9 DEF Reaches
<1>11. PICK q : q = d[r] /\ q = get_frontier(n)
  BY <1>2, <1>4
<1> QED
  BY <1>5, <1>10, <1>11 DEF Reaches, ToSet

\* The list q stands in nodes after the first k of them.
Holds(nodes, k, q) == /\ k \in Nat /\ Len(q) \in Nat /\ k + Len(q) <= Len(nodes)
                      /\ \A t \in 1 .. Len(q) : nodes[k + t] = q[t]

\* What is left of nodes after the first j of them is what the log walked below the entries
\* of the stack s, from the top on; c says where each of them begins.
Placed(c, s, nodes, f) ==
  \A i \in 1 .. Len(s) : /\ Holds(nodes, c[i], f[s[i].node])
                         /\ c[i - 1] = c[i] + Len(f[s[i].node])
Left(s, j, nodes, f) ==
  \E c \in [0 .. Len(s) -> 0 .. Len(nodes)] :
    /\ c[0] = Len(nodes) /\ c[Len(s)] = j /\ Placed(c, s, nodes, f)

\* The top of the stack comes first.
LEMMA PopLeft ==
  ASSUME NEW n \in Nat, NEW s \in Seq(Items(n)), s # <<>>, NEW nodes \in Seq(Nat), NEW f,
         NEW j, Left(s, j, nodes, f)
  PROVE  /\ Holds(nodes, j, f[Last(s).node])
         /\ Left(Front(s), j + Len(f[Last(s).node]), nodes, f)
<1>1. PICK S : S = Items(n)
  OBVIOUS
<1>2. PICK u, e : u = Front(s) /\ e = Last(s)
  OBVIOUS
<1>3. PICK l \in Nat \ {0} : /\ l = Len(s) /\ Len(u) = l - 1 /\ s[l] = e
                             /\ \A i \in 1 .. l - 1 : u[i] = s[i]
  <2>1. /\ u \in Seq(S) /\ s = Append(u, e) /\ Len(s) \in Nat \ {0} /\ Len(u) = Len(s) - 1
        /\ \A i \in 1 .. Len(s) - 1 : u[i] = s[i]
    BY <1>1, <1>2, StackTop
  <2>2. s[Len(s)] = e
    BY <1>2 DEF Last
  <2> QED
    BY <2>1, <2>2
<1>4. PICK c \in [0 .. l -> 0 .. Len(nodes)] :
         c[0] = Len(nodes) /\ c[l] = j /\ Placed(c, s, nodes, f)
  BY <1>3 DEF Left
<1>5. l \in 1 .. l /\ l - 1 \in 0 .. l
  BY <1>3
<1>6. Holds(nodes, j, f[e.node]) /\ c[l - 1] = j + Len(f[e.node])
  BY <1>3, <1>4, <1>5 DEF Placed
<1>7. PICK b \in [0 .. l - 1 -> 0 .. Len(nodes)] : \A i \in 0 .. l - 1 : b[i] = c[i]
  <2>1. PICK b : b = [i \in 0 .. l - 1 |-> c[i]]
    OBVIOUS
  <2>2. \A i \in 0 .. l - 1 : c[i] \in 0 .. Len(nodes)
    BY <1>3
  <2>3. b \in [0 .. l - 1 -> 0 .. Len(nodes)]
    BY <2>1, <2>2
  <2>4. \A i \in 0 .. l - 1 : b[i] = c[i]
    BY <2>1
  <2> QED
    BY <2>3, <2>4
<1>8. Placed(b, u, nodes, f)
  <2>1. \A i \in 1 .. l - 1 : i \in 1 .. l /\ i \in 0 .. l - 1 /\ i - 1 \in 0 .. l - 1
    BY <1>3
  <2>2. ASSUME NEW i \in 1 .. l - 1
        PROVE  Holds(nodes, b[i], f[u[i].node]) /\ b[i - 1] = b[i] + Len(f[u[i].node])
    <3>1. Holds(nodes, c[i], f[s[i].node]) /\ c[i - 1] = c[i] + Len(f[s[i].node])
      BY <1>3, <1>4, <2>1 DEF Placed
    <3> QED
      BY <1>3, <1>7, <2>1, <3>1
  <2> QED
    BY <1>3, <2>2 DEF Placed
<1>9. b[0] = Len(nodes) /\ b[l - 1] = j + Len(f[e.node])
  <2>1. 0 \in 0 .. l - 1 /\ l - 1 \in 0 .. l - 1
    BY <1>3
  <2> QED
    BY <1>4, <1>6, <1>7, <2>1
<1>10. Left(u, j + Len(f[e.node]), nodes, f)
  BY <1>3, <1>7, <1>8, <1>9 DEF Left
<1> QED
  BY <1>2, <1>6, <1>10

\* One more entry before the others.
LEMMA PushLeft ==
  ASSUME NEW n \in Nat, NEW u \in Seq(Items(n)), NEW e \in Items(n), NEW nodes \in Seq(Nat), NEW f,
         NEW j, Holds(nodes, j, f[e.node]), Left(u, j + Len(f[e.node]), nodes, f)
  PROVE  Left(Append(u, e), j, nodes, f)
<1>1. PICK S : S = Items(n)
  OBVIOUS
<1>2. PICK s : s = Append(u, e)
  OBVIOUS
<1>3. PICK l \in Nat : l = Len(u)
  OBVIOUS
<1>4. Len(s) = l + 1 /\ s[l + 1] = e /\ \A i \in 1 .. l : s[i] = u[i]
  <2>1. u \in Seq(S) /\ e \in S
    BY <1>1
  <2> QED
    BY <1>2, <1>3, <2>1
<1>5. PICK k \in Nat : k = Len(f[e.node]) /\ j \in Nat /\ j + k <= Len(nodes)
  BY DEF Holds
<1>6. PICK c \in [0 .. l -> 0 .. Len(nodes)] :
         c[0] = Len(nodes) /\ c[l] = j + k /\ Placed(c, u, nodes, f)
  BY <1>3, <1>5 DEF Left
<1>7. PICK b \in [0 .. l + 1 -> 0 .. Len(nodes)] : b[l + 1] = j /\ \A i \in 0 .. l : b[i] = c[i]
  <2>1. PICK b : b = [i \in 0 .. l + 1 |-> IF i = l + 1 THEN j ELSE c[i]]
    OBVIOUS
  <2>2. \A i \in 0 .. l + 1 : i = l + 1 \/ i \in 0 .. l
    BY <1>3
  <2>3. l + 1 \in 0 .. l + 1 /\ \A i \in 0 .. l : i \in 0 .. l + 1 /\ i # l + 1
    BY <1>3
  <2>4. j \in 0 .. Len(nodes)
    BY <1>5
  <2>5. \A i \in 0 .. l + 1 : (IF i = l + 1 THEN j ELSE c[i]) \in 0 .. Len(nodes)
    BY <2>2, <2>4
  <2>6. b \in [0 .. l + 1 -> 0 .. Len(nodes)]
    BY <2>1, <2>5
  <2>7. b[l + 1] = j /\ \A i \in 0 .. l : b[i] = c[i]
    BY <2>1, <2>3
  <2> QED
    BY <2>6, <2>7
<1>8. ASSUME NEW i \in 1 .. l + 1
      PROVE  Holds(nodes, b[i], f[s[i].node]) /\ b[i - 1] = b[i] + Len(f[s[i].node])
  <2>1. CASE i = l + 1
    <3>1. l \in 0 .. l /\ i - 1 = l
      BY <1>3, <2>1
    <3> QED
      BY <1>4, <1>5, <1>6, <1>7, <2>1, <3>1
  <2>2. CASE i # l + 1
    <3>1. i \in 1 .. l /\ i \in 0 .. l /\ i - 1 \in 0 .. l
      BY <1>3, <2>2
    <3>2. Holds(nodes, c[i], f[u[i].node]) /\ c[i - 1] = c[i] + Len(f[u[i].node])
      BY <1>3, <1>6, <3>1 DEF Placed
    <3> QED
      BY <1>4, <1>7, <3>1, <3>2
  <2> QED
    BY <2>1, <2>2
<1>9. 0 \in 0 .. l
  BY <1>3
<1>10. Placed(b, s, nodes, f)
  BY <1>4, <1>8 DEF Placed
<1>11. b[0] = Len(nodes) /\ b[Len(s)] = j
  BY <1>4, <1>6, <1>7, <1>9
<1>12. Left(s, j, nodes, f)
  <2>1. b \in [0 .. Len(s) -> 0 .. Len(nodes)]
    BY <1>4, <1>7
  <2> QED
    BY <1>10, <1>11, <2>1 DEF Left
<1> QED
  BY <1>2, <1>12

\* The children of an entry.
LEMMA PushingLeft ==
  ASSUME NEW n \in Nat, NEW u \in Seq(Items(n)), NEW x \in 0 .. n - 1, NEW stop,
         NEW lo \in Nat, NEW t \in Nat, NEW hi \in Nat, NEW nodes \in Seq(Nat), NEW f, NEW j,
         NEW A, A = IF ibst_right_child(x, n) = None THEN <<>> ELSE f[ibst_right_child(x, n)],
         NEW B, B = IF ~is_leaf(x) /\ (stop = None \/ x > stop) THEN f[left_child(x)] ELSE <<>>,
         Holds(nodes, j, A), Holds(nodes, j + Len(A), B), Left(u, j + Len(A) + Len(B), nodes, f)
  PROVE  Left(Pushing(u, x, n, stop, lo, t, hi), j, nodes, f)
<1>1. x \in Nat
  OBVIOUS
<1>2. PICK v : v = u \o (IF ~is_leaf(x) /\ (stop = None \/ x > stop)
                        THEN Pending(left_child(x), lo, t) ELSE <<>>)
  OBVIOUS
<1>3. PICK k \in Nat : k = j + Len(A) /\ Len(A) \in Nat /\ Len(B) \in Nat /\ j \in Nat
  BY DEF Holds
<1>4. v \in Seq(Items(n)) /\ Left(v, k, nodes, f)
  <2>1. CASE ~(~is_leaf(x) /\ (stop = None \/ x > stop))
    <3>1. u \o <<>> = u
      OBVIOUS
    <3>2. v = u
      BY <1>2, <2>1, <3>1
    <3>3. j + Len(A) + Len(B) = k
      <4>1. B = <<>>
        BY <2>1
      <4>2. Len(B) = 0
        BY <4>1
      <4>3. PICK a \in Nat : a = Len(A)
        BY <1>3
      <4>4. k = j + a /\ j \in Nat
        BY <1>3, <4>3
      <4>5. j + a + 0 = j + a
        BY <4>4
      <4> QED
        BY <4>2, <4>3, <4>4, <4>5
    <3>4. Left(u, k, nodes, f)
      BY <3>3
    <3> QED
      BY <3>2, <3>4
  <2>2. CASE ~is_leaf(x) /\ (stop = None \/ x > stop)
    <3>1. PICK l \in 0 .. n - 1 : l = left_child(x)
      BY <1>1, <2>2, LeftChildIn
    <3>2. PICK e : e = [node |-> l, lo |-> lo, hi |-> t]
      OBVIOUS
    <3>3. e \in Items(n) /\ e.node = l
      BY <3>2 DEF Items
    <3>4. v = Append(u, e)
      <4>1. l # None
        BY <3>1 DEF None
      <4>2. Pending(l, lo, t) = <<e>>
        BY <3>2, <4>1 DEF Pending
      <4>3. v = u \o <<e>>
        BY <1>2, <2>2, <3>1, <4>2
      <4> QED
        BY <3>3, <4>3
    <3>5. v \in Seq(Items(n))
      <4>1. PICK S : S = Items(n)
        OBVIOUS
      <4>2. u \in Seq(S) /\ e \in S
        BY <3>3, <4>1
      <4> QED
        BY <3>4, <4>1, <4>2
    <3>6. B = f[e.node]
      BY <2>2, <3>1, <3>3
    <3>7. Holds(nodes, k, f[e.node]) /\ Left(u, k + Len(f[e.node]), nodes, f)
      BY <1>3, <3>6
    <3>8. Left(Append(u, e), k, nodes, f)
      BY <3>3, <3>7, PushLeft
    <3> QED
      BY <3>4, <3>5, <3>8
  <2> QED
    BY <2>1, <2>2
<1>5. PICK w : w = Pushing(u, x, n, stop, lo, t, hi)
  OBVIOUS
<1>6. w = v \o Pending(ibst_right_child(x, n), t, hi)
  BY <1>2, <1>5 DEF Pushing
<1>7. CASE ibst_right_child(x, n) = None
  <2>1. Pending(ibst_right_child(x, n), t, hi) = <<>>
    BY <1>7 DEF Pending
  <2>2. w = v
    BY <1>4, <1>6, <2>1
  <2>3. A = <<>>
    BY <1>7
  <2>4. Len(A) = 0
    BY <2>3
  <2>5. k = j
    BY <1>3, <2>4
  <2> QED
    BY <1>4, <1>5, <2>2, <2>5
<1>8. CASE ibst_right_child(x, n) # None
  <2>1. PICK l \in 0 .. n - 1 : l = ibst_right_child(x, n)
    <3>1. PICK l \in x + 1 .. n - 1 : l = ibst_right_child(x, n)
      BY <1>1, <1>8, RightChildIn
    <3> QED
      BY <1>1, <3>1
  <2>2. PICK e : e = [node |-> l, lo |-> t, hi |-> hi]
    OBVIOUS
  <2>3. e \in Items(n) /\ e.node = l
    BY <2>2 DEF Items
  <2>4. w = Append(v, e)
    <3>1. l # None
      BY <2>1 DEF None
    <3>2. Pending(l, t, hi) = <<e>>
      BY <2>2, <3>1 DEF Pending
    <3>3. w = v \o <<e>>
      BY <1>6, <2>1, <3>2
    <3> QED
      BY <1>4, <2>3, <3>3
  <2>5. A = f[e.node]
    BY <1>8, <2>1, <2>3
  <2>6. Holds(nodes, j, f[e.node]) /\ Left(v, j + Len(f[e.node]), nodes, f)
    BY <1>3, <1>4, <2>5
  <2>7. Left(Append(v, e), j, nodes, f)
    BY <1>4, <2>3, <2>6, PushLeft
  <2> QED
    BY <1>5, <2>4, <2>7
<1> QED
  BY <1>7, <1>8

\* An answer of the log to a client whose head is stamped T: the log read the frontier, then,
\* as in u, the nodes its walk f goes over; with a response limit it does not reach.
Answer(u, f, nodes, q, T, stop) ==
  /\ N \in Nat \ {0} /\ InOrder(log) /\ T \in Nat /\ log[N].ts <= T /\ RMW \in Nat \ {0}
  /\ f \in [0 .. N - 1 -> Seq(0 .. N - 1)]
  /\ \A x \in 0 .. N - 1 :
       f[x] = RightFirst(stop, Wide(log, N, log[N].ts), Wide(log, N, log[N].ts), N, x, f)
  /\ nodes \in Seq(0 .. N - 1) /\ q \in Seq(Nat) /\ Reading(u, q, nodes)
  /\ ToSet(get_frontier(N)) \subseteq ToSet(q)

\* The client's walk is where the log's was after some of its entries.
InStep(a, u, nodes, f, w) ==
  \E j \in 0 .. Len(nodes) : a.reader = Reader(u[j], w) /\ Left(a.stack, j, nodes, f)

\* Where the interval is narrow the log walked nothing, and neither below.
LEMMA NothingNarrow ==
  ASSUME NEW u, NEW f, NEW nodes, NEW q, NEW T, NEW stop, Answer(u, f, nodes, q, T, stop),
         NEW x \in 0 .. N - 1, x \notin Wide(log, N, log[N].ts)
  PROVE  /\ f[x] = <<>>
         /\ IsWide(log, x, N, T) => x + span[x] >= N
         /\ ~is_leaf(x) => left_child(x) \in 0 .. N - 1 /\ f[left_child(x)] = <<>>
         /\ ibst_right_child(x, N) # None =>
              ibst_right_child(x, N) \in 0 .. N - 1 /\ f[ibst_right_child(x, N)] = <<>>
<1>1. PICK t \in Nat : t = log[N].ts
  BY DEF Answer, InOrder, N
<1>2. PICK n \in Nat \ {0} : n = N
  BY DEF Answer
<1>3. HeadOf(log, n, t) /\ Len(log) \in Nat /\ RMW \in Nat \ {0} /\ x \in 0 .. n - 1
  BY <1>1, <1>2 DEF Answer, HeadOf, N
<1>4. ~IsWide(log, x, n, t)
  BY <1>1, <1>2 DEF Wide
<1>5. \A y \in 0 .. n - 1 : y \notin Wide(log, n, t) => f[y] = <<>>
  <2>1. \A y \in 0 .. n - 1 : f[y] = RightFirst(stop, Wide(log, n, t), Wide(log, n, t), n, y, f)
    BY <1>1, <1>2 DEF Answer
  <2> QED
    BY <2>1 DEF RightFirst
<1>6. \A y \in Under(x, n) : y \in 0 .. n - 1 /\ y \notin Wide(log, n, t)
  <2>1. ASSUME NEW y \in Under(x, n), IsWide(log, y, n, t) PROVE FALSE
    BY <1>3, <1>4, <2>1, NarrowBelow
  <2> QED
    BY <2>1 DEF Wide, Under
<1>7. \A y \in Under(x, n) : f[y] = <<>>
  BY <1>5, <1>6
<1>8. \A y \in 0 .. n - 1 : y \in Under(y, n)
  <2>1. ASSUME NEW y \in 0 .. n - 1 PROVE y \in Under(y, n)
    <3>1. y \in Nat
      OBVIOUS
    <3>2. PICK k \in Nat \ {0} : k = span[y]
      BY <3>1, SpanBounds
    <3>3. y - k < y /\ y < y + k
      BY <3>1
    <3> QED
      BY <3>2, <3>3 DEF Under
  <2> QED
    BY <2>1
<1>9. f[x] = <<>>
  BY <1>3, <1>7, <1>8
<1>10. IsWide(log, x, n, T) => x + span[x] >= n
  <2>1. x \in Nat
    OBVIOUS
  <2>2. PICK k \in Nat \ {0} : k = span[x]
    BY <2>1, SpanBounds
  <2>3. x + k < n => After(log, x, n, T) = After(log, x, n, t)
    BY <2>2 DEF After
  <2>4. x + k < n => (IsWide(log, x, n, T) <=> IsWide(log, x, n, t))
    BY <2>3 DEF IsWide
  <2>5. x + k < n \/ x + k >= n
    BY <2>1
  <2> QED
    BY <1>4, <2>2, <2>4, <2>5
<1>11. ~is_leaf(x) => left_child(x) \in 0 .. n - 1 /\ f[left_child(x)] = <<>>
  <2>1. ~is_leaf(x) => left_child(x) \in 0 .. n - 1 /\ left_child(x) \in Under(x, n)
    <3>1. ~is_leaf(x) => /\ left_child(x) \in 0 .. n - 1
                         /\ Under(left_child(x), n) = {y \in Under(x, n) : y < x}
      BY <1>3, SubtreeSplits
    <3> QED
      BY <1>8, <3>1
  <2> QED
    BY <1>7, <2>1
<1>12. ibst_right_child(x, n) # None =>
         ibst_right_child(x, n) \in 0 .. n - 1 /\ f[ibst_right_child(x, n)] = <<>>
  <2>1. ibst_right_child(x, n) # None =>
          /\ ibst_right_child(x, n) \in 0 .. n - 1
          /\ Under(ibst_right_child(x, n), n) = {y \in Under(x, n) : y > x}
    BY <1>3, SubtreeSplits
  <2>2. ibst_right_child(x, n) # None => ibst_right_child(x, n) \in Under(x, n)
    BY <1>8, <2>1
  <2> QED
    BY <1>7, <2>1, <2>2
<1> QED
  BY <1>2, <1>9, <1>10, <1>11, <1>12

\* c is an entry and two lists, one after the other.
Parts(c, x, A, B) == c = <<x>> \o A \o B
Apiece(nodes, j, c, x, A, B) ==
  /\ j + 1 <= Len(nodes) /\ nodes[j + 1] = x
  /\ Holds(nodes, j + 1, A) /\ Holds(nodes, j + 1 + Len(A), B)
  /\ j + Len(c) = j + 1 + Len(A) + Len(B)

\* An entry and two lists, one after the other.
LEMMA HoldsParts ==
  ASSUME NEW nodes \in Seq(Nat), NEW j \in Nat, NEW x \in Nat,
         NEW A \in Seq(Nat), NEW B \in Seq(Nat), NEW c, Parts(c, x, A, B), Holds(nodes, j, c)
  PROVE  Apiece(nodes, j, c, x, A, B)
<1>1. PICK a \in Nat, b \in Nat : a = Len(A) /\ b = Len(B)
  OBVIOUS
<1>2. Len(c) = 1 + a + b /\ c[1] = x
  BY <1>1 DEF Parts
<1>3. \A t \in 1 .. a : c[1 + t] = A[t]
  BY <1>1 DEF Parts
<1>4. \A t \in 1 .. b : c[1 + a + t] = B[t]
  BY <1>1 DEF Parts
<1>5. j + (1 + a + b) <= Len(nodes) /\ \A t \in 1 .. 1 + a + b : nodes[j + t] = c[t]
  BY <1>2 DEF Holds
<1>6. j + 1 <= Len(nodes) /\ nodes[j + 1] = x
  <2>1. 1 \in 1 .. 1 + a + b
    OBVIOUS
  <2>2. nodes[j + 1] = c[1]
    BY <1>5, <2>1
  <2>3. PICK l \in Nat : l = Len(nodes)
    OBVIOUS
  <2>4. j + (1 + a + b) <= l
    BY <1>5, <2>3
  <2>5. j + 1 <= l
    BY <2>4
  <2> QED
    BY <1>2, <2>2, <2>3, <2>5
<1>7. Holds(nodes, j + 1, A)
  <2>1. ASSUME NEW t \in 1 .. a PROVE nodes[j + 1 + t] = A[t]
    <3>1. 1 + t \in 1 .. 1 + a + b /\ j + (1 + t) = j + 1 + t
      OBVIOUS
    <3> QED
      BY <1>3, <1>5, <3>1
  <2>2. j + 1 \in Nat /\ j + 1 + a <= Len(nodes)
    BY <1>5
  <2> QED
    BY <1>1, <2>1, <2>2 DEF Holds
<1>8. Holds(nodes, j + 1 + a, B)
  <2>1. ASSUME NEW t \in 1 .. b PROVE nodes[j + 1 + a + t] = B[t]
    <3>1. 1 + a + t \in 1 .. 1 + a + b /\ j + (1 + a + t) = j + 1 + a + t
      OBVIOUS
    <3> QED
      BY <1>4, <1>5, <3>1
  <2>2. j + 1 + a \in Nat /\ j + 1 + a + b <= Len(nodes)
    BY <1>5
  <2> QED
    BY <1>1, <2>1, <2>2 DEF Holds
<1>9. j + (1 + a + b) = j + 1 + a + b
  OBVIOUS
<1> QED
  BY <1>1, <1>2, <1>6, <1>7, <1>8, <1>9 DEF Apiece

\* The empty list stands everywhere.
LEMMA HoldsNothing ==
  ASSUME NEW nodes \in Seq(Nat), NEW j \in 0 .. Len(nodes)
  PROVE  Holds(nodes, j, <<>>) /\ j + Len(<<>>) = j
<1>1. Len(<<>>) = 0 /\ j \in Nat /\ j + 0 = j
  OBVIOUS
<1> QED
  BY <1>1 DEF Holds

\* The answer p, whose timestamps are those of the entries that u ends with.
Answered(p, u, f, nodes, q, T, stop) ==
  Answer(u, f, nodes, q, T, stop) /\ Honest(p, u[Len(nodes)])

\* The children of an entry the client goes on with: the log goes over them next.
Children(x, n, f, stop, A, B) ==
  /\ A = IF ibst_right_child(x, n) = None THEN <<>> ELSE f[ibst_right_child(x, n)]
  /\ B = IF ~is_leaf(x) /\ (stop = None \/ x > stop) THEN f[left_child(x)] ELSE <<>>

\* Reading x the client comes from where the log was after j entries to where it was after i,
\* with the entries below x still to come.
GoesOn(p, u, nodes, j, i, w, x, l, A, B) ==
  /\ timestamp(Reader(u[j], w), p, x) = Reader(u[i], w) /\ x \in ToSet(u[i])
  /\ Holds(nodes, i, A) /\ Holds(nodes, i + Len(A), B)
  /\ j + l = i + Len(A) + Len(B)

\* The entry the client takes from its stack is the next one of the log's walk, or was read
\* with the frontier, and after it come its children.
LEMMA NextRead ==
  ASSUME NEW p, NEW u, NEW f, NEW nodes, NEW q, NEW T, NEW stop,
         Answered(p, u, f, nodes, q, T, stop), NEW w, NEW j \in 0 .. Len(nodes), NEW x \in 0 .. N - 1,
         IsWide(log, x, N, T), Holds(nodes, j, f[x]),
         NEW A, NEW B, Children(x, N, f, stop, A, B)
  PROVE  \E i \in 0 .. Len(nodes) : GoesOn(p, u, nodes, j, i, w, x, Len(f[x]), A, B)
<1>1. PICK n \in Nat \ {0} : n = N
  BY DEF Answered, Answer
<1>2. /\ nodes \in Seq(0 .. n - 1) /\ q \in Seq(Nat) /\ Reading(u, q, nodes) /\ nodes \in Seq(Nat)
      /\ f \in [0 .. n - 1 -> Seq(0 .. n - 1)] /\ ToSet(get_frontier(n)) \subseteq ToSet(q)
      /\ x \in 0 .. n - 1 /\ x \in Nat
  BY <1>1 DEF Answered, Answer
<1>3. PICK all : all = u[Len(nodes)]
  OBVIOUS
<1>4. Honest(p, all)
  BY <1>3 DEF Answered
<1>5. PICK l \in Nat : l = Len(nodes) /\ j \in 0 .. l /\ j \in Nat
  BY <1>2
<1>6. \A k \in 0 .. l : u[k] \in Seq(Nat) /\ ToSet(q) \subseteq ToSet(u[k])
  BY <1>2, <1>5, ReadingIs DEF Visited
<1>7. \A k \in 0 .. l : Begins(u[k], all)
  BY <1>2, <1>3, <1>5, ReadingBegins
<1>8. PICK D : D = Wide(log, N, log[N].ts)
  OBVIOUS
<1>9. CASE x \in D
  <2>1. f[x] = RightFirst(stop, D, D, n, x, f)
    BY <1>1, <1>8, <1>2 DEF Answered, Answer
  <2>2. f[x] = <<x>> \o A \o B
    BY <1>1, <1>9, <2>1 DEF RightFirst, Children
  <2>3. A \in Seq(Nat) /\ B \in Seq(Nat)
    <3>1. \A y \in 0 .. n - 1 : f[y] \in Seq(Nat)
      BY <1>2
    <3>2. <<>> \in Seq(Nat)
      OBVIOUS
    <3>3. ibst_right_child(x, n) # None => ibst_right_child(x, n) \in 0 .. n - 1
      BY <1>1, <1>2, RightChildIn
    <3>4. ~is_leaf(x) => left_child(x) \in 0 .. n - 1
      <4>1. ~is_leaf(x) => left_child(x) \in 0 .. x - 1
        BY <1>2, LeftChildIn
      <4>2. 0 .. x - 1 \subseteq 0 .. n - 1
        BY <1>2
      <4> QED
        BY <4>1, <4>2
    <3> QED
      BY <1>1, <3>1, <3>2, <3>3, <3>4 DEF Children
  <2>4. PICK c : c = f[x]
    OBVIOUS
  <2>5. /\ j + 1 <= l /\ nodes[j + 1] = x
        /\ Holds(nodes, j + 1, A) /\ Holds(nodes, j + 1 + Len(A), B)
        /\ j + Len(c) = j + 1 + Len(A) + Len(B)
    <3>1. Parts(c, x, A, B) /\ Holds(nodes, j, c)
      BY <2>2, <2>4 DEF Parts
    <3>2. nodes \in Seq(Nat) /\ j \in Nat /\ x \in Nat
      BY <1>2, <1>5
    <3>3. Apiece(nodes, j, c, x, A, B)
      BY <2>3, <3>1, <3>2, HoldsParts
    <3> QED
      BY <1>5, <3>3 DEF Apiece
  <2>6. PICK i \in 0 .. l : i = j + 1 /\ i \in 1 .. l /\ i - 1 = j
    BY <1>5, <2>5
  <2>7. u[i] = Read(u[j], x)
    BY <1>2, <1>5, <2>5, <2>6 DEF Reading
  <2>8. PICK v \in Seq(Nat) : v = u[j]
    BY <1>5, <1>6
  <2>9. Begins(Read(v, x), all)
    BY <1>7, <2>6, <2>7, <2>8
  <2>10. Reads(p, v, x, w)
    BY <1>4, <2>9, TimestampReads
  <2>11. timestamp(Reader(u[j], w), p, x) = Reader(u[i], w)
    BY <2>7, <2>8, <2>10 DEF Reads
  <2>12. x \in ToSet(u[i])
    BY <1>2, <2>7, <2>8, ReadIs
  <2> QED
    BY <1>5, <2>4, <2>5, <2>6, <2>11, <2>12 DEF GoesOn
<1>10. CASE x \notin D
  <2>1. /\ f[x] = <<>> /\ x + span[x] >= n
        /\ ~is_leaf(x) => f[left_child(x)] = <<>>
        /\ ibst_right_child(x, n) # None => f[ibst_right_child(x, n)] = <<>>
    <3>1. Answer(u, f, nodes, q, T, stop) /\ x \notin Wide(log, N, log[N].ts)
      BY <1>8, <1>10 DEF Answered
    <3>2. /\ f[x] = <<>>
          /\ IsWide(log, x, N, T) => x + span[x] >= N
          /\ ~is_leaf(x) => f[left_child(x)] = <<>>
          /\ ibst_right_child(x, N) # None => f[ibst_right_child(x, N)] = <<>>
      BY <3>1, NothingNarrow
    <3> QED
      BY <1>1, <3>2
  <2>2. A = <<>> /\ B = <<>>
    BY <1>1, <2>1 DEF Children
  <2>3. x \in ToSet(u[j])
    <3>1. x \in ToSet(get_frontier(n))
      BY <1>2, <2>1, FrontierHas
    <3> QED
      BY <1>2, <1>5, <1>6, <3>1
  <2>4. PICK v \in Seq(Nat) : v = u[j]
    BY <1>5, <1>6
  <2>5. Read(v, x) = v
    BY <2>3, <2>4 DEF Read
  <2>6. Begins(Read(v, x), all)
    BY <1>5, <1>7, <2>4, <2>5
  <2>7. Reads(p, v, x, w)
    BY <1>4, <2>6, TimestampReads
  <2>8. timestamp(Reader(u[j], w), p, x) = Reader(u[j], w)
    BY <2>4, <2>5, <2>7 DEF Reads
  <2>9. Holds(nodes, j, <<>>) /\ j + Len(<<>>) = j
    BY <1>2, HoldsNothing
  <2>10. j + Len(<<>>) + Len(<<>>) = j
    BY <2>9
  <2> QED
    BY <2>1, <2>2, <2>3, <2>8, <2>9, <2>10 DEF GoesOn
<1> QED
  BY <1>9, <1>10

\* One step of the client goes on where the log's walk does.
LEMMA StepInStep ==
  ASSUME NEW p, NEW u, NEW f, NEW nodes, NEW q, NEW T, NEW stop,
         Answered(p, u, f, nodes, q, T, stop), NEW m \in Nat, NEW b,
         NEW a \in Walks(b, N, m), a.stack # <<>>, Tidy(a.stack, N, T),
         NEW w, InStep(a, u, nodes, f, w)
  PROVE  InStep(ReplayStep(p, stop, N, a), u, nodes, f, w)
<1>1. PICK n \in Nat \ {0} : n = N
  BY DEF Answered, Answer
<1>2. nodes \in Seq(Nat) /\ nodes \in Seq(0 .. n - 1)
  BY <1>1 DEF Answered, Answer
<1>3. PICK j \in 0 .. Len(nodes) : a.reader = Reader(u[j], w) /\ Left(a.stack, j, nodes, f)
  BY DEF InStep
<1>4. PICK s \in Seq(Items(n)) : s = a.stack /\ s # <<>> /\ Tidy(s, n, T) /\ Left(s, j, nodes, f)
  BY <1>1, <1>3 DEF Walks
<1>5. PICK v : v = Front(s)
  OBVIOUS
<1>6. PICK e : e = Last(s)
  OBVIOUS
<1>7. v \in Seq(Items(n)) /\ e \in Items(n) /\ Fits(e, n, T)
  BY <1>4, <1>5, <1>6, PopTidy
<1>8. PICK x \in 0 .. n - 1, lo \in Nat, hi \in Nat :
        x = e.node /\ lo = e.lo /\ hi = e.hi /\ lo = Before(log, x) /\ hi = After(log, x, n, T)
  BY <1>7 DEF Items, Fits
<1>9. Holds(nodes, j, f[x]) /\ Left(v, j + Len(f[x]), nodes, f)
  <2>1. Holds(nodes, j, f[e.node]) /\ Left(v, j + Len(f[e.node]), nodes, f)
    BY <1>2, <1>4, <1>5, <1>6, PopLeft
  <2> QED
    BY <1>8, <2>1
<1>10. IsWide(log, x, n, T) <=> WideEnough(lo, hi)
  BY <1>8 DEF IsWide, WideEnough
<1>11. PICK c : c = ReplayStep(p, stop, n, a)
  OBVIOUS
<1>12. CASE ~WideEnough(lo, hi)
  <2>1. c = [a EXCEPT !.stack = Front(a.stack)]
    BY <1>4, <1>6, <1>8, <1>11, <1>12, Zenon DEF ReplayStep
  <2>2. c.reader = a.reader /\ c.stack = v
    BY <1>4, <1>5, <2>1 DEF Walks
  <2>3. x \notin Wide(log, N, log[N].ts)
    <3>0. log[N].ts \in Nat
      BY DEF Answered, Answer, InOrder, N
    <3>1. PICK t \in Nat : t = log[N].ts
      BY <3>0
    <3>2. ~IsWide(log, x, n, t)
      <4>1. T \in Nat /\ t <= T /\ Len(log) \in Nat /\ InOrder(log) /\ RMW \in Nat \ {0}
        BY <3>1 DEF Answered, Answer, N
      <4>2. HeadOf(log, n, t) /\ HeadOf(log, n, T)
        BY <1>1, <3>1, <4>1 DEF HeadOf, N
      <4>3. PICK c1 \in Nat, c2 \in Nat, c3 \in Nat :
              c1 = After(log, x, n, t) /\ c2 = After(log, x, n, T) /\ c3 = Before(log, x)
        BY <4>1, <4>2, AroundIn
      <4>4. c1 <= c2
        <5>1. c1 = c2 \/ (c1 = t /\ c2 = T)
          BY <4>3 DEF After
        <5> QED
          BY <4>1, <4>3, <5>1
      <4>5. ~(saturating_sub(c2, c3) >= RMW)
        BY <1>10, <1>12, <4>3 DEF IsWide
      <4>6. ~(saturating_sub(c1, c3) >= RMW)
        BY <4>1, <4>4, <4>5 DEF saturating_sub
      <4> QED
        BY <4>3, <4>6 DEF IsWide
    <3> QED
      BY <1>1, <3>1, <3>2 DEF Wide
  <2>4. f[x] = <<>>
    BY <1>1, <2>3, NothingNarrow DEF Answered
  <2>5. j + Len(<<>>) = j
    BY <1>2, HoldsNothing
  <2>6. Left(v, j, nodes, f)
    BY <1>9, <2>4, <2>5
  <2>7. InStep(c, u, nodes, f, w)
    BY <1>3, <2>2, <2>6 DEF InStep
  <2> QED
    BY <1>1, <1>11, <2>7
<1>13. CASE WideEnough(lo, hi)
  <2>1. PICK A, B : Children(x, n, f, stop, A, B)
    BY DEF Children
  <2>2. PICK i \in 0 .. Len(nodes) : GoesOn(p, u, nodes, j, i, w, x, Len(f[x]), A, B)
    <3>1. IsWide(log, x, N, T) /\ x \in 0 .. N - 1 /\ Children(x, N, f, stop, A, B)
      BY <1>1, <1>10, <1>13, <2>1
    <3> QED
      BY <1>9, <3>1, NextRead
  <2>3. /\ timestamp(Reader(u[j], w), p, x) = Reader(u[i], w) /\ x \in ToSet(u[i])
         /\ Holds(nodes, i, A) /\ Holds(nodes, i + Len(A), B)
         /\ j + Len(f[x]) = i + Len(A) + Len(B)
    BY <2>2 DEF GoesOn
  <2>4. PICK r : r = Reader(u[i], w)
    OBVIOUS
  <2>5. r.ok /\ r.assigned_ts[x] = get_timestamp(x)
    BY <2>3, <2>4 DEF Reader
  <2>6. PICK t \in Nat : t = get_timestamp(x)
    <3>1. x + 1 \in 1 .. Len(log) /\ InOrder(log)
      BY <1>1 DEF Answered, Answer, N
    <3> QED
      BY <3>1 DEF InOrder, get_timestamp
  <2>7. PICK z : z = Pushing(v, x, n, stop, lo, t, hi)
    OBVIOUS
  <2>8. Last(a.stack) = e /\ Front(a.stack) = v /\ r = timestamp(a.reader, p, x)
        /\ e.node = x /\ e.lo = lo /\ e.hi = hi /\ r.assigned_ts[x] = t
    BY <1>3, <1>4, <1>5, <1>6, <1>8, <2>3, <2>4, <2>5, <2>6
  <2>9. ReplayStep(p, stop, n, a)
          = [reader |-> r, walked |-> a.walked \cup {x}, stack |-> IF ~r.ok THEN <<>> ELSE z]
    BY <1>13, <2>7, <2>8 DEF ReplayStep, Pushing
  <2>10. c.reader = r /\ c.stack = z
    BY <1>11, <2>5, <2>9
  <2>11. Left(v, i + Len(A) + Len(B), nodes, f)
    BY <1>9, <2>3
  <2>12. /\ A = IF ibst_right_child(x, n) = None THEN <<>> ELSE f[ibst_right_child(x, n)]
         /\ B = IF ~is_leaf(x) /\ (stop = None \/ x > stop) THEN f[left_child(x)] ELSE <<>>
    BY <2>1 DEF Children
  <2>13. Left(Pushing(v, x, n, stop, lo, t, hi), i, nodes, f)
    BY <1>2, <1>7, <2>3, <2>11, <2>12, PushingLeft
  <2>14. InStep(c, u, nodes, f, w)
    BY <2>4, <2>7, <2>10, <2>13 DEF InStep
  <2> QED
    BY <1>1, <1>11, <2>14
<1> QED
  BY <1>12, <1>13

\* With nothing on the stack nothing is left.
LEMMA NothingLeft ==
  ASSUME NEW nodes \in Seq(Nat), NEW f
  PROVE  /\ Left(<<>>, Len(nodes), nodes, f)
         /\ \A j : Left(<<>>, j, nodes, f) => j = Len(nodes)
<1>1. PICK l \in Nat : l = Len(nodes)
  OBVIOUS
<1>2. PICK s : s = <<>>
  OBVIOUS
<1>3. Len(s) = 0 /\ 1 .. 0 = {} /\ 0 \in 0 .. 0
  BY <1>2
<1>4. PICK c : c = [i \in 0 .. 0 |-> l]
  OBVIOUS
<1>5. c \in [0 .. 0 -> 0 .. l] /\ c[0] = l
  BY <1>3, <1>4
<1>6. Placed(c, s, nodes, f)
  BY <1>3 DEF Placed
<1>7. Left(s, l, nodes, f)
  BY <1>1, <1>3, <1>5, <1>6 DEF Left
<1>8. \A j : Left(s, j, nodes, f) => j = l
  BY <1>1, <1>3 DEF Left
<1> QED
  BY <1>1, <1>2, <1>7, <1>8

\* The walk is in step and its stack in order.
InSync(a, u, nodes, f, w, n, T) == Tidy(a.stack, n, T) /\ InStep(a, u, nodes, f, w)

\* A client that read the frontier begins where the log does.
LEMMA BeginsInSync ==
  ASSUME NEW p, NEW u, NEW f, NEW nodes, NEW q, NEW T, NEW stop,
         Answered(p, u, f, nodes, q, T, stop), nodes = f[root(N)], NEW w,
         NEW a, a.reader = Reader(q, w), a.stack = Pending(root(N), 0, T)
  PROVE  InSync(a, u, nodes, f, w, N, T)
<1>1. PICK n \in Nat \ {0} : n = N
  BY DEF Answered, Answer
<1>2. nodes \in Seq(Nat) /\ Reading(u, q, nodes) /\ T \in Nat /\ HeadOf(log, n, T) /\ Len(log) \in Nat
  BY <1>1 DEF Answered, Answer, HeadOf, N
<1>3. PICK x \in 0 .. n - 1 : x = root(n)
  BY RootIn
<1>4. Before(log, x) = 0 /\ After(log, x, n, T) = T
  <2>1. PICK k \in Nat \ {0} : k = span[x] /\ x - k = -1 /\ x + k >= n
    BY <1>3, RootIn
  <2>2. x - k < 0 /\ ~(x + k < n)
    BY <2>1
  <2> QED
    BY <2>1, <2>2 DEF Before, After
<1>5. PICK v : v = <<>>
  OBVIOUS
<1>6. v \in Seq(Items(n)) /\ Tidy(v, n, T) /\ Cover(v, n) = {}
  <2>1. v \in Seq(Items(n)) /\ Len(v) = 0 /\ 1 .. 0 = {}
    BY <1>5
  <2> QED
    BY <2>1 DEF Tidy, Apart, Cover
<1>7. PICK e : e = [node |-> x, lo |-> 0, hi |-> T]
  OBVIOUS
<1>8. v \o Pending(x, 0, T) = Append(v, e) /\ e \in Items(n) /\ e.node = x
  <2>1. v \o Pending(x, 0, T) = Append(v, [node |-> x, lo |-> 0, hi |-> T])
        /\ [node |-> x, lo |-> 0, hi |-> T] \in Items(n)
    BY <1>2, <1>3, <1>6, PendingIs, SMTT(30)
  <2> QED
    BY <1>7, <2>1
<1>9. Pushes(v \o Pending(x, 0, T), v, x, n, T)
  <2>1. Cover(v, n) \cap Under(x, n) = {}
    BY <1>6
  <2> QED
    BY <1>2, <1>4, <1>6, <2>1, PendingPushes
<1>10. v \o Pending(x, 0, T) = Pending(x, 0, T)
  <2>1. x # None
    BY <1>3 DEF None
  <2>2. Pending(x, 0, T) = <<e>>
    BY <1>7, <2>1 DEF Pending
  <2>3. v \o <<e>> = <<e>>
    BY <1>5
  <2> QED
    BY <2>2, <2>3
<1>11. PICK s : s = a.stack
  OBVIOUS
<1>12. s = Append(v, e) /\ Pushes(s, v, x, n, T)
  BY <1>1, <1>3, <1>8, <1>9, <1>10, <1>11
<1>13. Tidy(s, n, T)
  BY <1>12 DEF Pushes
<1>14. Left(s, 0, nodes, f)
  <2>1. PICK l \in Nat : l = Len(nodes)
    BY <1>2
  <2>2. f[e.node] = nodes
    BY <1>1, <1>3, <1>8
  <2>3. Holds(nodes, 0, f[e.node])
    <3>1. \A t \in 1 .. l : 0 + t = t
      OBVIOUS
    <3>2. 0 + l <= l
      BY <2>1
    <3> QED
      BY <2>1, <2>2, <3>1, <3>2 DEF Holds
  <2>4. 0 + Len(f[e.node]) = Len(nodes)
    BY <2>1, <2>2
  <2>5. Left(v, 0 + Len(f[e.node]), nodes, f)
    BY <1>2, <1>5, <2>4, NothingLeft
  <2>6. Left(Append(v, e), 0, nodes, f)
    BY <1>2, <1>6, <1>8, <2>3, <2>5, PushLeft
  <2> QED
    BY <1>12, <2>6
<1>15. 0 \in 0 .. Len(nodes) /\ u[0] = q
  BY <1>2 DEF Reading
<1>16. InStep(a, u, nodes, f, w)
  BY <1>11, <1>14, <1>15 DEF InStep
<1> QED
  BY <1>1, <1>11, <1>13, <1>16 DEF InSync

\* A reader of timestamps of the log has not failed.
LEMMA ReaderTrue ==
  ASSUME NEW q, NEW w
  PROVE  True(Reader(q, w))
BY DEF True, Reader

\* At its end the client has read what the log told.
LEMMA StaysInStep ==
  ASSUME NEW p, NEW u, NEW f, NEW nodes, NEW q, NEW T, NEW stop,
         Answered(p, u, f, nodes, q, T, stop), nodes = f[root(N)], NEW w,
         NEW m \in Nat, p.timestamps \in Seq(Nat), Len(p.timestamps) = m, NEW b,
         NEW r \in Readers(b, N, m), r = Reader(q, w), NEW g, Strides(g, b, m, r, p, T, stop, N)
  PROVE  g[N].reader = Reader(u[Len(nodes)], w)
<1>1. PICK n \in Nat \ {0} : n = N
  BY DEF Answered, Answer
<1>2. /\ nodes \in Seq(Nat) /\ T \in Nat /\ HeadOf(log, n, T) /\ Len(log) \in Nat
      /\ RMW \in Nat \ {0}
  BY <1>1 DEF Answered, Answer, HeadOf, N
<1>3. /\ g \in [0 .. n -> Walks(b, n, m)] /\ Walking(g, r, p, T, stop, n)
      /\ r \in Readers(b, n, m)
  BY <1>1 DEF Strides
<1> DEFINE Good(k) == InSync(g[k], u, nodes, f, w, n, T)
           Wrong   == {k \in Nat : k <= n /\ ~Good(k)}
<1>4. Good(0)
  <2>1. PICK a : a = g[0]
    OBVIOUS
  <2>2. a.reader = Reader(q, w) /\ a.stack = Pending(root(N), 0, T)
    BY <1>1, <1>3, <2>1 DEF Walking
  <2>3. InSync(a, u, nodes, f, w, N, T)
    BY <2>2, BeginsInSync
  <2> QED
    BY <1>1, <2>1, <2>3
<1>5. ASSUME NEW k \in 1 .. n, Good(k - 1) PROVE Good(k)
  <2>1. k - 1 \in 0 .. n /\ k \in 0 .. n
    OBVIOUS
  <2>2. PICK a \in Walks(b, n, m) : a = g[k - 1]
    BY <1>3, <2>1
  <2>3. PICK c : c = g[k]
    OBVIOUS
  <2>4. Tidy(a.stack, n, T) /\ InStep(a, u, nodes, f, w)
    BY <1>5, <2>2 DEF InSync
  <2>5. CASE a.stack = <<>>
    <3>1. c = a
      BY <1>3, <2>2, <2>3, <2>5 DEF Walking
    <3> QED
      BY <1>5, <2>2, <2>3, <3>1
  <2>6. CASE a.stack # <<>>
    <3>1. c = ReplayStep(p, stop, n, a)
      BY <1>3, <2>2, <2>3, <2>6 DEF Walking
    <3>2. InStep(c, u, nodes, f, w)
      BY <1>1, <2>4, <2>6, <3>1, StepInStep
    <3>3. True(c.reader)
      <4>1. PICK j : c.reader = Reader(u[j], w)
        BY <3>2 DEF InStep
      <4>2. True(Reader(u[j], w))
        BY ReaderTrue
      <4> QED
        BY <4>1, <4>2
    <3>4. Follows(a, c, stop, n, T)
      BY <1>2, <2>4, <2>6, <3>1, <3>3, StepFollows
    <3> QED
      BY <2>3, <3>2, <3>4 DEF Follows, InSync
  <2> QED
    BY <2>5, <2>6
<1> HIDE DEF Good
<1>6. ASSUME Wrong # {} PROVE FALSE
  <2>1. PICK k \in Wrong : \A z \in Nat : z < k => z \notin Wrong
    <3>1. Wrong \in SUBSET Nat
      OBVIOUS
    <3> HIDE DEF Wrong
    <3> QED
      BY <1>6, <3>1, LeastElement
  <2>2. k \in Nat /\ k <= n /\ ~Good(k)
    OBVIOUS
  <2>3. k # 0
    BY <1>4, <2>2
  <2>4. k - 1 \in Nat /\ k - 1 < k /\ k - 1 <= n /\ k \in 1 .. n
    BY <2>2, <2>3
  <2>5. Good(k - 1)
    BY <2>1, <2>4
  <2> QED
    BY <1>5, <2>2, <2>4, <2>5
<1>7. Good(n)
  BY <1>6
<1>8. PICK a : a = g[n]
  OBVIOUS
<1>9. InStep(a, u, nodes, f, w)
  BY <1>7, <1>8 DEF Good, InSync
<1>10. PICK j \in 0 .. Len(nodes) : a.reader = Reader(u[j], w) /\ Left(a.stack, j, nodes, f)
  BY <1>9 DEF InStep
<1>11. True(g[n].reader)
  <2>1. True(Reader(u[j], w))
    BY ReaderTrue
  <2> QED
    BY <1>8, <1>10, <2>1
<1>12. Ended(g, stop, n, T)
  <2> QED
    BY <1>2, <1>11, <1>3, WalkEnds
<1>13. a.stack = <<>>
  BY <1>8, <1>12 DEF Ended
<1>14. j = Len(nodes)
  BY <1>2, <1>10, <1>13, NothingLeft
<1> QED
  BY <1>1, <1>8, <1>10, <1>14

\* A client that has read everything an honest answer tells is done.
LEMMA ReaderDone ==
  ASSUME NEW p, NEW all, Honest(p, all), NEW w
  PROVE  finish(Reader(all, w), p, N)
<1>1. PICK r : r = Reader(all, w)
  OBVIOUS
<1>2. PICK n \in Nat : n = N
  BY DEF Honest
<1>3. all \in Seq(Nat) /\ ToSet(all) \subseteq 0 .. n - 1 /\ Plain(p, all)
  BY <1>2 DEF Honest
<1>4. /\ r.ok /\ r.ts_idx = Len(all) /\ r.proof_idx = 0
      /\ DOMAIN r.assigned_ts = ToSet(all) /\ DOMAIN r.entry_roots = {}
      /\ \A x \in ToSet(all) : r.assigned_ts[x] = get_timestamp(x)
  BY <1>1 DEF Reader
<1>5. Len(p.timestamps) = Len(all)
  <2>1. N \in Nat /\ InOrder(log) /\ ToSet(all) \subseteq 0 .. N - 1
    BY DEF Honest
  <2> QED
    BY <1>3, <2>1, PlainStamps
<1>6. p.proofs = <<>> /\ Len(p.proofs) = 0 /\ p.visited = ToSet(all)
  BY <1>3 DEF Plain
<1> DEFINE bare == Ascending(DOMAIN r.assigned_ts \ DOMAIN r.entry_roots, n)
<1>7. DOMAIN r.assigned_ts \ DOMAIN r.entry_roots = ToSet(all)
  BY <1>4
<1>8. bare = Ascending(ToSet(all), n) /\ p.roots = bare
  BY <1>2, <1>3, <1>7 DEF Plain
<1>9. Ascends(bare, {x \in 0 .. n - 1 : x \in ToSet(all)})
  BY <1>8, AscendingIs
<1>10. \A x \in ToSet(all) : bare[CHOOSE k \in DOMAIN bare : bare[k] = x] = x
  <2> SUFFICES ASSUME NEW x \in ToSet(all)
               PROVE  bare[CHOOSE k \in DOMAIN bare : bare[k] = x] = x
    OBVIOUS
  <2>1. \E i \in 1 .. Len(bare) : bare[i] = x
    BY <1>3, <1>9 DEF Ascends
  <2>2. DOMAIN bare = 1 .. Len(bare)
    BY <1>9 DEF Ascends
  <2>3. \E i \in DOMAIN bare : bare[i] = x
    BY <2>1, <2>2
  <2> QED
    BY <2>3, Zenon
<1>11. finish(r, p, n)
  <2>1. Len(bare) = Len(p.roots)
    BY <1>8
  <2>2. \A x \in DOMAIN r.assigned_ts :
          /\ r.assigned_ts[x] = get_timestamp(x)
          /\ (IF x \in DOMAIN r.entry_roots THEN r.entry_roots[x]
              ELSE p.roots[CHOOSE k \in DOMAIN bare : bare[k] = x]) = x
    BY <1>4, <1>8, <1>10
  <2> QED
    <3>1. finish(r, p, n) <=>
            /\ r.ok
            /\ r.ts_idx = Len(p.timestamps) /\ r.proof_idx = Len(p.proofs)
            /\ Len(bare) = Len(p.roots)
            /\ DOMAIN r.assigned_ts = p.visited
            /\ \A x \in DOMAIN r.assigned_ts :
                 /\ r.assigned_ts[x] = get_timestamp(x)
                 /\ (IF x \in DOMAIN r.entry_roots THEN r.entry_roots[x]
                     ELSE p.roots[CHOOSE k \in DOMAIN bare : bare[k] = x]) = x
      BY Zenon DEF finish
    <3>2. r.ts_idx = Len(p.timestamps) /\ r.proof_idx = Len(p.proofs) /\ DOMAIN r.assigned_ts = p.visited
      BY <1>4, <1>5, <1>6
    <3> QED
      BY <1>4, <2>1, <2>2, <3>1, <3>2, Zenon
<1> QED
  BY <1>1, <1>2, <1>11

\* Where the entries fit into one response none is too old for the log's walk.
LEMMA NoneTooOld ==
  ASSUME NEW n \in Nat, NEW D \in SUBSET (0 .. n - 1), Cardinality(D) <= MaxResponse
  PROVE  {x \in D : Cardinality({y \in D : y > x}) < MaxResponse} = D
<1>1. ASSUME NEW x \in D PROVE Cardinality({y \in D : y > x}) < MaxResponse
  <2>1. PICK B : B = {y \in D : y > x}
    OBVIOUS
  <2>2. B \in SUBSET D /\ x \notin B
    BY <2>1
  <2>3. Cardinality(D) \in Nat /\ Cardinality(B) \in Nat /\ Cardinality(B) + 1 <= Cardinality(D)
    BY <2>2, CoverShrinks
  <2>4. MaxResponse \in Nat
    BY WalkAssumption
  <2>5. Cardinality(B) < MaxResponse
    BY <2>3, <2>4
  <2> QED
    BY <2>1, <2>5
<1> QED
  BY <1>1

\* The log's walk where no entry is too old.
Over(f, stop, D, n) ==
  /\ f \in [0 .. n - 1 -> Seq(0 .. n - 1)]
  /\ \A x \in 0 .. n - 1 : f[x] = RightFirst(stop, D, D, n, x, f)
  /\ WalkRight(stop, D, D, n) = f[root(n)]

\* Where retained and recent entries are told by one set, the walk is that function at the root.
LEMMA WalkOver ==
  ASSUME NEW n \in Nat \ {0}, NEW stop, NEW D
  PROVE  \E f : Over(f, stop, D, n)
<1>1. \E f \in [0 .. n - 1 -> Seq(0 .. n - 1)] :
        /\ \A x \in 0 .. n - 1 : f[x] = RightFirst(stop, D, D, n, x, f)
        /\ WalkRight(stop, D, D, n) = f[root(n)]
  BY WalkRightIs, ZenonT(30)
<1> QED
  BY <1>1, Zenon DEF Over

\* The client's walk reads all that the log told.
LEMMA ReplayReads ==
  ASSUME NEW p, NEW u, NEW h, NEW nodes, NEW q, NEW T, NEW stop,
         Answered(p, u, h, nodes, q, T, stop), nodes = h[root(N)], NEW w,
         NEW m \in Nat, p.timestamps \in Seq(Nat), Len(p.timestamps) = m, NEW b,
         NEW r \in Readers(b, N, m), r = Reader(q, w)
  PROVE  ReplayRight(r, p, T, stop, N).reader = Reader(u[Len(nodes)], w)
<1>1. PICK n \in Nat \ {0} : n = N /\ T \in Nat
  BY DEF Answered, Answer
<1>2. r \in Readers(b, n, m)
  BY <1>1
<1>3. PICK f : Replays(f, b, m, r, p, T, stop, n)
  BY <1>1, <1>2, ReplayDefined
<1>4. ReplayRight(r, p, T, stop, n) = f[n] /\ Strides(f, b, m, r, p, T, stop, N)
  BY <1>1, <1>3 DEF Replays
<1>5. f[N].reader = Reader(u[Len(nodes)], w)
  BY <1>4, StaysInStep
<1> QED
  BY <1>1, <1>4, <1>5

\* An answer to a walk verifies at any head stamped after the last entry.
LEMMA AnswerVerifies ==
  ASSUME N \in Nat \ {0}, InOrder(log), NEW T \in Nat, log[N].ts <= T, RMW \in Nat \ {0}, NEW stop,
         Cardinality(find_distinguished_nodes(N)) <= MaxResponse,
         NEW p, p = traverse_distinguished(N, stop)
  PROVE  finish(ReplayRight(ReadFrontier(p, N, <<>>), p, T, stop, N).reader, p, N)
<1>1. PICK n \in Nat \ {0} : n = N
  OBVIOUS
<1>2. PICK t \in Nat : t = log[N].ts
  BY DEF InOrder, N
<1>3. n <= Len(log) /\ Len(log) \in Nat
  BY <1>1 DEF N
<1>4. PICK D \in SUBSET (0 .. n - 1) : D = Wide(log, n, t)
  BY DEF Wide
<1>5. find_distinguished_nodes(n) = D
  BY <1>1, <1>2, <1>3, <1>4, DistinguishedAreWide
<1>6. {x \in D : Cardinality({y \in D : y > x}) < MaxResponse} = D
  BY <1>1, <1>5, NoneTooOld
<1>7. PICK f : Over(f, stop, D, n)
  BY WalkOver
<1>8. /\ f \in [0 .. n - 1 -> Seq(0 .. n - 1)]
       /\ \A x \in 0 .. n - 1 : f[x] = RightFirst(stop, D, D, n, x, f)
       /\ WalkRight(stop, D, D, n) = f[root(n)]
  BY <1>7 DEF Over
<1>9. root(n) \in 0 .. n - 1
  BY RootIn
<1>10. PICK nodes \in Seq(0 .. n - 1) : nodes = f[root(n)]
  BY <1>8, <1>9
<1>11. PICK fr \in Seq(0 .. n - 1) : fr = get_frontier(n)
  BY FrontierEntries
<1>12. fr \in Seq(Nat) /\ nodes \in Seq(Nat)
  OBVIOUS
<1>13. WalkRight(stop, find_distinguished_nodes(N),
                 {x \in find_distinguished_nodes(N) :
                    Cardinality({y \in find_distinguished_nodes(N) : y > x}) < MaxResponse}, N) = nodes
  <2> DEFINE R == {x \in D : Cardinality({y \in D : y > x}) < MaxResponse}
  <2>1. R = D
    BY <1>6
  <2>2. WalkRight(stop, D, D, n) = nodes
    <3>1. WalkRight(stop, D, D, n) = f[root(n)]
      BY <1>7, Zenon DEF Over
    <3> QED
      BY <1>10, <3>1, Zenon
  <2> HIDE DEF R
  <2>3. WalkRight(stop, D, R, n) = nodes
    BY <2>1, <2>2
  <2> QED
    BY <1>1, <1>5, <2>3 DEF R
<1>14. PICK o, u : /\ Reading(o, <<>>, get_frontier(N))
                   /\ Reading(u, o[Len(get_frontier(N))], nodes)
                   /\ u[Len(nodes)] \in Seq(Nat) /\ ToSet(u[Len(nodes)]) \subseteq 0 .. N - 1
                   /\ Plain(traverse_distinguished(N, stop), u[Len(nodes)])
  BY <1>1, <1>13, WalkAnswer
<1>15. PICK q : q = o[Len(fr)]
  OBVIOUS
<1>16. PICK e : e = <<>>
  OBVIOUS
<1>17. e \in Seq(Nat) /\ Reading(o, e, fr)
  BY <1>1, <1>11, <1>14, <1>16
<1>18. Len(fr) \in 0 .. Len(fr) /\ Len(nodes) \in 0 .. Len(nodes) /\ 0 \in 0 .. Len(nodes)
  OBVIOUS
<1>19. q \in Seq(Nat) /\ ToSet(fr) \subseteq ToSet(q)
  <2>1. q \in Seq(Nat) /\ ToSet(q) = Visited(e, fr, Len(fr))
    BY <1>12, <1>15, <1>17, <1>18, ReadingIs
  <2>2. DOMAIN fr = 1 .. Len(fr)
    BY <1>12
  <2>3. ToSet(fr) = {fr[i] : i \in 1 .. Len(fr)}
    BY <2>2 DEF ToSet
  <2> QED
    BY <2>1, <2>3 DEF Visited
<1>20. PICK all : all = u[Len(nodes)]
  OBVIOUS
<1>21. Honest(p, all)
  BY <1>14, <1>20 DEF Honest
<1>22. Reading(u, q, nodes)
  BY <1>1, <1>11, <1>14, <1>15
<1>23. Answer(u, f, nodes, q, T, stop)
  <2>1. \A x \in 0 .. N - 1 :
          f[x] = RightFirst(stop, Wide(log, N, log[N].ts), Wide(log, N, log[N].ts), N, x, f)
    BY <1>1, <1>2, <1>4, <1>8
  <2> QED
    BY <1>1, <1>11, <1>19, <1>22, <1>8, <2>1 DEF Answer
<1>24. Answered(p, u, f, nodes, q, T, stop)
  BY <1>20, <1>21, <1>23 DEF Answered
<1>25. p.timestamps \in Seq(Nat)
  BY AnswerStamps
<1>26. PICK m \in Nat : p.timestamps \in Seq(Nat) /\ Len(p.timestamps) = m
  <2>1. Len(p.timestamps) \in Nat
    BY <1>25
  <2> QED
    BY <1>25, <2>1
<1>27. PICK w : w = e
  OBVIOUS
<1>28. ReadFrontier(p, N, <<>>) = Reader(q, w)
  <2>1. Begins(q, all)
    <3>1. Begins(u[0], u[Len(nodes)])
      BY <1>12, <1>18, <1>19, <1>22, ReadingBegins
    <3> QED
      BY <1>20, <1>22, <3>1 DEF Reading
  <2>2. timestamps(Reader(e, w), p, fr) = Reader(o[Len(fr)], w)
    <3>1. fr \in Seq(0 .. N - 1) /\ Begins(o[Len(fr)], all)
      BY <1>1, <1>15, <2>1
    <3> QED
      BY <1>17, <1>21, <3>1, TimestampsRead
  <2>3. NewReader(w) = Reader(e, w)
    BY <1>16, NewReaderReads
  <2> QED
    BY <1>1, <1>11, <1>15, <1>16, <1>27, <2>2, <2>3 DEF ReadFrontier
<1>29. PICK b : b = NewReader(<<>>)
  OBVIOUS
<1>30. PICK r : r = Reader(q, w)
  OBVIOUS
<1>31. r \in Readers(b, n, m)
  BY <1>1, <1>26, <1>28, <1>29, <1>30, FrontierReader
<1>32. ReplayRight(r, p, T, stop, N).reader = Reader(u[Len(nodes)], w)
  <2>1. nodes = f[root(N)] /\ r \in Readers(b, N, m)
    BY <1>1, <1>10, <1>31
  <2>2. p.timestamps \in Seq(Nat) /\ Len(p.timestamps) = m
    BY <1>26
  <2> QED
    BY <2>2, <1>24, <1>26, <1>30, <2>1, ReplayReads
<1>33. finish(Reader(all, w), p, N)
  BY <1>21, ReaderDone
<1> QED
  BY <1>20, <1>28, <1>30, <1>32, <1>33

\* The head a client works with is not older than the last entry of the log.
LEMMA HeadAfterLog ==
  ASSUME IInv, N # 0, NEW c \in Clients
  PROVE  FullTreeHead(c).ts \in Nat /\ log[N].ts <= FullTreeHead(c).ts
<1>1. log[N].ts <= head /\ head \in Nat /\ N \in Nat
  BY DEF IInv, TypeInv, OrderInv, N
<1>2. state[c] \in [size : Nat, ts : Nat] /\ HeadInv(state[c])
  BY DEF IInv, TypeInv, ClientInv
<1>3. CASE state[c].size = N
  <2>1. FullTreeHead(c) = state[c]
    BY <1>3 DEF FullTreeHead
  <2> QED
    BY <1>1, <1>2, <1>3, <2>1 DEF HeadInv
<1>4. CASE state[c].size # N
  <2>1. FullTreeHead(c).ts = head
    BY <1>4 DEF FullTreeHead
  <2> QED
    BY <1>1, <2>1
<1> QED
  BY <1>3, <1>4

\* WalkVerifies: the answer to a distinguished walk verifies at any client, with any log, any
\* window, any stopping position and however often the head was stamped anew, as long as its
\* entries fit into one response (traverse_distinguished against verify_distinguished).
THEOREM WalksVerify ==
  Spec => []WalkVerifies
<1>1. IInv => WalkVerifies
  <2> SUFFICES ASSUME IInv, N > 0, Cardinality(find_distinguished_nodes(N)) <= MaxResponse,
                      NEW c \in Clients, NEW stop \in None .. N - 1
               PROVE  verify_distinguished(c, stop).ok
    BY DEF WalkVerifies
  <2>1. N \in Nat \ {0} /\ InOrder(log) /\ RMW \in Nat \ {0}
    BY WindowAssumption DEF IInv, TypeInv, OrderInv, N
  <2>2. PICK T \in Nat : T = FullTreeHead(c).ts /\ log[N].ts <= T
    BY <2>1, HeadAfterLog
  <2>3. PICK p : p = traverse_distinguished(N, stop)
    OBVIOUS
  <2>4. finish(ReplayRight(ReadFrontier(p, N, <<>>), p, T, stop, N).reader, p, N)
    BY <2>1, <2>2, <2>3, AnswerVerifies
  <2> QED
    BY <2>2, <2>3, <2>4 DEF verify_distinguished
<1> QED
  BY <1>1, Invariance, PTL
=============================================================================
