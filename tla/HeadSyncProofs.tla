--------------------------- MODULE HeadSyncProofs ---------------------------
(***************************************************************************)
(* Proofs about the roots of the log and of its auditor, for every size,   *)
(* every portion an auditor replays and every restart.                     *)
(*                                                                         *)
(* What the log reads for a node is the tree hash of the entries under it  *)
(* (ResolvedIsTreeHash), whether the node is stored, collapses to its left *)
(* child or is computed from its children.  After a failed batch this can  *)
(* be one entry too many (ResolvedIs).  An accumulator holds the full      *)
(* subtrees of powers of two that get smaller to the right (Canonical);    *)
(* appending an entry merges the equal ones (AppendKeeps), and folding     *)
(* them from the right gives the tree hash again (IncrementalRoot).        *)
(*                                                                         *)
(* The recursive functions are shown to exist with values in some set of   *)
(* hashes; what they compute then follows by the least counterexample.     *)
(*                                                                         *)
(* recursive_hash, the client's fold over a proof, is defined for whatever *)
(* elements it is given (FoldOutcomes).  As different trees have different *)
(* hashes, a fold that ends at the right root captured only right hashes   *)
(* (FoldSound); it captures both children of everything on the way down    *)
(* (FoldReaches), so every peak of the log (PeaksReached): what the client *)
(* retains after a query is the log's (RetainsTheLog).                     *)
(*                                                                         *)
(* recursive_needed emits, node by node, what that fold consumes, when     *)
(* both walk below the same nodes (FoldAccepts).  An auditor at most one   *)
(* entry behind keeps them the same: the path the log adds for it is       *)
(* already above the entries of every search (BoundaryIsAbove).  So the    *)
(* client accepts the log's own answers (HonestAnswersVerify).             *)
(***************************************************************************)
EXTENDS HeadSync, LogMathProofs

\* A set of hashes: the terms of some depth at most.
Hashes(V) ==
  /\ Err \in V /\ \A i \in Nat : Leaf(i) \in V
  /\ \A l, r \in V, a, b \in BOOLEAN : log_parent_value(l, a, r, b) \in V

Base(S) == S \cup {Err} \cup {Leaf(i) : i \in Nat}
Deeper(S) == S \cup {log_parent_value(c[1], c[2], c[3], c[4]) : c \in S \X BOOLEAN \X S \X BOOLEAN}
Depth(n, f, base) == IF n = 0 THEN base ELSE Deeper(f[n - 1])

\* Such a set exists over any values S: the terms of depth 0, 1, ... together.
LEMMA HashesOver ==
  ASSUME NEW S
  PROVE  \E V : Hashes(V) /\ S \subseteq V
<1>0. PICK base : base = Base(S)
  OBVIOUS
<1> DEFINE From(f, i) == \A n \in 0 .. i : f[n] = Depth(n, f, base)
           Missing == {i \in Nat : ~\E f : From(f, i)}
<1>1. ASSUME Missing # {} PROVE FALSE
  <2>1. PICK i \in Missing : \A j \in Nat : j < i => j \notin Missing
    <3>1. Missing \in SUBSET Nat
      OBVIOUS
    <3> HIDE DEF Missing
    <3> QED
      BY <1>1, <3>1, LeastElement
  <2>2. i \in Nat /\ ~\E f : From(f, i)
    OBVIOUS
  <2>3. CASE i = 0
    <3>1. PICK f : f = [n \in {0} |-> base]
      OBVIOUS
    <3>2. From(f, 0)
      BY <3>1 DEF Depth
    <3> QED
      BY <2>2, <2>3, <3>2
  <2>4. CASE i # 0
    <3>1. PICK j \in Nat : j = i - 1 /\ j < i
      BY <2>2, <2>4
    <3>2. PICK f : From(f, j)
      BY <2>1, <3>1
    <3>3. PICK g : g = [n \in 0 .. i |-> IF n = i THEN Deeper(f[j]) ELSE f[n]]
      OBVIOUS
    <3>4. g[i] = Deeper(f[j]) /\ \A n \in 0 .. j : g[n] = f[n]
      BY <3>1, <3>3
    <3>5. ASSUME NEW n \in 0 .. i PROVE g[n] = Depth(n, g, base)
      <4>1. CASE n = i
        BY <2>4, <3>1, <3>4, <4>1 DEF Depth
      <4>2. CASE n # i
        <5>1. n \in 0 .. j /\ (n # 0 => n - 1 \in 0 .. j)
          BY <3>1, <4>2
        <5>2. f[n] = Depth(n, f, base)
          BY <3>2, <5>1
        <5> QED
          BY <3>4, <5>1, <5>2 DEF Depth
      <4> QED
        BY <4>1, <4>2
    <3> QED
      BY <2>2, <3>5
  <2> QED
    BY <2>3, <2>4
<1>2. PICK h : h = [i \in Nat |-> CHOOSE f : From(f, i)]
  OBVIOUS
<1>3. \A i \in Nat : From(h[i], i)
  <2>1. \A i \in Nat : \E f : From(f, i)
    BY <1>1
  <2> HIDE DEF From
  <2> QED
    BY <1>2, <2>1
<1> HIDE DEF Missing
<1>4. ASSUME NEW i \in Nat, NEW j \in Nat, i <= j PROVE h[i][i] = h[j][i]
  <2> DEFINE Apart == {n \in 0 .. i : h[i][n] # h[j][n]}
  <2>1. ASSUME Apart # {} PROVE FALSE
    <3>1. PICK n \in Apart : \A m \in Nat : m < n => m \notin Apart
      <4>1. Apart \in SUBSET Nat
        OBVIOUS
      <4> HIDE DEF Apart
      <4> QED
        BY <2>1, <4>1, LeastElement
    <3>2. n \in 0 .. i /\ n \in 0 .. j /\ h[i][n] # h[j][n] /\ (n # 0 => h[i][n - 1] = h[j][n - 1])
      BY <1>4, <3>1
    <3>3. h[i][n] = Depth(n, h[i], base) /\ h[j][n] = Depth(n, h[j], base)
      BY <1>3, <3>2
    <3> QED
      BY <3>2, <3>3 DEF Depth
  <2> QED
    BY <2>1
<1>5. PICK T : T = [i \in Nat |-> h[i][i]]
  OBVIOUS
<1>6. T[0] = base
  BY <1>3, <1>5 DEF Depth
<1>7. ASSUME NEW i \in Nat PROVE T[i + 1] = Deeper(T[i])
  <2>1. PICK j \in Nat : j = i + 1 /\ j - 1 = i /\ j # 0 /\ i <= j /\ j \in 0 .. j
    OBVIOUS
  <2>2. h[j][j] = Depth(j, h[j], base)
    BY <1>3, <2>1
  <2>3. h[j][i] = h[i][i]
    BY <1>4, <2>1
  <2> QED
    BY <1>5, <2>1, <2>2, <2>3 DEF Depth
<1>8. \A i \in Nat, j \in Nat : i <= j => T[i] \subseteq T[j]
  <2> TAKE i \in Nat
  <2> DEFINE Lost == {j \in Nat : i <= j /\ ~(T[i] \subseteq T[j])}
  <2>1. ASSUME Lost # {} PROVE FALSE
    <3>1. PICK j \in Lost : \A m \in Nat : m < j => m \notin Lost
      <4>1. Lost \in SUBSET Nat
        OBVIOUS
      <4> HIDE DEF Lost
      <4> QED
        BY <2>1, <4>1, LeastElement
    <3>2. j \in Nat /\ i <= j /\ ~(T[i] \subseteq T[j])
      OBVIOUS
    <3>3. PICK m \in Nat : m + 1 = j /\ i <= m /\ m < j
      <4>1. i # j
        BY <3>2
      <4>2. j - 1 \in Nat /\ (j - 1) + 1 = j /\ i <= j - 1 /\ j - 1 < j
        BY <3>2, <4>1
      <4> QED
        BY <4>2
    <3>4. T[i] \subseteq T[m] /\ T[m] \subseteq T[j]
      BY <1>7, <3>1, <3>3 DEF Deeper
    <3> QED
      BY <3>2, <3>4
  <2> QED
    BY <2>1
<1>9. PICK V : V = UNION {T[i] : i \in Nat}
  OBVIOUS
<1>10. base \subseteq V
  BY <1>6, <1>9
<1>11. ASSUME NEW l \in V, NEW r \in V, NEW a \in BOOLEAN, NEW b \in BOOLEAN
       PROVE  log_parent_value(l, a, r, b) \in V
  <2>1. PICK i \in Nat, j \in Nat : l \in T[i] /\ r \in T[j]
    BY <1>9
  <2>2. PICK k \in Nat : i <= k /\ j <= k
    OBVIOUS
  <2>3. l \in T[k] /\ r \in T[k]
    BY <1>8, <2>1, <2>2
  <2>4. log_parent_value(l, a, r, b) \in Deeper(T[k])
    <3>1. PICK c \in T[k] \X BOOLEAN \X T[k] \X BOOLEAN : c = <<l, a, r, b>>
      BY <2>3
    <3>2. log_parent_value(c[1], c[2], c[3], c[4]) = log_parent_value(l, a, r, b)
      BY <3>1
    <3> QED
      BY <3>2 DEF Deeper
  <2> QED
    BY <1>7, <1>9, <2>4
<1>12. Hashes(V) /\ S \subseteq V
  BY <1>0, <1>10, <1>11 DEF Hashes, Base
<1> QED
  BY <1>12

\* In particular there is one.
LEMMA HashesExist == \E V : Hashes(V)
<1>1. PICK V : Hashes(V) /\ {} \subseteq V
  BY HashesOver
<1> QED
  BY <1>1

\* The size of the left subtree.
Split(n) == IF msb[n] = n THEN n \div 2 ELSE msb[n]

\* It is the greatest power of two below the size.
LEMMA SplitIs ==
  ASSUME NEW n \in Nat, n > 1
  PROVE  Split(n) \in Pow /\ Split(n) \in Nat \ {0} /\ Split(n) < n /\ n <= 2 * Split(n)
<1>1. PICK m \in Pow : m = msb[n] /\ m \in Nat \ {0} /\ m <= n /\ n < 2 * m
  BY MsbIsPow
<1>2. CASE m = n
  <2>1. n # 1 /\ n \div 2 \in Pow /\ 2 * (n \div 2) = n /\ n \div 2 < n
    BY <1>1, <1>2, PowHalves
  <2>2. n \div 2 \in Nat \ {0}
    BY <2>1
  <2>3. Split(n) = n \div 2
    BY <1>1, <1>2 DEF Split
  <2> QED
    BY <2>1, <2>2, <2>3
<1>3. CASE m # n
  BY <1>1, <1>3 DEF Split
<1> QED
  BY <1>2, <1>3

\* ... and the only power of two that leaves no more on the right than it takes on the left.
LEMMA SplitOnly ==
  ASSUME NEW n \in Nat, NEW k \in Pow, k < n, n <= 2 * k
  PROVE  Split(n) = k
<1>1. k \in Nat \ {0} /\ n > 1
  BY PowHalves
<1>2. PICK m \in Pow : m = Split(n) /\ m \in Nat \ {0} /\ m < n /\ n <= 2 * m
  BY <1>1, SplitIs
<1>3. (k < m => 2 * k <= m) /\ (m < k => 2 * m <= k)
  BY PowGap
<1> QED
  BY <1>1, <1>2, <1>3

\* One step of the definition of the tree hash, with f for the smaller trees.
Tree(lo, n, f) ==
  IF n = 1 THEN Leaf(lo)
  ELSE log_parent_value(f[<<lo, Split(n)>>], Split(n) = 1, f[<<lo + Split(n), n - Split(n)>>], n = 2)

\* The tree hash satisfies its recursive definition.
LEMMA TreeHashDefined ==
  ASSUME NEW V, Hashes(V)
  PROVE  \A lo \in Nat, n \in Nat \ {0} : TreeHash[<<lo, n>>] \in V /\ TreeHash[<<lo, n>>] = Tree(lo, n, TreeHash)
<1> DEFINE S == Nat \X (Nat \ {0})
           F == [a \in [S -> V] \X S |-> Tree(a[2][1], a[2][2], a[1])]
           mu == [x \in S |-> x[2]]
<1>1. \A f \in [S -> V], x \in S : Tree(x[1], x[2], f) \in V
  <2> TAKE f \in [S -> V], x \in S
  <2>1. PICK lo \in Nat, n \in Nat \ {0} : lo = x[1] /\ n = x[2]
    OBVIOUS
  <2>2. CASE n = 1
    BY <2>1, <2>2 DEF Tree, Hashes
  <2>3. CASE n # 1
    <3>1. PICK k \in Nat \ {0} : k = Split(n) /\ k < n
      BY <2>3, SplitIs
    <3>2. <<lo, k>> \in S /\ <<lo + k, n - k>> \in S
      BY <3>1
    <3>3. f[<<lo, k>>] \in V /\ f[<<lo + k, n - k>>] \in V
      BY <3>2
    <3>4. log_parent_value(f[<<lo, k>>], k = 1, f[<<lo + k, n - k>>], n = 2) \in V
      BY <3>3 DEF Hashes
    <3> QED
      BY <2>1, <2>3, <3>1, <3>4 DEF Tree
  <2> QED
    BY <2>2, <2>3
<1>2. \A f \in [S -> V], x \in S : F[<<f, x>>] = Tree(x[1], x[2], f)
  OBVIOUS
<1>3. F \in [[S -> V] \X S -> V]
  <2>1. \A a \in [S -> V] \X S : Tree(a[2][1], a[2][2], a[1]) \in V
    BY <1>1
  <2> QED
    BY <2>1
<1>4. mu \in [S -> Nat] /\ \A x \in S : mu[x] = x[2]
  OBVIOUS
<1> HIDE DEF F, mu
<1>5. ASSUME NEW f \in [S -> V], NEW g \in [S -> V], NEW x \in S,
             \A y \in S : mu[y] < mu[x] => f[y] = g[y]
      PROVE  F[<<f, x>>] = F[<<g, x>>]
  <2>1. PICK lo \in Nat, n \in Nat \ {0} : lo = x[1] /\ n = x[2]
    OBVIOUS
  <2>2. ASSUME n # 1
        PROVE  f[<<lo, Split(n)>>] = g[<<lo, Split(n)>>] /\ f[<<lo + Split(n), n - Split(n)>>] = g[<<lo + Split(n), n - Split(n)>>]
    <3>1. PICK k \in Nat \ {0} : k = Split(n) /\ k < n
      BY <2>2, SplitIs
    <3>2. <<lo, k>> \in S /\ <<lo + k, n - k>> \in S /\ n - k < n
      BY <3>1
    <3>3. mu[<<lo, k>>] < mu[x] /\ mu[<<lo + k, n - k>>] < mu[x]
      BY <1>4, <2>1, <3>1, <3>2
    <3> QED
      BY <1>5, <3>1, <3>2, <3>3
  <2>3. Tree(lo, n, f) = Tree(lo, n, g)
    BY <2>2 DEF Tree
  <2> QED
    BY <1>2, <2>1, <2>3
<1>6. Measured(F, S, V, mu)
  BY <1>3, <1>4, <1>5, Zenon DEF Measured
<1>7. PICK f \in [S -> V] : \A x \in S : f[x] = F[<<f, x>>]
  <2>1. PICK v : v \in V
    BY DEF Hashes
  <2>2. PICK Z : Z = S
    OBVIOUS
  <2>3. Measured(F, Z, V, mu)
    BY <1>6, <2>2
  <2>4. PICK G, m : G = F /\ m = mu /\ Measured(G, Z, V, m)
    BY <2>3
  <2>5. \E f \in [Z -> V] : \A x \in Z : f[x] = G[<<f, x>>]
    <3>1. v \in V /\ Measured(G, Z, V, m)
      BY <2>1, <2>4
    <3> HIDE DEF S
    <3> QED
      BY <3>1, MeasuredRecursion
  <2> QED
    BY <2>2, <2>4, <2>5
<1> DEFINE Is(g) == g = [x \in S |-> Tree(x[1], x[2], g)]
<1>9. Is(f)
  BY <1>2, <1>7
<1>10. Is(TreeHash)
  BY <1>9 DEF TreeHash, Tree, Split
<1>11. \A lo \in Nat, n \in Nat \ {0} : TreeHash[<<lo, n>>] = Tree(lo, n, TreeHash)
  BY <1>10
<1> DEFINE Wrong == {n \in Nat : n # 0 /\ ~\A lo \in Nat : TreeHash[<<lo, n>>] \in V}
<1>12. ASSUME Wrong # {} PROVE FALSE
  <2>1. PICK n \in Wrong : \A y \in Nat : y < n => y \notin Wrong
    <3>1. Wrong \in SUBSET Nat
      OBVIOUS
    <3> HIDE DEF Wrong
    <3> QED
      BY <1>12, <3>1, LeastElement
  <2>2. n \in Nat \ {0} /\ \A m \in Nat \ {0} : m < n => \A lo \in Nat : TreeHash[<<lo, m>>] \in V
    BY <2>1
  <2>3. ASSUME NEW lo \in Nat PROVE TreeHash[<<lo, n>>] \in V
    <3>1. CASE n = 1
      BY <1>11, <2>2, <3>1, ZenonT(30) DEF Tree, Hashes
    <3>2. CASE n # 1
      <4>1. PICK k \in Nat \ {0} : k = Split(n) /\ k < n
        BY <2>2, <3>2, SplitIs
      <4>2. TreeHash[<<lo, k>>] \in V
        BY <2>2, <4>1
      <4>3. TreeHash[<<lo + k, n - k>>] \in V
        <5>1. n - k \in Nat \ {0} /\ n - k < n /\ lo + k \in Nat
          BY <2>2, <4>1
        <5> QED
          BY <2>2, <5>1
      <4>4. log_parent_value(TreeHash[<<lo, k>>], k = 1, TreeHash[<<lo + k, n - k>>], n = 2) \in V
        BY <4>2, <4>3 DEF Hashes
      <4> QED
        BY <1>11, <2>2, <3>2, <4>1, <4>4 DEF Tree
    <3> QED
      BY <3>1, <3>2
  <2> QED
    BY <2>1, <2>3
<1> QED
  BY <1>11, <1>12

\* The tree hash over a block is made of those over its parts.
LEMMA TreeHashSplits ==
  /\ \A lo \in Nat : TreeHash[<<lo, 1>>] = Leaf(lo)
  /\ \A lo \in Nat, n \in Nat, k \in Pow : k < n /\ n <= 2 * k =>
       TreeHash[<<lo, n>>] = log_parent_value(TreeHash[<<lo, k>>], k = 1,
                                              TreeHash[<<lo + k, n - k>>], n = 2)
  /\ \A lo \in Nat, n \in Nat \ {0} : TreeHash[<<lo, n>>] # Err
<1>1. \A lo \in Nat, n \in Nat \ {0} : TreeHash[<<lo, n>>] = Tree(lo, n, TreeHash)
  <2>1. PICK V : Hashes(V)
    BY HashesExist
  <2> QED
    BY <2>1, TreeHashDefined
<1>2. \A lo \in Nat : TreeHash[<<lo, 1>>] = Leaf(lo)
  <2> TAKE lo \in Nat
  <2>1. TreeHash[<<lo, 1>>] = Tree(lo, 1, TreeHash)
    BY <1>1
  <2> QED
    BY <2>1 DEF Tree
<1>3. ASSUME NEW lo \in Nat, NEW n \in Nat, NEW k \in Pow, k < n, n <= 2 * k
      PROVE  TreeHash[<<lo, n>>] = log_parent_value(TreeHash[<<lo, k>>], k = 1,
                                                    TreeHash[<<lo + k, n - k>>], n = 2)
  <2>1. Split(n) = k /\ k \in Nat \ {0} /\ n # 1 /\ n \in Nat \ {0}
    BY <1>3, SplitOnly, PowHalves
  <2> QED
    BY <1>1, <2>1 DEF Tree
<1>4. ASSUME NEW lo \in Nat, NEW n \in Nat \ {0} PROVE TreeHash[<<lo, n>>] # Err
  <2>1. CASE n = 1
    <3>1. TreeHash[<<lo, n>>] = Leaf(lo)
      BY <1>2, <2>1
    <3> QED
      BY <3>1 DEF Leaf, Err
  <2>2. CASE n # 1
    <3>1. TreeHash[<<lo, n>>] = Tree(lo, n, TreeHash)
      BY <1>1
    <3>2. TreeHash[<<lo, n>>] = log_parent_value(TreeHash[<<lo, Split(n)>>], Split(n) = 1,
                                  TreeHash[<<lo + Split(n), n - Split(n)>>], n = 2)
      BY <2>2, <3>1 DEF Tree
    <3>3. \A l, a, r, b : log_parent_value(l, a, r, b) # Err
      BY DEF log_parent_value, Err
    <3> QED
      BY <3>2, <3>3
  <2> QED
    BY <2>1, <2>2
<1> QED
  BY <1>2, <1>3, <1>4

\* The entries of a node that are in a log of n entries.
Width(lo, s, n) == IF lo + s <= n THEN s ELSE n - lo

\* One step of recompute_intermediates.
Chunk(node, f) ==
  IF is_leaf(node) THEN Leaf(node \div 2)
  ELSE log_parent_value(f[left_child(node)], is_leaf(left_child(node)),
                        f[full_right(node)], is_leaf(full_right(node)))

\* The values of the node chunks satisfy their recursive definition.
LEMMA ChunkDefined ==
  ASSUME NEW V, Hashes(V)
  PROVE  \A x \in Nat : ChunkValue[x] \in V /\ ChunkValue[x] = Chunk(x, ChunkValue)
<1>1. \A x \in Nat : ~is_leaf(x) => /\ left_child(x) \in Nat /\ full_right(x) \in Nat
                                    /\ span[left_child(x)] < span[x] /\ span[full_right(x)] < span[x]
  <2> TAKE x \in Nat
  <2> HAVE ~is_leaf(x)
  <2>1. x % 2 # 0 /\ left_child(x) = x - span[x] \div 2 /\ full_right(x) = x + span[x] \div 2
    BY DEF is_leaf, left_child, full_right
  <2>2. PICK h \in Nat \ {0} : /\ h = span[x] \div 2 /\ 2 * h = span[x] /\ x - h \in Nat
                               /\ span[x - h] = h /\ span[x + h] = h
    BY <2>1, ChildSpans
  <2> QED
    BY <2>1, <2>2
<1> DEFINE F == [a \in [Nat -> V] \X Nat |-> Chunk(a[2], a[1])]
<1>2. \A f \in [Nat -> V], x \in Nat : Chunk(x, f) \in V
  <2> TAKE f \in [Nat -> V], x \in Nat
  <2>1. CASE is_leaf(x)
    <3>1. x \div 2 \in Nat
      OBVIOUS
    <3> QED
      BY <2>1, <3>1 DEF Chunk, Hashes
  <2>2. CASE ~is_leaf(x)
    <3>1. f[left_child(x)] \in V /\ f[full_right(x)] \in V
      BY <1>1, <2>2
    <3>2. is_leaf(left_child(x)) \in BOOLEAN /\ is_leaf(full_right(x)) \in BOOLEAN
      BY DEF is_leaf
    <3> QED
      BY <2>2, <3>1, <3>2 DEF Chunk, Hashes
  <2> QED
    BY <2>1, <2>2
<1>3. \A f \in [Nat -> V], x \in Nat : F[<<f, x>>] = Chunk(x, f)
  OBVIOUS
<1>4. F \in [[Nat -> V] \X Nat -> V]
  <2>1. \A a \in [Nat -> V] \X Nat : Chunk(a[2], a[1]) \in V
    BY <1>2
  <2> QED
    BY <2>1
<1> HIDE DEF F
<1>5. ASSUME NEW f \in [Nat -> V], NEW g \in [Nat -> V], NEW x \in Nat,
             \A y \in Nat : span[y] < span[x] => f[y] = g[y]
      PROVE  F[<<f, x>>] = F[<<g, x>>]
  <2>1. Chunk(x, f) = Chunk(x, g)
    BY <1>1, <1>5 DEF Chunk
  <2> QED
    BY <1>3, <2>1
<1>6. PICK mu : mu = [x \in Nat |-> span[x]]
  OBVIOUS
<1>7. mu \in [Nat -> Nat] /\ \A x \in Nat : mu[x] = span[x]
  BY <1>6, SpanBounds
<1>8. Measured(F, Nat, V, mu)
  <2>1. \A f, g \in [Nat -> V], x \in Nat :
          (\A y \in Nat : mu[y] < mu[x] => f[y] = g[y]) => F[<<f, x>>] = F[<<g, x>>]
    BY <1>5, <1>7
  <2> QED
    BY <1>4, <1>7, <2>1, Zenon DEF Measured
<1>9. PICK f \in [Nat -> V] : \A x \in Nat : f[x] = F[<<f, x>>]
  <2>1. PICK v : v \in V
    BY DEF Hashes
  <2>2. PICK Z : Z = Nat
    OBVIOUS
  <2>3. PICK G : G = F /\ Measured(G, Z, V, mu)
    BY <1>8, <2>2
  <2>4. \E e \in [Z -> V] : \A x \in Z : e[x] = G[<<e, x>>]
    <3>1. v \in V /\ Measured(G, Z, V, mu)
      BY <2>1, <2>3
    <3> QED
      BY <3>1, MeasuredRecursion
  <2> QED
    BY <2>2, <2>3, <2>4
<1> DEFINE Is(g) == g = [x \in Nat |-> Chunk(x, g)]
<1>10. Is(f)
  BY <1>3, <1>9
<1>11. Is(ChunkValue)
  BY <1>10 DEF ChunkValue, Chunk
<1>12. \A x \in Nat : ChunkValue[x] = Chunk(x, ChunkValue)
  BY <1>11
<1> DEFINE Wrong == {s \in Nat : \E x \in Nat : span[x] = s /\ ChunkValue[x] \notin V}
<1> HIDE DEF Is
<1>13. ASSUME Wrong # {} PROVE FALSE
  <2>1. PICK s \in Wrong : \A y \in Nat : y < s => y \notin Wrong
    <3>1. Wrong \in SUBSET Nat
      OBVIOUS
    <3> HIDE DEF Wrong
    <3> QED
      BY <1>13, <3>1, LeastElement
  <2>2. PICK x \in Nat : span[x] = s /\ ChunkValue[x] \notin V
    OBVIOUS
  <2>3. \A y \in Nat : span[y] < s => ChunkValue[y] \in V
    BY <2>1, SpanBounds
  <2>4. PICK e : e = [y \in Nat |-> IF span[y] < s THEN ChunkValue[y] ELSE Err]
    OBVIOUS
  <2>5. e \in [Nat -> V]
    BY <2>3, <2>4 DEF Hashes
  <2>6. Chunk(x, e) = Chunk(x, ChunkValue)
    BY <1>1, <2>2, <2>4 DEF Chunk
  <2> QED
    BY <1>2, <1>12, <2>2, <2>5, <2>6
<1>14. \A x \in Nat : ChunkValue[x] \in V
  <2>1. \A x \in Nat : span[x] \in Nat
    BY SpanBounds
  <2> QED
    BY <1>13, <2>1
<1> QED
  BY <1>12, <1>14

\* A node chunk holds the tree hash over the block of every node in it.
LEMMA ChunkIsTreeHash ==
  \A lo, s : Block(lo, s) => ChunkValue[Node(lo, s)] = TreeHash[<<lo, s>>]
<1> DEFINE Right(s) == \A lo : Block(lo, s) => ChunkValue[Node(lo, s)] = TreeHash[<<lo, s>>]
           Wrong == {s \in Nat : ~Right(s)}
<1>1. ASSUME Wrong # {} PROVE FALSE
  <2>1. PICK s \in Wrong : \A y \in Nat : y < s => y \notin Wrong
    <3>1. Wrong \in SUBSET Nat
      OBVIOUS
    <3> HIDE DEF Wrong
    <3> QED
      BY <1>1, <3>1, LeastElement
  <2>2. s \in Nat /\ ~Right(s) /\ \A y \in Nat : y < s => Right(y)
    BY <2>1
  <2>3. PICK lo : Block(lo, s) /\ ChunkValue[Node(lo, s)] # TreeHash[<<lo, s>>]
    BY <2>2
  <2>4. lo \in Nat
    BY <2>3 DEF Block
  <2>5. Node(lo, s) \in Nat
    BY <2>3, <2>4, BlockOf
  <2>6. ChunkValue[Node(lo, s)] = Chunk(Node(lo, s), ChunkValue)
    <3>1. PICK V : Hashes(V)
      BY HashesExist
    <3> QED
      BY <2>5, <3>1, ChunkDefined
  <2>7. CASE s = 1
    <3>1. is_leaf(Node(lo, s)) /\ Node(lo, s) \div 2 = lo
      BY <2>3, <2>4, <2>7, BlockHalves DEF Node
    <3> QED
      BY <2>3, <2>4, <2>6, <2>7, <3>1, TreeHashSplits DEF Chunk
  <2>8. CASE s # 1
    <3>1. PICK h \in Pow : /\ h \in Nat \ {0} /\ s = 2 * h
                           /\ Block(lo, h) /\ left_child(Node(lo, s)) = Node(lo, h)
                           /\ Block(lo + h, h) /\ full_right(Node(lo, s)) = Node(lo + h, h)
      BY <2>3, <2>8, BlockHalves
    <3>2. ~is_leaf(Node(lo, s)) /\ (is_leaf(Node(lo, h)) <=> h = 1) /\ (is_leaf(Node(lo + h, h)) <=> h = 1)
      BY <2>3, <2>8, <3>1, BlockHalves
    <3>3. /\ ChunkValue[Node(lo, h)] = TreeHash[<<lo, h>>]
          /\ ChunkValue[Node(lo + h, h)] = TreeHash[<<lo + h, h>>]
      BY <2>2, <3>1
    <3>4. TreeHash[<<lo, s>>] = log_parent_value(TreeHash[<<lo, h>>], h = 1, TreeHash[<<lo + h, h>>], h = 1)
      <4>1. h < s /\ s <= 2 * h /\ s - h = h /\ (s = 2 <=> h = 1)
        BY <3>1
      <4>2. TreeHash[<<lo, s>>] = log_parent_value(TreeHash[<<lo, h>>], h = 1, TreeHash[<<lo + h, s - h>>], s = 2)
        BY <2>2, <2>4, <4>1, TreeHashSplits
      <4> QED
        BY <4>1, <4>2
    <3>5. Chunk(Node(lo, s), ChunkValue) =
            log_parent_value(TreeHash[<<lo, h>>], h = 1, TreeHash[<<lo + h, h>>], h = 1)
      <4>1. is_leaf(Node(lo, h)) = (h = 1) /\ is_leaf(Node(lo + h, h)) = (h = 1)
        BY <3>2 DEF is_leaf
      <4> QED
        BY <3>1, <3>2, <3>3, <4>1 DEF Chunk
    <3> QED
      BY <2>3, <2>6, <3>4, <3>5
  <2> QED
    BY <2>7, <2>8
<1>2. \A lo, s : Block(lo, s) => s \in Nat
  BY DEF Block
<1> QED
  BY <1>1, <1>2

\* One step of resolve_node, with f for the values of the children.
Resolve(x, n, stored, f) ==
  IF Stored(x, stored) THEN ChunkValue[x]
  ELSE IF is_leaf(x) THEN Err
  ELSE LET l == left_child(x)
           r == right_child(x, n)
       IN  IF l = r THEN f[l]
           ELSE IF Err \in {f[l], f[r]} THEN Err
           ELSE log_parent_value(f[l], is_leaf(l), f[r], is_leaf(r))

\* f is what resolve_node computes, and satisfies its recursive definition.
Resolves(f, n, stored) ==
  \A x \in Nat : f[x] = Resolve(x, n, stored, f) /\ resolve_node(x, n, stored) = f[x]

\* resolve_node computes the one function that satisfies its recursive definition.
LEMMA ResolveDefined ==
  ASSUME NEW V, Hashes(V), NEW n \in Nat, NEW stored \in Nat
  PROVE  \E f \in [Nat -> V] : Resolves(f, n, stored)
<1>1. \A x \in Nat : ~is_leaf(x) => /\ left_child(x) \in Nat /\ right_child(x, n) \in Nat
                                    /\ span[left_child(x)] < span[x]
                                    /\ span[right_child(x, n)] < span[x]
  BY ChildrenAreSmaller
<1> DEFINE F == [a \in [Nat -> V] \X Nat |-> Resolve(a[2], n, stored, a[1])]
<1>2. \A f \in [Nat -> V], x \in Nat : Resolve(x, n, stored, f) \in V
  <2> TAKE f \in [Nat -> V], x \in Nat
  <2>1. ChunkValue[x] \in V /\ Err \in V
    BY ChunkDefined DEF Hashes
  <2>2. CASE is_leaf(x)
    BY <2>1, <2>2 DEF Resolve
  <2>3. CASE ~is_leaf(x)
    <3>1. f[left_child(x)] \in V /\ f[right_child(x, n)] \in V
      BY <1>1, <2>3
    <3>2. is_leaf(left_child(x)) \in BOOLEAN /\ is_leaf(right_child(x, n)) \in BOOLEAN
      BY DEF is_leaf
    <3>3. log_parent_value(f[left_child(x)], is_leaf(left_child(x)),
                           f[right_child(x, n)], is_leaf(right_child(x, n))) \in V
      BY <3>1, <3>2 DEF Hashes
    <3> QED
      BY <2>1, <3>1, <3>3 DEF Resolve
  <2> QED
    BY <2>2, <2>3
<1>3. \A f \in [Nat -> V], x \in Nat : F[<<f, x>>] = Resolve(x, n, stored, f)
  OBVIOUS
<1>4. F \in [[Nat -> V] \X Nat -> V]
  <2>1. \A a \in [Nat -> V] \X Nat : Resolve(a[2], n, stored, a[1]) \in V
    BY <1>2
  <2> QED
    BY <2>1
<1> HIDE DEF F
<1>5. ASSUME NEW f \in [Nat -> V], NEW g \in [Nat -> V], NEW x \in Nat,
             \A y \in Nat : span[y] < span[x] => f[y] = g[y]
      PROVE  F[<<f, x>>] = F[<<g, x>>]
  <2>1. Resolve(x, n, stored, f) = Resolve(x, n, stored, g)
    <3>1. CASE is_leaf(x)
      BY <3>1 DEF Resolve
    <3>2. CASE ~is_leaf(x)
      <4>1. f[left_child(x)] = g[left_child(x)] /\ f[right_child(x, n)] = g[right_child(x, n)]
        BY <1>1, <1>5, <3>2
      <4> QED
        BY <4>1 DEF Resolve
    <3> QED
      BY <3>1, <3>2
  <2> QED
    BY <1>3, <2>1
<1>6. PICK mu : mu = [x \in Nat |-> span[x]]
  OBVIOUS
<1>7. mu \in [Nat -> Nat] /\ \A x \in Nat : mu[x] = span[x]
  BY <1>6, SpanBounds
<1>8. Measured(F, Nat, V, mu)
  <2>1. \A f, g \in [Nat -> V], x \in Nat :
          (\A y \in Nat : mu[y] < mu[x] => f[y] = g[y]) => F[<<f, x>>] = F[<<g, x>>]
    BY <1>5, <1>7
  <2> QED
    BY <1>4, <1>7, <2>1, Zenon DEF Measured
<1>9. PICK f \in [Nat -> V] : \A x \in Nat : f[x] = F[<<f, x>>]
  <2>1. PICK v : v \in V
    BY DEF Hashes
  <2>2. PICK Z : Z = Nat
    OBVIOUS
  <2>3. PICK G : G = F /\ Measured(G, Z, V, mu)
    BY <1>8, <2>2
  <2>4. \E e \in [Z -> V] : \A x \in Z : e[x] = G[<<e, x>>]
    <3>1. v \in V /\ Measured(G, Z, V, mu)
      BY <2>1, <2>3
    <3> QED
      BY <3>1, MeasuredRecursion
  <2> QED
    BY <2>2, <2>3, <2>4
<1> DEFINE Is(g) == g = [x \in Nat |-> Resolve(x, n, stored, g)]
           c == CHOOSE g : Is(g)
<1>10. Is(f)
  BY <1>3, <1>9
<1>11. Is(c)
  BY <1>10
<1>12. \A x \in Nat : resolve_node(x, n, stored) = c[x]
  BY DEF resolve_node, Resolve
<1> HIDE DEF c
<1> DEFINE Wrong == {s \in Nat : \E x \in Nat : span[x] = s /\ c[x] # f[x]}
<1>13. \A x \in Nat : c[x] = Resolve(x, n, stored, c) /\ f[x] = Resolve(x, n, stored, f)
  BY <1>10, <1>11
<1>14. ASSUME Wrong # {} PROVE FALSE
  <2>1. PICK s \in Wrong : \A y \in Nat : y < s => y \notin Wrong
    <3>1. Wrong \in SUBSET Nat
      OBVIOUS
    <3> HIDE DEF Wrong
    <3> QED
      BY <1>14, <3>1, LeastElement
  <2>2. PICK x \in Nat : span[x] = s /\ c[x] # f[x]
    OBVIOUS
  <2>3. \A y \in Nat : span[y] < s => c[y] = f[y]
    BY <2>1, SpanBounds
  <2>4. Resolve(x, n, stored, c) = Resolve(x, n, stored, f)
    <3>1. CASE is_leaf(x)
      BY <3>1 DEF Resolve
    <3>2. CASE ~is_leaf(x)
      <4>1. c[left_child(x)] = f[left_child(x)] /\ c[right_child(x, n)] = f[right_child(x, n)]
        BY <1>1, <2>2, <2>3, <3>2
      <4> QED
        BY <4>1 DEF Resolve
    <3> QED
      BY <3>1, <3>2
  <2> QED
    BY <1>13, <2>2, <2>4
<1>15. \A x \in Nat : c[x] = f[x]
  <2>1. \A x \in Nat : span[x] \in Nat
    BY SpanBounds
  <2> QED
    BY <1>14, <2>1
<1>16. Resolves(f, n, stored)
  BY <1>12, <1>13, <1>15 DEF Resolves
<1> QED
  BY <1>16

\* A node over more than one entry starts at an even one.
LEMMA BlockIsEven ==
  \A lo, s : Block(lo, s) /\ s # 1 => lo % 2 = 0 /\ s % 2 = 0
<1> DEFINE Even(s) == \A lo : Block(lo, s) /\ s # 1 => lo % 2 = 0
           Wrong == {s \in Nat : ~Even(s)}
<1>1. ASSUME Wrong # {} PROVE FALSE
  <2>1. PICK s \in Wrong : \A y \in Nat : y < s => y \notin Wrong
    <3>1. Wrong \in SUBSET Nat
      OBVIOUS
    <3> HIDE DEF Wrong
    <3> QED
      BY <1>1, <3>1, LeastElement
  <2>2. s \in Nat /\ ~Even(s) /\ \A y \in Nat : y < s => Even(y)
    BY <2>1
  <2>3. PICK lo \in Nat : Block(lo, s) /\ s # 1 /\ lo % 2 # 0
    BY <2>2 DEF Block
  <2>4. PICK h \in Pow : h \in Nat \ {0} /\ s = 2 * h /\ Block(lo, h)
    BY <2>3, BlockHalves
  <2>5. h = 1
    BY <2>2, <2>3, <2>4
  <2>6. span[2 * lo + 1] = 2
    <3>1. Node(lo, 2) = 2 * lo + 1 /\ span[Node(lo, 2)] = 2
      BY <2>3, <2>4, <2>5 DEF Block, Node
    <3> QED
      BY <3>1
  <2>7. PICK x \in Nat : x = 2 * lo + 1 /\ x % 2 # 0 /\ x \div 2 = lo
    <3>1. 2 * lo + 1 \in Nat /\ (2 * lo + 1) % 2 # 0 /\ (2 * lo + 1) \div 2 = lo
      OBVIOUS
    <3> QED
      BY <3>1
  <2>8. 2 * span[lo] = 2 /\ span[lo] \in Nat /\ span[lo] % 2 = 0
    <3>1. span[x] = 2 * span[lo]
      BY <2>7, SpanDefined
    <3>2. span[lo] \in Nat /\ span[lo] % 2 = 0
      BY <2>3, SpanBounds
    <3> QED
      BY <2>6, <2>7, <3>1, <3>2
  <2> QED
    BY <2>8
<1>2. ASSUME NEW lo, NEW s, Block(lo, s), s # 1 PROVE lo % 2 = 0 /\ s % 2 = 0
  <2>1. s \in Nat
    BY <1>2 DEF Block
  <2>2. lo % 2 = 0
    BY <1>1, <1>2, <2>1
  <2>3. s % 2 = 0
    BY <1>2, BlockOf, PowHalves DEF Block
  <2> QED
    BY <2>2, <2>3
<1> QED
  BY <1>2

\* The entries that resolve_node puts under a node of a log of n entries: those there are, and
\* with the leaf of a failed batch one more, where that completes a node over the last entry.
ReadWidth(lo, s, n, stored) ==
  IF stored > n /\ n % 2 = 1 /\ lo + s > n THEN n + 1 - lo ELSE Width(lo, s, n)

\* What the log reads for a node is the tree hash over these entries.
LEMMA ResolvedIs ==
  ASSUME NEW n \in Nat, NEW stored \in {n, n + 1}
  PROVE  \A lo, s : Block(lo, s) /\ lo < n =>
           resolve_node(Node(lo, s), n, stored) = TreeHash[<<lo, ReadWidth(lo, s, n, stored)>>]
<1>0. stored \in Nat
  OBVIOUS
<1>1. PICK V : Hashes(V)
  BY HashesExist
<1>2. PICK f \in [Nat -> V] : Resolves(f, n, stored)
  BY <1>0, <1>1, ResolveDefined
<1>3. \A x \in Nat : f[x] = Resolve(x, n, stored, f) /\ resolve_node(x, n, stored) = f[x]
  BY <1>2 DEF Resolves
<1> DEFINE Right(s) == \A lo : Block(lo, s) /\ lo < n =>
                         f[Node(lo, s)] = TreeHash[<<lo, ReadWidth(lo, s, n, stored)>>]
           Wrong == {s \in Nat : ~Right(s)}
<1>4. ASSUME Wrong # {} PROVE FALSE
  <2>1. PICK s \in Wrong : \A y \in Nat : y < s => y \notin Wrong
    <3>1. Wrong \in SUBSET Nat
      OBVIOUS
    <3> HIDE DEF Wrong
    <3> QED
      BY <1>4, <3>1, LeastElement
  <2>2. s \in Nat /\ ~Right(s) /\ \A y \in Nat : y < s => Right(y)
    BY <2>1
  <2>3. PICK lo : /\ Block(lo, s) /\ lo < n
                  /\ f[Node(lo, s)] # TreeHash[<<lo, ReadWidth(lo, s, n, stored)>>]
    BY <2>2
  <2> HIDE DEF Wrong
  <2>4. lo \in Nat /\ span[Node(lo, s)] = s /\ s \in Nat \ {0}
    BY <2>3 DEF Block
  <2>5. Node(lo, s) \in Nat
    BY <2>3, <2>4, BlockOf
  <2>6. f[Node(lo, s)] = Resolve(Node(lo, s), n, stored, f)
    BY <1>3, <2>5
  <2>7. leftmost_leaf_index[Node(lo, s)] = lo
    BY <2>3, LeftmostOf
  <2>e. s # 1 => lo % 2 = 0 /\ s % 2 = 0
    BY <2>3, BlockIsEven
  <2>8. CASE Stored(Node(lo, s), stored)
    <3>1. lo + s <= stored
      BY <2>4, <2>7, <2>8 DEF Stored
    <3>2. f[Node(lo, s)] = ChunkValue[Node(lo, s)]
      BY <2>6, <2>8 DEF Resolve
    <3>3. f[Node(lo, s)] = TreeHash[<<lo, s>>]
      BY <2>3, <3>2, ChunkIsTreeHash
    <3>4. ReadWidth(lo, s, n, stored) = s
      <4>1. CASE lo + s <= n
        BY <2>4, <4>1 DEF ReadWidth, Width
      <4>2. CASE lo + s > n
        <5>1. stored = n + 1 /\ lo + s = n + 1 /\ s # 1
          BY <2>3, <2>4, <3>1, <4>2
        <5>2. n % 2 = 1
          BY <2>4, <2>e, <5>1
        <5> QED
          BY <2>4, <4>2, <5>1, <5>2 DEF ReadWidth
      <4> QED
        BY <2>4, <4>1, <4>2
    <3> QED
      BY <2>3, <3>3, <3>4
  <2>9. CASE ~Stored(Node(lo, s), stored)
    <3>1. s # 1
      <4>1. ASSUME s = 1 PROVE FALSE
        <5>1. level[Node(lo, s)] = 0
          BY <2>4, <2>5, <4>1, PowSpans
        <5>2. lo + s <= stored
          BY <2>3, <2>4, <4>1
        <5> QED
          BY <2>4, <2>7, <2>9, <5>1, <5>2 DEF Stored
      <4> QED
        BY <4>1
    <3>2. PICK h \in Pow : /\ h \in Nat \ {0} /\ s = 2 * h
                           /\ Block(lo, h) /\ left_child(Node(lo, s)) = Node(lo, h)
                           /\ Block(lo + h, h)
      BY <2>3, <3>1, BlockHalves
    <3>3. right_child(Node(lo, s), n) = IF lo + h < n THEN Node(lo + h, h) ELSE Node(lo, h)
      BY <2>3, <3>2, RightChildOf
    <3>4. ~is_leaf(Node(lo, s)) /\ is_leaf(Node(lo, h)) = (h = 1) /\ is_leaf(Node(lo + h, h)) = (h = 1)
      <4>1. (is_leaf(Node(lo, h)) <=> h = 1) /\ (is_leaf(Node(lo + h, h)) <=> h = 1)
        BY <3>2, BlockHalves
      <4>2. ~is_leaf(Node(lo, s))
        BY <2>3, <3>1, BlockHalves
      <4> QED
        BY <4>1, <4>2 DEF is_leaf
    <3>5. f[Node(lo, h)] = TreeHash[<<lo, ReadWidth(lo, h, n, stored)>>]
      BY <2>2, <2>3, <3>2
    <3>6. CASE n <= lo + h
      <4>1. right_child(Node(lo, s), n) = Node(lo, h)
        BY <2>4, <3>2, <3>3, <3>6
      <4>2. Resolve(Node(lo, s), n, stored, f) = f[Node(lo, h)]
        BY <2>9, <3>2, <3>4, <4>1 DEF Resolve
      <4>3. ReadWidth(lo, h, n, stored) = ReadWidth(lo, s, n, stored)
        <5>1. Width(lo, h, n) = Width(lo, s, n) /\ lo + s > n
          BY <2>4, <3>2, <3>6 DEF Width
        <5>2. CASE lo + h > n
          BY <5>1, <5>2 DEF ReadWidth
        <5>3. CASE lo + h = n
          <6>1. CASE h = 1
            <7>1. level[Node(lo, s)] <= 3
              <8>1. s \in Pow /\ s - 1 = 1 /\ level[Node(lo, s)] = level[s - 1]
                BY <2>4, <2>5, <3>2, <6>1, PowSpans
              <8>2. level[2 * 1 - 1] = 1 + level[1 - 1]
                BY PowSpans, PowHalves
              <8> QED
                BY <8>1, <8>2, PowSpans
            <7>2. lo + s = n + 1 /\ ~(n + 1 <= stored)
              BY <2>4, <2>7, <2>9, <3>2, <5>3, <6>1, <7>1 DEF Stored
            <7> QED
              BY <1>0, <5>1, <7>2 DEF ReadWidth
          <6>2. CASE h # 1
            <7>1. lo % 2 = 0 /\ h % 2 = 0
              BY <3>2, <6>2, BlockIsEven
            <7>2. n % 2 = 0
              BY <2>4, <3>2, <5>3, <7>1
            <7> QED
              BY <5>1, <7>2 DEF ReadWidth
          <6> QED
            BY <6>1, <6>2
        <5> QED
          BY <2>4, <3>2, <3>6, <5>2, <5>3
      <4> QED
        BY <2>3, <2>6, <3>5, <4>2, <4>3
    <3>7. CASE lo + h < n
      <4>1. right_child(Node(lo, s), n) = Node(lo + h, h)
        BY <3>3, <3>7
      <4>2. PICK w \in Nat \ {0} : /\ w = ReadWidth(lo + h, h, n, stored)
                                   /\ ReadWidth(lo, s, n, stored) = h + w /\ w <= h
                                   /\ ReadWidth(lo, h, n, stored) = h
        <5>1. /\ Width(lo + h, h, n) \in Nat \ {0} /\ Width(lo + h, h, n) <= h
              /\ Width(lo, s, n) = h + Width(lo + h, h, n) /\ Width(lo, h, n) = h
          BY <2>4, <3>2, <3>7 DEF Width
        <5>2. ReadWidth(lo, h, n, stored) = h
          BY <2>4, <3>2, <3>7, <5>1 DEF ReadWidth
        <5>3. (lo + h) + h = lo + s
          BY <2>4, <3>2
        <5>4. CASE stored > n /\ n % 2 = 1 /\ lo + s > n
          <6>1. /\ ReadWidth(lo, s, n, stored) = n + 1 - lo
                /\ ReadWidth(lo + h, h, n, stored) = n + 1 - (lo + h)
            BY <5>3, <5>4 DEF ReadWidth
          <6>2. /\ n + 1 - (lo + h) \in Nat \ {0} /\ n + 1 - (lo + h) <= h
                /\ n + 1 - lo = h + (n + 1 - (lo + h))
            BY <2>4, <3>2, <3>7, <5>3, <5>4
          <6> QED
            BY <5>2, <6>1, <6>2
        <5>5. CASE ~(stored > n /\ n % 2 = 1 /\ lo + s > n)
          <6>1. /\ ReadWidth(lo, s, n, stored) = Width(lo, s, n)
                /\ ReadWidth(lo + h, h, n, stored) = Width(lo + h, h, n)
            BY <5>3, <5>5 DEF ReadWidth
          <6> QED
            BY <5>1, <5>2, <6>1
        <5> QED
          BY <5>4, <5>5
      <4>3. f[Node(lo + h, h)] = TreeHash[<<lo + h, w>>]
        BY <2>2, <3>2, <3>7, <4>2
      <4>4. Node(lo, h) # Node(lo + h, h)
        BY <2>4, <3>2 DEF Node
      <4>5. f[Node(lo, h)] # Err /\ f[Node(lo + h, h)] # Err
        BY <2>4, <3>2, <3>5, <4>2, <4>3, TreeHashSplits
      <4>6. Resolve(Node(lo, s), n, stored, f) =
              log_parent_value(f[Node(lo, h)], h = 1, f[Node(lo + h, h)], h = 1)
        BY <2>9, <3>2, <3>4, <4>1, <4>4, <4>5 DEF Resolve
      <4>7. TreeHash[<<lo, h + w>>] = log_parent_value(TreeHash[<<lo, h>>], h = 1, TreeHash[<<lo + h, w>>], h = 1)
        <5>1. PICK m \in Nat : m = h + w /\ h < m /\ m <= 2 * h /\ m - h = w /\ (m = 2) = (h = 1)
          BY <3>2, <4>2
        <5>2. TreeHash[<<lo, m>>] = log_parent_value(TreeHash[<<lo, h>>], h = 1, TreeHash[<<lo + h, m - h>>], m = 2)
          BY <2>4, <3>2, <5>1, TreeHashSplits
        <5> QED
          BY <5>1, <5>2
      <4> QED
        BY <2>3, <2>6, <3>5, <4>2, <4>3, <4>6, <4>7
    <3> QED
      BY <2>4, <3>2, <3>6, <3>7
  <2> QED
    BY <2>8, <2>9
<1>5. \A lo, s : Block(lo, s) => s \in Nat /\ Node(lo, s) \in Nat
  BY BlockOf DEF Block
<1> QED
  BY <1>3, <1>4, <1>5

\* It reads a full node right, and every node while no batch has failed.
LEMMA ResolvedIsTreeHash ==
  ASSUME NEW n \in Nat, NEW stored \in {n, n + 1},
         NEW lo, NEW s, Block(lo, s), lo < n, stored = n \/ lo + s <= n
  PROVE  resolve_node(Node(lo, s), n, stored) = TreeHash[<<lo, Width(lo, s, n)>>]
<1>1. lo \in Nat /\ s \in Nat
  BY DEF Block
<1>2. ReadWidth(lo, s, n, stored) = Width(lo, s, n)
  BY <1>1 DEF ReadWidth
<1> QED
  BY <1>2, ResolvedIs

\* get_root reads the tree hash of the whole log, or of one entry more.
LEMMA RootIsTreeHash ==
  ASSUME NEW n \in Nat \ {0}, NEW stored \in {n, n + 1}
  PROVE  get_root(n, stored) = TreeHash[<<0, IF stored > n /\ n % 2 = 1 /\ n > 1 THEN n + 1 ELSE n>>]
<1>1. PICK s \in Pow : s \in Nat \ {0} /\ merkle_root(n) = Node(0, s) /\ Block(0, s) /\ n <= s /\ s < 2 * n
  BY MerkleRootOf
<1>2. ReadWidth(0, s, n, stored) = IF stored > n /\ n % 2 = 1 /\ n > 1 THEN n + 1 ELSE n
  <2>1. Width(0, s, n) = n
    BY <1>1 DEF Width
  <2>2. n = 1 => s = 1
    BY <1>1
  <2>3. s # 1 => s % 2 = 0
    BY <1>1, BlockIsEven
  <2>4. n % 2 = 1 /\ n > 1 => s > n
    BY <1>1, <2>3
  <2> QED
    BY <1>1, <2>1, <2>2, <2>4 DEF ReadWidth
<1>3. resolve_node(Node(0, s), n, stored) = TreeHash[<<0, ReadWidth(0, s, n, stored)>>]
  BY <1>1, ResolvedIs
<1> QED
  BY <1>1, <1>2, <1>3 DEF get_root

\* The tree hash tells how many entries it is over.
LEMMA TreeHashTells ==
  \A lo \in Nat, n \in Nat \ {0}, m \in Nat \ {0} : TreeHash[<<lo, n>>] = TreeHash[<<lo, m>>] => n = m
<1> DEFINE Tells(n) == \A lo \in Nat, m \in Nat \ {0} : TreeHash[<<lo, n>>] = TreeHash[<<lo, m>>] => n = m
           Wrong == {n \in Nat : n # 0 /\ ~Tells(n)}
<1>1. \A lo \in Nat, n \in Nat : n > 1 =>
        \E k, p, q :
          k \in Nat \ {0} /\ k < n /\ TreeHash[<<lo, n>>] = log_parent_value(TreeHash[<<lo, k>>], p, TreeHash[<<lo + k, n - k>>], q)
  <2> SUFFICES ASSUME NEW lo \in Nat, NEW n \in Nat, n > 1
               PROVE  \E k, p, q : k \in Nat \ {0} /\ k < n /\ TreeHash[<<lo, n>>] =
                        log_parent_value(TreeHash[<<lo, k>>], p, TreeHash[<<lo + k, n - k>>], q)
    OBVIOUS
  <2>1. PICK k \in Pow : k = Split(n) /\ k \in Nat \ {0} /\ k < n /\ n <= 2 * k
    BY SplitIs
  <2>2. PICK p, q : p = (k = 1) /\ q = (n = 2)
    OBVIOUS
  <2>3. TreeHash[<<lo, n>>] = log_parent_value(TreeHash[<<lo, k>>], p, TreeHash[<<lo + k, n - k>>], q)
    BY <2>1, <2>2, TreeHashSplits
  <2> QED
    BY <2>1, <2>3
<1>2. \A a, b, c, d, i : log_parent_value(a, b, c, d) # Leaf(i)
  <2> TAKE a, b, c, d, i
  <2>1. Len(log_parent_value(a, b, c, d)) = 4 /\ Len(Leaf(i)) = 1
    BY DEF log_parent_value, Leaf
  <2> QED
    BY <2>1
<1>3. \A a1, b1, c1, d1, a2, b2, c2, d2 :
        log_parent_value(a1, b1, c1, d1) = log_parent_value(a2, b2, c2, d2) => a1 = a2 /\ c1 = c2
  BY DEF log_parent_value
<1>4. ASSUME Wrong # {} PROVE FALSE
  <2>1. PICK n \in Wrong : \A y \in Nat : y < n => y \notin Wrong
    <3>1. Wrong \in SUBSET Nat
      OBVIOUS
    <3> HIDE DEF Wrong
    <3> QED
      BY <1>4, <3>1, LeastElement
  <2>2. n \in Nat \ {0} /\ ~Tells(n) /\ \A y \in Nat \ {0} : y < n => Tells(y)
    BY <2>1
  <2>3. PICK lo \in Nat, m \in Nat \ {0} : TreeHash[<<lo, n>>] = TreeHash[<<lo, m>>] /\ n # m
    BY <2>2
  <2> HIDE DEF Wrong
  <2>4. n > 1 /\ m > 1
    <3>1. TreeHash[<<lo, 1>>] = Leaf(lo)
      BY TreeHashSplits
    <3>2. ASSUME NEW j \in Nat, j > 1 PROVE TreeHash[<<lo, j>>] # Leaf(lo)
      <4>1. PICK k, p, q :
              k \in Nat \ {0} /\ k < j /\ TreeHash[<<lo, j>>] = log_parent_value(TreeHash[<<lo, k>>], p, TreeHash[<<lo + k, j - k>>], q)
        BY <1>1, <3>2
      <4> QED
        BY <1>2, <4>1, Zenon
    <3> QED
      BY <2>2, <2>3, <3>1, <3>2
  <2>5. PICK k, p1, q1 :
          k \in Nat \ {0} /\ k < n /\ TreeHash[<<lo, n>>] = log_parent_value(TreeHash[<<lo, k>>], p1, TreeHash[<<lo + k, n - k>>], q1)
    BY <1>1, <2>2, <2>4
  <2>6. PICK j, p2, q2 :
          j \in Nat \ {0} /\ j < m /\ TreeHash[<<lo, m>>] = log_parent_value(TreeHash[<<lo, j>>], p2, TreeHash[<<lo + j, m - j>>], q2)
    BY <1>1, <2>4
  <2>7. TreeHash[<<lo, k>>] = TreeHash[<<lo, j>>] /\ TreeHash[<<lo + k, n - k>>] = TreeHash[<<lo + j, m - j>>]
    <3>1. log_parent_value(TreeHash[<<lo, k>>], p1, TreeHash[<<lo + k, n - k>>], q1)
            = log_parent_value(TreeHash[<<lo, j>>], p2, TreeHash[<<lo + j, m - j>>], q2)
      BY <2>3, <2>5, <2>6, Zenon
    <3> QED
      BY <3>1 DEF log_parent_value
  <2>8. k = j
    BY <2>2, <2>5, <2>6, <2>7
  <2>9. PICK a \in Nat, p \in Nat \ {0}, q \in Nat \ {0} : a = lo + k /\ p = n - k /\ q = m - k /\ p < n
    <3>1. lo + k \in Nat /\ n - k \in Nat \ {0} /\ m - k \in Nat \ {0} /\ n - k < n
      BY <2>2, <2>3, <2>5, <2>6, <2>8
    <3> QED
      BY <3>1
  <2>10. TreeHash[<<a, p>>] = TreeHash[<<a, q>>] /\ Tells(p)
    BY <2>2, <2>7, <2>8, <2>9
  <2>11. p = q
    BY <2>10
  <2>12. k \in Nat /\ n \in Nat /\ m \in Nat /\ n - k = m - k
    BY <2>2, <2>3, <2>5, <2>9, <2>11
  <2>13. n = m
    BY <2>12
  <2> QED
    BY <2>3, <2>13
<1> QED
  BY <1>4

\* The full subtree over the d entries from lo, as LogAccumulator keeps it.
Peak(lo, d) == [h |-> level[d - 1], v |-> TreeHash[<<lo, d>>]]

PeakSet == {Peak(lo, d) : lo \in Nat, d \in Nat \ {0}}

\* The peaks are those over the blocks between the boundaries b, up to entry n.
Listed(peaks, b, n) ==
  /\ peaks \in Seq(PeakSet) /\ b \in [0 .. Len(peaks) -> Nat]
  /\ b[0] = 0 /\ b[Len(peaks)] = n
  /\ \A i \in 1 .. Len(peaks) : /\ b[i] - b[i - 1] \in Pow
                                /\ peaks[i] = Peak(b[i - 1], b[i] - b[i - 1])

\* Every block is smaller than the one before; the last one may be as large.
Falling(b, k) == \A i \in 1 .. k - 1 : b[i + 1] - b[i] < b[i] - b[i - 1]
Nearly(b, k) == \A i \in 1 .. k - 1 : /\ b[i + 1] - b[i] <= b[i] - b[i - 1]
                                      /\ i + 1 < k => b[i + 1] - b[i] < b[i] - b[i - 1]

\* A LogAccumulator as it is between two entries.
Canonical(acc) ==
  /\ acc.size \in Nat /\ acc = [size |-> acc.size, peaks |-> acc.peaks]
  /\ \E b : Listed(acc.peaks, b, acc.size) /\ Falling(b, Len(acc.peaks))

\* The heights tell the sizes of the blocks apart.
LEMMA HeightsTell ==
  ASSUME NEW p \in Pow, NEW q \in Pow
  PROVE  /\ level[p - 1] \in Nat /\ (level[p - 1] = 0 <=> p = 1)
         /\ (level[p - 1] = level[q - 1] <=> p = q)
<1>1. p \in Nat \ {0} /\ q \in Nat \ {0}
  BY PowHalves
<1>2. level[p - 1] \in Nat /\ level[q - 1] \in Nat
  BY <1>1, LevelDefined
<1>3. level[p - 1] = 0 <=> p = 1
  <2>1. p = 1 => level[p - 1] = 0
    BY PowSpans
  <2>2. ASSUME p # 1 PROVE level[p - 1] # 0
    <3>1. PICK h \in Pow : h = p \div 2 /\ level[p - 1] = 1 + level[h - 1]
      BY <2>2, PowHalves
    <3>2. h \in Nat \ {0}
      BY PowHalves
    <3>3. level[h - 1] \in Nat
      BY <3>2, LevelDefined
    <3> QED
      BY <3>1, <3>3
  <2> QED
    BY <2>1, <2>2
<1>4. level[p - 1] = level[q - 1] <=> p = q
  <2>1. (p < q => level[p - 1] < level[q - 1]) /\ (q < p => level[q - 1] < level[p - 1])
    BY PowGap
  <2> QED
    BY <1>1, <1>2, <2>1
<1> QED
  BY <1>2, <1>3, <1>4

\* Two equal blocks next to each other make one of twice the size.
LEMMA PeaksMerge ==
  ASSUME NEW lo \in Nat, NEW d \in Pow
  PROVE  /\ Peak(lo, 2 * d) \in PeakSet
         /\ Peak(lo, 2 * d) = [h |-> Peak(lo + d, d).h + 1,
                               v |-> log_parent_value(Peak(lo, d).v, Peak(lo + d, d).h = 0,
                                                      Peak(lo + d, d).v, Peak(lo + d, d).h = 0)]
<1>1. d \in Nat \ {0} /\ level[2 * d - 1] = 1 + level[d - 1]
  BY PowHalves
<1>2. (level[d - 1] = 0) = (d = 1) /\ level[d - 1] \in Nat
  BY HeightsTell
<1>3. PICK m \in Nat \ {0} : m = 2 * d /\ d < m /\ m <= 2 * d /\ m - d = d /\ (m = 2) = (d = 1)
  BY <1>1
<1>4. TreeHash[<<lo, m>>] = log_parent_value(TreeHash[<<lo, d>>], d = 1, TreeHash[<<lo + d, m - d>>], m = 2)
  BY <1>3, TreeHashSplits
<1>5. TreeHash[<<lo, m>>] = log_parent_value(TreeHash[<<lo, d>>], level[d - 1] = 0,
                                             TreeHash[<<lo + d, d>>], level[d - 1] = 0)
  BY <1>2, <1>3, <1>4
<1>6. Peak(lo, m) \in PeakSet
  BY DEF PeakSet
<1>7. /\ Peak(lo + d, d).h = level[d - 1] /\ Peak(lo + d, d).v = TreeHash[<<lo + d, d>>]
      /\ Peak(lo, d).v = TreeHash[<<lo, d>>]
  BY DEF Peak
<1>8. Peak(lo, m) = [h |-> level[d - 1] + 1, v |-> TreeHash[<<lo, m>>]]
  BY <1>1, <1>2, <1>3 DEF Peak
<1> QED
  BY <1>3, <1>5, <1>6, <1>7, <1>8

\* One round of the merge loop.
LEMMA MergeLastKeeps ==
  ASSUME NEW peaks, NEW b, NEW n \in Nat, Listed(peaks, b, n), Nearly(b, Len(peaks))
  PROVE  \E c : /\ Listed(MergeLast(peaks), c, n) /\ Nearly(c, Len(MergeLast(peaks)))
                /\ \/ Falling(c, Len(MergeLast(peaks)))
                   \/ Len(MergeLast(peaks)) < Len(peaks)
<1>1. PICK k \in Nat : k = Len(peaks)
  BY DEF Listed
<1>2. /\ peaks \in Seq(PeakSet) /\ b \in [0 .. k -> Nat] /\ b[0] = 0 /\ b[k] = n
      /\ \A i \in 1 .. k : b[i] - b[i - 1] \in Pow /\ peaks[i] = Peak(b[i - 1], b[i] - b[i - 1])
  BY <1>1 DEF Listed
<1>3. \A i \in 1 .. k : peaks[i].h = level[b[i] - b[i - 1] - 1]
  <2>1. \A lo, d : Peak(lo, d).h = level[d - 1]
    BY DEF Peak
  <2> QED
    BY <1>2, <2>1, SMTT(30)
<1>4. CASE k < 2 \/ peaks[k].h # peaks[k - 1].h
  <2>1. MergeLast(peaks) = peaks
    BY <1>1, <1>4 DEF MergeLast
  <2>2. ASSUME k >= 2 PROVE b[k] - b[k - 1] # b[k - 1] - b[k - 2]
    <3>1. k \in 1 .. k /\ k - 1 \in 1 .. k /\ (k - 1) - 1 = k - 2
      BY <2>2
    <3> QED
      BY <1>3, <1>4, <2>2, <3>1
  <2>3. Falling(b, k)
    <3>1. ASSUME NEW i \in 1 .. k - 1 PROVE b[i + 1] - b[i] < b[i] - b[i - 1]
      <4>1. /\ b[i + 1] - b[i] <= b[i] - b[i - 1]
            /\ i + 1 < k => b[i + 1] - b[i] < b[i] - b[i - 1]
        BY <1>1 DEF Nearly
      <4>2. i - 1 \in 0 .. k /\ i \in 0 .. k /\ i + 1 \in 0 .. k
        BY <3>1
      <4>3. b[i - 1] \in Nat /\ b[i] \in Nat /\ b[i + 1] \in Nat
        BY <1>2, <4>2
      <4>4. CASE i + 1 = k
        <5>1. k >= 2 /\ i = k - 1 /\ i - 1 = k - 2
          BY <3>1, <4>4
        <5> QED
          BY <2>2, <4>1, <4>3, <4>4, <5>1
      <4>5. CASE i + 1 # k
        BY <4>1, <4>5
      <4> QED
        BY <4>4, <4>5
    <3> QED
      BY <3>1 DEF Falling
  <2> QED
    BY <1>1, <2>1, <2>3
<1>5. CASE ~(k < 2 \/ peaks[k].h # peaks[k - 1].h)
  <2>1. k >= 2 /\ peaks[k].h = peaks[k - 1].h
    BY <1>1, <1>5
  <2>2. PICK j \in Nat : j = k - 2 /\ j + 1 = k - 1 /\ j + 2 = k
    BY <2>1
  <2>3. PICK lo \in Nat, d \in Pow : /\ lo = b[j] /\ b[j + 1] = lo + d /\ b[k] = lo + 2 * d
                                     /\ d \in Nat \ {0}
                                     /\ peaks[j + 1] = Peak(lo, d) /\ peaks[k] = Peak(lo + d, d)
    <3>1. j + 1 \in 1 .. k /\ k \in 1 .. k /\ (j + 1) - 1 = j /\ k - 1 = j + 1
      BY <2>2
    <3>2. b[j] \in Nat /\ b[j + 1] \in Nat /\ b[k] \in Nat
      BY <1>2, <3>1
    <3>3. PICK d \in Pow : d = b[j + 1] - b[j] /\ peaks[j + 1] = Peak(b[j], d)
      BY <1>2, <3>1
    <3>4. PICK e \in Pow : e = b[k] - b[j + 1] /\ peaks[k] = Peak(b[j + 1], e)
      BY <1>2, <3>1
    <3>5. d \in Nat \ {0} /\ e \in Nat \ {0}
      BY PowHalves
    <3>6. level[d - 1] = level[e - 1]
      BY <2>1, <2>2, <3>3, <3>4, SMTT(30) DEF Peak
    <3>7. d = e
      BY <3>6, HeightsTell
    <3>8. b[j + 1] = b[j] + d /\ b[k] = b[j] + 2 * d
      <4>1. PICK x \in Nat, y \in Nat, z \in Nat : x = b[j] /\ y = b[j + 1] /\ z = b[k]
        BY <3>2
      <4>2. d = y - x /\ d = z - y
        BY <3>3, <3>4, <3>7, <4>1
      <4>3. PICK m \in Nat : m = d
        BY <3>5
      <4>4. y = x + m /\ z = x + 2 * m
        BY <4>2, <4>3
      <4> QED
        BY <4>1, <4>3, <4>4
    <3> QED
      BY <3>2, <3>3, <3>4, <3>5, <3>7, <3>8
  <2>4. PICK r : r = Peak(lo, 2 * d)
    OBVIOUS
  <2>5. r \in PeakSet
    BY <2>4, PeaksMerge
  <2>6. PICK a \in Seq(PeakSet) : a = SubSeq(peaks, 1, j) /\ Len(a) = j /\ \A i \in 1 .. j : a[i] = peaks[i]
    <3>1. j \in Int /\ 1 \in Int /\ \A i \in 1 .. j : peaks[i] \in PeakSet
      BY <1>1, <1>2, <2>2
    <3>2. /\ SubSeq(peaks, 1, j) \in Seq(PeakSet)
          /\ Len(SubSeq(peaks, 1, j)) = IF 1 <= j THEN j - 1 + 1 ELSE 0
          /\ \A i \in 1 .. j - 1 + 1 : SubSeq(peaks, 1, j)[i] = peaks[1 + i - 1]
      BY <3>1, SubSeqProperties
    <3>3. Len(SubSeq(peaks, 1, j)) = j
      BY <2>2, <3>2
    <3>4. \A i \in 1 .. j : i \in 1 .. j - 1 + 1 /\ 1 + i - 1 = i
      BY <2>2
    <3> QED
      BY <3>2, <3>3, <3>4
  <2>7. MergeLast(peaks) = Append(a, r)
    <3>1. r = [h |-> peaks[k].h + 1,
               v |-> log_parent_value(peaks[k - 1].v, peaks[k].h = 0, peaks[k].v, peaks[k].h = 0)]
      <4>1. Peak(lo, 2 * d) = [h |-> Peak(lo + d, d).h + 1,
                               v |-> log_parent_value(Peak(lo, d).v, Peak(lo + d, d).h = 0,
                                                      Peak(lo + d, d).v, Peak(lo + d, d).h = 0)]
        BY PeaksMerge
      <4>2. peaks[k - 1] = Peak(lo, d) /\ peaks[k] = Peak(lo + d, d)
        BY <2>2, <2>3
      <4> QED
        BY <2>4, <4>1, <4>2
    <3> QED
      BY <1>1, <1>5, <2>2, <2>6, <3>1 DEF MergeLast
  <2>8. PICK m : /\ m = Append(a, r) /\ m \in Seq(PeakSet) /\ Len(m) = j + 1
                 /\ m[j + 1] = r /\ \A i \in 1 .. j : m[i] = peaks[i]
    <3>1. /\ Append(a, r) \in Seq(PeakSet) /\ Len(Append(a, r)) = Len(a) + 1
          /\ \A i \in 1 .. Len(a) : Append(a, r)[i] = a[i]
          /\ Append(a, r)[Len(a) + 1] = r
      BY <2>5, AppendProperties
    <3> QED
      BY <2>6, <3>1
  <2>9. PICK c : c = [i \in 0 .. j + 1 |-> IF i = j + 1 THEN n ELSE b[i]]
    OBVIOUS
  <2>10. c \in [0 .. j + 1 -> Nat] /\ c[j + 1] = n /\ \A i \in 0 .. j : c[i] = b[i]
    BY <1>2, <2>2, <2>9
  <2>11. c[0] = 0 /\ n - lo = 2 * d /\ c[j] = lo
    BY <1>2, <2>3, <2>10, SMTT(30)
  <2>12. ASSUME NEW i \in 1 .. j + 1
         PROVE  c[i] - c[i - 1] \in Pow /\ m[i] = Peak(c[i - 1], c[i] - c[i - 1])
    <3>1. CASE i = j + 1
      <4>1. i - 1 = j /\ c[i] - c[i - 1] = 2 * d /\ c[i - 1] = lo
        BY <2>10, <2>11, <3>1
      <4> QED
        BY <2>4, <2>8, <3>1, <4>1, PowHalves
    <3>2. CASE i # j + 1
      <4>1. i \in 1 .. j /\ i \in 0 .. j /\ i - 1 \in 0 .. j /\ i \in 1 .. k
        BY <2>2, <3>2
      <4>2. c[i] = b[i] /\ c[i - 1] = b[i - 1] /\ m[i] = peaks[i]
        BY <2>8, <2>10, <4>1
      <4> QED
        BY <1>2, <4>1, <4>2
    <3> QED
      BY <3>1, <3>2
  <2>13. Listed(m, c, n)
    BY <2>8, <2>10, <2>11, <2>12 DEF Listed
  <2>14. Nearly(c, j + 1)
    <3>1. ASSUME NEW i \in 1 .. j
          PROVE  /\ c[i + 1] - c[i] <= c[i] - c[i - 1]
                 /\ i + 1 < j + 1 => c[i + 1] - c[i] < c[i] - c[i - 1]
      <4>1. i \in 1 .. k - 1 /\ i + 1 < k /\ i \in 0 .. j /\ i - 1 \in 0 .. j /\ i \in 1 .. k
        BY <2>2, <3>1
      <4>2. b[i + 1] - b[i] < b[i] - b[i - 1]
        BY <1>1, <4>1 DEF Nearly
      <4>3. CASE i = j
        <5>1. PICK e \in Pow : e = b[j] - b[j - 1]
          BY <1>2, <4>1, <4>3
        <5>2. e \in Nat \ {0} /\ d < e
          <6>1. e \in Nat \ {0}
            BY PowHalves
          <6>2. b[j + 1] - b[j] = d
            BY <2>3
          <6> QED
            BY <4>2, <4>3, <5>1, <6>1, <6>2
        <5>3. 2 * d <= e
          BY <5>2, PowGap
        <5>4. c[i + 1] - c[i] = 2 * d /\ c[i] - c[i - 1] = e
          BY <2>10, <2>11, <4>1, <4>3, <5>1
        <5> QED
          BY <4>3, <5>3, <5>4
      <4>4. CASE i # j
        <5>1. i + 1 \in 0 .. j
          BY <4>1, <4>4
        <5>2. c[i + 1] = b[i + 1] /\ c[i] = b[i] /\ c[i - 1] = b[i - 1]
          BY <2>10, <4>1, <5>1
        <5>3. b[i + 1] \in Nat /\ b[i] \in Nat /\ b[i - 1] \in Nat
          BY <2>10, <4>1, <5>1, <5>2
        <5> QED
          BY <4>2, <5>2, <5>3
      <4> QED
        BY <4>3, <4>4
    <3>2. (j + 1) - 1 = j
      OBVIOUS
    <3> QED
      BY <3>1, <3>2 DEF Nearly
  <2>15. Len(m) < Len(peaks)
    BY <1>1, <2>2, <2>8
  <2> QED
    BY <2>7, <2>8, <2>13, <2>14, <2>15
<1> QED
  BY <1>4, <1>5

\* A step may be taken any number of times.
LEMMA Iterates ==
  ASSUME NEW V, NEW v \in V, NEW g \in [V -> V]
  PROVE  \E f \in [Nat -> V] : f[0] = v /\ \A n \in Nat : f[n + 1] = g[f[n]]
<1> DEFINE F == [a \in [Nat -> V] \X Nat |-> IF a[2] = 0 THEN v ELSE g[a[1][a[2] - 1]]]
<1>1. \A f \in [Nat -> V], n \in Nat : F[<<f, n>>] = IF n = 0 THEN v ELSE g[f[n - 1]]
  OBVIOUS
<1>2. F \in [[Nat -> V] \X Nat -> V]
  <2>1. ASSUME NEW a \in [Nat -> V] \X Nat PROVE (IF a[2] = 0 THEN v ELSE g[a[1][a[2] - 1]]) \in V
    <3>1. a[2] # 0 => a[2] - 1 \in Nat
      OBVIOUS
    <3>2. a[2] # 0 => a[1][a[2] - 1] \in V
      BY <3>1
    <3> QED
      BY <3>2
  <2> QED
    BY <2>1
<1>3. ASSUME NEW f \in [Nat -> V], NEW e \in [Nat -> V], NEW n \in Nat,
             \A m \in 0 .. n - 1 : f[m] = e[m]
      PROVE  F[<<f, n>>] = F[<<e, n>>]
  <2>1. n # 0 => n - 1 \in 0 .. n - 1
    OBVIOUS
  <2> QED
    BY <1>1, <1>3, <2>1
<1> HIDE DEF F
<1>4. Recursive(F, V)
  BY <1>2, <1>3, Zenon DEF Recursive
<1>5. PICK f \in [Nat -> V] : \A n \in Nat : f[n] = F[<<f, n>>]
  BY <1>4, Recursion
<1>6. f[0] = v
  BY <1>1, <1>5
<1>7. ASSUME NEW n \in Nat PROVE f[n + 1] = g[f[n]]
  <2>1. PICK m \in Nat : m = n + 1 /\ m # 0 /\ m - 1 = n
    OBVIOUS
  <2>2. f[m] = F[<<f, m>>] /\ F[<<f, m>>] = g[f[m - 1]]
    BY <1>1, <1>5, <2>1
  <2> QED
    BY <2>1, <2>2
<1> QED
  BY <1>6, <1>7

\* The rounds of the merge loop, from p on.
MergesIn(V) == \A p \in V : MergeLast(p) \in V
Rounds(f, p) == f[0] = p /\ \A n \in Nat : f[n + 1] = MergeLast(f[n])

\* They exist, in every set the loop stays in.
LEMMA MergeIterates ==
  ASSUME NEW V, NEW v \in V, MergesIn(V)
  PROVE  \E f \in [Nat -> V] : Rounds(f, v)
<1>1. PICK g : g = [p \in V |-> MergeLast(p)]
  OBVIOUS
<1>2. g \in [V -> V] /\ \A p \in V : g[p] = MergeLast(p)
  BY <1>1 DEF MergesIn
<1>3. PICK h \in [V -> V] : \A p \in V : h[p] = MergeLast(p)
  BY <1>2
<1>4. PICK f \in [Nat -> V] : f[0] = v /\ \A n \in Nat : f[n + 1] = h[f[n]]
  BY Iterates
<1>5. \A n \in Nat : f[n + 1] = MergeLast(f[n])
  BY <1>3, <1>4
<1> QED
  BY <1>4, <1>5 DEF Rounds

\* The loop has ended when the blocks fall.
LEMMA MergeLastStays ==
  ASSUME NEW peaks, NEW b, NEW n, Listed(peaks, b, n), Falling(b, Len(peaks))
  PROVE  MergeLast(peaks) = peaks
<1>1. PICK k \in Nat : k = Len(peaks)
  BY DEF Listed
<1>2. /\ b \in [0 .. k -> Nat]
      /\ \A i \in 1 .. k : b[i] - b[i - 1] \in Pow /\ peaks[i] = Peak(b[i - 1], b[i] - b[i - 1])
  BY <1>1 DEF Listed
<1>3. ASSUME k >= 2 PROVE peaks[k].h # peaks[k - 1].h
  <2>1. k \in 1 .. k /\ k - 1 \in 1 .. k /\ k - 1 \in 1 .. k - 1 /\ (k - 1) + 1 = k
    BY <1>3
  <2>2. PICK d \in Pow : d = b[k] - b[k - 1] /\ peaks[k] = Peak(b[k - 1], d)
    BY <1>2, <2>1
  <2>3. PICK e \in Pow : e = b[k - 1] - b[(k - 1) - 1] /\ peaks[k - 1] = Peak(b[(k - 1) - 1], e)
    BY <1>2, <2>1
  <2>4. d < e
    BY <1>1, <2>1, <2>2, <2>3 DEF Falling
  <2>5. d # e
    BY <2>4, PowHalves
  <2>6. level[d - 1] # level[e - 1]
    BY <2>5, HeightsTell
  <2> QED
    BY <2>2, <2>3, <2>6 DEF Peak
<1> QED
  BY <1>1, <1>3 DEF MergeLast

\* The whole merge loop.
LEMMA MergeKeeps ==
  ASSUME NEW peaks, NEW b, NEW n \in Nat \ {0}, Listed(peaks, b, n), Nearly(b, Len(peaks))
  PROVE  \E c : Listed(Merge(peaks), c, n) /\ Falling(c, Len(Merge(peaks)))
<1>1. PICK k \in Nat : k = Len(peaks)
  BY DEF Listed
<1> DEFINE V == {p \in Seq(PeakSet) : \E c : Listed(p, c, n) /\ Nearly(c, Len(p))}
           Is(f) == f = [i \in 0 .. k |-> IF i = 0 THEN peaks ELSE MergeLast(f[i - 1])]
           m == CHOOSE f : Is(f)
<1>2. peaks \in V
  BY DEF Listed
<1>3. ASSUME NEW p \in V PROVE MergeLast(p) \in V
  <2>1. PICK c : Listed(p, c, n) /\ Nearly(c, Len(p))
    OBVIOUS
  <2>2. PICK d : Listed(MergeLast(p), d, n) /\ Nearly(d, Len(MergeLast(p)))
    BY <2>1, MergeLastKeeps
  <2>3. MergeLast(p) \in Seq(PeakSet)
    BY <2>2 DEF Listed
  <2> QED
    BY <2>2, <2>3
<1>4. \E f : Is(f)
  <2>1. PICK W : W = V
    OBVIOUS
  <2>2. PICK v \in W : v = peaks
    BY <1>2, <2>1
  <2>3. MergesIn(W)
    BY <1>3, <2>1 DEF MergesIn
  <2>4. PICK f \in [Nat -> W] : f[0] = peaks /\ \A i \in Nat : f[i + 1] = MergeLast(f[i])
    <3> HIDE DEF V, Is, m
    <3>1. PICK f \in [Nat -> W] : Rounds(f, v)
      BY <2>3, MergeIterates
    <3> QED
      BY <2>2, <3>1 DEF Rounds
  <2>5. PICK e : e = [i \in 0 .. k |-> f[i]]
    OBVIOUS
  <2>6. ASSUME NEW i \in 0 .. k PROVE e[i] = IF i = 0 THEN peaks ELSE MergeLast(e[i - 1])
    <3>1. CASE i = 0
      BY <2>4, <2>5, <3>1
    <3>2. CASE i # 0
      <4>1. PICK j \in Nat : j = i - 1 /\ j + 1 = i /\ j \in 0 .. k
        BY <3>2
      <4>2. e[i] = f[i] /\ e[j] = f[j] /\ f[i] = MergeLast(f[j])
        BY <2>4, <2>5, <4>1
      <4> QED
        BY <3>2, <4>1, <4>2
    <3> QED
      BY <3>1, <3>2
  <2>7. Is(e)
    BY <2>5, <2>6
  <2> QED
    BY <2>7
<1>5. Is(m)
  BY <1>4
<1>6. Merge(peaks) = m[k]
  BY <1>1 DEF Merge
<1> HIDE DEF m, V
<1>7. \A i \in 0 .. k : m[i] = IF i = 0 THEN peaks ELSE MergeLast(m[i - 1])
  BY <1>5
<1> HIDE DEF Is
<1> DEFINE Good(i) == \E c : /\ Listed(m[i], c, n) /\ Nearly(c, Len(m[i]))
                             /\ Falling(c, Len(m[i])) \/ Len(m[i]) + i <= k
           Wrong == {i \in Nat : i <= k /\ ~Good(i)}
<1>8. ASSUME Wrong # {} PROVE FALSE
  <2>1. PICK i \in Wrong : \A y \in Nat : y < i => y \notin Wrong
    <3>1. Wrong \in SUBSET Nat
      OBVIOUS
    <3> HIDE DEF Wrong
    <3> QED
      BY <1>8, <3>1, LeastElement
  <2>2. i \in Nat /\ i <= k /\ ~Good(i) /\ \A y \in Nat : y < i => Good(y)
    BY <2>1
  <2> HIDE DEF Wrong
  <2>3. i # 0
    <3>1. m[0] = peaks
      BY <1>7
    <3>2. Good(0)
      BY <1>1, <3>1
    <3> QED
      BY <2>2, <3>2
  <2>4. PICK j \in Nat : j = i - 1 /\ j + 1 = i /\ j < i /\ i \in 0 .. k
    BY <2>2, <2>3
  <2>5. m[i] = MergeLast(m[j])
    BY <1>7, <2>3, <2>4
  <2>6. PICK c : /\ Listed(m[j], c, n) /\ Nearly(c, Len(m[j]))
                 /\ Falling(c, Len(m[j])) \/ Len(m[j]) + j <= k
    BY <2>2, <2>4
  <2>7. CASE Falling(c, Len(m[j]))
    <3>1. m[i] = m[j]
      BY <2>5, <2>6, <2>7, MergeLastStays
    <3> QED
      BY <2>2, <2>6, <2>7, <3>1
  <2>8. CASE Len(m[j]) + j <= k
    <3>1. PICK d : /\ Listed(MergeLast(m[j]), d, n) /\ Nearly(d, Len(MergeLast(m[j])))
                   /\ \/ Falling(d, Len(MergeLast(m[j])))
                      \/ Len(MergeLast(m[j])) < Len(m[j])
      BY <2>6, MergeLastKeeps
    <3>2. Len(m[i]) \in Nat /\ Len(m[j]) \in Nat
      BY <2>5, <2>6, <3>1 DEF Listed
    <3>3. Len(m[i]) < Len(m[j]) => Len(m[i]) + i <= k
      BY <2>4, <2>8, <3>2
    <3> QED
      BY <2>2, <2>5, <3>1, <3>3
  <2> QED
    BY <2>6, <2>7, <2>8
<1>9. Good(k)
  BY <1>8
<1>10. PICK c : /\ Listed(m[k], c, n)
                /\ Falling(c, Len(m[k])) \/ Len(m[k]) + k <= k
  BY <1>9
<1>11. ~(Len(m[k]) + k <= k)
  <2>1. Len(m[k]) \in Nat /\ c[0] = 0 /\ c[Len(m[k])] = n
    BY <1>10 DEF Listed
  <2> QED
    BY <2>1
<1> QED
  BY <1>6, <1>10, <1>11

\* append_leaf for the next entry keeps the accumulator as it is between two entries.
LEMMA AppendKeeps ==
  ASSUME NEW acc, Canonical(acc)
  PROVE  /\ Canonical(append_leaf(acc, Leaf(acc.size)))
         /\ append_leaf(acc, Leaf(acc.size)).size = acc.size + 1
<1>1. PICK b : Listed(acc.peaks, b, acc.size) /\ Falling(b, Len(acc.peaks))
  BY DEF Canonical
<1>2. PICK n \in Nat, k \in Nat : n = acc.size /\ k = Len(acc.peaks)
  <2>1. acc.size \in Nat /\ acc.peaks \in Seq(PeakSet)
    BY <1>1 DEF Canonical, Listed
  <2>2. Len(acc.peaks) \in Nat
    BY <2>1
  <2> QED
    BY <2>1, <2>2
<1>14. PICK p : p = acc.peaks
  OBVIOUS
<1>3. /\ p \in Seq(PeakSet) /\ b \in [0 .. k -> Nat] /\ b[0] = 0 /\ b[k] = n
      /\ \A i \in 1 .. k : b[i] - b[i - 1] \in Pow /\ p[i] = Peak(b[i - 1], b[i] - b[i - 1])
  BY <1>14, <1>1, <1>2 DEF Listed
<1>4. PICK r : r = [h |-> 0, v |-> Leaf(n)]
  OBVIOUS
<1>5. r = Peak(n, 1) /\ r \in PeakSet
  <2>1. level[1 - 1] = 0
    BY PowSpans
  <2>2. TreeHash[<<n, 1>>] = Leaf(n)
    BY TreeHashSplits
  <2>3. r = Peak(n, 1)
    BY <1>4, <2>1, <2>2 DEF Peak
  <2> QED
    BY <2>3 DEF PeakSet
<1>6. PICK q : /\ q = Append(p, r) /\ q \in Seq(PeakSet) /\ Len(q) = k + 1
               /\ q[k + 1] = r /\ \A i \in 1 .. k : q[i] = p[i]
  <2>1. /\ Append(p, r) \in Seq(PeakSet) /\ Len(Append(p, r)) = Len(p) + 1
        /\ \A i \in 1 .. Len(p) : Append(p, r)[i] = p[i]
        /\ Append(p, r)[Len(p) + 1] = r
    BY <1>3, <1>5, AppendProperties
  <2> QED
    BY <1>14, <1>2, <2>1
<1>7. PICK c : c = [i \in 0 .. k + 1 |-> IF i = k + 1 THEN n + 1 ELSE b[i]]
  OBVIOUS
<1>8. c \in [0 .. k + 1 -> Nat] /\ c[k + 1] = n + 1 /\ \A i \in 0 .. k : c[i] = b[i]
  BY <1>3, <1>7
<1>9. ASSUME NEW i \in 1 .. k + 1
      PROVE  c[i] - c[i - 1] \in Pow /\ q[i] = Peak(c[i - 1], c[i] - c[i - 1])
  <2>1. CASE i = k + 1
    <3>1. i - 1 = k /\ c[i - 1] = n /\ c[i] - c[i - 1] = 1
      BY <1>3, <1>8, <2>1
    <3> QED
      BY <1>5, <1>6, <2>1, <3>1, PowSpans
  <2>2. CASE i # k + 1
    <3>1. i \in 1 .. k /\ i \in 0 .. k /\ i - 1 \in 0 .. k
      BY <2>2
    <3>2. c[i] = b[i] /\ c[i - 1] = b[i - 1] /\ q[i] = p[i]
      BY <1>6, <1>8, <3>1
    <3> QED
      BY <1>3, <3>1, <3>2
  <2> QED
    BY <2>1, <2>2
<1>10. Listed(q, c, n + 1)
  <2>1. c[0] = 0
    BY <1>3, <1>8
  <2> QED
    BY <1>6, <1>8, <1>9, <2>1 DEF Listed
<1>11. Nearly(c, k + 1)
  <2>1. ASSUME NEW i \in 1 .. k
        PROVE  /\ c[i + 1] - c[i] <= c[i] - c[i - 1]
               /\ i + 1 < k + 1 => c[i + 1] - c[i] < c[i] - c[i - 1]
    <3>1. i \in 0 .. k /\ i - 1 \in 0 .. k
      OBVIOUS
    <3>2. c[i] = b[i] /\ c[i - 1] = b[i - 1] /\ b[i] \in Nat /\ b[i - 1] \in Nat
      BY <1>3, <1>8, <3>1
    <3>3. CASE i = k
      <4>1. PICK e \in Pow : e = b[k] - b[k - 1]
        BY <1>3, <3>3
      <4>2. e \in Nat \ {0}
        BY PowHalves
      <4>3. c[i + 1] - c[i] = 1
        BY <1>3, <1>8, <3>2, <3>3
      <4> QED
        BY <3>2, <3>3, <4>1, <4>2, <4>3
    <3>4. CASE i # k
      <4>1. i \in 1 .. k - 1 /\ i + 1 \in 0 .. k
        BY <3>4
      <4>2. b[i + 1] - b[i] < b[i] - b[i - 1]
        BY <1>14, <1>1, <1>2, <4>1 DEF Falling
      <4>3. c[i + 1] = b[i + 1] /\ b[i + 1] \in Nat
        BY <1>3, <1>8, <4>1
      <4> QED
        BY <3>2, <4>2, <4>3
    <3> QED
      BY <3>3, <3>4
  <2>2. (k + 1) - 1 = k
    OBVIOUS
  <2> QED
    BY <2>1, <2>2 DEF Nearly
<1>12. PICK d : Listed(Merge(q), d, n + 1) /\ Falling(d, Len(Merge(q)))
  <2>1. n + 1 \in Nat \ {0}
    OBVIOUS
  <2>2. PICK t : t = n + 1
    OBVIOUS
  <2>3. \E d : Listed(Merge(q), d, t) /\ Falling(d, Len(Merge(q)))
    BY <1>6, <1>10, <1>11, <2>1, <2>2, MergeKeeps
  <2> QED
    BY <2>2, <2>3
<1>13. append_leaf(acc, Leaf(acc.size)) = [size |-> n + 1, peaks |-> Merge(q)]
  BY <1>14, <1>2, <1>4, <1>6 DEF append_leaf
<1> QED
  BY <1>2, <1>12, <1>13 DEF Canonical

\* The entries of a replay, from acc on.
AppendsIn(V) == \A x \in V : append_leaf(x, Leaf(x.size)) \in V
Appends(f, acc) == f[0] = acc /\ \A n \in Nat : f[n + 1] = append_leaf(f[n], Leaf(f[n].size))

\* They exist, in every set that append_leaf stays in.
LEMMA AppendIterates ==
  ASSUME NEW V, NEW v \in V, AppendsIn(V)
  PROVE  \E f \in [Nat -> V] : Appends(f, v)
<1>1. PICK g : g = [x \in V |-> append_leaf(x, Leaf(x.size))]
  OBVIOUS
<1>2. g \in [V -> V] /\ \A x \in V : g[x] = append_leaf(x, Leaf(x.size))
  BY <1>1 DEF AppendsIn
<1>3. PICK h \in [V -> V] : \A x \in V : h[x] = append_leaf(x, Leaf(x.size))
  BY <1>2
<1>4. PICK f \in [Nat -> V] : f[0] = v /\ \A n \in Nat : f[n + 1] = h[f[n]]
  BY Iterates
<1>5. \A n \in Nat : f[n + 1] = append_leaf(f[n], Leaf(f[n].size))
  BY <1>3, <1>4
<1> QED
  BY <1>4, <1>5 DEF Appends

\* A replay ends at the last entry it was given, with the full subtrees of what it replayed.
LEMMA ReplayKeeps ==
  ASSUME NEW acc, Canonical(acc), NEW end \in Nat, acc.size <= end
  PROVE  Canonical(Replay(acc, end)) /\ Replay(acc, end).size = end
<1>1. PICK s \in Nat : s = acc.size /\ s <= end
  BY DEF Canonical
<1> DEFINE R == {[size |-> x[1], peaks |-> x[2]] : x \in Nat \X Seq(PeakSet)}
           V == {x \in R : Canonical(x)}
           Is(f) == f = [n \in s .. end |-> IF n = s THEN acc ELSE append_leaf(f[n - 1], Leaf(n - 1))]
           c == CHOOSE f : Is(f)
<1>2. ASSUME NEW x, Canonical(x) PROVE x \in V
  <2>1. x.size \in Nat /\ x.peaks \in Seq(PeakSet) /\ x = [size |-> x.size, peaks |-> x.peaks]
    BY <1>2 DEF Canonical, Listed
  <2>2. PICK y \in Nat \X Seq(PeakSet) : y = <<x.size, x.peaks>>
    BY <2>1
  <2>3. x = [size |-> y[1], peaks |-> y[2]]
    BY <2>1, <2>2
  <2> QED
    BY <1>2, <2>3
<1>3. ASSUME NEW x \in V PROVE append_leaf(x, Leaf(x.size)) \in V
  <2>1. Canonical(append_leaf(x, Leaf(x.size)))
    BY AppendKeeps
  <2> QED
    BY <1>2, <2>1
<1>4. \E f : Is(f)
  <2>1. PICK W : W = V
    OBVIOUS
  <2>2. PICK v \in W : v = acc
    BY <1>2, <2>1
  <2>3. AppendsIn(W)
    BY <1>3, <2>1 DEF AppendsIn
  <2>4. PICK f \in [Nat -> W] : f[0] = acc /\ \A n \in Nat : f[n + 1] = append_leaf(f[n], Leaf(f[n].size))
    <3> HIDE DEF V, Is, c
    <3>1. PICK f \in [Nat -> W] : Appends(f, v)
      BY <2>3, AppendIterates
    <3> QED
      BY <2>2, <3>1 DEF Appends
  <2>5. \A n \in Nat : Canonical(f[n])
    BY <2>1, <2>4
  <2> HIDE DEF V, Is, c
  <2> DEFINE Wrong == {n \in Nat : f[n].size # s + n}
  <2>6. ASSUME Wrong # {} PROVE FALSE
    <3>1. PICK i \in Wrong : \A y \in Nat : y < i => y \notin Wrong
      <4>1. Wrong \in SUBSET Nat
        OBVIOUS
      <4> HIDE DEF Wrong
      <4> QED
        BY <2>6, <4>1, LeastElement
    <3>2. i \in Nat /\ f[i].size # s + i /\ \A y \in Nat : y < i => f[y].size = s + y
      BY <3>1
    <3> HIDE DEF Wrong
    <3>3. i # 0
      BY <1>1, <2>4, <3>2
    <3>4. PICK j \in Nat : j + 1 = i /\ j < i
      <4>1. i - 1 \in Nat /\ (i - 1) + 1 = i /\ i - 1 < i
        BY <3>2, <3>3
      <4> QED
        BY <4>1
    <3>5. f[i] = append_leaf(f[j], Leaf(f[j].size)) /\ f[j].size = s + j
      BY <2>4, <3>2, <3>4
    <3>6. f[i].size = f[j].size + 1
      BY <2>5, <3>5, AppendKeeps
    <3> QED
      BY <3>2, <3>4, <3>5, <3>6
  <2>7. PICK e : e = [n \in s .. end |-> f[n - s]]
    OBVIOUS
  <2>8. ASSUME NEW n \in s .. end PROVE e[n] = IF n = s THEN acc ELSE append_leaf(e[n - 1], Leaf(n - 1))
    <3>1. CASE n = s
      BY <2>4, <2>7, <3>1
    <3>2. CASE n # s
      <4>1. PICK j \in Nat : j = n - 1 - s /\ j + 1 = n - s /\ s + j = n - 1 /\ n - 1 \in s .. end
        <5>1. n - 1 - s \in Nat /\ (n - 1 - s) + 1 = n - s /\ s + (n - 1 - s) = n - 1 /\ n - 1 \in s .. end
          BY <3>2
        <5> QED
          BY <5>1
      <4>2. e[n] = f[j + 1] /\ e[n - 1] = f[j]
        BY <2>7, <4>1
      <4>3. f[j + 1] = append_leaf(f[j], Leaf(f[j].size)) /\ f[j].size = n - 1
        BY <2>4, <2>6, <4>1
      <4> QED
        BY <3>2, <4>2, <4>3
    <3> QED
      BY <3>1, <3>2
  <2>9. Is(e)
    BY <2>7, <2>8 DEF Is
  <2> QED
    BY <2>9
<1>5. Is(c)
  BY <1>4
<1>6. Replay(acc, end) = c[end]
  BY <1>1 DEF Replay
<1> HIDE DEF c, V
<1>7. \A n \in s .. end : c[n] = IF n = s THEN acc ELSE append_leaf(c[n - 1], Leaf(n - 1))
  BY <1>5
<1> HIDE DEF Is
<1> DEFINE Good(n) == Canonical(c[n]) /\ c[n].size = n
           Wrong == {n \in Nat : s <= n /\ n <= end /\ ~Good(n)}
<1>8. ASSUME Wrong # {} PROVE FALSE
  <2>1. PICK i \in Wrong : \A y \in Nat : y < i => y \notin Wrong
    <3>1. Wrong \in SUBSET Nat
      OBVIOUS
    <3> HIDE DEF Wrong
    <3> QED
      BY <1>8, <3>1, LeastElement
  <2>2. i \in Nat /\ i \in s .. end /\ ~Good(i) /\ \A y \in Nat : y < i /\ y \in s .. end => Good(y)
    BY <2>1
  <2> HIDE DEF Wrong
  <2>3. i # s
    BY <1>1, <1>7, <2>2
  <2>4. PICK j \in Nat : j = i - 1 /\ j + 1 = i /\ j < i /\ j \in s .. end
    BY <2>2, <2>3
  <2>5. c[i] = append_leaf(c[j], Leaf(j)) /\ Canonical(c[j]) /\ c[j].size = j
    BY <1>7, <2>2, <2>3, <2>4
  <2>6. Canonical(c[i]) /\ c[i].size = c[j].size + 1
    BY <2>5, AppendKeeps
  <2> QED
    BY <2>2, <2>4, <2>5, <2>6
<1>9. Good(end)
  BY <1>1, <1>8
<1> QED
  BY <1>6, <1>9

\* What is left after a block is less than the block.
LEMMA RestIsLess ==
  ASSUME NEW peaks, NEW b, NEW n \in Nat, Listed(peaks, b, n), Falling(b, Len(peaks))
  PROVE  \A i \in 1 .. Len(peaks) : b[i] <= n /\ n - b[i] < b[i] - b[i - 1]
<1>1. PICK k \in Nat : k = Len(peaks)
  BY DEF Listed
<1>2. /\ b \in [0 .. k -> Nat] /\ b[k] = n
      /\ \A i \in 1 .. k : b[i] - b[i - 1] \in Pow
  BY <1>1 DEF Listed
<1> DEFINE Good(i) == b[i] <= n /\ n - b[i] < b[i] - b[i - 1]
           Wrong == {m \in Nat : m < k /\ ~Good(k - m)}
<1>3. ASSUME Wrong # {} PROVE FALSE
  <2>1. PICK m \in Wrong : \A y \in Nat : y < m => y \notin Wrong
    <3>1. Wrong \in SUBSET Nat
      OBVIOUS
    <3> HIDE DEF Wrong
    <3> QED
      BY <1>3, <3>1, LeastElement
  <2>2. m \in Nat /\ m < k /\ ~Good(k - m) /\ \A y \in Nat : y < m => Good(k - y)
    BY <2>1
  <2> HIDE DEF Wrong
  <2>3. PICK i \in 1 .. k : i = k - m /\ i - 1 \in 0 .. k /\ i \in 0 .. k
    BY <2>2
  <2>4. PICK d \in Pow : d = b[i] - b[i - 1]
    BY <1>2, <2>3
  <2>5. d \in Nat \ {0}
    BY PowHalves
  <2>6. CASE m = 0
    <3>1. b[i] = n
      BY <1>2, <2>3, <2>6
    <3> QED
      BY <2>2, <2>3, <2>4, <2>5, <3>1
  <2>7. CASE m # 0
    <3>1. m - 1 \in Nat /\ m - 1 < m /\ k - (m - 1) = i + 1 /\ i \in 1 .. k - 1 /\ i + 1 \in 1 .. k /\ (i + 1) - 1 = i
          /\ i + 1 \in 0 .. k
      BY <2>2, <2>3, <2>7
    <3>2. Good(k - (m - 1))
      BY <2>2, <3>1
    <3>3. Good(i + 1)
      BY <3>1, <3>2
    <3>4. b[i + 1] - b[i] < d
      BY <1>1, <2>4, <3>1 DEF Falling
    <3>5. PICK e \in Pow : e = b[i + 1] - b[(i + 1) - 1]
      BY <1>2, <3>1
    <3>6. e \in Nat \ {0} /\ e = b[i + 1] - b[i]
      BY <3>1, <3>5, PowHalves
    <3>7. b[i + 1] <= n /\ n - b[i + 1] < e
      BY <3>1, <3>3, <3>6
    <3>8. 2 * e <= d
      BY <3>4, <3>6, PowGap
    <3>9. b[i] \in Nat /\ b[i + 1] \in Nat
      BY <1>2, <2>3, <3>1
    <3>10. PICK x \in Nat, y \in Nat : x = b[i] /\ y = b[i + 1]
      BY <3>9
    <3>11. y <= n /\ n - y < e /\ e = y - x
      BY <3>6, <3>7, <3>10
    <3>12. x <= n /\ n - x < d
      BY <2>5, <3>6, <3>8, <3>11
    <3> QED
      BY <2>2, <2>3, <2>4, <3>10, <3>12
  <2> QED
    BY <2>6, <2>7
<1>4. ASSUME NEW i \in 1 .. k PROVE Good(i)
  <2>1. k - i \in Nat /\ k - i < k /\ k - (k - i) = i
    OBVIOUS
  <2>2. k - i \notin Wrong
    BY <1>3
  <2>3. Good(k - (k - i))
    BY <2>1, <2>2
  <2> QED
    BY <2>1, <2>3
<1> QED
  BY <1>1, <1>4

\* The incremental root of the full subtrees is the tree hash of the entries they hold.
LEMMA IncrementalRoot ==
  ASSUME NEW acc, Canonical(acc), acc.size > 0
  PROVE  calculate_root(acc) = TreeHash[<<0, acc.size>>]
<1>1. PICK b : Listed(acc.peaks, b, acc.size) /\ Falling(b, Len(acc.peaks))
  BY DEF Canonical
<1>2. PICK n \in Nat, k \in Nat : n = acc.size /\ k = Len(acc.peaks)
  <2>1. acc.size \in Nat /\ acc.peaks \in Seq(PeakSet)
    BY <1>1 DEF Canonical, Listed
  <2>2. Len(acc.peaks) \in Nat
    BY <2>1
  <2> QED
    BY <2>1, <2>2
<1>3. /\ b \in [0 .. k -> Nat] /\ b[0] = 0 /\ b[k] = n
      /\ \A i \in 1 .. k : /\ b[i] - b[i - 1] \in Pow
                           /\ acc.peaks[i] = Peak(b[i - 1], b[i] - b[i - 1])
  BY <1>1, <1>2 DEF Listed
<1>4. k # 0
  BY <1>2, <1>3
<1>5. \A i \in 1 .. k : b[i] <= n /\ n - b[i] < b[i] - b[i - 1]
  BY <1>1, <1>2, RestIsLess
<1> DEFINE Is(f) == f = [i \in 1 .. k |->
                IF i = k THEN acc.peaks[k].v
                ELSE log_parent_value(acc.peaks[i].v, acc.peaks[i].h = 0, f[i + 1], FALSE)]
           c == CHOOSE f : Is(f)
           rest(i) == TreeHash[<<b[i - 1], n - b[i - 1]>>]
\* The step from the right: a block and what follows it.
<1>6. ASSUME NEW i \in 1 .. k
      PROVE  rest(i) = IF i = k THEN acc.peaks[k].v
                       ELSE log_parent_value(acc.peaks[i].v, acc.peaks[i].h = 0, rest(i + 1), FALSE)
  <2>1. i - 1 \in 0 .. k /\ i \in 0 .. k
    OBVIOUS
  <2>2. PICK lo \in Nat, hi \in Nat : lo = b[i - 1] /\ hi = b[i]
    BY <1>3, <2>1
  <2>3. PICK d \in Pow : d = hi - lo /\ acc.peaks[i] = Peak(lo, d)
    BY <1>3, <2>2
  <2>4. d \in Nat \ {0} /\ hi = lo + d /\ hi <= n /\ n - hi < d
    <3>1. d \in Nat \ {0}
      BY PowHalves
    <3> QED
      BY <1>5, <2>2, <2>3, <3>1
  <2>5. acc.peaks[i].v = TreeHash[<<lo, d>>] /\ acc.peaks[i].h = level[d - 1]
    BY <2>3 DEF Peak
  <2>6. CASE i = k
    <3>1. hi = n
      BY <1>3, <2>2, <2>6
    <3>2. n - lo = d
      BY <2>4, <3>1
    <3> QED
      BY <2>2, <2>5, <2>6, <3>2
  <2>7. CASE i # k
    <3>1. i + 1 \in 1 .. k /\ (i + 1) - 1 = i /\ i \in 1 .. k - 1 /\ i + 1 \in 0 .. k
      BY <2>7
    <3>2. PICK e \in Pow : e = b[i + 1] - b[i]
      BY <1>3, <3>1
    <3>3. e \in Nat \ {0}
      BY PowHalves
    <3>4. e < d
      BY <1>1, <1>2, <2>2, <2>3, <3>1, <3>2 DEF Falling
    <3>5. b[i + 1] <= n /\ b[i + 1] \in Nat
      BY <1>3, <1>5, <3>1
    <3>6. n - hi > 0
      BY <2>2, <3>2, <3>3, <3>5
    <3>7. PICK m \in Nat : /\ m = n - lo /\ d < m /\ m <= 2 * d /\ m - d = n - hi
                           /\ (m = 2) = FALSE
      <4>1. n - lo \in Nat /\ d < n - lo /\ n - lo <= 2 * d /\ (n - lo) - d = n - hi /\ n - lo # 2
        BY <2>4, <3>3, <3>4, <3>6
      <4> QED
        BY <4>1
    <3>8. TreeHash[<<lo, m>>] = log_parent_value(TreeHash[<<lo, d>>], d = 1, TreeHash[<<lo + d, m - d>>], m = 2)
      BY <3>7, TreeHashSplits
    <3>9. (level[d - 1] = 0) = (d = 1)
      BY HeightsTell
    <3>10. rest(i) = TreeHash[<<lo, m>>] /\ rest(i + 1) = TreeHash[<<lo + d, m - d>>]
      BY <2>2, <2>4, <3>1, <3>7
    <3> QED
      BY <2>5, <2>7, <3>7, <3>8, <3>9, <3>10
  <2> QED
    BY <2>6, <2>7
<1>7. \E f : Is(f)
  <2>1. PICK f : f = [i \in 1 .. k |-> rest(i)]
    OBVIOUS
  <2>2. ASSUME NEW i \in 1 .. k
        PROVE  f[i] = IF i = k THEN acc.peaks[k].v
                      ELSE log_parent_value(acc.peaks[i].v, acc.peaks[i].h = 0, f[i + 1], FALSE)
    <3>1. CASE i = k
      BY <1>6, <2>1, <3>1
    <3>2. CASE i # k
      <4>1. i + 1 \in 1 .. k
        BY <3>2
      <4>2. f[i] = rest(i) /\ f[i + 1] = rest(i + 1)
        BY <2>1, <4>1
      <4> HIDE DEF rest
      <4> QED
        BY <1>6, <3>2, <4>2
    <3> QED
      BY <3>1, <3>2
  <2>3. Is(f)
    BY <2>1, <2>2
  <2> QED
    BY <2>3
<1>8. Is(c)
  BY <1>7
<1>9. calculate_root(acc) = c[1]
  BY <1>2, <1>4 DEF calculate_root
<1> HIDE DEF c, rest
<1>10. \A i \in 1 .. k : c[i] = IF i = k THEN acc.peaks[k].v
                         ELSE log_parent_value(acc.peaks[i].v, acc.peaks[i].h = 0, c[i + 1], FALSE)
  BY <1>8
<1> HIDE DEF Is
<1> DEFINE Wrong == {m \in Nat : m < k /\ c[k - m] # rest(k - m)}
<1>11. ASSUME Wrong # {} PROVE FALSE
  <2>1. PICK m \in Wrong : \A y \in Nat : y < m => y \notin Wrong
    <3>1. Wrong \in SUBSET Nat
      OBVIOUS
    <3> HIDE DEF Wrong
    <3> QED
      BY <1>11, <3>1, LeastElement
  <2>2. m \in Nat /\ m < k /\ c[k - m] # rest(k - m) /\ \A y \in Nat : y < m => c[k - y] = rest(k - y)
    BY <2>1
  <2> HIDE DEF Wrong
  <2>3. PICK i \in 1 .. k : i = k - m
    BY <2>2
  <2>4. CASE i = k
    BY <1>6, <1>10, <2>2, <2>3, <2>4
  <2>5. CASE i # k
    <3>1. m - 1 \in Nat /\ m - 1 < m /\ k - (m - 1) = i + 1
      BY <2>2, <2>3, <2>5
    <3>2. c[k - (m - 1)] = rest(k - (m - 1))
      BY <2>2, <3>1
    <3>3. c[i + 1] = rest(i + 1)
      BY <3>1, <3>2
    <3> QED
      BY <1>6, <1>10, <2>2, <2>3, <2>5, <3>3
  <2> QED
    BY <2>4, <2>5
<1>12. c[1] = rest(1)
  <2>1. k - 1 \in Nat /\ k - 1 < k /\ k - (k - 1) = 1
    BY <1>4
  <2>2. k - 1 \notin Wrong
    BY <1>11
  <2>3. c[k - (k - 1)] = rest(k - (k - 1))
    BY <2>1, <2>2
  <2> QED
    BY <2>1, <2>3
<1>13. rest(1) = TreeHash[<<0, n>>]
  <2>1. 1 - 1 = 0 /\ n - 0 = n
    OBVIOUS
  <2> QED
    BY <1>3, <2>1 DEF rest
<1> QED
  BY <1>2, <1>9, <1>12, <1>13

\* The boundaries of get_roots: powers of two that fall, each the block of a node.
LEMMA CutIsBlocks ==
  ASSUME NEW b, NEW k, NEW n \in Nat, Cut(b, k, 0, n)
  PROVE  /\ \A i \in 1 .. k : /\ b[i] - b[i - 1] \in Pow /\ b[i] <= n
                              /\ Block(b[i - 1], b[i] - b[i - 1])
         /\ Falling(b, k)
<1>1. /\ k \in Nat /\ b \in [0 .. k -> Nat] /\ b[0] = 0 /\ b[k] = n
      /\ \A i \in 1 .. k : b[i - 1] < n /\ b[i] = b[i - 1] + msb[n - b[i - 1]]
  BY DEF Cut
<1>2. ASSUME NEW i \in 1 .. k
      PROVE  /\ b[i] - b[i - 1] \in Pow /\ b[i] - b[i - 1] \in Nat \ {0} /\ b[i] <= n
             /\ n - b[i] < b[i] - b[i - 1]
  <2>1. i - 1 \in 0 .. k /\ i \in 0 .. k
    BY <1>1
  <2>2. PICK lo \in Nat, hi \in Nat : lo = b[i - 1] /\ hi = b[i]
    BY <1>1, <2>1
  <2>3. PICK m \in Nat \ {0} : m = n - lo
    BY <1>1, <2>2
  <2>4. msb[m] \in Pow /\ msb[m] \in Nat \ {0} /\ msb[m] <= m /\ m < 2 * msb[m]
    BY MsbIsPow
  <2>5. PICK d \in Pow : d = msb[m] /\ d \in Nat \ {0} /\ d <= m /\ m < 2 * d
    BY <2>4
  <2>6. hi = lo + d
    BY <1>1, <2>2, <2>3, <2>5
  <2>7. hi - lo = d /\ hi <= n /\ n - hi < d
    BY <2>3, <2>5, <2>6
  <2> QED
    BY <2>2, <2>5, <2>7
<1>3. ASSUME NEW i \in 1 .. k - 1 PROVE b[i + 1] - b[i] < b[i] - b[i - 1]
  <2>1. i \in 1 .. k /\ i + 1 \in 1 .. k /\ (i + 1) - 1 = i /\ i \in 0 .. k /\ i + 1 \in 0 .. k /\ i - 1 \in 0 .. k
    BY <1>1
  <2>2. b[i] \in Nat /\ b[i + 1] \in Nat /\ b[i - 1] \in Nat
    BY <1>1, <2>1
  <2>3. b[i + 1] <= n /\ n - b[i] < b[i] - b[i - 1]
    BY <1>2, <2>1
  <2> QED
    BY <2>2, <2>3
<1> DEFINE Wrong == {i \in Nat : i \in 1 .. k /\ ~Block(b[i - 1], b[i] - b[i - 1])}
<1>4. ASSUME Wrong # {} PROVE FALSE
  <2>1. PICK i \in Wrong : \A y \in Nat : y < i => y \notin Wrong
    <3>1. Wrong \in SUBSET Nat
      OBVIOUS
    <3> HIDE DEF Wrong
    <3> QED
      BY <1>4, <3>1, LeastElement
  <2>2. /\ i \in 1 .. k /\ ~Block(b[i - 1], b[i] - b[i - 1])
        /\ \A y \in 1 .. k : y < i => Block(b[y - 1], b[y] - b[y - 1])
    BY <2>1
  <2> HIDE DEF Wrong
  <2>3. CASE i = 1
    <3>1. i - 1 = 0 /\ b[i - 1] = 0
      BY <1>1, <2>3
    <3>2. PICK d \in Pow : d = b[i] - b[i - 1]
      BY <1>2, <2>2
    <3>3. Block(0, d)
      BY BlockOf
    <3> QED
      BY <2>2, <3>1, <3>2, <3>3
  <2>4. CASE i # 1
    <3>1. PICK j \in 1 .. k - 1 : j + 1 = i /\ j = i - 1 /\ j < i /\ j \in 1 .. k /\ j \in 0 .. k /\ j - 1 \in 0 .. k
      <4>1. i - 1 \in 1 .. k - 1 /\ (i - 1) + 1 = i /\ i - 1 < i /\ i - 1 \in 1 .. k /\ i - 1 \in 0 .. k /\ (i - 1) - 1 \in 0 .. k
        BY <1>1, <2>2, <2>4
      <4> QED
        BY <4>1
    <3>2. PICK lo \in Nat, s \in Pow : lo = b[j - 1] /\ s = b[j] - b[j - 1]
      BY <1>1, <1>2, <3>1
    <3>3. PICK q \in Pow : q = b[i] - b[j]
      BY <1>2, <2>2, <3>1
    <3>4. s \in Nat \ {0} /\ q \in Nat \ {0}
      BY PowHalves
    <3>5. q < s
      BY <1>3, <3>1, <3>2, <3>3
    <3>6. Block(lo, s)
      BY <2>2, <3>1, <3>2
    <3>7. Block(lo + s, q)
      BY <3>4, <3>5, <3>6, BlockNext
    <3>8. b[j] = lo + s
      <4>1. b[j] \in Nat
        BY <1>1, <3>1
      <4> QED
        BY <3>2, <3>4, <4>1
    <3> QED
      BY <2>2, <3>1, <3>3, <3>7, <3>8
  <2> QED
    BY <2>3, <2>4
<1>5. Falling(b, k)
  BY <1>3 DEF Falling
<1>6. \A i \in 1 .. k : Block(b[i - 1], b[i] - b[i - 1])
  BY <1>4
<1> QED
  BY <1>2, <1>5, <1>6

\* The full subtrees of a log, as the log reads them, are those of an accumulator.
LEMMA BootstrapIsCanonical ==
  ASSUME NEW n \in Nat \ {0}, NEW stored \in {n, n + 1}, NEW values,
         values = [i \in DOMAIN get_roots(n) |-> resolve_node(get_roots(n)[i], n, stored)]
  PROVE  Canonical(from_peaks(n, values)) /\ from_peaks(n, values).size = n
<1>0. PICK ids \in Seq(Nat) : ids = get_roots(n)
  BY RootsAreCut
<1>1. PICK b : /\ ids = get_roots(n) /\ Cut(b, Len(ids), 0, n)
               /\ \A i \in 1 .. Len(ids) : ids[i] = Node(b[i - 1], b[i] - b[i - 1])
  <2>1. \E b : /\ Cut(b, Len(get_roots(n)), 0, n)
               /\ \A i \in 1 .. Len(get_roots(n)) : get_roots(n)[i] = Node(b[i - 1], b[i] - b[i - 1])
    BY RootsAreCut
  <2> QED
    BY <1>0, <2>1
<1>2. PICK k \in Nat : k = Len(ids) /\ DOMAIN ids = 1 .. k
  OBVIOUS
<1>3. /\ b \in [0 .. k -> Nat] /\ b[0] = 0 /\ b[k] = n
      /\ \A i \in 1 .. k : b[i - 1] < n /\ ids[i] = Node(b[i - 1], b[i] - b[i - 1])
  BY <1>1, <1>2 DEF Cut
<1>4. /\ \A i \in 1 .. k : /\ b[i] - b[i - 1] \in Pow /\ b[i] <= n
                           /\ Block(b[i - 1], b[i] - b[i - 1])
      /\ Falling(b, k)
  BY <1>1, <1>2, CutIsBlocks
<1>5. values = [i \in 1 .. k |-> resolve_node(ids[i], n, stored)]
  BY <1>1, <1>2
<1>6. ASSUME NEW i \in 1 .. k
      PROVE  [h |-> level[ids[i]], v |-> values[i]] = Peak(b[i - 1], b[i] - b[i - 1])
  <2>1. i - 1 \in 0 .. k /\ i \in 0 .. k
    OBVIOUS
  <2>2. PICK lo \in Nat, hi \in Nat : lo = b[i - 1] /\ hi = b[i]
    BY <1>3, <2>1
  <2>3. PICK d \in Pow : d = hi - lo /\ Block(lo, d)
    BY <1>4, <2>2
  <2>4. d \in Nat \ {0} /\ lo < n /\ lo + d <= n
    <3>1. d \in Nat \ {0}
      BY PowHalves
    <3> QED
      BY <1>3, <1>4, <2>2, <2>3, <3>1
  <2>5. ids[i] = Node(lo, d)
    BY <1>3, <2>2, <2>3
  <2>6. level[Node(lo, d)] = level[d - 1]
    <3>1. Node(lo, d) \in Nat /\ span[Node(lo, d)] = d
      BY <2>3, BlockOf DEF Block
    <3> QED
      BY <3>1, PowSpans
  <2>7. resolve_node(Node(lo, d), n, stored) = TreeHash[<<lo, Width(lo, d, n)>>]
    BY <2>3, <2>4, ResolvedIsTreeHash
  <2>8. Width(lo, d, n) = d
    BY <2>4 DEF Width
  <2>9. values[i] = TreeHash[<<lo, d>>]
    BY <1>5, <2>5, <2>7, <2>8
  <2> QED
    BY <2>2, <2>3, <2>5, <2>6, <2>9 DEF Peak
<1>7. PICK peaks : peaks = [i \in 1 .. k |-> [h |-> level[ids[i]], v |-> values[i]]]
  OBVIOUS
<1>8. \A i \in 1 .. k : peaks[i] = Peak(b[i - 1], b[i] - b[i - 1])
  BY <1>6, <1>7
<1>9. \A i \in 1 .. k : peaks[i] \in PeakSet
  <2> TAKE i \in 1 .. k
  <2>1. i - 1 \in 0 .. k
    OBVIOUS
  <2>2. PICK lo \in Nat, d \in Pow : lo = b[i - 1] /\ d = b[i] - b[i - 1]
    BY <1>3, <1>4, <2>1
  <2>3. d \in Nat \ {0}
    BY PowHalves
  <2>4. Peak(lo, d) \in PeakSet
    BY <2>3 DEF PeakSet
  <2> QED
    BY <1>8, <2>2, <2>4
<1>10. peaks \in Seq(PeakSet) /\ Len(peaks) = k
  <2>1. peaks \in [1 .. k -> PeakSet]
    BY <1>7, <1>9
  <2> QED
    BY <2>1
<1>11. Listed(peaks, b, n)
  BY <1>3, <1>4, <1>8, <1>10 DEF Listed
<1>12. from_peaks(n, values) = [size |-> n, peaks |-> peaks]
  <2>1. DOMAIN values = 1 .. k
    BY <1>5
  <2> QED
    <3>1. [i \in DOMAIN values |-> [h |-> level[get_roots(n)[i]], v |-> values[i]]] = peaks
      BY <1>0, <1>7, <2>1
    <3> QED
      BY <3>1, Zenon DEF from_peaks
<1>13. PICK acc : acc = from_peaks(n, values) /\ acc = [size |-> n, peaks |-> peaks]
  BY <1>12
<1>14. acc.size = n /\ acc.peaks = peaks
  BY <1>13
<1>15. Listed(acc.peaks, b, acc.size) /\ Falling(b, Len(acc.peaks))
  BY <1>4, <1>10, <1>11, <1>14
<1>16. Canonical(acc)
  BY <1>13, <1>14, <1>15 DEF Canonical
<1> QED
  BY <1>13, <1>14, <1>16

\* A head that was signed: the tree hash of a size a log of n entries has reached.
SignedRight(head, n) ==
  \/ head = NoHead
  \/ head.size \in 1 .. n /\ head.root = TreeHash[<<0, head.size>>]

\* The inductive invariant behind AuditorFollowsLog.
Following ==
  /\ size \in Nat /\ written \in {size, size + 1}
  /\ Canonical(auditor) /\ auditor.size <= size
  /\ SignedRight(signed, size) /\ SignedRight(auditors, size)

\* An empty log and an auditor that replayed nothing.
LEMMA FollowingInit == Init => Following
<1> SUFFICES ASSUME Init PROVE Following
  OBVIOUS
<1>1. PICK acc : acc = auditor /\ acc = [size |-> 0, peaks |-> <<>>]
  BY DEF Init
<1>2. acc.size = 0 /\ acc.peaks = <<>> /\ acc = [size |-> acc.size, peaks |-> acc.peaks]
  BY <1>1
<1>3. PICK b : b = [i \in 0 .. 0 |-> 0]
  OBVIOUS
<1>4. <<>> \in Seq(PeakSet) /\ Len(<<>>) = 0 /\ b \in [0 .. 0 -> Nat] /\ b[0] = 0
  BY <1>3
<1>5. Listed(acc.peaks, b, acc.size) /\ Falling(b, Len(acc.peaks))
  BY <1>2, <1>4 DEF Listed, Falling
<1>6. Canonical(acc)
  BY <1>2, <1>5 DEF Canonical
<1>7. size = 0 /\ written = 0 /\ signed = NoHead /\ auditors = NoHead
  BY DEF Init
<1>8. SignedRight(signed, size) /\ SignedRight(auditors, size)
  BY <1>7 DEF SignedRight
<1> QED
  BY <1>1, <1>2, <1>6, <1>7, <1>8 DEF Following

\* A new entry makes room and changes nothing else.
LEMMA AddEntryFollows ==
  ASSUME Following, AddEntry PROVE Following'
<1>1. /\ size' = size + 1 /\ written' = size + 1
      /\ auditor' = auditor /\ signed' = signed /\ auditors' = auditors
  BY DEF AddEntry
<1>2. size \in Nat /\ Canonical(auditor) /\ auditor.size <= size /\ auditor.size \in Nat
      /\ SignedRight(signed, size) /\ SignedRight(auditors, size)
  BY DEF Following, Canonical
<1>3. Canonical(auditor)'
  BY <1>1, <1>2
<1>4. SignedRight(signed, size)' /\ SignedRight(auditors, size)'
  BY <1>1, <1>2 DEF SignedRight, NoHead
<1>5. size' \in Nat /\ written' \in {size', size' + 1} /\ auditor'.size <= size'
  BY <1>1, <1>2
<1> QED
  BY <1>3, <1>4, <1>5 DEF Following

\* What is signed is the root of what was replayed.
LEMMA ProcessFollows ==
  ASSUME Following, ProcessAndSign PROVE Following'
<1> DEFINE end == IF auditor.size + AuditLimit > size THEN size ELSE auditor.size + AuditLimit
<1>1. /\ auditor.size < size /\ auditor' = Replay(auditor, end)
      /\ signed' = [size |-> auditor'.size, root |-> calculate_root(auditor')]
      /\ size' = size /\ written' = written /\ auditors' = auditors
  BY DEF ProcessAndSign
<1>2. size \in Nat /\ written \in {size, size + 1} /\ Canonical(auditor) /\ auditor.size \in Nat /\ SignedRight(auditors, size)
  BY DEF Following, Canonical
<1>3. end \in 1 .. size /\ auditor.size <= end
  BY <1>1, <1>2, SyncAssumption
<1> HIDE DEF end
<1>4. PICK acc : acc = auditor' /\ Canonical(acc) /\ acc.size = end
  BY <1>1, <1>2, <1>3, ReplayKeeps
<1>5. calculate_root(acc) = TreeHash[<<0, end>>]
  BY <1>3, <1>4, IncrementalRoot
<1>6. PICK head : head = signed' /\ head.size = end /\ head.root = TreeHash[<<0, end>>]
  BY <1>1, <1>4, <1>5
<1>7. SignedRight(head, size) /\ SignedRight(auditors, size)
  BY <1>2, <1>3, <1>6 DEF SignedRight
<1>8. SignedRight(signed, size)' /\ SignedRight(auditors, size)'
  BY <1>1, <1>6, <1>7 DEF SignedRight, NoHead
<1>9. Canonical(auditor)'
  BY <1>4
<1>10. size' \in Nat /\ written' \in {size', size' + 1} /\ auditor'.size <= size'
  BY <1>1, <1>2, <1>3, <1>4
<1> QED
  BY <1>8, <1>9, <1>10 DEF Following

\* The log holds what was signed, or what it held.
LEMMA SetFollows ==
  ASSUME Following, SetAuditorHead PROVE Following'
<1>1. /\ auditors' = (IF Accepts(signed) THEN signed ELSE auditors) /\ signed' = NoHead
      /\ size' = size /\ written' = written /\ auditor' = auditor
  BY DEF SetAuditorHead
<1>2. size \in Nat /\ written \in {size, size + 1} /\ Canonical(auditor) /\ auditor.size <= size
      /\ SignedRight(signed, size) /\ SignedRight(auditors, size)
  BY DEF Following
<1>3. auditors' = signed \/ auditors' = auditors
  BY <1>1
<1>4. SignedRight(signed, size)' /\ SignedRight(auditors, size)'
  BY <1>1, <1>2, <1>3 DEF SignedRight, NoHead
<1>5. Canonical(auditor)'
  BY <1>1, <1>2
<1> QED
  BY <1>1, <1>2, <1>4, <1>5 DEF Following

\* A bootstrapped auditor starts with the full subtrees of the log.
LEMMA BootstrapFollows ==
  ASSUME Following, Bootstrap PROVE Following'
<1>1. /\ size > 0
      /\ auditor' = from_peaks(size, [i \in DOMAIN get_roots(size) |->
                                        resolve_node(get_roots(size)[i], size, written)])
      /\ size' = size /\ written' = written /\ signed' = signed /\ auditors' = auditors
  BY DEF Bootstrap
<1>2. size \in Nat /\ written \in {size, size + 1} /\ SignedRight(signed, size) /\ SignedRight(auditors, size)
  BY DEF Following
<1>3. PICK n \in Nat \ {0} : n = size
  BY <1>1, <1>2
<1>4. PICK stored, values :
        /\ stored = written /\ stored \in {n, n + 1}
        /\ values = [i \in DOMAIN get_roots(n) |-> resolve_node(get_roots(n)[i], n, stored)]
  BY <1>2, <1>3
<1>5. PICK acc : acc = auditor' /\ Canonical(acc) /\ acc.size = n
  <2>1. Canonical(from_peaks(n, values)) /\ from_peaks(n, values).size = n
    BY <1>4, BootstrapIsCanonical
  <2> QED
    BY <1>1, <1>3, <1>4, <2>1
<1>6. Canonical(auditor)'
  BY <1>5
<1>7. SignedRight(signed, size)' /\ SignedRight(auditors, size)'
  BY <1>1, <1>2 DEF SignedRight, NoHead
<1> QED
  BY <1>1, <1>2, <1>3, <1>5, <1>6, <1>7 DEF Following

\* Steps that change neither the head of the log nor the auditor's side, or lose the log's copy of its head.
LEMMA OthersFollow ==
  ASSUME Following, size' = size, written' \in {size, size + 1}, auditor' = auditor, signed' = signed,
         auditors' \in {auditors, NoHead}
  PROVE  Following'
<1>1. size \in Nat /\ Canonical(auditor) /\ auditor.size <= size
      /\ SignedRight(signed, size) /\ SignedRight(auditors, size)
  BY DEF Following
<1>2. SignedRight(signed, size)' /\ SignedRight(auditors, size)'
  BY <1>1 DEF SignedRight, NoHead
<1>3. Canonical(auditor)'
  BY <1>1
<1> QED
  BY <1>1, <1>2, <1>3 DEF Following

\* Following is inductive: every step keeps it.
LEMMA FollowingNext == Following /\ [Next]_vars => Following'
<1> SUFFICES ASSUME Following, [Next]_vars PROVE Following'
  OBVIOUS
<1>1. CASE AddEntry
  BY <1>1, AddEntryFollows
<1>2. CASE ProcessAndSign
  BY <1>2, ProcessFollows
<1>3. CASE SetAuditorHead
  BY <1>3, SetFollows
<1>4. CASE Bootstrap
  BY <1>4, BootstrapFollows
<1>0. written \in {size, size + 1}
  BY DEF Following
<1>5. CASE LogRestarts
  BY <1>0, <1>5, OthersFollow DEF LogRestarts
<1>6. CASE \E x \in 0 .. MaxSize - 1 : Query(x)
  BY <1>0, <1>6, OthersFollow DEF Query
<1>7. CASE UNCHANGED vars
  BY <1>0, <1>7, OthersFollow DEF vars
<1>8. CASE BatchFails
  BY <1>8, OthersFollow DEF BatchFails
<1> QED
  BY <1>8, <1>1, <1>2, <1>3, <1>4, <1>5, <1>6, <1>7 DEF Next

\* AuditorFollowsLog: whatever portions the auditor replays, from the start or from a
\* bootstrap, its incremental root is the tree hash; while the log has not grown past it, the
\* log refuses it exactly when a failed batch left a leaf that completes a node over the last
\* entry; and the log never holds another head for the auditor.
THEOREM AuditorFollows == Spec => []AuditorFollowsLog
<1>1. Following => AuditorFollowsLog
  <2> SUFFICES ASSUME Following PROVE AuditorFollowsLog
    OBVIOUS
  <2>1. /\ size \in Nat /\ written \in {size, size + 1}
        /\ Canonical(auditor) /\ SignedRight(signed, size) /\ SignedRight(auditors, size)
    BY DEF Following
  <2>2. auditor.size > 0 => calculate_root(auditor) = TreeHash[<<0, auditor.size>>]
    BY <2>1, IncrementalRoot
  <2>3. ASSUME signed # NoHead, signed.size = size PROVE Accepts(signed) <=> ~Misread
    <3>1. PICK n \in Nat \ {0}, stored \in {size, size + 1} :
            n = size /\ stored = written /\ signed.root = TreeHash[<<0, n>>]
      BY <2>1, <2>3 DEF SignedRight
    <3>2. get_root(n, stored) = TreeHash[<<0, IF stored > n /\ n % 2 = 1 /\ n > 1 THEN n + 1 ELSE n>>]
      <4>1. stored \in {n, n + 1}
        BY <3>1
      <4> QED
        BY <4>1, RootIsTreeHash
    <3>3. auditors.size <= size
      BY <2>1 DEF SignedRight, NoHead
    <3>4. Accepts(signed) <=> signed.root = get_root(n, stored)
      BY <2>1, <2>3, <3>1, <3>3 DEF Accepts
    <3>5. CASE Misread
      <4>1. n + 1 \in Nat \ {0} /\ n + 1 # n /\ get_root(n, stored) = TreeHash[<<0, n + 1>>]
        BY <3>1, <3>2, <3>5 DEF Misread
      <4>2. TreeHash[<<0, n>>] # TreeHash[<<0, n + 1>>]
        BY <4>1, TreeHashTells
      <4> QED
        BY <3>1, <3>4, <3>5, <4>1, <4>2
    <3>6. CASE ~Misread
      <4>1. get_root(n, stored) = TreeHash[<<0, n>>]
        BY <3>1, <3>2, <3>6 DEF Misread
      <4> QED
        BY <3>1, <3>4, <3>6, <4>1
    <3> QED
      BY <3>5, <3>6
  <2>4. auditors # NoHead => auditors.root = TreeHash[<<0, auditors.size>>]
    BY <2>1 DEF SignedRight
  <2> QED
    BY <2>2, <2>3, <2>4 DEF AuditorFollowsLog
<1> QED
  BY <1>1, FollowingInit, FollowingNext, PTL DEF Spec

\* The parent of a node is a node.
LEMMA ParentIsNode ==
  ASSUME NEW x \in Nat
  PROVE  parent(x) \in Nat
<1>1. PICK s \in Nat \ {0} : s = span[x]
  BY SpanBounds
<1>2. PICK c \in Nat \ {0} : c = 2 * s
  OBVIOUS
<1>3. PICK d \in Nat : d = x \div c /\ d * c <= x
  OBVIOUS
<1>4. CASE d % 2 = 1
  <2>1. d # 0
    BY <1>4
  <2>2. PICK k \in Nat : d = k + 1
    <3>1. d - 1 \in Nat /\ d = (d - 1) + 1
      BY <2>1
    <3> QED
      BY <3>1
  <2>3. d * c = k * c + c
    BY <2>2
  <2>4. k * c \in Nat
    OBVIOUS
  <2>5. x >= c
    BY <1>3, <2>3, <2>4
  <2>6. x - s \in Nat
    BY <1>2, <2>5
  <2> QED
    BY <1>1, <1>2, <1>3, <1>4, <2>6 DEF parent
<1>5. CASE d % 2 # 1
  BY <1>1, <1>2, <1>3, <1>5 DEF parent
<1> QED
  BY <1>4, <1>5

\* The nodes from leaf up, which end at top.
Upwards(f, leaf, top) ==
  f[0] = leaf /\ \A i \in Nat : f[i + 1] = IF f[i] = top THEN top ELSE parent(f[i])

\* They exist.
LEMMA UpwardsExist ==
  ASSUME NEW leaf \in Nat, NEW top \in Nat
  PROVE  \E f \in [Nat -> Nat] : Upwards(f, leaf, top)
<1>1. PICK V : V = Nat
  OBVIOUS
<1>2. PICK g : g = [y \in V |-> IF y = top THEN top ELSE parent(y)]
  OBVIOUS
<1>3. g \in [V -> V] /\ leaf \in V /\ \A y \in V : g[y] = IF y = top THEN top ELSE parent(y)
  <2>1. \A y \in V : (IF y = top THEN top ELSE parent(y)) \in V
    BY <1>1, ParentIsNode
  <2>2. leaf \in V
    BY <1>1
  <2> DEFINE F(y) == IF y = top THEN top ELSE parent(y)
  <2>3. g = [y \in V |-> F(y)] /\ \A y \in V : F(y) \in V
    BY <1>2, <2>1
  <2> HIDE DEF F
  <2>4. g \in [V -> V] /\ \A y \in V : g[y] = F(y)
    BY <2>3
  <2>5. \A y \in V : g[y] = IF y = top THEN top ELSE parent(y)
    BY <2>4 DEF F
  <2> QED
    BY <2>2, <2>4, <2>5
<1>4. PICK v \in V, h \in [V -> V] : v = leaf /\ \A y \in V : h[y] = IF y = top THEN top ELSE parent(y)
  BY <1>3
<1>5. PICK f \in [Nat -> V] : f[0] = v /\ \A n \in Nat : f[n + 1] = h[f[n]]
  BY Iterates
<1>6. \A n \in Nat : f[n + 1] = IF f[n] = top THEN top ELSE parent(f[n])
  BY <1>4, <1>5
<1> QED
  BY <1>1, <1>4, <1>5, <1>6 DEF Upwards

\* The way up is a part of them.
LEMMA PathUpIs ==
  ASSUME NEW leaf \in Nat, NEW top \in Nat
  PROVE  \E h \in [Nat -> Nat] : /\ Upwards(h, leaf, top)
                                 /\ PathUp(leaf, top) = {h[i] : i \in 0 .. level[top]}
<1>1. PICK L \in Nat : L = level[top]
  BY LevelDefined
<1>2. PICK h \in [Nat -> Nat] : Upwards(h, leaf, top)
  BY UpwardsExist
<1>3. h[0] = leaf /\ \A i \in Nat : h[i + 1] = IF h[i] = top THEN top ELSE parent(h[i])
  BY <1>2 DEF Upwards
<1> DEFINE Is(f) == f = [i \in 0 .. L |-> IF i = 0 THEN leaf
                                          ELSE IF f[i - 1] = top THEN top ELSE parent(f[i - 1])]
           c == CHOOSE f : Is(f)
<1>4. \E f : Is(f)
  <2>1. PICK a : a = [i \in 0 .. L |-> h[i]]
    OBVIOUS
  <2>2. ASSUME NEW i \in 0 .. L
        PROVE  a[i] = IF i = 0 THEN leaf ELSE IF a[i - 1] = top THEN top ELSE parent(a[i - 1])
    <3>1. CASE i = 0
      BY <1>3, <2>1, <3>1
    <3>2. CASE i # 0
      <4>1. PICK j \in Nat : j = i - 1 /\ j + 1 = i /\ j \in 0 .. L
        BY <3>2
      <4>2. a[i] = h[i] /\ a[j] = h[j] /\ h[j + 1] = IF h[j] = top THEN top ELSE parent(h[j])
        BY <1>3, <2>1, <4>1
      <4> QED
        BY <3>2, <4>1, <4>2
    <3> QED
      BY <3>1, <3>2
  <2>3. Is(a)
    BY <2>1, <2>2 DEF Is
  <2> QED
    BY <2>3
<1>5. Is(c)
  BY <1>4
<1>6. PathUp(leaf, top) = {c[i] : i \in 0 .. L}
  BY <1>1 DEF PathUp
<1> HIDE DEF c
<1>7. \A i \in 0 .. L : c[i] = IF i = 0 THEN leaf ELSE IF c[i - 1] = top THEN top ELSE parent(c[i - 1])
  BY <1>5
<1> HIDE DEF Is
<1> DEFINE Wrong == {i \in Nat : i <= L /\ c[i] # h[i]}
<1>8. ASSUME Wrong # {} PROVE FALSE
  <2>1. PICK i \in Wrong : \A y \in Nat : y < i => y \notin Wrong
    <3>1. Wrong \in SUBSET Nat
      OBVIOUS
    <3> HIDE DEF Wrong
    <3> QED
      BY <1>8, <3>1, LeastElement
  <2>2. i \in Nat /\ i \in 0 .. L /\ c[i] # h[i]
    OBVIOUS
  <2>3. i # 0
    BY <1>3, <1>7, <2>2
  <2>4. PICK j \in Nat : j = i - 1 /\ j + 1 = i /\ j < i /\ j <= L
    BY <2>2, <2>3
  <2>5. c[j] = h[j]
    BY <2>1, <2>4
  <2>6. c[i] = IF c[j] = top THEN top ELSE parent(c[j])
    BY <1>7, <2>2, <2>3, <2>4
  <2> QED
    BY <1>3, <2>2, <2>4, <2>5, <2>6
<1>9. \A i \in 0 .. L : c[i] = h[i]
  BY <1>8
<1>10. PathUp(leaf, top) = {h[i] : i \in 0 .. L}
  BY <1>6, <1>9
<1> QED
  BY <1>1, <1>2, <1>10

\* The way up from a leaf passes every node over it, up to the root.
LEMMA PathUpHolds ==
  ASSUME NEW e \in Nat, NEW S, Block(0, S),
         NEW lo, NEW s, Block(lo, s), lo <= e, e < lo + s, s <= S
  PROVE  Node(lo, s) \in PathUp(2 * e, Node(0, S))
<1>1. PICK top \in Nat, leaf \in Nat : top = Node(0, S) /\ leaf = 2 * e
  BY BlockOf
<1>2. S \in Pow /\ S \in Nat \ {0}
  BY BlockOf, PowHalves
<1>3. PICK L \in Nat : L = level[top] /\ L = level[S - 1]
  <2>1. top = S - 1
    BY <1>1, <1>2 DEF Node
  <2> QED
    BY <1>1, <2>1, LevelDefined
<1>4. PICK c \in [Nat -> Nat] : /\ Upwards(c, leaf, top)
                                /\ PathUp(leaf, top) = {c[i] : i \in 0 .. level[top]}
  BY PathUpIs
<1>5. /\ c[0] = leaf
      /\ \A i \in Nat : c[i + 1] = IF c[i] = top THEN top ELSE parent(c[i])
  BY <1>4 DEF Upwards
<1>6. PathUp(leaf, top) = {c[i] : i \in 0 .. L}
  BY <1>3, <1>4
<1>7. \A i \in 0 .. L : c[i] = IF i = 0 THEN leaf ELSE IF c[i - 1] = top THEN top ELSE parent(c[i - 1])
  <2> TAKE i \in 0 .. L
  <2>1. i # 0 => i - 1 \in Nat /\ (i - 1) + 1 = i
    OBVIOUS
  <2> QED
    BY <1>5, <2>1
<1> DEFINE Good(t) == \A a : Block(a, t) /\ a <= e /\ e < a + t /\ t <= S =>
                        level[t - 1] \in 0 .. L /\ c[level[t - 1]] = Node(a, t)
           Wrong == {t \in Nat : ~Good(t)}
<1>8. ASSUME Wrong # {} PROVE FALSE
  <2>1. PICK t \in Wrong : \A y \in Nat : y < t => y \notin Wrong
    <3>1. Wrong \in SUBSET Nat
      OBVIOUS
    <3> HIDE DEF Wrong
    <3> QED
      BY <1>8, <3>1, LeastElement
  <2>2. t \in Nat /\ ~Good(t) /\ \A y \in Nat : y < t => Good(y)
    BY <2>1
  <2>3. PICK a : /\ Block(a, t) /\ a <= e /\ e < a + t /\ t <= S
                 /\ ~(level[t - 1] \in 0 .. L /\ c[level[t - 1]] = Node(a, t))
    BY <2>2
  <2> HIDE DEF Wrong
  <2>4. a \in Nat /\ t \in Nat \ {0} /\ t \in Pow
    BY <2>3, BlockOf DEF Block
  <2>5. CASE t = 1
    <3>1. level[t - 1] = 0 /\ c[0] = leaf /\ Node(a, t) = leaf
      <4>1. level[0] = 0
        BY PowSpans
      <4>2. a = e
        BY <2>3, <2>4, <2>5
      <4> QED
        BY <1>1, <1>7, <2>5, <4>1, <4>2 DEF Node
    <3> QED
      BY <2>3, <3>1
  <2>6. CASE t # 1
    <3>1. PICK h \in Pow : h \in Nat \ {0} /\ t = 2 * h /\ Block(a, h) /\ Block(a + h, h)
      BY <2>3, <2>6, BlockHalves
    <3>2. PICK x \in Nat : /\ Block(x, h) /\ x <= e /\ e < x + h
                           /\ parent(Node(x, h)) = Node(a, t)
      <4>1. parent(Node(a, h)) = Node(a, t) /\ parent(Node(a + h, h)) = Node(a, t)
        BY <2>3, <3>1, ParentOfHalves
      <4>2. (a <= e /\ e < a + h) \/ (a + h <= e /\ e < (a + h) + h)
        BY <2>3, <2>4, <3>1
      <4>3. a + h \in Nat
        BY <2>4, <3>1
      <4> QED
        BY <2>4, <3>1, <4>1, <4>2, <4>3
    <3>3. h < S /\ h < t /\ h <= S /\ h \in Nat
      <4>1. PICK m \in Nat \ {0} : m = h
        BY <3>1
      <4>2. PICK w \in Nat, u \in Nat : w = S /\ u = t /\ u = 2 * m /\ u <= w
        BY <1>2, <2>3, <2>4, <3>1, <4>1
      <4>3. m < u /\ m < w /\ m <= w
        BY <4>2
      <4> QED
        BY <4>1, <4>2, <4>3
    <3>4. level[h - 1] \in 0 .. L /\ c[level[h - 1]] = Node(x, h)
      <4>1. Good(h)
        BY <2>2, <3>3
      <4> QED
        BY <3>2, <3>3, <4>1
    <3>5. level[t - 1] = 1 + level[h - 1]
      BY <3>1, PowHalves
    <3>6. level[t - 1] <= L
      <4>1. t < S => level[t - 1] < level[S - 1]
        BY <1>2, <2>4, PowGap
      <4>2. level[t - 1] \in Nat
        BY <3>4, <3>5
      <4> QED
        BY <1>2, <1>3, <2>3, <2>4, <4>1, <4>2
    <3>7. PICK i \in 0 .. L : i = level[t - 1] /\ i # 0 /\ i - 1 = level[h - 1]
      BY <3>4, <3>5, <3>6
    <3>8. Node(x, h) # top
      <4>1. span[Node(x, h)] = h /\ span[top] = S
        BY <1>1, <3>2 DEF Block
      <4>2. h # S
        BY <1>2, <3>1, <3>3
      <4> QED
        BY <4>1, <4>2
    <3>9. c[i] = parent(Node(x, h))
      BY <1>7, <3>4, <3>7, <3>8
    <3> QED
      BY <2>3, <3>2, <3>7, <3>9
  <2> QED
    BY <2>5, <2>6
<1>9. s \in Nat
  BY DEF Block
<1>10. Good(s)
  BY <1>8, <1>9
<1> QED
  BY <1>1, <1>6, <1>10

\* One step of recursive_needed, with f for what is needed below the children.
Needed(x, n, skeleton, retained, f) ==
  IF x \notin skeleton THEN (IF x \in retained THEN <<>> ELSE <<x>>)
  ELSE IF is_leaf(x) THEN <<>>
  ELSE LET l == left_child(x)
           r == right_child(x, n)
       IN  IF l = r THEN f[l] ELSE f[l] \o f[r]

\* f has what recursive_needed returns, in steps.
Needs(f, n, skeleton, retained) ==
  \A x \in Nat : /\ recursive_needed(x, n, skeleton, retained) = f[x]
                 /\ f[x] \in Seq(Nat) /\ f[x] = Needed(x, n, skeleton, retained, f)

\* recursive_needed takes such steps, and the nodes a proof needs are a list.
LEMMA NeededDefined ==
  ASSUME NEW n \in Nat, NEW skeleton, NEW retained
  PROVE  \E f : Needs(f, n, skeleton, retained)
<1> DEFINE Step(x, f) == Needed(x, n, skeleton, retained, f)
<1>1. \A x \in Nat : ~is_leaf(x) => /\ left_child(x) \in Nat /\ right_child(x, n) \in Nat
                                    /\ span[left_child(x)] < span[x]
                                    /\ span[right_child(x, n)] < span[x]
  BY ChildrenAreSmaller
<1>2. PICK V : V = Seq(Nat)
  OBVIOUS
<1>3. ASSUME NEW f, NEW x \in Nat,
             ~is_leaf(x) => f[left_child(x)] \in V /\ f[right_child(x, n)] \in V
      PROVE  Step(x, f) \in V
  <2>1. <<>> \in Seq(Nat) /\ <<x>> \in Seq(Nat)
    OBVIOUS
  <2>2. CASE is_leaf(x)
    BY <1>2, <2>1, <2>2 DEF Needed
  <2>3. CASE ~is_leaf(x)
    <3>1. PICK p \in Seq(Nat), q \in Seq(Nat) : p = f[left_child(x)] /\ q = f[right_child(x, n)]
      BY <1>2, <1>3, <2>3
    <3>2. p \o q \in Seq(Nat)
      OBVIOUS
    <3>3. Step(x, f) \in {<<>>, <<x>>, p, p \o q}
      BY <2>3, <3>1 DEF Needed
    <3> QED
      BY <1>2, <2>1, <3>1, <3>2, <3>3
  <2> QED
    BY <2>2, <2>3
<1> DEFINE F == [a \in [Nat -> V] \X Nat |-> Step(a[2], a[1])]
<1>4. \A f \in [Nat -> V], x \in Nat : Step(x, f) \in V
  <2> TAKE f \in [Nat -> V], x \in Nat
  <2>1. ~is_leaf(x) => f[left_child(x)] \in V /\ f[right_child(x, n)] \in V
    BY <1>1
  <2> HIDE DEF Step
  <2> QED
    BY <1>3, <2>1
<1> HIDE DEF Step
<1>5. \A f \in [Nat -> V], x \in Nat : F[<<f, x>>] = Step(x, f)
  OBVIOUS
<1>6. F \in [[Nat -> V] \X Nat -> V]
  <2>1. \A a \in [Nat -> V] \X Nat : Step(a[2], a[1]) \in V
    BY <1>4
  <2> QED
    BY <2>1
<1> HIDE DEF F
<1>7. ASSUME NEW f \in [Nat -> V], NEW g \in [Nat -> V], NEW x \in Nat,
             \A y \in Nat : span[y] < span[x] => f[y] = g[y]
      PROVE  F[<<f, x>>] = F[<<g, x>>]
  <2>1. ~is_leaf(x) => /\ f[left_child(x)] = g[left_child(x)]
                       /\ f[right_child(x, n)] = g[right_child(x, n)]
    BY <1>1, <1>7
  <2>2. Step(x, f) = Step(x, g)
    BY <2>1 DEF Step, Needed
  <2> QED
    BY <1>5, <2>2
<1>8. PICK mu : mu = [x \in Nat |-> span[x]]
  OBVIOUS
<1>9. mu \in [Nat -> Nat] /\ \A x \in Nat : mu[x] = span[x]
  BY <1>8, SpanBounds
<1>10. Measured(F, Nat, V, mu)
  <2>1. \A f, g \in [Nat -> V], x \in Nat :
          (\A y \in Nat : mu[y] < mu[x] => f[y] = g[y]) => F[<<f, x>>] = F[<<g, x>>]
    BY <1>7, <1>9
  <2> QED
    BY <1>6, <1>9, <2>1, Zenon DEF Measured
<1>11. PICK f \in [Nat -> V] : \A x \in Nat : f[x] = F[<<f, x>>]
  <2>1. PICK v : v \in V
    <3>1. <<>> \in V
      BY <1>2
    <3> QED
      BY <3>1
  <2>2. \E f \in [Nat -> V] : Solves(f, F, Nat)
    BY <1>10, <2>1, MeasuredSolution
  <2> QED
    BY <2>2 DEF Solves
<1> DEFINE Is(g) == g = [x \in Nat |-> Step(x, g)]
           c == CHOOSE g : Is(g)
<1>12. Is(f)
  BY <1>5, <1>11
<1>13. Is(c)
  BY <1>12
<1>14. \A x \in Nat : recursive_needed(x, n, skeleton, retained) = c[x]
  BY DEF recursive_needed, Needed, Step
<1> HIDE DEF c
<1>15. \A x \in Nat : c[x] = Step(x, c)
  BY <1>13
<1> DEFINE Wrong == {s \in Nat : \E x \in Nat : span[x] = s /\ c[x] \notin V}
<1>16. ASSUME Wrong # {} PROVE FALSE
  <2>1. PICK s \in Wrong : \A y \in Nat : y < s => y \notin Wrong
    <3>1. Wrong \in SUBSET Nat
      OBVIOUS
    <3> HIDE DEF Wrong
    <3> QED
      BY <1>16, <3>1, LeastElement
  <2>2. PICK x \in Nat : span[x] = s /\ c[x] \notin V
    OBVIOUS
  <2>3. \A y \in Nat : span[y] < s => c[y] \in V
    BY <2>1, SpanBounds
  <2>4. ~is_leaf(x) => c[left_child(x)] \in V /\ c[right_child(x, n)] \in V
    BY <1>1, <2>2, <2>3
  <2>5. Step(x, c) \in V
    BY <1>3, <2>4
  <2> QED
    BY <1>15, <2>2, <2>5
<1>17. \A x \in Nat : c[x] \in V
  <2>1. \A x \in Nat : span[x] \in Nat
    BY SpanBounds
  <2> QED
    BY <1>16, <2>1
<1>18. \A x \in Nat : c[x] = Needed(x, n, skeleton, retained, c)
  BY <1>15 DEF Step
<1>19. Needs(c, n, skeleton, retained)
  BY <1>2, <1>14, <1>17, <1>18 DEF Needs
<1> QED
  BY <1>19

\* Whatever is on the way down and retained.
LEMMA NeededIsList ==
  ASSUME NEW n \in Nat, NEW skeleton, NEW retained
  PROVE  \A x \in Nat : recursive_needed(x, n, skeleton, retained) \in Seq(Nat)
  BY NeededDefined DEF Needs

\* What a fold captures: hashes of some nodes.
Captured(V) == UNION {[D -> V] : D \in SUBSET Nat}

\* What a fold returns while it has up to m elements.
Folded(V, m) == [val : V, left : 0 .. m, captured : Captured(V)]

\* A single node is captured; two sets of nodes are.
LEMMA CapturedJoin ==
  ASSUME NEW V
  PROVE  /\ \A x \in Nat, v \in V : [p \in {x} |-> v] \in Captured(V)
         /\ \A f, g \in Captured(V) : Join(f, g) \in Captured(V)
<1>1. ASSUME NEW x \in Nat, NEW v \in V PROVE [p \in {x} |-> v] \in Captured(V)
  <2>1. {x} \in SUBSET Nat /\ [p \in {x} |-> v] \in [{x} -> V]
    OBVIOUS
  <2> QED
    BY <2>1 DEF Captured
<1>2. ASSUME NEW f \in Captured(V), NEW g \in Captured(V) PROVE Join(f, g) \in Captured(V)
  <2>1. PICK A \in SUBSET Nat, B \in SUBSET Nat : f \in [A -> V] /\ g \in [B -> V]
    BY DEF Captured
  <2>2. PICK C \in SUBSET Nat : C = A \cup B
    OBVIOUS
  <2>3. Join(f, g) = [x \in C |-> IF x \in A THEN f[x] ELSE g[x]]
    BY <2>1, <2>2 DEF Join
  <2>4. \A x \in C : (IF x \in A THEN f[x] ELSE g[x]) \in V
    BY <2>1, <2>2
  <2>5. Join(f, g) \in [C -> V]
    BY <2>3, <2>4
  <2> QED
    BY <2>5 DEF Captured
<1> QED
  BY <1>1, <1>2

\* The hash of a node's children, and what was captured below it.
Joined(x, l, a, r, b) ==
  Captures(log_parent_value(a.val, is_leaf(l), b.val, is_leaf(r)), b.left,
           Join(Join(a.captured, b.captured),
                [p \in {x} |-> log_parent_value(a.val, is_leaf(l), b.val, is_leaf(r))]))

\* The outcomes of the fold at node x, with k elements left.
Outcome(x, k, n, above, m, y, f) ==
  \/ y.val = Err
  \/ /\ x \notin above \/ is_leaf(x)
     /\ y.captured = [p \in {x} |-> y.val]
  \/ /\ x \in above /\ ~is_leaf(x) /\ left_child(x) = right_child(x, n)
     /\ y.val = f[<<left_child(x), k>>].val
     /\ y.captured = Join(f[<<left_child(x), k>>].captured, [p \in {x} |-> y.val])
  \/ /\ x \in above /\ ~is_leaf(x) /\ left_child(x) # right_child(x, n)
     /\ \E j \in 0 .. m :
          /\ f[<<left_child(x), k>>].val # Err /\ f[<<right_child(x, n), j>>].val # Err
          /\ y = Joined(x, left_child(x), f[<<left_child(x), k>>],
                        right_child(x, n), f[<<right_child(x, n), j>>])

\* One step of the fold is well formed and is one of those outcomes.
LEMMA FoldStep ==
  ASSUME NEW V, Hashes(V), NEW n \in Nat, NEW m \in Nat, NEW leaves, NEW above,
         NEW elements, Len(elements) = m, \A i \in 1 .. m : elements[i] \in V,
         NEW retained, \A p \in DOMAIN retained : retained[p] \in V,
         NEW f, NEW x \in Nat, NEW k \in 0 .. m,
         ~is_leaf(x) => /\ f[<<left_child(x), k>>] \in Folded(V, m)
                        /\ \A j \in 0 .. m : f[<<right_child(x, n), j>>] \in Folded(V, m)
  PROVE  LET y == recursive_hash(x, k, n, leaves, above, elements, retained, f)
         IN  y \in Folded(V, m) /\ Outcome(x, k, n, above, m, y, f)
<1> DEFINE met(v, left) == Captures(v, left, [p \in {x} |-> v])
<1>1. PICK y : y = recursive_hash(x, k, n, leaves, above, elements, retained, f)
  OBVIOUS
<1>2. Err \in V /\ (is_leaf(x) => Leaf(x \div 2) \in V)
  BY DEF Hashes, is_leaf
<1>3. ASSUME NEW v \in V, NEW left \in 0 .. m PROVE met(v, left) \in Folded(V, m)
  <2>1. [p \in {x} |-> v] \in Captured(V)
    BY CapturedJoin
  <2> QED
    BY <2>1 DEF Folded, Captures
<1>4. CASE is_leaf(x) /\ x \div 2 \in leaves
  <2>1. y = met(Leaf(x \div 2), k)
    BY <1>1, <1>4 DEF recursive_hash
  <2>2. y \in Folded(V, m)
    BY <1>2, <1>3, <1>4, <2>1
  <2>3. y.captured = [p \in {x} |-> y.val]
    BY <2>1 DEF Captures
  <2> QED
    BY <1>1, <1>4, <2>2, <2>3 DEF Outcome
<1>5. CASE ~(is_leaf(x) /\ x \div 2 \in leaves) /\ x \notin above
  <2>1. CASE x \in DOMAIN retained
    <3>1. y = met(retained[x], k)
      BY <1>1, <1>5, <2>1 DEF recursive_hash
    <3>2. y \in Folded(V, m)
      BY <1>3, <2>1, <3>1
    <3>3. y.captured = [p \in {x} |-> y.val]
      BY <3>1 DEF Captures
    <3> QED
      BY <1>1, <1>5, <3>2, <3>3 DEF Outcome
  <2>2. CASE x \notin DOMAIN retained /\ k = 0
    <3>1. y = met(Err, 0)
      BY <1>1, <1>5, <2>2 DEF recursive_hash
    <3>2. y \in Folded(V, m)
      BY <1>2, <1>3, <2>2, <3>1
    <3>3. y.captured = [p \in {x} |-> y.val]
      BY <3>1 DEF Captures
    <3> QED
      BY <1>1, <1>5, <3>2, <3>3 DEF Outcome
  <2>3. CASE x \notin DOMAIN retained /\ k # 0
    <3>1. y = met(elements[m - k + 1], k - 1)
      BY <1>1, <1>5, <2>3 DEF recursive_hash
    <3>2. m - k + 1 \in 1 .. m /\ k - 1 \in 0 .. m
      BY <2>3
    <3>3. y \in Folded(V, m)
      BY <1>3, <3>1, <3>2
    <3>4. y.captured = [p \in {x} |-> y.val]
      BY <3>1 DEF Captures
    <3> QED
      BY <1>1, <1>5, <3>3, <3>4 DEF Outcome
  <2> QED
    BY <2>1, <2>2, <2>3
<1>6. CASE x \in above /\ is_leaf(x) /\ x \div 2 \notin leaves
  <2>1. y = met(Err, k)
    BY <1>1, <1>6 DEF recursive_hash
  <2>2. y \in Folded(V, m)
    BY <1>2, <1>3, <2>1
  <2>3. y.val = Err
    BY <2>1 DEF Captures
  <2> QED
    BY <1>1, <2>2, <2>3 DEF Outcome
<1>7. CASE x \in above /\ ~is_leaf(x)
  <2>1. PICK l, r, a, b : /\ l = left_child(x) /\ r = right_child(x, n)
                          /\ a = f[<<l, k>>] /\ b = f[<<r, a.left>>]
    OBVIOUS
  <2>2. a \in Folded(V, m)
    BY <1>7, <2>1
  <2>3. a.left \in 0 .. m /\ a.val \in V /\ a.captured \in Captured(V)
    BY <2>2 DEF Folded
  <2>4. b \in Folded(V, m)
    BY <1>7, <2>1, <2>3
  <2>5. b.left \in 0 .. m /\ b.val \in V /\ b.captured \in Captured(V)
    BY <2>4 DEF Folded
  <2>6. y = IF a.val = Err \/ l = r
            THEN Captures(a.val, a.left, Join(a.captured, [p \in {x} |-> a.val]))
            ELSE IF b.val = Err THEN b
            ELSE Joined(x, l, a, r, b)
    BY <1>1, <1>7, <2>1 DEF recursive_hash, Joined
  <2>7. CASE a.val = Err \/ l = r
    <3>1. y = Captures(a.val, a.left, Join(a.captured, [p \in {x} |-> a.val]))
      BY <2>6, <2>7
    <3>2. Join(a.captured, [p \in {x} |-> a.val]) \in Captured(V)
      BY <2>3, CapturedJoin
    <3>3. y \in Folded(V, m)
      BY <2>3, <3>1, <3>2 DEF Captures, Folded
    <3>4. y.val = a.val /\ y.captured = Join(a.captured, [p \in {x} |-> y.val])
      BY <3>1 DEF Captures
    <3> QED
      BY <1>1, <1>7, <2>1, <2>7, <3>3, <3>4 DEF Outcome
  <2>8. CASE ~(a.val = Err \/ l = r) /\ b.val = Err
    BY <1>1, <2>4, <2>6, <2>8 DEF Outcome
  <2>9. CASE ~(a.val = Err \/ l = r) /\ b.val # Err
    <3>1. y = Joined(x, l, a, r, b)
      BY <2>6, <2>9
    <3>2. PICK v \in V : v = log_parent_value(a.val, is_leaf(l), b.val, is_leaf(r))
      <4>1. is_leaf(l) \in BOOLEAN /\ is_leaf(r) \in BOOLEAN
        BY DEF is_leaf
      <4>2. log_parent_value(a.val, is_leaf(l), b.val, is_leaf(r)) \in V
        BY <2>3, <2>5, <4>1 DEF Hashes
      <4> QED
        BY <4>2
    <3>3. Join(Join(a.captured, b.captured), [p \in {x} |-> v]) \in Captured(V)
      BY <2>3, <2>5, CapturedJoin
    <3>4. y \in Folded(V, m)
      BY <2>5, <3>1, <3>2, <3>3 DEF Joined, Captures, Folded
    <3> QED
      BY <1>1, <1>7, <2>1, <2>3, <2>9, <3>1, <3>4 DEF Outcome
  <2> QED
    BY <2>7, <2>8, <2>9
<1> QED
  BY <1>4, <1>5, <1>6, <1>7

\* f holds what the fold returns at every node, with up to m elements left.
Folds(f, m, n, leaves, elements, retained) ==
  \A x \in Nat, k \in 0 .. m :
    f[<<x, k>>] = recursive_hash(x, k, n, leaves, Above(leaves, n), elements, retained, f)

\* The fold of calculate_root_capturing is defined, and each of its steps has one of the outcomes.
LEMMA FoldDefined ==
  ASSUME NEW n \in Nat, NEW m \in Nat, NEW leaves, NEW elements, Len(elements) = m, NEW retained
  PROVE  \E f : /\ calculate_root_capturing(leaves, n, elements, retained) = f[<<merkle_root(n), m>>]
                /\ Folds(f, m, n, leaves, elements, retained)
                /\ \A x \in Nat, k \in 0 .. m : Outcome(x, k, n, Above(leaves, n), m, f[<<x, k>>], f)
<1>1. PICK above : above = Above(leaves, n)
  OBVIOUS
<1>2. PICK known : known = {retained[p] : p \in DOMAIN retained} \cup {elements[i] : i \in 1 .. m}
  OBVIOUS
<1>3. PICK V : Hashes(V) /\ known \subseteq V
  BY HashesOver
<1>4. /\ \A i \in 1 .. m : elements[i] \in V
      /\ \A p \in DOMAIN retained : retained[p] \in V
  BY <1>2, <1>3
<1>5. PICK R, D : R = Folded(V, m) /\ D = Nat \X (0 .. m)
  OBVIOUS
<1>6. \A x \in Nat : ~is_leaf(x) => /\ left_child(x) \in Nat /\ right_child(x, n) \in Nat
                                    /\ span[left_child(x)] < span[x]
                                    /\ span[right_child(x, n)] < span[x]
  BY ChildrenAreSmaller
<1> DEFINE Step(x, k, f) == recursive_hash(x, k, n, leaves, above, elements, retained, f)
<1>7. ASSUME NEW f, NEW x \in Nat, NEW k \in 0 .. m,
             ~is_leaf(x) => /\ f[<<left_child(x), k>>] \in R
                            /\ \A j \in 0 .. m : f[<<right_child(x, n), j>>] \in R
      PROVE  Step(x, k, f) \in R /\ Outcome(x, k, n, above, m, Step(x, k, f), f)
  BY <1>3, <1>4, <1>5, <1>7, FoldStep
<1>8. ASSUME NEW f, NEW g, NEW x \in Nat, NEW k \in 0 .. m,
             ~is_leaf(x) => /\ f[<<left_child(x), k>>] \in R
                            /\ f[<<left_child(x), k>>] = g[<<left_child(x), k>>]
                            /\ \A j \in 0 .. m : f[<<right_child(x, n), j>>] = g[<<right_child(x, n), j>>]
      PROVE  Step(x, k, f) = Step(x, k, g)
  <2>1. CASE is_leaf(x)
    BY <2>1 DEF recursive_hash
  <2>2. CASE ~is_leaf(x)
    <3>1. PICK l, r, a, b : /\ l = left_child(x) /\ r = right_child(x, n)
                            /\ a = f[<<l, k>>] /\ b = f[<<r, a.left>>]
      OBVIOUS
    <3>2. a.left \in 0 .. m
      BY <1>5, <1>8, <2>2, <3>1 DEF Folded
    <3>3. a = g[<<l, k>>] /\ b = g[<<r, a.left>>]
      BY <1>8, <2>2, <3>1, <3>2
    <3> QED
      BY <3>1, <3>3 DEF recursive_hash
  <2> QED
    BY <2>1, <2>2
<1> DEFINE F == [a \in [D -> R] \X D |-> Step(a[2][1], a[2][2], a[1])]
<1> HIDE DEF Step
<1>9. \A f \in [D -> R], x \in Nat, k \in 0 .. m :
        ~is_leaf(x) => /\ f[<<left_child(x), k>>] \in R
                       /\ \A j \in 0 .. m : f[<<right_child(x, n), j>>] \in R
  <2> TAKE f \in [D -> R], x \in Nat, k \in 0 .. m
  <2> HAVE ~is_leaf(x)
  <2>1. <<left_child(x), k>> \in D /\ \A j \in 0 .. m : <<right_child(x, n), j>> \in D
    BY <1>5, <1>6
  <2> QED
    BY <2>1
<1>10. \A x \in D : x[1] \in Nat /\ x[2] \in 0 .. m /\ x = <<x[1], x[2]>>
  BY <1>5
<1>11. \A f \in [D -> R], x \in D : F[<<f, x>>] = Step(x[1], x[2], f)
  OBVIOUS
<1>12. F \in [[D -> R] \X D -> R]
  <2>1. ASSUME NEW a \in [D -> R] \X D PROVE Step(a[2][1], a[2][2], a[1]) \in R
    <3>1. PICK f \in [D -> R], x \in Nat, k \in 0 .. m : f = a[1] /\ x = a[2][1] /\ k = a[2][2]
      BY <1>10
    <3> QED
      BY <1>7, <1>9, <3>1
  <2> QED
    BY <2>1
<1> HIDE DEF F
<1>13. PICK mu : mu = [x \in D |-> span[x[1]]]
  OBVIOUS
<1>14. mu \in [D -> Nat] /\ \A x \in D : mu[x] = span[x[1]]
  BY <1>10, <1>13, SpanBounds
<1>15. ASSUME NEW f \in [D -> R], NEW g \in [D -> R], NEW x \in D,
              \A y \in D : mu[y] < mu[x] => f[y] = g[y]
       PROVE  F[<<f, x>>] = F[<<g, x>>]
  <2>1. PICK z \in Nat, k \in 0 .. m : z = x[1] /\ k = x[2]
    BY <1>10
  <2>2. ASSUME NEW y \in Nat, NEW j \in 0 .. m, span[y] < span[z]
        PROVE  f[<<y, j>>] = g[<<y, j>>]
    <3>1. <<y, j>> \in D /\ mu[<<y, j>>] = span[y] /\ mu[x] = span[z]
      BY <1>5, <1>14, <2>1
    <3> QED
      BY <1>15, <2>2, <3>1
  <2>3. ~is_leaf(z) => /\ f[<<left_child(z), k>>] \in R
                       /\ f[<<left_child(z), k>>] = g[<<left_child(z), k>>]
                       /\ \A j \in 0 .. m : f[<<right_child(z, n), j>>] = g[<<right_child(z, n), j>>]
    BY <1>6, <1>9, <2>2
  <2>4. Step(z, k, f) = Step(z, k, g)
    BY <1>8, <2>3
  <2> QED
    BY <1>11, <2>1, <2>4
<1>16. Measured(F, D, R, mu)
  <2>1. \A f, g \in [D -> R], x \in D :
          (\A y \in D : mu[y] < mu[x] => f[y] = g[y]) => F[<<f, x>>] = F[<<g, x>>]
    BY <1>15
  <2> QED
    BY <1>12, <1>14, <2>1, Zenon DEF Measured
<1>17. PICK e \in [D -> R] : \A x \in D : e[x] = F[<<e, x>>]
  <2>1. PICK v : v \in R
    <3>1. <<>> \in V /\ [p \in {} |-> <<>>] \in [{} -> V] /\ {} \in SUBSET Nat
      BY <1>3 DEF Hashes, Err
    <3>2. [p \in {} |-> <<>>] \in Captured(V)
      BY <3>1 DEF Captured
    <3>3. [val |-> <<>>, left |-> 0, captured |-> [p \in {} |-> <<>>]] \in R
      BY <1>5, <3>1, <3>2 DEF Folded
    <3> QED
      BY <3>3
  <2>2. \E f \in [D -> R] : Solves(f, F, D)
    BY <1>16, <2>1, MeasuredSolution
  <2> QED
    BY <2>2 DEF Solves
<1> DEFINE Is(g) == g = [x \in D |-> Step(x[1], x[2], g)]
           c == CHOOSE g : Is(g)
<1>18. Is(e)
  BY <1>11, <1>17
<1>19. Is(c)
  BY <1>18
<1>20. calculate_root_capturing(leaves, n, elements, retained) = c[<<merkle_root(n), m>>]
  BY <1>1, <1>5 DEF calculate_root_capturing, Step
<1> HIDE DEF c
<1>21. \A x \in Nat, k \in 0 .. m : c[<<x, k>>] = Step(x, k, c)
  <2> TAKE x \in Nat, k \in 0 .. m
  <2>1. <<x, k>> \in D
    BY <1>5
  <2> QED
    BY <1>19, <2>1
<1> DEFINE Wrong == {s \in Nat : \E x \in Nat : span[x] = s /\ \E k \in 0 .. m : c[<<x, k>>] \notin R}
<1>22. ASSUME Wrong # {} PROVE FALSE
  <2>1. PICK s \in Wrong : \A y \in Nat : y < s => y \notin Wrong
    <3>1. Wrong \in SUBSET Nat
      OBVIOUS
    <3> HIDE DEF Wrong
    <3> QED
      BY <1>22, <3>1, LeastElement
  <2>2. PICK x \in Nat : span[x] = s /\ \E k \in 0 .. m : c[<<x, k>>] \notin R
    OBVIOUS
  <2>3. PICK k \in 0 .. m : c[<<x, k>>] \notin R
    BY <2>2
  <2>4. \A y \in Nat : span[y] < s => \A j \in 0 .. m : c[<<y, j>>] \in R
    BY <2>1, SpanBounds
  <2>5. ~is_leaf(x) => /\ c[<<left_child(x), k>>] \in R
                       /\ \A j \in 0 .. m : c[<<right_child(x, n), j>>] \in R
    BY <1>6, <2>2, <2>4
  <2>6. Step(x, k, c) \in R
    BY <1>7, <2>5
  <2> QED
    BY <1>21, <2>3, <2>6
<1>23. \A x \in Nat, k \in 0 .. m : c[<<x, k>>] \in R
  <2>1. \A x \in Nat : span[x] \in Nat
    BY SpanBounds
  <2> QED
    BY <1>22, <2>1
<1>24. \A x \in Nat, k \in 0 .. m : Outcome(x, k, n, above, m, c[<<x, k>>], c)
  <2> TAKE x \in Nat, k \in 0 .. m
  <2>1. ~is_leaf(x) => /\ c[<<left_child(x), k>>] \in R
                       /\ \A j \in 0 .. m : c[<<right_child(x, n), j>>] \in R
    BY <1>6, <1>23
  <2>2. Outcome(x, k, n, above, m, Step(x, k, c), c)
    BY <1>7, <2>1
  <2> QED
    BY <1>21, <2>2
<1>25. Folds(c, m, n, leaves, elements, retained)
  BY <1>1, <1>21 DEF Step, Folds
<1> QED
  BY <1>1, <1>20, <1>24, <1>25

\* The outcomes alone.
LEMMA FoldOutcomes ==
  ASSUME NEW n \in Nat, NEW m \in Nat, NEW leaves, NEW elements, Len(elements) = m, NEW retained
  PROVE  \E f : /\ calculate_root_capturing(leaves, n, elements, retained) = f[<<merkle_root(n), m>>]
                /\ \A x \in Nat, k \in 0 .. m : Outcome(x, k, n, Above(leaves, n), m, f[<<x, k>>], f)
<1>1. PICK f : /\ calculate_root_capturing(leaves, n, elements, retained) = f[<<merkle_root(n), m>>]
               /\ Folds(f, m, n, leaves, elements, retained)
               /\ \A x \in Nat, k \in 0 .. m : Outcome(x, k, n, Above(leaves, n), m, f[<<x, k>>], f)
  BY FoldDefined
<1> QED
  BY <1>1

\* Every captured node has entries, and its hash is the tree hash over them.
CaptureRight(n, g) ==
  \A lo, s : Block(lo, s) /\ Node(lo, s) \in DOMAIN g =>
    lo < n /\ g[Node(lo, s)] = TreeHash[<<lo, Width(lo, s, n)>>]

\* A node has one first entry and one width.
LEMMA SameNode ==
  ASSUME NEW lo, NEW s, Block(lo, s), NEW a, NEW t, Block(a, t), Node(lo, s) = Node(a, t)
  PROVE  lo = a /\ s = t
<1>1. lo \in Nat /\ a \in Nat /\ s \in Nat /\ s = t
  BY DEF Block
<1>2. 2 * lo + s - 1 = 2 * a + s - 1
  BY <1>1 DEF Node
<1> QED
  BY <1>1, <1>2

\* One right node is right; two right sets of nodes are right together.
LEMMA RightJoin ==
  ASSUME NEW n \in Nat
  PROVE  /\ \A lo, s : Block(lo, s) /\ lo < n =>
              CaptureRight(n, [p \in {Node(lo, s)} |-> TreeHash[<<lo, Width(lo, s, n)>>]])
         /\ \A f, g : CaptureRight(n, f) /\ CaptureRight(n, g) => CaptureRight(n, Join(f, g))
<1>1. ASSUME NEW lo, NEW s, Block(lo, s), lo < n
      PROVE  CaptureRight(n, [p \in {Node(lo, s)} |-> TreeHash[<<lo, Width(lo, s, n)>>]])
  <2>1. PICK v : v = TreeHash[<<lo, Width(lo, s, n)>>]
    OBVIOUS
  <2>2. PICK g : g = [p \in {Node(lo, s)} |-> v]
    OBVIOUS
  <2>3. \A a, t : Block(a, t) /\ Node(a, t) \in DOMAIN g => a = lo /\ t = s
    BY <1>1, <2>2, SameNode
  <2>4. \A p \in DOMAIN g : g[p] = v
    BY <2>2
  <2>5. CaptureRight(n, g)
    BY <1>1, <2>1, <2>3, <2>4 DEF CaptureRight
  <2> QED
    BY <2>1, <2>2, <2>5
<1>2. ASSUME NEW f, NEW g, CaptureRight(n, f), CaptureRight(n, g)
      PROVE  CaptureRight(n, Join(f, g))
  <2>1. DOMAIN Join(f, g) = DOMAIN f \cup DOMAIN g
    BY DEF Join
  <2>2. \A p \in DOMAIN f \cup DOMAIN g : \/ p \in DOMAIN f /\ Join(f, g)[p] = f[p]
                                          \/ p \in DOMAIN g /\ Join(f, g)[p] = g[p]
    BY DEF Join
  <2> QED
    BY <1>2, <2>1, <2>2 DEF CaptureRight
<1> QED
  BY <1>1, <1>2

\* As different trees have different hashes, a fold with the right root captured nothing wrong.
LEMMA FoldSound ==
  ASSUME NEW n \in Nat, NEW m \in Nat, NEW above, NEW f,
         \A x \in Nat, k \in 0 .. m : Outcome(x, k, n, above, m, f[<<x, k>>], f)
  PROVE  \A lo, s : Block(lo, s) /\ lo < n =>
           \A k \in 0 .. m : f[<<Node(lo, s), k>>].val = TreeHash[<<lo, Width(lo, s, n)>>]
                               => CaptureRight(n, f[<<Node(lo, s), k>>].captured)
<1> DEFINE Good(s) == \A lo : Block(lo, s) /\ lo < n =>
             \A k \in 0 .. m : f[<<Node(lo, s), k>>].val = TreeHash[<<lo, Width(lo, s, n)>>]
                                 => CaptureRight(n, f[<<Node(lo, s), k>>].captured)
           Wrong == {s \in Nat : ~Good(s)}
<1>1. ASSUME Wrong # {} PROVE FALSE
  <2>1. PICK s \in Wrong : \A y \in Nat : y < s => y \notin Wrong
    <3>1. Wrong \in SUBSET Nat
      OBVIOUS
    <3> HIDE DEF Wrong
    <3> QED
      BY <1>1, <3>1, LeastElement
  <2>2. s \in Nat /\ ~Good(s) /\ \A y \in Nat : y < s => Good(y)
    BY <2>1
  <2>3. PICK lo : Block(lo, s) /\ lo < n /\
          \E k \in 0 .. m : f[<<Node(lo, s), k>>].val = TreeHash[<<lo, Width(lo, s, n)>>]
                            /\ ~CaptureRight(n, f[<<Node(lo, s), k>>].captured)
    BY <2>2
  <2>4. PICK k \in 0 .. m : f[<<Node(lo, s), k>>].val = TreeHash[<<lo, Width(lo, s, n)>>]
                            /\ ~CaptureRight(n, f[<<Node(lo, s), k>>].captured)
    BY <2>3
  <2> HIDE DEF Wrong
  <2>5. lo \in Nat /\ s \in Nat \ {0} /\ Node(lo, s) \in Nat
    BY <2>3, BlockOf DEF Block
  <2>a. PICK x \in Nat : x = Node(lo, s)
    BY <2>5
  <2>b. PICK y : y = f[<<x, k>>]
    OBVIOUS
  <2>6. x = Node(lo, s) /\ y = f[<<x, k>>]
    BY <2>a, <2>b
  <2>7. PICK N \in Nat \ {0} : N = Width(lo, s, n) /\ N = IF lo + s <= n THEN s ELSE n - lo
    <3>1. (IF lo + s <= n THEN s ELSE n - lo) \in Nat \ {0}
      BY <2>3, <2>5
    <3> QED
      BY <3>1 DEF Width
  <2>8. y.val = TreeHash[<<lo, N>>] /\ y.val # Err /\ ~CaptureRight(n, y.captured)
    BY <2>4, <2>5, <2>6, <2>7, TreeHashSplits
  <2>9. CaptureRight(n, [p \in {x} |-> y.val])
    BY <2>3, <2>6, <2>7, <2>8, RightJoin
  <2>10. Outcome(x, k, n, above, m, y, f)
    BY <2>6
  <2>11. y.captured # [p \in {x} |-> y.val]
    BY <2>8, <2>9
  <2>12. ~is_leaf(x)
    BY <2>8, <2>10, <2>11 DEF Outcome
  <2>13. PICK h \in Pow : /\ h \in Nat \ {0} /\ s = 2 * h
                          /\ Block(lo, h) /\ left_child(x) = Node(lo, h) /\ Block(lo + h, h)
    BY <2>3, <2>6, <2>12, BlockHalves
  <2>14. Good(h)
    <3>1. h < s
      BY <2>13
    <3> QED
      BY <2>2, <2>13, <3>1
  <2> HIDE DEF Good
  <2>15. right_child(x, n) = IF lo + h < n THEN Node(lo + h, h) ELSE Node(lo, h)
    BY <2>3, <2>6, <2>13, RightChildOf
  <2>16. Node(lo, h) # Node(lo + h, h)
    BY <2>5, <2>13 DEF Node
  <2>17. CASE lo + h >= n
    <3>1. left_child(x) = right_child(x, n)
      <4>1. ~(lo + h < n)
        BY <2>5, <2>13, <2>17
      <4> QED
        BY <2>13, <2>15, <4>1
    <3>2. PICK a : /\ a = f[<<Node(lo, h), k>>] /\ y.val = a.val
                   /\ y.captured = Join(a.captured, [p \in {x} |-> y.val])
      BY <2>8, <2>10, <2>11, <2>13, <3>1 DEF Outcome
    <3>3. Width(lo, h, n) = N
      <4>1. N = n - lo
        BY <2>5, <2>7, <2>13, <2>17
      <4>2. Width(lo, h, n) = n - lo
        BY <2>5, <2>13, <2>17 DEF Width
      <4> QED
        BY <4>1, <4>2
    <3>4. CaptureRight(n, a.captured)
      BY <2>3, <2>8, <2>13, <2>14, <3>2, <3>3 DEF Good
    <3> QED
      BY <2>8, <2>9, <3>2, <3>4, RightJoin
  <2>18. CASE lo + h < n
    <3>1. left_child(x) # right_child(x, n) /\ right_child(x, n) = Node(lo + h, h)
      BY <2>13, <2>15, <2>16, <2>18
    <3>2. PICK j \in 0 .. m :
            y = Joined(x, left_child(x), f[<<left_child(x), k>>],
                       right_child(x, n), f[<<right_child(x, n), j>>])
      BY <2>8, <2>10, <2>11, <3>1 DEF Outcome
    <3>3. PICK a, b, v, A, B :
            /\ a = f[<<Node(lo, h), k>>] /\ b = f[<<Node(lo + h, h), j>>]
            /\ v = log_parent_value(a.val, A, b.val, B) /\ v = y.val
            /\ y.captured = Join(Join(a.captured, b.captured), [p \in {x} |-> v])
      BY <2>13, <3>1, <3>2 DEF Joined, Captures
    <3>4. h < N /\ N <= 2 * h /\ N - h \in Nat \ {0}
      BY <2>5, <2>7, <2>13, <2>18
    <3>5. TreeHash[<<lo, N>>] = log_parent_value(TreeHash[<<lo, h>>], h = 1,
                                                 TreeHash[<<lo + h, N - h>>], N = 2)
      BY <2>5, <3>4, TreeHashSplits
    <3>6. a.val = TreeHash[<<lo, h>>] /\ b.val = TreeHash[<<lo + h, N - h>>]
      BY <2>8, <3>3, <3>5 DEF log_parent_value
    <3>7. Width(lo, h, n) = h /\ Width(lo + h, h, n) = N - h
      <4>1. Width(lo, h, n) = h
        BY <2>5, <2>13, <2>18 DEF Width
      <4>2. (lo + h) + h = lo + s /\ (N = s => N - h = h)
        BY <2>5, <2>13
      <4>3. Width(lo + h, h, n) = IF lo + s <= n THEN h ELSE n - (lo + h)
        BY <4>2 DEF Width
      <4>4. N = n - lo => N - h = n - (lo + h)
        BY <2>5, <2>13
      <4> QED
        BY <2>7, <4>1, <4>2, <4>3, <4>4
    <3>8. CaptureRight(n, a.captured)
      BY <2>3, <2>13, <2>14, <3>3, <3>6, <3>7 DEF Good
    <3>9. CaptureRight(n, b.captured)
      BY <2>13, <2>14, <2>18, <3>3, <3>6, <3>7 DEF Good
    <3>10. CaptureRight(n, Join(a.captured, b.captured))
      BY <3>8, <3>9, RightJoin
    <3> QED
      BY <2>8, <2>9, <3>3, <3>10, RightJoin
  <2> QED
    BY <2>5, <2>13, <2>17, <2>18
<1> QED
  <2>1. \A lo, s : Block(lo, s) => s \in Nat
    BY DEF Block
  <2> QED
    BY <1>1, <2>1

\* The node itself is captured, and with every node on the way down both its children.
Reached(x, n, above, g) ==
  /\ x \in DOMAIN g
  /\ \A p \in DOMAIN g : p \in above /\ ~is_leaf(p) =>
       left_child(p) \in DOMAIN g /\ right_child(p, n) \in DOMAIN g

\* A fold that does not fail captures all that.
LEMMA FoldReaches ==
  ASSUME NEW n \in Nat, NEW m \in Nat, NEW above, NEW f,
         \A x \in Nat, k \in 0 .. m : Outcome(x, k, n, above, m, f[<<x, k>>], f)
  PROVE  \A x \in Nat, k \in 0 .. m :
           f[<<x, k>>].val # Err => Reached(x, n, above, f[<<x, k>>].captured)
<1> DEFINE Good(x) == \A k \in 0 .. m :
             f[<<x, k>>].val # Err => Reached(x, n, above, f[<<x, k>>].captured)
           Wrong == {s \in Nat : \E x \in Nat : span[x] = s /\ ~Good(x)}
<1>1. ASSUME Wrong # {} PROVE FALSE
  <2>1. PICK s \in Wrong : \A y \in Nat : y < s => y \notin Wrong
    <3>1. Wrong \in SUBSET Nat
      OBVIOUS
    <3> HIDE DEF Wrong
    <3> QED
      BY <1>1, <3>1, LeastElement
  <2>2. PICK x \in Nat : span[x] = s /\ ~Good(x)
    BY <2>1
  <2>3. \A y \in Nat : span[y] < s => Good(y)
    BY <2>1, SpanBounds
  <2> HIDE DEF Wrong
  <2>4. PICK k \in 0 .. m : f[<<x, k>>].val # Err /\ ~Reached(x, n, above, f[<<x, k>>].captured)
    BY <2>2
  <2>5. PICK y : y = f[<<x, k>>] /\ y.val # Err /\ ~Reached(x, n, above, y.captured)
    BY <2>4
  <2>6. Outcome(x, k, n, above, m, y, f)
    BY <2>5
  <2>7. PICK l, r : l = left_child(x) /\ r = right_child(x, n)
    OBVIOUS
  <2>8. ~is_leaf(x) => l \in Nat /\ r \in Nat /\ Good(l) /\ Good(r)
    BY <2>2, <2>3, <2>7, ChildrenAreSmaller
  <2>9. CASE (x \notin above \/ is_leaf(x)) /\ y.captured = [p \in {x} |-> y.val]
    <3>1. DOMAIN y.captured = {x}
      BY <2>9
    <3> QED
      BY <2>5, <2>9, <3>1 DEF Reached
  <2>10. CASE /\ x \in above /\ ~is_leaf(x) /\ l = r
              /\ y.val = f[<<l, k>>].val
              /\ y.captured = Join(f[<<l, k>>].captured, [p \in {x} |-> y.val])
    <3>1. PICK a : a = f[<<l, k>>] /\ Reached(l, n, above, a.captured)
      BY <2>5, <2>8, <2>10
    <3>2. DOMAIN y.captured = DOMAIN a.captured \cup {x}
      BY <2>10, <3>1 DEF Join
    <3> QED
      BY <2>5, <2>7, <2>10, <3>1, <3>2 DEF Reached
  <2>11. CASE /\ x \in above /\ ~is_leaf(x) /\ l # r
              /\ \E j \in 0 .. m :
                   /\ f[<<l, k>>].val # Err /\ f[<<r, j>>].val # Err
                   /\ y = Joined(x, l, f[<<l, k>>], r, f[<<r, j>>])
    <3>1. PICK j \in 0 .. m : /\ f[<<l, k>>].val # Err /\ f[<<r, j>>].val # Err
                              /\ y = Joined(x, l, f[<<l, k>>], r, f[<<r, j>>])
      BY <2>11
    <3>2. PICK a, b : /\ a = f[<<l, k>>] /\ Reached(l, n, above, a.captured)
                      /\ b = f[<<r, j>>] /\ Reached(r, n, above, b.captured)
      BY <2>8, <2>11, <3>1
    <3>3. DOMAIN y.captured = (DOMAIN a.captured \cup DOMAIN b.captured) \cup {x}
      BY <3>1, <3>2 DEF Joined, Captures, Join
    <3> QED
      BY <2>5, <2>7, <2>11, <3>2, <3>3 DEF Reached
  <2> QED
    BY <2>5, <2>6, <2>7, <2>9, <2>10, <2>11 DEF Outcome
<1> QED
  <2>1. \A x \in Nat : span[x] \in Nat
    BY SpanBounds
  <2> QED
    BY <1>1, <2>1

\* Two nodes of one width over the same entry are the same.
LEMMA OneBlock ==
  ASSUME NEW e \in Nat
  PROVE  \A s, lo, a : /\ Block(lo, s) /\ lo <= e /\ e < lo + s
                       /\ Block(a, s) /\ a <= e /\ e < a + s
                       => lo = a
<1> DEFINE Good(s) == \A lo, a : /\ Block(lo, s) /\ lo <= e /\ e < lo + s
                                 /\ Block(a, s) /\ a <= e /\ e < a + s
                                 => lo = a
           Wrong == {s \in Nat : ~Good(s)}
<1>1. ASSUME Wrong # {} PROVE FALSE
  <2>1. PICK s \in Wrong : \A y \in Nat : y < s => y \notin Wrong
    <3>1. Wrong \in SUBSET Nat
      OBVIOUS
    <3> HIDE DEF Wrong
    <3> QED
      BY <1>1, <3>1, LeastElement
  <2>2. s \in Nat /\ ~Good(s) /\ \A y \in Nat : y < s => Good(y)
    BY <2>1
  <2>3. PICK lo, a : /\ Block(lo, s) /\ lo <= e /\ e < lo + s
                     /\ Block(a, s) /\ a <= e /\ e < a + s /\ lo # a
    BY <2>2
  <2> HIDE DEF Wrong
  <2>4. lo \in Nat /\ a \in Nat /\ s \in Nat \ {0}
    BY <2>3 DEF Block
  <2>5. s # 1
    BY <2>3, <2>4
  <2>6. PICK h \in Pow : h \in Nat \ {0} /\ s = 2 * h /\ Block(lo, h) /\ Block(lo + h, h)
    BY <2>3, <2>5, BlockHalves
  <2>7. Block(a, h) /\ Block(a + h, h)
    <3>1. PICK g \in Pow : g \in Nat \ {0} /\ s = 2 * g /\ Block(a, g) /\ Block(a + g, g)
      BY <2>3, <2>5, BlockHalves
    <3>2. g = h
      BY <2>6, <3>1
    <3> QED
      BY <3>1, <3>2
  <2>8. Good(h)
    <3>1. h < s
      BY <2>6
    <3> QED
      BY <2>2, <2>6, <3>1
  <2>9. \A c \in Nat : Block(c, 2 * h) /\ Block(c, h) /\ Block(c + h, h) /\ c <= e /\ e < c + s =>
          \E x \in Nat : /\ Block(x, h) /\ x <= e /\ e < x + h
                         /\ parent(Node(x, h)) = Node(c, 2 * h)
    <3> TAKE c \in Nat
    <3> HAVE Block(c, 2 * h) /\ Block(c, h) /\ Block(c + h, h) /\ c <= e /\ e < c + s
    <3>1. parent(Node(c, h)) = Node(c, 2 * h) /\ parent(Node(c + h, h)) = Node(c, 2 * h)
      BY <2>6, ParentOfHalves
    <3>2. c + h \in Nat /\ ((c <= e /\ e < c + h) \/ (c + h <= e /\ e < (c + h) + h))
      BY <2>6
    <3> QED
      BY <3>1, <3>2
  <2>10. PICK x \in Nat : Block(x, h) /\ x <= e /\ e < x + h /\ parent(Node(x, h)) = Node(lo, s)
    BY <2>3, <2>4, <2>6, <2>9
  <2>11. PICK z \in Nat : Block(z, h) /\ z <= e /\ e < z + h /\ parent(Node(z, h)) = Node(a, s)
    BY <2>3, <2>4, <2>6, <2>7, <2>9
  <2>12. x = z
    BY <2>8, <2>10, <2>11
  <2> QED
    BY <2>3, <2>10, <2>11, <2>12, SameNode
<1> QED
  <2>1. \A s, lo : Block(lo, s) => s \in Nat
    BY DEF Block
  <2> QED
    BY <1>1, <2>1

\* A peak is full; the node of twice its width also holds the last entry.
LEMMA PeaksAreFull ==
  ASSUME NEW n \in Nat \ {0}, NEW p \in ToSet(get_roots(n))
  PROVE  \E lo \in Nat, d \in Pow : /\ p = Node(lo, d) /\ Block(lo, d) /\ Block(lo, 2 * d)
                                    /\ lo + d <= n /\ n < lo + 2 * d
<1>1. PICK ids \in Seq(Nat) : ids = get_roots(n)
  BY RootsAreCut
<1>2. PICK b : /\ Cut(b, Len(ids), 0, n)
               /\ \A i \in 1 .. Len(ids) : ids[i] = Node(b[i - 1], b[i] - b[i - 1])
  <2>1. \E b : /\ Cut(b, Len(get_roots(n)), 0, n)
               /\ \A i \in 1 .. Len(get_roots(n)) : get_roots(n)[i] = Node(b[i - 1], b[i] - b[i - 1])
    BY RootsAreCut
  <2> QED
    BY <1>1, <2>1
<1>3. PICK k \in Nat : k = Len(ids) /\ DOMAIN ids = 1 .. k
  OBVIOUS
<1>4. /\ b \in [0 .. k -> Nat] /\ b[0] = 0
      /\ \A i \in 1 .. k : b[i - 1] < n /\ b[i] = b[i - 1] + msb[n - b[i - 1]]
  BY <1>2, <1>3 DEF Cut
<1>5. /\ \A i \in 1 .. k : /\ b[i] - b[i - 1] \in Pow /\ b[i] <= n
                           /\ Block(b[i - 1], b[i] - b[i - 1])
      /\ Falling(b, k)
  BY <1>2, <1>3, CutIsBlocks
<1>6. PICK i \in 1 .. k : p = ids[i]
  BY <1>1, <1>3 DEF ToSet
<1>7. i - 1 \in 0 .. k /\ i \in 0 .. k
  OBVIOUS
<1>8. PICK lo \in Nat, hi \in Nat : lo = b[i - 1] /\ hi = b[i]
  BY <1>4, <1>7
<1>9. PICK d \in Pow : d = hi - lo /\ Block(lo, d)
  BY <1>5, <1>8
<1>10. d \in Nat \ {0} /\ 2 * d \in Pow
  BY PowHalves
<1>11. p = Node(lo, d) /\ lo + d <= n
  BY <1>2, <1>3, <1>5, <1>6, <1>8, <1>9, <1>10, SMTT(30)
<1>12. n < lo + 2 * d
  <2>1. PICK m \in Nat \ {0} : m = n - lo
    BY <1>4, <1>8
  <2>2. msb[m] \in Nat /\ m < 2 * msb[m]
    BY MsbIsPow
  <2>3. msb[m] = d
    <3>1. PICK q \in Nat : q = msb[m]
      BY <2>2
    <3>2. hi = lo + q
      BY <1>4, <1>8, <2>1, <3>1
    <3>3. d = q
      BY <1>9, <3>2
    <3> QED
      BY <3>1, <3>3
  <2> QED
    BY <1>10, <2>1, <2>2, <2>3
<1>13. Block(lo, 2 * d)
  <2>1. CASE i = 1
    BY <1>4, <1>8, <1>10, <2>1, BlockOf
  <2>2. CASE i # 1
    <3>1. PICK j \in 1 .. k - 1 : j + 1 = i /\ j = i - 1 /\ j \in 1 .. k /\ j - 1 \in 0 .. k
      BY <2>2
    <3>2. PICK at \in Nat : at = b[j - 1]
      BY <1>4, <3>1
    <3>3. PICK c \in Pow : c = lo - at /\ Block(at, c)
      BY <1>5, <1>8, <3>1, <3>2
    <3>4. c \in Nat \ {0} /\ at + c = lo
      BY <3>3, PowHalves
    <3>5. d < c
      BY <1>5, <1>8, <1>9, <3>1, <3>2, <3>3 DEF Falling
    <3>6. 2 * d <= c
      BY <3>5, PowGap
    <3> QED
      BY <1>10, <3>3, <3>4, <3>6, BlockNext
  <2> QED
    BY <2>1, <2>2
<1> QED
  BY <1>9, <1>11, <1>12, <1>13

\* A fold over the last entry captures every peak, and every peak of the log one entry before.
LEMMA PeaksReached ==
  ASSUME NEW n \in Nat \ {0}, NEW entries, n - 1 \in entries,
         NEW g, Reached(merkle_root(n), n, Above(entries, n), g)
  PROVE  \A q \in Nat \ {0} : q = n \/ q + 1 = n => ToSet(get_roots(q)) \subseteq DOMAIN g
<1>1. PICK S \in Pow : /\ S \in Nat \ {0} /\ merkle_root(n) = Node(0, S) /\ Block(0, S)
                       /\ n <= S
  BY MerkleRootOf
<1>2. PICK e \in Nat : e = n - 1 /\ e < n
  OBVIOUS
<1>3. PICK D, above : D = DOMAIN g /\ above = Above(entries, n)
  OBVIOUS
<1>4. /\ Node(0, S) \in D
      /\ \A p \in D : p \in above /\ ~is_leaf(p) => left_child(p) \in D /\ right_child(p, n) \in D
  BY <1>1, <1>3 DEF Reached
<1>5. ASSUME NEW lo, NEW s, Block(lo, s), lo <= e, e < lo + s, s <= S
      PROVE  Node(lo, s) \in above
  <2>1. Node(lo, s) \in PathUp(2 * e, Node(0, S))
    BY <1>1, <1>5, PathUpHolds
  <2>2. PathUp(2 * e, Node(0, S)) \subseteq above
    BY <1>1, <1>2, <1>3 DEF Above
  <2> QED
    BY <2>1, <2>2
<1>6. ASSUME NEW lo, NEW h \in Nat \ {0}, Block(lo, 2 * h), lo <= e, e < lo + 2 * h, 2 * h <= S,
             Node(lo, 2 * h) \in D
      PROVE  /\ Block(lo, h) /\ Block(lo + h, h) /\ Node(lo, h) \in D
             /\ lo + h <= e => Node(lo + h, h) \in D
  <2>1. ~is_leaf(Node(lo, 2 * h)) /\ Block(lo, h) /\ Block(lo + h, h) /\ left_child(Node(lo, 2 * h)) = Node(lo, h)
    <3>1. 2 * h # 1
      OBVIOUS
    <3>2. PICK j \in Pow : /\ j \in Nat \ {0} /\ 2 * h = 2 * j
                           /\ Block(lo, j) /\ left_child(Node(lo, 2 * h)) = Node(lo, j)
                           /\ Block(lo + j, j)
      BY <1>6, <3>1, BlockHalves
    <3>3. j = h
      BY <3>2
    <3>4. ~is_leaf(Node(lo, 2 * h))
      BY <1>6, <3>1, BlockHalves
    <3> QED
      BY <3>2, <3>3, <3>4
  <2>2. Node(lo, 2 * h) \in above
    BY <1>5, <1>6
  <2>3. left_child(Node(lo, 2 * h)) \in D /\ right_child(Node(lo, 2 * h), n) \in D
    BY <1>4, <1>6, <2>1, <2>2
  <2>4. lo + h <= e => right_child(Node(lo, 2 * h), n) = Node(lo + h, h)
    <3>1. lo \in Nat
      BY <1>6 DEF Block
    <3>2. lo + h <= e => lo + h < n
      BY <1>2, <3>1
    <3> QED
      BY <1>6, <3>2, RightChildOf
  <2> QED
    BY <2>1, <2>3, <2>4
<1> DEFINE Over(t) == \E a \in Nat : Block(a, t) /\ a <= e /\ e < a + t /\ Node(a, t) \in D
           Wrong == {c \in Nat : \E t \in Pow : t <= S /\ c = S - t /\ ~Over(t)}
<1>7. ASSUME Wrong # {} PROVE FALSE
  <2>1. PICK c \in Wrong : \A y \in Nat : y < c => y \notin Wrong
    <3>1. Wrong \in SUBSET Nat
      OBVIOUS
    <3> HIDE DEF Wrong
    <3> QED
      BY <1>7, <3>1, LeastElement
  <2>2. PICK t \in Pow : t <= S /\ c = S - t /\ ~Over(t)
    BY <2>1
  <2>3. t \in Nat \ {0} /\ 2 * t \in Pow
    BY PowHalves
  <2>4. CASE t = S
    <3>1. 0 <= e /\ e < 0 + S
      BY <1>1, <1>2
    <3> QED
      BY <1>1, <1>4, <2>2, <2>4, <3>1
  <2>5. CASE t # S
    <3>1. t < S
      BY <1>1, <2>2, <2>3, <2>5
    <3>2. 2 * t <= S
      BY <3>1, PowGap
    <3>3. S - 2 * t \in Nat /\ S - 2 * t < c
      BY <1>1, <2>2, <2>3, <3>2
    <3>4. Over(2 * t)
      BY <2>1, <2>3, <3>2, <3>3
    <3>5. PICK a \in Nat : Block(a, 2 * t) /\ a <= e /\ e < a + 2 * t /\ Node(a, 2 * t) \in D
      BY <3>4
    <3> HIDE DEF Over, Wrong
    <3>6. /\ Block(a, t) /\ Block(a + t, t) /\ Node(a, t) \in D
          /\ a + t <= e => Node(a + t, t) \in D
      BY <1>6, <2>3, <3>2, <3>5
    <3>7. (a <= e /\ e < a + t) \/ (a + t <= e /\ e < (a + t) + t /\ a + t \in Nat)
      BY <2>3, <3>5
    <3>8. Over(t)
      BY <3>5, <3>6, <3>7 DEF Over
    <3> QED
      BY <2>2, <3>8
  <2> QED
    BY <2>4, <2>5
<1>8. ASSUME NEW t \in Pow, t <= S PROVE Over(t)
  <2>1. t \in Nat \ {0}
    BY PowHalves
  <2>2. S - t \in Nat
    BY <1>1, <1>8, <2>1
  <2> HIDE DEF Over
  <2> QED
    BY <1>7, <1>8, <2>2
<1> HIDE DEF Wrong
<1>9. ASSUME NEW q \in Nat \ {0}, q = n \/ q + 1 = n, NEW p \in ToSet(get_roots(q)) PROVE p \in D
  <2>1. PICK lo \in Nat, d \in Pow : /\ p = Node(lo, d) /\ Block(lo, d) /\ Block(lo, 2 * d)
                                     /\ lo + d <= q /\ q < lo + 2 * d
    BY PeaksAreFull
  <2>2. d \in Nat \ {0} /\ 2 * d \in Pow
    BY PowHalves
  <2>a. lo + d <= n /\ n - 1 < lo + 2 * d
    BY <1>9, <2>1, <2>2
  <2>3. CASE d = S
    <3>1. lo = 0
      BY <1>1, <2>a, <2>3
    <3> QED
      BY <1>4, <2>1, <2>3, <3>1
  <2>4. CASE d # S
    <3>1. d < S
      BY <1>1, <2>a, <2>2, <2>4
    <3>2. 2 * d <= S
      BY <3>1, PowGap
    <3>3. lo <= e /\ e < lo + 2 * d
      BY <1>2, <2>a, <2>2
    <3>4. PICK a \in Nat : Block(a, 2 * d) /\ a <= e /\ e < a + 2 * d /\ Node(a, 2 * d) \in D
      BY <1>8, <2>2, <3>2
    <3>5. a = lo
      BY <2>1, <3>3, <3>4, OneBlock
    <3> QED
      BY <1>6, <2>1, <2>2, <3>2, <3>3, <3>4, <3>5
  <2> QED
    BY <2>3, <2>4
<1> QED
  BY <1>3, <1>9

\* A proof is a list with one value for each node that is needed.
LEMMA ProofIsList ==
  ASSUME size \in Nat, NEW visited, NEW n \in Nat \ {0}, NEW last, NEW boundary
  PROVE  Len(get_batch_proof_for_nodes(visited, n, last, boundary)) \in Nat
<1>1. PICK path : path = (IF boundary \in 1 .. n
                          THEN Above({boundary - 1}, n) \ {2 * (boundary - 1)} ELSE {})
  OBVIOUS
<1>2. PICK retained : retained = (IF last \in 1 .. n THEN ToSet(get_roots(last)) ELSE {})
  OBVIOUS
<1>3. PICK needed : needed = recursive_needed(merkle_root(n), n, Above(visited, n) \cup path, retained)
  OBVIOUS
<1>4. merkle_root(n) \in Nat
  BY MerkleRootOf, BlockOf
<1>5. needed \in Seq(Nat)
  BY <1>3, <1>4, NeededIsList
<1>6. PICK k \in Nat : k = Len(needed) /\ DOMAIN needed = 1 .. k
  BY <1>5
<1>7. PICK values : values = [i \in 1 .. k |-> resolve_node(needed[i], n, written)]
  OBVIOUS
<1>8. get_batch_proof_for_nodes(visited, n, last, boundary) = values
  BY <1>1, <1>2, <1>3, <1>6, <1>7 DEF get_batch_proof_for_nodes
<1>9. Len(values) = k
  <2>1. PICK W : W = {values[i] : i \in 1 .. k}
    OBVIOUS
  <2>2. values \in [1 .. k -> W]
    BY <1>7, <2>1
  <2> QED
    BY <2>2
<1> QED
  BY <1>8, <1>9

\* A fold with the right root captured every peak, and those of the log one entry before.
LEMMA FoldPeaks ==
  ASSUME NEW n \in Nat \ {0}, NEW entries, n - 1 \in entries, NEW elements, Len(elements) \in Nat,
         NEW retained, NEW fold, fold = calculate_root_capturing(entries, n, elements, retained),
         fold.val = TreeHash[<<0, n>>],
         NEW q \in Nat \ {0}, q = n \/ q + 1 = n, NEW p \in ToSet(get_roots(q))
  PROVE  p \in DOMAIN fold.captured /\ fold.captured[p] = ChunkValue[p]
<1>1. PICK m \in Nat : m = Len(elements)
  OBVIOUS
<1>2. PICK above : above = Above(entries, n)
  OBVIOUS
<1>3. PICK f : /\ fold = f[<<merkle_root(n), m>>]
               /\ \A x \in Nat, k \in 0 .. m : Outcome(x, k, n, above, m, f[<<x, k>>], f)
  BY <1>1, <1>2, FoldOutcomes
<1>4. PICK S \in Pow : /\ S \in Nat \ {0} /\ merkle_root(n) = Node(0, S) /\ Block(0, S)
                       /\ n <= S
  BY MerkleRootOf
<1>5. merkle_root(n) \in Nat /\ m \in 0 .. m
  <2>1. Node(0, S) \in Nat
    BY <1>4, BlockOf
  <2> QED
    BY <1>4, <2>1
<1>6. fold.val # Err
  BY TreeHashSplits
<1>7. Reached(merkle_root(n), n, above, fold.captured)
  BY <1>3, <1>5, <1>6, FoldReaches
<1>8. p \in DOMAIN fold.captured
  <2>1. \A z \in Nat \ {0} : z = n \/ z + 1 = n => ToSet(get_roots(z)) \subseteq DOMAIN fold.captured
    BY <1>2, <1>7, PeaksReached
  <2> QED
    BY <2>1
<1>9. CaptureRight(n, fold.captured)
  <2>1. Width(0, S, n) = n
    BY <1>4 DEF Width
  <2>2. f[<<Node(0, S), m>>].val = TreeHash[<<0, Width(0, S, n)>>]
    BY <1>3, <1>4, <2>1
  <2>3. 0 < n
    OBVIOUS
  <2> QED
    BY <1>3, <1>4, <1>5, <2>2, <2>3, FoldSound
<1>10. PICK lo \in Nat, d \in Pow : p = Node(lo, d) /\ Block(lo, d) /\ lo + d <= q
  BY PeaksAreFull
<1>11. Width(lo, d, n) = d
  <2>1. d \in Nat \ {0}
    BY PowHalves
  <2>2. lo + d <= n
    BY <1>10, <2>1
  <2> QED
    BY <2>2 DEF Width
<1>12. fold.captured[p] = TreeHash[<<lo, d>>]
  BY <1>8, <1>9, <1>10, <1>11 DEF CaptureRight
<1> QED
  BY <1>8, <1>10, <1>12, ChunkIsTreeHash

\* What the client keeps of a fold with the right root is every peak, with its hash.
LEMMA FoldRetains ==
  ASSUME NEW n \in Nat \ {0}, NEW entries, n - 1 \in entries, NEW elements, Len(elements) \in Nat,
         NEW retained, NEW fold, fold = calculate_root_capturing(entries, n, elements, retained),
         fold.val = TreeHash[<<0, n>>]
  PROVE  [p \in ToSet(get_roots(n)) \cap DOMAIN fold.captured |-> fold.captured[p]]
           = [p \in ToSet(get_roots(n)) |-> ChunkValue[p]]
<1>1. \A p \in ToSet(get_roots(n)) : p \in DOMAIN fold.captured /\ fold.captured[p] = ChunkValue[p]
  BY FoldPeaks
<1> QED
  BY <1>1

\* The inductive invariant behind RetainedIsLog.
Remembering == size \in Nat /\ client.size \in 0 .. size /\ RetainedIsLog

\* An accepted answer leaves the client with the log it was answered from.
LEMMA QueryRemembers ==
  ASSUME Remembering, NEW x \in 0 .. MaxSize - 1, Query(x)
  PROVE  Remembering'
<1>1. PICK n \in Nat \ {0} : n = size
  <2>1. x \in Nat /\ x < size /\ size \in Nat
    BY SyncAssumption DEF Query, Remembering
  <2> QED
    BY <2>1
<1>2. PICK fold : fold = Fold(x)
  OBVIOUS
<1>3. /\ Verifies(fold) /\ size' = size
      /\ client' = [size |-> size, root |-> fold.val,
                    subtrees |-> [p \in ToSet(get_roots(size)) \cap DOMAIN fold.captured |-> fold.captured[p]]]
  BY <1>2 DEF Query
<1>4. fold.val = TreeHash[<<0, n>>]
  <2>1. CASE client.size = size
    BY <1>1, <1>3, <2>1 DEF Verifies, Remembering, RetainedIsLog
  <2>2. CASE client.size # size
    <3>1. get_root(n, n) = TreeHash[<<0, n>>]
      <4>1. n \in {n, n + 1} /\ ~(n > n)
        OBVIOUS
      <4> QED
        BY <4>1, RootIsTreeHash
    <3> QED
      BY <1>1, <1>3, <2>2, <3>1 DEF Verifies, SignedRoot
  <2> QED
    BY <2>1, <2>2
<1>5. PICK entries : entries = Visited(x) /\ n - 1 \in entries
  <2>1. PICK walk \in Seq(0 .. n - 1) : walk = get_frontier(n)
    BY FrontierRises
  <2>2. Len(walk) > 0 /\ walk[Len(walk)] = n - 1
    BY <2>1, FrontierEnds
  <2>3. n - 1 \in ToSet(walk)
    <3>1. Len(walk) \in DOMAIN walk
      BY <2>1, <2>2
    <3> QED
      BY <2>2, <3>1 DEF ToSet
  <2> QED
    BY <1>1, <2>1, <2>3 DEF Visited
<1>6. PICK elements : /\ elements = get_batch_proof_for_nodes(entries, n, client.size, auditors.size)
                      /\ Len(elements) \in Nat
  BY <1>1, ProofIsList
<1>7. fold = calculate_root_capturing(entries, n, elements, client.subtrees)
  BY <1>1, <1>2, <1>5, <1>6 DEF Fold
<1>8. [p \in ToSet(get_roots(n)) \cap DOMAIN fold.captured |-> fold.captured[p]]
        = [p \in ToSet(get_roots(n)) |-> ChunkValue[p]]
  <2>1. n \in Nat \ {0} /\ n - 1 \in entries /\ Len(elements) \in Nat
    BY <1>5, <1>6
  <2>2. fold = calculate_root_capturing(entries, n, elements, client.subtrees)
    BY <1>7
  <2>3. fold.val = TreeHash[<<0, n>>]
    BY <1>4
  <2> QED
    BY <2>1, <2>2, <2>3, FoldRetains
<1>9. client' = [size |-> n, root |-> TreeHash[<<0, n>>],
                 subtrees |-> [p \in ToSet(get_roots(n)) |-> ChunkValue[p]]]
  BY <1>1, <1>3, <1>4, <1>8
<1>10. /\ client'.size = n /\ client'.root = TreeHash[<<0, n>>]
       /\ client'.subtrees = [p \in ToSet(get_roots(n)) |-> ChunkValue[p]]
  BY <1>9
<1>11. RetainedIsLog'
  BY <1>10 DEF RetainedIsLog
<1> QED
  BY <1>1, <1>3, <1>10, <1>11 DEF Remembering

\* Remembering is inductive: every step keeps it.
LEMMA RememberingNext == Remembering /\ [Next]_vars => Remembering'
<1> SUFFICES ASSUME Remembering, [Next]_vars PROVE Remembering'
  OBVIOUS
<1>1. ASSUME client' = client, size' \in Nat, size' >= size PROVE Remembering'
  BY <1>1 DEF Remembering, RetainedIsLog
<1>2. size \in Nat
  BY DEF Remembering
<1>3. CASE AddEntry
  BY <1>1, <1>2, <1>3 DEF AddEntry
<1>4. CASE ProcessAndSign
  BY <1>1, <1>2, <1>4 DEF ProcessAndSign
<1>5. CASE SetAuditorHead
  BY <1>1, <1>2, <1>5 DEF SetAuditorHead
<1>6. CASE Bootstrap
  BY <1>1, <1>2, <1>6 DEF Bootstrap
<1>7. CASE LogRestarts
  BY <1>1, <1>2, <1>7 DEF LogRestarts
<1>8. CASE \E x \in 0 .. MaxSize - 1 : Query(x)
  BY <1>8, QueryRemembers
<1>9. CASE UNCHANGED vars
  BY <1>1, <1>2, <1>9 DEF vars
<1>10. CASE BatchFails
  BY <1>1, <1>2, <1>10 DEF BatchFails
<1> QED
  BY <1>3, <1>4, <1>5, <1>6, <1>7, <1>8, <1>9, <1>10 DEF Next

\* RetainedIsLog: whatever operations and heads a client accepts, in whatever order the log
\* grows between them, its root is the tree hash of its size and its retained subtrees are
\* exactly the full subtrees of that size, with the log's own hashes.
THEOREM RetainsTheLog == Spec => []RetainedIsLog
<1>1. Init => Remembering
  BY DEF Init, Remembering, RetainedIsLog
<1> QED
  <2>1. Remembering => RetainedIsLog
    BY DEF Remembering
  <2> QED
    BY <1>1, RememberingNext, <2>1, PTL DEF Spec

\* A search visits the last entry, and the entry before when it is the parent of a leaf.
LEMMA VisitedHolds ==
  ASSUME size \in Nat \ {0}, NEW x \in Nat
  PROVE  /\ Visited(x) \subseteq Nat /\ size - 1 \in Visited(x)
         /\ size % 2 = 1 /\ size # 1 => size - 2 \in Visited(x)
<1>1. PICK n \in Nat \ {0} : n = size
  OBVIOUS
<1>2. PICK walk \in Seq(0 .. n - 1) : walk = get_frontier(n)
  BY FrontierRises
<1>3. PICK k \in Nat : k = Len(walk) /\ DOMAIN walk = 1 .. k
  OBVIOUS
<1>4. ToSet(walk) \subseteq Nat
  <2>1. \A i \in 1 .. k : walk[i] \in Nat
    BY <1>3
  <2> QED
    BY <1>3, <2>1 DEF ToSet
<1>5. n - 1 \in ToSet(walk)
  <2>1. k > 0 /\ walk[k] = n - 1
    BY <1>2, <1>3, FrontierEnds
  <2>2. k \in DOMAIN walk
    BY <1>3, <2>1
  <2> QED
    BY <2>1, <2>2 DEF ToSet
<1>6. n % 2 = 1 /\ n # 1 => n - 2 \in ToSet(walk)
  BY <1>2, FrontierPasses
<1>7. ToSet(ibst_direct_path(x, n)) \subseteq Nat
  BY DirectPathIsList
<1>8. Visited(x) = ToSet(walk) \cup ToSet(ibst_direct_path(x, n)) \cup {x}
  BY <1>1, <1>2 DEF Visited
<1> QED
  BY <1>1, <1>4, <1>5, <1>6, <1>7, <1>8

\* A parent is never a leaf.
LEMMA ParentIsInner ==
  ASSUME NEW x \in Nat
  PROVE  parent(x) % 2 = 1
<1>1. PICK y \in Nat : y = parent(x)
  BY ParentIsNode
<1>2. PICK s \in Nat : s = span[x] /\ (x % 2 # 0 => s % 2 = 0) /\ (x % 2 = 0 => s = 1)
  BY SpanBounds, SpanDefined
<1>3. y = x - s \/ y = x + s
  BY <1>1, <1>2 DEF parent
<1> QED
  BY <1>1, <1>2, <1>3

\* The only leaf on the way up is where it starts.
LEMMA LeafOnPath ==
  ASSUME NEW e \in Nat, NEW S, Block(0, S), NEW y \in PathUp(2 * e, Node(0, S)), is_leaf(y)
  PROVE  y = 2 * e
<1>1. PICK top \in Nat, leaf \in Nat : top = Node(0, S) /\ leaf = 2 * e
  BY BlockOf
<1>3. PICK c \in [Nat -> Nat] : /\ Upwards(c, leaf, top)
                                /\ PathUp(leaf, top) = {c[i] : i \in 0 .. level[top]}
  BY PathUpIs
<1>4. c[0] = leaf /\ \A i \in Nat : c[i + 1] = IF c[i] = top THEN top ELSE parent(c[i])
  BY <1>3 DEF Upwards
<1>5. PICK i \in 0 .. level[top] : y = c[i]
  BY <1>1, <1>3
<1>6. CASE i = 0
  BY <1>1, <1>4, <1>5, <1>6
<1>7. CASE i # 0
  <2>1. PICK j \in Nat : j + 1 = i
    <3>1. i - 1 \in Nat /\ (i - 1) + 1 = i
      BY <1>7
    <3> QED
      BY <3>1
  <2>2. top % 2 = 1
    <3>1. level[top] # 0
      BY <1>7, LevelDefined
    <3> QED
      BY <3>1, LevelDefined
  <2>3. y = top \/ y = parent(c[j])
    BY <1>4, <1>5, <2>1
  <2>4. y % 2 = 1
    BY <2>2, <2>3, ParentIsInner
  <2> QED
    BY <2>4 DEF is_leaf
<1> QED
  BY <1>6, <1>7

\* Two entries that share their parent share the way up from there.
LEMMA SiblingPath ==
  ASSUME NEW e \in Nat, e % 2 = 0, NEW S, Block(0, S), S # 1
  PROVE  PathUp(2 * e, Node(0, S)) \ {2 * e} \subseteq PathUp(2 * (e + 1), Node(0, S))
<1>1. PICK top \in Nat, a \in Nat, b \in Nat : top = Node(0, S) /\ a = 2 * e /\ b = 2 * (e + 1)
  BY BlockOf
<1>2. top % 2 = 1
  <2>a. S \in Pow
    BY BlockOf
  <2>1. S \in Pow /\ S \in Nat \ {0} /\ top = S - 1
    BY <1>1, <2>a DEF Node, Block
  <2>2. S % 2 = 0
    BY <2>1, PowHalves
  <2> QED
    BY <2>1, <2>2
<1>3. parent(a) = parent(b)
  <2>1. PICK y \in Nat : y = 2 * e + 1 /\ y % 2 # 0 /\ y \div 2 = e
    OBVIOUS
  <2>2. span[e] = 1 /\ span[y] = 2 * span[e]
    BY <2>1, SpanDefined
  <2>3. Block(e, 2 * 1)
    <3>1. Node(e, 2 * 1) = y
      BY <2>1 DEF Node
    <3> QED
      BY <2>2, <3>1 DEF Block
  <2>4. parent(Node(e, 1)) = parent(Node(e + 1, 1))
    BY <2>3, ParentOfHalves
  <2>5. Node(e, 1) = a /\ Node(e + 1, 1) = b
    BY <1>1 DEF Node
  <2> QED
    BY <2>4, <2>5
<1>4. PICK c \in [Nat -> Nat] : /\ Upwards(c, a, top)
                                /\ PathUp(a, top) = {c[i] : i \in 0 .. level[top]}
  BY PathUpIs
<1>5. PICK d \in [Nat -> Nat] : /\ Upwards(d, b, top)
                                /\ PathUp(b, top) = {d[i] : i \in 0 .. level[top]}
  BY PathUpIs
<1>6. /\ c[0] = a /\ \A i \in Nat : c[i + 1] = IF c[i] = top THEN top ELSE parent(c[i])
      /\ d[0] = b /\ \A i \in Nat : d[i + 1] = IF d[i] = top THEN top ELSE parent(d[i])
  BY <1>4, <1>5 DEF Upwards
<1> DEFINE Wrong == {i \in Nat : c[i + 1] # d[i + 1]}
<1>7. ASSUME Wrong # {} PROVE FALSE
  <2>1. PICK i \in Wrong : \A y \in Nat : y < i => y \notin Wrong
    <3>1. Wrong \in SUBSET Nat
      OBVIOUS
    <3> HIDE DEF Wrong
    <3> QED
      BY <1>7, <3>1, LeastElement
  <2>2. i \in Nat /\ c[i + 1] # d[i + 1]
    OBVIOUS
  <2>3. CASE i = 0
    <3>1. a # top /\ b # top
      BY <1>1, <1>2
    <3> QED
      BY <1>3, <1>6, <2>2, <2>3, <3>1
  <2>4. CASE i # 0
    <3>1. PICK j \in Nat : j + 1 = i /\ j < i
      <4>1. i - 1 \in Nat /\ (i - 1) + 1 = i /\ i - 1 < i
        BY <2>2, <2>4
      <4> QED
        BY <4>1
    <3>2. c[j + 1] = d[j + 1]
      BY <2>1, <3>1
    <3> QED
      BY <1>6, <2>2, <3>1, <3>2
  <2> QED
    BY <2>3, <2>4
<1>8. ASSUME NEW y \in PathUp(a, top), y # a PROVE y \in PathUp(b, top)
  <2>1. PICK i \in 0 .. level[top] : y = c[i]
    BY <1>4
  <2>2. i # 0
    BY <1>6, <1>8, <2>1
  <2>3. PICK j \in Nat : j + 1 = i
    <3>1. i - 1 \in Nat /\ (i - 1) + 1 = i
      BY <2>2
    <3> QED
      BY <3>1
  <2>4. c[j + 1] = d[j + 1]
    BY <1>7
  <2> QED
    BY <1>5, <2>1, <2>3, <2>4
<1> QED
  BY <1>1, <1>8

\* The way to the last entry an auditor signed adds nothing to the ways a search went anyway,
\* as long as the auditor is at most one entry behind.
LEMMA BoundaryIsAbove ==
  ASSUME NEW n \in Nat \ {0}, NEW visited, n - 1 \in visited,
         n % 2 = 1 /\ n # 1 => n - 2 \in visited,
         NEW boundary \in {0, n - 1, n}
  PROVE  Above(visited, n) \cup (IF boundary \in 1 .. n
                                 THEN Above({boundary - 1}, n) \ {2 * (boundary - 1)} ELSE {})
           = Above(visited, n)
<1>1. PICK S \in Pow : S \in Nat \ {0} /\ merkle_root(n) = Node(0, S) /\ Block(0, S) /\ n <= S
  BY MerkleRootOf
<1>2. \A e \in visited : PathUp(2 * e, Node(0, S)) \subseteq Above(visited, n)
  BY <1>1 DEF Above
<1>3. \A e : Above({e}, n) = PathUp(2 * e, Node(0, S))
  BY <1>1 DEF Above
<1>4. CASE boundary = n
  <2>1. Above({n - 1}, n) \subseteq Above(visited, n)
    BY <1>2, <1>3
  <2> QED
    BY <1>4, <2>1
<1>5. CASE boundary = n - 1 /\ boundary # 0
  <2>1. PICK e \in Nat : e = boundary - 1 /\ e = n - 2 /\ e + 1 = n - 1
    BY <1>5
  <2>2. PathUp(2 * e, Node(0, S)) \ {2 * e} \subseteq Above(visited, n)
    <3>1. CASE n % 2 = 1
      BY <1>2, <1>5, <2>1, <3>1
    <3>2. CASE n % 2 # 1
      <4>1. e % 2 = 0
        BY <2>1, <3>2
      <4>2. S # 1
        BY <1>1, <2>1
      <4>3. PathUp(2 * e, Node(0, S)) \ {2 * e} \subseteq PathUp(2 * (e + 1), Node(0, S))
        BY <1>1, <4>1, <4>2, SiblingPath
      <4>4. PathUp(2 * (e + 1), Node(0, S)) \subseteq Above(visited, n)
        BY <1>2, <2>1
      <4> QED
        BY <4>3, <4>4
    <3> QED
      BY <3>1, <3>2
  <2>3. Above({boundary - 1}, n) \ {2 * (boundary - 1)} \subseteq Above(visited, n)
    BY <1>3, <2>1, <2>2
  <2> QED
    BY <2>3
<1>6. CASE boundary = 0
  BY <1>6
<1> QED
  BY <1>4, <1>5, <1>6

\* The elements from the k-th from the right are the values of the nodes in ids.
Carries(elements, m, k, ids, n, stored) ==
  Len(ids) <= k /\ \A i \in 1 .. Len(ids) : elements[m - k + i] = resolve_node(ids[i], n, stored)

\* The fold has the hash of the node at (lo, s), and consumed what was needed for it.
Accepted(y, lo, s, k, ids, n) == y.val = TreeHash[<<lo, Width(lo, s, n)>>] /\ y.left = k - Len(ids)

\* What the log needs below a node whose value is a hash the client has, or is given.
LEMMA FoldAtEdge ==
  ASSUME NEW n \in Nat, NEW stored \in {n, n + 1}, NEW m \in Nat, NEW leaves, NEW above,
         NEW elements, Len(elements) = m,
         NEW retained, NEW g, NEW f, NEW lo, NEW s, Block(lo, s), lo < n, NEW x, x = Node(lo, s),
         x \notin above => lo + s <= n,
         \A e \in leaves : 2 * e \in above,
         is_leaf(x) /\ x \in above => x \div 2 \in leaves,
         x \in DOMAIN retained => lo + s <= n /\ retained[x] = ChunkValue[x],
         NEW ids, ids = Needed(x, n, above, DOMAIN retained, g),
         NEW k \in 0 .. m, Carries(elements, m, k, ids, n, stored),
         x \notin above \/ is_leaf(x),
         NEW y, y = recursive_hash(x, k, n, leaves, above, elements, retained, f)
  PROVE  Accepted(y, lo, s, k, ids, n)
<1>1. lo \in Nat /\ s \in Nat \ {0} /\ x \in Nat
  <2>1. Node(lo, s) \in Nat
    BY BlockOf DEF Block
  <2> QED
    BY <2>1 DEF Block
<1>2. CASE is_leaf(x) /\ x \in above
  <2>1. y = Captures(Leaf(x \div 2), k, [p \in {x} |-> Leaf(x \div 2)])
    BY <1>2 DEF recursive_hash
  <2>2. ids = <<>> /\ Len(ids) = 0
    BY <1>2 DEF Needed
  <2>3. s = 1
    BY <1>2, BlockHalves
  <2>4. x \div 2 = lo
    <3>1. x = 2 * lo
      BY <1>1, <2>3 DEF Node
    <3> QED
      BY <1>1, <3>1
  <2>5. Width(lo, s, n) = 1
    BY <1>1, <2>3 DEF Width
  <2>6. y.val = Leaf(lo) /\ y.left = k
    BY <2>1, <2>4 DEF Captures
  <2> QED
    BY <1>1, <2>2, <2>5, <2>6, TreeHashSplits DEF Accepted
<1>3. CASE x \notin above
  <2>1. ~(is_leaf(x) /\ x \div 2 \in leaves)
    <3>1. is_leaf(x) => 2 * (x \div 2) = x
      BY <1>1 DEF is_leaf
    <3> QED
      BY <1>3, <3>1
  <2>2. CASE x \in DOMAIN retained
    <3>1. y = Captures(retained[x], k, [p \in {x} |-> retained[x]])
      BY <1>3, <2>1, <2>2 DEF recursive_hash
    <3>2. ids = <<>> /\ Len(ids) = 0
      BY <1>3, <2>2 DEF Needed
    <3>3. y.val = ChunkValue[x] /\ y.left = k
      BY <2>2, <3>1 DEF Captures
    <3>4. ChunkValue[x] = TreeHash[<<lo, s>>]
      BY ChunkIsTreeHash
    <3>5. Width(lo, s, n) = s
      BY <2>2 DEF Width
    <3> QED
      BY <3>2, <3>3, <3>4, <3>5 DEF Accepted
  <2>3. CASE x \notin DOMAIN retained
    <3>1. ids = <<x>> /\ Len(ids) = 1 /\ ids[1] = x
      BY <1>3, <2>3 DEF Needed
    <3>2. k # 0 /\ elements[m - k + 1] = resolve_node(x, n, stored)
      BY <3>1 DEF Carries
    <3>3. y = Captures(elements[m - k + 1], k - 1, [p \in {x} |-> elements[m - k + 1]])
      BY <1>3, <2>1, <2>3, <3>2 DEF recursive_hash
    <3>4. y.val = resolve_node(x, n, stored) /\ y.left = k - 1
      BY <3>2, <3>3 DEF Captures
    <3>5. resolve_node(x, n, stored) = TreeHash[<<lo, Width(lo, s, n)>>]
      BY <1>3, ResolvedIsTreeHash
    <3> QED
      BY <3>1, <3>4, <3>5 DEF Accepted
  <2> QED
    BY <2>2, <2>3
<1> QED
  BY <1>2, <1>3

\* The client's entries are the leaves above, nodes under the root beside them are full, and so
\* is what it retained.
Matched(leaves, above, retained, n, S) ==
  /\ \A e \in leaves : 2 * e \in above
  /\ \A x \in above : is_leaf(x) => x \div 2 \in leaves
  /\ \A lo, s : Block(lo, s) /\ lo < n /\ s <= S /\ Node(lo, s) \notin above => lo + s <= n
  /\ \A lo, s : Block(lo, s) /\ Node(lo, s) \in DOMAIN retained =>
       lo + s <= n /\ retained[Node(lo, s)] = ChunkValue[Node(lo, s)]

\* The client consumes exactly the elements the log emitted, node by node.
LEMMA FoldAccepts ==
  ASSUME NEW n \in Nat, NEW stored \in {n, n + 1}, NEW m \in Nat, NEW leaves,
         NEW above, above = Above(leaves, n), NEW S \in Nat,
         NEW elements, Len(elements) = m, NEW retained,
         Matched(leaves, above, retained, n, S), NEW g, Needs(g, n, above, DOMAIN retained),
         NEW f, Folds(f, m, n, leaves, elements, retained)
  PROVE  \A lo, s : Block(lo, s) /\ lo < n /\ s <= S =>
           \A k \in 0 .. m : Carries(elements, m, k, g[Node(lo, s)], n, stored)
                               => Accepted(f[<<Node(lo, s), k>>], lo, s, k, g[Node(lo, s)], n)
<1> DEFINE Good(s) == \A lo : Block(lo, s) /\ lo < n /\ s <= S =>
             \A k \in 0 .. m : Carries(elements, m, k, g[Node(lo, s)], n, stored)
                                 => Accepted(f[<<Node(lo, s), k>>], lo, s, k, g[Node(lo, s)], n)
           Wrong == {s \in Nat : ~Good(s)}
<1>1. ASSUME Wrong # {} PROVE FALSE
  <2>1. PICK s \in Wrong : \A y \in Nat : y < s => y \notin Wrong
    <3>1. Wrong \in SUBSET Nat
      OBVIOUS
    <3> HIDE DEF Wrong
    <3> QED
      BY <1>1, <3>1, LeastElement
  <2>2. s \in Nat /\ ~Good(s) /\ \A y \in Nat : y < s => Good(y)
    BY <2>1
  <2>3. PICK lo : Block(lo, s) /\ lo < n /\ s <= S /\
          \E k \in 0 .. m : Carries(elements, m, k, g[Node(lo, s)], n, stored)
                            /\ ~Accepted(f[<<Node(lo, s), k>>], lo, s, k, g[Node(lo, s)], n)
    BY <2>2
  <2>4. PICK k \in 0 .. m : Carries(elements, m, k, g[Node(lo, s)], n, stored)
                            /\ ~Accepted(f[<<Node(lo, s), k>>], lo, s, k, g[Node(lo, s)], n)
    BY <2>3
  <2> HIDE DEF Wrong
  <2>5. lo \in Nat /\ s \in Nat \ {0} /\ Node(lo, s) \in Nat
    BY <2>3, BlockOf DEF Block
  <2>6. PICK x \in Nat : x = Node(lo, s)
    BY <2>5
  <2>7. PICK ids \in Seq(Nat) : ids = g[x] /\ ids = Needed(x, n, above, DOMAIN retained, g)
    <3>1. g[x] \in Seq(Nat) /\ g[x] = Needed(x, n, above, DOMAIN retained, g)
      BY DEF Needs
    <3> QED
      BY <3>1
  <2>8. PICK y : y = f[<<x, k>>] /\ y = recursive_hash(x, k, n, leaves, above, elements, retained, f)
    BY DEF Folds
  <2>9. Carries(elements, m, k, ids, n, stored) /\ ~Accepted(y, lo, s, k, ids, n)
    BY <2>4, <2>6, <2>7, <2>8
  <2>10. x \in above /\ ~is_leaf(x)
    <3>1. SUFFICES ASSUME x \notin above \/ is_leaf(x) PROVE Accepted(y, lo, s, k, ids, n)
      BY <2>9
    <3>2. x \in DOMAIN retained => lo + s <= n /\ retained[x] = ChunkValue[x]
      BY <2>3, <2>6 DEF Matched
    <3>3. is_leaf(x) /\ x \in above => x \div 2 \in leaves
      BY DEF Matched
    <3>4. \A e \in leaves : 2 * e \in above
      BY DEF Matched
    <3>5. x \notin above => lo + s <= n
      BY <2>3, <2>6 DEF Matched
    <3> HIDE DEF Good
    <3> QED
      BY <2>3, <2>6, <2>7, <2>8, <2>9, <3>1, <3>2, <3>3, <3>4, <3>5, FoldAtEdge
  <2>11. PICK h \in Pow : /\ h \in Nat \ {0} /\ s = 2 * h
                          /\ Block(lo, h) /\ left_child(x) = Node(lo, h) /\ Block(lo + h, h)
    BY <2>3, <2>6, <2>10, BlockHalves
  <2>12. Good(h) /\ h <= S
    <3>1. h < s /\ h <= S
      BY <2>3, <2>5, <2>11
    <3> QED
      BY <2>2, <2>11, <3>1
  <2>13. right_child(x, n) = IF lo + h < n THEN Node(lo + h, h) ELSE Node(lo, h)
    BY <2>3, <2>6, <2>11, RightChildOf
  <2>14. Node(lo, h) # Node(lo + h, h)
    BY <2>5, <2>11 DEF Node
  <2>15. PICK L \in Nat, R \in Nat : L = Node(lo, h) /\ R = Node(lo + h, h)
    <3>1. lo + h \in Nat
      BY <2>5, <2>11
    <3> QED
      BY <2>5, <2>11, <3>1, BlockOf
  <2>16. PICK a : a = f[<<L, k>>]
    OBVIOUS
  <2>17. PICK N \in Nat \ {0} : N = Width(lo, s, n) /\ N = IF lo + s <= n THEN s ELSE n - lo
    <3>1. (IF lo + s <= n THEN s ELSE n - lo) \in Nat \ {0}
      BY <2>3, <2>5
    <3> QED
      BY <3>1 DEF Width
  <2>18. CASE lo + h >= n
    <3>1. left_child(x) = L /\ right_child(x, n) = L
      BY <2>5, <2>11, <2>13, <2>15, <2>18
    <3>2. ids = g[L]
      BY <2>7, <2>10, <3>1 DEF Needed
    <3>3. y = Captures(a.val, a.left, Join(a.captured, [p \in {x} |-> a.val]))
      BY <2>8, <2>10, <2>16, <3>1 DEF recursive_hash
    <3>4. Accepted(a, lo, h, k, ids, n)
      BY <2>3, <2>9, <2>11, <2>12, <2>15, <2>16, <3>2 DEF Good
    <3>5. Width(lo, h, n) = Width(lo, s, n)
      <4>1. N = n - lo
        BY <2>5, <2>17, <2>11, <2>18
      <4>2. Width(lo, h, n) = n - lo
        BY <2>5, <2>11, <2>18 DEF Width
      <4> QED
        BY <2>17, <4>1, <4>2
    <3>6. y.val = a.val /\ y.left = a.left
      BY <3>3 DEF Captures
    <3> QED
      BY <2>9, <3>4, <3>5, <3>6 DEF Accepted
  <2>19. CASE lo + h < n
    <3>1. left_child(x) = L /\ right_child(x, n) = R /\ L # R
      BY <2>11, <2>13, <2>14, <2>15, <2>19
    <3>2. PICK p \in Seq(Nat), q \in Seq(Nat) : p = g[L] /\ q = g[R]
      <4>1. g[L] \in Seq(Nat) /\ g[R] \in Seq(Nat)
        BY DEF Needs
      <4> QED
        BY <4>1
    <3>3. ids = p \o q
      BY <2>7, <2>10, <3>1, <3>2 DEF Needed
    <3>4. PICK c \in Nat, d \in Nat :
            /\ c = Len(p) /\ d = Len(q) /\ Len(ids) = c + d
            /\ \A i \in 1 .. c : ids[i] = p[i]
            /\ \A i \in 1 .. d : ids[c + i] = q[i]
      <4>1. PICK c \in Nat, d \in Nat : c = Len(p) /\ d = Len(q)
        OBVIOUS
      <4>2. /\ Len(p \o q) = Len(p) + Len(q)
            /\ \A i \in 1 .. Len(p) + Len(q) : (p \o q)[i] = IF i <= Len(p) THEN p[i] ELSE q[i - Len(p)]
        BY ConcatProperties
      <4>3. \A i \in 1 .. c + d : ids[i] = IF i <= c THEN p[i] ELSE q[i - c]
        BY <3>3, <4>1, <4>2
      <4>4. \A i \in 1 .. c : i \in 1 .. c + d /\ i <= c
        OBVIOUS
      <4>5. \A i \in 1 .. d : c + i \in 1 .. c + d /\ ~(c + i <= c) /\ (c + i) - c = i
        OBVIOUS
      <4>6. (\A i \in 1 .. c : ids[i] = p[i]) /\ (\A i \in 1 .. d : ids[c + i] = q[i])
        BY <4>3, <4>4, <4>5
      <4> QED
        BY <3>3, <4>1, <4>2, <4>6
    <3>5. c + d <= k /\ \A i \in 1 .. c + d : elements[m - k + i] = resolve_node(ids[i], n, stored)
      BY <2>9, <3>4 DEF Carries
    <3>6. Carries(elements, m, k, p, n, stored)
      <4>1. \A i \in 1 .. c : i \in 1 .. c + d
        OBVIOUS
      <4>2. c <= k
        BY <3>5
      <4> QED
        BY <3>4, <3>5, <4>1, <4>2 DEF Carries
    <3>7. PICK j \in 0 .. m : j = k - c
      <4>1. k - c \in 0 .. m
        BY <3>5
      <4> QED
        BY <4>1
    <3>8. Carries(elements, m, j, q, n, stored)
      <4>1. ASSUME NEW i \in 1 .. d PROVE elements[m - j + i] = resolve_node(q[i], n, stored)
        <5>1. c + i \in 1 .. c + d /\ m - k + (c + i) = m - j + i
          BY <3>7
        <5>2. elements[m - k + (c + i)] = resolve_node(ids[c + i], n, stored)
          BY <3>5, <5>1
        <5>3. ids[c + i] = q[i]
          BY <3>4
        <5> QED
          BY <5>1, <5>2, <5>3
      <4>2. d <= j
        BY <3>5, <3>7
      <4> QED
        BY <3>4, <4>1, <4>2 DEF Carries
    <3>9. Accepted(a, lo, h, k, p, n)
      BY <2>3, <2>11, <2>12, <2>15, <2>16, <3>2, <3>6 DEF Good
    <3>10. PICK b : b = f[<<R, j>>]
      OBVIOUS
    <3>11. Accepted(b, lo + h, h, j, q, n)
      BY <2>11, <2>12, <2>15, <2>19, <3>2, <3>8, <3>10 DEF Good
    <3>12. h < N /\ N <= 2 * h /\ N - h \in Nat \ {0} /\ (N = 2 <=> h = 1)
      <4>1. h < N /\ N <= 2 * h
        BY <2>5, <2>17, <2>11, <2>19
      <4> QED
        BY <2>11, <4>1
    <3>13. TreeHash[<<lo, N>>] = log_parent_value(TreeHash[<<lo, h>>], h = 1,
                                                  TreeHash[<<lo + h, N - h>>], N = 2)
      <4>1. lo \in Nat /\ N \in Nat /\ N > 1 /\ h \in Pow /\ h < N /\ N <= 2 * h
        BY <2>5, <2>11, <2>17, <3>12
      <4> QED
        BY <4>1, TreeHashSplits
    <3>14. Width(lo, h, n) = h /\ Width(lo + h, h, n) = N - h
      <4>1. Width(lo, h, n) = h
        BY <2>5, <2>11, <2>19 DEF Width
      <4>2. (lo + h) + h = lo + s /\ (N = s => N - h = h)
        BY <2>5, <2>11
      <4>3. Width(lo + h, h, n) = IF lo + s <= n THEN h ELSE n - (lo + h)
        BY <4>2 DEF Width
      <4>4. N = n - lo => N - h = n - (lo + h)
        BY <2>5, <2>11
      <4> QED
        BY <2>17, <4>1, <4>2, <4>3, <4>4
    <3>15. a.val = TreeHash[<<lo, h>>] /\ a.left = j /\ b.val = TreeHash[<<lo + h, N - h>>] /\ b.left = j - d
      BY <3>4, <3>7, <3>9, <3>11, <3>14 DEF Accepted
    <3>16. a.val # Err /\ b.val # Err
      <4>1. lo + h \in Nat
        BY <2>5, <2>11
      <4> QED
        BY <2>5, <2>11, <3>12, <3>15, <4>1, TreeHashSplits
    <3>17. is_leaf(L) = (h = 1) /\ is_leaf(R) = (h = 1)
      <4>1. (is_leaf(L) <=> h = 1) /\ (is_leaf(R) <=> h = 1)
        BY <2>11, <2>15, BlockHalves
      <4> QED
        BY <4>1 DEF is_leaf
    <3>18. PICK v : v = log_parent_value(a.val, is_leaf(L), b.val, is_leaf(R))
      OBVIOUS
    <3>19. y = Captures(v, b.left, Join(Join(a.captured, b.captured), [p0 \in {x} |-> v]))
      BY <2>8, <2>10, <2>16, <3>1, <3>10, <3>15, <3>16, <3>18 DEF recursive_hash
    <3>20. v = TreeHash[<<lo, N>>]
      <4>1. (h = 1) = (N = 2)
        BY <3>12
      <4> QED
        BY <3>13, <3>15, <3>17, <3>18, <4>1
    <3>21. y.val = v /\ y.left = b.left
      BY <3>19 DEF Captures
    <3>22. j - d = k - Len(ids)
      BY <3>4, <3>7
    <3> QED
      BY <2>9, <2>17, <3>15, <3>20, <3>21, <3>22 DEF Accepted
  <2> QED
    BY <2>5, <2>11, <2>18, <2>19
<1> QED
  <2>1. \A lo, s : Block(lo, s) => s \in Nat
    BY DEF Block
  <2> QED
    BY <1>1, <2>1

\* The subtrees of a client that retained those of `last` entries.
RetainedAt(retained, last, n) ==
  /\ DOMAIN retained = (IF last \in 1 .. n THEN ToSet(get_roots(last)) ELSE {})
  /\ \A p \in DOMAIN retained : retained[p] = ChunkValue[p]

\* They are full in every larger log.
LEMMA RetainedIsFull ==
  ASSUME NEW n \in Nat \ {0}, NEW last, NEW retained, RetainedAt(retained, last, n)
  PROVE  \A lo, s : Block(lo, s) /\ Node(lo, s) \in DOMAIN retained =>
           lo + s <= n /\ retained[Node(lo, s)] = ChunkValue[Node(lo, s)]
<1> SUFFICES ASSUME NEW lo, NEW s, Block(lo, s), Node(lo, s) \in DOMAIN retained
             PROVE  lo + s <= n /\ retained[Node(lo, s)] = ChunkValue[Node(lo, s)]
  OBVIOUS
<1>1. PICK k \in Nat \ {0} : k = last /\ k <= n /\ Node(lo, s) \in ToSet(get_roots(k))
  BY DEF RetainedAt
<1>2. PICK a \in Nat, d \in Pow : Node(lo, s) = Node(a, d) /\ Block(a, d) /\ a + d <= k
  BY <1>1, PeaksAreFull
<1>3. lo = a /\ s = d
  BY <1>2, SameNode
<1>4. d \in Nat
  BY PowHalves
<1>5. lo + s <= n
  BY <1>1, <1>2, <1>3, <1>4
<1> QED
  BY <1>5 DEF RetainedAt

\* The leaves above the visited entries are those of the entries, and no others.
LEMMA AboveIsVisited ==
  ASSUME NEW n \in Nat \ {0}, NEW visited, visited \subseteq Nat
  PROVE  /\ \A e \in visited : 2 * e \in Above(visited, n)
         /\ \A x \in Above(visited, n) : is_leaf(x) => x \div 2 \in visited
<1>1. PICK S \in Pow : S \in Nat \ {0} /\ merkle_root(n) = Node(0, S) /\ Block(0, S) /\ n <= S
  BY MerkleRootOf
<1>2. PICK top \in Nat : top = Node(0, S)
  BY <1>1, BlockOf
<1>3. ASSUME NEW e \in visited PROVE 2 * e \in Above(visited, n)
  <2>1. PICK leaf \in Nat : leaf = 2 * e
    OBVIOUS
  <2>2. PICK c \in [Nat -> Nat] : /\ Upwards(c, leaf, top)
                                  /\ PathUp(leaf, top) = {c[i] : i \in 0 .. level[top]}
    BY PathUpIs
  <2>3. c[0] = leaf /\ 0 \in 0 .. level[top]
    BY <2>2, LevelDefined DEF Upwards
  <2>4. leaf \in PathUp(leaf, top)
    BY <2>2, <2>3
  <2> QED
    BY <1>1, <1>2, <2>1, <2>4 DEF Above
<1>4. ASSUME NEW x \in Above(visited, n), is_leaf(x) PROVE x \div 2 \in visited
  <2>1. PICK e \in visited : x \in PathUp(2 * e, Node(0, S))
    BY <1>1 DEF Above
  <2>2. e \in Nat
    OBVIOUS
  <2>3. x = 2 * e
    BY <1>1, <1>4, <2>1, <2>2, LeafOnPath
  <2>4. x \div 2 = e
    BY <2>2, <2>3
  <2> QED
    BY <2>4
<1> QED
  BY <1>3, <1>4

\* The fold of an honest answer consumes all of it and has the root of the log.
LEMMA HonestFold ==
  ASSUME NEW n \in Nat \ {0}, n = size, NEW visited, visited \subseteq Nat, n - 1 \in visited,
         n % 2 = 1 /\ n # 1 => n - 2 \in visited, NEW stored \in {n, n + 1}, stored = written,
         NEW boundary \in {0, n - 1, n}, NEW last, NEW retained, RetainedAt(retained, last, n),
         NEW elements, elements = get_batch_proof_for_nodes(visited, n, last, boundary),
         NEW fold, fold = calculate_root_capturing(visited, n, elements, retained)
  PROVE  fold.left = 0 /\ fold.val = TreeHash[<<0, n>>]
<1>1. PICK above : above = Above(visited, n)
  OBVIOUS
<1>2. PICK held : held = DOMAIN retained /\ held = (IF last \in 1 .. n THEN ToSet(get_roots(last)) ELSE {})
  BY DEF RetainedAt
<1>3. PICK S \in Pow : S \in Nat \ {0} /\ merkle_root(n) = Node(0, S) /\ Block(0, S) /\ n <= S
  BY MerkleRootOf
<1>4. PICK top \in Nat : top = Node(0, S) /\ top = merkle_root(n)
  BY <1>3, BlockOf
<1>5. PICK g : Needs(g, n, above, held)
  BY NeededDefined
<1>6. PICK ids \in Seq(Nat) : ids = g[top] /\ ids = recursive_needed(top, n, above, held)
  BY <1>5 DEF Needs
<1>7. elements = [i \in DOMAIN ids |-> resolve_node(ids[i], n, stored)]
  <2>1. PICK path : path = (IF boundary \in 1 .. n
                            THEN Above({boundary - 1}, n) \ {2 * (boundary - 1)} ELSE {})
    OBVIOUS
  <2>2. Above(visited, n) \cup path = above
    BY <1>1, <2>1, BoundaryIsAbove
  <2>3. ids = recursive_needed(merkle_root(n), n, Above(visited, n) \cup path, held)
    BY <1>4, <1>6, <2>2
  <2> QED
    BY <1>2, <2>1, <2>3 DEF get_batch_proof_for_nodes
<1>8. PICK m \in Nat : m = Len(ids) /\ DOMAIN ids = 1 .. m
  OBVIOUS
<1>9. Len(elements) = m /\ \A i \in 1 .. m : elements[i] = resolve_node(ids[i], n, stored)
  <2>1. PICK e : e = [i \in 1 .. m |-> resolve_node(ids[i], n, stored)]
    OBVIOUS
  <2>2. PICK W : W = {e[i] : i \in 1 .. m}
    OBVIOUS
  <2>3. e \in [1 .. m -> W]
    BY <2>1, <2>2
  <2>4. Len(e) = m
    BY <2>3
  <2> QED
    BY <1>7, <1>8, <2>1, <2>4
<1>10. PICK f : /\ fold = f[<<merkle_root(n), m>>]
                /\ Folds(f, m, n, visited, elements, retained)
  <2>1. \E f : /\ calculate_root_capturing(visited, n, elements, retained) = f[<<merkle_root(n), m>>]
               /\ Folds(f, m, n, visited, elements, retained)
               /\ \A x \in Nat, k \in 0 .. m : Outcome(x, k, n, Above(visited, n), m, f[<<x, k>>], f)
    BY <1>9, FoldDefined
  <2> QED
    BY <2>1
<1>11. \A lo, s : Block(lo, s) /\ lo < n /\ s <= S =>
         \A k \in 0 .. m : Carries(elements, m, k, g[Node(lo, s)], n, stored)
                             => Accepted(f[<<Node(lo, s), k>>], lo, s, k, g[Node(lo, s)], n)
  <2>1. Matched(visited, above, retained, n, S)
    <3>1. /\ \A e \in visited : 2 * e \in above
          /\ \A x \in above : is_leaf(x) => x \div 2 \in visited
      BY <1>1, AboveIsVisited
    <3>2. \A lo, s : Block(lo, s) /\ Node(lo, s) \in DOMAIN retained =>
            lo + s <= n /\ retained[Node(lo, s)] = ChunkValue[Node(lo, s)]
      BY RetainedIsFull
    <3>3. ASSUME NEW lo, NEW s, Block(lo, s), lo < n, s <= S, Node(lo, s) \notin above
          PROVE  lo + s <= n
      <4>1. lo \in Nat /\ s \in Nat
        BY <3>3 DEF Block
      <4>2. Node(lo, s) \notin PathUp(2 * (n - 1), merkle_root(n))
        BY <1>1, <3>3 DEF Above
      <4>3. n - 1 \in Nat /\ lo <= n - 1 /\ (n - 1 < lo + s \/ lo + s <= n)
        BY <3>3, <4>1
      <4> QED
        BY <1>3, <3>3, <4>2, <4>3, PathUpHolds
    <3> QED
      BY <3>1, <3>2, <3>3 DEF Matched
  <2>2. Needs(g, n, above, DOMAIN retained)
    BY <1>2, <1>5
  <2>3. Folds(f, m, n, visited, elements, retained) /\ Len(elements) = m
    BY <1>9, <1>10
  <2>4. S \in Nat /\ stored \in {n, n + 1} /\ above = Above(visited, n)
    BY <1>1, <1>3
  <2> QED
    BY <2>1, <2>2, <2>3, <2>4, FoldAccepts
<1>12. Carries(elements, m, m, g[Node(0, S)], n, stored)
  <2>1. \A i \in 1 .. m : m - m + i = i
    OBVIOUS
  <2> QED
    BY <1>4, <1>6, <1>8, <1>9, <2>1 DEF Carries
<1>13. Accepted(fold, 0, S, m, ids, n)
  <2>1. m \in 0 .. m /\ 0 < n
    OBVIOUS
  <2>2. S <= S
    BY <1>3
  <2> QED
    BY <1>3, <1>4, <1>6, <1>10, <1>11, <1>12, <2>1, <2>2
<1>14. Width(0, S, n) = n
  BY <1>3 DEF Width
<1> QED
  BY <1>8, <1>13, <1>14 DEF Accepted

\* The inductive invariant behind HonestQueryVerifies: the log and its auditor, what the client
\* retained, and nothing of an auditor where there is none.
Answering ==
  /\ Following /\ Remembering
  /\ client.size = 0 => client.subtrees = <<>>
  /\ ~Auditing => signed = NoHead /\ auditors = NoHead

\* Answering is inductive: every step keeps it.
LEMMA AnsweringNext == Answering /\ [Next]_vars => Answering'
<1> SUFFICES ASSUME Answering, [Next]_vars PROVE Answering'
  OBVIOUS
<1>1. Following' /\ Remembering'
  BY FollowingNext, RememberingNext DEF Answering
<1>2. /\ size \in Nat /\ (client.size = 0 => client.subtrees = <<>>)
      /\ (~Auditing => signed = NoHead /\ auditors = NoHead)
  BY DEF Answering, Remembering
<1>3. client'.size = 0 => client'.subtrees = <<>>
  <2>1. CASE client' = client
    BY <1>2, <2>1
  <2>2. CASE client' # client
    <3>1. PICK x \in 0 .. MaxSize - 1 : Query(x)
      BY <2>2 DEF Next, AddEntry, BatchFails, ProcessAndSign, SetAuditorHead, Bootstrap, LogRestarts, vars
    <3>2. x < size /\ x \in Nat
      BY <3>1, SyncAssumption DEF Query
    <3>3. client'.size = size
      BY <3>1 DEF Query
    <3> QED
      BY <1>2, <3>2, <3>3
  <2> QED
    BY <2>1, <2>2
<1>4. ASSUME ~Auditing PROVE signed' = NoHead /\ auditors' = NoHead
  BY <1>2, <1>4 DEF Next, AddEntry, BatchFails, ProcessAndSign, SetAuditorHead, Bootstrap, LogRestarts, Query, vars
<1> QED
  BY <1>1, <1>3, <1>4 DEF Answering

\* The root the client computes for the auditor from an honest fold is the one that was signed.
LEMMA AuditorRootIsSigned ==
  ASSUME NEW n \in Nat \ {0}, n = size, auditors.size \in {n - 1, n}, auditors.size \in 1 .. n,
         NEW entries, n - 1 \in entries, NEW elements, Len(elements) \in Nat,
         NEW retained, NEW fold, fold = calculate_root_capturing(entries, n, elements, retained),
         fold.val = TreeHash[<<0, n>>]
  PROVE  AuditorRoot(fold) = TreeHash[<<0, auditors.size>>]
<1>1. CASE auditors.size = n
  BY <1>1 DEF AuditorRoot
<1>2. CASE auditors.size # n
  <2>1. PICK q \in Nat \ {0} : q = auditors.size /\ q # n /\ q + 1 = n
    BY <1>2
  <2>2. PICK ids \in Seq(Nat) : ids = get_roots(q)
    BY RootsAreCut
  <2>3. \A p \in ToSet(ids) : p \in DOMAIN fold.captured /\ fold.captured[p] = ChunkValue[p]
    <3> TAKE p \in ToSet(ids)
    <3>1. p \in ToSet(get_roots(q))
      BY <2>2
    <3> QED
      BY <2>1, <3>1, FoldPeaks
  <2>4. PICK values : values = [i \in DOMAIN ids |-> resolve_node(ids[i], q, q)]
    OBVIOUS
  <2>5. \A i \in DOMAIN ids : fold.captured[ids[i]] = resolve_node(ids[i], q, q)
    <3> TAKE i \in DOMAIN ids
    <3>1. PICK p \in ToSet(ids) : p = ids[i]
      BY DEF ToSet
    <3>2. PICK lo \in Nat, d \in Pow : p = Node(lo, d) /\ Block(lo, d) /\ lo + d <= q
      BY <2>2, PeaksAreFull
    <3>3. d \in Nat \ {0}
      BY PowHalves
    <3>4. lo < q /\ Width(lo, d, q) = d
      BY <3>2, <3>3 DEF Width
    <3>5. resolve_node(p, q, q) = TreeHash[<<lo, d>>]
      BY <3>2, <3>4, ResolvedIsTreeHash
    <3>6. ChunkValue[p] = TreeHash[<<lo, d>>]
      BY <3>2, ChunkIsTreeHash
    <3> QED
      BY <2>3, <3>1, <3>5, <3>6
  <2>6. values = [i \in DOMAIN ids |-> fold.captured[ids[i]]]
    BY <2>4, <2>5
  <2>7. ToSet(ids) \subseteq DOMAIN fold.captured
    BY <2>3
  <2>8. AuditorRoot(fold) = calculate_root(from_peaks(q, values))
    BY <2>1, <2>2, <2>6, <2>7 DEF AuditorRoot
  <2>9. PICK acc : acc = from_peaks(q, values) /\ Canonical(acc) /\ acc.size = q
    BY <2>2, <2>4, BootstrapIsCanonical
  <2>10. calculate_root(acc) = TreeHash[<<0, acc.size>>]
    BY <2>9, IncrementalRoot
  <2> QED
    BY <2>1, <2>8, <2>9, <2>10
<1> QED
  BY <1>1, <1>2

\* The answer to a query that the auditor's head is fresh enough for verifies.
LEMMA AnswerVerifies ==
  ASSUME Answering, Auditing => MaxLag <= 1, NEW x \in 0 .. size - 1,
         Auditing => auditors # NoHead /\ size - auditors.size <= MaxLag
  PROVE  Verifies(Fold(x))
<1>1. PICK n \in Nat \ {0} : n = size /\ x \in Nat /\ x < n
  <2>1. size \in Nat
    BY DEF Answering, Remembering
  <2> QED
    BY <2>1
<1>2. Auditing => /\ auditors.size \in 1 .. n /\ auditors.root = TreeHash[<<0, auditors.size>>]
                  /\ auditors.size \in {n - 1, n}
  <2>1. SUFFICES ASSUME Auditing
                 PROVE  /\ auditors.size \in 1 .. n /\ auditors.root = TreeHash[<<0, auditors.size>>]
                        /\ auditors.size \in {n - 1, n}
    OBVIOUS
  <2>2. auditors.size \in 1 .. n /\ auditors.root = TreeHash[<<0, auditors.size>>]
    BY <1>1, <2>1 DEF Answering, Following, SignedRight
  <2>3. n - auditors.size <= 1
    BY <1>1, <2>1, <2>2, SyncAssumption
  <2> QED
    BY <2>2, <2>3
<1>3. PICK boundary \in {0, n - 1, n} : boundary = auditors.size
  <2>1. ~Auditing => auditors.size = 0
    BY DEF Answering, NoHead
  <2> QED
    BY <1>2, <2>1
<1>4. PICK entries \in SUBSET Nat :
        entries = Visited(x) /\ n - 1 \in entries /\ (n % 2 = 1 /\ n # 1 => n - 2 \in entries)
  BY <1>1, VisitedHolds
<1>5. PICK last, retained : last = client.size /\ last \in 0 .. n /\ retained = client.subtrees
  BY <1>1 DEF Answering, Remembering
<1>6. RetainedAt(retained, last, n)
  <2>1. CASE last = 0
    <3>1. retained = <<>>
      BY <1>5, <2>1 DEF Answering
    <3>2. DOMAIN retained = {} /\ ~(last \in 1 .. n)
      BY <2>1, <3>1
    <3> QED
      BY <3>2 DEF RetainedAt
  <2>2. CASE last # 0
    <3>1. last \in 1 .. n
      BY <1>1, <1>5, <2>2
    <3>2. retained = [p \in ToSet(get_roots(last)) |-> ChunkValue[p]]
      <4>1. client.size > 0
        BY <1>5, <3>1
      <4>2. client.subtrees = [p \in ToSet(get_roots(client.size)) |-> ChunkValue[p]]
        BY <4>1 DEF Answering, Remembering, RetainedIsLog
      <4> QED
        BY <1>5, <4>2
    <3> QED
      BY <3>1, <3>2 DEF RetainedAt
  <2> QED
    BY <2>1, <2>2
<1>7. PICK elements : elements = get_batch_proof_for_nodes(entries, n, last, boundary)
  OBVIOUS
<1>8. Len(elements) \in Nat
  BY <1>1, <1>7, ProofIsList
<1>9. PICK fold : fold = Fold(x) /\ fold = calculate_root_capturing(entries, n, elements, retained)
  BY <1>1, <1>3, <1>4, <1>5, <1>7 DEF Fold
<1>14. PICK stored \in {n, n + 1} : stored = written /\ size = n
  BY <1>1 DEF Answering, Following
<1>10. fold.left = 0 /\ fold.val = TreeHash[<<0, n>>]
  BY <1>1, <1>4, <1>6, <1>7, <1>9, <1>14, HonestFold
<1>11. fold.val # Err
  BY <1>10, TreeHashSplits
<1>12. CASE client.size = size
  <2>1. fold.val = client.root
    BY <1>1, <1>10, <1>12 DEF Answering, Remembering, RetainedIsLog
  <2> QED
    BY <1>9, <1>10, <1>11, <1>12, <2>1 DEF Verifies
<1>13. CASE client.size # size
  <2>1. fold.val = SignedRoot
    <3>1. n \in {n, n + 1} /\ ~(n > n)
      OBVIOUS
    <3>2. get_root(n, n) = TreeHash[<<0, n>>]
      BY <3>1, RootIsTreeHash
    <3> QED
      BY <1>1, <1>10, <3>2 DEF SignedRoot
  <2>2. ASSUME Auditing PROVE verify_auditor_tree_head(fold)
    <3>1. AuditorRoot(fold) = TreeHash[<<0, auditors.size>>]
      BY <1>1, <1>2, <1>4, <1>8, <1>9, <1>10, <2>2, AuditorRootIsSigned
    <3> QED
      BY <1>2, <2>2, <3>1 DEF verify_auditor_tree_head
  <2> QED
    BY <1>9, <1>10, <1>11, <1>13, <2>1, <2>2 DEF Verifies
<1> QED
  BY <1>12, <1>13

\* HonestQueryVerifies: whatever the log appended, the auditor signed and the client accepted
\* before, the client accepts the log's own answer to any search: it consumes exactly the
\* elements the log emitted, and derives the root the auditor signed one entry earlier.  With
\* auditors the bound is exact: two entries behind, an honest answer can be refused.
THEOREM HonestAnswersVerify ==
  ASSUME Auditing => MaxLag <= 1
  PROVE  Spec => []HonestQueryVerifies
<1>1. Init => Answering
  <2>1. ASSUME Init PROVE Answering
    <3>1. Following
      BY <2>1, FollowingInit
    <3>2. size = 0 /\ signed = NoHead /\ auditors = NoHead
          /\ client.size = 0 /\ client.subtrees = <<>>
      BY <2>1 DEF Init
    <3> QED
      BY <3>1, <3>2 DEF Answering, Remembering, RetainedIsLog
  <2> QED
    BY <2>1
<1>2. Answering => HonestQueryVerifies
  BY AnswerVerifies DEF HonestQueryVerifies
<1> QED
  BY <1>1, <1>2, AnsweringNext, PTL DEF Spec
=============================================================================
