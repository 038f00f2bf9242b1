-------------------------- MODULE PrefixTreeProofs --------------------------
(***************************************************************************)
(* Proofs about PrefixTree, for keys of any height, batches of any size and *)
(* any number of failed batches and restarts.                              *)
(*                                                                         *)
(* The entries in use stand for trees: there is a map C[p] for each position *)
(* p such that the entry at p holds a key of C[p], its copath the hashes of *)
(* the siblings on the way to that key in the Merkle tree of C[p], and each *)
(* pointer an earlier entry whose own tree does not differ below there      *)
(* (Entry).  The invariant (Inv) is that such maps exist, that store and    *)
(* cache agree on the entries in use, and that each log entry's content is  *)
(* the map of the entry it points to.                                      *)
(*                                                                         *)
(* A walk (step, WalkEnds) collects siblings of the tree it started in,     *)
(* because every entry it passes does not differ from that tree below the   *)
(* bits it shares with the target (Way); it goes down a level at least at   *)
(* each step, and so ends.  An entry inserted after the walk stands for a   *)
(* tree with one key more (InsertedTree), and a batch for one tree for each *)
(* of its keys (BatchTrees).  Merkle, Upward, Walk and batch_insert are     *)
(* recursive functions: their equations (MerkleDefined, UpwardDefined,      *)
(* WalkDefined, BatchDefined, ResolveDefined, AbsorbedDefined) and what is  *)
(* shown by induction over levels, steps or keys come from the least number *)
(* that would be an exception.                                              *)
(*                                                                         *)
(* The auditor's partial tree holds nodes of the tree before the batch that *)
(* no key of the batch lies below (Known), and for every key of the batch   *)
(* each sibling on its way is one of them or lies above another key of the  *)
(* batch (Covers).  That is enough to compute the old tree (OldClosed) and, *)
(* with the leaves of the batch, the new one (NewClosed), node by node from *)
(* the leaves (ResolveIsMerkle).  The invariant adds that each audit record *)
(* holds the keys of its batch and lookups that were right in the tree they *)
(* were made in (Audited).                                                 *)
(***************************************************************************)
EXTENDS PrefixTree, SequenceTheorems, TLAPS

Math == INSTANCE LogMathProofs

-----------------------------------------------------------------------------
\* Keys that agree on their first bits.
Agree(k, j, n) == \A x \in 1 .. n : k[x] = j[x]

\* The first bits of two keys, cleared of the rest, are equal when they agree.
LEMMA MaskedAgree ==
  ASSUME NEW k \in Keys, NEW j \in Keys, NEW n \in 0 .. Height
  PROVE  masked(k, n) = masked(j, n) <=> Agree(k, j, n)
<1>1. Height \in Nat
  BY HeightAssumption
<1>2. ASSUME masked(k, n) = masked(j, n), NEW x \in 1 .. n PROVE k[x] = j[x]
  <2>1. x \in 1 .. Height /\ masked(k, n)[x] = k[x] /\ masked(j, n)[x] = j[x]
    BY <1>1 DEF masked
  <2> QED
    BY <1>2, <2>1
<1>3. ASSUME Agree(k, j, n) PROVE masked(k, n) = masked(j, n)
  <2>1. \A x \in 1 .. Height : x <= n => k[x] = j[x]
    BY <1>1, <1>3 DEF Agree
  <2> QED
    BY <2>1 DEF masked
<1> QED
  BY <1>2, <1>3 DEF Agree

\* Keys that agree on all bits are one.
LEMMA AgreeAll ==
  ASSUME NEW k \in Keys, NEW j \in Keys, Agree(k, j, Height)
  PROVE  k = j
<1>1. k = [x \in 1 .. Height |-> k[x]] /\ j = [x \in 1 .. Height |-> j[x]]
  BY DEF Keys
<1>2. \A x \in 1 .. Height : k[x] = j[x]
  BY DEF Agree
<1>3. [x \in 1 .. Height |-> k[x]] = [x \in 1 .. Height |-> j[x]]
  BY <1>2
<1> QED
  BY <1>1, <1>3

\* turned changes one bit of a key.
LEMMA TurnedKey ==
  ASSUME NEW k \in Keys, NEW n \in 0 .. Height - 1
  PROVE  /\ turned(k, n) \in Keys /\ turned(k, n)[n + 1] = 1 - k[n + 1]
         /\ \A x \in 1 .. Height : x # n + 1 => turned(k, n)[x] = k[x]
<1>1. Height \in Nat /\ n + 1 \in 1 .. Height
  BY HeightAssumption
<1>2. k[n + 1] \in {0, 1} /\ 1 - k[n + 1] \in {0, 1}
  BY <1>1 DEF Keys
<1> QED
  BY <1>1, <1>2 DEF Keys, turned

\* Below a node, keys that part at its level are on different sides.
LEMMA Sides ==
  ASSUME NEW k \in Keys, NEW j \in Keys, NEW n \in 0 .. Height - 1, Agree(k, j, n)
  PROVE  /\ k[n + 1] = j[n + 1] => /\ Agree(k, j, n + 1) /\ Agree(turned(k, n), turned(j, n), n + 1)
                                   /\ ~Agree(j, turned(k, n), n + 1)
         /\ k[n + 1] # j[n + 1] => /\ Agree(turned(k, n), j, n + 1) /\ Agree(k, turned(j, n), n + 1)
                                   /\ ~Agree(k, j, n + 1) /\ j[n + 1] = 1 - k[n + 1]
<1>1. Height \in Nat /\ n \in Nat /\ n + 1 \in 1 .. Height /\ n + 1 \in 1 .. n + 1
  BY HeightAssumption
<1>2. k[n + 1] \in {0, 1} /\ j[n + 1] \in {0, 1}
  BY <1>1 DEF Keys
<1>3. \A x \in 1 .. n + 1 : x \in 1 .. n \/ x = n + 1
  BY <1>1
<1>4. \A x \in 1 .. n : /\ x \in 1 .. n + 1
                       /\ k[x] = j[x] /\ turned(k, n)[x] = k[x] /\ turned(j, n)[x] = j[x]
  BY <1>1, TurnedKey DEF Agree
<1>5. turned(k, n)[n + 1] = 1 - k[n + 1] /\ turned(j, n)[n + 1] = 1 - j[n + 1]
  BY TurnedKey
<1>6. ASSUME k[n + 1] = j[n + 1]
      PROVE  /\ Agree(k, j, n + 1) /\ Agree(turned(k, n), turned(j, n), n + 1)
             /\ ~Agree(j, turned(k, n), n + 1)
  <2>1. j[n + 1] # turned(k, n)[n + 1]
    BY <1>2, <1>5, <1>6
  <2> QED
    BY <1>1, <1>3, <1>4, <1>5, <1>6, <2>1 DEF Agree
<1>7. ASSUME k[n + 1] # j[n + 1]
      PROVE  /\ Agree(turned(k, n), j, n + 1) /\ Agree(k, turned(j, n), n + 1)
             /\ ~Agree(k, j, n + 1) /\ j[n + 1] = 1 - k[n + 1]
  <2>1. j[n + 1] = 1 - k[n + 1] /\ k[n + 1] = 1 - j[n + 1]
    BY <1>2, <1>7
  <2> QED
    BY <1>1, <1>3, <1>4, <1>5, <1>7, <2>1 DEF Agree
<1> QED
  BY <1>6, <1>7

\* Keys below a node agree with what is turned there as they agree with each other.
LEMMA TurnedAgree ==
  ASSUME NEW k \in Keys, NEW j \in Keys, NEW n \in 0 .. Height, Agree(k, j, n), NEW x \in 0 .. n - 1
  PROVE  Agree(turned(k, x), turned(j, x), x + 1)
<1>1. Height \in Nat /\ x \in 0 .. Height - 1 /\ x + 1 \in 1 .. n
  BY HeightAssumption
<1>2. Agree(k, j, x) /\ k[x + 1] = j[x + 1]
  BY <1>1 DEF Agree
<1> QED
  BY <1>1, <1>2, Sides

\* The first bits include the bits before.
LEMMA AgreeLess ==
  ASSUME NEW k, NEW j, NEW n \in Nat, NEW m \in 0 .. n, Agree(k, j, n)
  PROVE  Agree(k, j, m)
BY DEF Agree

-----------------------------------------------------------------------------
\* One step of the definition of Merkle, with f for the level below.
Node(map, l, k, f) ==
  IF \A j \in DOMAIN map : masked(j, l) # masked(k, l) THEN Zero
  ELSE IF l = Height THEN leaf_hash(k, map[k])
  ELSE Combine(get_bit(k, l), f[<<l + 1, k>>], f[<<l + 1, turned(k, l)>>])

\* A node is computed from the two nodes below it, if it is computed from any.
LEMMA NodeBelow ==
  ASSUME NEW map, NEW l \in 0 .. Height, NEW k \in Keys, NEW f, NEW g,
         l < Height => \A j \in Keys : f[<<l + 1, j>>] = g[<<l + 1, j>>]
  PROVE  Node(map, l, k, f) = Node(map, l, k, g)
<1>1. CASE l = Height
  BY <1>1 DEF Node
<1>2. CASE l # Height
  <2>1. l < Height /\ l \in 0 .. Height - 1
    BY <1>2, HeightAssumption
  <2>2. f[<<l + 1, k>>] = g[<<l + 1, k>>] /\ f[<<l + 1, turned(k, l)>>] = g[<<l + 1, turned(k, l)>>]
    BY <2>1, TurnedKey
  <2> QED
    BY <2>2, Zenon DEF Node
<1> QED
  BY <1>1, <1>2

\* Merkle is defined level by level from the leaves.
LEMMA MerkleDefined ==
  ASSUME NEW map
  PROVE  \A l \in 0 .. Height, k \in Keys : Merkle(map)[<<l, k>>] = Node(map, l, k, Merkle(map))
<1> DEFINE Nodes == (0 .. Height) \X Keys
           From(f, i) == \A l \in 0 .. Height, k \in Keys :
                           l + i >= Height => f[<<l, k>>] = Node(map, l, k, f)
           Missing == {i \in Nat : ~\E f : From(f, i)}
<1>h. Height \in Nat
  BY HeightAssumption
<1>1. ASSUME NEW i \in Nat, NEW f, i = 0 \/ From(f, i - 1) PROVE \E g : From(g, i)
  <2>1. PICK g : g = [n \in Nodes |-> IF n[1] + i = Height THEN Node(map, n[1], n[2], f) ELSE f[n]]
    OBVIOUS
  <2>2. ASSUME NEW l \in 0 .. Height, NEW k \in Keys
        PROVE  g[<<l, k>>] = IF l + i = Height THEN Node(map, l, k, f) ELSE f[<<l, k>>]
    <3>1. <<l, k>> \in Nodes /\ <<l, k>>[1] = l /\ <<l, k>>[2] = k
      OBVIOUS
    <3> HIDE DEF Nodes
    <3> QED
      BY <2>1, <3>1
  <2>3. ASSUME NEW l \in 0 .. Height, NEW k \in Keys, l + i >= Height
        PROVE  g[<<l, k>>] = Node(map, l, k, g)
    <3>1. l < Height => \A j \in Keys : f[<<l + 1, j>>] = g[<<l + 1, j>>]
      BY <1>h, <2>2, <2>3
    <3>2. Node(map, l, k, f) = Node(map, l, k, g)
      BY <3>1, NodeBelow
    <3>3. CASE l + i = Height
      BY <2>2, <3>2, <3>3
    <3>4. CASE l + i # Height
      <4>1. i # 0 /\ l + (i - 1) >= Height
        BY <1>h, <2>3, <3>4
      <4>2. f[<<l, k>>] = Node(map, l, k, f)
        BY <1>1, <4>1
      <4> QED
        BY <2>2, <3>2, <3>4, <4>2
    <3> QED
      BY <3>3, <3>4
  <2> QED
    BY <2>3
<1> HIDE DEF From
<1>2. ASSUME Missing # {} PROVE FALSE
  <2>1. PICK i \in Missing : \A n \in Nat : n < i => n \notin Missing
    <3>1. Missing \in SUBSET Nat
      OBVIOUS
    <3> HIDE DEF Missing
    <3> QED
      BY <1>2, <3>1, Math!LeastElement
  <2>2. i \in Nat /\ ~\E f : From(f, i)
    OBVIOUS
  <2>3. i # 0 => i - 1 \in Nat /\ i - 1 < i
    BY <2>2
  <2>4. i # 0 => \E f : From(f, i - 1)
    BY <2>1, <2>3
  <2>5. \E f : i = 0 \/ From(f, i - 1)
    BY <2>4
  <2> QED
    BY <1>1, <2>2, <2>5
<1>3. PICK f : From(f, Height)
  BY <1>2, <1>h
<1>4. PICK h : h = [n \in Nodes |-> f[n]]
  OBVIOUS
<1>5. ASSUME NEW l \in 0 .. Height, NEW k \in Keys PROVE f[<<l, k>>] = Node(map, l, k, f)
  BY <1>3, <1>h DEF From
<1>6. \A l \in 0 .. Height, k \in Keys : h[<<l, k>>] = f[<<l, k>>]
  BY <1>4
<1>7. ASSUME NEW l \in 0 .. Height, NEW k \in Keys PROVE h[<<l, k>>] = Node(map, l, k, h)
  <2>1. l < Height => \A j \in Keys : f[<<l + 1, j>>] = h[<<l + 1, j>>]
    BY <1>6, <1>h
  <2>2. Node(map, l, k, f) = Node(map, l, k, h)
    BY <2>1, NodeBelow
  <2> QED
    BY <1>5, <1>6, <2>2
<1>8. h = [n \in Nodes |-> Node(map, n[1], n[2], h)]
  <2>1. \A n \in Nodes : h[n] = Node(map, n[1], n[2], h)
    <3> TAKE n \in Nodes
    <3>1. n[1] \in 0 .. Height /\ n[2] \in Keys /\ n = <<n[1], n[2]>>
      OBVIOUS
    <3> QED
      BY <1>7, <3>1
  <2>2. h = [n \in Nodes |-> h[n]]
    BY <1>4
  <2> HIDE DEF Nodes
  <2> QED
    BY <2>1, <2>2
<1> DEFINE d == CHOOSE g : g = [n \in Nodes |-> Node(map, n[1], n[2], g)]
<1>9. d = [n \in Nodes |-> Node(map, n[1], n[2], d)]
  BY <1>8, Zenon
<1>10. Merkle(map) = d
  BY Zenon DEF Merkle, Node
<1> HIDE DEF d
<1>11. ASSUME NEW l \in 0 .. Height, NEW k \in Keys PROVE d[<<l, k>>] = Node(map, l, k, d)
  <2>1. <<l, k>> \in Nodes /\ <<l, k>>[1] = l /\ <<l, k>>[2] = k
    OBVIOUS
  <2> HIDE DEF Nodes
  <2> QED
    BY <1>9, <2>1
<1> QED
  BY <1>10, <1>11

-----------------------------------------------------------------------------
\* One step of the way up, with f for the level below.
Up(key, siblings, bottom, l, f) ==
  IF l = bottom.level THEN bottom.hash
  ELSE Combine(get_bit(key, l), f[l + 1], IF l < Len(siblings) THEN siblings[l + 1] ELSE Zero)

\* The way up is defined level by level from the bottom.
LEMMA UpwardDefined ==
  ASSUME NEW key, NEW siblings, NEW bottom, bottom.level \in Nat
  PROVE  \A l \in 0 .. bottom.level :
           Upward(key, siblings, bottom)[l] = Up(key, siblings, bottom, l, Upward(key, siblings, bottom))
<1> DEFINE L == bottom.level
           Step(l, f) == Up(key, siblings, bottom, l, f)
           From(f, i) == \A l \in 0 .. L : l + i >= L => f[l] = Step(l, f)
           Missing == {i \in Nat : ~\E f : From(f, i)}
<1>s. ASSUME NEW f, NEW g, NEW l \in 0 .. L, l < L => f[l + 1] = g[l + 1]
      PROVE  Step(l, f) = Step(l, g)
  <2>1. CASE l = L
    BY <2>1 DEF Up
  <2>2. CASE l # L
    <3>1. f[l + 1] = g[l + 1]
      BY <1>s, <2>2
    <3> QED
      BY <3>1, Zenon DEF Up
  <2> QED
    BY <2>1, <2>2
<1> HIDE DEF Step
<1>1. ASSUME NEW i \in Nat, NEW f, i = 0 \/ From(f, i - 1) PROVE \E g : From(g, i)
  <2>1. PICK g : g = [l \in 0 .. L |-> IF l + i = L THEN Step(l, f) ELSE f[l]]
    OBVIOUS
  <2>2. \A l \in 0 .. L : g[l] = IF l + i = L THEN Step(l, f) ELSE f[l]
    BY <2>1
  <2>3. ASSUME NEW l \in 0 .. L, l + i >= L PROVE g[l] = Step(l, g)
    <3>1. l < L => f[l + 1] = g[l + 1]
      BY <2>2, <2>3
    <3>2. Step(l, f) = Step(l, g)
      BY <1>s, <3>1
    <3>3. CASE l + i = L
      BY <2>2, <3>2, <3>3
    <3>4. CASE l + i # L
      <4>1. i # 0 /\ l + (i - 1) >= L
        BY <2>3, <3>4
      <4>2. f[l] = Step(l, f)
        BY <1>1, <4>1
      <4> QED
        BY <2>2, <3>2, <3>4, <4>2
    <3> QED
      BY <3>3, <3>4
  <2> QED
    BY <2>3
<1> HIDE DEF From
<1>2. ASSUME Missing # {} PROVE FALSE
  <2>1. PICK i \in Missing : \A n \in Nat : n < i => n \notin Missing
    <3>1. Missing \in SUBSET Nat
      OBVIOUS
    <3> HIDE DEF Missing
    <3> QED
      BY <1>2, <3>1, Math!LeastElement
  <2>2. i \in Nat /\ ~\E f : From(f, i)
    OBVIOUS
  <2>3. i # 0 => i - 1 \in Nat /\ i - 1 < i
    BY <2>2
  <2>4. i # 0 => \E f : From(f, i - 1)
    BY <2>1, <2>3
  <2>5. \E f : i = 0 \/ From(f, i - 1)
    BY <2>4
  <2> QED
    BY <1>1, <2>2, <2>5
<1>3. PICK f : From(f, L)
  BY <1>2
<1>4. PICK h : h = [l \in 0 .. L |-> f[l]]
  OBVIOUS
<1>5. ASSUME NEW l \in 0 .. L PROVE h[l] = Step(l, h)
  <2>1. f[l] = Step(l, f)
    BY <1>3 DEF From
  <2>2. l < L => f[l + 1] = h[l + 1]
    BY <1>4
  <2>3. Step(l, f) = Step(l, h)
    BY <1>s, <2>2
  <2> QED
    BY <1>4, <2>1, <2>3
<1>6. h = [l \in 0 .. L |-> Step(l, h)]
  BY <1>4, <1>5
<1> DEFINE d == CHOOSE g : g = [l \in 0 .. L |-> Step(l, g)]
<1>7. d = [l \in 0 .. L |-> Step(l, d)]
  BY <1>6, Zenon
<1>8. Upward(key, siblings, bottom) = d
  BY Zenon DEF Upward, Up, Step
<1> HIDE DEF d
<1>9. \A l \in 0 .. L : d[l] = Step(l, d)
  BY <1>7, Zenon
<1> QED
  BY <1>8, <1>9, Zenon DEF Step

-----------------------------------------------------------------------------
\* A map has no key below the node of k at level n; two maps agree below it.
Empty(D, n, k) == \A j \in DOMAIN D : ~Agree(j, k, n)
Same(C, D, n, k) ==
  \A j \in Keys : Agree(j, k, n) => (/\ j \in DOMAIN C <=> j \in DOMAIN D
                                     /\ j \in DOMAIN C => C[j] = D[j])

\* Merkle, in these words.
LEMMA MerkleNode ==
  ASSUME NEW D, DOMAIN D \subseteq Keys, NEW n \in 0 .. Height, NEW k \in Keys
  PROVE  Merkle(D)[<<n, k>>] =
           IF Empty(D, n, k) THEN Zero
           ELSE IF n = Height THEN leaf_hash(k, D[k])
           ELSE Combine(k[n + 1], Merkle(D)[<<n + 1, k>>], Merkle(D)[<<n + 1, turned(k, n)>>])
<1>1. Merkle(D)[<<n, k>>] = Node(D, n, k, Merkle(D))
  BY MerkleDefined
<1>2. (\A j \in DOMAIN D : masked(j, n) # masked(k, n)) <=> Empty(D, n, k)
  BY MaskedAgree DEF Empty
<1> QED
  BY <1>1, <1>2, Zenon DEF Node, get_bit

\* The hash of a node does not depend on the key below it that names it, nor on what a map
\* holds elsewhere.
LEMMA MerkleSame ==
  ASSUME NEW C, NEW D, DOMAIN C \subseteq Keys, DOMAIN D \subseteq Keys
  PROVE  \A n \in 0 .. Height, k, j \in Keys :
           Agree(k, j, n) /\ Same(C, D, n, k) => Merkle(C)[<<n, k>>] = Merkle(D)[<<n, j>>]
<1> DEFINE P(n) == \A k, j \in Keys :
                     Agree(k, j, n) /\ Same(C, D, n, k) => Merkle(C)[<<n, k>>] = Merkle(D)[<<n, j>>]
           Wrong == {i \in Nat : i <= Height /\ ~P(Height - i)}
<1>h. Height \in Nat
  BY HeightAssumption
<1>1. ASSUME NEW n \in 0 .. Height, n # Height => P(n + 1) PROVE P(n)
  <2> SUFFICES ASSUME NEW k \in Keys, NEW j \in Keys, Agree(k, j, n), Same(C, D, n, k)
              PROVE  Merkle(C)[<<n, k>>] = Merkle(D)[<<n, j>>]
    OBVIOUS
  <2>1. \A i \in Keys : Agree(i, k, n) <=> Agree(i, j, n)
    BY DEF Agree
  <2>2. Empty(C, n, k) <=> Empty(D, n, j)
    BY <2>1 DEF Empty, Same
  <2>3. CASE Empty(C, n, k)
    BY <2>2, <2>3, MerkleNode
  <2>4. CASE ~Empty(C, n, k) /\ n = Height
    <3>1. k = j
      BY <2>4, AgreeAll
    <3>2. k \in DOMAIN C
      <4>1. PICK i \in DOMAIN C : Agree(i, k, Height)
        BY <2>4 DEF Empty
      <4>2. i = k
        BY <4>1, AgreeAll
      <4> QED
        BY <4>1, <4>2
    <3>3. C[k] = D[k]
      BY <3>2 DEF Same, Agree
    <3> QED
      BY <2>2, <2>4, <3>1, <3>3, MerkleNode, ZenonT(30)
  <2>5. CASE ~Empty(C, n, k) /\ n # Height
    <3>1. n \in 0 .. Height - 1 /\ n \in Nat /\ n \in 0 .. n + 1 /\ n + 1 \in 0 .. Height /\ P(n + 1)
      BY <1>1, <1>h, <2>5
    <3>2. turned(k, n) \in Keys /\ turned(j, n) \in Keys
      BY <3>1, TurnedKey
    <3>3. \A i \in Keys : Agree(i, k, n + 1) => Agree(i, k, n)
      BY <3>1, AgreeLess
    <3>4. \A i \in Keys : Agree(i, turned(k, n), n + 1) => Agree(i, k, n)
      <4> TAKE i \in Keys
      <4> HAVE Agree(i, turned(k, n), n + 1)
      <4>1. \A x \in 1 .. n : x \in 1 .. n + 1 /\ x \in 1 .. Height /\ x # n + 1
        BY <1>h, <3>1
      <4> QED
        BY <3>1, <4>1, TurnedKey DEF Agree
    <3>5. Same(C, D, n + 1, k) /\ Same(C, D, n + 1, turned(k, n))
      BY <3>3, <3>4 DEF Same
    <3>6. CASE k[n + 1] = j[n + 1]
      <4>1. Agree(k, j, n + 1) /\ Agree(turned(k, n), turned(j, n), n + 1)
        BY <3>1, <3>6, Sides
      <4>2. /\ Merkle(C)[<<n + 1, k>>] = Merkle(D)[<<n + 1, j>>]
            /\ Merkle(C)[<<n + 1, turned(k, n)>>] = Merkle(D)[<<n + 1, turned(j, n)>>]
        BY <3>1, <3>2, <3>5, <4>1
      <4> QED
        BY <2>2, <2>5, <3>6, <4>2, MerkleNode
    <3>7. CASE k[n + 1] # j[n + 1]
      <4>1. /\ Agree(turned(k, n), j, n + 1) /\ Agree(k, turned(j, n), n + 1)
            /\ j[n + 1] = 1 - k[n + 1]
        BY <3>1, <3>7, Sides
      <4>2. /\ Merkle(C)[<<n + 1, k>>] = Merkle(D)[<<n + 1, turned(j, n)>>]
            /\ Merkle(C)[<<n + 1, turned(k, n)>>] = Merkle(D)[<<n + 1, j>>]
        BY <3>1, <3>2, <3>5, <4>1
      <4>3. k[n + 1] \in {0, 1} /\ j[n + 1] \in {0, 1} /\ k[n + 1] # j[n + 1]
        <5>1. n + 1 \in 1 .. Height
          BY <3>1
        <5> QED
          BY <3>7, <5>1 DEF Keys
      <4>4. \A a, b : Combine(k[n + 1], a, b) = Combine(j[n + 1], b, a)
        BY <4>3 DEF Combine
      <4> QED
        BY <2>2, <2>5, <4>2, <4>4, MerkleNode
    <3> QED
      BY <3>6, <3>7
  <2> QED
    BY <2>3, <2>4, <2>5
<1> HIDE DEF P
<1>2. ASSUME Wrong # {} PROVE FALSE
  <2>1. PICK i \in Wrong : \A n \in Nat : n < i => n \notin Wrong
    <3>1. Wrong \in SUBSET Nat
      OBVIOUS
    <3> HIDE DEF Wrong
    <3> QED
      BY <1>2, <3>1, Math!LeastElement
  <2>2. i \in Nat /\ i <= Height /\ ~P(Height - i)
    OBVIOUS
  <2>3. PICK n \in 0 .. Height : n = Height - i
    BY <1>h, <2>2
  <2>4. n # Height => P(n + 1)
    <3>1. n # Height => /\ i - 1 \in Nat /\ i - 1 < i /\ i - 1 <= Height
                        /\ Height - (i - 1) = n + 1
      BY <1>h, <2>2, <2>3
    <3> QED
      BY <2>1, <3>1
  <2> QED
    BY <1>1, <2>2, <2>3, <2>4
<1>3. \A n \in 0 .. Height : P(n)
  <2> TAKE n \in 0 .. Height
  <2>1. Height - n \in Nat /\ Height - n <= Height /\ Height - (Height - n) = n
    BY <1>h
  <2>2. Height - n \notin Wrong
    BY <1>2
  <2> HIDE DEF P
  <2> QED
    BY <2>1, <2>2
<1> QED
  BY <1>3 DEF P

\* Below a node where a map has no key it has none further down.
LEMMA EmptyBelow ==
  ASSUME NEW D, DOMAIN D \subseteq Keys, NEW n \in 0 .. Height, NEW m \in 0 .. n, NEW k \in Keys,
         Empty(D, m, k)
  PROVE  Empty(D, n, k)
<1>1. n \in Nat
  OBVIOUS
<1> QED
  BY <1>1, AgreeLess DEF Empty

\* Maps that agree below a node agree below every node further down.
LEMMA SameBelow ==
  ASSUME NEW C, NEW D, NEW k \in Keys, NEW j \in Keys, NEW m \in 0 .. Height, NEW n \in m .. Height,
         Agree(j, k, m), Same(C, D, m, k)
  PROVE  Same(C, D, n, j)
<1>1. ASSUME NEW i \in Keys, Agree(i, j, n) PROVE Agree(i, k, m)
  <2>1. \A x \in 1 .. m : x \in 1 .. n
    OBVIOUS
  <2> QED
    BY <1>1, <2>1 DEF Agree
<1> QED
  BY <1>1 DEF Same

\* Where two maps agree, either both have keys or neither has.
LEMMA EmptySame ==
  ASSUME NEW C, NEW D, DOMAIN C \subseteq Keys, DOMAIN D \subseteq Keys,
         NEW k \in Keys, NEW j \in Keys, NEW n \in 0 .. Height, Agree(k, j, n), Same(C, D, n, k)
  PROVE  Empty(C, n, k) <=> Empty(D, n, j)
<1>1. \A i \in Keys : Agree(i, k, n) <=> Agree(i, j, n)
  BY DEF Agree
<1> QED
  BY <1>1 DEF Same, Empty

\* A node of the tree of D to go up from, the siblings of the tree on the way to the key, and no
\* empty node above.
OnPath(D, key, siblings, bottom) ==
  /\ bottom.level \in 0 .. Height /\ bottom.hash = Merkle(D)[<<bottom.level, key>>]
  /\ \A l \in 0 .. bottom.level - 1 :
       /\ ~Empty(D, l, key)
       /\ (IF l < Len(siblings) THEN siblings[l + 1] ELSE Zero) = Merkle(D)[<<l + 1, turned(key, l)>>]

\* Going up from there gives the nodes of the tree, up to its root.
LEMMA UpwardIsMerkle ==
  ASSUME NEW D, DOMAIN D \subseteq Keys, NEW key \in Keys, NEW siblings, NEW bottom,
         OnPath(D, key, siblings, bottom)
  PROVE  \A l \in 0 .. bottom.level : Upward(key, siblings, bottom)[l] = Merkle(D)[<<l, key>>]
<1> DEFINE L == bottom.level
           u == Upward(key, siblings, bottom)
           P(l) == u[l] = Merkle(D)[<<l, key>>]
           Wrong == {i \in Nat : i <= L /\ ~P(L - i)}
<1> USE DEF OnPath
<1>h. Height \in Nat /\ L \in Nat /\ L <= Height
  BY HeightAssumption
<1>1. ASSUME NEW l \in 0 .. L, l # L => P(l + 1) PROVE P(l)
  <2>1. u[l] = Up(key, siblings, bottom, l, u)
    BY <1>h, UpwardDefined
  <2>2. CASE l = L
    BY <2>1, <2>2 DEF Up
  <2>3. CASE l # L
    <3>1. l \in 0 .. L - 1 /\ l \in 0 .. Height /\ l # Height
      BY <1>h, <2>3
    <3>2. u[l] = Combine(key[l + 1], u[l + 1], Merkle(D)[<<l + 1, turned(key, l)>>])
      BY <2>1, <2>3, <3>1, Zenon DEF Up, get_bit
    <3>3. ~Empty(D, l, key) /\ u[l + 1] = Merkle(D)[<<l + 1, key>>]
      BY <1>1, <2>3, <3>1
    <3> QED
      BY <3>1, <3>2, <3>3, MerkleNode
  <2> QED
    BY <2>2, <2>3
<1> HIDE DEF P
<1>2. ASSUME Wrong # {} PROVE FALSE
  <2>1. PICK i \in Wrong : \A n \in Nat : n < i => n \notin Wrong
    <3>1. Wrong \in SUBSET Nat
      OBVIOUS
    <3> HIDE DEF Wrong
    <3> QED
      BY <1>2, <3>1, Math!LeastElement
  <2>2. i \in Nat /\ i <= L /\ ~P(L - i)
    OBVIOUS
  <2>3. PICK n \in 0 .. L : n = L - i
    BY <1>h, <2>2
  <2>4. n # L => P(n + 1)
    <3>1. n # L => i - 1 \in Nat /\ i - 1 < i /\ i - 1 <= L /\ L - (i - 1) = n + 1
      BY <1>h, <2>2, <2>3
    <3> QED
      BY <2>1, <3>1
  <2> QED
    BY <1>1, <2>2, <2>3, <2>4
<1>3. \A n \in 0 .. L : P(n)
  <2> TAKE n \in 0 .. L
  <2>1. L - n \in Nat /\ L - n <= L /\ L - (L - n) = n
    BY <1>h
  <2>2. L - n \notin Wrong
    BY <1>2
  <2> QED
    BY <2>1, <2>2
<1> QED
  BY <1>3 DEF P

-----------------------------------------------------------------------------
\* A sequence, whatever its elements.
Listed(s) == \E n \in Nat : s = [x \in 1 .. n |-> s[x]]

\* The length and the positions of a sequence.
LEMMA ListedLen ==
  ASSUME NEW n \in Nat, NEW s, s = [x \in 1 .. n |-> s[x]]
  PROVE  Len(s) = n /\ Listed(s) /\ DOMAIN s = 1 .. n
<1>1. PICK S : S = {s[x] : x \in 1 .. n}
  OBVIOUS
<1>2. s \in [1 .. n -> S]
  BY <1>1
<1>3. s \in Seq(S)
  BY <1>2
<1>4. Len(s) = n
  BY <1>2, <1>3
<1> QED
  BY <1>4 DEF Listed

\* The hashes of a copath.
LEMMA HashesListed ==
  ASSUME NEW copath, Listed(copath)
  PROVE  /\ Len(hashes(copath)) = Len(copath) /\ Len(copath) \in Nat
         /\ \A x \in 1 .. Len(copath) : hashes(copath)[x] = copath[x].hash
<1>1. PICK n \in Nat : copath = [x \in 1 .. n |-> copath[x]]
  BY DEF Listed
<1>2. Len(copath) = n /\ DOMAIN copath = 1 .. n
  BY <1>1, ListedLen
<1> DEFINE h == hashes(copath)
<1>3. h = [x \in 1 .. n |-> copath[x].hash]
  BY <1>2 DEF hashes
<1> HIDE DEF h
<1>4. h = [x \in 1 .. n |-> h[x]]
  BY <1>3
<1>5. Len(h) = n
  BY <1>4, ListedLen
<1> QED
  BY <1>2, <1>3, <1>5 DEF h

\* What an entry of the list knows of the node of k at level n: its hash and, where it is not
\* empty, an earlier entry that lies below it and whose tree D does not differ from there.
Sibling(S, C, D, p, s, n, k) ==
  /\ s.hash = Merkle(D)[<<n, k>>]
  /\ s.ptr = None => Empty(D, n, k)
  /\ s.ptr # None => /\ s.ptr \in 0 .. p - 1
                     /\ Agree(S[s.ptr].index, k, n)
                     /\ Same(C[s.ptr], D, n, k)

\* The entry at p stands for the tree over C[p]: it holds one of its keys, and its copath holds
\* the siblings on the way to it.
Entry(S, C, p) ==
  /\ DOMAIN C[p] \subseteq Keys
  /\ S[p].index \in DOMAIN C[p] /\ S[p].commitment = C[p][S[p].index]
  /\ Listed(S[p].copath) /\ Len(S[p].copath) <= Height
  /\ \A x \in 0 .. Height - 1 : Sibling(S, C, C[p], p, at(S[p], x), x + 1, turned(S[p].index, x))

\* The entries below n form trees.
Trees(S, C, n) == \A p \in 0 .. n - 1 : Entry(S, C, p)

\* An entry's rollup gives the nodes of its tree on the way to its key.
LEMMA RollupIsMerkle ==
  ASSUME NEW S, NEW C, NEW p, Entry(S, C, p)
  PROVE  \A l \in 0 .. Height : rollup(S[p], l) = Merkle(C[p])[<<l, S[p].index>>]
<1>1. Height \in Nat
  BY HeightAssumption
<1> DEFINE e == S[p]
           b == Leaf(e.index, e.commitment)
           h == hashes(e.copath)
<1>2. b.level = Height /\ b.hash = leaf_hash(e.index, e.commitment)
  BY DEF Leaf
<1>3. e.index \in Keys /\ e.index \in DOMAIN C[p] /\ DOMAIN C[p] \subseteq Keys
  BY DEF Entry
<1>4. \A l \in 0 .. Height : ~Empty(C[p], l, e.index)
  BY <1>3 DEF Empty, Agree
<1>5. b.hash = Merkle(C[p])[<<b.level, e.index>>]
  <2>1. Height \in 0 .. Height /\ ~Empty(C[p], Height, e.index)
    BY <1>1, <1>4
  <2>2. Merkle(C[p])[<<Height, e.index>>] = leaf_hash(e.index, C[p][e.index])
    BY <1>3, <2>1, MerkleNode
  <2> QED
    BY <1>2, <2>2 DEF Entry
<1>6. Len(h) = Len(e.copath) /\ \A x \in 1 .. Len(e.copath) : h[x] = e.copath[x].hash
  BY HashesListed DEF Entry
<1>7. ASSUME NEW l \in 0 .. Height - 1
      PROVE  (IF l < Len(h) THEN h[l + 1] ELSE Zero) = Merkle(C[p])[<<l + 1, turned(e.index, l)>>]
  <2>1. at(e, l).hash = Merkle(C[p])[<<l + 1, turned(e.index, l)>>]
    BY DEF Entry, Sibling
  <2>2. CASE l < Len(h)
    <3>1. l + 1 \in 1 .. Len(e.copath)
      <4>1. Len(e.copath) \in Nat
        BY ListedLen DEF Entry, Listed
      <4> QED
        BY <1>6, <2>2, <4>1
    <3>2. h[l + 1] = at(e, l).hash
      BY <1>6, <2>2, <3>1 DEF at
    <3> QED
      BY <2>1, <2>2, <3>2
  <2>3. CASE ~(l < Len(h))
    <3>1. at(e, l).hash = Zero
      BY <1>6, <2>3 DEF at
    <3> QED
      BY <2>1, <2>3, <3>1
  <2> QED
    BY <2>2, <2>3
<1> HIDE DEF b, h, e
<1>8. \A l \in 0 .. Height : Upward(e.index, h, b)[l] = Merkle(C[p])[<<l, e.index>>]
  <2>1. b.level \in 0 .. Height
    BY <1>1, <1>2
  <2>2. \A l \in 0 .. b.level - 1 :
          /\ ~Empty(C[p], l, e.index)
          /\ (IF l < Len(h) THEN h[l + 1] ELSE Zero) = Merkle(C[p])[<<l + 1, turned(e.index, l)>>]
    BY <1>1, <1>2, <1>4, <1>7
  <2>3. \A l \in 0 .. b.level : Upward(e.index, h, b)[l] = Merkle(C[p])[<<l, e.index>>]
    <3>1. OnPath(C[p], e.index, h, b)
      BY <1>5, <2>1, <2>2 DEF OnPath
    <3> QED
      BY <1>3, <3>1, UpwardIsMerkle
  <2> QED
    BY <1>2, <2>3
<1> QED
  BY <1>8 DEF rollup, e, b, h

\* What is known of a node of one tree holds for another that is the same there.
LEMMA SiblingMoved ==
  ASSUME NEW S, NEW C, NEW D, NEW B, DOMAIN D \subseteq Keys, DOMAIN B \subseteq Keys,
         NEW p \in Nat, NEW q \in 0 .. p, NEW s, NEW n \in 0 .. Height, NEW k \in Keys, NEW j \in Keys,
         Sibling(S, C, D, q, s, n, k), Agree(k, j, n), Same(D, B, n, k)
  PROVE  Sibling(S, C, B, p, s, n, j)
<1>1. Merkle(D)[<<n, k>>] = Merkle(B)[<<n, j>>]
  BY MerkleSame
<1>2. Empty(D, n, k) <=> Empty(B, n, j)
  BY EmptySame
<1>3. ASSUME s.ptr # None
      PROVE  s.ptr \in 0 .. p - 1 /\ Agree(S[s.ptr].index, j, n) /\ Same(C[s.ptr], B, n, j)
  <2>1. s.ptr \in 0 .. q - 1 /\ Agree(S[s.ptr].index, k, n) /\ Same(C[s.ptr], D, n, k)
    BY <1>3 DEF Sibling
  <2>2. Agree(S[s.ptr].index, j, n)
    BY <2>1 DEF Agree
  <2>3. \A i \in Keys : Agree(i, j, n) => Agree(i, k, n)
    BY DEF Agree
  <2>4. Same(C[s.ptr], B, n, j)
    BY <2>1, <2>3 DEF Same
  <2> QED
    BY <2>1, <2>2, <2>4
<1> QED
  BY <1>1, <1>2, <1>3 DEF Sibling

\* Parting finds the first bit where two keys differ.
LEMMA PartingIs ==
  ASSUME NEW k \in Keys, NEW t \in Keys, k # t, NEW n \in 0 .. Height, Agree(k, t, n)
  PROVE  /\ Parting(k, t, n) \in n .. Height - 1
         /\ k[Parting(k, t, n) + 1] # t[Parting(k, t, n) + 1]
         /\ Agree(k, t, Parting(k, t, n))
<1>h. Height \in Nat /\ n \in Nat
  BY HeightAssumption
<1> DEFINE Differ == {x \in Nat : x \in n .. Height - 1 /\ k[x + 1] # t[x + 1]}
           IsFirst(d) == /\ get_bit(k, d) # get_bit(t, d)
                         /\ \A x \in n .. d - 1 : get_bit(k, x) = get_bit(t, x)
<1>1. Differ # {}
  <2>1. PICK x \in 1 .. Height : k[x] # t[x]
    BY AgreeAll DEF Agree
  <2>2. x \notin 1 .. n
    BY <2>1 DEF Agree
  <2>3. PICK y \in n .. Height - 1 : y + 1 = x
    <3>1. x - 1 \in n .. Height - 1 /\ (x - 1) + 1 = x
      BY <1>h, <2>1, <2>2
    <3> QED
      BY <3>1
  <2>4. y \in Differ
    BY <1>h, <2>1, <2>3
  <2> QED
    BY <2>4
<1>2. PICK m \in Differ : \A x \in Nat : x < m => x \notin Differ
  <2>1. Differ \in SUBSET Nat
    OBVIOUS
  <2> HIDE DEF Differ
  <2> QED
    BY <1>1, <2>1, Math!LeastElement
<1>3. m \in n .. Height - 1 /\ m \in Nat /\ k[m + 1] # t[m + 1]
  BY <1>h
<1>4. \A x \in n .. m - 1 : k[x + 1] = t[x + 1]
  <2> TAKE x \in n .. m - 1
  <2>1. x \in Nat /\ x < m /\ x \in n .. Height - 1
    BY <1>h, <1>3
  <2>2. x \notin Differ
    BY <1>2, <2>1
  <2> QED
    BY <2>1, <2>2
<1>5. IsFirst(m)
  BY <1>3, <1>4 DEF get_bit
<1>6. PICK d \in n .. Height - 1 : d = Parting(k, t, n) /\ IsFirst(d)
  BY <1>3, <1>5 DEF Parting
<1>7. k[d + 1] # t[d + 1] /\ \A x \in n .. d - 1 : k[x + 1] = t[x + 1]
  BY <1>6 DEF get_bit
<1>8. Agree(k, t, d)
  <2> SUFFICES ASSUME NEW x \in 1 .. d PROVE k[x] = t[x]
    BY DEF Agree
  <2>1. CASE x \in 1 .. n
    BY <2>1 DEF Agree
  <2>2. CASE x \notin 1 .. n
    <3>1. PICK y \in n .. d - 1 : y + 1 = x
      <4>1. x - 1 \in n .. d - 1 /\ (x - 1) + 1 = x
        BY <1>h, <2>2
      <4> QED
        BY <4>1
    <3> QED
      BY <1>7, <3>1
  <2> QED
    BY <2>1, <2>2
<1> QED
  BY <1>6, <1>7, <1>8

-----------------------------------------------------------------------------
\* Where the walk towards t through the tree D has come to: the copath so far holds siblings of
\* D on the way to t, with pointers below p; the next entry shares its bits with t so far and
\* does not differ from D below them; or t is found, or an empty subtree of D on its way.
Way(S, C, D, p, t, v) ==
  /\ v.kind \in {"continue", "found", "failed"} /\ v.ptr \in 0 .. p - 1
  /\ Listed(v.copath) /\ Len(v.copath) \in 0 .. Height
  /\ \A x \in 0 .. Len(v.copath) - 1 : Sibling(S, C, D, p, v.copath[x + 1], x + 1, turned(t, x))
  /\ v.kind = "continue" => /\ Agree(S[v.ptr].index, t, Len(v.copath))
                            /\ Same(C[v.ptr], D, Len(v.copath), t)
  /\ v.kind = "found" => /\ S[v.ptr].index = t /\ t \in DOMAIN D /\ D[t] = S[v.ptr].commitment
                         /\ \A x \in Len(v.copath) .. Height - 1 : Empty(D, x + 1, turned(t, x))
  /\ v.kind = "failed" => /\ Len(v.copath) > 0 /\ S[v.ptr].index # t
                          /\ Empty(D, Len(v.copath), t) /\ ~Empty(D, Len(v.copath) - 1, t)
                          /\ S[v.ptr].index \in DOMAIN D /\ D[S[v.ptr].index] = S[v.ptr].commitment

\* What an entry shares with t and does not differ from D holds of its siblings from there on.
LEMMA SiblingOnWay ==
  ASSUME NEW S, NEW C, NEW D, DOMAIN D \subseteq Keys, NEW p \in Nat, NEW q \in 0 .. p - 1,
         Entry(S, C, q), NEW t \in Keys, NEW n \in 0 .. Height, NEW d \in n .. Height,
         Agree(S[q].index, t, d), Same(C[q], D, n, t), NEW x \in n .. d - 1
  PROVE  Sibling(S, C, D, p, at(S[q], x), x + 1, turned(t, x))
<1>h. Height \in Nat /\ x \in 0 .. Height - 1 /\ x + 1 \in 0 .. Height /\ n \in 0 .. x + 1 /\ q \in 0 .. p
  BY HeightAssumption
<1>1. S[q].index \in Keys /\ DOMAIN C[q] \subseteq Keys
  BY DEF Entry
<1>2. Sibling(S, C, C[q], q, at(S[q], x), x + 1, turned(S[q].index, x))
  BY <1>h DEF Entry
<1>3. Agree(turned(S[q].index, x), turned(t, x), x + 1)
  BY <1>1, <1>h, TurnedAgree
<1>4. turned(S[q].index, x) \in Keys /\ turned(t, x) \in Keys
  BY <1>1, <1>h, TurnedKey
<1>5. Agree(turned(S[q].index, x), t, n)
  <2> SUFFICES ASSUME NEW y \in 1 .. n PROVE turned(S[q].index, x)[y] = t[y]
    BY DEF Agree
  <2>1. y \in 1 .. Height /\ y # x + 1 /\ y \in 1 .. d
    BY <1>h
  <2> QED
    BY <1>1, <1>h, <2>1, TurnedKey DEF Agree
<1>6. Same(C[q], D, x + 1, turned(S[q].index, x))
  <2>1. x + 1 \in n .. Height
    BY <1>h
  <2> QED
    BY <1>4, <1>5, <2>1, SameBelow
<1> QED
  BY <1>1, <1>2, <1>3, <1>4, <1>6, <1>h, SiblingMoved

\* The step that finds the target.
LEMMA StepFinds ==
  ASSUME NEW S, NEW C, NEW D, DOMAIN D \subseteq Keys, NEW p \in Nat, Trees(S, C, p), NEW t \in Keys,
         NEW v, Way(S, C, D, p, t, v), v.kind = "continue", S[v.ptr].index = t,
         NEW w, w = step(t, v.ptr, v.copath, S[v.ptr])
  PROVE  Way(S, C, D, p, t, w) /\ w.kind = "found"
<1>h. Height \in Nat
  BY HeightAssumption
<1>0. PICK q \in 0 .. p - 1 : q = v.ptr
  BY DEF Way
<1>1. PICK n \in 0 .. Height : n = Len(v.copath)
  BY DEF Way
<1>2. Entry(S, C, q)
  BY DEF Trees
<1>3. PICK m \in 0 .. Height : m = Len(S[q].copath) /\ S[q].copath = [x \in 1 .. m |-> S[q].copath[x]]
  <2>1. PICK m \in Nat : S[q].copath = [x \in 1 .. m |-> S[q].copath[x]]
    BY <1>2 DEF Entry, Listed
  <2>2. Len(S[q].copath) = m
    BY <2>1, ListedLen
  <2> QED
    BY <1>2, <1>h, <2>1, <2>2 DEF Entry
<1>4. /\ w.kind = "found" /\ w.ptr = q /\ w.copath = combine_copaths(v.copath, S[q].copath)
  BY <1>0 DEF step
<1>5. \A x \in n .. Height - 1 : Sibling(S, C, D, p, at(S[q], x), x + 1, turned(t, x))
  <2>1. Agree(S[q].index, t, Height) /\ Same(C[q], D, n, t) /\ Height \in n .. Height
    BY <1>0, <1>1, <1>h DEF Way, Agree
  <2> QED
    BY <1>2, <2>1, SiblingOnWay
<1>6. t \in DOMAIN D /\ D[t] = S[q].commitment
  <2>1. t \in DOMAIN C[q] /\ C[q][t] = S[q].commitment
    BY <1>0, <1>2 DEF Entry
  <2>2. Same(C[q], D, n, t) /\ Agree(t, t, n)
    BY <1>0, <1>1 DEF Way, Agree
  <2> QED
    BY <2>1, <2>2 DEF Same
<1>7. PICK l \in 0 .. Height :
        /\ l = Len(w.copath) /\ Listed(w.copath) /\ n <= l /\ m <= l
        /\ \A x \in 0 .. l - 1 : /\ x < n => w.copath[x + 1] = v.copath[x + 1]
                                 /\ x >= n => w.copath[x + 1] = at(S[q], x)
  <2>1. CASE m <= n
    <3>1. w.copath = v.copath
      BY <1>1, <1>3, <1>4, <2>1 DEF combine_copaths
    <3> QED
      BY <1>1, <2>1, <3>1 DEF Way
  <2>2. CASE ~(m <= n)
    <3>1. DOMAIN S[q].copath = 1 .. m
      BY <1>3, ListedLen
    <3>2. w.copath = [x \in 1 .. m |-> IF x <= n THEN v.copath[x] ELSE S[q].copath[x]]
      BY <1>1, <1>3, <1>4, <2>2, <3>1 DEF combine_copaths
    <3>3. w.copath = [x \in 1 .. m |-> w.copath[x]]
      BY <3>2
    <3>4. Len(w.copath) = m /\ Listed(w.copath)
      BY <3>3, ListedLen
    <3>5. \A x \in 0 .. m - 1 : /\ x < n => w.copath[x + 1] = v.copath[x + 1]
                                /\ x >= n => w.copath[x + 1] = S[q].copath[x + 1]
      BY <3>2
    <3>6. \A x \in 0 .. m - 1 : at(S[q], x) = S[q].copath[x + 1]
      BY <1>3 DEF at
    <3> QED
      BY <2>2, <3>4, <3>5, <3>6
  <2> QED
    BY <2>1, <2>2
<1>8. \A x \in 0 .. l - 1 : Sibling(S, C, D, p, w.copath[x + 1], x + 1, turned(t, x))
  <2> TAKE x \in 0 .. l - 1
  <2>1. CASE x < n
    <3>1. Sibling(S, C, D, p, v.copath[x + 1], x + 1, turned(t, x))
      BY <1>1, <2>1 DEF Way
    <3> QED
      BY <1>7, <2>1, <3>1
  <2>2. CASE x >= n
    <3>1. Sibling(S, C, D, p, at(S[q], x), x + 1, turned(t, x))
      BY <1>5, <1>h, <2>2
    <3> QED
      BY <1>7, <2>2, <3>1
  <2> QED
    BY <2>1, <2>2
<1>9. \A x \in l .. Height - 1 : Empty(D, x + 1, turned(t, x))
  <2> TAKE x \in l .. Height - 1
  <2>1. x \in n .. Height - 1 /\ ~(x < m)
    BY <1>7, <1>h
  <2>2. at(S[q], x).ptr = None
    BY <1>3, <2>1 DEF at
  <2> QED
    BY <1>5, <2>1, <2>2 DEF Sibling
<1> QED
  BY <1>0, <1>4, <1>6, <1>7, <1>8, <1>9 DEF Way

\* The step past an entry that is not the target.
LEMMA StepGoesOn ==
  ASSUME NEW S, NEW C, NEW D, DOMAIN D \subseteq Keys, NEW p \in Nat, Trees(S, C, p), NEW t \in Keys,
         NEW v, Way(S, C, D, p, t, v), v.kind = "continue", S[v.ptr].index # t,
         NEW w, w = step(t, v.ptr, v.copath, S[v.ptr])
  PROVE  Way(S, C, D, p, t, w) /\ w.kind # "found" /\ Len(w.copath) > Len(v.copath)
<1>h. Height \in Nat
  BY HeightAssumption
<1>0. PICK q \in 0 .. p - 1 : q = v.ptr
  BY DEF Way
<1>1. PICK n \in 0 .. Height : n = Len(v.copath)
  BY DEF Way
<1>2. Entry(S, C, q)
  BY DEF Trees
<1>3. PICK k \in Keys : k = S[q].index /\ k # t /\ k \in DOMAIN C[q] /\ DOMAIN C[q] \subseteq Keys
  BY <1>0, <1>2 DEF Entry
<1>4. Agree(k, t, n) /\ Same(C[q], D, n, t)
  BY <1>0, <1>1, <1>3 DEF Way
<1>5. PICK d \in n .. Height - 1 : d = Parting(k, t, n) /\ k[d + 1] # t[d + 1] /\ Agree(k, t, d)
  BY <1>3, <1>4, PartingIs
<1>6. d \in 0 .. Height - 1 /\ d \in 0 .. Height /\ d + 1 \in 0 .. Height /\ d + 1 > n /\ d \in n .. Height
      /\ d + 1 \in n .. Height
  BY <1>h
<1>7. /\ Agree(turned(k, d), t, d + 1) /\ Agree(k, turned(t, d), d + 1) /\ ~Agree(k, t, d + 1)
      /\ turned(k, d) \in Keys /\ turned(t, d) \in Keys
  BY <1>5, <1>6, Sides, TurnedKey
<1> DEFINE here == [hash |-> rollup(S[q], d + 1), ptr |-> q]
<1>8. /\ w.copath = [x \in 1 .. d + 1 |-> IF x <= n THEN v.copath[x] ELSE IF x <= d THEN at(S[q], x - 1) ELSE here]
      /\ IF at(S[q], d).ptr # None THEN w.kind = "continue" /\ w.ptr = at(S[q], d).ptr
                                   ELSE w.kind = "failed" /\ w.ptr = q
  BY <1>0, <1>1, <1>3, <1>5 DEF step
<1>9. /\ Len(w.copath) = d + 1 /\ Listed(w.copath)
      /\ \A x \in 0 .. d : w.copath[x + 1] = IF x < n THEN v.copath[x + 1] ELSE IF x < d THEN at(S[q], x) ELSE here
  <2> HIDE DEF here
  <2>1. w.copath = [x \in 1 .. d + 1 |-> w.copath[x]]
    BY <1>8
  <2>2. \A x \in 0 .. d : x + 1 \in 1 .. d + 1 /\ (x + 1) - 1 = x /\ (x + 1 <= n <=> x < n) /\ (x + 1 <= d <=> x < d)
    BY <1>6
  <2>3. \A x \in 0 .. d : w.copath[x + 1] = IF x < n THEN v.copath[x + 1] ELSE IF x < d THEN at(S[q], x) ELSE here
    BY <1>8, <2>2
  <2>4. d + 1 \in Nat
    BY <1>6
  <2> QED
    BY <2>1, <2>3, <2>4, ListedLen
<1>10. Same(C[q], D, d + 1, k) /\ Same(C[q], D, d + 1, t) /\ Same(C[q], D, d, t)
  <2>1. Agree(t, t, n)
    BY DEF Agree
  <2> QED
    BY <1>4, <1>6, <2>1, SameBelow
<1>11. \A x \in n .. d - 1 : Sibling(S, C, D, p, at(S[q], x), x + 1, turned(t, x))
  BY <1>2, <1>3, <1>4, <1>5, <1>6, SiblingOnWay
<1>12. Sibling(S, C, D, p, here, d + 1, turned(t, d))
  <2>1. here.hash = Merkle(D)[<<d + 1, turned(t, d)>>]
    <3>1. rollup(S[q], d + 1) = Merkle(C[q])[<<d + 1, k>>]
      BY <1>2, <1>3, <1>6, RollupIsMerkle
    <3>2. Merkle(C[q])[<<d + 1, k>>] = Merkle(D)[<<d + 1, turned(t, d)>>]
      BY <1>3, <1>6, <1>7, <1>10, MerkleSame
    <3> QED
      BY <3>1, <3>2
  <2>2. Same(C[q], D, d + 1, turned(t, d))
    <3>1. Agree(turned(t, d), k, d + 1)
      BY <1>7 DEF Agree
    <3> QED
      BY <1>6, <1>7, <1>10, <3>1, SameBelow
  <2> QED
    BY <1>3, <1>7, <2>1, <2>2 DEF Sibling, None
<1>13. \A x \in 0 .. Len(w.copath) - 1 : Sibling(S, C, D, p, w.copath[x + 1], x + 1, turned(t, x))
  <2> SUFFICES ASSUME NEW x \in 0 .. d PROVE Sibling(S, C, D, p, w.copath[x + 1], x + 1, turned(t, x))
    BY <1>6, <1>9
  <2> HIDE DEF here
  <2>1. CASE x < n
    <3>1. Sibling(S, C, D, p, v.copath[x + 1], x + 1, turned(t, x))
      BY <1>1, <2>1 DEF Way
    <3> QED
      BY <1>9, <2>1, <3>1
  <2>2. CASE ~(x < n) /\ x < d
    BY <1>6, <1>9, <1>11, <2>2
  <2>3. CASE ~(x < n) /\ ~(x < d)
    <3>1. x = d
      BY <1>6, <2>3
    <3> QED
      BY <1>9, <1>12, <2>3, <3>1
  <2> QED
    BY <2>1, <2>2, <2>3
<1>14. Sibling(S, C, C[q], q, at(S[q], d), d + 1, turned(k, d))
  BY <1>2, <1>3, <1>6 DEF Entry
<1>15. Same(C[q], D, d + 1, turned(k, d))
  <2>1. Agree(turned(k, d), t, d + 1)
    BY <1>7
  <2> QED
    BY <1>6, <1>7, <1>10, <2>1, SameBelow
<1>16. CASE at(S[q], d).ptr # None
  <2>1. /\ w.ptr \in 0 .. p - 1 /\ w.kind = "continue"
        /\ Agree(S[w.ptr].index, turned(k, d), d + 1) /\ Same(C[w.ptr], C[q], d + 1, turned(k, d))
    BY <1>8, <1>14, <1>16 DEF Sibling
  <2>2. Agree(S[w.ptr].index, t, d + 1)
    BY <1>7, <2>1 DEF Agree
  <2>3. \A i \in Keys : Agree(i, t, d + 1) => Agree(i, turned(k, d), d + 1)
    BY <1>7 DEF Agree
  <2>4. Same(C[w.ptr], D, d + 1, t)
    BY <1>10, <2>1, <2>3 DEF Same
  <2> QED
    BY <1>1, <1>6, <1>9, <1>13, <2>1, <2>2, <2>4 DEF Way
<1>17. CASE at(S[q], d).ptr = None
  <2>1. Empty(C[q], d + 1, turned(k, d))
    BY <1>14, <1>17 DEF Sibling
  <2>2. Empty(D, d + 1, t)
    BY <1>3, <1>6, <1>7, <1>15, <2>1, EmptySame
  <2>3. ~Empty(D, d, t)
    <3>1. k \in DOMAIN D
      BY <1>3, <1>5, <1>10 DEF Same
    <3> QED
      BY <1>5, <3>1 DEF Empty
  <2>4. w.kind = "failed" /\ w.ptr = q /\ S[q].index # t
    BY <1>3, <1>8, <1>17
  <2>5. (d + 1) - 1 = d /\ d + 1 > 0
    BY <1>6
  <2>6. S[q].index \in DOMAIN D /\ D[S[q].index] = S[q].commitment
    <3>1. C[q][k] = S[q].commitment
      BY <1>2, <1>3 DEF Entry
    <3> QED
      BY <1>3, <1>5, <1>10, <3>1 DEF Same
  <2> QED
    BY <1>1, <1>6, <1>9, <1>13, <2>2, <2>3, <2>4, <2>5, <2>6 DEF Way
<1> QED
  BY <1>16, <1>17

-----------------------------------------------------------------------------
\* One step of the loop of Walk, with f for the steps before.
Visit(read, t, ptr, i, f) ==
  IF i = 0 THEN [kind |-> "continue", ptr |-> ptr, copath |-> <<>>]
  ELSE IF f[i - 1].kind = "continue"
  THEN step(t, f[i - 1].ptr, f[i - 1].copath, read[f[i - 1].ptr])
  ELSE f[i - 1]

\* The walk is the last of a series of steps.
LEMMA WalkDefined ==
  ASSUME NEW read, NEW t, NEW ptr
  PROVE  \E f : /\ \A i \in 0 .. Height + 1 : f[i] = Visit(read, t, ptr, i, f)
                /\ Walk(read, t, ptr) = f[Height + 1]
<1> DEFINE L == Height + 1
           Step(i, f) == Visit(read, t, ptr, i, f)
           Upto(f, n) == \A i \in 0 .. L : i <= n => f[i] = Step(i, f)
           Missing == {n \in Nat : ~\E f : Upto(f, n)}
<1>h. L \in Nat
  BY HeightAssumption
<1>s. ASSUME NEW f, NEW g, NEW i \in 0 .. L, i # 0 => f[i - 1] = g[i - 1]
      PROVE  Step(i, f) = Step(i, g)
  <2>1. CASE i = 0
    BY <2>1 DEF Visit
  <2>2. CASE i # 0
    <3>1. f[i - 1] = g[i - 1]
      BY <1>s, <2>2
    <3> QED
      BY <3>1, Zenon DEF Visit
  <2> QED
    BY <2>1, <2>2
<1> HIDE DEF Step, L
<1>1. ASSUME NEW n \in Nat, NEW f, n = 0 \/ Upto(f, n - 1) PROVE \E g : Upto(g, n)
  <2>1. PICK g : g = [i \in 0 .. L |-> IF i = n THEN Step(i, f) ELSE f[i]]
    OBVIOUS
  <2>2. \A i \in 0 .. L : g[i] = IF i = n THEN Step(i, f) ELSE f[i]
    BY <2>1
  <2>3. ASSUME NEW i \in 0 .. L, i <= n PROVE g[i] = Step(i, g)
    <3>1. i # 0 => f[i - 1] = g[i - 1]
      BY <1>h, <2>2, <2>3
    <3>2. Step(i, f) = Step(i, g)
      BY <1>s, <3>1
    <3>3. CASE i = n
      BY <2>2, <3>2, <3>3
    <3>4. CASE i # n
      <4>1. n # 0 /\ i <= n - 1
        BY <1>h, <2>3, <3>4
      <4>2. f[i] = Step(i, f)
        BY <1>1, <4>1
      <4> QED
        BY <2>2, <3>2, <3>4, <4>2
    <3> QED
      BY <3>3, <3>4
  <2> QED
    BY <2>3
<1> HIDE DEF Upto
<1>2. ASSUME Missing # {} PROVE FALSE
  <2>1. PICK n \in Missing : \A i \in Nat : i < n => i \notin Missing
    <3>1. Missing \in SUBSET Nat
      OBVIOUS
    <3> HIDE DEF Missing
    <3> QED
      BY <1>2, <3>1, Math!LeastElement
  <2>2. n \in Nat /\ ~\E f : Upto(f, n)
    OBVIOUS
  <2>3. n # 0 => n - 1 \in Nat /\ n - 1 < n
    BY <2>2
  <2>4. n # 0 => \E f : Upto(f, n - 1)
    BY <2>1, <2>3
  <2>5. \E f : n = 0 \/ Upto(f, n - 1)
    BY <2>4
  <2> QED
    BY <1>1, <2>2, <2>5
<1>3. PICK f : Upto(f, L)
  BY <1>2, <1>h
<1>4. PICK h : h = [i \in 0 .. L |-> f[i]]
  OBVIOUS
<1>5. ASSUME NEW i \in 0 .. L PROVE h[i] = Step(i, h)
  <2>1. f[i] = Step(i, f)
    BY <1>3, <1>h DEF Upto
  <2>2. i # 0 => f[i - 1] = h[i - 1]
    BY <1>4, <1>h
  <2>3. Step(i, f) = Step(i, h)
    BY <1>s, <2>2
  <2> QED
    BY <1>4, <2>1, <2>3
<1>6. h = [i \in 0 .. L |-> Step(i, h)]
  BY <1>4, <1>5
<1> DEFINE d == CHOOSE g : g = [i \in 0 .. L |-> Step(i, g)]
<1>7. d = [i \in 0 .. L |-> Step(i, d)]
  BY <1>6, Zenon
<1>8. Walk(read, t, ptr) = d[L]
  BY Zenon DEF Walk, Visit, Step, L
<1> HIDE DEF d
<1>9. \A i \in 0 .. L : d[i] = Step(i, d)
  BY <1>7, Zenon
<1> QED
  BY <1>8, <1>9, Zenon DEF Step, L

\* A walk from a live entry ends, and ends with the target or an empty subtree on its way.
LEMMA WalkEnds ==
  ASSUME NEW S, NEW C, NEW p \in Nat, Trees(S, C, p), NEW r \in 0 .. p - 1, NEW t \in Keys,
         NEW read, \A q \in 0 .. p - 1 : read[q] = S[q]
  PROVE  /\ Way(S, C, C[r], p, t, Walk(read, t, r))
         /\ Walk(read, t, r).kind # "continue"
<1>h. Height \in Nat
  BY HeightAssumption
<1>d. DOMAIN C[r] \subseteq Keys
  BY DEF Trees, Entry
<1>1. PICK f : /\ \A i \in 0 .. Height + 1 : f[i] = Visit(read, t, r, i, f)
               /\ Walk(read, t, r) = f[Height + 1]
  BY WalkDefined
<1> DEFINE On(i) == /\ Way(S, C, C[r], p, t, f[i])
                    /\ f[i].kind = "continue" => Len(f[i].copath) >= i
           Off == {i \in Nat : i <= Height + 1 /\ ~On(i)}
<1>2. On(0)
  <2>1. 0 \in 0 .. Height + 1
    BY <1>h
  <2>2. f[0] = [kind |-> "continue", ptr |-> r, copath |-> <<>>]
    BY <1>1, <2>1 DEF Visit
  <2>3. Len(<<>>) = 0 /\ Listed(<<>>)
    BY DEF Listed
  <2>4. Agree(S[r].index, t, 0) /\ Same(C[r], C[r], 0, t)
    BY DEF Agree, Same
  <2> QED
    BY <1>h, <2>2, <2>3, <2>4 DEF Way
<1>3. ASSUME NEW i \in 0 .. Height, On(i) PROVE On(i + 1)
  <2> DEFINE v == f[i]
  <2>1. f[i + 1] = IF v.kind = "continue" THEN step(t, v.ptr, v.copath, read[v.ptr]) ELSE v
    <3>1. i + 1 \in 0 .. Height + 1 /\ i + 1 # 0 /\ (i + 1) - 1 = i
      BY <1>h
    <3> QED
      BY <1>1, <3>1 DEF Visit
  <2>2. Way(S, C, C[r], p, t, v) /\ (v.kind = "continue" => Len(v.copath) >= i)
    BY <1>3
  <2> HIDE DEF v
  <2>3. CASE v.kind # "continue"
    BY <2>1, <2>2, <2>3
  <2>4. CASE v.kind = "continue"
    <3>1. f[i + 1] = step(t, v.ptr, v.copath, S[v.ptr])
      BY <2>1, <2>2, <2>4 DEF Way
    <3>2. CASE S[v.ptr].index = t
      BY <1>d, <2>2, <2>4, <3>1, <3>2, StepFinds
    <3>3. CASE S[v.ptr].index # t
      <4>1. Way(S, C, C[r], p, t, f[i + 1]) /\ Len(f[i + 1].copath) > Len(v.copath)
        BY <1>d, <2>2, <2>4, <3>1, <3>3, StepGoesOn
      <4>2. Len(f[i + 1].copath) >= i + 1
        <5>1. Len(f[i + 1].copath) \in Nat /\ Len(v.copath) \in Nat
          BY <2>2, <4>1 DEF Way
        <5> QED
          BY <2>2, <2>4, <4>1, <5>1
      <4> QED
        BY <4>1, <4>2
    <3> QED
      BY <3>2, <3>3
  <2> QED
    BY <2>3, <2>4
<1> HIDE DEF On
<1>4. ASSUME Off # {} PROVE FALSE
  <2>1. PICK i \in Off : \A n \in Nat : n < i => n \notin Off
    <3>1. Off \in SUBSET Nat
      OBVIOUS
    <3> HIDE DEF Off
    <3> QED
      BY <1>4, <3>1, Math!LeastElement
  <2>2. i \in Nat /\ i <= Height + 1 /\ ~On(i)
    OBVIOUS
  <2>3. CASE i = 0
    BY <1>2, <2>2, <2>3
  <2>4. CASE i # 0
    <3>1. PICK n \in 0 .. Height : n + 1 = i
      <4>1. i - 1 \in 0 .. Height /\ (i - 1) + 1 = i
        BY <1>h, <2>2, <2>4
      <4> QED
        BY <4>1
    <3>2. On(n)
      BY <1>h, <2>1, <3>1
    <3> QED
      BY <1>3, <2>2, <3>1, <3>2
  <2> QED
    BY <2>3, <2>4
<1>5. On(Height + 1)
  BY <1>4, <1>h
<1>6. Way(S, C, C[r], p, t, f[Height + 1]) /\ f[Height + 1].kind # "continue"
  <2>1. Len(f[Height + 1].copath) <= Height /\ Len(f[Height + 1].copath) \in Nat
    BY <1>5 DEF On, Way
  <2> QED
    BY <1>5, <1>h, <2>1 DEF On
<1> QED
  BY <1>1, <1>6

-----------------------------------------------------------------------------
\* E is the map D with one key more.
OneMore(E, D, key, c) ==
  /\ DOMAIN E = DOMAIN D \cup {key} /\ key \notin DOMAIN D
  /\ E[key] = c /\ \A k \in DOMAIN D : E[k] = D[k]

\* What an entry inserted into the tree over D (none: the empty one) knows of its siblings.
LEMMA InsertedSiblings ==
  ASSUME NEW S, NEW C, NEW p \in Nat, Trees(S, C, p), NEW base, NEW D, DOMAIN D \subseteq Keys,
         base = None => DOMAIN D = {},
         base # None => base \in 0 .. p - 1 /\ D = C[base],
         NEW key \in Keys, key \notin DOMAIN D, NEW c,
         NEW read, \A q \in 0 .. p - 1 : read[q] = S[q],
         NEW e, e = insert_internal(read, base, key, c)
  PROVE  /\ e.index = key /\ e.commitment = c /\ Listed(e.copath) /\ Len(e.copath) <= Height
         /\ \A x \in 0 .. Height - 1 : Sibling(S, C, D, p, at(e, x), x + 1, turned(key, x))
<1>h. Height \in Nat
  BY HeightAssumption
<1>0. e.index = key /\ e.commitment = c
  BY DEF insert_internal
<1>1. ASSUME NEW x \in 0 .. Height - 1, at(e, x) = [hash |-> Zero, ptr |-> None], Empty(D, x + 1, turned(key, x))
      PROVE  Sibling(S, C, D, p, at(e, x), x + 1, turned(key, x))
  <2>1. x + 1 \in 0 .. Height /\ turned(key, x) \in Keys
    BY <1>h, TurnedKey
  <2>2. Merkle(D)[<<x + 1, turned(key, x)>>] = Zero
    BY <1>1, <2>1, MerkleNode
  <2> QED
    BY <1>1, <2>2 DEF Sibling
<1>2. CASE base = None
  <2>1. e.copath = <<>>
    BY <1>2 DEF insert_internal
  <2>2. Len(e.copath) = 0 /\ Listed(e.copath)
    BY <2>1 DEF Listed
  <2>3. \A x \in 0 .. Height - 1 : at(e, x) = [hash |-> Zero, ptr |-> None] /\ Empty(D, x + 1, turned(key, x))
    BY <1>2, <2>2 DEF at, Empty
  <2> QED
    BY <1>0, <1>1, <1>h, <2>2, <2>3
<1>3. CASE base # None
  <2>1. PICK w : w = Walk(read, key, base)
    OBVIOUS
  <2>2. Way(S, C, D, p, key, w) /\ w.kind # "continue"
    BY <1>3, <2>1, WalkEnds
  <2>3. w.kind = "failed"
    BY <2>2 DEF Way
  <2>4. e.copath = w.copath
    BY <1>3, <2>1 DEF insert_internal
  <2>5. PICK n \in 0 .. Height : n = Len(w.copath) /\ Empty(D, n, key)
    BY <2>2, <2>3 DEF Way
  <2>6. ASSUME NEW x \in 0 .. Height - 1 PROVE Sibling(S, C, D, p, at(e, x), x + 1, turned(key, x))
    <3>1. CASE x < n
      <4>1. at(e, x) = w.copath[x + 1]
        BY <2>4, <2>5, <3>1 DEF at
      <4> QED
        BY <2>2, <2>5, <3>1, <4>1 DEF Way
    <3>2. CASE ~(x < n)
      <4>1. at(e, x) = [hash |-> Zero, ptr |-> None]
        BY <2>4, <2>5, <3>2 DEF at
      <4>2. \A y \in 1 .. n : y \in 1 .. Height /\ y # x + 1 /\ y \in 1 .. x + 1
        BY <1>h, <3>2
      <4>3. \A y \in 1 .. n : turned(key, x)[y] = key[y]
        BY <4>2, TurnedKey
      <4>4. \A i \in Keys : Agree(i, turned(key, x), x + 1) => Agree(i, key, n)
        BY <4>2, <4>3 DEF Agree
      <4>5. Empty(D, x + 1, turned(key, x))
        BY <2>5, <4>4 DEF Empty
      <4> QED
        BY <1>1, <4>1, <4>5
    <3> QED
      BY <3>1, <3>2
  <2>7. Listed(e.copath) /\ Len(e.copath) <= Height
    BY <2>2, <2>4 DEF Way
  <2> QED
    BY <1>0, <2>6, <2>7
<1> QED
  BY <1>2, <1>3

\* Trees depends only on the entries and maps below n.
LEMMA TreesUnchanged ==
  ASSUME NEW S, NEW C, NEW S2, NEW C2, NEW n \in Nat, Trees(S, C, n),
         \A q \in 0 .. n - 1 : S2[q] = S[q] /\ C2[q] = C[q]
  PROVE  Trees(S2, C2, n)
<1> SUFFICES ASSUME NEW q \in 0 .. n - 1 PROVE Entry(S2, C2, q)
  BY DEF Trees
<1>1. Entry(S, C, q) /\ S2[q] = S[q] /\ C2[q] = C[q]
  BY DEF Trees
<1>2. \A i \in 0 .. q - 1 : S2[i] = S[i] /\ C2[i] = C[i]
  OBVIOUS
<1>3. ASSUME NEW D, NEW s, NEW l, NEW k, Sibling(S, C, D, q, s, l, k) PROVE Sibling(S2, C2, D, q, s, l, k)
  BY <1>2, <1>3 DEF Sibling
<1> QED
  BY <1>1, <1>3 DEF Entry

\* At p a key is inserted into the tree over D, to make the tree over C2[p].
Insertion(S, C, p, base, D, key, c, read, S2, C2) ==
  /\ DOMAIN D \subseteq Keys
  /\ base = None => DOMAIN D = {}
  /\ base # None => base \in 0 .. p - 1 /\ D = C[base]
  /\ \A q \in 0 .. p - 1 : read[q] = S[q]
  /\ \A q \in 0 .. p - 1 : S2[q] = S[q] /\ C2[q] = C[q]
  /\ S2[p] = insert_internal(read, base, key, c)
  /\ OneMore(C2[p], D, key, c)

\* An insertion adds a tree with one key more than the tree it was made into.
LEMMA InsertedTree ==
  ASSUME NEW S, NEW C, NEW p \in Nat, Trees(S, C, p), NEW base, NEW D, NEW key \in Keys, NEW c,
         NEW read, NEW S2, NEW C2, Insertion(S, C, p, base, D, key, c, read, S2, C2)
  PROVE  Trees(S2, C2, p + 1)
<1> USE DEF Insertion
<1>h. Height \in Nat
  BY HeightAssumption
<1> DEFINE e == S2[p]
           E == C2[p]
<1>1. /\ key \notin DOMAIN D /\ DOMAIN E = DOMAIN D \cup {key} /\ E[key] = c
      /\ \A k \in DOMAIN D : E[k] = D[k]
  BY DEF OneMore
<1>2. Trees(S2, C2, p)
  BY TreesUnchanged
<1>3. /\ e.index = key /\ e.commitment = c /\ Listed(e.copath) /\ Len(e.copath) <= Height
      /\ \A x \in 0 .. Height - 1 : Sibling(S, C, D, p, at(e, x), x + 1, turned(key, x))
  BY <1>1, InsertedSiblings
<1>4. DOMAIN E \subseteq Keys
  BY <1>1
<1> HIDE DEF e, E
<1>5. ASSUME NEW x \in 0 .. Height - 1 PROVE Sibling(S2, C2, E, p, at(e, x), x + 1, turned(key, x))
  <2>1. x + 1 \in 0 .. Height /\ turned(key, x) \in Keys /\ p \in 0 .. p
    BY <1>h, TurnedKey
  <2>2. ~Agree(key, turned(key, x), x + 1)
    <3>1. Agree(key, key, x)
      BY DEF Agree
    <3> QED
      BY <3>1, Sides
  <2>3. Same(D, E, x + 1, turned(key, x)) /\ Agree(turned(key, x), turned(key, x), x + 1)
    BY <1>1, <2>2 DEF Same, Agree
  <2>4. Sibling(S, C, D, p, at(e, x), x + 1, turned(key, x))
    BY <1>3
  <2>5. Sibling(S, C, E, p, at(e, x), x + 1, turned(key, x))
    BY <1>4, <2>1, <2>3, <2>4, SiblingMoved
  <2> QED
    BY <2>5 DEF Sibling
<1>6. Entry(S2, C2, p)
  BY <1>1, <1>3, <1>4, <1>5 DEF Entry, e, E
<1> QED
  BY <1>2, <1>6 DEF Trees

-----------------------------------------------------------------------------
\* One step of the loop of batch_insert, with f for the steps before.
Inserted(base, batch, i, f) ==
  IF i = 0 THEN <<>>
  ELSE Over([p \in {next + i - 1} |->
               insert_internal(Over(f[i - 1], Readable), Onto(base, next + i - 1, next),
                               batch[i].key, batch[i].commitment)],
            f[i - 1])

\* The new entries of a batch are the last of a series of steps.
LEMMA BatchDefined ==
  ASSUME NEW base, NEW batch, Len(batch) \in Nat
  PROVE  \E f : /\ \A i \in 0 .. Len(batch) : f[i] = Inserted(base, batch, i, f)
                /\ batch_insert(base, batch) = f[Len(batch)]
<1> DEFINE L == Len(batch)
           Step(i, f) == Inserted(base, batch, i, f)
           Upto(f, n) == \A i \in 0 .. L : i <= n => f[i] = Step(i, f)
           Missing == {n \in Nat : ~\E f : Upto(f, n)}
<1>h. L \in Nat
  OBVIOUS
<1>s. ASSUME NEW f, NEW g, NEW i \in 0 .. L, i # 0 => f[i - 1] = g[i - 1]
      PROVE  Step(i, f) = Step(i, g)
  <2>1. CASE i = 0
    BY <2>1 DEF Inserted
  <2>2. CASE i # 0
    <3>1. f[i - 1] = g[i - 1]
      BY <1>s, <2>2
    <3> QED
      BY <3>1, Zenon DEF Inserted
  <2> QED
    BY <2>1, <2>2
<1> HIDE DEF Step, L
<1>1. ASSUME NEW n \in Nat, NEW f, n = 0 \/ Upto(f, n - 1) PROVE \E g : Upto(g, n)
  <2>1. PICK g : g = [i \in 0 .. L |-> IF i = n THEN Step(i, f) ELSE f[i]]
    OBVIOUS
  <2>2. \A i \in 0 .. L : g[i] = IF i = n THEN Step(i, f) ELSE f[i]
    BY <2>1
  <2>3. ASSUME NEW i \in 0 .. L, i <= n PROVE g[i] = Step(i, g)
    <3>1. i # 0 => f[i - 1] = g[i - 1]
      BY <1>h, <2>2, <2>3
    <3>2. Step(i, f) = Step(i, g)
      BY <1>s, <3>1
    <3>3. CASE i = n
      BY <2>2, <3>2, <3>3
    <3>4. CASE i # n
      <4>1. n # 0 /\ i <= n - 1
        BY <1>h, <2>3, <3>4
      <4>2. f[i] = Step(i, f)
        BY <1>1, <4>1
      <4> QED
        BY <2>2, <3>2, <3>4, <4>2
    <3> QED
      BY <3>3, <3>4
  <2> QED
    BY <2>3
<1> HIDE DEF Upto
<1>2. ASSUME Missing # {} PROVE FALSE
  <2>1. PICK n \in Missing : \A i \in Nat : i < n => i \notin Missing
    <3>1. Missing \in SUBSET Nat
      OBVIOUS
    <3> HIDE DEF Missing
    <3> QED
      BY <1>2, <3>1, Math!LeastElement
  <2>2. n \in Nat /\ ~\E f : Upto(f, n)
    OBVIOUS
  <2>3. n # 0 => n - 1 \in Nat /\ n - 1 < n
    BY <2>2
  <2>4. n # 0 => \E f : Upto(f, n - 1)
    BY <2>1, <2>3
  <2>5. \E f : n = 0 \/ Upto(f, n - 1)
    BY <2>4
  <2> QED
    BY <1>1, <2>2, <2>5
<1>3. PICK f : Upto(f, L)
  BY <1>2, <1>h
<1>4. PICK h : h = [i \in 0 .. L |-> f[i]]
  OBVIOUS
<1>5. ASSUME NEW i \in 0 .. L PROVE h[i] = Step(i, h)
  <2>1. f[i] = Step(i, f)
    BY <1>3, <1>h DEF Upto
  <2>2. i # 0 => f[i - 1] = h[i - 1]
    BY <1>4, <1>h
  <2>3. Step(i, f) = Step(i, h)
    BY <1>s, <2>2
  <2> QED
    BY <1>4, <2>1, <2>3
<1>6. h = [i \in 0 .. L |-> Step(i, h)]
  BY <1>4, <1>5
<1> DEFINE d == CHOOSE g : g = [i \in 0 .. L |-> Step(i, g)]
<1>7. d = [i \in 0 .. L |-> Step(i, d)]
  BY <1>6, Zenon
<1>8. batch_insert(base, batch) = d[L]
  BY Zenon DEF batch_insert, Inserted, Step, L
<1> HIDE DEF d
<1>9. \A i \in 0 .. L : d[i] = Step(i, d)
  BY <1>7, Zenon
<1> QED
  BY <1>8, <1>9, Zenon DEF Step, L

\* Keys of a batch: none twice, none in the base tree.
BatchKeys(batch, D) ==
  /\ Len(batch) \in Nat
  /\ \A i \in 1 .. Len(batch) : batch[i].key \in Keys \ DOMAIN D
  /\ \A i, j \in 1 .. Len(batch) : batch[i].key = batch[j].key => i = j

\* The first n keys of a batch.
KeysOf(batch, n) == {batch[x].key : x \in 1 .. n}

\* The map A is D with the first n keys of a batch.
WithKeys(A, D, batch, n) ==
  /\ DOMAIN A = DOMAIN D \cup KeysOf(batch, n)
  /\ \A x \in 1 .. n : A[batch[x].key] = batch[x].commitment
  /\ \A k \in DOMAIN D : A[k] = D[k]

LEMMA AddedIs ==
  ASSUME NEW batch, NEW D, BatchKeys(batch, D), NEW n \in 0 .. Len(batch)
  PROVE  WithKeys(Added(D, batch, n), D, batch, n)
<1> DEFINE N == {batch[x].key : x \in 1 .. n}
           G == [k \in N |-> batch[CHOOSE x \in 1 .. n : batch[x].key = k].commitment]
<1>0. Len(batch) \in Nat
  BY DEF BatchKeys
<1>1. Added(D, batch, n) = Over(G, D)
  BY Zenon DEF Added
<1>2. DOMAIN G = N
  OBVIOUS
<1>3. ASSUME NEW x \in 1 .. n PROVE G[batch[x].key] = batch[x].commitment
  <2>1. \A y \in 1 .. n : batch[y].key = batch[x].key => y = x
    BY <1>0 DEF BatchKeys
  <2>2. (CHOOSE y \in 1 .. n : batch[y].key = batch[x].key) = x
    BY <2>1
  <2>3. batch[x].key \in N
    OBVIOUS
  <2> QED
    BY <2>2, <2>3
<1>4. \A k \in DOMAIN D : k \notin N
  BY <1>0 DEF BatchKeys
<1>5. \A x \in 1 .. n : batch[x].key \in N
  OBVIOUS
<1>6. \A x \in 1 .. n : batch[x].key \in DOMAIN G
  BY <1>2, <1>5
<1>7. \A k \in DOMAIN D : k \in DOMAIN D \ DOMAIN G
  BY <1>2, <1>4
<1> HIDE DEF G, N
<1>8. DOMAIN Over(G, D) = DOMAIN D \cup N
  BY <1>2 DEF Over
<1>9. \A x \in 1 .. n : Over(G, D)[batch[x].key] = batch[x].commitment
  BY <1>3, <1>6 DEF Over
<1>10. \A k \in DOMAIN D : Over(G, D)[k] = D[k]
  BY <1>7 DEF Over
<1> QED
  BY <1>1, <1>8, <1>9, <1>10 DEF N, KeysOf, WithKeys

\* Each key of the batch is one more in the map.
LEMMA AddedIsOneMore ==
  ASSUME NEW batch, NEW D, BatchKeys(batch, D), NEW i \in 1 .. Len(batch)
  PROVE  OneMore(Added(D, batch, i), IF i = 1 THEN D ELSE Added(D, batch, i - 1),
                 batch[i].key, batch[i].commitment)
<1> DEFINE N(n) == KeysOf(batch, n)
<1>1. PICK L \in Nat : L = Len(batch)
  BY DEF BatchKeys
<1>2. ASSUME NEW n \in 0 .. L PROVE WithKeys(Added(D, batch, n), D, batch, n)
  <2>1. n \in 0 .. Len(batch)
    BY <1>1
  <2> QED
    BY <2>1, AddedIs
<1>3. i \in 0 .. L /\ i - 1 \in 0 .. L /\ i \in 1 .. L
  BY <1>1
<1>4. \A k : k \in N(i) <=> k \in N(i - 1) \/ k = batch[i].key
  BY <1>3 DEF KeysOf
<1>5. batch[i].key \notin N(i - 1) /\ batch[i].key \notin DOMAIN D
  BY <1>1, <1>3 DEF BatchKeys, KeysOf
<1>6. \A k \in N(i - 1) : \E x \in 1 .. i - 1 : k = batch[x].key /\ x \in 1 .. i
  BY <1>3 DEF KeysOf
<1>7. i = 1 => N(i - 1) = {}
  BY <1>3 DEF KeysOf
<1> HIDE DEF N
<1>8. PICK A : A = Added(D, batch, i)
  OBVIOUS
<1>9. PICK B : B = Added(D, batch, i - 1)
  OBVIOUS
<1>10. /\ DOMAIN A = DOMAIN D \cup N(i) /\ DOMAIN B = DOMAIN D \cup N(i - 1)
       /\ A[batch[i].key] = batch[i].commitment
       /\ \A x \in 1 .. i - 1 : A[batch[x].key] = batch[x].commitment /\ B[batch[x].key] = batch[x].commitment
       /\ \A k \in DOMAIN D : A[k] = D[k] /\ B[k] = D[k]
  <2>1. \A x \in 1 .. i - 1 : x \in 1 .. i
    BY <1>3
  <2>2. /\ DOMAIN A = DOMAIN D \cup N(i)
        /\ \A x \in 1 .. i : A[batch[x].key] = batch[x].commitment
        /\ \A k \in DOMAIN D : A[k] = D[k]
    <3>1. WithKeys(A, D, batch, i)
      BY <1>2, <1>3, <1>8
    <3> QED
      BY <3>1 DEF WithKeys, N
  <2>3. /\ DOMAIN B = DOMAIN D \cup N(i - 1)
        /\ \A x \in 1 .. i - 1 : B[batch[x].key] = batch[x].commitment
        /\ \A k \in DOMAIN D : B[k] = D[k]
    <3>1. WithKeys(B, D, batch, i - 1)
      BY <1>2, <1>3, <1>9
    <3> QED
      BY <3>1 DEF WithKeys, N
  <2>4. i \in 1 .. i
    BY <1>3
  <2> QED
    BY <2>1, <2>2, <2>3, <2>4
<1>11. OneMore(A, B, batch[i].key, batch[i].commitment)
  <2>1. DOMAIN A = DOMAIN B \cup {batch[i].key} /\ batch[i].key \notin DOMAIN B
    BY <1>4, <1>5, <1>10
  <2>2. \A k \in DOMAIN B : A[k] = B[k]
    BY <1>6, <1>10
  <2> QED
    BY <1>10, <2>1, <2>2 DEF OneMore
<1>12. CASE i = 1
  <2>1. DOMAIN A = DOMAIN D \cup {batch[i].key} /\ batch[i].key \notin DOMAIN D
    BY <1>4, <1>5, <1>7, <1>10, <1>12
  <2> QED
    BY <1>8, <1>10, <1>12, <2>1 DEF OneMore
<1>13. CASE i # 1
  BY <1>8, <1>9, <1>11, <1>13
<1> QED
  BY <1>12, <1>13

-----------------------------------------------------------------------------
\* The entries in use are stored, and the cache has no other version of them.
CacheIsTrue == /\ 0 .. next - 1 \subseteq DOMAIN store
               /\ \A p \in 0 .. next - 1 : p \in DOMAIN cache => cache[p] = store[p]

\* A read finds the stored entry, whether or not the cache has it.
LEMMA ReadsStored ==
  ASSUME CacheIsTrue
  PROVE  \A p \in 0 .. next - 1 : p \in DOMAIN Readable /\ Readable[p] = store[p]
BY DEF CacheIsTrue, Readable, Over

\* The tree a batch is inserted into, or none.
BaseTree(C, base, D) ==
  /\ DOMAIN D \subseteq Keys
  /\ base = None => DOMAIN D = {}
  /\ base # None => base \in 0 .. next - 1 /\ D = C[base]

\* The maps of the trees after a batch: those before, and one for each key of the batch.
MapsAfter(C, E, D, batch) ==
  /\ \A q \in 0 .. next - 1 : E[q] = C[q]
  /\ \A i \in 1 .. Len(batch) : E[next + i - 1] = Added(D, batch, i)

\* batch_insert adds one tree for each key, the one after the i-th insertion with i keys more.
LEMMA BatchTrees ==
  ASSUME next \in Nat, CacheIsTrue, NEW C, Trees(store, C, next), NEW base, NEW D, BaseTree(C, base, D),
         NEW batch, BatchKeys(batch, D), NEW E, MapsAfter(C, E, D, batch)
  PROVE  /\ DOMAIN batch_insert(base, batch) = next .. next + Len(batch) - 1
         /\ Trees(Over(batch_insert(base, batch), store), E, next + Len(batch))
<1> DEFINE S(g) == Over(g, store)
<1>0. PICK L \in Nat : L = Len(batch)
  BY DEF BatchKeys
<1>1. PICK f : /\ \A i \in 0 .. L : f[i] = Inserted(base, batch, i, f)
               /\ batch_insert(base, batch) = f[L]
  BY <1>0, BatchDefined
<1> DEFINE On(i) == DOMAIN f[i] = next .. next + i - 1 /\ Trees(S(f[i]), E, next + i)
           Off == {i \in Nat : i <= L /\ ~On(i)}
<1>2. On(0)
  <2>1. f[0] = <<>>
    <3>1. 0 \in 0 .. L
      OBVIOUS
    <3> QED
      BY <1>1, <3>1 DEF Inserted
  <2>2. DOMAIN f[0] = {} /\ next .. next + 0 - 1 = {}
    BY <2>1
  <2>3. \A q \in 0 .. next - 1 : S(f[0])[q] = store[q] /\ E[q] = C[q]
    BY <2>2 DEF CacheIsTrue, Over, MapsAfter
  <2>4. Trees(S(f[0]), E, next)
    <3> HIDE DEF S
    <3> QED
      BY <2>3, TreesUnchanged
  <2> QED
    BY <2>2, <2>4
<1>3. ASSUME NEW i \in Nat, i < L, On(i) PROVE On(i + 1)
  <2>1. PICK p \in Nat : p = next + i
    OBVIOUS
  <2>2. i + 1 \in 1 .. L /\ i + 1 \in 0 .. L /\ i + 1 # 0 /\ (i + 1) - 1 = i /\ next + (i + 1) - 1 = p
    BY <1>3, <2>1
  <2>3. PICK read : read = Over(f[i], Readable)
    OBVIOUS
  <2>4. PICK o : o = Onto(base, p, next)
    OBVIOUS
  <2>5. PICK b : b = batch[i + 1]
    OBVIOUS
  <2>6. PICK e : e = insert_internal(read, o, b.key, b.commitment)
    OBVIOUS
  <2>7. f[i + 1] = Over([q \in {p} |-> e], f[i])
    BY <1>1, <2>2, <2>3, <2>4, <2>5, <2>6 DEF Inserted
  <2>8. DOMAIN f[i] = next .. p - 1
    BY <1>3, <2>1
  <2>9. DOMAIN f[i + 1] = next .. p
    BY <2>1, <2>7, <2>8 DEF Over
  <2>10. f[i + 1][p] = e /\ \A q \in next .. p - 1 : f[i + 1][q] = f[i][q]
    BY <2>1, <2>7, <2>8 DEF Over
  <2>11. S(f[i + 1])[p] = e
    BY <2>1, <2>9, <2>10 DEF Over
  <2>12. ASSUME NEW q \in 0 .. p - 1 PROVE S(f[i + 1])[q] = S(f[i])[q] /\ read[q] = S(f[i])[q]
    <3>1. CASE q < next
      <4>1. q \in 0 .. next - 1 /\ q \notin DOMAIN f[i] /\ q \notin DOMAIN f[i + 1]
        BY <2>1, <2>8, <2>9, <3>1
      <4>2. q \in DOMAIN store /\ q \in DOMAIN Readable /\ Readable[q] = store[q]
        BY <4>1, ReadsStored DEF CacheIsTrue
      <4> QED
        BY <2>3, <4>1, <4>2 DEF Over
    <3>2. CASE ~(q < next)
      <4>1. q \in next .. p - 1 /\ q \in DOMAIN f[i] /\ q \in DOMAIN f[i + 1]
        BY <2>1, <2>8, <2>9, <3>2
      <4> QED
        BY <2>3, <2>10, <4>1 DEF Over
    <3> QED
      BY <3>1, <3>2
  <2>13. Trees(S(f[i]), E, p)
    BY <1>3, <2>1
  <2>14. PICK M : M = IF i = 0 THEN D ELSE Added(D, batch, i)
    OBVIOUS
  <2>15. OneMore(E[p], M, b.key, b.commitment)
    <3>1. E[p] = Added(D, batch, i + 1)
      BY <1>0, <2>2 DEF MapsAfter
    <3>2. i + 1 = 1 <=> i = 0
      OBVIOUS
    <3> QED
      BY <1>0, <2>2, <2>5, <2>14, <3>1, <3>2, AddedIsOneMore
  <2>16. b.key \in Keys
    BY <1>0, <2>2, <2>5 DEF BatchKeys
  <2>17. /\ DOMAIN M \subseteq Keys /\ (o = None => DOMAIN M = {})
         /\ o # None => o \in 0 .. p - 1 /\ M = E[o]
    <3>1. CASE i = 0
      <4>1. o = base /\ M = D /\ p = next
        BY <2>1, <2>4, <2>14, <3>1 DEF Onto
      <4> QED
        BY <4>1 DEF BaseTree, MapsAfter
    <3>2. CASE i # 0
      <4>1. o = p - 1 /\ M = Added(D, batch, i) /\ p - 1 \in 0 .. p - 1 /\ p - 1 # None
        BY <2>1, <2>4, <2>14, <3>2 DEF Onto, None
      <4>2. i \in 1 .. Len(batch) /\ next + i - 1 = p - 1
        BY <1>0, <1>3, <2>1, <3>2
      <4>3. M = E[p - 1]
        BY <4>1, <4>2 DEF MapsAfter
      <4>4. DOMAIN E[p - 1] \subseteq Keys
        <5> HIDE DEF S
        <5> QED
          BY <2>13, <4>1 DEF Trees, Entry
      <4> QED
        BY <4>1, <4>3, <4>4
    <3> QED
      BY <3>1, <3>2
  <2> HIDE DEF S
  <2>18. Trees(S(f[i + 1]), E, p + 1)
    <3>1. PICK S1 : S1 = S(f[i])
      OBVIOUS
    <3>2. PICK S2 : S2 = S(f[i + 1])
      OBVIOUS
    <3>3. \A q \in 0 .. p - 1 : S2[q] = S1[q] /\ E[q] = E[q]
      BY <2>12, <3>1, <3>2
    <3>4. \A q \in 0 .. p - 1 : read[q] = S1[q]
      BY <2>12, <3>1
    <3>5. Trees(S1, E, p) /\ S2[p] = insert_internal(read, o, b.key, b.commitment)
      BY <2>6, <2>11, <2>13, <3>1, <3>2
    <3>6. Trees(S2, E, p + 1)
      <4>1. Insertion(S1, E, p, o, M, b.key, b.commitment, read, S2, E)
        BY <2>15, <2>17, <3>3, <3>4, <3>5 DEF Insertion
      <4> QED
        BY <2>16, <3>5, <4>1, InsertedTree
    <3> QED
      BY <3>2, <3>6
  <2>19. next + (i + 1) = p + 1 /\ next + (i + 1) - 1 = p
    BY <2>1
  <2> QED
    BY <2>9, <2>18, <2>19
<1> HIDE DEF On
<1>4. ASSUME Off # {} PROVE FALSE
  <2>1. PICK i \in Off : \A n \in Nat : n < i => n \notin Off
    <3>1. Off \in SUBSET Nat
      OBVIOUS
    <3> HIDE DEF Off
    <3> QED
      BY <1>4, <3>1, Math!LeastElement
  <2>2. i \in Nat /\ i <= L /\ ~On(i)
    OBVIOUS
  <2>3. CASE i = 0
    BY <1>2, <2>2, <2>3
  <2>4. CASE i # 0
    <3>1. PICK n \in Nat : n + 1 = i /\ n < i /\ n < L
      <4>1. i - 1 \in Nat /\ (i - 1) + 1 = i /\ i - 1 < i /\ i - 1 < L
        BY <2>2, <2>4
      <4> QED
        BY <4>1
    <3>2. On(n)
      BY <2>1, <3>1
    <3> QED
      BY <1>3, <2>2, <3>1, <3>2
  <2> QED
    BY <2>3, <2>4
<1>5. On(L)
  BY <1>4
<1> QED
  BY <1>0, <1>1, <1>5 DEF On

-----------------------------------------------------------------------------
\* The map in front of a batch: what the last log entry committed.
Committed == IF content = <<>> THEN <<>> ELSE Last(content)

\* The log, by the maps C of the trees: each log entry points to an entry in use, whose tree is
\* over the content committed then, and holds that tree's root.
LogIsTrue(C) ==
  /\ Listed(log) /\ Listed(content) /\ Len(content) = Len(log)
  /\ \A i \in 1 .. Len(log) :
       /\ log[i].ptr \in 0 .. next - 1 /\ content[i] = C[log[i].ptr]
       /\ log[i].root = Merkle(content[i])[<<0, store[log[i].ptr].index>>]

Kept(C) == next \in Nat /\ Trees(store, C, next) /\ CacheIsTrue /\ LogIsTrue(C)

\* The inductive invariant: there are maps that the entries in use are the trees of.  Entries
\* left by failed batches, which later batches overwrite, stand for nothing.
Inv == \E C : Kept(C)

\* Appending to a sequence.
LEMMA Appended ==
  ASSUME NEW s, NEW e, Listed(s)
  PROVE  /\ Len(s) \in Nat /\ DOMAIN s = 1 .. Len(s) /\ (s = <<>> <=> Len(s) = 0)
         /\ Listed(Append(s, e)) /\ Len(Append(s, e)) = Len(s) + 1
         /\ Append(s, e)[Len(s) + 1] = e
         /\ \A i \in 1 .. Len(s) : Append(s, e)[i] = s[i]
<1>1. PICK n \in Nat : s = [x \in 1 .. n |-> s[x]]
  BY DEF Listed
<1>2. Len(s) = n /\ DOMAIN s = 1 .. n
  BY <1>1, ListedLen
<1>3. PICK S : S = {s[x] : x \in 1 .. n} \cup {e}
  OBVIOUS
<1>4. s \in [1 .. n -> S] /\ e \in S
  BY <1>1, <1>3
<1>5. s \in Seq(S)
  BY <1>4
<1>6. /\ Append(s, e) \in Seq(S) /\ Len(Append(s, e)) = Len(s) + 1
      /\ Append(s, e)[Len(s) + 1] = e
      /\ \A i \in 1 .. Len(s) : Append(s, e)[i] = s[i]
  BY <1>4, <1>5, AppendProperties
<1>7. Listed(Append(s, e))
  <2>1. PICK A : A = Append(s, e)
    OBVIOUS
  <2>2. A \in Seq(S)
    BY <1>6, <2>1
  <2>3. Len(A) \in Nat /\ A \in [1 .. Len(A) -> S]
    BY <2>2, LenProperties
  <2>4. A = [x \in 1 .. Len(A) |-> A[x]]
    BY <2>3
  <2>5. Listed(A)
    BY <2>3, <2>4 DEF Listed
  <2> QED
    BY <2>1, <2>5
<1>8. s = <<>> <=> Len(s) = 0
  BY <1>5
<1> QED
  BY <1>2, <1>6, <1>7, <1>8

\* A batch brings at least one key, and keys the tree before does not have.
LEMMA BatchIsNew ==
  ASSUME NEW C, Kept(C), NEW batch \in Batches
  PROVE  /\ BatchKeys(batch, Committed) /\ Len(batch) \in Nat \ {0}
         /\ BaseTree(C, Base, Committed)
<1>1. /\ Len(log) \in Nat /\ Len(content) = Len(log) /\ next \in Nat
      /\ log = <<>> <=> Len(log) = 0
      /\ content = <<>> <=> Len(content) = 0
  BY Appended DEF Kept, LogIsTrue
<1>2. Present = DOMAIN Committed
  <2>1. CASE log = <<>>
    BY <1>1, <2>1 DEF Present, Committed
  <2>2. CASE log # <<>>
    BY <1>1, <2>2 DEF Present, Committed
  <2> QED
    BY <2>1, <2>2
<1>3. BaseTree(C, Base, Committed)
  <2>1. CASE log = <<>>
    <3>1. Base = None /\ DOMAIN Committed = {}
      BY <1>1, <2>1 DEF Base, Committed
    <3> QED
      BY <3>1 DEF BaseTree
  <2>2. CASE log # <<>>
    <3>1. PICK i \in 1 .. Len(log) : i = Len(log)
      BY <1>1, <2>2
    <3>2. Base = log[i].ptr /\ Committed = content[i]
      BY <1>1, <2>2, <3>1 DEF Base, Committed, Last
    <3>3. log[i].ptr \in 0 .. next - 1 /\ content[i] = C[log[i].ptr]
      BY DEF Kept, LogIsTrue
    <3>4. DOMAIN C[log[i].ptr] \subseteq Keys
      BY <3>3 DEF Kept, Trees, Entry
    <3>5. Base # None
      BY <1>1, <3>2, <3>3 DEF None
    <3> QED
      BY <3>2, <3>3, <3>4, <3>5 DEF BaseTree
  <2> QED
    BY <2>1, <2>2
<1>4. PICK n, q :
        /\ n \in Nat \ {0} /\ q \in [1 .. n -> Keys \ Present]
        /\ \A x, y \in DOMAIN q : q[x] = q[y] => x = y
        /\ batch = [x \in DOMAIN q |-> [key |-> q[x], commitment |-> failures]]
  <2>1. MaxBatch \in Nat
    BY HeightAssumption
  <2> QED
    BY <2>1 DEF Batches
<1>5. batch = [x \in 1 .. n |-> batch[x]] /\ \A x \in 1 .. n : batch[x].key = q[x]
  BY <1>4
<1>6. Len(batch) = n
  BY <1>4, <1>5, ListedLen
<1>7. BatchKeys(batch, Committed)
  BY <1>2, <1>4, <1>5, <1>6 DEF BatchKeys
<1> QED
  BY <1>3, <1>4, <1>6, <1>7

\* A position in use after a batch is one of the batch's, or was in use before.
LEMMA InUseBefore ==
  ASSUME NEW a \in Nat, NEW n \in Nat, NEW m \in {a, a + n}, NEW p \in 0 .. m - 1, p \notin a .. a + n - 1
  PROVE  p \in 0 .. a - 1
OBVIOUS

\* Whether a batch succeeds or fails after its entries were put, the trees before it stay, and
\* the positions that come into use hold its trees, in store and cache.
LEMMA InsertKeeps ==
  ASSUME NEW C, Kept(C), NEW batch \in Batches, Insert(batch), next' \in {next, next + Len(batch)}
  PROVE  \E E : /\ \A q \in 0 .. next - 1 : E[q] = C[q] /\ store'[q] = store[q]
                /\ Trees(store', E, next') /\ CacheIsTrue'
                /\ E[next + Len(batch) - 1] = Added(Committed, batch, Len(batch))
<1> DEFINE D == Committed
           N == Len(batch)
           new == batch_insert(Base, batch)
<1>1. BatchKeys(batch, D) /\ N \in Nat \ {0} /\ BaseTree(C, Base, D) /\ next \in Nat
  BY BatchIsNew DEF Kept
<1>2. PICK E : E = [q \in Nat |-> IF q < next THEN C[q] ELSE Added(D, batch, q - next + 1)]
  OBVIOUS
<1>3. MapsAfter(C, E, D, batch)
  <2>1. ASSUME NEW i \in 1 .. N PROVE E[next + i - 1] = Added(D, batch, i)
    <3>1. next + i - 1 \in Nat /\ ~(next + i - 1 < next) /\ (next + i - 1) - next + 1 = i
      BY <1>1
    <3> QED
      BY <1>2, <3>1
  <2>2. \A q \in 0 .. next - 1 : E[q] = C[q]
    BY <1>1, <1>2
  <2> QED
    BY <2>1, <2>2 DEF MapsAfter
<1>4. DOMAIN new = next .. next + N - 1 /\ Trees(Over(new, store), E, next + N)
  BY <1>1, <1>3, BatchTrees DEF Kept
<1>5. store' = Over(new, store) /\ cache' = Over(new, cache)
  BY DEF Insert, CacheAfter
<1> HIDE DEF new
<1>6. ASSUME NEW q \in 0 .. next - 1 PROVE q \notin DOMAIN new /\ q \in DOMAIN store /\ store'[q] = store[q]
  <2>1. q \notin DOMAIN new /\ q \in DOMAIN store
    BY <1>1, <1>4 DEF Kept, CacheIsTrue
  <2> QED
    BY <1>5, <2>1 DEF Over
<1>7. Trees(store', E, next')
  <2>1. CASE next' = next
    <3>1. \A q \in 0 .. next - 1 : store'[q] = store[q] /\ E[q] = C[q]
      BY <1>3, <1>6 DEF MapsAfter
    <3> QED
      BY <1>1, <2>1, <3>1, TreesUnchanged DEF Kept
  <2>2. CASE next' = next + N
    BY <1>4, <1>5, <2>2
  <2> QED
    BY <2>1, <2>2
<1>8. CacheIsTrue'
  <2>1. ASSUME NEW p \in 0 .. next' - 1
        PROVE  p \in DOMAIN store' /\ (p \in DOMAIN cache' => cache'[p] = store'[p])
    <3>1. CASE p \in DOMAIN new
      BY <1>5, <3>1 DEF Over
    <3>2. CASE p \notin DOMAIN new
      <4>1. p \in 0 .. next - 1
        <5>1. N \in Nat
          BY <1>1
        <5>2. p \notin next .. next + N - 1
          BY <1>4, <3>2
        <5> HIDE DEF N
        <5>3. next' \in {next, next + N}
          BY DEF N
        <5> QED
          BY <1>1, <5>1, <5>2, <5>3, InUseBefore
      <4>2. p \in DOMAIN store /\ (p \in DOMAIN cache => cache[p] = store[p])
        BY <4>1 DEF Kept, CacheIsTrue
      <4> QED
        BY <1>5, <3>2, <4>2 DEF Over
    <3> QED
      BY <3>1, <3>2
  <2> QED
    BY <2>1 DEF CacheIsTrue
<1>9. E[next + N - 1] = Added(D, batch, N)
  BY <1>1, <1>3 DEF MapsAfter
<1>10. \A q \in 0 .. next - 1 : E[q] = C[q] /\ store'[q] = store[q]
  BY <1>3, <1>6 DEF MapsAfter
<1> QED
  BY <1>7, <1>8, <1>9, <1>10

-----------------------------------------------------------------------------
\* The initial state and the steps.
LEMMA InvInit == Init => Inv
<1> SUFFICES ASSUME Init PROVE \E C : Kept(C)
  BY DEF Inv
<1>1. PICK C : C = [q \in Nat |-> <<>>]
  OBVIOUS
<1>2. Trees(store, C, next) /\ CacheIsTrue /\ next \in Nat
  BY DEF Init, Trees, CacheIsTrue
<1>3. Len(log) = 0 /\ Len(content) = 0 /\ Listed(log) /\ Listed(content)
  BY DEF Init, Listed
<1>4. LogIsTrue(C)
  BY <1>3 DEF LogIsTrue
<1> QED
  BY <1>2, <1>4 DEF Kept

\* Log entries keep their trees when positions in use do.
LEMMA LogKept ==
  ASSUME NEW C, Kept(C), NEW E, \A q \in 0 .. next - 1 : E[q] = C[q] /\ store'[q] = store[q],
         next' \in Nat, next' >= next
  PROVE  \A i \in 1 .. Len(log) :
           /\ log[i].ptr \in 0 .. next' - 1 /\ content[i] = E[log[i].ptr]
           /\ log[i].root = Merkle(content[i])[<<0, store'[log[i].ptr].index>>]
<1> SUFFICES ASSUME NEW i \in 1 .. Len(log)
             PROVE  /\ log[i].ptr \in 0 .. next' - 1 /\ content[i] = E[log[i].ptr]
                    /\ log[i].root = Merkle(content[i])[<<0, store'[log[i].ptr].index>>]
  OBVIOUS
<1>1. /\ log[i].ptr \in 0 .. next - 1 /\ content[i] = C[log[i].ptr] /\ next \in Nat
      /\ log[i].root = Merkle(content[i])[<<0, store[log[i].ptr].index>>]
  BY DEF Kept, LogIsTrue
<1> QED
  BY <1>1

\* A committed batch.
LEMMA ApplyKeeps ==
  ASSUME Inv, NEW batch \in Batches, apply_batch(batch)
  PROVE  Inv'
<1>1. PICK C : Kept(C)
  BY DEF Inv
<1>2. BatchKeys(batch, Committed) /\ Len(batch) \in Nat \ {0} /\ BaseTree(C, Base, Committed)
  BY <1>1, BatchIsNew
<1>3. next \in Nat /\ next' = next + Len(batch) /\ Insert(batch)
  BY <1>1 DEF apply_batch, Kept
<1>4. PICK E : /\ \A q \in 0 .. next - 1 : E[q] = C[q] /\ store'[q] = store[q]
               /\ Trees(store', E, next') /\ CacheIsTrue'
               /\ E[next + Len(batch) - 1] = Added(Committed, batch, Len(batch))
  BY <1>1, <1>3, InsertKeeps
<1>5. PICK last : last = [ptr |-> next' - 1, root |-> rollup(store'[next' - 1], 0), audit |-> AuditRecord(batch)]
  OBVIOUS
<1>6. PICK c : c = Added(Committed, batch, Len(batch))
  OBVIOUS
<1>7. log' = Append(log, last) /\ content' = Append(content, c)
  BY <1>5, <1>6 DEF apply_batch, Committed
<1>8. PICK n \in Nat : n = Len(log) /\ n = Len(content) /\ Listed(log) /\ Listed(content)
  BY <1>1, Appended DEF Kept, LogIsTrue
<1>9. /\ Listed(log') /\ Len(log') = n + 1 /\ log'[n + 1] = last /\ \A i \in 1 .. n : log'[i] = log[i]
      /\ Listed(content') /\ Len(content') = n + 1 /\ content'[n + 1] = c
      /\ \A i \in 1 .. n : content'[i] = content[i]
  <2>1. /\ Listed(Append(log, last)) /\ Len(Append(log, last)) = n + 1 /\ Append(log, last)[n + 1] = last
        /\ \A i \in 1 .. n : Append(log, last)[i] = log[i]
    <3>1. /\ Listed(Append(log, last)) /\ Len(Append(log, last)) = Len(log) + 1 /\ Append(log, last)[Len(log) + 1] = last
          /\ \A i \in 1 .. Len(log) : Append(log, last)[i] = log[i]
      <4>1. PICK z : z = log
        OBVIOUS
      <4>2. Listed(z)
        BY <1>8, <4>1
      <4>3. /\ Listed(Append(z, last)) /\ Len(Append(z, last)) = Len(z) + 1 /\ Append(z, last)[Len(z) + 1] = last
            /\ \A i \in 1 .. Len(z) : Append(z, last)[i] = z[i]
        BY <4>2, Appended
      <4> QED
        BY <4>1, <4>3
    <3> QED
      BY <1>8, <3>1
  <2>2. /\ Listed(Append(content, c)) /\ Len(Append(content, c)) = n + 1 /\ Append(content, c)[n + 1] = c
        /\ \A i \in 1 .. n : Append(content, c)[i] = content[i]
    BY <1>8, Appended
  <2> QED
    BY <1>7, <2>1, <2>2
<1>10. last.ptr \in 0 .. next' - 1 /\ c = E[last.ptr] /\ last.root = Merkle(c)[<<0, store'[last.ptr].index>>]
  <2>1. PICK p \in 0 .. next' - 1 : p = next' - 1
    BY <1>2, <1>3
  <2>2. c = E[p] /\ last.ptr = p /\ last.root = rollup(store'[p], 0)
    BY <1>2, <1>3, <1>4, <1>5, <1>6, <2>1
  <2>3. Entry(store', E, p)
    BY <1>4 DEF Trees
  <2>4. 0 \in 0 .. Height
    BY HeightAssumption
  <2>5. rollup(store'[p], 0) = Merkle(E[p])[<<0, store'[p].index>>]
    BY <2>3, <2>4, RollupIsMerkle
  <2> QED
    BY <2>1, <2>2, <2>5
<1>11. \A i \in 1 .. n :
         /\ log[i].ptr \in 0 .. next' - 1 /\ content[i] = E[log[i].ptr]
         /\ log[i].root = Merkle(content[i])[<<0, store'[log[i].ptr].index>>]
  <2>1. next' \in Nat /\ next' >= next
    BY <1>2, <1>3
  <2>2. \A q \in 0 .. next - 1 : E[q] = C[q] /\ store'[q] = store[q]
    BY <1>4
  <2>3. \A i \in 1 .. Len(log) :
          /\ log[i].ptr \in 0 .. next' - 1 /\ content[i] = E[log[i].ptr]
          /\ log[i].root = Merkle(content[i])[<<0, store'[log[i].ptr].index>>]
    BY <1>1, <2>1, <2>2, LogKept, SMTT(30)
  <2> QED
    BY <1>8, <2>3
<1>12. LogIsTrue(E)'
  <2>1. ASSUME NEW i \in 1 .. n + 1
        PROVE  /\ log'[i].ptr \in 0 .. next' - 1 /\ content'[i] = E[log'[i].ptr]
               /\ log'[i].root = Merkle(content'[i])[<<0, store'[log'[i].ptr].index>>]
    <3>1. CASE i = n + 1
      BY <1>9, <1>10, <3>1
    <3>2. CASE i # n + 1
      <4>1. i \in 1 .. n
        BY <3>2
      <4> QED
        BY <1>9, <1>11, <4>1
    <3> QED
      BY <3>1, <3>2
  <2> QED
    BY <1>9, <2>1 DEF LogIsTrue
<1>13. Kept(E)'
  BY <1>2, <1>3, <1>4, <1>12 DEF Kept
<1> QED
  BY <1>13 DEF Inv

\* A batch that failed.
LEMMA FailKeeps ==
  ASSUME Inv, NEW batch \in Batches, BatchFails(batch)
  PROVE  Inv'
<1>1. PICK C : Kept(C)
  BY DEF Inv
<1>2. Len(batch) \in Nat \ {0}
  BY <1>1, BatchIsNew
<1>3. /\ next \in Nat /\ next' \in {next, next + Len(batch)} /\ Insert(batch)
      /\ log' = log /\ content' = content
  BY <1>1 DEF BatchFails, Kept
<1>4. PICK E : /\ \A q \in 0 .. next - 1 : E[q] = C[q] /\ store'[q] = store[q]
               /\ Trees(store', E, next') /\ CacheIsTrue'
  BY <1>1, <1>3, InsertKeeps
<1>5. next' \in Nat /\ next' >= next
  BY <1>2, <1>3
<1>6. \A i \in 1 .. Len(log) :
        /\ log[i].ptr \in 0 .. next' - 1 /\ content[i] = E[log[i].ptr]
        /\ log[i].root = Merkle(content[i])[<<0, store'[log[i].ptr].index>>]
  BY <1>1, <1>4, <1>5, LogKept
<1>7. LogIsTrue(E)'
  BY <1>1, <1>3, <1>6 DEF Kept, LogIsTrue
<1>8. Kept(E)'
  BY <1>4, <1>5, <1>7 DEF Kept
<1> QED
  BY <1>8 DEF Inv

\* A restart empties the cache, a read fills it from the store; nothing else changes.
LEMMA CacheKeeps ==
  ASSUME Inv, UNCHANGED <<store, next, log, content>>, CacheIsTrue'
  PROVE  Inv'
<1>1. PICK C : Kept(C)
  BY DEF Inv
<1>2. Kept(C)'
  BY <1>1 DEF Kept, LogIsTrue
<1> QED
  BY <1>2 DEF Inv

\* Every step keeps the invariant: apply_batch, a batch that fails, a restart and a cached read.
LEMMA InvNext == Inv /\ [Next]_vars => Inv'
<1> SUFFICES ASSUME Inv, [Next]_vars PROVE Inv'
  OBVIOUS
<1>0. CacheIsTrue
  BY DEF Inv, Kept
<1>1. CASE \E batch \in Batches : apply_batch(batch)
  BY <1>1, ApplyKeeps
<1>2. CASE \E batch \in Batches : BatchFails(batch)
  BY <1>2, FailKeeps
<1>3. CASE Restart
  <2>1. CacheIsTrue'
    BY <1>0, <1>3 DEF Restart, CacheIsTrue
  <2> QED
    BY <1>3, <2>1, CacheKeeps DEF Restart
<1>4. ASSUME NEW i \in DOMAIN log, NEW key \in Keys, get_entry(i, key) PROVE Inv'
  <2>1. PICK p : cache' = Over([q \in {p} |-> store[p]], cache)
    BY <1>4 DEF get_entry
  <2>2. UNCHANGED <<store, next, log, content>>
    BY <1>4 DEF get_entry
  <2>3. \A q \in DOMAIN cache' : cache'[q] = IF q = p THEN store[p] ELSE cache[q]
    BY <2>1 DEF Over
  <2>4. \A q \in DOMAIN cache' : q = p \/ q \in DOMAIN cache
    BY <2>1 DEF Over
  <2>5. CacheIsTrue'
    BY <1>0, <2>2, <2>3, <2>4 DEF CacheIsTrue
  <2> QED
    BY <2>2, <2>5, CacheKeeps
<1>5. CASE UNCHANGED vars
  <2>1. CacheIsTrue'
    BY <1>0, <1>5 DEF CacheIsTrue, vars
  <2> QED
    BY <1>5, <2>1, CacheKeeps DEF vars
<1> QED
  BY <1>1, <1>2, <1>3, <1>4, <1>5 DEF Next

\* The invariant holds throughout.
LEMMA Invariant == Spec => []Inv
<1>1. Init => Inv
  BY InvInit
<1>2. Inv /\ [Next]_vars => Inv'
  BY InvNext
<1> QED
  BY <1>1, <1>2, PTL DEF Spec

-----------------------------------------------------------------------------
\* Whatever batches were committed, failed or retried and whenever the process was restarted,
\* the root that apply_batch stored with a log entry is the Merkle root of exactly the keys
\* committed up to it (rollup over the inserted entries, insert_internal, get_entry).
THEOREM RootsAreContents == Spec => []RootIsContent
<1>1. Inv => RootIsContent
  <2> SUFFICES ASSUME Inv, NEW i \in DOMAIN log, NEW k \in DOMAIN content[i]
               PROVE  log[i].root = Merkle(content[i])[<<0, k>>]
    BY DEF RootIsContent
  <2>1. PICK C : Kept(C)
    BY DEF Inv
  <2>2. i \in 1 .. Len(log)
    BY <2>1, Appended DEF Kept, LogIsTrue
  <2>3. PICK p \in 0 .. next - 1 :
          p = log[i].ptr /\ content[i] = C[p] /\ log[i].root = Merkle(C[p])[<<0, store[p].index>>]
    BY <2>1, <2>2 DEF Kept, LogIsTrue
  <2>4. DOMAIN C[p] \subseteq Keys /\ store[p].index \in Keys /\ k \in Keys
    BY <2>1, <2>3 DEF Kept, Trees, Entry
  <2>5. 0 \in 0 .. Height /\ Agree(store[p].index, k, 0) /\ Same(C[p], C[p], 0, store[p].index)
    BY HeightAssumption DEF Agree, Same
  <2>6. Merkle(C[p])[<<0, store[p].index>>] = Merkle(C[p])[<<0, k>>]
    BY <2>4, <2>5, MerkleSame
  <2> QED
    BY <2>3, <2>6
<1> QED
  BY <1>1, Invariant, PTL

\* The siblings a lookup returns are those of the tree, as far as its copath goes.
LEMMA LookedUp ==
  ASSUME NEW S, NEW C, NEW D, NEW p, NEW t, NEW v, Way(S, C, D, p, t, v), NEW x \in Nat, x < Len(v.copath)
  PROVE  (IF x < Len(hashes(v.copath)) THEN hashes(v.copath)[x + 1] ELSE Zero) = Merkle(D)[<<x + 1, turned(t, x)>>]
<1>1. PICK n \in Nat : n = Len(v.copath) /\ n = Len(hashes(v.copath))
  BY HashesListed DEF Way
<1>2. x \in 0 .. n - 1 /\ x + 1 \in 1 .. n
  BY <1>1
<1>3. v.copath[x + 1].hash = Merkle(D)[<<x + 1, turned(t, x)>>]
  BY <1>1, <1>2 DEF Way, Sibling
<1>4. hashes(v.copath)[x + 1] = v.copath[x + 1].hash
  BY <1>1, <1>2, HashesListed DEF Way
<1> QED
  BY <1>1, <1>2, <1>3, <1>4

\* A walk that found its target folds to the root of the tree.
LEMMA FoundFolds ==
  ASSUME NEW S, NEW C, NEW D, DOMAIN D \subseteq Keys, NEW p, NEW t \in Keys, NEW v, Way(S, C, D, p, t, v),
         v.kind = "found"
  PROVE  Upward(t, hashes(v.copath), Leaf(t, S[v.ptr].commitment))[0] = Merkle(D)[<<0, t>>]
<1>h. Height \in Nat
  BY HeightAssumption
<1>1. PICK n \in 0 .. Height : n = Len(v.copath) /\ n = Len(hashes(v.copath))
  BY HashesListed DEF Way
<1> DEFINE h == hashes(v.copath)
           b == Leaf(t, S[v.ptr].commitment)
<1>2. t \in DOMAIN D /\ D[t] = S[v.ptr].commitment
  BY DEF Way
<1>3. \A l \in 0 .. Height : ~Empty(D, l, t)
  BY <1>2 DEF Empty, Agree
<1>4. b.level = Height /\ b.hash = Merkle(D)[<<Height, t>>]
  <2>1. Height \in 0 .. Height /\ ~Empty(D, Height, t)
    BY <1>h, <1>3
  <2>2. Merkle(D)[<<Height, t>>] = leaf_hash(t, D[t])
    BY <2>1, MerkleNode
  <2> QED
    BY <1>2, <2>2 DEF Leaf
<1>5. ASSUME NEW l \in 0 .. Height - 1
      PROVE  (IF l < Len(h) THEN h[l + 1] ELSE Zero) = Merkle(D)[<<l + 1, turned(t, l)>>]
  <2>1. CASE l < n
    <3>1. l \in Nat /\ l < Len(v.copath)
      BY <1>1, <2>1
    <3> QED
      BY <3>1, LookedUp
  <2>2. CASE ~(l < n)
    <3>1. Empty(D, l + 1, turned(t, l))
      BY <1>1, <1>h, <2>2 DEF Way
    <3>2. l + 1 \in 0 .. Height /\ turned(t, l) \in Keys
      BY <1>h, TurnedKey
    <3>3. Merkle(D)[<<l + 1, turned(t, l)>>] = Zero
      BY <3>1, <3>2, MerkleNode
    <3> QED
      BY <1>1, <2>2, <3>3
  <2> QED
    BY <2>1, <2>2
<1> HIDE DEF h, b
<1>6. OnPath(D, t, h, b)
  BY <1>3, <1>4, <1>5, <1>h DEF OnPath
<1>7. 0 \in 0 .. b.level
  BY <1>4, <1>h
<1> QED
  BY <1>6, <1>7, UpwardIsMerkle DEF h, b

\* A walk that ran into an empty subtree folds to the root of the tree, from there.
LEMMA FailedFolds ==
  ASSUME NEW S, NEW C, NEW D, DOMAIN D \subseteq Keys, NEW p, NEW t \in Keys, NEW v, Way(S, C, D, p, t, v),
         v.kind = "failed"
  PROVE  /\ t \notin DOMAIN D
         /\ Upward(t, hashes(v.copath), [level |-> Len(hashes(v.copath)), hash |-> Zero])[0] = Merkle(D)[<<0, t>>]
<1>h. Height \in Nat
  BY HeightAssumption
<1>1. PICK n \in 0 .. Height : n = Len(v.copath) /\ n = Len(hashes(v.copath))
  BY HashesListed DEF Way
<1> DEFINE h == hashes(v.copath)
           b == [level |-> Len(h), hash |-> Zero]
<1>2. n > 0 /\ Empty(D, n, t) /\ ~Empty(D, n - 1, t)
  BY <1>1 DEF Way
<1>3. t \notin DOMAIN D
  BY <1>2 DEF Empty, Agree
<1>4. b.level = n /\ b.hash = Merkle(D)[<<n, t>>]
  BY <1>1, <1>2, MerkleNode
<1>5. ASSUME NEW l \in 0 .. n - 1 PROVE ~Empty(D, l, t)
  <2>1. PICK m \in 0 .. Height : m = n - 1
    <3>1. n - 1 \in 0 .. Height
      BY <1>h, <1>2
    <3> QED
      BY <3>1
  <2>2. l \in 0 .. m /\ ~Empty(D, m, t)
    BY <1>2, <2>1
  <2>3. ASSUME Empty(D, l, t) PROVE Empty(D, m, t)
    BY <2>2, <2>3, EmptyBelow
  <2> QED
    BY <2>2, <2>3
<1>6. ASSUME NEW l \in 0 .. n - 1
      PROVE  (IF l < Len(h) THEN h[l + 1] ELSE Zero) = Merkle(D)[<<l + 1, turned(t, l)>>]
  <2>1. l \in Nat /\ l < Len(v.copath)
    BY <1>1
  <2> QED
    BY <2>1, LookedUp
<1> HIDE DEF h, b
<1>7. OnPath(D, t, h, b)
  BY <1>4, <1>5, <1>6 DEF OnPath
<1>8. 0 \in 0 .. b.level
  BY <1>4
<1> QED
  BY <1>3, <1>7, <1>8, UpwardIsMerkle DEF h, b

\* Lookups in the latest and in every earlier tree tell whether the key is in it, and the client
\* (compute_root_from_result) folds their siblings to the root stored with that log entry.
THEOREM LookupsFold == Spec => []LookupsVerify
<1>1. Inv => LookupsVerify
  <2> SUFFICES ASSUME Inv, NEW i \in DOMAIN log, NEW key \in Keys
               PROVE  LET result == search_for_proof(log[i].ptr, key)
                      IN  /\ result.type = 1 <=> key \in DOMAIN content[i]
                          /\ compute_root_from_result(key, result, result.leaf.commitment) = log[i].root
    BY DEF LookupsVerify
  <2>1. PICK C : Kept(C)
    BY DEF Inv
  <2>2. i \in 1 .. Len(log)
    BY <2>1, Appended DEF Kept, LogIsTrue
  <2>3. PICK p \in 0 .. next - 1 :
          p = log[i].ptr /\ content[i] = C[p] /\ log[i].root = Merkle(C[p])[<<0, store[p].index>>]
    BY <2>1, <2>2 DEF Kept, LogIsTrue
  <2>4. DOMAIN C[p] \subseteq Keys /\ store[p].index \in Keys
    BY <2>1, <2>3 DEF Kept, Trees, Entry
  <2>5. Merkle(C[p])[<<0, key>>] = log[i].root
    <3>1. 0 \in 0 .. Height /\ Agree(store[p].index, key, 0) /\ Same(C[p], C[p], 0, store[p].index)
      BY HeightAssumption DEF Agree, Same
    <3> QED
      BY <2>3, <2>4, <3>1, MerkleSame
  <2>6. PICK w : w = Walk(Readable, key, p)
    OBVIOUS
  <2>7. Way(store, C, C[p], next, key, w) /\ w.kind # "continue"
    <3>1. \A q \in 0 .. next - 1 : Readable[q] = store[q]
      BY <2>1, ReadsStored DEF Kept
    <3>2. next \in Nat /\ Trees(store, C, next)
      BY <2>1 DEF Kept
    <3> QED
      BY <2>6, <3>1, <3>2, WalkEnds
  <2>8. Readable[w.ptr] = store[w.ptr]
    BY <2>1, <2>7, ReadsStored DEF Kept, Way
  <2>9. PICK result : result = search_for_proof(p, key)
    OBVIOUS
  <2>10. /\ result.type = IF w.kind = "found" THEN 1 ELSE 2
         /\ result.leaf.key = store[w.ptr].index /\ result.leaf.commitment = store[w.ptr].commitment
         /\ result.elements = hashes(w.copath)
    BY <2>6, <2>8, <2>9 DEF search_for_proof
  <2>11. /\ result.type = 1 <=> key \in DOMAIN C[p]
         /\ compute_root_from_result(key, result, result.leaf.commitment) = log[i].root
    <3>1. CASE w.kind = "found"
      <4>1. result.type = 1 /\ key \in DOMAIN C[p]
        BY <2>7, <2>10, <3>1 DEF Way
      <4>2. compute_root_from_result(key, result, result.leaf.commitment)
              = Upward(key, hashes(w.copath), Leaf(key, store[w.ptr].commitment))[0]
        BY <2>10, <4>1 DEF compute_root_from_result
      <4> QED
        BY <2>4, <2>5, <2>7, <3>1, <4>1, <4>2, FoundFolds
    <3>2. CASE w.kind = "failed"
      <4>1. result.type = 2 /\ result.leaf.key # key
        BY <2>7, <2>10, <3>2 DEF Way
      <4>2. compute_root_from_result(key, result, result.leaf.commitment)
              = Upward(key, hashes(w.copath), [level |-> Len(hashes(w.copath)), hash |-> Zero])[0]
        BY <2>10, <4>1 DEF compute_root_from_result
      <4> QED
        BY <2>4, <2>5, <2>7, <3>2, <4>1, <4>2, FailedFolds
    <3> QED
      BY <2>7, <3>1, <3>2 DEF Way
  <2> QED
    BY <2>3, <2>9, <2>11
<1> QED
  BY <1>1, Invariant, PTL

-----------------------------------------------------------------------------
\* One step of resolve, with f for the level below.
Resolved(nodes, n, f) ==
  IF n \in DOMAIN nodes THEN nodes[n]
  ELSE IF n[1] = Height \/ ~has_descendant(nodes, n[1], n[2]) THEN Zero
  ELSE parent_hash(f[<<n[1] + 1, n[2]>>], f[<<n[1] + 1, turned(n[2], n[1])>>])

\* A node is resolved from the two nodes below it, if it is resolved from any.
LEMMA ResolvedBelow ==
  ASSUME NEW nodes, NEW l \in 0 .. Height, NEW k \in Keys, NEW n, n = <<l, k>>, NEW f, NEW g,
         l < Height => \A j \in Keys : f[<<l + 1, j>>] = g[<<l + 1, j>>]
  PROVE  Resolved(nodes, n, f) = Resolved(nodes, n, g)
<1>1. n[1] = l /\ n[2] = k
  OBVIOUS
<1>2. CASE l = Height
  BY <1>1, <1>2 DEF Resolved
<1>3. CASE l # Height
  <2>1. l < Height /\ l \in 0 .. Height - 1
    BY <1>3, HeightAssumption
  <2>2. f[<<l + 1, k>>] = g[<<l + 1, k>>] /\ f[<<l + 1, turned(k, l)>>] = g[<<l + 1, turned(k, l)>>]
    BY <2>1, TurnedKey
  <2> QED
    BY <1>1, <2>2, Zenon DEF Resolved
<1> QED
  BY <1>2, <1>3

\* resolve is defined level by level from the leaves.
LEMMA ResolveDefined ==
  ASSUME NEW nodes
  PROVE  \E f : \A l \in 0 .. Height, k \in Keys :
           resolve(nodes, l, k) = f[<<l, k>>] /\ f[<<l, k>>] = Resolved(nodes, <<l, k>>, f)
<1> DEFINE Nodes == (0 .. Height) \X Keys
           From(f, i) == \A l \in 0 .. Height, k \in Keys :
                           l + i >= Height => f[<<l, k>>] = Resolved(nodes, <<l, k>>, f)
           Missing == {i \in Nat : ~\E f : From(f, i)}
<1>h. Height \in Nat
  BY HeightAssumption
<1>1. ASSUME NEW i \in Nat, NEW f, i = 0 \/ From(f, i - 1) PROVE \E g : From(g, i)
  <2>1. PICK g : g = [n \in Nodes |-> IF n[1] + i = Height THEN Resolved(nodes, n, f) ELSE f[n]]
    OBVIOUS
  <2>2. ASSUME NEW l \in 0 .. Height, NEW k \in Keys
        PROVE  g[<<l, k>>] = IF l + i = Height THEN Resolved(nodes, <<l, k>>, f) ELSE f[<<l, k>>]
    <3>1. <<l, k>> \in Nodes /\ <<l, k>>[1] = l
      OBVIOUS
    <3> HIDE DEF Nodes
    <3> QED
      BY <2>1, <3>1
  <2>3. ASSUME NEW l \in 0 .. Height, NEW k \in Keys, l + i >= Height
        PROVE  g[<<l, k>>] = Resolved(nodes, <<l, k>>, g)
    <3>1. l < Height => \A j \in Keys : f[<<l + 1, j>>] = g[<<l + 1, j>>]
      BY <1>h, <2>2, <2>3
    <3>2. Resolved(nodes, <<l, k>>, f) = Resolved(nodes, <<l, k>>, g)
      BY <3>1, ResolvedBelow
    <3>3. CASE l + i = Height
      BY <2>2, <3>2, <3>3
    <3>4. CASE l + i # Height
      <4>1. i # 0 /\ l + (i - 1) >= Height
        BY <1>h, <2>3, <3>4
      <4>2. f[<<l, k>>] = Resolved(nodes, <<l, k>>, f)
        BY <1>1, <4>1
      <4> QED
        BY <2>2, <3>2, <3>4, <4>2
    <3> QED
      BY <3>3, <3>4
  <2> QED
    BY <2>3
<1> HIDE DEF From
<1>2. ASSUME Missing # {} PROVE FALSE
  <2>1. PICK i \in Missing : \A n \in Nat : n < i => n \notin Missing
    <3>1. Missing \in SUBSET Nat
      OBVIOUS
    <3> HIDE DEF Missing
    <3> QED
      BY <1>2, <3>1, Math!LeastElement
  <2>2. i \in Nat /\ ~\E f : From(f, i)
    OBVIOUS
  <2>3. i # 0 => i - 1 \in Nat /\ i - 1 < i
    BY <2>2
  <2>4. i # 0 => \E f : From(f, i - 1)
    BY <2>1, <2>3
  <2>5. \E f : i = 0 \/ From(f, i - 1)
    BY <2>4
  <2> QED
    BY <1>1, <2>2, <2>5
<1>3. PICK f : From(f, Height)
  BY <1>2, <1>h
<1>4. PICK h : h = [n \in Nodes |-> f[n]]
  OBVIOUS
<1>5. ASSUME NEW l \in 0 .. Height, NEW k \in Keys PROVE f[<<l, k>>] = Resolved(nodes, <<l, k>>, f)
  BY <1>3, <1>h DEF From
<1>6. \A l \in 0 .. Height, k \in Keys : h[<<l, k>>] = f[<<l, k>>]
  BY <1>4
<1>7. ASSUME NEW l \in 0 .. Height, NEW k \in Keys PROVE h[<<l, k>>] = Resolved(nodes, <<l, k>>, h)
  <2>1. l < Height => \A j \in Keys : f[<<l + 1, j>>] = h[<<l + 1, j>>]
    BY <1>6, <1>h
  <2>2. Resolved(nodes, <<l, k>>, f) = Resolved(nodes, <<l, k>>, h)
    BY <2>1, ResolvedBelow
  <2> QED
    BY <1>5, <1>6, <2>2
<1>8. h = [n \in Nodes |-> Resolved(nodes, n, h)]
  <2>1. \A n \in Nodes : h[n] = Resolved(nodes, n, h)
    <3> TAKE n \in Nodes
    <3>1. n[1] \in 0 .. Height /\ n[2] \in Keys /\ n = <<n[1], n[2]>>
      OBVIOUS
    <3> QED
      BY <1>7, <3>1
  <2>2. h = [n \in Nodes |-> h[n]]
    BY <1>4
  <2> HIDE DEF Nodes
  <2> QED
    BY <2>1, <2>2
<1> DEFINE d == CHOOSE g : g = [n \in Nodes |-> Resolved(nodes, n, g)]
<1>9. d = [n \in Nodes |-> Resolved(nodes, n, d)]
  BY <1>8, Zenon
<1>10. \A l, k : resolve(nodes, l, k) = d[<<l, k>>]
  BY Zenon DEF resolve, Resolved
<1> HIDE DEF d
<1>11. ASSUME NEW l \in 0 .. Height, NEW k \in Keys PROVE d[<<l, k>>] = Resolved(nodes, <<l, k>>, d)
  <2>1. <<l, k>> \in Nodes
    OBVIOUS
  <2> HIDE DEF Nodes
  <2> QED
    BY <1>9, <2>1
<1> QED
  BY <1>10, <1>11

\* resolve, in these words.
LEMMA ResolveNode ==
  ASSUME NEW nodes, NEW l \in 0 .. Height, NEW k \in Keys
  PROVE  /\ <<l, k>> \in DOMAIN nodes => resolve(nodes, l, k) = nodes[<<l, k>>]
         /\ <<l, k>> \notin DOMAIN nodes /\ (l = Height \/ ~has_descendant(nodes, l, k))
              => resolve(nodes, l, k) = Zero
         /\ <<l, k>> \notin DOMAIN nodes /\ l < Height /\ has_descendant(nodes, l, k)
              => resolve(nodes, l, k) = parent_hash(resolve(nodes, l + 1, k),
                                                    resolve(nodes, l + 1, turned(k, l)))
<1>1. PICK f : \A m \in 0 .. Height, j \in Keys :
                 resolve(nodes, m, j) = f[<<m, j>>] /\ f[<<m, j>>] = Resolved(nodes, <<m, j>>, f)
  BY ResolveDefined
<1>2. resolve(nodes, l, k) = Resolved(nodes, <<l, k>>, f) /\ <<l, k>>[1] = l /\ <<l, k>>[2] = k
  BY <1>1
<1>3. CASE l = Height
  BY <1>2, <1>3, HeightAssumption DEF Resolved
<1>4. CASE l # Height
  <2>1. l \in 0 .. Height - 1 /\ l + 1 \in 0 .. Height
    BY <1>4, HeightAssumption
  <2>2. turned(k, l) \in Keys
    BY <2>1, TurnedKey
  <2>3. /\ resolve(nodes, l + 1, k) = f[<<l + 1, k>>]
        /\ resolve(nodes, l + 1, turned(k, l)) = f[<<l + 1, turned(k, l)>>]
    BY <1>1, <2>1, <2>2
  <2> QED
    BY <1>2, <1>4, <2>3 DEF Resolved
<1> QED
  BY <1>3, <1>4

-----------------------------------------------------------------------------
\* The first bits of a key.
LEMMA MaskedIs ==
  ASSUME NEW k \in Keys, NEW n \in 0 .. Height
  PROVE  /\ masked(k, n) \in Keys /\ Agree(k, masked(k, n), n)
         /\ \A m \in 0 .. n : masked(masked(k, n), m) = masked(k, m)
<1>1. Height \in Nat /\ \A x \in 1 .. Height : k[x] \in {0, 1}
  BY HeightAssumption DEF Keys
<1>2. PICK p : p = masked(k, n)
  OBVIOUS
<1>3. p = [x \in 1 .. Height |-> IF x <= n THEN k[x] ELSE 0]
  BY <1>2 DEF masked
<1>4. p \in Keys
  BY <1>1, <1>3 DEF Keys
<1>5. Agree(k, p, n)
  <2>1. \A x \in 1 .. n : x \in 1 .. Height /\ x <= n
    BY <1>1
  <2> QED
    BY <1>3, <2>1 DEF Agree
<1>6. ASSUME NEW m \in 0 .. n PROVE masked(p, m) = masked(k, m)
  <2>1. m \in 0 .. Height /\ Agree(p, k, m)
    <3>1. Agree(p, k, n) /\ n \in Nat
      BY <1>5 DEF Agree
    <3> QED
      BY <1>1, <3>1, AgreeLess
  <2> QED
    BY <1>4, <2>1, MaskedAgree
<1> QED
  BY <1>2, <1>4, <1>5, <1>6

\* The two nodes below a node.
LEMMA NodesBelow ==
  ASSUME NEW l \in 0 .. Height - 1, NEW p \in Keys, masked(p, l) = p
  PROVE  /\ p[l + 1] = 0 /\ turned(p, l) \in Keys
         /\ masked(p, l + 1) = p /\ masked(turned(p, l), l + 1) = turned(p, l)
         /\ masked(turned(p, l), l) = p
         /\ \A k \in Keys : masked(k, l) = p => /\ masked(k, l + 1) \in {p, turned(p, l)}
                                                /\ masked(turned(k, l), l + 1) \in {p, turned(p, l)}
                                                /\ masked(turned(k, l), l + 1) # masked(k, l + 1)
<1>1. Height \in Nat /\ l \in Nat /\ l + 1 \in 1 .. Height /\ l \in 0 .. Height /\ l + 1 \in 0 .. Height
  BY HeightAssumption
<1>2. PICK q \in Keys : /\ q = turned(p, l) /\ q[l + 1] = 1 - p[l + 1]
                       /\ \A x \in 1 .. Height : x # l + 1 => q[x] = p[x]
  BY TurnedKey
<1>3. \A x \in 1 .. Height : p[x] = IF x <= l THEN p[x] ELSE 0
  <2>1. p = [x \in 1 .. Height |-> IF x <= l THEN p[x] ELSE 0]
    BY DEF masked
  <2> QED
    BY <2>1
<1>4. p[l + 1] = 0 /\ q[l + 1] = 1
  BY <1>1, <1>2, <1>3
<1>5. masked(p, l + 1) = p
  <2>1. \A x \in 1 .. Height : p[x] = IF x <= l + 1 THEN p[x] ELSE 0
    BY <1>1, <1>3
  <2>2. p = [x \in 1 .. Height |-> p[x]]
    BY DEF Keys
  <2>3. p = [x \in 1 .. Height |-> IF x <= l + 1 THEN p[x] ELSE 0]
    BY <2>1, <2>2
  <2> QED
    BY <2>3 DEF masked
<1>6. masked(q, l + 1) = q
  <2>1. \A x \in 1 .. Height : q[x] = IF x <= l + 1 THEN q[x] ELSE 0
    BY <1>1, <1>2, <1>3
  <2>2. q = [x \in 1 .. Height |-> q[x]]
    BY DEF Keys
  <2>3. q = [x \in 1 .. Height |-> IF x <= l + 1 THEN q[x] ELSE 0]
    BY <2>1, <2>2
  <2> QED
    BY <2>3 DEF masked
<1>7. masked(q, l) = p
  <2>1. \A x \in 1 .. l : x \in 1 .. Height /\ x # l + 1
    BY <1>1
  <2>2. Agree(q, p, l)
    BY <1>2, <2>1 DEF Agree
  <2> QED
    BY <1>1, <1>2, <2>2, MaskedAgree
<1>8. ASSUME NEW k \in Keys, masked(k, l) = p
      PROVE  /\ masked(k, l + 1) \in {p, q} /\ masked(turned(k, l), l + 1) \in {p, q}
             /\ masked(turned(k, l), l + 1) # masked(k, l + 1)
  <2>1. Agree(k, p, l)
    BY <1>1, <1>8, MaskedAgree
  <2>2. PICK t \in Keys : t = turned(k, l)
    BY TurnedKey
  <2>3. CASE k[l + 1] = p[l + 1]
    <3>1. Agree(k, p, l + 1) /\ Agree(t, q, l + 1) /\ ~Agree(k, q, l + 1)
      <4>1. Agree(p, k, l) /\ p[l + 1] = k[l + 1]
        BY <2>1, <2>3 DEF Agree
      <4>2. ~Agree(k, turned(p, l), l + 1)
        BY <4>1, Sides
      <4> QED
        BY <1>2, <2>1, <2>2, <2>3, <4>2, Sides
    <3>2. masked(k, l + 1) = p /\ masked(t, l + 1) = q /\ masked(k, l + 1) # q
      BY <1>1, <1>5, <1>6, <3>1, MaskedAgree
    <3> QED
      BY <2>2, <3>2
  <2>4. CASE k[l + 1] # p[l + 1]
    <3>1. Agree(t, p, l + 1) /\ Agree(k, q, l + 1) /\ ~Agree(k, p, l + 1)
      BY <1>2, <2>1, <2>2, <2>4, Sides
    <3>2. masked(k, l + 1) = q /\ masked(t, l + 1) = p /\ masked(k, l + 1) # p
      BY <1>1, <1>5, <1>6, <3>1, MaskedAgree
    <3> QED
      BY <2>2, <3>2
  <2> QED
    BY <2>3, <2>4
<1> QED
  BY <1>2, <1>4, <1>5, <1>6, <1>7, <1>8

\* One of the keys is below the node of p at level l.
Below(K, l, p) == \E k \in K : masked(k, l) = p

\* The nodes are those of the tree over M.
Sound(nodes, M) ==
  /\ \A n \in DOMAIN nodes : n = <<n[1], n[2]>>
  /\ \A l, p : <<l, p>> \in DOMAIN nodes =>
       l \in 0 .. Height /\ p \in Keys /\ masked(p, l) = p /\ nodes[<<l, p>>] = Merkle(M)[<<l, p>>]

\* Every node a key is below is known, or what is known below it is enough to compute it.
Closed(nodes, M, K) ==
  /\ \A k \in K : <<Height, k>> \in DOMAIN nodes \/ k \notin DOMAIN M
  /\ \A l \in 0 .. Height - 1, p \in Keys :
       masked(p, l) = p /\ Below(K, l, p) =>
         /\ Empty(M, l, p) => <<l, p>> \notin DOMAIN nodes /\ ~has_descendant(nodes, l, p)
         /\ \A q \in {p, turned(p, l)} :
              \/ Below(K, l + 1, q) \/ <<l + 1, q>> \in DOMAIN nodes
              \/ Empty(M, l + 1, q) /\ ~has_descendant(nodes, l + 1, q)

\* What is below a node's child is below the node.
LEMMA DescendantAbove ==
  ASSUME NEW nodes, NEW M, Sound(nodes, M), NEW K, Closed(nodes, M, K),
         NEW l \in 0 .. Height - 1, NEW p \in Keys, masked(p, l) = p, NEW q \in {p, turned(p, l)}
  PROVE  /\ <<l + 1, q>> \in DOMAIN nodes => has_descendant(nodes, l, p)
         /\ has_descendant(nodes, l + 1, q) => has_descendant(nodes, l, p)
<1>1. Height \in Nat /\ l \in Nat /\ l + 1 \in 0 .. Height /\ l \in 0 .. l + 1 /\ l + 1 > l
  BY HeightAssumption
<1>2. q \in Keys /\ masked(q, l) = p
  BY NodesBelow
<1>3. ASSUME <<l + 1, q>> \in DOMAIN nodes PROVE has_descendant(nodes, l, p)
  <2>1. <<l + 1, q>>[1] > l /\ masked(<<l + 1, q>>[2], l) = p
    BY <1>1, <1>2
  <2> QED
    BY <1>3, <2>1 DEF has_descendant
<1>4. ASSUME has_descendant(nodes, l + 1, q) PROVE has_descendant(nodes, l, p)
  <2>1. PICK n \in DOMAIN nodes : n[1] > l + 1 /\ masked(n[2], l + 1) = q
    BY <1>4 DEF has_descendant
  <2>2. n[1] \in 0 .. Height /\ n[2] \in Keys
    BY DEF Sound
  <2>3. n[1] > l
    BY <1>1, <2>1, <2>2
  <2>4. masked(n[2], l) = p
    BY <1>1, <1>2, <2>1, <2>2, MaskedIs
  <2> QED
    BY <2>3, <2>4 DEF has_descendant
<1> QED
  BY <1>3, <1>4

\* A node that is not known and has no known node below it is empty for resolve.
LEMMA ResolvesEmpty ==
  ASSUME NEW nodes, NEW l \in 0 .. Height, NEW p \in Keys,
         <<l, p>> \notin DOMAIN nodes, ~has_descendant(nodes, l, p)
  PROVE  resolve(nodes, l, p) = Zero
  BY ResolveNode

\* A node with a key below it is not empty.
LEMMA NotZero ==
  ASSUME NEW M, DOMAIN M \subseteq Keys, NEW l \in 0 .. Height, NEW p \in Keys, ~Empty(M, l, p)
  PROVE  Merkle(M)[<<l, p>>] # Zero
<1>1. \A a, b : parent_hash(a, b) # Zero /\ leaf_hash(a, b) # Zero
  BY DEF parent_hash, leaf_hash, Zero
<1>2. \A a, b, c : Combine(a, b, c) # Zero
  BY <1>1 DEF Combine
<1>3. CASE l = Height
  <2>1. Merkle(M)[<<l, p>>] = leaf_hash(p, M[p])
    BY <1>3, MerkleNode
  <2> QED
    BY <1>1, <2>1
<1>4. CASE l # Height
  <2>1. Merkle(M)[<<l, p>>] = Combine(p[l + 1], Merkle(M)[<<l + 1, p>>], Merkle(M)[<<l + 1, turned(p, l)>>])
    BY <1>4, MerkleNode
  <2> QED
    BY <1>2, <2>1
<1> QED
  BY <1>3, <1>4

\* One level of ResolveIsMerkle.
LEMMA ResolveUp ==
  ASSUME NEW M, DOMAIN M \subseteq Keys, NEW K \in SUBSET Keys, NEW nodes, Sound(nodes, M), Closed(nodes, M, K),
         NEW l \in 0 .. Height - 1, NEW p \in Keys, masked(p, l) = p, Below(K, l, p),
         \A q \in {p, turned(p, l)} : Below(K, l + 1, q) => resolve(nodes, l + 1, q) = Merkle(M)[<<l + 1, q>>]
  PROVE  resolve(nodes, l, p) = Merkle(M)[<<l, p>>]
<1>1. Height \in Nat /\ l \in 0 .. Height /\ l + 1 \in 0 .. Height /\ l < Height /\ l # Height
  BY HeightAssumption
<1>2. p[l + 1] = 0 /\ turned(p, l) \in Keys
  BY NodesBelow
<1>3. \A q \in {p, turned(p, l)} :
        \/ Below(K, l + 1, q) \/ <<l + 1, q>> \in DOMAIN nodes
        \/ <<l + 1, q>> \notin DOMAIN nodes /\ Empty(M, l + 1, q) /\ ~has_descendant(nodes, l + 1, q)
  BY DEF Closed
<1>4. CASE <<l, p>> \in DOMAIN nodes
  BY <1>1, <1>4, ResolveNode DEF Sound
<1>5. CASE <<l, p>> \notin DOMAIN nodes /\ Empty(M, l, p)
  <2>1. ~has_descendant(nodes, l, p)
    BY <1>5 DEF Closed
  <2>2. Merkle(M)[<<l, p>>] = Zero
    BY <1>1, <1>5, MerkleNode
  <2> QED
    BY <1>1, <1>5, <2>1, <2>2, ResolvesEmpty
<1>6. CASE <<l, p>> \notin DOMAIN nodes /\ ~Empty(M, l, p)
  <2>1. ASSUME NEW q \in {p, turned(p, l)}
        PROVE  /\ resolve(nodes, l + 1, q) = Merkle(M)[<<l + 1, q>>]
               /\ ~Empty(M, l + 1, q) => has_descendant(nodes, l, p)
    <3>0. q \in Keys
      BY <1>2
    <3>1. CASE Below(K, l + 1, q)
      <4>1. resolve(nodes, l + 1, q) = Merkle(M)[<<l + 1, q>>]
        BY <3>1
      <4>2. ASSUME ~Empty(M, l + 1, q) PROVE Merkle(M)[<<l + 1, q>>] # Zero
        BY <1>1, <3>0, <4>2, NotZero
      <4>3. ASSUME ~Empty(M, l + 1, q)
            PROVE  <<l + 1, q>> \in DOMAIN nodes \/ has_descendant(nodes, l + 1, q)
        BY <1>1, <3>0, <4>1, <4>2, <4>3, ResolvesEmpty
      <4> QED
        BY <4>1, <4>3, DescendantAbove
    <3>2. CASE <<l + 1, q>> \in DOMAIN nodes
      <4>1. resolve(nodes, l + 1, q) = nodes[<<l + 1, q>>]
        BY <1>1, <3>0, <3>2, ResolveNode
      <4>2. nodes[<<l + 1, q>>] = Merkle(M)[<<l + 1, q>>]
        BY <3>2 DEF Sound
      <4> QED
        BY <3>2, <4>1, <4>2, DescendantAbove
    <3>3. CASE <<l + 1, q>> \notin DOMAIN nodes /\ Empty(M, l + 1, q) /\ ~has_descendant(nodes, l + 1, q)
      <4>1. resolve(nodes, l + 1, q) = Zero
        BY <1>1, <3>0, <3>3, ResolvesEmpty
      <4>2. Merkle(M)[<<l + 1, q>>] = Zero
        BY <1>1, <3>0, <3>3, MerkleNode
      <4> QED
        BY <3>3, <4>1, <4>2
    <3> QED
      BY <1>3, <3>1, <3>2, <3>3
  <2>2. ~Empty(M, l + 1, p) \/ ~Empty(M, l + 1, turned(p, l))
    <3>1. PICK k \in DOMAIN M : Agree(k, p, l)
      BY <1>6 DEF Empty
    <3>2. k \in Keys /\ masked(k, l) = p
      BY <1>1, <3>1, MaskedAgree
    <3>3. PICK q \in {p, turned(p, l)} : masked(k, l + 1) = q /\ masked(q, l + 1) = q
      BY <3>2, NodesBelow
    <3>4. Agree(k, q, l + 1)
      BY <1>1, <1>2, <3>2, <3>3, MaskedAgree
    <3> QED
      BY <3>3, <3>4 DEF Empty
  <2>3. has_descendant(nodes, l, p)
    BY <2>1, <2>2
  <2>4. resolve(nodes, l, p) = parent_hash(resolve(nodes, l + 1, p), resolve(nodes, l + 1, turned(p, l)))
    BY <1>1, <1>6, <2>3, ResolveNode
  <2>5. Merkle(M)[<<l, p>>] = Combine(0, Merkle(M)[<<l + 1, p>>], Merkle(M)[<<l + 1, turned(p, l)>>])
    BY <1>1, <1>2, <1>6, MerkleNode
  <2> QED
    BY <2>1, <2>4, <2>5 DEF Combine
<1> QED
  BY <1>4, <1>5, <1>6

\* A node that one of the keys is below resolves to the node of the tree.
LEMMA ResolveIsMerkle ==
  ASSUME NEW M, DOMAIN M \subseteq Keys, NEW K \in SUBSET Keys, NEW nodes, Sound(nodes, M), Closed(nodes, M, K)
  PROVE  \A l \in 0 .. Height, p \in Keys :
           masked(p, l) = p /\ Below(K, l, p) => resolve(nodes, l, p) = Merkle(M)[<<l, p>>]
<1> DEFINE P(l) == \A p \in Keys :
                     masked(p, l) = p /\ Below(K, l, p) => resolve(nodes, l, p) = Merkle(M)[<<l, p>>]
           Wrong == {i \in Nat : i <= Height /\ ~P(Height - i)}
<1>h. Height \in Nat
  BY HeightAssumption
<1>1. P(Height)
  <2> SUFFICES ASSUME NEW p \in Keys, masked(p, Height) = p, Below(K, Height, p)
               PROVE  resolve(nodes, Height, p) = Merkle(M)[<<Height, p>>]
    OBVIOUS
  <2>1. Height \in 0 .. Height
    BY <1>h
  <2>2. p \in K
    <3>1. PICK k \in K : masked(k, Height) = p
      BY DEF Below
    <3>2. Agree(k, p, Height)
      BY <2>1, <3>1, MaskedAgree
    <3> QED
      BY <3>2, AgreeAll
  <2>3. CASE <<Height, p>> \in DOMAIN nodes
    BY <2>1, <2>3, ResolveNode DEF Sound
  <2>4. CASE <<Height, p>> \notin DOMAIN nodes
    <3>1. p \notin DOMAIN M
      BY <2>2, <2>4 DEF Closed
    <3>2. Empty(M, Height, p)
      <4>1. \A j \in DOMAIN M : Agree(j, p, Height) => j = p
        BY AgreeAll
      <4> QED
        BY <3>1, <4>1 DEF Empty
    <3>3. Merkle(M)[<<Height, p>>] = Zero
      BY <2>1, <3>2, MerkleNode
    <3> QED
      BY <2>1, <2>4, <3>3, ResolveNode
  <2> QED
    BY <2>3, <2>4
<1>2. ASSUME NEW l \in 0 .. Height - 1, P(l + 1) PROVE P(l)
  <2> SUFFICES ASSUME NEW p \in Keys, masked(p, l) = p, Below(K, l, p)
               PROVE  resolve(nodes, l, p) = Merkle(M)[<<l, p>>]
    OBVIOUS
  <2>1. ASSUME NEW q \in {p, turned(p, l)}, Below(K, l + 1, q)
        PROVE  resolve(nodes, l + 1, q) = Merkle(M)[<<l + 1, q>>]
    <3>1. q \in Keys /\ masked(q, l + 1) = q
      BY NodesBelow
    <3> QED
      BY <1>2, <2>1, <3>1
  <2> QED
    BY <2>1, ResolveUp
<1> HIDE DEF P
<1>3. ASSUME Wrong # {} PROVE FALSE
  <2>1. PICK i \in Wrong : \A n \in Nat : n < i => n \notin Wrong
    <3>1. Wrong \in SUBSET Nat
      OBVIOUS
    <3> HIDE DEF Wrong
    <3> QED
      BY <1>3, <3>1, Math!LeastElement
  <2>2. i \in Nat /\ i <= Height /\ ~P(Height - i)
    OBVIOUS
  <2>3. i # 0
    BY <1>h, <1>1, <2>2
  <2>4. PICK l \in 0 .. Height - 1 : l = Height - i /\ Height - (i - 1) = l + 1 /\ i - 1 \in Nat
    BY <1>h, <2>2, <2>3
  <2>5. P(l + 1)
    <3>1. i - 1 < i /\ i - 1 <= Height
      BY <1>h, <2>2, <2>4
    <3> QED
      BY <2>1, <2>4, <3>1
  <2> QED
    BY <1>2, <2>2, <2>4, <2>5
<1>4. \A l \in 0 .. Height : P(l)
  <2> TAKE l \in 0 .. Height
  <2>1. Height - l \in Nat /\ Height - l <= Height /\ Height - (Height - l) = l
    BY <1>h
  <2>2. Height - l \notin Wrong
    BY <1>3
  <2> QED
    BY <2>1, <2>2
<1> QED
  BY <1>4 DEF P

\* What the nodes of a partial tree have in common: they are of the tree over D, the tree has a
\* key next to each, and none of the batch is below one.
Known(nodes, D, K) ==
  /\ Sound(nodes, D)
  /\ \A l, p : <<l, p>> \in DOMAIN nodes => l > 0 /\ ~Empty(D, l - 1, p) /\ ~Below(K, l, p)

\* The siblings on the ways of the keys in A are nodes, or above keys of the batch.
Covers(nodes, D, K, A) ==
  \A k \in A, l \in 0 .. Height - 1 :
    ~Empty(D, l, k) => \/ <<l + 1, masked(turned(k, l), l + 1)>> \in DOMAIN nodes
                       \/ Below(K, l + 1, masked(turned(k, l), l + 1))

\* There are no nodes below an empty one.
LEMMA NothingBelow ==
  ASSUME NEW D, NEW K, NEW nodes, Known(nodes, D, K),
         NEW l \in 0 .. Height, NEW p \in Keys, masked(p, l) = p, Empty(D, l, p)
  PROVE  ~has_descendant(nodes, l, p)
<1> SUFFICES ASSUME NEW n \in DOMAIN nodes, n[1] > l, masked(n[2], l) = p PROVE FALSE
  BY DEF has_descendant
<1>1. PICK m, q : n = <<m, q>> /\ m = n[1] /\ q = n[2]
  BY DEF Known, Sound
<1>2. m \in 0 .. Height /\ q \in Keys /\ ~Empty(D, m - 1, q)
  BY <1>1 DEF Known, Sound
<1>3. PICK j \in DOMAIN D : Agree(j, q, m - 1)
  BY <1>2 DEF Empty
<1>4. Agree(q, p, l)
  BY <1>1, <1>2, MaskedAgree
<1>5. \A x \in 1 .. l : x \in 1 .. m - 1
  BY <1>1, <1>2, HeightAssumption
<1>6. Agree(j, p, l)
  BY <1>3, <1>4, <1>5 DEF Agree
<1> QED
  BY <1>6 DEF Empty

\* A key is its own node at the leaves.
LEMMA MaskedLeaf ==
  ASSUME NEW k \in Keys
  PROVE  masked(k, Height) = k
<1>1. \A x \in 1 .. Height : x <= Height
  BY HeightAssumption
<1>2. k = [x \in 1 .. Height |-> k[x]]
  BY DEF Keys
<1> QED
  BY <1>1, <1>2 DEF masked

\* The nodes below a node of a key: the key's own, and the one beside it.
LEMMA BelowNode ==
  ASSUME NEW D, NEW l \in 0 .. Height - 1, NEW p \in Keys, masked(p, l) = p,
         NEW k \in Keys, masked(k, l) = p, NEW q \in {p, turned(p, l)}
  PROVE  /\ q = masked(k, l + 1) \/ q = masked(turned(k, l), l + 1)
         /\ Empty(D, l, k) => Empty(D, l + 1, q)
         /\ q \in Keys /\ masked(q, l + 1) = q /\ l + 1 \in 0 .. Height /\ l \in 0 .. Height
<1>1. l \in 0 .. Height /\ l + 1 \in 0 .. Height /\ l \in 0 .. l + 1 /\ l + 1 \in Nat
  BY HeightAssumption
<1>2. q \in Keys /\ masked(q, l + 1) = q /\ masked(q, l) = p
  BY NodesBelow
<1>3. q = masked(k, l + 1) \/ q = masked(turned(k, l), l + 1)
  BY NodesBelow
<1>4. ASSUME Empty(D, l, k), NEW j \in DOMAIN D, Agree(j, q, l + 1) PROVE FALSE
  <2>1. Agree(q, k, l)
    BY <1>1, <1>2, MaskedAgree
  <2>2. Agree(j, q, l)
    BY <1>1, <1>4, AgreeLess
  <2>3. Agree(j, k, l)
    BY <2>1, <2>2 DEF Agree
  <2> QED
    BY <1>4, <2>3 DEF Empty
<1> QED
  BY <1>1, <1>2, <1>3, <1>4 DEF Empty

\* When the ways of all keys of a batch are covered, the nodes are enough to compute the old tree
\* where a key is to be added.
LEMMA OldClosed ==
  ASSUME NEW D, DOMAIN D \subseteq Keys, NEW K \in SUBSET Keys, \A k \in K : k \notin DOMAIN D,
         NEW nodes, Known(nodes, D, K), Covers(nodes, D, K, K)
  PROVE  Closed(nodes, D, K)
<1>1. ASSUME NEW l \in 0 .. Height - 1, NEW p \in Keys, masked(p, l) = p, Below(K, l, p)
      PROVE  /\ Empty(D, l, p) => <<l, p>> \notin DOMAIN nodes /\ ~has_descendant(nodes, l, p)
             /\ \A q \in {p, turned(p, l)} :
                  \/ Below(K, l + 1, q) \/ <<l + 1, q>> \in DOMAIN nodes
                  \/ Empty(D, l + 1, q) /\ ~has_descendant(nodes, l + 1, q)
  <2>1. l \in 0 .. Height
    BY HeightAssumption
  <2>2. <<l, p>> \notin DOMAIN nodes
    BY <1>1 DEF Known
  <2>3. Empty(D, l, p) => ~has_descendant(nodes, l, p)
    BY <1>1, <2>1, NothingBelow
  <2>4. PICK k \in K : masked(k, l) = p
    BY <1>1 DEF Below
  <2>5. ASSUME NEW q \in {p, turned(p, l)}
        PROVE  \/ Below(K, l + 1, q) \/ <<l + 1, q>> \in DOMAIN nodes
               \/ Empty(D, l + 1, q) /\ ~has_descendant(nodes, l + 1, q)
    <3>1. k \in Keys
      OBVIOUS
    <3>2. /\ q = masked(k, l + 1) \/ q = masked(turned(k, l), l + 1)
          /\ Empty(D, l, k) => Empty(D, l + 1, q)
          /\ q \in Keys /\ masked(q, l + 1) = q /\ l + 1 \in 0 .. Height
      BY <1>1, <2>4, <3>1, BelowNode
    <3>3. CASE q = masked(k, l + 1)
      BY <3>3 DEF Below
    <3>4. CASE q # masked(k, l + 1) /\ ~Empty(D, l, k)
      BY <3>2, <3>4 DEF Covers
    <3>5. CASE Empty(D, l, k)
      BY <3>2, <3>5, NothingBelow
    <3> QED
      BY <3>3, <3>4, <3>5
  <2> QED
    BY <2>2, <2>3, <2>5
<1> QED
  BY <1>1 DEF Closed

\* With the leaves of the batch, they are the nodes of the new tree, and enough to compute it.
LEMMA NewClosed ==
  ASSUME NEW D, DOMAIN D \subseteq Keys, NEW K \in SUBSET Keys, \A k \in K : k \notin DOMAIN D,
         NEW nodes, Known(nodes, D, K), Covers(nodes, D, K, K),
         NEW E, DOMAIN E = DOMAIN D \cup K, \A j \in DOMAIN D : E[j] = D[j],
         NEW leaves, leaves = [n \in {Height} \X K |-> leaf_hash(n[2], E[n[2]])]
  PROVE  Sound(Over(leaves, nodes), E) /\ Closed(Over(leaves, nodes), E, K)
<1>h. Height \in Nat /\ Height \in 0 .. Height /\ DOMAIN E \subseteq Keys
  BY HeightAssumption
<1>1. PICK N : N = Over(leaves, nodes)
  OBVIOUS
<1>2. \A n : n \in DOMAIN leaves <=> n \in {Height} \X K
  OBVIOUS
<1>3. /\ \A n : n \in DOMAIN N <=> n \in DOMAIN leaves \/ n \in DOMAIN nodes
      /\ \A n \in DOMAIN N : N[n] = IF n \in DOMAIN leaves THEN leaves[n] ELSE nodes[n]
  BY <1>1 DEF Over
<1>4. \A n \in DOMAIN N : n = <<n[1], n[2]>>
  BY <1>2, <1>3 DEF Known, Sound
<1>5. ASSUME NEW l, NEW p, <<l, p>> \in DOMAIN N
      PROVE  l \in 0 .. Height /\ p \in Keys /\ masked(p, l) = p /\ N[<<l, p>>] = Merkle(E)[<<l, p>>]
  <2>1. CASE <<l, p>> \in DOMAIN leaves
    <3>1. l = Height /\ p \in K /\ p \in Keys /\ p \in DOMAIN E
      BY <1>2, <2>1
    <3>2. N[<<l, p>>] = leaf_hash(p, E[p])
      BY <1>3, <2>1, <3>1
    <3>3. masked(p, l) = p
      BY <3>1, MaskedLeaf
    <3>4. ~Empty(E, Height, p)
      BY <3>1 DEF Empty, Agree
    <3>5. Merkle(E)[<<Height, p>>] = leaf_hash(p, E[p])
      BY <1>h, <3>1, <3>4, MerkleNode
    <3> QED
      BY <1>h, <3>1, <3>2, <3>3, <3>5
  <2>2. CASE <<l, p>> \notin DOMAIN leaves
    <3>1. <<l, p>> \in DOMAIN nodes /\ N[<<l, p>>] = nodes[<<l, p>>]
      BY <1>3, <1>5, <2>2
    <3>2. /\ l \in 0 .. Height /\ p \in Keys /\ masked(p, l) = p
          /\ nodes[<<l, p>>] = Merkle(D)[<<l, p>>] /\ ~Below(K, l, p)
      BY <3>1 DEF Known, Sound
    <3>3. ASSUME NEW j \in Keys, Agree(j, p, l) PROVE j \notin K
      <4>1. masked(j, l) = p
        BY <3>2, <3>3, MaskedAgree
      <4> QED
        BY <3>2, <4>1 DEF Below
    <3>4. Same(D, E, l, p) /\ Agree(p, p, l)
      BY <3>3 DEF Same, Agree
    <3>5. Merkle(D)[<<l, p>>] = Merkle(E)[<<l, p>>]
      BY <1>h, <3>2, <3>4, MerkleSame
    <3> QED
      BY <3>1, <3>2, <3>5
  <2> QED
    BY <2>1, <2>2
<1>6. \A k \in K : <<Height, k>> \in DOMAIN N
  BY <1>2, <1>3
<1>7. ASSUME NEW l \in 0 .. Height - 1, NEW p \in Keys, masked(p, l) = p, Below(K, l, p)
      PROVE  /\ ~Empty(E, l, p)
             /\ \A q \in {p, turned(p, l)} :
                  \/ Below(K, l + 1, q) \/ <<l + 1, q>> \in DOMAIN N
                  \/ Empty(E, l + 1, q) /\ ~has_descendant(N, l + 1, q)
  <2>1. l \in 0 .. Height
    BY <1>h
  <2>2. PICK k \in K : masked(k, l) = p
    BY <1>7 DEF Below
  <2>3. k \in Keys /\ k \in DOMAIN E /\ Agree(k, p, l)
    BY <1>7, <2>1, <2>2, MaskedAgree
  <2>4. ~Empty(E, l, p)
    BY <2>3 DEF Empty
  <2>5. ASSUME NEW q \in {p, turned(p, l)}, ~Below(K, l + 1, q), <<l + 1, q>> \notin DOMAIN N
        PROVE  Empty(E, l + 1, q) /\ ~has_descendant(N, l + 1, q)
    <3>0. k \in Keys /\ q \in {p, turned(p, l)}
      OBVIOUS
    <3>1. /\ q = masked(k, l + 1) \/ q = masked(turned(k, l), l + 1)
          /\ Empty(D, l, k) => Empty(D, l + 1, q)
          /\ q \in Keys /\ masked(q, l + 1) = q /\ l + 1 \in 0 .. Height
      <4>1. masked(p, l) = p /\ masked(k, l) = p
        BY <1>7, <2>2
      <4> QED
        BY <3>0, <4>1, BelowNode
    <3>2. q = masked(turned(k, l), l + 1) /\ <<l + 1, q>> \notin DOMAIN nodes
      BY <1>3, <2>5, <3>1 DEF Below
    <3>3. Empty(D, l, k)
      BY <2>5, <3>2 DEF Covers
    <3>4. Empty(D, l + 1, q) /\ ~has_descendant(nodes, l + 1, q)
      BY <3>1, <3>3, NothingBelow
    <3>5. ASSUME NEW j \in K, Agree(j, q, l + 1) PROVE FALSE
      <4>1. masked(j, l + 1) = q
        BY <3>1, <3>5, MaskedAgree
      <4> QED
        BY <2>5, <4>1 DEF Below
    <3>6. Empty(E, l + 1, q)
      BY <3>4, <3>5 DEF Empty
    <3>7. ASSUME has_descendant(N, l + 1, q) PROVE FALSE
      <4>1. PICK n \in DOMAIN N : n[1] > l + 1 /\ masked(n[2], l + 1) = q
        BY <3>7 DEF has_descendant
      <4>2. CASE n \in DOMAIN leaves
        <5>1. n[2] \in K
          BY <1>2, <4>2
        <5> QED
          BY <2>5, <4>1, <5>1 DEF Below
      <4>3. CASE n \notin DOMAIN leaves
        <5>1. n \in DOMAIN nodes
          BY <1>3, <4>3
        <5> QED
          BY <3>4, <4>1, <5>1 DEF has_descendant
      <4> QED
        BY <4>2, <4>3
    <3> QED
      BY <3>6, <3>7
  <2> QED
    BY <2>4, <2>5
<1>8. Sound(N, E)
  BY <1>4, <1>5 DEF Sound
<1>9. Closed(N, E, K)
  BY <1>6, <1>7 DEF Closed
<1> QED
  BY <1>1, <1>8, <1>9

-----------------------------------------------------------------------------
\* Nodes of two partial trees of the same tree are equal, and make a partial tree of it.
LEMMA KnownOver ==
  ASSUME NEW D, NEW K, NEW f, Known(f, D, K), NEW g, Known(g, D, K)
  PROVE  /\ Known(Over(f, g), D, K)
         /\ \A n \in DOMAIN f \cap DOMAIN g : f[n] = g[n]
         /\ DOMAIN Over(f, g) = DOMAIN f \cup DOMAIN g
<1>1. PICK h : h = Over(f, g)
  OBVIOUS
<1>2. /\ DOMAIN h = DOMAIN f \cup DOMAIN g
      /\ \A n \in DOMAIN h : h[n] = IF n \in DOMAIN f THEN f[n] ELSE g[n]
  BY <1>1 DEF Over
<1>3. Known(h, D, K)
  <2>1. \A n \in DOMAIN h : n = <<n[1], n[2]>>
    BY <1>2 DEF Known, Sound
  <2>2. ASSUME NEW l, NEW p, <<l, p>> \in DOMAIN h
        PROVE  /\ l \in 0 .. Height /\ p \in Keys /\ masked(p, l) = p /\ h[<<l, p>>] = Merkle(D)[<<l, p>>]
               /\ l > 0 /\ ~Empty(D, l - 1, p) /\ ~Below(K, l, p)
    <3>1. CASE <<l, p>> \in DOMAIN f
      BY <1>2, <2>2, <3>1 DEF Known, Sound
    <3>2. CASE <<l, p>> \notin DOMAIN f
      BY <1>2, <2>2, <3>2 DEF Known, Sound
    <3> QED
      BY <3>1, <3>2
  <2> QED
    BY <2>1, <2>2 DEF Known, Sound
<1>4. ASSUME NEW n \in DOMAIN f \cap DOMAIN g PROVE f[n] = g[n]
  <2>1. PICK l, p : n = <<l, p>>
    BY DEF Known, Sound
  <2> QED
    BY <1>4, <2>1 DEF Known, Sound
<1> QED
  BY <1>1, <1>2, <1>3, <1>4

\* What the lookup of a key that is not in D returns: the siblings on its way, down to the first
\* empty node, and a leaf of D or none.
Answers(result, D, key) ==
  /\ result.type \in {2, 3}
  /\ result.type = 2 => result.leaf.key \in DOMAIN D /\ result.leaf.commitment = D[result.leaf.key]
  /\ \A l \in DOMAIN result.elements :
       /\ l \in 1 .. Height /\ ~Empty(D, l - 1, key)
       /\ result.elements[l] = Merkle(D)[<<l, turned(key, l - 1)>>]
  /\ \A l \in 0 .. Height - 1 : ~Empty(D, l, key) => l + 1 \in DOMAIN result.elements

\* The state after the lookups of the keys in A.
Absorbed(a, D, K, A) ==
  /\ a.ok = TRUE /\ Known(a.nodes, D, K) /\ Covers(a.nodes, D, K, A)
  /\ \A c \in a.covering : \E l \in 0 .. Height, p \in Keys :
       /\ c[1] = l /\ c[2] = p /\ c[3] = Merkle(D)[<<l, p>>]
       /\ masked(p, l) = p /\ Below(K, l, p)

\* The node beside a key's own.
LEMMA Beside ==
  ASSUME NEW D, DOMAIN D \subseteq Keys, NEW key \in Keys, NEW l \in 1 .. Height, NEW p, p = beside(key, l)
  PROVE  /\ p \in Keys /\ masked(p, l) = p /\ p # masked(key, l)
         /\ Merkle(D)[<<l, p>>] = Merkle(D)[<<l, turned(key, l - 1)>>]
         /\ Empty(D, l - 1, p) <=> Empty(D, l - 1, key)
<1>1. PICK m \in 0 .. Height - 1 : m = l - 1 /\ l = m + 1
  BY HeightAssumption
<1>2. l \in 0 .. Height /\ m \in 0 .. Height /\ m \in 0 .. l
  BY <1>1, HeightAssumption
<1>3. PICK t \in Keys : t = turned(key, m)
  BY TurnedKey
<1>4. p = masked(t, l)
  BY <1>1, <1>3 DEF beside
<1>5. p \in Keys /\ Agree(t, p, l) /\ masked(p, l) = p /\ masked(p, m) = masked(t, m)
  BY <1>2, <1>4, MaskedIs
<1>6. PICK q \in Keys : q = masked(key, m) /\ masked(q, m) = q
  BY <1>2, MaskedIs
<1>7. p # masked(key, l) /\ p \in {q, turned(q, m)}
  BY <1>1, <1>3, <1>4, <1>6, NodesBelow
<1>8. masked(p, m) = q
  <2>1. masked(turned(q, m), m) = q
    BY <1>6, NodesBelow
  <2> QED
    BY <1>6, <1>7, <2>1
<1>9. Agree(p, key, m)
  BY <1>2, <1>5, <1>6, <1>8, MaskedAgree
<1>10. Merkle(D)[<<l, t>>] = Merkle(D)[<<l, p>>]
  <2>1. Same(D, D, l, t)
    BY DEF Same
  <2> QED
    BY <1>2, <1>5, <2>1, MerkleSame
<1>11. Empty(D, m, p) <=> Empty(D, m, key)
  BY <1>9 DEF Empty, Agree
<1> QED
  BY <1>1, <1>3, <1>5, <1>7, <1>10, <1>11

\* The lookup of one more key.
LEMMA AbsorbKeeps ==
  ASSUME NEW D, DOMAIN D \subseteq Keys, NEW K \in SUBSET Keys, \A k \in K : k \notin DOMAIN D,
         NEW key \in K, NEW result, Answers(result, D, key),
         NEW A, NEW a, Absorbed(a, D, K, A), NEW b, b = Absorb(K, a, key, result)
  PROVE  Absorbed(b, D, K, A \cup {key})
<1>h. Height \in Nat \ {0} /\ Height \in 0 .. Height /\ key \in Keys
  BY HeightAssumption
<1>1. PICK leafed : leafed = IF result.type = 2
                             THEN set_leaf(a.nodes, result.leaf.key, result.leaf.commitment) ELSE a.nodes
  OBVIOUS
<1>2. PICK covered : covered = {l \in DOMAIN result.elements : covers_batch_key(K, key, l, beside(key, l))}
  OBVIOUS
<1>3. PICK given : given = [n \in {<<l, beside(key, l)>> : l \in DOMAIN result.elements \ covered}
                              |-> result.elements[n[1]]]
  OBVIOUS
<1>4. /\ b.nodes = Over(given, leafed)
      /\ b.covering = a.covering \cup {<<l, beside(key, l), result.elements[l]>> : l \in covered}
      /\ b.ok = /\ a.ok /\ ~(result.type = 1 \/ (result.type = 2 /\ result.leaf.key = key))
                /\ \A n \in DOMAIN given \cap DOMAIN leafed : given[n] = leafed[n]
  BY <1>1, <1>2, <1>3 DEF Absorb
<1>5. Known(leafed, D, K) /\ DOMAIN a.nodes \subseteq DOMAIN leafed
  <2>1. CASE result.type = 2
    <3>1. PICK j \in DOMAIN D : j = result.leaf.key /\ result.leaf.commitment = D[j]
      BY <2>1 DEF Answers
    <3>2. PICK f : f = [n \in {<<Height, j>>} |-> leaf_hash(j, D[j])]
      OBVIOUS
    <3>3. leafed = Over(f, a.nodes)
      BY <1>1, <2>1, <3>1, <3>2 DEF set_leaf
    <3>4. j \in Keys /\ masked(j, Height) = j
      BY MaskedLeaf
    <3>5. ~Empty(D, Height, j) /\ ~Empty(D, Height - 1, j)
      BY DEF Empty, Agree
    <3>6. Merkle(D)[<<Height, j>>] = leaf_hash(j, D[j])
      BY <1>h, <3>4, <3>5, MerkleNode
    <3>7. ~Below(K, Height, j)
      <4>1. ASSUME NEW k \in K, masked(k, Height) = j PROVE FALSE
        <5>1. k = j
          BY <4>1, MaskedLeaf
        <5> QED
          BY <5>1
      <4> QED
        BY <4>1 DEF Below
    <3>8. Known(f, D, K)
      <4>1. \A n \in DOMAIN f : n = <<n[1], n[2]>>
        BY <3>2
      <4>2. ASSUME NEW l, NEW p, <<l, p>> \in DOMAIN f
            PROVE l = Height /\ p = j /\ f[<<l, p>>] = leaf_hash(j, D[j])
        BY <3>2, <4>2
      <4> QED
        BY <1>h, <3>4, <3>5, <3>6, <3>7, <4>1, <4>2 DEF Known, Sound
    <3>9. PICK g : g = a.nodes
      OBVIOUS
    <3>10. Known(g, D, K)
      BY <3>9 DEF Absorbed
    <3>11. Known(Over(f, g), D, K)
      BY <3>8, <3>10, KnownOver, Zenon
    <3>12. DOMAIN Over(f, g) = DOMAIN f \cup DOMAIN g
      BY DEF Over
    <3> QED
      BY <3>3, <3>9, <3>11, <3>12
  <2>2. CASE result.type # 2
    BY <1>1, <2>2 DEF Absorbed
  <2> QED
    BY <2>1, <2>2
<1>6. ASSUME NEW l \in DOMAIN result.elements
      PROVE  /\ l \in 1 .. Height /\ ~Empty(D, l - 1, beside(key, l))
             /\ beside(key, l) \in Keys /\ masked(beside(key, l), l) = beside(key, l)
             /\ result.elements[l] = Merkle(D)[<<l, beside(key, l)>>]
             /\ l \in covered <=> Below(K, l, beside(key, l))
  <2>1. /\ l \in 1 .. Height /\ ~Empty(D, l - 1, key)
        /\ result.elements[l] = Merkle(D)[<<l, turned(key, l - 1)>>]
    BY DEF Answers
  <2>2. PICK p : p = beside(key, l)
    OBVIOUS
  <2>3. /\ p \in Keys /\ masked(p, l) = p /\ p # masked(key, l)
        /\ Merkle(D)[<<l, p>>] = Merkle(D)[<<l, turned(key, l - 1)>>]
        /\ Empty(D, l - 1, p) <=> Empty(D, l - 1, key)
    BY <1>h, <2>1, <2>2, Beside
  <2>4. l \in covered <=> Below(K, l, p)
    BY <1>2, <2>2, <2>3 DEF covers_batch_key, Below
  <2> QED
    BY <2>1, <2>2, <2>3, <2>4
<1>7. Known(given, D, K)
  <2>1. \A n \in DOMAIN given : n = <<n[1], n[2]>>
    BY <1>3
  <2>2. ASSUME NEW l, NEW p, <<l, p>> \in DOMAIN given
        PROVE  /\ l \in 0 .. Height /\ p \in Keys /\ masked(p, l) = p /\ given[<<l, p>>] = Merkle(D)[<<l, p>>]
               /\ l > 0 /\ ~Empty(D, l - 1, p) /\ ~Below(K, l, p)
    <3>1. l \in DOMAIN result.elements /\ l \notin covered /\ p = beside(key, l)
      BY <1>3, <2>2
    <3>2. given[<<l, p>>] = result.elements[l]
      BY <1>3, <2>2
    <3> QED
      BY <1>6, <3>1, <3>2
  <2> QED
    BY <2>1, <2>2 DEF Known, Sound
<1>8. /\ Known(b.nodes, D, K) /\ \A n \in DOMAIN given \cap DOMAIN leafed : given[n] = leafed[n]
      /\ DOMAIN b.nodes = DOMAIN given \cup DOMAIN leafed
  BY <1>4, <1>5, <1>7, KnownOver
<1>9. b.ok = TRUE
  <2>1. result.type # 1 /\ (result.type = 2 => result.leaf.key # key)
    BY DEF Answers
  <2> QED
    BY <1>4, <1>8, <2>1 DEF Absorbed
<1>10. Covers(b.nodes, D, K, A \cup {key})
  <2> SUFFICES ASSUME NEW k \in A \cup {key}, NEW l \in 0 .. Height - 1, ~Empty(D, l, k)
               PROVE  \/ <<l + 1, masked(turned(k, l), l + 1)>> \in DOMAIN b.nodes
                      \/ Below(K, l + 1, masked(turned(k, l), l + 1))
    BY DEF Covers
  <2>1. CASE k \in A
    BY <1>5, <1>8, <2>1 DEF Absorbed, Covers
  <2>2. CASE k = key
    <3>1. l + 1 \in DOMAIN result.elements
      BY <2>2 DEF Answers
    <3>2. beside(key, l + 1) = masked(turned(k, l), l + 1)
      <4>1. (l + 1) - 1 = l
        BY <1>h
      <4> QED
        BY <2>2, <4>1 DEF beside
    <3>3. CASE l + 1 \in covered
      BY <1>6, <3>1, <3>2, <3>3
    <3>4. CASE l + 1 \notin covered
      <4>1. <<l + 1, beside(key, l + 1)>> \in DOMAIN given
        BY <1>3, <3>1, <3>4
      <4> QED
        BY <1>8, <3>2, <4>1
    <3> QED
      BY <3>3, <3>4
  <2> QED
    BY <2>1, <2>2
<1>11. ASSUME NEW c \in b.covering
       PROVE  \E l \in 0 .. Height, p \in Keys :
                /\ c[1] = l /\ c[2] = p /\ c[3] = Merkle(D)[<<l, p>>]
                /\ masked(p, l) = p /\ Below(K, l, p)
  <2>1. CASE c \in a.covering
    BY <2>1 DEF Absorbed
  <2>2. CASE c \notin a.covering
    <3>1. PICK l \in covered : c = <<l, beside(key, l), result.elements[l]>>
      BY <1>4, <2>2
    <3>2. l \in DOMAIN result.elements
      BY <1>2
    <3>3. PICK p : p = beside(key, l)
      OBVIOUS
    <3>4. /\ l \in 1 .. Height /\ p \in Keys /\ masked(p, l) = p
          /\ result.elements[l] = Merkle(D)[<<l, p>>] /\ Below(K, l, p)
      BY <1>6, <3>2, <3>3
    <3>5. l \in 0 .. Height
      BY <1>h, <3>4
    <3>6. c[1] = l /\ c[2] = p /\ c[3] = Merkle(D)[<<l, p>>]
      BY <3>1, <3>3, <3>4
    <3> QED
      BY <3>4, <3>5, <3>6
  <2> QED
    BY <2>1, <2>2
<1> QED
  BY <1>8, <1>9, <1>10, <1>11 DEF Absorbed

-----------------------------------------------------------------------------
\* One step of the auditor, with f for the steps before.
Absorbing(added, results, x, f) ==
  IF x = 0 THEN [nodes |-> <<>>, covering |-> {}, ok |-> TRUE]
  ELSE Absorb({added[y].key : y \in DOMAIN added}, f[x - 1], added[x].key, results[x])

\* What the auditor answers in the state after the last lookup.
Verdict(old_root, added, results, a) ==
  IF /\ a.ok /\ Len(results) = Len(added)
     /\ \A c \in a.covering : resolve(a.nodes, c[1], c[2]) = c[3]
     /\ root(a.nodes) = old_root
  THEN root(Over([n \in {Height} \X {added[y].key : y \in DOMAIN added} |->
                    leaf_hash(n[2], added[CHOOSE y \in DOMAIN added : added[y].key = n[2]].commitment)], a.nodes))
  ELSE Rejected

\* The auditor's steps are defined one after another.
LEMMA AbsorbedDefined ==
  ASSUME NEW added, NEW results, Len(added) \in Nat
  PROVE  \E f : /\ \A x \in 0 .. Len(added) : f[x] = Absorbing(added, results, x, f)
                /\ \A r : verify_and_transition(r, added, results) = Verdict(r, added, results, f[Len(added)])
<1> DEFINE L == Len(added)
           Step(i, f) == Absorbing(added, results, i, f)
           Upto(f, n) == \A i \in 0 .. L : i <= n => f[i] = Step(i, f)
           Missing == {n \in Nat : ~\E f : Upto(f, n)}
<1>h. L \in Nat
  OBVIOUS
<1>s. ASSUME NEW f, NEW g, NEW i \in 0 .. L, i # 0 => f[i - 1] = g[i - 1]
      PROVE  Step(i, f) = Step(i, g)
  <2>1. CASE i = 0
    BY <2>1 DEF Absorbing
  <2>2. CASE i # 0
    <3>1. f[i - 1] = g[i - 1]
      BY <1>s, <2>2
    <3> QED
      BY <3>1, Zenon DEF Absorbing
  <2> QED
    BY <2>1, <2>2
<1> HIDE DEF Step, L
<1>1. ASSUME NEW n \in Nat, NEW f, n = 0 \/ Upto(f, n - 1) PROVE \E g : Upto(g, n)
  <2>1. PICK g : g = [i \in 0 .. L |-> IF i = n THEN Step(i, f) ELSE f[i]]
    OBVIOUS
  <2>2. \A i \in 0 .. L : g[i] = IF i = n THEN Step(i, f) ELSE f[i]
    BY <2>1
  <2>3. ASSUME NEW i \in 0 .. L, i <= n PROVE g[i] = Step(i, g)
    <3>1. i # 0 => f[i - 1] = g[i - 1]
      BY <1>h, <2>2, <2>3
    <3>2. Step(i, f) = Step(i, g)
      BY <1>s, <3>1
    <3>3. CASE i = n
      BY <2>2, <3>2, <3>3
    <3>4. CASE i # n
      <4>1. n # 0 /\ i <= n - 1
        BY <1>h, <2>3, <3>4
      <4>2. f[i] = Step(i, f)
        BY <1>1, <4>1
      <4> QED
        BY <2>2, <3>2, <3>4, <4>2
    <3> QED
      BY <3>3, <3>4
  <2> QED
    BY <2>3
<1> HIDE DEF Upto
<1>2. ASSUME Missing # {} PROVE FALSE
  <2>1. PICK n \in Missing : \A i \in Nat : i < n => i \notin Missing
    <3>1. Missing \in SUBSET Nat
      OBVIOUS
    <3> HIDE DEF Missing
    <3> QED
      BY <1>2, <3>1, Math!LeastElement
  <2>2. n \in Nat /\ ~\E f : Upto(f, n)
    OBVIOUS
  <2>3. n # 0 => n - 1 \in Nat /\ n - 1 < n
    BY <2>2
  <2>4. n # 0 => \E f : Upto(f, n - 1)
    BY <2>1, <2>3
  <2>5. \E f : n = 0 \/ Upto(f, n - 1)
    BY <2>4
  <2> QED
    BY <1>1, <2>2, <2>5
<1>3. PICK f : Upto(f, L)
  BY <1>2, <1>h
<1>4. PICK h : h = [i \in 0 .. L |-> f[i]]
  OBVIOUS
<1>5. ASSUME NEW i \in 0 .. L PROVE h[i] = Step(i, h)
  <2>1. f[i] = Step(i, f)
    BY <1>3, <1>h DEF Upto
  <2>2. i # 0 => f[i - 1] = h[i - 1]
    BY <1>4, <1>h
  <2>3. Step(i, f) = Step(i, h)
    BY <1>s, <2>2
  <2> QED
    BY <1>4, <2>1, <2>3
<1>6. h = [i \in 0 .. L |-> Step(i, h)]
  <2>1. h = [i \in 0 .. L |-> h[i]]
    BY <1>4
  <2> QED
    BY <1>5, <2>1
<1> DEFINE d == CHOOSE g : g = [i \in 0 .. L |-> Step(i, g)]
<1>7. d = [i \in 0 .. L |-> Step(i, d)]
  BY <1>6, Zenon
<1>8. \A r : verify_and_transition(r, added, results) = Verdict(r, added, results, d[L])
  BY Zenon DEF verify_and_transition, Verdict, Absorbing, Step, L
<1> HIDE DEF d
<1>9. \A i \in 0 .. L : d[i] = Absorbing(added, results, i, d)
  <2>1. \A i \in 0 .. L : d[i] = Step(i, d)
    BY <1>7
  <2> QED
    BY <2>1 DEF Step
<1> QED
  BY <1>8, <1>9 DEF L

\* The top of the tree, as a node.
Top == [x \in 1 .. Height |-> 0]

\* Every key is below the top.
LEMMA TopNode ==
  /\ Top \in Keys /\ masked(Top, 0) = Top /\ \A k : masked(k, 0) = Top
  /\ \A nodes : root(nodes) = resolve(nodes, 0, Top)
<1>1. \A x \in 1 .. Height : ~(x <= 0)
  BY HeightAssumption
<1>2. \A k : masked(k, 0) = Top
  BY <1>1 DEF masked, Top
<1>3. Top \in Keys
  BY DEF Top, Keys
<1> QED
  BY <1>2, <1>3 DEF root, Top

\* What an auditor is given: keys the tree over D does not have, and the lookups of them in it.
Given(added, results, D) ==
  /\ Len(added) \in Nat \ {0} /\ DOMAIN added = 1 .. Len(added) /\ Len(results) = Len(added)
  /\ \A x \in DOMAIN added : /\ added[x].key \in Keys /\ added[x].key \notin DOMAIN D
                             /\ Answers(results[x], D, added[x].key)

\* The state after all lookups.
LEMMA AbsorbedAll ==
  ASSUME NEW D, DOMAIN D \subseteq Keys, NEW added, NEW results, Given(added, results, D),
         NEW K, K = {added[y].key : y \in DOMAIN added},
         NEW f, \A x \in 0 .. Len(added) : f[x] = Absorbing(added, results, x, f)
  PROVE  Absorbed(f[Len(added)], D, K, K)
<1> DEFINE P(n) == Absorbed(f[n], D, K, {added[y].key : y \in 1 .. n})
           Wrong == {n \in Nat : n <= Len(added) /\ ~P(n)}
<1>h. Len(added) \in Nat /\ DOMAIN added = 1 .. Len(added)
  BY DEF Given
<1>k. K \in SUBSET Keys /\ \A k \in K : k \notin DOMAIN D
  BY DEF Given
<1>1. P(0)
  <2>1. f[0] = [nodes |-> <<>>, covering |-> {}, ok |-> TRUE]
    <3>1. 0 \in 0 .. Len(added)
      BY <1>h
    <3>2. f[0] = Absorbing(added, results, 0, f)
      BY <3>1
    <3> QED
      BY <3>2, Zenon DEF Absorbing
  <2>2. DOMAIN <<>> = {} /\ {added[y].key : y \in 1 .. 0} = {}
    OBVIOUS
  <2>3. Known(<<>>, D, K) /\ Covers(<<>>, D, K, {})
    BY <2>2 DEF Known, Sound, Covers
  <2>4. PICK a : a = f[0]
    OBVIOUS
  <2>5. a.nodes = <<>> /\ a.covering = {} /\ a.ok = TRUE
    BY <2>1, <2>4
  <2>6. Absorbed(a, D, K, {})
    BY <2>3, <2>5 DEF Absorbed
  <2> QED
    BY <2>2, <2>4, <2>6
<1>2. ASSUME NEW n \in Nat, n + 1 <= Len(added), P(n) PROVE P(n + 1)
  <2>1. n + 1 \in DOMAIN added /\ n + 1 # 0 /\ (n + 1) - 1 = n /\ n + 1 \in 0 .. Len(added)
    BY <1>h, <1>2
  <2>2. f[n + 1] = Absorb(K, f[n], added[n + 1].key, results[n + 1])
    BY <2>1 DEF Absorbing
  <2>3. PICK key \in K : key = added[n + 1].key
    BY <2>1
  <2>4. Answers(results[n + 1], D, key)
    BY <2>1, <2>3 DEF Given
  <2>5. PICK A : A = {added[y].key : y \in 1 .. n}
    OBVIOUS
  <2>6. A \cup {key} = {added[y].key : y \in 1 .. n + 1}
    <3>1. \A y : y \in 1 .. n + 1 <=> y \in 1 .. n \/ y = n + 1
      OBVIOUS
    <3> QED
      BY <2>3, <2>5, <3>1
  <2>7. PICK a, b, r : a = f[n] /\ b = f[n + 1] /\ r = results[n + 1]
    OBVIOUS
  <2>8. Absorbed(a, D, K, A)
    BY <1>2, <2>5, <2>7
  <2>9. b = Absorb(K, a, key, r) /\ Answers(r, D, key)
    BY <2>2, <2>3, <2>4, <2>7
  <2>10. Absorbed(b, D, K, A \cup {key})
    BY <1>k, <2>8, <2>9, AbsorbKeeps
  <2> QED
    BY <2>6, <2>7, <2>10
<1> HIDE DEF P
<1>3. ASSUME Wrong # {} PROVE FALSE
  <2>1. PICK n \in Wrong : \A i \in Nat : i < n => i \notin Wrong
    <3>1. Wrong \in SUBSET Nat
      OBVIOUS
    <3> HIDE DEF Wrong
    <3> QED
      BY <1>3, <3>1, Math!LeastElement
  <2>2. n \in Nat /\ n <= Len(added) /\ ~P(n)
    OBVIOUS
  <2>3. n # 0
    BY <1>1, <2>2
  <2>4. PICK m \in Nat : m = n - 1 /\ m < n /\ m + 1 = n
    BY <2>2, <2>3
  <2>5. P(m)
    <3>1. m <= Len(added)
      BY <1>h, <2>2, <2>4
    <3> QED
      BY <2>1, <2>4, <3>1
  <2> QED
    BY <1>2, <2>2, <2>4, <2>5
<1>4. P(Len(added))
  <2>1. Len(added) \notin Wrong
    BY <1>3
  <2> QED
    BY <1>h, <2>1
<1> QED
  BY <1>4, <1>h DEF P

\* An audit record leads from the tree over D to the tree over E.
Audits(audit, D, E) ==
  /\ DOMAIN D \subseteq Keys /\ Given(audit.added, audit.results, D)
  /\ DOMAIN E = DOMAIN D \cup {audit.added[x].key : x \in DOMAIN audit.added}
  /\ \A j \in DOMAIN D : E[j] = D[j]
  /\ \A x \in DOMAIN audit.added : E[audit.added[x].key] = audit.added[x].commitment

\* From the root of a tree the auditor arrives at that of the tree with the keys added.
LEMMA TransitionIs ==
  ASSUME NEW audit, NEW D, NEW E, Audits(audit, D, E), NEW r, r = Merkle(D)[<<0, Top>>]
  PROVE  verify_and_transition(r, audit.added, audit.results) = Merkle(E)[<<0, Top>>]
<1> DEFINE added   == audit.added
           results == audit.results
<1>a. /\ DOMAIN D \subseteq Keys /\ Given(added, results, D)
      /\ DOMAIN E = DOMAIN D \cup {added[x].key : x \in DOMAIN added}
      /\ \A j \in DOMAIN D : E[j] = D[j]
      /\ \A x \in DOMAIN added : E[added[x].key] = added[x].commitment
  BY DEF Audits
<1> HIDE DEF added, results
<1>b. PICK K : K = {added[y].key : y \in DOMAIN added}
  OBVIOUS
<1>c. DOMAIN E = DOMAIN D \cup K
  BY <1>a, <1>b
<1>h. /\ Len(added) \in Nat \ {0} /\ DOMAIN added = 1 .. Len(added) /\ Len(results) = Len(added)
      /\ Height \in Nat /\ 0 \in 0 .. Height
  BY <1>a, HeightAssumption DEF Given
<1>k. K \in SUBSET Keys /\ \A k \in K : k \notin DOMAIN D
  BY <1>a, <1>b DEF Given
<1>e. DOMAIN E \subseteq Keys
  BY <1>a, <1>c, <1>k
<1>1. PICK f : /\ \A x \in 0 .. Len(added) : f[x] = Absorbing(added, results, x, f)
               /\ \A s : verify_and_transition(s, added, results) = Verdict(s, added, results, f[Len(added)])
  BY <1>h, AbsorbedDefined
<1>2. PICK a : a = f[Len(added)]
  OBVIOUS
<1>3. Absorbed(a, D, K, K)
  BY <1>1, <1>2, <1>a, <1>b, AbsorbedAll
<1>4. PICK nodes : nodes = a.nodes
  OBVIOUS
<1>5. Known(nodes, D, K) /\ Covers(nodes, D, K, K)
  BY <1>3, <1>4 DEF Absorbed
<1>6. Sound(nodes, D) /\ Closed(nodes, D, K)
  BY <1>a, <1>k, <1>5, OldClosed DEF Known
<1>7. \A l \in 0 .. Height, p \in Keys :
        masked(p, l) = p /\ Below(K, l, p) => resolve(nodes, l, p) = Merkle(D)[<<l, p>>]
  BY <1>a, <1>k, <1>6, ResolveIsMerkle
<1>8. Below(K, 0, Top) /\ masked(Top, 0) = Top /\ Top \in Keys
  <2>1. added[1].key \in K
    BY <1>h, <1>b
  <2> QED
    BY <2>1, TopNode DEF Below
<1>9. root(nodes) = r
  BY <1>h, <1>7, <1>8, TopNode
<1>10. \A c \in a.covering : resolve(nodes, c[1], c[2]) = c[3]
  <2> TAKE c \in a.covering
  <2>1. PICK l \in 0 .. Height, p \in Keys : /\ c[1] = l /\ c[2] = p /\ c[3] = Merkle(D)[<<l, p>>]
                                             /\ masked(p, l) = p /\ Below(K, l, p)
    BY <1>3 DEF Absorbed
  <2> QED
    BY <1>7, <2>1
<1>11. PICK leaves : leaves = [n \in {Height} \X K |-> leaf_hash(n[2], E[n[2]])]
  OBVIOUS
<1>12. [n \in {Height} \X K |-> leaf_hash(n[2], added[CHOOSE y \in DOMAIN added : added[y].key = n[2]].commitment)]
         = leaves
  <2>1. ASSUME NEW n \in {Height} \X K
        PROVE  added[CHOOSE y \in DOMAIN added : added[y].key = n[2]].commitment = E[n[2]]
    <3>1. PICK k \in K : k = n[2]
      OBVIOUS
    <3>2. PICK y : y = CHOOSE x \in DOMAIN added : added[x].key = k
      OBVIOUS
    <3>3. \E x \in DOMAIN added : added[x].key = k
      BY <3>1, <1>b
    <3>4. y \in DOMAIN added /\ added[y].key = k
      BY <3>2, <3>3
    <3> QED
      BY <1>a, <3>1, <3>2, <3>4
  <2> QED
    BY <1>11, <2>1, SMTT(30)
<1>13. Sound(Over(leaves, nodes), E) /\ Closed(Over(leaves, nodes), E, K)
  BY <1>a, <1>c, <1>k, <1>5, <1>11, NewClosed
<1>14. PICK after : after = Over(leaves, nodes)
  OBVIOUS
<1>15. Sound(after, E) /\ Closed(after, E, K)
  BY <1>13, <1>14
<1>16. root(after) = Merkle(E)[<<0, Top>>]
  <2>1. resolve(after, 0, Top) = Merkle(E)[<<0, Top>>]
    BY <1>h, <1>k, <1>e, <1>8, <1>15, ResolveIsMerkle
  <2> QED
    BY <2>1, TopNode
<1>17. verify_and_transition(r, added, results) = Verdict(r, added, results, a)
  BY <1>1, <1>2
<1>18. a.ok = TRUE
  BY <1>3 DEF Absorbed
<1>19. Verdict(r, added, results, a) = root(Over(leaves, nodes))
  BY <1>b, <1>h, <1>4, <1>9, <1>10, <1>12, <1>18 DEF Verdict
<1> QED
  BY <1>14, <1>16, <1>17, <1>19 DEF added, results

-----------------------------------------------------------------------------
\* The order of the keys is a strict total order.
LEMMA BeforeTotal ==
  ASSUME NEW k \in Keys, NEW j \in Keys, k # j
  PROVE  Before(k, j) \/ Before(j, k)
<1> DEFINE Parted == {x \in Nat : x \in 1 .. Height /\ k[x] # j[x]}
<1>h. Height \in Nat
  BY HeightAssumption
<1>1. Parted # {}
  <2>1. PICK x \in 1 .. Height : k[x] # j[x]
    BY AgreeAll DEF Agree
  <2>2. x \in Nat
    BY <1>h
  <2> QED
    BY <2>1, <2>2
<1>2. PICK d \in Parted : \A n \in Nat : n < d => n \notin Parted
  <2>1. Parted \in SUBSET Nat
    OBVIOUS
  <2> HIDE DEF Parted
  <2> QED
    BY <1>1, <2>1, Math!LeastElement
<1>3. d \in 1 .. Height /\ k[d] # j[d]
  OBVIOUS
<1>4. \A y \in 1 .. d - 1 : k[y] = j[y]
  <2> TAKE y \in 1 .. d - 1
  <2>1. y \in Nat /\ y < d /\ y \in 1 .. Height
    BY <1>h, <1>3
  <2> QED
    BY <1>2, <2>1
<1>5. k[d] \in {0, 1} /\ j[d] \in {0, 1}
  BY <1>3 DEF Keys
<1>6. k[d] < j[d] \/ j[d] < k[d]
  BY <1>3, <1>5
<1> QED
  BY <1>3, <1>4, <1>6 DEF Before

LEMMA BeforeTransitive ==
  ASSUME NEW k \in Keys, NEW j \in Keys, NEW i \in Keys, Before(k, j), Before(j, i)
  PROVE  Before(k, i)
<1>h. Height \in Nat
  BY HeightAssumption
<1>1. PICK d \in 1 .. Height : k[d] < j[d] /\ \A y \in 1 .. d - 1 : k[y] = j[y]
  BY DEF Before
<1>2. PICK e \in 1 .. Height : j[e] < i[e] /\ \A y \in 1 .. e - 1 : j[y] = i[y]
  BY DEF Before
<1>3. k[d] \in Int /\ j[d] \in Int /\ i[d] \in Int /\ k[e] \in Int /\ j[e] \in Int /\ i[e] \in Int
  BY DEF Keys
<1>4. CASE d < e
  <2>1. d \in 1 .. e - 1 /\ \A y \in 1 .. d - 1 : y \in 1 .. e - 1
    BY <1>h, <1>4
  <2>2. j[d] = i[d] /\ \A y \in 1 .. d - 1 : j[y] = i[y]
    BY <1>2, <2>1
  <2>3. k[d] < i[d] /\ \A y \in 1 .. d - 1 : k[y] = i[y]
    BY <1>1, <2>2
  <2> QED
    BY <2>3 DEF Before
<1>5. CASE e < d
  <2>1. e \in 1 .. d - 1 /\ \A y \in 1 .. e - 1 : y \in 1 .. d - 1
    BY <1>h, <1>5
  <2>2. k[e] = j[e] /\ \A y \in 1 .. e - 1 : k[y] = j[y]
    BY <1>1, <2>1
  <2>3. k[e] < i[e] /\ \A y \in 1 .. e - 1 : k[y] = i[y]
    BY <1>2, <2>2
  <2> QED
    BY <2>3 DEF Before
<1>6. CASE d = e
  <2>1. k[d] < i[d] /\ \A y \in 1 .. d - 1 : k[y] = i[y]
    BY <1>1, <1>2, <1>3, <1>6
  <2> QED
    BY <2>1 DEF Before
<1> QED
  BY <1>h, <1>4, <1>5, <1>6

\* p takes the first m elements of the batch in order.
InOrder(batch, p, m) ==
  /\ p \in [1 .. m -> 1 .. m]
  /\ \A y \in 1 .. m : \E x \in 1 .. m : p[x] = y
  /\ \A x, y \in 1 .. m : x < y => Before(batch[p[x]].key, batch[p[y]].key)

\* The element after them finds its place.
LEMMA InsertedInOrder ==
  ASSUME NEW batch, NEW n \in Nat, \A x \in 1 .. n : batch[x].key \in Keys,
         \A x, y \in 1 .. n : x # y => batch[x].key # batch[y].key,
         NEW m \in Nat, m + 1 <= n, NEW p, InOrder(batch, p, m)
  PROVE  \E q : InOrder(batch, q, m + 1)
<1> DEFINE key(x) == batch[p[x]].key
           new    == batch[m + 1].key
           After  == {c \in Nat : c <= m /\ \A y \in 1 .. m : y > c => Before(new, key(y))}
<1>1. /\ \A x \in 1 .. m : p[x] \in 1 .. m /\ p[x] \in 1 .. n /\ p[x] # m + 1
      /\ m + 1 \in 1 .. n
  BY DEF InOrder
<1>2. /\ new \in Keys
      /\ \A x \in 1 .. m : key(x) \in Keys /\ key(x) # new
      /\ \A x, y \in 1 .. m : x < y => Before(key(x), key(y))
  BY <1>1 DEF InOrder
<1>3. PICK c \in After : \A x \in Nat : x < c => x \notin After
  <2>1. m \in After /\ After \in SUBSET Nat
    OBVIOUS
  <2> HIDE DEF After
  <2> QED
    BY <2>1, Math!LeastElement
<1>4. c \in Nat /\ c <= m /\ \A y \in 1 .. m : y > c => Before(new, key(y))
  OBVIOUS
<1> HIDE DEF key, new
<1>5. ASSUME c # 0 PROVE Before(key(c), new)
  <2>1. c - 1 \in Nat /\ c - 1 < c /\ c - 1 <= m /\ c \in 1 .. m
    BY <1>4, <1>5
  <2>2. PICK y \in 1 .. m : y > c - 1 /\ ~Before(new, key(y))
    BY <1>3, <2>1
  <2>3. y = c
    BY <1>4, <2>1, <2>2
  <2> QED
    BY <1>2, <2>1, <2>2, <2>3, BeforeTotal
<1>6. ASSUME NEW x \in 1 .. m, x <= c PROVE Before(key(x), new)
  <2>1. c # 0 /\ c \in 1 .. m
    BY <1>4, <1>6
  <2>2. CASE x = c
    BY <1>5, <2>1, <2>2
  <2>3. CASE x # c
    <3>1. Before(key(x), key(c))
      <4>1. x < c
        BY <1>4, <1>6, <2>3
      <4> QED
        BY <1>2, <2>1, <4>1
    <3> QED
      BY <1>2, <1>5, <2>1, <3>1, BeforeTransitive
  <2> QED
    BY <2>2, <2>3
<1> DEFINE placed(x) == IF x <= c THEN p[x] ELSE IF x = c + 1 THEN m + 1 ELSE p[x - 1]
<1>7. PICK q : q = [x \in 1 .. m + 1 |-> placed(x)]
  OBVIOUS
<1>8. \A x \in 1 .. m + 1 : /\ x <= c => x \in 1 .. m /\ q[x] = p[x]
                            /\ x = c + 1 => q[x] = m + 1
                            /\ x > c + 1 => x - 1 \in 1 .. m /\ x - 1 > c /\ q[x] = p[x - 1]
  BY <1>4, <1>7
<1>9. \A x \in 1 .. m + 1 : q[x] \in 1 .. m + 1
  <2> TAKE x \in 1 .. m + 1
  <2>1. x <= c \/ x = c + 1 \/ x > c + 1
    BY <1>4
  <2>2. m + 1 \in 1 .. m + 1 /\ \A y \in 1 .. m : y \in 1 .. m + 1
    OBVIOUS
  <2> QED
    BY <1>1, <1>8, <2>1, <2>2
<1>10. q \in [1 .. m + 1 -> 1 .. m + 1]
  BY <1>7, <1>9
<1>11. ASSUME NEW y \in 1 .. m + 1 PROVE \E x \in 1 .. m + 1 : q[x] = y
  <2>1. CASE y = m + 1
    <3>1. c + 1 \in 1 .. m + 1
      BY <1>4
    <3> QED
      BY <1>8, <2>1, <3>1
  <2>2. CASE y # m + 1
    <3>1. y \in 1 .. m
      BY <2>2
    <3>2. PICK x \in 1 .. m : p[x] = y
      BY <3>1 DEF InOrder
    <3>3. CASE x <= c
      <4>1. x \in 1 .. m + 1
        OBVIOUS
      <4> QED
        BY <1>8, <3>2, <3>3, <4>1
    <3>4. CASE ~(x <= c)
      <4>1. x + 1 \in 1 .. m + 1 /\ x + 1 > c + 1 /\ (x + 1) - 1 = x
        BY <1>4, <3>4
      <4>2. q[x + 1] = p[x]
        BY <1>8, <4>1
      <4> QED
        BY <3>2, <4>1, <4>2
    <3> QED
      BY <3>3, <3>4
  <2> QED
    BY <2>1, <2>2
<1>12. \A x \in 1 .. m + 1 : /\ x <= c => batch[q[x]].key = key(x)
                             /\ x = c + 1 => batch[q[x]].key = new
                             /\ x > c + 1 => batch[q[x]].key = key(x - 1)
  BY <1>8 DEF key, new
<1>13. ASSUME NEW x \in 1 .. m + 1, NEW y \in 1 .. m + 1, x < y
       PROVE  Before(batch[q[x]].key, batch[q[y]].key)
  <2>1. CASE y <= c
    <3>1. x <= c /\ x \in 1 .. m /\ y \in 1 .. m
      BY <1>4, <1>13, <2>1
    <3> QED
      BY <1>2, <1>12, <1>13, <2>1, <3>1
  <2>2. CASE y = c + 1
    <3>1. x <= c /\ x \in 1 .. m
      BY <1>4, <1>13, <2>2
    <3> QED
      BY <1>6, <1>12, <2>2, <3>1
  <2>3. CASE y > c + 1
    <3>1. y - 1 \in 1 .. m /\ y - 1 > c
      BY <1>4, <2>3
    <3>2. batch[q[y]].key = key(y - 1)
      BY <1>12, <2>3
    <3>3. CASE x <= c
      <4>1. x \in 1 .. m /\ x < y - 1
        BY <1>4, <2>3, <3>3
      <4> QED
        BY <1>2, <1>12, <3>1, <3>2, <3>3, <4>1
    <3>4. CASE x = c + 1
      BY <1>4, <1>12, <3>1, <3>2, <3>4
    <3>5. CASE x > c + 1
      <4>1. x - 1 \in 1 .. m /\ x - 1 < y - 1
        BY <1>4, <1>13, <3>5
      <4> QED
        BY <1>2, <1>12, <3>1, <3>2, <3>5, <4>1
    <3> QED
      BY <1>4, <3>3, <3>4, <3>5
  <2> QED
    BY <1>4, <2>1, <2>2, <2>3
<1> QED
  BY <1>10, <1>11, <1>13 DEF InOrder

\* The batch can be put in order.
LEMMA OrderExists ==
  ASSUME NEW batch, NEW n \in Nat, \A x \in 1 .. n : batch[x].key \in Keys,
         \A x, y \in 1 .. n : x # y => batch[x].key # batch[y].key
  PROVE  \E p : InOrder(batch, p, n)
<1> DEFINE P(m) == \E p : InOrder(batch, p, m)
           Wrong == {m \in Nat : m <= n /\ ~P(m)}
<1>1. P(0)
  <2>1. 1 .. 0 = {}
    OBVIOUS
  <2>2. PICK p : p = [x \in 1 .. 0 |-> x]
    OBVIOUS
  <2>3. InOrder(batch, p, 0)
    BY <2>1, <2>2 DEF InOrder
  <2> QED
    BY <2>3
<1>2. ASSUME NEW m \in Nat, m + 1 <= n, P(m) PROVE P(m + 1)
  <2>1. PICK p : InOrder(batch, p, m)
    BY <1>2
  <2> QED
    BY <1>2, <2>1, InsertedInOrder
<1> HIDE DEF P
<1>3. ASSUME Wrong # {} PROVE FALSE
  <2>1. PICK m \in Wrong : \A i \in Nat : i < m => i \notin Wrong
    <3>1. Wrong \in SUBSET Nat
      OBVIOUS
    <3> HIDE DEF Wrong
    <3> QED
      BY <1>3, <3>1, Math!LeastElement
  <2>2. m \in Nat /\ m <= n /\ ~P(m)
    OBVIOUS
  <2>3. m # 0
    BY <1>1, <2>2
  <2>4. PICK l \in Nat : l = m - 1 /\ l < m /\ l + 1 = m
    BY <2>2, <2>3
  <2>5. P(l)
    <3>1. l <= n
      BY <2>2, <2>4
    <3> QED
      BY <2>1, <2>4, <3>1
  <2> QED
    BY <1>2, <2>2, <2>4, <2>5
<1>4. P(n)
  <2>1. n \notin Wrong
    BY <1>3
  <2> QED
    BY <2>1
<1> QED
  BY <1>4 DEF P

\* The first n elements of the batch have keys, each its own.
Distinct(batch, n) ==
  /\ \A x \in 1 .. n : batch[x].key \in Keys
  /\ \A x, y \in 1 .. n : x # y => batch[x].key # batch[y].key

\* The first n elements of one sequence are those of the other, in some order.
Reordered(s, batch, n) ==
  /\ \A x \in 1 .. n : \E y \in 1 .. n : s[x] = batch[y]
  /\ \A y \in 1 .. n : \E x \in 1 .. n : s[x] = batch[y]

\* The elements of an audit record are those of the batch.
LEMMA SortedIs ==
  ASSUME NEW batch, NEW n \in Nat, DOMAIN batch = 1 .. n, Distinct(batch, n)
  PROVE  /\ DOMAIN Sorted(batch) = 1 .. n /\ Len(Sorted(batch)) = n
         /\ Reordered(Sorted(batch), batch, n)
<1> DEFINE Fits(p) == /\ \A y \in DOMAIN batch : \E x \in DOMAIN batch : p[x] = y
                      /\ \A x, y \in DOMAIN batch : x < y => Before(batch[p[x]].key, batch[p[y]].key)
           order == CHOOSE p \in [DOMAIN batch -> DOMAIN batch] : Fits(p)
<1>1. \E p \in [DOMAIN batch -> DOMAIN batch] : Fits(p)
  <2>1. PICK p : InOrder(batch, p, n)
    BY OrderExists DEF Distinct
  <2> QED
    BY <2>1 DEF InOrder
<1> HIDE DEF Fits
<1>2. order \in [DOMAIN batch -> DOMAIN batch] /\ Fits(order)
  BY <1>1
<1>3. Sorted(batch) = [x \in DOMAIN batch |-> batch[order[x]]]
  BY Zenon DEF Sorted, Fits
<1> HIDE DEF order
<1>4. PICK s : s = [x \in 1 .. n |-> batch[order[x]]]
  OBVIOUS
<1>5. Sorted(batch) = s
  BY <1>3, <1>4
<1>6. DOMAIN s = 1 .. n /\ Len(s) = n
  BY <1>4, ListedLen DEF Listed
<1>7. \A x \in 1 .. n : s[x] = batch[order[x]] /\ order[x] \in 1 .. n
  BY <1>2, <1>4
<1>8. \A y \in 1 .. n : \E x \in 1 .. n : order[x] = y
  BY <1>2 DEF Fits
<1>9. \A y \in 1 .. n : \E x \in 1 .. n : s[x] = batch[y]
  <2> TAKE y \in 1 .. n
  <2>1. PICK x \in 1 .. n : order[x] = y
    BY <1>8
  <2>2. s[x] = batch[order[x]]
    BY <1>7
  <2>3. s[x] = batch[y]
    BY <2>1, <2>2
  <2> QED
    BY <2>3
<1>10. \A x \in 1 .. n : \E y \in 1 .. n : s[x] = batch[y]
  BY <1>7
<1> QED
  BY <1>5, <1>6, <1>9, <1>10 DEF Reordered

-----------------------------------------------------------------------------
\* The lookup of a key that is not in the tree.
LEMMA FailedAnswers ==
  ASSUME NEW S, NEW C, NEW D, DOMAIN D \subseteq Keys, NEW p, NEW t \in Keys, NEW v, Way(S, C, D, p, t, v),
         v.kind = "failed", NEW result, result.type = 2, result.elements = hashes(v.copath),
         result.leaf.key = S[v.ptr].index, result.leaf.commitment = S[v.ptr].commitment
  PROVE  Answers(result, D, t)
<1>h. Height \in Nat
  BY HeightAssumption
<1>1. PICK n \in 0 .. Height : n = Len(v.copath) /\ n = Len(hashes(v.copath))
  BY HashesListed DEF Way
<1>2. n > 0 /\ Empty(D, n, t) /\ ~Empty(D, n - 1, t)
  BY <1>1 DEF Way
<1>3. DOMAIN result.elements = 1 .. n
  <2>1. PICK m \in Nat : v.copath = [x \in 1 .. m |-> v.copath[x]]
    BY DEF Way, Listed
  <2>2. m = n /\ DOMAIN v.copath = 1 .. n
    BY <1>1, <2>1, ListedLen
  <2> QED
    BY <2>2 DEF hashes
<1>4. ASSUME NEW l \in 1 .. n
      PROVE  /\ l \in 1 .. Height /\ ~Empty(D, l - 1, t)
             /\ result.elements[l] = Merkle(D)[<<l, turned(t, l - 1)>>]
  <2>1. PICK x \in Nat : x = l - 1 /\ x + 1 = l /\ x < n /\ n - 1 \in 0 .. Height /\ x \in 0 .. n - 1
    BY <1>1, <1>h
  <2>2. result.elements[l] = Merkle(D)[<<l, turned(t, l - 1)>>]
    <3>1. x < Len(v.copath) /\ x < Len(hashes(v.copath))
      BY <1>1, <2>1
    <3>2. hashes(v.copath)[x + 1] = Merkle(D)[<<x + 1, turned(t, x)>>]
      BY <3>1, LookedUp
    <3> QED
      BY <2>1, <3>2
  <2>3. ~Empty(D, x, t)
    <3>1. PICK m \in 0 .. Height : m = n - 1
      BY <2>1
    <3>2. x \in 0 .. m /\ ~Empty(D, m, t)
      BY <1>2, <2>1, <3>1
    <3> QED
      BY <3>2, EmptyBelow
  <2>4. l \in 1 .. Height
    BY <1>1, <1>h
  <2> QED
    BY <2>1, <2>2, <2>3, <2>4
<1>5. ASSUME NEW l \in 0 .. Height - 1, ~Empty(D, l, t) PROVE l + 1 \in 1 .. n
  <2>1. ASSUME ~(l < n) PROVE FALSE
    <3>1. l \in 0 .. Height /\ n \in 0 .. l
      BY <1>h, <2>1
    <3> QED
      BY <1>2, <1>5, <3>1, EmptyBelow
  <2> QED
    BY <2>1
<1>6. result.leaf.key \in DOMAIN D /\ result.leaf.commitment = D[result.leaf.key]
  BY DEF Way
<1> QED
  BY <1>3, <1>4, <1>5, <1>6 DEF Answers

\* The lookups of a batch's keys in the tree it is inserted into.
LEMMA BatchAnswers ==
  ASSUME NEW C, Kept(C), NEW D, BaseTree(C, Base, D), DOMAIN D \subseteq Keys,
         NEW key \in Keys, key \notin DOMAIN D,
         NEW r, r = IF Base = None THEN [type |-> 3, elements |-> <<>>] ELSE search_for_proof(Base, key)
  PROVE  Answers(r, D, key)
<1>1. CASE Base = None
  <2>1. r.type = 3 /\ r.elements = <<>> /\ DOMAIN <<>> = {}
    BY <1>1
  <2>2. DOMAIN D = {}
    BY <1>1 DEF BaseTree
  <2>3. \A l : Empty(D, l, key)
    BY <2>2 DEF Empty
  <2> QED
    BY <2>1, <2>3 DEF Answers
<1>2. CASE Base # None
  <2>1. PICK p \in 0 .. next - 1 : p = Base /\ D = C[p]
    BY <1>2 DEF BaseTree
  <2>2. PICK w : w = Walk(Readable, key, p)
    OBVIOUS
  <2>3. Way(store, C, D, next, key, w) /\ w.kind # "continue"
    <3>1. \A q \in 0 .. next - 1 : Readable[q] = store[q]
      BY ReadsStored DEF Kept
    <3>2. next \in Nat /\ Trees(store, C, next)
      BY DEF Kept
    <3>3. Way(store, C, C[p], next, key, w) /\ w.kind # "continue"
      BY <2>2, <3>1, <3>2, WalkEnds
    <3> QED
      BY <2>1, <3>3
  <2>4. w.kind = "failed" /\ w.ptr \in 0 .. next - 1
    BY <2>3 DEF Way
  <2>5. Readable[w.ptr] = store[w.ptr]
    BY <2>4, ReadsStored DEF Kept
  <2>6. r = search_for_proof(p, key)
    BY <1>2, <2>1
  <2>7. /\ r.type = 2 /\ r.elements = hashes(w.copath)
        /\ r.leaf.key = store[w.ptr].index /\ r.leaf.commitment = store[w.ptr].commitment
    BY <2>2, <2>4, <2>5, <2>6 DEF search_for_proof
  <2> QED
    BY <2>3, <2>4, <2>7, FailedAnswers
<1> QED
  BY <1>1, <1>2

\* The audit record of a batch.
LEMMA RecordAudits ==
  ASSUME NEW C, Kept(C), NEW batch \in Batches
  PROVE  Audits(AuditRecord(batch), Committed, Added(Committed, batch, Len(batch)))
<1> DEFINE D == Committed
           E == Added(D, batch, Len(batch))
<1>1. PICK n \in Nat \ {0} : n = Len(batch)
  BY BatchIsNew
<1>2. BatchKeys(batch, D) /\ BaseTree(C, Base, D)
  BY BatchIsNew
<1>3. DOMAIN D \subseteq Keys
  <2>1. CASE Base = None
    BY <1>2, <2>1 DEF BaseTree
  <2>2. CASE Base # None
    BY <1>2, <2>2 DEF BaseTree, Kept, Trees, Entry
  <2> QED
    BY <2>1, <2>2
<1> HIDE DEF D
<1>4. DOMAIN batch = 1 .. n
  <2>1. \E m, q : m \in Nat /\ q \in [1 .. m -> Keys \ Present]
                  /\ batch = [x \in DOMAIN q |-> [key |-> q[x], commitment |-> failures]]
    BY DEF Batches
  <2>2. PICK m, q : m \in Nat /\ q \in [1 .. m -> Keys \ Present]
                    /\ batch = [x \in DOMAIN q |-> [key |-> q[x], commitment |-> failures]]
    BY <2>1
  <2>3. batch = [x \in 1 .. m |-> batch[x]]
    BY <2>2
  <2>4. Len(batch) = m /\ DOMAIN batch = 1 .. m
    BY <2>2, <2>3, ListedLen
  <2> QED
    BY <1>1, <2>4
<1>5. /\ \A x \in 1 .. n : batch[x].key \in Keys /\ batch[x].key \notin DOMAIN D
      /\ Distinct(batch, n)
  BY <1>1, <1>2 DEF BatchKeys, Distinct
<1>6. PICK added : added = Sorted(batch)
  OBVIOUS
<1>7. /\ DOMAIN added = 1 .. n /\ Len(added) = n
      /\ Reordered(added, batch, n)
  BY <1>4, <1>5, <1>6, SortedIs
<1> DEFINE found(x) == IF Base = None THEN [type |-> 3, elements |-> <<>>] ELSE search_for_proof(Base, added[x].key)
<1>8. PICK results : results = [x \in 1 .. n |-> found(x)]
  OBVIOUS
<1>9. AuditRecord(batch).added = added /\ AuditRecord(batch).results = results
  BY <1>6, <1>7, <1>8 DEF AuditRecord
<1>10. Len(results) = n
  <2>1. results = [x \in 1 .. n |-> results[x]]
    BY <1>8
  <2> QED
    BY <2>1, ListedLen
<1>11. ASSUME NEW x \in 1 .. n
       PROVE  /\ added[x].key \in Keys /\ added[x].key \notin DOMAIN D
              /\ Answers(results[x], D, added[x].key)
  <2>1. added[x].key \in Keys /\ added[x].key \notin DOMAIN D
    BY <1>5, <1>7 DEF Reordered
  <2>2. PICK k : k = added[x].key
    OBVIOUS
  <2>3. results[x] = IF Base = None THEN [type |-> 3, elements |-> <<>>] ELSE search_for_proof(Base, k)
    BY <1>8, <2>2
  <2>4. Answers(results[x], D, k)
    BY <1>2, <1>3, <2>1, <2>2, <2>3, BatchAnswers
  <2> QED
    BY <2>1, <2>2, <2>4
<1>12. Given(added, results, D)
  BY <1>7, <1>10, <1>11 DEF Given
<1>13. /\ DOMAIN E = DOMAIN D \cup KeysOf(batch, n)
       /\ \A x \in 1 .. n : E[batch[x].key] = batch[x].commitment
       /\ \A j \in DOMAIN D : E[j] = D[j]
  <2>1. Len(batch) \in 0 .. Len(batch)
    BY <1>1
  <2>2. WithKeys(E, D, batch, n)
    BY <1>1, <1>2, <2>1, AddedIs
  <2> QED
    BY <2>2 DEF WithKeys
<1> HIDE DEF E
<1>14. KeysOf(batch, n) = {added[x].key : x \in DOMAIN added}
  <2>1. ASSUME NEW x \in 1 .. n PROVE batch[x].key \in {added[y].key : y \in DOMAIN added}
    <3>1. PICK y \in 1 .. n : added[y] = batch[x]
      BY <1>7 DEF Reordered
    <3>2. y \in DOMAIN added /\ added[y].key = batch[x].key
      BY <1>7, <3>1
    <3> QED
      BY <3>2
  <2>2. ASSUME NEW x \in DOMAIN added PROVE added[x].key \in KeysOf(batch, n)
    <3>1. PICK y \in 1 .. n : added[x] = batch[y]
      BY <1>7 DEF Reordered
    <3> QED
      BY <3>1 DEF KeysOf
  <2>3. KeysOf(batch, n) \subseteq {added[y].key : y \in DOMAIN added}
    BY <2>1 DEF KeysOf
  <2>4. {added[y].key : y \in DOMAIN added} \subseteq KeysOf(batch, n)
    BY <2>2
  <2> QED
    BY <2>3, <2>4
<1>15. ASSUME NEW x \in 1 .. n PROVE E[added[x].key] = added[x].commitment
  <2>1. PICK y \in 1 .. n : added[x] = batch[y]
    BY <1>7 DEF Reordered
  <2>2. E[batch[y].key] = batch[y].commitment
    BY <1>13
  <2> QED
    BY <2>1, <2>2
<1>16. Audits(AuditRecord(batch), D, E)
  BY <1>3, <1>7, <1>9, <1>12, <1>13, <1>14, <1>15 DEF Audits
<1> QED
  BY <1>16 DEF D, E

\* The content before a log entry.
ContentBefore(i) == IF i = 1 THEN <<>> ELSE content[i - 1]

\* The second part of the inductive invariant: each audit record leads from the content before its
\* log entry to that entry's content, by lookups that were right in the tree they were made in.
Audited == \A i \in 1 .. Len(log) : Audits(log[i].audit, ContentBefore(i), content[i])

\* A committed batch adds its own record, and leaves the others alone.
LEMMA AuditedApply ==
  ASSUME Inv, Audited, NEW batch \in Batches, apply_batch(batch)
  PROVE  Audited'
<1>1. PICK C : Kept(C)
  BY DEF Inv
<1>2. PICK last : last = [ptr |-> next' - 1, root |-> rollup(store'[next' - 1], 0), audit |-> AuditRecord(batch)]
  OBVIOUS
<1>3. PICK c : c = Added(Committed, batch, Len(batch))
  OBVIOUS
<1>4. log' = Append(log, last) /\ content' = Append(content, c)
  BY <1>2, <1>3 DEF apply_batch, Committed
<1>5. PICK n \in Nat : n = Len(log) /\ n = Len(content) /\ Listed(log) /\ Listed(content)
  BY <1>1, Appended DEF Kept, LogIsTrue
<1>6. PICK g, h : g = log /\ h = content
  OBVIOUS
<1>7. /\ Len(Append(g, last)) = n + 1 /\ Append(g, last)[n + 1] = last
      /\ \A i \in 1 .. n : Append(g, last)[i] = g[i]
  <2>1. Listed(g) /\ Len(g) = n
    BY <1>5, <1>6
  <2> QED
    BY <2>1, Appended
<1>8. /\ Append(h, c)[n + 1] = c /\ \A i \in 1 .. n : Append(h, c)[i] = h[i]
      /\ h = <<>> <=> n = 0
  <2>1. Listed(h) /\ Len(h) = n
    BY <1>5, <1>6
  <2> QED
    BY <2>1, Appended
<1>9. /\ Len(log') = n + 1 /\ log'[n + 1] = last /\ content'[n + 1] = c
      /\ \A i \in 1 .. n : log'[i] = log[i] /\ content'[i] = content[i]
      /\ content = <<>> <=> n = 0
  BY <1>4, <1>6, <1>7, <1>8
<1>10. Audits(last.audit, Committed, c)
  BY <1>1, <1>2, <1>3, RecordAudits
<1>11. Committed = ContentBefore(n + 1)'
  <2>1. CASE n = 0
    <3>1. n + 1 = 1 /\ content = <<>>
      BY <1>9, <2>1
    <3> QED
      BY <3>1 DEF Committed, ContentBefore
  <2>2. CASE n # 0
    <3>1. n + 1 # 1 /\ (n + 1) - 1 = n /\ n \in 1 .. n /\ content # <<>>
      BY <1>9, <2>2
    <3>2. Committed = content[n]
      BY <1>5, <3>1 DEF Committed, Last
    <3>3. content'[n] = content[n]
      BY <1>9, <3>1
    <3> QED
      BY <3>1, <3>2, <3>3 DEF ContentBefore
  <2> QED
    BY <2>1, <2>2
<1>12. ASSUME NEW i \in 1 .. n + 1 PROVE Audits(log'[i].audit, ContentBefore(i)', content'[i])
  <2>1. CASE i = n + 1
    BY <1>9, <1>10, <1>11, <2>1
  <2>2. CASE i # n + 1
    <3>1. i \in 1 .. n /\ (i # 1 => i - 1 \in 1 .. n)
      BY <2>2
    <3>2. Audits(log[i].audit, ContentBefore(i), content[i])
      BY <1>5, <3>1 DEF Audited
    <3>3. ContentBefore(i)' = ContentBefore(i)
      BY <1>9, <3>1 DEF ContentBefore
    <3> QED
      BY <1>9, <3>1, <3>2, <3>3
  <2> QED
    BY <2>1, <2>2
<1> QED
  BY <1>9, <1>12 DEF Audited

\* Every step keeps it.
LEMMA AuditedNext == Inv /\ Audited /\ [Next]_vars => Audited'
<1> SUFFICES ASSUME Inv, Audited, [Next]_vars PROVE Audited'
  OBVIOUS
<1>1. CASE \E batch \in Batches : apply_batch(batch)
  BY <1>1, AuditedApply
<1>2. CASE UNCHANGED <<log, content>>
  BY <1>2 DEF Audited, ContentBefore
<1>3. CASE \E batch \in Batches : BatchFails(batch)
  BY <1>2, <1>3 DEF BatchFails
<1>4. CASE Restart
  BY <1>2, <1>4 DEF Restart
<1>5. CASE \E i \in DOMAIN log, key \in Keys : get_entry(i, key)
  BY <1>2, <1>5 DEF get_entry
<1>6. CASE UNCHANGED vars
  BY <1>2, <1>6 DEF vars
<1> QED
  BY <1>1, <1>3, <1>4, <1>5, <1>6 DEF Next

\* The root of a tree does not depend on the key it is asked for.
LEMMA RootAtTop ==
  ASSUME NEW D, DOMAIN D \subseteq Keys, NEW k \in Keys
  PROVE  Merkle(D)[<<0, k>>] = Merkle(D)[<<0, Top>>]
<1>1. 0 \in 0 .. Height /\ Agree(k, Top, 0) /\ Same(D, D, 0, k)
  BY HeightAssumption DEF Agree, Same
<1> QED
  BY <1>1, TopNode, MerkleSame

\* From the root of any log entry (zero before the first) and the audit record apply_batch stored
\* with the next, the auditor (verify_and_transition: the leaves the lookups ran into, the
\* elements taken from the proofs or checked against the keys of the batch above them, the order
\* of the added keys) arrives at that entry's root, for every height and every batch.
THEOREM TransitionsAreVerified == Spec => []TransitionsVerify
<1>1. Inv /\ Audited => TransitionsVerify
  <2> SUFFICES ASSUME Inv, Audited, NEW i \in DOMAIN log
               PROVE  verify_and_transition(IF i = 1 THEN Zero ELSE log[i - 1].root,
                                            log[i].audit.added, log[i].audit.results) = log[i].root
    BY DEF TransitionsVerify
  <2>1. PICK C : Kept(C)
    BY DEF Inv
  <2>2. Len(log) \in Nat /\ DOMAIN log = 1 .. Len(log)
    BY <2>1, Appended DEF Kept, LogIsTrue
  <2>3. ASSUME NEW j \in 1 .. Len(log)
        PROVE  DOMAIN content[j] \subseteq Keys /\ log[j].root = Merkle(content[j])[<<0, Top>>]
    <3>1. PICK p \in 0 .. next - 1 :
            p = log[j].ptr /\ content[j] = C[p] /\ log[j].root = Merkle(content[j])[<<0, store[p].index>>]
      BY <2>1 DEF Kept, LogIsTrue
    <3>2. DOMAIN content[j] \subseteq Keys /\ store[p].index \in Keys
      BY <2>1, <3>1 DEF Kept, Trees, Entry
    <3> QED
      BY <3>1, <3>2, RootAtTop
  <2>4. PICK D, E, audit : D = ContentBefore(i) /\ E = content[i] /\ audit = log[i].audit
    OBVIOUS
  <2>5. Audits(audit, D, E)
    BY <2>2, <2>4 DEF Audited
  <2>6. PICK r : r = IF i = 1 THEN Zero ELSE log[i - 1].root
    OBVIOUS
  <2>7. r = Merkle(D)[<<0, Top>>]
    <3>1. CASE i = 1
      <4>1. DOMAIN D = {}
        BY <2>4, <3>1 DEF ContentBefore
      <4>2. Empty(D, 0, Top) /\ 0 \in 0 .. Height /\ DOMAIN D \subseteq Keys
        BY <4>1, HeightAssumption DEF Empty
      <4>3. Merkle(D)[<<0, Top>>] = Zero
        BY <4>2, TopNode, MerkleNode
      <4> QED
        BY <2>6, <3>1, <4>3
    <3>2. CASE i # 1
      <4>1. i - 1 \in 1 .. Len(log)
        BY <2>2, <3>2
      <4> QED
        BY <2>3, <2>4, <2>6, <3>2, <4>1 DEF ContentBefore
    <3> QED
      BY <3>1, <3>2
  <2>8. verify_and_transition(r, audit.added, audit.results) = Merkle(E)[<<0, Top>>]
    BY <2>5, <2>7, TransitionIs
  <2>9. log[i].root = Merkle(E)[<<0, Top>>]
    BY <2>2, <2>3, <2>4
  <2> QED
    BY <2>4, <2>6, <2>8, <2>9
<1>2. Init => Audited
  <2>1. ASSUME Init PROVE Len(log) = 0
    BY <2>1 DEF Init
  <2> QED
    BY <2>1 DEF Audited
<1>3. Inv /\ Audited /\ [Next]_vars => Audited'
  BY AuditedNext
<1> QED
  BY <1>1, <1>2, <1>3, Invariant, PTL DEF Spec
=============================================================================
