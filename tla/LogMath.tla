------------------------------ MODULE LogMath ------------------------------
(***************************************************************************)
(* The index arithmetic of src/tree/log_math.rs.  Two trees share one      *)
(* numbering: the implicit binary search tree over the log entries         *)
(* 0 .. n - 1, which searches walk, and the Merkle tree, whose leaf for    *)
(* entry i is node 2i.  In both a node of level k is a left child minus or *)
(* a right child plus 2^(k-1), which is what the exclusive-ors in the code *)
(* compute.  Sequences are indexed from 1.                                 *)
(***************************************************************************)
EXTENDS Integers, Sequences, SequencesExt

None == -1

\* trailing_ones
level[x \in Nat] == IF x % 2 = 0 THEN 0 ELSE 1 + level[x \div 2]

is_leaf(x) == x % 2 = 0

\* 1 << level(x)
span[x \in Nat] == IF x % 2 = 0 THEN 1 ELSE 2 * span[x \div 2]

\* 1 << log2(n)
msb[n \in Nat] == IF n <= 1 THEN 1 ELSE 2 * msb[n \div 2]

\* IBST root over n log entries.
root(n) == IF n = 0 THEN 0 ELSE msb[n] - 1

\* Merkle node id of the log tree root over n leaves.
merkle_root(n) == IF n <= 1 THEN 0 ELSE 2 * msb[n - 1] - 1

left_child(x) == IF is_leaf(x) THEN x ELSE x - span[x] \div 2
full_right(x) == x + span[x] \div 2

leftmost_leaf_index[x \in Nat] ==
  IF is_leaf(x) THEN x \div 2 ELSE leftmost_leaf_index[left_child(x)]

\* Merkle right child; an absent right subtree collapses the node to its left child.
right_child(x, n) ==
  LET down[r \in Nat] == IF leftmost_leaf_index[r] < n THEN r
                         ELSE IF is_leaf(r) THEN left_child(x)
                         ELSE down[left_child(r)]
  IN  down[full_right(x)]

\* Mutant: a right child beyond the log is taken for an empty subtree.
IbstRightFull(x, n) == IF ~is_leaf(x) /\ full_right(x) < n THEN full_right(x) ELSE None

\* IBST right child, None where the subtree is empty.
ibst_right_child(x, n) ==
  LET down[r \in Nat] == IF r < n THEN r ELSE IF is_leaf(r) THEN None ELSE down[left_child(r)]
  IN  IF is_leaf(x) THEN None ELSE down[full_right(x)]

\* The full subtrees of the Merkle tree, left to right.
get_roots(n) ==
  LET peaks[m \in 0 .. n] ==  \* of the last m entries
        IF m = 0 THEN <<>> ELSE <<root(msb[m]) + 2 * (n - m)>> \o peaks[m - msb[m]]
  IN  peaks[n]

parent(x) == IF (x \div (2 * span[x])) % 2 = 1 THEN x - span[x] ELSE x + span[x]

\* The entries on the way from the root to the last one.
get_frontier(n) ==
  LET spine[x \in 0 .. n - 1] ==
        IF x = n - 1 \/ ibst_right_child(x, n) = None THEN <<x>>
        ELSE <<x>> \o spine[ibst_right_child(x, n)]
  IN  IF n = 0 THEN <<>> ELSE spine[root(n)]

\* The ancestors of an entry in the IBST, from the entry up.
ibst_direct_path(target, n) ==
  LET down[s \in {t \in (0 .. n) \X (0 .. n) : t[1] + t[2] <= n}] ==  \* size and offset of a subtree
        LET here == s[2] + msb[s[1]] - 1
        IN  IF s[1] = 0 \/ target = here THEN <<>>
            ELSE <<here>> \o (IF target < here THEN down[<<msb[s[1]] - 1, s[2]>>]
                              ELSE down[<<s[1] - msb[s[1]], here + 1>>])
  IN  Reverse(down[<<n, 0>>])

\* The start entry and its ancestors to its left.
owner_init_list(start, n) ==
  <<start>> \o SelectSeq(ibst_direct_path(start, n), LAMBDA a : a < start)

\* The root, at a level that is 3 modulo 4, of the stored chunk of 15 nodes holding x.
chunk_id[x \in Nat] == IF level[x] % 4 = 3 THEN x ELSE chunk_id[parent(x)]

\* The nodes of a chunk: three levels below its root.
chunk_layout(c) ==
  LET below(S) == {left_child(x) : x \in S} \cup {full_right(x) : x \in S}
      l1 == below({c})
      l2 == below(l1)
  IN  {c} \cup l1 \cup l2 \cup below(l2)

\* The arguments of sub_proof: m, n and b.
ProofArgs == {p \in (Nat \ {0}) \X Nat \X BOOLEAN : p[1] <= p[2]}

sub_proof[a \in ProofArgs] ==
  LET m == a[1]
      n == a[2]
      k == IF msb[n] = n THEN n \div 2 ELSE msb[n]
      shifted(s) == [i \in DOMAIN s |-> s[i] + 2 * k]
  IN  IF m = n THEN (IF a[3] THEN <<>> ELSE <<root(m)>>)
      ELSE IF m <= k THEN Append(sub_proof[<<m, k, a[3]>>], right_child(root(n), n))
      ELSE <<left_child(root(n))>> \o shifted(sub_proof[<<m - k, n - k, FALSE>>])

consistency_proof(m, n) == IF m = 0 \/ m >= n THEN <<>> ELSE sub_proof[<<m, n, TRUE>>]
=============================================================================
