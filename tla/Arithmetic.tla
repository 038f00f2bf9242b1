----------------------------- MODULE Arithmetic -----------------------------
(***************************************************************************)
(* The index trees of LogMath and the ladders of Ladders for every pair of *)
(* small numbers: a size and an entry below it, or a target and a greatest *)
(* version.                                                                *)
(***************************************************************************)
EXTENDS LogMath, Ladders

CONSTANT MaxNumber  \* bound on sizes

ASSUME NumberAssumption == MaxNumber \in Nat \ {0}

VARIABLES
  n,  \* a number of log entries
  t   \* an entry of that log, a smaller size, or a version

pair == <<n, t>>

\* Read as versions: the greatest version in a prefix tree, or Absent, and the target.
g == n - 1
AreVersions == g \in Absent .. MaxVersion /\ t \in 0 .. MaxVersion

\* Read as a log: n entries and entry t.
AreEntries == t < n

InitPair == n \in 0 .. MaxNumber /\ t \in 0 .. MaxNumber

-----------------------------------------------------------------------------
\* A full ladder proves its greatest version: it looks up g and finds it, looks up g + 1
\* and does not, and never repeats a lookup, up to u32::MAX where g + 1 does not exist.
LadderProvesGreatest ==
  AreVersions /\ g # Absent =>
    LET out == base_binary_ladder(g)
    IN  /\ Contains(out, g)
        /\ g < MaxVersion => Contains(out, g + 1)
        /\ \A i, k \in DOMAIN out : out[i] = out[k] => i = k
        /\ ToSet(out) \subseteq 0 .. MaxVersion

\* decode_search_ladder inverts the log: from the outcomes alone the client recovers the
\* version of every lookup of the ladder the log walked.
DecodeInverts ==
  AreVersions =>
    LET out == EntryLadder(t, g)
        d   == decode_search_ladder(Results(out, g), t)
    IN  /\ Len(d) = Len(out)
        /\ \A i \in DOMAIN d : d[i].version = out[i] /\ d[i].inclusion = (out[i] <= g)

\* ... and reads off it which way the search goes: right below the target, left above
\* it, stop at it, as traverse_fixed_search did from the history.
LadderSettlesSearch ==
  AreVersions =>
    LET d     == decode_search_ladder(Results(EntryLadder(t, g), g), t)
        above == \E i \in DOMAIN d : d[i].inclusion /\ d[i].version > t
        below == \E i \in DOMAIN d : ~d[i].inclusion /\ d[i].version <= t
    IN  above = (g > t) /\ below = (g < t)

\* What a contact has to re-prove later is known from the search that found t: the
\* monitoring ladder only looks up versions whose commitment that search returned.
MonitoringIsCovered ==
  AreVersions =>
    ToSet(monitoring_binary_ladder(t)) \subseteq
      {v \in ToSet(search_binary_ladder(t, t)) : v <= t}

\* The number of lookups of a ladder grows with the logarithm of its target.
OwnerLimit == 8

\* verify_owner_ladder recovers the greatest version from an honest full ladder by "trying
\* each candidate target": as long as the greatest version is among the candidates, which
\* are as many as the ladder has lookups.
OwnerLadderDecodes ==
  AreVersions /\ g <= OwnerLimit => verify_owner_ladder(Results(EntryLadder(g, g), g)) = g

\* The entries a search for the target passes, by left_child and ibst_right_child.
Walk(target, size) ==
  LET from[x \in 0 .. size - 1] ==
        LET on == IF target < x THEN left_child(x) ELSE ibst_right_child(x, size)
        IN  IF x = target \/ on \in {x, None} THEN <<x>> ELSE <<x>> \o from[on]
  IN  from[root(size)]

\* The two walks of the IBST agree: descending by left_child and ibst_right_child, as
\* traverse_fixed_search does, reaches every entry and passes exactly the ancestors
\* ibst_direct_path computes from sizes, as the monitoring paths do.
WalksAgree == AreEntries => Walk(t, n) = Append(Reverse(ibst_direct_path(t, n)), t)

\* The frontier a client is given timestamps for ends each full subtree whose value it
\* retains: the i-th frontier entry is the last leaf of the i-th of get_roots.
FrontierEndsPeaks ==
  LET peaks == get_roots(n)
  IN  n > 0 => get_frontier(n) =
        [i \in DOMAIN peaks |-> leftmost_leaf_index[peaks[i]] + span[peaks[i]] - 1]

\* The full subtrees of an older log stay nodes of the newer Merkle tree: get_roots of
\* size t + 1 are nodes whose leaves are all below n, and they cover 0 .. t.
PeaksStayValid ==
  LET peaks == get_roots(t + 1)
      leaves(r) == leftmost_leaf_index[r] .. leftmost_leaf_index[r] + span[r] - 1
  IN  UNION {leaves(peaks[i]) : i \in DOMAIN peaks} = 0 .. t

\* The entries met by the recursion of resolve_node, left to right.
LeavesUnder(node, size) ==
  LET under[x \in Nat] ==
        IF is_leaf(x) THEN <<x \div 2>>
        ELSE under[left_child(x)]
             \o (IF left_child(x) = right_child(x, size) THEN <<>> ELSE under[right_child(x, size)])
  IN  under[node]

\* Resolving the Merkle root reads every log entry once, in order, for sizes that are
\* not powers of two as well, where nodes collapse.
RootCoversLog == n > 0 => LeavesUnder(merkle_root(n), n) = [i \in 1 .. n |-> i - 1]

\* Every node of the Merkle tree is stored in the chunk chunk_id looks it up in.
ChunkHoldsNode ==
  AreEntries => \A node \in {t, 2 * t, merkle_root(n)} : node \in chunk_layout(chunk_id[node])

\* The nodes of the Merkle tree over size leaves.
Reach(node, size) ==
  LET below[x \in Nat] ==
        IF is_leaf(x) THEN {x}
        ELSE {x} \cup below[left_child(x)] \cup below[right_child(x, size)]
  IN  below[node]

\* A consistency proof from t to n names nodes of the Merkle tree over n leaves, no leaf
\* twice, and reaches the last leaf, when n is a power of two: for other sizes sub_proof
\* takes children of the search tree's root for children of the Merkle root.
ConsistencyProofCovers ==
  LET p == consistency_proof(t, n)
      leaves(i) == ToSet(LeavesUnder(p[i], n))
  IN  AreEntries /\ t > 0 /\ msb[n] = n =>
        /\ ToSet(p) \subseteq Reach(merkle_root(n), n)
        /\ \A i, k \in DOMAIN p : i # k => leaves(i) \cap leaves(k) = {}
        /\ \E i \in DOMAIN p : n - 1 \in leaves(i)

\* The ladders of log and client, and the index trees of log, client and auditor, for every
\* pair of numbers: what one side derives from its data the other derives from its own.
LaddersAgree ==
  /\ LadderProvesGreatest /\ DecodeInverts /\ LadderSettlesSearch
  /\ MonitoringIsCovered /\ OwnerLadderDecodes

\* The search tree and the Merkle tree over the same entries, their peaks, frontier, paths,
\* chunks and consistency proofs fit together at every size.
IndexTreesAgree ==
  /\ WalksAgree /\ FrontierEndsPeaks /\ PeaksStayValid
  /\ RootCoversLog /\ ChunkHoldsNode /\ ConsistencyProofCovers
=============================================================================
