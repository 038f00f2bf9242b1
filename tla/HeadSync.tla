------------------------------ MODULE HeadSync ------------------------------
(***************************************************************************)
(* How clients and an auditor keep up with a growing log: the batch        *)
(* inclusion proof of src/tree/log.rs against its reconstruction in        *)
(* src/client/verifier.rs with the subtrees a client retained, and the     *)
(* auditor's incremental root (src/client/auditor.rs) against the one the  *)
(* log reads from its node chunks (src/tree/audit.rs).                     *)
(*                                                                         *)
(* A hash is a term: entry i is <<i>>, an inner node is its two children   *)
(* with the leaf flags that enter the hash.  A signature is the root it    *)
(* signs.  Entries are one unit of time apart, so max_auditor_lag counts   *)
(* entries.                                                                *)
(***************************************************************************)
EXTENDS LogMath

CONSTANTS
  MaxSize,      \* bound on log entries
  MaxLag,       \* max_auditor_lag
  AuditLimit,   \* entries per AuditRequest
  Auditing      \* third-party-auditing mode

ASSUME SyncAssumption ==
  MaxSize \in Nat /\ MaxLag \in Nat /\ AuditLimit \in Nat \ {0} /\ Auditing \in BOOLEAN

VARIABLES
  size,      \* entries of the log; its head is signed at every size
  written,   \* leaves in the node chunks: one more than size after a batch that failed
  auditor,   \* KtAuditor: LogAccumulator
  signed,    \* the auditor head on its way to the log
  auditors,  \* the auditor head the log holds
  client     \* KtClient: state and retained_subtrees

vars == <<size, written, auditor, signed, auditors, client>>

Err    == <<>>
NoHead == [size |-> 0, root |-> Err]
Leaf(i) == <<i>>
log_parent_value(l, lIsLeaf, r, rIsLeaf) == <<l, lIsLeaf, r, rIsLeaf>>

-----------------------------------------------------------------------------
\* Node chunks keep the nodes of the three levels above the leaves that are full.
Stored(node, stored) ==
  /\ level[node] <= 3
  /\ leftmost_leaf_index[node] + span[node] <= stored

\* recompute_intermediates
ChunkValue[node \in Nat] ==
  IF is_leaf(node) THEN Leaf(node \div 2)
  ELSE log_parent_value(ChunkValue[left_child(node)], is_leaf(left_child(node)),
                        ChunkValue[full_right(node)], is_leaf(full_right(node)))

\* The value of a node for tree_size entries, from a store that holds `stored` of them.
resolve_node(node_id, tree_size, stored) ==
  LET value[node \in Nat] ==
        IF Stored(node, stored) THEN ChunkValue[node]
        ELSE IF is_leaf(node) THEN Err
        ELSE LET l == left_child(node)
                 r == right_child(node, tree_size)
             IN  IF l = r THEN value[l]
                 ELSE IF Err \in {value[l], value[r]} THEN Err
                 ELSE log_parent_value(value[l], is_leaf(l), value[r], is_leaf(r))
  IN  value[node_id]

get_root(tree_size, stored) == resolve_node(merkle_root(tree_size), tree_size, stored)

\* The nodes from a leaf up to top.
PathUp(leaf, top) ==
  LET up[i \in 0 .. level[top]] ==
        IF i = 0 THEN leaf ELSE IF up[i - 1] = top THEN top ELSE parent(up[i - 1])
  IN  {up[i] : i \in 0 .. level[top]}

\* The nodes above (and at) the given leaves.
Above(entries, n) == UNION {PathUp(2 * i, merkle_root(n)) : i \in entries}

recursive_needed(node_id, n, skeleton, retained) ==
  LET needed[node \in Nat] ==
        IF node \notin skeleton THEN (IF node \in retained THEN <<>> ELSE <<node>>)
        ELSE IF is_leaf(node) THEN <<>>
        ELSE LET l == left_child(node)
                 r == right_child(node, n)
             IN  IF l = r THEN needed[l] ELSE needed[l] \o needed[r]
  IN  needed[node_id]

\* Mutant: nothing is left out for a client that retained subtrees.
FullBatchProof(visited, n, last, boundary) ==
  LET path   == IF boundary \in 1 .. n
                THEN Above({boundary - 1}, n) \ {2 * (boundary - 1)} ELSE {}
      needed == recursive_needed(merkle_root(n), n, Above(visited, n) \cup path, {})
  IN  [i \in DOMAIN needed |-> resolve_node(needed[i], n, written)]

\* The inclusion proof for the visited entries: the nodes next to their paths, and next
\* to the path of the last entry the auditor signed, unless the client retained them.
get_batch_proof_for_nodes(visited, n, last, boundary) ==
  LET path     == IF boundary \in 1 .. n
                  THEN Above({boundary - 1}, n) \ {2 * (boundary - 1)} ELSE {}
      retained == IF last \in 1 .. n THEN ToSet(get_roots(last)) ELSE {}
      needed   == recursive_needed(merkle_root(n), n, Above(visited, n) \cup path, retained)
  IN  [i \in DOMAIN needed |-> resolve_node(needed[i], n, written)]

-----------------------------------------------------------------------------
\* The values of f, and those of g where f has none.
Join(f, g) == [x \in DOMAIN f \cup DOMAIN g |-> IF x \in DOMAIN f THEN f[x] ELSE g[x]]

Captures(v, left, got) == [val |-> v, left |-> left, captured |-> got]

\* The client's fold of a node with the elements that are left.  It only descends above the
\* leaves it was given (is_ancestor); captured holds every node met.
recursive_hash(node, left, n, leaves, above, elements, retained, fold) ==
  LET met(v, k) == Captures(v, k, [x \in {node} |-> v])
      l == left_child(node)
      r == right_child(node, n)
      a == fold[<<l, left>>]
      b == fold[<<r, a.left>>]
      v == log_parent_value(a.val, is_leaf(l), b.val, is_leaf(r))
  IN  IF is_leaf(node) /\ node \div 2 \in leaves THEN met(Leaf(node \div 2), left)
      ELSE IF node \notin above /\ node \in DOMAIN retained THEN met(retained[node], left)
      ELSE IF node \notin above
      THEN IF left = 0 THEN met(Err, 0) ELSE met(elements[Len(elements) - left + 1], left - 1)
      ELSE IF is_leaf(node) THEN met(Err, left)
      ELSE IF a.val = Err \/ l = r
      THEN Captures(a.val, a.left, Join(a.captured, [x \in {node} |-> a.val]))
      ELSE IF b.val = Err THEN b
      ELSE Captures(v, b.left, Join(Join(a.captured, b.captured), [x \in {node} |-> v]))

calculate_root_capturing(leaves, n, elements, retained) ==
  LET above == Above(leaves, n)
      fold[at \in Nat \X (0 .. Len(elements))] ==
        recursive_hash(at[1], at[2], n, leaves, above, elements, retained, fold)
  IN  fold[<<merkle_root(n), Len(elements)>>]

\* LogAccumulator: the full subtrees, each with its height.
MergeLast(peaks) ==
  LET k == Len(peaks)
  IN  IF k < 2 \/ peaks[k].h # peaks[k - 1].h THEN peaks
      ELSE Append(SubSeq(peaks, 1, k - 2),
             [h |-> peaks[k].h + 1,
              v |-> log_parent_value(peaks[k - 1].v, peaks[k].h = 0,
                                     peaks[k].v, peaks[k].h = 0)])

Merge(peaks) ==
  LET merged[i \in 0 .. Len(peaks)] == IF i = 0 THEN peaks ELSE MergeLast(merged[i - 1])
  IN  merged[Len(peaks)]

\* Mutant: equal full subtrees are not merged.
AppendUnmerged(acc, leaf) ==
  [size |-> acc.size + 1, peaks |-> Append(acc.peaks, [h |-> 0, v |-> leaf])]

append_leaf(acc, leaf) ==
  [size |-> acc.size + 1, peaks |-> Merge(Append(acc.peaks, [h |-> 0, v |-> leaf]))]

from_peaks(n, values) ==
  [size |-> n,
   peaks |-> [i \in DOMAIN values |-> [h |-> level[get_roots(n)[i]], v |-> values[i]]]]

\* The collapsed right side never carries the leaf flag.
calculate_root(acc) ==
  LET k == Len(acc.peaks)
      from[i \in 1 .. k] ==
        IF i = k THEN acc.peaks[k].v
        ELSE log_parent_value(acc.peaks[i].v, acc.peaks[i].h = 0, from[i + 1], FALSE)
  IN  IF k = 0 THEN Err ELSE from[1]

-----------------------------------------------------------------------------
\* The entries a search visits: the frontier, and the way down to entry x.
Visited(x) == ToSet(get_frontier(size)) \cup ToSet(ibst_direct_path(x, size)) \cup {x}

\* The root the auditor must have signed, from what the client captured.
AuditorRoot(fold) ==
  LET peaks == get_roots(auditors.size)
  IN  IF auditors.size = size THEN fold.val
      ELSE IF ~(ToSet(peaks) \subseteq DOMAIN fold.captured) THEN Err
      ELSE calculate_root(from_peaks(auditors.size,
                                     [i \in DOMAIN peaks |-> fold.captured[peaks[i]]]))

verify_auditor_tree_head(fold) ==
  /\ auditors # NoHead
  /\ size - auditors.size <= MaxLag
  /\ AuditorRoot(fold) = auditors.root

\* What the client folds the response to a search that ends at entry x into.
Fold(x) ==
  calculate_root_capturing(Visited(x), size,
    get_batch_proof_for_nodes(Visited(x), size, client.size, auditors.size),
    client.subtrees)

\* The root that apply_batch signed, right after batch_append wrote the last of the leaves.
SignedRoot == get_root(size, size)

\* verify_head_and_commit; the head is SAME when the client is up to date.
Verifies(fold) ==
  /\ fold.left = 0 /\ fold.val # Err
  /\ IF client.size = size THEN fold.val = client.root
     ELSE /\ fold.val = SignedRoot
          /\ Auditing => verify_auditor_tree_head(fold)

\* Tree::set_auditor_head for the head that is on its way.
ConsistencyProof(m) ==
  LET ids == consistency_proof(m, size)
  IN  {resolve_node(ids[i], size, written) : i \in DOMAIN ids}

Accepts(head) ==
  /\ head.size <= size
  /\ head.root = get_root(head.size, written)
  /\ head.size >= auditors.size
  /\ head.size < size => Err \notin ConsistencyProof(head.size)

-----------------------------------------------------------------------------
Init ==
  /\ size = 0 /\ written = 0
  /\ auditor = [size |-> 0, peaks |-> <<>>]
  /\ signed = NoHead /\ auditors = NoHead
  /\ client = [size |-> 0, root |-> Err, subtrees |-> <<>>]

\* apply_batch adds one entry and signs the new root; the leaf of a failed batch is
\* overwritten.
AddEntry ==
  /\ size < MaxSize
  /\ size' = size + 1 /\ written' = size + 1
  /\ UNCHANGED <<auditor, signed, auditors, client>>

\* A batch fails, or the process dies in it, between put_log_batch and set_head: the leaf is
\* in its chunk and the head is the old one.  Which leaf it is does not matter, as no later
\* batch leaves it there.
BatchFails ==
  /\ size < MaxSize /\ written = size
  /\ written' = size + 1
  /\ UNCHANGED <<size, auditor, signed, auditors, client>>

\* The entries up to end, one by one.
Replay(acc, end) ==
  LET after[n \in acc.size .. end] ==
        IF n = acc.size THEN acc ELSE append_leaf(after[n - 1], Leaf(n - 1))
  IN  after[end]

\* process_and_sign up to the signature; nothing is signed when nothing is new.
ProcessAndSign ==
  /\ Auditing /\ signed = NoHead /\ auditor.size < size
  /\ auditor' = Replay(auditor, IF auditor.size + AuditLimit > size THEN size
                                ELSE auditor.size + AuditLimit)
  /\ signed' = [size |-> auditor'.size, root |-> calculate_root(auditor')]
  /\ UNCHANGED <<size, written, auditors, client>>

\* set_auditor_head, whatever was appended since; a refused head changes nothing.
SetAuditorHead ==
  /\ signed # NoHead
  /\ auditors' = IF Accepts(signed) THEN signed ELSE auditors
  /\ signed' = NoHead
  /\ UNCHANGED <<size, written, auditor, client>>

\* A new auditor process adopts the full subtrees of the current head.
Bootstrap ==
  /\ Auditing /\ signed = NoHead /\ size > 0
  /\ auditor' = from_peaks(size, [i \in DOMAIN get_roots(size) |->
                                    resolve_node(get_roots(size)[i], size, written)])
  /\ UNCHANGED <<size, written, signed, auditors, client>>

\* The log restarts: auditor heads are kept in memory only, the leaf of a failed batch is not.
LogRestarts ==
  /\ auditors # NoHead
  /\ auditors' = NoHead
  /\ UNCHANGED <<size, written, auditor, signed, client>>

\* Mutant: the full subtrees of the previous size are retained.
QueryKeepsOld(x) ==
  /\ x < size
  /\ LET fold == Fold(x)
         kept == ToSet(get_roots(client.size)) \cap DOMAIN fold.captured
     IN  /\ Verifies(fold)
         /\ client' = [size |-> size, root |-> fold.val,
                       subtrees |-> [p \in kept |-> fold.captured[p]]]
  /\ UNCHANGED <<size, written, auditor, signed, auditors>>

\* A search, or any operation that ends in verify_head_and_commit; a response that does
\* not verify leaves the client as it was.
Query(x) ==
  /\ x < size
  /\ LET fold == Fold(x)
         kept == ToSet(get_roots(size)) \cap DOMAIN fold.captured
     IN  /\ Verifies(fold)
         /\ client' = [size |-> size, root |-> fold.val,
                       subtrees |-> [p \in kept |-> fold.captured[p]]]
  /\ UNCHANGED <<size, written, auditor, signed, auditors>>

Next ==
  \/ AddEntry \/ BatchFails
  \/ ProcessAndSign \/ SetAuditorHead \/ Bootstrap
  \/ LogRestarts
  \/ \E x \in 0 .. MaxSize - 1 : Query(x)

Spec == Init /\ [][Next]_vars

-----------------------------------------------------------------------------
\* The Merkle tree hash of t[2] entries from t[1] by its recursive definition: the largest
\* power of two below the size goes left.  A lone last entry next to a larger subtree enters
\* the hash without the leaf flag.
TreeHash[t \in Nat \X (Nat \ {0})] ==
  LET lo == t[1]
      n  == t[2]
      k  == IF msb[n] = n THEN n \div 2 ELSE msb[n]
  IN  IF n = 1 THEN Leaf(lo)
      ELSE log_parent_value(TreeHash[<<lo, k>>], k = 1, TreeHash[<<lo + k, n - k>>], n = 2)

\* An honest response always verifies, for any entry, from any earlier head, while the
\* auditor is within max_auditor_lag ("including a lagging auditor's sub-root"): the
\* client consumes exactly the elements the log emitted, also while the chunks hold the
\* leaf of a failed batch.
HonestQueryVerifies ==
  \A x \in 0 .. size - 1 :
    (Auditing => auditors # NoHead /\ size - auditors.size <= MaxLag) => Verifies(Fold(x))

\* What the client holds is the log: its root is the tree hash of its size, and it
\* retained every full subtree, so the next proof may leave them out.
RetainedIsLog ==
  client.size > 0 =>
    /\ client.root = TreeHash[<<0, client.size>>]
    /\ client.subtrees = [p \in ToSet(get_roots(client.size)) |-> ChunkValue[p]]

\* The leaf of a failed batch completes a node over the last entry: get_root reads it too.
Misread == written > size /\ size % 2 = 1 /\ size > 1

\* The auditor's incremental root, replayed in any portions from the start or from a
\* bootstrap, is the tree hash of what it replayed; while the log has not grown past it,
\* set_auditor_head accepts it, except exactly when the leaf of a failed batch completes a
\* node over the last entry; and the log never holds another root for the auditor.
AuditorFollowsLog ==
  /\ auditor.size > 0 => calculate_root(auditor) = TreeHash[<<0, auditor.size>>]
  /\ signed # NoHead /\ signed.size = size => (Accepts(signed) <=> ~Misread)
  /\ auditors # NoHead => auditors.root = TreeHash[<<0, auditors.size>>]
=============================================================================
