----------------------------- MODULE PrefixTree -----------------------------
(***************************************************************************)
(* The prefix tree of src/tree/prefix: an append-only list of entries, one *)
(* per inserted key, each with the siblings of its path (copath) and, where *)
(* a sibling is not empty, a pointer to the entry that knows the subtree    *)
(* below it.  A tree is the position of its last entry.  The module holds   *)
(* the insertion of a batch, the entry cache, the proofs of a lookup, their *)
(* folding by the client (compute_root_from_result) and the auditor's       *)
(* transition from tree to tree (verify_and_transition).                    *)
(*                                                                         *)
(* Keys are VRF outputs: each version of each label has its own, so a batch *)
(* only brings keys its base tree does not have, and every entry is a leaf. *)
(* A key is the function of its bits, the first bit at 1.  A hash is the    *)
(* term it was computed from.                                               *)
(***************************************************************************)
EXTENDS Integers, Sequences, FiniteSets, SequencesExt

CONSTANTS
  Height,      \* bits of a key; 256 in the code
  MaxBatch,    \* bound on keys per batch
  MaxEntries,  \* bound on keys inserted, failed batches included
  MaxFailures, \* bound on failed batches and restarts
  FirstKeys    \* keys the first insertion is chosen from: turning the same bits in all keys
               \* mirrors the tree, so that one of them stands for all

Keys == [1 .. Height -> {0, 1}]

ASSUME HeightAssumption ==
  /\ Height \in Nat \ {0} /\ {MaxBatch, MaxEntries, MaxFailures} \subseteq Nat
  /\ FirstKeys \subseteq Keys

VARIABLES
  store,     \* prefix entries by position
  cache,     \* node_cache
  next,      \* next_prefix_version
  log,       \* per log entry: prefix pointer, prefix root and audit record
  content,   \* ghost: per log entry, the commitment of every key in its tree
  failures   \* failed batches; the count also makes the openings of a retry new

vars == <<store, cache, next, log, content, failures>>

None == -1

\* The values of new, and those of old where new has none.
Over(new, old) == [x \in DOMAIN new \cup DOMAIN old |-> IF x \in DOMAIN new THEN new[x] ELSE old[x]]

Zero         == <<>>
leaf_hash(k, c)   == <<0, k, c>>
parent_hash(l, r) == <<1, l, r>>

get_bit(k, n) == k[n + 1]

\* The first bits of a key, the rest cleared.  A node of the tree is a level and the bits
\* above it, which any key below it has.
masked(k, level) == [x \in 1 .. Height |-> IF x <= level THEN k[x] ELSE 0]

\* A key on the other side below the node of k at that level.
turned(k, level) == [k EXCEPT ![level + 1] = 1 - @]

Combine(bit, here, sibling) == IF bit = 1 THEN parent_hash(sibling, here) ELSE parent_hash(here, sibling)

\* The hashes on the way of a key, by level, from the bottom up; a missing sibling is empty.
Upward(key, siblings, bottom) ==
  LET up[level \in 0 .. bottom.level] ==
        IF level = bottom.level THEN bottom.hash
        ELSE Combine(get_bit(key, level), up[level + 1],
                     IF level < Len(siblings) THEN siblings[level + 1] ELSE Zero)
  IN  up

Leaf(key, commitment) == [level |-> Height, hash |-> leaf_hash(key, commitment)]

-----------------------------------------------------------------------------
hashes(copath) == [x \in DOMAIN copath |-> copath[x].hash]

rollup(e, level) == Upward(e.index, hashes(e.copath), Leaf(e.index, e.commitment))[level]

at(e, level) == IF level < Len(e.copath) THEN e.copath[level + 1] ELSE [hash |-> Zero, ptr |-> None]

\* The first level from n on where the keys part.
Parting(k, target, n) ==
  CHOOSE d \in n .. Height - 1 : /\ get_bit(k, d) # get_bit(target, d)
                                 /\ \A x \in n .. d - 1 : get_bit(k, x) = get_bit(target, x)

combine_copaths(primary, secondary) ==
  IF Len(secondary) <= Len(primary) THEN primary
  ELSE [x \in DOMAIN secondary |-> IF x <= Len(primary) THEN primary[x] ELSE secondary[x]]

\* One entry on the way to the target: found, or the copath is extended along the bits they
\* share and by the entry's own subtree where they part, and the way goes on from the
\* entry's sibling there.
step(target, ptr, copath, e) ==
  LET n      == Len(copath)
      d      == Parting(e.index, target, n)
      longer == [x \in 1 .. d + 1 |-> IF x <= n THEN copath[x] ELSE IF x <= d THEN at(e, x - 1)
                                     ELSE [hash |-> rollup(e, d + 1), ptr |-> ptr]]
  IN  IF e.index = target
      THEN [kind |-> "found", ptr |-> ptr, copath |-> combine_copaths(copath, e.copath)]
      ELSE IF at(e, d).ptr # None
      THEN [kind |-> "continue", ptr |-> at(e, d).ptr, copath |-> longer]
      ELSE [kind |-> "failed", ptr |-> ptr, copath |-> longer]

\* Steps from the entry at ptr until the target is found or missing; each one but the last
\* goes down a level at least.
Walk(read, target, ptr) ==
  LET visit[i \in 0 .. Height + 1] ==
        IF i = 0 THEN [kind |-> "continue", ptr |-> ptr, copath |-> <<>>]
        ELSE LET v == visit[i - 1]
             IN  IF v.kind = "continue" THEN step(target, v.ptr, v.copath, read[v.ptr]) ELSE v
  IN  visit[Height + 1]

\* get_entry: the cache before the store.
Readable == Over(cache, store)

insert_internal(read, ptr, key, commitment) ==
  [index |-> key, commitment |-> commitment,
   copath |-> IF ptr = None THEN <<>> ELSE Walk(read, key, ptr).copath]

\* Mutant: every key is inserted into the tree the batch started from.
FromBase(base, pos, first) == base

\* The tree the next key of a batch is inserted into.
Onto(base, pos, first) == IF pos = first THEN base ELSE pos - 1

\* The new entries by position; later keys see the earlier ones through the overlay.
batch_insert(base, batch) ==
  LET overlay[i \in 0 .. Len(batch)] ==
        IF i = 0 THEN <<>>
        ELSE LET pos == next + i - 1
             IN  Over([p \in {pos} |-> insert_internal(Over(overlay[i - 1], Readable), Onto(base, pos, next),
                                                      batch[i].key, batch[i].commitment)],
                      overlay[i - 1])
  IN  overlay[Len(batch)]

\* What a lookup in the tree at ptr returns; the leaf a missing key ran into goes along.
search_for_proof(ptr, key) ==
  LET w == Walk(Readable, key, ptr)
  IN  [type     |-> IF w.kind = "found" THEN 1 ELSE 2,
       leaf     |-> [key |-> Readable[w.ptr].index, commitment |-> Readable[w.ptr].commitment],
       elements |-> hashes(w.copath)]

-----------------------------------------------------------------------------
\* The root a lookup folds to; Rejected where the code returns Err.
Rejected == <<2>>

compute_root_from_result(key, result, commitment) ==
  IF result.type = 1 THEN Upward(key, result.elements, Leaf(key, commitment))[0]
  ELSE IF result.type = 2 /\ result.leaf.key = key THEN Rejected
  ELSE Upward(key, result.elements, [level |-> Len(result.elements), hash |-> Zero])[0]

-----------------------------------------------------------------------------
\* PartialPrefixTree: hashes by level and path.
has_descendant(nodes, level, path) == \E n \in DOMAIN nodes : n[1] > level /\ masked(n[2], level) = path

resolve(nodes, level, path) ==
  LET hash[n \in (0 .. Height) \X Keys] ==
        IF n \in DOMAIN nodes THEN nodes[n]
        ELSE IF n[1] = Height \/ ~has_descendant(nodes, n[1], n[2]) THEN Zero
        ELSE parent_hash(hash[<<n[1] + 1, n[2]>>], hash[<<n[1] + 1, turned(n[2], n[1])>>])
  IN  hash[<<level, path>>]

root(nodes) == resolve(nodes, 0, [x \in 1 .. Height |-> 0])

set_leaf(nodes, k, c) == Over([n \in {<<Height, k>>} |-> leaf_hash(k, c)], nodes)

\* Mutant: no element is derived from other keys.
CoversNothing(keys, key, level, path) == FALSE

\* The sibling lies above another key of the batch: it is compared with what that key's own
\* path gives, instead of taken from the proof.
covers_batch_key(keys, key, level, path) == \E k \in keys \ {key} : masked(k, level) = path

\* The other node below the parent of the key's node at a level.
beside(key, level) == masked(turned(key, level - 1), level)

\* The nodes after the lookup of one added key, and the covering elements met.
Absorb(keys, a, key, result) ==
  LET leafed  == IF result.type = 2 THEN set_leaf(a.nodes, result.leaf.key, result.leaf.commitment) ELSE a.nodes
      levels  == DOMAIN result.elements
      covered == {level \in levels : covers_batch_key(keys, key, level, beside(key, level))}
      given   == [n \in {<<level, beside(key, level)>> : level \in levels \ covered} |-> result.elements[n[1]]]
      bad     == result.type = 1 \/ (result.type = 2 /\ result.leaf.key = key)
  IN  [nodes    |-> Over(given, leafed),
       covering |-> a.covering \cup {<<level, beside(key, level), result.elements[level]>> : level \in covered},
       ok       |-> a.ok /\ ~bad /\ \A n \in DOMAIN given \cap DOMAIN leafed : given[n] = leafed[n]]

verify_and_transition(old_root, added, results) ==
  LET keys == {added[x].key : x \in DOMAIN added}
      absorbed[x \in 0 .. Len(added)] ==
        IF x = 0 THEN [nodes |-> <<>>, covering |-> {}, ok |-> TRUE]
        ELSE Absorb(keys, absorbed[x - 1], added[x].key, results[x])
      a == absorbed[Len(added)]
      commitment(k) == added[CHOOSE x \in DOMAIN added : added[x].key = k].commitment
  IN  IF /\ a.ok /\ Len(results) = Len(added)
         /\ \A c \in a.covering : resolve(a.nodes, c[1], c[2]) = c[3]
         /\ root(a.nodes) = old_root
      THEN root(Over([n \in {Height} \X keys |-> leaf_hash(n[2], commitment(n[2]))], a.nodes))
      ELSE Rejected

-----------------------------------------------------------------------------
Init == /\ store = <<>> /\ cache = <<>> /\ next = 0
        /\ log = <<>> /\ content = <<>> /\ failures = 0

Base    == IF log = <<>> THEN None ELSE Last(log).ptr
Present == IF log = <<>> THEN {} ELSE DOMAIN Last(content)

Batches == {[x \in DOMAIN s |-> [key |-> s[x], commitment |-> failures]] :
              s \in {q \in UNION {[1 .. n -> Keys \ Present] :
                                    n \in {m \in 1 .. MaxBatch : next + m <= MaxEntries}} :
                       /\ \A x, y \in DOMAIN q : q[x] = q[y] => x = y
                       /\ store = <<>> => q[1] \in FirstKeys}}

\* Mutant: an entry in the cache stays.
CacheKeepsOld(new) == Over(cache, new)

CacheAfter(new) == Over(new, cache)

\* put_prefix_batch and the cache.
Insert(batch) ==
  /\ LET new == batch_insert(Base, batch)
     IN  store' = Over(new, store) /\ cache' = CacheAfter(new)

\* The order of the keys in an audit record.
Before(k, j) == \E x \in 1 .. Height : k[x] < j[x] /\ \A y \in 1 .. x - 1 : k[y] = j[y]

Sorted(batch) ==
  LET order == CHOOSE p \in [DOMAIN batch -> DOMAIN batch] :
                 /\ \A y \in DOMAIN batch : \E x \in DOMAIN batch : p[x] = y
                 /\ \A x, y \in DOMAIN batch : x < y => Before(batch[p[x]].key, batch[p[y]].key)
  IN  [x \in DOMAIN batch |-> batch[order[x]]]

AuditRecord(batch) ==
  LET added == Sorted(batch)
  IN  [added   |-> added,
       results |-> [x \in DOMAIN added |->
                      IF Base = None THEN [type |-> 3, elements |-> <<>>]
                      ELSE search_for_proof(Base, added[x].key)]]

\* The map with the first n keys of the batch.
Added(map, batch, n) ==
  Over([k \in {batch[x].key : x \in 1 .. n} |-> batch[CHOOSE x \in 1 .. n : batch[x].key = k].commitment], map)

apply_batch(batch) ==
  /\ Insert(batch)
  /\ next' = next + Len(batch)
  /\ log' = Append(log, [ptr |-> next' - 1, root |-> rollup(store'[next' - 1], 0), audit |-> AuditRecord(batch)])
  /\ content' = Append(content, Added(IF content = <<>> THEN <<>> ELSE Last(content), batch, Len(batch)))
  /\ UNCHANGED failures

\* A later write of apply_batch fails, before or after the next position was moved on.
BatchFails(batch) ==
  /\ failures < MaxFailures
  /\ failures' = failures + 1
  /\ Insert(batch)
  /\ next' \in {next, next + Len(batch)}
  /\ UNCHANGED <<log, content>>

\* The process is restarted with an empty cache.
Restart ==
  /\ failures < MaxFailures
  /\ failures' = failures + 1
  /\ cache' = <<>>
  /\ UNCHANGED <<store, next, log, content>>

\* A lookup in a committed tree loads the entries on its way, one at a time.
get_entry(i, key) ==
  LET p == Walk(Readable, key, log[i].ptr).ptr
  IN  /\ p \notin DOMAIN cache
      /\ cache' = Over([q \in {p} |-> store[p]], cache)
      /\ UNCHANGED <<store, next, log, content, failures>>

Next == \/ \E batch \in Batches : apply_batch(batch) \/ BatchFails(batch)
        \/ Restart
        \/ \E i \in DOMAIN log, key \in Keys : get_entry(i, key)

Spec == Init /\ [][Next]_vars

-----------------------------------------------------------------------------
\* The definition of the tree, by level and a key below the node: an empty subtree is zero, a
\* leaf is at full depth.
Merkle(map) ==
  LET hash[n \in (0 .. Height) \X Keys] ==
        IF \A k \in DOMAIN map : masked(k, n[1]) # masked(n[2], n[1]) THEN Zero
        ELSE IF n[1] = Height THEN leaf_hash(n[2], map[n[2]])
        ELSE Combine(get_bit(n[2], n[1]), hash[<<n[1] + 1, n[2]>>], hash[<<n[1] + 1, turned(n[2], n[1])>>])
  IN  hash

\* The root stored for a log entry is the Merkle root of exactly the keys committed up to
\* it, whatever order they came in and whatever failed batches left in store and cache.
RootIsContent == \A i \in DOMAIN log : \A k \in DOMAIN content[i] : log[i].root = Merkle(content[i])[<<0, k>>]

\* Every lookup, in the latest tree and in every earlier one, tells whether the key is there
\* and folds to the root stored for that entry: later insertions, reused positions and
\* cached entries never disturb an older tree.
LookupsVerify ==
  \A i \in DOMAIN log, key \in Keys :
    LET result == search_for_proof(log[i].ptr, key)
    IN  /\ result.type = 1 <=> key \in DOMAIN content[i]
        /\ compute_root_from_result(key, result, result.leaf.commitment) = log[i].root

\* The auditor, from the root of one entry and the audit record of the next, arrives at that
\* entry's root, also when the keys of a batch share a path or run into the same leaf.
TransitionsVerify ==
  \A i \in DOMAIN log :
    verify_and_transition(IF i = 1 THEN Zero ELSE log[i - 1].root,
                          log[i].audit.added, log[i].audit.results) = log[i].root
=============================================================================
