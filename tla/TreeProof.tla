----------------------------- MODULE TreeProof -----------------------------
(***************************************************************************)
(* The combined tree proof: how the log assembles one while it walks its   *)
(* entries (TraversalSession, src/tree/walker.rs) and how the client takes *)
(* it apart while it repeats the walk (ProofReader, src/client/core.rs).   *)
(* Neither entry numbers nor versions are on the wire: timestamps, lookup  *)
(* results and prefix roots are queues, and the client reads from them in  *)
(* the order of its own walk.                                              *)
(*                                                                         *)
(* One label is followed.  A log entry is its timestamp and the greatest   *)
(* version of the label in its prefix tree; the prefix root of entry i is  *)
(* i itself.  A prefix proof is the entry it was made in and the versions  *)
(* it looks up; folded with any other version it gives another root.  That *)
(* the inclusion proof fits the visited entries is HeadSync's subject.     *)
(***************************************************************************)
EXTENDS LogMath, Ladders

CONSTANTS
  RMW,        \* reasonable_monitoring_window
  Lifetimes,  \* the values of maximum_lifetime considered; 0 stands for None
  MaxSize,    \* bound on log entries
  MaxTime,    \* bound on the time passed since the first entry
  Versions    \* bound on versions of the label

ASSUME WindowAssumption ==
  RMW \in Nat \ {0} /\ Lifetimes \subseteq Nat /\ {MaxSize, MaxTime, Versions} \subseteq Nat

VARIABLES
  log,
  life  \* maximum_lifetime of this deployment

tree == <<log, life>>
N    == Len(log)

InitTree == log = <<>> /\ life \in Lifetimes

\* Wall-clock time is far larger than any window.
Epoch == RMW + life

\* One entry per batch, with the clock's time; the label's greatest version grows by the
\* number of its updates in the batch.
apply_batch(ts, ver) ==
  /\ Len(log) < MaxSize
  /\ log # <<>> => ts >= Last(log).ts /\ ver >= Last(log).ver
  /\ log' = Append(log, [ts |-> ts, ver |-> ver])
  /\ UNCHANGED life

AnyBatch == \E ts \in Epoch .. Epoch + MaxTime, ver \in Absent .. Versions - 1 : apply_batch(ts, ver)

get_timestamp(i)      == log[i + 1].ts
get_max_version_at(i) == log[i + 1].ver

saturating_sub(a, b) == IF a > b THEN a - b ELSE 0

is_expired(ts, rightmost) == life > 0 /\ saturating_sub(rightmost, ts) >= life

\* A set of entries, left to right.
Ascending(S, n) ==
  LET upto[k \in 0 .. n] == IF k = 0 THEN <<>>
                            ELSE IF k - 1 \in S THEN Append(upto[k - 1], k - 1) ELSE upto[k - 1]
  IN  upto[n]

\* The entries whose interval, between the timestamps of the nearest ancestors on either
\* side, is at least the monitoring window.
find_distinguished_nodes(n) ==
  LET below[s \in (0 .. n - 1) \X Nat \X Nat] ==  \* an entry and the timestamps around it
        LET x  == s[1]
            rc == ibst_right_child(x, n)
        IN  IF saturating_sub(s[3], s[2]) < RMW THEN {}
            ELSE {x}
                 \cup (IF is_leaf(x) THEN {} ELSE below[<<left_child(x), s[2], get_timestamp(x)>>])
                 \cup (IF rc = None THEN {} ELSE below[<<rc, get_timestamp(x), s[3]>>])
  IN  below[<<root(n), 0, get_timestamp(n - 1)>>]

-----------------------------------------------------------------------------
\* TraversalSession: entries in the order their timestamps are sent, prefix proofs in the
\* order of the visits, versions in the order of the response's binary ladder, and the
\* versions whose commitment goes with it.
NewSession == [order |-> <<>>, proofs |-> <<>>, ladder |-> <<>>, comms |-> {}]

add_node(s, node) == IF Contains(s.order, node) THEN s ELSE [s EXCEPT !.order = Append(@, node)]

visit_timestamp_only(s, node) == add_node(s, node)

visit_all(s, nodes) ==
  LET after[k \in 0 .. Len(nodes)] ==
        IF k = 0 THEN s ELSE visit_timestamp_only(after[k - 1], nodes[k])
  IN  after[Len(nodes)]

visit_frontier(s, n) == visit_all(s, get_frontier(n))

\* Mutant: a version looked up before gets another ladder step.
StepsRepeated(s, versions) == versions

\* One ladder step per version, where it is first looked up.
NewSteps(s, versions) == SelectSeq(versions, LAMBDA v : ~Contains(s.ladder, v))

\* The commitment of the version to extract is left out: the client recomputes it.
visit(s, node, versions, extract) ==
  [order  |-> add_node(s, node).order,
   proofs |-> Append(s.proofs, [entry |-> node, versions |-> versions]),
   ladder |-> s.ladder \o NewSteps(s, versions),
   comms  |-> s.comms \cup
              {v \in ToSet(versions) : v <= get_max_version_at(node) /\ v # extract}]

Proved(s) == {s.proofs[k].entry : k \in DOMAIN s.proofs}

\* Mutant: in the order of the visits.
RootlessUnsorted(s, n) == SelectSeq(s.order, LAMBDA x : x \notin Proved(s))

\* Entries without a prefix proof surface their prefix roots, left to right.
rootless(s, n) == Ascending(ToSet(s.order) \ Proved(s), n)

finalize(s, n) ==
  [timestamps |-> [k \in DOMAIN s.order |-> get_timestamp(s.order[k])],
   proofs     |-> s.proofs,
   roots      |-> rootless(s, n),
   visited    |-> ToSet(s.order),
   ladder     |-> [k \in DOMAIN s.ladder |->
                     [version |-> s.ladder[k], comm |-> s.ladder[k] \in s.comms]]]

-----------------------------------------------------------------------------
\* ProofReader, with what the verifier collects beside it: the root of every entry whose
\* proof was read, the ladder slots in order of first lookup (wire_index) and the versions
\* whose commitment was seen (material).  ok is FALSE once the code returned Err.
NewReader(wire) ==
  [ts_idx |-> 0, proof_idx |-> 0, assigned_ts |-> <<>>, entry_roots |-> <<>>,
   wire_index |-> wire, material |-> {}, ok |-> TRUE]

Fail(r) == [r EXCEPT !.ok = FALSE]

\* A map with k set to v.
Insert(map, k, v) == [q \in DOMAIN map \cup {k} |-> IF q = k THEN v ELSE map[q]]

\* An entry read before keeps its timestamp; a new one takes the next and must fit between
\* its neighbours.
timestamp(r, p, pos) ==
  IF ~r.ok \/ pos \in DOMAIN r.assigned_ts THEN r
  ELSE IF r.ts_idx = Len(p.timestamps) THEN Fail(r)
  ELSE LET ts == p.timestamps[r.ts_idx + 1]
       IN  IF \E q \in DOMAIN r.assigned_ts :
                \/ q < pos /\ r.assigned_ts[q] > ts
                \/ q > pos /\ r.assigned_ts[q] < ts
           THEN Fail(r)
           ELSE [r EXCEPT !.ts_idx = @ + 1, !.assigned_ts = Insert(@, pos, ts)]

\* Mutants: one unit more or less than the window.
WiderThanWindow(lo, hi)   == saturating_sub(hi, lo) > RMW
AlmostWideEnough(lo, hi) == saturating_sub(hi, lo) >= RMW - 1

\* The client's own test of an entry's interval.
WideEnough(lo, hi) == saturating_sub(hi, lo) >= RMW

\* The timestamps of several entries, one after the other.
timestamps(r, p, nodes) ==
  LET after[k \in 0 .. Len(nodes)] == IF k = 0 THEN r ELSE timestamp(after[k - 1], p, nodes[k])
  IN  after[Len(nodes)]

\* Every verifier starts with the timestamps of the frontier.
ReadFrontier(p, n, wire) == timestamps(NewReader(wire), p, get_frontier(n))

prefix_proof_left(r, p) == r.ok /\ r.proof_idx < Len(p.proofs)
prefix_proof(r, p)      == p.proofs[r.proof_idx + 1]
results(pp)             == Results(pp.versions, get_max_version_at(pp.entry))

\* record_entry_root: two proofs for one entry must agree.
record_entry_root(r, entry, rt) ==
  IF entry \in DOMAIN r.entry_roots /\ r.entry_roots[entry] # rt THEN Fail(r)
  ELSE [r EXCEPT !.entry_roots = Insert(@, entry, rt)]

\* The lookups decoded from the next proof of an entry are checked one by one: a ladder
\* slot with a VRF proof of that version, a commitment where it is included (the target's
\* is known), and the root they fold to.
fold_lookups(r, p, entry, lookups, target) ==
  LET pp      == prefix_proof(r, p)
      probed  == [j \in DOMAIN lookups |-> lookups[j].version]
      wire    == r.wire_index \o SelectSeq(probed, LAMBDA v : ~Contains(r.wire_index, v))
      slot(v) == CHOOSE k \in DOMAIN wire : wire[k] = v
      found   == Included(lookups)
      next    == [r EXCEPT !.proof_idx = @ + 1, !.wire_index = wire, !.material = @ \cup found]
  IN  IF /\ \A v \in ToSet(probed) :
              slot(v) <= Len(p.ladder) /\ p.ladder[slot(v)].version = v
         /\ \A v \in found : v = target \/ p.ladder[slot(v)].comm
         /\ probed = pp.versions
      THEN record_entry_root(next, entry, pp.entry)
      ELSE Fail(r)

\* finish, and the candidate root against the signed head: all queues are used up and
\* every entry read has the timestamp and the prefix root it has in the log.
finish(r, p, n) ==
  LET read == DOMAIN r.assigned_ts
      bare == Ascending(read \ DOMAIN r.entry_roots, n)
      at(x) == IF x \in DOMAIN r.entry_roots THEN r.entry_roots[x]
               ELSE p.roots[CHOOSE k \in DOMAIN bare : bare[k] = x]
  IN  /\ r.ok
      /\ r.ts_idx = Len(p.timestamps) /\ r.proof_idx = Len(p.proofs)
      /\ Len(bare) = Len(p.roots)
      /\ read = p.visited
      /\ \A x \in read : r.assigned_ts[x] = get_timestamp(x) /\ at(x) = x
=============================================================================
