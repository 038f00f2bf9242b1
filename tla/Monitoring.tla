----------------------------- MODULE Monitoring -----------------------------
(***************************************************************************)
(* Contact and owner monitoring: the log's walks (visit_contact_entries,   *)
(* traverse_owner_init and owner_walk_actions in src/tree/traversal.rs)    *)
(* and the client's replays of them in src/client/core.rs.  A monitoring   *)
(* map is a function from log positions to versions.                       *)
(***************************************************************************)
EXTENDS Search

-----------------------------------------------------------------------------
\* Contact monitoring, the log's side.  From the root towards pos, as long as the entries
\* are distinguished: the entries passed, those distinguished, and whether pos itself is.
DistinguishedPath(pos, n) ==
  LET from[curr \in 0 .. n - 1, lo \in Nat, hi \in Nat] ==
        LET ts   == get_timestamp(curr)
            dist == saturating_sub(hi, lo) >= RMW
            down == IF pos < curr THEN from[left_child(curr), lo, ts]
                    ELSE from[ibst_right_child(curr, n), ts, hi]
        IN  IF curr = pos THEN [passed |-> <<>>, dist |-> {}, pos_dist |-> dist]
            ELSE IF ~dist THEN [passed |-> <<curr>>, dist |-> {}, pos_dist |-> FALSE]
            ELSE [passed |-> <<curr>> \o down.passed, dist |-> {curr} \cup down.dist,
                  pos_dist |-> down.pos_dist]
  IN  from[root(n), 0, get_timestamp(n - 1)]

\* The ancestors to the right of pos, up to the first that is distinguished.
RightAncestors(pos, n, dist) ==
  LET list == Ascending({a \in ToSet(ibst_direct_path(pos, n)) : a > pos}, n)
      cut  == {k \in DOMAIN list : list[k] \in dist}
  IN  IF cut = {} THEN list ELSE SubSeq(list, 1, CHOOSE k \in cut : \A j \in cut : k <= j)

\* ... up to the first that has had its ladder.
Uncovered(list, covered) ==
  LET stop == {k \in DOMAIN list : list[k] \in covered}
  IN  IF stop = {} THEN list ELSE SubSeq(list, 1, (CHOOSE k \in stop : \A j \in stop : k <= j) - 1)

RightToLeft(map, n) == Reverse(Ascending(DOMAIN map, n))

visit_contact_entries(s, map, n) ==
  LET ladder(pos, e, a) == visit(a, e, monitoring_binary_ladder(map[pos]), None)
      entry(a, pos) ==
        LET path  == DistinguishedPath(pos, n)
            s1    == visit_all(a.session, path.passed)
            todo  == IF path.pos_dist THEN <<>>
                     ELSE Uncovered(RightAncestors(pos, n, path.dist), a.covered)
            step(b, e) == ladder(pos, e, b)
        IN  [session |-> FoldLeft(step, s1, todo), covered |-> a.covered \cup ToSet(todo)]
  IN  FoldLeft(entry, [session |-> s, covered |-> {}], RightToLeft(map, n)).session

traverse_contact_monitoring(n, map) ==
  finalize(visit_contact_entries(visit_frontier(NewSession, n), map, n), n)

-----------------------------------------------------------------------------
\* The client's side: the same way down with the timestamps it reads; at is None once the
\* loop is left.  Descend is what the loop does after r1 has read a timestamp.
Descend(r1, pos, n, w) ==
  LET curr == w.at
      ts   == r1.assigned_ts[curr]
  IN  IF ~r1.ok \/ ~WideEnough(w.lo, w.hi) THEN [w EXCEPT !.reader = r1, !.at = None]
      ELSE IF pos < curr
      THEN [w EXCEPT !.reader = r1, !.dist = @ \cup {curr}, !.at = left_child(curr), !.hi = ts]
      ELSE [w EXCEPT !.reader = r1, !.dist = @ \cup {curr}, !.at = ibst_right_child(curr, n), !.lo = ts]

PathStep(p, pos, n, w) ==
  IF w.at = pos THEN [w EXCEPT !.at = None, !.pos_dist = WideEnough(w.lo, w.hi)]
  ELSE Descend(timestamp(w.reader, p, w.at), pos, n, w)

ReadPath(r, p, pos, n) ==
  LET after[k \in 0 .. n] ==
        IF k = 0 THEN [reader |-> r, at |-> root(n), lo |-> 0, hi |-> r.assigned_ts[n - 1],
                       dist |-> {}, pos_dist |-> FALSE]
        ELSE LET w == after[k - 1]
             IN  IF w.at = None THEN w ELSE PathStep(p, pos, n, w)
  IN  after[n]

\* The next proof must be the monitoring ladder of target, every lookup included, folded
\* with commitments the client retained.
verify_monitoring_ladder(r, p, entry, material, target) ==
  LET next == timestamp(r, p, entry)
      pp   == prefix_proof(next, p)
  IN  IF /\ prefix_proof_left(next, p)
         /\ pp.versions = monitoring_binary_ladder(target)
         /\ \A j \in DOMAIN pp.versions : results(pp)[j]
         /\ ToSet(pp.versions) \subseteq material
      THEN record_entry_root([next EXCEPT !.proof_idx = @ + 1], entry, pp.entry)
      ELSE Fail(next)

Without(map, pos) == [q \in DOMAIN map \ {pos} |-> map[q]]

\* Mutant: the version stays at its old position.
MapKeepsPosition(map, pos, todo, hit, dist) == map

\* Mutant: the version is not entered at the new position.
MapDropsMoved(map, pos, todo, hit, dist) ==
  IF hit \/ todo # <<>> THEN Without(map, pos) ELSE map

\* What becomes of a map entry: dropped where a ladder for a greater version covers it,
\* else moved to the last entry whose ladder was verified, unless that is distinguished.
MapAfter(map, pos, todo, hit, dist) ==
  IF hit THEN Without(map, pos)
  ELSE IF todo = <<>> THEN map
  ELSE IF Last(todo) \in dist THEN Without(map, pos)
  ELSE Insert(Without(map, pos), Last(todo), map[pos])

verify_ladders(r, p, nodes, material, target) ==
  LET after[k \in 0 .. Len(nodes)] ==
        IF k = 0 THEN r ELSE verify_monitoring_ladder(after[k - 1], p, nodes[k], material, target)
  IN  after[Len(nodes)]

\* Steps 2 and 3 for one map entry, with the ancestors of the list before the first that has
\* had a ladder still to do.
Climb(a, p, pos, ver, material, path, list, todo) ==
  LET hit == Len(todo) < Len(list)
  IN  IF hit /\ a.targets[list[Len(todo) + 1]] <= ver THEN [a EXCEPT !.reader = Fail(@)]
      ELSE [reader  |-> verify_ladders(path.reader, p, todo, material, ver),
            map     |-> MapAfter(a.map, pos, todo, hit, path.dist),
            targets |-> [e \in ToSet(todo) \cup DOMAIN a.targets |->
                           IF e \in ToSet(todo) THEN ver ELSE a.targets[e]]]

ClimbList(a, p, pos, ver, material, path, list) ==
  Climb(a, p, pos, ver, material, path, list, Uncovered(list, DOMAIN a.targets))

ReplayEntry(a, p, pos, ver, n, material, path) ==
  IF ~a.reader.ok \/ ~path.reader.ok THEN [a EXCEPT !.reader = Fail(@)]
  ELSE IF path.pos_dist THEN [a EXCEPT !.reader = path.reader, !.map = Without(@, pos)]
  ELSE ClimbList(a, p, pos, ver, material, path, RightAncestors(pos, n, path.dist))

\* The reader and the updated map, one map entry after the other from the right; targets are
\* the versions of the ladders verified.
ReplayEntries(r, p, map, n, material, order) ==
  LET after[k \in 0 .. Len(order)] ==
        IF k = 0 THEN [reader |-> r, map |-> map, targets |-> <<>>]
        ELSE ReplayEntry(after[k - 1], p, order[k], map[order[k]], n, material,
                         ReadPath(after[k - 1].reader, p, order[k], n))
  IN  after[Len(order)]

replay_contact_ladders(r, p, map, n, material) ==
  ReplayEntries(r, p, map, n, material, RightToLeft(map, n))

MonitorVerdict(a, p, map, n) ==
  IF finish(a.reader, p, n) THEN [ok |-> TRUE, map |-> a.map] ELSE [ok |-> FALSE, map |-> map]

verify_contact_monitor(n, p, map, material) ==
  LET r0 == ReadFrontier(p, n, <<>>)
  IN  IF r0.ok THEN MonitorVerdict(replay_contact_ladders(r0, p, map, n, material), p, map, n)
      ELSE [ok |-> FALSE, map |-> map]

-----------------------------------------------------------------------------
\* Owner initialization: the start entry and its ancestors to the left, up to the first
\* that has expired, each with the ladder of its own greatest version.
BeforeExpired(list, n) ==
  LET late == {k \in DOMAIN list : is_expired(get_timestamp(list[k]), get_timestamp(n - 1))}
  IN  IF late = {} THEN list ELSE SubSeq(list, 1, (CHOOSE k \in late : \A j \in late : k <= j) - 1)

OwnLadder(s, node) ==
  visit(s, node, EntryLadder(get_max_version_at(node), get_max_version_at(node)), None)

Rises(versions) == \E k \in 2 .. Len(versions) : versions[k - 1] # Absent /\ versions[k] > versions[k - 1]

\* Mutant: an entry without the label counts as one with version 0.
AbsentIsZero(vers) == [k \in DOMAIN vers |-> IF vers[k] = Absent THEN 0 ELSE vers[k]]

greatest_versions(vers) == SelectSeq(vers, LAMBDA v : v # Absent)

traverse_owner_init(n, start) ==
  LET list == BeforeExpired(owner_init_list(start, n), n)
      vers == [k \in DOMAIN list |-> get_max_version_at(list[k])]
  IN  IF Rises(vers) THEN Refusal("NotMonotonic")
      ELSE [kind     |-> "ok",
            proof    |-> finalize(FoldLeft(OwnLadder, visit_frontier(NewSession, n), list), n),
            greatest |-> greatest_versions(vers)]

\* The ladder of an entry whose greatest version is g, decoded and folded.
OwnerFold(r, p, node, g) ==
  LET d == decode_search_ladder(results(prefix_proof(r, p)), IF g = Absent THEN 0 ELSE g)
  IN  IF g = Rejected THEN [reader |-> Fail(r), greatest |-> Absent]
      ELSE [reader |-> fold_lookups(r, p, node, d, None), greatest |-> g]

\* verify_owner_ladder with its bookkeeping: the reader and the entry's greatest version.
owner_ladder(r, p, node) ==
  OwnerFold(r, p, node,
            IF prefix_proof_left(r, p) THEN verify_owner_ladder(results(prefix_proof(r, p)))
            ELSE Rejected)

\* The client reads an entry's timestamp before it can tell that the entry has expired.
verify_owner_init(n, start, resp) ==
  LET p  == resp.proof
      r0 == ReadFrontier(p, n, <<>>)
      step(a, node) ==
        LET r1 == timestamp(a.reader, p, node)
            o  == owner_ladder(r1, p, node)
        IN  IF a.done \/ ~a.reader.ok THEN a
            ELSE IF ~r1.ok THEN [a EXCEPT !.reader = r1]
            ELSE IF is_expired(r1.assigned_ts[node], r1.assigned_ts[n - 1])
            THEN [a EXCEPT !.reader = r1, !.done = TRUE]
            ELSE [done     |-> FALSE,
                  reader   |-> IF Rises(Append(a.versions, o.greatest)) THEN Fail(r1) ELSE o.reader,
                  versions |-> IF o.greatest = Absent THEN a.versions
                               ELSE Append(a.versions, o.greatest)]
  IN  /\ r0.ok /\ ~Rises(resp.greatest)
      /\ \E a \in {FoldLeft(step, [reader |-> r0, done |-> FALSE, versions |-> <<>>],
                              owner_init_list(start, n))} :
           /\ finish(a.reader, p, n)
           /\ Len(a.versions) = Len(resp.greatest)
           /\ Len(p.ladder) = Len(a.reader.wire_index)

-----------------------------------------------------------------------------
\* Owner monitoring: after the contact entries, the distinguished entries to the right of
\* start, in order, each with the ladder of its greatest version.
owner_walk_actions(start, n) ==
  LET from[x \in 0 .. n - 1, left \in Nat, right \in Nat] ==
        LET ts == get_timestamp(x)
            rc == ibst_right_child(x, n)
        IN  IF saturating_sub(right, left) < RMW THEN <<>>
            ELSE <<[node |-> x, ladder |-> FALSE]>>
                 \o (IF x <= start \/ is_leaf(x) THEN <<>> ELSE from[left_child(x), left, ts])
                 \o (IF x <= start THEN <<>> ELSE <<[node |-> x, ladder |-> TRUE]>>)
                 \o (IF rc = None THEN <<>> ELSE from[rc, ts, right])
  IN  from[root(n), 0, get_timestamp(n - 1)]

traverse_owner_monitor(n, map, start) ==
  LET step(s, a) == IF a.ladder THEN OwnLadder(s, a.node) ELSE visit_timestamp_only(s, a.node)
  IN  finalize(FoldLeft(step, visit_contact_entries(visit_frontier(NewSession, n), map, n),
                        owner_walk_actions(start, n)), n)

\* Mutant: one version more is tolerated.
FarAbove(greatest, bound) == greatest > bound + 1

Unexpected(greatest, bound) == greatest > bound

\* The client's recursion with its stack: what is left to do at the entries above, the next
\* thing on top.  Entering an entry reads its timestamp; the ladder comes after the left child.
Enter(x, lo, hi) == IF x = None THEN <<>> ELSE <<[node |-> x, ladder |-> FALSE, lo |-> lo, hi |-> hi]>>

\* Step 5, with the outcome o of the ladder.
OwnerRated(o, bound, w) ==
  [reader |-> IF Unexpected(o.greatest, bound) THEN Fail(w.reader) ELSE o.reader,
   stack  |-> Front(w.stack)]

\* The other steps, after r1 has read the timestamp of the entry.
OwnerEntered(r1, start, n, w) ==
  LET task == Last(w.stack)
      x    == task.node
      ts   == r1.assigned_ts[x]
  IN  IF ~r1.ok THEN [reader |-> r1, stack |-> <<>>]
      ELSE [reader |-> r1,
            stack  |-> Front(w.stack)
                       \o Enter(ibst_right_child(x, n), ts, task.hi)
                       \o (IF x <= start THEN <<>> ELSE <<[task EXCEPT !.ladder = TRUE]>>)
                       \o (IF x <= start \/ is_leaf(x) THEN <<>> ELSE Enter(left_child(x), task.lo, ts))]

OwnerStep(p, start, n, bound, w) ==
  LET task == Last(w.stack)
  IN  IF task.ladder THEN OwnerRated(owner_ladder(w.reader, p, task.node), bound, w)
      ELSE IF ~WideEnough(task.lo, task.hi) THEN [w EXCEPT !.stack = Front(@)]
      ELSE OwnerEntered(timestamp(w.reader, p, task.node), start, n, w)

\* Every entry is entered once and has at most one ladder.
replay_owner_walk(r, p, start, n, bound) ==
  LET after[k \in 0 .. 2 * n] ==
        IF k = 0 THEN [reader |-> r, stack |-> Enter(root(n), 0, r.assigned_ts[n - 1])]
        ELSE LET w == after[k - 1]
             IN  IF w.stack = <<>> \/ ~w.reader.ok THEN w ELSE OwnerStep(p, start, n, bound, w)
  IN  after[2 * n].reader

\* Accepted or not; the updated map of the contact part is dropped.
verify_owner_monitor(n, p, map, start, bound, material) ==
  LET r0 == ReadFrontier(p, n, <<>>)
      a  == replay_contact_ladders(r0, p, map, n, material)
  IN  /\ r0.ok
      /\ \E r \in {replay_owner_walk(a.reader, p, start, n, bound)} :
           /\ finish(r, p, n)
           /\ r.wire_index = <<>> \/ Len(p.ladder) = Len(r.wire_index)
=============================================================================
