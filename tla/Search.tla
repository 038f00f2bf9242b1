------------------------------- MODULE Search -------------------------------
(***************************************************************************)
(* Searches: the log's walks for a given version and for the greatest one  *)
(* (src/tree/traversal.rs) and the client's replay of them                 *)
(* (verify_search_response in src/client/core.rs).                         *)
(***************************************************************************)
EXTENDS TreeProof, FiniteSets

-----------------------------------------------------------------------------
\* The log's side.  A walk is its session, whether it met an expired entry, the entries it
\* left to the right, the entries it inspected, and where it found the target.
FixedWalk(n, target) ==
  LET late(x)  == is_expired(get_timestamp(x), get_timestamp(n - 1))
      g(x)     == get_max_version_at(x)
      on(x)    == IF late(x) \/ g(x) < target THEN ibst_right_child(x, n)
                  ELSE IF g(x) = target \/ is_leaf(x) THEN None ELSE left_child(x)
      from[x \in 0 .. n - 1] == <<x>> \o (IF on(x) = None THEN <<>> ELSE from[on(x)])
      path     == from[root(n)]
      step(s, x) == IF late(x) THEN visit_timestamp_only(s, x)
                    ELSE visit(s, x, EntryLadder(target, g(x)), IF g(x) = target THEN target ELSE None)
  IN  [session   |-> FoldLeft(step, visit_frontier(NewSession, n), path),
       expired   |-> \E x \in ToSet(path) : late(x),
       left      |-> {x \in ToSet(path) : x < on(x)},
       inspected |-> {x \in ToSet(path) : ~late(x)},
       found     |-> IF late(Last(path)) \/ g(Last(path)) # target THEN None ELSE Last(path)]

\* Mutant: the other end.
Rightmost(S) == CHOOSE x \in S : \A y \in S : x >= y

Leftmost(S) == CHOOSE x \in S : \A y \in S : x <= y

Response(session, n, version) ==
  [kind |-> "ok", version |-> version, proof |-> finalize(session, n)]
Refusal(kind) == [kind |-> kind]

\* Step 5.2: the entry found, or one passed on its left, is distinguished and unexpired.
Reachable(w, valid) == ({w.found} \cup w.left) \cap valid # {}

\* The distinguished entries that have not expired.
Unexpired(n) ==
  {x \in find_distinguished_nodes(n) : ~is_expired(get_timestamp(x), get_timestamp(n - 1))}

\* Steps 5 and 6, after the walk w.
AnswerOf(w, valid, n, target) ==
  LET above == {x \in w.inspected : get_max_version_at(x) > target}
      id    == Leftmost(above)
  IN  IF w.found # None
      THEN IF w.expired /\ ~Reachable(w, valid) THEN Refusal("Expired")
           ELSE Response(w.session, n, target)
      ELSE IF above = {} THEN Refusal("Unavailable")
      ELSE IF w.expired /\ \A x \in valid : x >= id THEN Refusal("Expired")
      ELSE Response(visit(w.session, id, <<target>>, target), n, target)

traverse_fixed_search(n, target) ==
  AnswerOf(FixedWalk(n, target), Unexpired(n), n, target)

traverse_greatest_search(n) ==
  LET target      == get_max_version_at(n - 1)
      ladder(s, x) == visit(s, x, EntryLadder(target, get_max_version_at(x)),
                            IF x = n - 1 THEN target ELSE None)
  IN  IF target = Absent THEN Refusal("Unavailable")
      ELSE Response(FoldLeft(ladder, visit_frontier(NewSession, n), get_frontier(n)), n, target)

-----------------------------------------------------------------------------
\* The client's side.
Relation(lookups, target) ==
  IF \E j \in DOMAIN lookups : ~lookups[j].inclusion /\ lookups[j].version <= target
  THEN "less"
  ELSE IF \E j \in DOMAIN lookups : lookups[j].inclusion /\ lookups[j].version > target
  THEN "greater" ELSE "equal"

\* The lookups of the next proof; BadLadder when there is none or it does not decode.
decoded(r, p, target) ==
  IF prefix_proof_left(r, p) THEN decode_search_ladder(results(prefix_proof(r, p)), target)
  ELSE BadLadder

verify_ladder_proof(r, p, entry, target) ==
  LET d == decoded(r, p, target)
  IN  IF d = BadLadder THEN Fail(r) ELSE fold_lookups(r, p, entry, d, target)

\* ... for a claim that target is the greatest version: nothing above it is included, at
\* the rightmost entry everything up to it is, and no absent version has a commitment.
verify_greatest_ladder(r, p, entry, target, rightmost) ==
  LET d    == decoded(r, p, target)
      next == verify_ladder_proof(r, p, entry, target)
      rel  == Relation(d, target)
      step(v) == CHOOSE k \in DOMAIN next.wire_index : next.wire_index[k] = v
  IN  IF /\ next.ok /\ rel # "greater"
         /\ entry = rightmost =>
              rel = "equal" /\ [j \in DOMAIN d |-> d[j].version] = base_binary_ladder(target)
         /\ \A j \in DOMAIN d :
              ~d[j].inclusion /\ d[j].version > target => ~p.ladder[step(d[j].version)].comm
      THEN next ELSE Fail(r)

single_lookup(r, p, version) ==
  <<[version |-> version, inclusion |-> results(prefix_proof(r, p))[1]]>>

\* §7.2 step 6.3: one lookup, of the target; its material is not kept.
verify_single_lookup(r, p, entry, version) ==
  IF ~prefix_proof_left(r, p) \/ Len(results(prefix_proof(r, p))) # 1 THEN Fail(r)
  ELSE IF ~results(prefix_proof(r, p))[1] THEN Fail(r)
  ELSE [fold_lookups(r, p, entry, single_lookup(r, p, version), version)
          EXCEPT !.material = r.material]

\* One iteration of the replay of FixedWalk at w.curr, None once the loop is left: r has read
\* the entry, and rel is how the label compares there, or "late" for an expired entry.  The
\* client decides itself which entries are distinguished, from the interval lo .. hi it
\* carries; left holds those that were also unexpired.
Turn(n, w, r, rel) ==
  LET curr == w.curr
      ts   == r.assigned_ts[curr]
      dist == w.dist /\ WideEnough(w.lo, w.hi)
      rc   == ibst_right_child(curr, n)
      here == [w EXCEPT !.reader = r, !.curr = None, !.expired = @ \/ rel = "late",
                        !.above = @ \cup (IF rel = "greater" THEN {curr} ELSE {})]
      side == IF dist /\ rel # "late" THEN {curr} ELSE {}
  IN  IF ~r.ok THEN [w EXCEPT !.reader = r, !.curr = None]
      ELSE IF rel \in {"late", "less"}
      THEN IF rc = None THEN here
           ELSE [here EXCEPT !.curr = rc, !.left = @ \cup side, !.lo = ts, !.dist = dist]
      ELSE IF rel = "equal"
      THEN IF w.expired /\ w.left \cup side = {} THEN [here EXCEPT !.reader = Fail(r)]
           ELSE [here EXCEPT !.found = curr]
      ELSE IF is_leaf(curr) THEN here
      ELSE [here EXCEPT !.curr = left_child(curr), !.hi = ts, !.dist = dist]

\* ... after r1 has read the timestamp of the entry.
Inspect(n, p, target, w, r1) ==
  IF r1.ok /\ ~is_expired(r1.assigned_ts[w.curr], r1.assigned_ts[n - 1])
  THEN Turn(n, w, verify_ladder_proof(r1, p, w.curr, target), Relation(decoded(r1, p, target), target))
  ELSE Turn(n, w, r1, "late")

SimulateStep(n, p, target, w) == Inspect(n, p, target, w, timestamp(w.reader, p, w.curr))

\* The whole loop: a walk down the tree is no longer than the log.
SimulateWalk(n, p, target, start) ==
  LET after[k \in 0 .. n] ==
        IF k = 0 THEN start
        ELSE LET w == after[k - 1]
             IN  IF w.curr = None THEN w ELSE SimulateStep(n, p, target, w)
  IN  after[n]

\* The reader after the walk w and step 6, and the terminal entry.
Terminal(w, p, target) ==
  LET id == Leftmost(w.above)
  IN  IF ~w.reader.ok \/ w.found # None THEN [reader |-> w.reader, terminal |-> w.found]
      ELSE IF w.above = {} \/ (w.expired /\ \A x \in w.left : x >= id)
      THEN [reader |-> Fail(w.reader), terminal |-> None]
      ELSE [reader |-> verify_single_lookup(w.reader, p, id, target), terminal |-> id]

simulate_fixed_search(n, p, target) ==
  LET r0 == ReadFrontier(p, n, <<>>)
  IN  IF ~r0.ok THEN [reader |-> r0, terminal |-> None]
      ELSE Terminal(SimulateWalk(n, p, target,
                      [curr |-> root(n), reader |-> r0, lo |-> 0, hi |-> r0.assigned_ts[n - 1], dist |-> TRUE,
                       expired |-> FALSE, left |-> {}, above |-> {}, found |-> None]),
                    p, target)

FirstEqual(terminal, entry, rel) == IF terminal = None /\ rel = "equal" THEN entry ELSE terminal

\* §6.3: all frontier entries against the claimed version; the terminal entry is the first
\* that has it.
replay_greatest_search(n, p, target) ==
  LET base == base_binary_ladder(target)
      step(a, x) ==
        LET r == verify_greatest_ladder(a.reader, p, x, target, n - 1)
        IN  [reader   |-> r,
             terminal |-> IF ~r.ok THEN a.terminal
                          ELSE FirstEqual(a.terminal, x, Relation(decoded(a.reader, p, target), target))]
  IN  IF Len(p.ladder) # Len(base) THEN [reader |-> Fail(NewReader(base)), terminal |-> None]
      ELSE FoldLeft(step, [reader |-> ReadFrontier(p, n, base), terminal |-> None],
                    get_frontier(n))

\* Whether the client accepts after the replay a, the terminal entry it will monitor and the
\* versions whose commitment it retains for that.
Verdict(a, p, n) ==
  [ok       |-> finish(a.reader, p, n) /\ Len(p.ladder) = Len(a.reader.wire_index),
   terminal |-> a.terminal,
   material |-> a.reader.material]

verify_search_response(n, resp, greatest) ==
  Verdict(IF greatest THEN replay_greatest_search(n, resp.proof, resp.version)
          ELSE simulate_fixed_search(n, resp.proof, resp.version), resp.proof, n)
=============================================================================
