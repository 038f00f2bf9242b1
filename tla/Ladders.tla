------------------------------ MODULE Ladders ------------------------------
(***************************************************************************)
(* The binary ladders of src/tree/binary_ladder.rs, by which the log shows *)
(* how the greatest version of a label compares with a target, and their   *)
(* decoding in src/client/core.rs, where only the outcome of each lookup   *)
(* is on the wire and the client has to recover the versions.  MaxVersion  *)
(* stands for u32::MAX.                                                    *)
(***************************************************************************)
EXTENDS Integers, Sequences, SequencesExt

CONSTANT MaxVersion

\* u32::MAX is far above the least versions; a smaller width is a power of two minus one too.
ASSUME WidthAssumption == MaxVersion \in Nat /\ (MaxVersion \in {1, 3, 7} \/ MaxVersion >= 15)

Absent   == -1
Rejected == -2

-----------------------------------------------------------------------------
\* From 2^k - 1 to 2^(k+1) - 1, at most u32::MAX.
Double(v) == IF 2 * v + 1 > MaxVersion THEN MaxVersion ELSE 2 * v + 1

\* The powers of two minus one, up to the first that exceeds g or to u32::MAX.
Doubling(g) ==
  LET from[v \in 0 .. MaxVersion] ==
        IF v > g \/ v = MaxVersion THEN <<v>> ELSE <<v>> \o from[Double(v)]
  IN  from[0]

Middle(lower, upper) == lower + ((upper - lower) \div 2)

\* The bounds after a lookup.
Narrowed(bounds, v, included) == IF included THEN <<v, bounds[2]>> ELSE <<bounds[1], v>>

\* The midpoints probed between an included and a missing version.
Bisect(lower, upper, g) ==
  LET between[b \in Nat \X Nat] ==
        LET v == Middle(b[1], b[2])
        IN  IF b[2] - b[1] <= 1 THEN <<>> ELSE <<v>> \o between[Narrowed(b, v, v <= g)]
  IN  between[<<lower, upper>>]

base_binary_ladder(g) ==
  LET out == Doubling(g)
  IN  IF Len(out) >= 2 /\ Last(out) > g
      THEN out \o Bisect(out[Len(out) - 1], Last(out), g)
      ELSE out

\* Mutant: finding the target itself ends the ladder.
SettlesAtTarget(v, target, g) == (v <= g /\ v >= target) \/ (v > g /\ v <= target)

\* A lookup settles the comparison with the target.
Settles(v, target, g) == (v <= g /\ v > target) \/ (v > g /\ v <= target)

\* With nothing to leave out, as traverse_fixed_search and the owner walk call it.
search_binary_ladder(target, g) ==
  LET out  == base_binary_ladder(g)
      ends == {i \in DOMAIN out : Settles(out[i], target, g)}
  IN  IF ends = {} THEN out ELSE SubSeq(out, 1, CHOOSE i \in ends : \A k \in ends : i <= k)

\* Mutant: versions above the target are kept.
MonitoringUnfiltered(target) == base_binary_ladder(target)

monitoring_binary_ladder(target) ==
  LET out == base_binary_ladder(target)
      kept[k \in 0 .. Len(out)] ==
        IF k = 0 THEN <<>> ELSE IF out[k] <= target THEN Append(kept[k - 1], out[k]) ELSE kept[k - 1]
  IN  kept[Len(out)]

\* The ladder the log walks in one entry: a label that is absent takes one probe.
EntryLadder(target, g) == IF g = Absent THEN <<0>> ELSE search_binary_ladder(target, g)

\* result_type == 1 for every lookup of the ladder: what the client receives.
Results(ladder, g) == [i \in DOMAIN ladder |-> ladder[i] <= g]

-----------------------------------------------------------------------------
BadLadder == <<>>

\* No lookup has been missing yet.
Unbounded == MaxVersion + 1

\* Before the first lookup: none is included, none is missing.
Undecided == [out |-> <<>>, bounds |-> <<Absent, Unbounded>>, over |-> FALSE]

\* 2^k - 1 in the first loop; in the second the middle between the bounds.
NextLookup(bounds) ==
  IF bounds[2] # Unbounded THEN Middle(bounds[1], bounds[2])
  ELSE IF bounds[1] = Absent THEN 0 ELSE Double(bounds[1])

\* Both loops end when the comparison with the target is settled or the bounds have met, at
\* u32::MAX as well.
Decides(v, included, bounds, target) ==
  \/ included = (v > target)
  \/ bounds[2] - bounds[1] <= 1

Looked(out, v, included, bounds, target) ==
  [out |-> Append(out, [version |-> v, inclusion |-> included]),
   bounds |-> bounds, over |-> Decides(v, included, bounds, target)]

Probe(s, v, included, target) == Looked(s.out, v, included, Narrowed(s.bounds, v, included), target)

\* The next result, if the ladder still requires one.
Decode(s, included, target) ==
  IF s.over THEN s ELSE Probe(s, NextLookup(s.bounds), included, target)

\* finish(): every result must have been used, and there must be enough of them.
Finish(s, results) == IF s.over /\ Len(s.out) = Len(results) THEN s.out ELSE BadLadder

\* The lookups the results stand for, or BadLadder where the code returns Err.
decode_search_ladder(results, target) ==
  LET state[k \in 0 .. Len(results)] ==
        IF k = 0 THEN Undecided ELSE Decode(state[k - 1], results[k], target)
  IN  Finish(state[Len(results)], results)

Included(d) == {d[i].version : i \in {k \in DOMAIN d : d[k].inclusion}}
Greatest(S) == IF S = {} THEN Absent ELSE CHOOSE v \in S : \A w \in S : w <= v

\* verify_owner_ladder, the part that recovers the greatest version: the client does not
\* know the target and tries the candidates 0 ..= results.len().
owner_ladder_greatest(results) ==
  LET fits  == {c \in 0 .. Len(results) : decode_search_ladder(results, c) # BadLadder}
      first == CHOOSE c \in fits : \A k \in fits : c <= k
  IN  IF (Len(results) = 1 /\ ~results[1]) \/ fits = {} THEN Absent
      ELSE Greatest(Included(decode_search_ladder(results, first)))

\* ... and then decodes again with what it found; Err unless every result is used.
verify_owner_ladder(results) ==
  LET g == owner_ladder_greatest(results)
  IN  IF decode_search_ladder(results, IF g = Absent THEN 0 ELSE g) = BadLadder
      THEN Rejected ELSE g
=============================================================================
