---------------------------- MODULE SearchWalks ----------------------------
(***************************************************************************)
(* Searches: what the client makes of the log's answer to every search,    *)
(* and which versions are pruned.                                          *)
(***************************************************************************)
EXTENDS Search

Committed == IF N = 0 THEN {} ELSE 0 .. get_max_version_at(N - 1)

\* The entry whose batch held version v.
InsertedAt(v) == CHOOSE i \in 0 .. N - 1 :
  get_max_version_at(i) >= v /\ (i > 0 => get_max_version_at(i - 1) < v)

\* Mutant: the greatest version is not spared.
PruneAll(n) == {v \in 0 .. get_max_version_at(n - 1) :
                  is_expired(get_timestamp(InsertedAt(v)), get_timestamp(n - 1))}

\* The versions whose values and openings are dropped.
prune_expired_versions(n) ==
  {v \in 0 .. get_max_version_at(n - 1) - 1 :
     is_expired(get_timestamp(InsertedAt(v)), get_timestamp(n - 1))}

Fixed(v)       == traverse_fixed_search(N, v)
Verified(v)    == verify_search_response(N, Fixed(v), FALSE)
GreatestFound  == verify_search_response(N, traverse_greatest_search(N), TRUE)
MetExpired(v)  == \E k \in DOMAIN Fixed(v).proof.timestamps :
                    is_expired(Fixed(v).proof.timestamps[k], get_timestamp(N - 1))

-----------------------------------------------------------------------------
\* The client accepts every answer of traverse_greatest_search and traverse_fixed_search: it
\* consumes each queue of the proof exactly and decides expiry, direction and terminal entry
\* as the log did.  Where it refuses one, the walk met an expired entry and the version was
\* superseded within the batch that added it.
HonestSearchVerifies ==
  /\ Committed # {} => GreatestFound.ok
  /\ \A v \in Committed : Fixed(v).kind = "ok" =>
       Verified(v).ok \/ (MetExpired(v) /\ get_max_version_at(InsertedAt(v)) > v)

\* Without a maximum lifetime every version ever committed is found, no other is, and the
\* entry the client will monitor holds it: it is the greatest there or came and was
\* superseded there.  For the greatest version both kinds of search lead to the same entry,
\* so that they record the same obligation.
SearchFindsVersion ==
  N > 0 /\ life = 0 =>
    \A v \in 0 .. Versions :
      /\ v \in Committed <=> Fixed(v).kind = "ok"
      /\ v \in Committed => \E at \in {Verified(v).terminal} :
           /\ get_max_version_at(at) = v \/ at = InsertedAt(v)
           /\ v = get_max_version_at(N - 1) => at = GreatestFound.terminal

\* With a maximum lifetime not shorter than the monitoring window the greatest version never
\* expires: its value is never pruned, and it stays searchable by number.  So does every
\* version that is the greatest one at an unexpired distinguished entry: log and client both
\* let the search end, whatever expired entries it passes.
GreatestNeverExpires ==
  Committed # {} =>
    LET greatest == {get_max_version_at(x) : x \in {N - 1} \cup Unexpired(N)}
    IN  /\ get_max_version_at(N - 1) \notin prune_expired_versions(N)
        /\ \A v \in greatest \ {Absent} : Fixed(v).kind = "ok" /\ Verified(v).ok

\* The material kept from a search covers the monitoring ladder of the version found,
\* unless that version was superseded within the batch that added it, in which case the
\* search may end in the single lookup of step 6.
MaterialRetained ==
  \A v \in Committed :
    Fixed(v).kind = "ok" /\ Verified(v).ok /\ get_max_version_at(InsertedAt(v)) = v =>
      ToSet(monitoring_binary_ladder(v)) \subseteq Verified(v).material
=============================================================================
