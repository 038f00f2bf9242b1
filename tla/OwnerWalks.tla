----------------------------- MODULE OwnerWalks -----------------------------
(***************************************************************************)
(* The owner of a label: initialization and monitoring from every start    *)
(* entry and for every greatest version the owner may claim, or for none.  *)
(***************************************************************************)
EXTENDS Monitoring

Starts == 0 .. N - 1

\* The owner's client asks for start and accepts the answer to owner_init.
InitAccepted(start) == verify_owner_init(N, start, traverse_owner_init(N, start))

\* ... and to owner_monitor, with an empty monitoring map and the greatest version it knows,
\* if any.  The log refuses a claim above the greatest version there is; without a claim the
\* client puts the last number in its place.
Accepted(start, claim) ==
  /\ claim # None => claim <= get_max_version_at(N - 1)
  /\ verify_owner_monitor(N, traverse_owner_monitor(N, <<>>, start), <<>>, start,
                          IF claim = None THEN MaxVersion ELSE claim, {})

\* owner_init verifies from every start entry the protocol allows, a distinguished one that
\* has not expired: client and log climb the same ancestors, and the count of greatest
\* versions leaves out the entries without the label.  An expired ancestor has to be on the
\* frontier: the client reads its timestamp, the log only sends those of the frontier.
OwnerInitVerifies ==
  N > 0 => \A start \in find_distinguished_nodes(N) :
    LET expired == {a \in ToSet(owner_init_list(start, N)) :
                      is_expired(get_timestamp(a), get_timestamp(N - 1))}
    IN  start \notin expired /\ expired \subseteq ToSet(get_frontier(N)) => InitAccepted(start)

\* owner_monitor without contact entries succeeds without a claim; with one it succeeds
\* exactly when there is such a version and no distinguished entry right of start has a
\* greater one: the owner neither misses a version somebody else added nor raises a false
\* alarm, and does not go on believing in a version the log does not hold.
UnexpectedVersionNoticed ==
  \A start \in Starts :
    /\ Accepted(start, None)
    /\ \A claim \in 0 .. Versions :
         Accepted(start, claim) <=>
           /\ claim <= get_max_version_at(N - 1)
           /\ \A x \in find_distinguished_nodes(N) : x > start => get_max_version_at(x) <= claim
=============================================================================
