--------------------------- MODULE Distinguished ---------------------------
(***************************************************************************)
(* Clients that walk the distinguished entries of a growing log at         *)
(* different times (traverse_distinguished and verify_distinguished),      *)
(* compare the roots they retained (check_gossiped_roots), and verify      *)
(* credentials against them (src/tree/credential.rs, verify_credential and *)
(* verify_credential_update).                                              *)
(*                                                                         *)
(* The log root with entry p as the last one is p itself; that the peaks   *)
(* of every walked entry are captured is left to HeadSync.                 *)
(***************************************************************************)
EXTENDS Monitoring

CONSTANTS
  Clients,
  MaxResponse  \* max_response_entries

ASSUME WalkAssumption == MaxResponse \in Nat \ {0}

VARIABLES
  head,     \* timestamp of the published head
  state,    \* per client: size and timestamp of its retained head
  entries,  \* per client: distinguished_entries, as positions in ascending order
  cred      \* the credential handed out, with the size of the log it was made at

vars == <<tree, head, state, entries, cred>>

NoCredential == [kind |-> "none"]

Init == /\ InitTree /\ head = 0
        /\ state = [c \in Clients |-> [size |-> 0, ts |-> 0]]
        /\ entries = [c \in Clients |-> <<>>]
        /\ cred = NoCredential

\* The clock does not go back behind the published head.
LogGrows == /\ AnyBatch
            /\ Last(log').ts >= head
            /\ head' = Last(log').ts
            /\ UNCHANGED <<state, entries, cred>>

\* An idle head is stamped anew; its last entry keeps its timestamp.
refresh_head_timestamp(now) ==
  /\ N > 0 /\ now > head
  /\ head' = now
  /\ UNCHANGED <<tree, state, entries, cred>>

-----------------------------------------------------------------------------
\* Right subtrees before left ones, the left child only past the two gates.
WalkRight(stop, dist, recent, n) ==
  LET from[x \in 0 .. n - 1] ==
        LET rc == ibst_right_child(x, n)
        IN  IF x \notin dist THEN <<>>
            ELSE <<x>> \o (IF rc = None THEN <<>> ELSE from[rc])
                 \o (IF ~is_leaf(x) /\ (stop = None \/ x > stop) /\ x \in recent
                     THEN from[left_child(x)] ELSE <<>>)
  IN  from[root(n)]

traverse_distinguished(n, stop) ==
  LET dist   == find_distinguished_nodes(n)
      recent == {x \in dist : Cardinality({y \in dist : y > x}) < MaxResponse}
  IN  finalize(visit_all(visit_frontier(NewSession, n), WalkRight(stop, dist, recent, n)), n)

\* The client's replay, an entry of its stack with the interval at a time: it knows no limit
\* on recent entries, and its interval ends at the timestamp of the head.
Pending(x, lo, hi) == IF x = None THEN <<>> ELSE <<[node |-> x, lo |-> lo, hi |-> hi]>>

ReplayStep(p, stop, n, a) ==
  LET top == Last(a.stack)
      x   == top.node
      r1  == timestamp(a.reader, p, x)
      ts  == r1.assigned_ts[x]
  IN  IF ~WideEnough(top.lo, top.hi) THEN [a EXCEPT !.stack = Front(@)]
      ELSE [reader |-> r1,
            walked |-> a.walked \cup {x},
            stack  |-> IF ~r1.ok THEN <<>>
                       ELSE Front(a.stack)
                            \o (IF ~is_leaf(x) /\ (stop = None \/ x > stop)
                                THEN Pending(left_child(x), top.lo, ts) ELSE <<>>)
                            \o Pending(ibst_right_child(x, n), ts, top.hi)]

\* Every entry is on the stack at most once.
ReplayRight(r, p, head_ts, stop, n) ==
  LET after[k \in 0 .. n] ==
        IF k = 0 THEN [reader |-> r, walked |-> {}, stack |-> Pending(root(n), 0, head_ts)]
        ELSE LET a == after[k - 1]
             IN  IF a.stack = <<>> THEN a ELSE ReplayStep(p, stop, n, a)
  IN  after[n]

\* The head a client works with: its own when the log answers SAME.
FullTreeHead(c) == IF state[c].size = N THEN state[c] ELSE [size |-> N, ts |-> head]

verify_distinguished(c, stop) ==
  LET p == traverse_distinguished(N, stop)
      a == ReplayRight(ReadFrontier(p, N, <<>>), p, FullTreeHead(c).ts, stop, N)
  IN  [ok |-> finish(a.reader, p, N), walked |-> a.walked]

RetainedRoots(walked, n) == Ascending(walked, n)

\* Clients that gossip walk without a stopping position.
distinguished(c) ==
  /\ N > 0
  /\ verify_distinguished(c, None).ok
  /\ state' = [state EXCEPT ![c] = FullTreeHead(c)]
  /\ entries' = [entries EXCEPT ![c] = RetainedRoots(verify_distinguished(c, None).walked, N)]
  /\ UNCHANGED <<tree, head, cred>>

-----------------------------------------------------------------------------
\* Mutant: an overlap of no roots counts.
CompareEmpty(a, b) ==
  LET n == Len(a)
  IN  \E x \in 0 .. n :
        \/ SubSeq(a, 1, n - x) = SubSeq(b, x + 1, n)
        \/ SubSeq(b, 1, n - x) = SubSeq(a, x + 1, n)

compare_roots(a, b) ==
  LET n == Len(a)
  IN  \E x \in 0 .. n - 1 :
        \/ SubSeq(a, 1, n - x) = SubSeq(b, x + 1, n)
        \/ SubSeq(b, 1, n - x) = SubSeq(a, x + 1, n)

\* Both lists cut to their common length from the recent end.
check_gossiped_roots(mine, theirs) ==
  LET n == IF Len(mine) < Len(theirs) THEN Len(mine) ELSE Len(theirs)
      recent(s) == SubSeq(s, Len(s) - n + 1, Len(s))
  IN  IF n = 0 THEN "none"
      ELSE IF compare_roots(recent(mine), recent(theirs)) THEN "ok" ELSE "fork"

-----------------------------------------------------------------------------
\* Mutant: any distinguished entry.
AnchorsAny(n) == find_distinguished_nodes(n)

\* The distinguished entries that have the greatest version.
Anchors(n) == {x \in find_distinguished_nodes(n) : get_max_version_at(x) = get_max_version_at(n - 1)}

\* A standard credential from the last distinguished entry that has the greatest version, a
\* provisional one otherwise.
get_credential(n) ==
  LET g    == get_max_version_at(n - 1)
      dist == find_distinguished_nodes(n)
  IN  IF Anchors(n) # {} THEN [kind |-> "standard", position |-> Greatest(Anchors(n)), version |-> g, size |-> n]
      ELSE [kind |-> "provisional", position |-> Greatest(dist), version |-> g, size |-> n]

IssueCredential ==
  /\ cred.kind = "none"
  /\ N > 0 /\ get_max_version_at(N - 1) # Absent /\ find_distinguished_nodes(N) # {}
  /\ cred' = get_credential(N)
  /\ UNCHANGED <<tree, head, state, entries>>

Next == \/ LogGrows
        \/ \E now \in Epoch .. Epoch + MaxTime : refresh_head_timestamp(now)
        \/ \E c \in Clients : distinguished(c)
        \/ IssueCredential

Spec == Init /\ [][Next]_vars

\* The proof inside the credential: one ladder, or a greatest-version search.
CredentialProof(k) ==
  IF k.kind = "standard"
  THEN finalize(visit(NewSession, k.position,
                      EntryLadder(k.version, get_max_version_at(k.position)), k.version), k.size)
  ELSE traverse_greatest_search(k.size).proof

\* The terminal entry of a provisional credential's search.
credential_terminal(k) == replay_greatest_search(k.size, CredentialProof(k), k.version).terminal

verify_credential(c, k) ==
  LET p == CredentialProof(k)
      r == verify_greatest_ladder(NewReader(<<>>), p, k.position, k.version, k.position)
      a == replay_greatest_search(k.size, p, k.version)
  IN  /\ Contains(entries[c], k.position)
      /\ IF k.kind = "standard"
         THEN r.ok /\ Len(p.ladder) = Len(r.wire_index)
         ELSE k.size > k.position /\ a.terminal > k.position /\ finish(a.reader, p, k.size)

FirstRight(S, x) == LET right == {y \in S : y > x} IN IF right = {} THEN None ELSE Leftmost(right)

\* Mutant: the monitor proof at the current size.
UpdateAtHead(terminal, version) ==
  [position |-> FirstRight(find_distinguished_nodes(N), terminal),
   monitor  |-> traverse_contact_monitoring(N, Insert(<<>>, terminal, version))]

\* The monitor proof at the size the log had when the position was its last entry.
get_credential_update(terminal, version) ==
  LET position == FirstRight(find_distinguished_nodes(N), terminal)
  IN  [position |-> position,
       monitor  |-> traverse_contact_monitoring(position + 1, Insert(<<>>, terminal, version))]

\* The client replays the contact walk for the single terminal entry, whether or not that
\* entry is distinguished itself: the path to it, then the ladders of its ancestors.
LaddersVerify(path, p, terminal, n, version) ==
  LET material == {v \in ToSet(base_binary_ladder(version)) : v <= version}
  IN  /\ path.reader.ok
      /\ finish(verify_ladders(path.reader, p, RightAncestors(terminal, n, path.dist), material, version), p, n)

MonitorVerifies(terminal, p, n, version) ==
  LET r0 == ReadFrontier(p, n, <<>>)
  IN  r0.ok /\ LaddersVerify(ReadPath(r0, p, terminal, n), p, terminal, n, version)

UpdateVerifies(c, terminal, version, u) ==
  /\ Contains(entries[c], u.position)
  /\ u.position = FirstRight(ToSet(entries[c]), terminal)
  /\ MonitorVerifies(terminal, u.monitor, u.position + 1, version)

verify_credential_update(c, k, u) == UpdateVerifies(c, credential_terminal(k), k.version, u)

-----------------------------------------------------------------------------
\* Every answer to a distinguished walk verifies, from whatever head the client has, with
\* any stopping position and however often the head was stamped anew, up to the number of
\* entries the log puts into one response.
WalkVerifies ==
  N > 0 /\ Cardinality(find_distinguished_nodes(N)) <= MaxResponse =>
    \A c \in Clients, stop \in None .. N - 1 : verify_distinguished(c, stop).ok

\* Once the log has grown past a client's head, every entry the client retained is
\* distinguished for the log as well, also those it counted early because the head was
\* stamped anew.
RetainedAreDistinguished ==
  \A c \in Clients : state[c].size < N => ToSet(entries[c]) \subseteq find_distinguished_nodes(N)

\* The roots a client sees when its log left the common one at entry f.
RootsSince(s, f, side) == [k \in DOMAIN s |-> IF s[k] < f THEN <<s[k], "common">> ELSE <<s[k], side>>]

\* Two clients of one log whose lists differ in length by less than a factor of two find a
\* common root, whichever of them walked first; two clients whose logs differ from some
\* entry on, and who each hold a later root, are never told that all is well.
GossipTellsForks ==
  \A c, d \in Clients :
    /\ Len(entries[d]) < 2 * Len(entries[c]) /\ Len(entries[c]) < 2 * Len(entries[d])
       => check_gossiped_roots(entries[c], entries[d]) = "ok"
    /\ \A f \in 0 .. MaxSize :
         /\ \E k \in DOMAIN entries[c] : entries[c][k] >= f
         /\ \E k \in DOMAIN entries[d] : entries[d][k] >= f
         => check_gossiped_roots(RootsSince(entries[c], f, "left"), RootsSince(entries[d], f, "right")) # "ok"

\* A credential verifies offline at every recipient that walked to its anchor, before or
\* after it was issued and however much the log has grown since.
CredentialVerifies ==
  \A c \in Clients : cred.kind # "none" /\ Contains(entries[c], cred.position) =>
    verify_credential(c, cred)

\* The recipient's walk knows what the log would anchor an update of the credential to.
Updatable(c) ==
  /\ cred.kind = "provisional"
  /\ state[c].size = N /\ state[c].ts = get_timestamp(N - 1)
  /\ FirstRight(find_distinguished_nodes(N), credential_terminal(cred)) # None
Updated(c) ==
  verify_credential_update(c, cred, get_credential_update(credential_terminal(cred), cred.version))

\* A provisional credential can be moved to a distinguished anchor as soon as there is one
\* to the right of its terminal entry that the recipient knows; the update is refused only
\* when the terminal entry has become distinguished itself by the size the update speaks of.
UpdateRefusedOnlyAtTerminal ==
  \A c \in Clients : Updatable(c) /\ ~Updated(c) =>
    credential_terminal(cred) \in find_distinguished_nodes(
      FirstRight(find_distinguished_nodes(N), credential_terminal(cred)) + 1)
=============================================================================
