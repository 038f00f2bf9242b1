--------------------------- MODULE ContactMonitor ---------------------------
(***************************************************************************)
(* A client that searches for a label and monitors what it was shown,      *)
(* while the log grows and the client is restarted from its state file.    *)
(* Every exchange is one action: the client waits for the answer to each   *)
(* call before it does anything else, and the log answers from one head.   *)
(***************************************************************************)
EXTENDS Monitoring

CONSTANTS
  MaxSearches,  \* bound on searches
  Released      \* the versions that are the greatest of a batch

ASSUME ClientAssumption == MaxSearches \in Nat /\ Released \subseteq 0 .. Versions - 1

VARIABLES
  map,       \* monitoring_map of the label
  material,  \* version_material of the label: the versions whose commitment is retained
  saved,     \* map and material in the state file; with them, what was owed when it was written
  searches,  \* searches made
  owed,      \* ghost: the position and version every search ended with, and its kind
  shown      \* ghost: the greatest version the client saw proved at each entry

vars == <<tree, map, material, saved, searches, owed, shown>>

Init == /\ InitTree /\ map = <<>> /\ material = {}
        /\ saved = [map |-> <<>>, material |-> {}, owed |-> {}]
        /\ searches = 0 /\ owed = {} /\ shown = <<>>

LogGrows ==
  /\ \E ts \in Epoch .. Epoch + MaxTime, ver \in {Absent} \cup Released : apply_batch(ts, ver)
  /\ UNCHANGED <<map, material, saved, searches, owed, shown>>

\* The ghost shown after a version was proved at an entry.
Showing(s, e, v) == IF e \in DOMAIN s /\ s[e] >= v THEN s ELSE Insert(s, e, v)

\* verify_search_response saves before it records the obligation; search saves again after
\* a greatest-version search.
SearchVerified(greatest, resp) ==
  /\ searches < MaxSearches
  /\ searches' = searches + 1
  /\ resp.kind = "ok"
  /\ \E a \in {verify_search_response(N, resp, greatest)} :
       /\ a.ok
       /\ material' = material \cup a.material
       /\ map' = Insert(map, a.terminal, resp.version)
       /\ owed' = owed \cup {[pos |-> a.terminal, ver |-> resp.version, greatest |-> greatest]}
       /\ shown' = Showing(shown, a.terminal, resp.version)
  /\ saved' = IF greatest THEN [map |-> map', material |-> material', owed |-> owed']
              ELSE [map |-> map, material |-> material, owed |-> owed]
  /\ UNCHANGED tree

SearchGreatest == N > 0 /\ SearchVerified(TRUE, traverse_greatest_search(N))

SearchFixed(v) == N > 0 /\ SearchVerified(FALSE, traverse_fixed_search(N, v))

Monitored == verify_contact_monitor(N, traverse_contact_monitoring(N, map), map, material)

\* An answer that does not verify leaves the client as it was.
contact_monitor ==
  /\ map # <<>>
  /\ \E m \in {Monitored} : m.ok /\ map' = m.map
  /\ saved' = [map |-> map', material |-> material, owed |-> owed]
  /\ LET seen(g, pp) == Showing(g, pp.entry, Greatest(ToSet(pp.versions)))
     IN  shown' = FoldLeft(seen, shown, traverse_contact_monitoring(N, map).proofs)
  /\ UNCHANGED <<tree, material, searches, owed>>

\* The client stops and loads its state file.  What a fixed-version search left behind is
\* owed no longer unless it was saved since.
persist_to ==
  /\ map' = saved.map /\ material' = saved.material
  /\ owed' = {o \in owed : o.greatest \/ o \in saved.owed}
  /\ UNCHANGED <<tree, saved, searches, shown>>

Next == \/ LogGrows \/ SearchGreatest
        \/ \E v \in 0 .. Versions - 1 : SearchFixed(v)
        \/ contact_monitor \/ persist_to

Spec == Init /\ [][Next]_vars

-----------------------------------------------------------------------------
Upward(pos) == {pos} \cup ToSet(RightAncestors(pos, N, {}))

\* A smaller version on the same way up, which replaces a greater one where they meet.
Replacing(o) == {s \in owed : s.ver < o.ver /\ Upward(s.pos) \cap Upward(o.pos) # {}}

\* Every version the client was shown is still monitored, under its own number or a greater
\* one, at its position or on the way up from it, until it was proved in a distinguished
\* entry on that way, through restarts of the client.  The one way to lose it is a second
\* obligation for a smaller version on that way.
ObligationsKept ==
  \A o \in owed :
    \/ Replacing(o) # {}
    \/ \E q \in DOMAIN map \cap Upward(o.pos) : map[q] >= o.ver
    \/ \E e \in DOMAIN shown \cap Upward(o.pos) \cap find_distinguished_nodes(N) : shown[e] >= o.ver

\* Two positions that share an ancestor, where the right one, which is served first, does not
\* carry the greater version: the left one reaches a ladder it cannot rely on.
Blocked ==
  \E p, q \in DOMAIN map : p < q /\ map[q] <= map[p] /\ (Upward(p) \ {p}) \cap (Upward(q) \ {q}) # {}

\* A version superseded within the batch that added it, whose search ended in the single
\* lookup: the client has not kept all that its monitoring ladder needs.
Unequipped(p) ==
  /\ \E x \in 0 .. N - 1 : /\ get_max_version_at(x) > map[p]
                          /\ x > 0 => get_max_version_at(x - 1) < map[p]
  /\ ~(ToSet(monitoring_binary_ladder(map[p])) \subseteq material)

\* The log's answer to contact_monitor verifies.  It is refused in two cases only, both due to
\* what the client's own searches left behind: one position blocks another, or the client
\* is unequipped for a version.
RefusalsExplained ==
  map # <<>> /\ ~Monitored.ok => Blocked \/ \E p \in DOMAIN map : Unequipped(p)

\* What is left after monitoring are non-distinguished entries of the frontier, so that the
\* map never holds more than one entry per level of the tree.
MapIsFrontier ==
  [][contact_monitor =>
       DOMAIN map' \subseteq ToSet(get_frontier(N)) \ find_distinguished_nodes(N)]_vars
=============================================================================
