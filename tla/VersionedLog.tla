---------------------------- MODULE VersionedLog ----------------------------
(***************************************************************************)
(* What the update service promises its callers: an append-only log whose  *)
(* entries atomically add versions of labels, a compare-and-swap on the    *)
(* greatest version, and an answer that tells the truth about the log.     *)
(* There is no queue, no batch, no lock and no store here.                 *)
(***************************************************************************)
EXTENDS Integers, Sequences, FiniteSets

CONSTANTS Labels, Jobs, MaxClaim, MaxValues

VARIABLES
  req,    \* what each job asked for
  reply,  \* what it was told
  log     \* the entries: each is the set of (label, version, job) it added

vars == <<req, reply, log>>

Requests  == [label : Labels, greatest : -1 .. MaxClaim, n : 0 .. MaxValues]
NoRequest == [label |-> "none"]
Pending   == [kind |-> "pending"]

\* The keys job j adds when its compare-and-swap succeeds.
Wanted(j) == {[label |-> req[j].label, ver |-> req[j].greatest + k, job |-> j] :
                k \in 1 .. req[j].n}

Committed   == UNION {log[i] : i \in DOMAIN log}
VersionsOf(S, l) == {x.ver : x \in {y \in S : y.label = l}}
Waiting(j)  == req[j] # NoRequest /\ reply[j] = Pending
InLog(j)    == \E x \in Committed : x.job = j

Init ==
  /\ req = [j \in Jobs |-> NoRequest]
  /\ reply = [j \in Jobs |-> Pending]
  /\ log = <<>>

Submit(j, r) ==
  /\ req[j] = NoRequest
  /\ req' = [req EXCEPT ![j] = r]
  /\ UNCHANGED <<reply, log>>

\* One entry adds the versions of the jobs J, which continue every label without a gap
\* and give each version one owner.
Commit(J) ==
  LET S == UNION {Wanted(j) : j \in J}
  IN  /\ \A j \in J : Waiting(j) /\ ~InLog(j)
      /\ S # {}
      /\ \A l \in Labels :
           LET base == Cardinality(VersionsOf(Committed, l))
               new  == {x \in S : x.label = l}
           IN  VersionsOf(S, l) = base .. base + Cardinality(new) - 1
      /\ log' = Append(log, S)
      /\ UNCHANGED <<req, reply>>

Tell(j, r) ==
  /\ reply' = [reply EXCEPT ![j] = r]
  /\ UNCHANGED <<req, log>>

\* Success names the entry that holds exactly what the job asked for.
Succeed(j) ==
  \E i \in DOMAIN log :
    /\ Wanted(j) # {} /\ Wanted(j) = {x \in log[i] : x.job = j}
    /\ Tell(j, [kind |-> "ok", pos |-> i - 1, first |-> req[j].greatest + 1, n |-> req[j].n])

\* A caller that is behind learns what the next entry for its label added.
Inform(j) ==
  \E i \in DOMAIN log :
    LET new == {x \in log[i] : x.label = req[j].label /\ x.ver > req[j].greatest}
    IN  /\ ~InLog(j)
        /\ \E x \in new : x.ver = req[j].greatest + 1
        /\ Tell(j, [kind |-> "catchup", pos |-> i - 1,
                    values |-> {[ver |-> x.ver, job |-> x.job] : x \in new}])

\* A conflict is only reported to a caller that is ahead of the log.
Conflict(j) ==
  /\ req[j].greatest \notin VersionsOf(Committed, req[j].label) \cup {-1}
  /\ ~InLog(j)
  /\ Tell(j, [kind |-> "conflict"])

\* A refused request leaves no trace.
Refuse(j) ==
  /\ ~InLog(j)
  /\ \E k \in {"empty", "toolong", "catchup_failed"} : Tell(j, [kind |-> k])

Next ==
  \/ \E j \in Jobs, r \in Requests : Submit(j, r)
  \/ \E J \in SUBSET Jobs : Commit(J)
  \/ \E j \in Jobs :
       Waiting(j) /\ (Succeed(j) \/ Inform(j) \/ Conflict(j) \/ Refuse(j))

Spec == Init /\ [][Next]_vars
=============================================================================
