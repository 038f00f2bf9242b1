----------------------------- MODULE Freshness -----------------------------
(***************************************************************************)
(* Time: entries and heads are stamped by the log's wall clock, the epoch  *)
(* ticker of main.rs stamps an idle head anew, clients refuse a head that  *)
(* is too old or too far ahead of their own clock, and in auditing mode    *)
(* one whose auditor head lags too far behind.  The auditor submits what   *)
(* it signed; submissions and the log's memory of them can be lost, and a  *)
(* batch that fails leaves a leaf behind that get_root may read.           *)
(***************************************************************************)
EXTENDS LogMath

CONSTANTS
  Clients,
  MaxAhead, MaxBehind,  \* max_ahead, max_behind
  MaxLag,               \* max_auditor_lag
  Interval,             \* epoch_interval_secs; 0 disables the ticker
  Auditing,             \* deployment mode
  MaxSkew,              \* bound on the difference between a client's clock and the log's
  StepsBack,            \* bound on the times the log's clock is set back
  MaxFaults,            \* bound on lost submissions, failed batches and restarts of the log
  MaxSize, MaxTime      \* bounds on entries and time

ASSUME TimeAssumption ==
  /\ {MaxAhead, MaxBehind, MaxLag, Interval, MaxSkew, StepsBack, MaxFaults, MaxSize, MaxTime} \subseteq Nat
  /\ Auditing \in BOOLEAN

VARIABLES
  now,      \* the log's clock
  skew,     \* per client: its clock minus the log's
  stamps,   \* timestamps of the log entries
  head,     \* timestamp of the published head
  ticked,   \* time of the last epoch tick, or of the start of the process
  fresh,    \* the head was stamped by the process that runs
  torn,     \* the node chunks hold the leaf of a batch that failed
  auditor,  \* size and timestamp the auditor has processed
  posted,   \* the auditor head on its way to the log
  stored,   \* the auditor head the log serves
  state,    \* per client: size and timestamp of its retained head
  budget    \* events used up

vars == <<now, skew, stamps, head, ticked, fresh, torn, auditor, posted, stored, state, budget>>

N      == Len(stamps)
NoHead == [size |-> 0, ts |-> 0]

Init ==
  /\ now = 0 /\ stamps = <<>> /\ head = 0 /\ ticked = 0 /\ fresh = FALSE /\ torn = FALSE
  /\ skew \in [Clients -> -MaxSkew .. MaxSkew]
  /\ auditor = NoHead /\ posted = NoHead /\ stored = NoHead
  /\ state = [c \in Clients |-> NoHead]
  /\ budget = [faults |-> 0, back |-> 0, at |-> 0]

\* The ticker fires on time.
TickDue == Interval > 0 /\ now - ticked = Interval

Tick ==
  /\ now < MaxTime /\ ~TickDue
  /\ now' = now + 1
  /\ UNCHANGED <<skew, stamps, head, ticked, fresh, torn, auditor, posted, stored, state, budget>>

\* The wall clock is set back; the ticker runs on a monotonic clock.
ClockStepsBack ==
  /\ now > 0 /\ budget.back < StepsBack
  /\ now' = now - 1 /\ ticked' = ticked - 1
  /\ budget' = [budget EXCEPT !.back = @ + 1]
  /\ UNCHANGED <<skew, stamps, head, fresh, torn, auditor, posted, stored, state>>

\* Lost calls, failed batches and restarts, with the size of the log at the last of them.
Fault ==
  /\ budget.faults < MaxFaults
  /\ budget' = [budget EXCEPT !.faults = @ + 1, !.at = N]

\* A batch overwrites the leaf of one that failed.
apply_batch ==
  /\ N < MaxSize
  /\ stamps' = Append(stamps, now) /\ head' = now
  /\ fresh' = TRUE /\ torn' = FALSE
  /\ UNCHANGED <<now, skew, ticked, auditor, posted, stored, state, budget>>

\* apply_batch fails between put_log_batch and set_head.
batch_fails ==
  /\ N < MaxSize /\ Fault
  /\ torn' = TRUE
  /\ UNCHANGED <<now, skew, stamps, head, ticked, fresh, auditor, posted, stored, state>>

\* Mutant: the head is stamped with the last entry's time.
StampOfEntry(ts) == Last(stamps)

NewStamp(ts) == IF ts >= now THEN ts ELSE now

refresh_head_timestamp ==
  /\ TickDue
  /\ ticked' = now
  /\ head' = IF N = 0 THEN head ELSE NewStamp(head)
  /\ fresh' = TRUE
  /\ UNCHANGED <<now, skew, stamps, torn, auditor, posted, stored, state, budget>>

-----------------------------------------------------------------------------
Prior(i) == IF i = 0 THEN 0 ELSE stamps[i]

\* Mutant: the first of the new entries is not compared.
RegressionsWithin(S) == {i \in S : i - 1 \in S /\ stamps[i] < Prior(i - 1)}

Regressions(S) == {i \in S : stamps[i] < Prior(i - 1)}

\* The auditor processes what is new up to the first entry that goes back in time; only when
\* it got through all does it sign, with the timestamp of the last entry.
process_and_sign ==
  LET bad  == Regressions(auditor.size + 1 .. N)
      upto == IF bad = {} THEN N ELSE (CHOOSE i \in bad : \A j \in bad : i <= j) - 1
  IN  /\ Auditing /\ auditor.size < N /\ posted = NoHead
      /\ auditor' = [size |-> upto, ts |-> Prior(upto)]
      /\ posted' = IF bad = {} THEN auditor' ELSE NoHead
      /\ UNCHANGED <<now, skew, stamps, head, ticked, fresh, torn, stored, state, budget>>

\* Mutant: a second head with the same timestamp is refused.
RefusableEqual == posted.size < stored.size \/ (stored # NoHead /\ posted.ts <= stored.ts)

Refusable == posted.size < stored.size \/ posted.ts < stored.ts

\* get_root reads the leaf of the failed batch as a sibling of the last entry (HeadSync).
Misread == torn /\ posted.size = N /\ N % 2 = 1 /\ N > 1

\* A head for a size the log has outgrown may fail the signature check (HeadSync).
set_auditor_head ==
  /\ posted # NoHead
  /\ posted' = NoHead
  /\ \/ ~Refusable /\ ~Misread /\ stored' = posted
     \/ (Refusable \/ Misread \/ posted.size < N) /\ UNCHANGED stored
  /\ UNCHANGED <<now, skew, stamps, head, ticked, fresh, torn, auditor, state, budget>>

SubmissionLost ==
  /\ posted # NoHead /\ Fault
  /\ posted' = NoHead
  /\ UNCHANGED <<now, skew, stamps, head, ticked, fresh, torn, auditor, stored, state>>

\* The log is back after some time.  Auditor heads are kept in memory only; the head is loaded
\* with the stamp last stored; the ticker starts with the process and skips its first tick.
LogRestarts ==
  /\ Fault
  /\ now' \in now .. MaxTime /\ ticked' = now'
  /\ fresh' = FALSE
  /\ posted' = NoHead /\ stored' = NoHead
  /\ UNCHANGED <<skew, stamps, head, torn, auditor, state>>

-----------------------------------------------------------------------------
check_timestamp_bounds(c, ts) == ts <= now + skew[c] + MaxAhead /\ now + skew[c] <= ts + MaxBehind

Same(c) == N > 0 /\ state[c].size = N

\* The lag is measured from the timestamp of the head.
verify_auditor_tree_head(c) ==
  stored # NoHead /\ stored.ts <= head /\ head - stored.ts <= MaxLag

\* Every verifier reads the timestamps of the frontier.
FrontierMonotone ==
  LET f == get_frontier(N) IN \A k \in 2 .. Len(f) : stamps[f[k - 1] + 1] <= stamps[f[k] + 1]

Accepted(c) ==
  /\ FrontierMonotone
  /\ IF Same(c) THEN check_timestamp_bounds(c, state[c].ts)
     ELSE check_timestamp_bounds(c, head) /\ (Auditing => verify_auditor_tree_head(c))

\* Any operation that ends in verify_head_and_commit.
Query(c) ==
  /\ N > 0 /\ Accepted(c)
  /\ state' = [state EXCEPT ![c] = IF Same(c) THEN @ ELSE [size |-> N, ts |-> head]]
  /\ UNCHANGED <<now, skew, stamps, head, ticked, fresh, torn, auditor, posted, stored, budget>>

Next == \/ Tick \/ ClockStepsBack \/ apply_batch \/ batch_fails \/ refresh_head_timestamp
        \/ process_and_sign \/ set_auditor_head \/ SubmissionLost \/ LogRestarts
        \/ \E c \in Clients : Query(c)

\* The auditor's loop runs on; its calls arrive unless they are lost.
Fairness == WF_vars(process_and_sign) /\ WF_vars(set_auditor_head)

Spec == Init /\ [][Next]_vars /\ Fairness

-----------------------------------------------------------------------------
\* The auditor's head covers the whole log and lags only because the head was stamped anew.
LagOfTicker == stored.size = N /\ head - Last(stamps) > MaxLag

\* While the clock was never set back a client is refused only for its own head, when nothing
\* was added since and that head has grown too old; for the head of a log that restarted, until
\* its first batch or tick, when that has grown too old; or for the auditor's, when that does
\* not cover the whole log or the ticker alone has made it lag: the ticker keeps the log
\* acceptable to everybody else.
RefusedOnlyWhenIdle ==
  N > 0 /\ budget.back = 0 => \A c \in Clients :
    \/ Accepted(c)
    \/ Same(c) /\ now + skew[c] > state[c].ts + MaxBehind
    \/ ~Same(c) /\ ~fresh /\ now + skew[c] > head + MaxBehind
    \/ /\ Auditing /\ ~Same(c) /\ ~verify_auditor_tree_head(c)
       /\ stored.size < N \/ LagOfTicker

\* No head the auditor signed covers an entry older than the one before it, also when the
\* log's clock was set back between two of the auditor's rounds.
SignedIsMonotone ==
  \A h \in {posted, stored} : \A i \in 2 .. h.size : stamps[i - 1] <= stamps[i]

\* While the clock is never set back the log ends up serving the auditor's head for all its
\* entries, whatever was lost or failed before, if an entry was added after the last lost call,
\* failed batch or restart: the auditor never submits a head twice.
AuditorHeadServed ==
  [](budget.back = 0) => <>[](N = stored.size \/ N = budget.at)
=============================================================================
