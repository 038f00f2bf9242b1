--------------------------- MODULE FreshnessProofs ---------------------------
(***************************************************************************)
(* Proofs for Freshness.  SignedHeadsAreMonotone needs only what the       *)
(* auditor does; TickerKeepsAcceptable needs the order of all timestamps,  *)
(* kept while the clock is never set back, and that the frontier lists     *)
(* entries from left to right for every size of the log (LogMathProofs).   *)
(***************************************************************************)
EXTENDS Freshness, LogMathProofs

\* A head as far as this module knows it.
Stamp == [size : Nat, ts : Int]

\* The events used up.
Used == [faults : Nat, back : Nat, at : Nat]

\* The types of the variables.
Typed ==
  /\ now \in Int /\ ticked \in Int /\ head \in Int /\ stamps \in Seq(Int)
  /\ fresh \in BOOLEAN /\ torn \in BOOLEAN
  /\ skew \in [Clients -> -MaxSkew .. MaxSkew]
  /\ auditor \in Stamp /\ posted \in Stamp /\ stored \in Stamp
  /\ state \in [Clients -> Stamp]
  /\ budget \in Used

\* What the auditor processed, and so what it signed, is in order: signed heads cover no more
\* than it processed.
Signed ==
  /\ auditor.size <= N /\ posted.size <= auditor.size /\ stored.size <= auditor.size
  /\ \A i \in 2 .. auditor.size : stamps[i - 1] <= stamps[i]

\* process_and_sign stops before the first entry that goes back in time, so that everything
\* it processed is in order.
LEMMA ProcessedUpTo ==
  ASSUME Typed, Signed, auditor.size < N,
         NEW bad, bad = Regressions(auditor.size + 1 .. N),
         NEW upto, upto = IF bad = {} THEN N ELSE (CHOOSE i \in bad : \A j \in bad : i <= j) - 1
  PROVE  /\ upto \in auditor.size .. N /\ Prior(upto) \in Int
         /\ \A i \in 2 .. upto : stamps[i - 1] <= stamps[i]
<1>1. /\ N \in Nat /\ auditor.size \in Nat
      /\ \A i \in 1 .. N : stamps[i] \in Int
  BY DEF Typed, Stamp, N
<1>2. \A i \in auditor.size + 1 .. N : i \notin bad => (i \in 2 .. N => stamps[i - 1] <= stamps[i])
  <2> TAKE i \in auditor.size + 1 .. N
  <2>1. i \in 2 .. N => Prior(i - 1) = stamps[i - 1] /\ i - 1 \in 1 .. N
    BY <1>1 DEF Prior
  <2> QED
    BY <1>1, <2>1 DEF Regressions
<1>3. /\ upto \in auditor.size .. N
      /\ \A i \in auditor.size + 1 .. upto : i \notin bad
  <2>1. CASE bad = {}
    BY <1>1, <2>1
  <2>2. CASE bad # {}
    <3>1. bad \in SUBSET Nat /\ bad \subseteq auditor.size + 1 .. N
      BY <1>1 DEF Regressions
    <3>2. PICK m \in bad : \A n \in Nat : n < m => n \notin bad
      BY <2>2, <3>1, LeastElement
    <3>3. \A j \in bad : m <= j
      BY <3>1, <3>2
    <3>4. PICK l \in bad : upto = l - 1 /\ \A j \in bad : l <= j
      BY <2>2, <3>3
    <3> QED
      BY <1>1, <3>1, <3>4
  <2> QED
    BY <2>1, <2>2
<1>4. Prior(upto) \in Int
  <2>1. CASE upto = 0
    BY <2>1 DEF Prior
  <2>2. CASE upto # 0
    <3>1. upto \in Nat
      BY <1>1, <1>3
    <3>2. upto \in 1 .. N
      <4>1. \A u \in Nat : u \in auditor.size .. N /\ u # 0 => u \in 1 .. N
        BY <1>1
      <4> QED
        BY <1>3, <2>2, <3>1, <4>1, Zenon
    <3> QED
      BY <1>1, <2>2, <3>2 DEF Prior
  <2> QED
    BY <2>1, <2>2
<1>5. ASSUME NEW i \in 2 .. upto PROVE stamps[i - 1] <= stamps[i]
  <2>1. CASE i <= auditor.size
    BY <1>1, <1>3, <2>1 DEF Signed
  <2>2. CASE i > auditor.size
    <3>1. i \in auditor.size + 1 .. N /\ i \in 2 .. N /\ i \in auditor.size + 1 .. upto
      BY <1>1, <1>3, <2>2
    <3> QED
      BY <1>2, <1>3, <3>1
  <2> QED
    BY <1>1, <1>3, <2>1, <2>2
<1> QED
  BY <1>3, <1>4, <1>5

\* An event more is used up.
LEMMA UsedUp ==
  ASSUME NEW b \in Used, NEW n \in Nat
  PROVE  /\ [b EXCEPT !.faults = @ + 1, !.at = n] \in Used
         /\ [b EXCEPT !.faults = @ + 1, !.at = n].back = b.back
         /\ [b EXCEPT !.back = @ + 1] \in Used
         /\ [b EXCEPT !.back = @ + 1].back = b.back + 1
<1>1. /\ b.faults \in Nat /\ b.back \in Nat /\ b.at \in Nat
      /\ b.faults + 1 \in Nat /\ b.back + 1 \in Nat
  BY DEF Used
<1>2. /\ [b EXCEPT !.faults = @ + 1, !.at = n] \in Used
      /\ [b EXCEPT !.faults = @ + 1, !.at = n].back = b.back
  BY <1>1, Zenon DEF Used
<1>3. /\ [b EXCEPT !.back = @ + 1] \in Used
      /\ [b EXCEPT !.back = @ + 1].back = b.back + 1
  BY <1>1, Zenon DEF Used
<1> QED
  BY <1>2, <1>3

\* Nothing is processed at first.
LEMMA SignedInitially == Init => Typed /\ Signed
<1> SUFFICES ASSUME Init PROVE Typed /\ Signed
  OBVIOUS
<1>1. Typed
  <2>1. budget \in Used
    BY DEF Init, Used
  <2>2. now \in Int /\ ticked \in Int /\ head \in Int /\ stamps \in Seq(Int)
    BY DEF Init
  <2>3. auditor \in Stamp /\ posted \in Stamp /\ stored \in Stamp /\ state \in [Clients -> Stamp]
    BY DEF Init, Stamp, NoHead
  <2> QED
    BY <2>1, <2>2, <2>3 DEF Init, Typed
<1>2. Signed
  BY DEF Init, Signed, N, NoHead
<1> QED
  BY <1>1, <1>2

\* What the auditor signed stays in order while log and auditor stand still.
LEMMA SignedKept ==
  ASSUME Signed, UNCHANGED <<stamps, auditor, posted, stored>>
  PROVE  Signed'
<1>1. N' = N
  BY DEF N
<1> QED
  BY <1>1 DEF Signed

\* Every step keeps it: the log only appends, the auditor processes in order, and submitting,
\* losing or forgetting a head covers nothing more.
LEMMA SignedStep == Typed /\ Signed /\ [Next]_vars => Typed' /\ Signed'
<1> SUFFICES ASSUME Typed, Signed, [Next]_vars PROVE Typed' /\ Signed'
  OBVIOUS
<1>t. /\ N \in Nat /\ auditor.size \in Nat /\ posted.size \in Nat /\ stored.size \in Nat
      /\ NoHead \in Stamp /\ NoHead.size = 0
  BY DEF Typed, N, Stamp, NoHead
<1>1. CASE UNCHANGED vars
  <2>1. Typed'
    BY <1>1 DEF vars, Typed
  <2> QED
    BY <1>1, <2>1, SignedKept DEF vars
<1>2. CASE Tick
  <2>1. Typed'
    BY <1>2 DEF Tick, Typed
  <2> QED
    BY <1>2, <2>1, SignedKept DEF Tick
<1>3. CASE ClockStepsBack
  <2>1. budget' \in Used
    BY <1>3, UsedUp DEF ClockStepsBack, Typed
  <2>0. now' \in Int /\ ticked' \in Int
    BY <1>3 DEF ClockStepsBack, Typed
  <2>2. Typed'
    BY <1>3, <2>0, <2>1 DEF ClockStepsBack, Typed
  <2> QED
    BY <1>3, <2>2, SignedKept DEF ClockStepsBack
<1>4. CASE apply_batch
  <2>1. Len(stamps') = N + 1 /\ \A i \in 1 .. N : stamps'[i] = stamps[i]
    BY <1>4 DEF apply_batch, Typed, N
  <2>0. stamps' \in Seq(Int) /\ head' \in Int /\ fresh' = TRUE /\ torn' = FALSE
    BY <1>4 DEF apply_batch, Typed
  <2>2. Typed'
    BY <1>4, <2>0 DEF apply_batch, Typed
  <2>3. Signed'
    <3>1. UNCHANGED <<auditor, posted, stored>> /\ N' = N + 1
      BY <1>4, <2>1 DEF apply_batch, N
    <3>2. \A i \in 2 .. auditor.size : stamps'[i - 1] <= stamps'[i]
      <4> TAKE i \in 2 .. auditor.size
      <4>1. i \in 1 .. N /\ i - 1 \in 1 .. N
        BY <1>t DEF Signed
      <4> QED
        BY <2>1, <4>1 DEF Signed
    <3> QED
      BY <1>t, <3>1, <3>2 DEF Signed
  <2> QED
    BY <2>2, <2>3
<1>b. CASE batch_fails
  <2>1. budget' \in Used
    BY <1>t, <1>b, UsedUp DEF batch_fails, Fault, Typed
  <2> QED
    BY <1>b, <2>1, SignedKept DEF batch_fails, Typed
<1>5. CASE refresh_head_timestamp
  <2>1. head' \in Int
    BY <1>5 DEF refresh_head_timestamp, Typed, NewStamp
  <2>2. Typed'
    BY <1>5, <2>1 DEF refresh_head_timestamp, Typed
  <2> QED
    BY <1>5, <2>2, SignedKept DEF refresh_head_timestamp
<1>6. CASE process_and_sign
  <2> DEFINE bad  == Regressions(auditor.size + 1 .. N)
             upto == IF bad = {} THEN N ELSE (CHOOSE i \in bad : \A j \in bad : i <= j) - 1
  <2>3. /\ auditor.size < N /\ auditor' = [size |-> upto, ts |-> Prior(upto)]
        /\ posted' = IF bad = {} THEN auditor' ELSE NoHead
        /\ UNCHANGED <<now, skew, stamps, head, ticked, fresh, torn, stored, state, budget>>
    BY <1>6, Zenon DEF process_and_sign
  <2>m. \A u : u = upto => /\ u \in auditor.size .. N /\ Prior(u) \in Int
                          /\ \A i \in 2 .. u : stamps[i - 1] <= stamps[i]
    BY <2>3, ProcessedUpTo, Zenon
  <2> HIDE DEF upto, bad
  <2>4. /\ upto \in auditor.size .. N /\ Prior(upto) \in Int
        /\ \A i \in 2 .. upto : stamps[i - 1] <= stamps[i]
    BY <2>m
  <2>5. auditor' \in Stamp /\ auditor'.size = upto /\ posted' \in Stamp /\ posted'.size <= upto
    BY <1>t, <2>3, <2>4 DEF Stamp
  <2>6. Typed'
    BY <2>3, <2>5 DEF Typed
  <2>7. Signed'
    <3>1. N' = N
      BY <2>3 DEF N
    <3> QED
      BY <1>t, <2>3, <2>4, <2>5, <3>1 DEF Signed
  <2> QED
    BY <2>6, <2>7
<1>7. CASE set_auditor_head
  <2>1. /\ UNCHANGED <<now, skew, stamps, head, ticked, fresh, torn, auditor, state, budget>>
        /\ posted' = NoHead /\ stored' \in {posted, stored}
    BY <1>7 DEF set_auditor_head
  <2>2. Typed'
    BY <1>t, <2>1 DEF Typed
  <2>3. Signed'
    <3>1. N' = N
      BY <2>1 DEF N
    <3> QED
      BY <1>t, <2>1, <3>1 DEF Signed
  <2> QED
    BY <2>2, <2>3
<1>8. CASE SubmissionLost
  <2>1. budget' \in Used
    BY <1>t, <1>8, UsedUp DEF SubmissionLost, Fault, Typed
  <2> QED
    BY <1>t, <1>8, <2>1 DEF SubmissionLost, Typed, Signed, N
<1>9. CASE LogRestarts
  <2>1. budget' \in Used
    BY <1>t, <1>9, UsedUp DEF LogRestarts, Fault, Typed
  <2>2. now' \in Int
    BY <1>9, TimeAssumption DEF LogRestarts, Typed
  <2>3. /\ ticked' = now' /\ fresh' = FALSE /\ posted' = NoHead /\ stored' = NoHead
        /\ UNCHANGED <<skew, stamps, head, torn, auditor, state>>
    BY <1>9 DEF LogRestarts
  <2>4. Typed'
    BY <1>t, <2>1, <2>2, <2>3 DEF Typed
  <2>5. Signed'
    BY <1>t, <2>3 DEF Signed, N
  <2> QED
    BY <2>4, <2>5
<1>10. ASSUME NEW c \in Clients, Query(c) PROVE Typed' /\ Signed'
  <2>1. [size |-> N, ts |-> head] \in Stamp
    BY <1>t DEF Typed, Stamp
  <2> QED
    BY <1>10, <2>1 DEF Query, Typed, Signed, N
<1> QED
  BY <1>1, <1>2, <1>3, <1>4, <1>b, <1>5, <1>6, <1>7, <1>8, <1>9, <1>10 DEF Next

\* The auditor's invariant.
LEMMA SignedInvariant == Spec => [](Typed /\ Signed)
<1> QED
  BY SignedInitially, SignedStep, PTL DEF Spec

\* No head the auditor signed (process_and_sign) covers an entry older than the one before it,
\* for all clocks, skews, lost submissions, failed batches and restarts.
THEOREM SignedHeadsAreMonotone == Spec => []SignedIsMonotone
<1>1. Typed /\ Signed => SignedIsMonotone
  <2> SUFFICES ASSUME Typed, Signed, NEW h \in {posted, stored}, NEW i \in 2 .. h.size
              PROVE  stamps[i - 1] <= stamps[i]
    BY DEF SignedIsMonotone
  <2>1. auditor.size \in Nat /\ h.size \in Nat /\ h.size <= auditor.size
    BY DEF Typed, Signed, Stamp
  <2> QED
    BY <2>1 DEF Signed
<1> QED
  BY <1>1, SignedInvariant, PTL

-----------------------------------------------------------------------------
\* The epoch interval and the clients' skew stay within what clients accept: the help text of
\* main.rs advises an interval well below max_behind (10 s and 60 s by default); no code checks it.
TickerKeepsUp ==
  Interval > 0 /\ MaxSkew <= MaxAhead /\ Interval + MaxSkew <= MaxBehind

\* An auditor head carries the timestamp of the last entry it covers.
Covers(h) == \/ h = NoHead
             \/ h.size \in 1 .. N /\ h.ts = stamps[h.size]

\* Entries are in order, the head is stamped no earlier than they and no later than now, and
\* never longer ago than the last tick once the running process has stamped it.
OnTime ==
  /\ \A i, j \in 1 .. N : i <= j => stamps[i] <= stamps[j]
  /\ \A i \in 1 .. N : stamps[i] <= head
  /\ head <= now
  /\ N > 0 /\ fresh => ticked <= head
  /\ ticked <= now /\ now - ticked <= Interval
  /\ \A c \in Clients : state[c].ts <= now

\* The part that a clock set back does not touch, and the part that lasts until then.
Timely ==
  /\ Covers(posted) /\ Covers(stored)
  /\ budget.back = 0 => OnTime

\* The log starts on time.
LEMMA TimelyInitially ==
  ASSUME TickerKeepsUp
  PROVE  Init => Timely
<1> SUFFICES ASSUME Init PROVE Timely
  OBVIOUS
<1>1. N = 0 /\ Interval \in Nat
  BY TimeAssumption DEF Init, N
<1>2. \A c \in Clients : state[c].ts = 0
  BY DEF Init, NoHead
<1> QED
  BY <1>1, <1>2 DEF Init, Timely, Covers, OnTime

\* Every step keeps it; time passes only while no tick is due, and a tick (the epoch ticker of
\* main.rs) stamps the head anew.
LEMMA TimelyStep ==
  ASSUME TickerKeepsUp
  PROVE  Typed /\ Signed /\ Timely /\ [Next]_vars => Timely'
<1> SUFFICES ASSUME Typed, Signed, Timely, [Next]_vars PROVE Timely'
  OBVIOUS
<1>t. /\ N \in Nat /\ Interval \in Nat /\ now \in Int /\ ticked \in Int /\ head \in Int
      /\ budget.back \in Nat
      /\ \A i \in 1 .. N : stamps[i] \in Int
  BY TimeAssumption DEF Typed, Used, N
<1>i. \A c \in Clients : state[c].ts \in Int
  BY DEF Typed, Stamp
<1>n. Covers(NoHead) /\ Covers(NoHead)'
  BY DEF Covers, NoHead
<1>1. CASE UNCHANGED vars
  BY <1>1 DEF Timely, Covers, OnTime, vars, N
<1>2. CASE Tick
  <2>1. /\ now' = now + 1 /\ now - ticked # Interval
        /\ UNCHANGED <<stamps, head, ticked, fresh, posted, stored, state, budget>>
    BY <1>2 DEF Tick, TickDue, TickerKeepsUp
  <2>2. N' = N
    BY <2>1 DEF N
  <2>3. budget.back = 0 => OnTime'
    <3> SUFFICES ASSUME OnTime PROVE OnTime'
      BY DEF Timely
    <3>1. ticked <= now' /\ now' - ticked <= Interval /\ head <= now'
      BY <1>t, <2>1 DEF OnTime
    <3>2. \A c \in Clients : state[c].ts <= now'
      BY <1>t, <1>i, <2>1 DEF OnTime
    <3> QED
      BY <2>1, <2>2, <3>1, <3>2 DEF OnTime
  <2> QED
    BY <2>1, <2>2, <2>3 DEF Timely, Covers
<1>3. CASE ClockStepsBack
  <2>1. budget'.back # 0 /\ UNCHANGED <<stamps, posted, stored>>
    BY <1>t, <1>3 DEF ClockStepsBack, Typed
  <2> QED
    BY <2>1 DEF Timely, Covers, N
<1>4. CASE apply_batch
  <2>1. /\ stamps' = Append(stamps, now) /\ head' = now
        /\ UNCHANGED <<now, ticked, posted, stored, state, budget>>
    BY <1>4 DEF apply_batch
  <2>2. N' = N + 1 /\ stamps'[N + 1] = now /\ \A i \in 1 .. N : stamps'[i] = stamps[i]
    BY <2>1 DEF Typed, N
  <2>3. Covers(posted)' /\ Covers(stored)'
    <3>1. \A i \in Nat : i \in 1 .. N => (i \in 1 .. N' /\ stamps'[i] = stamps[i])
      BY <1>t, <2>2
    <3>2. posted.size \in Nat /\ stored.size \in Nat
      BY DEF Typed, Stamp
    <3> QED
      BY <2>1, <3>1, <3>2 DEF Timely, Covers, NoHead
  <2>4. budget.back = 0 => OnTime'
    <3> SUFFICES ASSUME OnTime PROVE OnTime'
      BY DEF Timely
    <3>1. \A i \in 1 .. N + 1 : /\ stamps'[i] \in Int /\ stamps'[i] <= now
                                /\ i \in 1 .. N \/ i = N + 1
      BY <1>t, <2>2 DEF OnTime
    <3>2. ASSUME NEW i \in 1 .. N + 1, NEW j \in 1 .. N + 1, i <= j PROVE stamps'[i] <= stamps'[j]
      <4>1. CASE j = N + 1
        BY <2>2, <3>1, <4>1
      <4>2. CASE j # N + 1
        <5>1. i \in 1 .. N /\ j \in 1 .. N
          BY <1>t, <3>2, <4>2
        <5> QED
          BY <2>2, <3>2, <5>1 DEF OnTime
      <4> QED
        BY <4>1, <4>2
    <3>3. head' <= now' /\ ticked' <= head' /\ ticked' <= now' /\ now' - ticked' <= Interval
      BY <1>t, <2>1 DEF OnTime
    <3> QED
      BY <2>1, <2>2, <3>1, <3>2, <3>3 DEF OnTime
  <2> QED
    BY <2>1, <2>3, <2>4 DEF Timely
<1>b. CASE batch_fails
  <2>1. budget'.back = budget.back
    BY <1>b DEF batch_fails, Fault, Typed
  <2> QED
    BY <1>b, <2>1 DEF batch_fails, Timely, Covers, OnTime, N
<1>5. CASE refresh_head_timestamp
  <2>1. /\ ticked' = now /\ head' = IF N = 0 THEN head ELSE NewStamp(head)
        /\ UNCHANGED <<now, stamps, posted, stored, state, budget>>
    BY <1>5 DEF refresh_head_timestamp
  <2>2. N' = N
    BY <2>1 DEF N
  <2>3. budget.back = 0 => OnTime'
    <3> SUFFICES ASSUME OnTime PROVE OnTime'
      BY DEF Timely
    <3>1. head' <= now /\ head <= head' /\ head' \in Int /\ (N > 0 => now <= head')
      BY <1>t, <2>1 DEF OnTime, NewStamp
    <3>2. \A i \in 1 .. N : stamps[i] <= head'
      BY <1>t, <3>1 DEF OnTime
    <3> QED
      BY <1>t, <2>1, <2>2, <3>1, <3>2 DEF OnTime
  <2> QED
    BY <2>1, <2>2, <2>3 DEF Timely, Covers
<1>6. CASE process_and_sign
  <2> DEFINE bad  == Regressions(auditor.size + 1 .. N)
             upto == IF bad = {} THEN N ELSE (CHOOSE i \in bad : \A j \in bad : i <= j) - 1
  <2>1. /\ auditor.size < N /\ auditor' = [size |-> upto, ts |-> Prior(upto)]
        /\ posted' = IF bad = {} THEN auditor' ELSE NoHead
        /\ UNCHANGED <<now, stamps, head, ticked, fresh, stored, state, budget>>
    BY <1>6, Zenon DEF process_and_sign
  <2>2. bad = {} => upto = N
    OBVIOUS
  <2> HIDE DEF bad, upto
  <2>3. N' = N /\ N \in 1 .. N
    <3>1. auditor.size \in Nat
      BY DEF Typed, Stamp
    <3> QED
      BY <1>t, <2>1, <3>1 DEF N
  <2>4. Covers(posted)'
    <3>1. CASE bad = {}
      <4>1. posted' = [size |-> N, ts |-> stamps[N]]
        BY <2>1, <2>2, <2>3, <3>1 DEF Prior
      <4> QED
        BY <2>1, <2>3, <4>1 DEF Covers
    <3>2. CASE bad # {}
      BY <1>n, <2>1, <3>2 DEF Covers
    <3> QED
      BY <3>1, <3>2
  <2> QED
    BY <2>1, <2>3, <2>4 DEF Timely, Covers, OnTime
<1>7. CASE set_auditor_head
  BY <1>n, <1>7 DEF set_auditor_head, Timely, Covers, OnTime, N
<1>8. CASE SubmissionLost
  <2>1. budget'.back = budget.back
    BY <1>8 DEF SubmissionLost, Fault, Typed
  <2> QED
    BY <1>n, <1>8, <2>1 DEF SubmissionLost, Timely, Covers, OnTime, N
<1>9. CASE LogRestarts
  <2>1. budget'.back = budget.back
    BY <1>9 DEF LogRestarts, Fault, Typed
  <2>2. /\ now' \in Int /\ now <= now' /\ ticked' = now' /\ fresh' = FALSE
        /\ posted' = NoHead /\ stored' = NoHead /\ N' = N
        /\ UNCHANGED <<stamps, head, state>>
    BY <1>t, <1>9, TimeAssumption DEF LogRestarts, N
  <2>3. budget.back = 0 => OnTime'
    <3> SUFFICES ASSUME OnTime PROVE OnTime'
      BY DEF Timely
    <3>1. head <= now' /\ ticked' <= now' /\ now' - ticked' <= Interval
      BY <1>t, <2>2 DEF OnTime
    <3>2. \A c \in Clients : state[c].ts <= now'
      BY <1>t, <1>i, <2>2 DEF OnTime
    <3> QED
      BY <2>2, <3>1, <3>2 DEF OnTime
  <2> QED
    BY <1>n, <2>1, <2>2, <2>3 DEF Timely, Covers
<1>10. ASSUME NEW c \in Clients, Query(c) PROVE Timely'
  <2>1. /\ state' = [state EXCEPT ![c] = IF Same(c) THEN @ ELSE [size |-> N, ts |-> head]]
        /\ UNCHANGED <<now, stamps, head, ticked, fresh, posted, stored, budget>>
    BY <1>10 DEF Query
  <2>2. OnTime => \A d \in Clients : state'[d].ts <= now
    BY <2>1 DEF OnTime, Typed
  <2> QED
    BY <2>1, <2>2 DEF Timely, Covers, OnTime, N
<1> QED
  BY <1>1, <1>2, <1>3, <1>4, <1>b, <1>5, <1>6, <1>7, <1>8, <1>9, <1>10 DEF Next

\* While the log is on time, every verifier finds the timestamps of the frontier in order.
LEMMA FrontierInOrder ==
  ASSUME Typed, OnTime
  PROVE  FrontierMonotone
<1>1. N \in Nat
  BY DEF Typed, N
<1>2. PICK f : f = get_frontier(N)
  OBVIOUS
<1>3. f \in Seq(0 .. N - 1) /\ \A k \in 2 .. Len(f) : f[k - 1] < f[k]
  BY <1>1, <1>2, FrontierRises
<1>4. ASSUME NEW k \in 2 .. Len(f) PROVE stamps[f[k - 1] + 1] <= stamps[f[k] + 1]
  <2>1. f[k - 1] \in 0 .. N - 1 /\ f[k] \in 0 .. N - 1 /\ f[k - 1] < f[k]
    <3>1. Len(f) \in Nat /\ \A i \in 1 .. Len(f) : f[i] \in 0 .. N - 1
      BY <1>3, ElementOfSeq, LenProperties
    <3>2. k - 1 \in 1 .. Len(f) /\ k \in 1 .. Len(f)
      BY <3>1
    <3> QED
      BY <1>3, <3>1, <3>2
  <2>2. PICK i \in 1 .. N, j \in 1 .. N : i = f[k - 1] + 1 /\ j = f[k] + 1 /\ i <= j
    BY <1>1, <2>1
  <2> QED
    BY <2>2 DEF OnTime
<1> QED
  BY <1>2, <1>4 DEF FrontierMonotone

\* While the log's clock was never set back, the epoch ticker keeps the log acceptable: a client
\* refuses (check_timestamp_bounds, verify_auditor_tree_head) only its own outdated head, an
\* outdated head of a process that has not stamped it yet, or an auditor head that lags.  For
\* every interval, skew and bound that fit together, and any time between stop and restart.
THEOREM TickerKeepsAcceptable ==
  ASSUME TickerKeepsUp
  PROVE  Spec => []RefusedOnlyWhenIdle
<1>1. Typed /\ Signed /\ Timely => RefusedOnlyWhenIdle
  <2> SUFFICES ASSUME Typed, Signed, Timely, N > 0, budget.back = 0, NEW c \in Clients,
                      ~Accepted(c)
              PROVE  \/ Same(c) /\ now + skew[c] > state[c].ts + MaxBehind
                     \/ ~Same(c) /\ ~fresh /\ now + skew[c] > head + MaxBehind
                     \/ /\ Auditing /\ ~Same(c) /\ ~verify_auditor_tree_head(c)
                        /\ stored.size < N \/ LagOfTicker
    BY DEF RefusedOnlyWhenIdle
  <2>1. OnTime
    BY DEF Timely
  <2>2. FrontierMonotone
    BY <2>1, FrontierInOrder
  <2>3. /\ MaxSkew \in Nat /\ MaxAhead \in Nat /\ MaxBehind \in Nat /\ Interval \in Nat
        /\ MaxLag \in Nat /\ MaxSkew <= MaxAhead /\ Interval + MaxSkew <= MaxBehind
    BY TimeAssumption DEF TickerKeepsUp
  <2>4. /\ N \in Nat /\ now \in Int /\ head \in Int /\ ticked \in Int
        /\ state[c].ts \in Int /\ stored.ts \in Int /\ stored.size \in Nat
    BY DEF Typed, Stamp, N
  <2>5. skew[c] \in Int /\ -MaxSkew <= skew[c] /\ skew[c] <= MaxSkew
    BY <2>3 DEF Typed
  <2>6. CASE Same(c)
    <3>1. state[c].ts <= now
      BY <2>1 DEF OnTime
    <3>2. ~check_timestamp_bounds(c, state[c].ts)
      BY <2>2, <2>6 DEF Accepted
    <3> QED
      BY <2>3, <2>4, <2>5, <2>6, <3>1, <3>2 DEF check_timestamp_bounds
  <2>7. CASE ~Same(c)
    <3>0. CASE ~fresh /\ ~check_timestamp_bounds(c, head)
      <4>1. head <= now
        BY <2>1 DEF OnTime
      <4> QED
        BY <2>3, <2>4, <2>5, <2>7, <3>0, <4>1 DEF check_timestamp_bounds
    <3>1. CASE fresh \/ check_timestamp_bounds(c, head)
      <4>0. check_timestamp_bounds(c, head)
        <5>1. fresh => (head <= now /\ ticked <= head /\ now - ticked <= Interval)
          BY <2>1 DEF OnTime
        <5> QED
          BY <2>3, <2>4, <2>5, <3>1, <5>1 DEF check_timestamp_bounds
      <4>2. Auditing /\ ~verify_auditor_tree_head(c)
        BY <2>2, <2>7, <4>0 DEF Accepted
      <4>3. ASSUME ~(stored.size < N) PROVE LagOfTicker
        <5>1. stored # NoHead /\ stored.size \in 1 .. N /\ stored.ts = stamps[stored.size]
          BY <2>4, <4>3 DEF Timely, Covers, NoHead
        <5>2. stored.size = N
          BY <2>4, <4>3, <5>1
        <5>3. stored.ts = Last(stamps)
          BY <5>1, <5>2 DEF Last, N
        <5>4. stored.ts <= head
          BY <2>1, <5>1 DEF OnTime
        <5>5. ~(head - stored.ts <= MaxLag)
          BY <4>2, <5>1, <5>4 DEF verify_auditor_tree_head
        <5> QED
          BY <2>3, <2>4, <5>2, <5>3, <5>5 DEF LagOfTicker
      <4> QED
        BY <2>7, <4>2, <4>3
    <3> QED
      BY <3>0, <3>1
  <2> QED
    BY <2>6, <2>7
<1> QED
  BY <1>1, SignedInitially, SignedStep, TimelyInitially, TimelyStep, PTL DEF Spec
=============================================================================
