--------------------------- MODULE UpdatePipeline ---------------------------
(***************************************************************************)
(* The write path of the transparency log: the RPC queue and the batch     *)
(* worker of src/batcher.rs, the ordered RocksDB writes of                 *)
(* Tree::apply_batch (src/tree/write.rs), the catch-up answer, erasure     *)
(* (src/tree/prune.rs), failing writes, a crash between any two of them    *)
(* and the reload of Tree::new (src/tree/mod.rs).                          *)
(*                                                                         *)
(* Every column family is a variable of its own, because the code writes   *)
(* them one after the other.  A key of the prefix tree is a pair (label,   *)
(* version), what is committed under it is named by the job that sent it,  *)
(* and a root hash is the set of leaves it commits to.  Option<u32> is     *)
(* NoVersion or a natural number, so that NoVersion + 1 is version 0.      *)
(***************************************************************************)
EXTENDS Integers, Sequences

CONSTANTS
  Labels,       \* labels of the directory
  LongLabels,   \* those longer than 255 bytes
  Jobs,         \* update requests, each submitted at most once
  NoJob,        \* an absent value or opening
  MaxClaim,     \* greatest_version a request may advertise
  MaxValues,    \* values one request may carry
  MaxBatch,     \* MAX_BATCH_SIZE
  QueueCap,     \* capacity of the mpsc channel
  MaxPtr,       \* bound on prefix-tree positions
  MaxSize,      \* bound on log entries
  MaxFaults,    \* crashes and failing writes per behaviour
  MaxErase      \* erasures per behaviour

ASSUME LabelsAssumption == LongLabels \subseteq Labels
ASSUME JobsAssumption == NoJob \notin Jobs
ASSUME BoundsAssumption ==
  /\ MaxClaim \in Int /\ MaxClaim >= -1
  /\ MaxValues \in Nat
  /\ MaxBatch \in Nat \ {0} /\ QueueCap \in Nat \ {0}
  /\ MaxPtr \in Nat \ {0} /\ MaxSize \in Nat
  /\ MaxFaults \in Nat /\ MaxErase \in Nat

VARIABLES
  \* the callers of Batcher::submit
  req, reply,
  \* BatchWorker
  queue, batch, pc, overlay, catchups, work, pre, outcome,
  \* locals of apply_batch
  raced, valid, alloc, final,
  \* column families
  prefix, prefixPtr, nextPrefix, entry, blob, value, opening, history, head,
  \* the rest of the process
  up, latest, erasing,
  \* bounds
  faults, erased

clientVars == <<req, reply>>
workerVars == <<queue, batch, pc, overlay, catchups, work, pre, outcome>>
applyVars  == <<raced, valid, alloc, final>>
treeVars   == <<prefix, prefixPtr, nextPrefix, entry, blob>>
valueVars  == <<value, opening>>
storeVars  == <<treeVars, valueVars, history, head>>
boundVars  == <<faults, erased>>
vars == <<clientVars, workerVars, applyVars, storeVars, up, latest, erasing, boundVars>>

-----------------------------------------------------------------------------
NoVersion == -1
Versions  == Nat
Ptrs      == 0 .. MaxPtr - 1
Indices   == 0 .. MaxSize - 1

Requests == [label : Labels, greatest : NoVersion .. MaxClaim, n : 0 .. MaxValues]
Leaves   == [label : Labels, ver : Versions, job : Jobs]
Slots    == [ver : Versions, ptr : Ptrs, job : Jobs]
Records  == [ver : Versions, ptr : Ptrs]

NoRequest == [label |-> "none"]
Pending   == [kind |-> "pending"]
Fails(k)  == [kind |-> k]

\* What a caller of submit is told: post_update, catch_up_update or an error.
ReplyKinds == {"pending", "ok", "catchup", "conflict", "empty", "toolong", "crypto",
               "commit", "raced", "proof", "catchup_failed", "dropped"}

\* The write lock is held from phase 1 to the end of apply_batch.
WriteSteps == {"prefix", "ptr", "next", "append", "blob", "value", "opening",
               "history", "head"}
Uncounted  == {"check", "prefix", "ptr", "next"}
Unindexed  == Uncounted \cup {"append", "blob", "value", "opening", "history"}
Locked     == pc \in {"version", "crypto", "check"} \cup WriteSteps
Readable   == up /\ ~Locked

PcValues == {"idle", "lock", "version", "crypto", "check", "catchup", "answer"}
              \cup WriteSteps

-----------------------------------------------------------------------------
\* get_label_history(label).last()
LastVersion(l) ==
  IF history[l] = <<>> THEN NoVersion ELSE history[l][Len(history[l])].ver

\* Mutant: earlier jobs of the same batch are not seen.
CurrentGreatestStored(l) == LastVersion(l)

\* version_overlay.get(label).or_else(last of the stored history)
CurrentGreatest(l) == IF overlay[l] # NoVersion THEN overlay[l] ELSE LastVersion(l)

\* The contents of the prefix tree the batch starts from (current_log_ptr).
BaseTree == IF latest > 0 THEN prefix[prefixPtr[latest - 1]] ELSE {}

\* The updates of the batch that passed the version check.
Updates == UNION {{[label |-> l, ver |-> valid[l][i].ver, ptr |-> valid[l][i].ptr,
                    job |-> valid[l][i].job] : i \in DOMAIN valid[l]} : l \in Labels}

Leaf(u) == [label |-> u.label, ver |-> u.ver, job |-> u.job]

\* Mutant: collected in a map keyed by the label alone.
AddedLatest ==
  {Leaf(u) : u \in {w \in Updates : \A x \in Updates : x.label = w.label => x.ver <= w.ver}}

AddedLeaves == {Leaf(u) : u \in Updates}

\* §15.2: a key already in the previous tree is reported as removed.
RemovedLeaves ==
  {x \in BaseTree : \E u \in Updates : u.label = x.label /\ u.ver = x.ver}

\* Mutant: everything under the final position of the batch.
PutBatchAtFinal(cf) ==
  [p \in Ptrs |-> IF p = final THEN (CHOOSE u \in Updates : TRUE).job ELSE cf[p]]

\* put_value_batch and put_opening_batch: one entry per update, at its position.
PutBatch(cf) ==
  [p \in Ptrs |-> IF \E u \in Updates : u.ptr = p
                  THEN (CHOOSE u \in Updates : u.ptr = p).job
                  ELSE cf[p]]

\* Tree::find_log_entry_for_prefix_pos: the binary search over the log entries; its loop
\* holds the bounds lo and hi.
FindLogEntry(pos, size) ==
  LET search[b \in Indices \X Indices] ==
        LET lo  == b[1]
            hi  == b[2]
            mid == lo + ((hi - lo) \div 2)
        IN  IF lo >= hi THEN lo
            ELSE IF prefixPtr[mid] >= pos THEN search[<<lo, mid>>] ELSE search[<<mid + 1, hi>>]
  IN  search[<<0, size - 1>>]

\* Mutant: the position of the entry itself is left out.
MaxVersionBefore(l, i) ==
  LET seen == {history[l][k].ver : k \in {k \in DOMAIN history[l] :
                                             history[l][k].ptr < prefixPtr[i]}}
  IN  IF seen = {} THEN NoVersion ELSE CHOOSE v \in seen : \A w \in seen : w <= v

\* Tree::get_max_version_at: what the proofs of a search take for the greatest
\* version of the label in a log entry.
MaxVersionAt(l, i) ==
  LET seen == {history[l][k].ver : k \in {k \in DOMAIN history[l] :
                                             history[l][k].ptr <= prefixPtr[i]}}
  IN  IF seen = {} THEN NoVersion ELSE CHOOSE v \in seen : \A w \in seen : w <= v

-----------------------------------------------------------------------------
Init ==
  /\ req = [j \in Jobs |-> NoRequest]
  /\ reply = [j \in Jobs |-> Pending]
  /\ queue = <<>> /\ batch = <<>> /\ pc = "idle"
  /\ overlay = [l \in Labels |-> NoVersion]
  /\ catchups = {} /\ work = {} /\ pre = <<>> /\ outcome = "none"
  /\ raced = {} /\ valid = [l \in Labels |-> <<>>] /\ alloc = 0 /\ final = 0
  /\ prefix = [p \in Ptrs |-> {}]
  /\ prefixPtr = [i \in Indices |-> 0]
  /\ nextPrefix = 0
  /\ entry = [i \in Indices |-> {}]
  /\ blob = [i \in Indices |-> [added |-> {}, removed |-> {}]]
  /\ value = [p \in Ptrs |-> NoJob] /\ opening = [p \in Ptrs |-> NoJob]
  /\ history = [l \in Labels |-> <<>>]
  /\ head = 0 /\ up = TRUE /\ latest = 0 /\ erasing = NoVersion
  /\ faults = 0 /\ erased = 0

\* Batcher::submit: the sender waits while the channel is full.
Submit(j, r) ==
  /\ up
  /\ req[j] = NoRequest
  /\ Len(queue) < QueueCap
  /\ req' = [req EXCEPT ![j] = r]
  /\ queue' = Append(queue, j)
  /\ UNCHANGED <<reply, batch, pc, overlay, catchups, work, pre, outcome, applyVars,
                 storeVars, up, latest, erasing, boundVars>>

\* BatchWorker::run, the receive arm of the select.
Receive ==
  /\ up /\ pc = "idle" /\ queue # <<>>
  /\ batch' = Append(batch, Head(queue))
  /\ queue' = Tail(queue)
  /\ pc' = IF Len(batch) + 1 >= MaxBatch THEN "lock" ELSE "idle"
  /\ UNCHANGED <<clientVars, overlay, catchups, work, pre, outcome, applyVars,
                 storeVars, up, latest, erasing, boundVars>>

\* Mutant: the timer does not flush a partial batch.
TimeoutFullOnly ==
  /\ up /\ pc = "idle" /\ Len(batch) >= MaxBatch
  /\ pc' = "lock"
  /\ UNCHANGED <<clientVars, queue, batch, overlay, catchups, work, pre, outcome,
                 applyVars, storeVars, up, latest, erasing, boundVars>>

\* BatchWorker::run, the timer arm of the select.
Timeout ==
  /\ up /\ pc = "idle" /\ batch # <<>>
  /\ pc' = "lock"
  /\ UNCHANGED <<clientVars, queue, batch, overlay, catchups, work, pre, outcome,
                 applyVars, storeVars, up, latest, erasing, boundVars>>

\* process_batch takes the write lock: an erasure holds a read lock until it ends.
Lock ==
  /\ up /\ pc = "lock" /\ erasing = NoVersion
  /\ pc' = "version"
  /\ UNCHANGED <<clientVars, queue, batch, overlay, catchups, work, pre, outcome,
                 applyVars, storeVars, up, latest, erasing, boundVars>>

Reject(j, k) ==
  /\ reply' = [reply EXCEPT ![j] = Fails(k)]
  /\ UNCHANGED <<overlay, catchups, work, pre>>

\* Mutant: numbering starts one too low.
AssignedEarly(j, start, n) ==
  [k \in 1 .. n |-> [job |-> j, label |-> req[j].label, ver |-> start + k - 2]]

\* The versions start, start + 1, ... that phase 1 assigns to a job.
Assigned(j, start, n) ==
  [k \in 1 .. n |-> [job |-> j, label |-> req[j].label, ver |-> start + k - 1]]

\* The compare-and-swap of the next job of the batch on the greatest version g.
CompareAndSwap(g) ==
  /\ batch' = Tail(batch)
  /\ LET j == Head(batch)
         r == req[j]
     IN  \/ /\ r.greatest < g
            /\ catchups' = catchups \cup {j}
            /\ UNCHANGED <<reply, overlay, work, pre>>
         \/ /\ r.greatest > g
            /\ Reject(j, "conflict")
         \/ /\ r.greatest = g /\ r.n = 0
            /\ Reject(j, "empty")
         \/ /\ r.greatest = g /\ r.n > 0 /\ r.label \in LongLabels
            /\ Reject(j, "toolong")
         \/ /\ r.greatest = g /\ r.n > 0 /\ r.label \notin LongLabels
            /\ overlay' = [overlay EXCEPT ![r.label] = g + r.n]
            /\ pre' = pre \o Assigned(j, g + 1, r.n)
            /\ work' = work \cup {j}
            /\ UNCHANGED <<reply, catchups>>
  /\ UNCHANGED <<req, queue, pc, outcome, applyVars, storeVars, up, latest, erasing, erased>>

\* Phase 1 for the next job of the batch.
AssignVersions ==
  /\ up /\ pc = "version" /\ batch # <<>>
  /\ CompareAndSwap(CurrentGreatest(req[Head(batch)].label))
  /\ UNCHANGED faults

\* get_label_history fails: unwrap_or_default makes it a label without versions.
HistoryReadFails ==
  /\ up /\ pc = "version" /\ batch # <<>> /\ faults < MaxFaults
  /\ overlay[req[Head(batch)].label] = NoVersion
  /\ CompareAndSwap(NoVersion)
  /\ faults' = faults + 1

\* End of phase 1: the lock is dropped when nothing is left to insert.
Versioned ==
  /\ up /\ pc = "version" /\ batch = <<>>
  /\ pc' = IF work = {} THEN "catchup" ELSE "crypto"
  /\ UNCHANGED <<clientVars, queue, batch, overlay, catchups, work, pre, outcome,
                 applyVars, storeVars, up, latest, erasing, boundVars>>

\* Phase 2 succeeds: apply_batch starts with a fresh overlay.
Crypto ==
  /\ up /\ pc = "crypto"
  /\ pc' = "check"
  /\ overlay' = [l \in Labels |-> NoVersion]
  /\ UNCHANGED <<clientVars, queue, batch, catchups, work, pre, outcome, applyVars,
                 storeVars, up, latest, erasing, boundVars>>

\* Phase 2 fails: drop the lock, answer the catch-ups, then fail the jobs.
CryptoFails ==
  /\ up /\ pc = "crypto" /\ faults < MaxFaults
  /\ faults' = faults + 1
  /\ outcome' = "crypto" /\ pc' = "catchup"
  /\ UNCHANGED <<clientVars, queue, batch, overlay, catchups, work, pre, applyVars,
                 storeVars, up, latest, erasing, erased>>

-----------------------------------------------------------------------------
\* apply_batch, first loop: the precomputed version of the next update against
\* the history, and the position batch_insert gives it.
CheckVersion ==
  /\ up /\ pc = "check" /\ pre # <<>>
  /\ nextPrefix + alloc < MaxPtr
  /\ pre' = Tail(pre)
  /\ LET u == Head(pre)
     IN  IF u.ver = CurrentGreatest(u.label) + 1
         THEN /\ overlay' = [overlay EXCEPT ![u.label] = u.ver]
              /\ valid' = [valid EXCEPT ![u.label] =
                             Append(@, [ver |-> u.ver, ptr |-> nextPrefix + alloc,
                                        job |-> u.job])]
              /\ alloc' = alloc + 1
              /\ UNCHANGED raced
         ELSE /\ raced' = raced \cup {u.job}
              /\ UNCHANGED <<overlay, valid, alloc>>
  /\ UNCHANGED <<clientVars, queue, batch, pc, catchups, work, outcome, final,
                 storeVars, up, latest, erasing, boundVars>>

\* End of that loop; a batch without a valid update writes nothing.
Checked ==
  /\ up /\ pc = "check" /\ pre = <<>>
  /\ latest < MaxSize
  /\ IF alloc = 0
     THEN pc' = "catchup" /\ outcome' = IF latest > 0 THEN "ok" ELSE "commit"
     ELSE pc' = "prefix" /\ UNCHANGED outcome
  /\ UNCHANGED <<clientVars, queue, batch, overlay, catchups, work, pre, applyVars,
                 storeVars, up, latest, erasing, boundVars>>

Write(step, next) ==
  /\ up /\ pc = step
  /\ pc' = next
  /\ UNCHANGED <<clientVars, queue, batch, overlay, catchups, work, pre, raced, valid,
                 alloc, up, erasing, boundVars>>

\* PrefixTree::batch_insert: one persistent tree per inserted key.
PutPrefixBatch ==
  /\ Write("prefix", "ptr")
  /\ final' = nextPrefix + alloc - 1
  /\ prefix' = [p \in Ptrs |->
                  IF p \in nextPrefix .. (nextPrefix + alloc - 1)
                  THEN BaseTree \cup {Leaf(u) : u \in {w \in Updates : w.ptr <= p}}
                  ELSE prefix[p]]
  /\ UNCHANGED <<prefixPtr, nextPrefix, entry, blob, valueVars, history, head, latest,
                 outcome>>

\* Mutant: the entry is given the first position of its batch.
PutFirstPrefixPtr ==
  /\ Write("ptr", "next")
  /\ prefixPtr' = [prefixPtr EXCEPT ![latest] = nextPrefix]
  /\ UNCHANGED <<final, prefix, nextPrefix, entry, blob, valueVars, history, head,
                 latest, outcome>>

PutPrefixPtr ==
  /\ Write("ptr", "next")
  /\ prefixPtr' = [prefixPtr EXCEPT ![latest] = final]
  /\ UNCHANGED <<final, prefix, nextPrefix, entry, blob, valueVars, history, head,
                 latest, outcome>>

SetNextPrefixVersion ==
  /\ Write("next", "append")
  /\ nextPrefix' = final + 1
  /\ UNCHANGED <<final, prefix, prefixPtr, entry, blob, valueVars, history, head,
                 latest, outcome>>

\* LogTree::batch_append: timestamp, prefix root and Merkle leaf of the new entry.
BatchAppend ==
  /\ Write("append", "blob")
  /\ entry' = [entry EXCEPT ![latest] = prefix[final]]
  /\ UNCHANGED <<final, prefix, prefixPtr, nextPrefix, blob, valueVars, history, head,
                 latest, outcome>>

PutAuditBlob ==
  /\ Write("blob", "value")
  /\ blob' = [blob EXCEPT ![latest] = [added |-> AddedLeaves, removed |-> RemovedLeaves]]
  /\ UNCHANGED <<final, prefix, prefixPtr, nextPrefix, entry, valueVars, history, head,
                 latest, outcome>>

PutValueBatch ==
  /\ Write("value", "opening")
  /\ value' = PutBatch(value)
  /\ UNCHANGED <<final, treeVars, opening, history, head, latest, outcome>>

PutOpeningBatch ==
  /\ Write("opening", "history")
  /\ opening' = PutBatch(opening)
  /\ UNCHANGED <<final, treeVars, value, history, head, latest, outcome>>

\* The records put_history_batch appends to the history of a label.
NewRecords(l) == [i \in 1 .. Len(valid[l]) |-> [ver |-> valid[l][i].ver, ptr |-> valid[l][i].ptr]]

PutHistoryBatch ==
  /\ Write("history", "head")
  /\ history' = [l \in Labels |-> history[l] \o NewRecords(l)]
  /\ UNCHANGED <<final, treeVars, valueVars, head, latest, outcome>>

\* set_head, then self.latest; the write lock is dropped.
SetHead ==
  /\ Write("head", "catchup")
  /\ head' = latest + 1
  /\ latest' = latest + 1
  /\ outcome' = "ok"
  /\ UNCHANGED <<final, treeVars, valueVars, history>>

\* Any store access of apply_batch returns an error: `?` leaves the rest undone.
WriteFails ==
  /\ up /\ pc \in {"check"} \cup WriteSteps /\ faults < MaxFaults
  /\ faults' = faults + 1
  /\ outcome' = "commit" /\ pc' = "catchup"
  /\ UNCHANGED <<clientVars, queue, batch, overlay, catchups, work, pre, applyVars,
                 storeVars, up, latest, erasing, erased>>

-----------------------------------------------------------------------------
\* Mutant: the version the caller already has is sent again.
CatchUpFromGreatest(r) ==
  LET records == {history[r.label][k] : k \in DOMAIN history[r.label]}
      found   == {h \in records : h.ver = r.greatest + 1}
      pos     == FindLogEntry((CHOOSE h \in found : TRUE).ptr, latest)
      covered == {h \in records : h.ver >= r.greatest /\ h.ptr <= prefixPtr[pos]}
  IN  IF \/ latest = 0
         \/ found = {}
         \/ \E h \in covered : value[h.ptr] = NoJob \/ opening[h.ptr] = NoJob
      THEN Fails("catchup_failed")
      ELSE [kind |-> "catchup", pos |-> pos,
            values |-> {[ver |-> h.ver, job |-> value[h.ptr]] : h \in covered}]

\* Tree::catch_up_update, as read by one task of process_catchups: the versions the
\* log entry of the first missing one created.  They are listed in history order; the
\* caller numbers them from there.
CatchUpReply(r) ==
  LET records == {history[r.label][k] : k \in DOMAIN history[r.label]}
      first   == r.greatest + 1
      found   == {h \in records : h.ver = first}
      pos     == FindLogEntry((CHOOSE h \in found : TRUE).ptr, latest)
      covered == {h \in records : h.ver >= first /\ h.ptr <= prefixPtr[pos]}
  IN  IF \/ latest = 0
         \/ found = {}
         \/ \E h \in covered : value[h.ptr] = NoJob \/ opening[h.ptr] = NoJob
      THEN Fails("catchup_failed")
      ELSE [kind |-> "catchup", pos |-> pos,
            values |-> {[ver |-> h.ver, job |-> value[h.ptr]] : h \in covered}]

CatchUp(j) ==
  /\ up /\ pc = "catchup" /\ j \in catchups
  /\ reply' = [reply EXCEPT ![j] = CatchUpReply(req[j])]
  /\ catchups' = catchups \ {j}
  /\ UNCHANGED <<req, queue, batch, pc, overlay, work, pre, outcome, applyVars,
                 storeVars, up, latest, erasing, boundVars>>

CatchUpsDone ==
  /\ up /\ pc = "catchup" /\ catchups = {}
  /\ pc' = "answer"
  /\ UNCHANGED <<clientVars, queue, batch, overlay, catchups, work, pre, outcome,
                 applyVars, storeVars, up, latest, erasing, boundVars>>

\* Mutant: the result of apply_batch is not looked at.
AnswerOk(j) ==
  /\ up /\ pc = "answer" /\ j \in work
  /\ work' = work \ {j}
  /\ reply' = [reply EXCEPT ![j] =
       [kind |-> "ok", pos |-> latest - 1, first |-> req[j].greatest + 1, n |-> req[j].n]]
  /\ UNCHANGED <<req, queue, batch, pc, overlay, catchups, pre, outcome, applyVars,
                 storeVars, up, latest, erasing, boundVars>>

\* Phase 4: post_update for a committed job, or the error of the whole batch.
Answer(j) ==
  /\ up /\ pc = "answer" /\ j \in work
  /\ work' = work \ {j}
  /\ reply' = [reply EXCEPT ![j] =
       CASE outcome # "ok" -> Fails(outcome)
         [] outcome = "ok" /\ j \in raced -> Fails("raced")
         [] outcome = "ok" /\ j \notin raced ->
              [kind |-> "ok", pos |-> latest - 1, first |-> req[j].greatest + 1, n |-> req[j].n]]
  /\ UNCHANGED <<req, queue, batch, pc, overlay, catchups, pre, outcome, applyVars,
                 storeVars, up, latest, erasing, boundVars>>

\* post_update fails to read its proof: the job is in the log and its caller gets an error.
AnswerFails(j) ==
  /\ up /\ pc = "answer" /\ j \in work /\ faults < MaxFaults
  /\ outcome = "ok" /\ j \notin raced
  /\ faults' = faults + 1
  /\ work' = work \ {j}
  /\ reply' = [reply EXCEPT ![j] = Fails("proof")]
  /\ UNCHANGED <<req, queue, batch, pc, overlay, catchups, pre, outcome, applyVars,
                 storeVars, up, latest, erasing, erased>>

\* The locals of process_batch and apply_batch go out of scope.
ForgetBatch ==
  /\ overlay' = [l \in Labels |-> NoVersion]
  /\ catchups' = {} /\ work' = {} /\ pre' = <<>> /\ outcome' = "none"
  /\ raced' = {} /\ valid' = [l \in Labels |-> <<>>] /\ alloc' = 0 /\ final' = 0

BatchDone ==
  /\ up /\ pc = "answer" /\ work = {}
  /\ pc' = "idle"
  /\ ForgetBatch
  /\ UNCHANGED <<clientVars, queue, batch, storeVars, up, latest, erasing, boundVars>>

-----------------------------------------------------------------------------
\* Tree::erase under a read lock: the value first ...
EraseValue(l, k) ==
  /\ Readable /\ erasing = NoVersion /\ erased < MaxErase
  /\ k \in DOMAIN history[l]
  /\ value' = [value EXCEPT ![history[l][k].ptr] = NoJob]
  /\ erasing' = history[l][k].ptr
  /\ erased' = erased + 1
  /\ UNCHANGED <<clientVars, workerVars, applyVars, treeVars, opening, history, head,
                 up, latest, faults>>

\* ... then the opening.
EraseOpening ==
  /\ up /\ erasing # NoVersion
  /\ opening' = [opening EXCEPT ![erasing] = NoJob]
  /\ erasing' = NoVersion
  /\ UNCHANGED <<clientVars, workerVars, applyVars, treeVars, value, history, head, up,
                 latest, boundVars>>

\* The process dies: callers see the connection drop, memory is gone.
Crash ==
  /\ up /\ faults < MaxFaults
  /\ faults' = faults + 1
  /\ up' = FALSE
  /\ reply' = [j \in Jobs |-> IF req[j] # NoRequest /\ reply[j] = Pending
                              THEN Fails("dropped") ELSE reply[j]]
  /\ queue' = <<>> /\ batch' = <<>> /\ pc' = "idle"
  /\ ForgetBatch
  /\ latest' = 0 /\ erasing' = NoVersion
  /\ UNCHANGED <<req, storeVars, erased>>

\* Mutant: the stored head is not reloaded.
RestartEmpty ==
  /\ ~up
  /\ up' = TRUE
  /\ UNCHANGED <<clientVars, workerVars, applyVars, storeVars, latest, erasing, boundVars>>

\* Tree::new reloads the head and nothing else.
Restart ==
  /\ ~up
  /\ up' = TRUE
  /\ latest' = head
  /\ UNCHANGED <<clientVars, workerVars, applyVars, storeVars, erasing, boundVars>>

-----------------------------------------------------------------------------
ApplyStep ==
  \/ CheckVersion \/ Checked
  \/ PutPrefixBatch \/ PutPrefixPtr \/ SetNextPrefixVersion \/ BatchAppend
  \/ PutAuditBlob \/ PutValueBatch \/ PutOpeningBatch \/ PutHistoryBatch \/ SetHead

WorkerStep ==
  \/ Receive \/ Timeout \/ Lock \/ AssignVersions \/ Versioned \/ Crypto
  \/ ApplyStep
  \/ \E j \in Jobs : CatchUp(j) \/ Answer(j)
  \/ CatchUpsDone \/ BatchDone

Next ==
  \/ \E j \in Jobs, r \in Requests : Submit(j, r)
  \/ WorkerStep
  \/ HistoryReadFails \/ CryptoFails \/ WriteFails \/ \E j \in Jobs : AnswerFails(j)
  \/ \E l \in Labels, k \in 1 .. MaxPtr : EraseValue(l, k)
  \/ EraseOpening
  \/ Crash \/ Restart

Spec == Init /\ [][Next]_vars

\* The runtime keeps polling the worker task and its timers, and an erasure that
\* was started runs to its end; nothing makes a client submit or a store fail.
FairSpec == Spec /\ WF_vars(WorkerStep) /\ WF_vars(EraseOpening) /\ WF_vars(Restart)

-----------------------------------------------------------------------------
\* The state is well formed, in memory and in every column family.
TypeOK ==
  /\ req \in [Jobs -> Requests \cup {NoRequest}]
  /\ reply = [j \in Jobs |-> reply[j]] /\ \A j \in Jobs : reply[j].kind \in ReplyKinds
  /\ queue \in Seq(Jobs) /\ batch \in Seq(Jobs) /\ pc \in PcValues
  /\ overlay \in [Labels -> Versions \cup {NoVersion}]
  /\ catchups \subseteq Jobs /\ work \subseteq Jobs
  /\ pre \in Seq(Leaves)
  /\ outcome \in {"none", "ok", "crypto", "commit"}
  /\ raced \subseteq Jobs /\ valid \in [Labels -> Seq(Slots)]
  /\ alloc \in Nat /\ final \in Ptrs
  /\ prefix \in [Ptrs -> SUBSET Leaves]
  /\ prefixPtr \in [Indices -> Ptrs]
  /\ nextPrefix \in 0 .. MaxPtr
  /\ entry \in [Indices -> SUBSET Leaves]
  /\ blob \in [Indices -> [added : SUBSET Leaves, removed : SUBSET Leaves]]
  /\ value \in [Ptrs -> Jobs \cup {NoJob}] /\ opening \in [Ptrs -> Jobs \cup {NoJob}]
  /\ history \in [Labels -> Seq(Records)]
  /\ head \in 0 .. MaxSize /\ latest \in 0 .. MaxSize
  /\ up \in BOOLEAN /\ erasing \in Ptrs \cup {NoVersion}
  /\ faults \in 0 .. MaxFaults /\ erased \in 0 .. MaxErase

\* The history of a label numbers its versions 0, 1, 2, ... without gap or repetition,
\* at increasing prefix-tree positions that are never handed out again, whatever writes
\* failed and wherever the process died.  The compare-and-swap of process_batch, the
\* catch-up and get_max_version_at all read it that way.
HistoryContiguous ==
  \A l \in Labels : \A i \in DOMAIN history[l] :
    /\ history[l][i].ver = i - 1
    /\ history[l][i].ptr < nextPrefix
    /\ \A k \in 1 .. i - 1 : history[l][k].ptr < history[l][i].ptr

\* The overlay of the check counts what it accepted on top of the stored history.
OverlayCounts(l) ==
  pc = "check" =>
    IF overlay[l] = NoVersion THEN valid[l] = <<>>
    ELSE valid[l] # <<>> /\ overlay[l] = Len(history[l]) + Len(valid[l]) - 1

SlotsNumbered(l) ==
  pc \in Unindexed => \A k \in DOMAIN valid[l] :
    /\ valid[l][k].ver = Len(history[l]) + k - 1
    /\ \A i \in 1 .. k - 1 : valid[l][i].ptr < valid[l][k].ptr
    /\ \A i \in DOMAIN history[l] : history[l][i].ptr < valid[l][k].ptr

SlotsReserved(l) ==
  /\ pc \in Uncounted => \A k \in DOMAIN valid[l] :
       nextPrefix <= valid[l][k].ptr /\ valid[l][k].ptr < nextPrefix + alloc
  /\ pc \in Unindexed \ Uncounted => \A k \in DOMAIN valid[l] : valid[l][k].ptr < nextPrefix

\* The positions and versions apply_batch hands out continue the history of each label, at
\* every step between the check and put_history_batch: versions without gap from the
\* stored ones on, positions above all stored ones and below the counter once it moved.
SlotsContinueHistory ==
  \A l \in Labels : OverlayCounts(l) /\ SlotsNumbered(l) /\ SlotsReserved(l)

PrevTree(i) == IF i = 0 THEN {} ELSE entry[i - 1]

\* The tree a search walks (from prefix_ptr) is the one the log leaf commits to, for
\* every entry below the stored head: positions reused after a failed batch never
\* overwrite a committed tree.
ProofsMatchLog == \A i \in 0 .. head - 1 : prefix[prefixPtr[i]] = entry[i]

\* An auditor that replays the stored AuditorUpdates from entry 0 gets exactly the
\* prefix tree of each entry, and sees keys added only, never replaced.
AuditReplay ==
  \A i \in 0 .. head - 1 :
    /\ blob[i].removed = {}
    /\ blob[i].added \cap PrevTree(i) = {}
    /\ blob[i].added # {}
    /\ entry[i] = PrevTree(i) \cup blob[i].added

\* A job that was told its update succeeded is in the log for good: its values are the
\* versions right after the one it advertised, created by the entry it was told about.
AckedIsCommitted ==
  \A j \in Jobs : reply[j].kind = "ok" =>
    LET mine == {[label |-> req[j].label, ver |-> reply[j].first + k, job |-> j] :
                   k \in 0 .. reply[j].n - 1}
    IN  /\ reply[j].pos \in 0 .. head - 1
        /\ reply[j].first = req[j].greatest + 1 /\ reply[j].n = req[j].n
        /\ mine \subseteq entry[reply[j].pos] \ PrevTree(reply[j].pos)

\* Every committed version is in the history of its label, at a position its entry
\* covers, with the value and opening that were committed (unless erased).
CommittedIsIndexed ==
  \A i \in 0 .. head - 1 : \A x \in entry[i] : \E k \in DOMAIN history[x.label] :
    LET h == history[x.label][k]
    IN  /\ h.ver = x.ver
        /\ h.ptr <= prefixPtr[i]
        /\ {value[h.ptr], opening[h.ptr]} \subseteq {x.job, NoJob}
        /\ erased = 0 => value[h.ptr] = x.job /\ opening[h.ptr] = x.job

\* What readers are shown never shrinks or changes: the stored head only grows and no
\* write of apply_batch, failed or not, touches an entry below it.
KeepsLog ==
  /\ head' >= head
  /\ \A i \in 0 .. head - 1 :
       entry'[i] = entry[i] /\ prefixPtr'[i] = prefixPtr[i] /\ blob'[i] = blob[i]

AppendOnly == [][KeepsLog]_vars

\* get_max_version_at agrees with the prefix tree of every entry whenever a reader can
\* get the lock: the versions of the label in that tree are exactly 0 .. that version
\* ("None when no version of the label existed in the entry's prefix tree").
SearchSeesTree ==
  Readable => \A l \in Labels : \A i \in 0 .. latest - 1 :
    {x.ver : x \in {y \in entry[i] : y.label = l}} = 0 .. MaxVersionAt(l, i)

\* A catch-up answer reports the versions "created in the log entry immediately
\* following" the advertised one: from the first missing version on, the new ones of the
\* entry it names, all of them, with their values.
CatchUpIsCommitted ==
  \A j \in Jobs : reply[j].kind = "catchup" =>
    LET r   == reply[j]
        new == {x \in entry[r.pos] \ PrevTree(r.pos) :
                  x.label = req[j].label /\ x.ver > req[j].greatest}
    IN  /\ r.values = {[ver |-> x.ver, job |-> x.job] : x \in new}
        /\ \E v \in r.values : v.ver = req[j].greatest + 1

\* Every submitted job is answered, whatever fails and wherever the process dies.
Answered == \A j \in Jobs : req[j] # NoRequest ~> reply[j].kind # "pending"
=============================================================================
