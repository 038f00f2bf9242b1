----------------------- MODULE UpdatePipelineProofs -----------------------
(***************************************************************************)
(* Proofs about the write path, for every number of labels, jobs, batches, *)
(* positions, faults and erasures; then about what apply_batch commits and *)
(* what is answered: the tree of an entry, its audit record, the values of *)
(* its updates, and that an update that was answered with success is in    *)
(* the log.  Last, that the write path implements the abstract log as long *)
(* as no access to the store has failed and the process has not died.      *)
(***************************************************************************)
EXTENDS PipelineRefinement, FiniteSetTheorems, FunctionTheorems, WellFoundedInduction, TLAPS

\* Only submitted jobs are in the channel and in the batch.
QueuedAreSubmitted ==
  /\ \A i \in DOMAIN queue : req[queue[i]] \in Requests
  /\ \A i \in DOMAIN batch : req[batch[i]] \in Requests

\* What the steps of a batch hand to one another.
BatchShape ==
  /\ pc \in {"idle", "lock", "version", "crypto"} =>
       alloc = 0 /\ \A l \in Labels : valid[l] = <<>>
  /\ pc \in {"check", "prefix", "ptr", "next"} => nextPrefix + alloc <= MaxPtr
  /\ pc \in {"prefix", "ptr", "next"} => alloc > 0
  /\ pc \in {"ptr", "next"} => final = nextPrefix + alloc - 1
  /\ pc \in WriteSteps => latest < MaxSize
  /\ pc \in {"catchup", "answer"} /\ outcome = "none" => work = {}

\* A running process works on the stored head; a dead one holds no batch.
HeadLoaded == IF up THEN latest = head ELSE pc = "idle"

TypeInv == TypeOK /\ QueuedAreSubmitted /\ BatchShape /\ HeadLoaded

-----------------------------------------------------------------------------
\* What Append, Tail and concatenation do to a typed sequence.
LEMMA AppendSeq ==
  ASSUME NEW S, NEW s \in Seq(S), NEW x \in S
  PROVE  /\ Append(s, x) \in Seq(S)
         /\ DOMAIN Append(s, x) = 1 .. Len(s) + 1
         /\ \A i \in DOMAIN Append(s, x) :
              Append(s, x)[i] = IF i = Len(s) + 1 THEN x ELSE s[i]
         /\ \A i \in DOMAIN Append(s, x) : i # Len(s) + 1 => i \in DOMAIN s
  OBVIOUS

LEMMA TailSeq ==
  ASSUME NEW S, NEW s \in Seq(S), s # <<>>
  PROVE  /\ Head(s) \in S /\ Head(s) = s[1] /\ 1 \in DOMAIN s
         /\ Tail(s) \in Seq(S)
         /\ \A i \in DOMAIN Tail(s) : i + 1 \in DOMAIN s /\ Tail(s)[i] = s[i + 1]
  OBVIOUS

LEMMA ConcatSeq ==
  ASSUME NEW S, NEW s \in Seq(S), NEW t \in Seq(S)
  PROVE  /\ s \o t \in Seq(S)
         /\ DOMAIN (s \o t) = 1 .. Len(s) + Len(t)
         /\ \A i \in DOMAIN (s \o t) :
              (s \o t)[i] = IF i <= Len(s) THEN s[i] ELSE t[i - Len(s)]
  OBVIOUS

\* What the base tree and the updates of a batch are made of.
LEMMA BaseTreeType == TypeOK => BaseTree \in SUBSET Leaves
<1> SUFFICES ASSUME TypeOK PROVE BaseTree \in SUBSET Leaves
  OBVIOUS
<1>1. CASE latest > 0
  <2> latest \in 0 .. MaxSize /\ MaxSize \in Nat
    BY BoundsAssumption DEF TypeOK
  <2>1. latest - 1 \in Indices
    BY <1>1 DEF Indices
  <2>2. prefixPtr[latest - 1] \in Ptrs
    BY <2>1 DEF TypeOK
  <2>3. prefix[prefixPtr[latest - 1]] \in SUBSET Leaves
    BY <2>2 DEF TypeOK
  <2>4. QED
    BY <1>1, <2>3 DEF BaseTree
<1>2. CASE ~(latest > 0)
  BY <1>2 DEF BaseTree
<1>3. QED
  BY <1>1, <1>2

LEMMA UpdatesType ==
  TypeOK => \A u \in Updates :
              u.label \in Labels /\ u.ver \in Versions /\ u.ptr \in Ptrs /\ u.job \in Jobs
<1> SUFFICES ASSUME TypeOK, NEW u \in Updates
             PROVE  u.label \in Labels /\ u.ver \in Versions /\ u.ptr \in Ptrs /\ u.job \in Jobs
  OBVIOUS
<1>1. PICK l \in Labels : \E i \in DOMAIN valid[l] :
        u = [label |-> l, ver |-> valid[l][i].ver, ptr |-> valid[l][i].ptr, job |-> valid[l][i].job]
  BY DEF Updates
<1>2. PICK i \in DOMAIN valid[l] :
        u = [label |-> l, ver |-> valid[l][i].ver, ptr |-> valid[l][i].ptr, job |-> valid[l][i].job]
  BY <1>1
<1>3. valid[l] \in Seq(Slots)
  BY DEF TypeOK
<1>4. valid[l][i] \in Slots
  BY <1>2, <1>3
<1>5. QED
  BY <1>2, <1>4 DEF Slots

LEMMA LeafType ==
  TypeOK => \A u \in Updates : Leaf(u) \in Leaves
  BY UpdatesType DEF Leaf, Leaves

LEMMA PutBatchType ==
  ASSUME TypeOK, NEW cf \in [Ptrs -> Jobs \cup {NoJob}]
  PROVE  PutBatch(cf) \in [Ptrs -> Jobs \cup {NoJob}]
<1>1. ASSUME NEW p \in Ptrs, \E u \in Updates : u.ptr = p
      PROVE  (CHOOSE u \in Updates : u.ptr = p).job \in Jobs
  BY <1>1, UpdatesType
<1>2. QED
  BY <1>1 DEF PutBatch

\* Ptrs is not empty: the counters start in it.
LEMMA ZeroPtr == 0 \in Ptrs
  BY BoundsAssumption DEF Ptrs

LEMMA InitType == Init => TypeInv
  BY LabelsAssumption, JobsAssumption, BoundsAssumption
  DEF Init, TypeInv, TypeOK, QueuedAreSubmitted, BatchShape, HeadLoaded, Requests, Leaves,
      Slots, Records, NoRequest, Pending, ReplyKinds, PcValues, WriteSteps, Versions, NoVersion,
      Ptrs, Indices

LEMMA LastVersionType ==
  ASSUME TypeOK, NEW l \in Labels
  PROVE  LastVersion(l) \in Versions \cup {NoVersion}
<1>1. history[l] \in Seq(Records)
  BY DEF TypeOK
<1>2. history[l] # <<>> => history[l][Len(history[l])] \in Records
  BY <1>1
<1>3. QED
  BY <1>2 DEF LastVersion, Records

LEMMA CurrentGreatestType ==
  ASSUME TypeOK, NEW l \in Labels
  PROVE  CurrentGreatest(l) \in Versions \cup {NoVersion}
  BY LastVersionType DEF CurrentGreatest, TypeOK

LEMMA AssignedType ==
  ASSUME NEW j \in Jobs, req[j].label \in Labels, NEW start \in Nat, NEW n \in Nat
  PROVE  Assigned(j, start, n) \in Seq(Leaves)
<1>1. \A k \in 1 .. n : start + k - 1 \in Nat
  OBVIOUS
<1>2. \A k \in 1 .. n : [job |-> j, label |-> req[j].label, ver |-> start + k - 1] \in Leaves
  BY <1>1 DEF Leaves, Versions
<1>3. QED
  BY <1>2 DEF Assigned

LEMMA NewRecordsType ==
  ASSUME TypeOK, NEW l \in Labels
  PROVE  NewRecords(l) \in Seq(Records)
<1>1. valid[l] \in Seq(Slots)
  BY DEF TypeOK
<1>2. \A i \in 1 .. Len(valid[l]) : valid[l][i] \in Slots
  BY <1>1
<1>3. \A i \in 1 .. Len(valid[l]) :
        [ver |-> valid[l][i].ver, ptr |-> valid[l][i].ptr] \in Records
  BY <1>2 DEF Slots, Records
<1>4. QED
  BY <1>1, <1>3 DEF NewRecords


\* Every step keeps the types, one case per action.
LEMMA TypeStep == TypeInv /\ [Next]_vars => TypeInv'
<1> SUFFICES ASSUME TypeInv, [Next]_vars PROVE TypeInv'
  OBVIOUS
<1> USE DEF TypeInv, clientVars, workerVars, applyVars, treeVars, valueVars, storeVars, boundVars
<1>a. /\ MaxPtr \in Nat \ {0} /\ MaxSize \in Nat /\ MaxFaults \in Nat /\ MaxErase \in Nat
      /\ latest \in 0 .. MaxSize /\ head \in 0 .. MaxSize /\ nextPrefix \in 0 .. MaxPtr
      /\ alloc \in Nat /\ faults \in 0 .. MaxFaults /\ erased \in 0 .. MaxErase
      /\ up \in BOOLEAN
  BY BoundsAssumption DEF TypeOK
<1>b. {"idle", "lock", "version", "crypto", "check", "catchup", "answer", "prefix", "ptr", "next",
       "append", "blob", "value", "opening", "history", "head"} \subseteq PcValues
  BY DEF PcValues, WriteSteps
<1>1. CASE UNCHANGED vars
  BY <1>1 DEF vars, TypeOK, QueuedAreSubmitted, BatchShape, HeadLoaded
<1>2. ASSUME NEW j \in Jobs, NEW r \in Requests, Submit(j, r) PROVE TypeInv'
  <2>1. queue \in Seq(Jobs)
    BY DEF TypeOK
  <2>2. /\ queue' \in Seq(Jobs)
        /\ \A i \in DOMAIN queue' : queue'[i] # j => i \in DOMAIN queue /\ queue'[i] = queue[i]
    BY <1>2, <2>1, AppendSeq DEF Submit
  <2>3. TypeOK'
    BY <1>2, <2>1, <2>2, <1>a, <1>b DEF Submit, TypeOK
  <2>4. QueuedAreSubmitted'
    <3>1. \A k \in Jobs : req'[k] = IF k = j THEN r ELSE req[k]
      BY <1>2 DEF Submit, TypeOK
    <3>2. /\ \A i \in DOMAIN queue' : queue'[i] \in Jobs
          /\ batch' = batch /\ \A i \in DOMAIN batch : batch[i] \in Jobs
      BY <1>2, <2>2 DEF Submit, TypeOK
    <3>3. QED
      BY <1>2, <2>2, <3>1, <3>2 DEF QueuedAreSubmitted
  <2>5. BatchShape'
    BY <1>2, <2>1, <2>2, <1>a DEF Submit, BatchShape, WriteSteps
  <2>6. HeadLoaded'
    BY <1>2, <1>a DEF Submit, HeadLoaded
  <2>7. QED
    BY <2>3, <2>4, <2>5, <2>6
<1>3. CASE Receive
  <2>1. queue \in Seq(Jobs) /\ batch \in Seq(Jobs) /\ queue # <<>>
    BY <1>3 DEF TypeOK, Receive
  <2>2. /\ Head(queue) \in Jobs /\ Head(queue) = queue[1] /\ 1 \in DOMAIN queue
        /\ queue' \in Seq(Jobs)
        /\ \A i \in DOMAIN queue' : i + 1 \in DOMAIN queue /\ queue'[i] = queue[i + 1]
    BY <1>3, <2>1, TailSeq DEF Receive
  <2>3. /\ batch' \in Seq(Jobs)
        /\ \A i \in DOMAIN batch' : batch'[i] = queue[1] \/ (i \in DOMAIN batch /\ batch'[i] = batch[i])
    BY <1>3, <2>1, <2>2, AppendSeq DEF Receive
  <2>4. pc' \in {"lock", "idle"}
    BY <1>3 DEF Receive
  <2>5. TypeOK'
    BY <1>3, <2>1, <2>2, <2>3, <2>4, <1>a, <1>b DEF Receive, TypeOK
  <2>6. QueuedAreSubmitted'
    BY <1>3, <2>1, <2>2, <2>3, <2>4 DEF Receive, QueuedAreSubmitted
  <2>7. BatchShape'
    BY <1>3, <2>1, <2>2, <2>3, <2>4, <1>a DEF Receive, BatchShape, WriteSteps
  <2>8. HeadLoaded'
    BY <1>3, <1>a DEF Receive, HeadLoaded
  <2>9. QED
    BY <2>5, <2>6, <2>7, <2>8
<1>4. CASE Timeout
  <2>1. TypeOK'
    BY <1>4, <1>a, <1>b DEF Timeout, TypeOK
  <2>2. QueuedAreSubmitted'
    BY <1>4 DEF Timeout, QueuedAreSubmitted
  <2>3. BatchShape'
    BY <1>4, <1>a DEF Timeout, BatchShape, WriteSteps
  <2>4. HeadLoaded'
    BY <1>4, <1>a DEF Timeout, HeadLoaded
  <2>5. QED
    BY <2>1, <2>2, <2>3, <2>4
<1>5. CASE Lock
  <2>1. TypeOK'
    BY <1>5, <1>a, <1>b DEF Lock, TypeOK
  <2>2. QueuedAreSubmitted'
    BY <1>5 DEF Lock, QueuedAreSubmitted
  <2>3. BatchShape'
    BY <1>5, <1>a DEF Lock, BatchShape, WriteSteps
  <2>4. HeadLoaded'
    BY <1>5, <1>a DEF Lock, HeadLoaded
  <2>5. QED
    BY <2>1, <2>2, <2>3, <2>4
<1>6. CASE AssignVersions \/ HistoryReadFails
  <2>1. /\ batch \in Seq(Jobs) /\ batch # <<>> /\ pc = "version"
        /\ Head(batch) \in Jobs /\ Head(batch) = batch[1] /\ 1 \in DOMAIN batch
        /\ batch' \in Seq(Jobs)
        /\ \A i \in DOMAIN batch' : i + 1 \in DOMAIN batch /\ batch'[i] = batch[i + 1]
    <3>1. batch # <<>> /\ pc = "version" /\ batch' = Tail(batch)
      BY <1>6 DEF AssignVersions, HistoryReadFails, CompareAndSwap
    <3>2. QED
      BY <3>1, TailSeq DEF TypeOK
  <2>2. req[Head(batch)] \in Requests
    BY <2>1 DEF QueuedAreSubmitted
  <2>3. /\ req[Head(batch)].label \in Labels /\ req[Head(batch)].n \in Nat
    BY <2>2, BoundsAssumption DEF Requests
  <2>4. PICK g \in Versions \cup {NoVersion} : CompareAndSwap(g)
    BY <1>6, <2>3, CurrentGreatestType DEF AssignVersions, HistoryReadFails
  <2>a. faults' \in 0 .. MaxFaults
    <3>1. faults \in 0 .. MaxFaults /\ MaxFaults \in Nat
      BY BoundsAssumption DEF TypeOK
    <3>2. CASE AssignVersions
      BY <3>1, <3>2 DEF AssignVersions
    <3>3. CASE HistoryReadFails
      BY <3>1, <3>3 DEF HistoryReadFails
    <3>4. QED
      BY <1>6, <3>2, <3>3
  <2>5. /\ overlay' \in [Labels -> Versions \cup {NoVersion}]
        /\ pre' \in Seq(Leaves)
        /\ catchups' \subseteq Jobs /\ work' \subseteq Jobs
        /\ reply' = [j \in Jobs |-> reply'[j]] /\ \A j \in Jobs : reply'[j].kind \in ReplyKinds
    <3> DEFINE j == Head(batch)
    <3>1. /\ overlay \in [Labels -> Versions \cup {NoVersion}] /\ pre \in Seq(Leaves)
          /\ catchups \subseteq Jobs /\ work \subseteq Jobs
          /\ reply = [i \in Jobs |-> reply[i]] /\ \A i \in Jobs : reply[i].kind \in ReplyKinds
      BY DEF TypeOK
    <3>2. CASE catchups' = catchups \cup {j} /\ UNCHANGED <<reply, overlay, work, pre>>
      BY <2>1, <3>1, <3>2
    <3>3. ASSUME NEW k \in {"conflict", "empty", "toolong"}, Reject(j, k)
          PROVE  <2>5!:
      BY <2>1, <3>1, <3>3 DEF Reject, Fails, ReplyKinds
    <3>4. ASSUME req[j].n > 0,
                 overlay' = [overlay EXCEPT ![req[j].label] = g + req[j].n],
                 pre' = pre \o Assigned(j, g + 1, req[j].n),
                 work' = work \cup {j},
                 UNCHANGED <<reply, catchups>>
          PROVE  <2>5!:
      <4>1. g + 1 \in Nat /\ g + req[j].n \in Versions
        BY <2>3, <2>4, <3>4 DEF Versions, NoVersion
      <4>2. Assigned(j, g + 1, req[j].n) \in Seq(Leaves)
        BY <2>1, <2>3, <4>1, AssignedType
      <4>3. pre' \in Seq(Leaves)
        BY <3>1, <3>4, <4>2, ConcatSeq
      <4>4. QED
        BY <2>1, <2>3, <3>1, <3>4, <4>1, <4>3
    <3>5. QED
      BY <2>4, <3>2, <3>3, <3>4 DEF CompareAndSwap
  <2>b. UNCHANGED <<req, queue, pc, outcome, applyVars, storeVars, up, latest, erasing, erased>>
    BY <2>4 DEF CompareAndSwap
  <2>6. TypeOK'
    BY <2>1, <2>5, <2>a, <2>b, <1>b DEF TypeOK
  <2>7. QueuedAreSubmitted'
    BY <2>1, <2>2, <2>b DEF QueuedAreSubmitted
  <2>8. BatchShape'
    BY <2>1, <2>b, <1>a DEF BatchShape, WriteSteps
  <2>9. HeadLoaded'
    BY <2>1, <2>b, <1>a DEF HeadLoaded
  <2>10. QED
    BY <2>6, <2>7, <2>8, <2>9
<1>7. CASE Versioned
  <2>1. pc' \in {"catchup", "crypto"}
    BY <1>7 DEF Versioned
  <2>2. TypeOK'
    BY <1>7, <2>1, <1>a, <1>b DEF Versioned, TypeOK
  <2>3. QueuedAreSubmitted'
    BY <1>7, <2>1 DEF Versioned, QueuedAreSubmitted
  <2>4. BatchShape'
    BY <1>7, <2>1, <1>a DEF Versioned, BatchShape, WriteSteps
  <2>5. HeadLoaded'
    BY <1>7, <1>a DEF Versioned, HeadLoaded
  <2>6. QED
    BY <2>2, <2>3, <2>4, <2>5
<1>8. CASE Crypto
  <2>1. TypeOK'
    BY <1>8, <1>a, <1>b DEF Crypto, TypeOK
  <2>2. QueuedAreSubmitted'
    BY <1>8 DEF Crypto, QueuedAreSubmitted
  <2>3. BatchShape'
    BY <1>8, <1>a DEF Crypto, BatchShape, WriteSteps
  <2>4. HeadLoaded'
    BY <1>8, <1>a DEF Crypto, HeadLoaded
  <2>5. QED
    BY <2>1, <2>2, <2>3, <2>4
<1>9. CASE CryptoFails
  <2>1. TypeOK'
    BY <1>9, <1>a, <1>b DEF CryptoFails, TypeOK
  <2>2. QueuedAreSubmitted'
    BY <1>9 DEF CryptoFails, QueuedAreSubmitted
  <2>3. BatchShape'
    BY <1>9, <1>a DEF CryptoFails, BatchShape, WriteSteps
  <2>4. HeadLoaded'
    BY <1>9, <1>a DEF CryptoFails, HeadLoaded
  <2>5. QED
    BY <2>1, <2>2, <2>3, <2>4
<1>10. CASE CheckVersion
  <2>1. /\ pre \in Seq(Leaves) /\ pre # <<>> /\ pc = "check"
        /\ Head(pre) \in Leaves /\ pre' \in Seq(Leaves)
    BY <1>10, TailSeq DEF TypeOK, CheckVersion
  <2>2. /\ Head(pre).label \in Labels /\ Head(pre).ver \in Versions /\ Head(pre).job \in Jobs
    BY <2>1 DEF Leaves
  <2>3. nextPrefix + alloc \in Ptrs
    BY <1>10, <1>a DEF CheckVersion, Ptrs
  <2>4. [ver |-> Head(pre).ver, ptr |-> nextPrefix + alloc, job |-> Head(pre).job] \in Slots
    BY <2>2, <2>3 DEF Slots
  <2>5. valid' \in [Labels -> Seq(Slots)]
    <3>1. valid \in [Labels -> Seq(Slots)] /\ valid[Head(pre).label] \in Seq(Slots)
      BY <2>2 DEF TypeOK
    <3>2. Append(valid[Head(pre).label],
                 [ver |-> Head(pre).ver, ptr |-> nextPrefix + alloc, job |-> Head(pre).job]) \in Seq(Slots)
      BY <2>4, <3>1, AppendSeq
    <3>3. QED
      BY <1>10, <3>1, <3>2 DEF CheckVersion
  <2>6. overlay' \in [Labels -> Versions \cup {NoVersion}] /\ raced' \subseteq Jobs
    BY <1>10, <2>2 DEF CheckVersion, TypeOK
  <2>7. alloc' \in {alloc, alloc + 1} /\ nextPrefix + alloc' <= MaxPtr
    BY <1>10, <1>a DEF CheckVersion
  <2>8. TypeOK'
    <3>1. /\ alloc' \in Nat
          /\ UNCHANGED <<req, reply, queue, batch, pc, catchups, work, outcome, final, prefix,
                         prefixPtr, nextPrefix, entry, blob, value, opening, history, head, up,
                         latest, erasing, faults, erased>>
      BY <1>10, <1>a, <2>7 DEF CheckVersion
    <3>2. QED
      BY <2>1, <2>5, <2>6, <3>1 DEF TypeOK
  <2>9. QueuedAreSubmitted'
    BY <1>10, <2>1, <2>2, <2>3, <2>4, <2>5, <2>6, <2>7 DEF CheckVersion, QueuedAreSubmitted
  <2>10. BatchShape'
    BY <1>10, <2>1, <2>2, <2>3, <2>4, <2>5, <2>6, <2>7, <1>a DEF CheckVersion, BatchShape,
       WriteSteps
  <2>11. HeadLoaded'
    BY <1>10, <1>a DEF CheckVersion, HeadLoaded
  <2>12. QED
    BY <2>8, <2>9, <2>10, <2>11
<1>11. CASE Checked
  <2>1. pc' \in {"catchup", "prefix"} /\ outcome' \in {outcome, "ok", "commit"}
    BY <1>11 DEF Checked
  <2>2. TypeOK'
    BY <1>11, <2>1, <1>a, <1>b DEF Checked, TypeOK
  <2>3. QueuedAreSubmitted'
    BY <1>11, <2>1 DEF Checked, QueuedAreSubmitted
  <2>4. BatchShape'
    BY <1>11, <2>1, <1>a DEF Checked, BatchShape, WriteSteps
  <2>5. HeadLoaded'
    BY <1>11, <1>a DEF Checked, HeadLoaded
  <2>6. QED
    BY <2>2, <2>3, <2>4, <2>5
<1>12. CASE PutPrefixBatch
  <2>1. final' \in Ptrs /\ final' = nextPrefix + alloc - 1
    BY <1>12, <1>a DEF PutPrefixBatch, Write, BatchShape, Ptrs
  <2>2. prefix' \in [Ptrs -> SUBSET Leaves]
    BY <1>12, BaseTreeType, LeafType DEF PutPrefixBatch, TypeOK
  <2>3. TypeOK'
    BY <1>12, <2>1, <2>2, <1>a, <1>b DEF PutPrefixBatch, Write, TypeOK
  <2>4. QueuedAreSubmitted'
    BY <1>12, <2>1, <2>2 DEF PutPrefixBatch, Write, QueuedAreSubmitted
  <2>5. BatchShape'
    BY <1>12, <2>1, <2>2, <1>a DEF PutPrefixBatch, Write, BatchShape, WriteSteps
  <2>6. HeadLoaded'
    BY <1>12, <1>a DEF PutPrefixBatch, Write, HeadLoaded
  <2>7. QED
    BY <2>3, <2>4, <2>5, <2>6
<1>13. CASE PutPrefixPtr
  <2>1. TypeOK'
    BY <1>13, <1>a, <1>b DEF PutPrefixPtr, Write, TypeOK
  <2>2. QueuedAreSubmitted'
    BY <1>13 DEF PutPrefixPtr, Write, QueuedAreSubmitted
  <2>3. BatchShape'
    BY <1>13, <1>a DEF PutPrefixPtr, Write, BatchShape, WriteSteps
  <2>4. HeadLoaded'
    BY <1>13, <1>a DEF PutPrefixPtr, Write, HeadLoaded
  <2>5. QED
    BY <2>1, <2>2, <2>3, <2>4
<1>14. CASE SetNextPrefixVersion
  <2>1. final \in Ptrs
    BY DEF TypeOK
  <2>2. nextPrefix' \in 0 .. MaxPtr
    BY <1>14, <1>a, <2>1 DEF SetNextPrefixVersion, Ptrs
  <2>3. TypeOK'
    BY <1>14, <2>1, <2>2, <1>a, <1>b DEF SetNextPrefixVersion, Write, TypeOK
  <2>4. QueuedAreSubmitted'
    BY <1>14, <2>1, <2>2 DEF SetNextPrefixVersion, Write, QueuedAreSubmitted
  <2>5. BatchShape'
    BY <1>14, <2>1, <2>2, <1>a DEF SetNextPrefixVersion, Write, BatchShape, WriteSteps
  <2>6. HeadLoaded'
    BY <1>14, <1>a DEF SetNextPrefixVersion, Write, HeadLoaded
  <2>7. QED
    BY <2>3, <2>4, <2>5, <2>6
<1>15. CASE BatchAppend
  <2>1. TypeOK'
    BY <1>15, <1>a, <1>b DEF BatchAppend, Write, TypeOK
  <2>2. QueuedAreSubmitted'
    BY <1>15 DEF BatchAppend, Write, QueuedAreSubmitted
  <2>3. BatchShape'
    BY <1>15, <1>a DEF BatchAppend, Write, BatchShape, WriteSteps
  <2>4. HeadLoaded'
    BY <1>15, <1>a DEF BatchAppend, Write, HeadLoaded
  <2>5. QED
    BY <2>1, <2>2, <2>3, <2>4
<1>16. CASE PutAuditBlob
  <2>1. AddedLeaves \in SUBSET Leaves /\ RemovedLeaves \in SUBSET Leaves
    BY LeafType, BaseTreeType DEF AddedLeaves, RemovedLeaves
  <2>2. TypeOK'
    BY <1>16, <2>1, <1>a, <1>b DEF PutAuditBlob, Write, TypeOK
  <2>3. QueuedAreSubmitted'
    BY <1>16, <2>1 DEF PutAuditBlob, Write, QueuedAreSubmitted
  <2>4. BatchShape'
    BY <1>16, <2>1, <1>a DEF PutAuditBlob, Write, BatchShape, WriteSteps
  <2>5. HeadLoaded'
    BY <1>16, <1>a DEF PutAuditBlob, Write, HeadLoaded
  <2>6. QED
    BY <2>2, <2>3, <2>4, <2>5
<1>17. CASE PutValueBatch
  <2>1. value' \in [Ptrs -> Jobs \cup {NoJob}]
    BY <1>17, PutBatchType DEF PutValueBatch, TypeOK
  <2>2. TypeOK'
    BY <1>17, <2>1, <1>a, <1>b DEF PutValueBatch, Write, TypeOK
  <2>3. QueuedAreSubmitted'
    BY <1>17, <2>1 DEF PutValueBatch, Write, QueuedAreSubmitted
  <2>4. BatchShape'
    BY <1>17, <2>1, <1>a DEF PutValueBatch, Write, BatchShape, WriteSteps
  <2>5. HeadLoaded'
    BY <1>17, <1>a DEF PutValueBatch, Write, HeadLoaded
  <2>6. QED
    BY <2>2, <2>3, <2>4, <2>5
<1>18. CASE PutOpeningBatch
  <2>1. opening' \in [Ptrs -> Jobs \cup {NoJob}]
    BY <1>18, PutBatchType DEF PutOpeningBatch, TypeOK
  <2>2. TypeOK'
    BY <1>18, <2>1, <1>a, <1>b DEF PutOpeningBatch, Write, TypeOK
  <2>3. QueuedAreSubmitted'
    BY <1>18, <2>1 DEF PutOpeningBatch, Write, QueuedAreSubmitted
  <2>4. BatchShape'
    BY <1>18, <2>1, <1>a DEF PutOpeningBatch, Write, BatchShape, WriteSteps
  <2>5. HeadLoaded'
    BY <1>18, <1>a DEF PutOpeningBatch, Write, HeadLoaded
  <2>6. QED
    BY <2>2, <2>3, <2>4, <2>5
<1>19. CASE PutHistoryBatch
  <2>1. \A l \in Labels : NewRecords(l) \in Seq(Records)
    BY NewRecordsType
  <2>2. history' \in [Labels -> Seq(Records)]
    BY <1>19, <2>1, ConcatSeq DEF PutHistoryBatch, TypeOK
  <2>3. TypeOK'
    BY <1>19, <2>1, <2>2, <1>a, <1>b DEF PutHistoryBatch, Write, TypeOK
  <2>4. QueuedAreSubmitted'
    BY <1>19, <2>1, <2>2 DEF PutHistoryBatch, Write, QueuedAreSubmitted
  <2>5. BatchShape'
    BY <1>19, <2>1, <2>2, <1>a DEF PutHistoryBatch, Write, BatchShape, WriteSteps
  <2>6. HeadLoaded'
    BY <1>19, <1>a DEF PutHistoryBatch, Write, HeadLoaded
  <2>7. QED
    BY <2>3, <2>4, <2>5, <2>6
<1>20. CASE SetHead
  <2>1. latest < MaxSize
    BY <1>20 DEF SetHead, Write, BatchShape, WriteSteps
  <2>2. latest' \in 0 .. MaxSize /\ head' = latest' /\ latest' = latest + 1
    BY <1>20, <1>a, <2>1 DEF SetHead
  <2>3. TypeOK'
    BY <1>20, <2>1, <2>2, <1>a, <1>b DEF SetHead, Write, TypeOK
  <2>4. QueuedAreSubmitted'
    BY <1>20, <2>1, <2>2 DEF SetHead, Write, QueuedAreSubmitted
  <2>5. BatchShape'
    BY <1>20, <2>1, <2>2, <1>a DEF SetHead, Write, BatchShape, WriteSteps
  <2>6. HeadLoaded'
    BY <1>20, <1>a DEF SetHead, Write, HeadLoaded
  <2>7. QED
    BY <2>3, <2>4, <2>5, <2>6
<1>21. CASE WriteFails
  <2>1. TypeOK'
    BY <1>21, <1>a, <1>b DEF WriteFails, TypeOK
  <2>2. QueuedAreSubmitted'
    BY <1>21 DEF WriteFails, QueuedAreSubmitted
  <2>3. BatchShape'
    BY <1>21, <1>a DEF WriteFails, BatchShape, WriteSteps
  <2>4. HeadLoaded'
    BY <1>21, <1>a DEF WriteFails, HeadLoaded
  <2>5. QED
    BY <2>1, <2>2, <2>3, <2>4
<1>22. ASSUME NEW j \in Jobs, CatchUp(j) PROVE TypeInv'
  <2>1. CatchUpReply(req[j]).kind \in ReplyKinds
    BY DEF CatchUpReply, Fails, ReplyKinds
  <2>2. TypeOK'
    BY <1>22, <2>1, <1>a, <1>b DEF CatchUp, TypeOK
  <2>3. QueuedAreSubmitted'
    BY <1>22, <2>1 DEF CatchUp, QueuedAreSubmitted
  <2>4. BatchShape'
    BY <1>22, <2>1, <1>a DEF CatchUp, BatchShape, WriteSteps
  <2>5. HeadLoaded'
    BY <1>22, <1>a DEF CatchUp, HeadLoaded
  <2>6. QED
    BY <2>2, <2>3, <2>4, <2>5
<1>23. CASE CatchUpsDone
  <2>1. TypeOK'
    BY <1>23, <1>a, <1>b DEF CatchUpsDone, TypeOK
  <2>2. QueuedAreSubmitted'
    BY <1>23 DEF CatchUpsDone, QueuedAreSubmitted
  <2>3. BatchShape'
    BY <1>23, <1>a DEF CatchUpsDone, BatchShape, WriteSteps
  <2>4. HeadLoaded'
    BY <1>23, <1>a DEF CatchUpsDone, HeadLoaded
  <2>5. QED
    BY <2>1, <2>2, <2>3, <2>4
<1>24. ASSUME NEW j \in Jobs, Answer(j) PROVE TypeInv'
  <2>1. outcome \in {"ok", "crypto", "commit"}
    BY <1>24 DEF Answer, TypeOK, BatchShape
  <2>2. /\ reply' = [i \in Jobs |-> reply'[i]] /\ \A i \in Jobs : reply'[i].kind \in ReplyKinds
    BY <1>24, <2>1 DEF Answer, Fails, ReplyKinds, TypeOK
  <2>3. TypeOK'
    BY <1>24, <2>1, <2>2, <1>a, <1>b DEF Answer, TypeOK
  <2>4. QueuedAreSubmitted'
    BY <1>24, <2>1, <2>2 DEF Answer, QueuedAreSubmitted
  <2>5. BatchShape'
    BY <1>24, <2>1, <2>2, <1>a DEF Answer, BatchShape, WriteSteps
  <2>6. HeadLoaded'
    BY <1>24, <1>a DEF Answer, HeadLoaded
  <2>7. QED
    BY <2>3, <2>4, <2>5, <2>6
<1>c. ASSUME NEW j \in Jobs, AnswerFails(j) PROVE TypeInv'
  <2>1. /\ reply' = [i \in Jobs |-> reply'[i]] /\ \A i \in Jobs : reply'[i].kind \in ReplyKinds
    BY <1>c DEF AnswerFails, Fails, ReplyKinds, TypeOK
  <2>2. TypeOK'
    BY <1>c, <2>1, <1>a, <1>b DEF AnswerFails, TypeOK
  <2>3. QueuedAreSubmitted'
    BY <1>c DEF AnswerFails, QueuedAreSubmitted
  <2>4. BatchShape'
    BY <1>c, <1>a DEF AnswerFails, BatchShape, WriteSteps
  <2>5. HeadLoaded'
    BY <1>c, <1>a DEF AnswerFails, HeadLoaded
  <2>6. QED
    BY <2>2, <2>3, <2>4, <2>5
<1>25. CASE BatchDone
  <2>1. final' \in Ptrs
    BY <1>25, ZeroPtr DEF BatchDone, ForgetBatch
  <2>2. TypeOK'
    BY <1>25, <2>1, <1>a, <1>b DEF BatchDone, ForgetBatch, TypeOK
  <2>3. QueuedAreSubmitted'
    BY <1>25, <2>1 DEF BatchDone, ForgetBatch, QueuedAreSubmitted
  <2>4. BatchShape'
    BY <1>25, <2>1, <1>a DEF BatchDone, ForgetBatch, BatchShape, WriteSteps
  <2>5. HeadLoaded'
    BY <1>25, <1>a DEF BatchDone, ForgetBatch, HeadLoaded
  <2>6. QED
    BY <2>2, <2>3, <2>4, <2>5
<1>26. ASSUME NEW l \in Labels, NEW k \in 1 .. MaxPtr, EraseValue(l, k) PROVE TypeInv'
  <2>1. history[l] \in Seq(Records) /\ k \in DOMAIN history[l]
    BY <1>26 DEF EraseValue, TypeOK
  <2>2. history[l][k].ptr \in Ptrs
    <3>1. history[l][k] \in Records
      BY <2>1
    <3>2. QED
      BY <3>1 DEF Records
  <2>3. erased' \in 0 .. MaxErase
    BY <1>26, <1>a DEF EraseValue
  <2>4. TypeOK'
    BY <1>26, <2>1, <2>2, <2>3, <1>a, <1>b DEF EraseValue, TypeOK
  <2>5. QueuedAreSubmitted'
    BY <1>26, <2>1, <2>2, <2>3 DEF EraseValue, QueuedAreSubmitted
  <2>6. BatchShape'
    BY <1>26, <2>1, <2>2, <2>3, <1>a DEF EraseValue, BatchShape, WriteSteps
  <2>7. HeadLoaded'
    BY <1>26, <1>a DEF EraseValue, HeadLoaded
  <2>8. QED
    BY <2>4, <2>5, <2>6, <2>7
<1>27. CASE EraseOpening
  <2>1. TypeOK'
    BY <1>27, <1>a, <1>b DEF EraseOpening, TypeOK
  <2>2. QueuedAreSubmitted'
    BY <1>27 DEF EraseOpening, QueuedAreSubmitted
  <2>3. BatchShape'
    BY <1>27, <1>a DEF EraseOpening, BatchShape, WriteSteps
  <2>4. HeadLoaded'
    BY <1>27, <1>a DEF EraseOpening, HeadLoaded
  <2>5. QED
    BY <2>1, <2>2, <2>3, <2>4
<1>28. CASE Crash
  <2>1. final' \in Ptrs
    BY <1>28, ZeroPtr DEF Crash, ForgetBatch
  <2>2. /\ faults' \in 0 .. MaxFaults /\ latest' \in 0 .. MaxSize
        /\ reply' = [j \in Jobs |-> reply'[j]] /\ \A j \in Jobs : reply'[j].kind \in ReplyKinds
    BY <1>a, <1>28 DEF Crash, Fails, ReplyKinds, TypeOK
  <2>3. TypeOK'
    <3>1. /\ overlay' = [l \in Labels |-> NoVersion] /\ valid' = [l \in Labels |-> <<>>]
          /\ catchups' = {} /\ work' = {} /\ pre' = <<>> /\ outcome' = "none" /\ raced' = {}
          /\ alloc' = 0 /\ queue' = <<>> /\ batch' = <<>> /\ pc' = "idle"
          /\ up' = FALSE /\ erasing' = NoVersion
      BY <1>28 DEF Crash, ForgetBatch
    <3>2. /\ overlay' \in [Labels -> Versions \cup {NoVersion}]
          /\ valid' \in [Labels -> Seq(Slots)]
          /\ catchups' \subseteq Jobs /\ work' \subseteq Jobs /\ raced' \subseteq Jobs
          /\ pre' \in Seq(Leaves) /\ queue' \in Seq(Jobs) /\ batch' \in Seq(Jobs)
          /\ alloc' \in Nat /\ outcome' \in {"none", "ok", "crypto", "commit"}
          /\ pc' \in PcValues /\ erasing' \in Ptrs \cup {NoVersion}
      BY <1>b, <3>1
    <3>3. up' \in BOOLEAN
      BY <3>1
    <3>4. UNCHANGED <<req, prefix, prefixPtr, nextPrefix, entry, blob, value, opening, history,
                      head, erased>>
      BY <1>28 DEF Crash
    <3>5. QED
      BY <2>1, <2>2, <3>2, <3>3, <3>4 DEF TypeOK
  <2>4. QueuedAreSubmitted'
    BY <1>28, <2>1, <2>2 DEF Crash, ForgetBatch, QueuedAreSubmitted
  <2>5. BatchShape'
    BY <1>28, <2>1, <2>2, <1>a DEF Crash, ForgetBatch, BatchShape, WriteSteps
  <2>6. HeadLoaded'
    BY <1>28, <1>a DEF Crash, ForgetBatch, HeadLoaded
  <2>7. QED
    BY <2>3, <2>4, <2>5, <2>6
<1>29. CASE Restart
  <2>1. TypeOK'
    BY <1>29, <1>a, <1>b DEF Restart, TypeOK
  <2>2. QueuedAreSubmitted'
    BY <1>29 DEF Restart, QueuedAreSubmitted
  <2>3. BatchShape'
    BY <1>29, <1>a DEF Restart, BatchShape, HeadLoaded, WriteSteps
  <2>4. HeadLoaded'
    BY <1>29, <1>a DEF Restart, HeadLoaded
  <2>5. QED
    BY <2>1, <2>2, <2>3, <2>4
<1>30. QED
  BY <1>1, <1>2, <1>3, <1>4, <1>5, <1>6, <1>7, <1>8, <1>9, <1>10, <1>11, <1>12, <1>13, <1>14,
     <1>15, <1>16, <1>17, <1>18, <1>19, <1>20, <1>21, <1>22, <1>23, <1>24, <1>25, <1>26, <1>27,
     <1>28, <1>29, <1>c
  DEF Next, WorkerStep, ApplyStep

\* Every column family and every local of the batch worker keeps its type.
THEOREM TypeCorrect == Spec => []TypeOK
<1>1. Spec => []TypeInv
  BY InitType, TypeStep, PTL DEF Spec
<1>2. TypeInv => TypeOK
  BY DEF TypeInv
<1>3. QED
  BY <1>1, <1>2, PTL

-----------------------------------------------------------------------------
\* What is below the stored head stays: apply_batch works at index latest, which is head.
LEMMA AppendStep == TypeInv /\ [Next]_vars => [KeepsLog]_vars
<1> SUFFICES ASSUME TypeInv, Next PROVE KeepsLog
  OBVIOUS
<1> USE DEF clientVars, workerVars, applyVars, treeVars, valueVars, storeVars, boundVars
<1>1. head \in 0 .. MaxSize /\ MaxSize \in Nat /\ (up => latest = head)
  BY BoundsAssumption DEF TypeInv, TypeOK, HeadLoaded
<1>2. up => \A i \in 0 .. head - 1 : i \in Indices /\ i # latest
  BY <1>1 DEF Indices
<1>3. CASE UNCHANGED <<head, entry, prefixPtr, blob>>
  BY <1>1, <1>3 DEF KeepsLog
<1>4. CASE SetHead
  BY <1>1, <1>4 DEF SetHead, Write, KeepsLog
<1>5. CASE BatchAppend
  <2>1. \A i \in Indices : i # latest => entry'[i] = entry[i]
    BY <1>5 DEF BatchAppend, TypeInv, TypeOK
  <2>2. QED
    BY <1>1, <1>2, <1>5, <2>1 DEF BatchAppend, Write, KeepsLog
<1>6. CASE PutPrefixPtr
  <2>1. \A i \in Indices : i # latest => prefixPtr'[i] = prefixPtr[i]
    BY <1>6 DEF PutPrefixPtr, TypeInv, TypeOK
  <2>2. QED
    BY <1>1, <1>2, <1>6, <2>1 DEF PutPrefixPtr, Write, KeepsLog
<1>7. CASE PutAuditBlob
  <2>1. \A i \in Indices : i # latest => blob'[i] = blob[i]
    BY <1>7 DEF PutAuditBlob, TypeInv, TypeOK
  <2>2. QED
    BY <1>1, <1>2, <1>7, <2>1 DEF PutAuditBlob, Write, KeepsLog
<1>8. QED
  BY <1>3, <1>4, <1>5, <1>6, <1>7
  DEF Next, WorkerStep, ApplyStep, Submit, Receive, Timeout, Lock, AssignVersions, HistoryReadFails,
      CompareAndSwap, AnswerFails, Versioned, Crypto, CryptoFails, CheckVersion, Checked, PutPrefixBatch, SetNextPrefixVersion,
      PutValueBatch, PutOpeningBatch, PutHistoryBatch, WriteFails, CatchUp, CatchUpsDone, Answer,
      BatchDone, EraseValue, EraseOpening, Crash, Restart

\* The log readers are shown only grows, through failing writes, crashes and restarts.
THEOREM LogIsAppendOnly == Spec => AppendOnly
  BY InitType, TypeStep, AppendStep, PTL DEF Spec, AppendOnly

-----------------------------------------------------------------------------
\* The inductive invariant behind the numbering of versions.
Numbering == TypeInv /\ HistoryContiguous /\ SlotsContinueHistory

LEMMA InitNumbering == Init => Numbering
  <1> SUFFICES ASSUME Init PROVE HistoryContiguous /\ SlotsContinueHistory
    BY InitType DEF Numbering
  <1> QED
    BY DEF Init, HistoryContiguous, SlotsContinueHistory, OverlayCounts, SlotsNumbered,
           SlotsReserved, Unindexed, Uncounted

\* Versions counted from a base, at increasing positions below a limit.
Numbered(s, base, limit) ==
  \A i \in DOMAIN s : /\ s[i].ver = base + i - 1
                      /\ s[i].ptr < limit
                      /\ \A k \in 1 .. i - 1 : s[k].ptr < s[i].ptr

LEMMA ConcatNumbered ==
  ASSUME NEW s \in Seq(Records), NEW t \in Seq(Records), NEW limit \in Nat,
         Numbered(s, 0, limit), Numbered(t, Len(s), limit),
         \A i \in DOMAIN s : \A k \in DOMAIN t : s[i].ptr < t[k].ptr
  PROVE  Numbered(s \o t, 0, limit)
<1>1. /\ DOMAIN s = 1 .. Len(s) /\ DOMAIN t = 1 .. Len(t) /\ Len(s) \in Nat /\ Len(t) \in Nat
      /\ DOMAIN (s \o t) = 1 .. Len(s) + Len(t)
      /\ \A i \in 1 .. Len(s) : (s \o t)[i] = s[i]
      /\ \A i \in Len(s) + 1 .. Len(s) + Len(t) : (s \o t)[i] = t[i - Len(s)]
  BY ConcatSeq
<1>2. SUFFICES ASSUME NEW i \in DOMAIN (s \o t)
               PROVE  /\ (s \o t)[i].ver = 0 + i - 1
                      /\ (s \o t)[i].ptr < limit
                      /\ \A k \in 1 .. i - 1 : (s \o t)[k].ptr < (s \o t)[i].ptr
  BY DEF Numbered
<1>3. CASE i \in 1 .. Len(s)
  <2>1. (s \o t)[i] = s[i] /\ i \in DOMAIN s
    BY <1>1, <1>3
  <2>2. \A k \in 1 .. i - 1 : (s \o t)[k] = s[k]
    BY <1>1, <1>3
  <2>3. s[i].ver = 0 + i - 1 /\ s[i].ptr < limit /\ \A k \in 1 .. i - 1 : s[k].ptr < s[i].ptr
    BY <2>1 DEF Numbered
  <2>4. QED
    BY <1>3, <2>1, <2>2, <2>3
<1>4. CASE i \in Len(s) + 1 .. Len(s) + Len(t)
  <2>1. (s \o t)[i] = t[i - Len(s)] /\ i - Len(s) \in DOMAIN t
    BY <1>1, <1>4
  <2>2. (s \o t)[i].ver = 0 + i - 1 /\ (s \o t)[i].ptr < limit
    BY <1>1, <1>4, <2>1 DEF Numbered
  <2>3. ASSUME NEW k \in 1 .. i - 1 PROVE (s \o t)[k].ptr < (s \o t)[i].ptr
    <3>1. CASE k \in 1 .. Len(s)
      BY <1>1, <2>1, <3>1
    <3>2. CASE k \in Len(s) + 1 .. Len(s) + Len(t)
      <4>1. (s \o t)[k] = t[k - Len(s)] /\ k - Len(s) \in 1 .. (i - Len(s)) - 1
        BY <1>1, <1>4, <3>2
      <4>2. QED
        BY <2>1, <4>1 DEF Numbered
    <3>3. QED
      BY <1>1, <1>4, <3>1, <3>2
  <2>4. QED
    BY <2>2, <2>3
<1>5. Len(s) \in Nat /\ Len(t) \in Nat /\ i \in 1 .. Len(s) + Len(t)
  BY <1>1
<1>6. i \in 1 .. Len(s) \/ i \in Len(s) + 1 .. Len(s) + Len(t)
  BY <1>5
<1>7. QED
  BY <1>3, <1>4, <1>6

LEMMA AppendNumbered ==
  ASSUME NEW s \in Seq(Slots), NEW x \in Slots, NEW base \in Nat, NEW limit \in Nat,
         Numbered(s, base, limit), x.ver = base + Len(s), x.ptr = limit
  PROVE  Numbered(Append(s, x), base, limit + 1)
<1>1. /\ DOMAIN s = 1 .. Len(s) /\ Len(s) \in Nat
      /\ DOMAIN Append(s, x) = 1 .. Len(s) + 1
      /\ \A k \in 1 .. Len(s) + 1 : Append(s, x)[k] = IF k = Len(s) + 1 THEN x ELSE s[k]
  BY AppendSeq
<1>2. \A k \in 1 .. Len(s) : s[k].ptr \in Nat
  <2>1. \A k \in 1 .. Len(s) : s[k] \in Slots
    BY <1>1
  <2>2. QED
    BY <2>1, BoundsAssumption DEF Slots, Ptrs
<1>3. SUFFICES ASSUME NEW i \in 1 .. Len(s) + 1
               PROVE  /\ Append(s, x)[i].ver = base + i - 1
                      /\ Append(s, x)[i].ptr < limit + 1
                      /\ \A k \in 1 .. i - 1 : Append(s, x)[k].ptr < Append(s, x)[i].ptr
  BY <1>1 DEF Numbered
<1>4. CASE i = Len(s) + 1
  <2>1. Append(s, x)[i] = x
    BY <1>1, <1>4
  <2>2. \A k \in 1 .. i - 1 : Append(s, x)[k] = s[k] /\ k \in DOMAIN s
    BY <1>1, <1>4
  <2>3. \A k \in 1 .. i - 1 : Append(s, x)[k].ptr < x.ptr
    BY <2>2 DEF Numbered
  <2>4. QED
    BY <1>1, <1>4, <2>1, <2>3
<1>5. CASE i \in 1 .. Len(s)
  <2>1. Append(s, x)[i] = s[i] /\ i \in DOMAIN s /\ s[i].ptr \in Nat
    BY <1>1, <1>2, <1>5
  <2>2. \A k \in 1 .. i - 1 : Append(s, x)[k] = s[k]
    BY <1>1, <1>5
  <2>3. s[i].ver = base + i - 1 /\ s[i].ptr < limit /\ \A k \in 1 .. i - 1 : s[k].ptr < s[i].ptr
    BY <2>1 DEF Numbered
  <2>4. QED
    BY <2>1, <2>2, <2>3
<1>6. QED
  BY <1>1, <1>4, <1>5

LEMMA NumberingStep == Numbering /\ [Next]_vars => Numbering'
<1> SUFFICES ASSUME Numbering, [Next]_vars PROVE HistoryContiguous' /\ SlotsContinueHistory'
  BY TypeStep DEF Numbering
<1> USE DEF clientVars, workerVars, applyVars, treeVars, valueVars, storeVars, boundVars
<1>a. /\ nextPrefix \in 0 .. MaxPtr /\ alloc \in Nat /\ final \in Ptrs /\ MaxPtr \in Nat
      /\ valid \in [Labels -> Seq(Slots)] /\ history \in [Labels -> Seq(Records)]
      /\ overlay \in [Labels -> Versions \cup {NoVersion}]
  BY BoundsAssumption DEF Numbering, TypeInv, TypeOK
<1>b. \A l \in Labels :
        /\ history[l] \in Seq(Records) /\ valid[l] \in Seq(Slots)
        /\ Len(history[l]) \in Nat /\ DOMAIN history[l] = 1 .. Len(history[l])
        /\ Len(valid[l]) \in Nat /\ DOMAIN valid[l] = 1 .. Len(valid[l])
        /\ \A i \in DOMAIN history[l] : history[l][i].ver \in Nat /\ history[l][i].ptr \in Nat
        /\ \A i \in DOMAIN valid[l] : valid[l][i].ver \in Nat /\ valid[l][i].ptr \in Nat
  <2> TAKE l \in Labels
  <2>1. history[l] \in Seq(Records) /\ valid[l] \in Seq(Slots)
    BY <1>a
  <2>2. /\ \A i \in DOMAIN history[l] : history[l][i] \in Records
        /\ \A i \in DOMAIN valid[l] : valid[l][i] \in Slots
    BY <2>1
  <2>3. QED
    BY <2>1, <2>2, BoundsAssumption DEF Records, Slots, Ptrs, Versions
<1>c. HistoryContiguous /\ SlotsContinueHistory
  BY DEF Numbering
<1>1. CASE UNCHANGED <<pc, overlay, valid, alloc, nextPrefix, history>>
  BY <1>c, <1>1
  DEF HistoryContiguous, SlotsContinueHistory, OverlayCounts, SlotsNumbered, SlotsReserved
<1>2. CASE pc' \notin Unindexed /\ UNCHANGED <<history, nextPrefix>>
  BY <1>c, <1>2
  DEF HistoryContiguous, SlotsContinueHistory, OverlayCounts, SlotsNumbered, SlotsReserved,
      Unindexed, Uncounted
<1>3. CASE /\ pc \in Uncounted /\ pc' \in Uncounted \ {"check"}
           /\ UNCHANGED <<valid, alloc, nextPrefix, history>>
  BY <1>c, <1>3
  DEF HistoryContiguous, SlotsContinueHistory, OverlayCounts, SlotsNumbered, SlotsReserved,
      Unindexed
<1>4. CASE /\ pc \in Unindexed \ Uncounted /\ pc' \in Unindexed \ Uncounted
           /\ UNCHANGED <<valid, alloc, nextPrefix, history>>
  BY <1>c, <1>4
  DEF HistoryContiguous, SlotsContinueHistory, OverlayCounts, SlotsNumbered, SlotsReserved,
      Unindexed, Uncounted
<1>5. CASE SetNextPrefixVersion
  <2>1. /\ nextPrefix' = nextPrefix + alloc /\ pc = "next" /\ pc' = "append"
        /\ UNCHANGED <<valid, history>>
    BY <1>5, <1>a DEF SetNextPrefixVersion, Write, Numbering, TypeInv, BatchShape
  <2>2. HistoryContiguous'
    <3> SUFFICES ASSUME NEW l \in Labels, NEW i \in DOMAIN history[l]
                 PROVE  history[l][i].ptr < nextPrefix + alloc
      BY <1>c, <2>1 DEF HistoryContiguous
    <3>1. history[l][i].ptr \in Nat /\ history[l][i].ptr < nextPrefix
      BY <1>b, <1>c DEF HistoryContiguous
    <3>2. QED
      BY <1>a, <3>1
  <2>3. SlotsContinueHistory'
    BY <1>c, <2>1
    DEF SlotsContinueHistory, OverlayCounts, SlotsNumbered, SlotsReserved, Unindexed, Uncounted
  <2>4. QED
    BY <2>2, <2>3
<1>6. CASE Crypto
  <2>1. /\ pc' = "check" /\ UNCHANGED <<history, nextPrefix>>
        /\ \A l \in Labels : overlay'[l] = NoVersion /\ valid'[l] = <<>>
    BY <1>6 DEF Crypto, Numbering, TypeInv, BatchShape
  <2>2. HistoryContiguous'
    BY <1>c, <2>1 DEF HistoryContiguous
  <2>3. \A l \in Labels : DOMAIN valid'[l] = {}
    BY <2>1
  <2>4. SlotsContinueHistory'
    BY <2>1, <2>3 DEF SlotsContinueHistory, OverlayCounts, SlotsNumbered, SlotsReserved
  <2>5. QED
    BY <2>2, <2>4
<1>7. CASE CheckVersion
  <2>0. PICK u, m, slot :
          /\ u = Head(pre) /\ m = u.label
          /\ slot = [ver |-> u.ver, ptr |-> nextPrefix + alloc, job |-> u.job]
    OBVIOUS
  <2>1. /\ m \in Labels /\ u.ver \in Nat /\ slot \in Slots
        /\ pc = "check" /\ pc' = "check" /\ UNCHANGED <<history, nextPrefix>>
    <3>1. u \in Leaves
      BY <1>7, <2>0, TailSeq DEF CheckVersion, Numbering, TypeInv, TypeOK
    <3>2. nextPrefix + alloc < MaxPtr
      BY <1>7 DEF CheckVersion
    <3>3. nextPrefix + alloc \in Ptrs
      BY <1>a, <3>2 DEF Ptrs
    <3>4. QED
      BY <1>7, <2>0, <3>1, <3>3 DEF CheckVersion, Leaves, Slots, Versions
  <2>2. HistoryContiguous'
    BY <1>c, <2>1 DEF HistoryContiguous
  <2>3. CASE u.ver # CurrentGreatest(m) + 1
    <3>1. UNCHANGED <<pc, overlay, valid, alloc, nextPrefix, history>>
      BY <1>7, <2>0, <2>3 DEF CheckVersion
    <3>2. QED
      BY <1>1, <3>1
  <2>4. CASE u.ver = CurrentGreatest(m) + 1
    <3>1. /\ overlay' = [overlay EXCEPT ![m] = u.ver]
          /\ valid' = [valid EXCEPT ![m] = Append(valid[m], slot)]
          /\ alloc' = alloc + 1
      BY <1>7, <2>0, <2>4 DEF CheckVersion
    <3>2. u.ver = Len(history[m]) + Len(valid[m])
      <4>1. LastVersion(m) = Len(history[m]) - 1
        BY <1>a, <1>b, <1>c, <2>1 DEF LastVersion, HistoryContiguous, NoVersion
      <4>2. CASE overlay[m] = NoVersion
        <5>1. Len(valid[m]) = 0
          BY <1>a, <1>c, <2>1, <4>2 DEF SlotsContinueHistory, OverlayCounts
        <5>2. QED
          BY <1>b, <2>1, <2>4, <4>1, <4>2, <5>1 DEF CurrentGreatest
      <4>3. CASE overlay[m] # NoVersion
        <5>1. overlay[m] = Len(history[m]) + Len(valid[m]) - 1
          BY <1>c, <2>1, <4>3 DEF SlotsContinueHistory, OverlayCounts
        <5>2. QED
          BY <1>b, <2>1, <2>4, <4>3, <5>1 DEF CurrentGreatest
      <4>4. QED
        BY <4>2, <4>3
    <3>3. ASSUME NEW l \in Labels PROVE (OverlayCounts(l) /\ SlotsNumbered(l) /\ SlotsReserved(l))'
      <4>0. OverlayCounts(l) /\ SlotsNumbered(l) /\ SlotsReserved(l)
        BY <1>c DEF SlotsContinueHistory
      <4>1. CASE l # m
        <5>1. overlay'[l] = overlay[l] /\ valid'[l] = valid[l]
          BY <1>a, <2>1, <3>1, <4>1
        <5>2. SlotsReserved(l)'
          <6>1. \A k \in DOMAIN valid[l] : valid[l][k].ptr < nextPrefix + (alloc + 1)
            BY <1>a, <1>b, <2>1, <4>0 DEF SlotsReserved, Uncounted
          <6>2. QED
            BY <2>1, <3>1, <4>0, <5>1, <6>1 DEF SlotsReserved, Uncounted
        <5>3. QED
          BY <2>1, <4>0, <5>1, <5>2 DEF OverlayCounts, SlotsNumbered
      <4>2. CASE l = m
        <5>0. PICK old : old = valid[m]
          OBVIOUS
        <5>1. /\ overlay'[m] = u.ver /\ valid'[m] = Append(old, slot)
          BY <1>a, <2>1, <3>1, <5>0
        <5>2. /\ old \in Seq(Slots) /\ Len(old) \in Nat /\ DOMAIN old = 1 .. Len(old)
              /\ Len(Append(old, slot)) = Len(old) + 1
              /\ DOMAIN Append(old, slot) = 1 .. Len(old) + 1
              /\ \A k \in 1 .. Len(old) + 1 : Append(old, slot)[k] = IF k = Len(old) + 1 THEN slot ELSE old[k]
          BY <1>b, <2>1, <5>0, AppendSeq
        <5>3. slot.ver = Len(history[m]) + Len(old) /\ slot.ptr = nextPrefix + alloc
          BY <2>0, <3>2, <5>0
        <5>4. PICK h, lim : h = history[m] /\ lim = nextPrefix + alloc
          OBVIOUS
        <5>5. Len(h) \in Nat /\ lim \in Nat /\ nextPrefix <= lim /\ nextPrefix \in Nat
          BY <1>a, <1>b, <2>1, <5>4
        <5>6. /\ \A k \in DOMAIN old : nextPrefix <= old[k].ptr /\ old[k].ptr < lim
              /\ \A k \in DOMAIN old : old[k].ver = Len(h) + k - 1
              /\ \A k \in DOMAIN old : \A i \in 1 .. k - 1 : old[i].ptr < old[k].ptr
              /\ \A k \in DOMAIN old : \A i \in DOMAIN h : h[i].ptr < old[k].ptr
          BY <2>1, <4>0, <4>2, <5>0, <5>4 DEF SlotsNumbered, SlotsReserved, Unindexed, Uncounted
        <5>7. \A i \in DOMAIN h : h[i].ptr \in Nat /\ h[i].ptr < nextPrefix
          BY <1>b, <1>c, <2>1, <5>4 DEF HistoryContiguous
        <5>8. Numbered(old, Len(h), lim)
          BY <5>6 DEF Numbered
        <5>9. Numbered(Append(old, slot), Len(h), lim + 1)
          BY <2>1, <5>2, <5>3, <5>4, <5>5, <5>8, AppendNumbered
        <5>10. OverlayCounts(m)'
          <6>1. overlay'[m] \in Nat /\ overlay'[m] = Len(h) + Len(valid'[m]) - 1 /\ Len(valid'[m]) # 0
            <7>1. overlay'[m] = Len(h) + Len(old)
              BY <3>2, <5>0, <5>1, <5>4
            <7>2. Len(valid'[m]) = Len(old) + 1
              BY <5>1, <5>2
            <7>3. Len(old) \in Nat /\ Len(h) \in Nat
              BY <5>2, <5>5
            <7>4. QED
              BY <7>1, <7>2, <7>3
          <6>2. overlay'[m] # NoVersion /\ valid'[m] # <<>>
            BY <6>1 DEF NoVersion
          <6>3. QED
            BY <2>1, <5>4, <6>1, <6>2 DEF OverlayCounts
        <5>11. \A k \in 1 .. Len(old) + 1 :
                 /\ nextPrefix <= Append(old, slot)[k].ptr
                 /\ \A i \in DOMAIN h : h[i].ptr < Append(old, slot)[k].ptr
          <6> TAKE k \in 1 .. Len(old) + 1
          <6>1. CASE k = Len(old) + 1
            <7>1. Append(old, slot)[k].ptr = lim
              BY <5>2, <5>3, <5>4, <6>1
            <7>2. QED
              BY <5>5, <5>7, <7>1
          <6>2. CASE k # Len(old) + 1
            <7>1. Append(old, slot)[k] = old[k] /\ k \in DOMAIN old
              BY <5>2, <6>2
            <7>2. QED
              BY <5>6, <7>1
          <6>3. QED
            BY <6>1, <6>2
        <5>12. SlotsNumbered(m)'
          <6>1. \A k \in DOMAIN Append(old, slot) :
                  /\ Append(old, slot)[k].ver = Len(h) + k - 1
                  /\ \A i \in 1 .. k - 1 : Append(old, slot)[i].ptr < Append(old, slot)[k].ptr
                  /\ \A i \in DOMAIN h : h[i].ptr < Append(old, slot)[k].ptr
            BY <5>2, <5>9, <5>11 DEF Numbered
          <6>2. QED
            BY <2>1, <5>1, <5>4, <6>1 DEF SlotsNumbered
        <5>13. SlotsReserved(m)'
          <6>1. lim + 1 = nextPrefix' + alloc'
            BY <1>a, <2>1, <3>1, <5>4
          <6>2. \A k \in DOMAIN Append(old, slot) :
                  nextPrefix <= Append(old, slot)[k].ptr /\ Append(old, slot)[k].ptr < lim + 1
            BY <5>2, <5>9, <5>11 DEF Numbered
          <6>3. QED
            BY <2>1, <5>1, <6>1, <6>2 DEF SlotsReserved, Uncounted
        <5>14. QED
          BY <4>2, <5>10, <5>12, <5>13
      <4>3. QED
        BY <4>1, <4>2
    <3>4. QED
      BY <2>2, <3>3 DEF SlotsContinueHistory
  <2>5. QED
    BY <2>3, <2>4
<1>8. CASE PutHistoryBatch
  <2>1. /\ pc = "history" /\ pc' = "head" /\ UNCHANGED <<nextPrefix, valid>>
        /\ history' = [l \in Labels |-> history[l] \o NewRecords(l)]
    BY <1>8 DEF PutHistoryBatch, Write
  <2>2. SlotsContinueHistory'
    BY <2>1
    DEF SlotsContinueHistory, OverlayCounts, SlotsNumbered, SlotsReserved, Unindexed, Uncounted
  <2>3. HistoryContiguous'
    <3> SUFFICES ASSUME NEW l \in Labels, NEW i \in DOMAIN history'[l]
                 PROVE  /\ history'[l][i].ver = i - 1
                        /\ history'[l][i].ptr < nextPrefix
                        /\ \A k \in 1 .. i - 1 : history'[l][k].ptr < history'[l][i].ptr
      BY <2>1 DEF HistoryContiguous
    <3>1. PICK h, new : h = history[l] /\ new = NewRecords(l)
      OBVIOUS
    <3>2. /\ h \in Seq(Records) /\ new \in Seq(Records) /\ history'[l] = h \o new
          /\ DOMAIN new = 1 .. Len(valid[l])
          /\ \A k \in DOMAIN new : new[k].ver = valid[l][k].ver /\ new[k].ptr = valid[l][k].ptr
      BY <1>b, <2>1, <3>1, NewRecordsType DEF NewRecords, Numbering, TypeInv
    <3>3. Numbered(h, 0, nextPrefix)
      BY <1>b, <1>c, <3>1 DEF HistoryContiguous, Numbered
    <3>4. /\ \A k \in DOMAIN valid[l] : valid[l][k].ptr < nextPrefix
          /\ \A k \in DOMAIN valid[l] : valid[l][k].ver = Len(h) + k - 1
          /\ \A k \in DOMAIN valid[l] : \A n \in 1 .. k - 1 : valid[l][n].ptr < valid[l][k].ptr
          /\ \A k \in DOMAIN valid[l] : \A n \in DOMAIN h : h[n].ptr < valid[l][k].ptr
      BY <1>c, <2>1, <3>1 DEF SlotsContinueHistory, SlotsNumbered, SlotsReserved, Unindexed, Uncounted
    <3>5. DOMAIN valid[l] = DOMAIN new /\ \A k \in DOMAIN new : k \in Nat /\ 1 .. k - 1 \subseteq DOMAIN new
      BY <1>b, <3>2
    <3>6. Numbered(new, Len(h), nextPrefix)
      BY <3>2, <3>4, <3>5 DEF Numbered
    <3>7. \A n \in DOMAIN h : \A k \in DOMAIN new : h[n].ptr < new[k].ptr
      BY <3>2, <3>4, <3>5
    <3>8. nextPrefix \in Nat
      BY <1>a
    <3>9. Numbered(h \o new, 0, nextPrefix)
      BY <3>2, <3>3, <3>6, <3>7, <3>8, ConcatNumbered
    <3>10. QED
      BY <3>2, <3>9 DEF Numbered
  <2>4. QED
    BY <2>2, <2>3
<1>9. CASE Checked
  BY <1>2, <1>3, <1>9 DEF Checked, Unindexed, Uncounted
<1>10. CASE PutPrefixBatch \/ PutPrefixPtr
  BY <1>3, <1>10 DEF PutPrefixBatch, PutPrefixPtr, Write, Uncounted
<1>11. CASE BatchAppend \/ PutAuditBlob \/ PutValueBatch \/ PutOpeningBatch
  BY <1>4, <1>11
  DEF BatchAppend, PutAuditBlob, PutValueBatch, PutOpeningBatch, Write, Unindexed, Uncounted
<1>12. CASE SetHead \/ WriteFails \/ CryptoFails \/ CatchUpsDone \/ BatchDone \/ Crash
  BY <1>2, <1>12
  DEF SetHead, WriteFails, CryptoFails, CatchUpsDone, BatchDone, Crash, Write, Unindexed, Uncounted
<1>13. CASE Receive \/ Timeout \/ Lock \/ AssignVersions \/ HistoryReadFails \/ Versioned
  BY <1>2, <1>13
  DEF Receive, Timeout, Lock, AssignVersions, HistoryReadFails, CompareAndSwap, Versioned, Unindexed, Uncounted
<1>14. CASE EraseOpening \/ Restart \/ UNCHANGED vars
  BY <1>1, <1>14 DEF EraseOpening, Restart, vars
<1>15. ASSUME NEW j \in Jobs, CatchUp(j) \/ Answer(j) \/ AnswerFails(j) \/ \E r \in Requests : Submit(j, r)
       PROVE  HistoryContiguous' /\ SlotsContinueHistory'
  BY <1>1, <1>15 DEF CatchUp, Answer, AnswerFails, Submit
<1>16. ASSUME NEW l \in Labels, NEW k \in 1 .. MaxPtr, EraseValue(l, k)
       PROVE  HistoryContiguous' /\ SlotsContinueHistory'
  BY <1>1, <1>16 DEF EraseValue
<1>17. QED
  BY <1>5, <1>6, <1>7, <1>8, <1>9, <1>10, <1>11, <1>12, <1>13, <1>14, <1>15, <1>16
  DEF Next, WorkerStep, ApplyStep

\* Versions of a label are numbered without gap at increasing positions below the counter,
\* however batches interleave with erasures, failing writes and crashes.
THEOREM VersionsAreContiguous == Spec => [](HistoryContiguous /\ SlotsContinueHistory)
<1>1. Spec => []Numbering
  BY InitNumbering, NumberingStep, PTL DEF Spec
<1>2. Numbering => HistoryContiguous /\ SlotsContinueHistory
  BY DEF Numbering
<1>3. QED
  BY <1>1, <1>2, PTL

-----------------------------------------------------------------------------
Grown    == WriteSteps \ {"prefix"}          \* after put_prefix_batch
Pointed  == Grown \ {"ptr"}                  \* after put_prefix_ptr
Moved    == Pointed \ {"next"}               \* after set_next_prefix_version
Appended == Moved \ {"append"}               \* after batch_append
Audited  == Appended \ {"blob"}              \* after put_audit_blob

\* What one write leaves for the next.
BatchWritten ==
  /\ pc \in WriteSteps => alloc > 0
  /\ pc \in Grown => prefix[final] = BaseTree \cup AddedLeaves
  /\ pc \in Pointed => prefixPtr[latest] = final
  /\ pc \in Moved => final < nextPrefix
  /\ pc \in Appended => entry[latest] = prefix[final]
  /\ pc \in Audited => /\ blob[latest] = [added |-> AddedLeaves, removed |-> {}]
                       /\ AddedLeaves \cap BaseTree = {}
  /\ pc = "head" => \A u \in Updates : u.ver < Len(history[u.label])

\* A position was only given to an accepted update.
Allocated == alloc > 0 => \E l \in Labels : valid[l] # <<>>

\* Committed trees lie below the counter.
PtrsBelow == \A i \in 0 .. head - 1 : prefixPtr[i] < nextPrefix

\* What is in a tree is in the history.
Known == \A i \in 0 .. head - 1 : \A x \in entry[i] : x.ver < Len(history[x.label])

\* What holds of the entries below the stored head.
LogMatches == PtrsBelow /\ ProofsMatchLog /\ Known /\ AuditReplay

TreeInv == Numbering /\ BatchWritten /\ Allocated /\ LogMatches

-----------------------------------------------------------------------------
\* The types the steps below rely on.
LEMMA StoreTypes ==
  ASSUME TypeInv
  PROVE  /\ head \in Nat /\ latest \in Nat /\ MaxSize \in Nat /\ head <= MaxSize
         /\ nextPrefix \in Nat /\ alloc \in Nat /\ final \in Ptrs
         /\ prefix \in [Ptrs -> SUBSET Leaves] /\ prefixPtr \in [Indices -> Ptrs]
         /\ entry \in [Indices -> SUBSET Leaves]
         /\ blob \in [Indices -> [added : SUBSET Leaves, removed : SUBSET Leaves]]
         /\ history \in [Labels -> Seq(Records)] /\ valid \in [Labels -> Seq(Slots)]
         /\ pc \in PcValues /\ Ptrs \subseteq Nat
         /\ \A i \in 0 .. head - 1 : i \in Indices
         /\ pc \in WriteSteps => latest = head /\ latest \in Indices
<1>1. /\ MaxSize \in Nat /\ MaxPtr \in Nat /\ Ptrs \subseteq Nat
  BY BoundsAssumption DEF Ptrs
<1>2. /\ head \in 0 .. MaxSize /\ latest \in 0 .. MaxSize
      /\ nextPrefix \in 0 .. MaxPtr /\ alloc \in Nat /\ final \in Ptrs
      /\ prefix \in [Ptrs -> SUBSET Leaves] /\ prefixPtr \in [Indices -> Ptrs]
      /\ entry \in [Indices -> SUBSET Leaves]
      /\ blob \in [Indices -> [added : SUBSET Leaves, removed : SUBSET Leaves]]
      /\ history \in [Labels -> Seq(Records)] /\ valid \in [Labels -> Seq(Slots)]
      /\ pc \in PcValues
  BY DEF TypeInv, TypeOK
<1>3. head \in Nat /\ latest \in Nat /\ nextPrefix \in Nat /\ head <= MaxSize
  BY <1>1, <1>2
<1>4. \A i \in 0 .. head - 1 : i \in Indices
  BY <1>1, <1>3 DEF Indices
<1>5. pc \in WriteSteps => latest = head /\ latest < MaxSize
  BY DEF TypeInv, BatchShape, HeadLoaded, WriteSteps
<1>6. pc \in WriteSteps => latest = head /\ latest \in Indices
  BY <1>1, <1>3, <1>5 DEF Indices
<1> QED
  BY <1>1, <1>2, <1>3, <1>4, <1>6

\* The tree a batch starts from is the one of the last entry.
LEMMA BaseIsPrev ==
  ASSUME TypeInv, ProofsMatchLog, pc \in WriteSteps
  PROVE  BaseTree = PrevTree(latest)
<1>1. latest = head /\ latest \in Nat
  BY StoreTypes
<1>2. CASE latest = 0
  BY <1>2 DEF BaseTree, PrevTree
<1>3. CASE latest > 0
  <2> latest - 1 \in 0 .. head - 1
    BY <1>1, <1>3
  <2> QED
    BY <1>1, <1>3 DEF BaseTree, PrevTree, ProofsMatchLog
<1> QED
  BY <1>1, <1>2, <1>3

\* The updates of a batch have versions the history does not.
LEMMA UpdatesAreNew ==
  ASSUME Numbering, pc \in Unindexed, NEW u \in Updates
  PROVE  u.label \in Labels /\ u.ver \in Nat /\ u.ver >= Len(history[u.label])
<1>1. PICK l \in Labels : \E k \in DOMAIN valid[l] :
        u = [label |-> l, ver |-> valid[l][k].ver, ptr |-> valid[l][k].ptr,
             job |-> valid[l][k].job]
  BY DEF Updates
<1>2. PICK k \in DOMAIN valid[l] : u.label = l /\ u.ver = valid[l][k].ver
  BY <1>1
<1>3. /\ history[l] \in Seq(Records) /\ valid[l] \in Seq(Slots)
  BY StoreTypes DEF Numbering
<1>4. Len(history[l]) \in Nat /\ k \in Nat \ {0}
  BY <1>3
<1>5. valid[l][k].ver = Len(history[l]) + k - 1
  BY DEF Numbering, SlotsContinueHistory, SlotsNumbered
<1> QED
  BY <1>2, <1>4, <1>5

\* The updates and the base tree of a batch are functions of what it read.
LEMMA UpdatesFrame ==
  valid' = valid => Updates' = Updates /\ AddedLeaves' = AddedLeaves
  BY DEF Updates, AddedLeaves

LEMMA BaseFrame ==
  (UNCHANGED <<prefix, prefixPtr, latest>>) => BaseTree' = BaseTree
  BY DEF BaseTree

\* What was just checked has a leaf, and none of its leaves is in the base tree.
LEMMA AddedIsNew ==
  ASSUME TreeInv, pc \in Unindexed, pc \in WriteSteps
  PROVE  AddedLeaves \cap BaseTree = {} /\ RemovedLeaves = {}
<1>1. TypeInv /\ Numbering /\ ProofsMatchLog /\ Known
  BY DEF TreeInv, LogMatches, Numbering
<1>2. ASSUME NEW x \in BaseTree PROVE x.ver < Len(history[x.label]) /\ x \in Leaves
  <2>1. latest = head /\ head \in Nat
    BY <1>1, StoreTypes
  <2>2. BaseTree = PrevTree(latest)
    BY <1>1, BaseIsPrev
  <2>3. latest # 0 /\ x \in entry[latest - 1]
    BY <1>2, <2>2 DEF PrevTree
  <2>4. latest - 1 \in 0 .. head - 1
    BY <2>1, <2>3
  <2>5. x \in Leaves
    BY <1>1, <1>2, BaseTreeType DEF TypeInv
  <2> QED
    BY <1>1, <2>3, <2>4, <2>5 DEF Known
<1>3. ASSUME NEW x \in BaseTree, NEW u \in Updates, x.label = u.label, x.ver = u.ver
      PROVE  FALSE
  <2>1. u.label \in Labels /\ u.ver \in Nat /\ u.ver >= Len(history[u.label])
    BY <1>1, UpdatesAreNew
  <2>2. history[u.label] \in Seq(Records)
    BY <1>1, <2>1, StoreTypes
  <2>3. Len(history[u.label]) \in Nat
    BY <2>2
  <2>4. u.ver < Len(history[u.label])
    BY <1>2, <1>3
  <2> QED
    BY <2>1, <2>3, <2>4
<1>4. RemovedLeaves = {}
  BY <1>3 DEF RemovedLeaves
<1>5. AddedLeaves \cap BaseTree = {}
  <2> SUFFICES ASSUME NEW u \in Updates, Leaf(u) \in BaseTree PROVE FALSE
    BY DEF AddedLeaves
  <2>1. Leaf(u).label = u.label /\ Leaf(u).ver = u.ver
    BY DEF Leaf
  <2> QED
    BY <1>3, <2>1
<1> QED
  BY <1>4, <1>5

-----------------------------------------------------------------------------
\* Entries below the head stay what they are as long as the head does.
LEMMA LogFrame ==
  ASSUME TreeInv, [Next]_vars, head' = head, nextPrefix' >= nextPrefix, nextPrefix' \in Nat,
         \A i \in 0 .. head - 1 : prefix'[prefixPtr[i]] = prefix[prefixPtr[i]],
         \A l \in Labels : Len(history'[l]) >= Len(history[l]) /\ Len(history'[l]) \in Nat
  PROVE  LogMatches'
<1>1. TypeInv /\ LogMatches
  BY DEF TreeInv, Numbering
<1>2. \A i \in 0 .. head - 1 :
        entry'[i] = entry[i] /\ prefixPtr'[i] = prefixPtr[i] /\ blob'[i] = blob[i]
  BY <1>1, AppendStep
  DEF KeepsLog, vars, storeVars, treeVars
<1>3. /\ nextPrefix \in Nat /\ head \in Nat
      /\ \A i \in 0 .. head - 1 : prefixPtr[i] \in Nat /\ entry[i] \in SUBSET Leaves
  BY <1>1, StoreTypes
<1>4. PtrsBelow'
  BY <1>1, <1>2, <1>3 DEF LogMatches, PtrsBelow
<1>5. ProofsMatchLog'
  BY <1>1, <1>2 DEF LogMatches, ProofsMatchLog
<1>6. Known'
  <2> SUFFICES ASSUME NEW i \in 0 .. head - 1, NEW x \in entry[i]
               PROVE  x.ver < Len(history'[x.label])
    BY <1>2 DEF Known
  <2>1. x \in Leaves /\ x.ver < Len(history[x.label])
    BY <1>1, <1>3 DEF LogMatches, Known
  <2>2. x.label \in Labels /\ x.ver \in Nat
    BY <2>1 DEF Leaves, Versions
  <2>3. history[x.label] \in Seq(Records)
    BY <1>1, <2>2, StoreTypes
  <2>4. Len(history[x.label]) \in Nat
    BY <2>3
  <2> QED
    BY <2>1, <2>2, <2>4
<1>7. AuditReplay'
  <2> SUFFICES ASSUME NEW i \in 0 .. head - 1
               PROVE  /\ blob'[i].removed = {}
                      /\ blob'[i].added \cap PrevTree(i)' = {}
                      /\ blob'[i].added # {}
                      /\ entry'[i] = PrevTree(i)' \cup blob'[i].added
    BY DEF AuditReplay
  <2>1. PrevTree(i)' = PrevTree(i)
    <3>1. i = 0 \/ i - 1 \in 0 .. head - 1
      BY <1>3
    <3> QED
      BY <1>2, <3>1 DEF PrevTree
  <2> QED
    BY <1>1, <1>2, <2>1 DEF LogMatches, AuditReplay
<1> QED
  BY <1>4, <1>5, <1>6, <1>7 DEF LogMatches

\* Trees are written above the counter, so below it they stay.
LEMMA PrefixBelow ==
  ASSUME TypeInv, PutPrefixBatch, NEW p \in Ptrs, p < nextPrefix
  PROVE  prefix'[p] = prefix[p]
<1>1. nextPrefix \in Nat /\ p \in Nat
  BY StoreTypes
<1>2. p \notin nextPrefix .. (nextPrefix + alloc - 1)
  BY <1>1
<1> QED
  BY <1>2 DEF PutPrefixBatch

\* set_head publishes an entry whose tree, leaf and audit record agree.
LEMMA SetHeadLog ==
  ASSUME TreeInv, SetHead
  PROVE  LogMatches'
<1>1. TypeInv /\ LogMatches /\ BatchWritten /\ Allocated /\ pc = "head"
  BY DEF TreeInv, Numbering, SetHead, Write
<1>2. /\ head' = head + 1 /\ latest = head /\ head \in Nat /\ latest \in Indices
      /\ UNCHANGED <<prefix, prefixPtr, nextPrefix, entry, blob, history, valid>>
  BY <1>1, StoreTypes DEF SetHead, Write, treeVars, applyVars, WriteSteps
<1>3. pc \in WriteSteps /\ pc \in Grown /\ pc \in Pointed /\ pc \in Moved
      /\ pc \in Appended /\ pc \in Audited
  BY <1>1 DEF WriteSteps, Grown, Pointed, Moved, Appended, Audited
<1>4. /\ alloc > 0 /\ prefixPtr[head] = final /\ final < nextPrefix
      /\ entry[head] = prefix[final] /\ entry[head] = PrevTree(head) \cup AddedLeaves
      /\ blob[head] = [added |-> AddedLeaves, removed |-> {}]
      /\ AddedLeaves \cap PrevTree(head) = {}
      /\ \A u \in Updates : u.ver < Len(history[u.label])
  <2>1. BaseTree = PrevTree(head)
    BY <1>1, <1>2, <1>3, BaseIsPrev DEF LogMatches
  <2> QED
    BY <1>1, <1>2, <1>3, <2>1 DEF BatchWritten
<1>5. \A i \in 0 .. head' - 1 : i = head \/ i \in 0 .. head - 1
  BY <1>2
<1>6. PtrsBelow'
  BY <1>1, <1>2, <1>4, <1>5 DEF LogMatches, PtrsBelow
<1>7. ProofsMatchLog'
  BY <1>1, <1>2, <1>4, <1>5 DEF LogMatches, ProofsMatchLog
<1>8. Known'
  <2>1. ASSUME NEW x \in PrevTree(head) PROVE x.ver < Len(history[x.label])
    <3>1. head # 0 /\ x \in entry[head - 1]
      BY <2>1 DEF PrevTree
    <3>2. head - 1 \in 0 .. head - 1
      BY <1>2, <3>1
    <3> QED
      BY <1>1, <3>1, <3>2 DEF LogMatches, Known
  <2>2. ASSUME NEW x \in AddedLeaves PROVE x.ver < Len(history[x.label])
    BY <1>4, <2>2 DEF AddedLeaves, Leaf
  <2>3. \A x \in entry[head] : x.ver < Len(history[x.label])
    BY <1>4, <2>1, <2>2
  <2> QED
    BY <1>1, <1>2, <1>5, <2>3 DEF LogMatches, Known
<1>9. AuditReplay'
  <2>1. AddedLeaves # {}
    <3>1. PICK l \in Labels : valid[l] # <<>>
      BY <1>1, <1>4 DEF Allocated
    <3>2. valid[l] \in Seq(Slots)
      BY <1>1, StoreTypes
    <3>3. 1 \in DOMAIN valid[l]
      BY <3>1, <3>2
    <3>4. [label |-> l, ver |-> valid[l][1].ver, ptr |-> valid[l][1].ptr,
           job |-> valid[l][1].job] \in Updates
      BY <3>3 DEF Updates
    <3> QED
      BY <3>4 DEF AddedLeaves
  <2>2. \A i : PrevTree(i)' = PrevTree(i)
    BY <1>2 DEF PrevTree
  <2>3. ASSUME NEW i \in 0 .. head' - 1
        PROVE  /\ blob[i].removed = {}
               /\ blob[i].added \cap PrevTree(i) = {}
               /\ blob[i].added # {}
               /\ entry[i] = PrevTree(i) \cup blob[i].added
    <3>1. CASE i = head
      BY <1>4, <2>1, <3>1
    <3>2. CASE i \in 0 .. head - 1
      BY <1>1, <3>2 DEF LogMatches, AuditReplay
    <3> QED
      BY <1>5, <3>1, <3>2
  <2> QED
    BY <1>2, <2>2, <2>3 DEF AuditReplay
<1> QED
  BY <1>6, <1>7, <1>8, <1>9 DEF LogMatches

\* Every step keeps the entries below the head consistent.
LEMMA LogStep == TreeInv /\ [Next]_vars => LogMatches'
<1> SUFFICES ASSUME TreeInv, [Next]_vars PROVE LogMatches'
  OBVIOUS
<1> USE DEF clientVars, workerVars, applyVars, treeVars, valueVars, storeVars, boundVars
<1>a. /\ TypeInv /\ TypeInv' /\ PtrsBelow
      /\ nextPrefix \in Nat /\ nextPrefix' \in Nat /\ head \in Nat
      /\ \A i \in 0 .. head - 1 : prefixPtr[i] \in Ptrs /\ prefixPtr[i] < nextPrefix
      /\ \A l \in Labels : /\ history[l] \in Seq(Records) /\ Len(history[l]) \in Nat
                           /\ history'[l] \in Seq(Records) /\ Len(history'[l]) \in Nat
  <2>1. TypeInv /\ TypeInv' /\ PtrsBelow
    BY TypeStep DEF TreeInv, Numbering, LogMatches
  <2>2. nextPrefix' \in Nat /\ \A l \in Labels : history'[l] \in Seq(Records)
    BY <2>1, BoundsAssumption DEF TypeInv, TypeOK
  <2> QED
    BY <2>1, <2>2, StoreTypes DEF PtrsBelow
<1>1. CASE UNCHANGED <<head, nextPrefix, prefix, history>>
  BY <1>a, <1>1, LogFrame
<1>2. CASE PutPrefixBatch
  <2>1. UNCHANGED <<head, nextPrefix, history>>
    BY <1>2 DEF PutPrefixBatch
  <2>2. \A i \in 0 .. head - 1 : prefix'[prefixPtr[i]] = prefix[prefixPtr[i]]
    BY <1>a, <1>2, PrefixBelow
  <2> QED
    BY <1>a, <2>1, <2>2, LogFrame
<1>3. CASE SetNextPrefixVersion
  <2>1. UNCHANGED <<head, prefix, history>> /\ nextPrefix' = final + 1
    BY <1>3 DEF SetNextPrefixVersion
  <2>2. final = nextPrefix + alloc - 1 /\ alloc > 0 /\ alloc \in Nat
    BY <1>a, <1>3, StoreTypes DEF SetNextPrefixVersion, Write, TypeInv, BatchShape
  <2>3. nextPrefix' >= nextPrefix
    BY <1>a, <2>1, <2>2
  <2> QED
    BY <1>a, <2>1, <2>3, LogFrame
<1>4. CASE PutHistoryBatch
  <2>1. UNCHANGED <<head, prefix, nextPrefix>>
    BY <1>4 DEF PutHistoryBatch
  <2>2. ASSUME NEW l \in Labels PROVE Len(history'[l]) >= Len(history[l])
    <3>1. history'[l] = history[l] \o NewRecords(l)
      BY <1>4 DEF PutHistoryBatch
    <3>2. NewRecords(l) \in Seq(Records)
      BY <1>a, NewRecordsType DEF TypeInv
    <3> QED
      BY <1>a, <3>1, <3>2
  <2> QED
    BY <1>a, <2>1, <2>2, LogFrame
<1>5. CASE SetHead
  BY <1>5, SetHeadLog
<1> QED
  BY <1>1, <1>2, <1>3, <1>4, <1>5
  DEF vars, Next, WorkerStep, ApplyStep, Submit, Receive, Timeout, Lock, AssignVersions,
      HistoryReadFails, CompareAndSwap, AnswerFails, Versioned, Crypto, CryptoFails,
      CheckVersion, Checked, PutPrefixPtr, BatchAppend, PutAuditBlob, PutValueBatch,
      PutOpeningBatch, WriteFails, CatchUp, CatchUpsDone, Answer, BatchDone, EraseValue,
      EraseOpening, Crash, Restart

-----------------------------------------------------------------------------
\* batch_insert leaves the whole batch in the tree of its final position.
LEMMA PutPrefixWrites ==
  ASSUME TreeInv, PutPrefixBatch
  PROVE  prefix'[final'] = BaseTree' \cup AddedLeaves'
<1>1. /\ TypeInv /\ PtrsBelow /\ SlotsContinueHistory /\ ProofsMatchLog
      /\ pc = "prefix" /\ alloc > 0
  BY DEF TreeInv, Numbering, LogMatches, BatchWritten, PutPrefixBatch, Write, WriteSteps
<1>2. /\ UNCHANGED <<valid, prefixPtr, latest>> /\ final' = nextPrefix + alloc - 1
      /\ pc \in WriteSteps /\ pc \in Uncounted
  BY <1>1 DEF PutPrefixBatch, Write, applyVars, WriteSteps, Uncounted
<1>3. /\ nextPrefix \in Nat /\ alloc \in Nat /\ latest = head /\ head \in Nat
      /\ nextPrefix + alloc <= MaxPtr
  <2>1. nextPrefix + alloc <= MaxPtr
    BY <1>1 DEF TypeInv, BatchShape
  <2> QED
    BY <1>1, <1>2, <2>1, StoreTypes
<1>4. final' \in nextPrefix .. (nextPrefix + alloc - 1) /\ final' \in Ptrs
  BY <1>1, <1>2, <1>3, BoundsAssumption DEF Ptrs
<1>5. prefix'[final'] = BaseTree \cup {Leaf(u) : u \in {w \in Updates : w.ptr <= final'}}
  BY <1>4 DEF PutPrefixBatch
<1>6. ASSUME NEW u \in Updates PROVE u.ptr <= final'
  <2>1. PICK l \in Labels : \E k \in DOMAIN valid[l] :
          u = [label |-> l, ver |-> valid[l][k].ver, ptr |-> valid[l][k].ptr,
               job |-> valid[l][k].job]
    BY DEF Updates
  <2>2. PICK k \in DOMAIN valid[l] : u.ptr = valid[l][k].ptr
    BY <2>1
  <2>3. valid[l][k].ptr < nextPrefix + alloc
    BY <1>1, <1>2, <2>2 DEF SlotsContinueHistory, SlotsReserved
  <2>4. u.ptr \in Nat
    BY <1>1, UpdatesType, BoundsAssumption DEF TypeInv, Ptrs
  <2> QED
    BY <1>2, <1>3, <2>2, <2>3, <2>4
<1>7. {w \in Updates : w.ptr <= final'} = Updates
  BY <1>6
<1>8. prefix'[final'] = BaseTree \cup AddedLeaves
  BY <1>5, <1>7 DEF AddedLeaves
<1>9. BaseTree' = BaseTree
  <2>1. CASE latest = 0
    BY <1>2, <2>1 DEF BaseTree
  <2>2. CASE latest # 0
    <3>1. latest - 1 \in 0 .. head - 1
      BY <1>3, <2>2
    <3>2. prefixPtr[latest - 1] \in Ptrs /\ prefixPtr[latest - 1] < nextPrefix
      BY <1>1, <3>1, StoreTypes DEF PtrsBelow
    <3>3. prefix'[prefixPtr[latest - 1]] = prefix[prefixPtr[latest - 1]]
      BY <1>1, <3>2, PrefixBelow
    <3> QED
      BY <1>2, <3>3 DEF BaseTree
  <2> QED
    BY <2>1, <2>2
<1> QED
  BY <1>2, <1>8, <1>9, UpdatesFrame

\* Each write of apply_batch finds what the earlier ones left.
LEMMA BatchStep == TreeInv /\ [Next]_vars => BatchWritten'
<1> SUFFICES ASSUME TreeInv, [Next]_vars PROVE BatchWritten'
  OBVIOUS
<1> USE DEF clientVars, workerVars, applyVars, treeVars, valueVars, storeVars, boundVars
<1>a. /\ TypeInv /\ BatchWritten /\ SlotsContinueHistory
      /\ (pc \in WriteSteps => latest = head /\ latest \in Indices /\ latest \in Nat)
      /\ final \in Nat /\ alloc \in Nat /\ nextPrefix \in Nat
      /\ prefixPtr \in [Indices -> Ptrs] /\ entry \in [Indices -> SUBSET Leaves]
      /\ blob \in [Indices -> [added : SUBSET Leaves, removed : SUBSET Leaves]]
  <2>1. TypeInv /\ BatchWritten /\ SlotsContinueHistory
    BY DEF TreeInv, Numbering
  <2> QED
    BY <2>1, StoreTypes
<1>b. ("prefix" \in WriteSteps /\ "prefix" \notin Grown)
      /\ ("ptr" \in Grown /\ "ptr" \notin Pointed)
      /\ ("next" \in Pointed /\ "next" \notin Moved)
      /\ ("append" \in Moved /\ "append" \notin Appended)
      /\ ("blob" \in Appended /\ "blob" \notin Audited)
      /\ Audited = {"value", "opening", "history", "head"}
      /\ Audited \subseteq Appended /\ Appended \subseteq Moved /\ Moved \subseteq Pointed
      /\ Pointed \subseteq Grown /\ Grown \subseteq WriteSteps
  BY DEF WriteSteps, Grown, Pointed, Moved, Appended, Audited
<1>1. CASE pc' \notin WriteSteps
  BY <1>1 DEF BatchWritten, WriteSteps, Grown, Pointed, Moved, Appended, Audited
<1>2. CASE UNCHANGED <<pc, alloc, final, valid, latest, prefix, prefixPtr, nextPrefix,
                       entry, blob, history>>
  BY <1>a, <1>2, UpdatesFrame, BaseFrame DEF BatchWritten
<1>3. CASE Checked /\ pc' = "prefix"
  <2>1. alloc # 0 /\ alloc' = alloc
    BY <1>3 DEF Checked
  <2>2. alloc' > 0
    BY <1>a, <2>1
  <2>3. pc' \notin Grown /\ pc' \notin Pointed /\ pc' \notin Moved /\ pc' \notin Appended
        /\ pc' \notin Audited /\ pc' # "head"
    BY <1>3 DEF WriteSteps, Grown, Pointed, Moved, Appended, Audited
  <2> QED
    BY <2>2, <2>3 DEF BatchWritten
<1>4. CASE PutPrefixBatch
  <2>1. pc = "prefix" /\ pc' = "ptr" /\ alloc' = alloc
    BY <1>4 DEF PutPrefixBatch, Write
  <2>2. pc' \notin Pointed /\ pc' \notin Moved /\ pc' \notin Appended /\ pc' \notin Audited
        /\ pc' # "head"
    BY <2>1 DEF WriteSteps, Grown, Pointed, Moved, Appended, Audited
  <2>3. alloc' > 0
    BY <1>a, <1>b, <2>1 DEF BatchWritten
  <2> QED
    BY <1>4, <2>2, <2>3, PutPrefixWrites DEF BatchWritten
<1>5. CASE PutPrefixPtr
  <2>1. /\ pc = "ptr" /\ pc' = "next" /\ prefixPtr' = [prefixPtr EXCEPT ![latest] = final]
        /\ UNCHANGED <<alloc, final, valid, latest, prefix, nextPrefix, entry, blob, history>>
    BY <1>5 DEF PutPrefixPtr, Write
  <2>2. pc' \notin Moved /\ pc' \notin Appended /\ pc' \notin Audited /\ pc' # "head"
        /\ pc \in Grown /\ pc \in WriteSteps
    BY <2>1 DEF WriteSteps, Grown, Pointed, Moved, Appended, Audited
  <2>3. prefixPtr'[latest'] = final'
    BY <1>a, <2>1, <2>2
  <2>4. BaseTree' = BaseTree
    <3>1. latest > 0 => prefixPtr'[latest - 1] = prefixPtr[latest - 1]
      <4>1. latest \in Indices /\ latest \in Nat
        BY <1>a, <2>2
      <4>2. latest > 0 => latest - 1 \in Indices /\ latest - 1 # latest
        BY <4>1, BoundsAssumption DEF Indices
      <4> QED
        BY <1>a, <2>1, <4>2
    <3> QED
      BY <2>1, <3>1 DEF BaseTree
  <2>5. prefix[final] = BaseTree \cup AddedLeaves /\ alloc > 0
    BY <1>a, <2>2 DEF BatchWritten
  <2> QED
    BY <2>1, <2>2, <2>3, <2>4, <2>5, UpdatesFrame DEF BatchWritten
<1>6. CASE SetNextPrefixVersion
  <2>1. /\ pc = "next" /\ pc' = "append" /\ nextPrefix' = final + 1
        /\ UNCHANGED <<alloc, final, valid, latest, prefix, prefixPtr, entry, blob, history>>
    BY <1>6 DEF SetNextPrefixVersion, Write
  <2>2. pc' \notin Appended /\ pc' \notin Audited /\ pc' # "head"
        /\ pc \in Grown /\ pc \in Pointed /\ pc \in WriteSteps
    BY <2>1 DEF WriteSteps, Grown, Pointed, Moved, Appended, Audited
  <2>3. final' < nextPrefix'
    BY <1>a, <2>1
  <2> QED
    BY <1>a, <2>1, <2>2, <2>3, UpdatesFrame, BaseFrame DEF BatchWritten
<1>7. CASE BatchAppend
  <2>1. /\ pc = "append" /\ pc' = "blob" /\ entry' = [entry EXCEPT ![latest] = prefix[final]]
        /\ UNCHANGED <<alloc, final, valid, latest, prefix, prefixPtr, nextPrefix, blob, history>>
    BY <1>7 DEF BatchAppend, Write
  <2>2. pc' \notin Audited /\ pc' # "head"
        /\ pc \in Grown /\ pc \in Pointed /\ pc \in Moved /\ pc \in WriteSteps
    BY <2>1 DEF WriteSteps, Grown, Pointed, Moved, Appended, Audited
  <2>3. entry'[latest'] = prefix'[final']
    BY <1>a, <2>1, <2>2
  <2> QED
    BY <1>a, <2>1, <2>2, <2>3, UpdatesFrame, BaseFrame DEF BatchWritten
<1>8. CASE PutAuditBlob
  <2>1. /\ pc = "blob" /\ pc' = "value"
        /\ blob' = [blob EXCEPT ![latest] = [added |-> AddedLeaves, removed |-> RemovedLeaves]]
        /\ UNCHANGED <<alloc, final, valid, latest, prefix, prefixPtr, nextPrefix, entry, history>>
    BY <1>8 DEF PutAuditBlob, Write
  <2>2. pc' # "head" /\ pc \in Unindexed
        /\ pc \in Grown /\ pc \in Pointed /\ pc \in Moved /\ pc \in Appended /\ pc \in WriteSteps
    BY <2>1 DEF WriteSteps, Grown, Pointed, Moved, Appended, Audited, Unindexed, Uncounted
  <2>3. AddedLeaves \cap BaseTree = {} /\ RemovedLeaves = {}
    BY <2>2, AddedIsNew
  <2>4. blob'[latest'] = [added |-> AddedLeaves, removed |-> {}]
    BY <1>a, <2>1, <2>2, <2>3
  <2> QED
    BY <1>a, <2>1, <2>2, <2>3, <2>4, UpdatesFrame, BaseFrame DEF BatchWritten
<1>9. CASE PutValueBatch \/ PutOpeningBatch
  <2>1. /\ pc \in Audited /\ pc' \in Audited /\ pc' # "head"
        /\ UNCHANGED <<alloc, final, valid, latest, prefix, prefixPtr, nextPrefix, entry, blob, history>>
    BY <1>9, <1>b DEF PutValueBatch, PutOpeningBatch, Write
  <2> QED
    BY <1>a, <1>b, <2>1, UpdatesFrame, BaseFrame DEF BatchWritten
<1>10. CASE PutHistoryBatch
  <2>1. /\ pc = "history" /\ pc' = "head" /\ pc \in Unindexed
        /\ UNCHANGED <<alloc, final, valid, latest, prefix, prefixPtr, nextPrefix, entry, blob>>
    BY <1>10 DEF PutHistoryBatch, Write, Unindexed
  <2>2. ASSUME NEW u \in Updates PROVE u.ver < Len(history'[u.label])
    <3>1. PICK l \in Labels : \E k \in DOMAIN valid[l] :
            u = [label |-> l, ver |-> valid[l][k].ver, ptr |-> valid[l][k].ptr,
                 job |-> valid[l][k].job]
      BY DEF Updates
    <3>2. PICK k \in DOMAIN valid[l] : u.label = l /\ u.ver = valid[l][k].ver
      BY <3>1
    <3>3. /\ history[l] \in Seq(Records) /\ valid[l] \in Seq(Slots)
          /\ NewRecords(l) \in Seq(Records) /\ Len(NewRecords(l)) = Len(valid[l])
          /\ history'[l] = history[l] \o NewRecords(l)
      <4>1. valid[l] \in Seq(Slots) /\ history[l] \in Seq(Records)
        BY <1>a, StoreTypes
      <4>2. NewRecords(l) \in Seq(Records)
        BY <1>a, NewRecordsType DEF TypeInv
      <4>3. Len(NewRecords(l)) = Len(valid[l])
        BY <4>1 DEF NewRecords
      <4> QED
        BY <1>10, <4>1, <4>2, <4>3 DEF PutHistoryBatch
    <3>4. k \in 1 .. Len(valid[l]) /\ Len(valid[l]) \in Nat /\ Len(history[l]) \in Nat
          /\ Len(history'[l]) = Len(history[l]) + Len(valid[l])
      <4>1. \A s \in Seq(Slots) : k \in DOMAIN s => k \in 1 .. Len(s) /\ Len(s) \in Nat
        OBVIOUS
      <4>2. \A s, t \in Seq(Records) :
              Len(s) \in Nat /\ Len(s \o t) = Len(s) + Len(t)
        OBVIOUS
      <4> QED
        BY <3>2, <3>3, <4>1, <4>2
    <3>5. valid[l][k].ver = Len(history[l]) + k - 1
      BY <1>a, <2>1, <3>2 DEF SlotsContinueHistory, SlotsNumbered
    <3>6. u.ver = Len(history[l]) + k - 1 /\ u.label = l
      BY <3>2, <3>5
    <3>7. Len(history[l]) + k - 1 < Len(history[l]) + Len(valid[l])
      <4>1. \A a, b \in Nat : \A c \in 1 .. b : a + c - 1 < a + b
        OBVIOUS
      <4> QED
        BY <3>4, <4>1
    <3> QED
      BY <3>4, <3>6, <3>7
  <2>3. \A u \in Updates' : u.ver < Len(history'[u.label])
    BY <2>1, <2>2, UpdatesFrame
  <2>4. pc \in Audited /\ pc' \in Audited
    BY <1>b, <2>1
  <2> QED
    BY <1>a, <1>b, <2>1, <2>3, <2>4, UpdatesFrame, BaseFrame DEF BatchWritten
<1>11. CASE Restart
  <2>1. pc = "idle" /\ pc' = pc
    BY <1>a, <1>11 DEF Restart, TypeInv, HeadLoaded
  <2> QED
    BY <1>1, <2>1 DEF WriteSteps
<1>12. CASE CheckVersion
  BY <1>1, <1>12 DEF CheckVersion, WriteSteps
<1>13. CASE Checked
  BY <1>1, <1>3, <1>13 DEF Checked, WriteSteps
<1>14. CASE Receive \/ Timeout \/ Lock \/ AssignVersions \/ HistoryReadFails \/ Versioned
  BY <1>1, <1>14
  DEF Receive, Timeout, Lock, AssignVersions, HistoryReadFails, CompareAndSwap, Versioned, WriteSteps
<1>15. CASE Crypto \/ CryptoFails \/ SetHead \/ WriteFails \/ CatchUpsDone \/ BatchDone \/ Crash
  BY <1>1, <1>15
  DEF Crypto, CryptoFails, SetHead, Write, WriteFails, CatchUpsDone, BatchDone, Crash, WriteSteps
<1>16. ASSUME NEW j \in Jobs, CatchUp(j) \/ Answer(j) \/ AnswerFails(j) \/ \E r \in Requests : Submit(j, r)
       PROVE  BatchWritten'
  BY <1>2, <1>16 DEF CatchUp, Answer, AnswerFails, Submit
<1>17. CASE EraseOpening \/ UNCHANGED vars
  BY <1>2, <1>17 DEF EraseOpening, vars
<1>18. ASSUME NEW l \in Labels, NEW k \in 1 .. MaxPtr, EraseValue(l, k) PROVE BatchWritten'
  BY <1>2, <1>18 DEF EraseValue
<1> QED
  BY <1>4, <1>5, <1>6, <1>7, <1>8, <1>9, <1>10, <1>11, <1>12, <1>13, <1>14, <1>15, <1>16, <1>17,
     <1>18 DEF Next, WorkerStep, ApplyStep

\* A position is allocated together with its update, and both are forgotten together.
LEMMA AllocatedStep == TreeInv /\ [Next]_vars => Allocated'
<1> SUFFICES ASSUME TreeInv, [Next]_vars PROVE Allocated'
  OBVIOUS
<1> USE DEF clientVars, workerVars, applyVars, treeVars, valueVars, storeVars, boundVars
<1>a. TypeInv /\ Allocated
  BY DEF TreeInv, Numbering
<1>1. CASE UNCHANGED <<alloc, valid>>
  BY <1>a, <1>1 DEF Allocated
<1>2. CASE BatchDone \/ Crash
  BY <1>2 DEF BatchDone, Crash, ForgetBatch, Allocated
<1>3. CASE CheckVersion
  <2>1. CASE Head(pre).ver = CurrentGreatest(Head(pre).label) + 1
    <3>1. Head(pre).label \in Labels
      <4>1. pre \in Seq(Leaves) /\ pre # <<>>
        BY <1>3, <1>a DEF CheckVersion, TypeInv, TypeOK
      <4>2. Head(pre) \in Leaves
        BY <4>1, TailSeq
      <4> QED
        BY <4>2 DEF Leaves
    <3>2. PICK slot : valid' = [valid EXCEPT ![Head(pre).label] = Append(@, slot)]
      BY <1>3, <2>1 DEF CheckVersion
    <3>3. valid \in [Labels -> Seq(Slots)] /\ valid' \in [Labels -> Seq(Slots)]
      BY <1>a, TypeStep DEF TypeInv, TypeOK
    <3>4. valid'[Head(pre).label] = Append(valid[Head(pre).label], slot)
      BY <3>1, <3>2, <3>3
    <3>5. Append(valid[Head(pre).label], slot) # <<>>
      <4>1. valid[Head(pre).label] \in Seq(Slots)
        BY <3>1, <3>3
      <4>2. valid[Head(pre).label] \in Seq(Slots \cup {slot})
        BY <4>1
      <4>3. 1 \in DOMAIN Append(valid[Head(pre).label], slot)
        BY <4>2, AppendSeq
      <4> QED
        BY <4>3
    <3> QED
      BY <3>1, <3>4, <3>5 DEF Allocated
  <2>2. CASE Head(pre).ver # CurrentGreatest(Head(pre).label) + 1
    BY <1>1, <1>3, <2>2 DEF CheckVersion
  <2> QED
    BY <2>1, <2>2
<1> QED
  BY <1>1, <1>2, <1>3
  DEF vars, Next, WorkerStep, ApplyStep, Submit, Receive, Timeout, Lock, AssignVersions,
      HistoryReadFails, CompareAndSwap, AnswerFails, Versioned, Crypto, CryptoFails,
      Checked, PutPrefixBatch, PutPrefixPtr, SetNextPrefixVersion, BatchAppend, PutAuditBlob,
      PutValueBatch, PutOpeningBatch, PutHistoryBatch, SetHead, Write, WriteFails, CatchUp,
      CatchUpsDone, Answer, EraseValue, EraseOpening, Restart

LEMMA InitTree == Init => TreeInv
<1> SUFFICES ASSUME Init PROVE TreeInv
  OBVIOUS
<1>1. Numbering
  BY InitNumbering
<1>2. pc \notin WriteSteps /\ alloc = 0 /\ head = 0
  BY DEF Init, WriteSteps
<1>3. BatchWritten
  BY <1>2 DEF BatchWritten, WriteSteps, Grown, Pointed, Moved, Appended, Audited
<1>4. 0 .. head - 1 = {}
  BY <1>2
<1> QED
  BY <1>1, <1>2, <1>3, <1>4
  DEF TreeInv, Allocated, LogMatches, PtrsBelow, ProofsMatchLog, Known, AuditReplay

LEMMA TreeStep == TreeInv /\ [Next]_vars => TreeInv'
  BY NumberingStep, LogStep, BatchStep, AllocatedStep DEF TreeInv

LEMMA TreeInvariant == Spec => []TreeInv
  BY InitTree, TreeStep, PTL DEF Spec

\* The tree a search walks is the one the log leaf commits to, whichever writes of
\* apply_batch failed before and wherever the process died.
THEOREM TreesMatchLog == Spec => []ProofsMatchLog
<1>1. TreeInv => ProofsMatchLog
  BY DEF TreeInv, LogMatches
<1> QED
  BY <1>1, TreeInvariant, PTL

\* The stored audit records replay to the tree of every entry, adding keys only.
THEOREM AuditsReplay == Spec => []AuditReplay
<1>1. TreeInv => AuditReplay
  BY DEF TreeInv, LogMatches
<1> QED
  BY <1>1, TreeInvariant, PTL

-----------------------------------------------------------------------------
\* The leaves a request asks for, and those phase 1 has prepared.
Own(j) == {[label |-> req[j].label, ver |-> req[j].greatest + 1 + k, job |-> j] :
             k \in 0 .. req[j].n - 1}

Prepared == {pre[i] : i \in DOMAIN pre}

\* Where the leaves of a job that waits for its answer are.
Follows(j) ==
  /\ req[j] \in Requests /\ req[j].n > 0
  /\ pc \in {"version", "crypto"} => Own(j) \subseteq Prepared
  /\ pc = "check" /\ j \notin raced => Own(j) \subseteq Prepared \cup AddedLeaves
  /\ pc \in WriteSteps /\ j \notin raced => Own(j) \subseteq AddedLeaves
  /\ pc \in {"catchup", "answer"} /\ outcome = "ok" /\ j \notin raced =>
       latest > 0 /\ Own(j) \subseteq entry[latest - 1] \ PrevTree(latest - 1)

\* The jobs that wait, and those that were answered with success.
Waiting == \A j \in work : Follows(j)
NoneWait == pc \in {"idle", "lock"} => work = {}
AckedAsked == \A j \in Jobs : reply[j].kind = "ok" => req[j] \in Requests

AnswerInv == TreeInv /\ Waiting /\ NoneWait /\ AckedAsked /\ AckedIsCommitted

-----------------------------------------------------------------------------
\* A request is submitted once and never changed.
LEMMA NoRequestIsNone == NoRequest \notin Requests
<1> SUFFICES ASSUME NEW r \in Requests PROVE r # NoRequest
  OBVIOUS
<1>1. "n" \in DOMAIN r
  BY DEF Requests
<1>2. "n" \notin DOMAIN NoRequest
  BY DEF NoRequest
<1> QED
  BY <1>1, <1>2

LEMMA RequestStays ==
  ASSUME TypeInv, [Next]_vars, NEW j \in Jobs, req[j] \in Requests
  PROVE  req'[j] = req[j] /\ Own(j)' = Own(j)
<1> USE DEF clientVars, workerVars, applyVars, treeVars, valueVars, storeVars, boundVars
<1>1. CASE req' = req
  BY <1>1 DEF Own
<1>2. ASSUME NEW i \in Jobs, NEW r \in Requests, Submit(i, r)
      PROVE  req'[j] = req[j]
  <2>1. req' = [req EXCEPT ![i] = r] /\ req[i] = NoRequest
    BY <1>2 DEF Submit
  <2>2. i # j
    BY <2>1, NoRequestIsNone
  <2>3. req \in [Jobs -> Requests \cup {NoRequest}]
    BY DEF TypeInv, TypeOK
  <2> QED
    BY <2>1, <2>2, <2>3
<1>3. (\E i \in Jobs, r \in Requests : Submit(i, r)) \/ req' = req
  BY DEF vars, Next, WorkerStep, ApplyStep, Receive, Timeout, Lock, AssignVersions,
      HistoryReadFails, CompareAndSwap, AnswerFails, Versioned, Crypto, CryptoFails,
      CheckVersion, Checked, PutPrefixBatch, PutPrefixPtr, SetNextPrefixVersion, BatchAppend,
      PutAuditBlob, PutValueBatch, PutOpeningBatch, PutHistoryBatch, SetHead, Write,
      WriteFails, CatchUp, CatchUpsDone, Answer, BatchDone, EraseValue, EraseOpening, Crash,
      Restart
<1>4. req'[j] = req[j]
  BY <1>1, <1>2, <1>3
<1> QED
  BY <1>4 DEF Own

\* The last entry readers are shown stays while latest does.
LEMMA TipStays ==
  ASSUME TypeInv, [Next]_vars, pc # "idle", latest' = latest, latest > 0
  PROVE  /\ entry'[latest - 1] = entry[latest - 1]
         /\ PrevTree(latest - 1)' = PrevTree(latest - 1)
         /\ latest' - 1 = latest - 1
<1>1. latest = head /\ head \in Nat
  BY StoreTypes DEF TypeInv, HeadLoaded
<1>2. \A i \in 0 .. head - 1 : entry'[i] = entry[i]
  BY AppendStep DEF KeepsLog, vars, storeVars, treeVars
<1>3. /\ latest - 1 \in 0 .. head - 1
      /\ latest - 1 # 0 => (latest - 1) - 1 \in 0 .. head - 1
  BY <1>1
<1>4. PrevTree(latest - 1)' = IF latest - 1 = 0 THEN {} ELSE entry'[(latest - 1) - 1]
  BY DEF PrevTree
<1> QED
  BY <1>2, <1>3, <1>4 DEF PrevTree

\* A step of somebody else leaves a waiting job where it is.
LEMMA FollowsFrame ==
  ASSUME TypeInv, [Next]_vars, NEW j \in Jobs, Follows(j),
         UNCHANGED <<pc, outcome, raced, pre, valid, latest>>
  PROVE  Follows(j)'
<1>1. /\ req'[j] = req[j] /\ Own(j)' = Own(j) /\ AddedLeaves' = AddedLeaves
      /\ Prepared' = Prepared
  BY RequestStays, UpdatesFrame DEF Follows, Prepared
<1>2. ASSUME pc \in {"catchup", "answer"}, latest > 0
      PROVE  (entry[latest - 1] \ PrevTree(latest - 1))' = entry[latest - 1] \ PrevTree(latest - 1)
  <2>1. pc # "idle" /\ latest' = latest
    BY <1>2
  <2>2. /\ entry'[latest - 1] = entry[latest - 1]
        /\ PrevTree(latest - 1)' = PrevTree(latest - 1)
    BY <1>2, <2>1, TipStays
  <2>3. (entry[latest - 1] \ PrevTree(latest - 1))' = entry'[latest' - 1] \ PrevTree(latest - 1)'
    BY <2>1 DEF PrevTree
  <2> QED
    BY <2>1, <2>2, <2>3
<1> QED
  BY <1>1, <1>2 DEF Follows

\* Between two writes of apply_batch a waiting job stays in the batch.
LEMMA FollowsWrite ==
  ASSUME TypeInv, [Next]_vars, NEW j \in Jobs, Follows(j), pc \in WriteSteps, pc' \in WriteSteps,
         UNCHANGED <<raced, valid>>
  PROVE  Follows(j)'
<1>1. /\ req'[j] = req[j] /\ Own(j)' = Own(j) /\ AddedLeaves' = AddedLeaves
  BY RequestStays, UpdatesFrame DEF Follows
<1>2. pc' \notin {"version", "crypto", "check", "catchup", "answer"}
  BY DEF WriteSteps
<1> QED
  BY <1>1, <1>2 DEF Follows

-----------------------------------------------------------------------------
\* What concatenation and Tail do to the prepared leaves.
LEMMA PreparedLeft ==
  ASSUME NEW S, NEW s \in Seq(S), NEW t \in Seq(S), NEW i \in DOMAIN s
  PROVE  \E k \in DOMAIN (s \o t) : (s \o t)[k] = s[i]
<1>1. /\ DOMAIN s = 1 .. Len(s) /\ Len(s) \in Nat /\ Len(t) \in Nat
      /\ DOMAIN (s \o t) = 1 .. Len(s) + Len(t)
  BY ConcatSeq
<1>2. i \in DOMAIN (s \o t) /\ i <= Len(s)
  BY <1>1
<1>3. (s \o t)[i] = s[i]
  BY <1>2, ConcatSeq
<1> QED
  BY <1>2, <1>3

LEMMA PreparedHead ==
  ASSUME NEW S, NEW s \in Seq(S), s # <<>>, NEW i \in DOMAIN s
  PROVE  s[i] = Head(s) \/ \E k \in DOMAIN Tail(s) : Tail(s)[k] = s[i]
<1>1. CASE i = 1
  BY <1>1
<1>2. CASE i # 1
  <2>1. i \in 1 .. Len(s) /\ Len(s) \in Nat /\ i - 1 \in 1 .. Len(s) - 1
    BY <1>2
  <2>2. DOMAIN Tail(s) = 1 .. Len(s) - 1 /\ Tail(s)[i - 1] = s[(i - 1) + 1]
    BY <2>1
  <2> QED
    BY <2>1, <2>2
<1> QED
  BY <1>1, <1>2

\* Phase 1 prepares exactly the leaves of the job it admits.
LEMMA AssignedAreOwn ==
  ASSUME NEW j \in Jobs, req[j] \in Requests, NEW x \in Own(j)
  PROVE  \E k \in DOMAIN Assigned(j, req[j].greatest + 1, req[j].n) :
           Assigned(j, req[j].greatest + 1, req[j].n)[k] = x
<1>1. req[j].n \in Nat /\ req[j].greatest \in Int
  BY BoundsAssumption DEF Requests, NoVersion
<1>2. PICK k \in 0 .. req[j].n - 1 :
        x = [label |-> req[j].label, ver |-> req[j].greatest + 1 + k, job |-> j]
  BY DEF Own
<1>3. k + 1 \in 1 .. req[j].n /\ req[j].greatest + 1 + (k + 1) - 1 = req[j].greatest + 1 + k
  BY <1>1
<1>4. Assigned(j, req[j].greatest + 1, req[j].n)[k + 1] =
        [job |-> j, label |-> req[j].label, ver |-> req[j].greatest + 1 + k]
  BY <1>3 DEF Assigned
<1>5. DOMAIN Assigned(j, req[j].greatest + 1, req[j].n) = 1 .. req[j].n
  BY DEF Assigned
<1> QED
  BY <1>2, <1>3, <1>4, <1>5

\* Phase 1 for one job.
LEMMA AssignStep ==
  ASSUME AnswerInv, [Next]_vars, NEW g \in Versions \cup {NoVersion}, CompareAndSwap(g),
         pc = "version", batch # <<>>
  PROVE  Waiting'
<1> USE DEF clientVars, workerVars, applyVars, treeVars, valueVars, storeVars, boundVars
<1>1. TypeInv /\ TypeInv' /\ Waiting
  BY TypeStep DEF AnswerInv, TreeInv, Numbering
<1>2. /\ UNCHANGED <<req, pc, outcome, raced, valid, latest>>
  BY DEF CompareAndSwap
<1>3. Head(batch) \in Jobs /\ req[Head(batch)] \in Requests
  BY <1>1, TailSeq DEF TypeInv, TypeOK, QueuedAreSubmitted
<1>4. CASE UNCHANGED <<work, pre>>
  <2> SUFFICES ASSUME NEW j \in work PROVE Follows(j)'
    BY <1>4 DEF Waiting
  <2>1. j \in Jobs /\ Follows(j)
    BY <1>1 DEF Waiting, TypeInv, TypeOK
  <2> QED
    BY <1>1, <1>2, <1>4, <2>1, FollowsFrame
<1>5. ASSUME NEW j, j = Head(batch), req[j].greatest = g, req[j].n > 0,
             pre' = pre \o Assigned(j, g + 1, req[j].n), work' = work \cup {j}
      PROVE  Waiting'
  <2>1. /\ pre \in Seq(Leaves) /\ Assigned(j, g + 1, req[j].n) \in Seq(Leaves)
    <3>1. /\ req[j].label \in Labels /\ req[j].n \in Nat /\ g + 1 \in Nat
      <4>1. \A r \in Requests : r.label \in Labels /\ r.n \in Nat
        BY BoundsAssumption DEF Requests
      <4>2. g + 1 \in Nat
        BY DEF Versions, NoVersion
      <4> QED
        BY <1>3, <1>5, <4>1, <4>2
    <3> QED
      BY <1>1, <1>3, <1>5, <3>1, AssignedType DEF TypeInv, TypeOK
  <2>2. Prepared \subseteq Prepared'
    <3> SUFFICES ASSUME NEW i \in DOMAIN pre PROVE pre[i] \in Prepared'
      BY DEF Prepared
    <3>1. \E k \in DOMAIN pre' : pre'[k] = pre[i]
      BY <1>5, <2>1, PreparedLeft
    <3> QED
      BY <3>1 DEF Prepared
  <2>3. Own(j) \subseteq Prepared'
    <3> SUFFICES ASSUME NEW x \in Own(j) PROVE x \in Prepared'
      OBVIOUS
    <3>1. PICK i \in DOMAIN Assigned(j, g + 1, req[j].n) : Assigned(j, g + 1, req[j].n)[i] = x
      BY <1>3, <1>5, AssignedAreOwn
    <3>2. \E k \in DOMAIN pre' : pre'[k] = x
      <4>1. PICK t \in Seq(Leaves) : t = Assigned(j, g + 1, req[j].n)
        BY <2>1
      <4>2. pre \in Seq(Leaves) /\ i \in DOMAIN t /\ t[i] = x /\ pre' = pre \o t
        BY <1>5, <2>1, <3>1, <4>1
      <4>3. \E k \in DOMAIN pre' : pre'[k] = t[i]
        <5>1. /\ i \in 1 .. Len(t) /\ Len(t) \in Nat /\ Len(pre) \in Nat
              /\ DOMAIN (pre \o t) = 1 .. Len(pre) + Len(t)
          BY <4>1, <4>2, ConcatSeq
        <5>2. /\ Len(pre) + i \in DOMAIN (pre \o t) /\ ~(Len(pre) + i <= Len(pre))
              /\ (Len(pre) + i) - Len(pre) = i
          BY <5>1
        <5>3. (pre \o t)[Len(pre) + i] = t[i]
          BY <4>1, <4>2, <5>2, ConcatSeq
        <5> QED
          BY <4>2, <5>2, <5>3
      <4> QED
        BY <4>2, <4>3
    <3> QED
      BY <3>2 DEF Prepared
  <2> SUFFICES ASSUME NEW i \in work' PROVE Follows(i)'
    BY DEF Waiting
  <2>4. i \in Jobs /\ req[i] \in Requests /\ req[i].n > 0 /\ Own(i) \subseteq Prepared'
    <3>1. CASE i = j
      BY <1>3, <1>5, <2>3, <3>1
    <3>2. CASE i \in work
      <4>1. i \in Jobs /\ Follows(i)
        BY <1>1, <3>2 DEF Waiting, TypeInv, TypeOK
      <4> QED
        BY <2>2, <4>1 DEF Follows
    <3> QED
      BY <1>5, <3>1, <3>2
  <2>5. Own(i)' = Own(i)
    BY <1>1, <2>4, RequestStays
  <2>6. pc' = "version" /\ pc' \notin WriteSteps
    BY <1>2 DEF WriteSteps
  <2> QED
    BY <1>2, <2>4, <2>5, <2>6 DEF Follows
<1> QED
  BY <1>4, <1>5 DEF CompareAndSwap, Reject

\* The check moves an accepted leaf from the prepared ones to the batch; a rejected
\* one marks its job.
LEMMA CheckStep ==
  ASSUME AnswerInv, [Next]_vars, CheckVersion
  PROVE  Waiting'
<1> USE DEF clientVars, workerVars, applyVars, treeVars, valueVars, storeVars, boundVars
<1>1. TypeInv /\ TypeInv' /\ Waiting
  BY TypeStep DEF AnswerInv, TreeInv, Numbering
<1>2. PICK u : u = Head(pre)
  OBVIOUS
<1>3. /\ pre \in Seq(Leaves) /\ pre # <<>> /\ u \in Leaves /\ pre' = Tail(pre)
      /\ pc = "check" /\ pc' = "check" /\ UNCHANGED work
  BY <1>1, <1>2, TailSeq DEF CheckVersion, TypeInv, TypeOK
<1>4. \A x \in Prepared : x = u \/ x \in Prepared'
  <2> SUFFICES ASSUME NEW i \in DOMAIN pre PROVE pre[i] = u \/ pre[i] \in Prepared'
    BY DEF Prepared
  <2>1. pre[i] = u \/ \E k \in DOMAIN Tail(pre) : Tail(pre)[k] = pre[i]
    BY <1>2, <1>3, PreparedHead
  <2> QED
    BY <1>3, <2>1 DEF Prepared
<1>5. CASE u.ver = CurrentGreatest(u.label) + 1
  <2>1. PICK slot : /\ slot = [ver |-> u.ver, ptr |-> nextPrefix + alloc, job |-> u.job]
                    /\ valid' = [valid EXCEPT ![u.label] = Append(valid[u.label], slot)]
    BY <1>2, <1>5 DEF CheckVersion
  <2>2. raced' = raced
    BY <1>2, <1>5 DEF CheckVersion
  <2>3. u.label \in Labels /\ valid \in [Labels -> Seq(Slots)]
    BY <1>1, <1>3 DEF Leaves, TypeInv, TypeOK
  <2>4. PICK old : old = valid[u.label]
    OBVIOUS
  <2>5. old \in Seq(Slots) /\ old \in Seq(Slots \cup {slot}) /\ slot \in Slots \cup {slot}
        /\ DOMAIN old = 1 .. Len(old) /\ Len(old) \in Nat
    BY <2>3, <2>4
  <2>6. /\ DOMAIN Append(old, slot) = 1 .. Len(old) + 1
        /\ \A i \in 1 .. Len(old) + 1 :
             Append(old, slot)[i] = IF i = Len(old) + 1 THEN slot ELSE old[i]
    BY <2>5, AppendSeq
  <2>7. valid'[u.label] = Append(old, slot)
        /\ \A l \in Labels : l # u.label => valid'[l] = valid[l]
    BY <2>1, <2>3, <2>4
  <2>8. AddedLeaves \subseteq AddedLeaves'
    <3> SUFFICES ASSUME NEW w \in Updates PROVE w \in Updates'
      BY DEF AddedLeaves
    <3>1. PICK l \in Labels : \E i \in DOMAIN valid[l] :
            w = [label |-> l, ver |-> valid[l][i].ver, ptr |-> valid[l][i].ptr,
                 job |-> valid[l][i].job]
      BY DEF Updates
    <3>2. PICK i \in DOMAIN valid[l] :
            w = [label |-> l, ver |-> valid[l][i].ver, ptr |-> valid[l][i].ptr,
                 job |-> valid[l][i].job]
      BY <3>1
    <3>3. i \in DOMAIN valid'[l] /\ valid'[l][i] = valid[l][i]
      <4>1. CASE l # u.label
        BY <2>7, <3>2, <4>1
      <4>2. CASE l = u.label
        <5>1. i \in 1 .. Len(old) /\ i \in 1 .. Len(old) + 1 /\ i # Len(old) + 1
          BY <2>4, <2>5, <3>2, <4>2
        <5> QED
          BY <2>4, <2>6, <2>7, <4>2, <5>1
      <4> QED
        BY <4>1, <4>2
    <3> QED
      BY <3>2, <3>3 DEF Updates
  <2>9. u \in AddedLeaves'
    <3> DEFINE w == [label |-> u.label, ver |-> slot.ver, ptr |-> slot.ptr, job |-> slot.job]
    <3>1. Len(old) + 1 \in DOMAIN valid'[u.label] /\ valid'[u.label][Len(old) + 1] = slot
      BY <2>5, <2>6, <2>7
    <3>2. w \in Updates'
      BY <2>3, <3>1 DEF Updates
    <3>3. Leaf(w) = [label |-> u.label, ver |-> u.ver, job |-> u.job]
      BY <2>1 DEF Leaf
    <3>4. u = [label |-> u.label, ver |-> u.ver, job |-> u.job]
      BY <1>3 DEF Leaves
    <3>5. Leaf(w) = u
      BY <3>3, <3>4
    <3>6. Leaf(w) \in AddedLeaves'
      <4> HIDE DEF w
      <4> QED
        BY <3>2 DEF AddedLeaves
    <3> QED
      BY <3>5, <3>6
  <2>10. Prepared \cup AddedLeaves \subseteq Prepared' \cup AddedLeaves'
    BY <1>4, <2>8, <2>9
  <2> SUFFICES ASSUME NEW j \in work PROVE Follows(j)'
    BY <1>3 DEF Waiting
  <2>11. j \in Jobs /\ Follows(j)
    BY <1>1 DEF Waiting, TypeInv, TypeOK
  <2>12. req'[j] = req[j] /\ Own(j)' = Own(j)
    BY <1>1, <2>11, RequestStays DEF Follows
  <2> QED
    BY <1>3, <2>2, <2>10, <2>11, <2>12 DEF Follows, WriteSteps
<1>6. CASE u.ver # CurrentGreatest(u.label) + 1
  <2>1. raced' = raced \cup {u.job} /\ valid' = valid
    BY <1>2, <1>6 DEF CheckVersion
  <2>2. AddedLeaves' = AddedLeaves
    BY <2>1, UpdatesFrame
  <2> SUFFICES ASSUME NEW j \in work PROVE Follows(j)'
    BY <1>3 DEF Waiting
  <2>3. j \in Jobs /\ Follows(j)
    BY <1>1 DEF Waiting, TypeInv, TypeOK
  <2>4. req'[j] = req[j] /\ Own(j)' = Own(j)
    BY <1>1, <2>3, RequestStays DEF Follows
  <2>5. j \notin raced' => u \notin Own(j)
    BY <2>1 DEF Own
  <2>6. j \notin raced' => Own(j) \subseteq Prepared' \cup AddedLeaves'
    BY <1>3, <1>4, <2>1, <2>2, <2>3, <2>5 DEF Follows
  <2> QED
    BY <1>3, <2>3, <2>4, <2>6 DEF Follows, WriteSteps
<1> QED
  BY <1>5, <1>6

\* A batch to which the check gave no position has no update.
LEMMA UnallocatedIsEmpty ==
  ASSUME TypeInv, SlotsContinueHistory, pc = "check", alloc = 0
  PROVE  AddedLeaves = {}
<1> SUFFICES ASSUME NEW u \in Updates PROVE FALSE
  BY DEF AddedLeaves
<1>1. PICK l \in Labels : \E k \in DOMAIN valid[l] :
        u = [label |-> l, ver |-> valid[l][k].ver, ptr |-> valid[l][k].ptr,
             job |-> valid[l][k].job]
  BY DEF Updates
<1>2. PICK k \in DOMAIN valid[l] : u.ptr = valid[l][k].ptr
  BY <1>1
<1>3. nextPrefix <= u.ptr /\ u.ptr < nextPrefix + alloc
  BY <1>2 DEF SlotsContinueHistory, SlotsReserved, Uncounted
<1>4. nextPrefix \in Nat /\ u.ptr \in Nat
  BY StoreTypes, UpdatesType, BoundsAssumption DEF TypeInv, Ptrs
<1> QED
  BY <1>3, <1>4

\* A request with values asks for a version.
LEMMA OwnIsNotEmpty ==
  ASSUME NEW j \in Jobs, req[j] \in Requests, req[j].n > 0
  PROVE  Own(j) # {}
<1>1. req[j].n \in Nat
  BY BoundsAssumption DEF Requests
<1>2. 0 \in 0 .. req[j].n - 1
  BY <1>1
<1> QED
  BY <1>2 DEF Own

\* A job of a batch that allocated nothing was raced out of it.
LEMMA CheckedStep ==
  ASSUME AnswerInv, [Next]_vars, Checked
  PROVE  Waiting'
<1> USE DEF clientVars, workerVars, applyVars, treeVars, valueVars, storeVars, boundVars
<1>1. /\ TypeInv /\ SlotsContinueHistory /\ Waiting /\ pc = "check"
      /\ UNCHANGED <<work, raced, valid>>
  BY DEF AnswerInv, TreeInv, Numbering, Checked
<1> SUFFICES ASSUME NEW j \in work PROVE Follows(j)'
  BY <1>1 DEF Waiting
<1>2. j \in Jobs /\ Follows(j)
  BY <1>1 DEF Waiting, TypeInv, TypeOK
<1>3. req'[j] = req[j] /\ Own(j)' = Own(j) /\ AddedLeaves' = AddedLeaves
  BY <1>1, <1>2, RequestStays, UpdatesFrame DEF Follows
<1>4. j \notin raced => Own(j) \subseteq AddedLeaves
  <2>1. pre = <<>>
    BY DEF Checked
  <2>2. Prepared = {}
    BY <2>1 DEF Prepared
  <2> QED
    BY <1>1, <1>2, <2>2 DEF Follows
<1>5. CASE alloc = 0
  <2>1. AddedLeaves = {}
    BY <1>1, <1>5, UnallocatedIsEmpty
  <2>2. Own(j) # {}
    BY <1>2, OwnIsNotEmpty DEF Follows
  <2>3. j \in raced
    BY <1>4, <2>1, <2>2
  <2>4. pc' = "catchup"
    BY <1>5 DEF Checked
  <2> QED
    BY <1>1, <1>2, <1>3, <2>3, <2>4 DEF Follows, WriteSteps
<1>6. CASE alloc # 0
  <2>1. pc' = "prefix"
    BY <1>6 DEF Checked
  <2> QED
    BY <1>1, <1>2, <1>3, <1>4, <2>1 DEF Follows
<1> QED
  BY <1>5, <1>6

\* set_head makes the leaves of the batch those of the last entry.
LEMMA SetHeadStep ==
  ASSUME AnswerInv, [Next]_vars, SetHead
  PROVE  Waiting'
<1> USE DEF clientVars, workerVars, applyVars, treeVars, valueVars, storeVars, boundVars
<1>1. /\ TypeInv /\ ProofsMatchLog /\ BatchWritten /\ Waiting
      /\ pc = "head" /\ pc' = "catchup" /\ latest' = latest + 1
      /\ UNCHANGED <<work, raced, valid, entry>>
  BY DEF AnswerInv, TreeInv, LogMatches, Numbering, SetHead, Write
<1>2. /\ pc \in WriteSteps /\ pc \in Grown /\ pc \in Appended /\ pc \in Audited
  BY <1>1 DEF WriteSteps, Grown, Pointed, Moved, Appended, Audited
<1>3. latest \in Nat /\ latest' - 1 = latest /\ latest' > 0
  BY <1>1, <1>2, StoreTypes
<1>4. /\ entry[latest] = PrevTree(latest) \cup AddedLeaves
      /\ AddedLeaves \cap PrevTree(latest) = {}
  <2>1. BaseTree = PrevTree(latest)
    BY <1>1, <1>2, BaseIsPrev
  <2> QED
    BY <1>1, <1>2, <2>1 DEF BatchWritten
<1>5. (entry[latest - 1] \ PrevTree(latest - 1))' = entry[latest] \ PrevTree(latest)
  BY <1>1, <1>3 DEF PrevTree
<1> SUFFICES ASSUME NEW j \in work PROVE Follows(j)'
  BY <1>1 DEF Waiting
<1>6. j \in Jobs /\ Follows(j)
  BY <1>1 DEF Waiting, TypeInv, TypeOK
<1>7. req'[j] = req[j] /\ Own(j)' = Own(j)
  BY <1>1, <1>6, RequestStays DEF Follows
<1>8. j \notin raced' => Own(j)' \subseteq (entry[latest - 1] \ PrevTree(latest - 1))'
  BY <1>1, <1>2, <1>4, <1>5, <1>6, <1>7 DEF Follows
<1> QED
  BY <1>1, <1>3, <1>6, <1>7, <1>8 DEF Follows, WriteSteps

\* A failed phase leaves no job that could be told it succeeded.
LEMMA FailStep ==
  ASSUME AnswerInv, [Next]_vars, CryptoFails \/ WriteFails
  PROVE  Waiting'
<1> USE DEF clientVars, workerVars, applyVars, treeVars, valueVars, storeVars, boundVars
<1>1. /\ TypeInv /\ Waiting /\ UNCHANGED work /\ pc' = "catchup" /\ outcome' # "ok"
  BY DEF AnswerInv, TreeInv, Numbering, CryptoFails, WriteFails
<1> SUFFICES ASSUME NEW j \in work PROVE Follows(j)'
  BY <1>1 DEF Waiting
<1>2. j \in Jobs /\ Follows(j)
  BY <1>1 DEF Waiting, TypeInv, TypeOK
<1>3. req'[j] = req[j]
  BY <1>1, <1>2, RequestStays DEF Follows
<1> QED
  BY <1>1, <1>2, <1>3 DEF Follows, WriteSteps

\* The steps of the worker that only move to the next phase.
LEMMA PhaseStep ==
  ASSUME AnswerInv, [Next]_vars, Versioned \/ Crypto \/ CatchUpsDone
  PROVE  Waiting'
<1> USE DEF clientVars, workerVars, applyVars, treeVars, valueVars, storeVars, boundVars
<1>1. /\ TypeInv /\ Waiting /\ UNCHANGED <<work, pre, raced, valid, outcome, latest, entry>>
  BY DEF AnswerInv, TreeInv, Numbering, Versioned, Crypto, CatchUpsDone
<1> SUFFICES ASSUME NEW j \in work PROVE Follows(j)'
  BY <1>1 DEF Waiting
<1>2. j \in Jobs /\ Follows(j)
  BY <1>1 DEF Waiting, TypeInv, TypeOK
<1>3. req'[j] = req[j] /\ Own(j)' = Own(j) /\ Prepared' = Prepared
      /\ (entry[latest - 1] \ PrevTree(latest - 1))' = entry[latest - 1] \ PrevTree(latest - 1)
  BY <1>1, <1>2, RequestStays DEF Follows, Prepared, PrevTree
<1>4. \/ pc = "version" /\ pc' = "crypto"
      \/ pc = "crypto" /\ pc' = "check"
      \/ pc = "catchup" /\ pc' = "answer"
  BY DEF Versioned, Crypto, CatchUpsDone
<1> QED
  BY <1>1, <1>2, <1>3, <1>4 DEF Follows, WriteSteps

-----------------------------------------------------------------------------
\* Every step keeps track of the jobs that wait.
LEMMA WaitingStep == AnswerInv /\ [Next]_vars => Waiting' /\ NoneWait'
<1> SUFFICES ASSUME AnswerInv, [Next]_vars PROVE Waiting' /\ NoneWait'
  OBVIOUS
<1> USE DEF clientVars, workerVars, applyVars, treeVars, valueVars, storeVars, boundVars
<1>a. TypeInv /\ Waiting /\ NoneWait /\ work \subseteq Jobs
  BY DEF AnswerInv, TreeInv, Numbering, TypeInv, TypeOK
<1>1. CASE /\ UNCHANGED <<pc, outcome, raced, pre, valid, latest>>
           /\ work' \subseteq work
  <2>1. NoneWait'
    BY <1>a, <1>1 DEF NoneWait
  <2>2. ASSUME NEW j \in work' PROVE Follows(j)'
    <3>1. j \in Jobs /\ Follows(j)
      BY <1>a, <1>1, <2>2 DEF Waiting
    <3> QED
      BY <1>a, <1>1, <3>1, FollowsFrame
  <2> QED
    BY <2>1, <2>2 DEF Waiting
<1>2. CASE work' = {}
  BY <1>2 DEF Waiting, NoneWait
<1>3. CASE Receive \/ Timeout \/ Lock
  <2>1. pc \in {"idle", "lock"} /\ work' = work
    BY <1>3 DEF Receive, Timeout, Lock
  <2> QED
    BY <1>a, <1>2, <2>1 DEF NoneWait
<1>4. CASE Restart
  <2>1. pc = "idle" /\ work' = work
    BY <1>a, <1>4 DEF Restart, TypeInv, HeadLoaded
  <2> QED
    BY <1>a, <1>2, <2>1 DEF NoneWait
<1>5. CASE AssignVersions \/ HistoryReadFails
  <2>1. pc = "version" /\ batch # <<>> /\ pc' = "version"
    BY <1>5 DEF AssignVersions, HistoryReadFails, CompareAndSwap
  <2>2. Head(batch) \in Jobs /\ req[Head(batch)] \in Requests
    BY <1>a, <2>1, TailSeq DEF TypeInv, TypeOK, QueuedAreSubmitted
  <2>3. req[Head(batch)].label \in Labels
    <3>1. \A r \in Requests : r.label \in Labels
      BY DEF Requests
    <3> QED
      BY <2>2, <3>1
  <2>4. \E g \in Versions \cup {NoVersion} : CompareAndSwap(g)
    BY <1>a, <1>5, <2>3, CurrentGreatestType DEF AssignVersions, HistoryReadFails, TypeInv
  <2> QED
    BY <2>1, <2>4, AssignStep DEF NoneWait
<1>6. CASE Versioned \/ Crypto \/ CatchUpsDone
  BY <1>6, PhaseStep DEF Versioned, Crypto, CatchUpsDone, NoneWait
<1>7. CASE CryptoFails \/ WriteFails
  BY <1>7, FailStep DEF CryptoFails, WriteFails, NoneWait
<1>8. CASE CheckVersion
  BY <1>8, CheckStep DEF CheckVersion, NoneWait
<1>9. CASE Checked
  BY <1>9, CheckedStep DEF Checked, NoneWait
<1>10. CASE SetHead
  BY <1>10, SetHeadStep DEF SetHead, Write, NoneWait
<1>11. CASE \/ PutPrefixBatch \/ PutPrefixPtr \/ SetNextPrefixVersion \/ BatchAppend
            \/ PutAuditBlob \/ PutValueBatch \/ PutOpeningBatch \/ PutHistoryBatch
  <2>1. pc \in WriteSteps /\ pc' \in WriteSteps /\ UNCHANGED <<work, raced, valid>>
    BY <1>11 DEF PutPrefixBatch, PutPrefixPtr, SetNextPrefixVersion, BatchAppend, PutAuditBlob,
        PutValueBatch, PutOpeningBatch, PutHistoryBatch, Write, WriteSteps
  <2>2. ASSUME NEW j \in work' PROVE Follows(j)'
    <3>1. j \in Jobs /\ Follows(j)
      BY <1>a, <2>1, <2>2 DEF Waiting
    <3> QED
      BY <1>a, <2>1, <3>1, FollowsWrite
  <2>3. pc' \notin {"idle", "lock"}
    BY <2>1 DEF WriteSteps
  <2> QED
    BY <2>2, <2>3 DEF Waiting, NoneWait
<1>12. CASE BatchDone \/ Crash
  BY <1>2, <1>12 DEF BatchDone, Crash, ForgetBatch
<1>13. ASSUME NEW j \in Jobs, CatchUp(j) \/ Answer(j) \/ AnswerFails(j) \/ \E r \in Requests : Submit(j, r)
       PROVE  Waiting' /\ NoneWait'
  BY <1>1, <1>13 DEF CatchUp, Answer, AnswerFails, Submit
<1>14. CASE EraseOpening \/ UNCHANGED vars
  BY <1>1, <1>14 DEF EraseOpening, vars
<1>15. ASSUME NEW l \in Labels, NEW k \in 1 .. MaxPtr, EraseValue(l, k)
       PROVE  Waiting' /\ NoneWait'
  BY <1>1, <1>15 DEF EraseValue
<1> QED
  BY <1>3, <1>4, <1>5, <1>6, <1>7, <1>8, <1>9, <1>10, <1>11, <1>12, <1>13, <1>14, <1>15
  DEF Next, WorkerStep, ApplyStep

\* Only phase 4 tells a job that it succeeded, and only a job of a batch that did.
LEMMA OkStep ==
  ASSUME TypeInv, [Next]_vars, NEW j \in Jobs, reply'[j].kind = "ok", reply'[j] # reply[j]
  PROVE  /\ pc = "answer" /\ j \in work /\ outcome = "ok" /\ j \notin raced
         /\ reply'[j] = [kind |-> "ok", pos |-> latest - 1, first |-> req[j].greatest + 1,
                         n |-> req[j].n]
         /\ UNCHANGED <<req, entry, head>>
<1> USE DEF clientVars, workerVars, applyVars, treeVars, valueVars, storeVars, boundVars
<1>a. reply = [i \in Jobs |-> reply[i]]
  BY DEF TypeInv, TypeOK
<1>1. CASE UNCHANGED reply
  BY <1>1
<1>2. CASE AssignVersions \/ HistoryReadFails
  <2>1. \/ UNCHANGED reply
        \/ \E k \in {"conflict", "empty", "toolong"} : Reject(Head(batch), k)
    BY <1>2 DEF AssignVersions, HistoryReadFails, CompareAndSwap
  <2>2. ASSUME NEW k \in {"conflict", "empty", "toolong"}, Reject(Head(batch), k) PROVE FALSE
    BY <1>a, <2>2 DEF Reject, Fails
  <2> QED
    BY <2>1, <2>2
<1>3. ASSUME NEW i \in Jobs, CatchUp(i) PROVE FALSE
  <2>1. CatchUpReply(req[i]).kind # "ok"
    BY DEF CatchUpReply, Fails
  <2> QED
    BY <1>a, <1>3, <2>1 DEF CatchUp
<1>4. ASSUME NEW i \in Jobs, AnswerFails(i) PROVE FALSE
  BY <1>a, <1>4 DEF AnswerFails, Fails
<1>5. CASE Crash
  BY <1>a, <1>5 DEF Crash, Fails
<1>6. ASSUME NEW i \in Jobs, Answer(i)
      PROVE  /\ pc = "answer" /\ j \in work /\ outcome = "ok" /\ j \notin raced
             /\ reply'[j] = [kind |-> "ok", pos |-> latest - 1, first |-> req[j].greatest + 1,
                             n |-> req[j].n]
             /\ UNCHANGED <<req, entry, head>>
  <2>1. PICK a : /\ reply' = [reply EXCEPT ![i] = a]
                 /\ outcome # "ok" => a = Fails(outcome)
                 /\ outcome = "ok" /\ i \in raced => a = Fails("raced")
                 /\ outcome = "ok" /\ i \notin raced =>
                      a = [kind |-> "ok", pos |-> latest - 1, first |-> req[i].greatest + 1,
                           n |-> req[i].n]
    BY <1>6, Zenon DEF Answer
  <2>2. i = j /\ reply'[j] = a
    BY <1>a, <2>1
  <2>3. outcome = "ok" /\ j \notin raced
    BY <2>1, <2>2 DEF Fails
  <2>4. pc = "answer" /\ j \in work /\ UNCHANGED <<req, entry, head>>
    BY <1>6, <2>2 DEF Answer
  <2> QED
    BY <2>1, <2>2, <2>3, <2>4
<1> QED
  BY <1>1, <1>2, <1>3, <1>4, <1>5, <1>6
  DEF vars, Next, WorkerStep, ApplyStep, Submit, Receive, Timeout, Lock, Versioned, Crypto,
      CryptoFails, CheckVersion, Checked, PutPrefixBatch, PutPrefixPtr, SetNextPrefixVersion,
      BatchAppend, PutAuditBlob, PutValueBatch, PutOpeningBatch, PutHistoryBatch, SetHead, Write,
      WriteFails, CatchUpsDone, BatchDone, EraseValue, EraseOpening, Restart

\* What a job that was told it succeeded finds in the log.
Committed(j) ==
  LET mine == {[label |-> req[j].label, ver |-> reply[j].first + k, job |-> j] :
                 k \in 0 .. reply[j].n - 1}
  IN  /\ reply[j].pos \in 0 .. head - 1
      /\ reply[j].first = req[j].greatest + 1 /\ reply[j].n = req[j].n
      /\ mine \subseteq entry[reply[j].pos] \ PrevTree(reply[j].pos)

LEMMA CommittedIsAcked ==
  AckedIsCommitted <=> \A j \in Jobs : reply[j].kind = "ok" => Committed(j)
  BY DEF AckedIsCommitted, Committed

LEMMA AckedStep == AnswerInv /\ [Next]_vars => AckedAsked' /\ AckedIsCommitted'
<1> SUFFICES ASSUME AnswerInv, [Next]_vars PROVE AckedAsked' /\ AckedIsCommitted'
  OBVIOUS
<1>1. /\ TypeInv /\ Waiting /\ AckedAsked
      /\ \A j \in Jobs : reply[j].kind = "ok" => Committed(j)
  BY CommittedIsAcked DEF AnswerInv, TreeInv, Numbering
<1>2. KeepsLog
  <2>1. CASE UNCHANGED vars
    <3>1. head' = head /\ entry' = entry /\ prefixPtr' = prefixPtr /\ blob' = blob
      BY <2>1 DEF vars, storeVars, treeVars
    <3>2. head \in Nat
      BY <1>1, StoreTypes
    <3> QED
      BY <3>1, <3>2 DEF KeepsLog
  <2>2. CASE KeepsLog
    BY <2>2
  <2> QED
    BY <1>1, <2>1, <2>2, AppendStep
<1>3. head \in Nat /\ head' \in Nat /\ head' >= head
      /\ \A i \in 0 .. head - 1 : entry'[i] = entry[i]
  <2>1. TypeInv'
    BY <1>1, TypeStep
  <2>2. head' \in Nat
    BY <2>1, BoundsAssumption DEF TypeInv, TypeOK
  <2>3. head \in Nat
    BY <1>1, StoreTypes
  <2> QED
    BY <1>2, <2>2, <2>3 DEF KeepsLog
<1>4. ASSUME NEW j \in Jobs, reply'[j].kind = "ok", reply'[j] = reply[j]
      PROVE  req'[j] \in Requests /\ Committed(j)'
  <2>1. reply[j].kind = "ok" /\ Committed(j) /\ req[j] \in Requests
    BY <1>1, <1>4 DEF AckedAsked
  <2>2. req'[j] = req[j]
    BY <1>1, <2>1, RequestStays
  <2>3. PICK i : i = reply[j].pos /\ i \in 0 .. head - 1
    BY <2>1 DEF Committed
  <2>4. entry'[i] = entry[i] /\ i \in 0 .. head' - 1
        /\ (i # 0 => i - 1 \in 0 .. head - 1)
    BY <1>3, <2>3
  <2>5. (IF i = 0 THEN {} ELSE entry'[i - 1]) = PrevTree(i)
    BY <1>3, <2>4 DEF PrevTree
  <2>6. (entry[reply[j].pos] \ PrevTree(reply[j].pos))' = entry'[i] \ (IF i = 0 THEN {} ELSE entry'[i - 1])
    BY <1>4, <2>3 DEF PrevTree
  <2> QED
    BY <1>4, <2>1, <2>2, <2>3, <2>4, <2>5, <2>6 DEF Committed
<1>5. ASSUME NEW j \in Jobs, reply'[j].kind = "ok", reply'[j] # reply[j]
      PROVE  req'[j] \in Requests /\ Committed(j)'
  <2>1. /\ pc = "answer" /\ j \in work /\ outcome = "ok" /\ j \notin raced
        /\ reply'[j] = [kind |-> "ok", pos |-> latest - 1, first |-> req[j].greatest + 1,
                        n |-> req[j].n]
        /\ UNCHANGED <<req, entry, head>>
    BY <1>1, <1>5, OkStep
  <2>2. req[j] \in Requests /\ latest > 0 /\ Own(j) \subseteq entry[latest - 1] \ PrevTree(latest - 1)
    BY <1>1, <2>1 DEF Waiting, Follows
  <2>3. latest = head
    BY <1>1, <2>1 DEF TypeInv, HeadLoaded
  <2>4. latest - 1 \in 0 .. head' - 1
    BY <1>3, <2>1, <2>2, <2>3
  <2>5. reply'[j].pos = latest - 1 /\ reply'[j].first = req[j].greatest + 1 /\ reply'[j].n = req[j].n
    BY <2>1
  <2>6. (entry[reply[j].pos] \ PrevTree(reply[j].pos))' = entry[latest - 1] \ PrevTree(latest - 1)
    BY <2>1, <2>5 DEF PrevTree
  <2>7. {[label |-> req'[j].label, ver |-> reply'[j].first + k, job |-> j] :
           k \in 0 .. reply'[j].n - 1} = Own(j)
    BY <2>1, <2>5 DEF Own
  <2> QED
    BY <2>1, <2>2, <2>4, <2>5, <2>6, <2>7 DEF Committed
<1>6. \A j \in Jobs : reply'[j].kind = "ok" => req'[j] \in Requests /\ Committed(j)'
  BY <1>4, <1>5
<1>7. AckedAsked'
  BY <1>6 DEF AckedAsked
<1>8. AckedIsCommitted'
  BY <1>6 DEF AckedIsCommitted, Committed
<1> QED
  BY <1>7, <1>8

LEMMA InitAnswer == Init => AnswerInv
<1> SUFFICES ASSUME Init PROVE AnswerInv
  OBVIOUS
<1>1. TreeInv
  BY InitTree
<1>2. work = {} /\ \A j \in Jobs : reply[j].kind # "ok"
  BY DEF Init, Pending
<1> QED
  BY <1>1, <1>2 DEF AnswerInv, Waiting, NoneWait, AckedAsked, AckedIsCommitted

\* An update that was answered with success is in the log for good, as the versions right
\* after the one its caller advertised, in the entry the answer names.
THEOREM SuccessIsCommitted == Spec => []AckedIsCommitted
<1>1. AnswerInv /\ [Next]_vars => AnswerInv'
  BY TreeStep, WaitingStep, AckedStep DEF AnswerInv
<1>2. Spec => []AnswerInv
  BY <1>1, InitAnswer, PTL DEF Spec
<1>3. AnswerInv => AckedIsCommitted
  BY DEF AnswerInv
<1> QED
  BY <1>2, <1>3, PTL

(***************************************************************************)
(* The index of versions: every committed version is found through the     *)
(* history of its label, with the value and the opening that were          *)
(* committed; and get_max_version_at agrees with the prefix tree of every  *)
(* entry, as long as no access to the store has failed and the process has *)
(* not died: until then what is indexed is committed, too.  A catch-up     *)
(* answer reports exactly what the log entry of the first missing version  *)
(* added; the binary search for that entry is a recursive function,        *)
(* defined at all and correct by the least counterexample.                 *)
(***************************************************************************)

\* The positions of a batch: one per update, above every stored one.
SlotsApart ==
  /\ \A u, w \in Updates : u.ptr = w.ptr => u = w
  /\ pc \in Unindexed => \A u \in Updates : \A l \in Labels : \A i \in DOMAIN history[l] :
       history[l][i].ptr < u.ptr

\* What apply_batch has stored of its updates besides their tree.
ValuesWritten ==
  /\ pc \in Grown => \A u \in Updates : u.ptr <= final
  /\ pc \in Grown /\ latest > 0 => prefixPtr[latest - 1] <= final
  /\ pc \in {"opening", "history", "head"} => \A u \in Updates : value[u.ptr] = u.job
  /\ pc \in {"history", "head"} => \A u \in Updates : opening[u.ptr] = u.job
  /\ pc = "head" => \A u \in Updates : \E k \in DOMAIN history[u.label] :
       history[u.label][k].ver = u.ver /\ history[u.label][k].ptr = u.ptr

\* An erasure holds the read lock, and is counted.
EraseShape ==
  /\ Locked => erasing = NoVersion
  /\ erasing # NoVersion => erased > 0

IndexInv == TreeInv /\ SlotsApart /\ ValuesWritten /\ EraseShape /\ CommittedIsIndexed

-----------------------------------------------------------------------------
\* A batch that was forgotten, or is not there yet, has no update.
LEMMA NoUpdates ==
  ASSUME \A l \in Labels : valid[l] = <<>>
  PROVE  Updates = {}
  BY DEF Updates

\* The check adds at most the update it accepts, at the next free position.
LEMMA CheckAdds ==
  ASSUME TypeInv, CheckVersion, NEW u \in Updates'
  PROVE  \/ u \in Updates
         \/ u = [label |-> Head(pre).label, ver |-> Head(pre).ver, ptr |-> nextPrefix + alloc,
                 job |-> Head(pre).job]
<1>1. CASE valid' = valid
  BY <1>1, UpdatesFrame
<1>2. CASE valid' # valid
  <2> DEFINE m == Head(pre).label
             slot == [ver |-> Head(pre).ver, ptr |-> nextPrefix + alloc, job |-> Head(pre).job]
  <2>1. valid' = [valid EXCEPT ![m] = Append(valid[m], slot)]
    BY <1>2 DEF CheckVersion
  <2>2. PICK l \in Labels : \E k \in DOMAIN valid'[l] :
          u = [label |-> l, ver |-> valid'[l][k].ver, ptr |-> valid'[l][k].ptr,
               job |-> valid'[l][k].job]
    BY DEF Updates
  <2>3. PICK k \in DOMAIN valid'[l] :
          u = [label |-> l, ver |-> valid'[l][k].ver, ptr |-> valid'[l][k].ptr,
               job |-> valid'[l][k].job]
    BY <2>2
  <2>4. valid \in [Labels -> Seq(Slots)]
    BY DEF TypeInv, TypeOK
  <2>5. ASSUME k \in DOMAIN valid[l], valid'[l][k] = valid[l][k]
        PROVE  u \in Updates
    BY <2>3, <2>5 DEF Updates
  <2>6. CASE l # m
    <3>1. valid'[l] = valid[l]
      BY <2>1, <2>4, <2>6
    <3> QED
      BY <2>3, <2>5, <3>1
  <2>7. CASE l = m
    <3>1. valid[l] \in Seq(Slots \cup {slot}) /\ slot \in Slots \cup {slot}
          /\ valid'[l] = Append(valid[l], slot)
      BY <2>1, <2>4, <2>7
    <3>a. /\ Len(valid[l]) \in Nat /\ DOMAIN valid[l] = 1 .. Len(valid[l])
          /\ DOMAIN valid'[l] = 1 .. Len(valid[l]) + 1
          /\ \A j \in 1 .. Len(valid[l]) : valid'[l][j] = valid[l][j]
      BY <3>1, AppendSeq
    <3>2. k # Len(valid[l]) + 1 => k \in DOMAIN valid[l] /\ valid'[l][k] = valid[l][k]
      BY <3>a
    <3>3. k = Len(valid[l]) + 1 => valid'[l][k] = slot
      BY <2>3, <3>1, AppendSeq
    <3>4. CASE k = Len(valid[l]) + 1
      <4>1. valid'[l][k] = slot /\ l = m
        BY <3>3, <3>4, <2>7
      <4> HIDE DEF slot
      <4>2. u = [label |-> m, ver |-> slot.ver, ptr |-> slot.ptr, job |-> slot.job]
        BY <2>3, <4>1
      <4> QED
        BY <4>2 DEF slot
    <3> QED
      BY <2>5, <3>2, <3>4
  <2> QED
    BY <2>6, <2>7
<1> QED
  BY <1>1, <1>2

\* Every step keeps the positions of a batch apart and above the history.
LEMMA ApartStep == IndexInv /\ [Next]_vars => SlotsApart'
<1> SUFFICES ASSUME IndexInv, [Next]_vars PROVE SlotsApart'
  OBVIOUS
<1> USE DEF clientVars, workerVars, applyVars, treeVars, valueVars, storeVars, boundVars
<1>a. /\ TypeInv /\ TypeInv' /\ HistoryContiguous /\ SlotsContinueHistory /\ SlotsApart
  BY TypeStep DEF IndexInv, TreeInv, Numbering
<1>1. CASE /\ UNCHANGED <<valid, history>>
           /\ pc' \in Unindexed => pc \in Unindexed
  BY <1>a, <1>1, UpdatesFrame DEF SlotsApart
<1>2. CASE Updates' = {}
  BY <1>2 DEF SlotsApart
<1>3. CASE CheckVersion
  <2>1. pc = "check" /\ pc \in Unindexed /\ pc \in Uncounted /\ UNCHANGED history
        /\ nextPrefix \in Nat /\ alloc \in Nat
    BY <1>3, <1>a, StoreTypes DEF CheckVersion, Unindexed, Uncounted
  <2>2. ASSUME NEW u \in Updates PROVE u.ptr \in Nat /\ u.ptr < nextPrefix + alloc
    <3>1. PICK l \in Labels : \E k \in DOMAIN valid[l] :
            u = [label |-> l, ver |-> valid[l][k].ver, ptr |-> valid[l][k].ptr,
                 job |-> valid[l][k].job]
      BY DEF Updates
    <3>2. PICK k \in DOMAIN valid[l] : u.ptr = valid[l][k].ptr
      BY <3>1
    <3>3. u.ptr < nextPrefix + alloc
      BY <1>a, <2>1, <3>2 DEF SlotsContinueHistory, SlotsReserved
    <3>4. u.ptr \in Nat
      BY <1>a, UpdatesType, BoundsAssumption DEF TypeInv, Ptrs
    <3> QED
      BY <3>3, <3>4
  <2>3. ASSUME NEW l \in Labels, NEW i \in DOMAIN history[l]
        PROVE  history[l][i].ptr < nextPrefix + alloc
    <3>1. history[l][i].ptr < nextPrefix
      BY <1>a DEF HistoryContiguous
    <3>2. history[l] \in Seq(Records)
      BY <1>a, StoreTypes
    <3>3. history[l][i] \in Records
      BY <3>2
    <3>4. history[l][i].ptr \in Nat
      BY <3>3, BoundsAssumption DEF Records, Ptrs
    <3> QED
      BY <2>1, <3>1, <3>4
  <2> DEFINE new == [label |-> Head(pre).label, ver |-> Head(pre).ver,
                     ptr |-> nextPrefix + alloc, job |-> Head(pre).job]
  <2>4. \A u \in Updates' : u \in Updates \/ u = new
    BY <1>a, <1>3, CheckAdds
  <2>5. new.ptr = nextPrefix + alloc
    OBVIOUS
  <2> HIDE DEF new
  <2>6. \A u \in Updates : u.ptr # new.ptr
    BY <2>1, <2>2, <2>5
  <2>7. \A u, w \in Updates' : u.ptr = w.ptr => u = w
    BY <1>a, <2>4, <2>6 DEF SlotsApart
  <2>8. \A u \in Updates' : \A l \in Labels : \A i \in DOMAIN history[l] :
          history[l][i].ptr < u.ptr
    BY <1>a, <2>1, <2>3, <2>4, <2>5 DEF SlotsApart
  <2> QED
    BY <2>1, <2>7, <2>8 DEF SlotsApart
<1>4. CASE PutHistoryBatch
  <2>1. valid' = valid /\ pc' = "head"
    BY <1>4 DEF PutHistoryBatch, Write
  <2> QED
    BY <1>a, <2>1, UpdatesFrame DEF SlotsApart, Unindexed, Uncounted
<1>5. CASE Crypto
  <2>1. valid' = valid /\ \A l \in Labels : valid[l] = <<>>
    BY <1>a, <1>5 DEF Crypto, TypeInv, BatchShape
  <2> QED
    BY <1>2, <2>1, NoUpdates, UpdatesFrame
<1>6. CASE BatchDone \/ Crash
  <2>1. \A l \in Labels : valid'[l] = <<>>
    BY <1>6 DEF BatchDone, Crash, ForgetBatch
  <2>2. Updates' = {}
    BY <2>1 DEF Updates
  <2> QED
    BY <1>2, <2>2
<1>7. CASE \/ Receive \/ Timeout \/ Lock \/ AssignVersions \/ HistoryReadFails \/ Versioned
           \/ CryptoFails \/ Checked \/ WriteFails \/ CatchUpsDone \/ SetHead
  BY <1>1, <1>7
  DEF Receive, Timeout, Lock, AssignVersions, HistoryReadFails, CompareAndSwap, Versioned,
      CryptoFails, Checked, WriteFails, CatchUpsDone, SetHead, Write, Unindexed, Uncounted
<1>8. CASE \/ PutPrefixBatch \/ PutPrefixPtr \/ SetNextPrefixVersion \/ BatchAppend
           \/ PutAuditBlob \/ PutValueBatch \/ PutOpeningBatch
  BY <1>1, <1>8
  DEF PutPrefixBatch, PutPrefixPtr, SetNextPrefixVersion, BatchAppend, PutAuditBlob,
      PutValueBatch, PutOpeningBatch, Write, Unindexed, Uncounted
<1>9. CASE EraseOpening \/ Restart \/ UNCHANGED vars
  BY <1>1, <1>9 DEF EraseOpening, Restart, vars
<1>10. ASSUME NEW j \in Jobs, CatchUp(j) \/ Answer(j) \/ AnswerFails(j) \/ \E r \in Requests : Submit(j, r)
       PROVE  SlotsApart'
  BY <1>1, <1>10 DEF CatchUp, Answer, AnswerFails, Submit
<1>11. ASSUME NEW l \in Labels, NEW k \in 1 .. MaxPtr, EraseValue(l, k) PROVE SlotsApart'
  BY <1>1, <1>11 DEF EraseValue
<1> QED
  BY <1>3, <1>4, <1>5, <1>6, <1>7, <1>8, <1>9, <1>10, <1>11 DEF Next, WorkerStep, ApplyStep

\* Erasures exclude batches.
LEMMA EraseStep == IndexInv /\ [Next]_vars => EraseShape'
<1> SUFFICES ASSUME IndexInv, [Next]_vars PROVE EraseShape'
  OBVIOUS
<1> USE DEF clientVars, workerVars, applyVars, treeVars, valueVars, storeVars, boundVars
<1>a. /\ EraseShape /\ erased \in Nat
      /\ (~up => pc = "idle")
  <2>1. TypeInv /\ EraseShape
    BY DEF IndexInv, TreeInv, Numbering
  <2> QED
    BY <2>1, BoundsAssumption DEF TypeInv, TypeOK, HeadLoaded
<1>1. CASE UNCHANGED <<erasing, erased>> /\ (Locked' => Locked)
  BY <1>a, <1>1 DEF EraseShape
<1>2. CASE Lock
  BY <1>a, <1>2 DEF Lock, EraseShape
<1>3. ASSUME NEW l \in Labels, NEW k \in 1 .. MaxPtr, EraseValue(l, k) PROVE EraseShape'
  <2>1. ~Locked' /\ erased' = erased + 1
    BY <1>3 DEF EraseValue, Readable, Locked
  <2> QED
    BY <1>a, <2>1 DEF EraseShape
<1>4. CASE EraseOpening \/ Crash
  BY <1>a, <1>4 DEF EraseOpening, Crash, EraseShape
<1>5. CASE \/ Receive \/ Timeout \/ AssignVersions \/ HistoryReadFails \/ Versioned \/ Crypto
           \/ CryptoFails \/ CheckVersion \/ Checked \/ WriteFails \/ CatchUpsDone \/ BatchDone
  BY <1>1, <1>5
  DEF Receive, Timeout, AssignVersions, HistoryReadFails, CompareAndSwap, Versioned, Crypto,
      CryptoFails, CheckVersion, Checked, WriteFails, CatchUpsDone, BatchDone, Locked, WriteSteps
<1>6. CASE \/ PutPrefixBatch \/ PutPrefixPtr \/ SetNextPrefixVersion \/ BatchAppend
           \/ PutAuditBlob \/ PutValueBatch \/ PutOpeningBatch \/ PutHistoryBatch \/ SetHead
  BY <1>1, <1>6
  DEF PutPrefixBatch, PutPrefixPtr, SetNextPrefixVersion, BatchAppend, PutAuditBlob,
      PutValueBatch, PutOpeningBatch, PutHistoryBatch, SetHead, Write, Locked, WriteSteps
<1>7. CASE Restart \/ UNCHANGED vars
  BY <1>1, <1>7 DEF Restart, vars, Locked
<1>8. ASSUME NEW j \in Jobs, CatchUp(j) \/ Answer(j) \/ AnswerFails(j) \/ \E r \in Requests : Submit(j, r)
      PROVE  EraseShape'
  BY <1>1, <1>8 DEF CatchUp, Answer, AnswerFails, Submit, Locked
<1> QED
  BY <1>2, <1>3, <1>4, <1>5, <1>6, <1>7, <1>8 DEF Next, WorkerStep, ApplyStep

-----------------------------------------------------------------------------
\* put_value_batch and put_opening_batch store each update at its own position.
LEMMA PutBatchAt ==
  ASSUME TypeInv, SlotsApart, NEW cf \in [Ptrs -> Jobs \cup {NoJob}]
  PROVE  /\ \A u \in Updates : PutBatch(cf)[u.ptr] = u.job
         /\ \A p \in Ptrs : (\A u \in Updates : u.ptr # p) => PutBatch(cf)[p] = cf[p]
<1>1. ASSUME NEW u \in Updates PROVE PutBatch(cf)[u.ptr] = u.job
  <2>1. u.ptr \in Ptrs
    BY UpdatesType DEF TypeInv
  <2>2. (CHOOSE w \in Updates : w.ptr = u.ptr) = u
    BY DEF SlotsApart
  <2> QED
    BY <2>1, <2>2 DEF PutBatch
<1>2. ASSUME NEW p \in Ptrs, \A u \in Updates : u.ptr # p PROVE PutBatch(cf)[p] = cf[p]
  BY <1>2 DEF PutBatch
<1> QED
  BY <1>1, <1>2

\* put_history_batch appends one record per update and moves none.
LEMMA HistoryGrows ==
  ASSUME TypeInv, PutHistoryBatch
  PROVE  /\ \A l \in Labels : \A k \in DOMAIN history[l] :
              k \in DOMAIN history'[l] /\ history'[l][k] = history[l][k]
         /\ \A u \in Updates : \E k \in DOMAIN history'[u.label] :
              history'[u.label][k].ver = u.ver /\ history'[u.label][k].ptr = u.ptr
<1>1. ASSUME NEW l \in Labels
      PROVE  /\ history[l] \in Seq(Records) /\ NewRecords(l) \in Seq(Records)
             /\ valid[l] \in Seq(Slots) /\ history'[l] = history[l] \o NewRecords(l)
             /\ DOMAIN NewRecords(l) = 1 .. Len(valid[l])
  <2>1. NewRecords(l) \in Seq(Records)
    BY NewRecordsType DEF TypeInv
  <2> QED
    BY <2>1, StoreTypes DEF PutHistoryBatch, NewRecords
<1>2. ASSUME NEW l \in Labels, NEW k \in DOMAIN history[l]
      PROVE  k \in DOMAIN history'[l] /\ history'[l][k] = history[l][k]
  <2>1. PICK h, t : h = history[l] /\ t = NewRecords(l)
    OBVIOUS
  <2>2. h \in Seq(Records) /\ t \in Seq(Records) /\ history'[l] = h \o t
    BY <1>1, <2>1
  <2>3. /\ k \in 1 .. Len(h) /\ Len(h) \in Nat /\ Len(t) \in Nat
        /\ DOMAIN (h \o t) = 1 .. Len(h) + Len(t)
    BY <2>1, <2>2, ConcatSeq
  <2>4. k \in DOMAIN (h \o t) /\ k <= Len(h)
    BY <2>3
  <2>5. (h \o t)[k] = h[k]
    BY <2>2, <2>4, ConcatSeq
  <2> QED
    BY <2>1, <2>2, <2>4, <2>5
<1>3. ASSUME NEW u \in Updates
      PROVE  \E k \in DOMAIN history'[u.label] :
               history'[u.label][k].ver = u.ver /\ history'[u.label][k].ptr = u.ptr
  <2>1. PICK l \in Labels : \E n \in DOMAIN valid[l] :
          u = [label |-> l, ver |-> valid[l][n].ver, ptr |-> valid[l][n].ptr,
               job |-> valid[l][n].job]
    BY DEF Updates
  <2>2. PICK n \in DOMAIN valid[l] :
          u.label = l /\ u.ver = valid[l][n].ver /\ u.ptr = valid[l][n].ptr
    BY <2>1
  <2>3. PICK h, t : h = history[l] /\ t = NewRecords(l)
    OBVIOUS
  <2>4. /\ h \in Seq(Records) /\ t \in Seq(Records) /\ history'[l] = h \o t
        /\ valid[l] \in Seq(Slots) /\ DOMAIN t = 1 .. Len(valid[l])
    BY <1>1, <2>3
  <2>5. n \in 1 .. Len(valid[l]) /\ n \in DOMAIN t
    BY <2>2, <2>4
  <2>6. t[n].ver = u.ver /\ t[n].ptr = u.ptr
    BY <2>2, <2>3, <2>5 DEF NewRecords
  <2>7. /\ n \in 1 .. Len(t) /\ Len(h) \in Nat /\ Len(t) \in Nat
        /\ DOMAIN (h \o t) = 1 .. Len(h) + Len(t)
    BY <2>4, <2>5, ConcatSeq
  <2>8. /\ Len(h) + n \in DOMAIN (h \o t) /\ ~(Len(h) + n <= Len(h))
        /\ (Len(h) + n) - Len(h) = n
    BY <2>7
  <2>9. (h \o t)[Len(h) + n] = t[n]
    BY <2>4, <2>8, ConcatSeq
  <2> QED
    BY <2>2, <2>4, <2>6, <2>8, <2>9
<1> QED
  BY <1>2, <1>3

\* Each write finds the values, openings and records the earlier ones stored.
LEMMA ValuesStep == IndexInv /\ [Next]_vars => ValuesWritten'
<1> SUFFICES ASSUME IndexInv, [Next]_vars PROVE ValuesWritten'
  OBVIOUS
<1> USE DEF clientVars, workerVars, applyVars, treeVars, valueVars, storeVars, boundVars
<1>a. /\ TypeInv /\ SlotsContinueHistory /\ SlotsApart /\ ValuesWritten /\ PtrsBelow
      /\ BatchWritten /\ EraseShape
      /\ (pc \in WriteSteps => latest = head /\ latest \in Indices)
      /\ latest \in Nat /\ head \in Nat /\ nextPrefix \in Nat /\ alloc \in Nat
      /\ prefixPtr \in [Indices -> Ptrs]
  <2>1. TypeInv /\ SlotsContinueHistory /\ SlotsApart /\ ValuesWritten /\ PtrsBelow
        /\ BatchWritten /\ EraseShape
    BY DEF IndexInv, TreeInv, LogMatches, Numbering
  <2> QED
    BY <2>1, StoreTypes
<1>b. /\ Grown = {"ptr", "next", "append", "blob", "value", "opening", "history", "head"}
      /\ Grown \subseteq WriteSteps
  BY DEF Grown, WriteSteps
<1>1. CASE pc' \notin Grown
  BY <1>b, <1>1 DEF ValuesWritten
<1>2. CASE UNCHANGED <<pc, valid, final, latest, prefixPtr, value, opening, history>>
  BY <1>a, <1>2, UpdatesFrame DEF ValuesWritten
<1>3. CASE PutPrefixBatch
  <2>1. /\ pc = "prefix" /\ pc' = "ptr" /\ final' = nextPrefix + alloc - 1
        /\ UNCHANGED <<valid, latest, prefixPtr>>
    BY <1>3 DEF PutPrefixBatch, Write
  <2>2. alloc > 0
    BY <1>a, <2>1 DEF BatchWritten, WriteSteps
  <2>3. ASSUME NEW u \in Updates PROVE u.ptr <= final'
    <3>1. PICK l \in Labels : \E k \in DOMAIN valid[l] :
            u = [label |-> l, ver |-> valid[l][k].ver, ptr |-> valid[l][k].ptr,
                 job |-> valid[l][k].job]
      BY DEF Updates
    <3>2. PICK k \in DOMAIN valid[l] : u.ptr = valid[l][k].ptr
      BY <3>1
    <3>3. u.ptr < nextPrefix + alloc
      BY <1>a, <2>1, <3>2 DEF SlotsContinueHistory, SlotsReserved, Uncounted
    <3>4. u.ptr \in Nat
      BY <1>a, UpdatesType, BoundsAssumption DEF TypeInv, Ptrs
    <3> QED
      BY <1>a, <2>1, <3>3, <3>4
  <2>4. latest > 0 => prefixPtr'[latest' - 1] <= final'
    <3> SUFFICES ASSUME latest > 0 PROVE prefixPtr[latest - 1] <= nextPrefix + alloc - 1
      BY <2>1
    <3>1. latest = head
      BY <1>a, <2>1 DEF WriteSteps
    <3>2. latest - 1 \in 0 .. head - 1
      BY <1>a, <3>1
    <3>3. prefixPtr[latest - 1] < nextPrefix /\ prefixPtr[latest - 1] \in Nat
      BY <1>a, <3>2, StoreTypes DEF PtrsBelow
    <3> QED
      BY <1>a, <2>2, <3>3
  <2> QED
    BY <2>1, <2>3, <2>4, UpdatesFrame DEF ValuesWritten
<1>4. CASE PutPrefixPtr
  <2>1. /\ pc = "ptr" /\ pc' = "next" /\ pc \in Grown /\ pc \in WriteSteps
        /\ prefixPtr' = [prefixPtr EXCEPT ![latest] = final]
        /\ UNCHANGED <<valid, latest, final>>
    BY <1>b, <1>4 DEF PutPrefixPtr, Write
  <2>2. latest > 0 => prefixPtr'[latest - 1] = prefixPtr[latest - 1]
    <3>1. latest \in Indices /\ latest \in Nat
      BY <1>a, <2>1
    <3>2. latest > 0 => latest - 1 \in Indices /\ latest - 1 # latest
      BY <3>1, BoundsAssumption DEF Indices
    <3> QED
      BY <1>a, <2>1, <3>2
  <2> QED
    BY <1>a, <2>1, <2>2, UpdatesFrame DEF ValuesWritten
<1>5. CASE SetNextPrefixVersion \/ BatchAppend \/ PutAuditBlob
  <2>1. /\ pc \in Grown /\ pc' \in {"append", "blob", "value"}
        /\ UNCHANGED <<valid, final, latest, prefixPtr>>
    BY <1>b, <1>5 DEF SetNextPrefixVersion, BatchAppend, PutAuditBlob, Write
  <2> QED
    BY <1>a, <2>1, UpdatesFrame DEF ValuesWritten
<1>6. CASE PutValueBatch
  <2>1. /\ pc = "value" /\ pc' = "opening" /\ pc \in Grown /\ value' = PutBatch(value)
        /\ UNCHANGED <<valid, final, latest, prefixPtr>>
    BY <1>b, <1>6 DEF PutValueBatch, Write
  <2>2. \A u \in Updates : value'[u.ptr] = u.job
    BY <1>a, <2>1, PutBatchAt DEF TypeInv, TypeOK
  <2> QED
    BY <1>a, <2>1, <2>2, UpdatesFrame DEF ValuesWritten
<1>7. CASE PutOpeningBatch
  <2>1. /\ pc = "opening" /\ pc' = "history" /\ pc \in Grown /\ opening' = PutBatch(opening)
        /\ UNCHANGED <<valid, final, latest, prefixPtr, value>>
    BY <1>b, <1>7 DEF PutOpeningBatch, Write
  <2>2. \A u \in Updates : opening'[u.ptr] = u.job
    BY <1>a, <2>1, PutBatchAt DEF TypeInv, TypeOK
  <2> QED
    BY <1>a, <2>1, <2>2, UpdatesFrame DEF ValuesWritten
<1>8. CASE PutHistoryBatch
  <2>1. /\ pc = "history" /\ pc' = "head" /\ pc \in Grown
        /\ UNCHANGED <<valid, final, latest, prefixPtr, value, opening>>
    BY <1>b, <1>8 DEF PutHistoryBatch, Write
  <2>2. \A u \in Updates : \E k \in DOMAIN history'[u.label] :
          history'[u.label][k].ver = u.ver /\ history'[u.label][k].ptr = u.ptr
    BY <1>a, <1>8, HistoryGrows
  <2> QED
    BY <1>a, <2>1, <2>2, UpdatesFrame DEF ValuesWritten
<1>9. ASSUME NEW l \in Labels, NEW k \in 1 .. MaxPtr, EraseValue(l, k) PROVE ValuesWritten'
  BY <1>1, <1>9 DEF EraseValue, Readable, Locked, Grown
<1>10. CASE EraseOpening
  <2>1. ~Locked /\ pc' = pc
    BY <1>a, <1>10 DEF EraseOpening, EraseShape
  <2> QED
    BY <1>1, <2>1 DEF Locked, Grown
<1>11. CASE Restart
  <2>1. pc = "idle" /\ pc' = pc
    BY <1>a, <1>11 DEF Restart, TypeInv, HeadLoaded
  <2> QED
    BY <1>1, <1>b, <2>1
<1>12. CASE \/ Receive \/ Timeout \/ Lock \/ AssignVersions \/ HistoryReadFails \/ Versioned
            \/ CheckVersion \/ Checked
  BY <1>1, <1>b, <1>12
  DEF Receive, Timeout, Lock, AssignVersions, HistoryReadFails, CompareAndSwap, Versioned,
      CheckVersion, Checked
<1>13. CASE \/ Crypto \/ CryptoFails \/ SetHead \/ WriteFails \/ CatchUpsDone \/ BatchDone
            \/ Crash
  BY <1>1, <1>b, <1>13
  DEF Crypto, CryptoFails, SetHead, Write, WriteFails, CatchUpsDone, BatchDone, Crash
<1>14. ASSUME NEW j \in Jobs, CatchUp(j) \/ Answer(j) \/ AnswerFails(j) \/ \E r \in Requests : Submit(j, r)
       PROVE  ValuesWritten'
  BY <1>2, <1>14 DEF CatchUp, Answer, AnswerFails, Submit
<1>15. CASE UNCHANGED vars
  BY <1>2, <1>15 DEF vars
<1> QED
  BY <1>3, <1>4, <1>5, <1>6, <1>7, <1>8, <1>9, <1>10, <1>11, <1>12, <1>13, <1>14, <1>15
  DEF Next, WorkerStep, ApplyStep

-----------------------------------------------------------------------------
\* No step moves a stored record; what it points to is only ever erased.
LEMMA RecordsKept ==
  ASSUME IndexInv, [Next]_vars, NEW l \in Labels, NEW k \in DOMAIN history[l]
  PROVE  /\ k \in DOMAIN history'[l] /\ history'[l][k] = history[l][k]
         /\ value'[history[l][k].ptr] \in {value[history[l][k].ptr], NoJob}
         /\ opening'[history[l][k].ptr] \in {opening[history[l][k].ptr], NoJob}
         /\ erased' = 0 => /\ erased = 0
                           /\ value'[history[l][k].ptr] = value[history[l][k].ptr]
                           /\ opening'[history[l][k].ptr] = opening[history[l][k].ptr]
<1> USE DEF clientVars, workerVars, applyVars, treeVars, valueVars, storeVars, boundVars
<1>a. /\ TypeInv /\ SlotsApart /\ EraseShape /\ erased \in Nat
      /\ value \in [Ptrs -> Jobs \cup {NoJob}] /\ opening \in [Ptrs -> Jobs \cup {NoJob}]
      /\ history[l][k].ptr \in Ptrs
  <2>1. TypeInv /\ SlotsApart /\ EraseShape
    BY DEF IndexInv, TreeInv, Numbering
  <2>2. history[l] \in Seq(Records)
    BY <2>1, StoreTypes
  <2>3. history[l][k] \in Records
    BY <2>2
  <2>4. history[l][k].ptr \in Ptrs
    BY <2>3 DEF Records
  <2>5. erased \in Nat
    BY <2>1, BoundsAssumption DEF TypeInv, TypeOK
  <2>6. /\ value \in [Ptrs -> Jobs \cup {NoJob}] /\ opening \in [Ptrs -> Jobs \cup {NoJob}]
    BY <2>1 DEF TypeInv, TypeOK
  <2> QED
    BY <2>1, <2>4, <2>5, <2>6
<1> DEFINE p == history[l][k].ptr
<1>1. CASE UNCHANGED <<history, value, opening, erased>>
  BY <1>1
<1>2. ASSUME pc \in Unindexed PROVE \A u \in Updates : u.ptr # p
  <2>1. Ptrs \subseteq Nat
    BY <1>a, StoreTypes
  <2>2. \A u \in Updates : p < u.ptr /\ u.ptr \in Nat
    BY <1>a, <1>2, <2>1, UpdatesType DEF SlotsApart, TypeInv
  <2> QED
    BY <1>a, <2>1, <2>2
<1>3. CASE PutValueBatch
  <2>1. pc \in Unindexed /\ value' = PutBatch(value) /\ UNCHANGED <<history, opening, erased>>
    BY <1>3 DEF PutValueBatch, Write, Unindexed
  <2>2. value'[p] = value[p]
    BY <1>a, <1>2, <2>1, PutBatchAt
  <2> QED
    BY <2>1, <2>2
<1>4. CASE PutOpeningBatch
  <2>1. pc \in Unindexed /\ opening' = PutBatch(opening) /\ UNCHANGED <<history, value, erased>>
    BY <1>4 DEF PutOpeningBatch, Write, Unindexed
  <2>2. opening'[p] = opening[p]
    BY <1>a, <1>2, <2>1, PutBatchAt
  <2> QED
    BY <2>1, <2>2
<1>5. CASE PutHistoryBatch
  <2>1. UNCHANGED <<value, opening, erased>>
    BY <1>5 DEF PutHistoryBatch, Write
  <2>2. k \in DOMAIN history'[l] /\ history'[l][k] = history[l][k]
    BY <1>a, <1>5, HistoryGrows
  <2> QED
    BY <2>1, <2>2
<1>6. ASSUME NEW m \in Labels, NEW i \in 1 .. MaxPtr, EraseValue(m, i)
      PROVE  /\ UNCHANGED <<history, opening>> /\ erased' # 0
             /\ value'[p] \in {value[p], NoJob}
  <2>1. /\ UNCHANGED <<history, opening>> /\ erased' = erased + 1
        /\ value' = [value EXCEPT ![history[m][i].ptr] = NoJob]
    BY <1>6 DEF EraseValue
  <2> QED
    BY <1>a, <2>1
<1>7. CASE EraseOpening
  <2>1. /\ UNCHANGED <<history, value, erased>> /\ erased > 0
        /\ opening' = [opening EXCEPT ![erasing] = NoJob]
    BY <1>a, <1>7 DEF EraseOpening, EraseShape
  <2>2. opening'[p] \in {opening[p], NoJob}
    BY <1>a, <2>1
  <2> QED
    BY <1>a, <2>1, <2>2
<1>8. \/ UNCHANGED <<history, value, opening, erased>>
      \/ PutValueBatch \/ PutOpeningBatch \/ PutHistoryBatch \/ EraseOpening
      \/ \E m \in Labels, i \in 1 .. MaxPtr : EraseValue(m, i)
  BY DEF vars, Next, WorkerStep, ApplyStep, Submit, Receive, Timeout, Lock, AssignVersions,
      HistoryReadFails, CompareAndSwap, AnswerFails, Versioned, Crypto, CryptoFails,
      CheckVersion, Checked, PutPrefixBatch, PutPrefixPtr, SetNextPrefixVersion, BatchAppend,
      PutAuditBlob, SetHead, Write, WriteFails, CatchUp, CatchUpsDone, Answer, BatchDone,
      Crash, Restart
<1> QED
  BY <1>1, <1>3, <1>4, <1>5, <1>6, <1>7, <1>8

\* The record of leaf x, as a search of entry i finds it.
Indexed(x, i) ==
  \E k \in DOMAIN history[x.label] :
    LET h == history[x.label][k]
    IN  /\ h.ver = x.ver
        /\ h.ptr <= prefixPtr[i]
        /\ {value[h.ptr], opening[h.ptr]} \subseteq {x.job, NoJob}
        /\ erased = 0 => value[h.ptr] = x.job /\ opening[h.ptr] = x.job

\* A committed leaf stays indexed.
LEMMA IndexedKept ==
  ASSUME IndexInv, [Next]_vars, NEW i \in 0 .. head - 1, NEW x \in entry[i]
  PROVE  Indexed(x, i)'
<1>1. TypeInv /\ CommittedIsIndexed
  BY DEF IndexInv, TreeInv, Numbering
<1>2. prefixPtr'[i] = prefixPtr[i]
  BY <1>1, AppendStep DEF KeepsLog, vars, storeVars, treeVars
<1>3. x.label \in Labels
  <2>1. entry[i] \in SUBSET Leaves
    BY <1>1, StoreTypes
  <2> QED
    BY <2>1 DEF Leaves
<1>4. PICK k \in DOMAIN history[x.label] :
        /\ history[x.label][k].ver = x.ver
        /\ history[x.label][k].ptr <= prefixPtr[i]
        /\ {value[history[x.label][k].ptr], opening[history[x.label][k].ptr]}
             \subseteq {x.job, NoJob}
        /\ erased = 0 => /\ value[history[x.label][k].ptr] = x.job
                         /\ opening[history[x.label][k].ptr] = x.job
  BY <1>1 DEF CommittedIsIndexed
<1>5. PICK h : h = history[x.label][k]
  OBVIOUS
<1>6. /\ k \in DOMAIN history'[x.label] /\ history'[x.label][k] = h
      /\ value'[h.ptr] \in {value[h.ptr], NoJob}
      /\ opening'[h.ptr] \in {opening[h.ptr], NoJob}
      /\ erased' = 0 => /\ erased = 0 /\ value'[h.ptr] = value[h.ptr]
                        /\ opening'[h.ptr] = opening[h.ptr]
  BY <1>3, <1>5, RecordsKept
<1>7. /\ h.ver = x.ver /\ h.ptr <= prefixPtr'[i]
      /\ {value'[h.ptr], opening'[h.ptr]} \subseteq {x.job, NoJob}
      /\ erased' = 0 => value'[h.ptr] = x.job /\ opening'[h.ptr] = x.job
  BY <1>2, <1>4, <1>5, <1>6
<1> QED
  BY <1>6, <1>7 DEF Indexed

\* set_head publishes leaves that are indexed: old ones by their entry, new ones by this
\* batch.
LEMMA SetHeadIndexed ==
  ASSUME IndexInv, SetHead, NEW x \in entry[head]
  PROVE  Indexed(x, head)
<1>1. /\ TypeInv /\ ProofsMatchLog /\ BatchWritten /\ ValuesWritten /\ CommittedIsIndexed
      /\ pc = "head"
  BY DEF IndexInv, TreeInv, LogMatches, Numbering, SetHead, Write
<1>2. /\ pc \in WriteSteps /\ pc \in Grown /\ pc \in Pointed /\ pc \in Appended
  BY <1>1 DEF WriteSteps, Grown, Pointed, Moved, Appended
<1>3. latest = head /\ head \in Nat /\ final \in Nat
  BY <1>1, <1>2, StoreTypes
<1>4. prefixPtr[head] = final /\ entry[head] = PrevTree(head) \cup AddedLeaves
  <2>1. BaseTree = PrevTree(head)
    BY <1>1, <1>2, <1>3, BaseIsPrev
  <2> QED
    BY <1>1, <1>2, <1>3, <2>1 DEF BatchWritten
<1>5. CASE x \in PrevTree(head)
  <2>1. head # 0 /\ x \in entry[head - 1]
    BY <1>5 DEF PrevTree
  <2>2. head - 1 \in 0 .. head - 1 /\ head > 0
    BY <1>3, <2>1
  <2>3. prefixPtr[head - 1] <= final
    BY <1>1, <1>2, <1>3, <2>2 DEF ValuesWritten
  <2>4. Indexed(x, head - 1)
    BY <1>1, <2>1, <2>2 DEF CommittedIsIndexed, Indexed
  <2>5. PICK k \in DOMAIN history[x.label] :
          /\ history[x.label][k].ver = x.ver
          /\ history[x.label][k].ptr <= prefixPtr[head - 1]
          /\ {value[history[x.label][k].ptr], opening[history[x.label][k].ptr]}
               \subseteq {x.job, NoJob}
          /\ erased = 0 => /\ value[history[x.label][k].ptr] = x.job
                           /\ opening[history[x.label][k].ptr] = x.job
    BY <2>4 DEF Indexed
  <2>6. history[x.label][k].ptr \in Nat /\ prefixPtr[head - 1] \in Nat
    <3>1. x.label \in Labels
      <4>1. entry[head - 1] \in SUBSET Leaves
        BY <1>1, <2>2, StoreTypes
      <4> QED
        BY <2>1, <4>1 DEF Leaves
    <3>2. history[x.label] \in Seq(Records)
      BY <1>1, <3>1, StoreTypes
    <3>3. history[x.label][k] \in Records
      BY <2>5, <3>2
    <3>4. prefixPtr[head - 1] \in Ptrs
      BY <1>1, <2>2, StoreTypes
    <3> QED
      BY <3>3, <3>4, BoundsAssumption DEF Records, Ptrs
  <2>7. history[x.label][k].ptr <= prefixPtr[head]
    BY <1>3, <1>4, <2>3, <2>5, <2>6
  <2> QED
    BY <2>5, <2>7 DEF Indexed
<1>6. CASE x \in AddedLeaves
  <2>1. PICK u \in Updates : x = Leaf(u)
    BY <1>6 DEF AddedLeaves
  <2>2. x.label = u.label /\ x.ver = u.ver /\ x.job = u.job
    BY <2>1 DEF Leaf
  <2>3. u.ptr <= final /\ value[u.ptr] = u.job /\ opening[u.ptr] = u.job
    BY <1>1, <1>2 DEF ValuesWritten
  <2>4. PICK k \in DOMAIN history[u.label] :
          history[u.label][k].ver = u.ver /\ history[u.label][k].ptr = u.ptr
    BY <1>1 DEF ValuesWritten
  <2> QED
    BY <1>4, <2>2, <2>3, <2>4 DEF Indexed
<1> QED
  BY <1>4, <1>5, <1>6

LEMMA IndexedStep == IndexInv /\ [Next]_vars => CommittedIsIndexed'
<1> SUFFICES ASSUME IndexInv, [Next]_vars PROVE CommittedIsIndexed'
  OBVIOUS
<1> USE DEF clientVars, workerVars, applyVars, treeVars, valueVars, storeVars, boundVars
<1>1. TypeInv /\ head \in Nat
  <2>1. TypeInv
    BY DEF IndexInv, TreeInv, Numbering
  <2> QED
    BY <2>1, StoreTypes
<1>2. \A i \in 0 .. head - 1 : entry'[i] = entry[i]
  BY <1>1, AppendStep DEF KeepsLog, vars
<1> SUFFICES ASSUME NEW i \in 0 .. head' - 1, NEW x \in entry'[i] PROVE Indexed(x, i)'
  BY DEF CommittedIsIndexed, Indexed
<1>3. CASE i \in 0 .. head - 1
  BY <1>2, <1>3, IndexedKept
<1>4. CASE i \notin 0 .. head - 1
  <2>1. SetHead
    <3>1. head' # head
      BY <1>4
    <3> QED
      BY <3>1
      DEF vars, Next, WorkerStep, ApplyStep, Submit, Receive, Timeout, Lock, AssignVersions,
          HistoryReadFails, CompareAndSwap, AnswerFails, Versioned, Crypto, CryptoFails,
          CheckVersion, Checked, PutPrefixBatch, PutPrefixPtr, SetNextPrefixVersion,
          BatchAppend, PutAuditBlob, PutValueBatch, PutOpeningBatch, PutHistoryBatch, Write,
          WriteFails, CatchUp, CatchUpsDone, Answer, BatchDone, EraseValue, EraseOpening,
          Crash, Restart
  <2>2. /\ head' = latest + 1 /\ pc \in WriteSteps
        /\ UNCHANGED <<history, prefixPtr, entry, value, opening, erased>>
    BY <2>1 DEF SetHead, Write, WriteSteps
  <2>3. i = head
    <3>1. head' = head + 1
      BY <1>1, <2>2, StoreTypes
    <3> QED
      BY <1>1, <1>4, <3>1
  <2>4. Indexed(x, head)
    BY <2>1, <2>2, <2>3, SetHeadIndexed
  <2> QED
    BY <2>2, <2>3, <2>4 DEF Indexed
<1> QED
  BY <1>3, <1>4

LEMMA InitIndex == Init => IndexInv
<1> SUFFICES ASSUME Init PROVE IndexInv
  OBVIOUS
<1>1. TreeInv
  BY InitTree
<1>2. Updates = {}
  <2>1. \A l \in Labels : valid[l] = <<>>
    BY DEF Init
  <2> QED
    BY <2>1, NoUpdates
<1>3. SlotsApart
  BY <1>2 DEF SlotsApart
<1>4. pc = "idle" /\ erasing = NoVersion /\ head = 0
  BY DEF Init
<1>5. ValuesWritten /\ EraseShape
  BY <1>4 DEF ValuesWritten, EraseShape, Grown, WriteSteps
<1>6. CommittedIsIndexed
  <2>1. 0 .. head - 1 = {}
    BY <1>4
  <2> QED
    BY <2>1 DEF CommittedIsIndexed
<1> QED
  BY <1>1, <1>3, <1>5, <1>6 DEF IndexInv

LEMMA IndexStep == IndexInv /\ [Next]_vars => IndexInv'
  BY TreeStep, ApartStep, ValuesStep, EraseStep, IndexedStep DEF IndexInv

LEMMA IndexInvariant == Spec => []IndexInv
  BY InitIndex, IndexStep, PTL DEF Spec

\* Every committed version is found through the history of its label, under the position
\* its entry covers, with the value and the opening that were committed unless erased.
THEOREM VersionsAreIndexed == Spec => []CommittedIsIndexed
<1>1. IndexInv => CommittedIsIndexed
  BY DEF IndexInv
<1> QED
  BY <1>1, IndexInvariant, PTL

-----------------------------------------------------------------------------
\* The tree of entry i has the version that a history record is about.
Holds(i, l, h) == \E x \in entry[i] : x.label = l /\ x.ver = h.ver

\* A batch writes its updates above the trees that are committed.
AboveLog == pc \in Unindexed => \A u \in Updates : \A i \in 0 .. head - 1 : prefixPtr[i] < u.ptr

\* A history record at a position an entry covers is in the tree of that entry.
CoveredIsCommitted ==
  \A i \in 0 .. head - 1 : \A l \in Labels : \A k \in DOMAIN history[l] :
    history[l][k].ptr <= prefixPtr[i] => Holds(i, l, history[l][k])

\* Every record is in the last tree, but for those set_head is about to publish.
InBatch(l, h) == pc = "head" /\ \E u \in Updates : u.label = l /\ u.ver = h.ver

RecordsCommitted ==
  \A l \in Labels : \A k \in DOMAIN history[l] :
    \/ head > 0 /\ Holds(head - 1, l, history[l][k])
    \/ InBatch(l, history[l][k])

Undisturbed == faults = 0 => up /\ CoveredIsCommitted /\ RecordsCommitted

SearchInv == IndexInv /\ AboveLog /\ Undisturbed

-----------------------------------------------------------------------------
\* The positions that the check hands out are not in use.
LEMMA AboveStep == SearchInv /\ [Next]_vars => AboveLog'
<1> SUFFICES ASSUME SearchInv, [Next]_vars PROVE AboveLog'
  OBVIOUS
<1> USE DEF clientVars, workerVars, applyVars, treeVars, valueVars, storeVars, boundVars
<1>a. /\ TypeInv /\ PtrsBelow /\ AboveLog
  BY DEF SearchInv, IndexInv, TreeInv, Numbering, LogMatches
<1>b. \A i \in 0 .. head - 1 : prefixPtr'[i] = prefixPtr[i]
  BY <1>a, AppendStep DEF KeepsLog, vars
<1>1. CASE /\ UNCHANGED <<valid, head>>
           /\ pc' \in Unindexed => pc \in Unindexed
  BY <1>a, <1>b, <1>1, UpdatesFrame DEF AboveLog
<1>2. CASE Updates' = {}
  BY <1>2 DEF AboveLog
<1>3. CASE CheckVersion
  <2>1. /\ pc \in Unindexed /\ UNCHANGED <<head, prefixPtr>>
        /\ nextPrefix \in Nat /\ alloc \in Nat
    BY <1>3, <1>a, StoreTypes DEF CheckVersion, Unindexed, Uncounted
  <2>2. ASSUME NEW i \in 0 .. head - 1 PROVE prefixPtr[i] < nextPrefix + alloc
    <3>1. prefixPtr[i] \in Nat /\ prefixPtr[i] < nextPrefix
      BY <1>a, StoreTypes DEF PtrsBelow
    <3> QED
      BY <2>1, <3>1
  <2>3. \A u \in Updates' : u \in Updates \/ u.ptr = nextPrefix + alloc
    BY <1>a, <1>3, CheckAdds
  <2> QED
    BY <1>a, <2>1, <2>2, <2>3 DEF AboveLog
<1>4. CASE PutHistoryBatch \/ SetHead
  BY <1>4 DEF PutHistoryBatch, SetHead, Write, AboveLog, Unindexed, Uncounted
<1>5. CASE Crypto
  <2>1. valid' = valid /\ \A l \in Labels : valid[l] = <<>>
    BY <1>a, <1>5 DEF Crypto, TypeInv, BatchShape
  <2> QED
    BY <1>2, <2>1, NoUpdates, UpdatesFrame
<1>6. CASE BatchDone \/ Crash
  <2>1. \A l \in Labels : valid'[l] = <<>>
    BY <1>6 DEF BatchDone, Crash, ForgetBatch
  <2>2. Updates' = {}
    BY <2>1 DEF Updates
  <2> QED
    BY <1>2, <2>2
<1>7. CASE \/ Receive \/ Timeout \/ Lock \/ AssignVersions \/ HistoryReadFails \/ Versioned
           \/ CryptoFails \/ Checked \/ WriteFails \/ CatchUpsDone
  BY <1>1, <1>7
  DEF Receive, Timeout, Lock, AssignVersions, HistoryReadFails, CompareAndSwap, Versioned,
      CryptoFails, Checked, WriteFails, CatchUpsDone, Unindexed, Uncounted
<1>8. CASE \/ PutPrefixBatch \/ PutPrefixPtr \/ SetNextPrefixVersion \/ BatchAppend
           \/ PutAuditBlob \/ PutValueBatch \/ PutOpeningBatch
  BY <1>1, <1>8
  DEF PutPrefixBatch, PutPrefixPtr, SetNextPrefixVersion, BatchAppend, PutAuditBlob,
      PutValueBatch, PutOpeningBatch, Write, Unindexed, Uncounted
<1>9. CASE EraseOpening \/ Restart \/ UNCHANGED vars
  BY <1>1, <1>9 DEF EraseOpening, Restart, vars
<1>10. ASSUME NEW j \in Jobs, CatchUp(j) \/ Answer(j) \/ AnswerFails(j) \/ \E r \in Requests : Submit(j, r)
       PROVE  AboveLog'
  BY <1>1, <1>10 DEF CatchUp, Answer, AnswerFails, Submit
<1>11. ASSUME NEW l \in Labels, NEW k \in 1 .. MaxPtr, EraseValue(l, k) PROVE AboveLog'
  BY <1>1, <1>11 DEF EraseValue
<1> QED
  BY <1>3, <1>4, <1>5, <1>6, <1>7, <1>8, <1>9, <1>10, <1>11 DEF Next, WorkerStep, ApplyStep

-----------------------------------------------------------------------------
\* put_history_batch adds records of this batch only.
LEMMA NewRecordsAreUpdates ==
  ASSUME TypeInv, PutHistoryBatch, NEW l \in Labels, NEW k \in DOMAIN history'[l]
  PROVE  \/ k \in DOMAIN history[l] /\ history'[l][k] = history[l][k]
         \/ \E u \in Updates : /\ u.label = l /\ u.ver = history'[l][k].ver
                               /\ u.ptr = history'[l][k].ptr
<1>1. PICK h, t : h = history[l] /\ t = NewRecords(l)
  OBVIOUS
<1>2. /\ h \in Seq(Records) /\ t \in Seq(Records) /\ history'[l] = h \o t
      /\ valid[l] \in Seq(Slots) /\ DOMAIN t = 1 .. Len(valid[l])
  <2>1. NewRecords(l) \in Seq(Records)
    BY NewRecordsType DEF TypeInv
  <2> QED
    BY <1>1, <2>1, StoreTypes DEF PutHistoryBatch, NewRecords
<1>3. /\ k \in 1 .. Len(h) + Len(t) /\ k \in DOMAIN (h \o t)
      /\ Len(h) \in Nat /\ Len(t) \in Nat /\ DOMAIN h = 1 .. Len(h) /\ DOMAIN t = 1 .. Len(t)
  BY <1>2, ConcatSeq
<1>4. CASE k <= Len(h)
  <2>1. (h \o t)[k] = h[k] /\ k \in DOMAIN h
    BY <1>2, <1>3, <1>4, ConcatSeq
  <2> QED
    BY <1>1, <1>2, <2>1
<1>5. CASE ~(k <= Len(h))
  <2>1. PICK n : n = k - Len(h)
    OBVIOUS
  <2>2. n \in DOMAIN t /\ n \in DOMAIN valid[l]
    BY <1>2, <1>3, <1>5, <2>1
  <2>3. history'[l][k] = t[n]
    BY <1>2, <1>3, <1>5, <2>1, ConcatSeq
  <2>4. PICK u : u = [label |-> l, ver |-> valid[l][n].ver, ptr |-> valid[l][n].ptr,
                      job |-> valid[l][n].job]
    OBVIOUS
  <2>5. u \in Updates
    BY <2>2, <2>4 DEF Updates
  <2>6. t[n].ver = u.ver /\ t[n].ptr = u.ptr /\ u.label = l
    BY <1>1, <1>2, <2>2, <2>4 DEF NewRecords
  <2> QED
    BY <2>3, <2>5, <2>6
<1> QED
  BY <1>3, <1>4, <1>5

\* A step that changes neither history nor head, nor a committed entry.
LEMMA UndisturbedFrame ==
  ASSUME TypeInv, [Next]_vars, Undisturbed, UNCHANGED <<history, head>>,
         faults' = 0 => faults = 0 /\ up',
         faults' = 0 /\ pc = "head" => pc' = "head" /\ valid' = valid
  PROVE  Undisturbed'
<1> SUFFICES ASSUME faults' = 0 PROVE (up /\ CoveredIsCommitted /\ RecordsCommitted)'
  BY DEF Undisturbed
<1>1. up' /\ CoveredIsCommitted /\ RecordsCommitted /\ head \in Nat
  BY StoreTypes DEF Undisturbed
<1>2. \A i \in 0 .. head - 1 : prefixPtr'[i] = prefixPtr[i] /\ entry'[i] = entry[i]
  BY AppendStep DEF KeepsLog, vars, storeVars, treeVars
<1>3. \A i \in 0 .. head - 1 : \A l, h : Holds(i, l, h) => Holds(i, l, h)'
  BY <1>2 DEF Holds
<1>4. CoveredIsCommitted'
  BY <1>1, <1>2, <1>3 DEF CoveredIsCommitted, Holds
<1>5. RecordsCommitted'
  <2> SUFFICES ASSUME NEW l \in Labels, NEW k \in DOMAIN history[l]
               PROVE  \/ head > 0 /\ Holds(head - 1, l, history[l][k])'
                      \/ InBatch(l, history[l][k])'
    BY DEF RecordsCommitted, Holds, InBatch
  <2>1. CASE head > 0 /\ Holds(head - 1, l, history[l][k])
    <3>1. head - 1 \in 0 .. head - 1
      BY <1>1, <2>1
    <3> QED
      BY <1>2, <2>1, <3>1 DEF Holds
  <2>2. CASE InBatch(l, history[l][k])
    BY <2>2, UpdatesFrame DEF InBatch
  <2> QED
    BY <1>1, <2>1, <2>2 DEF RecordsCommitted
<1> QED
  BY <1>1, <1>4, <1>5

\* set_head publishes every record that was not yet in a tree.
LEMMA SetHeadPublishes ==
  ASSUME SearchInv, SetHead, faults = 0, NEW l \in Labels, NEW k \in DOMAIN history[l]
  PROVE  Holds(head, l, history[l][k])
<1>1. /\ TypeInv /\ ProofsMatchLog /\ BatchWritten /\ RecordsCommitted /\ pc = "head"
  BY DEF SearchInv, IndexInv, TreeInv, LogMatches, Numbering, Undisturbed, SetHead, Write
<1>2. pc \in WriteSteps /\ pc \in Grown /\ pc \in Appended
  BY <1>1 DEF WriteSteps, Grown, Pointed, Moved, Appended
<1>3. latest = head /\ head \in Nat
  BY <1>1, <1>2, StoreTypes
<1>4. entry[head] = PrevTree(head) \cup AddedLeaves
  <2>1. BaseTree = PrevTree(head)
    BY <1>1, <1>2, <1>3, BaseIsPrev
  <2> QED
    BY <1>1, <1>2, <1>3, <2>1 DEF BatchWritten
<1>5. CASE head > 0 /\ Holds(head - 1, l, history[l][k])
  <2>1. PICK x \in entry[head - 1] : x.label = l /\ x.ver = history[l][k].ver
    BY <1>5 DEF Holds
  <2>2. x \in PrevTree(head)
    BY <1>3, <1>5, <2>1 DEF PrevTree
  <2> QED
    BY <1>4, <2>1, <2>2 DEF Holds
<1>6. CASE InBatch(l, history[l][k])
  <2>1. PICK u \in Updates : u.label = l /\ u.ver = history[l][k].ver
    BY <1>6 DEF InBatch
  <2>2. Leaf(u) \in AddedLeaves /\ Leaf(u).label = l /\ Leaf(u).ver = history[l][k].ver
    BY <2>1 DEF AddedLeaves, Leaf
  <2> QED
    BY <1>4, <2>2 DEF Holds
<1> QED
  BY <1>1, <1>5, <1>6 DEF RecordsCommitted

LEMMA SetHeadUndisturbed ==
  ASSUME SearchInv, SetHead, [Next]_vars
  PROVE  Undisturbed'
<1>1. /\ TypeInv /\ Undisturbed /\ UNCHANGED <<history, entry, prefixPtr, faults, up>>
      /\ pc = "head" /\ pc' = "catchup" /\ head' = latest + 1
  BY DEF SearchInv, IndexInv, TreeInv, Numbering, SetHead, Write, treeVars, boundVars
<1>2. latest = head /\ head \in Nat /\ head' - 1 = head /\ head' > 0
  <2>1. latest = head /\ head \in Nat
    <3>1. pc \in WriteSteps
      BY <1>1 DEF WriteSteps
    <3> QED
      BY <1>1, <3>1, StoreTypes
  <2> QED
    BY <1>1, <2>1
<1> SUFFICES ASSUME faults = 0 PROVE (up /\ CoveredIsCommitted /\ RecordsCommitted)'
  BY <1>1 DEF Undisturbed
<1>3. \A l \in Labels : \A k \in DOMAIN history[l] : Holds(head, l, history[l][k])
  BY SetHeadPublishes
<1>4. \A i \in 0 .. head' - 1 : i \in 0 .. head - 1 \/ i = head
  BY <1>2
<1>5. up /\ CoveredIsCommitted
  BY <1>1 DEF Undisturbed
<1>6. \A i, l, h : Holds(i, l, h)' = Holds(i, l, h)
  BY <1>1 DEF Holds
<1>7. CoveredIsCommitted'
  BY <1>1, <1>3, <1>4, <1>5 DEF CoveredIsCommitted, Holds
<1>8. RecordsCommitted'
  BY <1>1, <1>2, <1>3 DEF RecordsCommitted, Holds
<1> QED
  BY <1>1, <1>5, <1>7, <1>8

\* The records put_history_batch adds lie above every committed tree.
LEMMA PutHistoryUndisturbed ==
  ASSUME SearchInv, PutHistoryBatch
  PROVE  Undisturbed'
<1>1. /\ TypeInv /\ TypeInv' /\ Undisturbed /\ AboveLog
      /\ UNCHANGED <<head, entry, prefixPtr, faults, up, valid>>
      /\ pc = "history" /\ pc' = "head"
  <2>1. TypeInv /\ [Next]_vars
    BY DEF SearchInv, IndexInv, TreeInv, Numbering, Next, WorkerStep, ApplyStep
  <2>2. TypeInv'
    BY <2>1, TypeStep
  <2> QED
    BY <2>1, <2>2 DEF SearchInv, PutHistoryBatch, Write, treeVars, boundVars, applyVars
<1> SUFFICES ASSUME faults = 0 PROVE (up /\ CoveredIsCommitted /\ RecordsCommitted)'
  BY <1>1 DEF Undisturbed
<1>2. up /\ CoveredIsCommitted /\ RecordsCommitted
  BY DEF SearchInv, Undisturbed
<1>3. ASSUME NEW l \in Labels, NEW k \in DOMAIN history'[l]
      PROVE  \/ k \in DOMAIN history[l] /\ history'[l][k] = history[l][k]
             \/ \E u \in Updates : /\ u.label = l /\ u.ver = history'[l][k].ver
                                   /\ u.ptr = history'[l][k].ptr
  BY <1>1, NewRecordsAreUpdates
<1>4. CoveredIsCommitted'
  <2> SUFFICES ASSUME NEW i \in 0 .. head - 1, NEW l \in Labels, NEW k \in DOMAIN history'[l],
                      history'[l][k].ptr <= prefixPtr[i]
               PROVE  Holds(i, l, history'[l][k])
    BY <1>1 DEF CoveredIsCommitted, Holds
  <2>1. CASE k \in DOMAIN history[l] /\ history'[l][k] = history[l][k]
    BY <1>2, <2>1 DEF CoveredIsCommitted
  <2>2. ASSUME NEW u \in Updates, u.ptr = history'[l][k].ptr PROVE FALSE
    <3>1. u.ptr \in Nat /\ prefixPtr[i] \in Nat
      BY <1>1, UpdatesType, StoreTypes DEF TypeInv
    <3>2. prefixPtr[i] < u.ptr
      BY <1>1 DEF AboveLog, Unindexed
    <3> QED
      BY <2>2, <3>1, <3>2
  <2> QED
    BY <1>3, <2>1, <2>2
<1>5. RecordsCommitted'
  <2> SUFFICES ASSUME NEW l \in Labels, NEW k \in DOMAIN history'[l]
               PROVE  \/ head > 0 /\ Holds(head - 1, l, history'[l][k])
                      \/ \E u \in Updates : u.label = l /\ u.ver = history'[l][k].ver
    BY <1>1, UpdatesFrame DEF RecordsCommitted, InBatch, Holds
  <2>1. CASE k \in DOMAIN history[l] /\ history'[l][k] = history[l][k]
    BY <1>1, <1>2, <2>1 DEF RecordsCommitted, InBatch
  <2> QED
    BY <1>3, <2>1
<1> QED
  BY <1>1, <1>2, <1>4, <1>5

LEMMA UndisturbedStep == SearchInv /\ [Next]_vars => Undisturbed'
<1> SUFFICES ASSUME SearchInv, [Next]_vars PROVE Undisturbed'
  OBVIOUS
<1> USE DEF clientVars, workerVars, applyVars, treeVars, valueVars, storeVars, boundVars
<1>a. TypeInv /\ Undisturbed
  BY DEF SearchInv, IndexInv, TreeInv, Numbering
<1>b. faults \in Nat /\ (faults = 0 => up)
  BY <1>a, BoundsAssumption DEF TypeInv, TypeOK, Undisturbed
<1>1. CASE UNCHANGED <<history, head, faults, up>> /\ (pc = "head" => pc' = "head" /\ valid' = valid)
  BY <1>a, <1>b, <1>1, UndisturbedFrame
<1>2. CASE faults' = faults + 1
  BY <1>b, <1>2 DEF Undisturbed
<1>3. CASE HistoryReadFails \/ CryptoFails \/ WriteFails \/ Crash
  BY <1>2, <1>3 DEF HistoryReadFails, CryptoFails, WriteFails, Crash
<1>4. CASE Restart
  <2>1. faults # 0 /\ faults' = faults
    BY <1>b, <1>4 DEF Restart
  <2> QED
    BY <2>1 DEF Undisturbed
<1>5. CASE SetHead
  BY <1>5, SetHeadUndisturbed
<1>6. CASE PutHistoryBatch
  BY <1>6, PutHistoryUndisturbed
<1>7. CASE \/ Receive \/ Timeout \/ Lock \/ AssignVersions \/ Versioned \/ Crypto
           \/ CheckVersion \/ Checked \/ CatchUpsDone \/ BatchDone
  BY <1>1, <1>7
  DEF Receive, Timeout, Lock, AssignVersions, CompareAndSwap, Versioned, Crypto, CheckVersion,
      Checked, CatchUpsDone, BatchDone
<1>8. CASE \/ PutPrefixBatch \/ PutPrefixPtr \/ SetNextPrefixVersion \/ BatchAppend
           \/ PutAuditBlob \/ PutValueBatch \/ PutOpeningBatch
  BY <1>1, <1>8
  DEF PutPrefixBatch, PutPrefixPtr, SetNextPrefixVersion, BatchAppend, PutAuditBlob,
      PutValueBatch, PutOpeningBatch, Write
<1>9. CASE EraseOpening \/ UNCHANGED vars
  BY <1>1, <1>9 DEF EraseOpening, vars
<1>10. ASSUME NEW j \in Jobs, CatchUp(j) \/ Answer(j) \/ \E r \in Requests : Submit(j, r)
       PROVE  Undisturbed'
  BY <1>1, <1>10 DEF CatchUp, Answer, Submit
<1>11. ASSUME NEW j \in Jobs, AnswerFails(j) PROVE Undisturbed'
  BY <1>2, <1>11 DEF AnswerFails
<1>12. ASSUME NEW l \in Labels, NEW k \in 1 .. MaxPtr, EraseValue(l, k) PROVE Undisturbed'
  BY <1>1, <1>12 DEF EraseValue
<1> QED
  BY <1>3, <1>4, <1>5, <1>6, <1>7, <1>8, <1>9, <1>10, <1>11, <1>12
  DEF Next, WorkerStep, ApplyStep

LEMMA InitSearch == Init => SearchInv
<1> SUFFICES ASSUME Init PROVE SearchInv
  OBVIOUS
<1>1. IndexInv
  BY InitIndex
<1>2. pc = "idle" /\ head = 0 /\ up = TRUE /\ \A l \in Labels : history[l] = <<>>
  BY DEF Init
<1>3. 0 .. head - 1 = {}
  BY <1>2
<1>4. AboveLog /\ CoveredIsCommitted
  BY <1>3 DEF AboveLog, CoveredIsCommitted
<1>5. RecordsCommitted
  <2>1. ASSUME NEW l \in Labels PROVE DOMAIN history[l] = {}
    <3>1. history[l] \in Seq(Records) /\ Len(history[l]) = 0
      BY <1>1, <1>2, StoreTypes DEF IndexInv, TreeInv, Numbering
    <3> QED
      BY <3>1
  <2> QED
    BY <2>1 DEF RecordsCommitted
<1> QED
  BY <1>1, <1>2, <1>4, <1>5 DEF SearchInv, Undisturbed

-----------------------------------------------------------------------------
\* A bounded set of numbers has a greatest element.
LEMMA GreatestElement ==
  ASSUME NEW S \in SUBSET Nat, S # {}, NEW bound \in Nat, \A w \in S : w <= bound
  PROVE  \E m \in S : \A w \in S : w <= m
<1> DEFINE Above == {n \in Nat : \A w \in S : w <= n}
<1>1. Above \subseteq Nat /\ Above # {}
  <2>1. bound \in Above
    OBVIOUS
  <2> QED
    BY <2>1
<1>2. PICK m \in Above : \A n \in Above : ~(<<n, m>> \in OpToRel(<, Nat))
  <2> HIDE DEF Above
  <2> QED
    BY <1>1, NatLessThanWellFounded, WFMin
<1>3. m \in Nat /\ \A w \in S : w <= m
  OBVIOUS
<1>4. ASSUME m \notin S PROVE FALSE
  <2>1. PICK w \in S : TRUE
    OBVIOUS
  <2>2. m - 1 \in Nat
    BY <1>3, <1>4, <2>1
  <2>3. \A v \in S : v <= m - 1
    BY <1>3, <1>4
  <2>4. m - 1 \in Above
    BY <2>2, <2>3
  <2>5. <<m - 1, m>> \in OpToRel(<, Nat)
    BY <1>3, <2>2 DEF OpToRel
  <2> QED
    BY <1>2, <2>4, <2>5
<1> QED
  BY <1>3, <1>4

\* What get_max_version_at counts is 0 .. its result.
LEMMA SeenIsInitial ==
  ASSUME TypeInv, HistoryContiguous, NEW l \in Labels, NEW i \in 0 .. head - 1
  PROVE  {history[l][k].ver : k \in {k \in DOMAIN history[l] :
                                       history[l][k].ptr <= prefixPtr[i]}} = 0 .. MaxVersionAt(l, i)
<1> DEFINE covered == {k \in DOMAIN history[l] : history[l][k].ptr <= prefixPtr[i]}
           seen == {history[l][k].ver : k \in covered}
<1> SUFFICES seen = 0 .. MaxVersionAt(l, i)
  OBVIOUS
<1>1. /\ history[l] \in Seq(Records) /\ DOMAIN history[l] = 1 .. Len(history[l])
      /\ Len(history[l]) \in Nat /\ prefixPtr[i] \in Nat
  <2>1. history[l] \in Seq(Records) /\ prefixPtr \in [Indices -> Ptrs] /\ i \in Indices
        /\ Ptrs \subseteq Nat
    BY StoreTypes
  <2>2. prefixPtr[i] \in Nat
    BY <2>1
  <2>3. DOMAIN history[l] = 1 .. Len(history[l]) /\ Len(history[l]) \in Nat
    BY <2>1
  <2> QED
    BY <2>1, <2>2, <2>3
<1>2. \A k \in DOMAIN history[l] : history[l][k].ver = k - 1 /\ history[l][k].ptr \in Nat
  <2>1. \A k \in DOMAIN history[l] : history[l][k] \in Records
    BY <1>1
  <2>2. \A k \in DOMAIN history[l] : history[l][k].ptr \in Nat
    BY <2>1, BoundsAssumption DEF Records, Ptrs
  <2> QED
    BY <2>2 DEF HistoryContiguous
<1>3. seen \in SUBSET Nat /\ \A w \in seen : w <= Len(history[l])
  BY <1>1, <1>2
<1>4. MaxVersionAt(l, i) = IF seen = {} THEN NoVersion ELSE CHOOSE v \in seen : \A w \in seen : w <= v
  BY DEF MaxVersionAt
<1>5. CASE seen = {}
  <2>1. MaxVersionAt(l, i) = -1
    BY <1>4, <1>5 DEF NoVersion
  <2>2. 0 .. -1 = {}
    OBVIOUS
  <2> QED
    BY <1>5, <2>1, <2>2
<1>6. CASE seen # {}
  <2> HIDE DEF seen
  <2>1. PICK m \in seen : \A w \in seen : w <= m
    BY <1>1, <1>3, <1>6, GreatestElement
  <2>2. PICK v : v = MaxVersionAt(l, i)
    OBVIOUS
  <2>3. v \in seen /\ \A w \in seen : w <= v
    BY <1>4, <1>6, <2>1, <2>2
  <2>4. seen \subseteq 0 .. v
    BY <1>3, <2>3
  <2>5. ASSUME NEW n \in 0 .. v PROVE n \in seen
    <3>1. PICK k \in covered : v = history[l][k].ver
      BY <2>3 DEF seen
    <3>2. n + 1 \in DOMAIN history[l] /\ n + 1 <= k
      BY <1>1, <1>2, <3>1
    <3>3. n + 1 = k \/ history[l][n + 1].ptr < history[l][k].ptr
      <4>1. k \in DOMAIN history[l] /\ k \in Nat /\ n \in Nat
        BY <1>1, <1>3, <2>3, <3>1
      <4>2. n + 1 = k \/ n + 1 \in 1 .. k - 1
        BY <3>2, <4>1
      <4> QED
        BY <4>1, <4>2 DEF HistoryContiguous
    <3>4. n + 1 \in covered
      <4>1. k \in DOMAIN history[l] /\ history[l][k].ptr <= prefixPtr[i]
        BY <3>1
      <4>2. history[l][n + 1].ptr \in Nat /\ history[l][k].ptr \in Nat /\ prefixPtr[i] \in Nat
        BY <1>1, <1>2, <3>2, <4>1
      <4>3. history[l][n + 1].ptr <= history[l][k].ptr
        BY <3>3, <4>2
      <4>4. history[l][n + 1].ptr <= prefixPtr[i]
        BY <4>1, <4>2, <4>3
      <4> QED
        BY <3>2, <4>4
    <3>5. history[l][n + 1].ver = n
      BY <1>2, <3>2
    <3> QED
      BY <3>4, <3>5 DEF seen
  <2> QED
    BY <2>2, <2>4, <2>5
<1> QED
  BY <1>5, <1>6

LEMMA SearchStep == SearchInv /\ [Next]_vars => SearchInv'
  BY IndexStep, AboveStep, UndisturbedStep DEF SearchInv

\* Until an access to the store fails or the process dies, a search derives the versions of
\* every label in every entry exactly as the prefix tree of that entry has them, erasures
\* included.
THEOREM SearchesAgree == Spec => [](faults = 0 => SearchSeesTree)
<1>1. Spec => []SearchInv
  BY SearchStep, InitSearch, PTL DEF Spec
<1>2. SearchInv => (faults = 0 => SearchSeesTree)
  <2> SUFFICES ASSUME SearchInv, faults = 0, Readable, NEW l \in Labels,
                      NEW i \in 0 .. latest - 1
               PROVE  {x.ver : x \in {y \in entry[i] : y.label = l}} = 0 .. MaxVersionAt(l, i)
    BY DEF SearchSeesTree
  <2>1. TypeInv /\ HistoryContiguous /\ CommittedIsIndexed /\ CoveredIsCommitted /\ up
    BY DEF SearchInv, IndexInv, TreeInv, Numbering, Undisturbed
  <2>2. i \in 0 .. head - 1
    BY <2>1 DEF TypeInv, HeadLoaded
  <2> DEFINE seen == {history[l][k].ver : k \in {k \in DOMAIN history[l] :
                                                history[l][k].ptr <= prefixPtr[i]}}
  <2>3. ASSUME NEW x \in entry[i], x.label = l PROVE x.ver \in seen
    BY <2>1, <2>2, <2>3 DEF CommittedIsIndexed
  <2>4. ASSUME NEW k \in DOMAIN history[l], history[l][k].ptr <= prefixPtr[i]
        PROVE  \E x \in entry[i] : x.label = l /\ x.ver = history[l][k].ver
    BY <2>1, <2>2, <2>4 DEF CoveredIsCommitted, Holds
  <2>5. {x.ver : x \in {y \in entry[i] : y.label = l}} = seen
    BY <2>3, <2>4
  <2>6. seen = 0 .. MaxVersionAt(l, i)
    BY <2>1, <2>2, SeenIsInitial
  <2> QED
    BY <2>5, <2>6
<1> QED
  BY <1>1, <1>2, PTL

-----------------------------------------------------------------------------
Bounds == Indices \X Indices

\* One round of the loop of find_log_entry_for_prefix_pos, with f for the rounds to come.
Halve(f, b, pos) ==
  LET lo  == b[1]
      hi  == b[2]
      mid == lo + ((hi - lo) \div 2)
  IN  IF lo >= hi THEN lo
      ELSE IF prefixPtr[mid] >= pos THEN f[<<lo, mid>>] ELSE f[<<mid + 1, hi>>]

\* The bounds that are less than n apart.
Within(n) == {b \in Bounds : b[2] - b[1] < n}

\* A halved interval is a shorter one.
LEMMA HalvesAreShorter ==
  ASSUME NEW b \in Bounds, b[1] < b[2], NEW mid, mid = b[1] + ((b[2] - b[1]) \div 2)
  PROVE  /\ mid \in b[1] .. b[2] - 1 /\ mid \in Indices
         /\ <<b[1], mid>> \in Bounds /\ <<mid + 1, b[2]>> \in Bounds
         /\ mid - b[1] < b[2] - b[1] /\ b[2] - (mid + 1) < b[2] - b[1]
         /\ mid - b[1] \in Nat /\ b[2] - (mid + 1) \in Nat
<1>1. b[1] \in Indices /\ b[2] \in Indices /\ Indices = 0 .. MaxSize - 1 /\ MaxSize \in Nat
  BY BoundsAssumption DEF Bounds, Indices
<1>2. b[1] \in Nat /\ b[2] \in Nat
  BY <1>1
<1>3. mid \in b[1] .. b[2] - 1
  BY <1>2
<1>4. mid \in Indices /\ mid + 1 \in Indices
  BY <1>1, <1>2, <1>3
<1> QED
  BY <1>1, <1>2, <1>3, <1>4, SMTT(30) DEF Bounds

\* The least natural number in a set.
LEMMA LeastElement ==
  ASSUME NEW S \in SUBSET Nat, S # {}
  PROVE  \E m \in S : \A n \in Nat : n < m => n \notin S
<1>1. PICK m \in S : \A n \in S : ~(<<n, m>> \in OpToRel(<, Nat))
  BY NatLessThanWellFounded, WFMin
<1>2. ASSUME NEW n \in Nat, n < m, n \in S PROVE FALSE
  BY <1>1, <1>2 DEF OpToRel
<1> QED
  BY <1>2

\* The search is defined on all bounds, as it is on the bounds less than n apart for
\* every n.
LEMMA SearchDefined ==
  ASSUME NEW pos
  PROVE  \E f : f = [b \in Bounds |-> Halve(f, b, pos)]
<1> DEFINE Undefined == {n \in Nat : ~\E f : f = [b \in Within(n) |-> Halve(f, b, pos)]}
<1>1. ASSUME Undefined # {} PROVE FALSE
  <2>1. PICK n \in Undefined : \A m \in Nat : m < n => m \notin Undefined
    <3>1. Undefined \in SUBSET Nat
      OBVIOUS
    <3> HIDE DEF Undefined
    <3> QED
      BY <1>1, <3>1, LeastElement
  <2>2. n \in Nat /\ ~\E f : f = [b \in Within(n) |-> Halve(f, b, pos)]
    OBVIOUS
  <2>3. CASE n = 0
    <3>1. \A b \in Within(n) : b[1] \in Int /\ b[2] \in Int /\ b[1] >= b[2]
      BY <2>3, BoundsAssumption DEF Within, Bounds, Indices
    <3>2. PICK f : f = [b \in Within(n) |-> b[1]]
      OBVIOUS
    <3>3. \A b \in Within(n) : Halve(f, b, pos) = b[1]
      BY <3>1 DEF Halve
    <3>4. f = [b \in Within(n) |-> Halve(f, b, pos)]
      BY <3>2, <3>3
    <3> QED
      BY <2>2, <3>4
  <2>4. CASE n # 0
    <3>1. n - 1 \in Nat /\ n - 1 < n
      BY <2>2, <2>4
    <3>2. PICK f : f = [b \in Within(n - 1) |-> Halve(f, b, pos)]
      BY <2>1, <3>1
    <3>3. PICK g : g = [b \in Within(n) |-> IF b \in Within(n - 1) THEN f[b] ELSE Halve(f, b, pos)]
      OBVIOUS
    <3>4. Within(n - 1) \subseteq Within(n)
      BY <2>2, BoundsAssumption DEF Within, Bounds, Indices
    <3>5. \A b \in Within(n - 1) : g[b] = f[b]
      BY <3>3, <3>4
    <3>6. \A b \in Within(n) : g[b] = Halve(f, b, pos)
      BY <3>2, <3>3
    <3>7. ASSUME NEW b \in Within(n) PROVE Halve(f, b, pos) = Halve(g, b, pos)
      <4>1. b \in Bounds /\ b[1] \in Int /\ b[2] \in Int /\ b[2] - b[1] < n
        BY BoundsAssumption DEF Within, Bounds, Indices
      <4>2. CASE b[1] >= b[2]
        BY <4>1, <4>2 DEF Halve
      <4>3. CASE b[1] < b[2]
        <5>1. PICK mid : mid = b[1] + ((b[2] - b[1]) \div 2)
          OBVIOUS
        <5>2. /\ <<b[1], mid>> \in Bounds /\ <<mid + 1, b[2]>> \in Bounds
              /\ mid - b[1] < b[2] - b[1] /\ b[2] - (mid + 1) < b[2] - b[1]
              /\ mid - b[1] \in Nat /\ b[2] - (mid + 1) \in Nat
          BY <4>1, <4>3, <5>1, HalvesAreShorter
        <5>3. mid - b[1] < n - 1 /\ b[2] - (mid + 1) < n - 1
          BY <2>2, <4>1, <5>2
        <5>4. <<b[1], mid>> \in Within(n - 1) /\ <<mid + 1, b[2]>> \in Within(n - 1)
          BY <5>2, <5>3 DEF Within
        <5>5. g[<<b[1], mid>>] = f[<<b[1], mid>>] /\ g[<<mid + 1, b[2]>>] = f[<<mid + 1, b[2]>>]
          BY <3>5, <5>4
        <5> QED
          BY <5>1, <5>5 DEF Halve
      <4> QED
        BY <4>1, <4>2, <4>3
    <3>8. \A b \in Within(n) : g[b] = Halve(g, b, pos)
      BY <3>6, <3>7
    <3>9. g = [b \in Within(n) |-> Halve(g, b, pos)]
      BY <3>3, <3>8
    <3> QED
      BY <2>2, <3>9
  <2> QED
    BY <2>3, <2>4
<1>2. MaxSize + 1 \in Nat /\ Within(MaxSize + 1) = Bounds
  BY BoundsAssumption DEF Within, Bounds, Indices
<1>3. MaxSize + 1 \notin Undefined
  BY <1>1
<1> QED
  BY <1>2, <1>3

\* What one round does, for bounds that have met and for bounds that have not.
LEMMA HalveTakesHalf ==
  ASSUME NEW f, NEW pos \in Nat, NEW b \in Bounds, b[1] \in Int, b[2] \in Int
  PROVE  /\ b[1] >= b[2] => Halve(f, b, pos) = b[1]
         /\ \A mid : b[1] < b[2] /\ mid = b[1] + ((b[2] - b[1]) \div 2) =>
              Halve(f, b, pos) = IF prefixPtr[mid] >= pos THEN f[<<b[1], mid>>]
                                                          ELSE f[<<mid + 1, b[2]>>]
  BY DEF Halve

\* The loop keeps the first entry at or above pos between its bounds, and ends there.
LEMMA SearchNarrows ==
  ASSUME NEW pos \in Nat, prefixPtr \in [Indices -> Ptrs], NEW f,
         f = [b \in Bounds |-> Halve(f, b, pos)],
         NEW c \in Bounds, c[1] <= c[2], pos <= prefixPtr[c[2]],
         \A i, k \in 0 .. c[2] : i <= k => prefixPtr[i] <= prefixPtr[k],
         \A i \in 0 .. c[1] - 1 : prefixPtr[i] < pos
  PROVE  /\ f[c] \in c[1] .. c[2] /\ pos <= prefixPtr[f[c]]
         /\ \A i \in 0 .. f[c] - 1 : prefixPtr[i] < pos
<1> DEFINE Sound(b) == /\ f[b] \in b[1] .. b[2] /\ pos <= prefixPtr[f[b]]
                       /\ \A i \in 0 .. f[b] - 1 : prefixPtr[i] < pos
           Fits(b) == /\ b[1] <= b[2] /\ pos <= prefixPtr[b[2]] /\ b[2] <= c[2]
                      /\ \A i \in 0 .. b[1] - 1 : prefixPtr[i] < pos
           Failing == {n \in Nat : \E b \in Bounds : b[2] - b[1] = n /\ Fits(b) /\ ~Sound(b)}
<1>a. /\ Indices = 0 .. MaxSize - 1 /\ MaxSize \in Nat
      /\ \A b \in Bounds : b[1] \in Indices /\ b[2] \in Indices
  BY BoundsAssumption DEF Bounds, Indices
<1>b. /\ \A b \in Bounds : b[1] \in Nat /\ b[2] \in Nat
      /\ \A i \in Indices : prefixPtr[i] \in Nat
  BY <1>a, BoundsAssumption DEF Ptrs
<1>1. ASSUME Failing # {} PROVE FALSE
  <2>1. PICK n \in Failing : \A m \in Nat : m < n => m \notin Failing
    <3>1. Failing \in SUBSET Nat
      OBVIOUS
    <3> HIDE DEF Failing
    <3> QED
      BY <1>1, <3>1, LeastElement
  <2>2. PICK b \in Bounds : b[2] - b[1] = n /\ Fits(b) /\ ~Sound(b)
    OBVIOUS
  <2>3. f[b] = Halve(f, b, pos)
    OBVIOUS
  <2>4. \A d \in Bounds : d[2] - d[1] \in Nat /\ d[2] - d[1] < n /\ Fits(d) => Sound(d)
    <3> SUFFICES ASSUME NEW d \in Bounds, d[2] - d[1] \in Nat, d[2] - d[1] < n, Fits(d), ~Sound(d)
                 PROVE  FALSE
      OBVIOUS
    <3>1. d[2] - d[1] \in Failing
      OBVIOUS
    <3> QED
      BY <2>1, <3>1
  <2>5. CASE b[1] = b[2]
    <3>1. f[b] = b[1]
      BY <1>b, <2>3, <2>5, HalveTakesHalf
    <3> QED
      BY <1>b, <2>2, <2>5, <3>1
  <2>6. CASE b[1] < b[2]
    <3>1. PICK mid : mid = b[1] + ((b[2] - b[1]) \div 2)
      OBVIOUS
    <3>2. /\ mid \in b[1] .. b[2] - 1 /\ mid \in Indices
          /\ <<b[1], mid>> \in Bounds /\ <<mid + 1, b[2]>> \in Bounds
          /\ mid - b[1] < b[2] - b[1] /\ b[2] - (mid + 1) < b[2] - b[1]
          /\ mid - b[1] \in Nat /\ b[2] - (mid + 1) \in Nat
      BY <2>6, <3>1, HalvesAreShorter
    <3>3. CASE prefixPtr[mid] >= pos
      <4>1. PICK d : d = <<b[1], mid>>
        OBVIOUS
      <4>2. d \in Bounds /\ d[1] = b[1] /\ d[2] = mid
        BY <3>2, <4>1
      <4>3. f[b] = f[d]
        <5>1. Halve(f, b, pos) = IF prefixPtr[mid] >= pos THEN f[<<b[1], mid>>]
                                                          ELSE f[<<mid + 1, b[2]>>]
          BY <1>b, <2>6, <3>1, HalveTakesHalf
        <5> HIDE DEF Sound, Fits, Failing
        <5> QED
          BY <2>3, <3>3, <4>1, <5>1
      <4>4. Fits(d)
        BY <1>b, <2>2, <3>2, <3>3, <4>2
      <4>5. Sound(d)
        BY <2>2, <2>4, <3>2, <4>2, <4>4
      <4>6. f[b] \in b[1] .. b[2]
        BY <1>b, <3>2, <4>2, <4>3, <4>5
      <4>7. Sound(b)
        BY <4>3, <4>5, <4>6
      <4> QED
        BY <2>2, <4>7
    <3>4. CASE ~(prefixPtr[mid] >= pos)
      <4>1. PICK d : d = <<mid + 1, b[2]>>
        OBVIOUS
      <4>2. d \in Bounds /\ d[1] = mid + 1 /\ d[2] = b[2]
        BY <3>2, <4>1
      <4>3. f[b] = f[d]
        <5>1. Halve(f, b, pos) = IF prefixPtr[mid] >= pos THEN f[<<b[1], mid>>]
                                                          ELSE f[<<mid + 1, b[2]>>]
          BY <1>b, <2>6, <3>1, HalveTakesHalf
        <5> HIDE DEF Sound, Fits, Failing
        <5> QED
          BY <2>3, <3>4, <4>1, <5>1
      <4>4. \A i \in 0 .. mid : prefixPtr[i] < pos
        <5> SUFFICES ASSUME NEW i \in 0 .. mid PROVE prefixPtr[i] < pos
          OBVIOUS
        <5>1. b[2] <= c[2] /\ b[1] \in Nat /\ b[2] \in Nat /\ c[2] \in Nat
          BY <1>b, <2>2
        <5> HIDE DEF Sound, Fits, Failing
        <5>2. mid \in Nat /\ mid < b[2]
          BY <3>2, <5>1
        <5>3. mid < MaxSize /\ MaxSize \in Nat
          BY <1>a, <3>2
        <5>4. i \in Nat /\ i <= mid
          BY <5>2
        <5>5. mid \in 0 .. c[2] /\ i \in 0 .. c[2] /\ i \in Indices
          BY <1>a, <5>1, <5>2, <5>3, <5>4
        <5>6. prefixPtr[i] <= prefixPtr[mid]
          BY <5>4, <5>5
        <5> QED
          BY <1>b, <3>2, <3>4, <5>5, <5>6
      <4>5. Fits(d)
        <5>1. \A i \in 0 .. d[1] - 1 : prefixPtr[i] < pos
          BY <1>b, <3>2, <4>2, <4>4
        <5>2. d[1] <= d[2]
          BY <1>b, <3>2, <4>2
        <5> QED
          BY <2>2, <4>2, <5>1, <5>2
      <4>6. Sound(d)
        BY <2>2, <2>4, <3>2, <4>2, <4>5
      <4>7. f[b] \in b[1] .. b[2]
        BY <1>b, <3>2, <4>2, <4>3, <4>6
      <4>8. Sound(b)
        BY <4>3, <4>6, <4>7
      <4> QED
        BY <2>2, <4>8
    <3> QED
      BY <3>3, <3>4
  <2> QED
    BY <1>b, <2>2, <2>5, <2>6
<1>2. c[2] - c[1] \in Nat /\ Fits(c)
  BY <1>b
<1>3. Sound(c)
  BY <1>1, <1>2
<1> QED
  BY <1>3

\* find_log_entry_for_prefix_pos finds the first entry whose position is not below pos.
LEMMA SearchFinds ==
  ASSUME NEW pos \in Nat, NEW size \in Nat, size \in 1 .. MaxSize,
         prefixPtr \in [Indices -> Ptrs],
         \A i, k \in 0 .. size - 1 : i <= k => prefixPtr[i] <= prefixPtr[k],
         pos <= prefixPtr[size - 1]
  PROVE  /\ FindLogEntry(pos, size) \in 0 .. size - 1
         /\ pos <= prefixPtr[FindLogEntry(pos, size)]
         /\ \A i \in 0 .. FindLogEntry(pos, size) - 1 : prefixPtr[i] < pos
<1>1. PICK s : s = CHOOSE f : f = [b \in Bounds |-> Halve(f, b, pos)]
  OBVIOUS
<1>2. s = [b \in Bounds |-> Halve(s, b, pos)]
  BY <1>1, SearchDefined
<1>3. FindLogEntry(pos, size) = s[<<0, size - 1>>]
  BY <1>1 DEF FindLogEntry, Halve, Bounds
<1>4. PICK c : c = <<0, size - 1>>
  OBVIOUS
<1>5. c \in Bounds /\ c[1] = 0 /\ c[2] = size - 1
  BY <1>4, BoundsAssumption DEF Bounds, Indices
<1>6. /\ c[1] <= c[2] /\ pos <= prefixPtr[c[2]]
      /\ \A i, k \in 0 .. c[2] : i <= k => prefixPtr[i] <= prefixPtr[k]
      /\ \A i \in 0 .. c[1] - 1 : prefixPtr[i] < pos
  BY <1>5
<1>7. /\ s[c] \in c[1] .. c[2] /\ pos <= prefixPtr[s[c]]
      /\ \A i \in 0 .. s[c] - 1 : prefixPtr[i] < pos
  BY <1>2, <1>5, <1>6, SearchNarrows
<1> QED
  BY <1>3, <1>4, <1>5, <1>7

-----------------------------------------------------------------------------
\* The entries below the stored head end at positions that never decrease.
PtrsAscend == \A i, k \in 0 .. head - 1 : i <= k => prefixPtr[i] <= prefixPtr[k]

\* Only submitted jobs wait for a catch-up.
CatchUpsAsked == \A j \in catchups : req[j] \in Requests

\* The versions that entry i added to the label of request r, above the advertised one.
NewIn(r, i) ==
  {x \in entry[i] \ PrevTree(i) : x.label = r.label /\ x.ver > r.greatest}

\* What a job that was caught up was told.
Told(j) ==
  /\ req[j] \in Requests
  /\ reply[j].pos \in 0 .. head - 1
  /\ reply[j].values = {[ver |-> x.ver, job |-> x.job] : x \in NewIn(req[j], reply[j].pos)}
  /\ \E v \in reply[j].values : v.ver = req[j].greatest + 1

CatchUpsTold == \A j \in Jobs : reply[j].kind = "catchup" => Told(j)

CatchUpInv == SearchInv /\ PtrsAscend /\ CatchUpsAsked /\ (faults = 0 => CatchUpsTold)

\* A batch ends at the last of its new positions, above those of every entry.
LEMMA AscendStep == SearchInv /\ PtrsAscend /\ [Next]_vars => PtrsAscend'
<1> SUFFICES ASSUME SearchInv, PtrsAscend, [Next]_vars PROVE PtrsAscend'
  OBVIOUS
<1> USE DEF clientVars, workerVars, applyVars, treeVars, valueVars, storeVars, boundVars
<1>a. TypeInv /\ ValuesWritten /\ BatchWritten
  BY DEF SearchInv, IndexInv, TreeInv, Numbering
<1>b. \A i \in 0 .. head - 1 : prefixPtr'[i] = prefixPtr[i]
  BY <1>a, AppendStep DEF KeepsLog, vars
<1>1. CASE head' = head
  BY <1>b, <1>1 DEF PtrsAscend
<1>2. CASE SetHead
  <2>1. /\ pc = "head" /\ pc \in WriteSteps /\ pc \in Grown /\ pc \in Pointed
        /\ head' = latest + 1 /\ prefixPtr' = prefixPtr
    BY <1>2 DEF SetHead, Write, WriteSteps, Grown, Pointed, Moved, Appended
  <2>2. latest = head /\ head \in Nat /\ \A i \in 0 .. head : prefixPtr[i] \in Nat
    <3>1. /\ latest = head /\ head \in Nat /\ latest \in Indices
          /\ prefixPtr \in [Indices -> Ptrs] /\ Ptrs \subseteq Nat
          /\ \A i \in 0 .. head - 1 : i \in Indices
      BY <1>a, <2>1, StoreTypes
    <3>2. \A i \in 0 .. head : i = head \/ i \in 0 .. head - 1
      BY <3>1
    <3> QED
      BY <3>1, <3>2
  <2>3. prefixPtr[head] = final /\ (head > 0 => prefixPtr[head - 1] <= final)
    BY <1>a, <2>1, <2>2 DEF BatchWritten, ValuesWritten
  <2>4. ASSUME NEW i \in 0 .. head - 1 PROVE prefixPtr[i] <= prefixPtr[head]
    <3>1. head > 0 /\ head - 1 \in 0 .. head - 1 /\ i <= head - 1
      BY <2>2
    <3>2. prefixPtr[i] <= prefixPtr[head - 1]
      BY <3>1 DEF PtrsAscend
    <3>3. head - 1 \in 0 .. head /\ head \in 0 .. head /\ i \in 0 .. head
      BY <2>2
    <3> QED
      BY <2>2, <2>3, <3>1, <3>2, <3>3
  <2>5. ASSUME NEW i \in 0 .. head, NEW k \in 0 .. head, i <= k
        PROVE  prefixPtr[i] <= prefixPtr[k]
    <3>1. CASE k = head /\ i = head
      BY <2>2, <3>1
    <3>2. CASE k = head /\ i # head
      BY <2>2, <2>4, <3>2
    <3>3. CASE k # head
      <4>1. i \in 0 .. head - 1 /\ k \in 0 .. head - 1
        BY <2>2, <2>5, <3>3
      <4> QED
        BY <2>5, <4>1 DEF PtrsAscend
    <3> QED
      BY <3>1, <3>2, <3>3
  <2>6. 0 .. head' - 1 = 0 .. head
    BY <2>1, <2>2
  <2> QED
    BY <2>1, <2>5, <2>6 DEF PtrsAscend
<1>3. head' = head \/ SetHead
  BY DEF vars, Next, WorkerStep, ApplyStep, Submit, Receive, Timeout, Lock, AssignVersions,
      HistoryReadFails, CompareAndSwap, AnswerFails, Versioned, Crypto, CryptoFails,
      CheckVersion, Checked, PutPrefixBatch, PutPrefixPtr, SetNextPrefixVersion, BatchAppend,
      PutAuditBlob, PutValueBatch, PutOpeningBatch, PutHistoryBatch, Write,
      WriteFails, CatchUp, CatchUpsDone, Answer, BatchDone, EraseValue, EraseOpening, Crash,
      Restart
<1> QED
  BY <1>1, <1>2, <1>3

\* Phase 1 keeps for a catch-up a job of its batch.
LEMMA AskedStep == TypeInv /\ CatchUpsAsked /\ [Next]_vars => CatchUpsAsked'
<1> SUFFICES ASSUME TypeInv, CatchUpsAsked, [Next]_vars PROVE CatchUpsAsked'
  OBVIOUS
<1> USE DEF clientVars, workerVars, applyVars, treeVars, valueVars, storeVars, boundVars
<1>1. CASE catchups' \subseteq catchups
  <2>1. \A j \in catchups' : j \in Jobs /\ req[j] \in Requests
    BY <1>1 DEF TypeInv, TypeOK, CatchUpsAsked
  <2> QED
    BY <2>1, RequestStays DEF CatchUpsAsked
<1>2. CASE AssignVersions \/ HistoryReadFails
  <2>1. req' = req /\ catchups' \subseteq catchups \cup {Head(batch)} /\ batch # <<>>
    BY <1>2 DEF AssignVersions, HistoryReadFails, CompareAndSwap, Reject
  <2>2. req[Head(batch)] \in Requests
    <3>1. batch \in Seq(Jobs) /\ \A i \in DOMAIN batch : req[batch[i]] \in Requests
      BY DEF TypeInv, TypeOK, QueuedAreSubmitted
    <3>2. 1 \in DOMAIN batch /\ Head(batch) = batch[1]
      BY <2>1, <3>1
    <3> QED
      BY <3>1, <3>2
  <2> QED
    BY <2>1, <2>2 DEF CatchUpsAsked
<1>3. catchups' \subseteq catchups \/ AssignVersions \/ HistoryReadFails
  BY DEF vars, Next, WorkerStep, ApplyStep, Submit, Receive, Timeout, Lock, AnswerFails,
      Versioned, Crypto, CryptoFails, CheckVersion, Checked, PutPrefixBatch, PutPrefixPtr,
      SetNextPrefixVersion, BatchAppend, PutAuditBlob, PutValueBatch, PutOpeningBatch,
      PutHistoryBatch, SetHead, Write, WriteFails, CatchUp, CatchUpsDone, Answer, BatchDone,
      EraseValue, EraseOpening, Crash, Restart, ForgetBatch
<1> QED
  BY <1>1, <1>2, <1>3

\* The history of a label has one record for a version.
LEMMA RecordIsUnique ==
  ASSUME TypeInv, HistoryContiguous, NEW l \in Labels, NEW k \in DOMAIN history[l],
         NEW i \in DOMAIN history[l], history[l][i].ver >= history[l][k].ver
  PROVE  /\ history[l][k].ver \in Nat /\ history[l][k].ptr \in Nat
         /\ history[l][i].ver = history[l][k].ver => i = k
         /\ history[l][k].ptr <= history[l][i].ptr
<1>1. history[l] \in Seq(Records) /\ Ptrs \subseteq Nat
  BY StoreTypes
<1>2. k \in Nat /\ i \in Nat /\ history[l][k] \in Records /\ history[l][i] \in Records
  BY <1>1
<1>3. /\ history[l][k].ver \in Nat /\ history[l][k].ptr \in Nat
      /\ history[l][i].ver \in Nat /\ history[l][i].ptr \in Nat
  BY <1>1, <1>2 DEF Records, Versions
<1>4. history[l][k].ver = k - 1 /\ history[l][i].ver = i - 1
  BY DEF HistoryContiguous
<1>5. k = i \/ k \in 1 .. i - 1
  BY <1>1, <1>2, <1>4
<1>6. k = i \/ history[l][k].ptr < history[l][i].ptr
  BY <1>5 DEF HistoryContiguous
<1> QED
  BY <1>2, <1>3, <1>4, <1>6

\* The entry a catch-up finds for the first missing version.
LEMMA FirstMissing ==
  ASSUME SearchInv, PtrsAscend, faults = 0, pc # "head",
         NEW l \in Labels, NEW k \in DOMAIN history[l]
  PROVE  /\ latest = head
         /\ FindLogEntry(history[l][k].ptr, head) \in 0 .. head - 1
         /\ history[l][k].ptr <= prefixPtr[FindLogEntry(history[l][k].ptr, head)]
         /\ \A i \in 0 .. FindLogEntry(history[l][k].ptr, head) - 1 :
              prefixPtr[i] < history[l][k].ptr
<1>1. /\ TypeInv /\ HistoryContiguous /\ CommittedIsIndexed /\ RecordsCommitted /\ up
  BY DEF SearchInv, IndexInv, TreeInv, Numbering, Undisturbed
<1>2. head > 0 /\ Holds(head - 1, l, history[l][k])
  BY <1>1 DEF RecordsCommitted, InBatch
<1>3. /\ head \in Nat /\ MaxSize \in Nat /\ head <= MaxSize
      /\ prefixPtr \in [Indices -> Ptrs]
  BY <1>1, StoreTypes
<1>4. head - 1 \in 0 .. head - 1 /\ head \in 1 .. MaxSize
  BY <1>2, <1>3
<1>5. PICK x \in entry[head - 1] : x.label = l /\ x.ver = history[l][k].ver
  BY <1>2 DEF Holds
<1>6. PICK i \in DOMAIN history[l] :
        history[l][i].ver = x.ver /\ history[l][i].ptr <= prefixPtr[head - 1]
  BY <1>1, <1>4, <1>5 DEF CommittedIsIndexed
<1>7. history[l][k].ver \in Nat /\ history[l][k].ptr \in Nat
  <2>1. history[l] \in Seq(Records) /\ Ptrs \subseteq Nat
    BY <1>1, StoreTypes
  <2>2. history[l][k] \in Records
    BY <2>1
  <2> QED
    BY <2>1, <2>2 DEF Records, Versions
<1>8. i = k
  BY <1>1, <1>5, <1>6, <1>7, RecordIsUnique
<1>9. history[l][k].ptr <= prefixPtr[head - 1]
  BY <1>6, <1>8
<1>10. latest = head
  BY <1>1 DEF TypeInv, HeadLoaded
<1> QED
  BY <1>3, <1>4, <1>7, <1>9, <1>10, SearchFinds DEF PtrsAscend

\* What catch_up_update reads is what the entry it finds has added.
LEMMA ReplyIsCommitted ==
  ASSUME SearchInv, PtrsAscend, faults = 0, pc # "head",
         NEW r \in Requests, CatchUpReply(r).kind = "catchup"
  PROVE  /\ CatchUpReply(r).pos \in 0 .. head - 1
         /\ CatchUpReply(r).values =
              {[ver |-> x.ver, job |-> x.job] : x \in NewIn(r, CatchUpReply(r).pos)}
         /\ \E v \in CatchUpReply(r).values : v.ver = r.greatest + 1
<1> DEFINE l == r.label
           first == r.greatest + 1
           records == {history[l][k] : k \in DOMAIN history[l]}
           found == {h \in records : h.ver = first}
           Pos == FindLogEntry((CHOOSE h \in found : TRUE).ptr, latest)
           covered(p) == {h \in records : h.ver >= first /\ h.ptr <= prefixPtr[p]}
<1>a. /\ TypeInv /\ HistoryContiguous /\ CommittedIsIndexed /\ CoveredIsCommitted
  BY DEF SearchInv, IndexInv, TreeInv, Numbering, Undisturbed
<1>b. l \in Labels /\ r.greatest \in Int /\ first \in Nat
  BY BoundsAssumption DEF Requests, NoVersion
<1>c. head \in Nat /\ entry \in [Indices -> SUBSET Leaves] /\ \A i \in 0 .. head - 1 : i \in Indices
  BY <1>a, StoreTypes
<1>1. /\ found # {}
      /\ \A h \in covered(Pos) : value[h.ptr] # NoJob
      /\ CatchUpReply(r) = [kind |-> "catchup", pos |-> Pos,
            values |-> {[ver |-> h.ver, job |-> value[h.ptr]] : h \in covered(Pos)}]
  BY DEF CatchUpReply, Fails
<1>2. PICK k \in DOMAIN history[l] : history[l][k] = CHOOSE h \in found : TRUE
  BY <1>1
<1>3. history[l][k].ver = first
  BY <1>1, <1>2
<1>4. PICK p : p = Pos
  OBVIOUS
<1>5. /\ p \in 0 .. head - 1 /\ history[l][k].ptr <= prefixPtr[p]
      /\ \A i \in 0 .. p - 1 : prefixPtr[i] < history[l][k].ptr
  <2>1. p = FindLogEntry(history[l][k].ptr, head)
    BY <1>2, <1>4, <1>b, FirstMissing
  <2> QED
    BY <2>1, <1>b, FirstMissing
<1>6. \A i \in DOMAIN history[l] : /\ history[l][i].ver \in Nat
                                  /\ history[l][i].ptr \in Nat
  <2> SUFFICES ASSUME NEW i \in DOMAIN history[l]
               PROVE  history[l][i].ver \in Nat /\ history[l][i].ptr \in Nat
    OBVIOUS
  <2>1. history[l] \in Seq(Records) /\ Ptrs \subseteq Nat
    BY <1>a, <1>b, StoreTypes
  <2>2. history[l][i] \in Records
    BY <2>1
  <2> QED
    BY <2>1, <2>2 DEF Records, Versions
\* A leaf of entry p, or of the one before it, is indexed under its version.
<1>7. ASSUME NEW i \in 0 .. head - 1, NEW x \in entry[i], x.label = l,
             NEW m \in DOMAIN history[l], history[l][m].ver = x.ver
      PROVE  /\ history[l][m].ptr <= prefixPtr[i]
             /\ value[history[l][m].ptr] \in {x.job, NoJob}
  <2>1. PICK n \in DOMAIN history[l] :
          /\ history[l][n].ver = x.ver /\ history[l][n].ptr <= prefixPtr[i]
          /\ value[history[l][n].ptr] \in {x.job, NoJob}
    BY <1>a, <1>7 DEF CommittedIsIndexed
  <2>2. n = m
    BY <1>a, <1>b, <1>6, <1>7, <2>1, RecordIsUnique
  <2> QED
    BY <2>1, <2>2
<1>8. ASSUME NEW m \in DOMAIN history[l], history[l][m].ver >= first,
             history[l][m].ptr <= prefixPtr[p]
      PROVE  \E x \in NewIn(r, p) : x.ver = history[l][m].ver /\ x.job = value[history[l][m].ptr]
  <2>1. PICK x \in entry[p] : x.label = l /\ x.ver = history[l][m].ver
    BY <1>a, <1>b, <1>5, <1>8 DEF CoveredIsCommitted, Holds
  <2>2. value[history[l][m].ptr] = x.job
    <3>1. value[history[l][m].ptr] \in {x.job, NoJob}
      BY <1>5, <1>7, <2>1
    <3>2. history[l][m] \in covered(Pos)
      BY <1>4, <1>8
    <3> QED
      BY <1>1, <3>1, <3>2
  <2>3. x \notin PrevTree(p)
    <3> SUFFICES ASSUME x \in PrevTree(p) PROVE FALSE
      OBVIOUS
    <3>1. p # 0 /\ x \in entry[p - 1]
      BY DEF PrevTree
    <3>2. p - 1 \in 0 .. head - 1 /\ p - 1 \in 0 .. p - 1
      BY <1>5, <1>c, <3>1
    <3>3. history[l][m].ptr <= prefixPtr[p - 1]
      BY <1>7, <2>1, <3>1, <3>2
    <3>4. history[l][k].ptr <= history[l][m].ptr
      BY <1>a, <1>b, <1>3, <1>8, RecordIsUnique
    <3>5. prefixPtr[p - 1] < history[l][k].ptr /\ prefixPtr[p - 1] \in Nat
      <4>1. prefixPtr \in [Indices -> Ptrs] /\ Ptrs \subseteq Nat /\ p - 1 \in Indices
        BY <1>a, <1>c, <3>2, StoreTypes
      <4> QED
        BY <1>5, <3>2, <4>1
    <3> QED
      BY <1>6, <3>3, <3>4, <3>5
  <2>4. x.ver > r.greatest
    BY <1>6, <1>8, <1>b, <2>1
  <2> QED
    BY <2>1, <2>2, <2>3, <2>4 DEF NewIn
<1>9. ASSUME NEW x \in NewIn(r, p)
      PROVE  \E h \in covered(Pos) : h.ver = x.ver /\ value[h.ptr] = x.job
  <2>1. x \in entry[p] /\ x.label = l /\ x.ver > r.greatest
    BY DEF NewIn
  <2>2. PICK m \in DOMAIN history[l] : history[l][m].ver = x.ver
    BY <1>a, <1>5, <2>1 DEF CommittedIsIndexed
  <2>3. history[l][m].ptr <= prefixPtr[p] /\ value[history[l][m].ptr] \in {x.job, NoJob}
    BY <1>5, <1>7, <2>1, <2>2
  <2>4. history[l][m].ver >= first
    BY <1>6, <1>b, <2>1, <2>2
  <2>5. history[l][m] \in covered(Pos)
    BY <1>4, <2>3, <2>4
  <2>6. value[history[l][m].ptr] = x.job
    BY <1>1, <2>3, <2>5
  <2> QED
    BY <2>2, <2>5, <2>6
<1>10. {[ver |-> h.ver, job |-> value[h.ptr]] : h \in covered(Pos)} =
         {[ver |-> x.ver, job |-> x.job] : x \in NewIn(r, p)}
  <2>1. ASSUME NEW h \in covered(Pos)
        PROVE  \E x \in NewIn(r, p) : x.ver = h.ver /\ x.job = value[h.ptr]
    <3>1. PICK m \in DOMAIN history[l] : h = history[l][m]
      OBVIOUS
    <3>2. h.ver >= first /\ h.ptr <= prefixPtr[p]
      BY <1>4
    <3> QED
      BY <1>8, <3>1, <3>2
  <2> HIDE DEF covered, Pos
  <2> QED
    BY <1>9, <2>1
<1>11. /\ CatchUpReply(r).pos = p
       /\ CatchUpReply(r).values = {[ver |-> h.ver, job |-> value[h.ptr]] : h \in covered(Pos)}
  BY <1>1, <1>4
<1>12. \E v \in CatchUpReply(r).values : v.ver = r.greatest + 1
  <2>1. first >= first
    BY <1>b
  <2>2. PICK x \in NewIn(r, p) : x.ver = first
    BY <1>3, <1>5, <1>8, <2>1
  <2>3. [ver |-> x.ver, job |-> x.job] \in CatchUpReply(r).values
    BY <1>10, <1>11
  <2> QED
    BY <2>2, <2>3
<1> QED
  BY <1>5, <1>10, <1>11, <1>12

-----------------------------------------------------------------------------
\* Only the catch-ups after a batch answer with one.
LEMMA CatchUpStep ==
  ASSUME TypeInv, [Next]_vars, NEW j \in Jobs, reply'[j].kind = "catchup", reply'[j] # reply[j]
  PROVE  /\ pc = "catchup" /\ j \in catchups /\ reply'[j] = CatchUpReply(req[j])
         /\ UNCHANGED <<req, entry, head, faults>>
<1> USE DEF clientVars, workerVars, applyVars, treeVars, valueVars, storeVars, boundVars
<1>a. reply = [i \in Jobs |-> reply[i]]
  BY DEF TypeInv, TypeOK
<1>1. CASE UNCHANGED reply
  BY <1>1
<1>2. CASE AssignVersions \/ HistoryReadFails
  <2>1. \/ UNCHANGED reply
        \/ \E k \in {"conflict", "empty", "toolong"} : Reject(Head(batch), k)
    BY <1>2 DEF AssignVersions, HistoryReadFails, CompareAndSwap
  <2>2. ASSUME NEW k \in {"conflict", "empty", "toolong"}, Reject(Head(batch), k) PROVE FALSE
    BY <1>a, <2>2 DEF Reject, Fails
  <2> QED
    BY <2>1, <2>2
<1>3. ASSUME NEW i \in Jobs, CatchUp(i)
      PROVE  /\ pc = "catchup" /\ j \in catchups /\ reply'[j] = CatchUpReply(req[j])
             /\ UNCHANGED <<req, entry, head, faults>>
  BY <1>a, <1>3 DEF CatchUp
<1>4. ASSUME NEW i \in Jobs, AnswerFails(i) PROVE FALSE
  BY <1>a, <1>4 DEF AnswerFails, Fails
<1>5. CASE Crash
  BY <1>a, <1>5 DEF Crash, Fails
<1>6. ASSUME NEW i \in Jobs, Answer(i) PROVE FALSE
  <2>1. PICK a : /\ reply' = [reply EXCEPT ![i] = a]
                 /\ outcome # "ok" => a = Fails(outcome)
                 /\ outcome = "ok" /\ i \in raced => a = Fails("raced")
                 /\ outcome = "ok" /\ i \notin raced =>
                      a = [kind |-> "ok", pos |-> latest - 1, first |-> req[i].greatest + 1,
                           n |-> req[i].n]
    BY <1>6, Zenon DEF Answer
  <2>2. outcome \in {"none", "ok", "crypto", "commit"}
    BY DEF TypeInv, TypeOK
  <2> QED
    BY <1>a, <2>1, <2>2 DEF Fails
<1> QED
  BY <1>1, <1>2, <1>3, <1>4, <1>5, <1>6
  DEF vars, Next, WorkerStep, ApplyStep, Submit, Receive, Timeout, Lock, Versioned, Crypto,
      CryptoFails, CheckVersion, Checked, PutPrefixBatch, PutPrefixPtr, SetNextPrefixVersion,
      BatchAppend, PutAuditBlob, PutValueBatch, PutOpeningBatch, PutHistoryBatch, SetHead, Write,
      WriteFails, CatchUpsDone, BatchDone, EraseValue, EraseOpening, Restart

\* The number of failed accesses and crashes never decreases.
LEMMA FaultsGrow == TypeInv /\ [Next]_vars /\ faults' = 0 => faults = 0
<1> SUFFICES ASSUME TypeInv, [Next]_vars PROVE faults' = 0 => faults = 0
  OBVIOUS
<1> USE DEF clientVars, workerVars, applyVars, treeVars, valueVars, storeVars, boundVars
<1>1. faults \in Nat
  BY BoundsAssumption DEF TypeInv, TypeOK
<1>2. faults' = faults \/ faults' = faults + 1
  BY DEF vars, Next, WorkerStep, ApplyStep, Submit, Receive, Timeout, Lock, AssignVersions,
      HistoryReadFails, CompareAndSwap, AnswerFails, Versioned, Crypto, CryptoFails,
      CheckVersion, Checked, PutPrefixBatch, PutPrefixPtr, SetNextPrefixVersion, BatchAppend,
      PutAuditBlob, PutValueBatch, PutOpeningBatch, PutHistoryBatch, SetHead, Write,
      WriteFails, CatchUp, CatchUpsDone, Answer, BatchDone, EraseValue, EraseOpening, Crash,
      Restart
<1> QED
  BY <1>1, <1>2

\* An entry below the head, and the one before it, when the head grows.
LEMMA IndexStays ==
  ASSUME NEW n \in Nat, NEW m \in Nat, m >= n, NEW i \in 0 .. n - 1
  PROVE  i \in 0 .. m - 1 /\ (i # 0 => i - 1 \in 0 .. n - 1)
  OBVIOUS

\* What a job was told stays true, and what a catch-up tells is true.
LEMMA ToldStep == CatchUpInv /\ [Next]_vars => (faults = 0 => CatchUpsTold)'
<1> SUFFICES ASSUME CatchUpInv, [Next]_vars, faults' = 0, NEW j \in Jobs,
                    reply'[j].kind = "catchup"
             PROVE  Told(j)'
  BY DEF CatchUpsTold
<1>1. TypeInv /\ SearchInv /\ PtrsAscend /\ CatchUpsAsked
  BY DEF CatchUpInv, SearchInv, IndexInv, TreeInv, Numbering
<1>2. faults = 0 /\ CatchUpsTold
  BY <1>1, FaultsGrow DEF CatchUpInv
<1>3. head \in Nat /\ head' \in Nat /\ head' >= head
      /\ \A i \in 0 .. head - 1 : entry'[i] = entry[i]
  <2>1. TypeInv'
    BY <1>1, TypeStep
  <2>2. head \in Nat /\ head' \in Nat
    BY <1>1, <2>1, StoreTypes, BoundsAssumption DEF TypeInv, TypeOK
  <2>3. [KeepsLog]_vars
    BY <1>1, AppendStep
  <2> QED
    BY <2>2, <2>3 DEF KeepsLog, vars, storeVars, treeVars
<1>4. CASE reply'[j] = reply[j]
  <2>1. PICK i : i = reply[j].pos
    OBVIOUS
  <2>2. Told(j) /\ req[j] \in Requests /\ i \in 0 .. head - 1
    BY <1>2, <1>4, <2>1 DEF CatchUpsTold, Told
  <2>3. req'[j] = req[j]
    BY <1>1, <2>2, RequestStays
  <2>4. entry'[i] = entry[i] /\ i \in 0 .. head' - 1 /\ (i # 0 => i - 1 \in 0 .. head - 1)
    BY <1>3, <2>2, IndexStays
  <2>5. (IF i = 0 THEN {} ELSE entry'[i - 1]) = PrevTree(i)
    BY <1>3, <2>4 DEF PrevTree
  <2>6. NewIn(req[j], reply[j].pos)' =
          {x \in entry'[i] \ (IF i = 0 THEN {} ELSE entry'[i - 1]) :
             x.label = req[j].label /\ x.ver > req[j].greatest}
    BY <1>4, <2>1, <2>3 DEF NewIn, PrevTree
  <2>7. NewIn(req[j], reply[j].pos)' = NewIn(req[j], reply[j].pos)
    BY <2>1, <2>4, <2>5, <2>6 DEF NewIn
  <2> QED
    BY <1>4, <2>1, <2>2, <2>3, <2>4, <2>7 DEF Told
<1>5. CASE reply'[j] # reply[j]
  <2>1. /\ pc = "catchup" /\ j \in catchups /\ reply'[j] = CatchUpReply(req[j])
        /\ UNCHANGED <<req, entry, head, faults>>
    BY <1>1, <1>5, CatchUpStep
  <2>2. PICK r \in Requests : r = req[j]
    BY <1>1, <2>1 DEF CatchUpsAsked
  <2>3. CatchUpReply(r).kind = "catchup" /\ pc # "head"
    BY <2>1, <2>2
  <2>4. /\ CatchUpReply(r).pos \in 0 .. head - 1
        /\ CatchUpReply(r).values =
             {[ver |-> x.ver, job |-> x.job] : x \in NewIn(r, CatchUpReply(r).pos)}
        /\ \E v \in CatchUpReply(r).values : v.ver = r.greatest + 1
    BY <1>1, <1>2, <2>3, ReplyIsCommitted
  <2>5. NewIn(req[j], reply[j].pos)' = NewIn(r, CatchUpReply(r).pos)
    BY <2>1, <2>2 DEF NewIn, PrevTree
  <2> QED
    BY <2>1, <2>2, <2>4, <2>5 DEF Told
<1> QED
  BY <1>4, <1>5

LEMMA InitCatchUp == Init => CatchUpInv
<1> SUFFICES ASSUME Init PROVE CatchUpInv
  OBVIOUS
<1>1. /\ catchups = {} /\ 0 .. head - 1 = {} /\ \A j \in Jobs : reply[j].kind # "catchup"
  BY DEF Init, Pending
<1> QED
  BY <1>1, InitSearch DEF CatchUpInv, PtrsAscend, CatchUpsAsked, CatchUpsTold

\* Until an access to the store fails or the process dies, a catch-up tells its caller
\* exactly the versions that the entry of the first missing one added to the label.
THEOREM CatchUpsReportEntries == Spec => [](faults = 0 => CatchUpIsCommitted)
<1>1. CatchUpInv /\ [Next]_vars => CatchUpInv'
  <2>1. CatchUpInv => SearchInv /\ TypeInv
    BY DEF CatchUpInv, SearchInv, IndexInv, TreeInv, Numbering
  <2> QED
    BY <2>1, SearchStep, AscendStep, AskedStep, ToldStep DEF CatchUpInv
<1>2. Spec => []CatchUpInv
  BY <1>1, InitCatchUp, PTL DEF Spec
<1>3. CatchUpInv => (faults = 0 => CatchUpIsCommitted)
  BY DEF CatchUpInv, CatchUpsTold, Told, NewIn, CatchUpIsCommitted
<1> QED
  BY <1>2, <1>3, PTL
-----------------------------------------------------------------------------
\* The jobs in a sequence, each at one place.
In(s) == {s[i] : i \in DOMAIN s}
Distinct(s) == \A i, k \in DOMAIN s : s[i] = s[k] => i = k

\* A job is at one place of the batcher at a time.
OnePlace ==
  /\ Distinct(queue) /\ Distinct(batch)
  /\ In(queue) \cap In(batch) = {}
  /\ (In(queue) \cup In(batch)) \cap (catchups \cup work) = {}
  /\ catchups \cap work = {}

\* The log holds something of job j.
Logged(j) == \E i \in 0 .. head - 1 : \E x \in entry[i] : x.job = j

\* A job in the batcher waits for its answer, and is in the log only after set_head.
Unanswered(j) == j \in In(queue) \cup In(batch) \cup catchups \cup work

Fresh ==
  /\ \A j \in Jobs : Unanswered(j) \/ req[j] = NoRequest => reply[j] = Pending
  /\ \A j \in Jobs : Unanswered(j) /\ (j \in work => pc \notin {"catchup", "answer"}) => ~Logged(j)

\* Whatever is prepared, accepted or committed is what its job asked for.
Asked(x) == x.job \in Jobs /\ req[x.job] \in Requests /\ x \in Own(x.job)

Owned ==
  /\ \A x \in Prepared \cup AddedLeaves : Asked(x)
  /\ \A i \in 0 .. head - 1 : \A x \in entry[i] : Asked(x)

\* A batch writes for the jobs that wait for it, and for at least one.
Working == {"crypto", "check"} \cup WriteSteps

BatchJobs ==
  /\ pc \in {"idle", "lock"} => pre = <<>> /\ raced = {} /\ outcome = "none"
  /\ pc \in {"version"} \cup Working => \A x \in Prepared \cup AddedLeaves : x.job \in work
  /\ pc \in Working => work # {}

\* No update loses a race, and no batch fails.
Smooth == raced = {} /\ outcome \in {"none", "ok"}

\* Leaves that number every label without gap from its base on, in order.
Linked(s, base) ==
  /\ \A k \in DOMAIN s :
       \/ s[k].ver = base[s[k].label]
       \/ \E i \in 1 .. k - 1 : s[i].label = s[k].label /\ s[i].ver = s[k].ver - 1
  /\ \A k \in DOMAIN s : \A i \in 1 .. k - 1 :
       s[i].label = s[k].label => s[i].ver < s[k].ver

\* The prepared versions of a label continue those that were accepted.
Base(l) == Len(history[l]) + Len(valid[l])
Bases == [l \in Labels |-> Base(l)]

PreNumbered == pc \in {"version", "crypto", "check"} => Linked(pre, Bases)

\* The overlay of phase 1 is the greatest prepared version.
Topped(s, l, top) ==
  /\ top = NoVersion <=> \A k \in DOMAIN s : s[k].label # l
  /\ top # NoVersion => \E k \in DOMAIN s : s[k].label = l /\ s[k].ver = top
  /\ \A k \in DOMAIN s : s[k].label = l => s[k].ver <= top

OverlayPrepared ==
  /\ pc \in {"idle", "lock"} => \A l \in Labels : overlay[l] = NoVersion
  /\ pc = "version" => \A l \in Labels :
       /\ overlay[l] = NoVersion \/ overlay[l] >= Len(history[l])
       /\ Topped(pre, l, overlay[l])

\* Before set_head the histories end with the versions of the batch.
HeadNumbered ==
  pc = "head" => \A l \in Labels :
    /\ Len(valid[l]) <= Len(history[l])
    /\ \A k \in DOMAIN valid[l] : valid[l][k].ver = Len(history[l]) - Len(valid[l]) + k - 1
    /\ \A i \in 0 .. head - 1 : \A x \in entry[i] :
         x.label = l => x.ver < Len(history[l]) - Len(valid[l])

Quiet ==
  /\ OnePlace /\ Fresh /\ Owned /\ BatchJobs /\ Smooth
  /\ PreNumbered /\ OverlayPrepared /\ HeadNumbered

RefInv == CatchUpInv /\ AnswerInv /\ (faults = 0 => Quiet)

-----------------------------------------------------------------------------
\* The steps that do not fail.
Smoothly ==
  \/ \E j \in Jobs, r \in Requests : Submit(j, r)
  \/ Receive \/ Timeout \/ Lock \/ AssignVersions \/ Versioned \/ Crypto
  \/ ApplyStep
  \/ \E j \in Jobs : CatchUp(j) \/ Answer(j)
  \/ CatchUpsDone \/ BatchDone
  \/ \E l \in Labels, k \in 1 .. MaxPtr : EraseValue(l, k)
  \/ EraseOpening
  \/ UNCHANGED vars

LEMMA NoFault ==
  ASSUME RefInv, [Next]_vars, faults' = 0
  PROVE  faults = 0 /\ up /\ Smoothly
<1>1. TypeInv /\ SearchInv
  BY DEF RefInv, CatchUpInv, SearchInv, IndexInv, TreeInv, Numbering
<1>2. faults = 0
  BY <1>1, FaultsGrow
<1>3. up
  BY <1>1, <1>2 DEF SearchInv, Undisturbed
<1>4. ~(HistoryReadFails \/ CryptoFails \/ WriteFails \/ Crash \/ \E j \in Jobs : AnswerFails(j))
  BY <1>2 DEF HistoryReadFails, CryptoFails, WriteFails, Crash, AnswerFails
<1>5. ~Restart
  BY <1>3 DEF Restart
<1> QED
  BY <1>2, <1>3, <1>4, <1>5 DEF Smoothly, Next, WorkerStep

\* What the invariant gives every lemma below.
LEMMA InvariantParts ==
  ASSUME RefInv, faults = 0
  PROVE  /\ TypeInv /\ Numbering /\ TreeInv /\ SearchInv /\ PtrsAscend /\ CatchUpsAsked
         /\ Waiting /\ NoneWait /\ up /\ latest = head
         /\ OnePlace /\ Fresh /\ Owned /\ BatchJobs /\ Smooth
         /\ PreNumbered /\ OverlayPrepared /\ HeadNumbered
<1>1. /\ TypeInv /\ Numbering /\ TreeInv /\ SearchInv /\ PtrsAscend /\ CatchUpsAsked
      /\ Waiting /\ NoneWait /\ up /\ Quiet
  BY DEF RefInv, CatchUpInv, SearchInv, IndexInv, TreeInv, Numbering, AnswerInv, Undisturbed
<1>2. latest = head
  BY <1>1 DEF TypeInv, HeadLoaded
<1> QED
  BY <1>1, <1>2 DEF Quiet

\* Jobs in a sequence.
LEMMA InAppend ==
  ASSUME NEW S, NEW s \in Seq(S), NEW e \in S
  PROVE  /\ In(Append(s, e)) = In(s) \cup {e}
         /\ Distinct(s) /\ e \notin In(s) => Distinct(Append(s, e))
<1>1. PICK t : t = Append(s, e)
  OBVIOUS
<1>2. /\ DOMAIN s = 1 .. Len(s) /\ Len(s) \in Nat /\ DOMAIN t = 1 .. Len(s) + 1
      /\ t[Len(s) + 1] = e /\ \A i \in DOMAIN s : t[i] = s[i]
  BY <1>1
<1>3. \A i \in DOMAIN t : i = Len(s) + 1 \/ i \in DOMAIN s
  BY <1>2
<1>4. DOMAIN s \subseteq DOMAIN t /\ Len(s) + 1 \in DOMAIN t
  BY <1>2
<1>5. In(t) = In(s) \cup {e}
  BY <1>2, <1>3, <1>4 DEF In
<1>6. ASSUME Distinct(s), e \notin In(s), NEW i \in DOMAIN t, NEW k \in DOMAIN t, t[i] = t[k]
      PROVE  i = k
  BY <1>2, <1>3, <1>6 DEF In, Distinct
<1> QED
  BY <1>1, <1>5, <1>6 DEF Distinct

LEMMA InTail ==
  ASSUME NEW S, NEW s \in Seq(S), s # <<>>
  PROVE  /\ Head(s) \in In(s) /\ Head(s) \in S /\ In(Tail(s)) \subseteq In(s)
         /\ Distinct(s) => Distinct(Tail(s)) /\ Head(s) \notin In(Tail(s))
<1>1. PICK t : t = Tail(s)
  OBVIOUS
<1>2. /\ DOMAIN s = 1 .. Len(s) /\ Len(s) \in Nat /\ 1 \in DOMAIN s /\ Head(s) = s[1]
      /\ DOMAIN t = 1 .. Len(s) - 1 /\ \A i \in DOMAIN t : t[i] = s[i + 1] /\ i + 1 \in DOMAIN s
      /\ Head(s) \in S
  BY <1>1
<1>3. Head(s) \in In(s) /\ In(t) \subseteq In(s)
  BY <1>2 DEF In
<1>4. ASSUME Distinct(s), NEW i \in DOMAIN t, NEW k \in DOMAIN t, t[i] = t[k]
      PROVE  i = k
  <2>1. i + 1 = k + 1
    BY <1>2, <1>4 DEF Distinct
  <2> QED
    BY <1>2, <2>1
<1>5. ASSUME Distinct(s), NEW i \in DOMAIN t, t[i] = Head(s)
      PROVE  FALSE
  <2>1. i + 1 = 1
    BY <1>2, <1>5 DEF Distinct
  <2> QED
    BY <1>2, <2>1
<1> QED
  BY <1>1, <1>2, <1>3, <1>4, <1>5 DEF Distinct, In

\* Who waits in the batcher has asked.
LEMMA UnansweredAsked ==
  ASSUME RefInv, faults = 0, NEW j, Unanswered(j)
  PROVE  j \in Jobs /\ req[j] \in Requests
<1>1. /\ TypeInv /\ CatchUpsAsked /\ Waiting
  BY InvariantParts
<1>2. queue \in Seq(Jobs) /\ batch \in Seq(Jobs) /\ catchups \subseteq Jobs /\ work \subseteq Jobs
  BY <1>1 DEF TypeInv, TypeOK
<1>3. CASE j \in In(queue) \cup In(batch)
  BY <1>1, <1>2, <1>3 DEF In, TypeInv, QueuedAreSubmitted
<1>4. CASE j \in catchups \cup work
  BY <1>1, <1>2, <1>4 DEF CatchUpsAsked, Waiting, Follows
<1> QED
  BY <1>3, <1>4 DEF Unanswered

\* The compare-and-swap takes the first job of the batch out and puts it in one place.
LEMMA SwapMoves ==
  ASSUME RefInv, faults = 0, AssignVersions
  PROVE  /\ Head(batch) \in Jobs /\ req[Head(batch)] \in Requests
         /\ Head(batch) \in In(batch) /\ In(batch') \subseteq In(batch)
         /\ Head(batch) \notin In(batch') /\ Distinct(batch')
         /\ queue' = queue /\ req' = req
         /\ \/ catchups' = catchups \cup {Head(batch)} /\ UNCHANGED <<work, reply, pre, overlay>>
            \/ work' = work \cup {Head(batch)} /\ UNCHANGED <<catchups, reply>>
            \/ UNCHANGED <<work, catchups, pre, overlay>>
<1>1. TypeInv /\ OnePlace
  BY InvariantParts
<1>2. batch \in Seq(Jobs) /\ batch # <<>> /\ batch' = Tail(batch)
  BY <1>1 DEF TypeInv, TypeOK, AssignVersions, CompareAndSwap
<1>3. /\ Head(batch) \in Jobs /\ Head(batch) \in In(batch) /\ In(batch') \subseteq In(batch)
      /\ Head(batch) \notin In(batch') /\ Distinct(batch')
  BY <1>1, <1>2, InTail DEF OnePlace
<1>4. req[Head(batch)] \in Requests
  BY <1>3, UnansweredAsked DEF Unanswered
<1> QED
  BY <1>3, <1>4 DEF AssignVersions, CompareAndSwap, Reject

\* A job moves from the queue to the batch and from there to the catch-ups or the work.
LEMMA PlacesStep == RefInv /\ [Next]_vars /\ faults' = 0 => OnePlace'
<1> SUFFICES ASSUME RefInv, [Next]_vars, faults' = 0 PROVE OnePlace'
  OBVIOUS
<1> USE DEF clientVars, workerVars, applyVars, treeVars, valueVars, storeVars, boundVars
<1>a. faults = 0 /\ Smoothly
  BY NoFault
<1>b. TypeInv /\ OnePlace
  BY <1>a, InvariantParts
<1>c. queue \in Seq(Jobs) /\ batch \in Seq(Jobs)
  BY <1>b DEF TypeInv, TypeOK
<1>1. CASE UNCHANGED <<queue, batch>> /\ catchups' \subseteq catchups /\ work' \subseteq work
  BY <1>b, <1>1 DEF OnePlace
<1>2. ASSUME NEW j \in Jobs, NEW r \in Requests, Submit(j, r) PROVE OnePlace'
  <2>1. queue' = Append(queue, j) /\ UNCHANGED <<batch, catchups, work>> /\ req[j] = NoRequest
    BY <1>2 DEF Submit
  <2>2. ~Unanswered(j)
    BY <1>a, <2>1, UnansweredAsked, NoRequestIsNone
  <2>3. In(queue') = In(queue) \cup {j} /\ Distinct(queue')
    BY <1>b, <1>c, <2>1, <2>2, InAppend DEF OnePlace, Unanswered
  <2> QED
    BY <1>b, <2>1, <2>2, <2>3 DEF OnePlace, Unanswered
<1>3. CASE Receive
  <2>1. /\ queue # <<>> /\ batch' = Append(batch, Head(queue)) /\ queue' = Tail(queue)
        /\ UNCHANGED <<catchups, work>>
    BY <1>3 DEF Receive
  <2>2. /\ Head(queue) \in In(queue) /\ Head(queue) \in Jobs /\ In(queue') \subseteq In(queue)
        /\ Distinct(queue') /\ Head(queue) \notin In(queue')
    BY <1>b, <1>c, <2>1, InTail DEF OnePlace
  <2>3. In(batch') = In(batch) \cup {Head(queue)} /\ Distinct(batch')
    BY <1>b, <1>c, <2>1, <2>2, InAppend DEF OnePlace
  <2> QED
    BY <1>b, <2>1, <2>2, <2>3 DEF OnePlace
<1>4. CASE AssignVersions
  <2>1. PICK j : j = Head(batch)
    OBVIOUS
  <2>2. /\ j \in In(batch) /\ In(batch') \subseteq In(batch) /\ j \notin In(batch')
        /\ Distinct(batch') /\ queue' = queue
        /\ \/ catchups' = catchups \cup {j} /\ work' = work
           \/ work' = work \cup {j} /\ catchups' = catchups
           \/ UNCHANGED <<work, catchups>>
    BY <1>a, <1>4, <2>1, SwapMoves
  <2> QED
    BY <1>b, <2>2 DEF OnePlace
<1>5. CASE BatchDone
  BY <1>1, <1>5 DEF BatchDone, ForgetBatch
<1>6. ASSUME NEW j \in Jobs, CatchUp(j) \/ Answer(j) PROVE OnePlace'
  BY <1>1, <1>6 DEF CatchUp, Answer
<1>7. CASE \/ Timeout \/ Lock \/ Versioned \/ Crypto \/ CatchUpsDone \/ ApplyStep \/ EraseOpening
           \/ UNCHANGED vars \/ \E l \in Labels, k \in 1 .. MaxPtr : EraseValue(l, k)
  BY <1>1, <1>7
  DEF vars, Timeout, Lock, Versioned, Crypto, CatchUpsDone, ApplyStep, CheckVersion, Checked,
      PutPrefixBatch, PutPrefixPtr, SetNextPrefixVersion, BatchAppend, PutAuditBlob,
      PutValueBatch, PutOpeningBatch, PutHistoryBatch, SetHead, Write, EraseOpening, EraseValue
<1> QED
  BY <1>a, <1>2, <1>3, <1>4, <1>5, <1>6, <1>7 DEF Smoothly

\* Who waits now waited before, or has just asked; who waits no more may have been answered.
LEMMA WaitersMove ==
  ASSUME RefInv, [Next]_vars, faults' = 0, NEW j \in Jobs
  PROVE  /\ Unanswered(j)' => Unanswered(j) \/ req[j] = NoRequest
         /\ reply'[j] # reply[j] => Unanswered(j) /\ ~Unanswered(j)'
         /\ req'[j] = NoRequest => req[j] = NoRequest
<1> USE DEF clientVars, workerVars, applyVars, treeVars, valueVars, storeVars, boundVars
<1>a. faults = 0 /\ Smoothly
  BY NoFault
<1>b. /\ TypeInv /\ OnePlace
      /\ reply = [i \in Jobs |-> reply[i]]
  BY <1>a, InvariantParts DEF TypeInv, TypeOK
<1>c. queue \in Seq(Jobs) /\ batch \in Seq(Jobs)
  BY <1>b DEF TypeInv, TypeOK
<1>1. CASE UNCHANGED <<queue, batch, reply, req>> /\ catchups' \subseteq catchups /\ work' \subseteq work
  BY <1>1 DEF Unanswered
<1>2. ASSUME NEW i \in Jobs, NEW r \in Requests, Submit(i, r)
      PROVE  /\ Unanswered(j)' => Unanswered(j) \/ req[j] = NoRequest
             /\ reply'[j] # reply[j] => Unanswered(j) /\ ~Unanswered(j)'
             /\ req'[j] = NoRequest => req[j] = NoRequest
  <2>1. /\ queue' = Append(queue, i) /\ UNCHANGED <<batch, catchups, work, reply>>
        /\ req[i] = NoRequest /\ req' = [req EXCEPT ![i] = r]
    BY <1>2 DEF Submit
  <2>2. In(queue') = In(queue) \cup {i}
    BY <1>c, <2>1, InAppend
  <2>3. req'[j] = NoRequest => req[j] = NoRequest
    BY <1>b, <2>1, NoRequestIsNone DEF TypeInv, TypeOK
  <2> QED
    BY <2>1, <2>2, <2>3 DEF Unanswered
<1>3. CASE Receive
  <2>1. /\ queue # <<>> /\ batch' = Append(batch, Head(queue)) /\ queue' = Tail(queue)
        /\ UNCHANGED <<catchups, work, reply, req>>
    BY <1>3 DEF Receive
  <2>2. Head(queue) \in In(queue) /\ Head(queue) \in Jobs /\ In(queue') \subseteq In(queue)
    BY <1>c, <2>1, InTail
  <2>3. In(batch') = In(batch) \cup {Head(queue)}
    BY <1>c, <2>1, <2>2, InAppend
  <2> QED
    BY <2>1, <2>2, <2>3 DEF Unanswered
<1>4. CASE AssignVersions
  <2>1. PICK i : i = Head(batch)
    OBVIOUS
  <2>2. /\ i \in In(batch) /\ In(batch') \subseteq In(batch) /\ i \notin In(batch')
        /\ queue' = queue /\ req' = req
        /\ \/ catchups' = catchups \cup {i} /\ work' = work /\ reply' = reply
           \/ work' = work \cup {i} /\ catchups' = catchups /\ reply' = reply
           \/ UNCHANGED <<work, catchups>>
    BY <1>a, <1>4, <2>1, SwapMoves
  <2>3. reply' = reply \/ \E k : reply' = [reply EXCEPT ![i] = k]
    BY <1>4, <2>1 DEF AssignVersions, CompareAndSwap, Reject
  <2>4. reply'[j] # reply[j] => i = j
    BY <1>b, <2>3
  <2>5. i \notin In(queue) \cup catchups \cup work
    BY <1>b, <2>2 DEF OnePlace
  <2> QED
    BY <2>2, <2>4, <2>5 DEF Unanswered
<1>5. CASE BatchDone
  BY <1>1, <1>5 DEF BatchDone, ForgetBatch
<1>6. ASSUME NEW i \in Jobs, CatchUp(i) \/ Answer(i)
      PROVE  /\ Unanswered(j)' => Unanswered(j) \/ req[j] = NoRequest
             /\ reply'[j] # reply[j] => Unanswered(j) /\ ~Unanswered(j)'
             /\ req'[j] = NoRequest => req[j] = NoRequest
  <2>1. /\ UNCHANGED <<queue, batch, req>>
        /\ \/ i \in catchups /\ catchups' = catchups \ {i} /\ work' = work
           \/ i \in work /\ work' = work \ {i} /\ catchups' = catchups
    BY <1>6 DEF CatchUp, Answer
  <2>2. \E k : reply' = [reply EXCEPT ![i] = k]
    BY <1>6, Zenon DEF CatchUp, Answer
  <2>3. reply'[j] # reply[j] => i = j
    BY <1>b, <2>2
  <2>4. i \notin In(queue) \cup In(batch) /\ (i \in catchups => i \notin work)
    BY <1>b, <2>1 DEF OnePlace
  <2> QED
    BY <2>1, <2>3, <2>4 DEF Unanswered
<1>7. CASE \/ Timeout \/ Lock \/ Versioned \/ Crypto \/ CatchUpsDone \/ ApplyStep \/ EraseOpening
           \/ UNCHANGED vars \/ \E l \in Labels, k \in 1 .. MaxPtr : EraseValue(l, k)
  BY <1>1, <1>7
  DEF vars, Timeout, Lock, Versioned, Crypto, CatchUpsDone, ApplyStep, CheckVersion, Checked,
      PutPrefixBatch, PutPrefixPtr, SetNextPrefixVersion, BatchAppend, PutAuditBlob,
      PutValueBatch, PutOpeningBatch, PutHistoryBatch, SetHead, Write, EraseOpening, EraseValue
<1> QED
  BY <1>a, <1>2, <1>3, <1>4, <1>5, <1>6, <1>7 DEF Smoothly

\* Only set_head publishes an entry: it adds the leaves of the batch.
LEMMA HeadMoves ==
  ASSUME RefInv, [Next]_vars, faults' = 0
  PROVE  /\ \A i \in 0 .. head - 1 : entry'[i] = entry[i]
         /\ \/ head' = head /\ latest' = latest
            \/ /\ SetHead /\ head' = head + 1 /\ latest' = head' /\ entry' = entry
               /\ entry[head] = PrevTree(head) \cup AddedLeaves
               /\ AddedLeaves \cap PrevTree(head) = {}
<1> USE DEF clientVars, workerVars, applyVars, treeVars, valueVars, storeVars, boundVars
<1>a. faults = 0 /\ Smoothly
  BY NoFault
<1>b. TypeInv /\ TreeInv /\ latest = head
  BY <1>a, InvariantParts
<1>1. \A i \in 0 .. head - 1 : entry'[i] = entry[i]
  BY <1>b, AppendStep DEF KeepsLog, vars
<1>2. (head' = head /\ latest' = latest) \/ SetHead
  BY <1>a
  DEF Smoothly, vars, Submit, Receive, Timeout, Lock, AssignVersions, CompareAndSwap, Versioned,
      Crypto, CheckVersion, Checked, PutPrefixBatch, PutPrefixPtr, SetNextPrefixVersion,
      BatchAppend, PutAuditBlob, PutValueBatch, PutOpeningBatch, PutHistoryBatch, Write, ApplyStep,
      CatchUp, CatchUpsDone, Answer, BatchDone, EraseValue, EraseOpening
<1>3. ASSUME SetHead
      PROVE  /\ head' = head + 1 /\ latest' = head' /\ entry' = entry
             /\ entry[head] = PrevTree(head) \cup AddedLeaves
             /\ AddedLeaves \cap PrevTree(head) = {}
  <2>1. /\ pc = "head" /\ head' = latest + 1 /\ latest' = latest + 1 /\ entry' = entry
    BY <1>3 DEF SetHead, Write
  <2>2. pc \in WriteSteps /\ pc \in Grown /\ pc \in Appended /\ pc \in Audited
    BY <2>1 DEF WriteSteps, Grown, Pointed, Moved, Appended, Audited
  <2>3. /\ prefix[final] = BaseTree \cup AddedLeaves /\ entry[latest] = prefix[final]
        /\ AddedLeaves \cap BaseTree = {}
    BY <1>b, <2>2 DEF TreeInv, BatchWritten
  <2>4. BaseTree = PrevTree(latest)
    BY <1>b, <2>2, BaseIsPrev DEF TreeInv, LogMatches
  <2> QED
    BY <1>b, <2>1, <2>3, <2>4
<1> QED
  BY <1>1, <1>2, <1>3

\* What set_head adds belongs to jobs of the batch.
LEMMA LoggedMoves ==
  ASSUME RefInv, [Next]_vars, faults' = 0, NEW j, Logged(j)'
  PROVE  Logged(j) \/ (SetHead /\ j \in work)
<1>1. faults = 0
  BY NoFault
<1>2. TypeInv /\ BatchJobs /\ head \in Nat
  BY <1>1, InvariantParts, StoreTypes
<1>3. PICK i \in 0 .. head' - 1 : \E x \in entry'[i] : x.job = j
  BY DEF Logged
<1>4. CASE i \in 0 .. head - 1
  BY <1>3, <1>4, HeadMoves DEF Logged
<1>5. CASE ~(i \in 0 .. head - 1)
  <2>1. /\ SetHead /\ head' = head + 1 /\ entry' = entry
        /\ entry[head] = PrevTree(head) \cup AddedLeaves
    BY <1>3, <1>5, HeadMoves
  <2>2. i = head
    BY <1>2, <1>5, <2>1
  <2>3. PICK x \in entry[head] : x.job = j
    BY <1>3, <2>1, <2>2
  <2>4. CASE x \in PrevTree(head)
    <3>1. head # 0 /\ x \in entry[head - 1] /\ head - 1 \in 0 .. head - 1
      BY <1>2, <2>4 DEF PrevTree
    <3> QED
      BY <2>3, <3>1 DEF Logged
  <2>5. CASE x \in AddedLeaves
    <3>1. pc \in Working
      BY <2>1 DEF SetHead, Write, Working, WriteSteps
    <3> QED
      BY <1>2, <2>1, <2>3, <2>5, <3>1 DEF BatchJobs
  <2> QED
    BY <2>1, <2>3, <2>4, <2>5
<1> QED
  BY <1>4, <1>5

\* A job of a batch that is being answered stays there until it is answered.
LEMMA WorkStays ==
  ASSUME RefInv, [Next]_vars, faults' = 0, NEW j \in work, pc \in {"catchup", "answer"}
  PROVE  (j \in work' /\ pc' \in {"catchup", "answer"}) \/ ~Unanswered(j)'
<1> USE DEF clientVars, workerVars, applyVars, treeVars, valueVars, storeVars, boundVars
<1>a. faults = 0 /\ Smoothly
  BY NoFault
<1>b. OnePlace
  BY <1>a, InvariantParts
<1>1. ASSUME NEW i \in Jobs, Answer(i)
      PROVE  (j \in work' /\ pc' \in {"catchup", "answer"}) \/ ~Unanswered(j)'
  <2>1. /\ work' = work \ {i} /\ UNCHANGED <<queue, batch, catchups, pc>>
    BY <1>1 DEF Answer
  <2> QED
    BY <1>b, <2>1 DEF OnePlace, Unanswered
<1>2. ASSUME NEW i \in Jobs, CatchUp(i) \/ \E r \in Requests : Submit(i, r)
      PROVE  j \in work' /\ pc' \in {"catchup", "answer"}
  BY <1>2 DEF CatchUp, Submit
<1>3. CASE CatchUpsDone \/ BatchDone
  BY <1>3 DEF CatchUpsDone, BatchDone
<1>4. ~(Receive \/ Timeout \/ Lock \/ AssignVersions \/ Versioned \/ Crypto \/ ApplyStep)
  BY DEF Receive, Timeout, Lock, AssignVersions, Versioned, Crypto, ApplyStep, CheckVersion,
      Checked, PutPrefixBatch, PutPrefixPtr, SetNextPrefixVersion, BatchAppend, PutAuditBlob,
      PutValueBatch, PutOpeningBatch, PutHistoryBatch, SetHead, Write
<1>5. CASE EraseOpening \/ UNCHANGED vars \/ \E l \in Labels, k \in 1 .. MaxPtr : EraseValue(l, k)
  BY <1>5 DEF EraseOpening, vars, EraseValue
<1> QED
  BY <1>a, <1>1, <1>2, <1>3, <1>4, <1>5 DEF Smoothly

\* Nobody who waits has been answered, or is in the log before its batch is.
LEMMA FreshStep == RefInv /\ [Next]_vars /\ faults' = 0 => Fresh'
<1> SUFFICES ASSUME RefInv, [Next]_vars, faults' = 0 PROVE Fresh'
  OBVIOUS
<1>a. faults = 0
  BY NoFault
<1>b. Fresh /\ Owned
  BY <1>a, InvariantParts
<1>1. ASSUME NEW j \in Jobs, Unanswered(j)' \/ req'[j] = NoRequest
      PROVE  reply'[j] = Pending
  <2>1. reply[j] = Pending
    BY <1>b, <1>1, WaitersMove DEF Fresh
  <2>2. ASSUME reply'[j] # reply[j] PROVE FALSE
    <3>1. Unanswered(j) /\ ~Unanswered(j)'
      BY <2>2, WaitersMove
    <3>2. req[j] = NoRequest
      BY <1>1, <3>1, WaitersMove
    <3> QED
      BY <1>a, <3>1, <3>2, UnansweredAsked, NoRequestIsNone
  <2> QED
    BY <2>1, <2>2
<1>2. ASSUME NEW j \in Jobs, Unanswered(j)', j \in work' => pc' \notin {"catchup", "answer"},
             Logged(j)'
      PROVE  FALSE
  <2>1. CASE Logged(j)
    <3>1. req[j] # NoRequest
      BY <1>b, <2>1, NoRequestIsNone DEF Logged, Owned, Asked
    <3>2. Unanswered(j)
      BY <1>2, <3>1, WaitersMove
    <3>3. j \in work /\ pc \in {"catchup", "answer"}
      BY <1>b, <2>1, <3>2 DEF Fresh
    <3> QED
      BY <1>2, <3>3, WorkStays
  <2>2. CASE SetHead /\ j \in work
    BY <1>2, <2>2 DEF SetHead, Write
  <2> QED
    BY <1>2, <2>1, <2>2, LoggedMoves
<1> QED
  BY <1>1, <1>2 DEF Fresh

\* The leaves of a batch come from the compare-and-swap of its jobs.
LEMMA LeavesMove ==
  ASSUME RefInv, [Next]_vars, faults' = 0, NEW x \in (Prepared \cup AddedLeaves)'
  PROVE  \/ x \in Prepared \cup AddedLeaves
         \/ /\ AssignVersions /\ work' = work \cup {Head(batch)}
            /\ x \in Own(Head(batch))
<1> USE DEF clientVars, workerVars, applyVars, treeVars, valueVars, storeVars, boundVars
<1>a. faults = 0 /\ Smoothly
  BY NoFault
<1>b. TypeInv /\ pre \in Seq(Leaves)
  BY <1>a, InvariantParts DEF TypeInv, TypeOK
<1>1. CASE UNCHANGED <<pre, valid>>
  BY <1>1, UpdatesFrame DEF Prepared
<1>2. CASE AssignVersions
  <2>1. PICK j : j = Head(batch)
    OBVIOUS
  <2>2. valid' = valid /\ AddedLeaves' = AddedLeaves
    BY <1>2, UpdatesFrame DEF AssignVersions, CompareAndSwap
  <2>3. \/ pre' = pre
        \/ /\ work' = work \cup {j}
           /\ pre' = pre \o Assigned(j, req[j].greatest + 1, req[j].n)
    BY <1>2, <2>1 DEF AssignVersions, CompareAndSwap, Reject
  <2>4. CASE pre' = pre
    BY <2>2, <2>4 DEF Prepared
  <2>5. CASE /\ work' = work \cup {j}
             /\ pre' = pre \o Assigned(j, req[j].greatest + 1, req[j].n)
    <3>1. j \in Jobs /\ req[j] \in Requests
      BY <1>2, <1>a, <2>1, SwapMoves
    <3>2. req[j].greatest + 1 \in Nat /\ req[j].n \in Nat /\ req[j].label \in Labels
      BY <3>1, BoundsAssumption DEF Requests, NoVersion
    <3>3. PICK t : t = Assigned(j, req[j].greatest + 1, req[j].n)
      OBVIOUS
    <3>4. t \in Seq(Leaves) /\ pre' = pre \o t
      BY <2>5, <3>1, <3>2, <3>3, AssignedType
    <3>5. ASSUME NEW i \in DOMAIN (pre \o t)
          PROVE  (pre \o t)[i] \in Prepared \/ (pre \o t)[i] \in Own(j)
      <4>1. /\ i \in 1 .. Len(pre) + Len(t) /\ Len(pre) \in Nat /\ Len(t) \in Nat
            /\ (pre \o t)[i] = IF i <= Len(pre) THEN pre[i] ELSE t[i - Len(pre)]
            /\ DOMAIN pre = 1 .. Len(pre) /\ DOMAIN t = 1 .. Len(t)
        BY <1>b, <3>4, <3>5, ConcatSeq
      <4>2. CASE i <= Len(pre)
        <5>1. i \in DOMAIN pre /\ (pre \o t)[i] = pre[i]
          BY <4>1, <4>2
        <5> QED
          BY <5>1 DEF Prepared
      <4>3. CASE ~(i <= Len(pre))
        <5>1. i - Len(pre) \in DOMAIN t /\ (pre \o t)[i] = t[i - Len(pre)]
          BY <4>1, <4>3
        <5>2. PICK k : k = i - Len(pre)
          OBVIOUS
        <5>3. /\ k \in 1 .. req[j].n
              /\ t[k] = [job |-> j, label |-> req[j].label, ver |-> req[j].greatest + 1 + k - 1]
          BY <3>3, <5>1, <5>2 DEF Assigned
        <5>4. k - 1 \in 0 .. req[j].n - 1 /\ req[j].greatest + 1 + k - 1 = req[j].greatest + 1 + (k - 1)
          BY <3>2, <5>3
        <5>5. t[k] \in Own(j)
          BY <5>3, <5>4 DEF Own
        <5> QED
          BY <5>1, <5>2, <5>5
      <4> QED
        BY <4>2, <4>3
    <3>6. x \in Prepared' => x \in Prepared \/ x \in Own(j)
      BY <3>4, <3>5 DEF Prepared
    <3> QED
      BY <1>2, <2>1, <2>2, <2>5, <3>6
  <2> QED
    BY <2>3, <2>4, <2>5
<1>3. CASE CheckVersion
  <2>1. pre # <<>> /\ pre' = Tail(pre)
    BY <1>3 DEF CheckVersion
  <2>2. PICK u : u = Head(pre) /\ u \in Leaves /\ u \in Prepared
    BY <1>b, <2>1, TailSeq DEF Prepared
  <2>3. Prepared' \subseteq Prepared
    BY <1>b, <2>1, TailSeq DEF Prepared
  <2>4. ASSUME NEW w \in Updates' PROVE Leaf(w) \in AddedLeaves \cup {u}
    <3>1. w \in Updates \/ w = [label |-> u.label, ver |-> u.ver, ptr |-> nextPrefix + alloc,
                                job |-> u.job]
      BY <1>3, <1>b, <2>2, CheckAdds
    <3>2. u = [label |-> u.label, ver |-> u.ver, job |-> u.job]
      BY <2>2 DEF Leaves
    <3> QED
      BY <3>1, <3>2 DEF AddedLeaves, Leaf
  <2>5. AddedLeaves' \subseteq AddedLeaves \cup {u}
    BY <2>4 DEF AddedLeaves, Leaf
  <2> QED
    BY <2>2, <2>3, <2>5
<1>4. CASE BatchDone
  <2>1. pre' = <<>> /\ \A l \in Labels : valid'[l] = <<>>
    BY <1>4 DEF BatchDone, ForgetBatch
  <2>2. Updates' = {} /\ DOMAIN pre' = {}
    BY <2>1 DEF Updates
  <2> QED
    BY <2>2 DEF AddedLeaves, Prepared
<1>5. CASE \/ Receive \/ Timeout \/ Lock \/ Versioned \/ Crypto \/ Checked \/ CatchUpsDone
           \/ EraseOpening \/ UNCHANGED vars \/ \E l \in Labels, k \in 1 .. MaxPtr : EraseValue(l, k)
  BY <1>1, <1>5
  DEF vars, Receive, Timeout, Lock, Versioned, Crypto, Checked, CatchUpsDone, EraseOpening, EraseValue
<1>6. CASE \/ PutPrefixBatch \/ PutPrefixPtr \/ SetNextPrefixVersion \/ BatchAppend \/ PutAuditBlob
           \/ PutValueBatch \/ PutOpeningBatch \/ PutHistoryBatch \/ SetHead
  BY <1>1, <1>6
  DEF PutPrefixBatch, PutPrefixPtr, SetNextPrefixVersion, BatchAppend, PutAuditBlob,
      PutValueBatch, PutOpeningBatch, PutHistoryBatch, SetHead, Write
<1>7. ASSUME NEW i \in Jobs, CatchUp(i) \/ Answer(i) \/ \E r \in Requests : Submit(i, r)
      PROVE  UNCHANGED <<pre, valid>>
  BY <1>7 DEF CatchUp, Answer, Submit
<1> QED
  BY <1>a, <1>1, <1>2, <1>3, <1>4, <1>5, <1>6, <1>7 DEF Smoothly, ApplyStep

\* What a job asked for does not change.
LEMMA AskedStays ==
  ASSUME TypeInv, [Next]_vars, NEW x, Asked(x)
  PROVE  Asked(x)'
<1>1. req'[x.job] = req[x.job] /\ Own(x.job)' = Own(x.job)
  BY RequestStays DEF Asked
<1> QED
  BY <1>1 DEF Asked

\* Prepared, accepted and committed leaves stay those their jobs asked for.
LEMMA OwnedStep == RefInv /\ [Next]_vars /\ faults' = 0 => Owned'
<1> SUFFICES ASSUME RefInv, [Next]_vars, faults' = 0 PROVE Owned'
  OBVIOUS
<1>a. faults = 0
  BY NoFault
<1>b. TypeInv /\ Owned /\ head \in Nat
  BY <1>a, InvariantParts, StoreTypes
<1>1. ASSUME NEW x \in (Prepared \cup AddedLeaves)' PROVE Asked(x)'
  <2>1. CASE x \in Prepared \cup AddedLeaves
    BY <1>b, <2>1, AskedStays DEF Owned
  <2>2. CASE AssignVersions /\ x \in Own(Head(batch))
    <3>1. Head(batch) \in Jobs /\ req[Head(batch)] \in Requests
      BY <1>a, <2>2, SwapMoves
    <3>2. x.job = Head(batch)
      BY <2>2 DEF Own
    <3>3. Asked(x)
      BY <2>2, <3>1, <3>2 DEF Asked
    <3> QED
      BY <1>b, <3>3, AskedStays
  <2> QED
    BY <2>1, <2>2, LeavesMove
<1>2. ASSUME NEW i \in 0 .. head' - 1, NEW x \in entry'[i] PROVE Asked(x)'
  <2>1. CASE i \in 0 .. head - 1
    <3>1. x \in entry[i]
      BY <1>2, <2>1, HeadMoves
    <3> QED
      BY <1>b, <2>1, <3>1, AskedStays DEF Owned
  <2>2. CASE ~(i \in 0 .. head - 1)
    <3>1. /\ head' = head + 1 /\ entry' = entry
          /\ entry[head] = PrevTree(head) \cup AddedLeaves
      BY <1>2, <2>2, HeadMoves
    <3>2. i = head
      BY <1>b, <1>2, <2>2, <3>1
    <3>3. CASE x \in PrevTree(head)
      <4>1. head # 0 /\ x \in entry[head - 1] /\ head - 1 \in 0 .. head - 1
        BY <1>b, <3>3 DEF PrevTree
      <4> QED
        BY <1>b, <4>1, AskedStays DEF Owned
    <3>4. CASE x \in AddedLeaves
      BY <1>b, <3>4, AskedStays DEF Owned
    <3> QED
      BY <1>2, <3>1, <3>2, <3>3, <3>4
  <2> QED
    BY <2>1, <2>2
<1> QED
  BY <1>1, <1>2 DEF Owned

\* The stored versions of a label are 0, 1, ..., as many as there are records.
LEMMA LastIsLength ==
  ASSUME TypeInv, HistoryContiguous, NEW l \in Labels
  PROVE  LastVersion(l) = Len(history[l]) - 1
<1>1. history[l] \in Seq(Records)
  BY StoreTypes
<1>2. CASE history[l] = <<>>
  BY <1>2 DEF LastVersion, NoVersion
<1>3. CASE history[l] # <<>>
  <2>1. Len(history[l]) \in DOMAIN history[l]
    BY <1>1, <1>3
  <2> QED
    BY <1>3, <2>1 DEF LastVersion, HistoryContiguous
<1> QED
  BY <1>2, <1>3

\* The check accepts every update: it counts on from the stored history as phase 1 did.
LEMMA CheckAccepts ==
  ASSUME RefInv, faults = 0, CheckVersion
  PROVE  /\ Head(pre) \in Leaves /\ Head(pre).ver = Base(Head(pre).label)
         /\ Head(pre).ver = CurrentGreatest(Head(pre).label) + 1
<1>1. /\ TypeInv /\ HistoryContiguous /\ SlotsContinueHistory /\ PreNumbered
  BY InvariantParts DEF Numbering
<1>2. pre \in Seq(Leaves) /\ pre # <<>> /\ pc = "check"
  BY <1>1 DEF CheckVersion, TypeInv, TypeOK
<1>3. PICK u, m : u = Head(pre) /\ m = u.label
  OBVIOUS
<1>4. u \in Leaves /\ u = pre[1] /\ 1 \in DOMAIN pre
  BY <1>2, <1>3, TailSeq
<1>5. m \in Labels
  BY <1>3, <1>4 DEF Leaves
<1>6. u.ver = Base(m)
  <2>1. 1 .. 1 - 1 = {}
    OBVIOUS
  <2>2. \/ pre[1].ver = Bases[pre[1].label]
        \/ \E i \in 1 .. 1 - 1 : pre[i].label = pre[1].label /\ pre[i].ver = pre[1].ver - 1
    BY <1>1, <1>2, <1>4 DEF PreNumbered, Linked
  <2> QED
    BY <1>3, <1>4, <1>5, <2>1, <2>2 DEF Bases
<1>7. history[m] \in Seq(Records) /\ valid[m] \in Seq(Slots)
  BY <1>1, <1>5, StoreTypes
<1>8. LastVersion(m) = Len(history[m]) - 1
  BY <1>1, <1>5, LastIsLength
<1>9. CurrentGreatest(m) + 1 = Base(m)
  <2>1. OverlayCounts(m) /\ Len(history[m]) \in Nat /\ Len(valid[m]) \in Nat
    BY <1>1, <1>5, <1>7 DEF SlotsContinueHistory
  <2>2. CASE overlay[m] = NoVersion
    <3>1. Len(valid[m]) = 0
      BY <1>2, <2>1, <2>2 DEF OverlayCounts
    <3> QED
      BY <1>8, <2>1, <2>2, <3>1 DEF CurrentGreatest, Base
  <2>3. CASE overlay[m] # NoVersion
    <3>1. overlay[m] = Len(history[m]) + Len(valid[m]) - 1
      BY <1>2, <2>1, <2>3 DEF OverlayCounts
    <3> QED
      BY <2>1, <2>3, <3>1 DEF CurrentGreatest, Base
  <2> QED
    BY <2>2, <2>3
<1> QED
  BY <1>3, <1>4, <1>6, <1>9

\* A batch that reaches the check writes.
LEMMA CheckedWrites ==
  ASSUME RefInv, faults = 0, Checked
  PROVE  alloc # 0
<1> SUFFICES ASSUME alloc = 0 PROVE FALSE
  OBVIOUS
<1>1. /\ TypeInv /\ SlotsContinueHistory /\ Waiting /\ BatchJobs /\ Smooth
      /\ pc = "check" /\ pre = <<>>
  BY InvariantParts DEF Numbering, Checked
<1>2. PICK j \in work : TRUE
  BY <1>1 DEF BatchJobs, Working
<1>3. j \in Jobs /\ Follows(j)
  BY <1>1, <1>2 DEF Waiting, TypeInv, TypeOK
<1>4. Own(j) # {}
  BY <1>3, OwnIsNotEmpty DEF Follows
<1>5. Own(j) \subseteq Prepared \cup AddedLeaves
  BY <1>1, <1>3 DEF Follows, Smooth
<1>6. Prepared = {}
  BY <1>1 DEF Prepared
<1>7. AddedLeaves = {}
  BY <1>1, UnallocatedIsEmpty
<1> QED
  BY <1>4, <1>5, <1>6, <1>7

\* As the check accepts every update, no job is raced and no batch comes to nothing.
LEMMA SmoothStep == RefInv /\ [Next]_vars /\ faults' = 0 => Smooth'
<1> SUFFICES ASSUME RefInv, [Next]_vars, faults' = 0 PROVE Smooth'
  OBVIOUS
<1> USE DEF clientVars, workerVars, applyVars, treeVars, valueVars, storeVars, boundVars
<1>a. faults = 0 /\ Smoothly
  BY NoFault
<1>b. Smooth
  BY <1>a, InvariantParts
<1>1. CASE CheckVersion
  <2>1. raced' = raced /\ outcome' = outcome
    BY <1>1, <1>a, CheckAccepts DEF CheckVersion
  <2> QED
    BY <1>b, <2>1 DEF Smooth
<1>2. CASE Checked
  <2>1. raced' = raced /\ outcome' = outcome
    BY <1>2, <1>a, CheckedWrites DEF Checked
  <2> QED
    BY <1>b, <2>1 DEF Smooth
<1>3. CASE SetHead \/ BatchDone
  BY <1>3, <1>b DEF SetHead, Write, BatchDone, ForgetBatch, Smooth
<1>4. UNCHANGED <<raced, outcome>> \/ CheckVersion \/ Checked \/ SetHead \/ BatchDone
  BY <1>a
  DEF Smoothly, vars, Submit, Receive, Timeout, Lock, AssignVersions, CompareAndSwap, Versioned,
      Crypto, PutPrefixBatch, PutPrefixPtr, SetNextPrefixVersion, BatchAppend, PutAuditBlob,
      PutValueBatch, PutOpeningBatch, PutHistoryBatch, Write, ApplyStep, CatchUp, CatchUpsDone,
      Answer, EraseValue, EraseOpening
<1> QED
  BY <1>1, <1>2, <1>3, <1>4, <1>b DEF Smooth

\* A batch leaves phase 0 with the lock, and keeps its jobs until they are answered.
LEMMA BatchPhases ==
  ASSUME RefInv, [Next]_vars, faults' = 0, pc' \in {"version"} \cup Working
  PROVE  \/ Lock
         \/ /\ pc \in {"version"} \cup Working /\ work \subseteq work'
            /\ pc' \in Working => pc \in Working \/ Versioned
<1> USE DEF clientVars, workerVars, applyVars, treeVars, valueVars, storeVars, boundVars
<1>a. faults = 0 /\ Smoothly
  BY NoFault
<1>1. CASE UNCHANGED <<pc, work>>
  BY <1>1
<1>2. CASE Receive \/ Timeout \/ CatchUpsDone \/ BatchDone
  BY <1>2 DEF Receive, Timeout, CatchUpsDone, BatchDone, Working, WriteSteps
<1>3. CASE AssignVersions
  BY <1>3 DEF AssignVersions, CompareAndSwap, Reject, Working, WriteSteps
<1>4. CASE Versioned
  BY <1>4 DEF Versioned, Working, WriteSteps
<1>5. CASE Crypto \/ Checked
  BY <1>5 DEF Crypto, Checked, Working, WriteSteps
<1>6. CASE \/ PutPrefixBatch \/ PutPrefixPtr \/ SetNextPrefixVersion \/ BatchAppend \/ PutAuditBlob
           \/ PutValueBatch \/ PutOpeningBatch \/ PutHistoryBatch \/ SetHead
  <2>1. pc \in WriteSteps /\ work' = work
    BY <1>6
    DEF PutPrefixBatch, PutPrefixPtr, SetNextPrefixVersion, BatchAppend, PutAuditBlob,
        PutValueBatch, PutOpeningBatch, PutHistoryBatch, SetHead, Write, WriteSteps
  <2> QED
    BY <2>1 DEF Working
<1>7. ASSUME NEW j \in Jobs, Answer(j)
      PROVE  FALSE
  <2>1. pc' = "answer"
    BY <1>7 DEF Answer
  <2> QED
    BY <2>1 DEF Working, WriteSteps
<1>8. ASSUME NEW j \in Jobs, CatchUp(j) \/ \E r \in Requests : Submit(j, r)
      PROVE  UNCHANGED <<pc, work>>
  BY <1>8 DEF CatchUp, Submit
<1>9. CASE CheckVersion \/ EraseOpening \/ UNCHANGED vars
           \/ \E l \in Labels, k \in 1 .. MaxPtr : EraseValue(l, k)
  BY <1>1, <1>9 DEF CheckVersion, EraseOpening, vars, EraseValue
<1> QED
  BY <1>a, <1>1, <1>2, <1>3, <1>4, <1>5, <1>6, <1>7, <1>8, <1>9 DEF Smoothly, ApplyStep

\* The worker waits for a batch with all locals of the last one forgotten.
LEMMA IdlePhases ==
  ASSUME RefInv, [Next]_vars, faults' = 0, pc' \in {"idle", "lock"}
  PROVE  \/ BatchDone
         \/ pc \in {"idle", "lock"} /\ UNCHANGED <<pre, raced, outcome, overlay, valid>>
<1> USE DEF clientVars, workerVars, applyVars, treeVars, valueVars, storeVars, boundVars
<1>a. faults = 0 /\ Smoothly
  BY NoFault
<1>1. CASE Receive \/ Timeout
  BY <1>1 DEF Receive, Timeout
<1>2. ~(Lock \/ AssignVersions \/ Versioned \/ Crypto \/ CatchUpsDone \/ Checked \/ CheckVersion)
  BY DEF Lock, AssignVersions, CompareAndSwap, Versioned, Crypto, CatchUpsDone, Checked, CheckVersion
<1>3. ~(\/ PutPrefixBatch \/ PutPrefixPtr \/ SetNextPrefixVersion \/ BatchAppend \/ PutAuditBlob
        \/ PutValueBatch \/ PutOpeningBatch \/ PutHistoryBatch \/ SetHead)
  BY DEF PutPrefixBatch, PutPrefixPtr, SetNextPrefixVersion, BatchAppend, PutAuditBlob,
        PutValueBatch, PutOpeningBatch, PutHistoryBatch, SetHead, Write
<1>4. ASSUME NEW j \in Jobs
      PROVE  ~(CatchUp(j) \/ Answer(j))
  BY DEF CatchUp, Answer
<1>5. CASE \/ EraseOpening \/ UNCHANGED vars
           \/ \E l \in Labels, k \in 1 .. MaxPtr : EraseValue(l, k)
           \/ \E j \in Jobs, r \in Requests : Submit(j, r)
  BY <1>5 DEF EraseOpening, vars, EraseValue, Submit
<1>6. \/ Receive \/ Timeout \/ BatchDone \/ EraseOpening \/ UNCHANGED vars
      \/ \E l \in Labels, k \in 1 .. MaxPtr : EraseValue(l, k)
      \/ \E j \in Jobs, r \in Requests : Submit(j, r)
  BY <1>a, <1>2, <1>3, <1>4 DEF Smoothly, ApplyStep
<1> QED
  BY <1>1, <1>5, <1>6

\* The leaves of a batch belong to the jobs that wait for it, from the lock to set_head.
LEMMA BatchJobsStep == RefInv /\ [Next]_vars /\ faults' = 0 => BatchJobs'
<1> SUFFICES ASSUME RefInv, [Next]_vars, faults' = 0 PROVE BatchJobs'
  OBVIOUS
<1>a. faults = 0
  BY NoFault
<1>b. TypeInv /\ BatchJobs
  BY <1>a, InvariantParts
<1>1. ASSUME pc' \in {"idle", "lock"}
      PROVE  pre' = <<>> /\ raced' = {} /\ outcome' = "none"
  <2>1. CASE BatchDone
    BY <2>1 DEF BatchDone, ForgetBatch
  <2> QED
    BY <1>1, <1>b, <2>1, IdlePhases DEF BatchJobs
<1>2. ASSUME pc' \in {"version"} \cup Working, NEW x \in (Prepared \cup AddedLeaves)'
      PROVE  x.job \in work'
  <2>1. CASE Lock
    <3>1. /\ pc = "lock" /\ pre' = pre /\ valid' = valid
      BY <2>1 DEF Lock, applyVars
    <3>2. pre' = <<>> /\ AddedLeaves' = AddedLeaves /\ \A l \in Labels : valid[l] = <<>>
      BY <1>b, <3>1, UpdatesFrame DEF BatchJobs, TypeInv, BatchShape
    <3>3. Updates = {}
      BY <3>2, NoUpdates
    <3>4. AddedLeaves' = {} /\ Prepared' = {}
      BY <3>2, <3>3 DEF AddedLeaves, Prepared
    <3> QED
      BY <1>2, <3>4
  <2>2. CASE /\ pc \in {"version"} \cup Working /\ work \subseteq work'
             /\ x \in Prepared \cup AddedLeaves
    BY <1>b, <2>2 DEF BatchJobs
  <2>3. CASE work' = work \cup {Head(batch)} /\ x \in Own(Head(batch))
    BY <2>3 DEF Own
  <2> QED
    BY <1>2, <2>1, <2>2, <2>3, LeavesMove, BatchPhases
<1>3. ASSUME pc' \in Working
      PROVE  work' # {}
  <2>1. CASE Lock
    BY <1>3, <2>1 DEF Lock, Working, WriteSteps
  <2>2. CASE Versioned
    BY <1>3, <2>2 DEF Versioned, Working, WriteSteps
  <2>3. CASE pc \in Working /\ work \subseteq work'
    BY <1>b, <2>3 DEF BatchJobs
  <2> QED
    BY <1>3, <2>1, <2>2, <2>3, BatchPhases
<1> QED
  BY <1>1, <1>2, <1>3 DEF BatchJobs

\* Leaves that continue a label are linked to those before them.
LEMMA LinkedConcat ==
  ASSUME NEW s \in Seq(Leaves), NEW t \in Seq(Leaves), NEW base, NEW l \in Labels,
         NEW start \in Nat, Linked(s, base),
         \A k \in DOMAIN t : t[k].label = l /\ t[k].ver = start + k - 1,
         start = base[l] \/ \E k \in DOMAIN s : s[k].label = l /\ s[k].ver = start - 1,
         \A k \in DOMAIN s : s[k].label = l => s[k].ver < start
  PROVE  Linked(s \o t, base)
<1>1. PICK c : c = s \o t
  OBVIOUS
<1>2. /\ DOMAIN c = 1 .. Len(s) + Len(t) /\ Len(s) \in Nat /\ Len(t) \in Nat
      /\ DOMAIN s = 1 .. Len(s) /\ DOMAIN t = 1 .. Len(t)
      /\ \A i \in DOMAIN c : c[i] = IF i <= Len(s) THEN s[i] ELSE t[i - Len(s)]
  BY <1>1, ConcatSeq
<1>3. \A i \in DOMAIN s : i \in DOMAIN c /\ c[i] = s[i]
  BY <1>2
<1>4. ASSUME NEW i \in DOMAIN c, i \notin DOMAIN s
      PROVE  /\ i - Len(s) \in DOMAIN t /\ i > Len(s) /\ c[i].label = l
             /\ c[i].ver = start + (i - Len(s)) - 1
  <2>1. i - Len(s) \in DOMAIN t /\ i > Len(s) /\ c[i] = t[i - Len(s)]
    BY <1>2, <1>4
  <2> QED
    BY <2>1
<1>5. ASSUME NEW k \in DOMAIN c
      PROVE  \/ c[k].ver = base[c[k].label]
             \/ \E i \in 1 .. k - 1 : c[i].label = c[k].label /\ c[i].ver = c[k].ver - 1
  <2>1. CASE k \in DOMAIN s
    <3>1. \A i \in 1 .. k - 1 : i \in DOMAIN s
      BY <1>2, <2>1
    <3> QED
      BY <1>3, <2>1, <3>1, ZenonT(30) DEF Linked
  <2>2. CASE k = Len(s) + 1
    <3>1. k \notin DOMAIN s /\ k - Len(s) = 1 /\ k - 1 = Len(s)
      BY <1>2, <2>2
    <3>2. c[k].label = l /\ c[k].ver = start
      BY <1>4, <3>1
    <3>3. CASE start = base[l]
      BY <3>2, <3>3
    <3>4. CASE \E i \in DOMAIN s : s[i].label = l /\ s[i].ver = start - 1
      <4>1. PICK i \in DOMAIN s : s[i].label = l /\ s[i].ver = start - 1
        BY <3>4
      <4>2. i \in 1 .. k - 1 /\ c[i] = s[i]
        BY <1>2, <1>3, <3>1
      <4> QED
        BY <3>2, <4>1, <4>2
    <3> QED
      BY <3>3, <3>4
  <2>3. CASE k \notin DOMAIN s /\ k # Len(s) + 1
    <3>1. k - 1 \in DOMAIN c /\ k - 1 \notin DOMAIN s /\ k - 1 \in 1 .. k - 1
      BY <1>2, <2>3
    <3>2. c[k].label = l /\ c[k].ver = start + (k - Len(s)) - 1
      BY <1>4, <2>3
    <3>3. c[k - 1].label = l /\ c[k - 1].ver = start + (k - 1 - Len(s)) - 1
      BY <1>4, <3>1
    <3>4. c[k - 1].ver = c[k].ver - 1
      BY <1>2, <3>2, <3>3
    <3> QED
      BY <3>1, <3>2, <3>3, <3>4
  <2> QED
    BY <2>1, <2>2, <2>3
<1>6. ASSUME NEW k \in DOMAIN c, NEW i \in 1 .. k - 1, c[i].label = c[k].label
      PROVE  c[i].ver < c[k].ver
  <2>1. i \in DOMAIN c /\ (k \in DOMAIN s => i \in DOMAIN s) /\ i < k
    BY <1>2
  <2>2. CASE k \in DOMAIN s
    BY <1>3, <1>6, <2>1, <2>2 DEF Linked
  <2>3. CASE k \notin DOMAIN s /\ i \in DOMAIN s
    <3>1. c[k].label = l /\ c[k].ver = start + (k - Len(s)) - 1 /\ k > Len(s)
      BY <1>4, <2>3
    <3>2. c[i] = s[i] /\ s[i].ver < start /\ s[i] \in Leaves
      BY <1>3, <1>6, <2>3, <3>1
    <3>3. s[i].ver \in Nat
      BY <3>2 DEF Leaves, Versions
    <3> QED
      BY <1>2, <3>1, <3>2, <3>3
  <2>4. CASE k \notin DOMAIN s /\ i \notin DOMAIN s
    <3>1. c[k].ver = start + (k - Len(s)) - 1
      BY <1>4, <2>4
    <3>2. c[i].ver = start + (i - Len(s)) - 1
      BY <1>4, <2>1, <2>4
    <3> QED
      BY <1>2, <2>1, <3>1, <3>2
  <2> QED
    BY <2>2, <2>3, <2>4
<1> QED
  BY <1>1, <1>5, <1>6 DEF Linked

\* Accepting the first leaf moves the base of its label.
LEMMA LinkedTail ==
  ASSUME NEW s \in Seq(Leaves), s # <<>>, NEW base \in [Labels -> Nat], Linked(s, base),
         Head(s).ver = base[Head(s).label]
  PROVE  Linked(Tail(s), [base EXCEPT ![Head(s).label] = @ + 1])
<1>1. PICK t, u, m, new : /\ t = Tail(s) /\ u = Head(s) /\ m = u.label
                          /\ new = [base EXCEPT ![m] = @ + 1]
  OBVIOUS
<1>2. /\ u \in Leaves /\ u = s[1] /\ 1 \in DOMAIN s /\ DOMAIN t = 1 .. Len(s) - 1
      /\ DOMAIN s = 1 .. Len(s) /\ Len(s) \in Nat
      /\ \A k \in DOMAIN t : k + 1 \in DOMAIN s /\ t[k] = s[k + 1]
  BY <1>1, TailSeq
<1>3. m \in Labels /\ u.ver = base[m] /\ u.ver \in Nat
  BY <1>1, <1>2 DEF Leaves, Versions
<1>4. new[m] = base[m] + 1 /\ \A l \in Labels : l # m => new[l] = base[l]
  BY <1>1, <1>3
<1>5. ASSUME NEW k \in DOMAIN t
      PROVE  \/ t[k].ver = new[t[k].label]
             \/ \E i \in 1 .. k - 1 : t[i].label = t[k].label /\ t[i].ver = t[k].ver - 1
  <2>1. PICK w : w = t[k]
    OBVIOUS
  <2>2. k + 1 \in DOMAIN s /\ w = s[k + 1] /\ 1 \in 1 .. k + 1 - 1 /\ k \in Nat
    BY <1>2, <2>1
  <2>3. w \in Leaves
    BY <2>2
  <2>4. w.label \in Labels /\ w.ver \in Nat
    BY <2>3 DEF Leaves, Versions
  <2>5. w.label = m => u.ver < w.ver
    BY <1>1, <1>2, <2>2 DEF Linked
  <2>6. \/ w.ver = base[w.label]
        \/ \E i \in 1 .. k + 1 - 1 : s[i].label = w.label /\ s[i].ver = w.ver - 1
    BY <2>2 DEF Linked
  <2>7. CASE w.ver = base[w.label]
    <3>1. w.label # m
      BY <1>3, <2>4, <2>5, <2>7
    <3> QED
      BY <1>4, <2>1, <2>4, <2>7, <3>1
  <2>8. CASE \E i \in 1 .. k + 1 - 1 : s[i].label = w.label /\ s[i].ver = w.ver - 1
    <3>1. PICK i \in 1 .. k + 1 - 1 : s[i].label = w.label /\ s[i].ver = w.ver - 1
      BY <2>8
    <3>2. CASE i = 1
      <4>1. w.label = m /\ u.ver = w.ver - 1
        BY <1>1, <1>2, <3>1, <3>2
      <4>2. w.ver = new[m]
        BY <1>3, <1>4, <2>4, <4>1
      <4> QED
        BY <2>1, <4>1, <4>2
    <3>3. CASE i # 1
      <4>1. i - 1 \in 1 .. k - 1 /\ i - 1 \in DOMAIN t /\ i - 1 + 1 = i
        BY <1>2, <2>2, <3>3
      <4>2. t[i - 1] = s[i]
        BY <1>2, <4>1
      <4> QED
        BY <2>1, <3>1, <4>1, <4>2
    <3> QED
      BY <3>2, <3>3
  <2> QED
    BY <2>6, <2>7, <2>8
<1>6. ASSUME NEW k \in DOMAIN t, NEW i \in 1 .. k - 1, t[i].label = t[k].label
      PROVE  t[i].ver < t[k].ver
  <2>1. i \in DOMAIN t /\ i + 1 \in 1 .. k + 1 - 1
    BY <1>2
  <2>2. PICK a, b : a = k + 1 /\ b = i + 1
    OBVIOUS
  <2>3. a \in DOMAIN s /\ t[k] = s[a] /\ t[i] = s[b] /\ b \in 1 .. a - 1
    BY <1>2, <2>1, <2>2
  <2>4. \A x \in DOMAIN s : \A y \in 1 .. x - 1 : s[y].label = s[x].label => s[y].ver < s[x].ver
    BY DEF Linked
  <2> QED
    BY <1>6, <2>3, <2>4
<1> QED
  BY <1>1, <1>5, <1>6 DEF Linked

\* The overlay of phase 1 follows the versions it assigns.
LEMMA ToppedConcat ==
  ASSUME NEW s \in Seq(Leaves), NEW t \in Seq(Leaves), NEW l \in Labels, NEW m \in Labels,
         NEW n \in Nat \ {0}, NEW start \in Nat, NEW top \in Nat \cup {NoVersion}, Topped(s, m, top),
         DOMAIN t = 1 .. n, \A k \in DOMAIN t : t[k].label = l /\ t[k].ver = start + k - 1,
         m = l => \A k \in DOMAIN s : s[k].label = l => s[k].ver < start
  PROVE  Topped(s \o t, m, IF m = l THEN start + n - 1 ELSE top)
<1>1. PICK c : c = s \o t
  OBVIOUS
<1>2. /\ DOMAIN c = 1 .. Len(s) + n /\ Len(s) \in Nat /\ DOMAIN s = 1 .. Len(s)
      /\ \A i \in DOMAIN c : c[i] = IF i <= Len(s) THEN s[i] ELSE t[i - Len(s)]
  <2>1. Len(t) = n
    OBVIOUS
  <2> QED
    BY <1>1, <2>1, ConcatSeq
<1>3. \A i \in DOMAIN s : i \in DOMAIN c /\ c[i] = s[i]
  BY <1>2
<1>4. ASSUME NEW i \in DOMAIN c, i \notin DOMAIN s
      PROVE  c[i].label = l /\ c[i].ver = start + (i - Len(s)) - 1
  <2>1. i - Len(s) \in DOMAIN t /\ c[i] = t[i - Len(s)]
    BY <1>2, <1>4
  <2> QED
    BY <2>1
<1>5. CASE m # l
  <2>1. \A k \in DOMAIN c : c[k].label = m => k \in DOMAIN s
    BY <1>4, <1>5
  <2> QED
    BY <1>1, <1>3, <1>5, <2>1 DEF Topped
<1>6. CASE m = l
  <2>1. Len(s) + n \in DOMAIN c /\ Len(s) + n \notin DOMAIN s /\ Len(s) + n - Len(s) = n
    BY <1>2
  <2>2. c[Len(s) + n].label = l /\ c[Len(s) + n].ver = start + n - 1
    BY <1>4, <2>1
  <2>3. ASSUME NEW k \in DOMAIN c, c[k].label = m
        PROVE  c[k].ver <= start + n - 1
    <3>1. CASE k \in DOMAIN s
      <4>1. s[k] \in Leaves /\ s[k].ver < start
        BY <1>3, <1>6, <2>3, <3>1
      <4>2. s[k].ver \in Nat
        BY <4>1 DEF Leaves, Versions
      <4> QED
        BY <1>3, <3>1, <4>1, <4>2
    <3>2. CASE k \notin DOMAIN s
      BY <1>2, <1>4, <3>2
    <3> QED
      BY <3>1, <3>2
  <2>4. start + n - 1 # NoVersion
    BY DEF NoVersion
  <2> QED
    BY <1>1, <1>6, <2>1, <2>2, <2>3, <2>4 DEF Topped
<1> QED
  BY <1>5, <1>6

\* Before the check no update has been accepted.
LEMMA BaseIsLength ==
  ASSUME TypeInv, pc \in {"version", "crypto"}, NEW l \in Labels
  PROVE  Base(l) = Len(history[l])
<1>1. valid[l] = <<>> /\ Len(history[l]) \in Nat
  BY StoreTypes DEF TypeInv, BatchShape
<1> QED
  BY <1>1 DEF Base

\* Phase 1 continues the versions of a label where the stored or the prepared ones end.
LEMMA AssignMoves ==
  ASSUME RefInv, faults = 0, AssignVersions
  PROVE  \/ UNCHANGED <<pre, overlay>>
         \/ \E l \in Labels, start \in Nat, n \in Nat \ {0}, t \in Seq(Leaves) :
              /\ pre' = pre \o t /\ overlay' = [overlay EXCEPT ![l] = start + n - 1]
              /\ DOMAIN t = 1 .. n
              /\ \A k \in DOMAIN t : t[k].label = l /\ t[k].ver = start + k - 1
              /\ \/ start = Bases[l]
                 \/ \E k \in DOMAIN pre : pre[k].label = l /\ pre[k].ver = start - 1
              /\ \A k \in DOMAIN pre : pre[k].label = l => pre[k].ver < start
              /\ start >= Len(history[l])
<1> SUFFICES ASSUME ~UNCHANGED <<pre, overlay>>
             PROVE  \E l \in Labels, start \in Nat, n \in Nat \ {0}, t \in Seq(Leaves) :
                      /\ pre' = pre \o t /\ overlay' = [overlay EXCEPT ![l] = start + n - 1]
                      /\ DOMAIN t = 1 .. n
                      /\ \A k \in DOMAIN t : t[k].label = l /\ t[k].ver = start + k - 1
                      /\ \/ start = Bases[l]
                         \/ \E k \in DOMAIN pre : pre[k].label = l /\ pre[k].ver = start - 1
                      /\ \A k \in DOMAIN pre : pre[k].label = l => pre[k].ver < start
                      /\ start >= Len(history[l])
  OBVIOUS
<1>1. /\ TypeInv /\ HistoryContiguous /\ OverlayPrepared /\ pc = "version" /\ pre \in Seq(Leaves)
  BY InvariantParts DEF AssignVersions, Numbering, TypeInv, TypeOK
<1>2. PICK j, r, l, g : /\ j = Head(batch) /\ r = req[j] /\ l = r.label
                        /\ g = CurrentGreatest(req[Head(batch)].label)
  OBVIOUS
<1>3. j \in Jobs /\ r \in Requests
  BY <1>2, SwapMoves
<1>4. l \in Labels /\ r.n \in Nat /\ r.greatest \in Int
  BY <1>2, <1>3, BoundsAssumption DEF Requests, NoVersion
<1>5. /\ r.greatest = g /\ r.n > 0 /\ overlay' = [overlay EXCEPT ![l] = g + r.n]
      /\ pre' = pre \o Assigned(j, g + 1, r.n)
  BY <1>2 DEF AssignVersions, CompareAndSwap, Reject
<1>6. g = CurrentGreatest(l) /\ g \in Versions \cup {NoVersion}
  BY <1>1, <1>2, <1>4, CurrentGreatestType DEF TypeInv
<1>7. PICK start, n, t : start = g + 1 /\ n = r.n /\ t = Assigned(j, g + 1, r.n)
  OBVIOUS
<1>8. start \in Nat /\ n \in Nat \ {0} /\ g + r.n = start + n - 1 /\ start - 1 = g
  <2>1. g \in Int /\ g >= -1 /\ r.n \in Nat /\ r.n > 0
    BY <1>4, <1>5, <1>6 DEF Versions, NoVersion
  <2> QED
    BY <1>7, <2>1
<1>9. t \in Seq(Leaves)
  BY <1>2, <1>3, <1>4, <1>7, <1>8, AssignedType
<1>10. DOMAIN t = 1 .. n /\ \A k \in DOMAIN t : t[k].label = l /\ t[k].ver = start + k - 1
  BY <1>2, <1>7 DEF Assigned
<1>11. pre' = pre \o t /\ overlay' = [overlay EXCEPT ![l] = start + n - 1]
  BY <1>5, <1>7, <1>8
<1>12. Topped(pre, l, overlay[l]) /\ (overlay[l] = NoVersion \/ overlay[l] >= Len(history[l]))
  BY <1>1, <1>4 DEF OverlayPrepared
<1>13. Len(history[l]) \in Nat /\ LastVersion(l) = Len(history[l]) - 1
  BY <1>1, <1>4, LastIsLength, StoreTypes
<1>14. CASE overlay[l] = NoVersion
  <2>1. start = Len(history[l])
    BY <1>6, <1>7, <1>13, <1>14 DEF CurrentGreatest
  <2>2. start = Bases[l]
    BY <1>1, <1>4, <2>1, BaseIsLength DEF Bases
  <2>3. \A k \in DOMAIN pre : pre[k].label # l
    BY <1>12, <1>14 DEF Topped
  <2>4. start >= Len(history[l])
    BY <1>13, <2>1
  <2> QED
    BY <1>4, <1>8, <1>9, <1>10, <1>11, <2>2, <2>3, <2>4, ZenonT(30)
<1>15. CASE overlay[l] # NoVersion
  <2>1. overlay[l] = g /\ g \in Nat
    BY <1>6, <1>15 DEF CurrentGreatest, Versions
  <2>2. start >= Len(history[l])
    BY <1>12, <1>13, <1>15, <1>7, <2>1
  <2>3. \E k \in DOMAIN pre : pre[k].label = l /\ pre[k].ver = start - 1
    BY <1>8, <1>12, <1>15, <2>1 DEF Topped
  <2>4. ASSUME NEW k \in DOMAIN pre, pre[k].label = l
        PROVE  pre[k].ver < start
    <3>1. pre[k] \in Leaves
      BY <1>1
    <3>2. pre[k].ver <= g /\ pre[k].ver \in Nat
      BY <1>12, <2>1, <2>4, <3>1 DEF Topped, Leaves, Versions
    <3> QED
      BY <1>7, <2>1, <3>2
  <2> QED
    BY <1>4, <1>8, <1>9, <1>10, <1>11, <2>2, <2>3, <2>4
<1> QED
  BY <1>14, <1>15

\* The steps from the lock to the end of the check.
LEMMA CheckPhases ==
  ASSUME RefInv, [Next]_vars, faults' = 0, pc' \in {"version", "crypto", "check"}
  PROVE  \/ Lock \/ AssignVersions \/ CheckVersion
         \/ /\ pc \in {"version", "crypto", "check"} /\ UNCHANGED <<pre, valid, history>>
            /\ pc' = "version" => pc = "version" /\ overlay' = overlay
<1> USE DEF clientVars, workerVars, applyVars, treeVars, valueVars, storeVars, boundVars
<1>a. faults = 0 /\ Smoothly
  BY NoFault
<1>1. CASE Versioned \/ Crypto
  BY <1>1 DEF Versioned, Crypto
<1>2. ~(Timeout \/ CatchUpsDone \/ BatchDone \/ Receive)
  BY DEF Timeout, CatchUpsDone, BatchDone, Receive
<1>3. ~(\/ PutPrefixBatch \/ PutPrefixPtr \/ SetNextPrefixVersion \/ BatchAppend \/ PutAuditBlob
        \/ PutValueBatch \/ PutOpeningBatch \/ PutHistoryBatch \/ SetHead \/ Checked)
  BY DEF PutPrefixBatch, PutPrefixPtr, SetNextPrefixVersion, BatchAppend, PutAuditBlob,
        PutValueBatch, PutOpeningBatch, PutHistoryBatch, SetHead, Write, Checked
<1>4. ASSUME NEW j \in Jobs
      PROVE  ~(CatchUp(j) \/ Answer(j))
  BY DEF CatchUp, Answer
<1>5. CASE \/ EraseOpening \/ UNCHANGED vars
           \/ \E l \in Labels, k \in 1 .. MaxPtr : EraseValue(l, k)
           \/ \E j \in Jobs, r \in Requests : Submit(j, r)
  BY <1>5 DEF EraseOpening, vars, EraseValue, Submit
<1>6. \/ Versioned \/ Crypto \/ Lock \/ AssignVersions \/ CheckVersion
      \/ EraseOpening \/ UNCHANGED vars
      \/ \E l \in Labels, k \in 1 .. MaxPtr : EraseValue(l, k)
      \/ \E j \in Jobs, r \in Requests : Submit(j, r)
  BY <1>a, <1>2, <1>3, <1>4 DEF Smoothly, ApplyStep
<1> QED
  BY <1>1, <1>5, <1>6

\* Phase 1 and the check keep the prepared leaves numbered from where the accepted ones end.
LEMMA PreStep == RefInv /\ [Next]_vars /\ faults' = 0 => PreNumbered'
<1> SUFFICES ASSUME RefInv, [Next]_vars, faults' = 0, pc' \in {"version", "crypto", "check"}
             PROVE  Linked(pre, Bases)'
  BY DEF PreNumbered
<1>a. faults = 0
  BY NoFault
<1>b. TypeInv /\ PreNumbered /\ BatchJobs /\ pre \in Seq(Leaves)
  BY <1>a, InvariantParts DEF TypeInv, TypeOK
<1>1. CASE Lock
  <2>1. pre' = <<>>
    BY <1>1, <1>b DEF Lock, BatchJobs
  <2> QED
    BY <2>1 DEF Linked
<1>2. CASE AssignVersions
  <2>1. /\ Bases' = Bases /\ Linked(pre, Bases)
    BY <1>2, <1>b DEF AssignVersions, CompareAndSwap, Bases, Base, applyVars, storeVars, PreNumbered
  <2>2. CASE pre' = pre
    <3>1. Linked(pre', Bases')
      BY <2>1, <2>2
    <3> QED
      BY <3>1 DEF Linked
  <2>3. CASE \E l \in Labels, start \in Nat, n \in Nat \ {0}, t \in Seq(Leaves) :
              /\ pre' = pre \o t
              /\ \A k \in DOMAIN t : t[k].label = l /\ t[k].ver = start + k - 1
              /\ \/ start = Bases[l]
                 \/ \E k \in DOMAIN pre : pre[k].label = l /\ pre[k].ver = start - 1
              /\ \A k \in DOMAIN pre : pre[k].label = l => pre[k].ver < start
    <3>1. Linked(pre', Bases)
      BY <1>b, <2>1, <2>3, LinkedConcat
    <3>2. Linked(pre', Bases')
      BY <2>1, <3>1
    <3> QED
      BY <3>2 DEF Linked
  <2> QED
    BY <1>2, <1>a, <2>2, <2>3, AssignMoves, ZenonT(30)
<1>3. CASE CheckVersion
  <2>1. PICK u : u = Head(pre)
    OBVIOUS
  <2>2. /\ u \in Leaves /\ u.ver = Base(u.label) /\ u.ver = CurrentGreatest(u.label) + 1
        /\ pre # <<>> /\ pre' = Tail(pre) /\ history' = history /\ Linked(pre, Bases)
    BY <1>3, <1>a, <1>b, <2>1, CheckAccepts DEF CheckVersion, storeVars, PreNumbered
  <2>3. PICK x : valid' = [valid EXCEPT ![u.label] = Append(@, x)] /\ x \in Slots
    <3>1. PICK x : /\ x = [ver |-> u.ver, ptr |-> nextPrefix + alloc, job |-> u.job]
                   /\ valid' = [valid EXCEPT ![u.label] = Append(@, x)]
      BY <1>3, <2>1, <2>2 DEF CheckVersion
    <3>2. nextPrefix + alloc \in Ptrs
      <4>1. nextPrefix + alloc < MaxPtr
        BY <1>3, Zenon DEF CheckVersion
      <4>2. nextPrefix \in Nat /\ alloc \in Nat
        BY <1>b, StoreTypes
      <4> QED
        BY <4>1, <4>2, BoundsAssumption DEF Ptrs
    <3>3. x \in Slots
      BY <2>2, <3>1, <3>2 DEF Slots, Leaves
    <3> QED
      BY <3>1, <3>3
  <2>4. u.label \in Labels
    BY <2>2 DEF Leaves
  <2>5. ASSUME NEW l
         PROVE  Base(l) = Len(history[l]) + Len(valid[l])
                /\ Base(l)' = Len(history'[l]) + Len(valid'[l])
    BY DEF Base
  <2>6. ASSUME NEW l \in Labels
        PROVE  /\ Base(l) \in Nat
               /\ Base(l)' = IF l = u.label THEN Base(l) + 1 ELSE Base(l)
    <3>1. valid[l] \in Seq(Slots) /\ history[l] \in Seq(Records) /\ valid \in [Labels -> Seq(Slots)]
      BY <1>b, StoreTypes
    <3>2. CASE l = u.label
      <4>1. valid'[l] = Append(valid[l], x)
        BY <2>3, <3>1, <3>2
      <4>2. Len(valid'[l]) = Len(valid[l]) + 1
        BY <2>3, <3>1, <4>1
      <4>3. Len(history'[l]) = Len(history[l]) /\ Len(history[l]) \in Nat /\ Len(valid[l]) \in Nat
        BY <2>2, <3>1
      <4>4. PICK h, v : h = Len(history[l]) /\ v = Len(valid[l])
        OBVIOUS
      <4>5. h \in Nat /\ v \in Nat
        BY <4>3, <4>4
      <4>6. Base(l) = h + v /\ Base(l)' = h + (v + 1)
        BY <2>5, <4>2, <4>3, <4>4, Zenon
      <4> QED
        BY <3>2, <4>5, <4>6
    <3>3. CASE l # u.label
      <4>1. valid'[l] = valid[l]
        BY <2>3, <3>1, <3>3
      <4>2. Len(history'[l]) = Len(history[l]) /\ Len(history[l]) \in Nat /\ Len(valid[l]) \in Nat
        BY <2>2, <3>1
      <4>3. PICK h, v : h = Len(history[l]) /\ v = Len(valid[l])
        OBVIOUS
      <4>4. h \in Nat /\ v \in Nat
        BY <4>2, <4>3
      <4>5. Base(l) = h + v /\ Base(l)' = h + v
        BY <2>5, <4>1, <4>2, <4>3, Zenon
      <4> QED
        BY <3>3, <4>4, <4>5
    <3> QED
      BY <3>2, <3>3
  <2>7. Bases' = [Bases EXCEPT ![u.label] = @ + 1] /\ Bases \in [Labels -> Nat]
    BY <2>4, <2>6 DEF Bases
  <2>8. u.ver = Bases[u.label]
    BY <2>2, <2>4 DEF Bases
  <2>9. Linked(Tail(pre), [Bases EXCEPT ![u.label] = @ + 1])
    BY <1>b, <2>1, <2>2, <2>7, <2>8, LinkedTail
  <2>10. Linked(pre', Bases')
    BY <2>2, <2>7, <2>9
  <2> QED
    BY <2>10 DEF Linked
<1>4. CASE /\ pc \in {"version", "crypto", "check"} /\ UNCHANGED <<pre, valid, history>>
  <2>1. Bases' = Bases /\ Linked(pre, Bases)
    BY <1>4, <1>b DEF Bases, Base, PreNumbered
  <2>2. Linked(pre', Bases')
    BY <1>4, <2>1
  <2> QED
    BY <2>2 DEF Linked
<1> QED
  BY <1>1, <1>2, <1>3, <1>4, CheckPhases

\* The overlay of phase 1 stays the greatest version it has prepared.
LEMMA OverlayStep == RefInv /\ [Next]_vars /\ faults' = 0 => OverlayPrepared'
<1> SUFFICES ASSUME RefInv, [Next]_vars, faults' = 0 PROVE OverlayPrepared'
  OBVIOUS
<1>a. faults = 0
  BY NoFault
<1>b. /\ TypeInv /\ OverlayPrepared /\ BatchJobs /\ pre \in Seq(Leaves)
      /\ overlay \in [Labels -> Versions \cup {NoVersion}]
  BY <1>a, InvariantParts DEF TypeInv, TypeOK
<1>1. ASSUME pc' \in {"idle", "lock"}, NEW l \in Labels
      PROVE  overlay'[l] = NoVersion
  <2>1. CASE BatchDone
    BY <2>1 DEF BatchDone, ForgetBatch
  <2> QED
    BY <1>1, <1>b, <2>1, IdlePhases DEF OverlayPrepared
<1>2. ASSUME pc' = "version", NEW m \in Labels
      PROVE  /\ overlay'[m] = NoVersion \/ overlay'[m] >= Len(history'[m])
             /\ Topped(pre', m, overlay'[m])
  <2>1. CASE Lock
    <3>1. pre' = <<>> /\ overlay'[m] = NoVersion
      BY <1>b, <2>1 DEF Lock, BatchJobs, OverlayPrepared, workerVars
    <3> QED
      BY <3>1 DEF Topped
  <2>2. CASE AssignVersions
    <3>1. /\ history' = history /\ Topped(pre, m, overlay[m])
          /\ overlay[m] = NoVersion \/ overlay[m] >= Len(history[m])
      BY <1>b, <2>2 DEF AssignVersions, CompareAndSwap, storeVars, OverlayPrepared
    <3>2. CASE UNCHANGED <<pre, overlay>>
      BY <3>1, <3>2
    <3>3. CASE \E l \in Labels, start \in Nat, n \in Nat \ {0}, t \in Seq(Leaves) :
                 /\ pre' = pre \o t /\ overlay' = [overlay EXCEPT ![l] = start + n - 1]
                 /\ DOMAIN t = 1 .. n
                 /\ \A k \in DOMAIN t : t[k].label = l /\ t[k].ver = start + k - 1
                 /\ \A k \in DOMAIN pre : pre[k].label = l => pre[k].ver < start
                 /\ start >= Len(history[l])
      <4>1. PICK l \in Labels, start \in Nat, n \in Nat \ {0}, t \in Seq(Leaves) :
                 /\ pre' = pre \o t /\ overlay' = [overlay EXCEPT ![l] = start + n - 1]
                 /\ DOMAIN t = 1 .. n
                 /\ \A k \in DOMAIN t : t[k].label = l /\ t[k].ver = start + k - 1
                 /\ \A k \in DOMAIN pre : pre[k].label = l => pre[k].ver < start
                 /\ start >= Len(history[l])
        BY <3>3
      <4>2. overlay'[m] = IF m = l THEN start + n - 1 ELSE overlay[m]
        BY <1>b, <4>1
      <4>3. overlay[m] \in Nat \cup {NoVersion}
        BY <1>b DEF Versions
      <4>4. Topped(pre \o t, m, IF m = l THEN start + n - 1 ELSE overlay[m])
        BY <1>b, <3>1, <4>1, <4>3, ToppedConcat, ZenonT(30)
      <4>5. Topped(pre', m, overlay'[m])
        BY <4>1, <4>2, <4>4
      <4>6. Len(history[m]) \in Nat
        BY <1>b, StoreTypes
      <4>7. overlay'[m] = NoVersion \/ overlay'[m] >= Len(history[m])
        BY <3>1, <4>1, <4>2, <4>6
      <4> QED
        BY <3>1, <4>5, <4>7
    <3> QED
      BY <1>a, <2>2, <3>2, <3>3, AssignMoves, ZenonT(30)
  <2>3. CheckVersion => pc' = "check"
    BY DEF CheckVersion
  <2>4. CASE pc = "version" /\ UNCHANGED <<pre, history, overlay>>
    BY <1>b, <2>4 DEF OverlayPrepared
  <2> QED
    BY <1>2, <2>1, <2>2, <2>3, <2>4, CheckPhases
<1> QED
  BY <1>1, <1>2 DEF OverlayPrepared, Topped

\* put_history_batch appends the records of the batch at the end of each history.
LEMMA HeadNumberedStep == RefInv /\ [Next]_vars /\ faults' = 0 => HeadNumbered'
<1> SUFFICES ASSUME RefInv, [Next]_vars, faults' = 0, pc' = "head" PROVE HeadNumbered'
  BY DEF HeadNumbered
<1> USE DEF clientVars, workerVars, applyVars, treeVars, valueVars, storeVars, boundVars
<1>a. faults = 0 /\ Smoothly
  BY NoFault
<1>b. TypeInv /\ HeadNumbered /\ SlotsContinueHistory /\ TreeInv /\ Known
  BY <1>a, InvariantParts DEF Numbering, TreeInv, LogMatches
<1>1. CASE PutHistoryBatch
  <2>1. /\ pc = "history" /\ history' = [l \in Labels |-> history[l] \o NewRecords(l)]
        /\ UNCHANGED <<valid, head, entry>>
    BY <1>1 DEF PutHistoryBatch, Write
  <2>2. ASSUME NEW l \in Labels
        PROVE  /\ Len(history[l]) \in Nat /\ Len(valid[l]) \in Nat
               /\ Len(history'[l]) = Len(history[l]) + Len(valid[l])
    <3>1. /\ history[l] \in Seq(Records) /\ valid[l] \in Seq(Slots) /\ NewRecords(l) \in Seq(Records)
      BY <1>b, StoreTypes, NewRecordsType DEF TypeInv
    <3>2. Len(NewRecords(l)) = Len(valid[l])
      BY <3>1 DEF NewRecords
    <3>3. history'[l] = history[l] \o NewRecords(l)
      BY <2>1
    <3>4. PICK s, t : s = history[l] /\ t = NewRecords(l)
      OBVIOUS
    <3>5. Len(s) \in Nat /\ Len(s \o t) = Len(s) + Len(t)
      BY <3>1, <3>4
    <3>6. Len(history'[l]) = Len(s) + Len(valid[l]) /\ Len(history[l]) = Len(s)
      BY <3>2, <3>3, <3>4, <3>5
    <3> QED
      BY <3>1, <3>5, <3>6
  <2>3. ASSUME NEW l \in Labels, NEW k \in DOMAIN valid[l]
        PROVE  valid[l][k].ver = Len(history[l]) + k - 1
    BY <1>b, <2>1 DEF SlotsContinueHistory, SlotsNumbered, Unindexed, Uncounted
  <2>4. ASSUME NEW l \in Labels, NEW i \in 0 .. head - 1, NEW x \in entry[i], x.label = l
        PROVE  x.ver < Len(history[l])
    BY <1>b, <2>4 DEF Known
  <2>5. ASSUME NEW l \in Labels
        PROVE  /\ Len(valid'[l]) <= Len(history'[l])
               /\ Len(history'[l]) - Len(valid'[l]) = Len(history[l])
    <3>1. PICK h, v, new : h = Len(history[l]) /\ v = Len(valid[l]) /\ new = Len(history'[l])
      OBVIOUS
    <3>2. h \in Nat /\ v \in Nat /\ new = h + v
      BY <2>2, <3>1
    <3>3. v <= new /\ new - v = h
      BY <3>2
    <3>4. Len(valid'[l]) = v
      BY <2>1, <3>1, Zenon
    <3> QED
      BY <3>1, <3>3, <3>4, Zenon
  <2>6. ASSUME NEW l \in Labels, NEW k \in DOMAIN valid'[l]
        PROVE  valid'[l][k].ver = Len(history'[l]) - Len(valid'[l]) + k - 1
    BY <2>1, <2>3, <2>5
  <2>7. ASSUME NEW l \in Labels, NEW i \in 0 .. head' - 1, NEW x \in entry'[i], x.label = l
        PROVE  x.ver < Len(history'[l]) - Len(valid'[l])
    BY <2>1, <2>4, <2>5, <2>7
  <2> QED
    BY <2>5, <2>6, <2>7 DEF HeadNumbered
<1>2. CASE pc = "head" /\ UNCHANGED <<valid, history, head, entry>>
  BY <1>2, <1>b DEF HeadNumbered
<1>3. ~(Timeout \/ CatchUpsDone \/ BatchDone \/ Receive \/ Lock \/ AssignVersions \/ Versioned \/ Crypto)
  BY DEF Timeout, CatchUpsDone, BatchDone, Receive, Lock, AssignVersions, CompareAndSwap, Versioned,
         Crypto
<1>4. ~(\/ PutPrefixBatch \/ PutPrefixPtr \/ SetNextPrefixVersion \/ BatchAppend \/ PutAuditBlob
        \/ PutValueBatch \/ PutOpeningBatch \/ SetHead \/ Checked \/ CheckVersion)
  BY DEF PutPrefixBatch, PutPrefixPtr, SetNextPrefixVersion, BatchAppend, PutAuditBlob,
        PutValueBatch, PutOpeningBatch, SetHead, Write, Checked, CheckVersion
<1>5. ASSUME NEW j \in Jobs
      PROVE  ~(CatchUp(j) \/ Answer(j))
  BY DEF CatchUp, Answer
<1>6. CASE \/ EraseOpening \/ UNCHANGED vars
           \/ \E l \in Labels, k \in 1 .. MaxPtr : EraseValue(l, k)
           \/ \E j \in Jobs, r \in Requests : Submit(j, r)
  BY <1>2, <1>6 DEF EraseOpening, vars, EraseValue, Submit
<1>7. \/ PutHistoryBatch \/ EraseOpening \/ UNCHANGED vars
      \/ \E l \in Labels, k \in 1 .. MaxPtr : EraseValue(l, k)
      \/ \E j \in Jobs, r \in Requests : Submit(j, r)
  BY <1>a, <1>3, <1>4, <1>5 DEF Smoothly, ApplyStep
<1> QED
  BY <1>1, <1>6, <1>7

\* Nothing is waiting, prepared or committed at the start.
LEMMA InitRef == Init => RefInv
<1> SUFFICES ASSUME Init PROVE RefInv
  OBVIOUS
<1>1. CatchUpInv /\ AnswerInv
  BY InitCatchUp, InitAnswer
<1>2. OnePlace
  BY DEF Init, OnePlace, In, Distinct
<1>3. Fresh
  BY DEF Init, Fresh, Unanswered, Logged, In
<1>4. Updates = {} /\ AddedLeaves = {} /\ Prepared = {}
  <2>1. Updates = {}
    BY NoUpdates DEF Init
  <2> QED
    BY <2>1 DEF Init, AddedLeaves, Prepared
<1>5. Owned /\ BatchJobs /\ Smooth
  BY <1>4 DEF Init, Owned, BatchJobs, Smooth, Working, WriteSteps
<1>6. PreNumbered /\ OverlayPrepared /\ HeadNumbered
  BY DEF Init, PreNumbered, OverlayPrepared, HeadNumbered
<1> QED
  BY <1>1, <1>2, <1>3, <1>5, <1>6 DEF RefInv, Quiet

\* Every step keeps the invariant.
LEMMA RefStep == RefInv /\ [Next]_vars => RefInv'
<1> SUFFICES ASSUME RefInv, [Next]_vars PROVE RefInv'
  OBVIOUS
<1>1. CatchUpInv'
  BY SearchStep, AscendStep, AskedStep, ToldStep
  DEF RefInv, CatchUpInv, SearchInv, IndexInv, TreeInv, Numbering
<1>2. AnswerInv'
  BY TreeStep, WaitingStep, AckedStep DEF RefInv, AnswerInv
<1>3. faults' = 0 => Quiet'
  BY PlacesStep, FreshStep, OwnedStep, BatchJobsStep, SmoothStep, PreStep, OverlayStep,
     HeadNumberedStep DEF Quiet
<1> QED
  BY <1>1, <1>2, <1>3 DEF RefInv

-----------------------------------------------------------------------------
\* The log that readers are shown, entry by entry.
LEMMA LogEntries ==
  ASSUME TypeInv
  PROVE  /\ DOMAIN CommittedLog = 1 .. latest /\ latest \in Nat
         /\ \A i \in 1 .. latest : CommittedLog[i] = entry[i - 1] \ PrevTree(i - 1)
BY StoreTypes DEF CommittedLog

\* What was added is what is in one of the trees.
LEMMA CommittedOnce ==
  ASSUME TypeInv, latest = head
  PROVE  \A x : x \in Abstract!Committed <=> \E i \in 0 .. head - 1 : x \in entry[i]
<1>1. /\ DOMAIN CommittedLog = 1 .. head /\ head \in Nat
      /\ \A i \in 1 .. head : CommittedLog[i] = entry[i - 1] \ PrevTree(i - 1)
  BY LogEntries
<1>2. ASSUME NEW x, x \in Abstract!Committed
      PROVE  \E i \in 0 .. head - 1 : x \in entry[i]
  <2>1. PICK i \in 1 .. head : x \in CommittedLog[i]
    BY <1>1, <1>2 DEF Abstract!Committed
  <2>2. i - 1 \in 0 .. head - 1 /\ x \in entry[i - 1]
    BY <1>1, <2>1
  <2> QED
    BY <2>2
<1>3. ASSUME NEW x, NEW i \in 0 .. head - 1, x \in entry[i]
      PROVE  x \in Abstract!Committed
  <2>1. PICK S : S = {n \in 0 .. head - 1 : x \in entry[n]}
    OBVIOUS
  <2>2. S \in SUBSET Nat /\ S # {}
    BY <1>1, <1>3, <2>1
  <2>3. PICK m \in S : \A n \in Nat : n < m => n \notin S
    BY <2>2, LeastElement
  <2>4. m \in 0 .. head - 1 /\ x \in entry[m] /\ m \in Nat
    BY <2>1, <2>2, <2>3
  <2>5. x \notin PrevTree(m)
    <3>1. CASE m = 0
      BY <3>1 DEF PrevTree
    <3>2. CASE m # 0
      <4>1. m - 1 \in Nat /\ m - 1 < m /\ m - 1 \in 0 .. head - 1
        BY <1>1, <2>4, <3>2
      <4>2. m - 1 \notin S
        BY <2>3, <4>1
      <4> QED
        BY <2>1, <3>2, <4>1, <4>2 DEF PrevTree
    <3> QED
      BY <3>1, <3>2
  <2>6. PICK k : k = m + 1
    OBVIOUS
  <2>7. k \in 1 .. head /\ k - 1 = m
    BY <1>1, <2>4, <2>6
  <2>8. x \in CommittedLog[k]
    BY <1>1, <2>4, <2>5, <2>7
  <2> QED
    BY <1>1, <2>7, <2>8 DEF Abstract!Committed
<1> QED
  BY <1>2, <1>3

\* A job is in the abstract log when it is in one of the trees.
LEMMA InLogIsLogged ==
  ASSUME TypeInv, latest = head, NEW j
  PROVE  Abstract!InLog(j) <=> Logged(j)
BY CommittedOnce DEF Abstract!InLog, Logged

\* Two ways to write what a job wants.
LEMMA WantedIsOwn ==
  ASSUME NEW j, req[j] \in Requests
  PROVE  Abstract!Wanted(j) = Own(j)
<1>1. req[j].greatest \in Int /\ req[j].n \in Nat
  BY BoundsAssumption DEF Requests, NoVersion
<1>2. ASSUME NEW k \in 1 .. req[j].n
      PROVE  k - 1 \in 0 .. req[j].n - 1 /\ req[j].greatest + k = req[j].greatest + 1 + (k - 1)
  BY <1>1
<1>3. ASSUME NEW k \in 0 .. req[j].n - 1
      PROVE  k + 1 \in 1 .. req[j].n /\ req[j].greatest + 1 + k = req[j].greatest + (k + 1)
  BY <1>1
<1>4. ASSUME NEW x, x \in Abstract!Wanted(j)
      PROVE  x \in Own(j)
  BY <1>2, <1>4 DEF Abstract!Wanted, Own
<1>5. ASSUME NEW x, x \in Own(j)
      PROVE  x \in Abstract!Wanted(j)
  BY <1>3, <1>5 DEF Abstract!Wanted, Own
<1> QED
  BY <1>4, <1>5

\* Who waits in the batcher waits in the abstract log.
LEMMA WaitsAbove ==
  ASSUME RefInv, faults = 0, NEW j, Unanswered(j)
  PROVE  /\ j \in Jobs /\ req[j] \in Requests /\ Abstract!Waiting(j)
         /\ (j \in work => pc \notin {"catchup", "answer"}) => ~Abstract!InLog(j)
<1>1. TypeInv /\ latest = head /\ Fresh
  BY InvariantParts
<1>2. j \in Jobs /\ req[j] \in Requests
  BY UnansweredAsked
<1>3. reply[j] = Pending /\ ((j \in work => pc \notin {"catchup", "answer"}) => ~Logged(j))
  BY <1>1, <1>2 DEF Fresh
<1>4. req[j] # [label |-> "none"]
  BY <1>2, NoRequestIsNone DEF NoRequest
<1> QED
  BY <1>1, <1>2, <1>3, <1>4, InLogIsLogged
  DEF Abstract!Waiting, Abstract!NoRequest, Abstract!Pending, Pending

\* While no head is set the abstract log stays.
LEMMA LogStays ==
  ASSUME RefInv, [Next]_vars, faults' = 0, latest' = latest
  PROVE  CommittedLog' = CommittedLog
<1>1. faults = 0
  BY NoFault
<1>2. TypeInv /\ TypeInv' /\ latest = head
  BY <1>1, InvariantParts, TypeStep
<1>3. head \in Nat /\ \A i \in 0 .. head - 1 : entry'[i] = entry[i]
  BY <1>2, HeadMoves, StoreTypes
<1>4. ASSUME NEW i \in 1 .. latest
      PROVE  entry'[i - 1] \ PrevTree(i - 1)' = entry[i - 1] \ PrevTree(i - 1)
  <2>1. i - 1 \in 0 .. head - 1 /\ (i - 1 # 0 => (i - 1) - 1 \in 0 .. head - 1)
    BY <1>2, <1>3
  <2> QED
    BY <1>3, <2>1 DEF PrevTree
<1>5. CommittedLog' = [i \in 1 .. latest' |-> entry'[i - 1] \ PrevTree(i - 1)']
  BY DEF CommittedLog, PrevTree
<1> QED
  BY <1>4, <1>5 DEF CommittedLog

\* Phase 1 refuses only what the log does not have.
LEMMA AssignRefines ==
  ASSUME RefInv, [Next]_vars, faults' = 0, AssignVersions
  PROVE  [Abstract!Next]_(Abstract!vars)
<1>a. faults = 0
  BY NoFault
<1>b. /\ TypeInv /\ HistoryContiguous /\ OverlayPrepared /\ Known /\ OnePlace /\ latest = head
      /\ pc = "version"
  BY <1>a, InvariantParts DEF TreeInv, LogMatches, Numbering, AssignVersions
<1>1. PICK j, r, l, g : /\ j = Head(batch) /\ r = req[j] /\ l = r.label
                        /\ g = CurrentGreatest(req[Head(batch)].label)
  OBVIOUS
<1>2. j \in Jobs /\ r \in Requests /\ j \in In(batch)
  BY <1>1, <1>a, SwapMoves
<1>3. l \in Labels /\ r.greatest \in Int
  BY <1>1, <1>2, BoundsAssumption DEF Requests, NoVersion
<1>4. /\ req' = req /\ latest' = latest
      /\ \/ reply' = reply
         \/ r.greatest > g /\ reply' = [reply EXCEPT ![j] = Fails("conflict")]
         \/ reply' = [reply EXCEPT ![j] = Fails("empty")]
         \/ reply' = [reply EXCEPT ![j] = Fails("toolong")]
  BY <1>1 DEF AssignVersions, CompareAndSwap, Reject
<1>5. CommittedLog' = CommittedLog
  BY <1>4, LogStays
<1>6. Abstract!Waiting(j) /\ ~Abstract!InLog(j)
  BY <1>2, <1>a, <1>b, WaitsAbove DEF Unanswered, OnePlace
<1>7. CASE reply' = reply
  BY <1>4, <1>5, <1>7 DEF Abstract!vars
<1>8. CASE r.greatest > g /\ reply' = [reply EXCEPT ![j] = Fails("conflict")]
  <2>1. /\ g = CurrentGreatest(l) /\ g \in Versions \cup {NoVersion}
        /\ Len(history[l]) \in Nat /\ LastVersion(l) = Len(history[l]) - 1
    <3>1. g = CurrentGreatest(l) /\ TypeOK
      BY <1>1, <1>b DEF TypeInv
    <3>2. history[l] \in Seq(Records) /\ LastVersion(l) = Len(history[l]) - 1
      BY <1>3, <1>b, LastIsLength, StoreTypes
    <3> QED
      BY <1>3, <3>1, <3>2, CurrentGreatestType
  <2>2. g >= Len(history[l]) - 1
    <3>1. CASE overlay[l] = NoVersion
      BY <2>1, <3>1 DEF CurrentGreatest
    <3>2. CASE overlay[l] # NoVersion
      <4>1. overlay[l] >= Len(history[l]) /\ g = overlay[l]
        BY <1>3, <1>b, <2>1, <3>2 DEF CurrentGreatest, OverlayPrepared
      <4>2. g \in Int
        BY <2>1 DEF Versions, NoVersion
      <4> QED
        BY <2>1, <4>1, <4>2
    <3> QED
      BY <3>1, <3>2
  <2>3. g \in Int /\ g >= -1
    BY <2>1 DEF Versions, NoVersion
  <2>4. r.greatest # -1 /\ r.greatest > Len(history[l]) - 1
    BY <1>3, <1>8, <2>1, <2>2, <2>3
  <2>5. ASSUME NEW x \in Abstract!Committed, x.label = l, x.ver = r.greatest
        PROVE  FALSE
    <3>1. PICK i \in 0 .. head - 1 : x \in entry[i]
      BY <1>b, CommittedOnce
    <3>2. x.ver < Len(history[l])
      BY <1>b, <2>5, <3>1 DEF Known
    <3> QED
      BY <1>3, <2>1, <2>4, <2>5, <3>2
  <2>6. r.greatest \notin Abstract!VersionsOf(Abstract!Committed, l) \cup {-1}
    BY <2>4, <2>5 DEF Abstract!VersionsOf
  <2>7. Abstract!Conflict(j)
    BY <1>1, <1>4, <1>5, <1>6, <1>8, <2>6 DEF Abstract!Conflict, Abstract!Tell, Fails
  <2> QED
    BY <1>2, <1>6, <2>7 DEF Abstract!Next
<1>9. CASE \/ reply' = [reply EXCEPT ![j] = Fails("empty")]
           \/ reply' = [reply EXCEPT ![j] = Fails("toolong")]
  <2>1. Abstract!Refuse(j)
    BY <1>4, <1>5, <1>6, <1>9 DEF Abstract!Refuse, Abstract!Tell, Fails
  <2> QED
    BY <1>2, <1>6, <2>1 DEF Abstract!Next
<1> QED
  BY <1>4, <1>7, <1>8, <1>9

\* A catch-up tells what one entry added to the label, or that it found nothing.
LEMMA CatchUpRefines ==
  ASSUME RefInv, [Next]_vars, faults' = 0, NEW j \in Jobs, CatchUp(j)
  PROVE  [Abstract!Next]_(Abstract!vars)
<1>a. faults = 0
  BY NoFault
<1>b. TypeInv /\ SearchInv /\ PtrsAscend /\ OnePlace /\ latest = head
  BY <1>a, InvariantParts
<1>1. /\ pc = "catchup" /\ j \in catchups /\ req' = req /\ latest' = latest
      /\ reply' = [reply EXCEPT ![j] = CatchUpReply(req[j])]
  BY DEF CatchUp
<1>2. CommittedLog' = CommittedLog
  BY <1>1, LogStays
<1>3. req[j] \in Requests /\ Abstract!Waiting(j) /\ ~Abstract!InLog(j)
  BY <1>1, <1>a, <1>b, WaitsAbove DEF Unanswered, OnePlace
<1>4. PICK c : c = CatchUpReply(req[j])
  OBVIOUS
<1>5. c = Fails("catchup_failed") \/ c = [kind |-> "catchup", pos |-> c.pos, values |-> c.values]
  BY <1>4 DEF CatchUpReply
<1>6. CASE c = Fails("catchup_failed")
  <2>1. Abstract!Refuse(j)
    BY <1>1, <1>2, <1>3, <1>4, <1>6 DEF Abstract!Refuse, Abstract!Tell, Fails
  <2> QED
    BY <1>3, <2>1 DEF Abstract!Next
<1>7. CASE c = [kind |-> "catchup", pos |-> c.pos, values |-> c.values]
  <2>1. /\ c.pos \in 0 .. head - 1
        /\ c.values = {[ver |-> x.ver, job |-> x.job] : x \in NewIn(req[j], c.pos)}
        /\ \E v \in c.values : v.ver = req[j].greatest + 1
    <3>1. c.kind = "catchup" /\ pc # "head"
      BY <1>1, <1>7
    <3> QED
      BY <1>3, <1>4, <1>a, <1>b, <3>1, ReplyIsCommitted
  <2>2. PICK i : i = c.pos + 1
    OBVIOUS
  <2>3. i \in DOMAIN CommittedLog /\ i - 1 = c.pos /\ CommittedLog[i] = entry[c.pos] \ PrevTree(c.pos)
    BY <1>b, <2>1, <2>2, LogEntries
  <2>4. PICK new : new = {x \in CommittedLog[i] : x.label = req[j].label /\ x.ver > req[j].greatest}
    OBVIOUS
  <2>5. new = NewIn(req[j], c.pos)
    BY <2>3, <2>4 DEF NewIn
  <2>6. \E x \in new : x.ver = req[j].greatest + 1
    BY <2>1, <2>5
  <2>7. reply' = [reply EXCEPT ![j] =
           [kind |-> "catchup", pos |-> i - 1, values |-> {[ver |-> x.ver, job |-> x.job] : x \in new}]]
    BY <1>1, <1>4, <1>7, <2>1, <2>3, <2>5
  <2>8. Abstract!Inform(j)
    BY <1>1, <1>2, <1>3, <2>3, <2>4, <2>6, <2>7 DEF Abstract!Inform, Abstract!Tell
  <2> QED
    BY <1>3, <2>8 DEF Abstract!Next
<1> QED
  BY <1>5, <1>6, <1>7

\* Success names the entry that holds exactly what the job asked for.
LEMMA AnswerRefines ==
  ASSUME RefInv, [Next]_vars, faults' = 0, NEW j \in Jobs, Answer(j)
  PROVE  [Abstract!Next]_(Abstract!vars)
<1>a. faults = 0
  BY NoFault
<1>b. /\ TypeInv /\ Waiting /\ Smooth /\ Owned /\ latest = head /\ j \in work /\ pc = "answer"
      /\ outcome = "none" => work = {}
  BY <1>a, InvariantParts DEF Answer, TypeInv, BatchShape
<1>1. raced = {} /\ outcome = "ok"
  BY <1>b DEF Smooth
<1>2. /\ req' = req /\ latest' = latest
      /\ reply' = [reply EXCEPT ![j] = [kind |-> "ok", pos |-> latest - 1,
                                        first |-> req[j].greatest + 1, n |-> req[j].n]]
  BY <1>1 DEF Answer
<1>3. CommittedLog' = CommittedLog
  BY <1>2, LogStays
<1>4. req[j] \in Requests /\ Abstract!Waiting(j)
  BY <1>a, <1>b, WaitsAbove DEF Unanswered
<1>5. /\ req[j].n > 0 /\ latest > 0
      /\ Own(j) \subseteq entry[latest - 1] \ PrevTree(latest - 1)
  BY <1>1, <1>b DEF Waiting, Follows
<1>6. /\ latest \in DOMAIN CommittedLog
      /\ CommittedLog[latest] = entry[latest - 1] \ PrevTree(latest - 1)
      /\ latest - 1 \in 0 .. head - 1
  BY <1>5, <1>b, LogEntries
<1>7. Own(j) = {x \in CommittedLog[latest] : x.job = j}
  <2>1. \A x \in Own(j) : x.job = j
    BY DEF Own
  <2>2. \A x \in entry[latest - 1] : x \in Own(x.job)
    BY <1>b, <1>6 DEF Owned, Asked
  <2> QED
    BY <1>5, <1>6, <2>1, <2>2
<1>8. Abstract!Wanted(j) = Own(j) /\ Own(j) # {}
  BY <1>4, <1>5, WantedIsOwn, OwnIsNotEmpty
<1>9. Abstract!Succeed(j)
  BY <1>2, <1>3, <1>6, <1>7, <1>8 DEF Abstract!Succeed, Abstract!Tell
<1> QED
  BY <1>4, <1>9 DEF Abstract!Next

\* Before set_head the committed versions of a label are those below the batch's.
First(l) == Len(history[l]) - Len(valid[l])

LEMMA VersionsBefore ==
  ASSUME RefInv, faults = 0, pc = "head", NEW l \in Labels
  PROVE  /\ First(l) \in Nat
         /\ Abstract!VersionsOf(Abstract!Committed, l) = 0 .. First(l) - 1
         /\ Cardinality(Abstract!VersionsOf(Abstract!Committed, l)) = First(l)
<1> DEFINE m == First(l)
<1> HIDE DEF m
<1>1. /\ TypeInv /\ HistoryContiguous /\ HeadNumbered /\ latest = head /\ SearchInv
  BY InvariantParts DEF Numbering
<1>2. RecordsCommitted
  BY <1>1 DEF SearchInv, Undisturbed
<1>3. PICK h, v : h = Len(history[l]) /\ v = Len(valid[l])
  OBVIOUS
<1>4. /\ h \in Nat /\ v \in Nat /\ DOMAIN history[l] = 1 .. h /\ DOMAIN valid[l] = 1 .. v
      /\ head \in Nat /\ \A i \in 0 .. head - 1 : entry[i] \in SUBSET Leaves
  BY <1>1, <1>3, StoreTypes
<1>5. v <= h /\ m = h - v /\ m \in Nat
  <2>1. v <= h
    BY <1>1, <1>3 DEF HeadNumbered
  <2>2. m = h - v
    BY <1>3 DEF m, First
  <2> QED
    BY <1>4, <2>1, <2>2
<1>6. ASSUME NEW x \in Abstract!Committed, x.label = l
      PROVE  x.ver \in 0 .. m - 1
  <2>1. PICK i \in 0 .. head - 1 : x \in entry[i]
    BY <1>1, CommittedOnce
  <2>2. x.ver < m
    BY <1>1, <1>6, <2>1 DEF HeadNumbered, First, m
  <2>3. x.ver \in Nat
    BY <1>4, <2>1 DEF Leaves, Versions
  <2> QED
    BY <1>5, <2>2, <2>3
<1>7. ASSUME NEW n \in 0 .. m - 1
      PROVE  \E x \in Abstract!Committed : x.label = l /\ x.ver = n
  <2>1. PICK k : k = n + 1
    OBVIOUS
  <2>2. k \in DOMAIN history[l] /\ k - 1 = n /\ n \in Nat /\ n < m
    BY <1>4, <1>5, <2>1
  <2>3. history[l][k].ver = n
    BY <1>1, <2>2 DEF HistoryContiguous
  <2>4. ~InBatch(l, history[l][k])
    <3>1. ASSUME NEW u \in Updates, u.label = l, u.ver = n
          PROVE  FALSE
      <4>1. PICK i \in DOMAIN valid[l] : u.ver = valid[l][i].ver
        BY <3>1 DEF Updates
      <4>2. valid[l][i].ver = m + i - 1
        BY <1>1 DEF HeadNumbered, First, m
      <4>3. i \in Nat /\ i >= 1
        BY <1>4
      <4> QED
        BY <1>5, <2>2, <3>1, <4>1, <4>2, <4>3
    <3> QED
      BY <2>3, <3>1 DEF InBatch
  <2>5. head > 0 /\ Holds(head - 1, l, history[l][k])
    BY <1>2, <2>2, <2>4 DEF RecordsCommitted
  <2>6. PICK x \in entry[head - 1] : x.label = l /\ x.ver = n
    BY <2>3, <2>5 DEF Holds
  <2>7. head - 1 \in 0 .. head - 1
    BY <1>4, <2>5
  <2> QED
    BY <1>1, <2>6, <2>7, CommittedOnce
<1>8. Abstract!VersionsOf(Abstract!Committed, l) = 0 .. m - 1
  BY <1>6, <1>7 DEF Abstract!VersionsOf
<1>9. Cardinality(0 .. m - 1) = m
  <2>1. Cardinality(0 .. m - 1) = IF 0 > m - 1 THEN 0 ELSE m - 1 - 0 + 1
    <3>1. 0 \in Int /\ m - 1 \in Int
      BY <1>5
    <3> QED
      BY <3>1, FS_Interval
  <2> QED
    BY <1>5, <2>1
<1> QED
  BY <1>5, <1>8, <1>9 DEF m

\* The versions set_head adds to a label continue the committed ones, each once.
LEMMA VersionsAdded ==
  ASSUME RefInv, faults = 0, pc = "head", NEW l \in Labels
  PROVE  LET new == {x \in AddedLeaves : x.label = l}
         IN  Abstract!VersionsOf(AddedLeaves, l) = First(l) .. First(l) + Cardinality(new) - 1
<1> DEFINE m == First(l)
<1> HIDE DEF m
<1>1. TypeInv /\ HeadNumbered
  BY InvariantParts
<1>2. PICK s, v : s = valid[l] /\ v = Len(valid[l])
  OBVIOUS
<1>3. v \in Nat /\ DOMAIN s = 1 .. v /\ m \in Nat
  BY <1>1, <1>2, StoreTypes, VersionsBefore DEF m
<1>4. \A k \in 1 .. v : s[k].ver = m + k - 1
  BY <1>1, <1>2, <1>3 DEF HeadNumbered, First, m
<1>5. PICK f : f = [k \in 1 .. v |-> [label |-> l, ver |-> s[k].ver, job |-> s[k].job]]
  OBVIOUS
<1>6. PICK new : new = {x \in AddedLeaves : x.label = l}
  OBVIOUS
<1>7. ASSUME NEW k \in 1 .. v
      PROVE  f[k] \in new
  <2>1. PICK u : u = [label |-> l, ver |-> s[k].ver, ptr |-> s[k].ptr, job |-> s[k].job]
    OBVIOUS
  <2>2. u \in Updates
    BY <1>2, <1>3, <2>1 DEF Updates
  <2>3. Leaf(u) = f[k]
    BY <1>5, <2>1 DEF Leaf
  <2>4. f[k].label = l
    BY <1>5
  <2> QED
    BY <1>6, <2>2, <2>3, <2>4 DEF AddedLeaves
<1>8. ASSUME NEW x \in new
      PROVE  \E k \in 1 .. v : f[k] = x
  <2>1. PICK u \in Updates : x = Leaf(u)
    BY <1>6, <1>8 DEF AddedLeaves
  <2>2. u.label = l
    BY <1>6, <1>8, <2>1 DEF Leaf
  <2>3. PICK k \in DOMAIN valid[l] : u.ver = valid[l][k].ver /\ u.job = valid[l][k].job
    BY <2>2 DEF Updates
  <2>4. k \in 1 .. v /\ f[k] = x
    BY <1>2, <1>3, <1>5, <2>1, <2>2, <2>3 DEF Leaf
  <2> QED
    BY <2>4
<1>9. ASSUME NEW a \in 1 .. v, NEW b \in 1 .. v, f[a] = f[b]
      PROVE  a = b
  <2>1. f[a].ver = m + a - 1 /\ f[b].ver = m + b - 1
    BY <1>4, <1>5
  <2> QED
    BY <1>3, <1>9, <2>1
<1>10. f \in [1 .. v -> new]
  BY <1>5, <1>7
<1>11. Cardinality(new) = v
  <2>1. f \in Bijection(1 .. v, new)
    BY <1>8, <1>9, <1>10, Fun_IsBij
  <2>2. ExistsBijection(1 .. v, new)
    BY <2>1 DEF ExistsBijection
  <2>3. IsFiniteSet(1 .. v) /\ Cardinality(1 .. v) = IF 1 > v THEN 0 ELSE v - 1 + 1
    BY <1>3, FS_Interval
  <2>4. Cardinality(new) = Cardinality(1 .. v)
    BY <2>2, <2>3, FS_Bijection
  <2> QED
    BY <1>3, <2>3, <2>4
<1>12. ASSUME NEW n \in m .. m + v - 1
       PROVE  \E x \in new : x.ver = n
  <2>1. PICK k : k = n - m + 1
    OBVIOUS
  <2>2. k \in 1 .. v /\ m + k - 1 = n
    BY <1>3, <2>1
  <2>3. f[k].ver = n
    BY <1>4, <1>5, <2>2
  <2> QED
    BY <1>7, <2>2, <2>3
<1>13. ASSUME NEW x \in new
       PROVE  x.ver \in m .. m + v - 1
  <2>1. PICK k \in 1 .. v : f[k] = x
    BY <1>8
  <2>2. x.ver = m + k - 1
    BY <1>4, <1>5, <2>1
  <2> QED
    BY <1>3, <2>2
<1>14. Abstract!VersionsOf(AddedLeaves, l) = m .. m + v - 1
  BY <1>6, <1>12, <1>13 DEF Abstract!VersionsOf
<1> QED
  BY <1>6, <1>11, <1>14 DEF m

\* set_head adds the leaves of the batch to the log that readers are shown.
LEMMA SetHeadAppends ==
  ASSUME RefInv, [Next]_vars, faults' = 0, SetHead
  PROVE  CommittedLog' = Append(CommittedLog, AddedLeaves)
<1>a. faults = 0
  BY NoFault
<1>1. TypeInv /\ TypeInv' /\ latest = head /\ latest' = latest + 1 /\ head \in Nat
  BY <1>a, InvariantParts, TypeStep, StoreTypes DEF SetHead
<1>2. /\ entry' = entry /\ entry[head] \ PrevTree(head) = AddedLeaves
  <2>1. head' # head
    BY <1>1 DEF SetHead
  <2> QED
    BY <2>1, HeadMoves
<1>3. \A i : PrevTree(i)' = PrevTree(i)
  BY <1>2 DEF PrevTree
<1>4. PICK c, d : /\ c = CommittedLog
                  /\ d = [i \in 1 .. head + 1 |-> entry[i - 1] \ PrevTree(i - 1)]
  OBVIOUS
<1>5. CommittedLog' = d
  <2>1. CommittedLog' = [i \in 1 .. latest' |-> entry'[i - 1] \ PrevTree(i - 1)']
    BY DEF CommittedLog, PrevTree
  <2> QED
    BY <1>1, <1>2, <1>3, <1>4, <2>1
<1>6. c = [i \in 1 .. head |-> entry[i - 1] \ PrevTree(i - 1)]
  BY <1>1, <1>4 DEF CommittedLog
<1>7. PICK S : S = {entry[i - 1] \ PrevTree(i - 1) : i \in 1 .. head + 1}
  OBVIOUS
<1>8. d \in Seq(S) /\ c \in Seq(S) /\ Len(c) = head /\ AddedLeaves = d[head + 1] /\ d[head + 1] \in S
  <2>1. \A i \in 1 .. head + 1 : d[i] \in S
    BY <1>4, <1>7
  <2>2. \A i \in 1 .. head : i \in 1 .. head + 1
    BY <1>1
  <2>3. \A i \in 1 .. head : c[i] \in S
    BY <1>6, <1>7, <2>2
  <2>4. head + 1 \in 1 .. head + 1 /\ (head + 1) - 1 = head
    BY <1>1
  <2>5. d[head + 1] = entry[head] \ PrevTree(head)
    BY <1>4, <2>4
  <2>6. c \in [1 .. head -> S] /\ d \in [1 .. head + 1 -> S]
    BY <1>4, <1>6, <2>1, <2>3
  <2>7. c \in Seq(S) /\ Len(c) = head
    BY <1>1, <2>6
  <2>8. d \in Seq(S)
    BY <1>1, <2>6
  <2> QED
    BY <1>2, <2>1, <2>4, <2>5, <2>7, <2>8
<1>9. Append(c, d[head + 1]) = d
  <2>1. PICK e : e = Append(c, d[head + 1])
    OBVIOUS
  <2>2. /\ e \in Seq(S) /\ DOMAIN e = 1 .. head + 1
        /\ \A i \in DOMAIN e : e[i] = IF i = head + 1 THEN d[head + 1] ELSE c[i]
    BY <1>8, <2>1, AppendSeq
  <2>3. DOMAIN d = 1 .. head + 1
    BY <1>4
  <2>4. ASSUME NEW i \in 1 .. head + 1
        PROVE  e[i] = d[i]
    <3>1. CASE i = head + 1
      BY <2>2, <3>1
    <3>2. CASE i # head + 1
      <4>1. i \in 1 .. head
        BY <1>1, <3>2
      <4>2. c[i] = d[i]
        BY <1>4, <1>6, <2>4, <4>1
      <4> QED
        BY <2>2, <3>2, <4>2
    <3> QED
      BY <3>1, <3>2
  <2>5. e = [i \in 1 .. head + 1 |-> e[i]] /\ d = [i \in 1 .. head + 1 |-> d[i]]
    BY <1>4, <2>2
  <2> QED
    BY <2>1, <2>4, <2>5
<1> QED
  BY <1>4, <1>5, <1>8, <1>9

\* What the jobs of the batch asked for is what the batch adds.
LEMMA BatchIsWanted ==
  ASSUME RefInv, faults = 0, pc = "head"
  PROVE  /\ UNION {Abstract!Wanted(j) : j \in work} = AddedLeaves
         /\ work \subseteq Jobs /\ AddedLeaves # {}
<1>1. /\ TypeInv /\ Waiting /\ Smooth /\ Owned /\ BatchJobs /\ pc \in WriteSteps /\ pc \in Working
  BY InvariantParts DEF WriteSteps, Working
<1>2. work \subseteq Jobs /\ work # {} /\ raced = {}
  BY <1>1 DEF TypeInv, TypeOK, BatchJobs, Smooth
<1>3. ASSUME NEW j \in work
      PROVE  Abstract!Wanted(j) = Own(j) /\ Own(j) \subseteq AddedLeaves /\ Own(j) # {}
  <2>1. req[j] \in Requests /\ req[j].n > 0 /\ Own(j) \subseteq AddedLeaves
    BY <1>1, <1>2 DEF Waiting, Follows
  <2> QED
    BY <1>2, <2>1, WantedIsOwn, OwnIsNotEmpty
<1>4. ASSUME NEW x \in AddedLeaves
      PROVE  x.job \in work /\ x \in Own(x.job)
  BY <1>1 DEF BatchJobs, Owned, Asked
<1>5. UNION {Abstract!Wanted(j) : j \in work} = AddedLeaves
  BY <1>3, <1>4
<1> QED
  BY <1>2, <1>3, <1>5

\* The abstract log counts as this module does.
LEMMA SameCardinality == \A S : Abstract!Cardinality(S) = Cardinality(S)
  BY DEF Abstract!Cardinality, Cardinality

\* set_head commits the whole batch at once.
LEMMA SetHeadRefines ==
  ASSUME RefInv, [Next]_vars, faults' = 0, SetHead
  PROVE  [Abstract!Next]_(Abstract!vars)
<1>a. faults = 0 /\ pc = "head" /\ UNCHANGED <<req, reply>>
  BY NoFault DEF SetHead, Write, clientVars
<1>1. /\ UNION {Abstract!Wanted(j) : j \in work} = AddedLeaves
      /\ work \subseteq Jobs /\ AddedLeaves # {}
  BY <1>a, BatchIsWanted
<1>2. CommittedLog' = Append(CommittedLog, AddedLeaves)
  BY SetHeadAppends
<1>3. ASSUME NEW j \in work
      PROVE  Abstract!Waiting(j) /\ ~Abstract!InLog(j)
  BY <1>a, WaitsAbove DEF Unanswered
<1>4. ASSUME NEW l \in Labels
      PROVE  LET base == Cardinality(Abstract!VersionsOf(Abstract!Committed, l))
                 new  == {x \in AddedLeaves : x.label = l}
             IN  Abstract!VersionsOf(AddedLeaves, l) = base .. base + Cardinality(new) - 1
  BY <1>a, VersionsBefore, VersionsAdded
<1>5. Abstract!Commit(work)
  <2> DEFINE S == UNION {Abstract!Wanted(j) : j \in work}
  <2>1. S = AddedLeaves
    BY <1>1
  <2>2. /\ \A j \in work : Abstract!Waiting(j) /\ ~Abstract!InLog(j)
        /\ S # {} /\ CommittedLog' = Append(CommittedLog, S) /\ UNCHANGED <<req, reply>>
    BY <1>a, <1>1, <1>2, <1>3, <2>1
  <2>3. \A l \in Labels :
          LET base == Cardinality(Abstract!VersionsOf(Abstract!Committed, l))
              new  == {x \in S : x.label = l}
          IN  Abstract!VersionsOf(S, l) = base .. base + Cardinality(new) - 1
    BY <1>4, <2>1
  <2> QED
    BY <2>2, <2>3, SameCardinality DEF Abstract!Commit
<1> QED
  BY <1>1, <1>5 DEF Abstract!Next

\* Until an access to the store fails, every step is one of the abstract log or none.
LEMMA StepRefines == RefInv /\ [Next]_vars /\ faults' = 0 => [Abstract!Next]_(Abstract!vars)
<1> SUFFICES ASSUME RefInv, [Next]_vars, faults' = 0 PROVE [Abstract!Next]_(Abstract!vars)
  OBVIOUS
<1> USE DEF clientVars, workerVars, applyVars, treeVars, valueVars, storeVars, boundVars
<1>a. faults = 0 /\ Smoothly
  BY NoFault
<1>1. CASE UNCHANGED <<req, reply, latest>>
  <2>1. CommittedLog' = CommittedLog
    BY <1>1, LogStays
  <2> QED
    BY <1>1, <2>1 DEF Abstract!vars
<1>2. ASSUME NEW j \in Jobs, NEW r \in Requests, Submit(j, r)
      PROVE  Abstract!Submit(j, r) /\ r \in Abstract!Requests
  <2>1. /\ req[j] = NoRequest /\ req' = [req EXCEPT ![j] = r] /\ UNCHANGED <<reply, latest>>
    BY <1>2 DEF Submit
  <2>2. CommittedLog' = CommittedLog
    BY <2>1, LogStays
  <2> QED
    BY <2>1, <2>2
    DEF Abstract!Submit, Abstract!NoRequest, NoRequest, Abstract!Requests, Requests, NoVersion
<1>3. CASE AssignVersions
  BY <1>3, AssignRefines
<1>4. ASSUME NEW j \in Jobs, CatchUp(j) \/ Answer(j)
      PROVE  [Abstract!Next]_(Abstract!vars)
  BY <1>4, CatchUpRefines, AnswerRefines
<1>5. CASE SetHead
  BY <1>5, SetHeadRefines
<1>6. CASE \/ Receive \/ Timeout \/ Lock \/ Versioned \/ Crypto \/ CatchUpsDone \/ BatchDone
           \/ CheckVersion \/ Checked \/ EraseOpening \/ UNCHANGED vars
           \/ \E l \in Labels, k \in 1 .. MaxPtr : EraseValue(l, k)
  BY <1>1, <1>6
  DEF vars, Receive, Timeout, Lock, Versioned, Crypto, CatchUpsDone, BatchDone, ForgetBatch,
      CheckVersion, Checked, EraseOpening, EraseValue
<1>7. CASE \/ PutPrefixBatch \/ PutPrefixPtr \/ SetNextPrefixVersion \/ BatchAppend \/ PutAuditBlob
           \/ PutValueBatch \/ PutOpeningBatch \/ PutHistoryBatch
  BY <1>1, <1>7
  DEF PutPrefixBatch, PutPrefixPtr, SetNextPrefixVersion, BatchAppend, PutAuditBlob,
      PutValueBatch, PutOpeningBatch, PutHistoryBatch, Write
<1>8. CASE \E j \in Jobs, r \in Requests : Submit(j, r)
  <2>1. \E j \in Jobs, r \in Abstract!Requests : Abstract!Submit(j, r)
    BY <1>2, <1>8
  <2> QED
    BY <2>1 DEF Abstract!Next
<1> QED
  BY <1>a, <1>3, <1>4, <1>5, <1>6, <1>7, <1>8 DEF Smoothly, ApplyStep

\* The empty directory is the empty log.
LEMMA InitRefines == Init => Abstract!Init
<1> SUFFICES ASSUME Init PROVE Abstract!Init
  OBVIOUS
<1>1. CommittedLog = <<>>
  BY DEF Init, CommittedLog
<1> QED
  BY <1>1 DEF Init, Abstract!Init, Abstract!NoRequest, Abstract!Pending, NoRequest, Pending

\* As long as no access to the store fails and the process does not die, the batcher and
\* apply_batch implement the abstract log: queue, batches, locks, column families and
\* erasures are invisible, a batch appears at once when the head is set, and every answer
\* tells the truth about the log at that moment.
THEOREM PipelineImplementsLog == Spec /\ [](faults = 0) => ImplementsLog
<1>1. Spec => []RefInv
  BY InitRef, RefStep, PTL DEF Spec
<1>2. RefInv /\ [Next]_vars /\ (faults = 0)' => [Abstract!Next]_(Abstract!vars)
  BY StepRefines
<1> QED
  BY <1>1, <1>2, InitRefines, PTL DEF Spec, ImplementsLog, Abstract!Spec
=============================================================================
