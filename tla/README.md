# A TLA+ verification of RuKT

RuKT is a key-transparency server and client: clients update and search
versioned labels, the server commits every batch of updates to a prefix tree
and every prefix tree to a log tree, and clients and auditors check that the
log only grows and answers everybody alike. This directory holds TLA+ models of
its core, the TLC configurations that check them and TLAPS proofs about them.

## 1. Inventory

| component (under `src/src/`) | state | operations | interacts with |
|---|---|---|---|
| `batcher.rs` | mpsc queue, current batch, version overlay, catch-up list | `submit`, `run` (receive or timer), `process_batch` in four phases, `process_catchups` | write lock of the tree, callers by one-shot channels |
| `tree/write.rs` | head in memory (`latest`) | `apply_batch`, `post_update`, `catch_up_update`, `refresh_head_timestamp` | store, prefix tree, log tree |
| `db.rs` | RocksDB column families | put/get per family, batched puts | every tree component |
| `tree/log.rs`, `tree/log_math.rs` | node chunks of the log tree, `prefix_ptr`, `next_prefix_version` | append, root, inclusion and consistency proofs; index arithmetic of two trees over the same entries | searches, auditors, client |
| `tree/prefix/*` | persistent radix tree, one root per position | `batch_insert`, lookups with proofs | `apply_batch`, searches |
| `tree/binary_ladder.rs` | none | base, search and monitoring ladders | traversals and, decoded, the client |
| `tree/traversal.rs`, `walker.rs`, `read.rs` | a proof session per request | fixed-version, greatest-version and owner walks, `get_max_version_at`, full tree head | read lock |
| `tree/audit.rs`, `client/auditor.rs` | auditor heads in memory; the auditor's accumulators | `process_and_sign`, bootstrap, `set_auditor_head` | log, clients in auditing mode |
| `tree/prune.rs` | none | `erase`, `prune_expired_versions` | values and openings, under a read lock |
| `client/core.rs`, `verifier.rs` | trusted head, retained subtrees, monitoring map, label versions | update, search, contact and owner monitoring, distinguished walk, credentials | server; a state file |
| `tree/monitor.rs`, `tree/credential.rs`, `client/gossip.rs` | none | server side of monitoring, credentials; comparison of heads | client |
| `service.rs`, `main.rs`, `bulk.rs`, `crypto/*` | configuration | RPC translation, start-up, bulk load, primitives | all |

What is hard here, and what correctness means:

* **The write path.** One batch is nine separate store writes under one lock,
  after a compare-and-swap that was made against an overlay. A write may fail,
  the process may die, and `Tree::new` reloads only the head. Versions must stay
  contiguous, committed entries must never change, every answer must be true.
* **Two index trees over one log.** Searches use a binary search tree over
  entries, hashes a left-balanced Merkle tree over nodes. Sizes that are not
  powers of two are where they are confused.
* **Agreement by derivation.** Client and server compute ladders, frontiers and
  omitted subtrees separately from different data. One lookup or node more on
  either side and an honest answer is refused.
* **Growth between steps.** The log grows while an auditor signs, while a
  catch-up waits and between a client's two requests.
* **Client memory.** Retained subtrees, monitoring obligations and label versions
  survive in a file or are lost with a response.

`PROJECT.json` lists each hazard at its line with the properties about it.

## 2. Modules

| module | models | composed from |
|---|---|---|
| `UpdatePipeline` | `batcher.rs`, `Tree::apply_batch` and the store it writes, catch-ups, `erase`, failures, crash, restart | |
| `VersionedLog` | abstract specification: an append-only log with compare-and-swap and truthful answers | |
| `PipelineRefinement` | `UpdatePipeline` implements `VersionedLog` | both |
| `UpdatePipelineProofs` | theorems about `UpdatePipeline`: types, append-only head, numbering; the trees and audit records it commits; the answers of the batcher; histories, values and openings; without faults, the versions searches derive, catch-ups, and that it implements `VersionedLog` | `PipelineRefinement` |
| `ClientUpdate` | `KtClient::update` on top of the log that `VersionedLog` specifies: rounds, lost calls, restarts, erasure | |
| `ClientUpdateProofs` | theorems about `ClientUpdate` | `ClientUpdate` |
| `PrefixTree` | `tree/prefix/*`, the client's fold of a lookup, the auditor's transition | |
| `PrefixTreeProofs` | theorems about roots, lookups and the auditor's transitions | `PrefixTree` |
| `LogMath` | `tree/log_math.rs` as operators | |
| `LogMathProofs` | lemmas about recursive functions, and what holds of the index trees for every size | `LogMath` |
| `Ladders` | `tree/binary_ladder.rs` and the client's decoders as operators | |
| `Arithmetic` | properties of both for every pair of small numbers | `LogMath`, `Ladders` |
| `ArithmeticProofs` | theorems: the ladders of log and client agree, and the two index trees do | `Arithmetic`, `LogMathProofs` |
| `HeadSync` | log tree, client head verification, auditor and their messages | `LogMath` |
| `HeadSyncProofs` | theorems: the auditor's incremental root is the log's; what a client retains is the log's; honest answers verify | `HeadSync`, `LogMathProofs` |
| `Freshness` | timestamps, epoch ticker, age of heads, auditor lag, lost submissions | `LogMath` |
| `FreshnessProofs` | theorems about what auditors sign and who is refused | `Freshness`, `LogMathProofs` |
| `TreeProof` | `TraversalSession` and `ProofReader`: the combined proof and how it is read | `LogMath`, `Ladders` |
| `Search` | fixed- and greatest-version search of the log, the client's replay of both | `TreeProof` |
| `SearchWalks` | every search over a log, and what may be asked of its answer; pruning | `Search` |
| `Monitoring` | contact monitoring, owner initialization, owner monitoring, both sides | `Search` |
| `ContactMonitor` | a client with its monitoring map, state file and restarts | `Monitoring` |
| `OwnerWalks` | every owner operation over a log | `Monitoring` |
| `MCWalks` | enumeration of all small logs and all pairs of small numbers | `SearchWalks`, `OwnerWalks`, `Arithmetic` |
| `Distinguished` | distinguished walks, gossip of roots, credentials | `Monitoring` |
| `DistinguishedProofs` | theorems about retained lists, gossip and the answers to walks | `Distinguished`, `LogMathProofs` |
| `MCUpdatePipeline`, `MCDistinguished`, `MCPrefixTree` | symmetry for TLC | |

### UpdatePipeline

Each column family is a variable of its own (`prefix`, `prefixPtr`, `nextPrefix`,
`entry`, `blob`, `value`, `opening`, `history`, `head`), because the code writes
them one after the other. The worker's position is `pc`:

    idle -> lock -> version -> crypto -> check -> prefix -> ptr -> next -> append
         -> blob -> value -> opening -> history -> head -> catchup -> answer -> idle

| action | code |
|---|---|
| `Submit` | `Batcher::submit`; the sender waits for capacity |
| `Receive`, `Timeout` | the two arms of the `select!` in `run` |
| `Lock`, `AssignVersions`, `Versioned` | phase 1: compare-and-swap per job against overlay or history |
| `HistoryReadFails` | the same with `get_label_history(..).unwrap_or_default()` on a failing read |
| `Crypto`, `CryptoFails` | phase 2 |
| `CheckVersion`, `Checked`, `PutPrefixBatch` ... `SetHead` | phase 3, `apply_batch`, one action per store write |
| `WriteFails` | any of these writes (or a read of the check) returns `Err`; the rest is left undone |
| `CatchUp`, `CatchUpsDone` | `process_catchups` and `catch_up_update`, after the lock is dropped |
| `Answer`, `AnswerFails`, `BatchDone` | phase 4; `post_update` may fail after the commit |
| `EraseValue`, `EraseOpening` | `Tree::erase`, two deletes under the read lock |
| `Crash`, `Restart` | death of the process; `Tree::new` |

Abstractions: a prefix tree is the set of its leaves, a leaf is (label, version,
job), a hash is what it commits to, versions are natural numbers with -1 for
`None`. A put is atomic and durable against the death of the process (RocksDB
writes its log before it returns); a power failure that loses unsynced writes is
not modelled. Timestamps are the subject of `Freshness`. The two phase-2 error paths of the
code (join error and crypto error) are one action, as both answer alike.

### LogMath, Ladders, Arithmetic

Pure functions. `Arithmetic` has two variables, `n` and `t`, read as a size and an
entry, or as a greatest version (`n - 1`) and a target. `LaddersAgree` and
`IndexTreesAgree` are conjunctions of named parts, each comparing a function with
an independent definition of the same thing. `MaxVersion` stands for `u32::MAX`;
the runs give it a small value, so that the stop at the top of the range is
exercised. The decoder reads one result per step: `Undecided` is its state before the
first, `NextLookup` the version the next result is for, and `Decides` the condition on
which either of its two loops returns.

### HeadSync

One log, one client and one auditor. A hash is the term it was computed from, so
that different trees have different roots; a signature is valid exactly for the
root it was made for. `Query(x)` is any operation that ends in
`verify_head_and_commit` after visiting the frontier and the path to `x`.
The auditor signs (`ProcessAndSign`) and the head arrives later
(`SetAuditorHead`), with log growth, a restart of the log or a new auditor in
between. `written` counts the leaves in the node chunks: `put_log_batch` comes before
`set_head`, so that a batch that fails or dies in between (`BatchFails`) leaves the leaf of an
entry that does not exist, through restarts, until the next batch overwrites it; every read of
a node sees it. The lag of the auditor, a time in the code, is counted in entries (one
tick per entry); `auditor_start_pos` is 0; the auditor's other checks are in
`Freshness` (time) and `PrefixTree` (transitions).

### TreeProof, Search, SearchWalks

The wire format has no labels: timestamps, lookup results and prefix roots are
queues that the client consumes in the order of its own walk. `TreeProof` models
exactly that. A session is a record of visited entries in order, prefix proofs,
ladder steps and commitments, built by `visit`, `visit_timestamp_only` and
`finalize`; a reader is a record of indices into those queues, advanced by
`timestamp`, `fold_lookups` and `finish`. One label is followed. A log entry is
its timestamp and the greatest version of the label in its prefix tree; a prefix
proof is the entry it was made in and the versions it looks up, so that folding it
for another version gives another root.

| definition | code |
|---|---|
| `apply_batch` (`TreeProof`) | one entry per batch, any number of new versions |
| `find_distinguished_nodes`, `is_expired` | `tree/traversal.rs` |
| `traverse_fixed_search`, `traverse_greatest_search` | the log's walks, step 6 included |
| `simulate_fixed_search`, `replay_greatest_search`, `verify_search_response` | the client's replay |
| `prune_expired_versions` (`SearchWalks`) | `tree/prune.rs` |

The only state is the log (`tree`: its entries and its maximum lifetime, which is
chosen at the start); every search is evaluated in every state.

### Monitoring, ContactMonitor, OwnerWalks

`Monitoring` holds both sides of the three monitoring operations as operators.
`ContactMonitor` gives them state: the monitoring map, the retained material and
the copy in the state file. Its actions are `LogGrows`, `SearchGreatest`,
`SearchFixed`, `contact_monitor` and `persist_to` (a restart). `Released` names the versions
with which a batch ends, so that the others are superseded within theirs. Each exchange is
one action, because the client waits for its answer and the log answers from one
head. Two ghosts, `owed` and `shown`, record what the client was shown and what
was later proved to it. A restart drops from `owed` what a fixed-version search
left and the file does not have: the code saves before it records it (section 5).
`OwnerWalks` evaluates the owner's operations from every start entry, for every greatest
version the owner may claim and for none; the log refuses a claim above the greatest version
there is (`tree/monitor.rs:124`).

### Distinguished

Clients walk (`traverse_distinguished`, `verify_distinguished`), retain the roots
at distinguished entries and compare them (`check_gossiped_roots`) while the log
grows and the ticker re-stamps its head. `head` and the timestamp of the last entry
are therefore different things, as in the code. A credential is issued at one
size, verified offline at any later one and moved to a new anchor. The root with
`p` as the last entry is `p`; a fork is modelled by giving the roots from some
entry on a side. Clients that gossip walk without a stopping position.

### ClientUpdate

Clients that call `update` until it succeeds, other writers, and one log that
takes requests one at a time in any order, as `VersionedLog` promises. A request
whose connection failed may still be processed. `label_versions` is `known` in
memory and `saved` in the file; `Disregarded` is a round that ended in a catch-up,
`ConnectionFails` a lost request or answer, `persist_to` a restart. The 32 rounds
of the code are the constant `Rounds`.

### Freshness

The log's wall clock, which may be set back, the ticker (on a monotonic clock, begun anew
with the process), a clock per client at a constant distance, and the auditor with what it processed,
what it submitted and what the log remembers. `Query(c)` is any operation that
ends in `verify_head_and_commit`. That `set_auditor_head` may refuse a head the
log has outgrown (section 5) is a nondeterministic choice here; that it refuses one that a
failed batch makes it misread (`torn`, `Misread`) is what `HeadSync` shows. A restart may take
any time: `fresh` tells whether the running process has stamped the head. The limit of ten
updates per auditor call is above `MaxSize` and left out.

### PrefixTree

Entries with their copaths and pointers, the insertion of a batch on top of its
overlay, the cache, failed batches whose positions are used again, restarts with
an empty cache, lookups and their proofs, `compute_root_from_result` and
`verify_and_transition`. Keys have `Height` bits instead of 256. A key is the VRF
output of a label and a version, and every version is inserted once, so a batch
only brings keys that its base tree does not have.

## 3. Runs

`MaxTime` and the windows are in ticks of one unit; `RMW` is the reasonable
monitoring window.

| run | instance | checks |
|---|---|---|
| `pipeline_faults` | 3 requests, 2 labels, up to 2 values each, batches of 2, one fault | type invariant, numbering, committed trees, audit data, truth of answers, `AppendOnly` |
| `pipeline_refines_log` | the same without faults, one erasure, one over-long label | `ImplementsLog`, `SearchSeesTree`, `CatchUpIsCommitted` |
| `pipeline_live` | 2 requests of at most one value, a queue of 1, one fault, one erasure, fairness | `Answered` |
| `pipeline_crash` | one crash or failed write | expects `SearchSeesTree` to be violated (section 5) |
| `walks` | logs up to 6 entries, timestamps 0 to 2, versions 0 to 3, no lifetime or one of 2; numbers up to 34, versions up to 31 | every honest answer to a search or an owner verifies, every version is found, the greatest never expires; ladders and index trees |
| `head_sync` | up to 14 entries, auditor at most 1 behind, at most 4 entries per audit, a failed batch at every size | honest responses verify; client and auditor hold the log; when the auditor's head is refused |
| `lagging_auditor` | up to 9 entries, auditor up to 3 behind | expects `HonestQueryVerifies` to be violated (section 5) |
| `contact_monitor` | up to 8 entries, versions 0 to 3 in batches that end with 1 or 3, two searches of either kind, restarts | which obligations survive, the two kinds of refusal, the map stays on the frontier |
| `distinguished` | up to 6 entries, 2 clients, re-stamped heads, responses of 3 entries | walks verify, lists agree and differ across a fork, credentials and their updates verify |
| `client_update` | 2 clients, 2 rounds, three of: a foreign batch, a lost call, a restart, an erasure; searches | own version acknowledged, never ahead, no needless copies, `Converges` |
| `freshness` | a client's clock up to 1 apart, ages up to 3, ticker every 2, 4 entries, 5 ticks, one step back, one lost submission, failed batch or restart | who is refused and why, what the auditor signs, `AuditorHeadServed` |
| `prefix_tree` | 3-bit keys, batches up to 3, 4 keys in any order, one failed batch, restarts | roots, lookups, transitions |

Why the bounds suffice. *Pipeline*: two requests of one label in a batch plus a
third in the next, with two values, reach every branch of the compare-and-swap,
the overlay and the position arithmetic; one fault at each step followed by a
further batch reaches every reuse of a position or entry index. `MaxPtr` and
`MaxSize` are large enough for three requests with two values each, so they never
cut a behaviour short that the request bound would not. *Index arithmetic*: size
34 covers two chunk levels and both sides of a power of two five times. *Walks*:
logs of 6 to 8 entries have a root, a complete left subtree and a right spine that
collapses, so a walk turns both ways, meets entries on and off the frontier and
ends at leaves and inner entries; a window of 2 over 3 timestamps, or of 1 over 2, makes
some entries distinguished and others not, and a lifetime of 2 over 3 timestamps
lets ancestors expire while descendants do not. Versions grow by more than one per
entry, so that a version can be superseded within its batch, also by one three higher. *Contact
monitoring*: 8 entries are the least where two entries that are not distinguished share an
ancestor to their right. *Prefix tree*:
four keys of three bits branch at every level, share every prefix and differ in the
last bit only; that the first key is 0 is no restriction, since exchanging 0 and 1
in one bit of every key exchanges subtrees and nothing else. *Client update*: two
rounds against up to three foreign batches and the other client make a call run out of
rounds. *Freshness*: five ticks are more than `MaxBehind` and two intervals, so that a head
loses its last tick to a restart and grows too old.

The constants of the cfgs bound the exploration only, except `Interval`, `RMW`,
`Lifetimes`, `MaxLag`, `MaxAhead`, `MaxBehind`, `Rounds` and `MaxResponse`, which
are the program's parameters on a small scale.

Most runs set `CHECK_DEADLOCK FALSE`: requests, entries or time are used up at the
bounds.

Fairness. *`UpdatePipeline`* (`FairSpec`): weak fairness of the worker's steps, of
an erasure that was begun and of the restart. The worker is one spawned task the
runtime keeps polling, its timer included; a supervisor restarts the process.
Nothing is assumed of clients or of failures. A request cut off by a crash counts
as answered: its connection drops. *`ClientUpdate`*: the log answers each request
it received (`Answered` of the pipeline), and a caller that got an error calls
again; losses are bounded. *`Freshness`*: whoever runs the auditor calls
`process_and_sign` again and again (the method processes what is new and returns;
its schedule is the deployment's), and a submission that is not lost arrives; a
clock that ticks or a log that grows is not assumed.

Two liveness properties are conditional: `Converges` on no version being erased,
`AuditorHeadServed` on no step back of the clock and on an entry added after the last lost
submission, failed batch or restart. Section 5 says what happens otherwise.

`SYMMETRY` permutes jobs (`UpdatePipeline`) or clients (`Distinguished`), and is not
used in the runs with liveness properties.

## 4. Proofs

`UpdatePipelineProofs` proves, for any sets of labels and requests and any
bounds, from `LabelsAssumption`, `JobsAssumption` and `BoundsAssumption`:

* `TypeCorrect`: `Spec => []TypeOK`.
* `LogIsAppendOnly`: `Spec => AppendOnly`. The writes of `apply_batch` touch
  index `latest` only, so the argument needs `latest = head` whenever the
  process is up, through every failure and restart (`HeadLoaded`).
* `VersionsAreContiguous`: `Spec => [](HistoryContiguous /\ SlotsContinueHistory)`.

`TypeOK` is not inductive: it is strengthened by `QueuedAreSubmitted` (what waits
in the queue or batch has a request), `BatchShape` (which locals may be set at
which `pc`, and how they bound the positions in use) and `HeadLoaded`; together
`TypeInv`. `HistoryContiguous` is not inductive either: `put_history_batch`
appends what was decided many steps earlier. `SlotsContinueHistory` carries the
decision across: during the check the overlay counts what was accepted, between
check and `put_history_batch` the accepted slots continue the stored history, and
their positions lie at or above `next_prefix_version` until it is moved and below
it afterwards. A write that fails after `set_next_prefix_version` only leaves a
gap in positions, which the invariant allows. Each proof has one lemma per group
of actions and one step per action and conjunct.

The rest of this module builds on these under the same assumptions.

`UpdatePipelineProofs` goes on to prove `TreesMatchLog`, `Spec => []ProofsMatchLog`, and
`AuditsReplay`, `Spec => []AuditReplay`, from `TreeInv`. `apply_batch` writes the
tree, its pointer, the counter, the log leaf and the audit record one after the
other, and only `set_head` makes them visible: `BatchWritten` says what each write
leaves for the next and for `set_head`. An abandoned batch leaves a tree and a
pointer at index `latest` behind, and positions that the next batch uses again.
That this never reaches a committed tree is `PtrsBelow`, committed trees lie below
`next_prefix_version`, together with the check's positions, which are at or above
it. That an audit record adds only what the tree before does not have needs
`Known`: what is in a tree is in the history, and the check numbers from the
history's end.

It also proves `SuccessIsCommitted`, `Spec => []AckedIsCommitted`, by
following a job that waits for its answer (`Waiting`): what it asked for is prepared
in phase 1, is prepared or accepted during the check, accepted while the batch is
written, and new in the last entry afterwards, unless it lost a race and is answered
accordingly. Jobs to which phase 1 already answered do not wait.

The section on the index of versions proves `VersionsAreIndexed`, `Spec =>
[]CommittedIsIndexed`. Its invariant `IndexInv` needs that a batch gives each update a position of its own,
above every stored one until the history is written (`SlotsApart`), that values and
openings are in place before the history and the history before the head
(`ValuesWritten`), and that an erasure excludes the batch, as it holds the read lock
(`EraseShape`).

From there it goes on to `SearchesAgree`, `Spec => [](faults = 0 => SearchSeesTree)`;
with a fault the property is false (section 5). The other direction of
`VersionsAreIndexed` is needed: what is indexed is committed. A record at a position an
entry covers is in that entry's tree (`CoveredIsCommitted`), every record is in the last
tree or about to be published (`RecordsCommitted`), and a batch writes above every
committed tree (`AboveLog`). That `get_max_version_at` has a maximum to return is shown
by the least of the upper bounds.

Then comes `CatchUpsReportEntries`, `Spec => [](faults = 0 =>
CatchUpIsCommitted)`. The binary search over entries is a recursive function; that it
is defined on all bounds (`SearchDefined`) and keeps the entry it looks for between
them (`SearchNarrows`) is shown by the least distance at which it would fail. It needs
entries at positions that never decrease (`PtrsAscend`). A catch-up then names the
first entry at or above the first missing version, and the records it covers are
those that entry added (`ReplyIsCommitted`); what was told stays true because the log
is append-only (`ToldStep`).

Its last theorem is `PipelineImplementsLog`, `Spec /\ [](faults = 0) =>
ImplementsLog`: with the abstract `log` read off the entries below the head
(`CommittedLog`), every step of `UpdatePipeline` is a step of `VersionedLog` or none.
Faults are excluded by hypothesis: a batch that fails between its history and its head
leaves versions that later ones are numbered after but no entry holds (section 5).
On top of the invariants above (`RefInv`) it needs `Quiet`, one lemma per part:

* a job is at one place of the batcher at a time (`OnePlace`), nobody who waits has
  been answered or is in the log before its batch is (`Fresh`), and whatever is prepared,
  accepted or committed is what its job asked for (`Owned`, `BatchJobs`);
* phase 1 numbers each label from its stored length on, across the jobs of a batch
  (`PreNumbered`, `OverlayPrepared`), so that the check of `apply_batch` accepts
  every update (`CheckAccepts`) and no batch fails or loses a race (`Smooth`);
* when the head is set, the histories end with the versions of the batch
  (`HeadNumbered`).

`set_head` is then one `Commit` of the whole batch (`SetHeadRefines`): what the jobs
asked for is what the batch adds (`BatchIsWanted`), and it continues the committed
versions of every label (`VersionsBefore`, `VersionsAdded`). Conflicts, refusals,
catch-ups and successes are the answers of the abstract log (`AssignRefines`,
`CatchUpRefines`, `AnswerRefines`); all other steps stutter.

`ClientUpdateProofs` proves, for any set of clients and any bounds, from
`UpdateAssumption`:

* `ClientsAreNeverAhead`: `Spec => []NeverAhead`,
* `AcknowledgedIsOwn`: `Spec => []AckedIsOwn`,
* `CopiesAreLosses`: `Spec => []CopiesPerLoss`,

from one inductive invariant, `IInv`. `NeverAhead` needs it to reach the network:
no request on its way advertises more than the log has, no answer reports more.
`AckedIsOwn` needs the answer to an accepted request to name exactly the version
after the one its client remembers at that time (`OneCall`, `TrueReply`): one call
at a time, and `label_versions` moves only when nothing is on its way. The same fact
shows that a correct answer is never refused, so that an insertion is forgotten only
when its answer was lost. `CopiesPerLoss` is counted: the versions of a client and
its requests still on their way, together, are no more than its lost answers, and
one more while it has a live request, an answer `ok` or an acknowledgement
(`Counted`). A stale request that is processed turns into a version, a lost call
turns the one more into a loss. The proof has one lemma per action, and one for the
clients that take no part in it.

`PrefixTreeProofs` proves, for keys of any height, batches of any size and any number
of failed batches and restarts, from `HeightAssumption`:

* `RootsAreContents`: `Spec => []RootIsContent`,
* `LookupsFold`: `Spec => []LookupsVerify`,
* `TransitionsAreVerified`: `Spec => []TransitionsVerify`.

The invariant `Inv` says what an entry means: there are maps `C` such that each entry in
use stands for the tree over `C[p]` (`Entry`) - it holds one of its keys, the hashes of
the siblings on the way to that key, and for each sibling that is not empty an earlier
entry that lies below it and whose own tree does not differ there (`Sibling`). Store and
cache agree on the entries in use (`CacheIsTrue`), and a log entry's content is the map of
the entry it points to (`LogIsTrue`). The maps are not a variable of the model: a batch
that fails after it moved `next_prefix_version` leaves entries that stand for trees nobody
committed, which is why they are quantified. A walk keeps `Way`: the copath collected so
far holds siblings of the tree it started in, and the entry it goes on from does not differ
from that tree below the bits it shares with the target. Each step goes down a level, so
that a walk ends (`WalkEnds`). The entry inserted at its end is the tree with one key more
(`InsertedTree`), and the loop over the batch, each key on top of the one before, makes one
tree for each key (`BatchTrees`); positions and cache entries left by a failed batch are
overwritten before they come into use (`InsertKeeps`). Folding the siblings of a lookup,
from the leaf or from the empty subtree it ran into, gives the root (`FoundFolds`,
`FailedFolds`), and the root of a tree does not depend on the key whose way is folded
(`MerkleSame`).

For the auditor the invariant has a second part, `Audited`: the audit record of a log entry
holds keys the content before it does not have, a lookup of each that is right in the tree
over that content (`Answers`), and commitments with which the content before becomes the
entry's own. It follows from the walks (`FailedAnswers`), from the map a batch makes
(`AddedIs`) and from the order of the record being a permutation of the batch (`SortedIs`,
from the order of keys being total). What the auditor builds from such a record is a set of
nodes of the tree before the batch (`Sound`) that no key of the batch lies below (`Known`);
every sibling on the way of every key of the batch is one of them, or lies above another key
of the batch, in which case the code compares it instead of using it (`Covers`,
`AbsorbKeeps`). Hence every node with a key of the batch below it is known or computed from
two nodes of the same kind or empty ones (`OldClosed`), also when the leaves of the batch are
added (`NewClosed`), and `resolve` is the Merkle hash there (`ResolveIsMerkle`): no
comparison of `verify_and_transition` fails, and its result is the root of the next entry.

`FreshnessProofs` proves, from `TimeAssumption`, `SignedHeadsAreMonotone`, `Spec =>
[]SignedIsMonotone`, and `TickerKeepsAcceptable`, `Spec => []RefusedOnlyWhenIdle` under one
hypothesis more, `TickerKeepsUp`: the ticker runs, clocks differ by at most `MaxAhead`, and
interval and difference together are at most `MaxBehind`. No code checks that; the help text
of `main.rs` advises it ("Keep well below --max-behind"), the defaults satisfy it (10 s, 10 s
and 60 s), and `Freshness.cfg` instantiates it; with a slower ticker the property is false. `SignedIsMonotone`
follows from what the auditor processed being in order (`Signed`): `process_and_sign` stops
before the first entry that goes back in time. `RefusedOnlyWhenIdle` needs that the auditor's
heads carry the timestamp of the last entry they cover (`Covers`) and, until the clock is
first set back, that entries are in order, the last tick or start is no longer ago than the
interval, and the head is no older than it once the running process has stamped it
(`OnTime`). It also needs `FrontierRises` of
`LogMathProofs`: a client compares timestamps in the order of the frontier, and that they
never decrease along the log helps only if the frontier lists entries from left to right.

`HeadSyncProofs` proves, from `SyncAssumption`, first `AuditorFollows`: `Spec =>
[]AuditorFollowsLog`, for every size, every split of the log into portions, every bootstrap
and every restart. Auditor and log compute the same root in ways that have little in common,
and both are compared with `TreeHash`, the recursive definition of a Merkle tree hash:

* The log. A node is given by the first entry under it and its width, a power of two
  (`Block`, `Node`). What the log reads for a node is the tree hash of the entries under it
  (`ResolvedIs`, and `ResolvedIsTreeHash` without a failed batch): for a stored node, by going down to the leaves
  (`ChunkIsTreeHash`); for one that is not full, by going down to its children, or to the left one only
  when nothing is on the right. That this is the definition's split at the largest power
  of two below the size is `TreeHashSplits`. It follows for the root (`RootIsTreeHash`).
* The auditor. An accumulator is `Canonical` for `n` entries when its peaks are full trees,
  left to right without gap, each less high than the one before, that end at `n`. Appending
  an entry breaks this in one place only, as the last two peaks may be of equal height
  (`Nearly`); merging moves that place to the left until it is gone (`MergeLastKeeps`,
  `MergeKeeps`, `AppendKeeps`), and a portion is appended entry by entry (`ReplayKeeps`). What a
  bootstrap copies from the log is canonical as well (`BootstrapIsCanonical`).
* The root of a canonical accumulator is the tree hash of its entries
  (`IncrementalRoot`): folded from the right, each step is the definition's split. The leaf
  flag of the collapsed right side, which `calculate_root` never sets, is the point of
  the right flag in `TreeHash`: it is set only when both children are leaves.

The invariant `Following` adds to this that the head on its way and the head the log keeps
are of a size the log has, and right. `set_auditor_head` reads the root from all the leaves
that are stored and may refuse a head for that (section 5). For a smaller size nothing is
shown. For the log's own size the theorem is exact: the head is refused if and only if there is
the leaf of a failed batch and the size is odd and more than one. In that case the last entry's node is
complete with that leaf under it, so that the root read is the tree hash of one entry more
(`ResolvedIs`), and tree hashes of different sizes differ (`TreeHashTells`); in every other
case the leaf lies in a node of its own, which is not read.

The second theorem of the module is `RetainsTheLog`: `Spec => []RetainedIsLog`. What a client
retains was captured on the way by `recursive_hash`, from the subtrees it had, from the
elements of the proof and from the leaves, and the theorem makes no assumption on what an
answer that was accepted contained; all that is known is the root it ended at.

* The fold is defined and has an outcome for whatever elements it is given
  (`FoldOutcomes`), and captures each node at most with one value.
* `log_parent_value` tells different children apart. So a node whose value is the tree hash
  of its entries has children of which that is true, and with the right root at the top
  everything captured is right (`FoldSound`). This includes the client's own subtrees:
  nothing need be known about them.
* The fold captures both children of every node above a visited entry (`FoldReaches`). A full
  subtree of the new size is the root, or its parent has the last entry under it
  (`PeaksReached`), and the last entry is on the frontier every query visits (`FrontierEnds`).

The invariant `Remembering` keeps this between the queries: a client has nothing yet, or has
the root and the subtrees of a size the log had.

The third theorem is the converse, `HonestAnswersVerify`: what the log itself answers is
accepted. It reads `Auditing => MaxLag <= 1` implies `Spec => []HonestQueryVerifies`, and the
hypothesis is exact: with a lag of two an honest answer can be refused (section 5).
`recursive_needed` at the log and `recursive_hash` at the client are two walks over the same
tree that nothing on the wire keeps in step; the proof shows that they are.

* They walk below the same nodes. The log also opens the path of the last entry the auditor
  signed. If that is the last entry of the log, the path is that of the frontier's end. If it
  is the one before, the two share a parent when the size is even (`SiblingPath`), and the
  frontier passes the entry when it is odd (`FrontierPasses`). So the path adds nothing
  (`BoundaryIsAbove`), which is what fails for larger lags.
* A node that the leaf of a failed batch completes lies above the last entry, whose path is
  opened by every query: the log reads its children instead.
* Below a node the client consumes exactly the elements the log emitted for it, and has the
  tree hash of the entries under it (`FoldAccepts`): by the least width of a node for which
  this is not so. Where the log left an element out, the client retained it, as the full
  subtrees of a size are full in every later one (`RetainedIsFull`).
* So the fold has the right root and nothing left (`HonestFold`). By the second theorem's
  lemmas it captured the full subtrees of the auditor's size too, and what the client makes of
  them is the root that was signed (`AuditorRootIsSigned`).

The invariant `Answering` joins `Following` and `Remembering`, and adds that without auditing
no auditor's head is ever held.

`DistinguishedProofs` proves, from `WalkAssumption` and `WindowAssumption`, for logs of any
size, any window, any number of clients and any limit on responses:

* `RetainedStayDistinguished`: `Spec => []RetainedAreDistinguished`,
* `GossipIsSound`: `Spec => []GossipTellsForks`,
* `WalksVerify`: `Spec => []WalkVerifies`.

What is distinguished is told without a walk (`Wide`): an entry is, when the timestamps of
the nearest ancestors on either side are a window apart. The recursion of
`find_distinguished_nodes`, which stops at the first entry that is not wide, finds all of
them (`DistinguishedAreWide`), as an interval inside another is no wider (`WideNests`,
`NarrowBelow`); this rests on how the subtrees of the search tree nest (`SubtreesNest` of
`LogMathProofs`). The invariant `IInv` (`Invariance`) says that what a client retains are the
wide entries at its own head, however its answer came about, and that its head is a head of
the log of that size, stamped no later than the next entry. That the client's walk ends with
the wide entries (`WalkEnds`) is counted: what a stack of disjoint subtrees covers
(`Tidy`, `Cover`) shrinks with every step. That an accepted answer had the log's timestamps
is all that is used of it (`TrueReplay`).

`RetainedAreDistinguished` follows since a wider log only widens the intervals (`AfterGrows`,
`WideGrows`), and a head that was stamped anew is still no later than the next entry
(`HeadPast`). The same comparison of two heads makes one of two lists the beginning of the
other (`ListsBegin`), and then the search of `compare_roots` for an overlap finds the roots
they share when the lengths differ by less than a factor of two (`PrefixOverlaps`); with a
fork it finds none, since any overlap it accepts has the last root of one list in it, which
the other cannot have (`ForkTold`).

`WalksVerify` is the converse of an accepted answer: log and client walk separately and nothing on the
wire tells which entry a timestamp belongs to. The log's walk is a recursion over subtrees,
the client's a stack; `InStep` says that what is left of the log's list is the
concatenation of the walks below the client's stack, top first. The client's stack holds entries the log did
not list, as a re-stamped head makes entries wide that were not; these are on the frontier,
or narrow at the log, and `NothingNarrow` and `HoldsNothing` show that reading them takes nothing from
the queue. At the end both queues are used up and each entry has the timestamp and the root
it has in the log (`ReaderDone`, `AnswerVerifies`).

`ArithmeticProofs` proves `LaddersMatch`, `LaddersAgree` for every version and target, from
`WidthAssumption`: `u32::MAX` is at least 15 (smaller widths, which the runs use, are powers of
two minus one). Doubling and bisection of `base_binary_ladder` and the two loops of
`decode_search_ladder` are four recursions; all of them are described by one condition
without recursion, `LadderBy`: there are bounds below and above the greatest version, each
lookup is the next one for the bounds before it (`NextLookup`), narrows them, and the ladder is
over when they have met. `BaseIsLadder` shows that the log's ladder is of this form, first for
the bisection, by the distance of its bounds, then rung by rung from the last power of two
down. The greatest version is enclosed at every step (`AlwaysEncloses`), so that both it and the
version above it are looked up, and no lookup is repeated (`LadderHolds`). The decoder takes the
same steps (`StepsTogether`) until a lookup decides, which is where `search_binary_ladder` cuts
the ladder (`DecidesOrSettles`, `CutIsRead`); hence `DecodeInverts`, `LadderSettlesSearch` and
`MonitoringIsCovered`. For the owner, any candidate that decodes the results at all decodes them
to the same lookups (`DecodedIsLadder`), and for a version up to 8 one candidate does: the
ladder has at least as many lookups as the version (`LadderIsLong`), except for version 7 where
it is the greatest there can be, and there candidate 3 decodes it (`CandidateFits`).

It also proves `TreesMatch`, `IndexTreesAgree` for every size and entry: the parts about the
Merkle tree and its peaks, the search tree and its frontier, and the chunks. Its part about
consistency proofs only speaks of sizes that are powers of two, like the property (section 5).

`LogMathProofs` holds what these proofs share: a recursive function over naturals exists and
satisfies its equation when each value depends on smaller arguments only (`Recursion`) or,
bounded from above, on larger ones (`RecursionFromRight`), and a set of naturals has a least
element (`LeastElement`). It also says what the index functions of `LogMath` return: levels,
children and spans of nodes, peaks, the frontier and the way to an entry. Induction over data is done with these: the library's induction
theorems take operators as parameters and cannot be used, but the least number at which
a fact fails, if there is one, is a contradiction to the fact before it.

Model-checked only:

* liveness (`Answered`, `Converges`, `AuditorHeadServed`), which is out of the prover's
  reach;
* `SearchWalks`, `OwnerWalks`, `ContactMonitor`, and the two properties of `Distinguished`
  about credentials.

Of `UpdatePipeline`, `Arithmetic`, `ClientUpdate`, `Freshness`, `HeadSync` and `PrefixTree` every safety property
that holds in their runs is proved, three of them (`SearchSeesTree`, `CatchUpIsCommitted`, `ImplementsLog`)
without faults, as they are checked.

## 5. Where code and documentation disagree

Two of these have a run of their own, which expects a violation; `PROJECT.json`
quotes the lines they contradict.

* **A version without an entry** (`pipeline_crash`). `put_history_batch` precedes
  `set_head`. If the process dies or `set_head` fails in between, the record
  stays; after the next commit `get_max_version_at` counts it, although no prefix
  tree holds it.
* **Lagging auditor** (`lagging_auditor`). The log splits nodes along the path of
  the auditor's last entry, the client does not; auditor at 2 and log at 4 is
  enough. A lag of one entry always works (`head_sync`).

The others are the exceptions that the properties of the passing runs state, so
that the property holds everywhere else and shows how far the exception goes:

* **Superseded within its batch** (`HonestSearchVerifies`). In step 6 of the search
  log and client look for an unexpired distinguished entry among different entries
  (`tree/traversal.rs:163`, `client/core.rs:1828`). An honest answer is refused
  only for a version superseded within the batch that added it.
* **Obligation without material** (`MaterialRetained`, `RefusalsExplained`). A search that ends
  in the single lookup (`client/core.rs:1662`) keeps no commitment for versions of the ladder it
  must monitor with, and the next honest monitoring answer fails
  (`client/core.rs:591`); again only for a version superseded within its batch, such as version 2 when
  the batch added 0 to 3.
* **Owner initialization and expiry** (`OwnerInitVerifies`). The client needs the
  timestamp of the expired ancestor at which the log stopped
  (`tree/traversal.rs:347`, `client/core.rs:684`), and has it only when that
  ancestor is on the frontier.
* **Owner ladders from version 9 on** (`OwnerLadderDecodes` in `LaddersAgree`). `verify_owner_ladder`
  tries targets up to the number of results (`client/core.rs:764`), which is only
  logarithmic in the version. Up to 8 every ladder is recovered.
* **Consistency proofs** (`ConsistencyProofCovers` in `IndexTreesAgree`). `sub_proof` takes children of
  the search tree's root for children of the Merkle root (`tree/log_math.rs:225`);
  right for sizes that are powers of two, wrong from sizes (1, 3) on.
* **Positions that block each other** (`RefusalsExplained`). When two monitored positions share
  an ancestor and the right one does not carry the greater version, the honest monitoring
  answer is refused (`client/core.rs:537`). The positions can carry the same version, found by
  searches at two sizes of the log, or the right one a smaller version that monitoring moved
  there before the left one was searched for. This and the missing material are the only
  refusals.
* **Overwritten obligations** (`ObligationsKept`). The map is keyed by position
  (`client/core.rs:557`, `client/core.rs:1512`); a smaller version replaces a
  greater one where their ways up meet.
* **Obligation not saved** (`ObligationsKept`). A fixed-version search saves the
  state before it adds the obligation (`client/core.rs:1499`); a restart loses it.
* **More distinguished entries than `max_response_entries`** (`WalkVerifies`). The
  log cuts the walk short (`tree/traversal.rs:406`), the client does not.
* **Credential updates** (`UpdateRefusedOnlyAtTerminal`) are refused when the
  terminal entry has become distinguished itself.
* **Lists of very different length** (`GossipTellsForks`). Lists where one is at
  least twice as long as the other can fail to meet.
* **Auditor head overtaken by the log** (`AuditorFollowsLog`). `get_root(3)` of a log
  with four entries is the root of all four (`tree/audit.rs:96`), so that an honest
  head can be refused once the log has grown past it.
* **Auditor head and a failed batch** (`AuditorFollowsLog`, `AuditorHeadServed`). A batch that
  fails or dies between `put_log_batch` (`tree/log.rs:193`) and `set_head`
  (`tree/write.rs:270`) leaves its leaf in the node chunk. When the size is odd and more than
  one, `get_root` of the present size reads a node with that leaf under it, and
  `set_auditor_head` (`tree/audit.rs:52`) refuses the honest head of the present log, also after
  a restart, until the next batch overwrites the leaf. The auditor does not submit the head
  again before that. The answers to clients are not affected (`HonestQueryVerifies`): they open the
  path of the last entry and take the signed root from the store.
* **Restart of an idle log** (`RefusedOnlyWhenIdle`). The ticker starts with the process and
  skips its first tick (`main.rs:233`), and the head is loaded with its old stamp. Until the
  first batch or tick, a client that asks for it can find it up to nearly two intervals old,
  and older by the time the log was down.
* **Idle log, client up to date** (`RefusedOnlyWhenIdle`). The ticker's new head is
  never sent to it: the answer is `SAME`, and the retained head grows old.
* **Idle log, auditor up to date** (`RefusedOnlyWhenIdle`). Its lag is measured from
  the re-stamped head instead of the last entry.
* **Clock set back** (`RefusedOnlyWhenIdle`). Entries are stamped without a look at
  the one before (`tree/write.rs:87`), and clients refuse the log while both are on
  the frontier.
* **Lost auditor heads** (`AuditorHeadServed`) are not submitted again until the log
  grows (`client/auditor.rs:74`).
* **Client behind an erased version** (`Converges`). Each catch-up that covers it
  fails (`tree/write.rs:342`); a greatest-version search is the way out.

Seen while modelling, and covered by no run:

* A client more rounds behind than one call makes, and restarted after every failed
  call, makes no progress: rounds are saved only on success. The bound on restarts
  hides it.
* A search between the two deletions of an erasure is answered with an empty value
  (`tree/read.rs:79`); a catch-up is not (`CatchUpIsCommitted`).
* Pruning goes by the age of the insertion entry (`tree/prune.rs:44`), searching by
  the entries on the walk: a version a search would still serve can lose its value.
* Owner monitoring with a monitoring map: the contact part puts ladder steps on the
  wire that the owner's walk does not count (`client/core.rs:1099`), and the answer
  is refused. `UnexpectedVersionNoticed` is about an empty map.
* Walks with a stopping position leave gaps in the retained list
  (`client/core.rs:960`), and honest clients then report forks to each other.

## 6. Not modelled, and the plan

* `crypto/*`: assumed ideal. A hash is the term it was computed from, a VRF output
  is its label and version, a signature is valid for what was signed.
* `service.rs`, `lib.rs`, the rest of `main.rs`: translation of messages, error
  codes and start-up, without state of their own.
* `bulk.rs`: offline construction of a store for benchmarks, single-threaded, with
  no concurrent reader.
* A search that reads between the two deletions of an erasure.
* `traverse_update_verification` and the proof in `post_update`'s answer: the
  answer's versions and their truth are in `UpdatePipeline` and `ClientUpdate`, the
  shape of its proof is not.
* Exchange of single heads and fork evidence in `client/gossip.rs`: a comparison of
  two signed roots of one size.
* Power failures that lose unsynced writes; numbering past `u32::MAX`; validation of
  requests the client never sends (positions out of order, too many of them).
* Benches, examples and tests, read for the intended behaviour.

Next: the proof of an update's answer, both sides, on top of `TreeProof`.
