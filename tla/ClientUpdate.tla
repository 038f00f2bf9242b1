---------------------------- MODULE ClientUpdate ----------------------------
(***************************************************************************)
(* Clients that publish a value for one label with KtClient::update while  *)
(* other writers add versions: the compare-and-swap of the log, the        *)
(* catch-up rounds, lost requests and responses, client restarts, erasure. *)
(* The log is the one VersionedLog specifies: requests take effect one at  *)
(* a time, in any order.  A client calls update again until it succeeds.   *)
(***************************************************************************)
EXTENDS Integers, Sequences, FiniteSets, SequencesExt

CONSTANTS
  Clients,
  Rounds,     \* 32 in the code
  MaxEvents   \* bound on the entries of other writers, lost calls, client restarts and
              \* erasures, together

ASSUME UpdateAssumption ==
  Rounds \in Nat \ {0} /\ MaxEvents \in Nat /\ "other" \notin Clients

None == -1

VARIABLES
  history,   \* label history: who wrote version v and in which entry, at v + 1
  erased,    \* versions without value and opening
  requests,  \* update requests on their way; live while the client waits for the answer
  reply,     \* per client: the answer on its way
  phase,     \* per client: idle, or wait inside update
  round,     \* per client: rounds made in this call, 0 between calls
  known,     \* label_versions of the label
  saved,     \* ... in the state file
  acked,     \* per client: the version update returned Ok for
  faults     \* ghost: per client, the answers it lost; and the events spent

vars == <<history, erased, requests, reply, phase, round, known, saved, acked, faults>>
server == <<history, erased>>

Greatest == Len(history) - 1
LastEntry == IF history = <<>> THEN 0 ELSE Last(history).entry
Record(by, entry) == [by |-> by, entry |-> entry]

\* The versions with the value of c, counted from 1.
Own(c) == {i \in DOMAIN history : history[i].by = c}

NoReply == [kind |-> "none"]

Init ==
  /\ history = <<>> /\ erased = {} /\ requests = {}
  /\ reply = [c \in Clients |-> NoReply]
  /\ phase = [c \in Clients |-> "idle"] /\ round = [c \in Clients |-> 0]
  /\ known = [c \in Clients |-> None] /\ saved = [c \in Clients |-> None]
  /\ acked = [c \in Clients |-> None]
  /\ faults = [lost |-> [c \in Clients |-> 0], spent |-> 0]

Request(c, g, live) == [client |-> c, greatest |-> g, live |-> live]
Live(c)  == {q \in requests : q.client = c /\ q.live}
Stale(c) == {[q EXCEPT !.live = FALSE] : q \in Live(c)}

-----------------------------------------------------------------------------
\* The log.  Another writer's request may carry several values.
OtherWriter(n) ==
  /\ faults.spent < MaxEvents
  /\ faults' = [faults EXCEPT !.spent = @ + 1]
  /\ history' = history \o [k \in 1 .. n |-> Record("other", LastEntry + 1)]
  /\ UNCHANGED <<erased, requests, reply, phase, round, known, saved, acked>>

\* The versions after g in the entry of version g + 1, in ascending order: later versions
\* are in later entries, so they follow one another.
catch_up_update(g) ==
  LET missing == {v \in g + 1 .. Greatest : history[v + 1].entry <= history[g + 2].entry}
  IN  IF missing \cap erased # {} THEN [kind |-> "error"]
      ELSE [kind |-> "behind", versions |-> [k \in 1 .. Cardinality(missing) |-> g + k]]

\* Mutant: whatever the client advertised.
AlwaysEqual(g) == TRUE

CompareAndSwap(g) == g = Greatest

process(q) ==
  /\ requests' = requests \ {q}
  /\ history' = IF CompareAndSwap(q.greatest)
                THEN Append(history, Record(q.client, LastEntry + 1)) ELSE history
  /\ LET answer == IF CompareAndSwap(q.greatest) THEN [kind |-> "ok", versions |-> <<Greatest + 1>>]
                   ELSE IF q.greatest < Greatest THEN catch_up_update(q.greatest)
                   ELSE [kind |-> "conflict"]
     IN  reply' = IF q.live THEN [reply EXCEPT ![q.client] = answer] ELSE reply
  /\ UNCHANGED <<erased, phase, round, known, saved, acked, faults>>

erase(v) ==
  /\ v \notin erased /\ faults.spent < MaxEvents
  /\ erased' = erased \cup {v}
  /\ faults' = [faults EXCEPT !.spent = @ + 1]
  /\ UNCHANGED <<history, requests, reply, phase, round, known, saved, acked>>

-----------------------------------------------------------------------------
\* The client.
Send(c, g) == requests' = requests \cup {Request(c, g, TRUE)}

update(c) ==
  /\ phase[c] = "idle" /\ acked[c] = None
  /\ phase' = [phase EXCEPT ![c] = "wait"] /\ round' = [round EXCEPT ![c] = 1]
  /\ Send(c, known[c])
  /\ UNCHANGED <<server, reply, known, saved, acked, faults>>

\* Mutant: the version advertised itself.
StartAtGreatest(g) == IF g = None THEN 0 ELSE g

\* The first version the answer is about.
start(g) == IF g = None THEN 0 ELSE g + 1

\* One VRF proof per version, for the versions that follow the one advertised.
verify_update_response(g, resp) ==
  resp.versions # <<>> /\ \A k \in DOMAIN resp.versions : resp.versions[k] = g + k

Answered(c) == phase[c] = "wait" /\ reply[c].kind # "none" /\ reply' = [reply EXCEPT ![c] = NoReply]
Accepted(c) == reply[c].kind \in {"ok", "behind"} /\ verify_update_response(known[c], reply[c])

Return(c) ==
  /\ phase' = [phase EXCEPT ![c] = "idle"]
  /\ round' = [round EXCEPT ![c] = 0]

Inserted(c) ==
  /\ Answered(c) /\ Accepted(c) /\ reply[c].kind = "ok"
  /\ known' = [known EXCEPT ![c] = start(@)]
  /\ saved' = [saved EXCEPT ![c] = known'[c]]
  /\ acked' = [acked EXCEPT ![c] = known'[c]]
  /\ Return(c)
  /\ UNCHANGED <<server, requests, faults>>

\* Mutant: a call that used up its rounds leaves label_versions as it is in the file.
ForgetRounds(c) ==
  IF round[c] = Rounds THEN saved[c] ELSE start(known[c]) + Len(reply[c].versions) - 1

\* Mutant: one version too many.
AbsorbNext(c) == start(known[c]) + Len(reply[c].versions)

Absorb(c) == start(known[c]) + Len(reply[c].versions) - 1

\* The versions reported are remembered, not saved; the request is repeated while rounds
\* are left.
Disregarded(c) ==
  /\ Answered(c) /\ Accepted(c) /\ reply[c].kind = "behind"
  /\ known' = [known EXCEPT ![c] = Absorb(c)]
  /\ IF round[c] < Rounds
     THEN round' = [round EXCEPT ![c] = @ + 1] /\ Send(c, known'[c]) /\ UNCHANGED phase
     ELSE Return(c) /\ UNCHANGED requests
  /\ UNCHANGED <<server, saved, acked, faults>>

Refused(c) ==
  /\ Answered(c) /\ ~Accepted(c)
  /\ Return(c)
  /\ UNCHANGED <<server, requests, known, saved, acked, faults>>

\* The connection fails: the request is lost, or will still be processed, or its answer is
\* lost; the call returns an error.
ConnectionFails(c) ==
  /\ phase[c] = "wait" /\ faults.spent < MaxEvents
  /\ faults' = [faults EXCEPT !.lost[c] = @ + 1, !.spent = @ + 1]
  /\ \/ requests' = requests \ Live(c)
     \/ Live(c) # {} /\ requests' = (requests \ Live(c)) \cup Stale(c)
  /\ reply' = [reply EXCEPT ![c] = NoReply]
  /\ Return(c)
  /\ UNCHANGED <<server, known, saved, acked>>

\* A greatest-version search between two calls.
search(c) ==
  /\ phase[c] = "idle" /\ acked[c] = None /\ known[c] < Greatest
  /\ known' = [known EXCEPT ![c] = Greatest]
  /\ saved' = [saved EXCEPT ![c] = Greatest]
  /\ UNCHANGED <<server, requests, reply, phase, round, acked, faults>>

\* The client's process ends, inside a call or between two, and loads its state file.
persist_to(c) ==
  /\ faults.spent < MaxEvents
  /\ faults' = [faults EXCEPT !.spent = @ + 1,
                              !.lost[c] = IF phase[c] = "wait" THEN @ + 1 ELSE @]
  /\ known' = [known EXCEPT ![c] = saved[c]]
  /\ requests' = (requests \ Live(c)) \cup Stale(c)
  /\ reply' = [reply EXCEPT ![c] = NoReply]
  /\ Return(c)
  /\ UNCHANGED <<server, saved, acked>>

ClientStep(c) == update(c) \/ Inserted(c) \/ Disregarded(c) \/ Refused(c)

Next ==
  \/ \E n \in 1 .. 2 : OtherWriter(n)
  \/ \E q \in requests : process(q)
  \/ \E v \in 0 .. Greatest : erase(v)
  \/ \E c \in Clients : ClientStep(c) \/ ConnectionFails(c) \/ search(c) \/ persist_to(c)

\* The batch worker answers every request, and a caller that got an error calls again.
Fairness ==
  \A c \in Clients : WF_vars(ClientStep(c)) /\ WF_vars(\E q \in requests : q.client = c /\ process(q))

Spec == Init /\ [][Next]_vars /\ Fairness

-----------------------------------------------------------------------------
\* The version update returned Ok for holds the caller's value, whatever other writers,
\* earlier lost calls of its own and catch-up rounds came in between.
AckedIsOwn == \A c \in Clients : acked[c] # None => history[acked[c] + 1].by = c

\* A client never advertises a version the log does not have, also after its file was
\* loaded, so that the log never answers with a version conflict.
NeverAhead ==
  \A c \in Clients : /\ saved[c] <= known[c] /\ known[c] <= Greatest
                     /\ reply[c].kind # "conflict"

\* A value is in the log once, plus at most once for every answer that was lost: update's
\* retries after a catch-up never insert it again.
CopiesPerLoss == \A c \in Clients : Cardinality(Own(c)) <= 1 + faults.lost[c]

\* Every client gets its value in, over as many calls as it takes, unless a version is
\* erased: the rounds of a call that did not converge are not wasted, and a restart or a
\* search between two calls does no harm.
Converges == [](erased = {}) => \A c \in Clients : <>(acked[c] # None)
=============================================================================
