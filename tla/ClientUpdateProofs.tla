------------------------- MODULE ClientUpdateProofs -------------------------
(***************************************************************************)
(* Proofs about KtClient::update for any number of clients, rounds, other  *)
(* writers, lost calls, restarts and erasures.                             *)
(***************************************************************************)
EXTENDS ClientUpdate, FiniteSetTheorems, SequenceTheorems, TLAPS

Entry == [by : Clients \cup {"other"}, entry : Int]

TypeInv ==
  /\ history \in Seq(Entry)
  /\ requests \subseteq [client : Clients, greatest : Int, live : BOOLEAN]
  /\ IsFiniteSet(requests)
  /\ reply = [c \in Clients |-> reply[c]]
  /\ phase \in [Clients -> {"idle", "wait"}]
  /\ known \in [Clients -> Int] /\ saved \in [Clients -> Int] /\ acked \in [Clients -> Int]
  /\ faults \in [lost : [Clients -> Nat], spent : Nat]

\* No request is ahead of the log.
Behind == \A q \in requests : -1 <= q.greatest /\ q.greatest <= Greatest

\* ... nor is what a client remembers.
Remembers(c) == -1 <= saved[c] /\ saved[c] <= known[c] /\ known[c] <= Greatest

\* A client waits for one thing, for what it advertised last, and stops when it is done.
OneCall(c) ==
  /\ \A q \in Live(c) : q.greatest = known[c] /\ phase[c] = "wait" /\ reply[c].kind = "none"
  /\ reply[c].kind # "none" => phase[c] = "wait"
  /\ acked[c] # None => phase[c] = "idle"

\* What an answer says is so in the log.
TrueReply(c) ==
  /\ reply[c].kind \in {"none", "ok", "behind", "error"}
  /\ reply[c].kind = "ok" =>
       /\ reply[c].versions = <<known[c] + 1>>
       /\ known[c] + 2 \in Own(c)
  /\ reply[c].kind = "behind" =>
       /\ reply[c].versions \in Seq(Int)
       /\ \A k \in DOMAIN reply[c].versions : reply[c].versions[k] <= Greatest

AckedOwn(c) == acked[c] # None => acked[c] + 1 \in Own(c)

\* The one insertion a client is entitled to: asked for, answered or acknowledged.
Entitled(c) == Live(c) # {} \/ reply[c].kind = "ok" \/ acked[c] # None

Pending(c) == {q \in requests : q.client = c}

\* Every other copy, inserted or still to be, is for a call whose answer was lost.
Counted(c) ==
  Cardinality(Own(c)) + Cardinality(Pending(c))
    <= faults.lost[c] + (IF Entitled(c) THEN 1 ELSE 0)

ClientInv(c) == Remembers(c) /\ OneCall(c) /\ TrueReply(c) /\ AckedOwn(c) /\ Counted(c)

IInv == TypeInv /\ Behind /\ \A c \in Clients : ClientInv(c)

-----------------------------------------------------------------------------
\* What is counted is finite.
LEMMA OwnFinite ==
  ASSUME TypeInv, NEW c \in Clients
  PROVE  /\ IsFiniteSet(Own(c)) /\ Cardinality(Own(c)) \in Nat
         /\ Len(history) \in Nat /\ Own(c) \subseteq 1 .. Len(history)
<1>1. Len(history) \in Nat /\ DOMAIN history = 1 .. Len(history)
  BY DEF TypeInv
<1>2. IsFiniteSet(1 .. Len(history))
  BY <1>1, FS_Interval
<1>3. Own(c) \in SUBSET (1 .. Len(history))
  BY <1>1 DEF Own
<1> QED
  BY <1>1, <1>2, <1>3, FS_Subset, FS_CardinalityType

LEMMA PendingFinite ==
  ASSUME TypeInv, NEW c \in Clients
  PROVE  IsFiniteSet(Pending(c)) /\ Cardinality(Pending(c)) \in Nat
<1>1. Pending(c) \in SUBSET requests
  BY DEF Pending
<1> QED
  BY <1>1, FS_Subset, FS_CardinalityType DEF TypeInv

\* A request that takes effect adds one version, its client's.
LEMMA Appended ==
  ASSUME TypeInv, NEW b \in Clients \cup {"other"}, NEW e \in Int,
         history' = Append(history, Record(b, e)), NEW c \in Clients
  PROVE  /\ history' \in Seq(Entry) /\ Greatest' = Greatest + 1 /\ Greatest \in Int
         /\ Own(c)' = Own(c) \cup (IF b = c THEN {Len(history) + 1} ELSE {})
         /\ Cardinality(Own(c)') = Cardinality(Own(c)) + (IF b = c THEN 1 ELSE 0)
<1>1. /\ history \in Seq(Entry) /\ Record(b, e) \in Entry /\ Record(b, e).by = b
  BY DEF TypeInv, Entry, Record
<1>2. /\ history' \in Seq(Entry) /\ Len(history) \in Nat /\ DOMAIN history = 1 .. Len(history)
      /\ Len(history') = Len(history) + 1 /\ DOMAIN history' = 1 .. Len(history) + 1
      /\ \A i \in 1 .. Len(history) : history'[i] = history[i]
      /\ history'[Len(history) + 1] = Record(b, e)
  BY <1>1
<1>3. Own(c)' = Own(c) \cup (IF b = c THEN {Len(history) + 1} ELSE {})
  BY <1>1, <1>2 DEF Own
<1>4. Len(history) + 1 \notin Own(c)
  BY <1>2 DEF Own
<1>5. Cardinality(Own(c)') = Cardinality(Own(c)) + (IF b = c THEN 1 ELSE 0)
  <2>1. CASE b = c
    BY <2>1, <1>3, <1>4, OwnFinite, FS_AddElement
  <2>2. CASE b # c
    <3> Own(c)' = Own(c)
      BY <2>2, <1>3
    <3> QED
      BY <2>2, OwnFinite
  <2> QED
    BY <2>1, <2>2
<1> QED
  BY <1>2, <1>3, <1>5 DEF Greatest

\* Other writers add no copy.
LEMMA Foreign ==
  ASSUME TypeInv, NEW n \in Nat, NEW e \in Int,
         history' = history \o [k \in 1 .. n |-> Record("other", e)]
  PROVE  /\ history' \in Seq(Entry) /\ Greatest \in Int /\ Greatest' \in Int
         /\ Greatest <= Greatest' /\ \A c \in Clients : Own(c)' = Own(c)
<1> DEFINE more == [k \in 1 .. n |-> Record("other", e)]
<1>1. history \in Seq(Entry) /\ more \in Seq(Entry) /\ Len(more) = n
  <2>1. more \in [1 .. n -> Entry]
    BY DEF Entry, Record
  <2>2. more \in Seq(Entry) /\ DOMAIN more = 1 .. n
    BY <2>1, SeqDef
  <2>3. Len(more) = n
    BY <2>2, LenProperties
  <2> QED
    BY <2>2, <2>3 DEF TypeInv
<1>2. /\ history' \in Seq(Entry) /\ Len(history) \in Nat /\ DOMAIN history = 1 .. Len(history)
      /\ Len(history') = Len(history) + n /\ DOMAIN history' = 1 .. Len(history) + n
      /\ \A i \in 1 .. Len(history) : history'[i] = history[i]
      /\ \A i \in Len(history) + 1 .. Len(history) + n : history'[i].by = "other"
  <2> HIDE DEF more
  <2>1. history' = history \o more
    BY DEF more
  <2>2. \A k \in 1 .. n : more[k].by = "other"
    BY DEF more, Record
  <2>3. /\ history' \in Seq(Entry) /\ Len(history') = Len(history) + n
        /\ \A i \in 1 .. Len(history) + n :
             history'[i] = IF i <= Len(history) THEN history[i] ELSE more[i - Len(history)]
    <3>1. PICK m \in Seq(Entry) : m = more /\ Len(m) = n
      BY <1>1
    <3>2. /\ history \o m \in Seq(Entry) /\ Len(history \o m) = Len(history) + Len(m)
          /\ \A i \in 1 .. Len(history) + Len(m) :
               (history \o m)[i] = IF i <= Len(history) THEN history[i] ELSE m[i - Len(history)]
      BY <1>1, ConcatProperties
    <3> QED
      BY <2>1, <3>1, <3>2
  <2>4. /\ Len(history) \in Nat /\ DOMAIN history = 1 .. Len(history)
        /\ DOMAIN history' = 1 .. Len(history')
    BY <1>1, <2>3, LenProperties
  <2>5. \A i \in 1 .. Len(history) : history'[i] = history[i]
    BY <2>3, <2>4
  <2>6. ASSUME NEW i \in Len(history) + 1 .. Len(history) + n PROVE history'[i].by = "other"
    <3>1. i - Len(history) \in 1 .. n /\ history'[i] = more[i - Len(history)]
      BY <2>3, <2>4
    <3> QED
      BY <2>2, <3>1
  <2> QED
    BY <2>3, <2>4, <2>5, <2>6
<1>3. ASSUME NEW c \in Clients PROVE Own(c)' = Own(c)
  <2> c # "other"
    BY UpdateAssumption
  <2> QED
    BY <1>2 DEF Own
<1> QED
  BY <1>2, <1>3 DEF Greatest

\* The number of the newest entry.
LEMMA EntryType == TypeInv => LastEntry \in Int
<1> SUFFICES ASSUME TypeInv, history # <<>> PROVE LastEntry \in Int
  BY DEF LastEntry
<1>1. history \in Seq(Entry) /\ Len(history) \in DOMAIN history
  BY DEF TypeInv
<1>2. history[Len(history)] \in Entry
  BY <1>1
<1> QED
  BY <1>2 DEF LastEntry, Last, Entry

\* A client has one live request at most.
LEMMA OneLive ==
  ASSUME IInv, NEW c \in Clients, NEW q \in Live(c)
  PROVE  Live(c) = {q}
<1> SUFFICES ASSUME NEW r \in Live(c) PROVE r = q
  OBVIOUS
<1>1. /\ q \in [client : Clients, greatest : Int, live : BOOLEAN]
      /\ r \in [client : Clients, greatest : Int, live : BOOLEAN]
      /\ q.client = c /\ r.client = c /\ q.live /\ r.live
  BY DEF IInv, TypeInv, Live
<1>2. q.greatest = known[c] /\ r.greatest = known[c]
  BY DEF IInv, ClientInv, OneCall
<1> QED
  BY <1>1, <1>2

\* The client stops waiting: its request stays on its way, unanswered, or is lost.
LEMMA Shelved ==
  ASSUME IInv, NEW c \in Clients,
         \/ requests' = requests \ Live(c)
         \/ requests' = (requests \ Live(c)) \cup Stale(c)
  PROVE  /\ requests' \subseteq [client : Clients, greatest : Int, live : BOOLEAN]
         /\ IsFiniteSet(requests')
         /\ \A q \in requests' : -1 <= q.greatest /\ q.greatest <= Greatest
         /\ Live(c)' = {}
         /\ Cardinality(Pending(c)') <= Cardinality(Pending(c))
         /\ \A d \in Clients \ {c} : Live(d)' = Live(d) /\ Pending(d)' = Pending(d)
<1>1. TypeInv /\ Behind
  BY DEF IInv
<1>2. IsFiniteSet(requests) /\ IsFiniteSet(requests \ Live(c))
  BY <1>1, FS_Difference DEF TypeInv
<1>3. IsFiniteSet(Pending(c)) /\ Cardinality(Pending(c)) \in Nat
  BY <1>1, PendingFinite
<1>4. CASE requests' = requests \ Live(c)
  <2>1. /\ requests' \subseteq requests /\ Live(c)' = {}
        /\ \A d \in Clients \ {c} : Live(d)' = Live(d) /\ Pending(d)' = Pending(d)
        /\ Pending(c)' \in SUBSET Pending(c)
    BY <1>4 DEF Live, Pending
  <2>2. Cardinality(Pending(c)') <= Cardinality(Pending(c))
    BY <1>3, <2>1, FS_Subset
  <2> QED
    BY <1>1, <1>2, <1>4, <2>1, <2>2 DEF TypeInv, Behind
<1>5. CASE requests' = (requests \ Live(c)) \cup Stale(c) /\ Live(c) = {}
  <2>1. requests' = requests
    BY <1>5 DEF Stale
  <2>2. \A d \in Clients : Live(d)' = Live(d) /\ Pending(d)' = Pending(d)
    BY <2>1 DEF Live, Pending
  <2>3. /\ Live(c)' = {} /\ Cardinality(Pending(c)') <= Cardinality(Pending(c))
        /\ IsFiniteSet(requests')
    BY <1>2, <1>3, <1>5, <2>1, <2>2
  <2>4. /\ requests' \subseteq [client : Clients, greatest : Int, live : BOOLEAN]
        /\ \A q \in requests' : -1 <= q.greatest /\ q.greatest <= Greatest
    BY <1>1, <2>1 DEF TypeInv, Behind
  <2> QED
    BY <2>2, <2>3, <2>4
<1>6. CASE requests' = (requests \ Live(c)) \cup Stale(c) /\ Live(c) # {}
  <2>1. PICK q \in Live(c) : Live(c) = {q}
    BY <1>6, OneLive
  <2> DEFINE r == [q EXCEPT !.live = FALSE]
  <2>2. /\ q \in requests /\ q.client = c /\ q.live
        /\ q \in [client : Clients, greatest : Int, live : BOOLEAN]
    BY <1>1, <2>1 DEF Live, TypeInv
  <2>3. /\ r \in [client : Clients, greatest : Int, live : BOOLEAN]
        /\ r.client = c /\ r.greatest = q.greatest /\ ~r.live
    BY <2>2
  <2>4. requests' = (requests \ {q}) \cup {r}
    BY <1>6, <2>1 DEF Stale
  <2> HIDE DEF r
  <2>5. /\ Live(c)' = {} /\ Pending(c)' = (Pending(c) \ {q}) \cup {r}
        /\ \A d \in Clients \ {c} : Live(d)' = Live(d) /\ Pending(d)' = Pending(d)
    BY <2>1, <2>2, <2>3, <2>4 DEF Live, Pending
  <2>6. q \in Pending(c)
    BY <2>2 DEF Pending
  <2>7. /\ IsFiniteSet(Pending(c) \ {q})
        /\ Cardinality(Pending(c) \ {q}) = Cardinality(Pending(c)) - 1
    BY <1>3, <2>6, FS_RemoveElement
  <2>8. Cardinality(Pending(c)') <= Cardinality(Pending(c))
    <3>1. Cardinality((Pending(c) \ {q}) \cup {r}) =
            IF r \in Pending(c) \ {q} THEN Cardinality(Pending(c) \ {q})
            ELSE Cardinality(Pending(c) \ {q}) + 1
      BY <2>7, FS_AddElement
    <3> QED
      BY <1>3, <2>5, <2>7, <3>1
  <2>9. IsFiniteSet(requests')
    BY <1>2, <2>1, <2>4, FS_AddElement
  <2>10. /\ requests' \subseteq [client : Clients, greatest : Int, live : BOOLEAN]
         /\ \A p \in requests' : -1 <= p.greatest /\ p.greatest <= Greatest
    BY <1>1, <2>2, <2>3, <2>4 DEF TypeInv, Behind
  <2> QED
    BY <2>5, <2>8, <2>9, <2>10
<1> QED
  BY <1>4, <1>5, <1>6

\* A request of a client that waits for nothing.
LEMMA Sent ==
  ASSUME IInv, NEW c \in Clients, NEW g \in Int, -1 <= g, g <= Greatest, Live(c) = {},
         Send(c, g)
  PROVE  /\ requests' \subseteq [client : Clients, greatest : Int, live : BOOLEAN]
         /\ IsFiniteSet(requests')
         /\ \A q \in requests' : -1 <= q.greatest /\ q.greatest <= Greatest
         /\ Live(c)' = {Request(c, g, TRUE)}
         /\ Cardinality(Pending(c)') <= Cardinality(Pending(c)) + 1
         /\ \A d \in Clients \ {c} : Live(d)' = Live(d) /\ Pending(d)' = Pending(d)
<1> DEFINE r == Request(c, g, TRUE)
<1>1. /\ r \in [client : Clients, greatest : Int, live : BOOLEAN]
      /\ r.client = c /\ r.greatest = g /\ r.live
  BY DEF Request
<1>2. requests' = requests \cup {r}
  BY DEF Send
<1> HIDE DEF r
<1>3. TypeInv /\ Behind
  BY DEF IInv
<1>4. /\ Live(c)' = {r} /\ Pending(c)' = Pending(c) \cup {r}
      /\ \A d \in Clients \ {c} : Live(d)' = Live(d) /\ Pending(d)' = Pending(d)
  BY <1>1, <1>2 DEF Live, Pending
<1>5. IsFiniteSet(requests')
  BY <1>2, <1>3, FS_AddElement DEF TypeInv
<1>6. Cardinality(Pending(c)') <= Cardinality(Pending(c)) + 1
  <2>1. IsFiniteSet(Pending(c)) /\ Cardinality(Pending(c)) \in Nat
    BY <1>3, PendingFinite
  <2>2. Cardinality(Pending(c) \cup {r}) =
          IF r \in Pending(c) THEN Cardinality(Pending(c)) ELSE Cardinality(Pending(c)) + 1
    BY <2>1, FS_AddElement
  <2> QED
    BY <1>4, <2>1, <2>2
<1>7. /\ requests' \subseteq [client : Clients, greatest : Int, live : BOOLEAN]
      /\ \A q \in requests' : -1 <= q.greatest /\ q.greatest <= Greatest
  BY <1>1, <1>2, <1>3 DEF TypeInv, Behind
<1> QED
  BY <1>4, <1>5, <1>6, <1>7 DEF r

\* A request that was processed.
LEMMA Taken ==
  ASSUME IInv, NEW q \in requests, requests' = requests \ {q}
  PROVE  /\ requests' \subseteq [client : Clients, greatest : Int, live : BOOLEAN]
         /\ IsFiniteSet(requests') /\ q.client \in Clients
         /\ Live(q.client)' = Live(q.client) \ {q}
         /\ Cardinality(Pending(q.client)') = Cardinality(Pending(q.client)) - 1
         /\ \A d \in Clients \ {q.client} : Live(d)' = Live(d) /\ Pending(d)' = Pending(d)
<1>1. TypeInv
  BY DEF IInv
<1>2. q.client \in Clients
  BY <1>1 DEF TypeInv
<1>3. /\ Live(q.client)' = Live(q.client) \ {q} /\ q \in Pending(q.client)
      /\ Pending(q.client)' = Pending(q.client) \ {q}
      /\ \A d \in Clients \ {q.client} : Live(d)' = Live(d) /\ Pending(d)' = Pending(d)
  BY DEF Live, Pending
<1>4. Cardinality(Pending(q.client)') = Cardinality(Pending(q.client)) - 1
  BY <1>1, <1>2, <1>3, PendingFinite, FS_RemoveElement
<1>5. IsFiniteSet(requests')
  BY <1>1, FS_RemoveElement DEF TypeInv
<1> QED
  BY <1>1, <1>2, <1>3, <1>4, <1>5 DEF TypeInv

\* The numbers a client's invariant compares.
LEMMA Sizes ==
  ASSUME TypeInv, NEW c \in Clients
  PROVE  /\ Cardinality(Own(c)) \in Nat /\ Cardinality(Pending(c)) \in Nat
         /\ faults.lost[c] \in Nat /\ Greatest \in Int
         /\ known[c] \in Int /\ saved[c] \in Int /\ acked[c] \in Int
  BY OwnFinite, PendingFinite, SMTT(30) DEF TypeInv, Greatest

\* A client that takes no part in a step.
LEMMA Bystander ==
  ASSUME IInv, NEW d \in Clients,
         Greatest' \in Int, Greatest <= Greatest', Own(d)' = Own(d),
         Live(d)' = Live(d), Pending(d)' = Pending(d),
         reply'[d] = reply[d], phase'[d] = phase[d], known'[d] = known[d],
         saved'[d] = saved[d], acked'[d] = acked[d], faults'.lost[d] = faults.lost[d]
  PROVE  ClientInv(d)'
<1>1. TypeInv /\ ClientInv(d)
  BY DEF IInv
<1>2. /\ Greatest \in Int /\ known[d] \in Int /\ saved[d] \in Int
  BY <1>1, Sizes
<1>3. Remembers(d)'
  BY <1>1, <1>2 DEF ClientInv, Remembers
<1>4. OneCall(d)' /\ AckedOwn(d)'
  BY <1>1 DEF ClientInv, OneCall, AckedOwn
<1>5. TrueReply(d)'
  <2> SUFFICES ASSUME reply[d].kind = "behind", NEW k \in DOMAIN reply[d].versions
               PROVE  reply[d].versions[k] <= Greatest'
    BY <1>1 DEF ClientInv, TrueReply
  <2>1. reply[d].versions[k] \in Int /\ reply[d].versions[k] <= Greatest
    BY <1>1 DEF ClientInv, TrueReply
  <2> QED
    BY <1>2, <2>1
<1>6. Counted(d)'
  BY <1>1 DEF ClientInv, Counted, Entitled
<1> QED
  BY <1>3, <1>4, <1>5, <1>6 DEF ClientInv

\* A bounded event that costs no client an answer.
LEMMA SpendType ==
  ASSUME TypeInv, faults' = [faults EXCEPT !.spent = @ + 1]
  PROVE  faults'.lost = faults.lost /\ faults' \in [lost : [Clients -> Nat], spent : Nat]
<1>1. faults \in [lost : [Clients -> Nat], spent : Nat]
  BY DEF TypeInv
<1> QED
  BY <1>1

-----------------------------------------------------------------------------
\* One lemma per action.  The log: another writer's versions, an erasure, a request of a
\* client.
LEMMA OtherWriterPreserves ==
  ASSUME IInv, NEW n \in 1 .. 2, OtherWriter(n)
  PROVE  IInv'
<1>1. TypeInv /\ Behind
  BY DEF IInv
<1>2. LastEntry + 1 \in Int
  BY <1>1, EntryType
<1>3. /\ history' \in Seq(Entry) /\ Greatest \in Int /\ Greatest' \in Int
      /\ Greatest <= Greatest' /\ \A c \in Clients : Own(c)' = Own(c)
  <2>1. history' = history \o [k \in 1 .. n |-> Record("other", LastEntry + 1)] /\ n \in Nat
    BY DEF OtherWriter
  <2> QED
    BY <1>1, <1>2, <2>1, Foreign
<1>4. faults'.lost = faults.lost /\ faults' \in [lost : [Clients -> Nat], spent : Nat]
  BY <1>1, SpendType DEF OtherWriter
<1>5. TypeInv'
  BY <1>1, <1>3, <1>4 DEF TypeInv, OtherWriter
<1>6. Behind'
  <2> \A q \in requests : q.greatest \in Int
    BY <1>1 DEF TypeInv
  <2> QED
    BY <1>1, <1>3 DEF Behind, OtherWriter
<1>7. ASSUME NEW c \in Clients PROVE ClientInv(c)'
  <2> Live(c)' = Live(c) /\ Pending(c)' = Pending(c)
    BY DEF OtherWriter, Live, Pending
  <2> QED
    BY <1>3, <1>4, Bystander DEF OtherWriter
<1> QED
  BY <1>5, <1>6, <1>7 DEF IInv

LEMMA ErasePreserves ==
  ASSUME IInv, NEW v, erase(v)
  PROVE  IInv'
<1>1. TypeInv /\ Behind
  BY DEF IInv
<1>2. Greatest' = Greatest /\ Greatest \in Int
  BY <1>1 DEF erase, Greatest, TypeInv
<1>3. faults'.lost = faults.lost /\ faults' \in [lost : [Clients -> Nat], spent : Nat]
  BY <1>1, SpendType DEF erase
<1>4. TypeInv' /\ Behind'
  BY <1>1, <1>2, <1>3 DEF TypeInv, Behind, erase
<1>5. ASSUME NEW c \in Clients PROVE ClientInv(c)'
  <2> Live(c)' = Live(c) /\ Pending(c)' = Pending(c) /\ Own(c)' = Own(c)
    BY DEF erase, Live, Pending, Own
  <2> QED
    BY <1>2, <1>3, Bystander DEF erase
<1> QED
  BY <1>4, <1>5 DEF IInv

\* The log answers with versions it has.
LEMMA CatchUpTrue ==
  ASSUME TypeInv, NEW g \in Int, g < Greatest
  PROVE  /\ catch_up_update(g).kind \in {"error", "behind"}
         /\ catch_up_update(g).kind = "behind" =>
              /\ catch_up_update(g).versions \in Seq(Int)
              /\ \A k \in DOMAIN catch_up_update(g).versions :
                   catch_up_update(g).versions[k] <= Greatest
<1> DEFINE missing  == {v \in g + 1 .. Greatest : history[v + 1].entry <= history[g + 2].entry}
           versions == [k \in 1 .. Cardinality(missing) |-> g + k]
<1>1. Greatest \in Int
  BY DEF TypeInv, Greatest
<1>2. /\ IsFiniteSet(g + 1 .. Greatest)
      /\ Cardinality(g + 1 .. Greatest) = Greatest - g
  <2>1. g + 1 \in Int /\ g + 1 <= Greatest /\ Greatest - (g + 1) + 1 = Greatest - g
    BY <1>1
  <2> QED
    BY <1>1, <2>1, FS_Interval
<1>3. Cardinality(missing) \in Nat /\ Cardinality(missing) <= Greatest - g
  <2>1. missing \in SUBSET (g + 1 .. Greatest)
    OBVIOUS
  <2> HIDE DEF missing
  <2>2. IsFiniteSet(missing) /\ Cardinality(missing) <= Cardinality(g + 1 .. Greatest)
    BY <1>2, <2>1, FS_Subset
  <2>3. Cardinality(missing) \in Nat
    BY <2>2, FS_CardinalityType
  <2> QED
    BY <1>2, <2>2, <2>3
<1>4. versions \in Seq(Int) /\ \A k \in DOMAIN versions : versions[k] <= Greatest
  <2> HIDE DEF missing
  <2>1. versions \in [1 .. Cardinality(missing) -> Int]
    OBVIOUS
  <2>2. versions \in Seq(Int)
    BY <1>3, <2>1, SeqDef
  <2> QED
    BY <1>1, <1>3, <2>2
<1>5. \/ catch_up_update(g) = [kind |-> "error"]
      \/ catch_up_update(g) = [kind |-> "behind", versions |-> versions]
  BY DEF catch_up_update
<1> HIDE DEF versions
<1> QED
  BY <1>4, <1>5

LEMMA ProcessPreserves ==
  ASSUME IInv, NEW q \in requests, process(q)
  PROVE  IInv'
<1> DEFINE c == q.client
<1>1. TypeInv /\ Behind /\ c \in Clients /\ ClientInv(c)
  BY DEF IInv, TypeInv
<1>2. /\ q.greatest \in Int /\ q.live \in BOOLEAN /\ q.greatest <= Greatest
  BY <1>1 DEF TypeInv, Behind
<1>3. requests' = requests \ {q}
  BY DEF process
<1>4. /\ requests' \subseteq [client : Clients, greatest : Int, live : BOOLEAN]
      /\ IsFiniteSet(requests')
      /\ Live(c)' = Live(c) \ {q}
      /\ Cardinality(Pending(c)') = Cardinality(Pending(c)) - 1
      /\ \A d \in Clients \ {c} : Live(d)' = Live(d) /\ Pending(d)' = Pending(d)
  BY <1>3, Taken
<1>5. q.live => /\ Live(c)' = {} /\ Entitled(c) /\ q.greatest = known[c]
                /\ phase[c] = "wait" /\ reply[c].kind = "none" /\ acked[c] = None
  <2> SUFFICES ASSUME q.live PROVE q \in Live(c) /\ Live(c) = {q}
    BY <1>1, <1>4 DEF Entitled, ClientInv, OneCall
  <2>1. q \in Live(c)
    BY DEF Live
  <2> QED
    BY <1>1, <2>1, OneLive
<1>6. ~q.live => Live(c)' = Live(c)
  BY <1>4 DEF Live
<1>7. /\ reply' = [d \in Clients |-> reply'[d]]
      /\ \A d \in Clients \ {c} : reply'[d] = reply[d]
      /\ ~q.live => reply' = reply
  <2> reply = [d \in Clients |-> reply[d]]
    BY <1>1 DEF TypeInv
  <2> QED
    BY DEF process
<1>8. /\ Cardinality(Own(c)) \in Nat /\ Cardinality(Pending(c)) \in Nat
      /\ faults.lost[c] \in Nat /\ Greatest \in Int
      /\ known[c] \in Int /\ saved[c] \in Int /\ acked[c] \in Int
  BY <1>1, Sizes
<1>9. UNCHANGED <<erased, phase, round, known, saved, acked, faults>>
  BY DEF process
<1> HIDE DEF c
<1>10. CASE CompareAndSwap(q.greatest)
  <2>1. /\ q.greatest = Greatest
        /\ history' = Append(history, Record(c, LastEntry + 1)) /\ LastEntry + 1 \in Int
    BY <1>1, <1>10, EntryType DEF process, CompareAndSwap, c
  <2>2. /\ history' \in Seq(Entry) /\ Greatest' = Greatest + 1
        /\ \A d \in Clients :
             /\ Own(d)' = Own(d) \cup (IF c = d THEN {Len(history) + 1} ELSE {})
             /\ Cardinality(Own(d)') = Cardinality(Own(d)) + (IF c = d THEN 1 ELSE 0)
    BY <1>1, <2>1, Appended
  <2>3. q.live => reply'[c] = [kind |-> "ok", versions |-> <<Greatest + 1>>]
    <3> reply = [d \in Clients |-> reply[d]]
      BY <1>1 DEF TypeInv
    <3> QED
      BY <1>1, <1>10 DEF process, c
  <2>4. TypeInv'
    BY <1>1, <1>4, <1>7, <1>9, <2>2 DEF TypeInv
  <2>5. Behind'
    <3> SUFFICES ASSUME NEW r \in requests PROVE -1 <= r.greatest /\ r.greatest <= Greatest'
      BY <1>3 DEF Behind
    <3> r.greatest \in Int /\ -1 <= r.greatest /\ r.greatest <= Greatest
      BY <1>1 DEF TypeInv, Behind
    <3> QED
      BY <1>8, <2>2
  <2>6. ASSUME NEW d \in Clients, d # c PROVE ClientInv(d)'
    <3>1. Own(d)' = Own(d)
      BY <2>2, <2>6
    <3>2. Greatest' \in Int /\ Greatest <= Greatest'
      BY <1>8, <2>2
    <3>3. Live(d)' = Live(d) /\ Pending(d)' = Pending(d) /\ reply'[d] = reply[d]
      BY <1>4, <1>7, <2>6
    <3> QED
      BY <1>9, <3>1, <3>2, <3>3, Bystander
  <2>7. Remembers(c)'
    BY <1>1, <1>8, <1>9, <2>2 DEF ClientInv, Remembers
  <2>8. OneCall(c)'
    BY <1>1, <1>5, <1>6, <1>7, <1>9, <2>3 DEF ClientInv, OneCall
  <2>9. Own(c) \subseteq Own(c)' /\ Len(history) + 1 \in Own(c)'
    BY <1>1, <2>2
  <2>10. TrueReply(c)'
    <3>1. CASE q.live
      <4> known[c] + 1 = Greatest + 1 /\ known[c] + 2 = Len(history) + 1
        BY <1>1, <1>5, <1>8, <2>1, <3>1, OwnFinite DEF Greatest
      <4> QED
        BY <1>9, <2>3, <2>9, <3>1 DEF TrueReply
    <3>2. CASE ~q.live
      <4>1. reply'[c] = reply[c] /\ known'[c] = known[c] /\ TrueReply(c)
        BY <1>1, <1>7, <1>9, <3>2 DEF ClientInv
      <4>2. reply[c].kind = "behind" =>
              \A k \in DOMAIN reply[c].versions : reply[c].versions[k] <= Greatest'
        <5> SUFFICES ASSUME reply[c].kind = "behind", NEW k \in DOMAIN reply[c].versions
                     PROVE  reply[c].versions[k] <= Greatest'
          OBVIOUS
        <5> reply[c].versions[k] \in Int /\ reply[c].versions[k] <= Greatest
          BY <4>1 DEF TrueReply
        <5> QED
          BY <1>8, <2>2
      <4> QED
        BY <2>9, <4>1, <4>2 DEF TrueReply
    <3> QED
      BY <1>2, <3>1, <3>2
  <2>11. AckedOwn(c)'
    BY <1>1, <1>9, <2>9 DEF ClientInv, AckedOwn
  <2>12. Counted(c)'
    <3>1. Entitled(c) => Entitled(c)'
      BY <1>5, <1>6, <1>7, <1>9, <2>3 DEF Entitled
    <3> QED
      BY <1>1, <1>4, <1>8, <1>9, <2>2, <3>1 DEF ClientInv, Counted
  <2> QED
    BY <2>4, <2>5, <2>6, <2>7, <2>8, <2>10, <2>11, <2>12 DEF IInv, ClientInv
<1>11. CASE ~CompareAndSwap(q.greatest)
  <2>1. history' = history /\ q.greatest < Greatest
    BY <1>2, <1>8, <1>11 DEF process, CompareAndSwap
  <2>2. Greatest' = Greatest /\ \A d \in Clients : Own(d)' = Own(d)
    BY <2>1 DEF Greatest, Own
  <2>3. q.live => reply'[c] = catch_up_update(q.greatest)
    <3> reply = [d \in Clients |-> reply[d]]
      BY <1>1 DEF TypeInv
    <3> QED
      BY <1>1, <1>11, <2>1 DEF process, c
  <2>4. TypeInv' /\ Behind'
    BY <1>1, <1>3, <1>4, <1>7, <1>9, <2>1, <2>2 DEF TypeInv, Behind
  <2>5. ASSUME NEW d \in Clients, d # c PROVE ClientInv(d)'
    <3>1. Live(d)' = Live(d) /\ Pending(d)' = Pending(d) /\ reply'[d] = reply[d]
      BY <1>4, <1>7, <2>5
    <3> QED
      BY <1>8, <1>9, <2>2, <3>1, Bystander
  <2>6. /\ catch_up_update(q.greatest).kind \in {"error", "behind"}
        /\ catch_up_update(q.greatest).kind = "behind" =>
             /\ catch_up_update(q.greatest).versions \in Seq(Int)
             /\ \A k \in DOMAIN catch_up_update(q.greatest).versions :
                  catch_up_update(q.greatest).versions[k] <= Greatest
    BY <1>1, <1>2, <2>1, CatchUpTrue
  <2>7. Remembers(c)' /\ AckedOwn(c)'
    BY <1>1, <1>9, <2>2 DEF ClientInv, Remembers, AckedOwn
  <2>8. OneCall(c)'
    BY <1>1, <1>5, <1>6, <1>7, <1>9 DEF ClientInv, OneCall
  <2>9. TrueReply(c)'
    BY <1>1, <1>2, <1>7, <1>9, <2>2, <2>3, <2>6 DEF ClientInv, TrueReply
  <2>10. Counted(c)'
    <3>1. ~q.live => (Entitled(c)' <=> Entitled(c))
      BY <1>6, <1>7, <1>9 DEF Entitled
    <3> QED
      BY <1>1, <1>2, <1>4, <1>5, <1>8, <1>9, <2>2, <3>1 DEF ClientInv, Counted
  <2> QED
    BY <2>4, <2>5, <2>7, <2>8, <2>9, <2>10 DEF IInv, ClientInv
<1> QED
  BY <1>10, <1>11

-----------------------------------------------------------------------------
\* A step of one client: what is left to show of it.
LEMMA ClientStepPreserves ==
  ASSUME IInv, NEW c \in Clients, UNCHANGED history,
         requests' \subseteq [client : Clients, greatest : Int, live : BOOLEAN],
         IsFiniteSet(requests'), Behind',
         \A d \in Clients \ {c} : Live(d)' = Live(d) /\ Pending(d)' = Pending(d),
         reply' = reply \/ reply' = [reply EXCEPT ![c] = NoReply],
         NEW p \in {"idle", "wait"}, phase' = [phase EXCEPT ![c] = p],
         NEW k \in Int, known' = [known EXCEPT ![c] = k],
         NEW s \in Int, saved' = [saved EXCEPT ![c] = s],
         NEW a \in Int, acked' = [acked EXCEPT ![c] = a],
         faults' \in [lost : [Clients -> Nat], spent : Nat],
         \A d \in Clients \ {c} : faults'.lost[d] = faults.lost[d],
         ClientInv(c)'
  PROVE  IInv'
<1>1. TypeInv
  BY DEF IInv
<1>2. reply = [d \in Clients |-> reply[d]]
  BY <1>1 DEF TypeInv
<1>3. reply' = [d \in Clients |-> reply'[d]] /\ \A d \in Clients \ {c} : reply'[d] = reply[d]
  BY <1>2
<1>4. TypeInv'
  BY <1>1, <1>3 DEF TypeInv
<1>5. Greatest' = Greatest /\ Greatest \in Int /\ \A d \in Clients : Own(d)' = Own(d)
  BY <1>1 DEF Greatest, Own, TypeInv
<1>6. ASSUME NEW d \in Clients, d # c PROVE ClientInv(d)'
  <2>1. /\ phase'[d] = phase[d] /\ known'[d] = known[d] /\ saved'[d] = saved[d]
        /\ acked'[d] = acked[d]
    BY <1>1, <1>6 DEF TypeInv
  <2> QED
    BY <1>3, <1>5, <1>6, <2>1, Bystander
<1> QED
  BY <1>4, <1>6 DEF IInv

\* What the proofs of a client's steps start from.
LEMMA ClientFacts ==
  ASSUME IInv, NEW c \in Clients, UNCHANGED history
  PROVE  /\ TypeInv /\ Behind /\ ClientInv(c)
         /\ Greatest' = Greatest /\ Own(c)' = Own(c)
         /\ Cardinality(Own(c)) \in Nat /\ Cardinality(Pending(c)) \in Nat
         /\ faults.lost[c] \in Nat /\ Greatest \in Int
         /\ known[c] \in Int /\ saved[c] \in Int /\ acked[c] \in Int
         /\ -1 <= saved[c] /\ saved[c] <= known[c] /\ known[c] <= Greatest
  BY Sizes DEF IInv, ClientInv, Remembers, Greatest, Own

\* A step that leaves the other clients and the request set alone.
LEMMA RequestsStay ==
  ASSUME IInv, UNCHANGED <<history, requests>>
  PROVE  /\ requests' \subseteq [client : Clients, greatest : Int, live : BOOLEAN]
         /\ IsFiniteSet(requests') /\ Behind'
         /\ \A d \in Clients : Live(d)' = Live(d) /\ Pending(d)' = Pending(d)
  BY DEF IInv, TypeInv, Behind, Greatest, Live, Pending

\* The client: update and what it makes of an answer, lost connections, searches, restarts.
LEMMA UpdatePreserves ==
  ASSUME IInv, NEW c \in Clients, update(c)
  PROVE  IInv'
<1>1. /\ UNCHANGED <<history, reply, known, saved, acked, faults>>
      /\ phase[c] = "idle" /\ acked[c] = None
      /\ phase' = [phase EXCEPT ![c] = "wait"] /\ Send(c, known[c])
  BY DEF update, server
<1>2. /\ TypeInv /\ Behind /\ ClientInv(c)
      /\ Greatest' = Greatest /\ Own(c)' = Own(c)
      /\ Cardinality(Own(c)) \in Nat /\ Cardinality(Pending(c)) \in Nat
      /\ faults.lost[c] \in Nat /\ Greatest \in Int
      /\ known[c] \in Int /\ saved[c] \in Int /\ acked[c] \in Int
      /\ -1 <= saved[c] /\ saved[c] <= known[c] /\ known[c] <= Greatest
  BY <1>1, ClientFacts
<1>3. Live(c) = {} /\ reply[c].kind = "none" /\ ~Entitled(c)
  BY <1>1, <1>2 DEF ClientInv, OneCall, TrueReply, Entitled
<1>4. -1 <= known[c] /\ known[c] <= Greatest
  BY <1>2
<1>5. /\ requests' \subseteq [client : Clients, greatest : Int, live : BOOLEAN]
      /\ IsFiniteSet(requests')
      /\ \A q \in requests' : -1 <= q.greatest /\ q.greatest <= Greatest
      /\ Live(c)' = {Request(c, known[c], TRUE)}
      /\ Cardinality(Pending(c)') <= Cardinality(Pending(c)) + 1
      /\ \A d \in Clients \ {c} : Live(d)' = Live(d) /\ Pending(d)' = Pending(d)
  BY <1>1, <1>2, <1>3, <1>4, Sent
<1>6. phase'[c] = "wait"
  BY <1>1, <1>2 DEF TypeInv
<1>7. Remembers(c)' /\ AckedOwn(c)' /\ TrueReply(c)'
  BY <1>1, <1>2 DEF ClientInv, Remembers, AckedOwn, TrueReply
<1>8. OneCall(c)'
  BY <1>1, <1>3, <1>5, <1>6 DEF OneCall, Request
<1>9. Counted(c)'
  <2>1. Cardinality(Own(c)) + Cardinality(Pending(c)) <= faults.lost[c]
    BY <1>2, <1>3 DEF ClientInv, Counted
  <2>2. Entitled(c)'
    BY <1>5 DEF Entitled
  <2>3. Cardinality(Pending(c)') \in Nat
    <3> Pending(c)' \in SUBSET requests'
      BY DEF Pending
    <3> QED
      BY <1>5, FS_Subset, FS_CardinalityType
  <2> QED
    BY <1>1, <1>2, <1>5, <2>1, <2>2, <2>3 DEF Counted
<1>10. ClientInv(c)' /\ Behind'
  BY <1>2, <1>5, <1>7, <1>8, <1>9 DEF ClientInv, Behind
<1>11. /\ known' = [known EXCEPT ![c] = known[c]] /\ saved' = [saved EXCEPT ![c] = saved[c]]
       /\ acked' = [acked EXCEPT ![c] = acked[c]]
       /\ faults' \in [lost : [Clients -> Nat], spent : Nat]
  BY <1>1, <1>2 DEF TypeInv
<1> QED
  BY <1>1, <1>2, <1>5, <1>10, <1>11, ClientStepPreserves

\* A correct answer is accepted, so a lost insertion is the network's doing.
LEMMA OkIsAccepted ==
  ASSUME IInv, NEW c \in Clients, reply[c].kind = "ok"
  PROVE  Accepted(c)
<1>1. reply[c].versions = <<known[c] + 1>>
  BY DEF IInv, ClientInv, TrueReply
<1> QED
  BY <1>1 DEF Accepted, verify_update_response

LEMMA InsertedPreserves ==
  ASSUME IInv, NEW c \in Clients, Inserted(c)
  PROVE  IInv'
<1>1. /\ UNCHANGED <<history, requests, faults>>
      /\ phase[c] = "wait" /\ reply[c].kind = "ok"
      /\ reply' = [reply EXCEPT ![c] = NoReply]
      /\ phase' = [phase EXCEPT ![c] = "idle"]
      /\ known' = [known EXCEPT ![c] = start(known[c])]
      /\ saved' = [saved EXCEPT ![c] = known'[c]]
      /\ acked' = [acked EXCEPT ![c] = known'[c]]
  BY DEF Inserted, Answered, Return, server
<1>2. /\ TypeInv /\ Behind /\ ClientInv(c)
      /\ Greatest' = Greatest /\ Own(c)' = Own(c)
      /\ Cardinality(Own(c)) \in Nat /\ Cardinality(Pending(c)) \in Nat
      /\ faults.lost[c] \in Nat /\ Greatest \in Int
      /\ known[c] \in Int /\ saved[c] \in Int /\ acked[c] \in Int
      /\ -1 <= saved[c] /\ saved[c] <= known[c] /\ known[c] <= Greatest
  BY <1>1, ClientFacts
<1>3. /\ requests' \subseteq [client : Clients, greatest : Int, live : BOOLEAN]
      /\ IsFiniteSet(requests') /\ Behind'
      /\ \A d \in Clients : Live(d)' = Live(d) /\ Pending(d)' = Pending(d)
  BY <1>1, RequestsStay
<1>4. start(known[c]) = known[c] + 1
  BY <1>2 DEF start, None
<1>5. /\ phase'[c] = "idle" /\ reply'[c] = NoReply /\ known'[c] = known[c] + 1
      /\ saved'[c] = known[c] + 1 /\ acked'[c] = known[c] + 1
  BY <1>1, <1>2, <1>4 DEF TypeInv
<1>6. known[c] + 2 \in Own(c) /\ Live(c) = {}
  BY <1>1, <1>2 DEF ClientInv, TrueReply, OneCall
<1>7. Remembers(c)'
  <2> known[c] + 1 <= Greatest
    BY <1>2, <1>6, OwnFinite DEF Greatest
  <2> QED
    BY <1>2, <1>5 DEF Remembers
<1>8. OneCall(c)' /\ TrueReply(c)'
  BY <1>3, <1>5, <1>6 DEF OneCall, TrueReply, NoReply
<1>9. AckedOwn(c)'
  BY <1>2, <1>5, <1>6 DEF AckedOwn
<1>10. Counted(c)'
  <2> Entitled(c)' /\ Entitled(c)
    BY <1>1, <1>2, <1>5 DEF Entitled, None
  <2> QED
    BY <1>1, <1>2, <1>3 DEF ClientInv, Counted
<1>11. ClientInv(c)'
  BY <1>7, <1>8, <1>9, <1>10 DEF ClientInv
<1>12. /\ known[c] + 1 \in Int /\ known' = [known EXCEPT ![c] = known[c] + 1]
       /\ saved' = [saved EXCEPT ![c] = known[c] + 1]
       /\ acked' = [acked EXCEPT ![c] = known[c] + 1]
       /\ faults' \in [lost : [Clients -> Nat], spent : Nat] /\ faults'.lost = faults.lost
  BY <1>1, <1>2, <1>4, <1>5 DEF TypeInv
<1> QED
  BY <1>1, <1>3, <1>11, <1>12, ClientStepPreserves

LEMMA DisregardedPreserves ==
  ASSUME IInv, NEW c \in Clients, Disregarded(c)
  PROVE  IInv'
<1>1. /\ UNCHANGED <<history, saved, acked, faults>>
      /\ phase[c] = "wait" /\ reply[c].kind = "behind" /\ Accepted(c)
      /\ reply' = [reply EXCEPT ![c] = NoReply]
      /\ known' = [known EXCEPT ![c] = Absorb(c)]
      /\ \/ Send(c, known'[c]) /\ phase' = phase
         \/ phase' = [phase EXCEPT ![c] = "idle"] /\ UNCHANGED requests
  BY DEF Disregarded, Answered, Return, server
<1>2. /\ TypeInv /\ Behind /\ ClientInv(c)
      /\ Greatest' = Greatest /\ Own(c)' = Own(c)
      /\ Cardinality(Own(c)) \in Nat /\ Cardinality(Pending(c)) \in Nat
      /\ faults.lost[c] \in Nat /\ Greatest \in Int
      /\ known[c] \in Int /\ saved[c] \in Int /\ acked[c] \in Int
      /\ -1 <= saved[c] /\ saved[c] <= known[c] /\ known[c] <= Greatest
  BY <1>1, ClientFacts
<1>3. Live(c) = {} /\ acked[c] = None /\ ~Entitled(c)
  BY <1>1, <1>2 DEF ClientInv, OneCall, TrueReply, Entitled
<1> DEFINE n == Len(reply[c].versions)
<1>4. /\ n \in Nat \ {0} /\ reply[c].versions[n] = known[c] + n
      /\ reply[c].versions[n] <= Greatest
  <2>1. reply[c].versions \in Seq(Int) /\ reply[c].versions # <<>>
    BY <1>1, <1>2 DEF ClientInv, TrueReply, Accepted, verify_update_response
  <2>2. n \in Nat \ {0} /\ n \in DOMAIN reply[c].versions
    BY <2>1
  <2> QED
    BY <1>1, <1>2, <2>2 DEF ClientInv, TrueReply, Accepted, verify_update_response
<1>5. Absorb(c) = known[c] + n
  <2>1. start(known[c]) = known[c] + 1
    BY <1>2 DEF start, None
  <2>2. Absorb(c) = start(known[c]) + n - 1
    BY DEF Absorb
  <2> HIDE DEF n
  <2> QED
    BY <1>2, <1>4, <2>1, <2>2
<1> HIDE DEF n
<1>6. /\ known'[c] = known[c] + n /\ known[c] + n \in Int /\ reply'[c] = NoReply
      /\ -1 <= known'[c] /\ known'[c] <= Greatest /\ saved[c] <= known'[c]
  BY <1>1, <1>2, <1>4, <1>5 DEF TypeInv
<1>7. /\ requests' \subseteq [client : Clients, greatest : Int, live : BOOLEAN]
      /\ IsFiniteSet(requests') /\ Behind'
      /\ \A d \in Clients \ {c} : Live(d)' = Live(d) /\ Pending(d)' = Pending(d)
      /\ \A q \in Live(c)' : q.greatest = known'[c] /\ phase'[c] = "wait"
      /\ Cardinality(Pending(c)') \in Nat
      /\ Cardinality(Pending(c)') <= Cardinality(Pending(c)) + (IF Live(c)' = {} THEN 0 ELSE 1)
      /\ phase'[c] \in {"idle", "wait"} /\ phase' = [phase EXCEPT ![c] = phase'[c]]
  <2>1. CASE Send(c, known'[c]) /\ phase' = phase
    <3>1. /\ requests' \subseteq [client : Clients, greatest : Int, live : BOOLEAN]
          /\ IsFiniteSet(requests')
          /\ \A q \in requests' : -1 <= q.greatest /\ q.greatest <= Greatest
          /\ Live(c)' = {Request(c, known'[c], TRUE)}
          /\ Cardinality(Pending(c)') <= Cardinality(Pending(c)) + 1
          /\ \A d \in Clients \ {c} : Live(d)' = Live(d) /\ Pending(d)' = Pending(d)
      BY <1>3, <1>6, <2>1, Sent
    <3>2. Cardinality(Pending(c)') \in Nat
      <4> Pending(c)' \in SUBSET requests'
        BY DEF Pending
      <4> QED
        BY <3>1, FS_Subset, FS_CardinalityType
    <3>3. phase'[c] = "wait" /\ phase' = [phase EXCEPT ![c] = phase'[c]]
      BY <1>1, <1>2, <2>1 DEF TypeInv
    <3>4. Behind' /\ \A q \in Live(c)' : q.greatest = known'[c] /\ phase'[c] = "wait"
      BY <1>2, <3>1, <3>3 DEF Behind, Request
    <3>5. Live(c)' # {}
      BY <3>1
    <3> QED
      BY <3>1, <3>2, <3>3, <3>4, <3>5
  <2>2. CASE phase' = [phase EXCEPT ![c] = "idle"] /\ UNCHANGED requests
    <3>1. phase'[c] = "idle" /\ phase' = [phase EXCEPT ![c] = phase'[c]]
      BY <1>2, <2>2 DEF TypeInv
    <3>2. /\ requests' \subseteq [client : Clients, greatest : Int, live : BOOLEAN]
          /\ IsFiniteSet(requests') /\ Behind'
          /\ \A d \in Clients : Live(d)' = Live(d) /\ Pending(d)' = Pending(d)
      BY <1>1, <2>2, RequestsStay
    <3>3. Live(c)' = {} /\ Cardinality(Pending(c)') = Cardinality(Pending(c))
      BY <1>3, <3>2
    <3>4. /\ Cardinality(Pending(c)') \in Nat
          /\ Cardinality(Pending(c)') <= Cardinality(Pending(c)) + (IF Live(c)' = {} THEN 0 ELSE 1)
      BY <1>2, <3>3
    <3>5. \A q \in Live(c)' : q.greatest = known'[c] /\ phase'[c] = "wait"
      BY <3>3
    <3>6. \A d \in Clients \ {c} : Live(d)' = Live(d) /\ Pending(d)' = Pending(d)
      BY <3>2
    <3> QED
      BY <3>1, <3>2, <3>4, <3>5, <3>6
  <2> QED
    BY <1>1, <2>1, <2>2
<1>8. Remembers(c)' /\ AckedOwn(c)' /\ OneCall(c)' /\ TrueReply(c)'
  BY <1>1, <1>2, <1>3, <1>6, <1>7 DEF ClientInv, Remembers, AckedOwn, OneCall, TrueReply, NoReply
<1>9. Counted(c)'
  <2>1. Cardinality(Own(c)) + Cardinality(Pending(c)) <= faults.lost[c]
    BY <1>2, <1>3 DEF ClientInv, Counted
  <2>2. Live(c)' # {} => Entitled(c)'
    BY DEF Entitled
  <2> QED
    BY <1>1, <1>2, <1>7, <2>1, <2>2 DEF Counted
<1>10. ClientInv(c)'
  BY <1>8, <1>9 DEF ClientInv
<1>11. /\ known' = [known EXCEPT ![c] = known[c] + n] /\ saved' = [saved EXCEPT ![c] = saved[c]]
       /\ acked' = [acked EXCEPT ![c] = acked[c]]
       /\ faults' \in [lost : [Clients -> Nat], spent : Nat] /\ faults'.lost = faults.lost
  BY <1>1, <1>2, <1>5 DEF TypeInv
<1> QED
  BY <1>1, <1>2, <1>6, <1>7, <1>10, <1>11, ClientStepPreserves

LEMMA RefusedPreserves ==
  ASSUME IInv, NEW c \in Clients, Refused(c)
  PROVE  IInv'
<1>1. /\ UNCHANGED <<history, requests, known, saved, acked, faults>>
      /\ phase[c] = "wait" /\ reply[c].kind # "none" /\ ~Accepted(c)
      /\ reply' = [reply EXCEPT ![c] = NoReply]
      /\ phase' = [phase EXCEPT ![c] = "idle"]
  BY DEF Refused, Answered, Return, server
<1>2. /\ TypeInv /\ Behind /\ ClientInv(c)
      /\ Greatest' = Greatest /\ Own(c)' = Own(c)
      /\ Cardinality(Own(c)) \in Nat /\ Cardinality(Pending(c)) \in Nat
      /\ faults.lost[c] \in Nat /\ Greatest \in Int
      /\ known[c] \in Int /\ saved[c] \in Int /\ acked[c] \in Int
      /\ -1 <= saved[c] /\ saved[c] <= known[c] /\ known[c] <= Greatest
  BY <1>1, ClientFacts
<1>3. /\ requests' \subseteq [client : Clients, greatest : Int, live : BOOLEAN]
      /\ IsFiniteSet(requests') /\ Behind'
      /\ \A d \in Clients : Live(d)' = Live(d) /\ Pending(d)' = Pending(d)
  BY <1>1, RequestsStay
<1>4. reply[c].kind # "ok" /\ Live(c) = {} /\ acked[c] = None
  BY <1>1, <1>2, OkIsAccepted DEF ClientInv, OneCall
<1>5. reply'[c] = NoReply /\ phase'[c] = "idle"
  BY <1>1, <1>2 DEF TypeInv
<1>6. Remembers(c)' /\ AckedOwn(c)' /\ OneCall(c)' /\ TrueReply(c)'
  BY <1>1, <1>2, <1>3, <1>4, <1>5
  DEF ClientInv, Remembers, AckedOwn, OneCall, TrueReply, NoReply
<1>7. Counted(c)'
  <2> Entitled(c) <=> Entitled(c)'
    BY <1>1, <1>3, <1>4, <1>5 DEF Entitled, NoReply
  <2> QED
    BY <1>1, <1>2, <1>3 DEF ClientInv, Counted
<1>8. ClientInv(c)'
  BY <1>6, <1>7 DEF ClientInv
<1>9. /\ known' = [known EXCEPT ![c] = known[c]] /\ saved' = [saved EXCEPT ![c] = saved[c]]
      /\ acked' = [acked EXCEPT ![c] = acked[c]]
      /\ faults' \in [lost : [Clients -> Nat], spent : Nat]
  BY <1>1, <1>2 DEF TypeInv
<1> QED
  BY <1>1, <1>2, <1>3, <1>8, <1>9, ClientStepPreserves

LEMMA SearchPreserves ==
  ASSUME IInv, NEW c \in Clients, search(c)
  PROVE  IInv'
<1>1. /\ UNCHANGED <<history, requests, reply, phase, acked, faults>>
      /\ phase[c] = "idle" /\ acked[c] = None
      /\ known' = [known EXCEPT ![c] = Greatest] /\ saved' = [saved EXCEPT ![c] = Greatest]
  BY DEF search, server
<1>2. /\ TypeInv /\ Behind /\ ClientInv(c)
      /\ Greatest' = Greatest /\ Own(c)' = Own(c)
      /\ Cardinality(Own(c)) \in Nat /\ Cardinality(Pending(c)) \in Nat
      /\ faults.lost[c] \in Nat /\ Greatest \in Int
      /\ known[c] \in Int /\ saved[c] \in Int /\ acked[c] \in Int
      /\ -1 <= saved[c] /\ saved[c] <= known[c] /\ known[c] <= Greatest
  BY <1>1, ClientFacts
<1>3. /\ requests' \subseteq [client : Clients, greatest : Int, live : BOOLEAN]
      /\ IsFiniteSet(requests') /\ Behind'
      /\ \A d \in Clients : Live(d)' = Live(d) /\ Pending(d)' = Pending(d)
  BY <1>1, RequestsStay
<1>4. reply[c].kind = "none" /\ Live(c) = {}
  BY <1>1, <1>2 DEF ClientInv, OneCall, TrueReply
<1>5. known'[c] = Greatest /\ saved'[c] = Greatest
  BY <1>1, <1>2 DEF TypeInv
<1>6. Remembers(c)' /\ AckedOwn(c)' /\ OneCall(c)' /\ TrueReply(c)'
  BY <1>1, <1>2, <1>3, <1>4, <1>5 DEF ClientInv, Remembers, AckedOwn, OneCall, TrueReply
<1>7. Counted(c)'
  BY <1>1, <1>2, <1>3 DEF ClientInv, Counted, Entitled
<1>8. ClientInv(c)'
  BY <1>6, <1>7 DEF ClientInv
<1>9. /\ phase' = [phase EXCEPT ![c] = "idle"] /\ acked' = [acked EXCEPT ![c] = acked[c]]
      /\ faults' \in [lost : [Clients -> Nat], spent : Nat]
  BY <1>1, <1>2 DEF TypeInv
<1> QED
  BY <1>1, <1>2, <1>3, <1>8, <1>9, ClientStepPreserves

LEMMA ConnectionFailsPreserves ==
  ASSUME IInv, NEW c \in Clients, ConnectionFails(c)
  PROVE  IInv'
<1>1. /\ UNCHANGED <<history, known, saved, acked>>
      /\ phase[c] = "wait"
      /\ faults' = [faults EXCEPT !.lost[c] = @ + 1, !.spent = @ + 1]
      /\ \/ requests' = requests \ Live(c)
         \/ requests' = (requests \ Live(c)) \cup Stale(c)
      /\ reply' = [reply EXCEPT ![c] = NoReply]
      /\ phase' = [phase EXCEPT ![c] = "idle"]
  BY DEF ConnectionFails, Return, server
<1>2. /\ TypeInv /\ Behind /\ ClientInv(c)
      /\ Greatest' = Greatest /\ Own(c)' = Own(c)
      /\ Cardinality(Own(c)) \in Nat /\ Cardinality(Pending(c)) \in Nat
      /\ faults.lost[c] \in Nat /\ Greatest \in Int
      /\ known[c] \in Int /\ saved[c] \in Int /\ acked[c] \in Int
      /\ -1 <= saved[c] /\ saved[c] <= known[c] /\ known[c] <= Greatest
  BY <1>1, ClientFacts
<1>3. /\ requests' \subseteq [client : Clients, greatest : Int, live : BOOLEAN]
      /\ IsFiniteSet(requests')
      /\ \A q \in requests' : -1 <= q.greatest /\ q.greatest <= Greatest
      /\ Live(c)' = {}
      /\ Cardinality(Pending(c)') <= Cardinality(Pending(c))
      /\ \A d \in Clients \ {c} : Live(d)' = Live(d) /\ Pending(d)' = Pending(d)
  BY <1>1, Shelved
<1>4. acked[c] = None /\ reply'[c] = NoReply /\ phase'[c] = "idle"
  BY <1>1, <1>2 DEF ClientInv, OneCall, TypeInv
<1>5. /\ faults' \in [lost : [Clients -> Nat], spent : Nat]
      /\ faults'.lost[c] = faults.lost[c] + 1
      /\ \A d \in Clients \ {c} : faults'.lost[d] = faults.lost[d]
  <2>1. /\ faults = [lost |-> faults.lost, spent |-> faults.spent]
        /\ faults.lost \in [Clients -> Nat] /\ faults.spent \in Nat
    BY <1>2 DEF TypeInv
  <2>2. faults' = [lost  |-> [faults.lost EXCEPT ![c] = @ + 1], spent |-> faults.spent + 1]
    BY <1>1, <2>1
  <2> QED
    BY <2>1, <2>2
<1>6. Remembers(c)' /\ AckedOwn(c)' /\ OneCall(c)' /\ TrueReply(c)'
  BY <1>1, <1>2, <1>3, <1>4
  DEF ClientInv, Remembers, AckedOwn, OneCall, TrueReply, NoReply
<1>7. Counted(c)'
  <2>1. ~Entitled(c)'
    BY <1>1, <1>3, <1>4 DEF Entitled, NoReply
  <2>2. Cardinality(Own(c)) + Cardinality(Pending(c)) <= faults.lost[c] + 1
    BY <1>2 DEF ClientInv, Counted
  <2>3. Cardinality(Pending(c)') \in Nat
    <3> Pending(c)' \in SUBSET requests'
      BY DEF Pending
    <3> QED
      BY <1>3, FS_Subset, FS_CardinalityType
  <2> QED
    BY <1>2, <1>3, <1>5, <2>1, <2>2, <2>3 DEF Counted
<1>8. ClientInv(c)' /\ Behind'
  BY <1>2, <1>3, <1>6, <1>7 DEF ClientInv, Behind
<1>9. /\ known' = [known EXCEPT ![c] = known[c]] /\ saved' = [saved EXCEPT ![c] = saved[c]]
      /\ acked' = [acked EXCEPT ![c] = acked[c]]
  BY <1>1, <1>2 DEF TypeInv
<1> QED
  BY <1>1, <1>2, <1>3, <1>5, <1>8, <1>9, ClientStepPreserves

LEMMA PersistPreserves ==
  ASSUME IInv, NEW c \in Clients, persist_to(c)
  PROVE  IInv'
<1>1. /\ UNCHANGED <<history, saved, acked>>
      /\ faults' = [faults EXCEPT !.spent = @ + 1,
                                  !.lost[c] = IF phase[c] = "wait" THEN @ + 1 ELSE @]
      /\ requests' = (requests \ Live(c)) \cup Stale(c)
      /\ known' = [known EXCEPT ![c] = saved[c]]
      /\ reply' = [reply EXCEPT ![c] = NoReply]
      /\ phase' = [phase EXCEPT ![c] = "idle"]
  BY DEF persist_to, Return, server
<1>2. /\ TypeInv /\ Behind /\ ClientInv(c)
      /\ Greatest' = Greatest /\ Own(c)' = Own(c)
      /\ Cardinality(Own(c)) \in Nat /\ Cardinality(Pending(c)) \in Nat
      /\ faults.lost[c] \in Nat /\ Greatest \in Int
      /\ known[c] \in Int /\ saved[c] \in Int /\ acked[c] \in Int
      /\ -1 <= saved[c] /\ saved[c] <= known[c] /\ known[c] <= Greatest
  BY <1>1, ClientFacts
<1>3. /\ requests' \subseteq [client : Clients, greatest : Int, live : BOOLEAN]
      /\ IsFiniteSet(requests')
      /\ \A q \in requests' : -1 <= q.greatest /\ q.greatest <= Greatest
      /\ Live(c)' = {}
      /\ Cardinality(Pending(c)') <= Cardinality(Pending(c))
      /\ \A d \in Clients \ {c} : Live(d)' = Live(d) /\ Pending(d)' = Pending(d)
  BY <1>1, Shelved
<1>4. known'[c] = saved[c] /\ reply'[c] = NoReply /\ phase'[c] = "idle"
  BY <1>1, <1>2 DEF TypeInv
<1>5. /\ faults' \in [lost : [Clients -> Nat], spent : Nat]
      /\ faults'.lost[c] = faults.lost[c] + (IF phase[c] = "wait" THEN 1 ELSE 0)
      /\ \A d \in Clients \ {c} : faults'.lost[d] = faults.lost[d]
  <2>1. /\ faults = [lost |-> faults.lost, spent |-> faults.spent]
        /\ faults.lost \in [Clients -> Nat] /\ faults.spent \in Nat
    BY <1>2 DEF TypeInv
  <2>2. faults' = [lost  |-> [faults.lost EXCEPT ![c] = IF phase[c] = "wait" THEN @ + 1 ELSE @],
                   spent |-> faults.spent + 1]
    BY <1>1, <2>1
  <2>3. faults.lost[c] \in Nat
    BY <2>1
  <2> QED
    BY <2>1, <2>2, <2>3
<1>6. Remembers(c)' /\ AckedOwn(c)' /\ OneCall(c)' /\ TrueReply(c)'
  BY <1>1, <1>2, <1>3, <1>4
  DEF ClientInv, Remembers, AckedOwn, OneCall, TrueReply, NoReply
<1>7. Counted(c)'
  <2>1. phase[c] # "wait" => (Entitled(c) => Entitled(c)')
    BY <1>1, <1>2, <1>3, <1>4 DEF Entitled, NoReply, ClientInv, OneCall, TrueReply
  <2>2. /\ Cardinality(Own(c)) + Cardinality(Pending(c)) <= faults.lost[c] + 1
        /\ ~Entitled(c) => Cardinality(Own(c)) + Cardinality(Pending(c)) <= faults.lost[c]
    BY <1>2 DEF ClientInv, Counted
  <2>3. Cardinality(Pending(c)') \in Nat
    <3> Pending(c)' \in SUBSET requests'
      BY DEF Pending
    <3> QED
      BY <1>3, FS_Subset, FS_CardinalityType
  <2> QED
    BY <1>2, <1>3, <1>5, <2>1, <2>2, <2>3 DEF Counted
<1>8. ClientInv(c)' /\ Behind'
  BY <1>2, <1>3, <1>6, <1>7 DEF ClientInv, Behind
<1>9. /\ saved' = [saved EXCEPT ![c] = saved[c]] /\ acked' = [acked EXCEPT ![c] = acked[c]]
  BY <1>1, <1>2 DEF TypeInv
<1> QED
  BY <1>1, <1>2, <1>3, <1>5, <1>8, <1>9, ClientStepPreserves

-----------------------------------------------------------------------------
\* IInv is inductive.
LEMMA InitImplies == Init => IInv
<1> SUFFICES ASSUME Init PROVE IInv
  OBVIOUS
<1>1. IsFiniteSet({}) /\ Cardinality({}) = 0
  BY FS_EmptySet
<1>2. history = <<>> /\ Greatest = -1 /\ requests = {}
  BY DEF Init, Greatest
<1>3. TypeInv
  BY <1>1 DEF Init, TypeInv, NoReply, None
<1>4. ASSUME NEW c \in Clients PROVE ClientInv(c)
  <2>1. /\ known[c] = -1 /\ saved[c] = -1 /\ acked[c] = -1 /\ phase[c] = "idle"
        /\ reply[c] = [kind |-> "none"] /\ faults.lost[c] = 0
    BY DEF Init, NoReply, None
  <2>2. Own(c) = {} /\ Live(c) = {} /\ Pending(c) = {}
    BY <1>2 DEF Own, Live, Pending
  <2>3. Counted(c)
    BY <1>1, <2>1, <2>2 DEF Counted
  <2> QED
    BY <1>2, <2>1, <2>2, <2>3
    DEF ClientInv, Remembers, OneCall, TrueReply, AckedOwn, None
<1> QED
  BY <1>2, <1>3, <1>4 DEF IInv, Behind

LEMMA NextPreserves == IInv /\ [Next]_vars => IInv'
<1> SUFFICES ASSUME IInv, [Next]_vars PROVE IInv'
  OBVIOUS
<1>1. ASSUME NEW n \in 1 .. 2, OtherWriter(n) PROVE IInv'
  BY <1>1, OtherWriterPreserves
<1>2. ASSUME NEW q \in requests, process(q) PROVE IInv'
  BY <1>2, ProcessPreserves
<1>3. ASSUME NEW v \in 0 .. Greatest, erase(v) PROVE IInv'
  BY <1>3, ErasePreserves
<1>4. ASSUME NEW c \in Clients, ClientStep(c) PROVE IInv'
  BY <1>4, UpdatePreserves, InsertedPreserves, DisregardedPreserves, RefusedPreserves
  DEF ClientStep
<1>5. ASSUME NEW c \in Clients, ConnectionFails(c) \/ search(c) \/ persist_to(c) PROVE IInv'
  BY <1>5, ConnectionFailsPreserves, SearchPreserves, PersistPreserves
<1>6. CASE UNCHANGED vars
  <2>1. TypeInv' /\ Greatest' = Greatest /\ Behind'
    BY <1>6 DEF vars, IInv, TypeInv, Behind, Greatest
  <2>2. ASSUME NEW c \in Clients PROVE ClientInv(c)'
    <3>1. Own(c)' = Own(c) /\ Live(c)' = Live(c) /\ Pending(c)' = Pending(c)
      BY <1>6 DEF vars, Own, Live, Pending
    <3>2. Greatest' \in Int /\ Greatest <= Greatest'
      BY <2>1 DEF IInv, TypeInv, Greatest
    <3> QED
      BY <1>6, <3>1, <3>2, Bystander DEF vars
  <2> QED
    BY <2>1, <2>2 DEF IInv
<1> QED
  BY <1>1, <1>2, <1>3, <1>4, <1>5, <1>6 DEF Next

\* The inductive invariant.
THEOREM Invariant == Spec => []IInv
  BY InitImplies, NextPreserves, PTL DEF Spec

\* Whatever is lost, restarted or erased, a client neither remembers nor advertises a
\* version the log does not have, and process_batch never answers it with a conflict.
THEOREM ClientsAreNeverAhead == Spec => []NeverAhead
<1>1. IInv => NeverAhead
  BY DEF IInv, ClientInv, Remembers, TrueReply, NeverAhead
<1> QED
  BY <1>1, Invariant, PTL

\* The version update returned Ok for is in the history with the caller's value.
THEOREM AcknowledgedIsOwn == Spec => []AckedIsOwn
<1>1. IInv => AckedIsOwn
  BY DEF IInv, ClientInv, AckedOwn, AckedIsOwn, Own
<1> QED
  BY <1>1, Invariant, PTL

\* The catch-up rounds of update never insert the value again: all copies but one are
\* from calls whose answer was lost.
THEOREM CopiesAreLosses == Spec => []CopiesPerLoss
<1>1. IInv => CopiesPerLoss
  <2> SUFFICES ASSUME IInv, NEW c \in Clients
               PROVE  Cardinality(Own(c)) <= 1 + faults.lost[c]
    BY DEF CopiesPerLoss
  <2>1. TypeInv /\ Counted(c)
    BY DEF IInv, ClientInv
  <2> QED
    BY <2>1, Sizes DEF Counted
<1> QED
  BY <1>1, Invariant, PTL
=============================================================================
