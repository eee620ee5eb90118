----------------------------- MODULE SharedDocuments -----------------------------
(****************************************************************************)
(* The documents of the defillama adapter that many calls read              *)
(* (adapters/defillama/index.ts): one fetch serves every caller that comes  *)
(* while it is young, each caller leaves at its own deadline and never      *)
(* cancels it, and two families of documents are bounded in number.         *)
(*                                                                          *)
(* A fetch is a record of `fetches`; `held` is what the adapter's variables *)
(* and Maps hold, by family.  A Map lists its entries in the order of their *)
(* insertion, and a fetch is inserted when it is begun: the ids order them. *)
(****************************************************************************)
EXTENDS Integers, Sequences, FiniteSets, SequencesExt

CONSTANTS
  Callers,
  Asks,           \* caller -> the requests it may make
  Vendors,        \* chains, by the vendor's name
  Slugs,          \* slug of a protocol -> its kind in the catalog
  Deadline,       \* caller -> deadlineAtMs, or None
  TTL,            \* family -> how long one of its documents is reused
  MaxDocuments,   \* MAX_DEX_DOCUMENTS
  MaxTime,        \* bound: the last instant
  None

Bounded == {"dex", "history"}
Singles == {"chains", "protocols", "lite", "hacks"}
Families == Bounded \cup Singles
Kinds == {"direct", "aggregate", "vendor-aggregate", "unknown"}

\* createDefillamaAdapter refuses any other maxDocuments.
DocumentsAssumption ==
  /\ MaxDocuments \in Nat \ {0} /\ MaxTime \in Nat
  /\ TTL \in [Families -> Nat \ {0}]
  /\ \A s \in DOMAIN Slugs : Slugs[s] \in Kinds
  /\ Deadline \in [Callers -> Nat \cup {None}] /\ None \notin Nat

VARIABLES
  now,
  fetches,   \* every fetch begun: what it reads, when it began, when the vendor answered
  held,      \* family -> ids of the fetches it holds
  pc,        \* caller -> where it is
  ask,       \* caller -> its request, and when it came
  uses,      \* caller -> the fetches it awaits
  stamp      \* caller -> fetchedAt of its result, or None

vars == <<now, fetches, held, pc, ask, uses, stamp>>

Doc(family, vendor, chart) == [family |-> family, vendor |-> vendor, chart |-> chart]
Single(family) == Doc(family, None, FALSE)

RequestsOf ==
  [cap : {"dex.volume.history"}, vendor : Vendors, chart : BOOLEAN]
    \cup [cap : {"chain.tvl.history"}, vendor : Vendors]
    \cup [cap : {"chain.tvl", "protocol.list", "protocol.incidents", "protocol.tvl.history"}]
    \cup [cap : {"protocol.tvl"}, slug : DOMAIN Slugs]

AsksAssumption == Asks \in [Callers -> SUBSET RequestsOf]

\* fetch: the documents a capability reads, the two of a pair begun together.
DocumentsOf(r) ==
  CASE r.cap = "dex.volume.history" -> {Doc("dex", r.vendor, r.chart)}
    [] r.cap = "chain.tvl.history" -> {Doc("history", r.vendor, FALSE)}
    [] r.cap = "chain.tvl" -> {Single("chains")}
    [] r.cap = "protocol.list" -> {Single("protocols"), Single("lite")}
    [] r.cap = "protocol.incidents" -> {Single("protocols"), Single("hacks")}
    [] r.cap = "protocol.tvl" -> {Single("protocols")}
    [] r.cap = "protocol.tvl.history" -> {}

\* A request of its own, under the caller's deadline, beside the documents.
AsksDirectly(r) ==
  \/ r.cap = "protocol.tvl.history"
  \/ r.cap = "protocol.tvl" /\ Slugs[r.slug] = "vendor-aggregate"

Refused(r) == r.cap = "protocol.tvl" /\ Slugs[r.slug] = "unknown"

TypeOK ==
  /\ now \in 0..MaxTime
  /\ \A i \in DOMAIN fetches :
       /\ fetches[i].at \in 0..MaxTime
       /\ fetches[i].state \in {"flying", "ok", "failed"}
  /\ held \in [Families -> SUBSET (1..Len(fetches))]
  /\ pc \in [Callers -> {"idle", "waiting", "asking", "answered", "failed", "late"}]
  /\ uses \in [Callers -> SUBSET (1..Len(fetches))]

Init ==
  /\ now = 0
  /\ fetches = <<>>
  /\ held = [f \in Families |-> {}]
  /\ pc = [c \in Callers |-> "idle"]
  /\ ask = [c \in Callers |-> None]
  /\ uses = [c \in Callers |-> {}]
  /\ stamp = [c \in Callers |-> None]

Settled(i) == fetches[i].state # "flying"

Fresh(i) == now - fetches[i].at < TTL[fetches[i].doc.family]

HeldFor(d) == {i \in held[d.family] : fetches[i].doc = d}

\* The document asked for, or the one with the chart where the chart is not wanted.
Reusable(d) ==
  LET own == {i \in HeldFor(d) : Fresh(i)}
  IN IF own # {} \/ d.family # "dex" \/ d.chart
     THEN own
     ELSE {i \in HeldFor([d EXCEPT !.chart = TRUE]) : Fresh(i)}

\* The settled of S, oldest first, until n are gone.
Evicted(S, n) ==
  {i \in S : Settled(i) /\ Cardinality({j \in S : j <= i /\ Settled(j)}) <= n}

\* while (size >= MAX_DEX_DOCUMENTS) delete the oldest settled one; break if there is none.
Room(S) == S \ Evicted(S, Cardinality(S) + 1 - MaxDocuments)

\* The entry that was found expired is replaced; settled expired ones are swept.
Swept(d) == {i \in held[d.family] : fetches[i].doc # d /\ ~(Settled(i) /\ ~Fresh(i))}

Inserted(d, i) == IF d.family \in Bounded THEN Room(Swept(d)) \cup {i} ELSE {i}

Flying(d) == [doc |-> d, at |-> now, seen |-> None, state |-> "flying"]

Late(c) == Deadline[c] # None /\ now >= Deadline[c]

\* awaitSharedDocument: a caller with no time left has begun what it does not wait for.
Begin(c, r) ==
  LET docs == DocumentsOf(r)
      start == SetToSeq({d \in docs : Reusable(d) = {}})
      id(d) == Len(fetches) + CHOOSE k \in DOMAIN start : start[k] = d
      reused == UNION {Reusable(d) : d \in docs}
  IN /\ pc[c] = "idle"
     /\ fetches' = fetches \o [k \in DOMAIN start |-> Flying(start[k])]
     /\ held' = [f \in Families |->
          IF \E d \in Range(start) : d.family = f
          THEN LET d == CHOOSE d \in Range(start) : d.family = f IN Inserted(d, id(d))
          ELSE held[f]]
     /\ IF docs # {} /\ Late(c)
        THEN /\ pc' = [pc EXCEPT ![c] = "late"]
             /\ UNCHANGED <<ask, uses>>
        ELSE /\ pc' = [pc EXCEPT ![c] = IF docs = {} THEN "asking" ELSE "waiting"]
             /\ ask' = [ask EXCEPT ![c] = [request |-> r, at |-> now]]
             /\ uses' = [uses EXCEPT ![c] = reused \cup {id(d) : d \in Range(start)}]
     /\ UNCHANGED <<now, stamp>>

\* Mutant: a failing fetch empties its place, whoever holds it.
DropsPlace(S, i) == {j \in S : fetches[j].doc # fetches[i].doc}

\* if (dexDocuments.get(key) === entry) dexDocuments.delete(key)
Drops(S, i) == S \ {i}

\* The body settles: throttle without a deadline, one request, the status, the parse.
Settle(i) ==
  /\ fetches[i].state = "flying"
  /\ \/ /\ fetches' = [fetches EXCEPT ![i].state = "ok", ![i].seen = now]
        /\ UNCHANGED held
     \/ /\ fetches' = [fetches EXCEPT ![i].state = "failed"]
        /\ held' = [held EXCEPT ![fetches[i].doc.family] = Drops(@, i)]
  /\ UNCHANGED <<now, pc, ask, uses, stamp>>

\* Mutant: the newer of the two ages.
NewestOf(c) == Max({fetches[i].at : i \in uses[c]})
OldestOf(c) == Min({fetches[i].at : i \in uses[c]})

\* All its documents are there; what the catalog says of a slug decides what follows.
Receive(c) ==
  /\ pc[c] = "waiting"
  /\ \A i \in uses[c] : fetches[i].state = "ok"
  /\ LET r == ask[c].request
     IN /\ pc' = [pc EXCEPT ![c] = IF Refused(r) THEN "failed"
                                   ELSE IF AsksDirectly(r) THEN "asking" ELSE "answered"]
        /\ stamp' = [stamp EXCEPT ![c] = IF Refused(r) THEN None ELSE OldestOf(c)]
  /\ UNCHANGED <<now, fetches, held, ask, uses>>

\* The state of a caller that got no answer is of no more use.
Forget(c) ==
  /\ ask' = [ask EXCEPT ![c] = None]
  /\ uses' = [uses EXCEPT ![c] = {}]

\* Promise.all rejects at the first of them that fails.
Fail(c) ==
  /\ pc[c] = "waiting"
  /\ \E i \in uses[c] : fetches[i].state = "failed"
  /\ pc' = [pc EXCEPT ![c] = "failed"]
  /\ Forget(c)
  /\ UNCHANGED <<now, fetches, held, stamp>>

\* The caller's timer: it leaves, the document goes on.
Leave(c) ==
  /\ pc[c] = "waiting"
  /\ Late(c)
  /\ pc' = [pc EXCEPT ![c] = "late"]
  /\ Forget(c)
  /\ UNCHANGED <<now, fetches, held, stamp>>

\* The caller's own request. A result with no fetchedAt is stamped when it is normalized.
AnswerDirectly(c) ==
  /\ pc[c] = "asking"
  /\ \/ /\ ~Late(c)
        /\ pc' = [pc EXCEPT ![c] = "answered"]
        /\ stamp' = [stamp EXCEPT ![c] = IF uses[c] = {} THEN now ELSE @]
     \/ /\ pc' = [pc EXCEPT ![c] = IF Late(c) THEN "late" ELSE "failed"]
        /\ stamp' = [stamp EXCEPT ![c] = None]
  /\ UNCHANGED <<now, fetches, held, ask, uses>>

Tick ==
  /\ now < MaxTime
  /\ now' = now + 1
  /\ UNCHANGED <<fetches, held, pc, ask, uses, stamp>>

Next ==
  \/ \E c \in Callers : \/ \E r \in Asks[c] : Begin(c, r)
                        \/ Receive(c) \/ Fail(c) \/ Leave(c) \/ AnswerDirectly(c)
  \/ \E i \in DOMAIN fetches : Settle(i)
  \/ Tick

Spec == Init /\ [][Next]_vars

(* What an answer says of its age is true of every document in it: none was asked of the
   vendor before, and none had outlived its family's time when the call came (the `fetchedAt`
   of the adapter, the minimum over a pair). *)
AgeHonest ==
  \A c \in Callers : pc[c] = "answered" =>
    \A i \in uses[c] :
      /\ stamp[c] <= fetches[i].at
      /\ fetches[i].at <= fetches[i].seen
      /\ ask[c].at - fetches[i].at < TTL[fetches[i].doc.family]

(* A family exceeds its bound only by documents that are on their way: an insertion that
   leaves more than the bound leaves no settled document that could have gone. *)
OverflowInFlight ==
  [][\A f \in Bounded :
       ~(held'[f] \subseteq held[f]) /\ Cardinality(held'[f]) > MaxDocuments
         => \A i \in held'[f] : ~Settled(i)']_vars

(* The failure of a fetch takes away that fetch and no other: a newer document of the same
   key, begun after the failing one had expired, stays for its callers. *)
FailureIsOwn ==
  [][\A i \in DOMAIN fetches :
       fetches[i].state = "flying" /\ fetches'[i].state = "failed"
         => \A f \in Families : held[f] \ {i} \subseteq held'[f]]_vars
==================================================================================
