------------------------- MODULE CapabilityRouteProofs -------------------------
(****************************************************************************)
(* Proofs about CapabilityRoute, for any routes, sources, processes and     *)
(* calls: what a hot layer holds is no staler than it may be, nobody pays   *)
(* again for what the store holds, an answer that satisfied nobody is given *)
(* only where every source answered, and a merged answer takes each slot    *)
(* from the first source that filled it.                                    *)
(****************************************************************************)
EXTENDS CapabilityRoute, FiniteSetTheorems, TLAPS

--------------------------------------------------------------------------------
(* The plan *)

Count == Cardinality(Firsts)

\* The routes name finitely many sources, so that the plan is a sequence.
LEMMA PlanIsSequence ==
  /\ IsFiniteSet(Firsts)
  /\ Count \in Nat /\ DOMAIN Plan = 1 .. Count /\ Len(Plan) = Count
<1> DEFINE at_(i) == {i} \X DOMAIN Routes[i].adapterIds
           of == {at_(i) : i \in DOMAIN Routes}
           f == [i \in DOMAIN Routes |-> at_(i)]
<1>1. DOMAIN Routes = 1 .. Len(Routes) /\ Len(Routes) \in Nat
  BY RouteAssumption
<1>2. IsFiniteSet(DOMAIN Routes)
  BY <1>1, FS_Interval
<1>3. \A i \in DOMAIN Routes : IsFiniteSet(at_(i))
  <2>1. SUFFICES ASSUME NEW i \in DOMAIN Routes PROVE IsFiniteSet(at_(i))
    OBVIOUS
  <2>2. Routes[i].adapterIds \in Seq(STRING)
    <3> DEFINE R == [adapterIds : Seq(STRING), selective : BOOLEAN]
    <3>1. Routes \in Seq(R)
      BY RouteAssumption, Zenon
    <3> HIDE DEF R
    <3>2. Routes[i] \in R
      BY <3>1
    <3>3. QED
      BY <3>2 DEF R
  <2>3. IsFiniteSet(DOMAIN Routes[i].adapterIds)
    BY <2>2, FS_Interval
  <2>4. IsFiniteSet({i})
    BY FS_Singleton
  <2>5. IsFiniteSet({i} \X DOMAIN Routes[i].adapterIds)
    BY <2>3, <2>4, FS_Product, Zenon
  <2>6. QED
    BY <2>5
<1>4. f \in Surjection(DOMAIN Routes, of)
  BY DEF Surjection
<1>5. IsFiniteSet(of)
  BY <1>2, <1>4, FS_Surjection
<1>6. IsFiniteSet(Mentions)
  BY <1>3, <1>5, FS_UNION DEF Mentions
<1>7. IsFiniteSet(Firsts)
  BY <1>6, FS_Subset DEF Firsts
<1>8. Count \in Nat
  BY <1>7, FS_CardinalityType DEF Count
<1>9. QED
  BY <1>7, <1>8 DEF Plan, Count

\* How many first mentions come before m.
Rank(m) == Cardinality({n \in Firsts : Before(n, m)})

\* Mentions are in a strict order: of the routes, then of the places in a route.
LEMMA MentionsOrdered ==
  /\ \A m \in Mentions : m = <<m[1], m[2]>> /\ m[1] \in Nat /\ m[2] \in Nat
  /\ \A m, n \in Mentions : m # n => Before(m, n) \/ Before(n, m)
  /\ \A m \in Mentions : ~Before(m, m)
  /\ \A l, m, n \in Mentions : Before(l, m) /\ Before(m, n) => Before(l, n)
<1>1. ASSUME NEW m \in Mentions PROVE m = <<m[1], m[2]>> /\ m[1] \in Nat /\ m[2] \in Nat
  <2>1. PICK i \in DOMAIN Routes : m \in {i} \X DOMAIN Routes[i].adapterIds
    BY DEF Mentions
  <2>2. DOMAIN Routes \subseteq Nat
    BY RouteAssumption
  <2>3. Routes[i].adapterIds \in Seq(STRING)
    <3> DEFINE R == [adapterIds : Seq(STRING), selective : BOOLEAN]
    <3>1. Routes \in Seq(R)
      BY RouteAssumption, Zenon
    <3> HIDE DEF R
    <3>2. Routes[i] \in R
      BY <3>1
    <3>3. QED
      BY <3>2 DEF R
  <2>4. DOMAIN Routes[i].adapterIds \subseteq Nat
    BY <2>3
  <2>5. QED
    BY <2>1, <2>2, <2>4
<1>2. QED
  BY <1>1 DEF Before

\* One source has one first mention.
LEMMA FirstsDiffer ==
  ASSUME NEW m \in Firsts, NEW n \in Firsts, Named(m) = Named(n)
  PROVE  m = n
<1>1. m \in Mentions /\ n \in Mentions /\ ~Before(m, n) /\ ~Before(n, m)
  BY DEF Firsts
<1>2. QED
  BY <1>1, MentionsOrdered

\* As many mentions come before the i-th as there are numbers below i.
LEMMA Ranked ==
  ASSUME NEW i \in 1 .. Count
  PROVE  \E m \in Firsts : Rank(m) = i - 1
<1> DEFINE f == [m \in Firsts |-> Rank(m)]
           T == 0 .. Count - 1
           below(m) == {n \in Firsts : Before(n, m)}
<1>1. Count \in Nat /\ Cardinality(Firsts) = Count /\ IsFiniteSet(Firsts)
  BY PlanIsSequence DEF Count
<1>2. IsFiniteSet(T) /\ Cardinality(T) = Count
  BY <1>1, FS_Interval
<1>3. ASSUME NEW m \in Firsts
      PROVE  IsFiniteSet(below(m)) /\ Rank(m) \in Nat /\ Rank(m) < Count
  <2>1. m \in Mentions /\ m \notin below(m) /\ below(m) \in SUBSET Firsts /\ below(m) # Firsts
    BY MentionsOrdered DEF Firsts
  <2>2. IsFiniteSet(below(m)) /\ Cardinality(below(m)) <= Count /\ Cardinality(below(m)) # Count
    BY <1>1, <2>1, FS_Subset
  <2>3. Cardinality(below(m)) \in Nat
    BY <2>2, FS_CardinalityType
  <2>4. QED
    BY <1>1, <2>2, <2>3 DEF Rank
<1>4. ASSUME NEW m \in Firsts, NEW n \in Firsts, Before(n, m)
      PROVE  Rank(n) < Rank(m)
  <2>1. below(n) \in SUBSET below(m) /\ n \in below(m) /\ n \notin below(n)
    BY <1>4, MentionsOrdered DEF Firsts
  <2>2. /\ Cardinality(below(n)) <= Cardinality(below(m))
        /\ Cardinality(below(n)) # Cardinality(below(m))
    BY <1>3, <2>1, FS_Subset
  <2>3. QED
    BY <1>3, <2>2 DEF Rank
<1>5. ASSUME NEW m \in Firsts, NEW n \in Firsts, Rank(m) = Rank(n)
      PROVE  m = n
  <2>1. m \in Mentions /\ n \in Mentions /\ Rank(m) \in Nat
    BY <1>3 DEF Firsts
  <2>2. ~Before(m, n) /\ ~Before(n, m)
    BY <1>4, <1>5, <2>1
  <2>3. QED
    BY <2>1, <2>2, MentionsOrdered
<1>6. f \in Injection(Firsts, T)
  <2>1. ASSUME NEW m \in Firsts PROVE Rank(m) \in T
    <3>1. Rank(m) \in Nat /\ Rank(m) < Count
      BY <1>3
    <3>2. QED
      BY <1>1, <3>1
  <2>2. f \in [Firsts -> T]
    BY <2>1
  <2>3. \A m, n \in Firsts : f[m] = f[n] => m = n
    BY <1>5
  <2> HIDE DEF f, T
  <2>4. QED
    BY <2>2, <2>3 DEF Injection, IsInjective
<1>7. f \in Surjection(Firsts, T)
  BY <1>1, <1>2, <1>6, FS_Injection
<1>8. i - 1 \in T
  BY <1>1
<1>9. \E m \in Firsts : f[m] = i - 1
  BY <1>7, <1>8 DEF Surjection
<1>10. QED
  BY <1>9

\* The plan names each source once.
LEMMA PlanNamesOnce ==
  ASSUME NEW i \in DOMAIN Plan, NEW j \in DOMAIN Plan, Plan[i].source = Plan[j].source
  PROVE  i = j
<1> DEFINE of(k) == CHOOSE m \in Firsts : Cardinality({n \in Firsts : Before(n, m)}) = k - 1
<1>1. i \in 1 .. Count /\ j \in 1 .. Count /\ Count \in Nat
  BY PlanIsSequence
<1>2. \A k \in 1 .. Count : of(k) \in Firsts /\ Rank(of(k)) = k - 1
  BY PlanIsSequence, Ranked DEF Rank
<1>3. Plan[i].source = Named(of(i)) /\ Plan[j].source = Named(of(j))
  BY <1>1 DEF Plan, Count
<1> HIDE DEF of
<1>4. of(i) = of(j)
  BY <1>1, <1>2, <1>3, FirstsDiffer
<1>5. QED
  BY <1>1, <1>2, <1>4
--------------------------------------------------------------------------------
(* The invariants *)

Places == {"idle", "walking", "reading", "fetching", "storing", "done"}
PcTypeOK == pc \in [Calls -> Places] /\ at \in [Calls -> Nat \ {0}]

\* A source is waited for where it has an adapter, and a statement is of that source.
Awaiting == {"reading", "fetching", "storing"}
AwaitsServing ==
  \A c \in Calls : pc[c] \in Awaiting =>
    /\ at[c] \in DOMAIN Plan /\ Source(c) \in Registered \cap OnChain

\* A row is of an answer, or a verdict, of the instant it was sent at.
RowSound(r, t) ==
  /\ r.value.born = r.created /\ r.created <= t
  /\ IsNegative(r.value) => r.value.expires = r.expires
  /\ r.expires - r.created \in 1 .. Ttl

\* What a statement writes, or has read.
StmtSound(s, t) ==
  s.kind \in {"upsert", "sweep"} \/ s.row # None => s.row \in Cache!Row /\ RowSound(s.row, t)

EntrySound(e, slow) ==
  /\ e.gone <= e.value.born + Ttl + slow
  /\ e.created \in e.value.born .. e.value.born + slow

CacheSound ==
  /\ slowest \in Nat
  /\ \A k \in Registered : row[k] # None => RowSound(row[k], now)
  /\ \A p \in Procs : \A k \in Registered : hot[p][k] # None => EntrySound(hot[p][k], slowest)
  /\ \A c \in Calls : stmt[c] # None => StmtSound(stmt[c], now)

\* A promise is kept while its lookup runs: the SELECT finds a row, and if the row is
\* over by then its DELETE will break the promise.
PromiseKept ==
  /\ promised = [c \in Calls |-> promised[c]]
  /\ \A c \in Calls : pc[c] = "reading" /\ promised[c] # None =>
       /\ stmt[c].key = promised[c] /\ FreshRow(promised[c])
       /\ \/ stmt[c].kind = "select" /\ (stmt[c].applied => stmt[c].row # None)
          \/ stmt[c].kind = "delete" /\ ~stmt[c].applied

CacheInv == Cache!CacheTypeOK /\ PcTypeOK /\ AwaitsServing /\ CacheSound /\ PromiseKept /\ NotPaidAgain

--------------------------------------------------------------------------------
(* What a step of one call moves *)

OneMoves(c, to) ==
  /\ pc' = [pc EXCEPT ![c] = to] /\ to \in Places
  /\ at' \in [Calls -> Nat \ {0}] /\ \A d \in Calls \ {c} : at'[d] = at[d]
  /\ to \in Awaiting => at'[c] = at[c]

LEMMA SkipMoves ==
  ASSUME PcTypeOK, NEW c \in Calls, NEW f, NEW l, NEW m, Skip(c, f, l, m)
  PROVE  OneMoves(c, "walking")
  BY DEF PcTypeOK, Skip, OneMoves, Places, Awaiting

LEMMA UseMoves ==
  ASSUME PcTypeOK, NEW c \in Calls, NEW v, Use(c, v)
  PROVE  \E to \in {"walking", "done"} : OneMoves(c, to)
<1>1. \/ pc' = [pc EXCEPT ![c] = "done"] /\ at' = at
      \/ pc' = [pc EXCEPT ![c] = "walking"] /\ at' = [at EXCEPT ![c] = @ + 1]
  BY DEF Use, Ends
<1>2. CASE pc' = [pc EXCEPT ![c] = "done"] /\ at' = at
  <2>1. OneMoves(c, "done")
    BY <1>2 DEF PcTypeOK, OneMoves, Places, Awaiting
  <2>2. QED
    BY <2>1
<1>3. CASE pc' = [pc EXCEPT ![c] = "walking"] /\ at' = [at EXCEPT ![c] = @ + 1]
  <2>1. OneMoves(c, "walking")
    BY <1>3 DEF PcTypeOK, OneMoves, Places, Awaiting
  <2>2. QED
    BY <2>1
<1>4. QED
  BY <1>1, <1>2, <1>3

LEMMA GoesMoves ==
  ASSUME PcTypeOK, NEW c \in Calls, NEW to \in Places, Goes(c, to)
  PROVE  OneMoves(c, to)
  BY DEF PcTypeOK, Goes, OneMoves, Places, Awaiting

\* Only a verdict that is over is asked past.
LEMMA ReadMoves ==
  ASSUME PcTypeOK, NEW c \in Calls, NEW v, Read(c, v)
  PROVE  \E to \in {"walking", "done", "fetching"} :
           OneMoves(c, to) /\ (to = "fetching" => IsNegative(v) /\ now >= v.expires)
<1>1. CASE GaveNothing(c)
  <2>1. OneMoves(c, "walking")
    BY <1>1, SkipMoves DEF GaveNothing
  <2>2. QED
    BY <2>1
<1>2. CASE IsNegative(v) /\ now >= v.expires /\ Ask(c)
  <2>1. OneMoves(c, "fetching")
    BY <1>2, GoesMoves DEF Ask, Places
  <2>2. QED
    BY <1>2, <2>1
<1>3. CASE Use(c, v)
  <2>1. PICK to \in {"walking", "done"} : OneMoves(c, to)
    BY <1>3, UseMoves
  <2>2. QED
    BY <2>1
<1>4. QED
  BY <1>1, <1>2, <1>3 DEF Read

\* The place of the call, and of the others.
LEMMA MovesOne ==
  ASSUME PcTypeOK, AwaitsServing, NEW c \in Calls, NEW to, OneMoves(c, to),
         to \in Awaiting => at[c] \in DOMAIN Plan /\ Source(c) \in Registered \cap OnChain
  PROVE  /\ PcTypeOK' /\ AwaitsServing' /\ pc'[c] = to
         /\ \A d \in Calls \ {c} : pc'[d] = pc[d]
<1>1. /\ PcTypeOK' /\ pc'[c] = to /\ \A d \in Calls \ {c} : pc'[d] = pc[d] /\ at'[d] = at[d]
  BY DEF PcTypeOK, OneMoves
<1>2. AwaitsServing'
  BY <1>1 DEF AwaitsServing, OneMoves, Source
<1>3. QED
  BY <1>1, <1>2

--------------------------------------------------------------------------------
(* What a step does to the cache *)

\* The hot layer of one process may take one entry.
LEMMA HotSetSets ==
  ASSUME Cache!CacheTypeOK, NEW p \in Procs, NEW k \in Registered, NEW v \in Answers \cup Verdicts,
         NEW ttl \in Int, NEW created \in Int, Cache!HotSet(p, k, v, ttl, created)
  PROVE  /\ hot' \in [Procs -> [Registered -> Cache!HotEntry \cup {None}]]
         /\ \A q \in Procs : \A j \in Registered :
              \/ hot'[q][j] = hot[q][j]
              \/ q = p /\ j = k /\ hot'[q][j] = [value |-> v, created |-> created, gone |-> now + ttl]
<1> DEFINE e == [value |-> v, created |-> created, gone |-> now + ttl]
<1>1. hot \in [Procs -> [Registered -> Cache!HotEntry \cup {None}]] /\ now \in Nat
  BY DEF Cache!CacheTypeOK
<1>2. e \in Cache!HotEntry
  BY <1>1 DEF Cache!HotEntry
<1>3. hot' = [hot EXCEPT ![p][k] = e] \/ hot' = hot
  BY DEF Cache!HotSet
<1> HIDE DEF e
<1>4. CASE hot' = [hot EXCEPT ![p][k] = e]
  <2>1. /\ hot'[p][k] = e /\ \A q \in Procs : \A j \in Registered : q # p \/ j # k => hot'[q][j] = hot[q][j]
        /\ hot' \in [Procs -> [Registered -> Cache!HotEntry \cup {None}]]
    BY <1>1, <1>2, <1>4
  <2>2. QED
    BY <2>1 DEF e
<1>5. QED
  BY <1>1, <1>3, <1>4

\* What was sound stays so: what is new must be.
LEMMA SoundStays ==
  ASSUME CacheSound, Cache!CacheTypeOK, Cache!CacheTypeOK',
         now' >= now, slowest' \in Nat, slowest' >= slowest,
         \A k \in Registered : row'[k] # None => row'[k] = row[k] \/ RowSound(row'[k], now'),
         \A p \in Procs : \A k \in Registered :
           hot'[p][k] # None => hot'[p][k] = hot[p][k] \/ EntrySound(hot'[p][k], slowest'),
         \A c \in Calls : stmt'[c] # None =>
           stmt'[c] = stmt[c] \/ StmtSound(stmt'[c], now')
  PROVE  CacheSound'
<1>1. ASSUME NEW r \in Cache!Row, RowSound(r, now) PROVE RowSound(r, now')
  BY <1>1 DEF RowSound, Cache!CacheTypeOK, Cache!Row
<1>2. ASSUME NEW e \in Cache!HotEntry, EntrySound(e, slowest), e.value.born \in Int PROVE EntrySound(e, slowest')
  BY <1>2, RouteAssumption DEF EntrySound, Cache!HotEntry, CacheSound, Cache!CacheAssumption
<1>3. \A e \in Cache!HotEntry : e.value.born \in Int
  BY DEF Cache!HotEntry, Answers, Verdicts
<1>4. \A k \in Registered : row'[k] # None => RowSound(row'[k], now')
  BY <1>1 DEF CacheSound, Cache!CacheTypeOK
<1>5. \A p \in Procs : \A k \in Registered : hot'[p][k] # None => EntrySound(hot'[p][k], slowest')
  BY <1>2, <1>3 DEF CacheSound, Cache!CacheTypeOK
<1>6. \A c \in Calls : stmt'[c] # None => StmtSound(stmt'[c], now')
  BY <1>1 DEF CacheSound, StmtSound
<1>7. QED
  BY <1>4, <1>5, <1>6 DEF CacheSound

--------------------------------------------------------------------------------
(* What a step does to the promises *)

Kept(c, s) ==
  /\ stmt[c].key = s /\ FreshRow(s)
  /\ \/ stmt[c].kind = "select" /\ (stmt[c].applied => stmt[c].row # None)
     \/ stmt[c].kind = "delete" /\ ~stmt[c].applied

\* A step of a call that leaves the rows and the clock alone.
LEMMA OwnPromise ==
  ASSUME PromiseKept, NotPaidAgain, NEW c \in Calls, row' = row, now' = now,
         promised' = [d \in Calls |-> promised'[d]],
         \A d \in Calls \ {c} : pc'[d] = pc[d] /\ promised'[d] = promised[d] /\ stmt'[d] = stmt[d],
         pc'[c] = "reading" /\ promised'[c] # None => Kept(c, promised[c])',
         pc'[c] = "fetching" => promised'[c] = None
  PROVE  PromiseKept' /\ NotPaidAgain'
<1>1. ASSUME NEW d \in Calls \ {c}, pc'[d] = "reading", promised'[d] # None PROVE Kept(d, promised[d])'
  BY <1>1 DEF PromiseKept, Kept, FreshRow, Cache!Expired
<1>2. \A d \in Calls : pc'[d] = "reading" /\ promised'[d] # None => Kept(d, promised[d])'
  BY <1>1
<1>3. PromiseKept'
  BY <1>2 DEF PromiseKept, Kept
<1>4. NotPaidAgain'
  BY DEF NotPaidAgain
<1>5. QED
  BY <1>3, <1>4

\* A step of the store or the clock, after which promises are looked over.
LEMMA PromisesHold ==
  ASSUME PromiseKept, NotPaidAgain, Promises, pc' = pc,
         \A d \in Calls : \/ stmt'[d] = stmt[d]
                          \/ pc[d] = "reading" /\ promised[d] # None /\ promised'[d] = promised[d]
                               /\ FreshRow(promised[d])' => Kept(d, promised[d])'
  PROVE  PromiseKept' /\ NotPaidAgain'
<1>1. \A d \in Calls : promised'[d] # None => promised'[d] = promised[d] /\ FreshRow(promised[d])'
  BY DEF Promises
<1>2. ASSUME NEW d \in Calls, pc'[d] = "reading", promised'[d] # None PROVE Kept(d, promised[d])'
  <2>1. promised'[d] = promised[d] /\ promised[d] # None /\ FreshRow(promised[d])' /\ pc[d] = "reading"
    BY <1>1, <1>2
  <2>2. CASE stmt'[d] = stmt[d]
    BY <2>1, <2>2 DEF PromiseKept, Kept
  <2>3. CASE stmt'[d] # stmt[d]
    BY <2>1, <2>3
  <2>4. QED
    BY <2>2, <2>3
<1>3. promised' = [d \in Calls |-> promised'[d]]
  BY DEF Promises
<1>4. PromiseKept'
  BY <1>2, <1>3 DEF PromiseKept, Kept
<1>5. NotPaidAgain'
  BY <1>1 DEF NotPaidAgain
<1>6. QED
  BY <1>4, <1>5

--------------------------------------------------------------------------------
(* The steps *)

LEMMA InitCache ==
  ASSUME Init PROVE CacheInv
<1>1. CacheSound
  BY DEF Init, Cache!CacheInit, CacheSound
<1>2. Cache!CacheTypeOK
  BY DEF Init, Cache!CacheInit, Cache!CacheTypeOK
<1>3. PcTypeOK /\ AwaitsServing /\ PromiseKept /\ NotPaidAgain
  BY DEF Init, PcTypeOK, Places, AwaitsServing, Awaiting, PromiseKept, NotPaidAgain
<1>4. QED
  BY <1>1, <1>2, <1>3 DEF CacheInv

LEMMA StutterCache ==
  ASSUME CacheInv, now' = now, row' = row, hot' = hot, stmt' = stmt, slowest' = slowest
  PROVE  Cache!CacheTypeOK' /\ CacheSound'
  BY DEF CacheInv, Cache!CacheTypeOK, CacheSound

\* A step of a call that touches no layer and does not wait for anything after it.
LEMMA WalkStep ==
  ASSUME CacheInv, NEW c \in Calls, NEW to \in {"walking", "done"}, OneMoves(c, to),
         UNCHANGED <<now, cacheVars, history>>
  PROVE  CacheInv'
<1>1. Cache!CacheTypeOK' /\ CacheSound'
  BY StutterCache DEF cacheVars, history
<1>2. PcTypeOK' /\ AwaitsServing' /\ pc'[c] = to /\ \A d \in Calls \ {c} : pc'[d] = pc[d]
  BY MovesOne DEF CacheInv, Awaiting
<1>3. PromiseKept' /\ NotPaidAgain'
  BY <1>2, OwnPromise DEF CacheInv, cacheVars, history, PromiseKept
<1>4. QED
  BY <1>1, <1>2, <1>3 DEF CacheInv

\* A statement is sent, or is over.
LEMMA SendSends ==
  ASSUME Cache!CacheTypeOK, NEW c \in Calls, NEW kind \in {"select", "delete", "upsert", "sweep"},
         NEW k \in Registered, NEW r \in Cache!Row \cup {None}, Cache!Send(c, kind, k, r)
  PROVE  /\ stmt' \in [Calls -> Cache!Statement \cup {None}]
         /\ \A d \in Calls \ {c} : stmt'[d] = stmt[d]
         /\ stmt'[c] = [kind |-> kind, key |-> k, applied |-> FALSE, row |-> r]
  BY DEF Cache!CacheTypeOK, Cache!Send, Cache!Statement

LEMMA OverEnds ==
  ASSUME Cache!CacheTypeOK, NEW c \in Calls, Cache!Over(c)
  PROVE  /\ stmt' \in [Calls -> Cache!Statement \cup {None}]
         /\ \A d \in Calls \ {c} : stmt'[d] = stmt[d]
         /\ stmt'[c] = None
  BY DEF Cache!CacheTypeOK, Cache!Over

\* A step of a call that ends a statement, or sends one, and may set an entry.
LEMMA SpeakStep ==
  ASSUME CacheInv, NEW c \in Calls, NEW to, OneMoves(c, to),
         now' = now, row' = row, slowest' \in Nat, slowest' >= slowest,
         stmt' \in [Calls -> Cache!Statement \cup {None}], \A d \in Calls \ {c} : stmt'[d] = stmt[d],
         stmt'[c] # None => StmtSound(stmt'[c], now),
         hot' \in [Procs -> [Registered -> Cache!HotEntry \cup {None}]],
         \A p \in Procs : \A k \in Registered :
           hot'[p][k] # None => hot'[p][k] = hot[p][k] \/ EntrySound(hot'[p][k], slowest'),
         to \in Awaiting => at[c] \in DOMAIN Plan /\ Source(c) \in Registered \cap OnChain,
         promised' = [d \in Calls |-> promised'[d]], \A d \in Calls \ {c} : promised'[d] = promised[d],
         to = "reading" /\ promised'[c] # None => Kept(c, promised[c])',
         to = "fetching" => promised'[c] = None
  PROVE  CacheInv'
<1>1. Cache!CacheTypeOK'
  BY DEF CacheInv, Cache!CacheTypeOK
<1>2. now' >= now
  BY DEF CacheInv, Cache!CacheTypeOK
<1>3. CacheSound'
  BY <1>1, <1>2, SoundStays DEF CacheInv
<1>4. PcTypeOK' /\ AwaitsServing' /\ pc'[c] = to /\ \A d \in Calls \ {c} : pc'[d] = pc[d]
  BY MovesOne DEF CacheInv
<1>5. PromiseKept' /\ NotPaidAgain'
  BY <1>4, OwnPromise DEF CacheInv
<1>6. QED
  BY <1>1, <1>3, <1>4, <1>5 DEF CacheInv

LEMMA StmtTyped ==
  ASSUME CacheInv, NEW c \in Calls, stmt[c] # None
  PROVE  /\ stmt[c] \in Cache!Statement /\ stmt[c].key \in Registered
         /\ StmtSound(stmt[c], now)
  BY DEF CacheInv, Cache!CacheTypeOK, Cache!Statement, CacheSound

LEMMA FoundStep ==
  ASSUME CacheInv, NEW c \in Calls, FoundInRow(c) PROVE CacheInv'
<1> DEFINE r == stmt[c].row
<1>1. /\ stmt[c] # None /\ r # None /\ r.expires > now /\ stmt[c].kind = "select"
      /\ Cache!Promote(ProcOf[c], stmt[c].key, r) /\ Cache!Over(c) /\ Read(c, r.value)
      /\ row' = row /\ now' = now /\ slowest' = slowest /\ promised' = promised /\ pc[c] = "reading"
  <2>1. stmt[c] # None => stmt[c] \in Cache!Statement
    BY DEF CacheInv, Cache!CacheTypeOK
  <2>2. r # None => r \in Cache!Row \/ stmt[c] = None
    BY <2>1 DEF Cache!Statement
  <2>3. QED
    BY <2>1, <2>2
       DEF FoundInRow, Cache!ReadFresh, Cache!Answered, Cache!Under, Cache!Expired, history,
      Cache!Row, CacheInv, Cache!CacheTypeOK
<1>2. r \in Cache!Row /\ stmt[c].key \in Registered /\ RowSound(r, now) /\ ProcOf[c] \in Procs
  BY <1>1, StmtTyped, RouteAssumption DEF StmtSound, Cache!CacheAssumption
<1>3. /\ r.value \in Answers \cup Verdicts /\ r.created \in Nat /\ r.expires \in Nat /\ now \in Nat
      /\ Ttl \in Nat /\ r.value.born = r.created /\ slowest \in Nat
  BY <1>2, RouteAssumption
     DEF Cache!Row, CacheInv, Cache!CacheTypeOK, Cache!CacheAssumption, RowSound, CacheSound
<1> DEFINE e == [value |-> r.value, created |-> r.created, gone |-> now + (Ttl - (now - r.created))]
<1>4. /\ hot' \in [Procs -> [Registered -> Cache!HotEntry \cup {None}]]
      /\ \A q \in Procs : \A j \in Registered : hot'[q][j] = hot[q][j] \/ hot'[q][j] = e
  <2>1. Ttl - (now - r.created) \in Int /\ r.created \in Int
    BY <1>3
  <2>2. Cache!HotSet(ProcOf[c], stmt[c].key, r.value, Ttl - (now - r.created), r.created)
    BY <1>1 DEF Cache!Promote
  <2>3. QED
    BY <1>2, <1>3, <2>1, <2>2, HotSetSets DEF CacheInv
<1>5. EntrySound(e, slowest')
  BY <1>1, <1>3 DEF EntrySound
<1>6. PICK to \in {"walking", "done", "fetching"} :
         OneMoves(c, to) /\ (to = "fetching" => IsNegative(r.value) /\ now >= r.value.expires)
  BY <1>1, ReadMoves DEF CacheInv
<1>7. to # "fetching"
  BY <1>1, <1>2, <1>3, <1>6 DEF RowSound
<1> HIDE DEF e, r
<1>8. /\ stmt' \in [Calls -> Cache!Statement \cup {None}] /\ stmt'[c] = None
      /\ \A d \in Calls \ {c} : stmt'[d] = stmt[d]
  BY <1>1, OverEnds DEF CacheInv
<1>9. promised' = [d \in Calls |-> promised'[d]]
  BY <1>1 DEF CacheInv, PromiseKept
<1>10. QED
  BY <1>1, <1>3, <1>4, <1>5, <1>6, <1>7, <1>8, <1>9, SpeakStep DEF Awaiting

LEMMA KeepsAll ==
  ASSUME CacheInv, now' = now, slowest' = slowest, hot' = hot, promised' = promised
  PROVE  /\ slowest' \in Nat /\ slowest' >= slowest
         /\ hot' \in [Procs -> [Registered -> Cache!HotEntry \cup {None}]]
         /\ promised' = [d \in Calls |-> promised'[d]]
  BY DEF CacheInv, CacheSound, Cache!CacheTypeOK, PromiseKept

LEMMA DeleteStep ==
  ASSUME CacheInv, NEW c \in Calls, DeletesRow(c) PROVE CacheInv'
<1>1. /\ stmt[c] # None /\ pc[c] = "reading" /\ Cache!Send(c, "delete", stmt[c].key, None)
      /\ row' = row /\ hot' = hot /\ now' = now /\ pc' = pc /\ at' = at
      /\ slowest' = slowest /\ promised' = promised
  BY DEF DeletesRow, Cache!ReadExpired, Cache!Answered, Cache!Under, walkVars, history
<1>2. /\ stmt' \in [Calls -> Cache!Statement \cup {None}]
      /\ \A d \in Calls \ {c} : stmt'[d] = stmt[d]
      /\ stmt'[c] = [kind |-> "delete", key |-> stmt[c].key, applied |-> FALSE, row |-> None]
  BY <1>1, StmtTyped, SendSends DEF CacheInv
<1>3. OneMoves(c, "reading")
  BY <1>1 DEF CacheInv, PcTypeOK, OneMoves, Places
<1>4. promised'[c] # None => Kept(c, promised[c])'
  BY <1>1, <1>2 DEF CacheInv, PromiseKept, Kept, FreshRow, Cache!Expired
<1>5. at[c] \in DOMAIN Plan /\ Source(c) \in Registered \cap OnChain
  BY <1>1 DEF CacheInv, AwaitsServing, Awaiting
<1>6. StmtSound(stmt'[c], now)
  BY <1>2 DEF StmtSound
<1>7. QED
  BY <1>1, <1>2, <1>3, <1>4, <1>5, <1>6, KeepsAll, SpeakStep

LEMMA MissStep ==
  ASSUME CacheInv, NEW c \in Calls, Misses(c) PROVE CacheInv'
<1>1. /\ pc[c] = "reading" /\ Ask(c) /\ Cache!Over(c) /\ stmt[c] # None
      /\ row' = row /\ hot' = hot /\ now' = now /\ slowest' = slowest
  BY DEF Misses, Cache!ReadNone, Cache!ReadFails, Cache!Answered, Cache!Under
<1>2. /\ promised' = [d \in Calls |-> promised'[d]]
      /\ \A d \in Calls \ {c} : promised'[d] = promised[d]
      /\ promised'[c] = None
  <2>1. CASE Cache!ReadNone(c) /\ UNCHANGED promised
    BY <1>1, <2>1 DEF CacheInv, PromiseKept, Cache!ReadNone, Cache!Answered, Cache!Under
  <2>2. CASE Cache!ReadFails(c) /\ promised' = [promised EXCEPT ![c] = None]
    BY <2>2 DEF CacheInv, PromiseKept
  <2>3. QED
    BY <2>1, <2>2 DEF Misses
<1>3. /\ stmt' \in [Calls -> Cache!Statement \cup {None}] /\ stmt'[c] = None
      /\ \A d \in Calls \ {c} : stmt'[d] = stmt[d]
  BY <1>1, OverEnds DEF CacheInv
<1>4. OneMoves(c, "fetching")
  BY <1>1, GoesMoves DEF CacheInv, Ask, Places
<1>5. at[c] \in DOMAIN Plan /\ Source(c) \in Registered \cap OnChain
  BY <1>1 DEF CacheInv, AwaitsServing, Awaiting
<1>6. /\ slowest' \in Nat /\ slowest' >= slowest
      /\ hot' \in [Procs -> [Registered -> Cache!HotEntry \cup {None}]]
  BY <1>1 DEF CacheInv, CacheSound, Cache!CacheTypeOK
<1>7. QED
  BY <1>1, <1>2, <1>3, <1>4, <1>5, <1>6, SpeakStep

\* An answer, or a verdict, is sent to the store.
LEMMA AnswerStep ==
  ASSUME CacheInv, NEW c \in Calls, FetchAnswers(c) PROVE CacheInv'
<1>1. PICK v \in Answers \cup Verdicts : \E ttl \in 1 .. Ttl :
        /\ Cache!SendUpsert(c, Source(c), v, ttl) /\ v.born = now
        /\ IsNegative(v) => v.expires = now + ttl
  <2>1. now \in Nat /\ Ttl \in Nat \ {0} /\ NegativeTtl \in 1 .. Ttl
    BY RouteAssumption DEF CacheInv, Cache!CacheTypeOK, Cache!CacheAssumption
  <2>2. CASE \E kind \in {"good", "poor"} \cap Says[Source(c)] : \E points \in Readable :
               Cache!SendUpsert(c, Source(c), [kind |-> kind, points |-> points, born |-> now], Ttl)
    <3>1. PICK kind \in {"good", "poor"}, points \in Readable :
            Cache!SendUpsert(c, Source(c), [kind |-> kind, points |-> points, born |-> now], Ttl)
      BY <2>2
    <3>2. points \in Series
      BY RouteAssumption DEF Readable
    <3> DEFINE v == [kind |-> kind, points |-> points, born |-> now]
    <3>3. v \in Answers /\ v.born = now /\ ~IsNegative(v)
      BY <2>1, <3>2 DEF Answers, IsNegative
    <3>4. Ttl \in 1 .. Ttl
      BY <2>1
    <3>5. QED
      BY <3>1, <3>3, <3>4
  <2>3. CASE Cache!SendUpsert(c, Source(c),
               [kind |-> "negative", expires |-> now + NegativeTtl, born |-> now], NegativeTtl)
    <3> DEFINE v == [kind |-> "negative", expires |-> now + NegativeTtl, born |-> now]
    <3>1. v \in Verdicts /\ v.born = now /\ v.expires = now + NegativeTtl
      BY <2>1 DEF Verdicts
    <3>2. QED
      BY <2>1, <2>3, <3>1
  <2>4. QED
    BY <2>2, <2>3 DEF FetchAnswers
<1>2. PICK ttl \in 1 .. Ttl :
        /\ Cache!SendUpsert(c, Source(c), v, ttl) /\ v.born = now
        /\ IsNegative(v) => v.expires = now + ttl
  BY <1>1
<1> DEFINE r == Cache!RowOf(v, ttl)
<1>3. r \in Cache!Row /\ RowSound(r, now)
  BY <1>2, RouteAssumption
  DEF Cache!RowOf, Cache!Row, RowSound, CacheInv, Cache!CacheTypeOK, Cache!CacheAssumption
<1> HIDE DEF r
<1>4. /\ pc[c] = "fetching" /\ Goes(c, "storing") /\ now' = now
      /\ slowest' = slowest /\ promised' = promised /\ row' = row /\ hot' = hot
      /\ Cache!Send(c, "upsert", Source(c), r)
  BY <1>2 DEF FetchAnswers, Cache!SendUpsert, history, r
<1>5. at[c] \in DOMAIN Plan /\ Source(c) \in Registered \cap OnChain
  BY <1>4 DEF CacheInv, AwaitsServing, Awaiting
<1>6. /\ stmt' \in [Calls -> Cache!Statement \cup {None}]
      /\ \A d \in Calls \ {c} : stmt'[d] = stmt[d]
      /\ stmt'[c] = [kind |-> "upsert", key |-> Source(c), applied |-> FALSE, row |-> r]
  BY <1>3, <1>4, <1>5, SendSends DEF CacheInv
<1>7. OneMoves(c, "storing")
  BY <1>4, GoesMoves DEF CacheInv, Places
<1>8. StmtSound(stmt'[c], now)
  BY <1>3, <1>6 DEF StmtSound
<1>9. QED
  BY <1>4, <1>5, <1>6, <1>7, <1>8, KeepsAll, SpeakStep

LEMMA SweepStep ==
  ASSUME CacheInv, NEW c \in Calls, Sweeps(c) PROVE CacheInv'
<1>1. /\ pc[c] = "storing" /\ stmt[c] # None /\ stmt[c].kind = "upsert"
      /\ Cache!Send(c, "sweep", stmt[c].key, stmt[c].row)
      /\ row' = row /\ hot' = hot /\ now' = now /\ pc' = pc /\ at' = at
      /\ slowest' = slowest /\ promised' = promised
  BY DEF Sweeps, Cache!StartSweep, Cache!Answered, Cache!Under, walkVars, history
<1>2. stmt[c].key \in Registered /\ stmt[c].row \in Cache!Row /\ RowSound(stmt[c].row, now)
  BY <1>1, StmtTyped DEF StmtSound
<1>3. /\ stmt' \in [Calls -> Cache!Statement \cup {None}]
      /\ \A d \in Calls \ {c} : stmt'[d] = stmt[d]
      /\ stmt'[c] = [kind |-> "sweep", key |-> stmt[c].key, applied |-> FALSE, row |-> stmt[c].row]
  BY <1>1, <1>2, SendSends DEF CacheInv
<1>4. OneMoves(c, "storing")
  BY <1>1 DEF CacheInv, PcTypeOK, OneMoves, Places
<1>5. at[c] \in DOMAIN Plan /\ Source(c) \in Registered \cap OnChain
  BY <1>1 DEF CacheInv, AwaitsServing, Awaiting
<1>6. StmtSound(stmt'[c], now)
  BY <1>2, <1>3 DEF StmtSound
<1>7. QED
  BY <1>1, <1>3, <1>4, <1>5, <1>6, KeepsAll, SpeakStep

LEMMA AfterStoreMoves ==
  ASSUME PcTypeOK, NEW c \in Calls, NEW v, AfterStore(c, v)
  PROVE  \E to \in {"walking", "done"} : OneMoves(c, to)
<1>1. CASE GaveNothing(c)
  <2>1. OneMoves(c, "walking")
    BY <1>1, SkipMoves DEF GaveNothing
  <2>2. QED
    BY <2>1
<1>2. CASE Use(c, v)
  BY <1>2, UseMoves
<1>3. QED
  BY <1>1, <1>2 DEF AfterStore

\* The hot layer starts a TTL when the write is over; what the write took is on record.
LEMMA StoredStep ==
  ASSUME CacheInv, NEW c \in Calls, Stored(c) PROVE CacheInv'
<1> DEFINE r == stmt[c].row
<1>1. /\ stmt[c] # None /\ stmt[c].kind \in {"upsert", "sweep"}
      /\ Cache!HotSet(ProcOf[c], stmt[c].key, r.value, Cache!TtlOf(r), now) /\ Cache!Over(c)
      /\ AfterStore(c, r.value) /\ slowest' = Later(slowest, now - r.created)
      /\ row' = row /\ now' = now /\ promised' = promised
  BY DEF Stored, Cache!Written, Cache!SweepOver, Cache!Answered, Cache!Under
<1>2. r \in Cache!Row /\ stmt[c].key \in Registered /\ RowSound(r, now) /\ ProcOf[c] \in Procs
  BY <1>1, StmtTyped, RouteAssumption DEF StmtSound, Cache!CacheAssumption
<1>3. /\ r.value \in Answers \cup Verdicts /\ r.created \in Nat /\ r.expires \in Nat /\ now \in Nat
      /\ Ttl \in Nat /\ r.value.born = r.created /\ slowest \in Nat
      /\ r.created <= now /\ r.expires - r.created <= Ttl
  BY <1>2, RouteAssumption
     DEF Cache!Row, CacheInv, Cache!CacheTypeOK, Cache!CacheAssumption, RowSound, CacheSound
<1>4. slowest' \in Nat /\ slowest' >= slowest /\ slowest' >= now - r.created
  BY <1>1, <1>3 DEF Later
<1> DEFINE e == [value |-> r.value, created |-> now, gone |-> now + Cache!TtlOf(r)]
<1>5. /\ hot' \in [Procs -> [Registered -> Cache!HotEntry \cup {None}]]
      /\ \A q \in Procs : \A j \in Registered : hot'[q][j] = hot[q][j] \/ hot'[q][j] = e
  <2>1. Cache!TtlOf(r) \in Int /\ now \in Int
    BY <1>3 DEF Cache!TtlOf
  <2>2. QED
    BY <1>1, <1>2, <1>3, <2>1, HotSetSets DEF CacheInv
<1>6. EntrySound(e, slowest')
  BY <1>1, <1>3, <1>4 DEF EntrySound, Cache!TtlOf
<1>7. PICK to \in {"walking", "done"} : OneMoves(c, to)
  BY <1>1, AfterStoreMoves DEF CacheInv
<1> HIDE DEF e, r
<1>8. /\ stmt' \in [Calls -> Cache!Statement \cup {None}] /\ stmt'[c] = None
      /\ \A d \in Calls \ {c} : stmt'[d] = stmt[d]
  BY <1>1, OverEnds DEF CacheInv
<1>9. promised' = [d \in Calls |-> promised'[d]]
  BY <1>1 DEF CacheInv, PromiseKept
<1>10. QED
  BY <1>1, <1>4, <1>5, <1>6, <1>7, <1>8, <1>9, SpeakStep DEF Awaiting

LEMMA StoreFailsStep ==
  ASSUME CacheInv, NEW c \in Calls, StoreFails(c) PROVE CacheInv'
<1>1. /\ Cache!Over(c) /\ AfterStore(c, stmt[c].row.value)
      /\ row' = row /\ hot' = hot /\ now' = now /\ slowest' = slowest /\ promised' = promised
  BY DEF StoreFails, Cache!WriteFails, history
<1>2. PICK to \in {"walking", "done"} : OneMoves(c, to)
  BY <1>1, AfterStoreMoves DEF CacheInv
<1>3. /\ stmt' \in [Calls -> Cache!Statement \cup {None}] /\ stmt'[c] = None
      /\ \A d \in Calls \ {c} : stmt'[d] = stmt[d]
  BY <1>1, OverEnds DEF CacheInv
<1>4. QED
  BY <1>1, <1>2, <1>3, KeepsAll, SpeakStep DEF Awaiting

LEMMA WalkingInPlan ==
  ASSUME PcTypeOK, NEW c \in Calls, Walking(c) PROVE at[c] \in DOMAIN Plan
  BY PlanIsSequence DEF Walking, PcTypeOK

LEMMA LookStep ==
  ASSUME CacheInv, NEW c \in Calls, Look(c) PROVE CacheInv'
<1> DEFINE s == Source(c)
<1>1. /\ at[c] \in DOMAIN Plan /\ s \in Registered \cap OnChain
      /\ now' = now /\ slowest' = slowest /\ row' = row /\ hot' = hot
      /\ promised' = [promised EXCEPT ![c] = IF FreshRow(s) /\ ~Shadowed(ProcOf[c], s) THEN s ELSE None]
  BY WalkingInPlan DEF Look, CacheInv, cacheVars
<1>2. /\ promised' = [d \in Calls |-> promised'[d]]
      /\ \A d \in Calls \ {c} : promised'[d] = promised[d]
      /\ promised'[c] = IF FreshRow(s) /\ ~Shadowed(ProcOf[c], s) THEN s ELSE None
  BY <1>1 DEF CacheInv, PromiseKept
<1>3. /\ slowest' \in Nat /\ slowest' >= slowest
      /\ hot' \in [Procs -> [Registered -> Cache!HotEntry \cup {None}]]
  BY <1>1 DEF CacheInv, CacheSound, Cache!CacheTypeOK
<1>4. CASE Cache!Live(ProcOf[c], s) /\ Read(c, hot[ProcOf[c]][s].value) /\ UNCHANGED cacheVars
  <2>1. PICK to \in {"walking", "done", "fetching"} :
          /\ OneMoves(c, to)
          /\ to = "fetching" =>
               IsNegative(hot[ProcOf[c]][s].value) /\ now >= hot[ProcOf[c]][s].value.expires
    BY <1>4, ReadMoves DEF CacheInv
  <2>2. to = "fetching" => promised'[c] = None
    BY <1>2, <1>4, <2>1 DEF Shadowed
  <2>3. /\ stmt' \in [Calls -> Cache!Statement \cup {None}]
        /\ \A d \in Calls : stmt'[d] = stmt[d]
        /\ stmt'[c] # None => StmtSound(stmt'[c], now)
    BY <1>4 DEF cacheVars, CacheInv, Cache!CacheTypeOK, CacheSound
  <2>4. QED
    BY <1>1, <1>2, <1>3, <2>1, <2>2, <2>3, SpeakStep
<1>5. CASE Cache!SendSelect(c, s) /\ Goes(c, "reading")
  <2>1. OneMoves(c, "reading")
    BY <1>5, GoesMoves DEF CacheInv, Places
  <2>2. /\ stmt' \in [Calls -> Cache!Statement \cup {None}]
        /\ \A d \in Calls \ {c} : stmt'[d] = stmt[d]
        /\ stmt'[c] = [kind |-> "select", key |-> s, applied |-> FALSE, row |-> None]
    BY <1>1, <1>5, SendSends DEF CacheInv, Cache!SendSelect
  <2>3. StmtSound(stmt'[c], now)
    BY <2>2 DEF StmtSound
  <2>4. promised'[c] # None => Kept(c, promised[c])'
    BY <1>1, <1>2, <2>2 DEF Kept, FreshRow, Cache!Expired
  <2>5. QED
    BY <1>1, <1>2, <1>3, <2>1, <2>2, <2>3, <2>4, SpeakStep
<1>6. QED
  BY <1>4, <1>5 DEF Look

\* The store applies a statement: what it has read, or written, is sound, and whose row it
\* took away lost the promise.
LEMMA ApplyStep ==
  ASSUME CacheInv, NEW c \in Calls, StoreApplies(c) PROVE CacheInv'
<1> DEFINE k == stmt[c].key
<1>1. /\ stmt[c] # None /\ ~stmt[c].applied /\ stmt[c] \in Cache!Statement /\ k \in Registered
      /\ StmtSound(stmt[c], now)
      /\ now' = now /\ pc' = pc /\ at' = at /\ slowest' = slowest /\ Promises /\ hot' = hot
      /\ \/ stmt[c].kind = "select" /\ Cache!ApplySelect(c)
         \/ stmt[c].kind = "delete" /\ Cache!ApplyDelete(c)
         \/ stmt[c].kind = "upsert" /\ Cache!ApplyUpsert(c)
         \/ stmt[c].kind = "sweep" /\ Cache!ApplySweep(c)
  <2>1. Cache!Apply(c) => stmt[c] # None
    BY
       DEF Cache!Apply, Cache!ApplySelect, Cache!ApplyDelete, Cache!ApplyUpsert,
           Cache!ApplySweep, Cache!Under
  <2>2. QED
    BY <2>1, StmtTyped
       DEF StoreApplies, walkVars, Cache!Apply, Cache!ApplySelect, Cache!ApplyDelete,
      Cache!ApplyUpsert, Cache!ApplySweep, Cache!Under
<1>2. stmt \in [Calls -> Cache!Statement \cup {None}] /\ row \in [Registered -> Cache!Row \cup {None}]
  BY DEF CacheInv, Cache!CacheTypeOK
<1> DEFINE r == IF stmt[c].kind = "select" THEN row[k] ELSE stmt[c].row
           t == IF stmt[c].kind = "select" THEN [stmt[c] EXCEPT !.applied = TRUE, !.row = row[k]]
                ELSE [stmt[c] EXCEPT !.applied = TRUE]
<1>3. stmt' = [stmt EXCEPT ![c] = t]
  BY <1>1, <1>2 DEF Cache!ApplySelect, Cache!ApplyDelete, Cache!ApplyUpsert, Cache!ApplySweep
<1>4. t \in Cache!Statement /\ t.row = r /\ t.kind = stmt[c].kind /\ t.key = k /\ t.applied
  BY <1>1, <1>2 DEF Cache!Statement
<1> HIDE DEF t
<1>5. /\ stmt' \in [Calls -> Cache!Statement \cup {None}] /\ stmt'[c] = t
      /\ \A d \in Calls \ {c} : stmt'[d] = stmt[d]
  BY <1>2, <1>3, <1>4
<1>6. StmtSound(stmt'[c], now)
  BY <1>1, <1>2, <1>4, <1>5 DEF StmtSound, CacheInv, CacheSound
<1>7. /\ row' \in [Registered -> Cache!Row \cup {None}]
      /\ \A j \in Registered : row'[j] # None => row'[j] = row[j] \/ RowSound(row'[j], now')
      /\ stmt[c].kind = "delete" => row'[k] = None
  <2>1. CASE stmt[c].kind = "select"
    BY <1>1, <1>2, <2>1 DEF Cache!ApplySelect
  <2>2. CASE stmt[c].kind = "delete"
    BY <1>1, <1>2, <2>2 DEF Cache!ApplyDelete
  <2>3. CASE stmt[c].kind = "upsert"
    BY <1>1, <1>2, <2>3 DEF Cache!ApplyUpsert, StmtSound
  <2>4. CASE stmt[c].kind = "sweep"
    BY <1>1, <1>2, <2>4 DEF Cache!ApplySweep
  <2>5. QED
    BY <1>1, <2>1, <2>2, <2>3, <2>4
<1>8. Cache!CacheTypeOK'
  BY <1>1, <1>5, <1>7 DEF CacheInv, Cache!CacheTypeOK
<1>9. CacheSound'
  <2>1. now' >= now /\ slowest' \in Nat /\ slowest' >= slowest
    BY <1>1 DEF CacheInv, Cache!CacheTypeOK, CacheSound
  <2>2. QED
    BY <1>1, <1>5, <1>6, <1>7, <1>8, <2>1, SoundStays DEF CacheInv
<1>10. ASSUME pc[c] = "reading", promised[c] # None, promised'[c] = promised[c], FreshRow(promised[c])'
       PROVE  Kept(c, promised[c])'
  <2>1. /\ k = promised[c] /\ row[k] # None /\ row'[k] # None
        /\ stmt[c].kind \in {"select", "delete"}
    BY <1>10 DEF CacheInv, PromiseKept, FreshRow
  <2>2. stmt[c].kind = "select" /\ stmt'[c].row # None
    BY <1>4, <1>5, <1>7, <2>1
  <2>3. QED
    BY <1>4, <1>5, <1>10, <2>1, <2>2 DEF Kept
<1>11. PromiseKept' /\ NotPaidAgain'
  BY <1>1, <1>5, <1>10, PromisesHold DEF CacheInv
<1>12. QED
  BY <1>1, <1>8, <1>9, <1>11 DEF CacheInv, PcTypeOK, AwaitsServing, Source

LEMMA TickStep ==
  ASSUME CacheInv, Tick PROVE CacheInv'
<1>1. /\ now' = now + 1 /\ row' = row /\ hot' = hot /\ stmt' = stmt /\ pc' = pc /\ at' = at
      /\ slowest' = slowest /\ Promises
  BY DEF Tick, cacheVars, walkVars
<1>2. Cache!CacheTypeOK'
  BY <1>1 DEF CacheInv, Cache!CacheTypeOK
<1>3. CacheSound'
  <2>1. now' >= now /\ slowest' \in Nat /\ slowest' >= slowest
    BY <1>1 DEF CacheInv, Cache!CacheTypeOK, CacheSound
  <2>2. QED
    BY <1>1, <1>2, <2>1, SoundStays DEF CacheInv
<1>4. PromiseKept' /\ NotPaidAgain'
  BY <1>1, PromisesHold DEF CacheInv
<1>5. QED
  BY <1>1, <1>2, <1>3, <1>4 DEF CacheInv, PcTypeOK, AwaitsServing, Source

LEMMA EvictStep ==
  ASSUME CacheInv, NEW p \in Procs, NEW s \in Registered, HotEvicts(p, s) PROVE CacheInv'
<1>1. /\ hot' = [hot EXCEPT ![p][s] = None] /\ row' = row /\ stmt' = stmt /\ now' = now
      /\ pc' = pc /\ at' = at /\ slowest' = slowest /\ promised' = promised
  BY DEF HotEvicts, Cache!Evict, walkVars, history
<1>2. Cache!CacheTypeOK'
  BY <1>1 DEF CacheInv, Cache!CacheTypeOK
<1>3. CacheSound'
  BY <1>1 DEF CacheInv, CacheSound, Cache!CacheTypeOK
<1>4. PromiseKept' /\ NotPaidAgain'
  BY <1>1 DEF CacheInv, PromiseKept, NotPaidAgain, FreshRow, Cache!Expired
<1>5. QED
  BY <1>1, <1>2, <1>3, <1>4 DEF CacheInv, PcTypeOK, AwaitsServing, Source

LEMMA StartMoves ==
  ASSUME PcTypeOK, NEW c \in Calls, Start(c)
  PROVE  \E to \in {"walking", "done"} : OneMoves(c, to)
<1>1. (pc' = [pc EXCEPT ![c] = "done"] \/ pc' = [pc EXCEPT ![c] = "walking"]) /\ at' = at
  BY DEF Start, Ends
<1>2. ASSUME NEW to \in {"walking", "done"}, pc' = [pc EXCEPT ![c] = to] PROVE OneMoves(c, to)
  BY <1>1, <1>2 DEF PcTypeOK, OneMoves, Places, Awaiting
<1>3. QED
  BY <1>1, <1>2

\* Steps that leave the layers alone.
Idly(c) ==
  \/ Start(c) \/ TooLate(c) \/ SkipUnregistered(c) \/ SkipOffChain(c) \/ SkipUnavailable(c)
  \/ Finish(c) \/ FetchFails(c) \/ FetchTimesOut(c) \/ FetchNotCovered(c)

LEMMA IdleStep ==
  ASSUME CacheInv, NEW c \in Calls, Idly(c) PROVE CacheInv'
<1>1. UNCHANGED <<now, cacheVars, history>>
  BY
     DEF Idly, Start, TooLate, SkipUnregistered, SkipOffChain, SkipUnavailable, Finish,
         FetchFails,
    FetchTimesOut, FetchNotCovered
<1>2. \E to \in {"walking", "done"} : OneMoves(c, to)
  <2>1. CASE Start(c)
    BY <2>1, StartMoves DEF CacheInv
  <2>2. CASE \E f, l, m : Skip(c, f, l, m)
    <3>1. OneMoves(c, "walking")
      BY <2>2, SkipMoves DEF CacheInv
    <3>2. QED
      BY <3>1
  <2>3. CASE pc' = [pc EXCEPT ![c] = "done"] /\ at' = at
    <3>1. OneMoves(c, "done")
      BY <2>3 DEF CacheInv, PcTypeOK, OneMoves, Places, Awaiting
    <3>2. QED
      BY <3>1
  <2>4. QED
    BY <2>1, <2>2, <2>3
       DEF Idly, TooLate, SkipUnregistered, SkipOffChain, SkipUnavailable, Finish,
      FetchFails, FetchTimesOut, FetchNotCovered, GaveNothing, Ends
<1>3. QED
  BY <1>1, <1>2, WalkStep

LEMMA NextCases ==
  ASSUME Next
  PROVE  \/ \E c \in Calls :
              \/ Idly(c) \/ Look(c) \/ FoundInRow(c) \/ DeletesRow(c) \/ Misses(c) \/ FetchAnswers(c)
              \/ Sweeps(c) \/ Stored(c) \/ StoreFails(c) \/ StoreApplies(c)
         \/ \E p \in Procs : \E s \in Registered : HotEvicts(p, s)
         \/ Tick
<1>1. CASE \E c \in Running : Runs(c)
  BY <1>1 DEF Running, Runs, Idly
<1>2. CASE \E c \in Calls : Start(c) \/ Resumes(c) \/ StoreApplies(c)
  BY <1>2 DEF Resumes, Idly
<1>3. QED
  BY <1>1, <1>2 DEF Next

LEMMA NextCache ==
  ASSUME CacheInv, [Next]_vars PROVE CacheInv'
<1>1. CASE UNCHANGED vars
  <2>1. Cache!CacheTypeOK' /\ CacheSound'
    BY <1>1, StutterCache DEF vars, cacheVars, history
  <2>2. QED
    BY <1>1, <2>1
       DEF vars, cacheVars, history, walkVars, CacheInv, PcTypeOK, AwaitsServing, Source,
      PromiseKept, NotPaidAgain, FreshRow, Cache!Expired
<1>2. CASE Next
  BY <1>2, NextCases, IdleStep, LookStep, FoundStep, DeleteStep, MissStep, AnswerStep, SweepStep,
     StoredStep, StoreFailsStep, ApplyStep, EvictStep, TickStep
<1>3. QED
  BY <1>1, <1>2

\* L-1: what the store holds is not paid for again, for any number of processes and calls.
THEOREM Not_Paid_Again == Spec => []NotPaidAgain
<1>1. CacheInv => NotPaidAgain
  BY DEF CacheInv
<1>2. QED
  BY <1>1, InitCache, NextCache, PTL DEF Spec

\* TwoLevelStore: no hot layer ever holds an entry past the TTL and the time of a write.
THEOREM No_Stale_Hit == Spec => []NoStaleHit
<1>1. CacheInv => NoStaleHit
  BY DEF CacheInv, CacheSound, EntrySound, NoStaleHit
<1>2. QED
  BY <1>1, InitCache, NextCache, PTL DEF Spec

--------------------------------------------------------------------------------
(* What a step does to a walk *)

LEMMA CachedValues ==
  ASSUME CacheInv
  PROVE  /\ \A c \in Calls : stmt[c] # None /\ stmt[c].row \in Cache!Row =>
              stmt[c].row.value \in Answers \cup Verdicts
         /\ \A p \in Procs : \A k \in Registered : hot[p][k] # None =>
              hot[p][k].value \in Answers \cup Verdicts
  BY DEF CacheInv, Cache!CacheTypeOK, Cache!Row, Cache!HotEntry

\* The walk goes past a source: one that serves the chain has failed, and one that is not
\* missing was left out for the deadline.
GoesPast(c) ==
  /\ at[c] \in DOMAIN Plan
  /\ \E f, l, m \in BOOLEAN :
       Skip(c, f, l, m) /\ (f \/ Source(c) \notin Registered \cap OnChain) /\ (l \/ m)

Hears(c) ==
  /\ at[c] \in DOMAIN Plan /\ Source(c) \in Registered \cap OnChain
  /\ \E v \in Answers : Use(c, v)

Stays(c) ==
  /\ \E to \in Places \ {"done"} : OneMoves(c, to)
  /\ at' = at /\ UNCHANGED <<mode, got, failed, late, merged, missing, end>>

BreaksOff(c) ==
  /\ \E kind \in {"unavailable", "deadline", "notCovered"} : Ends(c, Throws(kind))
  /\ UNCHANGED <<mode, at, got, failed, late, merged, missing>>

Walks(c) ==
  pc[c] # "done" /\ (GoesPast(c) \/ Hears(c) \/ Stays(c) \/ BreaksOff(c) \/ Finish(c))

LEMMA NothingGoesPast ==
  ASSUME NEW c \in Calls, at[c] \in DOMAIN Plan, GaveNothing(c) PROVE GoesPast(c)
  BY DEF GaveNothing, GoesPast

LEMMA GoesStays ==
  ASSUME PcTypeOK, NEW c \in Calls, NEW to \in Places \ {"done"}, Goes(c, to) PROVE Stays(c)
<1>1. OneMoves(c, to)
  BY GoesMoves
<1>2. QED
  BY <1>1 DEF Stays, Goes

\* What is read of a source is an answer of it.
LEMMA ReadWalks ==
  ASSUME PcTypeOK, NEW c \in Calls, NEW v \in Answers \cup Verdicts,
         Read(c, v) \/ AfterStore(c, v),
         at[c] \in DOMAIN Plan, Source(c) \in Registered \cap OnChain
  PROVE  GoesPast(c) \/ Hears(c) \/ Stays(c)
<1>1. CASE GaveNothing(c)
  BY <1>1, NothingGoesPast
<1>2. CASE Ask(c)
  BY <1>2, GoesStays DEF Ask, Places
<1>3. CASE ~IsNegative(v) /\ Use(c, v)
  <2>1. v \in Answers
    BY <1>3 DEF IsNegative, Verdicts
  <2>2. QED
    BY <1>3, <2>1 DEF Hears
<1>4. QED
  BY <1>1, <1>2, <1>3 DEF Read, AfterStore

LEMMA LookWalks ==
  ASSUME CacheInv, NEW c \in Calls, Look(c) PROVE Walks(c)
<1>1. /\ pc[c] = "walking" /\ at[c] \in DOMAIN Plan /\ Source(c) \in Registered \cap OnChain
  BY WalkingInPlan DEF Look, Walking, CacheInv
<1>2. CASE Cache!Live(ProcOf[c], Source(c)) /\ Read(c, hot[ProcOf[c]][Source(c)].value)
  <2>1. hot[ProcOf[c]][Source(c)].value \in Answers \cup Verdicts
    BY <1>1, <1>2, CachedValues, RouteAssumption DEF Cache!Live, Cache!CacheAssumption
  <2>2. QED
    BY <1>1, <1>2, <2>1, ReadWalks DEF Walks, CacheInv
<1>3. CASE Goes(c, "reading")
  BY <1>1, <1>3, GoesStays DEF Walks, CacheInv, Places
<1>4. QED
  BY <1>2, <1>3 DEF Look

\* Steps that end an await and read, wait for more, or take what was stored.
LEMMA ResumeWalks ==
  ASSUME CacheInv, NEW c \in Calls,
         FoundInRow(c) \/ Misses(c) \/ FetchAnswers(c) \/ Stored(c) \/ StoreFails(c)
  PROVE  Walks(c)
<1>1. /\ pc[c] \in Awaiting /\ pc[c] # "done"
      /\ at[c] \in DOMAIN Plan /\ Source(c) \in Registered \cap OnChain
  BY DEF FoundInRow, Misses, FetchAnswers, Stored, StoreFails, CacheInv, AwaitsServing, Awaiting
<1>2. ASSUME NEW to \in {"fetching", "storing"}, Goes(c, to) PROVE Walks(c)
  BY <1>1, <1>2, GoesStays DEF Walks, CacheInv, Places
<1>3. CASE FoundInRow(c)
  <2>1. stmt[c] # None /\ stmt[c].row # None /\ Read(c, stmt[c].row.value)
    BY <1>3 DEF FoundInRow, Cache!ReadFresh, Cache!Answered, Cache!Under
  <2>2. stmt[c].row.value \in Answers \cup Verdicts
    BY <2>1, StmtTyped, CachedValues DEF StmtSound
  <2>3. QED
    BY <1>1, <2>1, <2>2, ReadWalks DEF Walks, CacheInv
<1>4. CASE Stored(c) \/ StoreFails(c)
  <2>1. stmt[c] # None /\ stmt[c].kind \in {"upsert", "sweep"} /\ AfterStore(c, stmt[c].row.value)
    BY <1>4
       DEF Stored, StoreFails, Cache!Written, Cache!WriteFails, Cache!SweepOver, Cache!Answered,
      Cache!Under
  <2>2. stmt[c].row.value \in Answers \cup Verdicts
    BY <2>1, StmtTyped, CachedValues DEF StmtSound
  <2>3. QED
    BY <1>1, <2>1, <2>2, ReadWalks DEF Walks, CacheInv
<1>5. QED
  BY <1>2, <1>3, <1>4 DEF Misses, FetchAnswers, Ask

LEMMA StartWalks ==
  ASSUME CacheInv, NEW c \in Calls, Start(c) PROVE Walks(c)
<1>1. pc[c] = "idle" /\ UNCHANGED <<mode, at, got, failed, late, merged, missing>>
  BY DEF Start
<1>2. CASE \E r : Refusal(r) # None /\ Ends(c, Throws(Refusal(r)))
  <2>1. PICK r : Refusal(r) # None /\ Ends(c, Throws(Refusal(r)))
    BY <1>2
  <2>2. Refusal(r) \in {"unavailable", "deadline", "notCovered"}
    BY <2>1 DEF Refusal
  <2>3. QED
    BY <1>1, <2>1, <2>2 DEF Walks, BreaksOff
<1>3. CASE pc' = [pc EXCEPT ![c] = "walking"] /\ UNCHANGED end
  <2>1. OneMoves(c, "walking")
    BY <1>1, <1>3 DEF CacheInv, PcTypeOK, OneMoves, Places, Awaiting
  <2>2. QED
    BY <1>1, <1>3, <2>1 DEF Walks, Stays, Places
<1>4. QED
  BY <1>2, <1>3 DEF Start

LEMMA IdleWalks ==
  ASSUME CacheInv, NEW c \in Calls, Idly(c) PROVE Walks(c)
<1>1. CASE Start(c)
  BY <1>1, StartWalks
<1>2. CASE Finish(c)
  BY <1>2 DEF Finish, WalkOver, Walks
<1>3. CASE FetchNotCovered(c)
  <2>1. /\ pc[c] # "done" /\ Ends(c, Throws("notCovered"))
        /\ UNCHANGED <<mode, at, got, failed, late, merged, missing>>
    BY <1>3 DEF FetchNotCovered
  <2>2. QED
    BY <2>1 DEF Walks, BreaksOff
<1>4. CASE TooLate(c) \/ SkipUnregistered(c) \/ SkipOffChain(c) \/ SkipUnavailable(c)
  <2>1. pc[c] # "done" /\ at[c] \in DOMAIN Plan
    BY <1>4, WalkingInPlan
       DEF TooLate, SkipUnregistered, SkipOffChain, SkipUnavailable, Walking, CacheInv
  <2>2. GoesPast(c)
    BY <1>4, <2>1
       DEF TooLate, SkipUnregistered, SkipOffChain, SkipUnavailable, GaveNothing, GoesPast
  <2>3. QED
    BY <2>1, <2>2 DEF Walks
<1>5. CASE FetchFails(c) \/ FetchTimesOut(c)
  <2>1. pc[c] # "done" /\ at[c] \in DOMAIN Plan
    BY <1>5 DEF FetchFails, FetchTimesOut, CacheInv, AwaitsServing, Awaiting
  <2>2. GoesPast(c)
    BY <1>5, <2>1 DEF FetchFails, FetchTimesOut, GaveNothing, GoesPast
  <2>3. QED
    BY <2>1, <2>2 DEF Walks
<1>6. QED
  BY <1>1, <1>2, <1>3, <1>4, <1>5 DEF Idly

\* Every step leaves the walks alone, or is one of one walk that is not over.
LEMMA StepWalks ==
  ASSUME CacheInv, [Next]_vars PROVE UNCHANGED walkVars \/ \E c \in Calls : Walks(c)
<1>1. CASE \E c \in Calls : DeletesRow(c) \/ Sweeps(c) \/ StoreApplies(c)
  BY <1>1 DEF DeletesRow, Sweeps, StoreApplies
<1>2. CASE Tick \/ \E p \in Procs : \E s \in Registered : HotEvicts(p, s)
  BY <1>2 DEF Tick, HotEvicts
<1>3. CASE Next
  BY <1>1, <1>2, <1>3, NextCases, IdleWalks, LookWalks, ResumeWalks
<1>4. QED
  BY <1>3 DEF vars

--------------------------------------------------------------------------------
(* The single-winner walk *)

Heard(c) == {got[c][i].source : i \in DOMAIN got[c]}

\* The sources that serve the chain and come before place n of the plan, and the first.
ServingBefore(n) == {Plan[i].source : i \in {j \in DOMAIN Plan : j < n}} \cap Registered \cap OnChain
IsFirst(s, n) ==
  \E i \in DOMAIN Plan : /\ i < n /\ Plan[i].source = s
                         /\ \A j \in 1 .. i - 1 : Plan[j].source \notin Serving

\* EmptyIsTruthful is not inductive: while nothing failed, a walk has heard exactly the
\* sources it has passed, each of them saying what does not satisfy.
SoFar(c) ==
  /\ \A i \in DOMAIN got[c] : ~got[c][i].ok
  /\ ~failed[c] => Heard(c) = ServingBefore(at[c])
  /\ ~failed[c] /\ got[c] # <<>> => IsFirst(got[c][1].source, at[c])

Truthful(c) ==
  /\ Heard(c) = Serving
  /\ \A i \in DOMAIN got[c] : ~got[c][i].ok
  /\ IsFirst(end[c].source, Len(Plan) + 1)

WalkOf(c) ==
  /\ pc[c] # "done" => end[c] = None
  /\ mode = "first" /\ pc[c] # "done" => SoFar(c)
  /\ Ended(c, "leftover") => Truthful(c)

Heardable == [source : Registered, ok : BOOLEAN, points : Series]

WalkInv ==
  /\ got \in [Calls -> Seq(Heardable)]
  /\ failed \in [Calls -> BOOLEAN]
  /\ end = [c \in Calls |-> end[c]]
  /\ \A c \in Calls : WalkOf(c)

LEMMA InitWalk ==
  ASSUME Init PROVE WalkInv
<1>1. ServingBefore(1) = {}
  BY PlanIsSequence DEF ServingBefore
<1>2. \A c \in Calls : got[c] = <<>> /\ at[c] = 1 /\ end[c] = None /\ DOMAIN got[c] = {}
  BY DEF Init
<1>3. \A c \in Calls : SoFar(c)
  BY <1>1, <1>2 DEF SoFar, Heard
<1>4. \A c \in Calls : WalkOf(c)
  BY <1>2, <1>3 DEF WalkOf, Ended
<1>5. QED
  BY <1>4 DEF Init, WalkInv

\* A step of one call leaves the walks of the others alone.
LEMMA OthersWalk ==
  ASSUME CacheInv, WalkInv, NEW c \in Calls, NEW to, OneMoves(c, to), mode' = mode,
         got' \in [Calls -> Seq(Heardable)], failed' \in [Calls -> BOOLEAN],
         end' = [d \in Calls |-> end'[d]],
         \A d \in Calls \ {c} : got'[d] = got[d] /\ failed'[d] = failed[d] /\ end'[d] = end[d],
         WalkOf(c)'
  PROVE  WalkInv'
<1>1. ASSUME NEW d \in Calls \ {c} PROVE WalkOf(d)'
  <2>1. pc'[d] = pc[d] /\ at'[d] = at[d] /\ got'[d] = got[d] /\ failed'[d] = failed[d] /\ end'[d] = end[d]
    BY DEF CacheInv, PcTypeOK, OneMoves
  <2>2. WalkOf(d)
    BY DEF WalkInv
  <2>3. Heard(d)' = Heard(d)
    BY <2>1 DEF Heard
  <2>4. SoFar(d) => SoFar(d)'
    BY <2>1, <2>3 DEF SoFar
  <2>5. Truthful(d) => Truthful(d)'
    BY <2>1, <2>3 DEF Truthful
  <2>6. QED
    BY <2>1, <2>2, <2>4, <2>5 DEF WalkOf, Ended
<1>2. QED
  BY <1>1 DEF WalkInv

LEMMA PassedOver ==
  ASSUME PcTypeOK, NEW c \in Calls, at[c] \in DOMAIN Plan, NEW n, n = at[c] + 1
  PROVE  /\ ServingBefore(n) = ServingBefore(at[c]) \cup ({Source(c)} \cap Registered \cap OnChain)
         /\ \A s : IsFirst(s, at[c]) => IsFirst(s, n)
<1>1. DOMAIN Plan = 1 .. Count /\ Count \in Nat /\ at[c] \in Nat
  BY PlanIsSequence DEF PcTypeOK
<1>2. {j \in DOMAIN Plan : j < n} = {j \in DOMAIN Plan : j < at[c]} \cup {at[c]}
  BY <1>1
<1>3. QED
  BY <1>1, <1>2 DEF ServingBefore, IsFirst, Source

\* The source gave nothing: either it does not serve the chain, or the walk has failed.
LEMMA SkipWalk ==
  ASSUME CacheInv, WalkInv, NEW c \in Calls, NEW f \in BOOLEAN, NEW l, NEW m, Skip(c, f, l, m),
         pc[c] # "done", at[c] \in DOMAIN Plan,
         f \/ Source(c) \notin Registered \cap OnChain
  PROVE  WalkInv'
<1>1. /\ OneMoves(c, "walking") /\ pc'[c] = "walking" /\ at'[c] = at[c] + 1 /\ got' = got /\ end' = end
      /\ mode' = mode /\ failed' = [failed EXCEPT ![c] = @ \/ f]
  BY SkipMoves DEF CacheInv, PcTypeOK, Skip
<1>2. failed' \in [Calls -> BOOLEAN] /\ failed'[c] = (failed[c] \/ f)
      /\ \A d \in Calls \ {c} : failed'[d] = failed[d]
  BY <1>1 DEF WalkInv
<1>3. WalkOf(c)
  BY DEF WalkInv
<1>4. ServingBefore(at'[c]) = ServingBefore(at[c]) \/ f
  BY <1>1, PassedOver DEF CacheInv
<1>5. \A s : IsFirst(s, at[c]) => IsFirst(s, at'[c])
  BY <1>1, PassedOver DEF CacheInv
<1>6. Heard(c)' = Heard(c)
  BY <1>1 DEF Heard
<1>7. SoFar(c) => SoFar(c)'
  BY <1>1, <1>2, <1>4, <1>5, <1>6 DEF SoFar
<1>8. WalkOf(c)'
  BY <1>1, <1>3, <1>7 DEF WalkOf, Ended
<1>9. QED
  BY <1>1, <1>2, <1>8, OthersWalk DEF WalkInv

\* The source answered: what does not satisfy is heard.
LEMMA UseWalk ==
  ASSUME CacheInv, WalkInv, NEW c \in Calls, NEW v \in Answers, Use(c, v),
         pc[c] # "done", at[c] \in DOMAIN Plan, Source(c) \in Registered \cap OnChain
  PROVE  WalkInv'
<1> DEFINE ok == Satisfies(Plan[at[c]], v)
           a == [source |-> Source(c), ok |-> ok, points |-> v.points]
<1>1. a \in Heardable /\ a.source = Source(c) /\ a.ok = ok
  BY DEF Heardable, Answers, Satisfies
<1> HIDE DEF a
<1>2. /\ got' = [got EXCEPT ![c] = Append(@, a)] /\ mode' = mode /\ failed' = failed
      /\ \/ mode = "first" /\ ok /\ end'[c] = Returns("answer", Source(c), {}) /\ pc'[c] = "done"
         \/ (mode = "merge" \/ ~ok) /\ end' = end /\ pc'[c] = "walking" /\ at'[c] = at[c] + 1
      /\ end' = [d \in Calls |-> end'[d]] /\ \A d \in Calls \ {c} : end'[d] = end[d]
  BY DEF Use, Ends, a, WalkInv, CacheInv, PcTypeOK
<1>3. PICK to \in {"walking", "done"} : OneMoves(c, to)
  BY UseMoves DEF CacheInv
<1>4. /\ got' \in [Calls -> Seq(Heardable)] /\ got'[c] = Append(got[c], a)
      /\ \A d \in Calls \ {c} : got'[d] = got[d]
  BY <1>1, <1>2 DEF WalkInv
<1>5. WalkOf(c)
  BY DEF WalkInv
<1>6. CASE mode = "first" /\ ok /\ end'[c] = Returns("answer", Source(c), {}) /\ pc'[c] = "done"
  <2>1. WalkOf(c)'
    BY <1>6 DEF WalkOf, Ended, Returns
  <2>2. QED
    BY <1>2, <1>3, <1>4, <2>1, OthersWalk DEF WalkInv
<1>7. CASE mode # "first" /\ end' = end
  <2>1. ~Ended(c, "leftover")'
    BY <1>5, <1>7 DEF Ended, WalkOf
  <2>2. WalkOf(c)'
    BY <1>2, <1>5, <1>7, <2>1 DEF WalkOf
  <2>3. QED
    BY <1>2, <1>3, <1>4, <2>2, OthersWalk DEF WalkInv
<1>8. CASE mode = "first" /\ ~ok /\ end' = end /\ pc'[c] = "walking" /\ at'[c] = at[c] + 1
  <2>1. SoFar(c) /\ end[c] = None
    BY <1>5, <1>8 DEF WalkOf
  <2>2. got[c] \in Seq(Heardable)
    BY DEF WalkInv
  <2>3. /\ DOMAIN got'[c] = DOMAIN got[c] \cup {Len(got[c]) + 1} /\ got'[c][Len(got[c]) + 1] = a
        /\ \A i \in DOMAIN got[c] : got'[c][i] = got[c][i]
        /\ Len(got[c]) + 1 \notin DOMAIN got[c] /\ got'[c] # <<>>
        /\ got[c] = <<>> => got'[c][1] = a
        /\ got[c] # <<>> => got'[c][1] = got[c][1]
    BY <1>1, <1>4, <2>2
  <2>4. Heard(c)' = Heard(c) \cup {Source(c)}
    BY <1>1, <2>3 DEF Heard
  <2>5. \A i \in DOMAIN got'[c] : ~got'[c][i].ok
    BY <1>1, <1>8, <2>1, <2>3 DEF SoFar
  <2>6. /\ ServingBefore(at'[c]) = ServingBefore(at[c]) \cup {Source(c)}
        /\ \A s : IsFirst(s, at[c]) => IsFirst(s, at'[c])
    BY <1>8, PassedOver DEF CacheInv
  <2>7. ~failed[c] /\ got[c] = <<>> => IsFirst(Source(c), at'[c])
    <3>1. SUFFICES ASSUME ~failed[c], got[c] = <<>> PROVE IsFirst(Source(c), at'[c])
      OBVIOUS
    <3>2. ServingBefore(at[c]) = {}
      BY <2>1, <3>1 DEF SoFar, Heard
    <3>3. \A j \in DOMAIN Plan : j < at[c] => Plan[j].source \notin Serving
      BY <3>2 DEF ServingBefore, Serving
    <3>4. at[c] < at'[c] /\ \A j \in 1 .. at[c] - 1 : j \in DOMAIN Plan /\ j < at[c]
      BY <1>8, PlanIsSequence DEF CacheInv, PcTypeOK
    <3>5. QED
      BY <3>3, <3>4 DEF IsFirst, Source
  <2>8. SoFar(c)'
    BY <1>1, <1>2, <2>1, <2>3, <2>4, <2>5, <2>6, <2>7 DEF SoFar
  <2>9. WalkOf(c)'
    BY <1>8, <2>1, <2>8 DEF WalkOf, Ended
  <2>10. QED
    BY <1>2, <1>3, <1>4, <2>9, OthersWalk DEF WalkInv
<1>9. QED
  BY <1>2, <1>6, <1>7, <1>8

\* A step that waits, or starts to walk.
LEMMA StayWalk ==
  ASSUME CacheInv, WalkInv, NEW c \in Calls, NEW to, OneMoves(c, to), at' = at,
         UNCHANGED <<mode, got, failed, end>>, pc[c] # "done"
  PROVE  WalkInv'
<1>1. WalkOf(c) /\ pc'[c] = to
  BY DEF WalkInv, CacheInv, PcTypeOK, OneMoves
<1>2. Heard(c)' = Heard(c)
  BY DEF Heard
<1>3. SoFar(c) => SoFar(c)'
  BY <1>2 DEF SoFar
<1>4. WalkOf(c)'
  BY <1>1, <1>3 DEF WalkOf, Ended
<1>5. QED
  BY <1>4, OthersWalk DEF WalkInv

\* The call ends with something else.
LEMMA EndsWalk ==
  ASSUME CacheInv, WalkInv, NEW c \in Calls, NEW e, Ends(c, e), e.kind # "leftover",
         at' = at, UNCHANGED <<mode, got, failed>>
  PROVE  WalkInv'
<1>1. OneMoves(c, "done")
  BY DEF Ends, CacheInv, PcTypeOK, OneMoves, Places, Awaiting
<1>2. /\ end' = [d \in Calls |-> end'[d]] /\ end'[c] = e /\ pc'[c] = "done"
      /\ \A d \in Calls \ {c} : end'[d] = end[d]
  BY DEF Ends, WalkInv, CacheInv, PcTypeOK
<1>3. WalkOf(c)'
  BY <1>2 DEF WalkOf, Ended
<1>4. QED
  BY <1>1, <1>2, <1>3, OthersWalk DEF WalkInv

LEMMA FinishWalk ==
  ASSUME CacheInv, WalkInv, NEW c \in Calls, Finish(c) PROVE WalkInv'
<1>1. /\ pc[c] = "walking" /\ at[c] > Len(Plan) /\ at' = at /\ UNCHANGED <<mode, got, failed>>
      /\ Ends(c, IF mode = "first" THEN FirstEnd(c) ELSE MergeEnd(c))
  BY DEF Finish, WalkOver
<1>2. CASE mode = "first" /\ got[c] # <<>> /\ ~failed[c]
  <2>1. SoFar(c) /\ end'[c].source = got[c][1].source /\ pc'[c] = "done"
    BY <1>1, <1>2 DEF WalkInv, WalkOf, FirstEnd, Ends, Returns, CacheInv, PcTypeOK
  <2>2. DOMAIN Plan = 1 .. Len(Plan) /\ Len(Plan) \in Nat /\ at[c] \in Nat
    BY PlanIsSequence DEF CacheInv, PcTypeOK
  <2>3. ServingBefore(at[c]) = Serving
    BY <1>1, <2>2 DEF ServingBefore, Serving
  <2>4. \A s : IsFirst(s, at[c]) => IsFirst(s, Len(Plan) + 1)
    BY <2>2 DEF IsFirst
  <2>5. Heard(c)' = Heard(c) /\ got'[c] = got[c]
    BY <1>1 DEF Heard
  <2>6. Truthful(c)'
    BY <1>2, <2>1, <2>3, <2>4, <2>5 DEF SoFar, Truthful
  <2>7. WalkOf(c)'
    BY <2>1, <2>6 DEF WalkOf
  <2>8. OneMoves(c, "done")
    BY <1>1 DEF Ends, CacheInv, PcTypeOK, OneMoves, Places, Awaiting
  <2>9. end' = [d \in Calls |-> end'[d]] /\ \A d \in Calls \ {c} : end'[d] = end[d]
    BY <1>1 DEF Ends, WalkInv
  <2>10. QED
    BY <1>1, <2>7, <2>8, <2>9, OthersWalk DEF WalkInv
<1>3. CASE ~(mode = "first" /\ got[c] # <<>> /\ ~failed[c])
  <2>1. PICK e : Ends(c, e) /\ e.kind # "leftover"
    <3>1. CASE mode = "first"
      BY <1>1, <1>3, <3>1 DEF FirstEnd, Throws, Returns
    <3>2. CASE mode # "first"
      <4>1. MergeEnd(c).kind # "leftover"
        BY DEF MergeEnd, Throws, Returns
      <4>2. QED
        BY <1>1, <3>2, <4>1
    <3>3. QED
      BY <3>1, <3>2
  <2>2. QED
    BY <1>1, <2>1, EndsWalk
<1>4. QED
  BY <1>2, <1>3

LEMMA UnmovedWalk ==
  ASSUME WalkInv, UNCHANGED walkVars PROVE WalkInv'
<1>1. \A c \in Calls : Heard(c)' = Heard(c)
  BY DEF walkVars, Heard
<1>2. \A c \in Calls : (SoFar(c) => SoFar(c)') /\ (Truthful(c) => Truthful(c)')
  BY <1>1 DEF walkVars, SoFar, Truthful
<1>3. \A c \in Calls : WalkOf(c)'
  BY <1>2 DEF walkVars, WalkInv, WalkOf, Ended
<1>4. QED
  BY <1>3 DEF walkVars, WalkInv

LEMMA NextWalk ==
  ASSUME CacheInv, WalkInv, [Next]_vars PROVE WalkInv'
<1>1. CASE UNCHANGED walkVars
  BY <1>1, UnmovedWalk
<1>2. ASSUME NEW c \in Calls, Walks(c) PROVE WalkInv'
  <2>1. CASE GoesPast(c)
    BY <1>2, <2>1, SkipWalk DEF GoesPast, Walks
  <2>2. CASE Hears(c)
    BY <1>2, <2>2, UseWalk DEF Hears, Walks
  <2>3. CASE Stays(c)
    BY <1>2, <2>3, StayWalk DEF Stays, Walks
  <2>4. CASE BreaksOff(c)
    <3>1. PICK kind \in {"unavailable", "deadline", "notCovered"} : Ends(c, Throws(kind))
      BY <2>4 DEF BreaksOff
    <3>2. Throws(kind).kind # "leftover"
      BY DEF Throws, Returns
    <3>3. QED
      BY <2>4, <3>1, <3>2, EndsWalk DEF BreaksOff
  <2>5. QED
    BY <1>2, <2>1, <2>2, <2>3, <2>4, FinishWalk DEF Walks
<1>3. QED
  BY <1>1, <1>2, StepWalks

LEMMA TruthFollows == WalkInv => EmptyIsTruthful
<1>1. SUFFICES ASSUME WalkInv, NEW c \in Calls, Ended(c, "leftover")
               PROVE  /\ {got[c][i].source : i \in DOMAIN got[c]} = Serving
                      /\ \A i \in DOMAIN got[c] : ~got[c][i].ok
                      /\ \E i \in DOMAIN Plan :
                           /\ Plan[i].source = end[c].source
                           /\ \A j \in 1 .. i - 1 : Plan[j].source \notin Serving
  BY DEF EmptyIsTruthful
<1>2. Truthful(c)
  BY <1>1 DEF WalkInv, WalkOf
<1>3. QED
  BY <1>2 DEF Truthful, Heard, IsFirst

\* H-1, the single-winner walk: an answer that satisfies nobody is returned only where
\* every source that serves the chain answered, for any routes.
THEOREM Empty_Is_Truthful == Spec => []EmptyIsTruthful
<1>1. Init => CacheInv /\ WalkInv
  BY InitCache, InitWalk
<1>2. CacheInv /\ WalkInv /\ [Next]_vars => (CacheInv /\ WalkInv)'
  BY NextCache, NextWalk
<1>3. QED
  BY <1>1, <1>2, TruthFollows, PTL DEF Spec
--------------------------------------------------------------------------------
(* The merge walk *)

SourcesBefore(n) == {Plan[i].source : i \in {j \in DOMAIN Plan : j < n}}

\* MergeHonest is not inductive: what is merged of the sources a walk has passed is what
\* the first of them with a slot said of it, every slot one of them filled is taken, and
\* before the deadline each of them was heard or is named.
MergeSoFar(c) ==
  /\ Heard(c) \subseteq SourcesBefore(at[c])
  /\ merged[c] = UNION {PointsOf(c, i) : i \in {j \in DOMAIN Plan : j < at[c]}}
  /\ \A i \in DOMAIN Plan : i < at[c] =>
       FilledBy(SaidBy(c, Plan[i].source)) \subseteq FilledBy(merged[c])
  /\ ~late[c] => SourcesBefore(at[c]) = missing[c] \cup Heard(c)

MergeOver(c) ==
  /\ end[c].points = UNION {PointsOf(c, i) : i \in DOMAIN Plan}
  /\ {Plan[i].source : i \in DOMAIN Plan} = missing[c] \cup Heard(c)
  /\ end[c].points = {} => missing[c] = {}
  /\ ~late[c]

MergeOf(c) ==
  /\ mode = "merge" /\ pc[c] # "done" => MergeSoFar(c)
  /\ Ended(c, "merged") => MergeOver(c)

MergeInv ==
  /\ mode \in {"first", "merge"}
  /\ late \in [Calls -> BOOLEAN]
  /\ merged = [c \in Calls |-> merged[c]] /\ missing = [c \in Calls |-> missing[c]]
  /\ \A c \in Calls : MergeOf(c)

\* What a walk has read of a source.
LEMMA SaidGrows ==
  ASSUME NEW c \in Calls, got[c] \in Seq(Heardable), NEW a \in Heardable,
         got'[c] = Append(got[c], a)
  PROVE  /\ \A s : SaidBy(c, s)' = SaidBy(c, s)
                     \cup (IF a.source = s /\ a.ok THEN Tagged(s, a.points) ELSE {})
         /\ Heard(c)' = Heard(c) \cup {a.source}
<1>1. ToSet(got'[c]) = ToSet(got[c]) \cup {a}
  BY DEF ToSet
<1>2. ASSUME NEW s
      PROVE  SaidBy(c, s)' = SaidBy(c, s)
               \cup (IF a.source = s /\ a.ok THEN Tagged(s, a.points) ELSE {})
  <2> DEFINE S == {b \in ToSet(got[c]) : b.source = s /\ b.ok}
             T == {b \in ToSet(got'[c]) : b.source = s /\ b.ok}
  <2>1. T = S \cup (IF a.source = s /\ a.ok THEN {a} ELSE {})
    BY <1>1
  <2>2. /\ SaidBy(c, s)' = UNION {Tagged(s, b.points) : b \in T}
        /\ SaidBy(c, s) = UNION {Tagged(s, b.points) : b \in S}
    BY DEF SaidBy
  <2> HIDE DEF S, T
  <2>3. QED
    BY <2>1, <2>2
<1>3. Heard(c)' = {b.source : b \in ToSet(got'[c])} /\ Heard(c) = {b.source : b \in ToSet(got[c])}
  BY DEF Heard, ToSet
<1>4. QED
  BY <1>1, <1>2, <1>3

LEMMA UnheardSaysNothing ==
  ASSUME NEW c \in Calls, NEW s, s \notin Heard(c) PROVE SaidBy(c, s) = {}
  BY DEF Heard, SaidBy, ToSet

\* A source that is passed in silence.
LEMMA SilentPoints ==
  ASSUME NEW c \in Calls, NEW i, SaidBy(c, Plan[i].source) = {} PROVE PointsOf(c, i) = {}
  BY DEF PointsOf

LEMMA BeforeNext ==
  ASSUME PcTypeOK, NEW c \in Calls, at[c] \in DOMAIN Plan, NEW n, n = at[c] + 1
  PROVE  /\ \A i \in DOMAIN Plan : i < n <=> i < at[c] \/ i = at[c]
         /\ {j \in DOMAIN Plan : j < n} = {j \in DOMAIN Plan : j < at[c]} \cup {at[c]}
         /\ SourcesBefore(n) = SourcesBefore(at[c]) \cup {Source(c)}
         /\ Source(c) \notin SourcesBefore(at[c])
<1>1. DOMAIN Plan = 1 .. Count /\ Count \in Nat /\ at[c] \in Nat
  BY PlanIsSequence DEF PcTypeOK
<1>2. /\ \A i \in DOMAIN Plan : i < n <=> i < at[c] \/ i = at[c]
      /\ {j \in DOMAIN Plan : j < n} = {j \in DOMAIN Plan : j < at[c]} \cup {at[c]}
  BY <1>1
<1>3. \A i \in DOMAIN Plan : i < at[c] => Plan[i].source # Source(c)
  BY <1>1, PlanNamesOnce DEF Source
<1>4. QED
  BY <1>2, <1>3 DEF SourcesBefore, Source

LEMMA OthersMerge ==
  ASSUME CacheInv, MergeInv, NEW c \in Calls, NEW to, OneMoves(c, to), mode' = mode,
         late' \in [Calls -> BOOLEAN],
         merged' = [d \in Calls |-> merged'[d]], missing' = [d \in Calls |-> missing'[d]],
         \A d \in Calls \ {c} : /\ got'[d] = got[d] /\ late'[d] = late[d] /\ merged'[d] = merged[d]
                                /\ missing'[d] = missing[d] /\ end'[d] = end[d],
         MergeOf(c)'
  PROVE  MergeInv'
<1>1. ASSUME NEW d \in Calls \ {c} PROVE MergeOf(d)'
  <2>1. /\ pc'[d] = pc[d] /\ at'[d] = at[d] /\ got'[d] = got[d] /\ late'[d] = late[d]
        /\ merged'[d] = merged[d] /\ missing'[d] = missing[d] /\ end'[d] = end[d]
    BY DEF CacheInv, PcTypeOK, OneMoves
  <2>2. Heard(d)' = Heard(d) /\ \A s : SaidBy(d, s)' = SaidBy(d, s)
    BY <2>1 DEF Heard, SaidBy
  <2>3. \A i : PointsOf(d, i)' = PointsOf(d, i)
    BY <2>2 DEF PointsOf
  <2>4. MergeSoFar(d) => MergeSoFar(d)'
    BY <2>1, <2>2, <2>3 DEF MergeSoFar
  <2>5. MergeOver(d) => MergeOver(d)'
    BY <2>1, <2>2, <2>3 DEF MergeOver
  <2>6. MergeOf(d)
    BY DEF MergeInv
  <2>7. QED
    BY <2>1, <2>4, <2>5, <2>6 DEF MergeOf, Ended
<1>2. QED
  BY <1>1 DEF MergeInv

\* The points are those of the answers: a step that reads none leaves them.
LEMMA SamePoints ==
  ASSUME NEW c \in Calls, got'[c] = got[c]
  PROVE  /\ Heard(c)' = Heard(c)
         /\ \A i : PointsOf(c, i)' = PointsOf(c, i)
         /\ \A s : SaidBy(c, s)' = SaidBy(c, s)
<1>1. Heard(c)' = Heard(c) /\ \A s : SaidBy(c, s)' = SaidBy(c, s)
  BY DEF Heard, SaidBy
<1>2. QED
  BY <1>1 DEF PointsOf

LEMMA PastMerge ==
  ASSUME CacheInv, WalkInv, MergeInv, NEW c \in Calls, pc[c] # "done", GoesPast(c) PROVE MergeInv'
<1>1. PICK f, l, m \in BOOLEAN : Skip(c, f, l, m) /\ (l \/ m)
  BY DEF GoesPast
<1>2. /\ at[c] \in DOMAIN Plan /\ OneMoves(c, "walking") /\ at'[c] = at[c] + 1 /\ mode' = mode
      /\ got' = got /\ merged' = merged /\ end' = end
      /\ late' = [late EXCEPT ![c] = @ \/ l]
      /\ missing' = [missing EXCEPT ![c] = IF m THEN @ \cup {Source(c)} ELSE @]
  BY <1>1, SkipMoves DEF GoesPast, CacheInv, PcTypeOK, Skip
<1>3. /\ late' \in [Calls -> BOOLEAN] /\ late'[c] = (late[c] \/ l)
      /\ \A d \in Calls \ {c} : late'[d] = late[d]
  BY <1>2 DEF MergeInv
<1>4. /\ missing' = [d \in Calls |-> missing'[d]] /\ \A d \in Calls \ {c} : missing'[d] = missing[d]
      /\ missing'[c] = IF m THEN missing[c] \cup {Source(c)} ELSE missing[c]
  BY <1>2 DEF MergeInv
<1>5. MergeSoFar(c) => MergeSoFar(c)'
  <2>1. SUFFICES ASSUME MergeSoFar(c) PROVE MergeSoFar(c)'
    OBVIOUS
  <2>2. /\ \A i \in DOMAIN Plan : i < at'[c] <=> i < at[c] \/ i = at[c]
        /\ {j \in DOMAIN Plan : j < at'[c]} = {j \in DOMAIN Plan : j < at[c]} \cup {at[c]}
        /\ SourcesBefore(at'[c]) = SourcesBefore(at[c]) \cup {Source(c)}
        /\ Source(c) \notin SourcesBefore(at[c])
    BY <1>2, BeforeNext DEF CacheInv
  <2>3. SaidBy(c, Source(c)) = {}
    BY <2>1, <2>2, UnheardSaysNothing DEF MergeSoFar
  <2>4. PointsOf(c, at[c]) = {}
    BY <2>3, SilentPoints DEF Source
  <2>5. /\ Heard(c)' = Heard(c) /\ \A i : PointsOf(c, i)' = PointsOf(c, i)
        /\ \A s : SaidBy(c, s)' = SaidBy(c, s)
    BY <1>2, SamePoints
  <2>6. merged'[c] = UNION {PointsOf(c, i)' : i \in {j \in DOMAIN Plan : j < at'[c]}}
    BY <1>2, <2>1, <2>2, <2>4, <2>5 DEF MergeSoFar
  <2>7. \A i \in DOMAIN Plan : i < at'[c] =>
          FilledBy(SaidBy(c, Plan[i].source)') \subseteq FilledBy(merged'[c])
    <3>1. FilledBy(SaidBy(c, Source(c))) = {}
      BY <2>3 DEF FilledBy
    <3>2. QED
      BY <1>2, <2>1, <2>2, <2>5, <3>1 DEF MergeSoFar, Source
  <2>8. ~late'[c] => SourcesBefore(at'[c]) = missing'[c] \cup Heard(c)'
    BY <1>1, <1>3, <1>4, <2>1, <2>2, <2>5 DEF MergeSoFar
  <2>9. Heard(c)' \subseteq SourcesBefore(at'[c])
    BY <2>1, <2>2, <2>5 DEF MergeSoFar
  <2>10. QED
    BY <2>6, <2>7, <2>8, <2>9 DEF MergeSoFar
<1>6. MergeOf(c)'
  <2>1. end'[c] = None
    BY <1>2 DEF WalkInv, WalkOf
  <2>2. mode = "merge" => MergeSoFar(c)
    BY DEF MergeInv, MergeOf
  <2>3. QED
    BY <1>2, <1>5, <2>1, <2>2 DEF MergeOf, Ended
<1>7. QED
  BY <1>2, <1>3, <1>4, <1>6, OthersMerge DEF MergeInv

\* The points that are taken from an answer are those of its source.
LEMMA TakesPoints ==
  ASSUME CacheInv, WalkInv, NEW c \in Calls, MergeSoFar(c), NEW n \in DOMAIN Plan, n = at[c],
         NEW s, s = Plan[n].source, NEW a \in Heardable, a.source = s,
         got'[c] = Append(got[c], a), at'[c] = n + 1,
         merged'[c] = IF a.ok THEN MergeInto(merged[c], s, a.points) ELSE merged[c],
         late'[c] = late[c], missing'[c] = missing[c]
  PROVE  MergeSoFar(c)'
<1> DEFINE new == IF a.ok THEN Tagged(s, a.points) ELSE {}
           passed == {j \in DOMAIN Plan : j < n}
<1>1. /\ \A i \in DOMAIN Plan : i < at'[c] <=> i < n \/ i = n
      /\ {j \in DOMAIN Plan : j < at'[c]} = passed \cup {n}
      /\ SourcesBefore(at'[c]) = SourcesBefore(n) \cup {s}
      /\ s \notin SourcesBefore(n)
  BY BeforeNext DEF CacheInv, Source
<1>2. /\ \A r : SaidBy(c, r)' = SaidBy(c, r)
                  \cup (IF a.source = r /\ a.ok THEN Tagged(r, a.points) ELSE {})
      /\ Heard(c)' = Heard(c) \cup {s}
  <2>1. got[c] \in Seq(Heardable)
    BY DEF WalkInv
  <2>2. QED
    BY <2>1, SaidGrows
<1>3. SaidBy(c, s) = {}
  BY <1>1, UnheardSaysNothing DEF MergeSoFar
<1>4. SaidBy(c, s)' = new /\ \A r : r # s => SaidBy(c, r)' = SaidBy(c, r)
  <2>1. SaidBy(c, s)' = {} \cup (IF a.source = s /\ a.ok THEN Tagged(s, a.points) ELSE {})
    BY <1>2, <1>3
  <2>2. ASSUME NEW r, r # s PROVE SaidBy(c, r)' = SaidBy(c, r)
    <3>1. SaidBy(c, r)' = SaidBy(c, r) \cup {}
      BY <1>2, <2>2
    <3>2. QED
      BY <3>1
  <2>3. QED
    BY <2>1, <2>2
<1>5. merged'[c] = merged[c] \cup {p \in new : p.slot \notin FilledBy(merged[c])}
  BY DEF MergeInto
<1> HIDE DEF new
<1>6. \A i \in passed : Plan[i].source # s
  BY <1>1 DEF SourcesBefore
<1>7. ASSUME NEW i \in passed PROVE PointsOf(c, i)' = PointsOf(c, i)
  <2>1. i \in 1 .. Count /\ n \in 1 .. Count /\ Count \in Nat
    BY PlanIsSequence
  <2>2. \A j \in 1 .. i - 1 : j \in passed
    BY <2>1, PlanIsSequence
  <2>3. QED
    BY <1>4, <1>6, <2>2 DEF PointsOf
<1>8. \A i \in passed : PointsOf(c, i) \subseteq SaidBy(c, Plan[i].source)
  BY DEF PointsOf
<1>9. \A k : k \in FilledBy(merged[c])
              <=> \E j \in passed : k \in FilledBy(SaidBy(c, Plan[j].source))
  <2>1. merged[c] = UNION {PointsOf(c, i) : i \in passed}
    BY DEF MergeSoFar
  <2>2. \A j \in passed : FilledBy(SaidBy(c, Plan[j].source)) \subseteq FilledBy(merged[c])
    BY DEF MergeSoFar
  <2>3. \A p \in merged[c] : \E j \in passed : p \in SaidBy(c, Plan[j].source)
    BY <1>8, <2>1
  <2>4. QED
    BY <2>2, <2>3 DEF FilledBy
<1>10. PointsOf(c, n)' = {p \in new : p.slot \notin FilledBy(merged[c])}
  <2>1. n \in 1 .. Count /\ Count \in Nat /\ DOMAIN Plan = 1 .. Count
    BY PlanIsSequence
  <2>2. passed = 1 .. n - 1
    BY <2>1
  <2>3. \A j \in passed : SaidBy(c, Plan[j].source)' = SaidBy(c, Plan[j].source)
    BY <1>4, <1>6
  <2>4. PointsOf(c, n)'
          = {p \in new : \A j \in passed : p.slot \notin FilledBy(SaidBy(c, Plan[j].source))}
    BY <1>4, <2>2, <2>3 DEF PointsOf
  <2> HIDE DEF passed
  <2>5. QED
    BY <1>9, <2>4
<1>11. merged'[c] = UNION {PointsOf(c, i)' : i \in passed \cup {n}}
  <2>1. merged[c] = UNION {PointsOf(c, i) : i \in passed}
    BY DEF MergeSoFar
  <2> HIDE DEF passed
  <2>2. UNION {PointsOf(c, i)' : i \in passed} = merged[c]
    BY <1>7, <2>1
  <2>3. UNION {PointsOf(c, i)' : i \in passed \cup {n}}
          = (UNION {PointsOf(c, i)' : i \in passed}) \cup PointsOf(c, n)'
    BY ONLY <2>2, Zenon
  <2>4. merged'[c] = merged[c] \cup PointsOf(c, n)'
    BY <1>5, <1>10
  <2>5. QED
    BY ONLY <2>2, <2>3, <2>4
<1>12. \A i \in passed \cup {n} :
         FilledBy(SaidBy(c, Plan[i].source)') \subseteq FilledBy(merged'[c])
  <2>1. /\ FilledBy(merged[c]) \subseteq FilledBy(merged'[c])
        /\ FilledBy(new) \subseteq FilledBy(merged'[c])
    BY <1>5 DEF FilledBy
  <2>2. \A i \in passed : FilledBy(SaidBy(c, Plan[i].source)) \subseteq FilledBy(merged[c])
    BY DEF MergeSoFar
  <2> HIDE DEF passed
  <2>3. QED
    BY <1>4, <1>6, <2>1, <2>2
<1>13. ~late'[c] => SourcesBefore(at'[c]) = missing'[c] \cup Heard(c)'
  BY <1>1, <1>2 DEF MergeSoFar
<1>14. Heard(c)' \subseteq SourcesBefore(at'[c])
  BY <1>1, <1>2 DEF MergeSoFar
<1>15. QED
  BY <1>1, <1>11, <1>12, <1>13, <1>14 DEF MergeSoFar

LEMMA HearMerge ==
  ASSUME CacheInv, WalkInv, MergeInv, NEW c \in Calls, pc[c] # "done", Hears(c) PROVE MergeInv'
<1>1. PICK v \in Answers : Use(c, v)
  BY DEF Hears
<1> DEFINE ok == Satisfies(Plan[at[c]], v)
           a == [source |-> Source(c), ok |-> ok, points |-> v.points]
<1>2. a \in Heardable /\ a.source = Source(c) /\ a.ok = ok /\ a.points = v.points
  BY DEF Heardable, Answers, Satisfies, Hears
<1>3. /\ got' = [got EXCEPT ![c] = Append(@, a)]
      /\ UNCHANGED <<mode, late, missing>>
      /\ \/ mode = "first" /\ ok /\ Ends(c, Returns("answer", Source(c), {})) /\ UNCHANGED merged
         \/ /\ mode = "merge" \/ ~ok
            /\ pc' = [pc EXCEPT ![c] = "walking"] /\ at' = [at EXCEPT ![c] = @ + 1]
            /\ merged' = [merged EXCEPT ![c] =
                            IF mode = "merge" /\ ok THEN MergeInto(@, Source(c), v.points) ELSE @]
            /\ UNCHANGED end
  BY <1>1 DEF Use
<1> HIDE DEF a, ok
<1>4. PICK to \in {"walking", "done"} : OneMoves(c, to)
  BY <1>1, UseMoves DEF CacheInv
<1>5. got'[c] = Append(got[c], a) /\ \A d \in Calls \ {c} : got'[d] = got[d]
  BY <1>3 DEF WalkInv
<1>6. merged' = [d \in Calls |-> merged'[d]] /\ \A d \in Calls \ {c} : merged'[d] = merged[d]
  BY <1>3 DEF MergeInv
<1>7. \A d \in Calls \ {c} : end'[d] = end[d]
  BY <1>3 DEF Ends, WalkInv
<1>8. MergeOf(c)'
  <2>1. CASE Ends(c, Returns("answer", Source(c), {}))
    <3>1. pc'[c] = "done" /\ end'[c].kind = "answer"
      BY <2>1 DEF Ends, Returns, CacheInv, PcTypeOK, WalkInv
    <3>2. QED
      BY <3>1 DEF MergeOf, Ended
  <2>2. CASE mode # "merge" /\ end' = end
    <3>1. end'[c] = None
      BY <2>2 DEF WalkInv, WalkOf
    <3>2. QED
      BY <1>3, <2>2, <3>1 DEF MergeOf, Ended
  <2>3. CASE /\ mode = "merge" /\ end' = end /\ at' = [at EXCEPT ![c] = @ + 1]
             /\ merged' = [merged EXCEPT ![c] =
                             IF mode = "merge" /\ ok THEN MergeInto(@, Source(c), v.points) ELSE @]
    <3>1. end'[c] = None /\ MergeSoFar(c)
      BY <2>3 DEF WalkInv, WalkOf, MergeInv, MergeOf
    <3>2. at'[c] = at[c] + 1 /\ at[c] \in DOMAIN Plan
      BY <2>3 DEF CacheInv, PcTypeOK, Hears
    <3>3. merged'[c] = IF a.ok THEN MergeInto(merged[c], Source(c), a.points) ELSE merged[c]
      BY <1>2, <2>3 DEF MergeInv
    <3>4. /\ c \in Calls /\ CacheInv /\ WalkInv /\ MergeSoFar(c) /\ at[c] \in DOMAIN Plan
          /\ Source(c) = Plan[at[c]].source /\ a \in Heardable /\ a.source = Source(c)
          /\ got'[c] = Append(got[c], a) /\ at'[c] = at[c] + 1
          /\ merged'[c] = IF a.ok THEN MergeInto(merged[c], Source(c), a.points) ELSE merged[c]
          /\ late'[c] = late[c] /\ missing'[c] = missing[c]
      BY <1>2, <1>3, <1>5, <3>1, <3>2, <3>3 DEF Source
    <3>5. MergeSoFar(c)'
      BY ONLY <3>4, TakesPoints
    <3>6. QED
      BY <3>1, <3>5 DEF MergeOf, Ended
  <2>4. QED
    BY <1>3, <2>1, <2>2, <2>3
<1>9. QED
  BY <1>3, <1>4, <1>5, <1>6, <1>7, <1>8, OthersMerge DEF MergeInv

LEMMA StayMerge ==
  ASSUME CacheInv, WalkInv, MergeInv, NEW c \in Calls, pc[c] # "done", Stays(c) PROVE MergeInv'
<1>1. PICK to \in Places \ {"done"} : OneMoves(c, to)
  BY DEF Stays
<1>2. at' = at /\ UNCHANGED <<mode, got, failed, late, merged, missing, end>>
  BY DEF Stays
<1>3. /\ Heard(c)' = Heard(c) /\ \A i : PointsOf(c, i)' = PointsOf(c, i)
      /\ \A s : SaidBy(c, s)' = SaidBy(c, s)
  BY <1>2, SamePoints
<1>4. MergeSoFar(c) => MergeSoFar(c)'
  BY <1>2, <1>3 DEF MergeSoFar
<1>5. end[c] = None /\ MergeOf(c)
  BY DEF WalkInv, WalkOf, MergeInv
<1>6. MergeOf(c)'
  BY <1>2, <1>4, <1>5 DEF MergeOf, Ended
<1>7. QED
  BY <1>1, <1>2, <1>6, OthersMerge DEF MergeInv

\* The walk ends with something else.
LEMMA EndsMerge ==
  ASSUME CacheInv, WalkInv, MergeInv, NEW c \in Calls, NEW e, Ends(c, e), e.kind # "merged",
         at' = at, UNCHANGED <<mode, got, late, merged, missing>>
  PROVE  MergeInv'
<1>1. OneMoves(c, "done")
  BY DEF Ends, CacheInv, PcTypeOK, OneMoves, Places, Awaiting
<1>2. end'[c] = e /\ pc'[c] = "done" /\ \A d \in Calls \ {c} : end'[d] = end[d]
  BY DEF Ends, WalkInv, CacheInv, PcTypeOK
<1>3. MergeOf(c)'
  BY <1>2 DEF MergeOf, Ended
<1>4. QED
  BY <1>1, <1>2, <1>3, OthersMerge DEF MergeInv

LEMMA FinishMerge ==
  ASSUME CacheInv, WalkInv, MergeInv, NEW c \in Calls, Finish(c) PROVE MergeInv'
<1>1. /\ pc[c] = "walking" /\ at[c] > Len(Plan) /\ at' = at
      /\ UNCHANGED <<mode, got, late, merged, missing>>
      /\ Ends(c, IF mode = "first" THEN FirstEnd(c) ELSE MergeEnd(c))
  BY DEF Finish, WalkOver
<1> DEFINE over == Returns("merged", Author(c), merged[c])
<1>2. CASE /\ mode = "merge" /\ ~late[c] /\ (missing[c] # {} => Contributors(merged[c]) # {})
           /\ Ends(c, over)
  <2>1. MergeSoFar(c)
    BY <1>1, <1>2 DEF MergeInv, MergeOf
  <2>2. /\ end'[c] = over /\ pc'[c] = "done" /\ OneMoves(c, "done")
        /\ \A d \in Calls \ {c} : end'[d] = end[d]
    BY <1>1, <1>2 DEF Ends, WalkInv, CacheInv, PcTypeOK, OneMoves, Places, Awaiting
  <2>3. end'[c].points = merged[c]
    BY <2>2 DEF Returns
  <2>4. {j \in DOMAIN Plan : j < at[c]} = DOMAIN Plan
    BY <1>1, PlanIsSequence DEF CacheInv, PcTypeOK
  <2>5. Heard(c)' = Heard(c) /\ \A i : PointsOf(c, i)' = PointsOf(c, i)
    BY <1>1, SamePoints
  <2>6. end'[c].points = UNION {PointsOf(c, i)' : i \in DOMAIN Plan}
    BY <2>1, <2>3, <2>4, <2>5 DEF MergeSoFar
  <2>7. {Plan[i].source : i \in DOMAIN Plan} = missing'[c] \cup Heard(c)'
    BY <1>1, <1>2, <2>1, <2>4, <2>5 DEF MergeSoFar, SourcesBefore
  <2>8. end'[c].points = {} => missing'[c] = {}
    BY <1>1, <1>2, <2>3 DEF Contributors
  <2>9. MergeOf(c)'
    BY <1>1, <1>2, <2>2, <2>6, <2>7, <2>8 DEF MergeOf, MergeOver
  <2>10. QED
    BY <1>1, <2>2, <2>9, OthersMerge DEF MergeInv
<1>3. CASE \E e : Ends(c, e) /\ e.kind # "merged"
  BY <1>1, <1>3, EndsMerge
<1>4. CASE mode = "first"
  <2>1. FirstEnd(c).kind # "merged"
    BY DEF FirstEnd, Throws, Returns
  <2>2. QED
    BY <1>1, <1>3, <1>4, <2>1
<1>5. CASE mode = "merge"
  <2>1. \/ MergeEnd(c) = Throws("deadline") \/ MergeEnd(c) = Throws("unavailable")
        \/ /\ MergeEnd(c) = over /\ ~late[c]
           /\ missing[c] # {} => Contributors(merged[c]) # {}
    BY DEF MergeEnd
  <2>2. Throws("deadline").kind # "merged" /\ Throws("unavailable").kind # "merged"
    BY DEF Throws, Returns
  <2>3. QED
    BY <1>1, <1>2, <1>3, <1>5, <2>1, <2>2
<1>6. QED
  BY <1>4, <1>5 DEF MergeInv

LEMMA UnmovedMerge ==
  ASSUME MergeInv, UNCHANGED walkVars PROVE MergeInv'
<1>1. \A c \in Calls : /\ Heard(c)' = Heard(c)
                      /\ \A i : PointsOf(c, i)' = PointsOf(c, i)
                      /\ \A s : SaidBy(c, s)' = SaidBy(c, s)
  BY SamePoints DEF walkVars
<1>2. \A c \in Calls : (MergeSoFar(c) => MergeSoFar(c)') /\ (MergeOver(c) => MergeOver(c)')
  BY <1>1 DEF walkVars, MergeSoFar, MergeOver
<1>3. \A c \in Calls : MergeOf(c)'
  BY <1>2 DEF walkVars, MergeInv, MergeOf, Ended
<1>4. QED
  BY <1>3 DEF walkVars, MergeInv

LEMMA InitMerge ==
  ASSUME Init PROVE MergeInv
<1>1. {j \in DOMAIN Plan : j < 1} = {}
  BY PlanIsSequence
<1>2. ASSUME NEW c \in Calls PROVE MergeOf(c)
  <2>1. /\ got[c] = <<>> /\ at[c] = 1 /\ end[c] = None /\ DOMAIN got[c] = {} /\ merged[c] = {}
        /\ missing[c] = {}
    BY DEF Init
  <2>2. Heard(c) = {} /\ SourcesBefore(1) = {}
    BY <1>1, <2>1 DEF Heard, SourcesBefore
  <2>3. MergeSoFar(c)
    BY <1>1, <2>1, <2>2, PlanIsSequence DEF MergeSoFar
  <2>4. QED
    BY <2>1, <2>3 DEF MergeOf, Ended
<1>3. QED
  BY <1>2, RouteAssumption DEF Init, MergeInv

LEMMA NextMerge ==
  ASSUME CacheInv, WalkInv, MergeInv, [Next]_vars PROVE MergeInv'
<1>1. ASSUME NEW c \in Calls, Walks(c) PROVE MergeInv'
  <2>1. CASE BreaksOff(c)
    <3>1. PICK kind \in {"unavailable", "deadline", "notCovered"} : Ends(c, Throws(kind))
      BY <2>1 DEF BreaksOff
    <3>2. Throws(kind).kind # "merged"
      BY DEF Throws, Returns
    <3>3. QED
      BY <2>1, <3>1, <3>2, EndsMerge DEF BreaksOff
  <2>2. QED
    BY <1>1, <2>1, PastMerge, HearMerge, StayMerge, FinishMerge DEF Walks
<1>2. QED
  BY <1>1, StepWalks, UnmovedMerge

LEMMA MergeFollows == MergeInv => MergeHonest
<1>1. SUFFICES ASSUME MergeInv, NEW c \in Calls, Ended(c, "merged")
               PROVE  /\ end[c].points = UNION {PointsOf(c, i) : i \in DOMAIN Plan}
                      /\ {Plan[i].source : i \in DOMAIN Plan}
                           = missing[c] \cup {got[c][i].source : i \in DOMAIN got[c]}
                      /\ end[c].points = {} => missing[c] = {}
                      /\ ~late[c]
  BY DEF MergeHonest
<1>2. MergeOver(c)
  BY <1>1 DEF MergeInv, MergeOf
<1>3. QED
  BY <1>2 DEF MergeOver, Heard

\* The merge walk: of each slot the answer holds every point of the first source that
\* answered with one and satisfied the policy, and who is not in it is named, for any
\* routes, sources and series.
THEOREM Merge_Honest == Spec => []MergeHonest
<1>1. Init => CacheInv /\ WalkInv /\ MergeInv
  BY InitCache, InitWalk, InitMerge
<1>2. CacheInv /\ WalkInv /\ MergeInv /\ [Next]_vars => (CacheInv /\ WalkInv /\ MergeInv)'
  BY NextCache, NextWalk, NextMerge
<1>3. QED
  BY <1>1, <1>2, MergeFollows, PTL DEF Spec
================================================================================
