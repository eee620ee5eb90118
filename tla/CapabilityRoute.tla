---------------------------- MODULE CapabilityRoute ----------------------------
(****************************************************************************)
(* CapabilityRegistry.resolve (adapters/registry.ts): the walk of a call    *)
(* over the sources of its routes, in the order in which they may be paid,  *)
(* with its deadline, the cache of what sources said, the negative entries  *)
(* for answers that could not be read, and the verdict at its end; and the  *)
(* merge walk, which asks every source and joins their points.  Calls of    *)
(* several processes run at once over one cache.  All calls of a behaviour  *)
(* ask the same capability with the same arguments, so a source is a key.   *)
(****************************************************************************)
EXTENDS Integers, Sequences, FiniteSets, SequencesExt

CONSTANTS
  Procs,
  Calls,
  ProcOf,         \* call -> its process
  Routes,         \* matching routes: [adapterIds, selective], by declaration
  Registered,     \* sources with an adapter
  OnChain,        \* sources whose adapter serves the chain
  Unavailable,    \* sources whose isAvailable() may say no
  Says,           \* source -> what may come of asking it
  Series,         \* merge: the sequences of points a source may answer with
  Malformed,      \* a point without a metric, an asset or a time
  Budget,         \* CapabilityManifest.deadlineMs
  Requests,       \* what a call may ask: instants from now to its deadline, or None
  Modes,          \* subset of {"first", "merge"}: is the route a merging one
  Overlapping,    \* bound: modes with more than one call
  Ttl, NegativeTtl, MaxTime, Faults, None

VARIABLES
  now, row, hot, stmt,   \* TwoLevelCache
  mode,       \* the mode of the route
  pc,         \* call -> where it is in resolve
  at,         \* call -> position in the plan
  deadline,   \* call -> effectiveDeadlineAtMs
  failed,     \* call -> hadFailure
  late,       \* call -> deadlineHit
  got,        \* call -> answers read so far, in order: perSourceCache
  merged,     \* call -> merge: mergedPoints
  missing,    \* call -> merge: skipped, without the policy-excluded
  end,        \* call -> what resolve returned or threw, or None
  promised,   \* call -> the source it looked up while a fresh row was there (history)
  slowest     \* the longest write so far (history)

walkVars == <<mode, pc, at, deadline, failed, late, got, merged, missing, end>>
history == <<promised, slowest>>

\* What a source says, as it is cached: an answer that satisfies the selective policy
\* or does not, with the instant it was fetched at, or the verdict that it could not be
\* read, with its own end.
Answers == [kind : {"good", "poor"}, points : Series, born : Nat]
Verdicts == [kind : {"negative"}, expires : Nat, born : Nat]
IsNegative(v) == v.kind = "negative"

Cache == INSTANCE TwoLevelCache
  WITH Clients <- Calls, Keys <- Registered, Values <- Answers \cup Verdicts

ASSUME RouteAssumption ==
  /\ Cache!CacheAssumption
  /\ Routes \in Seq([adapterIds : Seq(STRING), selective : BOOLEAN])
  /\ <<>> \in Series
  /\ Modes \subseteq {"first", "merge"}

cacheVars == <<row, hot, stmt>>
vars == <<now, cacheVars, walkVars, history>>

--------------------------------------------------------------------------------
(* The plan: sources of all matching routes, each once, with the policy of the route
   that named it first. *)

\* Where the routes name a source: the route, and the place in its list.
Mentions == UNION {{i} \X DOMAIN Routes[i].adapterIds : i \in DOMAIN Routes}
Named(m) == Routes[m[1]].adapterIds[m[2]]
Before(m, n) == m[1] < n[1] \/ (m[1] = n[1] /\ m[2] < n[2])
Firsts == {m \in Mentions : \A n \in Mentions : Before(n, m) => Named(n) # Named(m)}

Plan ==
  [i \in 1 .. Cardinality(Firsts) |->
     LET m == CHOOSE m \in Firsts : Cardinality({n \in Firsts : Before(n, m)}) = i - 1
     IN [source |-> Named(m), selective |-> Routes[m[1]].selective]]

Covered == \E i \in DOMAIN Plan : Plan[i].source \in Registered \cap OnChain

\* A policy that throws lets the answer pass.
Satisfies(step, v) == step.selective => v.kind = "good"

\* mergeInto: the points of a source whose slot no earlier source has filled.  Its own
\* points of one slot all stay.
FilledBy(points) == {p.slot : p \in points}
Tagged(s, series) ==
  {[from |-> s, place |-> i, slot |-> series[i]] : i \in {j \in DOMAIN series : series[j] # Malformed}}

\* Mutant: a slot is claimed by its first point.
MergeIntoPointByPoint(points, s, series) ==
  points \cup {p \in Tagged(s, series) :
                 /\ p.slot \notin FilledBy(points)
                 /\ \A q \in Tagged(s, series) : q.slot = p.slot => p.place <= q.place}

MergeInto(points, s, series) ==
  points \cup {p \in Tagged(s, series) : p.slot \notin FilledBy(points)}

Contributors(points) == {p.from : p \in points}

--------------------------------------------------------------------------------
Init ==
  /\ Cache!CacheInit
  /\ mode \in Modes
  /\ pc = [c \in Calls |-> "idle"]
  /\ at = [c \in Calls |-> 1]
  /\ deadline = [c \in Calls |-> 0]
  /\ failed = [c \in Calls |-> FALSE]
  /\ late = [c \in Calls |-> FALSE]
  /\ got = [c \in Calls |-> <<>>]
  /\ merged = [c \in Calls |-> {}]
  /\ missing = [c \in Calls |-> {}]
  /\ end = [c \in Calls |-> None]
  /\ promised = [c \in Calls |-> None]
  /\ slowest = 0

Source(c) == Plan[at[c]].source

Ends(c, e) ==
  /\ pc' = [pc EXCEPT ![c] = "done"]
  /\ end' = [end EXCEPT ![c] = e]

Returns(kind, s, points) == [kind |-> kind, source |-> s, points |-> points]
Throws(kind) == Returns(kind, None, {})

\* The source gave nothing: on to the next one.
Skip(c, isFailure, isLate, isMissing) ==
  /\ pc' = [pc EXCEPT ![c] = "walking"]
  /\ at' = [at EXCEPT ![c] = @ + 1]
  /\ failed' = [failed EXCEPT ![c] = @ \/ isFailure]
  /\ late' = [late EXCEPT ![c] = @ \/ isLate]
  /\ missing' = [missing EXCEPT ![c] = IF isMissing THEN @ \cup {Source(c)} ELSE @]
  /\ UNCHANGED <<mode, deadline, got, merged, end>>

GaveNothing(c) == Skip(c, TRUE, FALSE, TRUE)

\* The source answered v.  The first walk ends with an answer that satisfies; the merge
\* walk takes its points and goes on.
Use(c, v) ==
  LET s == Source(c)
      ok == Satisfies(Plan[at[c]], v)
      answer == [source |-> s, ok |-> ok, points |-> v.points]
  IN /\ got' = [got EXCEPT ![c] = Append(@, answer)]
     /\ \/ /\ mode = "first" /\ ok
           /\ Ends(c, Returns("answer", s, {}))
           /\ UNCHANGED <<at, merged>>
        \/ /\ mode = "merge" \/ ~ok
           /\ pc' = [pc EXCEPT ![c] = "walking"]
           /\ at' = [at EXCEPT ![c] = @ + 1]
           /\ merged' = [merged EXCEPT ![c] =
                           IF mode = "merge" /\ ok THEN MergeInto(@, s, v.points) ELSE @]
           /\ UNCHANGED end
     /\ UNCHANGED <<mode, deadline, failed, late, missing>>

Goes(c, where) ==
  /\ pc' = [pc EXCEPT ![c] = where]
  /\ UNCHANGED <<mode, at, deadline, failed, late, got, merged, missing, end>>

Ask(c) == Goes(c, "fetching")

\* Mutant: a negative entry is taken for a miss.
ReadPast(c, v) == IF IsNegative(v) THEN Ask(c) ELSE Use(c, v)

\* What the cache holds for the source.
Read(c, v) ==
  \/ IsNegative(v) /\ now < v.expires /\ GaveNothing(c)
  \/ IsNegative(v) /\ now >= v.expires /\ Ask(c)
  \/ ~IsNegative(v) /\ Use(c, v)

--------------------------------------------------------------------------------
(* resolve *)

\* Bound: in a mode that is not in Overlapping there is one call.
MayStart == mode \in Overlapping \/ \A c \in Calls : pc[c] = "idle"

\* What ends the call before any source: no route, a requested deadline that has
\* passed, a chain nobody serves.
Refusal(r) ==
  CASE Routes = <<>> -> "unavailable"
    [] Routes # <<>> /\ r # None /\ r <= 0 -> "deadline"
    [] Routes # <<>> /\ ~(r # None /\ r <= 0) /\ ~Covered -> "notCovered"
    [] OTHER -> None

Until(r) == IF r # None /\ r < Budget THEN now + r ELSE now + Budget

Start(c) ==
  /\ pc[c] = "idle"
  /\ MayStart
  /\ \E r \in Requests :
       \/ /\ Refusal(r) # None
          /\ Ends(c, Throws(Refusal(r)))
          /\ UNCHANGED deadline
       \/ /\ Refusal(r) = None
          /\ deadline' = [deadline EXCEPT ![c] = Until(r)]
          /\ pc' = [pc EXCEPT ![c] = "walking"]
          /\ UNCHANGED end
  /\ UNCHANGED <<now, cacheVars, mode, at, failed, late, got, merged, missing, history>>

Walking(c) == pc[c] = "walking" /\ at[c] <= Len(Plan)
InTime(c) == now < deadline[c]

TooLate(c) ==
  /\ Walking(c) /\ ~InTime(c)
  /\ Skip(c, TRUE, TRUE, FALSE)
  /\ UNCHANGED <<now, cacheVars, history>>

SkipUnregistered(c) ==
  /\ Walking(c) /\ InTime(c)
  /\ Source(c) \notin Registered
  /\ Skip(c, FALSE, FALSE, TRUE)
  /\ UNCHANGED <<now, cacheVars, history>>

SkipOffChain(c) ==
  /\ Walking(c) /\ InTime(c)
  /\ Source(c) \in Registered \ OnChain
  /\ Skip(c, FALSE, FALSE, TRUE)
  /\ UNCHANGED <<now, cacheVars, history>>

SkipUnavailable(c) ==
  /\ Walking(c) /\ InTime(c)
  /\ Source(c) \in Registered \cap OnChain \cap Unavailable
  /\ GaveNothing(c)
  /\ UNCHANGED <<now, cacheVars, history>>

\* The hot layer still holds a verdict that is over (see PromotedWithinRow).
Shadowed(p, s) ==
  /\ Cache!Live(p, s)
  /\ LET v == hot[p][s].value IN IsNegative(v) /\ now >= v.expires

FreshRow(s) == row[s] # None /\ ~Cache!Expired(row[s])

\* Who had a fresh row to find still has.
Promises ==
  promised' = [c \in Calls |-> IF \E s \in Registered : promised[c] = s /\ FreshRow(s)'
                               THEN promised[c] ELSE None]

Look(c) ==
  /\ Walking(c) /\ InTime(c)
  /\ Source(c) \in Registered \cap OnChain
  /\ promised' = [promised EXCEPT ![c] =
                     IF FreshRow(Source(c)) /\ ~Shadowed(ProcOf[c], Source(c))
                     THEN Source(c) ELSE None]
  /\ \/ /\ Cache!Live(ProcOf[c], Source(c))
        /\ Read(c, hot[ProcOf[c]][Source(c)].value)
        /\ UNCHANGED cacheVars
     \/ /\ ~Cache!Live(ProcOf[c], Source(c))
        /\ Cache!SendSelect(c, Source(c))
        /\ Goes(c, "reading")
        /\ UNCHANGED <<row, hot>>
  /\ UNCHANGED <<now, slowest>>

FoundInRow(c) ==
  /\ pc[c] = "reading"
  /\ Cache!ReadFresh(c)
  /\ Read(c, stmt[c].row.value)
  /\ UNCHANGED <<now, history>>

DeletesRow(c) ==
  /\ pc[c] = "reading"
  /\ Cache!ReadExpired(c)
  /\ UNCHANGED <<now, walkVars, history>>

\* A lookup that fails is a miss.
Misses(c) ==
  /\ pc[c] = "reading"
  /\ \/ Cache!ReadNone(c) /\ UNCHANGED promised
     \/ Cache!ReadFails(c) /\ promised' = [promised EXCEPT ![c] = None]
  /\ Ask(c)
  /\ UNCHANGED <<now, slowest>>

FetchFails(c) ==
  /\ pc[c] = "fetching"
  /\ "fails" \in Says[Source(c)]
  /\ GaveNothing(c)
  /\ UNCHANGED <<now, cacheVars, history>>

\* DeadlineExceededError.
FetchTimesOut(c) ==
  /\ pc[c] = "fetching"
  /\ ~InTime(c)
  /\ Skip(c, TRUE, TRUE, TRUE)
  /\ UNCHANGED <<now, cacheVars, history>>

\* The adapter finds that it does not serve the chain: the call ends.
FetchNotCovered(c) ==
  /\ pc[c] = "fetching"
  /\ "notCovered" \in Says[Source(c)]
  /\ Ends(c, Throws("notCovered"))
  /\ UNCHANGED <<now, cacheVars, mode, at, deadline, failed, late, got, merged, missing,
                 history>>

\* Only the merge walk looks at points.
Readable == IF mode = "merge" THEN Series ELSE {<<>>}

\* normalize reads the answer, or it does not and the verdict is stored.
FetchAnswers(c) ==
  /\ pc[c] = "fetching"
  /\ \/ \E kind \in {"good", "poor"} \cap Says[Source(c)] : \E points \in Readable :
          LET v == [kind |-> kind, points |-> points, born |-> now]
          IN Cache!SendUpsert(c, Source(c), v, Ttl)
     \/ /\ "negative" \in Says[Source(c)]
        /\ LET v == [kind |-> "negative", expires |-> now + NegativeTtl, born |-> now]
           IN Cache!SendUpsert(c, Source(c), v, NegativeTtl)
  /\ Goes(c, "storing")
  /\ UNCHANGED <<now, history>>

Sweeps(c) ==
  /\ pc[c] = "storing"
  /\ Cache!StartSweep(c)
  /\ UNCHANGED <<now, walkVars, history>>

AfterStore(c, v) ==
  \/ IsNegative(v) /\ GaveNothing(c)
  \/ ~IsNegative(v) /\ Use(c, v)

Later(a, b) == IF a > b THEN a ELSE b

Stored(c) ==
  /\ pc[c] = "storing"
  /\ Cache!Written(c)
  /\ AfterStore(c, stmt[c].row.value)
  /\ slowest' = Later(slowest, now - stmt[c].row.created)
  /\ UNCHANGED <<now, promised>>

\* Storing is best effort.
StoreFails(c) ==
  /\ pc[c] = "storing"
  /\ Cache!WriteFails(c)
  /\ AfterStore(c, stmt[c].row.value)
  /\ UNCHANGED <<now, history>>

WalkOver(c) == pc[c] = "walking" /\ at[c] > Len(Plan)

\* Mutant: what was left over is returned whatever happened on the other sources.
FirstEndLoosely(c) ==
  IF got[c] # <<>>
  THEN Returns("leftover", got[c][1].source, {})
  ELSE Throws(IF late[c] \/ ~InTime(c) THEN "deadline" ELSE "unavailable")

\* Nobody satisfied.  The first answer is returned only where nothing failed.
FirstEnd(c) ==
  IF got[c] # <<>> /\ ~failed[c]
  THEN Returns("leftover", got[c][1].source, {})
  ELSE Throws(IF late[c] \/ ~InTime(c) THEN "deadline" ELSE "unavailable")

\* The first source that contributed, or else the first that answered.
Author(c) ==
  LET contributing == {i \in DOMAIN got[c] : got[c][i].source \in Contributors(merged[c])}
  IN got[c][IF contributing = {} THEN 1 ELSE Min(contributing)].source

MergeEnd(c) ==
  CASE late[c] -> Throws("deadline")
    [] ~late[c] /\ got[c] = <<>> -> Throws("unavailable")
    [] ~late[c] /\ got[c] # <<>> /\ missing[c] # {} /\ Contributors(merged[c]) = {} ->
         Throws("unavailable")
    [] OTHER ->
         Returns("merged", Author(c), merged[c])

Finish(c) ==
  /\ WalkOver(c)
  /\ Ends(c, IF mode = "first" THEN FirstEnd(c) ELSE MergeEnd(c))
  /\ UNCHANGED <<now, cacheVars, mode, at, deadline, failed, late, got, merged, missing,
                 history>>

--------------------------------------------------------------------------------
(* The store and the world. *)

StoreApplies(c) ==
  /\ Cache!Apply(c)
  /\ UNCHANGED <<now, walkVars, slowest>>
  /\ Promises

HotEvicts(p, s) == Cache!Evict(p, s) /\ UNCHANGED <<now, walkVars, history>>

Tick ==
  /\ now < MaxTime
  /\ now' = now + 1
  /\ UNCHANGED <<cacheVars, walkVars, slowest>>
  /\ Promises

\* What the process does without an await: it runs to completion, and takes no time.
Runs(c) ==
  \/ TooLate(c) \/ SkipUnregistered(c) \/ SkipOffChain(c) \/ SkipUnavailable(c)
  \/ Look(c) \/ Finish(c)

\* What it does when an await is over.
Resumes(c) ==
  \/ FoundInRow(c) \/ DeletesRow(c) \/ Misses(c)
  \/ FetchFails(c) \/ FetchTimesOut(c) \/ FetchNotCovered(c) \/ FetchAnswers(c)
  \/ Sweeps(c) \/ Stored(c) \/ StoreFails(c)

Running == {c \in Calls : pc[c] = "walking"}

Next ==
  \/ \E c \in Running : Runs(c)
  \/ /\ Running = {}
     /\ \/ \E c \in Calls : Start(c) \/ Resumes(c) \/ StoreApplies(c)
        \/ \E p \in Procs : \E s \in Registered : HotEvicts(p, s)
        \/ Tick

Spec == Init /\ [][Next]_vars

--------------------------------------------------------------------------------
(* Properties *)

\* resolve, the single-winner walk (H-1): an answer that satisfies nobody is returned
\* only when every source that serves the chain answered and none of them satisfied,
\* and it is the answer of the first of them.
Serving == {Plan[i].source : i \in DOMAIN Plan} \cap Registered \cap OnChain
Ended(c, kind) == end[c] # None /\ end[c].kind = kind
EmptyIsTruthful ==
  \A c \in Calls : Ended(c, "leftover") =>
    /\ {got[c][i].source : i \in DOMAIN got[c]} = Serving
    /\ \A i \in DOMAIN got[c] : ~got[c][i].ok
    /\ \E i \in DOMAIN Plan :
         /\ Plan[i].source = end[c].source
         /\ \A j \in 1 .. i - 1 : Plan[j].source \notin Serving

\* L-1: what was stored, an answer or the verdict that one cannot be read, is not paid
\* for again by a call of any process: a source is not asked when a fresh row was there
\* from the look into the hot layer to the end of the lookup, unless the lookup failed
\* or the hot layer still holds a verdict that is over.
NotPaidAgain == \A c \in Calls : pc[c] = "fetching" => promised[c] = None

\* TwoLevelStore: whatever way an entry came into a hot layer, it lives no longer than
\* the TTL and the time its write took, and its age is known but for that time.
NoStaleHit ==
  \A p \in Procs : \A s \in Registered : hot[p][s] # None =>
    LET entry == hot[p][s]
    IN /\ entry.gone <= entry.value.born + Ttl + slowest
       /\ entry.created \in entry.value.born .. entry.value.born + slowest

\* The merge walk: of each slot the answer holds every point of the first source that
\* answered with one and satisfied the policy, and no other; a source whose points it
\* lacks is named; an answer without points has asked everybody; and there is none
\* after the deadline was met.
SaidBy(c, s) ==
  UNION {Tagged(s, a.points) : a \in {b \in ToSet(got[c]) : b.source = s /\ b.ok}}
PointsOf(c, i) ==
  {p \in SaidBy(c, Plan[i].source) :
     \A j \in 1 .. i - 1 : p.slot \notin FilledBy(SaidBy(c, Plan[j].source))}
MergeHonest ==
  \A c \in Calls : Ended(c, "merged") =>
    /\ end[c].points = UNION {PointsOf(c, i) : i \in DOMAIN Plan}
    /\ {Plan[i].source : i \in DOMAIN Plan}
         = missing[c] \cup {got[c][i].source : i \in DOMAIN got[c]}
    /\ end[c].points = {} => missing[c] = {}
    /\ ~late[c]

================================================================================
