----------------------------- MODULE SessionManager -----------------------------
(****************************************************************************)
(* The sessions of the HTTP transport: the map of live sessions             *)
(* (transport/session-manager.ts) and the part of the request listener that *)
(* opens, uses and ends them (transport/http.ts).  One process, one thread: *)
(* a step is what runs between two awaits.  A sweep awaits the release of   *)
(* each session it evicts, so sweeps of the interval and of several         *)
(* admissions interleave with each other and with requests.                 *)
(****************************************************************************)
EXTENDS Integers, FiniteSets

CONSTANTS
  Sessions,         \* initialize requests; each opens at most one session
  MaxSessions,      \* ONCHAIN_SESSION_MAX
  Idle,             \* ONCHAIN_SESSION_IDLE_MS, in ticks
  ResponseTimeout,  \* ONCHAIN_HTTP_RESPONSE_TIMEOUT_MS, in ticks
  Timers,           \* bound: sweeps of the interval that run at once
  MaxAdmitting,     \* bound: initialize requests between their count and register
  MaxTime,          \* bound: the last tick
  Stops,            \* may the transport be closed
  Closer,           \* the loop of shutdown
  Breaking,         \* bound: sessions with a transport or a server that may fail to close
  None

ASSUME SessionAssumption ==
  /\ IsFiniteSet(Sessions)
  /\ MaxSessions \in Nat \ {0} /\ MaxAdmitting \in Nat \ {0}
  /\ Idle \in Nat /\ ResponseTimeout \in Nat /\ MaxTime \in Nat
  /\ Stops \in BOOLEAN /\ Breaking \subseteq Sessions
  /\ None \notin Nat /\ None \notin Sessions
  /\ Timers \cap Sessions = {} /\ Closer \notin Sessions \cup Timers

\* The startup refuses any other configuration.
ASSUME assertResponseTimeoutFitsIdle == Idle > ResponseTimeout

VARIABLES
  now,        \* the clock
  lastSeen,   \* session -> lastSeenAtMs of its entry, or None: not in the map
  inFlight,   \* sessions with a request that waits for its response
  pc,         \* session -> where the request that opens it is
  stage,      \* "open", "closing" or "closed": close() of the transport
  todo,       \* sweep -> stale entries it has still to evict
  current,    \* sweep -> the session it is releasing, or None
  sweepNow,   \* sweep -> the time it took at its start
  released,   \* sessions whose server was told to close (history)
  reported,   \* sessions with a closeError in a session.evicted row (history)
  lost        \* sessions whose release failed in shutdown, which drops the error (history)

sweepVars == <<todo, current, sweepNow>>
ends == <<released, reported, lost>>
vars == <<now, lastSeen, inFlight, pc, stage, sweepVars, ends>>

\* An admission runs a sweep of its own, named after its session.
Sweeps == Sessions \cup Timers \cup {Closer}
PCs == {"new", "sweep", "count", "admitted", "open", "refused"}

TypeOK ==
  /\ now \in Nat
  /\ lastSeen \in [Sessions -> Nat \cup {None}]
  /\ inFlight \subseteq Sessions
  /\ pc \in [Sessions -> PCs]
  /\ stage \in {"open", "closing", "closed"}
  /\ todo \in [Sweeps -> SUBSET Sessions]
  /\ current \in [Sweeps -> Sessions \cup {None}]
  /\ sweepNow \in [Sweeps -> Nat]
  /\ released \subseteq Sessions /\ reported \subseteq Sessions /\ lost \subseteq Sessions

Init ==
  /\ now = 0
  /\ lastSeen = [s \in Sessions |-> None]
  /\ inFlight = {}
  /\ pc = [s \in Sessions |-> "new"]
  /\ stage = "open"
  /\ todo = [w \in Sweeps |-> {}]
  /\ current = [w \in Sweeps |-> None]
  /\ sweepNow = [w \in Sweeps |-> 0]
  /\ released = {} /\ reported = {} /\ lost = {}

Live == {s \in Sessions : lastSeen[s] # None}
Admitting == {s \in Sessions : pc[s] = "admitted"}

Stale(s) == lastSeen[s] # None /\ now - lastSeen[s] > Idle

StaleSessions == {s \in Sessions : Stale(s)}

Goto(s, place) == pc' = [pc EXCEPT ![s] = place]

--------------------------------------------------------------------------------
(* Sweeping *)

Working(w) == current[w] # None

\* The entry leaves the map first; its transport, whose streams end with it,
\* and its server are closed while the sweep waits.
Evict(w, s, rest) ==
  /\ lastSeen' = [lastSeen EXCEPT ![s] = None]
  /\ inFlight' = inFlight \ {s}
  /\ current' = [current EXCEPT ![w] = s]
  /\ todo' = [todo EXCEPT ![w] = rest]

\* A sweep takes the clock and the entries it will evict once, and evicts the
\* first.  (The code goes in map order; here any order may be the map's.)
Begin(w, S) ==
  /\ sweepNow' = [sweepNow EXCEPT ![w] = now]
  /\ IF S = {} THEN UNCHANGED <<lastSeen, inFlight, current, todo>>
     ELSE \E s \in S : Evict(w, s, S \ {s})

\* Mutant: the sweep returns after the first session it released.
ReturnEarly(w) ==
  /\ current' = [current EXCEPT ![w] = None]
  /\ todo' = [todo EXCEPT ![w] = {}]
  /\ pc' = [s \in Sessions |-> IF s = w THEN "count" ELSE pc[s]]
  /\ stage' = IF w = Closer THEN "closed" ELSE stage
  /\ UNCHANGED <<lastSeen, inFlight>>

\* Its last release is done and written to the diagnostics: the sweep returns.
Return(w) ==
  /\ todo[w] = {}
  /\ current' = [current EXCEPT ![w] = None]
  /\ pc' = [s \in Sessions |-> IF s = w THEN "count" ELSE pc[s]]
  /\ stage' = IF w = Closer THEN "closed" ELSE stage
  /\ UNCHANGED <<lastSeen, inFlight, todo>>

\* The next entry of the list is evicted, whatever became of it meanwhile.
EvictNext(w) ==
  /\ \E s \in todo[w] : Evict(w, s, todo[w] \ {s})
  /\ UNCHANGED <<pc, stage>>

\* Mutant: a sweep drops the error too.
ReleaseDropped(w, transportCloses, serverCloses) ==
  LET fails == ~(transportCloses /\ serverCloses)
      add(here, set) == IF here THEN set \cup {current[w]} ELSE set
  IN  /\ released' = add(transportCloses, released)
      /\ lost' = add(fails /\ w = Closer, lost)
      /\ UNCHANGED reported

\* The transport is closed, then the server: one that throws ends the release,
\* so behind a transport that throws the server is not even told.  A sweep
\* reports the error; shutdown does not look at it.
Release(w, transportCloses, serverCloses) ==
  LET fails == ~(transportCloses /\ serverCloses)
      add(here, set) == IF here THEN set \cup {current[w]} ELSE set
  IN  /\ released' = add(transportCloses, released)
      /\ reported' = add(fails /\ w # Closer, reported)
      /\ lost' = add(fails /\ w = Closer, lost)

\* The release of one session ends, well or not: the sweep goes on either way.
Continue(w) ==
  /\ Working(w)
  /\ \E transportCloses, serverCloses \in (IF current[w] \in Breaking THEN BOOLEAN ELSE {TRUE}) :
       Release(w, transportCloses, serverCloses)
  /\ Return(w) \/ EvictNext(w)
  /\ UNCHANGED <<now, sweepNow>>

\* Mutant: the timer is a timeout, so it fires once.
TimerSweepOnce(w) ==
  /\ stage = "open"
  /\ ~Working(w)
  /\ sweepNow[w] = 0
  /\ Begin(w, StaleSessions)
  /\ UNCHANGED <<now, pc, stage, ends>>

\* The interval fires whether or not its last sweep is done; it is cleared when
\* the transport starts to close.
TimerSweep(w) ==
  /\ stage = "open"
  /\ ~Working(w)
  /\ Begin(w, StaleSessions)
  /\ UNCHANGED <<now, pc, stage, ends>>

--------------------------------------------------------------------------------
(* Requests *)

\* An initialize request, authenticated, asks for admission.
Admit(s) ==
  /\ pc[s] = "new"
  /\ stage # "closed"
  /\ Begin(s, StaleSessions)
  /\ Goto(s, IF StaleSessions = {} THEN "count" ELSE "sweep")
  /\ UNCHANGED <<now, stage, ends>>

\* Mutant: the ceiling is off by one.
CountOffByOne(s) ==
  /\ pc[s] = "count"
  /\ Cardinality(Live) <= MaxSessions
  /\ Cardinality(Admitting) < MaxAdmitting
  /\ Goto(s, "admitted")
  /\ UNCHANGED <<now, lastSeen, inFlight, stage, sweepVars, ends>>

Count(s) ==
  /\ pc[s] = "count"
  /\ Cardinality(Live) < MaxSessions
  /\ Cardinality(Admitting) < MaxAdmitting
  /\ Goto(s, "admitted")
  /\ UNCHANGED <<now, lastSeen, inFlight, stage, sweepVars, ends>>

Refuse(s) ==
  /\ pc[s] = "count"
  /\ Cardinality(Live) >= MaxSessions
  /\ Goto(s, "refused")
  /\ UNCHANGED <<now, lastSeen, inFlight, stage, sweepVars, ends>>

\* The transport issues the session id, after server.connect was awaited.
Register(s) ==
  /\ pc[s] = "admitted"
  /\ lastSeen' = [lastSeen EXCEPT ![s] = now]
  /\ inFlight' = inFlight \cup {s}
  /\ Goto(s, "open")
  /\ UNCHANGED <<now, stage, sweepVars, ends>>

\* The transport refuses the request itself: no session id was issued.
InitializeFails(s) ==
  /\ pc[s] = "admitted"
  /\ Goto(s, "refused")
  /\ UNCHANGED <<now, lastSeen, inFlight, stage, sweepVars, ends>>

\* Any inbound message that names a session in the map.
Request(s) ==
  /\ lastSeen[s] # None
  /\ stage # "closed"
  /\ lastSeen' = [lastSeen EXCEPT ![s] = now]
  /\ inFlight' = inFlight \cup {s}
  /\ UNCHANGED <<now, pc, stage, sweepVars, ends>>

\* The requests of a session are answered, or the response clock closes them.
Respond(s) ==
  /\ s \in inFlight
  /\ inFlight' = inFlight \ {s}
  /\ UNCHANGED <<now, lastSeen, pc, stage, sweepVars, ends>>

\* DELETE, or a transport that closed for another reason.
Forget(s) ==
  /\ lastSeen[s] # None
  /\ lastSeen' = [lastSeen EXCEPT ![s] = None]
  /\ inFlight' = inFlight \ {s}
  /\ released' = released \cup {s}
  /\ UNCHANGED <<now, pc, stage, sweepVars, reported, lost>>

\* close(): the sessions of this moment are released one after the other, and
\* only then does the listener stop accepting requests.
Shutdown ==
  /\ Stops /\ stage = "open"
  /\ Begin(Closer, Live)
  /\ stage' = IF Live = {} THEN "closed" ELSE "closing"
  /\ UNCHANGED <<now, pc, ends>>

\* Time passes; the response clock of a request fires before it is overrun.
Tick ==
  /\ now < MaxTime
  /\ \A s \in inFlight : now - lastSeen[s] < ResponseTimeout
  /\ now' = now + 1
  /\ UNCHANGED <<lastSeen, inFlight, pc, stage, sweepVars, ends>>

Next ==
  \/ \E s \in Sessions :
       Admit(s) \/ Count(s) \/ Refuse(s) \/ Register(s) \/ InitializeFails(s)
         \/ Request(s) \/ Respond(s) \/ Forget(s)
  \/ \E w \in Sweeps : Continue(w)
  \/ \E w \in Timers : TimerSweep(w)
  \/ Shutdown \/ Tick

Spec == Init /\ [][Next]_vars

\* The interval keeps firing and a release it awaits ends; clients owe nothing.
LiveSpec ==
  /\ Spec
  /\ \A w \in Timers : WF_vars(TimerSweep(w))
  /\ \A w \in Sweeps : WF_vars(Continue(w))

--------------------------------------------------------------------------------
(* Properties *)

\* A session is in the map only between its registration and its end.
LiveIsOpen == \A s \in Sessions : lastSeen[s] # None => pc[s] = "open"

\* Times are of the past.
PastTimes ==
  /\ \A s \in Live : lastSeen[s] <= now
  /\ \A w \in Sweeps : sweepNow[w] <= now

\* An admission waits for its sweep, and shutdown for its loop.
SweepsAwaited ==
  /\ \A s \in Sessions : Working(s) <=> pc[s] = "sweep"
  /\ Working(Closer) => stage = "closing"
  /\ \A w \in Sweeps : current[w] # None => pc[current[w]] = "open"
  /\ \A w \in Sweeps : \A s \in todo[w] : pc[s] = "open"

\* What was past the timeout when the sweep of an admission began is gone, or
\* still on its list.
Unswept ==
  \A s \in Sessions : pc[s] = "sweep" =>
    \A t \in Live : sweepNow[s] - lastSeen[t] > Idle => t \in todo[s]

\* The ceiling is exceeded only by admissions that counted before another one
\* registered: one at a time keeps it exactly (admit and register).
CeilingWithinAdmitting ==
  Cardinality(Live) + Cardinality(Admitting) <= MaxSessions + MaxAdmitting - 1

\* An abandoned session cannot deny service: when an admission counts, no entry
\* in the map was already past the timeout when its sweep began.
NoIdleAtCount ==
  \A s \in Sessions : pc[s] = "count" =>
    \A t \in Live : sweepNow[s] - lastSeen[t] <= Idle

\* The session map with its inductive strengthening: typed, live sessions are
\* open ones, and an admission never counts before its sweep did its work.
IndInv ==
  /\ TypeOK /\ LiveIsOpen /\ PastTimes /\ SweepsAwaited
  /\ Unswept /\ NoIdleAtCount

\* No session leaves the map unnoticed: its server was told to close, or a sweep
\* is at it, or a row says that its release failed.  The last is what is left of
\* a session whose transport throws, for its server stays open; and where that
\* happens in shutdown not even the row is written.
NothingLeaks ==
  \A s \in Sessions : pc[s] = "open" /\ lastSeen[s] = None =>
    s \in released \cup reported \cup lost \/ \E w \in Sweeps : current[w] = s

\* The response clock ends a request before its session can be listed as idle
\* (assertResponseTimeoutFitsIdle).
InFlightIsFresh == \A s \in inFlight : ~Stale(s)

\* A session nobody talks to leaves the map, unless the transport closes.
IdleIsEvicted ==
  \A s \in Sessions : (stage = "open" /\ Stale(s)) ~> (~Stale(s) \/ stage # "open")

================================================================================
