---------------------------- MODULE BlockscoutCall ----------------------------
(****************************************************************************)
(* A request of the blockscout adapter (adapters/blockscout/index.ts): the  *)
(* daily call gate (call-gate.ts) over the ledger of BudgetStore, the rate  *)
(* limiter, safeFetch, and what the adapter makes of the response.          *)
(* Requests of several processes share the ledger; each process may have    *)
(* narrowed its ceiling.  The limiter is seen from here by its three        *)
(* outcomes; RateLimit is its own model.                                    *)
(****************************************************************************)
EXTENDS BudgetStore, FiniteSets

CONSTANTS
  Requests,
  Procs,
  ProcOf,         \* request -> its process
  DeclaredCeiling,\* dailyCallCeiling of the registration
  Override,       \* process -> dailyCallCeilingOverride, or None
  StoreFaults,    \* subset of {"refuses", "throws", "lost"}: what checkAndReserve may do
  Start, Secret, Deadline, Timeout, ConnectBound, MaxRedirects, MaxBytes, Allowlist,
  Locations, Lengths, Chunks, Unparseable, NonBinary

ASSUME CallAssumption ==
  /\ ProcOf \in [Requests -> Procs]
  /\ DeclaredCeiling \in Nat \ {0}
  /\ Override \in [Procs -> Nat \cup {None}]
  /\ Timeout \in Nat \ {0} /\ MaxRedirects \in Nat /\ MaxBytes \in Nat
  /\ IsFiniteSet(Requests)
  /\ Deadline \in [Requests -> Nat \cup {None}]
  /\ None \notin {"blocked", "deadline", "timeout", "redirects"}

VARIABLES
  now, leg, place, keeps, followed, hopAt, status, seen, result, wire,
  stage,      \* request -> "idle", "gating", "queued", "fetching", "done"
  day,        \* request -> the day it was counted on, or None
  nth,        \* request -> which call of that day the ledger made it (history), or 0
  answer      \* request -> what request() returned or threw, or None

fetchVars == <<leg, place, keeps, followed, hopAt, status, seen, result, wire>>
callVars == <<stage, day, nth, answer>>
vars == <<now, storeVars, fetchVars, callVars>>

Fetch == INSTANCE SafeFetch WITH Fetches <- Requests

Smaller(a, b) == IF a < b THEN a ELSE b

\* createCallGate: an override may only narrow.
CeilingInForce(p) ==
  IF Override[p] = None THEN DeclaredCeiling ELSE Smaller(DeclaredCeiling, Override[p])

Init ==
  /\ now = 0
  /\ StoreInit
  /\ Fetch!FetchInit
  /\ stage = [r \in Requests |-> "idle"]
  /\ day = [r \in Requests |-> None]
  /\ nth = [r \in Requests |-> 0]
  /\ answer = [r \in Requests |-> None]

Goes(r, where) ==
  /\ stage' = [stage EXCEPT ![r] = where]
  /\ UNCHANGED answer

Ends(r, what) ==
  /\ stage' = [stage EXCEPT ![r] = "done"]
  /\ answer' = [answer EXCEPT ![r] = what]

--------------------------------------------------------------------------------
(* ensureCallBudget *)

\* The day is read from the clock before the statement is sent.
AskGate(r) ==
  /\ stage[r] = "idle"
  /\ Goes(r, "gating")
  /\ day' = [day EXCEPT ![r] = Day(now)]
  /\ UNCHANGED <<now, storeVars, fetchVars, nth>>

\* Mutant: the larger of two ceilings is in force.
HasCallByDeclared(r) == Admits(day[r], 0, None, DeclaredCeiling, None, None, None)

\* A call costs no credits; only the count of the day can refuse it.
HasCall(r) == Admits(day[r], 0, None, CeilingInForce(ProcOf[r]), None, None, None)

Admitted(r) ==
  /\ stage[r] = "gating"
  /\ HasCall(r)
  /\ Reserve(day[r], 0, None)
  /\ nth' = [nth EXCEPT ![r] = usage[day[r]].calls + 1]
  /\ \/ Goes(r, "queued")
     \/ "lost" \in StoreFaults /\ Ends(r, "storeError")
  /\ UNCHANGED <<now, fetchVars, day>>

Exhausted(r) ==
  /\ stage[r] = "gating"
  /\ ~HasCall(r)
  /\ Ends(r, "ceiling")
  /\ UNCHANGED <<now, storeVars, fetchVars, day, nth>>

\* The ledger refuses for a reason of its own, or fails.
GateUnavailable(r) ==
  /\ stage[r] = "gating"
  /\ \/ "refuses" \in StoreFaults /\ Ends(r, "gateUnavailable")
     \/ "throws" \in StoreFaults /\ Ends(r, "storeError")
  /\ UNCHANGED <<now, storeVars, fetchVars, day, nth>>

--------------------------------------------------------------------------------
(* throttle, then safeFetch *)

LimiterRefuses(r) ==
  /\ stage[r] = "queued"
  /\ \/ Ends(r, "limiter")
     \/ Fetch!Spent(r) /\ Ends(r, "deadline")
  /\ UNCHANGED <<now, storeVars, fetchVars, day, nth>>

SendsRequest(r) ==
  /\ stage[r] = "queued"
  /\ Fetch!Begin(r)
  /\ Goes(r, "fetching")
  /\ UNCHANGED <<storeVars, day, nth>>

PassesThrough == {"blocked", "deadline", "timeout", "connect", "tooLarge", "redirects"}

\* Errors of the transport keep their class; others are wrapped, and an error of the body
\* is wrapped whatever it was.
AnswerOf(how, kind) ==
  CASE kind # None /\ how # "answer" -> "unreadable"
    [] kind # None /\ how = "answer" -> "body"
    [] kind = None /\ how \in PassesThrough -> how
    [] OTHER -> "transport"

\* safeFetch ends; with a response that is no answer its body is cancelled.
Returns(r) ==
  /\ stage[r] = "fetching"
  /\ \/ leg[r] = "done" /\ Ends(r, AnswerOf(result[r], status[r]))
     \/ leg[r] = "reading" /\ status[r] = "degraded" /\ Ends(r, "degraded")
     \/ leg[r] = "reading" /\ status[r] = "error" /\ Ends(r, "httpError")
  /\ UNCHANGED <<now, storeVars, fetchVars, day, nth>>

\* Only the body of a good response is read.
Wants(r) ==
  /\ stage[r] = "fetching"
  /\ leg[r] = "wire" \/ (leg[r] = "reading" /\ status[r] = "ok")

FetchGoesOn(r) ==
  /\ Wants(r)
  /\ \/ Fetch!HopTimerFires(r) \/ Fetch!DeadlineFires(r) \/ Fetch!RuntimeFails(r)
     \/ Fetch!Responds(r) \/ Fetch!Piece(r) \/ Fetch!EndOfBody(r) \/ Fetch!BodyBreaks(r)
  /\ UNCHANGED <<storeVars, callVars>>

Tick ==
  /\ now < MaxTime
  /\ now' = now + 1
  /\ UNCHANGED <<storeVars, fetchVars, callVars>>

Next ==
  \/ \E r \in Requests :
       \/ AskGate(r) \/ Admitted(r) \/ Exhausted(r) \/ GateUnavailable(r)
       \/ LimiterRefuses(r) \/ SendsRequest(r) \/ FetchGoesOn(r)
       \/ Returns(r)
  \/ Tick

Spec == Init /\ [][Next]_vars

--------------------------------------------------------------------------------
(* Properties *)

\* Counted by the ledger: admitted, on that day.
Passed(r) ==
  \/ stage[r] \in {"queued", "fetching"}
  \/ stage[r] = "done" /\ answer[r] \notin {"ceiling", "gateUnavailable", "storeError"}
Counted(d) == {r \in Requests : Passed(r) /\ day[r] = d}

\* call-gate (R-9): every request that reached a vendor was counted before, on one day,
\* whatever became of it; the count is never less than what went past the gate and never
\* more than what asked; and a process that has narrowed its ceiling lets nothing past a
\* count above it, even where others have counted further.
CallsCounted ==
  /\ \A h \in wire : day[h.fetch] # None /\ h.fetch \in Counted(day[h.fetch])
  /\ \A d \in Days :
       /\ Cardinality(Counted(d)) <= usage[d].calls
       /\ usage[d].calls <= Cardinality({r \in Requests : day[r] = d})
  /\ \A r \in Requests : Passed(r) => nth[r] \in 1 .. CeilingInForce(ProcOf[r])

\* safeFetch: see CauseNamed and SecretStaysHome of SafeFetch.
CauseNamed == Fetch!CauseNamed
SecretStaysHome == Fetch!SecretStaysHome
================================================================================
