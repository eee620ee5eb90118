------------------------------ MODULE NansenBudget ------------------------------
(****************************************************************************)
(* The credit budget of the one paid provider.  Every paid call of every    *)
(* server process passes the gate (adapters/nansen/budget-gate.ts), sends   *)
(* its sub-calls to the vendor one after the other and reconciles what the  *)
(* vendor reports against what it reserved (adapters/nansen/reconcile.ts,   *)
(* the fetch of adapters/nansen/index.ts).  The ledger is shared by the     *)
(* processes; the account snapshot and the unreconciled flag                *)
(* (adapters/nansen/account-state.ts) live in the memory of one process.    *)
(*                                                                          *)
(* A step is what runs between two awaits.  Each call is one coalesced      *)
(* leader: identical calls are merged before the gate.  Log lines, the      *)
(* budget warning and the receipt sent to the request trace change no state *)
(* of these components and are left out.                                    *)
(****************************************************************************)
EXTENDS BudgetStore, FiniteSets, Functions

CONSTANTS
  Calls,              \* the paid calls of the run
  Procs,              \* server processes sharing the ledger
  ProcOf,             \* call -> process
  Plans,              \* the account plans a price depends on
  Cost,               \* call -> plan -> credits, or Unpriced
  Unpriced,           \* Number.POSITIVE_INFINITY: an unknown price
  SubCalls,           \* call -> number of vendor requests it makes
  Bills,              \* call -> what one of its requests may be billed
  Misreports,         \* amounts a header may carry besides the billed one
  BadHeader,          \* a missing, blank, negative or non-integer header
  OpeningBalances,    \* possible vendor balances at start
  DailyCreditCap,     \* Nat, Off or Derived (NANSEN_DAILY_CREDIT_CAP)
  VelocityCap,        \* Nat, Off or Derived (NANSEN_VELOCITY_CREDITS_PER_MIN)
  MaxCallsPerWindow,  \* Nat, or None when it is configured off
  Off, Derived,
  Faults              \* the failures of this run, a subset of FaultKinds

\* account: /account fails; limiter: a request is refused before it is sent;
\* lost: a billed request whose answer never arrives; header: an unreadable
\* header; store: a ledger call throws; crash: a process dies.
FaultKinds == {"account", "limiter", "lost", "header", "store", "crash"}

ASSUME CallAssumption ==
  /\ ProcOf \in [Calls -> Procs]
  /\ Cost \in [Calls -> [Plans -> Nat \cup {Unpriced}]]
  /\ SubCalls \in [Calls -> Nat \ {0}]
  /\ Bills \in [Calls -> SUBSET Nat]
  /\ Misreports \subseteq Nat /\ OpeningBalances \subseteq Nat
  /\ Unpriced \notin Int /\ BadHeader \notin Int

ASSUME LimitAssumption ==
  /\ DailyCreditCap \in Nat \cup {Off, Derived}
  /\ VelocityCap \in Nat \cup {Off, Derived}
  /\ MaxCallsPerWindow \in Nat \cup {None}
  /\ Off \notin Int /\ Derived \notin Int /\ Off # Derived
  /\ Faults \subseteq FaultKinds

VARIABLES
  now,                \* the wall clock
  snapshot,           \* process -> last account observation, or None
  unreconciled,       \* process -> "the local counter is not to be trusted"
  pc,                 \* call -> where its control is
  bucket,             \* call -> the day fixed when it entered the gate
  usageAtObserve,     \* call -> the ledger it read before asking /account
  offered,            \* call -> the balance and plan /account answered with
  ceiling,            \* call -> the effective ceiling it was priced under
  reservedTotal,      \* call -> credits it reserves
  window,             \* call -> the window it reserves in, or None
  answered,           \* call -> sub-responses received
  pending,            \* call -> what the request in flight was billed
  reported,           \* call -> sum of the headers, or BadHeader
  failed,             \* call -> its catch path is running
  delta,              \* call -> the correction it is about to record
  reservation,        \* call -> what the ledger holds for it
  overrun,            \* day -> credits corrected upwards (history variable)
  doubtful,           \* processes and calls whose last observation of the
                      \* account is older than a flag raised (history variable)
  creditsRemaining,   \* the vendor's balance (external)
  billed              \* call -> what the vendor charged for it (external)

accountVars == <<snapshot, unreconciled, doubtful>>
gateVars == <<bucket, usageAtObserve, offered, ceiling, reservedTotal, window>>
spendVars == <<answered, pending, reported, failed, delta>>
vendorVars == <<creditsRemaining, billed>>
ledgerVars == <<usage, usageWindow, reservation, overrun>>
vars == <<now, accountVars, pc, gateVars, spendVars, vendorVars, ledgerVars>>

PCs == {"idle", "observe", "ask", "answer", "price", "store",
        "send", "wait", "settle", "record", "done"}

Limits == Int \cup {None}
Snapshots == [plan : Plans, remaining : Nat, usage : Int, day : Days, cap : Limits]

ASSUME SnapshotAssumption == None \notin Snapshots

TypeOK ==
  /\ StoreTypeOK
  /\ now \in Times
  /\ snapshot \in [Procs -> Snapshots \cup {None}]
  /\ unreconciled \in [Procs -> BOOLEAN]
  /\ pc \in [Calls -> PCs]
  /\ bucket \in [Calls -> Days]
  /\ usageAtObserve \in [Calls -> Int]
  /\ offered \in [Calls -> [remaining : Nat, plan : Plans]]
  /\ ceiling \in [Calls -> Int]
  /\ reservedTotal \in [Calls -> Nat]
  /\ window \in [Calls -> Windows \cup {None}]
  /\ answered \in [Calls -> Nat]
  /\ pending \in [Calls -> Nat]
  /\ reported \in [Calls -> Nat \cup {BadHeader}]
  /\ failed \in [Calls -> BOOLEAN]
  /\ delta \in [Calls -> Int]
  /\ reservation \in [Calls -> {"none", "held", "closed"}]
  /\ overrun \in [Days -> Nat]
  /\ doubtful \subseteq (Calls \cup Procs)
  /\ creditsRemaining \in Nat
  /\ billed \in [Calls -> Nat]

Init ==
  /\ StoreInit
  /\ now = 0
  /\ snapshot = [p \in Procs |-> None]
  /\ unreconciled = [p \in Procs |-> FALSE]
  /\ pc = [c \in Calls |-> "idle"]
  /\ bucket = [c \in Calls |-> Day(0)]
  /\ usageAtObserve = [c \in Calls |-> 0]
  /\ \E plan \in Plans :
       offered = [c \in Calls |-> [remaining |-> 0, plan |-> plan]]
  /\ ceiling = [c \in Calls |-> 0]
  /\ reservedTotal = [c \in Calls |-> 0]
  /\ window = [c \in Calls |-> None]
  /\ answered = [c \in Calls |-> 0]
  /\ pending = [c \in Calls |-> 0]
  /\ reported = [c \in Calls |-> 0]
  /\ failed = [c \in Calls |-> FALSE]
  /\ delta = [c \in Calls |-> 0]
  /\ reservation = [c \in Calls |-> "none"]
  /\ overrun = [d \in Days |-> 0]
  /\ doubtful = {}
  /\ creditsRemaining \in OpeningBalances
  /\ billed = [c \in Calls |-> 0]

--------------------------------------------------------------------------------
(* Ceilings (budget-gate.ts) *)

Smaller(a, b) == IF a <= b THEN a ELSE b
Larger(a, b) == IF a >= b THEN a ELSE b

DerivedCapFloor == 30
VelocityFloor == 100

\* max(30, floor(25% of the balance at the start of the bucket))
DeriveDailyCap(bucketStartBalance) ==
  Larger(DerivedCapFloor, bucketStartBalance \div 4)

ResolveDailyCap(bucketStartBalance) ==
  CASE DailyCreditCap = Off -> None
    [] DailyCreditCap = Derived -> DeriveDailyCap(bucketStartBalance)
    [] OTHER -> DailyCreditCap

\* A configured cap is read directly, a derived one from the pinned snapshot.
CapInForce(s) ==
  CASE DailyCreditCap = Off -> None
    [] DailyCreditCap = Derived -> s.cap
    [] OTHER -> DailyCreditCap

EffectiveCeiling(s) ==
  LET vendorCeiling == s.usage + s.remaining
  IN  IF CapInForce(s) = None THEN vendorCeiling
      ELSE Smaller(vendorCeiling, CapInForce(s))

VelocityCeiling(effectiveCeiling) ==
  CASE VelocityCap = Off -> None
    [] VelocityCap = Derived -> Larger(VelocityFloor, effectiveCeiling \div 20)
    [] OTHER -> VelocityCap

\* With both velocity limits off the ledger gets no window at all.
WindowNow ==
  IF VelocityCap = Off /\ MaxCallsPerWindow = None THEN None ELSE Window(now)

NeedsResync(p, day) ==
  snapshot[p] # None => (snapshot[p].day # day \/ unreconciled[p])

--------------------------------------------------------------------------------
(* The gate: ensureBudget and refreshAccount *)

Goto(c, where) == pc' = [pc EXCEPT ![c] = where]

\* Every observation made so far in this process is now in doubt, the ones
\* whose answer has not arrived yet included.
MarkUnreconciled(p) ==
  /\ unreconciled' = [unreconciled EXCEPT ![p] = TRUE]
  /\ doubtful' = doubtful \cup {p}
                  \cup {c \in Calls : ProcOf[c] = p /\ pc[c] = "answer"}

\* Price the call under the snapshot in force and hand it to the store.
Price(c) ==
  LET s == snapshot[ProcOf[c]]
      cost == Cost[c][s.plan]
  IN  \/ /\ cost = Unpriced
         /\ Goto(c, "done")
         /\ UNCHANGED <<ceiling, reservedTotal, window>>
      \/ /\ cost # Unpriced
         /\ ceiling' = [ceiling EXCEPT ![c] = EffectiveCeiling(s)]
         /\ reservedTotal' = [reservedTotal EXCEPT ![c] = cost]
         /\ window' = [window EXCEPT ![c] = WindowNow]
         /\ Goto(c, "store")

\* A call enters the gate.  Its day is fixed here and never read again; a
\* trusted snapshot of that day is priced without an await in between.
EnsureBudget(c) ==
  /\ pc[c] = "idle"
  /\ bucket' = [bucket EXCEPT ![c] = Day(now)]
  /\ \/ /\ NeedsResync(ProcOf[c], Day(now))
        /\ Goto(c, "observe")
        /\ UNCHANGED <<ceiling, reservedTotal, window>>
     \/ /\ ~NeedsResync(ProcOf[c], Day(now))
        /\ Price(c)
  /\ UNCHANGED <<now, accountVars, usageAtObserve, offered, spendVars,
                 vendorVars, ledgerVars>>

\* refreshAccount reads the local counter before the round trip ...
ReadUsage(c) ==
  /\ pc[c] = "observe"
  /\ usageAtObserve' = [usageAtObserve EXCEPT ![c] = usage[bucket[c]].credits]
  /\ Goto(c, "ask")
  /\ UNCHANGED <<now, accountVars, bucket, offered, ceiling, reservedTotal,
                 window, spendVars, vendorVars, ledgerVars>>

\* ... the vendor answers with its balance of that moment ...
AskAccount(c) ==
  /\ pc[c] = "ask"
  /\ \E plan \in Plans :
       offered' = [offered EXCEPT ![c] =
                     [remaining |-> creditsRemaining, plan |-> plan]]
  /\ doubtful' = doubtful \ {c}
  /\ Goto(c, "answer")
  /\ UNCHANGED <<now, snapshot, unreconciled, bucket, usageAtObserve, ceiling,
                 reservedTotal, window, spendVars, vendorVars, ledgerVars>>

\* Mutant: every refresh derives the cap anew.
AccountAnswersUnpinned(c) ==
  /\ pc[c] = "answer"
  /\ snapshot' = [snapshot EXCEPT ![ProcOf[c]] =
       [plan |-> offered[c].plan,
        remaining |-> offered[c].remaining,
        usage |-> usageAtObserve[c],
        day |-> bucket[c],
        cap |-> ResolveDailyCap(usageAtObserve[c] + offered[c].remaining)]]
  /\ unreconciled' = [unreconciled EXCEPT ![ProcOf[c]] = FALSE]
  /\ doubtful' = IF c \in doubtful THEN doubtful \cup {ProcOf[c]}
                 ELSE doubtful \ {ProcOf[c]}
  /\ Goto(c, "price")
  /\ UNCHANGED <<now, gateVars, spendVars, vendorVars, ledgerVars>>

\* ... and the answer replaces the snapshot of the process and clears its flag,
\* whoever set it.  The cap derived first for a bucket is carried over.
AccountAnswers(c) ==
  LET p == ProcOf[c]
      previous == snapshot[p]
      pinned == previous # None /\ previous.day = bucket[c]
  IN  /\ pc[c] = "answer"
      /\ snapshot' = [snapshot EXCEPT ![p] =
           [plan |-> offered[c].plan,
            remaining |-> offered[c].remaining,
            usage |-> usageAtObserve[c],
            day |-> bucket[c],
            cap |-> IF pinned THEN previous.cap
                    ELSE ResolveDailyCap(usageAtObserve[c] + offered[c].remaining)]]
      /\ unreconciled' = [unreconciled EXCEPT ![p] = FALSE]
      /\ doubtful' = IF c \in doubtful THEN doubtful \cup {p} ELSE doubtful \ {p}
      /\ Goto(c, "price")
      /\ UNCHANGED <<now, gateVars, spendVars, vendorVars, ledgerVars>>

\* The counter cannot be read, the limiter or the deadline stops the refresh,
\* or /account answers with an error or an unusable balance.
AccountFails(c) ==
  /\ "account" \in Faults
  /\ pc[c] \in {"observe", "ask", "answer"}
  /\ Goto(c, "done")
  /\ UNCHANGED <<now, accountVars, gateVars, spendVars, vendorVars, ledgerVars>>

\* ensureBudget resumes after the refresh: another call of the process may have
\* replaced the snapshot in between.
PriceAfterRefresh(c) ==
  /\ pc[c] = "price"
  /\ Price(c)
  /\ UNCHANGED <<now, accountVars, bucket, usageAtObserve, offered, spendVars,
                 vendorVars, ledgerVars>>

ReserveFor(c) ==
  /\ Reserve(bucket[c], reservedTotal[c], window[c])
  /\ reservation' = [reservation EXCEPT ![c] = "held"]

\* Mutant: the ceiling is compared with the price and not with the ledger.
AdmitsPrice(c) == reservedTotal[c] <= ceiling[c]

\* Mutant: the calls of the window are not counted.
AdmitsAnyCount(c) ==
  Admits(bucket[c], reservedTotal[c], ceiling[c], None,
         window[c], VelocityCeiling(ceiling[c]), None)

AdmitsCall(c) ==
  Admits(bucket[c], reservedTotal[c], ceiling[c], None,
         window[c], VelocityCeiling(ceiling[c]), MaxCallsPerWindow)

CheckAndReserve(c) ==
  /\ pc[c] = "store"
  /\ AdmitsCall(c)
  /\ ReserveFor(c)
  /\ Goto(c, "send")
  /\ UNCHANGED <<now, accountVars, gateVars, spendVars, vendorVars, overrun>>

\* NansenBudgetExceededError: nothing was written.
RefuseReservation(c) ==
  /\ pc[c] = "store"
  /\ ~AdmitsCall(c)
  /\ Goto(c, "done")
  /\ UNCHANGED <<now, accountVars, gateVars, spendVars, vendorVars, ledgerVars>>

\* checkAndReserve throws.  SQLite wrote nothing; a COMMIT that outlives the
\* in-process bound of pg/state-client.ts may have been applied all the same.
ReserveThrows(c) ==
  /\ "store" \in Faults
  /\ pc[c] = "store"
  /\ \/ AdmitsCall(c) /\ ReserveFor(c)
     \/ UNCHANGED <<usage, usageWindow, reservation>>
  /\ Goto(c, "done")
  /\ UNCHANGED <<now, accountVars, gateVars, spendVars, vendorVars, overrun>>

--------------------------------------------------------------------------------
(* The paid requests: performSubCalls *)

\* One request reaches the vendor, which charges it at once.
SendSubCall(c) ==
  /\ pc[c] = "send"
  /\ \E bill \in Bills[c] :
       /\ bill <= creditsRemaining
       /\ creditsRemaining' = creditsRemaining - bill
       /\ billed' = [billed EXCEPT ![c] = @ + bill]
       /\ pending' = [pending EXCEPT ![c] = bill]
  /\ Goto(c, "wait")
  /\ UNCHANGED <<now, accountVars, gateVars, answered, reported, failed, delta,
                 ledgerVars>>

Headers(c) ==
  {pending[c]} \cup Misreports
    \cup (IF "header" \in Faults THEN {BadHeader} ELSE {})

AddHeader(total, header) ==
  IF total = BadHeader \/ header = BadHeader THEN BadHeader ELSE total + header

\* Its answer arrives; the next request is sent only now.
SubCallAnswers(c) ==
  /\ pc[c] = "wait"
  /\ \E header \in Headers(c) :
       reported' = [reported EXCEPT ![c] = AddHeader(@, header)]
  /\ answered' = [answered EXCEPT ![c] = @ + 1]
  /\ Goto(c, IF answered[c] + 1 = SubCalls[c] THEN "settle" ELSE "send")
  /\ UNCHANGED <<now, accountVars, gateVars, pending, failed, delta, vendorVars,
                 ledgerVars>>

\* Mutant: a request that was sent is waited for without a timer.
SubCallFailsUnsent(c) ==
  /\ pc[c] = "send"
  /\ "limiter" \in Faults \/ \A bill \in Bills[c] : bill > creditsRemaining
  /\ failed' = [failed EXCEPT ![c] = TRUE]
  /\ Goto(c, "settle")
  /\ UNCHANGED <<now, accountVars, gateVars, answered, pending, reported, delta,
                 vendorVars, ledgerVars>>

\* A request is not sent, is refused unbilled (402), or its answer is lost after
\* the vendor charged it: all of them throw out of performSubCalls.
SubCallFails(c) ==
  /\ \/ pc[c] = "send" /\ \/ "limiter" \in Faults
                          \/ \A bill \in Bills[c] : bill > creditsRemaining
     \/ pc[c] = "wait" /\ "lost" \in Faults
  /\ failed' = [failed EXCEPT ![c] = TRUE]
  /\ Goto(c, "settle")
  /\ UNCHANGED <<now, accountVars, gateVars, answered, pending, reported, delta,
                 vendorVars, ledgerVars>>

--------------------------------------------------------------------------------
(* reconcile, on the normal path and on the catch path of fetch *)

MinPlausibleActualCeiling == 200

Plausible(c) ==
  /\ reported[c] # BadHeader
  /\ reported[c] <= Larger(reservedTotal[c] * 10, MinPlausibleActualCeiling)

FullRefund(c) == reported[c] = 0 /\ reservedTotal[c] > 0

\* The correction is computed, and a report that is not believed raises the
\* flag, before the ledger write is awaited.
Reconcile(c) ==
  /\ pc[c] = "settle"
  /\ delta' = [delta EXCEPT ![c] =
                 IF Plausible(c) THEN reported[c] - reservedTotal[c] ELSE 0]
  /\ \/ /\ ~Plausible(c) \/ FullRefund(c)
        /\ MarkUnreconciled(ProcOf[c])
     \/ /\ Plausible(c) /\ ~FullRefund(c)
        /\ UNCHANGED <<unreconciled, doubtful>>
  /\ Goto(c, "record")
  /\ UNCHANGED <<now, snapshot, gateVars, answered, pending, reported, failed,
                 vendorVars, ledgerVars>>

\* Mutant: the correction goes to the day of the answer.
RecordForToday(c) ==
  /\ RecordDelta(Day(now), delta[c], window[c])
  /\ reservation' = [reservation EXCEPT ![c] = "closed"]
  /\ overrun' = [overrun EXCEPT ![Day(now)] = @ + AtLeastZero(delta[c])]

\* The correction goes to the day and the window that were reserved.
RecordFor(c) ==
  /\ RecordDelta(bucket[c], delta[c], window[c])
  /\ reservation' = [reservation EXCEPT ![c] = "closed"]
  /\ overrun' = [overrun EXCEPT ![bucket[c]] = @ + AtLeastZero(delta[c])]

\* recordDelta succeeds; the catch path raises the flag once more before it
\* rethrows.
Record(c) ==
  /\ pc[c] = "record"
  /\ RecordFor(c)
  /\ IF failed[c] THEN MarkUnreconciled(ProcOf[c]) ELSE UNCHANGED <<unreconciled, doubtful>>
  /\ Goto(c, "done")
  /\ UNCHANGED <<now, snapshot, gateVars, spendVars, vendorVars>>

\* recordDelta throws, applied or not: both paths raise the flag and swallow it.
RecordThrows(c) ==
  /\ "store" \in Faults
  /\ pc[c] = "record"
  /\ RecordFor(c) \/ UNCHANGED ledgerVars
  /\ MarkUnreconciled(ProcOf[c])
  /\ Goto(c, "done")
  /\ UNCHANGED <<now, snapshot, gateVars, spendVars, vendorVars>>

--------------------------------------------------------------------------------
(* The environment *)

Active(c) == pc[c] \notin {"idle", "done"}

\* A process dies: its calls vanish, its memory restarts cold, the ledger stays.
Crash(p) ==
  /\ "crash" \in Faults
  /\ snapshot[p] # None \/ \E c \in Calls : ProcOf[c] = p /\ Active(c)
  /\ pc' = [c \in Calls |-> IF ProcOf[c] = p /\ Active(c) THEN "done" ELSE pc[c]]
  /\ snapshot' = [snapshot EXCEPT ![p] = None]
  /\ unreconciled' = [unreconciled EXCEPT ![p] = FALSE]
  /\ doubtful' = doubtful \ {p}
  /\ UNCHANGED <<now, gateVars, spendVars, vendorVars, ledgerVars>>

Tick ==
  /\ now + 1 \in Times
  /\ now' = now + 1
  /\ UNCHANGED <<accountVars, pc, gateVars, spendVars, vendorVars, ledgerVars>>

\* The bounded run is over: every call has ended and the clock has run out.
Finished ==
  /\ now + 1 \notin Times
  /\ \A c \in Calls : pc[c] = "done"
  /\ UNCHANGED vars

\* Steps of the code itself, and the timers that end its waits.  The vendor's
\* answers are not among them: nothing obliges it to answer.
Progress(c) ==
  \/ ReadUsage(c) \/ AccountFails(c) \/ PriceAfterRefresh(c)
  \/ CheckAndReserve(c) \/ RefuseReservation(c)
  \/ SendSubCall(c) \/ SubCallFails(c) \/ Reconcile(c) \/ Record(c)

CallStep(c) ==
  \/ EnsureBudget(c) \/ ReadUsage(c) \/ AskAccount(c) \/ AccountAnswers(c)
  \/ AccountFails(c) \/ PriceAfterRefresh(c)
  \/ CheckAndReserve(c) \/ RefuseReservation(c) \/ ReserveThrows(c)
  \/ SendSubCall(c) \/ SubCallAnswers(c) \/ SubCallFails(c)
  \/ Reconcile(c) \/ Record(c) \/ RecordThrows(c)

Next ==
  \/ \E c \in Calls : CallStep(c)
  \/ \E p \in Procs : Crash(p)
  \/ Tick
  \/ Finished

Spec == Init /\ [][Next]_vars

\* Every wait of the gate, of a request and of the ledger is ended by a timer of
\* the code (safeFetch's hop timeout, the limiter's bound, statement timeouts),
\* so a call takes its next step even when the other side stays silent.
Fairness == \A c \in Calls : WF_vars(Progress(c))

FairSpec == Spec /\ Fairness

--------------------------------------------------------------------------------
(* What the ledger promises *)

\* What a call owes the ledger: what it reserved, then what the vendor reported
\* for it, provided the report was believed.
Owed ==
  [c \in Calls |->
     CASE reservation[c] = "none" -> 0
       [] reservation[c] = "held" -> reservedTotal[c]
       [] reservation[c] = "closed" ->
            IF Plausible(c) THEN reported[c] ELSE reservedTotal[c]]

Reserved(c) == reservation[c] # "none"
ReservedOn(d) == {c \in Calls : Reserved(c) /\ bucket[c] = d}
ReservedIn(w) == {c \in Calls : Reserved(c) /\ window[c] = w}

\* The row that a set of calls adds up to.
RowOf(S) == [credits |-> SumFunctionOnSet(Owed, S), calls |-> Cardinality(S)]

\* A reservation made in a later window has removed the row of w.
Pruned(w) ==
  \E c \in Calls : Reserved(c) /\ window[c] # None /\ window[c] > w + Retention

\* The daily row is exactly the sum of what its calls owe, and counts each of
\* them once: no correction is lost, applied twice, or applied to another day,
\* whatever overlaps, fails or crashes (checkAndReserve, reconcile, fetch).
LedgerConserves == \A d \in Days : usage[d] = RowOf(ReservedOn(d))

\* A velocity row still kept agrees with the reservations of its window: the
\* correction returns to the window that was charged, never to the current one.
WindowConserves == \A w \in Windows : Pruned(w) \/ usageWindow[w] = RowOf(ReservedIn(w))

\* Daily rows and velocity rows alike, after any failure between a reservation and its
\* correction.
CountersConserve == LedgerConserves /\ WindowConserves

\* "refreshAccount() above always leaves a snapshot in place by this line": a
\* call about to be priced finds one, whatever the other calls did meanwhile.
PricedWithSnapshot ==
  \A c \in Calls : pc[c] = "price" => snapshot[ProcOf[c]] # None

\* A call handed to the store carries a ceiling no higher than an explicit cap.
StoredUnderCap ==
  DailyCreditCap \in Nat =>
    \A c \in Calls : pc[c] = "store" => ceiling[c] <= DailyCreditCap

\* With an explicit daily cap, a day's ledger exceeds it by no more than what
\* the vendor itself reported above the reservations, over all processes.
CapHeld ==
  DailyCreditCap \in Nat =>
    \A d \in Days : usage[d].credits <= DailyCreditCap + overrun[d]

\* A velocity window never admits more calls than the configured number, nor
\* more credits than the configured ceiling except for what the vendor itself
\* reported above the reservations (checkAndReserve's velocity arguments).
VelocityHeld ==
  \A w \in Windows :
    /\ MaxCallsPerWindow # None => usageWindow[w].calls <= MaxCallsPerWindow
    /\ VelocityCap \in Nat =>
         usageWindow[w].credits <= VelocityCap + SumFunctionOnSet(overrun, Days)

\* The derived cap of a bucket stays what it was when the process first derived
\* it, through every resync, until the bucket or the process changes.
CapPinned ==
  [][\A p \in Procs :
       (/\ snapshot[p] # None /\ snapshot'[p] # None
        /\ snapshot[p].day = snapshot'[p].day)
       => snapshot'[p].cap = snapshot[p].cap]_vars

\* Credits a call has reserved and the vendor may still charge.
StillToBill(c) ==
  IF pc[c] \in {"send", "wait"} THEN AtLeastZero(reservedTotal[c] - billed[c]) ELSE 0

\* Everything admitted can be paid: what the calls in flight may still be
\* charged never exceeds what is left in the vendor account.
NoOvercommit ==
  SumFunctionOnSet([c \in Calls |-> StillToBill(c)], Calls) <= creditsRemaining

\* Every call that has entered the gate ends.
CallsFinish == \A c \in Calls : (pc[c] = "observe" \/ pc[c] = "store") ~> (pc[c] = "done")
================================================================================
