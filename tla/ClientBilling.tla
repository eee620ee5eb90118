----------------------------- MODULE ClientBilling -----------------------------
(****************************************************************************)
(* The client billing ledger (engine/billing-store.ts) and the tool         *)
(* boundary that drives it (tools/registry.ts): every tool call reserves a  *)
(* row before its handler runs and settles or refunds it afterwards.  The   *)
(* row is keyed by (principal, client request id), so a retry finds the     *)
(* row of the first attempt.  A row nobody closes is closed by the          *)
(* reconcile scan on Postgres, and when the store is opened on SQLite.      *)
(*                                                                          *)
(* A statement or transaction of the database is one step; so is what runs  *)
(* between two awaits.  Traces, diagnostics and stderr lines are left out.  *)
(****************************************************************************)
EXTENDS Integers, FiniteSets, Functions

CONSTANTS
  Axis,           \* "postgres" or "sqlite": where the ledger lives
  Procs,          \* server processes
  Calls,          \* tool calls of the run
  ProcOf,         \* call -> process
  Keys,           \* request identities
  KeyOf,          \* call -> its request identity
  Profiles,       \* access profiles
  ProfileOf,      \* request identity -> its principal's profile, or None
  Tools,          \* the keys of the price list and of the TTL table
  ToolOf,         \* call -> tool (or its static capability)
  Price,          \* tool -> credits (priceFor)
  Ttl,            \* tool -> ticks an answer may be cached (ttlFor)
  Ceiling,        \* REPLAY_AND_RECONCILE_CEILING_MS, in ticks
  Readers,        \* the AccessProfileReaders a store may be given
  OpeningBalances,\* values of credits_balance_raw at the start
  Edits,          \* values an operator may write to a metered balance
  MaxTime,        \* bound: the last tick
  LastStamp,      \* bound: no request is stamped after this tick
  Faults,         \* the failures of this run
  None

\* store: a ledger call throws and has no effect; lost: it has its effect but
\* its answer is lost; throw: the handler throws; crash: a process dies.
FaultKinds == {"store", "lost", "throw", "crash"}

ASSUME CallAssumption ==
  /\ ProcOf \in [Calls -> Procs]
  /\ KeyOf \in [Calls -> Keys]
  /\ ProfileOf \in [Keys -> Profiles \cup {None}]
  /\ ToolOf \in [Calls -> Tools]
  /\ Price \in [Tools -> Nat] /\ Ttl \in [Tools -> Nat]
  /\ None \notin Int /\ None \notin Profiles

ASSUME LedgerAssumption ==
  /\ Axis \in {"postgres", "sqlite"} /\ Readers \subseteq {"defaults", "table"}
  /\ Ceiling \in Nat /\ MaxTime \in Nat /\ LastStamp \in Nat
  /\ OpeningBalances \subseteq Nat \cup {None}
  /\ Edits \subseteq Nat
  /\ Faults \subseteq FaultKinds

VARIABLES
  now,        \* the wall clock
  reader,     \* "defaults" (the shipped server's) or "table": the reader in use
  up,         \* process -> it has opened its store
  rows,       \* client_usage: request identity -> row, or None
  balance,    \* access_profiles.credits_balance_raw, None when unlimited
  pc,         \* call -> where its control is
  metered,    \* call -> the credits mode it read
  stamp,      \* call -> the time it will record as reserved_at
  outcome,    \* call -> what its client is told
  debited,    \* request identities whose reserve took the price (history)
  granted     \* profile -> credits put at its disposal (history)

callVars == <<pc, metered, stamp, outcome>>
moneyVars == <<rows, balance, debited>>
vars == <<now, reader, up, moneyVars, callVars, granted>>

PCs == {"idle", "profile", "stamp", "insert", "replay", "handle", "complete",
        "done", "dead"}
Outcomes == {"none", "answer", "refusal", "refused", "threw"}

\* "expired" is the state 'refunded' with refund_reason 'expired'.
Row == [state : {"reserved", "settled", "refunded", "expired"},
        reservedAt : Nat, tool : Tools, price : Nat]

ASSUME RowAssumption == None \notin Row

TypeOK ==
  /\ now \in Nat
  /\ reader \in {"defaults", "table"}
  /\ up \in [Procs -> BOOLEAN]
  /\ rows \in [Keys -> Row \cup {None}]
  /\ balance \in [Profiles -> Nat \cup {None}]
  /\ pc \in [Calls -> PCs]
  /\ metered \in [Calls -> BOOLEAN]
  /\ stamp \in [Calls -> Nat]
  /\ outcome \in [Calls -> Outcomes]
  /\ debited \subseteq Keys
  /\ granted \in [Profiles -> Int]

Init ==
  /\ now = 0
  /\ reader \in Readers
  /\ up = [p \in Procs |-> FALSE]
  /\ rows = [k \in Keys |-> None]
  /\ balance \in [Profiles -> OpeningBalances]
  /\ pc = [c \in Calls |-> "idle"]
  /\ metered = [c \in Calls |-> FALSE]
  /\ stamp = [c \in Calls |-> 0]
  /\ outcome = [c \in Calls |-> "none"]
  /\ debited = {}
  /\ granted = [p \in Profiles |-> IF balance[p] = None THEN 0 ELSE balance[p]]

--------------------------------------------------------------------------------
(* Rows *)

RowOf(c) == rows[KeyOf[c]]
PriceOf(c) == Price[ToolOf[c]]

Smaller(a, b) == IF a <= b THEN a ELSE b
\* Mutant: the window is the TTL alone.
TtlWindow(row) == Ttl[row.tool]

ReplayWindow(row) == Smaller(Ttl[row.tool], Ceiling)
Replayable(row) == now - row.reservedAt <= ReplayWindow(row)

Reserved(k) == rows[k] # None /\ rows[k].state = "reserved"
\* Mutant: the scan's update forgets state = 'reserved'.
Old(k) == rows[k] # None /\ rows[k].reservedAt < now - Ceiling

Expired(k) == Reserved(k) /\ rows[k].reservedAt < now - Ceiling

NewRow(c, at) ==
  [state |-> "reserved", reservedAt |-> at, tool |-> ToolOf[c], price |-> PriceOf(c)]

Close(k, state) == rows' = [rows EXCEPT ![k].state = state]

\* NULL plus anything is NULL, so an unlimited profile is left alone.
Credit(k) ==
  IF Axis = "postgres" /\ ProfileOf[k] # None /\ balance[ProfileOf[k]] # None
  THEN balance' = [balance EXCEPT ![ProfileOf[k]] = @ + rows[k].price]
  ELSE UNCHANGED balance

Goto(c, place) == pc' = [pc EXCEPT ![c] = place]

Tell(c, what) ==
  /\ Goto(c, "done")
  /\ outcome' = [outcome EXCEPT ![c] = what]

--------------------------------------------------------------------------------
(* The process *)

\* A SQLite store closes what a dead process left behind when it is opened.
Open(p) ==
  /\ ~up[p]
  /\ up' = [up EXCEPT ![p] = TRUE]
  /\ rows' = [k \in Keys |-> IF Axis = "sqlite" /\ Expired(k)
                             THEN [rows[k] EXCEPT !.state = "expired"] ELSE rows[k]]
  /\ UNCHANGED <<now, reader, balance, debited, callVars, granted>>

\* A sweep that fails is reported on stderr; the store opens all the same.
OpenUnswept(p) ==
  /\ "store" \in Faults /\ Axis = "sqlite"
  /\ ~up[p]
  /\ up' = [up EXCEPT ![p] = TRUE]
  /\ UNCHANGED <<now, reader, moneyVars, callVars, granted>>

Crash(p) ==
  /\ "crash" \in Faults
  /\ up[p]
  /\ up' = [up EXCEPT ![p] = FALSE]
  /\ pc' = [c \in Calls |-> IF ProcOf[c] = p /\ pc[c] \notin {"idle", "done"}
                            THEN "dead" ELSE pc[c]]
  /\ UNCHANGED <<now, reader, moneyVars, metered, stamp, outcome, granted>>

--------------------------------------------------------------------------------
(* reserve *)

\* A request aborted before it starts is answered without touching the ledger.
Cancelled(c) ==
  /\ pc[c] = "idle" /\ up[ProcOf[c]]
  /\ Tell(c, "refused")
  /\ UNCHANGED <<now, reader, up, moneyVars, metered, stamp, granted>>

Receive(c) ==
  /\ pc[c] = "idle" /\ up[ProcOf[c]]
  /\ Goto(c, IF Axis = "sqlite" THEN "insert"
             ELSE IF ProfileOf[KeyOf[c]] = None THEN "stamp" ELSE "profile")
  /\ UNCHANGED <<now, reader, up, moneyVars, metered, stamp, outcome, granted>>

\* Only the mode is used of what is read here; the default reader answers
\* 'unlimited' whatever the table says.
ReadProfile(c) ==
  /\ pc[c] = "profile"
  /\ metered' = [metered EXCEPT ![c] =
                    reader = "table" /\ balance[ProfileOf[KeyOf[c]]] # None]
  /\ Goto(c, "stamp")
  /\ UNCHANGED <<now, reader, up, moneyVars, stamp, outcome, granted>>

Stamp(c) ==
  /\ pc[c] = "stamp"
  /\ now <= LastStamp
  /\ stamp' = [stamp EXCEPT ![c] = now]
  /\ Goto(c, "insert")
  /\ UNCHANGED <<now, reader, up, moneyVars, metered, outcome, granted>>

\* On SQLite the clock is read inside the transaction.
Stamped(c) == IF Axis = "sqlite" THEN now ELSE stamp[c]

Affordable(c) ==
  LET credits == balance[ProfileOf[KeyOf[c]]]
  IN credits # None /\ credits >= PriceOf(c)

\* The row and, for a metered profile, its price, in one transaction.
TakeOn(c) ==
  /\ pc[c] = "insert"
  /\ RowOf(c) = None
  /\ metered[c] => Affordable(c)
  /\ rows' = [rows EXCEPT ![KeyOf[c]] = NewRow(c, Stamped(c))]
  /\ IF metered[c]
     THEN /\ balance' = [balance EXCEPT ![ProfileOf[KeyOf[c]]] = @ - PriceOf(c)]
          /\ debited' = debited \cup {KeyOf[c]}
     ELSE UNCHANGED <<balance, debited>>

Insert(c) ==
  /\ TakeOn(c)
  /\ Goto(c, "handle")
  /\ UNCHANGED <<now, reader, up, metered, stamp, outcome, granted>>

\* The commit is applied but the statement times out in the server.
InsertUnacknowledged(c) ==
  /\ "lost" \in Faults
  /\ TakeOn(c)
  /\ Tell(c, "refused")
  /\ UNCHANGED <<now, reader, up, metered, stamp, granted>>

\* Mutant: the refused insert is not rolled back.
ExhaustedKeepsRow(c) ==
  /\ pc[c] = "insert"
  /\ RowOf(c) = None
  /\ metered[c] /\ ~Affordable(c)
  /\ rows' = [rows EXCEPT ![KeyOf[c]] = NewRow(c, Stamped(c))]
  /\ Tell(c, "refused")
  /\ UNCHANGED <<now, reader, up, balance, debited, metered, stamp, granted>>

\* The debit matches no row: the insert is rolled back.
Exhausted(c) ==
  /\ pc[c] = "insert"
  /\ RowOf(c) = None
  /\ metered[c] /\ ~Affordable(c)
  /\ Tell(c, "refused")
  /\ UNCHANGED <<now, reader, up, moneyVars, metered, stamp, granted>>

Conflict(c) ==
  /\ pc[c] = "insert"
  /\ RowOf(c) # None
  /\ Goto(c, "replay")
  /\ UNCHANGED <<now, reader, up, moneyVars, metered, stamp, outcome, granted>>

\* A retry inside the window runs again on the row of the first attempt,
\* whatever state the row is in.
Replay(c) ==
  /\ pc[c] = "replay"
  /\ Replayable(RowOf(c))
  /\ Goto(c, "handle")
  /\ UNCHANGED <<now, reader, up, moneyVars, metered, stamp, outcome, granted>>

ReplayRefused(c) ==
  /\ pc[c] = "replay"
  /\ ~Replayable(RowOf(c))
  /\ Tell(c, "refused")
  /\ UNCHANGED <<now, reader, up, moneyVars, metered, stamp, granted>>

ReserveFails(c) ==
  /\ "store" \in Faults
  /\ pc[c] \in {"profile", "insert", "replay"}
  /\ Tell(c, "refused")
  /\ UNCHANGED <<now, reader, up, moneyVars, metered, stamp, granted>>

--------------------------------------------------------------------------------
(* The handler, and settle or refund *)

Handle(c) ==
  /\ pc[c] = "handle"
  /\ \E what \in {"answer", "refusal"} : outcome' = [outcome EXCEPT ![c] = what]
  /\ Goto(c, "complete")
  /\ UNCHANGED <<now, reader, up, moneyVars, metered, stamp, granted>>

\* Nothing catches it at the boundary: the row stays reserved.
HandlerThrows(c) ==
  /\ "throw" \in Faults
  /\ pc[c] = "handle"
  /\ Tell(c, "threw")
  /\ UNCHANGED <<now, reader, up, moneyVars, metered, stamp, granted>>

\* Mutant: the completion is not conditional on the row being reserved.
CompletionUnconditional(c) ==
  LET k == KeyOf[c]
  IN IF outcome[c] = "answer"
     THEN Close(k, "settled") /\ UNCHANGED balance
     ELSE Close(k, "refunded") /\ Credit(k)

\* Mutant: a refused call is settled like an answered one.
CompletionSettlesAll(c) ==
  IF ~Reserved(KeyOf[c]) THEN UNCHANGED <<rows, balance>>
  ELSE Close(KeyOf[c], "settled") /\ UNCHANGED balance

\* First completer wins: a row that is not reserved is left as it is.
Completion(c) ==
  LET k == KeyOf[c]
  IN IF ~Reserved(k) THEN UNCHANGED <<rows, balance>>
     ELSE IF outcome[c] = "answer"
          THEN Close(k, "settled") /\ UNCHANGED balance
          ELSE Close(k, "refunded") /\ Credit(k)

Complete(c) ==
  /\ pc[c] = "complete"
  /\ Completion(c)
  /\ Goto(c, "done")
  /\ UNCHANGED <<now, reader, up, debited, metered, stamp, outcome, granted>>

\* The answer is served although the row could not be closed.
CompletionFails(c) ==
  /\ "store" \in Faults
  /\ pc[c] = "complete"
  /\ Goto(c, "done")
  /\ UNCHANGED <<now, reader, up, moneyVars, metered, stamp, outcome, granted>>

--------------------------------------------------------------------------------
(* Outside the server *)

\* Mutant: the credit of the scan has the condition of the debit.
ReconcileAffordable(k) ==
  /\ Axis = "postgres"
  /\ Expired(k)
  /\ ProfileOf[k] # None /\ (balance[ProfileOf[k]] # None => balance[ProfileOf[k]] >= rows[k].price)
  /\ Close(k, "expired")
  /\ Credit(k)
  /\ UNCHANGED <<now, reader, up, debited, callVars, granted>>

\* The scan commits a batch of closes with their credits; which rows make a
\* batch is open (batch size, SKIP LOCKED), so a batch is one row here.
Reconcile(k) ==
  /\ Axis = "postgres"
  /\ Expired(k)
  /\ Close(k, "expired")
  /\ Credit(k)
  /\ UNCHANGED <<now, reader, up, debited, callVars, granted>>

Edit(p) ==
  /\ balance[p] # None
  /\ \E v \in Edits :
       /\ balance' = [balance EXCEPT ![p] = v]
       /\ granted' = [granted EXCEPT ![p] = @ + v - balance[p]]
  /\ UNCHANGED <<now, reader, up, rows, debited, callVars>>

Tick ==
  /\ now < MaxTime
  /\ now' = now + 1
  /\ UNCHANGED <<reader, up, moneyVars, callVars, granted>>

Boundary(c) ==
  \/ Cancelled(c) \/ Receive(c) \/ ReadProfile(c) \/ Stamp(c)
  \/ Insert(c) \/ InsertUnacknowledged(c) \/ Exhausted(c)
  \/ Conflict(c) \/ Replay(c) \/ ReplayRefused(c) \/ ReserveFails(c)
  \/ Handle(c) \/ HandlerThrows(c) \/ Complete(c) \/ CompletionFails(c)

Next ==
  \/ \E c \in Calls : Boundary(c)
  \/ \E p \in Procs : Open(p) \/ OpenUnswept(p) \/ Crash(p)
  \/ \E k \in Keys : Reconcile(k)
  \/ \E p \in Profiles : Edit(p)
  \/ Tick

Spec == Init /\ [][Next]_vars

\* The scan runs on a schedule of its own; no call owes a step.
LiveSpec == Spec /\ WF_vars(Tick) /\ WF_vars(\E k \in Keys : Reconcile(k))

--------------------------------------------------------------------------------
(* Properties *)

AmountOf(k) == IF rows[k] = None THEN 0 ELSE rows[k].price

\* The requests of a profile whose price is taken and not given back, and what
\* they took together.
Owing(p) ==
  {k \in debited : ProfileOf[k] = p /\ rows[k].state \in {"reserved", "settled"}}

Outstanding(p) == SumFunctionOnSet([k \in Keys |-> AmountOf(k)], Owing(p))

\* The requests of a profile that a refund or the scan credits although no
\* reserve debited them, and what they were credited together.
Gifted(p) ==
  {k \in Keys \ debited :
     /\ Axis = "postgres" /\ ProfileOf[k] = p
     /\ rows[k] # None /\ rows[k].state \in {"refunded", "expired"}}

Given(p) == SumFunctionOnSet([k \in Keys |-> AmountOf(k)], Gifted(p))

\* A metered balance is what was granted less the price of every request taken
\* on and not given back, through retries, scans, crashes and edits (the debit
\* of reserveMetered against the credits of refund and of the scan).  Credits
\* nobody paid for are those of the default reader, which never debits; a
\* reader of the table lets none through.
BalanceAccounts ==
  \A p \in Profiles : balance[p] # None =>
    /\ balance[p] = granted[p] - Outstanding(p) + Given(p)
    /\ reader = "table" => Gifted(p) = {}

\* A row is settled only if one of its calls has an answer, and refunded by a
\* completion only if one of its calls was refused by its handler.
ClosedAsServed ==
  \A k \in Keys : rows[k] # None =>
    LET Told(what) == \E c \in Calls : KeyOf[c] = k /\ outcome[c] = what
    IN /\ rows[k].state = "settled" => Told("answer")
       /\ rows[k].state = "refunded" => Told("refusal")

\* First completer wins: once closed a row never changes, and closing changes
\* its state only, whichever of two calls or of the scan comes second.
FirstCloseStands ==
  [][\A k \in Keys : rows[k] # None =>
       \/ rows'[k] = rows[k]
       \/ Reserved(k) /\ rows'[k] = [rows[k] EXCEPT !.state = rows'[k].state]]_vars

\* No retry runs on a row the scan has given up and credited back: the replay
\* window ends before the scan may take the row (one constant, two consumers).
ExpiredNotReplayed ==
  [][\A c \in Calls : pc[c] = "replay" /\ pc'[c] = "handle" => RowOf(c).state # "expired"]_vars

\* No row stays reserved for ever, whatever became of its calls.
ReserveCloses == \A k \in Keys : Reserved(k) ~> ~Reserved(k)

\* The inductive invariant.  A row the scan took is older than any replay
\* window; a call past its reserve has a row; the mode a call holds is the mode
\* of its profile, which no edit changes.
ExpiredIsOld ==
  \A k \in Keys : rows[k] # None /\ rows[k].state = "expired" => now - rows[k].reservedAt > Ceiling

OnARow == \A c \in Calls : pc[c] \in {"replay", "handle", "complete"} => RowOf(c) # None

OnMeteredProfile(c) == ProfileOf[KeyOf[c]] # None /\ balance[ProfileOf[KeyOf[c]]] # None

ModeIsCurrent ==
  \A c \in Calls :
    /\ pc[c] = "profile" => ProfileOf[KeyOf[c]] # None
    /\ metered[c] => reader = "table" /\ OnMeteredProfile(c)
    /\ Axis = "postgres" /\ reader = "table" /\ pc[c] \in {"stamp", "insert"}
         => metered[c] = OnMeteredProfile(c)

IndInv == TypeOK /\ ExpiredIsOld /\ OnARow /\ ModeIsCurrent

\* The ledger is an account that charges each request once (ClientAccount).
ChargeOf(k) ==
  IF rows[k] = None THEN "none"
  ELSE CASE rows[k].state = "reserved" -> "held"
         [] rows[k].state = "settled" -> "charged"
         [] OTHER -> "returned"

Account == INSTANCE ClientAccount WITH
  charge <- [k \in Keys |-> ChargeOf(k)],
  amount <- [k \in Keys |-> AmountOf(k)],
  takes <- reader = "table" /\ Axis = "postgres",
  Pays <- Axis = "postgres",
  Amounts <- {Price[t] : t \in Tools},
  Grants <- Edits

ImplementsAccount == Account!AccountSpec
================================================================================
