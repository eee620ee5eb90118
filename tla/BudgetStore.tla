------------------------------ MODULE BudgetStore ------------------------------
(****************************************************************************)
(* The credit ledger of one provider: the tables `usage` (one row per UTC   *)
(* day) and `usage_window` (one row per velocity window) behind the         *)
(* BudgetStore interface.  SqliteBudgetStore (cache/budget-store.ts) runs   *)
(* each write in one IMMEDIATE transaction and PgBudgetStore               *)
(* (pg/budget-store.ts) in one PostgreSQL transaction, so each write is one *)
(* step here.  An absent row reads as zero in every getter, so a row that   *)
(* does not exist and a row of zeroes are the same state.                   *)
(*                                                                          *)
(* This module owns no behaviour of its own: the components that spend      *)
(* (NansenBudget, BlockscoutCall) compose its operators into their steps.         *)
(****************************************************************************)
EXTENDS Integers

CONSTANTS
  MaxTime,        \* last instant of the modelled clock (bound)
  DayLength,      \* instants per UTC day
  WindowLength,   \* instants per velocity window (VELOCITY_WINDOW_MS)
  Retention,      \* windows kept behind the current one (WINDOW_RETENTION_MS)
  None            \* an absent limit (or POSITIVE_INFINITY), window or snapshot

ASSUME ClockAssumption ==
  /\ MaxTime \in Nat /\ Retention \in Nat
  /\ DayLength \in Nat \ {0} /\ WindowLength \in Nat \ {0}

ASSUME NoneAssumption == None \notin Int

Times == 0 .. MaxTime

\* dayBucketMs and velocityWindowMs: the index of the day, of the window, of t.
Day(t) == t \div DayLength
Window(t) == t \div WindowLength

Days == {Day(t) : t \in Times}
Windows == {Window(t) : t \in Times}

VARIABLES
  usage,          \* day -> [credits, calls]
  usageWindow     \* window -> [credits, calls]

storeVars == <<usage, usageWindow>>

Row == [credits : Int, calls : Int]
EmptyRow == [credits |-> 0, calls |-> 0]

StoreTypeOK ==
  /\ usage \in [Days -> Row]
  /\ usageWindow \in [Windows -> Row]

StoreInit ==
  /\ usage = [d \in Days |-> EmptyRow]
  /\ usageWindow = [w \in Windows |-> EmptyRow]

--------------------------------------------------------------------------------
Within(amount, limit) == limit # None => amount <= limit

\* The four checks of checkAndReserve, all made before any of its writes.  A
\* limit that is None is a gate that is not configured; w = None means that no
\* velocity argument was passed and the window table is not involved.
Admits(d, cost, ceiling, dailyCalls, w, velocityCeiling, maxCalls) ==
  /\ Within(usage[d].credits + cost, ceiling)
  /\ Within(usage[d].calls + 1, dailyCalls)
  /\ w # None =>
       /\ Within(usageWindow[w].credits + cost, velocityCeiling)
       /\ Within(usageWindow[w].calls + 1, maxCalls)

Charge(row, cost) == [credits |-> row.credits + cost, calls |-> row.calls + 1]

\* Both tables move in one transaction, and windows older than the retention
\* period are deleted with it.
Reserve(d, cost, w) ==
  /\ usage' = [usage EXCEPT ![d] = Charge(@, cost)]
  /\ usageWindow' =
       IF w = None THEN usageWindow
       ELSE [v \in Windows |->
               IF v = w THEN Charge(usageWindow[v], cost)
               ELSE IF v < w - Retention THEN EmptyRow
               ELSE usageWindow[v]]

AtLeastZero(n) == IF n < 0 THEN 0 ELSE n

\* MAX(0, credits_used + delta): a correction never drives a counter below zero
\* and never gives back a call.
Adjust(row, delta) ==
  [credits |-> AtLeastZero(row.credits + delta), calls |-> row.calls]

RecordDelta(d, delta, w) ==
  /\ usage' = [usage EXCEPT ![d] = Adjust(@, delta)]
  /\ usageWindow' =
       IF w = None THEN usageWindow
       ELSE [usageWindow EXCEPT ![w] = Adjust(@, delta)]
================================================================================
