----------------------------- MODULE MCNansenBudget -----------------------------
(* Instances of NansenBudget for TLC. *)
EXTENDS NansenBudget, TLC

\* Two calls, each in a process of its own, or both in one process.
MCTwoCalls == {"a", "b"}
MCTwoProcs == ("a" :> "p") @@ ("b" :> "q")
MCOneProc == ("a" :> "p") @@ ("b" :> "p")

ForEach(S, value) == [x \in S |-> value]

\* smart-money.flows: two requests of 5 credits each.
FlowsCost == ForEach(Calls, ForEach(Plans, 10))
FlowsSubCalls == ForEach(Calls, 2)
FlowsBills == ForEach(Calls, {5})

\* The vendor may also bill less, or more, than the price table says.
DriftingBills == ForEach(Calls, {0, 5, 7})
SingleSubCall == ForEach(Calls, 1)
SingleCost == ForEach(Calls, ForEach(Plans, 5))

\* entity.labels for free on one plan and unpriced on the other, beside a call
\* of 100 credits.
PlanCost == ("a" :> ("free" :> Unpriced @@ "pro" :> 10)) @@
            ("b" :> ("free" :> 100 @@ "pro" :> 10))
PlanBills == [c \in Calls |-> {10, 100}]
================================================================================
