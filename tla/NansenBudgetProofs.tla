--------------------------- MODULE NansenBudgetProofs ---------------------------
(****************************************************************************)
(* Proofs about NansenBudget, for every number of calls and processes, every *)
(* price, every bill and every combination of faults.                       *)
(****************************************************************************)
EXTENDS NansenBudget, Sums, TLAPS

LEMMA InitTypeOK == Init => TypeOK
<1> SUFFICES ASSUME Init PROVE TypeOK
  OBVIOUS
<1>1. 0 \in Times
  BY ClockAssumption DEF Times
<1>2. Day(0) \in Days
  BY <1>1 DEF Days
<1>3. StoreTypeOK
  BY DEF Init, StoreInit, StoreTypeOK, Row, EmptyRow
<1> QED
  BY <1>1, <1>2, <1>3, CallAssumption DEF Init, TypeOK, PCs, Limits

--------------------------------------------------------------------------------
(* The ledger *)

LEMMA ReserveType ==
  ASSUME StoreTypeOK, NEW d \in Days, NEW cost \in Int, NEW w,
         Reserve(d, cost, w)
  PROVE  StoreTypeOK'
<1>1. \A r \in Row : Charge(r, cost) \in Row
  BY DEF Row, Charge
<1>2. EmptyRow \in Row
  BY DEF Row, EmptyRow
<1> QED
  BY <1>1, <1>2 DEF StoreTypeOK, Reserve

LEMMA RecordDeltaType ==
  ASSUME StoreTypeOK, NEW d \in Days, NEW amount \in Int, NEW w,
         RecordDelta(d, amount, w)
  PROVE  StoreTypeOK'
<1>1. \A r \in Row : Adjust(r, amount) \in Row
  BY DEF Row, Adjust, AtLeastZero
<1> QED
  BY <1>1 DEF StoreTypeOK, RecordDelta

--------------------------------------------------------------------------------
(* Ceilings *)

LEMMA CeilingType ==
  ASSUME NEW s \in Snapshots
  PROVE  /\ EffectiveCeiling(s) \in Int
         /\ DailyCreditCap \in Nat => EffectiveCeiling(s) <= DailyCreditCap
<1>1. CapInForce(s) \in Int \cup {None}
  BY LimitAssumption DEF CapInForce, Snapshots, Limits
<1>2. s.usage + s.remaining \in Int
  BY DEF Snapshots
<1>3. DailyCreditCap \in Nat => CapInForce(s) = DailyCreditCap
  BY LimitAssumption DEF CapInForce
<1>4. DailyCreditCap \in Nat => CapInForce(s) # None
  BY <1>3, NoneAssumption
<1> QED
  BY <1>1, <1>2, <1>3, <1>4 DEF EffectiveCeiling, Smaller

LEMMA ResolvedCapType ==
  ASSUME NEW balance \in Int
  PROVE  ResolveDailyCap(balance) \in Limits
<1>1. balance \div 4 \in Int
  OBVIOUS
<1> QED
  BY <1>1, LimitAssumption
  DEF ResolveDailyCap, DeriveDailyCap, DerivedCapFloor, Larger, Limits

--------------------------------------------------------------------------------
(* Type correctness, one lemma per action *)

Typed == TypeOK /\ PricedWithSnapshot

\* Pricing a call under a snapshot that exists.
LEMMA PriceType ==
  ASSUME TypeOK, NEW c \in Calls, snapshot[ProcOf[c]] # None, Price(c)
  PROVE  /\ pc' \in [Calls -> PCs]
         /\ ceiling' \in [Calls -> Int]
         /\ reservedTotal' \in [Calls -> Nat]
         /\ window' \in [Calls -> Windows \cup {None}]
<1> DEFINE s == snapshot[ProcOf[c]]
           cost == Cost[c][s.plan]
           limit == EffectiveCeiling(s)
<1>1. s \in Snapshots
  BY CallAssumption DEF TypeOK
<1>2. limit \in Int
  BY <1>1, CeilingType
<1>3. cost \in Nat \cup {Unpriced}
  BY <1>1, CallAssumption DEF Snapshots
<1>4. WindowNow \in Windows \cup {None}
  BY DEF WindowNow, Windows, TypeOK
<1>5. \/ /\ cost = Unpriced
         /\ Goto(c, "done")
         /\ UNCHANGED <<ceiling, reservedTotal, window>>
      \/ /\ cost # Unpriced
         /\ ceiling' = [ceiling EXCEPT ![c] = limit]
         /\ reservedTotal' = [reservedTotal EXCEPT ![c] = cost]
         /\ window' = [window EXCEPT ![c] = WindowNow]
         /\ Goto(c, "store")
  BY DEF Price
<1> HIDE DEF cost, limit
<1>6. CASE cost = Unpriced
  BY <1>5, <1>6 DEF Goto, TypeOK, PCs
<1>7. CASE cost # Unpriced
  <2>1. cost \in Nat
    BY <1>3, <1>7
  <2>2. ceiling' \in [Calls -> Int]
    BY <1>2, <1>5, <1>7 DEF TypeOK
  <2>3. reservedTotal' \in [Calls -> Nat]
    BY <2>1, <1>5, <1>7 DEF TypeOK
  <2>4. window' \in [Calls -> Windows \cup {None}]
    BY <1>4, <1>5, <1>7 DEF TypeOK
  <2>5. pc' \in [Calls -> PCs]
    BY <1>5, <1>7 DEF Goto, TypeOK, PCs
  <2> QED
    BY <2>2, <2>3, <2>4, <2>5
<1> QED
  BY <1>6, <1>7

LEMMA EnsureBudgetType ==
  ASSUME TypeOK, NEW c \in Calls, EnsureBudget(c)
  PROVE  TypeOK'
<1>1. Day(now) \in Days
  BY DEF Days, TypeOK
<1>2. bucket' \in [Calls -> Days]
  BY <1>1 DEF EnsureBudget, TypeOK
<1>3. /\ pc' \in [Calls -> PCs]
      /\ ceiling' \in [Calls -> Int]
      /\ reservedTotal' \in [Calls -> Nat]
      /\ window' \in [Calls -> Windows \cup {None}]
  <2>1. CASE NeedsResync(ProcOf[c], Day(now))
    BY <2>1 DEF EnsureBudget, Goto, TypeOK, PCs
  <2>2. CASE ~NeedsResync(ProcOf[c], Day(now))
    <3>1. snapshot[ProcOf[c]] # None /\ Price(c)
      BY <2>2 DEF EnsureBudget, NeedsResync
    <3> QED
      BY <3>1, PriceType
  <2> QED
    BY <2>1, <2>2
<1> QED
  BY <1>2, <1>3 DEF EnsureBudget, TypeOK, StoreTypeOK, accountVars, spendVars,
                    vendorVars, ledgerVars

LEMMA ReadUsageType ==
  ASSUME TypeOK, NEW c \in Calls, ReadUsage(c)
  PROVE  TypeOK'
<1>1. usage[bucket[c]].credits \in Int
  BY DEF TypeOK, StoreTypeOK, Row
<1> QED
  BY <1>1 DEF ReadUsage, TypeOK, StoreTypeOK, PCs, Goto, accountVars, spendVars,
              vendorVars, ledgerVars

LEMMA AskAccountType ==
  ASSUME TypeOK, NEW c \in Calls, AskAccount(c)
  PROVE  TypeOK'
<1>1. doubtful' \subseteq Calls \cup Procs
  BY DEF AskAccount, TypeOK
<1>2. offered' \in [Calls -> [remaining : Nat, plan : Plans]]
  BY DEF AskAccount, TypeOK
<1> QED
  BY <1>1, <1>2 DEF AskAccount, TypeOK, StoreTypeOK, PCs, Goto, spendVars,
                    vendorVars, ledgerVars

\* The observation that replaces the snapshot is one, and carries over the cap of
\* its bucket.
LEMMA AccountAnswersSnapshot ==
  ASSUME TypeOK, NEW c \in Calls, AccountAnswers(c)
  PROVE  \E new \in Snapshots :
           /\ snapshot' = [snapshot EXCEPT ![ProcOf[c]] = new]
           /\ new.day = bucket[c]
           /\ (/\ snapshot[ProcOf[c]] # None
               /\ snapshot[ProcOf[c]].day = bucket[c])
              => new.cap = snapshot[ProcOf[c]].cap
<1> DEFINE p == ProcOf[c]
           pinned == snapshot[p] # None /\ snapshot[p].day = bucket[c]
           cap == IF pinned THEN snapshot[p].cap
                  ELSE ResolveDailyCap(usageAtObserve[c] + offered[c].remaining)
           new == [plan |-> offered[c].plan, remaining |-> offered[c].remaining,
                   usage |-> usageAtObserve[c], day |-> bucket[c], cap |-> cap]
<1>1. p \in Procs
  BY CallAssumption
<1>2. cap \in Limits
  <2>1. usageAtObserve[c] + offered[c].remaining \in Int
    BY DEF TypeOK
  <2>2. CASE pinned
    BY <1>1, <2>2 DEF TypeOK, Snapshots
  <2>3. CASE ~pinned
    BY <2>1, <2>3, ResolvedCapType
  <2> QED
    BY <2>2, <2>3
<1>3. new \in Snapshots
  BY <1>2 DEF TypeOK, Snapshots
<1>4. snapshot' = [snapshot EXCEPT ![p] = new]
  BY DEF AccountAnswers
<1>5. new.day = bucket[c] /\ (pinned => new.cap = snapshot[p].cap)
  OBVIOUS
<1> QED
  BY <1>3, <1>4, <1>5

LEMMA AccountAnswersType ==
  ASSUME TypeOK, NEW c \in Calls, AccountAnswers(c)
  PROVE  TypeOK'
<1>1. ProcOf[c] \in Procs
  BY CallAssumption
<1>2. snapshot' \in [Procs -> Snapshots \cup {None}]
  BY AccountAnswersSnapshot DEF TypeOK
<1>3. doubtful' \subseteq Calls \cup Procs
  BY <1>1 DEF AccountAnswers, TypeOK
<1>4. unreconciled' \in [Procs -> BOOLEAN] /\ pc' \in [Calls -> PCs]
  BY DEF AccountAnswers, TypeOK, Goto, PCs
<1> QED
  BY <1>2, <1>3, <1>4 DEF AccountAnswers, TypeOK, StoreTypeOK, gateVars, spendVars,
                          vendorVars, ledgerVars

LEMMA StopsType ==
  ASSUME TypeOK, NEW c \in Calls, AccountFails(c) \/ RefuseReservation(c)
  PROVE  TypeOK'
BY DEF AccountFails, RefuseReservation, TypeOK, StoreTypeOK, PCs, Goto, accountVars,
       gateVars, spendVars, vendorVars, ledgerVars

LEMMA PriceAfterRefreshType ==
  ASSUME Typed, NEW c \in Calls, PriceAfterRefresh(c)
  PROVE  TypeOK'
<1>1. snapshot[ProcOf[c]] # None /\ Price(c) /\ TypeOK
  BY DEF PriceAfterRefresh, Typed, PricedWithSnapshot
<1>2. /\ pc' \in [Calls -> PCs]
      /\ ceiling' \in [Calls -> Int]
      /\ reservedTotal' \in [Calls -> Nat]
      /\ window' \in [Calls -> Windows \cup {None}]
  BY <1>1, PriceType
<1> QED
  BY <1>1, <1>2 DEF PriceAfterRefresh, TypeOK, StoreTypeOK, accountVars, spendVars,
                    vendorVars, ledgerVars

LEMMA StoreStepType ==
  ASSUME TypeOK, NEW c \in Calls, CheckAndReserve(c) \/ ReserveThrows(c)
  PROVE  TypeOK'
<1>1. StoreTypeOK' /\ reservation' \in [Calls -> {"none", "held", "closed"}]
  <2>1. CASE ReserveFor(c)
    <3>1. bucket[c] \in Days /\ reservedTotal[c] \in Int /\ StoreTypeOK
      BY DEF TypeOK
    <3>2. StoreTypeOK'
      BY <2>1, <3>1, ReserveType DEF ReserveFor
    <3> QED
      BY <2>1, <3>2 DEF ReserveFor, TypeOK
  <2>2. CASE UNCHANGED <<usage, usageWindow, reservation>>
    BY <2>2 DEF TypeOK, StoreTypeOK
  <2> QED
    BY <2>1, <2>2 DEF CheckAndReserve, ReserveThrows
<1> QED
  BY <1>1 DEF CheckAndReserve, ReserveThrows, TypeOK, PCs, Goto, accountVars, gateVars,
              spendVars, vendorVars

LEMMA SendSubCallType ==
  ASSUME TypeOK, NEW c \in Calls, SendSubCall(c)
  PROVE  TypeOK'
<1>1. PICK bill \in Bills[c] :
        /\ bill <= creditsRemaining
        /\ creditsRemaining' = creditsRemaining - bill
        /\ billed' = [billed EXCEPT ![c] = @ + bill]
        /\ pending' = [pending EXCEPT ![c] = bill]
  BY DEF SendSubCall
<1>2. bill \in Nat
  BY <1>1, CallAssumption
<1>3. creditsRemaining' \in Nat /\ billed' \in [Calls -> Nat] /\ pending' \in [Calls -> Nat]
  BY <1>1, <1>2 DEF TypeOK
<1> QED
  BY <1>3 DEF SendSubCall, TypeOK, StoreTypeOK, PCs, Goto, accountVars, gateVars,
              ledgerVars

LEMMA SubCallAnswersType ==
  ASSUME TypeOK, NEW c \in Calls, SubCallAnswers(c)
  PROVE  TypeOK'
<1>1. PICK header \in Headers(c) :
        reported' = [reported EXCEPT ![c] = AddHeader(@, header)]
  BY DEF SubCallAnswers
<1>2. header \in Nat \cup {BadHeader}
  BY <1>1, CallAssumption DEF Headers, TypeOK
<1>3. AddHeader(reported[c], header) \in Nat \cup {BadHeader}
  BY <1>2 DEF AddHeader, TypeOK
<1>4. reported' \in [Calls -> Nat \cup {BadHeader}]
  BY <1>1, <1>3 DEF TypeOK
<1>5. answered' \in [Calls -> Nat] /\ pc' \in [Calls -> PCs]
  BY DEF SubCallAnswers, TypeOK, Goto, PCs
<1> QED
  BY <1>4, <1>5 DEF SubCallAnswers, TypeOK, StoreTypeOK, accountVars, gateVars,
                    vendorVars, ledgerVars

LEMMA SubCallFailsType ==
  ASSUME TypeOK, NEW c \in Calls, SubCallFails(c)
  PROVE  TypeOK'
BY DEF SubCallFails, TypeOK, StoreTypeOK, PCs, Goto, accountVars, gateVars, vendorVars,
       ledgerVars

LEMMA MarkType ==
  ASSUME TypeOK, NEW p \in Procs, MarkUnreconciled(p)
  PROVE  unreconciled' \in [Procs -> BOOLEAN] /\ doubtful' \subseteq Calls \cup Procs
BY DEF MarkUnreconciled, TypeOK

LEMMA ReconcileType ==
  ASSUME TypeOK, NEW c \in Calls, Reconcile(c)
  PROVE  TypeOK'
<1>1. ProcOf[c] \in Procs
  BY CallAssumption
<1>2. unreconciled' \in [Procs -> BOOLEAN] /\ doubtful' \subseteq Calls \cup Procs
  BY <1>1, MarkType DEF Reconcile, TypeOK
<1>3. (IF Plausible(c) THEN reported[c] - reservedTotal[c] ELSE 0) \in Int
  BY DEF Plausible, TypeOK
<1>4. delta' \in [Calls -> Int]
  BY <1>3 DEF Reconcile, TypeOK
<1>5. pc' \in [Calls -> PCs]
  BY DEF Reconcile, TypeOK, Goto, PCs
<1> QED
  BY <1>2, <1>4, <1>5 DEF Reconcile, TypeOK, StoreTypeOK, gateVars, vendorVars,
                          ledgerVars

LEMMA RecordForType ==
  ASSUME TypeOK, NEW c \in Calls, RecordFor(c)
  PROVE  /\ StoreTypeOK'
         /\ reservation' \in [Calls -> {"none", "held", "closed"}]
         /\ overrun' \in [Days -> Nat]
<1>1. bucket[c] \in Days /\ delta[c] \in Int /\ StoreTypeOK
  BY DEF TypeOK
<1>2. StoreTypeOK'
  BY <1>1, RecordDeltaType DEF RecordFor
<1>3. AtLeastZero(delta[c]) \in Nat
  BY <1>1 DEF AtLeastZero
<1> QED
  BY <1>1, <1>2, <1>3 DEF RecordFor, TypeOK

LEMMA RecordStepType ==
  ASSUME TypeOK, NEW c \in Calls, Record(c) \/ RecordThrows(c)
  PROVE  TypeOK'
<1>1. ProcOf[c] \in Procs
  BY CallAssumption
<1>2. unreconciled' \in [Procs -> BOOLEAN] /\ doubtful' \subseteq Calls \cup Procs
  BY <1>1, MarkType DEF Record, RecordThrows, TypeOK
<1>3. /\ StoreTypeOK'
      /\ reservation' \in [Calls -> {"none", "held", "closed"}]
      /\ overrun' \in [Days -> Nat]
  <2>1. CASE RecordFor(c)
    BY <2>1, RecordForType
  <2>2. CASE UNCHANGED ledgerVars
    BY <2>2 DEF ledgerVars, TypeOK, StoreTypeOK
  <2> QED
    BY <2>1, <2>2 DEF Record, RecordThrows
<1> QED
  BY <1>2, <1>3 DEF Record, RecordThrows, TypeOK, PCs, Goto, gateVars, spendVars,
                    vendorVars

LEMMA CrashType ==
  ASSUME TypeOK, NEW p \in Procs, Crash(p)
  PROVE  TypeOK'
<1>1. pc' \in [Calls -> PCs]
  BY DEF Crash, TypeOK, PCs
<1>2. snapshot' \in [Procs -> Snapshots \cup {None}]
  BY DEF Crash, TypeOK
<1>3. unreconciled' \in [Procs -> BOOLEAN] /\ doubtful' \subseteq Calls \cup Procs
  BY DEF Crash, TypeOK
<1> QED
  BY <1>1, <1>2, <1>3 DEF Crash, TypeOK, StoreTypeOK, gateVars, spendVars, vendorVars,
                          ledgerVars

LEMMA TickType ==
  ASSUME TypeOK, Tick
  PROVE  TypeOK'
BY DEF Tick, TypeOK, StoreTypeOK, accountVars, gateVars, spendVars, vendorVars, ledgerVars

LEMMA StutterType ==
  ASSUME TypeOK, UNCHANGED vars
  PROVE  TypeOK'
BY DEF TypeOK, StoreTypeOK, vars, accountVars, gateVars, spendVars, vendorVars, ledgerVars

LEMMA NextTypeOK == Typed /\ [Next]_vars => TypeOK'
<1> SUFFICES ASSUME Typed, [Next]_vars PROVE TypeOK'
  OBVIOUS
<1> USE DEF Typed
<1>1. ASSUME NEW c \in Calls, CallStep(c) PROVE TypeOK'
  BY <1>1, EnsureBudgetType, ReadUsageType, AskAccountType, AccountAnswersType,
     StopsType, PriceAfterRefreshType, StoreStepType, SendSubCallType,
     SubCallAnswersType, SubCallFailsType, ReconcileType, RecordStepType
  DEF CallStep
<1>2. ASSUME NEW p \in Procs, Crash(p) PROVE TypeOK'
  BY <1>2, CrashType
<1>3. CASE Tick
  BY <1>3, TickType
<1>4. CASE Finished \/ UNCHANGED vars
  BY <1>4, StutterType DEF Finished
<1> QED
  BY <1>1, <1>2, <1>3, <1>4 DEF Next

--------------------------------------------------------------------------------
(* A call that is priced after its refresh finds a snapshot *)

LEMMA AnswerSnapshot ==
  ASSUME TypeOK, NEW c \in Calls, AccountAnswers(c)
  PROVE  snapshot'[ProcOf[c]] # None
<1>1. ProcOf[c] \in Procs
  BY CallAssumption
<1>2. PICK new \in Snapshots : snapshot' = [snapshot EXCEPT ![ProcOf[c]] = new]
  BY AccountAnswersSnapshot
<1> QED
  BY <1>1, <1>2, SnapshotAssumption DEF TypeOK

\* Only an answer leads to "price", and it leaves a snapshot; only a crash takes
\* the snapshot away, and it ends the calls of its process.
LEMMA NextPriced ==
  ASSUME Typed, [Next]_vars
  PROVE  PricedWithSnapshot'
<1> USE DEF Typed
<1>1. ASSUME NEW c \in Calls, AccountAnswers(c) PROVE PricedWithSnapshot'
  <2>1. snapshot'[ProcOf[c]] # None
    BY <1>1, AnswerSnapshot
  <2>2. PICK new \in Snapshots : snapshot' = [snapshot EXCEPT ![ProcOf[c]] = new]
    BY <1>1, AccountAnswersSnapshot
  <2>3. pc' = [pc EXCEPT ![c] = "price"]
    BY <1>1 DEF AccountAnswers, Goto
  <2> QED
    BY <2>1, <2>2, <2>3, CallAssumption DEF PricedWithSnapshot, TypeOK
<1>2. ASSUME NEW c \in Calls, CallStep(c), ~AccountAnswers(c)
      PROVE  PricedWithSnapshot'
  <2>1. UNCHANGED snapshot
    BY <1>2 DEF CallStep, EnsureBudget, ReadUsage, AskAccount, AccountFails,
                PriceAfterRefresh, CheckAndReserve, RefuseReservation, ReserveThrows,
                SendSubCall, SubCallAnswers, SubCallFails, Reconcile, Record,
                RecordThrows, accountVars
  <2>2. pc'[c] # "price" /\ \A d \in Calls : d # c => pc'[d] = pc[d]
    <3>1. \E where \in PCs \ {"price"} : pc' = [pc EXCEPT ![c] = where]
      BY <1>2 DEF CallStep, EnsureBudget, ReadUsage, AskAccount, AccountFails,
                  PriceAfterRefresh, CheckAndReserve, RefuseReservation,
                  ReserveThrows, SendSubCall, SubCallAnswers, SubCallFails,
                  Reconcile, Record, RecordThrows, Price, Goto, PCs
    <3> QED
      BY <3>1 DEF TypeOK
  <2> QED
    BY <2>1, <2>2 DEF PricedWithSnapshot
<1>3. ASSUME NEW p \in Procs, Crash(p) PROVE PricedWithSnapshot'
  <2>1. \A c \in Calls : ProcOf[c] = p => pc'[c] # "price"
    BY <1>3 DEF Crash, Active
  <2>2. \A c \in Calls : ProcOf[c] # p =>
          pc'[c] = pc[c] /\ snapshot'[ProcOf[c]] = snapshot[ProcOf[c]]
    BY <1>3, CallAssumption DEF Crash, TypeOK
  <2> QED
    BY <2>1, <2>2 DEF PricedWithSnapshot
<1>4. CASE Tick \/ Finished \/ UNCHANGED vars
  BY <1>4 DEF Tick, Finished, vars, accountVars, PricedWithSnapshot
<1> QED
  BY <1>1, <1>2, <1>3, <1>4 DEF Next

LEMMA InitPriced == Init => PricedWithSnapshot
BY DEF Init, PricedWithSnapshot

\* The model is typed: in every behaviour, whatever overlaps, fails or crashes.
THEOREM TypeCorrect == Spec => []TypeOK
<1>1. Init => Typed
  BY InitTypeOK, InitPriced DEF Typed
<1>2. Typed /\ [Next]_vars => Typed'
  BY NextTypeOK, NextPriced DEF Typed
<1>3. Typed => TypeOK
  BY DEF Typed
<1> QED
  BY <1>1, <1>2, <1>3, PTL DEF Spec

\* ensureBudget's remark that a snapshot is in place when it prices a call holds
\* for any number of calls sharing the process.
THEOREM SnapshotInPlace == Spec => []PricedWithSnapshot
<1>1. Init => Typed
  BY InitTypeOK, InitPriced DEF Typed
<1>2. Typed /\ [Next]_vars => Typed'
  BY NextTypeOK, NextPriced DEF Typed
<1>3. Typed => PricedWithSnapshot
  BY DEF Typed
<1> QED
  BY <1>1, <1>2, <1>3, PTL DEF Spec

--------------------------------------------------------------------------------
(* The explicit daily cap *)

\* The inductive invariant: CapHeld alone does not survive a reservation, which
\* is admitted under the ceiling the call was priced with, several steps ago.
IInv == Typed /\ StoredUnderCap /\ CapHeld

LEMMA InitIInv == Init => IInv
<1> SUFFICES ASSUME Init PROVE IInv
  OBVIOUS
<1>1. Typed
  BY InitTypeOK, InitPriced DEF Typed
<1>2. StoredUnderCap
  BY DEF Init, StoredUnderCap
<1>3. CapHeld
  BY LimitAssumption DEF Init, StoreInit, EmptyRow, CapHeld
<1> QED
  BY <1>1, <1>2, <1>3 DEF IInv

\* A call reaches the store only by being priced, under a ceiling cut to the cap.
LEMMA PriceUnderCap ==
  ASSUME TypeOK, StoredUnderCap, NEW c \in Calls, snapshot[ProcOf[c]] # None, Price(c)
  PROVE  StoredUnderCap'
<1> DEFINE s == snapshot[ProcOf[c]]
           limit == EffectiveCeiling(s)
<1>1. s \in Snapshots
  BY CallAssumption DEF TypeOK
<1>2. DailyCreditCap \in Nat => limit <= DailyCreditCap
  BY <1>1, CeilingType
<1>3. \/ pc' = [pc EXCEPT ![c] = "done"] /\ UNCHANGED ceiling
      \/ pc' = [pc EXCEPT ![c] = "store"] /\ ceiling' = [ceiling EXCEPT ![c] = limit]
  BY DEF Price, Goto
<1> HIDE DEF limit
<1> QED
  BY <1>2, <1>3 DEF StoredUnderCap, TypeOK

LEMMA NextStoredUnderCap ==
  ASSUME Typed, StoredUnderCap, [Next]_vars
  PROVE  StoredUnderCap'
<1> USE DEF Typed
<1>1. ASSUME NEW c \in Calls, EnsureBudget(c) PROVE StoredUnderCap'
  <2>1. CASE NeedsResync(ProcOf[c], Day(now))
    BY <1>1, <2>1 DEF EnsureBudget, Goto, StoredUnderCap, TypeOK
  <2>2. CASE ~NeedsResync(ProcOf[c], Day(now))
    <3>1. snapshot[ProcOf[c]] # None /\ Price(c)
      BY <1>1, <2>2 DEF EnsureBudget, NeedsResync
    <3> QED
      BY <3>1, PriceUnderCap
  <2> QED
    BY <2>1, <2>2
<1>2. ASSUME NEW c \in Calls, PriceAfterRefresh(c) PROVE StoredUnderCap'
  <2>1. snapshot[ProcOf[c]] # None /\ Price(c)
    BY <1>2 DEF PriceAfterRefresh, PricedWithSnapshot
  <2> QED
    BY <2>1, PriceUnderCap
<1>3. ASSUME NEW c \in Calls, CallStep(c), ~EnsureBudget(c), ~PriceAfterRefresh(c)
      PROVE  StoredUnderCap'
  <2>1. UNCHANGED ceiling
    BY <1>3 DEF CallStep, ReadUsage, AskAccount, AccountAnswers, AccountFails,
                CheckAndReserve, RefuseReservation, ReserveThrows, SendSubCall,
                SubCallAnswers, SubCallFails, Reconcile, Record, RecordThrows, gateVars
  <2>2. \E where \in PCs \ {"store"} : pc' = [pc EXCEPT ![c] = where]
    BY <1>3 DEF CallStep, ReadUsage, AskAccount, AccountAnswers, AccountFails,
                CheckAndReserve, RefuseReservation, ReserveThrows, SendSubCall,
                SubCallAnswers, SubCallFails, Reconcile, Record, RecordThrows, Goto, PCs
  <2> QED
    BY <2>1, <2>2 DEF StoredUnderCap, TypeOK
<1>4. ASSUME NEW p \in Procs, Crash(p) PROVE StoredUnderCap'
  BY <1>4 DEF Crash, gateVars, StoredUnderCap
<1>5. CASE Tick \/ Finished \/ UNCHANGED vars
  BY <1>5 DEF Tick, Finished, vars, gateVars, StoredUnderCap
<1> QED
  BY <1>1, <1>2, <1>3, <1>4, <1>5 DEF Next

\* A reservation that is admitted leaves its day under the cap.
LEMMA ReserveKeepsCap ==
  ASSUME TypeOK, StoredUnderCap, CapHeld, NEW c \in Calls, pc[c] = "store",
         AdmitsCall(c), ReserveFor(c), UNCHANGED overrun
  PROVE  CapHeld'
<1> SUFFICES ASSUME DailyCreditCap \in Nat, NEW d \in Days
             PROVE  usage'[d].credits <= DailyCreditCap + overrun[d]
  BY DEF CapHeld
<1>1. overrun[d] \in Nat /\ usage[d] \in Row /\ usage \in [Days -> Row]
  BY DEF TypeOK, StoreTypeOK
<1>2. usage' = [usage EXCEPT ![bucket[c]] = Charge(@, reservedTotal[c])]
  BY DEF ReserveFor, Reserve
<1>3. CASE d = bucket[c]
  <2>1. usage[d].credits + reservedTotal[c] <= ceiling[c]
    BY <1>3, NoneAssumption DEF AdmitsCall, Admits, Within, TypeOK
  <2>2. ceiling[c] <= DailyCreditCap
    BY DEF StoredUnderCap
  <2>3. usage'[d].credits = usage[d].credits + reservedTotal[c]
    BY <1>1, <1>2, <1>3 DEF Charge
  <2>4. usage[d].credits \in Int /\ reservedTotal[c] \in Int /\ ceiling[c] \in Int
    BY <1>1 DEF Row, TypeOK
  <2> QED
    BY <1>1, <2>1, <2>2, <2>3, <2>4
<1>4. CASE d # bucket[c]
  BY <1>1, <1>2, <1>4 DEF CapHeld
<1> QED
  BY <1>3, <1>4

\* A correction raises a day by at most what it adds to the overrun of that day.
LEMMA RecordKeepsCap ==
  ASSUME TypeOK, CapHeld, NEW c \in Calls, RecordFor(c)
  PROVE  CapHeld'
<1> SUFFICES ASSUME DailyCreditCap \in Nat, NEW d \in Days
             PROVE  usage'[d].credits <= DailyCreditCap + overrun'[d]
  BY DEF CapHeld
<1>1. /\ overrun[d] \in Nat /\ usage[d].credits \in Int /\ delta[c] \in Int
      /\ usage \in [Days -> Row] /\ overrun \in [Days -> Nat]
  BY DEF TypeOK, StoreTypeOK, Row
<1>2. usage[d].credits <= DailyCreditCap + overrun[d]
  BY DEF CapHeld
<1>3. /\ usage' = [usage EXCEPT ![bucket[c]] = Adjust(@, delta[c])]
      /\ overrun' = [overrun EXCEPT ![bucket[c]] = @ + AtLeastZero(delta[c])]
  BY DEF RecordFor, RecordDelta
<1>4. CASE d = bucket[c]
  <2>1. /\ usage'[d].credits = AtLeastZero(usage[d].credits + delta[c])
        /\ overrun'[d] = overrun[d] + AtLeastZero(delta[c])
    BY <1>1, <1>3, <1>4 DEF Adjust
  <2> QED
    BY <1>1, <1>2, <2>1 DEF AtLeastZero
<1>5. CASE d # bucket[c]
  BY <1>1, <1>2, <1>3, <1>5
<1> QED
  BY <1>4, <1>5

LEMMA NextCapHeld ==
  ASSUME IInv, [Next]_vars
  PROVE  CapHeld'
<1> USE DEF IInv, Typed
<1>1. ASSUME NEW c \in Calls, CheckAndReserve(c) PROVE CapHeld'
  BY <1>1, ReserveKeepsCap DEF CheckAndReserve
<1>2. ASSUME NEW c \in Calls, ReserveThrows(c) PROVE CapHeld'
  <2>1. CASE AdmitsCall(c) /\ ReserveFor(c)
    BY <1>2, <2>1, ReserveKeepsCap DEF ReserveThrows
  <2>2. CASE UNCHANGED <<usage, usageWindow, reservation>>
    BY <1>2, <2>2 DEF ReserveThrows, CapHeld
  <2> QED
    BY <1>2, <2>1, <2>2 DEF ReserveThrows
<1>3. ASSUME NEW c \in Calls, Record(c) PROVE CapHeld'
  BY <1>3, RecordKeepsCap DEF Record
<1>4. ASSUME NEW c \in Calls, RecordThrows(c) PROVE CapHeld'
  <2>1. CASE RecordFor(c)
    BY <2>1, RecordKeepsCap
  <2>2. CASE UNCHANGED ledgerVars
    BY <2>2 DEF ledgerVars, CapHeld
  <2> QED
    BY <1>4, <2>1, <2>2 DEF RecordThrows
<1>5. ASSUME NEW c \in Calls, CallStep(c), ~CheckAndReserve(c), ~ReserveThrows(c),
             ~Record(c), ~RecordThrows(c)
      PROVE  CapHeld'
  <2>1. UNCHANGED <<usage, overrun>>
    BY <1>5 DEF CallStep, EnsureBudget, ReadUsage, AskAccount, AccountAnswers,
                AccountFails, PriceAfterRefresh, RefuseReservation, SendSubCall,
                SubCallAnswers, SubCallFails, Reconcile, ledgerVars
  <2> QED
    BY <2>1 DEF CapHeld
<1>6. CASE (\E p \in Procs : Crash(p)) \/ Tick \/ Finished \/ UNCHANGED vars
  BY <1>6 DEF Crash, Tick, Finished, vars, ledgerVars, CapHeld
<1> QED
  BY <1>1, <1>2, <1>3, <1>4, <1>5, <1>6 DEF Next

LEMMA NextIInv == IInv /\ [Next]_vars => IInv'
BY NextTypeOK, NextPriced, NextStoredUnderCap, NextCapHeld DEF IInv, Typed

\* The explicit cap is kept by any number of calls in any number of processes:
\* a day's ledger passes it only by what the vendor reported above reservations.
THEOREM CapIsHeld == Spec => []CapHeld
<1>1. IInv => CapHeld
  BY DEF IInv
<1> QED
  BY <1>1, InitIInv, NextIInv, PTL DEF Spec

\* The cap a process derived first for a day survives every later observation
\* of that day.
THEOREM CapStaysPinned == Spec => CapPinned
<1> DEFINE Pinned ==
      \A p \in Procs :
        (/\ snapshot[p] # None /\ snapshot'[p] # None
         /\ snapshot[p].day = snapshot'[p].day)
        => snapshot'[p].cap = snapshot[p].cap
<1>1. ASSUME Typed, [Next]_vars PROVE [Pinned]_vars
  <2> USE <1>1 DEF Typed
  <2>1. ASSUME NEW c \in Calls, AccountAnswers(c) PROVE Pinned
    <3>1. PICK new \in Snapshots :
            /\ snapshot' = [snapshot EXCEPT ![ProcOf[c]] = new]
            /\ new.day = bucket[c]
            /\ (/\ snapshot[ProcOf[c]] # None
                /\ snapshot[ProcOf[c]].day = bucket[c])
               => new.cap = snapshot[ProcOf[c]].cap
      BY <2>1, AccountAnswersSnapshot
    <3> QED
      BY <3>1, CallAssumption DEF TypeOK
  <2>2. ASSUME NEW p \in Procs, Crash(p) PROVE Pinned
    <3>1. snapshot' = [snapshot EXCEPT ![p] = None]
      BY <2>2 DEF Crash
    <3> QED
      BY <3>1 DEF TypeOK
  <2>3. CASE UNCHANGED snapshot
    BY <2>3
  <2>4. ASSUME NEW c \in Calls, CallStep(c), ~AccountAnswers(c)
        PROVE  UNCHANGED snapshot
    BY <2>4 DEF CallStep, EnsureBudget, ReadUsage, AskAccount, AccountFails,
                PriceAfterRefresh, CheckAndReserve, RefuseReservation, ReserveThrows,
                SendSubCall, SubCallAnswers, SubCallFails, Reconcile, Record,
                RecordThrows, accountVars
  <2>5. ASSUME Tick \/ Finished \/ UNCHANGED vars PROVE UNCHANGED snapshot
    BY <2>5 DEF Tick, Finished, vars, accountVars
  <2> QED
    BY <1>1, <2>1, <2>2, <2>3, <2>4, <2>5 DEF Next
<1>2. Spec => []Typed
  BY TypeCorrect, SnapshotInPlace, PTL DEF Typed
<1> QED
  BY <1>1, <1>2, PTL DEF Spec, CapPinned

--------------------------------------------------------------------------------
(* The counters are what the calls owe *)

\* What a call holds follows from where it is, and the correction it carries is
\* the one its report calls for.
HeldInOrder(c) ==
  /\ pc[c] \in {"idle", "observe", "ask", "answer", "price", "store"} => ~Reserved(c)
  /\ pc[c] \in {"send", "wait", "settle", "record"} => reservation[c] = "held"
  /\ pc[c] = "record" =>
       delta[c] = IF Plausible(c) THEN reported[c] - reservedTotal[c] ELSE 0

Holders == {c \in Calls : Reserved(c)}

ConservedInv ==
  /\ Typed
  /\ \A c \in Calls : HeldInOrder(c)
  /\ IsFiniteSet(Holders)
  /\ CountersConserve

LEMMA OwedIsNat ==
  ASSUME TypeOK
  PROVE  \A c \in Calls : Owed[c] \in Nat
<1> SUFFICES ASSUME NEW c \in Calls PROVE Owed[c] \in Nat
  OBVIOUS
<1>1. reservation[c] \in {"none", "held", "closed"} /\ reservedTotal[c] \in Nat
      /\ reported[c] \in Nat \cup {BadHeader}
  BY DEF TypeOK
<1>2. Plausible(c) => reported[c] \in Nat
  BY <1>1 DEF Plausible
<1> QED
  BY <1>1, <1>2 DEF Owed

\* A finite set of holders adds up to a row.
LEMMA RowAddsUp ==
  ASSUME TypeOK, IsFiniteSet(Holders), NEW S \in SUBSET Holders
  PROVE  /\ IsFiniteSet(S) /\ S \subseteq Calls
         /\ RowOf(S).credits = SumFunctionOnSet(Owed, S) /\ RowOf(S).calls = Cardinality(S)
         /\ SumFunctionOnSet(Owed, S) \in Nat /\ Cardinality(S) \in Nat
<1>1. IsFiniteSet(S) /\ S \subseteq Calls
  BY FS_Subset DEF Holders
<1>2. SumFunctionOnSet(Owed, S) \in Nat
  BY <1>1, OwedIsNat, SumNat
<1> QED
  BY <1>1, <1>2, FS_CardinalityType DEF RowOf

LEMMA HoldersOf ==
  ASSUME NEW x
  PROVE  ReservedOn(x) \in SUBSET Holders /\ ReservedIn(x) \in SUBSET Holders
BY DEF ReservedOn, ReservedIn, Holders

\* A step that neither reserves nor records.
LEMMA IdleConserves ==
  ASSUME ConservedInv, UNCHANGED <<usage, usageWindow, reservation>>,
         \A c \in Holders : /\ bucket'[c] = bucket[c] /\ window'[c] = window[c]
                            /\ Owed'[c] = Owed[c]
  PROVE  CountersConserve' /\ Holders' = Holders
<1>1. TypeOK /\ IsFiniteSet(Holders) /\ LedgerConserves /\ WindowConserves
  BY DEF ConservedInv, Typed, CountersConserve
<1>2. \A x : /\ ReservedOn(x)' = ReservedOn(x) /\ ReservedIn(x)' = ReservedIn(x)
             /\ Pruned(x) => Pruned(x)'
  BY DEF ReservedOn, ReservedIn, Pruned, Reserved, Holders
<1>3. \A x : RowOf(ReservedOn(x))' = RowOf(ReservedOn(x))
             /\ RowOf(ReservedIn(x))' = RowOf(ReservedIn(x))
  <2> SUFFICES ASSUME NEW x PROVE /\ RowOf(ReservedOn(x))' = RowOf(ReservedOn(x))
                                  /\ RowOf(ReservedIn(x))' = RowOf(ReservedIn(x))
    OBVIOUS
  <2>1. ReservedOn(x) \in SUBSET Holders /\ ReservedIn(x) \in SUBSET Holders
    BY HoldersOf
  <2>2. SumFunctionOnSet(Owed, ReservedOn(x)) = SumFunctionOnSet(Owed', ReservedOn(x))
    <3>1. IsFiniteSet(ReservedOn(x)) /\ \A c \in ReservedOn(x) : Owed[c] = Owed'[c]
      BY <1>1, <2>1, RowAddsUp
    <3> QED  BY <3>1, SumSame
  <2>3. SumFunctionOnSet(Owed, ReservedIn(x)) = SumFunctionOnSet(Owed', ReservedIn(x))
    <3>1. IsFiniteSet(ReservedIn(x)) /\ \A c \in ReservedIn(x) : Owed[c] = Owed'[c]
      BY <1>1, <2>1, RowAddsUp
    <3> QED  BY <3>1, SumSame
  <2> QED  BY <1>2, <2>2, <2>3 DEF RowOf
<1>4. LedgerConserves'
  BY <1>1, <1>3 DEF LedgerConserves
<1>5. WindowConserves'
  BY <1>1, <1>2, <1>3 DEF WindowConserves
<1> QED
  BY <1>4, <1>5 DEF CountersConserve, Holders, Reserved

\* One more call on a row raises it by what the call reserves, and by one call.
LEMMA JoinRow ==
  ASSUME TypeOK, IsFiniteSet(Holders), NEW S \in SUBSET Holders, NEW c \in Calls \ S,
         \A d \in S : Owed'[d] = Owed[d], Owed'[c] \in Nat
  PROVE  /\ SumFunctionOnSet(Owed', S \cup {c}) = SumFunctionOnSet(Owed, S) + Owed'[c]
         /\ Cardinality(S \cup {c}) = Cardinality(S) + 1
<1>1. IsFiniteSet(S) /\ SumFunctionOnSet(Owed, S) \in Nat /\ S \subseteq Calls
  BY RowAddsUp
<1>2. \A d \in S \cup {c} : Owed'[d] \in Int
  BY <1>1, OwedIsNat
<1>3. SumFunctionOnSet(Owed', S \cup {c}) = Owed'[c] + SumFunctionOnSet(Owed', S)
  BY <1>1, <1>2, SumAdds
<1>4. SumFunctionOnSet(Owed, S) = SumFunctionOnSet(Owed', S)
  BY <1>1, SumSame
<1>5. Cardinality(S \cup {c}) = Cardinality(S) + 1
  BY <1>1, FS_AddElement
<1> QED
  BY <1>1, <1>3, <1>4, <1>5

\* A reservation is charged to its day and to its window, once.
LEMMA ReserveConserves ==
  ASSUME ConservedInv, NEW c \in Calls, pc[c] = "store", ReserveFor(c), UNCHANGED <<gateVars, spendVars>>
  PROVE  CountersConserve' /\ Holders' = Holders \cup {c}
<1>1. TypeOK /\ IsFiniteSet(Holders) /\ LedgerConserves /\ WindowConserves /\ ~Reserved(c)
  BY DEF ConservedInv, Typed, CountersConserve, HeldInOrder
<1>2. \A d \in Calls : Reserved(d)' <=> Reserved(d) \/ d = c
  BY <1>1 DEF Reserved, ReserveFor, TypeOK
<1>3. /\ Owed'[c] = reservedTotal[c] /\ reservedTotal[c] \in Nat
      /\ \A d \in Calls \ {c} : Owed'[d] = Owed[d]
  <2>1. UNCHANGED <<reservedTotal, reported>> /\ reservation' = [reservation EXCEPT ![c] = "held"]
    BY DEF ReserveFor, gateVars, spendVars
  <2>2. \A d \in Calls : Plausible(d)' = Plausible(d)
    BY <2>1 DEF Plausible
  <2> QED  BY <1>1, <2>1, <2>2 DEF Owed, TypeOK
<1>4. bucket' = bucket /\ window' = window
  BY DEF gateVars
<1>5. Holders' = Holders \cup {c}
  BY <1>2 DEF Holders
<1>6. c \notin Holders
  BY <1>1 DEF Holders
<1>7. LedgerConserves'
  <2> SUFFICES ASSUME NEW d \in Days PROVE usage'[d] = RowOf(ReservedOn(d))'
    BY DEF LedgerConserves
  <2>0. usage' = [usage EXCEPT ![bucket[c]] = Charge(@, reservedTotal[c])] /\ usage[d] = RowOf(ReservedOn(d))
        /\ ReservedOn(d) \in SUBSET Holders /\ c \notin ReservedOn(d) /\ usage \in [Days -> Row]
    BY <1>1, <1>6, HoldersOf DEF ReserveFor, Reserve, LedgerConserves, TypeOK, StoreTypeOK
  <2>1. CASE d = bucket[c]
    <3>1. ReservedOn(d)' = ReservedOn(d) \cup {c}
      BY <1>2, <1>4, <2>1 DEF ReservedOn
    <3>2. \A e \in ReservedOn(d) : Owed'[e] = Owed[e]
      BY <1>3, <2>0 DEF ReservedOn
    <3>3. /\ SumFunctionOnSet(Owed', ReservedOn(d) \cup {c})
               = SumFunctionOnSet(Owed, ReservedOn(d)) + reservedTotal[c]
          /\ Cardinality(ReservedOn(d) \cup {c}) = Cardinality(ReservedOn(d)) + 1
      BY <1>1, <1>3, <2>0, <3>2, JoinRow
    <3>4. usage'[d] = [credits |-> usage[d].credits + reservedTotal[c], calls |-> usage[d].calls + 1]
      BY <2>0, <2>1 DEF Charge
    <3>5. usage[d].credits = SumFunctionOnSet(Owed, ReservedOn(d)) /\ usage[d].calls = Cardinality(ReservedOn(d))
      BY <2>0 DEF RowOf
    <3> QED  BY <3>1, <3>3, <3>4, <3>5 DEF RowOf
  <2>2. CASE d # bucket[c]
    <3>1. ReservedOn(d)' = ReservedOn(d) /\ \A e \in ReservedOn(d) : Owed'[e] = Owed[e]
      BY <1>2, <1>3, <1>4, <2>0, <2>2 DEF ReservedOn
    <3>2. usage'[d] = usage[d]
      BY <2>0, <2>2
    <3>3. SumFunctionOnSet(Owed, ReservedOn(d)) = SumFunctionOnSet(Owed', ReservedOn(d))
      BY <1>1, <2>0, <3>1, RowAddsUp, SumSame
    <3> QED  BY <2>0, <3>1, <3>2, <3>3 DEF RowOf
  <2> QED  BY <2>1, <2>2
<1>8. WindowConserves'
  <2> SUFFICES ASSUME NEW w \in Windows, ~Pruned(w)' PROVE usageWindow'[w] = RowOf(ReservedIn(w))'
    BY DEF WindowConserves
  <2>0. ~Pruned(w) /\ ~(window[c] # None /\ window[c] > w + Retention)
    BY <1>2, <1>4 DEF Pruned
  <2>1. usageWindow[w] = RowOf(ReservedIn(w)) /\ ReservedIn(w) \in SUBSET Holders
        /\ c \notin ReservedIn(w) /\ usageWindow \in [Windows -> Row]
    BY <1>1, <1>6, <2>0, HoldersOf DEF WindowConserves, TypeOK, StoreTypeOK
  <2>2. w \in Int /\ window[c] \in Windows \cup {None} /\ None \notin Windows /\ Retention \in Nat
    <3>1. Windows \subseteq Int
      BY ClockAssumption DEF Windows, Window, Times
    <3> QED  BY <1>1, <3>1, NoneAssumption, ClockAssumption DEF TypeOK
  <2>3. \A e \in ReservedIn(w) : Owed'[e] = Owed[e]
    BY <1>3, <2>1 DEF ReservedIn
  <2>4. CASE w = window[c]
    <3>1. ReservedIn(w)' = ReservedIn(w) \cup {c}
      BY <1>2, <1>4, <2>4 DEF ReservedIn
    <3>2. /\ SumFunctionOnSet(Owed', ReservedIn(w) \cup {c})
               = SumFunctionOnSet(Owed, ReservedIn(w)) + reservedTotal[c]
          /\ Cardinality(ReservedIn(w) \cup {c}) = Cardinality(ReservedIn(w)) + 1
      BY <1>1, <1>3, <2>1, <2>3, JoinRow
    <3>3. usageWindow'[w]
            = [credits |-> usageWindow[w].credits + reservedTotal[c], calls |-> usageWindow[w].calls + 1]
      BY <2>1, <2>2, <2>4 DEF ReserveFor, Reserve, Charge
    <3>4. usageWindow[w].credits = SumFunctionOnSet(Owed, ReservedIn(w))
          /\ usageWindow[w].calls = Cardinality(ReservedIn(w))
      BY <2>1 DEF RowOf
    <3> QED  BY <3>1, <3>2, <3>3, <3>4 DEF RowOf
  <2>5. CASE w # window[c]
    <3>1. ReservedIn(w)' = ReservedIn(w)
      BY <1>2, <1>4, <2>5 DEF ReservedIn
    <3>2. usageWindow'[w] = usageWindow[w]
      <4>1. CASE window[c] = None
        BY <4>1 DEF ReserveFor, Reserve
      <4>2. CASE window[c] # None
        <5>1. window[c] \in Int
          BY <2>2, <4>2, ClockAssumption DEF Windows, Window, Times
        <5>2. ~(w < window[c] - Retention)
          BY <2>0, <2>2, <4>2, <5>1
        <5> QED  BY <2>5, <4>2, <5>2 DEF ReserveFor, Reserve
      <4> QED  BY <4>1, <4>2
    <3>3. SumFunctionOnSet(Owed, ReservedIn(w)) = SumFunctionOnSet(Owed', ReservedIn(w))
      BY <1>1, <2>1, <2>3, RowAddsUp, SumSame
    <3> QED  BY <2>1, <3>1, <3>2, <3>3 DEF RowOf
  <2> QED  BY <2>4, <2>5
<1> QED
  BY <1>5, <1>7, <1>8 DEF CountersConserve

\* A correction never drives a row below zero: the row holds the reservation
\* that is corrected, so the clamp of recordDelta changes nothing.
LEMMA AdjustSum ==
  ASSUME TypeOK, IsFiniteSet(Holders), NEW S \in SUBSET Holders, NEW c \in S, NEW amount \in Int,
         Owed'[c] = Owed[c] + amount, Owed'[c] \in Nat,
         \A d \in S \ {c} : Owed'[d] = Owed[d]
  PROVE  SumFunctionOnSet(Owed', S) = AtLeastZero(SumFunctionOnSet(Owed, S) + amount)
<1>1. IsFiniteSet(S) /\ S \subseteq Calls /\ SumFunctionOnSet(Owed, S) \in Nat
      /\ \A d \in Calls : Owed[d] \in Nat
  BY RowAddsUp, OwedIsNat
<1>2. \A d \in S : Owed[d] \in Int /\ Owed'[d] \in Int /\ Owed'[d] \in Nat
  BY <1>1
<1>3. SumFunctionOnSet(Owed', S) = SumFunctionOnSet(Owed, S) + Owed'[c] - Owed[c]
  BY <1>1, <1>2, SumChanges
<1>4. SumFunctionOnSet(Owed', S) \in Nat
  BY <1>1, <1>2, SumNat
<1> QED
  BY <1>1, <1>2, <1>3, <1>4 DEF AtLeastZero

\* A correction goes to the rows that hold the reservation.
LEMMA RecordConserves ==
  ASSUME ConservedInv, NEW c \in Calls, pc[c] = "record", RecordFor(c),
         UNCHANGED <<gateVars, spendVars>>
  PROVE  CountersConserve' /\ Holders' = Holders
<1>1. TypeOK /\ IsFiniteSet(Holders) /\ LedgerConserves /\ WindowConserves
      /\ reservation[c] = "held"
      /\ delta[c] = IF Plausible(c) THEN reported[c] - reservedTotal[c] ELSE 0
  BY DEF ConservedInv, Typed, CountersConserve, HeldInOrder
<1>2. \A d \in Calls : Reserved(d)' = Reserved(d)
  BY <1>1 DEF Reserved, RecordFor, TypeOK
<1>3. bucket' = bucket /\ window' = window
  BY DEF gateVars
<1>4. /\ Owed'[c] = Owed[c] + delta[c] /\ Owed'[c] \in Nat /\ delta[c] \in Int
      /\ \A d \in Calls \ {c} : Owed'[d] = Owed[d]
  <2>1. UNCHANGED <<reservedTotal, reported>> /\ reservation' = [reservation EXCEPT ![c] = "closed"]
    BY DEF RecordFor, gateVars, spendVars
  <2>2. \A d \in Calls : Plausible(d)' = Plausible(d)
    BY <2>1 DEF Plausible
  <2>3. Owed[c] = reservedTotal[c] /\ reservedTotal[c] \in Nat
    BY <1>1 DEF Owed, TypeOK
  <2>4. reservation'[c] = "closed"
    BY <1>1, <2>1 DEF TypeOK
  <2>5. Owed'[c] = IF Plausible(c) THEN reported[c] ELSE reservedTotal[c]
    BY <2>1, <2>2, <2>4 DEF Owed
  <2>6. Plausible(c) => reported[c] \in Nat
    BY <1>1 DEF Plausible, TypeOK
  <2>7. \A d \in Calls \ {c} : Owed'[d] = Owed[d]
    BY <1>1, <2>1, <2>2 DEF Owed, TypeOK
  <2> QED  BY <1>1, <2>3, <2>5, <2>6, <2>7
<1>5. c \in Holders /\ Holders' = Holders
  BY <1>1, <1>2 DEF Holders, Reserved
<1>6. \A x : ReservedOn(x)' = ReservedOn(x) /\ ReservedIn(x)' = ReservedIn(x)
             /\ (Pruned(x) => Pruned(x)')
  BY <1>2, <1>3 DEF ReservedOn, ReservedIn, Pruned
<1>7. LedgerConserves'
  <2> SUFFICES ASSUME NEW d \in Days PROVE usage'[d] = RowOf(ReservedOn(d))'
    BY DEF LedgerConserves
  <2>0. usage' = [usage EXCEPT ![bucket[c]] = Adjust(@, delta[c])] /\ usage[d] = RowOf(ReservedOn(d))
        /\ ReservedOn(d) \in SUBSET Holders /\ usage \in [Days -> Row]
    BY <1>1, HoldersOf DEF RecordFor, RecordDelta, LedgerConserves, TypeOK, StoreTypeOK
  <2>1. CASE d = bucket[c]
    <3>1. c \in ReservedOn(d)
      BY <1>5, <2>1 DEF ReservedOn, Holders
    <3>2. \A e \in ReservedOn(d) \ {c} : Owed'[e] = Owed[e]
      BY <1>4 DEF ReservedOn
    <3> DEFINE S == ReservedOn(d)
    <3>3. SumFunctionOnSet(Owed', S) = AtLeastZero(SumFunctionOnSet(Owed, S) + delta[c])
      BY <1>1, <1>4, <2>0, <3>1, <3>2, AdjustSum
    <3>4. usage'[d] = Adjust(RowOf(S), delta[c])
      BY <2>0, <2>1
    <3> QED  BY <1>6, <3>3, <3>4 DEF RowOf, Adjust
  <2>2. CASE d # bucket[c]
    <3>1. \A e \in ReservedOn(d) : Owed'[e] = Owed[e]
      BY <1>4, <2>2 DEF ReservedOn
    <3>2. SumFunctionOnSet(Owed, ReservedOn(d)) = SumFunctionOnSet(Owed', ReservedOn(d))
      BY <1>1, <2>0, <3>1, RowAddsUp, SumSame
    <3> QED  BY <1>6, <2>0, <2>2, <3>2 DEF RowOf
  <2> QED  BY <2>1, <2>2
<1>8. WindowConserves'
  <2> SUFFICES ASSUME NEW w \in Windows, ~Pruned(w)' PROVE usageWindow'[w] = RowOf(ReservedIn(w))'
    BY DEF WindowConserves
  <2>0. usageWindow[w] = RowOf(ReservedIn(w)) /\ ReservedIn(w) \in SUBSET Holders
        /\ usageWindow \in [Windows -> Row]
    BY <1>1, <1>6, HoldersOf DEF WindowConserves, TypeOK, StoreTypeOK
  <2>1. None \notin Windows
    BY NoneAssumption, ClockAssumption DEF Windows, Window, Times
  <2>2. CASE w = window[c]
    <3>1. c \in ReservedIn(w)
      BY <1>5, <2>2 DEF ReservedIn, Holders
    <3>2. \A e \in ReservedIn(w) \ {c} : Owed'[e] = Owed[e]
      BY <1>4 DEF ReservedIn
    <3> DEFINE S == ReservedIn(w)
    <3>3. SumFunctionOnSet(Owed', S) = AtLeastZero(SumFunctionOnSet(Owed, S) + delta[c])
      BY <1>1, <1>4, <2>0, <3>1, <3>2, AdjustSum
    <3>4. usageWindow'[w] = Adjust(RowOf(S), delta[c])
      BY <2>0, <2>1, <2>2 DEF RecordFor, RecordDelta
    <3> QED  BY <1>6, <3>3, <3>4 DEF RowOf, Adjust
  <2>3. CASE w # window[c]
    <3>1. \A e \in ReservedIn(w) : Owed'[e] = Owed[e]
      BY <1>4, <2>3 DEF ReservedIn
    <3>2. usageWindow'[w] = usageWindow[w]
      BY <2>0, <2>3 DEF RecordFor, RecordDelta
    <3>3. SumFunctionOnSet(Owed, ReservedIn(w)) = SumFunctionOnSet(Owed', ReservedIn(w))
      BY <1>1, <2>0, <3>1, RowAddsUp, SumSame
    <3> QED  BY <1>6, <2>0, <3>2, <3>3 DEF RowOf
  <2> QED  BY <2>2, <2>3
<1> QED
  BY <1>5, <1>7, <1>8 DEF CountersConserve

\* The steps of the gate and of the requests leave reservations as they are; a
\* call is priced and reported on before, or while, it holds one.
LEMMA OtherStepsHold ==
  ASSUME ConservedInv, NEW c \in Calls,
         \/ EnsureBudget(c) \/ ReadUsage(c) \/ AskAccount(c) \/ AccountAnswers(c)
         \/ AccountFails(c) \/ PriceAfterRefresh(c) \/ RefuseReservation(c)
         \/ SendSubCall(c) \/ SubCallAnswers(c) \/ SubCallFails(c) \/ Reconcile(c)
  PROVE  /\ UNCHANGED <<usage, usageWindow, reservation>>
         /\ \A d \in Calls : HeldInOrder(d)'
         /\ \A d \in Holders : /\ bucket'[d] = bucket[d] /\ window'[d] = window[d]
                               /\ Owed'[d] = Owed[d]
<1>1. TypeOK /\ \A d \in Calls : HeldInOrder(d)
  BY DEF ConservedInv, Typed
<1>2. UNCHANGED <<usage, usageWindow, reservation>>
  BY DEF EnsureBudget, ReadUsage, AskAccount, AccountAnswers, AccountFails, PriceAfterRefresh,
         RefuseReservation, SendSubCall, SubCallAnswers, SubCallFails, Reconcile, ledgerVars
<1>3. ASSUME NEW d \in Calls, d # c
      PROVE  /\ pc'[d] = pc[d] /\ bucket'[d] = bucket[d] /\ window'[d] = window[d]
             /\ reservedTotal'[d] = reservedTotal[d] /\ reported'[d] = reported[d]
             /\ delta'[d] = delta[d]
  BY <1>1, <1>3
  DEF EnsureBudget, ReadUsage, AskAccount, AccountAnswers, AccountFails, PriceAfterRefresh,
      RefuseReservation, SendSubCall, SubCallAnswers, SubCallFails, Reconcile, Price, Goto,
      gateVars, spendVars, TypeOK
<1>4. ASSUME NEW d \in Calls, d # c
      PROVE  HeldInOrder(d)' /\ Owed'[d] = Owed[d]
  <2>1. Plausible(d)' = Plausible(d) /\ Reserved(d)' = Reserved(d)
    BY <1>2, <1>3, <1>4 DEF Plausible, Reserved
  <2> QED  BY <1>1, <1>2, <1>3, <1>4, <2>1 DEF HeldInOrder, Owed
<1>5. CASE EnsureBudget(c) \/ PriceAfterRefresh(c)
  <2>1. ~Reserved(c) /\ ~Reserved(c)' /\ c \notin Holders
    BY <1>1, <1>2, <1>5 DEF EnsureBudget, PriceAfterRefresh, HeldInOrder, Reserved, Holders
  <2>2. pc'[c] \in {"observe", "done", "store"}
    BY <1>1, <1>5 DEF EnsureBudget, PriceAfterRefresh, Price, Goto, TypeOK
  <2>3. HeldInOrder(c)'
    BY <2>1, <2>2 DEF HeldInOrder
  <2> QED  BY <1>2, <1>3, <1>4, <2>1, <2>3 DEF Holders
<1>6. CASE ReadUsage(c) \/ AskAccount(c) \/ AccountAnswers(c) \/ AccountFails(c) \/ RefuseReservation(c)
  <2>1. ~Reserved(c) /\ ~Reserved(c)' /\ c \notin Holders
    BY <1>1, <1>2, <1>6 DEF ReadUsage, AskAccount, AccountAnswers, AccountFails, RefuseReservation,
                            HeldInOrder, Reserved, Holders
  <2>2. pc'[c] \in {"ask", "answer", "price", "done"}
    BY <1>1, <1>6 DEF ReadUsage, AskAccount, AccountAnswers, AccountFails, RefuseReservation,
                      Goto, TypeOK
  <2>3. HeldInOrder(c)'
    BY <2>1, <2>2 DEF HeldInOrder
  <2> QED  BY <1>2, <1>3, <1>4, <2>1, <2>3 DEF Holders
<1>7. CASE SendSubCall(c) \/ SubCallAnswers(c) \/ SubCallFails(c) \/ Reconcile(c)
  <2>1. reservation[c] = "held" /\ reservation'[c] = "held"
    BY <1>1, <1>2, <1>7 DEF SendSubCall, SubCallAnswers, SubCallFails, Reconcile, HeldInOrder
  <2>2. bucket'[c] = bucket[c] /\ window'[c] = window[c] /\ reservedTotal'[c] = reservedTotal[c]
    BY <1>7 DEF SendSubCall, SubCallAnswers, SubCallFails, Reconcile, gateVars
  <2>3. Owed'[c] = Owed[c]
    BY <2>1, <2>2 DEF Owed
  <2>4. HeldInOrder(c)'
    <3>1. CASE SendSubCall(c) \/ SubCallAnswers(c) \/ SubCallFails(c)
      <4>1. pc'[c] \in {"wait", "send", "settle"}
        BY <1>1, <3>1 DEF SendSubCall, SubCallAnswers, SubCallFails, Goto, TypeOK
      <4> QED  BY <2>1, <4>1 DEF HeldInOrder, Reserved
    <3>2. CASE Reconcile(c)
      <4>1. pc'[c] = "record" /\ UNCHANGED <<reported, reservedTotal>>
            /\ delta'[c] = IF Plausible(c) THEN reported[c] - reservedTotal[c] ELSE 0
        BY <1>1, <3>2 DEF Reconcile, Goto, TypeOK, gateVars
      <4>2. Plausible(c)' = Plausible(c)
        BY <4>1 DEF Plausible
      <4> QED  BY <2>1, <4>1, <4>2 DEF HeldInOrder, Reserved
    <3> QED  BY <1>7, <3>1, <3>2
  <2> QED  BY <1>2, <1>3, <1>4, <2>2, <2>3, <2>4 DEF Holders
<1> QED
  BY <1>5, <1>6, <1>7

\* Steps that end a call, in the store or after its last answer.
LEMMA LastStepsHold ==
  ASSUME ConservedInv, NEW c \in Calls,
         CheckAndReserve(c) \/ ReserveThrows(c) \/ Record(c) \/ RecordThrows(c)
  PROVE  \A d \in Calls : HeldInOrder(d)'
<1>1. TypeOK /\ \A d \in Calls : HeldInOrder(d)
  BY DEF ConservedInv, Typed
<1>2. UNCHANGED <<gateVars, spendVars>>
  BY DEF CheckAndReserve, ReserveThrows, Record, RecordThrows
<1>3. ASSUME NEW d \in Calls, d # c PROVE pc'[d] = pc[d] /\ reservation'[d] = reservation[d]
  BY <1>1, <1>3
  DEF CheckAndReserve, ReserveThrows, Record, RecordThrows, ReserveFor, RecordFor, Goto,
      ledgerVars, TypeOK
<1>4. pc'[c] = "done" \/ (pc'[c] = "send" /\ reservation'[c] = "held")
  BY <1>1
  DEF CheckAndReserve, ReserveThrows, Record, RecordThrows, ReserveFor, Goto, TypeOK
<1>5. \A d \in Calls : Plausible(d)' = Plausible(d)
  BY <1>2 DEF Plausible, gateVars, spendVars
<1>6. HeldInOrder(c)'
  BY <1>4 DEF HeldInOrder, Reserved
<1>7. ASSUME NEW d \in Calls, d # c PROVE HeldInOrder(d)'
  BY <1>1, <1>2, <1>3, <1>5, <1>7 DEF HeldInOrder, Reserved, gateVars, spendVars
<1> QED
  BY <1>6, <1>7

LEMMA NextConserves ==
  ASSUME ConservedInv, [Next]_vars
  PROVE  (\A c \in Calls : HeldInOrder(c)') /\ IsFiniteSet(Holders') /\ CountersConserve'
<1>0. TypeOK /\ IsFiniteSet(Holders) /\ \A c \in Calls : HeldInOrder(c)
  BY DEF ConservedInv, Typed
<1>1. ASSUME NEW c \in Calls, CheckAndReserve(c) \/ ReserveThrows(c)
      PROVE  IsFiniteSet(Holders') /\ CountersConserve'
  <2>1. CASE ReserveFor(c)
    <3>1. CountersConserve' /\ Holders' = Holders \cup {c}
      BY <1>1, <2>1, ReserveConserves DEF CheckAndReserve, ReserveThrows
    <3> QED  BY <1>0, <3>1, FS_AddElement
  <2>2. CASE UNCHANGED <<usage, usageWindow, reservation>>
    <3>1. UNCHANGED <<gateVars, spendVars>>
      BY <1>1 DEF CheckAndReserve, ReserveThrows
    <3>2. \A d \in Holders : bucket'[d] = bucket[d] /\ window'[d] = window[d] /\ Owed'[d] = Owed[d]
      BY <2>2, <3>1 DEF Owed, Plausible, gateVars, spendVars
    <3> QED  BY <1>0, <2>2, <3>2, IdleConserves
  <2> QED  BY <1>1, <2>1, <2>2 DEF CheckAndReserve, ReserveThrows
<1>2. ASSUME NEW c \in Calls, Record(c) \/ RecordThrows(c)
      PROVE  IsFiniteSet(Holders') /\ CountersConserve'
  <2>1. CASE RecordFor(c)
    BY <1>0, <1>2, <2>1, RecordConserves DEF Record, RecordThrows
  <2>2. CASE UNCHANGED ledgerVars
    <3>1. UNCHANGED <<gateVars, spendVars>>
      BY <1>2 DEF Record, RecordThrows
    <3>2. \A d \in Holders : bucket'[d] = bucket[d] /\ window'[d] = window[d] /\ Owed'[d] = Owed[d]
      BY <2>2, <3>1 DEF Owed, Plausible, gateVars, spendVars, ledgerVars
    <3> QED  BY <1>0, <2>2, <3>2, IdleConserves DEF ledgerVars
  <2> QED  BY <1>2, <2>1, <2>2 DEF Record, RecordThrows
<1>3. ASSUME NEW c \in Calls, CallStep(c)
      PROVE  (\A d \in Calls : HeldInOrder(d)') /\ IsFiniteSet(Holders') /\ CountersConserve'
  <2>1. CASE CheckAndReserve(c) \/ ReserveThrows(c) \/ Record(c) \/ RecordThrows(c)
    BY <1>1, <1>2, <2>1, LastStepsHold
  <2>2. CASE ~(CheckAndReserve(c) \/ ReserveThrows(c) \/ Record(c) \/ RecordThrows(c))
    <3>1. /\ UNCHANGED <<usage, usageWindow, reservation>>
          /\ \A d \in Calls : HeldInOrder(d)'
          /\ \A d \in Holders : /\ bucket'[d] = bucket[d] /\ window'[d] = window[d]
                                /\ Owed'[d] = Owed[d]
      BY <1>3, <2>2, OtherStepsHold DEF CallStep
    <3> QED  BY <1>0, <3>1, IdleConserves
  <2> QED  BY <2>1, <2>2
<1>4. ASSUME (\E p \in Procs : Crash(p)) \/ Tick \/ Finished \/ UNCHANGED vars
      PROVE  (\A d \in Calls : HeldInOrder(d)') /\ IsFiniteSet(Holders') /\ CountersConserve'
  <2>1. UNCHANGED <<gateVars, spendVars, ledgerVars>>
    BY <1>4 DEF Crash, Tick, Finished, vars
  <2>2. \A d \in Calls : pc'[d] = pc[d] \/ pc'[d] = "done"
    BY <1>4 DEF Crash, Tick, Finished, vars
  <2>3. \A d \in Calls : Plausible(d)' = Plausible(d)
    BY <2>1 DEF Plausible, gateVars, spendVars
  <2>4. \A d \in Calls : HeldInOrder(d)'
    BY <1>0, <2>1, <2>2, <2>3 DEF HeldInOrder, Reserved, gateVars, spendVars, ledgerVars
  <2>5. \A d \in Holders : bucket'[d] = bucket[d] /\ window'[d] = window[d] /\ Owed'[d] = Owed[d]
    BY <2>1, <2>3 DEF Owed, gateVars, spendVars, ledgerVars
  <2> QED  BY <1>0, <2>1, <2>4, <2>5, IdleConserves DEF ledgerVars
<1> QED
  BY <1>3, <1>4 DEF Next

\* Whatever overlaps, fails or crashes, every counter of the ledger is what its
\* calls reserved and what the vendor then reported for them.
THEOREM CountersAreConserved == Spec => []CountersConserve
<1>1. Init => ConservedInv
  <2> SUFFICES ASSUME Init PROVE ConservedInv
    OBVIOUS
  <2>1. Typed
    BY InitTypeOK, InitPriced DEF Typed
  <2>2. \A c \in Calls : HeldInOrder(c) /\ ~Reserved(c)
    BY DEF Init, HeldInOrder, Reserved
  <2>3. Holders = {} /\ IsFiniteSet({}) /\ Cardinality({}) = 0
    BY <2>2, FS_EmptySet DEF Holders
  <2>4. \A x : ReservedOn(x) = {} /\ ReservedIn(x) = {}
    BY <2>2 DEF ReservedOn, ReservedIn
  <2>5. RowOf({}) = EmptyRow
    BY <2>3, SumEmpty DEF RowOf, EmptyRow
  <2>6. CountersConserve
    BY <2>4, <2>5 DEF Init, StoreInit, CountersConserve, LedgerConserves, WindowConserves
  <2> QED  BY <2>1, <2>2, <2>3, <2>6 DEF ConservedInv
<1>2. ConservedInv /\ [Next]_vars => ConservedInv'
  BY NextTypeOK, NextPriced, NextConserves DEF ConservedInv, Typed
<1>3. ConservedInv => CountersConserve
  BY DEF ConservedInv
<1> QED
  BY <1>1, <1>2, <1>3, PTL DEF Spec

--------------------------------------------------------------------------------
(* The velocity windows *)

LEMMA DaysFinite == IsFiniteSet(Days)
<1> DEFINE f == [t \in Times |-> Day(t)]
<1>1. IsFiniteSet(Times)
  BY FS_Interval, ClockAssumption DEF Times
<1>2. f \in Surjection(Times, Days)
  BY DEF Days, Surjection
<1> HIDE DEF f
<1> QED
  BY <1>1, <1>2, FS_Surjection

VelocityInv == Typed /\ VelocityHeld

LEMMA OverrunIsNat ==
  ASSUME TypeOK
  PROVE  SumFunctionOnSet(overrun, Days) \in Nat
BY DaysFinite, SumNat DEF TypeOK

\* A reservation is admitted to its window only under the window's limits.
LEMMA ReserveKeepsVelocity ==
  ASSUME VelocityInv, NEW c \in Calls, AdmitsCall(c), ReserveFor(c), UNCHANGED overrun
  PROVE  VelocityHeld'
<1> SUFFICES ASSUME NEW w \in Windows
             PROVE  /\ MaxCallsPerWindow # None => usageWindow'[w].calls <= MaxCallsPerWindow
                    /\ VelocityCap \in Nat =>
                         usageWindow'[w].credits <= VelocityCap + SumFunctionOnSet(overrun, Days)
  BY DEF VelocityHeld
<1>0. TypeOK /\ usageWindow[w] \in Row /\ SumFunctionOnSet(overrun, Days) \in Nat
      /\ MaxCallsPerWindow \in Nat \cup {None}
  BY OverrunIsNat, LimitAssumption DEF VelocityInv, Typed, TypeOK, StoreTypeOK
<1>1. CASE usageWindow'[w] = usageWindow[w]
  BY <1>1 DEF VelocityInv, VelocityHeld
<1>2. CASE usageWindow'[w] = EmptyRow
  BY <1>0, <1>2 DEF EmptyRow
<1>3. CASE w = window[c] /\ w # None /\ usageWindow'[w] = Charge(usageWindow[w], reservedTotal[c])
  <2>1. /\ Within(usageWindow[w].credits + reservedTotal[c], VelocityCeiling(ceiling[c]))
        /\ Within(usageWindow[w].calls + 1, MaxCallsPerWindow)
    BY <1>3 DEF AdmitsCall, Admits
  <2>2. /\ usageWindow'[w].credits = usageWindow[w].credits + reservedTotal[c]
        /\ usageWindow'[w].calls = usageWindow[w].calls + 1
    BY <1>3 DEF Charge
  <2>3. VelocityCap \in Nat => VelocityCeiling(ceiling[c]) = VelocityCap /\ VelocityCap # None
    BY LimitAssumption, NoneAssumption DEF VelocityCeiling
  <2>4. usageWindow[w].credits \in Int /\ reservedTotal[c] \in Int
    BY <1>0 DEF Row, TypeOK
  <2> QED  BY <1>0, <2>1, <2>2, <2>3, <2>4 DEF Within
<1> QED
  BY <1>1, <1>2, <1>3 DEF ReserveFor, Reserve

\* A correction raises a window by at most what it adds to the overrun.
LEMMA RecordKeepsVelocity ==
  ASSUME VelocityInv, NEW c \in Calls, RecordFor(c)
  PROVE  VelocityHeld'
<1> SUFFICES ASSUME NEW w \in Windows
             PROVE  /\ MaxCallsPerWindow # None => usageWindow'[w].calls <= MaxCallsPerWindow
                    /\ VelocityCap \in Nat =>
                         usageWindow'[w].credits <= VelocityCap + SumFunctionOnSet(overrun', Days)
  BY DEF VelocityHeld
<1>0. TypeOK /\ usageWindow[w] \in Row /\ SumFunctionOnSet(overrun, Days) \in Nat
      /\ delta[c] \in Int /\ overrun \in [Days -> Nat] /\ bucket[c] \in Days
  BY OverrunIsNat DEF VelocityInv, Typed, TypeOK, StoreTypeOK
<1>1. overrun' = [overrun EXCEPT ![bucket[c]] = @ + AtLeastZero(delta[c])]
  BY DEF RecordFor
<1>2. AtLeastZero(delta[c]) \in Nat /\ overrun' \in [Days -> Nat]
  BY <1>0, <1>1 DEF AtLeastZero
<1>3. SumFunctionOnSet(overrun', Days)
        = SumFunctionOnSet(overrun, Days) + overrun'[bucket[c]] - overrun[bucket[c]]
  <2>1. /\ \A d \in Days : overrun[d] \in Int /\ overrun'[d] \in Int
        /\ \A d \in Days \ {bucket[c]} : overrun[d] = overrun'[d]
    BY <1>0, <1>1, <1>2
  <2> QED  BY <1>0, <2>1, DaysFinite, SumChanges
<1>4. SumFunctionOnSet(overrun', Days) = SumFunctionOnSet(overrun, Days) + AtLeastZero(delta[c])
  <2>1. overrun'[bucket[c]] = overrun[bucket[c]] + AtLeastZero(delta[c])
        /\ overrun[bucket[c]] \in Nat
    BY <1>0, <1>1
  <2> QED  BY <1>0, <1>2, <1>3, <2>1
<1>5. /\ MaxCallsPerWindow # None => usageWindow[w].calls <= MaxCallsPerWindow
      /\ VelocityCap \in Nat =>
           usageWindow[w].credits <= VelocityCap + SumFunctionOnSet(overrun, Days)
  BY DEF VelocityInv, VelocityHeld
<1>6. usageWindow'[w] = usageWindow[w] \/ usageWindow'[w] = Adjust(usageWindow[w], delta[c])
  BY <1>0 DEF RecordFor, RecordDelta, TypeOK, StoreTypeOK
<1>7. CASE usageWindow'[w] = usageWindow[w]
  <2>1. usageWindow[w].credits \in Int
    BY <1>0 DEF Row
  <2> QED  BY <1>0, <1>2, <1>4, <1>5, <1>7, <2>1
<1>8. CASE usageWindow'[w] = Adjust(usageWindow[w], delta[c])
  <2>1. usageWindow'[w].credits = AtLeastZero(usageWindow[w].credits + delta[c])
        /\ usageWindow'[w].calls = usageWindow[w].calls /\ usageWindow[w].credits \in Int
    BY <1>0, <1>8 DEF Adjust, Row
  <2> QED  BY <1>0, <1>4, <1>5, <2>1 DEF AtLeastZero
<1> QED
  BY <1>6, <1>7, <1>8

\* Over any number of processes, a window never admits more calls than it may,
\* nor more credits than its ceiling and what the vendor reported above it.
THEOREM VelocityIsHeld == Spec => []VelocityHeld
<1>1. Init => VelocityInv
  <2> SUFFICES ASSUME Init PROVE VelocityInv
    OBVIOUS
  <2>1. Typed
    BY InitTypeOK, InitPriced DEF Typed
  <2>2. SumFunctionOnSet(overrun, Days) \in Nat
    BY <2>1, OverrunIsNat DEF Typed
  <2>3. VelocityHeld
    BY <2>2, LimitAssumption DEF Init, StoreInit, EmptyRow, VelocityHeld
  <2> QED  BY <2>1, <2>3 DEF VelocityInv
<1>2. ASSUME VelocityInv, [Next]_vars PROVE VelocityHeld'
  <2>1. CASE UNCHANGED <<usageWindow, overrun>>
    BY <1>2, <2>1 DEF VelocityInv, VelocityHeld
  <2>2. ASSUME NEW c \in Calls, CheckAndReserve(c) \/ ReserveThrows(c) PROVE VelocityHeld'
    BY <1>2, <2>1, <2>2, ReserveKeepsVelocity DEF CheckAndReserve, ReserveThrows
  <2>3. ASSUME NEW c \in Calls, Record(c) \/ RecordThrows(c) PROVE VelocityHeld'
    BY <1>2, <2>1, <2>3, RecordKeepsVelocity DEF Record, RecordThrows, ledgerVars
  <2>4. ASSUME NEW c \in Calls, CallStep(c), ~CheckAndReserve(c), ~ReserveThrows(c),
               ~Record(c), ~RecordThrows(c)
        PROVE  VelocityHeld'
    <3>1. UNCHANGED <<usageWindow, overrun>>
      BY <2>4 DEF CallStep, EnsureBudget, ReadUsage, AskAccount, AccountAnswers,
                  AccountFails, PriceAfterRefresh, RefuseReservation, SendSubCall,
                  SubCallAnswers, SubCallFails, Reconcile, ledgerVars
    <3> QED  BY <2>1, <3>1
  <2>5. CASE (\E p \in Procs : Crash(p)) \/ Tick \/ Finished \/ UNCHANGED vars
    BY <2>1, <2>5 DEF Crash, Tick, Finished, vars, ledgerVars
  <2> QED  BY <1>2, <2>2, <2>3, <2>4, <2>5 DEF Next
<1>3. VelocityInv /\ [Next]_vars => VelocityInv'
  BY <1>2, NextTypeOK, NextPriced DEF VelocityInv, Typed
<1>4. VelocityInv => VelocityHeld
  BY DEF VelocityInv
<1> QED
  BY <1>1, <1>3, <1>4, PTL DEF Spec
================================================================================
