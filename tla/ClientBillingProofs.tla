-------------------------- MODULE ClientBillingProofs --------------------------
(****************************************************************************)
(* Theorems about ClientBilling, for every set of calls, processes, request *)
(* identities, prices and windows.  All of them rest on IndInv.             *)
(****************************************************************************)
EXTENDS ClientBilling, Sums, TLAPS

LEMMA InitIndInv == Init => IndInv
  <1> SUFFICES ASSUME Init PROVE IndInv
    OBVIOUS
  <1>1. balance \in [Profiles -> Nat \cup {None}] /\ granted \in [Profiles -> Int]
    <2>1. balance \in [Profiles -> OpeningBalances]
      BY DEF Init
    <2>2. \A p \in Profiles : balance[p] \in Nat \cup {None}
      BY <2>1, LedgerAssumption
    <2> QED  BY <2>1, <2>2 DEF Init
  <1>2. TypeOK
    BY <1>1, LedgerAssumption DEF Init, TypeOK, PCs, Outcomes
  <1> QED  BY <1>2 DEF Init, IndInv, ExpiredIsOld, OnARow, ModeIsCurrent

\* What the rows, the balances and the clock are when an action only moves a call.
LEMMA MoveKeepsIndInv ==
  ASSUME IndInv, NEW c \in Calls, NEW place \in PCs, Goto(c, place),
         UNCHANGED <<now, reader, up, moneyVars, granted>>,
         metered' \in [Calls -> BOOLEAN], stamp' \in [Calls -> Nat],
         outcome' \in [Calls -> Outcomes],
         \A d \in Calls \ {c} : metered'[d] = metered[d],
         place \in {"replay", "handle", "complete"} => RowOf(c) # None,
         place = "profile" => ProfileOf[KeyOf[c]] # None,
         metered'[c] => reader = "table" /\ OnMeteredProfile(c),
         Axis = "postgres" /\ reader = "table" /\ place \in {"stamp", "insert"}
           => metered'[c] = OnMeteredProfile(c)
  PROVE  IndInv'
  <1>1. TypeOK'
    BY DEF IndInv, TypeOK, Goto, PCs, moneyVars
  <1>2. ExpiredIsOld'
    BY DEF IndInv, ExpiredIsOld, moneyVars
  <1>3. OnARow'
    BY DEF IndInv, TypeOK, OnARow, Goto, RowOf, moneyVars
  <1>4. ModeIsCurrent'
    BY DEF IndInv, TypeOK, ModeIsCurrent, OnMeteredProfile, Goto, moneyVars
  <1> QED  BY <1>1, <1>2, <1>3, <1>4 DEF IndInv

\* A new row, with or without its debit, keeps the invariant; its call either
\* goes on to its handler or is told it was refused.
LEMMA TakeOnKeepsIndInv ==
  ASSUME IndInv, NEW c \in Calls, TakeOn(c), NEW place \in {"handle", "done"},
         Goto(c, place), UNCHANGED <<now, reader, up, metered, stamp, granted>>,
         outcome' \in [Calls -> Outcomes]
  PROVE  IndInv'
  <1>1. KeyOf[c] \in Keys /\ ToolOf[c] \in Tools /\ PriceOf(c) \in Nat
    BY CallAssumption DEF PriceOf
  <1>2. NewRow(c, Stamped(c)) \in Row
    BY <1>1 DEF IndInv, TypeOK, NewRow, Stamped, Row
  <1>3. metered[c] => /\ ProfileOf[KeyOf[c]] \in Profiles
                      /\ balance[ProfileOf[KeyOf[c]]] \in Nat
                      /\ balance[ProfileOf[KeyOf[c]]] - PriceOf(c) \in Nat
    <2> SUFFICES ASSUME metered[c]
                 PROVE  /\ ProfileOf[KeyOf[c]] \in Profiles
                        /\ balance[ProfileOf[KeyOf[c]]] \in Nat
                        /\ balance[ProfileOf[KeyOf[c]]] - PriceOf(c) \in Nat
      OBVIOUS
    <2>1. ProfileOf[KeyOf[c]] # None /\ Affordable(c)
      BY DEF IndInv, ModeIsCurrent, OnMeteredProfile, TakeOn
    <2>2. ProfileOf[KeyOf[c]] \in Profiles
      BY <1>1, <2>1, CallAssumption
    <2>3. balance[ProfileOf[KeyOf[c]]] \in Nat /\ balance[ProfileOf[KeyOf[c]]] >= PriceOf(c)
      BY <2>1, <2>2 DEF Affordable, IndInv, TypeOK
    <2> QED  BY <1>1, <2>2, <2>3
  <1>4. balance' \in [Profiles -> Nat \cup {None}] /\ debited' \subseteq Keys
    BY <1>1, <1>3 DEF IndInv, TypeOK, TakeOn
  <1>5. TypeOK'
    BY <1>1, <1>2, <1>4 DEF IndInv, TypeOK, TakeOn, Goto, PCs
  <1>6. ExpiredIsOld'
    BY <1>1 DEF IndInv, TypeOK, ExpiredIsOld, TakeOn, NewRow
  <1>7. OnARow'
    BY <1>1, <1>2, RowAssumption DEF IndInv, TypeOK, OnARow, TakeOn, Goto, RowOf
  <1>8. \A p \in Profiles : balance[p] = None <=> balance'[p] = None
    BY <1>1, <1>3, CallAssumption DEF IndInv, TypeOK, TakeOn
  <1>9. ModeIsCurrent'
    <2> SUFFICES ASSUME NEW d \in Calls
                 PROVE  /\ pc'[d] = "profile" => ProfileOf[KeyOf[d]] # None
                        /\ metered'[d] => reader' = "table" /\ OnMeteredProfile(d)'
                        /\ Axis = "postgres" /\ reader = "table" /\ pc'[d] \in {"stamp", "insert"}
                             => metered'[d] = OnMeteredProfile(d)'
      BY DEF ModeIsCurrent
    <2>1. KeyOf[d] \in Keys /\ ProfileOf[KeyOf[d]] \in Profiles \cup {None}
      BY CallAssumption
    <2>2. OnMeteredProfile(d)' = OnMeteredProfile(d)
      BY <1>8, <2>1 DEF OnMeteredProfile
    <2>3. pc'[d] = pc[d] \/ pc'[d] \in {"handle", "done"}
      BY DEF Goto, IndInv, TypeOK
    <2> QED  BY <2>2, <2>3 DEF IndInv, ModeIsCurrent
  <1> QED  BY <1>5, <1>6, <1>7, <1>9 DEF IndInv

\* Closing a reserved row, with or without a credit, keeps the invariant.
LEMMA CloseKeepsIndInv ==
  ASSUME IndInv, NEW k \in Keys, Reserved(k),
         NEW state \in {"settled", "refunded", "expired"}, Close(k, state),
         state = "expired" => Expired(k),
         Credit(k) \/ UNCHANGED balance,
         UNCHANGED <<now, reader, up, debited, metered, stamp, outcome, granted>>,
         pc' \in [Calls -> PCs],
         \A c \in Calls : pc'[c] = pc[c] \/ pc'[c] = "done"
  PROVE  IndInv'
  <1>1. rows[k] \in Row /\ rows[k].state = "reserved" /\ rows[k].price \in Nat
        /\ rows[k].reservedAt \in Nat
    BY DEF IndInv, TypeOK, Reserved, Row
  <1>2. [rows[k] EXCEPT !.state = state] \in Row
    BY <1>1 DEF Row
  <1>3. rows' = [rows EXCEPT ![k] = [rows[k] EXCEPT !.state = state]]
    BY DEF Close
  <1>4. rows' \in [Keys -> Row \cup {None}]
    BY <1>2, <1>3 DEF IndInv, TypeOK
  <1>5. balance' \in [Profiles -> Nat \cup {None}]
    BY <1>1 DEF IndInv, TypeOK, Credit
  <1>6. \A p \in Profiles : balance[p] = None <=> balance'[p] = None
    BY <1>1, CallAssumption DEF IndInv, TypeOK, Credit
  <1>7. TypeOK'
    BY <1>4, <1>5 DEF IndInv, TypeOK
  <1>8. ExpiredIsOld'
    <2> SUFFICES ASSUME NEW j \in Keys, rows'[j] # None, rows'[j].state = "expired"
                 PROVE  now' - rows'[j].reservedAt > Ceiling
      BY DEF ExpiredIsOld
    <2>1. CASE j = k
      <3>1. rows'[k].state = state /\ rows'[k].reservedAt = rows[k].reservedAt
        BY <1>1, <1>3 DEF IndInv, TypeOK, Row
      <3>2. rows[k].reservedAt < now - Ceiling
        BY <2>1, <3>1 DEF Expired
      <3> QED  BY <2>1, <3>1, <3>2, <1>1, LedgerAssumption DEF IndInv, TypeOK
    <2>2. CASE j # k
      BY <2>2, <1>3 DEF IndInv, TypeOK, ExpiredIsOld
    <2> QED  BY <2>1, <2>2
  <1>9. OnARow'
    BY <1>2, <1>3, RowAssumption, CallAssumption DEF IndInv, TypeOK, OnARow, RowOf
  <1>10. ModeIsCurrent'
    BY <1>6, CallAssumption DEF IndInv, TypeOK, ModeIsCurrent, OnMeteredProfile
  <1> QED  BY <1>7, <1>8, <1>9, <1>10 DEF IndInv

\* The steps of one call.
LEMMA BoundaryKeepsIndInv ==
  ASSUME IndInv, NEW c \in Calls, Boundary(c)
  PROVE  IndInv'
  <1>0. KeyOf[c] \in Keys
    BY CallAssumption
  <1> USE <1>0
  <1>1. CASE Cancelled(c)
    BY <1>1, MoveKeepsIndInv
    DEF Cancelled, Tell, IndInv, TypeOK, ModeIsCurrent, PCs, Outcomes
  <1>2. CASE Receive(c)
    <2> DEFINE place == IF Axis = "sqlite" THEN "insert"
                        ELSE IF ProfileOf[KeyOf[c]] = None THEN "stamp" ELSE "profile"
    <2>1. place \in PCs /\ Goto(c, place)
      BY <1>2 DEF Receive, PCs
    <2>2. place = "profile" => ProfileOf[KeyOf[c]] # None
      OBVIOUS
    <2>3. place \notin {"replay", "handle", "complete"}
      OBVIOUS
    <2>4. Axis = "postgres" /\ place \in {"stamp", "insert"} => ~OnMeteredProfile(c)
      BY DEF OnMeteredProfile
    <2>5. UNCHANGED <<now, reader, up, moneyVars, metered, stamp, outcome, granted>>
      BY <1>2 DEF Receive
    <2>6. metered \in [Calls -> BOOLEAN] /\ stamp \in [Calls -> Nat] /\ outcome \in [Calls -> Outcomes]
          /\ (metered[c] => reader = "table" /\ OnMeteredProfile(c))
      BY DEF IndInv, TypeOK, ModeIsCurrent
    <2> HIDE DEF place
    <2>7. Axis = "postgres" /\ reader = "table" /\ place \in {"stamp", "insert"}
            => metered'[c] = OnMeteredProfile(c)
      BY <2>4, <2>5, <2>6 DEF OnMeteredProfile
    <2> QED  BY <2>1, <2>2, <2>3, <2>5, <2>6, <2>7, MoveKeepsIndInv
  <1>3. CASE ReadProfile(c)
    <2>1. ProfileOf[KeyOf[c]] # None
      BY <1>3 DEF ReadProfile, IndInv, ModeIsCurrent
    <2>2. metered' \in [Calls -> BOOLEAN] /\ metered'[c] = (reader = "table" /\ OnMeteredProfile(c))
          /\ \A d \in Calls \ {c} : metered'[d] = metered[d]
      BY <1>3, <2>1 DEF ReadProfile, IndInv, TypeOK, OnMeteredProfile
    <2>3. (metered'[c] => reader = "table" /\ OnMeteredProfile(c)) /\ (reader = "table" => metered'[c] = OnMeteredProfile(c))
      <3>1. CASE reader = "table"
        BY <2>2, <3>1 DEF OnMeteredProfile
      <3>2. CASE reader # "table"
        BY <2>2, <3>2
      <3> QED  BY <3>1, <3>2
    <2>4. outcome' = outcome /\ outcome \in [Calls -> Outcomes] /\ stamp' = stamp /\ stamp \in [Calls -> Nat]
      BY <1>3 DEF ReadProfile, IndInv, TypeOK
    <2>5. Goto(c, "stamp") /\ "stamp" \in PCs /\ UNCHANGED <<now, reader, up, moneyVars, granted>>
      BY <1>3 DEF ReadProfile, PCs
    <2> QED  BY <2>2, <2>3, <2>4, <2>5, MoveKeepsIndInv
  <1>4. CASE Stamp(c)
    <2>1. Axis = "postgres" /\ reader = "table" => metered[c] = OnMeteredProfile(c)
      BY <1>4 DEF Stamp, IndInv, ModeIsCurrent
    <2>2. stamp' \in [Calls -> Nat]
      BY <1>4 DEF Stamp, IndInv, TypeOK
    <2> QED  BY <1>4, <2>1, <2>2, MoveKeepsIndInv DEF Stamp, IndInv, TypeOK, ModeIsCurrent, PCs
  <1>5. CASE Insert(c)
    BY <1>5, TakeOnKeepsIndInv DEF Insert, IndInv, TypeOK
  <1>6. CASE InsertUnacknowledged(c)
    BY <1>6, TakeOnKeepsIndInv DEF InsertUnacknowledged, Tell, IndInv, TypeOK, Outcomes
  <1>7. CASE Exhausted(c)
    BY <1>7, MoveKeepsIndInv
    DEF Exhausted, Tell, IndInv, TypeOK, ModeIsCurrent, PCs, Outcomes
  <1>8. CASE Conflict(c)
    BY <1>8, MoveKeepsIndInv DEF Conflict, IndInv, TypeOK, ModeIsCurrent, PCs
  <1>9. CASE Replay(c)
    BY <1>9, MoveKeepsIndInv DEF Replay, IndInv, TypeOK, OnARow, ModeIsCurrent, PCs
  <1>10. CASE ReplayRefused(c)
    BY <1>10, MoveKeepsIndInv
    DEF ReplayRefused, Tell, IndInv, TypeOK, ModeIsCurrent, PCs, Outcomes
  <1>11. CASE ReserveFails(c)
    BY <1>11, MoveKeepsIndInv
    DEF ReserveFails, Tell, IndInv, TypeOK, ModeIsCurrent, PCs, Outcomes
  <1>12. CASE Handle(c)
    BY <1>12, MoveKeepsIndInv
    DEF Handle, IndInv, TypeOK, OnARow, ModeIsCurrent, PCs, Outcomes
  <1>13. CASE HandlerThrows(c)
    BY <1>13, MoveKeepsIndInv
    DEF HandlerThrows, Tell, IndInv, TypeOK, ModeIsCurrent, PCs, Outcomes
  <1>14. CASE Complete(c)
    <2>1. CASE ~Reserved(KeyOf[c])
      BY <1>14, <2>1, MoveKeepsIndInv
      DEF Complete, Completion, IndInv, TypeOK, ModeIsCurrent, PCs, moneyVars
    <2>2. CASE Reserved(KeyOf[c])
      <3>1. PICK state \in {"settled", "refunded"} :
              Close(KeyOf[c], state) /\ (Credit(KeyOf[c]) \/ UNCHANGED balance)
        BY <1>14, <2>2 DEF Complete, Completion
      <3>2. pc' \in [Calls -> PCs] /\ \A d \in Calls : pc'[d] = pc[d] \/ pc'[d] = "done"
        BY <1>14 DEF Complete, Goto, IndInv, TypeOK, PCs
      <3> QED  BY <1>14, <2>2, <3>1, <3>2, CloseKeepsIndInv DEF Complete
    <2> QED  BY <2>1, <2>2
  <1>15. CASE CompletionFails(c)
    BY <1>15, MoveKeepsIndInv DEF CompletionFails, IndInv, TypeOK, ModeIsCurrent, PCs
  <1> QED
    BY <1>1, <1>2, <1>3, <1>4, <1>5, <1>6, <1>7, <1>8, <1>9, <1>10, <1>11, <1>12, <1>13, <1>14,
       <1>15
    DEF Boundary

\* The steps of the processes, the scan, the operator and the clock.
LEMMA OutsideKeepsIndInv ==
  ASSUME IndInv,
         \/ \E p \in Procs : Open(p) \/ OpenUnswept(p) \/ Crash(p)
         \/ \E k \in Keys : Reconcile(k)
         \/ \E p \in Profiles : Edit(p)
         \/ Tick
  PROVE  IndInv'
  <1>1. ASSUME NEW p \in Procs, Open(p) PROVE IndInv'
    <2>1. \A k \in Keys : \/ rows'[k] = rows[k]
                          \/ Expired(k) /\ rows'[k] = [rows[k] EXCEPT !.state = "expired"]
      BY <1>1 DEF Open
    <2>2. \A k \in Keys : Expired(k) => /\ rows[k] \in Row
                                       /\ [rows[k] EXCEPT !.state = "expired"] \in Row
                                       /\ now - rows[k].reservedAt > Ceiling
      BY LedgerAssumption DEF Expired, Reserved, IndInv, TypeOK, Row
    <2>3. rows' \in [Keys -> Row \cup {None}]
      BY <1>1, <2>1, <2>2 DEF IndInv, TypeOK, Open
    <2>4. TypeOK'
      BY <1>1, <2>3 DEF IndInv, TypeOK, Open, callVars
    <2>5. \A k \in Keys : Expired(k) => /\ [rows[k] EXCEPT !.state = "expired"].reservedAt = rows[k].reservedAt
                                       /\ [rows[k] EXCEPT !.state = "expired"] # None
      BY <2>2, RowAssumption DEF Row
    <2>6. ExpiredIsOld'
      BY <1>1, <2>1, <2>2, <2>5 DEF IndInv, ExpiredIsOld, Open
    <2>7. OnARow'
      BY <1>1, <2>1, <2>5, CallAssumption DEF IndInv, OnARow, RowOf, Open, callVars
    <2>8. ModeIsCurrent'
      BY <1>1 DEF IndInv, ModeIsCurrent, OnMeteredProfile, Open, callVars
    <2> QED  BY <2>4, <2>6, <2>7, <2>8 DEF IndInv
  <1>2. ASSUME NEW p \in Procs, OpenUnswept(p) PROVE IndInv'
    BY <1>2 DEF OpenUnswept, IndInv, TypeOK, ExpiredIsOld, OnARow, RowOf, ModeIsCurrent,
                OnMeteredProfile, moneyVars, callVars
  <1>3. ASSUME NEW p \in Procs, Crash(p) PROVE IndInv'
    BY <1>3 DEF Crash, IndInv, TypeOK, ExpiredIsOld, OnARow, RowOf, ModeIsCurrent,
                OnMeteredProfile, moneyVars, PCs
  <1>4. ASSUME NEW k \in Keys, Reconcile(k) PROVE IndInv'
    BY <1>4, CloseKeepsIndInv DEF Reconcile, Expired, callVars, IndInv, TypeOK
  <1>5. ASSUME NEW p \in Profiles, Edit(p) PROVE IndInv'
    <2>1. PICK v \in Edits : /\ balance' = [balance EXCEPT ![p] = v]
                             /\ granted' = [granted EXCEPT ![p] = granted[p] + v - balance[p]]
      BY <1>5 DEF Edit
    <2>2. v \in Nat /\ balance[p] \in Nat
      BY <1>5, <2>1, LedgerAssumption DEF Edit, IndInv, TypeOK
    <2>3. TypeOK'
      BY <1>5, <2>1, <2>2 DEF Edit, IndInv, TypeOK, callVars
    <2> QED
      BY <2>1, <2>2, <2>3, <1>5, CallAssumption
      DEF Edit, IndInv, TypeOK, ExpiredIsOld, OnARow, RowOf, ModeIsCurrent, OnMeteredProfile, callVars
  <1>6. CASE Tick
    <2>1. now' \in Nat /\ now' = now + 1
      BY <1>6 DEF Tick, IndInv, TypeOK
    <2>2. TypeOK'
      BY <1>6, <2>1 DEF Tick, IndInv, TypeOK, moneyVars, callVars
    <2>3. ExpiredIsOld'
      BY <1>6, <2>1, LedgerAssumption DEF Tick, IndInv, TypeOK, ExpiredIsOld, Row, moneyVars
    <2> QED  BY <1>6, <2>2, <2>3
             DEF Tick, IndInv, OnARow, RowOf, ModeIsCurrent, OnMeteredProfile, moneyVars, callVars
  <1> QED  BY <1>1, <1>2, <1>3, <1>4, <1>5, <1>6

LEMMA StutterKeepsIndInv == IndInv /\ UNCHANGED vars => IndInv'
  BY DEF vars, moneyVars, callVars, IndInv, TypeOK, ExpiredIsOld, OnARow, RowOf,
         ModeIsCurrent, OnMeteredProfile

\* Type correctness, with the facts every other theorem needs: rows the scan
\* took are past every replay window, a call past its reserve has a row, and
\* the mode a call holds is its profile's.
THEOREM LedgerInvariant == Spec => []IndInv
  <1>1. IndInv /\ [Next]_vars => IndInv'
    BY StutterKeepsIndInv, BoundaryKeepsIndInv, OutsideKeepsIndInv DEF Next
  <1> QED  BY InitIndInv, <1>1, PTL DEF Spec

--------------------------------------------------------------------------------
(* What a step may do to a row *)

\* A row that exists is left alone, or was reserved and is closed.
RowStep(k) ==
  \/ rows'[k] = rows[k]
  \/ Reserved(k) /\ rows'[k] = [rows[k] EXCEPT !.state = rows'[k].state]

LEMMA CloseIsRowStep ==
  ASSUME IndInv, NEW j \in Keys, Reserved(j),
         NEW state \in {"settled", "refunded", "expired"}, Close(j, state),
         NEW k \in Keys
  PROVE  RowStep(k)
  <1>1. CASE k = j
    <2>1. rows[k] \in Row /\ rows'[k] = [rows[k] EXCEPT !.state = state]
      BY <1>1 DEF IndInv, TypeOK, Reserved, Close
    <2>2. rows'[k].state = state
      BY <2>1 DEF Row
    <2> QED  BY <1>1, <2>1, <2>2 DEF RowStep
  <1>2. CASE k # j
    BY <1>2 DEF IndInv, TypeOK, Close, RowStep
  <1> QED  BY <1>1, <1>2

LEMMA EveryStepIsRowStep ==
  ASSUME IndInv, [Next]_vars, NEW k \in Keys, rows[k] # None
  PROVE  RowStep(k)
  <1>1. CASE UNCHANGED rows
    BY <1>1 DEF RowStep
  <1>2. ASSUME NEW p \in Procs, Open(p) PROVE RowStep(k)
    <2>1. CASE Expired(k) /\ rows'[k] = [rows[k] EXCEPT !.state = "expired"]
      <3>1. rows[k] \in Row /\ Reserved(k)
        BY <2>1 DEF Expired, IndInv, TypeOK
      <3>2. rows'[k].state = "expired"
        BY <2>1, <3>1 DEF Row
      <3> QED  BY <2>1, <3>1, <3>2 DEF RowStep
    <2>2. CASE rows'[k] = rows[k]
      BY <2>2 DEF RowStep
    <2> QED  BY <1>2, <2>1, <2>2 DEF Open
  <1>3. ASSUME NEW c \in Calls, TakeOn(c) PROVE RowStep(k)
    BY <1>3 DEF TakeOn, RowOf, RowStep, IndInv, TypeOK
  <1>4. ASSUME NEW c \in Calls, Complete(c) PROVE RowStep(k)
    <2>1. CASE ~Reserved(KeyOf[c])
      BY <1>4, <2>1 DEF Complete, Completion, RowStep
    <2>2. CASE Reserved(KeyOf[c])
      <3>1. PICK state \in {"settled", "refunded"} : Close(KeyOf[c], state)
        BY <1>4, <2>2 DEF Complete, Completion
      <3> QED  BY <2>2, <3>1, CloseIsRowStep, CallAssumption
    <2> QED  BY <2>1, <2>2
  <1>5. ASSUME NEW j \in Keys, Reconcile(j) PROVE RowStep(k)
    BY <1>5, CloseIsRowStep DEF Reconcile, Expired
  <1>6. ASSUME NEW c \in Calls, Boundary(c) PROVE RowStep(k)
    BY <1>1, <1>3, <1>4, <1>6
    DEF Boundary, Cancelled, Receive, ReadProfile, Stamp, Insert, InsertUnacknowledged,
        Exhausted, Conflict, Replay, ReplayRefused, ReserveFails, Handle, HandlerThrows,
        CompletionFails, moneyVars
  <1> QED
    BY <1>1, <1>2, <1>5, <1>6
    DEF Next, OpenUnswept, Crash, Edit, Tick, vars, moneyVars

\* First completer wins: a closed row is closed for good.
THEOREM FirstCloseIsFinal == Spec => FirstCloseStands
  <1>1. IndInv /\ [Next]_vars =>
          \A k \in Keys : rows[k] # None =>
            \/ rows'[k] = rows[k]
            \/ Reserved(k) /\ rows'[k] = [rows[k] EXCEPT !.state = rows'[k].state]
    BY EveryStepIsRowStep DEF RowStep
  <1> QED  BY <1>1, LedgerInvariant, PTL DEF Spec, FirstCloseStands

\* A call leaves the replay check for its handler only by Replay.
LEMMA OnlyReplayAdmits ==
  ASSUME IndInv, [Next]_vars, NEW c \in Calls, pc[c] = "replay", pc'[c] = "handle"
  PROVE  Replay(c)
  <1>1. pc' # pc
    OBVIOUS
  <1>2. ASSUME NEW d \in Calls, Boundary(d) PROVE Replay(c)
    <2>1. CASE d = c
      BY <1>2, <2>1
      DEF Boundary, Cancelled, Receive, ReadProfile, Stamp, Insert, InsertUnacknowledged,
          TakeOn, Exhausted, Conflict, ReplayRefused, ReserveFails, Handle, HandlerThrows,
          Complete, CompletionFails, Tell, Goto, IndInv, TypeOK
    <2>2. CASE d # c
      BY <1>2, <2>2
      DEF Boundary, Cancelled, Receive, ReadProfile, Stamp, Insert, InsertUnacknowledged,
          Exhausted, Conflict, Replay, ReplayRefused, ReserveFails, Handle, HandlerThrows,
          Complete, CompletionFails, Tell, Goto, IndInv, TypeOK
    <2> QED  BY <2>1, <2>2
  <1>3. ASSUME NEW p \in Procs, Crash(p) PROVE FALSE
    BY <1>3 DEF Crash
  <1> QED
    BY <1>1, <1>2, <1>3
    DEF Next, Open, OpenUnswept, Reconcile, Edit, Tick, vars, callVars

\* A retry never runs on a row the scan has closed: the window it is admitted
\* in ends no later than the ceiling the scan waits for.
THEOREM ExpiredStaysClosed == Spec => ExpiredNotReplayed
  <1>1. ASSUME IndInv, [Next]_vars, NEW c \in Calls, pc[c] = "replay", pc'[c] = "handle"
        PROVE  RowOf(c).state # "expired"
    <2>1. Replay(c)
      BY <1>1, OnlyReplayAdmits
    <2>2. KeyOf[c] \in Keys /\ RowOf(c) # None /\ RowOf(c) \in Row
      BY <1>1, CallAssumption DEF IndInv, TypeOK, OnARow, RowOf
    <2>3. RowOf(c).tool \in Tools /\ RowOf(c).reservedAt \in Nat /\ Ttl[RowOf(c).tool] \in Nat
      BY <2>2, CallAssumption DEF Row
    <2>4. ReplayWindow(RowOf(c)) <= Ceiling
      BY <2>3, LedgerAssumption DEF ReplayWindow, Smaller
    <2>5. ReplayWindow(RowOf(c)) \in Nat
      BY <2>3, LedgerAssumption DEF ReplayWindow, Smaller
    <2>6. now - RowOf(c).reservedAt <= Ceiling
      BY <1>1, <2>1, <2>3, <2>4, <2>5, LedgerAssumption DEF Replay, Replayable, IndInv, TypeOK
    <2> QED  BY <1>1, <2>2, <2>3, <2>6, LedgerAssumption DEF IndInv, TypeOK, ExpiredIsOld, RowOf
  <1>2. IndInv /\ [Next]_vars =>
          \A c \in Calls : pc[c] = "replay" /\ pc'[c] = "handle" => RowOf(c).state # "expired"
    BY <1>1
  <1> QED  BY <1>2, LedgerInvariant, PTL DEF Spec, ExpiredNotReplayed

--------------------------------------------------------------------------------
(* Rows are closed as their calls were served. *)

\* A call has an outcome only once its handler is done with it or it was refused.
OutcomeKnown(c) ==
  /\ pc[c] \in {"idle", "profile", "stamp", "insert", "replay", "handle"} => outcome[c] = "none"
  /\ pc[c] = "complete" => outcome[c] \in {"answer", "refusal"}

ServedInv == IndInv /\ (\A c \in Calls : OutcomeKnown(c)) /\ ClosedAsServed

\* What a call was told never changes.
LEMMA OutcomeStays ==
  ASSUME TypeOK, NEW c \in Calls, \A d \in Calls : OutcomeKnown(d), [Next]_vars
  PROVE  OutcomeKnown(c)' /\ (outcome[c] # "none" => outcome'[c] = outcome[c])
  <1>1. CASE UNCHANGED <<pc, outcome>>
    BY <1>1 DEF OutcomeKnown
  <1>2. ASSUME NEW p \in Procs, Crash(p) PROVE OutcomeKnown(c)' /\ outcome'[c] = outcome[c]
    BY <1>2 DEF Crash, OutcomeKnown, TypeOK
  <1>3. ASSUME NEW d \in Calls, Boundary(d)
        PROVE  OutcomeKnown(c)' /\ (outcome[c] # "none" => outcome'[c] = outcome[c])
    <2>1. CASE d # c
      <3>1. pc'[c] = pc[c] /\ outcome'[c] = outcome[c]
        BY <1>3, <2>1
        DEF Boundary, Cancelled, Receive, ReadProfile, Stamp, Insert, InsertUnacknowledged,
            Exhausted, Conflict, Replay, ReplayRefused, ReserveFails, Handle, HandlerThrows,
            Complete, CompletionFails, Tell, Goto, TypeOK
      <3> QED  BY <3>1 DEF OutcomeKnown
    <2>2. CASE d = c
      BY <1>3, <2>2
      DEF Boundary, Cancelled, Receive, ReadProfile, Stamp, Insert, InsertUnacknowledged,
          TakeOn, Exhausted, Conflict, Replay, ReplayRefused, ReserveFails, Handle, HandlerThrows,
          Complete, CompletionFails, Tell, Goto, OutcomeKnown, TypeOK
    <2> QED  BY <2>1, <2>2
  <1> QED
    BY <1>1, <1>2, <1>3
    DEF Next, Open, OpenUnswept, Reconcile, Edit, Tick, vars, callVars

\* A step that leaves a row settled or refunded found it so, or is the
\* completion of a call of the row, told so.
ClosedNow(k) ==
  \/ rows[k] # None /\ rows'[k].state = rows[k].state
  \/ rows'[k].state \notin {"settled", "refunded"}
  \/ \E c \in Calls :
       KeyOf[c] = k /\ outcome[c] = IF rows'[k].state = "settled" THEN "answer" ELSE "refusal"

LEMMA EveryCloseIsServed ==
  ASSUME ServedInv, [Next]_vars, NEW k \in Keys, rows'[k] # None
  PROVE  ClosedNow(k)
  <1>0. TypeOK
    BY DEF ServedInv, IndInv
  <1>1. CASE UNCHANGED rows
    BY <1>1 DEF ClosedNow
  <1>2. ASSUME NEW j \in Keys, Reserved(j), NEW state \in {"settled", "refunded", "expired"},
               Close(j, state),
               j = k => \/ state = "expired"
                        \/ \E c \in Calls : KeyOf[c] = k /\ outcome[c] = IF state = "settled" THEN "answer" ELSE "refusal"
        PROVE  ClosedNow(k)
    <2>1. CASE k = j
      <3>1. rows[k] \in Row /\ rows'[k] = [rows[k] EXCEPT !.state = state]
        BY <1>0, <1>2, <2>1 DEF TypeOK, Reserved, Close
      <3>2. rows'[k].state = state
        BY <3>1 DEF Row
      <3> QED  BY <1>2, <2>1, <3>2 DEF ClosedNow
    <2>2. CASE k # j
      BY <1>0, <1>2, <2>2 DEF TypeOK, Close, ClosedNow
    <2> QED  BY <2>1, <2>2
  <1>3. ASSUME NEW p \in Procs, Open(p) PROVE ClosedNow(k)
    <2>1. CASE Expired(k) /\ rows'[k] = [rows[k] EXCEPT !.state = "expired"]
      <3>1. rows[k] \in Row
        BY <1>0, <2>1 DEF Expired, Reserved, TypeOK
      <3>2. rows'[k].state = "expired"
        BY <2>1, <3>1 DEF Row
      <3> QED  BY <3>2 DEF ClosedNow
    <2>2. CASE rows'[k] = rows[k]
      BY <2>2 DEF ClosedNow
    <2> QED  BY <1>3, <2>1, <2>2 DEF Open
  <1>4. ASSUME NEW c \in Calls, TakeOn(c) PROVE ClosedNow(k)
    <2>1. CASE k = KeyOf[c]
      <3>1. rows'[k].state = "reserved"
        BY <1>0, <1>4, <2>1 DEF TakeOn, NewRow, TypeOK
      <3> QED  BY <3>1 DEF ClosedNow
    <2>2. CASE k # KeyOf[c]
      BY <1>0, <1>4, <2>2 DEF TakeOn, TypeOK, ClosedNow
    <2> QED  BY <2>1, <2>2
  <1>5. ASSUME NEW c \in Calls, Complete(c) PROVE ClosedNow(k)
    <2>1. outcome[c] \in {"answer", "refusal"}
      BY <1>5 DEF Complete, ServedInv, OutcomeKnown
    <2>2. CASE ~Reserved(KeyOf[c])
      BY <1>1, <1>5, <2>2 DEF Complete, Completion
    <2>3. CASE Reserved(KeyOf[c])
      <3>1. Close(KeyOf[c], IF outcome[c] = "answer" THEN "settled" ELSE "refunded")
        BY <1>5, <2>3 DEF Complete, Completion
      <3>2. KeyOf[c] \in Keys
        BY CallAssumption
      <3> QED  BY <1>2, <2>1, <2>3, <3>1, <3>2
    <2> QED  BY <2>2, <2>3
  <1>6. ASSUME NEW j \in Keys, Reconcile(j) PROVE ClosedNow(k)
    BY <1>2, <1>6 DEF Reconcile, Expired
  <1>7. ASSUME NEW c \in Calls, Boundary(c) PROVE ClosedNow(k)
    BY <1>1, <1>4, <1>5, <1>7
    DEF Boundary, Cancelled, Receive, ReadProfile, Stamp, Insert, InsertUnacknowledged,
        Exhausted, Conflict, Replay, ReplayRefused, ReserveFails, Handle, HandlerThrows,
        CompletionFails, moneyVars
  <1> QED
    BY <1>1, <1>3, <1>6, <1>7
    DEF Next, OpenUnswept, Crash, Edit, Tick, vars, moneyVars

\* A settled row was answered and a refunded one refused: whatever retries,
\* scans, crashes and lost completions do, no client is billed for a refusal,
\* and none is given back an answer's price by a completion.
THEOREM RowsClosedAsServed == Spec => []ClosedAsServed
  <1>1. Init => ServedInv
    BY InitIndInv DEF Init, ServedInv, OutcomeKnown, ClosedAsServed
  <1>2. ASSUME ServedInv, [Next]_vars PROVE ServedInv'
    <2>1. IndInv'
      BY <1>2, StutterKeepsIndInv, BoundaryKeepsIndInv, OutsideKeepsIndInv DEF ServedInv, Next
    <2>2. \A c \in Calls : OutcomeKnown(c)' /\ (outcome[c] # "none" => outcome'[c] = outcome[c])
      BY <1>2, OutcomeStays DEF ServedInv, IndInv
    <2>3. \A k \in Keys : rows'[k] # None => ClosedNow(k)
      BY <1>2, EveryCloseIsServed
    <2>4. ClosedAsServed'
      <3> SUFFICES ASSUME NEW k \in Keys, rows'[k] # None,
                          NEW what \in {"answer", "refusal"},
                          rows'[k].state = IF what = "answer" THEN "settled" ELSE "refunded"
                   PROVE  \E c \in Calls : KeyOf[c] = k /\ outcome'[c] = what
        BY DEF ClosedAsServed
      <3>1. \E c \in Calls : KeyOf[c] = k /\ outcome[c] = what
        BY <1>2, <2>3 DEF ClosedNow, ServedInv, ClosedAsServed
      <3> QED  BY <2>2, <3>1
    <2> QED  BY <2>1, <2>2, <2>4 DEF ServedInv
  <1>3. ServedInv => ClosedAsServed
    BY DEF ServedInv
  <1> QED  BY <1>1, <1>2, <1>3, PTL DEF Spec

--------------------------------------------------------------------------------
(* A metered balance is accounted for.                                       *)

Amount == [k \in Keys |-> AmountOf(k)]

Existing == {k \in Keys : rows[k] # None}

\* Only rows of metered profiles are debited, on Postgres, and all of them are
\* where the profiles are read from the table.
DebitsKnown ==
  /\ IsFiniteSet(Existing)
  /\ \A k \in debited : /\ Axis = "postgres" /\ rows[k] # None
                        /\ ProfileOf[k] # None /\ balance[ProfileOf[k]] # None
  /\ Axis = "postgres" /\ reader = "table" =>
       \A k \in Keys : rows[k] # None /\ ProfileOf[k] # None /\ balance[ProfileOf[k]] # None
                         => k \in debited
  /\ Axis = "sqlite" => \A c \in Calls : ~metered[c] /\ pc[c] # "profile"

BalanceInv == IndInv /\ DebitsKnown /\ BalanceAccounts

LEMMA AmountsOwed ==
  ASSUME BalanceInv, NEW p
  PROVE  /\ IsFiniteSet(Owing(p)) /\ Owing(p) \subseteq Keys
         /\ IsFiniteSet(Gifted(p)) /\ Gifted(p) \subseteq Keys
         /\ \A k \in Keys : Amount[k] = AmountOf(k) /\ Amount[k] \in Nat
         /\ Outstanding(p) = SumFunctionOnSet(Amount, Owing(p)) /\ Outstanding(p) \in Int
         /\ Given(p) = SumFunctionOnSet(Amount, Gifted(p)) /\ Given(p) \in Int
  <1>1. Owing(p) \subseteq Existing /\ Gifted(p) \subseteq Existing /\ Existing \subseteq Keys
    BY DEF Owing, Gifted, Existing, BalanceInv, DebitsKnown, IndInv, TypeOK
  <1>2. IsFiniteSet(Owing(p)) /\ IsFiniteSet(Gifted(p))
    BY <1>1, FS_Subset DEF BalanceInv, DebitsKnown
  <1>3. \A k \in Keys : AmountOf(k) \in Nat
    BY DEF AmountOf, BalanceInv, IndInv, TypeOK, Row
  <1>4. \A k \in Keys : Amount[k] = AmountOf(k) /\ Amount[k] \in Nat
    BY <1>3 DEF Amount
  <1>5. SumFunctionOnSet(Amount, Owing(p)) \in Int /\ SumFunctionOnSet(Amount, Gifted(p)) \in Int
    BY <1>1, <1>2, <1>4, SumInt
  <1> QED  BY <1>1, <1>2, <1>4, <1>5 DEF Outstanding, Given, Amount

\* What is owed, or was given, stays the same when the same requests stand for
\* the same amounts.
LEMMA SumIsKept ==
  ASSUME NEW S, IsFiniteSet(S), S \subseteq Keys, \A k \in S : AmountOf(k)' = AmountOf(k)
  PROVE  SumFunctionOnSet(Amount', S) = SumFunctionOnSet(Amount, S)
  <1>1. \A k \in S : Amount[k] = Amount'[k]
    BY DEF Amount
  <1> QED  BY <1>1, SumSame

LEMMA OwedIsKept ==
  ASSUME BalanceInv, NEW p, Owing(p)' = Owing(p), \A k \in Owing(p) : AmountOf(k)' = AmountOf(k)
  PROVE  Outstanding(p)' = Outstanding(p)
  <1>1. IsFiniteSet(Owing(p)) /\ Owing(p) \subseteq Keys
    BY AmountsOwed
  <1> QED  BY <1>1, SumIsKept DEF Outstanding, Amount

LEMMA GivenIsKept ==
  ASSUME BalanceInv, NEW p, Gifted(p)' = Gifted(p), \A k \in Gifted(p) : AmountOf(k)' = AmountOf(k)
  PROVE  Given(p)' = Given(p)
  <1>1. IsFiniteSet(Gifted(p)) /\ Gifted(p) \subseteq Keys
    BY AmountsOwed
  <1> QED  BY <1>1, SumIsKept DEF Given, Amount

\* The account stays balanced when a balance, what is owed and what was given
\* move together.
LEMMA StaysBalanced ==
  ASSUME BalanceInv, UNCHANGED granted, DebitsKnown',
         \A p \in Profiles : balance'[p] = None <=> balance[p] = None,
         \A p \in Profiles : balance[p] # None =>
           \E paid \in Int, gift \in Int :
             /\ balance'[p] = balance[p] - paid + gift
             /\ Outstanding(p)' = Outstanding(p) + paid
             /\ Given(p)' = Given(p) + gift
  PROVE  BalanceAccounts'
  <1> SUFFICES ASSUME NEW p \in Profiles, balance'[p] # None
               PROVE  /\ balance'[p] = granted'[p] - Outstanding(p)' + Given(p)'
                      /\ reader' = "table" => Gifted(p)' = {}
    BY DEF BalanceAccounts
  <1>1. balance[p] # None /\ balance[p] \in Int /\ granted[p] \in Int /\ granted'[p] = granted[p]
    BY DEF BalanceInv, IndInv, TypeOK
  <1>2. /\ balance[p] = granted[p] - Outstanding(p) + Given(p)
        /\ Outstanding(p) \in Int /\ Given(p) \in Int
    BY <1>1, AmountsOwed DEF BalanceInv, BalanceAccounts
  <1>3. PICK paid \in Int, gift \in Int : /\ balance'[p] = balance[p] - paid + gift
                                          /\ Outstanding(p)' = Outstanding(p) + paid
                                          /\ Given(p)' = Given(p) + gift
    BY <1>1
  <1>4. balance'[p] = granted'[p] - Outstanding(p)' + Given(p)'
    BY <1>1, <1>2, <1>3
  <1>5. reader' = "table" => Gifted(p)' = {}
    BY CallAssumption DEF DebitsKnown, Gifted
  <1> QED  BY <1>4, <1>5

LEMMA SameLedgerBalances ==
  ASSUME BalanceInv, UNCHANGED <<reader, rows, balance, debited, granted>>,
         Axis = "sqlite" => \A c \in Calls : ~metered'[c] /\ pc'[c] # "profile"
  PROVE  DebitsKnown' /\ BalanceAccounts'
  <1>1. DebitsKnown'
    BY DEF BalanceInv, DebitsKnown, Existing
  <1>2. \A p : Gifted(p)' = Gifted(p)
    BY DEF Gifted
  <1>3. \A p : Outstanding(p)' = Outstanding(p) /\ Given(p)' = Given(p)
    BY <1>2, OwedIsKept, GivenIsKept DEF Owing, AmountOf
  <1> QED  BY <1>1, <1>2, <1>3 DEF BalanceInv, BalanceAccounts

\* A new row of a metered profile takes its price and is debited; any other
\* takes nothing.
LEMMA TakeOnBalances ==
  ASSUME BalanceInv, NEW c \in Calls, TakeOn(c), UNCHANGED <<reader, metered, granted>>,
         Axis = "sqlite" => \A d \in Calls : pc'[d] # "profile"
  PROVE  DebitsKnown' /\ BalanceAccounts'
  <1> DEFINE k == KeyOf[c]
  <1>0. IndInv /\ TypeOK /\ DebitsKnown
    BY DEF BalanceInv, IndInv
  <1>1. k \in Keys /\ PriceOf(c) \in Nat /\ Axis \in {"postgres", "sqlite"}
    BY CallAssumption, LedgerAssumption DEF PriceOf
  <1>2. rows[k] = None /\ k \notin debited
    BY <1>0 DEF TakeOn, RowOf, DebitsKnown
  <1>3. NewRow(c, Stamped(c)) \in Row
    BY <1>0, CallAssumption DEF PriceOf, TypeOK, NewRow, Stamped, Row
  <1>4. /\ rows'[k] # None /\ rows'[k].price = PriceOf(c) /\ rows'[k].state = "reserved"
        /\ \A j \in Keys \ {k} : rows'[j] = rows[j]
    BY <1>0, <1>1, <1>3, RowAssumption DEF TakeOn, NewRow, TypeOK
  <1>5. AmountOf(k)' = PriceOf(c) /\ \A j \in Keys \ {k} : AmountOf(j)' = AmountOf(j)
    BY <1>4 DEF AmountOf
  <1>6. metered[c] => /\ Axis = "postgres" /\ ProfileOf[k] \in Profiles
                      /\ balance[ProfileOf[k]] \in Nat
    <2>1. metered[c] => OnMeteredProfile(c)
      BY <1>0 DEF IndInv, ModeIsCurrent
    <2>2. metered[c] => Axis = "postgres"
      BY <1>0, <1>1 DEF DebitsKnown
    <2>3. ProfileOf[k] \in Profiles \cup {None}
      BY <1>1, CallAssumption
    <2> QED  BY <1>0, <2>1, <2>2, <2>3 DEF OnMeteredProfile, TypeOK
  <1>7. Axis = "postgres" /\ reader = "table" => metered[c] = OnMeteredProfile(c)
    BY <1>0 DEF IndInv, ModeIsCurrent, TakeOn
  <1>8. debited' = IF metered[c] THEN debited \cup {k} ELSE debited
    BY DEF TakeOn
  <1>9. balance' = IF metered[c] THEN [balance EXCEPT ![ProfileOf[k]] = @ - PriceOf(c)] ELSE balance
    BY DEF TakeOn
  <1> HIDE DEF k
  <1>10. \A p \in Profiles : balance'[p] = None <=> balance[p] = None
    <2> SUFFICES ASSUME NEW p \in Profiles PROVE balance'[p] = None <=> balance[p] = None
      OBVIOUS
    <2>1. CASE metered[c] /\ p = ProfileOf[k]
      <3>1. balance'[p] = balance[p] - PriceOf(c) /\ balance[p] \in Nat
        BY <1>0, <1>6, <1>9, <2>1 DEF TypeOK
      <3>2. balance'[p] \in Int /\ None \notin Int
        BY <1>1, <3>1, CallAssumption
      <3> QED  BY <3>1, <3>2
    <2>2. CASE ~(metered[c] /\ p = ProfileOf[k])
      BY <1>0, <1>9, <2>2 DEF TypeOK
    <2> QED  BY <2>1, <2>2
  <1>11. DebitsKnown'
    <2>1. IsFiniteSet(Existing')
      <3>1. Existing' = Existing \cup {k}
        BY <1>1, <1>4 DEF Existing, k
      <3> QED  BY <1>0, <3>1, FS_AddElement DEF DebitsKnown
    <2>2. ASSUME NEW j \in debited'
          PROVE  /\ Axis = "postgres" /\ rows'[j] # None
                 /\ ProfileOf[j] # None /\ balance'[ProfileOf[j]] # None
      <3>1. j \in Keys /\ rows'[j] # None
        BY <1>0, <1>1, <1>4, <1>8 DEF DebitsKnown, TypeOK, k
      <3>2. Axis = "postgres" /\ ProfileOf[j] # None /\ balance[ProfileOf[j]] # None
        BY <1>0, <1>6, <1>8, CallAssumption DEF DebitsKnown
      <3>3. ProfileOf[j] \in Profiles
        BY <3>1, <3>2, CallAssumption
      <3> QED  BY <1>10, <3>1, <3>2, <3>3
    <2>3. ASSUME Axis = "postgres", reader' = "table", NEW j \in Keys, rows'[j] # None, ProfileOf[j] # None,
                 balance'[ProfileOf[j]] # None
          PROVE  j \in debited'
      <3>1. ProfileOf[j] \in Profiles
        BY <2>3, CallAssumption
      <3>2. balance[ProfileOf[j]] # None
        BY <1>10, <2>3, <3>1
      <3>3. CASE j = k
        BY <1>7, <1>8, <2>3, <3>2, <3>3 DEF OnMeteredProfile, k
      <3>4. CASE j # k
        BY <1>0, <1>4, <1>8, <2>3, <3>2, <3>4 DEF DebitsKnown
      <3> QED  BY <3>3, <3>4
    <2>4. Axis = "sqlite" => \A d \in Calls : ~metered'[d] /\ pc'[d] # "profile"
      BY <1>0 DEF DebitsKnown
    <2> QED  BY <2>1, <2>2, <2>3, <2>4 DEF DebitsKnown
  <1>12. ASSUME NEW p \in Profiles, balance[p] # None
         PROVE  \E paid \in Int, gift \in Int : /\ balance'[p] = balance[p] - paid + gift
                                               /\ Outstanding(p)' = Outstanding(p) + paid
                                               /\ Given(p)' = Given(p) + gift
    <2>0. balance[p] \in Int /\ Outstanding(p) \in Int /\ IsFiniteSet(Owing(p)) /\ Owing(p) \subseteq Keys
          /\ Given(p) \in Int
      BY <1>0, <1>12, AmountsOwed DEF TypeOK
    <2>4. Given(p)' = Given(p) + 0
      <3>1. Gifted(p)' = Gifted(p)
        BY <1>2, <1>4, <1>8 DEF Gifted
      <3>2. \A j \in Gifted(p) : AmountOf(j)' = AmountOf(j)
        BY <1>2, <1>5 DEF Gifted
      <3> QED  BY <2>0, <3>1, <3>2, GivenIsKept
    <2>1. k \notin Owing(p) /\ debited \subseteq Keys
      BY <1>0, <1>2 DEF Owing, TypeOK
    <2>2. CASE metered[c] /\ p = ProfileOf[k]
      <3>1. Owing(p)' = Owing(p) \cup {k}
        BY <1>4, <1>8, <2>1, <2>2 DEF Owing
      <3>2. \A j \in Owing(p) : Amount[j] = Amount'[j] /\ Amount[j] \in Nat
        BY <1>5, <2>0, <2>1, AmountsOwed DEF Amount
      <3>3. Amount'[k] = PriceOf(c)
        BY <1>1, <1>5 DEF Amount, k
      <3>4. \A j \in Owing(p) \cup {k} : Amount'[j] \in Int
        BY <1>1, <3>2, <3>3
      <3>5. SumFunctionOnSet(Amount', Owing(p) \cup {k})
              = Amount'[k] + SumFunctionOnSet(Amount', Owing(p))
        BY <2>0, <2>1, <3>4, SumAdds
      <3>6. SumFunctionOnSet(Amount, Owing(p)) = SumFunctionOnSet(Amount', Owing(p))
        BY <2>0, <3>2, SumSame
      <3>7. Outstanding(p)' = PriceOf(c) + Outstanding(p)
        BY <3>1, <3>3, <3>5, <3>6 DEF Outstanding, Amount
      <3>8. balance'[p] = balance[p] - PriceOf(c)
        BY <1>0, <1>9, <2>2 DEF TypeOK
      <3>9. PriceOf(c) \in Int /\ Outstanding(p)' = Outstanding(p) + PriceOf(c)
            /\ balance'[p] = balance[p] - PriceOf(c) + 0 /\ 0 \in Int
        BY <1>1, <2>0, <3>7, <3>8
      <3> QED  BY <2>4, <3>9
    <2>3. CASE ~(metered[c] /\ p = ProfileOf[k])
      <3>1. Owing(p)' = Owing(p)
        BY <1>2, <1>4, <1>8, <2>1, <2>3 DEF Owing
      <3>2. \A j \in Owing(p) : AmountOf(j)' = AmountOf(j)
        BY <1>5, <2>0, <2>1
      <3>3. Outstanding(p)' = Outstanding(p)
        BY <3>1, <3>2, OwedIsKept
      <3>4. balance'[p] = balance[p]
        BY <1>0, <1>9, <2>3 DEF TypeOK
      <3>5. balance'[p] = balance[p] - 0 + 0 /\ Outstanding(p)' = Outstanding(p) + 0 /\ 0 \in Int
        BY <2>0, <3>3, <3>4
      <3> QED  BY <2>4, <3>5
    <2> QED  BY <2>2, <2>3
  <1> QED  BY <1>10, <1>11, <1>12, StaysBalanced

\* Closing a row gives its price back if it was debited for it; a credit for a
\* row that was not is a gift.
LEMMA CloseBalances ==
  ASSUME BalanceInv, NEW k \in Keys, Reserved(k),
         NEW state \in {"settled", "refunded", "expired"}, Close(k, state),
         IF state = "settled" THEN UNCHANGED balance ELSE Credit(k),
         UNCHANGED <<reader, debited, metered, granted>>,
         Axis = "sqlite" => \A c \in Calls : pc'[c] # "profile"
  PROVE  DebitsKnown' /\ BalanceAccounts'
  <1>0. IndInv /\ TypeOK /\ DebitsKnown /\ Axis \in {"postgres", "sqlite"} /\ debited \subseteq Keys
        /\ ProfileOf[k] \in Profiles \cup {None} /\ None \notin Int
    BY LedgerAssumption, CallAssumption DEF BalanceInv, IndInv, TypeOK
  <1>1. rows[k] \in Row /\ rows[k] # None /\ rows[k].state = "reserved" /\ rows[k].price \in Nat
    BY <1>0, RowAssumption DEF Reserved, TypeOK, Row
  <1>2. rows'[k] = [rows[k] EXCEPT !.state = state] /\ \A j \in Keys \ {k} : rows'[j] = rows[j]
    BY <1>0 DEF Close, TypeOK
  <1>3. rows'[k] \in Row /\ rows'[k].state = state /\ rows'[k].price = rows[k].price
    BY <1>1, <1>2 DEF Row
  <1>4. rows'[k] # None
    BY <1>3, RowAssumption
  <1>5. \A j \in Keys : AmountOf(j)' = AmountOf(j) /\ (rows'[j] = None <=> rows[j] = None)
    BY <1>1, <1>2, <1>3, <1>4 DEF AmountOf
  <1> DEFINE back == /\ state # "settled" /\ Axis = "postgres"
                     /\ ProfileOf[k] # None /\ balance[ProfileOf[k]] # None
  <1>6. k \in debited => Axis = "postgres" /\ ProfileOf[k] # None /\ balance[ProfileOf[k]] # None
    BY <1>0 DEF DebitsKnown
  <1>7. balance' = IF back THEN [balance EXCEPT ![ProfileOf[k]] = @ + rows[k].price] ELSE balance
    BY DEF Credit
  <1> HIDE DEF back
  <1>8. \A p \in Profiles : balance'[p] = None <=> balance[p] = None
    <2> SUFFICES ASSUME NEW p \in Profiles PROVE balance'[p] = None <=> balance[p] = None
      OBVIOUS
    <2>1. CASE back /\ p = ProfileOf[k]
      <3>1. balance[p] \in Nat /\ balance'[p] = balance[p] + rows[k].price
        BY <1>0, <1>7, <2>1 DEF TypeOK, back
      <3> QED  BY <1>0, <1>1, <3>1
    <2>2. CASE ~(back /\ p = ProfileOf[k])
      BY <1>0, <1>7, <2>2 DEF TypeOK
    <2> QED  BY <2>1, <2>2
  <1>9. DebitsKnown'
    BY <1>0, <1>5, <1>8, CallAssumption DEF DebitsKnown, Existing
  <1>10. ASSUME NEW p \in Profiles, balance[p] # None
         PROVE  \E paid \in Int, gift \in Int : /\ balance'[p] = balance[p] - paid + gift
                                               /\ Outstanding(p)' = Outstanding(p) + paid
                                               /\ Given(p)' = Given(p) + gift
    <2>0. balance[p] \in Int /\ Outstanding(p) \in Int /\ IsFiniteSet(Owing(p)) /\ Owing(p) \subseteq Keys
          /\ Given(p) \in Int /\ IsFiniteSet(Gifted(p)) /\ Gifted(p) \subseteq Keys /\ k \notin Gifted(p)
      BY <1>0, <1>1, <1>10, AmountsOwed DEF TypeOK, Gifted
    <2>1. \A j \in Keys : Amount'[j] = Amount[j] /\ Amount[j] \in Int
      <3>1. \A j \in Keys : Amount[j] = AmountOf(j) /\ Amount[j] \in Nat
        BY AmountsOwed
      <3>2. \A j \in Keys : Amount'[j] = AmountOf(j)'
        BY DEF Amount
      <3> QED  BY <1>5, <3>1, <3>2
    <2>2. ASSUME ~(back /\ p = ProfileOf[k] /\ k \notin debited)
          PROVE  Given(p)' = Given(p) + 0
      <3>1. Gifted(p)' = Gifted(p)
        <4>1. \A j \in Keys \ {k} : rows'[j] = rows[j]
          BY <1>2
        <4>2. k \notin Gifted(p)'
          BY <1>0, <1>3, <1>10, <2>2, CallAssumption DEF Gifted, back
        <4>3. k \notin Gifted(p)
          BY <2>0
        <4> QED  BY <4>1, <4>2, <4>3 DEF Gifted
      <3>2. \A j \in Gifted(p) : AmountOf(j)' = AmountOf(j)
        BY <1>5 DEF Gifted
      <3> QED  BY <2>0, <3>1, <3>2, GivenIsKept
    <2>3. ASSUME ~(back /\ p = ProfileOf[k] /\ k \in debited)
          PROVE  Outstanding(p)' = Outstanding(p) - 0
      <3>1. Owing(p)' = Owing(p)
        <4>1. \A j \in debited \ {k} : rows'[j] = rows[j]
          BY <1>0, <1>2
        <4>2. k \in debited /\ ProfileOf[k] = p => state = "settled"
          BY <1>6, <2>3 DEF back
        <4> QED  BY <1>1, <1>3, <4>1, <4>2 DEF Owing
      <3>2. Outstanding(p)' = Outstanding(p)
        BY <1>5, <2>0, <3>1, OwedIsKept
      <3> QED  BY <2>0, <3>2
    <2>4. CASE back /\ p = ProfileOf[k] /\ k \in debited
      <3>1. k \in Owing(p) /\ Owing(p)' = Owing(p) \ {k}
        <4>1. k \in Owing(p)
          BY <1>1, <2>4 DEF Owing
        <4>2. state \notin {"reserved", "settled"}
          BY <2>4 DEF back
        <4> QED  BY <1>0, <1>2, <1>3, <4>1, <4>2 DEF Owing
      <3>2. Outstanding(p) = rows[k].price + SumFunctionOnSet(Amount, Owing(p) \ {k})
        BY <1>1, <2>0, <2>1, <3>1, SumTakesOut DEF Outstanding, Amount, AmountOf
      <3>3. IsFiniteSet(Owing(p) \ {k})
        BY <2>0, FS_RemoveElement
      <3>4. SumFunctionOnSet(Amount, Owing(p) \ {k}) \in Int
        BY <2>0, <2>1, <3>3, SumInt
      <3>5. Outstanding(p)' = SumFunctionOnSet(Amount, Owing(p) \ {k})
        BY <1>5, <2>0, <3>1, <3>3, SumIsKept DEF Outstanding, Amount
      <3>6. balance'[p] = balance[p] + rows[k].price
        BY <1>0, <1>7, <2>4 DEF TypeOK
      <3>7. /\ balance'[p] = balance[p] - (-rows[k].price) + 0
            /\ Outstanding(p)' = Outstanding(p) + (-rows[k].price)
            /\ -rows[k].price \in Int /\ 0 \in Int
        BY <1>1, <2>0, <3>2, <3>4, <3>5, <3>6
      <3> QED  BY <2>2, <2>4, <3>7
    <2>5. CASE back /\ p = ProfileOf[k] /\ k \notin debited
      <3>1. Gifted(p)' = Gifted(p) \cup {k}
        <4>1. k \in Gifted(p)'
          BY <1>3, <1>4, <2>5 DEF Gifted, back
        <4>2. \A j \in Keys \ {k} : rows'[j] = rows[j]
          BY <1>2
        <4> QED  BY <2>0, <4>1, <4>2 DEF Gifted
      <3>2. SumFunctionOnSet(Amount', Gifted(p) \cup {k}) = Amount'[k] + SumFunctionOnSet(Amount', Gifted(p))
        BY <2>0, <2>1, SumAdds
      <3>3. SumFunctionOnSet(Amount', Gifted(p)) = Given(p)
        BY <1>5, <2>0, SumIsKept DEF Given, Amount
      <3>4. Amount'[k] = rows[k].price
        BY <1>1, <2>1 DEF Amount, AmountOf
      <3>5. Given(p)' = Given(p) + rows[k].price /\ rows[k].price \in Int
        BY <1>1, <2>0, <3>1, <3>2, <3>3, <3>4 DEF Given, Amount
      <3>6. balance'[p] = balance[p] - 0 + rows[k].price
        BY <1>0, <1>1, <1>7, <2>0, <2>5 DEF TypeOK
      <3>7. Outstanding(p)' = Outstanding(p) + 0 /\ 0 \in Int
        BY <2>0, <2>3, <2>5
      <3> QED  BY <3>5, <3>6, <3>7
    <2>6. CASE ~(back /\ p = ProfileOf[k])
      <3>1. balance'[p] = balance[p] - 0 + 0 /\ 0 \in Int
        BY <1>0, <1>7, <2>0, <2>6 DEF TypeOK
      <3>2. Outstanding(p)' = Outstanding(p) + 0
        BY <2>0, <2>3, <2>6
      <3> QED  BY <2>2, <2>6, <3>1, <3>2
    <2> QED  BY <2>4, <2>5, <2>6
  <1> QED  BY <1>8, <1>9, <1>10, StaysBalanced

\* What a crash or a sweep on SQLite leaves is unmetered, and an edit is granted.
LEMMA OutsideBalances ==
  ASSUME BalanceInv,
         \/ \E p \in Procs : Open(p) \/ OpenUnswept(p) \/ Crash(p)
         \/ \E k \in Keys : Reconcile(k)
         \/ \E p \in Profiles : Edit(p)
         \/ Tick
  PROVE  DebitsKnown' /\ BalanceAccounts'
  <1>0. IndInv /\ TypeOK /\ DebitsKnown /\ debited \subseteq Keys
    BY DEF BalanceInv, IndInv, TypeOK
  <1>1. ASSUME NEW p \in Procs, Open(p) PROVE DebitsKnown' /\ BalanceAccounts'
    <2>1. CASE Axis = "postgres"
      <3>1. rows' = rows
        BY <1>0, <1>1, <2>1 DEF Open, TypeOK
      <3> QED  BY <1>0, <1>1, <2>1, <3>1, SameLedgerBalances DEF Open, DebitsKnown
    <2>2. CASE Axis = "sqlite"
      <3>1. debited = {} /\ UNCHANGED <<reader, debited, balance, granted, metered, pc>>
        BY <1>0, <1>1, <2>2 DEF Open, DebitsKnown, callVars
      <3>2. Existing' = Existing
        <4>1. \A k \in Keys : Expired(k) => rows[k] \in Row
          BY <1>0 DEF Expired, Reserved, TypeOK
        <4>2. \A k \in Keys : Expired(k) => [rows[k] EXCEPT !.state = "expired"] # None
          BY <4>1, RowAssumption DEF Row
        <4> QED  BY <1>1, <2>2, <4>2 DEF Open, Existing, Expired, Reserved
      <3>3. DebitsKnown'
        BY <1>0, <2>2, <3>1, <3>2 DEF DebitsKnown
      <3>4. \A q : Owing(q) = {} /\ Owing(q)' = {} /\ Gifted(q) = {} /\ Gifted(q)' = {}
        BY <2>2, <3>1 DEF Owing, Gifted
      <3>5. \A q : Outstanding(q)' = Outstanding(q) /\ Given(q)' = Given(q)
        BY <3>4, OwedIsKept, GivenIsKept
      <3> QED  BY <3>1, <3>3, <3>4, <3>5 DEF BalanceInv, BalanceAccounts
    <2> QED  BY <2>1, <2>2, LedgerAssumption
  <1>2. ASSUME NEW p \in Procs, OpenUnswept(p) \/ Crash(p) PROVE DebitsKnown' /\ BalanceAccounts'
    <2>1. Axis = "sqlite" => \A c \in Calls : ~metered'[c] /\ pc'[c] # "profile"
      BY <1>0, <1>2 DEF OpenUnswept, Crash, DebitsKnown, callVars
    <2> QED  BY <1>2, <2>1, SameLedgerBalances DEF OpenUnswept, Crash, moneyVars
  <1>3. ASSUME NEW k \in Keys, Reconcile(k) PROVE DebitsKnown' /\ BalanceAccounts'
    BY <1>0, <1>3, CloseBalances DEF Reconcile, Expired, callVars, DebitsKnown
  <1>4. ASSUME NEW p \in Profiles, Edit(p) PROVE DebitsKnown' /\ BalanceAccounts'
    <2>1. PICK v \in Edits : /\ balance' = [balance EXCEPT ![p] = v]
                             /\ granted' = [granted EXCEPT ![p] = granted[p] + v - balance[p]]
      BY <1>4 DEF Edit
    <2>2. v \in Nat /\ balance[p] \in Nat /\ None \notin Int /\ balance[p] # None
      BY <1>0, <1>4, <2>1, LedgerAssumption, CallAssumption DEF Edit, TypeOK
    <2>3. \A q \in Profiles : balance'[q] = None <=> balance[q] = None
      BY <1>0, <2>1, <2>2 DEF TypeOK
    <2>4. DebitsKnown'
      BY <1>0, <1>4, <2>3, CallAssumption DEF Edit, callVars, DebitsKnown, Existing
    <2>5. \A q : Outstanding(q)' = Outstanding(q) /\ Given(q)' = Given(q) /\ Gifted(q)' = Gifted(q)
      <3>1. \A q : Gifted(q)' = Gifted(q) /\ Owing(q)' = Owing(q)
        BY <1>4 DEF Edit, Gifted, Owing
      <3> QED  BY <1>4, <3>1, OwedIsKept, GivenIsKept DEF Edit, AmountOf
    <2>6. ASSUME NEW q \in Profiles, balance'[q] # None
          PROVE  balance'[q] = granted'[q] - Outstanding(q)' + Given(q)'
      <3>1. /\ balance[q] = granted[q] - Outstanding(q) + Given(q)
            /\ Outstanding(q) \in Int /\ Given(q) \in Int
        BY <2>3, <2>6, AmountsOwed DEF BalanceInv, BalanceAccounts
      <3>2. CASE q = p
        <4>1. balance'[p] = v /\ granted'[p] = granted[p] + v - balance[p] /\ granted[p] \in Int
          BY <1>0, <2>1 DEF TypeOK
        <4> QED  BY <2>2, <2>5, <3>1, <3>2, <4>1
      <3>3. CASE q # p
        BY <1>0, <2>1, <2>5, <3>1, <3>3 DEF TypeOK
      <3> QED  BY <3>2, <3>3
    <2>7. ASSUME NEW q \in Profiles, balance'[q] # None, reader' = "table" PROVE Gifted(q)' = {}
      BY <1>4, <2>3, <2>5, <2>7 DEF Edit, BalanceInv, BalanceAccounts
    <2> QED  BY <2>4, <2>6, <2>7 DEF BalanceAccounts
  <1>5. CASE Tick
    BY <1>0, <1>5, SameLedgerBalances DEF Tick, moneyVars, callVars, DebitsKnown
  <1> QED  BY <1>1, <1>2, <1>3, <1>4, <1>5

LEMMA BoundaryBalances ==
  ASSUME BalanceInv, NEW c \in Calls, Boundary(c)
  PROVE  DebitsKnown' /\ BalanceAccounts'
  <1>0. IndInv /\ TypeOK /\ DebitsKnown
    BY DEF BalanceInv, IndInv
  <1>1. Axis = "sqlite" => \A d \in Calls : ~metered'[d] /\ pc'[d] # "profile"
    BY <1>0
    DEF Boundary, Cancelled, Receive, ReadProfile, Stamp, Insert, InsertUnacknowledged,
        Exhausted, Conflict, Replay, ReplayRefused, ReserveFails, Handle, HandlerThrows,
        Complete, CompletionFails, Tell, Goto, DebitsKnown, TypeOK
  <1>2. CASE Insert(c) \/ InsertUnacknowledged(c)
    BY <1>1, <1>2, TakeOnBalances DEF Insert, InsertUnacknowledged
  <1>3. CASE Complete(c)
    <2>1. CASE ~Reserved(KeyOf[c])
      BY <1>1, <1>3, <2>1, SameLedgerBalances DEF Complete, Completion
    <2>2. CASE Reserved(KeyOf[c])
      <3>1. PICK state \in {"settled", "refunded"} :
              Close(KeyOf[c], state) /\ IF state = "settled" THEN UNCHANGED balance ELSE Credit(KeyOf[c])
        BY <1>3, <2>2 DEF Complete, Completion
      <3>2. KeyOf[c] \in Keys
        BY CallAssumption
      <3> QED  BY <1>1, <1>3, <2>2, <3>1, <3>2, CloseBalances DEF Complete
    <2> QED  BY <2>1, <2>2
  <1>4. CASE UNCHANGED <<reader, moneyVars, granted>>
    BY <1>1, <1>4, SameLedgerBalances DEF moneyVars
  <1> QED
    BY <1>2, <1>3, <1>4
    DEF Boundary, Cancelled, Receive, ReadProfile, Stamp, Exhausted, Conflict, Replay,
        ReplayRefused, ReserveFails, Handle, HandlerThrows, CompletionFails

\* The invariant behind the balance.
LEMMA LedgerBalances == Spec => []BalanceInv
  <1>1. Init => BalanceInv
    <2> SUFFICES ASSUME Init PROVE BalanceInv
      OBVIOUS
    <2>1. IndInv /\ debited = {} /\ IsFiniteSet({})
      BY InitIndInv, FS_EmptySet DEF Init
    <2>2. DebitsKnown
      <3>1. Existing = {}
        BY DEF Init, Existing
      <3> QED  BY <2>1, <3>1 DEF Init, DebitsKnown
    <2>3. \A p : Outstanding(p) = 0 /\ Given(p) = 0 /\ Gifted(p) = {}
      <3>1. \A p : Owing(p) = {} /\ Gifted(p) = {}
        BY <2>1 DEF Owing, Gifted, Init
      <3> QED  BY <3>1, SumEmpty DEF Outstanding, Given
    <2>4. ASSUME NEW p \in Profiles, balance[p] # None
          PROVE  balance[p] = granted[p] - Outstanding(p) + Given(p)
      <3>1. balance[p] \in Nat
        BY <2>1, <2>4 DEF IndInv, TypeOK
      <3> QED  BY <2>3, <2>4, <3>1 DEF Init
    <2> QED  BY <2>1, <2>2, <2>3, <2>4 DEF BalanceInv, BalanceAccounts
  <1>2. ASSUME BalanceInv, [Next]_vars PROVE BalanceInv'
    <2>1. IndInv'
      BY <1>2, StutterKeepsIndInv, BoundaryKeepsIndInv, OutsideKeepsIndInv DEF BalanceInv, Next
    <2>2. ASSUME UNCHANGED vars PROVE DebitsKnown' /\ BalanceAccounts'
      BY <1>2, <2>2, SameLedgerBalances DEF vars, moneyVars, callVars, BalanceInv, DebitsKnown
    <2>3. DebitsKnown' /\ BalanceAccounts'
      BY <1>2, <2>2, BoundaryBalances, OutsideBalances DEF Next
    <2> QED  BY <2>1, <2>3 DEF BalanceInv
  <1> QED  BY <1>1, <1>2, PTL DEF Spec

\* On either axis and with either reader, a metered balance is always what was
\* granted less what is taken and not given back, plus what was credited for
\* requests no reserve debited; with a reader of the table there are none, so
\* the default reader is the only thing that can let a balance grow by itself.
THEOREM BalanceIsAccounted == Spec => []BalanceAccounts
  <1>1. BalanceInv => BalanceAccounts
    BY DEF BalanceInv
  <1> QED  BY <1>1, LedgerBalances, PTL

--------------------------------------------------------------------------------
(* ClientBilling implements ClientAccount: on SQLite the account that moves  *)
(* no credits, on Postgres the one that pays back, and takes the price first *)
(* exactly when the profiles are read from the table.                        *)

Charge == [k \in Keys |-> ChargeOf(k)]

LEMMA InitAccount == Init => Account!AccountInit
  BY DEF Init, Account!AccountInit, ChargeOf, AmountOf

LEMMA SameRowsSameCharge ==
  ASSUME UNCHANGED <<reader, rows, balance>>
  PROVE  UNCHANGED Account!account
  BY DEF Account!account, ChargeOf, AmountOf

\* Closing a reserved row moves its charge and nothing else.
LEMMA CloseMovesCharge ==
  ASSUME IndInv, NEW k \in Keys, Reserved(k),
         NEW state \in {"settled", "refunded", "expired"}, Close(k, state)
  PROVE  /\ Charge[k] = "held" /\ Amount[k] = rows[k].price
         /\ Charge' = [Charge EXCEPT ![k] = IF state = "settled" THEN "charged" ELSE "returned"]
         /\ Amount' = Amount
  <1>1. rows[k] \in Row /\ rows[k].state = "reserved"
    BY DEF IndInv, TypeOK, Reserved
  <1>2. /\ rows'[k] = [rows[k] EXCEPT !.state = state]
        /\ \A j \in Keys \ {k} : rows'[j] = rows[j]
    BY DEF Close, IndInv, TypeOK
  <1>3. rows'[k] \in Row /\ rows'[k].state = state /\ rows'[k].price = rows[k].price
    BY <1>1, <1>2 DEF Row
  <1>4. rows[k] # None /\ rows'[k] # None
    BY <1>1, <1>3, RowAssumption
  <1>5. ChargeOf(k)' = (IF state = "settled" THEN "charged" ELSE "returned")
        /\ AmountOf(k)' = AmountOf(k)
    BY <1>3, <1>4 DEF ChargeOf, AmountOf
  <1>6. \A j \in Keys \ {k} : ChargeOf(j)' = ChargeOf(j) /\ AmountOf(j)' = AmountOf(j)
    BY <1>2 DEF ChargeOf, AmountOf
  <1> QED  BY <1>1, <1>4, <1>5, <1>6 DEF Charge, Amount, ChargeOf, AmountOf

LEMMA CloseImplements ==
  ASSUME IndInv, NEW k \in Keys, Reserved(k), UNCHANGED reader,
         NEW state \in {"settled", "refunded", "expired"}, Close(k, state),
         IF state = "settled" THEN UNCHANGED balance ELSE Credit(k)
  PROVE  Account!Settle(k) \/ Account!Return(k)
  <1>1. /\ Charge[k] = "held" /\ Amount[k] = rows[k].price
        /\ Charge' = [Charge EXCEPT ![k] = IF state = "settled" THEN "charged" ELSE "returned"]
        /\ Amount' = Amount
    BY CloseMovesCharge
  <1>2. CASE state = "settled"
    BY <1>1, <1>2 DEF Account!Settle, Charge, Amount
  <1>3. CASE state # "settled"
    <2>1. IF Axis = "postgres" /\ Account!Metered(k) THEN Account!Move(k, Amount[k]) ELSE UNCHANGED balance
      BY <1>1, <1>3 DEF Credit, Account!Move, Account!Metered
    <2> QED  BY <1>1, <1>3, <2>1 DEF Account!Return, Charge, Amount
  <1> QED  BY <1>2, <1>3

LEMMA TakeOnImplements ==
  ASSUME BalanceInv, UNCHANGED reader, NEW c \in Calls, TakeOn(c)
  PROVE  Account!Hold(KeyOf[c], PriceOf(c))
  <1> DEFINE k == KeyOf[c]
             taking == reader = "table" /\ Axis = "postgres"
  <1>0. IndInv /\ DebitsKnown /\ Axis \in {"postgres", "sqlite"} /\ reader \in {"defaults", "table"}
    BY LedgerAssumption DEF BalanceInv, IndInv, TypeOK
  <1>1. k \in Keys /\ PriceOf(c) \in Nat
    BY CallAssumption DEF PriceOf
  <1>2. NewRow(c, Stamped(c)) \in Row
    BY <1>0, <1>1, CallAssumption DEF IndInv, TypeOK, NewRow, Stamped, Row
  <1>3. /\ rows[k] = None /\ rows'[k] = NewRow(c, Stamped(c)) /\ rows'[k] # None
        /\ \A j \in Keys \ {k} : rows'[j] = rows[j]
    BY <1>1, <1>2, <1>0, RowAssumption DEF TakeOn, RowOf, IndInv, TypeOK
  <1>4. /\ ChargeOf(k) = "none" /\ ChargeOf(k)' = "held" /\ AmountOf(k)' = PriceOf(c)
        /\ \A j \in Keys \ {k} : ChargeOf(j)' = ChargeOf(j) /\ AmountOf(j)' = AmountOf(j)
    BY <1>3 DEF ChargeOf, AmountOf, NewRow, PriceOf
  <1>5. /\ Charge[k] = "none" /\ Charge' = [Charge EXCEPT ![k] = "held"]
        /\ Amount' = [Amount EXCEPT ![k] = PriceOf(c)]
    BY <1>1, <1>4 DEF Charge, Amount
  <1>6. metered[c] <=> taking /\ Account!Metered(k)
    <2>1. metered[c] => OnMeteredProfile(c) /\ Axis = "postgres"
      BY <1>0 DEF IndInv, ModeIsCurrent, DebitsKnown
    <2>2. taking => metered[c] = OnMeteredProfile(c)
      BY <1>0 DEF IndInv, ModeIsCurrent, TakeOn
    <2>3. metered[c] => reader = "table"
      BY <1>0 DEF IndInv, ModeIsCurrent
    <2>4. OnMeteredProfile(c) = Account!Metered(k)
      BY DEF OnMeteredProfile, Account!Metered
    <2> QED  BY <2>1, <2>2, <2>3, <2>4
  <1>7. IF metered[c] THEN balance[ProfileOf[k]] >= PriceOf(c) /\ Account!Move(k, -PriceOf(c))
                      ELSE UNCHANGED balance
    <2>1. CASE metered[c]
      <3>1. ProfileOf[k] \in Profiles /\ balance[ProfileOf[k]] \in Nat
        BY <1>0, <1>1, <1>6, <2>1, CallAssumption DEF Account!Metered, IndInv, TypeOK
      <3>2. balance' = [balance EXCEPT ![ProfileOf[k]] = balance[ProfileOf[k]] - PriceOf(c)]
        BY <2>1 DEF TakeOn
      <3>3. balance[ProfileOf[k]] - PriceOf(c) = balance[ProfileOf[k]] + (-PriceOf(c))
        BY <3>1, <1>1
      <3>4. balance[ProfileOf[k]] >= PriceOf(c)
        BY <2>1 DEF TakeOn, Affordable
      <3> QED  BY <2>1, <3>2, <3>3, <3>4 DEF Account!Move
    <2>2. CASE ~metered[c]
      BY <2>2 DEF TakeOn
    <2> QED  BY <2>1, <2>2
  <1> HIDE DEF k
  <1>8. Account!Hold(k, PriceOf(c))
    BY <1>5, <1>6, <1>7 DEF Account!Hold, Charge, Amount
  <1> QED  BY <1>8 DEF k

\* What a SQLite store closes when it is opened is a sweep of the account.
LEMMA SweepImplements ==
  ASSUME TypeOK, Axis = "sqlite", NEW p \in Procs, Open(p)
  PROVE  Account!Sweep({k \in Keys : Expired(k)})
  <1>1. /\ UNCHANGED <<reader, balance>>
        /\ \A k \in Keys : rows'[k] = IF Expired(k) THEN [rows[k] EXCEPT !.state = "expired"] ELSE rows[k]
    BY DEF Open
  <1>2. ASSUME NEW k \in Keys, Expired(k)
        PROVE  ChargeOf(k) = "held" /\ ChargeOf(k)' = "returned" /\ AmountOf(k)' = AmountOf(k)
    <2>1. rows[k] \in Row /\ rows[k] # None /\ rows[k].state = "reserved"
      BY <1>2 DEF Expired, Reserved, TypeOK
    <2>2. rows'[k] = [rows[k] EXCEPT !.state = "expired"]
      BY <1>1, <1>2
    <2>3. rows'[k] \in Row /\ rows'[k].state = "expired" /\ rows'[k].price = rows[k].price
      BY <2>1, <2>2 DEF Row
    <2>4. rows'[k] # None
      BY <2>3, RowAssumption
    <2> QED  BY <2>1, <2>3, <2>4 DEF ChargeOf, AmountOf
  <1>3. ASSUME NEW k \in Keys, ~Expired(k)
        PROVE  ChargeOf(k)' = ChargeOf(k) /\ AmountOf(k)' = AmountOf(k)
    BY <1>1, <1>3 DEF ChargeOf, AmountOf
  <1> QED  BY <1>1, <1>2, <1>3 DEF Account!Sweep

LEMMA StepImplements ==
  ASSUME BalanceInv, [Next]_vars
  PROVE  [Account!AccountNext]_(Account!account)
  <1>0. IndInv /\ TypeOK
    BY DEF BalanceInv, IndInv
  <1>1. CASE UNCHANGED <<reader, rows, balance>>
    BY <1>1, SameRowsSameCharge
  <1>2. ASSUME NEW c \in Calls, TakeOn(c), UNCHANGED reader PROVE Account!AccountNext
    <2>1. Account!Hold(KeyOf[c], PriceOf(c))
      BY <1>2, TakeOnImplements
    <2>2. KeyOf[c] \in Keys /\ PriceOf(c) \in {Price[t] : t \in Tools}
      BY CallAssumption DEF PriceOf
    <2> QED  BY <2>1, <2>2 DEF Account!AccountNext
  <1>3. ASSUME NEW k \in Keys, Account!Settle(k) \/ Account!Return(k) PROVE Account!AccountNext
    BY <1>3 DEF Account!AccountNext
  <1>4. ASSUME NEW c \in Calls, Complete(c) PROVE [Account!AccountNext]_(Account!account)
    <2>1. CASE ~Reserved(KeyOf[c])
      BY <1>1, <1>4, <2>1 DEF Complete, Completion
    <2>2. CASE Reserved(KeyOf[c])
      <3>1. PICK state \in {"settled", "refunded"} :
              Close(KeyOf[c], state) /\ IF state = "settled" THEN UNCHANGED balance ELSE Credit(KeyOf[c])
        BY <1>4, <2>2 DEF Complete, Completion
      <3>2. KeyOf[c] \in Keys
        BY CallAssumption
      <3>3. Account!Settle(KeyOf[c]) \/ Account!Return(KeyOf[c])
        BY <1>0, <1>4, <2>2, <3>1, <3>2, CloseImplements DEF Complete
      <3> QED  BY <1>3, <3>2, <3>3
    <2> QED  BY <2>1, <2>2
  <1>5. ASSUME NEW k \in Keys, Reconcile(k) PROVE Account!AccountNext
    <2>1. Account!Settle(k) \/ Account!Return(k)
      BY <1>0, <1>5, CloseImplements DEF Reconcile, Expired
    <2> QED  BY <1>3, <2>1
  <1>6. ASSUME NEW p \in Profiles, Edit(p) PROVE Account!AccountNext
    <2>1. PICK v \in Edits : balance' = [balance EXCEPT ![p] = v]
      BY <1>6 DEF Edit
    <2>2. Account!Grant(p, v)
      BY <1>6, <2>1 DEF Edit, Account!Grant, ChargeOf, AmountOf
    <2> QED  BY <2>2 DEF Account!AccountNext
  <1>7. ASSUME NEW p \in Procs, Open(p) PROVE [Account!AccountNext]_(Account!account)
    <2>1. CASE Axis = "postgres"
      <3>1. rows' = rows
        BY <1>0, <1>7, <2>1 DEF Open, TypeOK
      <3> QED  BY <1>1, <1>7, <3>1 DEF Open
    <2>2. CASE Axis = "sqlite"
      <3> DEFINE S == {k \in Keys : Expired(k)}
      <3>1. Account!Sweep(S)
        BY <1>0, <1>7, <2>2, SweepImplements
      <3> HIDE DEF S
      <3>2. S \in SUBSET Keys
        BY DEF S
      <3> QED  BY <3>1, <3>2 DEF Account!AccountNext
    <2> QED  BY <2>1, <2>2, LedgerAssumption
  <1>8. ASSUME NEW c \in Calls, Boundary(c) PROVE [Account!AccountNext]_(Account!account)
    BY <1>1, <1>2, <1>4, <1>8
    DEF Boundary, Cancelled, Receive, ReadProfile, Stamp, Insert, InsertUnacknowledged,
        Exhausted, Conflict, Replay, ReplayRefused, ReserveFails, Handle, HandlerThrows,
        CompletionFails, moneyVars
  <1> QED
    BY <1>1, <1>5, <1>6, <1>7, <1>8
    DEF Next, OpenUnswept, Crash, Tick, vars, moneyVars

\* The ledger is an account, on either axis and with either reader: through
\* retries, races of completions and the scan, lost answers and crashes, each
\* request is taken on once and closed once.  With a reader of the table its
\* price is taken once and comes back whole or not at all; with the default
\* reader nothing is taken and a closed request still pays back.
THEOREM LedgerIsAccount == Spec => ImplementsAccount
  <1>1. BalanceInv /\ [Next]_vars => [Account!AccountNext]_(Account!account)
    BY StepImplements
  <1> QED  BY InitAccount, <1>1, LedgerBalances, PTL DEF Spec, ImplementsAccount, Account!AccountSpec
================================================================================
