--------------------------- MODULE ServerProofs ---------------------------
(***************************************************************************)
(* Proofs about the process that serves: the sessions of its transport,    *)
(* its start, and the clients of its state over Postgres and SQLite.  Each *)
(* part has an invariant of its own and they share no state.               *)
(***************************************************************************)
EXTENDS SessionManager, Startup, StateClients, FiniteSetTheorems, SequenceTheorems, TLAPS

(***************************************************************************)
(* Sessions                                                                *)
(***************************************************************************)

\* The initial state has no session and no sweep.
LEMMA InitInv == Init => IndInv
<1> SUFFICES ASSUME Init PROVE IndInv
  OBVIOUS
<1>1. TypeOK
  BY DEF Init, TypeOK, PCs
<1>2. LiveIsOpen /\ PastTimes /\ Unswept /\ NoIdleAtCount
  BY DEF Init, LiveIsOpen, PastTimes, Unswept, NoIdleAtCount, Live
<1>3. SweepsAwaited
  BY DEF Init, SweepsAwaited, Working, Sweeps
<1>4. QED
  BY <1>1, <1>2, <1>3 DEF IndInv

\* What an eviction by a sweep leaves true, whoever sweeps.
LEMMA EvictTyped ==
  ASSUME TypeOK, NEW w \in Sweeps, NEW s \in Sessions, NEW rest \in SUBSET Sessions,
         Evict(w, s, rest)
  PROVE  /\ lastSeen' \in [Sessions -> Nat \cup {None}]
         /\ inFlight' \subseteq Sessions
         /\ current' \in [Sweeps -> Sessions \cup {None}]
         /\ todo' \in [Sweeps -> SUBSET Sessions]
         /\ Live' = Live \ {s}
         /\ \A t \in Live' : lastSeen'[t] = lastSeen[t]
  BY SessionAssumption DEF Evict, TypeOK, Live

\* A sweep begins: it has evicted one entry of the list it was given, if any.
LEMMA BeginTyped ==
  ASSUME TypeOK, NEW w \in Sweeps, NEW S \in SUBSET Live, Begin(w, S), current[w] = None
  PROVE  /\ lastSeen' \in [Sessions -> Nat \cup {None}]
         /\ inFlight' \subseteq Sessions
         /\ current' \in [Sweeps -> Sessions \cup {None}]
         /\ todo' \in [Sweeps -> SUBSET Sessions]
         /\ sweepNow' = [sweepNow EXCEPT ![w] = now]
         /\ sweepNow' \in [Sweeps -> Nat]
         /\ Live' \subseteq Live
         /\ \A t \in Live' : lastSeen'[t] = lastSeen[t]
         /\ \A v \in Sweeps \ {w} : current'[v] = current[v] /\ todo'[v] = todo[v]
         /\ S = {} => current'[w] = None /\ todo'[w] = todo[w]
         /\ S # {} => current'[w] \in S /\ todo'[w] \subseteq S
         /\ S # {} => S \cap Live' \subseteq todo'[w]
<1>1. CASE S = {}
  BY <1>1 DEF Begin, TypeOK, Live
<1>2. CASE S # {}
  <2>1. PICK s \in S : Evict(w, s, S \ {s})
    BY <1>2 DEF Begin
  <2>2. s \in Sessions /\ S \ {s} \in SUBSET Sessions
    BY DEF Live
  <2>3. /\ lastSeen' \in [Sessions -> Nat \cup {None}]
        /\ inFlight' \subseteq Sessions
        /\ current' \in [Sweeps -> Sessions \cup {None}]
        /\ todo' \in [Sweeps -> SUBSET Sessions]
        /\ Live' = Live \ {s}
        /\ \A t \in Live' : lastSeen'[t] = lastSeen[t]
    BY <2>1, <2>2, EvictTyped
  <2>4. QED
    BY <1>2, <2>1, <2>2, <2>3 DEF Begin, Evict, TypeOK
<1>3. QED
  BY <1>1, <1>2

\* Every step preserves the inductive invariant.
LEMMA NextInv == IndInv /\ [Next]_vars => IndInv'
<1> SUFFICES ASSUME IndInv, [Next]_vars PROVE IndInv'
  OBVIOUS
<1> USE SessionAssumption
<1>a. /\ TypeOK /\ LiveIsOpen /\ PastTimes /\ SweepsAwaited /\ Unswept /\ NoIdleAtCount
  BY DEF IndInv
<1>b. StaleSessions \in SUBSET Live /\ Live \in SUBSET Sessions
  BY DEF StaleSessions, Stale, Live
<1>1. ASSUME NEW s \in Sessions, Admit(s) PROVE IndInv'
  <2>1. s \in Sweeps /\ current[s] = None /\ Begin(s, StaleSessions)
    BY <1>1, <1>a DEF Admit, Sweeps, SweepsAwaited, Working
  <2>2. /\ lastSeen' \in [Sessions -> Nat \cup {None}]
        /\ inFlight' \subseteq Sessions
        /\ current' \in [Sweeps -> Sessions \cup {None}]
        /\ todo' \in [Sweeps -> SUBSET Sessions]
        /\ sweepNow' = [sweepNow EXCEPT ![s] = now]
        /\ sweepNow' \in [Sweeps -> Nat]
        /\ Live' \subseteq Live
        /\ \A t \in Live' : lastSeen'[t] = lastSeen[t]
        /\ \A v \in Sweeps \ {s} : current'[v] = current[v] /\ todo'[v] = todo[v]
        /\ StaleSessions = {} => current'[s] = None /\ todo'[s] = todo[s]
        /\ StaleSessions # {} => current'[s] \in StaleSessions /\ todo'[s] \subseteq StaleSessions
        /\ StaleSessions # {} => StaleSessions \cap Live' \subseteq todo'[s]
    BY <1>a, <1>b, <2>1, BeginTyped
  <2>3. /\ pc[s] = "new"
        /\ pc' = [pc EXCEPT ![s] = IF StaleSessions = {} THEN "count" ELSE "sweep"]
        /\ now' = now /\ stage' = stage /\ released' = released /\ reported' = reported /\ lost' = lost
    BY <1>1 DEF Admit, Goto, ends
  <2>4. TypeOK'
    BY <1>a, <2>2, <2>3 DEF TypeOK, PCs
  <2>5. LiveIsOpen' /\ PastTimes'
    BY <1>a, <2>2, <2>3 DEF TypeOK, LiveIsOpen, PastTimes, Live, Sweeps
  <2>6. SweepsAwaited'
    <3>1. \A t \in Sessions : pc[t] = "open" => pc'[t] = "open"
      BY <1>a, <2>3 DEF TypeOK
    <3>2. \A t \in Sessions : current'[t] # None <=> pc'[t] = "sweep"
      BY <1>a, <1>b, <2>2, <2>3 DEF TypeOK, SweepsAwaited, Working, Live, Sweeps
    <3>3. current'[Closer] # None => stage' = "closing"
      BY <1>a, <2>2, <2>3 DEF SweepsAwaited, Working, Sweeps
    <3>4. \A v \in Sweeps :
            (current'[v] # None => pc'[current'[v]] = "open")
            /\ \A t \in todo'[v] : pc'[t] = "open"
      BY <1>a, <1>b, <2>1, <2>2, <3>1 DEF TypeOK, LiveIsOpen, SweepsAwaited, Live
    <3>5. QED
      BY <3>2, <3>3, <3>4 DEF SweepsAwaited, Working
  <2>7. Unswept'
    BY <1>a, <2>2, <2>3 DEF TypeOK, Unswept, StaleSessions, Stale, Live, Sweeps
  <2>8. NoIdleAtCount'
    BY <1>a, <2>2, <2>3 DEF TypeOK, NoIdleAtCount, StaleSessions, Stale, Live, Sweeps
  <2>9. QED
    BY <2>4, <2>5, <2>6, <2>7, <2>8 DEF IndInv
<1>2. ASSUME NEW w \in Timers, TimerSweep(w) PROVE IndInv'
  <2>1. w \in Sweeps /\ w \notin Sessions /\ w # Closer /\ current[w] = None
        /\ Begin(w, StaleSessions)
    BY <1>2 DEF TimerSweep, Sweeps, Working
  <2>2. /\ lastSeen' \in [Sessions -> Nat \cup {None}]
        /\ inFlight' \subseteq Sessions
        /\ current' \in [Sweeps -> Sessions \cup {None}]
        /\ todo' \in [Sweeps -> SUBSET Sessions]
        /\ sweepNow' = [sweepNow EXCEPT ![w] = now]
        /\ sweepNow' \in [Sweeps -> Nat]
        /\ Live' \subseteq Live
        /\ \A t \in Live' : lastSeen'[t] = lastSeen[t]
        /\ \A v \in Sweeps \ {w} : current'[v] = current[v] /\ todo'[v] = todo[v]
        /\ StaleSessions = {} => current'[w] = None /\ todo'[w] = todo[w]
        /\ StaleSessions # {} => current'[w] \in StaleSessions /\ todo'[w] \subseteq StaleSessions
    BY <1>a, <1>b, <2>1, BeginTyped
  <2>3. now' = now /\ pc' = pc /\ stage' = stage /\ released' = released /\ reported' = reported /\ lost' = lost
    BY <1>2 DEF TimerSweep, ends
  <2>4. TypeOK' /\ LiveIsOpen' /\ PastTimes'
    BY <1>a, <2>2, <2>3 DEF TypeOK, LiveIsOpen, PastTimes, Live, Sweeps
  <2>5. SweepsAwaited'
    BY <1>a, <1>b, <2>1, <2>2, <2>3 DEF TypeOK, LiveIsOpen, SweepsAwaited, Working, Live, Sweeps
  <2>6. Unswept' /\ NoIdleAtCount'
    BY <1>a, <2>1, <2>2, <2>3 DEF TypeOK, Unswept, NoIdleAtCount, Live, Sweeps
  <2>7. QED
    BY <2>4, <2>5, <2>6 DEF IndInv
<1>3. CASE Shutdown
  <2>1. Closer \in Sweeps /\ current[Closer] = None /\ Begin(Closer, Live)
    BY <1>3, <1>a DEF Shutdown, Sweeps, SweepsAwaited, Working
  <2>2. /\ lastSeen' \in [Sessions -> Nat \cup {None}]
        /\ inFlight' \subseteq Sessions
        /\ current' \in [Sweeps -> Sessions \cup {None}]
        /\ todo' \in [Sweeps -> SUBSET Sessions]
        /\ sweepNow' = [sweepNow EXCEPT ![Closer] = now]
        /\ sweepNow' \in [Sweeps -> Nat]
        /\ Live' \subseteq Live
        /\ \A t \in Live' : lastSeen'[t] = lastSeen[t]
        /\ \A v \in Sweeps \ {Closer} : current'[v] = current[v] /\ todo'[v] = todo[v]
        /\ Live = {} => current'[Closer] = None /\ todo'[Closer] = todo[Closer]
        /\ Live # {} => current'[Closer] \in Live /\ todo'[Closer] \subseteq Live
    BY <1>a, <1>b, <2>1, BeginTyped
  <2>3. /\ now' = now /\ pc' = pc /\ released' = released /\ reported' = reported /\ lost' = lost
        /\ stage' = IF Live = {} THEN "closed" ELSE "closing"
    BY <1>3 DEF Shutdown, ends
  <2>4. TypeOK' /\ LiveIsOpen' /\ PastTimes'
    BY <1>a, <2>2, <2>3 DEF TypeOK, LiveIsOpen, PastTimes, Live, Sweeps
  <2>5. SweepsAwaited'
    BY <1>a, <1>b, <2>1, <2>2, <2>3 DEF TypeOK, LiveIsOpen, SweepsAwaited, Working, Live, Sweeps
  <2>6. Unswept' /\ NoIdleAtCount'
    BY <1>a, <2>1, <2>2, <2>3 DEF TypeOK, Unswept, NoIdleAtCount, Live, Sweeps
  <2>7. QED
    BY <2>4, <2>5, <2>6 DEF IndInv
<1>4. ASSUME NEW w \in Sweeps, Continue(w) PROVE IndInv'
  <2>1. /\ current[w] \in Sessions /\ now' = now /\ sweepNow' = sweepNow
        /\ released' \subseteq Sessions /\ reported' \subseteq Sessions /\ lost' \subseteq Sessions
    BY <1>4, <1>a DEF Continue, Release, Working, TypeOK
  <2>2. CASE Return(w)
    <3>1. /\ todo[w] = {} /\ todo' = todo /\ lastSeen' = lastSeen /\ inFlight' = inFlight
          /\ current' = [current EXCEPT ![w] = None]
          /\ pc' = [s \in Sessions |-> IF s = w THEN "count" ELSE pc[s]]
          /\ stage' = IF w = Closer THEN "closed" ELSE stage
      BY <2>2 DEF Return
    <3>2. w \in Sessions => pc[w] = "sweep"
      BY <1>4, <1>a DEF Continue, SweepsAwaited, Working
    <3>3. TypeOK' /\ LiveIsOpen' /\ PastTimes'
      BY <1>a, <2>1, <3>1, <3>2 DEF TypeOK, PCs, LiveIsOpen, PastTimes, Live
    <3>4. SweepsAwaited'
      BY <1>a, <1>4, <2>1, <3>1, <3>2 DEF TypeOK, Continue, SweepsAwaited, Working, Sweeps
    <3>5. Unswept' /\ NoIdleAtCount'
      BY <1>a, <2>1, <3>1, <3>2 DEF TypeOK, Unswept, NoIdleAtCount, Live, Sweeps
    <3>6. QED
      BY <3>3, <3>4, <3>5 DEF IndInv
  <2>3. CASE EvictNext(w)
    <3>1. PICK s \in todo[w] : Evict(w, s, todo[w] \ {s})
      BY <2>3 DEF EvictNext
    <3>2. s \in Sessions /\ todo[w] \ {s} \in SUBSET Sessions
      BY <1>a DEF TypeOK
    <3>3. /\ lastSeen' \in [Sessions -> Nat \cup {None}]
          /\ inFlight' \subseteq Sessions
          /\ current' \in [Sweeps -> Sessions \cup {None}]
          /\ todo' \in [Sweeps -> SUBSET Sessions]
          /\ Live' = Live \ {s}
          /\ \A t \in Live' : lastSeen'[t] = lastSeen[t]
      BY <1>a, <3>1, <3>2, EvictTyped
    <3>4. /\ current' = [current EXCEPT ![w] = s]
          /\ todo' = [todo EXCEPT ![w] = todo[w] \ {s}]
          /\ pc' = pc /\ stage' = stage
      BY <2>3, <3>1 DEF EvictNext, Evict
    <3>5. TypeOK' /\ LiveIsOpen' /\ PastTimes'
      BY <1>a, <2>1, <3>3, <3>4 DEF TypeOK, LiveIsOpen, PastTimes, Live
    <3>6. SweepsAwaited'
      BY <1>a, <1>4, <2>1, <3>1, <3>2, <3>4
      DEF TypeOK, Continue, SweepsAwaited, Working, Sweeps
    <3>7. Unswept' /\ NoIdleAtCount'
      BY <1>a, <2>1, <3>3, <3>4 DEF TypeOK, Unswept, NoIdleAtCount, Live, Sweeps
    <3>8. QED
      BY <3>5, <3>6, <3>7 DEF IndInv
  <2>4. QED
    BY <1>4, <2>2, <2>3 DEF Continue
<1>5. ASSUME NEW s \in Sessions, Count(s) \/ Refuse(s) \/ InitializeFails(s) PROVE IndInv'
  BY <1>a, <1>5
  DEF Count, Refuse, InitializeFails, Goto, sweepVars, ends, IndInv, TypeOK, PCs, LiveIsOpen,
      PastTimes, SweepsAwaited, Working, Unswept, NoIdleAtCount, Live
<1>6. ASSUME NEW s \in Sessions, Register(s) \/ Request(s) PROVE IndInv'
  BY <1>a, <1>6
  DEF Register, Request, Goto, sweepVars, ends, IndInv, TypeOK, PCs, LiveIsOpen,
      PastTimes, SweepsAwaited, Working, Unswept, NoIdleAtCount, Live, Sweeps
<1>7. ASSUME NEW s \in Sessions, Respond(s) \/ Forget(s) PROVE IndInv'
  BY <1>a, <1>7
  DEF Respond, Forget, sweepVars, ends, IndInv, TypeOK, LiveIsOpen, PastTimes, SweepsAwaited,
      Working, Unswept, NoIdleAtCount, Live
<1>8. CASE Tick
  BY <1>a, <1>8
  DEF Tick, sweepVars, ends, IndInv, TypeOK, LiveIsOpen, PastTimes, SweepsAwaited, Working,
      Unswept, NoIdleAtCount, Live
<1>9. CASE UNCHANGED vars
  BY <1>a, <1>9
  DEF vars, sweepVars, ends, IndInv, TypeOK, LiveIsOpen, PastTimes, SweepsAwaited, Working,
      Unswept, NoIdleAtCount, Live
<1>10. QED
  BY <1>1, <1>2, <1>3, <1>4, <1>5, <1>6, <1>7, <1>8, <1>9 DEF Next

\* The session map is typed, only registered sessions are in it, and every
\* admission counts after its sweep has done its work.
THEOREM SessionInvariant == Spec => []IndInv
  BY InitInv, NextInv, PTL DEF Spec

\* An abandoned session never denies service (admit sweeps before it counts).
THEOREM AbandonedNeverDenies == Spec => []NoIdleAtCount
<1>1. IndInv => NoIdleAtCount
  BY DEF IndInv
<1>2. QED
  BY <1>1, SessionInvariant, PTL

--------------------------------------------------------------------------------
(* The ceiling *)

\* Only two steps move a session into the count of the ceiling.
LEMMA CountedOrShrinking ==
  ASSUME IndInv, [Next]_vars
  PROVE  \/ Live' \subseteq Live /\ Admitting' \subseteq Admitting
         \/ \E s \in Sessions : Count(s) \/ Register(s)
<1>a. TypeOK /\ SweepsAwaited /\ Live \subseteq Sessions
  BY DEF IndInv, Live
<1>b. ASSUME pc' = pc PROVE Admitting' = Admitting
  BY <1>b DEF Admitting
<1>c. ASSUME NEW w \in Sweeps, NEW S, Begin(w, S) PROVE Live' \subseteq Live
  BY <1>a, <1>c, SessionAssumption DEF Begin, Evict, Live, TypeOK
<1>1. ASSUME NEW s \in Sessions, Admit(s) PROVE Live' \subseteq Live /\ Admitting' \subseteq Admitting
  <2>1. s \in Sweeps
    BY DEF Sweeps
  <2>2. Admitting' \subseteq Admitting
    BY <1>1, <1>a DEF Admit, Goto, Admitting, TypeOK
  <2>3. QED
    BY <1>1, <1>c, <2>1, <2>2 DEF Admit
<1>2. ASSUME NEW s \in Sessions, Refuse(s) \/ InitializeFails(s) \/ Request(s) \/ Respond(s) \/ Forget(s)
      PROVE  Live' \subseteq Live /\ Admitting' \subseteq Admitting
  BY <1>a, <1>2, SessionAssumption
  DEF Refuse, InitializeFails, Request, Respond, Forget, Goto, Live, Admitting, TypeOK
<1>3. ASSUME NEW w \in Sweeps, Continue(w) PROVE Live' \subseteq Live /\ Admitting' \subseteq Admitting
  <2>1. CASE Return(w)
    BY <1>a, <2>1 DEF Return, Live, Admitting, TypeOK
  <2>2. CASE EvictNext(w)
    BY <1>a, <1>b, <2>2, SessionAssumption DEF EvictNext, Evict, Live, TypeOK
  <2>3. QED
    BY <1>3, <2>1, <2>2 DEF Continue
<1>4. ASSUME NEW w \in Timers, TimerSweep(w) PROVE Live' \subseteq Live /\ Admitting' \subseteq Admitting
  BY <1>4, <1>b, <1>c DEF TimerSweep, Sweeps
<1>5. CASE Shutdown
  BY <1>5, <1>b, <1>c DEF Shutdown, Sweeps
<1>6. CASE Tick \/ UNCHANGED vars
  BY <1>6, <1>b DEF Tick, vars, Live
<1>7. QED
  BY <1>1, <1>2, <1>3, <1>4, <1>5, <1>6 DEF Next

\* An admission between its count and its registration keeps its place.
LEMMA CeilingStep ==
  IndInv /\ CeilingWithinAdmitting /\ [Next]_vars => CeilingWithinAdmitting'
<1> SUFFICES ASSUME IndInv, CeilingWithinAdmitting, [Next]_vars
             PROVE  CeilingWithinAdmitting'
  OBVIOUS
<1>a. IsFiniteSet(Live) /\ IsFiniteSet(Admitting)
  BY SessionAssumption, FS_Subset DEF Live, Admitting
<1>b. Cardinality(Live) \in Nat /\ Cardinality(Admitting) \in Nat
  BY <1>a, FS_CardinalityType
<1>1. CASE Live' \subseteq Live /\ Admitting' \subseteq Admitting
  <2>1. /\ Cardinality(Live') \in Nat /\ Cardinality(Admitting') \in Nat
        /\ Cardinality(Live') <= Cardinality(Live)
        /\ Cardinality(Admitting') <= Cardinality(Admitting)
    BY <1>a, <1>1, FS_Subset, FS_CardinalityType
  <2>2. QED
    BY <1>b, <2>1, SessionAssumption DEF CeilingWithinAdmitting
<1>2. ASSUME NEW s \in Sessions, Count(s) PROVE CeilingWithinAdmitting'
  <2>1. Live' = Live /\ Admitting' = Admitting \cup {s} /\ s \notin Admitting
    BY <1>2 DEF Count, Goto, Live, Admitting, IndInv, TypeOK
  <2>2. Cardinality(Admitting') = Cardinality(Admitting) + 1
    BY <1>a, <2>1, FS_AddElement
  <2>3. Cardinality(Live) < MaxSessions /\ Cardinality(Admitting) < MaxAdmitting
    BY <1>2 DEF Count
  <2>4. QED
    BY <1>b, <2>1, <2>2, <2>3, SessionAssumption DEF CeilingWithinAdmitting
<1>3. ASSUME NEW s \in Sessions, Register(s) PROVE CeilingWithinAdmitting'
  <2>1. s \in Admitting /\ s \notin Live
    BY <1>3 DEF Register, Admitting, Live, IndInv, LiveIsOpen
  <2>2. Live' = Live \cup {s}
    BY <1>3, SessionAssumption DEF Register, Live, IndInv, TypeOK
  <2>3. Admitting' = Admitting \ {s}
    BY <1>3 DEF Register, Goto, Admitting, IndInv, TypeOK
  <2>4. Cardinality(Live') = Cardinality(Live) + 1
    BY <1>a, <2>1, <2>2, FS_AddElement
  <2>5. Cardinality(Admitting') = Cardinality(Admitting) - 1
    BY <1>a, <2>1, <2>3, FS_RemoveElement
  <2>6. QED
    BY <1>b, <2>4, <2>5, SessionAssumption DEF CeilingWithinAdmitting
<1>4. QED
  BY <1>1, <1>2, <1>3, CountedOrShrinking

\* The sessions in the map pass the declared ceiling by no more than the
\* admissions that can be between their count and their registration at once,
\* less one (admit and register).
THEOREM CeilingWithRoom == Spec => []CeilingWithinAdmitting
<1>1. Init => CeilingWithinAdmitting
  <2> SUFFICES ASSUME Init PROVE CeilingWithinAdmitting
    OBVIOUS
  <2>1. Live = {} /\ Admitting = {}
    BY DEF Init, Live, Admitting
  <2>2. Cardinality(Live) = 0 /\ Cardinality(Admitting) = 0
    BY <2>1, FS_EmptySet
  <2>3. QED
    BY <2>2, SessionAssumption DEF CeilingWithinAdmitting
<1>2. QED
  BY <1>1, CeilingStep, SessionInvariant, PTL DEF Spec

--------------------------------------------------------------------------------
(* Nothing leaks *)

LEMMA NothingLeaksStep == IndInv /\ NothingLeaks /\ [Next]_vars => NothingLeaks'
<1> SUFFICES ASSUME IndInv, NothingLeaks, [Next]_vars PROVE NothingLeaks'
  OBVIOUS
<1> USE SessionAssumption
<1>a. TypeOK /\ LiveIsOpen /\ SweepsAwaited
  BY DEF IndInv
\* A sweep that was idle evicts a session: it is at that session afterwards.
<1>b. ASSUME NEW w \in Sweeps, NEW S \in SUBSET Sessions, Begin(w, S), current[w] = None,
             released' = released /\ reported' = reported /\ lost' = lost, \A s \in Sessions : pc'[s] = "open" => pc[s] = "open"
      PROVE  NothingLeaks'
  <2>1. CASE S = {}
    BY <1>b, <2>1 DEF Begin, NothingLeaks
  <2>2. CASE S # {}
    <3>1. PICK s \in S : Evict(w, s, S \ {s})
      BY <1>b, <2>2 DEF Begin
    <3>2. s \in Sessions /\ current'[w] = s
      BY <1>a, <1>b, <3>1 DEF Evict, TypeOK
    <3>3. \A v \in Sweeps \ {w} : current'[v] = current[v]
      BY <1>a, <3>1 DEF Evict, TypeOK
    <3>4. \A t \in Sessions \ {s} : lastSeen'[t] = lastSeen[t]
      BY <1>a, <3>1 DEF Evict, TypeOK
    <3>5. QED
      BY <1>b, <3>2, <3>3, <3>4 DEF NothingLeaks
  <2>3. QED
    BY <2>1, <2>2
<1>1. ASSUME NEW s \in Sessions, Admit(s) PROVE NothingLeaks'
  <2>1. s \in Sweeps /\ current[s] = None /\ Begin(s, StaleSessions)
    BY <1>a, <1>1 DEF Admit, Sweeps, SweepsAwaited, Working
  <2>2. \A t \in Sessions : pc'[t] = "open" => pc[t] = "open"
    BY <1>a, <1>1 DEF Admit, Goto, TypeOK
  <2>3. StaleSessions \in SUBSET Sessions /\ released' = released /\ reported' = reported /\ lost' = lost
    BY <1>1 DEF Admit, StaleSessions, ends
  <2>4. QED
    BY <1>b, <2>1, <2>2, <2>3
<1>2. ASSUME NEW w \in Timers, TimerSweep(w) PROVE NothingLeaks'
  <2>1. w \in Sweeps /\ current[w] = None /\ Begin(w, StaleSessions)
    BY <1>2 DEF TimerSweep, Sweeps, Working
  <2>2. StaleSessions \in SUBSET Sessions /\ released' = released /\ reported' = reported /\ lost' = lost /\ pc' = pc
    BY <1>2 DEF TimerSweep, StaleSessions, ends
  <2>3. QED
    BY <1>b, <2>1, <2>2
<1>3. CASE Shutdown
  <2>1. Closer \in Sweeps /\ current[Closer] = None /\ Begin(Closer, Live)
    BY <1>a, <1>3 DEF Shutdown, Sweeps, SweepsAwaited, Working
  <2>2. Live \in SUBSET Sessions /\ released' = released /\ reported' = reported /\ lost' = lost /\ pc' = pc
    BY <1>3 DEF Shutdown, Live, ends
  <2>3. QED
    BY <1>b, <2>1, <2>2
<1>4. ASSUME NEW w \in Sweeps, Continue(w) PROVE NothingLeaks'
  <2>1. /\ current[w] \in Sessions
        /\ current[w] \in released' \cup reported' \cup lost'
        /\ released \cup reported \cup lost \subseteq released' \cup reported' \cup lost'
    BY <1>a, <1>4 DEF Continue, Release, Working, TypeOK
  <2>2. CASE Return(w)
    <3>1. /\ lastSeen' = lastSeen
          /\ \A v \in Sweeps \ {w} : current'[v] = current[v]
          /\ \A s \in Sessions : pc'[s] = "open" => pc[s] = "open"
      BY <1>a, <2>2 DEF Return, TypeOK
    <3>2. QED
      BY <2>1, <3>1 DEF NothingLeaks
  <2>3. CASE EvictNext(w)
    <3>1. PICK s \in todo[w] : Evict(w, s, todo[w] \ {s})
      BY <2>3 DEF EvictNext
    <3>2. s \in Sessions /\ current'[w] = s /\ pc' = pc
      BY <1>a, <2>3, <3>1 DEF EvictNext, Evict, TypeOK
    <3>3. /\ \A v \in Sweeps \ {w} : current'[v] = current[v]
          /\ \A t \in Sessions \ {s} : lastSeen'[t] = lastSeen[t]
      BY <1>a, <3>1 DEF Evict, TypeOK
    <3>4. QED
      BY <2>1, <3>2, <3>3 DEF NothingLeaks
  <2>4. QED
    BY <1>4, <2>2, <2>3 DEF Continue
<1>5. ASSUME NEW s \in Sessions, Count(s) \/ Refuse(s) \/ InitializeFails(s) PROVE NothingLeaks'
  BY <1>a, <1>5
  DEF Count, Refuse, InitializeFails, Goto, sweepVars, ends, NothingLeaks, TypeOK
<1>6. ASSUME NEW s \in Sessions, Register(s) \/ Request(s) \/ Respond(s) \/ Forget(s)
      PROVE  NothingLeaks'
  BY <1>a, <1>6
  DEF Register, Request, Respond, Forget, Goto, sweepVars, ends, NothingLeaks, TypeOK
<1>7. CASE Tick \/ UNCHANGED vars
  BY <1>7 DEF Tick, vars, sweepVars, ends, NothingLeaks
<1>8. QED
  BY <1>1, <1>2, <1>3, <1>4, <1>5, <1>6, <1>7 DEF Next

\* Every session that left the map, by whichever path, has had its server told
\* to close or has a sweep waiting for that, whichever halves of however many
\* sessions throw; the exceptions are named by the row of the sweep, and lost by
\* a shutdown (sweep, release, forget, shutdown).
THEOREM NoSessionLeaks == Spec => []NothingLeaks
<1>1. Init => NothingLeaks
  BY DEF Init, NothingLeaks
<1>2. QED
  BY <1>1, NothingLeaksStep, SessionInvariant, PTL DEF Spec

--------------------------------------------------------------------------------
(* The two clocks of a request *)

\* A request in flight belongs to a live session heard of within the timeout.
InFlightTimed ==
  \A s \in inFlight : lastSeen[s] # None /\ now - lastSeen[s] <= ResponseTimeout

LEMMA InFlightStep == IndInv /\ InFlightTimed /\ [Next]_vars => InFlightTimed'
<1> SUFFICES ASSUME IndInv, InFlightTimed, [Next]_vars PROVE InFlightTimed'
  OBVIOUS
<1> USE SessionAssumption
<1>a. TypeOK
  BY DEF IndInv
<1>b. ASSUME now' = now, NEW w \in Sweeps, NEW s \in Sessions, NEW rest, Evict(w, s, rest)
      PROVE  InFlightTimed'
  BY <1>a, <1>b DEF Evict, InFlightTimed, TypeOK
<1>c. ASSUME now' = now, NEW w \in Sweeps, NEW S \in SUBSET Sessions, Begin(w, S)
      PROVE  InFlightTimed'
  BY <1>b, <1>c DEF Begin, InFlightTimed
<1>1. ASSUME NEW s \in Sessions, Admit(s) PROVE InFlightTimed'
  <2>1. s \in Sweeps /\ StaleSessions \in SUBSET Sessions
    BY DEF Sweeps, StaleSessions
  <2>2. QED
    BY <1>1, <1>c, <2>1 DEF Admit
<1>2. ASSUME NEW w \in Timers, TimerSweep(w) PROVE InFlightTimed'
  <2>1. w \in Sweeps /\ StaleSessions \in SUBSET Sessions
    BY DEF Sweeps, StaleSessions
  <2>2. QED
    BY <1>2, <1>c, <2>1 DEF TimerSweep
<1>3. CASE Shutdown
  <2>1. Closer \in Sweeps /\ Live \in SUBSET Sessions
    BY DEF Sweeps, Live
  <2>2. QED
    BY <1>3, <1>c, <2>1 DEF Shutdown
<1>4. ASSUME NEW w \in Sweeps, Continue(w) PROVE InFlightTimed'
  <2>1. CASE Return(w)
    BY <1>4, <2>1 DEF Continue, Return, InFlightTimed
  <2>2. CASE EvictNext(w)
    <3>1. \A s \in todo[w] : s \in Sessions
      BY <1>a DEF TypeOK
    <3>2. QED
      BY <1>4, <1>b, <2>2, <3>1 DEF Continue, EvictNext
  <2>3. QED
    BY <1>4, <2>1, <2>2 DEF Continue
<1>5. ASSUME NEW s \in Sessions, Count(s) \/ Refuse(s) \/ InitializeFails(s) PROVE InFlightTimed'
  BY <1>5 DEF Count, Refuse, InitializeFails, InFlightTimed
<1>6. ASSUME NEW s \in Sessions, Register(s) \/ Request(s) \/ Respond(s) \/ Forget(s)
      PROVE  InFlightTimed'
  BY <1>a, <1>6 DEF Register, Request, Respond, Forget, InFlightTimed, TypeOK
<1>7. CASE Tick
  BY <1>a, <1>7 DEF Tick, InFlightTimed, TypeOK
<1>8. CASE UNCHANGED vars
  BY <1>8 DEF vars, InFlightTimed
<1>9. QED
  BY <1>1, <1>2, <1>3, <1>4, <1>5, <1>6, <1>7, <1>8 DEF Next

\* No session is past the idle timeout while a request of it waits for its
\* response: the response clock, shorter by the assertion of the startup,
\* always comes first (assertResponseTimeoutFitsIdle).
THEOREM InFlightNeverStale == Spec => []InFlightIsFresh
<1>1. Init => InFlightTimed
  BY DEF Init, InFlightTimed
<1>2. IndInv /\ InFlightTimed => InFlightIsFresh
  BY SessionAssumption, assertResponseTimeoutFitsIdle
  DEF IndInv, TypeOK, InFlightTimed, InFlightIsFresh, Stale
<1>3. QED
  BY <1>1, <1>2, InFlightStep, SessionInvariant, PTL DEF Spec

(***************************************************************************)
(* The start                                                               *)
(***************************************************************************)

Phases == {"loading", "settings", "probing", "stores", "transport", "serving", "exited"}
\* What each phase has behind it: the checks of the tables, the settings, the probes on which the
\* storage was chosen, the registry, and the conditions of the transport.
Passed ==
  /\ phase \in Phases /\ build \in DOMAIN Tables
  /\ phase \notin {"loading", "exited"} => MergeParticipantsAreFree(tables.routes, tables.registrations)
  /\ phase \notin {"loading", "settings", "exited"} => env \in Settings /\ Valid(env)
  /\ phase \in {"stores", "transport", "serving"} => storage = Storage /\ Pending = {}
  /\ phase \in {"transport", "serving"} => Constructible(tables.routes, tables.manifest)
  /\ phase = "serving" /\ Transport = "http" => env.port # Unset /\ Identity /\ IdleClears

LEMMA StartSteps ==
  ASSUME Passed, [StartNext]_startVars
  PROVE  Passed'
<1> USE DEF Passed, Phases
<1>1. CASE LoadsModules
  BY <1>1 DEF LoadsModules, GoesOr, tables
<1>2. ASSUME NEW settings \in Settings, LoadsEnv(settings)
      PROVE  Passed'
  BY <1>2 DEF LoadsEnv, GoesOr, tables
<1>3. CASE Probe
  BY <1>3 DEF Probe, GoesOr, tables
<1>4. CASE BuildsStores
  BY <1>4 DEF BuildsStores, Goes, tables, Storage, Profile, Pending, Asked, Identity, Transport
<1>5. CASE BuildsRegistry
  BY <1>5 DEF BuildsRegistry, GoesOr, tables, Storage, Profile, Pending, Asked, Identity, Transport
<1>6. CASE Attaches
  BY <1>6 DEF Attaches, Goes, tables, Storage, Profile, Pending, Asked, Identity, Transport
<1>7. CASE Binds
  BY <1>7 DEF Binds, Goes, GoesOr, tables, Storage, Profile, Pending, Asked, Identity, Transport, IdleClears, IdleLimit, ResponseLimit
<1>8. CASE StoreChanges \/ UNCHANGED startVars
  BY <1>8 DEF StoreChanges, startVars, tables, Storage, Profile, Pending, Asked, Identity, Transport, IdleClears, IdleLimit, ResponseLimit
<1> QED  BY <1>1, <1>2, <1>3, <1>4, <1>5, <1>6, <1>7, <1>8 DEF StartNext

\* Each phase of a start has the checks of the phases before it behind it.
THEOREM StartPasses == StartSpec => []Passed
<1>1. StartInit => Passed
  BY DEF StartInit, Passed, Phases
<1>2. Passed /\ [StartNext]_startVars => Passed'
  BY StartSteps
<1> QED  BY <1>1, <1>2, PTL DEF StartSpec

\* A process that serves has the storage, the probes and the identity that its profile asks for,
\* whatever the store did between two steps of its start.
THEOREM ServesAsConfigured == StartSpec => []ListensAsConfigured
<1>1. Passed => ListensAsConfigured
  <2> SUFFICES ASSUME Passed, phase = "serving"
               PROVE  /\ env.profile = "network" => storage = "postgres" /\ {"dsn", "store", "token"} \subseteq probed
                      /\ env.profile \in {"network", "network-sqlite"} => env.pepper # Unset /\ env.port # Unset
                      /\ env.profile \in {Unset, "local"} => storage = "sqlite"
    BY DEF ListensAsConfigured
  <2>1. /\ storage = Storage /\ Pending = {}
        /\ Transport = "http" => env.port # Unset /\ Identity
    BY DEF Passed
  <2>2. CASE env.profile = "network"
    <3>1. Profile = "network" /\ Transport = "http" /\ Storage = "postgres"
      BY <2>2, StartAssumption DEF Profile, Transport, Storage
    <3>2. \A i \in DOMAIN Probes : Probes[i] \in probed
      BY <2>1, <3>1 DEF Pending, Asked
    <3>3. DOMAIN Probes = 1..3 /\ Probes[1] = "dsn" /\ Probes[2] = "store" /\ Probes[3] = "token"
      BY DEF Probes
    <3>4. {"dsn", "store", "token"} \subseteq probed
      BY <3>2, <3>3
    <3> QED  BY <2>1, <2>2, <3>1, <3>4, StartAssumption DEF Identity
  <2>3. CASE env.profile = "network-sqlite"
    <3>1. Transport = "http"
      BY <2>3, StartAssumption DEF Profile, Transport
    <3> QED  BY <2>1, <2>3, <3>1, StartAssumption DEF Identity
  <2>4. CASE env.profile \in {Unset, "local"}
    BY <2>1, <2>4, StartAssumption DEF Profile, Storage
  <2> QED  BY <2>2, <2>3, <2>4
<1> QED  BY <1>1, StartPasses, PTL

\* A merge that passed its check names free sources alone.
LEMMA MergesFree ==
  ASSUME NEW routes, NEW registrations, MergeParticipantsAreFree(routes, registrations),
         NEW i \in DOMAIN routes, routes[i].merge, NEW j \in DOMAIN routes, routes[j].capability = routes[i].capability,
         NEW r \in ToSet(registrations), r.id \in ToSet(routes[j].adapters)
  PROVE  r.tier = "free"
<1>1. r.id \in Participants(routes, routes[i].capability)
  BY DEF Participants
<1>2. TiersOf(registrations, r.id) = {"free"}
  BY <1>1 DEF MergeParticipantsAreFree
<1> QED  BY <1>2 DEF TiersOf

\* The longest each capability of the shipped tables takes, free and paid.
LEMMA ShippedBounds ==
  ASSUME NEW c \in Capabilities
  PROVE  /\ Longest[c] <= ShippedManifest[c].paidLeg
         /\ ShippedManifest[c].deadline + Longest[c] \in Nat
         /\ ShippedManifest[c].deadline + Longest[c] <= 330
<1>1. Attempt = 90
  BY DEF Attempt, MaxWait, HopTimeout, MaxRedirects
<1>2. Longest[c] = PaidRequests(c) * Attempt
  BY DEF Longest
<1>3. /\ ShippedManifest[c].deadline = IF c \in OneRequest \cup OneOfTwo THEN 15 ELSE IF c \in Composite THEN 30 ELSE 60
      /\ ShippedManifest[c].paidLeg = IF c \in DOMAIN PaidLegs THEN PaidLegs[c] ELSE 0
  BY DEF ShippedManifest
<1>4. /\ DOMAIN PaidLegs = {"entity.labels", "smart-money.flows", "token.risk"}
      /\ PaidLegs["entity.labels"] = 270 /\ PaidLegs["smart-money.flows"] = 180 /\ PaidLegs["token.risk"] = 180
  BY DEF PaidLegs
<1>5. ShippedManifest[c].deadline \in Nat /\ ShippedManifest[c].deadline <= 60
  BY <1>3
<1>6. CASE c = "entity.labels"
  <2>1. PaidRequests(c) = 3
    BY <1>6 DEF PaidRequests
  <2> QED  BY <1>1, <1>2, <1>3, <1>4, <1>5, <1>6, <2>1
<1>7. CASE c \in {"smart-money.flows", "token.risk"}
  <2>1. PaidRequests(c) = 2
    BY <1>7 DEF PaidRequests
  <2> QED  BY <1>1, <1>2, <1>3, <1>4, <1>5, <1>7, <2>1
<1>8. CASE c \notin {"entity.labels", "smart-money.flows", "token.risk"}
  <2>1. PaidRequests(c) = 0
    BY <1>8 DEF PaidRequests
  <2> QED  BY <1>1, <1>2, <1>3, <1>4, <1>5, <1>8, <2>1
<1> QED  BY <1>6, <1>7, <1>8

\* What a process serves from was checked: its merges are free, its capabilities end, and with the
\* shipped tables no paid request outlives the response or the session.
THEOREM ServesSafeTables == StartSpec => []ServedTablesAreSafe
<1>1. Passed => ServedTablesAreSafe
  <2> SUFFICES ASSUME Passed, phase = "serving"
               PROVE  /\ build \in FreeMerges
                      /\ Transport = "http" /\ build = "shipped" => \A c \in Capabilities :
                           /\ Longest[c] <= ShippedManifest[c].paidLeg
                           /\ ShippedManifest[c].deadline + Longest[c] < ResponseLimit
                           /\ ResponseLimit < IdleLimit
    BY DEF ServedTablesAreSafe
  <2>1. /\ build \in DOMAIN Tables /\ MergeParticipantsAreFree(tables.routes, tables.registrations)
        /\ Constructible(tables.routes, tables.manifest) /\ env \in Settings /\ Valid(env)
        /\ Transport = "http" => IdleClears
    BY DEF Passed
  <2>2. build \in FreeMerges
    <3> DEFINE t == tables
    <3>1. ASSUME NEW i \in DOMAIN t.routes
          PROVE  /\ t.manifest[t.routes[i].capability].deadline > 0
                 /\ t.routes[i].merge => \A j \in DOMAIN t.routes, r \in ToSet(t.registrations) :
                      t.routes[j].capability = t.routes[i].capability /\ r.id \in ToSet(t.routes[j].adapters) => r.tier = "free"
      <4>1. t.manifest[t.routes[i].capability].deadline > 0
        BY <2>1 DEF Constructible
      <4> QED  BY <2>1, <4>1, MergesFree
    <3> QED  BY <2>1, <3>1 DEF FreeMerges, tables
  <2>3. ASSUME Transport = "http", NEW c \in Capabilities
        PROVE  /\ Longest[c] <= ShippedManifest[c].paidLeg
               /\ ShippedManifest[c].deadline + Longest[c] < ResponseLimit
               /\ ResponseLimit < IdleLimit
    <3>1. ResponseLimit \in Nat /\ ResponseLimit > 330
      BY <2>1, StartAssumption DEF ResponseLimit, Valid, DefaultResponseTimeout, ResponseFloor
    <3>2. IdleLimit > ResponseLimit
      BY <2>1, <2>3 DEF IdleClears
    <3> QED  BY <3>1, <3>2, ShippedBounds
  <2> QED  BY <2>2, <2>3
<1> QED  BY <1>1, StartPasses, PTL

(***************************************************************************)
(* The Postgres clients                                                    *)
(***************************************************************************)

Statements ==
  {s \in [by : Callers, verb : {"begin", "write", "commit", "rollback", "auto", "select"}, n : 1..5] :
     /\ Kind(s.by) = "tx" => \/ s.verb = "begin" /\ s.n = 1
                             \/ s.verb = "write" /\ s.n \in {2, 3}
                             \/ s.verb = "commit" /\ s.n = 4
                             \/ s.verb = "rollback" /\ s.n = 5
     /\ Kind(s.by) = "auto" => s.verb = "auto" /\ s.n = 1
     /\ Kind(s.by) = "read" => s.verb = "select" /\ s.n = 1}

Conn ==
  [holder : Callers \cup {Nil}, sent : Seq(Statements), open : {Nil} \cup SUBSET (Callers \X (1..3)),
   silent : BOOLEAN, heard : BOOLEAN, broken : {FALSE}]
Standings == {"waiting", "connecting", "left", "running", "rolling", "done"}
Ends == {Nil, "ok", "failed", "deadline", "timeout", "refused", "rejected"}
Call == [at : Standings, step : 0..5, told : Ends]

PgTyped ==
  /\ calls \in [Callers -> Call]
  /\ conns \in [Slots -> Conn]
  /\ stored \in SUBSET (Callers \X (1..3))

\* The statements of a call stand together, a rollback last, and what is behind a rollback is the
\* first statement of another call.
Ordered(s) ==
  /\ \A i, j \in 1..Len(s) : i < j /\ s[i].by = s[j].by =>
       j = i + 1 /\ s[i].verb # "rollback" /\ s[j].verb = "rollback"
  /\ \A i \in 1..Len(s), j \in 1..Len(s) :
       j = i + 1 => s[i].by = s[j].by \/ (s[i].verb = "rollback" /\ s[j].n = 1)

\* Who sent a statement holds the connection or has ended; a rollback is the last a call sends,
\* and a commit follows both writes.
SentBy(conn, cs, s) ==
  /\ cs[s.by].at = "done" \/ (cs[s.by].at \in {"running", "rolling"} /\ conn.holder = s.by)
  /\ s.verb = "rollback" => cs[s.by].at # "running"
  /\ s.verb = "commit" => cs[s.by].step >= 4 /\ cs[s.by].told # "refused"

\* The last statement is the one its holder waits for, or of a call that ended with a rollback.
LastOf(conn) == conn.sent[Len(conn.sent)]
OwnedBy(conn, cs) ==
  IF conn.holder = Nil THEN conn.sent = << >> \/ LastOf(conn).verb = "rollback"
  ELSE /\ conn.sent # << >> /\ LastOf(conn).by = conn.holder
       /\ \/ cs[conn.holder].at = "running" /\ LastOf(conn).n = cs[conn.holder].step /\ LastOf(conn).verb # "rollback"
          \/ cs[conn.holder].at = "rolling" /\ LastOf(conn).verb = "rollback"
          \/ cs[conn.holder].at = "done" /\ Kind(conn.holder) # "tx"

\* What is open before, and after, the statement at the head ran.
Before(s) == CASE s.n = 2 -> {} [] s.n = 3 -> {<<s.by, 2>>} [] s.n = 4 -> {<<s.by, 2>>, <<s.by, 3>>} [] OTHER -> Nil
After(s) == CASE s.verb = "begin" -> {} [] s.n = 2 -> {<<s.by, 2>>} [] s.n = 3 -> {<<s.by, 2>>, <<s.by, 3>>} [] OTHER -> Nil
Keeps(s) == CASE s.verb = "commit" -> {<<s.by, 2>>, <<s.by, 3>>} [] s.verb = "auto" -> {<<s.by, 1>>} [] OTHER -> {}
OpenAsSent(conn, st) ==
  IF conn.sent = << >> THEN conn.open = Nil /\ ~conn.heard
  ELSE LET s == conn.sent[1] IN
       IF conn.heard THEN conn.open = After(s) /\ Keeps(s) \subseteq st
       ELSE s.verb # "rollback" => conn.open = Before(s)

Sound(conn, cs, st) ==
  /\ Ordered(conn.sent)
  /\ \A i \in 1..Len(conn.sent) : SentBy(conn, cs, conn.sent[i])
  /\ OwnedBy(conn, cs)
  /\ OpenAsSent(conn, st)

\* What a call was told agrees with what is durable of it, and who goes on was ready.
DurableIn(st, c) == {n \in 1..4 : <<c, n>> \in st}
ToldAsStored(c, cs, st) ==
  /\ cs[c].at \in {"waiting", "connecting"} => cs[c].step = 0
  /\ cs[c].at = "left" => Kind(c) = "read" /\ cs[c].step = 0 /\ cs[c].told = "deadline"
  /\ cs[c].at # "done" => cs[c].told # "ok"
  /\ cs[c].at \in {"waiting", "connecting", "running"} => cs[c].told = Nil
  /\ cs[c].at = "rolling" => Kind(c) = "tx" /\ cs[c].step = 5
  /\ Kind(c) = "tx" => DurableIn(st, c) \in {{}, {2, 3}}
  /\ Kind(c) = "tx" /\ (cs[c].step < 4 \/ cs[c].told = "refused") => DurableIn(st, c) = {}
  /\ cs[c].told = "ok" /\ Kind(c) # "read" => DurableIn(st, c) # {}
  /\ cs[c].at \in {"connecting", "running", "rolling"} /\ Gated(c) => cs[Boot].told = "ok"

HeldOnce == \A j, k \in Slots : conns[j].holder = conns[k].holder => j = k \/ conns[k].holder = Nil

PgInv ==
  /\ PgTyped /\ HeldOnce
  /\ \A k \in Slots : Sound(conns[k], calls, stored)
  /\ \A c \in Callers : ToldAsStored(c, calls, stored)

USE ClientAssumption, LiteAssumption

(* Sequences of statements.                                                *)
LEMMA Behind ==
  ASSUME NEW s \in Seq(Statements), s # << >>
  PROVE  /\ Len(s) \in Nat /\ Len(s) >= 1 /\ \A i \in 1..Len(s) : s[i] \in Statements
         /\ Tail(s) \in Seq(Statements) /\ Len(Tail(s)) = Len(s) - 1
         /\ \A i \in 1..Len(s) - 1 : Tail(s)[i] = s[i + 1]
<1>1. Len(s) \in Nat /\ Len(s) >= 1 /\ \A i \in 1..Len(s) : s[i] \in Statements
  BY EmptySeq
<1> QED  BY <1>1, HeadTailProperties

LEMMA Queued ==
  ASSUME NEW s \in Seq(Statements), NEW e \in Statements
  PROVE  /\ Append(s, e) \in Seq(Statements) /\ Len(Append(s, e)) = Len(s) + 1 /\ Append(s, e) # << >>
         /\ \A i \in 1..Len(s) : Append(s, e)[i] = s[i]
         /\ Append(s, e)[Len(s) + 1] = e
BY AppendProperties

LEMMA OrderedBehind ==
  ASSUME NEW s \in Seq(Statements), s # << >>, Ordered(s)
  PROVE  Ordered(Tail(s))
<1>1. /\ Len(s) \in Nat /\ Len(s) >= 1 /\ Len(Tail(s)) = Len(s) - 1
      /\ \A i \in 1..Len(s) - 1 : Tail(s)[i] = s[i + 1]
  BY Behind
<1>2. ASSUME NEW i \in 1..Len(Tail(s)), NEW j \in 1..Len(Tail(s)), i < j, Tail(s)[i].by = Tail(s)[j].by
      PROVE  j = i + 1 /\ Tail(s)[i].verb # "rollback" /\ Tail(s)[j].verb = "rollback"
  <2>1. /\ i + 1 \in 1..Len(s) /\ j + 1 \in 1..Len(s) /\ i + 1 < j + 1
        /\ Tail(s)[i] = s[i + 1] /\ Tail(s)[j] = s[j + 1]
    BY <1>1, <1>2
  <2>2. j + 1 = (i + 1) + 1 /\ s[i + 1].verb # "rollback" /\ s[j + 1].verb = "rollback"
    BY <1>2, <2>1 DEF Ordered
  <2> QED  BY <2>1, <2>2
<1>3. ASSUME NEW i \in 1..Len(Tail(s)), NEW j \in 1..Len(Tail(s)), j = i + 1
      PROVE  Tail(s)[i].by = Tail(s)[j].by \/ (Tail(s)[i].verb = "rollback" /\ Tail(s)[j].n = 1)
  <2>1. /\ i + 1 \in 1..Len(s) /\ j + 1 \in 1..Len(s) /\ j + 1 = (i + 1) + 1
        /\ Tail(s)[i] = s[i + 1] /\ Tail(s)[j] = s[j + 1]
    BY <1>1, <1>3
  <2> QED  BY <2>1 DEF Ordered
<1> QED  BY <1>2, <1>3 DEF Ordered

\* The head and the last are one statement, if their sender has no rollback behind the head.
LEMMA Alone ==
  ASSUME NEW s \in Seq(Statements), s # << >>, Ordered(s), s[1].by = s[Len(s)].by,
         s[1].verb = "rollback" \/ s[Len(s)].verb # "rollback"
  PROVE  Len(s) = 1 /\ Tail(s) = << >>
<1> DEFINE m == Len(s)
<1>0. m \in Nat /\ 1 \in 1..m /\ m \in 1..m
  BY Behind
<1>1. m = 1
  <2>1. ASSUME 1 < m PROVE FALSE
    <3>1. s[1].verb # "rollback" /\ s[m].verb = "rollback"
      BY <1>0, <2>1 DEF Ordered
    <3> QED  BY <3>1
  <2> HIDE DEF m
  <2> QED  BY <1>0, <2>1
<1>2. Tail(s) \in Seq(Statements) /\ Len(Tail(s)) = 0
  BY <1>1, Behind
<1> QED  BY <1>1, <1>2, EmptySeq

LEMMA OrderedQueue ==
  ASSUME NEW s \in Seq(Statements), NEW e \in Statements, Ordered(s),
         \/ s = << >>
         \/ /\ s[Len(s)].by = e.by /\ s[Len(s)].verb # "rollback" /\ e.verb = "rollback"
         \/ /\ s[Len(s)].verb = "rollback" /\ e.n = 1
            /\ \A i \in 1..Len(s) : s[i].by # e.by
  PROVE  Ordered(Append(s, e))
<1> DEFINE t == Append(s, e)  m == Len(s)
<1>1. m \in Nat /\ Len(t) = m + 1 /\ t[m + 1] = e /\ \A i \in 1..m : t[i] = s[i]
  BY Queued
<1> HIDE DEF t
<1>2. s # << >> => m >= 1 /\ m \in 1..m
  BY <1>1, EmptySeq
<1>3. s = << >> => m = 0
  BY EmptySeq
<1>4. ASSUME NEW i \in 1..m, s[i].by = e.by
      PROVE  i = m /\ s[i].verb # "rollback" /\ e.verb = "rollback"
  <2>1. s[m].by = e.by /\ s[m].verb # "rollback" /\ e.verb = "rollback"
    BY <1>1, <1>3, <1>4
  <2>2. i < m => s[m].verb = "rollback"
    BY <1>1, <1>4, <2>1 DEF Ordered
  <2> QED  BY <1>1, <1>4, <2>1, <2>2
<1>5. ASSUME NEW i \in 1..m + 1, NEW j \in 1..m + 1, i < j, t[i].by = t[j].by
      PROVE  j = i + 1 /\ t[i].verb # "rollback" /\ t[j].verb = "rollback"
  <2>1. i \in 1..m /\ t[i] = s[i]
    BY <1>1, <1>5
  <2>2. CASE j = m + 1
    BY <1>1, <1>4, <1>5, <2>1, <2>2
  <2>3. CASE j \in 1..m
    BY <1>1, <1>5, <2>1, <2>3 DEF Ordered
  <2> QED  BY <1>1, <2>2, <2>3
<1>6. ASSUME NEW i \in 1..m + 1, NEW j \in 1..m + 1, j = i + 1
      PROVE  t[i].by = t[j].by \/ (t[i].verb = "rollback" /\ t[j].n = 1)
  <2>1. i \in 1..m /\ t[i] = s[i]
    BY <1>1, <1>6
  <2>2. CASE j = m + 1
    BY <1>1, <1>3, <1>6, <2>1, <2>2
  <2>3. CASE j \in 1..m
    BY <1>1, <1>6, <2>1, <2>3 DEF Ordered
  <2> QED  BY <1>1, <2>2, <2>3
<1> QED  BY <1>1, <1>5, <1>6 DEF Ordered

(* Connections.                                                            *)
CallStates == [Callers -> Call]

LEMMA Unsent ==
  ASSUME NEW conn \in Conn, NEW cs, NEW st, conn.sent = << >>, conn.holder = Nil, conn.open = Nil, ~conn.heard
  PROVE  Sound(conn, cs, st)
BY EmptySeq DEF Sound, Ordered, OwnedBy, OpenAsSent

LEMMA FreshSound ==
  ASSUME NEW cs, NEW st
  PROVE  Fresh \in Conn /\ Sound(Fresh, cs, st)
<1>1. Fresh \in Conn
  BY EmptySeq DEF Conn, Fresh
<1> QED  BY <1>1, Unsent DEF Fresh

\* A step of a call leaves the connections it is not on as sound as they were.
LEMMA Apart ==
  ASSUME NEW conn \in Conn, NEW cs, NEW cs2, NEW st, NEW st2, NEW c \in Callers,
         Sound(conn, cs, st), st \subseteq st2, \A d \in Callers \ {c} : cs2[d] = cs[d],
         conn.holder # c, cs[c].at # "done"
  PROVE  Sound(conn, cs2, st2)
<1>1. /\ conn.sent \in Seq(Statements) /\ conn.holder \in Callers \cup {Nil}
      /\ \A i \in 1..Len(conn.sent) : conn.sent[i] \in Statements /\ conn.sent[i].by \in Callers
  BY DEF Conn, Statements
<1>2. ASSUME NEW i \in 1..Len(conn.sent)
      PROVE  SentBy(conn, cs2, conn.sent[i])
  BY <1>1 DEF Sound, SentBy
<1>3. OwnedBy(conn, cs2)
  BY <1>1 DEF Sound, OwnedBy
<1>4. OpenAsSent(conn, st2)
  BY DEF Sound, OpenAsSent
<1> QED  BY <1>2, <1>3, <1>4 DEF Sound

LEMMA Grows ==
  ASSUME NEW conn, NEW cs, NEW st, NEW st2, Sound(conn, cs, st), st \subseteq st2
  PROVE  Sound(conn, cs, st2)
BY DEF Sound, OpenAsSent

\* What stands at the head runs as it was sent.
LEMMA HeadKnown ==
  ASSUME NEW conn \in Conn, NEW cs, NEW st, Sound(conn, cs, st), conn.sent # << >>
  PROVE  /\ conn.sent[1] \in Statements /\ conn.sent[1].by \in Callers
         /\ SentBy(conn, cs, conn.sent[1]) /\ LastOf(conn) \in Statements /\ SentBy(conn, cs, LastOf(conn))
<1>1. conn.sent \in Seq(Statements)
  BY DEF Conn
<1>2. 1 \in 1..Len(conn.sent) /\ Len(conn.sent) \in 1..Len(conn.sent)
  BY <1>1, Behind
<1> QED  BY <1>1, <1>2, Behind DEF Sound, LastOf, Statements

LEMMA ExecutedAsSent ==
  ASSUME PgTyped, NEW k \in Slots, Sound(conns[k], calls, stored), HasHead(k), ~conns[k].heard
  PROVE  /\ Executed(k, Head1(k)).open = After(Head1(k))
         /\ Executed(k, Head1(k)).keep = Keeps(Head1(k))
<1> DEFINE s == conns[k].sent[1]
<1>1. /\ s.by \in Callers
      /\ Kind(s.by) = "tx" => \/ s.verb = "begin" /\ s.n = 1
                              \/ s.verb = "write" /\ s.n \in {2, 3}
                              \/ s.verb = "commit" /\ s.n = 4
                              \/ s.verb = "rollback" /\ s.n = 5
      /\ Kind(s.by) = "auto" => s.verb = "auto" /\ s.n = 1
      /\ Kind(s.by) = "read" => s.verb = "select" /\ s.n = 1
  BY HeadKnown DEF PgTyped, HasHead, Statements
<1>2. Kind(s.by) \in {"tx", "auto", "read"}
  BY <1>1 DEF ClientAssumption
<1>3. s.verb # "rollback" => conns[k].open = Before(s)
  BY DEF Sound, OpenAsSent, HasHead
<1> DEFINE o == conns[k].open
<1>4. Head1(k) = s
  BY DEF Head1
<1>5. Executed(k, s) = CASE s.verb = "begin"    -> [open |-> {}, keep |-> {}]
                         [] s.verb = "write"    -> [open |-> o \cup {<<s.by, s.n>>}, keep |-> {}]
                         [] s.verb = "commit"   -> [open |-> Nil, keep |-> o]
                         [] s.verb = "rollback" -> [open |-> Nil, keep |-> {}]
                         [] s.verb = "auto"     -> IF o = Nil THEN [open |-> Nil, keep |-> {<<s.by, s.n>>}]
                                                   ELSE [open |-> o \cup {<<s.by, s.n>>}, keep |-> {}]
                         [] OTHER               -> [open |-> o, keep |-> {}]
  BY DEF Executed
<1> HIDE DEF s, o
<1>6. CASE s.verb = "begin"
  <2>1. s.n = 1
    BY <1>1, <1>2, <1>6
  <2> QED  BY <1>4, <1>5, <1>6, <2>1 DEF After, Keeps
<1>7. CASE s.verb = "write"
  <2>1. s.n = 2 \/ s.n = 3
    BY <1>1, <1>2, <1>7
  <2>2. o = Before(s) /\ Keeps(s) = {}
    BY <1>3, <1>7 DEF o, Keeps
  <2>3. Executed(k, s).open = o \cup {<<s.by, s.n>>} /\ Executed(k, s).keep = {}
    BY <1>5, <1>7
  <2>4. o \cup {<<s.by, s.n>>} = After(s)
    BY <1>7, <2>1, <2>2 DEF After, Before
  <2> QED  BY <1>4, <2>2, <2>3, <2>4
<1>8. CASE s.verb = "commit"
  <2>1. s.n = 4
    BY <1>1, <1>2, <1>8
  <2>2. o = Keeps(s)
    BY <1>3, <1>8, <2>1 DEF o, Before, Keeps
  <2>3. After(s) = Nil
    BY <1>8, <2>1 DEF After
  <2> QED  BY <1>4, <1>5, <1>8, <2>2, <2>3
<1>9. CASE s.verb = "rollback"
  <2>1. s.n = 5
    BY <1>1, <1>2, <1>9
  <2> QED  BY <1>4, <1>5, <1>9, <2>1 DEF After, Keeps
<1>10. CASE s.verb \in {"auto", "select"}
  <2>1. s.n = 1
    BY <1>1, <1>2, <1>10
  <2>2. o = Nil
    BY <1>3, <1>10, <2>1 DEF o, Before
  <2> QED  BY <1>4, <1>5, <1>10, <2>1, <2>2 DEF After, Keeps
<1> QED  BY <1>1, <1>2, <1>6, <1>7, <1>8, <1>9, <1>10

\* What follows the head may run next, once the head ran or was refused.
LEMMA BehindRuns ==
  ASSUME NEW conn \in Conn, NEW cs, NEW st, NEW new \in Conn, Sound(conn, cs, st),
         Len(conn.sent) > 1, new.sent = Tail(conn.sent), ~new.heard, new.holder = conn.holder,
         new.open = After(conn.sent[1]) \/ conn.sent[1].verb # "rollback"
  PROVE  Sound(new, cs, st)
<1> DEFINE s == conn.sent  m == Len(conn.sent)
<1>1. /\ m \in Nat /\ m > 1 /\ \A i \in 1..m : s[i] \in Statements
      /\ new.sent \in Seq(Statements) /\ Len(new.sent) = m - 1 /\ new.sent # << >>
      /\ \A i \in 1..m - 1 : new.sent[i] = s[i + 1]
  BY Behind, EmptySeq DEF Conn
<1>2. Ordered(new.sent)
  BY OrderedBehind, <1>1 DEF Conn, Sound
<1>3. ASSUME NEW i \in 1..Len(new.sent)
      PROVE  SentBy(new, cs, new.sent[i])
  <2>1. i + 1 \in 1..m /\ new.sent[i] = s[i + 1]
    BY <1>1
  <2>2. SentBy(conn, cs, s[i + 1])
    BY <2>1 DEF Sound
  <2> QED  BY <2>1, <2>2 DEF SentBy
<1>4. LastOf(new) = LastOf(conn)
  BY <1>1 DEF LastOf
<1>5. OwnedBy(new, cs)
  BY <1>1, <1>4 DEF Sound, OwnedBy
<1>6. new.sent[1].verb # "rollback" => new.open = Before(new.sent[1])
  <2>1. /\ new.sent[1] = s[2] /\ 1 \in 1..m /\ 2 \in 1..m /\ s[1] \in Statements /\ s[2] \in Statements
    BY <1>1
  <2>2. s[1].by = s[2].by \/ (s[1].verb = "rollback" /\ s[2].n = 1)
    BY <2>1 DEF Sound, Ordered
  <2>3. s[1].by = s[2].by => s[2].verb = "rollback"
    BY <2>1 DEF Sound, Ordered
  <2>4. CASE s[1].verb = "rollback" /\ s[2].n = 1
    <3>1. new.open = Nil
      BY <2>1, <2>4 DEF After, Statements, ClientAssumption
    <3> QED  BY <2>1, <2>4, <3>1 DEF Before
  <2> QED  BY <2>1, <2>2, <2>3, <2>4
<1>7. OpenAsSent(new, st)
  BY <1>1, <1>6 DEF OpenAsSent
<1> QED  BY <1>2, <1>3, <1>5, <1>7 DEF Sound

\* A connection on which its holder waits for its only statement.
LEMMA OneSent ==
  ASSUME NEW conn \in Conn, NEW cs, NEW st, NEW s \in Statements, conn.sent = <<s>>, ~conn.heard,
         conn.holder = s.by, s.by \in Callers,
         s.verb = "rollback" \/ conn.open = Before(s),
         \/ cs[s.by].at = "running" /\ cs[s.by].step = s.n /\ s.verb # "rollback" /\ cs[s.by].told # "refused"
         \/ cs[s.by].at = "rolling" /\ s.verb = "rollback"
  PROVE  Sound(conn, cs, st)
<1>1. /\ Len(conn.sent) = 1 /\ conn.sent[1] = s /\ conn.sent # << >> /\ LastOf(conn) = s
  BY EmptySeq DEF LastOf
<1>2. s.verb = "commit" => s.n = 4
  BY DEF Statements, ClientAssumption
<1>3. Ordered(conn.sent)
  BY <1>1 DEF Ordered
<1>4. SentBy(conn, cs, s)
  BY <1>2 DEF SentBy
<1>5. OwnedBy(conn, cs)
  BY <1>1, ClientAssumption DEF OwnedBy
<1>6. OpenAsSent(conn, st)
  BY <1>1 DEF OpenAsSent
<1> QED  BY <1>1, <1>3, <1>4, <1>5, <1>6 DEF Sound

(* Steps.                                                                  *)
LEMMA Holder ==
  ASSUME PgInv, NEW k \in Slots, NEW c \in Callers, conns[k].holder = c
  PROVE  /\ conns[k] \in Conn /\ conns[k].sent # << >> /\ LastOf(conns[k]) \in Statements
         /\ LastOf(conns[k]).by = c
         /\ \/ calls[c].at = "running" /\ LastOf(conns[k]).n = calls[c].step /\ LastOf(conns[k]).verb # "rollback"
            \/ calls[c].at = "rolling" /\ LastOf(conns[k]).verb = "rollback"
            \/ calls[c].at = "done" /\ Kind(c) # "tx"
<1>1. conns[k] \in Conn /\ Sound(conns[k], calls, stored)
  BY DEF PgInv, PgTyped
<1>2. OwnedBy(conns[k], calls) /\ c # Nil
  BY <1>1 DEF Sound, ClientAssumption
<1>3. conns[k].sent # << >>
  BY <1>2 DEF OwnedBy
<1>4. LastOf(conns[k]) \in Statements
  BY <1>1, <1>3, HeadKnown
<1> QED  BY <1>1, <1>2, <1>3, <1>4 DEF OwnedBy

\* A step of a call and of the connection it holds, takes or gives back.
LEMMA OneStep ==
  ASSUME PgInv, NEW k \in Slots, NEW c \in Callers, calls[c].at # "done",
         calls' \in CallStates, \A d \in Callers \ {c} : calls'[d] = calls[d],
         stored' \in SUBSET (Callers \X (1..3)), stored \subseteq stored',
         NEW new \in Conn, conns' = [conns EXCEPT ![k] = new], Sound(new, calls', stored'),
         new.holder \in {Nil, c}, conns[k].holder = c \/ \A j \in Slots : conns[j].holder # c
  PROVE  PgTyped' /\ HeldOnce' /\ \A j \in Slots : Sound(conns'[j], calls', stored')
<1>1. /\ conns \in [Slots -> Conn] /\ conns'[k] = new /\ \A j \in Slots \ {k} : conns'[j] = conns[j]
      /\ conns' \in [Slots -> Conn]
  BY DEF PgInv, PgTyped
<1>2. PgTyped'
  BY <1>1 DEF PgTyped, CallStates
<1>3. c # Nil
  BY DEF ClientAssumption
<1>4. \A j \in Slots \ {k} : conns[j].holder # c
  BY <1>3 DEF PgInv, HeldOnce
<1>5. HeldOnce'
  BY <1>1, <1>3, <1>4 DEF PgInv, HeldOnce
<1>6. ASSUME NEW j \in Slots \ {k}
      PROVE  Sound(conns'[j], calls', stored')
  <2>1. Sound(conns[j], calls, stored) /\ conns[j] \in Conn
    BY <1>1 DEF PgInv
  <2>2. Sound(conns[j], calls', stored')
    BY <1>4, <2>1, Apart
  <2> QED  BY <1>1, <2>2
<1> QED  BY <1>1, <1>2, <1>5, <1>6

\* A step of a connection alone.
LEMMA ConnStep ==
  ASSUME PgInv, NEW k \in Slots, UNCHANGED calls,
         stored' \in SUBSET (Callers \X (1..3)), stored \subseteq stored',
         NEW new \in Conn, conns' = [conns EXCEPT ![k] = new], Sound(new, calls, stored'),
         new.holder \in {Nil, conns[k].holder}
  PROVE  PgTyped' /\ HeldOnce' /\ \A j \in Slots : Sound(conns'[j], calls', stored')
<1>1. /\ conns \in [Slots -> Conn] /\ conns'[k] = new /\ \A j \in Slots \ {k} : conns'[j] = conns[j]
      /\ conns' \in [Slots -> Conn]
  BY DEF PgInv, PgTyped
<1>2. PgTyped'
  BY <1>1 DEF PgInv, PgTyped
<1>3. HeldOnce'
  BY <1>1 DEF PgInv, HeldOnce
<1>4. ASSUME NEW j \in Slots \ {k}
      PROVE  Sound(conns'[j], calls', stored')
  BY <1>1, Grows DEF PgInv
<1> QED  BY <1>1, <1>2, <1>3, <1>4

\* A step of a call that holds nothing.
LEMMA CallStep ==
  ASSUME PgInv, NEW c \in Callers, calls[c].at \in {"waiting", "connecting", "left"},
         calls' \in CallStates, \A d \in Callers \ {c} : calls'[d] = calls[d], UNCHANGED <<conns, stored>>
  PROVE  PgTyped' /\ HeldOnce' /\ \A j \in Slots : Sound(conns'[j], calls', stored')
<1>1. \A j \in Slots : conns[j].holder # c
  BY Holder
<1>2. PgTyped'
  BY DEF PgInv, PgTyped, CallStates
<1>3. HeldOnce'
  BY DEF PgInv, HeldOnce
<1>4. ASSUME NEW j \in Slots
      PROVE  Sound(conns'[j], calls', stored')
  <2>1. Sound(conns[j], calls, stored) /\ conns[j] \in Conn
    BY DEF PgInv, PgTyped
  <2>2. Sound(conns[j], calls', stored)
    BY <1>1, <2>1, Apart
  <2> QED  BY <2>2
<1> QED  BY <1>2, <1>3, <1>4

\* What the other calls were told stands.
LEMMA OthersTold ==
  ASSUME NEW st, NEW c \in Callers, \A d \in Callers : ToldAsStored(d, calls, st),
         calls[c].at # "done", \A d \in Callers \ {c} : calls'[d] = calls[d], ToldAsStored(c, calls', st)
  PROVE  \A d \in Callers : ToldAsStored(d, calls', st)
<1>1. ASSUME NEW d \in Callers \ {c}
      PROVE  ToldAsStored(d, calls', st)
  <2>1. ToldAsStored(d, calls, st) /\ calls'[d] = calls[d] /\ ToldAsStored(c, calls, st)
    OBVIOUS
  <2>2. calls[Boot].told = "ok" => calls'[Boot].told = "ok"
    BY <2>1, ClientAssumption DEF ToldAsStored, ClientAssumption
  <2> QED  BY <2>1, <2>2 DEF ToldAsStored
<1> QED  BY <1>1

\* What runs at the head of a connection is durable of its sender as its sender is told.
LEMMA Runs ==
  ASSUME PgInv, NEW k \in Slots, HasHead(k), NEW st, st = stored \cup Keeps(Head1(k))
  PROVE  /\ st \in SUBSET (Callers \X (1..3))
         /\ \A d \in Callers : ToldAsStored(d, calls, st)
<1> DEFINE s == conns[k].sent[1]
<1>1. /\ s.by \in Callers /\ SentBy(conns[k], calls, s) /\ s \in Statements
      /\ Head1(k) = s /\ stored \in SUBSET (Callers \X (1..3))
  BY HeadKnown DEF PgInv, PgTyped, HasHead, Head1
<1> HIDE DEF s
<1>2. /\ s.verb = "commit" => Keeps(s) = {<<s.by, 2>>, <<s.by, 3>>}
      /\ s.verb = "auto" => Keeps(s) = {<<s.by, 1>>}
      /\ s.verb \notin {"commit", "auto"} => Keeps(s) = {}
  BY DEF Keeps
<1>3. st \in SUBSET (Callers \X (1..3))
  BY <1>1, <1>2
<1>4. ASSUME NEW d \in Callers
      PROVE  ToldAsStored(d, calls, st)
  <2>1. ToldAsStored(d, calls, stored)
    BY DEF PgInv
  <2>2. CASE DurableIn(st, d) = DurableIn(stored, d)
    BY <2>1, <2>2 DEF ToldAsStored
  <2>3. CASE s.verb = "commit" /\ d = s.by
    <3>1. Kind(d) = "tx" /\ calls[d].step >= 4 /\ calls[d].told # "refused"
      BY <1>1, <2>3 DEF Statements, ClientAssumption, SentBy
    <3>2. DurableIn(st, d) = DurableIn(stored, d) \cup {2, 3}
      BY <1>1, <1>2, <2>3 DEF DurableIn
    <3>3. DurableIn(st, d) = {2, 3}
      BY <2>1, <3>1, <3>2 DEF ToldAsStored
    <3>4. calls[d].step \in 0..5
      BY DEF PgInv, PgTyped, Call
    <3>5. DurableIn(st, d) \in {{}, {2, 3}} /\ DurableIn(st, d) # {} /\ ~(calls[d].step < 4)
      BY <3>1, <3>3, <3>4
    <3> QED  BY <2>1, <3>1, <3>5 DEF ToldAsStored
  <2>4. CASE s.verb = "auto" /\ d = s.by
    <3>1. Kind(d) # "tx"
      BY <1>1, <2>4 DEF Statements, ClientAssumption
    <3>2. DurableIn(st, d) = DurableIn(stored, d) \cup {1}
      BY <1>1, <1>2, <2>4 DEF DurableIn
    <3> QED  BY <2>1, <3>1, <3>2 DEF ToldAsStored
  <2>5. CASE d # s.by \/ Keeps(s) = {}
    BY <1>1, <1>2, <2>2, <2>5 DEF DurableIn
  <2> QED  BY <1>2, <2>2, <2>3, <2>4, <2>5
<1> QED  BY <1>3, <1>4

LEMMA AwaitedAlone ==
  ASSUME PgInv, NEW k \in Slots, HasHead(k), NEW c \in Callers, NEW s, s = Head1(k), c = s.by, Awaits(c, s)
  PROVE  /\ s \in Statements /\ conns[k] \in Conn /\ Tail(conns[k].sent) = << >> /\ conns[k].holder = c
         /\ \/ calls[c].at = "running" /\ calls[c].step = s.n /\ s.verb # "rollback"
            \/ calls[c].at = "rolling" /\ s.verb = "rollback"
<1>1. /\ conns[k] \in Conn /\ Sound(conns[k], calls, stored) /\ conns[k].sent # << >>
      /\ s = conns[k].sent[1]
  BY DEF PgInv, PgTyped, HasHead, Head1
<1>2. s \in Statements /\ SentBy(conns[k], calls, s)
  BY <1>1, HeadKnown
<1>3. \/ calls[c].at = "running" /\ calls[c].step = s.n /\ s.verb # "rollback"
      \/ calls[c].at = "rolling" /\ s.verb = "rollback"
  BY <1>2 DEF Awaits, SentBy
<1>4. conns[k].holder = c
  BY <1>2, <1>3 DEF SentBy
<1>5. LastOf(conns[k]).by = c /\ (s.verb = "rollback" \/ LastOf(conns[k]).verb # "rollback")
  BY <1>3, <1>4, Holder
<1>6. Tail(conns[k].sent) = << >>
  BY <1>1, <1>5, Alone DEF Conn, Sound, LastOf
<1> QED  BY <1>1, <1>2, <1>3, <1>4, <1>6

\* The end of a call whose connection goes back clean.
LEMMA EndsClean ==
  ASSUME PgInv, NEW k \in Slots, NEW c \in Callers, conns[k].holder = c, calls[c].at # "done",
         calls' \in CallStates, \A d \in Callers \ {c} : calls'[d] = calls[d],
         stored' \in SUBSET (Callers \X (1..3)), stored \subseteq stored',
         \A d \in Callers : ToldAsStored(d, calls, stored'), ToldAsStored(c, calls', stored'),
         NEW new \in Conn, conns' = [conns EXCEPT ![k] = new],
         new.holder = Nil, Sound(new, calls', stored')
  PROVE  PgInv'
<1>1. PgTyped' /\ HeldOnce' /\ \A j \in Slots : Sound(conns'[j], calls', stored')
  BY OneStep
<1>2. \A d \in Callers : ToldAsStored(d, calls', stored')
  BY OthersTold
<1> QED  BY <1>1, <1>2 DEF PgInv

\* A failure of the statement a call waits for, with nothing behind it.
LEMMA FailsAlone ==
  ASSUME PgInv, NEW k \in Slots, NEW c \in Callers, conns[k].holder = c, calls[c].at = "running",
         NEW conn \in Conn, conn.sent = << >>, conn.holder = c, ~conn.heard,
         NEW what \in {"failed", "refused", "rejected"}, what = "refused" => calls[c].step < 4,
         stored' \in SUBSET (Callers \X (1..3)), stored \subseteq stored',
         \A d \in Callers : ToldAsStored(d, calls, stored'),
         AfterFailure(c, k, conn, what)
  PROVE  PgInv'
<1>1. calls \in CallStates /\ conns \in [Slots -> Conn] /\ ~conn.broken /\ calls[c] \in Call
  BY DEF PgInv, PgTyped, CallStates, Conn
<1>2. ToldAsStored(c, calls, stored')
  OBVIOUS
<1>3. CASE Kind(c) = "tx"
  <2> DEFINE e == Statement(c, "rollback", 5)
             new == [conn EXCEPT !.sent = Append(@, e)]
             now2 == [at |-> "rolling", step |-> 5, told |-> what]
  <2>1. calls' = [calls EXCEPT ![c] = now2] /\ conns' = [conns EXCEPT ![k] = new]
    BY <1>1, <1>3 DEF AfterFailure, RollsBack, IsTransaction
  <2>2. e \in Statements /\ e.by = c /\ e.verb = "rollback"
    BY <1>3 DEF Statement, Statements
  <2>3. now2 \in Call /\ now2.at = "rolling" /\ now2.step = 5 /\ now2.told = what
    BY DEF Call, Standings, Ends
  <2> HIDE DEF e, now2
  <2>4. new.sent = <<e>> /\ new.holder = c /\ ~new.heard /\ new \in Conn
    <3>1. Append(<< >>, e) = <<e>> /\ <<e>> \in Seq(Statements)
      BY <2>2
    <3> QED  BY <3>1 DEF Conn
  <2> HIDE DEF new
  <2>5. calls' \in CallStates /\ calls'[c] = now2 /\ \A d \in Callers \ {c} : calls'[d] = calls[d]
    BY <1>1, <2>1, <2>3 DEF CallStates
  <2>6. Sound(new, calls', stored')
    BY <2>2, <2>3, <2>4, <2>5, OneSent
  <2>7. PgTyped' /\ HeldOnce' /\ \A j \in Slots : Sound(conns'[j], calls', stored')
    BY <2>1, <2>4, <2>5, <2>6, OneStep
  <2>8. ToldAsStored(c, calls', stored')
    <3>1. calls[Boot].told = "ok" => calls'[Boot].told = "ok"
      BY <1>2, <2>5 DEF ToldAsStored, ClientAssumption
    <3>2. Gated(c) => calls'[Boot].told = "ok"
      BY <1>2, <3>1 DEF ToldAsStored
    <3>3. now2.told # "ok" /\ ~(now2.step < 4)
      BY <2>3
    <3> QED  BY <1>2, <1>3, <2>3, <2>5, <3>2, <3>3 DEF ToldAsStored
  <2>9. \A d \in Callers : ToldAsStored(d, calls', stored')
    BY <2>5, <2>8, OthersTold
  <2> QED  BY <2>7, <2>9 DEF PgInv
<1>4. CASE Kind(c) # "tx"
  <2> DEFINE now2 == [at |-> "done", step |-> calls[c].step, told |-> what]
  <2>1. calls' = [calls EXCEPT ![c] = now2] /\ conns' = [conns EXCEPT ![k] = Fresh]
    BY <1>1, <1>4 DEF AfterFailure, RollsBack, IsTransaction, Tell
  <2>3. now2 \in Call /\ now2.at = "done" /\ now2.told = what /\ now2.step = calls[c].step
    BY <1>1 DEF Call, Standings, Ends
  <2> HIDE DEF now2
  <2>5. calls' \in CallStates /\ calls'[c] = now2 /\ \A d \in Callers \ {c} : calls'[d] = calls[d]
    BY <1>1, <2>1, <2>3 DEF CallStates
  <2>6. Fresh \in Conn /\ Sound(Fresh, calls', stored') /\ Fresh.holder = Nil
    BY FreshSound DEF Fresh
  <2>8. ToldAsStored(c, calls', stored')
    BY <1>2, <1>4, <2>3, <2>5 DEF ToldAsStored
  <2> QED  BY <2>1, <2>5, <2>6, <2>8, EndsClean
<1> QED  BY <1>3, <1>4

LEMMA Verbs ==
  ASSUME NEW s \in Statements
  PROVE  /\ s.by \in Callers
         /\ Kind(s.by) = "tx" => \/ s.verb = "begin" /\ s.n = 1
                                 \/ s.verb = "write" /\ s.n \in {2, 3}
                                 \/ s.verb = "commit" /\ s.n = 4
                                 \/ s.verb = "rollback" /\ s.n = 5
         /\ Kind(s.by) = "auto" => s.verb = "auto" /\ s.n = 1
         /\ Kind(s.by) = "read" => s.verb = "select" /\ s.n = 1
         /\ Kind(s.by) \in {"tx", "auto", "read"}
         /\ After(s) \in {Nil} \cup SUBSET (Callers \X (1..3))
         /\ s.verb \in {"commit", "rollback", "auto", "select"} => After(s) = Nil
<1>1. /\ s.by \in Callers
      /\ Kind(s.by) = "tx" => \/ s.verb = "begin" /\ s.n = 1
                              \/ s.verb = "write" /\ s.n \in {2, 3}
                              \/ s.verb = "commit" /\ s.n = 4
                              \/ s.verb = "rollback" /\ s.n = 5
      /\ Kind(s.by) = "auto" => s.verb = "auto" /\ s.n = 1
      /\ Kind(s.by) = "read" => s.verb = "select" /\ s.n = 1
  BY DEF Statements
<1>2. Kind(s.by) \in {"tx", "auto", "read"}
  BY <1>1 DEF ClientAssumption
<1>3. \/ s.verb = "begin" /\ s.n = 1 /\ After(s) = {}
      \/ s.verb = "write" /\ s.n = 2 /\ After(s) = {<<s.by, 2>>}
      \/ s.verb = "write" /\ s.n = 3 /\ After(s) = {<<s.by, 2>>, <<s.by, 3>>}
      \/ s.verb \in {"commit", "rollback", "auto", "select"} /\ After(s) = Nil
  BY <1>1, <1>2 DEF After
<1>4. After(s) \in {Nil} \cup SUBSET (Callers \X (1..3))
  BY <1>1, <1>3
<1> QED  BY <1>1, <1>2, <1>3, <1>4

\* A single statement whose caller went away is the last of its connection.
LEMMA Abandoned ==
  ASSUME PgInv, NEW k \in Slots, HasHead(k), NEW s, s = Head1(k), conns[k].holder = s.by, calls[s.by].at = "done"
  PROVE  Tail(conns[k].sent) = << >> /\ s.verb \in {"auto", "select"} /\ s.n = 1
<1>1. /\ conns[k] \in Conn /\ Sound(conns[k], calls, stored) /\ conns[k].sent # << >>
      /\ s = conns[k].sent[1]
  BY DEF PgInv, PgTyped, HasHead, Head1
<1>2. s \in Statements /\ s.by \in Callers
  BY <1>1, HeadKnown
<1>3. LastOf(conns[k]).by = s.by /\ Kind(s.by) # "tx" /\ LastOf(conns[k]) \in Statements
  BY <1>2, Holder
<1>4. LastOf(conns[k]).verb # "rollback" /\ s.verb \in {"auto", "select"} /\ s.n = 1
  BY <1>2, <1>3, Verbs
<1> QED  BY <1>1, <1>3, <1>4, Alone DEF Conn, Sound, LastOf

\* A statement nobody waits for leaves the connection, ran or refused.
LEMMA UnheededStep ==
  ASSUME PgInv, NEW k \in Slots, HasHead(k), NEW s, s = Head1(k), ~Awaits(s.by, s),
         NEW conn \in Conn, conn.sent = Tail(conns[k].sent), conn.holder = conns[k].holder, ~conn.heard,
         conn.open = After(s) \/ (s.verb # "rollback" /\ conn.open = conns[k].open /\ ~conns[k].heard),
         stored' \in SUBSET (Callers \X (1..3)), stored \subseteq stored',
         \A d \in Callers : ToldAsStored(d, calls, stored'),
         Unheeded(k, s, conn, Released(conn)) \/ Unheeded(k, s, conn, Fresh)
  PROVE  PgInv'
<1>1. /\ conns[k] \in Conn /\ Sound(conns[k], calls, stored) /\ conns[k].sent # << >>
      /\ s = conns[k].sent[1] /\ ~conn.broken /\ conns[k].sent \in Seq(Statements)
  BY DEF PgInv, PgTyped, HasHead, Head1, Conn
<1>2. s \in Statements /\ s.by \in Callers
  BY <1>1, HeadKnown
<1>3. \E new \in Conn : /\ conns' = [conns EXCEPT ![k] = new] /\ Sound(new, calls, stored')
                        /\ new.holder \in {Nil, conns[k].holder}
  <2>1. CASE conn.holder = s.by /\ calls[s.by].at = "done"
    <3> DEFINE new == [conn EXCEPT !.holder = Nil]
    <3>1. conns' = [conns EXCEPT ![k] = new] \/ conns' = [conns EXCEPT ![k] = Fresh]
      BY <1>1, <2>1 DEF Unheeded, Released
    <3>2. new \in Conn /\ new.holder = Nil /\ new.sent = << >> /\ new.open = conn.open /\ ~new.heard
      <4>1. Tail(conns[k].sent) = << >>
        BY <2>1, Abandoned
      <4> QED  BY <4>1 DEF Conn
    <3>3. conn.open = Nil
      <4>1. s.verb \in {"auto", "select"} /\ s.n = 1
        BY <2>1, Abandoned
      <4>2. After(s) = Nil /\ Before(s) = Nil
        BY <1>2, <4>1, Verbs DEF Before
      <4>3. ~conns[k].heard => conns[k].open = Before(s)
        BY <1>1, <4>1 DEF Sound, OpenAsSent
      <4> QED  BY <4>2, <4>3
    <3> HIDE DEF new
    <3>4. Sound(new, calls, stored')
      BY <3>2, <3>3, Unsent
    <3>5. Fresh \in Conn /\ Sound(Fresh, calls, stored') /\ Fresh.holder = Nil
      BY FreshSound DEF Fresh
    <3> QED  BY <3>1, <3>2, <3>4, <3>5
  <2>2. CASE ~(conn.holder = s.by /\ calls[s.by].at = "done")
    <3>1. conns' = [conns EXCEPT ![k] = conn]
      BY <2>2 DEF Unheeded
    <3>2. CASE Len(conns[k].sent) > 1
      <4>1. Sound(conn, calls, stored)
        BY <1>1, <3>2, BehindRuns
      <4>2. Sound(conn, calls, stored')
        BY <4>1, Grows
      <4> QED  BY <3>1, <4>2
    <3>3. CASE ~(Len(conns[k].sent) > 1)
      <4> DEFINE t == conns[k].sent
      <4>0. /\ Len(t) \in Nat /\ Len(t) >= 1 /\ Tail(t) \in Seq(Statements) /\ Len(Tail(t)) = Len(t) - 1
        BY <1>1, Behind
      <4> HIDE DEF t
      <4>1. Len(t) = 1 /\ conn.sent \in Seq(Statements) /\ Len(conn.sent) = 0
        <5> DEFINE m == Len(t)  u == Tail(t)  n == Len(u)
        <5>1. m \in Nat /\ m >= 1 /\ ~(m > 1) /\ n = m - 1 /\ u \in Seq(Statements) /\ conn.sent = u
          BY <3>3, <4>0 DEF t
        <5> HIDE DEF m, n
        <5>2. m = 1 /\ n = 0
          BY <5>1
        <5> QED  BY <5>1, <5>2 DEF m, n
      <4>2. conn.sent = << >> /\ LastOf(conns[k]) = s
        BY <1>1, <4>1, EmptySeq DEF LastOf, t
      <4>3. conns[k].holder = Nil
        <5>1. SUFFICES ASSUME conns[k].holder # Nil PROVE FALSE
          OBVIOUS
        <5>2. conns[k].holder = s.by
          BY <1>1, <4>2, <5>1 DEF Sound, OwnedBy
        <5>3. \/ calls[s.by].at = "running" /\ s.n = calls[s.by].step /\ s.verb # "rollback"
              \/ calls[s.by].at = "rolling" /\ s.verb = "rollback"
          BY <1>2, <2>2, <4>2, <5>2, Holder
        <5>4. calls[s.by].at = "rolling" => calls[s.by].step = 5 /\ Kind(s.by) = "tx"
          BY <1>2 DEF PgInv, ToldAsStored
        <5>5. calls[s.by].at = "rolling" => s.n = 5
          BY <1>2, <5>3, <5>4, Verbs
        <5> QED  BY <5>3, <5>4, <5>5 DEF Awaits
      <4>4. s.verb = "rollback"
        BY <1>1, <4>2, <4>3 DEF Sound, OwnedBy
      <4>5. conn.open = Nil
        BY <1>2, <4>4, Verbs
      <4>6. Sound(conn, calls, stored')
        BY <4>2, <4>3, <4>5, Unsent
      <4> QED  BY <3>1, <4>6
    <3> QED  BY <3>2, <3>3
  <2> QED  BY <2>1, <2>2
<1>4. UNCHANGED calls
  BY DEF Unheeded
<1>5. PgTyped' /\ HeldOnce' /\ \A j \in Slots : Sound(conns'[j], calls', stored')
  <2>1. PICK new \in Conn : /\ conns' = [conns EXCEPT ![k] = new] /\ Sound(new, calls, stored')
                            /\ new.holder \in {Nil, conns[k].holder}
    BY <1>3
  <2> QED  BY <1>4, <2>1, ConnStep
<1> QED  BY <1>4, <1>5 DEF PgInv

\* The statement that follows an answer, of a call that holds the connection.
LEMMA NextStep ==
  ASSUME PgInv, NEW k \in Slots, NEW c \in Callers, conns[k].holder = c, calls[c].at = "running",
         calls[c].told # "refused", NEW e \in Statements, e.by = c, e.n = calls[c].step + 1, e.verb # "rollback",
         NEW conn \in Conn, conn.sent = << >>, conn.holder = c, ~conn.heard, conn.open = Before(e),
         stored' \in SUBSET (Callers \X (1..3)), stored \subseteq stored',
         \A d \in Callers : ToldAsStored(d, calls, stored'),
         calls' = [calls EXCEPT ![c].step = @ + 1],
         conns' = [conns EXCEPT ![k] = [conn EXCEPT !.sent = Append(@, e)]]
  PROVE  PgInv'
<1> DEFINE new == [conn EXCEPT !.sent = Append(@, e)]
           now2 == [calls[c] EXCEPT !.step = @ + 1]
<1>1. calls \in CallStates /\ conns \in [Slots -> Conn] /\ calls[c] \in Call
  BY DEF PgInv, PgTyped, CallStates
<1>2. e.n \in 1..5
  BY DEF Statements
<1>3. /\ now2.step = e.n /\ now2.at = "running" /\ now2.told = calls[c].told /\ now2 \in Call
  BY <1>1, <1>2 DEF Call
<1>4. calls' = [calls EXCEPT ![c] = now2]
  BY <1>1 DEF CallStates
<1> HIDE DEF now2
<1>5. calls' \in CallStates /\ calls'[c] = now2 /\ \A d \in Callers \ {c} : calls'[d] = calls[d]
  BY <1>1, <1>3, <1>4 DEF CallStates
<1>6. new.sent = <<e>> /\ new.holder = c /\ ~new.heard /\ new \in Conn /\ new.open = conn.open
  <2>1. Append(<< >>, e) = <<e>> /\ <<e>> \in Seq(Statements)
    OBVIOUS
  <2> QED  BY <2>1 DEF Conn
<1>7. conns' = [conns EXCEPT ![k] = new]
  OBVIOUS
<1> HIDE DEF new
<1>8. Sound(new, calls', stored')
  BY <1>3, <1>5, <1>6, OneSent
<1>9. PgTyped' /\ HeldOnce' /\ \A j \in Slots : Sound(conns'[j], calls', stored')
  BY <1>5, <1>6, <1>7, <1>8, OneStep
<1>10. ToldAsStored(c, calls', stored')
  <2>1. ToldAsStored(c, calls, stored')
    OBVIOUS
  <2>2. calls[Boot].told = "ok" => calls'[Boot].told = "ok"
    BY <1>3, <1>5, ClientAssumption DEF ClientAssumption
  <2>3. now2.step < 4 => calls[c].step < 4
    BY <1>1, <1>2, <1>3 DEF Call
  <2> QED  BY <1>3, <1>5, <2>1, <2>2, <2>3 DEF ToldAsStored
<1>11. \A d \in Callers : ToldAsStored(d, calls', stored')
  BY <1>5, <1>10, OthersTold
<1> QED  BY <1>9, <1>11 DEF PgInv

\* A connection given back with nothing on it.
LEMMA ReleasedClean ==
  ASSUME NEW conn \in Conn, conn.sent = << >>, conn.open = Nil, ~conn.heard, NEW cs, NEW st
  PROVE  Released(conn) \in Conn /\ Released(conn).holder = Nil /\ Sound(Released(conn), cs, st)
<1> DEFINE new == [conn EXCEPT !.holder = Nil]
<1>1. Released(conn) = new
  BY DEF Released, Conn
<1>2. new \in Conn /\ new.holder = Nil /\ new.sent = << >> /\ new.open = Nil /\ ~new.heard
  BY DEF Conn
<1> HIDE DEF new
<1> QED  BY <1>1, <1>2, Unsent

LEMMA AnswersStep ==
  ASSUME PgInv, NEW k \in Slots, Answers(k)
  PROVE  PgInv'
<1> DEFINE s == Head1(k)
           ran == IF conns[k].heard THEN [open |-> conns[k].open, keep |-> {}] ELSE Executed(k, s)
           conn == [conns[k] EXCEPT !.sent = Tail(@), !.open = ran.open, !.heard = FALSE]
<1>0. /\ HasHead(k) /\ stored' = stored \cup ran.keep
      /\ IF Awaits(s.by, s) THEN AfterAnswer(k, s, conn) ELSE Unheeded(k, s, conn, Released(conn))
  BY DEF Answers
<1>1. /\ conns[k] \in Conn /\ Sound(conns[k], calls, stored) /\ conns[k].sent # << >>
      /\ s = conns[k].sent[1] /\ PgTyped
  BY <1>0 DEF PgInv, PgTyped, HasHead, Head1
<1>2. s \in Statements /\ s.by \in Callers /\ calls[s.by] \in Call
  BY <1>1, HeadKnown DEF PgTyped
<1>3. ran.open = After(s) /\ stored \cup ran.keep = stored \cup Keeps(s)
  <2>1. CASE conns[k].heard
    BY <1>1, <2>1 DEF Sound, OpenAsSent
  <2>2. CASE ~conns[k].heard
    BY <1>0, <1>1, <2>2, ExecutedAsSent
  <2> QED  BY <2>1, <2>2
<1> HIDE DEF ran
<1>4. /\ stored' = stored \cup Keeps(s) /\ stored' \in SUBSET (Callers \X (1..3)) /\ stored \subseteq stored'
      /\ \A d \in Callers : ToldAsStored(d, calls, stored')
  BY <1>0, <1>3, Runs
<1>5. /\ conn \in Conn /\ conn.sent = Tail(conns[k].sent) /\ conn.holder = conns[k].holder /\ ~conn.heard
      /\ conn.open = After(s)
  <2>1. Tail(conns[k].sent) \in Seq(Statements) /\ After(s) \in {Nil} \cup SUBSET (Callers \X (1..3))
    BY <1>1, <1>2, Behind, Verbs DEF Conn
  <2> QED  BY <1>1, <1>3, <2>1 DEF Conn
<1> HIDE DEF conn
<1>6. CASE ~Awaits(s.by, s)
  BY <1>0, <1>4, <1>5, <1>6, UnheededStep
<1>7. CASE Awaits(s.by, s)
  <2> DEFINE c == s.by
  <2>1. /\ conn.sent = << >> /\ conns[k].holder = c /\ conn.holder = c
        /\ \/ calls[c].at = "running" /\ calls[c].step = s.n /\ s.verb # "rollback"
           \/ calls[c].at = "rolling" /\ s.verb = "rollback"
    BY <1>0, <1>2, <1>5, <1>7, AwaitedAlone
  <2>2. AfterAnswer(k, s, conn) /\ calls \in CallStates /\ ToldAsStored(c, calls, stored')
    BY <1>0, <1>1, <1>2, <1>4, <1>7 DEF PgTyped, CallStates
  <2>3. CASE s.verb = "rollback"
    <3>1. calls' = [calls EXCEPT ![c].at = "done"] /\ conns' = [conns EXCEPT ![k] = Released(conn)]
      BY <2>2, <2>3 DEF AfterAnswer
    <3>2. conn.open = Nil
      BY <1>2, <1>5, <2>3, Verbs
    <3>3. /\ calls' \in CallStates /\ \A d \in Callers \ {c} : calls'[d] = calls[d]
          /\ calls'[c].at = "done" /\ calls'[c].step = calls[c].step /\ calls'[c].told = calls[c].told
      BY <1>2, <2>2, <3>1 DEF CallStates, Call, Standings
    <3>4. ToldAsStored(c, calls', stored')
      BY <2>1, <2>2, <2>3, <3>3 DEF ToldAsStored
    <3>5. Released(conn) \in Conn /\ Released(conn).holder = Nil /\ Sound(Released(conn), calls', stored')
      BY <1>5, <2>1, <3>2, ReleasedClean
    <3> QED  BY <1>2, <1>4, <2>1, <2>3, <3>1, <3>3, <3>4, <3>5, EndsClean
  <2>4. CASE s.verb # "rollback" /\ s.n = Len(Script(c))
    <3> DEFINE now2 == [at |-> "done", step |-> calls[c].step, told |-> "ok"]
    <3>1. calls' = [calls EXCEPT ![c] = now2] /\ conns' = [conns EXCEPT ![k] = Released(conn)]
      BY <2>2, <2>4 DEF AfterAnswer, Tell
    <3>2. s.verb \in {"commit", "auto", "select"} /\ (Kind(c) = "tx" => s.verb = "commit") /\ (Kind(c) = "auto" => s.verb = "auto")
      <4>1. Len(Script(c)) = IF Kind(c) = "tx" THEN 4 ELSE 1
        BY DEF Script
      <4> QED  BY <1>2, <2>4, <4>1, Verbs
    <3>3. conn.open = Nil
      BY <1>2, <1>5, <3>2, Verbs
    <3>4. now2 \in Call /\ now2.at = "done" /\ now2.step = calls[c].step /\ now2.told = "ok"
      BY <1>2 DEF Call, Standings, Ends
    <3> HIDE DEF now2
    <3>5. /\ calls' \in CallStates /\ calls'[c] = now2 /\ \A d \in Callers \ {c} : calls'[d] = calls[d]
      BY <1>2, <2>2, <3>1, <3>4 DEF CallStates
    <3>6. Kind(c) # "read" => DurableIn(stored', c) # {}
      <4>1. Kind(c) = "tx" => <<c, 2>> \in stored'
        BY <1>4, <3>2 DEF Keeps
      <4>2. Kind(c) = "auto" => <<c, 1>> \in stored'
        BY <1>4, <3>2 DEF Keeps
      <4> QED  BY <1>2, <4>1, <4>2, Verbs DEF DurableIn
    <3>7. Kind(c) = "tx" => ~(calls[c].step < 4)
      BY <1>2, <2>1, <2>4, <3>2, Verbs
    <3>8. ToldAsStored(c, calls', stored')
      BY <2>2, <3>4, <3>5, <3>6, <3>7 DEF ToldAsStored
    <3>9. Released(conn) \in Conn /\ Released(conn).holder = Nil /\ Sound(Released(conn), calls', stored')
      BY <1>5, <2>1, <3>3, ReleasedClean
    <3> QED  BY <1>2, <1>4, <2>1, <3>1, <3>5, <3>8, <3>9, EndsClean
  <2>5. CASE s.verb # "rollback" /\ s.n # Len(Script(c))
    <3>1. Kind(c) = "tx" /\ s.n \in {1, 2, 3} /\ (s.n = 1 => s.verb = "begin") /\ (s.n # 1 => s.verb = "write")
      <4>1. Len(Script(c)) = IF Kind(c) = "tx" THEN 4 ELSE 1
        BY DEF Script
      <4> QED  BY <1>2, <2>5, <4>1, Verbs
    <3>2. CASE Refuses(c) /\ s.n = 2
      <4>1. AfterFailure(c, k, conn, "refused")
        BY <2>2, <2>5, <3>2 DEF AfterAnswer
      <4>2. calls[c].at = "running" /\ calls[c].step < 4
        BY <2>1, <2>5, <3>2
      <4> DEFINE what == "refused"
      <4>3. what \in {"failed", "refused", "rejected"} /\ AfterFailure(c, k, conn, what)
        BY <4>1
      <4> HIDE DEF what
      <4>4. /\ PgInv /\ k \in Slots /\ c \in Callers /\ conns[k].holder = c /\ calls[c].at = "running"
            /\ conn \in Conn /\ conn.sent = << >> /\ conn.holder = c /\ ~conn.heard
            /\ what \in {"failed", "refused", "rejected"} /\ (what = "refused" => calls[c].step < 4)
            /\ stored' \in SUBSET (Callers \X (1..3)) /\ stored \subseteq stored'
            /\ \A d \in Callers : ToldAsStored(d, calls, stored')
            /\ AfterFailure(c, k, conn, what)
        BY <1>2, <1>4, <1>5, <2>1, <4>2, <4>3
      <4> QED  BY ONLY <4>4, FailsAlone
    <3>3. CASE ~(Refuses(c) /\ s.n = 2)
      <4> DEFINE e == Statement(c, Script(c)[s.n + 1], s.n + 1)
      <4>1. /\ calls' = [calls EXCEPT ![c].step = @ + 1]
            /\ conns' = [conns EXCEPT ![k] = [conn EXCEPT !.sent = Append(@, e)]]
        BY <2>2, <2>5, <3>3 DEF AfterAnswer
      <4>2. e.verb = (IF s.n = 3 THEN "commit" ELSE "write") /\ e.by = c /\ e.n = s.n + 1
        BY <3>1 DEF Statement, Script
      <4>3. e \in Statements
        BY <1>2, <3>1, <4>2 DEF Statements, Statement
      <4>4. After(s) = Before(e)
        <5>1. s.by = c /\ e.by = c
          BY <4>2
        <5>2. CASE s.n = 1
          BY <3>1, <4>2, <5>2 DEF After, Before
        <5>3. CASE s.n = 2
          BY <3>1, <4>2, <5>3 DEF After, Before
        <5>4. CASE s.n = 3
          BY <3>1, <4>2, <5>4 DEF After, Before
        <5> QED  BY <3>1, <5>2, <5>3, <5>4
      <4>5. e.verb # "rollback" /\ e.n = calls[c].step + 1
        BY <2>1, <2>5, <4>2
      <4>6. calls[c].at = "running" /\ calls[c].told # "refused"
        BY <2>1, <2>2, <2>5, ClientAssumption DEF ToldAsStored, ClientAssumption
      <4> HIDE DEF e
      <4> QED  BY <1>2, <1>4, <1>5, <2>1, <4>1, <4>2, <4>3, <4>4, <4>5, <4>6, NextStep
    <3> QED  BY <3>2, <3>3
  <2> QED  BY <2>3, <2>4, <2>5
<1> QED  BY <1>6, <1>7

LEMMA RejectsStep ==
  ASSUME PgInv, NEW k \in Slots, Rejects(k)
  PROVE  PgInv'
<1> DEFINE s == Head1(k)
           conn == [conns[k] EXCEPT !.sent = Tail(@)]
           what == IF Orphan(s) THEN "orphan" ELSE "rejected"
<1>0. /\ HasHead(k) /\ ~conns[k].heard /\ stored' = stored /\ s.verb # "rollback"
      /\ IF Awaits(s.by, s) THEN AfterFailure(s.by, k, conn, what) ELSE Unheeded(k, s, conn, Fresh)
  BY DEF Rejects
<1>1. /\ conns[k] \in Conn /\ Sound(conns[k], calls, stored) /\ conns[k].sent # << >>
      /\ s = conns[k].sent[1] /\ PgTyped
  BY <1>0 DEF PgInv, PgTyped, HasHead, Head1
<1>2. s \in Statements /\ s.by \in Callers
  BY <1>1, HeadKnown
<1>3. /\ stored' \in SUBSET (Callers \X (1..3)) /\ stored \subseteq stored'
      /\ \A d \in Callers : ToldAsStored(d, calls, stored')
  BY <1>0 DEF PgInv, PgTyped
<1>4. /\ conn \in Conn /\ conn.sent = Tail(conns[k].sent) /\ conn.holder = conns[k].holder /\ ~conn.heard
      /\ conn.open = conns[k].open
  <2>1. Tail(conns[k].sent) \in Seq(Statements)
    BY <1>1, Behind DEF Conn
  <2> QED  BY <1>0, <1>1, <2>1 DEF Conn
<1> HIDE DEF conn
<1>5. CASE ~Awaits(s.by, s)
  BY <1>0, <1>3, <1>4, <1>5, UnheededStep
<1>6. CASE Awaits(s.by, s)
  <2>1. conn.sent = << >> /\ conns[k].holder = s.by /\ conn.holder = s.by /\ calls[s.by].at = "running"
    BY <1>0, <1>2, <1>4, <1>6, AwaitedAlone
  <2>2. ~Orphan(s)
    <3>1. SUFFICES ASSUME Gated(s.by) PROVE <<Boot, 2>> \in stored /\ <<Boot, 3>> \in stored
      BY DEF Orphan
    <3>2. calls[Boot].told = "ok"
      BY <1>0, <1>2, <1>3, <2>1, <3>1 DEF ToldAsStored
    <3>3. DurableIn(stored, Boot) = {2, 3}
      BY <1>0, <1>3, <3>2, ClientAssumption DEF ToldAsStored, ClientAssumption
    <3> QED  BY <3>3 DEF DurableIn
  <2>3. what = "rejected" /\ AfterFailure(s.by, k, conn, what)
    BY <1>0, <1>6, <2>2
  <2> HIDE DEF what
  <2> QED  BY <1>2, <1>3, <1>4, <2>1, <2>3, FailsAlone
<1> QED  BY <1>5, <1>6

\* The end a call is told, other than ok and the refusal of its body.
LEMMA ToldFailure ==
  ASSUME PgInv, NEW c \in Callers, NEW what \in {"failed", "deadline", "timeout"}, calls' = Tell(c, what)
  PROVE  /\ calls' \in CallStates /\ \A d \in Callers \ {c} : calls'[d] = calls[d]
         /\ calls'[c].at = "done" /\ calls'[c].step = calls[c].step /\ calls'[c].told = what
         /\ ToldAsStored(c, calls', stored)
<1> DEFINE now2 == [at |-> "done", step |-> calls[c].step, told |-> what]
<1>1. calls \in CallStates /\ calls[c] \in Call /\ calls' = [calls EXCEPT ![c] = now2] /\ ToldAsStored(c, calls, stored)
  BY DEF PgInv, PgTyped, CallStates, Tell
<1>2. now2 \in Call /\ now2.at = "done" /\ now2.step = calls[c].step /\ now2.told = what
  BY <1>1 DEF Call, Standings, Ends
<1> HIDE DEF now2
<1>3. calls' \in CallStates /\ calls'[c] = now2 /\ \A d \in Callers \ {c} : calls'[d] = calls[d]
  BY <1>1, <1>2 DEF CallStates
<1>4. ToldAsStored(c, calls', stored)
  BY <1>1, <1>2, <1>3 DEF ToldAsStored
<1> QED  BY <1>2, <1>3, <1>4

LEMMA NeverSentSteps ==
  ASSUME PgInv, NEW c \in Callers, Start(c) \/ FailsReady(c) \/ TooLate(c) \/ LeavesQueue(c) \/ ConnectFails(c)
  PROVE  PgInv'
<1>1. calls \in CallStates /\ \A d \in Callers : ToldAsStored(d, calls, stored)
  BY DEF PgInv, PgTyped, CallStates
<1>2. CASE Start(c)
  <2>1. /\ calls[c].at = "waiting" /\ Ready(c) /\ UNCHANGED <<conns, stored>>
        /\ calls' = [calls EXCEPT ![c].at = "connecting"]
    BY <1>2 DEF Start
  <2>2. /\ calls' \in CallStates /\ \A d \in Callers \ {c} : calls'[d] = calls[d]
        /\ calls'[c].at = "connecting" /\ calls'[c].step = calls[c].step /\ calls'[c].told = calls[c].told
    BY <1>1, <2>1 DEF CallStates, Call, Standings
  <2>3. Gated(c) => calls'[Boot].told = "ok"
    BY <2>1, <2>2, ClientAssumption DEF Ready, ClientAssumption
  <2>4. ToldAsStored(c, calls', stored')
    BY <1>1, <2>1, <2>2, <2>3 DEF ToldAsStored
  <2> QED  BY <1>1, <2>1, <2>2, <2>4, CallStep, OthersTold DEF PgInv
<1>3. CASE FailsReady(c) \/ TooLate(c) \/ ConnectFails(c)
  <2>1. /\ calls[c].at \in {"waiting", "connecting", "left"} /\ UNCHANGED <<conns, stored>>
        /\ calls' = Tell(c, "failed") \/ calls' = Tell(c, "deadline")
    BY <1>1, <1>3 DEF FailsReady, TooLate, ConnectFails, Wanted, ToldAsStored
  <2>2. PICK what \in {"failed", "deadline", "timeout"} : calls' = Tell(c, what)
    BY <2>1
  <2>3. /\ calls' \in CallStates /\ \A d \in Callers \ {c} : calls'[d] = calls[d]
        /\ ToldAsStored(c, calls', stored)
    BY <2>2, ToldFailure
  <2>4. \A d \in Callers : ToldAsStored(d, calls', stored)
    BY <1>1, <2>1, <2>3, OthersTold
  <2> QED  BY <2>1, <2>3, <2>4, CallStep DEF PgInv
<1>4. CASE LeavesQueue(c)
  <2> DEFINE now2 == [at |-> "left", step |-> 0, told |-> "deadline"]
  <2>1. /\ calls[c].at = "connecting" /\ Kind(c) = "read" /\ UNCHANGED <<conns, stored>>
        /\ calls' = [calls EXCEPT ![c] = now2]
    BY <1>4 DEF LeavesQueue
  <2>2. now2 \in Call /\ now2.at = "left" /\ now2.step = 0 /\ now2.told = "deadline"
    BY DEF Call, Standings, Ends
  <2> HIDE DEF now2
  <2>3. calls' \in CallStates /\ calls'[c] = now2 /\ \A d \in Callers \ {c} : calls'[d] = calls[d]
    BY <1>1, <2>1, <2>2 DEF CallStates
  <2>4. ToldAsStored(c, calls', stored')
    BY <2>1, <2>2, <2>3 DEF ToldAsStored
  <2>5. calls[Boot].told = "ok" => calls'[Boot].told = "ok"
    BY <2>1, <2>3, ClientAssumption DEF ClientAssumption
  <2> QED  BY <1>1, <2>1, <2>3, <2>4, <2>5, CallStep, OthersTold DEF PgInv
<1> QED  BY <1>2, <1>3, <1>4

LEMMA SameQueue ==
  ASSUME NEW conn \in Conn, NEW cs, NEW st, NEW st2, Sound(conn, cs, st), NEW new \in Conn,
         new.sent = conn.sent, new.holder = conn.holder, OpenAsSent(new, st2)
  PROVE  Sound(new, cs, st2)
BY DEF Sound, SentBy, OwnedBy, LastOf

LEMMA SilenceSteps ==
  ASSUME PgInv, NEW k \in Slots, FallsSilent(k) \/ SpeaksAgain(k) \/ RunsUnheard(k)
  PROVE  PgInv'
<1>1. /\ conns[k] \in Conn /\ Sound(conns[k], calls, stored) /\ PgTyped
      /\ \A d \in Callers : ToldAsStored(d, calls, stored)
  BY DEF PgInv, PgTyped
<1>2. CASE FallsSilent(k) \/ SpeaksAgain(k)
  <2>1. PICK q \in BOOLEAN : conns' = [conns EXCEPT ![k].silent = q] /\ UNCHANGED <<calls, stored>>
    BY <1>2 DEF FallsSilent, SpeaksAgain
  <2> DEFINE new == [conns[k] EXCEPT !.silent = q]
  <2>2. conns' = [conns EXCEPT ![k] = new]
    BY <1>1, <2>1 DEF PgTyped
  <2>3. /\ new \in Conn /\ new.sent = conns[k].sent /\ new.holder = conns[k].holder
        /\ new.open = conns[k].open /\ new.heard = conns[k].heard
    BY <1>1 DEF Conn
  <2> HIDE DEF new
  <2>4. Sound(new, calls, stored')
    BY <1>1, <2>1, <2>3, SameQueue DEF Sound, OpenAsSent
  <2>5. PgTyped' /\ HeldOnce' /\ \A j \in Slots : Sound(conns'[j], calls', stored')
    BY <1>1, <2>1, <2>2, <2>3, <2>4, ConnStep DEF PgTyped
  <2> QED  BY <1>1, <2>1, <2>5 DEF PgInv
<1>3. CASE RunsUnheard(k)
  <2> DEFINE s == Head1(k)  ran == Executed(k, s)
             new == [conns[k] EXCEPT !.open = ran.open, !.heard = TRUE]
  <2>1. /\ HasHead(k) /\ ~conns[k].heard /\ UNCHANGED calls /\ stored' = stored \cup ran.keep
        /\ conns' = [conns EXCEPT ![k].open = ran.open, ![k].heard = TRUE]
    BY <1>3 DEF RunsUnheard
  <2>2. s = conns[k].sent[1] /\ conns[k].sent # << >> /\ s \in Statements
    BY <1>1, <2>1, HeadKnown DEF HasHead, Head1
  <2>3. ran.open = After(s) /\ ran.keep = Keeps(s)
    BY <1>1, <2>1, ExecutedAsSent
  <2> HIDE DEF ran
  <2>4. conns' = [conns EXCEPT ![k] = new]
    BY <1>1, <2>1 DEF PgTyped
  <2>5. /\ new \in Conn /\ new.sent = conns[k].sent /\ new.holder = conns[k].holder
        /\ new.open = After(s) /\ new.heard
    <3>1. After(s) \in {Nil} \cup SUBSET (Callers \X (1..3))
      BY <2>2, Verbs
    <3> QED  BY <1>1, <2>3, <3>1 DEF Conn
  <2> HIDE DEF new
  <2>6. /\ stored' \in SUBSET (Callers \X (1..3)) /\ stored \subseteq stored' /\ Keeps(s) \subseteq stored'
        /\ \A d \in Callers : ToldAsStored(d, calls, stored')
    BY <2>1, <2>3, Runs
  <2>7. Sound(new, calls, stored')
    BY <1>1, <2>2, <2>5, <2>6, SameQueue DEF OpenAsSent
  <2>8. PgTyped' /\ HeldOnce' /\ \A j \in Slots : Sound(conns'[j], calls', stored')
    BY <2>1, <2>4, <2>5, <2>6, <2>7, ConnStep
  <2> QED  BY <2>1, <2>6, <2>8 DEF PgInv
<1> QED  BY <1>2, <1>3

\* A call that is told a failure and gives its connection up, or leaves it to its last statement.
LEMMA FailsAndLeaves ==
  ASSUME PgInv, NEW k \in Slots, NEW c \in Callers, conns[k].holder = c, calls[c].at # "done",
         NEW what \in {"failed", "deadline", "timeout"}, calls' = Tell(c, what), stored' = stored,
         NEW new \in Conn, conns' = [conns EXCEPT ![k] = new], new.holder \in {Nil, c}, Sound(new, calls', stored')
  PROVE  PgInv'
<1>1. stored \in SUBSET (Callers \X (1..3)) /\ \A d \in Callers : ToldAsStored(d, calls, stored)
  BY DEF PgInv, PgTyped
<1>2. /\ calls' \in CallStates /\ \A d \in Callers \ {c} : calls'[d] = calls[d]
      /\ ToldAsStored(c, calls', stored)
  BY ToldFailure
<1>3. PgTyped' /\ HeldOnce' /\ \A j \in Slots : Sound(conns'[j], calls', stored')
  BY <1>1, <1>2, OneStep
<1>4. \A d \in Callers : ToldAsStored(d, calls', stored)
  BY <1>1, <1>2, OthersTold
<1> QED  BY <1>3, <1>4 DEF PgInv

\* The end of a roll back, whatever became of its connection.
LEMMA RolledBack ==
  ASSUME PgInv, NEW c \in Callers, calls[c].at = "rolling", calls' = [calls EXCEPT ![c].at = "done"]
  PROVE  /\ calls' \in CallStates /\ \A d \in Callers \ {c} : calls'[d] = calls[d]
         /\ calls'[c].at = "done" /\ calls'[c].step = calls[c].step /\ calls'[c].told = calls[c].told
         /\ ToldAsStored(c, calls', stored)
<1>1. calls \in CallStates /\ ToldAsStored(c, calls, stored)
  BY DEF PgInv, PgTyped, CallStates
<1>2. /\ calls' \in CallStates /\ \A d \in Callers \ {c} : calls'[d] = calls[d]
      /\ calls'[c].at = "done" /\ calls'[c].step = calls[c].step /\ calls'[c].told = calls[c].told
  BY <1>1 DEF CallStates, Call, Standings
<1>3. ToldAsStored(c, calls', stored)
  BY <1>1, <1>2 DEF ToldAsStored
<1> QED  BY <1>2, <1>3

LEMMA BreaksStep ==
  ASSUME PgInv, NEW k \in Slots, Breaks(k)
  PROVE  PgInv'
<1> DEFINE c == conns[k].holder
           conn == [Fresh EXCEPT !.holder = c, !.broken = TRUE]
<1>1. /\ conns[k] \in Conn /\ stored' = stored /\ conn.broken /\ c \in Callers \cup {Nil}
      /\ stored \in SUBSET (Callers \X (1..3)) /\ \A d \in Callers : ToldAsStored(d, calls, stored)
  BY DEF PgInv, PgTyped, Breaks, Fresh, Conn
<1>2. Fresh \in Conn /\ Fresh.holder = Nil /\ Sound(Fresh, calls, stored') /\ Sound(Fresh, calls', stored')
  BY FreshSound DEF Fresh
<1>3. CASE ~(c # Nil /\ calls[c].at \in {"running", "rolling"})
  <2>1. conns' = [conns EXCEPT ![k] = Fresh] /\ UNCHANGED calls
    BY <1>3 DEF Breaks
  <2>2. PgTyped' /\ HeldOnce' /\ \A j \in Slots : Sound(conns'[j], calls', stored')
    BY <1>1, <1>2, <2>1, ConnStep
  <2> QED  BY <1>1, <2>1, <2>2 DEF PgInv
<1>4. CASE c # Nil /\ calls[c].at \in {"running", "rolling"}
  <2>1. AfterFailure(c, k, conn, "failed") /\ c \in Callers
    BY <1>1, <1>4 DEF Breaks
  <2>2. Released(conn) = Fresh
    BY <1>1 DEF Released
  <2> HIDE DEF conn
  <2>3. CASE calls[c].at = "rolling"
    <3>1. calls' = [calls EXCEPT ![c].at = "done"] /\ conns' = [conns EXCEPT ![k] = Fresh]
      BY <2>1, <2>2, <2>3 DEF AfterFailure
    <3>2. /\ calls' \in CallStates /\ \A d \in Callers \ {c} : calls'[d] = calls[d]
          /\ ToldAsStored(c, calls', stored')
      BY <1>1, <2>1, <2>3, <3>1, RolledBack
    <3> QED  BY <1>1, <1>2, <2>1, <2>3, <3>1, <3>2, EndsClean
  <2>4. CASE calls[c].at = "running"
    <3>1. calls' = Tell(c, "failed") /\ conns' = [conns EXCEPT ![k] = Fresh]
      BY <1>1, <2>1, <2>2, <2>4 DEF AfterFailure
    <3> DEFINE what == "failed"
    <3>2. what \in {"failed", "deadline", "timeout"} /\ calls' = Tell(c, what)
      BY <3>1
    <3> HIDE DEF what
    <3> QED  BY <1>1, <1>2, <2>1, <2>4, <3>1, <3>2, FailsAndLeaves
  <2> QED  BY <1>4, <2>3, <2>4
<1> QED  BY <1>3, <1>4

\* A transaction whose wait ended sends its rollback behind what it waits for.
LEMMA RollbackQueued ==
  ASSUME PgInv, NEW k \in Slots, NEW c \in Callers, conns[k].holder = c, calls[c].at = "running", Kind(c) = "tx",
         NEW e \in Statements, e.by = c, e.verb = "rollback", stored' = stored,
         NEW now2 \in Call, now2.at = "rolling", now2.step = 5, now2.told = "timeout",
         calls' = [calls EXCEPT ![c] = now2],
         NEW new \in Conn, new.sent = Append(conns[k].sent, e), new.holder = c,
         new.open = conns[k].open, new.heard = conns[k].heard, conns' = [conns EXCEPT ![k] = new]
  PROVE  PgInv'
<1> DEFINE s == conns[k].sent  m == Len(s)
<1>1. /\ conns[k] \in Conn /\ Sound(conns[k], calls, stored) /\ calls \in CallStates /\ calls[c] \in Call
      /\ stored \in SUBSET (Callers \X (1..3)) /\ \A d \in Callers : ToldAsStored(d, calls, stored)
      /\ s \in Seq(Statements)
  BY DEF PgInv, PgTyped, CallStates, Conn
<1>2. e \in Statements /\ e.by = c /\ e.verb = "rollback"
  OBVIOUS
<1>3. s # << >> /\ s[m].by = c /\ s[m].verb # "rollback" /\ LastOf(conns[k]) = s[m]
  BY Holder DEF LastOf
<1>4. now2 \in Call /\ now2.at = "rolling" /\ now2.step = 5 /\ now2.told = "timeout"
  OBVIOUS
<1>5. calls' \in CallStates /\ calls'[c] = now2 /\ \A d \in Callers \ {c} : calls'[d] = calls[d]
  BY <1>1, <1>4 DEF CallStates
<1>6. /\ m \in Nat /\ m >= 1 /\ Append(s, e) \in Seq(Statements) /\ Len(Append(s, e)) = m + 1
      /\ Append(s, e) # << >> /\ Append(s, e)[m + 1] = e /\ \A i \in 1..m : Append(s, e)[i] = s[i]
  <2>1. s # << >> /\ e \in Statements /\ s \in Seq(Statements)
    BY <1>1, <1>2, <1>3
  <2>2. m \in Nat /\ m >= 1
    BY <2>1, EmptySeq
  <2>3. /\ Append(s, e) \in Seq(Statements) /\ Len(Append(s, e)) = m + 1
        /\ Append(s, e) # << >> /\ Append(s, e)[m + 1] = e /\ \A i \in 1..m : Append(s, e)[i] = s[i]
    BY <2>1, Queued, Zenon
  <2> QED  BY <2>2, <2>3
<1>7. /\ new \in Conn /\ new.sent = Append(s, e) /\ new.holder = c
      /\ new.open = conns[k].open /\ new.heard = conns[k].heard
  OBVIOUS
<1> HIDE DEF m
<1>8. Ordered(new.sent)
  <2>1. Ordered(s) /\ s[Len(s)].by = e.by /\ s[Len(s)].verb # "rollback" /\ e.verb = "rollback"
    BY <1>1, <1>2, <1>3 DEF Sound, m
  <2>2. Ordered(Append(s, e))
    BY <1>1, <1>2, <2>1, OrderedQueue
  <2> QED  BY <1>7, <2>2
<1>9. ASSUME NEW i \in 1..Len(new.sent)
      PROVE  SentBy(new, calls', new.sent[i])
  <2>1. CASE i = m + 1
    <3>1. new.sent[i] = e
      BY <1>6, <1>7, <2>1
    <3>2. SentBy(new, calls', e)
      BY <1>2, <1>4, <1>5, <1>7 DEF SentBy
    <3> QED  BY <3>1, <3>2
  <2>2. CASE i \in 1..m
    <3>1. SentBy(conns[k], calls, s[i]) /\ new.sent[i] = s[i] /\ s[i].by \in Callers
      BY <1>1, <1>6, <1>7, <2>2 DEF Sound, m, Statements
    <3>2. CASE s[i].by = c
      BY <1>4, <1>5, <1>7, <3>1, <3>2 DEF SentBy
    <3>3. CASE s[i].by # c
      <4>1. calls'[s[i].by] = calls[s[i].by] /\ conns[k].holder # s[i].by
        BY <1>5, <3>1, <3>3
      <4> QED  BY <3>1, <4>1 DEF SentBy
    <3> QED  BY <3>2, <3>3
  <2> QED  BY <1>6, <1>7, <2>1, <2>2
<1>10. OwnedBy(new, calls')
  BY <1>2, <1>4, <1>5, <1>6, <1>7, ClientAssumption DEF OwnedBy, LastOf, ClientAssumption
<1>11. new.sent[1] = s[1] /\ new.sent # << >>
  BY <1>6, <1>7
<1>12. OpenAsSent(new, stored')
  BY <1>1, <1>3, <1>7, <1>11 DEF Sound, OpenAsSent
<1>13. PgTyped' /\ HeldOnce' /\ \A j \in Slots : Sound(conns'[j], calls', stored')
  <2>1. Sound(new, calls', stored')
    BY <1>8, <1>9, <1>10, <1>12 DEF Sound
  <2> QED  BY <1>1, <1>5, <1>7, <2>1, OneStep
<1>14. ToldAsStored(c, calls', stored)
  <2>1. calls[Boot].told = "ok" => calls'[Boot].told = "ok"
    BY <1>1, <1>5, ClientAssumption DEF ToldAsStored, ClientAssumption
  <2>2. now2.told # "ok" /\ ~(now2.step < 4)
    BY <1>4
  <2> QED  BY <1>1, <1>4, <1>5, <2>1, <2>2 DEF ToldAsStored
<1>15. \A d \in Callers : ToldAsStored(d, calls', stored)
  <2>1. calls[c].at # "done" /\ \A d \in Callers : ToldAsStored(d, calls, stored)
    BY <1>1
  <2> QED  BY <1>5, <1>14, <2>1, OthersTold
<1> QED  BY <1>13, <1>15 DEF PgInv

LEMMA TimesOutStep ==
  ASSUME PgInv, NEW k \in Slots, NEW c \in Callers, TimesOut(c, k)
  PROVE  PgInv'
<1>1. /\ calls[c].at \in {"running", "rolling"} /\ conns[k].holder = c /\ stored' = stored
      /\ IF IsTransaction(c) THEN AfterFailure(c, k, conns[k], "timeout")
         ELSE calls' = Tell(c, IF Binding(c) THEN "deadline" ELSE "timeout") /\ UNCHANGED conns
  BY DEF TimesOut
<1>2. /\ conns[k] \in Conn /\ Sound(conns[k], calls, stored) /\ ~conns[k].broken
      /\ stored \in SUBSET (Callers \X (1..3)) /\ \A d \in Callers : ToldAsStored(d, calls, stored)
      /\ conns \in [Slots -> Conn] /\ conns[k].sent # << >> /\ calls \in CallStates
  BY <1>1, Holder DEF PgInv, PgTyped, Conn, CallStates
<1>3. CASE Kind(c) # "tx"
  <2>1. PICK what \in {"failed", "deadline", "timeout"} : calls' = Tell(c, what)
    BY <1>1, <1>3 DEF IsTransaction
  <2>2. /\ calls'[c].at = "done" /\ calls'[c].step = calls[c].step /\ calls'[c].told # "refused"
        /\ \A d \in Callers \ {c} : calls'[d] = calls[d]
    BY <2>1, ToldFailure
  <2>3. conns' = [conns EXCEPT ![k] = conns[k]]
    BY <1>1, <1>2, <1>3 DEF IsTransaction
  <2>4. Sound(conns[k], calls', stored')
    <3>1. OpenAsSent(conns[k], stored') /\ Ordered(conns[k].sent)
      BY <1>1, <1>2 DEF Sound
    <3>2. OwnedBy(conns[k], calls')
      BY <1>1, <1>2, <1>3, <2>2, Holder DEF OwnedBy
    <3>3. ASSUME NEW i \in 1..Len(conns[k].sent)
          PROVE  SentBy(conns[k], calls', conns[k].sent[i])
      <4>1. SentBy(conns[k], calls, conns[k].sent[i]) /\ conns[k].sent[i].by \in Callers
        BY <1>2 DEF Sound, Conn, Statements
      <4> QED  BY <2>2, <4>1 DEF SentBy
    <3> QED  BY <3>1, <3>2, <3>3 DEF Sound
  <2> QED  BY <1>1, <1>2, <2>1, <2>3, <2>4, FailsAndLeaves
<1>4. CASE Kind(c) = "tx" /\ calls[c].at = "running"
  <2> DEFINE e == Statement(c, "rollback", 5)
             now2 == [at |-> "rolling", step |-> 5, told |-> "timeout"]
             new == [conns[k] EXCEPT !.sent = Append(@, e)]
  <2>1. calls' = [calls EXCEPT ![c] = now2] /\ conns' = [conns EXCEPT ![k] = new]
    BY <1>1, <1>2, <1>4 DEF AfterFailure, IsTransaction, RollsBack
  <2>2. now2 \in Call /\ now2.at = "rolling" /\ now2.step = 5 /\ now2.told = "timeout"
    BY DEF Call, Standings, Ends
  <2>3. new \in [holder : {c}, sent : {Append(conns[k].sent, e)}, open : {conns[k].open},
                 silent : BOOLEAN, heard : {conns[k].heard}, broken : {FALSE}]
    BY <1>1, <1>2 DEF Conn
  <2> HIDE DEF now2, new
  <2>4. e \in Statements /\ e.by = c /\ e.verb = "rollback"
    BY <1>4 DEF Statement, Statements
  <2> HIDE DEF e
  <2>5. Append(conns[k].sent, e) \in Seq(Statements)
    BY <1>2, <2>4, Queued DEF Conn
  <2>6. /\ new \in Conn /\ new.sent = Append(conns[k].sent, e) /\ new.holder = c
        /\ new.open = conns[k].open /\ new.heard = conns[k].heard
    <3>1. conns[k].open \in {Nil} \cup SUBSET (Callers \X (1..3)) /\ conns[k].heard \in BOOLEAN
      BY <1>2 DEF Conn
    <3> QED  BY <2>3, <2>5, <3>1 DEF Conn
  <2> QED  BY <1>1, <1>4, <2>1, <2>2, <2>4, <2>6, RollbackQueued
<1>5. CASE Kind(c) = "tx" /\ calls[c].at = "rolling"
  <2> DEFINE new == [conns[k] EXCEPT !.holder = Nil]
  <2>1. calls' = [calls EXCEPT ![c].at = "done"] /\ conns' = [conns EXCEPT ![k] = new]
    BY <1>1, <1>2, <1>5 DEF AfterFailure, IsTransaction, Released
  <2>2. /\ new \in Conn /\ new.sent = conns[k].sent /\ new.holder = Nil
        /\ new.open = conns[k].open /\ new.heard = conns[k].heard
    BY <1>2 DEF Conn
  <2> HIDE DEF new
  <2>3. /\ calls' \in CallStates /\ \A d \in Callers \ {c} : calls'[d] = calls[d]
        /\ calls'[c].at = "done" /\ calls'[c].step = calls[c].step /\ calls'[c].told = calls[c].told
        /\ ToldAsStored(c, calls', stored')
    BY <1>1, <1>5, <2>1, RolledBack
  <2>4. Sound(new, calls', stored')
    <3>1. OpenAsSent(new, stored') /\ Ordered(new.sent)
      BY <1>1, <1>2, <2>2 DEF Sound, OpenAsSent
    <3>2. OwnedBy(new, calls')
      BY <1>1, <1>2, <1>5, <2>2, Holder DEF OwnedBy, LastOf
    <3>3. ASSUME NEW i \in 1..Len(new.sent)
          PROVE  SentBy(new, calls', new.sent[i])
      <4>1. SentBy(conns[k], calls, new.sent[i]) /\ new.sent[i].by \in Callers
        BY <1>2, <2>2 DEF Sound, Conn, Statements
      <4>2. CASE new.sent[i].by = c
        BY <1>5, <2>3, <4>1, <4>2 DEF SentBy
      <4>3. CASE new.sent[i].by # c
        <5>1. calls'[new.sent[i].by] = calls[new.sent[i].by] /\ conns[k].holder # new.sent[i].by
          BY <1>1, <2>3, <4>1, <4>3
        <5> QED  BY <4>1, <5>1 DEF SentBy
      <4> QED  BY <4>2, <4>3
    <3> QED  BY <3>1, <3>2, <3>3 DEF Sound
  <2> QED  BY <1>1, <1>2, <1>5, <2>1, <2>2, <2>3, <2>4, EndsClean
<1> QED  BY <1>1, <1>3, <1>4, <1>5

LEMMA ConnectsStep ==
  ASSUME PgInv, NEW k \in Slots, NEW c \in Callers, Connects(c, k)
  PROVE  PgInv'
<1> DEFINE e == Statement(c, Script(c)[1], 1)
           s == conns[k].sent  m == Len(s)
           new == [conns[k] EXCEPT !.sent = Append(@, e), !.holder = c]
           now2 == [at |-> IF calls[c].at = "left" THEN "done" ELSE "running", step |-> 1, told |-> calls[c].told]
<1>0. /\ calls[c].at \in {"connecting", "left"} /\ conns[k].holder = Nil /\ stored' = stored
      /\ calls' = [calls EXCEPT ![c] = now2]
      /\ conns' = [[conns EXCEPT ![k].sent = Append(@, e)] EXCEPT ![k].holder = c]
  BY DEF Connects, Wanted, Unheld, Send
<1>1. /\ conns[k] \in Conn /\ Sound(conns[k], calls, stored) /\ calls \in CallStates /\ calls[c] \in Call
      /\ stored \in SUBSET (Callers \X (1..3)) /\ \A d \in Callers : ToldAsStored(d, calls, stored)
      /\ s \in Seq(Statements) /\ conns \in [Slots -> Conn]
  BY DEF PgInv, PgTyped, CallStates, Conn
<1>2. /\ e \in Statements /\ e.by = c /\ e.n = 1 /\ e.verb \in {"begin", "auto", "select"}
  <2>1. Script(c)[1] = IF Kind(c) = "tx" THEN "begin" ELSE IF Kind(c) = "auto" THEN "auto" ELSE "select"
    BY DEF Script
  <2> QED  BY <2>1, ClientAssumption DEF Statement, Statements, ClientAssumption
<1> HIDE DEF e
<1>3. \A i \in 1..m : SentBy(conns[k], calls, s[i]) /\ s[i].by \in Callers
  BY <1>1 DEF Sound, Statements
<1>4. \A i \in 1..m : s[i].by # c /\ calls[s[i].by].at = "done"
  BY <1>0, <1>3, ClientAssumption DEF SentBy, ClientAssumption
<1>5. s = << >> \/ s[m].verb = "rollback"
  BY <1>0, <1>1 DEF Sound, OwnedBy, LastOf
<1>6. /\ m \in Nat /\ Append(s, e) \in Seq(Statements) /\ Len(Append(s, e)) = m + 1
      /\ Append(s, e) # << >> /\ Append(s, e)[m + 1] = e /\ \A i \in 1..m : Append(s, e)[i] = s[i]
      /\ (s # << >> => m >= 1) /\ (s = << >> => m = 0)
  BY <1>1, <1>2, Behind, Queued, EmptySeq
<1>7. /\ new \in Conn /\ new.sent = Append(s, e) /\ new.holder = c
      /\ new.open = conns[k].open /\ new.heard = conns[k].heard
  BY <1>1, <1>6 DEF Conn
<1>8. conns' = [conns EXCEPT ![k] = new]
  BY <1>0, <1>1
<1>9. /\ now2 \in Call /\ now2.step = 1 /\ calls' = [calls EXCEPT ![c] = now2]
      /\ \/ calls[c].at = "connecting" /\ now2.at = "running" /\ now2.told = Nil
         \/ Kind(c) = "read" /\ now2.at = "done" /\ now2.told = "deadline"
  <2>1. IF calls[c].at = "left" THEN Kind(c) = "read" /\ calls[c].told = "deadline" ELSE calls[c].told = Nil
    BY <1>0, <1>1 DEF ToldAsStored
  <2>2. now2 \in Call /\ now2.step = 1 /\ now2.told = calls[c].told
        /\ now2.at = IF calls[c].at = "left" THEN "done" ELSE "running"
    BY <1>1 DEF Call, Standings
  <2> QED  BY <1>0, <2>1, <2>2
<1> HIDE DEF new, m, now2
<1>10. calls' \in CallStates /\ calls'[c] = now2 /\ \A d \in Callers \ {c} : calls'[d] = calls[d]
  BY <1>1, <1>9 DEF CallStates
<1>11. Ordered(new.sent)
  <2>1. Ordered(s) /\ \A i \in 1..Len(s) : s[i].by # e.by
    BY <1>1, <1>2, <1>4 DEF Sound, m
  <2>2. s = << >> \/ s[Len(s)].verb = "rollback"
    BY <1>5 DEF m
  <2>3. Ordered(Append(s, e))
    BY <1>1, <1>2, <2>1, <2>2, OrderedQueue
  <2> QED  BY <1>7, <2>3
<1>12. ASSUME NEW i \in 1..Len(new.sent)
       PROVE  SentBy(new, calls', new.sent[i])
  <2>1. CASE i = m + 1
    <3>1. new.sent[i] = e
      BY <1>6, <1>7, <2>1
    <3>2. SentBy(new, calls', e)
      BY <1>2, <1>7, <1>9, <1>10 DEF SentBy
    <3> QED  BY <3>1, <3>2
  <2>2. CASE i \in 1..m
    <3>1. SentBy(conns[k], calls, s[i]) /\ new.sent[i] = s[i] /\ calls'[s[i].by] = calls[s[i].by] /\ calls[s[i].by].at = "done"
      BY <1>3, <1>4, <1>6, <1>7, <1>10, <2>2
    <3> QED  BY <3>1 DEF SentBy
  <2> QED  BY <1>6, <1>7, <2>1, <2>2
<1>13. OwnedBy(new, calls')
  <2>1. c # Nil /\ LastOf(new) = e
    BY <1>6, <1>7, ClientAssumption DEF LastOf, ClientAssumption
  <2> QED  BY <1>2, <1>6, <1>7, <1>9, <1>10, <2>1 DEF OwnedBy
<1>14. OpenAsSent(new, stored')
  <2>1. CASE s = << >>
    <3>1. new.sent[1] = e /\ new.sent # << >> /\ new.open = Nil /\ ~new.heard
      BY <1>1, <1>6, <1>7, <2>1 DEF Sound, OpenAsSent
    <3>2. Before(e) = Nil
      BY <1>2 DEF Before
    <3> QED  BY <3>1, <3>2 DEF OpenAsSent
  <2>2. CASE s # << >>
    <3>1. new.sent[1] = s[1] /\ new.sent # << >>
      BY <1>6, <1>7, <2>2
    <3> QED  BY <1>0, <1>1, <1>7, <2>2, <3>1 DEF Sound, OpenAsSent
  <2> QED  BY <2>1, <2>2
<1>15. PgTyped' /\ HeldOnce' /\ \A j \in Slots : Sound(conns'[j], calls', stored')
  <2>1. \A j \in Slots : conns[j].holder # c
    BY <1>0, Holder
  <2>2. Sound(new, calls', stored')
    BY <1>11, <1>12, <1>13, <1>14 DEF Sound
  <2>3. /\ new \in Conn /\ new.holder \in {Nil, c} /\ calls[c].at # "done"
        /\ stored' \in SUBSET (Callers \X (1..3)) /\ stored \subseteq stored'
    BY <1>0, <1>1, <1>7
  <2> QED  BY <1>8, <1>10, <2>1, <2>2, <2>3, OneStep
<1>16. ToldAsStored(c, calls', stored')
  <2>1. calls[Boot].told = "ok" => calls'[Boot].told = "ok"
    BY <1>0, <1>1, <1>10, ClientAssumption DEF ToldAsStored, ClientAssumption
  <2>2. Kind(c) = "tx" => DurableIn(stored, c) = {}
    BY <1>0, <1>1 DEF ToldAsStored
  <2>3. /\ calls'[c] = now2 /\ Nil # "ok" /\ Nil # "refused"
        /\ \/ calls[c].at = "connecting" /\ now2.at = "running" /\ now2.told = Nil
           \/ Kind(c) = "read" /\ now2.at = "done" /\ now2.told = "deadline"
    BY <1>9, <1>10, ClientAssumption DEF ClientAssumption
  <2>4. calls[c].at = "connecting" /\ Gated(c) => calls'[Boot].told = "ok"
    BY <1>0, <1>1, <2>1 DEF ToldAsStored
  <2> QED  BY <1>0, <2>2, <2>3, <2>4 DEF ToldAsStored
<1>17. \A d \in Callers : ToldAsStored(d, calls', stored')
  BY <1>0, <1>1, <1>10, <1>16, OthersTold
<1> QED  BY <1>15, <1>17 DEF PgInv

LEMMA PgInitial ==
  ClientInit => PgInv
<1> SUFFICES ASSUME ClientInit PROVE PgInv
  OBVIOUS
<1> DEFINE first == [at |-> "waiting", step |-> 0, told |-> Nil]
<1>1. /\ calls = [c \in Callers |-> first] /\ conns = [k \in Slots |-> Fresh] /\ stored = {}
  BY DEF ClientInit
<1>2. first \in Call /\ first.at = "waiting" /\ first.step = 0 /\ first.told = Nil
  BY DEF Call, Standings, Ends
<1> HIDE DEF first
<1>3. Fresh \in Conn /\ Fresh.holder = Nil /\ Sound(Fresh, calls, stored)
  BY FreshSound DEF Fresh
<1>4. PgTyped
  BY <1>1, <1>2, <1>3 DEF PgTyped
<1>5. HeldOnce /\ \A k \in Slots : Sound(conns[k], calls, stored)
  BY <1>1, <1>3 DEF HeldOnce
<1>6. ASSUME NEW c \in Callers
      PROVE  ToldAsStored(c, calls, stored)
  <2>1. calls[c].at = "waiting" /\ calls[c].step = 0 /\ calls[c].told = Nil /\ Nil # "ok"
    BY <1>1, <1>2, ClientAssumption DEF ClientAssumption
  <2>2. DurableIn(stored, c) = {}
    BY <1>1 DEF DurableIn
  <2> QED  BY <2>1, <2>2 DEF ToldAsStored
<1> QED  BY <1>4, <1>5, <1>6 DEF PgInv

LEMMA PgStep ==
  ASSUME PgInv, PgGoesOn \/ (\E c \in Callers : PgStarts(c)) \/ UNCHANGED clientVars
  PROVE  PgInv'
<1>1. ASSUME NEW c \in Callers, PgStarts(c) \/ LeavesQueue(c) \/ ConnectFails(c) PROVE PgInv'
  BY <1>1, NeverSentSteps DEF PgStarts
<1>2. ASSUME NEW c \in Callers, NEW k \in Slots, Connects(c, k) PROVE PgInv'
  BY <1>2, ConnectsStep
<1>3. ASSUME NEW c \in Callers, NEW k \in Slots, TimesOut(c, k) PROVE PgInv'
  BY <1>3, TimesOutStep
<1>4. ASSUME NEW k \in Slots, Answers(k) PROVE PgInv'
  BY <1>4, AnswersStep
<1>5. ASSUME NEW k \in Slots, Rejects(k) PROVE PgInv'
  BY <1>5, RejectsStep
<1>6. ASSUME NEW k \in Slots, FallsSilent(k) \/ RunsUnheard(k) \/ SpeaksAgain(k) PROVE PgInv'
  BY <1>6, SilenceSteps
<1>7. ASSUME NEW k \in Slots, Breaks(k) PROVE PgInv'
  BY <1>7, BreaksStep
<1>8. CASE UNCHANGED clientVars
  <2>1. calls' = calls /\ conns' = conns /\ stored' = stored
    BY <1>8 DEF clientVars
  <2>2. PgTyped' /\ HeldOnce'
    BY <2>1 DEF PgInv, PgTyped, HeldOnce
  <2> QED  BY <2>1, <2>2 DEF PgInv
<1> QED  BY <1>1, <1>2, <1>3, <1>4, <1>5, <1>6, <1>7, <1>8 DEF PgGoesOn

LEMMA PgTells ==
  PgInv => AllOrNothing /\ PlacesAccounted
<1> SUFFICES ASSUME PgInv PROVE AllOrNothing /\ PlacesAccounted
  OBVIOUS
<1>1. AllOrNothing
  <2> SUFFICES ASSUME NEW c \in Callers
               PROVE  /\ Kind(c) = "tx" => Durable(c) \in {{}, {2, 3}}
                      /\ Kind(c) = "tx" /\ calls[c].told = "refused" => Durable(c) = {}
                      /\ Kind(c) # "read" /\ calls[c].told = "ok" => Durable(c) # {}
                      /\ calls[c].told # "orphan"
    BY DEF AllOrNothing
  <2>1. ToldAsStored(c, calls, stored) /\ calls[c].told \in Ends
    BY DEF PgInv, PgTyped, Call
  <2>2. Durable(c) = DurableIn(stored, c)
    BY DEF Durable, DurableIn
  <2>3. calls[c].told # "orphan"
    BY <2>1, ClientAssumption DEF Ends, ClientAssumption
  <2> QED  BY <2>1, <2>2, <2>3 DEF ToldAsStored
<1>2. PlacesAccounted
  <2> SUFFICES ASSUME NEW k \in Slots, conns[k].holder # Nil
               PROVE  \E i \in 1..Len(conns[k].sent) : conns[k].sent[i].by = conns[k].holder
    BY DEF PlacesAccounted
  <2>1. conns[k] \in Conn /\ conns[k].holder \in Callers
    BY DEF PgInv, PgTyped, Conn
  <2>2. conns[k].sent # << >> /\ LastOf(conns[k]).by = conns[k].holder
    BY <2>1, Holder
  <2>3. Len(conns[k].sent) \in 1..Len(conns[k].sent)
    BY <2>1, <2>2, Behind DEF Conn
  <2> QED  BY <2>2, <2>3 DEF LastOf
<1> QED  BY <1>1, <1>2

(***************************************************************************)
(* The connections to the SQLite file                                      *)
(***************************************************************************)

LiteCall == [at : {"idle", "queued", "open", "failing", "done"}, step : 0..3, told : {Nil, "ok", "failed", "refused"}]
LiteWrites == LiteCallers \X (1..2)
LiteTyped ==
  /\ liteCalls \in [LiteCallers -> LiteCall]
  /\ lines \in [Lite!Connections -> Seq(LiteCallers)]
  /\ opened \in [Lite!Connections -> {Nil} \cup SUBSET LiteWrites]
  /\ liteStored \in SUBSET LiteWrites

Going == {"open", "failing"}
AtHead(ls, c) == ls[Lite!On(c)] # << >> /\ ls[Lite!On(c)][1] = c
WritesIn(ws, c) == {n \in 1..2 : <<c, n>> \in ws}

\* A transaction that goes on has its turn, and what it wrote so far is open on its connection,
\* with what statements wrote meanwhile; what is stored of a call is what it was told.
CallSound(c, cs, ls, op, st) ==
  /\ cs[c].at \in Going => Lite!InTransaction(c) /\ AtHead(ls, c)
  /\ cs[c].at = "open" => /\ op[Lite!On(c)] \in SUBSET LiteWrites /\ cs[c].step \in 1..3
                          /\ WritesIn(op[Lite!On(c)], c) = {n \in 1..2 : n < cs[c].step}
                          /\ \A w \in op[Lite!On(c)] : w[1] = c \/ Way(w[1]) = "statement"
  /\ cs[c].at = "failing" => cs[c].told \in {"failed", "refused"}
  /\ Way(c) # "statement" =>
       WritesIn(st, c) = IF cs[c].at = "done" /\ cs[c].told = "ok" THEN Lite!WritesOf(c) ELSE {}

\* What is open on a connection was begun by the call whose turn it is.
LineSound(n, cs, ls, op) ==
  op[n] # Nil => ls[n] # << >> /\ Lite!On(ls[n][1]) = n /\ cs[ls[n][1]].at \in Going

LiteInv ==
  /\ LiteTyped
  /\ \A c \in LiteCallers : CallSound(c, liteCalls, lines, opened, liteStored)
  /\ \A n \in Lite!Connections : LineSound(n, liteCalls, lines, opened)

LEMMA Ways ==
  ASSUME NEW c \in LiteCallers
  PROVE  /\ Lite!Queues(c) <=> Way(c) \in {"transaction", "reserve", "complete"}
         /\ Lite!InTransaction(c) <=> Way(c) \in {"transaction", "reserve"}
         /\ Way(c) \in {"transaction", "statement"} => Lite!On(c) = "engine"
         /\ Way(c) \in {"reserve", "complete"} => Lite!On(c) = "ledger"
         /\ Way(c) # "store" => Lite!On(c) \in Lite!Connections
         /\ Lite!WritesOf(c) = IF Way(c) \in {"statement", "complete"} THEN {1} ELSE {1, 2}
         /\ Way(c) \in {"transaction", "statement", "reserve", "complete", "store"}
<1>1. Way(c) \in {"transaction", "statement", "reserve", "complete", "store"}
  BY DEF LiteAssumption
<1>2. Lite!On(c) = CASE Way(c) \in {"transaction", "statement"} -> "engine"
                     [] Way(c) \in {"reserve", "complete"} -> "ledger"
                     [] OTHER -> "stores"
  BY DEF Lite!On
<1>3. /\ Way(c) \in {"transaction", "statement"} => Lite!On(c) = "engine"
      /\ Way(c) \in {"reserve", "complete"} => Lite!On(c) = "ledger"
  BY <1>1, <1>2
<1> QED  BY <1>1, <1>3 DEF Lite!Queues, Lite!InTransaction, Lite!Connections, Lite!WritesOf

\* A step of the call at the head of a line, and of that line and its connection.
LEMMA TurnStep ==
  ASSUME LiteInv, NEW c \in LiteCallers, NEW n \in Lite!Connections, n = Lite!On(c), AtHead(lines, c),
         NEW now2 \in LiteCall, liteCalls' = [liteCalls EXCEPT ![c] = now2],
         NEW line \in Seq(LiteCallers), lines' = [lines EXCEPT ![n] = line],
         NEW op \in {Nil} \cup SUBSET LiteWrites, opened' = [opened EXCEPT ![n] = op],
         liteStored' \in SUBSET LiteWrites,
         \A d \in LiteCallers \ {c} : Way(d) # "statement" => WritesIn(liteStored', d) = WritesIn(liteStored, d),
         CallSound(c, liteCalls', lines', opened', liteStored'), LineSound(n, liteCalls', lines', opened')
  PROVE  LiteInv'
<1>1. /\ liteCalls \in [LiteCallers -> LiteCall] /\ lines \in [Lite!Connections -> Seq(LiteCallers)]
      /\ opened \in [Lite!Connections -> {Nil} \cup SUBSET LiteWrites]
  BY DEF LiteInv, LiteTyped
<1>2. /\ liteCalls' \in [LiteCallers -> LiteCall] /\ lines' \in [Lite!Connections -> Seq(LiteCallers)]
      /\ opened' \in [Lite!Connections -> {Nil} \cup SUBSET LiteWrites]
      /\ \A d \in LiteCallers \ {c} : liteCalls'[d] = liteCalls[d]
      /\ \A q \in Lite!Connections \ {n} : lines'[q] = lines[q] /\ opened'[q] = opened[q]
  BY <1>1
<1>3. LiteTyped'
  BY <1>2 DEF LiteTyped
<1>4. ASSUME NEW d \in LiteCallers \ {c}
      PROVE  CallSound(d, liteCalls', lines', opened', liteStored')
  <2>1. CallSound(d, liteCalls, lines, opened, liteStored) /\ liteCalls'[d] = liteCalls[d]
    BY <1>2 DEF LiteInv
  <2>2. CASE liteCalls[d].at \in Going
    <3>1. Lite!On(d) \in Lite!Connections /\ Lite!On(d) # n
      BY <2>1, <2>2, Ways DEF CallSound, AtHead
    <3>2. lines'[Lite!On(d)] = lines[Lite!On(d)] /\ opened'[Lite!On(d)] = opened[Lite!On(d)]
      BY <1>2, <3>1
    <3> QED  BY <2>1, <3>2 DEF CallSound, AtHead
  <2>3. CASE liteCalls[d].at \notin Going
    BY <2>1, <2>3 DEF CallSound, Going
  <2> QED  BY <2>2, <2>3
<1>5. ASSUME NEW q \in Lite!Connections \ {n}
      PROVE  LineSound(q, liteCalls', lines', opened')
  <2>1. LineSound(q, liteCalls, lines, opened) /\ lines'[q] = lines[q] /\ opened'[q] = opened[q]
    BY <1>2 DEF LiteInv
  <2>2. SUFFICES ASSUME opened[q] # Nil PROVE liteCalls'[lines[q][1]] = liteCalls[lines[q][1]]
    BY <2>1 DEF LineSound
  <2>3. lines[q] # << >> /\ Lite!On(lines[q][1]) = q /\ lines[q] \in Seq(LiteCallers)
    BY <1>1, <2>1, <2>2 DEF LineSound
  <2>4. lines[q][1] \in LiteCallers
    BY <2>3, HeadTailProperties, EmptySeq
  <2> QED  BY <1>2, <2>3, <2>4
<1> QED  BY <1>3, <1>4, <1>5 DEF LiteInv

LEMMA BeginsStep ==
  ASSUME LiteInv, NEW c \in LiteCallers, Lite!Begins(c)
  PROVE  LiteInv'
<1> DEFINE n == Lite!On(c)
           now2 == [at |-> "open", step |-> 1, told |-> liteCalls[c].told]
<1>1. /\ Lite!InTransaction(c) /\ AtHead(lines, c) /\ opened[n] = Nil /\ liteCalls[c].at = "queued"
      /\ liteCalls' = [liteCalls EXCEPT ![c] = now2] /\ opened' = [opened EXCEPT ![n] = {}]
      /\ UNCHANGED <<lines, liteStored>>
  BY DEF Lite!Begins, Lite!Turn, AtHead, Lite!Stands
<1>2. n \in Lite!Connections /\ Way(c) \in {"transaction", "reserve"}
  BY <1>1, Ways
<1>3. /\ liteCalls \in [LiteCallers -> LiteCall] /\ lines \in [Lite!Connections -> Seq(LiteCallers)]
      /\ opened \in [Lite!Connections -> {Nil} \cup SUBSET LiteWrites] /\ liteStored \in SUBSET LiteWrites
      /\ CallSound(c, liteCalls, lines, opened, liteStored) /\ liteCalls[c] \in LiteCall
  BY DEF LiteInv, LiteTyped
<1>4. now2 \in LiteCall /\ now2.at = "open" /\ now2.step = 1
  BY <1>3 DEF LiteCall
<1> HIDE DEF now2, n
<1>5. lines' = [lines EXCEPT ![n] = lines[n]] /\ lines[n] \in Seq(LiteCallers)
  BY <1>1, <1>2, <1>3
<1>6. liteCalls'[c] = now2 /\ opened'[n] = {}
  BY <1>1, <1>2, <1>3
<1>7. WritesIn(opened'[n], c) = {m \in 1..2 : m < 1}
  BY <1>6 DEF WritesIn
<1>8. CallSound(c, liteCalls', lines', opened', liteStored')
  BY <1>1, <1>2, <1>3, <1>4, <1>6, <1>7 DEF CallSound, n, AtHead
<1>9. LineSound(n, liteCalls', lines', opened')
  BY <1>1, <1>4, <1>6 DEF LineSound, n, AtHead, Going
<1>10. {} \in {Nil} \cup SUBSET LiteWrites /\ liteStored' = liteStored /\ n = Lite!On(c)
  BY <1>1 DEF n
<1> QED  BY <1>1, <1>2, <1>3, <1>4, <1>5, <1>8, <1>9, <1>10, TurnStep

\* Nothing is open on a connection whose turn is of a call that has not begun.
LEMMA NotBegun ==
  ASSUME LiteInv, NEW c \in LiteCallers, Lite!Queues(c), AtHead(lines, c), liteCalls[c].at \notin Going
  PROVE  opened[Lite!On(c)] = Nil
<1>1. Lite!On(c) \in Lite!Connections
  BY Ways
<1> QED  BY <1>1 DEF LiteInv, LineSound, AtHead

\* The end of what queued, with nothing of it left open.
LEMMA LeavesStep ==
  ASSUME LiteInv, NEW c \in LiteCallers, Lite!Queues(c), AtHead(lines, c),
         NEW what \in {"ok", "failed", "refused"}, Lite!Ends(c, what), Lite!Leaves(c),
         opened' = [opened EXCEPT ![Lite!On(c)] = Nil], liteStored' \in SUBSET LiteWrites,
         \A d \in LiteCallers \ {c} : Way(d) # "statement" => WritesIn(liteStored', d) = WritesIn(liteStored, d),
         WritesIn(liteStored', c) = IF what = "ok" THEN Lite!WritesOf(c) ELSE {}
  PROVE  LiteInv'
<1> DEFINE n == Lite!On(c)
           now2 == [at |-> "done", step |-> liteCalls[c].step, told |-> what]
           line == Tail(lines[n])
<1>1. /\ liteCalls' = [liteCalls EXCEPT ![c] = now2] /\ lines' = [lines EXCEPT ![n] = line]
      /\ opened' = [opened EXCEPT ![n] = Nil]
  BY DEF Lite!Ends, Lite!Stands, Lite!Leaves
<1>2. n \in Lite!Connections
  BY Ways
<1>3. /\ liteCalls \in [LiteCallers -> LiteCall] /\ lines \in [Lite!Connections -> Seq(LiteCallers)]
      /\ opened \in [Lite!Connections -> {Nil} \cup SUBSET LiteWrites]
      /\ liteCalls[c] \in LiteCall
  BY DEF LiteInv, LiteTyped
<1>4. now2 \in LiteCall /\ now2.at = "done" /\ now2.told = what
  BY <1>3 DEF LiteCall
<1>5. line \in Seq(LiteCallers)
  <2>1. lines[n] \in Seq(LiteCallers) /\ lines[n] # << >>
    BY <1>2, <1>3 DEF AtHead
  <2> QED  BY <2>1, HeadTailProperties
<1> HIDE DEF now2, line, n
<1>6. liteCalls'[c] = now2 /\ opened'[n] = Nil
  BY <1>1, <1>2, <1>3
<1>7. CallSound(c, liteCalls', lines', opened', liteStored')
  BY <1>4, <1>6 DEF CallSound, Going
<1>8. LineSound(n, liteCalls', lines', opened')
  BY <1>6 DEF LineSound
<1>9. Nil \in {Nil} \cup SUBSET LiteWrites /\ n = Lite!On(c)
  BY DEF n
<1> QED  BY <1>1, <1>2, <1>4, <1>5, <1>7, <1>8, <1>9, TurnStep

LEMMA BeginRefusedStep ==
  ASSUME LiteInv, NEW c \in LiteCallers, Lite!BeginRefused(c)
  PROVE  LiteInv'
<1>1. /\ Lite!InTransaction(c) /\ AtHead(lines, c) /\ liteCalls[c].at = "queued"
      /\ Lite!Ends(c, "failed") /\ Lite!Leaves(c) /\ opened' = opened /\ liteStored' = liteStored
  BY DEF Lite!BeginRefused, Lite!Turn, AtHead
<1>2. Lite!Queues(c) /\ Way(c) # "statement" /\ Lite!On(c) \in Lite!Connections
  BY <1>1, Ways
<1>3. /\ opened \in [Lite!Connections -> {Nil} \cup SUBSET LiteWrites] /\ liteStored \in SUBSET LiteWrites
      /\ CallSound(c, liteCalls, lines, opened, liteStored)
  BY DEF LiteInv, LiteTyped
<1>4. opened' = [opened EXCEPT ![Lite!On(c)] = Nil]
  <2>1. opened[Lite!On(c)] = Nil
    BY <1>1, <1>2, NotBegun DEF Going
  <2> QED  BY <1>1, <1>2, <1>3, <2>1
<1>5. WritesIn(liteStored', c) = {}
  BY <1>1, <1>2, <1>3 DEF CallSound
<1> DEFINE what == "failed"
<1>6. Lite!Ends(c, what) /\ what \in {"ok", "failed", "refused"} /\ what # "ok"
  BY <1>1
<1> HIDE DEF what
<1> QED  BY <1>1, <1>2, <1>3, <1>4, <1>5, <1>6, LeavesStep

LEMMA RollsBackStep ==
  ASSUME LiteInv, NEW c \in LiteCallers, Lite!RollsBack(c)
  PROVE  LiteInv'
<1> DEFINE what == liteCalls[c].told
<1>1. /\ liteCalls[c].at = "failing" /\ Lite!Ends(c, what) /\ Lite!Leaves(c)
      /\ opened' = [opened EXCEPT ![Lite!On(c)] = Nil] /\ liteStored' = liteStored
  BY DEF Lite!RollsBack
<1>2. liteStored \in SUBSET LiteWrites /\ CallSound(c, liteCalls, lines, opened, liteStored)
  BY DEF LiteInv, LiteTyped
<1>3. Lite!InTransaction(c) /\ AtHead(lines, c) /\ what \in {"failed", "refused"}
  BY <1>1, <1>2 DEF CallSound, Going
<1>4. Lite!Queues(c) /\ Way(c) # "statement"
  BY <1>3, Ways
<1>5. WritesIn(liteStored', c) = {}
  BY <1>1, <1>2, <1>4 DEF CallSound
<1> HIDE DEF what
<1> QED  BY <1>1, <1>2, <1>3, <1>4, <1>5, LeavesStep

LEMMA CommitsStep ==
  ASSUME LiteInv, NEW c \in LiteCallers, Lite!Commits(c)
  PROVE  LiteInv'
<1> DEFINE n == Lite!On(c)
<1>1. /\ liteCalls[c].at = "open" /\ liteCalls[c].step = 3 /\ Lite!Ends(c, "ok") /\ Lite!Leaves(c)
      /\ opened' = [opened EXCEPT ![n] = Nil] /\ liteStored' = liteStored \cup opened[n]
  BY DEF Lite!Commits
<1>2. liteStored \in SUBSET LiteWrites /\ CallSound(c, liteCalls, lines, opened, liteStored)
  BY DEF LiteInv, LiteTyped
<1>3. /\ Lite!InTransaction(c) /\ AtHead(lines, c) /\ opened[n] \in SUBSET LiteWrites
      /\ WritesIn(opened[n], c) = {1, 2}
  BY <1>1, <1>2 DEF CallSound, Going
<1>4. Lite!Queues(c) /\ Way(c) # "statement" /\ n \in Lite!Connections /\ Lite!WritesOf(c) = {1, 2}
  BY <1>3, Ways
<1>5. \A w \in opened[n] : w[1] = c \/ Way(w[1]) = "statement"
  BY <1>1, <1>2 DEF CallSound
<1>7. liteStored' \in SUBSET LiteWrites
  BY <1>1, <1>2, <1>3
<1>8. ASSUME NEW d \in LiteCallers \ {c}, Way(d) # "statement"
      PROVE  WritesIn(liteStored', d) = WritesIn(liteStored, d)
  BY <1>1, <1>5, <1>8 DEF WritesIn
<1>9. WritesIn(liteStored', c) = {1, 2}
  BY <1>1, <1>3 DEF WritesIn
<1> HIDE DEF n
<1> DEFINE what == "ok"
<1>10. Lite!Ends(c, what) /\ what \in {"ok", "failed", "refused"} /\ what = "ok"
  BY <1>1
<1> HIDE DEF what
<1> QED  BY <1>1, <1>3, <1>4, <1>7, <1>8, <1>9, <1>10, LeavesStep DEF n

LEMMA WritesStep ==
  ASSUME LiteInv, NEW c \in LiteCallers, Lite!Writes(c)
  PROVE  LiteInv'
<1> DEFINE n == Lite!On(c)
           at == liteCalls[c].step
           fails == [at |-> "failing", step |-> 1, told |-> "refused"]
           goes == [at |-> "open", step |-> at + 1, told |-> liteCalls[c].told]
           op == opened[n] \cup {<<c, at>>}
<1>1. /\ liteCalls[c].at = "open" /\ at <= 2 /\ opened' = [opened EXCEPT ![n] = op]
      /\ UNCHANGED <<lines, liteStored>>
      /\ IF Throws(c) /\ at = 1 THEN liteCalls' = [liteCalls EXCEPT ![c] = fails]
         ELSE liteCalls' = [liteCalls EXCEPT ![c] = goes]
  BY DEF Lite!Writes, Lite!Stands
<1>2. /\ liteCalls \in [LiteCallers -> LiteCall] /\ lines \in [Lite!Connections -> Seq(LiteCallers)]
      /\ opened \in [Lite!Connections -> {Nil} \cup SUBSET LiteWrites] /\ liteStored \in SUBSET LiteWrites
      /\ liteCalls[c] \in LiteCall /\ CallSound(c, liteCalls, lines, opened, liteStored)
  BY DEF LiteInv, LiteTyped
<1>3. /\ Lite!InTransaction(c) /\ AtHead(lines, c) /\ opened[n] \in SUBSET LiteWrites /\ at \in 1..2
      /\ WritesIn(opened[n], c) = {m \in 1..2 : m < at}
      /\ \A w \in opened[n] : w[1] = c \/ Way(w[1]) = "statement"
  BY <1>1, <1>2 DEF CallSound, Going
<1>4. n \in Lite!Connections /\ Way(c) # "statement"
  BY <1>3, Ways
<1>5. op \in SUBSET LiteWrites /\ \A w \in op : w[1] = c \/ Way(w[1]) = "statement"
  BY <1>3 DEF LiteWrites
<1>6. WritesIn(op, c) = {m \in 1..2 : m < at + 1}
  <2>1. \A m \in 1..2 : <<c, m>> \in opened[n] <=> m < at
    BY <1>3 DEF WritesIn
  <2>2. \A m \in 1..2 : <<c, m>> \in op <=> m < at + 1
    BY <1>3, <2>1
  <2> QED  BY <2>2 DEF WritesIn
<1>7. WritesIn(liteStored, c) = {}
  BY <1>1, <1>2, <1>4 DEF CallSound
<1>8. /\ fails \in LiteCall /\ fails.at = "failing" /\ fails.told = "refused"
      /\ goes \in LiteCall /\ goes.at = "open" /\ goes.step = at + 1
  BY <1>2, <1>3 DEF LiteCall
<1> HIDE DEF fails, goes, op, at, n
<1>9. PICK now2 \in LiteCall :
        /\ liteCalls' = [liteCalls EXCEPT ![c] = now2] /\ now2.at \in Going
        /\ now2.at = "failing" => now2.told = "refused"
        /\ now2.at = "open" => now2.step = at + 1
  BY <1>1, <1>8 DEF Going
<1>10. liteCalls'[c] = now2 /\ opened'[n] = op /\ lines' = [lines EXCEPT ![n] = lines[n]] /\ lines[n] \in Seq(LiteCallers)
  BY <1>1, <1>2, <1>4, <1>9
<1>11. CallSound(c, liteCalls', lines', opened', liteStored')
  <2>1. now2.at = "open" => now2.step \in 1..3 /\ WritesIn(op, c) = {m \in 1..2 : m < now2.step}
    BY <1>3, <1>6, <1>9
  <2>2. now2.at # "done" /\ WritesIn(liteStored', c) = {} /\ AtHead(lines', c)
    BY <1>1, <1>3, <1>7, <1>9 DEF Going
  <2> QED  BY <1>3, <1>5, <1>9, <1>10, <2>1, <2>2 DEF CallSound, n
<1>12. LineSound(n, liteCalls', lines', opened')
  BY <1>1, <1>3, <1>9, <1>10 DEF LineSound, AtHead, n
<1>13. n = Lite!On(c)
  BY DEF n
<1> QED  BY <1>1, <1>2, <1>3, <1>4, <1>5, <1>9, <1>10, <1>11, <1>12, <1>13, TurnStep

LEMMA WriteRefusedStep ==
  ASSUME LiteInv, NEW c \in LiteCallers, Lite!WriteRefused(c) \/ Lite!CommitRefused(c)
  PROVE  LiteInv'
<1> DEFINE n == Lite!On(c)
           now2 == [at |-> "failing", step |-> liteCalls[c].step, told |-> "failed"]
<1>1. /\ liteCalls[c].at = "open" /\ UNCHANGED <<lines, opened, liteStored>>
      /\ liteCalls' = [liteCalls EXCEPT ![c] = now2]
  BY DEF Lite!WriteRefused, Lite!CommitRefused, Lite!Stands
<1>2. /\ liteCalls \in [LiteCallers -> LiteCall] /\ lines \in [Lite!Connections -> Seq(LiteCallers)]
      /\ opened \in [Lite!Connections -> {Nil} \cup SUBSET LiteWrites] /\ liteStored \in SUBSET LiteWrites
      /\ liteCalls[c] \in LiteCall /\ CallSound(c, liteCalls, lines, opened, liteStored)
  BY DEF LiteInv, LiteTyped
<1>3. Lite!InTransaction(c) /\ AtHead(lines, c)
  BY <1>1, <1>2 DEF CallSound, Going
<1>4. n \in Lite!Connections /\ LineSound(n, liteCalls, lines, opened)
  BY <1>3, Ways DEF LiteInv
<1>5. now2 \in LiteCall /\ now2.at = "failing" /\ now2.told = "failed"
  BY <1>2 DEF LiteCall
<1> HIDE DEF now2, n
<1>6. /\ liteCalls'[c] = now2 /\ lines' = [lines EXCEPT ![n] = lines[n]] /\ lines[n] \in Seq(LiteCallers)
      /\ opened' = [opened EXCEPT ![n] = opened[n]] /\ opened[n] \in {Nil} \cup SUBSET LiteWrites
  BY <1>1, <1>2, <1>4
<1>7. CallSound(c, liteCalls', lines', opened', liteStored')
  BY <1>1, <1>2, <1>3, <1>5, <1>6 DEF CallSound, Going
<1>8. LineSound(n, liteCalls', lines', opened')
  BY <1>1, <1>3, <1>4, <1>5, <1>6 DEF LineSound, AtHead, n, Going
<1>9. n = Lite!On(c)
  BY DEF n
<1> QED  BY <1>1, <1>2, <1>3, <1>4, <1>5, <1>6, <1>7, <1>8, <1>9, TurnStep

\* The end of a call that stands in no line.
LEMMA AsideStep ==
  ASSUME LiteInv, NEW c \in LiteCallers, liteCalls[c].at = "idle", Way(c) \in {"statement", "store"},
         NEW what \in {"ok", "failed"}, Lite!Ends(c, what), lines' = lines,
         \/ opened' = opened
         \/ Way(c) = "statement" /\ opened["engine"] # Nil /\ opened' = [opened EXCEPT !["engine"] = @ \cup {<<c, 1>>}],
         liteStored' \in SUBSET LiteWrites,
         \A d \in LiteCallers \ {c} : WritesIn(liteStored', d) = WritesIn(liteStored, d),
         Way(c) = "store" => WritesIn(liteStored', c) = IF what = "ok" THEN {1, 2} ELSE {}
  PROVE  LiteInv'
<1> DEFINE now2 == [at |-> "done", step |-> liteCalls[c].step, told |-> what]
<1>1. /\ liteCalls \in [LiteCallers -> LiteCall] /\ lines \in [Lite!Connections -> Seq(LiteCallers)]
      /\ opened \in [Lite!Connections -> {Nil} \cup SUBSET LiteWrites] /\ liteCalls[c] \in LiteCall
      /\ liteCalls' = [liteCalls EXCEPT ![c] = now2]
  BY DEF LiteInv, LiteTyped, Lite!Ends, Lite!Stands
<1>2. now2 \in LiteCall /\ now2.at = "done" /\ now2.told = what
  BY <1>1 DEF LiteCall
<1> HIDE DEF now2
<1>3. liteCalls' \in [LiteCallers -> LiteCall] /\ liteCalls'[c] = now2 /\ \A d \in LiteCallers \ {c} : liteCalls'[d] = liteCalls[d]
  BY <1>1, <1>2
<1>4. "engine" \in Lite!Connections
  BY DEF Lite!Connections
<1>5. /\ opened' \in [Lite!Connections -> {Nil} \cup SUBSET LiteWrites]
      /\ \A n \in Lite!Connections : opened'[n] # opened[n] =>
           opened[n] # Nil /\ opened'[n] = opened[n] \cup {<<c, 1>>} /\ Way(c) = "statement"
  <2>1. CASE opened' = opened
    BY <1>1, <2>1
  <2>2. CASE Way(c) = "statement" /\ opened["engine"] # Nil /\ opened' = [opened EXCEPT !["engine"] = @ \cup {<<c, 1>>}]
    <3>1. opened["engine"] \cup {<<c, 1>>} \in SUBSET LiteWrites
      BY <1>1, <1>4, <2>2 DEF LiteWrites
    <3> QED  BY <1>1, <1>4, <2>2, <3>1
  <2> QED  BY <2>1, <2>2
<1>6. ASSUME NEW d \in LiteCallers \ {c}
      PROVE  CallSound(d, liteCalls', lines', opened', liteStored')
  <2>1. CallSound(d, liteCalls, lines, opened, liteStored) /\ liteCalls'[d] = liteCalls[d]
    BY <1>3 DEF LiteInv
  <2>2. liteCalls[d].at \in Going => Lite!On(d) \in Lite!Connections
    BY <2>1, Ways DEF CallSound
  <2> DEFINE o == opened[Lite!On(d)]  o2 == opened'[Lite!On(d)]
  <2>3. CASE liteCalls[d].at = "open" /\ o2 # o
    <3>1. o2 = o \cup {<<c, 1>>} /\ Way(c) = "statement" /\ o \in SUBSET LiteWrites
      BY <1>5, <2>1, <2>2, <2>3 DEF CallSound, Going
    <3>2. o2 \in SUBSET LiteWrites /\ WritesIn(o2, d) = WritesIn(o, d)
      BY <3>1 DEF WritesIn, LiteWrites
    <3>3. \A w \in o2 : w \in o \/ w[1] = c
      BY <3>1
    <3> HIDE DEF o2
    <3> QED  BY <2>1, <2>3, <3>1, <3>2, <3>3 DEF CallSound, AtHead, o2
  <2>4. CASE liteCalls[d].at # "open" \/ o2 = o
    BY <2>1, <2>4 DEF CallSound, AtHead
  <2> QED  BY <2>3, <2>4
<1>7. CallSound(c, liteCalls', lines', opened', liteStored')
  BY <1>2, <1>3, Ways DEF CallSound, Going
<1>8. ASSUME NEW n \in Lite!Connections
      PROVE  LineSound(n, liteCalls', lines', opened')
  <2>1. LineSound(n, liteCalls, lines, opened) /\ (opened'[n] # Nil => opened[n] # Nil)
    BY <1>5 DEF LiteInv
  <2>2. SUFFICES ASSUME opened[n] # Nil PROVE liteCalls'[lines[n][1]] = liteCalls[lines[n][1]]
    BY <2>1 DEF LineSound
  <2>3. lines[n] # << >> /\ lines[n] \in Seq(LiteCallers) /\ liteCalls[lines[n][1]].at \in Going
    BY <1>1, <2>1, <2>2 DEF LineSound
  <2>4. lines[n][1] \in LiteCallers /\ lines[n][1] # c
    BY <2>3, HeadTailProperties, EmptySeq DEF Going
  <2> QED  BY <1>3, <2>4
<1>9. LiteTyped'
  BY <1>1, <1>3, <1>5 DEF LiteTyped
<1> QED  BY <1>6, <1>7, <1>8, <1>9 DEF LiteInv

LEMMA SubmitsStep ==
  ASSUME LiteInv, NEW c \in LiteCallers, Lite!Submits(c)
  PROVE  LiteInv'
<1> DEFINE n == Lite!On(c)
           line == Append(lines[n], c)
<1>1. /\ liteCalls[c].at = "idle" /\ Lite!Queues(c) /\ UNCHANGED <<opened, liteStored>>
      /\ liteCalls' = [liteCalls EXCEPT ![c].at = "queued"] /\ lines' = [lines EXCEPT ![n] = line]
  BY DEF Lite!Submits
<1>2. /\ liteCalls \in [LiteCallers -> LiteCall] /\ lines \in [Lite!Connections -> Seq(LiteCallers)]
      /\ opened \in [Lite!Connections -> {Nil} \cup SUBSET LiteWrites] /\ liteStored \in SUBSET LiteWrites
      /\ liteCalls[c] \in LiteCall /\ CallSound(c, liteCalls, lines, opened, liteStored)
  BY DEF LiteInv, LiteTyped
<1>3. n \in Lite!Connections /\ lines[n] \in Seq(LiteCallers)
  BY <1>1, <1>2, Ways
<1>4. line \in Seq(LiteCallers) /\ line # << >> /\ (lines[n] # << >> => line[1] = lines[n][1])
  <2>1. Len(lines[n]) \in Nat /\ (lines[n] # << >> => Len(lines[n]) >= 1)
    BY <1>3, EmptySeq
  <2> QED  BY <1>3, <2>1, AppendProperties, EmptySeq
<1>5. /\ liteCalls' \in [LiteCallers -> LiteCall] /\ liteCalls'[c].at = "queued"
      /\ \A d \in LiteCallers \ {c} : liteCalls'[d] = liteCalls[d]
  BY <1>1, <1>2 DEF LiteCall
<1> HIDE DEF line, n
<1>6. /\ lines' \in [Lite!Connections -> Seq(LiteCallers)]
      /\ \A q \in Lite!Connections : lines[q] # << >> => lines'[q] # << >> /\ lines'[q][1] = lines[q][1]
  BY <1>1, <1>2, <1>3, <1>4
<1>7. ASSUME NEW d \in LiteCallers
      PROVE  CallSound(d, liteCalls', lines', opened', liteStored')
  <2>1. CallSound(d, liteCalls, lines, opened, liteStored)
    BY DEF LiteInv
  <2>2. CASE d = c
    BY <1>1, <1>5, <2>1, <2>2 DEF CallSound, Going
  <2>3. CASE d # c
    <3>1. liteCalls[d].at \in Going => AtHead(lines', d)
      BY <1>6, <2>1, Ways DEF CallSound, AtHead
    <3> QED  BY <1>1, <1>5, <2>1, <2>3, <3>1 DEF CallSound
  <2> QED  BY <2>2, <2>3
<1>8. ASSUME NEW q \in Lite!Connections
      PROVE  LineSound(q, liteCalls', lines', opened')
  <2>1. LineSound(q, liteCalls, lines, opened) /\ opened'[q] = opened[q]
    BY <1>1 DEF LiteInv
  <2>2. SUFFICES ASSUME opened[q] # Nil PROVE lines[q] # << >> /\ liteCalls'[lines[q][1]] = liteCalls[lines[q][1]]
    BY <1>6, <2>1 DEF LineSound
  <2>3. lines[q] # << >> /\ lines[q] \in Seq(LiteCallers) /\ liteCalls[lines[q][1]].at \in Going
    BY <1>2, <2>1, <2>2 DEF LineSound
  <2>4. lines[q][1] \in LiteCallers /\ lines[q][1] # c
    BY <1>1, <2>3, HeadTailProperties, EmptySeq DEF Going
  <2> QED  BY <1>5, <2>3, <2>4
<1>9. LiteTyped'
  BY <1>1, <1>2, <1>5, <1>6 DEF LiteTyped
<1> QED  BY <1>7, <1>8, <1>9 DEF LiteInv

LEMMA SingleStep ==
  ASSUME LiteInv, NEW c \in LiteCallers, Lite!Single(c)
  PROVE  LiteInv'
<1> DEFINE n == Lite!On(c)  what == "ok"
<1>1. /\ Way(c) \in {"statement", "complete"} /\ Lite!Runs(c) /\ Lite!Ends(c, what) /\ Lite!Leaves(c)
      /\ IF opened[n] = Nil THEN liteStored' = liteStored \cup {<<c, 1>>} /\ opened' = opened
         ELSE opened' = [opened EXCEPT ![n] = @ \cup {<<c, 1>>}] /\ liteStored' = liteStored
  BY DEF Lite!Single
<1>2. /\ opened \in [Lite!Connections -> {Nil} \cup SUBSET LiteWrites] /\ liteStored \in SUBSET LiteWrites
      /\ CallSound(c, liteCalls, lines, opened, liteStored)
  BY DEF LiteInv, LiteTyped
<1>3. liteStored' \in SUBSET LiteWrites
  BY <1>1, <1>2 DEF LiteWrites
<1>4. \A d \in LiteCallers \ {c} : WritesIn(liteStored', d) = WritesIn(liteStored, d)
  BY <1>1 DEF WritesIn
<1>5. what \in {"ok", "failed", "refused"} /\ what \in {"ok", "failed"} /\ what = "ok"
  OBVIOUS
<1> HIDE DEF what
<1>6. CASE Way(c) = "statement"
  <2>1. liteCalls[c].at = "idle" /\ lines' = lines /\ n = "engine"
    BY <1>1, <1>6, Ways DEF Lite!Runs, Lite!Leaves
  <2> QED  BY <1>1, <1>3, <1>4, <1>5, <1>6, <2>1, AsideStep
<1>7. CASE Way(c) = "complete"
  <2>1. /\ Lite!Queues(c) /\ liteCalls[c].at = "queued" /\ AtHead(lines, c) /\ n \in Lite!Connections
        /\ Lite!WritesOf(c) = {1}
    BY <1>1, <1>7, Ways DEF Lite!Runs, Lite!Turn, AtHead
  <2>2. opened[n] = Nil
    BY <2>1, NotBegun DEF Going
  <2>3. opened' = [opened EXCEPT ![n] = Nil] /\ liteStored' = liteStored \cup {<<c, 1>>}
    BY <1>1, <1>2, <2>1, <2>2
  <2>4. WritesIn(liteStored, c) = {}
    BY <1>2, <1>7, <2>1 DEF CallSound
  <2>5. WritesIn(liteStored', c) = {1}
    BY <2>3, <2>4 DEF WritesIn
  <2> QED  BY <1>1, <1>3, <1>4, <1>5, <2>1, <2>3, <2>5, LeavesStep
<1> QED  BY <1>1, <1>6, <1>7

LEMMA SingleRefusedStep ==
  ASSUME LiteInv, NEW c \in LiteCallers, Lite!SingleRefused(c)
  PROVE  LiteInv'
<1> DEFINE n == Lite!On(c)  what == "failed"
<1>1. /\ Way(c) \in {"statement", "complete"} /\ Lite!Runs(c) /\ Lite!Ends(c, what) /\ Lite!Leaves(c)
      /\ opened' = opened /\ liteStored' = liteStored
  BY DEF Lite!SingleRefused
<1>2. /\ opened \in [Lite!Connections -> {Nil} \cup SUBSET LiteWrites] /\ liteStored \in SUBSET LiteWrites
      /\ CallSound(c, liteCalls, lines, opened, liteStored)
  BY DEF LiteInv, LiteTyped
<1>5. what \in {"ok", "failed", "refused"} /\ what \in {"ok", "failed"} /\ what # "ok"
  OBVIOUS
<1> HIDE DEF what
<1>6. CASE Way(c) = "statement"
  <2>1. liteCalls[c].at = "idle" /\ lines' = lines
    BY <1>1, <1>6, Ways DEF Lite!Runs, Lite!Leaves
  <2> QED  BY <1>1, <1>2, <1>5, <1>6, <2>1, AsideStep
<1>7. CASE Way(c) = "complete"
  <2>1. /\ Lite!Queues(c) /\ liteCalls[c].at = "queued" /\ AtHead(lines, c) /\ n \in Lite!Connections
    BY <1>1, <1>7, Ways DEF Lite!Runs, Lite!Turn, AtHead
  <2>2. opened[n] = Nil
    BY <2>1, NotBegun DEF Going
  <2>3. opened' = [opened EXCEPT ![n] = Nil]
    BY <1>1, <1>2, <2>1, <2>2
  <2>4. WritesIn(liteStored', c) = {}
    BY <1>1, <1>2, <1>7, <2>1 DEF CallSound
  <2> QED  BY <1>1, <1>2, <1>5, <2>1, <2>3, <2>4, LeavesStep
<1> QED  BY <1>1, <1>6, <1>7

LEMMA StoreSteps ==
  ASSUME LiteInv, NEW c \in LiteCallers, Lite!StoreTurn(c) \/ Lite!StoreRefused(c)
  PROVE  LiteInv'
<1>1. /\ liteStored \in SUBSET LiteWrites /\ CallSound(c, liteCalls, lines, opened, liteStored)
  BY DEF LiteInv, LiteTyped
<1>2. CASE Lite!StoreTurn(c)
  <2> DEFINE what == "ok"
  <2>1. /\ Way(c) = "store" /\ liteCalls[c].at = "idle" /\ Lite!Ends(c, what) /\ UNCHANGED <<lines, opened>>
        /\ liteStored' = liteStored \cup {<<c, 1>>, <<c, 2>>}
    BY <1>2 DEF Lite!StoreTurn
  <2>2. /\ liteStored' \in SUBSET LiteWrites /\ WritesIn(liteStored', c) = {1, 2}
        /\ \A d \in LiteCallers \ {c} : WritesIn(liteStored', d) = WritesIn(liteStored, d)
    BY <1>1, <2>1 DEF LiteWrites, WritesIn
  <2>3. what \in {"ok", "failed"} /\ what = "ok"
    OBVIOUS
  <2> HIDE DEF what
  <2> QED  BY <2>1, <2>2, <2>3, AsideStep
<1>3. CASE Lite!StoreRefused(c)
  <2> DEFINE what == "failed"
  <2>1. /\ Way(c) = "store" /\ liteCalls[c].at = "idle" /\ Lite!Ends(c, what)
        /\ UNCHANGED <<lines, opened, liteStored>>
    BY <1>3 DEF Lite!StoreRefused
  <2>2. WritesIn(liteStored', c) = {}
    BY <1>1, <2>1 DEF CallSound
  <2>3. what \in {"ok", "failed"} /\ what # "ok"
    OBVIOUS
  <2> HIDE DEF what
  <2> QED  BY <1>1, <2>1, <2>2, <2>3, AsideStep
<1> QED  BY <1>2, <1>3

LEMMA LiteSame ==
  ASSUME LiteInv, UNCHANGED <<liteCalls, lines, opened, liteStored>>
  PROVE  LiteInv'
BY DEF LiteInv, LiteTyped, CallSound, LineSound, AtHead

LEMMA LiteStep ==
  ASSUME LiteInv, Lite!LiteNext \/ UNCHANGED liteVars
  PROVE  LiteInv'
<1>1. CASE Lite!OtherLocks \/ UNCHANGED liteVars
  BY <1>1, LiteSame DEF Lite!OtherLocks, liteVars
<1>2. ASSUME NEW c \in LiteCallers,
             \/ Lite!Submits(c) \/ Lite!Begins(c) \/ Lite!BeginRefused(c) \/ Lite!Writes(c) \/ Lite!WriteRefused(c)
             \/ Lite!Commits(c) \/ Lite!CommitRefused(c) \/ Lite!RollsBack(c) \/ Lite!Single(c) \/ Lite!SingleRefused(c)
             \/ Lite!StoreTurn(c) \/ Lite!StoreRefused(c)
      PROVE  LiteInv'
  BY <1>2, SubmitsStep, BeginsStep, BeginRefusedStep, WritesStep, WriteRefusedStep, CommitsStep, RollsBackStep,
     SingleStep, SingleRefusedStep, StoreSteps
<1> QED  BY <1>1, <1>2 DEF Lite!LiteNext

LEMMA LiteInitial ==
  Lite!LiteInit => LiteInv
<1> SUFFICES ASSUME Lite!LiteInit PROVE LiteInv
  OBVIOUS
<1> DEFINE first == [at |-> "idle", step |-> 0, told |-> Nil]
<1>1. /\ liteCalls = [c \in LiteCallers |-> first] /\ lines = [n \in Lite!Connections |-> << >>]
      /\ opened = [n \in Lite!Connections |-> Nil] /\ liteStored = {}
  BY DEF Lite!LiteInit
<1>2. first \in LiteCall /\ first.at = "idle"
  BY DEF LiteCall
<1> HIDE DEF first
<1>3. LiteTyped
  BY <1>1, <1>2 DEF LiteTyped
<1>4. ASSUME NEW c \in LiteCallers
      PROVE  CallSound(c, liteCalls, lines, opened, liteStored)
  <2>1. liteCalls[c].at = "idle" /\ WritesIn(liteStored, c) = {}
    BY <1>1, <1>2 DEF WritesIn
  <2> QED  BY <2>1 DEF CallSound, Going
<1>5. \A n \in Lite!Connections : LineSound(n, liteCalls, lines, opened)
  BY <1>1 DEF LineSound
<1> QED  BY <1>3, <1>4, <1>5 DEF LiteInv

LEMMA LiteTells ==
  LiteInv => Lite!AnsweredIsStored
BY DEF LiteInv, CallSound, WritesIn, Lite!AnsweredIsStored, Lite!Kept

(***************************************************************************)
(* Both storages                                                           *)
(***************************************************************************)
ClientsInv == PgInv /\ LiteInv

\* The invariant of the clients of both storages.
THEOREM ClientsInvariant == ClientsSpec => []ClientsInv
<1>1. ClientsInit => ClientsInv
  BY PgInitial, LiteInitial DEF ClientsInit, ClientsInv
<1>2. ClientsInv /\ [ClientsNext]_<<clientVars, liteVars>> => ClientsInv'
  <2> SUFFICES ASSUME ClientsInv, [ClientsNext]_<<clientVars, liteVars>> PROVE ClientsInv'
    OBVIOUS
  <2>1. PgGoesOn \/ (\E c \in Callers : PgStarts(c)) \/ UNCHANGED clientVars
    BY DEF ClientsNext
  <2>2. Lite!LiteNext \/ UNCHANGED liteVars
    BY DEF ClientsNext
  <2>3. PgInv'
    BY <2>1, PgStep DEF ClientsInv
  <2>4. LiteInv'
    BY <2>2, LiteStep DEF ClientsInv
  <2> QED  BY <2>3, <2>4 DEF ClientsInv
<1> QED  BY <1>1, <1>2, PTL DEF ClientsSpec

\* On either storage what a caller was told is what the store holds: a transaction is whole or
\* absent, ok means written, a failure of a SQLite call means nothing is.
THEOREM ClientsTold == ClientsSpec => []StoredAsTold
<1>1. ClientsInv => StoredAsTold
  BY PgTells, LiteTells DEF ClientsInv, StoredAsTold
<1> QED  BY <1>1, ClientsInvariant, PTL

\* A place of a pool is held by a call that goes on, or by a statement without an answer.
THEOREM ClientsAccounted == ClientsSpec => []PlacesAccounted
<1>1. ClientsInv => PlacesAccounted
  BY PgTells DEF ClientsInv
<1> QED  BY <1>1, ClientsInvariant, PTL
=============================================================================
