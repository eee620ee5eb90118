--------------------------- MODULE PgStateClient ---------------------------
(***************************************************************************)
(* The two Postgres clients of one process, the one that writes the state  *)
(* of the engine and the one that only reads, over the connections of      *)
(* their pools: statements that stand one behind the other on a            *)
(* connection, transactions, the bound on each wait, and connections that  *)
(* fall silent or break.  The first caller is the bootstrap of the         *)
(* registry of providers, and the writes of the other stores wait for it.  *)
(*                                                                         *)
(* A statement is abstracted to who sent it and its place; time to what    *)
(* may fire before what: the server ends every statement it hears within   *)
(* its own bound, which is shorter than the bound of the process.          *)
(***************************************************************************)
EXTENDS Naturals, Sequences, FiniteSets, SequencesExt

CONSTANTS Nil, Boot,
          Callers,      \* calls of the clients, the bootstrap among them
          Kind(_),      \* "tx" a transaction of two writes, "auto" one statement, "read"
          Gated(_),     \* does the store of this caller wait for the bootstrap?
          Refuses(_),   \* does the body of the transaction throw after its first write?
          Binding(_),   \* does the deadline of a read come before the bound of its query?
          Slots,        \* places of the pools
          PoolOf(_),    \* the pool of a place: "state" or "read"
          Faults        \* "silent", "breaks", "rejects", "connect"

\* The bootstrap is a transaction.
ASSUME ClientAssumption ==
  /\ Boot \in Callers /\ Kind(Boot) = "tx"
  /\ \A c \in Callers : Kind(c) \in {"tx", "auto", "read"}
  /\ Nil \notin Callers \cup {"ok", "refused", "orphan"}

VARIABLES calls,  \* caller -> where it stands and what it was told
          conns,  \* place -> its connection
          stored  \* <<caller, place>>: the writes that are durable
clientVars == <<calls, conns, stored>>

Script(c) == IF Kind(c) = "tx" THEN <<"begin", "write", "write", "commit">>
             ELSE IF Kind(c) = "auto" THEN <<"auto">> ELSE <<"select">>
Pool(c) == IF Kind(c) = "read" THEN "read" ELSE "state"

(* A connection: who holds it, what stands on it in order, the writes of   *)
(* the transaction open on it, and whether the network still carries it.   *)
Fresh == [holder |-> Nil, sent |-> << >>, open |-> Nil, silent |-> FALSE, heard |-> FALSE, broken |-> FALSE]
Statement(c, verb, n) == [by |-> c, verb |-> verb, n |-> n]

ClientInit == /\ calls = [c \in Callers |-> [at |-> "waiting", step |-> 0, told |-> Nil]]
              /\ conns = [k \in Slots |-> Fresh]
              /\ stored = {}

Tell(c, what) == [calls EXCEPT ![c] = [at |-> "done", step |-> calls[c].step, told |-> what]]

(***************************************************************************)
(* Who may start, and the wait for a connection                            *)
(***************************************************************************)
Ready(c) == Gated(c) => calls[Boot].told = "ok"
NeverReady(c) == Gated(c) /\ calls[Boot].told \notin {Nil, "ok"}

Start(c) == /\ calls[c].at = "waiting" /\ Ready(c)
            /\ calls' = [calls EXCEPT ![c].at = "connecting"]
            /\ UNCHANGED <<conns, stored>>

\* The bootstrap failed: its promise rejects every caller that waits for it.
FailsReady(c) == /\ calls[c].at = "waiting" /\ NeverReady(c)
                 /\ calls' = Tell(c, "failed")
                 /\ UNCHANGED <<conns, stored>>

\* A read whose deadline has passed sends nothing.
TooLate(c) == /\ calls[c].at = "waiting" /\ Kind(c) = "read" /\ Binding(c)
              /\ calls' = Tell(c, "deadline")
              /\ UNCHANGED <<conns, stored>>

\* A read may be told its deadline while it waits for a connection: the pool is
\* not asked to forget it, and sends the statement when it has one.  (The bounds
\* of the process come after that of the pool, so nothing else ends here.)
LeavesQueue(c) == /\ calls[c].at = "connecting" /\ Kind(c) = "read" /\ Binding(c)
                  /\ calls' = [calls EXCEPT ![c] = [at |-> "left", step |-> 0, told |-> "deadline"]]
                  /\ UNCHANGED <<conns, stored>>

Wanted(c) == calls[c].at \in {"connecting", "left"}
Unheld(k) == conns[k].holder = Nil
Send(k, statement) == [conns EXCEPT ![k].sent = Append(@, statement)]

Connects(c, k) ==
  /\ Wanted(c) /\ PoolOf(k) = Pool(c) /\ Unheld(k)
  /\ calls' = [calls EXCEPT ![c] = [at |-> IF calls[c].at = "left" THEN "done" ELSE "running",
                                    step |-> 1, told |-> calls[c].told]]
  /\ conns' = [Send(k, Statement(c, Script(c)[1], 1)) EXCEPT ![k].holder = c]
  /\ UNCHANGED stored

\* No place within the bound of the pool, or no server to connect to.
ConnectFails(c) ==
  /\ Wanted(c)
  /\ "connect" \in Faults \/ \A k \in Slots : PoolOf(k) = Pool(c) => ~Unheld(k)
  /\ calls' = Tell(c, IF calls[c].at = "left" THEN calls[c].told ELSE "failed")
  /\ UNCHANGED <<conns, stored>>

(***************************************************************************)
(* What the server does with the statement at the head of a connection     *)
(***************************************************************************)
Head1(k) == conns[k].sent[1]
HasHead(k) == conns[k].sent # << >>

\* A row of the other stores refers to the registry of providers.
Orphan(s) == Gated(s.by) /\ \E n \in 2..3 : <<Boot, n>> \notin stored

\* The connection and the durable writes after the statement ran.
Executed(k, s) ==
  CASE s.verb = "begin"    -> [open |-> {}, keep |-> {}]
    [] s.verb = "write"    -> [open |-> conns[k].open \cup {<<s.by, s.n>>}, keep |-> {}]
    [] s.verb = "commit"   -> [open |-> Nil, keep |-> conns[k].open]
    [] s.verb = "rollback" -> [open |-> Nil, keep |-> {}]
    [] s.verb = "auto"     -> IF conns[k].open = Nil
                              THEN [open |-> Nil, keep |-> {<<s.by, s.n>>}]
                              ELSE [open |-> conns[k].open \cup {<<s.by, s.n>>}, keep |-> {}]
    [] OTHER               -> [open |-> conns[k].open, keep |-> {}]

\* Does the caller still wait for this statement?
Awaits(c, s) == /\ c = s.by /\ calls[c].step = s.n
                /\ calls[c].at = (IF s.verb = "rollback" THEN "rolling" ELSE "running")

\* The connection goes back to its pool: as it stands, or not at all.
KeptByCaller(conn) == conn
Released(conn) == IF conn.broken THEN Fresh ELSE [conn EXCEPT !.holder = Nil]
IsTransaction(c) == Kind(c) = "tx"
RollsBackNever(c) == FALSE
RollsBack(c) == IsTransaction(c)

\* What comes after a statement that failed: a transaction rolls back on the
\* same connection, a single statement takes its connection out of the pool.
AfterFailure(c, k, conn, what) ==
  IF calls[c].at = "rolling"
  THEN /\ calls' = [calls EXCEPT ![c].at = "done"]
       /\ conns' = [conns EXCEPT ![k] = Released(conn)]
  ELSE IF RollsBack(c) /\ ~conn.broken
  THEN /\ calls' = [calls EXCEPT ![c] = [at |-> "rolling", step |-> 5, told |-> what]]
       /\ conns' = [conns EXCEPT ![k] = [conn EXCEPT !.sent = Append(@, Statement(c, "rollback", 5))]]
  ELSE /\ calls' = Tell(c, what)
       /\ conns' = [conns EXCEPT ![k] = IF IsTransaction(c) THEN Released(conn) ELSE Fresh]

\* What comes after a statement that was answered: the next one, a refusal
\* of the body, or the end.
AfterAnswer(k, s, conn) ==
  LET c == s.by IN
  IF s.verb = "rollback"
  THEN /\ calls' = [calls EXCEPT ![c].at = "done"]
       /\ conns' = [conns EXCEPT ![k] = Released(conn)]
  ELSE IF s.n = Len(Script(c))
  THEN /\ calls' = Tell(c, "ok")
       /\ conns' = [conns EXCEPT ![k] = Released(conn)]
  ELSE IF Refuses(c) /\ s.n = 2 THEN AfterFailure(c, k, conn, "refused")
  ELSE /\ calls' = [calls EXCEPT ![c].step = @ + 1]
       /\ conns' = [conns EXCEPT ![k] = [conn EXCEPT !.sent = Append(@, Statement(c, Script(c)[s.n + 1], s.n + 1))]]

\* The answer of a statement nobody waits for any more.  When it is that of a
\* single statement, the pool takes its connection back, or out: "back".
Unheeded(k, s, conn, back) ==
  /\ UNCHANGED calls
  /\ conns' = [conns EXCEPT ![k] = IF conn.holder = s.by /\ calls[s.by].at = "done" THEN back ELSE conn]

Answers(k) ==
  /\ HasHead(k) /\ ~conns[k].silent /\ ~Orphan(Head1(k))
  /\ LET s == Head1(k)
         ran == IF conns[k].heard THEN [open |-> conns[k].open, keep |-> {}] ELSE Executed(k, s)
         conn == [conns[k] EXCEPT !.sent = Tail(@), !.open = ran.open, !.heard = FALSE]
     IN /\ stored' = stored \cup ran.keep
        /\ IF Awaits(s.by, s) THEN AfterAnswer(k, s, conn) ELSE Unheeded(k, s, conn, Released(conn))

\* The server refuses the statement (a COMMIT too), or cancels it at its own bound.
Rejects(k) ==
  /\ HasHead(k) /\ ~conns[k].silent /\ ~conns[k].heard
  /\ Head1(k).verb # "rollback"
  /\ "rejects" \in Faults \/ Orphan(Head1(k))
  /\ LET s == Head1(k)
         conn == [conns[k] EXCEPT !.sent = Tail(@)]
     IN IF Awaits(s.by, s)
        THEN AfterFailure(s.by, k, conn, IF Orphan(s) THEN "orphan" ELSE "rejected")
        ELSE Unheeded(k, s, conn, Fresh)
  /\ UNCHANGED stored

(***************************************************************************)
(* Silence, and the bound of the process on one statement                  *)
(***************************************************************************)
FallsSilent(k) == /\ "silent" \in Faults /\ ~conns[k].silent /\ HasHead(k)
                  /\ conns' = [conns EXCEPT ![k].silent = TRUE]
                  /\ UNCHANGED <<calls, stored>>

\* What was sent before the silence may have arrived.
RunsUnheard(k) == /\ conns[k].silent /\ HasHead(k) /\ ~conns[k].heard /\ ~Orphan(Head1(k))
                  /\ LET ran == Executed(k, Head1(k))
                     IN /\ stored' = stored \cup ran.keep
                        /\ conns' = [conns EXCEPT ![k].open = ran.open, ![k].heard = TRUE]
                  /\ UNCHANGED calls

SpeaksAgain(k) == /\ conns[k].silent
                  /\ conns' = [conns EXCEPT ![k].silent = FALSE]
                  /\ UNCHANGED <<calls, stored>>

\* The connection ends: the server rolls back what is open, what stands on
\* it is rejected, and the pool makes another when its place is wanted.
Breaks(k) ==
  /\ "breaks" \in Faults /\ HasHead(k)
  /\ LET c == conns[k].holder IN
     IF c # Nil /\ calls[c].at \in {"running", "rolling"}
     THEN AfterFailure(c, k, [Fresh EXCEPT !.holder = c, !.broken = TRUE], "failed")
     ELSE conns' = [conns EXCEPT ![k] = Fresh] /\ UNCHANGED calls
  /\ UNCHANGED stored

\* The wait ends; the statement goes on.  It can only last that long when the
\* connection is silent, or when earlier statements stand before it.
BoundedByDeadline(c, k) == Binding(c)
Bounded(c, k) == conns[k].silent \/ Len(conns[k].sent) > 1 \/ Binding(c)
TimesOut(c, k) ==
  /\ calls[c].at \in {"running", "rolling"} /\ conns[k].holder = c /\ Bounded(c, k)
  /\ IF IsTransaction(c) THEN AfterFailure(c, k, conns[k], "timeout")
     ELSE calls' = Tell(c, IF Binding(c) THEN "deadline" ELSE "timeout") /\ UNCHANGED conns
  /\ UNCHANGED stored

\* The timer of a statement fires once it is due, however often a silence
\* comes and goes; so does that of the pool, and the server ends what it
\* hears.  A silence need not end.
ClientFairness ==
  /\ \A c \in Callers : WF_clientVars(Start(c) \/ FailsReady(c) \/ ConnectFails(c) \/ \E k \in Slots : Connects(c, k))
  /\ \A k \in Slots : SF_clientVars(Answers(k) \/ Rejects(k) \/ \E c \in Callers : TimesOut(c, k))

(***************************************************************************)
(* Properties                                                              *)
(***************************************************************************)
Durable(c) == {n \in 1..4 : <<c, n>> \in stored}

\* A transaction is stored whole or not at all, a refusal of its body stores
\* nothing, whoever was told ok finds what was written, and no write of the
\* other stores overtakes the registry of providers it refers to.
AllOrNothing == \A c \in Callers :
  /\ Kind(c) = "tx" => Durable(c) \in {{}, {2, 3}}
  /\ Kind(c) = "tx" /\ calls[c].told = "refused" => Durable(c) = {}
  /\ Kind(c) # "read" /\ calls[c].told = "ok" => Durable(c) # {}
  /\ calls[c].told # "orphan"

\* A place of a pool is held by a call that goes on, or by a statement that
\* has no answer yet.
PlacesAccounted == \A k \in Slots : LET c == conns[k].holder IN
  c # Nil => calls[c].at # "done" \/ \E i \in 1..Len(conns[k].sent) : conns[k].sent[i].by = c

\* Every call that starts is told an end, whatever falls silent: from some
\* moment on nobody is between its start and its end.
CallsReturn == <>[](\A c \in Callers : calls[c].at \in {"waiting", "done"})

\* pg/state-client.ts:453-454: "a rollback failure on an already-broken
\* connection must never mask the ORIGINAL error ... and the connection is
\* discarded anyway".
DiscardedAnyway == \A k \in Slots : Unheld(k) => conns[k].sent = << >>
=============================================================================
