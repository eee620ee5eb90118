------------------------------ MODULE HttpRequest ------------------------------
(****************************************************************************)
(* A request of the HTTP transport from its headers to its row in           *)
(* request_trace: perimeter, authentication, body and session               *)
(* (transport/http.ts), then the boundary of a tool (tools/registry.ts).    *)
(* Every await is a step, and a request stands at one of them.  It reads    *)
(* the tables of AccessStore while commands change them.  The process may   *)
(* die: by itself, and because an error of the lookup or of the body is     *)
(* caught by nobody (`handle` runs detached).  Admission to a session is    *)
(* seen from here by its outcome (SessionManager), and so is billing        *)
(* (ClientBilling).  A handler returns an outcome and does not throw.       *)
(****************************************************************************)
EXTENDS AccessStore

CONSTANTS
  Requests,
  Req,         \* request -> [kind, bearer, host, origin, session, clientId]
  AllowedHosts, AllowedOrigins, BoundPort,   \* the perimeter; hosts as <<name, port>>
  Faults       \* subset of {"db", "process"}: what may break

Kinds == {"open", "call", "other"}
\* What the join of api_tokens and users answers.
Seen == [token : Issuers, status : {"active", "revoked"}, expires : 0 .. MaxTime \cup {None},
         user : Emails, standing : {"active", "suspended"}]

ASSUME RequestAssumption ==
  /\ \A r \in Requests :
       /\ Req[r].kind \in Kinds
       /\ Req[r].bearer \in Issuers \cup {None}
       /\ Req[r].session \in Requests \cup {None}
  /\ None \notin Seen

VARIABLES
  at,          \* request -> where it stands
  receivedAt,  \* request -> when it was pinned
  row,         \* request -> what the lookup saw of its token, or None
  sessions,    \* requests whose session is open
  openedBy,    \* session -> the principal that opened it, or None
  outcome,     \* request -> "answer", "refused", or None while there is none
  money,       \* request -> "reserved", "settled", "refunded", or None
  reply,       \* request -> its response, or None; "closed" by the response timeout
  traces,      \* rows of request_trace: [by, principal, clientId, receivedAt, outcome]
  missed,      \* requests whose row was not written: the append failed (history)
  barred       \* requests whose token was no good when they came (history)

reqVars == <<at, receivedAt, row, sessions, openedBy, outcome, money, reply, traces,
             missed, barred>>
vars == <<now, dbVars, pc, reqVars>>

RequestsInit(coming) ==
  /\ at = [r \in Requests |-> IF r \in coming THEN "idle" ELSE "done"]
  /\ receivedAt = [r \in Requests |-> 0]
  /\ row = [r \in Requests |-> None]
  /\ sessions = {}
  /\ openedBy = [r \in Requests |-> None]
  /\ outcome = [r \in Requests |-> None]
  /\ money = [r \in Requests |-> None]
  /\ reply = [r \in Requests |-> None]
  /\ traces = {} /\ missed = {} /\ barred = {}

Init == AccessInit /\ RequestsInit(Requests)

--------------------------------------------------------------------------------
(* The perimeter and the token *)

\* normalizeHost: a port that is not stated is the one bound.
NormalHost(h) == <<h[1], IF h[2] = None THEN BoundPort ELSE h[2]>>

\* perimeterRefusal: an origin may be absent, a host may not.
Inside(r) ==
  /\ Req[r].host # None
  /\ NormalHost(Req[r].host) \in {NormalHost(h) : h \in AllowedHosts}
  /\ Req[r].origin = None \/ Req[r].origin \in AllowedOrigins

LookedUp(t) ==
  IF t = None \/ tokens[t] = None THEN None
  ELSE [token |-> t, status |-> tokens[t].status, expires |-> tokens[t].expires,
        user |-> tokens[t].user, standing |-> users[tokens[t].user].status]

\* classifyToken, at the instant its row has come back.
Valid(seen, t) ==
  /\ seen # None
  /\ seen.status # "revoked"
  /\ seen.expires # None => seen.expires > t
  /\ seen.standing # "suspended"

Moves(r, to) == at' = [at EXCEPT ![r] = to]
Kept == UNCHANGED <<now, dbVars, pc>>
Others == UNCHANGED <<receivedAt, row, sessions, openedBy, outcome, money, traces, missed, barred>>

Replies(r, what) ==
  /\ Moves(r, "done")
  /\ reply' = [reply EXCEPT ![r] = IF @ = None THEN what ELSE @]

\* The path is the transport's own; elsewhere is 404 and not modelled as a request of it.
Receives(r) ==
  /\ at[r] = "idle"
  /\ receivedAt' = [receivedAt EXCEPT ![r] = now]
  /\ barred' = IF LookedUp(Req[r].bearer) = None \/ Valid(LookedUp(Req[r].bearer), now)
                THEN barred ELSE barred \cup {r}
  /\ Moves(r, CASE ~Inside(r) -> "rejected"
                [] Inside(r) /\ Req[r].bearer = None -> "unauthorized"
                [] OTHER -> "lookup")
  /\ Kept /\ UNCHANGED <<row, sessions, openedBy, outcome, money, reply, traces, missed>>

\* The event is emitted before the response; when that fails the response lacks its id.
Refuses(r) ==
  /\ \/ at[r] = "rejected" /\ Replies(r, 403)
     \/ at[r] = "unauthorized" /\ Replies(r, 401)
  /\ Kept /\ Others

\* Mutant: a request of an open session is taken for the one who opened it.
LooksUpOnce(r) ==
  /\ at[r] = "lookup"
  /\ row' = [row EXCEPT ![r] = IF Req[r].session \in sessions THEN row[Req[r].session]
                               ELSE LookedUp(Req[r].bearer)]
  /\ Moves(r, "verdict")
  /\ Kept /\ UNCHANGED <<receivedAt, sessions, openedBy, outcome, money, reply, traces, missed, barred>>

\* Every request asks the database.
LooksUp(r) ==
  /\ at[r] = "lookup"
  /\ row' = [row EXCEPT ![r] = LookedUp(Req[r].bearer)]
  /\ Moves(r, "verdict")
  /\ Kept /\ UNCHANGED <<receivedAt, sessions, openedBy, outcome, money, reply, traces, missed, barred>>

Classifies(r) ==
  /\ at[r] = "verdict"
  /\ Moves(r, IF Valid(row[r], now) THEN "body" ELSE "unauthorized")
  /\ Kept /\ Others /\ UNCHANGED reply

--------------------------------------------------------------------------------
(* The body and the session *)

\* The method is checked before the body is read, and nothing is changed by either.
Dispatches(r) ==
  /\ at[r] = "body"
  /\ \/ Replies(r, 405) \/ Replies(r, 413)
     \/ Req[r].session # None /\ Req[r].session \notin sessions /\ Replies(r, 404)
     \/ /\ Req[r].session # None /\ Req[r].session \in sessions
        /\ Moves(r, IF Req[r].kind = "call" THEN "profile" ELSE "answering")
        /\ UNCHANGED reply
     \/ Req[r].session = None /\ Req[r].kind # "open" /\ Replies(r, 400)
     \/ Req[r].session = None /\ Req[r].kind = "open" /\ Replies(r, 503)
  /\ Kept /\ Others

Opens(r) ==
  /\ at[r] = "body" /\ Req[r].session = None /\ Req[r].kind = "open"
  /\ sessions' = sessions \cup {r}
  /\ openedBy' = [openedBy EXCEPT ![r] = row[r].token]
  /\ Moves(r, "answering")
  /\ Kept
  /\ UNCHANGED <<receivedAt, row, outcome, money, reply, traces, missed, barred>>

\* What is no call of a tool: answered by the SDK.
Answers(r) == at[r] = "answering" /\ Replies(r, 200) /\ Kept /\ Others

SessionGoes(s) ==
  /\ s \in sessions
  /\ sessions' = sessions \ {s}
  /\ Kept /\ UNCHANGED <<at, receivedAt, row, openedBy, outcome, money, reply, traces, missed, barred>>

\* withResponseTimeout: the client is cut off and the call goes on.
ResponseTimesOut(r) ==
  /\ at[r] \in {"answering", "profile", "reserve", "handler", "closing", "refusal", "trace"}
  /\ reply[r] = None
  /\ reply' = [reply EXCEPT ![r] = "closed"]
  /\ Kept /\ Others /\ UNCHANGED at

--------------------------------------------------------------------------------
(* The boundary of a tool *)

\* The profile is read first; a call aborted by then is not begun.
ReadsProfile(r) ==
  /\ at[r] = "profile"
  /\ \/ Moves(r, "reserve") /\ UNCHANGED reply
     \/ "db" \in Faults /\ Replies(r, "error")
     \/ Replies(r, "aborted")
  /\ Kept /\ Others

Becomes(r, what, where) ==
  /\ outcome' = [outcome EXCEPT ![r] = what]
  /\ Moves(r, where)

\* An error of the ledger is a refusal, and so is its own answer.
Reserves(r) ==
  /\ at[r] = "reserve"
  /\ \/ money' = [money EXCEPT ![r] = "reserved"] /\ Moves(r, "handler") /\ UNCHANGED outcome
     \/ Becomes(r, "refused", "refusal") /\ UNCHANGED money
  /\ Kept /\ UNCHANGED <<receivedAt, row, sessions, openedBy, reply, traces, missed, barred>>

Handles(r) ==
  /\ at[r] = "handler"
  /\ \E what \in {"answer", "refused"} : Becomes(r, what, "closing")
  /\ Kept /\ UNCHANGED <<receivedAt, row, sessions, openedBy, money, reply, traces, missed, barred>>

\* settle or refund; when it fails the row stays open and the call is served all the same.
Closes(r) ==
  /\ at[r] = "closing"
  /\ Moves(r, IF outcome[r] = "answer" THEN "trace" ELSE "refusal")
  /\ \/ money' = [money EXCEPT ![r] = IF outcome[r] = "answer" THEN "settled" ELSE "refunded"]
     \/ "db" \in Faults /\ UNCHANGED money
  /\ Kept /\ UNCHANGED <<receivedAt, row, sessions, openedBy, outcome, reply, traces, missed, barred>>

EmitsRefusal(r) ==
  /\ at[r] = "refusal"
  /\ Moves(r, "trace")
  /\ Kept /\ Others /\ UNCHANGED reply

Key(t) == <<t.principal, t.clientId, t.receivedAt>>

\* An id the client did not give is the row's own.
TraceOf(r) ==
  [by |-> r, principal |-> row[r].token, user |-> row[r].user,
   clientId |-> IF Req[r].clientId = None THEN r ELSE Req[r].clientId,
   receivedAt |-> receivedAt[r], outcome |-> outcome[r]]

\* Mutant: the row is stamped with the session's principal.
TracesOpener(r) ==
  /\ at[r] = "trace"
  /\ \/ traces' = traces \cup {[TraceOf(r) EXCEPT !.principal = openedBy[Req[r].session]]}
        /\ UNCHANGED missed
     \/ "db" \in Faults /\ missed' = missed \cup {r} /\ UNCHANGED traces
  /\ Replies(r, outcome[r])
  /\ Kept /\ UNCHANGED <<receivedAt, row, sessions, openedBy, outcome, money, barred>>

\* append: a repeat of (principal, client id, received at) is not written.
Appended(record) ==
  IF Key(record) \in {Key(t) : t \in traces} THEN traces ELSE traces \cup {record}

\* withTrace: a failure is told on stderr only, and the response is served either way.
Traces(r) ==
  /\ at[r] = "trace"
  /\ \/ traces' = Appended(TraceOf(r)) /\ UNCHANGED missed
     \/ "db" \in Faults /\ missed' = missed \cup {r} /\ UNCHANGED traces
  /\ Replies(r, outcome[r])
  /\ Kept /\ UNCHANGED <<receivedAt, row, sessions, openedBy, outcome, money, barred>>

--------------------------------------------------------------------------------
(* The process *)

Ends == /\ at' = [r \in Requests |-> IF at[r] \in {"idle", "done"} THEN at[r] ELSE "lost"]
        /\ sessions' = {}
        /\ Kept /\ UNCHANGED <<receivedAt, row, openedBy, outcome, money, reply, traces, missed, barred>>

ProcessDies == "process" \in Faults /\ Ends

\* The database fails under a lookup, or a client breaks off in its body.
Unhandled(r) ==
  /\ (at[r] = "lookup" /\ "db" \in Faults) \/ at[r] = "body"
  /\ Ends

Handle(r) ==
  \/ Receives(r) \/ Refuses(r) \/ LooksUp(r) \/ Classifies(r)
  \/ Dispatches(r) \/ Opens(r) \/ Answers(r) \/ SessionGoes(r) \/ ResponseTimesOut(r)
  \/ ReadsProfile(r) \/ Reserves(r) \/ Handles(r) \/ Closes(r) \/ EmitsRefusal(r) \/ Traces(r)
  \/ Unhandled(r)

Tick ==
  /\ now < MaxTime
  /\ now' = now + 1
  /\ UNCHANGED <<dbVars, pc, reqVars>>

Next ==
  \/ \E c \in Commands : Command(c) /\ UNCHANGED reqVars
  \/ Suspends /\ UNCHANGED reqVars
  \/ \E r \in Requests : Handle(r)
  \/ ProcessDies
  \/ Tick

Spec == Init /\ [][Next]_vars

--------------------------------------------------------------------------------
(* Properties *)

Beyond == {"body", "answering", "profile", "reserve", "handler", "closing", "refusal", "trace"}

\* transport/http, index.ts authenticate (R-15.6, AC-26): a request that came when its token was
\* revoked or expired or its user suspended gets no further than 401, in whatever session it
\* comes and whoever opened that, and so does one whose token was never issued; and one
\* outside the perimeter gets no further than 403.
RevokedIsRefused ==
  \A r \in Requests :
    at[r] # "idle" /\ (r \in barred \/ LookedUp(Req[r].bearer) = None \/ ~Inside(r)) =>
      /\ at[r] \notin Beyond
      /\ outcome[r] = None /\ money[r] = None
      /\ reply[r] \in {None, 401, 403}

\* tools/registry withTrace (R-27): every call whose tool ran to its end and was answered has
\* one row, of its own token and of the instant it came; it lacks one only where the table
\* refused or an earlier call of the token had the same id at the same instant; nothing else
\* has a row, so that the rows are no more than the calls.
TracedOnce ==
  /\ \A t \in traces :
       /\ t.principal = Req[t.by].bearer /\ t.receivedAt = receivedAt[t.by]
       /\ t.outcome = outcome[t.by] /\ at[t.by] = "done"
       /\ \A s \in traces : s = t \/ (s.by # t.by /\ Key(s) # Key(t))
  /\ \A r \in Requests :
       at[r] = "done" /\ outcome[r] # None /\ r \notin missed =>
         \E t \in traces : Key(t) = Key(TraceOf(r))
================================================================================
