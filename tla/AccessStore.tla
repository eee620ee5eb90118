------------------------------ MODULE AccessStore ------------------------------
(****************************************************************************)
(* Users, tokens and the journal of what administrators did: the tables     *)
(* `users`, `api_tokens` and `access_audit`, and the commands that write    *)
(* them (admin/cli.ts over auth/user-store.ts and auth/token-store.ts).     *)
(* A command is a process of its own; each await of it is a step, and a     *)
(* transaction is one step.  Nothing deletes a user or a token.  A user is  *)
(* named by its email, which is unique, and a token by the command that     *)
(* issued it.                                                               *)
(****************************************************************************)
EXTENDS Integers, FiniteSets

CONSTANTS
  Commands,
  Argv,        \* command -> [do, actor, ...]; see Argument
  Emails,
  Secrets,     \* tokens that can be minted
  PrefixOf,    \* secret -> its prefix
  Migrated,    \* email -> [role, status] or None: the user of migration 003, an admin
  MaxTime,     \* last instant of the clock (bound)
  None

Issuers == {c \in Commands : Argv[c].do = "issue"}

\* `malformed` also stands for a profile that does not exist.
Argument ==
  [do : {"add"}, actor : Emails \cup {None}, email : Emails, role : {"admin", "user", "owner"}]
    \cup [do : {"issue"}, actor : Emails, user : Emails, supplied : Secrets \cup {None},
          malformed : BOOLEAN, expires : 0 .. MaxTime \cup {None}]
    \cup [do : {"revoke"}, actor : Emails, token : Commands]

User == [role : {"admin", "user"}, status : {"active", "suspended"}]
Token == [user : Emails, prefix : {PrefixOf[s] : s \in Secrets},
          status : {"active", "revoked"}, expires : 0 .. MaxTime \cup {None}]

ASSUME AccessAssumption ==
  /\ \A c \in Commands : Argv[c] \in Argument
  /\ None \notin Commands \cup Emails \cup Secrets \cup User \cup Token
  /\ Migrated \in [Emails -> User \cup {None}]
  /\ \A u \in Emails : Migrated[u] # None => Migrated[u].role = "admin"

VARIABLES
  now,
  users,       \* email -> [role, status], or None
  tokens,      \* issuing command -> [user, prefix, status, expires], or None
  audit,       \* rows of access_audit: [by, action, target, actor]
  pc           \* command -> what it does next, "done" or "failed"

dbVars == <<users, tokens, audit>>

AccessInit ==
  /\ now = 0
  /\ users = Migrated
  /\ tokens = [c \in Issuers |-> None]
  /\ audit = {[by |-> None, action |-> "user.create", target |-> u, actor |-> None] :
                u \in {v \in Emails : Migrated[v] # None}}
  /\ pc = [c \in Commands |-> "idle"]

Users == {u \in Emails : users[u] # None}
Issued == {t \in Issuers : tokens[t] # None}

Journal(c, action, target, actor) ==
  audit' = audit \cup {[by |-> c, action |-> action, target |-> target, actor |-> actor]}

Goes(c, where) == pc' = [pc EXCEPT ![c] = where]

\* A usage error, or an error that ends the command; what it has committed stays.
Fails(c) == Goes(c, "failed") /\ UNCHANGED dbVars

--------------------------------------------------------------------------------
(* user:add *)

Bootstraps(c) == Argv[c].actor = None /\ Users = {}

\* Without an actor the table is read; only an empty one needs none, and gets an admin.
Adds(c) ==
  /\ pc[c] = "idle" /\ Argv[c].do = "add"
  /\ \/ Bootstraps(c) /\ Argv[c].role = "admin" /\ Goes(c, "create") /\ UNCHANGED dbVars
     \/ Argv[c].actor # None /\ Argv[c].role # "owner" /\ Goes(c, "actor") /\ UNCHANGED dbVars
     \/ Argv[c].role = "owner" /\ Fails(c)
     \/ Argv[c].actor = None /\ ~(Bootstraps(c) /\ Argv[c].role = "admin") /\ Fails(c)

ResolvesUser(c) ==
  /\ pc[c] = "idle" /\ Argv[c].do = "issue"
  /\ \/ Argv[c].user \in Users /\ Goes(c, "actor") /\ UNCHANGED dbVars
     \/ Argv[c].user \notin Users /\ Fails(c)

\* The last thing looked up before the write: any user may act.
ResolvesActor(c) ==
  /\ pc[c] = "actor" \/ (pc[c] = "idle" /\ Argv[c].do = "revoke")
  /\ \/ /\ Argv[c].actor \in Users
        /\ Goes(c, CASE Argv[c].do = "add" -> "create"
                     [] Argv[c].do = "issue" -> "issue"
                     [] OTHER -> "revoke")
        /\ UNCHANGED dbVars
     \/ Argv[c].actor \notin Users /\ Fails(c)

CreatesUser(c) ==
  /\ pc[c] = "create"
  /\ \/ /\ Argv[c].email \notin Users
        /\ users' = [users EXCEPT ![Argv[c].email] =
                       [role |-> Argv[c].role, status |-> "active"]]
        /\ Goes(c, "audit")
        /\ UNCHANGED <<tokens, audit>>
     \/ Argv[c].email \in Users /\ Fails(c)

\* The row of the journal is a statement of its own.
AuditsUser(c) ==
  /\ pc[c] = "audit"
  /\ Journal(c, "user.create", Argv[c].email, Argv[c].actor)
  /\ Goes(c, "done")
  /\ UNCHANGED <<users, tokens>>

--------------------------------------------------------------------------------
(* token:issue and token:revoke *)

TokenPrefixes == {tokens[t].prefix : t \in Issued}

\* An attempt whose prefix is taken is repeated unless the token was supplied, so what is
\* written has a free prefix; the attempts are limited, and may run out while any is taken.
Issues(c) ==
  /\ pc[c] = "issue"
  /\ \/ /\ ~Argv[c].malformed
        /\ Argv[c].expires # None => Argv[c].expires > now
        /\ \E s \in IF Argv[c].supplied = None THEN Secrets ELSE {Argv[c].supplied} :
             /\ PrefixOf[s] \notin TokenPrefixes
             /\ tokens' = [tokens EXCEPT ![c] =
                             [user |-> Argv[c].user, prefix |-> PrefixOf[s],
                              status |-> "active", expires |-> Argv[c].expires]]
        /\ Journal(c, "token.issue", c, Argv[c].actor)
        /\ Goes(c, "done")
        /\ UNCHANGED users
     \/ /\ \/ Argv[c].malformed
           \/ Argv[c].expires # None /\ Argv[c].expires <= now
           \/ \E s \in IF Argv[c].supplied = None THEN Secrets ELSE {Argv[c].supplied} :
                PrefixOf[s] \in TokenPrefixes
        /\ Fails(c)

\* Mutant: the update does not ask for the status.
RevocableAgain(t) == t \in Issued

Revocable(t) == t \in Issued /\ tokens[t].status = "active"

Revokes(c) ==
  /\ pc[c] = "revoke"
  /\ \/ /\ Revocable(Argv[c].token)
        /\ tokens' = [tokens EXCEPT ![Argv[c].token].status = "revoked"]
        /\ Journal(c, "token.revoke", Argv[c].token, Argv[c].actor)
        /\ Goes(c, "done")
        /\ UNCHANGED users
     \/ ~Revocable(Argv[c].token) /\ Fails(c)

\* The database cannot be reached, or the process is stopped.
Breaks(c) == pc[c] \notin {"done", "failed"} /\ Fails(c)

Command(c) ==
  /\ \/ Adds(c) \/ ResolvesUser(c) \/ ResolvesActor(c) \/ CreatesUser(c) \/ AuditsUser(c)
     \/ Issues(c) \/ Revokes(c) \/ Breaks(c)
  /\ UNCHANGED now

\* An operator with access to the database suspends a user; no command does.
Suspends ==
  /\ \E u \in Users :
       /\ users[u].status = "active"
       /\ users' = [users EXCEPT ![u].status = "suspended"]
  /\ UNCHANGED <<now, tokens, audit, pc>>

--------------------------------------------------------------------------------
(* Properties *)

RowsOf(action, target) == {a \in audit : a.action = action /\ a.target = target}

\* token-store, user-store (R-15.7, AC-27): whatever commands race or break off, a token has
\* exactly one row for its issue and, once revoked, exactly one for its end; a user lacks its
\* row only where its command has broken off or is about to write it; no row is about what
\* was not done; and only an admin was ever made without an actor, so that a table with users
\* in it always has somebody who can act.
JournalKept ==
  /\ \A t \in Issuers :
       /\ Cardinality(RowsOf("token.issue", t)) = IF t \in Issued THEN 1 ELSE 0
       /\ Cardinality(RowsOf("token.revoke", t)) =
            IF t \in Issued /\ tokens[t].status = "revoked" THEN 1 ELSE 0
       /\ \A a \in RowsOf("token.issue", t) \cup RowsOf("token.revoke", t) : a.actor \in Users
  /\ \A u \in Emails :
       /\ Cardinality(RowsOf("user.create", u)) <= IF u \in Users THEN 1 ELSE 0
       /\ u \in Users /\ RowsOf("user.create", u) = {} =>
            \E c \in Commands :
              Argv[c].do = "add" /\ Argv[c].email = u /\ pc[c] \in {"audit", "failed"}
       /\ \A a \in RowsOf("user.create", u) : a.actor = None => users[u].role = "admin"
  /\ Users # {} => \E u \in Users : users[u].role = "admin"
================================================================================
