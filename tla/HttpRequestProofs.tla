-------------------------- MODULE HttpRequestProofs --------------------------
(****************************************************************************)
(* Proofs about AccessStore and HttpRequest: for any commands, requests and *)
(* secrets, the journal tells what was done, a token that was no good is    *)
(* refused in whatever session it comes, and the trace has each served call *)
(* once.                                                                    *)
(****************************************************************************)
EXTENDS HttpRequest, FiniteSetTheorems, TLAPS

--------------------------------------------------------------------------------
(* The tables and the commands *)

Places == {"idle", "actor", "create", "audit", "issue", "revoke", "done", "failed"}

AccessTypeOK ==
  /\ now \in Nat
  /\ users \in [Emails -> User \cup {None}]
  /\ tokens \in [Issuers -> Token \cup {None}]
  /\ pc \in [Commands -> Places]
  /\ \A t \in Issued : tokens[t].user \in Users

\* What a command has found out by the time it writes.
CommandsInformed ==
  \A c \in Commands :
    /\ pc[c] = "actor" => Argv[c].do \in {"add", "issue"}
    /\ Argv[c].do = "add" /\ pc[c] = "actor" => Argv[c].actor # None /\ Argv[c].role # "owner"
    /\ pc[c] = "create" =>
         /\ Argv[c].do = "add" /\ Argv[c].role # "owner"
         /\ IF Argv[c].actor = None THEN Argv[c].role = "admin" ELSE Users # {}
    /\ pc[c] = "issue" => Argv[c].do = "issue" /\ Argv[c].actor \in Users
    /\ Argv[c].do = "issue" /\ pc[c] \in {"actor", "issue"} => Argv[c].user \in Users
    /\ pc[c] = "revoke" => Argv[c].do = "revoke" /\ Argv[c].actor \in Users
    /\ c \in Issuers /\ pc[c] # "done" => c \notin Issued

IssueRow(t) == [by |-> t, action |-> "token.issue", target |-> t, actor |-> Argv[t].actor]

TokensJournalled ==
  \A t \in Issuers :
    /\ IF t \in Issued THEN RowsOf("token.issue", t) = {IssueRow(t)} /\ Argv[t].actor \in Users
                       ELSE RowsOf("token.issue", t) = {}
    /\ IF t \in Issued /\ tokens[t].status = "revoked"
         THEN \E a : RowsOf("token.revoke", t) = {a} /\ a.actor \in Users
         ELSE RowsOf("token.revoke", t) = {}

\* A command that has created its user and not yet journalled it.
Owes(c, u) == Argv[c].do = "add" /\ Argv[c].email = u /\ pc[c] = "audit"

UsersJournalled ==
  /\ \A u \in Emails :
       /\ u \notin Users => RowsOf("user.create", u) = {}
       /\ RowsOf("user.create", u) # {} =>
            \E a : RowsOf("user.create", u) = {a} /\ (a.actor = None => users[u].role = "admin")
       /\ u \in Users /\ RowsOf("user.create", u) = {} =>
            \E c \in Commands :
              Argv[c].do = "add" /\ Argv[c].email = u /\ pc[c] \in {"audit", "failed"}
  /\ \A c \in Commands :
       pc[c] = "audit" =>
         /\ Owes(c, Argv[c].email) /\ Argv[c].email \in Users
         /\ RowsOf("user.create", Argv[c].email) = {}
         /\ Argv[c].actor = None => users[Argv[c].email].role = "admin"
         /\ \A d \in Commands \ {c} : ~Owes(d, Argv[c].email)

SomebodyActs == Users # {} => \E u \in Users : users[u].role = "admin"

AccessInv ==
  /\ AccessTypeOK /\ CommandsInformed
  /\ TokensJournalled /\ UsersJournalled /\ SomebodyActs

\* What every step of a command or an operator leaves true.
TablesGrow ==
  /\ Users \subseteq Users' /\ Issued \subseteq Issued'
  /\ \A u \in Users :
       /\ users'[u].role = users[u].role
       /\ users[u].status = "suspended" => users'[u].status = "suspended"
  /\ \A t \in Issued :
       /\ tokens'[t].user = tokens[t].user /\ tokens'[t].expires = tokens[t].expires
       /\ tokens[t].status = "revoked" => tokens'[t].status = "revoked"

LEMMA AccessStart == AccessInit => AccessInv
<1> SUFFICES ASSUME AccessInit PROVE AccessInv
  OBVIOUS
<1> USE AccessAssumption
<1>1. AccessTypeOK
  BY DEF AccessInit, AccessTypeOK, Places, Issued, Users
<1>2. CommandsInformed
  BY DEF AccessInit, CommandsInformed, Issued
<1>3. TokensJournalled
  BY DEF AccessInit, TokensJournalled, Issued, RowsOf
<1>4. \A u \in Emails :
        RowsOf("user.create", u) =
          IF u \in Users THEN {[by |-> None, action |-> "user.create", target |-> u, actor |-> None]}
                         ELSE {}
  BY DEF AccessInit, RowsOf, Users
<1>5. UsersJournalled
  BY <1>4 DEF AccessInit, UsersJournalled, Users
<1>6. SomebodyActs
  BY DEF AccessInit, SomebodyActs, Users
<1>7. QED
  BY <1>1, <1>2, <1>3, <1>5, <1>6 DEF AccessInv

\* A row in the journal.
LEMMA Journalled ==
  ASSUME NEW c, NEW action, NEW target, NEW actor, Journal(c, action, target, actor)
  PROVE  \A a, t : RowsOf(a, t)' = RowsOf(a, t) \cup
           IF a = action /\ t = target
             THEN {[by |-> c, action |-> action, target |-> target, actor |-> actor]} ELSE {}
  BY DEF Journal, RowsOf

\* A step that writes none of the three tables, of a command c that goes on.
LEMMA OnlyGoes ==
  ASSUME AccessInv, NEW c \in Commands, NEW where \in {"actor", "create", "issue", "revoke", "failed"},
         pc[c] \notin {"done", "failed"}, pc[c] = "audit" => where = "failed",
         UNCHANGED <<now, dbVars>>, Goes(c, where),
         where = "actor" => Argv[c].do \in {"add", "issue"},
         where = "actor" /\ Argv[c].do = "add" => Argv[c].actor # None /\ Argv[c].role # "owner",
         where = "create" =>
           /\ Argv[c].do = "add" /\ Argv[c].role # "owner"
           /\ IF Argv[c].actor = None THEN Argv[c].role = "admin" ELSE Users # {},
         where = "issue" => Argv[c].do = "issue" /\ Argv[c].actor \in Users,
         Argv[c].do = "issue" /\ where \in {"actor", "issue"} => Argv[c].user \in Users,
         where = "revoke" => Argv[c].do = "revoke" /\ Argv[c].actor \in Users
  PROVE  AccessInv' /\ TablesGrow
<1>1. /\ now' = now /\ users' = users /\ tokens' = tokens /\ audit' = audit
      /\ Users' = Users /\ Issued' = Issued
      /\ \A a, t : RowsOf(a, t)' = RowsOf(a, t)
  BY DEF dbVars, Users, Issued, RowsOf
<1>2. /\ pc' \in [Commands -> Places]
      /\ pc'[c] = where /\ \A d \in Commands \ {c} : pc'[d] = pc[d]
  BY DEF AccessInv, AccessTypeOK, Places, Goes
<1>3. AccessTypeOK'
  BY <1>1, <1>2 DEF AccessInv, AccessTypeOK, Places
<1>4. CommandsInformed'
  BY <1>1, <1>2 DEF AccessInv, CommandsInformed
<1>5. TokensJournalled'
  BY <1>1 DEF AccessInv, TokensJournalled, IssueRow
<1>6. UsersJournalled'
  <2>1. \A d \in Commands : \A u : Owes(d, u)' => Owes(d, u)
    BY <1>2 DEF Owes
  <2>2. \A d \in Commands : pc'[d] = "audit" => pc[d] = "audit" /\ d # c
    BY <1>2
  <2>3. \A d \in Commands : pc[d] \in {"audit", "failed"} => pc'[d] \in {"audit", "failed"}
    BY <1>2
  <2>4. QED
    BY <1>1, <2>1, <2>2, <2>3 DEF AccessInv, UsersJournalled, Owes
<1>7. SomebodyActs'
  BY <1>1 DEF AccessInv, SomebodyActs
<1>8. TablesGrow
  BY <1>1 DEF TablesGrow
<1>9. QED
  BY <1>3, <1>4, <1>5, <1>6, <1>7, <1>8 DEF AccessInv

LEMMA Created ==
  ASSUME AccessInv, NEW c \in Commands, CreatesUser(c), Argv[c].email \notin Users, now' = now
  PROVE  AccessInv' /\ TablesGrow
<1> DEFINE e == Argv[c].email
           new == [role |-> Argv[c].role, status |-> "active"]
<1>1. /\ pc[c] = "create" /\ users' = [users EXCEPT ![e] = new]
      /\ tokens' = tokens /\ audit' = audit /\ pc' = [pc EXCEPT ![c] = "audit"]
  BY DEF CreatesUser, Fails, Goes
<1>2. Argv[c].do = "add" /\ Argv[c].role # "owner"
  BY <1>1 DEF AccessInv, CommandsInformed
<1>3. e \in Emails /\ new \in User /\ new # None /\ new.role = Argv[c].role
  BY <1>2, AccessAssumption DEF Argument, User
<1>4. /\ users' \in [Emails -> User \cup {None}]
      /\ users'[e] = new /\ \A u \in Users : users'[u] = users[u]
      /\ Users' = Users \cup {e} /\ Issued' = Issued
      /\ \A a, t : RowsOf(a, t)' = RowsOf(a, t)
  BY <1>1, <1>3 DEF AccessInv, AccessTypeOK, Places, Users, Issued, RowsOf
<1>5. /\ pc' \in [Commands -> Places]
      /\ pc'[c] = "audit" /\ \A d \in Commands \ {c} : pc'[d] = pc[d]
  BY <1>1 DEF AccessInv, AccessTypeOK, Places
<1>6. AccessTypeOK'
  BY <1>1, <1>4, <1>5 DEF AccessInv, AccessTypeOK, Places
<1>7. CommandsInformed'
  BY <1>1, <1>2, <1>4, <1>5 DEF AccessInv, CommandsInformed
<1>8. TokensJournalled'
  BY <1>1, <1>4 DEF AccessInv, TokensJournalled, IssueRow
<1>9. UsersJournalled'
  <2>1. RowsOf("user.create", e) = {}
    BY <1>3 DEF AccessInv, UsersJournalled
  <2>2. \A d \in Commands \ {c} : ~Owes(d, e)'
    BY <1>5 DEF AccessInv, UsersJournalled, Owes
  <2>3. \A d \in Commands \ {c} : pc[d] = "audit" => Argv[d].email # e
    BY DEF AccessInv, UsersJournalled
  <2>4. Argv[c].actor = None => Argv[c].role = "admin"
    BY <1>1 DEF AccessInv, CommandsInformed
  <2>5. ASSUME NEW u \in Emails
        PROVE /\ u \notin Users' => RowsOf("user.create", u)' = {}
              /\ RowsOf("user.create", u)' # {} =>
                   \E a : RowsOf("user.create", u)' = {a} /\ (a.actor = None => users'[u].role = "admin")
              /\ u \in Users' /\ RowsOf("user.create", u)' = {} =>
                   \E d \in Commands :
                     Argv[d].do = "add" /\ Argv[d].email = u /\ pc'[d] \in {"audit", "failed"}
    <3>1. CASE u = e
      BY <1>2, <1>4, <1>5, <2>1, <3>1
    <3>2. CASE u # e
      <4>1. /\ u \notin Users => RowsOf("user.create", u) = {}
            /\ RowsOf("user.create", u) # {} =>
                 \E a : RowsOf("user.create", u) = {a} /\ (a.actor = None => users[u].role = "admin")
            /\ u \in Users /\ RowsOf("user.create", u) = {} =>
                 \E d \in Commands :
                   Argv[d].do = "add" /\ Argv[d].email = u /\ pc[d] \in {"audit", "failed"}
        BY DEF AccessInv, UsersJournalled
      <4>2. /\ u \in Users => users'[u] = users[u]
            /\ RowsOf("user.create", u)' = RowsOf("user.create", u)
        BY <1>4
      <4>3. \A d \in Commands : pc[d] \in {"audit", "failed"} => pc'[d] \in {"audit", "failed"}
        BY <1>5
      <4>4. u \in Users' <=> u \in Users
        BY <1>4, <3>2
      <4>5. QED
        BY <4>1, <4>2, <4>3, <4>4
    <3>3. QED
      BY <3>1, <3>2
  <2>6. ASSUME NEW d \in Commands, pc'[d] = "audit"
        PROVE /\ Owes(d, Argv[d].email)' /\ Argv[d].email \in Users'
              /\ RowsOf("user.create", Argv[d].email)' = {}
              /\ Argv[d].actor = None => users'[Argv[d].email].role = "admin"
              /\ \A o \in Commands \ {d} : ~Owes(o, Argv[d].email)'
    <3>1. CASE d = c
      BY <1>2, <1>3, <1>4, <1>5, <2>1, <2>2, <2>4, <3>1 DEF Owes
    <3>2. CASE d # c
      <4>1. /\ pc[d] = "audit" /\ Owes(d, Argv[d].email) /\ Argv[d].email \in Users
            /\ RowsOf("user.create", Argv[d].email) = {}
            /\ Argv[d].actor = None => users[Argv[d].email].role = "admin"
            /\ \A o \in Commands \ {d} : ~Owes(o, Argv[d].email)
        BY <1>5, <2>6, <3>2 DEF AccessInv, UsersJournalled
      <4>2. ~Owes(c, Argv[d].email)'
        BY <2>3, <4>1, <3>2 DEF Owes
      <4>3. \A o \in Commands \ {d} : ~Owes(o, Argv[d].email)'
        BY <1>5, <4>1, <4>2 DEF Owes
      <4>4. QED
        BY <1>4, <1>5, <2>6, <4>1, <4>3 DEF Owes
    <3>3. QED
      BY <3>1, <3>2
  <2>7. QED
    BY <2>5, <2>6 DEF UsersJournalled
<1>10. SomebodyActs'
  <2>1. IF Argv[c].actor = None THEN Argv[c].role = "admin" ELSE Users # {}
    BY <1>1 DEF AccessInv, CommandsInformed
  <2>2. CASE Users = {}
    BY <1>3, <1>4, <2>1, <2>2 DEF SomebodyActs
  <2>3. CASE Users # {}
    BY <1>4, <2>3 DEF AccessInv, SomebodyActs
  <2>4. QED
    BY <2>2, <2>3
<1>11. TablesGrow
  BY <1>1, <1>4 DEF TablesGrow
<1>12. QED
  BY <1>6, <1>7, <1>8, <1>9, <1>10, <1>11 DEF AccessInv

LEMMA Audited ==
  ASSUME AccessInv, NEW c \in Commands, AuditsUser(c), now' = now
  PROVE  AccessInv' /\ TablesGrow
<1> DEFINE e == Argv[c].email
           new == [by |-> c, action |-> "user.create", target |-> e, actor |-> Argv[c].actor]
<1>1. /\ pc[c] = "audit" /\ users' = users /\ tokens' = tokens
      /\ pc' = [pc EXCEPT ![c] = "done"]
      /\ Users' = Users /\ Issued' = Issued
  BY DEF AuditsUser, Goes, Users, Issued
<1>2. \A a, t : RowsOf(a, t)' = RowsOf(a, t) \cup IF a = "user.create" /\ t = e THEN {new} ELSE {}
  BY Journalled DEF AuditsUser
<1>3. /\ pc' \in [Commands -> Places]
      /\ pc'[c] = "done" /\ \A d \in Commands \ {c} : pc'[d] = pc[d]
  BY <1>1 DEF AccessInv, AccessTypeOK, Places
<1>4. AccessTypeOK'
  BY <1>1, <1>3 DEF AccessInv, AccessTypeOK, Places
<1>5. CommandsInformed'
  BY <1>1, <1>3 DEF AccessInv, CommandsInformed
<1>6. TokensJournalled'
  BY <1>1, <1>2 DEF AccessInv, TokensJournalled, IssueRow
<1>7. UsersJournalled'
  <2>1. /\ Owes(c, e) /\ e \in Users /\ RowsOf("user.create", e) = {}
        /\ Argv[c].actor = None => users[e].role = "admin"
        /\ \A d \in Commands \ {c} : ~Owes(d, e)
    BY <1>1 DEF AccessInv, UsersJournalled
  <2>2. e \in Emails
    BY <2>1 DEF Users
  <2>3. ASSUME NEW u \in Emails
        PROVE /\ u \notin Users' => RowsOf("user.create", u)' = {}
              /\ RowsOf("user.create", u)' # {} =>
                   \E a : RowsOf("user.create", u)' = {a} /\ (a.actor = None => users'[u].role = "admin")
              /\ u \in Users' /\ RowsOf("user.create", u)' = {} =>
                   \E d \in Commands :
                     Argv[d].do = "add" /\ Argv[d].email = u /\ pc'[d] \in {"audit", "failed"}
    <3>1. CASE u = e
      <4>1. RowsOf("user.create", u)' = {new}
        BY <1>2, <2>1, <3>1
      <4>2. new.actor = Argv[c].actor
        OBVIOUS
      <4> HIDE DEF new
      <4>3. QED
        BY <1>1, <2>1, <3>1, <4>1, <4>2
    <3>2. CASE u # e
      <4>1. RowsOf("user.create", u)' = RowsOf("user.create", u)
        BY <1>2, <3>2
      <4>2. \A d \in Commands :
              Argv[d].do = "add" /\ Argv[d].email = u /\ pc[d] \in {"audit", "failed"} =>
                pc'[d] \in {"audit", "failed"}
        BY <1>3, <3>2
      <4>3. QED
        BY <1>1, <4>1, <4>2 DEF AccessInv, UsersJournalled
    <3>3. QED
      BY <3>1, <3>2
  <2>4. ASSUME NEW d \in Commands, pc'[d] = "audit"
        PROVE /\ Owes(d, Argv[d].email)' /\ Argv[d].email \in Users'
              /\ RowsOf("user.create", Argv[d].email)' = {}
              /\ Argv[d].actor = None => users'[Argv[d].email].role = "admin"
              /\ \A o \in Commands \ {d} : ~Owes(o, Argv[d].email)'
    <3>1. d # c /\ pc[d] = "audit"
      BY <1>3, <2>4
    <3>2. /\ Owes(d, Argv[d].email) /\ Argv[d].email \in Users
          /\ RowsOf("user.create", Argv[d].email) = {}
          /\ Argv[d].actor = None => users[Argv[d].email].role = "admin"
          /\ \A o \in Commands \ {d} : ~Owes(o, Argv[d].email)
      BY <3>1 DEF AccessInv, UsersJournalled
    <3>3. Argv[d].email # e
      BY <2>1, <3>1, <3>2
    <3>4. \A o \in Commands \ {d} : ~Owes(o, Argv[d].email)'
      BY <1>3, <3>2 DEF Owes
    <3>5. QED
      BY <1>1, <1>2, <2>4, <3>2, <3>3, <3>4 DEF Owes
  <2>5. QED
    BY <2>3, <2>4 DEF UsersJournalled
<1>8. SomebodyActs'
  BY <1>1 DEF AccessInv, SomebodyActs
<1>9. TablesGrow
  BY <1>1 DEF TablesGrow
<1>10. QED
  BY <1>4, <1>5, <1>6, <1>7, <1>8, <1>9 DEF AccessInv

\* What a step about a token leaves true of the users.
LEMMA UsersApart ==
  ASSUME AccessInv, NEW c \in Commands, pc[c] \notin {"audit", "failed"}, users' = users,
         pc' = [pc EXCEPT ![c] = "done"],
         \A u : RowsOf("user.create", u)' = RowsOf("user.create", u)
  PROVE  /\ Users' = Users /\ UsersJournalled' /\ SomebodyActs'
         /\ pc' \in [Commands -> Places]
         /\ pc'[c] = "done" /\ \A d \in Commands \ {c} : pc'[d] = pc[d]
<1>1. Users' = Users
  BY DEF Users
<1>2. /\ pc' \in [Commands -> Places]
      /\ pc'[c] = "done" /\ \A d \in Commands \ {c} : pc'[d] = pc[d]
  BY DEF AccessInv, AccessTypeOK, Places
<1>3. UsersJournalled'
  <2>1. \A d \in Commands : \A u : Owes(d, u)' => Owes(d, u)
    BY <1>2 DEF Owes
  <2>2. \A d \in Commands : pc'[d] = "audit" => pc[d] = "audit" /\ d # c
    BY <1>2
  <2>3. \A d \in Commands : pc[d] \in {"audit", "failed"} => pc'[d] \in {"audit", "failed"}
    BY <1>2
  <2>4. QED
    BY <1>1, <2>1, <2>2, <2>3 DEF AccessInv, UsersJournalled, Owes
<1>4. SomebodyActs'
  BY <1>1 DEF AccessInv, SomebodyActs
<1>5. QED
  BY <1>1, <1>2, <1>3, <1>4

LEMMA IssuedToken ==
  ASSUME AccessInv, NEW c \in Commands, Issues(c), ~Fails(c), now' = now
  PROVE  AccessInv' /\ TablesGrow
<1>1. PICK s \in IF Argv[c].supplied = None THEN Secrets ELSE {Argv[c].supplied} :
        tokens' = [tokens EXCEPT ![c] =
                     [user |-> Argv[c].user, prefix |-> PrefixOf[s],
                      status |-> "active", expires |-> Argv[c].expires]]
  BY DEF Issues
<1> DEFINE new == [user |-> Argv[c].user, prefix |-> PrefixOf[s],
                   status |-> "active", expires |-> Argv[c].expires]
<1>2. /\ pc[c] = "issue" /\ users' = users /\ pc' = [pc EXCEPT ![c] = "done"]
      /\ Journal(c, "token.issue", c, Argv[c].actor)
  BY DEF Issues, Goes
<1>3. \A a, t : RowsOf(a, t)' =
        RowsOf(a, t) \cup IF a = "token.issue" /\ t = c THEN {IssueRow(c)} ELSE {}
  BY <1>2, Journalled DEF IssueRow
<1>4. /\ c \in Issuers /\ Argv[c].user \in Users /\ Argv[c].actor \in Users /\ c \notin Issued
      /\ Argv[c].do = "issue"
  BY <1>2 DEF AccessInv, CommandsInformed, Issuers
<1>5. new \in Token /\ new # None
  <2>1. /\ Argv[c].user \in Emails /\ Argv[c].supplied \in Secrets \cup {None}
        /\ Argv[c].expires \in 0 .. MaxTime \cup {None}
    BY <1>4, AccessAssumption DEF Argument
  <2>2. s \in Secrets
    BY <1>1, <2>1
  <2>3. QED
    BY <2>1, <2>2, AccessAssumption DEF Token
<1>6. /\ Users' = Users /\ UsersJournalled' /\ SomebodyActs'
      /\ pc' \in [Commands -> Places]
      /\ pc'[c] = "done" /\ \A d \in Commands \ {c} : pc'[d] = pc[d]
  BY <1>2, <1>3, UsersApart
<1>7. /\ tokens' \in [Issuers -> Token \cup {None}]
      /\ tokens'[c] = new /\ \A t \in Issuers \ {c} : tokens'[t] = tokens[t]
      /\ Issued' = Issued \cup {c}
  BY <1>1, <1>4, <1>5 DEF AccessInv, AccessTypeOK, Places, Issued
<1>8. new.user = Argv[c].user /\ new.status = "active"
  OBVIOUS
<1> HIDE DEF new
<1>9. AccessTypeOK'
  <2>1. ASSUME NEW t \in Issued' PROVE tokens'[t].user \in Users'
    <3>1. CASE t = c
      BY <1>4, <1>6, <1>7, <1>8, <3>1
    <3>2. CASE t # c
      <4>1. t \in Issued /\ tokens'[t] = tokens[t]
        BY <1>7, <2>1, <3>2 DEF Issued
      <4>2. QED
        BY <1>6, <4>1 DEF AccessInv, AccessTypeOK, Places
    <3>3. QED
      BY <3>1, <3>2
  <2>2. now' \in Nat /\ users' \in [Emails -> User \cup {None}]
    BY <1>2 DEF AccessInv, AccessTypeOK, Places
  <2>3. QED
    BY <1>6, <1>7, <2>1, <2>2 DEF AccessTypeOK, Places
<1>10. CommandsInformed'
  BY <1>6, <1>7 DEF AccessInv, CommandsInformed
<1>11. TokensJournalled'
  <2>1. ASSUME NEW t \in Issuers
        PROVE /\ IF t \in Issued' THEN RowsOf("token.issue", t)' = {IssueRow(t)} /\ Argv[t].actor \in Users'
                                  ELSE RowsOf("token.issue", t)' = {}
              /\ IF t \in Issued' /\ tokens'[t].status = "revoked"
                   THEN \E a : RowsOf("token.revoke", t)' = {a} /\ a.actor \in Users'
                   ELSE RowsOf("token.revoke", t)' = {}
    <3>1. CASE t = c
      BY <1>3, <1>4, <1>6, <1>7, <1>8, <3>1 DEF AccessInv, TokensJournalled
    <3>2. CASE t # c
      BY <1>3, <1>6, <1>7, <3>2 DEF AccessInv, TokensJournalled
    <3>3. QED
      BY <3>1, <3>2
  <2>2. QED
    BY <2>1 DEF TokensJournalled, IssueRow
<1>12. TablesGrow
  BY <1>2, <1>4, <1>6, <1>7 DEF TablesGrow, Issued
<1>13. QED
  BY <1>6, <1>9, <1>10, <1>11, <1>12 DEF AccessInv

LEMMA RevokedToken ==
  ASSUME AccessInv, NEW c \in Commands, Revokes(c), ~Fails(c), now' = now
  PROVE  AccessInv' /\ TablesGrow
<1> DEFINE v == Argv[c].token
<1>1. /\ pc[c] = "revoke" /\ users' = users /\ pc' = [pc EXCEPT ![c] = "done"]
      /\ Journal(c, "token.revoke", v, Argv[c].actor)
      /\ v \in Issued /\ tokens[v].status = "active"
      /\ tokens' = [tokens EXCEPT ![v].status = "revoked"]
  BY DEF Revokes, Goes, Revocable
<1> DEFINE new == [by |-> c, action |-> "token.revoke", target |-> v, actor |-> Argv[c].actor]
<1>2. \A a, t : RowsOf(a, t)' = RowsOf(a, t) \cup IF a = "token.revoke" /\ t = v THEN {new} ELSE {}
  BY <1>1, Journalled
<1>3. Argv[c].do = "revoke" /\ Argv[c].actor \in Users
  BY <1>1 DEF AccessInv, CommandsInformed
<1>4. c \notin Issuers
  BY <1>3 DEF Issuers
<1>5. /\ Users' = Users /\ UsersJournalled' /\ SomebodyActs'
      /\ pc' \in [Commands -> Places]
      /\ pc'[c] = "done" /\ \A d \in Commands \ {c} : pc'[d] = pc[d]
  BY <1>1, <1>2, UsersApart
<1>6. v \in Issuers /\ tokens[v] \in Token /\ tokens[v] # None
  BY <1>1 DEF AccessInv, AccessTypeOK, Places, Issued
<1> DEFINE gone == [tokens[v] EXCEPT !.status = "revoked"]
<1>7. /\ gone \in Token /\ gone # None /\ gone.status = "revoked"
      /\ gone.user = tokens[v].user /\ gone.expires = tokens[v].expires
  BY <1>6, AccessAssumption DEF Token
<1>8. tokens' = [tokens EXCEPT ![v] = gone]
  BY <1>1
<1> HIDE DEF gone
<1>9. /\ tokens' \in [Issuers -> Token \cup {None}]
      /\ tokens'[v] = gone /\ \A t \in Issuers \ {v} : tokens'[t] = tokens[t]
      /\ Issued' = Issued
  BY <1>6, <1>7, <1>8 DEF AccessInv, AccessTypeOK, Places, Issued
<1>10. AccessTypeOK'
  BY <1>1, <1>5, <1>7, <1>9 DEF AccessInv, AccessTypeOK, Places, Issued
<1>11. CommandsInformed'
  BY <1>4, <1>5, <1>9 DEF AccessInv, CommandsInformed
<1>12. TokensJournalled'
  <2>1. new.actor = Argv[c].actor
    OBVIOUS
  <2> HIDE DEF new
  <2>2. ASSUME NEW t \in Issuers
        PROVE /\ IF t \in Issued' THEN RowsOf("token.issue", t)' = {IssueRow(t)} /\ Argv[t].actor \in Users'
                                  ELSE RowsOf("token.issue", t)' = {}
              /\ IF t \in Issued' /\ tokens'[t].status = "revoked"
                   THEN \E a : RowsOf("token.revoke", t)' = {a} /\ a.actor \in Users'
                   ELSE RowsOf("token.revoke", t)' = {}
    <3>1. CASE t = v
      <4>1. RowsOf("token.revoke", t) = {} /\ RowsOf("token.issue", t) = {IssueRow(t)} /\ Argv[t].actor \in Users
        BY <1>1, <3>1 DEF AccessInv, TokensJournalled
      <4>2. RowsOf("token.revoke", t)' = {new}
        BY <1>2, <3>1, <4>1
      <4>3. RowsOf("token.issue", t)' = {IssueRow(t)}
        BY <1>2, <4>1
      <4>4. QED
        BY <1>1, <1>3, <1>5, <1>7, <1>9, <2>1, <3>1, <4>1, <4>2, <4>3
    <3>2. CASE t # v
      BY <1>2, <1>5, <1>9, <3>2 DEF AccessInv, TokensJournalled
    <3>3. QED
      BY <3>1, <3>2
  <2>3. QED
    BY <2>2 DEF TokensJournalled, IssueRow
<1>13. TablesGrow
  BY <1>1, <1>5, <1>7, <1>9 DEF TablesGrow, Issued
<1>14. QED
  BY <1>5, <1>10, <1>11, <1>12, <1>13 DEF AccessInv

LEMMA Suspended ==
  ASSUME AccessInv, Suspends
  PROVE  AccessInv' /\ TablesGrow
<1>1. PICK u \in Users : /\ users[u].status = "active"
                         /\ users' = [users EXCEPT ![u].status = "suspended"]
  BY DEF Suspends
<1>2. /\ now' = now /\ tokens' = tokens /\ audit' = audit /\ pc' = pc
      /\ Issued' = Issued /\ \A a, t : RowsOf(a, t)' = RowsOf(a, t)
  BY DEF Suspends, Issued, RowsOf
<1> DEFINE gone == [users[u] EXCEPT !.status = "suspended"]
<1>3. u \in Emails /\ users[u] \in User /\ users[u] # None
  BY <1>1 DEF AccessInv, AccessTypeOK, Places, Users
<1>4. gone \in User /\ gone # None /\ gone.status = "suspended" /\ gone.role = users[u].role
  BY <1>3, AccessAssumption DEF User
<1>5. users' = [users EXCEPT ![u] = gone]
  BY <1>1
<1> HIDE DEF gone
<1>6. /\ users' \in [Emails -> User \cup {None}]
      /\ users'[u] = gone /\ \A w \in Emails \ {u} : users'[w] = users[w]
      /\ Users' = Users
      /\ \A w \in Users : users'[w].role = users[w].role
  BY <1>3, <1>4, <1>5 DEF AccessInv, AccessTypeOK, Places, Users
<1>7. AccessTypeOK'
  BY <1>2, <1>6 DEF AccessInv, AccessTypeOK, Places
<1>8. CommandsInformed'
  BY <1>2, <1>6 DEF AccessInv, CommandsInformed
<1>9. TokensJournalled'
  BY <1>2, <1>6 DEF AccessInv, TokensJournalled, IssueRow
<1>10. UsersJournalled'
  <2>1. \A d, w : Owes(d, w)' = Owes(d, w)
    BY <1>2 DEF Owes
  <2>2. \A w \in Emails : RowsOf("user.create", w) # {} => w \in Users
    BY DEF AccessInv, UsersJournalled
  <2>3. ASSUME NEW w \in Emails, users[w].role = "admin", w \in Users
        PROVE  users'[w].role = "admin"
    BY <1>6, <2>3
  <2>4. QED
    BY <1>2, <1>6, <2>1, <2>2, <2>3 DEF AccessInv, UsersJournalled
<1>11. SomebodyActs'
  BY <1>6 DEF AccessInv, SomebodyActs
<1>12. TablesGrow
  <2>1. \A w \in Users : users[w].status = "suspended" => users'[w].status = "suspended"
    BY <1>4, <1>6 DEF Users
  <2>2. QED
    BY <1>2, <1>6, <2>1 DEF TablesGrow
<1>13. QED
  BY <1>7, <1>8, <1>9, <1>10, <1>11, <1>12 DEF AccessInv

\* Every step of a command: it fails, goes on, or writes.
LEMMA CommandStep ==
  ASSUME AccessInv, NEW c \in Commands, Command(c)
  PROVE  AccessInv' /\ TablesGrow
<1>1. now' = now
  BY DEF Command
<1>2. CASE pc[c] \notin {"done", "failed"} /\ Fails(c)
  <2>1. UNCHANGED <<now, dbVars>> /\ Goes(c, "failed")
    BY <1>1, <1>2 DEF Fails, dbVars
  <2>2. QED
    BY <1>2, <2>1, OnlyGoes
<1>3. CASE Adds(c) /\ ~Fails(c)
  <2>1. pc[c] = "idle" /\ Argv[c].do = "add"
    BY <1>3 DEF Adds
  <2>2. CASE Bootstraps(c) /\ Argv[c].role = "admin" /\ Goes(c, "create") /\ UNCHANGED dbVars
    <3>1. Argv[c].actor = None /\ Argv[c].role # "owner" /\ UNCHANGED <<now, dbVars>>
      BY <1>1, <2>2 DEF Bootstraps, dbVars
    <3>2. QED
      BY <2>1, <2>2, <3>1, OnlyGoes
  <2>3. CASE Argv[c].actor # None /\ Argv[c].role # "owner" /\ Goes(c, "actor") /\ UNCHANGED dbVars
    <3>1. UNCHANGED <<now, dbVars>>
      BY <1>1, <2>3 DEF dbVars
    <3>2. QED
      BY <2>1, <2>3, <3>1, OnlyGoes
  <2>4. QED
    BY <1>3, <2>2, <2>3 DEF Adds
<1>4. CASE ResolvesUser(c) /\ ~Fails(c)
  <2>1. /\ pc[c] = "idle" /\ Argv[c].do = "issue" /\ Argv[c].user \in Users
        /\ Goes(c, "actor") /\ UNCHANGED <<now, dbVars>>
    BY <1>1, <1>4 DEF ResolvesUser, dbVars
  <2>2. QED
    BY <2>1, OnlyGoes
<1>5. CASE ResolvesActor(c) /\ ~Fails(c)
  <2>1. /\ pc[c] = "actor" \/ (pc[c] = "idle" /\ Argv[c].do = "revoke")
        /\ Argv[c].actor \in Users /\ UNCHANGED <<now, dbVars>>
    BY <1>1, <1>5 DEF ResolvesActor, dbVars
  <2>2. /\ pc[c] = "actor" => Argv[c].do \in {"add", "issue"}
        /\ Argv[c].do = "add" /\ pc[c] = "actor" => Argv[c].actor # None /\ Argv[c].role # "owner"
        /\ Argv[c].do = "issue" /\ pc[c] = "actor" => Argv[c].user \in Users
    BY DEF AccessInv, CommandsInformed
  <2>3. CASE Argv[c].do = "add"
    <3>1. Goes(c, "create")
      BY <1>5, <2>3 DEF ResolvesActor
    <3>2. Argv[c].actor # None /\ Argv[c].role # "owner" /\ Users # {}
      BY <2>1, <2>2, <2>3
    <3>3. QED
      BY <2>1, <2>3, <3>1, <3>2, OnlyGoes
  <2>4. CASE Argv[c].do = "issue"
    <3>1. Goes(c, "issue")
      BY <1>5, <2>4 DEF ResolvesActor
    <3>2. Argv[c].user \in Users
      BY <2>1, <2>2, <2>4
    <3>3. QED
      BY <2>1, <2>4, <3>1, <3>2, OnlyGoes
  <2>5. CASE Argv[c].do = "revoke"
    <3>1. Goes(c, "revoke")
      BY <1>5, <2>5 DEF ResolvesActor
    <3>2. QED
      BY <2>1, <2>5, <3>1, OnlyGoes
  <2>6. QED
    BY <2>1, <2>2, <2>3, <2>4, <2>5
<1>6. CASE CreatesUser(c) /\ ~Fails(c)
  <2>1. Argv[c].email \notin Users
    BY <1>6 DEF CreatesUser
  <2>2. QED
    BY <1>1, <1>6, <2>1, Created
<1>7. CASE AuditsUser(c)
  BY <1>1, <1>7, Audited
<1>8. CASE Issues(c) /\ ~Fails(c)
  BY <1>1, <1>8, IssuedToken
<1>9. CASE Revokes(c) /\ ~Fails(c)
  BY <1>1, <1>9, RevokedToken
<1>10. QED
  BY <1>2, <1>3, <1>4, <1>5, <1>6, <1>7, <1>8, <1>9
     DEF Command, Adds, ResolvesUser, ResolvesActor, CreatesUser, Issues, Revokes, Breaks

LEMMA JournalFollows == AccessInv => JournalKept
<1> SUFFICES ASSUME AccessInv PROVE JournalKept
  OBVIOUS
<1>1. Cardinality({}) = 0 /\ \A a : Cardinality({a}) = 1
  BY FS_EmptySet, FS_Singleton
<1>2. ASSUME NEW t \in Issuers
      PROVE /\ Cardinality(RowsOf("token.issue", t)) = IF t \in Issued THEN 1 ELSE 0
            /\ Cardinality(RowsOf("token.revoke", t)) =
                 IF t \in Issued /\ tokens[t].status = "revoked" THEN 1 ELSE 0
            /\ \A a \in RowsOf("token.issue", t) \cup RowsOf("token.revoke", t) : a.actor \in Users
  <2>1. /\ IF t \in Issued THEN RowsOf("token.issue", t) = {IssueRow(t)} /\ Argv[t].actor \in Users
                           ELSE RowsOf("token.issue", t) = {}
        /\ IF t \in Issued /\ tokens[t].status = "revoked"
             THEN \E a : RowsOf("token.revoke", t) = {a} /\ a.actor \in Users
             ELSE RowsOf("token.revoke", t) = {}
    BY DEF AccessInv, TokensJournalled
  <2>2. IssueRow(t).actor = Argv[t].actor
    BY DEF IssueRow
  <2>3. QED
    BY <1>1, <2>1, <2>2
<1>3. ASSUME NEW u \in Emails
      PROVE /\ Cardinality(RowsOf("user.create", u)) <= IF u \in Users THEN 1 ELSE 0
            /\ u \in Users /\ RowsOf("user.create", u) = {} =>
                 \E c \in Commands :
                   Argv[c].do = "add" /\ Argv[c].email = u /\ pc[c] \in {"audit", "failed"}
            /\ \A a \in RowsOf("user.create", u) : a.actor = None => users[u].role = "admin"
  <2>1. CASE RowsOf("user.create", u) = {}
    BY <1>1, <2>1 DEF AccessInv, UsersJournalled
  <2>2. CASE RowsOf("user.create", u) # {}
    <3>1. PICK a : RowsOf("user.create", u) = {a} /\ (a.actor = None => users[u].role = "admin")
      BY <2>2 DEF AccessInv, UsersJournalled
    <3>2. u \in Users
      BY <2>2 DEF AccessInv, UsersJournalled
    <3>3. QED
      BY <1>1, <2>2, <3>1, <3>2
  <2>3. QED
    BY <2>1, <2>2
<1>4. QED
  BY <1>2, <1>3 DEF AccessInv, SomebodyActs, JournalKept

--------------------------------------------------------------------------------
(* The requests *)

Early == {"idle", "rejected", "unauthorized", "lookup", "verdict"}
Unserved == Early \cup {"body", "answering", "profile", "reserve", "handler"}
\* A request that may go further than a refusal.
Through(r) ==
  /\ Inside(r) /\ Req[r].bearer \in Issued
  /\ r \notin barred

RequestTypeOK ==
  /\ at \in [Requests -> Early \cup Beyond \cup {"done", "lost"}]
  /\ receivedAt \in [Requests -> Nat]
  /\ row \in [Requests -> Seen \cup {None}]
  /\ outcome \in [Requests -> {"answer", "refused", None}]
  /\ money \in [Requests -> {"reserved", "settled", "refunded", None}]
  /\ reply = [r \in Requests |-> reply[r]]
  /\ barred \subseteq Requests

\* A token that was no good stays so, and a row that was looked up later says it.
BarredForGood ==
  \A r \in barred :
    /\ at[r] # "idle" /\ Req[r].bearer \in Issued
    /\ ~Valid(LookedUp(Req[r].bearer), now)
    /\ at[r] = "verdict" => ~Valid(row[r], now)

\* What a request that has come this far has shown.
Shows(r) ==
  /\ at[r] \in Early => money[r] = None /\ reply[r] = None
  /\ at[r] \in Unserved => outcome[r] = None
  /\ at[r] \in {"lookup", "verdict"} => Inside(r) /\ Req[r].bearer # None
  /\ at[r] = "verdict" /\ row[r] # None => Req[r].bearer \in Issued
  /\ row[r] # None => row[r].token = Req[r].bearer
  /\ at[r] \in Beyond => row[r] # None
  /\ \/ at[r] \in Beyond \/ outcome[r] # None \/ money[r] # None
     \/ reply[r] \notin {None, 401, 403}
     => Through(r)

Shown == \A r \in Requests : Shows(r)

TraceKept ==
  /\ \A t \in traces :
       t.by \in Requests /\ t = TraceOf(t.by) /\ at[t.by] = "done" /\ row[t.by] # None
  /\ \A s, t \in traces : Key(s) = Key(t) => s = t
  /\ \A r \in Requests :
       at[r] = "done" /\ outcome[r] # None /\ r \notin missed =>
         \E t \in traces : Key(t) = Key(TraceOf(r))

Inv == AccessInv /\ RequestTypeOK /\ BarredForGood /\ Shown /\ TraceKept

\* A token is no good for ever once it is no good.
LEMMA NoGoodStays ==
  ASSUME AccessInv, AccessInv', TablesGrow, now' \in {now, now + 1},
         NEW t \in Issued, ~Valid(LookedUp(t), now)
  PROVE  ~Valid(LookedUp(t), now)'
<1>1. /\ t \in Issuers /\ tokens[t] # None /\ tokens[t] \in Token /\ t # None
      /\ tokens'[t] # None /\ tokens'[t] \in Token
      /\ tokens[t].user \in Users /\ now \in Nat /\ now' \in Nat
  BY AccessAssumption DEF AccessInv, AccessTypeOK, TablesGrow, Issued, Issuers
<1>2. /\ tokens'[t].user = tokens[t].user /\ tokens'[t].expires = tokens[t].expires
      /\ tokens[t].status = "revoked" => tokens'[t].status = "revoked"
      /\ users[tokens[t].user].status = "suspended" => users'[tokens[t].user].status = "suspended"
  BY <1>1 DEF TablesGrow
<1>3. /\ LookedUp(t).status = tokens[t].status /\ LookedUp(t).expires = tokens[t].expires
      /\ LookedUp(t).standing = users[tokens[t].user].status
  BY <1>1 DEF LookedUp
<1>4. /\ LookedUp(t)'.status = tokens'[t].status /\ LookedUp(t)'.expires = tokens'[t].expires
      /\ LookedUp(t)'.standing = users'[tokens'[t].user].status
  BY <1>1 DEF LookedUp
<1>5. LookedUp(t) # None
  <2>1. users[tokens[t].user] \in User
    BY <1>1 DEF AccessInv, AccessTypeOK, Users
  <2>2. LookedUp(t) \in Seen
    BY <1>1, <2>1 DEF LookedUp, Seen, Token, User
  <2>3. QED
    BY <2>2, RequestAssumption
<1>6. tokens[t].expires # None => tokens[t].expires \in Int
  BY <1>1 DEF Token
<1>7. CASE tokens[t].status = "revoked" \/ users[tokens[t].user].status = "suspended"
  BY <1>2, <1>4, <1>7 DEF Valid
<1>8. CASE tokens[t].expires # None /\ ~(tokens[t].expires > now)
  BY <1>1, <1>2, <1>4, <1>6, <1>8 DEF Valid
<1>9. QED
  BY <1>3, <1>5, <1>7, <1>8 DEF Valid

\* And so is a row that was looked up.
LEMMA SeenStays ==
  ASSUME now \in Nat, now' \in {now, now + 1}, NEW seen \in Seen \cup {None}, ~Valid(seen, now)
  PROVE  ~Valid(seen, now')
  BY DEF Valid, Seen

LEMMA TablesKept ==
  ASSUME Kept
  PROVE  /\ now' = now /\ users' = users /\ tokens' = tokens /\ Issued' = Issued
         /\ AccessInv => AccessInv'
<1>1. /\ now' = now /\ users' = users /\ tokens' = tokens /\ audit' = audit /\ pc' = pc
  BY DEF Kept, dbVars
<1>2. Issued' = Issued /\ Users' = Users /\ \A a, t : RowsOf(a, t)' = RowsOf(a, t)
  BY <1>1 DEF Issued, Users, RowsOf
<1>4. ASSUME AccessInv PROVE AccessInv'
  <2>1. AccessTypeOK' /\ CommandsInformed'
    BY <1>1, <1>2, <1>4 DEF AccessInv, AccessTypeOK, CommandsInformed
  <2>2. TokensJournalled'
    BY <1>1, <1>2, <1>4 DEF AccessInv, TokensJournalled, IssueRow
  <2>3. UsersJournalled'
    BY <1>1, <1>2, <1>4 DEF AccessInv, UsersJournalled, Owes
  <2>4. SomebodyActs'
    BY <1>1, <1>2, <1>4 DEF AccessInv, SomebodyActs
  <2>5. QED
    BY <2>1, <2>2, <2>3, <2>4 DEF AccessInv
<1>5. QED
  BY <1>1, <1>2, <1>4

\* A step of one request that writes no row of the trace.
LEMMA OneRequest ==
  ASSUME Inv, Kept, NEW r \in Requests, at[r] # "done",
         barred' = barred, traces' = traces, missed' = missed,
         \A q \in Requests \ {r} :
           /\ at'[q] = at[q] /\ receivedAt'[q] = receivedAt[q] /\ row'[q] = row[q]
           /\ outcome'[q] = outcome[q] /\ money'[q] = money[q] /\ reply'[q] = reply[q],
         RequestTypeOK', Shows(r)', at'[r] # "idle",
         at'[r] = "verdict" /\ r \in barred => ~Valid(row'[r], now),
         at'[r] = "done" => outcome'[r] = None
  PROVE  Inv'
<1>1. now' = now /\ users' = users /\ tokens' = tokens /\ Issued' = Issued /\ AccessInv'
  BY TablesKept DEF Inv
<1>2. BarredForGood'
  <2>1. ASSUME NEW q \in barred
        PROVE /\ at'[q] # "idle" /\ Req[q].bearer \in Issued'
              /\ ~Valid(LookedUp(Req[q].bearer), now)'
              /\ at'[q] = "verdict" => ~Valid(row'[q], now')
    <3>1. /\ q \in Requests /\ at[q] # "idle" /\ Req[q].bearer \in Issued
          /\ ~Valid(LookedUp(Req[q].bearer), now)
          /\ at[q] = "verdict" => ~Valid(row[q], now)
      BY DEF Inv, RequestTypeOK, BarredForGood
    <3>2. ~Valid(LookedUp(Req[q].bearer), now)'
      BY <1>1, <3>1 DEF Valid, LookedUp
    <3>3. at'[q] = "verdict" => ~Valid(row'[q], now')
      <4>1. CASE q = r
        BY <1>1, <4>1 DEF Valid
      <4>2. CASE q # r
        BY <1>1, <3>1, <4>2 DEF Valid
      <4>3. QED
        BY <4>1, <4>2
    <3>4. at'[q] # "idle"
      BY <3>1
    <3>5. QED
      BY <1>1, <3>1, <3>2, <3>3, <3>4
  <2>2. QED
    BY <2>1 DEF BarredForGood
<1>3. Shown'
  <2>1. ASSUME NEW q \in Requests \ {r} PROVE Shows(q)'
    <3>1. Shows(q)
      BY DEF Inv, Shown
    <3>2. QED
      BY <1>1, <3>1 DEF Shows, Through, Inside
  <2>2. QED
    BY <2>1 DEF Shown
<1>4. TraceKept'
  <2>1. \A q \in Requests \ {r} : TraceOf(q)' = TraceOf(q)
    BY DEF TraceOf
  <2>2. \A t \in traces : t.by \in Requests \ {r}
    BY DEF Inv, TraceKept
  <2>3. \A s, t : (Key(s) = Key(t))' = (Key(s) = Key(t))
    BY DEF Key
  <2>4. \A t \in traces' :
          t.by \in Requests /\ t = TraceOf(t.by)' /\ at'[t.by] = "done" /\ row'[t.by] # None
    BY <2>1, <2>2 DEF Inv, TraceKept
  <2>5. ASSUME NEW q \in Requests, at'[q] = "done", outcome'[q] # None, q \notin missed'
        PROVE \E t \in traces' : Key(t) = Key(TraceOf(q)')
    <3>1. q # r
      BY <2>5
    <3>2. PICK t \in traces : Key(t) = Key(TraceOf(q))
      BY <2>5, <3>1 DEF Inv, TraceKept
    <3>3. QED
      BY <2>1, <3>1, <3>2
  <2>6. QED
    BY <2>4, <2>5 DEF Inv, TraceKept, Key
<1>5. QED
  BY <1>1, <1>2, <1>3, <1>4 DEF Inv

\* A request goes on, and no row of the trace is written.
LEMMA GoesOn ==
  ASSUME Inv, NEW r \in Requests,
         \/ Refuses(r) \/ LooksUp(r) \/ Classifies(r) \/ Dispatches(r) \/ Opens(r) \/ Answers(r)
         \/ ResponseTimesOut(r) \/ ReadsProfile(r) \/ Reserves(r) \/ Handles(r) \/ Closes(r)
         \/ EmitsRefusal(r)
  PROVE  Inv'
<1>1. /\ Kept /\ barred' = barred /\ traces' = traces /\ missed' = missed
      /\ receivedAt' = receivedAt
  BY DEF Refuses, LooksUp, Classifies, Dispatches, Opens, Answers, ResponseTimesOut, ReadsProfile,
         Reserves, Handles, Closes, EmitsRefusal, Others
<1>2. /\ now' = now /\ users' = users /\ tokens' = tokens /\ Issued' = Issued
  BY <1>1, TablesKept
<1>3. RequestTypeOK /\ Shows(r) /\ AccessInv
  BY DEF Inv, Shown
<1>4. r \in barred => Req[r].bearer \in Issued /\ ~Valid(LookedUp(Req[r].bearer), now)
                      /\ (at[r] = "verdict" => ~Valid(row[r], now))
  BY DEF Inv, BarredForGood
<1>5. Through(r) => Through(r)'
  BY <1>1, <1>2 DEF Through, Inside
<1>6. Inside(r)' = Inside(r)
  BY DEF Inside
<1>7. CASE Refuses(r)
  <2>1. RequestTypeOK'
    BY <1>1, <1>3, <1>7 DEF Refuses, Moves, Replies, Others, RequestTypeOK, Early, Beyond
  <2>2. Shows(r)'
    BY <1>1, <1>2, <1>3, <1>4, <1>5, <1>6, <1>7
       DEF Refuses, Moves, Replies, Others, Shows, RequestTypeOK, Early, Beyond, Unserved
  <2>3. at[r] # "done" /\ at'[r] \notin {"idle", "verdict"} /\ (at'[r] = "done" => outcome'[r] = None)
    BY <1>3, <1>7 DEF Refuses, Moves, Replies, Others, Shows, RequestTypeOK, Unserved, Early
  <2>4. \A q \in Requests \ {r} :
          /\ at'[q] = at[q] /\ receivedAt'[q] = receivedAt[q] /\ row'[q] = row[q]
          /\ outcome'[q] = outcome[q] /\ money'[q] = money[q] /\ reply'[q] = reply[q]
    BY <1>1, <1>3, <1>7 DEF Refuses, Moves, Replies, Others, RequestTypeOK
  <2>5. QED
    BY <1>1, <2>1, <2>2, <2>3, <2>4, OneRequest
<1>8. CASE Answers(r)
  <2>1. RequestTypeOK'
    BY <1>1, <1>3, <1>8 DEF Answers, Moves, Replies, Others, RequestTypeOK, Early, Beyond
  <2>2. Shows(r)'
    BY <1>1, <1>2, <1>3, <1>4, <1>5, <1>6, <1>8
       DEF Answers, Moves, Replies, Others, Shows, RequestTypeOK, Early, Beyond, Unserved
  <2>3. at[r] # "done" /\ at'[r] \notin {"idle", "verdict"} /\ (at'[r] = "done" => outcome'[r] = None)
    BY <1>3, <1>8 DEF Answers, Moves, Replies, Others, Shows, RequestTypeOK, Unserved, Early
  <2>4. \A q \in Requests \ {r} :
          /\ at'[q] = at[q] /\ receivedAt'[q] = receivedAt[q] /\ row'[q] = row[q]
          /\ outcome'[q] = outcome[q] /\ money'[q] = money[q] /\ reply'[q] = reply[q]
    BY <1>1, <1>3, <1>8 DEF Answers, Moves, Replies, Others, RequestTypeOK
  <2>5. QED
    BY <1>1, <2>1, <2>2, <2>3, <2>4, OneRequest
<1>9. CASE ResponseTimesOut(r)
  <2>1. RequestTypeOK'
    BY <1>1, <1>3, <1>9 DEF ResponseTimesOut, Moves, Replies, Others, RequestTypeOK, Early, Beyond
  <2>2. Shows(r)'
    BY <1>1, <1>2, <1>3, <1>4, <1>5, <1>6, <1>9
       DEF ResponseTimesOut, Moves, Replies, Others, Shows, RequestTypeOK, Early, Beyond, Unserved
  <2>3. at[r] # "done" /\ at'[r] \notin {"idle", "verdict"} /\ (at'[r] = "done" => outcome'[r] = None)
    BY <1>3, <1>9
       DEF ResponseTimesOut, Moves, Replies, Others, Shows, RequestTypeOK, Unserved, Early
  <2>4. \A q \in Requests \ {r} :
          /\ at'[q] = at[q] /\ receivedAt'[q] = receivedAt[q] /\ row'[q] = row[q]
          /\ outcome'[q] = outcome[q] /\ money'[q] = money[q] /\ reply'[q] = reply[q]
    BY <1>1, <1>3, <1>9 DEF ResponseTimesOut, Moves, Replies, Others, RequestTypeOK
  <2>5. QED
    BY <1>1, <2>1, <2>2, <2>3, <2>4, OneRequest
<1>10. CASE ReadsProfile(r)
  <2>1. RequestTypeOK'
    BY <1>1, <1>3, <1>10 DEF ReadsProfile, Moves, Replies, Others, RequestTypeOK, Early, Beyond
  <2>2. Shows(r)'
    BY <1>1, <1>2, <1>3, <1>4, <1>5, <1>6, <1>10
       DEF ReadsProfile, Moves, Replies, Others, Shows, RequestTypeOK, Early, Beyond, Unserved
  <2>3. at[r] # "done" /\ at'[r] \notin {"idle", "verdict"} /\ (at'[r] = "done" => outcome'[r] = None)
    BY <1>3, <1>10 DEF ReadsProfile, Moves, Replies, Others, Shows, RequestTypeOK, Unserved, Early
  <2>4. \A q \in Requests \ {r} :
          /\ at'[q] = at[q] /\ receivedAt'[q] = receivedAt[q] /\ row'[q] = row[q]
          /\ outcome'[q] = outcome[q] /\ money'[q] = money[q] /\ reply'[q] = reply[q]
    BY <1>1, <1>3, <1>10 DEF ReadsProfile, Moves, Replies, Others, RequestTypeOK
  <2>5. QED
    BY <1>1, <2>1, <2>2, <2>3, <2>4, OneRequest
<1>11. CASE Reserves(r)
  <2>1. RequestTypeOK'
    BY <1>1, <1>3, <1>11
       DEF Reserves, Moves, Replies, Others, Becomes, RequestTypeOK, Early, Beyond
  <2>2. Shows(r)'
    BY <1>1, <1>2, <1>3, <1>4, <1>5, <1>6, <1>11
       DEF Reserves, Moves, Replies, Others, Becomes, Shows, RequestTypeOK, Early, Beyond,
           Unserved
  <2>3. at[r] # "done" /\ at'[r] \notin {"idle", "verdict"} /\ (at'[r] = "done" => outcome'[r] = None)
    BY <1>3, <1>11
       DEF Reserves, Moves, Replies, Others, Becomes, Shows, RequestTypeOK, Unserved, Early
  <2>4. \A q \in Requests \ {r} :
          /\ at'[q] = at[q] /\ receivedAt'[q] = receivedAt[q] /\ row'[q] = row[q]
          /\ outcome'[q] = outcome[q] /\ money'[q] = money[q] /\ reply'[q] = reply[q]
    BY <1>1, <1>3, <1>11 DEF Reserves, Moves, Replies, Others, Becomes, RequestTypeOK
  <2>5. QED
    BY <1>1, <2>1, <2>2, <2>3, <2>4, OneRequest
<1>12. CASE Handles(r)
  <2>1. RequestTypeOK'
    BY <1>1, <1>3, <1>12
       DEF Handles, Moves, Replies, Others, Becomes, RequestTypeOK, Early, Beyond
  <2>2. Shows(r)'
    BY <1>1, <1>2, <1>3, <1>4, <1>5, <1>6, <1>12
       DEF Handles, Moves, Replies, Others, Becomes, Shows, RequestTypeOK, Early, Beyond, Unserved
  <2>3. at[r] # "done" /\ at'[r] \notin {"idle", "verdict"} /\ (at'[r] = "done" => outcome'[r] = None)
    BY <1>3, <1>12
       DEF Handles, Moves, Replies, Others, Becomes, Shows, RequestTypeOK, Unserved, Early
  <2>4. \A q \in Requests \ {r} :
          /\ at'[q] = at[q] /\ receivedAt'[q] = receivedAt[q] /\ row'[q] = row[q]
          /\ outcome'[q] = outcome[q] /\ money'[q] = money[q] /\ reply'[q] = reply[q]
    BY <1>1, <1>3, <1>12 DEF Handles, Moves, Replies, Others, Becomes, RequestTypeOK
  <2>5. QED
    BY <1>1, <2>1, <2>2, <2>3, <2>4, OneRequest
<1>13. CASE Closes(r)
  <2>1. RequestTypeOK'
    BY <1>1, <1>3, <1>13 DEF Closes, Moves, Replies, Others, RequestTypeOK, Early, Beyond
  <2>2. Shows(r)'
    BY <1>1, <1>2, <1>3, <1>4, <1>5, <1>6, <1>13
       DEF Closes, Moves, Replies, Others, Shows, RequestTypeOK, Early, Beyond, Unserved
  <2>3. at[r] # "done" /\ at'[r] \notin {"idle", "verdict"} /\ (at'[r] = "done" => outcome'[r] = None)
    BY <1>3, <1>13 DEF Closes, Moves, Replies, Others, Shows, RequestTypeOK, Unserved, Early
  <2>4. \A q \in Requests \ {r} :
          /\ at'[q] = at[q] /\ receivedAt'[q] = receivedAt[q] /\ row'[q] = row[q]
          /\ outcome'[q] = outcome[q] /\ money'[q] = money[q] /\ reply'[q] = reply[q]
    BY <1>1, <1>3, <1>13 DEF Closes, Moves, Replies, Others, RequestTypeOK
  <2>5. QED
    BY <1>1, <2>1, <2>2, <2>3, <2>4, OneRequest
<1>14. CASE EmitsRefusal(r)
  <2>1. RequestTypeOK'
    BY <1>1, <1>3, <1>14 DEF EmitsRefusal, Moves, Replies, Others, RequestTypeOK, Early, Beyond
  <2>2. Shows(r)'
    BY <1>1, <1>2, <1>3, <1>4, <1>5, <1>6, <1>14
       DEF EmitsRefusal, Moves, Replies, Others, Shows, RequestTypeOK, Early, Beyond, Unserved
  <2>3. at[r] # "done" /\ at'[r] \notin {"idle", "verdict"} /\ (at'[r] = "done" => outcome'[r] = None)
    BY <1>3, <1>14 DEF EmitsRefusal, Moves, Replies, Others, Shows, RequestTypeOK, Unserved, Early
  <2>4. \A q \in Requests \ {r} :
          /\ at'[q] = at[q] /\ receivedAt'[q] = receivedAt[q] /\ row'[q] = row[q]
          /\ outcome'[q] = outcome[q] /\ money'[q] = money[q] /\ reply'[q] = reply[q]
    BY <1>1, <1>3, <1>14 DEF EmitsRefusal, Moves, Replies, Others, RequestTypeOK
  <2>5. QED
    BY <1>1, <2>1, <2>2, <2>3, <2>4, OneRequest
<1>15. CASE Classifies(r)
  <2>1. RequestTypeOK'
    BY <1>1, <1>3, <1>15 DEF Classifies, Moves, Replies, Others, RequestTypeOK, Early, Beyond
  <2>2. Shows(r)'
    <3>1. at[r] = "verdict" /\ row' = row /\ outcome' = outcome /\ money' = money /\ reply' = reply
      BY <1>15 DEF Classifies, Others
    <3>2. CASE Valid(row[r], now)
      <4>1. at'[r] = "body"
        BY <1>3, <1>15, <3>2 DEF Classifies, Moves, RequestTypeOK
      <4>2. row[r] # None
        BY <3>2 DEF Valid
      <4>3. Through(r)
        BY <1>3, <1>4, <3>1, <3>2, <4>2 DEF Shows, Through
      <4>4. QED
        BY <1>3, <1>5, <3>1, <4>1, <4>2, <4>3 DEF Shows, Early, Beyond, Unserved
    <3>3. CASE ~Valid(row[r], now)
      <4>1. at'[r] = "unauthorized"
        BY <1>3, <1>15, <3>3 DEF Classifies, Moves, RequestTypeOK
      <4>2. QED
        BY <1>3, <1>5, <3>1, <4>1 DEF Shows, Early, Beyond, Unserved
    <3>4. QED
      BY <3>2, <3>3
  <2>3. at[r] # "done" /\ at'[r] \notin {"idle", "verdict"} /\ (at'[r] = "done" => outcome'[r] = None)
    BY <1>3, <1>15 DEF Classifies, Moves, Replies, Others, Shows, RequestTypeOK, Unserved, Early
  <2>4. \A q \in Requests \ {r} :
          /\ at'[q] = at[q] /\ receivedAt'[q] = receivedAt[q] /\ row'[q] = row[q]
          /\ outcome'[q] = outcome[q] /\ money'[q] = money[q] /\ reply'[q] = reply[q]
    BY <1>1, <1>3, <1>15 DEF Classifies, Moves, Replies, Others, RequestTypeOK
  <2>5. QED
    BY <1>1, <2>1, <2>2, <2>3, <2>4, OneRequest
<1>16. CASE Dispatches(r)
  <2>1. RequestTypeOK'
    BY <1>1, <1>3, <1>16 DEF Dispatches, Moves, Replies, Others, RequestTypeOK, Early, Beyond
  <2>2. Shows(r)'
    BY <1>1, <1>2, <1>3, <1>4, <1>5, <1>6, <1>16
       DEF Dispatches, Moves, Replies, Others, Shows, RequestTypeOK, Early, Beyond, Unserved
  <2>3. at[r] # "done" /\ at'[r] \notin {"idle", "verdict"} /\ (at'[r] = "done" => outcome'[r] = None)
    BY <1>3, <1>16 DEF Dispatches, Moves, Replies, Others, Shows, RequestTypeOK, Unserved, Early
  <2>4. \A q \in Requests \ {r} :
          /\ at'[q] = at[q] /\ receivedAt'[q] = receivedAt[q] /\ row'[q] = row[q]
          /\ outcome'[q] = outcome[q] /\ money'[q] = money[q] /\ reply'[q] = reply[q]
    BY <1>1, <1>3, <1>16 DEF Dispatches, Moves, Replies, Others, RequestTypeOK
  <2>5. QED
    BY <1>1, <2>1, <2>2, <2>3, <2>4, OneRequest
<1>17. CASE Opens(r)
  <2>1. RequestTypeOK'
    BY <1>1, <1>3, <1>17 DEF Opens, Moves, Replies, Others, RequestTypeOK, Early, Beyond
  <2>2. Shows(r)'
    BY <1>1, <1>2, <1>3, <1>4, <1>5, <1>6, <1>17
       DEF Opens, Moves, Replies, Others, Shows, RequestTypeOK, Early, Beyond, Unserved
  <2>3. at[r] # "done" /\ at'[r] \notin {"idle", "verdict"} /\ (at'[r] = "done" => outcome'[r] = None)
    BY <1>3, <1>17 DEF Opens, Moves, Replies, Others, Shows, RequestTypeOK, Unserved, Early
  <2>4. \A q \in Requests \ {r} :
          /\ at'[q] = at[q] /\ receivedAt'[q] = receivedAt[q] /\ row'[q] = row[q]
          /\ outcome'[q] = outcome[q] /\ money'[q] = money[q] /\ reply'[q] = reply[q]
    BY <1>1, <1>3, <1>17 DEF Opens, Moves, Replies, Others, RequestTypeOK
  <2>5. QED
    BY <1>1, <2>1, <2>2, <2>3, <2>4, OneRequest
<1>18. CASE LooksUp(r)
  <2>1. LookedUp(Req[r].bearer) \in Seen \cup {None}
    BY <1>3, RequestAssumption
       DEF LookedUp, Seen, AccessInv, AccessTypeOK, Issued, Users, User, Token
  <2>2. RequestTypeOK'
    BY <1>1, <1>3, <1>18, <2>1 DEF LooksUp, Moves, RequestTypeOK, Early
  <2>3. row'[r] # None => row'[r].token = Req[r].bearer /\ Req[r].bearer \in Issued
    BY <1>3, <1>18, RequestAssumption DEF LooksUp, LookedUp, RequestTypeOK, Issued
  <2>4. Shows(r)'
    BY <1>1, <1>2, <1>3, <1>5, <1>6, <1>18, <2>3
       DEF LooksUp, Moves, Shows, RequestTypeOK, Early, Beyond, Unserved
  <2>5. at[r] # "done" /\ at'[r] \notin {"idle", "done"} /\ row'[r] = LookedUp(Req[r].bearer)
    BY <1>3, <1>18 DEF LooksUp, Moves, RequestTypeOK
  <2>6. r \in barred => ~Valid(row'[r], now)
    BY <1>4, <2>5
  <2>7. QED
    BY <1>1, <1>18, <2>2, <2>4, <2>5, <2>6, OneRequest DEF LooksUp, Moves
<1>19. QED
  BY <1>7, <1>8, <1>9, <1>10, <1>11, <1>12, <1>13, <1>14, <1>15, <1>16, <1>17, <1>18

\* A request comes.
LEMMA Comes == ASSUME Inv, NEW r \in Requests, Receives(r) PROVE Inv'
<1>1. /\ Kept /\ at[r] = "idle" /\ receivedAt' = [receivedAt EXCEPT ![r] = now]
      /\ UNCHANGED <<row, outcome, money, reply, traces, missed>>
      /\ barred' = IF LookedUp(Req[r].bearer) = None \/ Valid(LookedUp(Req[r].bearer), now)
                     THEN barred ELSE barred \cup {r}
  BY DEF Receives
<1>2. /\ now' = now /\ users' = users /\ tokens' = tokens /\ Issued' = Issued /\ AccessInv'
  BY <1>1, TablesKept DEF Inv
<1>3. RequestTypeOK /\ Shows(r) /\ now \in Nat
  BY DEF Inv, Shown, AccessInv, AccessTypeOK
<1>4. /\ at' \in [Requests -> Early \cup Beyond \cup {"done", "lost"}]
      /\ at'[r] \in {"rejected", "unauthorized", "lookup"}
      /\ at'[r] = "lookup" => Inside(r) /\ Req[r].bearer # None
      /\ \A q \in Requests \ {r} : at'[q] = at[q]
  BY <1>3 DEF Receives, Moves, RequestTypeOK, Early
<1>5. RequestTypeOK'
  BY <1>1, <1>3, <1>4 DEF RequestTypeOK
<1>6. BarredForGood'
  <2>1. ASSUME NEW q \in barred'
        PROVE /\ at'[q] # "idle" /\ Req[q].bearer \in Issued'
              /\ ~Valid(LookedUp(Req[q].bearer), now)'
              /\ at'[q] = "verdict" => ~Valid(row'[q], now')
    <3>1. ~Valid(LookedUp(Req[q].bearer), now) => ~Valid(LookedUp(Req[q].bearer), now)'
      BY <1>2 DEF Valid, LookedUp
    <3>2. CASE q = r
      <4>1. LookedUp(Req[r].bearer) # None /\ ~Valid(LookedUp(Req[r].bearer), now)
        <5>1. r \notin barred
          BY <1>1 DEF Inv, BarredForGood
        <5>2. QED
          BY <1>1, <2>1, <3>2, <5>1
      <4>2. Req[r].bearer \in Issued
        BY <4>1, RequestAssumption DEF LookedUp, Issued
      <4>3. QED
        BY <1>2, <1>4, <3>1, <3>2, <4>1, <4>2
    <3>3. CASE q # r
      <4>1. q \in barred
        BY <1>1, <2>1, <3>3
      <4>2. /\ q \in Requests /\ at[q] # "idle" /\ Req[q].bearer \in Issued
            /\ ~Valid(LookedUp(Req[q].bearer), now)
            /\ at[q] = "verdict" => ~Valid(row[q], now)
        BY <4>1 DEF Inv, RequestTypeOK, BarredForGood
      <4>3. at'[q] = "verdict" => ~Valid(row'[q], now')
        BY <1>1, <1>2, <1>4, <3>3, <4>2 DEF Valid
      <4>4. QED
        BY <1>2, <1>4, <3>1, <3>3, <4>2, <4>3
    <3>4. QED
      BY <3>2, <3>3
  <2>2. QED
    BY <2>1 DEF BarredForGood
<1>7. Shown'
  <2>1. Shows(r)'
    BY <1>1, <1>3, <1>4 DEF Shows, Early, Beyond, Unserved, Inside
  <2>2. ASSUME NEW q \in Requests \ {r} PROVE Shows(q)'
    <3>1. Shows(q)
      BY DEF Inv, Shown
    <3>2. Through(q) => Through(q)'
      BY <1>1, <1>2 DEF Through, Inside
    <3>3. QED
      BY <1>1, <1>2, <1>4, <3>1, <3>2 DEF Shows, Inside
  <2>3. QED
    BY <2>1, <2>2 DEF Shown
<1>8. TraceKept'
  <2>1. \A q \in Requests \ {r} : TraceOf(q)' = TraceOf(q)
    BY <1>1, <1>3 DEF TraceOf, RequestTypeOK
  <2>2. \A t \in traces : t.by \in Requests \ {r}
    BY <1>1 DEF Inv, TraceKept
  <2>3. \A t \in traces' :
          t.by \in Requests /\ t = TraceOf(t.by)' /\ at'[t.by] = "done" /\ row'[t.by] # None
    BY <1>1, <1>4, <2>1, <2>2 DEF Inv, TraceKept
  <2>4. ASSUME NEW q \in Requests, at'[q] = "done", outcome'[q] # None, q \notin missed'
        PROVE \E t \in traces' : Key(t) = Key(TraceOf(q)')
    <3>1. q # r
      BY <1>4, <2>4
    <3>2. PICK t \in traces : Key(t) = Key(TraceOf(q))
      BY <1>1, <1>4, <2>4, <3>1 DEF Inv, TraceKept
    <3>3. QED
      BY <1>1, <2>1, <3>1, <3>2
  <2>5. QED
    BY <1>1, <2>3, <2>4 DEF Inv, TraceKept, Key
<1>9. QED
  BY <1>2, <1>5, <1>6, <1>7, <1>8 DEF Inv

\* The last step of a served call, which writes its row or fails to.
LEMMA TracesStep == ASSUME Inv, NEW r \in Requests, Traces(r) PROVE Inv'
<1>1. /\ Kept /\ at[r] = "trace" /\ at' = [at EXCEPT ![r] = "done"]
      /\ UNCHANGED <<receivedAt, row, outcome, money, barred>>
      /\ reply' = [reply EXCEPT ![r] = IF @ = None THEN outcome[r] ELSE @]
  BY DEF Traces, Replies, Moves
<1>2. /\ now' = now /\ users' = users /\ tokens' = tokens /\ Issued' = Issued /\ AccessInv'
  BY <1>1, TablesKept DEF Inv
<1>3. RequestTypeOK /\ Shows(r)
  BY DEF Inv, Shown
<1>4. /\ at'[r] = "done" /\ \A q \in Requests \ {r} : at'[q] = at[q] /\ reply'[q] = reply[q]
  BY <1>1, <1>3 DEF RequestTypeOK
<1>5. RequestTypeOK'
  BY <1>1, <1>3 DEF RequestTypeOK
<1>6. BarredForGood'
  <2>1. ASSUME NEW q \in barred
        PROVE /\ at'[q] # "idle" /\ Req[q].bearer \in Issued'
              /\ ~Valid(LookedUp(Req[q].bearer), now)'
              /\ at'[q] = "verdict" => ~Valid(row'[q], now')
    <3>1. /\ q \in Requests /\ at[q] # "idle" /\ Req[q].bearer \in Issued
          /\ ~Valid(LookedUp(Req[q].bearer), now)
          /\ at[q] = "verdict" => ~Valid(row[q], now)
      BY DEF Inv, RequestTypeOK, BarredForGood
    <3>2. ~Valid(LookedUp(Req[q].bearer), now)'
      BY <1>2, <3>1 DEF Valid, LookedUp
    <3>3. at'[q] = "verdict" => ~Valid(row'[q], now')
      BY <1>1, <1>2, <1>4, <3>1 DEF Valid
    <3>4. QED
      BY <1>2, <1>4, <3>1, <3>2, <3>3
  <2>2. QED
    BY <1>1, <2>1 DEF BarredForGood
<1>7. Shown'
  <2>1. ASSUME NEW q \in Requests PROVE Shows(q)'
    <3>1. Shows(q)
      BY DEF Inv, Shown
    <3>2. Through(q) => Through(q)'
      BY <1>1, <1>2 DEF Through, Inside
    <3>3. CASE q = r
      <4>1. Through(r)
        BY <1>1, <1>3 DEF Shows, Beyond
      <4>2. QED
        BY <1>1, <1>2, <1>4, <3>1, <3>2, <3>3, <4>1 DEF Shows, Early, Unserved, Beyond
    <3>4. CASE q # r
      BY <1>1, <1>2, <1>4, <3>1, <3>2, <3>4 DEF Shows, Inside
    <3>5. QED
      BY <3>3, <3>4
  <2>2. QED
    BY <2>1 DEF Shown
<1>8. TraceKept'
  <2>1. \A q : TraceOf(q)' = TraceOf(q)
    BY <1>1 DEF TraceOf
  <2>2. \A t \in traces : t.by \in Requests /\ t = TraceOf(t.by) /\ at'[t.by] = "done" /\ row[t.by] # None
    BY <1>1, <1>4 DEF Inv, TraceKept
  <2>3. TraceOf(r).by = r /\ row[r] # None
    BY <1>1, <1>3 DEF TraceOf, Shows, Beyond
  <2>4. /\ traces \subseteq traces' /\ missed \subseteq missed'
        /\ traces' \subseteq traces \cup {TraceOf(r)}
        /\ r \notin missed' => \E t \in traces' : Key(t) = Key(TraceOf(r))
    BY DEF Traces, Appended
  <2>5. TraceOf(r) \in traces' \ traces => \A t \in traces : Key(t) # Key(TraceOf(r))
    BY DEF Traces, Appended
  <2>6. \A t \in traces' :
          t.by \in Requests /\ t = TraceOf(t.by)' /\ at'[t.by] = "done" /\ row'[t.by] # None
    BY <1>1, <1>4, <2>1, <2>2, <2>3, <2>4
  <2>7. \A x, y \in traces' : Key(x) = Key(y) => x = y
    BY <2>4, <2>5 DEF Inv, TraceKept
  <2>8. ASSUME NEW q \in Requests, at'[q] = "done", outcome'[q] # None, q \notin missed'
        PROVE \E t \in traces' : Key(t) = Key(TraceOf(q)')
    <3>1. CASE q = r
      BY <2>1, <2>4, <2>8, <3>1
    <3>2. CASE q # r
      <4>1. PICK t \in traces : Key(t) = Key(TraceOf(q))
        BY <1>1, <1>4, <2>4, <2>8, <3>2 DEF Inv, TraceKept
      <4>2. QED
        BY <2>1, <2>4, <4>1
    <3>3. QED
      BY <3>1, <3>2
  <2>9. QED
    BY <2>6, <2>7, <2>8 DEF TraceKept, Key
<1>9. QED
  BY <1>2, <1>5, <1>6, <1>7, <1>8 DEF Inv

\* A step that leaves every request where it is, or ends it: of a command, of the clock, of a
\* session, or of the process.
LEMMA Around ==
  ASSUME Inv, AccessInv', TablesGrow, now' \in {now, now + 1},
         UNCHANGED <<receivedAt, row, outcome, money, reply, traces, missed, barred>>,
         \/ at' = at
         \/ at' = [q \in Requests |-> IF at[q] \in {"idle", "done"} THEN at[q] ELSE "lost"]
  PROVE  Inv'
<1>1. /\ RequestTypeOK /\ now \in Nat /\ Issued \subseteq Issued'
      /\ \A q \in Requests : at'[q] = at[q] \/ (at'[q] = "lost" /\ at[q] \notin {"idle", "done"})
  BY DEF Inv, RequestTypeOK, AccessInv, AccessTypeOK, TablesGrow
<1>2. RequestTypeOK'
  BY <1>1 DEF RequestTypeOK
<1>3. BarredForGood'
  <2>1. ASSUME NEW q \in barred
        PROVE /\ at'[q] # "idle" /\ Req[q].bearer \in Issued'
              /\ ~Valid(LookedUp(Req[q].bearer), now)'
              /\ at'[q] = "verdict" => ~Valid(row'[q], now')
    <3>1. /\ q \in Requests /\ at[q] # "idle" /\ Req[q].bearer \in Issued
          /\ ~Valid(LookedUp(Req[q].bearer), now)
          /\ at[q] = "verdict" => ~Valid(row[q], now)
      BY DEF Inv, RequestTypeOK, BarredForGood
    <3>2. ~Valid(LookedUp(Req[q].bearer), now)'
      BY <3>1, NoGoodStays DEF Inv
    <3>3. row[q] \in Seen \cup {None}
      BY <1>1, <3>1 DEF RequestTypeOK
    <3>4. at'[q] = "verdict" => ~Valid(row[q], now')
      BY <1>1, <3>1, <3>3, SeenStays
    <3>5. QED
      BY <1>1, <3>1, <3>2, <3>4
  <2>2. QED
    BY <2>1 DEF BarredForGood
<1>4. Shown'
  <2>1. ASSUME NEW q \in Requests PROVE Shows(q)'
    <3>1. Shows(q)
      BY DEF Inv, Shown
    <3>2. Through(q) => Through(q)'
      BY <1>1 DEF Through, Inside
    <3>3. QED
      BY <1>1, <3>1, <3>2 DEF Shows, Inside, Early, Unserved, Beyond
  <2>2. QED
    BY <2>1 DEF Shown
<1>5. TraceKept'
  <2>1. \A q : TraceOf(q)' = TraceOf(q)
    BY DEF TraceOf
  <2>2. \A q \in Requests : at'[q] = "done" <=> at[q] = "done"
    BY <1>1
  <2>3. QED
    BY <2>1, <2>2 DEF Inv, TraceKept, Key
<1>6. QED
  BY <1>2, <1>3, <1>4, <1>5 DEF Inv

LEMMA InitInv == Init => Inv
<1> SUFFICES ASSUME Init PROVE Inv
  OBVIOUS
<1>1. AccessInv
  BY AccessStart DEF Init
<1>2. RequestTypeOK
  BY DEF Init, RequestsInit, RequestTypeOK, Early
<1>3. BarredForGood /\ TraceKept
  BY DEF Init, RequestsInit, BarredForGood, TraceKept
<1>4. Shown
  BY DEF Init, RequestsInit, Shown, Shows, Beyond
<1>5. QED
  BY <1>1, <1>2, <1>3, <1>4 DEF Inv

LEMMA NextInv == Inv /\ [Next]_vars => Inv'
<1> SUFFICES ASSUME Inv, [Next]_vars PROVE Inv'
  OBVIOUS
<1>1. ASSUME Kept PROVE AccessInv' /\ TablesGrow /\ now' = now
  BY <1>1, TablesKept DEF Inv, TablesGrow, Users, Issued
<1>2. CASE \E c \in Commands : Command(c) /\ UNCHANGED reqVars
  <2>1. AccessInv' /\ TablesGrow
    BY <1>2, CommandStep DEF Inv
  <2>2. now' = now
    BY <1>2 DEF Command
  <2>3. QED
    BY <1>2, <2>1, <2>2, Around DEF reqVars
<1>3. CASE Suspends /\ UNCHANGED reqVars
  <2>1. AccessInv' /\ TablesGrow
    BY <1>3, Suspended DEF Inv
  <2>2. now' = now
    BY <1>3 DEF Suspends
  <2>3. QED
    BY <1>3, <2>1, <2>2, Around DEF reqVars
<1>4. ASSUME NEW r \in Requests, Handle(r) PROVE Inv'
  <2>1. CASE Receives(r)
    BY <2>1, Comes
  <2>2. CASE Traces(r)
    BY <2>2, TracesStep
  <2>3. CASE SessionGoes(r)
    <3>1. /\ Kept /\ at' = at
          /\ UNCHANGED <<receivedAt, row, outcome, money, reply, traces, missed, barred>>
      BY <2>3 DEF SessionGoes
    <3>2. QED
      BY <1>1, <3>1, Around
  <2>4. CASE Unhandled(r)
    <3>1. /\ Kept /\ UNCHANGED <<receivedAt, row, outcome, money, reply, traces, missed, barred>>
          /\ at' = [q \in Requests |-> IF at[q] \in {"idle", "done"} THEN at[q] ELSE "lost"]
      BY <2>4 DEF Unhandled, Ends
    <3>2. QED
      BY <1>1, <3>1, Around
  <2>5. QED
    BY <1>4, <2>1, <2>2, <2>3, <2>4, GoesOn DEF Handle
<1>5. CASE ProcessDies
  <2>1. /\ Kept /\ UNCHANGED <<receivedAt, row, outcome, money, reply, traces, missed, barred>>
        /\ at' = [q \in Requests |-> IF at[q] \in {"idle", "done"} THEN at[q] ELSE "lost"]
    BY <1>5 DEF ProcessDies, Ends
  <2>2. QED
    BY <1>1, <2>1, Around
<1>6. CASE Tick
  <2>1. /\ now' = now + 1 /\ UNCHANGED <<users, tokens, audit, pc>>
        /\ UNCHANGED reqVars
    BY <1>6 DEF Tick, dbVars
  <2>2. Users' = Users /\ Issued' = Issued /\ \A a, t : RowsOf(a, t)' = RowsOf(a, t)
    BY <2>1 DEF Users, Issued, RowsOf
  <2>3. AccessTypeOK' /\ CommandsInformed'
    BY <2>1, <2>2 DEF Inv, AccessInv, AccessTypeOK, CommandsInformed
  <2>4. TokensJournalled'
    BY <2>1, <2>2 DEF Inv, AccessInv, TokensJournalled, IssueRow
  <2>5. UsersJournalled' /\ SomebodyActs'
    BY <2>1, <2>2 DEF Inv, AccessInv, UsersJournalled, Owes, SomebodyActs
  <2>6. TablesGrow
    BY <2>1, <2>2 DEF TablesGrow
  <2>7. QED
    BY <2>1, <2>3, <2>4, <2>5, <2>6, Around DEF AccessInv, reqVars
<1>7. CASE UNCHANGED vars
  <2>1. Kept /\ UNCHANGED reqVars
    BY <1>7 DEF vars, Kept
  <2>2. QED
    BY <1>1, <2>1, Around DEF reqVars
<1>8. QED
  BY <1>2, <1>3, <1>4, <1>5, <1>6, <1>7 DEF Next

LEMMA InvFollows == Inv => RevokedIsRefused /\ TracedOnce
<1> SUFFICES ASSUME Inv PROVE RevokedIsRefused /\ TracedOnce
  OBVIOUS
<1>1. ASSUME NEW r \in Requests, at[r] # "idle",
             r \in barred \/ LookedUp(Req[r].bearer) = None \/ ~Inside(r)
      PROVE  at[r] \notin Beyond /\ outcome[r] = None /\ money[r] = None /\ reply[r] \in {None, 401, 403}
  <2>1. ASSUME Req[r].bearer \in Issued PROVE LookedUp(Req[r].bearer) # None
    <3>1. LookedUp(Req[r].bearer) \in Seen
      <4>1. /\ Req[r].bearer \in Issuers /\ Req[r].bearer # None
            /\ tokens[Req[r].bearer] \in Token /\ tokens[Req[r].bearer] # None
            /\ tokens[Req[r].bearer].user \in Users
        BY <2>1, AccessAssumption DEF Inv, AccessInv, AccessTypeOK, Issued, Issuers
      <4>2. users[tokens[Req[r].bearer].user] \in User
        BY <4>1 DEF Inv, AccessInv, AccessTypeOK, Users
      <4>3. QED
        BY <4>1, <4>2 DEF LookedUp, Seen, Token, User
    <3>2. QED
      BY <3>1, RequestAssumption
  <2>2. ~Through(r)
    BY <1>1, <2>1 DEF Through
  <2>3. QED
    BY <2>2 DEF Inv, Shown, Shows
<1>2. ASSUME NEW t \in traces
      PROVE /\ t.principal = Req[t.by].bearer /\ t.receivedAt = receivedAt[t.by]
            /\ t.outcome = outcome[t.by] /\ at[t.by] = "done"
            /\ \A s \in traces : s = t \/ (s.by # t.by /\ Key(s) # Key(t))
  <2>1. t = TraceOf(t.by) /\ t.by \in Requests /\ at[t.by] = "done" /\ row[t.by] # None
    BY DEF Inv, TraceKept
  <2>2. row[t.by].token = Req[t.by].bearer
    BY <2>1 DEF Inv, Shown, Shows
  <2>3. /\ TraceOf(t.by).principal = row[t.by].token /\ TraceOf(t.by).outcome = outcome[t.by]
        /\ TraceOf(t.by).receivedAt = receivedAt[t.by]
    BY DEF TraceOf
  <2>4. ASSUME NEW s \in traces, s # t PROVE s.by # t.by /\ Key(s) # Key(t)
    BY <2>1, <2>4 DEF Inv, TraceKept
  <2>5. QED
    BY <2>1, <2>2, <2>3, <2>4
<1>3. QED
  BY <1>1, <1>2 DEF RevokedIsRefused, TracedOnce, Inv, TraceKept

--------------------------------------------------------------------------------
(* The theorems *)

\* Whatever commands race or break off, and whoever is suspended meanwhile, the journal of what
\* administrators did has one row for each issue and each revocation, and somebody can act.
THEOREM Journal_Kept == Spec => []JournalKept
<1>1. Inv => JournalKept
  BY JournalFollows DEF Inv
<1>2. QED
  BY <1>1, InitInv, NextInv, PTL DEF Spec

\* A request that comes with a token that is revoked, expired or of a suspended user is
\* answered 401 or not at all, for any interleaving with commands and with other requests.
THEOREM Refused == Spec => []RevokedIsRefused
<1>1. Inv => RevokedIsRefused
  BY InvFollows
<1>2. QED
  BY <1>1, InitInv, NextInv, PTL DEF Spec

\* The trace has each served call once, under its own token.
THEOREM Traced == Spec => []TracedOnce
<1>1. Inv => TracedOnce
  BY InvFollows
<1>2. QED
  BY <1>1, InitInv, NextInv, PTL DEF Spec
================================================================================
