------------------------------ MODULE MCStartup ------------------------------
(***************************************************************************)
(* The start of a process composed with the clients of its state: the      *)
(* bootstrap of the registry of providers runs while the process goes on   *)
(* starting, and requests call the clients of the storage the profile      *)
(* selected once it serves.  The clients are followed under one setting of *)
(* each storage, with the shipped tables.                                  *)
(***************************************************************************)
EXTENDS Startup, StateClients

(* Each edit of the shipped tables is one mistake of a maintainer.         *)
OfCapability(c) == CHOOSE i \in DOMAIN ShippedRoutes : ShippedRoutes[i].capability = c
History1 == OfCapability("platform.metrics.history")
Risk == OfCapability("token.risk")
EditedTables ==
  [shipped |-> Shipped,
   ceiling |-> [Shipped EXCEPT !.registrations[5].ceiling = "undeclared"],
   hosts   |-> [Shipped EXCEPT !.registrations[1].hosts = "unusable"],
   twice   |-> [Shipped EXCEPT !.registrations = Append(@, Registered("pg-history", "paid", "community", "none", {}))],
   joins   |-> [Shipped EXCEPT !.routes[History1].adapters = Append(@, "nansen")],
   route   |-> [Shipped EXCEPT !.routes = Append(@, Routed("platform.metrics.history", <<"nansen">>))],
   merges  |-> [Shipped EXCEPT !.routes[Risk].merge = TRUE],
   policy  |-> [Shipped EXCEPT !.routes[Risk].policy = "whichever"],
   point   |-> [Shipped EXCEPT !.routes[1].merge = TRUE],
   zero    |-> [Shipped EXCEPT !.manifest["token.risk"].deadline = 0]]

Observed ==
  {[profile |-> "network", url |-> "given", pepper |-> "given", port |-> "given", timeout |-> Unset, idle |-> Unset],
   [profile |-> "network-sqlite", url |-> Unset, pepper |-> "given", port |-> "given", timeout |-> Unset, idle |-> Unset]}
GivenSettings ==
  [profile : {Unset, "network", "network-sqlite", "bad"}, url : {Unset, "given"}, pepper : {Unset, "given"},
   port : {Unset, "given"}, timeout : {Unset, 330, 331}, idle : {Unset, 60, 340}]

(* The callers of the Postgres clients: the bootstrap, a write of the      *)
(* cache, a transaction of the ledger whose body refuses, and a read.      *)
MCCallers == {"boot", "ledger", "cache", "read"}
MCKind(c) == CASE c \in {"boot", "ledger"} -> "tx" [] c = "cache" -> "auto" [] OTHER -> "read"
MCGated(c) == c = "cache"
MCRefuses(c) == c = "ledger"
MCBinding(c) == c = "read"
MCPoolOf(k) == IF k = "s1" THEN "state" ELSE "read"

(* And of the SQLite connections: two transactions and a statement of the  *)
(* engine, both operations of the ledger, and a store.                     *)
MCWay(c) == CASE c \in {"import", "sync"} -> "transaction" [] c = "query" -> "statement" [] OTHER -> c
MCThrows(c) == c \in {"import", "reserve"}

vars == <<startVars, clientVars, liteVars>>

Init == StartInit /\ ClientsInit

Followed == build = "shipped" /\ env \in Observed /\ db = [up |-> TRUE, tokens |-> TRUE]
MayCall(c) == storage = "postgres" /\ Followed /\ (c # Boot => phase = "serving")

PgNext == PgGoesOn \/ \E c \in Callers : MayCall(c) /\ PgStarts(c)
LiteNext == storage = "sqlite" /\ Followed /\ phase = "serving" /\ Lite!LiteNext

Next == \/ StartNext /\ UNCHANGED <<clientVars, liteVars>>
        \/ PgNext /\ UNCHANGED <<startVars, liteVars>>
        \/ LiteNext /\ UNCHANGED <<startVars, clientVars>>
Spec == Init /\ [][Next]_vars
LiveSpec == Spec /\ ClientFairness
=============================================================================
