------------------------------ MODULE Startup ------------------------------
(***************************************************************************)
(* The start of the server: the checks of its tables as its modules load,  *)
(* the settings, the profile they select, the probes of the network        *)
(* profile against the state store, the stores and the registry, and the   *)
(* transport.  Each awaited step is an action, and the store may change or *)
(* fail between any two.                                                   *)
(*                                                                         *)
(* Settings are abstracted to what the start tells apart; "bad" stands for *)
(* a value its schema refuses.                                             *)
(***************************************************************************)
EXTENDS ProviderTables

CONSTANTS Unset,
          Tables,    \* name -> configuration: "shipped", and edits of it
          Settings   \* settings: [profile, url, pepper, port, timeout, idle]

ASSUME StartAssumption ==
  /\ Unset \notin {"local", "network", "network-sqlite"}
  /\ \A settings \in Settings : settings.timeout # Unset => settings.timeout \in Nat

VARIABLES build,    \* the name of the configuration of this build
          env,      \* the settings once they are read, or Unset
          phase,    \* where the start stands, or "exited"
          probed,   \* the probes that passed
          storage,  \* the storage the stores were built on, or Unset
          db        \* the state store: [up |-> does it answer, tokens |-> has it a live token]

startVars == <<build, env, phase, probed, storage, db>>

ResponseFloor == 330
DefaultResponseTimeout == 360
DefaultIdle == 900
Valid(settings) == /\ "bad" \notin {settings.profile, settings.url, settings.pepper, settings.port}
                   /\ settings.timeout # Unset => settings.timeout > ResponseFloor
ResponseLimit == IF env.timeout = Unset THEN DefaultResponseTimeout ELSE env.timeout
IdleLimit == IF env.idle = Unset THEN DefaultIdle ELSE env.idle

tables == Tables[build]
Profile == IF env.profile = Unset THEN "local" ELSE env.profile
Transport == IF Profile = "local" THEN "stdio" ELSE "http"
Storage == IF Profile = "network" THEN "postgres" ELSE "sqlite"
Identity == Transport = "http" /\ env.pepper # Unset

StartInit == /\ build \in DOMAIN Tables /\ env = Unset /\ phase = "loading" /\ probed = {} /\ storage = Unset
             /\ db \in [up : BOOLEAN, tokens : BOOLEAN]

Goes(next) == phase' = next
GoesOr(passes, next) == phase' = IF passes THEN next ELSE "exited"

LoadsModules == /\ phase = "loading"
                /\ GoesOr(/\ ValidRegistrations(tables.registrations)
                          /\ MergeParticipantsAreFree(tables.routes, tables.registrations), "settings")
                /\ UNCHANGED <<build, env, probed, storage, db>>

LoadsEnv(settings) == /\ phase = "settings"
                      /\ env' = settings /\ GoesOr(Valid(settings), "probing")
                      /\ UNCHANGED <<build, probed, storage, db>>

(* The probes, in order; one without an answerer is passed over, and one   *)
(* whose store fails is a refusal.                                         *)
Probes == <<"dsn", "store", "token">>
Passes(probe) == CASE probe = "dsn" -> env.url # Unset
                   [] probe = "store" -> db.up
                   [] probe = "token" -> db.up /\ db.tokens
AskedOfProcess(probe) == probe = "dsn" \/ (Identity /\ probe = "store")
Asked(probe) == probe = "dsn" \/ Identity
Pending == {i \in DOMAIN Probes : Profile = "network" /\ Asked(Probes[i]) /\ Probes[i] \notin probed}

Probe == /\ phase = "probing"
         /\ \E i \in Pending :
              /\ \A j \in Pending : i <= j
              /\ probed' = (IF Passes(Probes[i]) THEN probed \cup {Probes[i]} ELSE probed)
              /\ GoesOr(Passes(Probes[i]), "probing")
         /\ UNCHANGED <<build, env, storage, db>>

\* The stores, the ledger and the client of the engine, on one storage; the
\* bootstrap of the registry of providers starts here and is not waited for.
BuildsStores == /\ phase = "probing" /\ Pending = {}
                /\ storage' = Storage /\ Goes("stores")
                /\ UNCHANGED <<build, env, probed, db>>
BuildsRegistry == /\ phase = "stores"
                  /\ GoesOr(Constructible(tables.routes, tables.manifest), "transport")
                  /\ UNCHANGED <<build, env, probed, storage, db>>

Attaches == /\ phase = "transport" /\ Transport = "stdio" /\ Goes("serving")
            /\ UNCHANGED <<build, env, probed, storage, db>>
\* The http transport needs a port and a pepper, a session that outlives every
\* deadline and every response, and a port that is free.
IdleClears == /\ \A c \in DOMAIN tables.manifest : IdleLimit > tables.manifest[c].deadline
              /\ IdleLimit > ResponseLimit
Binds == /\ phase = "transport" /\ Transport = "http"
         /\ GoesOr(env.port # Unset /\ Identity /\ IdleClears, "serving") \/ Goes("exited")
         /\ UNCHANGED <<build, env, probed, storage, db>>

\* The store comes and goes, and tokens are issued, revoked or expire.
StoreChanges == /\ phase \notin {"serving", "exited"}
                /\ db' \in [up : BOOLEAN, tokens : BOOLEAN] /\ db' # db
                /\ UNCHANGED <<build, env, phase, probed, storage>>

StartNext == \/ LoadsModules \/ Probe \/ BuildsStores \/ BuildsRegistry \/ Attaches \/ Binds \/ StoreChanges
             \/ \E settings \in Settings : LoadsEnv(settings)

StartSpec == StartInit /\ [][StartNext]_startVars

(***************************************************************************)
(* Properties                                                              *)
(***************************************************************************)
\* A process that serves over http knows whom to admit, and one on the network
\* profile has seen its store answer with a live token; it keeps its state
\* where the profile says and never falls back to a file of its own.
ListensAsConfigured == phase = "serving" =>
  /\ env.profile = "network" => storage = "postgres" /\ {"dsn", "store", "token"} \subseteq probed
  /\ env.profile \in {"network", "network-sqlite"} => env.pepper # Unset /\ env.port # Unset
  /\ env.profile \in {Unset, "local"} => storage = "sqlite"

\* Configurations whose merges name free sources alone, and whose capabilities all end.
FreeMerges == {b \in DOMAIN Tables : LET t == Tables[b] IN
  \A i \in DOMAIN t.routes : LET c == t.routes[i].capability IN
    /\ t.manifest[c].deadline > 0
    /\ t.routes[i].merge => \A j \in DOMAIN t.routes, r \in ToSet(t.registrations) :
         t.routes[j].capability = c /\ r.id \in ToSet(t.routes[j].adapters) => r.tier = "free"}
Longest == [c \in Capabilities |-> PaidRequests(c) * Attempt]

\* What is served from: a merge never reaches a source that costs, whichever
\* route or registration names it; every capability is bounded; and on the
\* shipped tables no paid request, which is never cut, outlives the response,
\* nor its session.
ServedTablesAreSafe == phase = "serving" =>
  /\ build \in FreeMerges
  /\ Transport = "http" /\ build = "shipped" => \A c \in Capabilities :
       /\ Longest[c] <= ShippedManifest[c].paidLeg
       /\ ShippedManifest[c].deadline + Longest[c] < ResponseLimit
       /\ ResponseLimit < IdleLimit
=============================================================================
