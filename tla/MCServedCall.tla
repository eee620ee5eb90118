----------------------------- MODULE MCServedCall -----------------------------
(* What a served call goes through, in behaviours of their own: its way in, what the adapters
   make of the answers of their vendors, and the registry its chain is looked up in.  The way in
   has two beginnings: an empty database on which administrators' commands run, and one with two tokens, one of them about to be revoked,
   to which requests come. *)
EXTENDS HttpRequest, MCAnswers

MCArgv == [
  boot1  |-> [do |-> "add", actor |-> None, email |-> "root", role |-> "admin"],
  boot2  |-> [do |-> "add", actor |-> None, email |-> "ann", role |-> "admin"],
  boot3  |-> [do |-> "add", actor |-> None, email |-> "ann", role |-> "user"],
  add    |-> [do |-> "add", actor |-> "root", email |-> "ann", role |-> "user"],
  i1     |-> [do |-> "issue", actor |-> "root", user |-> "ann", supplied |-> None,
              malformed |-> FALSE, expires |-> 1],
  i2     |-> [do |-> "issue", actor |-> "ann", user |-> "root", supplied |-> "s1",
              malformed |-> FALSE, expires |-> None],
  v1     |-> [do |-> "revoke", actor |-> "ann", token |-> "i1"],
  v2     |-> [do |-> "revoke", actor |-> "root", token |-> "i1"]]

MCPrefixOf == [s1 |-> "x", s2 |-> "y"]
MCHosts == {<<"here", None>>}
NoUsers == [u \in Emails |-> None]

Asks(kind, bearer, host, session, id) ==
  [kind |-> kind, bearer |-> bearer, host |-> host, origin |-> None, session |-> session,
   clientId |-> id]

MCReq == [
  o |-> Asks("open", "i2", <<"here", None>>, None, None),
  c |-> Asks("call", "i1", <<"here", 80>>, "o", "k"),
  d |-> Asks("call", "i1", <<"here", None>>, "o", "k"),
  w |-> Asks("call", "i2", <<"here", 81>>, "o", None)]

\* One user, who has issued both tokens.
ServedDb ==
  /\ users = [root |-> None, ann |-> [role |-> "admin", status |-> "active"]]
  /\ tokens = [t \in Issuers |->
                 [user |-> "ann", prefix |-> MCPrefixOf[IF t = "i1" THEN "s1" ELSE "s2"],
                  status |-> "active", expires |-> IF t = "i1" THEN 1 ELSE None]]
  /\ audit = {[by |-> None, action |-> "user.create", target |-> "ann", actor |-> None]}
       \cup {[by |-> t, action |-> "token.issue", target |-> t, actor |-> "ann"] : t \in Issuers}
  /\ pc = [c \in Commands |-> IF c = "v1" THEN "revoke" ELSE "done"]

\* The registry of chains: three names in the catalogs, two spellings that differ by
\* punctuation alone, ids of either catalog, a test network, and a row no catalog carries.
CONSTANT Broken
VARIABLES registry, lost, syncedAt, runs

registryVars == <<registry, lost, syncedAt, runs>>

CatalogRow(name, gecko, id) == [name |-> name, gecko |-> gecko, id |-> id]
MCPlatforms ==
  <<[coin |-> "a_2", name |-> "b", id |-> "1", native |-> "g"],
    [coin |-> "h", name |-> "a", id |-> None, native |-> "g"]>>
MCEip155 ==
  <<[id |-> "1", short |-> "b", test |-> FALSE, decimals |-> "9"],
    [id |-> "2", short |-> "t", test |-> TRUE, decimals |-> "9"]>>
CatalogRows ==
  {CatalogRow("a", None, "1"), CatalogRow("b", None, "2"), CatalogRow("a", None, "2"),
   CatalogRow("b", "g", None), CatalogRow("a-2", None, None)}
MCCatalogs ==
  [defillama : {<<>>, <<CatalogRow("a", None, "1"), CatalogRow("b", "g", None)>>,
                <<CatalogRow("b", None, "2"), CatalogRow("a", None, "2")>>,
                <<CatalogRow("b", "g", None), CatalogRow("a-2", None, None)>>}
               \cup {<<x, CatalogRow("b", None, "2")>> : x \in CatalogRows},
   coingecko : {MCPlatforms}, eip155 : {MCEip155}]

Sync == INSTANCE ChainRegistry WITH
  Normal <- [name \in {"a-2", "a_2"} |-> "a2"], Catalogs <- MCCatalogs,
  CuratedRows <- <<[caip2 |-> "other:dot", slug |-> "dot", aliases |-> <<"b">>]>>,
  CuratedAliases <- [x \in {"eip155:2"} |-> <<"x">>],
  Hosts <- {"h", "key"}, Approvable <- {"h"},
  Routes <- <<[capability |-> "p", adapterIds |-> <<"unregistered", "m">>],
              [capability |-> "q", adapterIds |-> <<"m">>],
              [capability |-> "p", adapterIds |-> <<"n">>]>>,
  Adapters <- [m |-> {<<"eip155:1", "p">>, <<"eip155:2", "q">>}, n |-> {<<"eip155:2", "p">>}],
  MaxRuns <- 3

\* The session of o is open, and two requests come to it.
InSession ==
  /\ at = [r \in Requests |-> IF r \in {"c", "d"} THEN "idle" ELSE "done"]
  /\ receivedAt = [r \in Requests |-> 0]
  /\ row = [r \in Requests |-> IF r = "o" THEN LookedUp("i2") ELSE None]
  /\ sessions = {"o"}
  /\ openedBy = [r \in Requests |-> IF r = "o" THEN "i2" ELSE None]
  /\ outcome = [r \in Requests |-> None]
  /\ money = [r \in Requests |-> None]
  /\ reply = [r \in Requests |-> IF r = "o" THEN 200 ELSE None]
  /\ traces = {} /\ missed = {} /\ barred = {}

AccessBegins ==
  \/ AccessInit /\ RequestsInit({})
  \/ now = 0 /\ ServedDb /\ (InSession \/ RequestsInit({"o", "c"}) \/ RequestsInit({"w"}))

MCInit == AccessBegins /\ AnswersInit /\ Sync!RegistryInit

Untouched == AccessInit /\ RequestsInit({})

MCNext ==
  \/ topic = Absent /\ runs = 0 /\ Next /\ UNCHANGED <<answerVars, registryVars>>
  \/ Untouched /\ runs = 0 /\ Ask /\ UNCHANGED <<vars, registryVars>>
  \/ Untouched /\ topic = Absent /\ Sync!RegistryNext
       /\ UNCHANGED <<vars, answerVars>>

MCSpec == MCInit /\ [][MCNext]_<<vars, answerVars, registryVars>>

\* An answer tells what its vendor has: of a window of days, of a page, of a catalog and of
\* a figure; see SeriesHonest, PageHonest, CatalogHonest and AmountsExact in Answers.
AnswersHonest == SeriesHonest /\ PageHonest /\ CatalogHonest /\ AmountsExact

\* A name means one chain, and the answers about its coverage agree: see ChainRegistry.
ResolvesToOne == Sync!ResolvesToOne

\* What people wrote into the registry survives its regeneration: see ChainRegistry.
CurationKept == Sync!CurationKept
================================================================================
