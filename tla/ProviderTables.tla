--------------------------- MODULE ProviderTables ---------------------------
(***************************************************************************)
(* The tables the process is configured with: the registrations of the     *)
(* adapters, the routes of the capabilities and the manifest of each, as   *)
(* they are shipped, and the checks that a table passes before anything    *)
(* is served from it.  Times are seconds.                                  *)
(***************************************************************************)
EXTENDS Naturals, Sequences, SequencesExt

(* providers.config.ts.  hosts stands for the entries of the allowlist of  *)
(* outgoing calls: usable, or one among them that no address can equal.    *)
Registered(id, tier, trust, ceiling, needs) ==
  [id |-> id, tier |-> tier, trust |-> trust, ceiling |-> ceiling, needs |-> needs, hosts |-> "usable"]

MarketRegistrations == <<
  Registered("coingecko", "free", "authoritative", "none", {}),
  Registered("dexscreener", "free", "authoritative", "none", {}),
  Registered("defillama", "free", "authoritative", "none", {}),
  Registered("dune", "paid", "authoritative", "undeclared", {"DUNE_API_KEY"}) >>
ChainRegistrations == <<
  Registered("blockscout", "free", "community", "declared", {"BLOCKSCOUT_PRO_API_KEY"}),
  Registered("rpc-evm", "free", "authoritative", "none", {}),
  Registered("rpc-solana", "free", "authoritative", "none", {}) >>
PlatformRegistrations == <<
  Registered("dash-platform", "free", "authoritative", "none", {}),
  Registered("platform-explorer", "free", "authoritative", "none", {}),
  Registered("pg-history", "free", "community", "none", {"ONCHAIN_PG_URL"}) >>
LastRegistrations == <<
  Registered("nansen", "paid", "authoritative", "undeclared", {"NANSEN_API_KEY"}),
  Registered("blockchain-info", "free", "authoritative", "none", {}) >>
ShippedRegistrations == MarketRegistrations \o ChainRegistrations \o PlatformRegistrations \o LastRegistrations

Routed(capability, adapters) == [capability |-> capability, adapters |-> adapters, merge |-> FALSE, policy |-> "any"]
Platform(capability) == Routed(capability, <<"dash-platform", "platform-explorer">>)
History(capability) == [Routed(capability, <<"platform-explorer", "pg-history">>) EXCEPT !.merge = TRUE]

ShippedRoutes == <<
  Routed("token.price", <<"coingecko">>), Routed("token.metadata", <<"coingecko">>),
  Routed("pairs.active", <<"dexscreener">>), Routed("pool.info", <<"dexscreener">>),
  Routed("token.pools", <<"dexscreener">>), Routed("protocol.tvl", <<"defillama">>),
  Routed("chain.tvl", <<"defillama">>), Routed("dex.volume.history", <<"defillama">>),
  Routed("chain.tvl.history", <<"defillama">>), Routed("protocol.list", <<"defillama">>),
  Routed("protocol.tvl.history", <<"defillama">>), Routed("protocol.incidents", <<"defillama">>),
  Routed("wallet.balances.native", <<"rpc-evm">>), Routed("wallet.balances.native", <<"rpc-solana">>),
  Routed("gas.price", <<"rpc-evm", "blockscout">>), Routed("chain.transactions", <<"blockscout">>),
  Platform("privacy.shielded_pool"), Platform("platform.identities"), Platform("platform.contracts"),
  Platform("platform.documents"), Platform("platform.credits"),
  History("privacy.shielded_pool.history"), History("platform.metrics.history"),
  Routed("token.holders", <<"blockscout">>), Routed("smart-money.flows", <<"nansen">>),
  [Routed("entity.labels", <<"blockscout", "nansen">>) EXCEPT !.policy = "someElementHasAny"],
  Routed("token.risk", <<"nansen">>), Routed("chain.supply", <<"blockchain-info">>) >>

(* capability-manifest.ts: in the order of the tiers of its deadlines.     *)
TokenRequests == {"token.price", "token.metadata", "pool.info", "token.pools"}
ProtocolRequests == {"protocol.tvl", "chain.tvl", "protocol.list", "protocol.tvl.history", "chain.tvl.history",
  "dex.volume.history"}
ChainRequests == {"wallet.balances.native", "protocol.incidents", "gas.price", "chain.transactions", "chain.supply"}
OneRequest == TokenRequests \cup ProtocolRequests \cup ChainRequests
OneOfTwo == {"privacy.shielded_pool", "platform.identities", "platform.contracts", "platform.documents",
  "platform.credits"}
Composite == {"privacy.shielded_pool.history", "pairs.active", "platform.metrics.history"}
Slowest == {"token.holders"}
PaidLegs == [c \in {"entity.labels", "smart-money.flows", "token.risk"} |-> IF c = "entity.labels" THEN 270 ELSE 180]

Capabilities == OneRequest \cup OneOfTwo \cup Composite \cup Slowest \cup DOMAIN PaidLegs
Lists == {"token.pools", "protocol.list", "wallet.balances.native", "protocol.incidents", "pairs.active",
  "token.holders", "entity.labels"}
Histories == {"protocol.tvl.history", "chain.tvl.history", "dex.volume.history",
  "privacy.shielded_pool.history", "platform.metrics.history"}

ShippedManifest == [c \in Capabilities |->
  [shape |-> IF c \in Lists THEN "set" ELSE IF c \in Histories THEN "series" ELSE "point",
   deadline |-> IF c \in OneRequest \cup OneOfTwo THEN 15 ELSE IF c \in Composite THEN 30 ELSE 60,
   paidLeg |-> IF c \in DOMAIN PaidLegs THEN PaidLegs[c] ELSE 0,
   mergeable |-> c \in {"privacy.shielded_pool.history", "platform.metrics.history"}]]

Shipped == [registrations |-> ShippedRegistrations, routes |-> ShippedRoutes, manifest |-> ShippedManifest]

(***************************************************************************)
(* The checks                                                              *)
(***************************************************************************)
Tiers == {"free", "paid"}
ValidRegistration(r) == /\ r.tier \in Tiers /\ r.trust \in {"authoritative", "derived", "community"}
                        /\ r.tier = "free" => r.ceiling # "undeclared"
                        /\ r.ceiling # "invalid" /\ r.hosts = "usable"
ValidRegistrations(registrations) == \A i \in DOMAIN registrations : ValidRegistration(registrations[i])

\* An id is free if it is registered, and every registration of it says so.
TiersOf(registrations, id) == {r.tier : r \in {s \in ToSet(registrations) : s.id = id}}

\* Everything any route of a capability reaches takes part in its merge.
ParticipantsOfMerges(routes, capability) ==
  UNION {ToSet(routes[i].adapters) : i \in {j \in DOMAIN routes : routes[j].capability = capability /\ routes[j].merge}}
Participants(routes, capability) ==
  UNION {ToSet(routes[i].adapters) : i \in {j \in DOMAIN routes : routes[j].capability = capability}}
MergeParticipantsAreFree(routes, registrations) ==
  \A i \in DOMAIN routes : routes[i].merge =>
    \A id \in Participants(routes, routes[i].capability) : TiersOf(registrations, id) = {"free"}

\* The constructor of the registry of capabilities.
Constructible(routes, manifest) == \A i \in DOMAIN routes :
  LET c == routes[i].capability IN
  /\ c \in DOMAIN manifest /\ manifest[c].deadline > 0
  /\ routes[i].policy \in {"any", "someElementHasAny"}
  /\ routes[i].merge => manifest[c].shape # "point" /\ manifest[c].mergeable

(* One attempt of a free adapter: the wait for the limiter, and four hops. *)
MaxWait == 30
HopTimeout == 15
MaxRedirects == 3
Attempt == MaxWait + (MaxRedirects + 1) * HopTimeout
\* The requests one reservation pays for, at most, over the arguments.
PaidRequests(capability) == CASE capability = "entity.labels" -> 3
                              [] capability \in {"smart-money.flows", "token.risk"} -> 2
                              [] OTHER -> 0
=============================================================================
