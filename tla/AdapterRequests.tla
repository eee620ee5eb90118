----------------------------- MODULE AdapterRequests -----------------------------
(****************************************************************************)
(* What the free adapters say they serve (chainSupport, capabilities) and   *)
(* what their fetch accepts, each written for itself in the code.           *)
(*                                                                          *)
(* A chain of the registry is [family, evmId, hosts, symbol, decimals,      *)
(* vendors]: evmId of an eip155 id, vendors the names the vendors have for  *)
(* it.  An argument is Absent, Garbage (of another type, or out of bounds), *)
(* Empty (a text that is empty or no address) or a value; a chain that the  *)
(* registry does not know is a slug outside Chains.                         *)
(****************************************************************************)
EXTENDS Integers, Sequences, FiniteSets

CONSTANTS
  Absent, Garbage, Empty, Throws,
  Chains,              \* slug -> chain
  DexChains,           \* DEX_CHAIN_SET: vendor names
  ExplorerIds,         \* BLOCKSCOUT_CHAIN_IDS
  Validated,           \* the families with an address validator
  Disabled             \* adapters without an entry in adapterRegistrations

Known(slug) == slug \in DOMAIN Chains
Vendor(slug, v) == Chains[slug].vendors[v]
Text(v) == v \notin {Absent, Garbage, Empty}
\* normalizeAddress and isValidAddress: any text is an address of a family without a validator.
Address(slug, v) == v \notin {Absent, Garbage} /\ (Chains[slug].family \in Validated => v # Empty)

\* servesChain of the two RPC adapters: curated hosts and a known native currency.
ServesRpc(slug, family) ==
  /\ Chains[slug].family = family
  /\ Absent \notin {Chains[slug].hosts, Chains[slug].symbol, Chains[slug].decimals}

\* capabilities()
Capabilities ==
  [defillama |-> {"protocol.tvl", "chain.tvl", "dex.volume.history", "chain.tvl.history", "protocol.list",
                  "protocol.tvl.history", "protocol.incidents"},
   dexscreener |-> {"pairs.active", "pool.info", "token.pools"},
   blockscout |-> {"token.holders", "entity.labels", "gas.price", "chain.transactions"},
   coingecko |-> {"token.price", "token.metadata"},
   evm |-> {"wallet.balances.native", "gas.price"},
   solana |-> {"wallet.balances.native"},
   bitcoin |-> {"chain.supply"},
   dash |-> {"privacy.shielded_pool", "platform.identities", "platform.contracts", "platform.documents",
             "platform.credits", "privacy.shielded_pool.history", "platform.metrics.history"},
   history |-> {"privacy.shielded_pool.history", "platform.metrics.history"}]

\* chainSupport
Supports(adapter, cap, slug) ==
  CASE adapter = "defillama" -> IF cap = "dex.volume.history" THEN Vendor(slug, "defillama") \in DexChains
                                ELSE Vendor(slug, "defillama") # Absent
    [] adapter = "dexscreener" -> Vendor(slug, "dexscreener") # Absent
    [] adapter = "coingecko" -> Vendor(slug, "coingecko") # Absent
    [] adapter = "blockscout" -> Chains[slug].evmId \in ExplorerIds
    [] adapter = "evm" -> ServesRpc(slug, "evm")
    [] adapter = "solana" -> ServesRpc(slug, "svm")
    [] adapter = "bitcoin" -> adapter \notin Disabled /\ slug = "bitcoin"
    [] adapter \in {"dash", "history"} -> slug = "dash"

----------------------------------------------------------------------------
(* The guards of fetch. *)

\* extractChainArg
OnDefillama(args) == Known(args.chain) /\ Vendor(args.chain, "defillama") # Absent
\* extractFetchArgs: an empty slug passes.
OfProtocol(args) == OnDefillama(args) /\ args.slug \notin {Absent, Garbage}
\* extractProtocolTvlHistoryArgs
OfHistory(args) == OfProtocol(args) /\ args.number # Garbage
\* extractProtocolListArgs: the limit and the least TVL are numbers in their bounds.
OfList(args) == OnDefillama(args) /\ args.number # Garbage /\ args.sort # Garbage

\* extractChainTvlHistoryArgs and extractDexVolumeArgs for the two series of a chain.
AcceptsDefillama(cap, args) ==
  CASE cap = "chain.tvl.history" -> OnDefillama(args) /\ args.number # Garbage
    [] cap = "dex.volume.history" ->
         /\ OnDefillama(args) /\ Vendor(args.chain, "defillama") \in DexChains
         /\ args.number # Garbage /\ args.flag # Garbage
    [] cap = "chain.tvl" -> OnDefillama(args)
    [] cap = "protocol.tvl" -> OfProtocol(args)
    [] cap = "protocol.list" -> OfList(args)
    [] cap = "protocol.tvl.history" -> OfHistory(args)
    [] cap = "protocol.incidents" -> Text(args.slug)

\* resolveChain and the extractors: a bad limit is the default one, the chain of a token is optional.
AcceptsDexscreener(cap, args) ==
  LET chain == Known(args.chain) /\ Vendor(args.chain, "dexscreener") # Absent
  IN CASE cap = "pairs.active" -> chain
       [] cap = "pool.info" -> chain /\ Text(args.address)
       [] cap = "token.pools" -> Text(args.address) /\ (args.chain = Absent \/ chain)

\* The facade is asked of any chain with an EVM id: coverage is the registry's to check.
AcceptsBlockscout(cap, args) ==
  /\ Known(args.chain) /\ Chains[args.chain].evmId # Absent
  /\ CASE cap = "token.holders" -> Chains[args.chain].family = "evm" /\ Address(args.chain, args.address)
       [] cap = "entity.labels" ->
            ~Text(args.query) /\ ~args.exhaustive
            /\ Chains[args.chain].family = "evm" /\ Address(args.chain, args.address)
       [] cap \in {"gas.price", "chain.transactions"} -> TRUE

AcceptsCoingecko(args) ==
  Known(args.chain) /\ Vendor(args.chain, "coingecko") # Absent /\ Address(args.chain, args.address)

AcceptsRpc(family, cap, args) ==
  /\ Known(args.chain) /\ ServesRpc(args.chain, family)
  /\ cap = "gas.price" \/ Address(args.chain, args.address)

Accepts(adapter, cap, args) ==
  /\ cap \in Capabilities[adapter]
  /\ CASE adapter = "defillama" -> AcceptsDefillama(cap, args)
       [] adapter = "dexscreener" -> AcceptsDexscreener(cap, args)
       [] adapter = "blockscout" -> AcceptsBlockscout(cap, args)
       [] adapter = "coingecko" -> AcceptsCoingecko(args)
       [] adapter = "evm" -> AcceptsRpc("evm", cap, args)
       [] adapter = "solana" -> AcceptsRpc("svm", cap, args)
       [] adapter = "bitcoin" -> "bitcoin" \notin Disabled /\ args.chain = "bitcoin"
       [] adapter \in {"dash", "history"} -> args.chain = "dash"

----------------------------------------------------------------------------
(* The requests of one fetch: [to, weight] each; a walk goes on to the next host. *)

Asks(adapter, cap, args) ==
  CASE ~Accepts(adapter, cap, args) -> Throws
    [] adapter = "defillama" -> <<cap>>
    [] adapter = "dexscreener" -> <<IF cap = "token.pools" /\ args.chain = Absent THEN "tokens" ELSE cap>>
    [] adapter = "blockscout" -> <<IF cap = "entity.labels" THEN "address-info" ELSE "direct">>
    [] adapter \in {"evm", "solana"} -> Chains[args.chain].hosts
    [] adapter = "bitcoin" -> <<"stats", "totalbc">>
    [] adapter \in {"coingecko", "dash", "history"} -> <<cap>>
==================================================================================
