---------------------------------- MODULE Answers ----------------------------------
(****************************************************************************)
(* The pure part of the adapters: one answer of a vendor becomes one answer *)
(* of the server.  A behaviour is one question: an input of the topic, the  *)
(* answer the code computes of it, and the invariants compare that answer   *)
(* with what the vendor has.                                                *)
(****************************************************************************)
EXTENDS Integers, Sequences, SequencesExt, FiniteSetsExt, Functions

CONSTANTS
  Absent, Garbage, Throws, Empty, Infinite,
  DayLength, Earliest,
  Registry, Legacy,
  PageSize, VendorChains,
  DroppedKeys, MaxDepth, HoldersPage, MaxLabelTags,
  MaxSafe, HalvingInterval, InitialSubsidy,
  Chains, Validated, CoveredTokens, ExhaustiveTokens, CostTable, PremiumLabelsCost, MaxRows,
  DexChains, ExplorerIds, Disabled,
  Inputs          \* topic -> the set of inputs

VARIABLES topic, input, answer

answerVars == <<topic, input, answer>>

Daily == INSTANCE DailySeries
Catalog == INSTANCE ProtocolCatalog
Pairs == INSTANCE PairAnswers
Explorer == INSTANCE ExplorerAnswers
Chain == INSTANCE ChainAnswers
Nansen == INSTANCE NansenAnswers
Request == INSTANCE AdapterRequests

IsNumber(v) == v \notin {Absent, Garbage}
Sent(rows) == SubSeq(rows, 1, Min({PageSize, Len(rows)}))

\* One page for each query of the chain.
SearchPages(in) == [i \in DOMAIN Pairs!Queries(in.chain, in.wrapped) |-> Sent(in.has[i])]

Answer(t, in) ==
  CASE t = "request" -> Request!Asks(in.adapter, in.cap, in.args)
    [] t = "tvl.history" -> Daily!ChainTvlHistory(in.entries, in.days, in.now)
    [] t = "protocol.history" -> Daily!ProtocolTvlHistory(in.perChain, in.slug, in.days, in.now)
    [] t = "dex.volume" -> Daily!DexVolume(in.body, in.vendor, in.days, in.series, in.now)
    [] t = "protocol.tvl" -> Catalog!ProtocolTvl(in.rows, in.slug, in.vendorTotal, in.chain)
    [] t = "chain.tvl" -> Catalog!ChainTvl(in.body, in.chain)
    [] t = "protocol.list" ->
         Catalog!ProtocolList(in.rows, in.lite, in.chain, in.sortedBy, in.minTvl, in.limit)
    [] t = "incidents" -> Catalog!ProtocolIncidents(in.rows, in.hacks, in.slug)
    [] t = "search" -> IF Pairs!Covered(in.chain) THEN Pairs!Search(SearchPages(in), in.chain, in.limit) ELSE Throws
    [] t = "token.pools" -> Pairs!TokenPools(Sent(in.has), in.chain, in.limit)
    [] t = "pool.info" -> Pairs!PoolInfo(in.rows, in.chain, Pairs!ReadFeeTier(in.evm, in.outcomes))
    [] t = "holders" ->
         Explorer!Holders([items |-> SubSeq(in.has, 1, in.sends), next |-> in.sends < Len(in.has)])
    [] t = "labels" -> IF Explorer!LabelsRefused(in.args) THEN Throws ELSE Explorer!Labels(in.tags)
    [] t = "body" -> Explorer!Sanitize(in)
    [] t = "gas" -> Explorer!GasPrice(in)
    [] t = "activity" -> Explorer!ChainTransactions(in)
    [] t = "balance" ->
         IF ~Chain!ServesChain(in.on, in.family) THEN Throws
         ELSE IF in.family = "svm" THEN Chain!SolanaAmount(Chain!Double(in.balance), in.digits)
         ELSE Chain!EvmAmount(in.digits)
    [] t = "bitcoin" -> Chain!Supply(in.emission, in.blocks, in.circulating)
    [] t = "coingecko" -> Chain!CoingeckoRequest(in)
    [] t = "token" -> Chain!CoingeckoToken(in.platforms, in.platform, in.price)
    [] t = "dash" -> IF in.live THEN Chain!PlatformSnapshot(in.cap, in.status)
                     ELSE Chain!ExplorerSnapshot(in.cap, in.status)
    [] t = "dash.history" -> Chain!ExplorerHistory(in.cap, in.points)
    [] t = "explorer.history" -> Chain!HistoryRows(in.rows, in.metrics, in.limit)
    [] t = "paid" -> IF Nansen!ValidArgs(in.cap, in.args)
                     THEN [cost |-> Nansen!CostOf(in.plan, in.cap, in.args),
                           calls |-> Nansen!SubCalls(in.cap, in.args)]
                     ELSE Throws
    [] t = "entities" -> IF in.profiler = Absent
                         THEN Nansen!EntityEntries(in.tokens, in.entities, in.holders, in.chain)
                         ELSE Nansen!ProfilerEntry(in.profiler, in.address, Chains[in.chain].family)
    [] t = "risk" -> Nansen!TokenRisk(in.risk, in.reward, in.figures)
    [] t = "flow" -> Nansen!SmartMoneyFlow(in.netflow, in.holders, in.token, in.family)

AnswersInit == topic = Absent /\ input = Absent /\ answer = Absent

Ask ==
  /\ topic = Absent
  /\ topic' \in DOMAIN Inputs
  /\ input' \in Inputs[topic']
  /\ answer' = Answer(topic', input')


Answered(t) == topic = t /\ answer # Throws

----------------------------------------------------------------------------
(* A window of days (index.ts normalizeChainTvlHistory, normalizeDexVolume). *)

InTime(e) == IsNumber(e.at) /\ e.at \in Earliest..(input.now + DayLength)

\* The window names as many days as it spans, its points are the last figures sent for
\* their days, and every other day of it is a gap.
WindowTells(w, entries) ==
  /\ (w.to - w.from) \div DayLength + 1 = w.days
  /\ Len(w.series) + w.gapDays = w.days
  /\ \A i \in 2..Len(w.series) : w.series[i - 1].ts < w.series[i].ts
  /\ \A p \in Range(w.series) : \E i \in DOMAIN entries :
       /\ InTime(entries[i]) /\ Daily!Day(entries[i].at) = p.ts /\ entries[i].value = p.value
       /\ \A j \in DOMAIN entries :
            entries[j].at = entries[i].at /\ InTime(entries[j]) => j <= i
  /\ \A e \in Range(entries) :
       InTime(e) /\ Daily!Day(e.at) \in w.from..w.to => \E p \in Range(w.series) : p.ts = Daily!Day(e.at)

\* What the last point says moves the change to it and never the recent level.
LevelIgnoresLast(series) ==
  Len(series) >= 2 =>
    Daily!ChangeAcross(series).recentLevel =
    Daily!ChangeAcross([series EXCEPT ![Len(series)].value = @ + 1]).recentLevel

\* A series the server tells accounts for every day of its window, with the last figure sent
\* of each day, the gaps as gaps, and a recent level apart from a partial last day
\* (daily-series.ts bucketDailyPoints, windowDailySeries, changeAcross).
SeriesHonest ==
  /\ Answered("tvl.history") => /\ WindowTells(answer.window, input.entries)
                                /\ LevelIgnoresLast(answer.window.series)
  /\ Answered("dex.volume") =>
       /\ input.series => WindowTells(answer.window, input.body.chart)
       /\ answer.asOf # Absent =>
            \E e \in Range(input.body.chart) :
              /\ Daily!Day(e.at) = answer.asOf /\ e.value = input.body.totals.h24
              /\ answer.asOf # Daily!Day(input.now)
  /\ Answered("protocol.history") /\ ~answer.deployed =>
       \A i \in DOMAIN input.perChain : input.perChain[i].slug # input.slug

----------------------------------------------------------------------------
(* A page of a longer list. *)

OnChain(rows, chain) == {r \in Range(rows) : chain = Absent \/ r.chain = VendorChains[chain]}
Lists(pools, rows) == \A r \in rows : \E p \in Range(pools) : p.address = r.address

\* A page that is not marked truncated holds every row the vendor has for what it was asked,
\* and no page holds a pair twice (dexscreener normalizeSearch, normalizeTokenPools; blockscout
\* normalizeHolders).
PageHonest ==
  /\ Answered("search") =>
       /\ ~answer.truncated =>
            LET asked == Pairs!Asked(SearchPages(input), input.chain, input.limit)
            IN \A i \in DOMAIN asked : Lists(answer.pools, OnChain(input.has[i], input.chain))
       /\ \A i, j \in DOMAIN answer.pools :
            i # j => answer.pools[i].address # answer.pools[j].address
  /\ Answered("token.pools") /\ ~answer.truncated =>
       Lists(answer.pools, OnChain(input.has, input.chain))
  /\ Answered("holders") /\ ~answer.truncated =>
       /\ Len(answer.holders) = Len(input.has)
       /\ answer.dropped = 0
  /\ Answered("explorer.history") =>
       \A r \in Range(input.rows) : r.metric \in input.metrics =>
         r \in Range(answer) \/ (Len(answer) = input.limit /\ \A a \in Range(answer) : a.ts >= r.ts)

----------------------------------------------------------------------------
(* The catalog of protocols. *)

NamesOf(slug) == {Registry[slug]} \cup
  (IF Registry[slug] \in DOMAIN Legacy THEN {Legacy[Registry[slug]]} ELSE {})
Names(row, slug) ==
  (Range(row.chains) \cup {row.chainTvls[i].name : i \in DOMAIN row.chainTvls}) \cap NamesOf(slug)
FiguresSent(row, slug) ==
  {c.tvl : c \in {c \in Range(row.chainTvls) : c.name \in NamesOf(slug) /\ IsNumber(c.tvl)}}

\* Each row gives a chain one of the figures it has for it, and only a chain with no figure
\* in any row has none.
DeploymentTells(rows, slug, tvl) ==
  LET having == {i \in DOMAIN rows : FiguresSent(rows[i], slug) # {}}
  IN IF having = {} THEN tvl = Absent
     ELSE \E f \in [having -> UNION {FiguresSent(rows[i], slug) : i \in having}] :
            /\ \A i \in having : f[i] \in FiguresSent(rows[i], slug)
            /\ tvl = FoldSet(LAMBDA i, a : a + f[i], 0, having)

Resolved == Catalog!ResolveProtocol(input.rows, input.slug).rows

\* A figure nobody published stays unknown and ranks after every figure, a deployment is
\* counted once though its chain has two names, "not deployed" is said only where no row
\* names the chain, and a chain is told the figure of its own row and never a debt (index.ts
\* normalizeProtocolTvl, normalizeChainTvl, normalizeProtocolList, normalizeProtocolIncidents).
CatalogHonest ==
  /\ Answered("chain.tvl") =>
       answer >= 0 /\ \E r \in Range(input.body) : r.name = Registry[input.chain] /\ r.tvl = answer
  /\ Answered("protocol.tvl") =>
       /\ \A slug \in DOMAIN answer.deployments :
            DeploymentTells(Resolved, slug, answer.deployments[slug])
       /\ answer.deployed <=> \E i \in DOMAIN Resolved : Names(Resolved[i], input.chain) # {}
  /\ Answered("protocol.list") =>
       LET key(p) == Catalog!Key(p, input.sortedBy)
           told == {p.slug : p \in Range(answer.protocols)}
       IN \A i \in DOMAIN answer.protocols : \A r \in Range(input.rows) :
            r.slug \notin told /\ Catalog!Matches(r, input.chain, input.minTvl) =>
              LET p == Catalog!Listed(r, input.lite, input.chain)
              IN key(p) # Absent =>
                   key(answer.protocols[i]) # Absent /\ key(answer.protocols[i]) >= key(p)
  /\ Answered("incidents") =>
       /\ answer.total = Absent <=> \A h \in Range(answer.incidents) : h.amount = Absent
       /\ \A h \in Range(input.hacks) :
            h.date # Absent /\ h.protocolId # Absent
            /\ (\E r \in Range(input.rows) : r.slug = input.slug /\ r.id = h.protocolId)
              => \E n \in Range(answer.incidents) : n.ts = h.date

----------------------------------------------------------------------------
(* Exact figures. *)

RECURSIVE DroppedInside(_)
DroppedInside(body) ==
  IF "items" \in DOMAIN body THEN \E i \in DOMAIN body.items : DroppedInside(body.items[i])
  ELSE IF "fields" \in DOMAIN body
       THEN \E k \in DOMAIN body.fields : k \in DroppedKeys \/ DroppedInside(body.fields[k])
  ELSE FALSE

\* A figure the server tells is the one the chain or the vendor has, to the last digit, or
\* none: balances beyond what a double holds, the coins of bitcoin against the sum of the
\* subsidies of its blocks, a fee in whole basis points, the tiers of one gas price, an amount of
\* a holder the vendor did not cut short; and no key of a vendor's prose survives in a body
\* (rpc-solana normalize, bitcoin-emission.ts, fee-tier.ts, blockscout index.ts and sanitize.ts).
AmountsExact ==
  /\ Answered("balance") => answer = input.balance
  /\ Answered("bitcoin") =>
       answer.emission = FoldSet(LAMBDA h, a : a + Chain!SubsidyAtHeight(h), 0, 0..(input.blocks - 1))
  /\ Answered("pool.info") /\ answer.fee # Absent =>
       \E i \in DOMAIN input.outcomes : input.outcomes[i].value = answer.fee * Pairs!RawUnitsPerBp
  /\ Answered("gas") /\ answer.tiers # Absent =>
       \A k \in DOMAIN answer.tiers : IsNumber(input[k]) /\ answer.tiers[k] = input[k]
  /\ Answered("holders") =>
       \A h \in Range(answer.holders) :
         \E r \in Range(input.has) : r.hash = h.hash /\ r.amount = h.amount /\ ~r.cut
  /\ Answered("body") => ~DroppedInside(answer)
  /\ Answered("dash") /\ answer.height # Absent => answer.height = input.status.height
  /\ Answered("coingecko") => answer.host = "pro" <=> input.pro # Absent

----------------------------------------------------------------------------
(* What is served. *)

\* Arguments a caller may give to any capability on a chain.
WellFormed(args) ==
  /\ Request!Text(args.slug) /\ Request!Text(args.address)
  /\ args.number # Garbage /\ args.flag # Garbage
  /\ args.query = Absent /\ ~args.exhaustive

PriceOf(call, plan) == IF call.labelled THEN PremiumLabelsCost ELSE CostTable[call.endpoint][plan]

\* A chain an adapter says it serves is not refused by its fetch, what a paid call reserves is
\* the price of the requests it sends, one by one, two spellings of a token send the same ones,
\* the row it answers with is the row of the token asked, and a label stays with the address that
\* bears it (chainSupport against fetch of each adapter; nansen cost-of.ts against performSubCalls
\* in index.ts; normalizeSmartMoneyFlow, normalizeEntityLabels).
ServedAsAsked ==
  /\ topic = "request" /\ WellFormed(input.args) /\ Request!Known(input.args.chain)
     /\ Request!Supports(input.adapter, input.cap, input.args.chain) => answer # Throws
  /\ Answered("paid") /\ answer.calls # <<>> =>
       /\ answer.cost = FoldLeft(LAMBDA a, c : a + PriceOf(c, input.plan), 0, answer.calls)
       /\ input.cap # "entity.labels" /\ Chains[input.args.chain].family = "evm" =>
            answer.calls = Nansen!SubCalls(input.cap, [input.args EXCEPT !.token.form = "canonical"])
  /\ Answered("flow") =>
       \E r \in Range(input.netflow) :
         /\ r.flows = answer.flows
         /\ r.token = Absent \/ Nansen!Fold(input.family, r.token) = Nansen!Fold(input.family, input.token)
  /\ Answered("entities") /\ input.profiler = Absent =>
       \A e \in Range(answer) : e.labels # {} =>
         \E h \in Range(input.holders) :
           /\ e.labels = {h.label}
           /\ Nansen!Fold(Chains[input.chain].family, h.address) = e.address
====================================================================================
