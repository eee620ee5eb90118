--------------------------------- MODULE MCAnswers ---------------------------------
(* The inputs the answers are computed of: every sequence of up to a few rows of a kind. *)
EXTENDS Answers, TLC

UpTo(n, S) == UNION {[1..k -> S] : k \in 0..n}
Figure == {Absent, Garbage, 1, 2}

\* Days of two instants: bad instants and bad values, several values in a day, gaps, a
\* history that starts inside the window; and long series, for the recent level.
Entry == [at : {Garbage, 0, 2, 3, 4, 7}, value : {Garbage, 0, 3}]
LongSeries == {[i \in 1..n |-> [at |-> 2 * i, value |-> v[i]]] :
                 n \in 4..5, v \in [1..5 -> {1, 3, 5}]}
History == [entries : UpTo(3, Entry), days : {2, 3}, now : {5}] \cup [entries : LongSeries, days : {5, 9}, now : {11}]
Entries == {<<>>, <<[at |-> 2, value |-> 3]>>, <<[at |-> 2, value |-> Garbage]>>}
ProtocolHistory ==
  [perChain : UpTo(2, [slug : {"op", "eth", Absent}, entries : Entries]), slug : {"op"}, days : {2}, now : {5}]
Volume == [body : [chain : {"Ethereum", "Base"}, chart : UpTo(2, [at : {0, 2, 3, 4}, value : {0, 3}]),
                   totals : [h24 : {Absent, Garbage, 0, 3}, d7 : {Absent, 4}]],
           vendor : {"Ethereum"}, days : {2}, series : BOOLEAN, now : {5}]

\* The vendor's current and older name of one chain, another chain, and a name nobody knows.
MCRegistry == [op |-> "OP Mainnet", eth |-> "Ethereum", new |-> Absent]
MCLegacy == [x \in {"OP Mainnet"} |-> "Optimism"]
Tvls == {<<>>} \cup {<<[name |-> n, tvl |-> t]>> : n \in {"OP Mainnet", "Optimism"}, t \in {Absent, 0, 5}}
  \cup {<<[name |-> "OP Mainnet", tvl |-> t], [name |-> "Optimism", tvl |-> u]>> : t, u \in {Absent, -1, 5}}
Row(slug, parent, id, excludes, chains, tvls, tvl) ==
  [slug |-> slug, parentSlug |-> parent, id |-> id, parentId |-> parent, excludes |-> excludes,
   chains |-> chains, chainTvls |-> tvls, tvl |-> tvl, d1 |-> Absent, d7 |-> tvl]
ChainLists == {<<>>, <<"Optimism">>, <<"Ethereum", "Fancy">>, <<"OP Mainnet", "Optimism">>}
ProtocolInput ==
  {[rows |-> <<Row(1, p, 1, x, c, t, 3), Row(2, 9, 2, FALSE, d, u, v)>>,
    slug |-> s, vendorTotal |-> 6, chain |-> "op"] :
     p \in {9, Absent}, x \in BOOLEAN, c, d \in ChainLists, t, u \in Tvls, v \in {Absent, 4}, s \in {1, 9}}
ChainRows == UpTo(2, [name : {"OP Mainnet", "Optimism", Absent}, tvl : {Absent, -1, 0, 5}])
ChainTvlInput == [body : {Garbage} \cup ChainRows, chain : {"op", "eth"}]
Lite == [x \in {1, 2} |-> [tvl |-> 4, prev |-> IF x = 1 THEN 2 ELSE 0]]
ListInput ==
  {[rows |-> <<Row(1, Absent, 1, FALSE, c, t, 3), Row(2, Absent, 2, FALSE, c, u, v), Row(3, Absent, 3, FALSE, c, t, Absent)>>,
    lite |-> Lite, chain |-> "op", sortedBy |-> k, minTvl |-> m, limit |-> l] :
     c \in {<<>>, <<"OP Mainnet">>}, t, u \in Tvls, v \in {Absent, -4}, m \in {0, 1}, l \in {1, 2},
     k \in {"tvl", "change1d", "change7d", "change30d"}}
Hack == [date : {Absent, 1, 2}, protocolId : {Absent, 1, 7}, parentId : {Absent, 9}, amount : {Absent, 0, 5}]
IncidentInput ==
  {[rows |-> <<Row(1, p, 1, FALSE, <<>>, <<>>, 3)>>, hacks |-> h, slug |-> s] :
     p \in {9, Absent}, h \in UpTo(2, Hack), s \in {1, 2}}

\* A vendor that sends two rows of the three it may have.
MCVendorChains == [eth |-> "ethereum", sol |-> "solana"]
Pool(c, a, ok) == [chain |-> c, address |-> a, valid |-> ok]
Pools == {Pool("ethereum", "a", TRUE), Pool("ethereum", "b", TRUE), Pool("ethereum", "b", FALSE),
          Pool("ethereum", Absent, FALSE), Pool("solana", "a", TRUE), Pool("fancy", "a", TRUE)}
PoolPages == {s \in UpTo(3, Pools) :
                \A i, j \in DOMAIN s : i # j /\ s[i].address = s[j].address => s[i].chain # s[j].chain}
SearchInput == [has : [1..2 -> PoolPages], chain : {"eth"}, wrapped : {"WETH"}, limit : {1, 2}]
  \cup [has : [1..2 -> UpTo(1, Pools)], chain : {"eth", "none"}, wrapped : {Absent, "WETH"}, limit : {1}]
TokenPoolsInput == [has : PoolPages, chain : {"eth", Absent}, limit : {1, 2, 3}]
PoolInput == [rows : UpTo(1, Pools), chain : {"eth"},
              evm : [family : {"evm", "svm"}, hosts : {0, 1}],
              outcomes : UpTo(2, [kind : {"http", "revert", "deadline", "malformed"}, value : {Absent}]
                                  \cup [kind : {"answer"}, value : {0, 100, 150, 16777216}])]
Tag == [named : BOOLEAN, ordinal : {Absent, 1, 2}, name : {Absent, "n"}]
Holder == [hash : {Garbage, "a"}, amount : {Garbage, 1}, cut : BOOLEAN, tokenId : {Absent, Garbage},
           tags : {<<>>, <<[named |-> FALSE, ordinal |-> 2, name |-> "tag"], [named |-> TRUE, ordinal |-> 1, name |-> "n"]>>}]
HolderInput == {[has |-> h, sends |-> n] : h \in UpTo(2, Holder), n \in 0..2}
SendableHolders == {x \in HolderInput : x.sends <= Len(x.has)}
MetricRows == {[ts |-> t, metric |-> m, raw |-> r] : t \in 1..3, m \in {"pool", "other"}, r \in {Absent, 1}}
RowsInput == [rows : {s \in UpTo(3, MetricRows) : \A i, j \in DOMAIN s : i # j => s[i].ts # s[j].ts},
              metrics : {{"pool"}}, limit : {1, 2}]

Leaf(v) == [leaf |-> v]
Bodies1 == {Leaf(1)} \cup {[fields |-> [k \in K |-> Leaf(2)]] : K \in SUBSET {"url", "name"}}
Bodies == Bodies1 \cup {[items |-> s] : s \in UpTo(2, Bodies1)}
  \cup {[fields |-> [k \in {j} |-> [items |-> <<b>>]]] : j \in {"url", "name"}, b \in Bodies1}
Gas == {Garbage} \cup [slow : Figure, average : Figure, fast : Figure, stamp : {Absent, 7}]
LabelInput == [args : [query : BOOLEAN, address : BOOLEAN, exhaustive : BOOLEAN], tags : UpTo(2, Tag)]
\* The digits of a balance may be missing.
Curated == [family : {"evm", "svm"}, hosts : {Absent, 1}, symbol : {"c"}, decimals : {Absent, 9}]
Balances == {[on |-> c, family |-> f, balance |-> n, digits |-> d] :
               c \in Curated, f \in {"evm", "svm"}, n \in 0..20, d \in {Absent}}
            \cup {[on |-> c, family |-> f, balance |-> n, digits |-> n] :
               c \in Curated, f \in {"evm", "svm"}, n \in 0..20}
DashStatus == [c \in Chain!DashCapabilities |-> IF c = "platform.credits" THEN Absent ELSE 3] @@ ("height" :> 7)
DashInput == [live : BOOLEAN, cap : Chain!DashCapabilities \cup {"gas.price"}, status : {DashStatus}]
DashSeries == [cap : Chain!DashHistories \cup {"gas.price"},
               points : UpTo(2, [ts : {Garbage, 1}, value : {Absent, 1}]) \cup {Garbage}]
CoinInput == [platforms : {[x \in {"ethereum"} |-> "0x"]}, platform : {"ethereum", "base"}, price : {Absent, 1}]
Supplies == [emission : 0..22 \cup {Garbage}, blocks : 0..14, circulating : {0, 4, Absent}]
Keys == [pro : {Absent, "p"}, demo : {Absent, "d"}]

Coin(family, id, hosts, token, defillama, gecko) ==
  [family |-> family, evmId |-> id, hosts |-> hosts, symbol |-> "c", decimals |-> IF family = "other" THEN Absent ELSE 9,
   token |-> token, deprecated |-> FALSE,
   vendors |-> [defillama |-> defillama, dexscreener |-> token, coingecko |-> gecko]]
MCChains ==
  [eth |-> Coin("evm", 1, <<"h1", "h2">>, "ethereum", "Ethereum", "ethereum"),
   sol |-> Coin("svm", Absent, <<"h3">>, "solana", "Solana", "solana"),
   old |-> [Coin("evm", 2, Absent, "ethereum", Absent, Absent) EXCEPT !.deprecated = TRUE],
   dash |-> Coin("other", Absent, Absent, Absent, "Dash", "dash"),
   bitcoin |-> Coin("other", Absent, Absent, Absent, "Bitcoin", Absent)]
AdapterAsks == [adapter : DOMAIN Request!Capabilities, cap : UNION {Request!Capabilities[a] : a \in DOMAIN Request!Capabilities},
             args : [chain : {"eth", "sol", "old", "dash", "bitcoin", "none", Absent}, slug : {Absent, Empty, "s"},
                     number : {Absent, Garbage, 3}, flag : {Absent, Garbage}, sort : {Absent}, address : {Absent, Empty, "a"},
                     query : {Absent, "q"}, exhaustive : BOOLEAN]]
Asked == {r \in AdapterAsks : r.cap \in Request!Capabilities[r.adapter]}
MCCovered == [c \in {"smart-money.flows", "entity.labels", "token.risk"} |-> {"ethereum", "solana"}]
Cost(n) == [free |-> n, pro |-> n + 1]
MCCostTable ==
  [netflow |-> Cost(5), holders |-> Cost(5), search |-> Cost(0), profiler |-> Cost(100),
   indicators |-> Cost(5), information |-> Cost(1)] @@ ("entity-name" :> Cost(0))
Addresses == [id : {1, 2}, form : {"canonical", "mixed", "bad"}]
Paid == [cap : {"smart-money.flows", "entity.labels", "token.risk", "gas.price"}, plan : {"free", "pro"},
         args : [chain : DOMAIN MCChains \cup {"none"}, query : {Absent, Empty, "q"},
                 token : {Absent, Garbage, [id |-> 1, form |-> "mixed"]},
                 exhaustive : BOOLEAN, premium : BOOLEAN]]
FlowRow == [token : {Absent} \cup [id : {1, 2}, form : {"canonical", "mixed"}],
            flows : [{"1h", "24h", "7d", "30d"} -> {1}] \cup [{"1h", "24h", "7d", "30d"} -> {2}]
                      \cup [{"1h", "24h", "7d", "30d"} -> {Garbage}]]
Held == {<<>>, <<[address |-> [id |-> 1, form |-> "bad"], amount |-> 1, value |-> 1, share |-> 1],
                 [address |-> [id |-> 2, form |-> "mixed"], amount |-> 1, value |-> Absent, share |-> 0]>>}
Labelled == [address : {[id |-> 1, form |-> "bad"], [id |-> 2, form |-> "mixed"]}, label : {Absent, "fund"}]
EntityInput == [tokens : {Garbage} \cup UpTo(1, [chain : {"ethereum", "solana"}, address : Addresses]),
                entities : {<<>>, <<"e">>}, holders : UpTo(2, Labelled), chain : {"eth", "sol"},
                profiler : {Absent, Garbage, <<"fund", Garbage>>}, address : {[id |-> 1, form |-> "mixed"]}]
RiskInput == [risk : {Garbage, <<>>, <<"r">>, <<Garbage>>}, reward : {Garbage, <<"r">>},
              figures : [{"fdv", "supply"} -> {Absent, Garbage, -1, 1}]]
Flow == [netflow : UpTo(2, FlowRow) \cup {Garbage}, holders : Held \cup {Garbage},
         token : [id : {1}, form : {"mixed", "canonical"}], family : {"evm", "svm"}]

MCInputs ==
  [request |-> Asked, incidents |-> IncidentInput, search |-> SearchInput, holders |-> SendableHolders,
   labels |-> LabelInput, body |-> Bodies, gas |-> Gas, activity |-> {Garbage} \cup [day : Figure, total : Figure], balance |-> Balances, bitcoin |-> Supplies,
   coingecko |-> Keys, paid |-> Paid, flow |-> Flow,
   token |-> CoinInput, dash |-> DashInput, entities |-> EntityInput, risk |-> RiskInput]
  @@ ("tvl.history" :> History) @@ ("protocol.history" :> ProtocolHistory) @@ ("dex.volume" :> Volume)
  @@ ("chain.tvl" :> ChainTvlInput) @@ ("protocol.tvl" :> ProtocolInput) @@ ("protocol.list" :> ListInput)
  @@ ("token.pools" :> TokenPoolsInput) @@ ("pool.info" :> PoolInput) @@ ("explorer.history" :> RowsInput)
  @@ ("dash.history" :> DashSeries)
====================================================================================
