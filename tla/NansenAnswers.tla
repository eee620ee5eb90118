------------------------------ MODULE NansenAnswers ------------------------------
(****************************************************************************)
(* What a paid call of Nansen asks, what it costs and what is made of the   *)
(* answers (adapters/nansen: index.ts, cost-of.ts, normalize.ts).           *)
(*                                                                          *)
(* args is [chain, query, token, exhaustive, premium]: query is Absent or a *)
(* text, Empty one of them; token is Absent, an address, or Garbage, a text *)
(* that is none.  A chain of the registry is [family, token, deprecated]:   *)
(* token is the vendor's name of it, or Absent.                             *)
(* An address is [id, form]: the form is "canonical" (of EVM, where case    *)
(* says nothing), "mixed", or "bad" where the chain does not accept it.     *)
(****************************************************************************)
EXTENDS Integers, Sequences, SequencesExt, FiniteSetsExt

CONSTANTS
  Absent, Garbage, Empty, Throws,
  Infinite,              \* the price of what has no price
  Chains,                \* slug -> chain of the registry
  Validated,             \* the families with an address validator
  CoveredTokens,         \* NANSEN_CHAIN_COVERAGE: capability -> vendor names
  ExhaustiveTokens,      \* NANSEN_EXHAUSTIVE_LABELS_CHAINS
  CostTable,             \* NANSEN_COST_TABLE: endpoint -> [free, pro]
  PremiumLabelsCost,     \* NANSEN_PREMIUM_LABELS_COST
  MaxRows                \* MAX_VENDOR_ROWS

IsNumber(v) == v \notin {Absent, Garbage}

\* nansenServesChain
Serves(slug, cap) ==
  /\ slug \in DOMAIN Chains
  /\ LET c == Chains[slug]
     IN /\ ~c.deprecated /\ c.family \in Validated /\ c.token # Absent
        /\ cap \in DOMAIN CoveredTokens /\ c.token \in CoveredTokens[cap]

\* validateArgs: resolveVendorChain and the arguments of the capability, before anything is paid.
ValidArgs(cap, args) ==
  CASE cap \in {"smart-money.flows", "token.risk"} ->
         args.token \notin {Absent, Garbage} /\ Serves(args.chain, cap)
    [] cap = "entity.labels" ->
         /\ Serves(args.chain, cap)
         /\ args.token # Garbage
         /\ args.exhaustive => Chains[args.chain].token \in ExhaustiveTokens /\ args.token # Absent
         /\ args.query \in {Absent, Empty} => args.token # Absent
    [] OTHER -> TRUE

----------------------------------------------------------------------------
(* cost-of.ts *)

\* Mutant: the endpoints of the default tier, whatever was given.
EndpointsOfDefault(cap, args) ==
  CASE cap = "smart-money.flows" -> <<"netflow", "holders">>
    [] cap = "entity.labels" -> <<"search", "entity-name", "holders">>
    [] cap = "token.risk" -> <<"indicators", "information">>
    [] OTHER -> Absent

EndpointsFor(cap, args) ==
  CASE cap = "smart-money.flows" -> <<"netflow", "holders">>
    [] cap = "entity.labels" /\ args.exhaustive -> <<"profiler">>
    [] cap = "entity.labels" /\ ~args.exhaustive /\ args.token # Absent -> <<"search", "entity-name", "holders">>
    [] cap = "entity.labels" /\ ~args.exhaustive /\ args.token = Absent -> <<"search", "entity-name">>
    [] cap = "token.risk" -> <<"indicators", "information">>
    [] OTHER -> Absent

\* The flat price of labelled holders takes the place of the endpoint's own.
CostOf(plan, cap, args) ==
  LET endpoints == EndpointsFor(cap, args)
      price(e) == IF e = "holders" /\ args.premium THEN PremiumLabelsCost ELSE CostTable[e][plan]
      unknown(e) == e \notin DOMAIN CostTable /\ ~(e = "holders" /\ args.premium)
  IN IF endpoints = Absent THEN Infinite
     ELSE IF \E i \in DOMAIN endpoints : unknown(endpoints[i]) THEN Infinite
     ELSE FoldLeft(LAMBDA total, e : total + price(e), 0, endpoints)

\* normalizeAddress, and the casing of the netflow filter: an EVM address has no case.
Fold(family, address) == IF family = "evm" THEN [address EXCEPT !.form = "canonical"] ELSE address

\* endpoints.ts: the request of an endpoint.  A search is of the text as it was given, the
\* search of entities is of no chain, and only holders are asked with labels.
Post(endpoint, args) ==
  LET chain == Chains[args.chain]
  IN [endpoint |-> endpoint,
      chain |-> IF endpoint = "entity-name" THEN Absent ELSE chain.token,
      subject |-> IF endpoint \notin {"search", "entity-name"} THEN Fold(chain.family, args.token)
                  ELSE IF args.query # Absent THEN args.query ELSE args.token,
      labelled |-> endpoint = "holders" /\ args.premium]

\* performSubCalls: the requests of a call.
SubCalls(cap, args) ==
  LET sent(e) == Post(e, args)
      holders == IF args.token # Absent THEN <<sent("holders")>> ELSE <<>>
  IN CASE cap = "smart-money.flows" -> <<sent("netflow"), sent("holders")>>
       [] cap = "token.risk" -> <<sent("indicators"), sent("information")>>
       [] cap = "entity.labels" ->
            IF args.exhaustive THEN <<sent("profiler")>>
            ELSE <<sent("search"), sent("entity-name")>> \o holders
       [] OTHER -> <<>>

----------------------------------------------------------------------------
(* normalize.ts *)

Valid(address) == address # Absent /\ address.form # "bad"

Rows(body) == IF body = Garbage THEN <<>> ELSE SubSeq(body, 1, Min({MaxRows, Len(body)}))

\* mapTopHolders: a share of nothing against a balance is left out.
TopHolders(body, family) ==
  LET rows == SelectSeq(Rows(body), LAMBDA r : Valid(r.address))
      contradicts(r) == /\ r.share = 0
                        /\ (IsNumber(r.amount) /\ r.amount > 0) \/ (IsNumber(r.value) /\ r.value > 0)
  IN [i \in DOMAIN rows |->
       [address |-> Fold(family, rows[i].address), amount |-> rows[i].amount, value |-> rows[i].value,
        share |-> IF contradicts(rows[i]) THEN Absent ELSE rows[i].share]]

\* The row of the token; a lone row that names none is that of the filter.
RowOf(rows, token, family) ==
  LET matching == SelectSeq(rows, LAMBDA r : r.token # Absent /\ Fold(family, r.token) = Fold(family, token))
  IN IF matching # <<>> THEN Head(matching)
     ELSE IF Len(rows) = 1 /\ Head(rows).token = Absent THEN Head(rows)
     ELSE Absent

Horizons == {"1h", "24h", "7d", "30d"}

\* normalizeSmartMoneyFlow
SmartMoneyFlow(netflow, holders, token, family) ==
  LET row == IF netflow = Garbage THEN Absent ELSE RowOf(netflow, token, family)
  IN IF row = Absent THEN Throws
     ELSE IF \E h \in Horizons : ~IsNumber(row.flows[h]) THEN Throws
     ELSE [token |-> token, flows |-> row.flows, top |-> TopHolders(holders, family)]

\* mapSearchGeneral, mapHolderLabels: an entity has no address, a token of another chain is left out.
EntityEntries(tokens, entities, holders, slug) ==
  LET c == Chains[slug]
      onChain == SelectSeq(Rows(tokens), LAMBDA r : r.chain = c.token /\ Valid(r.address))
      held == SelectSeq(Rows(holders), LAMBDA r : Valid(r.address))
      entry(address, labels) == [address |-> address, labels |-> labels]
  IN [i \in DOMAIN onChain |-> entry(Fold(c.family, onChain[i].address), {})]
     \o [i \in DOMAIN Rows(entities) |-> entry(Absent, {})]
     \o [i \in DOMAIN held |-> entry(Fold(c.family, held[i].address), {held[i].label} \ {Absent})]

\* The exhaustive tier: the labels of the one address asked.
ProfilerEntry(body, address, family) ==
  IF body = Garbage THEN Throws
  ELSE [address |-> Fold(family, address), labels |-> Range(Rows(body)) \ {Absent, Garbage}]

\* normalizeTokenRiskScore: an indicator without a type spoils the answer, a figure is left out.
TokenRisk(risk, reward, figures) ==
  IF Garbage \in {risk, reward} \/ Garbage \in Range(Rows(risk)) \cup Range(Rows(reward)) THEN Throws
  ELSE [risk |-> Rows(risk), reward |-> Rows(reward),
        figures |-> [k \in {k \in DOMAIN figures : IsNumber(figures[k]) /\ figures[k] >= 0} |-> figures[k]]]
==================================================================================
