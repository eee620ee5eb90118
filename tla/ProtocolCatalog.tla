----------------------------- MODULE ProtocolCatalog -----------------------------
(****************************************************************************)
(* What the defillama adapter makes of the vendor's catalog of protocols    *)
(* (adapters/defillama/index.ts): a slug resolves to rows, rows to TVL on   *)
(* each chain, to a list of protocols and to the incidents of one.          *)
(*                                                                          *)
(* A row is [slug, parentSlug, id, parentId, excludes, chains, chainTvls,   *)
(* tvl, d1, d7]: chains is a sequence of the vendor's names, chainTvls a    *)
(* sequence of [name, tvl].  The vendor has two names for some chains.      *)
(****************************************************************************)
EXTENDS Integers, Sequences, SequencesExt, FiniteSetsExt, Functions

CONSTANTS
  Absent, Garbage, Throws,
  Registry,     \* the chains of the registry: slug -> the vendor's current name, or Absent
  Legacy        \* the vendor's current name -> an older name of it, where it has one

IsNumber(v) == v \notin {Absent, Garbage}
Number(v) == IF IsNumber(v) THEN v ELSE Absent      \* optionalNumber

\* Mutant: the catalog is read by the current names only.
CurrentNames == {<<Registry[s], s>> : s \in {s \in DOMAIN Registry : Registry[s] # Absent}}
\* vendorChainToSlug: the current names, and an older one where no chain has it as current.
NamesToSlugs ==
  CurrentNames \cup
  {<<Legacy[p[1]], p[2]>> : p \in {p \in CurrentNames :
      p[1] \in DOMAIN Legacy /\ \A q \in CurrentNames : q[1] # Legacy[p[1]]}}

SlugOf(name) ==
  IF \E p \in NamesToSlugs : p[1] = name THEN (CHOOSE p \in NamesToSlugs : p[1] = name)[2] ELSE Absent

(* resolveProtocol: the row of the slug, or the rows it is the parent of. *)
ResolveProtocol(rows, slug) ==
  LET direct == SelectSeq(rows, LAMBDA r : r.slug = slug)
      children == SelectSeq(rows, LAMBDA r : r.parentSlug = slug)
  IN IF direct # <<>> THEN [kind |-> "direct", rows |-> <<Head(direct)>>]
     ELSE IF children = <<>> THEN Absent
     ELSE [kind |-> IF \E i \in DOMAIN children : children[i].excludes
                    THEN "vendor-aggregate" ELSE "aggregate",
           rows |-> children]

\* rowChainTvl: a figure that is not a number is no figure.
RowChainTvl(row, name) ==
  LET named == {i \in DOMAIN row.chainTvls : row.chainTvls[i].name = name}
  IN IF named = {} THEN Absent ELSE Number(row.chainTvls[Max(named)].tvl)

TvlNames(row) == [i \in DOMAIN row.chainTvls |-> row.chainTvls[i].name]

----------------------------------------------------------------------------
(* protocol.tvl *)

\* The name one row is read by for a chain: the last with a figure, or the last it declares.
NameRead(row, slug) ==
  LET declared == SelectSeq(row.chains, LAMBDA n : SlugOf(n) = slug)
      keys == SelectSeq(TvlNames(row), LAMBDA n : SlugOf(n) = slug)
      measured == SelectSeq(keys, LAMBDA n : RowChainTvl(row, n) # Absent)
  IN IF measured # <<>> THEN Last(measured)
     ELSE IF declared # <<>> THEN Last(declared) ELSE Head(keys)

ChainsOf(row) == {SlugOf(n) : n \in Range(row.chains) \cup Range(TvlNames(row))} \ {Absent}

\* What the rows say of a chain: each of them once.
Figures(rows, slug) ==
  LET on == {i \in DOMAIN rows : slug \in ChainsOf(rows[i])}
  IN SetToSeq({<<i, RowChainTvl(rows[i], NameRead(rows[i], slug))>> : i \in on})

\* A figure nobody published is null, and null plus a figure is the figure.
SumOf(figures) ==
  LET numbers == SelectSeq(figures, LAMBDA f : f[2] # Absent)
  IN IF numbers = <<>> THEN Absent ELSE FoldLeft(LAMBDA a, f : a + f[2], 0, numbers)

\* A row's own total; the vendor's where the parent leaves tokens of its children out.
TotalTvl(resolved, vendorTotal) ==
  IF resolved.kind = "vendor-aggregate" THEN vendorTotal
  ELSE SumOf([i \in DOMAIN resolved.rows |-> <<i, Number(resolved.rows[i].tvl)>>])

\* normalizeProtocolTvl. A negative figure, wherever it is, makes the answer an error.
ProtocolTvl(rows, slug, vendorTotal, chain) ==
  LET resolved == ResolveProtocol(rows, slug)
  IN IF resolved = Absent THEN Throws
     ELSE LET chains == UNION {ChainsOf(resolved.rows[i]) : i \in DOMAIN resolved.rows}
              perChain == [s \in chains |-> SumOf(Figures(resolved.rows, s))]
              total == TotalTvl(resolved, vendorTotal)
              invalid(v) == v # Absent /\ v < 0
          IN IF \/ total = Absent \/ invalid(total)
                \/ \E s \in chains : invalid(perChain[s])
             THEN Throws
             ELSE [deployed |-> chain \in chains,
                   tvl |-> IF chain \in chains THEN perChain[chain] ELSE 0,
                   total |-> total,
                   deployments |-> perChain,
                   unmapped |-> FoldLeft(LAMBDA n, r :
                      n + Cardinality({i \in DOMAIN r.chains : SlugOf(r.chains[i]) = Absent}),
                      0, resolved.rows),
                   aggregatedFrom |-> IF resolved.kind = "direct" THEN {}
                                      ELSE {r.slug : r \in Range(resolved.rows)}]

\* normalizeChainTvl, of the catalog of chains: the first row that bears the chain's name.
ChainTvl(body, slug) ==
  LET rows == IF body = Garbage THEN <<>>
              ELSE SelectSeq(body, LAMBDA r : r.name = Registry[slug])
  IN IF rows = <<>> THEN Throws
     ELSE IF ~IsNumber(Head(rows).tvl) \/ Head(rows).tvl < 0 THEN Throws
     ELSE Head(rows).tvl

----------------------------------------------------------------------------
(* protocol.list *)

\* The change of a month, of the lite catalog: lite maps an id to [tvl, prev].
MonthChange(lite, id) ==
  IF id \in DOMAIN lite /\ Number(lite[id].tvl) # Absent /\ Number(lite[id].prev) \notin {Absent, 0}
  THEN (100 * (lite[id].tvl - lite[id].prev)) \div lite[id].prev
  ELSE Absent

ListName(row, slug) ==
  LET names == SelectSeq(row.chains \o TvlNames(row), LAMBDA n : SlugOf(n) = slug)
  IN IF names = <<>> THEN Absent ELSE Head(names)

Listed(row, lite, chain) ==
  [slug |-> row.slug, tvl |-> RowChainTvl(row, ListName(row, chain)),
   d1 |-> Number(row.d1), d7 |-> Number(row.d7), d30 |-> MonthChange(lite, row.id)]

Key(p, sortedBy) ==
  CASE sortedBy = "tvl" -> p.tvl [] sortedBy = "change1d" -> p.d1
    [] sortedBy = "change7d" -> p.d7 [] sortedBy = "change30d" -> p.d30

\* Figures from the largest; those nobody published last, by slug.
Before(p, q, sortedBy) ==
  LET a == Key(p, sortedBy)
      b == Key(q, sortedBy)
  IN IF a = Absent /\ b = Absent THEN p.slug < q.slug
     ELSE b = Absent \/ (a # Absent /\ a > b)

\* A protocol with no figure on the chain is listed only where no least figure is asked.
Matches(row, chain, minTvl) ==
  /\ ListName(row, chain) # Absent
  /\ LET tvl == RowChainTvl(row, ListName(row, chain))
     IN IF tvl = Absent THEN minTvl = 0 ELSE tvl >= minTvl

\* normalizeProtocolList
ProtocolList(rows, lite, chain, sortedBy, minTvl, limit) ==
  LET matching == SelectSeq(rows, LAMBDA r : Matches(r, chain, minTvl))
      listed == [i \in DOMAIN matching |-> Listed(matching[i], lite, chain)]
      sorted == SortSeq(listed, LAMBDA p, q : Before(p, q, sortedBy))
  IN [protocols |-> SubSeq(sorted, 1, Min({limit, Len(sorted)})), matched |-> Len(listed)]

----------------------------------------------------------------------------
(* protocol.incidents: a record is [date, protocolId, parentId, amount]. *)

Joins(rows, h) ==
  IF h.protocolId # Absent /\ \E r \in Range(rows) : r.id = h.protocolId THEN "protocol"
  ELSE IF h.parentId # Absent /\ \E r \in Range(rows) : r.parentId = h.parentId THEN "parent"
  ELSE Absent

TotalAmount(amounts) == SumOf(amounts)

\* normalizeProtocolIncidents: newest first; a record without a date (or a name) is left out.
ProtocolIncidents(rows, hacks, slug) ==
  LET resolved == ResolveProtocol(rows, slug)
      dates == {h.date : h \in {h \in Range(hacks) : IsNumber(h.date)}}
      through == IF dates = {} THEN 0 ELSE Max(dates)
      unattributed == Len(SelectSeq(hacks, LAMBDA h : h.protocolId = Absent /\ h.parentId = Absent))
      mine == IF resolved = Absent THEN <<>>
              ELSE SelectSeq(hacks, LAMBDA h : Joins(resolved.rows, h) # Absent /\ IsNumber(h.date))
      told == [i \in DOMAIN mine |->
                [ts |-> mine[i].date, amount |-> Number(mine[i].amount),
                 matchedBy |-> Joins(resolved.rows, mine[i])]]
  IN [resolved |-> resolved # Absent,
      incidents |-> SortSeq(told, LAMBDA a, b : a.ts > b.ts),
      total |-> TotalAmount([i \in DOMAIN told |-> <<i, told[i].amount>>]),
      feedThrough |-> through, unattributed |-> unattributed]
==================================================================================
