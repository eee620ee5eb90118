------------------------------- MODULE PairAnswers -------------------------------
(****************************************************************************)
(* The pages of pools of the dexscreener adapter                            *)
(* (adapters/dexscreener/index.ts) and what is lost on the way to them.     *)
(* A row is [chain, address, valid]: the vendor's id of its chain, the      *)
(* address of the pair or Absent, and whether it parses to a Pool.          *)
(****************************************************************************)
EXTENDS Integers, Sequences, SequencesExt, FiniteSetsExt

CONSTANTS
  Absent, Throws,
  PageSize,     \* VENDOR_PAGE_SIZE, TOKEN_ROUTE_PAGE_SIZE
  VendorChains  \* chains of the registry -> the vendor's id

Covered(chain) == chain \in DOMAIN VendorChains

\* pairsQueriesFor: the vendor's id of the chain, and its wrapped native symbol.
Queries(chain, wrapped) ==
  IF wrapped \in {Absent, VendorChains[chain]} THEN <<VendorChains[chain]>>
  ELSE <<VendorChains[chain], wrapped>>

OnChainCount(rows, chain) == Len(SelectSeq(rows, LAMBDA r : r.chain = VendorChains[chain]))

\* fetchPairs: the next query only while the rows so far are fewer than the limit.
Asked(pages, chain, limit) ==
  IF Len(pages) < 2 \/ OnChainCount(pages[1], chain) >= limit THEN <<pages[1]>> ELSE pages

ValidOf(rows) == SelectSeq(rows, LAMBDA r : r.valid)

\* normalizeSearch: the rows of the chain, a pair that came twice taken once.
OnThisChain(pages, chain) ==
  LET all == FlattenSeq(pages)
      first(i) == all[i].address = Absent \/ \A j \in 1..(i - 1) :
                    ~(all[j].chain = all[i].chain /\ all[j].address = all[i].address)
      kept == SetToSortSeq({i \in DOMAIN all : all[i].chain = VendorChains[chain] /\ first(i)}, <)
  IN [i \in DOMAIN kept |-> all[kept[i]]]

FullPage(pages) == \E i \in DOMAIN pages : Len(pages[i]) >= PageSize

SearchTruncated(page) == page.dropped > 0 \/ page.cut > 0 \/ page.full \/ page.pools = <<>>

Page(rows, limit) ==
  LET kept == SubSeq(rows, 1, Min({limit, Len(rows)}))
  IN [pools |-> ValidOf(kept), dropped |-> Len(kept) - Len(ValidOf(kept)),
      cut |-> Len(rows) - Len(kept), kept |-> Len(kept)]

Search(pages, chain, limit) ==
  LET p == Page(OnThisChain(Asked(pages, chain, limit), chain), limit)
      page == [pools |-> p.pools, dropped |-> p.dropped, cut |-> p.cut,
               full |-> FullPage(Asked(pages, chain, limit))]
  IN IF p.kept > 0 /\ p.pools = <<>> THEN Throws
     ELSE [pools |-> p.pools, truncated |-> SearchTruncated(page)]

\* normalizeTokenPools: with a chain, its rows; without one, those on a chain we model.
\* chainByVendorId
Modelled(id) == \E c \in DOMAIN VendorChains : VendorChains[c] = id
TokenCandidates(rows, chain) ==
  SelectSeq(rows, LAMBDA r : IF chain = Absent THEN Modelled(r.chain) ELSE r.chain = VendorChains[chain])

TokenPoolsTruncated(rows, chain, p) ==
  \/ p.dropped > 0 \/ p.cut > 0
  \/ Len(TokenCandidates(rows, chain)) < Len(rows)
  \/ Len(rows) >= PageSize
  \/ chain = Absent /\ p.pools # <<>>

TokenPools(rows, chain, limit) ==
  LET p == Page(TokenCandidates(rows, chain), limit)
  IN IF p.kept > 0 /\ p.pools = <<>> THEN Throws
     ELSE [pools |-> p.pools, truncated |-> TokenPoolsTruncated(rows, chain, p)]

\* normalizePool: the row of the chain; fetchPool asks a fee tier only where there is a row.
PoolInfo(rows, chain, fee) ==
  LET mine == SelectSeq(rows, LAMBDA r : r.chain = VendorChains[chain])
  IN IF mine = <<>> THEN [resolved |-> FALSE, fee |-> Absent]
     ELSE IF ~Head(mine).valid THEN Throws
     ELSE [resolved |-> TRUE, fee |-> fee]

----------------------------------------------------------------------------
(* The fee of a pool, of its contract (adapters/rpc-evm/fee-tier.ts and call-rpc.ts). *)

\* callRpc: the first endpoint that answers; a spent deadline ends the walk.  An outcome is
\* [kind, value], the value that of an "answer".
CallRpc(outcomes) ==
  LET ends == {i \in DOMAIN outcomes : outcomes[i].kind \notin {"http", "rpc-error", "revert"}}
  IN IF ends = {} THEN [value |-> Absent, failure |-> IF outcomes = <<>> THEN "none" ELSE Last(outcomes).kind]
     ELSE LET o == outcomes[Min(ends)]
          IN IF o.kind = "answer" THEN [value |-> o.value, failure |-> Absent]
             ELSE [value |-> Absent, failure |-> o.kind]

RawUnitsPerBp == 100
Uint24Max == 16777215

FeeTierDerivable(c) == c.family = "evm" /\ c.hosts > 0

WholeBps(raw) == raw \in 0..Uint24Max /\ raw % RawUnitsPerBp = 0

\* readFeeTier: every way of not knowing the fee is null, never a zero.
ReadFeeTier(c, outcomes) ==
  LET answer == CallRpc(outcomes)
  IN IF ~FeeTierDerivable(c) \/ answer.value = Absent THEN Absent
     ELSE IF WholeBps(answer.value) THEN answer.value \div RawUnitsPerBp ELSE Absent
==================================================================================
