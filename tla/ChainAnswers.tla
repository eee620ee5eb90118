------------------------------ MODULE ChainAnswers ------------------------------
(****************************************************************************)
(* The adapters that read a chain or one vendor with one request: balances  *)
(* of rpc-evm and rpc-solana, the supply of bitcoin, the counters of the    *)
(* Dash platform, a token of coingecko, and rows of the history database.   *)
(****************************************************************************)
EXTENDS Integers, Sequences, SequencesExt, FiniteSetsExt

CONSTANTS
  Absent, Garbage, Throws,
  MaxSafe,           \* Number.MAX_SAFE_INTEGER
  HalvingInterval, InitialSubsidy

IsNumber(v) == v \notin {Absent, Garbage}

\* servesChain of the two RPC adapters: a curated host and a known native currency.
ServesChain(c, family) ==
  c.family = family /\ c.hosts # Absent /\ c.symbol # Absent /\ c.decimals # Absent

\* What a double holds of an integer: beyond MaxSafe, every second one, the other ones rounded
\* to the neighbour that is a multiple of four.
Double(n) == IF n <= MaxSafe \/ n % 2 = 0 THEN n ELSE IF n % 4 = 1 THEN n - 1 ELSE n + 1

\* rpc-evm: hex digits of any size are an exact amount; the gas price is of now, never of a block.
EvmAmount(digits) == IF IsNumber(digits) THEN digits ELSE Throws

\* Without its digits a number beyond MaxSafe cannot be known.
WithoutDigits(lamports) == IF lamports > MaxSafe THEN Throws ELSE lamports

\* rpc-solana: the digits on the wire, where the engine tells them and they are that number's.
SolanaAmount(lamports, digits) ==
  IF ~IsNumber(lamports) THEN Throws
  ELSE IF IsNumber(digits) /\ Double(digits) = lamports THEN digits
  ELSE WithoutDigits(lamports)

----------------------------------------------------------------------------
(* chain.supply of bitcoin (blockchain-info, chain/bitcoin-emission.ts) *)

Subsidy(epoch) == InitialSubsidy \div (2 ^ epoch)

BlocksOfEpoch(epoch, count) ==
  Min({(epoch + 1) * HalvingInterval, count}) - epoch * HalvingInterval

\* bitcoinEmissionSat: the sum over the epochs begun, while there is a subsidy.
Emission(count) ==
  LET epochs == {e \in 0..(count \div HalvingInterval) :
                   e * HalvingInterval < count /\ Subsidy(e) > 0}
  IN FoldSet(LAMBDA e, total : total + BlocksOfEpoch(e, count) * Subsidy(e), 0, epochs)

\* bitcoinSubsidyAtHeightSat
SubsidyAtHeight(height) == Subsidy(height \div HalvingInterval)

\* normalizeSupply: the two fields of one vendor must agree with each other and the schedule.
Supply(emission, blocks, circulating) ==
  IF ~(IsNumber(emission) /\ IsNumber(blocks) /\ IsNumber(circulating)) THEN Throws
  ELSE IF Emission(blocks) # emission \/ circulating > emission THEN Throws
  ELSE [emission |-> emission, circulating |-> circulating]

----------------------------------------------------------------------------
(* The counters of the Dash platform: a value is [raw, num], num Absent where raw is no number. *)

DashCapabilities == {"privacy.shielded_pool", "platform.identities", "platform.contracts",
                     "platform.documents", "platform.credits"}
DashHistories == {"privacy.shielded_pool.history", "platform.metrics.history"}

\* snapshotFromCurrentState: the counter of the capability; the pool's endpoint tells no height.
ExplorerSnapshot(cap, status) ==
  IF cap \notin DashCapabilities \/ status[cap] = Absent THEN Throws
  ELSE [raw |-> status[cap], height |-> IF cap = "privacy.shielded_pool" THEN Absent ELSE status.height]

\* snapshotsFromHistory: one malformed point spoils the series.
ExplorerHistory(cap, points) ==
  IF cap \notin DashHistories \/ points = Garbage THEN Throws
  ELSE IF \E i \in DOMAIN points : ~IsNumber(points[i].ts) \/ points[i].value = Absent THEN Throws
  ELSE points

\* dash-platform is not available; only its shape of a snapshot is there.
PlatformSnapshot(cap, state) ==
  IF cap \notin DashCapabilities \/ state[cap] = Absent THEN Throws
  ELSE [raw |-> state[cap],
        height |-> IF cap \in {"privacy.shielded_pool", "platform.credits"} THEN state.height ELSE Absent]

\* pg-history: the newest rows of the metrics of a capability; toFiniteNumber of ts must be there.
HistoryRows(rows, metrics, limit) ==
  LET mine == SortSeq(SelectSeq(rows, LAMBDA r : r.metric \in metrics), LAMBDA a, b : a.ts > b.ts)
      page == SubSeq(mine, 1, Min({limit, Len(mine)}))
  IN IF \E i \in DOMAIN page : page[i].raw = Absent THEN Throws ELSE page

----------------------------------------------------------------------------
(* coingecko: the host and the key go together; the answer must be of the platform asked. *)

CoingeckoRequest(env) ==
  IF env.pro # Absent THEN [host |-> "pro", key |-> env.pro]
  ELSE [host |-> "public", key |-> env.demo]

CoingeckoToken(platforms, platform, price) ==
  IF platform \notin DOMAIN platforms THEN Throws
  ELSE [address |-> platforms[platform], price |-> price]
=================================================================================
