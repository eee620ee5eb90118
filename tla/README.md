# Onchain Intel: formal models

TLA+ models of the server in `src/packages` (`core`, the data layer, and `mcp-server`, the MCP
server over it), the TLC configurations that check them on small instances, and TLAPS proofs of
their most important properties for every instance. `PROJECT.json` maps every definition to the
lines it models, and lists runs, mutants, findings, hazards and theorems.

## 1. The system

The server answers blockchain-data questions of MCP clients. A tool call goes through the HTTP
transport (or stdio), is billed to the client, resolved to a capability, and answered from a cache
or from one of several vendors, some of which are paid in credits. Several server processes may
share one PostgreSQL database; without it a process keeps its state in SQLite.

| Component (source) | State | Operations | Hard part | What makes it correct |
| --- | --- | --- | --- | --- |
| Budget ledger (`core/cache/budget-store.ts`, `core/pg/budget-store.ts`) | credits and calls of a day, of a velocity window | `checkAndReserve`, `recordDelta`, pruning | one row shared by processes; a write applied but not acknowledged | no credit lost or counted twice; limits hold |
| Paid-call gate (`core/adapters/nansen`) | per process: account snapshot, distrust flag | `ensureBudget`, `refreshAccount`, sub-calls, `reconcile` | awaits between balance, counter and reservation; answers lost after billing | caps hold and stay put; a price has its snapshot |
| Client billing (`mcp-server/engine/billing-store.ts`, `tools/registry.ts`, the reconcile workflow) | rows by request key, balances of profiles | `reserve`, `settle`, `refund`, sweep at open, scan | retries, late completions, a scan, crashes, all on one row | a request is charged once, a row closed once, refunds give back what was taken |
| HTTP sessions (`mcp-server/transport`) | map of live sessions | admission, sweep, touch, register, forget, shutdown | sweeps that await, in parallel | ceiling, eviction of the idle, no leak |
| Requests (`mcp-server/transport/http.ts`, `auth`, `admin`, `engine` request stores) | users, tokens, journal, trace | perimeter, lookup, call, trace; issue, revoke, add | revocation against use; commands that race and break off | the barred are refused; what was done is on record once |
| Capability registry (`core/adapters/registry.ts`) over the two-level cache (`core/cache`) | hot entries of each process, shared rows | `resolve`: the walk over sources; lookup with promotion, store, negative entries | deadline, partial failure, merge mode, ages of copies | the answer tells what happened; nobody pays for what is stored; nothing is served past its life |
| Rate limiter (`core/net/rate-limit.ts`, limiter stores) | buckets with debt, cooldown | `throttle`, take, refund | late statements, fallback, refunds out of order | tokens conserved; the rate holds |
| Safe fetch (`core/net/safe-fetch.ts`) and daily call gate (`core/adapters/blockscout`) | one request; the count of a day | hops, three clocks; one count for each call | which clock came first; redirects; ceilings that differ by process | the error names the cause; credentials stay home; what is sent was counted |
| Coalescing (`core/adapters/nansen/singleflight.ts`) | calls in flight by key | lead, follow | followers with deadlines, failing leaders | one payment for identical calls |
| Shared documents (`core/adapters/defillama`) | fetches by family | begin, await, settle, evict | a failing fetch whose place was taken; a bound met in flight | ages are told; entries are their own |
| Answers of vendors (`core/adapters/*`) | none | requests, prices, translations | boundaries, missing parts, units | equal to what the vendor said |
| Chains (`core/chain`, `core/scripts/sync-chain-registry.ts`) | the registry file | regenerate, look up | catalogs that rename and drop | curation stays; one name, one chain |
| Start and clients (`mcp-server/server.ts`, `profile.ts`, `engine`, `core/pg`) | settings, pools, connections, locks | checks, probes, binding; statements, transactions | order of checks; servers that fall silent | a start refuses what no request would; what is told is stored |

A request passes the perimeter and the session map, then the tool boundary, which reserves a row of
the client ledger before the handler runs and settles or refunds it after. The handler resolves a
capability; a paid source asks the gate for a reservation of the vendor ledger, sends its requests
under the rate limiter through safe fetch, and corrects the reservation by what the vendor reported.
Everything shared between processes is a row of a database.

## 2. Modules

A step of a model is what the code does between two awaits (in a database: one transaction), and
every other actor may run in between. A variable marked *history* is read by no action. Mutants, the
operators whose comment calls them so, change one definition the way a bug would; no specification
uses them.

**Budget.** `BudgetStore` has the rows `usage` and `usageWindow`, the checks of `checkAndReserve`
and the writes. `NansenBudget` composes them with calls in processes (`EnsureBudget`, `ReadUsage`,
`AskAccount`, `AccountAnswers`, `PriceAfterRefresh`, `CheckAndReserve`, `SendSubCall`, `Record`,
`Crash` and their failures); the vendor is external: it bills between request and answer, and its
answer may be lost. `MCNansenBudget` has price tables, `NansenBudgetProofs` the theorems.

**Billing.** `ClientBilling` has the ledger, the awaits of the boundary (`Receive`, `ReadProfile`,
`Stamp`, `Insert`, `Replay`, `Handle`, `Complete`), the scan and the SQLite sweep. `Axis` is the
database, `reader` the reader of profiles: the default one, which the shipped server wires and which
answers "unlimited" for every profile, or one that reads the table. `ClientAccount` is the abstract
account, which knows for each request a charge (none, held, charged or returned), whether it takes
prices (`takes`) and whether it pays them back (`Pays`); `ClientBilling` refines it for both readers.
`MCClientBilling`, `ClientBillingProofs`.

**Sessions.** `SessionManager`: `lastSeen` is the map, `todo` and `current` the loop of each sweep
(interval, admission, shutdown). A release closes the transport and then the server; for the sessions
of `Breaking` either may throw, and a transport that does leaves the server open (`Release`).
`released`, `reported` and `lost` are history: what was closed, what a row names as failed, and what a
shutdown dropped. `ServerProofs` has the theorems, with those of the start.

**Requests.** `AccessStore` has users, tokens, the journal and every administration command, each
await of it a step. `HttpRequest` extends it with requests from their headers to their trace row,
with the response timeout and the death of the process. `HttpRequestProofs`.

**Route.** `TwoLevelCache` has the hot layers, the rows, and the statement each client waits for.
`CapabilityRoute` has the walk of `resolve` in both modes over that cache, its deadline and its
verdict; what a merge walk has taken is a set of points, each with its source and its place in the
answer of it. `MCCapabilityRoute`, `CapabilityRouteProofs`.

**Rate.** `RateLimit`: callers, statements that apply late, two kinds of bucket. `MCRateLimit`,
`RateLimitProofs`.

**Way out.** `SafeFetch` has the hops and clocks of one request, `BlockscoutCall` the daily gate,
the limiter's outcome and the fetch of each request; `Singleflight` the coalesced calls;
`SharedDocuments` the documents of defillama. `Outbound` puts the three side by side; `MCOutbound`,
`OutboundProofs`.

**Answers.** Pure translations, each an operator of the vendor's answer, checked against what the
vendor has: `DailySeries` and `ProtocolCatalog` (defillama), `PairAnswers` (dexscreener),
`ExplorerAnswers` (blockscout), `ChainAnswers` (RPC, bitcoin, Dash, coingecko, history),
`NansenAnswers` (requests, prices, rows), `AdapterRequests` (what each adapter accepts). `Answers`
is a behaviour of one question and `MCAnswers` its inputs. `ChainRegistry` has the regeneration of
the registry and its lookup; the file is written in place, a write that is cut short leaves `Broken`,
which every later run refuses until somebody puts the last whole file back (`Restore`: nothing in the
code does) or deletes it. `MCServedCall` composes requests, answers and the registry.

**Start.** `ProviderTables` has the shipped tables and their checks, `Startup` the steps of `main`,
`PgStateClient` and `SqliteStateClient` the connections of the storage that the profile selected,
which `StateClients` sets side by side for every number of callers and places. The deadline of a read
also covers its wait for a connection (`LeavesQueue`: the pool sends the statement all the same); the
late answer of a single statement gives its connection back, a late rejection takes it out of the pool
(`Unheeded`); a `COMMIT` may be refused, and is rolled back (`Rejects`, `CommitRefused`). `MCStartup` joins
them to the start, for the setting under which their clients are followed. `ServerProofs`.

**Sums.** Facts about sums over finite sets, for the proofs of the two ledgers.

## 3. Runs

| Run | Instance | Shows |
| --- | --- | --- |
| `BudgetFaults` | 2 calls in 2 processes, 2 days, 3 windows, all faults, bills of 0, 5 or 7 for a price of 5 | each row is the sum of what its calls owe (`CountersConserve`); cap and velocity limits hold across processes |
| `BudgetDerived` | 2 calls in 1 process, 2 plans, derived limits, fairness | a derived cap stays put; every waiting call ends |
| `BillingFaults` | 2 attempts of one request and another request on one profile, metered or not, both readers, edits, all faults, 4 instants, fairness | balances account for rows and for credits nobody paid; a row closes once; no retry on an expired row; refinement of `ClientAccount`; every row is closed in the end |
| `BillingSqlite` | the SQLite axis with restarts, a request with no profile | what is settled was served |
| `SessionCeiling` | 3 clients, ceiling 1, 4 instants, one session whose halves may throw, shutdown, fairness | ceiling, idle eviction past a release that fails, nothing leaks unreported |
| `RateShared` | 4 callers in 2 processes, a store that answers late, never or with an error, fairness | tokens conserved, the rate holds, every call ends |
| `RouteShared` | 2 calls in 2 processes, 3 registered sources over 2 routes, both modes, store faults, evictions | truthful empty answers, no second payment, no stale copy, merges that keep or drop a source's slot whole |
| `Outbound` | 2 requests in 2 processes with ceilings 1 and 2; 4 coalesced calls; 3 calls over documents with a bound of 1 | counts, causes, credentials, one payment, ages, the bound of the documents |
| `ServedCall` | racing commands on an empty database; 4 requests while a token is revoked or expires; every small answer of a vendor; 3 regenerations of a registry, cut short or not | journal, refusals, traces, honest answers, requests and prices as asked, one chain for a name, curation kept |
| `Startup` | every setting of the profile and 10 tables a maintainer edited; then 4 callers of Postgres or 6 of SQLite, with every fault | what is told is stored, no place of a pool is lost, the start refuses unsafe tables and settings, every Postgres call returns |

Two runs show a disagreement of the code with its own comments, each quoted in `PROJECT.json`:
`BudgetOvercommit` (`NoOvercommit`: a resync while another call holds a reservation counts its
credits twice in the ceiling) and `ClientsDiscarded` (`DiscardedAnyway`: a connection whose
`ROLLBACK` failed goes back to the pool).

### Bounds

`MaxTime` covers what the clock decides and one instant more: two days and three windows (budget),
the replay windows and the first instant past the horizon of the scan (billing), one instant past the
idle timeout (sessions), a TTL and what follows it (route), a deadline and a timer past each other
(way out); later instants repeat these orders. Two actors are enough for each race and for each
mutant; billing and sessions have three, so that a retry or an admission competes with a third.
Numbers lie on both sides of every limit they are compared with. `LastStamp` (billing) is the last
instant a row may be stamped with, so that it can still expire; it may be inserted at any later one. `MaxAdmitting` bounds
the admissions at once, `MaxRuns` the regenerations of the registry. Inputs of the answers are the
sequences of a few rows of each kind that `MCAnswers` lists. The clients of the storage are followed
under one setting of each storage, and answers are asked from the initial state only: nothing in the
code joins them to the rest.

`CHECK_DEADLOCK FALSE` stands where every actor may be done: a bounded clock, calls that all ended,
a process that exited.

### Fairness

Weak, but for one case: steps that wait for nobody else, timers and the scan. The runtime runs a
ready continuation, an interval fires again, n8n schedules its workflow, a statement at a live store
answers or fails. Clients and operators owe nothing, and the vendor need not answer: a request that
waits for it ends by its own timeout, which is why `CallsFinish` needs the fault `"lost"` in its
run. A release that a sweep awaits is assumed to end. Strong fairness stands at the places of a pool
in `PgStateClient`: a connection that falls silent and speaks again by turns does not keep the timer
of a statement from firing. `ReserveCloses` is stated for PostgreSQL: on SQLite a row that a running
server abandoned waits for its next start, whose date nothing fixes.

## 4. Proofs

The proofs hold for any number of calls, processes, callers, profiles, keys, sessions and requests
and for every value of the bounds. Their assumptions are the named `ASSUME`s of the modules: types
of constants, sentinels outside the sets they stand beside, and for sessions the configuration that
the startup enforces (`assertResponseTimeoutFitsIdle`). TLC evaluates each of them.

* `NansenBudgetProofs`. `CapHeld` is not inductive: a reservation is safe only because the ceiling a
  call carries to the store was cut to the cap when it was priced (`StoredUnderCap`), and a price
  exists only if the snapshot does (`PricedWithSnapshot`). `VelocityHeld` needs types alone, since
  the store checks the window in the transaction that writes it, but its slack is a sum over days.
  `CountersConserve` is inductive together with the order of a call's states (a correction follows
  its own reservation: `HeldInOrder`) and the finiteness of those that hold one; each step changes
  at most one term of one sum. `CapStaysPinned` is an action property.
* `ClientBillingProofs`. `IndInv` adds to types that an expired row is older than every replay
  window, that a call past its reserve has a row, and that the mode a call holds is that of its
  profile. `FirstCloseIsFinal` and `ExpiredStaysClosed` follow action by action.
  `RowsClosedAsServed` adds that a call that completes has its outcome (`OutcomeKnown`).
  `BalanceIsAccounted` adds which rows were debited and that rows are finitely many (`DebitsKnown`).
  It assumes nothing of the axis or the reader: prices debited are on one side (`Outstanding`), the
  credits of rows no reserve debited on the other (`Given`), and with a reader of the table that
  second sum is over the empty set. `LedgerIsAccount` proves that each step of the ledger is a step
  of `ClientAccount` or a stutter; the sweep of a SQLite store, which closes many rows at once, is
  the step `Sweep` of an account that pays nothing back.
* `ServerProofs`, sessions. `IndInv` adds that what was idle when the sweep of an admission began is
  gone or still on its list. `CeilingWithRoom` counts: a registration moves a session from one set
  to the other, an admission needs room in both. `InFlightNeverStale` rests on the startup
  assertion.
* `ServerProofs`, start. `Passed` says which checks stand behind each phase, so that a process that
  serves passed all of them, in any build. That a served table has no paid source in a merge is
  then a fact about the checks themselves: a source of a registration is in the tiers the check
  reads, a participant of a merge is among those it goes over. The numbers of the shipped tables
  enter only where a paid request is compared with its response.
* `ServerProofs`, clients. `StoredAsTold` speaks of what is durable and needs what is not yet: in
  `PgInv` the statements of a call stand together on one connection, in the order of its script and
  a rollback last (`Sound`); who holds a connection waits for its last statement; what is open on a
  connection is what the statements before its head wrote, of the one call they belong to; and what
  is durable agrees with what the call was told (`ToldAsStored`), with the bootstrap stored before
  any other write. A connection given back with statements on it, the finding of `ClientsDiscarded`,
  is part of the invariant: the next call then stands behind them, and both theorems hold all the
  same. `PlacesAccounted` follows from the same invariant. In `LiteInv` a transaction that goes on
  is at the head of the line of its connection, what it has open is the steps it has done, and what
  is stored is what was told.
* `RateLimitProofs`. The history gives each served caller the instant its tokens are earned
  (`slot`); the invariant counts the tokens due before any instant (`EarnedBeforeDue`) and places
  each caller where its tokens are. A refund leaves a gap, not a shift, which is why the counting is
  over all instants and not over the last one.
* `CapabilityRouteProofs`. `CacheInv`: what waits in a cache statement serves its call, every copy
  is as young as its row allows (`CacheSound`), and a fresh row promised at the look into the hot
  layer stands until the lookup ends (`PromiseKept`). `WalkInv`: what a call has heard is what the
  sources before its position said (`SoFar`, `Truthful`). `MergeInv`: what is merged so far is what
  the first of the sources passed with a slot said of it, and every slot one of them filled is taken
  (`MergeSoFar`); it needs that the plan names each source once (`PlanNamesOnce`, by the rank of a
  source's first mention). Every step is one of five kinds of step of a walk (`StepWalks`), which
  both invariants go through.
* `OutboundProofs`. `FetchInv`: hops are numbered, and a chain that still carries its credential has
  never left its host. `CountInv`: the ledger's count of a day lies between what was counted for a
  request and what was asked. `FlightInv`: an entry of the table is under the key of its leader
  (`EntriesKeyed`). `DocsInv`: no fetch is dated after the clock or its answer, what a call reads
  was young when the call came and is settled once the call goes on. For the bound, if a settled
  document is spared, the least one spared has as many settled ones before it as had to go
  (`RoomIsMade`).
* `HttpRequestProofs`. `AccessInv`: what a command knows is so, and what is not yet on record is
  owed by it. With requests: a token that is no good is no good for ever (`BarredForGood`), what
  stands beyond the lookup was shown a good row (`Shown`), and each end of a call has its row or its
  failure (`TraceKept`).
* `Sums`. The sum over a set does not depend on the order of its elements. Where induction is needed
  it is done on a set: the counterexamples, if any, have a minimal one (`MinimalSet`).

Only model-checked:

* liveness (`CallsFinish`, `ReserveCloses`, `IdleIsEvicted`, `ThrottleEnds`, `CallsReturn`): out of
  the prover's reach;
* what folds and filters compute of data (`AnswersHonest`, `ServedAsAsked`, `ResolvesToOne`,
  `CurationKept`): induction over data, of operators that take operators.

## 5. What is left out, and what was met

* Left out within the modelled parts: schema migration, wording and formats (addresses' checksums
  and suggestions for an unknown chain among them); the purge of closed rows after three years;
  `sumSettled`; a profile that changes from metered to unlimited while a call of it is in flight; a
  caller's signal to safe fetch, which no adapter passes; the observer of calls; the placeholder for
  dune. A handler of `HttpRequest` returns an outcome and does not throw (in `ClientBilling` it
  may); the shutdown of a server is the end of its process, as `main` installs no handler; the token
  that migration 003 seeds is not among the rows of `ServedCall`. The cap of `windowDailySeries`
  never bites after its points were folded into days.
* Components with the status `not_modelled` have their reason in `PROJECT.json`.
* Met while modelling, with no run of their own. In the budget: two processes that observe the
  account at different moments derive different caps for one day, though `budget-gate.ts:501-502`
  says they derive the same number; an answer of `/account` clears a distrust flag raised after its
  balance was sampled (`budget-gate.ts:520`), and the flag stays in its process; a request that was
  billed and whose answer is lost is refunded in full (`nansen/index.ts:824`). In billing: a retry
  of a refunded request is answered and not charged (`billing-store.ts:456`); with the default
  reader a refund or the scan credits a metered profile that no reserve debited (`Given`, under
  `BalanceAccounts`); the SQLite `reserve` takes no
  credits from a metered profile. In the server: a sweep evicts a session that came back while the
  sweep waited (`session-manager.ts:172`); `release` is said to close both halves (`session-manager.ts:157`),
  but a transport that throws leaves the server open, which the row of the sweep reports and a
  shutdown tells nobody (158-168, 244-250); an admission that waits through shutdown registers a
  session nobody releases; a trace that fails after a settle is reported as served and unbilled; an
  error of the lookup or of the body is caught by nobody and ends the process. In the data layer: a
  promoted copy lives by what is left of a TTL sampled before its statement (`NoStaleHit` bounds it
  by the slowest write); a plain query of the SQLite client joins the transaction open on its
  connection and is undone with it; two regenerations on the same catalogs need not give the same
  file, since a slug may meet an alias (`sync-chain-registry.ts:779-781`).

## 6. Plan

Done: the budget, billing, sessions, the limiter, the route with its cache, the way out, requests
and administration, answers, chains, the start and its clients; the map covers about 30 % of the
implementation's lines.

Next:

1. The walk of `resolve` as an implementation of an abstract call that ends once, with the answer of
   a source that gave one or the failure that happened.
2. The answers of the adapters (`AnswersHonest`, `ServedAsAsked`) with series as sets of records, as
   the merge walk has them, so that filters need no induction.
