# sol-mev-core in TLA+

This directory models `sol-mev-core`, a Solana MEV bot in Rust (`src/src/*.rs`),
checks the models with TLC and proves theorems about all of them with TLAPS. Line
numbers refer to `src/src/` unless a path says otherwise.

## The system

One process, one tokio runtime, four tasks that matter (`main.rs:79-151`):

```
Geyser --> monitor --try_send--> [512] --> strategy engine --send.await--> [128] --> executor --> Jito, RPC
              |  insert                       |  for_each, get_cloned, collect_all      |
              v                               v                                         v
            POOLS, OBLIGATIONS  (64 locked shards each)  <--- gc_stale --- GC task (30 s)
```

| component | state | operations | what makes it hard | what makes it correct |
|---|---|---|---|---|
| sharded tables, `state.rs` | 64 `RwLock<HashMap>` per table, `CURRENT_SLOT` | `insert` (spin, then block), `get_cloned`, `for_each`, `collect_all`, `len`, `gc_stale` | three tasks on the same locks; a sweep that holds one shard at a time and an old slot | inserts are atomic; a reader sees a shard at one moment; only old entries go, and they do go |
| monitor, `monitor.rs` | the gRPC stream | `run`, `stream_loop`, `dispatch`, `on_account`, `on_transaction`, the decoders | reconnects, data that does not decode, full channel | the table follows the feed; it never waits for another task |
| engine, `main.rs`, `strategies/mod.rs` | two channels, the sweep ticker | `process`, `sweep_liquidations` | it blocks when the executor does; a select between channel and ticker | no underwater obligation is forgotten |
| arbitrage, `strategies/arbitrage.rs` | none between scans | `scan`, `build_edges`, `bellman_ford`, `evaluate_cycle`, sizing | hash order of the edges, the predecessor walk | a route returned is a gain; a gain is not overlooked |
| liquidation, `strategies/liquidation.rs` | none | `evaluate`, `scan_all`, close factor, bonus | integer widths, thresholds | what is in danger is reported, what is healthy is not |
| sandwich, `strategies/sandwich.rs` | none | `evaluate`, sizing, filters | truncating casts, a search that starts at its floor | the size is the largest that leaves the victim its minimum; the profit is what the legs earn |
| executor, `executor.rs`, `simulator.rs` | clients, `fee_p95` | `execute_arb`, `execute_liquidation`, `execute_sandwich`, preflight, fee, blockhash, signing | every await may fail or take time; three paths with different steps | nothing refused is sent; nothing is sent twice |
| Jito client, `jito.rs` | clients | `attach_tip`, `encode_primary`, `send_bundle` | bundle and raw copies race | tips only for what landed |
| risk engine, `risk.rs` | EWMA per mint, `fee_p95` | `on_pool_update`, `update_fee_p95`, `adjusted_profit` | two tasks on one map, values that age by the update, mixed units | the breaker trips after a jump and clears; nothing is priced blind |
| smart money, `smart_money.rs` | profile per wallet | `observe_tx`, `is_smart_money`, `score_of` | a size limit, a window | active wallets are remembered; the score can reach its threshold |
| registry, config, script | read once | `load` | none while running | - |

The tasks share only the tables, `CURRENT_SLOT`, the risk engine and the two
channels. There is no persistence; a restart begins from nothing.

`PROJECT.json` lists under "hazards" every place where this code can go wrong in
a way a test would hardly reach, with the property that would notice.

## Modules

**AccountTable** is what the rest of the bot relies on: a map in which an insert
is one step, and an entry goes away only when the slot counter once stood more
than `GC_SLOT_THRESHOLD` past it.

**ShardedTable** is one table as the code implements it. `Monitor` is the task
that calls `insert` and stores `CURRENT_SLOT`; `Gc` loads the slot and sweeps;
each member of `Readers` runs `for_each` or `collect_all`. Every lock taken or
released, every entry visited and every write is an action: `InsertBegin`,
`InsertSpin`, `InsertAcquire`, `InsertWrite` (`state.rs:46-57`), `GcStart`,
`GcLock`, `GcVisit`, `GcUnlock` (`state.rs:100-109`), `ScanStart`, `ScanLock`,
`ScanVisit`, `ScanUnlock` (`state.rs:64-78`). An entry is its slot, since the
table's own code reads nothing else. `tip`, `gcRemoved` and `scGot` are history.
`get_cloned` and `len` take one read lock for one step and are the atomic reads
of Pipeline. POOLS and OBLIGATIONS are two independent instances; the GC task
sweeps one after the other.

**Pipeline** composes the tasks: stream, monitor, opportunity channel, engine,
signal channel, executor, with reconnects and GC in between. Its table steps are
one entry each, which is what ShardedTable provides. `sent`, `newest`, `engNewest`,
`engOpp` (the opportunity that a scan answers) and the slot of an opportunity are
history. Account data is abstracted
to what the tasks decide by: an obligation is fine or underwater, a pool is live,
and "gone" is any data the decoders reject. Whether a scan finds a route is open
(module Arbitrage looks into that). The strategies are taken as enabled
(`ENABLE_*`); a disabled one drops its opportunities.

**Submission** is one pass of `Executor::execute` after another, await by await,
and what becomes of the bundle and of its raw copies after `execute` has
returned. A transaction is the set of things it does, with its blockhash and
price. A tip carries nothing of its signal, as in `attach_tip`.

**Arbitrage** is `bellman_ford` from the edges to the rotated route, one edge
relaxed per step, in any order.

**Strategies** is the strategy task at work: one opportunity at a time, on what
it read of the tables at the start of the evaluation. It composes three modules,
each with its own variables and program counter:

- **Sandwich** (prefix `sa`): `SandwichStart` is `evaluate` up to the search,
  `FrontrunBisect` one turn of its loop, `FrontrunSized` the estimate and the
  decision (`sandwich.rs:49-164`).
- **RouteSizing** (`sz`): `SizingStart`, `InputBisect`, `InputFound` are
  `evaluate_cycle` with `binary_search_optimal_input` (`arbitrage.rs:198-238`).
- **Liquidation** (`li`): `LiquidationEvaluate` and `LiquidationSweep` are
  `evaluate` and `scan_all`, which read the table in one step
  (`liquidation.rs:51-149`); `Decoded` is what the two decoders keep of an
  account (`monitor.rs:440-535`).

**PoolQuotes** has the quotes they work with, constant-product and concentrated
(`state.rs:139-244`), and **Scales** the numbers. The code's numbers are far too
large for exhaustive runs, so the whole of a basis point scale, 2^16, 2^64 and the
limits are parameters that keep the code's order; widths, casts, saturation,
wrapping and the order of multiplications and divisions are the code's. 2^128 is
the square of 2^64 throughout.

**SmartMoney** is the classifier, fed as `feed_smart_money_classifier` feeds it.
Time is one flag of a profile, whether it was seen within the window.

**Risk** is the volatility map between the monitor (`FeedA`, `FeedB`,
`InsertPool`) and the executor (`FindExitPool`, `CheckBreaker`, `ReadHaircut`,
`Return`), one step per lock. A price is a logarithm in whole percent, so that the
two tokens of a pool have opposite prices and returns are differences; a variance
is in squares of a percent and rounded down. `raced` and `jumped` are history.

The `MC*` modules only give the constants values. The definitions that a comment
calls MUTANT are variants of the definition after them, each with a plausible
bug in it; no specification uses them. They document what a property is able to
notice (`PROJECT.json`, "mutants").

## Runs

| run | question | bounds, and why they are enough |
|---|---|---|
| `table` | do inserts, sweep and scans implement the abstract table; is every insert finished, and every aged entry swept? | two keys in the last of two shards: what the tasks do to an entry happens within a shard, and what they do across shards (the sweep's old slot, a writer in one shard while another is walked) needs only a shard before it; two readers whose scans overlap, two tries, ages on both sides of `GcAge` = 0, slot updates that go backwards |
| `pipeline` | does the table follow the feed, is a notified update visible, and does the scan it starts see it? | one pool, one obligation, channels of one, one update in transit, two slots, with and without slot updates, reconnects, GC |
| `pipeline_live` | does the monitor always return, and does the sweep rescue dropped updates? | two obligations, so that both channels of one overflow, no slot feed |
| `submission` | is anything sent twice, unvetted, or tipped for nothing; does `execute` return? | two signals of any kind, one spam endpoint, two tip accounts, three slots and a blockhash that lives one, fees on both sides of the cap |
| `arbitrage` | are routes gains, and is none missed? | all graphs of three pools over three mints with weights -1..1, parallel pools among them |
| `strategies` | do sizes, profits and reports mean what they claim; does every evaluation end? | seven constant-product pools, 208 swaps, three volatilities; all routes of two hops over eight pools, four of them concentrated, some of three, and two that end in a concentrated pool from b to a within reach of the price impact cap; all pairs of 87 obligation accounts. Whole = 100 basis points, 2^64 = 8192, 2^16 = 128: truncation, saturation and wraps all occur |
| `classifier` | is an active wallet remembered, is any wallet classified? | two wallets, a map of one, four transactions each: one more than `MIN_OBS`; compute units below, within and above the bands |
| `risk` | when does the breaker trip and clear, what can the executor have read? | three mints, two pools that share one and quote it 7 to 12 % apart while moving 5 % at most, one of them concentrated |
| `stale_filter` | expected to fail: see below | one pool, slots 0..2 |
| `detection` | expected to fail: see below | as `pipeline_live` |
| `sandwich_atomic`, `exit_leg` | expected to fail: see below | one signal |

`CHECK_DEADLOCK FALSE` is set where the system really stops: Arbitrage is an
algorithm that ends, and Submission stops at `MaxSignals` signals. All other passing runs
are checked for deadlock.

Bounds that are not in the code: `MaxSlot`, `StreamCap` (Pipeline), `MaxSignals`,
`MaxSlot` (Submission), the finite `Slots` (ShardedTable), `MaxTx` (SmartMoney).

### What the properties say

- `ShardSnapshot`: what a reader has read in its shard is still true while it is
  inside. `EvictedCountExact`: `before - g.len()` counts what `retain` removed.
  `SweptShardIsFresh`: nothing visited by the sweep is older than the threshold.
  `RefinesAccountTable`: the refinement of AccountTable.
- `FeedTracked`: for each key written on this connection, the last decodable
  update is the last one of that key in transit, or is in the monitor's hands, or
  is in the table unless GC took it.
  `NotifiedIsVisible`: an opportunity in the channel never announces an update
  that the table does not have yet. `ScanSeesUpdate`: once the scan that answers it
  has read its pool, that pool is among the edges with this update or a later one,
  unless `CURRENT_SLOT` has left the update more than `STALE_SLOT_THRESHOLD` behind;
  the slot loaded before the walk, replaced entries and GC do not matter.
- `MonitorReturns`, `InsertCompletes`, `AgedSwept`, `ExecuteReturns`: what must
  end, ends. `Rescue`: an obligation that stays underwater in the table is
  attempted again and again, unless the executor waits for Jupiter for ever.
- `AtMostOnce`, `TipBuysTheBundle`, `SentIsVetted`: a signal's trade lands at most
  once; the chain has no more tips than signals carried out, blockhash by
  blockhash; nothing vetoed or unsimulated is sent.
- `RouteIsArbitrage`, `NeverGivesUp`, `NothingMissed`: the search is sound, its
  defensive returns are never taken, and it is complete as to whether there is a
  gain at all among the mints that its start can reach (`Reachable`: those in every
  set of mints that holds the start and that no edge leaves).
- `FrontrunIsLargest`, `ProfitIsReal`, `NoVictimNoGain`: the sandwich search meets
  its comment, its estimate is what the executor's legs earn, rounding makes no
  money. What the first two exempt, an untried floor and victims that sell token b, is in
  findings 6 and 8.
  `FrontrunKeepsVictim`: the floor that the search returns untried is no signal
  anyway, as long as the victim's impact did not wrap. This rests on a ratio: twice
  `FRONTRUN_FLOOR` times `MAX_VICTIM_IMPACT_BPS` is below `FEE_ESTIMATE` (2,000
  lamports against 15,000; 0.8 against 1 in the run).
- `EndsWhereOutputStalls`, `WithinKnownLiquidity`, `EvaluationEnds`: what the
  sizing search finds (output rises by another step at the lower bound and not at
  the upper one), that no signal rests on a quote past the price impact cap in
  either direction, but for a unit lost to a division by 2^64 (a to b) or by the
  liquidity (b to a), and that both searches end.
- `DangerIsSeen`, `RepayFollowsDebt`: two roundings to basis points lose no
  obligation that Solend itself would let be liquidated, and close factor and bonus
  never reward the smaller debt.
- `ActiveRemembered`, `NobodyIsSmart`: the classifier's limit works, its purpose
  does not (finding 9).
- `BreakerMeansAJump`, `BreakerClears`, `CapOnlyByRace`, `NeverBlind`: the breaker
  needs a jump, and clears when the price rests while updates arrive; the cap on
  the haircut is reached only when the monitor writes between two reads; an exit
  pool in the table implies a volatility.

### Where code and documents disagree

1. `stale_filter`: the subscription (`monitor.rs:181-186`) asks for no slot
   updates, so `CURRENT_SLOT` stays 0 and no entry is ever stale or collected.
   `src/README.md:128` promises the filter, `main.rs:129-131` the collection.
   The other Pipeline run also allows a feed with slots, so that what GC and the
   filter would do is checked all the same.
2. `sandwich_atomic`: the raw copy of the first transaction (`jito.rs:128-144`) is
   a sandwich's front leg, which can land alone; `src/README.md:10` says bundles
   land atomically.
3. `exit_leg`: only the Jupiter branch fills `exit_ixs`; with a tracked pool the
   seized token is kept, contrary to `executor.rs:294-296`.

4. `detection`: `executor.rs:263-265` says that the latency of a Jupiter request does
   not matter for detection. Its client has no timeout (`executor.rs:172`): one
   request without an answer stops the executor, then the engine in `send`.

Met while modelling, with the passing run that bears on it, if there is one:

5. The search for the arbitrage input climbs the output instead of the profit and
   ends at `INPUT_CAP` on ordinary pools; most gains are dropped (`arbitrage.rs:218`,
   `strategies`).
6. The front leg's search returns its floor untried (`sandwich.rs:126`), also when it
   makes the victim revert, against `sandwich.rs:115`. `FrontrunIsLargest` exempts a
   result equal to the floor; `FrontrunKeepsVictim` says why it seldom matters
   (`strategies`).
7. `as u16` and `saturating_mul` (`sandwich.rs:95`) let victims of enormous impact pass
   the size filter of `sandwich.rs:17`.
8. The legs always go from token a to b, whichever way the victim trades
   (`executor.rs:306-313`), so for a victim that sells token b the profit of
   `sandwich.rs:103-113` is not theirs. `ProfitIsReal` exempts such victims (`strategies`).
9. The classifier is fed constants for two signals and cannot reach its threshold
   (`monitor.rs:273`, `classifier`).
10. Its window is not rolling: counters are never reset (`smart_money.rs:48`, `classifier`).
11. The breaker mixes a mint's prices in different tokens (`risk.rs:70`) and trips
    without any pool having moved by the 8 % of `risk.rs:14`. `BreakerMeansAJump`
    counts a change of token as a jump (`risk`).
12. `quote_clmm` from b to a overflows, and so is 0, for any input above one unit
    (`state.rs:239`).
13. A Solend obligation without deposits counts as underwater (`monitor.rs:459`).
14. Solend's values are in WAD, but are divided by Kamino's 1e9 (`liquidation.rs:91`).
15. A price per compute unit is stored as a fee (`executor.rs:350`).
16. The repository's own test of `ltv_bps` overflows 128 bits (`state.rs:273`).

## Fairness

- ShardedTable: a started insert, sweep or scan goes on, and the GC ticker ticks.
  A writer blocked on a lock that becomes free again and again obtains it (strong
  fairness of `GcLock`, and of `InsertAcquire` once it blocks): `std`'s `RwLock` lets
  no new reader pass a waiting writer, and sweeps are 30 s apart. `try_write` gets
  no such promise. Nobody has to begin an insert or a scan.
- Pipeline: the runtime polls a task that can go on. `select!` picks among ready
  branches at random, so neither starves: strong fairness of both. Nothing is
  assumed of stream, chain and Jupiter.
- Submission: RPC and Jito clients have timeouts, so their steps end. The Jupiter
  client has none (`executor.rs:172`), so its step may never end.

- Strategies: the strategy task goes on with an evaluation it has begun.
- Risk: monitor and executor finish what they began. Updates need not come;
  `BreakerClears` has their coming as a premise, since without them a tripped
  breaker stays.

Safety runs and proofs do not depend on fairness.

## Proofs

Every invariant that a passing run checks but `FrontrunKeepsVictim`, the refinement
and the one action property without fairness (`ActiveRemembered`) are also theorems,
proved by TLAPS for every value of the constants. A module `XProofs` proves what module `X`
states. In each the pattern is the same: an inductive invariant (the theorem whose
name ends in `Invariant`, `LocksHeld`, `ProfilesFed`), one lemma or step per
action, and the properties as consequences.

| module | inductive invariant: what it adds to the properties, and why | theorems that state a checked property |
|---|---|---|
| `ShardedTableProofs` | `LInv`: a shard is held for writing exactly by the task whose program counter says so, for reading exactly by the readers inside it, never both. Without it a sweep could write under a reader | `TypeCorrect`, `SnapshotsHold`, `SweptHolds`, `EvictedCountHolds`, `Refinement` |
| `PipelineProofs` | `PInv`: slots grow along the way of an update (chain, stream, monitor, channel), so an insert never replaces a newer entry; the update in the monitor's hands is visible once inserted; so is that of a scan until it reads the pool, and from then on its edge or its age stays | `TypeCorrect`, `OpportunitiesVisible`, `TableFollowsFeed`, `ScansSeeTheirUpdate` |
| `SubmissionProofs` | `SInv`: a bundle is one tip and all that was ever sent of one signal, with one blockhash; nothing of the signal in work has left the executor. So no second transaction of a signal can exist, and no tip lands before its signal | `TypeCorrect`, `CarriedOutOnce`, `TipsPayForBundles`, `OnlyVettedSent` |
| `ArbitrageProofs` | `ArbitrageInv`, see below | `TypeCorrect`, `ReconstructionSucceeds`, `RoutesGain`, `NoneMeansNone` |
| `QuoteProofs` | none: what the quotes of PoolQuotes promise, as operators | - (`QuoteBounds`, `QuoteGrows`, `RoundTripLoses`) |
| `StrategiesProofs` | `SandwichInv`, `SizingInv`, `LiquidationInv`, `OneAtATime`: a bound of a bisection is either one that was tried or the one it started with; what the scanner found is what it read | `TypeCorrect`, `LargestFrontrun`, `ProfitsAreReal`, `NothingWithoutVictim`, `InputsStall`, `QuotesWithinLiquidity`, `DangersAreSeen`, `RepaysFollowDebts` |
| `SmartMoneyProofs` | `PInv`: what the monitor's calls can make of a profile: one pool, no first move, no more successes or arbitrage calls than transactions | `TypeCorrect`, `NobodyEverSmart`, `ActiveStay` |
| `RiskProofs` | `RInv`: mints of tracked pools have been fed, the breaker that was read holds until there is a race, variances stay between the squares they were fed | `TypeCorrect`, `BreakerNeedsAJump`, `CapNeedsARace`, `NeverPricedBlind` |

**The refinement.** In ShardedTable `InsertWrite` maps to `Insert`, `SlotStore` to
`Advance`, a removing `GcVisit` to `Evict`, all else to stuttering. `Evict` needs an
argument: the sweep's slot is old and the counter may have moved back, but it was
once the counter, so `tip` is not below it.

**Bellman-Ford.** The proof never sums along a path, which would take induction
over data. A path or a cycle carries labels instead, one number per mint that
bounds what it costs to get there, and two conditions on neighbouring labels say
that they do. `PassInv` says of every labelled path of `n` edges that pass `n` has
kept to it; so after `N - 1` passes every path without repeats is kept to, and an
edge that can still be shortened hangs from a predecessor cycle. `CyclesFall` says
that a cycle of the predecessor array, whenever one has closed, admits labels that
fall around it, so it gains (`RoutesGain`). `WalkInv` says that the set of mints
the walk can still reach loses one with each step or is made of cycles, so `N` steps
are enough (`ReconstructionSucceeds`). For `NoneMeansNone`, the distances
themselves are labels that no cycle can fall around once no edge can be shortened.
Only the sums in the statements of the two properties, `MapThenSumSet` of the
community modules, have to be taken apart: `SumsExist` and `SumsTakeOut` unfold it
by an argument on the smallest set for which it would fail.

**Arithmetic.** `DivBounds`, `DivAtLeast` and `DivAtMost` characterise a quotient;
everything else about quotes follows from these three, product by product.
`RoundTripLoses` is the reason for `NothingWithoutVictim`. `LargestFrontrun` rests on
`VictimOutShrinks`, that the victim's output falls as the front leg grows: the
comment at `sandwich.rs:115` takes this for granted, and it is not evident with three
roundings and a saturating reserve. It holds for victims whose products fit 128
bits (`VictimProductsFit`, part of the statement), which every victim below
2^64 / 10,000 units does; where a product wraps, a quote may grow as it should
shrink.

**Induction.** The library's induction theorems take an operator as a parameter and
cannot be used. `UpTo` and `Climb` are induction up to a number, stated of a set
and proved from the well-foundedness of strict inclusion on finite sets.

**Ranks.** Liveness is out of the prover's reach. For three of the liveness
properties the half that does not depend on fairness is proved as an action
property: `EvaluationsShrink` (every step of a busy engine lowers a natural
number; for `EvaluationEnds`), `ExecuteGoesForward` (execute never goes back; for
`ExecuteReturns`), `RestingPriceCools` (every update at an unchanged price takes 6 %
of the variance, and only a move whose square is above it raises it; for
`BreakerClears`).

### Assumptions

The proofs assume of the constants what the `ASSUME`s of the modules say; TLC
evaluates them in the runs. Those that say more than a type:

- `ArbitrageAssumption`: `Inf` is above the weight of any route without repeated
  mints (`f64::INFINITY` is above everything); mints and pools are finite sets.
- `StrategiesAssumption`: amounts fit 64 bits, fees are at most the whole, victims
  trade on constant-product pools (a concentrated one has reserves of 0, hence a
  largest front leg of 0, and the search gives up before it begins). `AccountsAssumption`: what Solend would
  let be borrowed is at most the deposits, and a debt is less than 2^64
  billionths of a dollar, 18 billion dollars; above, Kamino's repay amount would
  wrap.
- `ScalesAssumption`: 2^64 above 2^16 above a whole of basis points, which is a
  multiple of 100.
- `PipelineAssumption`: an entry that a scan may use is not yet one that GC evicts,
  `StaleAge <= GcAge` (8 and 1,500 in the code).
- `SubmissionAssumption`: tip accounts are not actions; `PipelineAssumption`,
  `RiskAssumption`, `ClassifierAssumption`: "absent" is none of the values.
- `NobodyEverSmart` holds for a threshold of at least 60; the code's is 65.

### Only model-checked

The liveness properties `InsertCompletes`, `AgedSwept`, `MonitorReturns`, `Rescue`,
`ExecuteReturns`, `EvaluationEnds`, `BreakerClears`: they need fairness and
`ENABLED`, which the prover does not handle. `FrontrunKeepsVictim`. The runs that are
expected to fail. And the faithfulness of the parameters: the proofs hold at the code's own
numbers (10,000, 2^16, 2^64), at which TLC could not run.

## Not modelled

Byte layouts of accounts and instructions, lookup tables, HTTP formats, the walk
over a transaction's instructions in `extract_pending_swap`; the registry after
loading (its refresh and registration functions have no caller); configuration
parsing; `AccountCache` (written, never read); logging tasks;
`scripts/populate_registry.py`. The floating-point sum in `adjusted_profit` and
`exit_slippage` (`risk.rs:46-52, 110-116`): the result is open, both outcomes are
explored. Floating point elsewhere is taken as exact: thresholds in `score`,
`vol_scale`, edge weights. Reserves of zero cannot be in the tables, the decoders
reject them. Panics: release builds abort the process and wrap on overflow; the
wraps are part of the arithmetic.

## Plan

Every part of the system listed as modelled is, and every safety property that a
run checks is proved but one. What could be added, in this order:

1. **Ranks** for the remaining liveness properties: that the monitor's handler, a
   spinning insert and a sweep only go forward.
2. **Pipeline**: an invariant behind `Rescue`, that an obligation which stays
   underwater is among the keys a sweep has still to visit or the signals it has
   still to send.
3. **StrategiesProofs**: `FrontrunKeepsVictim`, from the ratio of the three constants
   as an assumption: a bound on what a front leg takes from a victim, through five
   quotes.
4. **QuoteProofs**: that a route pays no more than the last of its reserves, which
   bounds the profit of any signal.
