-------------------------------- MODULE Risk --------------------------------
(***************************************************************************)
(* RiskEngine (src/src/risk.rs) between the two tasks that use it at once: *)
(* the monitor, which feeds it with every pool update (monitor.rs:226-231),*)
(* and the executor, which asks it before a liquidation (executor.rs:235). *)
(*                                                                         *)
(* A price is a logarithm in whole percent, so the price of token b is the *)
(* negative of token a's; a variance is in squares of a percent, rounded   *)
(* down.  Each acquisition of the vol lock is a step.  What the profit     *)
(* comes to after haircut, slippage and fee is left open.                  *)
(***************************************************************************)
EXTENDS Integers, FiniteSets, Sequences

CONSTANTS
  Pools, Mints,
  TokenA, TokenB,  \* the mints of a pool
  Prices,          \* the prices of token a that a pool can have
  Collateral,      \* mints that liquidations withdraw
  Clmm,            \* concentrated-liquidity pools: their reserves read 0
  NoVol,           \* no AssetVol for this mint
  NoMsg

ASSUME RiskAssumption ==
  /\ TokenA \in [Pools -> Mints] /\ TokenB \in [Pools -> Mints]
  /\ \A p \in Pools : TokenA[p] # TokenB[p]
  /\ Prices \in [Pools -> SUBSET Int]
  /\ Clmm \subseteq Pools
  /\ Collateral \subseteq Mints
  /\ NoVol \notin [last : Int, var : Nat]

VARIABLES
  vol,        \* AssetVol of each mint: [last, var]
  tracked,    \* the pools in POOLS
  monAt,      \* the monitor: position in MonitorSteps, 0 between updates
  monMsg,     \* the update it handles: [pool, price]
  exPc,       \* the executor: "idle", "breaker", "haircut" or "priced"
  exMint,     \* withdraw_liquidity_mint
  exCapped,   \* the haircut it read is the cap
  raced,      \* history: vol of exMint was written since the breaker was read
  jumped      \* history: mints fed with two prices in a row 8% apart

monVars  == <<tracked, monAt, monMsg>>
exVars   == <<exPc, exMint, exCapped>>
vars == <<vol, monVars, exVars, raced, jumped>>

Init ==
  /\ vol = [m \in Mints |-> NoVol]
  /\ tracked = {} /\ monAt = 0 /\ monMsg = NoMsg
  /\ exPc = "idle" /\ exMint = NoMsg /\ exCapped = FALSE
  /\ raced = FALSE /\ jumped = {}
-----------------------------------------------------------------------------
(* Volatility.                                                             *)

\* CIRCUIT_BREAKER_SIGMA and the cap of price_haircut, in percent; EXECUTION_SLOTS.
BreakerSigma   == 8
HaircutCap     == 25
ExecutionSlots == 2

Square(x) == x * x

\* MUTANTS of Updated: the weight of the new return is forgotten; a price that
\* did not move is skipped.
UpdatedUndamped(v, price) ==
  [last |-> price, var |-> (94 * v.var) \div 100 + Square(price - v.last)]
UpdatedIfMoved(v, price) ==
  IF price = v.last THEN v
  ELSE [last |-> price, var |-> (94 * v.var + 6 * Square(price - v.last)) \div 100]

\* AssetVol::update, lambda = 0.94.  Its early return for a price that is not
\* positive has no place here: the decoders let no pool through without reserves
\* or without a price, so every price has a logarithm.
Updated(v, price) ==
  [last |-> price, var |-> (94 * v.var + 6 * Square(price - v.last)) \div 100]

\* or_insert_with(AssetVol::new).
Entry(m, price) == IF vol[m] = NoVol THEN [last |-> price, var |-> 0] ELSE vol[m]

Jump(m, price) == Square(price - Entry(m, price).last) > Square(BreakerSigma)

\* update_vol
Feed(m, price) ==
  /\ vol' = [vol EXCEPT ![m] = Updated(Entry(m, price), price)]
  /\ jumped' = IF Jump(m, price) THEN jumped \cup {m} ELSE jumped
  /\ raced' = (raced \/ (exPc = "haircut" /\ exMint = m))

\* circuit_breaker_active; sigma_for of an unknown mint is 1%.
Breaker(m) == vol[m] # NoVol /\ vol[m].var > Square(BreakerSigma)

\* MUTANT of Haircut: scaled with the execution window, not its root.
HaircutBySlots(var) ==
  CHOOSE h \in 0 .. HaircutCap :
    /\ Square(h) <= 4 * var * Square(ExecutionSlots)
    /\ h = HaircutCap \/ Square(h + 1) > 4 * var * Square(ExecutionSlots)

\* price_haircut: 2 sigma times the root of the slots, at most the cap; in whole
\* percent, rounded down.
Haircut(var) ==
  CHOOSE h \in 0 .. HaircutCap :
    /\ Square(h) <= 4 * var * ExecutionSlots
    /\ h = HaircutCap \/ Square(h + 1) > 4 * var * ExecutionSlots
-----------------------------------------------------------------------------
(* The monitor handles one pool update.                                    *)

\* MUTANT of MonitorSteps: the pool is published first.
PublishFirst == <<"insert", "a", "b">>

\* on_pool_update feeds token a, then token b; then POOLS.insert.
MonitorSteps == <<"a", "b", "insert">>

MonitorAt(step) == monAt > 0 /\ MonitorSteps[monAt] = step

Advance ==
  /\ monAt' = (monAt + 1) % (Len(MonitorSteps) + 1)
  /\ monMsg' = IF monAt' = 0 THEN NoMsg ELSE monMsg

PoolDecoded(p, price) ==
  /\ monAt = 0
  /\ monAt' = 1
  /\ monMsg' = [pool |-> p, price |-> price]
  /\ UNCHANGED <<vol, tracked, exVars, raced, jumped>>

FeedA ==
  /\ MonitorAt("a")
  /\ Feed(TokenA[monMsg.pool], monMsg.price)
  /\ Advance
  /\ UNCHANGED <<tracked, exVars>>

FeedB ==
  /\ MonitorAt("b")
  /\ Feed(TokenB[monMsg.pool], -monMsg.price)
  /\ Advance
  /\ UNCHANGED <<tracked, exVars>>

InsertPool ==
  /\ MonitorAt("insert")
  /\ tracked' = tracked \cup {monMsg.pool}
  /\ Advance
  /\ UNCHANGED <<vol, exVars, raced, jumped>>

\* The GC task drops a pool that went quiet.  The AssetVol of its mints stays.
GcEvict(p) ==
  /\ p \in tracked
  /\ tracked' = tracked \ {p}
  /\ UNCHANGED <<vol, monAt, monMsg, exVars, raced, jumped>>
-----------------------------------------------------------------------------
(* The executor, on a liquidation that withdraws mint m.                   *)

\* A pool to exit through: the deepest one that trades m, and none without
\* reserves.  Which one it is does not matter here.
ExitPools(m) == {p \in tracked \ Clmm : m \in {TokenA[p], TokenB[p]}}

FindExitPool(m) ==
  /\ exPc = "idle"
  /\ ExitPools(m) # {}
  /\ exPc' = "breaker" /\ exMint' = m
  /\ UNCHANGED <<vol, monVars, exCapped, raced, jumped>>

ExecutorDone == exPc' = "idle" /\ exMint' = NoMsg /\ exCapped' = FALSE

\* adjusted_profit reads the volatility twice.
CheckBreaker ==
  /\ exPc = "breaker"
  /\ IF Breaker(exMint) THEN ExecutorDone
     ELSE exPc' = "haircut" /\ UNCHANGED <<exMint, exCapped>>
  /\ raced' = FALSE
  /\ UNCHANGED <<vol, monVars, jumped>>

\* Blind, without volatility, it is 2%.
ReadHaircut ==
  /\ exPc = "haircut"
  /\ exPc' = "priced"
  /\ exCapped' = (vol[exMint] # NoVol /\ Haircut(vol[exMint].var) = HaircutCap)
  /\ UNCHANGED <<vol, monVars, exMint, raced, jumped>>

\* The liquidation goes on or is vetoed.
Return ==
  /\ exPc = "priced"
  /\ ExecutorDone
  /\ raced' = FALSE
  /\ UNCHANGED <<vol, monVars, jumped>>

MonitorWork == FeedA \/ FeedB \/ InsertPool
ExecutorWork == CheckBreaker \/ ReadHaircut \/ Return

Next ==
  \/ \E p \in Pools : (\E price \in Prices[p] : PoolDecoded(p, price)) \/ GcEvict(p)
  \/ \E m \in Collateral : FindExitPool(m)
  \/ MonitorWork \/ ExecutorWork

\* Both tasks finish what they began; updates need not come.
Spec == Init /\ [][Next]_vars /\ WF_vars(MonitorWork) /\ WF_vars(ExecutorWork)
-----------------------------------------------------------------------------
(* Properties.                                                             *)

\* The largest distance between two prices that a mint can be fed with.
PricesOf(m) == UNION {IF TokenA[p] = m THEN Prices[p] ELSE {-x : x \in Prices[p]} :
                        p \in {q \in Pools : m \in {TokenA[q], TokenB[q]}}}

\* Types; and a variance never exceeds the square of the largest move there was
\* to make.
TypeOK ==
  /\ \A m \in Mints :
       \/ vol[m] = NoVol
       \/ /\ vol[m].last \in PricesOf(m)
          /\ vol[m].var \in Nat
          /\ \E x, y \in PricesOf(m) : vol[m].var <= Square(x - y)
  /\ tracked \subseteq Pools
  /\ monAt \in 0 .. Len(MonitorSteps)
  /\ monAt > 0 => monMsg.pool \in Pools /\ monMsg.price \in Prices[monMsg.pool]
  /\ exPc \in {"idle", "breaker", "haircut", "priced"}
  /\ exPc # "idle" => exMint \in Collateral
  /\ exCapped \in BOOLEAN
  /\ raced \in BOOLEAN /\ jumped \subseteq Mints

\* The breaker of a mint is never active unless two updates in a row priced it
\* more than 8% apart, by whatever pools; no run of smaller moves adds up to it
\* (risk.rs:14, 32, 84-91).
BreakerMeansAJump == \A m \in Mints : Breaker(m) => m \in jumped

\* "cap at 25% because beyond that our quote is garbage anyway and we should
\* just skip" (risk.rs:40): the breaker skips before the haircut gets that far.
\* Only an update between the two reads of adjusted_profit makes the executor
\* work with a capped haircut.
CapOnlyByRace == exPc = "priced" /\ exCapped => raced

\* The executor never prices a liquidation blind, with 2% for a mint nobody has
\* seen (risk.rs:108): a pool is published after its volatility was fed
\* (monitor.rs:228-229), and volatilities stay when pools go.
NeverBlind == exPc # "idle" => vol[exMint] # NoVol

\* An update of m reaches the risk engine.
FedWith(m) == \/ FeedA /\ TokenA[monMsg.pool] = m
              \/ FeedB /\ TokenB[monMsg.pool] = m

\* The breaker does not stay: if the price of m stops moving while updates go on
\* arriving, it clears for good.  It takes those updates: sigma ages by the
\* update and not by the clock (risk.rs:29-35, 84-91).
BreakerClears ==
  \A m \in Mints :
    (/\ <>[][vol'[m] # vol[m] =>
              vol[m] # NoVol /\ vol'[m].last = vol[m].last]_vars
     /\ []<><<FedWith(m)>>_vars) => <>[]~Breaker(m)
=============================================================================
