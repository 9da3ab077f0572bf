-------------------------- MODULE StrategiesProofs --------------------------
(***************************************************************************)
(* Proofs about the strategy engine: the sizes and profits of the sandwich *)
(* detector, the sizes of the arbitrage routes, the verdicts of the        *)
(* liquidation scanner.  Each searches or computes on what it has read     *)
(* once, so each has an invariant of its own; that the engine works on one *)
(* opportunity at a time is a fourth.                                      *)
(***************************************************************************)
EXTENDS Strategies, QuoteProofs

(* The sandwich detector.                                                  *)

\* The invariant of an evaluation: the bisection keeps a lower bound that the
\* victim bears or that is still the floor, and an upper bound that it does not
\* bear or that is still the maximum, which is small enough for every product
\* of a quote to fit.
SandwichInv ==
  /\ saPc \in {"idle", "bisect", "signal", "dropped"}
  /\ saPc # "idle" =>
       /\ saPool \in TradedPools /\ saSwap \in Victims
       /\ saLo \in Nat /\ saHi \in Nat /\ saMax \in Nat
       /\ saMax * Bps < Q64
       /\ FrontrunFloor <= saLo /\ saLo <= saHi /\ saHi <= saMax
       /\ saLo = FrontrunFloor \/ VictimHolds(saLo)
       /\ saHi = saMax \/ ~VictimHolds(saHi)
  /\ saPc \in {"signal", "dropped"} => ~Wide
  /\ saPc = "signal" => saProfit = SimulatedProfit(saPool, saSwap, saLo)

\* The largest front leg is a number, and small enough that its basis points
\* fit 64 bits: MAX_POOL_IMPACT_BPS of the reserve is taken after a division.
LEMMA MaxFrontrunFits ==
  ASSUME NEW p \in CpPool, NEW sigma \in Nat
  PROVE  MaxFrontrun(p, sigma) \in Nat /\ MaxFrontrun(p, sigma) * Bps < Q64
<1> DEFINE n == (p.a * MaxPoolImpact) % Q64
           share == n \div Bps
           vol == VolScale(sigma)
           m == (share * vol) \div 100
<1>1. /\ p.a \in Nat /\ MaxPoolImpact \in Nat /\ Q64 \in Nat \ {0}
      /\ Bps \in Nat \ {0}
  BY ScalesAssumption, SandwichAssumption DEF CpPool
<1>2. n \in Nat /\ n < Q64
  BY <1>1, TimesNat, ModBounds
<1>3. share \in Nat /\ share * Bps <= n
  <2> HIDE DEF n
  <2> QED BY <1>1, <1>2, DivBounds
<1>4. vol \in 0 .. 100
  BY DEF VolScale, Most, Least
<1>5. m \in Nat /\ m * 100 <= share * vol
  <2> HIDE DEF share, vol
  <2> QED BY <1>3, <1>4, TimesNat, DivBounds
<1>6. m <= share
  <2> HIDE DEF m, share, vol
  <2>1. share * vol <= share * 100 /\ share * vol \in Nat
    BY <1>3, <1>4, TimesNat, TimesMono
  <2> QED BY <2>1, <1>3, <1>5
<1>7. m * Bps < Q64
  <2> HIDE DEF m, share, n
  <2>1. m * Bps <= share * Bps /\ m * Bps \in Nat /\ share * Bps \in Nat
    BY <1>1, <1>3, <1>5, <1>6, TimesNat, TimesMono
  <2> QED BY <2>1, <1>1, <1>2, <1>3
<1>8. MaxFrontrun(p, sigma) = m
  BY DEF MaxFrontrun
<1> QED BY <1>5, <1>7, <1>8

\* The bisection's steps: every step of the engine starts the detector, goes on
\* with it, or leaves its variables alone.
LEMMA SandwichSteps ==
  ASSUME [Next]_vars
  PROVE  \/ \E p \in TradedPools, swap \in Victims, smart \in BOOLEAN, sigma \in Sigmas :
              SandwichStart(p, swap, smart, sigma)
         \/ FrontrunBisect \/ FrontrunSized \/ SandwichReturn
         \/ UNCHANGED saVars
BY DEF Next, vars, ProcessSwap, ProcessPool, ProcessObligation, SweepLiquidations,
       EngineWork, SandwichWork

\* The detector's invariant holds in every behaviour of the engine.
THEOREM SandwichInvariant == Spec => []SandwichInv
<1>1. Init => SandwichInv
  BY DEF Init, SandwichIdle, SandwichInv
<1>2. SandwichInv /\ [Next]_vars => SandwichInv'
  <2> SUFFICES ASSUME SandwichInv, [Next]_vars PROVE SandwichInv'
    OBVIOUS
  <2>1. ASSUME NEW p \in TradedPools, NEW swap \in Victims, NEW smart \in BOOLEAN,
               NEW sigma \in Sigmas, SandwichStart(p, swap, smart, sigma)
        PROVE  SandwichInv'
    <3>1. p \in CpPool /\ sigma \in Nat
      BY StrategiesAssumption
    <3>2. /\ MaxFrontrun(p, sigma) \in Nat /\ MaxFrontrun(p, sigma) * Bps < Q64
      BY <3>1, MaxFrontrunFits
    <3>3. FrontrunFloor <= MaxFrontrun(p, sigma)
      BY <2>1 DEF SandwichStart, RoomToSize
    <3>4. /\ saPc' = "bisect" /\ saPool' = p /\ saSwap' = swap
          /\ saLo' = FrontrunFloor /\ saHi' = MaxFrontrun(p, sigma)
          /\ saMax' = MaxFrontrun(p, sigma)
      BY <2>1 DEF SandwichStart
    <3>5. FrontrunFloor \in Nat
      BY SandwichAssumption
    <3> QED BY <3>2, <3>3, <3>4, <3>5 DEF SandwichInv
  <2>2. CASE FrontrunBisect
    <3> DEFINE mid == (saLo + saHi) \div 2
    <3>1. /\ saPc = "bisect" /\ Wide /\ saPc' = "bisect"
          /\ saPool' = saPool /\ saSwap' = saSwap /\ saMax' = saMax
          /\ IF VictimHolds(mid) THEN saLo' = mid /\ saHi' = saHi
                                 ELSE saHi' = mid /\ saLo' = saLo
      BY <2>2 DEF FrontrunBisect
    <3>2. /\ saPool \in TradedPools /\ saSwap \in Victims
          /\ saLo \in Nat /\ saHi \in Nat /\ saMax \in Nat
          /\ saMax * Bps < Q64
          /\ FrontrunFloor <= saLo /\ saLo <= saHi /\ saHi <= saMax
          /\ saLo = FrontrunFloor \/ VictimHolds(saLo)
          /\ saHi = saMax \/ ~VictimHolds(saHi)
      BY <3>1 DEF SandwichInv
    <3>3. mid \in Nat /\ saLo <= mid /\ mid <= saHi /\ FrontrunFloor \in Nat
      BY <3>2, SandwichAssumption
    <3> HIDE DEF mid
    <3>4. CASE VictimHolds(mid)
      <4>1. saLo' = mid /\ saHi' = saHi
        BY <3>1, <3>4
      <4>2. VictimHolds(saLo)' /\ (saHi' = saMax' \/ ~VictimHolds(saHi)')
        BY <4>1, <3>1, <3>2, <3>4 DEF VictimHolds
      <4> QED BY <4>1, <4>2, <3>1, <3>2, <3>3 DEF SandwichInv
    <3>5. CASE ~VictimHolds(mid)
      <4>1. saHi' = mid /\ saLo' = saLo
        BY <3>1, <3>5
      <4>2. ~VictimHolds(saHi)' /\ (saLo' = FrontrunFloor \/ VictimHolds(saLo)')
        BY <4>1, <3>1, <3>2, <3>5 DEF VictimHolds
      <4> QED BY <4>1, <4>2, <3>1, <3>2, <3>3 DEF SandwichInv
    <3> QED BY <3>4, <3>5
  <2>3. CASE FrontrunSized
    <3>1. /\ saPc = "bisect" /\ ~Wide /\ saPc' \in {"signal", "dropped"}
          /\ saProfit' = SimulatedProfit(saPool, saSwap, saLo)
          /\ saPool' = saPool /\ saSwap' = saSwap /\ saLo' = saLo /\ saHi' = saHi
          /\ saMax' = saMax
      BY <2>3 DEF FrontrunSized
    <3>2. ~Wide'
      BY <3>1 DEF Wide
    <3> QED BY <3>1, <3>2 DEF SandwichInv, VictimHolds
  <2>4. CASE SandwichReturn
    BY <2>4 DEF SandwichReturn, SandwichInv
  <2>5. CASE UNCHANGED saVars
    BY <2>5 DEF saVars, SandwichInv, VictimHolds, Wide
  <2> QED BY <2>1, <2>2, <2>3, <2>4, <2>5, SandwichSteps
<1> QED BY <1>1, <1>2, PTL DEF Spec

\* Buying and selling back on one pool gains nothing: the pool is what AfterSwap
\* makes of it.
LEMMA NoGainAlone ==
  ASSUME NEW p \in CpPool, NEW aToB \in BOOLEAN, NEW x \in Nat
  PROVE  PoolQuote(AfterSwap(p, aToB, x), ~aToB, PoolQuote(p, aToB, x)) <= x
<1> DEFINE rIn == IF aToB THEN p.a ELSE p.b
           rOut == IF aToB THEN p.b ELSE p.a
           q == PoolQuote(p, aToB, x)
           s == AfterSwap(p, aToB, x)
           sIn == IF aToB THEN s.a ELSE s.b
           sOut == IF aToB THEN s.b ELSE s.a
<1>1. p.kind = "cp" /\ p.fee \in 0 .. Bps /\ rIn \in Nat /\ rOut \in Nat
  BY ScalesAssumption DEF CpPool
<1>2. /\ s \in CpPool /\ s.fee = p.fee /\ sIn <= rIn + x /\ sOut = rOut - q
  BY AfterSwapIs
<1>3. s.kind = "cp" /\ sIn \in Nat
  <2> HIDE DEF s
  <2> QED BY <1>2, ScalesAssumption DEF CpPool
<1>4. q = Quote(rIn, rOut, p.fee, x)
  BY <1>1, CpQuote
<1>5. PoolQuote(s, ~aToB, q) = Quote(sOut, sIn, p.fee, q)
  <2> HIDE DEF s, q
  <2> QED BY <1>2, <1>3, CpQuote
<1>6. Quote(rOut - q, sIn, p.fee, q) <= x
  <2> HIDE DEF rIn, rOut, sIn
  <2> QED BY <1>1, <1>2, <1>3, <1>4, RoundTripLoses
<1> QED BY <1>2, <1>5, <1>6

\* Without its victim no signal gains anything, for pools, fees and sizes of any
\* size: all that the estimate counts on comes from the victim's swap.
THEOREM NothingWithoutVictim == Spec => []NoVictimNoGain
<1>1. SandwichInv => NoVictimNoGain
  <2> SUFFICES ASSUME SandwichInv, saPc = "signal"
               PROVE  PoolQuote(AfterSwap(saPool, saSwap.aToB, saLo), ~saSwap.aToB,
                                PoolQuote(saPool, saSwap.aToB, saLo)) <= saLo
    BY DEF NoVictimNoGain
  <2>1. saPool \in CpPool /\ saSwap.aToB \in BOOLEAN /\ saLo \in Nat
    BY StrategiesAssumption DEF SandwichInv
  <2> QED BY <2>1, NoGainAlone
<1> QED BY <1>1, SandwichInvariant, PTL

\* The profit of a signal is what its bundle earns, for every victim from a to b
\* whose front leg the search has tried.
THEOREM ProfitsAreReal == Spec => []ProfitIsReal
<1>1. SandwichInv => ProfitIsReal
  <2> SUFFICES ASSUME SandwichInv, saPc = "signal", saSwap.aToB, saLo # FrontrunFloor
               PROVE  saProfit = Realized(saPool, saSwap, saLo)
    BY DEF ProfitIsReal
  <2>1. saSwap.aToB = TRUE
    BY StrategiesAssumption DEF SandwichInv
  <2>2. VictimOut(saPool, saSwap, saLo) >= saSwap.min
    BY DEF SandwichInv, VictimHolds
  <2>3. PoolQuote(AfterSwap(saPool, TRUE, saLo), TRUE, saSwap.in) >= saSwap.min
    BY <2>1, <2>2 DEF VictimOut
  <2>4. saProfit = SimulatedProfit(saPool, saSwap, saLo)
    BY DEF SandwichInv
  <2> QED BY <2>1, <2>3, <2>4 DEF SimulatedProfit, Realized
<1> QED BY <1>1, SandwichInvariant, PTL

\* The victims for whom the size search is exact: no product of their quotes
\* passes 128 bits.  A victim below 2^64 / 10_000 is always one of them, and so is
\* a larger one on a smaller pool.
VictimProductsFit ==
  saPc # "idle" =>
    saSwap.in * (Bps - saPool.fee) * Most(saPool.a, saPool.b) < Q64 * Q64

\* What the victim is left with is a number.
LEMMA VictimOutNat ==
  ASSUME NEW p \in CpPool, NEW swap \in Victims, NEW f \in Nat
  PROVE  VictimOut(p, swap, f) \in Nat
<1>1. swap.aToB \in BOOLEAN /\ swap.in \in Nat
  BY StrategiesAssumption, ScalesAssumption
<1>2. AfterSwap(p, swap.aToB, f) \in CpPool
  BY <1>1, AfterSwapIs
<1> QED BY <1>1, <1>2, PoolQuoteNat DEF VictimOut

\* The larger the front leg, the less the victim gets: nothing in the arithmetic
\* of the two swaps, not the rounding nor the saturating reserve, turns it around.
LEMMA VictimOutShrinks ==
  ASSUME NEW p \in CpPool, NEW swap \in Victims, NEW f \in Nat, NEW g \in Nat,
         f <= g, g * Bps < Q64,
         swap.in * (Bps - p.fee) * Most(p.a, p.b) < Q64 * Q64
  PROVE  VictimOut(p, swap, g) <= VictimOut(p, swap, f)
<1> DEFINE d == swap.aToB
           v == swap.in
           fee == p.fee
           rIn == IF d THEN p.a ELSE p.b
           rOut == IF d THEN p.b ELSE p.a
           sIn(x) == Cap64(rIn + x)
           sOut(x) == rOut - Quote(rIn, rOut, fee, x)
           w == v * (Bps - fee)
<1>1. /\ p.kind = "cp" /\ fee \in 0 .. Bps /\ d \in BOOLEAN /\ v \in Nat
      /\ rIn \in Nat /\ rOut \in Nat /\ rOut < Q64
      /\ p.a \in Nat /\ p.b \in Nat
      /\ Bps \in Nat \ {0} /\ Q64 \in Nat \ {0}
  BY StrategiesAssumption, ScalesAssumption DEF CpPool
<1>2. \A x \in Nat : /\ AfterSwap(p, d, x) \in CpPool
                     /\ VictimOut(p, swap, x) = Quote(sIn(x), sOut(x), fee, v)
                     /\ sIn(x) \in Nat /\ sOut(x) \in Nat /\ sOut(x) <= rOut
  <2> TAKE x \in Nat
  <2> DEFINE s == AfterSwap(p, d, x)
             q == PoolQuote(p, d, x)
  <2>1. q = Quote(rIn, rOut, fee, x) /\ q \in Nat /\ q <= rOut
    <3>1. q = Quote(rIn, rOut, fee, x)
      BY <1>1, CpQuote
    <3> HIDE DEF q, rIn, rOut, fee
    <3> QED BY <3>1, <1>1, QuoteBounds
  <2>2. /\ s \in CpPool /\ s.fee = fee
        /\ (IF d THEN s.a ELSE s.b) = sIn(x)
        /\ (IF d THEN s.b ELSE s.a) = rOut - q
    BY <1>1, AfterSwapIs
  <2>3. sIn(x) \in Nat
    <3> HIDE DEF rIn
    <3> QED BY <1>1 DEF Cap64, Least
  <2>4. VictimOut(p, swap, x) = Quote(sIn(x), rOut - q, fee, v)
    <3>1. VictimOut(p, swap, x) = PoolQuote(s, d, v)
      BY DEF VictimOut
    <3>2. s.kind = "cp"
      <4> HIDE DEF s
      <4> QED BY <2>2 DEF CpPool
    <3> HIDE DEF s, q
    <3> QED BY <3>1, <3>2, <2>2, <1>1, CpQuote
  <2> HIDE DEF q, s, rIn, rOut, fee, v, d
  <2> QED BY <2>1, <2>2, <2>3, <2>4, <1>1 DEF s
<1>3. Quote(rIn, rOut, fee, f) <= Quote(rIn, rOut, fee, g)
  <2> DEFINE u == g * (Bps - fee)
  <2>1. u \in Nat /\ u <= g * Bps /\ g * Bps \in Nat
    <3>1. Bps - fee \in Nat /\ Bps - fee <= Bps
      BY <1>1
    <3> QED BY <3>1, <1>1, TimesNat, TimesMono
  <2>2. u < Q64
    <3> HIDE DEF u
    <3> QED BY <2>1, <1>1
  <2>3. u * rOut < Q64 * Q64
    <3> HIDE DEF u, rOut
    <3>1. u * rOut <= u * Q64 /\ u * Q64 \in Nat /\ u * rOut \in Nat
      BY <2>1, <1>1, TimesNat, TimesMono
    <3>2. (u + 1) * Q64 <= Q64 * Q64 /\ (u + 1) * Q64 = u * Q64 + Q64 /\ Q64 * Q64 \in Nat
      BY <2>1, <2>2, <1>1, TimesNat, TimesMono
    <3> QED BY <3>1, <3>2, <1>1
  <2> HIDE DEF rIn, rOut, fee
  <2> QED BY <2>3, <1>1, QuoteGrows
<1>4. sIn(f) <= sIn(g) /\ sOut(g) <= sOut(f)
  <2>1. sIn(f) <= sIn(g)
    <3> HIDE DEF rIn
    <3> QED BY <1>1 DEF Cap64, Least
  <2>2. Quote(rIn, rOut, fee, f) \in Nat /\ Quote(rIn, rOut, fee, g) \in Nat
    <3> HIDE DEF rIn, rOut, fee
    <3> QED BY <1>1, QuoteBounds
  <2>3. sOut(g) <= sOut(f)
    <3> HIDE DEF rIn, rOut, fee
    <3> QED BY <1>1, <1>3, <2>2
  <2> QED BY <2>1, <2>3
<1>5. w * sOut(f) < Q64 * Q64
  <2>1. w \in Nat
    <3>1. Bps - fee \in Nat
      BY <1>1
    <3> QED BY <3>1, <1>1, TimesNat
  <2>2. sOut(f) <= Most(p.a, p.b) /\ sOut(f) \in Nat /\ Most(p.a, p.b) \in Nat
    <3>1. rOut <= Most(p.a, p.b) /\ Most(p.a, p.b) \in Nat
      BY <1>1 DEF Most
    <3>2. sOut(f) \in Nat /\ sOut(f) <= rOut
      BY <1>2
    <3> HIDE DEF sOut, rOut
    <3> QED BY <3>1, <3>2, <1>1
  <2>3. w * sOut(f) <= w * Most(p.a, p.b)
    <3> HIDE DEF w, sOut
    <3> QED BY <2>1, <2>2, TimesMono
  <2>4. w * sOut(f) \in Nat /\ w * Most(p.a, p.b) \in Nat /\ Q64 * Q64 \in Nat
    <3> HIDE DEF w, sOut
    <3> QED BY <2>1, <2>2, <1>1, TimesNat
  <2>5. w * Most(p.a, p.b) < Q64 * Q64
    OBVIOUS
  <2> HIDE DEF w, sOut
  <2> QED BY <2>3, <2>4, <2>5
<1>6. Quote(sIn(g), sOut(g), fee, v) <= Quote(sIn(f), sOut(f), fee, v)
  <2>1. /\ sIn(f) \in Nat /\ sIn(g) \in Nat /\ sOut(f) \in Nat /\ sOut(g) \in Nat
    BY <1>2
  <2>2. v * (Bps - fee) * sOut(f) < Q64 * Q64
    BY <1>5
  <2> HIDE DEF sIn, sOut, fee, v
  <2> QED BY <2>1, <2>2, <1>1, <1>4, QuoteShrinks
<1>7. /\ VictimOut(p, swap, f) = Quote(sIn(f), sOut(f), fee, v)
      /\ VictimOut(p, swap, g) = Quote(sIn(g), sOut(g), fee, v)
  BY <1>2
<1> QED BY <1>6, <1>7

\* The search returns the largest front leg that the victim bears, up to a step,
\* for every pool, every victim whose products fit, and whatever the fee.
THEOREM LargestFrontrun == Spec => [](VictimProductsFit => FrontrunIsLargest)
<1>1. SandwichInv => (VictimProductsFit => FrontrunIsLargest)
  <2> SUFFICES ASSUME SandwichInv, VictimProductsFit, saPc \in {"signal", "dropped"}
               PROVE  FrontrunIsLargest
    BY DEF FrontrunIsLargest
  <2>1. /\ saPool \in TradedPools /\ saPool \in CpPool /\ saSwap \in Victims
        /\ saLo \in Nat /\ saHi \in Nat /\ saMax \in Nat /\ saMax * Bps < Q64
        /\ saLo <= saHi /\ saHi <= saMax
        /\ saLo = FrontrunFloor \/ VictimHolds(saLo)
        /\ saHi = saMax \/ ~VictimHolds(saHi)
        /\ ~Wide
    BY StrategiesAssumption DEF SandwichInv
  <2>2. VictimOut(saPool, saSwap, saLo) >= saSwap.min \/ saLo = FrontrunFloor
    BY <2>1 DEF VictimHolds
  <2>3. ASSUME NEW f \in saLo + FrontrunStep + 1 .. saMax
        PROVE  VictimOut(saPool, saSwap, f) < saSwap.min
    <3>1. f \in Nat /\ saHi <= f /\ saHi # saMax /\ f <= saMax
      BY <2>1, SandwichAssumption DEF Wide
    <3>2. f * Bps < Q64
      <4>1. f * Bps <= saMax * Bps /\ f * Bps \in Nat /\ saMax * Bps \in Nat
        BY <2>1, <3>1, ScalesAssumption, TimesMono, TimesNat
      <4> QED BY <4>1, <2>1, ScalesAssumption
    <3>3. saSwap.in * (Bps - saPool.fee) * Most(saPool.a, saPool.b) < Q64 * Q64
      BY <2>1 DEF VictimProductsFit
    <3>4. VictimOut(saPool, saSwap, f) <= VictimOut(saPool, saSwap, saHi)
      BY <2>1, <3>1, <3>2, <3>3, VictimOutShrinks
    <3>5. VictimOut(saPool, saSwap, f) \in Nat /\ VictimOut(saPool, saSwap, saHi) \in Nat
      BY <2>1, <3>1, VictimOutNat
    <3>6. saSwap.min \in Nat
      BY <2>1, StrategiesAssumption, ScalesAssumption
    <3>7. ~(VictimOut(saPool, saSwap, saHi) >= saSwap.min)
      BY <2>1, <3>1 DEF VictimHolds
    <3> QED BY <3>4, <3>5, <3>6, <3>7
  <2> QED BY <2>2, <2>3 DEF FrontrunIsLargest
<1> QED BY <1>1, SandwichInvariant, PTL

(* Routes.                                                                 *)

\* A hop of a route: a pool, and the direction in which it is taken.
Hop == [pool : CpPool \cup ClmmPool, aToB : BOOLEAN]

\* What hop i of a route pays for an amount.
Pays(route, i, amount) == PoolQuote(route[i].pool, route[i].aToB, amount)

\* y lists the amounts along a route: it starts with x, and each hop adds what it
\* pays for the amount before.
Along(route, x, y) ==
  /\ y \in [0 .. Len(route) -> Nat]
  /\ y[0] = x
  /\ \A i \in 1 .. Len(route) : y[i] = Pays(route, i, y[i - 1])

\* What a hop pays is a number, and nothing for nothing.
LEMMA PaysNat ==
  ASSUME NEW route \in Seq(Hop), NEW i \in 1 .. Len(route), NEW amount \in Nat
  PROVE  Pays(route, i, amount) \in Nat /\ Pays(route, i, 0) = 0
<1>1. route[i] \in Hop
  OBVIOUS
<1>2. route[i].pool \in CpPool \cup ClmmPool /\ route[i].aToB \in BOOLEAN
  BY <1>1 DEF Hop
<1> QED BY <1>2, PoolQuoteNat DEF Pays

\* The largest element of a set of positions is one of them.
LEMMA MaxIs ==
  ASSUME NEW n \in Nat, NEW s \in SUBSET (1 .. n), s # {}
  PROVE  Max(s) \in s /\ \A k \in s : k <= Max(s)
<1> DEFINE T == {n - k : k \in s}
<1>1. T \in SUBSET Nat /\ T # {}
  <2>1. \A k \in s : n - k \in Nat
    OBVIOUS
  <2>2. PICK k \in s : TRUE
    OBVIOUS
  <2>3. n - k \in T
    BY <2>2
  <2> QED BY <2>1, <2>3
<1>2. PICK m \in T : \A k \in T : m <= k
  <2> HIDE DEF T
  <2> QED BY <1>1, LeastOf
<1>3. PICK j \in s : m = n - j
  BY <1>2
<1>4. \A k \in s : j >= k
  <2> TAKE k \in s
  <2>1. n - k \in T /\ j \in Nat /\ k \in Nat
    OBVIOUS
  <2>2. m <= n - k
    BY <2>1, <1>2
  <2> QED BY <2>1, <2>2, <1>3
<1>5. \E x \in s : \A k \in s : x >= k
  BY <1>4
<1>6. Max(s) \in s /\ \A k \in s : Max(s) >= k
  BY <1>5 DEF Max
<1> QED BY <1>6

\* The largest position of 1 .. k is k.
LEMMA MaxOfPositions ==
  ASSUME NEW k \in Nat \ {0}
  PROVE  Max(1 .. k) = k /\ (1 .. k) \ {k} = 1 .. k - 1
<1>1. 1 .. k \in SUBSET (1 .. k) /\ 1 .. k # {} /\ k \in 1 .. k
  OBVIOUS
<1>2. Max(1 .. k) \in 1 .. k /\ k <= Max(1 .. k)
  BY <1>1, MaxIs
<1> QED BY <1>2

\* The amounts along a route exist.
LEMMA AlongExists ==
  ASSUME NEW route \in Seq(Hop), NEW x \in Nat
  PROVE  \E y : Along(route, x, y)
<1> DEFINE n == Len(route)
           Upto(k, y) == /\ y \in [0 .. k -> Nat]
                         /\ y[0] = x
                         /\ \A i \in 1 .. k : y[i] = Pays(route, i, y[i - 1])
           S == {k \in 0 .. n : \E y : Upto(k, y)}
<1>1. n \in Nat
  OBVIOUS
<1>2. 0 \in S
  <2>1. Upto(0, [i \in 0 .. 0 |-> x])
    OBVIOUS
  <2> HIDE DEF Upto
  <2> QED BY <2>1, <1>1
<1>3. ASSUME NEW k \in 0 .. n, k < n, k \in S
      PROVE  k + 1 \in S
  <2>1. PICK y : Upto(k, y)
    BY <1>3
  <2> DEFINE z == [i \in 0 .. k + 1 |-> IF i <= k THEN y[i] ELSE Pays(route, i, y[i - 1])]
  <2>2. k \in Nat /\ k + 1 \in 0 .. n /\ k + 1 \in 1 .. Len(route)
    BY <1>3, <1>1
  <2>3. y[k] \in Nat
    BY <2>1, <2>2
  <2>4. Pays(route, k + 1, y[k]) \in Nat
    BY <2>2, <2>3, PaysNat
  <2>5. \A i \in 0 .. k + 1 : z[i] \in Nat
    <3> TAKE i \in 0 .. k + 1
    <3>1. CASE i <= k
      <4>1. z[i] = y[i] /\ i \in 0 .. k
        BY <3>1, <2>2
      <4>2. y[i] \in Nat
        BY <4>1, <2>1
      <4> QED BY <4>1, <4>2
    <3>2. CASE ~(i <= k)
      <4>1. i = k + 1 /\ i - 1 = k
        BY <3>2, <2>2
      <4>2. z[i] = Pays(route, k + 1, y[k])
        BY <4>1, <3>2
      <4> QED BY <4>2, <2>4
    <3> QED BY <3>1, <3>2
  <2>6. z[0] = x
    BY <2>1, <2>2
  <2>7. \A i \in 1 .. k + 1 : z[i] = Pays(route, i, z[i - 1])
    <3> TAKE i \in 1 .. k + 1
    <3>1. z[i - 1] = y[i - 1] /\ i \in 0 .. k + 1
      BY <2>2
    <3>2. CASE i <= k
      <4>1. z[i] = y[i]
        BY <3>2, <3>1
      <4>2. y[i] = Pays(route, i, y[i - 1])
        BY <3>2, <2>1, <2>2
      <4> QED BY <4>1, <4>2, <3>1
    <3>3. CASE ~(i <= k)
      <4>1. z[i] = Pays(route, i, y[i - 1])
        BY <3>3, <3>1
      <4> QED BY <4>1, <3>1
    <3> QED BY <3>2, <3>3
  <2>8. Upto(k + 1, z)
    BY <2>5, <2>6, <2>7
  <2> HIDE DEF Upto
  <2> QED BY <2>8, <2>2
<1>4. n \in S
  <2> HIDE DEF S
  <2>1. 0 .. n \subseteq S
    BY <1>1, <1>2, <1>3, UpTo
  <2> QED BY <2>1, <1>1
<1> QED BY <1>4 DEF Along

\* The fold of route_output runs through every set of positions; what it computes
\* for the first k of them is the k-th amount along the route.
LEMMA RouteOutputIs ==
  ASSUME NEW route \in Seq(Hop), NEW x \in Nat, NEW y, Along(route, x, y)
  PROVE  RouteOutput(route, x) = y[Len(route)]
<1> DEFINE n == Len(route)
           Step(s, g) == IF s = {} THEN x ELSE Pays(route, Max(s), g[s \ {Max(s)}])
           Folds(m, g) == g = [s \in SUBSET (1 .. m) |-> Step(s, g)]
           S == {m \in 0 .. n : \E g : Folds(m, g)}
           iter == CHOOSE g : Folds(n, g)
<1>1. n \in Nat /\ DOMAIN route = 1 .. n
  OBVIOUS
<1>2. RouteOutput(route, x) = iter[1 .. n]
  <2>1. RouteOutput(route, x) =
          (CHOOSE g : g = [s \in SUBSET (DOMAIN route) |->
             IF s = {} THEN x
             ELSE PoolQuote(route[Max(s)].pool, route[Max(s)].aToB, g[s \ {Max(s)}])])[DOMAIN route]
    BY DEF RouteOutput, FoldLeft, MapThenFoldSet
  <2> QED BY <2>1, <1>1 DEF Pays
<1>3. 0 \in S
  <2> DEFINE g == [s \in SUBSET (1 .. 0) |-> x]
  <2>1. \A s \in SUBSET (1 .. 0) : s = {}
    OBVIOUS
  <2>2. Folds(0, g)
    BY <2>1
  <2> HIDE DEF Folds
  <2> QED BY <2>2, <1>1
<1>4. ASSUME NEW m \in 0 .. n, m < n, m \in S
      PROVE  m + 1 \in S
  <2>1. PICK g : Folds(m, g)
    BY <1>4
  <2> DEFINE h == [s \in SUBSET (1 .. m + 1) |->
                     IF m + 1 \in s THEN Pays(route, m + 1, g[s \ {m + 1}]) ELSE g[s]]
  <2>2. m \in Nat /\ m + 1 \in 0 .. n /\ 1 .. m \subseteq 1 .. m + 1 /\ m + 1 \notin 1 .. m
    BY <1>4, <1>1
  <2>3. ASSUME NEW s \in SUBSET (1 .. m + 1)
        PROVE  h[s] = Step(s, h)
    <3>1. CASE m + 1 \in s
      <4>1. Max(s) \in s /\ \A k \in s : k <= Max(s)
        <5>1. m + 1 \in Nat /\ s # {}
          BY <3>1, <2>2
        <5> QED BY <5>1, MaxIs
      <4>2. Max(s) = m + 1
        <5>1. m + 1 <= Max(s) /\ Max(s) \in 1 .. m + 1
          BY <4>1, <3>1
        <5> QED BY <5>1, <2>2
      <4>3. s \ {m + 1} \in SUBSET (1 .. m + 1) /\ m + 1 \notin s \ {m + 1}
        OBVIOUS
      <4>4. h[s \ {m + 1}] = g[s \ {m + 1}]
        BY <4>3
      <4>5. h[s] = Pays(route, m + 1, g[s \ {m + 1}])
        BY <3>1
      <4> HIDE DEF h
      <4> QED BY <3>1, <4>2, <4>4, <4>5
    <3>2. CASE m + 1 \notin s
      <4>1. s \in SUBSET (1 .. m)
        BY <3>2, <2>2
      <4>2. h[s] = g[s] /\ g[s] = Step(s, g)
        BY <4>1, <3>2, <2>1
      <4>3. CASE s = {}
        BY <4>2, <4>3
      <4>4. CASE s # {}
        <5>1. Max(s) \in s
          BY <4>1, <4>4, <2>2, MaxIs
        <5>2. s \ {Max(s)} \in SUBSET (1 .. m + 1) /\ m + 1 \notin s \ {Max(s)}
          BY <3>2
        <5>3. h[s \ {Max(s)}] = g[s \ {Max(s)}]
          BY <5>2
        <5> HIDE DEF h
        <5> QED BY <4>2, <4>4, <5>3
      <4> QED BY <4>3, <4>4
    <3> QED BY <3>1, <3>2
  <2>4. Folds(m + 1, h)
    <3>1. h = [s \in SUBSET (1 .. m + 1) |-> h[s]]
      OBVIOUS
    <3> HIDE DEF h, Step
    <3> QED BY <3>1, <2>3
  <2> HIDE DEF Folds, h
  <2> QED BY <2>2, <2>4
<1>5. Folds(n, iter)
  <2>1. n \in S
    <3> HIDE DEF S
    <3>1. 0 .. n \subseteq S
      BY <1>1, <1>3, <1>4, UpTo
    <3> QED BY <3>1, <1>1
  <2> HIDE DEF Folds
  <2> QED BY <2>1
<1> HIDE DEF iter
<1>6. \A s \in SUBSET (1 .. n) : iter[s] = Step(s, iter)
  <2> HIDE DEF Step
  <2> QED BY <1>5
<1> DEFINE R == {k \in 0 .. n : iter[1 .. k] = y[k]}
<1>7. 0 \in R
  <2>1. 1 .. 0 = {} /\ {} \in SUBSET (1 .. n)
    OBVIOUS
  <2>2. iter[{}] = x
    BY <2>1, <1>6
  <2> QED BY <2>1, <2>2, <1>1 DEF Along
<1>8. ASSUME NEW k \in 0 .. n, k < n, k \in R
      PROVE  k + 1 \in R
  <2>1. k + 1 \in Nat \ {0} /\ k + 1 \in 1 .. n /\ k + 1 \in 0 .. n /\ (k + 1) - 1 = k
    BY <1>8, <1>1
  <2>2. Max(1 .. k + 1) = k + 1 /\ (1 .. k + 1) \ {k + 1} = 1 .. k
    BY <2>1, MaxOfPositions
  <2>3. 1 .. k + 1 \in SUBSET (1 .. n) /\ 1 .. k + 1 # {}
    BY <2>1, <1>1
  <2>4. iter[1 .. k + 1] = Pays(route, k + 1, iter[1 .. k])
    BY <2>2, <2>3, <1>6
  <2>5. y[k + 1] = Pays(route, k + 1, y[k])
    BY <2>1 DEF Along
  <2> QED BY <2>1, <2>4, <2>5, <1>8
<1>9. n \in R
  <2> HIDE DEF R
  <2>1. 0 .. n \subseteq R
    BY <1>1, <1>7, <1>8, UpTo
  <2> QED BY <2>1, <1>1
<1> QED BY <1>2, <1>9

\* What a route pays is a number.
LEMMA RouteOutputNat ==
  ASSUME NEW route \in Seq(Hop), NEW x \in Nat
  PROVE  RouteOutput(route, x) \in Nat
<1>1. PICK y : Along(route, x, y)
  BY AlongExists
<1>2. RouteOutput(route, x) = y[Len(route)] /\ Len(route) \in 0 .. Len(route)
  BY <1>1, RouteOutputIs
<1> QED BY <1>1, <1>2 DEF Along

\* What the first hops of a route pay is the amount along the route behind them.
LEMMA PrefixPays ==
  ASSUME NEW route \in Seq(Hop), NEW x \in Nat, NEW y, Along(route, x, y),
         NEW i \in 1 .. Len(route)
  PROVE  RouteOutput(SubSeq(route, 1, i - 1), x) = y[i - 1]
<1> DEFINE p == SubSeq(route, 1, i - 1)
           z == [j \in 0 .. i - 1 |-> y[j]]
<1>1. i \in Nat /\ i - 1 \in Nat /\ i - 1 <= Len(route) /\ Len(route) \in Nat
  OBVIOUS
<1>2. p \in Seq(Hop) /\ Len(p) = i - 1 /\ \A j \in 1 .. i - 1 : p[j] = route[j]
  BY <1>1
<1>3. \A j \in 0 .. i - 1 : z[j] = y[j] /\ y[j] \in Nat
  BY <1>1 DEF Along
<1>4. Along(p, x, z)
  <2>1. z \in [0 .. Len(p) -> Nat] /\ z[0] = x
    BY <1>1, <1>2, <1>3 DEF Along
  <2>2. ASSUME NEW j \in 1 .. Len(p)
        PROVE  z[j] = Pays(p, j, z[j - 1])
    <3>1. j \in 1 .. i - 1 /\ j \in 0 .. i - 1 /\ j - 1 \in 0 .. i - 1 /\ j \in 1 .. Len(route)
      BY <1>1, <1>2
    <3>2. p[j] = route[j] /\ z[j] = y[j] /\ z[j - 1] = y[j - 1]
      BY <3>1, <1>2, <1>3
    <3>3. y[j] = Pays(route, j, y[j - 1])
      BY <3>1 DEF Along
    <3> HIDE DEF p, z
    <3> QED BY <3>2, <3>3 DEF Pays
  <2> QED BY <2>1, <2>2 DEF Along
<1>5. RouteOutput(p, x) = z[Len(p)]
  <2> HIDE DEF p, z
  <2> QED BY <1>2, <1>4, RouteOutputIs
<1> QED BY <1>1, <1>2, <1>3, <1>5

\* A route that pays something pays something at every hop.
LEMMA EveryHopPays ==
  ASSUME NEW route \in Seq(Hop), NEW x \in Nat, NEW y, Along(route, x, y),
         y[Len(route)] > 0
  PROVE  \A i \in 0 .. Len(route) : y[i] > 0
<1> DEFINE n == Len(route)
           S == {k \in 0 .. n : y[n - k] > 0}
<1>1. n \in Nat
  OBVIOUS
<1>2. 0 \in S
  BY <1>1
<1>3. ASSUME NEW k \in 0 .. n, k < n, k \in S
      PROVE  k + 1 \in S
  <2> DEFINE j == n - k
  <2>1. j \in 1 .. Len(route) /\ j - 1 \in 0 .. n /\ j - 1 = n - (k + 1) /\ k + 1 \in 0 .. n
    BY <1>1, <1>3
  <2>2. y[j] > 0 /\ y[j] = Pays(route, j, y[j - 1]) /\ y[j - 1] \in Nat
    BY <1>3, <2>1 DEF Along
  <2>3. y[j - 1] # 0
    <3>1. Pays(route, j, 0) = 0
      <4> HIDE DEF j
      <4> QED BY <2>1, PaysNat
    <3> HIDE DEF j
    <3> QED BY <2>2, <3>1
  <2>4. y[j - 1] > 0
    <3> HIDE DEF j
    <3> QED BY <2>2, <2>3
  <2> HIDE DEF j
  <2> QED BY <2>1, <2>4
<1>4. 0 .. n \subseteq S
  <2> HIDE DEF S
  <2> QED BY <1>1, <1>2, <1>3, UpTo
<1> SUFFICES ASSUME NEW i \in 0 .. n PROVE y[i] > 0
  OBVIOUS
<1>5. n - i \in 0 .. n /\ n - (n - i) = i
  BY <1>1
<1> QED BY <1>4, <1>5

\* The invariant of a sizing: below the lower bound the output climbs, unless it
\* is the floor; at the upper bound it does not, unless it is the cap.
SizingInv ==
  /\ szPc \in {"idle", "bisect", "signal", "dropped"}
  /\ szInput \in 0 .. InputCap /\ szNet \in Int
  /\ szPc # "idle" =>
       /\ szRoute \in Routes
       /\ szLo \in Nat /\ szHi \in Nat
       /\ InputFloor <= szLo /\ szLo <= szHi /\ szHi <= InputCap
       /\ szLo = InputFloor \/ Climbs(szRoute, szLo)
       /\ szHi = InputCap \/ ~Climbs(szRoute, szHi)
  /\ szPc \in {"signal", "dropped"} =>
       /\ szHi - szLo <= InputStep
       /\ szLo <= szInput /\ szInput <= szHi
  /\ szPc = "signal" => Net(szInput) > 0

\* Every step of the engine starts a sizing, goes on with it, or leaves its
\* variables alone.
LEMMA SizingSteps ==
  ASSUME [Next]_vars
  PROVE  \/ \E route \in Routes : SizingStart(route)
         \/ InputBisect \/ InputFound \/ SizingReturn
         \/ UNCHANGED szVars
BY DEF Next, vars, ProcessSwap, ProcessPool, ProcessObligation, SweepLiquidations,
       EngineWork, SizingWork

\* The net gain of an input is a whole number.
LEMMA NetInt ==
  ASSUME szRoute \in Routes, NEW x \in Nat
  PROVE  Net(x) \in Int /\ (Net(x) > 0 => RouteOutput(szRoute, x) > 0)
<1>1. szRoute \in Seq(Hop) /\ FeePerHop \in Nat
  BY StrategiesAssumption, SizingAssumption DEF Hop
<1>2. RouteOutput(szRoute, x) \in Nat /\ Len(szRoute) * FeePerHop \in Nat
  BY <1>1, RouteOutputNat, TimesNat
<1> QED BY <1>2 DEF Net

\* The sizing invariant holds in every behaviour of the engine.
THEOREM SizingInvariant == Spec => []SizingInv
<1> USE SizingAssumption
<1>1. Init => SizingInv
  BY DEF Init, SizingIdle, SizingInv
<1>2. SizingInv /\ [Next]_vars => SizingInv'
  <2> SUFFICES ASSUME SizingInv, [Next]_vars PROVE SizingInv'
    OBVIOUS
  <2>1. ASSUME NEW route \in Routes, SizingStart(route)
        PROVE  SizingInv'
    BY <2>1 DEF SizingStart, SizingInv
  <2>2. CASE InputBisect
    <3> DEFINE mid == (szLo + szHi) \div 2
    <3>1. /\ szPc = "bisect" /\ szPc' = "bisect"
          /\ szRoute' = szRoute /\ szInput' = szInput /\ szNet' = szNet
          /\ IF Climbs(szRoute, mid) THEN szLo' = mid /\ szHi' = szHi
                                     ELSE szHi' = mid /\ szLo' = szLo
      BY <2>2 DEF InputBisect
    <3>2. /\ szRoute \in Routes /\ szLo \in Nat /\ szHi \in Nat
          /\ InputFloor <= szLo /\ szLo <= szHi /\ szHi <= InputCap
          /\ szLo = InputFloor \/ Climbs(szRoute, szLo)
          /\ szHi = InputCap \/ ~Climbs(szRoute, szHi)
          /\ szInput \in 0 .. InputCap /\ szNet \in Int
      BY <3>1 DEF SizingInv
    <3>3. mid \in Nat /\ szLo <= mid /\ mid <= szHi
      BY <3>2
    <3> HIDE DEF mid
    <3> QED BY <3>1, <3>2, <3>3 DEF SizingInv
  <2>3. CASE InputFound
    <3> DEFINE x == (szLo + szHi) \div 2
    <3>1. /\ szPc = "bisect" /\ szHi - szLo <= InputStep
          /\ szInput' = x /\ szNet' = Net(x)
          /\ szPc' = IF Net(x) > 0 /\ Net(x) > MinProfit THEN "signal" ELSE "dropped"
          /\ szRoute' = szRoute /\ szLo' = szLo /\ szHi' = szHi
      BY <2>3 DEF InputFound
    <3>2. /\ szRoute \in Routes /\ szLo \in Nat /\ szHi \in Nat
          /\ InputFloor <= szLo /\ szLo <= szHi /\ szHi <= InputCap
          /\ szLo = InputFloor \/ Climbs(szRoute, szLo)
          /\ szHi = InputCap \/ ~Climbs(szRoute, szHi)
      BY <3>1 DEF SizingInv
    <3>3. x \in Nat /\ szLo <= x /\ x <= szHi
      BY <3>2
    <3> HIDE DEF x
    <3>4. Net(x) \in Int
      BY <3>2, <3>3, NetInt
    <3>5. szPc' = "signal" => Net(szInput)'> 0
      BY <3>1 DEF Net
    <3>6. szPc' \in {"signal", "dropped"} /\ szInput' \in 0 .. InputCap
      BY <3>1, <3>2, <3>3
    <3> QED BY <3>1, <3>2, <3>3, <3>4, <3>5, <3>6 DEF SizingInv
  <2>4. CASE SizingReturn
    BY <2>4 DEF SizingReturn, SizingInv
  <2>5. CASE UNCHANGED szVars
    BY <2>5 DEF szVars, SizingInv, Net
  <2> QED BY <2>1, <2>2, <2>3, <2>4, <2>5, SizingSteps
<1> QED BY <1>1, <1>2, PTL DEF Spec

\* The input that comes out of the search is within a step of the place where
\* more input stops giving more output, for every route.
THEOREM InputsStall == Spec => []EndsWhereOutputStalls
<1>1. SizingInv => EndsWhereOutputStalls
  <2> SUFFICES ASSUME SizingInv, szPc \in {"signal", "dropped"}
               PROVE  EndsWhereOutputStalls
    BY DEF EndsWhereOutputStalls
  <2> Routes \subseteq Seq(Hop) /\ InputStep \in Nat /\ InputCap \in Nat
    BY StrategiesAssumption, SizingAssumption DEF Hop
  <2>1. /\ szRoute \in Seq(Hop) /\ szLo \in Nat /\ szHi \in Nat
        /\ szInput \in Int
        /\ szLo = InputFloor \/ Climbs(szRoute, szLo)
        /\ szHi = InputCap \/ ~Climbs(szRoute, szHi)
        /\ szHi - szLo <= InputStep /\ szLo <= szInput /\ szInput <= szHi
    BY DEF SizingInv
  <2>2. /\ szInput - szLo <= InputStep /\ szHi - szInput <= InputStep
    BY <2>1
  <2>3. \A x \in Nat : Climbs(szRoute, x)
                         <=> RouteOutput(szRoute, x) < RouteOutput(szRoute, x + InputStep)
    <3> TAKE x \in Nat
    <3>1. x + InputStep \in Nat
      BY <2>1
    <3>2. RouteOutput(szRoute, x) \in Nat /\ RouteOutput(szRoute, x + InputStep) \in Nat
      BY <2>1, <3>1, RouteOutputNat
    <3> QED BY <3>2 DEF Climbs
  <2> QED BY <2>1, <2>2, <2>3 DEF EndsWhereOutputStalls
<1> QED BY <1>1, SizingInvariant, PTL

\* No signal rests on a concentrated quote past the price impact cap, whatever
\* the route, the direction of its hops, the liquidity of its pools and the input.
THEOREM QuotesWithinLiquidity == Spec => []WithinKnownLiquidity
<1>1. SizingInv => WithinKnownLiquidity
  <2> SUFFICES ASSUME SizingInv, szPc = "signal", NEW i \in DOMAIN szRoute,
                      szRoute[i].pool.kind = "clmm"
               PROVE  LET p == szRoute[i].pool
                          w == (RouteOutput(SubSeq(szRoute, 1, i - 1), szInput)
                                  * (Bps - p.fee)) \div Bps
                      IN  WithinCap(p, szRoute[i].aToB, w)
    BY DEF WithinKnownLiquidity
  <2> DEFINE p == szRoute[i].pool
             x == RouteOutput(SubSeq(szRoute, 1, i - 1), szInput)
             w == (x * (Bps - p.fee)) \div Bps
             aToB == szRoute[i].aToB
             out == IF aToB THEN ClmmAToB(p, w) ELSE ClmmBToA(p, w)
  <2>1. szRoute \in Routes /\ szRoute \in Seq(Hop) /\ szInput \in Nat /\ Net(szInput) > 0
    <3>1. Routes \subseteq Seq(Hop) /\ InputCap \in Nat
      BY StrategiesAssumption, SizingAssumption DEF Hop
    <3> QED BY <3>1 DEF SizingInv
  <2>2. RouteOutput(szRoute, szInput) > 0
    BY <2>1, NetInt
  <2>3. i \in 1 .. Len(szRoute) /\ szRoute[i] \in Hop
    BY <2>1
  <2>4. p \in ClmmPool /\ aToB \in BOOLEAN
    <3>1. p \in CpPool \cup ClmmPool /\ szRoute[i].aToB \in BOOLEAN
      BY <2>3 DEF Hop
    <3>2. p \notin CpPool
      BY DEF CpPool
    <3> QED BY <3>1, <3>2
  <2>5. PICK y : Along(szRoute, szInput, y)
    BY <2>1, AlongExists
  <2>6. y[Len(szRoute)] > 0
    BY <2>1, <2>2, <2>5, RouteOutputIs
  <2>7. y[i] > 0 /\ y[i] = Pays(szRoute, i, y[i - 1]) /\ y[i - 1] \in Nat
    <3>1. i \in 0 .. Len(szRoute) /\ i - 1 \in 0 .. Len(szRoute)
      BY <2>1, <2>3
    <3>2. y[i] > 0
      BY <2>1, <2>5, <2>6, <3>1, EveryHopPays
    <3> QED BY <3>1, <3>2, <2>3, <2>5 DEF Along
  <2>8. x = y[i - 1]
    BY <2>1, <2>3, <2>5, PrefixPays
  <2>9. x \in Nat
    BY <2>7, <2>8
  <2>10. QuoteClmm(p, x, aToB) > 0
    <3>1. Pays(szRoute, i, x) = PoolQuote(p, aToB, x)
      BY DEF Pays
    <3>2. PoolQuote(p, aToB, x) = QuoteClmm(p, x, aToB)
      BY DEF PoolQuote
    <3> HIDE DEF x, p, aToB
    <3> QED BY <3>1, <3>2, <2>7, <2>8
  <2> HIDE DEF x
  <2>11. w \in Nat
    <3>1. Bps \in Nat \ {0} /\ Bps - p.fee \in Nat
      BY <2>4, ScalesAssumption DEF ClmmPool
    <3>2. x * (Bps - p.fee) \in Nat
      BY <2>9, <3>1, TimesNat
    <3> QED BY <3>1, <3>2, DivBounds
  <2>12. p.liq # 0 /\ p.sp # 0 /\ out > 0
    <3> DEFINE quote == QuoteClmm(p, x, aToB)
    <3>1. quote > 0 /\ quote = IF w = 0 \/ p.liq = 0 \/ p.sp = 0 THEN 0 ELSE out
      BY <2>10 DEF QuoteClmm
    <3> HIDE DEF p, w, quote, out
    <3>2. ~(w = 0 \/ p.liq = 0 \/ p.sp = 0)
      BY <3>1
    <3> QED BY <3>1, <3>2
  <2>13. WithinCap(p, aToB, w)
    <3>1. CASE aToB
      <4>1. ClmmAToB(p, w) > 0
        BY <2>12, <3>1
      <4> HIDE DEF p, w, aToB
      <4> QED BY <2>4, <2>11, <2>12, <3>1, <4>1, ClmmAToBBounds DEF WithinCap
    <3>2. CASE ~aToB
      <4>1. ClmmBToA(p, w) > 0
        BY <2>12, <3>2
      <4> HIDE DEF p, w, aToB
      <4> QED BY <2>4, <2>11, <2>12, <3>2, <4>1, ClmmBToABounds DEF WithinCap
    <3> QED BY <3>1, <3>2
  <2> QED BY <2>13 DEF x
<1> QED BY <1>1, SizingInvariant, PTL

(* Liquidations.                                                           *)

\* An obligation as the decoders fill it in.
Obligation ==
  {o \in [protocol : {"solend", "kamino"}, thr : Nat, coll : Nat, borrow : Nat] :
     o.borrow < Q64 * Nano}

\* Scaling both sides leaves a quotient alone.
LEMMA ScaledDiv ==
  ASSUME NEW b \in Nat, NEW c \in Nat \ {0}, NEW n \in Nat \ {0}
  PROVE  (b * n) \div (c * n) = b \div c
<1> DEFINE q == b \div c
<1>1. q \in Nat /\ q * c <= b /\ b < (q + 1) * c
  BY DivBounds
<1> HIDE DEF q
<1>2. /\ b * n \in Nat /\ c * n \in Nat \ {0} /\ q * c \in Nat /\ (q + 1) * c \in Nat
  BY <1>1, TimesNat
<1>3. q * (c * n) <= b * n
  <2>1. (q * c) * n <= b * n
    BY <1>1, <1>2, TimesMono
  <2>2. (q * c) * n = q * (c * n)
    BY <1>1
  <2> QED BY <2>1, <2>2
<1>4. b * n < (q + 1) * (c * n)
  <2>1. (b + 1) * n <= ((q + 1) * c) * n
    <3>1. b + 1 <= (q + 1) * c
      BY <1>1, <1>2
    <3> QED BY <3>1, <1>2, TimesMono
  <2>2. ((q + 1) * c) * n = (q + 1) * (c * n) /\ (b + 1) * n = b * n + n
    BY <1>1
  <2>3. (q + 1) * (c * n) \in Nat
    BY <1>1, <1>2, TimesNat
  <2> QED BY <2>1, <2>2, <2>3, <1>2
<1>5. (b * n) \div (c * n) <= q /\ q <= (b * n) \div (c * n)
  <2> DEFINE m == b * n
             d == c * n
  <2>1. m \in Nat /\ d \in Nat \ {0} /\ q * d <= m /\ m < (q + 1) * d
    BY <1>2, <1>3, <1>4
  <2> HIDE DEF m, d
  <2>2. m \div d <= q /\ q <= m \div d
    BY <2>1, <1>1, DivAtMost, DivAtLeast
  <2> QED BY <2>2 DEF m, d
<1>6. (b * n) \div (c * n) \in Nat
  BY <1>2, DivBounds
<1> QED BY <1>1, <1>5, <1>6 DEF q

\* What a decoder makes of an account, in the account's own units.
LEMMA DecodedIs ==
  ASSUME NEW acc \in Accounts, Decoded(acc) # NoObl
  PROVE  LET o == Decoded(acc)
             scale == IF acc.protocol = "solend" THEN Nano ELSE 1
         IN  /\ o \in Obligation
             /\ o.protocol = acc.protocol /\ o.thr = Threshold(acc)
             /\ o.coll = acc.coll * scale /\ o.borrow = acc.borrow * scale
<1> DEFINE o == Decoded(acc)
           scale == IF acc.protocol = "solend" THEN Nano ELSE 1
<1>1. /\ acc.protocol \in {"solend", "kamino"} /\ acc.coll \in Nat /\ acc.borrow \in Nat
      /\ acc.unhealthy \in Nat /\ acc.borrow < Q64
  BY AccountsAssumption
<1>2. Nano \in Nat \ {0} /\ Bps \in Nat \ {0} /\ U16 \in Nat \ {0} /\ Q64 \in Nat \ {0}
  BY LiquidationAssumption, ScalesAssumption
<1>3. o = [protocol |-> acc.protocol, thr |-> Threshold(acc),
           coll |-> acc.coll * scale, borrow |-> acc.borrow * scale]
  BY DEF Decoded
<1>4. scale \in Nat \ {0} /\ scale <= Nano
  BY <1>2
<1>5. Threshold(acc) \in Nat
  <2>1. DefaultThreshold \in Nat
    BY <1>2 DEF DefaultThreshold
  <2>2. acc.coll # 0 => (acc.unhealthy * Bps) \div acc.coll \in Nat
    BY <1>1, <1>2, TimesNat, DivBounds
  <2>3. acc.coll # 0 => Cap16((acc.unhealthy * Bps) \div acc.coll) \in Nat
    BY <2>2, <1>2 DEF Cap16, Least
  <2> QED BY <2>1, <2>3 DEF Threshold
<1> HIDE DEF scale
<1>6. acc.coll * scale \in Nat /\ acc.borrow * scale \in Nat
  BY <1>1, <1>4, TimesNat
<1>7. acc.borrow * scale < Q64 * Nano
  <2>1. acc.borrow * scale <= acc.borrow * Nano
    BY <1>1, <1>2, <1>4, TimesMono
  <2>2. (acc.borrow + 1) * Nano <= Q64 * Nano
    <3>1. acc.borrow + 1 <= Q64
      BY <1>1, <1>2
    <3> QED BY <3>1, <1>1, <1>2, TimesMono
  <2>3. (acc.borrow + 1) * Nano = acc.borrow * Nano + Nano
    BY <1>1, <1>2
  <2>4. acc.borrow * Nano \in Nat /\ Q64 * Nano \in Nat
    BY <1>1, <1>2, TimesNat
  <2> QED BY <2>1, <2>2, <2>3, <2>4, <1>2, <1>6
<1>8. o \in Obligation
  <2> HIDE DEF o
  <2> QED BY <1>1, <1>3, <1>5, <1>6, <1>7 DEF Obligation
<1> HIDE DEF o
<1>9. /\ o.protocol = acc.protocol /\ o.thr = Threshold(acc)
      /\ o.coll = acc.coll * scale /\ o.borrow = acc.borrow * scale
  BY <1>3
<1> QED BY <1>8, <1>9 DEF o, scale

\* The health test on a decoded Solend obligation against Solend's own test: an
\* account that owes its unhealthy value or more fails it, and one that fails it
\* is healthy by less than a basis point of its deposits.
LEMMA HealthTest ==
  ASSUME NEW acc \in Accounts, Decoded(acc) # NoObl, acc.coll > 0,
         acc.protocol = "solend"
  PROVE  /\ acc.borrow >= acc.unhealthy => Underwater(Decoded(acc))
         /\ Underwater(Decoded(acc)) =>
              acc.borrow * Bps + acc.coll > acc.unhealthy * Bps
<1> DEFINE o == Decoded(acc)
           c == acc.coll
           b == acc.borrow * Bps
           u == acc.unhealthy * Bps
           ltv == b \div c
           thr == u \div c
<1>1. /\ c \in Nat \ {0} /\ acc.borrow \in Nat /\ acc.unhealthy \in Nat
      /\ acc.unhealthy <= c /\ Nano \in Nat \ {0} /\ Bps \in Nat \ {0}
      /\ U16 \in Nat /\ Bps < U16
  BY AccountsAssumption, LiquidationAssumption, ScalesAssumption
<1>2. b \in Nat /\ u \in Nat
  BY <1>1, TimesNat
<1>3. /\ ltv \in Nat /\ ltv * c <= b
      /\ thr \in Nat /\ u < (thr + 1) * c /\ thr * c <= u
  <2> HIDE DEF b, u, c
  <2> QED BY <1>1, <1>2, DivBounds
<1>4. Ltv(o) = Cap16(ltv)
  <2>1. o.coll = c * Nano /\ o.borrow = acc.borrow * Nano
    BY DecodedIs
  <2>2. c * Nano # 0
    BY <1>1, TimesNat
  <2>3. (acc.borrow * Nano) * Bps = b * Nano
    BY <1>1
  <2>4. (b * Nano) \div (c * Nano) = ltv
    <3> HIDE DEF b, c
    <3> QED BY <1>1, <1>2, ScaledDiv DEF b, c
  <2>5. Ltv(o) = Cap16((o.borrow * Bps) \div o.coll)
    <3> HIDE DEF o
    <3> QED BY <2>1, <2>2 DEF Ltv
  <2> HIDE DEF o, b, c
  <2> QED BY <2>1, <2>3, <2>4, <2>5
<1>5. o.thr = thr
  <2>1. thr <= Bps
    <3>1. u <= Bps * c
      BY <1>1, TimesMono
    <3>2. Bps * c < (Bps + 1) * c
      <4> HIDE DEF c
      <4> QED BY <1>1
    <3>3. u < (Bps + 1) * c
      <4>1. Bps * c \in Nat /\ (Bps + 1) * c \in Nat
        BY <1>1, TimesNat
      <4> HIDE DEF u, c
      <4> QED BY <3>1, <3>2, <4>1, <1>2
    <3> HIDE DEF u, c
    <3> QED BY <3>3, <1>1, <1>2, DivAtMost
  <2>2. Cap16(thr) = thr
    <3> HIDE DEF thr
    <3> QED BY <2>1, <1>1, <1>3 DEF Cap16, Least
  <2>3. o.thr = Threshold(acc)
    BY DecodedIs
  <2>4. Threshold(acc) = Cap16(thr)
    BY <1>1 DEF Threshold
  <2> QED BY <2>2, <2>3, <2>4
<1>6. Underwater(o) <=> Cap16(ltv) >= thr
  <2> HIDE DEF o, ltv, thr
  <2> QED BY <1>4, <1>5 DEF Underwater, o
<1>7. ASSUME acc.borrow >= acc.unhealthy PROVE Underwater(o)
  <2>1. u <= b
    BY <1>1, <1>7, TimesMono
  <2>2. thr <= ltv
    <3> HIDE DEF u, b, c
    <3> QED BY <2>1, <1>1, <1>2, DivMono
  <2>3. thr <= U16 - 1
    <3>1. Cap16(thr) = thr
      <4>1. o.thr = Threshold(acc) /\ Threshold(acc) = Cap16(thr)
        BY <1>1, DecodedIs DEF Threshold
      <4> QED BY <4>1, <1>5
    <3> HIDE DEF thr
    <3> QED BY <3>1, <1>1, <1>3 DEF Cap16, Least
  <2>4. Cap16(ltv) >= thr
    <3> HIDE DEF thr, ltv
    <3> QED BY <2>2, <2>3, <1>1, <1>3 DEF Cap16, Least
  <2> QED BY <2>4, <1>6
<1>8. ASSUME Underwater(o) PROVE b + c > u
  <2>1. thr <= ltv
    <3> HIDE DEF thr, ltv, o
    <3> QED BY <1>6, <1>8, <1>1, <1>3 DEF Cap16, Least
  <2>2. thr * c <= ltv * c /\ thr * c \in Nat /\ ltv * c \in Nat
    <3> HIDE DEF thr, ltv, c
    <3> QED BY <2>1, <1>1, <1>3, TimesMono, TimesNat
  <2>3. (thr + 1) * c = thr * c + c
    <3> HIDE DEF thr, c
    <3> QED BY <1>1, <1>3
  <2> HIDE DEF thr, ltv, b, u, c
  <2> QED BY <2>2, <2>3, <1>1, <1>2, <1>3
<1> QED BY <1>7, <1>8

\* Of two obligations with the same deposits, the one that owes more has the
\* higher loan-to-value.
LEMMA LtvFollowsDebt ==
  ASSUME NEW x \in Obligation, NEW y \in Obligation, x.coll = y.coll, x.borrow <= y.borrow
  PROVE  Ltv(x) \in Nat /\ Ltv(y) \in Nat /\ Ltv(x) <= Ltv(y)
<1> DEFINE c == x.coll
           m == x.borrow * Bps
           k == y.borrow * Bps
<1>1. /\ c \in Nat /\ x.borrow \in Nat /\ y.borrow \in Nat /\ Bps \in Nat /\ U16 \in Nat \ {0}
  BY ScalesAssumption DEF Obligation
<1>2. m \in Nat /\ k \in Nat /\ m <= k
  BY <1>1, TimesNat, TimesMono
<1>3. CASE c = 0
  BY <1>1, <1>3 DEF Ltv
<1>4. CASE c # 0
  <2> DEFINE q == m \div c
             r == k \div c
  <2>1. q \in Nat /\ r \in Nat /\ q <= r
    <3> HIDE DEF m, k, c
    <3> QED BY <1>1, <1>2, <1>4, DivBounds, DivMono
  <2>2. Ltv(x) = Cap16(q) /\ Ltv(y) = Cap16(r)
    BY <1>4 DEF Ltv
  <2> HIDE DEF q, r
  <2>3. Cap16(q) \in Nat /\ Cap16(r) \in Nat /\ Cap16(q) <= Cap16(r)
    BY <2>1, <1>1 DEF Cap16, Least
  <2> QED BY <2>2, <2>3
<1> QED BY <1>3, <1>4

\* A close factor is a share, and it never falls as the debt rises.
LEMMA CloseFactorFollowsDebt ==
  ASSUME NEW x \in Obligation, NEW y \in Obligation, x.protocol = y.protocol,
         x.thr = y.thr, Ltv(x) \in Nat, Ltv(y) \in Nat, Ltv(x) <= Ltv(y)
  PROVE  /\ CloseFactor(x) \in 0 .. Bps /\ CloseFactor(y) \in 0 .. Bps
         /\ CloseFactor(x) <= CloseFactor(y)
<1> DEFINE thr == x.thr
           slope == (4 * Bps) \div 5
           range == Most(Minus(Bps, thr), 1)
           base == Bps \div 5
           rise(l) == (Minus(l, thr) * slope) \div range
<1>1. Bps \in Nat \ {0} /\ thr \in Nat
  BY ScalesAssumption DEF Obligation
<1>2. slope \in Nat /\ base \in Nat
  BY <1>1
<1>3. range \in Nat \ {0}
  <2> HIDE DEF thr
  <2> QED BY <1>1 DEF Most, Minus
<1>4. \A l \in Nat : Minus(l, thr) \in Nat
  <2> HIDE DEF thr
  <2> QED BY <1>1 DEF Minus, Most
<1>5. \A l \in Nat : Minus(l, thr) * slope \in Nat
  <2> HIDE DEF slope, thr
  <2> QED BY <1>2, <1>4, TimesNat
<1>6. \A l \in Nat : rise(l) \in Nat
  <2> TAKE l \in Nat
  <2> DEFINE e == Minus(l, thr) * slope
  <2>1. e \in Nat
    BY <1>5
  <2> HIDE DEF e, range
  <2>2. e \div range \in Nat
    BY <2>1, <1>3, DivBounds
  <2> QED BY <2>2 DEF e
<1>7. rise(Ltv(x)) <= rise(Ltv(y))
  <2> DEFINE i == Minus(Ltv(x), thr)
             j == Minus(Ltv(y), thr)
  <2>1. i \in Nat /\ j \in Nat /\ i <= j
    <3>1. i <= j
      <4> HIDE DEF thr
      <4> QED BY <1>1 DEF Minus, Most
    <3> QED BY <3>1, <1>4
  <2> HIDE DEF i, j, slope, range
  <2>2. i * slope <= j * slope /\ i * slope \in Nat /\ j * slope \in Nat
    BY <2>1, <1>2, TimesMono, TimesNat
  <2>3. (i * slope) \div range <= (j * slope) \div range
    BY <2>2, <1>3, DivMono
  <2> QED BY <2>3 DEF i, j
<1>8. CASE x.protocol = "kamino"
  <2>1. /\ CloseFactor(x) = IF Ltv(x) >= Bps THEN Bps ELSE Least(Bps, base + rise(Ltv(x)))
        /\ CloseFactor(y) = IF Ltv(y) >= Bps THEN Bps ELSE Least(Bps, base + rise(Ltv(y)))
    BY <1>8 DEF CloseFactor, KaminoCloseFactor
  <2>2. rise(Ltv(x)) \in Nat /\ rise(Ltv(y)) \in Nat
    BY <1>6
  <2> HIDE DEF rise, base
  <2> QED BY <2>1, <2>2, <1>1, <1>2, <1>7 DEF Least
<1>9. CASE x.protocol # "kamino"
  <2>1. CloseFactor(x) = Bps \div 2 /\ CloseFactor(y) = Bps \div 2
    BY <1>9 DEF CloseFactor
  <2>2. Bps \div 2 \in 0 .. Bps
    BY <1>1
  <2> QED BY <2>1, <2>2
<1> QED BY <1>8, <1>9

\* A bonus never falls as the debt rises.
LEMMA BonusFollowsDebt ==
  ASSUME NEW x \in Obligation, NEW y \in Obligation, x.protocol = y.protocol,
         x.thr = y.thr, Ltv(x) \in Nat, Ltv(y) \in Nat, Ltv(x) <= Ltv(y)
  PROVE  BonusBps(x) \in Nat /\ BonusBps(y) \in Nat /\ BonusBps(x) <= BonusBps(y)
<1> DEFINE e == Minus(Ltv(x), x.thr)
           f == Minus(Ltv(y), x.thr)
<1>1. Bps \in Nat /\ x.thr \in Nat
  BY ScalesAssumption DEF Obligation
<1>2. e \in Nat /\ f \in Nat /\ e <= f
  BY <1>1 DEF Minus, Most
<1>3. /\ BonusBps(x) = IF x.protocol # "kamino" THEN Bps \div 20
                       ELSE IF e > Bps \div 10 THEN (3 * Bps) \div 20
                       ELSE IF e > Bps \div 20 THEN Bps \div 10
                       ELSE (7 * Bps) \div 100
      /\ BonusBps(y) = IF x.protocol # "kamino" THEN Bps \div 20
                       ELSE IF f > Bps \div 10 THEN (3 * Bps) \div 20
                       ELSE IF f > Bps \div 20 THEN Bps \div 10
                       ELSE (7 * Bps) \div 100
  BY DEF BonusBps
<1>4. /\ (7 * Bps) \div 100 <= Bps \div 10 /\ Bps \div 10 <= (3 * Bps) \div 20
      /\ (7 * Bps) \div 100 \in Nat /\ Bps \div 20 \in Nat
      /\ Bps \div 10 \in Nat /\ (3 * Bps) \div 20 \in Nat
  BY <1>1
<1> HIDE DEF e, f
<1> QED BY <1>1, <1>2, <1>3, <1>4

\* The amount repaid for an obligation is a whole number of units, is not cut off
\* at 64 bits, and is never more than is owed.
LEMMA RepayIs ==
  ASSUME NEW o \in Obligation, NEW k, CloseFactor(o) \in 0 .. Bps
  PROVE  LET part == (o.borrow * CloseFactor(o)) \div Bps
         IN  /\ part \in Nat
             /\ Opportunity(k, o).repay = part \div Nano
             /\ Opportunity(k, o).repay \in Nat
             /\ Opportunity(k, o).repay * Nano <= o.borrow
<1> DEFINE cf == CloseFactor(o)
           part == (o.borrow * cf) \div Bps
           r == part \div Nano
<1>1. /\ o.borrow \in Nat /\ o.borrow < Q64 * Nano /\ cf \in Nat /\ cf <= Bps
      /\ Bps \in Nat \ {0} /\ Nano \in Nat \ {0} /\ Q64 \in Nat \ {0}
  BY ScalesAssumption, LiquidationAssumption DEF Obligation
<1> HIDE DEF cf
<1>2. o.borrow * cf \in Nat /\ o.borrow * cf <= o.borrow * Bps
  BY <1>1, TimesNat, TimesMono
<1>3. part \in Nat /\ part * Bps <= o.borrow * cf
  BY <1>1, <1>2, DivBounds
<1>4. part <= o.borrow
  <2> HIDE DEF part
  <2> SUFFICES ASSUME o.borrow + 1 <= part PROVE FALSE
    BY <1>1, <1>3
  <2>1. (o.borrow + 1) * Bps <= part * Bps
    BY <1>1, <1>3, TimesMono
  <2>2. (o.borrow + 1) * Bps = o.borrow * Bps + Bps
    BY <1>1
  <2>3. part * Bps \in Nat /\ o.borrow * Bps \in Nat
    BY <1>1, <1>3, TimesNat
  <2> QED BY <2>1, <2>2, <2>3, <1>1, <1>2, <1>3
<1>5. r \in Nat /\ r * Nano <= part
  <2> HIDE DEF part
  <2> QED BY <1>1, <1>3, DivBounds
<1>6. r * Nano \in Nat /\ r * Nano <= o.borrow
  <2> HIDE DEF part, r
  <2> QED BY <1>1, <1>3, <1>4, <1>5, TimesNat
<1>7. r < Q64
  <2> HIDE DEF part, r
  <2> SUFFICES ASSUME Q64 <= r PROVE FALSE
    BY <1>1, <1>5
  <2>1. Q64 * Nano <= r * Nano /\ Q64 * Nano \in Nat
    BY <1>1, <1>5, TimesMono, TimesNat
  <2> QED BY <2>1, <1>1, <1>6
<1>8. r % Q64 = r
  <2> HIDE DEF r
  <2> QED BY <1>1, <1>5, <1>7, ModBounds
<1>9. Opportunity(k, o).repay = r
  BY <1>8 DEF Opportunity, cf
<1> QED BY <1>3, <1>5, <1>6, <1>9 DEF cf

\* Close factor and bonus fit together: who owes more is repaid no less and pays
\* no less.
LEMMA RepayMonotone ==
  ASSUME NEW x \in Obligation, NEW y \in Obligation, NEW j, NEW k,
         x.protocol = y.protocol, x.coll = y.coll, x.thr = y.thr, x.borrow <= y.borrow
  PROVE  /\ Opportunity(j, x).repay <= Opportunity(k, y).repay
         /\ \/ Opportunity(j, x).gross <= Opportunity(k, y).gross
            \/ Opportunity(k, y).repay * BonusBps(y) >= Q64
         /\ Opportunity(k, y).repay * Nano <= y.borrow
<1> DEFINE cx == CloseFactor(x)
           cy == CloseFactor(y)
           px == (x.borrow * cx) \div Bps
           py == (y.borrow * cy) \div Bps
           rx == Opportunity(j, x).repay
           ry == Opportunity(k, y).repay
           bx == BonusBps(x)
           by == BonusBps(y)
<1>1. /\ x.borrow \in Nat /\ y.borrow \in Nat
      /\ Bps \in Nat \ {0} /\ Nano \in Nat \ {0} /\ Q64 \in Nat \ {0}
  BY ScalesAssumption, LiquidationAssumption DEF Obligation
<1>2. Ltv(x) \in Nat /\ Ltv(y) \in Nat /\ Ltv(x) <= Ltv(y)
  BY LtvFollowsDebt
<1>3. cx \in 0 .. Bps /\ cy \in 0 .. Bps /\ cx <= cy
  BY <1>2, CloseFactorFollowsDebt
<1>4. bx \in Nat /\ by \in Nat /\ bx <= by
  BY <1>2, BonusFollowsDebt
<1>5. /\ px \in Nat /\ rx = px \div Nano /\ rx \in Nat
      /\ py \in Nat /\ ry = py \div Nano /\ ry \in Nat
      /\ ry * Nano <= y.borrow
  BY <1>3, RepayIs
<1>6. px <= py
  <2> HIDE DEF cx, cy
  <2>1. x.borrow * cx <= y.borrow * cx /\ y.borrow * cx <= y.borrow * cy
    BY <1>1, <1>3, TimesMono
  <2>2. x.borrow * cx \in Nat /\ y.borrow * cx \in Nat /\ y.borrow * cy \in Nat
    BY <1>1, <1>3, TimesNat
  <2>3. x.borrow * cx <= y.borrow * cy
    BY <2>1, <2>2
  <2> QED BY <2>2, <2>3, <1>1, DivMono
<1>7. rx <= ry
  <2> HIDE DEF px, py, rx, ry
  <2> QED BY <1>1, <1>5, <1>6, DivMono
<1>8. /\ Opportunity(j, x).gross = ((rx * bx) % Q64) \div Bps
      /\ Opportunity(k, y).gross = ((ry * by) % Q64) \div Bps
  BY DEF Opportunity
<1>9. ASSUME ry * by < Q64
      PROVE  ((rx * bx) % Q64) \div Bps <= ((ry * by) % Q64) \div Bps
  <2> HIDE DEF rx, ry, bx, by
  <2>1. rx * bx <= ry * bx /\ ry * bx <= ry * by
    BY <1>4, <1>5, <1>7, TimesMono
  <2>2. rx * bx \in Nat /\ ry * bx \in Nat /\ ry * by \in Nat
    BY <1>4, <1>5, TimesNat
  <2>3. rx * bx <= ry * by
    BY <2>1, <2>2
  <2>4. (rx * bx) % Q64 = rx * bx /\ (ry * by) % Q64 = ry * by
    <3> DEFINE m == rx * bx
               n == ry * by
    <3>1. m \in Nat /\ n \in Nat /\ m < Q64 /\ n < Q64
      BY <2>2, <2>3, <1>9, <1>1
    <3> HIDE DEF m, n
    <3>2. m % Q64 = m /\ n % Q64 = n
      BY <3>1, <1>1, ModBounds
    <3> QED BY <3>2 DEF m, n
  <2>5. (rx * bx) \div Bps <= (ry * by) \div Bps
    BY <2>2, <2>3, <1>1, DivMono
  <2> QED BY <2>4, <2>5
<1>10. ry * by \in Nat
  <2> HIDE DEF ry, by
  <2> QED BY <1>4, <1>5, TimesNat
<1>11. ry * by < Q64 \/ ry * by >= Q64
  BY <1>10, <1>1
<1> QED BY <1>5, <1>7, <1>8, <1>9, <1>11

\* The scanner's invariant: what it reports is what its two entry points compute
\* from the accounts that they read.
LiquidationInv ==
  /\ liPc \in {"idle", "evaluated", "swept"}
  /\ liTable \in Tables
  /\ liPc = "idle" => liFound = <<>>
  /\ liPc = "evaluated" => \E k \in OblKeys : liFound = Evaluated(liTable, k)
  /\ liPc = "swept" => liFound \in Swept(liTable)

\* Every step of the engine enters the scanner, returns from it, or leaves its
\* variables alone.
LEMMA LiquidationSteps ==
  ASSUME [Next]_vars
  PROVE  \/ \E t \in Tables, k \in OblKeys : LiquidationEvaluate(t, k)
         \/ \E t \in Tables : LiquidationSweep(t)
         \/ LiquidationReturn
         \/ UNCHANGED liVars
BY DEF Next, vars, ProcessSwap, ProcessPool, ProcessObligation, SweepLiquidations,
       EngineWork

\* The scanner's invariant holds in every behaviour of the engine.
THEOREM LiquidationInvariant == Spec => []LiquidationInv
<1>1. Init => LiquidationInv
  BY DEF Init, LiquidationIdle, LiquidationInv, Tables
<1>2. LiquidationInv /\ [Next]_vars => LiquidationInv'
  <2> SUFFICES ASSUME LiquidationInv, [Next]_vars PROVE LiquidationInv'
    OBVIOUS
  <2>1. ASSUME NEW t \in Tables, NEW k \in OblKeys, LiquidationEvaluate(t, k)
        PROVE  LiquidationInv'
    BY <2>1 DEF LiquidationEvaluate, LiquidationInv
  <2>2. ASSUME NEW t \in Tables, LiquidationSweep(t)
        PROVE  LiquidationInv'
    BY <2>2 DEF LiquidationSweep, LiquidationInv
  <2>3. CASE LiquidationReturn
    BY <2>3 DEF LiquidationReturn, LiquidationInv, Tables
  <2>4. CASE UNCHANGED liVars
    BY <2>4 DEF liVars, LiquidationInv
  <2> QED BY <2>1, <2>2, <2>3, <2>4, LiquidationSteps
<1> QED BY <1>1, <1>2, PTL DEF Spec

\* What the scanner reports of an obligation: only if its health test fails, and a
\* sweep reports every one that fails it and is worth it.
LEMMA ReportedIs ==
  ASSUME LiquidationInv, NEW k \in OblKeys
  PROVE  /\ Reported(k) => Underwater(Decoded(liTable[k]))
         /\ (/\ liPc = "swept"
             /\ Underwater(Decoded(liTable[k]))
             /\ Opportunity(k, Decoded(liTable[k])).gross >= MinProfit) => Reported(k)
<1>1. \A x, o : Opportunity(x, o).key = x
  BY DEF Opportunity
<1>2. CASE liPc = "idle"
  <2>1. liFound = <<>>
    BY <1>2 DEF LiquidationInv
  <2> QED BY <1>2, <2>1 DEF Reported
<1>3. CASE liPc = "evaluated"
  <2>1. PICK x \in OblKeys : liFound = Evaluated(liTable, x)
    BY <1>3 DEF LiquidationInv
  <2> DEFINE o == Decoded(liTable[x])
  <2>2. liFound = <<>> \/ (Underwater(o) /\ liFound = <<Opportunity(x, o)>>)
    BY <2>1 DEF Evaluated
  <2> HIDE DEF o
  <2>3. CASE liFound = <<>>
    BY <2>3, <1>3 DEF Reported
  <2>4. CASE Underwater(o) /\ liFound = <<Opportunity(x, o)>>
    <3>1. Reported(k) => x = k
      BY <2>4, <1>1 DEF Reported
    <3> QED BY <3>1, <2>4, <1>3 DEF o
  <2> QED BY <2>2, <2>3, <2>4
<1>4. CASE liPc = "swept"
  <2> DEFINE W == WorthSweeping(liTable)
  <2>1. liFound \in Bijection(1 .. Cardinality(W), W)
    BY <1>4 DEF LiquidationInv, Swept
  <2>2. /\ DOMAIN liFound = 1 .. Cardinality(W)
        /\ \A i \in DOMAIN liFound : liFound[i] \in W
        /\ \A opp \in W : \E i \in DOMAIN liFound : liFound[i] = opp
    <3> HIDE DEF W
    <3> QED BY <2>1 DEF Bijection, Injection, Surjection
  <2>3. ASSUME Reported(k) PROVE Underwater(Decoded(liTable[k]))
    <3>1. PICK i \in DOMAIN liFound : liFound[i].key = k
      BY <2>3 DEF Reported
    <3>2. liFound[i] \in W
      BY <2>2
    <3>3. PICK x \in OblKeys : /\ Underwater(Decoded(liTable[x]))
                               /\ liFound[i] = Opportunity(x, Decoded(liTable[x]))
      BY <3>2 DEF WorthSweeping
    <3>4. x = k
      BY <3>1, <3>3, <1>1
    <3> QED BY <3>3, <3>4
  <2>4. ASSUME Underwater(Decoded(liTable[k])),
               Opportunity(k, Decoded(liTable[k])).gross >= MinProfit
        PROVE  Reported(k)
    <3>1. Opportunity(k, Decoded(liTable[k])) \in W
      BY <2>4 DEF WorthSweeping
    <3>2. PICK i \in DOMAIN liFound : liFound[i] = Opportunity(k, Decoded(liTable[k]))
      <4> HIDE DEF W
      <4> QED BY <3>1, <2>2
    <3> QED BY <3>2, <1>1 DEF Reported
  <2> QED BY <2>3, <2>4
<1> QED BY <1>2, <1>3, <1>4 DEF LiquidationInv

\* The scanner and Solend agree on who is in danger, to a basis point, for every
\* account and whatever the roundings.
THEOREM DangersAreSeen == Spec => []DangerIsSeen
<1>1. LiquidationInv => DangerIsSeen
  <2> SUFFICES ASSUME LiquidationInv, NEW k \in OblKeys,
                      Decoded(liTable[k]) # NoObl, liTable[k].coll > 0,
                      liTable[k].protocol = "solend"
               PROVE  /\ (/\ liPc = "swept"
                          /\ liTable[k].borrow >= liTable[k].unhealthy
                          /\ Opportunity(k, Decoded(liTable[k])).gross >= MinProfit)
                             => Reported(k)
                      /\ Reported(k) => liTable[k].borrow * Bps + liTable[k].coll
                                          > liTable[k].unhealthy * Bps
    BY DEF DangerIsSeen
  <2>1. liTable[k] \in Accounts
    <3>1. liTable[k] \in Accounts \cup {NoObl}
      BY DEF LiquidationInv, Tables
    <3>2. liTable[k] # NoObl
      BY DEF Decoded
    <3> QED BY <3>1, <3>2
  <2>2. /\ liTable[k].borrow >= liTable[k].unhealthy => Underwater(Decoded(liTable[k]))
        /\ Underwater(Decoded(liTable[k])) =>
             liTable[k].borrow * Bps + liTable[k].coll > liTable[k].unhealthy * Bps
    BY <2>1, HealthTest
  <2> QED BY <2>2, ReportedIs
<1> QED BY <1>1, LiquidationInvariant, PTL

\* Whoever owes more is repaid no less and pays no less, and nobody is repaid more
\* than is owed, for every pair of accounts.
THEOREM RepaysFollowDebts == Spec => []RepayFollowsDebt
<1>1. LiquidationInv => RepayFollowsDebt
  <2> SUFFICES ASSUME LiquidationInv, NEW j \in OblKeys, NEW k \in OblKeys,
                      NEW x, x = Decoded(liTable[j]), NEW y, y = Decoded(liTable[k]),
                      Underwater(x), Underwater(y),
                      x.protocol = y.protocol, x.coll = y.coll, x.thr = y.thr,
                      x.borrow <= y.borrow
               PROVE  /\ Opportunity(j, x).repay <= Opportunity(k, y).repay
                      /\ \/ Opportunity(j, x).gross <= Opportunity(k, y).gross
                         \/ Opportunity(k, y).repay * BonusBps(y) >= Q64
                      /\ Opportunity(k, y).repay * Nano <= y.borrow
    BY DEF RepayFollowsDebt
  <2>1. x # NoObl /\ y # NoObl
    BY DEF Underwater
  <2>2. liTable[j] \in Accounts /\ liTable[k] \in Accounts
    <3>1. liTable[j] \in Accounts \cup {NoObl} /\ liTable[k] \in Accounts \cup {NoObl}
      BY DEF LiquidationInv, Tables
    <3>2. liTable[j] # NoObl /\ liTable[k] # NoObl
      BY <2>1 DEF Decoded
    <3> QED BY <3>1, <3>2
  <2>3. x \in Obligation /\ y \in Obligation
    BY <2>1, <2>2, DecodedIs
  <2> QED BY <2>3, RepayMonotone
<1> QED BY <1>1, LiquidationInvariant, PTL

(* The engine.                                                             *)

\* The invariant of the engine's loop: at most one evaluation is under way.
OneAtATime ==
  /\ saPc # "idle" => szPc = "idle" /\ liPc = "idle"
  /\ szPc # "idle" => liPc = "idle"

\* At most one evaluation is under way in every behaviour of the engine.
THEOREM OnlyOneAtATime == Spec => []OneAtATime
<1>1. Init => OneAtATime
  BY DEF Init, SandwichIdle, SizingIdle, LiquidationIdle, OneAtATime
<1>2. OneAtATime /\ [Next]_vars => OneAtATime'
  <2> SUFFICES ASSUME OneAtATime, [Next]_vars PROVE OneAtATime'
    OBVIOUS
  <2>1. CASE ProcessSwap
    BY <2>1 DEF ProcessSwap, Idle, OneAtATime, szVars, liVars
  <2>2. CASE ProcessPool
    BY <2>2 DEF ProcessPool, Idle, OneAtATime, saVars, liVars
  <2>3. CASE ProcessObligation \/ SweepLiquidations
    BY <2>3 DEF ProcessObligation, SweepLiquidations, Idle, OneAtATime, saVars, szVars
  <2>4. CASE SandwichWork /\ UNCHANGED <<szVars, liVars>>
    BY <2>4 DEF SandwichWork, FrontrunBisect, FrontrunSized, SandwichReturn, OneAtATime,
                szVars, liVars
  <2>5. CASE SizingWork /\ UNCHANGED <<saVars, liVars>>
    BY <2>5 DEF SizingWork, InputBisect, InputFound, SizingReturn, OneAtATime, saVars, liVars
  <2>6. CASE LiquidationReturn /\ UNCHANGED <<saVars, szVars>>
    BY <2>6 DEF LiquidationReturn, OneAtATime, saVars, szVars
  <2>7. CASE UNCHANGED vars
    BY <2>7 DEF vars, saVars, szVars, liVars, OneAtATime
  <2> QED BY <2>1, <2>2, <2>3, <2>4, <2>5, <2>6, <2>7 DEF Next, EngineWork
<1> QED BY <1>1, <1>2, PTL DEF Spec

\* A sweep reports no more opportunities than there are obligations.
LEMMA SweptIsShort ==
  ASSUME NEW t, NEW s \in Swept(t)
  PROVE  /\ Len(s) <= Cardinality(OblKeys)
         /\ \A i \in DOMAIN s : s[i].key \in OblKeys
<1> DEFINE W == WorthSweeping(t)
           opp(k) == Opportunity(k, Decoded(t[k]))
           K == {k \in OblKeys : Underwater(Decoded(t[k])) /\ opp(k).gross >= MinProfit}
           f == [k \in K |-> opp(k)]
<1>1. IsFiniteSet(OblKeys) /\ IsFiniteSet(K) /\ Cardinality(K) <= Cardinality(OblKeys)
  <2>1. IsFiniteSet(OblKeys) /\ K \in SUBSET OblKeys
    BY StrategiesAssumption
  <2> HIDE DEF K
  <2> QED BY <2>1, FS_Subset
<1>2. f \in Surjection(K, W)
  <2>1. \A k \in K : opp(k) \in W
    BY DEF WorthSweeping
  <2>2. \A w \in W : \E k \in K : opp(k) = w
    BY DEF WorthSweeping
  <2> HIDE DEF K, W, opp
  <2> QED BY <2>1, <2>2 DEF Surjection
<1>3. IsFiniteSet(W) /\ Cardinality(W) <= Cardinality(K)
  <2> HIDE DEF K, W, f
  <2> QED BY <1>1, <1>2, FS_Surjection
<1>4. Cardinality(W) \in Nat /\ Cardinality(K) \in Nat /\ Cardinality(OblKeys) \in Nat
  <2> HIDE DEF K, W
  <2> QED BY <1>1, <1>3, FS_CardinalityType
<1>5. s \in [1 .. Cardinality(W) -> W]
  BY DEF Swept, Bijection, Injection
<1>6. Len(s) = Cardinality(W)
  <2> HIDE DEF W
  <2> QED BY <1>4, <1>5
<1>7. ASSUME NEW i \in DOMAIN s PROVE s[i].key \in OblKeys
  <2>1. s[i] \in W
    BY <1>5
  <2>2. PICK k \in OblKeys : s[i] = Opportunity(k, Decoded(t[k]))
    BY <2>1 DEF WorthSweeping
  <2> QED BY <2>2 DEF Opportunity
<1> HIDE DEF W, K
<1> QED BY <1>1, <1>3, <1>4, <1>6, <1>7

\* The type invariant of the engine and its three evaluations.
THEOREM TypeCorrect == Spec => []TypeOK
<1>1. SandwichInv => SandwichTypeOK
  <2> SUFFICES ASSUME SandwichInv PROVE SandwichTypeOK
    OBVIOUS
  <2>1. saPc \in {"idle", "bisect", "signal", "dropped"}
    BY DEF SandwichInv
  <2>2. ASSUME saPc # "idle"
        PROVE  FrontrunFloor <= saLo /\ saLo <= saHi /\ saHi <= saMax /\ saMax < Q64
    <3>1. /\ FrontrunFloor <= saLo /\ saLo <= saHi /\ saHi <= saMax
          /\ saMax \in Nat /\ saMax * Bps < Q64
      BY <2>2 DEF SandwichInv
    <3>2. saMax * 1 <= saMax * Bps /\ saMax * Bps \in Nat /\ Q64 \in Nat
      BY <3>1, ScalesAssumption, TimesMono, TimesNat
    <3> QED BY <3>1, <3>2
  <2> QED BY <2>1, <2>2 DEF SandwichTypeOK
<1>2. SizingInv => SizingTypeOK
  BY DEF SizingInv, SizingTypeOK
<1>3. LiquidationInv => LiquidationTypeOK
  <2> SUFFICES ASSUME LiquidationInv PROVE LiquidationTypeOK
    OBVIOUS
  <2>1. Cardinality(OblKeys) \in Nat
    BY StrategiesAssumption, FS_CardinalityType
  <2>2. liPc \in {"idle", "evaluated", "swept"} /\ (liPc = "idle" => liFound = <<>>)
    BY DEF LiquidationInv
  <2>3. /\ Len(liFound) <= IF liPc = "evaluated" THEN 1 ELSE Cardinality(OblKeys)
        /\ \A i \in DOMAIN liFound : liFound[i].key \in OblKeys
    <3>1. CASE liPc = "idle"
      BY <3>1, <2>1, <2>2
    <3>2. CASE liPc = "evaluated"
      <4>1. PICK k \in OblKeys : liFound = Evaluated(liTable, k)
        BY <3>2 DEF LiquidationInv
      <4>2. \/ liFound = <<>>
            \/ liFound = <<Opportunity(k, Decoded(liTable[k]))>>
        BY <4>1 DEF Evaluated
      <4>3. Opportunity(k, Decoded(liTable[k])).key = k
        BY DEF Opportunity
      <4>4. Opportunity(k, Decoded(liTable[k])).key \in OblKeys
        BY <4>1, <4>3
      <4> DEFINE opp == Opportunity(k, Decoded(liTable[k]))
      <4>5. opp.key \in OblKeys /\ (liFound = <<>> \/ liFound = <<opp>>)
        BY <4>2, <4>4
      <4> HIDE DEF opp
      <4>6. CASE liFound = <<>>
        BY <4>6, <3>2
      <4>7. CASE liFound = <<opp>>
        <5>1. Len(liFound) = 1 /\ DOMAIN liFound = {1} /\ liFound[1] = opp
          BY <4>7
        <5> QED BY <5>1, <4>5, <3>2
      <4> QED BY <4>5, <4>6, <4>7
    <3>3. CASE liPc = "swept"
      <4>1. liFound \in Swept(liTable)
        BY <3>3 DEF LiquidationInv
      <4>2. /\ Len(liFound) <= Cardinality(OblKeys)
            /\ \A i \in DOMAIN liFound : liFound[i].key \in OblKeys
        BY <4>1, SweptIsShort
      <4> QED BY <4>2, <3>3
    <3> QED BY <3>1, <3>2, <3>3, <2>2
  <2> QED BY <2>2, <2>3 DEF LiquidationTypeOK
<1>4. OneAtATime =>
        Cardinality({v \in {<<1, saPc>>, <<2, szPc>>, <<3, liPc>>} : v[2] # "idle"}) <= 1
  <2> SUFFICES ASSUME OneAtATime
               PROVE  Cardinality({v \in {<<1, saPc>>, <<2, szPc>>, <<3, liPc>>} :
                                     v[2] # "idle"}) <= 1
    OBVIOUS
  <2> DEFINE B == {v \in {<<1, saPc>>, <<2, szPc>>, <<3, liPc>>} : v[2] # "idle"}
  <2>1. \E v : B \subseteq {v}
    <3>1. CASE saPc # "idle"
      <4>1. B \subseteq {<<1, saPc>>}
        BY <3>1 DEF OneAtATime
      <4> QED BY <4>1
    <3>2. CASE saPc = "idle" /\ szPc # "idle"
      <4>1. B \subseteq {<<2, szPc>>}
        BY <3>2 DEF OneAtATime
      <4> QED BY <4>1
    <3>3. CASE saPc = "idle" /\ szPc = "idle"
      <4>1. B \subseteq {<<3, liPc>>}
        BY <3>3 DEF OneAtATime
      <4> QED BY <4>1
    <3> QED BY <3>1, <3>2, <3>3
  <2> HIDE DEF B
  <2>2. PICK v : B \in SUBSET {v}
    BY <2>1
  <2>3. IsFiniteSet({v}) /\ Cardinality({v}) = 1
    BY FS_Singleton
  <2>4. IsFiniteSet(B) /\ Cardinality(B) <= Cardinality({v})
    BY <2>2, <2>3, FS_Subset
  <2>5. Cardinality(B) <= 1
    BY <2>3, <2>4
  <2> QED BY <2>5 DEF B
<1>5. SandwichInv /\ SizingInv /\ LiquidationInv /\ OneAtATime => TypeOK
  BY <1>1, <1>2, <1>3, <1>4 DEF TypeOK
<1> QED
  BY <1>5, SandwichInvariant, SizingInvariant, LiquidationInvariant, OnlyOneAtATime, PTL

(* What is left of an evaluation.                                          *)

\* The steps that the evaluation under way may still take, counted from above.
Left ==
  (IF saPc = "bisect" THEN 2 + (saHi - saLo) ELSE IF saPc # "idle" THEN 1 ELSE 0)
  + (IF szPc = "bisect" THEN 2 + (szHi - szLo) ELSE IF szPc # "idle" THEN 1 ELSE 0)
  + (IF liPc # "idle" THEN 1 ELSE 0)

\* Half of an interval that is wider than a step is narrower than the whole.
LEMMA HalfIsLess ==
  ASSUME NEW lo \in Nat, NEW hi \in Nat, NEW step \in Nat \ {0}, hi - lo > step
  PROVE  LET mid == (lo + hi) \div 2 IN  mid \in Nat /\ lo < mid /\ mid < hi
OBVIOUS

\* Every step of a busy engine brings the evaluation closer to its end: the rank
\* is a number that falls, so an engine that goes on cannot stay busy for ever,
\* whatever the pools, routes and step sizes (binary searches of sandwich.rs:120
\* and arbitrage.rs:216).
THEOREM EvaluationsShrink ==
  Spec => [][~Idle => Left \in Nat /\ Left' \in Nat /\ Left' < Left]_vars
<1> DEFINE Inv == SandwichInv /\ SizingInv /\ OneAtATime
           Shrinks == ~Idle => Left \in Nat /\ Left' \in Nat /\ Left' < Left
<1>1. ASSUME Inv, [Next]_vars PROVE [Shrinks]_vars
  <2> SUFFICES ASSUME Next, ~Idle PROVE Left \in Nat /\ Left' \in Nat /\ Left' < Left
    BY <1>1
  <2>1. CASE SandwichWork /\ UNCHANGED <<szVars, liVars>>
    <3>1. /\ saPc # "idle" /\ szPc = "idle" /\ liPc = "idle"
          /\ szPc' = "idle" /\ liPc' = "idle"
          /\ saLo \in Nat /\ saHi \in Nat /\ saLo <= saHi
      BY <1>1, <2>1 DEF SandwichWork, FrontrunBisect, FrontrunSized, SandwichReturn,
                        SandwichInv, OneAtATime, szVars, liVars
    <3>2. CASE FrontrunBisect
      <4> DEFINE mid == (saLo + saHi) \div 2
      <4>1. mid \in Nat /\ saLo < mid /\ mid < saHi
        BY <3>1, <3>2, HalfIsLess, SandwichAssumption DEF FrontrunBisect, Wide
      <4>2. /\ saPc = "bisect" /\ saPc' = "bisect"
            /\ (saLo' = mid /\ saHi' = saHi) \/ (saHi' = mid /\ saLo' = saLo)
        BY <3>2 DEF FrontrunBisect
      <4> HIDE DEF mid
      <4> QED BY <3>1, <4>1, <4>2 DEF Left
    <3>3. CASE FrontrunSized
      <4>1. saPc = "bisect" /\ saPc' \in {"signal", "dropped"}
        BY <3>3 DEF FrontrunSized
      <4> QED BY <3>1, <4>1 DEF Left
    <3>4. CASE SandwichReturn
      <4>1. saPc \in {"signal", "dropped"} /\ saPc' = "idle"
        BY <3>4 DEF SandwichReturn
      <4> QED BY <3>1, <4>1 DEF Left
    <3> QED BY <2>1, <3>2, <3>3, <3>4 DEF SandwichWork
  <2>2. CASE SizingWork /\ UNCHANGED <<saVars, liVars>>
    <3>1. /\ szPc # "idle" /\ saPc = "idle" /\ liPc = "idle"
          /\ saPc' = "idle" /\ liPc' = "idle"
          /\ szLo \in Nat /\ szHi \in Nat /\ szLo <= szHi
      BY <1>1, <2>2 DEF SizingWork, InputBisect, InputFound, SizingReturn,
                        SizingInv, OneAtATime, saVars, liVars
    <3>2. CASE InputBisect
      <4> DEFINE mid == (szLo + szHi) \div 2
      <4>1. mid \in Nat /\ szLo < mid /\ mid < szHi
        BY <3>1, <3>2, HalfIsLess, SizingAssumption DEF InputBisect
      <4>2. /\ szPc = "bisect" /\ szPc' = "bisect"
            /\ (szLo' = mid /\ szHi' = szHi) \/ (szHi' = mid /\ szLo' = szLo)
        BY <3>2 DEF InputBisect
      <4> HIDE DEF mid
      <4> QED BY <3>1, <4>1, <4>2 DEF Left
    <3>3. CASE InputFound
      <4>1. szPc = "bisect" /\ szPc' \in {"signal", "dropped"}
        BY <3>3 DEF InputFound
      <4> QED BY <3>1, <4>1 DEF Left
    <3>4. CASE SizingReturn
      <4>1. szPc \in {"signal", "dropped"} /\ szPc' = "idle"
        BY <3>4 DEF SizingReturn
      <4> QED BY <3>1, <4>1 DEF Left
    <3> QED BY <2>2, <3>2, <3>3, <3>4 DEF SizingWork
  <2>3. CASE LiquidationReturn /\ UNCHANGED <<saVars, szVars>>
    <3>1. /\ liPc # "idle" /\ liPc' = "idle" /\ saPc = "idle" /\ szPc = "idle"
          /\ saPc' = "idle" /\ szPc' = "idle"
      BY <1>1, <2>3 DEF LiquidationReturn, OneAtATime, saVars, szVars
    <3> QED BY <3>1 DEF Left
  <2> QED
    BY <2>1, <2>2, <2>3 DEF Next, EngineWork, ProcessSwap, ProcessPool, ProcessObligation,
                            SweepLiquidations
<1>2. Inv /\ Inv' /\ [Next]_vars => [Shrinks]_vars
  BY <1>1
<1>3. [](SandwichInv /\ SizingInv /\ OneAtATime) /\ [][Next]_vars => [][Shrinks]_vars
  BY <1>2, PTL
<1> QED
  BY <1>3, SandwichInvariant, SizingInvariant, OnlyOneAtATime, PTL DEF Spec
=============================================================================
