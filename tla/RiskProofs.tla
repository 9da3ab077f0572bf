----------------------------- MODULE RiskProofs -----------------------------
(***************************************************************************)
(* Proofs about Risk for any pools, mints, prices and collateral.          *)
(*                                                                         *)
(* The argument: an update averages the old variance with the square of    *)
(* the new return, so neither a bound on all moves nor the breaker's bound *)
(* on the moves of a mint that never jumped can be crossed.  A tracked     *)
(* pool has had both its mints fed, and an AssetVol is never removed.      *)
(***************************************************************************)
EXTENDS Risk, WellFoundedInduction, TLAPS

Vol == [last : Int, var : Nat]

\* No move of m was larger than the variance allows for.
WithinMoves(m, v) == \E x, y \in PricesOf(m) : v <= Square(x - y)

VolTyped ==
  /\ vol \in [Mints -> Vol \cup {NoVol}]
  /\ \A m \in Mints : vol[m] # NoVol =>
       vol[m].last \in PricesOf(m) /\ WithinMoves(m, vol[m].var)

MonTyped ==
  /\ tracked \subseteq Pools
  /\ monAt \in 0 .. 3
  /\ monAt > 0 => monMsg.pool \in Pools /\ monMsg.price \in Prices[monMsg.pool]

ExTyped ==
  /\ exPc \in {"idle", "breaker", "haircut", "priced"}
  /\ exPc # "idle" => exMint \in Collateral
  /\ exCapped \in BOOLEAN
  /\ raced \in BOOLEAN /\ jumped \subseteq Mints

Typed == VolTyped /\ MonTyped /\ ExTyped

\* Every mint that the executor can meet through a tracked pool was fed.
Fed ==
  /\ \A p \in tracked : vol[TokenA[p]] # NoVol /\ vol[TokenB[p]] # NoVol
  /\ monAt > 1 => vol[TokenA[monMsg.pool]] # NoVol
  /\ monAt > 2 => vol[TokenB[monMsg.pool]] # NoVol
  /\ exPc # "idle" => vol[exMint] # NoVol

\* The breaker that was read holds until the haircut is, or there was a race.
BreakerHolds ==
  /\ exPc = "haircut" /\ ~raced => ~Breaker(exMint)
  /\ CapOnlyByRace

RInv == Typed /\ Fed /\ BreakerMeansAJump /\ BreakerHolds

-----------------------------------------------------------------------------
(* Volatility.                                                             *)

\* A square is a natural number.
LEMMA SquareType ==
  ASSUME NEW x \in Int
  PROVE  Square(x) \in Nat
<1>1. CASE x >= 0
  BY <1>1 DEF Square
<1>2. CASE x < 0
  <2>1. -x \in Nat /\ x * x = (-x) * (-x)
    BY <1>2
  <2> QED
    BY <2>1 DEF Square
<1> QED
  BY <1>1, <1>2

\* The mints of a pool get its price or its inverse.
LEMMA PricesFed ==
  ASSUME NEW p \in Pools, NEW x \in Prices[p]
  PROVE  /\ TokenA[p] \in Mints /\ TokenB[p] \in Mints /\ TokenA[p] # TokenB[p]
         /\ x \in Int
         /\ x \in PricesOf(TokenA[p])
         /\ -x \in PricesOf(TokenB[p])
<1>1. TokenA[p] \in Mints /\ TokenB[p] \in Mints /\ TokenA[p] # TokenB[p] /\ x \in Int
  BY RiskAssumption
<1>2. p \in {q \in Pools : TokenA[p] \in {TokenA[q], TokenB[q]}}
      /\ p \in {q \in Pools : TokenB[p] \in {TokenA[q], TokenB[q]}}
  OBVIOUS
<1>3. -x \in {-y : y \in Prices[p]}
  OBVIOUS
<1> QED
  BY <1>1, <1>2, <1>3 DEF PricesOf

\* The prices a mint is fed are integers.
LEMMA PricesOfType ==
  ASSUME NEW m
  PROVE  PricesOf(m) \subseteq Int
BY RiskAssumption DEF PricesOf

\* The average: an update takes the variance to no more than the larger of what
\* it was and the square of the new return.
LEMMA UpdateAverages ==
  ASSUME NEW v \in Vol, NEW price \in Int
  PROVE  /\ Updated(v, price) \in Vol
         /\ Updated(v, price).last = price
         /\ \A bound \in Nat :
              v.var <= bound /\ Square(price - v.last) <= bound =>
                Updated(v, price).var <= bound
<1> DEFINE s == Square(price - v.last)
<1>1. s \in Nat /\ v.var \in Nat
  BY SquareType DEF Vol
<1> HIDE DEF s
<1>2. (94 * v.var + 6 * s) \div 100 \in Nat
  BY <1>1
<1>3. ASSUME NEW bound \in Nat, v.var <= bound, s <= bound
      PROVE  (94 * v.var + 6 * s) \div 100 <= bound
  BY <1>1, <1>3
<1>4. Updated(v, price) = [last |-> price, var |-> (94 * v.var + 6 * s) \div 100]
  BY DEF Updated, s
<1> QED
  BY <1>2, <1>3, <1>4 DEF Vol, s

\* What update_vol starts from.
LEMMA EntryTyped ==
  ASSUME VolTyped, NEW m \in Mints, NEW price \in PricesOf(m)
  PROVE  /\ Entry(m, price) \in Vol
         /\ Entry(m, price).last \in PricesOf(m)
         /\ WithinMoves(m, Entry(m, price).var)
<1>1. price \in Int
  BY PricesOfType
<1>2. CASE vol[m] = NoVol
  <2>1. 0 <= Square(price - price)
    BY <1>1, SquareType
  <2> QED
    BY <1>1, <1>2, <2>1 DEF Entry, Vol, WithinMoves
<1>3. CASE vol[m] # NoVol
  BY <1>3 DEF Entry, VolTyped
<1> QED
  BY <1>2, <1>3

\* One feed: the types of vol, whose entries never go, and the bound of a mint
\* that has not jumped.
LEMMA FeedKeeps ==
  ASSUME Typed, BreakerMeansAJump, NEW m \in Mints, NEW price \in PricesOf(m), Feed(m, price)
  PROVE  /\ VolTyped'
         /\ \A n \in Mints : n # m => vol'[n] = vol[n]
         /\ vol'[m] # NoVol
         /\ BreakerMeansAJump'
<1> DEFINE e == Entry(m, price)
           u == Updated(e, price)
           s == Square(price - e.last)
<1>1. price \in Int /\ e \in Vol /\ e.last \in PricesOf(m) /\ WithinMoves(m, e.var)
  BY EntryTyped, PricesOfType DEF Typed
<1>2. e.last \in Int /\ s \in Nat
  BY <1>1, PricesOfType, SquareType
<1>3. u \in Vol /\ u.last = price /\ u # NoVol
      /\ \A bound \in Nat : e.var <= bound /\ s <= bound => u.var <= bound
  <2>1. Updated(e, price) \in Vol /\ Updated(e, price).last = price
        /\ \A bound \in Nat : e.var <= bound /\ Square(price - e.last) <= bound =>
             Updated(e, price).var <= bound
    BY <1>1, UpdateAverages
  <2>2. NoVol \notin Vol
    BY RiskAssumption DEF Vol
  <2> HIDE DEF e
  <2> QED
    BY <2>1, <2>2
<1>4. vol' = [vol EXCEPT ![m] = u]
  BY DEF Feed
<1>5. jumped' = IF s > Square(BreakerSigma) THEN jumped \cup {m} ELSE jumped
  BY DEF Feed, Jump
<1>6. vol[m] # NoVol => e = vol[m]
  BY DEF Entry
<1>7. vol[m] = NoVol => e.var = 0
  BY DEF Entry
<1> HIDE DEF e, u, s
<1>8. WithinMoves(m, u.var)
  <2>1. PICK x \in PricesOf(m), y \in PricesOf(m) : e.var <= Square(x - y)
    BY <1>1 DEF WithinMoves
  <2>2. Square(x - y) \in Nat /\ e.var \in Nat
    BY <1>1, <2>1, PricesOfType, SquareType DEF Vol
  <2>3. CASE s <= Square(x - y)
    BY <1>3, <2>1, <2>2, <2>3 DEF WithinMoves
  <2>4. CASE Square(x - y) < s
    <3>1. u.var <= s
      BY <1>2, <1>3, <2>1, <2>2, <2>4
    <3> QED
      BY <1>1, <3>1 DEF WithinMoves, s
  <2> QED
    BY <1>2, <2>2, <2>3, <2>4
<1>9. VolTyped'
  <2>1. vol' \in [Mints -> Vol \cup {NoVol}]
    BY <1>3, <1>4 DEF Typed, VolTyped
  <2>2. ASSUME NEW n \in Mints, vol'[n] # NoVol
        PROVE  vol'[n].last \in PricesOf(n) /\ WithinMoves(n, vol'[n].var)
    <3>1. CASE n = m
      BY <1>3, <1>4, <1>8, <3>1 DEF Typed, VolTyped
    <3>2. CASE n # m
      BY <1>4, <2>2, <3>2 DEF Typed, VolTyped
    <3> QED
      BY <3>1, <3>2
  <2> QED
    BY <2>1, <2>2 DEF VolTyped
<1>10. Square(BreakerSigma) \in Nat
  BY SquareType DEF BreakerSigma
<1>11. m \notin jumped' => u.var <= Square(BreakerSigma)
  <2>1. ASSUME m \notin jumped' PROVE e.var <= Square(BreakerSigma)
    <3>1. m \notin jumped
      BY <1>5, <2>1
    <3>2. CASE vol[m] = NoVol
      BY <1>7, <1>10, <3>2
    <3>3. CASE vol[m] # NoVol
      BY <1>1, <1>6, <1>10, <3>1, <3>3 DEF BreakerMeansAJump, Breaker, Vol
    <3> QED
      BY <3>2, <3>3
  <2>2. ASSUME m \notin jumped' PROVE s <= Square(BreakerSigma)
    BY <1>2, <1>5, <1>10, <2>2
  <2> QED
    BY <1>3, <1>10, <2>1, <2>2
<1>12. BreakerMeansAJump'
  <2> SUFFICES ASSUME NEW n \in Mints, n \notin jumped' PROVE ~Breaker(n)'
    BY DEF BreakerMeansAJump
  <2>1. CASE n = m
    BY <1>3, <1>4, <1>10, <1>11, <2>1 DEF Breaker, Typed, VolTyped, Vol, Square, BreakerSigma
  <2>2. CASE n # m
    BY <1>4, <1>5, <2>2 DEF Breaker, BreakerMeansAJump
  <2> QED
    BY <2>1, <2>2
<1> QED
  BY <1>3, <1>4, <1>9, <1>12 DEF Typed, VolTyped
-----------------------------------------------------------------------------
(* The haircut.                                                            *)

\* Below the breaker the haircut stays below its cap.
LEMMA HaircutBelowCap ==
  ASSUME NEW var \in Nat, var <= Square(BreakerSigma)
  PROVE  Haircut(var) < HaircutCap
<1> DEFINE limit == 4 * var * ExecutionSlots
           Root(h) == Square(h) <= limit /\ (h = HaircutCap \/ Square(h + 1) > limit)
           Over == {n \in Nat : n = HaircutCap \/ Square(n + 1) > limit}
<1>1. limit \in Nat /\ limit <= 512
  BY DEF ExecutionSlots, Square, BreakerSigma
<1>2. \A n \in Nat : Square(n) \in Nat
  BY SquareType
<1>3. Square(0) = 0 /\ Square(25) = 625
  BY DEF Square
<1> HIDE DEF limit
<1>4. PICK h \in Over : \A n \in Over : ~(<<n, h>> \in OpToRel(<, Nat))
  <2>1. HaircutCap \in Over
    BY DEF HaircutCap
  <2> QED
    BY <2>1, WFMin, NatLessThanWellFounded
<1>5. \A n \in Nat : n < h => n \notin Over
  BY <1>4 DEF OpToRel
<1>6. h \in 0 .. HaircutCap
  <2>1. HaircutCap \in Over
    BY DEF HaircutCap
  <2> QED
    BY <1>5, <2>1 DEF HaircutCap
<1>7. Square(h) <= limit
  <2>1. CASE h = 0
    BY <1>1, <1>3, <2>1
  <2>2. CASE h > 0
    <3>1. h - 1 \in Nat /\ h - 1 < h /\ (h - 1) + 1 = h
      BY <1>6, <2>2
    <3>2. ~(Square(h) > limit)
      BY <1>5, <3>1
    <3> QED
      BY <1>1, <1>2, <1>6, <3>2 DEF HaircutCap
  <2> QED
    BY <1>6, <2>1, <2>2
<1>8. \E r \in 0 .. HaircutCap : Root(r)
  BY <1>4, <1>6, <1>7
<1>9. Haircut(var) \in 0 .. HaircutCap /\ Root(Haircut(var))
  BY <1>8 DEF Haircut, limit
<1>10. Haircut(var) # 25
  BY <1>1, <1>3, <1>9
<1> QED
  BY <1>9, <1>10 DEF HaircutCap
-----------------------------------------------------------------------------
(* The monitor's steps.                                                    *)

\* Where the monitor is at each of its steps, and where it goes.
LEMMA Positions ==
  ASSUME monAt \in 0 .. 3
  PROVE  /\ MonitorAt("a") <=> monAt = 1
         /\ MonitorAt("b") <=> monAt = 2
         /\ MonitorAt("insert") <=> monAt = 3
         /\ Advance /\ monAt \in {1, 2} => monAt' = monAt + 1 /\ monMsg' = monMsg
         /\ Advance /\ monAt = 3 => monAt' = 0
BY DEF MonitorAt, MonitorSteps, Advance

\* At the start no mint has a volatility and nobody is at work.
LEMMA InitRInv ==
  ASSUME Init
  PROVE  RInv
<1>1. VolTyped /\ BreakerMeansAJump
  BY DEF Init, VolTyped, BreakerMeansAJump, Breaker
<1>2. MonTyped
  BY DEF Init, MonTyped
<1>3. ExTyped
  BY DEF Init, ExTyped
<1>4. Fed /\ BreakerHolds
  BY DEF Init, Fed, BreakerHolds, CapOnlyByRace
<1> QED
  BY <1>1, <1>2, <1>3, <1>4 DEF RInv, Typed

\* What a feed of mint m does to the parts that speak of the executor.
LEMMA FeedKeepsExecutor ==
  ASSUME Typed, BreakerHolds, BreakerMeansAJump, NEW m \in Mints, NEW price \in PricesOf(m),
         Feed(m, price), UNCHANGED exVars
  PROVE  /\ BreakerHolds' /\ ExTyped'
         /\ \A n \in Mints : vol[n] # NoVol => vol'[n] # NoVol
<1>1. UNCHANGED <<exPc, exMint, exCapped>>
  BY DEF exVars
<1>2. \A n \in Mints : n # m => vol'[n] = vol[n]
  BY FeedKeeps
<1>3. raced' = (raced \/ (exPc = "haircut" /\ exMint = m))
  BY DEF Feed
<1>4. exPc # "idle" => exMint \in Mints
  BY RiskAssumption DEF Typed, ExTyped
<1>5. ASSUME exPc = "haircut", ~raced' PROVE ~Breaker(exMint)'
  BY <1>1, <1>2, <1>3, <1>4, <1>5 DEF BreakerHolds, Breaker
<1>6. CapOnlyByRace'
  BY <1>1, <1>3 DEF BreakerHolds, CapOnlyByRace
<1>7. ExTyped'
  <2>1. jumped' \subseteq Mints /\ raced' \in BOOLEAN
    BY <1>3 DEF Feed, Typed, ExTyped
  <2> QED
    BY <1>1, <2>1 DEF Typed, ExTyped
<1> QED
  BY <1>1, <1>5, <1>6, <1>7, FeedKeeps DEF BreakerHolds

\* The monitor feeds the price of token a.
LEMMA FeedAStep ==
  ASSUME RInv, FeedA
  PROVE  RInv'
<1> DEFINE p == monMsg.pool
<1>1. monAt = 1 /\ monAt' = 2 /\ monMsg' = monMsg /\ UNCHANGED <<tracked, exVars>>
  BY Positions DEF RInv, Typed, MonTyped, FeedA
<1>2. p \in Pools /\ monMsg.price \in Prices[p]
  BY <1>1 DEF RInv, Typed, MonTyped
<1>3. TokenA[p] \in Mints /\ monMsg.price \in Int /\ monMsg.price \in PricesOf(TokenA[p])
  BY <1>2, PricesFed
<1>4. Feed(TokenA[p], monMsg.price)
  BY DEF FeedA
<1>5. PICK m \in Mints, price \in Int :
        price \in PricesOf(m) /\ m = TokenA[p] /\ price = monMsg.price /\ Feed(m, price)
  BY <1>3, <1>4 DEF Feed, Entry, Jump
<1>6. VolTyped' /\ BreakerMeansAJump' /\ vol'[m] # NoVol
  BY <1>5, FeedKeeps DEF RInv
<1>7. BreakerHolds' /\ ExTyped' /\ \A n \in Mints : vol[n] # NoVol => vol'[n] # NoVol
  BY <1>1, <1>5, FeedKeepsExecutor DEF RInv
<1>8. MonTyped'
  BY <1>1 DEF RInv, Typed, MonTyped
<1>9. Fed'
  <2>1. \A q \in tracked : TokenA[q] \in Mints /\ TokenB[q] \in Mints
    BY RiskAssumption DEF RInv, Typed, MonTyped
  <2>2. exPc # "idle" => exMint \in Mints
    BY RiskAssumption DEF RInv, Typed, ExTyped
  <2>3. \A q \in tracked : vol'[TokenA[q]] # NoVol /\ vol'[TokenB[q]] # NoVol
    BY <1>7, <2>1 DEF RInv, Fed
  <2>4. exPc # "idle" => vol'[exMint] # NoVol
    BY <1>7, <2>2 DEF RInv, Fed
  <2> QED
    BY <1>1, <1>5, <1>6, <2>3, <2>4 DEF Fed, exVars
<1> QED
  BY <1>6, <1>7, <1>8, <1>9 DEF RInv, Typed

\* The monitor feeds the price of token b, the opposite.
LEMMA FeedBStep ==
  ASSUME RInv, FeedB
  PROVE  RInv'
<1> DEFINE p == monMsg.pool
<1>1. monAt = 2 /\ monAt' = 3 /\ monMsg' = monMsg /\ UNCHANGED <<tracked, exVars>>
  BY Positions DEF RInv, Typed, MonTyped, FeedB
<1>2. p \in Pools /\ monMsg.price \in Prices[p]
  BY <1>1 DEF RInv, Typed, MonTyped
<1>3. /\ TokenA[p] \in Mints /\ TokenB[p] \in Mints
      /\ -monMsg.price \in Int /\ -monMsg.price \in PricesOf(TokenB[p])
  BY <1>2, PricesFed
<1>4. Feed(TokenB[p], -monMsg.price)
  BY DEF FeedB
<1>5. PICK m \in Mints, price \in Int :
        price \in PricesOf(m) /\ m = TokenB[p] /\ price = -monMsg.price /\ Feed(m, price)
  BY <1>3, <1>4 DEF Feed, Entry, Jump
<1>6. VolTyped' /\ BreakerMeansAJump' /\ vol'[m] # NoVol
  BY <1>5, FeedKeeps DEF RInv
<1>7. BreakerHolds' /\ ExTyped' /\ \A n \in Mints : vol[n] # NoVol => vol'[n] # NoVol
  BY <1>1, <1>5, FeedKeepsExecutor DEF RInv
<1>8. MonTyped'
  BY <1>1 DEF RInv, Typed, MonTyped
<1>9. Fed'
  <2>1. \A q \in tracked : TokenA[q] \in Mints /\ TokenB[q] \in Mints
    BY RiskAssumption DEF RInv, Typed, MonTyped
  <2>2. exPc # "idle" => exMint \in Mints
    BY RiskAssumption DEF RInv, Typed, ExTyped
  <2>3. \A q \in tracked : vol'[TokenA[q]] # NoVol /\ vol'[TokenB[q]] # NoVol
    BY <1>7, <2>1 DEF RInv, Fed
  <2>4. exPc # "idle" => vol'[exMint] # NoVol
    BY <1>7, <2>2 DEF RInv, Fed
  <2>5. vol'[TokenA[p]] # NoVol
    BY <1>1, <1>3, <1>7 DEF RInv, Fed
  <2> QED
    BY <1>1, <1>5, <1>6, <2>3, <2>4, <2>5 DEF Fed, exVars
<1> QED
  BY <1>6, <1>7, <1>8, <1>9 DEF RInv, Typed

\* The pool is published after both its mints were fed.
LEMMA InsertStep ==
  ASSUME RInv, InsertPool
  PROVE  RInv'
<1>1. /\ monAt = 3 /\ monAt' = 0 /\ tracked' = tracked \cup {monMsg.pool}
      /\ UNCHANGED <<vol, exPc, exMint, exCapped, raced, jumped>>
  BY Positions DEF RInv, Typed, MonTyped, InsertPool, exVars
<1>2. monMsg.pool \in Pools
  BY <1>1 DEF RInv, Typed, MonTyped
<1>3. Typed'
  BY <1>1, <1>2 DEF RInv, Typed, VolTyped, MonTyped, ExTyped
<1>4. Fed'
  BY <1>1 DEF RInv, Fed
<1> QED
  BY <1>1, <1>3, <1>4 DEF RInv, BreakerMeansAJump, Breaker, BreakerHolds, CapOnlyByRace

\* The executor's steps.
LEMMA ExecutorStep ==
  ASSUME RInv, (\E m \in Collateral : FindExitPool(m)) \/ ExecutorWork
  PROVE  RInv'
<1>1. CASE \E m \in Collateral : FindExitPool(m)
  <2>1. PICK m \in Collateral : FindExitPool(m)
    BY <1>1
  <2>2. vol[m] # NoVol
    BY <2>1 DEF FindExitPool, ExitPools, RInv, Fed
  <2>3. /\ exPc' = "breaker" /\ exMint' = m
        /\ UNCHANGED <<vol, tracked, monAt, monMsg, exCapped, raced, jumped>>
    BY <2>1 DEF FindExitPool, monVars
  <2> QED
    BY <2>2, <2>3 DEF RInv, Typed, VolTyped, MonTyped, ExTyped, Fed, BreakerMeansAJump,
                      Breaker, BreakerHolds, CapOnlyByRace
<1>2. CASE CheckBreaker
  <2>1. UNCHANGED <<vol, tracked, monAt, monMsg, jumped>> /\ raced' = FALSE
        /\ exPc = "breaker"
    BY <1>2 DEF CheckBreaker, monVars
  <2>2. \/ exPc' = "idle" /\ exCapped' = FALSE
        \/ exPc' = "haircut" /\ ~Breaker(exMint) /\ UNCHANGED <<exMint, exCapped>>
    BY <1>2 DEF CheckBreaker, ExecutorDone
  <2> QED
    BY <2>1, <2>2 DEF RInv, Typed, VolTyped, MonTyped, ExTyped, Fed, BreakerMeansAJump,
                      Breaker, BreakerHolds, CapOnlyByRace
<1>3. CASE ReadHaircut
  <2>1. /\ UNCHANGED <<vol, tracked, monAt, monMsg, exMint, raced, jumped>>
        /\ exPc = "haircut" /\ exPc' = "priced"
        /\ exCapped' \in BOOLEAN
        /\ exCapped' => Haircut(vol[exMint].var) = HaircutCap
    BY <1>3 DEF ReadHaircut, monVars
  <2>2. exMint \in Mints
    BY <2>1, RiskAssumption DEF RInv, Typed, ExTyped
  <2>3. ASSUME ~raced, exCapped' PROVE FALSE
    <3>1. vol[exMint] \in Vol
      BY <2>1, <2>2 DEF RInv, Typed, VolTyped, Fed
    <3>2. ~(vol[exMint].var > Square(BreakerSigma))
      BY <2>1, <2>2, <2>3 DEF RInv, Fed, BreakerHolds, Breaker
    <3>3. vol[exMint].var \in Nat /\ vol[exMint].var <= Square(BreakerSigma)
      BY <3>1, <3>2 DEF Vol, Square, BreakerSigma
    <3>4. Haircut(vol[exMint].var) < HaircutCap
      BY <3>3, HaircutBelowCap
    <3> QED
      BY <2>1, <2>3, <3>4 DEF HaircutCap
  <2>4. CapOnlyByRace'
    BY <2>1, <2>3 DEF CapOnlyByRace
  <2> QED
    BY <2>1, <2>4 DEF RInv, Typed, VolTyped, MonTyped, ExTyped, Fed, BreakerMeansAJump,
                      Breaker, BreakerHolds
<1>4. CASE Return
  <2>1. UNCHANGED <<vol, tracked, monAt, monMsg, jumped>> /\ raced' = FALSE
        /\ exPc' = "idle" /\ exCapped' = FALSE
    BY <1>4 DEF Return, ExecutorDone, monVars
  <2> QED
    BY <2>1 DEF RInv, Typed, VolTyped, MonTyped, ExTyped, Fed, BreakerMeansAJump,
                Breaker, BreakerHolds, CapOnlyByRace
<1> QED
  BY <1>1, <1>2, <1>3, <1>4 DEF ExecutorWork

\* Every step keeps the invariant.
LEMMA StepRInv ==
  ASSUME RInv, [Next]_vars
  PROVE  RInv'
<1>1. ASSUME NEW p \in Pools, NEW price \in Prices[p], PoolDecoded(p, price)
      PROVE  RInv'
  BY <1>1 DEF PoolDecoded, exVars, RInv, Typed, VolTyped, MonTyped, ExTyped, Fed,
              BreakerMeansAJump, Breaker, BreakerHolds, CapOnlyByRace
<1>2. ASSUME NEW p \in Pools, GcEvict(p) PROVE RInv'
  BY <1>2 DEF GcEvict, exVars, RInv, Typed, VolTyped, MonTyped, ExTyped, Fed,
              BreakerMeansAJump, Breaker, BreakerHolds, CapOnlyByRace
<1>3. CASE UNCHANGED vars
  BY <1>3 DEF vars, monVars, exVars, RInv, Typed, VolTyped, MonTyped, ExTyped, Fed,
              BreakerMeansAJump, Breaker, BreakerHolds, CapOnlyByRace
<1> QED
  BY <1>1, <1>2, <1>3, FeedAStep, FeedBStep, InsertStep, ExecutorStep DEF Next, MonitorWork
-----------------------------------------------------------------------------
\* The inductive invariant.
THEOREM RiskInvariant == Spec => []RInv
<1> QED
  BY InitRInv, StepRInv, PTL DEF Spec

\* Types; and no variance exceeds the square of the largest move there was to
\* make.
THEOREM TypeCorrect == Spec => []TypeOK
<1>1. RInv => TypeOK
  BY DEF RInv, Typed, VolTyped, Vol, WithinMoves, MonTyped, ExTyped, TypeOK, MonitorSteps
<1> QED
  BY <1>1, RiskInvariant, PTL

\* No run of moves of at most 8% trips the breaker of a mint, for any prices
\* (BreakerMeansAJump).
THEOREM BreakerNeedsAJump == Spec => []BreakerMeansAJump
<1>1. RInv => BreakerMeansAJump
  BY DEF RInv
<1> QED
  BY <1>1, RiskInvariant, PTL

\* Only an update between the executor's two reads lets it work with the capped
\* haircut (CapOnlyByRace).
THEOREM CapNeedsARace == Spec => []CapOnlyByRace
<1>1. RInv => CapOnlyByRace
  BY DEF RInv, BreakerHolds
<1> QED
  BY <1>1, RiskInvariant, PTL

\* A mint that the executor prices has a volatility (NeverBlind).
THEOREM NeverPricedBlind == Spec => []NeverBlind
<1>1. RInv => NeverBlind
  BY DEF RInv, Fed, NeverBlind
<1> QED
  BY <1>1, RiskInvariant, PTL

\* The price that an update of m feeds.
FedPrice(m) == IF TokenA[monMsg.pool] = m THEN monMsg.price ELSE -monMsg.price

\* An update that finds the price of m where it was lowers its variance.
CoolsAtRest(m) ==
  FedWith(m) /\ FedPrice(m) = vol[m].last =>
    /\ 100 * vol'[m].var <= 94 * vol[m].var
    /\ vol[m].var > 0 => vol'[m].var < vol[m].var

\* Only an update whose move, squared, is above the variance of m raises it.
RisesByMove(m) ==
  vol'[m].var > vol[m].var =>
    FedWith(m) /\ Square(FedPrice(m) - vol[m].last) > vol[m].var

\* Every update that finds the price of a mint where it was takes its variance
\* down by 6% at least, so that none is lost on the way below the breaker; and
\* the variance never rises but by an update whose move, squared, is above it
\* (AssetVol::update, risk.rs:29-35).
THEOREM RestingPriceCools ==
  Spec => [][\A m \in Mints : vol[m] # NoVol => CoolsAtRest(m) /\ RisesByMove(m)]_vars
<1>1. ASSUME RInv, [Next]_vars, NEW m \in Mints, vol[m] # NoVol
      PROVE  CoolsAtRest(m) /\ RisesByMove(m)
  <2>1. vol \in [Mints -> Vol \cup {NoVol}] /\ vol[m] \in Vol
    BY <1>1 DEF RInv, Typed, VolTyped
  <2>2. vol[m].var \in Nat /\ vol[m].last \in Int
    BY <2>1 DEF Vol
  <2>3. ASSUME FedWith(m)
        PROVE  /\ FedPrice(m) \in Int
               /\ vol'[m].var =
                    (94 * vol[m].var + 6 * Square(FedPrice(m) - vol[m].last)) \div 100
    <3>1. monAt > 0
      BY <2>3 DEF FedWith, FeedA, FeedB, MonitorAt
    <3>2. monMsg.pool \in Pools /\ monMsg.price \in Int
      BY <1>1, <3>1, PricesFed DEF RInv, Typed, MonTyped
    <3>3. FedPrice(m) \in Int
      BY <3>2 DEF FedPrice
    <3>4. Feed(m, FedPrice(m))
      BY <2>3, <3>2, RiskAssumption DEF FedWith, FeedA, FeedB, FedPrice
    <3>5. vol'[m] = Updated(vol[m], FedPrice(m))
      BY <1>1, <2>1, <3>4 DEF Feed, Entry
    <3> QED BY <3>3, <3>5 DEF Updated
  <2>4. ASSUME ~FedWith(m)
        PROVE  vol'[m] = vol[m]
    <3>1. CASE FeedA
      BY <2>1, <2>4, <3>1 DEF FedWith, FeedA, Feed
    <3>2. CASE FeedB
      BY <2>1, <2>4, <3>2 DEF FedWith, FeedB, Feed
    <3>3. CASE ~FeedA /\ ~FeedB
      <4>1. UNCHANGED vol
        BY <1>1, <3>3 DEF Next, vars, MonitorWork, ExecutorWork, PoolDecoded, GcEvict,
                          FindExitPool, InsertPool, CheckBreaker, ReadHaircut, Return
      <4> QED BY <4>1
    <3> QED BY <3>1, <3>2, <3>3
  <2>5. CoolsAtRest(m)
    <3> SUFFICES ASSUME FedWith(m), FedPrice(m) = vol[m].last
                 PROVE  /\ 100 * vol'[m].var <= 94 * vol[m].var
                        /\ vol[m].var > 0 => vol'[m].var < vol[m].var
      BY DEF CoolsAtRest
    <3>1. Square(FedPrice(m) - vol[m].last) = 0
      BY <2>2 DEF Square
    <3>2. vol'[m].var = (94 * vol[m].var) \div 100
      BY <2>2, <2>3, <3>1
    <3> QED BY <2>2, <3>2
  <2>6. RisesByMove(m)
    <3> SUFFICES ASSUME vol'[m].var > vol[m].var
                 PROVE  FedWith(m) /\ Square(FedPrice(m) - vol[m].last) > vol[m].var
      BY DEF RisesByMove
    <3>1. FedWith(m)
      <4> SUFFICES ASSUME ~FedWith(m) PROVE FALSE
        OBVIOUS
      <4>1. vol'[m].var = vol[m].var
        BY <2>4
      <4> QED BY <2>2, <4>1
    <3>2. Square(FedPrice(m) - vol[m].last) \in Int
      BY <2>2, <2>3, <3>1 DEF Square
    <3>3. vol'[m].var =
            (94 * vol[m].var + 6 * Square(FedPrice(m) - vol[m].last)) \div 100
      BY <2>3, <3>1
    <3>4. Square(FedPrice(m) - vol[m].last) > vol[m].var
      <4> DEFINE v == vol[m].var
                 new == vol'[m].var
                 square == Square(FedPrice(m) - vol[m].last)
      <4>1. v \in Nat /\ square \in Int /\ new = (94 * v + 6 * square) \div 100 /\ new > v
        BY <2>2, <3>2, <3>3
      <4> HIDE DEF v, new, square
      <4>2. square > v
        BY <4>1
      <4> QED BY <4>2 DEF square, v
    <3> QED BY <3>1, <3>4
  <2> QED BY <2>5, <2>6
<1>2. RInv /\ [Next]_vars =>
        [\A m \in Mints : vol[m] # NoVol => CoolsAtRest(m) /\ RisesByMove(m)]_vars
  BY <1>1
<1> QED
  BY <1>2, RiskInvariant, PTL DEF Spec
=============================================================================
