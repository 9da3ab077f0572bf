----------------------------- MODULE PoolQuotes -----------------------------
(***************************************************************************)
(* The quotes of a PoolState (src/src/state.rs) and the pool after a swap  *)
(* as the sandwich detector computes it (strategies/sandwich.rs), in       *)
(* integers as wide as the code's.                                         *)
(*                                                                         *)
(* A constant-product pool is [kind |-> "cp", a, b, fee], its reserves and *)
(* its fee; a concentrated one is [kind |-> "clmm", sp, liq, fee], the     *)
(* square root of its price in units of 1/Q64, and its liquidity.          *)
(***************************************************************************)
EXTENDS Scales

CONSTANT MaxPriceImpact  \* MAX_PRICE_IMPACT_BPS, 200

ASSUME QuotesAssumption == MaxPriceImpact \in Nat

\* PoolState: what the decoders make of an account.  They set fees of 25 and 30
\* basis points, and for a whirlpool at most 655.
CpPool == [kind : {"cp"}, a : 0 .. Q64 - 1, b : 0 .. Q64 - 1, fee : 0 .. Bps]
ClmmPool ==
  [kind : {"clmm"}, sp : 0 .. Q64 * Q64 - 1, liq : 0 .. Q64 * Q64 - 1, fee : 0 .. Bps]

\* MUTANT of Quote: at the price before the swap.
QuoteAtSpot(rIn, rOut, fee, x) ==
  IF rIn = 0 THEN 0 ELSE ((x * (Bps - fee) * rOut) % (Q64 * Q64)) \div (rIn * Bps)

\* What a swap of x against reserves rIn and rOut pays.  The product may wrap
\* in 128 bits (2^128 is Q64 squared); the rest fits.
Quote(rIn, rOut, fee, x) ==
  LET inWithFee == x * (Bps - fee)
      den       == rIn * Bps + inWithFee
  IN  IF den = 0 THEN 0 ELSE ((inWithFee * rOut) % (Q64 * Q64)) \div den

\* MUTANT of PriceImpact: the impact on the square root of the price.
RootImpact(sp, new) == (Most(sp - new, new - sp) * Bps) \div Most(sp, 1)

\* price_impact_bps
PriceImpact(sp, new) ==
  2 * ((Most(sp - new, new - sp) * Bps) \div Most(sp, 1))

\* quote_clmm, direction a to b: a product past 128 bits, no movement or too
\* much of it give 0.
ClmmAToB(p, w) ==
  LET product == w * p.sp
      num     == p.liq * p.sp
      new     == num \div (p.liq + product \div Q64)
      refused == \/ product >= Q64 * Q64
                 \/ num >= Q64 * Q64
                 \/ new >= p.sp
                 \/ PriceImpact(p.sp, new) > MaxPriceImpact
  IN  IF refused THEN 0 ELSE (p.liq * (p.sp - new)) \div Q64

\* quote_clmm, direction b to a.  The new price itself fits 128 bits, and so does
\* its impact, as long as the liquidity is above 2^14.  Two products must stay
\* below 2^128: that of liq * (new - sp) with Q64, and that of the two prices.
ClmmBToA(p, w) ==
  LET new     == p.sp + (w * Q64) \div p.liq
      moved   == p.liq * (new - p.sp)
      refused == \/ w >= Q64
                 \/ PriceImpact(p.sp, new) > MaxPriceImpact
                 \/ moved >= Q64
                 \/ p.sp * new >= Q64 * Q64
  IN  IF refused THEN 0 ELSE Cap64((moved * Q64) \div (p.sp * new))

QuoteClmm(p, x, aToB) ==
  LET w == (x * (Bps - p.fee)) \div Bps
  IN  IF w = 0 \/ p.liq = 0 \/ p.sp = 0 THEN 0
      ELSE IF aToB THEN ClmmAToB(p, w) ELSE ClmmBToA(p, w)

\* quote_a_to_b and quote_b_to_a.
PoolQuote(p, aToB, x) ==
  IF p.kind = "clmm" THEN QuoteClmm(p, x, aToB)
  ELSE IF aToB THEN Quote(p.a, p.b, p.fee, x)
               ELSE Quote(p.b, p.a, p.fee, x)

\* SandwichDetector::apply_swap, on a constant-product pool.
AfterSwap(p, aToB, x) ==
  LET out == PoolQuote(p, aToB, x)
  IN  IF aToB
        THEN [p EXCEPT !.a = Cap64(@ + x), !.b = Minus(@, out)]
        ELSE [p EXCEPT !.b = Cap64(@ + x), !.a = Minus(@, out)]
=============================================================================
