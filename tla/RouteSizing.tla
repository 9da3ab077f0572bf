---------------------------- MODULE RouteSizing -----------------------------
(***************************************************************************)
(* ArbitrageScanner::evaluate_cycle (src/src/strategies/arbitrage.rs): how *)
(* much to put into a route that bellman_ford found.  The route carries    *)
(* copies of its pools; one step of the bisection is one step here.        *)
(***************************************************************************)
EXTENDS PoolQuotes, Sequences, SequencesExt

CONSTANTS
  InputFloor,  \* INPUT_FLOOR, 1_000_000
  InputCap,    \* INPUT_CAP, 10_000_000_000
  InputStep,   \* SIZE_STEP, 1_000
  FeePerHop    \* FEE_PER_HOP, 15_000 lamports

ASSUME SizingAssumption ==
  /\ {InputFloor, InputCap, FeePerHop} \subseteq Nat
  /\ InputFloor <= InputCap
  /\ InputStep \in Nat \ {0}

VARIABLES
  szPc,        \* "idle", "bisect", "signal" or "dropped"
  szRoute,     \* the hops: [pool, aToB]
  szLo, szHi,  \* the bounds of the bisection
  szInput,     \* optimal_input
  szNet        \* net_profit_lamports

szVars == <<szPc, szRoute, szLo, szHi, szInput, szNet>>

SizingIdle ==
  szPc = "idle" /\ szRoute = <<>> /\ szLo = 0 /\ szHi = 0 /\ szInput = 0 /\ szNet = 0

\* route_output: each hop swaps what the one before it paid.
RouteOutput(route, x) == FoldLeft(LAMBDA y, h : PoolQuote(h.pool, h.aToB, y), x, route)

SizingStart(route) ==
  /\ szPc = "idle"
  /\ Len(route) >= 2
  /\ szPc' = "bisect"
  /\ szRoute' = route
  /\ szLo' = InputFloor /\ szHi' = InputCap
  /\ UNCHANGED <<szInput, szNet>>

\* MUTANT of Climbs: `>=` for `>`.
ClimbsOrStalls(route, x) == RouteOutput(route, x + InputStep) >= RouteOutput(route, x)

\* Does one step more of input give more output?
Climbs(route, x) == RouteOutput(route, x + InputStep) > RouteOutput(route, x)

InputBisect ==
  /\ szPc = "bisect"
  /\ szHi - szLo > InputStep
  /\ LET mid == (szLo + szHi) \div 2
     IN  IF Climbs(szRoute, mid) THEN szLo' = mid /\ UNCHANGED szHi
                                 ELSE szHi' = mid /\ UNCHANGED szLo
  /\ UNCHANGED <<szPc, szRoute, szInput, szNet>>

Net(x) == RouteOutput(szRoute, x) - x - Len(szRoute) * FeePerHop

\* evaluate_cycle wants a net gain, scan one above min_profit.
InputFound ==
  /\ szPc = "bisect"
  /\ szHi - szLo <= InputStep
  /\ LET x == (szLo + szHi) \div 2
     IN  /\ szInput' = x
         /\ szNet' = Net(x)
         /\ szPc' = IF Net(x) > 0 /\ Net(x) > MinProfit THEN "signal" ELSE "dropped"
  /\ UNCHANGED <<szRoute, szLo, szHi>>

SizingReturn ==
  /\ szPc \in {"signal", "dropped"}
  /\ szPc' = "idle" /\ szRoute' = <<>>
  /\ szLo' = 0 /\ szHi' = 0 /\ szInput' = 0 /\ szNet' = 0

SizingWork == InputBisect \/ InputFound \/ SizingReturn
-----------------------------------------------------------------------------
(* Properties.                                                             *)

SizingTypeOK ==
  /\ szPc \in {"idle", "bisect", "signal", "dropped"}
  /\ szPc # "idle" => InputFloor <= szLo /\ szLo <= szHi /\ szHi <= InputCap
  /\ szInput \in 0 .. InputCap
  /\ szNet \in Int

\* What the search does find: the place where one SIZE_STEP more of input stops
\* giving more output -- INPUT_CAP if none is below it -- whatever the input
\* costs (arbitrage.rs:214-225).
EndsWhereOutputStalls ==
  szPc \in {"signal", "dropped"} =>
    LET Rises(x) == RouteOutput(szRoute, x) < RouteOutput(szRoute, x + InputStep)
    IN  /\ szHi = InputCap \/ ~Rises(szHi)
        /\ szLo = InputFloor \/ Rises(szLo)
        /\ szInput - szLo <= InputStep /\ szHi - szInput <= InputStep

\* The true move of the square-root price that w makes is within half the cap,
\* plus the basis point that the division of the impact drops.  It is
\* w * sp / (liq * Q64 + w * sp) of the price from a to b, and w * Q64 / (liq * sp)
\* from b to a.  Each branch first rounds the move down by less than one unit of
\* its own: the last summand.
WithinCap(p, aToB, w) ==
  LET half == MaxPriceImpact \div 2 + 1
  IN  IF aToB
        THEN w * p.sp * Bps <= half * (p.liq * Q64 + w * p.sp) + Bps * Q64
        ELSE w * Q64 * Bps <= half * (p.sp * p.liq) + Bps * p.liq

\* No signal rests on a concentrated-liquidity quote past the price impact cap,
\* in either direction, though the search drives every hop to where quotes end
\* (state.rs:132-147, 213-244).
WithinKnownLiquidity ==
  szPc = "signal" =>
    \A i \in DOMAIN szRoute :
      LET p == szRoute[i].pool
          w == (RouteOutput(SubSeq(szRoute, 1, i - 1), szInput) * (Bps - p.fee)) \div Bps
      IN  p.kind = "clmm" => WithinCap(p, szRoute[i].aToB, w)
=============
