------------------------------ MODULE Sandwich ------------------------------
(***************************************************************************)
(* SandwichDetector::evaluate (src/src/strategies/sandwich.rs): filters on *)
(* the victim's swap, a bisection for the size of the front leg, and the   *)
(* profit estimate.  It works on a snapshot of the pool taken at its start.*)
(* One step of the bisection is one step here.                             *)
(***************************************************************************)
EXTENDS PoolQuotes

CONSTANTS
  MinVictimSlip,    \* MIN_VICTIM_SLIP_BPS, 50
  MaxPoolImpact,    \* MAX_POOL_IMPACT_BPS, 200
  MaxVictimImpact,  \* MAX_VICTIM_IMPACT_BPS, 100
  FrontrunStep,     \* SIZE_STEP, 1_000
  FrontrunFloor,    \* FRONTRUN_FLOOR, 100_000
  FeeEstimate       \* FEE_ESTIMATE, 15_000 lamports

ASSUME SandwichAssumption ==
  /\ {MinVictimSlip, MaxPoolImpact, MaxVictimImpact, FrontrunFloor,
      FeeEstimate} \subseteq Nat
  /\ FrontrunStep \in Nat \ {0}

VARIABLES
  saPc,          \* "idle", "bisect", "signal" or "dropped"
  saPool,        \* the snapshot
  saSwap,        \* [aToB, in, min]: the victim's swap
  saLo, saHi,    \* the bounds of the bisection
  saMax,         \* max_frontrun
  saProfit       \* estimated_profit of the signal

saVars == <<saPc, saPool, saSwap, saLo, saHi, saMax, saProfit>>

None == "none"

SandwichIdle ==
  /\ saPc = "idle" /\ saPool = None /\ saSwap = None
  /\ saLo = 0 /\ saHi = 0 /\ saMax = 0 /\ saProfit = 0

\* slippage_bps
SlippageBps(fair, min) ==
  IF fair = 0 THEN 0 ELSE Cap64(Minus(fair, min) * Bps) \div fair

\* The victim's impact, `as u16`.
ImpactBps(p, swap) ==
  LET reserve == IF swap.aToB THEN p.a ELSE p.b
  IN  (Cap64(swap.in * Bps) \div Most(reserve, 1)) % U16

\* MUTANT of Worthwhile: a victim of any size.
WorthwhileAtAnySize(p, swap, smart) ==
  /\ SlippageBps(PoolQuote(p, swap.aToB, swap.in), swap.min) >= MinVictimSlip
  /\ ~smart

\* check_preconditions: the victim leaves room, is not smart, and is small.
Worthwhile(p, swap, smart) ==
  /\ SlippageBps(PoolQuote(p, swap.aToB, swap.in), swap.min) >= MinVictimSlip
  /\ ~smart
  /\ ImpactBps(p, swap) <= MaxVictimImpact

\* vol_scale in percent, for a sigma in percent.
VolScale(sigma) == Most(100 - Least(10 * sigma, 70), 30)

\* max_frontrun is a share of reserve_a, whichever way the victim trades.
MaxFrontrun(p, sigma) ==
  LET share == ((p.a * MaxPoolImpact) % Q64) \div Bps
  IN  (share * VolScale(sigma)) \div 100

\* MUTANT of RoomToSize: the floor is not compared with the maximum.
AlwaysRoom(p, sigma) == TRUE

\* The pool is large enough for the smallest front leg.
RoomToSize(p, sigma) == FrontrunFloor <= MaxFrontrun(p, sigma)

\* A new opportunity: evaluate up to the search.
SandwichStart(p, swap, smart, sigma) ==
  /\ saPc = "idle"
  /\ Worthwhile(p, swap, smart)
  /\ RoomToSize(p, sigma)
  /\ saPc' = "bisect"
  /\ saPool' = p /\ saSwap' = swap
  /\ saLo' = FrontrunFloor
  /\ saHi' = MaxFrontrun(p, sigma)
  /\ saMax' = MaxFrontrun(p, sigma)
  /\ UNCHANGED saProfit

\* What the victim gets after a front leg of f.
VictimOut(p, swap, f) == PoolQuote(AfterSwap(p, swap.aToB, f), swap.aToB, swap.in)

\* MUTANTS of VictimHolds: the victim is quoted on the pool before the front
\* leg; the front leg goes against the victim's direction.
HoldsBefore(f) == PoolQuote(saPool, saSwap.aToB, saSwap.in) >= saSwap.min
HoldsAgainst(f) ==
  PoolQuote(AfterSwap(saPool, ~saSwap.aToB, f), saSwap.aToB, saSwap.in) >= saSwap.min

VictimHolds(f) == VictimOut(saPool, saSwap, f) >= saSwap.min

\* MUTANT of Wide: until the bounds meet, which they never do.
ApartAtAll == saHi # saLo

\* hi - lo > SIZE_STEP
Wide == saHi - saLo > FrontrunStep

FrontrunBisect ==
  /\ saPc = "bisect"
  /\ Wide
  /\ LET mid == (saLo + saHi) \div 2
     IN  IF VictimHolds(mid) THEN saLo' = mid /\ UNCHANGED saHi
                             ELSE saHi' = mid /\ UNCHANGED saLo
  /\ UNCHANGED <<saPc, saPool, saSwap, saMax, saProfit>>

\* simulate_profit: front leg, victim, back leg.
SimulatedProfit(p, swap, f) ==
  LET bought == PoolQuote(p, swap.aToB, f)
      after  == AfterSwap(AfterSwap(p, swap.aToB, f), swap.aToB, swap.in)
  IN  PoolQuote(after, ~swap.aToB, bought) - f - FeeEstimate

\* The size is saLo; a profit below min_profit is dropped.
FrontrunSized ==
  /\ saPc = "bisect"
  /\ ~Wide
  /\ LET profit == SimulatedProfit(saPool, saSwap, saLo)
     IN  /\ saPc' = IF profit >= MinProfit THEN "signal" ELSE "dropped"
         /\ saProfit' = profit
  /\ UNCHANGED <<saPool, saSwap, saLo, saHi, saMax>>

\* evaluate returns; its locals are gone.
SandwichReturn ==
  /\ saPc \in {"signal", "dropped"}
  /\ saPc' = "idle" /\ saPool' = None /\ saSwap' = None
  /\ saLo' = 0 /\ saHi' = 0 /\ saMax' = 0 /\ saProfit' = 0

SandwichWork == FrontrunBisect \/ FrontrunSized \/ SandwichReturn
-----------------------------------------------------------------------------
(* Properties.                                                             *)

SandwichTypeOK ==
  /\ saPc \in {"idle", "bisect", "signal", "dropped"}
  /\ saPc # "idle" => /\ FrontrunFloor <= saLo /\ saLo <= saHi
                      /\ saHi <= saMax
                      /\ saMax < Q64

\* "binary search the largest frontrun that won't revert the victim"
\* (sandwich.rs:115): the size that comes out leaves the victim its minimum,
\* and no size more than a step larger does.  The one exception is a result
\* equal to FRONTRUN_FLOOR, which the search returns without having tried it
\* (see FrontrunKeepsVictim).
FrontrunIsLargest ==
  saPc \in {"signal", "dropped"} =>
    /\ VictimOut(saPool, saSwap, saLo) >= saSwap.min \/ saLo = FrontrunFloor
    /\ \A f \in saLo + FrontrunStep + 1 .. saMax :
         VictimOut(saPool, saSwap, f) < saSwap.min

\* What the chain does with the legs of execute_sandwich (executor.rs:306-313)
\* around the victim: always a to b and back, and a victim whose minimum is not
\* met fails and moves nothing.
Realized(p, swap, f) ==
  LET bought == PoolQuote(p, TRUE, f)
      front  == AfterSwap(p, TRUE, f)
      after  == IF PoolQuote(front, swap.aToB, swap.in) >= swap.min
                  THEN AfterSwap(front, swap.aToB, swap.in) ELSE front
  IN  PoolQuote(after, FALSE, bought) - f - FeeEstimate

\* The profit of a signal is what the executor's bundle earns if it lands around
\* the victim on the pool that was read: simulation, sizing and the legs agree.
\* Exempt are victims that trade b to a, whose direction the legs ignore, and
\* the untried floor (see FrontrunKeepsVictim).
ProfitIsReal ==
  (saPc = "signal" /\ saSwap.aToB /\ saLo # FrontrunFloor) =>
    saProfit = Realized(saPool, saSwap, saLo)

\* All a signal earns is taken from the victim: without its swap, buying and
\* selling back on the same pool gains nothing, however the divisions round
\* (sandwich.rs:103-113, state.rs:180-200).
NoVictimNoGain ==
  saPc = "signal" =>
    LET bought == PoolQuote(saPool, saSwap.aToB, saLo)
        front  == AfterSwap(saPool, saSwap.aToB, saLo)
    IN  PoolQuote(front, ~saSwap.aToB, bought) <= saLo

\* No signal makes its victim revert, though the search may return a floor that
\* it never tried: what the smallest front leg takes from a victim within the
\* impact limit does not pay for the three transactions, and the profit filter
\* drops it (sandwich.rs:17-21, 64, 126).  Exempt are victims whose impact does
\* not fit its integers: the filter may let them through at any size.
FrontrunKeepsVictim ==
  LET reserve == IF saSwap.aToB THEN saPool.a ELSE saPool.b
      fits    == saSwap.in * Bps < U16 * reserve /\ saSwap.in * Bps < Q64
  IN  saPc = "signal" /\ fits => VictimHolds(saLo)
=============================================================================
