----------------------------- MODULE Strategies -----------------------------
(***************************************************************************)
(* StrategyEngine::process and sweep_liquidations (src/src/strategies/     *)
(* mod.rs): the strategy task works on one opportunity at a time.  What it *)
(* reads of the tables, of the risk engine and of the classifier is read   *)
(* once, at the start of an evaluation, and is anything they can hold.     *)
(*                                                                         *)
(* An opportunity that a first filter turns down changes nothing and is no *)
(* step here.                                                              *)
(***************************************************************************)
EXTENDS Sandwich, RouteSizing, Liquidation

CONSTANTS
  TradedPools,  \* pools a victim may be trading on (constant product)
  Victims,      \* their swaps: [aToB, in, min]
  Sigmas,       \* sigma_for of the pool's mint, in percent
  Routes,       \* routes bellman_ford may return
  Accounts      \* obligation accounts

\* Amounts are u64s; sigma_for is a square root.
ASSUME StrategiesAssumption ==
  /\ TradedPools \subseteq CpPool
  /\ Victims \subseteq [aToB : BOOLEAN, in : 0 .. Q64 - 1, min : 0 .. Q64 - 1]
  /\ Sigmas \subseteq Nat
  /\ Routes \subseteq Seq([pool : CpPool \cup ClmmPool, aToB : BOOLEAN])
  /\ IsFiniteSet(OblKeys)

\* What the lending programs store: an unhealthy borrow value is a share of the
\* deposits, and a debt is less than 18 billion dollars (2^64 / Nano).
ASSUME AccountsAssumption ==
  /\ Accounts \subseteq [protocol : {"solend", "kamino"}, coll : Nat, borrow : Nat,
                         unhealthy : Nat, reserves : BOOLEAN]
  /\ \A acc \in Accounts : acc.unhealthy <= acc.coll /\ acc.borrow < Q64

vars == <<saVars, szVars, liVars>>

Init == SandwichIdle /\ SizingIdle /\ LiquidationIdle

Idle == saPc = "idle" /\ szPc = "idle" /\ liPc = "idle"

Tables == [OblKeys -> Accounts \cup {NoObl}]

\* Opportunity::PendingSwap
ProcessSwap ==
  /\ Idle
  /\ \E p \in TradedPools, swap \in Victims, smart \in BOOLEAN, sigma \in Sigmas :
       SandwichStart(p, swap, smart, sigma)
  /\ UNCHANGED <<szVars, liVars>>

\* Opportunity::PoolUpdated, once bellman_ford has a route.
ProcessPool ==
  /\ Idle
  /\ \E route \in Routes : SizingStart(route)
  /\ UNCHANGED <<saVars, liVars>>

\* Opportunity::ObligationUpdated
ProcessObligation ==
  /\ Idle
  /\ \E t \in Tables, k \in OblKeys : LiquidationEvaluate(t, k)
  /\ UNCHANGED <<saVars, szVars>>

SweepLiquidations ==
  /\ Idle
  /\ \E t \in Tables : LiquidationSweep(t)
  /\ UNCHANGED <<saVars, szVars>>

EngineWork ==
  \/ SandwichWork      /\ UNCHANGED <<szVars, liVars>>
  \/ SizingWork        /\ UNCHANGED <<saVars, liVars>>
  \/ LiquidationReturn /\ UNCHANGED <<saVars, szVars>>

Next ==
  \/ ProcessSwap \/ ProcessPool \/ ProcessObligation \/ SweepLiquidations
  \/ EngineWork

\* The strategy task goes on with what it has begun.
Spec == Init /\ [][Next]_vars /\ WF_vars(EngineWork)
-----------------------------------------------------------------------------
(* Properties.                                                             *)

TypeOK ==
  /\ SandwichTypeOK /\ SizingTypeOK /\ LiquidationTypeOK
  /\ Cardinality({v \in {<<1, saPc>>, <<2, szPc>>, <<3, liPc>>} : v[2] # "idle"}) <= 1

\* Every evaluation ends: both bisections close in on a step and stop, so no
\* pool, route or swap can keep the strategy task from the next opportunity.
EvaluationEnds == ~Idle ~> Idle
=============================================================================
