---------------------------- MODULE Liquidation -----------------------------
(***************************************************************************)
(* LiquidationScanner (src/src/strategies/liquidation.rs), with the health *)
(* of an ObligationState (state.rs) and the decoders that fill one in      *)
(* (monitor.rs).  The two entry points read OBLIGATIONS in one step:       *)
(* evaluate a single entry, scan_all a copy of them all.                   *)
(*                                                                         *)
(* An account is what the lending program stores: [protocol, coll, borrow, *)
(* unhealthy, reserves], its values in 1/Nano dollars, reserves telling if *)
(* it names a deposit and a borrow reserve.                                *)
(***************************************************************************)
EXTENDS Scales, FiniteSets, Sequences, Functions

CONSTANTS
  OblKeys,  \* obligation accounts
  NoObl,    \* not in the table, or not decodable
  Nano      \* 1_000_000_000

ASSUME LiquidationAssumption == Nano \in Nat \ {0}

VARIABLES
  liPc,     \* "idle", "evaluated" or "swept"
  liTable,  \* the accounts behind the entries that were read
  liFound   \* the opportunities returned, in order

liVars == <<liPc, liTable, liFound>>

LiquidationIdle ==
  liPc = "idle" /\ liTable = [k \in OblKeys |-> NoObl] /\ liFound = <<>>

\* 8500, where the decoders know no better.
DefaultThreshold == (17 * Bps) \div 20

\* MUTANT of Threshold: a flat guess for Solend, too.
FlatThreshold(acc) == DefaultThreshold

Threshold(acc) ==
  IF acc.protocol = "kamino" \/ acc.coll = 0 THEN DefaultThreshold
  ELSE Cap16((acc.unhealthy * Bps) \div acc.coll)

\* decode_solend_obligation keeps the values in WAD, decode_kamino_obligation
\* scales dollars by 1e9.
Decoded(acc) ==
  IF acc = NoObl \/ ~acc.reserves THEN NoObl
  ELSE LET scale == IF acc.protocol = "solend" THEN Nano ELSE 1
       IN  [protocol |-> acc.protocol, thr |-> Threshold(acc),
            coll |-> acc.coll * scale, borrow |-> acc.borrow * scale]

\* ltv_bps and is_underwater.
Ltv(o) == IF o.coll = 0 THEN U16 - 1 ELSE Cap16((o.borrow * Bps) \div o.coll)

Underwater(o) == o # NoObl /\ Ltv(o) >= o.thr

\* MUTANT of KaminoCloseFactor: an insolvent obligation is closed by half.
HalfWhenInsolvent(o) ==
  IF Ltv(o) >= Bps THEN Bps \div 2
  ELSE Bps \div 5 + (Minus(Ltv(o), o.thr) * ((4 * Bps) \div 5)) \div Most(Minus(Bps, o.thr), 1)

\* From 20% at the threshold to 100% at insolvency.
KaminoCloseFactor(o) ==
  IF Ltv(o) >= Bps THEN Bps
  ELSE Least(Bps, Bps \div 5 + (Minus(Ltv(o), o.thr) * ((4 * Bps) \div 5))
                                 \div Most(Minus(Bps, o.thr), 1))

CloseFactor(o) ==
  IF o.protocol = "kamino" THEN KaminoCloseFactor(o) ELSE Bps \div 2

BonusBps(o) ==
  LET excess == Minus(Ltv(o), o.thr)
  IN  IF o.protocol # "kamino" THEN Bps \div 20
      ELSE IF excess > Bps \div 10 THEN (3 * Bps) \div 20
      ELSE IF excess > Bps \div 20 THEN Bps \div 10
      ELSE (7 * Bps) \div 100

\* build_opportunity; no risk adjustment, so the effective profit is the gross.
Opportunity(k, o) ==
  LET repay == (((o.borrow * CloseFactor(o)) \div Bps) \div Nano) % Q64
  IN  [key |-> k, repay |-> repay, gross |-> ((repay * BonusBps(o)) % Q64) \div Bps]

\* evaluate
Evaluated(t, k) ==
  LET o == Decoded(t[k])
  IN  IF Underwater(o) /\ Opportunity(k, o).gross >= MinProfit
        THEN <<Opportunity(k, o)>> ELSE <<>>

\* The opportunities that scan_all keeps.
WorthSweeping(t) ==
  {opp \in {Opportunity(k, Decoded(t[k])) :
              k \in {x \in OblKeys : Underwater(Decoded(t[x]))}} :
     opp.gross >= MinProfit}

\* scan_all: the lists of them, best profit first.  Equal profits stay in the order
\* in which the map was copied, which is any.
Swept(t) ==
  {s \in Bijection(1 .. Cardinality(WorthSweeping(t)), WorthSweeping(t)) :
     \A i, j \in DOMAIN s : i < j => s[i].gross >= s[j].gross}

LiquidationEvaluate(t, k) ==
  /\ liPc = "idle"
  /\ liPc' = "evaluated"
  /\ liTable' = t
  /\ liFound' = Evaluated(t, k)

LiquidationSweep(t) ==
  /\ liPc = "idle"
  /\ liPc' = "swept"
  /\ liTable' = t
  /\ liFound' \in Swept(t)

LiquidationReturn ==
  /\ liPc # "idle"
  /\ liPc' = "idle" /\ liTable' = [k \in OblKeys |-> NoObl] /\ liFound' = <<>>
-----------------------------------------------------------------------------
(* Properties.                                                             *)

LiquidationTypeOK ==
  /\ liPc \in {"idle", "evaluated", "swept"}
  /\ Len(liFound) <= IF liPc = "evaluated" THEN 1 ELSE Cardinality(OblKeys)
  /\ \A i \in DOMAIN liFound : liFound[i].key \in OblKeys
  /\ liPc = "idle" => liFound = <<>>

\* What the scanner reports agrees with Solend's own test on the account, borrowed
\* >= unhealthy, which decoder and health test reduce to two roundings in basis
\* points: the sweep passes over no obligation in danger that is worth its while,
\* and none is ever reported that is healthy by more than one basis point of its
\* collateral (monitor.rs:454-462, state.rs:271-280, liquidation.rs:51-81).
\* Obligations whose deposits are worth nothing are exempt: they always count as
\* underwater.
Reported(k) == \E i \in DOMAIN liFound : liFound[i].key = k

DangerIsSeen ==
  \A k \in OblKeys :
    LET acc == liTable[k]
    IN  (Decoded(acc) # NoObl /\ acc.coll > 0 /\ acc.protocol = "solend") =>
          /\ (/\ liPc = "swept"
              /\ acc.borrow >= acc.unhealthy
              /\ Opportunity(k, Decoded(acc)).gross >= MinProfit) => Reported(k)
          /\ Reported(k) => acc.borrow * Bps + acc.coll > acc.unhealthy * Bps

\* Close factor and bonus fit together: of two obligations of one protocol with
\* the same collateral and threshold, the one that owes more is repaid no less
\* and pays no less, and nobody is repaid more than is owed
\* (liquidation.rs:88-96, 121-149).  Exempt from the second are debts whose repay
\* amount times the bonus does not fit 64 bits.
RepayFollowsDebt ==
  \A j, k \in OblKeys :
    LET x == Decoded(liTable[j])
        y == Decoded(liTable[k])
    IN  (/\ Underwater(x) /\ Underwater(y)
         /\ x.protocol = y.protocol /\ x.coll = y.coll /\ x.thr = y.thr
         /\ x.borrow <= y.borrow) =>
          /\ Opportunity(j, x).repay <= Opportunity(k, y).repay
          /\ \/ Opportunity(j, x).gross <= Opportunity(k, y).gross
             \/ Opportunity(k, y).repay * BonusBps(y) >= Q64
          /\ Opportunity(k, y).repay * Nano <= y.borrow
=============================================================================
