----------------------------- MODULE SmartMoney -----------------------------
(***************************************************************************)
(* SmartMoneyClassifier (src/src/smart_money.rs): a profile per wallet,    *)
(* fed by the monitor with every transaction of the stream, asked by the   *)
(* sandwich detector.  Scores are in hundredths.  Time is a flag of the    *)
(* profile: whether last_seen is within PROFILE_WINDOW.                    *)
(***************************************************************************)
EXTENDS Integers, FiniteSets

CONSTANTS
  Wallets,
  NoProfile,    \* the wallet is not in the map
  DefaultPool,  \* Pubkey::default()
  MaxProfiles,  \* MAX_PROFILES, 50_000
  MinObs,       \* MIN_OBS, 3
  SmThreshold,  \* SM_THRESHOLD in hundredths, 65
  Units,        \* compute units a transaction may use, in thousands
  MaxTx         \* bound of the model: transactions of a wallet

ASSUME ClassifierAssumption ==
  /\ IsFiniteSet(Wallets)
  /\ {MaxProfiles, MinObs, SmThreshold} \subseteq Nat
  /\ MaxTx \in Nat \ {0}
  /\ Units \subseteq Nat
  /\ NoProfile \notin [tx : Nat, ok : Nat, pools : SUBSET {DefaultPool}, cu : Nat,
                      first : Nat, arb : Nat, fresh : BOOLEAN]

VARIABLE profiles

Known == {w \in Wallets : profiles[w] # NoProfile}

\* Profile::new
NewProfile == [tx |-> 0, ok |-> 0, pools |-> {}, cu |-> 0, first |-> 0, arb |-> 0,
               fresh |-> TRUE]

Init == profiles = [w \in Wallets |-> NoProfile]

One(b) == IF b THEN 1 ELSE 0

\* MUTANT of Recorded: one hit per aggregator the transaction names.
RecordedPerProgram(p, ok, pool, cu, first, arb) ==
  [p EXCEPT !.tx = @ + 1, !.ok = @ + One(ok), !.pools = @ \cup {pool}, !.cu = @ + cu,
            !.first = @ + One(first), !.arb = @ + 2 * One(arb), !.fresh = TRUE]

\* Profile::record
Recorded(p, ok, pool, cu, first, arb) ==
  [tx |-> p.tx + 1, ok |-> p.ok + One(ok), pools |-> p.pools \cup {pool},
   cu |-> p.cu + cu, first |-> p.first + One(first), arb |-> p.arb + One(arb),
   fresh |-> TRUE]

\* MUTANTS of Retained: clear() for retain(); the map is left alone.
RetainedNone == [w \in Wallets |-> NoProfile]
RetainedAll == profiles

\* At the limit the stale profiles leave.
Retained ==
  IF Cardinality(Known) >= MaxProfiles
    THEN [w \in Wallets |->
            IF w \in Known /\ profiles[w].fresh THEN profiles[w] ELSE NoProfile]
    ELSE profiles

\* observe_tx
ObserveTx(w, ok, pool, cu, first, arb) ==
  LET before == IF Retained[w] = NoProfile THEN NewProfile ELSE Retained[w]
  IN  profiles' = [Retained EXCEPT ![w] = Recorded(before, ok, pool, cu, first, arb)]

\* MUTANT of FedPools: the pools a transaction touches are passed on.
RealPools == {"p1", "p2"}

\* The monitor passes Pubkey::default() as the pool.
FedPools == {DefaultPool}

\* feed_smart_money_classifier: is_first is always false.
FeedClassifier(w) ==
  /\ profiles[w] # NoProfile => profiles[w].tx < MaxTx
  /\ \E ok, arb \in BOOLEAN, pool \in FedPools, cu \in Units :
       ObserveTx(w, ok, pool, cu, FALSE, arb)

\* PROFILE_WINDOW passes without a transaction of w.
WindowPasses(w) ==
  /\ w \in Known
  /\ profiles' = [profiles EXCEPT ![w].fresh = FALSE]

\* Does n make up at least percent of the total?
Rate(n, total, percent) == 100 * n >= percent * total

\* The five parts of Profile::score.
SuccessPart(p) == IF Rate(p.ok, p.tx, 95) THEN 30 ELSE IF Rate(p.ok, p.tx, 80) THEN 15 ELSE 0
PoolsPart(p) == LET n == Cardinality(p.pools) IN IF n >= 4 THEN 25 ELSE IF n >= 2 THEN 12 ELSE 0
UnitsPart(p) == IF p.cu < 120 * p.tx /\ p.cu > 10 * p.tx THEN 20
                ELSE IF p.cu < 180 * p.tx THEN 8 ELSE 0
TimingPart(p) == IF Rate(p.first, p.tx, 30) THEN 15 ELSE IF Rate(p.first, p.tx, 10) THEN 7 ELSE 0
ArbPart(p) == IF Rate(p.arb, p.tx, 50) THEN 10 ELSE 0

Score(p) ==
  IF p.tx = 0 THEN 0
  ELSE SuccessPart(p) + PoolsPart(p) + UnitsPart(p) + TimingPart(p) + ArbPart(p)

\* is_smart_money: with few transactions the bar is higher.
IsSmartMoney(w) ==
  /\ w \in Known
  /\ profiles[w].fresh
  /\ Score(profiles[w]) > IF profiles[w].tx < MinObs THEN SmThreshold + 15 ELSE SmThreshold

Next == \E w \in Wallets : FeedClassifier(w) \/ WindowPasses(w)

Spec == Init /\ [][Next]_profiles
-----------------------------------------------------------------------------
(* Properties.                                                             *)

TypeOK ==
  \A w \in Known :
    LET p == profiles[w]
    IN  /\ p.tx \in 1 .. MaxTx
        /\ {p.ok, p.first, p.arb} \subseteq 0 .. p.tx
        /\ p.cu \in Nat /\ p.fresh \in BOOLEAN
        /\ Cardinality(p.pools) <= p.tx

\* The classifier never classifies: with what the monitor feeds it, no sequence
\* of transactions lifts a wallet's score over the threshold, so the toxic-flow
\* filter (smart_money.rs:1-2, sandwich.rs:90) lets everybody through.
NobodyIsSmart == \A w \in Wallets : ~IsSmartMoney(w)

\* Making room at MAX_PROFILES costs nothing that counts: a wallet seen within
\* the window keeps its counters, whoever is observed meanwhile, and the map
\* grows past the limit only by wallets seen within the window.
ActiveRemembered ==
  [][/\ \A w \in Known :
          profiles[w].fresh => profiles'[w] # NoProfile /\ profiles'[w].tx >= profiles[w].tx
     /\ LET known == {w \in Wallets : profiles'[w] # NoProfile}
            n     == Cardinality(known)
        IN  n > MaxProfiles /\ n > Cardinality(Known) =>
              \A w \in known : profiles'[w].fresh]_profiles
=============================================================================
