-------------------------- MODULE SmartMoneyProofs --------------------------
(***************************************************************************)
(* Proofs about SmartMoney for any finite set of wallets, any limit on the *)
(* profiles, any window and any compute units.                             *)
(*                                                                         *)
(* The argument for NobodyIsSmart: a profile fed by the monitor has at     *)
(* most one pool and no first move, so two of the five parts of its score  *)
(* are zero, and the other three add up to 60.                             *)
(***************************************************************************)
EXTENDS SmartMoney, FiniteSetTheorems, TLAPS

Profile == [tx : Nat, ok : Nat, pools : SUBSET FedPools, cu : Nat, first : Nat,
            arb : Nat, fresh : BOOLEAN]

\* What the monitor's calls make of a profile.
Fed(p) ==
  /\ p \in Profile
  /\ p.tx \in 1 .. MaxTx
  /\ p.ok <= p.tx
  /\ p.first = 0
  /\ p.arb <= p.tx

PInv ==
  /\ profiles \in [Wallets -> Profile \cup {NoProfile}]
  /\ \A w \in Known : Fed(profiles[w])

-----------------------------------------------------------------------------
\* There is one pool that the monitor names.
LEMMA OnePool ==
  ASSUME NEW S \in SUBSET FedPools
  PROVE  Cardinality(S) \in {0, 1}
<1>1. IsFiniteSet(FedPools) /\ Cardinality(FedPools) = 1
  BY FS_Singleton DEF FedPools
<1>2. IsFiniteSet(S) /\ Cardinality(S) <= Cardinality(FedPools)
  BY <1>1, FS_Subset
<1> QED
  BY <1>1, <1>2, FS_CardinalityType

\* No profile that the monitor fed scores more than 60.
LEMMA ScoreOfFed ==
  ASSUME NEW p, Fed(p)
  PROVE  Score(p) \in Int /\ Score(p) <= 60
<1>1. PoolsPart(p) = 0
  BY OnePool DEF PoolsPart, Fed, Profile
<1>2. p.tx \in Nat \ {0}
  BY ClassifierAssumption DEF Fed
<1>3. TimingPart(p) = 0
  BY <1>2 DEF TimingPart, Rate, Fed
<1>4. SuccessPart(p) \in 0 .. 30
  BY DEF SuccessPart
<1>5. UnitsPart(p) \in 0 .. 20
  BY DEF UnitsPart
<1>6. ArbPart(p) \in 0 .. 10
  BY DEF ArbPart
<1> QED
  BY <1>1, <1>2, <1>3, <1>4, <1>5, <1>6 DEF Score
-----------------------------------------------------------------------------
\* What evicting the stale profiles leaves is in the map as it was.
LEMMA RetainedSome ==
  ASSUME PInv
  PROVE  /\ Retained \in [Wallets -> Profile \cup {NoProfile}]
         /\ \A w \in Wallets : Retained[w] # NoProfile => w \in Known /\ Retained[w] = profiles[w]
BY DEF Retained, PInv, Known

\* One transaction keeps a profile within what the monitor feeds.
LEMMA RecordedFed ==
  ASSUME NEW p, p = NewProfile \/ (Fed(p) /\ p.tx < MaxTx),
         NEW ok \in BOOLEAN, NEW pool \in FedPools, NEW cu \in Units, NEW arb \in BOOLEAN
  PROVE  Fed(Recorded(p, ok, pool, cu, FALSE, arb))
BY ClassifierAssumption DEF Fed, Profile, Recorded, NewProfile, One

\* A transaction fed to the classifier leaves counters that a feed can have left.
LEMMA PInvFeed ==
  ASSUME PInv, NEW w \in Wallets, FeedClassifier(w)
  PROVE  PInv'
<1>1. PICK ok \in BOOLEAN, arb \in BOOLEAN, pool \in FedPools, cu \in Units :
        ObserveTx(w, ok, pool, cu, FALSE, arb)
  BY DEF FeedClassifier
<1> DEFINE before == IF Retained[w] = NoProfile THEN NewProfile ELSE Retained[w]
           after  == Recorded(before, ok, pool, cu, FALSE, arb)
<1>2. profiles' = [Retained EXCEPT ![w] = after]
  BY <1>1 DEF ObserveTx
<1>3. before = NewProfile \/ (Fed(before) /\ before.tx < MaxTx)
  BY RetainedSome DEF PInv, FeedClassifier, Known
<1>4. Fed(after)
  BY <1>3, RecordedFed
<1> HIDE DEF after
<1>5. profiles' \in [Wallets -> Profile \cup {NoProfile}]
  BY <1>2, <1>4, RetainedSome DEF Fed
<1>6. ASSUME NEW v \in Wallets, profiles'[v] # NoProfile PROVE Fed(profiles'[v])
  <2>1. CASE v = w
    BY <2>1, <1>2, <1>4, RetainedSome
  <2>2. CASE v # w
    BY <2>2, <1>2, <1>6, RetainedSome DEF PInv
  <2> QED
    BY <2>1, <2>2
<1> QED
  BY <1>5, <1>6 DEF PInv, Known

\* Time takes only freshness.
LEMMA PInvWindow ==
  ASSUME PInv, NEW w \in Wallets, WindowPasses(w)
  PROVE  PInv'
<1>1. w \in Known /\ Fed(profiles[w])
  BY DEF WindowPasses, PInv
<1> DEFINE stale == [profiles[w] EXCEPT !.fresh = FALSE]
<1>2. Fed(stale)
  BY <1>1 DEF Fed, Profile
<1>3. profiles' = [profiles EXCEPT ![w] = stale]
  BY DEF WindowPasses, PInv
<1> QED
  BY <1>1, <1>2, <1>3 DEF PInv, Known, Fed

\* Every profile is one that the monitor's feed can have filled: no more
\* successes and no more arbitrage calls than transactions, not one first move, and no
\* pool but the default key (monitor.rs:273, smart_money.rs:38-46).  It says nothing
\* of how many profiles there are: a step at a time, ActiveStay does.
THEOREM ProfilesFed == Spec => []PInv
<1>1. Init => PInv
  BY DEF Init, PInv, Known
<1>2. PInv /\ [Next]_profiles => PInv'
  <2>1. ASSUME PInv, UNCHANGED profiles PROVE PInv'
    BY <2>1 DEF PInv, Known
  <2> QED
    BY <2>1, PInvFeed, PInvWindow DEF Next
<1> QED
  BY <1>1, <1>2, PTL DEF Spec

\* Type correctness of the profiles, for every instance.
THEOREM TypeCorrect == Spec => []TypeOK
<1>1. PInv => TypeOK
  <2> SUFFICES ASSUME PInv, NEW w \in Known
               PROVE  LET p == profiles[w]
                      IN  /\ p.tx \in 1 .. MaxTx
                          /\ {p.ok, p.first, p.arb} \subseteq 0 .. p.tx
                          /\ p.cu \in Nat /\ p.fresh \in BOOLEAN
                          /\ Cardinality(p.pools) <= p.tx
    BY DEF TypeOK
  <2>1. Fed(profiles[w])
    BY DEF PInv
  <2>2. Cardinality(profiles[w].pools) \in {0, 1}
    BY <2>1, OnePool DEF Fed, Profile
  <2> QED
    BY <2>1, <2>2, ClassifierAssumption DEF Fed, Profile
<1> QED
  BY <1>1, ProfilesFed, PTL

\* The classifier classifies nobody (NobodyIsSmart) at any threshold of 60 or
\* more; the code's is 65.
THEOREM NobodyEverSmart ==
  ASSUME SmThreshold >= 60
  PROVE  Spec => []NobodyIsSmart
<1>1. PInv => NobodyIsSmart
  <2> SUFFICES ASSUME PInv, NEW w \in Wallets, IsSmartMoney(w)
               PROVE  FALSE
    BY DEF NobodyIsSmart
  <2>1. Score(profiles[w]) \in Int /\ Score(profiles[w]) <= 60
    BY ScoreOfFed DEF IsSmartMoney, PInv
  <2> QED
    BY <2>1, ClassifierAssumption DEF IsSmartMoney
<1> QED
  BY <1>1, ProfilesFed, PTL
-----------------------------------------------------------------------------
\* An action property: what a step does to the profiles of the other wallets
\* and to the size of the map (ActiveRemembered).
LEMMA FeedRemembers ==
  ASSUME PInv, NEW w \in Wallets, FeedClassifier(w)
  PROVE  /\ \A v \in Known : profiles[v].fresh =>
              profiles'[v] # NoProfile /\ profiles'[v].tx >= profiles[v].tx
         /\ Cardinality(Known) >= MaxProfiles =>
              \A v \in Wallets : profiles'[v] # NoProfile => profiles'[v].fresh
         /\ Cardinality(Known) < MaxProfiles =>
              {v \in Wallets : profiles'[v] # NoProfile} = Known \cup {w}
<1>1. PICK ok \in BOOLEAN, arb \in BOOLEAN, pool \in FedPools, cu \in Units :
        ObserveTx(w, ok, pool, cu, FALSE, arb)
  BY DEF FeedClassifier
<1> DEFINE before == IF Retained[w] = NoProfile THEN NewProfile ELSE Retained[w]
           after  == Recorded(before, ok, pool, cu, FALSE, arb)
<1>2. profiles' = [Retained EXCEPT ![w] = after]
  BY <1>1 DEF ObserveTx
<1>3. before = NewProfile \/ (Fed(before) /\ before.tx < MaxTx)
  BY RetainedSome DEF PInv, FeedClassifier, Known
<1>4. after # NoProfile
  <2>1. Fed(after)
    BY <1>3, RecordedFed
  <2> HIDE DEF after
  <2> QED
    BY <2>1, ClassifierAssumption DEF Fed, Profile, FedPools
<1>5. after.fresh /\ after.tx = before.tx + 1
  BY DEF Recorded
<1>6. ASSUME NEW v \in Known, profiles[v].fresh
      PROVE  profiles'[v] # NoProfile /\ profiles'[v].tx >= profiles[v].tx
  <2>1. Retained[v] = profiles[v] /\ profiles[v] # NoProfile /\ v \in Wallets
    BY <1>6 DEF Retained, Known
  <2>2. profiles[v].tx \in Int
    BY DEF PInv, Fed
  <2>3. CASE v = w
    <3>1. profiles'[v] = after
      BY <2>1, <2>3, <1>2, RetainedSome
    <3>2. before = profiles[v]
      BY <2>1, <2>3
    <3> HIDE DEF after, before
    <3> QED
      BY <3>1, <3>2, <2>2, <1>4, <1>5
  <2>4. CASE v # w
    BY <2>1, <2>2, <2>4, <1>2
  <2> QED
    BY <2>3, <2>4
<1>7. ASSUME Cardinality(Known) >= MaxProfiles,
             NEW v \in Wallets, profiles'[v] # NoProfile
      PROVE  profiles'[v].fresh
  BY <1>7, <1>2, <1>5, RetainedSome DEF Retained
<1>8. ASSUME Cardinality(Known) < MaxProfiles
      PROVE  {v \in Wallets : profiles'[v] # NoProfile} = Known \cup {w}
  <2>1. Cardinality(Known) \in Nat
    BY ClassifierAssumption, FS_Subset, FS_CardinalityType DEF Known
  <2>2. Retained = profiles
    BY <2>1, <1>8, ClassifierAssumption DEF Retained
  <2> QED
    BY <2>2, <1>2, <1>4 DEF Known, PInv
<1> QED
  BY <1>6, <1>7, <1>8

\* A wallet active within the window keeps its profile and its count, and the map grows
\* past its limit only with active wallets (observe_tx's retain).
THEOREM ActiveStay == Spec => ActiveRemembered
<1> DEFINE Step ==
      /\ \A w \in Known :
           profiles[w].fresh => profiles'[w] # NoProfile /\ profiles'[w].tx >= profiles[w].tx
      /\ LET known == {w \in Wallets : profiles'[w] # NoProfile}
             n     == Cardinality(known)
         IN  n > MaxProfiles /\ n > Cardinality(Known) =>
               \A w \in known : profiles'[w].fresh
<1>1. ASSUME PInv, NEW w \in Wallets, FeedClassifier(w) PROVE Step
  <2> DEFINE known == {v \in Wallets : profiles'[v] # NoProfile}
  <2>1. IsFiniteSet(Known) /\ Cardinality(Known) \in Nat
    BY ClassifierAssumption, FS_Subset, FS_CardinalityType DEF Known
  <2>2. ASSUME Cardinality(Known) < MaxProfiles PROVE ~(Cardinality(known) > MaxProfiles)
    <3>1. known = Known \cup {w}
      BY <1>1, <2>2, FeedRemembers
    <3>2. Cardinality(known) \in {Cardinality(Known), Cardinality(Known) + 1}
      BY <3>1, <2>1, FS_AddElement
    <3> QED
      BY <3>2, <2>1, <2>2, ClassifierAssumption
  <2> HIDE DEF known
  <2>3. Cardinality(Known) >= MaxProfiles \/ Cardinality(Known) < MaxProfiles
    BY <2>1, ClassifierAssumption
  <2> QED
    BY <1>1, <2>2, <2>3, FeedRemembers DEF known
<1>2. ASSUME PInv, NEW w \in Wallets, WindowPasses(w) PROVE Step
  <2> DEFINE stale == [profiles[w] EXCEPT !.fresh = FALSE]
  <2>1. profiles' = [profiles EXCEPT ![w] = stale] /\ Fed(profiles[w]) /\ w \in Known
    BY <1>2 DEF WindowPasses, PInv
  <2>2. stale \in Profile /\ stale.tx = profiles[w].tx
    BY <2>1 DEF Fed, Profile
  <2>3. stale # NoProfile
    BY <2>2, ClassifierAssumption DEF Profile, FedPools
  <2> HIDE DEF stale
  <2>4. \A v \in Wallets : profiles'[v] # NoProfile <=> profiles[v] # NoProfile
    BY <2>1, <2>3, <1>2 DEF PInv, Known
  <2>5. {v \in Wallets : profiles'[v] # NoProfile} = Known
    BY <2>4 DEF Known
  <2>6. Cardinality(Known) \in Nat
    BY ClassifierAssumption, FS_Subset, FS_CardinalityType DEF Known
  <2>7. \A v \in Known : profiles'[v].tx = profiles[v].tx /\ profiles[v].tx \in Int
    BY <2>1, <2>2, <1>2 DEF PInv, Fed, Profile, Known
  <2>8. \A v \in Known : profiles'[v] # NoProfile /\ profiles'[v].tx >= profiles[v].tx
    BY <2>4, <2>7 DEF Known
  <2> DEFINE known == {v \in Wallets : profiles'[v] # NoProfile}
  <2>9. known = Known
    BY <2>5
  <2> HIDE DEF known
  <2>10. ~(Cardinality(known) > Cardinality(Known))
    BY <2>6, <2>9
  <2> QED
    BY <2>8, <2>10 DEF known
<1>3. PInv /\ Next => Step
  BY <1>1, <1>2 DEF Next
<1> QED
  BY <1>3, ProfilesFed, PTL DEF Spec, ActiveRemembered
=============================================================================
