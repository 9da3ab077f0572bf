---------------------------- MODULE QuoteProofs -----------------------------
(***************************************************************************)
(* What the quotes of PoolQuotes promise, for reserves, fees and amounts   *)
(* of any size: bounds, monotonicity and the loss of a round trip.  The    *)
(* first lemmas are induction over numbers, from the well-foundedness of   *)
(* strict inclusion on finite sets, and the two facts about division that  *)
(* everything else uses.                                                   *)
(***************************************************************************)
EXTENDS PoolQuotes, FiniteSetTheorems, WellFoundedInduction, TLAPS

(* Induction.                                                              *)

\* A set of numbers that is not empty has a least element.
LEMMA LeastOf ==
  ASSUME NEW T \in SUBSET Nat, T # {}
  PROVE  \E m \in T : \A k \in T : m <= k
<1> DEFINE R == StrictSubsetOrdering(Nat)
           TT == {1 .. n : n \in T}
<1>1. IsWellFoundedOn(R, FiniteSubsetsOf(Nat))
  BY FS_StrictSubsetOrderingWellFounded
<1>2. \A n \in T : 1 .. n \in FiniteSubsetsOf(Nat)
  <2> TAKE n \in T
  <2>1. IsFiniteSet(1 .. n)
    BY FS_Interval
  <2> QED BY <2>1 DEF FiniteSubsetsOf
<1>3. TT \subseteq FiniteSubsetsOf(Nat) /\ TT # {}
  BY <1>2
<1>4. \E U \in TT : \A V \in TT : <<V, U>> \notin R
  <2> HIDE DEF R, TT
  <2> QED BY <1>1, <1>3, WFMin
<1>5. PICK m \in T : \A V \in TT : <<V, 1 .. m>> \notin R
  BY <1>4
<1>6. \A k \in T : m <= k
  <2> SUFFICES ASSUME NEW k \in T, k < m PROVE FALSE
    OBVIOUS
  <2>1. 1 .. k \subseteq 1 .. m /\ m \in 1 .. m /\ m \notin 1 .. k
    OBVIOUS
  <2>2. <<1 .. k, 1 .. m>> \in R
    BY <2>1, <1>2 DEF StrictSubsetOrdering, FiniteSubsetsOf
  <2> QED BY <2>2, <1>5
<1> QED BY <1>6

\* Induction up to n: a set that holds 0, and i + 1 whenever it holds i < n,
\* holds 0 .. n.
LEMMA UpTo ==
  ASSUME NEW n \in Nat, NEW S, 0 \in S,
         \A i \in 0 .. n : (i < n /\ i \in S) => i + 1 \in S
  PROVE  0 .. n \subseteq S
<1> DEFINE T == {i \in 0 .. n : i \notin S}
<1> SUFFICES ASSUME T # {} PROVE FALSE
  OBVIOUS
<1>1. PICK m \in T : \A k \in T : m <= k
  <2>1. T \in SUBSET Nat
    OBVIOUS
  <2> QED BY <2>1, LeastOf
<1>2. m \in Nat \ {0} /\ m - 1 \in 0 .. n /\ m - 1 \notin T
  BY <1>1
<1> QED BY <1>2, <1>1

(* Division.                                                               *)

\* A quotient is the whole part: what it leaves over is less than the divisor.
LEMMA DivBounds ==
  ASSUME NEW m \in Nat, NEW d \in Nat \ {0}
  PROVE  /\ m \div d \in Nat
         /\ (m \div d) * d <= m
         /\ m < (m \div d + 1) * d
OBVIOUS

\* A quotient is at least every number whose multiple fits.
LEMMA DivAtLeast ==
  ASSUME NEW m \in Nat, NEW d \in Nat \ {0}, NEW q \in Nat, q * d <= m
  PROVE  q <= m \div d
OBVIOUS

\* A quotient is at most every number whose next multiple does not fit.
LEMMA DivAtMost ==
  ASSUME NEW m \in Nat, NEW d \in Nat \ {0}, NEW q \in Nat, m < (q + 1) * d
  PROVE  m \div d <= q
OBVIOUS

\* Multiplication keeps order.
LEMMA TimesMono ==
  ASSUME NEW x \in Nat, NEW y \in Nat, NEW c \in Nat, x <= y
  PROVE  x * c <= y * c /\ c * x <= c * y
OBVIOUS

\* Division keeps order.
LEMMA DivMono ==
  ASSUME NEW m \in Nat, NEW k \in Nat, NEW d \in Nat \ {0}, m <= k
  PROVE  m \div d <= k \div d
BY DivBounds, DivAtLeast

\* A remainder is no more than what it is the remainder of.
LEMMA ModBounds ==
  ASSUME NEW m \in Nat, NEW d \in Nat \ {0}
  PROVE  m % d \in Nat /\ m % d <= m /\ m % d < d /\ (m < d => m % d = m)
OBVIOUS

\* The product of two numbers is a number, and positive if both are.
LEMMA TimesNat ==
  ASSUME NEW x \in Nat, NEW y \in Nat
  PROVE  x * y \in Nat /\ (x > 0 /\ y > 0 => x * y > 0)
OBVIOUS

(* Constant-product quotes.                                                *)

\* The parts of a quote are numbers.
LEMMA QuoteParts ==
  ASSUME NEW rIn \in Nat, NEW rOut \in Nat, NEW fee \in 0 .. Bps, NEW x \in Nat
  PROVE  /\ Bps - fee \in Nat /\ Bps - fee <= Bps
         /\ x * (Bps - fee) \in Nat
         /\ x * (Bps - fee) * rOut \in Nat
         /\ rIn * Bps \in Nat
         /\ rIn * Bps + x * (Bps - fee) \in Nat
         /\ Q64 * Q64 \in Nat \ {0}
<1>1. Bps \in Nat /\ Q64 \in Nat \ {0}
  BY ScalesAssumption
<1>2. Bps - fee \in Nat /\ Bps - fee <= Bps
  BY <1>1
<1>3. x * (Bps - fee) \in Nat
  BY <1>2, TimesNat
<1>4. x * (Bps - fee) * rOut \in Nat
  BY <1>3, TimesNat
<1>5. rIn * Bps \in Nat
  BY <1>1, TimesNat
<1>6. Q64 * Q64 \in Nat \ {0}
  BY <1>1, TimesNat
<1> QED BY <1>2, <1>3, <1>4, <1>5, <1>6

\* A quote pays no more than the product formula allows, wrapped or not, and so
\* never more than the reserve (state.rs:180-200).
THEOREM QuoteBounds ==
  ASSUME NEW rIn \in Nat, NEW rOut \in Nat, NEW fee \in 0 .. Bps, NEW x \in Nat
  PROVE  LET q == Quote(rIn, rOut, fee, x)
             w == x * (Bps - fee)
         IN  /\ q \in Nat
             /\ q * (rIn * Bps + w) <= w * rOut
             /\ q <= rOut
<1> DEFINE w == x * (Bps - fee)
           den == rIn * Bps + w
           q == Quote(rIn, rOut, fee, x)
           num == (w * rOut) % (Q64 * Q64)
<1>1. /\ w \in Nat /\ w * rOut \in Nat /\ den \in Nat /\ rIn * Bps \in Nat
      /\ Q64 * Q64 \in Nat \ {0}
  BY QuoteParts
<1>2. num \in Nat /\ num <= w * rOut
  BY <1>1, ModBounds
<1>3. CASE den = 0
  <2>1. q = 0
    BY <1>3 DEF Quote
  <2> QED BY <2>1, <1>1, <1>3
<1>4. CASE den # 0
  <2>1. q = num \div den
    BY <1>4 DEF Quote
  <2>2. q \in Nat /\ q * den <= num
    <3> HIDE DEF den, num, q
    <3> QED BY <2>1, <1>1, <1>2, <1>4, DivBounds
  <2>3. q * den <= w * rOut
    <3>1. q * den \in Nat
      <4> HIDE DEF q, den
      <4> QED BY <2>2, <1>1, TimesNat
    <3> HIDE DEF q, den, num, w
    <3> QED BY <2>2, <1>1, <1>2, <3>1
  <2>4. q <= rOut
    <3> SUFFICES ASSUME rOut + 1 <= q PROVE FALSE
      <4> HIDE DEF q
      <4> QED BY <2>2
    <3>1. (rOut + 1) * den <= q * den
      <4> HIDE DEF q, den
      <4> QED BY <2>2, <1>1, TimesMono
    <3>2. w * rOut <= den * rOut
      <4> HIDE DEF w
      <4>1. w <= den
        BY <1>1
      <4> HIDE DEF den
      <4> QED BY <4>1, <1>1, TimesMono
    <3>3. (rOut + 1) * den = den * rOut + den /\ den * rOut \in Nat
      <4> HIDE DEF den
      <4> QED BY <1>1, TimesNat
    <3>4. (rOut + 1) * den \in Nat /\ q * den \in Nat
      <4> HIDE DEF den, q
      <4> QED BY <2>2, <1>1, TimesNat
    <3> HIDE DEF den, q, w
    <3> QED BY <2>3, <3>1, <3>2, <3>3, <3>4, <1>1, <1>4
  <2> QED BY <2>2, <2>3, <2>4
<1> QED BY <1>3, <1>4

\* As long as the product fits, a quote is the largest number that the product
\* formula allows.
LEMMA QuoteIsLargest ==
  ASSUME NEW rIn \in Nat, NEW rOut \in Nat, NEW fee \in 0 .. Bps, NEW x \in Nat,
         x * (Bps - fee) * rOut < Q64 * Q64,
         NEW n \in Nat,
         n * (rIn * Bps + x * (Bps - fee)) <= x * (Bps - fee) * rOut,
         rIn * Bps + x * (Bps - fee) # 0
  PROVE  n <= Quote(rIn, rOut, fee, x)
<1> DEFINE w == x * (Bps - fee)
           den == rIn * Bps + w
           num == w * rOut
<1>1. w \in Nat /\ num \in Nat /\ den \in Nat \ {0} /\ Q64 * Q64 \in Nat \ {0}
  BY QuoteParts
<1>2. num % (Q64 * Q64) = num
  <2>1. num < Q64 * Q64
    OBVIOUS
  <2> HIDE DEF num
  <2> QED BY <2>1, <1>1, ModBounds
<1>3. Quote(rIn, rOut, fee, x) = num \div den
  BY <1>1, <1>2 DEF Quote
<1>4. n <= num \div den
  <2>1. n * den <= num
    OBVIOUS
  <2> HIDE DEF den, num
  <2> QED BY <1>1, <2>1, DivAtLeast
<1> QED BY <1>3, <1>4

\* A larger amount is never quoted less, as long as the products fit.
THEOREM QuoteGrows ==
  ASSUME NEW rIn \in Nat, NEW rOut \in Nat, NEW fee \in 0 .. Bps,
         NEW x \in Nat, NEW y \in Nat, x <= y,
         y * (Bps - fee) * rOut < Q64 * Q64
  PROVE  Quote(rIn, rOut, fee, x) <= Quote(rIn, rOut, fee, y)
<1> DEFINE f == Bps - fee
           r == rIn * Bps
           q == Quote(rIn, rOut, fee, x)
<1>1. /\ f \in Nat /\ r \in Nat
      /\ x * f \in Nat /\ y * f \in Nat /\ r + x * f \in Nat /\ r + y * f \in Nat
      /\ x * f * rOut \in Nat /\ y * f * rOut \in Nat
  BY QuoteParts
<1>2. q \in Nat /\ q * (r + x * f) <= x * f * rOut /\ q <= rOut
  BY QuoteBounds
<1>3. x * f <= y * f
  <2> HIDE DEF f
  <2> QED BY <1>1, TimesMono
<1>4. q * (r + y * f) <= y * f * rOut
  <2> DEFINE u == x * f
             v == y * f
             s == rOut - q
  <2>1. u \in Nat /\ v \in Nat /\ u <= v /\ s \in Nat /\ rOut = s + q
    BY <1>1, <1>2, <1>3
  <2>2. q * (r + u) <= u * rOut
    BY <1>2
  <2> HIDE DEF q, r, u, v, s
  <2>3. q * (r + u) = q * r + q * u /\ q * (r + v) = q * r + q * v
    BY <2>1, <1>1, <1>2
  <2>4. u * rOut = u * s + q * u /\ v * rOut = v * s + q * v
    BY <2>1, <1>1, <1>2
  <2>5. u * s <= v * s
    BY <2>1, TimesMono
  <2>6. /\ q * r \in Nat /\ q * u \in Nat /\ q * v \in Nat
        /\ u * s \in Nat /\ v * s \in Nat
    BY <2>1, <1>1, <1>2, TimesNat
  <2>7. q * (r + v) <= v * rOut
    BY <2>2, <2>3, <2>4, <2>5, <2>6
  <2> QED BY <2>7 DEF v
<1>5. CASE r + y * f # 0
  <2>1. rIn * Bps + y * (Bps - fee) # 0 /\ y * (Bps - fee) * rOut < Q64 * Q64
    BY <1>5
  <2>2. q * (rIn * Bps + y * (Bps - fee)) <= y * (Bps - fee) * rOut
    BY <1>4
  <2>3. q <= Quote(rIn, rOut, fee, y)
    <3> HIDE DEF q
    <3> QED BY <2>1, <2>2, <1>2, QuoteIsLargest
  <2> QED BY <2>3
<1>6. CASE r + y * f = 0
  <2>1. r + x * f = 0
    <3> HIDE DEF r, f
    <3> QED BY <1>6, <1>1, <1>3
  <2> QED BY <2>1, <1>6 DEF Quote
<1> QED BY <1>5, <1>6

\* With more on the way in and less on the way out a quote is never higher, as
\* long as the product fits.
LEMMA QuoteShrinks ==
  ASSUME NEW rIn \in Nat, NEW rOut \in Nat, NEW fee \in 0 .. Bps, NEW x \in Nat,
         NEW sIn \in Nat, NEW sOut \in Nat, rIn <= sIn, sOut <= rOut,
         x * (Bps - fee) * rOut < Q64 * Q64
  PROVE  Quote(sIn, sOut, fee, x) <= Quote(rIn, rOut, fee, x)
<1> DEFINE w == x * (Bps - fee)
           r == rIn * Bps
           s == sIn * Bps
           q == Quote(sIn, sOut, fee, x)
<1>1. /\ w \in Nat /\ r \in Nat /\ s \in Nat /\ w * rOut \in Nat /\ w * sOut \in Nat
      /\ r + w \in Nat /\ s + w \in Nat
  BY QuoteParts
<1>2. q \in Nat /\ q * (s + w) <= w * sOut /\ q <= sOut
  BY QuoteBounds
<1>3. r <= s
  BY TimesMono, ScalesAssumption
<1>4. q * (r + w) <= w * rOut
  <2> HIDE DEF w, r, s, q
  <2>1. w * sOut <= w * rOut
    BY <1>1, TimesMono
  <2>2. q * (r + w) <= q * (s + w)
    BY <1>1, <1>2, <1>3, TimesMono
  <2>3. q * (r + w) \in Nat /\ q * (s + w) \in Nat
    BY <1>1, <1>2, TimesNat
  <2> QED BY <1>1, <1>2, <2>1, <2>2, <2>3
<1>5. CASE r + w # 0
  <2>1. rIn * Bps + x * (Bps - fee) # 0
    BY <1>5
  <2>2. q * (rIn * Bps + x * (Bps - fee)) <= x * (Bps - fee) * rOut
    BY <1>4
  <2>3. q <= Quote(rIn, rOut, fee, x)
    <3> HIDE DEF q
    <3> QED BY <2>1, <2>2, <1>2, QuoteIsLargest
  <2> QED BY <2>3
<1>6. CASE r + w = 0
  <2>1. w = 0
    <3> HIDE DEF w, r
    <3> QED BY <1>6, <1>1
  <2>2. w * sOut = 0
    BY <2>1
  <2>3. q = 0
    <3>1. CASE s + w = 0
      BY <3>1 DEF Quote
    <3>2. CASE s + w # 0
      <4> DEFINE d == s + w
      <4>1. q * d <= 0 /\ d \in Nat /\ d > 0
        BY <3>2, <2>2, <1>1, <1>2
      <4> HIDE DEF q, d
      <4> QED BY <4>1, <1>2, TimesNat
    <3> QED BY <3>1, <3>2
  <2> QED BY <2>3, QuoteBounds
<1> QED BY <1>5, <1>6

\* Selling back at once what a swap has bought never returns more than went in,
\* whatever the divisions round and whatever wraps or saturates on the way.
THEOREM RoundTripLoses ==
  ASSUME NEW rIn \in Nat, NEW rOut \in Nat, NEW fee \in 0 .. Bps, NEW x \in Nat,
         NEW sIn \in Nat, sIn <= rIn + x
  PROVE  LET q == Quote(rIn, rOut, fee, x)
         IN  Quote(rOut - q, sIn, fee, q) <= x
<1> DEFINE f == Bps - fee
           q == Quote(rIn, rOut, fee, x)
           sOut == rOut - q
           back == Quote(sOut, sIn, fee, q)
           w == x * f
           b == q * f
           r == rIn * Bps
           den == sOut * Bps + b
<1>1. f \in Nat /\ f <= Bps /\ w \in Nat /\ r \in Nat /\ Bps \in Nat \ {0}
  BY QuoteParts, ScalesAssumption
<1>2. q \in Nat /\ q * (r + w) <= w * rOut /\ q <= rOut
  BY QuoteBounds
<1>3. sOut \in Nat /\ rOut = sOut + q
  BY <1>2
<1>4. b \in Nat /\ den \in Nat /\ b * sIn \in Nat
  <2> HIDE DEF q, sOut
  <2> QED BY <1>2, <1>3, QuoteParts
<1>5. back \in Nat /\ back * den <= b * sIn
  <2> HIDE DEF q, sOut
  <2> QED BY <1>2, <1>3, QuoteBounds
<1>6. q * r <= w * sOut
  <2> HIDE DEF q, sOut, w, r
  <2>1. q * (r + w) = q * r + q * w /\ w * rOut = w * sOut + q * w
    BY <1>1, <1>2, <1>3
  <2>2. q * r \in Nat /\ q * w \in Nat /\ w * sOut \in Nat
    BY <1>1, <1>2, <1>3, TimesNat
  <2> QED BY <2>1, <2>2, <1>2
\* What goes back, less its fee, against what came in at full price.
<1>7. b * rIn <= x * (sOut * Bps)
  <2> HIDE DEF q, sOut
  <2>1. b <= q * Bps
    <3> HIDE DEF f
    <3> QED BY <1>1, <1>2, TimesMono
  <2>2. b * rIn <= (q * Bps) * rIn
    <3>1. q * Bps \in Nat
      BY <1>1, <1>2, TimesNat
    <3> HIDE DEF b
    <3> QED BY <2>1, <3>1, <1>4, TimesMono
  <2>3. (q * Bps) * rIn = q * r
    BY <1>1, <1>2
  <2>4. w <= x * Bps
    <3> HIDE DEF f
    <3> QED BY <1>1, TimesMono
  <2>5. w * sOut <= (x * Bps) * sOut
    <3>1. x * Bps \in Nat
      BY <1>1, TimesNat
    <3> HIDE DEF w
    <3> QED BY <2>4, <3>1, <1>1, <1>3, TimesMono
  <2>6. (x * Bps) * sOut = x * (sOut * Bps)
    BY <1>1, <1>3
  <2>7. b * rIn \in Nat /\ q * r \in Nat /\ w * sOut \in Nat /\ x * (sOut * Bps) \in Nat
    <3>1. sOut * Bps \in Nat
      BY <1>1, <1>3, TimesNat
    <3> HIDE DEF b, w, r
    <3> QED BY <1>1, <1>2, <1>3, <1>4, <3>1, TimesNat
  <2> HIDE DEF b, w, r
  <2> QED BY <2>2, <2>3, <2>5, <2>6, <2>7, <1>6
<1>8. b * sIn <= x * den
  <2> HIDE DEF q, sOut, b
  <2>1. b * sIn <= b * (rIn + x)
    BY <1>4, TimesMono
  <2>2. b * (rIn + x) = b * rIn + x * b /\ x * den = x * (sOut * Bps) + x * b
    <3>1. sOut * Bps \in Nat
      BY <1>1, <1>3, TimesNat
    <3> DEFINE t == sOut * Bps
    <3> HIDE DEF t
    <3>2. x * (t + b) = x * t + x * b
      BY <3>1, <1>4 DEF t
    <3> QED BY <3>2, <1>4 DEF t
  <2>3. b * rIn \in Nat /\ x * b \in Nat
    BY <1>4, TimesNat
  <2>4. x * (sOut * Bps) \in Nat
    <3>1. sOut * Bps \in Nat
      BY <1>1, <1>3, TimesNat
    <3> QED BY <3>1, TimesNat
  <2> QED BY <2>1, <2>2, <2>3, <2>4, <1>7, <1>4
<1>9. CASE den = 0
  <2>1. back = 0
    BY <1>9 DEF Quote
  <2> QED BY <2>1
<1>10. CASE den # 0
  <2> HIDE DEF back, den, b
  <2> SUFFICES ASSUME x + 1 <= back PROVE FALSE
    BY <1>5 DEF back
  <2>1. (x + 1) * den <= back * den
    BY <1>4, <1>5, TimesMono
  <2>2. (x + 1) * den = x * den + den /\ x * den \in Nat /\ back * den \in Nat
    BY <1>4, <1>5, TimesNat
  <2> QED BY <2>1, <2>2, <1>4, <1>5, <1>8, <1>10
<1> QED BY <1>9, <1>10

(* Quotes on a pool and the pool after a swap.                             *)

\* A constant-product quote is the quote on the reserves, in and out.
LEMMA CpQuote ==
  ASSUME NEW p, p.kind = "cp", NEW aToB \in BOOLEAN, NEW x
  PROVE  PoolQuote(p, aToB, x) =
           Quote(IF aToB THEN p.a ELSE p.b, IF aToB THEN p.b ELSE p.a, p.fee, x)
BY DEF PoolQuote

\* After a swap a constant-product pool is one again: the reserve on the way in
\* is no larger than what it held and got, and no smaller than what it held; the
\* reserve on the way out has paid the quote.
LEMMA AfterSwapIs ==
  ASSUME NEW p \in CpPool, NEW aToB \in BOOLEAN, NEW x \in Nat
  PROVE  LET q == PoolQuote(p, aToB, x)
             s == AfterSwap(p, aToB, x)
         IN  /\ s \in CpPool /\ s.fee = p.fee
             /\ q \in Nat
             /\ aToB => /\ s.a = Cap64(p.a + x) /\ s.a <= p.a + x /\ p.a <= s.a
                        /\ s.b = p.b - q
             /\ ~aToB => /\ s.b = Cap64(p.b + x) /\ s.b <= p.b + x /\ p.b <= s.b
                         /\ s.a = p.a - q
<1> DEFINE q == PoolQuote(p, aToB, x)
           s == AfterSwap(p, aToB, x)
<1>1. /\ p.kind = "cp" /\ p.fee \in 0 .. Bps
      /\ p.a \in 0 .. Q64 - 1 /\ p.b \in 0 .. Q64 - 1 /\ Q64 \in Nat \ {0}
      /\ p = [kind |-> p.kind, a |-> p.a, b |-> p.b, fee |-> p.fee]
  BY ScalesAssumption DEF CpPool
<1>2. CASE aToB
  <2>1. q = Quote(p.a, p.b, p.fee, x)
    BY <1>1, <1>2, CpQuote
  <2>2. q \in Nat /\ q <= p.b
    <3>1. p.a \in Nat /\ p.b \in Nat
      BY <1>1
    <3> QED BY <2>1, <1>1, <3>1, QuoteBounds
  <2>3. s = [kind |-> "cp", a |-> Cap64(p.a + x), b |-> Minus(p.b, q), fee |-> p.fee]
    <3>1. s = [p EXCEPT !.a = Cap64(@ + x), !.b = Minus(@, q)]
      BY <1>2 DEF AfterSwap
    <3> HIDE DEF s, q
    <3> QED BY <3>1, <1>1 DEF CpPool
  <2>4. Minus(p.b, q) = p.b - q
    <3> HIDE DEF q
    <3> QED BY <2>2, <1>1 DEF Minus, Most
  <2>5. Cap64(p.a + x) \in 0 .. Q64 - 1 /\ p.a <= Cap64(p.a + x) /\ Cap64(p.a + x) <= p.a + x
    BY <1>1 DEF Cap64, Least
  <2> HIDE DEF s, q
  <2>6. s \in CpPool
    BY <2>2, <2>3, <2>4, <2>5, <1>1 DEF CpPool
  <2>7. /\ s.fee = p.fee
        /\ s.a = Cap64(p.a + x) /\ s.a <= p.a + x /\ p.a <= s.a
        /\ s.b = p.b - q
    BY <2>3, <2>4, <2>5
  <2> QED BY <2>2, <2>6, <2>7, <1>2 DEF s, q
<1>3. CASE ~aToB
  <2>1. q = Quote(p.b, p.a, p.fee, x)
    BY <1>1, <1>3, CpQuote
  <2>2. q \in Nat /\ q <= p.a
    <3>1. p.a \in Nat /\ p.b \in Nat
      BY <1>1
    <3> QED BY <2>1, <1>1, <3>1, QuoteBounds
  <2>3. s = [kind |-> "cp", a |-> Minus(p.a, q), b |-> Cap64(p.b + x), fee |-> p.fee]
    <3>1. s = [p EXCEPT !.b = Cap64(@ + x), !.a = Minus(@, q)]
      BY <1>3 DEF AfterSwap
    <3> HIDE DEF s, q
    <3> QED BY <3>1, <1>1 DEF CpPool
  <2>4. Minus(p.a, q) = p.a - q
    <3> HIDE DEF q
    <3> QED BY <2>2, <1>1 DEF Minus, Most
  <2>5. Cap64(p.b + x) \in 0 .. Q64 - 1 /\ p.b <= Cap64(p.b + x) /\ Cap64(p.b + x) <= p.b + x
    BY <1>1 DEF Cap64, Least
  <2> HIDE DEF s, q
  <2>6. s \in CpPool
    BY <2>2, <2>3, <2>4, <2>5, <1>1 DEF CpPool
  <2>7. /\ s.fee = p.fee
        /\ s.b = Cap64(p.b + x) /\ s.b <= p.b + x /\ p.b <= s.b
        /\ s.a = p.a - q
    BY <2>3, <2>4, <2>5
  <2> QED BY <2>2, <2>6, <2>7, <1>3 DEF s, q
<1> QED BY <1>2, <1>3

(* Concentrated liquidity.                                                 *)

\* A price impact that is not above the cap is within half the cap and one basis
\* point of the square-root price (state.rs:141-147).
LEMMA ImpactBounds ==
  ASSUME NEW sp \in Nat \ {0}, NEW d \in Nat, 2 * ((d * Bps) \div sp) <= MaxPriceImpact
  PROVE  d * Bps \in Nat /\ d * Bps < (MaxPriceImpact \div 2 + 1) * sp
<1> DEFINE k == (d * Bps) \div sp
           h == MaxPriceImpact \div 2 + 1
<1>1. Bps \in Nat /\ MaxPriceImpact \in Nat /\ h \in Nat
  BY ScalesAssumption, QuotesAssumption
<1>2. d * Bps \in Nat
  BY <1>1, TimesNat
<1>3. k \in Nat /\ d * Bps < (k + 1) * sp
  BY <1>2, DivBounds
<1>4. k + 1 <= h
  <2>1. 2 * k <= MaxPriceImpact
    OBVIOUS
  <2> HIDE DEF k
  <2> QED BY <2>1, <1>1, <1>3
<1> HIDE DEF k, h
<1>5. (k + 1) * sp <= h * sp
  BY <1>1, <1>3, <1>4, TimesMono
<1>6. (k + 1) * sp \in Nat /\ h * sp \in Nat
  BY <1>1, <1>3, TimesNat
<1> QED BY <1>2, <1>3, <1>5, <1>6 DEF h

\* A concentrated quote from a to b is a number, and a quote above 0 has passed
\* the cap on the price impact: the true move of the square-root price is within
\* half the cap and one basis point, but for the unit that the product loses to
\* its division by Q64 (state.rs:132-147, 213-229).
LEMMA ClmmAToBBounds ==
  ASSUME NEW p \in ClmmPool, p.liq # 0, p.sp # 0, NEW w \in Nat
  PROVE  /\ ClmmAToB(p, w) \in Nat
         /\ ClmmAToB(p, w) > 0 =>
              w * p.sp * Bps <=
                (MaxPriceImpact \div 2 + 1) * (p.liq * Q64 + w * p.sp) + Bps * Q64
<1> DEFINE sp == p.sp
           liq == p.liq
           P == w * sp
           g == P \div Q64
           num == liq * sp
           new == num \div (liq + g)
           h == MaxPriceImpact \div 2 + 1
<1>1. /\ sp \in Nat \ {0} /\ liq \in Nat \ {0} /\ Q64 \in Nat \ {0} /\ Bps \in Nat \ {0}
      /\ MaxPriceImpact \in Nat
  BY ScalesAssumption, QuotesAssumption DEF ClmmPool
<1>2. P \in Nat /\ num \in Nat
  <2> HIDE DEF sp, liq
  <2> QED BY <1>1, TimesNat
<1>3. g \in Nat /\ g * Q64 <= P /\ P < (g + 1) * Q64
  <2> HIDE DEF P
  <2> QED BY <1>1, <1>2, DivBounds
<1>4. new \in Nat /\ new * (liq + g) <= num
  <2>1. liq + g \in Nat \ {0}
    <3> HIDE DEF liq, g
    <3> QED BY <1>1, <1>3
  <2> HIDE DEF num, liq, g
  <2> QED BY <2>1, <1>2, DivBounds
<1>5. h \in Nat \ {0}
  BY <1>1
<1> DEFINE refused ==
      \/ P >= Q64 * Q64
      \/ num >= Q64 * Q64
      \/ new >= sp
      \/ PriceImpact(sp, new) > MaxPriceImpact
<1>6. ClmmAToB(p, w) = IF refused THEN 0 ELSE (liq * (sp - new)) \div Q64
  BY DEF ClmmAToB
<1>7. CASE refused
  <2>1. ClmmAToB(p, w) = 0
    BY <1>6, <1>7
  <2> QED BY <2>1
<1>8. CASE ~refused
  <2> DEFINE d == sp - new
  <2>1. new < sp
    <3> HIDE DEF new, sp
    <3> QED BY <1>8, <1>1, <1>4
  <2>2. d \in Nat \ {0} /\ d <= sp
    <3> HIDE DEF new, sp
    <3> QED BY <2>1, <1>1, <1>4
  <2>3. d * Bps \in Nat
    <3> HIDE DEF d
    <3> QED BY <2>2, <1>1, TimesNat
  <2>4. d * Bps < h * sp
    <3>1. PriceImpact(sp, new) = 2 * ((d * Bps) \div sp)
      <4> HIDE DEF new, sp
      <4> QED BY <2>1, <1>1, <1>4 DEF PriceImpact, Most
    <3>2. (d * Bps) \div sp \in Nat
      <4> HIDE DEF d, sp
      <4> QED BY <1>1, <2>3, DivBounds
    <3>3. 2 * ((d * Bps) \div sp) <= MaxPriceImpact
      <4> DEFINE i == 2 * ((d * Bps) \div sp)
      <4>1. i \in Nat /\ ~(i > MaxPriceImpact)
        BY <3>1, <3>2, <1>8
      <4> HIDE DEF i
      <4>2. i <= MaxPriceImpact
        BY <4>1, <1>1
      <4> QED BY <4>2 DEF i
    <3> HIDE DEF d, sp
    <3> QED BY <3>3, <2>2, <1>1, ImpactBounds
\* sp * g <= d * (liq + g)
  <2>5. sp * g <= d * (liq + g)
    <3> DEFINE m == liq + g
    <3>1. m \in Nat /\ m = liq + g
      <4> HIDE DEF liq, g
      <4> QED BY <1>1, <1>3
    <3>2. new * m <= liq * sp /\ new = sp - d
      <4>1. new * m <= liq * sp
        BY <1>4
      <4>2. new = sp - d
        <5> HIDE DEF new, sp
        <5> QED BY <1>1, <1>4
      <4> QED BY <4>1, <4>2
    <3>3. (sp - d) * m = sp * liq + sp * g - d * m /\ liq * sp = sp * liq
      <4>1. liq \in Nat /\ sp \in Nat /\ g \in Nat /\ d \in Nat
        BY <1>1, <1>3, <2>2
      <4> HIDE DEF liq, sp, g, d, m
      <4> QED BY <4>1, <3>1
    <3>4. sp * liq \in Nat /\ sp * g \in Nat /\ d * m \in Nat
      <4>1. liq \in Nat /\ sp \in Nat /\ g \in Nat /\ d \in Nat
        BY <1>1, <1>3, <2>2
      <4> HIDE DEF liq, sp, g, d, m
      <4> QED BY <4>1, <3>1, TimesNat
    <3>5. (sp - d) * m <= sp * liq
      BY <3>2, <3>3
    <3>6. sp * g <= d * m
      <4> HIDE DEF liq, sp, g, d, m, new
      <4> QED BY <3>3, <3>4, <3>5
    <3> QED BY <3>6
\* g * Bps <= h * (liq + g)
  <2>6. g * Bps <= h * (liq + g)
    <3> DEFINE m == liq + g
    <3>1. m \in Nat \ {0} /\ d \in Nat /\ sp \in Nat \ {0} /\ g \in Nat /\ h \in Nat
      <4>1. m \in Nat \ {0}
        <5> HIDE DEF liq, g
        <5> QED BY <1>1, <1>3
      <4> QED BY <4>1, <1>1, <1>3, <1>5, <2>2
    <3>2. sp * g <= d * m /\ d * Bps <= h * sp
      <4>1. h * sp \in Nat
        <5> HIDE DEF h, sp
        <5> QED BY <1>1, <1>5, TimesNat
      <4>2. d * Bps <= h * sp
        <5> HIDE DEF h, sp, d
        <5> QED BY <4>1, <2>3, <2>4
      <4> QED BY <4>2, <2>5
    <3> HIDE DEF liq, sp, g, d, m, h
    <3>3. (sp * g) * Bps <= (d * m) * Bps /\ (d * Bps) * m <= (h * sp) * m
      BY <3>1, <3>2, <1>1, TimesNat, TimesMono
    <3>4. (sp * g) * Bps = (g * Bps) * sp /\ (d * m) * Bps = (d * Bps) * m
      BY <3>1, <1>1
    <3>5. (h * sp) * m = (h * m) * sp
      BY <3>1
    <3>6. g * Bps \in Nat /\ h * m \in Nat /\ d * Bps \in Nat
      BY <3>1, <1>1, TimesNat
    <3>7. (g * Bps) * sp \in Nat /\ (h * m) * sp \in Nat /\ (d * Bps) * m \in Nat
      BY <3>1, <3>6, TimesNat
    <3>8. (g * Bps) * sp <= (h * m) * sp
      BY <3>3, <3>4, <3>5, <3>7
    <3>9. g * Bps <= h * m
      <4> SUFFICES ASSUME h * m + 1 <= g * Bps PROVE FALSE
        BY <3>6
      <4>1. (h * m + 1) * sp <= (g * Bps) * sp
        BY <3>6, <3>1, TimesMono
      <4>2. (h * m + 1) * sp = (h * m) * sp + sp
        BY <3>6, <3>1
      <4> QED BY <4>1, <4>2, <3>8, <3>7, <3>1
    <3> QED BY <3>9 DEF m
\* Back from g to the product.
  <2>7. P * Bps <= h * (liq * Q64 + P) + Bps * Q64
    <3>1. /\ g \in Nat /\ h \in Nat /\ liq \in Nat /\ P \in Nat
          /\ Bps \in Nat /\ Q64 \in Nat
          /\ g * Q64 <= P /\ P < (g + 1) * Q64 /\ g * Bps <= h * (liq + g)
      BY <1>1, <1>2, <1>3, <1>5, <2>6
    <3> HIDE DEF g, h, liq, P
    <3>2. /\ g * Q64 \in Nat /\ (g + 1) * Q64 \in Nat /\ g * Bps \in Nat
          /\ liq * Q64 \in Nat /\ liq + g \in Nat /\ h * (liq + g) \in Nat
      BY <3>1, TimesNat
    <3>3. P * Bps <= ((g + 1) * Q64) * Bps
      BY <3>1, <3>2, TimesMono
    <3>4. ((g + 1) * Q64) * Bps = (g * Bps) * Q64 + Bps * Q64
      BY <3>1
    <3>5. (g * Bps) * Q64 <= (h * (liq + g)) * Q64
      BY <3>1, <3>2, TimesMono
    <3>6. (h * (liq + g)) * Q64 = h * (liq * Q64 + g * Q64)
      BY <3>1
    <3>7. h * (liq * Q64 + g * Q64) <= h * (liq * Q64 + P)
      BY <3>1, <3>2, TimesMono
    <3>8. /\ P * Bps \in Nat /\ (g * Bps) * Q64 \in Nat /\ Bps * Q64 \in Nat
          /\ h * (liq * Q64 + P) \in Nat /\ h * (liq * Q64 + g * Q64) \in Nat
      BY <3>1, <3>2, TimesNat
    <3> QED BY <3>3, <3>4, <3>5, <3>6, <3>7, <3>8
  <2>8. ClmmAToB(p, w) \in Nat
    <3>1. ClmmAToB(p, w) = (liq * d) \div Q64
      BY <1>6, <1>8
    <3>2. liq * d \in Nat
      <4> HIDE DEF liq, d
      <4> QED BY <1>1, <2>2, TimesNat
    <3> HIDE DEF liq, d
    <3> QED BY <3>1, <3>2, <1>1, DivBounds
  <2> QED BY <2>7, <2>8
<1> QED BY <1>7, <1>8

\* A concentrated quote from b to a is a number, and a quote above 0 has passed
\* the cap on the price impact: the move of the square-root price is within half
\* the cap and one basis point, but for the unit that it loses to its division by
\* the liquidity (state.rs:132-147, 230-244).
LEMMA ClmmBToABounds ==
  ASSUME NEW p \in ClmmPool, p.liq # 0, p.sp # 0, NEW w \in Nat
  PROVE  /\ ClmmBToA(p, w) \in Nat
         /\ ClmmBToA(p, w) > 0 =>
              w * Q64 * Bps <=
                (MaxPriceImpact \div 2 + 1) * (p.sp * p.liq) + Bps * p.liq
<1> DEFINE sp == p.sp
           rise == (w * Q64) \div p.liq
           new == sp + rise
           moved == p.liq * (new - sp)
<1>1. /\ sp \in Nat \ {0} /\ p.liq \in Nat \ {0} /\ Q64 \in Nat \ {0}
  BY ScalesAssumption DEF ClmmPool
<1>2. rise \in Nat
  <2>1. w * Q64 \in Nat
    BY <1>1, TimesNat
  <2> QED BY <1>1, <2>1, DivBounds
<1>3. new \in Nat \ {0} /\ new - sp = rise
  <2> HIDE DEF rise, sp
  <2> QED BY <1>1, <1>2
<1>4. moved \in Nat
  <2> HIDE DEF rise, sp, new
  <2> QED BY <1>1, <1>2, <1>3, TimesNat
<1>5. moved * Q64 \in Nat /\ sp * new \in Nat \ {0}
  <2> HIDE DEF moved, sp, new
  <2> QED BY <1>1, <1>3, <1>4, TimesNat
<1>6. (moved * Q64) \div (sp * new) \in Nat
  <2> DEFINE m == moved * Q64
             e == sp * new
  <2>1. m \in Nat /\ e \in Nat \ {0}
    BY <1>5
  <2> HIDE DEF m, e
  <2>2. m \div e \in Nat
    BY <2>1, DivBounds
  <2> QED BY <2>2 DEF m, e
<1>7. Cap64((moved * Q64) \div (sp * new)) \in Nat
  <2> DEFINE m == (moved * Q64) \div (sp * new)
  <2>1. m \in Nat
    BY <1>6
  <2> HIDE DEF m
  <2>2. Cap64(m) \in Nat
    BY <2>1, <1>1 DEF Cap64, Least
  <2> QED BY <2>2 DEF m
<1>8. ClmmBToA(p, w) \in {0, Cap64((moved * Q64) \div (sp * new))}
  BY DEF ClmmBToA
<1>9. ClmmBToA(p, w) \in Nat
  BY <1>7, <1>8
<1>10. ASSUME ClmmBToA(p, w) > 0
       PROVE  w * Q64 * Bps <= (MaxPriceImpact \div 2 + 1) * (sp * p.liq) + Bps * p.liq
  <2> DEFINE h == MaxPriceImpact \div 2 + 1
             liq == p.liq
             P == w * Q64
  <2>1. /\ Bps \in Nat /\ MaxPriceImpact \in Nat /\ h \in Nat /\ liq \in Nat \ {0}
        /\ P \in Nat /\ sp \in Nat \ {0}
    BY <1>1, ScalesAssumption, QuotesAssumption, TimesNat
  <2>2. ~(PriceImpact(sp, new) > MaxPriceImpact)
    BY <1>10 DEF ClmmBToA
  <2>3. 2 * ((rise * Bps) \div sp) <= MaxPriceImpact
    <3> DEFINE i == 2 * ((rise * Bps) \div sp)
    <3>1. PriceImpact(sp, new) = i
      <4> HIDE DEF rise, sp
      <4> QED BY <1>1, <1>2 DEF PriceImpact, Most
    <3>2. i \in Nat
      <4> HIDE DEF rise, sp
      <4>1. rise * Bps \in Nat
        BY <1>2, <2>1, TimesNat
      <4> QED BY <4>1, <1>1, DivBounds
    <3> HIDE DEF i, new
    <3>3. i <= MaxPriceImpact
      BY <2>1, <2>2, <3>1, <3>2
    <3> QED BY <3>3 DEF i
  <2>4. rise * Bps \in Nat /\ rise * Bps < h * sp
    <3> HIDE DEF rise, sp
    <3> QED BY <1>1, <1>2, <2>3, ImpactBounds
  <2>5. P < (rise + 1) * liq
    <3>1. rise = P \div liq
      OBVIOUS
    <3> HIDE DEF rise, P, liq
    <3> QED BY <2>1, <3>1, DivBounds
  <2> HIDE DEF rise, P, liq, h, sp, new, moved
  <2>6. (rise + 1) * liq \in Nat /\ P * Bps <= ((rise + 1) * liq) * Bps
    BY <1>2, <2>1, <2>5, TimesNat, TimesMono
  <2>7. ((rise + 1) * liq) * Bps = (rise * Bps) * liq + Bps * liq
    BY <1>2, <2>1
  <2>8. h * sp \in Nat /\ (rise * Bps) * liq <= (h * sp) * liq
    BY <2>1, <2>4, TimesNat, TimesMono
  <2>9. (h * sp) * liq = h * (sp * liq)
    BY <2>1
  <2>10. /\ P * Bps \in Nat /\ (rise * Bps) * liq \in Nat /\ Bps * liq \in Nat
         /\ h * (sp * liq) \in Nat /\ sp * liq \in Nat
    BY <2>1, <2>4, TimesNat
  <2>11. P * Bps <= h * (sp * liq) + Bps * liq
    BY <2>6, <2>7, <2>8, <2>9, <2>10
  <2> QED BY <2>11 DEF P, h, liq
<1> QED BY <1>9, <1>10

\* Every quote of every pool is a number, and nothing is paid for nothing.
LEMMA PoolQuoteNat ==
  ASSUME NEW p \in CpPool \cup ClmmPool, NEW aToB \in BOOLEAN, NEW x \in Nat
  PROVE  /\ PoolQuote(p, aToB, x) \in Nat
         /\ PoolQuote(p, aToB, 0) = 0
<1>1. CASE p \in CpPool
  <2> DEFINE rIn == IF aToB THEN p.a ELSE p.b
             rOut == IF aToB THEN p.b ELSE p.a
  <2>1. p.kind = "cp" /\ rIn \in Nat /\ rOut \in Nat /\ p.fee \in 0 .. Bps
    BY <1>1, ScalesAssumption DEF CpPool
  <2>2. \A y \in Nat : PoolQuote(p, aToB, y) = Quote(rIn, rOut, p.fee, y)
    BY <2>1, CpQuote
  <2> HIDE DEF rIn, rOut
  <2>3. Quote(rIn, rOut, p.fee, x) \in Nat
    BY <2>1, QuoteBounds
  <2>4. Quote(rIn, rOut, p.fee, 0) = 0
    <3> DEFINE q == Quote(rIn, rOut, p.fee, 0)
               r == rIn * Bps
    <3>1. /\ q \in Nat /\ q * (r + 0 * (Bps - p.fee)) <= 0 * (Bps - p.fee) * rOut
      BY <2>1, QuoteBounds
    <3>2. r \in Nat /\ Bps - p.fee \in Nat
      BY <2>1, QuoteParts
    <3>3. q * r <= 0
      <4> HIDE DEF q, r
      <4> QED BY <3>1, <3>2, <2>1
    <3>4. CASE r = 0
      <4>1. rIn * Bps + 0 * (Bps - p.fee) = 0
        BY <3>4, <3>2
      <4> QED BY <4>1 DEF Quote
    <3>5. CASE r # 0
      <4> HIDE DEF q, r
      <4>1. q = 0
        BY <3>1, <3>2, <3>3, <3>5, TimesNat
      <4> QED BY <4>1 DEF q
    <3> QED BY <3>4, <3>5
  <2> QED BY <2>2, <2>3, <2>4
<1>2. CASE p \in ClmmPool
  <2>1. p.kind = "clmm" /\ p.fee \in 0 .. Bps
    BY <1>2 DEF ClmmPool
  <2>2. Bps \in Nat \ {0} /\ Bps - p.fee \in Nat
    BY <2>1, ScalesAssumption
  <2>3. \A y \in Nat : PoolQuote(p, aToB, y) = QuoteClmm(p, y, aToB)
    BY <2>1 DEF PoolQuote
  <2>4. QuoteClmm(p, x, aToB) \in Nat
    <3> DEFINE w == (x * (Bps - p.fee)) \div Bps
    <3>1. w \in Nat
      <4>1. x * (Bps - p.fee) \in Nat
        BY <2>2, TimesNat
      <4> QED BY <4>1, <2>2, DivBounds
    <3>2. p.liq # 0 /\ p.sp # 0 => ClmmAToB(p, w) \in Nat /\ ClmmBToA(p, w) \in Nat
      <4> HIDE DEF w
      <4> QED BY <3>1, <1>2, ClmmAToBBounds, ClmmBToABounds
    <3>3. QuoteClmm(p, x, aToB) =
            IF w = 0 \/ p.liq = 0 \/ p.sp = 0 THEN 0
            ELSE IF aToB THEN ClmmAToB(p, w) ELSE ClmmBToA(p, w)
      BY DEF QuoteClmm
    <3> HIDE DEF w
    <3> QED BY <3>2, <3>3
  <2>5. QuoteClmm(p, 0, aToB) = 0
    <3>1. (0 * (Bps - p.fee)) \div Bps = 0
      <4>1. 0 * (Bps - p.fee) = 0
        BY <2>2
      <4> QED BY <4>1, <2>2
    <3> QED BY <3>1 DEF QuoteClmm
  <2> QED BY <2>3, <2>4, <2>5
<1> QED BY <1>1, <1>2
=============================================================================
