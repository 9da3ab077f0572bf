------------------------------- MODULE Scales -------------------------------
(***************************************************************************)
(* The numbers that the strategies' arithmetic shares, as parameters: the  *)
(* code's are too large for exhaustive runs, and only their order matters. *)
(***************************************************************************)
EXTENDS Integers

CONSTANTS
  Bps,       \* 10_000: basis points in the whole
  Q64,       \* 2^64: one past u64::MAX, and the fixed point of sqrt_price
  U16,       \* 2^16
  MinProfit  \* config: min_profit_lamports

ASSUME ScalesAssumption ==
  /\ Bps \in Nat \ {0} /\ Bps % 100 = 0
  /\ U16 \in Nat /\ U16 > Bps
  /\ Q64 \in Nat /\ Q64 > U16
  /\ MinProfit \in Nat

Least(x, y) == IF x < y THEN x ELSE y
Most(x, y) == IF x > y THEN x ELSE y

\* saturating_sub; saturation at u64::MAX and at u16::MAX.
Minus(x, y) == Most(x - y, 0)
Cap64(x) == Least(x, Q64 - 1)
Cap16(x) == Least(x, U16 - 1)
=============================================================================
