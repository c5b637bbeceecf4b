------------------------------ MODULE AmmMath ------------------------------
(***************************************************************************)
(* The arithmetic of the pools: pool_math/*.rs.  Amounts are unsigned      *)
(* machine words; the release build does not check them, so a subtraction  *)
(* the code writes with "-" wraps (Minus), while one it writes with        *)
(* checked_sub is guarded where it is used.  Products and quotients go     *)
(* through u128 or big numbers in the code and are exact here.             *)
(*                                                                         *)
(* An option is {} or a singleton.                                         *)
(***************************************************************************)
EXTENDS Integers

CONSTANTS
  Word,        \* one more than the largest machine word
  FeeDen,      \* the denominator of every fee
  Untouchable  \* lovelace a constant-product pool never gives away

ASSUME AmmMathAssumption ==
  /\ Word \in Nat \ {0} /\ FeeDen \in Nat \ {0} /\ Untouchable \in Nat

\* Unchecked u64 subtraction.
Minus(a, b) == (a - b) % Word

AtLeast(a, b) == IF a >= b THEN a ELSE b

-----------------------------------------------------------------------------
(* Constant product.  b is the tradable reserve of the asset that comes    *)
(* in, q that of the asset that goes out, fee the numerator of the fee.    *)

CfmmQuote(b, q, fee, amount) ==
  (q * amount * fee) \div (b * FeeDen + amount * fee)

\* classic_cfmm_output_amount: a native output leaves Untouchable behind.
CfmmOutput(b, q, fee, amount, native) ==
  LET quote == CfmmQuote(b, q, fee, amount)
  IN  IF native /\ Minus(q, quote) < Untouchable THEN Minus(q, Untouchable) ELSE quote

\* classic_cfmm_reward_lp: the LP tokens unlocked by a deposit and the change.
CfmmReward(rx, ry, lq, inX, inY) ==
  LET byX == (inX * lq) \div rx
      byY == (inY * lq) \div ry
  IN  [unlocked |-> IF byX < byY THEN byX ELSE byY,
       changeX  |-> IF byX > byY THEN ((byX - byY) * rx) \div lq ELSE 0,
       changeY  |-> IF byX < byY THEN ((byY - byX) * ry) \div lq ELSE 0]

\* classic_cfmm_shares_amount.
CfmmShare(reserve, lq, burned) == (burned * reserve) \div lq

\* Mutant: the fee is forgotten on the reserve that comes in.
CfmmAvailableNoFee(b, q, fee, n, d) ==
  LET slack  == AtLeast(q * d * FeeDen - b * FeeDen * n, 0)
  IN  {[input |-> slack \div (n * fee), output |-> slack \div (d * fee)]}

\* available_liquidity_on_side: the largest input the pool takes at a worst
\* price of n units out per d units in, and the output it pays for it.
CfmmAvailable(b, q, fee, n, d) ==
  LET slack  == q * d * fee - b * FeeDen * n
      input  == AtLeast(slack, 0) \div (n * fee)
      output == AtLeast(slack, 0) \div (d * fee)
      capped == IF Untouchable >= q - output THEN q - Untouchable ELSE output
  IN  IF - slack >= n * fee \/ - slack >= d * fee \/ capped < 0 THEN {}
      ELSE {[input |-> input, output |-> capped]}

-----------------------------------------------------------------------------
(* The weighted pool: x has weight 1 and y weight 4.                       *)

Weighted(weight, r) == IF weight = 1 THEN r ELSE r * r * r * r

\* balance_cfmm_output_amount: from the floor of the root down to the first
\* output that keeps the weighted product.
BalanceOutput(b, bw, q, qw, fee, amount) ==
  LET base == b + (amount * fee) \div FeeDen
      keeps(out) == Weighted(bw, base) * Weighted(qw, q - out) >= Weighted(bw, b) * Weighted(qw, q)
  IN  CHOOSE out \in 0 .. q : keeps(out) /\ \A more \in out + 1 .. q : ~ keeps(more)

\* reward_lp of the weighted pool: the change is recomputed from the unlocked.
BalanceReward(rx, ry, lq, inX, inY) ==
  LET unlocked == CfmmReward(rx, ry, lq, inX, inY).unlocked
  IN  [unlocked |-> unlocked,
       changeX  |-> inX - (unlocked * rx) \div lq,
       changeY  |-> inY - (unlocked * ry) \div lq]

-----------------------------------------------------------------------------
(* The stable pool: n = 2 assets, nn = n^n = 4, an2n the amplification.    *)

\* The Newton iteration of calculate_invariant; 0 when it has not settled
\* after the given number of rounds (the code would iterate for ever).
InvariantFrom[k \in Nat, d \in Nat, x \in Nat, y \in Nat, an2n \in Nat] ==
  LET ann  == an2n \div 4
      dP   == ((d * d * d) \div 4) \div (x * y)
      next == ((ann * (x + y) + 2 * dP) * d) \div ((ann - 1) * d + 3 * dP)
  IN  IF next = d THEN d
      ELSE IF k = 0 THEN 0 ELSE InvariantFrom[k - 1, next, x, y, an2n]

\* calculate_invariant_error_sgn.
InvariantReached(x, y, an2n, d) ==
  LET ann == an2n \div 4
  IN  d * ann + (d * d * d) \div (4 * x * y) >= ann * (x + y) + d

\* calculate_invariant: the first d at or above Newton's that has the sign.
InvariantAbove(x, y, an2n, newton) ==
  IF newton = 0 THEN 0
  ELSE CHOOSE d \in newton .. newton + 8 :
         /\ InvariantReached(x, y, an2n, d)
         /\ \A e \in newton .. d - 1 : ~ InvariantReached(x, y, an2n, e)

Invariant(x, y, an2n) == InvariantAbove(x, y, an2n, InvariantFrom[32, x + y, x, y, an2n])

\* check_exact_invariant.
ExactInvariant(mult, b0, q0, b1, q1, d, an2n) ==
  LET alpha(b, q) == (an2n - 4) * b * q * d
      beta(b, q)  == an2n * b * q * (b + q)
      dn1 == d * d * d
  IN  /\ dn1 + alpha(b0, q0) >= beta(b0, q0)
      /\ dn1 + alpha(b1, q1) <= beta(b1, q1)
      /\ dn1 + alpha(b1, q1 - 2 * mult) >= beta(b1, q1 - 2 * mult)

\* The Newton iteration of calc_stable_swap for the reserve left behind.
LeftFrom[k \in Nat, left \in Nat, b \in Nat, c \in Nat, d \in Nat] ==
  LET next == (left * left + c) \div (2 * left + b - d)
  IN  IF next = left THEN left
      ELSE IF k = 0 THEN 0 ELSE LeftFrom[k - 1, next, b, c, d]

StableLeft(b1, q0, an2n, d) ==
  LET ann == an2n \div 4
  IN  LeftFrom[32, q0, b1 + d \div ann, (((d * d * d) \div 4) \div b1) \div ann, d]

\* The reserves at or above Newton's that pass the exact check.
StableFits(b0, b1, q0, mult, an2n, d, left) ==
  {l \in left .. q0 : ExactInvariant(mult, b0, q0, b1, l, AtLeast(Invariant(b1, left, an2n), d), an2n)}

Lowest(fits) == CHOOSE l \in fits : \A m \in fits : l <= m

\* calc_stable_swap, given the invariant d before the swap and Newton's
\* reserve; output_amount pays 0 when the exact check has no answer.
StableOutputFrom(b0, b1, q0, mult, an2n, d, left) ==
  IF 2 * mult > left THEN 0 ELSE (q0 - Lowest(StableFits(b0, b1, q0, mult, an2n, d, left))) \div mult

StableOutputAt(b0, b1, q0, mult, an2n, d) ==
  StableOutputFrom(b0, b1, q0, mult, an2n, d, StableLeft(b1, q0, an2n, d))

StableOutput(b, bMult, q, qMult, an2n, amount) ==
  StableOutputAt(b * bMult, (b + amount) * bMult, q * qMult, qMult, an2n, Invariant(b * bMult, q * qMult, an2n))

\* The loops of calc_stable_swap come to an end and the output is defined.
StableSettles(b, bMult, q, qMult, an2n, amount) ==
  LET d    == Invariant(b * bMult, q * qMult, an2n)
      left == StableLeft((b + amount) * bMult, q * qMult, an2n, d)
  IN  /\ d # 0 /\ left # 0
      /\ Invariant((b + amount) * bMult, left, an2n) # 0
      /\ 2 * qMult <= left => StableFits(b * bMult, (b + amount) * bMult, q * qMult, qMult, an2n, d, left) # {}

\* calculate_context_values_list: the values above the invariant of the old
\* reserves that the exact check accepts for the new ones; the code takes the
\* first, and searches for ever when there is none.
StableContext(b0, bMult, q0, qMult, b1, q1, lpFee, an2n) ==
  LET noFee == q1 - ((q0 - q1) * lpFee) \div (FeeDen - lpFee) - 1
      d     == Invariant(b0 * bMult, q0 * qMult, an2n)
  IN  {e \in d .. d + 16 :
         ExactInvariant(qMult, b0 * bMult, q0 * qMult, b1 * bMult, noFee * qMult, e, an2n)}

\* stable_cfmm_reward_lp: the change of either side is returned as y's.
StableReward(rx, ry, lq, inX, inY) ==
  LET byX == (inX * lq) \div rx
      byY == (inY * lq) \div ry
  IN  [unlocked |-> IF byX < byY THEN byX ELSE byY,
       changeX  |-> 0,
       changeY  |-> IF byX = byY THEN 0
                    ELSE IF byX < byY THEN Minus(inY, (byX * ry) \div lq)
                    ELSE Minus(inX, (byY * rx) \div lq)]

-----------------------------------------------------------------------------
(* The degen pool sells an emission of y along p(s) = a*s^2 + b.           *)

\* What supply s of y has cost, in 1 / (3 * aDen) units of x.
CurveCost(a, b, aDen, s) == a * s * s * s + 3 * aDen * b * s

\* degen_quadratic_output_amount for x coming in: the most y it buys, however
\* much of it there is.
CurveBuy(a, b, aDen, supply, amount) ==
  LET afford(n) == CurveCost(a, b, aDen, supply + n) - CurveCost(a, b, aDen, supply)
                   <= 3 * aDen * amount
  IN  CHOOSE n \in 0 .. 3 * aDen * amount : afford(n) /\ ~ afford(n + 1)

\* Mutant: rounded up.
CurveSellUp(a, b, aDen, supply, amount) ==
  (CurveCost(a, b, aDen, supply) - CurveCost(a, b, aDen, supply - amount) + 3 * aDen - 1) \div (3 * aDen)

\* degen_quadratic_output_amount for y coming in: what the curve returns.
CurveSell(a, b, aDen, supply, amount) ==
  (CurveCost(a, b, aDen, supply) - CurveCost(a, b, aDen, supply - amount)) \div (3 * aDen)
=============================================================================
