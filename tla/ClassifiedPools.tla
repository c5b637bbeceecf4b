-------------------------- MODULE ClassifiedPools --------------------------
(***************************************************************************)
(* Pools as the engine of limit orders sees them: pools/classified.rs over *)
(* the pools of PoolOps.  A pool that graduated from the launchpad pays    *)
(* the operator a percentage of the ADA side of every limit order it       *)
(* fills.  The fee of the trades of one attempt is pending until the       *)
(* transaction is built.                                                   *)
(***************************************************************************)
EXTENDS PoolOps, LimitOrders

\* liquidity: the reserves in canonical order.
ConstFnLiquidity(p) ==
  IF IsBase(p.x, p.y) THEN [base |-> p.rx, quote |-> p.ry] ELSE [base |-> p.ry, quote |-> p.rx]
\* A degen pool shows its ADA without the part it keeps.
DegenLiquidity(p) == [base |-> Minus(p.rx, MinAda), quote |-> p.ry]
LiquidityOf(p) == IF p.kind = "degen" THEN DegenLiquidity(p) ELSE ConstFnLiquidity(p)

\* static_price: quote per base at the margin.
StaticPrice(p) ==
  LET v == IF p.kind \in ConstFn THEN View(p) ELSE [x |-> p.rx, y |-> p.ry]
  IN  IF v.x = v.y THEN <<1, 1>> ELSE IF IsBase(p.x, p.y) THEN <<v.y, v.x>> ELSE <<v.x, v.y>>

\* estimated_trade.
EstimatedOutput(p, side, amount) == OutputAmount(p, InX(p, side), amount)

\* real_price, as the output it promises: a bid has none when it gets nothing.
RealPrice(p, side, amount) ==
  {o \in IF p.kind = "degen" THEN DegenRealOutput(p, side, amount) ELSE {EstimatedOutput(p, side, amount)}
     : side = "Ask" \/ o > 0}

\* loss: what the pool gave away; a base reserve that did not grow decides.
Loss(before, after) ==
  LET b == LiquidityOf(before)
      a == LiquidityOf(after)
  IN  IF b.base >= a.base THEN b.base - a.base
      ELSE IF b.quote >= a.quote THEN b.quote - a.quote ELSE 0

-----------------------------------------------------------------------------
\* GraduatedPoolFeeConfig.fee.
GraduatedFee(c, amount) == IF c.enabled THEN (amount * c.percent) \div 100 ELSE 0

FeeApplicable(c, o) == c.graduated /\ c.enabled /\ o.kind = "limit"

NetAmountAfterOperatorFee(gross, fee) == {n \in {gross - fee} : n > 0}

TradeAssets(c, side) ==
  LET base == IF IsBase(c.inner.x, c.inner.y) THEN c.inner.x ELSE c.inner.y
      quote == IF IsBase(c.inner.x, c.inner.y) THEN c.inner.y ELSE c.inner.x
  IN  IF side = "Ask" THEN <<base, quote>> ELSE <<quote, base>>

\* What a match with a pool leaves: the pool, what the taker gave and got and
\* the fee it owes the operator.
Matched(c, removed, added, fee) == [pool |-> c, removed |-> removed, added |-> added, fee |-> fee]

ClassifiedSwap(c, side, amount) == [c EXCEPT !.inner = SwapPool(@, side, amount), !.pending = 0]

Swapped(c, next, amount, fee) == Matched(next, amount, Loss(c.inner, next.inner), fee)

DefaultSwapWithTaker(c, side, amount) == Swapped(c, ClassifiedSwap(c, side, amount), amount, 0)

NoTrade(c) == Matched(c, 0, 0, 0)

\* Mutant: a pool takes one fee per batch.
AccumulatesOnce(c, fee) == c.pending = 0

\* accumulated_operator_fee: none when the word overflows.
Accumulates(c, fee) == c.pending + fee < Word

\* Mutant: the fee of the latest trade replaces those pending.
WithLatestFee(c, inner, fee) == [c EXCEPT !.inner = inner, !.pending = fee]

\* with_inner_and_added_operator_fee.
WithAddedFee(c, inner, fee) == [c EXCEPT !.inner = inner, !.pending = @ + fee]

\* ADA comes in: the fee is taken from it before the swap.
SwapNetInput(c, side, gross) ==
  LET fee == GraduatedFee(c, gross)
  IN  IF NetAmountAfterOperatorFee(gross, fee) = {} \/ ~ Accumulates(c, fee) THEN NoTrade(c)
      ELSE Swapped(c, WithAddedFee(c, SwapPool(c.inner, side, gross - fee), fee), gross, fee)

\* ADA goes out: the fee is taken from what the swap paid.
NetOutput(c, inner, amount) ==
  LET gross == Loss(c.inner, inner)
      fee   == GraduatedFee(c, gross)
  IN  IF NetAmountAfterOperatorFee(gross, fee) = {} \/ ~ Accumulates(c, fee) THEN NoTrade(c)
      ELSE Matched(WithAddedFee(c, inner, fee), amount, gross - fee, fee)

SwapNetOutput(c, side, amount) == NetOutput(c, SwapPool(c.inner, side, amount), amount)

SwapWithTaker(c, o, side, amount) ==
  IF ~ FeeApplicable(c, o) THEN DefaultSwapWithTaker(c, side, amount)
  ELSE IF TradeAssets(c, side)[1] = Native THEN SwapNetInput(c, side, amount)
  ELSE IF TradeAssets(c, side)[2] = Native THEN SwapNetOutput(c, side, amount)
  ELSE NoTrade(c)

\* effective_price, as the output for a gross input: {} when there is none.
EffectiveOfInput(c, side, gross, fee) ==
  {x \in {EstimatedOutput(c.inner, side, net) : net \in NetAmountAfterOperatorFee(gross, fee)}
     : Accumulates(c, fee) /\ (side = "Ask" \/ x > 0)}

EffectiveOfOutput(c, gross) ==
  LET fee == GraduatedFee(c, gross)
  IN  {x \in NetAmountAfterOperatorFee(gross, fee) : Accumulates(c, fee)}

EffectiveOutput(c, o, side, gross) ==
  IF ~ FeeApplicable(c, o) THEN RealPrice(c.inner, side, gross)
  ELSE IF TradeAssets(c, side)[1] = Native THEN EffectiveOfInput(c, side, gross, GraduatedFee(c, gross))
  ELSE IF TradeAssets(c, side)[2] = Native THEN EffectiveOfOutput(c, EstimatedOutput(c.inner, side, gross))
  ELSE {}

-----------------------------------------------------------------------------
(* preselect_market_maker for the one pool of a pair: the input it would   *)
(* take from an order and the output it promises.                          *)

DummySwap(c, o) ==
  {[input |-> o.input, output |-> x] : x \in EffectiveOutput(c, o, Side(o), o.input)}

\* The inner pool's liquidity at the order's price; when the effective price
\* has no answer the pool's own estimate is used.
Promised(o, a, effective) ==
  {[input |-> a.input, output |-> x]
     : x \in IF effective # {} THEN effective ELSE {y \in {a.output} : Side(o) = "Ask" \/ y > 0}}

TryOptimizedSwap(c, o) ==
  UNION {Promised(o, a, EffectiveOutput(c, o, Side(o), a.input))
           : a \in {l \in Available(c.inner, Side(o), o.price[1], o.price[2]) : l.input > 0 /\ o.input >= l.input}}

\* The search of a degen pool's available_liquidity_on_side is not modelled:
\* any part of the order may be what it finds.
DegenPreviews(c, o) ==
  UNION {{[input |-> i, output |-> x] : x \in EffectiveOutput(c, o, Side(o), i)} : i \in 1 .. o.input}

\* overlaps: the promised output is at least the order's price.
Overlaps(o, preview) == o.price[1] * preview.input <= preview.output * o.price[2]

Preselected(c, o, best) ==
  {f \in IF best # {} THEN best ELSE DummySwap(c, o) : IsActive(c.inner) /\ Overlaps(o, f)}

Preselect(c, o, optimized) ==
  Preselected(c, o, IF ~ optimized THEN {}
                    ELSE IF c.inner.kind = "degen" THEN DegenPreviews(c, o) ELSE TryOptimizedSwap(c, o))
=============================================================================
