------------------------- MODULE RecipeInterpreter -------------------------
(***************************************************************************)
(* From a matching attempt to a recipe: the operators of                   *)
(* liquidity_book/mod.rs and core.rs.  A take is [target, result], the     *)
(* order before and after; a make is [target, result] for the pool.  A     *)
(* batch holds its takes by order id, the ids in the order they joined,    *)
(* and at most one make.                                                   *)
(*                                                                         *)
(* execution_engine/interpreter.rs, instances.rs and execution_state.rs:   *)
(* a recipe becomes a transaction.  The takes reserve the transaction's    *)
(* fee out of their budgets before its size is known; the interpreter      *)
(* builds, estimates and corrects until reserve and estimate agree.        *)
(*                                                                         *)
(* A recipe in progress is [takes, make, residue, attempt, residual]:      *)
(* residue is what the operator keeps of the reserve, residual whether it  *)
(* may keep more (take_residual_fee).  The outputs of the orders are       *)
(* looked up by id.                                                        *)
(***************************************************************************)
EXTENDS ClassifiedPools, SequencesExt

CONSTANTS
  MaxBias,        \* MAX_BIAS_PERCENT
  MinSafeAda,     \* MIN_SAFE_LOVELACE_VALUE
  AdditionalFee,  \* ADDITIONAL_FEE
  MaxAttempts,    \* MAX_FEE_CORRECTION_ATTEMPTS
  FeeBase, FeeIo, FeeInput, FeeOutput,  \* what the ledger asks for a transaction
  WideCoin        \* coins from here on take one more byte

-----------------------------------------------------------------------------
(* Matching two orders.                                                    *)

RatLeq(r, s) == r[1] * s[2] <= s[1] * r[2]

Clamp(value, low, high) ==
  IF RatLeq(low, value) /\ RatLeq(value, high) THEN value
  ELSE IF RatLeq(low, value) THEN high ELSE low

\* settle_price: the spot price within the two limits, moved by at most
\* MaxBias percent in favour of the order that pays the larger fee.
BiasPercent(ask, bid) ==
  IF ask.fee < bid.fee THEN - ((ask.fee * 100) \div bid.fee)
  ELSE IF ask.fee = 0 THEN 0 ELSE (bid.fee * 100) \div ask.fee

\* Mutant: the price that was moved is not clamped again.
SettlePriceLoose(ask, bid, spot) ==
  LET pivot == Clamp(spot, AbsPrice(ask), AbsPrice(bid))
  IN  <<pivot[1] * (10000 + MaxBias * BiasPercent(ask, bid)), pivot[2] * 10000>>

SettlePrice(ask, bid, spot) ==
  LET pivot == Clamp(spot, AbsPrice(ask), AbsPrice(bid))
  IN  Clamp(<<pivot[1] * (10000 + MaxBias * BiasPercent(ask, bid)), pivot[2] * 10000>>,
            AbsPrice(ask), AbsPrice(bid))

LinearOutput(input, side, price) ==
  IF side = "Bid" THEN (input * price[2]) \div price[1] ELSE (input * price[1]) \div price[2]

\* execute_with_taker: the side that is filled completely sets the amounts.
ExecuteWithTaker(ask, bid, price) ==
  LET demand == LinearOutput(bid.input, "Bid", price)
  IN  IF ask.input < demand
      THEN [base |-> ask.input, quote |-> LinearOutput(ask.input, "Ask", price)]
      ELSE [base |-> demand, quote |-> bid.input]

\* The other side's best price, and whether the counter-order is preferred
\* to the pool's offer.
BetterPrice(o, p) == \* o and p on one side
  IF Side(o) = "Bid" THEN RatLeq(AbsPrice(p), AbsPrice(o)) ELSE RatLeq(AbsPrice(o), AbsPrice(p))

OrdersOverlap(target, counter) ==
  IF Side(target) = "Ask" THEN RatLeq(AbsPrice(target), AbsPrice(counter))
  ELSE RatLeq(AbsPrice(counter), AbsPrice(target))

BeatsOffer(counter, offer) ==
  LET price == IF Side(counter) = "Ask" THEN <<offer.input, offer.output>> ELSE <<offer.output, offer.input>>
  IN  IF Side(counter) = "Bid" THEN RatLeq(price, AbsPrice(counter)) ELSE RatLeq(AbsPrice(counter), price)

-----------------------------------------------------------------------------
(* The batch.                                                              *)

NoBatch == [ids |-> <<>>, takes |-> <<>>, make |-> {}]

InBatch(b, id) == \E i \in DOMAIN b.ids : b.ids[i] = id

\* add_take: combine keeps the first target and the last result.
AddTake(b, before, after) ==
  LET i == CHOOSE k \in DOMAIN b.ids : b.ids[k] = before.id
  IN  IF InBatch(b, before.id) THEN [b EXCEPT !.takes[i].result = after]
      ELSE [b EXCEPT !.ids = Append(@, before.id), !.takes = Append(@, [target |-> before, result |-> after])]

AddMake(b, before, after) ==
  [b EXCEPT !.make = IF @ = {} THEN {[target |-> before, result |-> after]}
                     ELSE {[m EXCEPT !.result = after] : m \in @}]

IsComplete(b) == Len(b.ids) > 1 \/ (Len(b.ids) = 1 /\ b.make # {})

Removed(t) == t.target.input - t.result.input
Added(t) == t.result.output - t.target.output
ConsumedFee(t) == t.target.fee - t.result.fee
ConsumedBudget(t) == t.target.budget - t.result.budget

\* MakeInProgress.finalized: the trades of a batch become one swap; what it
\* saves is the excess.  None when the one swap would cost more.
WithExcess(m, side, one) ==
  LET is   == LiquidityOf(m.result.inner)
      now  == LiquidityOf(one.inner)
      left == IF side = "Ask" THEN is.quote - now.quote ELSE is.base - now.base
  IN  IF left < 0 THEN {}
      ELSE {[make |-> [target |-> m.target, result |-> one],
             base |-> IF side = "Bid" THEN left ELSE 0, quote |-> IF side = "Ask" THEN left ELSE 0]}

MakeFinalized(m) ==
  LET was  == LiquidityOf(m.target.inner)
      is   == LiquidityOf(m.result.inner)
      side == IF is.base >= was.base THEN "Ask" ELSE "Bid"
      paid == IF side = "Ask" THEN is.base - was.base ELSE is.quote - was.quote
  IN  IF paid < 0 THEN {}
      ELSE WithExcess(m, side, [ClassifiedSwap(m.target, side, paid) EXCEPT !.pending = m.result.pending])

\* trade_side is none.
IsZeroMake(m) ==
  LET was == LiquidityOf(m.target.inner)
      is  == LiquidityOf(m.result.inner)
  IN  ~ \/ is.base < was.base /\ is.quote > was.quote
        \/ is.base > was.base /\ is.quote < was.quote

\* Mutant: what the rebalanced swap saved is not paid to the taker.
TakeFinalizedBare(t, excess) ==
  LET fee == OperatorFee(t.target, Removed(t))
      r   == WithBudgetCorrected(WithFeeCharged(t.result, fee), - ConsumableBudget(t.target))
  IN  [target |-> t.target, result |-> IF r.done THEN r ELSE TryTerminate(r)]

TakeFinalized(t, excess) ==
  LET fee == OperatorFee(t.target, Removed(t))
      r   == WithBudgetCorrected(WithFeeCharged(WithOutputAdded(t.result, excess), fee),
                                 - ConsumableBudget(t.target))
  IN  [target |-> t.target, result |-> IF r.done THEN r ELSE TryTerminate(r)]

Unsatisfied(t) == Added(t) < MinMarginalOutput(t.target)

\* What may come out of MatchmakingAttempt.finalized: the excess of a side goes
\* to whichever of its takes the hash map yields first, and must go somewhere.
Finalizations(b) ==
  LET outcomes == IF b.make = {} THEN {[make |-> {}, base |-> 0, quote |-> 0]}
                  ELSE {[e EXCEPT !.make = {@}] : e \in UNION {MakeFinalized(m) : m \in b.make}}
      on(side) == {i \in DOMAIN b.takes : Side(b.takes[i].target) = side}
      first(side) == IF on(side) = {} THEN {0} ELSE on(side)
  IN  {[make |-> e.make,
        takes |-> [i \in DOMAIN b.takes |->
                     TakeFinalized(b.takes[i], IF i = bid THEN e.base ELSE IF i = ask THEN e.quote ELSE 0)]]
         : e \in {o \in outcomes : (o.base > 0 => on("Bid") # {}) /\ (o.quote > 0 => on("Ask") # {})},
           ask \in first("Ask"), bid \in first("Bid")}

\* MatchmakingRecipe::try_from without the check of its complexity.
Acceptable(r) ==
  /\ \A i \in DOMAIN r.takes : ~ Unsatisfied(r.takes[i])
  /\ \A m \in r.make : ~ IsZeroMake(m)

-----------------------------------------------------------------------------
Total(seq) == FoldLeft(LAMBDA x, y : x + y, 0, seq)

-----------------------------------------------------------------------------
(* BatchExec of an order: what leaves its output and what is paid in.      *)

\* The ad-hoc fee of the part that was traded.
ProportionalFee(t) ==
  LET full == IF t.target.in = Native THEN t.target.adhoc
              ELSE IF t.target.out = Native THEN AdhocFeeOf(Added(t)) ELSE 0
  IN  (full * Removed(t)) \div t.target.input

Charged(t) ==
  ConsumedBudget(t) + ConsumedFee(t) + (IF t.target.kind = "limit" THEN 0 ELSE ProportionalFee(t))

Without(value, asset, amount) == [value EXCEPT ![asset] = @ - amount]
With(value, asset, amount)    == [value EXCEPT ![asset] = @ + amount]

\* sub_asset panics on what is not there: a limit order pays before it is
\* paid, an ad-hoc order after.
LimitValue(value, t) ==
  With(Without(Without(value, Native, Charged(t)), t.target.in, Removed(t)), t.target.out, Added(t))
AdhocValue(value, t) ==
  Without(With(Without(value, t.target.in, Removed(t)), t.target.out, Added(t)), Native, Charged(t))

Affordable(value, t) ==
  IF t.target.kind = "limit"
  THEN LET left == Without(value, Native, Charged(t))
       IN  left[Native] >= 0 /\ left[t.target.in] >= Removed(t)
  ELSE value[t.target.in] >= Removed(t) /\ AdhocValue(value, t)[Native] >= 0

\* Mutant: the new datum keeps the fee of the old one.
LimitResidueSameFee(u, t) ==
  [u EXCEPT !.value = LimitValue(@, t), !.tradable = t.result.input, !.state = "Subsequent"]

\* The output that takes an order's place: the order with a new datum, or what
\* its owner gets.
LimitResidue(u, t) ==
  [u EXCEPT !.value = LimitValue(@, t), !.tradable = t.result.input, !.fee = t.result.fee,
            !.state = "Subsequent"]
AdhocResidue(u, t) == [u EXCEPT !.value = AdhocValue(@, t)]
ResidualOutput(u, t) == IF t.target.kind = "limit" THEN LimitResidue(u, t) ELSE AdhocResidue(u, t)

\* BatchExec of a pool: its pending fee becomes the operator's.
PendingFee(r) == Total(SetToSeq({m.result.pending : m \in r.make}))
EmittedPool(m) == [m.result EXCEPT !.pending = 0]

\* execute: the reserve and the operator's interest add up over the recipe.
ReservedTxFee(r) == Total([i \in DOMAIN r.takes |-> ConsumedBudget(r.takes[i])])
OperatorInterest(r) ==
  Total([i \in DOMAIN r.takes |-> Charged(r.takes[i]) - ConsumedBudget(r.takes[i])]) + PendingFee(r)

-----------------------------------------------------------------------------
(* project_onto_builder: where the operator's interest goes.               *)

FundingIo(interest) ==
  IF interest = 0 THEN "notUsed" ELSE IF interest >= MinSafeAda THEN "added" ELSE "replaced"

\* The ledger's minimum for the transaction (the builder is a library): so much
\* per input and output, and for the width of the coins it writes.
Width(coin) == IF coin >= WideCoin THEN 1 ELSE 0

MinTxFee(r, orders, funding, interest) ==
  LET io   == FundingIo(interest)
      coin == IF io = "added" THEN interest ELSE IF io = "replaced" THEN funding + interest ELSE 0
  IN  FeeBase + FeeIo * (Len(r.takes) + (IF r.make = {} THEN 0 ELSE 1))
        + (IF io = "replaced" THEN FeeInput ELSE 0) + (IF io = "notUsed" THEN 0 ELSE FeeOutput) + Width(coin)
        + Total([i \in DOMAIN r.takes |->
                   Width(ResidualOutput(orders[r.takes[i].target.id], r.takes[i]).value[Native])])

EstimatedFee(r, orders, funding) ==
  MinTxFee(r, orders, funding, OperatorInterest(r) + r.residue) + AdditionalFee

FeeMismatch(r, estimated) == ReservedTxFee(r) - r.residue - estimated

-----------------------------------------------------------------------------
(* Correcting the reserve.                                                 *)

\* Take.scale_consumed_budget, Take.correct_consumed_budget.
ScaleConsumedBudget(t, numer, denom) ==
  [t EXCEPT !.result = WithBudgetCorrected(@, ConsumedBudget(t) - (ConsumedBudget(t) * numer) \div denom)]
CorrectConsumedBudget(t, delta) == [t EXCEPT !.result = WithBudgetCorrected(@, - delta)]

\* Mutant: only the first take absorbs.
AbsorbFirst(acc, t) ==
  LET u == IF acc.takes # <<>> THEN t ELSE CorrectConsumedBudget(t, - acc.rest)
  IN  [rest |-> acc.rest + ConsumedBudget(u) - ConsumedBudget(t), takes |-> Append(acc.takes, u)]

\* The second pass of balance_fee: each take absorbs what it can of the rest.
Absorb(acc, t) ==
  LET u == IF acc.rest = 0 THEN t ELSE CorrectConsumedBudget(t, - acc.rest)
  IN  [rest |-> acc.rest + ConsumedBudget(u) - ConsumedBudget(t), takes |-> Append(acc.takes, u)]

BalanceFee(r, mismatch, estimated) ==
  LET scaled == [i \in DOMAIN r.takes |-> ScaleConsumedBudget(r.takes[i], estimated, ReservedTxFee(r))]
      rest   == mismatch + Total([i \in DOMAIN r.takes |-> ConsumedBudget(scaled[i])]) - ReservedTxFee(r)
  IN  FoldLeft(Absorb, [rest |-> rest, takes |-> <<>>], scaled).takes

\* fee_balance_state: what must change for a correction to be progress.
FeeBalanceState(takes) ==
  [i \in DOMAIN takes |-> <<takes[i].result.done, ConsumedBudget(takes[i]), takes[i].result.budget>>]

\* decide_fee_correction.
DecideFeeCorrection(r, mismatch) ==
  CASE mismatch = 0                  -> "Complete"
    [] mismatch > 0 /\ r.residual    -> "KeepResidue"
    [] mismatch < 0 /\ r.residue > 0 -> "RefundResidue"
    [] OTHER                         -> "Rebalance"
=============================================================================
