---------------------------- MODULE LimitOrders ----------------------------
(***************************************************************************)
(* The orders of the execution engine: orders/limit.rs, instant.rs,        *)
(* adhoc.rs and mod.rs.  A limit order is filled in any number of steps,   *)
(* an instant (ad-hoc) order in one.                                       *)
(*                                                                         *)
(* An order output has a script, a value and a datum whose fields are the  *)
(* fields of the record: num / den is base_price (output per input), mine  *)
(* that this bot is a permitted executor, state what order_state finds for *)
(* the beacon, staked that the redeemer's address has a stake part.        *)
(* A parsed order carries done: FALSE is Next::Succ, TRUE the TerminalTake *)
(* with the same amounts.  Amounts the code subtracts unchecked go through *)
(* Minus.                                                                  *)
(***************************************************************************)
EXTENDS PoolLedger

CONSTANTS
  MinLovelace,    \* limit.rs MIN_LOVELACE
  MinCost,        \* LimitOrderValidation.min_cost_per_ex_step
  MinFee,         \* LimitOrderValidation.min_fee_lovelace
  InstantMinLov,  \* InstantOrderValidation.min_lovelace
  ExecBudget,     \* InstantOrderValidation.min_execution_budget_lovelace
  AdhocFee,       \* AdhocFeeStructure.relative_fee_bps
  AdhocDen,       \* its denominator, 10_000
  MaxPriceDenom

Least(a, b) == IF a <= b THEN a ELSE b

\* harden_price: the least integer output for all of the input, per input.
HardenPrice(num, den, input) ==
  LET out == (input * num + den - 1) \div den
  IN  IF out > 0 THEN <<out, input>> ELSE <<1, MaxPriceDenom>>

LinearOutputRelative(input, num, den) == (input * num) \div den

Side(o) == IF IsBase(o.in, o.out) THEN "Ask" ELSE "Bid"
Opposite(side) == IF side = "Ask" THEN "Bid" ELSE "Ask"

\* AbsolutePrice::from_price: quote per base.
AbsPrice(o) == IF Side(o) = "Ask" THEN o.price ELSE <<o.price[2], o.price[1]>>

-----------------------------------------------------------------------------
(* try_from_ledger: {} when the output is not an order this bot executes.  *)

\* The lovelace that is neither fee nor budget: what stays with the order and
\* what it trades.
ReservedAda(u) ==
  CASE u.in = Native  -> MinLovelace + u.tradable
    [] u.out = Native -> 0
    [] OTHER          -> MinLovelace

SufficientFee(u) == u.state = "Subsequent" \/ u.fee >= MinFee

LimitFromLedger(u) ==
  LET budget == u.value[Native] - ReservedAda(u) - u.fee
      base   == LinearOutputRelative(u.tradable, u.num, u.den)
      marg   == Least(u.marg, base)
  IN  IF /\ u.script = "limit" /\ Has(u, u.in)
         /\ budget >= 0 /\ marg > 0 /\ u.cost > 0
         /\ u.value[u.in] >= u.tradable
         /\ budget \div u.cost >= base \div marg
         /\ SufficientFee(u)
         /\ u.mine
         /\ u.cost >= MinCost /\ budget >= u.cost
         /\ u.state # "Invalid"
      THEN {[id |-> u.id, kind |-> "limit", in |-> u.in, out |-> u.out,
             input |-> u.tradable, output |-> u.value[u.out],
             price |-> HardenPrice(u.num, u.den, u.tradable), budget |-> budget, fee |-> u.fee,
             cost |-> u.cost, marg |-> marg, adhoc |-> 0, done |-> FALSE]}
      ELSE {}

InstantFromLedger(u) ==
  LET tradable == IF u.in = Native THEN Minus(u.value[Native], u.fee + u.cost) ELSE u.value[u.in]
  IN  IF /\ u.script = "instant" /\ Has(u, u.in)
         /\ u.value[u.in] >= tradable
         /\ u.mine
         /\ u.cost >= InstantMinLov
      THEN {[id |-> u.id, kind |-> "instant", in |-> u.in, out |-> u.out,
             input |-> tradable, output |-> u.value[u.out],
             price |-> HardenPrice(u.num, u.den, tradable), budget |-> ExecBudget,
             fee |-> Minus(u.fee, ExecBudget), cost |-> 0, marg |-> 0, adhoc |-> 0, done |-> FALSE]}
      ELSE {}

AdhocFeeOf(body) == (body * AdhocFee) \div AdhocDen
SubtractAdhocFee(body) == body - AdhocFeeOf(body)

\* An ad-hoc order trades what is left of its ADA after the ad-hoc fee.
AdhocFromLedger(u) ==
  {[o EXCEPT !.input = IF o.in = Native THEN SubtractAdhocFee(@) ELSE @,
             !.adhoc = IF o.in = Native THEN o.input - SubtractAdhocFee(o.input) ELSE 0]
     : o \in {i \in InstantFromLedger(u) : u.staked}}

\* The agent of limit orders parses nothing else; neither does the other.
OrderFromLedger(u) == IF u.script = "limit" THEN LimitFromLedger(u) ELSE AdhocFromLedger(u)

-----------------------------------------------------------------------------
(* TakerBehaviour and MarketTaker.                                         *)

LimitTraded(o, removed, added) ==
  [o EXCEPT !.input = Minus(@, removed), !.output = @ + added, !.done = Minus(o.input, removed) = 0]

\* An instant order ends with its first trade.
InstantTraded(o, removed, added) ==
  [o EXCEPT !.input = Minus(@, removed), !.output = @ + added, !.done = TRUE]

WithAppliedTrade(o, removed, added) ==
  IF o.kind = "limit" THEN LimitTraded(o, removed, added) ELSE InstantTraded(o, removed, added)

\* Mutant: the correction is applied without a floor.
WithBudgetAdjusted(o, delta) == [o EXCEPT !.budget = @ + delta]

\* The budget does not go below 0; the caller learns what was really moved.
WithBudgetCorrected(o, delta) == [o EXCEPT !.budget = AtLeast(@ + delta, 0)]
WithFeeCharged(o, fee) == [o EXCEPT !.fee = Minus(@, fee)]
WithOutputAdded(o, added) == [o EXCEPT !.output = @ + added]

\* A limit order that cannot pay another step ends.
TryTerminate(o) == [o EXCEPT !.done = o.kind = "instant" \/ o.budget < o.cost]

\* Mutant: a remainder of the input still owes a share.
OperatorFeeOfRest(o, consumed) == (o.fee * consumed) \div (o.input + 1)

OperatorFee(o, consumed) ==
  IF o.input = 0 THEN 0 ELSE Least(o.fee * consumed, Word - 1) \div o.input

ConsumableBudget(o) == IF o.kind = "limit" THEN o.cost ELSE o.budget
MinMarginalOutput(o) == IF o.kind = "limit" THEN o.marg ELSE o.price[1] \div o.price[2]
=============================================================================
