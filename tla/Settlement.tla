----------------------------- MODULE Settlement -----------------------------
(***************************************************************************)
(* Orders and a pool of one pair, settled: the book is filled from the     *)
(* ledger, an attempt matches orders with each other and with the pool,    *)
(* the batch becomes a recipe, the recipe a transaction whose fee is       *)
(* corrected step by step, and the transaction moves the ledger.  Which    *)
(* taker an attempt picks next and when it stops is LiquidityBook's        *)
(* subject: here it may pick any and stop anywhere.                        *)
(*                                                                         *)
(* An order that was executed stays in the book as predicted until the     *)
(* ledger's version replaces it (Refresh).                                 *)
(***************************************************************************)
EXTENDS RecipeInterpreter

CONSTANTS
  Scenarios,  \* [orders, pool, o2o, residual, funding] the system may start in
  MaxTxs      \* transactions per behaviour

VARIABLES
  env,      \* the scenario
  orders,   \* order id -> its output; the owner's once the order has ended
  live,     \* ids of the orders that have not ended
  pool,     \* the pool's output
  operator, \* the operator's ADA: the funding output and what was paid out
  burnt,    \* transaction fees
  mem,      \* order id -> the bot's view of it, {} for none
  phase,    \* idle, matching, fees, built, failed, panic
  optimized,
  book, cur, batch, \* the attempt: what is left of the orders, the pool, the matches
  recipe,
  due,      \* history: what the pool owes the operator for the current batch
  charged,  \* history: order id -> the budget and the fee it paid
  earned,   \* history: what the operator should have
  txs

vars == <<env, orders, live, pool, operator, burnt, mem, phase, optimized, book, cur, batch, recipe,
          due, charged, earned, txs>>

Ids == DOMAIN orders

NoRecipe == [takes |-> <<>>, make |-> {}, residue |-> 0, attempt |-> 0, residual |-> FALSE]

Init ==
  /\ env \in Scenarios
  /\ orders = env.orders /\ live = DOMAIN orders
  /\ pool = env.pool
  /\ operator = [funding |-> env.funding, rewards |-> 0] /\ burnt = 0
  /\ mem = [i \in DOMAIN orders |-> OrderFromLedger(orders[i])]
  /\ phase = "idle" /\ optimized = TRUE
  /\ book = mem /\ cur = pool /\ batch = NoBatch /\ recipe = NoRecipe
  /\ due = 0 /\ charged = [i \in DOMAIN orders |-> [budget |-> 0, fee |-> 0]] /\ earned = 0
  /\ txs = 0

ledger  == <<orders, live, pool, operator, burnt, charged, earned, txs>>
attempt == <<book, cur, batch, due>>

-----------------------------------------------------------------------------
(* The ledger's version of an order reaches the bot.                       *)
Refresh(i) ==
  /\ phase = "idle" /\ i \in live
  /\ mem[i] # OrderFromLedger(orders[i])
  /\ mem' = [mem EXCEPT ![i] = OrderFromLedger(orders[i])]
  /\ UNCHANGED <<env, ledger, phase, optimized, attempt, recipe>>

Begin ==
  /\ phase = "idle" /\ txs < MaxTxs
  /\ phase' = "matching" /\ optimized' \in BOOLEAN
  /\ book' = mem /\ cur' = pool /\ batch' = NoBatch /\ due' = 0
  /\ UNCHANGED <<env, ledger, mem, recipe>>

Waiting(side) == {o \in UNION {book[i] : i \in Ids} : Side(o) = side}

Offers(o) == Preselect(cur, o, optimized)

\* The best order of the other side, when it is preferred to the pool.
Counters(o, offer) ==
  {c \in Waiting(Opposite(Side(o))) :
     /\ env.o2o
     /\ \A d \in Waiting(Opposite(Side(o))) : BetterPrice(c, d)
     /\ OrdersOverlap(o, c)
     /\ BeatsOffer(c, offer)}

\* on_take: what is left of an order goes back to the book.
Kept(o) == IF o.done THEN {} ELSE {o}

MatchOrders(i) ==
  /\ phase = "matching"
  /\ \E o \in book[i] : \E offer \in Offers(o) : \E c \in Counters(o, offer) :
       LET ask   == IF Side(o) = "Ask" THEN o ELSE c
           bid   == IF Side(o) = "Ask" THEN c ELSE o
           trade == ExecuteWithTaker(ask, bid, SettlePrice(ask, bid, StaticPrice(cur.inner)))
           ask2  == WithAppliedTrade(ask, trade.base, trade.quote)
           bid2  == WithAppliedTrade(bid, trade.quote, trade.base)
       IN  /\ batch' = AddTake(AddTake(batch, ask, ask2), bid, bid2)
           /\ book' = [book EXCEPT ![ask.id] = Kept(ask2), ![bid.id] = Kept(bid2)]
  /\ UNCHANGED <<env, ledger, mem, phase, optimized, cur, recipe, due>>

\* An order and what a swap with the pool made of both.
Fill(o, swap) ==
  LET taken == IF swap.removed = 0 THEN o ELSE WithAppliedTrade(o, swap.removed, swap.added)
  IN  /\ batch' = AddTake(AddMake(batch, cur, swap.pool), o, taken)
      /\ book' = [book EXCEPT ![o.id] = Kept(taken)]
      /\ cur' = swap.pool
      /\ due' = due + swap.fee

MatchPool(i) ==
  /\ phase = "matching"
  /\ \E o \in book[i] : \E offer \in Offers(o) :
       Counters(o, offer) = {} /\ Fill(o, SwapWithTaker(cur, o, Side(o), offer.input))
  /\ UNCHANGED <<env, ledger, mem, phase, optimized, recipe>>

\* The attempt ends without a recipe: nothing matched, a taker is left
\* unsatisfied, a make is zero or the recipe is too complex.
Discard ==
  /\ phase = "matching" /\ phase' = "idle"
  /\ batch' = NoBatch /\ book' = mem /\ cur' = pool /\ due' = 0
  /\ UNCHANGED <<env, ledger, mem, optimized, recipe>>

Form ==
  /\ phase = "matching" /\ IsComplete(batch)
  /\ \E f \in Finalizations(batch) :
       /\ Acceptable(f)
       /\ recipe' = [takes |-> f.takes, make |-> f.make, residue |-> 0, attempt |-> 0, residual |-> env.residual]
  /\ phase' = "fees"
  /\ UNCHANGED <<env, ledger, mem, optimized, attempt>>

-----------------------------------------------------------------------------
(* execute_recipe: one pass of building, estimating and correcting.        *)

\* Rebalanced(r, mismatch, estimated): the recipe with its reserve corrected.
Rebalanced(r, mismatch, estimated) ==
  [r EXCEPT !.takes = BalanceFee(r, mismatch, estimated), !.attempt = @ + 1, !.residual = FALSE]

Corrected(r, decision, mismatch, estimated) ==
  CASE decision = "KeepResidue"   -> [r EXCEPT !.residue = @ + mismatch, !.attempt = @ + 1]
    [] decision = "RefundResidue" -> [r EXCEPT !.residue = @ - Least(- mismatch, @), !.attempt = @ + 1]
    [] decision = "Rebalance"     -> Rebalanced(r, mismatch, estimated)
    [] decision = "Complete"      -> r

\* What makes a pass panic: an order's output that cannot pay, a budget that
\* grew, a ratio over an empty reserve.
Panics(r, decision) ==
  \/ \E i \in DOMAIN r.takes : ~ Affordable(orders[r.takes[i].target.id].value, r.takes[i])
  \/ \E i \in DOMAIN r.takes : ConsumedBudget(r.takes[i]) < 0
  \/ decision = "Rebalance" /\ ReservedTxFee(r) = 0

NoProgress(r, decision, next) ==
  decision = "Rebalance" /\ FeeBalanceState(next.takes) = FeeBalanceState(r.takes)

Pass(r, estimated, mismatch, decision) ==
  IF Panics(r, decision) THEN phase' = "panic" /\ recipe' = r
  ELSE IF mismatch # 0 /\ r.attempt >= MaxAttempts THEN phase' = "failed" /\ recipe' = r
  ELSE LET next == Corrected(r, decision, mismatch, estimated)
       IN  /\ recipe' = next
           /\ phase' = IF decision = "Complete" THEN "built"
                       ELSE IF NoProgress(r, decision, next) THEN "failed" ELSE "fees"

CorrectFee ==
  /\ phase = "fees"
  /\ LET estimated == EstimatedFee(recipe, orders, operator.funding)
         mismatch  == FeeMismatch(recipe, estimated)
     IN  Pass(recipe, estimated, mismatch, DecideFeeCorrection(recipe, mismatch))
  /\ UNCHANGED <<env, ledger, mem, optimized, attempt>>

-----------------------------------------------------------------------------
(* The transaction reaches the ledger, or does not.                        *)

Interest == OperatorInterest(recipe) + recipe.residue

TakeOf(i) == {recipe.takes[k] : k \in {n \in DOMAIN recipe.takes : recipe.takes[n].target.id = i}}

Land ==
  /\ phase = "built" /\ phase' = "idle"
  /\ orders' = [i \in Ids |-> IF TakeOf(i) = {} THEN orders[i]
                              ELSE ResidualOutput(orders[i], CHOOSE t \in TakeOf(i) : TRUE)]
  /\ live' = {i \in live : \A t \in TakeOf(i) : ~ t.result.done}
  /\ mem' = [i \in Ids |-> IF TakeOf(i) = {} THEN mem[i]
                           ELSE UNION {Kept(t.result) : t \in TakeOf(i)}]
  /\ pool' = IF recipe.make = {} THEN pool ELSE EmittedPool(CHOOSE m \in recipe.make : TRUE)
  /\ operator' = IF FundingIo(Interest) = "replaced" THEN [operator EXCEPT !.funding = @ + Interest]
                 ELSE [operator EXCEPT !.rewards = @ + Interest]
  /\ burnt' = burnt + EstimatedFee(recipe, orders, operator.funding)
  /\ charged' = [i \in Ids |->
       IF TakeOf(i) = {} THEN charged[i]
       ELSE LET t == CHOOSE x \in TakeOf(i) : TRUE
            IN  [budget |-> charged[i].budget + ConsumedBudget(t), fee |-> charged[i].fee + ConsumedFee(t)]]
  /\ earned' = earned + due + recipe.residue + OperatorInterest(recipe) - PendingFee(recipe)
  /\ txs' = txs + 1
  /\ book' = mem' /\ cur' = pool' /\ batch' = NoBatch /\ due' = 0 /\ recipe' = NoRecipe
  /\ UNCHANGED <<env, optimized>>

Reject ==
  /\ phase = "built" /\ phase' = "idle"
  /\ batch' = NoBatch /\ book' = mem /\ cur' = pool /\ due' = 0 /\ recipe' = NoRecipe
  /\ txs' = txs + 1
  /\ UNCHANGED <<env, orders, live, pool, operator, burnt, charged, earned, mem, optimized>>

Next ==
  \/ \E i \in Ids : Refresh(i) \/ MatchOrders(i) \/ MatchPool(i)
  \/ Begin \/ Discard \/ Form \/ CorrectFee \/ Land \/ Reject

Spec == Init /\ [][Next]_vars

-----------------------------------------------------------------------------
(* Properties.                                                             *)

\* All there is of an asset: in the orders or with their owners, in the pool,
\* with the operator, and paid in fees.
Held(a) ==
  MapThenSumSet(LAMBDA i : orders[i].value[a], Ids)
    + (IF a = pool.inner.x THEN pool.inner.rx ELSE IF a = pool.inner.y THEN pool.inner.ry ELSE 0)
    + (IF a = Native THEN operator.funding + operator.rewards + burnt ELSE 0)

\* No step creates or loses value: what the recipe takes from orders and pool
\* is what it pays out plus the fee, whatever was rounded, left over by the
\* rebalanced swap, kept as residue or pending for the operator.
ValueConserved == [][\A a \in Assets : Held(a)' = Held(a)]_vars

\* Every order a transaction fills gets at least the price in its datum for
\* what it gives, through any number of matches with other orders and with
\* the pool in one batch ("at a configured or better price").
PriceRespected ==
  phase = "built" =>
    \A k \in DOMAIN recipe.takes :
      LET t == recipe.takes[k]
          u == orders[t.target.id]
      IN  Added(t) * u.den >= Removed(t) * u.num

\* Over all its fills an order pays no more fee than it declared, and no more
\* budget than it came with unless it buys ADA.
NeverOvercharged ==
  \A i \in Ids : \A o \in OrderFromLedger(env.orders[i]) :
    /\ charged[i].fee <= o.fee
    /\ o.out # Native => charged[i].budget <= o.budget

\* A limit order that is filled completely has paid its fee once, in shares
\* proportional to the fills.
FeeOnce ==
  \A i \in Ids \ live :
    env.orders[i].script = "limit" /\ orders[i].tradable = 0 => charged[i].fee = env.orders[i].fee

\* The operator is paid exactly the fees of the orders, the residue and the
\* pool's fee of every trade of the batch: a pending fee is consumed once,
\* although the recipe is executed anew at every correction.
OperatorPaid == operator.funding + operator.rewards - env.funding = earned

\* The order the bot predicted is the order it reads back, up to the ADA an
\* order has bought.
RereadAgrees ==
  phase = "idle" =>
    \A i \in live : \A o \in mem[i] : \A r \in OrderFromLedger(orders[i]) :
      /\ r.input = o.input /\ r.fee = o.fee
      /\ o.out # Native => r.output = o.output /\ r.budget = o.budget

\* Fees and budgets are charged once and to the right party, over any number
\* of transactions.
FeesExact == NeverOvercharged /\ FeeOnce /\ OperatorPaid /\ RereadAgrees

\* The budgets of the recipe cannot pay the transaction.
Underfunded ==
  Total([k \in DOMAIN recipe.takes |-> recipe.takes[k].target.budget])
    < EstimatedFee(recipe, orders, operator.funding)

\* The next correction would change the size of the transaction.
SizeMoves ==
  LET estimated == EstimatedFee(recipe, orders, operator.funding)
      mismatch  == FeeMismatch(recipe, estimated)
      next      == Corrected(recipe, DecideFeeCorrection(recipe, mismatch), mismatch, estimated)
  IN  EstimatedFee(next, orders, operator.funding) # estimated

\* The correction gives up only when the budgets of the recipe do not cover
\* the transaction, or correcting the fee keeps changing what the fee is (run
\* panics then too); and the interpreter meets no other panic on a recipe whose
\* orders can pay a step.
CorrectionEnds ==
  /\ phase = "failed" => Underfunded \/ SizeMoves
  /\ phase = "panic" => \E k \in DOMAIN recipe.takes :
                          recipe.takes[k].target.budget < ConsumableBudget(recipe.takes[k].target)

\* Every match trades: the input waiting in the book goes down, so that an
\* attempt ends.
InputWaiting == MapThenSumSet(LAMBDA i : Total(SetToSeq({o.input : o \in book[i]})), Ids)
MatchTrades == [][phase = "matching" /\ phase' = "matching" => InputWaiting' < InputWaiting]_vars
=============================================================================
