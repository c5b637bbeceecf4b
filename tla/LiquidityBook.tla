--------------------------- MODULE LiquidityBook ---------------------------
(***************************************************************************)
(* One liquidity book (TLB, bloom-offchain) and the feedback it gets for   *)
(* the recipes it forms.  `attempt' is one synchronous call in the code;   *)
(* here each pass of its matchmaking loop, and each verdict on the batch   *)
(* the loop collected, is a step, so that the retries can be watched.      *)
(*                                                                         *)
(* Amounts are small numbers.  The price curves of the pools are left      *)
(* open: a preselected maker offers any price that overlaps the taker's    *)
(* and, when matchmaking is optimized, any part of the input (otherwise    *)
(* all of it), or, when optimized, is offered by its spot price and then   *)
(* does not trade at all; the spot price decides between the best ask and  *)
(* the best bid either way; which takers fall short of their minimal       *)
(* output, and which run out of budget, is open too.                       *)
(***************************************************************************)
EXTENDS TLBStateOps, FiniteSets, Integers

CONSTANTS TakerId,      \* stable ids of takers
          Mid,          \* stable ids of makers
          Ask,          \* the takers that sell base; the others bid
          PriceOf,      \* [TakerId -> Price]
          Price,        \* prices, a set of numbers
          MaxInput,     \* bound on the input of a taker
          Fees,         \* fees of takers, a set of numbers
          Revs,         \* states of a pool
          MaxNow,       \* bound on the clock
          ExUnitsSoftCap, \* execution_cap.soft, in takers and makers touched
          MaxTakes,     \* takers per batch (15 in the code)
          O2OAllowed,   \* conf.o2o_allowed
          Budget,       \* [TakerId -> Nat]: consumable_budget of a taker
          BaseBudget,   \* BaseStepBudget
          Term          \* terminal state of a taker

ASSUME LiquidityBookAssumption ==
    /\ Ask \subseteq TakerId
    /\ PriceOf \in [TakerId -> Price]
    /\ LowerBound \in [TakerId -> Nat]
    /\ MaxInput \in Nat \ {0}
    /\ MaxNow \in Nat
    /\ Budget \in [TakerId -> Nat]
    /\ BaseBudget \in Nat \ {0}
    /\ \A f \in Fees : f \in Nat
    /\ Term \notin [sid : TakerId, fee : Nat, input : Nat]

VARIABLES
    tlb,        \* state
    pc,         \* "idle", inside attempt: "matching" (the loop) or "batched"
                \* (it ended), or "recipe" (a recipe is pending)
    takes,      \* batch.takes: stable id -> target and result
    makes,      \* batch.makes
    optimized,  \* optimized_matchmaking
    saved,      \* history: the book when the attempt began
    barren      \* the last pass of the loop moved nothing, the next ones
                \* repeat it

bookVars == <<tlb, pc, takes, makes, optimized, saved, barren>>
batch == <<takes, makes>>

MakerState == [mid : Mid, rev : Revs]
EmptyBatch == <<>>

BookInit ==
    /\ tlb = NewTLBState(0)
    /\ pc = "idle"
    /\ takes = EmptyBatch
    /\ makes = EmptyBatch
    /\ optimized = TRUE
    /\ saved = NewTLBState(0)
    /\ barren = FALSE

-----------------------------------------------------------------------------
(* ExternalLBEvents.  The executor passes an event on when no recipe is    *)
(* pending; a taker enters the book when its order is not there.           *)

SidsOf(S) == {t.sid : t \in S}

(* attempt and the recipe it returned are over. *)
Leave ==
    /\ pc' = "idle"
    /\ takes' = EmptyBatch
    /\ makes' = EmptyBatch
    /\ optimized' = TRUE
    /\ saved' = NewTLBState(0)
    /\ barren' = FALSE

(* Each of them changes the state of an idle book; on any other state the  *)
(* code panics (requiring_settled_state).                                  *)
Mutate(new) ==
    /\ tlb' = new
    /\ UNCHANGED <<pc, batch, optimized, saved, barren>>

UpdateTaker(t) ==
    /\ pc = "idle"
    /\ t.sid \notin SidsOf(tlb.takers \cup tlb.inactive)
    /\ Mutate(AddFragment(tlb, t))

RemoveTaker(t) ==
    /\ pc = "idle"
    /\ t \in tlb.takers \cup tlb.inactive
    /\ Mutate(RemoveFragment(tlb, t))

UpdateMaker(m) ==
    /\ pc = "idle"
    /\ Mutate([tlb EXCEPT !.makers = UpdatePool(@, m)])

RemoveMaker(m) ==
    /\ pc = "idle"
    /\ Mutate([tlb EXCEPT !.makers = RemovePool(@, m)])

AdvanceClock ==
    /\ pc = "idle"
    /\ \E time \in (tlb.now + 1)..MaxNow : Mutate(AdvanceClocks(tlb, time))

-----------------------------------------------------------------------------
(* The order of takers: price first (highest for bids), then the fee.      *)
Precedes(t, u) ==
    LET p == PriceOf[t.sid]  q == PriceOf[u.sid]
    IN IF p # q THEN (IF t.sid \in Ask THEN p < q ELSE p > q)
                ELSE t.fee <= u.fee

(* First of one side; which of two equal ones it is depends on their ids.  *)
Best(S) == {t \in S : \A u \in S : Precedes(t, u)}
Asks(S) == {t \in S : t.sid \in Ask}
Bids(S) == {t \in S : t.sid \notin Ask}
OtherSide(S, t) == IF t.sid \in Ask THEN Bids(S) ELSE Asks(S)

(* AllowedPriceRange: both tests compare with the cheapest stashed ask.    *)
StashedAskPrices == {PriceOf[t.sid] : t \in Asks(tlb.stashed)}
TestAsk(t) == \A p \in StashedAskPrices : PriceOf[t.sid] <= p
TestBid(t) ==
    StashedAskPrices # {} =>
        \E p \in StashedAskPrices :
            /\ \A q \in StashedAskPrices : p <= q
            /\ PriceOf[t.sid] >= p

(* max_by_distance_to_spot *)
Candidates ==
    {t \in Best(Asks(ActiveTakers(tlb))) : TestAsk(t)}
        \cup {t \in Best(Bids(ActiveTakers(tlb))) : TestBid(t)}

(* Overlaps: the taker accepts price p. *)
Overlaps(t, p) ==
    IF t.sid \in Ask THEN PriceOf[t.sid] <= p ELSE PriceOf[t.sid] >= p

(* with_applied_trade *)
Traded(t, removed) ==
    IF t.input = removed THEN Term ELSE [t EXCEPT !.input = @ - removed]

(* add_take, add_make: an earlier transition of the same entity keeps its  *)
(* target and gets the later result.                                       *)
Combined(trs, id, target, result) ==
    [i \in DOMAIN trs \cup {id} |->
        IF i # id THEN trs[i]
        ELSE [target |-> IF id \in DOMAIN trs THEN trs[id].target ELSE target,
              result |-> result]]

(* on_take *)
OnTake(st, result) == IF result = Term THEN st ELSE PreAddTaker(st, result)

-----------------------------------------------------------------------------
(* attempt *)

BeginAttempt ==
    /\ pc = "idle"
    /\ pc' = "matching"
    /\ saved' = tlb
    /\ UNCHANGED <<tlb, batch, optimized, barren>>

Units == Cardinality(DOMAIN takes) + Cardinality(DOMAIN makes)
MayContinue ==
    /\ Units < ExUnitsSoftCap
    /\ Cardinality(DOMAIN takes) < MaxTakes
    /\ tlb.makers # {}

(* The target trades with the best taker of the other side, whose price    *)
(* beats the maker's price p: the smaller input decides what is traded.    *)
MatchTaker(t) ==
    LET st == PickTaker(tlb, t)
    IN \E u \in Best(OtherSide(ActiveTakers(st), t)) :
       \E p \in Price :
        /\ O2OAllowed
        /\ Overlaps(t, PriceOf[u.sid])
        /\ Overlaps(t, p)
        /\ Overlaps(u, p)
        /\ LET x == IF t.input < u.input THEN t.input ELSE u.input
               rt == Traded(t, x)
               ru == Traded(u, x)
           IN /\ tlb' = OnTake(OnTake(PickTaker(st, u), rt), ru)
              /\ takes' = Combined(Combined(takes, t.sid, t, rt), u.sid, u, ru)
              /\ barren' = FALSE
              /\ UNCHANGED <<pc, makes, optimized, saved>>

(* The pass with maker m: rt is left of the target, rm is the next state   *)
(* of the maker.                                                           *)
PassWithMaker(t, m, rt, rm) ==
    /\ tlb' = PreAddMaker(OnTake(PickMaker(PickTaker(tlb, t), m), rt), rm)
    /\ takes' = Combined(takes, t.sid, t, rt)
    /\ makes' = Combined(makes, m.mid, m, rm)
    /\ UNCHANGED <<pc, optimized, saved>>

(* The target trades with a preselected maker ...                          *)
MatchMaker(t) ==
    \E m \in PickTaker(tlb, t).makers, rev \in Revs :
    \E x \in IF optimized THEN 1..t.input ELSE {t.input} :
        /\ rev # m.rev
        /\ PassWithMaker(t, m, Traded(t, x), [m EXCEPT !.rev = rev])
        /\ barren' = FALSE

(* ... or the maker answers no_trade and both go back as they are.  Only   *)
(* an optimized preselection falls back on the spot price of a maker that  *)
(* has no price for the offered input; the fee of a graduated pool can eat *)
(* the trade up, or the pool may have no ADA side.  The next pass finds    *)
(* what this one found and repeats it, to the same book and batch.         *)
NoTrade(t) ==
    \E m \in PickTaker(tlb, t).makers :
        /\ optimized
        /\ PassWithMaker(t, m, t, m)
        /\ barren' = TRUE

Match ==
    /\ pc = "matching"
    /\ MayContinue
    /\ \/ barren /\ UNCHANGED bookVars
       \/ /\ ~barren
          /\ \E t \in Candidates : MatchTaker(t) \/ MatchMaker(t) \/ NoTrade(t)

(* The loop ends: at a cap, without a spot price (no maker), without a     *)
(* target, or with a target that found no counterpart and is put back.     *)
EndLoop ==
    /\ pc = "matching"
    /\ \/ ~MayContinue /\ UNCHANGED tlb
       \/ Candidates = {} /\ UNCHANGED tlb
       \/ /\ MayContinue /\ ~barren
          /\ \E t \in Candidates : tlb' = PreAddTaker(PickTaker(tlb, t), t)
    /\ pc' = "batched"
    /\ barren' = FALSE
    /\ UNCHANGED <<batch, optimized, saved>>

(* is_complete *)
IsComplete ==
    \/ Cardinality(DOMAIN takes) > 1
    \/ DOMAIN takes # {} /\ DOMAIN makes # {}

Targets == {takes[s].target : s \in DOMAIN takes}

SumOf(f, S) ==
    LET g[T \in SUBSET S] ==
          IF T = {} THEN 0
          ELSE LET x == CHOOSE x \in T : TRUE IN f[x] + g[T \ {x}]
    IN g[S]

(* check_recipe_complexity:                                                *)
(*   takes / makes * total budget / base budget >= 1 / 2                   *)
ComplexityOk ==
    DOMAIN makes = {} \/
        2 * Cardinality(DOMAIN takes) * SumOf(Budget, DOMAIN takes)
            >= Cardinality(DOMAIN makes) * BaseBudget

HasZeroMakes == \E m \in DOMAIN makes : makes[m].result = makes[m].target

(* finalized: the fee is charged on what the taker sold, a taker whose     *)
(* budget does not cover another step terminates.                          *)
Finalized(tr, broke) ==
    IF tr.result = Term \/ broke THEN Term
    ELSE LET sold == tr.target.input - tr.result.input
             fee == (tr.target.fee * sold) \div tr.target.input
         IN [tr.result EXCEPT !.fee = @ - fee]

(* try_from: the batch makes a recipe. *)
FormRecipe ==
    /\ pc = "batched"
    /\ IsComplete /\ ComplexityOk /\ ~HasZeroMakes
    /\ \E broke \in SUBSET DOMAIN takes :
        takes' = [s \in DOMAIN takes |->
                    [takes[s] EXCEPT
                        !.result = Finalized(takes[s], s \in broke)]]
    /\ pc' = "recipe"
    /\ UNCHANGED <<tlb, makes, optimized, saved, barren>>

(* Err(None): not a match, a make that moved nothing, or an excess that    *)
(* no taker can receive.                                                   *)
FailAttempt ==
    /\ pc = "batched"
    /\ ~IsComplete \/ DOMAIN makes # {}
    /\ tlb' = RollbackUnstash(tlb)
    /\ Leave

Retry(stash, opt) ==
    /\ pc = "batched"
    /\ IsComplete
    /\ tlb' = RollbackStash(tlb, stash)
    /\ takes' = EmptyBatch
    /\ makes' = EmptyBatch
    /\ pc' = "matching"
    /\ optimized' = opt
    /\ UNCHANGED <<saved, barren>>

(* unsatisfied_fragments: a taker may miss its minimal output even when    *)
(* all its input is sold, since a predicted state keeps the minimum of the *)
(* order it came from.                                                     *)
RetryWithoutDissatisfied ==
    \E U \in SUBSET Targets \ {{}} : Retry(U, optimized)

(* Mutant of RetryDowngraded: the next try is optimized again. *)
RetryDowngradedStill == ~ComplexityOk /\ ~HasZeroMakes /\ Retry({}, TRUE)

RetryDowngraded == ~ComplexityOk /\ ~HasZeroMakes /\ Retry({}, FALSE)

-----------------------------------------------------------------------------
(* Feedback.  After a success the executor also replaces, for each take,   *)
(* the target with the state that the transaction produced (sync_book).    *)

Finals == {takes[s].result : s \in DOMAIN takes} \ {Term}

WithEffects(st) ==
    [st EXCEPT !.takers = InsertAll(EraseAll(@, Targets), Finals),
               !.makers = {IF m.mid \in DOMAIN makes THEN makes[m.mid].result
                                                     ELSE m : m \in @}]

Settle(st) ==
    /\ pc = "recipe"
    /\ tlb' = st
    /\ Leave

OnRecipeSucceeded == Settle(WithEffects(Commit(tlb)))
OnRecipeFailed == Settle(RollbackUnstash(tlb))

-----------------------------------------------------------------------------
Attempt ==
    \/ Match
    \/ EndLoop
    \/ FormRecipe
    \/ FailAttempt
    \/ RetryWithoutDissatisfied
    \/ RetryDowngraded

External ==
    \/ \E t \in [sid : TakerId, fee : Fees, input : 1..MaxInput] : UpdateTaker(t)
    \/ \E t \in tlb.takers \cup tlb.inactive : RemoveTaker(t)
    \/ \E m \in MakerState : UpdateMaker(m)
    \/ \E m \in MakerState : RemoveMaker(m)
    \/ AdvanceClock

BookNext ==
    \/ External
    \/ BeginAttempt
    \/ Attempt
    \/ OnRecipeSucceeded
    \/ OnRecipeFailed

BookSpec == BookInit /\ [][BookNext]_bookVars

(* attempt runs to its end without giving up the thread. *)
BookFairSpec == BookSpec /\ WF_bookVars(Attempt)

-----------------------------------------------------------------------------
(* Whatever an attempt did so far, retries and stashes included, rolling   *)
(* it back gives exactly the book it started from; and between attempts    *)
(* the book is settled: nothing is previewed, consumed or stashed, so an   *)
(* event from outside does not run into requiring_settled_state's panic.   *)
(* No taker waits as inactive in the very slot its time begins with.  (The *)
(* clock activates the slot it stops at: a clock that skips a slot leaves  *)
(* the takers of that slot inactive for good.)                             *)
RollbackRestores ==
    /\ \A t \in tlb.inactive : LowerBound[t.sid] # tlb.now
    /\ IF pc # "idle" THEN RollbackUnstash(tlb) = saved
       ELSE /\ tlb.tag = Idle
            /\ tlb.consumed = {} /\ tlb.stashed = {} /\ tlb.changeset = {}

Unmatched == {t \in saved.takers : t.sid \notin DOMAIN takes}
Forgotten == IF tlb.tag = PartialPreview THEN tlb.stashed ELSE {}

(* The book after an accepted batch is exact: the untouched orders and the *)
(* states the transaction produced, no previewed state left behind, no     *)
(* order in two states, and no order lost but, when only orders were       *)
(* matched, the ones that retries of the attempt had set aside: commit     *)
(* takes the changed takers over and drops the stash.                      *)
SuccessExact ==
    [][OnRecipeSucceeded =>
         tlb'.takers = (Unmatched \ Forgotten) \cup Finals]_bookVars

(* The loop of attempt ends: stashing shrinks the takers it works with, an *)
(* unoptimized batch is never too complex, and every trade uses up input.  *)
(* The one exception is a maker that answers no_trade while the caps leave *)
(* room: the pass counts towards none of the caps when it is repeated.     *)
AttemptEnds ==
    pc = "matching" ~> pc \in {"idle", "recipe"} \/ (barren /\ MayContinue)
=============================================================================
