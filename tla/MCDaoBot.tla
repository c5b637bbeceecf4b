------------------------------ MODULE MCDaoBot ------------------------------
(***************************************************************************)
(* Instances of DaoBot: one farm, one voting escrow, one order of each     *)
(* kind, one funding box; every scenario is a small budget of time,        *)
(* transactions, orders and faults, and TLC starts from each of them.      *)
(***************************************************************************)
EXTENDS DaoBot

VoteOrder == [kind |-> "vote", ve |-> <<"ve", 1>>, version |-> 0, w |-> (1 :> 1), until |-> 0]
MakeOrder == [kind |-> "make", ve |-> <<"ve", 2>>, version |-> 0, w |-> <<>>, until |-> 2]
RedeemOrder == [kind |-> "redeem", ve |-> <<"ve", 1>>, version |-> 0, w |-> <<>>, until |-> 0]
ExtendOrder == [kind |-> "extend", ve |-> <<"ve", 1>>, version |-> 0, w |-> <<>>, until |-> 9]

MCOrders == <<VoteOrder, MakeOrder, RedeemOrder, ExtendOrder>>

MCFarms == <<1>>

Escrow == [version |-> 0, last |-> -1, until |-> EpochLen, redeemed |-> FALSE]

MCGenesis ==
    (<<"ibox", 0>> :> Nothing) @@ (<<"factory", 0>> :> Nothing) @@ (<<"farm", 1>> :> Nothing)
        @@ (VEFactory :> Nothing) @@ (<<"ve", 1>> :> Escrow) @@ (Change :> Nothing)

\* A vote from the creation of its poll to the poll's elimination.
Calm ==
    [shift |-> 1, start |-> 1, time |-> 6, txs |-> 7, orders |-> {1}, blocks |-> 1, delay |-> 20, lossy |-> FALSE,
     drops |-> 0, rollbacks |-> 0, restarts |-> 0, errs |-> 0, refunds |-> 0]

RolledBack == [Calm EXCEPT !.rollbacks = 1, !.time = 2, !.txs = 5]
Restarted  == [Calm EXCEPT !.restarts = 1, !.blocks = 1, !.time = 2, !.txs = 5]
Redeemed   == [Calm EXCEPT !.orders = {3}, !.blocks = 0, !.time = 5, !.txs = 5, !.errs = 1]
Extended   == [Calm EXCEPT !.orders = {4}, !.blocks = 0, !.time = 2, !.txs = 5, !.errs = 1, !.refunds = 1]

\* The tracker gives up after three blocks, and one transaction is dropped.
LossyVote == [Calm EXCEPT !.lossy = TRUE, !.drops = 1, !.blocks = 3, !.delay = 3, !.time = 2, !.txs = 5]
LossyMake == [LossyVote EXCEPT !.orders = {2}, !.time = 3]

\* The proportions of the production build: the shift is the longer one.
Production == [Calm EXCEPT !.shift = 2, !.start = 0, !.restarts = 1]

MCBudgets == {Production, Calm, RolledBack, Restarted, Redeemed, Extended, LossyVote, LossyMake}

=============================================================================
