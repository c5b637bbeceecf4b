---------------------------- MODULE MCEventSinks ----------------------------
(***************************************************************************)
(* Transactions for EventSinks: the life of a Snek pool with a fork, and   *)
(* pools, orders and funding boxes that depend on each other.              *)
(***************************************************************************)
EXTENDS EventSinks

Snek(id) == [kind |-> "snek", id |-> id, pool |-> id, fresh |-> FALSE]
PoolOut(id) == [Snek(id) EXCEPT !.kind = "pool"]
OrderOut(id, fresh) == [Snek(id) EXCEPT !.kind = "order", !.fresh = fresh]
AtomicOut(pool) == [Snek(pool) EXCEPT !.kind = "atomic"]
FundOut == [Snek("none") EXCEPT !.kind = "fund"]
OtherOut == [Snek("none") EXCEPT !.kind = "other"]

Wallet(i) == <<"wallet", i>>

Lineage ==
    [mint |-> [ins |-> {Wallet(1)}, outs |-> <<Snek("p"), OtherOut>>],
     bump |-> [ins |-> {<<"mint", 1>>}, outs |-> <<Snek("p")>>],
     grow |-> [ins |-> {<<"bump", 1>>}, outs |-> <<PoolOut("q")>>],
     leap |-> [ins |-> {<<"mint", 1>>}, outs |-> <<PoolOut("q"), FundOut>>],
     swap |-> [ins |-> {<<"grow", 1>>}, outs |-> <<PoolOut("q"), OtherOut>>]]

Open == [ins |-> {Wallet(1)}, outs |-> <<PoolOut("q"), FundOut, OtherOut>>]
Place == [ins |-> {Wallet(2)}, outs |-> <<OrderOut("o", TRUE), OtherOut>>]
Give == [ins |-> {<<"open", 3>>}, outs |-> <<AtomicOut("q"), AtomicOut("z")>>]

(* A limit order is filled in part against a pool, and then cancelled. *)
Fills ==
    [open |-> [ins |-> {Wallet(1)}, outs |-> <<PoolOut("q")>>],
     place |-> [ins |-> {Wallet(2)}, outs |-> <<OrderOut("o", TRUE)>>],
     fill |-> [ins |-> {<<"open", 1>>, <<"place", 1>>},
               outs |-> <<PoolOut("q"), OrderOut("o", FALSE)>>],
     close |-> [ins |-> {<<"fill", 2>>}, outs |-> <<OtherOut>>]]

(* An atomic order for a known pool and one for an unknown pool. *)
Deposits ==
    [open |-> Open, give |-> Give,
     take |-> [ins |-> {<<"give", 1>>, <<"open", 1>>}, outs |-> <<PoolOut("q"), OtherOut>>]]

(* Orders consumed by a transaction that only makes orders. *)
Renewals ==
    [open |-> Open, give |-> Give,
     renew |-> [ins |-> {<<"give", 1>>, <<"open", 2>>}, outs |-> <<OrderOut("n", TRUE)>>]]

Amendments ==
    [open |-> Open, place |-> Place,
     amend |-> [ins |-> {<<"place", 1>>, <<"open", 2>>}, outs |-> <<OrderOut("m", TRUE), OtherOut>>]]

AllScenarios ==
    {[txs |-> Lineage, blocks |-> 3, trouble |-> 2]}
    \cup {[txs |-> c, blocks |-> 2, trouble |-> 2] : c \in {Fills, Deposits, Renewals, Amendments}}

TwoDeposits == {[txs |-> [open |-> Open, give |-> Give], blocks |-> 2, trouble |-> 2]}
CollateralRef == <<"leap", 2>>
=============================================================================
