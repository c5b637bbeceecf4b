------------------------------ MODULE MCEngine ------------------------------
(***************************************************************************)
(* The three data structures of the execution engine, one at a time: the   *)
(* index of states, the backlog of atomic orders and the liquidity book.   *)
(***************************************************************************)
EXTENDS StateIndex, HotBacklog, LiquidityBook, TLC

VARIABLE part       \* the structure that is exercised

CONSTANTS a1, b1, b2, p1, p2

(* The index: two entities, one of them a pool, three versions of the      *)
(* order and two of the pool.                                              *)
MCSid == {"order", "pool"}
MCVersion == {"o1", "o2", "o3", "p1", "p2"}
MCSidOf == [v \in MCVersion |-> IF v \in {"o1", "o2", "o3"} THEN "order" ELSE "pool"]
MCQuasiPermanent == {"pool"}

(* The backlog: four orders, two of them of equal weight, for two places. *)
MCOrder == {"o1", "o2", "o3", "o4"}
MCWeight == "o1" :> 1 @@ "o2" :> 2 @@ "o3" :> 2 @@ "o4" :> 3

(* The book: three orders, two of them on one side, and two pools. *)
MCTakerId == {a1, b1, b2}
MCPriceOf == a1 :> 1 @@ b1 :> 2 @@ b2 :> 3
MCOneDelayed == [s \in MCTakerId |-> IF s = b2 THEN 1 ELSE 0]
MCBudget == [s \in MCTakerId |-> 1]

EngineInit ==
    /\ part \in {"index", "backlog", "book"}
    /\ IndexInit /\ BacklogInit /\ BookInit

EngineNext ==
    \/ part = "index" /\ IndexNext /\ UNCHANGED <<part, backlogVars, bookVars>>
    \/ part = "backlog" /\ BacklogNext /\ UNCHANGED <<part, ix, bookVars>>
    \/ part = "book" /\ BookNext /\ UNCHANGED <<part, ix, backlogVars>>

EngineSpec ==
    EngineInit /\ [][EngineNext]_<<part, ix, backlogVars, bookVars>> /\ WF_bookVars(Attempt)
=============================================================================
