--------------------------- MODULE MCTradingAgent ---------------------------
EXTENDS TradingAgent

CONSTANTS o1, p1, d1, f1, f2, f3

MCSid == {o1, p1}
MCVersion == MCSid \X (0..2)
MCSidOf == [v \in MCVersion |-> v[1]]
MCQuasiPermanent == {p1}
MCFeeOf == [v \in MCVersion |-> 2 - v[2]]
MCLowerBound == [s \in MCSid |-> 0]
MCWeight == [d \in Order |-> 1]
MCPoolRef == [d \in Order |-> p1]

(* The agent alone with the node: every use of funding, an unexplained     *)
(* rejection, one transaction of another user.                             *)
Alone == [atGenesis |-> {}, orders |-> {}, boxes |-> {f1, f2, f3},
          ioKinds |-> {"Replaced", "Added", "NotUsed"},
          maxVer |-> [s \in MCSid |-> 2], contended |-> FALSE,
          external |-> 1, drops |-> 0, rollbacks |-> 0, unknown |-> 1]

(* Another user competes for the order, the pool or a specialized order,   *)
(* the mempool drops a transaction, a block is rolled back.                *)
Contended == [atGenesis |-> {o1}, orders |-> {d1}, boxes |-> {f1},
              ioKinds |-> {"NotUsed"},
              maxVer |-> [s \in MCSid |-> IF s = p1 THEN 2 ELSE 1], contended |-> TRUE,
              external |-> 1, drops |-> 1, rollbacks |-> 1, unknown |-> 0]

MCScenarios == {Alone, Contended}
=============================================================================
