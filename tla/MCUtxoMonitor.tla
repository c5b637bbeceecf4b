--------------------------- MODULE MCUtxoMonitor ---------------------------
EXTENDS UtxoMonitor

CONSTANTS t1, t2, t3

(* t1 pays a key, a script and a Byron address; t2 and t3 compete for the  *)
(* output to the key.                                                      *)
MCTx == {t1, t2, t3}
MCTxo == MCTx \X (0..2)
MCOutputs == [t \in MCTx |-> {t} \X (IF t = t1 THEN 0..2 ELSE {0})]
MCInputs == [t \in MCTx |-> IF t = t1 THEN {} ELSE {<<t1, 0>>}]
MCAtScript == {<<t1, 1>>}
MCCredentialed == MCTxo \ {<<t1, 2>>}

Base == [txs |-> {}, bodies |-> {<<>>, <<t1>>, <<t2>>, <<t3>>, <<t1, t2>>}, height |-> 3, forks |-> 1, drops |-> 0, stops |-> 2,
         mempool |-> FALSE, disableUntil |-> 0, rollbackSlots |-> 1, delay |-> 6,
         stopInRollback |-> FALSE, exact |-> TRUE]

(* Blocks only: forks and stops. *)
LedgerOnly == Base
(* The first slots are not cached. *)
LateRollbacks == [Base EXCEPT !.disableUntil = 1, !.height = 4, !.stops = 1]
(* The mempool announces what blocks confirm or, after a fork, return. *)
WithMempool == [Base EXCEPT !.mempool = TRUE, !.txs = {t1, t2}, !.stops = 1,
                            !.bodies = {<<>>, <<t1>>, <<t2>>, <<t1, t2>>}, !.height = 2]
(* A longer chain: with a stop, and with a fork of full blocks. *)
LongMempool == [WithMempool EXCEPT !.height = 3, !.forks = 0]
LongFork == [WithMempool EXCEPT !.height = 3, !.stops = 0, !.bodies = {<<t1>>, <<t2>>}]
(* Transactions are evicted and given up. *)
Lossy == [LongMempool EXCEPT !.drops = 1, !.delay = 1, !.stops = 0, !.exact = FALSE]
(* Stops fall anywhere. *)
StopAnywhere == [Base EXCEPT !.stopInRollback = TRUE, !.exact = FALSE]
(* A start undoes nothing. *)
NoAutoRollback == [Base EXCEPT !.rollbackSlots = 0, !.stops = 1, !.exact = FALSE]
MCScenarios ==
    {LedgerOnly, LateRollbacks, WithMempool, LongMempool, LongFork, Lossy, StopAnywhere,
     NoAutoRollback}
=============================================================================
