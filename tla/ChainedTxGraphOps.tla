-------------------------- MODULE ChainedTxGraphOps --------------------------
(***************************************************************************)
(* The verifier's graph of cosigned but unconfirmed harvest transactions   *)
(* (entity_index/chained_tx_graph.rs), as operators on a record:           *)
(*   gr         the nodes; a node has at most one incoming edge, so its    *)
(*              edges are kept as the set up of the transactions above it; *)
(*   harvested  last_confirmed_user_harvests;                              *)
(*   last       last_confirmed_buffer_wallet_tx_hash.                      *)
(***************************************************************************)
EXTENDS FiniteSets

ZeroHash == <<>>

NewGraph == [gr |-> {}, harvested |-> {}, last |-> ZeroHash]

Node(tx, users, up) == [tx |-> tx, users |-> users, up |-> up]

\* The node of the transaction, unless a user occurs in it or above it.
FindParentChainTx(g, tx, users) ==
    {n \in g.gr :
        /\ n.tx = tx
        /\ users \cap g.harvested = {}
        /\ \A m \in g.gr : m.tx \in n.up \cup {tx} => users \cap m.users = {}}

CanAdd(g, input, users) ==
    /\ users \cap g.harvested = {}
    /\ input = g.last \/ FindParentChainTx(g, input, users) # {}

TryAddTx(g, input, tx, users) ==
    IF ~CanAdd(g, input, users) THEN g
    ELSE [gr |-> g.gr \cup
            (IF input = g.last THEN {Node(tx, users, {})}
             ELSE {Node(tx, users, n.up \cup {input}) : n \in FindParentChainTx(g, input, users)}),
          harvested |-> g.harvested,
          last |-> g.last]

\* The assertion of rollback.
RollbackAsserts(g, users) == users \subseteq g.harvested

Rollback(g, users, tx) ==
    [gr |-> {}, harvested |-> g.harvested \ users, last |-> tx]

Tracked(g, tx) == {n \in g.gr : n.tx = tx}

\* The assertions of confirm_tx: a known transaction is a source, pays the
\* users the ledger says, and none of them has harvested already.
ConfirmAsserts(g, tx, users) ==
    \A n \in Tracked(g, tx) :
        /\ n.up = {}
        /\ n.users = users
        /\ n.users \cap g.harvested = {}

\* Mutant: chains that do not descend from the confirmed transaction stay.
ConfirmTxKeepsRivals(g, tx, users) ==
    IF Tracked(g, tx) = {}
    THEN [gr |-> {}, harvested |-> users, last |-> tx]
    ELSE [gr |-> {Node(n.tx, n.users, n.up \ {tx}) : n \in g.gr \ Tracked(g, tx)},
          harvested |-> g.harvested \cup users,
          last |-> tx]

\* A known transaction leaves the graph, and with it every chain that does
\* not descend from it; an unknown one clears the graph and replaces the users.
ConfirmTx(g, tx, users) ==
    IF Tracked(g, tx) = {}
    THEN [gr |-> {}, harvested |-> users, last |-> tx]
    ELSE [gr |-> {Node(n.tx, n.users, n.up \ {tx}) : n \in {m \in g.gr : tx \in m.up}},
          harvested |-> g.harvested \cup UNION {n.users : n \in Tracked(g, tx)},
          last |-> tx]

NotifyEndOfEpoch(g) == [gr |-> {}, harvested |-> {}, last |-> g.last]

\* No user is paid twice along a chain of cosigned transactions, counting the
\* transactions already confirmed: what the graph is there for.
ChainPaysOnce(g) ==
    \A n \in g.gr :
        /\ n.users \cap g.harvested = {}
        /\ \A m \in g.gr : m.tx \in n.up => m.users \cap n.users = {}
=============================================================================
