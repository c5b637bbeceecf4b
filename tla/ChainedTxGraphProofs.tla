------------------------- MODULE ChainedTxGraphProofs -------------------------
(***************************************************************************)
(* The graph of unconfirmed reward transactions under every sequence of    *)
(* calls of its interface UnconfirmedRewardTxIndex.                        *)
(*                                                                         *)
(* No sequence of calls makes the graph of unconfirmed reward transactions *)
(* hold a chain that pays a user twice, for any transactions and users;    *)
(* nor do the steps of the system of RewardBot, in which the verifier      *)
(* makes the calls.                                                        *)
(***************************************************************************)
EXTENDS RewardBot, TLAPS

CONSTANTS
    Txs,        \* hashes of reward transactions
    UsersOf(_)  \* the users a transaction pays: its hash determines them

VARIABLE g

\* A cosign request that passed the other checks of the verifier.
AddTx(input, tx) == g' = TryAddTx(g, input, tx, UsersOf(tx))

\* confirm_harvest_tx and confirm_gauge_buffering_tx; a failed assertion ends
\* the process.
Confirm(tx) ==
    /\ ConfirmAsserts(g, tx, UsersOf(tx))
    /\ g' = ConfirmTx(g, tx, UsersOf(tx))

Unconfirm(tx) ==
    /\ RollbackAsserts(g, UsersOf(tx))
    /\ g' = Rollback(g, UsersOf(tx), tx)

EndOfEpoch == g' = NotifyEndOfEpoch(g)

\* The graph is not persisted: a restarted verifier begins with an empty one.
Forget == g' = NewGraph

GraphInit == g = NewGraph

GraphNext ==
    \/ \E tx \in Txs, input \in Txs \cup {ZeroHash} : AddTx(input, tx)
    \/ \E tx \in Txs : Confirm(tx) \/ Unconfirm(tx)
    \/ EndOfEpoch
    \/ Forget

GraphSpec == GraphInit /\ [][GraphNext]_g

-----------------------------------------------------------------------------

\* A transaction pays the same users wherever it is in the graph.
NodesOK(h) == \A n, m \in h.gr : n.tx = m.tx => n.users = m.users

\* What is added pays the users that its transaction pays already.
Fits(h, tx, users) == \A n \in h.gr : n.tx = tx => n.users = users

\* The nodes W are the path from a source down to the parent of node n.
IsPath(W, n) ==
    /\ \A m \in W : m.tx \in n.up
    /\ \A t \in n.up : \E m \in W : m.tx = t
    /\ \A m, k \in W : m = k \/ m.tx \in k.up \/ k.tx \in m.up

\* Every transaction above a node is still in the graph: find_parent_chain_tx
\* walks the graph, so it sees a user only in the nodes that are there.
Rooted(h) == \A n \in h.gr : \E W \in SUBSET h.gr : IsPath(W, n)

\* The inductive invariant.
GraphInv(h) == NodesOK(h) /\ Rooted(h) /\ ChainPaysOnce(h)

\* An empty graph satisfies the invariant.
LEMMA EmptyGraph ==
    ASSUME NEW h, h.gr = {}
    PROVE  GraphInv(h)
BY DEF GraphInv, NodesOK, Rooted, ChainPaysOnce

\* Every transaction above a node is that of a node of the graph.
LEMMA AboveTracked ==
    ASSUME NEW h, Rooted(h), NEW n \in h.gr, NEW t \in n.up
    PROVE  \E m \in h.gr : m.tx = t
<1>1. PICK W \in SUBSET h.gr : IsPath(W, n)
  BY DEF Rooted
<1> QED
  BY <1>1 DEF IsPath

\* try_add_tx keeps the invariant when the transaction spends the last
\* confirmed wallet: the new node is a source.
LEMMA AddSourceKeeps ==
    ASSUME NEW h, GraphInv(h), NEW tx, NEW u, Fits(h, tx, u), u \cap h.harvested = {},
           NEW k, k.gr = h.gr \cup {Node(tx, u, {})},
           k.harvested = h.harvested
    PROVE  GraphInv(k)
<1> DEFINE w == Node(tx, u, {})
<1>1. w.tx = tx /\ w.users = u /\ w.up = {}
  BY DEF Node
<1>2. NodesOK(k)
  <2> HIDE DEF w
  <2>1. \A n \in k.gr : n \in h.gr \/ n = w
    BY DEF w
  <2> QED
    BY <1>1, <2>1 DEF NodesOK, GraphInv, Fits
<1>3. Rooted(k)
  <2> SUFFICES ASSUME NEW n \in k.gr
               PROVE  \E W \in SUBSET k.gr : IsPath(W, n)
    BY DEF Rooted
  <2>1. CASE n \in h.gr
    BY <2>1 DEF GraphInv, Rooted
  <2>2. CASE n = w
    <3>1. IsPath({}, n)
      BY <2>2, <1>1 DEF IsPath
    <3> QED
      BY <3>1
  <2> QED
    BY <2>1, <2>2
<1>4. ChainPaysOnce(k)
  <2> SUFFICES ASSUME NEW n \in k.gr
               PROVE  /\ n.users \cap h.harvested = {}
                      /\ \A m \in k.gr : m.tx \in n.up => m.users \cap n.users = {}
    BY DEF ChainPaysOnce
  <2>1. CASE n = w
    BY <2>1, <1>1
  <2>2. CASE n \in h.gr
    <3>1. n.users \cap h.harvested = {}
      BY <2>2 DEF GraphInv, ChainPaysOnce
    <3>2. ASSUME NEW m \in k.gr, m.tx \in n.up
          PROVE  m.users \cap n.users = {}
      <4>1. PICK a \in h.gr : a.tx = m.tx
        BY <2>2, <3>2, AboveTracked DEF GraphInv
      <4>2. a.users = m.users
        BY <4>1, <1>2 DEF NodesOK
      <4> QED
        BY <4>1, <4>2, <2>2, <3>2 DEF GraphInv, ChainPaysOnce
    <3> QED
      BY <3>1, <3>2
  <2> QED
    BY <2>1, <2>2
<1> QED
  BY <1>2, <1>3, <1>4 DEF GraphInv

\* try_add_tx keeps the invariant when the transaction spends the wallet of an
\* unconfirmed one: find_parent_chain_tx has looked at the whole path above it.
LEMMA AddChildKeeps ==
    ASSUME NEW h, GraphInv(h), NEW tx, NEW u, NEW input, Fits(h, tx, u), u \cap h.harvested = {},
           NEW k, k.harvested = h.harvested,
           k.gr = h.gr \cup {Node(tx, u, n.up \cup {input}) : n \in FindParentChainTx(h, input, u)}
    PROVE  GraphInv(k)
<1> DEFINE P == FindParentChainTx(h, input, u)
<1>1. ASSUME NEW w \in k.gr, w \notin h.gr
      PROVE  \E n \in P : w.tx = tx /\ w.users = u /\ w.up = n.up \cup {input}
  BY <1>1 DEF Node
<1>2. \A n \in P : /\ n \in h.gr /\ n.tx = input
                   /\ \A m \in h.gr : m.tx \in n.up \cup {input} => u \cap m.users = {}
  BY DEF FindParentChainTx
<1>3. NodesOK(k)
  <2>1. \A n \in k.gr : n \in h.gr \/ (n.tx = tx /\ n.users = u)
    BY <1>1
  <2> QED
    BY <2>1, Zenon DEF NodesOK, GraphInv, Fits
<1>4. Rooted(k)
  <2> SUFFICES ASSUME NEW w \in k.gr
               PROVE  \E W \in SUBSET k.gr : IsPath(W, w)
    BY DEF Rooted
  <2>1. CASE w \in h.gr
    BY <2>1 DEF GraphInv, Rooted
  <2>2. CASE w \notin h.gr
    <3>1. PICK n \in P : w.tx = tx /\ w.users = u /\ w.up = n.up \cup {input}
      BY <2>2, <1>1, Zenon
    <3>2. n \in h.gr /\ n.tx = input
      BY <1>2
    <3>3. PICK W \in SUBSET h.gr : IsPath(W, n)
      BY <3>2 DEF GraphInv, Rooted
    <3>4. IsPath(W \cup {n}, w)
      BY <3>1, <3>2, <3>3 DEF IsPath
    <3>5. W \cup {n} \in SUBSET k.gr
      BY <3>2
    <3> QED
      BY <3>4, <3>5
  <2> QED
    BY <2>1, <2>2
<1>5. ChainPaysOnce(k)
  <2>1. ASSUME NEW n \in k.gr
        PROVE  n.users \cap h.harvested = {}
    BY <1>1 DEF GraphInv, ChainPaysOnce
  <2>2. ASSUME NEW n \in k.gr, NEW m \in k.gr, m.tx \in n.up
        PROVE  m.users \cap n.users = {}
    \* The transaction above n is that of some node a of the old graph.
    <3>1. CASE n \in h.gr
      <4>1. PICK a \in h.gr : a.tx = m.tx
        BY <2>2, <3>1, AboveTracked DEF GraphInv
      <4>2. a.users = m.users
        BY <4>1, <1>3 DEF NodesOK
      <4> QED
        BY <4>1, <4>2, <3>1, <2>2 DEF GraphInv, ChainPaysOnce
    <3>2. CASE n \notin h.gr
      <4>1. PICK p \in P : n.users = u /\ n.up = p.up \cup {input}
        BY <3>2, <1>1
      <4>2. \E a \in h.gr : a.tx = m.tx
        BY <4>1, <1>2, <2>2, AboveTracked DEF GraphInv
      <4>3. PICK a \in h.gr : a.tx = m.tx
        BY <4>2
      <4>4. a.users = m.users
        BY <4>3, <1>3 DEF NodesOK
      <4>5. u \cap a.users = {}
        BY <4>1, <4>3, <2>2, <1>2
      <4> QED
        BY <4>1, <4>4, <4>5
    <3> QED
      BY <3>1, <3>2
  <2> QED
    BY <2>1, <2>2, Zenon DEF ChainPaysOnce
<1> QED
  BY <1>3, <1>4, <1>5 DEF GraphInv

\* What confirm_tx leaves of the graph, and the users it adds to the harvested.
Descendants(h, tx) == {Node(n.tx, n.users, n.up \ {tx}) : n \in {m \in h.gr : tx \in m.up}}

PaidIn(h, tx) == UNION {n.users : n \in Tracked(h, tx)}

\* confirm_tx keeps the invariant when the transaction is in the graph: what
\* is left descends from it, so it pays none of the users it pays.
LEMMA ConfirmTrackedKeeps ==
    ASSUME NEW h, GraphInv(h), NEW tx, \A n \in Tracked(h, tx) : n.up = {},
           NEW k,
           k.gr = Descendants(h, tx), k.harvested = h.harvested \cup PaidIn(h, tx)
    PROVE  GraphInv(k)
<1> DEFINE cut(n) == Node(n.tx, n.users, n.up \ {tx})
<1>1. \A n : cut(n).tx = n.tx /\ cut(n).users = n.users /\ cut(n).up = n.up \ {tx}
  BY DEF Node
<1>2. \A n \in h.gr : tx \in n.up => cut(n) \in k.gr
  BY Zenon DEF Descendants
<1>3. \A w \in k.gr : \E n \in h.gr : w = cut(n) /\ tx \in n.up
  BY DEF Descendants
<1>a. \A w \in k.gr : \E n \in h.gr : /\ tx \in n.up /\ w = cut(n) /\ w.tx = n.tx
                                    /\ w.users = n.users /\ w.up = n.up \ {tx}
  BY <1>1, <1>3, Zenon
<1> HIDE DEF cut
<1>4. NodesOK(k)
  <2> SUFFICES ASSUME NEW w \in k.gr, NEW v \in k.gr, w.tx = v.tx
               PROVE  w.users = v.users
    BY DEF NodesOK
  <2>1. PICK n \in h.gr : w.tx = n.tx /\ w.users = n.users
    BY <1>a
  <2>2. PICK m \in h.gr : v.tx = m.tx /\ v.users = m.users
    BY <1>a
  <2> QED
    BY <2>1, <2>2, Zenon DEF GraphInv, NodesOK
<1>5. Rooted(k)
  <2> SUFFICES ASSUME NEW w \in k.gr
               PROVE  \E V \in SUBSET k.gr : IsPath(V, w)
    BY DEF Rooted
  <2>1. PICK n \in h.gr : /\ tx \in n.up /\ w = cut(n) /\ w.tx = n.tx
                          /\ w.users = n.users /\ w.up = n.up \ {tx}
    BY <1>a
  <2>2. PICK W \in SUBSET h.gr : IsPath(W, n)
    BY DEF GraphInv, Rooted
  <2>3. PICK r \in W : r.tx = tx
    BY <2>1, <2>2 DEF IsPath
  <2>4. r.up = {}
    BY <2>3 DEF Tracked
  <2>5. \A m \in W : m # r => tx \in m.up /\ m.tx # tx
    BY <2>2, <2>3, <2>4 DEF IsPath, Tracked
  <2> DEFINE V == {cut(m) : m \in W \ {r}}
  <2>6. V \in SUBSET k.gr
    BY <2>5, <1>2
  <2>7. IsPath(V, w)
    <3>1. \A x \in V : \E m \in W : /\ m # r /\ x = cut(m) /\ x.tx = m.tx
                                   /\ x.up = m.up \ {tx}
      BY <1>1
    <3>2. \A x \in V : x.tx \in w.up
      BY <3>1, <2>1, <2>2, <2>5 DEF IsPath
    <3>3. ASSUME NEW t \in w.up
          PROVE  \E x \in V : x.tx = t
      <4>1. PICK m \in W : m.tx = t
        BY <2>1, <2>2 DEF IsPath
      <4>2. m # r
        BY <4>1, <2>1, <2>3
      <4> QED
        BY <4>1, <4>2, <1>1
    <3>4. ASSUME NEW x \in V, NEW y \in V
          PROVE  x = y \/ x.tx \in y.up \/ y.tx \in x.up
      <4>1. PICK m \in W : m # r /\ x = cut(m) /\ x.tx = m.tx /\ x.up = m.up \ {tx}
        BY <3>1
      <4>2. PICK l \in W : l # r /\ y = cut(l) /\ y.tx = l.tx /\ y.up = l.up \ {tx}
        BY <3>1
      <4>3. m = l \/ m.tx \in l.up \/ l.tx \in m.up
        BY <2>2 DEF IsPath
      <4> QED
        BY <4>1, <4>2, <4>3, <2>5
    <3> HIDE DEF V
    <3> QED
      BY <3>2, <3>3, <3>4 DEF IsPath
  <2> QED
    BY <2>6, <2>7
<1>6. ChainPaysOnce(k)
  <2>1. ASSUME NEW w \in k.gr
        PROVE  w.users \cap k.harvested = {}
    <3>1. PICK n \in h.gr : tx \in n.up /\ w.users = n.users
      BY <1>a
    <3>2. n.users \cap h.harvested = {}
      BY DEF GraphInv, ChainPaysOnce
    <3>3. \A m \in Tracked(h, tx) : m.users \cap n.users = {}
      BY <3>1 DEF GraphInv, ChainPaysOnce, Tracked
    <3> QED
      BY <3>1, <3>2, <3>3 DEF PaidIn
  <2>2. ASSUME NEW w \in k.gr, NEW v \in k.gr, v.tx \in w.up
        PROVE  v.users \cap w.users = {}
    <3>1. PICK n \in h.gr : w.users = n.users /\ w.up = n.up \ {tx}
      BY <1>a
    <3>2. PICK m \in h.gr : v.users = m.users /\ v.tx = m.tx
      BY <1>a
    <3>3. m.tx \in n.up
      BY <3>1, <3>2, <2>2
    <3> QED
      BY <3>1, <3>2, <3>3 DEF GraphInv, ChainPaysOnce
  <2> QED
    BY <2>1, <2>2 DEF ChainPaysOnce
<1> QED
  BY <1>4, <1>5, <1>6 DEF GraphInv

\* The transactions of the graph k are those of h.
Within(k, h) == \A n \in k.gr : \E m \in h.gr : n.tx = m.tx /\ n.users = m.users

\* try_add_tx, whatever the transaction spends.
LEMMA AddKeeps ==
    ASSUME NEW h, GraphInv(h), NEW tx, NEW u, NEW input, Fits(h, tx, u)
    PROVE  /\ GraphInv(TryAddTx(h, input, tx, u))
           /\ \A n \in TryAddTx(h, input, tx, u).gr : n \in h.gr \/ (n.tx = tx /\ n.users = u)
<1> DEFINE k == TryAddTx(h, input, tx, u)
<1>1. CASE ~CanAdd(h, input, u)
  BY <1>1 DEF TryAddTx
<1>2. CASE CanAdd(h, input, u) /\ input = h.last
  <2>1. k.gr = h.gr \cup {Node(tx, u, {})} /\ k.harvested = h.harvested
    BY <1>2 DEF TryAddTx
  <2>2. u \cap h.harvested = {}
    BY <1>2 DEF CanAdd
  <2> HIDE DEF k
  <2>3. GraphInv(k)
    BY <2>1, <2>2, AddSourceKeeps
  <2>4. \A n \in k.gr : n \in h.gr \/ (n.tx = tx /\ n.users = u)
    BY <2>1 DEF Node
  <2> QED
    BY <2>3, <2>4 DEF k
<1>3. CASE CanAdd(h, input, u) /\ input # h.last
  <2>1. /\ k.gr = h.gr \cup {Node(tx, u, n.up \cup {input}) : n \in FindParentChainTx(h, input, u)}
        /\ k.harvested = h.harvested
    BY <1>3 DEF TryAddTx
  <2>2. u \cap h.harvested = {}
    BY <1>3 DEF CanAdd
  <2> HIDE DEF k
  <2>3. GraphInv(k)
    BY <2>1, <2>2, AddChildKeeps
  <2>4. \A n \in k.gr : n \in h.gr \/ (n.tx = tx /\ n.users = u)
    BY <2>1 DEF Node
  <2> QED
    BY <2>3, <2>4 DEF k
<1> QED
  BY <1>1, <1>2, <1>3

\* confirm_tx, whether the transaction is known or not.
LEMMA ConfirmKeeps ==
    ASSUME NEW h, GraphInv(h), NEW tx, NEW u, ConfirmAsserts(h, tx, u)
    PROVE  GraphInv(ConfirmTx(h, tx, u)) /\ Within(ConfirmTx(h, tx, u), h)
<1> DEFINE k == ConfirmTx(h, tx, u)
<1>1. CASE Tracked(h, tx) = {}
  <2>1. k.gr = {}
    BY <1>1 DEF ConfirmTx
  <2> HIDE DEF k
  <2>2. GraphInv(k) /\ Within(k, h)
    BY <2>1, EmptyGraph DEF Within
  <2> QED
    BY <2>2 DEF k
<1>2. CASE Tracked(h, tx) # {}
  <2>1. k.gr = Descendants(h, tx) /\ k.harvested = h.harvested \cup PaidIn(h, tx)
    BY <1>2 DEF ConfirmTx, Descendants, PaidIn
  <2>2. \A n \in Tracked(h, tx) : n.up = {}
    BY DEF ConfirmAsserts
  <2> HIDE DEF k
  <2>3. GraphInv(k)
    BY <2>1, <2>2, ConfirmTrackedKeeps
  <2>4. Within(k, h)
    BY <2>1 DEF Within, Descendants, Node
  <2> QED
    BY <2>3, <2>4 DEF k
<1> QED
  BY <1>1, <1>2

-----------------------------------------------------------------------------
\* The inductive invariant of the graph under every sequence of calls.
CallsInv == GraphInv(g) /\ \A n \in g.gr : n.users = UsersOf(n.tx)

\* Every step of the graph keeps the invariant.
LEMMA StepKeeps ==
    ASSUME CallsInv, [GraphNext]_g
    PROVE  CallsInv'
<1> USE DEF CallsInv
<1>1. ASSUME NEW tx \in Txs, NEW input \in Txs \cup {ZeroHash}, AddTx(input, tx)
      PROVE  CallsInv'
  <2>1. g' = TryAddTx(g, input, tx, UsersOf(tx)) /\ Fits(g, tx, UsersOf(tx))
    BY <1>1 DEF AddTx, Fits
  <2>2. /\ GraphInv(g')
        /\ \A n \in g'.gr : n \in g.gr \/ (n.tx = tx /\ n.users = UsersOf(tx))
    BY <2>1, AddKeeps
  <2> QED
    BY <2>2
<1>2. ASSUME NEW tx \in Txs, Confirm(tx)
      PROVE  CallsInv'
  <2>1. GraphInv(g') /\ Within(g', g)
    BY <1>2, ConfirmKeeps DEF Confirm
  <2> QED
    BY <2>1 DEF Within
<1>3. CASE EndOfEpoch \/ Forget \/ \E tx \in Txs : Unconfirm(tx)
  <2>1. g'.gr = {}
    BY <1>3 DEF EndOfEpoch, NotifyEndOfEpoch, Forget, NewGraph, Unconfirm, Rollback
  <2>2. GraphInv(g')
    BY <2>1, EmptyGraph
  <2> QED
    BY <2>1, <2>2
<1>4. CASE g' = g
  BY <1>4
<1> QED
  BY <1>1, <1>2, <1>3, <1>4 DEF GraphNext

\* No chain of cosigned transactions pays a user twice, counting the confirmed
\* ones: what try_add_tx checks along one path stays true of every path while
\* transactions are confirmed, rolled back, expire or are forgotten.
THEOREM CosignedPayOnce == GraphSpec => []ChainPaysOnce(g)
<1>1. GraphInit => CallsInv
  BY EmptyGraph DEF GraphInit, NewGraph, CallsInv
<1>2. CallsInv /\ [GraphNext]_g => CallsInv'
  BY StepKeeps
<1>3. CallsInv => ChainPaysOnce(g)
  BY DEF GraphInv, CallsInv
<1> QED
  BY <1>1, <1>2, <1>3, PTL DEF GraphSpec

\* The assertion of confirm_tx that none of the transaction's users has
\* harvested already never fails, whatever has been called before.
THEOREM ConfirmedUsersAreNew ==
    GraphSpec => []\A tx \in Txs : \A n \in Tracked(g, tx) : n.users \cap g.harvested = {}
<1>1. ChainPaysOnce(g) => \A tx \in Txs : \A n \in Tracked(g, tx) : n.users \cap g.harvested = {}
  BY DEF ChainPaysOnce, Tracked
<1> QED
  BY <1>1, CosignedPayOnce, PTL

-----------------------------------------------------------------------------
(***************************************************************************)
(* The graph of the verifier beside the bot, the ledger, crashes and       *)
(* restarts.  Hashes are made by counting, so a transaction brought for a  *)
(* cosignature is not in the graph yet.                                    *)
(***************************************************************************)
VerifierInv ==
    /\ "txs" \in DOMAIN left /\ left.txs \in Nat
    /\ "graph" \in DOMAIN ver /\ "task" \in DOMAIN bot
    /\ "pc" \in DOMAIN bot.task
    /\ bot.task.pc = "built" => left.txs > 0 /\ bot.task.tx.id = <<left.txs>>
    /\ GraphInv(ver.graph)
    /\ \A n \in ver.graph.gr :
          \E i \in 1..left.txs : n.tx = <<i>> /\ (bot.task.pc = "built" => i < left.txs)

\* What a step leaves of the graph, the task and the count of transactions.
Kept ==
    /\ "txs" \in DOMAIN left' /\ left'.txs = left.txs
    /\ "graph" \in DOMAIN ver' /\ "task" \in DOMAIN bot'
    /\ "pc" \in DOMAIN bot'.task
    /\ GraphInv(ver'.graph) /\ Within(ver'.graph, ver.graph)
    /\ bot'.task = bot.task \/ bot'.task.pc # "built"

LEMMA KeptKeeps ==
    ASSUME VerifierInv, Kept
    PROVE  VerifierInv'
<1>1. ASSUME NEW n \in ver'.graph.gr
      PROVE  \E i \in 1..left.txs : n.tx = <<i>> /\ (bot'.task.pc = "built" => i < left.txs)
  <2>1. PICK m \in ver.graph.gr : n.tx = m.tx
    BY DEF Kept, Within
  <2>2. PICK i \in 1..left.txs : m.tx = <<i>> /\ (bot.task.pc = "built" => i < left.txs)
    BY DEF VerifierInv
  <2> QED
    BY <2>1, <2>2 DEF Kept
<1> QED
  BY <1>1 DEF VerifierInv, Kept

\* The ledger and the failures.
LEMMA OthersKeep ==
    ASSUME VerifierInv, Ledger \/ KillBot \/ RestartBot \/ UNCHANGED vars
    PROVE  Kept
<1>1. Within(ver.graph, ver.graph)
  BY DEF Within
<1>2. CASE Ledger
  <2>1. UNCHANGED <<bot, ver>>
    BY <1>2, Zenon DEF Ledger, EmptyBlock, ChargeGauge, ConfirmInBlock, ChainRollback, ExpireTx,
                PlaceOrder, RefundOrder, Extend
  <2>2. "txs" \in DOMAIN left' /\ left'.txs = left.txs
    BY <1>2, Zenon DEF VerifierInv, Ledger, EmptyBlock, ChargeGauge, ConfirmInBlock, ChainRollback,
                ExpireTx, PlaceOrder, RefundOrder
  <2> QED
    BY <1>1, <2>1, <2>2, SMTT(20) DEF VerifierInv, Kept
<1>3. CASE KillBot
  BY <1>1, <1>3 DEF VerifierInv, Kept, KillBot
<1>4. CASE RestartBot
  BY <1>1, <1>4 DEF VerifierInv, Kept, RestartBot, Revived, Idle
<1>5. CASE UNCHANGED vars
  BY <1>1, <1>5 DEF VerifierInv, Kept, vars
<1> QED
  BY <1>2, <1>3, <1>4, <1>5

\* The bot, apart from building a transaction and having it cosigned.
LEMMA BotKeeps ==
    ASSUME VerifierInv, Bot, ~Build
    PROVE  Kept
<1>1. UNCHANGED <<left, ver>>
  BY Zenon DEF Bot, BotIndex, BotEvents, BotEventsCut, BotReschedule, FeedNothing, FeedFails, SubmitAccepted,
         SubmitRejected, IndexPredicted, RecordDone, TxDropped
<1>2. /\ "task" \in DOMAIN bot' /\ "pc" \in DOMAIN bot'.task
      /\ bot'.task = bot.task \/ bot'.task.pc # "built"
  <2> USE DEF VerifierInv
  <2>1. CASE BotIndex
    BY <2>1 DEF BotIndex, Indexed
  <2>2. CASE BotEvents
    BY <2>2 DEF BotEvents, Idle
  <2>9. CASE BotEventsCut
    BY <2>9 DEF BotEventsCut, Idle
  <2>3. CASE BotReschedule
    BY <2>3, SMTT(20) DEF BotReschedule, Idle
  <2>4. CASE FeedNothing \/ FeedFails
    BY <2>4, Zenon DEF FeedNothing, FeedFails, Swept
  <2>5. CASE SubmitAccepted
    <3>1. bot' = [bot EXCEPT !.task.pc = "submitted", !.tracked = @ \cup {bot.task.tx}]
      BY <2>5 DEF SubmitAccepted
    <3> QED
      BY <3>1
  <2>6. CASE IndexPredicted
    <3>1. \E x : bot' = [bot EXCEPT !.idx = x, !.up = x.ok, !.task.pc = "indexed"]
      BY <2>6, Zenon DEF IndexPredicted
    <3> QED
      BY <3>1
  <2>8. CASE SubmitRejected \/ RecordDone
    <3>1. \E q : bot' = [bot EXCEPT !.task = Idle, !.q = q]
      BY <2>8, Zenon DEF SubmitRejected, RecordDone
    <3> QED
      BY <3>1 DEF Idle
  <2>7. CASE \E t \in bot.tracked : TxDropped(t)
    BY <2>7 DEF TxDropped
  <2> QED
    BY <2>1, <2>2, <2>3, <2>4, <2>5, <2>6, <2>7, <2>8, <2>9 DEF Bot
<1> QED
  BY <1>1, <1>2, SMTT(20) DEF VerifierInv, Kept, Within

\* The transaction built has a new hash.
LEMMA BuildKeeps ==
    ASSUME VerifierInv, Build
    PROVE  VerifierInv'
<1>1. /\ "txs" \in DOMAIN left' /\ left'.txs = left.txs + 1 /\ UNCHANGED ver
  BY DEF VerifierInv, Build
<1>2. \E t, d : bot' = [Swept EXCEPT !.task = [pc |-> "built", tx |-> t, drops |-> d]]
                /\ t.id = <<1 + left.txs>>
  <2> DEFINE f == Fed(bot.idx, bot.q)
  <2>1. HarvestTx(f).id = <<1 + left.txs>>
    BY DEF HarvestTx, NextId
  <2>2. \A b : BufferTx(f, bot.idx, b).id = <<1 + left.txs>>
    BY DEF BufferTx, NextId
  <2>3. \/ bot' = [Swept EXCEPT !.task = [pc |-> "built", tx |-> HarvestTx(f), drops |-> f.drops]]
        \/ \E b : bot' = [Swept EXCEPT
                           !.task = [pc |-> "built", tx |-> BufferTx(f, bot.idx, b), drops |-> {}]]
    BY Zenon DEF Build
  <2> HIDE DEF f
  <2> QED
    BY <2>1, <2>2, <2>3, Zenon
<1>3. /\ "task" \in DOMAIN bot' /\ "pc" \in DOMAIN bot'.task
      /\ bot'.task.pc = "built" /\ bot'.task.tx.id = <<1 + left.txs>>
  BY <1>2 DEF VerifierInv, Swept
<1>4. ASSUME NEW n \in ver.graph.gr
      PROVE  \E i \in 1..(left.txs + 1) : n.tx = <<i>> /\ i < left.txs + 1
  <2>1. PICK i \in 1..left.txs : n.tx = <<i>>
    BY DEF VerifierInv
  <2>2. i \in 1..(left.txs + 1) /\ i < left.txs + 1
    BY DEF VerifierInv
  <2> QED
    BY <2>1, <2>2
<1> QED
  BY <1>1, <1>3, <1>4 DEF VerifierInv

\* The verifier cosigns, or refuses and the bot ends.
LEMMA CosignKeeps ==
    ASSUME VerifierInv, Cosign
    PROVE  VerifierInv'
<1> DEFINE t == bot.task.tx
<1>1. UNCHANGED left /\ bot.task.pc = "built" /\ t.id = <<left.txs>> /\ left.txs \in Nat
  BY DEF VerifierInv, Cosign
<1>2. CASE bot' = [bot EXCEPT !.up = FALSE] /\ ver' = ver
  BY <1>1, <1>2 DEF VerifierInv
<1>3. ASSUME bot' = [bot EXCEPT !.task.pc = "signed"]
      PROVE  "task" \in DOMAIN bot' /\ "pc" \in DOMAIN bot'.task /\ bot'.task.pc = "signed"
  BY <1>3 DEF VerifierInv
<1>4. CASE bot' = [bot EXCEPT !.task.pc = "signed"] /\ ver' = ver
  <2>1. Kept
    BY <1>1, <1>3, <1>4 DEF VerifierInv, Kept, Within
  <2> QED
    BY <2>1, KeptKeeps
<1>5. CASE /\ bot' = [bot EXCEPT !.task.pc = "signed"]
           /\ ver' = [ver EXCEPT !.graph = TryAddTx(@, t.wallet, t.id, UsersPaid(t))]
  <2>1. /\ ver'.graph = TryAddTx(ver.graph, t.wallet, t.id, UsersPaid(t))
        /\ "graph" \in DOMAIN ver'
    BY <1>5 DEF VerifierInv
  <2>2. ASSUME NEW n \in ver.graph.gr
        PROVE  n.tx # t.id
    BY <1>1 DEF VerifierInv
  <2>3. Fits(ver.graph, t.id, UsersPaid(t)) /\ GraphInv(ver.graph)
    BY <2>2 DEF Fits, VerifierInv
  <2>4. /\ GraphInv(ver'.graph)
        /\ \A n \in ver'.graph.gr : n \in ver.graph.gr \/ n.tx = t.id
    BY <2>1, <2>3, AddKeeps
  <2>5. left.txs > 0
    BY <1>1 DEF VerifierInv
  <2>6. ASSUME NEW n \in ver'.graph.gr
        PROVE  \E i \in 1..left.txs : n.tx = <<i>>
    BY <1>1, <2>4, <2>5 DEF VerifierInv
  <2> QED
    BY <1>1, <1>3, <1>5, <2>1, <2>4, <2>6, SMTT(20) DEF VerifierInv
<1> QED
  BY <1>2, <1>4, <1>5, Zenon DEF Cosign

\* A new graph is not larger than the old one.
LEMMA NewGraphWithin ==
    ASSUME NEW k, NEW h, k.gr = {}
    PROVE  GraphInv(k) /\ Within(k, h)
BY EmptyGraph DEF Within

\* process_ledger_event with a block.
LEMMA ForwardKeeps ==
    ASSUME NEW v, "graph" \in DOMAIN v, GraphInv(v.graph), NEW blk
    PROVE  /\ "graph" \in DOMAIN VerifierForward(v, blk)
           /\ GraphInv(VerifierForward(v, blk).graph)
           /\ Within(VerifierForward(v, blk).graph, v.graph)
<1> DEFINE w == ConfirmBlockSlot(v, blk.slot)
<1> DEFINE z == VerifierForward(v, blk)
<1>1. "graph" \in DOMAIN w /\ w.graph \in {v.graph, NotifyEndOfEpoch(v.graph)}
  BY DEF ConfirmBlockSlot
<1>2. NotifyEndOfEpoch(v.graph).gr = {}
  BY DEF NotifyEndOfEpoch
<1> HIDE DEF w
<1>3. GraphInv(w.graph) /\ Within(w.graph, v.graph)
  BY <1>1, <1>2, NewGraphWithin DEF Within
<1>4. \/ z = w \/ z = [w EXCEPT !.up = FALSE]
      \/ \E t, u : /\ ConfirmAsserts(w.graph, t, u)
                   /\ z = [w EXCEPT !.graph = ConfirmTx(@, t, u)]
  <2>1. ASSUME NEW t, Tracked(w.graph, t) = {}
        PROVE  ConfirmAsserts(w.graph, t, {})
    BY <2>1 DEF ConfirmAsserts
  <2> QED
    BY <2>1, Zenon DEF VerifierForward, w
<1> HIDE DEF z
<1>5. CASE z = w \/ z = [w EXCEPT !.up = FALSE]
  <2>1. "graph" \in DOMAIN z /\ z.graph = w.graph
    BY <1>1, <1>5
  <2> QED
    BY <1>3, <2>1 DEF z
<1>6. CASE \E t, u : ConfirmAsserts(w.graph, t, u) /\ z = [w EXCEPT !.graph = ConfirmTx(@, t, u)]
  <2>1. PICK t, u : ConfirmAsserts(w.graph, t, u) /\ z = [w EXCEPT !.graph = ConfirmTx(@, t, u)]
    BY <1>6
  <2>2. "graph" \in DOMAIN z /\ z.graph = ConfirmTx(w.graph, t, u)
    BY <1>1, <2>1
  <2>3. GraphInv(z.graph) /\ Within(z.graph, w.graph)
    BY <1>3, <2>1, <2>2, ConfirmKeeps, SMTT(20)
  <2>4. Within(z.graph, v.graph)
    BY <1>3, <2>3 DEF Within
  <2> QED
    BY <2>2, <2>3, <2>4 DEF z
<1> QED
  BY <1>4, <1>5, <1>6

\* process_ledger_event with a block that was rolled back.
LEMMA BackwardKeeps ==
    ASSUME NEW v, "graph" \in DOMAIN v, GraphInv(v.graph), NEW blk
    PROVE  /\ "graph" \in DOMAIN VerifierBackward(v, blk)
           /\ GraphInv(VerifierBackward(v, blk).graph)
           /\ Within(VerifierBackward(v, blk).graph, v.graph)
<1> DEFINE z == VerifierBackward(v, blk)
<1> DEFINE w == [v EXCEPT !.slots = Front(@)]
<1>1. \/ z = [v EXCEPT !.up = FALSE] \/ z = w \/ z = [w EXCEPT !.up = FALSE]
      \/ \E u, t : z = [w EXCEPT !.graph = Rollback(@, u, t)]
  BY Zenon DEF VerifierBackward
<1>2. "graph" \in DOMAIN w /\ w.graph = v.graph
  OBVIOUS
<1>3. \A u, t : Rollback(v.graph, u, t).gr = {}
  BY DEF Rollback
<1> HIDE DEF z, w
<1>4. "graph" \in DOMAIN z /\ (z.graph = v.graph \/ z.graph.gr = {})
  BY <1>1, <1>2, <1>3
<1>5. GraphInv(z.graph) /\ Within(z.graph, v.graph)
  BY <1>4, NewGraphWithin DEF Within
<1> QED
  BY <1>4, <1>5 DEF z

\* The verifier, apart from cosigning.
LEMMA VerifierKeeps ==
    ASSUME VerifierInv, VerifierIndex \/ VerifierEvents \/ KillVerifier \/ RestartVerifier
    PROVE  Kept
<1>1. UNCHANGED bot /\ "txs" \in DOMAIN left' /\ left'.txs = left.txs
  BY DEF VerifierInv, VerifierIndex, VerifierEvents, KillVerifier, RestartVerifier
<1>2. "graph" \in DOMAIN ver' /\ GraphInv(ver'.graph) /\ Within(ver'.graph, ver.graph)
  <2> USE DEF VerifierInv
  <2>1. CASE VerifierIndex \/ KillVerifier
    <3>1. "graph" \in DOMAIN ver' /\ ver'.graph = ver.graph
      BY <2>1, Zenon DEF VerifierIndex, Indexed, KillVerifier
    <3> QED
      BY <3>1 DEF Within
  <2>2. CASE RestartVerifier
    <3>1. "graph" \in DOMAIN ver' /\ ver'.graph = NewGraph /\ NewGraph.gr = {}
      BY <2>2 DEF RestartVerifier, Revived, NewGraph
    <3> QED
      BY <3>1, NewGraphWithin
  <2>3. CASE VerifierEvents
    <3>1. PICK blk, v, view :
              /\ v = VerifierForward(ver, blk) \/ v = VerifierBackward(ver, blk)
              /\ ver' = v \/ ver' = [v EXCEPT !.view = view, !.mail = <<>>]
      BY <2>3, Zenon DEF VerifierEvents
    <3>2. "graph" \in DOMAIN v /\ GraphInv(v.graph) /\ Within(v.graph, ver.graph)
      BY <3>1, ForwardKeeps, BackwardKeeps
    <3>3. "graph" \in DOMAIN ver' /\ ver'.graph = v.graph
      BY <3>1, <3>2, Zenon
    <3> QED
      BY <3>2, <3>3
  <2> QED
    BY <2>1, <2>2, <2>3
<1> QED
  BY <1>1, <1>2 DEF VerifierInv, Kept

\* In the running system, with the bot, the ledger, rollbacks, dropped
\* transactions, crashes and restarts of both processes in any order, no chain
\* of transactions the verifier has cosigned pays a user twice.
THEOREM CosignedAlwaysPayOnce == Spec => []CosignedChainsPayOnce
<1>1. Init => VerifierInv
  <2> SUFFICES ASSUME Init
               PROVE  VerifierInv
    OBVIOUS
  <2>1. "txs" \in DOMAIN left /\ left.txs = 0
    BY ScenarioAssumption DEF Init
  <2>2. /\ "graph" \in DOMAIN ver /\ "task" \in DOMAIN bot /\ "pc" \in DOMAIN bot.task
        /\ ver.graph.gr = {} /\ bot.task.pc = "idle"
    BY DEF Init, Idle, NewGraph
  <2> QED
    BY <2>1, <2>2, EmptyGraph DEF VerifierInv
<1>2. VerifierInv /\ [Next]_vars => VerifierInv'
  BY KeptKeeps, OthersKeep, BotKeeps, BuildKeeps, CosignKeeps, VerifierKeeps, SMTT(20) DEF Next, Bot
<1>3. VerifierInv => CosignedChainsPayOnce
  BY DEF VerifierInv, GraphInv, CosignedChainsPayOnce
<1> QED
  BY <1>1, <1>2, <1>3, PTL DEF Spec
=============================================================================
