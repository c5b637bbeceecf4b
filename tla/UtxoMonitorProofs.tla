------------------------- MODULE UtxoMonitorProofs -------------------------
(***************************************************************************)
(* The index of the UTxO monitor for any transactions, any chain, any      *)
(* mempool and stops at any moment: the secondary tables agree with the    *)
(* table of outputs.  Then what the proofs about the cache of blocks rest  *)
(* on: paths through cached blocks, and the inductive invariant CacheInv.  *)
(* UtxoRestartProofs and UtxoCacheProofs show that every step keeps it.    *)
(***************************************************************************)
EXTENDS UtxoMonitor, TLAPS

(* Agreement is inductive once the spent flags are known to be Booleans. *)
IndexInv(x) ==
    /\ \A o \in DOMAIN x.txo : x.txo[o].spent \in BOOLEAN
    /\ Agree(x)

(* apply keeps the tables in agreement, whatever it is given and whatever  *)
(* rows y it has read.                                                     *)
LEMMA ApplyAgrees ==
    ASSUME NEW x, NEW y, NEW ins, NEW outs, NEW used, NEW slot, IndexInv(x),
           ins \subseteq DOMAIN y.txo, used \subseteq outs
    PROVE  IndexInv(Written(x, y, ins, outs, used, slot))
<1> DEFINE z == Written(x, y, ins, outs, used, slot)
<1>1. /\ DOMAIN z.txo = DOMAIN x.txo \cup ins \cup outs
      /\ \A o \in DOMAIN x.txo \cup ins \cup outs :
            z.txo[o].spent = IF o \in outs THEN o \in used
                             ELSE IF o \in ins THEN TRUE ELSE x.txo[o].spent
      /\ z.events = (x.events \ EntriesOf(y, ins \cup outs))
                        \cup ({slot} \X ((ins \cup outs) \cap Credentialed))
      /\ z.unspent = (x.unspent \ (ins \cup outs)) \cup ((outs \ used) \cap Credentialed)
  BY Zenon DEF Written
<1> HIDE DEF z
<1>2. ASSUME NEW o \in DOMAIN z.txo
      PROVE  z.txo[o].spent \in BOOLEAN
  <2>1. CASE o \in outs
    <3>1. z.txo[o].spent = (o \in used)
      BY <1>1, <2>1, Zenon
    <3>2. (o \in used) \in BOOLEAN
      OBVIOUS
    <3> QED
      BY <3>1, <3>2, Zenon
  <2>2. CASE o \notin outs
    BY <1>1, <2>2, Zenon DEF IndexInv
  <2> QED
    BY <2>1, <2>2
<1>3. z.unspent = {o \in DOMAIN z.txo \cap Credentialed : ~z.txo[o].spent}
  <2>1. ASSUME NEW o
        PROVE  o \in z.unspent <=> o \in DOMAIN z.txo /\ o \in Credentialed /\ ~z.txo[o].spent
    BY <1>1, Zenon DEF IndexInv, Agree
  <2> QED
    BY <2>1
<1>4. ASSUME NEW o \in DOMAIN z.txo, o \in Credentialed
      PROVE  \E e \in z.events : e[2] = o
  <2>1. CASE o \in ins \cup outs
    <3>1. <<slot, o>> \in z.events
      BY <1>1, <1>4, <2>1
    <3> QED
      BY <3>1
  <2>2. CASE o \notin ins \cup outs
    <3>1. o \in Listed(x)
      BY <1>1, <1>4, <2>2 DEF IndexInv, Agree
    <3>2. PICK e \in x.events : e[2] = o
      BY <3>1 DEF Listed
    <3>3. e \notin EntriesOf(y, ins \cup outs)
      BY <2>2, <3>2 DEF EntriesOf, Known
    <3> QED
      BY <1>1, <3>2, <3>3
  <2> QED
    BY <2>1, <2>2
<1>5. DOMAIN z.txo \cap Credentialed \subseteq Listed(z)
  BY <1>4 DEF Listed
<1>6. IndexInv(z)
  BY <1>2, <1>3, <1>5 DEF IndexInv, Agree
<1> QED
  BY <1>6 DEF z

(* So does unapply. *)
LEMMA UnapplyAgrees ==
    ASSUME NEW x, NEW y, NEW ins, NEW outs, IndexInv(x), ins \subseteq DOMAIN y.txo
    PROVE  IndexInv(Erased(x, y, ins, outs))
<1> DEFINE z == Erased(x, y, ins, outs)
<1>1. /\ DOMAIN z.txo = (DOMAIN x.txo \cup ins) \ outs
      /\ \A o \in (DOMAIN x.txo \cup ins) \ outs :
            z.txo[o].spent = IF o \in ins THEN FALSE ELSE x.txo[o].spent
      /\ z.events = (x.events \ EntriesOf(y, ins \cup outs))
                        \cup EntriesOf(y, (ins \ outs) \cap Credentialed)
      /\ z.unspent = (x.unspent \cup (ins \cap Credentialed)) \ outs
  BY Zenon DEF Erased
<1> HIDE DEF z
<1>2. \A o \in DOMAIN z.txo : z.txo[o].spent \in BOOLEAN
  BY <1>1, Zenon DEF IndexInv
<1>3. z.unspent = {o \in DOMAIN z.txo \cap Credentialed : ~z.txo[o].spent}
  <2>1. ASSUME NEW o
        PROVE  o \in z.unspent <=> o \in DOMAIN z.txo /\ o \in Credentialed /\ ~z.txo[o].spent
    BY <1>1, Zenon DEF IndexInv, Agree
  <2> QED
    BY <2>1
<1>4. ASSUME NEW o \in DOMAIN z.txo, o \in Credentialed
      PROVE  \E e \in z.events : e[2] = o
  <2>1. CASE o \in ins
    <3>1. <<y.txo[o].settled, o>> \in EntriesOf(y, (ins \ outs) \cap Credentialed)
      BY <1>1, <1>4, <2>1 DEF EntriesOf, Known
    <3> QED
      BY <1>1, <3>1
  <2>2. CASE o \notin ins
    <3>1. o \in Listed(x)
      BY <1>1, <1>4, <2>2 DEF IndexInv, Agree
    <3>2. o \notin ins \cup outs
      BY <1>1, <2>2
    <3>3. PICK e \in x.events : e[2] = o
      BY <3>1 DEF Listed
    <3>4. e \notin EntriesOf(y, ins \cup outs)
      BY <3>2, <3>3 DEF EntriesOf, Known
    <3> QED
      BY <1>1, <3>3, <3>4
  <2> QED
    BY <2>1, <2>2
<1>5. DOMAIN z.txo \cap Credentialed \subseteq Listed(z)
  BY <1>4 DEF Listed
<1>6. IndexInv(z)
  BY <1>2, <1>3, <1>5 DEF IndexInv, Agree
<1> QED
  BY <1>6 DEF z

(* The two operations on the index, for any transaction, slot and reads. *)
LEMMA ApplyTxAgrees ==
    ASSUME NEW x, NEW y, NEW t, NEW slot, IndexInv(x)
    PROVE  IndexInv(Apply(x, y, t, slot))
<1>1. Known(y, Inputs[t]) \subseteq DOMAIN y.txo
  BY DEF Known
<1> QED
  BY <1>1, ApplyAgrees DEF Apply

LEMMA UnapplyTxAgrees ==
    ASSUME NEW x, NEW y, NEW t, IndexInv(x)
    PROVE  IndexInv(Unapply(x, y, t))
<1>1. Known(y, Inputs[t]) \subseteq DOMAIN y.txo
  BY DEF Known
<1> QED
  BY <1>1, UnapplyAgrees DEF Unapply

(* An empty index is in agreement. *)
LEMMA EmptyAgrees == IndexInv(EmptyIndex)
  BY DEF IndexInv, Agree, EmptyIndex

(* Every step leaves the index alone or is the commit of one apply or one  *)
(* unapply.                                                                *)
LEMMA StepOnIndex ==
    ASSUME [MonitorNext]_vars
    PROVE  \/ db' = db
           \/ \E y, t, slot : db' = Apply(db, y, t, slot)
           \/ \E y, t : db' = Unapply(db, y, t)
<1>1. CASE Ledger
  BY <1>1 DEF Ledger, DetermineRestartMode, RollbackBlock, RollbackTx, RollbackDelete,
     RollbackDone, RollbackFails, Connect, RollForward, PutBlock, RollBackward, Unroll,
     UnrollSetTip, ForwardToTracker, LedgerReads, HandleApplied, HandleUnapplied, TipReached
<1>2. CASE Mempool
  BY <1>2, Zenon DEF Mempool, Acquire, QueryNextTx, TakeDropped, MempoolReads,
                HandleAccepted, HandleDropped
<1>3. CASE Tracker
  BY <1>3 DEF Tracker, ProcessIncoming, ProcessConfirmed
<1>4. CASE Node
  BY <1>4, Zenon DEF Node, Submit, Evict, Produce, Fork
<1>5. CASE Stop
  BY <1>5 DEF Stop
<1>6. CASE UNCHANGED vars
  BY <1>6 DEF vars
<1> QED
  BY <1>1, <1>2, <1>3, <1>4, <1>5, <1>6 DEF MonitorNext

(* The unspent and the events tables of the monitor agree with its table   *)
(* of outputs in every reachable state: each index operation of the        *)
(* handlers updates the three together, so that neither the order of       *)
(* ledger and mempool events, nor operations of the two tasks that overlap *)
(* and read rows the other is about to change, nor events that come twice  *)
(* or not at all, nor a stop can make get_utxos serve an output it has     *)
(* marked as spent.                                                        *)
THEOREM TablesAlwaysAgree == MonitorSpec => []TablesAgree
<1>1. MonitorInit => IndexInv(db)
  BY EmptyAgrees DEF MonitorInit
<1>2. IndexInv(db) /\ [MonitorNext]_vars => IndexInv(db')
  BY StepOnIndex, ApplyTxAgrees, UnapplyTxAgrees
<1>3. IndexInv(db) => TablesAgree
  BY DEF IndexInv, TablesAgree
<1>4. IndexInv(db') <=> IndexInv(db)'
  OBVIOUS
<1> QED
  BY <1>1, <1>2, <1>3, <1>4, PTL DEF MonitorSpec

-----------------------------------------------------------------------------
(* The cache of blocks.  C is a chain, F the number of forks so far, B the *)
(* cached blocks, D the slot until which rollbacks are disabled, t the     *)
(* slot of the tip on disk.                                                *)

Point == Nat \X Nat
Block == [slot : Nat, fork : Nat, txs : UNION {s.bodies : s \in Scenarios}]

WellMade(C, F) ==
    /\ F \in Nat
    /\ C \in Seq(Block)
    /\ \A n \in 1..Len(C) : C[n].slot = n /\ C[n].fork <= F

(* The point p is on the chain. *)
On(C, p) == p[1] \in 0..Len(C) /\ p = PointAt(C, p[1])

(* The block at p was made once: it is of an earlier fork or on the chain, *)
(* so that a block made later has another point.                           *)
Seen(C, F, p) == p \in Point /\ (p[2] < F \/ On(C, p))

(* w leads from the origin to p through cached blocks; what it has of the  *)
(* chain is a beginning of it, which F forks can have shortened by no more *)
(* than F blocks from the tip.                                             *)
Path(C, F, B, D, t, w, p) ==
    /\ w \in [0..p[1] -> Point]
    /\ w[0] = Origin /\ w[p[1]] = p
    /\ \A k \in 0..p[1] : Seen(C, F, w[k]) /\ w[k][1] = k
    /\ \A k \in 0..p[1] : On(C, w[k]) => \A j \in 0..k : On(C, w[j])
    /\ \A k \in (D + 1)..p[1] : w[k] \in DOMAIN B /\ B[w[k]].prev = w[k - 1]
    /\ \A k \in 0..p[1] : k + F <= t => On(C, w[k])

(* There is such a path to p through the point q, on the chain up to slot  *)
(* r.                                                                      *)
Whole(C, F, B, D, t, p, r, q) ==
    /\ p \in Point /\ r \in 0..p[1] /\ q[1] \in 0..p[1]
    /\ \E w \in [0..p[1] -> Point] :
          Path(C, F, B, D, t, w, p) /\ On(C, w[r]) /\ w[q[1]] = q

(* A cached block that is on the chain is linked to the one before it. *)
Entries(C, B) ==
    \A p \in DOMAIN B :
        On(C, p) => p[1] > 0 /\ B[p] = [blk |-> C[p[1]], prev |-> PointAt(C, p[1] - 1)]

(* What a step of the node, a new block or a fork, does to a chain. *)
Moves(C, F, E, G) ==
    /\ WellMade(C, F) /\ WellMade(E, G)
    /\ F <= G /\ Len(C) + F <= Len(E) + G
    /\ \A p : Seen(C, F, p) => Seen(E, G, p) /\ (On(E, p) <=> On(C, p) /\ p[1] <= Len(E))
    /\ \A n \in 1..Len(C) : n <= Len(E) => E[n] = C[n]

(* The points of a chain. *)
LEMMA PointsOfChain ==
    ASSUME NEW C, NEW F, WellMade(C, F), NEW n \in 0..Len(C)
    PROVE  /\ PointAt(C, n) \in Point /\ PointAt(C, n)[1] = n /\ PointAt(C, n)[2] <= F
           /\ On(C, PointAt(C, n)) /\ Seen(C, F, PointAt(C, n))
<1>1. CASE n = 0
  BY <1>1 DEF WellMade, PointAt, Origin, Point, On, Seen
<1>2. CASE n # 0
  <2>1. C[n] \in Block /\ C[n].slot = n /\ C[n].fork <= F
    BY <1>2 DEF WellMade
  <2>2. PointAt(C, n) = <<C[n].slot, C[n].fork>>
    BY <1>2 DEF PointAt, PointOf
  <2> QED
    BY <2>1, <2>2 DEF Point, On, Seen, Block
<1> QED
  BY <1>1, <1>2

(* A chain of Len(C) + 1 blocks that continues C. *)
LEMMA Growth ==
    ASSUME NEW C, NEW F, WellMade(C, F), NEW b \in Block, b.slot = Len(C) + 1, b.fork = F
    PROVE  Moves(C, F, Append(C, b), F)
<1> DEFINE E == Append(C, b)
<1>1. /\ C \in Seq(Block) /\ E \in Seq(Block) /\ Len(E) = Len(C) + 1 /\ Len(C) \in Nat /\ F \in Nat
      /\ E[Len(C) + 1] = b /\ \A n \in 1..Len(C) : E[n] = C[n]
  BY DEF WellMade
<1> HIDE DEF E
<1>2. WellMade(E, F)
  <2>1. ASSUME NEW n \in 1..Len(E)
        PROVE  E[n].slot = n /\ E[n].fork <= F
    BY <1>1, n = Len(C) + 1 \/ n \in 1..Len(C) DEF WellMade
  <2> QED
    BY <1>1, <2>1 DEF WellMade
<1>3. \A n \in 0..Len(C) : PointAt(E, n) = PointAt(C, n)
  BY <1>1 DEF PointAt
<1>4. PointAt(E, Len(C) + 1) = <<Len(C) + 1, F>>
  BY <1>1 DEF PointAt, PointOf
<1>5. ASSUME NEW p, Seen(C, F, p)
      PROVE  Seen(E, F, p) /\ (On(E, p) <=> On(C, p) /\ p[1] <= Len(E))
  <2>1. ASSUME On(C, p)
        PROVE  On(E, p) /\ p[1] <= Len(E)
    BY <1>1, <1>3, <2>1 DEF On
  <2>2. ASSUME On(E, p)
        PROVE  On(C, p)
    <3>1. CASE p[1] \in 0..Len(C)
      BY <1>3, <2>2, <3>1 DEF On
    <3>2. CASE p[1] = Len(C) + 1
      <4>1. p = <<Len(C) + 1, F>>
        BY <1>4, <2>2, <3>2 DEF On
      <4>2. ~(p[2] < F)
        BY <4>1, <1>1
      <4> QED
        BY <1>5, <4>2 DEF Seen
    <3> QED
      BY <1>1, <2>2, <3>1, <3>2 DEF On
  <2> QED
    BY <1>5, <2>1, <2>2 DEF Seen
<1>6. Moves(C, F, E, F)
  BY <1>1, <1>2, <1>5 DEF Moves
<1> QED
  BY <1>6 DEF E

(* A fork takes the last block. *)
LEMMA Shrinking ==
    ASSUME NEW C, NEW F, WellMade(C, F), Len(C) > 1
    PROVE  /\ Moves(C, F, SubSeq(C, 1, Len(C) - 1), F + 1)
           /\ Len(SubSeq(C, 1, Len(C) - 1)) = Len(C) - 1
<1> DEFINE E == SubSeq(C, 1, Len(C) - 1)
<1>1. /\ C \in Seq(Block) /\ E \in Seq(Block) /\ Len(E) = Len(C) - 1 /\ Len(C) \in Nat /\ F \in Nat
      /\ \A n \in 1..(Len(C) - 1) : E[n] = C[n]
  BY DEF WellMade
<1> HIDE DEF E
<1>2. WellMade(E, F + 1)
  <2>1. ASSUME NEW n \in 1..Len(E)
        PROVE  E[n].slot = n /\ E[n].fork <= F + 1
    <3>1. n \in 1..Len(C) /\ E[n] = C[n] /\ C[n] \in Block
      BY <1>1
    <3>2. C[n].slot = n /\ C[n].fork <= F /\ C[n].fork \in Nat
      BY <3>1 DEF WellMade, Block
    <3> QED
      BY <1>1, <3>1, <3>2
  <2> QED
    BY <1>1, <2>1 DEF WellMade
<1>3. \A n \in 0..(Len(C) - 1) : PointAt(E, n) = PointAt(C, n)
  BY <1>1 DEF PointAt
<1>4. ASSUME NEW p, Seen(C, F, p)
      PROVE  Seen(E, F + 1, p) /\ (On(E, p) <=> On(C, p) /\ p[1] <= Len(E))
  <2>1. p[2] <= F /\ p \in Point
    <3>1. CASE p[2] < F
      BY <1>1, <1>4, <3>1 DEF Seen, Point
    <3>2. CASE On(C, p)
      BY <1>4, <3>2, PointsOfChain DEF On, Seen
    <3> QED
      BY <1>4, <3>1, <3>2 DEF Seen
  <2>2. p[1] \in Nat /\ p[2] \in Nat
    BY <2>1 DEF Point
  <2>3. Seen(E, F + 1, p)
    BY <1>1, <2>1, <2>2 DEF Seen
  <2>4. On(E, p) <=> On(C, p) /\ p[1] <= Len(E)
    BY <1>1, <1>3, <2>2 DEF On
  <2> QED
    BY <2>3, <2>4
<1>5. Moves(C, F, E, F + 1)
  BY <1>1, <1>2, <1>4 DEF Moves
<1> QED
  BY <1>1, <1>5 DEF E

(* A path stays one when the node moves. *)
LEMMA PathMoves ==
    ASSUME NEW C, NEW F, NEW E, NEW G, Moves(C, F, E, G),
           NEW B, NEW D, NEW t \in Nat, t <= Len(C) + F, NEW w, NEW p \in Point,
           Path(C, F, B, D, t, w, p)
    PROVE  Path(E, G, B, D, t, w, p)
<1>1. F \in Nat /\ G \in Nat /\ Len(C) \in Nat /\ Len(E) \in Nat /\ p[1] \in Nat
  BY DEF Moves, WellMade, Point
<1>2. \A k \in 0..p[1] : /\ Seen(C, F, w[k]) /\ Seen(E, G, w[k]) /\ w[k][1] = k
                         /\ On(E, w[k]) <=> On(C, w[k]) /\ k <= Len(E)
  BY DEF Path, Moves
<1>3. ASSUME NEW k \in 0..p[1], On(E, w[k]), NEW j \in 0..k
      PROVE  On(E, w[j])
  <2>1. On(C, w[k]) /\ k <= Len(E)
    BY <1>2, <1>3
  <2>2. On(C, w[j])
    BY <2>1 DEF Path
  <2> QED
    BY <1>1, <1>2, <2>1, <2>2
<1>4. ASSUME NEW k \in 0..p[1], k + G <= t
      PROVE  On(E, w[k])
  <2>1. k + F <= t /\ k <= Len(E)
    BY <1>1, <1>4 DEF Moves
  <2>2. On(C, w[k])
    BY <2>1 DEF Path
  <2> QED
    BY <1>2, <2>1, <2>2
<1> QED
  BY <1>2, <1>3, <1>4 DEF Path

(* The cache still leads to p, and follows the chain up to slot s. *)
LEMMA WholeMoves ==
    ASSUME NEW C, NEW F, NEW E, NEW G, Moves(C, F, E, G),
           NEW B, NEW D, NEW t \in Nat, t <= Len(C) + F, NEW p, NEW r, NEW q,
           Whole(C, F, B, D, t, p, r, q), NEW s \in 0..r, s <= Len(E)
    PROVE  Whole(E, G, B, D, t, p, s, q)
<1>1. PICK w \in [0..p[1] -> Point] :
          Path(C, F, B, D, t, w, p) /\ On(C, w[r]) /\ w[q[1]] = q
  BY Zenon DEF Whole
<1>2. p \in Point /\ r \in 0..p[1] /\ q[1] \in 0..p[1] /\ p[1] \in Nat
  BY DEF Whole, Point
<1>3. Path(E, G, B, D, t, w, p)
  BY <1>1, <1>2, PathMoves
<1>4. s \in 0..p[1] /\ On(C, w[s])
  BY <1>1, <1>2 DEF Path
<1>5. Seen(C, F, w[s]) /\ w[s][1] = s
  BY <1>1, <1>4 DEF Path
<1>6. On(E, w[s])
  BY <1>4, <1>5 DEF Moves
<1> QED
  BY <1>1, <1>2, <1>3, <1>4, <1>6 DEF Whole

(* What is cached above p and a lower tip do not matter to a path to p. *)
LEMMA WholeBelow ==
    ASSUME NEW C, NEW F \in Nat, NEW B, NEW D \in Nat, NEW t \in Nat, NEW p, NEW r, NEW q,
           Whole(C, F, B, D, t, p, r, q), NEW A, NEW u \in Nat, u <= t,
           \A x \in Point : x[1] <= p[1] /\ x \in DOMAIN B => x \in DOMAIN A /\ A[x] = B[x]
    PROVE  Whole(C, F, A, D, u, p, r, q)
<1>1. PICK w \in [0..p[1] -> Point] :
          Path(C, F, B, D, t, w, p) /\ On(C, w[r]) /\ w[q[1]] = q
  BY Zenon DEF Whole
<1>2. p \in Point /\ p[1] \in Nat
  BY DEF Whole, Point
<1>3. ASSUME NEW k \in (D + 1)..p[1], k \in 0..p[1]
      PROVE  w[k] \in DOMAIN A /\ A[w[k]].prev = w[k - 1]
  <2>1. w[k] \in DOMAIN B /\ B[w[k]].prev = w[k - 1] /\ w[k][1] = k /\ w[k] \in Point
    BY <1>1, <1>3, Zenon DEF Path
  <2> QED
    BY <1>2, <1>3, <2>1
<1>4. \A k \in (D + 1)..p[1] : k \in 0..p[1]
  BY <1>2
<1>5. \A k \in 0..p[1] : k + F <= u => On(C, w[k])
  <2>1. \A k \in 0..p[1] : k + F <= u => k + F <= t
    BY <1>2
  <2> QED
    BY <1>1, <2>1 DEF Path
<1>6. Path(C, F, A, D, u, w, p)
  BY <1>1, <1>3, <1>4, <1>5 DEF Path
<1> QED
  BY <1>1, <1>6, Zenon DEF Whole

(* One block back from p: the path stays in the cache. *)
LEMMA WholeBack ==
    ASSUME NEW C, NEW F \in Nat, NEW B, NEW D \in Nat, NEW t, NEW p, NEW r, NEW q,
           Whole(C, F, B, D, t, p, r, q), D < p[1], r < p[1], q[1] < p[1]
    PROVE  /\ B[p].prev \in Point /\ B[p].prev[1] = p[1] - 1 /\ p \in DOMAIN B
           /\ Whole(C, F, B, D, t, B[p].prev, r, q)
<1>1. PICK w \in [0..p[1] -> Point] :
          Path(C, F, B, D, t, w, p) /\ On(C, w[r]) /\ w[q[1]] = q
  BY Zenon DEF Whole
<1>2. p \in Point /\ p[1] \in Nat /\ r \in 0..p[1] /\ q[1] \in 0..p[1]
  BY DEF Whole, Point
<1> DEFINE z == B[p].prev
<1> DEFINE v == [k \in 0..(p[1] - 1) |-> w[k]]
<1>3. z = w[p[1] - 1] /\ w[p[1] - 1] \in Point /\ w[p[1] - 1][1] = p[1] - 1 /\ p \in DOMAIN B
  BY <1>1, <1>2 DEF Path
<1>4. v \in [0..z[1] -> Point] /\ \A k \in 0..z[1] : k \in 0..p[1] /\ v[k] = w[k]
  BY <1>2, <1>3
<1> HIDE DEF v, z
<1>5. Path(C, F, B, D, t, v, z)
  <2>1. v[0] = Origin /\ v[z[1]] = z
    BY <1>1, <1>2, <1>3, <1>4 DEF Path
  <2>2. \A k \in 0..z[1] : Seen(C, F, v[k]) /\ v[k][1] = k
    BY <1>1, <1>4 DEF Path
  <2>3. ASSUME NEW k \in 0..z[1], On(C, v[k]), NEW j \in 0..k
        PROVE  On(C, v[j])
    <3>1. j \in 0..z[1] /\ j \in 0..p[1]
      BY <1>2, <1>3, <2>3
    <3> QED
      BY <1>1, <1>4, <2>3, <3>1 DEF Path
  <2>4. ASSUME NEW k \in (D + 1)..z[1]
        PROVE  v[k] \in DOMAIN B /\ B[v[k]].prev = v[k - 1]
    <3>1. k \in (D + 1)..p[1] /\ k \in 0..z[1] /\ k - 1 \in 0..z[1]
      BY <1>2, <1>3, <2>4
    <3> QED
      BY <1>1, <1>4, <3>1 DEF Path
  <2>5. \A k \in 0..z[1] : k + F <= t => On(C, v[k])
    BY <1>1, <1>4 DEF Path
  <2> QED
    BY <1>4, <2>1, <2>2, <2>3, <2>4, <2>5 DEF Path
<1>6. r \in 0..z[1] /\ q[1] \in 0..z[1]
  BY <1>2, <1>3
<1>7. Whole(C, F, B, D, t, z, r, q)
  BY <1>1, <1>3, <1>4, <1>5, <1>6, Zenon DEF Whole
<1> QED
  BY <1>3, <1>7 DEF z

(* A block is linked to the end of the path. *)
LEMMA WholeOn ==
    ASSUME NEW C, NEW F \in Nat, NEW B, NEW D \in Nat, NEW t \in Nat, NEW p, NEW r, NEW q,
           Whole(C, F, B, D, t, p, r, q), NEW z, Seen(C, F, z), z[1] = p[1] + 1,
           z[1] <= D \/ (z \in DOMAIN B /\ B[z].prev = p),
           On(C, z) => On(C, p),
           z[1] + F <= t => On(C, z),
           NEW s \in {r, z[1]}, s = z[1] => On(C, z)
    PROVE  Whole(C, F, B, D, t, z, s, q)
<1>1. PICK w \in [0..p[1] -> Point] :
          Path(C, F, B, D, t, w, p) /\ On(C, w[r]) /\ w[q[1]] = q
  BY Zenon DEF Whole
<1>2. /\ p \in Point /\ p[1] \in Nat /\ r \in 0..p[1] /\ q[1] \in 0..p[1]
      /\ z \in Point /\ z[1] \in Nat /\ ~(z[1] \in 0..p[1])
  BY DEF Whole, Point, Seen
<1> DEFINE v == [k \in 0..z[1] |-> IF k = z[1] THEN z ELSE w[k]]
<1>3. v \in [0..z[1] -> Point] /\ v[z[1]] = z /\ \A k \in 0..p[1] : k \in 0..z[1] /\ v[k] = w[k]
  BY <1>2
<1>4. \A k \in 0..z[1] : k \in 0..p[1] \/ k = z[1]
  BY <1>2
<1> HIDE DEF v
<1>5. Path(C, F, B, D, t, v, z)
  <2>1. v[0] = Origin
    BY <1>1, <1>2, <1>3 DEF Path
  <2>2. \A k \in 0..z[1] : Seen(C, F, v[k]) /\ v[k][1] = k
    BY <1>1, <1>3, <1>4 DEF Path
  <2>3. ASSUME NEW k \in 0..z[1], On(C, v[k]), NEW j \in 0..k
        PROVE  On(C, v[j])
    <3>1. CASE k \in 0..p[1]
      <4>1. j \in 0..p[1]
        BY <1>2, <3>1
      <4> QED
        BY <1>1, <1>3, <2>3, <3>1, <4>1 DEF Path
    <3>2. CASE k = z[1]
      <4>1. On(C, z) /\ On(C, p) /\ w[p[1]] = p
        BY <1>1, <1>3, <2>3, <3>2 DEF Path
      <4>2. CASE j \in 0..p[1]
        BY <1>1, <1>2, <1>3, <4>1, <4>2 DEF Path
      <4>3. CASE j = z[1]
        BY <1>3, <4>1, <4>3
      <4> QED
        BY <1>2, <1>4, <3>2, <4>2, <4>3
    <3> QED
      BY <1>4, <3>1, <3>2
  <2>4. ASSUME NEW k \in (D + 1)..z[1]
        PROVE  v[k] \in DOMAIN B /\ B[v[k]].prev = v[k - 1]
    <3>1. CASE k = z[1]
      <4>1. k - 1 = p[1] /\ p[1] \in 0..p[1]
        BY <1>2, <3>1
      <4>2. v[k - 1] = p
        BY <1>1, <1>3, <4>1 DEF Path
      <4>3. ~(z[1] <= D)
        BY <1>2, <3>1
      <4> QED
        BY <1>3, <3>1, <4>2, <4>3
    <3>2. CASE k # z[1]
      <4>1. k \in (D + 1)..p[1] /\ k \in 0..p[1] /\ k - 1 \in 0..p[1]
        BY <1>2, <3>2
      <4> QED
        BY <1>1, <1>3, <4>1 DEF Path
    <3> QED
      BY <3>1, <3>2
  <2>5. \A k \in 0..z[1] : k + F <= t => On(C, v[k])
    BY <1>1, <1>3, <1>4 DEF Path
  <2> QED
    BY <1>3, <2>1, <2>2, <2>3, <2>4, <2>5 DEF Path
<1>6. s \in 0..z[1] /\ q[1] \in 0..z[1] /\ On(C, v[s]) /\ v[q[1]] = q
  BY <1>1, <1>2, <1>3
<1> QED
  BY <1>2, <1>3, <1>5, <1>6, Zenon DEF Whole

(* What a path says of its end. *)
LEMMA WholeEnd ==
    ASSUME NEW C, NEW F \in Nat, NEW B, NEW D \in Nat, NEW t \in Nat, NEW p, NEW r, NEW q,
           Whole(C, F, B, D, t, p, r, q)
    PROVE  /\ Seen(C, F, p) /\ p \in Point /\ r \in 0..p[1] /\ q[1] \in 0..p[1] /\ p[1] \in Nat
           /\ p[1] = 0 => p = Origin
           /\ r = p[1] \/ p[1] + F <= t => On(C, p)
           /\ q[1] = p[1] => q = p
<1>1. PICK w \in [0..p[1] -> Point] :
          Path(C, F, B, D, t, w, p) /\ On(C, w[r]) /\ w[q[1]] = q
  BY Zenon DEF Whole
<1>2. p \in Point /\ p[1] \in Nat /\ r \in 0..p[1] /\ q[1] \in 0..p[1]
  BY DEF Whole, Point
<1>3. w[p[1]] = p /\ w[0] = Origin
  BY <1>1 DEF Path
<1>4. Seen(C, F, p)
  BY <1>1, <1>2, <1>3 DEF Path
<1>5. p[1] + F <= t => On(C, p)
  BY <1>1, <1>2, <1>3 DEF Path
<1> QED
  BY <1>1, <1>2, <1>3, <1>4, <1>5

(* A path that ends on the chain is on it all along, and what is on the    *)
(* chain up to r is so up to each slot below.                              *)
LEMMA WholeUpTo ==
    ASSUME NEW C, NEW F \in Nat, NEW B, NEW D \in Nat, NEW t \in Nat, NEW p, NEW r, NEW q,
           Whole(C, F, B, D, t, p, r, q), NEW s \in 0..p[1], s <= r \/ On(C, p)
    PROVE  Whole(C, F, B, D, t, p, s, q) /\ Whole(C, F, B, D, t, p, s, Origin)
<1>1. PICK w \in [0..p[1] -> Point] :
          Path(C, F, B, D, t, w, p) /\ On(C, w[r]) /\ w[q[1]] = q
  BY Zenon DEF Whole
<1>2. p \in Point /\ p[1] \in Nat /\ r \in 0..p[1] /\ q[1] \in 0..p[1]
  BY DEF Whole, Point
<1>3. On(C, w[s])
  <2>1. CASE s <= r
    <3>1. s \in 0..r
      BY <1>2, <2>1
    <3> QED
      BY <1>1, <1>2, <3>1 DEF Path
  <2>2. CASE On(C, p)
    <3>1. On(C, w[p[1]]) /\ p[1] \in 0..p[1]
      BY <1>1, <1>2, <2>2 DEF Path
    <3> QED
      BY <1>1, <3>1 DEF Path
  <2> QED
    BY <2>1, <2>2
<1>4. Origin[1] = 0 /\ w[Origin[1]] = Origin /\ Origin[1] \in 0..p[1]
  BY <1>1, <1>2 DEF Path, Origin
<1> QED
  BY <1>1, <1>2, <1>3, <1>4, Zenon DEF Whole

(* A path to a point of the chain has cached its blocks. *)
LEMMA WholeCached ==
    ASSUME NEW C, NEW F \in Nat, NEW B, NEW D \in Nat, NEW t \in Nat, NEW p, NEW r, NEW q,
           Whole(C, F, B, D, t, p, r, q), On(C, p), NEW n \in (D + 1)..p[1]
    PROVE  PointAt(C, n) \in DOMAIN B
<1>1. PICK w \in [0..p[1] -> Point] :
          Path(C, F, B, D, t, w, p) /\ On(C, w[r]) /\ w[q[1]] = q
  BY Zenon DEF Whole
<1>2. p[1] \in Nat /\ n \in 0..p[1] /\ p[1] \in 0..p[1]
  BY DEF Whole, Point
<1>3. On(C, w[n]) /\ w[n][1] = n
  BY <1>1, <1>2 DEF Path
<1>4. w[n] = PointAt(C, n)
  BY <1>3 DEF On
<1> QED
  BY <1>1, <1>4 DEF Path

(* A tip that forks have not reached, and an empty cache. *)
LEMMA WholeOrigin ==
    ASSUME NEW C, NEW F, WellMade(C, F), NEW B, NEW D \in Nat, NEW t
    PROVE  Whole(C, F, B, D, t, Origin, 0, Origin)
<1> DEFINE w == [k \in 0..0 |-> Origin]
<1>1. Origin \in Point /\ Origin[1] = 0 /\ 0..0 = {0} /\ (D + 1)..0 = {}
  BY DEF Origin, Point
<1>2. On(C, Origin) /\ Seen(C, F, Origin)
  BY <1>1, PointsOfChain DEF WellMade, On, Seen, PointAt
<1>3. w \in [0..Origin[1] -> Point] /\ w[0] = Origin
  BY <1>1
<1> HIDE DEF w
<1>4. Path(C, F, B, D, t, w, Origin)
  BY <1>1, <1>2, <1>3 DEF Path
<1> QED
  BY <1>1, <1>2, <1>3, <1>4 DEF Whole

(* The tip may move up when the path is on the chain. *)
LEMMA WholeLevel ==
    ASSUME NEW C, NEW F \in Nat, NEW B, NEW D \in Nat, NEW t \in Nat, NEW p, NEW r, NEW q,
           Whole(C, F, B, D, t, p, r, q), On(C, p), NEW u \in Nat
    PROVE  Whole(C, F, B, D, u, p, p[1], q)
<1>1. PICK w \in [0..p[1] -> Point] :
          Path(C, F, B, D, t, w, p) /\ On(C, w[r]) /\ w[q[1]] = q
  BY Zenon DEF Whole
<1>2. p \in Point /\ p[1] \in Nat /\ p[1] \in 0..p[1] /\ q[1] \in 0..p[1]
  BY DEF Whole, Point
<1>3. w[p[1]] = p /\ \A k \in 0..p[1] : On(C, w[k])
  BY <1>1, <1>2 DEF Path
<1>4. Path(C, F, B, D, u, w, p)
  BY <1>1, <1>3 DEF Path
<1> QED
  BY <1>1, <1>2, <1>3, <1>4 DEF Whole

(* The path goes through the point of the chain at r. *)
LEMMA WholeThrough ==
    ASSUME NEW C, NEW F, WellMade(C, F), NEW B, NEW D \in Nat, NEW t \in Nat, NEW p, NEW r, NEW q,
           Whole(C, F, B, D, t, p, r, q)
    PROVE  Whole(C, F, B, D, t, p, r, PointAt(C, r)) /\ r \in 0..Len(C) /\ PointAt(C, r)[1] = r
<1>1. PICK w \in [0..p[1] -> Point] :
          Path(C, F, B, D, t, w, p) /\ On(C, w[r]) /\ w[q[1]] = q
  BY Zenon DEF Whole
<1>2. p \in Point /\ p[1] \in Nat /\ r \in 0..p[1]
  BY DEF Whole, Point
<1>3. w[r][1] = r
  BY <1>1, <1>2 DEF Path
<1>4. w[r] = PointAt(C, r) /\ r \in 0..Len(C)
  BY <1>1, <1>3 DEF On
<1>5. PointAt(C, r)[1] = r
  BY <1>3, <1>4
<1> QED
  BY <1>1, <1>2, <1>4, <1>5 DEF Whole

-----------------------------------------------------------------------------
(* What holds whatever auto_rollback_slots is. *)
BaseInv ==
    /\ scenario \in Scenarios
    /\ DOMAIN node = {"chain", "mem", "forks", "drops"}
    /\ WellMade(node.chain, node.forks) /\ node.forks <= scenario.forks
    /\ session \in [read : 0..Len(node.chain), roll : BOOLEAN]
    /\ DOMAIN cache = {"tip", "blocks"}
    /\ cache.tip = {} \/ cache.tip = {ResumePoint}
    /\ Seen(node.chain, node.forks, ResumePoint)
    /\ \A p \in DOMAIN cache.blocks :
          Seen(node.chain, node.forks, p) /\ Seen(node.chain, node.forks, cache.blocks[p].prev)
    /\ DOMAIN led = DOMAIN Idle
    /\ Seen(node.chain, node.forks, led.at)
    /\ led.to \in Point /\ led.any \in BOOLEAN
    /\ led.pc \in {"down", "rolling", "undoing", "connect", "idle", "applying", "caching",
                   "unrolling", "deleted", "unapplying"}
    /\ led.pc = "undoing" => Cached(led.at)
    /\ led.pc = "caching" => PointOf(led.blk) = ResumePoint

(* The cache leads to p through q, and follows the chain up to slot r. *)
Sound(p, r, q) ==
    Whole(node.chain, node.forks, cache.blocks, scenario.disableUntil, ResumePoint[1], p, r, q)

(* The block of the tip is not cached: a start will not get past it. *)
Lost == ResumePoint[1] > 0 /\ ~Cached(ResumePoint)

DownInv == led.pc = "down" => Sound(ResumePoint, 0, Origin) \/ Lost

RollingInv ==
    led.pc \in {"rolling", "undoing"} =>
        /\ led.to = <<TargetSlot(ResumePoint), 0>> /\ led.at[1] >= led.to[1]
        /\ \/ led.at = ResumePoint /\ ~led.any /\ (Sound(ResumePoint, 0, Origin) \/ Lost)
           \/ led.any /\ led.at[1] < ResumePoint[1] /\ Lost /\ Sound(led.at, 0, Origin)
        /\ led.pc = "undoing" => led.at[1] > led.to[1]

ConnectInv == led.pc = "connect" => Sound(ResumePoint, 0, Origin)

(* The tip on disk is not behind the read pointer, and ahead of it only by *)
(* what forks took away.                                                   *)
Ahead(n) ==
    /\ session.read <= n
    /\ ResumePoint[1] <= session.read + node.forks
    /\ ~session.roll => session.read = n
    /\ session.read = ResumePoint[1] \/ session.read > scenario.disableUntil

IdleInv ==
    led.pc \in {"idle", "applying"} =>
        Sound(ResumePoint, session.read, Origin) /\ Ahead(ResumePoint[1])

CachingInv ==
    led.pc = "caching" =>
        /\ led.blk \in Block
        /\ led.at[1] + 1 = ResumePoint[1] /\ ResumePoint[1] > scenario.disableUntil
        /\ On(node.chain, ResumePoint) =>
              led.blk = node.chain[ResumePoint[1]] /\ On(node.chain, led.at)
        /\ Cached(ResumePoint) => cache.blocks[ResumePoint].prev = led.at
        /\ ~session.roll => On(node.chain, ResumePoint)
        /\ session.roll => session.read <= led.at[1]
        /\ Ahead(ResumePoint[1])
        /\ Sound(led.at, IF session.roll THEN session.read ELSE led.at[1], Origin)

UnrollInv ==
    led.pc \in {"unrolling", "unapplying"} =>
        /\ scenario.disableUntil < led.to[1]
        /\ Ahead(led.to[1]) /\ Sound(ResumePoint, session.read, led.to)

DeletedInv ==
    led.pc = "deleted" =>
        /\ scenario.disableUntil < led.to[1] /\ led.at[1] < ResumePoint[1]
        /\ Lost /\ Ahead(led.to[1]) /\ Sound(led.at, session.read, led.to)

LinkInv ==
    /\ Entries(node.chain, cache.blocks)
    /\ \A p \in DOMAIN cache.blocks : p[1] > scenario.disableUntil
    /\ ResumePoint[1] <= Len(node.chain) + node.forks
    /\ DownInv /\ RollingInv /\ ConnectInv /\ IdleInv /\ CachingInv /\ UnrollInv /\ DeletedInv

(* The point to resume from is far enough below the tip for the forks that *)
(* may still come.                                                         *)
ResumeInv ==
    led.pc = "connect" /\ scenario.forks <= scenario.rollbackSlots =>
        \/ ResumePoint = Origin
        \/ /\ ResumePoint[1] + scenario.forks <= Len(node.chain) + node.forks
           /\ On(node.chain, ResumePoint)

CacheInv == BaseInv /\ ResumeInv /\ (scenario.rollbackSlots > 0 => LinkInv)

-----------------------------------------------------------------------------
(* The types that the steps below need. *)
LEMMA Basics ==
    ASSUME BaseInv
    PROVE  /\ scenario.forks \in Nat /\ scenario.disableUntil \in Nat /\ scenario.rollbackSlots \in Nat
           /\ node.forks \in Nat /\ Len(node.chain) \in Nat
           /\ session.read \in 0..Len(node.chain) /\ session.roll \in BOOLEAN
           /\ ResumePoint \in Point /\ ResumePoint[1] \in Nat
           /\ led.at \in Point /\ led.at[1] \in Nat /\ led.to[1] \in Nat
BY ScenarioAssumption DEF BaseInv, WellMade, Seen, Point

(* The writes to the cache. *)
LEMMA TipSet ==
    ASSUME BaseInv, NEW p, SetTip(p)
    PROVE  /\ cache'.tip = {p} /\ ResumePoint' = p /\ cache'.blocks = cache.blocks
           /\ DOMAIN cache' = DOMAIN cache
<1>1. cache'.tip = {p} /\ cache'.blocks = cache.blocks /\ DOMAIN cache' = DOMAIN cache
  BY DEF BaseInv, SetTip
<1>2. ResumePoint' = p
  BY <1>1 DEF ResumePoint
<1> QED
  BY <1>1, <1>2

LEMMA BlockDeleted ==
    ASSUME BaseInv, NEW p, DeleteBlock(p)
    PROVE  /\ cache'.tip = cache.tip /\ ResumePoint' = ResumePoint
           /\ DOMAIN cache' = DOMAIN cache
           /\ DOMAIN cache'.blocks = DOMAIN cache.blocks \ {p}
           /\ \A x \in DOMAIN cache'.blocks : cache'.blocks[x] = cache.blocks[x]
<1>1. /\ cache'.tip = cache.tip /\ DOMAIN cache' = DOMAIN cache
      /\ cache'.blocks = [q \in DOMAIN cache.blocks \ {p} |-> cache.blocks[q]]
  BY DEF BaseInv, DeleteBlock
<1>2. ResumePoint' = ResumePoint
  BY <1>1 DEF ResumePoint
<1> QED
  BY <1>1, <1>2

LEMMA BlockLinked ==
    ASSUME BaseInv, NEW b, NEW q, cache' = Linked(b, q)
    PROVE  /\ cache'.tip = cache.tip /\ ResumePoint' = ResumePoint
           /\ DOMAIN cache' = DOMAIN cache
           /\ DOMAIN cache'.blocks = DOMAIN cache.blocks \cup {PointOf(b)}
           /\ cache'.blocks[PointOf(b)] = [blk |-> b, prev |-> q]
           /\ \A x \in DOMAIN cache.blocks : x # PointOf(b) => cache'.blocks[x] = cache.blocks[x]
<1>1. /\ cache'.tip = cache.tip /\ DOMAIN cache' = DOMAIN cache
      /\ cache'.blocks = [p \in DOMAIN cache.blocks \cup {PointOf(b)} |->
                             IF p = PointOf(b) THEN [blk |-> b, prev |-> q] ELSE cache.blocks[p]]
  BY DEF BaseInv, Linked
<1>2. ResumePoint' = ResumePoint
  BY <1>1 DEF ResumePoint
<1> QED
  BY <1>1, <1>2

(* Steps of the other tasks. *)
LEMMA ElsewhereKeeps ==
    ASSUME CacheInv, UNCHANGED <<session, cache, led, scenario>>,
           node'.chain = node.chain, node'.forks = node.forks, DOMAIN node' = DOMAIN node
    PROVE  CacheInv'
<1>1. ResumePoint' = ResumePoint
  BY DEF ResumePoint
<1>2. BaseInv'
  BY <1>1 DEF CacheInv, BaseInv, Cached
<1>3. ResumeInv'
  BY <1>1 DEF CacheInv, ResumeInv
<1>4. ASSUME scenario.rollbackSlots > 0
      PROVE  LinkInv'
  <2>1. LinkInv
    BY <1>4 DEF CacheInv
  <2>2. DownInv' /\ RollingInv' /\ ConnectInv'
    BY <1>1, <2>1 DEF LinkInv, DownInv, RollingInv, ConnectInv, Sound, Lost, Cached, TargetSlot
  <2>3. IdleInv' /\ UnrollInv' /\ DeletedInv'
    <3>1. \A n : Ahead(n)' <=> Ahead(n)
      BY <1>1 DEF Ahead
    <3>2. \A p, n, q : Sound(p, n, q)' <=> Sound(p, n, q)
      BY <1>1 DEF Sound, Cached
    <3>3. Lost' <=> Lost
      BY <1>1 DEF Lost, Cached
    <3>4. IdleInv'
      BY <1>1, <2>1, <3>1, <3>2 DEF LinkInv, IdleInv
    <3>5. UnrollInv'
      BY <1>1, <2>1, <3>1, <3>2 DEF LinkInv, UnrollInv
    <3>6. DeletedInv'
      BY <1>1, <2>1, <3>1, <3>2, <3>3 DEF LinkInv, DeletedInv
    <3> QED
      BY <3>4, <3>5, <3>6
  <2>4. CachingInv'
    BY <1>1, <2>1 DEF LinkInv, CachingInv, Sound, Cached, Ahead
  <2> QED
    BY <1>1, <2>1, <2>2, <2>3, <2>4 DEF LinkInv
<1> QED
  BY <1>2, <1>3, <1>4 DEF CacheInv
=============================================================================
