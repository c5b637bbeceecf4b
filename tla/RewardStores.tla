---------------------------- MODULE RewardStores ----------------------------
(***************************************************************************)
(* What the reward bot and the verifier keep.                              *)
(*                                                                         *)
(* The bot's persistent task queue (engine/queue.rs), as operators on a    *)
(* record with one field per column family:                                *)
(*   pending  pairs <<strike time, task>>;   index   tasks known;          *)
(*   done     tasks executed;                doneTx  pairs <<tx, task>>;   *)
(*   clocks   slots of the blocks seen;      settled pairs <<tx, slot>>.   *)
(*                                                                         *)
(* The entity index that the reward bot and the verifier each keep         *)
(* (entity_index/mod.rs, entity_index/rocksdb.rs), as operators on a       *)
(* record:                                                                 *)
(*   ord    the stored harvest orders with their status and whether it is  *)
(*          confirmed or predicted;                                        *)
(*   desig  the order designated for a user in an epoch;                   *)
(*   ends   per user, the stack of last epochs harvested;                  *)
(*   trees  the stack of Merkle tree snapshots with their slots;           *)
(*   proj   versions of the buffer wallet and of the gauge;                *)
(*   fund   the operator's funding boxes;                                  *)
(*   ok     FALSE once an assertion or an unwrap has failed.               *)
(* A Merkle tree is the sequence of its leaves, and so is its root.        *)
(***************************************************************************)
EXTENDS DaoStores, SequencesExt

CONSTANTS
    Owner,          \* order |-> user
    EpochSlots      \* slots in an epoch

-----------------------------------------------------------------------------
(* The task queue. *)

\* Number of slots after which a settled transaction is forgotten.
SettlementDepth == 6

\* Slots by which a task is put off.
RetryDelay == 60

NewQueue(slot) ==
    [pending |-> {}, index |-> {}, done |-> {}, doneTx |-> {}, clocks |-> {slot}, settled |-> {}]

CurrentTime(q) == Max(q.clocks)

Cancel(q, id) ==
    [q EXCEPT !.index = @ \ {id}, !.pending = {k \in @ : k[2] # id}]

\* Schedule(id, task, Ready), after the cancellation batch_execute puts first.
Schedule(q, id) ==
    [Cancel(q, id) EXCEPT !.index = @ \cup {id}, !.pending = @ \cup {<<CurrentTime(q), id>>}]

\* The keys the task is already pending under stay.
Reschedule(q, id, delay) ==
    [q EXCEPT !.pending = @ \cup {<<CurrentTime(q) + delay, id>>}]

Done(q, id, tx) ==
    [q EXCEPT !.done = @ \cup {id}, !.doneTx = @ \cup {<<tx, id>>}]

Settle(q, tx, slot) ==
    [q EXCEPT !.settled = {s \in @ : s[1] # tx} \cup {<<tx, slot>>}]

TasksOf(q, tx) == {id \in {k[2] : k \in q.doneTx} : <<tx, id>> \in q.doneTx}

\* The unwrap on the task of a transaction that was cancelled meanwhile.
ReadTasksPanics(q, tx) == ~(TasksOf(q, tx) \subseteq q.index)

DropTx(q, tx) ==
    [q EXCEPT !.done = @ \ TasksOf(q, tx), !.doneTx = {k \in @ : k[1] # tx}]

\* Forgets the tasks of the transactions settled long enough ago.
AdvanceClocks(q, time) ==
    LET old == {s[1] : s \in {t \in q.settled : t[2] < time /\ time - t[2] > SettlementDepth}}
        ids == UNION {TasksOf(q, tx) : tx \in old}
    IN  [q EXCEPT !.clocks = @ \cup {time},
                  !.index = @ \ ids,
                  !.done = @ \ ids,
                  !.doneTx = {k \in @ : k[1] \notin old},
                  !.settled = {s \in @ : s[1] \notin old}]

DowngradeClocks(q, time) == [q EXCEPT !.clocks = @ \ {time}]

\* pending_stream: the keys handed out, and the queue without the due keys of
\* tasks that are unknown or done.
Due(q) == {k \in q.pending : q.clocks # {} /\ k[1] <= CurrentTime(q)}

Ready(q) == {k \in Due(q) : k[2] \in q.index /\ k[2] \notin q.done}

\* Mutant: tasks handed out are no longer pending.
SweepHandedOut(q) == [q EXCEPT !.pending = @ \ Due(q)]

Sweep(q) == [q EXCEPT !.pending = @ \ (Due(q) \ Ready(q))]

ScheduleAll(q, ids) == FoldSet(LAMBDA id, r : Schedule(r, id), q, ids)

CancelAll(q, ids) == FoldSet(LAMBDA id, r : Cancel(r, id), q, ids)

RescheduleAll(q, ids, delay) == FoldSet(LAMBDA id, r : Reschedule(r, id, delay), q, ids)

DoneAll(q, ids, tx) == FoldSet(LAMBDA id, r : Done(r, id, tx), q, ids)

\* reschedule_tasks_from_dropped_tx: nothing happens for an unknown
\* transaction; gauge buffering is due at once.
RescheduleDropped(q, tx, gauges) ==
    IF TasksOf(q, tx) = {} THEN q
    ELSE RescheduleAll(RescheduleAll(DropTx(q, tx), TasksOf(q, tx) \cap gauges, 0),
                       TasksOf(q, tx) \ gauges, RetryDelay)

-----------------------------------------------------------------------------
(* The entity index. *)

EpochOf(slot) == slot \div EpochSlots

Wallet == "wallet"
Gauge == "gauge"

Confirmed == "confirmed"
Predicted == "predicted"

\* A failed assertion: the process exits, what was committed before stays.
Fail(x) == [x EXCEPT !.ok = FALSE]

\* root is the one in the datum of the output kept with the state; predicted
\* is the Merkle tree of a predicted harvest, if any.
WalletState(mod, ver, prev, root, bal, predicted) ==
    [mod |-> mod, ver |-> ver, prev |-> prev, root |-> root, bal |-> bal, predicted |-> predicted]

GaugeState(mod, ver, prev, bal) == [mod |-> mod, ver |-> ver, prev |-> prev, bal |-> bal]

\* remove(): the version removed must be the latest.
RemoveVersion(x, id, ver) ==
    IF id \in DOMAIN x.proj.latest /\ (x.proj.latest[id] # ver \/ RemovePanics(x.proj, id))
    THEN Fail(x)
    ELSE [x EXCEPT !.proj = RemoveLatest(@, id)]

\* The version that remove() answers must be the input of the event.
RemoveExpecting(x, id, ver, prev) ==
    LET y   == RemoveVersion(x, id, ver)
        key == <<id, ver>>
    IN  IF y.ok /\ ~(key \in DOMAIN x.proj.prev /\ x.proj.prev[key] = prev) THEN Fail(y) ELSE y

Designated(x, user, epoch) == {d \in x.desig : d.user = user /\ d.epoch = epoch}

Stored(x, o) == o \in DOMAIN x.ord

Status(mod, st, epoch, at) == [mod |-> mod, st |-> st, epoch |-> epoch, at |-> at]

SetOrder(x, o, mod, st, at) ==
    [x EXCEPT !.ord = (o :> Status(mod, st, x.ord[o].epoch, at)) @@ @]

LastEpochHarvested(x, u) == IF x.ends[u] = <<>> THEN -1 ELSE Last(x.ends[u])

LastConfirmedMerkleTree(x) == Last(x.trees).tree

-----------------------------------------------------------------------------
\* The first order of a user in an epoch is designated, later ones ignored.
WriteConfirmedHarvestOrder(x, o, epoch) ==
    IF Designated(x, Owner[o], epoch) # {} THEN x
    ELSE [x EXCEPT !.ord = (o :> Status(Confirmed, "unspent", epoch, 0)) @@ @,
                   !.desig = @ \cup {[user |-> Owner[o], epoch |-> epoch, order |-> o]}]

RemoveCreatedHarvestOrder(x, o) ==
    IF ~Stored(x, o) \/ x.ord[o].mod # Confirmed \/ x.ord[o].st # "unspent" THEN Fail(x)
    ELSE LET mine == {d \in Designated(x, Owner[o], x.ord[o].epoch) : d.order = o}
         IN  IF mine = {} THEN x
             ELSE [x EXCEPT !.ord = Without(@, o), !.desig = @ \ mine]

WriteConfirmedRefund(x, o) ==
    IF ~Stored(x, o) THEN x
    ELSE IF x.ord[o].mod # Confirmed THEN Fail(x)
    ELSE [SetOrder(x, o, Confirmed, "refunded", 0) EXCEPT
            !.desig = @ \ Designated(x, Owner[o], x.ord[o].epoch)]

UndoConfirmedRefund(x, o) ==
    IF ~Stored(x, o) THEN x
    ELSE IF \/ x.ord[o].mod # Confirmed
            \/ x.ord[o].st # "refunded"
            \/ Designated(x, Owner[o], x.ord[o].epoch) # {}
    THEN Fail(x)
    ELSE [SetOrder(x, o, Confirmed, "unspent", 0) EXCEPT
            !.desig = @ \cup {[user |-> Owner[o], epoch |-> x.ord[o].epoch, order |-> o]}]

WritePredictedSpend(x, o, leaf) ==
    IF ~Stored(x, o) \/ x.ord[o].mod # Confirmed THEN x
    ELSE IF x.ord[o].st # "unspent" THEN Fail(x)
    ELSE SetOrder(x, o, Predicted, "spent", leaf.end + 1)

\* Undo a spending or refund of a harvest order.
Unconsume(x, o) ==
    IF ~Stored(x, o) THEN x
    ELSE IF x.ord[o].st = "unspent" THEN Fail(x)
    ELSE SetOrder(x, o, Confirmed, "unspent", 0)

\* The spend read back from a confirmed harvest: its epochs come from the
\* index and the slot of the block, its amount from the transaction.
ConfirmedLeaf(x, pay, slot) ==
    [user |-> Owner[pay.order], amt |-> pay.leaf.amt,
     start |-> LastEpochHarvested(x, Owner[pay.order]) + 1, end |-> EpochOf(slot) - 1]

SpendAsserts(x, o, leaf) ==
    ~Stored(x, o) \/ IF x.ord[o].mod = Confirmed THEN x.ord[o].st = "unspent"
                     ELSE x.ord[o].st = "spent" /\ x.ord[o].at = leaf.end + 1

SpendOrder(x, o, leaf) ==
    LET y == IF Stored(x, o) THEN SetOrder(x, o, Confirmed, "spent", leaf.end + 1) ELSE x
    IN  [y EXCEPT !.ends[Owner[o]] = Append(@, leaf.end)]

\* One database transaction: orders, last epochs and the next Merkle tree.
WriteConfirmedSpends(x, pays, slot) ==
    LET leaves == [i \in DOMAIN pays |-> ConfirmedLeaf(x, pays[i], slot)]
        spent  == FoldLeftDomain(LAMBDA y, i : SpendOrder(y, pays[i].order, leaves[i]), x, pays)
    IN  IF \E i \in DOMAIN pays : \/ leaves[i].start > leaves[i].end
                                  \/ ~SpendAsserts(x, pays[i].order, leaves[i])
        THEN Fail(x)
        ELSE [spent EXCEPT
                !.trees = Append(@, [tree |-> LastConfirmedMerkleTree(x) \o leaves, slot |-> slot])]

\* Mutant: the last epoch of the user is kept when a harvest is rolled back.
UndoConfirmedSpendsKeepsEnds(x, pays, slot) ==
    LET back == FoldLeft(LAMBDA y, p : Unconsume(y, p.order), x, pays)
    IN  IF Last(x.trees).slot # slot \/ ~back.ok THEN Fail(x)
        ELSE [back EXCEPT !.trees = Front(@)]

\* Mutant: the Merkle tree of the harvest is not popped.
UndoConfirmedSpendsKeepsTree(x, pays, slot) ==
    LET back == FoldLeft(LAMBDA y, p : Unconsume(y, p.order), x, pays)
        ends == [u \in DOMAIN x.ends |->
                    IF \E i \in DOMAIN pays : Owner[pays[i].order] = u
                    THEN Front(x.ends[u]) ELSE x.ends[u]]
    IN  IF Last(x.trees).slot # slot \/ ~back.ok THEN Fail(x) ELSE [back EXCEPT !.ends = ends]

UndoConfirmedSpends(x, pays, slot) ==
    LET back == FoldLeft(LAMBDA y, p : Unconsume(y, p.order), x, pays)
        ends == [u \in DOMAIN x.ends |->
                    IF \E i \in DOMAIN pays : Owner[pays[i].order] = u
                    THEN Front(x.ends[u]) ELSE x.ends[u]]
    IN  IF \/ Last(x.trees).slot # slot
           \/ ~back.ok
           \/ \E i \in DOMAIN pays : x.ends[Owner[pays[i].order]] = <<>>
        THEN Fail(x)
        ELSE [back EXCEPT !.trees = Front(@), !.ends = ends]

-----------------------------------------------------------------------------
\* index_events, RollForward.  root and bal of a confirmed wallet are those of
\* the output; a confirmed state carries no predicted Merkle tree.
IndexForward(x, blk) ==
    LET ev == blk.ev
        withWallet == [x EXCEPT !.proj =
            Write(@, Wallet, WalletState(Confirmed, ev.tx.id, ev.tx.wallet, ev.tx.root, ev.tx.bal, {}))]
    IN  CASE ev.type = "order"   -> WriteConfirmedHarvestOrder(x, ev.order, EpochOf(blk.slot))
          [] ev.type = "refund"  -> WriteConfirmedRefund(x, ev.order)
          [] ev.type = "charge"  ->
                [x EXCEPT !.proj = Write(@, Gauge, GaugeState(Confirmed, ev.ver, ev.prev, ev.bal))]
          [] ev.type = "harvest" -> WriteConfirmedSpends(withWallet, ev.tx.pays, blk.slot)
          [] ev.type = "buffer"  ->
                [withWallet EXCEPT !.proj = Write(@, Gauge, GaugeState(Confirmed, ev.tx.id, ev.tx.gauge, 0))]
          [] OTHER -> x

\* index_events, RollBackward.
IndexBackward(x, blk) ==
    LET ev == blk.ev
        noWallet == RemoveExpecting(x, Wallet, ev.tx.id, ev.tx.wallet)
    IN  CASE ev.type = "order"   -> RemoveCreatedHarvestOrder(x, ev.order)
          [] ev.type = "refund"  -> UndoConfirmedRefund(x, ev.order)
          [] ev.type = "charge"  -> RemoveExpecting(x, Gauge, ev.ver, ev.prev)
          [] ev.type = "harvest" ->
                IF noWallet.ok THEN UndoConfirmedSpends(noWallet, ev.tx.pays, blk.slot) ELSE noWallet
          [] ev.type = "buffer"  ->
                IF noWallet.ok THEN RemoveExpecting(noWallet, Gauge, ev.tx.id, ev.tx.gauge) ELSE noWallet
          [] OTHER -> x

\* index_predicted_entities, for a transaction the node has accepted.  The
\* output kept with the predicted wallet has the datum of the wallet spent.
IndexPredictedEntities(x, tx) ==
    LET spent  == FoldLeft(LAMBDA y, p : IF y.ok THEN WritePredictedSpend(y, p.order, p.leaf) ELSE y,
                           x, tx.pays)
        gauged == IF tx.kind = "harvest" THEN spent
                  ELSE [x EXCEPT !.proj = Write(@, Gauge, GaugeState(Predicted, tx.id, tx.gauge, 0))]
        walled == [gauged EXCEPT !.proj =
            Write(@, Wallet, WalletState(Predicted, tx.id, tx.wallet, tx.from, tx.bal,
                                     IF tx.kind = "harvest" THEN {tx.root} ELSE {}))]
    IN  IF ~spent.ok THEN spent
        ELSE IF tx.kind = "harvest" THEN walled
        ELSE [walled EXCEPT !.fund = ApplyChanges(@, tx.fund)]

\* update_index_from_mempool_dropped_tx: inputs first, then the outputs in
\* their order (wallet, gauge, change).  Funding inputs are not script
\* outputs, so the UTxO index the handler looks them up in never has them.
UndoDroppedTx(x, tx) ==
    LET unspent  == FoldLeft(LAMBDA y, p : IF y.ok THEN Unconsume(y, p.order) ELSE y, x, tx.pays)
        unwalled == RemoveVersion(unspent, Wallet, tx.id)
        ungauged == RemoveVersion(unwalled, Gauge, tx.id)
    IN  IF ~unspent.ok THEN unspent
        ELSE IF ~unwalled.ok \/ tx.kind = "harvest" THEN unwalled
        ELSE IF ~ungauged.ok THEN ungauged
        ELSE [ungauged EXCEPT !.fund = FoldSet(LAMBDA b, f : EliminatePredicted(f, b), @, tx.fund.made)]

\* A fresh index over a deployment with one wallet and one gauge.
NewIndex(users, bal, boxes) ==
    [ord |-> <<>>, desig |-> {}, ends |-> [u \in users |-> <<>>],
     trees |-> <<[tree |-> <<>>, slot |-> 0]>>,
     proj |-> Write(Write(EmptyProjection, Wallet, WalletState(Confirmed, <<0>>, NoVer, <<>>, bal, {})),
                    Gauge, GaugeState(Confirmed, <<0>>, NoVer, 0)),
     fund |-> [EmptyFunding EXCEPT !.ca = boxes], ok |-> TRUE]
=============================================================================
