------------------------------ MODULE RewardBot ------------------------------
(***************************************************************************)
(* The reward distributor: a ledger with users who place and refund        *)
(* harvest orders, the bot (event pipeline, entity index, task queue,      *)
(* executor) and the verifier that cosigns its transactions (event         *)
(* pipeline, entity index, graph of unconfirmed transactions).  Each of    *)
(* the two follows the chain with its own view, one block event at a time, *)
(* and either may die and be restarted.                                    *)
(*                                                                         *)
(* A block carries at most one relevant event.  Every reward transaction   *)
(* spends the buffer wallet, so the mempool is a chain of transactions.    *)
(* LP rewards are one token per user and epoch.                            *)
(***************************************************************************)
EXTENDS RewardStores, ChainedTxGraphOps

CONSTANTS
    Users,
    BlockSlots,     \* slots between two blocks
    MaxTxs,         \* bound on the reward transactions ever built
    Scenarios       \* what may happen in a behaviour: a set of records

\* The field txs counts the reward transactions built.
ASSUME ScenarioAssumption == \A s \in Scenarios : "txs" \in DOMAIN s /\ s.txs = 0

VARIABLES
    chain,      \* the ledger: a sequence of blocks [slot, ev]
    mempool,    \* reward transactions waiting for a block
    clock,      \* slot of the last block produced
    left,       \* what is left of the scenario chosen
    bot,        \* state of the reward bot
    ver         \* state of the verifier

vars == <<chain, mempool, clock, left, bot, ver>>

Orders == DOMAIN Owner
GaugeTask == 0
FirstSlot == EpochSlots
FundingBox == <<0>>

NoTx == [kind |-> "none"]
Idle == [pc |-> "idle", tx |-> NoTx, drops |-> {}]
None == [type |-> "none"]

-----------------------------------------------------------------------------
(***************************************************************************)
(* The ledger (external).                                                  *)
(***************************************************************************)
EventsOf(c) == {c[i].ev : i \in DOMAIN c}

TxsOn(c) == {ev.tx : ev \in {e \in EventsOf(c) : e.type \in {"harvest", "buffer"}}}

WalletTip(c) == LET made == {t.id : t \in TxsOn(c)} \cup {<<0>>}
                IN  CHOOSE v \in made : \A t \in TxsOn(c) : t.wallet # v

GaugeUses(c) == {t.gauge : t \in {u \in TxsOn(c) : u.kind = "buffer"}}
                    \cup {e.prev : e \in {d \in EventsOf(c) : d.type = "charge"}}

GaugeTip(c) == LET made == {t.id : t \in {u \in TxsOn(c) : u.kind = "buffer"}} \cup {<<0>>}
                               \cup {e.ver : e \in {d \in EventsOf(c) : d.type = "charge"}}
               IN  CHOOSE v \in made : v \notin GaugeUses(c)

GaugeBalance(c) == LET here == {e \in EventsOf(c) : e.type = "charge" /\ e.ver = GaugeTip(c)}
                   IN  IF here = {} THEN 0 ELSE (CHOOSE e \in here : TRUE).bal

PaidBy(t) == {t.pays[i].order : i \in DOMAIN t.pays}

Placed(c) == {e.order : e \in {d \in EventsOf(c) : d.type = "order"}}

Unspent(c) == Placed(c) \ (UNION {PaidBy(t) : t \in TxsOn(c)}
                             \cup {e.order : e \in {d \in EventsOf(c) : d.type = "refund"}})

Block(slot, ev) == [slot |-> slot, ev |-> ev]

TxEvent(t) == [type |-> t.kind, tx |-> t]

\* The root in the datum of the unspent wallet.
WalletRoot(c) == LET made == {t \in TxsOn(c) : t.id = WalletTip(c)}
                 IN  IF made = {} THEN <<>> ELSE (CHOOSE t \in made : TRUE).root

\* The inputs are unspent; a deposit leaves the wallet's root as it is, which
\* its script sees to (the bot's "Unchanged merkle tree").
Applicable(c, t) ==
    /\ t.wallet = WalletTip(c)
    /\ PaidBy(t) \subseteq Unspent(c)
    /\ t.kind = "buffer" => t.gauge = GaugeTip(c) /\ t.root = WalletRoot(c)

\* The chain as it would be with the mempool on top.
Ahead(c, m) == c \o [i \in DOMAIN m |-> Block(clock, TxEvent(m[i]))]

\* The part of the mempool that is still applicable on top of the chain.
Prune(c, m) == FoldLeft(LAMBDA acc, t : IF Applicable(Ahead(c, acc), t) THEN Append(acc, t) ELSE acc, <<>>, m)

-----------------------------------------------------------------------------
Extend(ev, m) ==
    /\ clock < FirstSlot + BlockSlots * left.blocks
    /\ \A view \in {bot.view, ver.view} : Len(chain) < Len(view) + left.lag
    /\ clock' = clock + BlockSlots
    /\ EpochOf(clock') # EpochOf(clock) => mempool = <<>>
    /\ chain' = Append(chain, Block(clock', ev))
    /\ mempool' = Prune(chain', m)
    /\ UNCHANGED <<bot, ver>>

EmptyBlock == Extend(None, mempool) /\ UNCHANGED left

PlaceOrder(o) ==
    /\ o \in left.orders /\ o \notin Placed(chain)
    /\ Extend([type |-> "order", order |-> o], mempool)
    /\ UNCHANGED left

RefundOrder(o) ==
    /\ left.refunds > 0 /\ o \in Unspent(chain)
    /\ Extend([type |-> "refund", order |-> o], mempool)
    /\ left' = [left EXCEPT !.refunds = @ - 1]

ChargeGauge ==
    /\ left.charges > 0
    /\ Extend([type |-> "charge", ver |-> <<"charge", left.charges>>, prev |-> GaugeTip(chain),
               bal |-> GaugeBalance(chain) + 1], mempool)
    /\ left' = [left EXCEPT !.charges = @ - 1]

ConfirmInBlock ==
    /\ mempool # <<>>
    /\ Head(mempool).epoch = EpochOf(clock + BlockSlots)
    /\ Extend(TxEvent(Head(mempool)), Tail(mempool))
    /\ UNCHANGED left

\* The last block is orphaned; its transaction returns to the mempool or is lost.
ChainRollback ==
    /\ left.rollbacks > 0 /\ chain # <<>>
    /\ chain' = Front(chain)
    /\ \E back \in BOOLEAN :
         mempool' = Prune(chain', (IF back /\ Last(chain).ev.type \in {"harvest", "buffer"}
                                   THEN <<Last(chain).ev.tx>> ELSE <<>>) \o mempool)
    /\ left' = [left EXCEPT !.rollbacks = @ - 1]
    /\ UNCHANGED <<clock, bot, ver>>

\* A transaction outlives its time to live, and with it those spending it.
ExpireTx ==
    /\ left.drops > 0
    /\ \E i \in DOMAIN mempool : mempool' = SubSeq(mempool, 1, i - 1)
    /\ left' = [left EXCEPT !.drops = @ - 1]
    /\ UNCHANGED <<chain, clock, bot, ver>>

-----------------------------------------------------------------------------
(***************************************************************************)
(* Following the chain: the next event of a view, and the view after it.   *)
(***************************************************************************)
Pull(view) ==
    IF IsPrefix(view, chain) THEN [dir |-> "forward", blk |-> chain[Len(view) + 1]]
    ELSE [dir |-> "backward", blk |-> Last(view)]

After(view, mail) ==
    IF mail = <<>> THEN view
    ELSE IF mail[1].dir = "forward" THEN Append(view, mail[1].blk) ELSE Front(view)

IndexEvents(x, e) ==
    IF e.dir = "forward" THEN IndexForward(x, e.blk) ELSE IndexBackward(x, e.blk)

\* One turn of event_pipeline for either process: the index is updated, then
\* the event is handed to the engine; a failed assertion ends the process.
Indexed(p) ==
    LET e == Pull(p.view)
        x == IndexEvents(p.idx, e)
    IN  IF x.ok THEN [p EXCEPT !.idx = x, !.mail = <<e>>]
        ELSE [p EXCEPT !.idx = x, !.up = FALSE]

CanIndex(p) == p.up /\ p.mail = <<>> /\ p.view # chain

-----------------------------------------------------------------------------
(***************************************************************************)
(* The bot: its event pipeline and the engine's two event sources.         *)
(***************************************************************************)
IdsOf(t) == IF t.kind = "harvest" THEN PaidBy(t) ELSE {GaugeTask}

\* The tracker hears of the confirmation before the index does.
BotIndex ==
    /\ CanIndex(bot)
    /\ bot' = [Indexed(bot) EXCEPT !.tracked =
                IF Pull(bot.view).dir = "forward"
                THEN {t \in @ : Pull(bot.view).blk.ev # TxEvent(t)} ELSE @]
    /\ UNCHANGED <<chain, mempool, clock, left, ver>>

\* The commands of process_events.
QueueForward(q, blk) ==
    LET ev == blk.ev
        r == CASE ev.type = "order"  -> Schedule(q, ev.order)
               [] ev.type = "refund" -> Cancel(q, ev.order)
               [] ev.type = "charge" -> Schedule(q, GaugeTask)
               [] ev.type \in {"harvest", "buffer"} ->
                    Settle(DoneAll(q, IdsOf(ev.tx), ev.tx.id), ev.tx.id, blk.slot)
               [] OTHER -> q
    IN  AdvanceClocks(r, blk.slot)

QueueBackward(q, blk) ==
    LET ev == blk.ev
        r == CASE ev.type = "order"  -> Cancel(q, ev.order)
               [] ev.type = "refund" -> Schedule(q, ev.order)
               [] ev.type = "charge" -> Cancel(q, GaugeTask)
               [] ev.type \in {"harvest", "buffer"} -> ScheduleAll(q, IdsOf(ev.tx))
               [] OTHER -> q
    IN  DowngradeClocks(r, blk.slot)

Executed(q, e) == IF e.dir = "forward" THEN QueueForward(q, e.blk) ELSE QueueBackward(q, e.blk)

\* The engine takes the event: the task in flight is dropped where it stands,
\* the queue is updated and the block is committed as processed.
BotEvents ==
    /\ bot.up /\ bot.mail # <<>>
    /\ LET e == bot.mail[1]
           view == After(bot.view, bot.mail)
       IN  bot' = [bot EXCEPT
             !.q = Executed(@, e),
             !.view = view,
             !.mail = <<>>,
             !.task = Idle,
             !.synced = @ \/ view = chain]
    /\ UNCHANGED <<chain, mempool, clock, left, ver>>

\* A dropped transaction is reported while the commands are executed: its
\* future takes the place of process_events, whose handle goes without a
\* commit, and the flow of blocks panics on that.  The commands run on a
\* thread of their own, to the end or not.
BotEventsCut ==
    /\ bot.up /\ bot.mail # <<>> /\ bot.dropped # <<>>
    /\ \E done \in BOOLEAN :
         bot' = [bot EXCEPT !.q = IF done THEN Executed(@, bot.mail[1]) ELSE @,
                            !.up = FALSE, !.task = Idle]
    /\ UNCHANGED <<chain, mempool, clock, left, ver>>

\* The tracker gives a transaction up once it can no longer be confirmed: the
\* engine is told, then the index is undone.
TxDropped(t) ==
    /\ bot.up /\ t \in bot.tracked
    /\ t \notin Range(mempool) /\ t \notin TxsOn(chain)
    /\ LET x == UndoDroppedTx(bot.idx, t)
       IN  bot' = [bot EXCEPT !.tracked = @ \ {t}, !.dropped = Append(@, t.id),
                              !.idx = x, !.up = x.ok]
    /\ UNCHANGED <<chain, mempool, clock, left, ver>>

\* Block events come first; the task in flight is dropped here too.
BotReschedule ==
    /\ bot.up /\ bot.mail = <<>> /\ bot.dropped # <<>>
    /\ LET t == Head(bot.dropped)
       IN  bot' = IF ReadTasksPanics(bot.q, t) THEN [bot EXCEPT !.up = FALSE]
                  ELSE [bot EXCEPT !.q = RescheduleDropped(@, t, {GaugeTask}),
                                   !.dropped = Tail(@), !.task = Idle]
    /\ UNCHANGED <<chain, mempool, clock, left, ver>>
-----------------------------------------------------------------------------
(***************************************************************************)
(* process_tasks: feed the ready tasks, build, cosign, submit, record.     *)
(***************************************************************************)
\* The LP indexer's answer: what a user earned from an epoch on, and the last
\* epoch counted.
QueryAccountReward(start) ==
    LET current == EpochOf(clock)
    IN  [amt |-> IF current > start THEN current - start ELSE 0,
         end |-> IF current > start THEN current - 1 ELSE 0]

\* Mutant: the last epoch harvested is paid again.
SpendOfOverlapping(x, u) ==
    LET start == IF x.ends[u] = <<>> THEN 0 ELSE LastEpochHarvested(x, u)
    IN  [user |-> u, amt |-> QueryAccountReward(start).amt,
         start |-> start, end |-> QueryAccountReward(start).end]

SpendOf(x, u) ==
    LET start == LastEpochHarvested(x, u) + 1
    IN  [user |-> u, amt |-> QueryAccountReward(start).amt,
         start |-> start, end |-> QueryAccountReward(start).end]

NoBatch == [wallet |-> <<>>, tree |-> <<>>]

Empty == [flow |-> "none", batch |-> NoBatch, pays |-> <<>>, total |-> 0, drops |-> {}, stop |-> FALSE]

\* read_designated_harvest_order answers a confirmed and unspent order.
CanHarvest(x, o) ==
    /\ Stored(x, o)
    /\ Designated(x, Owner[o], x.ord[o].epoch) # {}
    /\ x.ord[o].mod = Confirmed /\ x.ord[o].st = "unspent"

\* The batch starts from the latest wallet, predicted or confirmed.
OpenBatch(x, b) ==
    LET w == Read(x.proj, Wallet)
    IN  IF b # NoBatch THEN b
        ELSE [wallet |-> <<w>>, tree |-> IF w.predicted # {} THEN CHOOSE t \in w.predicted : TRUE ELSE LastConfirmedMerkleTree(x)]

HarvestFeed(x, acc, o) ==
    LET open  == [acc EXCEPT !.batch = OpenBatch(x, @)]
        spend == SpendOf(x, Owner[o])
    IN  IF ~CanHarvest(x, o) THEN [acc EXCEPT !.drops = @ \cup {o}]
        ELSE IF EpochOf(clock) > x.ord[o].epoch THEN [open EXCEPT !.drops = @ \cup {o}]
        ELSE IF acc.total + spend.amt > open.batch.wallet[1].bal THEN [open EXCEPT !.stop = TRUE]
        ELSE [open EXCEPT !.pays = Append(@, [order |-> o, leaf |-> spend, epoch |-> x.ord[o].epoch]), !.total = @ + spend.amt]

\* The first task chooses the flow; tasks of the other kind wait.
FeedTask(x, acc, id) ==
    LET kind == IF id = GaugeTask THEN "buffer" ELSE "harvest"
        a == IF acc.flow = "none" THEN [acc EXCEPT !.flow = kind] ELSE acc
    IN  IF acc.stop \/ a.flow # kind THEN a
        ELSE IF kind = "harvest" THEN HarvestFeed(x, a, id)
        ELSE [a EXCEPT !.batch = OpenBatch(x, @)]

\* Keys come in the order of strike times, then of ids.
RankOf(id) == IF id = GaugeTask /\ ~left.gaugeFirst THEN 99 ELSE id

ReadySeq(q) == SetToSortSeq(Ready(q), LAMBDA j, k : j[1] < k[1] \/ (j[1] = k[1] /\ RankOf(j[2]) < RankOf(k[2])))

Fed(x, q) == FoldLeft(LAMBDA acc, k : FeedTask(x, acc, k[2]), Empty, ReadySeq(q))

NextId == <<1 + left.txs>>

\* Spends go into the Merkle tree in the order of the orders' references.
SortedPays(f) == SortSeq(f.pays, LAMBDA a, b : a.order < b.order)

\* The root in the wallet output: the batch's tree with the new leaves.
NewRoot(f) == LET pays == SortedPays(f) IN f.batch.tree \o [i \in DOMAIN pays |-> pays[i].leaf]

\* from is the root in the datum of the wallet spent, as the bot knows it.
HarvestTx(f) ==
    LET w == f.batch.wallet[1]
    IN  [kind |-> "harvest", id |-> NextId, wallet |-> w.ver, pays |-> SortedPays(f),
         root |-> NewRoot(f), from |-> w.root, bal |-> w.bal - f.total, epoch |-> EpochOf(clock)]

\* The wallet output of gauge buffering: the datum of the input as the bot
\* knows it, and the tokens of the gauge on top.
Buffered(w, g) == [root |-> w.root, bal |-> w.bal + g.bal]

\* The change is a new funding box.
FundingChanges(box) == [conf |-> box.conf, pred |-> box.pred, made |-> {NextId}]

BufferTx(f, x, box) ==
    LET w == f.batch.wallet[1]
        g == Read(x.proj, Gauge)
    IN  [kind |-> "buffer", id |-> NextId, wallet |-> w.ver, pays |-> <<>>, gauge |-> g.ver,
         root |-> Buffered(w, g).root, from |-> w.root, bal |-> Buffered(w, g).bal,
         epoch |-> EpochOf(clock), fund |-> FundingChanges(box)]

\* The panic of execute: no batch, or a tree that is not the wallet's.
HarvestPanics(f) ==
    f.flow = "harvest" /\ \/ f.batch = NoBatch
                          \/ f.pays # <<>> /\ f.batch.tree # f.batch.wallet[1].root

\* The same order twice: the transaction is refused by the verifier or by the
\* node, whichever meets it first.
Repeats(f) == \E i, j \in DOMAIN f.pays : i # j /\ f.pays[i].order = f.pays[j].order

BotReadsTasks ==
    bot.up /\ bot.synced /\ bot.mail = <<>> /\ bot.dropped = <<>> /\ bot.task = Idle

\* collect() offers confirmed boxes before predicted ones.
FundingFor(x) == {b \in Selections(x.fund) : x.fund.ca # {} => b.pred = {}}

Swept == [bot EXCEPT !.q = Sweep(@)]

FeedPanics(f) == HarvestPanics(f) \/ (f.flow = "buffer" /\ FundingFor(bot.idx) = {})

\* pending_stream and feed come to nothing: no task is ready, every order was
\* dropped or the wallet is short of funds; the tasks stay as they are.
FeedNothing ==
    /\ BotReadsTasks
    /\ LET f == Fed(bot.idx, bot.q) IN f.flow = "none" \/ (f.flow = "harvest" /\ ~HarvestPanics(f) /\ f.pays = <<>>)
    /\ bot' = Swept
    /\ UNCHANGED <<chain, mempool, clock, left, ver>>

FeedFails ==
    /\ BotReadsTasks
    /\ LET f == Fed(bot.idx, bot.q)
       IN  \/ FeedPanics(f) /\ bot' = [Swept EXCEPT !.up = FALSE]
           \/ /\ ~FeedPanics(f) /\ Repeats(f)
              /\ \E up \in BOOLEAN : bot' = [Swept EXCEPT !.up = up]
    /\ UNCHANGED <<chain, mempool, clock, left, ver>>

\* The flow's execute builds and signs a transaction for the tasks fed.
Build ==
    /\ BotReadsTasks /\ left.txs < MaxTxs
    /\ LET f == Fed(bot.idx, bot.q)
       IN  /\ ~FeedPanics(f) /\ ~Repeats(f)
           /\ \/ f.flow = "harvest" /\ f.pays # <<>>
                 /\ bot' = [Swept EXCEPT !.task = [pc |-> "built", tx |-> HarvestTx(f), drops |-> f.drops]]
              \/ f.flow = "buffer"
                 /\ \E b \in FundingFor(bot.idx) :
                      bot' = [Swept EXCEPT !.task = [pc |-> "built", tx |-> BufferTx(f, bot.idx, b), drops |-> {}]]
    /\ left' = [left EXCEPT !.txs = @ + 1]
    /\ UNCHANGED <<chain, mempool, clock, ver>>

-----------------------------------------------------------------------------
(***************************************************************************)
(* The verifier.                                                           *)
(***************************************************************************)
UsersPaid(t) == {Owner[o] : o \in PaidBy(t)}

VerifiedLeaf(o) == SpendOf(ver.idx, Owner[o])

\* try_approve of a harvest: orders of the current epoch, rewards equal to the
\* LP indexer's, Merkle roots before and after, then the graph.  The epoch of
\* an order is resolved by the bot, which attaches it to the input.
ApprovesHarvest(t) ==
    LET leaves == [i \in DOMAIN t.pays |-> VerifiedLeaf(t.pays[i].order)]
        tree   == LastConfirmedMerkleTree(ver.idx)
    IN  /\ \A i \in DOMAIN t.pays :
             /\ t.pays[i].epoch = EpochOf(Last(ver.slots))
             /\ leaves[i].amt = t.pays[i].leaf.amt
        /\ t.from = tree
        /\ t.root = tree \o leaves
        /\ CanAdd(ver.graph, t.wallet, UsersPaid(t))

Approves(t) ==
    /\ ver.up /\ ver.slots # <<>>
    /\ t.kind = "harvest" => ApprovesHarvest(t)

\* Ledger events come before cosign requests.
Cosign ==
    /\ bot.up /\ bot.task.pc = "built" /\ (ver.up => ver.mail = <<>>)
    /\ LET t == bot.task.tx
       IN  \/ /\ Approves(t)
              /\ bot' = [bot EXCEPT !.task.pc = "signed"]
              /\ ver' = IF t.kind = "buffer" THEN ver
                        ELSE [ver EXCEPT !.graph = TryAddTx(@, t.wallet, t.id, UsersPaid(t))]
           \/ /\ ~Approves(t)
              /\ bot' = [bot EXCEPT !.up = FALSE]
              /\ ver' = ver
    /\ UNCHANGED <<chain, mempool, clock, left>>

VerifierIndex ==
    /\ CanIndex(ver)
    /\ ver' = Indexed(ver)
    /\ UNCHANGED <<chain, mempool, clock, left, bot>>

\* confirm_block_slot.
ConfirmBlockSlot(v, slot) ==
    [v EXCEPT !.slots = Append(@, slot),
              !.graph = IF v.slots # <<>> /\ EpochOf(slot) > EpochOf(Last(v.slots))
                        THEN NotifyEndOfEpoch(@) ELSE @]

VerifierForward(v, blk) ==
    LET w == ConfirmBlockSlot(v, blk.slot)
        ev == blk.ev
    IN  CASE ev.type = "harvest" ->
               IF ConfirmAsserts(w.graph, ev.tx.id, UsersPaid(ev.tx))
               THEN [w EXCEPT !.graph = ConfirmTx(@, ev.tx.id, UsersPaid(ev.tx))]
               ELSE [w EXCEPT !.up = FALSE]
          [] ev.type = "buffer" ->
               IF Tracked(w.graph, ev.tx.id) = {}
               THEN [w EXCEPT !.graph = ConfirmTx(@, ev.tx.id, {})] ELSE [w EXCEPT !.up = FALSE]
          [] OTHER -> w

VerifierBackward(v, blk) ==
    LET ev == blk.ev
        w == [v EXCEPT !.slots = Front(@)]
    IN  IF v.slots = <<>> \/ Last(v.slots) # blk.slot THEN [v EXCEPT !.up = FALSE]
        ELSE IF ev.type = "buffer" THEN [w EXCEPT !.graph = Rollback(@, {}, ev.tx.id)]
        ELSE IF ev.type # "harvest" THEN w
        ELSE IF RollbackAsserts(w.graph, UsersPaid(ev.tx))
        THEN [w EXCEPT !.graph = Rollback(@, UsersPaid(ev.tx), ev.tx.id)]
        ELSE [w EXCEPT !.up = FALSE]

\* process_ledger_event, then the block is committed as processed.
VerifierEvents ==
    /\ ver.up /\ ver.mail # <<>>
    /\ LET e == ver.mail[1]
           v == IF e.dir = "forward" THEN VerifierForward(ver, e.blk) ELSE VerifierBackward(ver, e.blk)
       IN  ver' = IF v.up THEN [v EXCEPT !.view = After(@, ver.mail), !.mail = <<>>] ELSE v
    /\ UNCHANGED <<chain, mempool, clock, left, bot>>
-----------------------------------------------------------------------------
(***************************************************************************)
(* Submission and what follows it; each await is a step of its own, after  *)
(* which the task may be dropped.                                          *)
(***************************************************************************)
SubmitAccepted ==
    /\ bot.up /\ bot.task.pc = "signed" /\ bot.task.tx.epoch = EpochOf(clock)
    /\ Applicable(Ahead(chain, mempool), bot.task.tx)
    /\ mempool' = Append(mempool, bot.task.tx)
    /\ bot' = [bot EXCEPT !.task.pc = "submitted", !.tracked = @ \cup {bot.task.tx}]
    /\ UNCHANGED <<chain, clock, left, ver>>

\* Spent inputs: the tasks whose own input is gone are put off.
SubmitRejected ==
    /\ bot.up /\ bot.task.pc = "signed"
    /\ LET t == bot.task.tx
           c == Ahead(chain, mempool)
           failed == IF t.kind = "harvest" THEN PaidBy(t) \ Unspent(c)
                     ELSE IF t.gauge # GaugeTip(c) THEN {GaugeTask} ELSE {}
       IN  /\ t.epoch # EpochOf(clock) \/ ~Applicable(c, t)
           /\ bot' = [bot EXCEPT !.task = Idle,
                        !.q = IF t.epoch # EpochOf(clock) THEN @
                              ELSE CancelAll(RescheduleAll(@, failed, RetryDelay), bot.task.drops)]
    /\ UNCHANGED <<chain, mempool, clock, left, ver>>

IndexPredicted ==
    /\ bot.up /\ bot.task.pc = "submitted"
    /\ LET x == IndexPredictedEntities(bot.idx, bot.task.tx)
       IN  bot' = [bot EXCEPT !.idx = x, !.up = x.ok, !.task.pc = "indexed"]
    /\ UNCHANGED <<chain, mempool, clock, left, ver>>

RecordDone ==
    /\ bot.up /\ bot.task.pc = "indexed"
    /\ bot' = [bot EXCEPT !.task = Idle,
                 !.q = CancelAll(DoneAll(@, IdsOf(bot.task.tx), bot.task.tx.id), bot.task.drops)]
    /\ UNCHANGED <<chain, mempool, clock, left, ver>>

-----------------------------------------------------------------------------
(***************************************************************************)
(* Crashes and restarts.  torn (history only) says that an event had been  *)
(* indexed but not committed when the process died.                        *)
(***************************************************************************)
KillBot ==
    /\ bot.up /\ left.kills > 0
    /\ bot' = [bot EXCEPT !.up = FALSE]
    /\ left' = [left EXCEPT !.kills = @ - 1]
    /\ UNCHANGED <<chain, mempool, clock, ver>>

KillVerifier ==
    /\ ver.up /\ left.kills > 0
    /\ ver' = [ver EXCEPT !.up = FALSE]
    /\ left' = [left EXCEPT !.kills = @ - 1]
    /\ UNCHANGED <<chain, mempool, clock, bot>>

Revived(p) ==
    [p EXCEPT !.up = TRUE, !.idx.ok = TRUE, !.mail = <<>>, !.torn = @ \/ p.mail # <<>>]

RestartBot ==
    /\ ~bot.up
    /\ bot' = [Revived(bot) EXCEPT !.task = Idle, !.tracked = {}, !.dropped = <<>>,
                                   !.synced = bot.view = chain]
    /\ UNCHANGED <<chain, mempool, clock, left, ver>>

RestartVerifier ==
    /\ ~ver.up
    /\ ver' = [Revived(ver) EXCEPT !.graph = NewGraph, !.slots = <<>>]
    /\ UNCHANGED <<chain, mempool, clock, left, bot>>

-----------------------------------------------------------------------------
\* A deployment whose wallet was last created by a transaction the verifier
\* has seen confirmed, at the start of an epoch.
Init ==
    /\ left \in Scenarios
    /\ chain = <<>> /\ mempool = <<>> /\ clock = FirstSlot
    /\ bot = [up |-> TRUE, view |-> <<>>, mail |-> <<>>, torn |-> FALSE,
              idx |-> NewIndex(Users, left.bal, {FundingBox}), q |-> NewQueue(FirstSlot),
              task |-> Idle, tracked |-> {}, dropped |-> <<>>, synced |-> TRUE]
    /\ ver = [up |-> TRUE, view |-> <<>>, mail |-> <<>>, torn |-> FALSE,
              idx |-> NewIndex(Users, left.bal, {FundingBox}), slots |-> <<FirstSlot>>,
              graph |-> [NewGraph EXCEPT !.last = <<0>>]]

Ledger ==
    \/ EmptyBlock \/ ChargeGauge \/ ConfirmInBlock \/ ChainRollback \/ ExpireTx
    \/ \E o \in Orders : PlaceOrder(o) \/ RefundOrder(o)

Bot ==
    \/ BotIndex \/ BotEvents \/ BotEventsCut \/ BotReschedule \/ FeedNothing \/ FeedFails \/ Build
    \/ SubmitAccepted \/ SubmitRejected \/ IndexPredicted \/ RecordDone
    \/ \E t \in bot.tracked : TxDropped(t)

Next ==
    \/ Ledger \/ Bot \/ Cosign \/ VerifierIndex \/ VerifierEvents
    \/ KillBot \/ KillVerifier \/ RestartBot \/ RestartVerifier

Spec == Init /\ [][Next]_vars
-----------------------------------------------------------------------------
(***************************************************************************)
(* Properties.                                                             *)
(***************************************************************************)
\* The spends of a user in the order the chain has them.
LeavesOf(c, u) ==
    LET all == FlattenSeq([i \in DOMAIN c |->
                   IF c[i].ev.type # "harvest" THEN <<>>
                   ELSE [j \in DOMAIN c[i].ev.tx.pays |-> c[i].ev.tx.pays[j].leaf]])
    IN  SelectSeq(all, LAMBDA l : l.user = u)

\* Whatever is rolled back, dropped, cosigned late or restarted, the harvests
\* on the chain pay a user for each epoch exactly once and skip none: the
\* first spend starts at epoch 0, each later one where the last one ended,
\* and each pays what the LP indexer owes for its epochs.
PaidExactlyOnce ==
    \A u \in Users :
        LET l == LeavesOf(chain, u)
        IN  \A i \in DOMAIN l :
                /\ l[i].start = (IF i = 1 THEN 0 ELSE l[i - 1].end + 1)
                /\ l[i].start <= l[i].end
                /\ l[i].amt = l[i].end - l[i].start + 1

\* The part of an index that is meant to be a function of the chain.
Content(x) ==
    [ord |-> x.ord, desig |-> x.desig, ends |-> x.ends, trees |-> x.trees,
     wallet |-> Read(x.proj, Wallet), gauge |-> Read(x.proj, Gauge)]

Replay(c) == FoldLeft(LAMBDA x, b : IndexForward(x, b), NewIndex(Users, left.bal, {FundingBox}), c)

\* index_events undoes on a rollback what it did: after any sequence of blocks
\* and rollbacks the verifier's index is the one a verifier that had only ever
\* seen the current chain would have (unless a crash fell between the index
\* and the commit of an event).  The bot's record of who was paid up to which
\* epoch, and its Merkle trees, are those of the chain it has seen, whatever it
\* predicted meanwhile.
IndexesFollowChain ==
    /\ ver.up /\ ~ver.torn => Content(ver.idx) = Content(Replay(After(ver.view, ver.mail)))
    /\ ~bot.torn =>
          LET x == Replay(After(bot.view, bot.mail))
          IN  bot.idx.ends = x.ends /\ bot.idx.trees = x.trees

\* No chain of cosigned transactions pays a user twice.
CosignedChainsPayOnce == ChainPaysOnce(ver.graph)

\* Nothing is under way, no block is to be processed, and the engine finds
\* nothing to do in its queue.
AtRest ==
    /\ bot.up /\ ver.up /\ bot.view = chain /\ ver.view = chain
    /\ bot.mail = <<>> /\ ver.mail = <<>> /\ mempool = <<>> /\ bot.task = Idle /\ bot.dropped = <<>>
    /\ LET f == Fed(bot.idx, bot.q) IN ~FeedPanics(f) /\ f.flow # "buffer" /\ f.pays = <<>>

\* With no refunds, rollbacks, drops or kills the distributor never comes to
\* rest with the designated order of a user unpaid in its epoch while the
\* wallet can pay it: confirmations that overtake Done, cancelled tasks,
\* refused cosignatures (which end the bot) and restarts lose no task.
NothingForgotten ==
    left.calm /\ AtRest =>
        \A d \in bot.idx.desig :
            d.epoch = EpochOf(clock) /\ d.order \in Unspent(chain)
                => Read(bot.idx.proj, Wallet).bal < SpendOf(bot.idx, d.user).amt
=============================================================================
