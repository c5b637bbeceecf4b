------------------------------ MODULE LpIndexer ------------------------------
(***************************************************************************)
(* The LP indexer (splash-lp-indexer) against a node: the acknowledged     *)
(* flow of blocks (cardano-chain-sync, atomic_flow.rs), the pipeline that  *)
(* logs their events, and the task that turns mature events into           *)
(* positions.                                                              *)
(*                                                                         *)
(* node is the chain, a sequence of blocks [id, slot, txs], the number of  *)
(* blocks made so far and the highest slot.  flow is the driver of the     *)
(* flow with the pipeline it waits for: at is the step it is at, read the  *)
(* blocks the node has served, work what is in work and target the point   *)
(* of a rollback.  cache is the block cache on disk: the tip and, by id,   *)
(* [block, prev].  matured are the slots whose events were processed, kept *)
(* for the properties.                                                     *)
(***************************************************************************)
EXTENDS PositionDbOps

CONSTANTS
    Account, Farm,
    PoolOfFarm,         \* the pool of each farm
    InitialLp,          \* LP supply of a new pool
    DepositLp,          \* LP tokens a deposit mints
    RedeemLp,           \* LP tokens a redemption burns
    MaxSlot,            \* bound on slots
    Lag,                \* bound on the blocks made before they are read
    Scenarios           \* see LpInit

Pool == {PoolOfFarm[f] : f \in Farm}

(* Slots are far beyond the length of an epoch. *)
ASSUME LpAssumption == Delay \in Nat /\ EpochLen <= EpochStart

-----------------------------------------------------------------------------
(* From a transaction to the events to log (onchain/event.rs and the       *)
(* pipeline).  A transaction is a record                                   *)
(*   ref    : its identity;                                                *)
(*   pool   : the pool it acts on, if any;                                 *)
(*   spends : {} or the transaction that made the pool output it spends;   *)
(*   lp     : {} or the LP supply of the pool output it makes;             *)
(*   recv   : {} or the account of the first other output with LP tokens;  *)
(*   farm   : {} or the pair of the smart farm it puts out and its pool;   *)
(*   poll   : {} or a weighting poll [epoch, total, dist] with the votes   *)
(*            [farm, weight] cast so far (total is {} before the first);   *)
(*   perm   : {} or the set of farms the permission manager suspends.      *)
(* The pool outputs indexed so far are keyed by transaction; an input of   *)
(* another kind is never indexed (the filter of main has the pools only)   *)
(* and so never resolved.                                                  *)

IndexUtxos(utxos, tx) ==
    IF tx.lp = {} THEN utxos
    ELSE (tx.ref :> [pool |-> tx.pool, lp |-> CHOOSE n \in tx.lp : TRUE]) @@ utxos

PoolIn(tx, utxos) == {utxos[r] : r \in tx.spends \cap DOMAIN utxos}

(* PoolDiff and PositionEvent: a change of the supply with an account that *)
(* holds LP tokens after the transaction.                                  *)
PositionEvent(tx, utxos) ==
    {[kind |-> IF n >= p.lp THEN "deposit" ELSE "redeem", pool |-> p.pool, acc |-> a,
      amount |-> IF n >= p.lp THEN n - p.lp ELSE p.lp - n, supply |-> n] :
        <<p, n, a>> \in {q \in PoolIn(tx, utxos) \X tx.lp \X tx.recv : q[1].lp # q[2]}}

(* Farms in the inputs are not resolved, so every farm put out is new. *)
GaugeCreated(tx) == {[kind |-> "gauge", farm |-> f[1], pool |-> f[2]] : f \in tx.farm}

PoolCreated(tx, utxos) ==
    {[kind |-> "pool", pool |-> tx.pool, supply |-> n] :
        n \in {m \in tx.lp : PoolIn(tx, utxos) = {}}}

WeightingPollOutput(tx) ==
    {[kind |-> "poll", epoch |-> p.epoch, total |-> p.total, dist |-> p.dist] : p \in tx.poll}

PermManagerUpdate(tx) == {[kind |-> "perm", farms |-> s] : s \in tx.perm}

(* try_from_ledger of StatelessOnChainEvent: at most one event, the first  *)
(* of these that is there.                                                 *)
EventOf(tx, utxos) ==
    LET found == <<PositionEvent(tx, utxos), GaugeCreated(tx), PoolCreated(tx, utxos),
                   WeightingPollOutput(tx), PermManagerUpdate(tx)>>
        i == SelectInSeq(found, LAMBDA s : s # {})
    IN  IF i = 0 THEN <<>> ELSE <<CHOOSE e \in found[i] : TRUE>>

(* read_events: the outputs of each transaction are indexed before its     *)
(* inputs are resolved, one transaction after the other.                   *)
ReadEvents(txs, utxos) ==
    FoldLeft(LAMBDA r, tx : LET u == IndexUtxos(r.utxos, tx)
                            IN  [utxos |-> u, events |-> r.events \o EventOf(tx, u)],
             [utxos |-> utxos, events |-> <<>>], txs)

BoundPools(farms, bind) == {bind[f] : f \in farms \cap DOMAIN bind}

(* One turn of the loop of resolve_gauges. *)
Translated(ev, bind) ==
    IF ev.kind = "gauge" THEN <<>>
    ELSE IF ev.kind = "perm" THEN <<[kind |-> "suspended", pools |-> BoundPools(ev.farms, bind)]>>
    ELSE IF ev.kind # "poll" THEN <<ev>>
    ELSE IF ev.total = {}
    THEN <<[kind |-> "active", epoch |-> ev.epoch,
            pools |-> BoundPools({d[1] : d \in Range(ev.dist)}, bind)]>>
    ELSE LET votes == SelectSeq(ev.dist, LAMBDA d : d[1] \in DOMAIN bind)
         IN  [i \in DOMAIN votes |->
                [kind |-> "weight", pool |-> bind[votes[i][1]], epoch |-> ev.epoch,
                 weight |-> votes[i][2], total |-> CHOOSE n \in ev.total : TRUE]]

(* resolve_gauges: a gauge is bound and leaves no event; the events after  *)
(* it see the binding.                                                     *)
ResolveGauges(events, bind) ==
    FoldLeft(LAMBDA r, ev :
                [bind |-> IF ev.kind = "gauge" THEN (ev.farm :> ev.pool) @@ r.bind ELSE r.bind,
                 events |-> r.events \o Translated(ev, r.bind)],
             [bind |-> bind, events |-> <<>>], events)

(* The pipeline from a block's transactions to the events to log. *)
Pipeline(txs, utxos, bind) ==
    LET read == ReadEvents(txs, utxos)
        done == ResolveGauges(read.events, bind)
    IN  [utxos |-> read.utxos, bind |-> done.bind, events |-> done.events]

-----------------------------------------------------------------------------
VARIABLES scn, node, flow, cache, utxos, bind, db, matured, dead, faults

lpVars == <<scn, node, flow, cache, utxos, bind, db, matured, dead, faults>>

Down == [at |-> "down", read |-> <<>>, work |-> <<>>, target |-> 0]

-----------------------------------------------------------------------------
(* The node and the transactions on its chain.  moves are the pairs of an  *)
(* account and the change of its LP tokens; the indexer does not see them. *)

TxsOf(blocks) == FlattenSeq([i \in DOMAIN blocks |-> blocks[i].txs])

PoolOutput(txs, p) ==
    LET own == SelectSeq(txs, LAMBDA t : t.lp # {} /\ t.pool = p)
    IN  IF own = <<>> THEN {} ELSE {Last(own)}

Change(t, a) == MapThenSumSet(LAMBDA m : m[2], {m \in t.moves : m[1] = a})

Holding(txs, p, a) ==
    FoldLeft(LAMBDA n, t : IF t.pool = p THEN n + Change(t, a) ELSE n, 0, txs)

Polls(txs, epoch) == {t \in Range(txs) : \E q \in t.poll : q.epoch = epoch}

NoTx(ref, p) == [ref |-> ref, pool |-> p, spends |-> {}, lp |-> {}, recv |-> {}, farm |-> {},
                 poll |-> {}, perm |-> {}, moves |-> {}]

(* An account with at least min LP tokens mints or burns d of them, and    *)
(* the others go back to it.                                               *)
Move(txs, ref, d, min) ==
    UNION {{[NoTx(ref, p) EXCEPT !.spends = {o.ref}, !.lp = {The(o.lp) + d},
                !.recv = {a}, !.moves = {<<a, d>>}] : o \in PoolOutput(txs, p)} :
            <<p, a>> \in {x \in Pool \X Account : Holding(txs, x[1], x[2]) >= min}}

Holders(txs) == {x \in Pool \X Account : Holding(txs, x[1], x[2]) > 0}

(* An account redeems all it has, so that no output has LP tokens. *)
Exit(txs, ref) ==
    UNION {{[NoTx(ref, x[1]) EXCEPT !.spends = {o.ref}, !.lp = {The(o.lp) - Holding(txs, x[1], x[2])},
                !.moves = {<<x[2], -Holding(txs, x[1], x[2])>>}] : o \in PoolOutput(txs, x[1])} :
            x \in Holders(txs)}

(* An account sends all it has to another one. *)
Transfer(txs, ref) ==
    {LET n == Holding(txs, x[1][1], x[1][2])
     IN  [NoTx(ref, x[1][1]) EXCEPT !.recv = {x[2]}, !.moves = {<<x[1][2], -n>>, <<x[2], n>>}] :
        x \in {y \in Holders(txs) \X Account : y[1][2] # y[2]}}

Poll(ref, epoch, total, weight) ==
    LET fs == SetToSeq(Farm)
    IN  [NoTx(ref, The(Pool)) EXCEPT !.poll = {[epoch |-> epoch, total |-> total,
                                                dist |-> [i \in DOMAIN fs |-> <<fs[i], weight>>]]}]

(* The transactions of a kind that can follow txs in a block at slot. *)
TxOf(kind, txs, ref, slot) ==
    CASE kind = "deposit" -> Move(txs, ref, DepositLp, 0)
      [] kind = "change" -> Move(txs, ref, -RedeemLp, RedeemLp + 1)
      [] kind = "exit" -> Exit(txs, ref)
      [] kind = "transfer" -> Transfer(txs, ref)
      [] kind = "open" -> IF Polls(txs, ToEpoch(slot)) = {} THEN {Poll(ref, ToEpoch(slot), {}, 0)} ELSE {}
      [] kind = "vote" -> IF Polls(txs, ToEpoch(slot)) # {}
                          THEN {Poll(ref, ToEpoch(slot), {2}, w) : w \in {0, 1}} ELSE {}
      [] kind = "suspend" -> {[NoTx(ref, The(Pool)) EXCEPT !.perm = {s}] : s \in SUBSET Farm}

(* The first block makes the pools and their farms. *)
Genesis ==
    LET ps == SetToSeq(Pool)
        fs == SetToSeq(Farm)
    IN  [i \in DOMAIN ps |-> [NoTx(<<1, i>>, ps[i]) EXCEPT !.lp = {InitialLp}]]
        \o [i \in DOMAIN fs |-> [NoTx(<<1, Len(ps) + i>>, PoolOfFarm[fs[i]]) EXCEPT !.farm = {<<fs[i], PoolOfFarm[fs[i]]>>}]]

-----------------------------------------------------------------------------
(* A scenario: the kinds of transactions, the pairs of kinds that can      *)
(* share a block, the length of the chain, the slots between blocks, the   *)
(* number of forks and of stops.                                           *)
LpInit ==
    /\ scn \in Scenarios
    /\ node = [chain |-> <<[id |-> 1, slot |-> EpochStart, txs |-> Genesis]>>, made |-> 1, top |-> EpochStart]
    /\ flow = Down
    /\ cache = [tip |-> 0, blocks |-> <<>>]
    /\ utxos = <<>> /\ bind = <<>> /\ db = EmptyDb
    /\ matured = {} /\ dead = FALSE
    /\ faults = [forks |-> 0, stops |-> 0, torn |-> {}, unvoted |-> {}, lifted |-> FALSE]

-----------------------------------------------------------------------------
(* Blocks.                                                                 *)

Bodies(txs, id, slot) ==
    {<<>>} \cup UNION {{<<t>> : t \in TxOf(k, txs, <<id, 1>>, slot)} : k \in scn.kinds}
    \cup UNION {UNION {{<<t, u>> : u \in TxOf(k[2], Append(txs, t), <<id, 2>>, slot)} :
                        t \in TxOf(k[1], txs, <<id, 1>>, slot)} : k \in scn.pairs}

LastSlotOf(blocks) == IF blocks = <<>> THEN EpochStart - 1 ELSE Last(blocks).slot

Produce ==
    /\ Len(node.chain) < scn.height
    /\ flow.at \in {"idle", "down"} /\ Len(node.chain) < Len(flow.read) + Lag
    /\ \E slot \in {s \in {LastSlotOf(node.chain) + g : g \in scn.gaps} : s <= MaxSlot} :
       \E body \in Bodies(TxsOf(node.chain), node.made + 1, slot) :
            node' = [chain |-> Append(node.chain, [id |-> node.made + 1, slot |-> slot, txs |-> body]),
                     made |-> node.made + 1,
                     top |-> IF slot > node.top THEN slot ELSE node.top]
    /\ UNCHANGED <<scn, flow, cache, utxos, bind, db, matured, dead, faults>>

(* A fork gives up blocks that are within the confirmation delay. *)
Fork ==
    /\ faults.forks < scn.forks
    /\ \E n \in 1..(Len(node.chain) - 1) :
        /\ node.chain[n + 1].slot >= node.top - Delay
        /\ node' = [node EXCEPT !.chain = SubSeq(@, 1, n)]
    /\ faults' = [faults EXCEPT !.forks = @ + 1]
    /\ UNCHANGED <<scn, flow, cache, utxos, bind, db, matured, dead>>

-----------------------------------------------------------------------------
(* The flow of blocks.                                                     *)

PointOf(blocks) == IF blocks = <<>> THEN 0 ELSE Last(blocks).id

(* ChainSyncClient::init: the node knows the tip of the cache, or there is *)
(* none and the flow starts where the configuration says.                  *)
Connect ==
    /\ flow.at = "down" /\ ~dead
    /\ \E n \in 0..Len(node.chain) :
        /\ PointOf(SubSeq(node.chain, 1, n)) = cache.tip
        /\ flow' = [Down EXCEPT !.at = "idle", !.read = SubSeq(node.chain, 1, n)]
    /\ UNCHANGED <<scn, node, cache, utxos, bind, db, matured, dead, faults>>

(* The next upgrade: a block, or a rollback to where the chains part. *)
RollForward ==
    /\ flow.at = "idle" /\ ~dead
    /\ IsStrictPrefix(flow.read, node.chain)
    /\ LET blk == node.chain[Len(flow.read) + 1]
       IN  flow' = [flow EXCEPT !.at = "read", !.read = Append(@, blk), !.work = <<blk>>]
    /\ UNCHANGED <<scn, node, cache, utxos, bind, db, matured, dead, faults>>

RollBackward ==
    /\ flow.at = "idle" /\ ~dead
    /\ ~IsPrefix(flow.read, node.chain)
    /\ LET n == Max({i \in 0..Len(flow.read) : IsPrefix(SubSeq(flow.read, 1, i), node.chain)})
       IN  flow' = [flow EXCEPT !.at = "unwind", !.read = SubSeq(@, 1, n),
                                !.target = PointOf(SubSeq(flow.read, 1, n))]
    /\ UNCHANGED <<scn, node, cache, utxos, bind, db, matured, dead, faults>>

(* One turn of the loop of a rollback: the block of the tip, if the tip is *)
(* not the target and its block is there.                                  *)
Unwind ==
    /\ flow.at = "unwind" /\ ~dead
    /\ flow' = IF cache.tip # flow.target /\ cache.tip \in DOMAIN cache.blocks
               THEN [flow EXCEPT !.at = "unread", !.work = <<cache.blocks[cache.tip].block>>]
               ELSE [flow EXCEPT !.at = "idle", !.target = 0]
    /\ UNCHANGED <<scn, node, cache, utxos, bind, db, matured, dead, faults>>

(* The pipeline reads the block and binds its gauges; on a rollback the    *)
(* transactions come in reverse order.                                     *)
ReadBlock ==
    /\ flow.at \in {"read", "unread"} /\ ~dead
    /\ LET txs == Head(flow.work).txs
           done == Pipeline(IF flow.at = "read" THEN txs ELSE Reverse(txs), utxos, bind)
       IN  /\ flow' = [flow EXCEPT !.at = IF flow.at = "read" THEN "log" ELSE "unlog",
                                   !.work = Append(@, done.events)]
           /\ utxos' = done.utxos /\ bind' = done.bind
    /\ UNCHANGED <<scn, node, cache, db, matured, dead, faults>>

(* log_event and the commit of the handle. *)
LogBlock ==
    /\ flow.at = "log" /\ ~dead
    /\ db' = BatchAppend(db, flow.work[1].slot, flow.work[2])
    /\ flow' = [flow EXCEPT !.at = "tip"]
    /\ UNCHANGED <<scn, node, cache, utxos, bind, matured, dead, faults>>

(* For the properties, what was given up with a block: events under keys   *)
(* and others in one block, votes, or a suspension.                        *)
GivenUp(slot, events) ==
    [faults EXCEPT
        !.torn = IF {Keyed(e) : e \in events} = BOOLEAN THEN @ \cup {slot} ELSE @,
        !.unvoted = @ \cup {<<e.pool, e.epoch>> : e \in {x \in events : x.kind = "weight"}},
        !.lifted = @ \/ \E e \in events : e.kind = "suspended"]

DiscardBlock ==
    /\ flow.at = "unlog" /\ ~dead
    /\ LET r == BatchDiscard(db, flow.work[1].slot, flow.work[2])
       IN  /\ dead' = ~r.ok
           /\ db' = IF r.ok THEN r.db ELSE db
    /\ flow' = [flow EXCEPT !.at = "delete"]
    /\ faults' = GivenUp(flow.work[1].slot, Range(flow.work[2]))
    /\ UNCHANGED <<scn, node, cache, utxos, bind, matured>>

(* cache_block: the tip, then the block, linked to the tip before. *)
SetTip ==
    /\ flow.at = "tip" /\ ~dead
    /\ cache' = [cache EXCEPT !.tip = flow.work[1].id]
    /\ flow' = [flow EXCEPT !.at = "put", !.target = cache.tip]
    /\ UNCHANGED <<scn, node, utxos, bind, db, matured, dead, faults>>

PutBlock ==
    /\ flow.at = "put" /\ ~dead
    /\ cache' = [cache EXCEPT !.blocks = (flow.work[1].id :> [block |-> flow.work[1], prev |-> flow.target]) @@ @]
    /\ flow' = [flow EXCEPT !.at = "idle", !.work = <<>>, !.target = 0]
    /\ UNCHANGED <<scn, node, utxos, bind, db, matured, dead, faults>>

(* delete, then set_tip to the block before. *)
DeleteBlock ==
    /\ flow.at = "delete" /\ ~dead
    /\ cache' = [cache EXCEPT !.blocks = Without(@, {cache.tip})]
    /\ flow' = [flow EXCEPT !.at = "back", !.work = <<cache.blocks[cache.tip].prev>>]
    /\ UNCHANGED <<scn, node, utxos, bind, db, matured, dead, faults>>

(* Mutant: the tip stays at the block that was deleted. *)
MoveTipBackForgotten ==
    /\ flow.at = "back" /\ ~dead
    /\ flow' = [flow EXCEPT !.at = "unwind", !.work = <<>>]
    /\ UNCHANGED <<scn, node, cache, utxos, bind, db, matured, dead, faults>>

MoveTipBack ==
    /\ flow.at = "back" /\ ~dead
    /\ cache' = [cache EXCEPT !.tip = flow.work[1]]
    /\ flow' = [flow EXCEPT !.at = "unwind", !.work = <<>>]
    /\ UNCHANGED <<scn, node, utxos, bind, db, matured, dead, faults>>

Voted(d, slot) ==
    {<<e.pool, e.epoch>> : e \in {x \in Range(EventsAt(d, slot)) : x.kind = "weight"}}

(* One successful turn of process_mature_events, or one that panics; in    *)
(* other turns it changes nothing.                                         *)
Mature ==
    /\ flow.at # "down" /\ ~dead
    /\ HasMature(db)
    /\ LET r == ProcessMature(db, HeadSlot(db))
       IN  /\ r.result # "wait"
           /\ dead' = (r.result = "panic")
           /\ db' = r.db
           /\ matured' = IF r.result = "done" THEN matured \cup {HeadSlot(db)} ELSE matured
           /\ faults' = [faults EXCEPT !.unvoted = @ \ Voted(db, HeadSlot(db))]
    /\ UNCHANGED <<scn, node, flow, cache, utxos, bind>>

(* The process stops anywhere; what is not on disk is lost. *)
Stop ==
    /\ faults.stops < scn.stops /\ flow.at # "down"
    /\ faults' = [faults EXCEPT !.stops = @ + 1]
    /\ flow' = Down
    /\ UNCHANGED <<scn, node, cache, utxos, bind, db, matured, dead>>

FlowStep ==
    \/ Connect \/ RollForward \/ RollBackward \/ Unwind \/ ReadBlock \/ LogBlock
    \/ DiscardBlock \/ SetTip \/ PutBlock \/ DeleteBlock \/ MoveTipBack

LpNext == Produce \/ Fork \/ FlowStep \/ Mature \/ Stop

(* The two tasks run while they have work, which is weak fairness with the *)
(* enabling conditions written out; nothing makes the chain grow, fork or  *)
(* the process stop.                                                       *)
FlowCanStep ==
    /\ ~dead
    /\ flow.at = "down" => \E n \in 0..Len(node.chain) : PointOf(SubSeq(node.chain, 1, n)) = cache.tip
    /\ flow.at = "idle" => flow.read # node.chain
MatureCanStep == flow.at # "down" /\ ~dead /\ HasMature(db)

LpSpec ==
    /\ LpInit /\ [][LpNext]_lpVars
    /\ []<>(~FlowCanStep) \/ []<><<TRUE>>_flow
    /\ []<>(~MatureCanStep) \/ []<><<TRUE>>_matured

-----------------------------------------------------------------------------
(* Properties.                                                             *)

(* The events of a chain read from its start. *)
EventsOfChain(blocks) ==
    LET r == FoldLeft(LAMBDA x, b :
                LET done == Pipeline(b.txs, x.utxos, x.bind)
                IN  [utxos |-> done.utxos, bind |-> done.bind,
                     log |-> x.log \cup {[slot |-> b.slot, n |-> n, ev |-> done.events[n]] : n \in DOMAIN done.events}],
             [utxos |-> <<>>, bind |-> <<>>, log |-> {}], blocks)
    IN  r.log

(* Between two blocks the log holds exactly the events of the chain read   *)
(* that are not mature yet, each once under its own key, and the active    *)
(* pools of an epoch are those of its poll on that chain: batch_append,    *)
(* batch_discard and the resumption after a stop neither lose an event nor *)
(* leave one of a block that was given up.  The exception are slots of     *)
(* such a block with both a poll or suspension and another event, where    *)
(* batch_discard numbers the reversed list and misses the key (`torn').    *)
LogExact ==
    flow.at = "idle" /\ (faults.stops = 0 \/ flow.read = node.chain) =>
        LET log == EventsOfChain(flow.read)
            left(rows) == {r \in rows : r.slot \notin faults.torn}
        IN  /\ left({[slot |-> k[1], n |-> k[2], ev |-> db.events[k]] : k \in DOMAIN db.events})
                = left({r \in log : Keyed(r.ev) /\ r.slot \notin matured})
            /\ {[epoch |-> e, pools |-> db.active[e]] : e \in DOMAIN db.active}
                = {[epoch |-> r.ev.epoch, pools |-> r.ev.pools] : r \in {x \in log : x.ev.kind = "active"}}

(* The blocks of the chain up to the last slot processed, and those of     *)
(* their transactions on pools that the indexer sees: not a redemption     *)
(* that leaves its account no LP tokens (find_lp_recv), not a transfer.    *)
MatureBlocks == SelectSeq(node.chain, LAMBDA b : \E s \in matured : b.slot <= s)
SeenTxs(blocks) == SelectSeq(TxsOf(blocks), LAMBDA t : t.lp # {} /\ (t.spends = {} \/ t.recv # {}))
Until(slot) == SeenTxs(SelectSeq(MatureBlocks, LAMBDA b : b.slot <= slot))
MoveSlots(p) ==
    {b.slot : b \in {x \in Range(MatureBlocks) : \E t \in Range(SeenTxs(<<x>>)) : t.pool = p /\ t.recv # {}}}

(* Every share on record is the ledger's, as far as the indexer sees it:   *)
(* at each slot of an interval the account held so many LP tokens of a     *)
(* pool with that supply.  And none is missing: from the first deposit of  *)
(* an account to the last mature event the intervals cover every slot but  *)
(* the last one of an epoch, over epochs without an event too              *)
(* (sync_account_positions).                                               *)
PositionsExact ==
    /\ \A k \in DOMAIN db.positions : \A i \in Range(db.positions[k]) : \A s \in i.start..(i.end - 1) :
        /\ ToEpoch(s) = k[3]
        /\ i.lq = Holding(Until(s), k[1], k[2])
        /\ {i.supply} = UNION {o.lp : o \in PoolOutput(Until(s), k[1])}
    /\ \A p \in Pool, a \in Account :
        \A s \in {x \in UNION {EpochStart..(m - 1) : m \in MoveSlots(p)} : Holding(Until(x), p, a) > 0} :
            \/ s = LastSlot(ToEpoch(s))
            \/ /\ <<p, a, ToEpoch(s)>> \in DOMAIN db.positions
               /\ \E i \in Range(db.positions[<<p, a, ToEpoch(s)>>]) : i.start <= s /\ s < i.end

(* The weight of a gauge in an epoch is that of the last mature vote, and  *)
(* there is none when a vote was given up since: batch_discard deletes the *)
(* weight of an earlier vote with it.                                      *)
WeightsExact ==
    LET votes == {r \in EventsOfChain(MatureBlocks) : r.ev.kind = "weight"}
        last(p, e) == {r \in votes : /\ <<p, e>> \notin faults.unvoted
                                     /\ r.ev.pool = p /\ r.ev.epoch = e
                                     /\ \A q \in votes : q.ev.pool = p /\ q.ev.epoch = e =>
                                            q.slot < r.slot \/ (q.slot = r.slot /\ q.n <= r.n)}
    IN  \A p \in Pool, e \in 0..ToEpoch(MaxSlot) :
            {r.ev.weight : r \in last(p, e)} = IF <<p, e>> \in DOMAIN db.weights THEN {db.weights[<<p, e>>].weight} ELSE {}


(* Some account redeemed as many LP tokens as the indexer knows it had, or *)
(* more, and kept others: it had been sent some.                           *)
Overdrawn ==
    LET txs == SeenTxs(node.chain)
    IN  \E i \in DOMAIN txs : \E a \in txs[i].recv :
            /\ Change(txs[i], a) < 0
            /\ Holding(SubSeq(txs, 1, i), txs[i].pool, a) <= 0


(* Once the chain is at rest every block of it is cached and every mature  *)
(* event processed, however the process was stopped in between, unless it  *)
(* came to a failed assertion (see NeverStuck).                            *)
CatchesUp ==
    <>[](\/ flow.at = "idle" /\ flow.read = node.chain /\ PointOf(node.chain) = cache.tip /\ ~HasMature(db)
         \/ dead)

(* All accounts together are owed no more than the gauges earned in the    *)
(* epochs so far: query_account pays by the "time-weighted average share   *)
(* of the liquidity pool in basis points over the entire epoch"            *)
(* (account.rs).                                                           *)
RewardsWithinGauge ==
    db.slot # {} =>
        MapThenSumSet(LAMBDA a : MapThenSumSet(LAMBDA r : r.amount, QueryAccount(db, a, 0)), Account)
            <= MapThenSumSet(LAMBDA k : (Emission * db.weights[k].weight) \div db.weights[k].total,
                             DOMAIN db.weights)
=============================================================================
