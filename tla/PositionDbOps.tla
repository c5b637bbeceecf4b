---------------------------- MODULE PositionDbOps ----------------------------
(***************************************************************************)
(* The database of the LP indexer (splash-lp-indexer, position_db).  Every *)
(* operation is one transaction of RocksDB.  The state is                  *)
(*   events    : unconfirmed events keyed by <<slot, index>>;              *)
(*   positions : positions keyed by <<pool, account, epoch>>;              *)
(*   weights   : [weight, total] keyed by <<pool, epoch>>;                 *)
(*   suspended : [cur, prev, at], the suspended pools by slot;             *)
(*   active    : active pools by epoch;                                    *)
(*   lq        : LP supply by pool;                                        *)
(*   slot      : {} or the slot of the last block appended;                *)
(*   back      : {} or the slot positions must be rolled back to;          *)
(*   exported  : slot of the last events exported, 0 before;               *)
(*   feed      : the events to export, in order.                           *)
(* The index from accounts to pools is the projection of positions.        *)
(***************************************************************************)
EXTENDS Integers, SequencesExt, FiniteSetsExt

CONSTANTS
    EpochLen,       \* slots in an epoch
    EpochStart,     \* first slot of epoch 0
    Delay,          \* confirmation_delay_slots
    Emission        \* emission of an epoch

ASSUME EpochAssumption == EpochLen \in Nat \ {0} /\ EpochStart \in Nat

-----------------------------------------------------------------------------
(* account.rs: the share of a pool that an account holds over one epoch, a *)
(* sequence of intervals [start, end, lq, supply] open on the right, and   *)
(* its synchronisation with the events of a slot.                          *)

Bps == 10000

ToEpoch(slot) == (slot - EpochStart) \div EpochLen
FirstSlot(e) == EpochStart + e * EpochLen
LastSlot(e) == FirstSlot(e) + EpochLen - 1

Interval(from, to, lq, supply) == [start |-> from, end |-> to, lq |-> lq, supply |-> supply]
NewPosition(slot, lq, supply) == <<Interval(slot, slot, lq, supply)>>

IsZeroShare(pos) == pos = <<>> \/ Last(pos).lq = 0

(* weighted_average_share_bps: over the time since the first interval. *)
AverageShareBps(pos) ==
    IF pos = <<>> \/ Last(pos).end = Head(pos).start THEN 0
    ELSE FoldLeft(LAMBDA n, i : n + (i.end - i.start) * ((i.lq * Bps) \div i.supply), 0, pos)
            \div (Last(pos).end - Head(pos).start)

ExtendTo(pos, slot) == [pos EXCEPT ![Len(pos)].end = slot]

(* add_new_share_interval: the current share ends here, intervals without  *)
(* width go, and the new share starts without width.                       *)
AddShare(pos, slot, lq, supply) ==
    LET e == ToEpoch(Last(pos).end)
        old == IF pos = <<>> THEN pos
               ELSE ExtendTo(pos, IF e = ToEpoch(slot) THEN slot ELSE LastSlot(e))
    IN  Append(SelectSeq(old, LAMBDA i : i.start < i.end), Interval(slot, slot, lq, supply))

(* Mutant: the share of the others stays what it was. *)
OutsideChangeIgnored(pos, slot, supply) == pos

(* update_from_external_pool_changes *)
OutsideChange(pos, slot, supply) ==
    IF IsZeroShare(pos) THEN pos ELSE AddShare(pos, slot, Last(pos).lq, supply)

CurrentLq(pos) == IF pos = <<>> THEN 0 ELSE Last(pos).lq

(* checked_sub().unwrap() of update_from_user_event fails, or its branch   *)
(* for an empty position is reached.                                       *)
Underflows(pos, ev) == ev.kind = "redeem" /\ (pos = <<>> \/ CurrentLq(pos) < ev.amount)

(* update_from_user_event *)
UserEvent(pos, slot, ev) ==
    AddShare(pos, slot, IF ev.kind = "deposit" THEN CurrentLq(pos) + ev.amount ELSE CurrentLq(pos) - ev.amount, ev.supply)

(* rollback_to *)
RolledBackTo(pos, slot) ==
    IF pos # <<>> /\ Head(pos).start > slot THEN <<>>
    ELSE LET kept == SelectSeq(pos, LAMBDA i : i.end <= slot \/ i.start <= slot)
         IN  IF kept # <<>> /\ Last(kept).end > slot THEN ExtendTo(kept, slot) ELSE kept

-----------------------------------------------------------------------------
(* sync_account_positions.  latest maps accounts to [epoch, pos].          *)

(* The assertion of the invariant on endpoints. *)
Endpoints(l) == <<l.epoch, Last(l.pos).start, Last(l.pos).end>>
Aligned(latest) == \A a, b \in DOMAIN latest : Endpoints(latest[a]) = Endpoints(latest[b])

(* The position carried over the epochs before the current one, *)
PastEpochs(l, cur) ==
    [e \in l.epoch..(cur - 1) |->
        IF e = l.epoch THEN ExtendTo(l.pos, LastSlot(e))
        ELSE <<Interval(FirstSlot(e), LastSlot(e), Last(l.pos).lq, Last(l.pos).supply)>>]
(* and into the current one. *)
CurrentEpoch(l, cur, slot) ==
    IF l.epoch = cur THEN ExtendTo(l.pos, slot)
    ELSE <<Interval(FirstSlot(cur), slot, Last(l.pos).lq, Last(l.pos).supply)>>

(* The events of the block on the positions of the current epoch. *)
ApplyFrames(frames, mine, slot, supply) ==
    FoldLeft(LAMBDA r, ev :
                LET pos == IF ev.acc \in DOMAIN r.mine THEN r.mine[ev.acc] ELSE NewPosition(slot, 0, supply)
                IN  IF ~r.ok \/ Underflows(pos, ev) THEN [r EXCEPT !.ok = FALSE]
                    ELSE [r EXCEPT !.mine = (ev.acc :> UserEvent(pos, slot, ev)) @@ @],
             [ok |-> TRUE, mine |-> mine], frames)

(* The positions of past epochs and of the current one, keyed by account   *)
(* and epoch.                                                              *)
PastPositions(latest, cur) ==
    [k \in UNION {{a} \X (latest[a].epoch..(cur - 1)) : a \in DOMAIN latest} |-> PastEpochs(latest[k[1]], cur)[k[2]]]

CurrentPositions(mine, cur, slot, supply) ==
    [k \in (DOMAIN mine) \X {cur} |-> OutsideChange(mine[k[1]], slot, supply)]

Synced(frames, latest, slot, cur, applied) ==
    [ok |-> Aligned(latest) /\ applied.ok,
     upd |-> IF frames = <<>> THEN PastPositions(latest, cur)
             ELSE CurrentPositions(applied.mine, cur, slot, Last(frames).supply) @@ PastPositions(latest, cur)]

(* The positions to write, and whether no assertion failed.  Without an    *)
(* event of an account the positions of the current epoch are not written. *)
SyncAccountPositions(frames, latest, slot, supply) ==
    Synced(frames, latest, slot, ToEpoch(slot),
           ApplyFrames(frames, [a \in DOMAIN latest |-> CurrentEpoch(latest[a], ToEpoch(slot), slot)], slot, supply))

-----------------------------------------------------------------------------
(* The tables. *)

EmptyDb ==
    [events |-> <<>>, positions |-> <<>>, weights |-> <<>>,
     suspended |-> [cur |-> {}, prev |-> <<>>, at |-> <<>>],
     active |-> <<>>, lq |-> <<>>, slot |-> {}, back |-> {}, exported |-> 0, feed |-> <<>>]

The(s) == CHOOSE x \in s : TRUE

Without(f, keys) == [k \in DOMAIN f \ keys |-> f[k]]

-----------------------------------------------------------------------------
(* Suspended and active pools.                                             *)

(* The slot is stored in MessagePack and read back only from eight bytes   *)
(* in big-endian order, which no MessagePack number is.                    *)
Readable(raw) == raw.form = "be" /\ raw.slot > 0

CurrentSuspendedSlot(db) == {r.slot : r \in {x \in db.suspended.cur : Readable(x)}}

(* get_current_suspended_pools *)
CurrentSuspendedPools(db) ==
    {db.suspended.at[s] : s \in CurrentSuspendedSlot(db) \cap DOMAIN db.suspended.at}

SetCurrentSuspendedSlot(db, slot) ==
    [db EXCEPT !.suspended.prev = IF CurrentSuspendedSlot(db) = {} THEN @
                                  ELSE (slot :> The(CurrentSuspendedSlot(db))) @@ @,
               !.suspended.cur = {[form |-> "rmp", slot |-> slot]}]

SetSuspendedPools(db, pools, slot) ==
    LET prev == IF CurrentSuspendedSlot(db) = {} THEN 0 ELSE The(CurrentSuspendedSlot(db))
        d == SetCurrentSuspendedSlot([db EXCEPT !.suspended.prev = (slot :> prev) @@ @], slot)
    IN  [d EXCEPT !.suspended.at = (slot :> pools) @@ @]

(* rollback_suspended_pools and rollback_active_pools, where their         *)
(* assertions hold.                                                        *)
MayRollbackSuspended(db, pools, slot) ==
    CurrentSuspendedSlot(db) = {slot} /\ CurrentSuspendedPools(db) = {pools}

RollbackSuspendedPools(db, slot) ==
    LET d == [db EXCEPT !.suspended.at = Without(@, {slot})]
        prev == db.suspended.prev[slot]
    IN  IF slot \in DOMAIN db.suspended.prev /\ prev > 0 THEN SetCurrentSuspendedSlot(d, prev) ELSE d

MayRollbackActive(db, epoch, pools) == epoch \in DOMAIN db.active /\ db.active[epoch] = pools

-----------------------------------------------------------------------------
(* The log of events (event_log.rs).                                       *)

(* The converter of batch_append is built with its two arguments swapped.  *)
SwappedEpoch(slot) == (slot - EpochLen) \div EpochStart

(* rollback_account_positions, on the first block after a rollback. *)
RollbackAccountPositions(db, slot) ==
    LET to == SwappedEpoch(slot)
        last == SwappedEpoch(The(db.slot))
        kept == Without(db.positions, {k \in DOMAIN db.positions : k[3] \in (to + 1)..last})
    IN  [db EXCEPT !.positions = [k \in DOMAIN kept |->
            IF k[3] = to THEN RolledBackTo(kept[k], slot) ELSE kept[k]]]

Keyed(ev) == ev.kind \notin {"suspended", "active"}

AppendEvent(db, slot, n, ev) ==
    IF ev.kind = "suspended" THEN SetSuspendedPools(db, ev.pools, slot)
    ELSE IF ev.kind = "active" THEN [db EXCEPT !.active = (ev.epoch :> ev.pools) @@ @]
    ELSE [db EXCEPT !.events = (<<slot, n>> :> ev) @@ @]

(* Mutant: all events of a block share a key. *)
BatchAppendOneKey(db, slot, events) ==
    LET d == IF db.back = {} THEN db
             ELSE [RollbackAccountPositions(db, The(db.back)) EXCEPT !.back = {}]
    IN  FoldLeft(LAMBDA x, n : AppendEvent(x, slot, 1, events[n]),
                 [d EXCEPT !.slot = {slot}], [n \in 1..Len(events) |-> n])

BatchAppend(db, slot, events) ==
    LET d == IF db.back = {} THEN db
             ELSE [RollbackAccountPositions(db, The(db.back)) EXCEPT !.back = {}]
    IN  FoldLeft(LAMBDA x, n : AppendEvent(x, slot, n, events[n]),
                 [d EXCEPT !.slot = {slot}], [n \in 1..Len(events) |-> n])

MayDiscard(db, slot, ev) ==
    /\ ev.kind = "suspended" => MayRollbackSuspended(db, ev.pools, slot)
    /\ ev.kind = "active" => MayRollbackActive(db, ev.epoch, ev.pools)

DiscardEvent(db, slot, n, ev) ==
    IF ev.kind = "suspended" THEN RollbackSuspendedPools(db, slot)
    ELSE IF ev.kind = "active" THEN [db EXCEPT !.active = Without(@, {ev.epoch})]
    ELSE [db EXCEPT !.weights = IF ev.kind = "weight" THEN Without(@, {<<ev.pool, ev.epoch>>}) ELSE @,
                    !.events = Without(@, {<<slot, n>>})]

(* The events come in reverse order and are numbered in that order.  ok is *)
(* FALSE when an assertion fails.                                          *)
BatchDiscard(db, slot, events) ==
    FoldLeft(LAMBDA r, n :
                IF ~r.ok \/ ~MayDiscard(r.db, slot, events[n]) THEN [r EXCEPT !.ok = FALSE]
                ELSE [r EXCEPT !.db = DiscardEvent(@, slot, n, events[n])],
             [ok |-> TRUE, db |-> [db EXCEPT !.back = {slot}]], [n \in 1..Len(events) |-> n])

-----------------------------------------------------------------------------
(* Mature events (mature_events.rs).                                       *)

HeadSlot(db) == Min({k[1] : k \in DOMAIN db.events})

(* The oldest logged slot is older than the delay.  (The loop of           *)
(* process_mature_events does not act without one.)                        *)
HasMature(db) ==
    /\ DOMAIN db.events # {} /\ db.slot # {}
    /\ The(db.slot) - HeadSlot(db) > Delay

KeysAt(db, slot) == {k \in DOMAIN db.events : k[1] = slot}

(* The events of a slot in order, equal ones once. *)
EventsAt(db, slot) ==
    FoldLeft(LAMBDA s, k : IF db.events[k] \in Range(s) THEN s ELSE Append(s, db.events[k]), <<>>,
             SetToSortSeq(KeysAt(db, slot), LAMBDA a, b : a[2] < b[2]))

OfPool(events, p) == SelectSeq(events, LAMBDA e : e.pool = p)
FramesOf(events) == SelectSeq(events, LAMBDA e : e.kind \in {"deposit", "redeem"})


(* aggregate_events sets the supply of a pool to the last one known. *)
Aggregated(lq, events) ==
    FoldLeft(LAMBDA f, e : IF e.kind = "weight" THEN f ELSE (e.pool :> e.supply) @@ f, lq, events)

(* get_latest_account_positions: the first position of an account counts   *)
(* even without a share, a later one only with one.                        *)
AccountsOf(db, p) == {k[2] : k \in {x \in DOMAIN db.positions : x[1] = p}}
EpochsOf(db, p, a) == {k[3] : k \in {x \in DOMAIN db.positions : x[1] = p /\ x[2] = a}}
LatestEpoch(db, p, a, epochs) ==
    Max({e \in epochs : e = Min(epochs) \/ ~IsZeroShare(db.positions[<<p, a, e>>])})
LatestOf(db, p, a, e) == [epoch |-> e, pos |-> db.positions[<<p, a, e>>]]
LatestPositions(db, p) ==
    [a \in AccountsOf(db, p) |-> LatestOf(db, p, a, LatestEpoch(db, p, a, EpochsOf(db, p, a)))]

(* The results of a turn.  Nothing is committed when it waits or panics. *)
Wait(db) == [result |-> "wait", db |-> db]
Panic(db) == [result |-> "panic", db |-> db]
Done(db) == [result |-> "done", db |-> db]


PutWeights(weights, p, events) ==
    FoldLeft(LAMBDA w, v : IF v.kind = "weight" THEN (<<p, v.epoch>> :> [weight |-> v.weight, total |-> v.total]) @@ w ELSE w,
             weights, events)

FeedRows(upd, rows) == [i \in DOMAIN rows |-> [key |-> rows[i], pos |-> upd[rows[i]]]]

(* The positions go to the table and, unless the slot was exported, to the *)
(* feed.                                                                   *)
PutPositions(db, slot, upd) ==
    [db EXCEPT !.positions = upd @@ @,
               !.feed = IF slot > db.exported
                        THEN @ \o FeedRows(upd, SetToSortSeq(DOMAIN upd, LAMBDA a, b : a[3] < b[3])) ELSE @]

PutSynced(db, slot, p, sync) ==
    IF ~sync.ok THEN Panic(db)
    ELSE Done(PutPositions(db, slot, [k \in {<<p, x[1], x[2]>> : x \in DOMAIN sync.upd} |-> sync.upd[<<k[2], k[3]>>]]))

MatureInEpoch(db, slot, p, events, latest, cur) ==
    IF \E a \in DOMAIN latest : latest[a].epoch > cur THEN Wait(db)
    ELSE IF \E v \in Range(events) : v.kind = "weight" /\ v.epoch # cur THEN Panic(db)
    ELSE PutSynced([db EXCEPT !.weights = PutWeights(@, p, events)], slot, p,
                   SyncAccountPositions(FramesOf(events), latest, slot, db.lq[p]))

(* The events of one pool: without a known supply the turn waits, before   *)
(* epoch 0 nothing is stored.                                              *)
MaturePool(db, slot, p, events) ==
    IF p \notin DOMAIN db.lq THEN Wait(db)
    ELSE IF slot < EpochStart THEN Done(db)
    ELSE MatureInEpoch(db, slot, p, events, LatestPositions(db, p), ToEpoch(slot))

MaturePools(db, slot, events) ==
    FoldSet(LAMBDA p, r : IF r.result = "done" THEN MaturePool(r.db, slot, p, OfPool(events, p)) ELSE r,
            Done([db EXCEPT !.events = Without(@, KeysAt(db, slot)), !.lq = Aggregated(@, events)]),
            {e.pool : e \in Range(events)})

Committed(db, slot, r) ==
    IF r.result # "done" THEN [r EXCEPT !.db = db]
    ELSE [r EXCEPT !.db.exported = IF r.db.feed # db.feed THEN slot ELSE @]

(* try_process_mature_events for a mature slot. *)
ProcessMature(db, slot) == Committed(db, slot, MaturePools(db, slot, EventsAt(db, slot)))

-----------------------------------------------------------------------------
(* query_account (accounts.rs).                                            *)

PoolsOf(db, acc) == {k[1] : k \in {x \in DOMAIN db.positions : x[2] = acc}}

(* current_epoch: the epoch of the slot a delay ago.  Within the first     *)
(* delay of epoch 0 the difference wraps around and every epoch counts.    *)
WrappedEpoch == 2^20
ConfirmedEpoch(db) ==
    IF The(db.slot) - Delay < EpochStart THEN WrappedEpoch ELSE ToEpoch(The(db.slot) - Delay)

(* The epochs of a pool that count for a query. *)
Rewarded(db, acc, p, from) ==
    {e \in {k[3] : k \in {x \in DOMAIN db.positions : x[1] = p /\ x[2] = acc}} :
        /\ e >= from /\ e < ConfirmedEpoch(db)
        /\ e \in DOMAIN db.active /\ p \in db.active[e]
        /\ <<p, e>> \in DOMAIN db.weights /\ db.weights[<<p, e>>].weight > 0
        /\ \A s \in CurrentSuspendedPools(db) : p \notin s}

GaugeRewardInEpoch(w, bps) == (((Emission * w.weight) \div w.total) * bps) \div Bps

(* The answer for one pool: only epochs after the latest of the pools      *)
(* before it count, epoch 0 while none was.                                *)
QueryPool(db, acc, p, from, r) ==
    LET counted == {e \in Rewarded(db, acc, p, from) : e > r.latest \/ (e = 0 /\ r.latest = 0)}
    IN  [amount |-> r.amount + FoldSet(LAMBDA e, n : n + GaugeRewardInEpoch(db.weights[<<p, e>>],
                                             AverageShareBps(db.positions[<<p, acc, e>>])), 0, counted),
         latest |-> Max({r.latest} \cup counted)]

(* Asked after the first block, before which the unwrap of the slot fails. *)
QueryAccount(db, acc, from) ==
    IF The(db.slot) < EpochStart THEN {}
    ELSE {FoldSet(LAMBDA p, r : QueryPool(db, acc, p, from, r),
                  [amount |-> 0, latest |-> 0], PoolsOf(db, acc))}
=============================================================================
