---------------------------- MODULE UtxoMonitor ----------------------------
(***************************************************************************)
(* The UTxO monitor (cardano-utxo-monitor) between a node and its index.   *)
(* The ledger task follows the chain with a cache of blocks that outlives  *)
(* the process and applies or unapplies transactions to the index.  The    *)
(* mempool task applies what the mempool announces and unapplies what the  *)
(* tracker gives up.  The tracker learns of every ledger event.  The       *)
(* process may be stopped between any two writes, and on a start it undoes *)
(* the last blocks before it reconnects.                                   *)
(*                                                                         *)
(* The node is external: a chain that grows and forks, a mempool, and one  *)
(* chain-sync session with its read pointer.                               *)
(***************************************************************************)
EXTENDS UtxoIndexOps, CircularFilterOps, Functions, Integers

CONSTANTS
    RecentCap,  \* capacity of the filter of confirmed transactions, 256 in the code
    Buffer,     \* tx_tracker_buffer_size, the room in each channel
    Scenarios   \* what may happen and how the monitor is configured

ASSUME ScenarioAssumption ==
    \A s \in Scenarios :
        s.forks \in Nat /\ s.disableUntil \in Nat /\ s.rollbackSlots \in Nat

(* The last element first. *)
Reversed(s) == [i \in DOMAIN s |-> s[Len(s) + 1 - i]]

-----------------------------------------------------------------------------
(* The tracker (tx_tracker): the transactions waiting for a confirmation,  *)
(* with the block until which each must come, and those confirmed lately.  *)
(*   recent  : filter of confirmed transactions;                           *)
(*   pending : sequence of [tx, until] in the order of submission;         *)
(*   current : number of the last block seen, 0 before the first.          *)

NewTracker == [recent |-> EmptyFilter, pending |-> <<>>, current |-> 0]

IsPending(k, t) == \E i \in DOMAIN k.pending : k.pending[i].tx = t

(* process_incoming_txs and PendingTxs::append. *)
TrackTx(k, t, delay) ==
    IF FilterContains(k.recent, t) \/ IsPending(k, t) THEN k
    ELSE [k EXCEPT !.pending = Append(@, [tx |-> t, until |-> k.current + delay])]

(* process_confirmed_txs with confirm_tx and try_advance.  A new block     *)
(* gives up what should have been confirmed until it.                      *)
Confirmed(k, t, block) ==
    LET rest == SelectSeq(k.pending, LAMBDA p : p.tx # t)
    IN  [recent |-> FilterAdd(RecentCap, k.recent, t),
         pending |-> IF k.current < block
                     THEN SelectSeq(rest, LAMBDA p : p.until > block) ELSE rest,
         current |-> IF k.current < block THEN block ELSE k.current]

(* The transactions given up, latest first. *)
GivenUp(k, t, block) ==
    IF k.current < block
    THEN LET late == SelectSeq(k.pending, LAMBDA p : p.tx # t /\ p.until <= block)
         IN  Reversed([i \in DOMAIN late |-> late[i].tx])
    ELSE <<>>

-----------------------------------------------------------------------------
VARIABLES
    node,       \* [chain, mem, forks, drops]
    session,    \* [read, roll]: read pointer, and whether a rollback to it is due
    cache,      \* [tip, blocks], on disk
    db,         \* the index, on disk
    led,        \* the ledger task
    mp,         \* the mempool task
    tracker,
    ch,         \* [track, confirmed, failed]
    stops,      \* how often the process was stopped
    raced,      \* whether an operation was based on a row that changed before its commit
    scenario

vars == <<node, session, cache, db, led, mp, tracker, ch, stops, raced, scenario>>
volatile == <<led, mp, tracker, ch>>

-----------------------------------------------------------------------------
(* Points and blocks.  A block is named by its slot and the fork it is on; *)
(* one block is made per slot and the slot is also its number.             *)

Origin == <<0, 0>>
PointOf(b) == <<b.slot, b.fork>>
NoBlock == [slot |-> 0, fork |-> 0, txs |-> <<>>]

TxsOf(chain) ==
    LET upTo[n \in 0..Len(chain)] == IF n = 0 THEN <<>> ELSE upTo[n - 1] \o chain[n].txs
    IN  upTo[Len(chain)]

PointAt(chain, n) == IF n = 0 THEN Origin ELSE PointOf(chain[n])

(* Transactions in the order given spend only what exists and is unspent;  *)
(* outputs of no transaction of the model exist from the start.            *)
Valid(ts) ==
    \A i \in DOMAIN ts :
        /\ \A j \in 1..(i - 1) : ts[j] # ts[i] /\ Inputs[ts[j]] \cap Inputs[ts[i]] = {}
        /\ \A u \in Tx : Outputs[u] \cap Inputs[ts[i]] # {} => \E j \in 1..(i - 1) : ts[j] = u

(* What of a mempool remains valid on a chain, in order. *)
Retained(chain, ts) ==
    LET upTo[n \in 0..Len(ts)] ==
            IF n = 0 THEN <<>>
            ELSE LET kept == upTo[n - 1]
                 IN  IF Valid(TxsOf(chain) \o kept \o <<ts[n]>>) THEN Append(kept, ts[n]) ELSE kept
    IN  upTo[Len(ts)]

Idle == [pc |-> "idle", at |-> Origin, to |-> Origin, any |-> FALSE,
         todo |-> <<>>, blk |-> NoBlock, sent |-> FALSE, seen |-> {}]
Down == [Idle EXCEPT !.pc = "down"]
NewMempoolTask == [synced |-> FALSE, prev |-> {}, cur |-> {}, fresh |-> FALSE,
                   snap |-> <<>>, held |-> {}, dropped |-> {}, seen |-> {}]
NoMessages == [track |-> <<>>, confirmed |-> <<>>, failed |-> <<>>]

MonitorInit ==
    /\ scenario \in Scenarios
    /\ node = [chain |-> <<>>, mem |-> <<>>, forks |-> 0, drops |-> 0]
    /\ session = [read |-> 0, roll |-> FALSE]
    /\ cache = [tip |-> {}, blocks |-> [p \in {} |-> {}]]
    /\ db = EmptyIndex
    /\ led = Down
    /\ mp = NewMempoolTask
    /\ tracker = NewTracker
    /\ ch = NoMessages
    /\ stops = 0
    /\ raced = FALSE

-----------------------------------------------------------------------------
(* The node. *)

Submit(t) ==
    /\ scenario.mempool
    /\ t \in scenario.txs
    /\ Valid(TxsOf(node.chain) \o node.mem \o <<t>>)
    /\ node' = [node EXCEPT !.mem = Append(@, t)]
    /\ UNCHANGED <<session, cache, db, volatile, stops, raced, scenario>>

Produce(ts) ==
    LET chain == Append(node.chain, [slot |-> Len(node.chain) + 1, fork |-> node.forks, txs |-> ts])
    IN  /\ Len(chain) <= scenario.height
        /\ Valid(TxsOf(chain))
        /\ node' = [node EXCEPT !.chain = chain, !.mem = Retained(chain, @)]
        /\ UNCHANGED <<session, cache, db, volatile, stops, raced, scenario>>

(* A fork takes the last block away.  Forks reach neither the first block  *)
(* nor the slots for which the monitor is configured to ignore rollbacks.  *)
Fork ==
    LET chain == SubSeq(node.chain, 1, Len(node.chain) - 1)
    IN  /\ node.forks < scenario.forks
        /\ Len(node.chain) > 1
        /\ Len(chain) > scenario.disableUntil
        /\ node' = [node EXCEPT !.chain = chain, !.forks = @ + 1,
                        !.mem = IF scenario.mempool
                                THEN Retained(chain, node.chain[Len(node.chain)].txs \o @) ELSE <<>>]
        /\ session' = IF session.read > Len(chain)
                      THEN [read |-> Len(chain), roll |-> TRUE] ELSE session
        /\ UNCHANGED <<cache, db, volatile, stops, raced, scenario>>

Evict(t) ==
    /\ node.drops < scenario.drops
    /\ t \in Range(node.mem)
    /\ node' = [node EXCEPT !.drops = @ + 1,
                    !.mem = Retained(node.chain, SelectSeq(@, LAMBDA u : u # t))]
    /\ UNCHANGED <<session, cache, db, volatile, stops, raced, scenario>>

-----------------------------------------------------------------------------
(* The ledger task: start-up. *)

SetTip(p) == cache' = [cache EXCEPT !.tip = {p}]
DeleteBlock(p) ==
    cache' = [cache EXCEPT !.blocks = [q \in DOMAIN cache.blocks \ {p} |-> cache.blocks[q]]]
Cached(p) == p \in DOMAIN cache.blocks

TargetSlot(p) == IF p[1] > scenario.rollbackSlots THEN p[1] - scenario.rollbackSlots ELSE 0

DetermineRestartMode ==
    /\ led.pc = "down"
    /\ led' = IF cache.tip = {} THEN [Down EXCEPT !.pc = "connect"]
              ELSE LET p == CHOOSE p \in cache.tip : TRUE
                   IN  [Down EXCEPT !.pc = "rolling", !.at = p, !.to = <<TargetSlot(p), 0>>]
    /\ UNCHANGED <<node, session, cache, db, mp, tracker, ch, stops, raced, scenario>>

(* rollback_blocks: the next block to undo, if there is one and the cache  *)
(* has it.                                                                 *)
RollbackBlock ==
    /\ led.pc = "rolling"
    /\ led.at[1] > led.to[1]
    /\ Cached(led.at)
    /\ led' = [led EXCEPT !.pc = "undoing", !.todo = Reversed(cache.blocks[led.at].blk.txs)]
    /\ UNCHANGED <<node, session, cache, db, mp, tracker, ch, stops, raced, scenario>>

RollbackTx ==
    /\ led.pc = "undoing"
    /\ led.todo # <<>>
    /\ db' = Unapply(db, db, Head(led.todo))
    /\ led' = [led EXCEPT !.todo = Tail(@)]
    /\ UNCHANGED <<node, session, cache, mp, tracker, ch, stops, raced, scenario>>

RollbackDelete ==
    /\ led.pc = "undoing"
    /\ led.todo = <<>>
    /\ DeleteBlock(led.at)
    /\ led' = [led EXCEPT !.pc = "rolling", !.any = TRUE, !.at = cache.blocks[led.at].prev]
    /\ UNCHANGED <<node, session, db, mp, tracker, ch, stops, raced, scenario>>

(* Mutant: the tip is not moved. *)
RollbackDoneTipStays ==
    /\ led.pc = "rolling"
    /\ led.at[1] <= led.to[1]
    /\ led' = [Down EXCEPT !.pc = "connect"]
    /\ UNCHANGED <<node, session, cache, db, mp, tracker, ch, stops, raced, scenario>>

RollbackDone ==
    /\ led.pc = "rolling"
    /\ led.at[1] <= led.to[1]
    /\ SetTip(led.at)
    /\ led' = [Down EXCEPT !.pc = "connect"]
    /\ UNCHANGED <<node, session, db, mp, tracker, ch, stops, raced, scenario>>

(* A block is missing: main panics, after partial progress with a new tip. *)
RollbackFails ==
    /\ led.pc = "rolling"
    /\ led.at[1] > led.to[1]
    /\ ~Cached(led.at)
    /\ IF led.any THEN SetTip(led.at) ELSE UNCHANGED cache
    /\ led' = Down
    /\ UNCHANGED <<node, session, db, mp, tracker, ch, stops, raced, scenario>>

ResumePoint == IF cache.tip = {} THEN Origin ELSE CHOOSE p \in cache.tip : TRUE

(* ChainSyncClient::init with the only point it offers. *)
Connect ==
    /\ led.pc = "connect"
    /\ \/ \E n \in 0..Len(node.chain) :
            /\ PointAt(node.chain, n) = ResumePoint
            /\ session' = [read |-> n, roll |-> TRUE]
            /\ led' = Idle
       \/ /\ \A n \in 0..Len(node.chain) : PointAt(node.chain, n) # ResumePoint
          /\ led' = Down
          /\ UNCHANGED session
    /\ UNCHANGED <<node, cache, db, mp, tracker, ch, stops, raced, scenario>>

-----------------------------------------------------------------------------
(* The ledger task: following the chain. *)

(* The events of a block, one by one; the task is back to `rest' after the *)
(* last.                                                                   *)
Events(pc, rest, blk, txs) ==
    IF txs = <<>> THEN rest ELSE [rest EXCEPT !.pc = pc, !.blk = blk, !.todo = txs]

RollForward ==
    LET b == node.chain[session.read + 1]
    IN  /\ led.pc = "idle"
        /\ ~session.roll
        /\ session.read < Len(node.chain)
        /\ session' = [session EXCEPT !.read = @ + 1]
        /\ SetTip(PointOf(b))
        /\ led' = IF b.slot > scenario.disableUntil
                  THEN [Idle EXCEPT !.pc = "caching", !.blk = b, !.at = ResumePoint]
                  ELSE Events("applying", Idle, b, b.txs)
        /\ UNCHANGED <<node, db, mp, tracker, ch, stops, raced, scenario>>

(* The second write of cache_block, whose first one set the tip. *)
Linked(b, prev) ==
    [cache EXCEPT !.blocks = [p \in DOMAIN @ \cup {PointOf(b)} |->
                                 IF p = PointOf(b) THEN [blk |-> b, prev |-> prev] ELSE @[p]]]

(* Mutant: the previous point is read after the tip is set. *)
PutBlockReadsLate ==
    /\ led.pc = "caching"
    /\ cache' = Linked(led.blk, ResumePoint)
    /\ led' = Events("applying", Idle, led.blk, led.blk.txs)
    /\ UNCHANGED <<node, session, db, mp, tracker, ch, stops, raced, scenario>>

PutBlock ==
    /\ led.pc = "caching"
    /\ cache' = Linked(led.blk, led.at)
    /\ led' = Events("applying", Idle, led.blk, led.blk.txs)
    /\ UNCHANGED <<node, session, db, mp, tracker, ch, stops, raced, scenario>>

RollBackward ==
    LET p == PointAt(node.chain, session.read)
    IN  /\ led.pc = "idle"
        /\ session.roll
        /\ session' = [session EXCEPT !.roll = FALSE]
        /\ led' = IF p[1] > scenario.disableUntil
                  THEN [Idle EXCEPT !.pc = "unrolling", !.to = p] ELSE Idle
        /\ UNCHANGED <<node, cache, db, mp, tracker, ch, stops, raced, scenario>>

(* One round of the loop of `rollback', with a pause between its writes.   *)
(* The loop ends at the point asked for, and also at a block that is not   *)
(* cached.                                                                 *)
Unroll ==
    /\ led.pc = "unrolling"
    /\ IF ResumePoint # led.to /\ Cached(ResumePoint)
       THEN /\ DeleteBlock(ResumePoint)
            /\ led' = [led EXCEPT !.pc = "deleted", !.at = cache.blocks[ResumePoint].prev,
                           !.blk = cache.blocks[ResumePoint].blk]
       ELSE led' = Idle /\ UNCHANGED cache
    /\ UNCHANGED <<node, session, db, mp, tracker, ch, stops, raced, scenario>>

UnrollSetTip ==
    /\ led.pc = "deleted"
    /\ SetTip(led.at)
    /\ led' = Events("unapplying", [Idle EXCEPT !.pc = "unrolling", !.to = led.to],
                     led.blk, Reversed(led.blk.txs))
    /\ UNCHANGED <<node, session, db, mp, tracker, ch, stops, raced, scenario>>

(* process_events: a ledger event goes to the tracker and then to the      *)
(* index.                                                                  *)
ForwardToTracker ==
    /\ led.pc \in {"applying", "unapplying"}
    /\ ~led.sent
    /\ Len(ch.confirmed) < Buffer
    /\ ch' = [ch EXCEPT !.confirmed = Append(@, <<Head(led.todo), led.blk.slot>>)]
    /\ led' = [led EXCEPT !.sent = TRUE]
    /\ UNCHANGED <<node, session, cache, db, mp, tracker, stops, raced, scenario>>

(* The database transaction of a task for t: it reads its rows, some of    *)
(* them perhaps later than the others, and then commits what it wrote.     *)
(* The rows it writes are locked until then.  That orders the commits; a   *)
(* lock waited for too long is a panic, which ends the process.            *)
Readings(seen, t) ==
    IF seen = {} THEN {View(db, t)}
    ELSE {ReadLate(y, db, o) : y \in seen, o \in Inputs[t] \cup Made(t)}

Commits(seen, t) == raced' = (raced \/ seen # {View(db, t)})

LedgerReads ==
    /\ led.pc \in {"applying", "unapplying"}
    /\ led.sent
    /\ \E y \in Readings(led.seen, Head(led.todo)) : led' = [led EXCEPT !.seen = {y}]
    /\ UNCHANGED <<node, session, cache, db, mp, tracker, ch, stops, raced, scenario>>

Handled == [led EXCEPT !.todo = Tail(@), !.sent = FALSE, !.seen = {}]

HandleApplied ==
    /\ led.pc = "applying"
    /\ \E y \in led.seen : db' = Apply(db, y, Head(led.todo), {led.blk.slot})
    /\ Commits(led.seen, Head(led.todo))
    /\ led' = IF Len(led.todo) > 1 THEN Handled ELSE Idle
    /\ UNCHANGED <<node, session, cache, mp, tracker, ch, stops, scenario>>

HandleUnapplied ==
    /\ led.pc = "unapplying"
    /\ \E y \in led.seen : db' = Unapply(db, y, Head(led.todo))
    /\ Commits(led.seen, Head(led.todo))
    /\ led' = IF Len(led.todo) > 1 THEN Handled
              ELSE [Idle EXCEPT !.pc = "unrolling", !.to = led.to]
    /\ UNCHANGED <<node, session, cache, mp, tracker, ch, stops, scenario>>

(* The node has nothing new. *)
TipReached ==
    /\ led.pc = "idle"
    /\ ~session.roll
    /\ session.read = Len(node.chain)
    /\ ~mp.synced
    /\ mp' = [mp EXCEPT !.synced = TRUE]
    /\ UNCHANGED <<node, session, cache, db, led, tracker, ch, stops, raced, scenario>>

-----------------------------------------------------------------------------
(* The mempool task. *)

Acquire ==
    /\ mp.synced
    /\ mp.held = {}
    /\ mp.snap = <<>>
    /\ node.mem # <<>>
    /\ mp' = [mp EXCEPT !.snap = node.mem, !.fresh = TRUE]
    /\ UNCHANGED <<node, session, cache, db, led, tracker, ch, stops, raced, scenario>>

(* MempoolProjection::register, which forgets every other round what it    *)
(* has seen before.                                                        *)
Register(m, t) ==
    LET prev == IF m.fresh THEN m.cur ELSE m.prev
        cur == IF m.fresh THEN {} ELSE m.cur
        seen == t \in prev \cup cur
    IN  [m EXCEPT !.prev = prev, !.cur = IF seen THEN cur ELSE cur \cup {t},
             !.fresh = FALSE, !.held = IF seen THEN {} ELSE {t}, !.snap = Tail(@)]

(* A transaction that is new to the projection goes to the tracker first. *)
QueryNextTx ==
    /\ mp.snap # <<>>
    /\ mp.held = {}
    /\ Len(ch.track) < Buffer
    /\ mp' = Register(mp, Head(mp.snap))
    /\ ch' = IF mp'.held = {} THEN ch ELSE [ch EXCEPT !.track = Append(@, Head(mp.snap))]
    /\ UNCHANGED <<node, session, cache, db, led, tracker, stops, raced, scenario>>

(* The task takes up what the tracker gave up. *)
TakeDropped ==
    /\ mp.synced
    /\ mp.seen = {} /\ mp.dropped = {}
    /\ ch.failed # <<>>
    /\ mp' = [mp EXCEPT !.dropped = {Head(ch.failed)}]
    /\ ch' = [ch EXCEPT !.failed = Tail(@)]
    /\ UNCHANGED <<node, session, cache, db, led, tracker, stops, raced, scenario>>

(* What the task handles: one event at a time. *)
InHand == IF mp.dropped = {} THEN mp.held ELSE mp.dropped

MempoolReads ==
    /\ \E t \in InHand : \E y \in Readings(mp.seen, t) : mp' = [mp EXCEPT !.seen = {y}]
    /\ UNCHANGED <<node, session, cache, db, led, tracker, ch, stops, raced, scenario>>

HandleAccepted ==
    /\ mp.dropped = {}
    /\ \E t \in mp.held, y \in mp.seen : db' = Apply(db, y, t, {}) /\ Commits(mp.seen, t)
    /\ mp' = [mp EXCEPT !.held = {}, !.seen = {}]
    /\ UNCHANGED <<node, session, cache, led, tracker, ch, stops, scenario>>

HandleDropped ==
    /\ \E t \in mp.dropped, y \in mp.seen : db' = Unapply(db, y, t) /\ Commits(mp.seen, t)
    /\ mp' = [mp EXCEPT !.dropped = {}, !.seen = {}]
    /\ UNCHANGED <<node, session, cache, led, tracker, ch, stops, scenario>>

-----------------------------------------------------------------------------
(* The tracker. *)

ProcessIncoming ==
    /\ ch.track # <<>>
    /\ tracker' = TrackTx(tracker, Head(ch.track), scenario.delay)
    /\ ch' = [ch EXCEPT !.track = Tail(@)]
    /\ UNCHANGED <<node, session, cache, db, led, mp, stops, raced, scenario>>

ProcessConfirmed ==
    LET e == Head(ch.confirmed)
    IN  /\ ch.confirmed # <<>>
        /\ Len(ch.failed) < Buffer
        /\ tracker' = Confirmed(tracker, e[1], e[2])
        /\ ch' = [ch EXCEPT !.confirmed = Tail(@),
                            !.failed = @ \o GivenUp(tracker, e[1], e[2])]
        /\ UNCHANGED <<node, session, cache, db, led, mp, stops, raced, scenario>>

-----------------------------------------------------------------------------
(* The process ends, on ctrl-c (exit without waiting) or by a failure.  In *)
(* scenarios that do not allow it, not between the write of the tip and    *)
(* the last unapplied transaction of a node's rollback.                    *)
Stop ==
    /\ led.pc # "down"
    /\ stops < scenario.stops
    /\ scenario.stopInRollback \/ led.pc # "unapplying"
    /\ stops' = stops + 1
    /\ led' = Down
    /\ mp' = NewMempoolTask
    /\ tracker' = NewTracker
    /\ ch' = NoMessages
    /\ session' = [read |-> 0, roll |-> FALSE]
    /\ UNCHANGED <<node, cache, db, raced, scenario>>

Ledger ==
    \/ DetermineRestartMode \/ RollbackBlock \/ RollbackTx \/ RollbackDelete
    \/ RollbackDone \/ RollbackFails \/ Connect \/ RollForward \/ PutBlock
    \/ RollBackward \/ Unroll \/ UnrollSetTip \/ ForwardToTracker
    \/ LedgerReads \/ HandleApplied \/ HandleUnapplied \/ TipReached

Mempool ==
    \/ Acquire \/ QueryNextTx \/ TakeDropped \/ MempoolReads
    \/ HandleAccepted \/ HandleDropped

Tracker == ProcessIncoming \/ ProcessConfirmed

Node ==
    \/ \E t \in Tx : Submit(t) \/ Evict(t)
    \/ \E ts \in scenario.bodies : Produce(ts)
    \/ Fork

MonitorNext == Ledger \/ Mempool \/ Tracker \/ Node \/ Stop

MonitorSpec == MonitorInit /\ [][MonitorNext]_vars

-----------------------------------------------------------------------------
(* The secondary tables agree with the table of outputs at every moment,   *)
(* also after a stop, and also after operations of the two tasks on one    *)
(* output overlapped: each writes all the entries of a row together.       *)
TablesAgree == Agree(db)

(* The monitor has handled all the node told it, and the mempool is empty. *)
AtRest ==
    /\ led.pc = "idle"
    /\ ~session.roll
    /\ session.read = Len(node.chain)
    /\ node.mem = <<>> /\ mp.snap = <<>> /\ InHand = {}
    /\ ch = NoMessages

OnChain == Range(TxsOf(node.chain))
SpentOnChain == UNION {Inputs[t] : t \in OnChain}
MadeOnChain == UNION {Made(t) : t \in OnChain}

(* get_utxos: at rest the unspent outputs served are those of the chain,   *)
(* whatever forks, stops and mempool announcements there were.  Of outputs *)
(* that came from blocks only, the index also knows the slot of the block  *)
(* on the chain that made them and whether they are spent.  Where this     *)
(* does not hold: once an operation of one task overwrote a row that the   *)
(* other had committed after it was read (`raced': a late announcement can *)
(* mark a spent output unspent), when transactions are given up, and when  *)
(* a stop falls into a rollback of the node.                               *)
UnspentExact ==
    scenario.exact /\ ~raced /\ AtRest =>
        /\ Unspent(db) = (MadeOnChain \ SpentOnChain) \cap Credentialed
        /\ ~scenario.mempool =>
              db.txo = [o \in MadeOnChain |->
                  [settled |-> {n \in DOMAIN node.chain :
                                   \E t \in Range(node.chain[n].txs) : o \in Made(t)},
                   spent |-> o \in SpentOnChain]]

(* Whenever the ledger task waits for the node, the cache holds, linked in *)
(* order, the blocks of the chain up to the read pointer of the session,   *)
(* so that the next rollback finds all it has to undo.  (With              *)
(* auto_rollback_slots = 0 it does not: a stop between the two writes of   *)
(* cache_block leaves a block out that no restart puts back.)  And         *)
(* auto_rollback_slots covers the forks that happen while the monitor is   *)
(* down: the point from which it wants to resume is on the chain.          *)
CacheFollowsChain ==
    /\ led.pc = "idle" /\ ~session.roll /\ scenario.rollbackSlots > 0 =>
        /\ ResumePoint = PointAt(node.chain, session.read)
        /\ \A n \in (scenario.disableUntil + 1)..session.read :
              LET p == PointAt(node.chain, n)
              IN  /\ Cached(p)
                  /\ cache.blocks[p] = [blk |-> node.chain[n], prev |-> PointAt(node.chain, n - 1)]
    /\ led.pc = "connect" /\ scenario.forks <= scenario.rollbackSlots =>
        \E n \in 0..Len(node.chain) : PointAt(node.chain, n) = ResumePoint
=============================================================================
