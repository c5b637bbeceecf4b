----------------------------- MODULE EventSinks -----------------------------
(***************************************************************************)
(* The event sinks of the Bloom agent (bloom-offchain-cardano/src/         *)
(* event_sink/handler.rs, wired in bloom-cardano-agent/src/main.rs): two   *)
(* tasks, one fed by the ledger and one by the mempool, pass each          *)
(* transaction through the same three handlers, which share their indexes  *)
(* and the record of graduated pools.                                      *)
(*                                                                         *)
(* chain are the blocks of the chain-sync cache.  strm[s] is the task of   *)
(* stream s: evs the events to handle, the current one first, at the next  *)
(* step on it, outs the outputs no handler has taken, trs the transitions  *)
(* found by the handler at work.  locks holds the owners of the mutexes of *)
(* the entity index and the order index across steps.  view is what the    *)
(* events sent for the ledger add up to.  hist is kept for the properties  *)
(* and the bounds.                                                         *)
(***************************************************************************)
EXTENDS Naturals, FiniteSets, SequencesExt

CONSTANTS
    Scenarios,          \* records [txs, blocks, trouble]: the transactions of a scenario
                        \* (see below), the bound on the length of its chain, and on its
                        \* rollbacks, crashes and mempool transactions together
    Collateral,         \* the output that is not used for funding (skip_set)
    BlockSize           \* bound on the transactions of a block, 1 or 2

-----------------------------------------------------------------------------
(* Graduated pools (bloom-offchain-cardano/src/graduation.rs): which       *)
(* Splash pools grew out of a Snek.fun pool, known from the transactions   *)
(* that consumed one.                                                      *)
(*                                                                         *)
(* The state in memory is a record: store, the identifiers of graduated    *)
(* pools; tracker, the outputs that hold a live Snek pool, as pairs        *)
(* <<output, pool>>; journal, pairs <<transaction, entry>>.  An entry is   *)
(* [consumed, produced, graduated], what one transaction did to the other  *)
(* two.  The database holds the same under keys: graduated, inputs and     *)
(* journal, whose values are the lines of the encoded entry.               *)

Keys(pairs) == {p[1] : p \in pairs}

Without(pairs, keys) == {p \in pairs : p[1] \notin keys}

(* Insertion into a map; extend is one insertion per pair. *)
Extended(pairs, more) == Without(pairs, Keys(more)) \cup more

EmptyGraduation == [store |-> {}, tracker |-> {}, journal |-> {}]

EmptyGraduationDb == [graduated |-> {}, inputs |-> {}, journal |-> {}]

(* The pool of every input that is a tracked Snek pool. *)
ConsumedSnekRefs(g, ins) == {p \in g.tracker : p[1] \in ins}

ApplyObservationEntry(g, tx, entry) ==
    [store |-> g.store \cup entry.graduated,
     tracker |-> Extended(Without(g.tracker, Keys(entry.consumed)), entry.produced),
     journal |-> Extended(g.journal, {<<tx, entry>>})]

(* A rollback that forgets the outputs the transaction had consumed. *)
TrackerRollbackForgets(g, entry) ==
    [g EXCEPT !.store = @ \ entry.graduated,
              !.tracker = Without(@, Keys(entry.produced))]

TrackerRollback(g, entry) ==
    [store |-> g.store \ entry.graduated,
     tracker |-> Extended(Without(g.tracker, Keys(entry.produced)), entry.consumed),
     journal |-> g.journal]

Journaled(g, tx) == {p[2] : p \in {q \in g.journal : q[1] = tx}}

(* A transaction without an entry leaves everything alone. *)
RollbackTx(g, tx) ==
    IF Journaled(g, tx) = {} THEN g
    ELSE TrackerRollback([store |-> g.store, tracker |-> g.tracker, journal |-> Without(g.journal, {tx})],
                         CHOOSE e \in Journaled(g, tx) : TRUE)

-----------------------------------------------------------------------------
(* The database.  Each of the two writes is one transaction of RocksDB. *)

EncodeJournalEntry(entry) ==
    {<<"C", p[1], p[2]>> : p \in entry.consumed}
    \cup {<<"P", p[1], p[2]>> : p \in entry.produced}
    \cup {<<"G", id, id>> : id \in entry.graduated}

ParseJournalEntry(lines) ==
    [consumed |-> {<<l[2], l[3]>> : l \in {x \in lines : x[1] = "C"}},
     produced |-> {<<l[2], l[3]>> : l \in {x \in lines : x[1] = "P"}},
     graduated |-> {l[2] : l \in {x \in lines : x[1] = "G"}}]

PersistObservation(db, tx, entry) ==
    [graduated |-> db.graduated \cup entry.graduated,
     inputs |-> Extended(Without(db.inputs, Keys(entry.consumed)), entry.produced),
     journal |-> Extended(db.journal, {<<tx, EncodeJournalEntry(entry)>>})]

(* A rollback that leaves the journal of the transaction on disk. *)
PersistRollbackKeepsJournal(db, tx, entry) ==
    [db EXCEPT !.graduated = @ \ entry.graduated,
               !.inputs = Extended(Without(@, Keys(entry.produced)), entry.consumed)]

PersistRollback(db, tx, entry) ==
    [graduated |-> db.graduated \ entry.graduated,
     inputs |-> Extended(Without(db.inputs, Keys(entry.produced)), entry.consumed),
     journal |-> Without(db.journal, {tx})]

LoadState(db) ==
    [store |-> db.graduated,
     tracker |-> db.inputs,
     journal |-> {<<p[1], ParseJournalEntry(p[2])>> : p \in db.journal}]

-----------------------------------------------------------------------------
(* The two indexes the event handlers share between the ledger and the     *)
(* mempool (entity_index.rs and order_index.rs).  What is consumed is not  *)
(* removed but queued, and evicted once a fixed delay has passed.  The     *)
(* delay is the same for all entries of a queue, so the entries that are   *)
(* due form a prefix of it; due is the length of that prefix.              *)

EmptyEntityIndex == [store |-> {}, permanent_pairs |-> {}, eviction_queue |-> <<>>]

(* store maps versions to states, here a set of states with one state of   *)
(* each version; permanent_pairs are the identifiers whose pair is known.  *)
GetState(ix, vers) == {s \in ix.store : s.ver \in vers}

PutState(ix, state) ==
    [ix EXCEPT !.permanent_pairs = IF state.kind = "pool" THEN @ \cup {state.id} ELSE @,
               !.store = {s \in @ : s.ver # state.ver} \cup {state}]

RegisterForEviction(ix, ver) == [ix EXCEPT !.eviction_queue = Append(@, ver)]

RunEviction(ix, due) ==
    [ix EXCEPT !.store = {s \in @ : s.ver \notin Range(SubSeq(ix.eviction_queue, 1, due))},
               !.eviction_queue = SubSeq(@, due + 1, Len(@))]

-----------------------------------------------------------------------------
EmptyKvIndex == [store |-> {}, eviction_queue |-> <<>>]

KvGet(ix, keys) == {s \in ix.store : s.ver \in keys}

KvPut(ix, value) == [ix EXCEPT !.store = {s \in @ : s.ver # value.ver} \cup {value}]

KvRegisterForEviction(ix, key) == [ix EXCEPT !.eviction_queue = Append(@, key)]

KvRunEviction(ix, due) ==
    [ix EXCEPT !.store = {s \in @ : s.ver \notin Range(SubSeq(ix.eviction_queue, 1, due))},
               !.eviction_queue = SubSeq(@, due + 1, Len(@))]

-----------------------------------------------------------------------------
VARIABLES txs, chain, strm, locks, idx, ordx, fndx, grad, gdb, view, hist

sinkVars == <<txs, chain, strm, locks, idx, ordx, fndx, grad, gdb, view, hist>>

Stream == {"ledger", "mempool"}

(* A transaction is [ins, outs]: the outputs it spends and its outputs     *)
(* [kind, id, pool, fresh].  A fresh order is one whose beacon is derived  *)
(* from an input of the transaction.                                       *)
Ins(t) == txs[t].ins
Out(t, i) == txs[t].outs[i]
OutsOf(t, kinds) == {i \in DOMAIN txs[t].outs : Out(t, i).kind \in kinds}
Ref(t, i) == <<t, i>>

TxsOn(blocks) == FlattenSeq(blocks)

The(s) == CHOOSE x \in s : TRUE

Fresh == [at |-> "general", evs |-> <<>>, outs |-> {}, trs |-> {}]
NoView == [ents |-> {}, ords |-> {}, funds |-> {}]
Event(dir, t) == [dir |-> dir, tx |-> t]

Unlocked == [pool |-> "free", order |-> "free"]

SinksInit ==
    /\ chain = <<>>
    /\ strm = [s \in Stream |-> Fresh]
    /\ gdb = EmptyGraduationDb
    /\ locks = Unlocked
    /\ idx = EmptyEntityIndex /\ ordx = EmptyKvIndex /\ fndx = EmptyKvIndex
    /\ grad = EmptyGraduation
    /\ view = NoView
    /\ \E sc \in Scenarios :
        /\ txs = sc.txs
        /\ hist = [up |-> TRUE, cut |-> <<>>, torn |-> FALSE, base |-> 0, evicted |-> {},
                   missed |-> FALSE, seen |-> {}, dropped |-> {}, room |-> sc.blocks, trouble |-> sc.trouble]

-----------------------------------------------------------------------------
(* The continuous handler (PairUpdateHandler). *)

Entity(t, i, graduated) ==
    [kind |-> Out(t, i).kind, id |-> Out(t, i).id, ver |-> Ref(t, i),
     grad |-> Out(t, i).kind = "pool" /\ Out(t, i).id \in graduated]

Ids(states) == {s.id : s \in states}

(* A pool is recognized by its address; an order must continue a consumed  *)
(* order, or be fresh in a transaction that consumes no known entity.      *)
OrderState(out, consumedIds) == out.id \in consumedIds \/ (out.fresh /\ consumedIds = {})

Recognized(t, outs, consumedIds) ==
    {i \in outs : Out(t, i).kind = "pool" \/ (Out(t, i).kind = "order" /\ OrderState(Out(t, i), consumedIds))}

(* Consumed and produced states of the same entity make one transition. *)
MatchTransitions(consumed, produced) ==
    {[old |-> {s \in consumed : s.id = k}, new |-> {s \in produced : s.id = k}] :
        k \in Ids(consumed) \cup Ids(produced)}

TransitionSwap(tr) == [old |-> tr.new, new |-> tr.old]

ObservedSneks(t, outs) == {<<Ref(t, i), Out(t, i).id>> : i \in {j \in outs : Out(t, j).kind = "snek"}}

GraduatedIds(consumedSneks, producedSneks, ids) ==
    IF consumedSneks # {} /\ producedSneks = {} /\ Cardinality(ids) = 1 THEN ids ELSE {}

(* The state on disk is optional in the type; the configuration requires   *)
(* it wherever graduations have a fee.                                     *)
JournalGraduated(t, entry) ==
    /\ grad' = ApplyObservationEntry(grad, t, entry)
    /\ gdb' = PersistObservation(gdb, t, entry)

(* GraduationAction::Apply; the other actions of a forward event ignore it. *)
ObserveGraduation(t, consumedSneks, producedSneks, ids) ==
    IF consumedSneks = {} /\ producedSneks = {} THEN UNCHANGED <<grad, gdb>>
    ELSE JournalGraduated(t, [consumed |-> consumedSneks, produced |-> producedSneks,
                              graduated |-> GraduatedIds(consumedSneks, producedSneks, ids)])

RollbackGraduation(t) ==
    /\ grad' = RollbackTx(grad, t)
    /\ gdb' = IF Journaled(grad, t) = {} THEN gdb ELSE PersistRollback(gdb, t, The(Journaled(grad, t)))

(* Parsing with the store as it was when the process started. *)
StoreAtStart(ev) == {}

(* Everything is parsed with the store as it was before the observation,   *)
(* or after the rollback, of the transaction itself.                       *)
StoreAtParsing(ev) == IF ev.dir = "unapply" THEN RollbackTx(grad, ev.tx).store ELSE grad.store

GraduationStep(ev, outs, produced) ==
    \/ /\ ev.dir = "apply"
       /\ ObserveGraduation(ev.tx, ConsumedSnekRefs(grad, Ins(ev.tx)),
                            ObservedSneks(ev.tx, outs), Ids(produced))
    \/ ev.dir = "unapply" /\ RollbackGraduation(ev.tx)
    \/ ev.dir \in {"accept", "drop"} /\ UNCHANGED <<grad, gdb>>

Goto(s, at, outs, trs) == strm' = [strm EXCEPT ![s] = [@ EXCEPT !.at = at, !.outs = outs, !.trs = trs]]

Current(s) == Head(strm[s].evs)

(* extract_continuous_transitions: no output of a transaction is taken yet *)
(* and there is at least one.                                              *)
ExtractContinuous(s, ev, consumed) ==
    LET outs == DOMAIN txs[ev.tx].outs
        taken == Recognized(ev.tx, outs, Ids(consumed))
        produced == {Entity(ev.tx, i, StoreAtParsing(ev)) : i \in taken}
    IN  /\ GraduationStep(ev, outs, produced)
        /\ Goto(s, IF consumed = {} /\ produced = {} THEN "special" ELSE "general commit",
                outs \ taken, MatchTransitions(consumed, produced))

(* The ledger spends a state that is no longer indexed. *)
NoteMissed(s) ==
    hist' = [hist EXCEPT !.missed = @ \/ (s = "ledger" /\ Ins(Current(s).tx) \cap hist.evicted # {})]

GeneralExtract(s) ==
    /\ hist.up /\ strm[s].at = "general" /\ strm[s].evs # <<>>
    /\ locks.pool = "free"
    /\ ExtractContinuous(s, Current(s), GetState(idx, Ins(Current(s).tx)))
    /\ NoteMissed(s)
    /\ UNCHANGED <<txs, chain, locks, idx, ordx, fndx, view>>

(* index_transition that does not store the state that replaces another. *)
IndexTransitionNoPut(ix, tr) ==
    IF tr.old # {} THEN RegisterForEviction(ix, The(tr.old).ver) ELSE PutState(ix, The(tr.new))

IndexTransition(ix, tr) ==
    FoldSet(LAMBDA e, x : PutState(x, e),
            FoldSet(LAMBDA e, x : RegisterForEviction(x, e.ver), ix, tr.old), tr.new)

IndexTransitions(ix, trs) == FoldSet(LAMBDA tr, x : IndexTransition(x, tr), ix, trs)

(* A dropped transaction is indexed as if it had been accepted. *)
IndexedAs(dir, trs) == IF dir = "unapply" THEN {TransitionSwap(tr) : tr \in trs} ELSE trs

(* What is sent: backward events carry the inverse. *)
SentAs(dir, trs) == IF dir \in {"unapply", "drop"} THEN {TransitionSwap(tr) : tr \in trs} ELSE trs

Told(known, sent) ==
    {e \in known : e.id \notin UNION {Ids(tr.old \cup tr.new) : tr \in sent}} \cup UNION {tr.new : tr \in sent}

Evicting(queue, due) == Range(SubSeq(queue, 1, due))

GeneralCommit(s) ==
    /\ hist.up /\ strm[s].at = "general commit" /\ locks.pool = "free"
    /\ \E due \in 0 .. Len(idx.eviction_queue) :
        /\ idx' = IndexTransitions(RunEviction(idx, due), IndexedAs(Current(s).dir, strm[s].trs))
        /\ hist' = [hist EXCEPT !.evicted = @ \cup Evicting(idx.eviction_queue, due)]
    /\ view' = IF s = "ledger"
               THEN [view EXCEPT !.ents = Told(@, SentAs(Current(s).dir, strm[s].trs))] ELSE view
    /\ Goto(s, "special", strm[s].outs, {})
    /\ UNCHANGED <<txs, chain, locks, ordx, fndx, grad, gdb>>

-----------------------------------------------------------------------------
(* The handler of atomic orders (SpecializedHandler).  An order is         *)
(* identified by its output; pool is the pool it is for.                   *)

Atomic(t, i) == [ver |-> Ref(t, i), id |-> Ref(t, i), pool |-> Out(t, i).pool]

AtomicTransitions(consumed, produced) ==
    {[old |-> {o}, new |-> {}] : o \in consumed}
    \cup {[old |-> {}, new |-> {o}] : o \in {p \in produced : p.id \notin Ids(consumed)}}

ExtractAtomic(s, t, consumed, outs) ==
    LET taken == {i \in outs : Out(t, i).kind = "atomic"}
        produced == {Atomic(t, i) : i \in taken}
    IN  Goto(s, IF consumed = {} /\ produced = {} THEN "funding" ELSE "special lock",
             outs \ taken, AtomicTransitions(consumed, produced))

(* Without outputs left, the inputs are not looked at. *)
SpecialExtract(s) ==
    /\ hist.up /\ strm[s].at = "special"
    /\ \/ strm[s].outs = {} /\ Goto(s, "funding", {}, {})
       \/ /\ strm[s].outs # {} /\ locks.order = "free"
          /\ ExtractAtomic(s, Current(s).tx, KvGet(ordx, Ins(Current(s).tx)), strm[s].outs)
    /\ NoteMissed(s)
    /\ UNCHANGED <<txs, chain, locks, idx, ordx, fndx, grad, gdb, view>>

(* The mutexes are taken one after the other, in an order that depends on  *)
(* the event.                                                              *)
FirstLock(dir) == IF dir = "unapply" THEN "order" ELSE "pool"
SecondLock(dir) == IF dir = "unapply" THEN "pool" ELSE "order"

SpecialLock(s) ==
    /\ hist.up /\ strm[s].at = "special lock"
    /\ locks[FirstLock(Current(s).dir)] = "free"
    /\ locks' = [locks EXCEPT ![FirstLock(Current(s).dir)] = s]
    /\ Goto(s, "special commit", strm[s].outs, strm[s].trs)
    /\ UNCHANGED <<txs, chain, idx, ordx, fndx, grad, gdb, view, hist>>

(* Orders of any pool. *)
OfAnyPool(trs) == trs

(* Orders of a pool that was never seen are dropped. *)
OfKnownPool(trs) == {tr \in trs : The(tr.old \cup tr.new).pool \in idx.permanent_pairs}

IndexAtomicTransition(ix, tr) ==
    FoldSet(LAMBDA o, x : KvPut(x, o),
            FoldSet(LAMBDA o, x : KvRegisterForEviction(x, o.ver), ix, tr.old), tr.new)

IndexAtomicTransitions(ix, trs) == FoldSet(LAMBDA tr, x : IndexAtomicTransition(x, tr), ix, trs)

(* Rollbacks and drops index the inverse. *)
CommitAtomic(s, sent) ==
    /\ \E due \in 0 .. Len(ordx.eviction_queue) :
        /\ ordx' = IndexAtomicTransitions(KvRunEviction(ordx, due), sent)
        /\ hist' = [hist EXCEPT !.evicted = @ \cup Evicting(ordx.eviction_queue, due)]
    /\ view' = IF s = "ledger" THEN [view EXCEPT !.ords = Told(@, sent)] ELSE view

SpecialCommit(s) ==
    /\ hist.up /\ strm[s].at = "special commit"
    /\ locks[SecondLock(Current(s).dir)] = "free"
    /\ CommitAtomic(s, SentAs(Current(s).dir, OfKnownPool(strm[s].trs)))
    /\ locks' = [locks EXCEPT ![FirstLock(Current(s).dir)] = "free"]
    /\ Goto(s, "funding", strm[s].outs, {})
    /\ UNCHANGED <<txs, chain, idx, fndx, grad, gdb>>

-----------------------------------------------------------------------------
(* The handler of funding boxes (FundingEventHandler), the last one. *)

Fund(t, i) == [ver |-> Ref(t, i), id |-> Ref(t, i)]

FundingEvents(t, consumed, outs) ==
    {[old |-> {f}, new |-> {}] : f \in consumed}
    \cup {[old |-> {}, new |-> {Fund(t, i)}] :
            i \in {j \in outs : Out(t, j).kind = "fund" /\ Ref(t, j) # Collateral}}

(* The next event: its outputs are counted when it is taken up. *)
Done(s) == strm' = [strm EXCEPT ![s] = [Fresh EXCEPT !.evs = Tail(strm[s].evs)]]

ExtractFunding(s, events) ==
    IF events = {} THEN Done(s) ELSE Goto(s, "funding commit", {}, events)

FundingExtract(s) ==
    /\ hist.up /\ strm[s].at = "funding"
    /\ \/ strm[s].outs = {} /\ Done(s)
       \/ /\ strm[s].outs # {}
          /\ ExtractFunding(s, FundingEvents(Current(s).tx, KvGet(fndx, Ins(Current(s).tx)), strm[s].outs))
    /\ NoteMissed(s)
    /\ UNCHANGED <<txs, chain, locks, idx, ordx, fndx, grad, gdb, view>>

IndexFundingEvents(ix, events) == FoldSet(LAMBDA ev, x : IndexAtomicTransition(x, ev), ix, events)

CommitFunding(s, sent) ==
    /\ \E due \in 0 .. Len(fndx.eviction_queue) :
        /\ fndx' = IndexFundingEvents(KvRunEviction(fndx, due), sent)
        /\ hist' = [hist EXCEPT !.evicted = @ \cup Evicting(fndx.eviction_queue, due)]
    /\ view' = IF s = "ledger" THEN [view EXCEPT !.funds = Told(@, sent)] ELSE view

FundingCommit(s) ==
    /\ hist.up /\ strm[s].at = "funding commit"
    /\ CommitFunding(s, SentAs(Current(s).dir, strm[s].trs))
    /\ Done(s)
    /\ UNCHANGED <<txs, chain, locks, idx, ordx, grad, gdb>>

HandlerStep(s) ==
    \/ GeneralExtract(s) \/ GeneralCommit(s)
    \/ SpecialExtract(s) \/ SpecialLock(s) \/ SpecialCommit(s)
    \/ FundingExtract(s) \/ FundingCommit(s)

-----------------------------------------------------------------------------
(* What feeds the streams.  The ledger stream pulls a block when it has    *)
(* handled the one before; the block is in the cache, and the tip of the   *)
(* cache on it, before its first transaction is handed out.                *)

Spent(seq) == UNION {Ins(seq[i]) : i \in DOMAIN seq}
Made(seq) == UNION {{Ref(seq[i], j) : j \in DOMAIN txs[seq[i]].outs} : i \in DOMAIN seq}

(* A transaction can follow others when what it spends is there; outputs   *)
(* of transactions outside the catalog are always there.                   *)
CanFollow(t, seq) ==
    /\ t \notin Range(seq)
    /\ \A r \in Ins(t) : r \notin Spent(seq) /\ (r[1] \in DOMAIN txs => r \in Made(seq))

Blocks(seq) ==
    LET ones == {<<t>> : t \in {u \in DOMAIN txs : CanFollow(u, seq)}}
    IN  ones \cup (IF BlockSize = 1 THEN {}
                   ELSE UNION {{Append(b, t) : t \in {u \in DOMAIN txs : CanFollow(u, seq \o b)}} : b \in ones})

Idle(s) == strm[s].at = "general" /\ strm[s].evs = <<>>

Feed(s, evs) == strm' = [strm EXCEPT ![s].evs = @ \o evs]

Events(dir, seq) == [i \in DOMAIN seq |-> Event(dir, seq[i])]

RollForward ==
    /\ hist.up /\ Idle("ledger") /\ Len(chain) < hist.room
    /\ \E b \in Blocks(TxsOn(chain)) :
        /\ chain' = Append(chain, b)
        /\ Feed("ledger", Events("apply", b))
    /\ UNCHANGED <<txs, locks, idx, ordx, fndx, grad, gdb, view, hist>>

(* One turn of the loop of rollback; its transactions in reverse. *)
RollBackward ==
    /\ hist.up /\ Idle("ledger") /\ chain # <<>> /\ hist.trouble > 0
    /\ chain' = Front(chain)
    /\ Feed("ledger", Events("unapply", Reverse(Last(chain))))
    /\ hist' = [hist EXCEPT !.trouble = @ - 1]
    /\ UNCHANGED <<txs, locks, idx, ordx, fndx, grad, gdb, view>>

(* The mempool of the node, and the tracker that gives a transaction up    *)
(* when it is not confirmed in time (UtxoMonitor models the tracker).      *)
MempoolAccepts(t) ==
    /\ hist.up /\ Len(strm["mempool"].evs) = 0 /\ hist.trouble > 0
    /\ t \notin hist.seen
    /\ CanFollow(t, TxsOn(chain) \o SetToSeq(hist.seen \ (hist.dropped \cup Range(TxsOn(chain)))))
    /\ Feed("mempool", <<Event("accept", t)>>)
    /\ hist' = [hist EXCEPT !.seen = @ \cup {t}, !.trouble = @ - 1]
    /\ UNCHANGED <<txs, chain, locks, idx, ordx, fndx, grad, gdb, view>>

MempoolDrops(t) ==
    /\ hist.up /\ Len(strm["mempool"].evs) = 0
    /\ t \in hist.seen \ (hist.dropped \cup Range(TxsOn(chain)))
    /\ Feed("mempool", <<Event("drop", t)>>)
    /\ hist' = [hist EXCEPT !.dropped = @ \cup {t}]
    /\ UNCHANGED <<txs, chain, locks, idx, ordx, fndx, grad, gdb, view>>

(* The process dies between two steps.  cut are the events of the ledger   *)
(* that had not reached the record of graduated pools.                     *)
Crash ==
    /\ hist.up /\ hist.trouble > 0
    /\ hist' = [hist EXCEPT !.up = FALSE, !.trouble = @ - 1,
                   !.cut = IF strm["ledger"].at = "general" THEN strm["ledger"].evs
                           ELSE Tail(strm["ledger"].evs)]
    /\ strm' = [s \in Stream |-> Fresh]
    /\ UNCHANGED <<txs, chain, locks, idx, ordx, fndx, grad, gdb, view>>

(* Blocks after the first n are handed out again (replay_from_point). *)
Replayed(n) == TxsOn(SubSeq(chain, n + 1, Len(chain)))

(* A replayed transaction continues a Snek pool made before the replay: it *)
(* is journaled again, without what it consumed.                           *)
Overwrites(seq) ==
    \E t \in Range(seq) : /\ OutsOf(t, {"snek"}) # {}
                          /\ \E r \in Ins(t) : /\ r[1] \in DOMAIN txs /\ r \notin Made(seq)
                                               /\ Out(r[1], r[2]).kind = "snek"

(* The replay hands out again what the crash cut. *)
Recovers(seq) == \A i \in DOMAIN hist.cut : hist.cut[i].dir = "apply" /\ hist.cut[i].tx \in Range(seq)

Restart ==
    /\ ~hist.up
    /\ \E n \in 0 .. Len(chain) :
        /\ strm' = [s \in Stream |-> IF s = "ledger" THEN [Fresh EXCEPT !.evs = Events("apply", Replayed(n))]
                                     ELSE Fresh]
        /\ hist' = [hist EXCEPT !.up = TRUE, !.cut = <<>>, !.base = n, !.evicted = {}, !.missed = FALSE,
                       !.torn = @ \/ ~Recovers(Replayed(n)) \/ Overwrites(Replayed(n))]
    /\ locks' = Unlocked
    /\ idx' = EmptyEntityIndex /\ ordx' = EmptyKvIndex /\ fndx' = EmptyKvIndex
    /\ grad' = LoadState(gdb)
    /\ view' = NoView
    /\ UNCHANGED <<txs, chain, gdb>>

SinksNext ==
    \/ \E s \in Stream : HandlerStep(s)
    \/ RollForward \/ RollBackward
    \/ \E t \in DOMAIN txs : MempoolAccepts(t) \/ MempoolDrops(t)
    \/ Crash \/ Restart

SinksSpec == SinksInit /\ [][SinksNext]_sinkVars

-----------------------------------------------------------------------------
(* What a chain means, from its transactions alone.  Silent are the orders *)
(* and the funding boxes consumed by a transaction with no output left for *)
(* their handler: see FeedsExact.                                          *)

NoState == [ents |-> {}, sneks |-> {}, grads |-> {}, pools |-> {}, ords |-> {}, funds |-> {}, silent |-> {}]

Unspent(states, t) == {s \in states : s.ver \notin Ins(t)}

Gone(states, t) == states \ Unspent(states, t)

AfterEntities(st, t, taken) ==
    LET rest == OutsOf(t, {"snek", "atomic", "fund", "other", "order"}) \ taken
        ords == {i \in rest : Out(t, i).kind = "atomic"}
        consumedSneks == {p \in st.sneks : p[1] \in Ins(t)}
        pools == {Out(t, i).id : i \in OutsOf(t, {"pool"})}
    IN  [ents |-> Unspent(st.ents, t) \cup {Entity(t, i, st.grads) : i \in taken},
         sneks |-> (st.sneks \ consumedSneks) \cup ObservedSneks(t, OutsOf(t, {"snek"})),
         grads |-> st.grads \cup (IF consumedSneks # {} /\ OutsOf(t, {"snek"}) = {} /\ Cardinality(pools) = 1
                                  THEN pools ELSE {}),
         pools |-> st.pools \cup pools,
         ords |-> Unspent(st.ords, t) \cup {Atomic(t, i) : i \in {j \in ords : Out(t, j).pool \in st.pools \cup pools}},
         funds |-> Unspent(st.funds, t)
                   \cup {Fund(t, i) : i \in {j \in OutsOf(t, {"fund"}) : Ref(t, j) # Collateral}},
         silent |-> st.silent \cup (IF rest = {} THEN Gone(st.ords, t) ELSE {})
                              \cup (IF rest \ ords = {} THEN Gone(st.funds, t) ELSE {})]

Meaning(seq) ==
    FoldLeft(LAMBDA st, t : AfterEntities(st, t, Recognized(t, DOMAIN txs[t].outs, Ids(Gone(st.ents, t)))),
             NoState, seq)

-----------------------------------------------------------------------------
(* The record of graduated pools is what the chain makes of it, however    *)
(* blocks were applied and rolled back, and a mempool transaction never    *)
(* enters it.  (Once the ledger stream has caught up, and as long as no    *)
(* crash cut a block short and no replay began in the middle of the life   *)
(* of a Snek pool.)                                                        *)
GraduationExact ==
    hist.up /\ Idle("ledger") /\ ~hist.torn =>
        /\ grad.tracker = Meaning(TxsOn(chain)).sneks
        /\ grad.store = Meaning(TxsOn(chain)).grads

(* A restart at any moment finds on disk what the process had in memory:   *)
(* the store, the tracker and the journal move together.                   *)
DurableExact == hist.up => LoadState(gdb) = grad

(* The states of pools the engine knows carry the right origin: a state    *)
(* made after the pool graduated is graduated, and one of a pool that did  *)
(* not graduate on this chain is not.  (The state made by the graduating   *)
(* transaction itself is graduated only when it is seen again.)            *)
OriginExact ==
    hist.up /\ Idle("ledger") /\ ~hist.torn /\ hist.base = 0 /\ ~hist.missed =>
        \A e \in view.ents : \A m \in Meaning(TxsOn(chain)).ents :
            e.ver = m.ver /\ e.kind = "pool" =>
                (m.grad => e.grad) /\ (e.grad => e.id \in Meaning(TxsOn(chain)).grads)

(* What the engine was told adds up to the chain: the states of orders and *)
(* pools, with their origin, the atomic orders and the funding boxes.      *)
(* Left out are those consumed by a transaction whose outputs were all     *)
(* taken by the handlers before: they are believed to be there for ever.   *)
(* This relies on the shared indexes, which the mempool stream writes too, *)
(* until a transaction spends a state that was already evicted.            *)
ViewExact ==
    /\ OriginExact
    /\ hist.up /\ Idle("ledger") /\ hist.base = 0 /\ ~hist.missed =>
        LET m == Meaning(TxsOn(chain))
            known == Ids(view.ords) \cup Ids(view.funds)
            live == Ids(m.ords) \cup Ids(m.funds)
        IN  /\ {e.ver : e \in view.ents} = {e.ver : e \in m.ents}
            /\ live \subseteq known /\ known \ live \subseteq Ids(m.silent)

(* Every event is handled in the end: the streams never wait for each      *)
(* other.                                                                  *)
EventsHandled == \A s \in Stream : []<>(strm[s].evs = <<>>)

SinksFair == SinksSpec /\ \A s \in Stream : WF_sinkVars(HandlerStep(s))
=============================================================================
