-------------------------------- MODULE DaoBot -------------------------------
(***************************************************************************)
(* The DAO bot (splash-dao-offchain/src/routines/mod.rs) against a node.   *)
(*                                                                         *)
(* node is the environment: the chain (one transaction per block), the     *)
(* mempool, the ledger events on their way to the bot, the clock, and the  *)
(* transaction tracker with the failures it has reported.  bot is the      *)
(* state of the Behaviour: the projections, the funding repository, the    *)
(* order backlog, predicted_tx_backlog, tx_hash_to_dao_order, current_slot *)
(* and whether the process has panicked.                                   *)
(***************************************************************************)
EXTENDS DaoProtocol, SequencesExt

CONSTANTS
    Orders,      \* the orders users may place: a sequence of order records
    MaxFeed,     \* bound on the ledger events in flight
    Genesis,     \* the outputs of the genesis transaction, by entity id
    Budgets      \* scenarios, one is chosen initially: the boundary shift of epochs
                 \* (shift) and the start delay of distribution (start), which
                 \* differ between builds, and bounds on the clock (time),
                 \* transactions (txs), orders, faults, blocks, tracker delay

VARIABLES node, bot, budget

vars == <<node, bot, budget>>

\* A slot number read as a unix timestamp: long before any expiry horizon.
SlotAsTimestamp == -1000

\* current_slot is kept as the time of the slot.
NoSlot == -1

OrderId(k) == <<"order", k>>

IsEntity(id) == id[1] \notin {"fund", "order"}

-----------------------------------------------------------------------------
(* The node. *)
Outs(tx) == {Ref(tx.id, id) : id \in DOMAIN tx.outs}

TxsOf(seq) == {seq[i] : i \in DOMAIN seq}

Unspent(txs) == UNION {Outs(t) : t \in txs} \ UNION {t.ins : t \in txs}

\* What a submitted transaction may spend: the chain and the mempool.
Tip(n) == Unspent(n.chain \cup TxsOf(n.mem))

EmptyTx == [id |-> 0, kind |-> "none", ins |-> {}, outs |-> <<>>, writes |-> <<>>,
            order |-> {}, sel |-> NoFunds]

\* Transactions whose inputs can no longer be provided leave the mempool.
RECURSIVE Prune(_, _)
Prune(chainTxs, mem) ==
    LET avail == Unspent(chainTxs \cup TxsOf(mem)) \cup UNION {t.ins : t \in TxsOf(mem)}
        made  == UNION {Outs(t) : t \in chainTxs \cup TxsOf(mem)}
        ok(t) == t.ins \subseteq made \cap avail
        next  == SelectSeq(mem, ok)
    IN  IF next = mem THEN mem ELSE Prune(chainTxs, next)

-----------------------------------------------------------------------------
(* What the bot reads. *)
IdsUpTo(p, kind, now) == {n \in 0 .. TimeToEpoch(now) : Found(p, <<kind, n>>)}

InflationBoxIds(b, now) == IdsUpTo(b.proj, "ibox", now)

PollFactoryIds(b, now) == IdsUpTo(b.proj, "factory", now)

LiveEpochs(p, S) == {e \in S : Found(p, <<"wpoll", e>>) /\ ~Read(p, <<"wpoll", e>>).val.eliminated}

PollStateAt(p, e, now) == PollState(Read(p, <<"wpoll", e>>).val, e, now, budget.start)

\* read_state: the active epoch, the state of the epoch before it and of the
\* active one, and the polls to eliminate or to pay out.
RoutineState(b, now) ==
    LET e      == ActiveEpoch(Max(InflationBoxIds(b, now)), now, budget.shift)
        wp(x)  == <<"wpoll", x>>
        older  == {x \in LiveEpochs(b.proj, 0 .. e - 2) : PollStateAt(b.proj, x, now) = "distribution"}
        ready  == {x \in LiveEpochs(b.proj, 0 .. e - 1) : PollStateAt(b.proj, x, now) = "ready_to_eliminate"}
        poll(x) == IF ~Found(b.proj, wp(x)) THEN "none"
                   ELSE IF Read(b.proj, wp(x)).val.eliminated THEN "eliminated"
                   ELSE PollStateAt(b.proj, x, now)
    IN  [epoch |-> e,
         ready |-> ready,
         prev  |-> IF e = 0 THEN "none" ELSE IF older # {} THEN "distribution" ELSE poll(e - 1),
         paid  |-> IF older # {} THEN Min(older) ELSE e - 1,
         cur   |-> poll(e)]

\* The unreachable! arms of read_state and attempt.
StatePanics(st) ==
    \/ st.prev = "weighting"
    \/ st.cur \in {"distribution", "ready_to_eliminate", "eliminated"}

-----------------------------------------------------------------------------
(***************************************************************************)
(* Submitting.  s is a pair [bot, node]; each Try operator gives the set   *)
(* of pairs the code can end in.                                           *)
(***************************************************************************)
WriteAll(p, states) == FoldSet(LAMBDA id, q : Write(q, id, states[id]), p, DOMAIN states)

\* submit_tx answered Ok: the predicted transaction, its entities and its
\* funding boxes are recorded.
Accepted(s, built) ==
    LET id  == s.node.next
        sel == [built.sel EXCEPT !.made = IF Change \in DOMAIN built.outs
                                          THEN {Ref(id, Change)} ELSE {}]
        tx  == [id |-> id, kind |-> built.kind, ins |-> built.ins, outs |-> built.outs,
                writes |-> built.writes, order |-> built.order, sel |-> sel]
        st(x)  == Traced("predicted", x, id, 0, tx.writes[x], tx.outs[x])
        proj   == WriteAll(s.bot.proj, [x \in DOMAIN tx.writes |-> st(x)])
        gone(e) == Orders[e.ord].ve
        redeemed(e) == [Read(proj, gone(e)) EXCEPT !.mod = "predicted", !.val.redeemed = TRUE]
    IN  [errs |-> s.errs,
         bot  |-> [s.bot EXCEPT
                     !.ptx = @ \cup {tx},
                     !.proj = IF tx.kind = "redeem"
                              THEN FoldSet(LAMBDA e, q : Write(q, gone(e), redeemed(e)), proj, tx.order)
                              ELSE proj,
                     !.fund = ApplyChanges(@, sel),
                     !.panic = @ \/ ChangesPanic(s.bot.fund, sel)],
         node |-> [s.node EXCEPT
                     !.mem = Append(@, tx),
                     !.next = @ + 1,
                     !.tracked = Append(@, [id |-> id, left |-> s.node.delay])]]

\* Ok, bad or missing inputs, or any other rejection (errs bounds those).
Submit(s, tx, bad, other, errs) ==
    IF tx.ins \subseteq Tip(s.node)
    THEN {Accepted(s, tx)} \cup (IF errs > 0 THEN {[s EXCEPT !.bot = other, !.errs = @ - 1]} ELSE {})
    ELSE {[s EXCEPT !.bot = bad]}

\* The three actions paid from funding boxes: nothing changes on a rejection.
SubmitFunded(s, tx) ==
    UNION {Submit(s, Funded(tx, sel), s.bot, s.bot, s.errs) : sel \in Selections(s.bot.fund)}
        \cup (IF Selections(s.bot.fund) = {} THEN {s} ELSE {})

TryCreateWPoll(s, ibox, factory) ==
    IF /\ s.bot.slot # NoSlot
       /\ Read(s.bot.proj, ibox).mod = "confirmed"
       /\ Read(s.bot.proj, factory).mod = "confirmed"
    THEN SubmitFunded(s, CreateWPoll(s.bot.proj, ibox, factory))
    ELSE {s}

TryDistributeInflation(s, wp) ==
    IF s.bot.slot # NoSlot
    THEN SubmitFunded(s, DistributeInflation(s.bot.proj, wp, NextFarm(Read(s.bot.proj, wp).val)))
    ELSE {s}

\* The poll must be confirmed, and past its cool-down at the current slot.
TryEliminatePoll(s, wp) ==
    IF /\ s.bot.slot # NoSlot
       /\ Read(s.bot.proj, wp).mod = "confirmed"
       /\ CanBeEliminated(Read(s.bot.proj, wp).val, wp[2], s.bot.slot)
    THEN SubmitFunded(s, EliminateWPoll(s.bot.proj, wp))
    ELSE {s}

\* An order's transaction: suspended on bad inputs, discarded on any other
\* rejection and when the action finds the order inadmissible.
SubmitOrder(s, e, admissible, tx) ==
    LET drop == [s.bot EXCEPT !.back = BacklogRemove(@, e.ord)]
        hold == [s.bot EXCEPT !.back = BacklogSuspend(@, e.ord)]
    IN  IF s.bot.slot = NoSlot THEN {s}
        ELSE IF ~admissible THEN {[s EXCEPT !.bot = drop]}
        ELSE Submit(s, [tx EXCEPT !.order = {e}], hold, drop, s.errs)

OrderRef(e) == Ref(e.tx, OrderId(e.ord))

TryApplyVotes(s, e, o, ve, wp) ==
    SubmitOrder(s, e, VoteAdmissible(o, ve, wp[2]), ExecuteOrder(s.bot.proj, wp, o, OrderRef(e)))

TryMakeVotingEscrow(s, e, o) ==
    SubmitOrder(s, e, TRUE, MakeVotingEscrow(s.bot.proj, o, OrderRef(e)))

TryExtendVotingEscrow(s, e, o, ve) ==
    SubmitOrder(s, e, ExtendAdmissible(o, ve), ExtendVotingEscrow(s.bot.proj, o, OrderRef(e)))

TryRedeemVotingEscrow(s, e, o, ve, now) ==
    SubmitOrder(s, e, RedeemAdmissible(o, ve, now), RedeemVotingEscrow(s.bot.proj, o, OrderRef(e)))

\* An order whose voting escrow is unknown, or has another version, is passed
\* over by next_order.
TryOrder(s, e, wp, now) ==
    LET o       == Orders[e.ord]
        ve      == Read(s.bot.proj, o.ve).val
        current == Found(s.bot.proj, o.ve) /\ ve.version = o.version
    IN  CASE o.kind = "make" -> TryMakeVotingEscrow(s, e, o)
          [] o.kind = "vote" /\ current -> TryApplyVotes(s, e, o, ve, wp)
          [] o.kind = "extend" /\ current -> TryExtendVotingEscrow(s, e, o, ve)
          [] o.kind = "redeem" /\ current -> TryRedeemVotingEscrow(s, e, o, ve, now)
          [] OTHER -> {s}

\* The order popped while the state is read: it is off the queues from here on,
\* whatever the attempt then does.
PoppedOrders(s, st, now) ==
    IF st.cur = "weighting"
    THEN {[hit |-> d.hit, s |-> [s EXCEPT !.bot.back = d.backlog]] : d \in Pops(s.bot.back, now, Lifespan)}
    ELSE {[hit |-> {}, s |-> s]}

CurrentEpochStep(s, st, hit, now) ==
    CASE st.cur = "none" ->
             TryCreateWPoll(s, <<"ibox", Max(InflationBoxIds(s.bot, now))>>,
                               <<"factory", Max(PollFactoryIds(s.bot, now))>>)
      [] st.cur = "weighting" /\ hit # {} ->
             UNION {TryOrder(s, e, <<"wpoll", st.epoch>>, now) : e \in hit}
      [] OTHER -> {s}

PreviousEpochStep(s, st, hit, now) ==
    CASE st.prev = "distribution" -> TryDistributeInflation(s, <<"wpoll", st.paid>>)
      [] st.prev = "ready_to_eliminate" -> TryEliminatePoll(s, <<"wpoll", st.epoch - 1>>)
      [] OTHER -> CurrentEpochStep(s, st, hit, now)

\* attempt: eliminate the latest poll that can be, then work for the previous
\* epoch or, when it needs nothing, for the current one.
Attempts(s, now) ==
    IF InflationBoxIds(s.bot, now) = {} \/ PollFactoryIds(s.bot, now) = {} THEN {s}
    ELSE LET st == RoutineState(s.bot, now)
         IN  IF StatePanics(st)
             THEN {[s EXCEPT !.bot.panic = TRUE, !.bot.early = st.cur = "distribution"]}
             ELSE UNION {UNION {PreviousEpochStep(s1, st, d.hit, now) :
                                  s1 \in IF st.ready # {}
                                          THEN TryEliminatePoll(d.s, <<"wpoll", Max(st.ready)>>)
                                          ELSE {d.s}} :
                           d \in PoppedOrders(s, st, now)}

-----------------------------------------------------------------------------
(* process_ledger_event. *)
SpentOrders(b, tx) == {k \in DOMAIN b.back.store : \E r \in tx.ins : r[2] = OrderId(k)}

SpentEscrows(b, tx) ==
    {r \in tx.ins : r[2][1] = "ve" /\ HasIdOf(b.proj, r[2], <<r[1], 0>>) /\ Found(b.proj, r[2])}

\* The poll of a processed epoch whose latest known output is among refs.
PollsAmong(b, refs, now) ==
    {e \in UNION {0 .. n - 1 : n \in {x \in InflationBoxIds(b, now) : x = Max(InflationBoxIds(b, now))}} :
        /\ Found(b.proj, <<"wpoll", e>>)
        /\ OutputRefOf(<<"wpoll", e>>, Read(b.proj, <<"wpoll", e>>).ver) \in refs}

\* assert_eq! on the version of a spent voting escrow.
EscrowAssertFails(b, r) ==
    LET st == Read(b.proj, r[2])
    IN  /\ st.ver # <<r[1], 0>>
        /\ st.mod = "confirmed" \/ st.val.redeemed

\* confirm_entity: boxes and factories carry no back link, every other entity
\* links to whatever version was latest.
ConfirmedState(b, tx, id, slot) ==
    Traced("confirmed", id, tx.id, slot,
           IF id[1] \in {"ibox", "factory"} \/ ~Found(b.proj, id) THEN NoVer ELSE Read(b.proj, id).ver,
           tx.outs[id])

OrderOutputs(tx) == {id \in DOMAIN tx.outs : id[1] = "order"}

\* at is the time of the block, ts the clock when the bot handles the event.
PlacedEntry(tx, k, ev, now) ==
    [ord |-> k, slot |-> ev.slot, ts |-> now, at |-> ev.time, tx |-> tx.id]

ConfirmOrders(b, tx, ev, now) ==
    FoldSet(LAMBDA id, q : BacklogPut(q, PlacedEntry(tx, id[2], ev, now)), b.back, OrderOutputs(tx))

\* Mutant: the mark is not written back.
SetEliminatedUnsaved(p, e, flag) == p

SetEliminated(p, e, flag) ==
    LET st == Read(p, <<"wpoll", e>>)
    IN  Write(p, <<"wpoll", e>>, [st EXCEPT !.mod = "confirmed", !.val.eliminated = flag])

SetRedeemed(p, id, flag) ==
    LET st == Read(p, id)
    IN  Write(p, id, [st EXCEPT !.mod = "confirmed", !.val.redeemed = flag])

\* A make order that is past its lock time ends the handler.
EndsHandler(tx, now) ==
    \E id \in DOMAIN tx.outs : id[1] = "order" /\ Orders[id[2]].kind = "make" /\ now > Orders[id[2]].until

TxApplied(b, ev, now) ==
    LET tx     == ev.tx
        spent  == SpentOrders(b, tx)
        ves    == SpentEscrows(b, tx)
        gone   == {e \in PollsAmong(b, tx.ins, now) : <<"wpoll", e>> \notin DOMAIN tx.outs}
        inputs == [b EXCEPT
                     !.slot = ev.time,
                     !.ptx = {t \in @ : t.id # tx.id},
                     !.fund = FoldSet(LAMBDA r, f : SpendConfirmed(f, r), @, tx.ins),
                     !.panic = @ \/ \E r \in ves : EscrowAssertFails(b, r)]
        st(id) == ConfirmedState(b, tx, id, ev.slot)
        written == WriteAll(b.proj, [id \in {x \in DOMAIN tx.outs : IsEntity(x)} |-> st(id)])
        redeemed == {r \in ves : spent = {} /\ \A id \in DOMAIN tx.outs : id[1] # "ve"}
    IN  IF EndsHandler(tx, now) THEN inputs
        ELSE [inputs EXCEPT
                !.proj = FoldSet(LAMBDA e, p : SetEliminated(p, e, TRUE),
                                 FoldSet(LAMBDA r, p : SetRedeemed(p, r[2], TRUE), written, redeemed), gone),
                !.fund = FoldSet(LAMBDA id, f : PutConfirmed(f, Ref(tx.id, id)), @,
                                 {id \in DOMAIN tx.outs : id[1] = "fund"}),
                !.back = FoldSet(LAMBDA k, q : BacklogRemove(q, k),
                                 ConfirmOrders(b, tx, ev, now), spent),
                !.orderOf = @ \cup {PlacedEntry(tx, id[2], ev, now) : id \in OrderOutputs(tx)}]

\* TxUnapplied: what the handler takes for the inputs are the references of
\* the transaction's own outputs (OutputRef::new(hash, ix)), except for the
\* funding boxes; every transaction has enough inputs to cover them all.
TxUnapplied(b, ev, now) ==
    LET tx    == ev.tx
        ids   == DOMAIN tx.outs
        ver(id) == VersionOf(id, tx.id, ev.slot)
        back  == {e \in b.orderOf : OrderId(e.ord) \in ids /\ e.slot = ev.slot}
        ves   == {id \in ids : id[1] = "ve" /\ HasIdOf(b.proj, id, ver(id)) /\ Found(b.proj, id)}
        polls == PollsAmong(b, Outs(tx), now)
        drop  == {id \in ids : /\ IsEntity(id) /\ HasIdOf(b.proj, id, ver(id))
                               /\ id[1] = "wpoll" => id[2] \in polls}
        undo  == {e \in polls : <<"wpoll", e>> \notin drop}
        put   == FoldSet(LAMBDA e, q : BacklogPut(q, e), b.back, back)
    IN  [b EXCEPT
           !.slot = NoSlot,
           !.proj = FoldSet(LAMBDA e, p : SetEliminated(p, e, FALSE),
                            FoldSet(LAMBDA id, p : RemoveLatest(p, id), @, drop), undo),
           !.fund = FoldSet(LAMBDA r, f : EliminateConfirmed(f, r),
                            FoldSet(LAMBDA r, f : UnspendConfirmed(f, r), @, tx.ins), Outs(tx)),
           !.back = FoldSet(LAMBDA id, q : BacklogRemove(q, id[2]), put, OrderOutputs(tx)),
           !.panic = \/ @
                     \/ \E id \in ves : Read(b.proj, id).ver # ver(id)
                     \/ \E id \in drop : RemovePanics(b.proj, id)]

-----------------------------------------------------------------------------
(* revert_bot_action. *)
RevertedEntities(tx) ==
    CASE tx.kind \in {"create", "distribute", "vote"} -> DOMAIN tx.writes
      [] tx.kind \in {"make", "extend"} -> {id \in DOMAIN tx.writes : id[1] = "ve"}
      [] OTHER -> {}

\* The timestamp the order goes back with.
RevertedEntry(tx, e) ==
    [e EXCEPT !.ts = IF tx.kind = "vote" THEN SlotAsTimestamp ELSE e.at]

RevertBotAction(b, tx) ==
    LET ids   == RevertedEntities(tx)
        rest  == FoldSet(LAMBDA id, p : RemoveLatest(p, id), b.proj, ids)
        poll  == {r[2] : r \in {x \in tx.ins : tx.kind = "eliminate" /\ x[2][1] = "wpoll"}}
        ve    == {Orders[e.ord].ve : e \in {x \in tx.order : tx.kind = "redeem"}}
    IN  [b EXCEPT
           !.ptx = @ \ {tx},
           !.proj = FoldSet(LAMBDA id, p : SetRedeemed(p, id, FALSE),
                            FoldSet(LAMBDA id, p : SetEliminated(p, id[2], FALSE), rest, poll), ve),
           !.fund = RevertChanges(@, tx.sel),
           !.back = FoldSet(LAMBDA e, q : BacklogPut(q, RevertedEntry(tx, e)), @, tx.order),
           !.orderOf = {e \in @ : tx.kind = "redeem" \/
                                  \A x \in tx.order : x.ord # e.ord \/ x.slot # e.slot},
           !.panic = \/ @
                     \/ RevertPanics(b.fund, tx.sel)
                     \/ \E id \in ids : RemovePanics(b.proj, id)
                     \/ \E id \in poll \cup ve : ~Found(b.proj, id)]

-----------------------------------------------------------------------------
(* Steps. *)
GenesisTx == [EmptyTx EXCEPT !.kind = "genesis", !.outs = Genesis]

Init ==
    /\ budget \in Budgets
    /\ node = [chain |-> {GenesisTx}, top |-> <<>>, undone |-> <<>>, mem |-> <<>>, feed |-> <<>>,
               now |-> 0, next |-> 1, tracked |-> <<>>, failed |-> <<>>, delay |-> budget.delay,
               missed |-> FALSE, overtaken |-> FALSE]
    /\ bot = TxApplied([proj |-> EmptyProjection, fund |-> EmptyFunding, back |-> EmptyBacklog,
                         ptx |-> {}, orderOf |-> {}, slot |-> NoSlot, panic |-> FALSE, early |-> FALSE],
                        [applied |-> TRUE, tx |-> GenesisTx, slot |-> 1, time |-> 0], 0)

\* A round of the main loop that reaches attempt.
Attempt ==
    /\ ~bot.panic
    /\ node.next < budget.txs
    /\ \E s \in Attempts([bot |-> bot, node |-> node, errs |-> budget.errs], node.now) :
          /\ bot' = s.bot /\ node' = s.node
          /\ budget' = [budget EXCEPT !.errs = s.errs]

\* The next ledger event of the upstream.
ProcessLedgerEvent ==
    /\ ~bot.panic /\ node.feed # <<>>
    /\ LET ev == Head(node.feed)
       IN  bot' = IF ev.applied THEN TxApplied(bot, ev, node.now) ELSE TxUnapplied(bot, ev, node.now)
    /\ node' = [node EXCEPT !.feed = Tail(@)]
    /\ UNCHANGED budget

\* The predictions of tx are all still the latest versions.
StillLatest(b, tx) ==
    \A id \in DOMAIN tx.writes : Found(b.proj, id) /\ Read(b.proj, id).ver[1] = tx.id

\* The next transaction the tracker gave up; unknown ones are ignored.
ProcessFailedTx ==
    /\ ~bot.panic /\ node.failed # <<>>
    /\ LET txs == {t \in bot.ptx : t.id = Head(node.failed)}
       IN  /\ bot' = FoldSet(LAMBDA t, b : RevertBotAction(b, t), bot, txs)
           /\ node' = [node EXCEPT !.failed = Tail(@),
                                   !.overtaken = @ \/ \E t \in txs : ~StillLatest(bot, t)]
    /\ UNCHANGED budget

\* The bot restarts: queues, tracker and current slot were only in memory, and
\* so were the first n events in flight, which had been read from the node: the
\* tip the chain sync resumes from is moved before an event is handed on.
Restart ==
    /\ budget.restarts > 0
    /\ bot' = [bot EXCEPT !.back = BacklogReload(@), !.slot = NoSlot,
                          !.panic = FALSE, !.early = FALSE]
    /\ \E n \in 0 .. Len(node.feed) :
          node' = [node EXCEPT !.feed = SubSeq(@, n + 1, Len(@)),
                               !.missed = @ \/ n > 0,
                               !.tracked = <<>>, !.failed = <<>>]
    /\ budget' = [budget EXCEPT !.restarts = @ - 1]

\* A block with one transaction of the mempool, or with none of interest.  The
\* tracker confirms it and then reports the ones whose time is up, the last
\* submitted first; a transaction given up is past its time to live.
SlotOf(tx) ==
    IF tx.kind = "place" THEN 1 + Cardinality({t \in node.chain : t.kind = "place"})
    ELSE 1 + Len(SelectSeq(node.undone, LAMBDA id : id = tx.id))

Block(tx) ==
    LET block   == [applied |-> TRUE, tx |-> tx, slot |-> SlotOf(tx), time |-> node.now]
        live    == SelectSeq(node.tracked, LAMBDA r : r.id # tx.id)
        over    == SelectSeq(live, LAMBDA r : r.left = 1)
        ids     == [i \in DOMAIN over |-> over[i].id]
        waiting == SelectSeq(live, LAMBDA r : r.left > 1)
        keep(t) == t.id # tx.id /\ \A i \in DOMAIN ids : t.id # ids[i]
        chain   == IF tx = EmptyTx THEN node.chain ELSE node.chain \cup {tx}
    IN  /\ Len(node.feed) < MaxFeed
        /\ node' = [node EXCEPT
                      !.chain = chain,
                      !.top = IF budget.rollbacks > 0 THEN <<block>> ELSE <<>>,
                      !.feed = Append(@, block),
                      !.mem = Prune(chain, SelectSeq(@, keep)),
                      !.tracked = [i \in DOMAIN waiting |-> [waiting[i] EXCEPT !.left = @ - 1]],
                      !.failed = @ \o Reverse(ids)]

ProduceBlock ==
    \E tx \in {t \in TxsOf(node.mem) : t.ins \subseteq Unspent(node.chain)} :
        Block(tx) /\ UNCHANGED <<bot, budget>>

OtherBlock ==
    /\ budget.blocks > 0 /\ (node.tracked # <<>> \/ bot.slot # node.now)
    /\ Block(EmptyTx)
    /\ UNCHANGED bot
    /\ budget' = [budget EXCEPT !.blocks = @ - 1]

\* A transaction silently leaves the mempool, and those that need it.
DropTx ==
    /\ budget.drops > 0
    /\ \E i \in DOMAIN node.mem :
          node' = [node EXCEPT !.mem = Prune(node.chain, RemoveAt(@, i))]
    /\ budget' = [budget EXCEPT !.drops = @ - 1]
    /\ UNCHANGED bot

\* The last block is rolled back; its transaction returns to the mempool.
RollBack ==
    /\ budget.rollbacks > 0 /\ node.top # <<>>
    /\ LET b == Head(node.top)
       IN  node' = [node EXCEPT
                      !.chain = @ \ {b.tx}, !.top = <<>>, !.undone = Append(@, b.tx.id),
                      !.feed = Append(@, [b EXCEPT !.applied = FALSE]),
                      !.mem = IF b.tx = EmptyTx THEN @ ELSE <<b.tx>> \o @]
    /\ budget' = [budget EXCEPT !.rollbacks = @ - 1]
    /\ UNCHANGED bot

UserTx(kind, ins, outs) ==
    /\ node.next < budget.txs
    /\ node' = [node EXCEPT !.next = @ + 1,
                            !.mem = Append(@, [EmptyTx EXCEPT !.id = node.next, !.kind = kind,
                                                              !.ins = ins, !.outs = outs])]

PlaceOrder ==
    \E k \in budget.orders :
        /\ UserTx("place", {}, OrderId(k) :> Nothing)
        /\ budget' = [budget EXCEPT !.orders = @ \ {k}]
        /\ UNCHANGED bot

RefundOrder ==
    \E r \in Tip(node) :
        /\ r[2][1] = "order" /\ budget.refunds > 0
        /\ UserTx("refund", {r}, <<>>)
        /\ budget' = [budget EXCEPT !.refunds = @ - 1]
        /\ UNCHANGED bot

Tick ==
    /\ node.now < budget.time
    /\ node' = [node EXCEPT !.now = @ + 1]
    /\ UNCHANGED <<bot, budget>>

Next ==
    \/ Attempt \/ ProcessLedgerEvent \/ ProcessFailedTx \/ Restart
    \/ ProduceBlock \/ OtherBlock \/ DropTx \/ RollBack
    \/ PlaceOrder \/ RefundOrder \/ Tick

Spec == Init /\ [][Next]_vars

-----------------------------------------------------------------------------
(* Properties. *)

\* No block, event or report is on its way and no transaction is pending.
Quiet ==
    /\ node.feed = <<>> /\ node.failed = <<>> /\ node.mem = <<>> /\ bot.ptx = {}

OnChain(kinds) == {r \in Unspent(node.chain) : r[2][1] \in kinds}

EntityKinds == {"ibox", "factory", "wpoll", "farm", "ve", "vefactory"}

\* Predictions that are still the latest version of an entity in use.
Predictions ==
    {id \in DOMAIN bot.proj.latest :
        /\ Found(bot.proj, id) /\ Read(bot.proj, id).mod = "predicted"
        /\ id[1] = "ve" => ~Read(bot.proj, id).val.redeemed}

\* None of the unreachable! arms of read_state and of the asserts and unwraps of
\* process_ledger_event, revert_bot_action and the funding repository fires, also
\* when transactions are lost, as long as no ledger event is; but for one: where
\* the boundary shift exceeds the start delay, as in the production build and not
\* in the test build, the poll of the epoch that is still active can be in
\* distribution already, and read_state is at its unreachable! "Impossible to
\* distribute inflation on current epoch".
DaoNoPanic == ~node.missed /\ bot.panic => bot.early /\ budget.shift > budget.start

\* What revert_bot_action leaves as predicted: the voting escrow factory.
NotReverted == IF budget.lossy THEN {VEFactory} ELSE {}

\* What confirm_entity, write_predicted and remove leave in the projections: once
\* all is quiet the bot reads, for every entity on the chain, exactly the
\* output that is on the chain, and nothing it predicted is left; a poll that is
\* not on the chain any more is marked eliminated.  Through reordered
\* predictions and confirmations, a rollback, a restart that misses no event,
\* and transactions given up, alone or with those that spend their outputs, as
\* long as each is reverted while its predictions are the latest versions.  The
\* funding repository, through spend, unspend and eliminate, never forgets a box
\* of the operator either way, and holds no other box.
ViewExact ==
    /\ Quiet /\ ~node.missed => OnChain({"fund"}) \subseteq bot.fund.ca \cup bot.fund.pa
    /\ Quiet /\ ~node.missed /\ ~node.overtaken =>
        /\ bot.fund.ca \cup bot.fund.pa \subseteq OnChain({"fund"})
        /\ Predictions \subseteq NotReverted
        /\ \A r \in OnChain(EntityKinds) : r[2] \notin NotReverted =>
              Found(bot.proj, r[2]) /\ OutputRefOf(r[2], Read(bot.proj, r[2]).ver) = r
        /\ \A id \in DOMAIN bot.proj.latest :
              id[1] = "wpoll" /\ Found(bot.proj, id) =>
                  (Read(bot.proj, id).val.eliminated <=> \A r \in OnChain({"wpoll"}) : r[2] # id)

\* revert_bot_action: reverting a transaction whose predictions are all still latest puts every
\* entity back to the version the transaction was built from (the voting
\* escrow factory excepted, which the code leaves as predicted).
RevertStep ==
    \A t \in bot.ptx :
        /\ t \notin bot'.ptx /\ node'.failed = Tail(node.failed) /\ node.failed # <<>>
        /\ StillLatest(bot, t)
        => \A id \in DOMAIN t.writes \ {VEFactory} :
              IF t.writes[id] = NoVer THEN ~Found(bot'.proj, id)
              ELSE Found(bot'.proj, id) /\ bot'.proj.latest[id] = t.writes[id]

\* Every report of the tracker is handled so.
RevertExact == [][ProcessFailedTx => RevertStep]_vars

\* Everything is quiet, a block has told the bot the time and no run of attempt
\* changes anything any more.
AtRest ==
    /\ Quiet /\ bot.slot = node.now /\ ~bot.panic
    /\ \A s \in Attempts([bot |-> bot, node |-> node, errs |-> budget.errs], node.now) :
          s.bot = bot /\ s.node = node

Voted == \E t \in node.chain : t.kind = "vote" /\ <<"wpoll", 0>> \in DOMAIN t.outs

\* attempt never comes to rest on unfinished business: once the clock is past the
\* last deadline of epoch 0, the votes cast in it have been paid out to the farms
\* and the exhausted poll has been eliminated; also after a restart, unless
\* ledger events were lost with it.
NothingUnfinished ==
    AtRest /\ ~budget.lossy /\ ~node.missed /\ node.now > EpochEnd(0) + Max({Cooldown, budget.start}) =>
        /\ Voted => \E t \in node.chain : t.kind = "distribute"
        /\ \A r \in OnChain({"wpoll"}) : r[2] # <<"wpoll", 0>>
=============================================================================
