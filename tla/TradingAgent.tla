---------------------------- MODULE TradingAgent ----------------------------
(***************************************************************************)
(* The execution engine connected to a node: the agent's transactions and  *)
(* those of others enter the mempool, get confirmed, dropped or rolled     *)
(* back, and each of these is reported on the ledger stream or on the      *)
(* mempool stream.  Each stream keeps its order; nothing orders one        *)
(* against the other (bloom-cardano-agent, main.rs: two event sources feed *)
(* the handlers of one pair, and the funding handlers a separate stream).  *)
(*                                                                         *)
(* A transaction is the set of outputs it spends and the set it makes; the *)
(* states of an entity s are <<s, 0>>, <<s, 1>>, ... in the order they are *)
(* made.                                                                   *)
(***************************************************************************)
EXTENDS Executor

CONSTANT
    Scenarios       \* what may happen in a behaviour: see Init

VARIABLES
    chain,      \* confirmed transactions, in order
    mem,        \* transactions in the mempool, in the order they entered
    events,     \* [Channels -> Seq]: events on the way to the engine
    fundEvents, \* [Channels -> Seq]: funding events on the way
    rolling,    \* rollback_in_progress
    made,       \* [Sid -> Nat]: states of each entity made so far
    lost,       \* orders taken out of the book as potentially poisonous
    budget      \* the scenario, and what is left of its bounds

nodeVars == <<chain, mem, events, fundEvents, rolling, made, lost, budget>>
vars == <<execVars, nodeVars>>

Channels == {Ledger, Mempool}

Ins(txs) == UNION {txs[i].ins : i \in DOMAIN txs}
Outs(txs) == UNION {txs[i].outs : i \in DOMAIN txs}
Unspent(txs) == Outs(txs) \ Ins(txs)
Tip == Unspent(chain \o mem)

StateOf(outputs, s) ==
    IF \E v \in outputs \cap Version : SidOf[v] = s
    THEN CHOOSE v \in outputs \cap Version : SidOf[v] = s
    ELSE NoVersion

(* What the handlers make of a transaction: one event per entity, per      *)
(* specialized order and per funding box it touches.                       *)
EntityEvents(tx, dir) ==
    LET before == IF dir = "forward" THEN tx.ins ELSE tx.outs
        after == IF dir = "forward" THEN tx.outs ELSE tx.ins
        touched == {SidOf[v] : v \in (before \cup after) \cap Version}
    IN SetToSeq({[type |-> "entity", dir |-> dir,
                  tr |-> Both(StateOf(before, s), StateOf(after, s))] :
                     s \in touched})
       \o SetToSeq({[type |-> "order", created |-> FALSE, ord |-> o] :
                       o \in before \cap Order})
       \o SetToSeq({[type |-> "order", created |-> TRUE, ord |-> o] :
                       o \in after \cap Order})

FundingEvents(tx, dir) ==
    LET before == IF dir = "forward" THEN tx.ins ELSE tx.outs
        after == IF dir = "forward" THEN tx.outs ELSE tx.ins
    IN SetToSeq({[produced |-> FALSE, ref |-> f] : f \in before \cap Funding})
       \o SetToSeq({[produced |-> TRUE, ref |-> f] : f \in after \cap Funding})

Report(ch, tx, dir) ==
    /\ events' = [events EXCEPT ![ch] = @ \o EntityEvents(tx, dir)]
    /\ fundEvents' = [fundEvents EXCEPT ![ch] = @ \o FundingEvents(tx, dir)]

NextState(s) == <<s, made[s]>>
Spare(s) == made[s] <= budget.maxVer[s]
Count(outs) ==
    made' = [s \in Sid |->
                IF \E v \in outs \cap Version : SidOf[v] = s
                THEN made[s] + 1 ELSE made[s]]

-----------------------------------------------------------------------------
(* The node.                                                               *)

Other(ins, outs) == [ins |-> ins, outs |-> outs, own |-> FALSE]

Enter(tx) ==
    /\ mem' = Append(mem, tx)
    /\ Count(tx.outs)
    /\ Report(Mempool, tx, "forward")
    /\ UNCHANGED <<chain, rolling, lost>>

(* Someone places an order, cancels one, or trades with a pool. *)
External ==
    /\ budget.external > 0
    /\ budget' = [budget EXCEPT !.external = @ - 1]
    /\ \/ \E s \in Orders : made[s] = 0 /\ Enter(Other({}, {<<s, 0>>}))
       \/ \E s \in Orders : LET v == StateOf(Tip, s)
                            IN v # NoVersion /\ Enter(Other({v}, {}))
       \/ \E s \in QuasiPermanent :
             LET v == StateOf(Tip, s)
             IN v # NoVersion /\ Spare(s)
                /\ Enter(Other({v}, {NextState(s)}))
       \/ \E o \in budget.orders \ Outs(chain \o mem) :
             Enter(Other({}, {o}))
    /\ UNCHANGED execVars

Confirm ==
    \E i \in DOMAIN mem :
        /\ ~rolling
        /\ mem[i].ins \subseteq Unspent(chain)
        /\ chain' = Append(chain, mem[i])
        /\ mem' = RemoveAt(mem, i)
        /\ Report(Ledger, mem[i], "forward")
        /\ UNCHANGED <<execVars, rolling, made, lost, budget>>

(* A transaction nothing in the mempool depends on is dropped. *)
Drop ==
    \E i \in DOMAIN mem :
        /\ budget.drops > 0
        /\ budget' = [budget EXCEPT !.drops = @ - 1]
        /\ \A j \in DOMAIN mem : mem[j].ins \cap mem[i].outs = {}
        /\ mem' = RemoveAt(mem, i)
        /\ Report(Mempool, mem[i], "backward")
        /\ UNCHANGED <<execVars, chain, rolling, made, lost>>

(* The last confirmed transaction returns to the mempool. *)
Rollback ==
    /\ budget.rollbacks > 0
    /\ Len(chain) > 1
    /\ budget' = [budget EXCEPT !.rollbacks = @ - 1]
    /\ chain' = Front(chain)
    /\ mem' = <<Last(chain)>> \o mem
    /\ rolling' = TRUE
    /\ Report(Ledger, Last(chain), "backward")
    /\ UNCHANGED <<execVars, made, lost>>

RollbackEnds ==
    /\ rolling
    /\ rolling' = FALSE
    /\ UNCHANGED <<execVars, chain, mem, events, fundEvents, made, lost, budget>>

-----------------------------------------------------------------------------
(* The engine at work.                                                     *)

TxOf(p) ==
    IF p.kind = "book"
    THEN [ins |-> p.ins \cup ({p.fin} \ {NoFunding}),
          outs |-> ({e.new : e \in p.effs} \ {NoVersion})
                       \cup ({p.fout} \ {NoFunding}),
          own |-> TRUE]
    ELSE [ins |-> p.ins, outs |-> {p.pool}, own |-> TRUE]

Accept ==
    /\ ~Free /\ fate = NoFate
    /\ TxOf(pending).ins \subseteq Tip
    /\ Submitted(Ok)
    /\ Enter(TxOf(pending))
    /\ UNCHANGED budget

Reject ==
    /\ ~Free /\ fate = NoFate
    /\ LET gone == TxOf(pending).ins \ Tip
       IN gone # {} /\ Submitted(MissingInputs(gone))
    /\ UNCHANGED nodeVars

RejectUnknown ==
    /\ budget.unknown > 0
    /\ Submitted(UnknownError)
    /\ budget' = [budget EXCEPT !.unknown = @ - 1]
    /\ lost' = lost \cup (IF pending.kind = "book"
                          THEN {t.sid : t \in pending.takers} ELSE {})
    /\ UNCHANGED <<chain, mem, events, fundEvents, rolling, made>>

Feedback == (TxAccepted \/ TxRejected) /\ UNCHANGED nodeVars

DeliverTo(ch, e) ==
    \/ e.type = "entity" /\ OnEntityEvent(ch, [dir |-> e.dir, tr |-> e.tr])
    \/ e.type = "order" /\ e.created /\ OnOrderCreated(e.ord)
    \/ e.type = "order" /\ ~e.created /\ OnOrderEliminated(ch, e.ord)

DeliverEvent ==
    \E ch \in Channels :
        /\ events[ch] # <<>>
        /\ DeliverTo(ch, Head(events[ch]))
        /\ events' = [events EXCEPT ![ch] = Tail(@)]
        /\ UNCHANGED <<chain, mem, fundEvents, rolling, made, lost, budget>>

DeliverFunding ==
    \E ch \in Channels :
        /\ fundEvents[ch] # <<>>
        /\ OnFundingEvent(Head(fundEvents[ch]))
        /\ fundEvents' = [fundEvents EXCEPT ![ch] = Tail(@)]
        /\ UNCHANGED <<chain, mem, events, rolling, made, lost, budget>>

NewBoxes == budget.boxes \ Outs(chain \o mem)

Matchmake ==
    /\ ~rolling
    /\ \/ \E r \in Recipes, f \in funds, io \in budget.ioKinds :
             \E D \in SUBSET {t.sid : t \in r.takers},
                g \in IF io = "NotUsed" THEN {NoFunding} ELSE NewBoxes :
                /\ \A s \in Fragments(r) \ D : Spare(s)
                /\ ExecuteRecipe(r, [s \in Fragments(r) |->
                       IF s \in D THEN NoVersion ELSE NextState(s)], f, io, g)
       \/ \E o \in Order : Spare(PoolRef[o])
                           /\ ExecuteBacklog(o, NextState(PoolRef[o]))
       \/ ExecuteNothing
    /\ UNCHANGED nodeVars

-----------------------------------------------------------------------------

Genesis(sc) ==
    Other({}, {<<s, 0>> : s \in QuasiPermanent \cup sc.atGenesis}
                  \cup {CHOOSE f \in sc.boxes : TRUE})

(* A scenario fixes the orders on the ledger from the beginning, the       *)
(* specialized orders and funding boxes there may be, the ways funding is  *)
(* used, a bound on the states of an entity, and how many transactions of  *)
(* others, drops, rollbacks and unexplained rejections there may be.       *)
Init ==
    /\ ExecInit
    /\ budget \in Scenarios
    /\ chain = <<Genesis(budget)>>
    /\ mem = <<>>
    /\ events = [ch \in Channels |-> IF ch = Ledger
                    THEN EntityEvents(Genesis(budget), "forward") ELSE <<>>]
    /\ fundEvents = [ch \in Channels |-> IF ch = Ledger
                    THEN FundingEvents(Genesis(budget), "forward") ELSE <<>>]
    /\ rolling = FALSE
    /\ made = [s \in Sid |-> IF s \in QuasiPermanent \cup budget.atGenesis
                        THEN 1 ELSE 0]
    /\ lost = {}

Next ==
    \/ External \/ Confirm \/ Drop \/ Rollback \/ RollbackEnds
    \/ Accept \/ Reject \/ RejectUnknown \/ Feedback
    \/ DeliverEvent \/ DeliverFunding \/ Matchmake

Spec == Init /\ [][Next]_vars

-----------------------------------------------------------------------------
(* Everything reported, nothing in flight, nothing left to try. *)
Quiet ==
    /\ Free /\ ~focus
    /\ mem = <<>>
    /\ \A ch \in Channels : events[ch] = <<>> /\ fundEvents[ch] = <<>>

-----------------------------------------------------------------------------

(* No order is forgotten: once everything was reported, an order that is   *)
(* unspent on the chain is in the book in some state, unless it was taken  *)
(* out on purpose after an unknown error, and the index holds each unspent *)
(* state of the chain: however stale the state it resolves to,             *)
(* invalidation leads back to the real one.                                *)
NoOrderForgotten ==
    Quiet =>
        /\ Unspent(chain) \cap Version \subseteq ix.store
        /\ \A v \in Unspent(chain) \cap Version :
              SidOf[v] \in Orders \ lost => \E t \in tlb.takers : t.sid = SidOf[v]

(* While nobody else spends the agent's orders, the node takes nothing     *)
(* back and there are no specialized orders, the book holds exactly the    *)
(* states of orders and pools that the index would link a recipe to.  (The *)
(* success of a specialized order moves the index and not the book.)  And  *)
(* the engine does not panic: it mutates the book (events, feedback) only  *)
(* while the book is settled, and the states a batch consumes stay indexed *)
(* until its fate is known, so neither the mutation of a previewed book    *)
(* nor `Detected state inconsistency while invalidating' is within reach.  *)
BookAgrees ==
    /\ Free /\ ~budget.contended =>
          /\ \A t \in tlb.takers : t.ver = ResolveState(ix, t.sid)
          /\ \A m \in tlb.makers : m.ver = ResolveState(ix, m.mid)
    /\ Free => tlb.tag = Idle
    /\ pending.kind = "book" => pending.ins \subseteq ix.store

(* Inputs of the agent's own transactions that are in the mempool or on    *)
(* the ledger.                                                             *)
OwnSpent ==
    LET txs == chain \o mem
    IN UNION {txs[i].ins : i \in {j \in DOMAIN txs : txs[j].own}}

(* The skip filter at work: while nobody else spends the agent's orders,   *)
(* the agent never spends again what its own transactions spent already,   *)
(* whatever the order in which the two streams report them.  (A late       *)
(* report of another user's transaction, dropped since, can bring a spent  *)
(* order back until the network rejects the batch.)                        *)
NoSelfConflict ==
    ~Free /\ fate = NoFate /\ ~budget.contended
        => TxOf(pending).ins \cap OwnSpent = {}

(* A specialized order is executed once, whatever the order of the reports *)
(* about its creation and its execution.                                   *)
ExecutedOnce ==
    pending.kind = "backlog" /\ fate = NoFate => pending.ord \notin OwnSpent

(* Once everything was reported, the funding pool holds exactly the        *)
(* unspent funding boxes: none is lost, none is spent.                     *)
FundingExact == Quiet => funds = Unspent(chain) \cap Funding
=============================================================================
