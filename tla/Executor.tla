------------------------------ MODULE Executor ------------------------------
(***************************************************************************)
(* The execution engine of one pair (bloom-offchain,                       *)
(* execution_engine/mod.rs): the stream that turns on-chain events into    *)
(* transactions.  It composes the state index, the liquidity book, the     *)
(* backlog of specialized orders, the skip filter and the funding pool.    *)
(*                                                                         *)
(* The stream is driven by `executor.then(submit)': it is polled again     *)
(* only after the fate of the transaction it returned is in the feedback   *)
(* channel.  One action is one pass of the loop of poll_next that reaches  *)
(* a `continue' or a `return'; `Submitted' is the closure given to `then'. *)
(*                                                                         *)
(* The environment of this module is arbitrary: it may deliver any event   *)
(* and report any fate.  TradingAgent gives it a ledger.                   *)
(***************************************************************************)
EXTENDS StateIndexOps, TLBStateOps, HotBacklogOps, SequencesExt

CONSTANTS
    FeeOf,          \* [Version -> Nat]: the fee of a state of an order
    PoolRef,        \* [Order -> Sid]: the pool of a specialized order
    SkipCap,        \* size of the skip filter (256)
    Funding,        \* references of the operator's funding boxes
    NoFunding       \* absence of a funding box

ASSUME ExecutorAssumption ==
    /\ FeeOf \in [Version -> Nat]
    /\ LowerBound \in [Sid -> {0}]
    /\ PoolRef \in [Order -> QuasiPermanent]
    /\ SkipCap \in Nat \ {0}
    /\ NoFunding \notin Funding
    /\ Version \cap Order = {}

VARIABLES
    ix,         \* index
    skip,       \* skip_filter
    tlb,        \* multi_book at this pair
    backlog,    \* multi_backlog at this pair
    focus,      \* the pair is in focus_set
    funds,      \* funding_pool
    pending,    \* pending_effects
    fate        \* the feedback channel: the fate of the last transaction

execVars == <<ix, skip, tlb, backlog, focus, funds, pending, fate>>

Orders == Sid \ QuasiPermanent

(* Ior<T, T> and Option<Ior<T, T>>: None has both sides absent. *)
Both(v, w) == [old |-> v, new |-> w]
Right(v) == [old |-> NoVersion, new |-> v]
NoIor == [old |-> NoVersion, new |-> NoVersion]

IorOf(tr) == SidOf[IF tr.new # NoVersion THEN tr.new ELSE tr.old]

Ledger == "ledger"
Mempool == "mempool"
LocalTxSubmit == "local"

TakerOf(v) == [sid |-> SidOf[v], fee |-> FeeOf[v], ver |-> v]
MakerOf(v) == [mid |-> SidOf[v], ver |-> v]

-----------------------------------------------------------------------------
(* Keeping the index, the book and the backlog in step with the chain.     *)

(* Mutant of SyncBook: the state before the transition stays. *)
SyncBookKeepsOld(b, tr) ==
    IF tr = NoIor THEN b
    ELSE IF IorOf(tr) \in QuasiPermanent
    THEN [b EXCEPT !.makers = IF tr.new = NoVersion
                              THEN RemovePool(@, MakerOf(tr.old))
                              ELSE UpdatePool(@, MakerOf(tr.new))]
    ELSE IF tr.new = NoVersion THEN RemoveFragment(b, TakerOf(tr.old))
    ELSE AddFragment(b, TakerOf(tr.new))

SyncBook(b, tr) ==
    IF tr = NoIor THEN b
    ELSE IF IorOf(tr) \in QuasiPermanent
    THEN [b EXCEPT !.makers = IF tr.new = NoVersion
                              THEN RemovePool(@, MakerOf(tr.old))
                              ELSE UpdatePool(@, MakerOf(tr.new))]
    ELSE LET rest == IF tr.old = NoVersion THEN b
                     ELSE RemoveFragment(b, TakerOf(tr.old))
         IN IF tr.new = NoVersion THEN rest
            ELSE AddFragment(rest, TakerOf(tr.new))

PrefixOf(ch) ==
    IF ch = Ledger THEN Confirmed
    ELSE IF ch = Mempool THEN Unconfirmed ELSE Predicted

ToTransition(before, after) == [old |-> before, new |-> after]

(* Mutant of NewState: the skip filter is not consulted. *)
NewStateUnfiltered(s, ch, e) ==
    LET v == e.tr.new
        sid == SidOf[v]
        undone == IF e.dir = "backward" /\ e.tr.old # NoVersion
                  THEN InvalidateVersion(s.ix, e.tr.old) ELSE s.ix
        ix2 == Put(undone, PrefixOf(ch), v)
    IN [ix |-> ix2, skip |-> s.skip,
        tr |-> ToTransition(ResolveState(s.ix, sid), ResolveState(ix2, sid))]

(* Mutant of NewState: rollbacks to a processed state are skipped too. *)
NewStateSkipsRollback(s, ch, e) ==
    LET v == e.tr.new
        sid == SidOf[v]
        undone == IF e.dir = "backward" /\ e.tr.old # NoVersion
                  THEN InvalidateVersion(s.ix, e.tr.old) ELSE s.ix
        ix2 == Put(undone, PrefixOf(ch), v)
    IN IF FilterContains(s.skip, v)
       THEN [ix |-> Put(s.ix, IF ch = Ledger THEN Confirmed ELSE Fallback, v),
             skip |-> s.skip,
             tr |-> NoIor]
       ELSE [ix |-> ix2, skip |-> s.skip,
             tr |-> ToTransition(ResolveState(s.ix, sid), ResolveState(ix2, sid))]

(* Mutant of NewState: a skipped state is not stored. *)
NewStateForgetsSkipped(s, ch, e) ==
    LET v == e.tr.new
        sid == SidOf[v]
        ix2 == Put(s.ix, PrefixOf(ch), v)
    IN IF FilterContains(s.skip, v) THEN [ix |-> s.ix, skip |-> s.skip, tr |-> NoIor]
       ELSE [ix |-> ix2, skip |-> s.skip,
             tr |-> ToTransition(ResolveState(s.ix, sid), ResolveState(ix2, sid))]

(* update_state for a transition that ends in a new state: a state that    *)
(* was processed already is only stored, unless a rollback brings it back. *)
NewState(s, ch, e) ==
    LET v == e.tr.new
        sid == SidOf[v]
        before == ResolveState(s.ix, sid)
        undone == IF e.dir = "backward" /\ e.tr.old # NoVersion
                  THEN InvalidateVersion(s.ix, e.tr.old) ELSE s.ix
        ix2 == Put(undone, PrefixOf(ch), v)
    IN IF FilterContains(s.skip, v) /\ e.dir = "forward"
       THEN [ix |-> Put(s.ix, IF ch = Ledger THEN Confirmed ELSE Fallback, v),
             skip |-> s.skip,
             tr |-> NoIor]
       ELSE [ix |-> ix2,
             skip |-> FilterRemove(s.skip, v),
             tr |-> ToTransition(before, ResolveState(ix2, sid))]

(* update_state for a transition that ends the entity. *)
EndState(s, ch, e) ==
    LET sid == SidOf[e.tr.old]
    IN [ix |-> IF ch = Ledger \/ sid \notin QuasiPermanent
               THEN Eliminate(s.ix, sid) ELSE s.ix,
        skip |-> s.skip,
        tr |-> e.tr]

UpdateState(s, ch, e) ==
    IF e.tr.new # NoVersion THEN NewState(s, ch, e) ELSE EndState(s, ch, e)

(* The parts of the engine update_state and sync_book work on. *)
Core == [ix |-> ix, skip |-> skip, tlb |-> tlb]

(* update_state followed by sync_book. *)
Observe(c, ch, e) ==
    LET u == UpdateState(c, ch, e)
    IN [ix |-> u.ix, skip |-> u.skip, tlb |-> SyncBook(c.tlb, u.tr)]

(* invalidate_versions for one version the index knows. *)
InvalidateOne(c, v) ==
    LET after == InvalidateVersion(c.ix, v)
    IN [c EXCEPT !.ix = after,
                 !.tlb = SyncBook(@, ToTransition(ResolveState(c.ix, SidOf[v]),
                                                 ResolveState(after, SidOf[v])))]

(* Versions of distinct entities: the order of the set does not matter. *)
InvalidateVersions(c, V) == FoldSet(LAMBDA v, acc : InvalidateOne(acc, v), c, V)

Become(c) == ix' = c.ix /\ skip' = c.skip /\ tlb' = c.tlb

-----------------------------------------------------------------------------
(* Pending effects.  A batch from the book consumes the indexed states of  *)
(* its fragments (ins); effs holds, per fragment, the state consumed and   *)
(* the state produced, absent when an order ends; takers are the takers as *)
(* the book knows them; fin and fout the funding consumed and produced.  A *)
(* transaction from the backlog consumes the order and a pool.             *)

NoTx == [kind |-> "none"]

Ok == [ok |-> TRUE]
MissingInputs(M) == [ok |-> FALSE, known |-> TRUE, missing |-> M]
UnknownError == [ok |-> FALSE, known |-> FALSE, missing |-> {}]
NoFate == [ok |-> FALSE, known |-> FALSE, missing |-> {"none"}]

(* The book after `attempt' made a recipe of the takers T and the makers M *)
(* of which D end: a preview.  The successor of an order or a pool keeps   *)
(* its place in the book.                                                  *)
Attempted(b, D) == [MoveIntoPreview(b) EXCEPT !.preview = EraseAll(@, D)]

Linked(F) == \A s \in F : ResolveState(ix, s) # NoVersion

Recipes ==
    {r \in [takers : SUBSET tlb.takers, makers : SUBSET tlb.makers] :
        /\ r.takers # {}
        /\ Cardinality(r.takers) + Cardinality(r.makers) > 1}

Fragments(r) == {t.sid : t \in r.takers} \cup {m.mid : m \in r.makers}

(* The loop of poll_next takes the feedback first, and it runs only once   *)
(* the feedback is there: everything else happens with nothing pending.    *)
Free == pending = NoTx

-----------------------------------------------------------------------------
(* Matchmaking.                                                            *)

(* The book gives a recipe whose fragments are all indexed, and there is   *)
(* funding: the transaction leaves and the pair returns to the focus set.  *)
(* outs gives the new state of each fragment, io what becomes of the       *)
(* funding box f: Replaced, Added or NotUsed.                              *)
ExecuteRecipe(r, outs, f, io, g) ==
    /\ Free /\ focus
    /\ Linked(Fragments(r))
    /\ f \in funds
    /\ tlb' = Attempted(tlb, {t \in r.takers : outs[t.sid] = NoVersion})
    /\ funds' = IF io = "Replaced" THEN funds \ {f} ELSE funds
    /\ pending' =
          [kind |-> "book",
           ins |-> {ResolveState(ix, s) : s \in Fragments(r)},
           effs |-> {Both(ResolveState(ix, s), outs[s]) : s \in Fragments(r)},
           takers |-> r.takers,
           fin |-> IF io = "Replaced" THEN f ELSE NoFunding,
           fout |-> IF io = "NotUsed" THEN NoFunding ELSE g]
    /\ UNCHANGED <<ix, skip, backlog, focus, fate>>

(* What the book leaves behind when it yields no transaction: no recipe    *)
(* (prices may not overlap), or no funding, or a recipe with fragments the *)
(* index does not know, which leave the book.                              *)
BookYieldsNothing(b) ==
    \/ b = tlb
    \/ \E r \in Recipes :
          LET orphans == {s \in Fragments(r) : ResolveState(ix, s) = NoVersion}
          IN /\ orphans # {}
             /\ b = [tlb EXCEPT
                        !.takers = EraseAll(@, {t \in r.takers : t.sid \in orphans}),
                        !.makers = {m \in @ : ~(m \in r.makers /\ m.mid \in orphans)}]

(* The backlog gives an order, and the interpreter runs it against the     *)
(* pool.                                                                   *)
ExecuteBacklog(o, newPool) ==
    /\ Free /\ focus
    /\ BookYieldsNothing(tlb')
    /\ \E p \in BacklogPops(backlog) :
          /\ p.ord = o
          /\ backlog' = p.next
    /\ ResolveState(ix, PoolRef[o]) # NoVersion
    /\ pending' = [kind |-> "backlog",
                   ins |-> {o, ResolveState(ix, PoolRef[o])},
                   ord |-> o, pool |-> newPool,
                   fin |-> NoFunding, fout |-> NoFunding]
    /\ UNCHANGED <<ix, skip, focus, funds, fate>>

(* Neither yields a transaction: the pair leaves the focus set.  A popped  *)
(* order whose pool is unknown, or which the interpreter refuses, is gone. *)
ExecuteNothing ==
    /\ Free /\ focus
    /\ BookYieldsNothing(tlb')
    /\ \E p \in BacklogPops(backlog) : backlog' = p.next
    /\ focus' = FALSE
    /\ UNCHANGED <<ix, skip, funds, pending, fate>>

-----------------------------------------------------------------------------
(* The fate of a transaction.                                              *)

(* The closure of `then': submits and waits; the executor is not polled.   *)
Submitted(f) ==
    /\ ~Free /\ fate = NoFate
    /\ fate' = f
    /\ UNCHANGED <<ix, skip, tlb, backlog, focus, funds, pending>>

(* One effect of an accepted batch: the consumed state is processed, the   *)
(* new one is predicted; an order that ends leaves the book under the key  *)
(* the book used.                                                          *)
ApplyEffect(c, eff, takers) ==
    LET processed == [c EXCEPT !.skip = FilterAdd(SkipCap, @, eff.old)]
        seen == Observe(processed, LocalTxSubmit, [dir |-> "forward", tr |-> eff])
    IN IF eff.new # NoVersion THEN seen
       ELSE [seen EXCEPT !.tlb = [processed.tlb EXCEPT
               !.takers = EraseAll(@, {t \in takers : t.sid = SidOf[eff.old]})]]

OnExecutionEffectsSuccess ==
    \/ /\ pending.kind = "book"
       /\ \E effs \in SetToSeqs(pending.effs) :
             Become(FoldLeft(LAMBDA c, eff : ApplyEffect(c, eff, pending.takers),
                             [Core EXCEPT !.tlb = Commit(@)], effs))
       /\ UNCHANGED backlog
    \/ /\ pending.kind = "backlog"
       /\ LET u == UpdateState([ix |-> ix,
                                skip |-> FilterAdd(SkipCap, skip, pending.ord)],
                               LocalTxSubmit,
                               [dir |-> "forward", tr |-> Right(pending.pool)])
          IN ix' = u.ix /\ skip' = u.skip
       /\ UNCHANGED <<tlb, backlog>>

TxAccepted ==
    /\ ~Free /\ fate = Ok
    /\ OnExecutionEffectsSuccess
    /\ funds' = funds \cup ({pending.fout} \ {NoFunding})
    /\ pending' = NoTx /\ fate' = NoFate
    /\ UNCHANGED focus

(* Inputs are missing: the batch is rolled back, or the order returns to   *)
(* the backlog unless it is missing itself, and the missing states that    *)
(* were consumed are invalidated.                                          *)
MissingOf(f) == f.missing \cap pending.ins

OnMissingInputs ==
    /\ backlog' = IF pending.kind = "book" THEN backlog
                  ELSE IF pending.ord \in fate.missing
                  THEN BacklogSoftEvict(backlog, pending.ord)
                  ELSE BacklogPut(backlog, pending.ord)
    /\ Become(InvalidateVersions(
          [Core EXCEPT !.tlb = IF pending.kind = "book" THEN RollbackUnstash(@)
                                                        ELSE @],
          MissingOf(fate) \cap ix.store))

(* Any other error: the takers of the batch leave the book. *)
OnUnknownError ==
    /\ tlb' = IF pending.kind = "backlog" THEN tlb
              ELSE LET b == RollbackUnstash(tlb)
                   IN [b EXCEPT !.takers = EraseAll(@, pending.takers)]
    /\ backlog' = IF pending.kind = "book" THEN backlog
                  ELSE BacklogPut(backlog, pending.ord)
    /\ UNCHANGED <<ix, skip>>

(* The consumed funding box returns to the pool unless it is missing. *)
TxRejected ==
    /\ ~Free /\ fate # NoFate /\ ~fate.ok
    /\ IF fate.known THEN OnMissingInputs ELSE OnUnknownError
    /\ funds' = funds \cup ({pending.fin} \ ({NoFunding} \cup fate.missing))
    /\ pending' = NoTx /\ fate' = NoFate
    /\ UNCHANGED focus

-----------------------------------------------------------------------------
(* Events.                                                                 *)

(* Mutant of OnEntityEvent: events are taken while a transaction is out. *)
OnEntityEventAnytime(ch, e) ==
    /\ Become(Observe(Core, ch, e))
    /\ focus' = TRUE
    /\ UNCHANGED <<backlog, funds, pending, fate>>

OnEntityEvent(ch, e) ==
    /\ Free
    /\ Become(Observe(Core, ch, e))
    /\ focus' = TRUE
    /\ UNCHANGED <<backlog, funds, pending, fate>>

(* Mutant of OnOrderCreated: the skip filter is not consulted. *)
OnOrderCreatedUnfiltered(o) ==
    /\ Free
    /\ backlog' = BacklogPut(backlog, o)
    /\ focus' = TRUE
    /\ UNCHANGED <<ix, skip, tlb, funds, pending, fate>>

(* sync_backlog *)
OnOrderCreated(o) ==
    /\ Free
    /\ backlog' = IF FilterContains(skip, o) THEN backlog
                  ELSE BacklogPut(backlog, o)
    /\ focus' = TRUE
    /\ UNCHANGED <<ix, skip, tlb, funds, pending, fate>>

OnOrderEliminated(ch, o) ==
    /\ Free
    /\ backlog' = IF ch = Ledger THEN BacklogRemove(backlog, o)
                                 ELSE BacklogSoftEvict(backlog, o)
    /\ focus' = TRUE
    /\ UNCHANGED <<ix, skip, tlb, funds, pending, fate>>

OnFundingConsumed(f) ==
    /\ Free
    /\ funds' = funds \ {f}
    /\ UNCHANGED <<ix, skip, tlb, backlog, focus, pending, fate>>

OnFundingProduced(f) ==
    /\ Free
    /\ funds' = funds \cup {f}
    /\ UNCHANGED <<ix, skip, tlb, backlog, focus, pending, fate>>

(* Mutant of OnFundingEvent: the two kinds are swapped. *)
OnFundingEventSwapped(e) ==
    IF e.produced THEN OnFundingConsumed(e.ref) ELSE OnFundingProduced(e.ref)

OnFundingEvent(e) ==
    IF e.produced THEN OnFundingProduced(e.ref) ELSE OnFundingConsumed(e.ref)

ExecInit ==
    /\ ix = EmptyIndex
    /\ skip = EmptyFilter
    /\ tlb = NewTLBState(0)
    /\ backlog = EmptyBacklog
    /\ focus = FALSE
    /\ funds = {}
    /\ pending = NoTx
    /\ fate = NoFate

=============================================================================
