------------------------------ MODULE DaoStores ------------------------------
(***************************************************************************)
(* The persistent stores of the DAO bot, as operators on values: the state *)
(* projection kept per protocol entity (state_projection.rs), the          *)
(* repository of the operator's funding boxes (funding.rs), and the order  *)
(* backlog (spectrum-offchain/src/backlog.rs) as the bot uses it.          *)
(***************************************************************************)
EXTENDS Integers, FiniteSets, FiniteSetsExt, Functions, TLC

-----------------------------------------------------------------------------
(***************************************************************************)
(* State projection: three column families per entity.  latest maps an id  *)
(* to its current version, prev links a version to the one before it, and  *)
(* state holds the traced value of every version not removed yet.          *)
(***************************************************************************)
NoVer == <<>>

EmptyProjection == [latest |-> <<>>, prev |-> <<>>, state |-> <<>>]

Without(f, x) == Restrict(f, DOMAIN f \ {x})

Found(p, id) ==
    /\ id \in DOMAIN p.latest
    /\ <<id, p.latest[id]>> \in DOMAIN p.state

Read(p, id) == p.state[<<id, p.latest[id]>>]

\* Both writers: the index entry, the back link (when there is one) and the
\* traced state, in one database transaction.
Write(p, id, st) ==
    [latest |-> (id :> st.ver) @@ p.latest,
     prev   |-> IF st.prev = NoVer THEN p.prev
                ELSE (<<id, st.ver>> :> st.prev) @@ p.prev,
     state  |-> (<<id, st.ver>> :> st) @@ p.state]

\* An id is found from a version only through the version's back link.
HasIdOf(p, id, ver) == <<id, ver>> \in DOMAIN p.prev

\* Mutant: the version before the removed one is not made latest again.
RemoveLatestForgets(p, id) ==
    IF id \notin DOMAIN p.latest THEN p
    ELSE [p EXCEPT !.latest = Without(@, id), !.state = Without(@, <<id, p.latest[id]>>)]

\* remove(id): the latest version goes, the one before it becomes latest, and
\* the back link of the version just removed is overwritten.
RemoveLatest(p, id) ==
    IF id \notin DOMAIN p.latest THEN p
    ELSE LET key  == <<id, p.latest[id]>>
             rest == Without(p.state, key)
         IN  IF key \notin DOMAIN p.prev
             THEN [p EXCEPT !.latest = Without(@, id), !.state = rest]
             ELSE LET back  == p.prev[key]
                      older == IF <<id, back>> \in DOMAIN p.state
                               THEN p.state[<<id, back>>].prev ELSE NoVer
                  IN  [latest |-> [p.latest EXCEPT ![id] = back],
                       prev   |-> IF older = NoVer THEN p.prev
                                  ELSE [p.prev EXCEPT ![key] = older],
                       state  |-> rest]

\* The unwrap on the state the back link names.
RemovePanics(p, id) ==
    /\ id \in DOMAIN p.latest
    /\ LET key == <<id, p.latest[id]>>
       IN  key \in DOMAIN p.prev /\ <<id, p.prev[key]>> \notin DOMAIN p.state

-----------------------------------------------------------------------------
(***************************************************************************)
(* Funding repository: a box is stored under up to four key classes,       *)
(* confirmed or predicted, available or spent.                             *)
(***************************************************************************)
EmptyFunding == [ca |-> {}, pa |-> {}, cs |-> {}, ps |-> {}]

PutConfirmed(f, b) == [f EXCEPT !.pa = @ \ {b}, !.ca = @ \cup {b}]

PutPredicted(f, b) == [f EXCEPT !.pa = @ \cup {b}]

\* Mutant: a spent box also stays available.
SpendConfirmedKeeps(f, b) ==
    IF b \in f.ca THEN [f EXCEPT !.cs = @ \cup {b}] ELSE f

SpendConfirmed(f, b) ==
    IF b \in f.ca THEN [f EXCEPT !.ca = @ \ {b}, !.cs = @ \cup {b}]
    ELSE IF b \in f.ps THEN [f EXCEPT !.ps = @ \ {b}, !.cs = @ \cup {b}]
    ELSE f

UnspendConfirmed(f, b) ==
    IF b \in f.cs THEN [f EXCEPT !.cs = @ \ {b}, !.ca = @ \cup {b}] ELSE f

SpendPredicted(f, b) == [f EXCEPT !.pa = @ \ {b}, !.ps = @ \cup {b}]

UnspendPredicted(f, b) == [f EXCEPT !.ps = @ \ {b}, !.pa = @ \cup {b}]

EliminatePredicted(f, b) == [f EXCEPT !.pa = @ \ {b}]

EliminateConfirmed(f, b) == [f EXCEPT !.ca = @ \ {b}]

\* What collect() can hand to an action: one box that covers it.
Selections(f) ==
    {[conf |-> {b}, pred |-> {}] : b \in f.ca}
        \cup {[conf |-> {}, pred |-> {b}] : b \in f.pa}

\* The changes of a submitted transaction, and their reversal.
ApplyChanges(f, ch) ==
    LET spentP == FoldSet(LAMBDA b, g : SpendPredicted(g, b), f, ch.pred)
        spentC == FoldSet(LAMBDA b, g : SpendConfirmed(g, b), spentP, ch.conf)
    IN  FoldSet(LAMBDA b, g : PutPredicted(g, b), spentC, ch.made)

\* Mutant: confirmed boxes are not given back.
RevertChangesLosing(f, ch) ==
    LET backP == FoldSet(LAMBDA b, g : UnspendPredicted(g, b), f, ch.pred)
    IN  FoldSet(LAMBDA b, g : EliminatePredicted(g, b), backP, ch.made)

RevertChanges(f, ch) ==
    LET backP == FoldSet(LAMBDA b, g : UnspendPredicted(g, b), f, ch.pred)
        backC == FoldSet(LAMBDA b, g : UnspendConfirmed(g, b), backP, ch.conf)
    IN  FoldSet(LAMBDA b, g : EliminatePredicted(g, b), backC, ch.made)

\* The unwraps on the key a predicted box is expected under.
ChangesPanic(f, ch) == ~(ch.pred \subseteq f.pa)
RevertPanics(f, ch) == ~(ch.pred \subseteq f.ps)

-----------------------------------------------------------------------------
(***************************************************************************)
(* Order backlog: the persistent store (order to its timestamp) and the    *)
(* two in-memory queues of entries [ord, slot, ts].  The bot never calls   *)
(* check_later, so the queue of orders to revisit stays empty.             *)
(***************************************************************************)
EmptyBacklog == [store |-> <<>>, pending |-> {}, suspended |-> {}]

BacklogPut(b, e) ==
    [store     |-> IF e.ord \in DOMAIN b.store THEN b.store
                   ELSE (e.ord :> e) @@ b.store,
     suspended |-> {x \in b.suspended : x.ord # e.ord},
     pending   |-> IF \E x \in b.pending : x.ord = e.ord THEN b.pending
                   ELSE b.pending \cup {e}]

BacklogSuspend(b, ord) ==
    IF ord \in DOMAIN b.store
    THEN [b EXCEPT !.suspended = @ \cup {b.store[ord]}] ELSE b

BacklogRemove(b, ord) == [b EXCEPT !.store = Without(@, ord)]

\* All stored orders are pending again after a restart.
BacklogReload(b) ==
    [b EXCEPT !.pending = {b.store[o] : o \in DOMAIN b.store}, !.suspended = {}]

\* Draining a queue, oldest slot first: entries that are too old are removed
\* from the store, entries without a stored order are skipped, and the first
\* one that is both fresh and stored is returned.
Drain(b, queue, now, lifespan) ==
    LET good  == {e \in queue : e.ord \in DOMAIN b.store /\ now - e.ts <= lifespan}
        best  == {e \in good : \A x \in good : e.slot <= x.slot}
        gone  == {e \in queue : \A x \in best : e.slot <= x.slot}
        old   == {e \in gone : now - e.ts > lifespan}
    IN  [hit  |-> best,
         rest |-> queue \ gone,
         store |-> Restrict(b.store, DOMAIN b.store \ {e.ord : e \in old})]

\* try_pop: the pending or (with some probability) the suspended queue.
Pops(b, now, lifespan) ==
    {LET d == Drain(b, b.pending, now, lifespan)
     IN  [hit |-> d.hit, backlog |-> [b EXCEPT !.store = d.store, !.pending = d.rest]],
     LET d == Drain(b, b.suspended, now, lifespan)
     IN  [hit |-> d.hit, backlog |-> [b EXCEPT !.store = d.store, !.suspended = d.rest]]}
=============================================================================
