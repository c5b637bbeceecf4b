----------------------------- MODULE HotBacklog -----------------------------
(***************************************************************************)
(* The hot backlog as a component of its own: any sequence of the calls of *)
(* the HotBacklog trait.                                                   *)
(***************************************************************************)
EXTENDS HotBacklogOps, FiniteSets

VARIABLES
    hb,     \* the backlog
    call,   \* the last call, with its argument
    out     \* what the last try_pop returned

backlogVars == <<hb, call, out>>

Called(name, o) == [name |-> name, arg |-> o]

BacklogInit == hb = EmptyBacklog /\ call = Called("new", NoOrder) /\ out = NoOrder

PutOrder(o) ==
    hb' = BacklogPut(hb, o) /\ call' = Called("put", o) /\ out' = NoOrder

TryPop ==
    \E r \in BacklogPops(hb) :
        hb' = r.next /\ call' = Called("try_pop", NoOrder) /\ out' = r.ord

RemoveOrder(o) ==
    hb' = BacklogRemove(hb, o) /\ call' = Called("remove", o) /\ out' = NoOrder

SoftEvict(o) ==
    hb' = BacklogSoftEvict(hb, o) /\ call' = Called("soft_evict", o) /\ out' = NoOrder

BacklogNext ==
    \/ TryPop
    \/ \E o \in Order : PutOrder(o) \/ RemoveOrder(o) \/ SoftEvict(o)

BacklogSpec == BacklogInit /\ [][BacklogNext]_backlogVars

-----------------------------------------------------------------------------
(* The capacity counter is exact: free places and stored orders add up to  *)
(* the configured capacity after any mix of put, pop, remove, soft_evict.  *)
CapacityExact == hb.capacity + Cardinality(hb.store) = BacklogCap

(* Every stored order is in the priority queue, so it can still be popped: *)
(* a stored order outside the queue would hold its place for ever.         *)
StoredIsQueued == hb.store \subseteq hb.queue

(* The two together: no place of the backlog is ever lost. *)
BacklogExact == CapacityExact /\ StoredIsQueued

(* The backlog implements the order pool, call by call: put keeps the     *)
(* order unless the backlog is full, holds it or has it marked, try_pop    *)
(* returns a heaviest order and nothing only when none is held, and no     *)
(* call but try_pop and remove takes an order out.                         *)
Pool ==
    INSTANCE OrderPool
    WITH Capacity <- BacklogCap, held <- hb.store, marked <- hb.soft.filter,
         call <- call, taken <- out

ImplementsPool == Pool!Spec
=============================================================================
