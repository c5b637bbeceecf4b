--------------------------- MODULE HotBacklogOps ---------------------------
(***************************************************************************)
(* HotPriorityBacklog (spectrum-offchain, backlog.rs): the in-memory       *)
(* backlog of specialized orders (deposits, redeems...) of one pair.       *)
(*                                                                         *)
(* State: [queue, store, soft, capacity].  An order is named by its output *)
(* reference, which fixes its weight; the priority queue is the set of ids *)
(* in it and the store the set of ids it maps.  `remove' leaves the id in  *)
(* the queue: `try_pop' skips the ids the store no longer knows.           *)
(***************************************************************************)
EXTENDS CircularFilterOps

CONSTANTS
    Order,      \* ids of specialized orders
    Weight,     \* [Order -> Nat]: the weight of an order
    BacklogCap, \* BacklogCapacity
    SoftCap,    \* size of the filter of soft evicted orders (256)
    NoOrder     \* absence of an order

ASSUME HotBacklogAssumption ==
    /\ Weight \in [Order -> Nat]
    /\ BacklogCap \in Nat
    /\ SoftCap \in Nat \ {0}
    /\ NoOrder \notin Order

EmptyBacklog ==
    [queue |-> {}, store |-> {}, soft |-> EmptyFilter, capacity |-> BacklogCap]

(* Mutant of BacklogPut: in a full backlog the new order replaces another. *)
BacklogPutReplaces(b, o) ==
    IF o \in b.store \/ FilterContains(b.soft, o) THEN b
    ELSE IF b.capacity > 0
    THEN [b EXCEPT !.queue = @ \cup {o}, !.store = @ \cup {o}, !.capacity = @ - 1]
    ELSE LET p == CHOOSE q \in b.store : TRUE
         IN [b EXCEPT !.queue = (@ \ {p}) \cup {o}, !.store = (@ \ {p}) \cup {o}]

BacklogPut(b, o) ==
    IF b.capacity > 0 /\ o \notin b.store /\ ~FilterContains(b.soft, o)
    THEN [b EXCEPT !.queue = @ \cup {o}, !.store = @ \cup {o},
                   !.capacity = @ - 1]
    ELSE b

(* The orders try_pop may return: the heaviest of those still stored.      *)
BestOrders(b) ==
    {o \in b.queue \cap b.store :
        \A p \in b.queue \cap b.store : Weight[p] <= Weight[o]}

(* The queue after popping o: the stale ids above o went with it; those as *)
(* heavy as o may or may not have come out first.                          *)
QueuesAfter(b, o) ==
    {b.queue \ (S \cup {o}) :
        S \in {T \in SUBSET (b.queue \ b.store) :
                  /\ \A p \in T : Weight[p] >= Weight[o]
                  /\ \A p \in b.queue \ b.store :
                        Weight[p] > Weight[o] => p \in T}}

(* Mutant of BacklogPops: the first id of the queue decides the outcome. *)
BacklogPopsOnce(b) ==
    IF b.queue = {} THEN {[ord |-> NoOrder, next |-> b]}
    ELSE {[ord |-> IF o \in b.store THEN o ELSE NoOrder,
           next |-> [b EXCEPT !.queue = @ \ {o}]] :
              o \in {p \in b.queue : \A q \in b.queue : Weight[q] <= Weight[p]}}

(* Mutant of BacklogPops: a stale id on top of the queue ends the search.  *)
BacklogPopsGivesUp(b) ==
    LET top == {p \in b.queue : \A q \in b.queue : Weight[q] <= Weight[p]}
    IN IF b.queue = {} THEN {[ord |-> NoOrder, next |-> b]}
       ELSE {IF o \in b.store
             THEN [ord |-> o, next |-> [b EXCEPT !.queue = @ \ {o}, !.store = @ \ {o},
                                                 !.capacity = @ + 1]]
             ELSE [ord |-> NoOrder, next |-> [b EXCEPT !.queue = @ \ {o}]] :
                o \in top}

(* Mutant of BacklogPops: any stored order may come out. *)
BacklogPopsAny(b) ==
    IF b.queue \cap b.store = {}
    THEN {[ord |-> NoOrder, next |-> [b EXCEPT !.queue = {}]]}
    ELSE {[ord |-> o, next |-> [b EXCEPT !.queue = @ \ {o}, !.store = @ \ {o},
                                         !.capacity = @ + 1]] :
              o \in b.queue \cap b.store}

(* try_pop: the possible results with the backlog each leaves behind.      *)
BacklogPops(b) ==
    IF b.queue \cap b.store = {}
    THEN {[ord |-> NoOrder, next |-> [b EXCEPT !.queue = {}]]}
    ELSE UNION {{[ord |-> o,
                  next |-> [b EXCEPT !.queue = Q, !.store = @ \ {o},
                                     !.capacity = @ + 1]] :
                    Q \in QueuesAfter(b, o)} : o \in BestOrders(b)}

(* Mutant of BacklogRemove: the place of the removed order is not freed. *)
BacklogRemoveLeaks(b, o) ==
    [b EXCEPT !.soft = FilterRemove(@, o), !.store = @ \ {o}]

BacklogRemove(b, o) ==
    [queue |-> b.queue,
     store |-> b.store \ {o},
     soft |-> FilterRemove(b.soft, o),
     capacity |-> IF o \in b.store THEN b.capacity + 1 ELSE b.capacity]

(* Soft eviction marks the id; an order that is stored stays stored.       *)
BacklogSoftEvict(b, o) == [b EXCEPT !.soft = FilterAdd(SoftCap, @, o)]
=============================================================================
