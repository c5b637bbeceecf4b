----------------------------- MODULE OrderPool -----------------------------
(***************************************************************************)
(* What a hot backlog promises its user: a bounded set of orders.  put     *)
(* keeps the order unless the pool is full, holds it already or was told   *)
(* to check it later; try_pop hands out a heaviest order, and nothing only *)
(* when there is none; remove takes out the order it names and no other;   *)
(* soft_evict takes out none.                                              *)
(***************************************************************************)
EXTENDS Naturals, FiniteSets

CONSTANTS Order, Weight, Capacity, NoOrder

VARIABLES
    held,   \* the orders in the pool
    marked, \* the orders to be checked later, which put refuses
    call,   \* the last call, with its argument
    taken   \* its answer

poolVars == <<held, marked, call, taken>>

Call(name, o) == call' = [name |-> name, arg |-> o]

Init ==
    /\ held = {} /\ marked = {}
    /\ call = [name |-> "new", arg |-> NoOrder]
    /\ taken = NoOrder

Welcome(o) == Cardinality(held) < Capacity /\ o \notin held /\ o \notin marked

Keep(o) ==
    /\ Call("put", o) /\ Welcome(o)
    /\ held' = held \cup {o}
    /\ taken' = NoOrder
    /\ UNCHANGED marked

Refuse(o) ==
    /\ Call("put", o) /\ ~Welcome(o)
    /\ taken' = NoOrder
    /\ UNCHANGED <<held, marked>>

TakeBest ==
    \E o \in held :
        /\ Call("try_pop", NoOrder)
        /\ \A p \in held : Weight[p] <= Weight[o]
        /\ held' = held \ {o}
        /\ taken' = o
        /\ UNCHANGED marked

TakeNone ==
    /\ Call("try_pop", NoOrder)
    /\ held = {}
    /\ taken' = NoOrder
    /\ UNCHANGED <<held, marked>>

Drop(o) ==
    /\ Call("remove", o)
    /\ held' = held \ {o}
    /\ marked' = marked \ {o}
    /\ taken' = NoOrder

(* At most one mark is forgotten for a new one. *)
Mark(o) ==
    /\ Call("soft_evict", o)
    /\ \E q \in Order \cup {NoOrder} : marked' = (marked \cup {o}) \ {q}
    /\ taken' = NoOrder
    /\ UNCHANGED held

Next ==
    \/ TakeBest
    \/ TakeNone
    \/ \E o \in Order : Keep(o) \/ Refuse(o) \/ Drop(o) \/ Mark(o)

Spec == Init /\ [][Next]_poolVars
=============================================================================
