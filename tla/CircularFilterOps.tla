------------------------- MODULE CircularFilterOps -------------------------
(***************************************************************************)
(* CircularFilter<N, T> (spectrum-offchain, data/circular_filter.rs): a    *)
(* ring buffer of the last N elements added and a hash set that answers    *)
(* `contains'.  The state is [buffer, filter]; the capacity N is the first *)
(* argument of FilterAdd.                                                  *)
(*                                                                         *)
(* `remove' only touches the hash set, so the ring may hold elements that  *)
(* the set has forgotten, and a later `add' of one of them stores it in    *)
(* the ring a second time.                                                 *)
(***************************************************************************)
EXTENDS Naturals, Sequences

EmptyFilter == [buffer |-> <<>>, filter |-> {}]

FilterContains(f, a) == a \in f.filter

(* A new element enters the hash set first; when the ring is full its      *)
(* oldest element leaves the ring and then the hash set.                   *)
FilterAdd(n, f, a) ==
    IF a \in f.filter THEN f
    ELSE IF Len(f.buffer) < n
    THEN [buffer |-> Append(f.buffer, a), filter |-> f.filter \cup {a}]
    ELSE [buffer |-> Append(Tail(f.buffer), a),
          filter |-> (f.filter \cup {a}) \ {Head(f.buffer)}]

FilterRemove(f, a) == [f EXCEPT !.filter = @ \ {a}]
=============================================================================
