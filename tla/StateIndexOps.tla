--------------------------- MODULE StateIndexOps ---------------------------
(***************************************************************************)
(* The in-memory index of entity states kept by the execution engine       *)
(* (bloom-offchain, execution_engine/storage/mod.rs), as operators on its  *)
(* two maps.                                                               *)
(*                                                                         *)
(* An entity (an order or a pool) has a stable id; each of its on-chain    *)
(* states is an unspent output, and the output reference is the version    *)
(* of the state.  An output never changes, so a version determines the     *)
(* state and `store: HashMap<Version, T>' is the set of its keys.          *)
(* `index: HashMap<(prefix, id), Version>' is a function on prefixes and   *)
(* ids whose value is NoVersion where the map has no entry.                *)
(***************************************************************************)
EXTENDS Naturals

CONSTANTS
    Sid,            \* stable ids of entities
    Version,        \* versions (output references)
    SidOf,          \* [Version -> Sid]: the entity a version is a state of
    QuasiPermanent, \* the entities with is_quasi_permanent() (pools)
    NoVersion       \* absence of a version

ASSUME StateIndexAssumption ==
    /\ SidOf \in [Version -> Sid]
    /\ QuasiPermanent \subseteq Sid
    /\ NoVersion \notin Version

Confirmed == "confirmed"
Unconfirmed == "unconfirmed"
Predicted == "predicted"
Fallback == "fallback"

AllStateKeys == {Confirmed, Unconfirmed, Predicted, Fallback}
EphemeralStateKeys == {Unconfirmed, Predicted, Fallback}

StateIndexes ==
    [store : SUBSET Version,
     index : [AllStateKeys -> [Sid -> Version \cup {NoVersion}]]]

EmptyIndex ==
    [store |-> {},
     index |-> [p \in AllStateKeys |-> [s \in Sid |-> NoVersion]]]

-----------------------------------------------------------------------------
(* Reads.  A getter goes through the index and then through the store: a   *)
(* version missing from the store is reported as absent.                   *)

Get(ix, p, s) ==
    IF ix.index[p][s] \in ix.store THEN ix.index[p][s] ELSE NoVersion

(* Mutant of ResolveState: the fallback prefix is forgotten. *)
ResolveStateNoFallback(ix, s) ==
    LET OrElse(p, other) ==
            IF Get(ix, p, s) # NoVersion THEN Get(ix, p, s) ELSE other
    IN OrElse(Predicted, OrElse(Unconfirmed, Get(ix, Confirmed, s)))

(* Latest state of an entity: predicted, else unconfirmed, else fallback,  *)
(* else confirmed.                                                         *)
ResolveState(ix, s) ==
    LET OrElse(p, other) ==
            IF Get(ix, p, s) # NoVersion THEN Get(ix, p, s) ELSE other
    IN OrElse(Predicted, OrElse(Unconfirmed, OrElse(Fallback,
           Get(ix, Confirmed, s))))

-----------------------------------------------------------------------------
(* Writes.                                                                 *)

(* Mutant of Put: the version left behind always leaves the store. *)
PutDropsBound(ix, p, v) ==
    [store |-> (ix.store \ {ix.index[p][SidOf[v]]}) \cup {v},
     index |-> [ix.index EXCEPT ![p] = [@ EXCEPT ![SidOf[v]] = v]]]

(* The version the prefix pointed to leaves the store unless some other    *)
(* prefix of the same entity still points to it.                           *)
Put(ix, p, v) ==
    LET s == SidOf[v]
        old == ix.index[p][s]
        bound == {ix.index[q][s] : q \in AllStateKeys \ {p}}
    IN [store |-> (IF old \in bound THEN ix.store ELSE ix.store \ {old})
                      \cup {v},
        index |-> [ix.index EXCEPT ![p] = [@ EXCEPT ![s] = v]]]

(* Mutant of Pinned: any confirmed state may be invalidated. *)
PinnedNever(ix, v) == FALSE

(* The confirmed state of a quasi permanent entity survives invalidation;  *)
(* every other binding of the version goes, and the version with it.       *)
Pinned(ix, v) ==
    /\ ix.index[Confirmed][SidOf[v]] = v
    /\ SidOf[v] \in QuasiPermanent

InvalidateVersion(ix, v) ==
    IF v \notin ix.store THEN ix
    ELSE [store |-> IF Pinned(ix, v) THEN ix.store ELSE ix.store \ {v},
          index |-> [p \in AllStateKeys |-> [s \in Sid |->
              IF /\ s = SidOf[v]
                 /\ ix.index[p][s] = v
                 /\ p \in EphemeralStateKeys \/ ~Pinned(ix, v)
              THEN NoVersion
              ELSE ix.index[p][s]]]]

Eliminate(ix, s) ==
    [store |-> ix.store \ {ix.index[p][s] : p \in AllStateKeys},
     index |-> [p \in AllStateKeys |-> [ix.index[p] EXCEPT ![s] = NoVersion]]]
=============================================================================
