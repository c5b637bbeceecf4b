----------------------------- MODULE StateIndex -----------------------------
(***************************************************************************)
(* InMemoryStateIndex as a component of its own: any sequence of calls of  *)
(* the StateIndex trait, with any version of any entity.  The execution    *)
(* engine (module Executor) uses the operators of StateIndexOps in larger  *)
(* steps; what is shown here holds whatever the caller does.               *)
(***************************************************************************)
EXTENDS StateIndexOps

VARIABLE ix     \* [store, index]: the two maps

IndexInit == ix = EmptyIndex

PutConfirmed(v) == ix' = Put(ix, Confirmed, v)
PutUnconfirmed(v) == ix' = Put(ix, Unconfirmed, v)
PutPredicted(v) == ix' = Put(ix, Predicted, v)
PutFallback(v) == ix' = Put(ix, Fallback, v)
Invalidate(v) == ix' = InvalidateVersion(ix, v)
EliminateEntity(s) == ix' = Eliminate(ix, s)

IndexNext ==
    \/ \E v \in Version :
        \/ PutConfirmed(v)
        \/ PutUnconfirmed(v)
        \/ PutPredicted(v)
        \/ PutFallback(v)
        \/ Invalidate(v)
    \/ \E s \in Sid : EliminateEntity(s)

IndexSpec == IndexInit /\ [][IndexNext]_ix

-----------------------------------------------------------------------------
(* The store holds versions, and every prefix of every entity is bound to  *)
(* a version or to nothing.                                                *)
IndexTypeOK == ix \in StateIndexes

(* The two maps agree: the store holds exactly the versions some prefix is *)
(* bound to, each filed under its own entity.  Put drops the version a     *)
(* prefix leaves behind: not dropping it leaks it, dropping one another    *)
(* prefix uses leaves a dangling binding.                                  *)
StoreExact ==
    /\ \A p \in AllStateKeys, s \in Sid :
          ix.index[p][s] # NoVersion =>
              ix.index[p][s] \in ix.store /\ SidOf[ix.index[p][s]] = s
    /\ \A v \in ix.store : \E p \in AllStateKeys : ix.index[p][SidOf[v]] = v

(* The confirmed state of a quasi permanent entity (a pool) is never lost  *)
(* by itself: it is replaced by another confirmed state, or the entity is  *)
(* eliminated altogether.                                                  *)
ConfirmedPermanence ==
    [][\A s \in QuasiPermanent :
          /\ Get(ix, Confirmed, s) # NoVersion
          /\ Get(ix, Confirmed, s)' = NoVersion
          => \A p \in AllStateKeys : ix'.index[p][s] = NoVersion]_ix

(* Invalidation is final: a version that left the store is not what any    *)
(* entity resolves to, whichever prefixes it had been filed under.         *)
ResolvesToStored ==
    \A s \in Sid :
        /\ ResolveState(ix, s) # NoVersion => ResolveState(ix, s) \in ix.store
        /\ ResolveState(ix, s) = NoVersion =>
              \A v \in ix.store : SidOf[v] # s

(* The two maps of the index agree, whatever was put, moved or eliminated. *)
IndexExact == StoreExact /\ ResolvesToStored
=============================================================================
