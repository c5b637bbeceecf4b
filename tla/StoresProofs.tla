---------------------------- MODULE StoresProofs ----------------------------
(***************************************************************************)
(* Three stores, each for any contents and any sequence of calls: the      *)
(* index of states keeps its two maps consistent; the hot backlog counts   *)
(* its free places exactly, can pop every order it stores and implements   *)
(* the order pool; and what is on disk about graduated pools is what is in *)
(* memory.                                                                 *)
(***************************************************************************)
EXTENDS StateIndex, HotBacklog, EventSinks, FiniteSetTheorems, TLAPS

-----------------------------------------------------------------------------
(* The state index.  NoDanglingBinding and NoOrphanVersion are inductive   *)
(* together with the type invariant; each write is treated once, as a      *)
(* lemma on the operator of StateIndexOps.                                 *)

(* The consistency of an index value, as a predicate on the value itself.  *)
Consistent(i) ==
    /\ i \in StateIndexes
    /\ \A p \in AllStateKeys, s \in Sid :
          i.index[p][s] # NoVersion =>
              i.index[p][s] \in i.store /\ SidOf[i.index[p][s]] = s
    /\ \A v \in i.store : \E p \in AllStateKeys : i.index[p][SidOf[v]] = v

(* A fresh index is consistent. *)
LEMMA EmptyConsistent == Consistent(EmptyIndex)
BY StateIndexAssumption DEF Consistent, StateIndexes, EmptyIndex

(* Put keeps the index consistent: the version that leaves the store is    *)
(* bound nowhere else, because a version belongs to one entity only.       *)
LEMMA PutConsistent ==
    ASSUME NEW i, Consistent(i), NEW p \in AllStateKeys, NEW v \in Version
    PROVE  Consistent(Put(i, p, v))
<1> DEFINE s == SidOf[v]
           old == i.index[p][s]
           bound == {i.index[q][s] : q \in AllStateKeys \ {p}}
           j == Put(i, p, v)
<1>1. s \in Sid /\ v # NoVersion
  BY StateIndexAssumption
<1>2. i.store \in SUBSET Version
      /\ i.index \in [AllStateKeys -> [Sid -> Version \cup {NoVersion}]]
  BY DEF Consistent, StateIndexes
<1>3. /\ j.store = (IF old \in bound THEN i.store ELSE i.store \ {old}) \cup {v}
      /\ j.index = [i.index EXCEPT ![p] = [@ EXCEPT ![s] = v]]
      /\ j = [store |-> j.store, index |-> j.index]
  BY DEF Put
<1>4. \A q \in AllStateKeys, t \in Sid :
        j.index[q][t] = IF q = p /\ t = s THEN v ELSE i.index[q][t]
  BY <1>1, <1>2, <1>3
<1>5. j \in StateIndexes
  <2>1. j.store \in SUBSET Version
    BY <1>2, <1>3
  <2>2. j.index \in [AllStateKeys -> [Sid -> Version \cup {NoVersion}]]
    BY <1>1, <1>2, <1>3
  <2> QED BY <2>1, <2>2, <1>3 DEF StateIndexes
<1>6. ASSUME NEW q \in AllStateKeys, NEW t \in Sid, j.index[q][t] # NoVersion
      PROVE  j.index[q][t] \in j.store /\ SidOf[j.index[q][t]] = t
  <2>1. CASE q = p /\ t = s
    BY <2>1, <1>3, <1>4
  <2>2. CASE ~(q = p /\ t = s)
    <3>1. j.index[q][t] = i.index[q][t]
      BY <2>2, <1>4
    <3>2. i.index[q][t] \in i.store /\ SidOf[i.index[q][t]] = t
      BY <3>1, <1>6 DEF Consistent
    <3>3. old \notin bound => i.index[q][t] # old
      <4>1. CASE t = s
        BY <4>1, <2>2
      <4>2. CASE t # s
        <5>1. i.index[q][t] = old => old # NoVersion
          BY <3>1, <1>6
        <5>2. old # NoVersion => SidOf[old] = s
          BY <1>1 DEF Consistent
        <5> QED BY <4>2, <5>1, <5>2, <3>2
      <4> QED BY <4>1, <4>2
    <3> QED BY <3>1, <3>2, <3>3, <1>3, Zenon
  <2> QED BY <2>1, <2>2
<1>7. ASSUME NEW w \in j.store
      PROVE  \E q \in AllStateKeys : j.index[q][SidOf[w]] = w
  <2>1. CASE w = v
    BY <2>1, <1>1, <1>4
  <2>2. CASE w # v
    <3>1. w \in i.store /\ (old \notin bound => w # old) /\ SidOf[w] \in Sid
      BY <2>2, <1>2, <1>3, StateIndexAssumption, Zenon
    <3>2. PICK q \in AllStateKeys : i.index[q][SidOf[w]] = w
      BY <3>1 DEF Consistent
    <3>3. CASE ~(q = p /\ SidOf[w] = s)
      BY <3>1, <3>2, <3>3, <1>4
    <3>4. CASE q = p /\ SidOf[w] = s
      <4>1. w = old
        BY <3>2, <3>4
      <4>2. PICK r \in AllStateKeys \ {p} : i.index[r][s] = w
        BY <4>1, <3>1
      <4> QED BY <4>2, <3>4, <1>1, <1>4
    <3> QED BY <3>3, <3>4
  <2> QED BY <2>1, <2>2
<1> QED BY <1>5, <1>6, <1>7 DEF Consistent

(* Invalidation keeps the index consistent: the version leaves the store   *)
(* exactly when its last binding goes.                                     *)
LEMMA InvalidateConsistent ==
    ASSUME NEW i, Consistent(i), NEW v \in Version
    PROVE  Consistent(InvalidateVersion(i, v))
<1> DEFINE j == InvalidateVersion(i, v)
<1>1. CASE v \notin i.store
  BY <1>1 DEF InvalidateVersion
<1>2. CASE v \in i.store
  <2>1. i.store \in SUBSET Version
        /\ i.index \in [AllStateKeys -> [Sid -> Version \cup {NoVersion}]]
    BY DEF Consistent, StateIndexes
  <2>2. /\ j.store = IF Pinned(i, v) THEN i.store ELSE i.store \ {v}
        /\ j.index = [p \in AllStateKeys |-> [s \in Sid |->
              IF /\ s = SidOf[v]
                 /\ i.index[p][s] = v
                 /\ p \in EphemeralStateKeys \/ ~Pinned(i, v)
              THEN NoVersion
              ELSE i.index[p][s]]]
        /\ j = [store |-> j.store, index |-> j.index]
    BY <1>2, Zenon DEF InvalidateVersion
  <2>3. j \in StateIndexes
    <3>1. j.store \in SUBSET Version
      BY <2>1, <2>2
    <3>2. j.index \in [AllStateKeys -> [Sid -> Version \cup {NoVersion}]]
      BY <2>1, <2>2
    <3> QED BY <3>1, <3>2, <2>2 DEF StateIndexes
  <2>4. \A q \in AllStateKeys, t \in Sid :
          j.index[q][t] = IF /\ t = SidOf[v]
                             /\ i.index[q][t] = v
                             /\ q \in EphemeralStateKeys \/ ~Pinned(i, v)
                          THEN NoVersion ELSE i.index[q][t]
    BY <2>2
  <2>5. ASSUME NEW q \in AllStateKeys, NEW t \in Sid, j.index[q][t] # NoVersion
        PROVE  j.index[q][t] \in j.store /\ SidOf[j.index[q][t]] = t
    <3>1. j.index[q][t] = i.index[q][t]
      BY <2>4, <2>5
    <3>2. i.index[q][t] \in i.store /\ SidOf[i.index[q][t]] = t
      BY <3>1, <2>5 DEF Consistent
    <3>3. ~Pinned(i, v) => i.index[q][t] # v
      BY <3>2, <2>4, <2>5
    <3> QED BY <3>1, <3>2, <3>3, <2>2
  <2>6. ASSUME NEW w \in j.store
        PROVE  \E q \in AllStateKeys : j.index[q][SidOf[w]] = w
    <3>1. w \in i.store /\ w \in Version /\ SidOf[w] \in Sid
          /\ (~Pinned(i, v) => w # v)
      BY <2>1, <2>2, StateIndexAssumption
    <3>2. CASE w = v
      <4>1. Pinned(i, v)
        BY <3>1, <3>2
      <4>2. j.index[Confirmed][SidOf[v]] = v
        BY <4>1, <3>1, <3>2, <2>4 DEF Pinned, AllStateKeys, EphemeralStateKeys,
           Confirmed, Unconfirmed, Predicted, Fallback
      <4> QED BY <4>2, <3>2 DEF AllStateKeys
    <3>3. CASE w # v
      <4>1. PICK q \in AllStateKeys : i.index[q][SidOf[w]] = w
        BY <3>1 DEF Consistent
      <4> QED BY <4>1, <3>1, <3>3, <2>4
    <3> QED BY <3>2, <3>3
  <2> QED BY <2>3, <2>5, <2>6 DEF Consistent
<1> QED BY <1>1, <1>2

(* Elimination keeps the index consistent: it removes every binding of the *)
(* entity and exactly the versions they pointed to.                        *)
LEMMA EliminateConsistent ==
    ASSUME NEW i, Consistent(i), NEW s \in Sid
    PROVE  Consistent(Eliminate(i, s))
<1> DEFINE j == Eliminate(i, s)
<1>1. i.store \in SUBSET Version
      /\ i.index \in [AllStateKeys -> [Sid -> Version \cup {NoVersion}]]
  BY DEF Consistent, StateIndexes
<1>2. /\ j.store = i.store \ {i.index[p][s] : p \in AllStateKeys}
      /\ j.index = [p \in AllStateKeys |-> [i.index[p] EXCEPT ![s] = NoVersion]]
      /\ j = [store |-> j.store, index |-> j.index]
  BY DEF Eliminate
<1>3. \A q \in AllStateKeys, t \in Sid :
        j.index[q][t] = IF t = s THEN NoVersion ELSE i.index[q][t]
  BY <1>1, <1>2
<1>4. j \in StateIndexes
  <2>1. j.store \in SUBSET Version
    BY <1>1, <1>2
  <2>2. j.index \in [AllStateKeys -> [Sid -> Version \cup {NoVersion}]]
    BY <1>1, <1>2
  <2> QED BY <2>1, <2>2, <1>2 DEF StateIndexes
<1>5. ASSUME NEW q \in AllStateKeys, NEW t \in Sid, j.index[q][t] # NoVersion
      PROVE  j.index[q][t] \in j.store /\ SidOf[j.index[q][t]] = t
  <2>1. t # s /\ j.index[q][t] = i.index[q][t]
    BY <1>3, <1>5
  <2>2. i.index[q][t] \in i.store /\ SidOf[i.index[q][t]] = t
    BY <2>1, <1>5 DEF Consistent
  <2>3. \A p \in AllStateKeys : i.index[p][s] # i.index[q][t]
    BY <2>1, <2>2, <1>5 DEF Consistent
  <2> QED BY <2>1, <2>2, <2>3, <1>2
<1>6. ASSUME NEW w \in j.store
      PROVE  \E q \in AllStateKeys : j.index[q][SidOf[w]] = w
  <2>1. w \in i.store /\ SidOf[w] \in Sid
        /\ \A p \in AllStateKeys : i.index[p][s] # w
    BY <1>1, <1>2, StateIndexAssumption
  <2>2. PICK q \in AllStateKeys : i.index[q][SidOf[w]] = w
    BY <2>1 DEF Consistent
  <2> QED BY <2>1, <2>2, <1>3
<1> QED BY <1>4, <1>5, <1>6 DEF Consistent

(* Every reachable index is consistent. *)
THEOREM IndexConsistent == IndexSpec => []Consistent(ix)
<1>1. IndexInit => Consistent(ix)
  BY EmptyConsistent DEF IndexInit
<1>2. Consistent(ix) /\ [IndexNext]_ix => Consistent(ix)'
  <2> SUFFICES ASSUME Consistent(ix), [IndexNext]_ix
               PROVE  Consistent(ix')
    BY DEF Consistent
  <2>1. ASSUME NEW v \in Version, PutConfirmed(v)
        PROVE  Consistent(ix')
    BY <2>1, PutConsistent DEF PutConfirmed, AllStateKeys
  <2>2. ASSUME NEW v \in Version, PutUnconfirmed(v)
        PROVE  Consistent(ix')
    BY <2>2, PutConsistent DEF PutUnconfirmed, AllStateKeys
  <2>3. ASSUME NEW v \in Version, PutPredicted(v)
        PROVE  Consistent(ix')
    BY <2>3, PutConsistent DEF PutPredicted, AllStateKeys
  <2>4. ASSUME NEW v \in Version, PutFallback(v)
        PROVE  Consistent(ix')
    BY <2>4, PutConsistent DEF PutFallback, AllStateKeys
  <2>5. ASSUME NEW v \in Version, Invalidate(v)
        PROVE  Consistent(ix')
    BY <2>5, InvalidateConsistent DEF Invalidate
  <2>6. ASSUME NEW s \in Sid, EliminateEntity(s)
        PROVE  Consistent(ix')
    BY <2>6, EliminateConsistent DEF EliminateEntity
  <2>7. CASE UNCHANGED ix
    BY <2>7
  <2> QED BY <2>1, <2>2, <2>3, <2>4, <2>5, <2>6, <2>7 DEF IndexNext
<1> QED BY <1>1, <1>2, PTL DEF IndexSpec

(* Both maps keep their types. *)
THEOREM TypeCorrect == IndexSpec => []IndexTypeOK
<1>1. Consistent(ix) => IndexTypeOK
  BY DEF Consistent, IndexTypeOK
<1> QED BY <1>1, IndexConsistent, PTL

(* The store and the bindings of any reachable index agree. *)
THEOREM StoreCorrect == IndexSpec => []StoreExact
<1>1. Consistent(ix) => StoreExact
  BY DEF Consistent, StoreExact
<1> QED BY <1>1, IndexConsistent, PTL

(* An entity resolves to a stored state whenever it has one.  *)
THEOREM ResolutionComplete == IndexSpec => []ResolvesToStored
<1>1. Consistent(ix) => ResolvesToStored
  <2> SUFFICES ASSUME Consistent(ix), NEW s \in Sid
               PROVE  /\ ResolveState(ix, s) # NoVersion =>
                              ResolveState(ix, s) \in ix.store
                      /\ ResolveState(ix, s) = NoVersion =>
                              \A v \in ix.store : SidOf[v] # s
    BY Zenon DEF ResolvesToStored
  <2>1. \A p \in AllStateKeys : /\ Get(ix, p, s) = ix.index[p][s]
                                /\ Get(ix, p, s) # NoVersion =>
                                       Get(ix, p, s) \in ix.store
    <3> SUFFICES ASSUME NEW p \in AllStateKeys
                 PROVE  /\ Get(ix, p, s) = ix.index[p][s]
                        /\ Get(ix, p, s) # NoVersion => Get(ix, p, s) \in ix.store
      OBVIOUS
    <3>1. CASE ix.index[p][s] = NoVersion
      BY <3>1, StateIndexAssumption DEF Get, Consistent, StateIndexes
    <3>2. CASE ix.index[p][s] # NoVersion
      BY <3>2 DEF Get, Consistent
    <3> QED BY <3>1, <3>2
  <2>2. ResolveState(ix, s) \in {Get(ix, p, s) : p \in AllStateKeys}
    BY DEF ResolveState, AllStateKeys
  <2>3. ResolveState(ix, s) = NoVersion =>
            \A p \in AllStateKeys : Get(ix, p, s) = NoVersion
    BY DEF ResolveState, AllStateKeys
  <2>4. ASSUME ResolveState(ix, s) = NoVersion, NEW v \in ix.store, SidOf[v] = s
        PROVE  FALSE
    <3>1. PICK p \in AllStateKeys : ix.index[p][s] = v
      BY <2>4 DEF Consistent
    <3>2. v # NoVersion
      BY StateIndexAssumption DEF Consistent, StateIndexes
    <3> QED BY <3>1, <3>2, <2>1, <2>3, <2>4
  <2> QED BY <2>1, <2>2, <2>4
<1> QED BY <1>1, IndexConsistent, PTL

(* The two maps agree and resolution is complete, for any entities and     *)
(* versions: IndexExact.                                                   *)
THEOREM IndexCorrect == IndexSpec => []IndexExact
<1>1. StoreExact /\ ResolvesToStored => IndexExact
  BY DEF IndexExact
<1> QED BY <1>1, StoreCorrect, ResolutionComplete, PTL

(* A pool's confirmed state goes only when the pool is eliminated.  *)
THEOREM PermanentConfirmed == IndexSpec => ConfirmedPermanence
<1> DEFINE Keeps(s) ==
        /\ Get(ix, Confirmed, s) # NoVersion
        /\ Get(ix, Confirmed, s)' = NoVersion
        => \A p \in AllStateKeys : ix'.index[p][s] = NoVersion
<1>1. ASSUME Consistent(ix), Consistent(ix'), [IndexNext]_ix, NEW s \in QuasiPermanent
      PROVE  Keeps(s)
  <2>1. s \in Sid /\ Confirmed \in AllStateKeys
    BY StateIndexAssumption DEF AllStateKeys
  <2>2. /\ Get(ix, Confirmed, s) # NoVersion => ix.index[Confirmed][s] # NoVersion
        /\ Get(ix, Confirmed, s)' = NoVersion => ix'.index[Confirmed][s] = NoVersion
    BY <1>1, <2>1, StateIndexAssumption DEF Get, Consistent, StateIndexes
  <2>3. ix.index \in [AllStateKeys -> [Sid -> Version \cup {NoVersion}]]
    BY <1>1 DEF Consistent, StateIndexes
  <2>4. ASSUME NEW p \in AllStateKeys, NEW v \in Version, ix' = Put(ix, p, v)
        PROVE  Keeps(s)
    <3>1. SidOf[v] \in Sid /\ v # NoVersion
      BY StateIndexAssumption
    <3>2. ix'.index[Confirmed][s] = IF p = Confirmed /\ SidOf[v] = s THEN v
                                    ELSE ix.index[Confirmed][s]
      BY <2>1, <2>3, <2>4, <3>1 DEF Put
    <3> QED BY <2>2, <3>1, <3>2
  <2>5. ASSUME NEW v \in Version, Invalidate(v)
        PROVE  Keeps(s)
    <3>1. CASE v \notin ix.store
      BY <3>1, <2>2, <2>5 DEF Invalidate, InvalidateVersion
    <3>2. CASE v \in ix.store
      <4>1. ix'.index[Confirmed][s] =
               IF s = SidOf[v] /\ ix.index[Confirmed][s] = v /\ ~Pinned(ix, v)
               THEN NoVersion ELSE ix.index[Confirmed][s]
        BY <3>2, <2>1, <2>5 DEF Invalidate, InvalidateVersion, EphemeralStateKeys,
           Confirmed, Unconfirmed, Predicted, Fallback
      <4>2. s = SidOf[v] /\ ix.index[Confirmed][s] = v => Pinned(ix, v)
        BY DEF Pinned
      <4> QED BY <4>1, <4>2, <2>2
    <3> QED BY <3>1, <3>2
  <2>6. ASSUME NEW t \in Sid, EliminateEntity(t)
        PROVE  Keeps(s)
    <3>1. \A p \in AllStateKeys :
             ix'.index[p][s] = IF s = t THEN NoVersion ELSE ix.index[p][s]
      BY <2>1, <2>3, <2>6 DEF EliminateEntity, Eliminate
    <3> QED BY <3>1, <2>1, <2>2
  <2>7. CASE UNCHANGED ix
    BY <2>7, <2>2
  <2> QED
    BY <1>1, <2>4, <2>5, <2>6, <2>7
    DEF IndexNext, PutConfirmed, PutUnconfirmed, PutPredicted, PutFallback, AllStateKeys
<1>2. Consistent(ix) /\ Consistent(ix)' /\ [IndexNext]_ix
        => [\A s \in QuasiPermanent :
              /\ Get(ix, Confirmed, s) # NoVersion
              /\ Get(ix, Confirmed, s)' = NoVersion
              => \A p \in AllStateKeys : ix'.index[p][s] = NoVersion]_ix
  BY <1>1 DEF Consistent
<1> QED BY <1>2, IndexConsistent, PTL DEF IndexSpec, ConfirmedPermanence

-----------------------------------------------------------------------------
(* The hot backlog. *)

Filters == [buffer : Seq(Order), filter : SUBSET Order]

Backlogs ==
    [queue : SUBSET Order, store : SUBSET Order, soft : Filters, capacity : Nat]

(* The inductive invariant: the counter can only be shown exact together   *)
(* with the finiteness of the store, and a popped order is a heaviest one  *)
(* of the store only if the whole store is queued.                         *)
Sound(b) ==
    /\ b \in Backlogs
    /\ IsFiniteSet(b.store)
    /\ b.capacity + Cardinality(b.store) = BacklogCap
    /\ b.store \subseteq b.queue

IInv == Sound(hb) /\ out \in Order \cup {NoOrder}

(* add keeps a filter over the orders a filter over the orders. *)
LEMMA FilterAddType ==
    ASSUME NEW f \in Filters, NEW o \in Order
    PROVE  FilterAdd(SoftCap, f, o) \in Filters
<1>1. CASE o \in f.filter \/ Len(f.buffer) < SoftCap
  BY <1>1 DEF FilterAdd, Filters
<1>2. CASE ~(o \in f.filter \/ Len(f.buffer) < SoftCap)
  <2>1. Len(f.buffer) \in Nat /\ Len(f.buffer) # 0
    BY <1>2, HotBacklogAssumption DEF Filters
  <2>2. Tail(f.buffer) \in Seq(Order)
    BY <2>1 DEF Filters
  <2>3. Append(Tail(f.buffer), o) \in Seq(Order)
    BY <2>2
  <2> QED
    BY <1>2, <2>3 DEF FilterAdd, Filters
<1> QED
  BY <1>1, <1>2

(* add marks the element and forgets at most one. *)
LEMMA FilterAddMarks ==
    ASSUME NEW f \in Filters, NEW o \in Order
    PROVE  \E q \in Order \cup {NoOrder} :
              FilterAdd(SoftCap, f, o).filter = (f.filter \cup {o}) \ {q}
<1>1. CASE o \in f.filter \/ Len(f.buffer) < SoftCap
  <2>1. FilterAdd(SoftCap, f, o).filter = f.filter \cup {o}
    BY <1>1 DEF FilterAdd
  <2>2. NoOrder \notin f.filter \cup {o}
    BY HotBacklogAssumption DEF Filters
  <2> QED
    BY <2>1, <2>2
<1>2. CASE ~(o \in f.filter \/ Len(f.buffer) < SoftCap)
  <2>1. f.buffer \in Seq(Order) /\ Len(f.buffer) \in Nat /\ Len(f.buffer) # 0
    BY <1>2, HotBacklogAssumption DEF Filters
  <2>2. Head(f.buffer) \in Order
    BY <2>1
  <2>3. FilterAdd(SoftCap, f, o).filter = (f.filter \cup {o}) \ {Head(f.buffer)}
    BY <1>2 DEF FilterAdd
  <2> QED
    BY <2>2, <2>3
<1> QED
  BY <1>1, <1>2

(* The free places of a sound backlog are at most its capacity. *)
LEMMA CapacityRange ==
    ASSUME NEW b, Sound(b)
    PROVE  /\ Cardinality(b.store) \in Nat
           /\ b.capacity \in 0..BacklogCap
<1>1. Cardinality(b.store) \in Nat
  BY FS_CardinalityType DEF Sound
<1> QED
  BY <1>1, HotBacklogAssumption DEF Sound, Backlogs

(* A new backlog is empty and has all its places free. *)
LEMMA EmptySound == Sound(EmptyBacklog)
<1>1. IsFiniteSet({}) /\ Cardinality({}) = 0
  BY FS_EmptySet
<1> QED
  BY <1>1, HotBacklogAssumption
  DEF Sound, EmptyBacklog, Backlogs, Filters, EmptyFilter

(* When put lets an order in. *)
Welcome(b, o) ==
    Cardinality(b.store) < BacklogCap /\ o \notin b.store /\ o \notin b.soft.filter

(* put takes a place only for an order that was not stored, and refuses an *)
(* order only when it is stored or marked or there is no place.            *)
LEMMA PutSound ==
    ASSUME NEW b, NEW o \in Order, Sound(b)
    PROVE  /\ Sound(BacklogPut(b, o))
           /\ BacklogPut(b, o).soft = b.soft
           /\ BacklogPut(b, o).store = IF Welcome(b, o) THEN b.store \cup {o} ELSE b.store
<1>0. b.capacity > 0 <=> Cardinality(b.store) < BacklogCap
  BY CapacityRange, HotBacklogAssumption DEF Sound
<1>1. CASE b.capacity > 0 /\ o \notin b.store /\ ~FilterContains(b.soft, o)
  <2>1. /\ IsFiniteSet(b.store \cup {o})
        /\ Cardinality(b.store \cup {o}) = Cardinality(b.store) + 1
    BY <1>1, FS_AddElement DEF Sound
  <2>2. Cardinality(b.store) \in Nat /\ b.capacity \in Nat
    BY CapacityRange DEF Sound, Backlogs
  <2>3. BacklogPut(b, o) =
          [queue |-> b.queue \cup {o}, store |-> b.store \cup {o},
           soft |-> b.soft, capacity |-> b.capacity - 1]
    BY <1>1, Zenon DEF BacklogPut, Sound, Backlogs
  <2>4. Sound(BacklogPut(b, o))
    BY <1>1, <2>1, <2>2, <2>3, HotBacklogAssumption DEF Sound, Backlogs
  <2>5. Welcome(b, o)
    BY <1>0, <1>1 DEF Welcome, FilterContains
  <2> QED
    BY <2>3, <2>4, <2>5
<1>2. CASE ~(b.capacity > 0 /\ o \notin b.store /\ ~FilterContains(b.soft, o))
  <2>1. BacklogPut(b, o) = b
    BY <1>2 DEF BacklogPut
  <2>2. ~Welcome(b, o)
    BY <1>0, <1>2 DEF Welcome, FilterContains
  <2> QED
    BY <2>1, <2>2
<1> QED
  BY <1>1, <1>2

(* try_pop returns a heaviest stored order and frees its place, or the     *)
(* store is empty.                                                         *)
LEMMA PopSound ==
    ASSUME NEW b, Sound(b), NEW r \in BacklogPops(b)
    PROVE  /\ Sound(r.next)
           /\ r.ord \in Order \cup {NoOrder}
           /\ r.next.soft = b.soft
           /\ \/ /\ r.ord = NoOrder
                 /\ b.store = {}
                 /\ r.next.store = b.store
              \/ /\ r.ord \in b.store
                 /\ \A p \in b.store : Weight[p] <= Weight[r.ord]
                 /\ r.next.store = b.store \ {r.ord}
<1>1. CASE b.queue \cap b.store = {}
  <2>1. r = [ord |-> NoOrder, next |-> [b EXCEPT !.queue = {}]]
    BY <1>1 DEF BacklogPops
  <2>2. b.store = {}
    BY <1>1 DEF Sound
  <2> QED
    BY <2>1, <2>2, HotBacklogAssumption, Zenon DEF Sound, Backlogs
<1>2. CASE b.queue \cap b.store # {}
  <2>0. PICK o \in BestOrders(b) :
          \E Q \in QueuesAfter(b, o) :
              r = [ord |-> o, next |-> [b EXCEPT !.queue = Q, !.store = @ \ {o},
                                                 !.capacity = @ + 1]]
    BY <1>2, Zenon DEF BacklogPops
  <2>1. PICK Q \in QueuesAfter(b, o) :
          r = [ord |-> o, next |-> [b EXCEPT !.queue = Q, !.store = @ \ {o},
                                             !.capacity = @ + 1]]
    BY <2>0, Zenon
  <2>2. /\ o \in b.store
        /\ \A p \in b.store : Weight[p] <= Weight[o]
    BY DEF BestOrders, Sound
  <2>3. Q \subseteq b.queue /\ b.store \ {o} \subseteq Q
    BY DEF QueuesAfter, Sound
  <2>4. /\ IsFiniteSet(b.store \ {o})
        /\ Cardinality(b.store \ {o}) = Cardinality(b.store) - 1
    BY <2>2, FS_RemoveElement DEF Sound
  <2>5. r.next = [queue |-> Q, store |-> b.store \ {o}, soft |-> b.soft,
                  capacity |-> b.capacity + 1]
    BY <2>1, Zenon DEF Sound, Backlogs
  <2>6. Cardinality(b.store) \in Nat /\ b.capacity \in Nat
    BY CapacityRange DEF Sound, Backlogs
  <2>7. r.next \in Backlogs
    BY <2>3, <2>5, <2>6 DEF Sound, Backlogs
  <2>8. r.next.capacity + Cardinality(r.next.store) = BacklogCap
    BY <2>4, <2>5, <2>6, HotBacklogAssumption DEF Sound
  <2>9. Sound(r.next)
    BY <2>3, <2>4, <2>5, <2>7, <2>8 DEF Sound
  <2> QED
    BY <2>1, <2>2, <2>5, <2>9 DEF Sound, Backlogs
<1> QED
  BY <1>1, <1>2
(* remove frees a place only if the order was stored. *)
LEMMA RemoveSound ==
    ASSUME NEW b, NEW o \in Order, Sound(b)
    PROVE  /\ Sound(BacklogRemove(b, o))
           /\ BacklogRemove(b, o).store = b.store \ {o}
           /\ BacklogRemove(b, o).soft.filter = b.soft.filter \ {o}
<1> DEFINE c == BacklogRemove(b, o)
<1>0. FilterRemove(b.soft, o) \in Filters
  BY DEF FilterRemove, Sound, Backlogs, Filters
<1>1. /\ c.store = b.store \ {o}
      /\ c.queue = b.queue
      /\ c.capacity = IF o \in b.store THEN b.capacity + 1 ELSE b.capacity
      /\ c \in Backlogs
      /\ c.soft = FilterRemove(b.soft, o)
  <2>1. b.capacity + 1 \in Nat /\ b.capacity \in Nat
    BY DEF Sound, Backlogs
  <2>2. c = [queue |-> b.queue, store |-> b.store \ {o},
             soft |-> FilterRemove(b.soft, o),
             capacity |-> IF o \in b.store THEN b.capacity + 1 ELSE b.capacity]
    BY DEF BacklogRemove
  <2> HIDE DEF c
  <2> QED
    BY <1>0, <2>1, <2>2 DEF Sound, Backlogs
<1>2. Cardinality(b.store) \in Nat /\ b.capacity \in Nat
  BY CapacityRange DEF Sound, Backlogs
<1>3. /\ IsFiniteSet(b.store \ {o})
      /\ Cardinality(b.store \ {o}) =
            IF o \in b.store THEN Cardinality(b.store) - 1
                             ELSE Cardinality(b.store)
  BY FS_RemoveElement DEF Sound
<1>4. FilterRemove(b.soft, o).filter = b.soft.filter \ {o}
  BY DEF FilterRemove, Sound, Backlogs, Filters
<1> HIDE DEF c
<1>5. Sound(c)
  BY <1>1, <1>2, <1>3, HotBacklogAssumption DEF Sound
<1> QED
  BY <1>1, <1>4, <1>5 DEF c

(* soft_evict leaves queue, store and capacity alone. *)
LEMMA SoftEvictSound ==
    ASSUME NEW b, NEW o \in Order, Sound(b)
    PROVE  /\ Sound(BacklogSoftEvict(b, o))
           /\ BacklogSoftEvict(b, o).store = b.store
           /\ \E q \in Order \cup {NoOrder} :
                BacklogSoftEvict(b, o).soft.filter = (b.soft.filter \cup {o}) \ {q}
<1>1. FilterAdd(SoftCap, b.soft, o) \in Filters
  BY FilterAddType DEF Sound, Backlogs
<1>2. \E q \in Order \cup {NoOrder} :
        FilterAdd(SoftCap, b.soft, o).filter = (b.soft.filter \cup {o}) \ {q}
  BY FilterAddMarks DEF Sound, Backlogs
<1> DEFINE g == FilterAdd(SoftCap, b.soft, o)
<1>3. /\ BacklogSoftEvict(b, o) \in Backlogs
      /\ BacklogSoftEvict(b, o).queue = b.queue
      /\ BacklogSoftEvict(b, o).store = b.store
      /\ BacklogSoftEvict(b, o).soft = g
      /\ BacklogSoftEvict(b, o).capacity = b.capacity
  BY <1>1 DEF BacklogSoftEvict, Sound, Backlogs
<1> HIDE DEF g
<1> QED
  BY <1>2, <1>3 DEF g, Sound

-----------------------------------------------------------------------------
(* Every reachable backlog is sound. *)
THEOREM BacklogSound == BacklogSpec => []IInv
<1>1. BacklogInit => IInv
  BY EmptySound DEF BacklogInit, IInv
<1>2. IInv /\ [BacklogNext]_backlogVars => IInv'
  <2> SUFFICES ASSUME IInv, [BacklogNext]_backlogVars PROVE IInv'
    OBVIOUS
  <2>1. CASE TryPop
    BY <2>1, PopSound DEF IInv, TryPop
  <2>2. ASSUME NEW o \in Order, PutOrder(o) PROVE IInv'
    BY <2>2, PutSound, Zenon DEF IInv, PutOrder
  <2>3. ASSUME NEW o \in Order, RemoveOrder(o) PROVE IInv'
    BY <2>3, RemoveSound DEF IInv, RemoveOrder
  <2>4. ASSUME NEW o \in Order, SoftEvict(o) PROVE IInv'
    BY <2>4, SoftEvictSound DEF IInv, SoftEvict
  <2>5. CASE UNCHANGED backlogVars
    BY <2>5 DEF IInv, backlogVars
  <2> QED
    BY <2>1, <2>2, <2>3, <2>4, <2>5 DEF BacklogNext
<1> QED
  BY <1>1, <1>2, PTL DEF BacklogSpec

(* Free places and stored orders always add up to the capacity. *)
THEOREM CapacityCorrect == BacklogSpec => []CapacityExact
<1>1. IInv => CapacityExact
  BY DEF IInv, Sound, CapacityExact
<1> QED
  BY <1>1, BacklogSound, PTL

(* No stored order is out of reach of try_pop. *)
THEOREM NothingStranded == BacklogSpec => []StoredIsQueued
<1>1. IInv => StoredIsQueued
  BY DEF IInv, Sound, StoredIsQueued
<1> QED
  BY <1>1, BacklogSound, PTL

(* No place of the backlog is ever lost, for any capacity and orders:      *)
(* BacklogExact.                                                           *)
THEOREM BacklogCorrect == BacklogSpec => []BacklogExact
<1>1. CapacityExact /\ StoredIsQueued => BacklogExact
  BY DEF BacklogExact
<1> QED
  BY <1>1, CapacityCorrect, NothingStranded, PTL

(* The backlog implements the order pool, call by call: no order is        *)
(* refused that the pool would welcome, none is held back from try_pop,    *)
(* and none leaves but by try_pop or by the remove that names it.          *)
THEOREM PoolRefinement == BacklogSpec => ImplementsPool
<1>1. BacklogInit => Pool!Init
  BY DEF BacklogInit, Called, EmptyBacklog, EmptyFilter, Pool!Init
<1>2. IInv /\ [BacklogNext]_backlogVars => [Pool!Next]_(Pool!poolVars)
  <2> SUFFICES ASSUME IInv, [BacklogNext]_backlogVars
               PROVE  Pool!Next \/ UNCHANGED Pool!poolVars
    OBVIOUS
  <2>1. CASE TryPop
    <3>1. PICK r \in BacklogPops(hb) :
            /\ hb' = r.next /\ out' = r.ord
            /\ call' = Called("try_pop", NoOrder)
      BY <2>1 DEF TryPop
    <3>2. hb'.soft = hb.soft
      BY <3>1, PopSound DEF IInv
    <3>3. \/ out' = NoOrder /\ hb.store = {} /\ hb'.store = hb.store
          \/ /\ out' \in hb.store
             /\ \A p \in hb.store : Weight[p] <= Weight[out']
             /\ hb'.store = hb.store \ {out'}
      BY <3>1, PopSound DEF IInv
    <3>4. Pool!TakeBest \/ Pool!TakeNone
      BY <3>1, <3>2, <3>3 DEF Called, Pool!TakeBest, Pool!TakeNone, Pool!Call
    <3> QED
      BY <3>4 DEF Pool!Next
  <2>2. ASSUME NEW o \in Order, PutOrder(o) PROVE Pool!Keep(o) \/ Pool!Refuse(o)
    <3>1. Pool!Cardinality(hb.store) = Cardinality(hb.store)
      BY DEF Pool!Cardinality, Cardinality
    <3>2. Pool!Welcome(o) <=> Welcome(hb, o)
      BY <3>1 DEF Pool!Welcome, Welcome
    <3>3. /\ hb'.soft = hb.soft
          /\ hb'.store = IF Welcome(hb, o) THEN hb.store \cup {o} ELSE hb.store
          /\ call' = [name |-> "put", arg |-> o] /\ out' = NoOrder
      BY <2>2, PutSound, Zenon DEF IInv, PutOrder, Called
    <3> QED
      BY <3>2, <3>3 DEF Pool!Keep, Pool!Refuse, Pool!Call
  <2>3. ASSUME NEW o \in Order, RemoveOrder(o) PROVE Pool!Drop(o)
    BY <2>3, RemoveSound DEF IInv, RemoveOrder, Called, Pool!Drop, Pool!Call
  <2>4. ASSUME NEW o \in Order, SoftEvict(o) PROVE Pool!Mark(o)
    BY <2>4, SoftEvictSound DEF IInv, SoftEvict, Called, Pool!Mark, Pool!Call
  <2>5. CASE UNCHANGED backlogVars
    BY <2>5 DEF backlogVars, Pool!poolVars
  <2> QED
    BY <2>1, <2>2, <2>3, <2>4, <2>5 DEF BacklogNext, Pool!Next
<1> QED
  BY <1>1, <1>2, BacklogSound, PTL DEF BacklogSpec, Pool!Spec, ImplementsPool

-----------------------------------------------------------------------------
(* The record of graduated pools.  Memory and disk are written by          *)
(* different code and in different forms, so the argument is that each     *)
(* pair of writes commutes with loading.                                   *)

Pairs(s) == \A p \in s : p = <<p[1], p[2]>>

\* An entry of the journal as the handler makes it, or as it is loaded.
Entry(e) ==
    /\ e = [consumed |-> e.consumed, produced |-> e.produced, graduated |-> e.graduated]
    /\ Pairs(e.consumed) /\ Pairs(e.produced)

DbTyped(db) == Pairs(db.inputs) /\ Pairs(db.journal)

\* The strengthening of DurableExact: it also holds while the process is down,
\* and what is on disk consists of pairs.
DurableInv == LoadState(gdb) = grad /\ DbTyped(gdb)

-----------------------------------------------------------------------------
\* What is written to the journal (encode_journal_entry) is read back as it was.
LEMMA JournalRoundTrip ==
  ASSUME NEW e, Entry(e)
  PROVE  ParseJournalEntry(EncodeJournalEntry(e)) = e
<1> DEFINE lines == EncodeJournalEntry(e)
           c(p) == <<"C", p[1], p[2]>>
           m(p) == <<"P", p[1], p[2]>>
           g(id) == <<"G", id, id>>
<1>1. lines = {c(p) : p \in e.consumed} \cup {m(p) : p \in e.produced} \cup {g(id) : id \in e.graduated}
  BY DEF EncodeJournalEntry
<1>2. /\ \A p : c(p)[1] = "C" /\ c(p)[2] = p[1] /\ c(p)[3] = p[2]
      /\ \A p : m(p)[1] = "P" /\ m(p)[2] = p[1] /\ m(p)[3] = p[2]
      /\ \A id : g(id)[1] = "G" /\ g(id)[2] = id
  OBVIOUS
<1>3. "C" # "P" /\ "C" # "G" /\ "P" # "G"
  OBVIOUS
<1>4. \A p \in e.consumed \cup e.produced : p = <<p[1], p[2]>>
  BY DEF Entry, Pairs
<1> HIDE DEF lines, c, m, g
<1>5. /\ {l \in lines : l[1] = "C"} = {c(p) : p \in e.consumed}
      /\ {l \in lines : l[1] = "P"} = {m(p) : p \in e.produced}
      /\ {l \in lines : l[1] = "G"} = {g(id) : id \in e.graduated}
  <2>1. {l \in lines : l[1] = "C"} = {c(p) : p \in e.consumed}
    <3>1. ASSUME NEW l \in lines, l[1] = "C" PROVE l \in {c(p) : p \in e.consumed}
      BY <1>1, <1>2, <1>3, <3>1, Zenon
    <3>2. ASSUME NEW p \in e.consumed PROVE c(p) \in lines /\ c(p)[1] = "C"
      BY <1>1, <1>2, Zenon
    <3> QED  BY <3>1, <3>2
  <2>2. {l \in lines : l[1] = "P"} = {m(p) : p \in e.produced}
    <3>1. ASSUME NEW l \in lines, l[1] = "P" PROVE l \in {m(p) : p \in e.produced}
      BY <1>1, <1>2, <1>3, <3>1, Zenon
    <3>2. ASSUME NEW p \in e.produced PROVE m(p) \in lines /\ m(p)[1] = "P"
      BY <1>1, <1>2, Zenon
    <3> QED  BY <3>1, <3>2
  <2>3. {l \in lines : l[1] = "G"} = {g(id) : id \in e.graduated}
    <3>1. ASSUME NEW l \in lines, l[1] = "G" PROVE l \in {g(id) : id \in e.graduated}
      BY <1>1, <1>2, <1>3, <3>1, Zenon
    <3>2. ASSUME NEW id \in e.graduated PROVE g(id) \in lines /\ g(id)[1] = "G"
      BY <1>1, <1>2, Zenon
    <3> QED  BY <3>1, <3>2
  <2> QED  BY <2>1, <2>2, <2>3
<1>6. /\ {<<l[2], l[3]>> : l \in {c(p) : p \in e.consumed}} = e.consumed
      /\ {<<l[2], l[3]>> : l \in {m(p) : p \in e.produced}} = e.produced
      /\ {l[2] : l \in {g(id) : id \in e.graduated}} = e.graduated
  <2>1. ASSUME NEW p \in e.consumed PROVE <<c(p)[2], c(p)[3]>> = p
    <3>1. c(p)[2] = p[1] /\ c(p)[3] = p[2]  BY <1>2, Zenon
    <3> QED  BY <3>1, <1>4
  <2>2. ASSUME NEW p \in e.produced PROVE <<m(p)[2], m(p)[3]>> = p
    <3>1. m(p)[2] = p[1] /\ m(p)[3] = p[2]  BY <1>2, Zenon
    <3> QED  BY <3>1, <1>4
  <2>3. {<<l[2], l[3]>> : l \in {c(p) : p \in e.consumed}} = e.consumed  BY <2>1
  <2>4. {<<l[2], l[3]>> : l \in {m(p) : p \in e.produced}} = e.produced  BY <2>2
  <2>5. {l[2] : l \in {g(id) : id \in e.graduated}} = e.graduated
    <3>1. \A id : g(id)[2] = id  BY <1>2
    <3> QED  BY <3>1
  <2> QED  BY <2>3, <2>4, <2>5
<1> QED  BY <1>5, <1>6, Zenon DEF ParseJournalEntry, Entry, lines

\* An entry that is loaded has the form of one that was made.
LEMMA ParsedIsEntry ==
  ASSUME NEW lines
  PROVE  Entry(ParseJournalEntry(lines))
BY DEF ParseJournalEntry, Entry, Pairs

LEMMA ExtendedPairs ==
  ASSUME NEW s, NEW keys, NEW more, Pairs(s), Pairs(more)
  PROVE  Pairs(Without(s, keys)) /\ Pairs(Extended(s, more))
BY DEF Pairs, Extended, Without

\* An observation on disk, when loaded, is the observation in memory.
LEMMA ObservationCommutes ==
  ASSUME NEW db, NEW tx, NEW e, Entry(e), DbTyped(db)
  PROVE  /\ LoadState(PersistObservation(db, tx, e)) = ApplyObservationEntry(LoadState(db), tx, e)
         /\ DbTyped(PersistObservation(db, tx, e))
<1> DEFINE load(p) == <<p[1], ParseJournalEntry(p[2])>>
           new == <<tx, EncodeJournalEntry(e)>>
<1>1. ParseJournalEntry(EncodeJournalEntry(e)) = e  BY JournalRoundTrip
<1>2. {load(p) : p \in Extended(db.journal, {new})}
        = Extended({load(p) : p \in db.journal}, {<<tx, e>>})
  <2>1. load(new) = <<tx, e>>  BY <1>1
  <2>2. Keys({new}) = {tx} /\ Keys({<<tx, e>>}) = {tx}  BY DEF Keys
  <2>3. {load(p) : p \in Without(db.journal, {tx})} = Without({load(p) : p \in db.journal}, {tx})
    <3> HIDE DEF load
    <3>1. \A p : load(p)[1] = p[1]  BY DEF load
    <3> QED  BY <3>1 DEF Without
  <2> HIDE DEF load, new
  <2> QED  BY <2>1, <2>2, <2>3, Zenon DEF Extended
<1>3. Pairs({new})  BY DEF Pairs
<1>4. DbTyped(PersistObservation(db, tx, e))
  BY <1>3, ExtendedPairs DEF DbTyped, PersistObservation, Entry
<1> QED  BY <1>2, <1>4, Zenon DEF LoadState, PersistObservation, ApplyObservationEntry

\* A rollback on disk, when loaded, is the rollback in memory.
LEMMA RollbackCommutes ==
  ASSUME NEW db, NEW tx, DbTyped(db), Journaled(LoadState(db), tx) # {}
  PROVE  LET e == The(Journaled(LoadState(db), tx))
         IN  /\ LoadState(PersistRollback(db, tx, e)) = RollbackTx(LoadState(db), tx)
             /\ DbTyped(PersistRollback(db, tx, e))
<1> DEFINE load(p) == <<p[1], ParseJournalEntry(p[2])>>
           e == The(Journaled(LoadState(db), tx))
<1>1. e \in Journaled(LoadState(db), tx)  BY DEF The
<1>2. PICK x \in db.journal : e = ParseJournalEntry(x[2])
  <2> HIDE DEF e
  <2>1. PICK q \in LoadState(db).journal : e = q[2]  BY <1>1 DEF Journaled
  <2>2. LoadState(db).journal = {load(p) : p \in db.journal}  BY DEF LoadState
  <2>3. \A p : load(p)[2] = ParseJournalEntry(p[2])  OBVIOUS
  <2> HIDE DEF load
  <2>4. PICK x \in db.journal : q = load(x)  BY <2>1, <2>2
  <2> QED  BY <2>1, <2>3, <2>4
<1>3. Entry(e)  BY <1>2, ParsedIsEntry
<1>4. {load(p) : p \in Without(db.journal, {tx})} = Without({load(p) : p \in db.journal}, {tx})
  <2> HIDE DEF load
  <2>1. \A q : load(q)[1] = q[1]  BY DEF load
  <2> QED  BY <2>1 DEF Without
<1>5. DbTyped(PersistRollback(db, tx, e))
  BY <1>3, ExtendedPairs, Zenon DEF DbTyped, PersistRollback, Entry
<1>6. LoadState(PersistRollback(db, tx, e)) = RollbackTx(LoadState(db), tx)
  <2>1. RollbackTx(LoadState(db), tx)
          = TrackerRollback([store |-> db.graduated, tracker |-> db.inputs,
                             journal |-> Without({load(p) : p \in db.journal}, {tx})], e)
    BY DEF RollbackTx, LoadState, The
  <2> HIDE DEF e
  <2> QED  BY <2>1, <1>4, Zenon DEF LoadState, PersistRollback, TrackerRollback
<1> QED  BY <1>5, <1>6

-----------------------------------------------------------------------------
LEMMA ObservedPairs ==
  ASSUME NEW t, NEW outs
  PROVE  Pairs(ObservedSneks(t, outs))
BY DEF Pairs, ObservedSneks

\* What a handler does to the record of graduated pools.
LEMMA GraduationStepDurable ==
  ASSUME DurableInv, NEW ev, NEW outs, NEW produced, GraduationStep(ev, outs, produced)
  PROVE  DurableInv'
<1> USE DEF DurableInv
<1>1. CASE UNCHANGED <<grad, gdb>>  BY <1>1 DEF DbTyped
<1>2. CASE /\ ev.dir = "apply"
           /\ ObserveGraduation(ev.tx, ConsumedSnekRefs(grad, Ins(ev.tx)),
                                ObservedSneks(ev.tx, outs), Ids(produced))
  <2> DEFINE used == ConsumedSnekRefs(grad, Ins(ev.tx))
             made == ObservedSneks(ev.tx, outs)
             entry == [consumed |-> used, produced |-> made,
                       graduated |-> GraduatedIds(used, made, Ids(produced))]
  <2>1. Pairs(used)  BY DEF ConsumedSnekRefs, LoadState, DbTyped, Pairs
  <2>2. Entry(entry)
    <3>1. Pairs(made)  BY ObservedPairs
    <3> HIDE DEF used, made
    <3> QED  BY <2>1, <3>1 DEF Entry
  <2>3. UNCHANGED <<grad, gdb>> \/ JournalGraduated(ev.tx, entry)
    BY <1>2 DEF ObserveGraduation
  <2> HIDE DEF entry
  <2>4. CASE JournalGraduated(ev.tx, entry)
    BY <2>2, <2>4, ObservationCommutes DEF JournalGraduated
  <2> QED  BY <1>1, <2>3, <2>4
<1>3. CASE RollbackGraduation(ev.tx)
  <2>1. CASE Journaled(grad, ev.tx) = {}
    BY <1>3, <2>1, <1>1 DEF RollbackGraduation, RollbackTx
  <2>2. CASE Journaled(grad, ev.tx) # {}
    BY <1>3, <2>2, RollbackCommutes DEF RollbackGraduation
  <2> QED  BY <2>1, <2>2
<1> QED  BY <1>1, <1>2, <1>3 DEF GraduationStep

\* Every step of the sinks: two of them write the record.
LEMMA DurableStep ==
  ASSUME DurableInv, [SinksNext]_sinkVars
  PROVE  DurableInv'
<1>1. ASSUME UNCHANGED <<grad, gdb>> PROVE DurableInv'  BY <1>1 DEF DurableInv, DbTyped
<1>2. ASSUME NEW s \in Stream, GeneralExtract(s) PROVE DurableInv'
  BY <1>2, GraduationStepDurable, Zenon DEF GeneralExtract, ExtractContinuous
<1>3. ASSUME NEW s \in Stream, GeneralCommit(s) \/ SpecialExtract(s) \/ SpecialLock(s) \/ SpecialCommit(s)
                                \/ FundingExtract(s) \/ FundingCommit(s)
      PROVE  UNCHANGED <<grad, gdb>>
  BY <1>3, Zenon DEF GeneralCommit, SpecialExtract, SpecialLock, SpecialCommit, FundingExtract, FundingCommit
<1>4. ASSUME RollForward \/ RollBackward \/ Crash \/ (\E t \in DOMAIN txs : MempoolAccepts(t) \/ MempoolDrops(t))
      PROVE  UNCHANGED <<grad, gdb>>
  BY <1>4, Zenon DEF RollForward, RollBackward, Crash, MempoolAccepts, MempoolDrops
<1>5. CASE Restart  BY <1>5 DEF Restart, DurableInv, DbTyped
<1>6. CASE UNCHANGED sinkVars  BY <1>6, <1>1 DEF sinkVars
<1> QED  BY <1>1, <1>2, <1>3, <1>4, <1>5, <1>6 DEF SinksNext, HandlerStep

\* What is on disk is what is in memory, so that a restart at any moment loses
\* nothing and adds nothing (event_sink/handler.rs, graduation.rs).
THEOREM GraduationDurable == SinksSpec => []DurableExact
<1>1. SinksInit => DurableInv
  <2>1. LoadState(EmptyGraduationDb) = EmptyGraduation
    BY DEF LoadState, EmptyGraduation, EmptyGraduationDb
  <2>2. DbTyped(EmptyGraduationDb)  BY DEF DbTyped, Pairs, EmptyGraduationDb
  <2> QED  BY <2>1, <2>2 DEF SinksInit, DurableInv, DbTyped
<1>2. DurableInv /\ [SinksNext]_sinkVars => DurableInv'  BY DurableStep
<1>3. DurableInv => DurableExact  BY DEF DurableInv, DurableExact
<1> QED  BY <1>1, <1>2, <1>3, PTL DEF SinksSpec
=============================================================================
