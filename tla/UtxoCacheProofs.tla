-------------------------- MODULE UtxoCacheProofs --------------------------
(***************************************************************************)
(* The steps of a monitor that follows the chain, and stops at any moment, *)
(* keep the invariant of the cache of blocks; so the cache follows the     *)
(* chain for any chain, any forks and any configuration.                   *)
(***************************************************************************)
EXTENDS UtxoRestartProofs

-----------------------------------------------------------------------------
(* Following the chain. *)

(* The events of a block leave the fields alone that matter to the cache. *)
LEMMA EventsFields ==
    ASSUME NEW pc, NEW rest, NEW b, NEW txs, DOMAIN rest = DOMAIN Idle
    PROVE  LET l == Events(pc, rest, b, txs)
           IN  /\ l.pc \in {rest.pc, pc} /\ l.at = rest.at /\ l.to = rest.to /\ l.any = rest.any
               /\ DOMAIN l = DOMAIN Idle
BY DEF Events, Idle

(* The ledger task waits for the node or handles the events of a block. *)
LEMMA IdleSuffices ==
    ASSUME BaseInv, led'.pc \in {"idle", "applying"}, led'.at = Origin, led'.to = Origin,
           led'.any = FALSE, DOMAIN led' = DOMAIN Idle, UNCHANGED <<node, scenario>>,
           session' \in [read : 0..Len(node.chain), roll : BOOLEAN],
           DOMAIN cache' = {"tip", "blocks"}, cache'.tip = {} \/ cache'.tip = {ResumePoint'},
           Seen(node.chain, node.forks, ResumePoint'),
           \A p \in DOMAIN cache'.blocks :
              Seen(node.chain, node.forks, p) /\ Seen(node.chain, node.forks, cache'.blocks[p].prev),
           scenario.rollbackSlots > 0 =>
              /\ Entries(node.chain, cache'.blocks)
              /\ \A p \in DOMAIN cache'.blocks : p[1] > scenario.disableUntil
              /\ ResumePoint'[1] <= Len(node.chain) + node.forks
              /\ IdleInv'
    PROVE  CacheInv'
<1>1. Origin \in Point /\ Seen(node.chain, node.forks, Origin)
  BY Basics, PointsOfChain DEF PointAt, BaseInv
<1>2. BaseInv' /\ ResumeInv'
  BY <1>1, Zenon DEF BaseInv, ResumeInv
<1>3. scenario.rollbackSlots > 0 => LinkInv'
  BY DEF LinkInv, DownInv, ConnectInv, RollingInv, CachingInv, UnrollInv, DeletedInv
<1> QED
  BY <1>2, <1>3 DEF CacheInv

LEMMA RollForwardKeeps ==
    ASSUME CacheInv, RollForward
    PROVE  CacheInv'
<1> DEFINE C == node.chain
<1> DEFINE F == node.forks
<1> DEFINE D == scenario.disableUntil
<1> DEFINE n == session.read + 1
<1> DEFINE b == C[n]
<1> DEFINE T == ResumePoint
<1>1. /\ BaseInv /\ led.pc = "idle" /\ ~session.roll /\ session.read < Len(C)
      /\ session' = [session EXCEPT !.read = @ + 1] /\ SetTip(PointOf(b))
      /\ led' = IF b.slot > D THEN [Idle EXCEPT !.pc = "caching", !.blk = b, !.at = T]
                ELSE Events("applying", Idle, b, b.txs)
      /\ UNCHANGED <<node, scenario>>
  BY DEF CacheInv, RollForward
<1>2. /\ cache'.tip = {PointOf(b)} /\ ResumePoint' = PointOf(b) /\ cache'.blocks = cache.blocks
      /\ DOMAIN cache' = {"tip", "blocks"}
  BY <1>1, TipSet DEF BaseInv
<1>3. /\ T[1] \in Nat /\ F \in Nat /\ D \in Nat /\ Len(C) \in Nat /\ session.read \in Nat
      /\ n \in 1..Len(C) /\ n \in 0..Len(C) /\ WellMade(C, F) /\ session.read \in 0..Len(C)
  BY <1>1, Basics DEF BaseInv
<1>4. b \in Block /\ b.slot = n /\ PointOf(b) = PointAt(C, n)
  BY <1>3 DEF WellMade, PointAt
<1>5. /\ PointOf(b) \in Point /\ PointOf(b)[1] = n /\ On(C, PointOf(b)) /\ Seen(C, F, PointOf(b))
  BY <1>3, <1>4, PointsOfChain
<1>6. /\ session'.read = n /\ session'.roll = FALSE
      /\ session' \in [read : 0..Len(C), roll : BOOLEAN]
  BY <1>1, <1>3 DEF BaseInv
<1> HIDE DEF C, F, D, n, b, T
<1>7. ASSUME LinkInv
      PROVE  /\ T[1] = n - 1 /\ On(C, T) /\ T = PointAt(C, n - 1)
             /\ Whole(C, F, cache.blocks, D, n, T, T[1], Origin)
  <2>1. Whole(C, F, cache.blocks, D, T[1], T, session.read, Origin) /\ T[1] = session.read
    BY <1>1, <1>7 DEF LinkInv, IdleInv, Sound, Ahead, T, C, F, D
  <2>2. On(C, T)
    BY <1>3, <2>1, WholeEnd
  <2>3. Whole(C, F, cache.blocks, D, n, T, T[1], Origin)
    BY <1>3, <2>1, <2>2, WholeLevel
  <2>4. T[1] = n - 1
    BY <1>3, <2>1 DEF n
  <2> QED
    BY <2>2, <2>3, <2>4 DEF On
<1>8. CASE b.slot > D
  <2>1. /\ led'.pc = "caching" /\ led'.blk = b /\ led'.at = T /\ led'.to = Origin
        /\ led'.any = FALSE /\ DOMAIN led' = DOMAIN Idle
    BY <1>1, <1>8 DEF Idle
  <2>2. Origin \in Point
    BY DEF Origin, Point
  <2>3. BaseInv' /\ ResumeInv'
    BY <1>1, <1>2, <1>5, <1>6, <2>1, <2>2, Zenon DEF BaseInv, ResumeInv, C, F, T
  <2>4. ASSUME LinkInv
        PROVE  LinkInv'
    <3>1. PointOf(b) \in DOMAIN cache.blocks => cache.blocks[PointOf(b)].prev = T
      <4>1. Entries(C, cache.blocks)
        BY <2>4 DEF LinkInv, C
      <4>2. ASSUME PointOf(b) \in DOMAIN cache.blocks
            PROVE  cache.blocks[PointOf(b)] = [blk |-> C[n], prev |-> PointAt(C, n - 1)]
        BY <1>5, <4>1, <4>2 DEF Entries
      <4> QED
        BY <1>7, <2>4, <4>2
    <3>2. /\ led'.at[1] + 1 = n /\ n > D /\ On(C, led'.at) /\ n <= Len(C) + F
          /\ led'.blk = C[n]
      BY <1>3, <1>4, <1>7, <1>8, <2>1, <2>4 DEF b
    <3>3. Ahead(ResumePoint[1])'
      <4>1. ResumePoint'[1] = n /\ n <= n + F
        BY <1>2, <1>3, <1>5
      <4> QED
        BY <1>1, <1>6, <4>1 DEF Ahead, F
    <3>4. Sound(led.at, IF session.roll THEN session.read ELSE led.at[1], Origin)'
      <4>1. Whole(C, F, cache.blocks, D, n, led'.at, led'.at[1], Origin)
        BY <1>7, <2>1, <2>4
      <4>2. ResumePoint'[1] = n
        BY <1>2, <1>5
      <4> QED
        BY <1>1, <1>2, <1>6, <4>1, <4>2 DEF Sound, C, F, D
    <3>5. ResumePoint' = PointOf(b) /\ ResumePoint'[1] = n /\ On(C, ResumePoint')
      BY <1>2, <1>5
    <3>6. CachingInv'
      BY <1>1, <1>2, <1>4, <1>6, <2>1, <3>1, <3>2, <3>3, <3>4, <3>5, Zenon
         DEF CachingInv, Cached, C, D
    <3> QED
      BY <1>1, <1>2, <2>1, <2>4, <3>2, <3>5, <3>6, Zenon
         DEF LinkInv, DownInv, ConnectInv, RollingInv, IdleInv, UnrollInv, DeletedInv, C, F
  <2> QED
    BY <1>1, <2>3, <2>4 DEF CacheInv
<1>9. CASE ~(b.slot > D)
  <2>1. /\ led'.pc \in {"idle", "applying"} /\ led'.at = Origin /\ led'.to = Origin
        /\ led'.any = FALSE /\ DOMAIN led' = DOMAIN Idle
    <3>1. led' = Events("applying", Idle, b, b.txs)
      BY <1>1, <1>9
    <3>2. Idle.pc = "idle" /\ Idle.at = Origin /\ Idle.to = Origin /\ Idle.any = FALSE
      BY DEF Idle
    <3> QED
      BY <3>1, <3>2, EventsFields
  <2>2. ASSUME LinkInv
        PROVE  IdleInv'
    <3>1. Whole(C, F, cache.blocks, D, n, PointOf(b), n, Origin)
      <4>1. PointOf(b)[1] <= D /\ PointOf(b)[1] = T[1] + 1
        BY <1>3, <1>4, <1>5, <1>7, <1>9, <2>2
      <4>2. Whole(C, F, cache.blocks, D, n, T, T[1], Origin) /\ On(C, T)
        BY <1>7, <2>2
      <4>3. n \in Nat /\ n \in {T[1], PointOf(b)[1]}
        BY <1>3, <1>5
      <4> QED
        BY <1>3, <1>5, <4>1, <4>2, <4>3, WholeOn, Zenon
    <3>2. Ahead(ResumePoint[1])'
      <4>1. ResumePoint'[1] = n /\ n <= n + F
        BY <1>2, <1>3, <1>5
      <4> QED
        BY <1>1, <1>6, <4>1 DEF Ahead, F
    <3>3. ResumePoint' = PointOf(b) /\ ResumePoint'[1] = n
      BY <1>2, <1>5
    <3> QED
      BY <1>1, <1>2, <1>6, <3>1, <3>2, <3>3 DEF IdleInv, Sound, C, F, D
  <2>3. ResumePoint'[1] <= Len(C) + F
    BY <1>2, <1>3, <1>5
  <2>4. \A p \in DOMAIN cache'.blocks : Seen(C, F, p) /\ Seen(C, F, cache'.blocks[p].prev)
    BY <1>1, <1>2 DEF BaseInv, C, F
  <2>5. scenario.rollbackSlots > 0 =>
            /\ Entries(C, cache'.blocks)
            /\ \A p \in DOMAIN cache'.blocks : p[1] > D
            /\ ResumePoint'[1] <= Len(C) + F
            /\ IdleInv'
    BY <1>2, <2>2, <2>3 DEF CacheInv, LinkInv, C, D
  <2> QED
    BY <1>1, <1>2, <1>5, <1>6, <2>1, <2>4, <2>5, IdleSuffices, Zenon DEF C, F, D
<1> QED
  BY <1>8, <1>9

LEMMA PutBlockKeeps ==
    ASSUME CacheInv, PutBlock
    PROVE  CacheInv'
<1> DEFINE C == node.chain
<1> DEFINE F == node.forks
<1> DEFINE D == scenario.disableUntil
<1> DEFINE T == ResumePoint
<1>1. /\ BaseInv /\ led.pc = "caching" /\ cache' = Linked(led.blk, led.at)
      /\ led' = Events("applying", Idle, led.blk, led.blk.txs)
      /\ UNCHANGED <<node, session, scenario>>
  BY DEF CacheInv, PutBlock
<1>2. /\ cache'.tip = cache.tip /\ ResumePoint' = T /\ DOMAIN cache' = {"tip", "blocks"}
      /\ DOMAIN cache'.blocks = DOMAIN cache.blocks \cup {PointOf(led.blk)}
      /\ cache'.blocks[PointOf(led.blk)] = [blk |-> led.blk, prev |-> led.at]
      /\ \A x \in DOMAIN cache.blocks :
            x # PointOf(led.blk) => cache'.blocks[x] = cache.blocks[x]
  BY <1>1, BlockLinked DEF BaseInv
<1>3. /\ led'.pc \in {"idle", "applying"} /\ led'.at = Origin /\ led'.to = Origin
      /\ led'.any = FALSE /\ DOMAIN led' = DOMAIN Idle
  <2>1. Idle.pc = "idle" /\ Idle.at = Origin /\ Idle.to = Origin /\ Idle.any = FALSE
    BY DEF Idle
  <2> QED
    BY <1>1, <2>1, EventsFields
<1>4. /\ T[1] \in Nat /\ F \in Nat /\ D \in Nat /\ Len(C) \in Nat /\ session.read \in Nat
      /\ led.at[1] \in Nat /\ led.at \in Point /\ Seen(C, F, led.at) /\ Seen(C, F, T)
      /\ session.roll \in BOOLEAN /\ T \in Point
  BY <1>1, Basics DEF BaseInv
<1>5. \A p \in DOMAIN cache.blocks : Seen(C, F, p) /\ Seen(C, F, cache.blocks[p].prev)
  BY <1>1 DEF BaseInv
<1>6. PointOf(led.blk) = T
  BY <1>1 DEF BaseInv
<1>7. \A p \in DOMAIN cache'.blocks : Seen(C, F, p) /\ Seen(C, F, cache'.blocks[p].prev)
  <2>1. ASSUME NEW p \in DOMAIN cache'.blocks
        PROVE  Seen(C, F, p) /\ Seen(C, F, cache'.blocks[p].prev)
    <3>1. CASE p = PointOf(led.blk)
      BY <1>2, <1>4, <1>6, <3>1
    <3>2. CASE p # PointOf(led.blk)
      BY <1>2, <1>5, <2>1, <3>2
    <3> QED
      BY <3>1, <3>2
  <2> QED
    BY <2>1
<1> HIDE DEF C, F, D, T
<1>8. ASSUME LinkInv
      PROVE  /\ led.at[1] + 1 = T[1] /\ T[1] > D /\ T[1] <= Len(C) + F
             /\ On(C, T) => led.blk = C[T[1]] /\ On(C, led.at)
             /\ ~session.roll => On(C, T) /\ session.read = T[1]
             /\ Ahead(ResumePoint[1])
             /\ Whole(C, F, cache.blocks, D, T[1], led.at,
                      IF session.roll THEN session.read ELSE led.at[1], Origin)
  BY <1>1, <1>8 DEF LinkInv, CachingInv, Sound, Ahead, C, F, D, T
<1>9. ASSUME LinkInv
      PROVE  IdleInv'
  <2> DEFINE B == cache'.blocks
  <2> DEFINE r == IF session.roll THEN session.read ELSE led.at[1]
  <2>1. Whole(C, F, B, D, T[1], led.at, r, Origin)
    <3>1. \A x \in Point : x[1] <= led.at[1] /\ x \in DOMAIN cache.blocks
                             => x \in DOMAIN B /\ B[x] = cache.blocks[x]
      <4>1. ASSUME NEW x \in Point, x[1] <= led.at[1]
            PROVE  x # T
        BY <1>4, <1>8, <1>9, <4>1 DEF Point
      <4> QED
        BY <1>2, <1>6, <4>1
    <3>2. Whole(C, F, cache.blocks, D, T[1], led.at, r, Origin) /\ T[1] <= T[1]
      BY <1>4, <1>8, <1>9
    <3> HIDE DEF B, r
    <3> QED
      BY <1>4, <3>1, <3>2, WholeBelow
  <2>2. T \in DOMAIN B /\ B[T].prev = led.at
    BY <1>2, <1>6
  <2>3. T[1] + F <= T[1] => On(C, T)
    <3> SUFFICES ASSUME T[1] + F <= T[1]
                 PROVE  On(C, T)
      OBVIOUS
    <3>1. ~(T[2] < F)
      BY <1>4 DEF Point
    <3> QED
      BY <1>4, <3>1 DEF Seen
  <2>4. session.read \in {r, T[1]} /\ (session.read = T[1] => On(C, T))
    <3>1. CASE session.roll
      <4>1. r = session.read /\ r \in 0..led.at[1]
        BY <2>1, <3>1 DEF Whole
      <4> QED
        BY <1>4, <1>8, <1>9, <4>1
    <3>2. CASE ~session.roll
      BY <1>8, <1>9, <3>2
    <3> QED
      BY <3>1, <3>2
  <2>5. Whole(C, F, B, D, T[1], T, session.read, Origin)
    <3>1. T[1] = led.at[1] + 1 /\ (On(C, T) => On(C, led.at))
      BY <1>8, <1>9
    <3> HIDE DEF B, r
    <3> QED
      BY <1>4, <2>1, <2>2, <2>3, <2>4, <3>1, WholeOn, Zenon
  <2>6. Ahead(ResumePoint[1])'
    BY <1>1, <1>2, <1>8, <1>9 DEF Ahead, T
  <2> QED
    BY <1>1, <1>2, <2>5, <2>6 DEF IdleInv, Sound, C, F, D, T
<1>10. ASSUME LinkInv
       PROVE  Entries(C, cache'.blocks) /\ \A p \in DOMAIN cache'.blocks : p[1] > D
  <2>1. ASSUME NEW p \in DOMAIN cache'.blocks, p # T
        PROVE  /\ p[1] > D
               /\ On(C, p) => /\ p[1] > 0
                              /\ cache'.blocks[p] = [blk |-> C[p[1]], prev |-> PointAt(C, p[1] - 1)]
    <3>1. p \in DOMAIN cache.blocks /\ cache'.blocks[p] = cache.blocks[p]
      BY <1>2, <1>6, <2>1
    <3> QED
      BY <1>10, <3>1 DEF LinkInv, Entries, C, D
  <2>2. T[1] > D /\ (On(C, T) => /\ T[1] > 0
                                 /\ cache'.blocks[T] = [blk |-> C[T[1]], prev |-> PointAt(C, T[1] - 1)])
    <3>1. T[1] > D /\ T[1] > 0 /\ T[1] - 1 = led.at[1]
      BY <1>4, <1>8, <1>10
    <3>2. On(C, T) => led.blk = C[T[1]] /\ led.at = PointAt(C, T[1] - 1)
      BY <1>8, <1>10, <3>1 DEF On
    <3> QED
      BY <1>2, <1>6, <3>1, <3>2
  <2> QED
    BY <2>1, <2>2, Zenon DEF Entries
<1>11. scenario.rollbackSlots > 0 =>
          /\ Entries(C, cache'.blocks)
          /\ \A p \in DOMAIN cache'.blocks : p[1] > D
          /\ ResumePoint'[1] <= Len(C) + F
          /\ IdleInv'
  BY <1>2, <1>8, <1>9, <1>10 DEF CacheInv
<1>12. session' \in [read : 0..Len(C), roll : BOOLEAN] /\ (cache'.tip = {} \/ cache'.tip = {T})
  BY <1>1, <1>2 DEF BaseInv, C, T
<1> QED
  BY <1>1, <1>2, <1>3, <1>4, <1>7, <1>11, <1>12, IdleSuffices, Zenon DEF C, F, D

LEMMA RollBackwardKeeps ==
    ASSUME CacheInv, RollBackward
    PROVE  CacheInv'
<1> DEFINE C == node.chain
<1> DEFINE F == node.forks
<1> DEFINE D == scenario.disableUntil
<1> DEFINE T == ResumePoint
<1> DEFINE p == PointAt(C, session.read)
<1>1. /\ BaseInv /\ led.pc = "idle" /\ session.roll
      /\ session' = [session EXCEPT !.roll = FALSE]
      /\ led' = IF p[1] > D THEN [Idle EXCEPT !.pc = "unrolling", !.to = p] ELSE Idle
      /\ UNCHANGED <<node, cache, scenario>> /\ ResumePoint' = T
  BY DEF CacheInv, RollBackward, ResumePoint
<1>2. /\ T[1] \in Nat /\ F \in Nat /\ D \in Nat /\ Len(C) \in Nat /\ session.read \in Nat
      /\ session.read \in 0..Len(C) /\ WellMade(C, F)
  BY <1>1, Basics DEF BaseInv
<1>3. p \in Point /\ p[1] = session.read
  BY <1>2, PointsOfChain
<1>4. /\ session'.read = session.read /\ session'.roll = FALSE
      /\ session' \in [read : 0..Len(C), roll : BOOLEAN]
  BY <1>1, Zenon DEF BaseInv
<1>5. Origin \in Point /\ Seen(C, F, Origin)
  BY <1>2, PointsOfChain DEF PointAt
<1> HIDE DEF C, F, D, T, p
<1>6. ASSUME LinkInv
      PROVE  /\ Whole(C, F, cache.blocks, D, T[1], T, session.read, Origin)
             /\ Ahead(ResumePoint[1])
  BY <1>1, <1>6 DEF LinkInv, IdleInv, Sound, C, F, D, T
<1>7. CASE p[1] > D
  <2>1. /\ led'.pc = "unrolling" /\ led'.at = Origin /\ led'.to = p /\ led'.any = FALSE
        /\ DOMAIN led' = DOMAIN Idle
    BY <1>1, <1>7 DEF Idle
  <2>2. BaseInv' /\ ResumeInv'
    BY <1>1, <1>3, <1>4, <1>5, <2>1, Zenon DEF BaseInv, ResumeInv, C, F, T
  <2>3. ASSUME LinkInv
        PROVE  LinkInv'
    <3>1. Whole(C, F, cache.blocks, D, T[1], T, session.read, p)
      BY <1>2, <1>6, <2>3, WholeThrough DEF p
    <3>2. Ahead(led.to[1])'
      BY <1>1, <1>2, <1>3, <1>4, <1>6, <1>7, <2>1, <2>3 DEF Ahead, D, T
    <3>3. UnrollInv'
      BY <1>1, <1>4, <1>7, <2>1, <3>1, <3>2 DEF UnrollInv, Sound, C, F, D, T
    <3> QED
      BY <1>1, <2>1, <2>3, <3>3
         DEF LinkInv, DownInv, ConnectInv, RollingInv, IdleInv, CachingInv, DeletedInv, T
  <2> QED
    BY <1>1, <2>2, <2>3 DEF CacheInv
<1>8. CASE ~(p[1] > D)
  <2>1. /\ led'.pc = "idle" /\ led'.at = Origin /\ led'.to = Origin /\ led'.any = FALSE
        /\ DOMAIN led' = DOMAIN Idle
    BY <1>1, <1>8 DEF Idle
  <2>2. BaseInv' /\ ResumeInv'
    BY <1>1, <1>4, <1>5, <2>1, Zenon DEF BaseInv, ResumeInv, C, F, T
  <2>3. ASSUME LinkInv
        PROVE  LinkInv'
    <3>1. session.read = T[1]
      BY <1>2, <1>3, <1>6, <1>8, <2>3 DEF Ahead, D, T
    <3>2. IdleInv'
      BY <1>1, <1>2, <1>4, <1>6, <2>3, <3>1 DEF IdleInv, Sound, Ahead, C, F, D, T
    <3> QED
      BY <1>1, <2>1, <2>3, <3>2
         DEF LinkInv, DownInv, ConnectInv, RollingInv, UnrollInv, CachingInv, DeletedInv, T
  <2> QED
    BY <1>1, <2>2, <2>3 DEF CacheInv
<1> QED
  BY <1>7, <1>8

LEMMA UnrollKeeps ==
    ASSUME CacheInv, Unroll
    PROVE  CacheInv'
<1> DEFINE C == node.chain
<1> DEFINE F == node.forks
<1> DEFINE D == scenario.disableUntil
<1> DEFINE T == ResumePoint
<1>1. /\ BaseInv /\ led.pc = "unrolling" /\ UNCHANGED <<node, session, scenario>>
      /\ DOMAIN led = DOMAIN Idle
  BY DEF CacheInv, BaseInv, Unroll
<1>2. /\ T[1] \in Nat /\ F \in Nat /\ D \in Nat /\ Len(C) \in Nat /\ session.read \in Nat
      /\ led.to[1] \in Nat /\ WellMade(C, F) /\ T \in Point /\ Len(C) \in Nat
  BY <1>1, Basics DEF BaseInv
<1>3. Origin \in Point /\ Seen(C, F, Origin)
  BY <1>2, PointsOfChain DEF PointAt
<1> HIDE DEF C, F, D, T
<1>4. ASSUME LinkInv
      PROVE  /\ Whole(C, F, cache.blocks, D, T[1], T, session.read, led.to)
             /\ Ahead(led.to[1]) /\ D < led.to[1] /\ led.to[1] <= T[1]
             /\ T # led.to => led.to[1] < T[1] /\ session.read < T[1]
  <2>1. /\ Whole(C, F, cache.blocks, D, T[1], T, session.read, led.to)
        /\ Ahead(led.to[1]) /\ D < led.to[1]
    BY <1>1, <1>4 DEF LinkInv, UnrollInv, Sound, C, F, D, T
  <2>2. led.to[1] \in 0..T[1] /\ (led.to[1] = T[1] => led.to = T)
    BY <1>2, <2>1, WholeEnd
  <2>3. session.read <= led.to[1]
    BY <2>1 DEF Ahead
  <2> QED
    BY <1>2, <2>1, <2>2, <2>3
<1>5. CASE T # led.to /\ Cached(T)
  <2> DEFINE z == cache.blocks[T].prev
  <2>1. /\ DeleteBlock(T) /\ led'.pc = "deleted" /\ led'.at = z /\ led'.to = led.to
        /\ led'.any = led.any /\ DOMAIN led' = DOMAIN Idle
    BY <1>1, <1>5, Zenon DEF Unroll, Idle, T
  <2>2. /\ cache'.tip = cache.tip /\ ResumePoint' = T /\ DOMAIN cache' = DOMAIN cache
        /\ DOMAIN cache'.blocks = DOMAIN cache.blocks \ {T}
        /\ \A x \in DOMAIN cache'.blocks : cache'.blocks[x] = cache.blocks[x]
    BY <1>1, <2>1, BlockDeleted DEF T
  <2>3. BaseInv' /\ ResumeInv'
    BY <1>1, <1>5, <2>1, <2>2 DEF BaseInv, ResumeInv, Cached, T
  <2> HIDE DEF z
  <2>4. ASSUME LinkInv
        PROVE  LinkInv'
    <3>1. /\ z \in Point /\ z[1] = T[1] - 1
          /\ Whole(C, F, cache.blocks, D, T[1], z, session.read, led.to)
      <4>1. D < T[1]
        BY <1>2, <1>4, <2>4
      <4> QED
        BY <1>2, <1>4, <1>5, <2>4, <4>1, WholeBack DEF z
    <3>2. \A x \in Point : x[1] <= z[1] /\ x \in DOMAIN cache.blocks
                             => x \in DOMAIN cache'.blocks /\ cache'.blocks[x] = cache.blocks[x]
      BY <1>2, <2>2, <3>1
    <3>3. Whole(C, F, cache'.blocks, D, T[1], z, session.read, led.to)
      BY <1>2, <3>1, <3>2, WholeBelow
    <3>4. Sound(led.at, session.read, led.to)'
      BY <1>1, <2>1, <2>2, <3>3 DEF Sound, C, F, D
    <3>5. led'.at[1] < T[1] /\ T[1] > 0
      BY <1>2, <1>4, <1>5, <2>1, <2>4, <3>1
    <3>6. Lost'
      BY <2>2, <3>5 DEF Lost, Cached
    <3>7. Ahead(led.to[1])'
      BY <1>1, <1>4, <2>1, <2>2, <2>4 DEF Ahead, T
    <3>8. DeletedInv'
      BY <1>1, <1>4, <2>1, <2>2, <2>4, <3>4, <3>5, <3>6, <3>7 DEF DeletedInv, D
    <3>9. Entries(C, cache'.blocks)
      BY <2>2, <2>4 DEF LinkInv, Entries, C
    <3> QED
      BY <1>1, <2>1, <2>2, <2>4, <3>8, <3>9
         DEF LinkInv, DownInv, ConnectInv, RollingInv, IdleInv, UnrollInv, CachingInv, C, T
  <2> QED
    BY <1>1, <2>3, <2>4 DEF CacheInv
<1>6. CASE ~(T # led.to /\ Cached(T))
  <2>1. /\ led'.pc = "idle" /\ led'.at = Origin /\ led'.to = Origin /\ led'.any = FALSE
        /\ DOMAIN led' = DOMAIN Idle /\ UNCHANGED cache /\ ResumePoint' = T
    <3>1. led' = Idle /\ UNCHANGED cache
      BY <1>6 DEF Unroll, T
    <3>2. ResumePoint' = T
      BY <3>1 DEF T, ResumePoint
    <3> QED
      BY <3>1, <3>2 DEF Idle
  <2>2. BaseInv' /\ ResumeInv'
    BY <1>1, <1>3, <2>1, Zenon DEF BaseInv, ResumeInv, C, F, T
  <2>3. ASSUME LinkInv
        PROVE  LinkInv'
    <3>1. T = led.to
      <4> SUFFICES ASSUME T # led.to
                   PROVE  FALSE
        OBVIOUS
      <4>1. D < T[1] /\ led.to[1] < T[1] /\ session.read < T[1]
        BY <1>2, <1>4, <2>3
      <4>2. T \in DOMAIN cache.blocks
        BY <1>2, <1>4, <2>3, <4>1, WholeBack
      <4> QED
        BY <1>6, <4>2 DEF Cached
    <3>2. Whole(C, F, cache.blocks, D, T[1], T, session.read, Origin)
      <4>1. session.read \in 0..T[1] /\ session.read <= session.read
        BY <1>2, <1>4, <2>3 DEF Whole
      <4> QED
        BY <1>2, <1>4, <2>3, <4>1, WholeUpTo
    <3>3. IdleInv'
      BY <1>1, <1>4, <2>1, <2>3, <3>1, <3>2 DEF IdleInv, Sound, Ahead, C, F, D, T
    <3> QED
      BY <1>1, <2>1, <2>3, <3>3
         DEF LinkInv, DownInv, ConnectInv, RollingInv, UnrollInv, CachingInv, DeletedInv, T
  <2> QED
    BY <1>1, <2>2, <2>3 DEF CacheInv
<1> QED
  BY <1>5, <1>6

LEMMA UnrollSetTipKeeps ==
    ASSUME CacheInv, UnrollSetTip
    PROVE  CacheInv'
<1> DEFINE C == node.chain
<1> DEFINE F == node.forks
<1> DEFINE D == scenario.disableUntil
<1> DEFINE T == ResumePoint
<1> DEFINE rest == [Idle EXCEPT !.pc = "unrolling", !.to = led.to]
<1>1. /\ BaseInv /\ led.pc = "deleted" /\ SetTip(led.at) /\ UNCHANGED <<node, session, scenario>>
      /\ led' = Events("unapplying", rest, led.blk, Reversed(led.blk.txs))
  BY DEF CacheInv, UnrollSetTip
<1>2. /\ cache'.tip = {led.at} /\ ResumePoint' = led.at /\ cache'.blocks = cache.blocks
      /\ DOMAIN cache' = DOMAIN cache
  BY <1>1, TipSet
<1>3. /\ led'.pc \in {"unrolling", "unapplying"} /\ led'.at = Origin /\ led'.to = led.to
      /\ led'.any = FALSE /\ DOMAIN led' = DOMAIN Idle
  <2>1. /\ rest.pc = "unrolling" /\ rest.at = Origin /\ rest.to = led.to /\ rest.any = FALSE
        /\ DOMAIN rest = DOMAIN Idle
    BY DEF Idle
  <2> HIDE DEF rest
  <2> QED
    BY <1>1, <2>1, EventsFields
<1>4. /\ T[1] \in Nat /\ F \in Nat /\ D \in Nat /\ Len(C) \in Nat /\ session.read \in Nat
      /\ led.to[1] \in Nat /\ WellMade(C, F) /\ led.at[1] \in Nat
  BY <1>1, Basics DEF BaseInv
<1>5. Origin \in Point /\ Seen(C, F, Origin)
  BY <1>4, PointsOfChain DEF PointAt
<1>6. BaseInv' /\ ResumeInv'
  BY <1>1, <1>2, <1>3, <1>5, Zenon DEF BaseInv, ResumeInv
<1> HIDE DEF C, F, D, T
<1>7. ASSUME LinkInv
      PROVE  LinkInv'
  <2>1. /\ Whole(C, F, cache.blocks, D, T[1], led.at, session.read, led.to)
        /\ Ahead(led.to[1]) /\ D < led.to[1] /\ led.at[1] < T[1] /\ T[1] <= Len(C) + F
    BY <1>1, <1>7 DEF LinkInv, DeletedInv, Sound, C, F, D, T
  <2>2. /\ Whole(C, F, cache.blocks, D, led.at[1], led.at, session.read, led.to)
        /\ led.at[1] <= T[1] /\ led.at[1] <= Len(C) + F
    BY <1>4, <2>1, WholeBelow
  <2>3. session.read \in 0..led.at[1]
    BY <2>1 DEF Whole
  <2>4. Ahead(led.to[1])'
    BY <1>1, <1>2, <1>3, <1>4, <2>1, <2>3 DEF Ahead, F, D, T
  <2>5. UnrollInv'
    BY <1>1, <1>2, <1>3, <2>1, <2>2, <2>4 DEF UnrollInv, Sound, C, F, D
  <2> QED
    BY <1>1, <1>2, <1>3, <1>7, <2>2, <2>5
       DEF LinkInv, DownInv, ConnectInv, RollingInv, IdleInv, CachingInv, DeletedInv, C, F
<1> QED
  BY <1>1, <1>6, <1>7 DEF CacheInv

(* The events of a block go to the tracker and to the index. *)
LEMMA EventsKeep ==
    ASSUME CacheInv, ForwardToTracker \/ LedgerReads \/ HandleApplied \/ HandleUnapplied
    PROVE  CacheInv'
<1>1. /\ BaseInv /\ ResumePoint' = ResumePoint /\ UNCHANGED <<node, session, cache, scenario>>
      /\ WellMade(node.chain, node.forks)
  <2>1. UNCHANGED <<node, session, cache, scenario>>
    BY Zenon DEF ForwardToTracker, LedgerReads, HandleApplied, HandleUnapplied
  <2> QED
    BY <2>1, Zenon DEF CacheInv, BaseInv, ResumePoint
<1>2. Origin \in Point /\ Seen(node.chain, node.forks, Origin)
  BY <1>1, PointsOfChain, Basics DEF PointAt
<1>3. /\ DOMAIN led' = DOMAIN Idle
      /\ led'.to \in {led.to, Origin} /\ led'.at \in {led.at, Origin}
      /\ led'.any \in {led.any, FALSE}
      /\ \/ led.pc = "applying" /\ led'.pc \in {"idle", "applying"}
         \/ led.pc = "unapplying" /\ led'.pc \in {"unrolling", "unapplying"} /\ led'.to = led.to
  <2>1. DOMAIN led = DOMAIN Idle /\ DOMAIN Idle = {"pc", "at", "to", "any", "todo", "blk", "sent", "seen"}
    BY <1>1 DEF BaseInv, Idle
  <2>2. CASE ForwardToTracker
    BY <2>1, <2>2 DEF ForwardToTracker
  <2>3. CASE HandleApplied
    BY <2>1, <2>3 DEF HandleApplied, Handled, Idle
  <2>4. CASE HandleUnapplied
    BY <2>1, <2>4 DEF HandleUnapplied, Handled, Idle
  <2>5. CASE LedgerReads
    BY <2>1, <2>5 DEF LedgerReads
  <2> QED
    BY <2>2, <2>3, <2>4, <2>5, Zenon
<1>4. BaseInv' /\ ResumeInv'
  BY <1>1, <1>2, <1>3, Zenon DEF BaseInv, ResumeInv
<1>5. ASSUME LinkInv
      PROVE  LinkInv'
  <2>1. IdleInv' /\ UnrollInv'
    <3>1. IdleInv'
      BY <1>1, <1>3, <1>5 DEF LinkInv, IdleInv, Sound, Ahead
    <3>2. UnrollInv'
      BY <1>1, <1>3, <1>5 DEF LinkInv, UnrollInv, Sound, Ahead
    <3> QED
      BY <3>1, <3>2
  <2>2. DownInv' /\ ConnectInv' /\ RollingInv' /\ CachingInv' /\ DeletedInv'
    BY <1>1, <1>3 DEF DownInv, ConnectInv, RollingInv, CachingInv, DeletedInv
  <2> QED
    BY <1>1, <1>3, <1>5, <2>1, <2>2 DEF LinkInv
<1> QED
  BY <1>1, <1>4, <1>5 DEF CacheInv

(* The process ends, anywhere. *)
LEMMA StopKeeps ==
    ASSUME CacheInv, Stop
    PROVE  CacheInv'
<1> DEFINE C == node.chain
<1> DEFINE F == node.forks
<1> DEFINE D == scenario.disableUntil
<1> DEFINE T == ResumePoint
<1>1. /\ BaseInv /\ UNCHANGED <<node, cache, scenario>> /\ ResumePoint' = T /\ led.pc # "down"
      /\ session' = [read |-> 0, roll |-> FALSE]
      /\ led'.pc = "down" /\ led'.at = Origin /\ led'.to = Origin /\ led'.any = FALSE
      /\ DOMAIN led' = DOMAIN Idle
  BY DEF CacheInv, ResumePoint, Stop, Down, Idle
<1>2. /\ T[1] \in Nat /\ F \in Nat /\ D \in Nat /\ Len(C) \in Nat /\ led.at[1] \in Nat
      /\ WellMade(C, F) /\ Seen(C, F, T) /\ T \in Point
  BY <1>1, Basics DEF BaseInv
<1>3. Origin \in Point /\ Seen(C, F, Origin)
  BY <1>2, PointsOfChain DEF PointAt
<1>4. session' \in [read : 0..Len(C), roll : BOOLEAN]
  BY <1>1, <1>2
<1>5. BaseInv' /\ ResumeInv'
  BY <1>1, <1>3, <1>4, Zenon DEF BaseInv, ResumeInv
<1> HIDE DEF C, F, D, T
<1>6. ASSUME NEW p, NEW r, NEW q, Whole(C, F, cache.blocks, D, T[1], p, r, q)
      PROVE  Whole(C, F, cache.blocks, D, T[1], p, 0, Origin)
  <2>1. 0 \in 0..p[1] /\ 0 <= r
    BY <1>6 DEF Whole, Point
  <2> QED
    BY <1>2, <1>6, <2>1, WholeUpTo, Zenon
<1>7. ASSUME LinkInv
      PROVE  Whole(C, F, cache.blocks, D, T[1], T, 0, Origin) \/ Lost
  <2>1. CASE led.pc \in {"rolling", "undoing"}
    BY <1>7, <2>1 DEF LinkInv, RollingInv, Sound, C, F, D, T
  <2>2. CASE led.pc = "connect"
    BY <1>7, <2>2 DEF LinkInv, ConnectInv, Sound, C, F, D, T
  <2>3. CASE led.pc \in {"idle", "applying"}
    <3>1. Whole(C, F, cache.blocks, D, T[1], T, session.read, Origin)
      BY <1>7, <2>3 DEF LinkInv, IdleInv, Sound, C, F, D, T
    <3> QED
      BY <1>6, <3>1
  <2>4. CASE led.pc \in {"unrolling", "unapplying"}
    <3>1. Whole(C, F, cache.blocks, D, T[1], T, session.read, led.to)
      BY <1>7, <2>4 DEF LinkInv, UnrollInv, Sound, C, F, D, T
    <3> QED
      BY <1>6, <3>1
  <2>5. CASE led.pc = "deleted"
    BY <1>7, <2>5 DEF LinkInv, DeletedInv
  <2>6. CASE led.pc = "caching"
    <3>1. /\ led.at[1] + 1 = T[1] /\ (On(C, T) => On(C, led.at))
          /\ T \in DOMAIN cache.blocks => cache.blocks[T].prev = led.at
          /\ Whole(C, F, cache.blocks, D, T[1], led.at,
                   IF session.roll THEN session.read ELSE led.at[1], Origin)
      BY <1>7, <2>6 DEF LinkInv, CachingInv, Sound, Cached, C, F, D, T
    <3>2. CASE T \notin DOMAIN cache.blocks
      BY <1>2, <3>1, <3>2 DEF Lost, Cached, T
    <3>3. CASE T \in DOMAIN cache.blocks
      <4>1. Whole(C, F, cache.blocks, D, T[1], led.at, 0, Origin)
        BY <1>6, <3>1
      <4>2. T[1] + F <= T[1] => On(C, T)
        <5> SUFFICES ASSUME T[1] + F <= T[1]
                     PROVE  On(C, T)
          OBVIOUS
        <5>1. ~(T[2] < F)
          BY <1>2 DEF Point
        <5> QED
          BY <1>2, <5>1 DEF Seen
      <4>3. 0 \in {0, T[1]} /\ (0 = T[1] => On(C, T))
        BY <1>2, <3>1, SMTT(20)
      <4> QED
        BY <1>2, <3>1, <3>3, <4>1, <4>2, <4>3, WholeOn
    <3> QED
      BY <3>2, <3>3
  <2> QED
    BY <1>1, <2>1, <2>2, <2>3, <2>4, <2>5, <2>6 DEF BaseInv
<1>8. ASSUME LinkInv
      PROVE  LinkInv'
  <2>1. DownInv'
    BY <1>1, <1>7, <1>8 DEF DownInv, Sound, Lost, Cached, C, F, D, T
  <2>2. ConnectInv' /\ RollingInv' /\ IdleInv' /\ CachingInv' /\ UnrollInv' /\ DeletedInv'
    BY <1>1 DEF ConnectInv, RollingInv, IdleInv, UnrollInv, CachingInv, DeletedInv
  <2> QED
    BY <1>1, <1>8, <2>1, <2>2 DEF LinkInv, T
<1> QED
  BY <1>1, <1>5, <1>8 DEF CacheInv

(* The node. *)
LEMMA NodeKeeps ==
    ASSUME CacheInv, Node
    PROVE  CacheInv'
<1>1. BaseInv /\ DOMAIN node = {"chain", "mem", "forks", "drops"} /\ WellMade(node.chain, node.forks)
  BY DEF CacheInv, BaseInv
<1>2. /\ node.forks \in Nat /\ Len(node.chain) \in Nat /\ scenario.forks \in Nat
      /\ scenario.disableUntil \in Nat
      /\ session.read \in 0..Len(node.chain) /\ node.forks <= scenario.forks
      /\ DOMAIN session = {"read", "roll"} /\ node.chain \in Seq(Block)
  BY <1>1, Basics DEF BaseInv, WellMade
<1>3. CASE \E t \in Tx : Submit(t) \/ Evict(t)
  <2>1. /\ UNCHANGED <<session, cache, led, scenario>>
        /\ node'.chain = node.chain /\ node'.forks = node.forks /\ DOMAIN node' = DOMAIN node
    BY <1>1, <1>3, Zenon DEF Submit, Evict, volatile
  <2> QED
    BY <2>1, ElsewhereKeeps
<1>4. CASE \E ts \in scenario.bodies : Produce(ts)
  <2>1. PICK ts \in scenario.bodies : Produce(ts)
    BY <1>4
  <2> DEFINE b == [slot |-> Len(node.chain) + 1, fork |-> node.forks, txs |-> ts]
  <2>2. /\ node'.chain = Append(node.chain, b) /\ node'.forks = node.forks
        /\ DOMAIN node' = DOMAIN node
        /\ UNCHANGED <<session, cache, led, scenario>>
    BY <1>1, <2>1 DEF Produce, volatile
  <2>3. b \in Block /\ b.slot = Len(node.chain) + 1 /\ b.fork = node.forks
    <3>1. scenario \in Scenarios
      BY <1>1 DEF BaseInv
    <3> QED
      BY <1>2, <2>1, <3>1 DEF Block
  <2> HIDE DEF b
  <2>4. Moves(node.chain, node.forks, node'.chain, node'.forks)
    BY <1>1, <2>2, <2>3, Growth
  <2>5. Len(node'.chain) = Len(node.chain) + 1
    BY <1>2, <2>2, <2>3
  <2>6. SessionMoves
    BY <1>2, <2>2, <2>5 DEF SessionMoves
  <2> QED
    BY <1>2, <2>2, <2>4, <2>6, NodeMoves
<1>5. CASE Fork
  <2> DEFINE E == SubSeq(node.chain, 1, Len(node.chain) - 1)
  <2>1. /\ node.forks < scenario.forks /\ Len(node.chain) > 1 /\ Len(E) > scenario.disableUntil
        /\ node'.chain = E /\ node'.forks = node.forks + 1 /\ DOMAIN node' = DOMAIN node
        /\ session' = IF session.read > Len(E) THEN [read |-> Len(E), roll |-> TRUE] ELSE session
        /\ UNCHANGED <<cache, led, scenario>>
    BY <1>1, <1>5 DEF Fork, volatile
  <2> HIDE DEF E
  <2>2. Moves(node.chain, node.forks, E, node.forks + 1) /\ Len(E) = Len(node.chain) - 1
    BY <1>1, <2>1, Shrinking DEF E
  <2>3. SessionMoves
    BY <1>2, <2>1, <2>2 DEF SessionMoves
  <2>4. node'.forks <= scenario.forks
    BY <1>2, <2>1
  <2> QED
    BY <2>1, <2>2, <2>3, <2>4, NodeMoves
<1> QED
  BY <1>3, <1>4, <1>5 DEF Node

LEMMA CacheInvInit ==
    ASSUME MonitorInit
    PROVE  CacheInv
<1>1. /\ scenario \in Scenarios /\ led = Down /\ session = [read |-> 0, roll |-> FALSE]
      /\ DOMAIN node = {"chain", "mem", "forks", "drops"} /\ node.chain = <<>> /\ node.forks = 0
      /\ DOMAIN cache = {"tip", "blocks"} /\ cache.tip = {} /\ cache.blocks = [p \in {} |-> {}]
  BY DEF MonitorInit
<1>2. DOMAIN cache.blocks = {} /\ ResumePoint = Origin
  BY <1>1 DEF ResumePoint
<1>3. /\ scenario.forks \in Nat /\ scenario.disableUntil \in Nat /\ Len(node.chain) = 0
      /\ WellMade(node.chain, node.forks) /\ node.forks <= scenario.forks
  BY <1>1, ScenarioAssumption DEF WellMade
<1>4. Origin \in Point /\ Seen(node.chain, node.forks, Origin) /\ Origin[1] = 0
  BY <1>1, <1>3, PointsOfChain DEF PointAt, Origin
<1>5. /\ led.pc = "down" /\ led.at = Origin /\ led.to = Origin /\ led.any = FALSE
      /\ DOMAIN led = DOMAIN Idle
  BY <1>1 DEF Down, Idle
<1>6. session \in [read : 0..Len(node.chain), roll : BOOLEAN]
  BY <1>1, <1>3
<1>7. BaseInv /\ ResumeInv
  <2> HIDE DEF Origin
  <2> QED
    BY <1>1, <1>2, <1>3, <1>4, <1>5, <1>6, Zenon DEF BaseInv, ResumeInv
<1>8. Sound(ResumePoint, 0, Origin)
  BY <1>2, <1>3, WholeOrigin DEF Sound
<1>9. LinkInv
  <2>1. DownInv
    BY <1>8 DEF DownInv
  <2>2. RollingInv /\ ConnectInv
    BY <1>5 DEF RollingInv, ConnectInv
  <2>3. IdleInv /\ CachingInv /\ UnrollInv /\ DeletedInv
    BY <1>5 DEF IdleInv, CachingInv, UnrollInv, DeletedInv
  <2>4. Entries(node.chain, cache.blocks)
    BY <1>2 DEF Entries
  <2>5. ResumePoint[1] <= Len(node.chain) + node.forks
    BY <1>1, <1>2, <1>3, <1>4
  <2> QED
    BY <1>2, <2>1, <2>2, <2>3, <2>4, <2>5 DEF LinkInv
<1> QED
  BY <1>7, <1>9 DEF CacheInv

LEMMA CacheInvNext ==
    ASSUME CacheInv, [MonitorNext]_vars
    PROVE  CacheInv'
<1>1. CASE TipReached \/ Mempool \/ Tracker \/ UNCHANGED vars
  <2>1. UNCHANGED <<node, session, cache, led, scenario>>
    BY <1>1, Zenon DEF TipReached, Mempool, Acquire, QueryNextTx, TakeDropped, MempoolReads,
                HandleAccepted, HandleDropped,
                Tracker, ProcessIncoming, ProcessConfirmed, vars
  <2> QED
    BY <2>1, ElsewhereKeeps
<1>2. CASE Ledger /\ ~TipReached
  BY <1>2, RestartKeeps, RollbackBlockKeeps, RollbackDeleteKeeps, RollbackDoneKeeps,
     RollbackFailsKeeps, ConnectKeeps, RollForwardKeeps, PutBlockKeeps, RollBackwardKeeps,
     UnrollKeeps, UnrollSetTipKeeps, EventsKeep DEF Ledger
<1>3. CASE Node
  BY <1>3, NodeKeeps
<1>4. CASE Stop
  BY <1>4, StopKeeps
<1> QED
  BY <1>1, <1>2, <1>3, <1>4 DEF MonitorNext

LEMMA CacheInvGives ==
    ASSUME CacheInv
    PROVE  CacheFollowsChain
<1> DEFINE C == node.chain
<1> DEFINE F == node.forks
<1> DEFINE D == scenario.disableUntil
<1> DEFINE T == ResumePoint
<1>1. BaseInv /\ ResumeInv /\ (scenario.rollbackSlots > 0 => LinkInv)
  BY DEF CacheInv
<1>2. /\ T[1] \in Nat /\ F \in Nat /\ D \in Nat /\ Len(C) \in Nat /\ session.read \in 0..Len(C)
  BY <1>1, Basics
<1> HIDE DEF C, F, D, T
<1>3. ASSUME led.pc = "idle", ~session.roll, scenario.rollbackSlots > 0
      PROVE  /\ T = PointAt(C, session.read)
             /\ \A n \in (D + 1)..session.read :
                   /\ PointAt(C, n) \in DOMAIN cache.blocks
                   /\ cache.blocks[PointAt(C, n)] = [blk |-> C[n], prev |-> PointAt(C, n - 1)]
  <2>1. /\ Whole(C, F, cache.blocks, D, T[1], T, session.read, Origin) /\ session.read = T[1]
        /\ Entries(C, cache.blocks)
    BY <1>1, <1>3 DEF LinkInv, IdleInv, Sound, Ahead, C, F, D, T
  <2>2. On(C, T)
    BY <1>2, <2>1, WholeEnd
  <2>3. T = PointAt(C, session.read)
    BY <2>1, <2>2 DEF On
  <2>4. ASSUME NEW n \in (D + 1)..session.read
        PROVE  /\ PointAt(C, n) \in DOMAIN cache.blocks
               /\ cache.blocks[PointAt(C, n)] = [blk |-> C[n], prev |-> PointAt(C, n - 1)]
    <3>1. PointAt(C, n) \in DOMAIN cache.blocks
      BY <1>2, <2>1, <2>2, WholeCached
    <3>2. n \in 0..Len(C)
      BY <1>2
    <3>3. On(C, PointAt(C, n)) /\ PointAt(C, n)[1] = n
      BY <1>1, <1>2, <3>2, PointsOfChain DEF BaseInv, On, C, F
    <3> QED
      BY <2>1, <3>1, <3>3 DEF Entries
  <2> QED
    BY <2>3, <2>4
<1>4. ASSUME led.pc = "connect", scenario.forks <= scenario.rollbackSlots
      PROVE  \E n \in 0..Len(C) : PointAt(C, n) = T
  <2>1. T = Origin \/ On(C, T)
    BY <1>1, <1>4 DEF ResumeInv, C, T
  <2>2. PointAt(C, 0) = Origin
    BY DEF PointAt
  <2> QED
    BY <1>2, <2>1, <2>2 DEF On
<1> QED
  BY <1>3, <1>4 DEF CacheFollowsChain, Cached, C, D, T

(* For every chain, any forks, any configuration and stops at any moment:  *)
(* whenever the ledger task waits for the node, the cache of blocks is     *)
(* linked in order along the chain up to the read pointer, so that         *)
(* rollback finds every block it has to undo; and a restart that goes back *)
(* by auto_rollback_slots wants to resume from a point on the chain.       *)
THEOREM CacheAlwaysFollowsChain == MonitorSpec => []CacheFollowsChain
<1>1. MonitorInit => CacheInv
  BY CacheInvInit
<1>2. CacheInv /\ [MonitorNext]_vars => CacheInv'
  BY CacheInvNext
<1>3. CacheInv => CacheFollowsChain
  BY CacheInvGives
<1> QED
  BY <1>1, <1>2, <1>3, PTL DEF MonitorSpec
=============================================================================
