------------------------- MODULE UtxoRestartProofs -------------------------
(***************************************************************************)
(* The steps of the node, and of a monitor that starts and undoes the last *)
(* auto_rollback_slots slots, keep the invariant of the cache of blocks.   *)
(***************************************************************************)
EXTENDS UtxoMonitorProofs

(* What the node may do to the session: nothing, or take the block it read *)
(* last.                                                                   *)
SessionMoves ==
    \/ session' = session /\ session.read <= Len(node'.chain)
    \/ /\ session' = [read |-> Len(node'.chain), roll |-> TRUE]
       /\ session.read = Len(node'.chain) + 1
       /\ node'.forks = node.forks + 1
       /\ Len(node'.chain) > scenario.disableUntil

(* A new block or a fork. *)
LEMMA NodeMoves ==
    ASSUME CacheInv, Moves(node.chain, node.forks, node'.chain, node'.forks), SessionMoves,
           node'.forks <= scenario.forks, DOMAIN node' = DOMAIN node,
           UNCHANGED <<cache, led, scenario>>
    PROVE  CacheInv'
<1> DEFINE C == node.chain
<1> DEFINE F == node.forks
<1> DEFINE E == node'.chain
<1> DEFINE G == node'.forks
<1> DEFINE D == scenario.disableUntil
<1> DEFINE B == cache.blocks
<1> DEFINE t == ResumePoint[1]
<1>1. ResumePoint' = ResumePoint
  BY DEF ResumePoint
<1>2. BaseInv
  BY DEF CacheInv
<1>3. F \in Nat /\ G \in Nat /\ Len(C) \in Nat /\ Len(E) \in Nat
  BY <1>2, Basics DEF Moves, WellMade
<1>4. F <= G /\ Len(C) + F <= Len(E) + G
  BY DEF Moves
<1>5. t \in Nat /\ D \in Nat
  BY <1>2, Basics
<1>6. led.at[1] \in Nat /\ led.to[1] \in Nat
  BY <1>2, Basics
<1>7. session.read \in Nat /\ session.read <= Len(C) /\ session.roll \in BOOLEAN
  BY <1>2, <1>3, Basics
<1>8. scenario.forks \in Nat /\ G <= scenario.forks
  BY <1>2, Basics
<1>9. t = ResumePoint[1] /\ F = node.forks /\ G = node'.forks /\ D = scenario.disableUntil
  OBVIOUS
<1> HIDE DEF C, F, E, G, D, B, t
<1>10. /\ session' \in [read : 0..Len(E), roll : BOOLEAN]
       /\ session'.read \in Nat /\ session'.read <= session.read /\ session'.read <= Len(E)
       /\ session'.read + G >= session.read + F
       /\ session'.read = session.read \/ session'.read > D
       /\ session.roll => session'.roll
       /\ ~session'.roll => session'.read = session.read
       /\ session'.roll /\ ~session.roll => session'.read < session.read
  <2>2. CASE session' = session /\ session.read <= Len(E)
    <3>1. session \in [read : 0..Len(C), roll : BOOLEAN]
      BY <1>2 DEF BaseInv, C
    <3>2. session'.read = session.read /\ session'.roll = session.roll
      BY <2>2
    <3>3. session' \in [read : 0..Len(E), roll : BOOLEAN]
      BY <1>3, <1>7, <2>2, <3>1
    <3> QED
      BY <1>3, <1>4, <1>7, <2>2, <3>2, <3>3
  <2>3. CASE /\ session' = [read |-> Len(E), roll |-> TRUE]
             /\ session.read = Len(E) + 1 /\ G = F + 1 /\ Len(E) > D
    <3>1. session'.read = Len(E) /\ session'.roll = TRUE
      BY <2>3
    <3>2. session' \in [read : 0..Len(E), roll : BOOLEAN]
      BY <1>3, <2>3
    <3> QED
      BY <1>3, <2>3, <3>1, <3>2
  <2> QED
    BY <2>2, <2>3 DEF SessionMoves, F, E, G, D
<1>11. \A p : Seen(C, F, p) => Seen(E, G, p) /\ (On(E, p) <=> On(C, p) /\ p[1] <= Len(E))
  BY DEF Moves, C, F, E, G
<1>12. BaseInv'
  <2>1. WellMade(E, G)
    BY DEF Moves, E, G
  <2> QED
    BY <1>1, <1>2, <1>10, <1>11, <2>1 DEF BaseInv, Cached, C, F, E, G
<1>13. ResumeInv'
  <2> SUFFICES ASSUME led.pc = "connect", scenario.forks <= scenario.rollbackSlots,
                      ResumePoint # Origin
               PROVE  t + scenario.forks <= Len(E) + G /\ On(E, ResumePoint)
    BY <1>1 DEF ResumeInv, E, G, t
  <2>1. t + scenario.forks <= Len(C) + F /\ On(C, ResumePoint)
    BY DEF CacheInv, ResumeInv, C, F, t
  <2>2. t <= Len(E)
    BY <1>3, <1>4, <1>5, <1>8, <2>1
  <2>3. Seen(C, F, ResumePoint)
    BY <1>2 DEF BaseInv, C, F
  <2>4. On(E, ResumePoint)
    BY <1>11, <1>9, <2>1, <2>2, <2>3
  <2>5. t + scenario.forks <= Len(E) + G
    BY <1>3, <1>4, <1>5, <1>8, <2>1
  <2> QED
    BY <2>4, <2>5
<1>14. ASSUME scenario.rollbackSlots > 0
       PROVE  LinkInv'
  <2>1. LinkInv
    BY <1>14 DEF CacheInv
  <2>2. t <= Len(C) + F
    BY <2>1 DEF LinkInv, C, F, t
  <2>3. ASSUME NEW p, NEW r, NEW q, NEW s \in 0..r, s <= Len(E), Sound(p, r, q)
        PROVE  Whole(E, G, B, D, t, p, s, q)
    <3>1. Whole(C, F, B, D, t, p, r, q)
      BY <2>3 DEF Sound, C, F, D, B, t
    <3>2. Moves(C, F, E, G)
      BY DEF C, F, E, G
    <3> QED
      BY <1>3, <1>4, <1>5, <2>2, <2>3, <3>1, <3>2, WholeMoves
  <2>4. ASSUME NEW p, NEW r, NEW q, Sound(p, r, q)
        PROVE  Whole(E, G, B, D, t, p, 0, q) /\ r \in 0..p[1] /\ p[1] \in Nat
    <3>1. r \in 0..p[1] /\ p[1] \in Nat
      BY <2>4 DEF Sound, Whole, Point
    <3> QED
      BY <1>3, <2>3, <2>4, <3>1
  <2>5. Entries(E, B)
    <3> SUFFICES ASSUME NEW p \in DOMAIN B, On(E, p)
                 PROVE  p[1] > 0 /\ B[p] = [blk |-> E[p[1]], prev |-> PointAt(E, p[1] - 1)]
      BY DEF Entries
    <3>1. Seen(C, F, p)
      BY <1>2 DEF BaseInv, C, F, B
    <3>2. On(C, p) /\ p[1] <= Len(E) /\ p[1] \in 0..Len(C)
      BY <1>11, <3>1 DEF On
    <3>3. p[1] > 0 /\ B[p] = [blk |-> C[p[1]], prev |-> PointAt(C, p[1] - 1)]
      BY <2>1, <3>2 DEF LinkInv, Entries, C, B
    <3>4. \A n \in 1..Len(C) : n <= Len(E) => E[n] = C[n]
      BY DEF Moves, C, E
    <3>5. E[p[1]] = C[p[1]] /\ PointAt(E, p[1] - 1) = PointAt(C, p[1] - 1)
      <4>1. p[1] \in 1..Len(C) /\ (p[1] - 1 = 0 \/ (p[1] - 1 \in 1..Len(C) /\ p[1] - 1 <= Len(E)))
        BY <1>3, <3>2, <3>3
      <4>2. E[p[1]] = C[p[1]] /\ (p[1] - 1 # 0 => E[p[1] - 1] = C[p[1] - 1])
        BY <3>2, <3>4, <4>1
      <4> QED
        BY <4>2 DEF PointAt
    <3> QED
      BY <3>3, <3>5
  <2>6. t <= Len(E) + G
    BY <1>3, <1>4, <1>5, <2>2
  <2>7. DownInv' /\ ConnectInv'
    BY <1>1, <2>1, <2>4 DEF LinkInv, DownInv, ConnectInv, Sound, Lost, Cached, E, G, D, B, t
  <2>8. RollingInv'
    BY <1>1, <2>1, <2>4 DEF LinkInv, RollingInv, Sound, Lost, Cached, TargetSlot, E, G, D, B, t
  <2>9. ASSUME NEW n \in Nat, Ahead(n)
        PROVE  Ahead(n)'
    <3>1. /\ session.read <= n /\ t <= session.read + F
          /\ ~session.roll => session.read = n
          /\ session.read = t \/ session.read > D
      BY <2>9 DEF Ahead, F, D, t
    <3>2. session'.read <= n
      BY <1>10, <1>7, <3>1
    <3>3. t <= session'.read + G
      BY <1>3, <1>10, <1>5, <1>7, <3>1
    <3>4. ~session'.roll => session'.read = n
      BY <1>10, <3>1
    <3>5. session'.read = t \/ session'.read > D
      BY <1>10, <3>1
    <3> QED
      BY <1>1, <3>2, <3>3, <3>4, <3>5 DEF Ahead, G, D, t
  <2>10. ASSUME NEW p, NEW q, Sound(p, session.read, q)
         PROVE  Whole(E, G, B, D, t, p, session'.read, q)
    <3>1. session'.read \in 0..session.read /\ session'.read <= Len(E)
      BY <1>10, <1>7
    <3> QED
      BY <2>3, <2>10, <3>1, Zenon
  <2>11. IdleInv'
    <3>1. ResumePoint[1] \in Nat
      BY <1>5 DEF t
    <3> QED
      BY <1>1, <2>1, <2>9, <2>10, <3>1, Zenon DEF LinkInv, IdleInv, Sound, E, G, D, B, t
  <2>12. UnrollInv'
    BY <1>1, <1>6, <2>1, <2>9, <2>10, Zenon DEF LinkInv, UnrollInv, Sound, E, G, D, B, t
  <2>13. DeletedInv'
    BY <1>1, <1>6, <2>1, <2>9, <2>10, Zenon DEF LinkInv, DeletedInv, Sound, Lost, Cached, E, G, D, B, t
  <2>14. CachingInv'
    <3> SUFFICES ASSUME led.pc = "caching"
                 PROVE  CachingInv'
      BY DEF CachingInv
    <3>1. /\ led.blk \in Block
          /\ led.at[1] + 1 = ResumePoint[1] /\ ResumePoint[1] > D
          /\ On(C, ResumePoint) => led.blk = C[ResumePoint[1]] /\ On(C, led.at)
          /\ Cached(ResumePoint) => B[ResumePoint].prev = led.at
          /\ ~session.roll => On(C, ResumePoint)
          /\ session.roll => session.read <= led.at[1]
          /\ Ahead(ResumePoint[1])
          /\ Sound(led.at, IF session.roll THEN session.read ELSE led.at[1], Origin)
      BY <2>1 DEF LinkInv, CachingInv, C, D, B
    <3>2. Seen(C, F, ResumePoint) /\ Seen(C, F, led.at)
      BY <1>2 DEF BaseInv, C, F
    <3>3. ~session.roll => session.read = ResumePoint[1]
      BY <3>1 DEF Ahead
    <3>4. On(E, ResumePoint) => led.blk = E[ResumePoint[1]] /\ On(E, led.at)
      <4> SUFFICES ASSUME On(E, ResumePoint)
                   PROVE  led.blk = E[ResumePoint[1]] /\ On(E, led.at)
        OBVIOUS
      <4>1. On(C, ResumePoint) /\ ResumePoint[1] <= Len(E) /\ ResumePoint[1] \in 1..Len(C)
        BY <1>3, <1>11, <3>1, <3>2 DEF On
      <4>2. E[ResumePoint[1]] = C[ResumePoint[1]]
        BY <4>1 DEF Moves, C, E
      <4>3. led.at[1] <= Len(E)
        BY <1>3, <1>6, <3>1, <4>1
      <4> QED
        BY <1>11, <3>1, <3>2, <4>1, <4>2, <4>3
    <3>5. ~session'.roll => On(E, ResumePoint)
      BY <1>3, <1>10, <1>11, <3>1, <3>2, <3>3
    <3>6. session'.roll => session'.read <= led.at[1]
      <4>1. CASE session.roll
        BY <1>10, <1>6, <1>7, <3>1, <4>1
      <4>2. CASE ~session.roll
        BY <1>10, <1>6, <1>7, <3>1, <3>3, <4>2
      <4> QED
        BY <4>1, <4>2
    <3>7. Ahead(ResumePoint[1])'
      BY <1>1, <1>9, <1>5, <2>9, <3>1
    <3>8. Whole(E, G, B, D, t, led.at, IF session'.roll THEN session'.read ELSE led.at[1], Origin)
      <4>1. CASE session.roll
        <5>1. Sound(led.at, session.read, Origin) /\ session'.roll
          BY <1>10, <3>1, <4>1
        <5> QED
          BY <2>10, <5>1
      <4>2. CASE ~session.roll
        <5>1. Sound(led.at, led.at[1], Origin)
          BY <3>1, <4>2
        <5>2. CASE session'.roll
          <6>1. session'.read \in 0..led.at[1] /\ session'.read <= Len(E)
            BY <1>10, <1>6, <3>6, <5>2
          <6> QED
            BY <2>3, <5>1, <5>2, <6>1, Zenon
        <5>3. CASE ~session'.roll
          <6>1. led.at[1] <= Len(E) /\ led.at[1] \in 0..led.at[1]
            BY <1>3, <1>10, <1>6, <3>1, <3>3, <4>2, <5>3
          <6> QED
            BY <2>3, <5>1, <5>3, <6>1, Zenon
        <5> QED
          BY <5>2, <5>3
      <4> QED
        BY <4>1, <4>2
    <3> QED
      BY <1>1, <3>1, <3>4, <3>5, <3>6, <3>7, <3>8 DEF CachingInv, Sound, Cached, E, G, D, B, t
  <2> QED
    BY <1>1, <2>1, <2>5, <2>6, <2>7, <2>8, <2>11, <2>12, <2>13, <2>14
       DEF LinkInv, E, G, D, B, t
<1> QED
  BY <1>12, <1>13, <1>14 DEF CacheInv

-----------------------------------------------------------------------------
(* The start of the monitor. *)

LEMMA RestartKeeps ==
    ASSUME CacheInv, DetermineRestartMode
    PROVE  CacheInv'
<1> USE DEF DetermineRestartMode
<1>1. /\ BaseInv /\ ResumePoint' = ResumePoint /\ UNCHANGED <<node, session, cache, scenario>>
      /\ led.pc = "down"
  BY DEF CacheInv, ResumePoint
<1>2. CASE cache.tip = {}
  <2>1. /\ DOMAIN led' = DOMAIN Idle /\ led'.pc = "connect" /\ led'.at = Origin /\ led'.to = Origin
        /\ led'.any = FALSE /\ ResumePoint = Origin
    BY <1>2 DEF Down, Idle, ResumePoint
  <2>2. Origin \in Point /\ Seen(node.chain, node.forks, Origin)
    BY <1>1, <2>1 DEF BaseInv, Seen
  <2>3. BaseInv' /\ ResumeInv'
    BY <1>1, <2>1, <2>2, Zenon DEF BaseInv, ResumeInv
  <2>4. Sound(ResumePoint, 0, Origin)
    BY <1>1, <2>1, Basics, WholeOrigin DEF Sound, BaseInv
  <2>5. ConnectInv'
    BY <1>1, <2>4 DEF ConnectInv, Sound
  <2> QED
    BY <1>1, <2>1, <2>3, <2>5
       DEF CacheInv, LinkInv, DownInv, RollingInv, IdleInv, CachingInv, UnrollInv, DeletedInv
<1>3. CASE cache.tip # {}
  <2>1. led' = [Down EXCEPT !.pc = "rolling", !.at = ResumePoint,
                            !.to = <<TargetSlot(ResumePoint), 0>>]
    BY <1>3, Zenon DEF ResumePoint
  <2>2. /\ DOMAIN led' = DOMAIN Idle /\ led'.pc = "rolling" /\ led'.at = ResumePoint
        /\ led'.to = <<TargetSlot(ResumePoint), 0>> /\ led'.any = FALSE
    BY <2>1, Zenon DEF Down, Idle
  <2>3. TargetSlot(ResumePoint) \in Nat /\ TargetSlot(ResumePoint) <= ResumePoint[1]
    BY <1>1, Basics DEF TargetSlot
  <2>4. led'.to \in Point /\ led'.to[1] = TargetSlot(ResumePoint)
    BY <2>2, <2>3 DEF Point
  <2>5. BaseInv' /\ ResumeInv'
    BY <1>1, <2>2, <2>4, Zenon DEF BaseInv, ResumeInv
  <2>6. ASSUME LinkInv
        PROVE  RollingInv'
    <3>1. Sound(ResumePoint, 0, Origin) \/ Lost
      BY <1>1, <2>6 DEF LinkInv, DownInv
    <3>2. (Sound(ResumePoint, 0, Origin) \/ Lost)'
      BY <1>1, <3>1 DEF Sound, Lost, Cached
    <3>3. TargetSlot(ResumePoint)' = TargetSlot(ResumePoint)
      BY <1>1, SMTT(20) DEF TargetSlot
    <3> QED
      BY <1>1, <2>2, <2>3, <2>4, <3>2, <3>3, Zenon DEF RollingInv
  <2> QED
    BY <1>1, <2>2, <2>5, <2>6
       DEF CacheInv, LinkInv, DownInv, ConnectInv, IdleInv, CachingInv, UnrollInv, DeletedInv
<1> QED
  BY <1>2, <1>3

LEMMA RollbackBlockKeeps ==
    ASSUME CacheInv, RollbackBlock \/ RollbackTx
    PROVE  CacheInv'
<1>1. /\ BaseInv /\ ResumePoint' = ResumePoint /\ UNCHANGED <<node, session, cache, scenario>>
      /\ led.pc \in {"rolling", "undoing"} /\ led'.pc = "undoing"
      /\ DOMAIN led' = DOMAIN led /\ led'.at = led.at /\ led'.to = led.to /\ led'.any = led.any
      /\ led.pc = "rolling" => led.at[1] > led.to[1] /\ Cached(led.at)
  <2>1. DOMAIN led = {"pc", "at", "to", "any", "todo", "blk", "sent", "seen"}
    BY DEF CacheInv, BaseInv, Idle
  <2>2. CASE RollbackBlock
    BY <2>1, <2>2 DEF CacheInv, ResumePoint, RollbackBlock
  <2>3. CASE RollbackTx
    BY <2>1, <2>3 DEF CacheInv, ResumePoint, RollbackTx
  <2> QED
    BY <2>2, <2>3
<1>2. BaseInv' /\ ResumeInv'
  BY <1>1 DEF BaseInv, ResumeInv, Cached
<1>3. ASSUME LinkInv
      PROVE  RollingInv'
  BY <1>1, <1>3 DEF LinkInv, RollingInv, Sound, Lost, Cached, TargetSlot
<1> QED
  BY <1>1, <1>2, <1>3
     DEF CacheInv, LinkInv, DownInv, ConnectInv, IdleInv, CachingInv, UnrollInv, DeletedInv

LEMMA RollbackDeleteKeeps ==
    ASSUME CacheInv, RollbackDelete
    PROVE  CacheInv'
<1>1. /\ BaseInv /\ DeleteBlock(led.at) /\ UNCHANGED <<node, session, scenario>>
      /\ led.pc = "undoing" /\ led'.pc = "rolling" /\ led'.any = TRUE
      /\ DOMAIN led' = DOMAIN led /\ led'.at = cache.blocks[led.at].prev /\ led'.to = led.to
  BY DEF CacheInv, BaseInv, RollbackDelete, Idle
<1>2. /\ cache'.tip = cache.tip /\ ResumePoint' = ResumePoint /\ DOMAIN cache' = DOMAIN cache
      /\ DOMAIN cache'.blocks = DOMAIN cache.blocks \ {led.at}
      /\ \A x \in DOMAIN cache'.blocks : cache'.blocks[x] = cache.blocks[x]
  BY <1>1, BlockDeleted
<1>3. Cached(led.at)
  BY <1>1 DEF BaseInv
<1>4. BaseInv' /\ ResumeInv'
  BY <1>1, <1>2, <1>3, Zenon DEF BaseInv, Cached, ResumeInv
<1>5. ASSUME LinkInv
      PROVE  LinkInv'
  <2>1. /\ led.to = <<TargetSlot(ResumePoint), 0>> /\ led.at[1] > led.to[1]
        /\ \/ led.at = ResumePoint /\ (Sound(ResumePoint, 0, Origin) \/ Lost)
           \/ led.at[1] < ResumePoint[1] /\ Lost /\ Sound(led.at, 0, Origin)
    BY <1>1, <1>5 DEF LinkInv, RollingInv
  <2>2. Sound(led.at, 0, Origin)
    BY <1>3, <2>1 DEF Lost
  <2>3. /\ led.at[1] > scenario.disableUntil /\ led.at[1] \in Nat /\ led.to[1] \in Nat
        /\ ResumePoint[1] \in Nat /\ scenario.disableUntil \in Nat /\ node.forks \in Nat
        /\ led.at[1] <= ResumePoint[1]
    BY <1>1, <1>3, <1>5, <2>1, Basics DEF LinkInv, Cached
  <2> DEFINE z == cache.blocks[led.at].prev
  <2>4. /\ z \in Point /\ z[1] = led.at[1] - 1
        /\ Whole(node.chain, node.forks, cache.blocks, scenario.disableUntil, ResumePoint[1],
                 z, 0, Origin)
    <3>1. 0 < led.at[1] /\ Origin[1] < led.at[1]
      BY <2>1, <2>3 DEF Origin
    <3> QED
      BY <2>2, <2>3, <3>1, WholeBack DEF Sound
  <2> HIDE DEF z
  <2>5. \A x \in Point : x[1] <= z[1] /\ x \in DOMAIN cache.blocks
                           => x \in DOMAIN cache'.blocks /\ cache'.blocks[x] = cache.blocks[x]
    BY <1>2, <2>3, <2>4
  <2>6. Whole(node.chain, node.forks, cache'.blocks, scenario.disableUntil, ResumePoint[1],
              z, 0, Origin)
    BY <2>3, <2>4, <2>5, WholeBelow
  <2>7. Sound(led.at, 0, Origin)'
    BY <1>1, <1>2, <2>6 DEF Sound, z
  <2>8. Lost'
    BY <1>2, <2>1, <2>3 DEF Lost, Cached
  <2>9. /\ TargetSlot(ResumePoint)' = TargetSlot(ResumePoint)
        /\ led'.at[1] < ResumePoint[1] /\ led'.at[1] >= led'.to[1]
    BY <1>1, <1>2, <2>1, <2>3, <2>4 DEF TargetSlot, z
  <2>10. RollingInv'
    BY <1>1, <1>2, <2>1, <2>7, <2>8, <2>9 DEF RollingInv
  <2>11. Entries(node.chain, cache'.blocks)
    BY <1>2, <1>5 DEF LinkInv, Entries
  <2> QED
    BY <1>1, <1>2, <1>5, <2>10, <2>11
       DEF LinkInv, DownInv, ConnectInv, IdleInv, CachingInv, UnrollInv, DeletedInv
<1> QED
  BY <1>1, <1>4, <1>5 DEF CacheInv

LEMMA RollbackDoneKeeps ==
    ASSUME CacheInv, RollbackDone
    PROVE  CacheInv'
<1>1. /\ BaseInv /\ SetTip(led.at) /\ UNCHANGED <<node, session, scenario>>
      /\ led.pc = "rolling" /\ led.at[1] <= led.to[1]
      /\ led'.pc = "connect" /\ led'.at = Origin /\ led'.to = Origin /\ led'.any = FALSE
      /\ DOMAIN led' = DOMAIN Idle
  BY DEF CacheInv, RollbackDone, Down, Idle
<1>2. /\ cache'.tip = {led.at} /\ ResumePoint' = led.at /\ cache'.blocks = cache.blocks
      /\ DOMAIN cache' = DOMAIN cache
  BY <1>1, TipSet
<1>3. /\ WellMade(node.chain, node.forks) /\ node.forks <= scenario.forks
      /\ Seen(node.chain, node.forks, led.at)
  BY <1>1 DEF BaseInv
<1>4. Origin \in Point /\ Seen(node.chain, node.forks, Origin)
  BY <1>1, <1>3, PointsOfChain, Basics DEF PointAt
<1>5. BaseInv'
  BY <1>1, <1>2, <1>4, Zenon DEF BaseInv
<1> DEFINE T == ResumePoint
<1>6. /\ T[1] \in Nat /\ led.at[1] \in Nat /\ led.at \in Point /\ led.to[1] \in Nat
      /\ node.forks \in Nat /\ scenario.forks \in Nat /\ scenario.rollbackSlots \in Nat
      /\ Len(node.chain) \in Nat /\ scenario.disableUntil \in Nat
  BY <1>1, Basics
<1>7. ASSUME LinkInv
      PROVE  /\ led.at[1] = TargetSlot(T) /\ T[1] <= Len(node.chain) + node.forks
             /\ led.at = T \/ led.at[1] < T[1]
             /\ led.at = T => Sound(led.at, 0, Origin) \/ Lost
             /\ led.at # T => Sound(led.at, 0, Origin)
  <2>1. /\ led.to = <<TargetSlot(T), 0>> /\ led.at[1] >= led.to[1]
        /\ \/ led.at = T /\ (Sound(T, 0, Origin) \/ Lost)
           \/ led.at[1] < T[1] /\ Sound(led.at, 0, Origin)
    BY <1>1, <1>7 DEF LinkInv, RollingInv
  <2>2. led.at[1] = TargetSlot(T)
    BY <1>1, <1>6, <2>1
  <2> QED
    BY <1>6, <1>7, <2>1, <2>2 DEF LinkInv
<1>8. ASSUME LinkInv, scenario.rollbackSlots > 0
      PROVE  Sound(led.at, 0, Origin)
  <2>1. CASE led.at = T
    <3>1. T[1] = 0
      BY <1>6, <1>7, <1>8, <2>1 DEF TargetSlot
    <3> QED
      BY <1>7, <1>8, <2>1, <3>1 DEF Lost
  <2>2. CASE led.at # T
    BY <1>7, <1>8, <2>2
  <2> QED
    BY <2>1, <2>2
<1>9. ResumeInv'
  <2> SUFFICES ASSUME scenario.forks <= scenario.rollbackSlots, led.at # Origin
               PROVE  /\ led.at[1] + scenario.forks <= Len(node.chain) + node.forks
                      /\ On(node.chain, led.at)
    BY <1>1, <1>2 DEF ResumeInv
  <2>1. CASE scenario.rollbackSlots = 0
    <3>1. node.forks = 0 /\ scenario.forks = 0
      BY <1>3, <1>6, <2>1
    <3>2. ~(led.at[2] < node.forks)
      BY <1>6, <3>1 DEF Point
    <3>3. On(node.chain, led.at)
      BY <1>3, <3>2 DEF Seen
    <3> QED
      BY <1>6, <3>1, <3>3 DEF On
  <2>2. CASE scenario.rollbackSlots > 0
    <3>1. LinkInv
      BY <2>2 DEF CacheInv
    <3>2. Sound(led.at, 0, Origin)
      BY <2>2, <3>1, <1>8
    <3>3. led.at[1] # 0
      BY <1>6, <3>2, WholeEnd DEF Sound
    <3>4. T[1] > scenario.rollbackSlots /\ led.at[1] = T[1] - scenario.rollbackSlots
      BY <1>6, <1>7, <3>1, <3>3 DEF TargetSlot
    <3>5. led.at[1] + node.forks <= T[1]
      BY <1>3, <1>6, <3>4
    <3>6. On(node.chain, led.at)
      BY <1>6, <3>2, <3>5, WholeEnd DEF Sound
    <3>7. T[1] <= Len(node.chain) + node.forks
      BY <1>7, <3>1
    <3>8. led.at[1] + scenario.forks <= Len(node.chain) + node.forks
      BY <1>6, <3>4, <3>7, SMTT(20)
    <3> QED
      BY <3>6, <3>8
  <2> QED
    BY <1>6, <2>1, <2>2
<1>10. ASSUME scenario.rollbackSlots > 0
       PROVE  LinkInv'
  <2>1. LinkInv
    BY <1>10 DEF CacheInv
  <2>2. Whole(node.chain, node.forks, cache.blocks, scenario.disableUntil, T[1], led.at, 0, Origin)
    BY <1>8, <1>10, <2>1, SMTT(20) DEF Sound
  <2>3. led.at[1] <= T[1]
    BY <1>6, <1>7, <2>1
  <2>4. Whole(node.chain, node.forks, cache.blocks, scenario.disableUntil, led.at[1],
              led.at, 0, Origin)
    BY <1>6, <2>2, <2>3, WholeBelow
  <2>5. ConnectInv'
    BY <1>1, <1>2, <2>4 DEF ConnectInv, Sound
  <2>6. led.at[1] <= Len(node.chain) + node.forks
    BY <1>6, <1>7, <2>1, <2>3
  <2> QED
    BY <1>1, <1>2, <2>1, <2>5, <2>6, Zenon
       DEF LinkInv, DownInv, RollingInv, IdleInv, CachingInv, UnrollInv, DeletedInv
<1> QED
  BY <1>1, <1>5, <1>9, <1>10 DEF CacheInv

LEMMA RollbackFailsKeeps ==
    ASSUME CacheInv, RollbackFails
    PROVE  CacheInv'
<1>1. /\ BaseInv /\ UNCHANGED <<node, session, scenario>>
      /\ led.pc = "rolling" /\ led.at[1] > led.to[1] /\ ~Cached(led.at)
      /\ led'.pc = "down" /\ led'.at = Origin /\ led'.to = Origin /\ led'.any = FALSE
      /\ DOMAIN led' = DOMAIN Idle
      /\ IF led.any THEN SetTip(led.at) ELSE UNCHANGED cache
  BY DEF CacheInv, RollbackFails, Down, Idle
<1>2. /\ led.at[1] \in Nat /\ led.to[1] \in Nat /\ led.any \in BOOLEAN
      /\ ResumePoint[1] \in Nat /\ Len(node.chain) \in Nat /\ node.forks \in Nat
      /\ Seen(node.chain, node.forks, led.at) /\ WellMade(node.chain, node.forks)
  BY <1>1, Basics DEF BaseInv
<1>3. Origin \in Point /\ Seen(node.chain, node.forks, Origin)
  BY <1>2, PointsOfChain DEF PointAt
<1>4. CASE led.any
  <2>1. /\ cache'.tip = {led.at} /\ ResumePoint' = led.at /\ cache'.blocks = cache.blocks
        /\ DOMAIN cache' = DOMAIN cache
    BY <1>1, <1>4, TipSet
  <2>2. BaseInv' /\ ResumeInv'
    BY <1>1, <1>2, <1>3, <2>1, Zenon DEF BaseInv, ResumeInv
  <2>3. ASSUME LinkInv
        PROVE  LinkInv'
    <3>1. DownInv'
      BY <1>1, <1>2, <2>1 DEF DownInv, Lost, Cached
    <3>2. led.at[1] <= ResumePoint[1]
      BY <1>1, <1>2, <2>3 DEF LinkInv, RollingInv
    <3>3. led.at[1] <= Len(node.chain) + node.forks
      BY <1>2, <2>3, <3>2 DEF LinkInv
    <3> QED
      BY <1>1, <2>1, <2>3, <3>1, <3>3, Zenon
         DEF LinkInv, ConnectInv, RollingInv, IdleInv, CachingInv, UnrollInv, DeletedInv
  <2> QED
    BY <1>1, <2>2, <2>3 DEF CacheInv
<1>5. CASE ~led.any
  <2>1. cache' = cache /\ ResumePoint' = ResumePoint
    BY <1>1, <1>5 DEF ResumePoint
  <2>2. BaseInv' /\ ResumeInv'
    BY <1>1, <1>3, <2>1, Zenon DEF BaseInv, ResumeInv
  <2>3. ASSUME LinkInv
        PROVE  LinkInv'
    <3>1. led.at = ResumePoint
      BY <1>1, <1>5, <2>3, SMTT(20) DEF LinkInv, RollingInv
    <3>2. DownInv'
      BY <1>1, <1>2, <2>1, <3>1 DEF DownInv, Lost, Cached
    <3> QED
      BY <1>1, <2>1, <2>3, <3>2, Zenon
         DEF LinkInv, ConnectInv, RollingInv, IdleInv, CachingInv, UnrollInv, DeletedInv
  <2> QED
    BY <1>1, <2>2, <2>3 DEF CacheInv
<1> QED
  BY <1>4, <1>5

LEMMA ConnectKeeps ==
    ASSUME CacheInv, Connect
    PROVE  CacheInv'
<1>1. /\ BaseInv /\ UNCHANGED <<node, cache, scenario>> /\ led.pc = "connect"
      /\ ResumePoint' = ResumePoint /\ WellMade(node.chain, node.forks)
  BY DEF CacheInv, Connect, BaseInv, ResumePoint
<1>2. /\ ResumePoint[1] \in Nat /\ node.forks \in Nat /\ scenario.disableUntil \in Nat
      /\ Len(node.chain) \in Nat
  BY <1>1, Basics
<1>3. Origin \in Point /\ Seen(node.chain, node.forks, Origin)
  BY <1>1, <1>2, PointsOfChain DEF PointAt
<1>4. ASSUME NEW n \in 0..Len(node.chain), PointAt(node.chain, n) = ResumePoint,
             session' = [read |-> n, roll |-> TRUE], led' = Idle
      PROVE  CacheInv'
  <2>1. /\ led'.pc = "idle" /\ led'.at = Origin /\ led'.to = Origin /\ led'.any = FALSE
        /\ DOMAIN led' = DOMAIN Idle
    BY <1>4 DEF Idle
  <2>2. session'.read = n /\ session'.roll = TRUE
    BY <1>4
  <2>3. session' \in [read : 0..Len(node.chain), roll : BOOLEAN]
    BY <1>4
  <2>4. BaseInv' /\ ResumeInv'
    BY <1>1, <1>3, <2>1, <2>3, Zenon DEF BaseInv, ResumeInv
  <2>5. On(node.chain, ResumePoint) /\ n = ResumePoint[1]
    BY <1>1, <1>4, PointsOfChain, SMTT(20)
  <2>6. ASSUME LinkInv
        PROVE  LinkInv'
    <3>1. Sound(ResumePoint, 0, Origin)
      BY <1>1, <2>6 DEF LinkInv, ConnectInv
    <3>2. Sound(ResumePoint, ResumePoint[1], Origin)
      <4>1. ResumePoint[1] \in 0..ResumePoint[1]
        BY <1>2
      <4> QED
        BY <1>2, <2>5, <3>1, <4>1, WholeUpTo DEF Sound
    <3>3. IdleInv'
      BY <1>1, <1>2, <2>2, <2>5, <3>2 DEF IdleInv, Sound, Ahead
    <3> QED
      BY <1>1, <2>1, <2>6, <3>3, Zenon
         DEF LinkInv, DownInv, ConnectInv, RollingInv, CachingInv, UnrollInv, DeletedInv
  <2> QED
    BY <1>1, <2>4, <2>6 DEF CacheInv
<1>5. ASSUME led' = Down, UNCHANGED session
      PROVE  CacheInv'
  <2>1. /\ led'.pc = "down" /\ led'.at = Origin /\ led'.to = Origin /\ led'.any = FALSE
        /\ DOMAIN led' = DOMAIN Idle
    BY <1>5 DEF Idle, Down
  <2>2. BaseInv' /\ ResumeInv'
    BY <1>1, <1>3, <1>5, <2>1, Zenon DEF BaseInv, ResumeInv
  <2>3. ASSUME LinkInv
        PROVE  LinkInv'
    <3>1. DownInv'
      BY <1>1, <2>1, <2>3 DEF LinkInv, ConnectInv, DownInv, Sound
    <3> QED
      BY <1>1, <2>1, <2>3, <3>1, Zenon
         DEF LinkInv, ConnectInv, RollingInv, IdleInv, CachingInv, UnrollInv, DeletedInv
  <2> QED
    BY <1>1, <2>2, <2>3 DEF CacheInv
<1> QED
  BY <1>4, <1>5, SMTT(20) DEF Connect
=============================================================================
