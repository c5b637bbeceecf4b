------------------------ MODULE LiquidityBookProofs ------------------------
(***************************************************************************)
(* The liquidity book for any sets of orders and pools, any prices, fees,  *)
(* time bounds and caps: whatever an attempt did, rolling it back restores *)
(* the book it started from, and after an accepted batch the book holds    *)
(* exactly the untouched orders and the states the transaction produced.   *)
(***************************************************************************)
EXTENDS LiquidityBook, TLAPS

TakerState == [sid : TakerId, fee : Nat, input : Nat \ {0}]
Takers == SUBSET TakerState

TLBStates ==
    [tag : {Idle, PartialPreview, Preview}, now : Nat,
     takers : Takers, inactive : Takers, consumed : Takers, stashed : Takers,
     preview : Takers, changeset : Takers,
     makers : SUBSET MakerState, intact : SUBSET MakerState]

(* No order in two states. *)
OneState(S) == \A t, u \in S : t.sid = u.sid => t = u

(* A book between attempts.  An order is active or inactive but not both,  *)
(* and an active one has no time bound ahead, so that no state of it can   *)
(* end up in the changeset of inactive takers.                             *)
SettledBook(b) ==
    /\ b \in TLBStates
    /\ b.tag = Idle
    /\ b.consumed = {} /\ b.stashed = {} /\ b.preview = {} /\ b.changeset = {}
    /\ b.intact = {}
    /\ OneState(b.takers) /\ OneState(b.inactive)
    /\ \A t \in b.takers, u \in b.inactive : t.sid # u.sid
    /\ \A t \in b.takers : LowerBound[t.sid] <= b.now
    /\ \A t \in b.inactive : LowerBound[t.sid] # b.now

(* st is reached from the settled book b by the moves of an attempt: what  *)
(* was not stashed can be put together again.                              *)
Attempting(st, b) ==
    /\ st \in TLBStates
    /\ st.now = b.now
    /\ st.inactive = b.inactive
    /\ st.changeset = {}
    /\ st.stashed \subseteq b.takers
    /\ st.takers \cup st.consumed = b.takers \ st.stashed
    /\ st.tag = Idle => st = b
    /\ st.tag # Idle => st.intact = b.makers
    /\ st.tag = Preview => st.consumed = {}
    /\ st.tag # Preview => st.preview = {}

(* The active takers A against the transitions trs of the batch: those not *)
(* in the batch are untouched, of those in the batch there is at most a    *)
(* later state of the target.                                              *)
ActiveFollow(A, trs, untouched) ==
    /\ \A t \in untouched : t.sid \notin DOMAIN trs => t \in A
    /\ \A t \in A : t.sid \notin DOMAIN trs => t \in untouched
    /\ \A t \in A : t.sid \in DOMAIN trs =>
          /\ Key(t) = Key(trs[t.sid].target)
          /\ t.input <= trs[t.sid].target.input

TransitionsOk(trs, untouched) ==
    \A s \in DOMAIN trs :
        /\ trs[s] \in [target : TakerState, result : TakerState \cup {Term}]
        /\ trs[s].target \in untouched
        /\ trs[s].target.sid = s
        /\ trs[s].result # Term => trs[s].result.sid = s

(* Until the fees are charged a result keeps the fee of its target. *)
Uncharged(trs) ==
    \A s \in DOMAIN trs : trs[s].result # Term =>
        /\ trs[s].result.fee = trs[s].target.fee
        /\ trs[s].result.input <= trs[s].target.input

MakesOk(mks) == \A m \in DOMAIN mks : mks[m].result \in MakerState

(* The inductive invariant. *)
BookInv ==
    /\ pc \in {"idle", "matching", "batched", "recipe"}
    /\ pc = "idle" => SettledBook(tlb) /\ takes = EmptyBatch /\ makes = EmptyBatch
    /\ pc # "idle" =>
          /\ SettledBook(saved)
          /\ Attempting(tlb, saved)
          /\ ActiveFollow(ActiveTakers(tlb), takes, saved.takers \ tlb.stashed)
          /\ TransitionsOk(takes, saved.takers \ tlb.stashed)
          /\ pc # "recipe" => Uncharged(takes)
          /\ MakesOk(makes)
-----------------------------------------------------------------------------
(* The sets of takers.                                                     *)

(* Among states of a book, one per order, a key stands for one state. *)
LEMMA OneKey ==
    ASSUME NEW B \in Takers, OneState(B)
    PROVE  \A t, u \in B : Key(t) = Key(u) => t = u
  BY DEF Key, OneState

(* So inserting many is a union ... *)
LEMMA InsertAllIsUnion ==
    ASSUME NEW B \in Takers, OneState(B), NEW S \in SUBSET B, NEW T \in SUBSET B
    PROVE  InsertAll(S, T) = S \cup T
  BY OneKey DEF InsertAll

(* ... erasing many a difference ... *)
LEMMA EraseAllIsDifference ==
    ASSUME NEW B \in Takers, OneState(B), NEW S \in SUBSET B, NEW T \in SUBSET B
    PROVE  EraseAll(S, T) = S \ T
  BY OneKey DEF EraseAll

(* ... and erasing one the removal of that state. *)
LEMMA EraseIsDifference ==
    ASSUME NEW B \in Takers, OneState(B), NEW S \in SUBSET B, NEW t \in B
    PROVE  Erase(S, t) = S \ {t}
  BY OneKey DEF Erase

-----------------------------------------------------------------------------
(* The moves of an attempt.                                                *)

(* However an attempt went, rolling it back restores the book. *)
LEMMA RollbackRestoresBook ==
    ASSUME NEW b, SettledBook(b), NEW st, Attempting(st, b)
    PROVE  RollbackUnstash(st) = b
<1>1. CASE st.tag = Idle
  BY <1>1 DEF RollbackUnstash, Attempting
<1>2. CASE st.tag # Idle
  <2>1. b.takers \in Takers /\ OneState(b.takers)
    BY DEF SettledBook, TLBStates
  <2>2. UntouchedTakers(st) = b.takers \ st.stashed
    <3>1. /\ st.takers \subseteq b.takers
          /\ st.consumed \subseteq b.takers
      BY DEF Attempting
    <3>2. InsertAll(st.takers, st.consumed) = st.takers \cup st.consumed
      BY <2>1, <3>1, InsertAllIsUnion
    <3>3. CASE st.tag = PartialPreview
      BY <3>2, <3>3 DEF UntouchedTakers, Attempting
    <3>4. CASE st.tag = Preview
      BY <3>4 DEF UntouchedTakers, Attempting, Preview, PartialPreview
    <3> QED
      BY <1>2, <3>3, <3>4 DEF Attempting, TLBStates
  <2>3. InsertAll(UntouchedTakers(st), st.stashed) = b.takers
    <3>1. st.stashed \subseteq b.takers
      BY DEF Attempting
    <3>2. InsertAll(b.takers \ st.stashed, st.stashed)
            = (b.takers \ st.stashed) \cup st.stashed
      BY <2>1, <3>1, InsertAllIsUnion
    <3> QED
      BY <2>2, <3>1, <3>2
  <2>4. RollbackUnstash(st) =
          [tag |-> Idle, now |-> st.now, takers |-> b.takers,
           inactive |-> st.inactive, consumed |-> {}, stashed |-> {},
           preview |-> {}, changeset |-> {}, makers |-> st.intact, intact |-> {}]
    BY <1>2, <2>3, Zenon DEF RollbackUnstash, Settled, NewTLBState
  <2>5. b = [tag |-> b.tag, now |-> b.now, takers |-> b.takers,
             inactive |-> b.inactive, consumed |-> b.consumed,
             stashed |-> b.stashed, preview |-> b.preview,
             changeset |-> b.changeset, makers |-> b.makers, intact |-> b.intact]
    BY DEF SettledBook, TLBStates
  <2> QED
    BY <1>2, <2>4, <2>5 DEF Attempting, SettledBook
<1> QED
  BY <1>1, <1>2

(* The book a rollback ends in, field by field. *)
LEMMA SettledRecord ==
    ASSUME NEW st, NEW T, NEW S
    PROVE  /\ S = {} => Settled(st, T, S) =
                [tag |-> Idle, now |-> st.now, takers |-> T,
                 inactive |-> st.inactive, consumed |-> {}, stashed |-> {},
                 preview |-> {}, changeset |-> {}, makers |-> st.intact,
                 intact |-> {}]
           /\ S # {} => Settled(st, T, S) =
                [tag |-> PartialPreview, now |-> st.now, takers |-> T,
                 inactive |-> st.inactive, consumed |-> {}, stashed |-> S,
                 preview |-> {}, changeset |-> {}, makers |-> st.intact,
                 intact |-> st.intact]
  BY Zenon DEF Settled, NewTLBState

(* A rollback that sets takers aside leaves the others as they were. *)
LEMMA StashKeepsAttempting ==
    ASSUME NEW b, SettledBook(b), NEW st, Attempting(st, b),
           NEW X, X \subseteq b.takers \ st.stashed
    PROVE  /\ Attempting(RollbackStash(st, X), b)
           /\ ActiveTakers(RollbackStash(st, X))
                = b.takers \ RollbackStash(st, X).stashed
<1> DEFINE r == RollbackStash(st, X)
<1>0. b.takers \in Takers /\ OneState(b.takers)
  BY DEF SettledBook, TLBStates
<1>1. CASE st.tag = Idle
  <2>1. r = st /\ st = b
    BY <1>1 DEF RollbackStash, Attempting
  <2> QED
    BY <1>1, <2>1 DEF ActiveTakers, SettledBook, Idle, Preview
<1>2. CASE st.tag # Idle
  <2>1. UntouchedTakers(st) = b.takers \ st.stashed
    <3>1. /\ st.takers \subseteq b.takers
          /\ st.consumed \subseteq b.takers
      BY DEF Attempting
    <3>2. InsertAll(st.takers, st.consumed) = st.takers \cup st.consumed
      BY <1>0, <3>1, InsertAllIsUnion
    <3>3. CASE st.tag = PartialPreview
      BY <3>2, <3>3 DEF UntouchedTakers, Attempting
    <3>4. CASE st.tag = Preview
      BY <3>4 DEF UntouchedTakers, Attempting, Preview, PartialPreview
    <3> QED
      BY <1>2, <3>3, <3>4 DEF Attempting, TLBStates
  <2>2. EraseAll(UntouchedTakers(st), X) = b.takers \ (st.stashed \cup X)
    <3>1. EraseAll(b.takers \ st.stashed, X) = (b.takers \ st.stashed) \ X
      BY <1>0, EraseAllIsDifference
    <3> QED
      BY <2>1, <3>1
  <2>3. r = Settled(st, b.takers \ (st.stashed \cup X), st.stashed \cup X)
    BY <1>2, <2>2 DEF RollbackStash
  <2>4. st.stashed \cup X \subseteq b.takers
    BY DEF Attempting
  <2>5. /\ st.now = b.now /\ st.inactive = b.inactive
        /\ st.intact = b.makers
    BY <1>2 DEF Attempting
  <2>6. CASE st.stashed \cup X = {}
    <3>0. b.takers \ (st.stashed \cup X) = b.takers
      BY <2>6
    <3>1. r = [tag |-> Idle, now |-> b.now, takers |-> b.takers,
               inactive |-> b.inactive, consumed |-> {}, stashed |-> {},
               preview |-> {}, changeset |-> {}, makers |-> b.makers,
               intact |-> {}]
      BY <2>3, <2>5, <2>6, <3>0, SettledRecord, Zenon
    <3>2. b = [tag |-> b.tag, now |-> b.now, takers |-> b.takers,
               inactive |-> b.inactive, consumed |-> b.consumed,
               stashed |-> b.stashed, preview |-> b.preview,
               changeset |-> b.changeset, makers |-> b.makers,
               intact |-> b.intact]
      BY DEF SettledBook, TLBStates
    <3>3. r = b
      BY <3>1, <3>2 DEF SettledBook
    <3> QED
      BY <3>3 DEF Attempting, SettledBook, ActiveTakers, Idle, Preview
  <2>7. CASE st.stashed \cup X # {}
    <3>1. r = [tag |-> PartialPreview, now |-> b.now,
               takers |-> b.takers \ (st.stashed \cup X),
               inactive |-> b.inactive, consumed |-> {},
               stashed |-> st.stashed \cup X,
               preview |-> {}, changeset |-> {}, makers |-> b.makers,
               intact |-> b.makers]
      BY <2>3, <2>5, <2>7, SettledRecord, Zenon
    <3>2. r \in TLBStates
      BY <2>4, <3>1 DEF SettledBook, TLBStates, Takers
    <3> QED
      BY <2>4, <3>1, <3>2
      DEF Attempting, ActiveTakers, Idle, Preview, PartialPreview
  <2> QED
    BY <2>6, <2>7
<1> QED
  BY <1>1, <1>2
(* MoveIntoPreview keeps the active takers and returns the consumed ones. *)
LEMMA PreviewKeepsAttempting ==
    ASSUME NEW b, SettledBook(b), NEW st, Attempting(st, b)
    PROVE  /\ Attempting(MoveIntoPreview(st), b)
           /\ MoveIntoPreview(st).tag = Preview
           /\ MoveIntoPreview(st).preview = ActiveTakers(st)
           /\ MoveIntoPreview(st).stashed = st.stashed
<1> DEFINE r == MoveIntoPreview(st)
<1>1. CASE st.tag = Preview
  BY <1>1 DEF MoveIntoPreview, ActiveTakers
<1>2. CASE st.tag # Preview
  <2>1. InsertAll(st.takers, st.consumed) = b.takers \ st.stashed
    <3>1. b.takers \in Takers /\ OneState(b.takers)
      BY DEF SettledBook, TLBStates
    <3>2. st.takers \in SUBSET b.takers /\ st.consumed \in SUBSET b.takers
      BY DEF Attempting
    <3>3. InsertAll(st.takers, st.consumed) = st.takers \cup st.consumed
      BY <3>1, <3>2, InsertAllIsUnion
    <3> QED
      BY <3>3 DEF Attempting
  <2>2. (IF st.tag = Idle THEN st.makers ELSE st.intact) = b.makers
    BY DEF Attempting
  <2>3. r = [tag |-> Preview, now |-> st.now, takers |-> b.takers \ st.stashed,
             inactive |-> st.inactive, consumed |-> {}, stashed |-> st.stashed,
             preview |-> st.takers, changeset |-> st.changeset,
             makers |-> st.makers, intact |-> b.makers]
    BY <1>2, <2>1, <2>2, Zenon DEF MoveIntoPreview, Attempting, TLBStates
  <2>4. r \in TLBStates
    BY <2>3 DEF Attempting, SettledBook, TLBStates, Takers
  <2> QED
    BY <1>2, <2>3, <2>4 DEF Attempting, ActiveTakers, Idle, Preview
<1> QED
  BY <1>1, <1>2

(* A picked taker leaves the active takers. *)
LEMMA PickKeepsAttempting ==
    ASSUME NEW b, SettledBook(b), NEW st, Attempting(st, b),
           NEW t \in ActiveTakers(st)
    PROVE  /\ Attempting(PickTaker(st, t), b)
           /\ ActiveTakers(PickTaker(st, t)) = Erase(ActiveTakers(st), t)
           /\ PickTaker(st, t).stashed = st.stashed
           /\ PickTaker(st, t).tag # Idle
<1> DEFINE r == PickTaker(st, t)
<1>1. CASE st.tag = Preview
  <2>1. r = [tag |-> Preview, now |-> st.now, takers |-> st.takers,
             inactive |-> st.inactive, consumed |-> st.consumed,
             stashed |-> st.stashed, preview |-> Erase(st.preview, t),
             changeset |-> st.changeset, makers |-> st.makers,
             intact |-> st.intact]
    BY <1>1 DEF PickTaker, Attempting, TLBStates
  <2>2. Erase(st.preview, t) \in Takers
    BY DEF Erase, Attempting, TLBStates, Takers
  <2>3. r \in TLBStates
    BY <2>1, <2>2 DEF Attempting, TLBStates
  <2> QED
    BY <1>1, <2>1, <2>3 DEF Attempting, ActiveTakers, Idle, Preview
<1>2. CASE st.tag # Preview
  <2>1. t \in st.takers /\ st.takers \in SUBSET b.takers /\ t \in b.takers
    BY <1>2 DEF ActiveTakers, Attempting
  <2>2. Erase(st.takers, t) = st.takers \ {t}
    <3>1. b.takers \in Takers /\ OneState(b.takers)
      BY DEF SettledBook, TLBStates
    <3> QED
      BY <2>1, <3>1, EraseIsDifference
  <2>3. (IF st.tag = Idle THEN st.makers ELSE st.intact) = b.makers
    BY DEF Attempting
  <2>4. r = [tag |-> PartialPreview, now |-> st.now,
             takers |-> st.takers \ {t}, inactive |-> st.inactive,
             consumed |-> st.consumed \cup {t}, stashed |-> st.stashed,
             preview |-> st.preview, changeset |-> st.changeset,
             makers |-> st.makers, intact |-> b.makers]
    <3>1. CASE st.tag = Idle
      BY <2>2, <2>3, <3>1, Zenon
      DEF PickTaker, MoveIntoPartialPreview, Attempting, TLBStates, Idle, Preview
    <3>2. CASE st.tag = PartialPreview
      BY <2>2, <2>3, <3>2, Zenon
      DEF PickTaker, Attempting, TLBStates, Idle, Preview, PartialPreview
    <3> QED
      BY <1>2, <3>1, <3>2 DEF Attempting, TLBStates
  <2>5. r \in TLBStates
    BY <2>1, <2>4 DEF Attempting, SettledBook, TLBStates, Takers
  <2>6. (st.takers \ {t}) \cup (st.consumed \cup {t}) = b.takers \ st.stashed
    BY <2>1 DEF Attempting
  <2> QED
    BY <1>2, <2>2, <2>4, <2>5, <2>6
    DEF Attempting, ActiveTakers, Idle, Preview, PartialPreview
<1> QED
  BY <1>1, <1>2

(* A picked maker leaves the preview of the makers only. *)
LEMMA PickMakerKeepsAttempting ==
    ASSUME NEW b, SettledBook(b), NEW st, Attempting(st, b), NEW m
    PROVE  /\ Attempting(PickMaker(st, m), b)
           /\ ActiveTakers(PickMaker(st, m)) = ActiveTakers(st)
           /\ PickMaker(st, m).stashed = st.stashed
<1> DEFINE r == PickMaker(st, m)
<1>1. (IF st.tag = Idle THEN st.makers ELSE st.intact) = b.makers
  BY DEF Attempting
<1>2. RemovePool(st.makers, m) \in SUBSET MakerState
  BY DEF RemovePool, Attempting, TLBStates
<1>3. /\ r \in TLBStates
      /\ r.tag = IF st.tag = Idle THEN PartialPreview ELSE st.tag
      /\ r.intact = b.makers
      /\ r.now = st.now /\ r.takers = st.takers /\ r.inactive = st.inactive
      /\ r.consumed = st.consumed /\ r.stashed = st.stashed
      /\ r.preview = st.preview /\ r.changeset = st.changeset
  <2>0. st \in TLBStates
    BY DEF Attempting
  <2>1. CASE st.tag = Idle
    <3>1. r = [MoveIntoPartialPreview(st) EXCEPT !.makers = RemovePool(@, m)]
      BY <2>1 DEF PickMaker
    <3>2. /\ MoveIntoPartialPreview(st) \in TLBStates
          /\ MoveIntoPartialPreview(st).makers = st.makers
      BY <2>0, Zenon DEF MoveIntoPartialPreview, TLBStates
    <3> QED
      BY <1>1, <1>2, <2>0, <2>1, <3>1, <3>2, Zenon DEF MoveIntoPartialPreview, TLBStates
  <2>2. CASE st.tag # Idle
    BY <1>1, <1>2, <2>0, <2>2 DEF PickMaker, TLBStates
  <2> QED
    BY <2>1, <2>2
<1> QED
  BY <1>3 DEF Attempting, SettledBook, ActiveTakers, Idle, Preview, PartialPreview

(* What is left of a taker returns to the active takers, since no time     *)
(* bound of an active taker is ahead.                                      *)
LEMMA TakeKeepsAttempting ==
    ASSUME NEW b, SettledBook(b), NEW st, Attempting(st, b),
           NEW x \in TakerState, LowerBound[x.sid] <= b.now
    PROVE  /\ Attempting(PreAddTaker(st, x), b)
           /\ ActiveTakers(PreAddTaker(st, x)) = Insert(ActiveTakers(st), x)
           /\ PreAddTaker(st, x).stashed = st.stashed
<1> DEFINE v == MoveIntoPreview(st)
           r == PreAddTaker(st, x)
<1>1. /\ Attempting(v, b) /\ v.tag = Preview
      /\ v.preview = ActiveTakers(st) /\ v.stashed = st.stashed
  BY PreviewKeepsAttempting
<1>2. ~(LowerBound[x.sid] > st.now)
  <2>1. st.now = b.now /\ b.now \in Nat
    BY DEF Attempting, SettledBook, TLBStates
  <2>2. LowerBound[x.sid] \in Nat
    BY LiquidityBookAssumption DEF TakerState
  <2> QED
    BY <2>1, <2>2
<1>3. r = [v EXCEPT !.preview = Insert(@, x)]
  BY <1>2 DEF PreAddTaker
<1> HIDE DEF v
<1>9. v \in TLBStates
  BY <1>1 DEF Attempting
<1>4. Insert(v.preview, x) \in Takers
  BY <1>9 DEF TLBStates, Insert, Takers
<1>5. r = [tag |-> v.tag, now |-> v.now, takers |-> v.takers,
           inactive |-> v.inactive, consumed |-> v.consumed,
           stashed |-> v.stashed, preview |-> Insert(v.preview, x),
           changeset |-> v.changeset, makers |-> v.makers, intact |-> v.intact]
  BY <1>3, <1>9 DEF TLBStates
<1>6. r \in TLBStates
  BY <1>4, <1>5, <1>9 DEF TLBStates
<1> HIDE DEF r
<1>7. Attempting(r, b)
  BY <1>1, <1>5, <1>6 DEF Attempting, Idle, Preview
<1>8. ActiveTakers(r) = Insert(ActiveTakers(st), x) /\ r.stashed = st.stashed
  BY <1>1, <1>5 DEF ActiveTakers
<1> QED
  BY <1>7, <1>8 DEF r

(* A maker's new state enters the preview of the makers only. *)
LEMMA MakeKeepsAttempting ==
    ASSUME NEW b, SettledBook(b), NEW st, Attempting(st, b),
           NEW m \in MakerState
    PROVE  /\ Attempting(PreAddMaker(st, m), b)
           /\ ActiveTakers(PreAddMaker(st, m)) = ActiveTakers(st)
           /\ PreAddMaker(st, m).stashed = st.stashed
<1> DEFINE v == MoveIntoPreview(st)
           r == PreAddMaker(st, m)
<1>1. /\ Attempting(v, b) /\ v.tag = Preview
      /\ v.preview = ActiveTakers(st) /\ v.stashed = st.stashed
  BY PreviewKeepsAttempting
<1>3. r = [v EXCEPT !.makers = UpdatePool(@, m)]
  BY DEF PreAddMaker
<1> HIDE DEF v
<1>2. v \in TLBStates
  BY <1>1 DEF Attempting
<1>4. UpdatePool(v.makers, m) \in SUBSET MakerState
  BY <1>2 DEF TLBStates, UpdatePool
<1>5. r = [tag |-> v.tag, now |-> v.now, takers |-> v.takers,
           inactive |-> v.inactive, consumed |-> v.consumed,
           stashed |-> v.stashed, preview |-> v.preview,
           changeset |-> v.changeset, makers |-> UpdatePool(v.makers, m),
           intact |-> v.intact]
  BY <1>2, <1>3 DEF TLBStates
<1>6. r \in TLBStates
  BY <1>2, <1>4, <1>5 DEF TLBStates
<1> HIDE DEF r
<1>7. Attempting(r, b)
  BY <1>1, <1>5, <1>6 DEF Attempting, Idle, Preview
<1>8. ActiveTakers(r) = ActiveTakers(st) /\ r.stashed = st.stashed
  BY <1>1, <1>5 DEF ActiveTakers
<1> QED
  BY <1>7, <1>8 DEF r

-----------------------------------------------------------------------------
(* The batch.                                                              *)

(* A taker that is active in an attempt is a state of an order of the book *)
(* whose time has come.                                                    *)
LEMMA ActiveTaker ==
    ASSUME NEW b, SettledBook(b), NEW st, Attempting(st, b), NEW trs,
           NEW u, u \subseteq b.takers, TransitionsOk(trs, u),
           ActiveFollow(ActiveTakers(st), trs, u), NEW t \in ActiveTakers(st)
    PROVE  t \in TakerState /\ LowerBound[t.sid] <= b.now
<1>1. t \in TakerState
  BY DEF ActiveTakers, Attempting, TLBStates, Takers
<1>2. CASE t.sid \in DOMAIN trs
  <2>1. trs[t.sid].target \in b.takers /\ trs[t.sid].target.sid = t.sid
    BY <1>2 DEF TransitionsOk
  <2> QED
    BY <1>1, <2>1 DEF SettledBook
<1>3. CASE t.sid \notin DOMAIN trs
  BY <1>1, <1>3 DEF ActiveFollow, SettledBook
<1> QED
  BY <1>2, <1>3

(* One trade: t leaves the active takers A, what is left of it returns and *)
(* its transition is recorded.                                             *)
Replaced(A, t, r) == IF r = Term THEN Erase(A, t) ELSE Insert(Erase(A, t), r)

(* A trade of at most all the input leaves nothing or a smaller state.     *)
LEMMA TradedState ==
    ASSUME NEW t \in TakerState, NEW x \in 1..t.input
    PROVE  /\ Traded(t, x) \in TakerState \cup {Term}
           /\ Traded(t, x) # Term =>
                /\ Traded(t, x).sid = t.sid
                /\ Traded(t, x).fee = t.fee
                /\ Traded(t, x).input <= t.input
<1>1. t.input \in Nat /\ x \in Nat /\ x <= t.input /\ x # 0
  BY DEF TakerState
<1>2. CASE t.input = x
  BY <1>2 DEF Traded
<1>3. CASE t.input # x
  <2>1. Traded(t, x) = [sid |-> t.sid, fee |-> t.fee, input |-> t.input - x]
    BY <1>3 DEF Traded, TakerState
  <2> QED
    BY <1>1, <1>3, <2>1 DEF TakerState
<1> QED
  BY <1>2, <1>3
(* Trades of different orders touch different takers. *)
LEMMA EraseInsertCommute ==
    ASSUME NEW S, NEW r, NEW t, Key(r) # Key(t)
    PROVE  Erase(Insert(S, r), t) = Insert(Erase(S, t), r)
<1>1. (\E x \in S : Key(x) = Key(r)) <=> (\E x \in Erase(S, t) : Key(x) = Key(r))
  BY DEF Erase
<1>2. CASE \E x \in S : Key(x) = Key(r)
  BY <1>1, <1>2 DEF Insert
<1>3. CASE ~ \E x \in S : Key(x) = Key(r)
  <2>1. Insert(S, r) = S \cup {r} /\ Insert(Erase(S, t), r) = Erase(S, t) \cup {r}
    BY <1>1, <1>3 DEF Insert
  <2>2. Erase(S \cup {r}, t) = Erase(S, t) \cup {r}
    BY DEF Erase
  <2> QED
    BY <2>1, <2>2
<1> QED
  BY <1>2, <1>3

(* A recorded trade keeps the batch and the active takers in step. *)
LEMMA TradeFollows ==
    ASSUME NEW u \in Takers, OneState(u), NEW A \in Takers, NEW trs,
           ActiveFollow(A, trs, u), TransitionsOk(trs, u), Uncharged(trs),
           NEW t \in A, NEW r \in TakerState \cup {Term},
           r # Term => /\ r.sid = t.sid /\ r.fee = t.fee
                       /\ r.input <= t.input
    PROVE  /\ ActiveFollow(Replaced(A, t, r), Combined(trs, t.sid, t, r), u)
           /\ TransitionsOk(Combined(trs, t.sid, t, r), u)
           /\ Uncharged(Combined(trs, t.sid, t, r))
           /\ Replaced(A, t, r) \in Takers
<1> DEFINE n == Combined(trs, t.sid, t, r)
           tg == IF t.sid \in DOMAIN trs THEN trs[t.sid].target ELSE t
           B == Replaced(A, t, r)
<1>1. /\ DOMAIN n = DOMAIN trs \cup {t.sid}
      /\ n[t.sid] = [target |-> tg, result |-> r]
      /\ \A s \in DOMAIN trs : s # t.sid => n[s] = trs[s]
  BY DEF Combined
<1>2. t \in TakerState /\ A \subseteq TakerState /\ u \subseteq TakerState
  BY DEF Takers
<1>3. /\ tg \in u /\ tg.sid = t.sid /\ tg \in TakerState
      /\ Key(t) = Key(tg) /\ t.input <= tg.input
  <2>1. CASE t.sid \in DOMAIN trs
    BY <1>2, <2>1 DEF ActiveFollow, TransitionsOk
  <2>2. CASE t.sid \notin DOMAIN trs
    BY <1>2, <2>2 DEF ActiveFollow, TakerState
  <2> QED
    BY <2>1, <2>2
<1>4. Term \notin TakerState
  BY LiquidityBookAssumption DEF TakerState
<1>5. r # Term => /\ r \in TakerState /\ Key(r) = Key(t)
                  /\ r.input <= tg.input /\ r.fee = tg.fee /\ r.sid = t.sid
  <2>1. r # Term => r \in TakerState
    OBVIOUS
  <2>2. r # Term => r.input <= tg.input
    BY <1>2, <1>3, <2>1 DEF TakerState
  <2>3. t.fee = tg.fee
    BY <1>3 DEF Key
  <2> QED
    BY <1>3, <2>1, <2>2, <2>3 DEF Key
<1>6. /\ \A x \in B : \/ x \in A /\ Key(x) # Key(t)
                      \/ r # Term /\ x = r
      /\ \A x \in A : Key(x) # Key(t) => x \in B
  BY DEF Replaced, Erase, Insert
<1>7. B \in Takers
  BY <1>2, <1>5, <1>6 DEF Takers
<1> HIDE DEF n, tg, B
<1>8. TransitionsOk(n, u)
  <2> SUFFICES ASSUME NEW s \in DOMAIN n
               PROVE  /\ n[s] \in [target : TakerState, result : TakerState \cup {Term}]
                      /\ n[s].target \in u
                      /\ n[s].target.sid = s
                      /\ n[s].result # Term => n[s].result.sid = s
    BY DEF TransitionsOk
  <2>1. CASE s = t.sid
    BY <1>1, <1>3, <1>5, <2>1
  <2>2. CASE s # t.sid
    <3>1. s \in DOMAIN trs /\ n[s] = trs[s]
      BY <1>1, <2>2
    <3> QED
      BY <3>1 DEF TransitionsOk
  <2> QED
    BY <2>1, <2>2
<1>9. Uncharged(n)
  BY <1>1, <1>3, <1>5 DEF Uncharged
<1>10. ActiveFollow(B, n, u)
  <2>1. ASSUME NEW x \in u, x.sid \notin DOMAIN n
        PROVE  x \in B
    <3>1. x \in A /\ x.sid # t.sid
      BY <1>1, <2>1 DEF ActiveFollow
    <3> QED
      BY <1>6, <3>1 DEF Key
  <2>2. ASSUME NEW x \in B, x.sid \notin DOMAIN n
        PROVE  x \in u
    BY <1>1, <1>5, <1>6, <2>2 DEF ActiveFollow
  <2>3. ASSUME NEW x \in B, x.sid \in DOMAIN n
        PROVE  Key(x) = Key(n[x.sid].target) /\ x.input <= n[x.sid].target.input
    <3>1. CASE r # Term /\ x = r
      BY <1>1, <1>3, <1>5, <3>1
    <3>2. CASE x \in A /\ Key(x) # Key(t) /\ x.sid # t.sid
      BY <1>1, <2>3, <3>2 DEF ActiveFollow
    <3>3. CASE x \in A /\ Key(x) # Key(t) /\ x.sid = t.sid
      <4>1. CASE t.sid \in DOMAIN trs
        BY <3>3, <4>1 DEF ActiveFollow
      <4>2. CASE t.sid \notin DOMAIN trs
        <5>1. x \in u /\ t \in u
          BY <3>3, <4>2 DEF ActiveFollow
        <5> QED
          BY <3>3, <5>1 DEF OneState
      <4> QED
        BY <4>1, <4>2
    <3> QED
      BY <1>6, <3>1, <3>2, <3>3
  <2> QED
    BY <2>1, <2>2, <2>3 DEF ActiveFollow
<1> QED
  BY <1>7, <1>8, <1>9, <1>10 DEF n, B
-----------------------------------------------------------------------------
(* The events from outside.                                                *)

(* add_fragment of an order the book does not have. *)
LEMMA AddFragmentSettled ==
    ASSUME NEW b, SettledBook(b), NEW t \in TakerState,
           t.sid \notin SidsOf(b.takers \cup b.inactive)
    PROVE  SettledBook(AddFragment(b, t))
<1> DEFINE r == AddFragment(b, t)
<1>1. /\ b \in TLBStates /\ b.now \in Nat
      /\ LowerBound[t.sid] \in Nat
  BY LiquidityBookAssumption DEF SettledBook, TLBStates, TakerState
<1>2. \A u \in b.takers \cup b.inactive : u.sid # t.sid /\ Key(u) # Key(t)
  BY DEF SidsOf, Key
<1>3. CASE LowerBound[t.sid] > b.now
  <2>1. Insert(b.inactive, t) = b.inactive \cup {t}
    BY <1>2 DEF Insert
  <2>2. AddFragment(b, t) = [b EXCEPT !.inactive = b.inactive \cup {t}]
    BY <1>3, <2>1 DEF AddFragment
  <2>3. b.inactive \cup {t} \in Takers
    BY <1>1 DEF TLBStates, Takers
  <2>4. /\ r \in TLBStates
        /\ r.inactive = b.inactive \cup {t} /\ r.takers = b.takers
        /\ r.now = b.now /\ r.tag = b.tag /\ r.consumed = b.consumed
        /\ r.stashed = b.stashed /\ r.preview = b.preview
        /\ r.changeset = b.changeset /\ r.intact = b.intact
    BY <1>1, <2>2, <2>3 DEF TLBStates
  <2>5. OneState(r.takers) /\ OneState(r.inactive)
    BY <1>2, <2>4 DEF SettledBook, OneState
  <2>6. \A x \in r.takers, u \in r.inactive : x.sid # u.sid
    BY <1>2, <2>4 DEF SettledBook
  <2>7. /\ \A x \in r.takers : LowerBound[x.sid] <= r.now
        /\ \A x \in r.inactive : LowerBound[x.sid] # r.now
    BY <1>1, <1>3, <2>4 DEF SettledBook
  <2> QED
    BY <2>4, <2>5, <2>6, <2>7 DEF SettledBook
<1>4. CASE ~(LowerBound[t.sid] > b.now)
  <2>1. Insert(b.takers, t) = b.takers \cup {t}
    BY <1>2 DEF Insert
  <2>2. AddFragment(b, t) = [b EXCEPT !.takers = b.takers \cup {t}]
    BY <1>4, <2>1 DEF AddFragment
  <2>3. b.takers \cup {t} \in Takers
    BY <1>1 DEF TLBStates, Takers
  <2>4. /\ r \in TLBStates
        /\ r.takers = b.takers \cup {t} /\ r.inactive = b.inactive
        /\ r.now = b.now /\ r.tag = b.tag /\ r.consumed = b.consumed
        /\ r.stashed = b.stashed /\ r.preview = b.preview
        /\ r.changeset = b.changeset /\ r.intact = b.intact
    BY <1>1, <2>2, <2>3, Zenon DEF TLBStates
  <2>5. OneState(r.takers) /\ OneState(r.inactive)
    BY <1>2, <2>4 DEF SettledBook, OneState
  <2>6. \A x \in r.takers, u \in r.inactive : x.sid # u.sid
    BY <1>2, <2>4 DEF SettledBook
  <2>7. /\ \A x \in r.takers : LowerBound[x.sid] <= r.now
        /\ \A x \in r.inactive : LowerBound[x.sid] # r.now
    BY <1>1, <1>4, <2>4 DEF SettledBook
  <2> QED
    BY <2>4, <2>5, <2>6, <2>7 DEF SettledBook
<1> QED
  BY <1>3, <1>4

(* remove_fragment takes states away and adds none. *)
LEMMA RemoveFragmentSettled ==
    ASSUME NEW b, SettledBook(b), NEW t
    PROVE  SettledBook(RemoveFragment(b, t))
<1>1. /\ b \in TLBStates
      /\ Erase(b.takers, t) \subseteq b.takers
      /\ Erase(b.inactive, t) \subseteq b.inactive
  BY DEF SettledBook, Erase
<1>2. Erase(b.takers, t) \in Takers /\ Erase(b.inactive, t) \in Takers
  BY <1>1 DEF TLBStates, Takers
<1>3. CASE LowerBound[t.sid] > b.now
  <2>1. RemoveFragment(b, t) = [b EXCEPT !.inactive = Erase(b.inactive, t)]
    BY <1>3 DEF RemoveFragment
  <2> QED
    BY <1>1, <1>2, <2>1 DEF SettledBook, TLBStates, OneState
<1>4. CASE ~(LowerBound[t.sid] > b.now)
  <2>1. RemoveFragment(b, t) = [b EXCEPT !.takers = Erase(b.takers, t)]
    BY <1>4 DEF RemoveFragment
  <2> QED
    BY <1>1, <1>2, <2>1 DEF SettledBook, TLBStates, OneState
<1> QED
  BY <1>3, <1>4

(* The makers of a settled book may be any. *)
LEMMA MakersSettled ==
    ASSUME NEW b, SettledBook(b), NEW M \in SUBSET MakerState
    PROVE  SettledBook([b EXCEPT !.makers = M])
  BY DEF SettledBook, TLBStates

(* advance_clocks, however far the clock jumps. *)
LEMMA AdvanceClocksSettled ==
    ASSUME NEW b, SettledBook(b), NEW time \in Nat, time > b.now
    PROVE  SettledBook(AdvanceClocks(b, time))
<1> DEFINE slot == {t \in b.inactive : LowerBound[t.sid] = time}
           r == AdvanceClocks(b, time)
<1>1. b \in TLBStates /\ b.now \in Nat
  BY DEF SettledBook, TLBStates
<1>2. InsertAll(slot, b.takers) = slot \cup b.takers
  BY DEF InsertAll, Key, SettledBook
<1>3. r = [b EXCEPT !.now = time, !.inactive = @ \ slot,
                    !.takers = slot \cup b.takers]
  BY <1>2, Zenon DEF AdvanceClocks
<1>4. slot \cup b.takers \in Takers /\ b.inactive \ slot \in Takers
  BY <1>1 DEF TLBStates, Takers
<1>5. /\ r \in TLBStates
      /\ r.now = time /\ r.inactive = b.inactive \ slot
      /\ r.takers = slot \cup b.takers
      /\ r.tag = b.tag /\ r.consumed = b.consumed /\ r.stashed = b.stashed
      /\ r.preview = b.preview /\ r.changeset = b.changeset
      /\ r.intact = b.intact
  BY <1>1, <1>3, <1>4, Zenon DEF TLBStates
<1>6. \A t \in r.takers : LowerBound[t.sid] <= r.now
  <2>1. \A t \in b.takers : LowerBound[t.sid] \in Nat
    BY <1>1, LiquidityBookAssumption DEF TLBStates, Takers, TakerState
  <2>2. \A t \in b.takers : LowerBound[t.sid] <= time
    BY <1>1, <2>1 DEF SettledBook
  <2> QED
    BY <1>5, <2>2
<1>7. \A t \in r.inactive : LowerBound[t.sid] # r.now
  BY <1>5
<1>8. OneState(r.takers) /\ OneState(r.inactive)
  BY <1>5 DEF SettledBook, OneState
<1>9. \A t \in r.takers, u \in r.inactive : t.sid # u.sid
  BY <1>5 DEF SettledBook, OneState
<1> QED
  BY <1>5, <1>6, <1>7, <1>8, <1>9 DEF SettledBook
-----------------------------------------------------------------------------
(* The end of an attempt.                                                  *)

(* What commit makes of the book: the active takers, and the stash unless  *)
(* only takers were consumed.                                              *)
LEMMA CommitRecord ==
    ASSUME NEW b, SettledBook(b), NEW st, Attempting(st, b)
    PROVE  /\ Commit(st) \in TLBStates
           /\ Commit(st).takers = IF st.tag = Preview
                                  THEN InsertAll(st.preview, st.stashed)
                                  ELSE st.takers
           /\ Commit(st).tag = Idle /\ Commit(st).now = b.now
           /\ Commit(st).inactive = b.inactive
           /\ Commit(st).consumed = {} /\ Commit(st).stashed = {}
           /\ Commit(st).preview = {} /\ Commit(st).changeset = {}
           /\ Commit(st).intact = {}
<1>1. CASE st.tag = Idle
  <2>1. st = b /\ Commit(st) = b
    BY <1>1 DEF Attempting, Commit
  <2> QED
    BY <1>1, <2>1 DEF SettledBook, Idle, Preview
<1>2. CASE st.tag # Idle
  <2> DEFINE ts == IF st.tag = Preview THEN InsertAll(st.preview, st.stashed)
                                       ELSE st.takers
  <2>1. InsertAll(st.inactive, st.changeset) = b.inactive
    BY DEF InsertAll, Attempting
  <2>2. Commit(st) =
          [tag |-> Idle, now |-> st.now, takers |-> ts, inactive |-> b.inactive,
           consumed |-> {}, stashed |-> {}, preview |-> {}, changeset |-> {},
           makers |-> st.makers, intact |-> {}]
    BY <1>2, <2>1, Zenon DEF Commit, NewTLBState
  <2>3. ts \in Takers
    <3>1. InsertAll(st.preview, st.stashed) \in Takers
      BY DEF InsertAll, Attempting, TLBStates, Takers
    <3> QED
      BY <3>1 DEF Attempting, TLBStates
  <2>4. /\ st.now = b.now /\ b.now \in Nat /\ b.inactive \in Takers
        /\ st.makers \in SUBSET MakerState
    BY DEF Attempting, SettledBook, TLBStates
  <2>5. {} \in Takers
    BY DEF Takers
  <2> HIDE DEF ts
  <2>6. Commit(st) \in TLBStates
    <3>1. Idle \in {Idle, PartialPreview, Preview} /\ {} \in SUBSET MakerState
      OBVIOUS
    <3> QED
      BY <2>2, <2>3, <2>4, <2>5, <3>1 DEF TLBStates
  <2> QED
    BY <2>2, <2>4, <2>6 DEF ts
<1> QED
  BY <1>1, <1>2

(* What an accepted batch leaves of the takers: on_recipe_succeeded and    *)
(* the replacement of the targets by the executor.                         *)
LEMMA SuccessTakers ==
    ASSUME SettledBook(saved), Attempting(tlb, saved),
           ActiveFollow(ActiveTakers(tlb), takes, saved.takers \ tlb.stashed),
           TransitionsOk(takes, saved.takers \ tlb.stashed)
    PROVE  InsertAll(EraseAll(Commit(tlb).takers, Targets), Finals)
             = (Unmatched \ Forgotten) \cup Finals
<1> DEFINE C == Commit(tlb).takers
           E == EraseAll(C, Targets)
<1>1. C = IF tlb.tag = Preview THEN InsertAll(tlb.preview, tlb.stashed)
                               ELSE tlb.takers
  BY CommitRecord
<1>2. /\ ActiveTakers(tlb) \subseteq C
      /\ C \subseteq ActiveTakers(tlb) \cup tlb.stashed
      /\ tlb.tag # Preview => C = ActiveTakers(tlb)
  BY <1>1 DEF ActiveTakers, InsertAll
<1>3. /\ \A s \in DOMAIN takes : takes[s].target \in Targets
      /\ \A x \in Targets : x.sid \in DOMAIN takes /\ x = takes[x.sid].target
  BY DEF Targets, TransitionsOk
<1>4. OneState(saved.takers) /\ tlb.stashed \subseteq saved.takers
  BY DEF SettledBook, Attempting
<1>5. tlb.tag = Preview => tlb.stashed \subseteq C
  <2> SUFFICES ASSUME tlb.tag = Preview, NEW x \in tlb.stashed
               PROVE  x \in C
    OBVIOUS
  <2>1. CASE \A y \in tlb.preview : Key(y) # Key(x)
    BY <1>1, <2>1 DEF InsertAll
  <2>2. CASE \E y \in tlb.preview : Key(y) = Key(x)
    <3>1. PICK y \in tlb.preview : Key(y) = Key(x)
      BY <2>2
    <3>2. y \in ActiveTakers(tlb) /\ y.sid = x.sid
      BY <3>1 DEF ActiveTakers, Key
    <3>3. CASE y.sid \notin DOMAIN takes
      BY <1>4, <3>2, <3>3 DEF ActiveFollow, OneState
    <3>4. CASE y.sid \in DOMAIN takes
      BY <1>4, <3>2, <3>4 DEF TransitionsOk, OneState
    <3> QED
      BY <3>3, <3>4
  <2> QED
    BY <2>1, <2>2
<1>6. tlb.tag = Idle => tlb.stashed = {}
  BY DEF Attempting, SettledBook
<1> HIDE DEF C
<1>7. ASSUME NEW x \in E
      PROVE  x \in Unmatched \ Forgotten /\ x.sid \notin DOMAIN takes
  <2>1. x \in C /\ \A t \in Targets : Key(x) # Key(t)
    BY DEF EraseAll
  <2>2. CASE x \in ActiveTakers(tlb)
    <3>1. x.sid \notin DOMAIN takes
      BY <1>3, <2>1, <2>2 DEF ActiveFollow
    <3> QED
      BY <2>2, <3>1 DEF ActiveFollow, Unmatched, Forgotten
  <2>3. CASE x \notin ActiveTakers(tlb)
    <3>1. x \in tlb.stashed /\ tlb.tag = Preview
      BY <1>2, <2>1, <2>3
    <3>2. x.sid \notin DOMAIN takes
      BY <1>4, <3>1, <2>1, <1>3 DEF TransitionsOk, OneState
    <3> QED
      BY <1>4, <3>1, <3>2 DEF Unmatched, Forgotten, Preview, PartialPreview
  <2> QED
    BY <2>2, <2>3
<1>8. ASSUME NEW x \in Unmatched \ Forgotten
      PROVE  x \in E
  <2>1. x \in saved.takers /\ x.sid \notin DOMAIN takes
    BY DEF Unmatched
  <2>2. \A t \in Targets : Key(x) # Key(t)
    BY <1>3, <2>1 DEF Key
  <2>3. CASE x \notin tlb.stashed
    BY <1>2, <2>1, <2>2, <2>3 DEF ActiveFollow, EraseAll
  <2>4. CASE x \in tlb.stashed
    <3>1. tlb.tag = Preview
      BY <1>6, <2>4 DEF Forgotten, Attempting, TLBStates
    <3> QED
      BY <1>5, <2>2, <2>4, <3>1 DEF EraseAll
  <2> QED
    BY <2>3, <2>4
<1>9. E = Unmatched \ Forgotten
  BY <1>7, <1>8
<1>10. \A x \in Finals : x.sid \in DOMAIN takes
  BY DEF Finals, TransitionsOk
<1>11. InsertAll(E, Finals) = E \cup Finals
  BY <1>7, <1>10 DEF InsertAll, Key
<1> QED
  BY <1>9, <1>11 DEF C
(* The book after an accepted batch is settled. *)
LEMMA SuccessSettled ==
    ASSUME SettledBook(saved), Attempting(tlb, saved),
           ActiveFollow(ActiveTakers(tlb), takes, saved.takers \ tlb.stashed),
           TransitionsOk(takes, saved.takers \ tlb.stashed), MakesOk(makes)
    PROVE  /\ SettledBook(WithEffects(Commit(tlb)))
           /\ WithEffects(Commit(tlb)).takers = (Unmatched \ Forgotten) \cup Finals
<1> DEFINE c == Commit(tlb)
           r == WithEffects(c)
           T == (Unmatched \ Forgotten) \cup Finals
           M == {IF m.mid \in DOMAIN makes THEN makes[m.mid].result
                                           ELSE m : m \in c.makers}
<1>1. /\ c \in TLBStates
      /\ c.tag = Idle /\ c.now = saved.now /\ c.inactive = saved.inactive
      /\ c.consumed = {} /\ c.stashed = {} /\ c.preview = {}
      /\ c.changeset = {} /\ c.intact = {}
  BY CommitRecord, Zenon
<1>2. r = [c EXCEPT !.takers = T, !.makers = M]
  BY SuccessTakers, Zenon DEF WithEffects
<1>3. M \in SUBSET MakerState
  BY <1>1, Zenon DEF MakesOk, TLBStates
<1>4. \A x \in Finals : /\ x \in TakerState
                        /\ x.sid \in DOMAIN takes
                        /\ x = takes[x.sid].result
                        /\ takes[x.sid].target \in saved.takers
                        /\ takes[x.sid].target.sid = x.sid
  BY DEF Finals, TransitionsOk
<1>5. \A x \in Unmatched \ Forgotten : x \in saved.takers /\ x.sid \notin DOMAIN takes
  BY DEF Unmatched
<1>6. T \in Takers
  BY <1>4, <1>5, Zenon DEF SettledBook, TLBStates, Takers
<1> HIDE DEF c, T, M
<1>7. /\ r \in TLBStates
      /\ r.takers = T /\ r.inactive = saved.inactive /\ r.now = saved.now
      /\ r.tag = Idle /\ r.consumed = {} /\ r.stashed = {} /\ r.preview = {}
      /\ r.changeset = {} /\ r.intact = {}
  BY <1>1, <1>2, <1>3, <1>6, Zenon DEF TLBStates
<1> HIDE DEF r
<1>8. OneState(r.takers)
  <2>1. \A x, y \in Unmatched \ Forgotten : x.sid = y.sid => x = y
    BY <1>5 DEF OneState, SettledBook
  <2>2. \A x, y \in Finals : x.sid = y.sid => x = y
    BY <1>4
  <2>3. \A x \in Unmatched \ Forgotten, y \in Finals : x.sid # y.sid
    BY <1>4, <1>5
  <2> QED
    BY <1>7, <2>1, <2>2, <2>3 DEF OneState, T
<1>9. \A x \in r.takers, u \in r.inactive : x.sid # u.sid
  <2>1. \A x \in Unmatched \ Forgotten, u \in saved.inactive : x.sid # u.sid
    BY <1>5, Zenon DEF SettledBook
  <2>2. \A x \in Finals, u \in saved.inactive : x.sid # u.sid
    BY <1>4 DEF SettledBook
  <2> QED
    BY <1>7, <2>1, <2>2 DEF T
<1>10. \A x \in r.takers : LowerBound[x.sid] <= r.now
  BY <1>4, <1>5, <1>7, Zenon DEF SettledBook, T
<1>11. SettledBook(r)
  BY <1>7, <1>8, <1>9, <1>10, Zenon DEF SettledBook
<1> QED
  BY <1>7, <1>11, Zenon DEF c, r, T

(* The share of a fee that is charged for a part of the input is at most   *)
(* the fee.                                                                *)
LEMMA FeeShare ==
    ASSUME NEW fee \in Nat, NEW input \in Nat \ {0}, NEW sold \in 0..input
    PROVE  (fee * sold) \div input \in 0..fee
<1>1. fee * sold \in Nat /\ fee * sold <= fee * input /\ fee * input \in Nat
  OBVIOUS
<1> DEFINE a == fee * sold
           q == a \div input
<1>2. a \in Nat
  BY <1>1
<1> HIDE DEF a
<1>3. q \in Nat /\ input * q <= a
  BY <1>2
<1>4. ASSUME q > fee PROVE FALSE
  <2>1. input * q >= input * (fee + 1)
    BY <1>3, <1>4
  <2>2. input * (fee + 1) = fee * input + input
    OBVIOUS
  <2> QED
    BY <1>1, <1>3, <2>1, <2>2 DEF a
<1> QED
  BY <1>3, <1>4 DEF a

(* finalized charges at most the fee. *)
LEMMA FinalizedState ==
    ASSUME NEW tr \in [target : TakerState, result : TakerState \cup {Term}],
           NEW broke \in BOOLEAN,
           tr.result # Term => /\ tr.result.fee = tr.target.fee
                               /\ tr.result.input <= tr.target.input
    PROVE  /\ Finalized(tr, broke) \in TakerState \cup {Term}
           /\ Finalized(tr, broke) # Term =>
                tr.result # Term /\ Finalized(tr, broke).sid = tr.result.sid
<1>1. CASE tr.result = Term \/ broke
  BY <1>1 DEF Finalized
<1>2. CASE ~(tr.result = Term \/ broke)
  <2> DEFINE sold == tr.target.input - tr.result.input
             fee == (tr.target.fee * sold) \div tr.target.input
  <2>1. /\ tr.result \in TakerState /\ tr.target \in TakerState
        /\ tr.result.fee = tr.target.fee
        /\ tr.result.input <= tr.target.input
    BY <1>2
  <2>2. /\ tr.target.fee \in Nat /\ tr.target.input \in Nat \ {0}
        /\ sold \in 0..tr.target.input
    BY <2>1 DEF TakerState
  <2>3. fee \in 0..tr.target.fee
    BY <2>2, FeeShare
  <2>4. Finalized(tr, broke) = [tr.result EXCEPT !.fee = @ - fee]
    BY <1>2 DEF Finalized
  <2> HIDE DEF fee
  <2>5. tr.result.fee - fee \in Nat
    BY <2>1, <2>2, <2>3
  <2> QED
    BY <1>2, <2>1, <2>4, <2>5 DEF TakerState
<1> QED
  BY <1>1, <1>2
-----------------------------------------------------------------------------
(* The steps of an attempt.                                                *)

(* on_take, whatever is left of the taker. *)
LEMMA OnTakeKeepsAttempting ==
    ASSUME NEW b, SettledBook(b), NEW st, Attempting(st, b),
           NEW r \in TakerState \cup {Term},
           r # Term => LowerBound[r.sid] <= b.now
    PROVE  /\ Attempting(OnTake(st, r), b)
           /\ ActiveTakers(OnTake(st, r)) = IF r = Term THEN ActiveTakers(st)
                                            ELSE Insert(ActiveTakers(st), r)
           /\ OnTake(st, r).stashed = st.stashed
<1>1. CASE r = Term
  BY <1>1 DEF OnTake
<1>2. CASE r # Term
  BY <1>2, TakeKeepsAttempting DEF OnTake
<1> QED
  BY <1>1, <1>2, Zenon

(* What BookInv says inside an attempt, with the batch and the book given. *)
InAttempt(st, trs, mks) ==
    /\ Attempting(st, saved)
    /\ ActiveFollow(ActiveTakers(st), trs, saved.takers \ st.stashed)
    /\ TransitionsOk(trs, saved.takers \ st.stashed)
    /\ Uncharged(trs)
    /\ MakesOk(mks)

(* The takers the loop chooses from are active. *)
LEMMA CandidatesActive == Candidates \subseteq ActiveTakers(tlb)
  BY DEF Candidates, Best, Asks, Bids

(* A trade with the best taker of the other side. *)
LEMMA MatchTakerStep ==
    ASSUME SettledBook(saved), InAttempt(tlb, takes, makes),
           NEW t \in Candidates, MatchTaker(t)
    PROVE  InAttempt(tlb', takes', makes')
<1> DEFINE A == ActiveTakers(tlb)
           U == saved.takers \ tlb.stashed
           st == PickTaker(tlb, t)
<1>1. PICK u \in Best(OtherSide(ActiveTakers(st), t)) :
        LET x == IF t.input < u.input THEN t.input ELSE u.input
            rt == Traded(t, x)
            ru == Traded(u, x)
        IN /\ tlb' = OnTake(OnTake(PickTaker(st, u), rt), ru)
           /\ takes' = Combined(Combined(takes, t.sid, t, rt), u.sid, u, ru)
           /\ UNCHANGED <<pc, makes, optimized, saved>>
  BY Zenon DEF MatchTaker
<1> DEFINE x == IF t.input < u.input THEN t.input ELSE u.input
           rt == Traded(t, x)
           ru == Traded(u, x)
           n1 == Combined(takes, t.sid, t, rt)
<1>2. t \in A
  BY CandidatesActive
<1>3. /\ Attempting(st, saved) /\ ActiveTakers(st) = Erase(A, t)
      /\ st.stashed = tlb.stashed
  BY <1>2, PickKeepsAttempting, Zenon DEF InAttempt
<1>4. u \in Erase(A, t) /\ u \in A /\ u.sid # t.sid
  BY <1>3 DEF Best, OtherSide, Bids, Asks, Erase
<1>5. /\ t \in TakerState /\ LowerBound[t.sid] <= saved.now
      /\ u \in TakerState /\ LowerBound[u.sid] <= saved.now
  <2>1. U \subseteq saved.takers
    OBVIOUS
  <2> QED
    BY <1>2, <1>4, <2>1, ActiveTaker, Zenon DEF InAttempt
<1>6. x \in 1..t.input /\ x \in 1..u.input
  BY <1>5 DEF TakerState
<1> HIDE DEF x
<1>7. /\ rt \in TakerState \cup {Term}
      /\ rt # Term => rt.sid = t.sid /\ rt.fee = t.fee /\ rt.input <= t.input
      /\ ru \in TakerState \cup {Term}
      /\ ru # Term => ru.sid = u.sid /\ ru.fee = u.fee /\ ru.input <= u.input
  BY <1>5, <1>6, TradedState, Zenon
<1>8. /\ tlb' = OnTake(OnTake(PickTaker(st, u), rt), ru)
      /\ takes' = Combined(n1, u.sid, u, ru)
      /\ makes' = makes /\ saved' = saved
  BY <1>1 DEF x
<1> HIDE DEF rt, ru, st
<1>9. /\ Attempting(PickTaker(st, u), saved)
      /\ ActiveTakers(PickTaker(st, u)) = Erase(Erase(A, t), u)
      /\ PickTaker(st, u).stashed = tlb.stashed
  BY <1>3, <1>4, PickKeepsAttempting
<1> DEFINE s3 == OnTake(PickTaker(st, u), rt)
<1>10. /\ Attempting(s3, saved) /\ s3.stashed = tlb.stashed
       /\ ActiveTakers(s3) = IF rt = Term THEN Erase(Erase(A, t), u)
                             ELSE Insert(Erase(Erase(A, t), u), rt)
  BY <1>5, <1>7, <1>9, OnTakeKeepsAttempting, Zenon
<1>11. ActiveTakers(s3) = Erase(Replaced(A, t, rt), u)
  <2>1. CASE rt = Term
    BY <1>10, <2>1 DEF Replaced
  <2>2. CASE rt # Term
    <3>1. Key(rt) # Key(u)
      BY <1>4, <1>7, <2>2, Zenon DEF Key
    <3>2. Erase(Insert(Erase(A, t), rt), u) = Insert(Erase(Erase(A, t), u), rt)
      BY <3>1, EraseInsertCommute
    <3> QED
      BY <1>10, <2>2, <3>2 DEF Replaced
  <2> QED
    BY <2>1, <2>2
<1> HIDE DEF s3
<1>12. /\ Attempting(tlb', saved) /\ tlb'.stashed = tlb.stashed
       /\ ActiveTakers(tlb') = Replaced(Replaced(A, t, rt), u, ru)
  <2>1. tlb' = OnTake(s3, ru)
    BY <1>8 DEF s3
  <2>2. /\ Attempting(OnTake(s3, ru), saved)
        /\ OnTake(s3, ru).stashed = s3.stashed
        /\ ActiveTakers(OnTake(s3, ru)) = IF ru = Term THEN ActiveTakers(s3)
                                          ELSE Insert(ActiveTakers(s3), ru)
    BY <1>5, <1>7, <1>10, OnTakeKeepsAttempting, Zenon
  <2> QED
    BY <1>10, <1>11, <2>1, <2>2 DEF Replaced
<1>13. U \in Takers /\ OneState(U) /\ A \in Takers
  BY Zenon DEF SettledBook, InAttempt, Attempting, TLBStates, Takers, OneState, ActiveTakers
<1>14. /\ ActiveFollow(Replaced(A, t, rt), n1, U)
       /\ TransitionsOk(n1, U) /\ Uncharged(n1)
       /\ Replaced(A, t, rt) \in Takers
  BY <1>2, <1>7, <1>13, TradeFollows, Zenon DEF InAttempt
<1>15. u \in Replaced(A, t, rt)
  <2>1. Key(u) # Key(t)
    BY <1>4 DEF Key
  <2> QED
    BY <1>4, <2>1 DEF Replaced, Erase, Insert
<1> HIDE DEF n1, A, U
<1>16. /\ ActiveFollow(Replaced(Replaced(A, t, rt), u, ru), takes', U)
       /\ TransitionsOk(takes', U) /\ Uncharged(takes')
  BY <1>7, <1>8, <1>13, <1>14, <1>15, TradeFollows, Zenon
<1> QED
  BY <1>8, <1>12, <1>16, Zenon DEF InAttempt, U
(* A pass with a maker, whatever it leaves of the target. *)
LEMMA MakerPassStep ==
    ASSUME SettledBook(saved), InAttempt(tlb, takes, makes),
           NEW t \in Candidates, NEW m \in PickTaker(tlb, t).makers,
           NEW rt \in TakerState \cup {Term}, NEW rm \in MakerState,
           rt # Term => rt.sid = t.sid /\ rt.fee = t.fee /\ rt.input <= t.input,
           PassWithMaker(t, m, rt, rm)
    PROVE  InAttempt(tlb', takes', makes')
<1> DEFINE A == ActiveTakers(tlb)
           U == saved.takers \ tlb.stashed
           st == PickTaker(tlb, t)
<1>3. /\ tlb' = PreAddMaker(OnTake(PickMaker(st, m), rt), rm)
      /\ takes' = Combined(takes, t.sid, t, rt)
      /\ makes' = Combined(makes, m.mid, m, rm)
      /\ saved' = saved
  BY DEF PassWithMaker
<1>4. t \in A
  BY CandidatesActive
<1>5. /\ Attempting(st, saved) /\ ActiveTakers(st) = Erase(A, t)
      /\ st.stashed = tlb.stashed
  BY <1>4, PickKeepsAttempting, Zenon DEF InAttempt
<1>6. t \in TakerState /\ LowerBound[t.sid] <= saved.now
  <2>1. U \subseteq saved.takers
    OBVIOUS
  <2> QED
    BY <1>4, <2>1, ActiveTaker, Zenon DEF InAttempt
<1> HIDE DEF st
<1>10. /\ Attempting(PickMaker(st, m), saved)
       /\ ActiveTakers(PickMaker(st, m)) = Erase(A, t)
       /\ PickMaker(st, m).stashed = tlb.stashed
  BY <1>5, PickMakerKeepsAttempting, Zenon
<1> DEFINE s2 == PickMaker(st, m)
           s3 == OnTake(s2, rt)
<1> HIDE DEF s2
<1>11. /\ Attempting(s3, saved) /\ s3.stashed = tlb.stashed
       /\ ActiveTakers(s3) = Replaced(A, t, rt)
  <2>1. /\ Attempting(s3, saved) /\ s3.stashed = s2.stashed
        /\ ActiveTakers(s3) = IF rt = Term THEN ActiveTakers(s2)
                              ELSE Insert(ActiveTakers(s2), rt)
    BY <1>6, <1>10, OnTakeKeepsAttempting, Zenon DEF s2
  <2> QED
    BY <1>10, <2>1, Zenon DEF Replaced, s2
<1> HIDE DEF s3
<1>12. /\ Attempting(tlb', saved) /\ tlb'.stashed = tlb.stashed
       /\ ActiveTakers(tlb') = Replaced(A, t, rt)
  <2>1. tlb' = PreAddMaker(s3, rm)
    BY <1>3, Zenon DEF s2, s3
  <2>2. /\ Attempting(PreAddMaker(s3, rm), saved)
        /\ ActiveTakers(PreAddMaker(s3, rm)) = ActiveTakers(s3)
        /\ PreAddMaker(s3, rm).stashed = s3.stashed
    BY <1>11, MakeKeepsAttempting, Zenon
  <2> QED
    BY <1>11, <2>1, <2>2, Zenon
<1>13. U \in Takers /\ OneState(U) /\ A \in Takers
  BY Zenon DEF SettledBook, InAttempt, Attempting, TLBStates, Takers, OneState, ActiveTakers
<1>14. /\ ActiveFollow(Replaced(A, t, rt), takes', U)
       /\ TransitionsOk(takes', U) /\ Uncharged(takes')
  BY <1>3, <1>4, <1>13, TradeFollows, Zenon DEF InAttempt
<1>15. MakesOk(makes')
  BY <1>3, Zenon DEF InAttempt, MakesOk, Combined
<1> QED
  BY <1>3, <1>12, <1>14, <1>15, Zenon DEF InAttempt

(* A trade with a maker is such a pass, and so is one without a trade.     *)
LEMMA MatchMakerStep ==
    ASSUME SettledBook(saved), InAttempt(tlb, takes, makes),
           NEW t \in Candidates, MatchMaker(t) \/ NoTrade(t)
    PROVE  InAttempt(tlb', takes', makes')
<1> DEFINE st == PickTaker(tlb, t)
<1>1. t \in ActiveTakers(tlb)
  BY CandidatesActive
<1>2. t \in TakerState
  BY <1>1, Zenon DEF InAttempt, Attempting, TLBStates, Takers, ActiveTakers
<1>3. st.makers \subseteq MakerState
  <2>1. Attempting(st, saved)
    BY <1>1, PickKeepsAttempting, Zenon DEF InAttempt
  <2> QED
    BY <2>1, Zenon DEF Attempting, TLBStates
<1>4. CASE MatchMaker(t)
  <2>1. PICK m \in st.makers, rev \in Revs :
          \E x \in IF optimized THEN 1..t.input ELSE {t.input} :
              PassWithMaker(t, m, Traded(t, x), [m EXCEPT !.rev = rev])
    BY <1>4 DEF MatchMaker
  <2>2. PICK x \in IF optimized THEN 1..t.input ELSE {t.input} :
              PassWithMaker(t, m, Traded(t, x), [m EXCEPT !.rev = rev])
    BY <2>1
  <2> DEFINE rt == Traded(t, x)
             rm == [m EXCEPT !.rev = rev]
  <2>3. x \in 1..t.input
    BY <1>2, <2>2 DEF TakerState
  <2>4. /\ rt \in TakerState \cup {Term}
        /\ rt # Term => rt.sid = t.sid /\ rt.fee = t.fee /\ rt.input <= t.input
    BY <1>2, <2>3, TradedState, Zenon
  <2>5. rm \in MakerState
    <3>1. m \in MakerState
      BY <1>3
    <3> QED
      BY <3>1 DEF MakerState
  <2>6. PassWithMaker(t, m, rt, rm)
    BY <2>2
  <2> HIDE DEF rt, rm
  <2> QED
    BY <2>4, <2>5, <2>6, MakerPassStep, Zenon
<1>5. CASE NoTrade(t)
  <2>1. PICK m \in st.makers : PassWithMaker(t, m, t, m)
    BY <1>5 DEF NoTrade
  <2>2. m \in MakerState
    BY <1>3
  <2>3. t.input <= t.input
    BY <1>2 DEF TakerState
  <2> QED
    BY <1>2, <2>1, <2>2, <2>3, MakerPassStep, Zenon
<1> QED
  BY <1>4, <1>5, Zenon

(* A target without a counterpart is put back. *)
LEMMA PutBackStep ==
    ASSUME SettledBook(saved), InAttempt(tlb, takes, makes), NEW t \in Candidates
    PROVE  InAttempt(PreAddTaker(PickTaker(tlb, t), t), takes, makes)
<1> DEFINE A == ActiveTakers(tlb)
           U == saved.takers \ tlb.stashed
           st == PickTaker(tlb, t)
           r == PreAddTaker(st, t)
<1>1. t \in A
  BY CandidatesActive
<1>2. t \in TakerState /\ LowerBound[t.sid] <= saved.now
  <2>1. U \subseteq saved.takers
    BY Zenon
  <2> QED
    BY <1>1, <2>1, ActiveTaker, Zenon DEF InAttempt
<1>3. /\ Attempting(st, saved) /\ ActiveTakers(st) = Erase(A, t)
      /\ st.stashed = tlb.stashed
  BY <1>1, PickKeepsAttempting, Zenon DEF InAttempt
<1> HIDE DEF st
<1>4. /\ Attempting(r, saved) /\ ActiveTakers(r) = Insert(Erase(A, t), t)
      /\ r.stashed = tlb.stashed
  BY <1>2, <1>3, TakeKeepsAttempting, Zenon
<1>5. \A x \in Insert(Erase(A, t), t) : x \in A
  BY <1>1 DEF Insert, Erase
<1>6. \A x \in A : x.sid \notin DOMAIN takes => x \in Insert(Erase(A, t), t)
  <2> SUFFICES ASSUME NEW x \in A, x.sid \notin DOMAIN takes
               PROVE  x \in Insert(Erase(A, t), t)
    BY Zenon
  <2>1. CASE Key(x) # Key(t)
    BY <2>1 DEF Insert, Erase
  <2>2. CASE Key(x) = Key(t)
    <3>1. x = t
      BY <1>1, <2>2, Zenon DEF InAttempt, ActiveFollow, SettledBook, OneState, Key
    <3> QED
      BY <3>1 DEF Insert, Erase
  <2> QED
    BY <2>1, <2>2, Zenon
<1>7. ActiveFollow(ActiveTakers(r), takes, U)
  BY <1>4, <1>5, <1>6, Zenon DEF InAttempt, ActiveFollow
<1> QED
  BY <1>4, <1>7, Zenon DEF InAttempt, st
(* try_from charges the fees and changes nothing else. *)
LEMMA FormRecipeStep ==
    ASSUME SettledBook(saved), InAttempt(tlb, takes, makes), FormRecipe
    PROVE  /\ ActiveFollow(ActiveTakers(tlb), takes', saved.takers \ tlb.stashed)
           /\ TransitionsOk(takes', saved.takers \ tlb.stashed)
<1>1. PICK broke \in SUBSET DOMAIN takes :
        takes' = [s \in DOMAIN takes |->
                    [takes[s] EXCEPT
                        !.result = Finalized(takes[s], s \in broke)]]
  BY Zenon DEF FormRecipe
<1>2. ASSUME NEW s \in DOMAIN takes
      PROVE  /\ takes'[s].target = takes[s].target
             /\ takes'[s] \in [target : TakerState, result : TakerState \cup {Term}]
             /\ takes'[s].result # Term => takes'[s].result.sid = s
  <2>1. takes[s] \in [target : TakerState, result : TakerState \cup {Term}]
    BY DEF InAttempt, TransitionsOk
  <2>2. takes[s].result # Term => /\ takes[s].result.fee = takes[s].target.fee
                                  /\ takes[s].result.input <= takes[s].target.input
                                  /\ takes[s].result.sid = s
    BY Zenon DEF InAttempt, TransitionsOk, Uncharged
  <2> DEFINE f == Finalized(takes[s], s \in broke)
  <2>3. /\ f \in TakerState \cup {Term}
        /\ f # Term => takes[s].result # Term /\ f.sid = takes[s].result.sid
    <3>1. (s \in broke) \in BOOLEAN
      OBVIOUS
    <3> QED
      BY <2>1, <2>2, <3>1, FinalizedState, Zenon
  <2>4. takes'[s] = [takes[s] EXCEPT !.result = f]
    BY <1>1
  <2> HIDE DEF f
  <2>5. takes'[s] = [target |-> takes[s].target, result |-> f]
    <3>1. takes[s] = [target |-> takes[s].target, result |-> takes[s].result]
      BY <2>1
    <3> QED
      BY <2>4, <3>1
  <2>6. takes'[s].target = takes[s].target /\ takes'[s].result = f
    BY <2>5
  <2>7. takes'[s] \in [target : TakerState, result : TakerState \cup {Term}]
    BY <2>1, <2>3, <2>5
  <2> QED
    BY <2>2, <2>3, <2>6, <2>7
<1>3. DOMAIN takes' = DOMAIN takes
  BY <1>1
<1>4. TransitionsOk(takes', saved.takers \ tlb.stashed)
  BY <1>2, <1>3, Zenon DEF InAttempt, TransitionsOk
<1>5. ActiveFollow(ActiveTakers(tlb), takes', saved.takers \ tlb.stashed)
  BY <1>2, <1>3, Zenon DEF InAttempt, ActiveFollow
<1> QED
  BY <1>4, <1>5

(* An attempt that starts or starts over has an empty batch. *)
LEMMA EmptyBatchFollows ==
    ASSUME NEW u
    PROVE  /\ ActiveFollow(u, EmptyBatch, u)
           /\ TransitionsOk(EmptyBatch, u)
           /\ Uncharged(EmptyBatch)
           /\ MakesOk(EmptyBatch)
<1>1. DOMAIN EmptyBatch = {}
  BY DEF EmptyBatch
<1> QED
  BY <1>1 DEF ActiveFollow, TransitionsOk, Uncharged, MakesOk

(* A new book is settled. *)
LEMMA NewBookSettled == SettledBook(NewTLBState(0))
  BY Zenon DEF SettledBook, NewTLBState, TLBStates, Takers, OneState

(* The events from outside keep a settled book settled. *)
LEMMA ExternalStep ==
    ASSUME BookInv, External
    PROVE  BookInv'
<1>1. CASE \E t \in [sid : TakerId, fee : Fees, input : 1..MaxInput] : UpdateTaker(t)
  <2>1. PICK t \in [sid : TakerId, fee : Fees, input : 1..MaxInput] : UpdateTaker(t)
    BY <1>1
  <2>2. t \in TakerState
    BY LiquidityBookAssumption DEF TakerState
  <2> QED
    BY <2>1, <2>2, AddFragmentSettled, Zenon DEF UpdateTaker, Mutate, BookInv, batch
<1>2. CASE \E t \in tlb.takers \cup tlb.inactive : RemoveTaker(t)
  BY <1>2, RemoveFragmentSettled, Zenon DEF RemoveTaker, Mutate, BookInv, batch
<1>3. CASE \E m \in MakerState : UpdateMaker(m)
  <2>1. PICK m \in MakerState : UpdateMaker(m)
    BY <1>3
  <2>2. pc = "idle" /\ SettledBook(tlb) /\ tlb \in TLBStates
    BY <2>1 DEF UpdateMaker, BookInv, SettledBook
  <2>3. UpdatePool(tlb.makers, m) \in SUBSET MakerState
    BY <2>2 DEF UpdatePool, TLBStates
  <2>4. SettledBook(tlb')
    BY <2>1, <2>2, <2>3, MakersSettled DEF UpdateMaker, Mutate
  <2> QED
    BY <2>1, <2>2, <2>4 DEF UpdateMaker, Mutate, BookInv, batch
<1>4. CASE \E m \in MakerState : RemoveMaker(m)
  <2>1. PICK m \in MakerState : RemoveMaker(m)
    BY <1>4
  <2>2. pc = "idle" /\ SettledBook(tlb) /\ tlb \in TLBStates
    BY <2>1 DEF RemoveMaker, BookInv, SettledBook
  <2>3. RemovePool(tlb.makers, m) \in SUBSET MakerState
    BY <2>2 DEF RemovePool, TLBStates
  <2>4. SettledBook(tlb')
    BY <2>1, <2>2, <2>3, MakersSettled DEF RemoveMaker, Mutate
  <2> QED
    BY <2>1, <2>2, <2>4 DEF RemoveMaker, Mutate, BookInv, batch
<1>5. CASE AdvanceClock
  <2>1. PICK time \in (tlb.now + 1)..MaxNow : Mutate(AdvanceClocks(tlb, time))
    BY <1>5 DEF AdvanceClock
  <2>2. pc = "idle" /\ SettledBook(tlb) /\ tlb.now \in Nat
    BY <1>5, Zenon DEF AdvanceClock, BookInv, SettledBook, TLBStates
  <2>3. time \in Nat /\ time > tlb.now
    BY <2>2, LiquidityBookAssumption
  <2>4. SettledBook(tlb')
    BY <2>1, <2>2, <2>3, AdvanceClocksSettled DEF Mutate
  <2> QED
    BY <2>1, <2>2, <2>4, Zenon DEF Mutate, BookInv, batch
<1> QED
  BY <1>1, <1>2, <1>3, <1>4, <1>5, Zenon DEF External

(* Each step of the loop, and each verdict on its batch, keeps the batch   *)
(* and the book in step.                                                   *)
LEMMA AttemptStep ==
    ASSUME BookInv, Attempt
    PROVE  BookInv'
<1>0. /\ pc \in {"matching", "batched"}
      /\ SettledBook(saved)
      /\ InAttempt(tlb, takes, makes)
  BY DEF Attempt, Match, EndLoop, FormRecipe, FailAttempt,
         RetryWithoutDissatisfied, RetryDowngraded, Retry, BookInv, InAttempt
<1>1. CASE Match
  <2>1. CASE UNCHANGED bookVars
    BY <2>1, Zenon DEF bookVars, BookInv, InAttempt
  <2>2. ASSUME NEW t \in Candidates, MatchTaker(t) \/ MatchMaker(t) \/ NoTrade(t)
        PROVE  BookInv'
    <3>1. InAttempt(tlb', takes', makes')
      BY <1>0, <2>2, MatchTakerStep, MatchMakerStep
    <3>2. pc' = pc /\ saved' = saved /\ pc = "matching"
      BY <1>1, <2>2, Zenon DEF MatchTaker, MatchMaker, NoTrade, PassWithMaker, Match
    <3> QED
      BY <1>0, <3>1, <3>2, Zenon DEF BookInv, InAttempt
  <2> QED
    BY <1>1, <2>1, <2>2, Zenon DEF Match
<1>2. CASE EndLoop
  <2>1. InAttempt(tlb', takes, makes)
    <3>1. CASE UNCHANGED tlb
      BY <1>0, <3>1
    <3>2. CASE \E t \in Candidates : tlb' = PreAddTaker(PickTaker(tlb, t), t)
      BY <1>0, <3>2, PutBackStep
    <3> QED
      BY <1>2, <3>1, <3>2 DEF EndLoop
  <2>2. /\ pc' = "batched" /\ saved' = saved /\ takes' = takes
        /\ makes' = makes
    BY <1>2 DEF EndLoop, batch
  <2> QED
    BY <1>0, <2>1, <2>2, Zenon DEF BookInv, InAttempt
<1>3. CASE FormRecipe
  <2>1. /\ ActiveFollow(ActiveTakers(tlb), takes', saved.takers \ tlb.stashed)
        /\ TransitionsOk(takes', saved.takers \ tlb.stashed)
    BY <1>0, <1>3, FormRecipeStep, Zenon
  <2>2. /\ pc' = "recipe" /\ saved' = saved /\ tlb' = tlb /\ makes' = makes
    BY <1>3 DEF FormRecipe
  <2> QED
    BY <1>0, <2>1, <2>2, Zenon DEF BookInv, InAttempt
<1>4. CASE FailAttempt
  <2>1. tlb' = saved
    BY <1>0, <1>4, RollbackRestoresBook, Zenon DEF FailAttempt, InAttempt
  <2> QED
    BY <1>0, <1>4, <2>1, Zenon DEF FailAttempt, Leave, BookInv
<1>5. ASSUME NEW stash \in SUBSET Targets, NEW opt, Retry(stash, opt)
      PROVE  BookInv'
  <2>1. stash \subseteq saved.takers \ tlb.stashed
    BY <1>0 DEF InAttempt, TransitionsOk, Targets
  <2>2. /\ tlb' = RollbackStash(tlb, stash) /\ takes' = EmptyBatch
        /\ makes' = EmptyBatch /\ pc' = "matching" /\ saved' = saved
    BY <1>5 DEF Retry
  <2>3. /\ Attempting(tlb', saved)
        /\ ActiveTakers(tlb') = saved.takers \ tlb'.stashed
    BY <1>0, <2>1, <2>2, StashKeepsAttempting, Zenon DEF InAttempt
  <2>4. /\ ActiveFollow(ActiveTakers(tlb'), takes', saved.takers \ tlb'.stashed)
        /\ TransitionsOk(takes', saved.takers \ tlb'.stashed)
        /\ Uncharged(takes') /\ MakesOk(makes')
    BY <2>2, <2>3, EmptyBatchFollows, Zenon
  <2> QED
    BY <1>0, <2>2, <2>3, <2>4, Zenon DEF BookInv
<1>6. CASE RetryWithoutDissatisfied
  BY <1>5, <1>6 DEF RetryWithoutDissatisfied
<1>7. CASE RetryDowngraded
  BY <1>5, <1>7, Zenon DEF RetryDowngraded
<1> QED
  BY <1>1, <1>2, <1>3, <1>4, <1>6, <1>7 DEF Attempt

(* Every step of the book keeps the invariant. *)
LEMMA BookStep ==
    ASSUME BookInv, [BookNext]_bookVars
    PROVE  BookInv'
<1>1. CASE External
  BY <1>1, ExternalStep
<1>2. CASE BeginAttempt
  <2>1. /\ pc = "idle" /\ pc' = "matching" /\ saved' = tlb /\ tlb' = tlb
        /\ takes' = takes /\ makes' = makes
    BY <1>2 DEF BeginAttempt, batch
  <2>2. /\ SettledBook(tlb) /\ takes = EmptyBatch /\ makes = EmptyBatch
    BY <2>1, Zenon DEF BookInv
  <2>3. /\ Attempting(tlb, tlb) /\ ActiveTakers(tlb) = tlb.takers \ tlb.stashed
    BY <2>2, Zenon DEF Attempting, SettledBook, ActiveTakers, Idle, Preview
  <2> QED
    BY <2>1, <2>2, <2>3, EmptyBatchFollows, Zenon DEF BookInv
<1>3. CASE Attempt
  BY <1>3, AttemptStep
<1>4. CASE OnRecipeSucceeded
  <2>1. SettledBook(tlb')
    BY <1>4, SuccessSettled, Zenon DEF OnRecipeSucceeded, Settle, BookInv
  <2> QED
    BY <1>4, <2>1, Zenon DEF OnRecipeSucceeded, Settle, Leave, BookInv
<1>5. CASE OnRecipeFailed
  <2>1. SettledBook(tlb')
    BY <1>5, RollbackRestoresBook DEF OnRecipeFailed, Settle, BookInv
  <2> QED
    BY <1>5, <2>1, Zenon DEF OnRecipeFailed, Settle, Leave, BookInv
<1>6. CASE UNCHANGED bookVars
  <2>1. /\ tlb' = tlb /\ pc' = pc /\ takes' = takes /\ makes' = makes
        /\ saved' = saved
    BY <1>6 DEF bookVars
  <2> QED
    BY <2>1, Zenon DEF BookInv
<1> QED
  BY <1>1, <1>2, <1>3, <1>4, <1>5, <1>6 DEF BookNext

(* The inductive invariant holds of every reachable book. *)
LEMMA BookAlwaysInv == BookSpec => []BookInv
<1>1. BookInit => BookInv
  BY NewBookSettled, Zenon DEF BookInit, BookInv
<1>2. BookInv /\ [BookNext]_bookVars => BookInv'
  BY BookStep
<1> QED
  BY <1>1, <1>2, PTL DEF BookSpec

(* attempt, on_recipe_failed: rolling back, after any number of matches,   *)
(* retries and stashes, restores the book the attempt started from, and    *)
(* between attempts the book is settled, so that no event from outside     *)
(* panics.                                                                 *)
THEOREM RollbackAlwaysRestores == BookSpec => []RollbackRestores
<1>1. BookInv => RollbackRestores
  <2> SUFFICES ASSUME BookInv PROVE RollbackRestores
    OBVIOUS
  <2>1. CASE pc = "idle"
    BY <2>1, Zenon DEF BookInv, RollbackRestores, SettledBook
  <2>2. CASE pc # "idle"
    <3>1. SettledBook(saved) /\ Attempting(tlb, saved)
      BY <2>2 DEF BookInv
    <3>2. RollbackUnstash(tlb) = saved
      BY <3>1, RollbackRestoresBook
    <3>3. \A t \in tlb.inactive : LowerBound[t.sid] # tlb.now
      BY <3>1 DEF SettledBook, Attempting
    <3> QED
      BY <2>2, <3>2, <3>3 DEF RollbackRestores
  <2> QED
    BY <2>1, <2>2
<1> QED
  BY <1>1, BookAlwaysInv, PTL

(* on_recipe_succeeded and sync_book: the takers after an accepted batch   *)
(* are the untouched ones and the produced states, each order in one state *)
(* and none lost but the stash of a partial preview.                       *)
THEOREM SuccessAlwaysExact == BookSpec => SuccessExact
<1>1. BookInv /\ [BookNext]_bookVars =>
        [OnRecipeSucceeded => tlb'.takers = (Unmatched \ Forgotten) \cup Finals]_bookVars
  BY SuccessSettled, Zenon DEF OnRecipeSucceeded, Settle, BookInv
<1> QED
  BY <1>1, BookAlwaysInv, PTL DEF BookSpec, SuccessExact
=============================================================================
