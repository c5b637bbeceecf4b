---------------------------- MODULE TLBStateOps ----------------------------
(***************************************************************************)
(* The state automaton of a liquidity book (bloom-offchain,                *)
(* execution_engine/liquidity_book/state/mod.rs): Idle, PartialPreview     *)
(* (takers were only consumed) and Preview (takers or makers were also     *)
(* produced), as operators on one record:                                  *)
(*                                                                         *)
(*   tag        which of the three states it is                            *)
(*   now        Chronology.time_now                                        *)
(*   takers     active takers: of the book in Idle, what is left of them   *)
(*              in PartialPreview, takers_intact in Preview                *)
(*   inactive   takers whose lower time bound is ahead                     *)
(*   consumed   takers taken out of `takers' in PartialPreview             *)
(*   stashed    takers set aside for the rest of the matchmaking           *)
(*   preview    active_takers_preview                                      *)
(*   changeset  inactive_takers_changeset                                  *)
(*   makers     makers of the book in Idle, their preview otherwise        *)
(*   intact     makers_intact                                              *)
(*                                                                         *)
(* Takers live in BTreeSets: the order of a taker (orders/limit.rs)        *)
(* compares price, fee and stable id and ignores the amounts, so two       *)
(* states of one order with the same fee are the same element.  `insert'   *)
(* of an element that is there already does not replace it.                *)
(***************************************************************************)
EXTENDS Naturals

CONSTANT LowerBound     \* [taker stable ids -> Nat]: lower time bound, 0 if none

Idle == "Idle"
PartialPreview == "PartialPreview"
Preview == "Preview"

(* What the order of takers compares; the price is fixed by the order.     *)
Key(t) == <<t.sid, t.fee>>

Insert(S, t) == IF \E u \in S : Key(u) = Key(t) THEN S ELSE S \cup {t}
InsertAll(S, T) == S \cup {t \in T : \A u \in S : Key(u) # Key(t)}
Erase(S, t) == {u \in S : Key(u) # Key(t)}
EraseAll(S, T) == {u \in S : \A t \in T : Key(u) # Key(t)}

(* MarketMakers.values, a map from stable ids: at most one maker per id.   *)
UpdatePool(M, m) == {x \in M : x.mid # m.mid} \cup {m}
RemovePool(M, m) == {x \in M : x.mid # m.mid}

NewTLBState(time) ==
    [tag |-> Idle, now |-> time, takers |-> {}, inactive |-> {},
     consumed |-> {}, stashed |-> {}, preview |-> {}, changeset |-> {},
     makers |-> {}, intact |-> {}]

ActiveTakers(st) == IF st.tag = Preview THEN st.preview ELSE st.takers

-----------------------------------------------------------------------------
(* External mutations; they are only allowed on an idle book.              *)

AddFragment(st, t) ==
    IF LowerBound[t.sid] > st.now
    THEN [st EXCEPT !.inactive = Insert(@, t)]
    ELSE [st EXCEPT !.takers = Insert(@, t)]

RemoveFragment(st, t) ==
    IF LowerBound[t.sid] > st.now
    THEN [st EXCEPT !.inactive = Erase(@, t)]
    ELSE [st EXCEPT !.takers = Erase(@, t)]

(* Mutant of AdvanceClocks: the slot after the new time is activated. *)
AdvanceClocksOffByOne(st, time) ==
    LET slot == {t \in st.inactive : LowerBound[t.sid] = time + 1}
    IN [st EXCEPT !.now = time,
                  !.inactive = @ \ slot,
                  !.takers = InsertAll(slot, @)]

(* The takers filed under the new time become active; the others stay      *)
(* where they are.  (with_updated_time returns every order unchanged.)     *)
AdvanceClocks(st, time) ==
    LET slot == {t \in st.inactive : LowerBound[t.sid] = time}
    IN [st EXCEPT !.now = time,
                  !.inactive = @ \ slot,
                  !.takers = InsertAll(slot, @)]

-----------------------------------------------------------------------------
(* Moves between the states.                                               *)

MoveIntoPartialPreview(st) ==
    [st EXCEPT !.tag = PartialPreview, !.intact = st.makers]

(* Mutant of MoveIntoPreview: the consumed takers are not returned to the  *)
(* untouched state.                                                        *)
MoveIntoPreviewForgets(st) ==
    IF st.tag = Preview THEN st
    ELSE [st EXCEPT !.tag = Preview,
                    !.preview = st.takers,
                    !.consumed = {},
                    !.intact = IF st.tag = Idle THEN st.makers ELSE @]

(* From PartialPreview the takers left over become the preview, and the    *)
(* consumed ones return to reconstruct the untouched takers.               *)
MoveIntoPreview(st) ==
    IF st.tag = Preview THEN st
    ELSE [st EXCEPT !.tag = Preview,
                    !.preview = st.takers,
                    !.takers = InsertAll(@, st.consumed),
                    !.consumed = {},
                    !.intact = IF st.tag = Idle THEN st.makers ELSE @]

(* pick_active_taker: t, chosen by the caller, leaves the active takers.   *)
PickTaker(st, t) ==
    IF st.tag = Preview THEN [st EXCEPT !.preview = Erase(@, t)]
    ELSE LET pp == IF st.tag = Idle THEN MoveIntoPartialPreview(st) ELSE st
         IN [pp EXCEPT !.takers = Erase(@, t), !.consumed = @ \cup {t}]

(* pick_maker: the maker leaves the preview of the makers. *)
PickMaker(st, m) ==
    LET pp == IF st.tag = Idle THEN MoveIntoPartialPreview(st) ELSE st
    IN [pp EXCEPT !.makers = RemovePool(@, m)]

PreAddTaker(st, t) ==
    LET pv == MoveIntoPreview(st)
    IN IF LowerBound[t.sid] > st.now
       THEN [pv EXCEPT !.changeset = @ \cup {t}]
       ELSE [pv EXCEPT !.preview = Insert(@, t)]

PreAddMaker(st, m) ==
    [MoveIntoPreview(st) EXCEPT !.makers = UpdatePool(@, m)]

-----------------------------------------------------------------------------
(* Settling.                                                               *)

(* Mutant of Commit: the stash is lost in Preview as well. *)
CommitLosesStash(st) ==
    [NewTLBState(st.now) EXCEPT
        !.takers = IF st.tag = Preview THEN st.preview ELSE st.takers,
        !.inactive = InsertAll(st.inactive, st.changeset),
        !.makers = st.makers]

(* A preview becomes the book and the stash returns to it; a partial       *)
(* preview becomes the book as it is, without its stash.                   *)
Commit(st) ==
    IF st.tag = Idle THEN st
    ELSE [NewTLBState(st.now) EXCEPT
             !.takers = IF st.tag = Preview
                        THEN InsertAll(st.preview, st.stashed)
                        ELSE st.takers,
             !.inactive = InsertAll(st.inactive, st.changeset),
             !.makers = st.makers]

(* The takers before the matchmaking, save the stashed ones. *)
UntouchedTakers(st) ==
    IF st.tag = PartialPreview THEN InsertAll(st.takers, st.consumed)
                               ELSE st.takers

(* Without a stash a rollback ends in Idle, with one in PartialPreview.    *)
Settled(st, takers, stashed) ==
    IF stashed = {}
    THEN [NewTLBState(st.now) EXCEPT
             !.takers = takers, !.inactive = st.inactive, !.makers = st.intact]
    ELSE [NewTLBState(st.now) EXCEPT
             !.tag = PartialPreview, !.takers = takers, !.stashed = stashed,
             !.inactive = st.inactive, !.makers = st.intact,
             !.intact = st.intact]

RollbackStash(st, toStash) ==
    IF st.tag = Idle THEN st
    ELSE Settled(st, EraseAll(UntouchedTakers(st), toStash),
                 st.stashed \cup toStash)

RollbackUnstash(st) ==
    IF st.tag = Idle THEN st
    ELSE Settled(st, InsertAll(UntouchedTakers(st), st.stashed), {})
=============================================================================
