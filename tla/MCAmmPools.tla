----------------------------- MODULE MCAmmPools -----------------------------
(***************************************************************************)
(* Every kind of pool on small reserves, fees in twentieths.               *)
(***************************************************************************)
EXTENDS AmmPools, TLC

MCDaoKeys == <<1, 2, 3>>
MCAmounts(kind) ==
  CASE kind \in Degens -> {1, 2, 4, 5, 7, 9}
    [] kind = "stable"               -> {5, 9, 11}
    [] kind \in Royalties            -> {4, 9}
    [] OTHER                         -> {1, 4, 17}
MCMaxTrades(kind) ==
  CASE kind \in Degens -> 5
    [] kind \in Royalties            -> 2
    [] OTHER                         -> 3

Val(ada, a, b, lq) == (Native :> ada) @@ ("a" :> a) @@ ("b" :> b) @@ ("lq" :> lq)
Datum(fields) == fields @@ [i \in 1 .. 18 |-> 0]
Out(kind, x, y, value, datum) ==
  [kind |-> kind, stake |-> 0, pair |-> <<x, y>>, value |-> value, datum |-> Datum(datum)]

FeeSwitchFields == 4 :> 18 @@ 5 :> 2 @@ 6 :> 3 @@ 7 :> 2 @@ 9 :> 5
RoyaltyFields == 4 :> 19 @@ 5 :> 1 @@ 6 :> 3 @@ 7 :> 2 @@ 8 :> 1 @@ 9 :> 3 @@ 10 :> 2 @@ 13 :> 5

MCPools == {
  Out("classic", "ada", "a", Val(24, 15, 0, 80), 4 :> 9 @@ 6 :> 5),
  Out("feeswitch", "a", "ada", Val(21, 20, 0, 80), FeeSwitchFields),
  Out("feeswitch", "a", "b", Val(3, 20, 14, 80), FeeSwitchFields),
  Out("bidir", "ada", "a", Val(20, 16, 0, 80), 4 :> 18 @@ 5 :> 17 @@ 6 :> 2 @@ 7 :> 1 @@ 8 :> 2),
  Out("royalty1", "ada", "a", Val(26, 20, 0, 80), RoyaltyFields),
  Out("royalty1f", "b", "a", Val(3, 20, 17, 80), RoyaltyFields),
  Out("royalty2", "a", "ada", Val(25, 22, 0, 80),
      4 :> 19 @@ 5 :> 1 @@ 6 :> 2 @@ 7 :> 3 @@ 8 :> 2 @@ 9 :> 1 @@ 10 :> 3 @@ 11 :> 2 @@ 12 :> 4 @@ 13 :> 2
        @@ 16 :> 5 @@ 17 :> 6),
  Out("balance", "ada", "a", Val(12, 9, 0, 93), 4 :> 18 @@ 5 :> 2 @@ 6 :> 1 @@ 7 :> 1),
  Out("stable", "a", "b", Val(3, 24, 20, 80), 1 :> 80 @@ 4 :> 1 @@ 5 :> 1 @@ 9 :> 1 @@ 10 :> 1 @@ 13 :> 1),
  Out("degen", "ada", "a", Val(9, 8, 0, 0), 3 :> 1 @@ 4 :> 1 @@ 5 :> 7 @@ 6 :> 40),
  Out("degenT2t", "a", "b", Val(3, 7, 8, 0), 3 :> 1 @@ 4 :> 1 @@ 5 :> 7 @@ 6 :> 40),
  Out("degenT2t", "b", "a", Val(3, 8, 7, 0), 3 :> 1 @@ 4 :> 1 @@ 5 :> 7 @@ 6 :> 40)}

-----------------------------------------------------------------------------
NoOrder == [id |-> 0, type |-> "deposit", value |-> Val(5, 0, 0, 0), fee |-> 3, collateral |-> 2,
            dx |-> 0, dy |-> 0, sig |-> 0, sigs |-> <<>>, nonce |-> 0, action |-> "", new |-> 0]

Deposits(p) ==
  {[NoOrder EXCEPT !.value = [a \in Assets |-> @[a] + (IF a = p.x THEN n[1] ELSE 0) + (IF a = p.y THEN n[2] ELSE 0)]]
     : n \in {<<5, 3>>, <<2, 6>>}}
Redeems == {[NoOrder EXCEPT !.type = "redeem", !.value = Val(5, 0, 0, n)] : n \in {3, 7}}
Royalty(p) ==
  {[NoOrder EXCEPT !.type = "royalty", !.dx = n[1], !.dy = n[2], !.sig = k, !.nonce = p.nonce]
     : n \in {<<1, 2>>, <<4, 0>>}, k \in {5, 6}}
Dao(p, action, dx, dy, new, sigs) ==
  [NoOrder EXCEPT !.type = "dao", !.action = action, !.dx = dx, !.dy = dy, !.new = new,
                  !.sigs = sigs, !.nonce = p.nonce]
Daos(p) == {
  Dao(p, "WithdrawTreasury", 1, 1, 0, <<1, 2>>), Dao(p, "WithdrawTreasury", 2, 0, 0, <<0, 2, 3>>),
  Dao(p, "WithdrawTreasury", 1, 0, 0, <<2, 1>>),
  Dao(p, "ChangeStakePart", 0, 0, 4, <<1, 2, 3>>), Dao(p, "ChangeStakePart", 0, 0, 0, <<1, 2>>),
  Dao(p, "ChangeTreasuryFee", 0, 0, 3, <<1, 2>>), Dao(p, "ChangePoolFee", 0, 0, 17, <<1, 2>>),
  Dao(p, "ChangeTreasuryAddress", 0, 0, 8, <<1, 2>>), Dao(p, "ChangeAdminAddress", 0, 0, 9, <<1, 2>>)}

MCMenu(p) ==
  Deposits(p) \cup Redeems \cup
    (IF p.kind \in Royalties THEN Royalty(p) \cup Daos(p)
     ELSE {[NoOrder EXCEPT !.type = t, !.sig = 5, !.sigs = <<1, 2>>, !.action = "ChangePoolFee"] : t \in {"royalty", "dao"}})
=============================================================================
