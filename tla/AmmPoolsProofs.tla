--------------------------- MODULE AmmPoolsProofs ---------------------------
(***************************************************************************)
(* The bot's copy of a pool and the output it stands for say the same,     *)
(* through every trade, every order and every rereading; and no signature  *)
(* is used twice.                                                          *)
(***************************************************************************)
EXTENDS AmmPools, AmmProofs, FiniteSetTheorems

-----------------------------------------------------------------------------
(* Orders                                                                   *)

LEMMA DepositFrame ==
  ASSUME NEW p, IsPool(p), p.kind \notin Degens, NEW o, NEW r \in ApplyDeposit(p, o)
  PROVE  r.pool = [f \in Fields |-> r.pool[f]] /\ Same(p, r.pool, Fields \ {"rx", "ry", "lq"})
<1>1. ASSUME NEW netX, NEW netY, NEW w, r \in DepositResult(p, o, netX, netY, w)
      PROVE  r.pool = [f \in Fields |-> r.pool[f]] /\ Same(p, r.pool, Fields \ {"rx", "ry", "lq"})
  <2> DEFINE q == [p EXCEPT !.rx = @ + netX - w.changeX, !.ry = @ + netY - w.changeY, !.lq = @ + w.unlocked]
  <2>1. q = [f \in Fields |-> q[f]]  BY Zenon DEF IsPool, Fields
  <2>2. Same(p, q, Fields \ {"rx", "ry", "lq"})  BY Zenon DEF IsPool, Fields, Same
  <2>3. r.pool = q  BY <1>1 DEF DepositResult, Applied
  <2> QED  BY <2>1, <2>2, <2>3
<1>2. PICK net : \/ p.kind \in ConstFn /\ r \in ConstFnDeposit(p, o, net[1], net[2])
                 \/ p.kind = "balance" /\ r \in BalanceDeposit(p, o, net[1], net[2])
                 \/ p.kind = "stable" /\ r \in StableDeposit(p, o, net[1], net[2])
  <2>1. PICK net : r \in CASE p.kind \in ConstFn -> ConstFnDeposit(p, o, net[1], net[2])
                           [] p.kind = "balance" -> BalanceDeposit(p, o, net[1], net[2])
                           [] p.kind = "stable"  -> StableDeposit(p, o, net[1], net[2])
    BY Zenon DEF ApplyDeposit
  <2>2. p.kind \in ConstFn \/ p.kind = "balance" \/ p.kind = "stable"  BY DEF IsPool, Kinds
  <2> QED  BY <2>1, <2>2
<1> QED  BY <1>1, <1>2 DEF ConstFnDeposit, BalanceDeposit, StableDeposit

LEMMA RedeemFrame ==
  ASSUME NEW p, IsPool(p), p.kind \notin Degens, NEW o, NEW r \in ApplyRedeem(p, o)
  PROVE  r.pool = [f \in Fields |-> r.pool[f]] /\ Same(p, r.pool, Fields \ {"rx", "ry", "lq"})
<1>1. ASSUME NEW outX, NEW outY, r \in RedeemResult(p, o, outX, outY)
      PROVE  r.pool = [f \in Fields |-> r.pool[f]] /\ Same(p, r.pool, Fields \ {"rx", "ry", "lq"})
  <2> DEFINE q == [p EXCEPT !.rx = @ - outX, !.ry = @ - outY, !.lq = @ - o.value["lq"]]
  <2>1. q = [f \in Fields |-> q[f]]  BY Zenon DEF IsPool, Fields
  <2>2. Same(p, q, Fields \ {"rx", "ry", "lq"})  BY Zenon DEF IsPool, Fields, Same
  <2>3. r.pool = q  BY <1>1 DEF RedeemResult, Applied
  <2> QED  BY <2>1, <2>2, <2>3
<1>2. r \in ConstFnRedeem(p, o) \/ r \in BalanceRedeem(p, o) \/ r \in StableRedeem(p, o)
  <2>1. p.kind \in ConstFn \/ p.kind = "balance" \/ p.kind = "stable"  BY DEF IsPool, Kinds
  <2> QED  BY <2>1 DEF ApplyRedeem
<1> QED  BY <1>1, <1>2 DEF ConstFnRedeem, BalanceRedeem, StableRedeem

\* A withdrawal of royalties bears the nonce of the pool and moves it on.
LEMMA RoyaltyFrame ==
  ASSUME NEW p, IsPool(p), NEW o, NEW r \in ApplyRoyalty(p, o)
  PROVE  LET q == r.pool
         IN  /\ p.kind \in Royalties /\ o.nonce = p.nonce /\ q.nonce = p.nonce + 1
             /\ q = [f \in Fields |-> q[f]]
             /\ Same(p, q, {"kind", "x", "y", "key1", "key2", "lqBound", "fx", "fy"})
             /\ p.kind # "royalty2" => Same(p, q, Second)
<1> DEFINE q == r.pool
           Kept == {"kind", "x", "y", "key1", "key2", "lqBound", "fx", "fy"}
           first == [p EXCEPT !.rx = @ - o.dx, !.r1x = @ - o.dx, !.ry = @ - o.dy, !.r1y = @ - o.dy, !.nonce = @ + 1]
           second == [p EXCEPT !.rx = @ - o.dx, !.r2x = @ - o.dx, !.ry = @ - o.dy, !.r2y = @ - o.dy, !.nonce = @ + 1]
<1>1. /\ first = [f \in Fields |-> first[f]] /\ Same(p, first, Kept) /\ Same(p, first, Second)
      /\ first.nonce = p.nonce + 1
  <2>1. DOMAIN first = Fields /\ first = [f \in DOMAIN first |-> first[f]]  BY Zenon DEF IsPool
  <2>2. Same(p, first, Kept)  BY Zenon DEF IsPool, Fields, Same
  <2>3. Same(p, first, Second)  BY Zenon DEF IsPool, Fields, Same, Second
  <2>4. first.nonce = p.nonce + 1  BY DEF IsPool, Fields
  <2> QED  BY <2>1, <2>2, <2>3, <2>4
<1>2. second = [f \in Fields |-> second[f]] /\ Same(p, second, Kept) /\ second.nonce = p.nonce + 1
  <2>1. DOMAIN second = Fields /\ second = [f \in DOMAIN second |-> second[f]]  BY Zenon DEF IsPool
  <2>2. Same(p, second, Kept)  BY Zenon DEF IsPool, Fields, Same
  <2>3. second.nonce = p.nonce + 1  BY DEF IsPool, Fields
  <2> QED  BY <2>1, <2>2, <2>3
<1> HIDE DEF first, second
<1>3. ASSUME p.kind \in {"royalty1", "royalty1f"} PROVE q = first /\ o.nonce = p.nonce
  <2>1. r \in ApplyRoyaltyV1(p, o)  BY <1>3 DEF ApplyRoyalty
  <2> QED  BY <2>1 DEF ApplyRoyaltyV1, Applied, Verifies, first
<1>4. ASSUME p.kind = "royalty2" PROVE (q = first \/ q = second) /\ o.nonce = p.nonce
  <2>1. r \in ApplyRoyaltyV2(p, o)  BY <1>4 DEF ApplyRoyalty
  <2> QED  BY <2>1 DEF ApplyRoyaltyV2, Applied, Verifies, first, second
<1>5. p.kind \in {"royalty1", "royalty1f"} \/ p.kind = "royalty2"  BY Zenon DEF ApplyRoyalty
<1> QED  BY <1>1, <1>2, <1>3, <1>4, <1>5 DEF Royalties

\* A good signature covers the nonce of the pool; the threshold asks for one.
LEMMA SignedForNonce ==
  ASSUME NEW p, NEW o, ~ (GoodSignatures(p, o) < Threshold)
  PROVE  o.nonce = p.nonce
<1> DEFINE good == {i \in DOMAIN o.sigs \cap DOMAIN DaoKeys : Verifies(o, o.sigs[i], DaoKeys[i], p)}
<1>1. ASSUME good = {} PROVE FALSE
  <2>1. GoodSignatures(p, o) = 0  BY <1>1, FS_EmptySet DEF GoodSignatures
  <2> QED  BY <2>1, AmmPoolsAssumption DEF AmmPoolsAssumption
<1> QED  BY <1>1 DEF Verifies

\* A request of the DAO bears the nonce of the pool and moves it on.
LEMMA DaoFrame ==
  ASSUME NEW p, NEW o \in Orders, NEW r \in ApplyDao(p, o), IsPool(p), o.type = "dao", p.fx = p.fy
  PROVE  LET q == r.pool
         IN  /\ p.kind \in Royalties /\ o.nonce = p.nonce /\ q.nonce = p.nonce + 1
             /\ q = [f \in Fields |-> q[f]]
             /\ Same(p, q, {"kind", "x", "y", "key1", "key2", "lqBound"} \cup Second) /\ q.fx = q.fy
<1> DEFINE Kept == {"kind", "x", "y", "key1", "key2", "lqBound", "nonce"} \cup Second
<1>1. /\ p.kind \in Royalties /\ ~ (GoodSignatures(p, o) < Threshold)
      /\ \E c \in DaoChange(p, o) : r.pool = [c EXCEPT !.nonce = @ + 1]
  BY DEF ApplyDao, RoyaltyPoolDao, Applied
<1>2. PICK c \in DaoChange(p, o) : r.pool = [c EXCEPT !.nonce = @ + 1]  BY <1>1
<1>3. c = [f \in Fields |-> c[f]] /\ Same(p, c, Kept) /\ c.fx = c.fy
  <2>1. o.action \in DaoActions  BY Zenon DEF Orders
  <2>2. CASE o.action = "WithdrawTreasury"
    <3> DEFINE w == [p EXCEPT !.rx = @ - o.dx, !.tx = @ - o.dx, !.ry = @ - o.dy, !.ty = @ - o.dy]
    <3>1. c = w  BY <2>2 DEF DaoChange
    <3>2. DOMAIN w = Fields /\ w = [f \in DOMAIN w |-> w[f]]  BY Zenon DEF IsPool
    <3>3. Same(p, w, Kept)  BY Zenon DEF IsPool, Fields, Same, Second
    <3>4. w.fx = p.fx /\ w.fy = p.fy  BY DEF IsPool, Fields
    <3> HIDE DEF w
    <3> QED  BY <3>1, <3>2, <3>3, <3>4
  <2>3. CASE o.action = "ChangeStakePart"
    <3>1. c = [p EXCEPT !.stake = o.new]  BY <2>3 DEF DaoChange
    <3> QED  BY <3>1 DEF IsPool, Fields, Same, Second
  <2>4. CASE o.action = "ChangeTreasuryFee"
    <3>1. c = [p EXCEPT !.tf = o.new]  BY <2>4 DEF DaoChange
    <3> QED  BY <3>1 DEF IsPool, Fields, Same, Second
  <2>5. CASE o.action = "ChangeTreasuryAddress"
    <3>1. c = [p EXCEPT !.taddr = o.new]  BY <2>5 DEF DaoChange
    <3> QED  BY <3>1 DEF IsPool, Fields, Same, Second
  <2>6. CASE o.action = "ChangeAdminAddress"
    <3>1. c = [p EXCEPT !.admin = o.new]  BY <2>6 DEF DaoChange
    <3> QED  BY <3>1 DEF IsPool, Fields, Same, Second
  <2>7. CASE o.action = "ChangePoolFee"
    <3>1. c = [p EXCEPT !.fx = o.new, !.fy = o.new]  BY <2>7 DEF DaoChange
    <3> QED  BY <3>1, Zenon DEF IsPool, Fields, Same, Second
  <2> QED  BY <2>1, <2>2, <2>3, <2>4, <2>5, <2>6, <2>7 DEF DaoActions
<1>4. LET q == r.pool
      IN  /\ q = [f \in Fields |-> q[f]] /\ Same(c, q, Fields \ {"nonce"}) /\ q.nonce = c.nonce + 1
  BY <1>2, <1>3 DEF Fields, Same
<1>5. c.nonce = p.nonce  BY <1>3 DEF Same
<1>6. r.pool.fx = c.fx /\ r.pool.fy = c.fy  BY <1>4 DEF Same, Fields
<1>7. Same(p, r.pool, {"kind", "x", "y", "key1", "key2", "lqBound"} \cup Second)
  BY <1>3, <1>4 DEF Same, Fields, Second
<1> QED  BY <1>1, <1>3, <1>4, <1>5, <1>6, <1>7, SignedForNonce

\* Every order leaves the fixed part of the pool alone.
LEMMA ApplyFixed ==
  ASSUME NEW u, NEW p, DatumRead(u, p), p.kind \notin Degens, NEW o \in Orders, NEW r \in Apply(p, o)
  PROVE  LET q == r.pool
         IN  /\ IsPool(q) /\ Fixed(u, q) /\ StakeRead(q) /\ Same(p, q, {"kind", "x", "y"})
             /\ q.kind \in Royalties => q.fx = q.fy
             /\ o.type \in {"royalty", "dao"} =>
                  p.kind \in Royalties /\ o.nonce = p.nonce /\ q.nonce = p.nonce + 1
             /\ o.type \notin {"royalty", "dao"} => q.nonce = p.nonce
<1> DEFINE q == r.pool
<1>1. /\ IsPool(p) /\ Fixed(u, p) /\ Written(u, p) /\ StakeRead(p)  BY DEF DatumRead
<1>2. p.kind \in Royalties => p.fx = p.fy /\ p.kind \notin {"balance", "stable"} \cup Degens
  BY <1>1 DEF Written, Royalties, Degens
<1>3. \/ o.type = "deposit" /\ r \in ApplyDeposit(p, o)
      \/ o.type = "redeem" /\ r \in ApplyRedeem(p, o)
      \/ o.type = "royalty" /\ r \in ApplyRoyalty(p, o)
      \/ o.type = "dao" /\ r \in ApplyDao(p, o)
  <2>1. \/ p.kind \in ConstFn /\ r \in ConstFnApply(p, o)
        \/ p.kind = "balance" /\ r \in BalanceApply(p, o)
        \/ p.kind = "stable" /\ r \in StableApply(p, o)
    <3>1. p.kind \in ConstFn \/ p.kind = "balance" \/ p.kind = "stable"  BY <1>1 DEF IsPool, Kinds
    <3> QED  BY <3>1 DEF Apply
  <2>2. o.type = "deposit" \/ o.type = "redeem" \/ o.type = "royalty" \/ o.type = "dao"  BY Zenon DEF Orders
  <2>3. CASE r \in ConstFnApply(p, o)  BY <2>2, <2>3 DEF ConstFnApply
  <2>4. CASE r \in BalanceApply(p, o)  BY <2>2, <2>4, Zenon DEF BalanceApply
  <2>5. CASE r \in StableApply(p, o)  BY <2>2, <2>5, Zenon DEF StableApply
  <2> QED  BY <2>1, <2>3, <2>4, <2>5
<1>4. CASE (o.type = "deposit" /\ r \in ApplyDeposit(p, o)) \/ (o.type = "redeem" /\ r \in ApplyRedeem(p, o))
  <2>1. q = [f \in Fields |-> q[f]] /\ Same(p, q, Fields \ {"rx", "ry", "lq"})
    BY <1>1, <1>4, DepositFrame, RedeemFrame
  <2>2. IsPool(q) /\ Fixed(u, q) /\ Same(p, q, {"kind", "x", "y", "fx", "fy", "nonce", "stake"})
    BY <1>1, <2>1, LiquidityFixed
  <2>3. q.kind = p.kind /\ q.fx = p.fx /\ q.fy = p.fy /\ q.nonce = p.nonce /\ q.stake = p.stake
    BY <2>2 DEF Same
  <2>4. StakeRead(q)  BY <1>1, <2>3 DEF StakeRead
  <2> QED  BY <1>2, <1>4, <2>2, <2>3, <2>4 DEF Same
<1>5. CASE o.type = "royalty" /\ r \in ApplyRoyalty(p, o)
  <2>1. /\ p.kind \in Royalties /\ o.nonce = p.nonce /\ q.nonce = p.nonce + 1 /\ q = [f \in Fields |-> q[f]]
        /\ Same(p, q, {"kind", "x", "y", "key1", "key2", "lqBound", "fx", "fy"})
        /\ p.kind # "royalty2" => Same(p, q, Second)
    BY <1>1, <1>5, RoyaltyFrame
  <2>2. Same(p, q, {"kind", "x", "y", "key1", "key2", "lqBound"}) /\ q.fx = p.fx /\ q.fy = p.fy /\ q.kind = p.kind
    BY <2>1 DEF Same
  <2>3. IsPool(q) /\ Fixed(u, q)  BY <1>1, <2>1, <2>2, RoyaltyFixed
  <2>4. StakeRead(q)  BY <1>2, <2>1, <2>2 DEF StakeRead
  <2> QED  BY <1>2, <1>5, <2>1, <2>2, <2>3, <2>4 DEF Same
<1>6. CASE o.type = "dao" /\ r \in ApplyDao(p, o)
  <2>0. p.kind \in Royalties /\ p.fx = p.fy  BY <1>2, <1>6 DEF ApplyDao
  <2>1. /\ o.nonce = p.nonce /\ q.nonce = p.nonce + 1 /\ q = [f \in Fields |-> q[f]]
        /\ Same(p, q, {"kind", "x", "y", "key1", "key2", "lqBound"} \cup Second) /\ q.fx = q.fy
    BY <1>1, <1>6, <2>0, DaoFrame, Zenon
  <2>2. Same(p, q, {"kind", "x", "y", "key1", "key2", "lqBound"}) /\ Same(p, q, Second) /\ q.kind = p.kind
    BY <2>1, Zenon DEF Same
  <2>3. IsPool(q) /\ Fixed(u, q)  BY <1>1, <2>0, <2>1, <2>2, RoyaltyFixed
  <2>4. StakeRead(q)  BY <1>2, <2>0, <2>2 DEF StakeRead
  <2> QED  BY <1>6, <2>0, <2>1, <2>2, <2>3, <2>4 DEF Same
<1> QED  BY <1>3, <1>4, <1>5, <1>6

-----------------------------------------------------------------------------
(* The output and the copy through every step                               *)

\* The requests executed so far bear different nonces, all used up.
NoncesSpent ==
  /\ signed \in Seq(Nat) /\ SignedOnce
  /\ mem.kind \in Royalties => mem.nonce \in Nat /\ \A i \in DOMAIN signed : signed[i] < mem.nonce
  /\ mem.kind \notin Royalties => signed = <<>>

PoolInv ==
  /\ DatumRead(utxo, mem) /\ utxo.kind \in Kinds
  /\ orders \subseteq Orders /\ placed \in Nat
  /\ orders # {} => mem.kind \notin Degens
  /\ NoncesSpent

LEMMA OutputShape ==
  ASSUME NEW u \in Outputs
  PROVE  IsOutput(u) /\ u.kind \in Kinds
BY DEF Outputs, IsOutput

LEMMA PoolInit == Init => PoolInv
<1> SUFFICES ASSUME Init PROVE PoolInv  OBVIOUS
<1>1. utxo \in Outputs /\ mem \in FromLedger(utxo)  BY AmmPoolsAssumption DEF Init, AmmPoolsAssumption
<1>2. IsOutput(utxo) /\ utxo.kind \in Kinds  BY <1>1, OutputShape
<1>3. DatumRead(utxo, mem)  BY <1>1, <1>2, FromLedgerReads
<1>4. mem.kind \in Royalties => mem.nonce \in Nat
  <2>1. Written(utxo, mem) /\ utxo.datum \in [1 .. 18 -> Nat]  BY <1>1, <1>3 DEF DatumRead, Outputs
  <2> QED  BY <2>1 DEF Written, Royalties
<1>5. orders = {} /\ placed = 0 /\ signed = <<>>  BY DEF Init
<1> QED  BY <1>2, <1>3, <1>4, <1>5 DEF PoolInv, NoncesSpent, SignedOnce

LEMMA TradeStep ==
  ASSUME PoolInv, NEW side, NEW amount \in Nat, Trade(side, amount)
  PROVE  /\ PoolInv' /\ Same(mem, mem', {"kind", "x", "y", "lq", "nonce"})
         /\ utxo'.pair = utxo.pair /\ utxo'.value = Traded(utxo, mem, mem')
<1>1. /\ IsOutput(utxo) /\ IsPool(mem) /\ Fixed(utxo, mem) /\ Written(utxo, mem) /\ StakeRead(mem)
  BY DEF PoolInv, DatumRead
<1>2. mem' = SwapPool(mem, side, amount) /\ utxo' = PoolExec(utxo, mem, mem')  BY DEF Trade
<1>3. IsPool(mem') /\ Fixed(utxo, mem') /\ Same(mem, mem', {"kind", "x", "y", "lq", "fx", "fy", "nonce", "stake"})
  BY <1>1, <1>2, SwapFixed
<1>4. /\ mem'.kind = mem.kind /\ mem'.fx = mem.fx /\ mem'.fy = mem.fy /\ mem'.nonce = mem.nonce
      /\ mem'.stake = mem.stake
  BY <1>3 DEF Same
<1>5. /\ utxo' = [f \in {"kind", "stake", "pair", "value", "datum"} |-> utxo'[f]]
      /\ utxo'.kind = utxo.kind /\ utxo'.pair = utxo.pair
      /\ utxo'.value = Traded(utxo, mem, mem') /\ utxo'.datum = KindDatum(utxo.datum, mem')
  BY <1>1, <1>2, <1>4, ExecOutput
<1>6. utxo'.value = [a \in Assets |-> utxo'.value[a]]  BY <1>1, <1>5, Zenon DEF IsOutput, Traded
<1>7. StakeRead(mem')  BY <1>1, <1>4 DEF StakeRead
<1>8. mem'.kind \in Royalties => mem'.fx = mem'.fy  BY <1>1, <1>4 DEF Written, Royalties
<1>9. DatumRead(utxo', mem')  BY <1>1, <1>3, <1>5, <1>6, <1>7, <1>8, OutputHolds
<1>10. UNCHANGED <<orders, signed, placed>>  BY DEF Trade
<1>11. PoolInv'  BY <1>4, <1>5, <1>9, <1>10 DEF PoolInv, NoncesSpent, SignedOnce
<1> QED  BY <1>3, <1>5, <1>11 DEF Same

LEMMA PlaceStep ==
  ASSUME PoolInv, NEW o, Place(o)
  PROVE  PoolInv'
<1>1. o \in Orders /\ placed \in Nat /\ mem.kind \notin Degens  BY DEF Place, PoolInv
<1>2. [o EXCEPT !.id = placed] \in Orders  BY <1>1, Zenon DEF Orders
<1>3. orders' = orders \cup {[o EXCEPT !.id = placed]} /\ placed' = placed + 1 /\ UNCHANGED <<utxo, mem, signed>>
  BY DEF Place
<1>4. DatumRead(utxo, mem)' /\ NoncesSpent'  BY <1>3 DEF PoolInv, NoncesSpent, SignedOnce
<1> QED  BY <1>1, <1>2, <1>3, <1>4 DEF PoolInv

LEMMA ExecuteStep ==
  ASSUME PoolInv, NEW o \in orders, Execute(o)
  PROVE  /\ PoolInv' /\ Same(mem, mem', {"kind", "x", "y"}) /\ mem'.kind \notin Degens
         /\ utxo'.pair = utxo.pair /\ utxo'.value = PoolValue(mem', utxo)
<1>1. /\ DatumRead(utxo, mem) /\ IsOutput(utxo) /\ o \in Orders /\ mem.kind \notin Degens
  BY DEF PoolInv, DatumRead
<1>2. PICK t \in RunOrder(utxo, mem, o) :
        /\ mem' = t.pool /\ utxo' = t.utxo
        /\ signed' = IF o.type \in {"royalty", "dao"} THEN Append(signed, o.nonce) ELSE signed
        /\ orders' = orders \ {o} /\ UNCHANGED <<trades, placed>>
  BY DEF Execute
<1>3. PICK r \in Apply(mem, o) : mem' = r.pool /\ utxo' = IntoLedger(r.pool, utxo)
  BY <1>2 DEF RunOrder
<1>4. /\ IsPool(mem') /\ Fixed(utxo, mem') /\ StakeRead(mem') /\ Same(mem, mem', {"kind", "x", "y"})
      /\ mem'.kind \in Royalties => mem'.fx = mem'.fy
      /\ o.type \in {"royalty", "dao"} =>
           mem.kind \in Royalties /\ o.nonce = mem.nonce /\ mem'.nonce = mem.nonce + 1
      /\ o.type \notin {"royalty", "dao"} => mem'.nonce = mem.nonce
  BY <1>1, <1>3, ApplyFixed
<1>5. mem'.kind = mem.kind  BY <1>4 DEF Same
<1>6. /\ utxo' = [f \in {"kind", "stake", "pair", "value", "datum"} |-> utxo'[f]]
      /\ utxo'.kind = utxo.kind /\ utxo'.pair = utxo.pair
      /\ utxo'.value = PoolValue(mem', utxo) /\ utxo'.datum = KindDatum(utxo.datum, mem')
  BY <1>1, <1>3, <1>4, <1>5, IntoLedgerOutput
<1>7. utxo'.value = [a \in Assets |-> utxo'.value[a]]  BY <1>6 DEF PoolValue
<1>8. DatumRead(utxo', mem')  BY <1>1, <1>4, <1>6, <1>7, OutputHolds
<1>9. NoncesSpent'
  <2>1. /\ signed \in Seq(Nat) /\ \A i, j \in DOMAIN signed : signed[i] = signed[j] => i = j
        /\ mem.kind \in Royalties => mem.nonce \in Nat /\ \A i \in DOMAIN signed : signed[i] < mem.nonce
        /\ mem.kind \notin Royalties => signed = <<>>
    BY DEF PoolInv, NoncesSpent, SignedOnce
  <2>2. CASE o.type \in {"royalty", "dao"}
    <3>1. signed' = Append(signed, mem.nonce) /\ mem.nonce \in Nat /\ mem'.nonce = mem.nonce + 1
      BY <1>2, <1>4, <2>1, <2>2
    <3>2. /\ signed' \in Seq(Nat) /\ DOMAIN signed' = 1 .. Len(signed) + 1 /\ DOMAIN signed = 1 .. Len(signed)
          /\ \A i \in DOMAIN signed : signed'[i] = signed[i]
          /\ signed'[Len(signed) + 1] = mem.nonce /\ Len(signed) \in Nat
      BY <2>1, <3>1
    <3>3. \A i \in DOMAIN signed' : i \in DOMAIN signed \/ i = Len(signed) + 1  BY <3>2
    <3>4. \A i \in DOMAIN signed' : signed'[i] < mem'.nonce
      <4> TAKE i \in DOMAIN signed'
      <4>1. CASE i \in DOMAIN signed
        <5>1. signed[i] \in Nat  BY <2>1, <4>1
        <5> QED  BY <1>4, <2>1, <2>2, <3>1, <3>2, <4>1, <5>1
      <4>2. CASE i = Len(signed) + 1  BY <3>1, <3>2, <4>2
      <4> QED  BY <3>3, <4>1, <4>2
    <3>5. \A i, j \in DOMAIN signed' : signed'[i] = signed'[j] => i = j
      <4>1. \A i \in DOMAIN signed : signed'[i] # mem.nonce
        BY <1>4, <2>1, <2>2, <3>1, <3>2
      <4> QED  BY <2>1, <3>2, <3>3, <4>1, Zenon
    <3> QED  BY <1>4, <1>5, <2>2, <3>1, <3>2, <3>4, <3>5 DEF NoncesSpent, SignedOnce
  <2>3. CASE o.type \notin {"royalty", "dao"}
    BY <1>2, <1>4, <1>5, <2>1, <2>3 DEF NoncesSpent, SignedOnce
  <2> QED  BY <2>2, <2>3
<1>10. PoolInv'  BY <1>1, <1>2, <1>5, <1>6, <1>8, <1>9 DEF PoolInv
<1> QED  BY <1>1, <1>4, <1>5, <1>6, <1>10

LEMMA RereadStep ==
  ASSUME PoolInv, Reread
  PROVE  PoolInv'
<1>1. mem' \in FromLedger(utxo) /\ UNCHANGED <<utxo, orders, signed, placed>>  BY DEF Reread
<1>2. DatumRead(utxo, mem) /\ IsOutput(utxo) /\ utxo.kind \in Kinds  BY DEF PoolInv, DatumRead
<1>3. DatumRead(utxo, mem')  BY <1>1, <1>2, FromLedgerReads
<1>4. mem'.kind = mem.kind  BY <1>2, <1>3, Zenon DEF DatumRead, Fixed
<1>5. mem.kind \in Royalties => mem'.nonce = mem.nonce
  <2>1. Written(utxo, mem) /\ Written(utxo, mem')  BY <1>2, <1>3 DEF DatumRead
  <2>2. CASE mem.kind \in {"royalty1", "royalty1f"}  BY <1>4, <2>1, <2>2 DEF Written
  <2>3. CASE mem.kind = "royalty2"  BY <1>4, <2>1, <2>3 DEF Written
  <2> QED  BY <2>2, <2>3 DEF Royalties
<1>6. DatumRead(utxo, mem)'  BY <1>1, <1>3
<1> QED  BY <1>1, <1>4, <1>5, <1>6 DEF PoolInv, NoncesSpent, SignedOnce

LEMMA PoolNext == PoolInv /\ [Next]_vars => PoolInv'
<1> SUFFICES ASSUME PoolInv, [Next]_vars PROVE PoolInv'  OBVIOUS
<1>1. ASSUME NEW side \in Sides, NEW amount \in Amounts(mem.kind), Trade(side, amount) PROVE PoolInv'
  <2>1. mem.kind \in Kinds  BY DEF PoolInv, DatumRead, IsPool
  <2>2. amount \in Nat  BY <2>1, AmmPoolsAssumption DEF AmmPoolsAssumption
  <2> QED  BY <1>1, <2>2, TradeStep
<1>2. ASSUME NEW o \in Menu(mem), Place(o) PROVE PoolInv'  BY <1>2, PlaceStep
<1>3. ASSUME NEW o \in orders, Execute(o) PROVE PoolInv'  BY <1>3, ExecuteStep
<1>4. ASSUME NEW o \in orders, Refuse(o) PROVE PoolInv'
  <2>1. orders' = orders \ {o} /\ UNCHANGED <<utxo, mem, signed, placed>>  BY <1>4 DEF Refuse
  <2> QED  BY <2>1 DEF PoolInv, NoncesSpent, SignedOnce
<1>5. CASE Reread  BY <1>5, RereadStep
<1>6. CASE UNCHANGED vars  BY <1>6 DEF vars, PoolInv, NoncesSpent, SignedOnce
<1> QED  BY <1>1, <1>2, <1>3, <1>4, <1>5, <1>6 DEF Next

\* Signatures are good for one transaction, whatever the pool and the requests:
\* the nonce a request of the DAO or a withdrawal of royalties was signed for
\* (dao_request.rs, royalty_withdraw_request.rs) is spent with it, in the copy
\* and in the datum the copy is read from again.
THEOREM SignaturesSpent == Spec => []SignedOnce
<1>1. PoolInv => SignedOnce  BY DEF PoolInv, NoncesSpent
<1> QED  BY <1>1, PoolInit, PoolNext, PTL DEF Spec

-----------------------------------------------------------------------------
(* The value of the output                                                  *)

LEMMA ValueInit == Init => ValueRead(utxo, mem)
<1> SUFFICES ASSUME Init PROVE ValueRead(utxo, mem)  OBVIOUS
<1>1. utxo \in Outputs /\ mem \in FromLedger(utxo)  BY AmmPoolsAssumption DEF Init, AmmPoolsAssumption
<1>2. IsOutput(utxo) /\ utxo.kind \in Kinds  BY <1>1, OutputShape
<1>3. /\ mem.rx = utxo.value[mem.x] /\ mem.ry = utxo.value[mem.y]
      /\ mem.kind \notin Degens => mem.lq = Minus(MaxLqCap, utxo.value["lq"])
  BY <1>1, <1>2, FromLedgerReads
<1>4. utxo.value["lq"] \in 0 .. Word - 1  BY <1>1 DEF Outputs, Assets
<1> QED  BY <1>3, <1>4, WordArithmetic, AmmPoolsAssumption DEF AmmPoolsAssumption, ValueRead

LEMMA ValueNext ==
  ASSUME PoolInv, ValueRead(utxo, mem), Words, Words', [Next]_vars
  PROVE  ValueRead(utxo, mem)'
<1>1. DatumRead(utxo, mem) /\ mem.kind \in Kinds  BY DEF PoolInv, DatumRead, IsPool
<1>2. /\ mem.x \in Assets /\ mem.y \in Assets /\ mem.x # mem.y /\ mem.x # "lq" /\ mem.y # "lq" /\ "lq" \in Assets
      /\ DOMAIN utxo.value = Assets /\ mem.x = utxo.pair[1] /\ mem.y = utxo.pair[2]
  BY <1>1, PoolPair
<1>3. /\ utxo.value[mem.x] = mem.rx /\ utxo.value[mem.y] = mem.ry
      /\ mem.kind \notin Degens => utxo.value["lq"] = Minus(MaxLqCap, mem.lq)
      /\ mem.rx \in Int /\ mem.ry \in Int /\ mem.lq \in 0 .. Word - 1
      /\ mem'.rx \in 0 .. Word - 1 /\ mem'.ry \in 0 .. Word - 1
  BY DEF ValueRead, Words
<1>4. ASSUME NEW side \in Sides, NEW amount \in Amounts(mem.kind), Trade(side, amount)
      PROVE  ValueRead(utxo, mem)'
  <2>1. amount \in Nat  BY <1>1, AmmPoolsAssumption DEF AmmPoolsAssumption
  <2>2. /\ mem'.kind = mem.kind /\ mem'.x = mem.x /\ mem'.y = mem.y /\ mem'.lq = mem.lq
        /\ utxo'.value = Traded(utxo, mem, mem')
    BY <1>4, <2>1, TradeStep DEF Same
  <2>3. /\ utxo'.value[mem.x] = Minus(mem.rx + mem'.rx, mem.rx) /\ utxo'.value[mem.y] = Minus(mem.ry + mem'.ry, mem.ry)
        /\ utxo'.value["lq"] = utxo.value["lq"]
    BY <1>2, <1>3, <2>2 DEF Traded
  <2>4. utxo'.value[mem.x] = mem'.rx /\ utxo'.value[mem.y] = mem'.ry
    BY <1>3, <2>3, WordArithmetic, AmmPoolsAssumption, Zenon DEF AmmPoolsAssumption
  <2> QED  BY <1>3, <2>2, <2>3, <2>4 DEF ValueRead
<1>5. ASSUME NEW o \in orders, Execute(o) PROVE ValueRead(utxo, mem)'
  <2>1. /\ PoolInv' /\ utxo'.value = PoolValue(mem', utxo)  BY <1>5, ExecuteStep
  <2>2. mem'.x \in Assets /\ mem'.y \in Assets /\ mem'.x # mem'.y /\ mem'.x # "lq" /\ mem'.y # "lq" /\ "lq" \in Assets
    <3>1. DatumRead(utxo', mem')  BY <2>1 DEF PoolInv
    <3> QED  BY <3>1, PoolPair
  <2>3. utxo'.value[mem'.x] = mem'.rx  BY <2>1, <2>2 DEF PoolValue
  <2>4. utxo'.value[mem'.y] = mem'.ry  BY <2>1, <2>2 DEF PoolValue
  <2>5. utxo'.value["lq"] = Minus(MaxLqCap, mem'.lq)  BY <2>1, <2>2 DEF PoolValue
  <2> QED  BY <2>3, <2>4, <2>5 DEF ValueRead
<1>6. CASE Reread
  <2>1. mem' \in FromLedger(utxo) /\ utxo' = utxo  BY <1>6 DEF Reread
  <2>2. IsOutput(utxo) /\ utxo.kind \in Kinds  BY DEF PoolInv, DatumRead
  <2>3. /\ DatumRead(utxo, mem') /\ mem'.rx = utxo.value[mem'.x] /\ mem'.ry = utxo.value[mem'.y]
        /\ mem'.kind \notin Degens => mem'.lq = Minus(MaxLqCap, utxo.value["lq"])
    BY <2>1, <2>2, FromLedgerReads
  <2>4. mem'.kind = mem.kind  BY <1>1, <2>3, Zenon DEF DatumRead, Fixed
  <2>5. mem.kind \notin Degens => utxo.value["lq"] = Minus(MaxLqCap, mem'.lq)
    BY <1>3, <2>3, <2>4, WordArithmetic, AmmPoolsAssumption, Zenon DEF AmmPoolsAssumption
  <2> QED  BY <2>1, <2>3, <2>4, <2>5 DEF ValueRead
<1>7. ASSUME UNCHANGED <<utxo, mem>> PROVE ValueRead(utxo, mem)'  BY <1>7, Zenon DEF ValueRead
<1> QED  BY <1>4, <1>5, <1>6, <1>7 DEF Next, vars, Place, Refuse

LEMMA PredictionFollows ==
  ASSUME PoolInv, ValueRead(utxo, mem), Words
  PROVE  PredictionExact
<1> SUFFICES ASSUME mem.kind # "bidir", NEW r \in FromLedger(utxo)
             PROVE  r = mem \/ r = [mem EXCEPT !.stake = utxo.stake]
  BY DEF PredictionExact
<1>1. /\ IsOutput(utxo) /\ IsPool(mem) /\ Fixed(utxo, mem) /\ Written(utxo, mem) /\ StakeRead(mem)
      /\ utxo.kind \in Kinds
  BY DEF PoolInv, DatumRead
<1>2. /\ DatumRead(utxo, r) /\ r.rx = utxo.value[r.x] /\ r.ry = utxo.value[r.y]
      /\ r.kind \notin Degens => r.lq = Minus(MaxLqCap, utxo.value["lq"])
      /\ r.kind \in ConstFn => r.stake = utxo.stake
  BY <1>1, FromLedgerReads, Zenon
<1>3. Same(mem, r, Fields \ {"rx", "ry", "lq", "stake"}) /\ (mem.kind \in Degens => r.lq = mem.lq)
  BY <1>1, <1>2, OnePool, Zenon DEF DatumRead
<1>4. r.kind = mem.kind /\ r.x = mem.x /\ r.y = mem.y  BY <1>1, <1>2, Zenon DEF DatumRead, Fixed
<1>5. r.rx = mem.rx /\ r.ry = mem.ry  BY <1>2, <1>4 DEF ValueRead
<1>6. r.lq = mem.lq
  <2>1. mem.kind \notin Degens => r.lq = Minus(MaxLqCap, Minus(MaxLqCap, mem.lq))  BY <1>2, <1>4 DEF ValueRead
  <2> QED  BY <1>3, <2>1, WordArithmetic, AmmPoolsAssumption DEF AmmPoolsAssumption, Words
<1>7. Same(mem, r, Fields \ {"stake"})  BY <1>3, <1>5, <1>6 DEF Same
<1>8. r = [f \in Fields |-> r[f]] /\ mem = [f \in Fields |-> mem[f]]  BY <1>1, <1>2 DEF DatumRead, IsPool
<1>9. CASE mem.kind \in ConstFn
  <2>1. r.stake = utxo.stake  BY <1>2, <1>4, <1>9
  <2>2. [mem EXCEPT !.stake = utxo.stake] = [f \in Fields |-> IF f = "stake" THEN utxo.stake ELSE mem[f]]
    BY <1>8
  <2>3. \A f \in Fields : r[f] = IF f = "stake" THEN utxo.stake ELSE mem[f]  BY <1>7, <2>1 DEF Same
  <2> QED  BY <1>8, <2>2, <2>3
<1>10. CASE mem.kind \notin ConstFn
  <2>1. r.stake = 0 /\ mem.stake = 0  BY <1>1, <1>2, <1>4, <1>10 DEF DatumRead, StakeRead, IsPool, Kinds
  <2>2. \A f \in Fields : r[f] = mem[f]  BY <1>7, <2>1 DEF Same
  <2> QED  BY <1>8, <2>2
<1> QED  BY <1>9, <1>10

\* The bot's copy of a pool is the pool it would read from the output it wrote
\* (try_from_ledger after exec or into_ledger), through every trade, order and
\* rereading, for pools of every kind and size, as long as the amounts of the
\* copy fit the u64 the code keeps them in.
THEOREM PredictionAlwaysExact == Spec /\ []Words => []PredictionExact
<1>1. PoolInv /\ ValueRead(utxo, mem) /\ Words /\ Words' /\ [Next]_vars => ValueRead(utxo, mem)'  BY ValueNext
<1>2. PoolInv /\ ValueRead(utxo, mem) /\ Words => PredictionExact  BY PredictionFollows
<1> QED  BY <1>1, <1>2, PoolInit, PoolNext, ValueInit, PTL DEF Spec
=============================================================================
