------------------------------ MODULE AmmPools ------------------------------
(***************************************************************************)
(* One pool, its output on the ledger and the bot's copy of it, under      *)
(* trades of the matching engine and classical orders.  The bot works on   *)
(* its copy, which is the predicted pool of its last transaction until the *)
(* pool is read from the ledger again.                                     *)
(*                                                                         *)
(* The first part is about the orders a pool executes one at a time:       *)
(* deposit, redeem, withdrawal of royalties and requests of the DAO.       *)
(* data/deposit.rs, redeem.rs, royalty_withdraw_request.rs, dao_request.rs *)
(* say how one is read from an output, apply_order what it does to a pool, *)
(* operation_output.rs what its owner gets, pool.rs                        *)
(* (try_run_order_against_pool) which transaction is built.  An order is a *)
(* record with the value of its output and the fields of its datum.  A     *)
(* signature is the key that made it; it covers the order itself and the   *)
(* nonce, the pool's when the order was signed.                            *)
(***************************************************************************)
EXTENDS PoolOps, FiniteSetsExt, Sequences

CONSTANTS
  MinCollateral, \* min_collateral_ada of every order validation
  MinUtxo,       \* the least lovelace the builder accepts in an output
  MinSafe,       \* MIN_SAFE_LOVELACE_VALUE
  TxFee,         \* what the ledger charges for such a transaction
  StrictFee,     \* DAOContext.execution_fee, RoyaltyWithdrawContext.transaction_fee
  DaoKeys,       \* DAOContext.public_keys, a sequence
  Threshold      \* DAOContext.signature_threshold

DaoActions == {"WithdrawTreasury", "ChangeStakePart", "ChangeTreasuryFee", "ChangeTreasuryAddress",
               "ChangeAdminAddress", "ChangePoolFee"}

\* An order as it lies on the ledger, fields of other types left at some value.
Orders ==
  {o \in [id : Nat, type : {"deposit", "redeem", "royalty", "dao"}, value : [Assets -> Nat], fee : Nat,
          collateral : Nat, dx : Nat, dy : Nat, sig : Nat, sigs : Seq(Nat), nonce : Nat,
          action : DaoActions \cup {""}, new : Nat] : o.type = "dao" => o.action \in DaoActions}

\* An output for an order's owner: lovelace, and amounts of x, y and LP that
\* are added to it when they are native.
Payout(p, ada, ax, ay, lq) ==
  [a \in Assets |-> (IF a = Native THEN ada ELSE 0) + (IF a = p.x THEN ax ELSE 0)
                    + (IF a = p.y THEN ay ELSE 0) + (IF a = "lq" THEN lq ELSE 0)]

-----------------------------------------------------------------------------
(* try_from_ledger: whether the bot takes the order at all.                *)

DepositUsable(o)  == o.collateral >= MinCollateral
RedeemUsable(o)   == o.value["lq"] > 0 /\ Minus(o.value[Native], o.fee) >= MinCollateral
RoyaltyUsable(o)  == Minus(o.value[Native], o.fee) >= MinCollateral
DaoUsable(o)      == o.value[Native] >= o.fee /\ o.value[Native] - o.fee >= MinCollateral

Usable(o) ==
  CASE o.type = "deposit" -> DepositUsable(o)
    [] o.type = "redeem"  -> RedeemUsable(o)
    [] o.type = "royalty" -> RoyaltyUsable(o)
    [] o.type = "dao"     -> DaoUsable(o)

-----------------------------------------------------------------------------
(* apply_order: {} when the order is refused, else the pool after it, the  *)
(* outputs next to the pool's and the fee when the order fixes it.         *)

Applied(p, outs, strict) == {[pool |-> p, outs |-> outs, strict |-> strict]}

\* What is left of a native amount after fee and collateral; {} if too little.
NetAmount(o, asset) ==
  IF asset # Native THEN {o.value[asset]}
  ELSE {n \in {o.value[Native] - o.fee - o.collateral} : n >= 0}

\* Mutant: only the change of x is paid out.
ChangeForgotten(p, o, netX, netY, r) ==
  IF p.rx + netX < r.changeX \/ p.ry + netY < r.changeY THEN {}
  ELSE Applied([p EXCEPT !.rx = @ + netX - r.changeX, !.ry = @ + netY - r.changeY, !.lq = @ + r.unlocked],
               <<Payout(p, o.collateral, r.changeX, 0, r.unlocked)>>, {})

DepositResult(p, o, netX, netY, r) ==
  IF p.rx + netX < r.changeX \/ p.ry + netY < r.changeY THEN {}
  ELSE Applied([p EXCEPT !.rx = @ + netX - r.changeX, !.ry = @ + netY - r.changeY, !.lq = @ + r.unlocked],
               <<Payout(p, o.collateral, r.changeX, r.changeY, r.unlocked)>>, {})

ConstFnDeposit(p, o, netX, netY) ==
  LET v == View(p) IN DepositResult(p, o, netX, netY, CfmmReward(v.x, v.y, p.lq, netX, netY))
BalanceDeposit(p, o, netX, netY) ==
  LET v == View(p) IN DepositResult(p, o, netX, netY, BalanceReward(v.x, v.y, p.lq, netX, netY))
StableDeposit(p, o, netX, netY) ==
  LET v == View(p) IN DepositResult(p, o, netX, netY, StableReward(v.x, v.y, p.lq, netX, netY))

\* The formulas divide by the reserves and by the LP tokens in circulation.
Divides(p) == View(p).x # 0 /\ View(p).y # 0 /\ p.lq # 0

ApplyDeposit(p, o) ==
  IF ~ Divides(p) THEN {}
  ELSE UNION {CASE p.kind \in ConstFn -> ConstFnDeposit(p, o, net[1], net[2])
                [] p.kind = "balance" -> BalanceDeposit(p, o, net[1], net[2])
                [] p.kind = "stable"  -> StableDeposit(p, o, net[1], net[2])
                : net \in NetAmount(o, p.x) \X NetAmount(o, p.y)}

RedeemResult(p, o, outX, outY) ==
  IF outX > p.rx \/ outY > p.ry \/ o.value["lq"] > p.lq THEN {}
  ELSE Applied([p EXCEPT !.rx = @ - outX, !.ry = @ - outY, !.lq = @ - o.value["lq"]],
               <<Payout(p, Minus(o.value[Native], o.fee), outX, outY, 0)>>, {})

Share(p, o, reserve) == CfmmShare(reserve, p.lq, o.value["lq"])
ConstFnRedeem(p, o) == RedeemResult(p, o, Share(p, o, View(p).x), Share(p, o, View(p).y))
BalanceRedeem(p, o) == RedeemResult(p, o, Share(p, o, View(p).x), Share(p, o, View(p).y))
StableRedeem(p, o)  == RedeemResult(p, o, Share(p, o, View(p).x), Share(p, o, View(p).y))

ApplyRedeem(p, o) ==
  CASE p.lq = 0          -> {}
    [] p.lq # 0 /\ p.kind \in ConstFn -> ConstFnRedeem(p, o)
    [] p.lq # 0 /\ p.kind = "balance" -> BalanceRedeem(p, o)
    [] p.lq # 0 /\ p.kind = "stable"  -> StableRedeem(p, o)

\* verify: the key's signature over this order and the pool's nonce.
Verifies(o, sig, key, p) == sig = key /\ o.nonce = p.nonce

RoyaltyOut(p, o) == <<Payout(p, Minus(o.value[Native], o.fee), o.dx, o.dy, 0)>>

\* RoyaltyPool V1 and V1LedgerFixed: one key, one royalty.
ApplyRoyaltyV1(p, o) ==
  IF ~ Verifies(o, o.sig, p.key1, p) \/ p.rx < o.dx \/ p.r1x < o.dx \/ p.ry < o.dy \/ p.r1y < o.dy THEN {}
  ELSE Applied([p EXCEPT !.rx = @ - o.dx, !.r1x = @ - o.dx, !.ry = @ - o.dy, !.r1y = @ - o.dy,
                         !.nonce = @ + 1],
               RoyaltyOut(p, o), {StrictFee})

\* RoyaltyPool V2: the key that verifies, the first one first, has its royalty.
ApplyRoyaltyV2(p, o) ==
  IF p.rx < o.dx \/ p.ry < o.dy THEN {}
  ELSE IF Verifies(o, o.sig, p.key1, p)
       THEN IF p.r1x < o.dx \/ p.r1y < o.dy THEN {}
            ELSE Applied([p EXCEPT !.rx = @ - o.dx, !.r1x = @ - o.dx, !.ry = @ - o.dy, !.r1y = @ - o.dy,
                                   !.nonce = @ + 1],
                         RoyaltyOut(p, o), {StrictFee})
       ELSE IF ~ Verifies(o, o.sig, p.key2, p) \/ p.r2x < o.dx \/ p.r2y < o.dy THEN {}
            ELSE Applied([p EXCEPT !.rx = @ - o.dx, !.r2x = @ - o.dx, !.ry = @ - o.dy, !.r2y = @ - o.dy,
                                   !.nonce = @ + 1],
                         RoyaltyOut(p, o), {StrictFee})

\* A pool that keeps no royalties refuses.
ApplyRoyalty(p, o) ==
  CASE p.kind \in {"royalty1", "royalty1f"} -> ApplyRoyaltyV1(p, o)
    [] p.kind = "royalty2"                  -> ApplyRoyaltyV2(p, o)
    [] OTHER                                -> {}

-----------------------------------------------------------------------------
(* Requests of the DAO.                                                    *)

\* Signatures are paired with the keys of the DAO by position.
GoodSignatures(p, o) ==
  Cardinality({i \in DOMAIN o.sigs \cap DOMAIN DaoKeys : Verifies(o, o.sigs[i], DaoKeys[i], p)})

\* The action on the pool; {} when a treasury does not hold what is withdrawn.
DaoChange(p, o) ==
  CASE o.action = "WithdrawTreasury" ->
         IF p.rx < o.dx \/ p.tx < o.dx \/ p.ry < o.dy \/ p.ty < o.dy THEN {}
         ELSE {[p EXCEPT !.rx = @ - o.dx, !.tx = @ - o.dx, !.ry = @ - o.dy, !.ty = @ - o.dy]}
    [] o.action = "ChangeStakePart"       -> {[p EXCEPT !.stake = o.new]}
    [] o.action = "ChangeTreasuryFee"     -> {[p EXCEPT !.tf = o.new]}
    [] o.action = "ChangeTreasuryAddress" -> {[p EXCEPT !.taddr = o.new]}
    [] o.action = "ChangeAdminAddress"    -> {[p EXCEPT !.admin = o.new]}
    [] o.action = "ChangePoolFee"         -> {[p EXCEPT !.fx = o.new, !.fy = o.new]}

\* The requestor's output and, for a withdrawal, the treasury's: it holds no
\* lovelace of its own.
DaoOuts(p, o) ==
  LET requestor == Payout(p, o.value[Native] - o.fee, 0, 0, 0)
  IN  IF o.action = "WithdrawTreasury" THEN <<requestor, Payout(p, 0, o.dx, o.dy, 0)>> ELSE <<requestor>>

\* Mutant: the nonce stays.
RoyaltyPoolDaoSameNonce(p, o) ==
  IF GoodSignatures(p, o) < Threshold \/ o.value[Native] < o.fee THEN {}
  ELSE UNION {Applied(q, DaoOuts(p, o), {StrictFee}) : q \in DaoChange(p, o)}

RoyaltyPoolDao(p, o) ==
  IF GoodSignatures(p, o) < Threshold \/ o.value[Native] < o.fee THEN {}
  ELSE UNION {Applied([q EXCEPT !.nonce = @ + 1], DaoOuts(p, o), {StrictFee}) : q \in DaoChange(p, o)}

\* A pool that has no DAO refuses.
ApplyDao(p, o) == IF p.kind \in Royalties THEN RoyaltyPoolDao(p, o) ELSE {}

-----------------------------------------------------------------------------
(* Which order runs over which pool.                                       *)

ConstFnApply(p, o) ==
  CASE o.type = "deposit" -> ApplyDeposit(p, o)
    [] o.type = "redeem"  -> ApplyRedeem(p, o)
    [] o.type = "royalty" -> ApplyRoyalty(p, o)
    [] o.type = "dao"     -> ApplyDao(p, o)

BalanceApply(p, o) ==
  CASE o.type = "deposit" -> ApplyDeposit(p, o)
    [] o.type = "redeem"  -> ApplyRedeem(p, o)
    [] OTHER              -> {}

StableApply(p, o) ==
  CASE o.type = "deposit" -> ApplyDeposit(p, o)
    [] o.type = "redeem"  -> ApplyRedeem(p, o)
    [] OTHER              -> {}

Apply(p, o) ==
  CASE p.kind \in ConstFn -> ConstFnApply(p, o)
    [] p.kind = "balance" -> BalanceApply(p, o)
    [] p.kind = "stable"  -> StableApply(p, o)

-----------------------------------------------------------------------------
(* try_run_order_against_pool                                              *)

\* What the inputs hold beyond the pool's and the owner's outputs.
Rest(u, o, after, outs) ==
  [a \in Assets |-> u.value[a] + o.value[a] - after.value[a]
                    - MapThenSumSet(LAMBDA i : outs[i][a], DOMAIN outs)]

\* A fixed fee leaves an output of its own to the operator, if any; else the
\* builder takes the ledger's fee and returns the change to the operator.
Balances(rest, strict) ==
  /\ \A a \in Assets : rest[a] >= 0
  /\ IF strict = {} THEN rest[Native] >= TxFee
     ELSE \E fee \in strict : /\ rest[Native] >= fee
                              /\ rest[Native] - fee > 0 => rest[Native] - fee >= MinSafe

\* {} when the order is refused or no transaction can be built.
RunOrder(u, p, o) ==
  {t \in {[order |-> o, pool |-> r.pool, utxo |-> IntoLedger(r.pool, u), outs |-> r.outs, strict |-> r.strict,
           rest |-> Rest(u, o, IntoLedger(r.pool, u), r.outs)] : r \in Apply(p, o)}
     : /\ t.utxo.value[Native] >= MinUtxo
       /\ \A i \in DOMAIN t.outs : t.outs[i][Native] >= MinUtxo
       /\ Balances(t.rest, t.strict)}

-----------------------------------------------------------------------------
(* The pool on the ledger and in memory.                                   *)

CONSTANTS
  Pools,       \* outputs the run starts from
  Amounts(_),  \* inputs of trades, given the kind of pool
  Menu(_),     \* the orders users may place, given the pool
  MaxTrades(_), MaxOrders

ASSUME AmmPoolsAssumption ==
  /\ Pools \subseteq Outputs
  /\ \A kind \in Kinds : Amounts(kind) \subseteq Nat
  /\ MaxLqCap \in Nat /\ MaxLqCap < Word /\ Threshold \in Nat \ {0}

VARIABLES
  utxo,    \* the pool's output on the ledger
  mem,     \* the bot's copy
  orders,  \* orders waiting for execution
  tx,      \* the last order transaction, {} if the last step was none
  signed,  \* the nonces of the signed requests executed so far
  trades, placed

vars == <<utxo, mem, orders, tx, signed, trades, placed>>

Init ==
  /\ utxo \in Pools
  /\ mem \in FromLedger(utxo)
  /\ orders = {} /\ tx = {} /\ signed = <<>> /\ trades = 0 /\ placed = 0

\* Trades large enough for the roundings of the stable and the degen T2T
\* pool: below that their subtractions wrap.
NotDust(p, inX, amount) ==
  CASE p.kind = "stable"   -> /\ IF inX THEN StableSettles(View(p).x, p.r1x, View(p).y, p.r1y, p.r1f, amount)
                                 ELSE StableSettles(View(p).y, p.r1y, View(p).x, p.r1x, p.r1f, amount)
                              /\ OutputAmount(p, inX, amount) >= 4
    [] p.kind = "degenT2t" -> IF inX THEN amount > 3 ELSE OutputAmount(p, FALSE, amount) > 1
    [] OTHER               -> TRUE

\* Only tokens that were bought can be sold to a degen pool.
Exists(p, inX, amount) ==
  p.kind \in Degens /\ ~ inX => amount <= Emission - p.ry

\* The engine trades with an active pool that quotes a price.
Trade(side, amount) ==
  /\ trades < MaxTrades(mem.kind)
  /\ IsActive(mem) /\ Exists(mem, InX(mem, side), amount) /\ NotDust(mem, InX(mem, side), amount)
  /\ RealOutput(mem, side, amount) # {}
  /\ mem' = SwapPool(mem, side, amount)
  /\ utxo' = PoolExec(utxo, mem, mem')
  /\ trades' = trades + 1 /\ tx' = {}
  /\ UNCHANGED <<orders, signed, placed>>

\* A user places an order the bot can read; requests are signed for the
\* nonce the pool has on the ledger at that time.  No order runs over a degen
\* pool.
Place(o) ==
  /\ placed < MaxOrders
  /\ mem.kind \notin Degens /\ o \in Orders
  /\ Usable(o)
  /\ orders' = orders \cup {[o EXCEPT !.id = placed]} /\ placed' = placed + 1 /\ tx' = {}
  /\ UNCHANGED <<utxo, mem, signed, trades>>

Execute(o) ==
  \E t \in RunOrder(utxo, mem, o) :
    /\ mem' = t.pool /\ utxo' = t.utxo /\ tx' = {t}
    /\ signed' = IF o.type \in {"royalty", "dao"} THEN Append(signed, o.nonce) ELSE signed
    /\ orders' = orders \ {o}
    /\ UNCHANGED <<trades, placed>>

\* A refused order is dropped.
Refuse(o) ==
  /\ RunOrder(utxo, mem, o) = {}
  /\ orders' = orders \ {o} /\ tx' = {}
  /\ UNCHANGED <<utxo, mem, signed, trades, placed>>

\* The pool is read from the ledger again.
Reread ==
  /\ mem.kind # "bidir"
  /\ mem' \in FromLedger(utxo)
  /\ tx' = {}
  /\ UNCHANGED <<utxo, orders, signed, trades, placed>>

Next ==
  \/ \E side \in Sides, amount \in Amounts(mem.kind) : Trade(side, amount)
  \/ \E o \in Menu(mem) : Place(o)
  \/ \E o \in orders : Execute(o) \/ Refuse(o)
  \/ Reread

Spec == Init /\ [][Next]_vars

-----------------------------------------------------------------------------
(* Properties *)

\* The bot's copy after every trade and order is what reading the ledger
\* would give (a degen pool that filled up is not read any more): the next
\* decision is made on it before any block confirms the transaction.  Two
\* updates are known not to be written back and are left out: the datum of
\* the bidirectional fee switch, and a stake part that is removed.
PredictionExact ==
  mem.kind # "bidir" => FromLedger(utxo) \subseteq {mem, [mem EXCEPT !.stake = utxo.stake]}

\* What is set aside for the treasury and the royalties is there, and a degen
\* pool can buy back every token it sold, fees and MinAda apart.
ClaimsCovered ==
  IF mem.kind \in Degens
  THEN 3 * ADen * (mem.rx - mem.tx - (IF mem.kind = "degen" THEN MinAda ELSE 0))
         >= CurveCost(mem.fx, mem.fy, ADen, Emission - mem.ry)
  ELSE IF mem.kind = "stable" THEN mem.tx <= mem.rx /\ mem.ty <= mem.ry
  ELSE mem.tx + mem.r1x + mem.r2x <= mem.rx /\ mem.ty + mem.r1y + mem.r2y <= mem.ry

\* A transaction neither creates nor loses anything: besides the pool and the
\* owner it leaves exactly the fee the order declares.
NothingLeaks ==
  \A t \in tx : t.rest = [a \in Assets |-> IF a = Native THEN t.order.fee ELSE 0]

\* Amounts of the copy are machine words: nothing has wrapped around.
Words == {mem.rx, mem.ry, mem.lq} \subseteq 0 .. Word - 1

\* Claims on a pool are backed and orders get all that is not the fee.
ValueBacked == Words /\ ClaimsCovered /\ NothingLeaks

\* A signature is good for one transaction: two executed requests were never
\* signed for the same nonce.
SignedOnce == \A i, j \in DOMAIN signed : signed[i] = signed[j] => i = j

\* What the LPs own never shrinks: no trade lowers the (weighted) product of
\* the tradable reserves or the stable invariant, and deposits, redemptions
\* and withdrawals never lower a reserve per LP token.  The weighted pool
\* rounds a deposit against its LPs by less than one unit; deposits to a
\* stable pool are left out (their change goes to the wrong side).
Product(kind, v) == IF kind = "balance" THEN Weighted(1, v.x) * Weighted(4, v.y) ELSE v.x * v.y

ShareKept(v, w, lq, lqNew, slack) ==
  (w.x + slack) * lq >= v.x * lqNew /\ (w.y + slack) * lq >= v.y * lqNew

LpValueStep ==
  mem.kind \notin Degens /\ utxo' # utxo =>
    LET v == View(mem)
        w == View(mem')
    IN  IF mem'.lq # mem.lq
        THEN (mem.kind # "stable" \/ mem'.lq < mem.lq)
             => ShareKept(v, w, mem.lq, mem'.lq, IF mem.kind = "balance" THEN 1 ELSE 0)
        ELSE IF mem.kind = "stable" /\ tx' = {}
             THEN Invariant(w.x * mem.r1x, w.y * mem.r1y, mem.r1f) >= Invariant(v.x * mem.r1x, v.y * mem.r1y, mem.r1f)
             ELSE mem.kind # "stable" => Product(mem.kind, w) >= Product(mem.kind, v)

\* What the pool says about its liquidity is true: the input it offers to
\* take at a worst price is paid at that price, up to the rounding of one
\* unit, unless the untouchable lovelace caps it.
Prices == {<<1, 3>>, <<1, 1>>, <<2, 1>>}
AvailableHonest ==
  mem.kind \in ConstFn => \A side \in Sides, pr \in Prices : \A a \in Available(mem, side, pr[1], pr[2]) :
    LET out == OutputAmount(mem, InX(mem, side), a.input)
    IN  a.input > 0 => \/ (out + 1) * pr[2] > a.input * pr[1]
                       \/ out + Untouchable >= (IF InX(mem, side) THEN View(mem).y ELSE View(mem).x)

\* The redeemer of every stable swap can be computed.
RedeemerStep ==
  mem.kind = "stable" /\ trades' # trades => StableRedeemable(mem, mem')

\* Every trade and every order is one the pool's script accepts: it keeps what
\* the LPs own, and the redeemer of a stable swap can be found.
LpValueKept == [][LpValueStep /\ RedeemerStep]_vars
=============================================================================
