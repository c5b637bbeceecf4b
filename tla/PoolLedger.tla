----------------------------- MODULE PoolLedger -----------------------------
(***************************************************************************)
(* Pools as outputs on the ledger and as values of the bot: data/          *)
(* cfmm_pool/*.rs, balance_pool.rs, stable_pool_t2t.rs, quadratic_pool.rs. *)
(*                                                                         *)
(* An output has an address (its script gives the kind of the pool, its    *)
(* stake part is a number, 0 for none), a value and a datum: a function    *)
(* from the index of a constructor field to a number.  Addresses, admin    *)
(* credentials and keys are numbers.  The fields that name the pool's      *)
(* assets never change and are pair.  A pool in memory is one record for   *)
(* every kind; the fields a kind has not stay 0.  The degen pool keeps its *)
(* curve in fx and fy, its cap in lqBound and its accumulated fee in tx.   *)
(***************************************************************************)
EXTENDS AmmMath

CONSTANTS
  MaxLqCap,    \* LP tokens minted with a pool; the pool holds what is unissued
  LegacyMul,   \* scale of the legacy fee numerator
  MinN2t,      \* PoolValidation.min_n2t_lovelace
  MinT2t,      \* PoolValidation.min_t2t_lovelace
  MinAda,      \* lovelace a degen pool keeps
  Emission,    \* tokens a degen pool starts with
  ADen,        \* denominator of the degen curve's quadratic coefficient
  T2tFeeDen,   \* denominator of the degen T2T fee, whose numerator is 1
  Operator     \* this bot's credential

Native == "ada"
Tokens == {"a", "b"}
Assets == {Native, "lq"} \cup Tokens

ConstFn   == {"classic", "feeswitch", "bidir", "royalty1", "royalty1f", "royalty2"}
Royalties == {"royalty1", "royalty1f", "royalty2"}
Degens    == {"degen", "degenT2t"}
Kinds     == ConstFn \cup {"balance", "stable"} \cup Degens

\* Outputs that hold a pool: amounts are machine words, fields of a datum naturals.
Outputs ==
  {u \in [kind : Kinds, stake : Nat, pair : (Assets \ {"lq"}) \X (Assets \ {"lq"}),
          value : [Assets -> 0 .. Word - 1], datum : [1 .. 18 -> Nat]] : u.pair[1] # u.pair[2]}

\* order_canonical: ADA first, then by policy id.
IsBase(a, b) == a = Native \/ (b # Native /\ a = "a")

Blank == [kind |-> "classic", x |-> Native, y |-> "a", rx |-> 0, ry |-> 0, lq |-> 0,
          fx |-> 0, fy |-> 0, tf |-> 0, tx |-> 0, ty |-> 0,
          r1f |-> 0, r1x |-> 0, r1y |-> 0, r2f |-> 0, r2x |-> 0, r2y |-> 0,
          admin |-> 0, taddr |-> 0, key1 |-> 0, key2 |-> 0, nonce |-> 0, stake |-> 0, lqBound |-> 0]

\* value.amount_of(asset): a token the value does not hold has no amount.
Has(u, a) == a = Native \/ u.value[a] > 0

\* What every parser reads from the value; none without both reserves and LP.
Reserves(u) ==
  IF Has(u, u.pair[1]) /\ Has(u, u.pair[2]) /\ Has(u, "lq")
  THEN {[Blank EXCEPT !.kind = u.kind, !.x = u.pair[1], !.y = u.pair[2],
                      !.rx = u.value[u.pair[1]], !.ry = u.value[u.pair[2]],
                      !.lq = Minus(MaxLqCap, u.value["lq"])]}
  ELSE {}

\* A pair of tokens needs its own lovelace.
HasT2tAda(u) == Native \in {u.pair[1], u.pair[2]} \/ MinT2t <= u.value[Native]

-----------------------------------------------------------------------------
(* try_from_ledger of each kind: {} when the output is not a usable pool.  *)

ClassicFromLedger(u) ==
  {[p EXCEPT !.fx = u.datum[4] * LegacyMul, !.fy = u.datum[4] * LegacyMul, !.lqBound = u.datum[6],
             !.stake = u.stake]
     : p \in Reserves(u)}

FeeSwitchFromLedger(u) ==
  {p \in {[r EXCEPT !.fx = u.datum[4], !.fy = u.datum[4], !.tf = u.datum[5],
                    !.tx = u.datum[6], !.ty = u.datum[7], !.lqBound = u.datum[9],
                    !.stake = u.stake] : r \in Reserves(u)}
     : p.rx > p.tx /\ p.ry > p.ty /\ HasT2tAda(u)}

BiDirFromLedger(u) ==
  {p \in {[r EXCEPT !.fx = u.datum[4], !.fy = u.datum[5], !.tf = u.datum[6],
                    !.tx = u.datum[7], !.ty = u.datum[8], !.lqBound = u.datum[10],
                    !.stake = u.stake] : r \in Reserves(u)}
     : p.rx > p.tx /\ p.ry > p.ty /\ HasT2tAda(u)}

RoyaltyV1FromLedger(u) ==
  {p \in {[r EXCEPT !.fx = u.datum[4], !.fy = u.datum[4], !.tf = u.datum[5], !.r1f = u.datum[6],
                    !.tx = u.datum[7], !.ty = u.datum[8], !.r1x = u.datum[9], !.r1y = u.datum[10],
                    !.admin = u.datum[11], !.taddr = u.datum[12], !.key1 = u.datum[13],
                    !.nonce = u.datum[14], !.stake = u.stake] : r \in Reserves(u)}
     : p.rx > p.tx + p.r1x /\ p.ry > p.ty + p.r1y /\ HasT2tAda(u)}

RoyaltyV2FromLedger(u) ==
  {p \in {[r EXCEPT !.fx = u.datum[4], !.fy = u.datum[4], !.tf = u.datum[5],
                    !.r1f = u.datum[6], !.r2f = u.datum[7], !.tx = u.datum[8], !.ty = u.datum[9],
                    !.r1x = u.datum[10], !.r1y = u.datum[11], !.r2x = u.datum[12], !.r2y = u.datum[13],
                    !.admin = u.datum[14], !.taddr = u.datum[15], !.key1 = u.datum[16],
                    !.key2 = u.datum[17], !.nonce = u.datum[18], !.stake = u.stake] : r \in Reserves(u)}
     : p.rx > p.tx + p.r1x + p.r2x /\ p.ry > p.ty + p.r1y + p.r2y /\ HasT2tAda(u)}

BalanceFromLedger(u) ==
  {[p EXCEPT !.fx = u.datum[4], !.fy = u.datum[4], !.tf = u.datum[5],
             !.tx = u.datum[6], !.ty = u.datum[7]]
     : p \in {r \in Reserves(u) : HasT2tAda(u)}}

\* The stable pool keeps the amplification in r1f and the multipliers in r1x, r1y.
StableFromLedger(u) ==
  {p \in {[r EXCEPT !.fx = u.datum[9], !.fy = u.datum[9], !.tf = u.datum[10],
                    !.tx = u.datum[13], !.ty = u.datum[14],
                    !.r1f = u.datum[1], !.r1x = u.datum[4], !.r1y = u.datum[5]] : r \in Reserves(u)}
     : p.rx > p.tx /\ p.ry > p.ty /\ (Native \in {p.x, p.y} \/ MinT2t <= u.value[Native])}
DegenFromLedger(u) ==
  {p \in {[Blank EXCEPT !.kind = u.kind, !.x = u.pair[1], !.y = u.pair[2],
                        !.rx = u.value[u.pair[1]], !.ry = u.value[u.pair[2]],
                        !.fx = u.datum[3], !.fy = u.datum[4], !.lqBound = u.datum[6],
                        !.tx = IF u.kind = "degenT2t" THEN u.datum[7] ELSE 0]}
     : u.datum[5] = Operator /\ Minus(p.rx, p.tx) < p.lqBound /\ Has(u, p.y)}

\* ConstFnPool::try_from_ledger and AnyPool::try_from_ledger: by script.
ConstFnFromLedger(u) ==
  CASE u.kind = "classic"                     -> ClassicFromLedger(u)
    [] u.kind = "feeswitch"                   -> FeeSwitchFromLedger(u)
    [] u.kind = "bidir"                       -> BiDirFromLedger(u)
    [] u.kind \in {"royalty1", "royalty1f"}   -> RoyaltyV1FromLedger(u)
    [] u.kind = "royalty2"                    -> RoyaltyV2FromLedger(u)

FromLedger(u) ==
  CASE u.kind \in ConstFn              -> ConstFnFromLedger(u)
    [] u.kind = "balance"              -> BalanceFromLedger(u)
    [] u.kind = "stable"               -> StableFromLedger(u)
    [] u.kind \in Degens -> DegenFromLedger(u)

-----------------------------------------------------------------------------
(* The in-place updates of the datum.                                      *)

\* unsafe_update_pd_fee_switch: the same two fields for both layouts.
FeeSwitchDatum(d, p) == [d EXCEPT ![6] = p.tx, ![7] = p.ty]

\* unsafe_update_pd_royalty.
RoyaltyV1Datum(d, p) ==
  [d EXCEPT ![4] = p.fx, ![5] = p.tf, ![6] = p.r1f, ![7] = p.tx, ![8] = p.ty,
            ![9] = p.r1x, ![10] = p.r1y, ![11] = p.admin, ![12] = p.taddr, ![14] = p.nonce]

\* Mutant: the second royalty keeps its old balance of y.
RoyaltyV2DatumStale(d, p) ==
  [d EXCEPT ![4] = p.fx, ![5] = p.tf, ![6] = p.r1f, ![7] = p.r2f, ![8] = p.tx, ![9] = p.ty,
            ![10] = p.r1x, ![11] = p.r1y, ![12] = p.r2x,
            ![14] = p.admin, ![15] = p.taddr, ![18] = p.nonce]

\* unsafe_update_pd_royalty_v2.
RoyaltyV2Datum(d, p) ==
  [d EXCEPT ![4] = p.fx, ![5] = p.tf, ![6] = p.r1f, ![7] = p.r2f, ![8] = p.tx, ![9] = p.ty,
            ![10] = p.r1x, ![11] = p.r1y, ![12] = p.r2x, ![13] = p.r2y,
            ![14] = p.admin, ![15] = p.taddr, ![18] = p.nonce]

\* balance_pool::unsafe_update_datum.
BalanceDatum(d, p) == [d EXCEPT ![6] = p.tx, ![7] = p.ty]

\* stable_pool_t2t::unsafe_update_datum.
StableDatum(d, p) == [d EXCEPT ![13] = p.tx, ![14] = p.ty]

\* quadratic_pool::unsafe_update_t2t_pd.
DegenT2tDatum(d, p) == [d EXCEPT ![7] = p.tx]

\* ConstFnPool::unsafe_datum_update.
ConstFnDatum(d, p) ==
  CASE p.kind = "classic"                   -> d
    [] p.kind \in {"feeswitch", "bidir"}    -> FeeSwitchDatum(d, p)
    [] p.kind \in {"royalty1", "royalty1f"} -> RoyaltyV1Datum(d, p)
    [] p.kind = "royalty2"                  -> RoyaltyV2Datum(d, p)

-----------------------------------------------------------------------------
(* into_ledger: a new output from the pool in memory and what the consumed *)
(* output says of address, lovelace (kept by a pair of tokens) and datum.  *)

PoolValue(p, u) ==
  [a \in Assets |-> CASE a = p.x -> p.rx
                      [] a = p.y -> p.ry
                      [] a = "lq" -> Minus(MaxLqCap, p.lq)
                      [] OTHER -> IF a = Native THEN u.value[a] ELSE 0]

\* The stake part is only written when there is one.
StakeWritten(p, u) == IF p.stake # 0 THEN p.stake ELSE u.stake

ClassicIntoLedger(p, u)   == [u EXCEPT !.value = PoolValue(p, u), !.stake = StakeWritten(p, u)]
FeeSwitchIntoLedger(p, u) == [u EXCEPT !.value = PoolValue(p, u), !.stake = StakeWritten(p, u),
                                       !.datum = FeeSwitchDatum(u.datum, p)]
RoyaltyIntoLedger(p, u)   == [u EXCEPT !.value = PoolValue(p, u), !.stake = StakeWritten(p, u),
                                       !.datum = ConstFnDatum(u.datum, p)]
BalanceIntoLedger(p, u)   == [u EXCEPT !.value = PoolValue(p, u), !.datum = BalanceDatum(u.datum, p)]
StableIntoLedger(p, u)    == [u EXCEPT !.value = PoolValue(p, u), !.datum = StableDatum(u.datum, p)]

IntoLedger(p, u) ==
  CASE p.kind = "classic"                -> ClassicIntoLedger(p, u)
    [] p.kind \in {"feeswitch", "bidir"} -> FeeSwitchIntoLedger(p, u)
    [] p.kind \in Royalties              -> RoyaltyIntoLedger(p, u)
    [] p.kind = "balance"                -> BalanceIntoLedger(p, u)
    [] p.kind = "stable"                 -> StableIntoLedger(p, u)

-----------------------------------------------------------------------------
(* The batch execution of a trade edits the consumed output instead: the   *)
(* trade moves the two assets and the pool after it updates the datum.     *)

Traded(u, p, after) ==
  [u.value EXCEPT ![p.x] = Minus(@ + after.rx, p.rx), ![p.y] = Minus(@ + after.ry, p.ry)]

ConstFnExec(u, p, after) == [u EXCEPT !.value = Traded(u, p, after), !.datum = ConstFnDatum(@, after)]
BalanceExec(u, p, after) == [u EXCEPT !.value = Traded(u, p, after), !.datum = BalanceDatum(@, after)]
StableExec(u, p, after)  == [u EXCEPT !.value = Traded(u, p, after), !.datum = StableDatum(@, after)]
DegenExec(u, p, after)   == [u EXCEPT !.value = Traded(u, p, after),
                                      !.datum = IF p.kind = "degenT2t" THEN DegenT2tDatum(@, after) ELSE @]

PoolExec(u, p, after) ==
  CASE p.kind \in ConstFn               -> ConstFnExec(u, p, after)
    [] p.kind = "balance"               -> BalanceExec(u, p, after)
    [] p.kind = "stable"                -> StableExec(u, p, after)
    [] p.kind \in Degens -> DegenExec(u, p, after)
=============================================================================
