------------------------------ MODULE PoolOps ------------------------------
(***************************************************************************)
(* What a pool does as a market maker: AMMOps, MakerBehavior and           *)
(* MarketMaker of every kind.  A side is "Bid" (the quote asset comes in)  *)
(* or "Ask" (the base asset comes in); assets are ordered canonically.     *)
(***************************************************************************)
EXTENDS PoolLedger

Sides == {"Bid", "Ask"}

\* Whether x is the asset that comes in on a side.
InX(p, side) == (side = "Ask") = IsBase(p.x, p.y)

\* Mutant: the part of the fee that goes elsewhere is not taken off.
GrossFeeView(p) ==
  [x |-> Minus(p.rx, p.tx + p.r1x + p.r2x), y |-> Minus(p.ry, p.ty + p.r1y + p.r2y), fx |-> p.fx, fy |-> p.fx]

\* The tradable reserves and the fees a trade is priced with.
ClassicView(p)   == [x |-> p.rx, y |-> p.ry, fx |-> p.fx, fy |-> p.fy]
FeeSwitchView(p) == [x |-> Minus(p.rx, p.tx), y |-> Minus(p.ry, p.ty),
                     fx |-> Minus(p.fx, p.tf), fy |-> Minus(p.fy, p.tf)]
RoyaltyView(p)   == [x |-> Minus(p.rx, p.tx + p.r1x + p.r2x), y |-> Minus(p.ry, p.ty + p.r1y + p.r2y),
                     fx |-> Minus(p.fx, p.tf + p.r1f + p.r2f), fy |-> Minus(p.fx, p.tf + p.r1f + p.r2f)]
BalanceView(p)   == FeeSwitchView(p)
StableView(p)    == [x |-> Minus(p.rx, p.tx), y |-> Minus(p.ry, p.ty), fx |-> FeeDen, fy |-> FeeDen]

View(p) ==
  CASE p.kind = "classic"                -> ClassicView(p)
    [] p.kind \in {"feeswitch", "bidir"} -> FeeSwitchView(p)
    [] p.kind \in Royalties              -> RoyaltyView(p)
    [] p.kind = "balance"                -> BalanceView(p)
    [] p.kind = "stable"                 -> StableView(p)

\* output_amount of each family, for an input of x (inX) or of y.
ConstFnOutput(p, v, inX, amount) ==
  IF inX THEN CfmmOutput(v.x, v.y, v.fx, amount, p.y = Native)
         ELSE CfmmOutput(v.y, v.x, v.fy, amount, p.x = Native)

BalancePoolOutput(v, inX, amount) ==
  IF inX THEN BalanceOutput(v.x, 1, v.y, 4, v.fx, amount)
         ELSE BalanceOutput(v.y, 4, v.x, 1, v.fy, amount)

StablePoolOutput(p, v, inX, amount) ==
  IF inX THEN StableOutput(v.x, p.r1x, v.y, p.r1y, p.r1f, amount)
         ELSE StableOutput(v.y, p.r1y, v.x, p.r1x, p.r1f, amount)

DegenOutput(p, inX, amount) ==
  IF inX THEN CurveBuy(p.fx, p.fy, ADen, Minus(Emission, p.ry), amount)
         ELSE CurveSell(p.fx, p.fy, ADen, Minus(Emission, p.ry), amount)

OutputAmount(p, inX, amount) ==
  CASE p.kind \in ConstFn               -> ConstFnOutput(p, View(p), inX, amount)
    [] p.kind = "balance"               -> BalancePoolOutput(View(p), inX, amount)
    [] p.kind = "stable"                -> StablePoolOutput(p, View(p), inX, amount)
    [] p.kind \in Degens -> DegenOutput(p, inX, amount)

-----------------------------------------------------------------------------
(* swap                                                                    *)

Moved(p, inX, amount, output) ==
  IF inX THEN [p EXCEPT !.rx = @ + amount, !.ry = Minus(@, output)]
         ELSE [p EXCEPT !.ry = @ + amount, !.rx = Minus(@, output)]

\* The share of an input that a fee sets aside.
Cut(amount, fee) == (amount * fee) \div FeeDen

ClassicSwap(p, inX, amount) == Moved(p, inX, amount, OutputAmount(p, inX, amount))

ToTreasury(p, inX, cut) == IF inX THEN [p EXCEPT !.tx = @ + cut] ELSE [p EXCEPT !.ty = @ + cut]

FeeSwitchSwap(p, inX, amount) ==
  ToTreasury(Moved(p, inX, amount, OutputAmount(p, inX, amount)), inX, Cut(amount, p.tf))

RoyaltySwap(p, inX, amount) ==
  LET q == Moved(p, inX, amount, OutputAmount(p, inX, amount))
  IN  IF inX
      THEN [q EXCEPT !.tx = @ + Cut(amount, p.tf), !.r1x = @ + Cut(amount, p.r1f), !.r2x = @ + Cut(amount, p.r2f)]
      ELSE [q EXCEPT !.ty = @ + Cut(amount, p.tf), !.r1y = @ + Cut(amount, p.r1f), !.r2y = @ + Cut(amount, p.r2f)]

BalanceSwap(p, inX, amount) ==
  ToTreasury(Moved(p, inX, amount, OutputAmount(p, inX, amount)), inX, Cut(amount, p.tf))

\* The stable pool takes its fees from the output: the treasury's is rounded
\* up until it is a fair part of what the trader gets.
StableTreasuryFee(p, pure, lpFees) ==
  LET fRev  == FeeDen - p.tf - p.fx
      first == Cut(pure, p.tf)
      fair(t, delta) == t * fRev >= delta * p.tf
  IN  IF p.tf = 0 \/ fair(first, pure - lpFees - first - 1) THEN first
      ELSE CHOOSE t \in first + 1 .. pure :
             /\ fair(t, pure - lpFees - t)
             /\ \A s \in first + 1 .. t - 1 : ~ fair(s, pure - lpFees - s)

\* Mutant: the fee is not rounded up.
StableLpFeeFloor(p, pure) == Cut(pure, p.fx)

StableLpFee(p, pure) == Cut(pure, p.fx) + 1

StableCharged(p, inX, side, amount, pure) ==
  LET lpFees   == StableLpFee(p, pure)
      treasury == StableTreasuryFee(p, pure, lpFees)
      q        == Moved(p, inX, amount, pure - treasury - lpFees)
  IN  IF side = "Bid" THEN [q EXCEPT !.tx = @ + treasury] ELSE [q EXCEPT !.ty = @ + treasury]

StableSwap(p, inX, side, amount) == StableCharged(p, inX, side, amount, OutputAmount(p, inX, amount))

\* QuadraticPool V1: x is ADA; a sale that would leave less than MinAda takes
\* all of it, a purchase at most what is there.
DegenSwap(p, inX, amount) ==
  LET candidate == OutputAmount(p, inX, amount)
      all == IF inX THEN p.ry ELSE p.rx
  IN  Moved(p, inX, amount, IF candidate + (IF inX THEN 0 ELSE MinAda) <= all THEN candidate ELSE all)

\* adjusted_x_input, adjust_x_output, adjust_x_fee: the fee is 1 / T2tFeeDen.
Adjusted(amount, exact, inexact) ==
  LET scaled == amount * (T2tFeeDen - 1)
  IN  Minus(scaled \div T2tFeeDen, IF scaled % T2tFeeDen = 0 THEN exact ELSE inexact)
AdjustedXInput(amount)  == Adjusted(amount, 2, 1)
AdjustedXOutput(amount) == Adjusted(amount, 1, 0)
AdjustedXFee(amount)    == (amount + T2tFeeDen - 1) \div T2tFeeDen

\* The output of a pool whose x is the base asset is at most the y it holds;
\* of a pool whose x is the quote asset, at most the x.
DegenT2tOutput(p, inX, amount) ==
  LET out == OutputAmount(p, inX, amount)
  IN  IF IsBase(p.x, p.y) THEN (IF inX /\ out > p.ry THEN p.ry ELSE out)
      ELSE IF ~ inX /\ out > p.rx THEN p.rx ELSE out

DegenT2tSwap(p, inX, amount) ==
  IF inX
  THEN [Moved(p, TRUE, amount, DegenT2tOutput(p, TRUE, AdjustedXInput(amount)))
          EXCEPT !.tx = @ + AdjustedXFee(amount)]
  ELSE LET out == DegenT2tOutput(p, FALSE, amount)
       IN  [Moved(p, FALSE, amount, AdjustedXOutput(out)) EXCEPT !.tx = @ + AdjustedXFee(out)]

ConstFnSwap(p, inX, amount) ==
  CASE p.kind = "classic"                -> ClassicSwap(p, inX, amount)
    [] p.kind \in {"feeswitch", "bidir"} -> FeeSwitchSwap(p, inX, amount)
    [] p.kind \in Royalties              -> RoyaltySwap(p, inX, amount)

SwapPool(p, side, amount) ==
  CASE p.kind \in ConstFn    -> ConstFnSwap(p, InX(p, side), amount)
    [] p.kind = "balance"    -> BalanceSwap(p, InX(p, side), amount)
    [] p.kind = "stable"     -> StableSwap(p, InX(p, side), side, amount)
    [] p.kind = "degen"      -> DegenSwap(p, InX(p, side), amount)
    [] p.kind = "degenT2t"   -> DegenT2tSwap(p, InX(p, side), amount)

\* The context value of the stable pool's redeemer can be found.
StableRedeemable(p, after) ==
  LET v == StableView(p)
      w == StableView(after)
  IN  IF w.x > v.x
      THEN StableContext(v.x, p.r1x, v.y, p.r1y, w.x, w.y, p.fy, p.r1f) # {}
      ELSE StableContext(v.y, p.r1y, v.x, p.r1x, w.y, w.x, p.fx, p.r1f) # {}

-----------------------------------------------------------------------------
(* MarketMaker                                                             *)

\* is_active: enough liquidity, and enough of a native reserve.
NativeReserve(p) == IF p.x = Native THEN p.rx ELSE p.ry
N2tEnough(p) == Native \in {p.x, p.y} => NativeReserve(p) >= MinN2t

ClassicActive(p)   == p.rx * 2 >= p.lqBound /\ N2tEnough(p)
FeeSwitchActive(p) == p.rx * 2 >= p.lqBound /\ N2tEnough(p)
RoyaltyActive(p)   == p.rx * 2 >= p.lqBound /\ N2tEnough(p)
BalanceActive(p)   == N2tEnough(p)
\* Up to a thousandth over the cap.
DegenActive(p)     == Minus(p.rx, p.tx) < (p.lqBound * 1001) \div 1000

IsActive(p) ==
  CASE p.kind = "classic"                -> ClassicActive(p)
    [] p.kind \in {"feeswitch", "bidir"} -> FeeSwitchActive(p)
    [] p.kind \in Royalties              -> RoyaltyActive(p)
    [] p.kind = "balance"                -> BalanceActive(p)
    [] p.kind = "stable"                 -> TRUE
    [] p.kind \in Degens  -> DegenActive(p)

\* real_price, as the output it promises for an input: {} when it has none.
\* A degen pool does not take an ask that would overfill its cap.
DegenRealOutput(p, side, amount) ==
  IF side = "Ask" /\ p.rx + amount - p.tx > p.lqBound THEN {}
  ELSE {OutputAmount(p, InX(p, side), amount)}

RealOutput(p, side, amount) ==
  {o \in IF p.kind \in Degens THEN DegenRealOutput(p, side, amount)
         ELSE {OutputAmount(p, InX(p, side), amount)} : o > 0}

\* available_liquidity_on_side at a worst price of n out for d in.
ClassicAvailable(p, inX, n, d) ==
  IF inX THEN CfmmAvailable(p.rx, p.ry, p.fx, n, d) ELSE CfmmAvailable(p.ry, p.rx, p.fy, n, d)

ViewAvailable(v, inX, n, d) ==
  IF inX THEN CfmmAvailable(v.x, v.y, v.fx, n, d) ELSE CfmmAvailable(v.y, v.x, v.fy, n, d)

FeeSwitchAvailable(p, inX, n, d) ==
  IF p.tf > p.fx \/ p.tf > p.fy THEN {} ELSE ViewAvailable(FeeSwitchView(p), inX, n, d)

RoyaltyAvailable(p, inX, n, d) ==
  IF p.tf + p.r1f + p.r2f > p.fx THEN {} ELSE ViewAvailable(RoyaltyView(p), inX, n, d)

Available(p, side, n, d) ==
  CASE p.kind = "classic"                -> ClassicAvailable(p, InX(p, side), n, d)
    [] p.kind \in {"feeswitch", "bidir"} -> FeeSwitchAvailable(p, InX(p, side), n, d)
    [] p.kind \in Royalties              -> RoyaltyAvailable(p, InX(p, side), n, d)
=============================================================================
