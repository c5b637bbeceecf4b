------------------------------ MODULE AmmProofs ------------------------------
(***************************************************************************)
(* What the constant-product formulas promise, for every word size, every  *)
(* fee and every reserve; and what reading, trading and writing do to a    *)
(* pool and its output.                                                    *)
(***************************************************************************)
EXTENDS PoolOps, TLAPS

\* A quotient times its divisor is at most the dividend.
LEMMA DivBelow ==
  ASSUME NEW n \in Nat, NEW d \in Nat, d > 0
  PROVE  n \div d \in Nat /\ (n \div d) * d <= n /\ n < (n \div d) * d + d
OBVIOUS

LEMMA TimesNat == ASSUME NEW a \in Nat, NEW b \in Nat PROVE a * b \in Nat
OBVIOUS

LEMMA TimesMono ==
  ASSUME NEW a \in Nat, NEW b \in Nat, NEW c \in Nat, a <= b
  PROVE  a * c <= b * c /\ c * a <= c * b
OBVIOUS

LEMMA TimesCancel ==
  ASSUME NEW a \in Int, NEW b \in Int, NEW d \in Nat, d > 0, d * a <= d * b
  PROVE  a <= b
OBVIOUS

\* A quote is never more than the reserve it is paid from.
LEMMA QuoteBounded ==
  ASSUME AmmMathAssumption, NEW b \in Nat, NEW q \in Nat, NEW fee \in Nat, NEW amount \in Nat, b > 0
  PROVE  /\ CfmmQuote(b, q, fee, amount) \in Nat
         /\ CfmmQuote(b, q, fee, amount) * (b * FeeDen + amount * fee) <= q * amount * fee
         /\ CfmmQuote(b, q, fee, amount) <= q
<1> DEFINE den == b * FeeDen + amount * fee
           num == q * amount * fee
<1>1. FeeDen \in Nat /\ FeeDen > 0  BY DEF AmmMathAssumption
<1>2. b * FeeDen \in Nat /\ b * FeeDen > 0  BY <1>1
<1>3. amount * fee \in Nat  BY TimesNat
<1>4. den \in Nat /\ den > 0 /\ amount * fee <= den  BY <1>2, <1>3
<1>5. num = q * (amount * fee) /\ num \in Nat
  <2>1. q * amount \in Nat  BY TimesNat
  <2>2. num \in Nat  BY <2>1, TimesNat
  <2>3. QED  BY <2>2
<1>6. (num \div den) \in Nat /\ (num \div den) * den <= num
  <2> HIDE DEF den, num
  <2> QED  BY <1>4, <1>5, DivBelow
<1>7. num <= q * den
  BY <1>3, <1>4, <1>5, TimesMono
<1>8. (num \div den) <= q
  <2> HIDE DEF den, num
  <2>1. num \in Nat /\ den \in Nat  BY <1>4, <1>5
  <2>2. den * (num \div den) <= den * q
    <3>1. (num \div den) * den = den * (num \div den)  BY <1>6, <1>4
    <3>2. q * den = den * q  BY <1>4
    <3> QED BY <1>6, <1>7, <3>1, <3>2, <2>1
  <2> QED  BY <2>2, <1>4, <1>6, TimesCancel
<1> QED  BY <1>6, <1>8 DEF CfmmQuote

\* A trade at a fee keeps the product of the tradable reserves, when what is
\* set aside of the input is at most the rest of the fee: out is any payment up
\* to the quote, aside what goes to treasury and royalties.
LEMMA ProductKept ==
  ASSUME AmmMathAssumption, NEW b \in Nat, NEW q \in Nat, NEW fee \in Nat, NEW amount \in Nat, b > 0,
         NEW aside \in Nat, aside * FeeDen + amount * fee <= amount * FeeDen,
         NEW out \in Nat, out <= CfmmQuote(b, q, fee, amount)
  PROVE  (b + amount - aside) * (q - out) >= b * q
<1> DEFINE den == b * FeeDen + amount * fee
           left == b + amount - aside
           quote == CfmmQuote(b, q, fee, amount)
<1>1. FeeDen \in Nat /\ FeeDen > 0  BY DEF AmmMathAssumption
<1>2. amount * fee \in Nat /\ b * FeeDen \in Nat /\ den \in Nat  BY <1>1, TimesNat
<1>3. quote \in Nat /\ quote <= q /\ quote * den <= q * amount * fee  BY QuoteBounded
<1>4. FeeDen * left >= den
  <2>1. FeeDen * left = b * FeeDen + amount * FeeDen - aside * FeeDen  BY <1>1
  <2> QED BY <2>1, <1>1, <1>2
<1>5. q - out \in Nat  BY <1>3
<1>6. den * (q - out) <= FeeDen * left * (q - out)
  <2>1. FeeDen * left \in Nat  BY <1>4, <1>2, <1>1
  <2> HIDE DEF den, left
  <2> QED  BY <2>1, <1>2, <1>4, <1>5, TimesMono
<1>7. den * out <= q * (amount * fee)
  <2>1. q * amount * fee = q * (amount * fee)  OBVIOUS
  <2>2. out * den <= quote * den
    <3> HIDE DEF den, quote
    <3> QED  BY <1>2, <1>3, TimesMono DEF quote
  <2>3. out * den = den * out  BY <1>2
  <2>4. out * den \in Nat /\ quote * den \in Nat  BY <1>2, <1>3, TimesNat
  <2> HIDE DEF den, quote
  <2>5. q * (amount * fee) \in Nat  BY <1>2, TimesNat
  <2> QED  BY <2>1, <2>2, <2>3, <2>4, <2>5, <1>3
<1>8. den * (q - out) = den * q - den * out  BY <1>2
<1>9. den * q = FeeDen * (b * q) + q * (amount * fee)  BY <1>1, <1>2
<1>10. FeeDen * (b * q) <= FeeDen * (left * (q - out))
  <2>1. FeeDen * left * (q - out) = FeeDen * (left * (q - out))  BY <1>1, <1>5
  <2>2. den * out \in Nat /\ den * q \in Nat /\ q * (amount * fee) \in Nat  BY <1>2, TimesNat
  <2>3. FeeDen * (b * q) \in Nat  BY <1>1, TimesNat
  <2>4. FeeDen * (left * (q - out)) \in Int  BY <1>1, <1>5
  <2> HIDE DEF den, left
  <2> QED  BY <2>1, <2>2, <2>3, <2>4, <1>6, <1>7, <1>8, <1>9
<1>11. b * q \in Nat /\ left * (q - out) \in Int  BY <1>5, TimesNat
<1> QED
  <2> HIDE DEF left
  <2>1. b * q <= left * (q - out)  BY <1>1, <1>10, <1>11, TimesCancel
  <2> QED BY <2>1, <1>11 DEF left

-----------------------------------------------------------------------------
LEMMA MinusExact ==
  ASSUME AmmMathAssumption, NEW a \in Nat, NEW b \in Nat, b <= a, a < Word
  PROVE  Minus(a, b) = a - b
BY DEF Minus, AmmMathAssumption

\* What is paid is at most the quote: the cap on a native output only lowers it.
LEMMA OutputBounded ==
  ASSUME AmmMathAssumption, NEW b \in Nat, NEW q \in Nat, NEW fee \in Nat, NEW amount \in Nat,
         b > 0, q < Word, NEW native \in BOOLEAN, native => Untouchable <= q
  PROVE  /\ CfmmOutput(b, q, fee, amount, native) \in Nat
         /\ CfmmOutput(b, q, fee, amount, native) <= CfmmQuote(b, q, fee, amount)
<1> DEFINE quote == CfmmQuote(b, q, fee, amount)
<1>1. quote \in Nat /\ quote <= q  BY QuoteBounded
<1> HIDE DEF quote
<1>2. Minus(q, quote) = q - quote  BY <1>1, MinusExact
<1>3. Untouchable \in Nat  BY DEF AmmMathAssumption
<1>4. native => Minus(q, Untouchable) = q - Untouchable  BY <1>3, MinusExact
<1>5. CfmmOutput(b, q, fee, amount, native)
        = IF native /\ Minus(q, quote) < Untouchable THEN Minus(q, Untouchable) ELSE quote
  BY DEF CfmmOutput, quote
<1>6. CASE native /\ Minus(q, quote) < Untouchable  BY <1>1, <1>2, <1>3, <1>4, <1>5, <1>6 DEF quote
<1>7. CASE ~ (native /\ Minus(q, quote) < Untouchable)  BY <1>1, <1>5, <1>7 DEF quote
<1> QED  BY <1>6, <1>7

\* A royalty pool quotes with the reserves that are not set aside.
LEMMA OutputOfRoyalty ==
  ASSUME NEW p, p.kind \in Royalties, NEW inX, NEW amount
  PROVE  OutputAmount(p, inX, amount) = ConstFnOutput(p, RoyaltyView(p), inX, amount)
<1>1. p.kind \in ConstFn /\ p.kind # "balance" /\ p.kind # "stable" /\ p.kind \notin Degens
      /\ p.kind # "classic" /\ p.kind \notin {"feeswitch", "bidir"}
  BY DEF Royalties, ConstFn, Degens
<1>2. View(p) = RoyaltyView(p)  BY <1>1, Zenon DEF View
<1> QED  BY <1>1, <1>2, Zenon DEF OutputAmount

\* The three cuts of an input are at most their part of the fee.
LEMMA CutsBounded ==
  ASSUME AmmMathAssumption, NEW amount \in Nat, NEW f \in Nat, NEW g \in Nat, NEW h \in Nat, NEW fee \in Nat,
         f + g + h <= fee, fee <= FeeDen
  PROVE  LET aside == Cut(amount, f) + Cut(amount, g) + Cut(amount, h)
         IN  aside \in Nat /\ aside * FeeDen + amount * (fee - (f + g + h)) <= amount * FeeDen
<1>1. FeeDen \in Nat /\ FeeDen > 0  BY DEF AmmMathAssumption
<1>2. \A n \in Nat : Cut(amount, n) \in Nat /\ Cut(amount, n) * FeeDen <= amount * n
  <2> TAKE n \in Nat
  <2>1. amount * n \in Nat  BY TimesNat
  <2> QED  BY <2>1, <1>1, DivBelow DEF Cut
<1> DEFINE x == Cut(amount, f)
           y == Cut(amount, g)
           z == Cut(amount, h)
<1>3. /\ x \in Nat /\ x * FeeDen <= amount * f
      /\ y \in Nat /\ y * FeeDen <= amount * g
      /\ z \in Nat /\ z * FeeDen <= amount * h
  BY <1>2
<1> HIDE DEF x, y, z
<1>4. (x + y + z) * FeeDen <= amount * (f + g + h)
  <2>1. (x + y + z) * FeeDen = x * FeeDen + y * FeeDen + z * FeeDen  BY <1>1, <1>3
  <2>2. amount * (f + g + h) = amount * f + amount * g + amount * h  OBVIOUS
  <2>3. /\ x * FeeDen \in Nat /\ y * FeeDen \in Nat /\ z * FeeDen \in Nat
        /\ amount * f \in Nat /\ amount * g \in Nat /\ amount * h \in Nat
    BY <1>1, <1>3, TimesNat
  <2> QED  BY <2>1, <2>2, <2>3, <1>3
<1>5. amount * (f + g + h) + amount * (fee - (f + g + h)) = amount * fee  OBVIOUS
<1>6. amount * fee <= amount * FeeDen  BY <1>1, TimesMono
<1>7. x + y + z \in Nat /\ (x + y + z) * FeeDen + amount * (fee - (f + g + h)) <= amount * FeeDen
  <2>1. /\ amount * (f + g + h) \in Nat /\ amount * (fee - (f + g + h)) \in Nat
        /\ amount * fee \in Nat /\ amount * FeeDen \in Nat /\ (x + y + z) * FeeDen \in Nat
    BY <1>1, <1>3, TimesNat
  <2> QED  BY <2>1, <1>3, <1>4, <1>5, <1>6
<1> QED  BY <1>7 DEF x, y, z

-----------------------------------------------------------------------------
(* A royalty pool as try_from_ledger accepts it: amounts are machine words, *)
(* what is set aside is there, the parts of the fee add up.                 *)
RoyaltyRecords ==
  [kind : Royalties, x : Assets, y : Assets, rx : Nat, ry : Nat, lq : Nat, fx : Nat, fy : Nat,
   tf : Nat, tx : Nat, ty : Nat, r1f : Nat, r1x : Nat, r1y : Nat, r2f : Nat, r2x : Nat, r2y : Nat,
   admin : Nat, taddr : Nat, key1 : Nat, key2 : Nat, nonce : Nat, stake : Nat, lqBound : Nat]

Covered(p) == p.tx + p.r1x + p.r2x <= p.rx /\ p.ty + p.r1y + p.r2y <= p.ry

\* The conditions of a trade of amount against the reserve b paid from q.
Tradable(p, b, q, out, amount) ==
  /\ amount \in Nat /\ b > 0 /\ p.rx + amount < Word /\ p.ry + amount < Word
  /\ out = Native => Untouchable <= q
  /\ p.tf + p.r1f + p.r2f <= p.fx /\ p.fx <= FeeDen /\ p.fx < Word

\* A trade with a royalty pool, in either direction, never lowers the product
\* of the reserves its LPs own, and what treasury and royalties may claim stays
\* in the pool: with machine subtraction, rounding, the cap on a native output
\* and the three cuts of the input (royalty_pool.rs, swap and output_amount).
THEOREM RoyaltyTradeSound ==
  ASSUME AmmMathAssumption, NEW p \in RoyaltyRecords, Covered(p), NEW inX \in BOOLEAN, NEW amount,
         inX => Tradable(p, RoyaltyView(p).x, RoyaltyView(p).y, p.y, amount),
         ~ inX => Tradable(p, RoyaltyView(p).y, RoyaltyView(p).x, p.x, amount)
  PROVE  LET v == RoyaltyView(p)
             r == RoyaltySwap(p, inX, amount)
         IN  /\ Covered(r)
             /\ RoyaltyView(r).x * RoyaltyView(r).y >= v.x * v.y
<1> DEFINE v == RoyaltyView(p)
           r == RoyaltySwap(p, inX, amount)
           fee == p.fx - (p.tf + p.r1f + p.r2f)
           cx == p.tx + p.r1x + p.r2x
           cy == p.ty + p.r1y + p.r2y
           t == Cut(amount, p.tf)
           k == Cut(amount, p.r1f)
           l == Cut(amount, p.r2f)
           out == OutputAmount(p, inX, amount)
<1>1. /\ p.kind \in Royalties /\ p.rx \in Nat /\ p.ry \in Nat /\ p.fx \in Nat
      /\ p.tf \in Nat /\ p.tx \in Nat /\ p.ty \in Nat
      /\ p.r1f \in Nat /\ p.r1x \in Nat /\ p.r1y \in Nat
      /\ p.r2f \in Nat /\ p.r2x \in Nat /\ p.r2y \in Nat
  BY DEF RoyaltyRecords
<1>2. FeeDen \in Nat /\ FeeDen > 0 /\ Word \in Nat /\ FeeDen \in Nat  BY DEF AmmMathAssumption
<1>3. /\ amount \in Nat /\ p.rx + amount < Word /\ p.ry + amount < Word
      /\ p.tf + p.r1f + p.r2f <= p.fx /\ p.fx <= FeeDen /\ p.fx < Word
  BY DEF Tradable
<1>4. cx \in Nat /\ cy \in Nat /\ cx <= p.rx /\ cy <= p.ry  BY <1>1 DEF Covered
<1>5. /\ v.x = p.rx - cx /\ v.y = p.ry - cy /\ v.x \in Nat /\ v.y \in Nat
      /\ v.x < Word /\ v.y < Word
  <2>1. Minus(p.rx, cx) = p.rx - cx  BY <1>1, <1>2, <1>3, <1>4, MinusExact
  <2>2. Minus(p.ry, cy) = p.ry - cy  BY <1>1, <1>2, <1>3, <1>4, MinusExact
  <2>3. v.x = Minus(p.rx, cx) /\ v.y = Minus(p.ry, cy)  BY DEF RoyaltyView
  <2> QED  BY <2>1, <2>2, <2>3, <1>1, <1>2, <1>3, <1>4
<1>6. /\ t \in Nat /\ k \in Nat /\ l \in Nat
      /\ (t + k + l) * FeeDen + amount * fee <= amount * FeeDen
  <2>1. \A n \in Nat : Cut(amount, n) \in Nat
    <3> TAKE n \in Nat
    <3>1. amount * n \in Nat  BY <1>3, TimesNat
    <3> QED  BY <3>1, <1>2, DivBelow DEF Cut
  <2> QED  BY <2>1, <1>1, <1>3, CutsBounded, Zenon
<1>7. fee \in Nat /\ v.fx = fee /\ v.fy = fee
  <2>1. Minus(p.fx, p.tf + p.r1f + p.r2f) = fee  BY <1>1, <1>2, <1>3, MinusExact
  <2> QED  BY <2>1, <1>1, <1>3 DEF RoyaltyView
<1>8. out = IF inX THEN CfmmOutput(v.x, v.y, fee, amount, p.y = Native)
                   ELSE CfmmOutput(v.y, v.x, fee, amount, p.x = Native)
  <2>1. out = ConstFnOutput(p, v, inX, amount)  BY <1>1, OutputOfRoyalty
  <2> HIDE DEF out, v, fee
  <2> QED  BY <2>1, <1>7 DEF ConstFnOutput
<1>9. t + k + l \in Nat /\ t + k + l <= amount
  <2> DEFINE aside == t + k + l
  <2>1. aside \in Nat /\ aside * FeeDen + amount * fee <= amount * FeeDen  BY <1>6
  <2> HIDE DEF aside, fee
  <2>2. amount * fee \in Nat /\ aside * FeeDen \in Nat /\ amount * FeeDen \in Nat
    BY <2>1, <1>2, <1>3, <1>7, TimesNat
  <2>3. FeeDen * aside <= FeeDen * amount  BY <2>1, <2>2, <1>2, <1>3
  <2>4. aside <= amount  BY <2>1, <2>3, <1>2, <1>3, TimesCancel
  <2> QED  BY <2>1, <2>4 DEF aside
<1>10. CASE inX
  <2>1. /\ out \in Nat /\ CfmmQuote(v.x, v.y, fee, amount) \in Nat
        /\ out <= CfmmQuote(v.x, v.y, fee, amount) /\ CfmmQuote(v.x, v.y, fee, amount) <= v.y
    <3>1. v.x > 0 /\ (p.y = Native) \in BOOLEAN /\ (p.y = Native => Untouchable <= v.y)
      BY <1>10 DEF Tradable
    <3>2. out = CfmmOutput(v.x, v.y, fee, amount, p.y = Native)  BY <1>8, <1>10
    <3> HIDE DEF out, v, fee
    <3> QED  BY <3>1, <3>2, <1>3, <1>5, <1>7, OutputBounded, QuoteBounded, Zenon
  <2>2. (v.x + amount - (t + k + l)) * (v.y - out) >= v.x * v.y
    <3>1. v.x > 0  BY <1>10 DEF Tradable
    <3>2. t + k + l \in Nat  BY <1>6
    <3> DEFINE aside == t + k + l
    <3> HIDE DEF out, v, fee, aside
    <3>3. aside \in Nat /\ aside * FeeDen + amount * fee <= amount * FeeDen  BY <3>2, <1>6 DEF aside
    <3>4. (v.x + amount - aside) * (v.y - out) >= v.x * v.y
      BY <3>1, <3>3, <2>1, <1>3, <1>5, <1>7, ProductKept, Zenon
    <3> QED  BY <3>4 DEF aside
  <2>3. /\ r.rx = p.rx + amount /\ r.ry = Minus(p.ry, out)
        /\ r.tx = p.tx + t /\ r.r1x = p.r1x + k /\ r.r2x = p.r2x + l
        /\ r.ty = p.ty /\ r.r1y = p.r1y /\ r.r2y = p.r2y
    <3> HIDE DEF out, t, k, l
    <3>1. r = RoyaltySwap(p, inX, amount)  OBVIOUS
    <3> HIDE DEF r
    <3> QED  BY <3>1, <1>10 DEF RoyaltySwap, Moved, RoyaltyRecords, out, t, k, l
  <2> HIDE DEF v, r, out, t, k, l, fee
  <2>4. Minus(p.ry, out) = p.ry - out /\ out <= v.y
    <3>1. out <= v.y  BY <2>1, <1>5
    <3>2. out <= p.ry /\ p.ry < Word  BY <3>1, <2>1, <1>1, <1>2, <1>3, <1>4, <1>5
    <3> QED  BY <3>1, <3>2, <2>1, <1>1, MinusExact
  <2>5. /\ r.tx + r.r1x + r.r2x = cx + (t + k + l) /\ cx + (t + k + l) <= r.rx
        /\ r.ty + r.r1y + r.r2y = cy /\ cy <= r.ry
    <3>1. r.tx + r.r1x + r.r2x = cx + (t + k + l)  BY <2>3, <1>1, <1>4, <1>6
    <3>2. cx + (t + k + l) <= r.rx  BY <2>3, <1>1, <1>3, <1>4, <1>6, <1>9
    <3>3. r.ty + r.r1y + r.r2y = cy  BY <2>3
    <3>4. cy <= r.ry  BY <2>1, <2>3, <2>4, <1>1, <1>4, <1>5
    <3> QED  BY <3>1, <3>2, <3>3, <3>4
  <2>6. /\ Minus(r.rx, r.tx + r.r1x + r.r2x) = v.x + amount - (t + k + l)
        /\ Minus(r.ry, r.ty + r.r1y + r.r2y) = v.y - out
    <3>1. /\ r.rx \in Nat /\ r.rx < Word /\ cx + (t + k + l) \in Nat
          /\ r.ry \in Nat /\ r.ry < Word
      BY <2>1, <2>3, <2>4, <2>5, <1>1, <1>2, <1>3, <1>4, <1>6
    <3>2. Minus(r.rx, cx + (t + k + l)) = r.rx - (cx + (t + k + l))  BY <3>1, <2>5, MinusExact
    <3>3. Minus(r.ry, cy) = r.ry - cy  BY <3>1, <2>5, <1>4, MinusExact
    <3>4. r.rx - (cx + (t + k + l)) = v.x + amount - (t + k + l)  BY <2>3, <1>1, <1>3, <1>4, <1>5, <1>6
    <3>5. r.ry - cy = v.y - out  BY <2>1, <2>3, <2>4, <1>1, <1>4, <1>5
    <3> QED  BY <3>2, <3>3, <3>4, <3>5, <2>5
  <2>7. RoyaltyView(r).x = v.x + amount - (t + k + l) /\ RoyaltyView(r).y = v.y - out
    BY <2>6 DEF RoyaltyView
  <2>8. RoyaltyView(r).x * RoyaltyView(r).y = RoyaltyView(r).y * RoyaltyView(r).x
        /\ v.x * v.y = v.y * v.x
    BY <2>1, <2>7, <1>3, <1>5, <1>6
  <2>9. Covered(r)  BY <2>5 DEF Covered
  <2> QED  BY <2>2, <2>7, <2>8, <2>9 DEF v, r
<1>11. CASE ~ inX
  <2>1. /\ out \in Nat /\ CfmmQuote(v.y, v.x, fee, amount) \in Nat
        /\ out <= CfmmQuote(v.y, v.x, fee, amount) /\ CfmmQuote(v.y, v.x, fee, amount) <= v.x
    <3>1. v.y > 0 /\ (p.x = Native) \in BOOLEAN /\ (p.x = Native => Untouchable <= v.x)
      BY <1>11 DEF Tradable
    <3>2. out = CfmmOutput(v.y, v.x, fee, amount, p.x = Native)  BY <1>8, <1>11
    <3> HIDE DEF out, v, fee
    <3> QED  BY <3>1, <3>2, <1>3, <1>5, <1>7, OutputBounded, QuoteBounded, Zenon
  <2>2. (v.y + amount - (t + k + l)) * (v.x - out) >= v.y * v.x
    <3>1. v.y > 0  BY <1>11 DEF Tradable
    <3>2. t + k + l \in Nat  BY <1>6
    <3> DEFINE aside == t + k + l
    <3> HIDE DEF out, v, fee, aside
    <3>3. aside \in Nat /\ aside * FeeDen + amount * fee <= amount * FeeDen  BY <3>2, <1>6 DEF aside
    <3>4. (v.y + amount - aside) * (v.x - out) >= v.y * v.x
      BY <3>1, <3>3, <2>1, <1>3, <1>5, <1>7, ProductKept, Zenon
    <3> QED  BY <3>4 DEF aside
  <2>3. /\ r.ry = p.ry + amount /\ r.rx = Minus(p.rx, out)
        /\ r.ty = p.ty + t /\ r.r1y = p.r1y + k /\ r.r2y = p.r2y + l
        /\ r.tx = p.tx /\ r.r1x = p.r1x /\ r.r2x = p.r2x
    <3> HIDE DEF out, t, k, l
    <3>1. r = RoyaltySwap(p, inX, amount)  OBVIOUS
    <3> HIDE DEF r
    <3> QED  BY <3>1, <1>11 DEF RoyaltySwap, Moved, RoyaltyRecords, out, t, k, l
  <2> HIDE DEF v, r, out, t, k, l, fee
  <2>4. Minus(p.rx, out) = p.rx - out /\ out <= v.x
    <3>1. out <= v.x  BY <2>1, <1>5
    <3>2. out <= p.rx /\ p.rx < Word  BY <3>1, <2>1, <1>1, <1>2, <1>3, <1>4, <1>5
    <3> QED  BY <3>1, <3>2, <2>1, <1>1, MinusExact
  <2>5. /\ r.ty + r.r1y + r.r2y = cy + (t + k + l) /\ cy + (t + k + l) <= r.ry
        /\ r.tx + r.r1x + r.r2x = cx /\ cx <= r.rx
    <3>1. r.ty + r.r1y + r.r2y = cy + (t + k + l)  BY <2>3, <1>1, <1>4, <1>6
    <3>2. cy + (t + k + l) <= r.ry  BY <2>3, <1>1, <1>3, <1>4, <1>6, <1>9
    <3>3. r.tx + r.r1x + r.r2x = cx  BY <2>3
    <3>4. cx <= r.rx  BY <2>1, <2>3, <2>4, <1>1, <1>4, <1>5
    <3> QED  BY <3>1, <3>2, <3>3, <3>4
  <2>6. /\ Minus(r.ry, r.ty + r.r1y + r.r2y) = v.y + amount - (t + k + l)
        /\ Minus(r.rx, r.tx + r.r1x + r.r2x) = v.x - out
    <3>1. /\ r.ry \in Nat /\ r.ry < Word /\ cy + (t + k + l) \in Nat
          /\ r.rx \in Nat /\ r.rx < Word
      BY <2>1, <2>3, <2>4, <2>5, <1>1, <1>2, <1>3, <1>4, <1>6
    <3>2. Minus(r.ry, cy + (t + k + l)) = r.ry - (cy + (t + k + l))  BY <3>1, <2>5, MinusExact
    <3>3. Minus(r.rx, cx) = r.rx - cx  BY <3>1, <2>5, <1>4, MinusExact
    <3>4. r.ry - (cy + (t + k + l)) = v.y + amount - (t + k + l)  BY <2>3, <1>1, <1>3, <1>4, <1>5, <1>6
    <3>5. r.rx - cx = v.x - out  BY <2>1, <2>3, <2>4, <1>1, <1>4, <1>5
    <3> QED  BY <3>2, <3>3, <3>4, <3>5, <2>5
  <2>7. RoyaltyView(r).y = v.y + amount - (t + k + l) /\ RoyaltyView(r).x = v.x - out
    BY <2>6 DEF RoyaltyView
  <2>8. RoyaltyView(r).y * RoyaltyView(r).x = RoyaltyView(r).x * RoyaltyView(r).y
        /\ v.y * v.x = v.x * v.y
    BY <2>1, <2>7, <1>3, <1>5, <1>6
  <2>9. Covered(r)  BY <2>5 DEF Covered
  <2>10. RoyaltyView(r).y * RoyaltyView(r).x >= v.y * v.x  BY <2>2, <2>7
  <2>11. RoyaltyView(r).x * RoyaltyView(r).y >= v.x * v.y  BY <2>8, <2>10
  <2> QED  BY <2>9, <2>11 DEF v, r
<1> QED  BY <1>10, <1>11

-----------------------------------------------------------------------------
(* The bot's copy and the output it stands for.  Pools and outputs are      *)
(* records of a fixed shape; which numbers they hold does not matter here.  *)

Fields == {"kind", "x", "y", "rx", "ry", "lq", "fx", "fy", "tf", "tx", "ty", "r1f", "r1x", "r1y",
           "r2f", "r2x", "r2y", "admin", "taddr", "key1", "key2", "nonce", "stake", "lqBound"}

IsPool(p) == p = [f \in Fields |-> p[f]] /\ p.kind \in Kinds

IsOutput(u) ==
  /\ u = [f \in {"kind", "stake", "pair", "value", "datum"} |-> u[f]]
  /\ u.value = [a \in Assets |-> u.value[a]]
  /\ u.datum = [i \in 1 .. 18 |-> u.datum[i]]
  /\ u.pair[1] \in Assets \ {"lq"} /\ u.pair[2] \in Assets \ {"lq"} /\ u.pair[1] # u.pair[2]

Same(p, q, S) == \A f \in S : q[f] = p[f]
Zero(p, S)    == \A f \in S : p[f] = 0

Credentials == {"admin", "taddr", "key1", "key2", "nonce"}
Second  == {"r2f", "r2x", "r2y"}
First   == {"r1f", "r1x", "r1y"}

\* The fields of a pool that no trade and no order writes to the output.
Fixed(u, p) ==
  LET d == u.datum
  IN  /\ p.kind = u.kind /\ p.x = u.pair[1] /\ p.y = u.pair[2]
      /\ p.kind = "classic" =>
           /\ p.fx = d[4] * LegacyMul /\ p.fy = d[4] * LegacyMul /\ p.lqBound = d[6]
           /\ Zero(p, {"tf", "tx", "ty"} \cup First \cup Second \cup Credentials)
      /\ p.kind = "feeswitch" =>
           /\ p.fx = d[4] /\ p.fy = d[4] /\ p.tf = d[5] /\ p.lqBound = d[9]
           /\ Zero(p, First \cup Second \cup Credentials)
      /\ p.kind \in {"royalty1", "royalty1f"} =>
           p.key1 = d[13] /\ Zero(p, Second \cup {"key2", "lqBound"})
      /\ p.kind = "royalty2" => p.key1 = d[16] /\ p.key2 = d[17] /\ Zero(p, {"lqBound"})
      /\ p.kind = "balance" =>
           p.fx = d[4] /\ p.fy = d[4] /\ p.tf = d[5] /\ Zero(p, First \cup Second \cup Credentials \cup {"lqBound"})
      /\ p.kind = "stable" =>
           /\ p.fx = d[9] /\ p.fy = d[9] /\ p.tf = d[10] /\ p.r1f = d[1] /\ p.r1x = d[4] /\ p.r1y = d[5]
           /\ Zero(p, Second \cup Credentials \cup {"lqBound"})
      /\ p.kind \in Degens =>
           /\ p.fx = d[3] /\ p.fy = d[4] /\ p.lqBound = d[6]
           /\ Zero(p, {"lq", "tf", "ty"} \cup First \cup Second \cup Credentials)
           /\ p.kind = "degen" => p.tx = 0

\* The fields that into_ledger and exec write to the datum.
Written(u, p) ==
  LET d == u.datum
  IN  /\ p.kind = "feeswitch" => p.tx = d[6] /\ p.ty = d[7]
      /\ p.kind \in {"royalty1", "royalty1f"} =>
           /\ p.fx = d[4] /\ p.fy = d[4] /\ p.tf = d[5] /\ p.r1f = d[6] /\ p.tx = d[7] /\ p.ty = d[8]
           /\ p.r1x = d[9] /\ p.r1y = d[10] /\ p.admin = d[11] /\ p.taddr = d[12] /\ p.nonce = d[14]
      /\ p.kind = "royalty2" =>
           /\ p.fx = d[4] /\ p.fy = d[4] /\ p.tf = d[5] /\ p.r1f = d[6] /\ p.r2f = d[7]
           /\ p.tx = d[8] /\ p.ty = d[9] /\ p.r1x = d[10] /\ p.r1y = d[11] /\ p.r2x = d[12] /\ p.r2y = d[13]
           /\ p.admin = d[14] /\ p.taddr = d[15] /\ p.nonce = d[18]
      /\ p.kind = "balance" => p.tx = d[6] /\ p.ty = d[7]
      /\ p.kind = "stable" => p.tx = d[13] /\ p.ty = d[14]
      /\ p.kind = "degenT2t" => p.tx = d[7]

\* The kinds that read no stake part.
StakeRead(p) == p.kind \in {"balance", "stable"} \cup Degens => p.stake = 0

\* The value: both reserves, and the LP tokens that are not issued.
ValueRead(u, p) ==
  /\ p.rx = u.value[p.x] /\ p.ry = u.value[p.y]
  /\ p.kind \notin Degens => u.value["lq"] = Minus(MaxLqCap, p.lq)

DatumRead(u, p) == IsOutput(u) /\ IsPool(p) /\ Fixed(u, p) /\ Written(u, p) /\ StakeRead(p)

-----------------------------------------------------------------------------
LEMMA BlankPool == Blank = [f \in Fields |-> Blank[f]] /\ \A f \in Fields \ {"kind", "x", "y"} : Blank[f] = 0
BY DEF Fields, Blank

\* What every parser starts from.
LEMMA ReservesRead ==
  ASSUME NEW u, NEW r \in Reserves(u)
  PROVE  /\ r = [f \in Fields |-> r[f]]
         /\ r.kind = u.kind /\ r.x = u.pair[1] /\ r.y = u.pair[2]
         /\ r.rx = u.value[r.x] /\ r.ry = u.value[r.y] /\ r.lq = Minus(MaxLqCap, u.value["lq"])
         /\ Zero(r, Fields \ {"kind", "x", "y", "rx", "ry", "lq"})
<1> DEFINE q == [Blank EXCEPT !.kind = u.kind, !.x = u.pair[1], !.y = u.pair[2],
                      !.rx = u.value[u.pair[1]], !.ry = u.value[u.pair[2]],
                      !.lq = Minus(MaxLqCap, u.value["lq"])]
<1>1. r = q  BY DEF Reserves
<1>2. q = [f \in Fields |-> q[f]]  BY BlankPool, Zenon
<1>3. /\ q.kind = u.kind /\ q.x = u.pair[1] /\ q.y = u.pair[2]
      /\ q.rx = u.value[u.pair[1]] /\ q.ry = u.value[u.pair[2]] /\ q.lq = Minus(MaxLqCap, u.value["lq"])
  BY BlankPool DEF Fields
<1>4. \A f \in Fields \ {"kind", "x", "y", "rx", "ry", "lq"} : q[f] = 0
  BY BlankPool, Zenon DEF Fields
<1> QED  BY <1>1, <1>2, <1>3, <1>4, Zenon DEF Zero

\* What the value says, as every parser but the degen pool's reads it.
FromValue(u, r) ==
  r.rx = u.value[r.x] /\ r.ry = u.value[r.y] /\ r.lq = Minus(MaxLqCap, u.value["lq"])

LEMMA ClassicReads ==
  ASSUME NEW u, u.kind = "classic", NEW r \in ClassicFromLedger(u)
  PROVE  IsPool(r) /\ Fixed(u, r) /\ Written(u, r) /\ FromValue(u, r) /\ r.stake = u.stake
<1> DEFINE fee == u.datum[4] * LegacyMul
           with(p) == [p EXCEPT !.fx = fee, !.fy = fee, !.lqBound = u.datum[6], !.stake = u.stake]
<1>1. PICK p \in Reserves(u) : r = with(p)
  BY Zenon DEF ClassicFromLedger
<1> HIDE DEF fee
<1>2. r = [f \in Fields |-> r[f]]
  <2>1. DOMAIN p = Fields  BY ReservesRead
  <2>2. DOMAIN r = Fields  BY <1>1, <2>1
  <2>3. r = [f \in DOMAIN r |-> r[f]]  BY <1>1, Zenon
  <2> QED  BY <2>2, <2>3
<1>3. /\ Same(p, r, Fields \ {"fx", "fy", "lqBound", "stake"})
      /\ r.fx = fee /\ r.fy = fee /\ r.lqBound = u.datum[6]
      /\ r.stake = u.stake
  <2>1. DOMAIN p = Fields  BY ReservesRead
  <2>2. Same(p, r, Fields \ {"fx", "fy", "lqBound", "stake"})
    BY <1>1, <2>1, Zenon DEF Fields, Same
  <2>3. r.fx = fee /\ r.fy = fee /\ r.lqBound = u.datum[6]
    BY <1>1, <2>1 DEF Fields
  <2>4. r.stake = u.stake
    BY <1>1, <2>1 DEF Fields
  <2> QED  BY <2>2, <2>3, <2>4
<1>4. /\ r.kind = u.kind /\ r.x = u.pair[1] /\ r.y = u.pair[2] /\ FromValue(u, r)
      /\ Zero(r, {"tf", "tx", "ty"} \cup First \cup Second \cup Credentials)
  BY <1>3, ReservesRead DEF Fields, Same, Zero, First, Second, Credentials, FromValue
<1> QED  BY <1>2, <1>3, <1>4 DEF IsPool, Fixed, Written, Kinds, ConstFn, Degens, fee

LEMMA FeeSwitchReads ==
  ASSUME NEW u, u.kind = "feeswitch", NEW r \in FeeSwitchFromLedger(u)
  PROVE  IsPool(r) /\ Fixed(u, r) /\ Written(u, r) /\ FromValue(u, r) /\ r.stake = u.stake
<1>1. PICK p \in Reserves(u) :
        r = [p EXCEPT !.fx = u.datum[4], !.fy = u.datum[4], !.tf = u.datum[5], !.tx = u.datum[6], !.ty = u.datum[7],
                      !.lqBound = u.datum[9], !.stake = u.stake]
  BY Zenon DEF FeeSwitchFromLedger
<1>2. r = [f \in Fields |-> r[f]]
  <2>1. DOMAIN p = Fields  BY ReservesRead
  <2>2. DOMAIN r = Fields  BY <1>1, <2>1
  <2>3. r = [f \in DOMAIN r |-> r[f]]  BY <1>1, Zenon
  <2> QED  BY <2>2, <2>3
<1>3. /\ Same(p, r, Fields \ {"fx", "fy", "tf", "tx", "ty", "lqBound", "stake"})
      /\ r.fx = u.datum[4] /\ r.fy = u.datum[4] /\ r.tf = u.datum[5]
      /\ r.tx = u.datum[6] /\ r.ty = u.datum[7] /\ r.lqBound = u.datum[9]
      /\ r.stake = u.stake
  <2>1. DOMAIN p = Fields  BY ReservesRead
  <2>2. Same(p, r, Fields \ {"fx", "fy", "tf", "tx", "ty", "lqBound", "stake"})
    BY <1>1, <2>1, Zenon DEF Fields, Same
  <2>3. r.fx = u.datum[4] /\ r.fy = u.datum[4] /\ r.tf = u.datum[5]
    BY <1>1, <2>1 DEF Fields
  <2>4. r.tx = u.datum[6] /\ r.ty = u.datum[7] /\ r.lqBound = u.datum[9]
    BY <1>1, <2>1 DEF Fields
  <2>5. r.stake = u.stake
    BY <1>1, <2>1 DEF Fields
  <2> QED  BY <2>2, <2>3, <2>4, <2>5
<1>4. /\ r.kind = u.kind /\ r.x = u.pair[1] /\ r.y = u.pair[2] /\ FromValue(u, r)
      /\ Zero(r, First \cup Second \cup Credentials)
  BY <1>3, ReservesRead DEF Fields, Same, Zero, First, Second, Credentials, FromValue
<1> QED  BY <1>2, <1>3, <1>4 DEF IsPool, Fixed, Written, Kinds, ConstFn, Degens

LEMMA RoyaltyV1Reads ==
  ASSUME NEW u, u.kind \in {"royalty1", "royalty1f"}, NEW r \in RoyaltyV1FromLedger(u)
  PROVE  IsPool(r) /\ Fixed(u, r) /\ Written(u, r) /\ FromValue(u, r) /\ r.stake = u.stake
<1>1. PICK p \in Reserves(u) :
        r = [p EXCEPT !.fx = u.datum[4], !.fy = u.datum[4], !.tf = u.datum[5], !.r1f = u.datum[6], !.tx = u.datum[7],
                      !.ty = u.datum[8], !.r1x = u.datum[9], !.r1y = u.datum[10], !.admin = u.datum[11], !.taddr = u.datum[12],
                      !.key1 = u.datum[13], !.nonce = u.datum[14], !.stake = u.stake]
  BY Zenon DEF RoyaltyV1FromLedger
<1>2. r = [f \in Fields |-> r[f]]
  <2>1. DOMAIN p = Fields  BY ReservesRead
  <2>2. DOMAIN r = Fields  BY <1>1, <2>1, Zenon
  <2>3. r = [f \in DOMAIN r |-> r[f]]  BY <1>1, Zenon
  <2> QED  BY <2>2, <2>3
<1>3. /\ Same(p, r, Fields \ {"fx", "fy", "tf", "r1f", "tx", "ty", "r1x", "r1y", "admin", "taddr", "key1",
                    "nonce", "stake"})
      /\ r.fx = u.datum[4] /\ r.fy = u.datum[4] /\ r.tf = u.datum[5] /\ r.r1f = u.datum[6]
      /\ r.tx = u.datum[7] /\ r.ty = u.datum[8] /\ r.r1x = u.datum[9] /\ r.r1y = u.datum[10]
      /\ r.admin = u.datum[11] /\ r.taddr = u.datum[12] /\ r.key1 = u.datum[13] /\ r.nonce = u.datum[14]
      /\ r.stake = u.stake
  <2>1. DOMAIN p = Fields  BY ReservesRead
  <2>2. Same(p, r, Fields \ {"fx", "fy", "tf", "r1f", "tx", "ty", "r1x", "r1y", "admin", "taddr", "key1",
                 "nonce", "stake"})
    BY <1>1, <2>1, Zenon DEF Fields, Same
  <2>3. r.fx = u.datum[4] /\ r.fy = u.datum[4] /\ r.tf = u.datum[5] /\ r.r1f = u.datum[6]
    BY <1>1, <2>1 DEF Fields
  <2>4. r.tx = u.datum[7] /\ r.ty = u.datum[8] /\ r.r1x = u.datum[9] /\ r.r1y = u.datum[10]
    BY <1>1, <2>1 DEF Fields
  <2>5. r.admin = u.datum[11] /\ r.taddr = u.datum[12] /\ r.key1 = u.datum[13] /\ r.nonce = u.datum[14]
    BY <1>1, <2>1 DEF Fields
  <2>6. r.stake = u.stake
    BY <1>1, <2>1 DEF Fields
  <2> QED  BY <2>2, <2>3, <2>4, <2>5, <2>6
<1>4. /\ r.kind = u.kind /\ r.x = u.pair[1] /\ r.y = u.pair[2] /\ FromValue(u, r)
      /\ Zero(r, Second \cup {"key2", "lqBound"})
  BY <1>3, ReservesRead DEF Fields, Same, Zero, First, Second, Credentials, FromValue
<1> QED  BY <1>2, <1>3, <1>4 DEF IsPool, Fixed, Written, Kinds, ConstFn, Degens

LEMMA RoyaltyV2Reads ==
  ASSUME NEW u, u.kind = "royalty2", NEW r \in RoyaltyV2FromLedger(u)
  PROVE  IsPool(r) /\ Fixed(u, r) /\ Written(u, r) /\ FromValue(u, r) /\ r.stake = u.stake
<1>1. PICK p \in Reserves(u) :
        r = [p EXCEPT !.fx = u.datum[4], !.fy = u.datum[4], !.tf = u.datum[5], !.r1f = u.datum[6], !.r2f = u.datum[7],
                      !.tx = u.datum[8], !.ty = u.datum[9], !.r1x = u.datum[10], !.r1y = u.datum[11], !.r2x = u.datum[12],
                      !.r2y = u.datum[13], !.admin = u.datum[14], !.taddr = u.datum[15], !.key1 = u.datum[16],
                       !.key2 = u.datum[17],
                      !.nonce = u.datum[18], !.stake = u.stake]
  BY Zenon DEF RoyaltyV2FromLedger
<1>2. r = [f \in Fields |-> r[f]]
  <2>1. DOMAIN p = Fields  BY ReservesRead
  <2>2. DOMAIN r = Fields  BY <1>1, <2>1, Zenon
  <2>3. r = [f \in DOMAIN r |-> r[f]]
    <3> DEFINE q == [p EXCEPT !.fx = u.datum[4], !.fy = u.datum[4], !.tf = u.datum[5], !.r1f = u.datum[6],
                              !.r2f = u.datum[7], !.tx = u.datum[8], !.ty = u.datum[9], !.r1x = u.datum[10],
                              !.r1y = u.datum[11], !.r2x = u.datum[12], !.r2y = u.datum[13], !.admin = u.datum[14],
                              !.taddr = u.datum[15], !.key1 = u.datum[16], !.key2 = u.datum[17], !.nonce = u.datum[18]]
    <3>1. r = [q EXCEPT !.stake = u.stake]  BY <1>1
    <3> HIDE DEF q
    <3> QED  BY <3>1
  <2> QED  BY <2>2, <2>3
<1>3. /\ Same(p, r, Fields \ {"fx", "fy", "tf", "r1f", "r2f", "tx", "ty", "r1x", "r1y", "r2x", "r2y",
                    "admin", "taddr", "key1", "key2", "nonce", "stake"})
      /\ r.fx = u.datum[4] /\ r.fy = u.datum[4] /\ r.tf = u.datum[5] /\ r.r1f = u.datum[6]
      /\ r.r2f = u.datum[7] /\ r.tx = u.datum[8] /\ r.ty = u.datum[9] /\ r.r1x = u.datum[10]
      /\ r.r1y = u.datum[11] /\ r.r2x = u.datum[12] /\ r.r2y = u.datum[13] /\ r.admin = u.datum[14]
      /\ r.taddr = u.datum[15] /\ r.key1 = u.datum[16] /\ r.key2 = u.datum[17] /\ r.nonce = u.datum[18]
      /\ r.stake = u.stake
  <2>1. DOMAIN p = Fields  BY ReservesRead
  <2>2. Same(p, r, Fields \ {"fx", "fy", "tf", "r1f", "r2f", "tx", "ty", "r1x", "r1y", "r2x", "r2y",
                 "admin", "taddr", "key1", "key2", "nonce", "stake"})
    BY <1>1, <2>1, Zenon DEF Fields, Same
  <2>3. r.fx = u.datum[4] /\ r.fy = u.datum[4] /\ r.tf = u.datum[5] /\ r.r1f = u.datum[6]
    BY <1>1, <2>1 DEF Fields
  <2>4. r.r2f = u.datum[7] /\ r.tx = u.datum[8] /\ r.ty = u.datum[9] /\ r.r1x = u.datum[10]
    BY <1>1, <2>1 DEF Fields
  <2>5. r.r1y = u.datum[11] /\ r.r2x = u.datum[12] /\ r.r2y = u.datum[13] /\ r.admin = u.datum[14]
    BY <1>1, <2>1 DEF Fields
  <2>6. r.taddr = u.datum[15] /\ r.key1 = u.datum[16] /\ r.key2 = u.datum[17] /\ r.nonce = u.datum[18]
    BY <1>1, <2>1 DEF Fields
  <2>7. r.stake = u.stake
    BY <1>1, <2>1 DEF Fields
  <2> QED  BY <2>2, <2>3, <2>4, <2>5, <2>6, <2>7
<1>4. /\ r.kind = u.kind /\ r.x = u.pair[1] /\ r.y = u.pair[2] /\ FromValue(u, r)
      /\ Zero(r, {"lqBound"})
  BY <1>3, ReservesRead DEF Fields, Same, Zero, First, Second, Credentials, FromValue
<1> QED  BY <1>2, <1>3, <1>4 DEF IsPool, Fixed, Written, Kinds, ConstFn, Degens

LEMMA BalanceReads ==
  ASSUME NEW u, u.kind = "balance", NEW r \in BalanceFromLedger(u)
  PROVE  IsPool(r) /\ Fixed(u, r) /\ Written(u, r) /\ FromValue(u, r) /\ r.stake = 0
<1>1. PICK p \in Reserves(u) :
        r = [p EXCEPT !.fx = u.datum[4], !.fy = u.datum[4], !.tf = u.datum[5], !.tx = u.datum[6], !.ty = u.datum[7]]
  BY Zenon DEF BalanceFromLedger
<1>2. r = [f \in Fields |-> r[f]]
  <2>1. DOMAIN p = Fields  BY ReservesRead
  <2>2. DOMAIN r = Fields  BY <1>1, <2>1
  <2>3. r = [f \in DOMAIN r |-> r[f]]  BY <1>1, Zenon
  <2> QED  BY <2>2, <2>3
<1>3. /\ Same(p, r, Fields \ {"fx", "fy", "tf", "tx", "ty"})
      /\ r.fx = u.datum[4] /\ r.fy = u.datum[4] /\ r.tf = u.datum[5]
      /\ r.tx = u.datum[6] /\ r.ty = u.datum[7]
  <2>1. DOMAIN p = Fields  BY ReservesRead
  <2>2. Same(p, r, Fields \ {"fx", "fy", "tf", "tx", "ty"})
    BY <1>1, <2>1, Zenon DEF Fields, Same
  <2>3. r.fx = u.datum[4] /\ r.fy = u.datum[4] /\ r.tf = u.datum[5]
    BY <1>1, <2>1 DEF Fields
  <2>4. r.tx = u.datum[6] /\ r.ty = u.datum[7]
    BY <1>1, <2>1 DEF Fields
  <2> QED  BY <2>2, <2>3, <2>4
<1>4. /\ r.kind = u.kind /\ r.x = u.pair[1] /\ r.y = u.pair[2] /\ FromValue(u, r)
      /\ Zero(r, First \cup Second \cup Credentials \cup {"lqBound", "stake"})
  BY <1>3, ReservesRead DEF Fields, Same, Zero, First, Second, Credentials, FromValue
<1> QED  BY <1>2, <1>3, <1>4 DEF IsPool, Fixed, Written, Kinds, ConstFn, Degens, Zero

LEMMA StableReads ==
  ASSUME NEW u, u.kind = "stable", NEW r \in StableFromLedger(u)
  PROVE  IsPool(r) /\ Fixed(u, r) /\ Written(u, r) /\ FromValue(u, r) /\ r.stake = 0
<1>1. PICK p \in Reserves(u) :
        r = [p EXCEPT !.fx = u.datum[9], !.fy = u.datum[9], !.tf = u.datum[10], !.tx = u.datum[13], !.ty = u.datum[14],
                      !.r1f = u.datum[1], !.r1x = u.datum[4], !.r1y = u.datum[5]]
  BY Zenon DEF StableFromLedger
<1>2. r = [f \in Fields |-> r[f]]
  <2>1. DOMAIN p = Fields  BY ReservesRead
  <2>2. DOMAIN r = Fields  BY <1>1, <2>1
  <2>3. r = [f \in DOMAIN r |-> r[f]]  BY <1>1, Zenon
  <2> QED  BY <2>2, <2>3
<1>3. /\ Same(p, r, Fields \ {"fx", "fy", "tf", "tx", "ty", "r1f", "r1x", "r1y"})
      /\ r.fx = u.datum[9] /\ r.fy = u.datum[9] /\ r.tf = u.datum[10]
      /\ r.tx = u.datum[13] /\ r.ty = u.datum[14] /\ r.r1f = u.datum[1]
      /\ r.r1x = u.datum[4] /\ r.r1y = u.datum[5]
  <2>1. DOMAIN p = Fields  BY ReservesRead
  <2>2. Same(p, r, Fields \ {"fx", "fy", "tf", "tx", "ty", "r1f", "r1x", "r1y"})
    BY <1>1, <2>1, Zenon DEF Fields, Same
  <2>3. r.fx = u.datum[9] /\ r.fy = u.datum[9] /\ r.tf = u.datum[10]
    BY <1>1, <2>1 DEF Fields
  <2>4. r.tx = u.datum[13] /\ r.ty = u.datum[14] /\ r.r1f = u.datum[1]
    BY <1>1, <2>1 DEF Fields
  <2>5. r.r1x = u.datum[4] /\ r.r1y = u.datum[5]
    BY <1>1, <2>1 DEF Fields
  <2> QED  BY <2>2, <2>3, <2>4, <2>5
<1>4. /\ r.kind = u.kind /\ r.x = u.pair[1] /\ r.y = u.pair[2] /\ FromValue(u, r)
      /\ Zero(r, Second \cup Credentials \cup {"lqBound", "stake"})
  BY <1>3, ReservesRead DEF Fields, Same, Zero, First, Second, Credentials, FromValue
<1> QED  BY <1>2, <1>3, <1>4 DEF IsPool, Fixed, Written, Kinds, ConstFn, Degens, Zero

LEMMA BiDirReads ==
  ASSUME NEW u, u.kind = "bidir", NEW r \in BiDirFromLedger(u)
  PROVE  IsPool(r) /\ Fixed(u, r) /\ Written(u, r) /\ FromValue(u, r) /\ r.stake = u.stake
<1>1. PICK p \in Reserves(u) :
        r = [p EXCEPT !.fx = u.datum[4], !.fy = u.datum[5], !.tf = u.datum[6], !.tx = u.datum[7],
                      !.ty = u.datum[8], !.lqBound = u.datum[10], !.stake = u.stake]
  BY Zenon DEF BiDirFromLedger
<1>2. r = [f \in Fields |-> r[f]]
  <2>1. DOMAIN p = Fields  BY ReservesRead
  <2>2. DOMAIN r = Fields  BY <1>1, <2>1
  <2>3. r = [f \in DOMAIN r |-> r[f]]  BY <1>1, Zenon
  <2> QED  BY <2>2, <2>3
<1>3. Same(p, r, {"kind", "x", "y", "rx", "ry", "lq"}) /\ r.stake = u.stake
  BY <1>1, ReservesRead DEF Fields, Same
<1>4. r.kind = u.kind /\ r.x = u.pair[1] /\ r.y = u.pair[2] /\ FromValue(u, r)
  BY <1>3, ReservesRead DEF Same, FromValue
<1> QED  BY <1>2, <1>3, <1>4 DEF IsPool, Fixed, Written, Kinds, ConstFn, Degens

LEMMA DegenReads ==
  ASSUME NEW u, u.kind \in Degens, NEW r \in DegenFromLedger(u)
  PROVE  /\ IsPool(r) /\ Fixed(u, r) /\ Written(u, r) /\ r.stake = 0
         /\ r.rx = u.value[r.x] /\ r.ry = u.value[r.y]
<1> DEFINE fee == IF u.kind = "degenT2t" THEN u.datum[7] ELSE 0
<1>1. r = [Blank EXCEPT !.kind = u.kind, !.x = u.pair[1], !.y = u.pair[2],
                        !.rx = u.value[u.pair[1]], !.ry = u.value[u.pair[2]],
                        !.fx = u.datum[3], !.fy = u.datum[4], !.lqBound = u.datum[6], !.tx = fee]
  BY DEF DegenFromLedger
<1>2. u.kind = "degen" => fee = 0  OBVIOUS
<1>7. u.kind = "degenT2t" => fee = u.datum[7]  OBVIOUS
<1> HIDE DEF fee
<1>3. r = [f \in Fields |-> r[f]]
  <2>1. DOMAIN r = Fields  BY <1>1, BlankPool, Zenon
  <2>2. r = [f \in DOMAIN r |-> r[f]]  BY <1>1, Zenon
  <2> QED  BY <2>1, <2>2
<1>4. /\ Same(Blank, r, Fields \ {"kind", "x", "y", "rx", "ry", "fx", "fy", "lqBound", "tx"})
      /\ r.kind = u.kind /\ r.x = u.pair[1] /\ r.y = u.pair[2]
      /\ r.rx = u.value[u.pair[1]] /\ r.ry = u.value[u.pair[2]]
      /\ r.fx = u.datum[3] /\ r.fy = u.datum[4] /\ r.lqBound = u.datum[6] /\ r.tx = fee
  <2>1. DOMAIN Blank = Fields  BY BlankPool
  <2>2. Same(Blank, r, Fields \ {"kind", "x", "y", "rx", "ry", "fx", "fy", "lqBound", "tx"})
    BY <1>1, <2>1, Zenon DEF Fields, Same
  <2>3. r.kind = u.kind /\ r.x = u.pair[1] /\ r.y = u.pair[2]  BY <1>1, <2>1 DEF Fields
  <2>4. r.rx = u.value[u.pair[1]] /\ r.ry = u.value[u.pair[2]]  BY <1>1, <2>1 DEF Fields
  <2>5. r.fx = u.datum[3] /\ r.fy = u.datum[4] /\ r.lqBound = u.datum[6] /\ r.tx = fee
    BY <1>1, <2>1 DEF Fields
  <2> QED  BY <2>2, <2>3, <2>4, <2>5
<1>5. Zero(r, {"lq", "tf", "ty"} \cup First \cup Second \cup Credentials) /\ r.stake = 0
  <2> DEFINE Unread == {"lq", "tf", "ty"} \cup First \cup Second \cup Credentials
  <2>1. Unread \cup {"stake"} \subseteq Fields \ {"kind", "x", "y", "rx", "ry", "fx", "fy", "lqBound", "tx"}
    BY DEF Fields, First, Second, Credentials
  <2>2. \A f \in Unread \cup {"stake"} : r[f] = Blank[f]  BY <1>4, <2>1, Zenon DEF Same
  <2>3. \A f \in Unread \cup {"stake"} : Blank[f] = 0  BY <2>1, BlankPool, Zenon
  <2> HIDE DEF Unread
  <2>4. Zero(r, Unread) /\ r.stake = 0  BY <2>2, <2>3, Zenon DEF Zero
  <2> QED  BY <2>4 DEF Unread
<1>6. u.kind = "degen" \/ u.kind = "degenT2t"  BY DEF Degens
<1> QED  BY <1>2, <1>7, <1>3, <1>4, <1>5, <1>6 DEF IsPool, Fixed, Written, Kinds, ConstFn, Degens

\* The families of pools do not overlap.
LEMMA Families ==
  ASSUME NEW k
  PROVE  /\ k \in ConstFn => k # "balance" /\ k # "stable" /\ k \notin Degens /\ k \in Kinds
         /\ k = "balance" => k \notin ConstFn /\ k # "stable" /\ k \notin Degens /\ k \in Kinds
         /\ k = "stable" => k \notin ConstFn /\ k # "balance" /\ k \notin Degens /\ k \in Kinds
         /\ k \in Degens => k \notin ConstFn /\ k # "balance" /\ k # "stable" /\ k \in Kinds
         /\ k = "classic" => /\ k \in ConstFn /\ k \notin {"feeswitch", "bidir"} /\ k # "feeswitch" /\ k # "bidir"
                             /\ k \notin {"royalty1", "royalty1f"} /\ k # "royalty2" /\ k \notin Royalties
         /\ k \in {"feeswitch", "bidir"} =>
              /\ k \in ConstFn /\ k # "classic"
              /\ k \notin {"royalty1", "royalty1f"} /\ k # "royalty2" /\ k \notin Royalties
         /\ k \in {"royalty1", "royalty1f"} =>
              /\ k \in ConstFn /\ k # "classic" /\ k \notin {"feeswitch", "bidir"} /\ k # "feeswitch" /\ k # "bidir"
              /\ k # "royalty2" /\ k \in Royalties
         /\ k = "royalty2" =>
              /\ k \in ConstFn /\ k # "classic" /\ k \notin {"feeswitch", "bidir"} /\ k # "feeswitch" /\ k # "bidir"
              /\ k \notin {"royalty1", "royalty1f"} /\ k \in Royalties
         /\ k \in Royalties => k \in {"royalty1", "royalty1f"} \/ k = "royalty2"
         /\ k \in Kinds => k \in ConstFn \/ k = "balance" \/ k = "stable" \/ k \in Degens
         /\ k \in ConstFn => k = "classic" \/ k = "feeswitch" \/ k = "bidir" \/ k \in {"royalty1", "royalty1f"}
                             \/ k = "royalty2"
         /\ k \in Degens => k = "degen" \/ k = "degenT2t"
BY DEF ConstFn, Royalties, Degens, Kinds

LEMMA FromLedgerFamily ==
  ASSUME NEW u
  PROVE  /\ u.kind = "classic" => FromLedger(u) = ClassicFromLedger(u)
         /\ u.kind = "feeswitch" => FromLedger(u) = FeeSwitchFromLedger(u)
         /\ u.kind = "bidir" => FromLedger(u) = BiDirFromLedger(u)
         /\ u.kind \in {"royalty1", "royalty1f"} => FromLedger(u) = RoyaltyV1FromLedger(u)
         /\ u.kind = "royalty2" => FromLedger(u) = RoyaltyV2FromLedger(u)
         /\ u.kind = "balance" => FromLedger(u) = BalanceFromLedger(u)
         /\ u.kind = "stable" => FromLedger(u) = StableFromLedger(u)
         /\ u.kind \in Degens => FromLedger(u) = DegenFromLedger(u)
<1>1. u.kind \in ConstFn => FromLedger(u) = ConstFnFromLedger(u)  BY Families, Zenon DEF FromLedger
<1>2. u.kind = "classic" => ConstFnFromLedger(u) = ClassicFromLedger(u)
  BY Families, Zenon DEF ConstFnFromLedger
<1>3. u.kind = "feeswitch" => ConstFnFromLedger(u) = FeeSwitchFromLedger(u)
  BY Families, "feeswitch" # "bidir", "feeswitch" # "classic", Zenon DEF ConstFnFromLedger
<1>4. u.kind = "bidir" => ConstFnFromLedger(u) = BiDirFromLedger(u)
  BY Families, Zenon DEF ConstFnFromLedger
<1>5. u.kind \in {"royalty1", "royalty1f"} => ConstFnFromLedger(u) = RoyaltyV1FromLedger(u)
  BY Families, Zenon DEF ConstFnFromLedger
<1>6. u.kind = "royalty2" => ConstFnFromLedger(u) = RoyaltyV2FromLedger(u)
  BY Families, Zenon DEF ConstFnFromLedger
<1>7. /\ u.kind = "balance" => FromLedger(u) = BalanceFromLedger(u)
      /\ u.kind = "stable" => FromLedger(u) = StableFromLedger(u)
      /\ u.kind \in Degens => FromLedger(u) = DegenFromLedger(u)
  BY Families, Zenon DEF FromLedger
<1> QED  BY <1>1, <1>2, <1>3, <1>4, <1>5, <1>6, <1>7, Families

\* A pool that is read from an output agrees with it.
LEMMA FromLedgerReads ==
  ASSUME NEW u, IsOutput(u), u.kind \in Kinds, NEW r \in FromLedger(u)
  PROVE  /\ DatumRead(u, r) /\ r.rx = u.value[r.x] /\ r.ry = u.value[r.y]
         /\ r.kind \notin Degens => r.lq = Minus(MaxLqCap, u.value["lq"])
         /\ r.kind \in ConstFn => r.stake = u.stake
<1> DEFINE Agrees == IsPool(r) /\ Fixed(u, r) /\ Written(u, r)
           Valued == /\ r.rx = u.value[r.x] /\ r.ry = u.value[r.y]
                     /\ r.kind \notin Degens => r.lq = Minus(MaxLqCap, u.value["lq"])
<1>1. u.kind = "classic" => Agrees /\ Valued /\ r.stake = u.stake
  BY FromLedgerFamily, ClassicReads DEF FromValue
<1>2. u.kind = "feeswitch" => Agrees /\ Valued /\ r.stake = u.stake
  BY FromLedgerFamily, FeeSwitchReads DEF FromValue
<1>3. u.kind = "bidir" => Agrees /\ Valued /\ r.stake = u.stake
  BY FromLedgerFamily, BiDirReads DEF FromValue
<1>4. u.kind \in {"royalty1", "royalty1f"} => Agrees /\ Valued /\ r.stake = u.stake
  BY FromLedgerFamily, RoyaltyV1Reads DEF FromValue
<1>5. u.kind = "royalty2" => Agrees /\ Valued /\ r.stake = u.stake
  BY FromLedgerFamily, RoyaltyV2Reads DEF FromValue
<1>6. u.kind = "balance" => Agrees /\ Valued /\ r.stake = 0
  BY FromLedgerFamily, BalanceReads DEF FromValue
<1>7. u.kind = "stable" => Agrees /\ Valued /\ r.stake = 0
  BY FromLedgerFamily, StableReads DEF FromValue
<1>8. u.kind \in Degens => Agrees /\ Valued /\ r.stake = 0
  <2>1. ASSUME u.kind \in Degens PROVE Agrees /\ r.rx = u.value[r.x] /\ r.ry = u.value[r.y] /\ r.stake = 0
    BY <2>1, FromLedgerFamily, DegenReads
  <2>2. ASSUME u.kind \in Degens PROVE r.kind \in Degens  BY <2>1, <2>2 DEF Fixed
  <2> QED  BY <2>1, <2>2
<1> HIDE DEF Valued
<1>9. Agrees /\ Valued /\ (u.kind \in ConstFn => r.stake = u.stake)
  <2> HIDE DEF Agrees
  <2>1. \/ u.kind = "classic" \/ u.kind = "feeswitch" \/ u.kind = "bidir" \/ u.kind \in {"royalty1", "royalty1f"}
        \/ u.kind = "royalty2" \/ u.kind = "balance" \/ u.kind = "stable" \/ u.kind \in Degens
    BY Families
  <2>2. Agrees /\ Valued  BY <2>1, <1>1, <1>2, <1>3, <1>4, <1>5, <1>6, <1>7, <1>8, Zenon
  <2> QED  BY <2>2, <1>1, <1>2, <1>3, <1>4, <1>5, Families
<1>10. r.kind = u.kind  BY <1>9 DEF Fixed
<1>11. u.kind \in {"balance", "stable"} \cup Degens => r.stake = 0
  <2> HIDE DEF Agrees
  <2> QED  BY <1>6, <1>7, <1>8
<1>12. StakeRead(r)  BY <1>10, <1>11 DEF StakeRead
<1> QED  BY <1>9, <1>10, <1>12 DEF DatumRead, Valued

-----------------------------------------------------------------------------
(* Trades                                                                   *)

\* swap moves the reserves and what is set aside, of the pool's kind.
LEMMA MovedFrame ==
  ASSUME NEW p, IsPool(p), NEW inX, NEW amount, NEW out
  PROVE  LET q == Moved(p, inX, amount, out)
         IN  q = [f \in Fields |-> q[f]] /\ Same(p, q, Fields \ {"rx", "ry"})
<1>1. CASE inX  BY <1>1, Zenon DEF Moved, IsPool, Fields, Same
<1>2. CASE ~ inX  BY <1>2, Zenon DEF Moved, IsPool, Fields, Same
<1> QED  BY <1>1, <1>2

LEMMA ToTreasuryFrame ==
  ASSUME NEW p, p = [f \in Fields |-> p[f]], NEW inX, NEW cut
  PROVE  LET q == ToTreasury(p, inX, cut)
         IN  q = [f \in Fields |-> q[f]] /\ Same(p, q, Fields \ {"tx", "ty"})
<1>1. CASE inX  BY <1>1 DEF ToTreasury, Fields, Same
<1>2. CASE ~ inX  BY <1>2 DEF ToTreasury, Fields, Same
<1> QED  BY <1>1, <1>2

\* What the kinds of pools may change in a trade.
LEMMA ClassicSwapFrame ==
  ASSUME NEW p, IsPool(p), NEW inX, NEW amount
  PROVE  LET q == ClassicSwap(p, inX, amount)
         IN  q = [f \in Fields |-> q[f]] /\ Same(p, q, Fields \ {"rx", "ry"})
BY MovedFrame DEF ClassicSwap

LEMMA FeeSwitchSwapFrame ==
  ASSUME NEW p, IsPool(p), NEW inX, NEW amount
  PROVE  /\ LET q == FeeSwitchSwap(p, inX, amount)
            IN  q = [f \in Fields |-> q[f]] /\ Same(p, q, Fields \ {"rx", "ry", "tx", "ty"})
         /\ LET q == BalanceSwap(p, inX, amount)
            IN  q = [f \in Fields |-> q[f]] /\ Same(p, q, Fields \ {"rx", "ry", "tx", "ty"})
<1> DEFINE m == Moved(p, inX, amount, OutputAmount(p, inX, amount))
           q == ToTreasury(m, inX, Cut(amount, p.tf))
<1>1. m = [f \in Fields |-> m[f]] /\ Same(p, m, Fields \ {"rx", "ry"})  BY MovedFrame
<1> HIDE DEF m
<1>2. q = [f \in Fields |-> q[f]] /\ Same(m, q, Fields \ {"tx", "ty"})  BY <1>1, ToTreasuryFrame
<1> HIDE DEF q
<1>3. Same(p, q, Fields \ {"rx", "ry", "tx", "ty"})  BY <1>1, <1>2 DEF Same
<1> QED  BY <1>2, <1>3 DEF q, m, FeeSwitchSwap, BalanceSwap

LEMMA RoyaltySwapFrame ==
  ASSUME NEW p, IsPool(p), NEW inX, NEW amount
  PROVE  LET q == RoyaltySwap(p, inX, amount)
         IN  /\ q = [f \in Fields |-> q[f]]
             /\ Same(p, q, Fields \ {"rx", "ry", "tx", "ty", "r1x", "r1y", "r2x", "r2y"})
             /\ q.r2x \in {p.r2x, p.r2x + Cut(amount, p.r2f)} /\ q.r2y \in {p.r2y, p.r2y + Cut(amount, p.r2f)}
<1> DEFINE m == Moved(p, inX, amount, OutputAmount(p, inX, amount))
           q == RoyaltySwap(p, inX, amount)
           t == Cut(amount, p.tf)
           k == Cut(amount, p.r1f)
           l == Cut(amount, p.r2f)
<1>1. m = [f \in Fields |-> m[f]] /\ Same(p, m, Fields \ {"rx", "ry"})  BY MovedFrame
<1>2. q = IF inX THEN [m EXCEPT !.tx = @ + t, !.r1x = @ + k, !.r2x = @ + l]
                 ELSE [m EXCEPT !.ty = @ + t, !.r1y = @ + k, !.r2y = @ + l]
  BY DEF RoyaltySwap
<1>3. m.r2x = p.r2x /\ m.r2y = p.r2y  BY <1>1 DEF Same, Fields
<1> HIDE DEF m, q, t, k, l
<1>4. CASE inX
  <2>1. q = [m EXCEPT !.tx = @ + t, !.r1x = @ + k, !.r2x = @ + l]  BY <1>2, <1>4
  <2>2. q = [f \in Fields |-> q[f]]  BY <1>1, <2>1, Zenon
  <2>3. Same(m, q, Fields \ {"tx", "r1x", "r2x"}) /\ q.r2x = m.r2x + l  BY <1>1, <2>1, Zenon DEF Fields, Same
  <2>4. Same(p, q, Fields \ {"rx", "ry", "tx", "ty", "r1x", "r1y", "r2x", "r2y"})  BY <1>1, <2>3 DEF Same
  <2>5. q.r2y = m.r2y  BY <2>3 DEF Same, Fields
  <2> QED  BY <1>3, <2>2, <2>3, <2>4, <2>5 DEF q, l
<1>5. CASE ~ inX
  <2>1. q = [m EXCEPT !.ty = @ + t, !.r1y = @ + k, !.r2y = @ + l]  BY <1>2, <1>5
  <2>2. q = [f \in Fields |-> q[f]]  BY <1>1, <2>1, Zenon
  <2>3. Same(m, q, Fields \ {"ty", "r1y", "r2y"}) /\ q.r2y = m.r2y + l  BY <1>1, <2>1, Zenon DEF Fields, Same
  <2>4. Same(p, q, Fields \ {"rx", "ry", "tx", "ty", "r1x", "r1y", "r2x", "r2y"})  BY <1>1, <2>3 DEF Same
  <2>5. q.r2x = m.r2x  BY <2>3 DEF Same, Fields
  <2> QED  BY <1>3, <2>2, <2>3, <2>4, <2>5 DEF q, l
<1> QED  BY <1>4, <1>5

LEMMA StableSwapFrame ==
  ASSUME NEW p, IsPool(p), NEW inX, NEW side, NEW amount
  PROVE  LET q == StableSwap(p, inX, side, amount)
         IN  q = [f \in Fields |-> q[f]] /\ Same(p, q, Fields \ {"rx", "ry", "tx", "ty"})
<1> DEFINE pure == OutputAmount(p, inX, amount)
           lpFees   == StableLpFee(p, pure)
           treasury == StableTreasuryFee(p, pure, lpFees)
           m        == Moved(p, inX, amount, pure - treasury - lpFees)
           q        == StableSwap(p, inX, side, amount)
<1>1. m = [f \in Fields |-> m[f]] /\ Same(p, m, Fields \ {"rx", "ry"})  BY MovedFrame
<1>2. q = IF side = "Bid" THEN [m EXCEPT !.tx = @ + treasury] ELSE [m EXCEPT !.ty = @ + treasury]
  BY DEF StableSwap, StableCharged
<1> HIDE DEF m, q, treasury
<1>3. q = [f \in Fields |-> q[f]] /\ Same(m, q, Fields \ {"tx", "ty"})  BY <1>1, <1>2 DEF Fields, Same
<1>4. Same(p, q, Fields \ {"rx", "ry", "tx", "ty"})  BY <1>1, <1>3 DEF Same
<1> QED  BY <1>3, <1>4 DEF q

LEMMA DegenSwapFrame ==
  ASSUME NEW p, IsPool(p), NEW inX, NEW amount
  PROVE  /\ LET q == DegenSwap(p, inX, amount)
            IN  q = [f \in Fields |-> q[f]] /\ Same(p, q, Fields \ {"rx", "ry"})
         /\ LET q == DegenT2tSwap(p, inX, amount)
            IN  q = [f \in Fields |-> q[f]] /\ Same(p, q, Fields \ {"rx", "ry", "tx"})
<1>1. LET q == DegenSwap(p, inX, amount)
      IN  q = [f \in Fields |-> q[f]] /\ Same(p, q, Fields \ {"rx", "ry"})
  BY MovedFrame DEF DegenSwap
<1> DEFINE q == DegenT2tSwap(p, inX, amount)
           buy == Moved(p, TRUE, amount, DegenT2tOutput(p, TRUE, AdjustedXInput(amount)))
           out == DegenT2tOutput(p, FALSE, amount)
           sell == Moved(p, FALSE, amount, AdjustedXOutput(out))
           buyFee == AdjustedXFee(amount)
           sellFee == AdjustedXFee(out)
<1>2. /\ buy = [f \in Fields |-> buy[f]] /\ Same(p, buy, Fields \ {"rx", "ry"})
      /\ sell = [f \in Fields |-> sell[f]] /\ Same(p, sell, Fields \ {"rx", "ry"})
  BY MovedFrame, Zenon
<1>3. q = IF inX THEN [buy EXCEPT !.tx = @ + buyFee] ELSE [sell EXCEPT !.tx = @ + sellFee]
  BY DEF DegenT2tSwap
<1> HIDE DEF q, buy, sell, buyFee, sellFee
<1>4. CASE inX
  <2>1. q = [buy EXCEPT !.tx = @ + buyFee]  BY <1>3, <1>4
  <2>2. q = [f \in Fields |-> q[f]] /\ Same(buy, q, Fields \ {"tx"})  BY <1>2, <2>1 DEF Fields, Same
  <2>3. Same(p, q, Fields \ {"rx", "ry", "tx"})  BY <1>2, <2>2 DEF Same
  <2> QED  BY <1>1, <2>2, <2>3 DEF q
<1>5. CASE ~ inX
  <2>1. q = [sell EXCEPT !.tx = @ + sellFee]  BY <1>3, <1>5
  <2>2. q = [f \in Fields |-> q[f]] /\ Same(sell, q, Fields \ {"tx"})  BY <1>2, <2>1 DEF Fields, Same
  <2>3. Same(p, q, Fields \ {"rx", "ry", "tx"})  BY <1>2, <2>2 DEF Same
  <2> QED  BY <1>1, <2>2, <2>3 DEF q
<1> QED  BY <1>4, <1>5

\* The kind of a pool picks its swap.
LEMMA SwapFamily ==
  ASSUME NEW p, NEW side, NEW amount
  PROVE  LET inX == InX(p, side)
             q == SwapPool(p, side, amount)
         IN  /\ p.kind = "classic" => q = ClassicSwap(p, inX, amount)
             /\ p.kind \in {"feeswitch", "bidir"} => q = FeeSwitchSwap(p, inX, amount)
             /\ p.kind \in Royalties => q = RoyaltySwap(p, inX, amount)
             /\ p.kind = "balance" => q = BalanceSwap(p, inX, amount)
             /\ p.kind = "stable" => q = StableSwap(p, inX, side, amount)
             /\ p.kind = "degen" => q = DegenSwap(p, inX, amount)
             /\ p.kind = "degenT2t" => q = DegenT2tSwap(p, inX, amount)
<1> DEFINE inX == InX(p, side)
           q == SwapPool(p, side, amount)
<1>1. p.kind = "degen" => p.kind \in Degens /\ p.kind # "degenT2t"  BY DEF Degens
<1>2. p.kind = "degenT2t" => p.kind \in Degens /\ p.kind # "degen"  BY DEF Degens
<1>4. p.kind \in ConstFn => q = ConstFnSwap(p, inX, amount)
  <2>1. p.kind \in ConstFn => p.kind # "degen" /\ p.kind # "degenT2t"  BY DEF ConstFn
  <2> QED  BY <2>1, Families, Zenon DEF SwapPool
<1>5. p.kind = "classic" => ConstFnSwap(p, inX, amount) = ClassicSwap(p, inX, amount)
  BY Families, Zenon DEF ConstFnSwap
<1>6. p.kind \in {"feeswitch", "bidir"} => ConstFnSwap(p, inX, amount) = FeeSwitchSwap(p, inX, amount)
  BY Families, Zenon DEF ConstFnSwap
<1>7. p.kind \in Royalties => ConstFnSwap(p, inX, amount) = RoyaltySwap(p, inX, amount)
  BY Families, Zenon DEF ConstFnSwap
<1>8. p.kind = "balance" => q = BalanceSwap(p, inX, amount)
  <2>1. p.kind = "balance" => p.kind # "degen" /\ p.kind # "degenT2t"  OBVIOUS
  <2> QED  BY <2>1, Families, Zenon DEF SwapPool
<1>9. p.kind = "stable" => q = StableSwap(p, inX, side, amount)
  <2>1. p.kind = "stable" => p.kind # "degen" /\ p.kind # "degenT2t"  OBVIOUS
  <2> QED  BY <2>1, Families, Zenon DEF SwapPool
<1>10. p.kind = "degen" => q = DegenSwap(p, inX, amount)  BY <1>1, Families, Zenon DEF SwapPool
<1>11. p.kind = "degenT2t" => q = DegenT2tSwap(p, inX, amount)  BY <1>2, Families, Zenon DEF SwapPool
<1> HIDE DEF q, inX
<1>12. p.kind = "classic" => p.kind \in ConstFn  BY Families
<1>13. p.kind \in {"feeswitch", "bidir"} => p.kind \in ConstFn  BY Families
<1>14. p.kind \in Royalties => p.kind \in ConstFn  BY Families
<1> QED  BY <1>4, <1>5, <1>6, <1>7, <1>8, <1>9, <1>10, <1>11, <1>12, <1>13, <1>14 DEF q, inX

\* A trade leaves alone what it does not write, of a pool of any kind.
LEMMA SwapFixed ==
  ASSUME NEW u, NEW p, IsPool(p), Fixed(u, p), NEW side, NEW amount \in Nat
  PROVE  LET q == SwapPool(p, side, amount)
         IN  IsPool(q) /\ Fixed(u, q) /\ Same(p, q, {"kind", "x", "y", "lq", "fx", "fy", "nonce", "stake"})
<1> DEFINE q == SwapPool(p, side, amount)
<1> HIDE DEF q
<1>1. ASSUME p.kind = "classic" \/ p.kind = "degen"
      PROVE  IsPool(q) /\ Fixed(u, q) /\ Same(p, q, {"kind", "x", "y", "lq", "fx", "fy", "nonce", "stake"})
  <2>1. q = [f \in Fields |-> q[f]] /\ Same(p, q, Fields \ {"rx", "ry"})
    BY <1>1, SwapFamily, ClassicSwapFrame, DegenSwapFrame DEF q
  <2>2. /\ q.kind = p.kind /\ q.x = p.x /\ q.y = p.y /\ q.lq = p.lq /\ q.fx = p.fx /\ q.fy = p.fy
        /\ q.nonce = p.nonce /\ q.stake = p.stake /\ q.lqBound = p.lqBound /\ q.tx = p.tx
    BY <2>1 DEF Same, Fields
  <2>3. \A S \in SUBSET (Fields \ {"rx", "ry"}) : Zero(p, S) => Zero(q, S)  BY <2>1 DEF Same, Zero
  <2>4. /\ {"tf", "tx", "ty"} \cup First \cup Second \cup Credentials \in SUBSET (Fields \ {"rx", "ry"})
        /\ {"lq", "tf", "ty"} \cup First \cup Second \cup Credentials \in SUBSET (Fields \ {"rx", "ry"})
    BY DEF First, Second, Credentials, Fields
  <2>5. q.kind = "classic" \/ q.kind = "degen"  BY <1>1, <2>2
  <2>6. IsPool(q)  BY <2>1, <2>2 DEF IsPool
  <2>7. Fixed(u, q)
    <3>1. CASE p.kind = "classic"  BY <3>1, <2>2, <2>3, <2>4 DEF Fixed, Degens
    <3>2. CASE p.kind = "degen"  BY <3>2, <2>2, <2>3, <2>4 DEF Fixed, Degens
    <3> QED  BY <1>1, <3>1, <3>2
  <2> QED  BY <2>2, <2>6, <2>7 DEF Same
<1>2. ASSUME p.kind \in {"feeswitch", "bidir"} \/ p.kind = "balance" \/ p.kind = "stable"
      PROVE  IsPool(q) /\ Fixed(u, q) /\ Same(p, q, {"kind", "x", "y", "lq", "fx", "fy", "nonce", "stake"})
  <2>1. q = [f \in Fields |-> q[f]] /\ Same(p, q, Fields \ {"rx", "ry", "tx", "ty"})
    BY <1>2, SwapFamily, FeeSwitchSwapFrame, StableSwapFrame DEF q
  <2>2. /\ q.kind = p.kind /\ q.x = p.x /\ q.y = p.y /\ q.lq = p.lq /\ q.fx = p.fx /\ q.fy = p.fy
        /\ q.nonce = p.nonce /\ q.stake = p.stake /\ q.lqBound = p.lqBound /\ q.tf = p.tf
        /\ q.r1f = p.r1f /\ q.r1x = p.r1x /\ q.r1y = p.r1y
    BY <2>1 DEF Same, Fields
  <2>3. \A S \in SUBSET (Fields \ {"rx", "ry", "tx", "ty"}) : Zero(p, S) => Zero(q, S)  BY <2>1 DEF Same, Zero
  <2>4. /\ First \cup Second \cup Credentials \in SUBSET (Fields \ {"rx", "ry", "tx", "ty"})
        /\ First \cup Second \cup Credentials \cup {"lqBound"} \in SUBSET (Fields \ {"rx", "ry", "tx", "ty"})
        /\ Second \cup Credentials \cup {"lqBound"} \in SUBSET (Fields \ {"rx", "ry", "tx", "ty"})
    BY DEF First, Second, Credentials, Fields
  <2>6. IsPool(q)  BY <2>1, <2>2 DEF IsPool
  <2>7. Fixed(u, q)
    <3>1. CASE p.kind = "feeswitch"  BY <3>1, <2>2, <2>3, <2>4 DEF Fixed, Degens
    <3>2. CASE p.kind = "bidir"  BY <3>2, <2>2 DEF Fixed, Degens
    <3>3. CASE p.kind = "balance"  BY <3>3, <2>2, <2>3, <2>4 DEF Fixed, Degens
    <3>4. CASE p.kind = "stable"  BY <3>4, <2>2, <2>3, <2>4 DEF Fixed, Degens
    <3> QED  BY <1>2, <3>1, <3>2, <3>3, <3>4
  <2> QED  BY <2>2, <2>6, <2>7 DEF Same
<1>3. ASSUME p.kind \in Royalties
      PROVE  IsPool(q) /\ Fixed(u, q) /\ Same(p, q, {"kind", "x", "y", "lq", "fx", "fy", "nonce", "stake"})
  <2>1. /\ q = [f \in Fields |-> q[f]]
        /\ Same(p, q, Fields \ {"rx", "ry", "tx", "ty", "r1x", "r1y", "r2x", "r2y"})
        /\ q.r2x \in {p.r2x, p.r2x + Cut(amount, p.r2f)} /\ q.r2y \in {p.r2y, p.r2y + Cut(amount, p.r2f)}
    BY <1>3, SwapFamily, RoyaltySwapFrame DEF q
  <2>2. /\ q.kind = p.kind /\ q.x = p.x /\ q.y = p.y /\ q.lq = p.lq /\ q.fx = p.fx /\ q.fy = p.fy
        /\ q.nonce = p.nonce /\ q.stake = p.stake /\ q.lqBound = p.lqBound
        /\ q.key1 = p.key1 /\ q.key2 = p.key2 /\ q.r2f = p.r2f
    BY <2>1 DEF Same, Fields
  <2>3. IsPool(q)  BY <2>1, <2>2 DEF IsPool
  <2>4. CASE p.kind \in {"royalty1", "royalty1f"}
    <3>1. p.r2f = 0 /\ p.r2x = 0 /\ p.r2y = 0 /\ p.key2 = 0 /\ p.lqBound = 0
      BY <2>4 DEF Fixed, Zero, Second
    <3>2. Cut(amount, p.r2f) = 0
      <4>1. amount * 0 = 0 /\ 0 \div FeeDen = 0  BY AmmMathAssumption DEF AmmMathAssumption
      <4> QED  BY <3>1, <4>1 DEF Cut
    <3>3. Zero(q, Second \cup {"key2", "lqBound"})  BY <3>1, <3>2, <2>1, <2>2 DEF Zero, Second
    <3> QED  BY <2>2, <2>3, <2>4, <3>3 DEF Fixed, Degens, Same
  <2>5. CASE p.kind = "royalty2"  BY <2>2, <2>3, <2>5 DEF Fixed, Degens, Same, Zero
  <2> QED  BY <1>3, <2>4, <2>5 DEF Royalties
<1>4. ASSUME p.kind = "degenT2t"
      PROVE  IsPool(q) /\ Fixed(u, q) /\ Same(p, q, {"kind", "x", "y", "lq", "fx", "fy", "nonce", "stake"})
  <2>1. q = [f \in Fields |-> q[f]] /\ Same(p, q, Fields \ {"rx", "ry", "tx"})
    BY <1>4, SwapFamily, DegenSwapFrame DEF q
  <2>2. /\ q.kind = p.kind /\ q.x = p.x /\ q.y = p.y /\ q.lq = p.lq /\ q.fx = p.fx /\ q.fy = p.fy
        /\ q.nonce = p.nonce /\ q.stake = p.stake /\ q.lqBound = p.lqBound
    BY <2>1 DEF Same, Fields
  <2>3. \A S \in SUBSET (Fields \ {"rx", "ry", "tx"}) : Zero(p, S) => Zero(q, S)  BY <2>1 DEF Same, Zero
  <2>4. {"lq", "tf", "ty"} \cup First \cup Second \cup Credentials \in SUBSET (Fields \ {"rx", "ry", "tx"})
    BY DEF First, Second, Credentials, Fields
  <2>5. IsPool(q)  BY <2>1, <2>2 DEF IsPool
  <2>6. Fixed(u, q)  BY <1>4, <2>2, <2>3, <2>4 DEF Fixed, Degens
  <2> QED  BY <2>2, <2>5, <2>6 DEF Same
<1>5. \/ p.kind = "classic" \/ p.kind = "degen" \/ p.kind \in {"feeswitch", "bidir"}
      \/ p.kind = "balance" \/ p.kind = "stable" \/ p.kind \in Royalties \/ p.kind = "degenT2t"
  BY DEF IsPool, Kinds, ConstFn, Degens, Royalties
<1> QED  BY <1>1, <1>2, <1>3, <1>4, <1>5 DEF q

-----------------------------------------------------------------------------
(* What is written to the output is read back.                              *)

\* A datum has the eighteen fields the pools use.
IsDatum(d) == d = [i \in 1 .. 18 |-> d[i]]

\* The datum after an update of a pool, of any kind.
KindDatum(d, q) ==
  CASE q.kind \in ConstFn  -> ConstFnDatum(d, q)
    [] q.kind = "balance"  -> BalanceDatum(d, q)
    [] q.kind = "stable"   -> StableDatum(d, q)
    [] q.kind = "degen"    -> d
    [] q.kind = "degenT2t" -> DegenT2tDatum(d, q)

LEMMA FeeSwitchDatumWritten ==
  ASSUME NEW d, NEW q, IsDatum(d)
  PROVE  LET e == FeeSwitchDatum(d, q)
         IN  /\ IsDatum(e) /\ \A i \in 1 .. 18 : i \notin {6, 7} => e[i] = d[i]
             /\ e[6] = q.tx /\ e[7] = q.ty
<1> DEFINE e == FeeSwitchDatum(d, q)
<1>1. DOMAIN d = 1 .. 18  BY DEF IsDatum
<1>2. DOMAIN e = 1 .. 18  BY <1>1 DEF FeeSwitchDatum
<1>3. e = [i \in DOMAIN e |-> e[i]]  BY DEF FeeSwitchDatum
<1>4. \A i \in 1 .. 18 : i \notin {6, 7} => e[i] = d[i]  BY <1>1 DEF FeeSwitchDatum
<1>5. e[6] = q.tx  BY <1>1 DEF FeeSwitchDatum
<1>6. e[7] = q.ty  BY <1>1 DEF FeeSwitchDatum
<1> HIDE DEF e
<1>7. IsDatum(e)  BY <1>2, <1>3 DEF IsDatum
<1> QED  BY <1>7, <1>4, <1>5, <1>6 DEF e

LEMMA RoyaltyV1DatumWritten ==
  ASSUME NEW d, NEW q, IsDatum(d)
  PROVE  LET e == RoyaltyV1Datum(d, q)
         IN  /\ IsDatum(e) /\ \A i \in 1 .. 18 : i \notin {4, 5, 6, 7, 8, 9, 10, 11, 12, 14} => e[i] = d[i]
             /\ e[4] = q.fx /\ e[5] = q.tf /\ e[6] = q.r1f /\ e[7] = q.tx /\ e[8] = q.ty
             /\ e[9] = q.r1x /\ e[10] = q.r1y /\ e[11] = q.admin /\ e[12] = q.taddr /\ e[14] = q.nonce
<1> DEFINE d1 == [d EXCEPT ![4] = q.fx, ![5] = q.tf, ![6] = q.r1f, ![7] = q.tx]
           d2 == [d1 EXCEPT ![8] = q.ty, ![9] = q.r1x, ![10] = q.r1y, ![11] = q.admin]
           e == [d2 EXCEPT ![12] = q.taddr, ![14] = q.nonce]
<1>0. e = RoyaltyV1Datum(d, q)  BY DEF RoyaltyV1Datum
<1>1. DOMAIN d = 1 .. 18  BY DEF IsDatum
<1>2. DOMAIN d1 = 1 .. 18  BY <1>1
<1>3. \A i \in 1 .. 18 : i \notin {4, 5, 6, 7} => d1[i] = d[i]  BY <1>1
<1>4. d1[4] = q.fx  BY <1>1
<1>5. d1[5] = q.tf  BY <1>1
<1>6. d1[6] = q.r1f  BY <1>1
<1>7. d1[7] = q.tx  BY <1>1
<1> HIDE DEF d1
<1>8. DOMAIN d2 = 1 .. 18  BY <1>2
<1>9. \A i \in 1 .. 18 : i \notin {8, 9, 10, 11} => d2[i] = d1[i]  BY <1>2
<1>10. d2[8] = q.ty  BY <1>2
<1>11. d2[9] = q.r1x  BY <1>2
<1>12. d2[10] = q.r1y  BY <1>2
<1>13. d2[11] = q.admin  BY <1>2
<1> HIDE DEF d2
<1>14. DOMAIN e = 1 .. 18  BY <1>8
<1>15. e = [i \in DOMAIN e |-> e[i]]  OBVIOUS
<1>16. \A i \in 1 .. 18 : i \notin {12, 14} => e[i] = d2[i]  BY <1>8
<1>17. e[12] = q.taddr  BY <1>8
<1>18. e[14] = q.nonce  BY <1>8
<1> HIDE DEF e
<1>20. IsDatum(e)  BY <1>14, <1>15 DEF IsDatum
<1>21. \A i \in 1 .. 18 : i \notin {4, 5, 6, 7, 8, 9, 10, 11, 12, 14} => e[i] = d[i]  BY <1>3, <1>9,
  <1>16
<1>22. e[4] = q.fx /\ e[5] = q.tf /\ e[6] = q.r1f /\ e[7] = q.tx /\ e[8] = q.ty  BY <1>3, <1>4,
  <1>5, <1>6, <1>7, <1>9, <1>10, <1>11, <1>12, <1>13, <1>16, <1>17, <1>18
<1>23. e[9] = q.r1x /\ e[10] = q.r1y /\ e[11] = q.admin /\ e[12] = q.taddr /\ e[14] = q.nonce  BY
  <1>3, <1>4, <1>5, <1>6, <1>7, <1>9, <1>10, <1>11, <1>12, <1>13, <1>16, <1>17, <1>18
<1> QED  BY <1>20, <1>21, <1>0, <1>22, <1>23

LEMMA RoyaltyV2DatumWritten ==
  ASSUME NEW d, NEW q, IsDatum(d)
  PROVE  LET e == RoyaltyV2Datum(d, q)
         IN  /\ IsDatum(e) /\ \A i \in 1 .. 18 : i \notin {4, 5, 6, 7, 8, 9, 10, 11, 12, 13, 14, 15, 18} => e[i] = d[i]
             /\ e[4] = q.fx /\ e[5] = q.tf /\ e[6] = q.r1f /\ e[7] = q.r2f /\ e[8] = q.tx
             /\ e[9] = q.ty /\ e[10] = q.r1x /\ e[11] = q.r1y /\ e[12] = q.r2x /\ e[13] = q.r2y
             /\ e[14] = q.admin /\ e[15] = q.taddr /\ e[18] = q.nonce
<1> DEFINE d1 == [d EXCEPT ![4] = q.fx, ![5] = q.tf, ![6] = q.r1f, ![7] = q.r2f]
           d2 == [d1 EXCEPT ![8] = q.tx, ![9] = q.ty, ![10] = q.r1x, ![11] = q.r1y]
           d3 == [d2 EXCEPT ![12] = q.r2x, ![13] = q.r2y, ![14] = q.admin, ![15] = q.taddr]
           e == [d3 EXCEPT ![18] = q.nonce]
<1>0. e = RoyaltyV2Datum(d, q)  BY DEF RoyaltyV2Datum
<1>1. DOMAIN d = 1 .. 18  BY DEF IsDatum
<1>2. DOMAIN d1 = 1 .. 18  BY <1>1
<1>3. \A i \in 1 .. 18 : i \notin {4, 5, 6, 7} => d1[i] = d[i]  BY <1>1
<1>4. d1[4] = q.fx  BY <1>1
<1>5. d1[5] = q.tf  BY <1>1
<1>6. d1[6] = q.r1f  BY <1>1
<1>7. d1[7] = q.r2f  BY <1>1
<1> HIDE DEF d1
<1>8. DOMAIN d2 = 1 .. 18  BY <1>2
<1>9. \A i \in 1 .. 18 : i \notin {8, 9, 10, 11} => d2[i] = d1[i]  BY <1>2
<1>10. d2[8] = q.tx  BY <1>2
<1>11. d2[9] = q.ty  BY <1>2
<1>12. d2[10] = q.r1x  BY <1>2
<1>13. d2[11] = q.r1y  BY <1>2
<1> HIDE DEF d2
<1>14. DOMAIN d3 = 1 .. 18  BY <1>8
<1>15. \A i \in 1 .. 18 : i \notin {12, 13, 14, 15} => d3[i] = d2[i]  BY <1>8
<1>16. d3[12] = q.r2x  BY <1>8
<1>17. d3[13] = q.r2y  BY <1>8
<1>18. d3[14] = q.admin  BY <1>8
<1>19. d3[15] = q.taddr  BY <1>8
<1> HIDE DEF d3
<1>20. DOMAIN e = 1 .. 18  BY <1>14
<1>21. e = [i \in DOMAIN e |-> e[i]]  OBVIOUS
<1>22. \A i \in 1 .. 18 : i \notin {18} => e[i] = d3[i]  BY <1>14
<1>23. e[18] = q.nonce  BY <1>14
<1> HIDE DEF e
<1>25. IsDatum(e)  BY <1>20, <1>21 DEF IsDatum
<1>26. \A i \in 1 .. 18 : i \notin {4, 5, 6, 7, 8, 9, 10, 11, 12, 13, 14, 15, 18} => e[i] = d[i]  BY
  <1>3, <1>9, <1>15, <1>22
<1>27. e[4] = q.fx /\ e[5] = q.tf /\ e[6] = q.r1f /\ e[7] = q.r2f /\ e[8] = q.tx  BY <1>3, <1>4,
  <1>5, <1>6, <1>7, <1>9, <1>10, <1>11, <1>12, <1>13, <1>15, <1>16, <1>17, <1>18, <1>19, <1>22,
  <1>23
<1>28. e[9] = q.ty /\ e[10] = q.r1x /\ e[11] = q.r1y /\ e[12] = q.r2x /\ e[13] = q.r2y  BY <1>3,
  <1>4, <1>5, <1>6, <1>7, <1>9, <1>10, <1>11, <1>12, <1>13, <1>15, <1>16, <1>17, <1>18, <1>19,
  <1>22, <1>23
<1>29. e[14] = q.admin /\ e[15] = q.taddr /\ e[18] = q.nonce  BY <1>3, <1>4, <1>5, <1>6, <1>7, <1>9,
  <1>10, <1>11, <1>12, <1>13, <1>15, <1>16, <1>17, <1>18, <1>19, <1>22, <1>23
<1> QED  BY <1>25, <1>26, <1>0, <1>27, <1>28, <1>29

LEMMA BalanceDatumWritten ==
  ASSUME NEW d, NEW q, IsDatum(d)
  PROVE  LET e == BalanceDatum(d, q)
         IN  /\ IsDatum(e) /\ \A i \in 1 .. 18 : i \notin {6, 7} => e[i] = d[i]
             /\ e[6] = q.tx /\ e[7] = q.ty
<1> DEFINE e == BalanceDatum(d, q)
<1>1. DOMAIN d = 1 .. 18  BY DEF IsDatum
<1>2. DOMAIN e = 1 .. 18  BY <1>1 DEF BalanceDatum
<1>3. e = [i \in DOMAIN e |-> e[i]]  BY DEF BalanceDatum
<1>4. \A i \in 1 .. 18 : i \notin {6, 7} => e[i] = d[i]  BY <1>1 DEF BalanceDatum
<1>5. e[6] = q.tx  BY <1>1 DEF BalanceDatum
<1>6. e[7] = q.ty  BY <1>1 DEF BalanceDatum
<1> HIDE DEF e
<1>7. IsDatum(e)  BY <1>2, <1>3 DEF IsDatum
<1> QED  BY <1>7, <1>4, <1>5, <1>6 DEF e

LEMMA StableDatumWritten ==
  ASSUME NEW d, NEW q, IsDatum(d)
  PROVE  LET e == StableDatum(d, q)
         IN  /\ IsDatum(e) /\ \A i \in 1 .. 18 : i \notin {13, 14} => e[i] = d[i]
             /\ e[13] = q.tx /\ e[14] = q.ty
<1> DEFINE e == StableDatum(d, q)
<1>1. DOMAIN d = 1 .. 18  BY DEF IsDatum
<1>2. DOMAIN e = 1 .. 18  BY <1>1 DEF StableDatum
<1>3. e = [i \in DOMAIN e |-> e[i]]  BY DEF StableDatum
<1>4. \A i \in 1 .. 18 : i \notin {13, 14} => e[i] = d[i]  BY <1>1 DEF StableDatum
<1>5. e[13] = q.tx  BY <1>1 DEF StableDatum
<1>6. e[14] = q.ty  BY <1>1 DEF StableDatum
<1> HIDE DEF e
<1>7. IsDatum(e)  BY <1>2, <1>3 DEF IsDatum
<1> QED  BY <1>7, <1>4, <1>5, <1>6 DEF e

LEMMA DegenT2tDatumWritten ==
  ASSUME NEW d, NEW q, IsDatum(d)
  PROVE  LET e == DegenT2tDatum(d, q)
         IN  /\ IsDatum(e) /\ \A i \in 1 .. 18 : i \notin {7} => e[i] = d[i]
             /\ e[7] = q.tx
<1> DEFINE e == DegenT2tDatum(d, q)
<1>1. DOMAIN d = 1 .. 18  BY DEF IsDatum
<1>2. DOMAIN e = 1 .. 18  BY <1>1 DEF DegenT2tDatum
<1>3. e = [i \in DOMAIN e |-> e[i]]  BY DEF DegenT2tDatum
<1>4. \A i \in 1 .. 18 : i \notin {7} => e[i] = d[i]  BY <1>1 DEF DegenT2tDatum
<1>5. e[7] = q.tx  BY <1>1 DEF DegenT2tDatum
<1> HIDE DEF e
<1>6. IsDatum(e)  BY <1>2, <1>3 DEF IsDatum
<1> QED  BY <1>6, <1>4, <1>5 DEF e

\* The kind of a pool picks its datum.
LEMMA DatumFamily ==
  ASSUME NEW d, NEW q
  PROVE  /\ q.kind = "classic" => KindDatum(d, q) = d
         /\ q.kind \in {"feeswitch", "bidir"} => KindDatum(d, q) = FeeSwitchDatum(d, q)
         /\ q.kind \in {"royalty1", "royalty1f"} => KindDatum(d, q) = RoyaltyV1Datum(d, q)
         /\ q.kind = "royalty2" => KindDatum(d, q) = RoyaltyV2Datum(d, q)
         /\ q.kind = "balance" => KindDatum(d, q) = BalanceDatum(d, q)
         /\ q.kind = "stable" => KindDatum(d, q) = StableDatum(d, q)
         /\ q.kind = "degen" => KindDatum(d, q) = d
         /\ q.kind = "degenT2t" => KindDatum(d, q) = DegenT2tDatum(d, q)
         /\ q.kind \in ConstFn => KindDatum(d, q) = ConstFnDatum(d, q)
<1>1. q.kind \in ConstFn => KindDatum(d, q) = ConstFnDatum(d, q)
  <2>1. q.kind \in ConstFn => q.kind # "degen" /\ q.kind # "degenT2t"  BY DEF ConstFn
  <2> QED  BY <2>1, Families, Zenon DEF KindDatum
<1>2. q.kind = "classic" => ConstFnDatum(d, q) = d  BY Families, Zenon DEF ConstFnDatum
<1>3. q.kind \in {"feeswitch", "bidir"} => ConstFnDatum(d, q) = FeeSwitchDatum(d, q)
  BY Families, Zenon DEF ConstFnDatum
<1>4. q.kind \in {"royalty1", "royalty1f"} => ConstFnDatum(d, q) = RoyaltyV1Datum(d, q)
  BY Families, Zenon DEF ConstFnDatum
<1>5. q.kind = "royalty2" => ConstFnDatum(d, q) = RoyaltyV2Datum(d, q)
  BY Families, Zenon DEF ConstFnDatum
<1>6. /\ q.kind = "balance" => KindDatum(d, q) = BalanceDatum(d, q)
      /\ q.kind = "stable" => KindDatum(d, q) = StableDatum(d, q)
  <2>1. q.kind = "balance" \/ q.kind = "stable" => q.kind # "degen" /\ q.kind # "degenT2t"  OBVIOUS
  <2> QED  BY <2>1, Families, Zenon DEF KindDatum
<1>7. q.kind = "degen" => KindDatum(d, q) = d
  <2>1. q.kind = "degen" => q.kind \in Degens /\ q.kind # "degenT2t"  BY DEF Degens
  <2> QED  BY <2>1, Families, Zenon DEF KindDatum
<1>8. q.kind = "degenT2t" => KindDatum(d, q) = DegenT2tDatum(d, q)
  <2>1. q.kind = "degenT2t" => q.kind \in Degens /\ q.kind # "degen"  BY DEF Degens
  <2> QED  BY <2>1, Families, Zenon DEF KindDatum
<1> QED  BY <1>1, <1>2, <1>3, <1>4, <1>5, <1>6, <1>7, <1>8, Families

\* An update of the output keeps it readable: the new datum says what the pool is.
LEMMA WriteReads ==
  ASSUME NEW u, NEW q, NEW w, IsPool(q), Fixed(u, q), q.kind \in Royalties => q.fx = q.fy,
         IsDatum(u.datum),
         w.kind = u.kind, w.pair = u.pair, w.datum = KindDatum(u.datum, q)
  PROVE  IsDatum(w.datum) /\ Fixed(w, q) /\ Written(w, q)
<1> DEFINE d == u.datum
           e == w.datum
<1>1. CASE q.kind = "classic" \/ q.kind = "degen"
  <2>1. e = d  BY <1>1, DatumFamily
  <2>2. q.kind # "degenT2t" /\ q.kind \notin {"royalty1", "royalty1f"} /\ q.kind # "royalty2" /\ q.kind # "feeswitch"
        /\ q.kind # "balance" /\ q.kind # "stable"
    BY <1>1
  <2>3. Fixed(w, q)  BY <2>1, Zenon DEF Fixed
  <2>4. Written(w, q)  BY <2>2 DEF Written
  <2> QED  BY <2>1, <2>3, <2>4
<1>2. CASE q.kind \in {"feeswitch", "bidir"}
  <2>1. e = FeeSwitchDatum(d, q)  BY <1>2, DatumFamily, Zenon
  <2>2. /\ IsDatum(e) /\ \A i \in 1 .. 18 : i \notin {6, 7} => e[i] = d[i]
        /\ e[6] = q.tx /\ e[7] = q.ty
    <3>1. IsDatum(d)  OBVIOUS
    <3> HIDE DEF d, e
    <3> QED  BY <2>1, <3>1, FeeSwitchDatumWritten
  <2>9. e[4] = d[4] /\ e[5] = d[5] /\ e[9] = d[9]  BY <2>2
  <2>3. Fixed(w, q)  BY <1>2, <2>9, Zenon DEF Fixed, Degens
  <2>4. Written(w, q)  BY <1>2, <2>2, Zenon DEF Written
  <2> QED  BY <2>2, <2>3, <2>4
<1>3. CASE q.kind \in {"royalty1", "royalty1f"}
  <2>1. e = RoyaltyV1Datum(d, q)  BY <1>3, DatumFamily
  <2>2. /\ IsDatum(e) /\ \A i \in 1 .. 18 : i \notin {4, 5, 6, 7, 8, 9, 10, 11, 12, 14} => e[i] = d[i]
        /\ e[4] = q.fx /\ e[5] = q.tf /\ e[6] = q.r1f /\ e[7] = q.tx /\ e[8] = q.ty
        /\ e[9] = q.r1x /\ e[10] = q.r1y /\ e[11] = q.admin /\ e[12] = q.taddr /\ e[14] = q.nonce
    <3>1. IsDatum(d)  OBVIOUS
    <3> HIDE DEF d, e
    <3> QED  BY <2>1, <3>1, RoyaltyV1DatumWritten
  <2>9. e[13] = d[13]  BY <2>2
  <2>3. Fixed(w, q)  BY <1>3, <2>9, Zenon DEF Fixed, Degens
  <2>4. q.fx = q.fy  BY <1>3 DEF Royalties
  <2>5. Written(w, q)  BY <1>3, <2>2, <2>4, Zenon DEF Written
  <2> QED  BY <2>2, <2>3, <2>5
<1>4. CASE q.kind = "royalty2"
  <2>1. e = RoyaltyV2Datum(d, q)  BY <1>4, DatumFamily
  <2>2. /\ IsDatum(e) /\ \A i \in 1 .. 18 : i \notin {4, 5, 6, 7, 8, 9, 10, 11, 12, 13, 14, 15, 18} => e[i] = d[i]
        /\ e[4] = q.fx /\ e[5] = q.tf /\ e[6] = q.r1f /\ e[7] = q.r2f /\ e[8] = q.tx
        /\ e[9] = q.ty /\ e[10] = q.r1x /\ e[11] = q.r1y /\ e[12] = q.r2x /\ e[13] = q.r2y
        /\ e[14] = q.admin /\ e[15] = q.taddr /\ e[18] = q.nonce
    <3>1. IsDatum(d)  OBVIOUS
    <3> HIDE DEF d, e
    <3> QED  BY <2>1, <3>1, RoyaltyV2DatumWritten
  <2>9. e[16] = d[16] /\ e[17] = d[17]  BY <2>2
  <2>3. Fixed(w, q)  BY <1>4, <2>9, Zenon DEF Fixed, Degens
  <2>4. q.fx = q.fy  BY <1>4 DEF Royalties
  <2>5. Written(w, q)  BY <1>4, <2>2, <2>4, Zenon DEF Written
  <2> QED  BY <2>2, <2>3, <2>5
<1>5. CASE q.kind = "balance"
  <2>1. e = BalanceDatum(d, q)  BY <1>5, DatumFamily
  <2>2. /\ IsDatum(e) /\ \A i \in 1 .. 18 : i \notin {6, 7} => e[i] = d[i]
        /\ e[6] = q.tx /\ e[7] = q.ty
    <3>1. IsDatum(d)  OBVIOUS
    <3> HIDE DEF d, e
    <3> QED  BY <2>1, <3>1, BalanceDatumWritten
  <2>9. e[4] = d[4] /\ e[5] = d[5]  BY <2>2
  <2>3. Fixed(w, q)  BY <1>5, <2>9, Zenon DEF Fixed, Degens
  <2>4. Written(w, q)  BY <1>5, <2>2, Zenon DEF Written
  <2> QED  BY <2>2, <2>3, <2>4
<1>6. CASE q.kind = "stable"
  <2>1. e = StableDatum(d, q)  BY <1>6, DatumFamily, Zenon
  <2>2. /\ IsDatum(e) /\ \A i \in 1 .. 18 : i \notin {13, 14} => e[i] = d[i]
        /\ e[13] = q.tx /\ e[14] = q.ty
    <3>1. IsDatum(d)  OBVIOUS
    <3> HIDE DEF d, e
    <3> QED  BY <2>1, <3>1, StableDatumWritten
  <2>9. e[1] = d[1] /\ e[4] = d[4] /\ e[5] = d[5] /\ e[9] = d[9] /\ e[10] = d[10]  BY <2>2
  <2>3. Fixed(w, q)  BY <1>6, <2>9, Zenon DEF Fixed, Degens
  <2>4. Written(w, q)  BY <1>6, <2>2, Zenon DEF Written
  <2> QED  BY <2>2, <2>3, <2>4
<1>7. CASE q.kind = "degenT2t"
  <2>1. e = DegenT2tDatum(d, q)  BY <1>7, DatumFamily
  <2>2. /\ IsDatum(e) /\ \A i \in 1 .. 18 : i \notin {7} => e[i] = d[i]
        /\ e[7] = q.tx
    <3>1. IsDatum(d)  OBVIOUS
    <3> HIDE DEF d, e
    <3> QED  BY <2>1, <3>1, DegenT2tDatumWritten
  <2>9. e[3] = d[3] /\ e[4] = d[4] /\ e[6] = d[6]  BY <2>2
  <2>3. Fixed(w, q)  BY <1>7, <2>9, Zenon DEF Fixed, Degens
  <2>4. Written(w, q)  BY <1>7, <2>2, Zenon DEF Written
  <2> QED  BY <2>2, <2>3, <2>4
<1>8. \/ q.kind = "classic" \/ q.kind = "degen" \/ q.kind \in {"feeswitch", "bidir"}
      \/ q.kind \in {"royalty1", "royalty1f"} \/ q.kind = "royalty2"
      \/ q.kind = "balance" \/ q.kind = "stable" \/ q.kind = "degenT2t"
  BY DEF IsPool, Kinds, ConstFn, Degens
<1> QED  BY <1>1, <1>2, <1>3, <1>4, <1>5, <1>6, <1>7, <1>8

\* into_ledger and exec give an output of the pool with an updated datum.
LEMMA IntoLedgerOutput ==
  ASSUME NEW u, IsOutput(u), NEW q, IsPool(q), q.kind \notin Degens
  PROVE  LET w == IntoLedger(q, u)
         IN  /\ w = [f \in {"kind", "stake", "pair", "value", "datum"} |-> w[f]]
             /\ w.kind = u.kind /\ w.pair = u.pair /\ w.value = PoolValue(q, u) /\ w.datum = KindDatum(u.datum, q)
<1> DEFINE F == {"kind", "stake", "pair", "value", "datum"}
<1>0. u = [f \in F |-> u[f]]  BY DEF IsOutput
<1>4. CASE q.kind = "classic"
  <2>1. IntoLedger(q, u) = ClassicIntoLedger(q, u)  BY <1>4 DEF IntoLedger, Royalties
  <2>2. KindDatum(u.datum, q) = u.datum  BY <1>4, DatumFamily
  <2> QED  BY <1>0, <2>1, <2>2, Zenon DEF ClassicIntoLedger
<1>5. CASE q.kind \in {"feeswitch", "bidir"}
  <2>1. IntoLedger(q, u) = FeeSwitchIntoLedger(q, u)  BY <1>5 DEF IntoLedger, Royalties
  <2>2. KindDatum(u.datum, q) = FeeSwitchDatum(u.datum, q)  BY <1>5, DatumFamily
  <2> QED  BY <1>0, <2>1, <2>2, Zenon DEF FeeSwitchIntoLedger
<1>6. CASE q.kind \in Royalties
  <2>1. IntoLedger(q, u) = RoyaltyIntoLedger(q, u)  BY <1>6 DEF IntoLedger, Royalties
  <2>2. KindDatum(u.datum, q) = ConstFnDatum(u.datum, q)  BY <1>6 DEF KindDatum, ConstFn, Royalties
  <2> QED  BY <1>0, <2>1, <2>2, Zenon DEF RoyaltyIntoLedger
<1>7. CASE q.kind = "balance"
  <2>1. IntoLedger(q, u) = BalanceIntoLedger(q, u)  BY <1>7 DEF IntoLedger, Royalties
  <2>2. KindDatum(u.datum, q) = BalanceDatum(u.datum, q)  BY <1>7, DatumFamily
  <2> QED  BY <1>0, <2>1, <2>2, Zenon DEF BalanceIntoLedger
<1>8. CASE q.kind = "stable"
  <2>1. IntoLedger(q, u) = StableIntoLedger(q, u)  BY <1>8 DEF IntoLedger, Royalties
  <2>2. KindDatum(u.datum, q) = StableDatum(u.datum, q)  BY <1>8, DatumFamily
  <2> QED  BY <1>0, <2>1, <2>2, Zenon DEF StableIntoLedger
<1> QED  BY <1>4, <1>5, <1>6, <1>7, <1>8 DEF IsPool, Kinds, ConstFn, Royalties

LEMMA ExecOutput ==
  ASSUME NEW u, IsOutput(u), NEW p, NEW q, IsPool(p), q.kind = p.kind
  PROVE  LET w == PoolExec(u, p, q)
         IN  /\ w = [f \in {"kind", "stake", "pair", "value", "datum"} |-> w[f]]
             /\ w.kind = u.kind /\ w.pair = u.pair /\ w.value = Traded(u, p, q) /\ w.datum = KindDatum(u.datum, q)
<1>0. u = [f \in {"kind", "stake", "pair", "value", "datum"} |-> u[f]]  BY DEF IsOutput
<1>1. CASE p.kind \in ConstFn
  <2>1. PoolExec(u, p, q) = ConstFnExec(u, p, q)  BY <1>1, Families, Zenon DEF PoolExec
  <2>2. KindDatum(u.datum, q) = ConstFnDatum(u.datum, q)  BY <1>1, Families, Zenon DEF KindDatum
  <2> QED  BY <1>0, <2>1, <2>2, Zenon DEF ConstFnExec
<1>2. CASE p.kind = "balance"
  <2>1. PoolExec(u, p, q) = BalanceExec(u, p, q)  BY <1>2, Families, Zenon DEF PoolExec
  <2>2. KindDatum(u.datum, q) = BalanceDatum(u.datum, q)  BY <1>2, DatumFamily
  <2> QED  BY <1>0, <2>1, <2>2, Zenon DEF BalanceExec
<1>3. CASE p.kind = "stable"
  <2>1. PoolExec(u, p, q) = StableExec(u, p, q)  BY <1>3, Families, Zenon DEF PoolExec
  <2>2. KindDatum(u.datum, q) = StableDatum(u.datum, q)  BY <1>3, DatumFamily
  <2> QED  BY <1>0, <2>1, <2>2, Zenon DEF StableExec
<1>4. CASE p.kind \in Degens
  <2>1. PoolExec(u, p, q) = DegenExec(u, p, q)  BY <1>4, Families, Zenon DEF PoolExec
  <2>2. p.kind = "degen" => KindDatum(u.datum, q) = u.datum  BY DatumFamily
  <2>3. p.kind = "degenT2t" => KindDatum(u.datum, q) = DegenT2tDatum(u.datum, q)  BY DatumFamily
  <2>4. CASE p.kind = "degen"  BY <1>0, <2>1, <2>2, <2>4, Zenon DEF DegenExec
  <2>5. CASE p.kind = "degenT2t"  BY <1>0, <2>1, <2>3, <2>5, Zenon DEF DegenExec
  <2> QED  BY <1>4, <2>4, <2>5 DEF Degens
<1> QED  BY <1>1, <1>2, <1>3, <1>4 DEF IsPool, Kinds

\* The output after an update holds the pool after it.
LEMMA OutputHolds ==
  ASSUME NEW u, IsOutput(u), NEW q, IsPool(q), Fixed(u, q), StakeRead(q), q.kind \in Royalties => q.fx = q.fy,
         NEW w, w = [f \in {"kind", "stake", "pair", "value", "datum"} |-> w[f]],
         w.kind = u.kind, w.pair = u.pair, w.value = [a \in Assets |-> w.value[a]],
         w.datum = KindDatum(u.datum, q)
  PROVE  DatumRead(w, q)
<1>1. IsDatum(u.datum)  BY DEF IsOutput, IsDatum
<1>2. IsDatum(w.datum) /\ Fixed(w, q) /\ Written(w, q)  BY <1>1, WriteReads
<1>3. IsOutput(w)
  <2>1. w.datum = [i \in 1 .. 18 |-> w.datum[i]]  BY <1>2 DEF IsDatum
  <2>2. w.pair[1] \in Assets \ {"lq"} /\ w.pair[2] \in Assets \ {"lq"} /\ w.pair[1] # w.pair[2]  BY DEF IsOutput
  <2> QED  BY <2>1, <2>2 DEF IsOutput
<1> QED  BY <1>2, <1>3 DEF DatumRead

\* An output holds one pool, but for the reserves and the stake part.
LEMMA OnePool ==
  ASSUME NEW u, NEW p, NEW q, IsPool(p), Fixed(u, p), Written(u, p), Fixed(u, q), Written(u, q), p.kind # "bidir"
  PROVE  Same(p, q, Fields \ {"rx", "ry", "lq", "stake"}) /\ (p.kind \in Degens => q.lq = p.lq)
<1> DEFINE Others == Fields \ {"rx", "ry", "lq", "stake"}
<1>0. q.kind = p.kind /\ q.x = p.x /\ q.y = p.y  BY Zenon DEF Fixed
<1>1. ASSUME NEW S, NEW T, T \subseteq S, Zero(p, S), Zero(q, S) PROVE Same(p, q, T)  BY <1>1 DEF Zero, Same
<1>2. CASE p.kind = "classic"
  <2> DEFINE S == {"tf", "tx", "ty"} \cup First \cup Second \cup Credentials
  <2>1. Zero(p, S) /\ Zero(q, S)  BY <1>0, <1>2, Zenon DEF Fixed
  <2>2. q.fx = p.fx /\ q.fy = p.fy /\ q.lqBound = p.lqBound  BY <1>0, <1>2, Zenon DEF Fixed
  <2>3. Same(p, q, S)  BY <2>1, <1>1
  <2>4. Others \subseteq S \cup {"kind", "x", "y", "fx", "fy", "lqBound"}  BY DEF Fields, First, Second, Credentials
  <2>5. Same(p, q, Others)  BY <1>0, <2>2, <2>3, <2>4, Zenon DEF Same
  <2> QED  BY <1>2, <2>5 DEF Degens
<1>3. CASE p.kind = "feeswitch"
  <2> DEFINE S == First \cup Second \cup Credentials
  <2>1. Zero(p, S) /\ Zero(q, S)  BY <1>0, <1>3, Zenon DEF Fixed
  <2>2. q.fx = p.fx /\ q.fy = p.fy /\ q.tf = p.tf /\ q.lqBound = p.lqBound  BY <1>0, <1>3, Zenon DEF Fixed
  <2>3. q.tx = p.tx /\ q.ty = p.ty  BY <1>0, <1>3, Zenon DEF Written
  <2>4. Same(p, q, S)  BY <2>1, <1>1
  <2>5. Others \subseteq S \cup {"kind", "x", "y", "fx", "fy", "tf", "tx", "ty", "lqBound"}
    BY DEF Fields, First, Second, Credentials
  <2>6. Same(p, q, Others)  BY <1>0, <2>2, <2>3, <2>4, <2>5 DEF Same
  <2> QED  BY <1>3, <2>6 DEF Degens
<1>4. CASE p.kind \in {"royalty1", "royalty1f"}
  <2> DEFINE S == Second \cup {"key2", "lqBound"}
  <2>1. Zero(p, S) /\ Zero(q, S) /\ q.key1 = p.key1  BY <1>0, <1>4, Zenon DEF Fixed
  <2>2. q.fx = p.fx /\ q.fy = p.fy /\ q.tf = p.tf /\ q.r1f = p.r1f /\ q.tx = p.tx /\ q.ty = p.ty
    BY <1>0, <1>4, Zenon DEF Written
  <2>3. q.r1x = p.r1x /\ q.r1y = p.r1y /\ q.admin = p.admin /\ q.taddr = p.taddr /\ q.nonce = p.nonce
    BY <1>0, <1>4, Zenon DEF Written
  <2>4. Same(p, q, S)  BY <2>1, <1>1
  <2>5. Others \subseteq S \cup {"kind", "x", "y", "key1", "fx", "fy", "tf", "tx", "ty", "r1f", "r1x", "r1y",
                              "admin", "taddr", "nonce"}
    BY DEF Fields, Second
  <2>6. Same(p, q, Others)  BY <1>0, <2>1, <2>2, <2>3, <2>4, <2>5 DEF Same
  <2> QED  BY <1>4, <2>6 DEF Degens
<1>5. CASE p.kind = "royalty2"
  <2>1. q.key1 = p.key1 /\ q.key2 = p.key2 /\ q.lqBound = p.lqBound  BY <1>0, <1>5, Zenon DEF Fixed, Zero
  <2>2. q.fx = p.fx /\ q.fy = p.fy /\ q.tf = p.tf /\ q.r1f = p.r1f /\ q.r2f = p.r2f /\ q.tx = p.tx /\ q.ty = p.ty
    BY <1>0, <1>5, Zenon DEF Written
  <2>3. /\ q.r1x = p.r1x /\ q.r1y = p.r1y /\ q.r2x = p.r2x /\ q.r2y = p.r2y
        /\ q.admin = p.admin /\ q.taddr = p.taddr /\ q.nonce = p.nonce
    BY <1>0, <1>5, Zenon DEF Written
  <2>4. Others \subseteq {"kind", "x", "y", "key1", "key2", "lqBound", "fx", "fy", "tf", "tx", "ty", "r1f", "r1x", "r1y",
                        "r2f", "r2x", "r2y", "admin", "taddr", "nonce"}
    BY DEF Fields
  <2>5. Same(p, q, Others)  BY <1>0, <2>1, <2>2, <2>3, <2>4 DEF Same
  <2> QED  BY <1>5, <2>5 DEF Degens
<1>6. CASE p.kind = "balance"
  <2> DEFINE S == First \cup Second \cup Credentials \cup {"lqBound"}
  <2>1. Zero(p, S) /\ Zero(q, S)  BY <1>0, <1>6, Zenon DEF Fixed
  <2>2. q.fx = p.fx /\ q.fy = p.fy /\ q.tf = p.tf  BY <1>0, <1>6, Zenon DEF Fixed
  <2>3. q.tx = p.tx /\ q.ty = p.ty  BY <1>0, <1>6, Zenon DEF Written
  <2>4. Same(p, q, S)  BY <2>1, <1>1
  <2>5. Others \subseteq S \cup {"kind", "x", "y", "fx", "fy", "tf", "tx", "ty"}  BY DEF Fields, First, Second, Credentials
  <2>6. Same(p, q, Others)  BY <1>0, <2>2, <2>3, <2>4, <2>5 DEF Same
  <2> QED  BY <1>6, <2>6 DEF Degens
<1>7. CASE p.kind = "stable"
  <2> DEFINE S == Second \cup Credentials \cup {"lqBound"}
  <2>1. Zero(p, S) /\ Zero(q, S)  BY <1>0, <1>7, Zenon DEF Fixed
  <2>2. q.fx = p.fx /\ q.fy = p.fy /\ q.tf = p.tf /\ q.r1f = p.r1f /\ q.r1x = p.r1x /\ q.r1y = p.r1y
    BY <1>0, <1>7, Zenon DEF Fixed
  <2>3. q.tx = p.tx /\ q.ty = p.ty  BY <1>0, <1>7, Zenon DEF Written
  <2>4. Same(p, q, S)  BY <2>1, <1>1
  <2>5. Others \subseteq S \cup {"kind", "x", "y", "fx", "fy", "tf", "tx", "ty", "r1f", "r1x", "r1y"}
    BY DEF Fields, Second, Credentials
  <2>6. Same(p, q, Others)  BY <1>0, <2>2, <2>3, <2>4, <2>5 DEF Same
  <2> QED  BY <1>7, <2>6 DEF Degens
<1>8. CASE p.kind \in Degens
  <2> DEFINE S == {"lq", "tf", "ty"} \cup First \cup Second \cup Credentials
  <2>1. Zero(p, S) /\ Zero(q, S)  BY <1>0, <1>8, Zenon DEF Fixed
  <2>2. q.fx = p.fx /\ q.fy = p.fy /\ q.lqBound = p.lqBound  BY <1>0, <1>8, Zenon DEF Fixed
  <2>3. q.tx = p.tx
    <3>1. CASE p.kind = "degen"  BY <1>0, <1>8, <3>1, Zenon DEF Fixed
    <3>2. CASE p.kind = "degenT2t"  BY <1>0, <3>2, Zenon DEF Written
    <3> QED  BY <1>8, <3>1, <3>2 DEF Degens
  <2>4. Same(p, q, S)  BY <2>1, <1>1
  <2>5. Others \subseteq S \cup {"kind", "x", "y", "fx", "fy", "tx", "lqBound"}  BY DEF Fields, First, Second, Credentials
  <2>6. Same(p, q, Others)  BY <1>0, <2>2, <2>3, <2>4, <2>5, Zenon DEF Same
  <2>7. q.lq = p.lq  BY <2>4 DEF Same
  <2> QED  BY <2>6, <2>7
<1> QED  BY <1>2, <1>3, <1>4, <1>5, <1>6, <1>7, <1>8 DEF IsPool, Kinds, ConstFn

\* The two assets of a pool are different and none is the LP token.
LEMMA PoolPair ==
  ASSUME NEW u, NEW p, DatumRead(u, p)
  PROVE  p.x = u.pair[1] /\ p.y = u.pair[2] /\ p.x \in Assets /\ p.y \in Assets /\ p.x # p.y
         /\ p.x # "lq" /\ p.y # "lq" /\ "lq" \in Assets /\ DOMAIN u.value = Assets
BY DEF DatumRead, IsOutput, Fixed, Assets

-----------------------------------------------------------------------------
(* What orders may change.                                                  *)

\* A deposit or a redemption changes both reserves and the LP tokens issued.
LEMMA LiquidityFixed ==
  ASSUME NEW u, NEW p, NEW q, IsPool(p), Fixed(u, p), p.kind \notin Degens,
         q = [f \in Fields |-> q[f]], Same(p, q, Fields \ {"rx", "ry", "lq"})
  PROVE  IsPool(q) /\ Fixed(u, q) /\ Same(p, q, {"kind", "x", "y", "fx", "fy", "nonce", "stake"})
<1>1. /\ q.kind = p.kind /\ q.x = p.x /\ q.y = p.y /\ q.fx = p.fx /\ q.fy = p.fy /\ q.tf = p.tf
      /\ q.nonce = p.nonce /\ q.stake = p.stake
  BY DEF Same, Fields
<1>2. /\ q.lqBound = p.lqBound /\ q.key1 = p.key1 /\ q.key2 = p.key2
      /\ q.r1f = p.r1f /\ q.r1x = p.r1x /\ q.r1y = p.r1y
  BY DEF Same, Fields
<1>3. \A S \in SUBSET (Fields \ {"rx", "ry", "lq"}) : Zero(p, S) => Zero(q, S)  BY DEF Same, Zero
<1>4. /\ {"tf", "tx", "ty"} \cup First \cup Second \cup Credentials \in SUBSET (Fields \ {"rx", "ry", "lq"})
      /\ First \cup Second \cup Credentials \in SUBSET (Fields \ {"rx", "ry", "lq"})
      /\ First \cup Second \cup Credentials \cup {"lqBound"} \in SUBSET (Fields \ {"rx", "ry", "lq"})
      /\ Second \cup Credentials \cup {"lqBound"} \in SUBSET (Fields \ {"rx", "ry", "lq"})
      /\ Second \cup {"key2", "lqBound"} \in SUBSET (Fields \ {"rx", "ry", "lq"})
      /\ {"lqBound"} \in SUBSET (Fields \ {"rx", "ry", "lq"})
  BY DEF First, Second, Credentials, Fields
<1>5. IsPool(q)  BY <1>1 DEF IsPool
<1>6. Fixed(u, q)
  <2>1. CASE p.kind = "classic"  BY <2>1, <1>1, <1>2, <1>3, <1>4 DEF Fixed, Degens
  <2>2. CASE p.kind = "feeswitch"  BY <2>2, <1>1, <1>2, <1>3, <1>4, Zenon DEF Fixed, Degens
  <2>3. CASE p.kind = "bidir"  BY <2>3, <1>1 DEF Fixed, Degens
  <2>4. CASE p.kind \in {"royalty1", "royalty1f"}  BY <2>4, <1>1, <1>2, <1>3, <1>4, Zenon DEF Fixed, Degens
  <2>5. CASE p.kind = "royalty2"  BY <2>5, <1>1, <1>2, <1>3, <1>4, Zenon DEF Fixed, Degens
  <2>6. CASE p.kind = "balance"  BY <2>6, <1>1, <1>2, <1>3, <1>4, Zenon DEF Fixed, Degens
  <2>7. CASE p.kind = "stable"  BY <2>7, <1>1, <1>2, <1>3, <1>4, Zenon DEF Fixed, Degens
  <2> QED  BY <2>1, <2>2, <2>3, <2>4, <2>5, <2>6, <2>7 DEF IsPool, Kinds, ConstFn
<1> QED  BY <1>1, <1>5, <1>6 DEF Same

\* What a royalty pool never changes, but for the second royalty of the newer kind.
LEMMA RoyaltyFixed ==
  ASSUME NEW u, NEW p, NEW q, IsPool(p), Fixed(u, p), p.kind \in Royalties,
         q = [f \in Fields |-> q[f]], Same(p, q, {"kind", "x", "y", "key1", "key2", "lqBound"}),
         p.kind # "royalty2" => Same(p, q, Second)
  PROVE  IsPool(q) /\ Fixed(u, q)
<1>1. /\ q.kind = p.kind /\ q.x = p.x /\ q.y = p.y
      /\ q.key1 = p.key1 /\ q.key2 = p.key2 /\ q.lqBound = p.lqBound
  BY DEF Same
<1>2. IsPool(q)  BY <1>1 DEF IsPool
<1>3. CASE p.kind \in {"royalty1", "royalty1f"}
  <2>1. Zero(p, Second \cup {"key2", "lqBound"})  BY <1>3 DEF Fixed
  <2>2. Zero(q, Second \cup {"key2", "lqBound"})  BY <1>1, <1>3, <2>1 DEF Zero, Same
  <2> QED  BY <1>1, <1>2, <1>3, <2>2, Zenon DEF Fixed, Degens
<1>4. CASE p.kind = "royalty2"  BY <1>1, <1>2, <1>4, Zenon DEF Fixed, Degens, Zero
<1> QED  BY <1>3, <1>4 DEF Royalties

\* Subtraction of machine words.
LEMMA WordArithmetic ==
  ASSUME NEW a \in 0 .. Word - 1, MaxLqCap \in Nat, MaxLqCap < Word
  PROVE  /\ \A b \in Int : Minus(b + a, b) = a
         /\ Minus(MaxLqCap, a) \in 0 .. Word - 1 /\ Minus(MaxLqCap, Minus(MaxLqCap, a)) = a
<1>1. Word \in Nat /\ Word > 0 /\ MaxLqCap \in Nat /\ MaxLqCap < Word /\ a \in Nat /\ a < Word
  BY AmmMathAssumption DEF AmmMathAssumption
<1>2. \A n \in 0 .. Word - 1 : n % Word = n /\ (n - Word) % Word = n  BY <1>1
<1>3. \A b \in Int : Minus(b + a, b) = a
  <2> TAKE b \in Int
  <2>1. (b + a) - b = a  BY <1>1
  <2> QED  BY <1>2, <2>1 DEF Minus
<1>4. CASE a <= MaxLqCap
  <2>1. MaxLqCap - a \in 0 .. Word - 1 /\ MaxLqCap - (MaxLqCap - a) = a  BY <1>1, <1>4
  <2>2. Minus(MaxLqCap, a) = MaxLqCap - a  BY <1>2, <2>1 DEF Minus
  <2> QED  BY <1>2, <1>3, <2>1, <2>2 DEF Minus
<1>5. CASE a > MaxLqCap
  <2>1. MaxLqCap - a + Word \in 0 .. Word - 1 /\ (MaxLqCap - a + Word) - Word = MaxLqCap - a
        /\ MaxLqCap - (MaxLqCap - a + Word) = a - Word
    BY <1>1, <1>5
  <2>2. Minus(MaxLqCap, a) = MaxLqCap - a + Word  BY <1>2, <2>1 DEF Minus
  <2> QED  BY <1>2, <1>3, <2>1, <2>2 DEF Minus
<1> QED  BY <1>1, <1>3, <1>4, <1>5
=============================================================================
