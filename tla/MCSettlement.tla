---------------------------- MODULE MCSettlement ----------------------------
(***************************************************************************)
(* Three orders over one pool, fees in twentieths.                         *)
(***************************************************************************)
EXTENDS Settlement

\* A limit order: it gives n of in, at least num out for den in.
Limit(id, in, out, n, num, den, fee, budget, cost, marg) ==
  [id |-> id, script |-> "limit", in |-> in, out |-> out, tradable |-> n, num |-> num, den |-> den,
   fee |-> fee, cost |-> cost, marg |-> marg, mine |-> TRUE, state |-> "New", staked |-> TRUE,
   value |-> [a \in Assets |-> (IF a = in THEN n ELSE 0)
                + (IF a = Native THEN fee + budget + (IF out = Native THEN 0 ELSE MinLovelace) ELSE 0)]]

\* An instant order; cost is the lovelace that stays with it.
Instant(id, in, out, n, num, den, fee) ==
  [id |-> id, script |-> "instant", in |-> in, out |-> out, tradable |-> 0, num |-> num, den |-> den,
   fee |-> fee, cost |-> InstantMinLov, marg |-> 0, mine |-> TRUE, state |-> "New", staked |-> TRUE,
   value |-> [a \in Assets |-> (IF a = in THEN n ELSE 0) + (IF a = Native THEN fee + InstantMinLov ELSE 0)]]

Classic(x, y, rx, ry) ==
  [Blank EXCEPT !.x = x, !.y = y, !.rx = rx, !.ry = ry, !.fx = 19, !.fy = 19, !.lqBound = 5]
FeeSwitch(x, y, rx, ry) == [Classic(x, y, rx, ry) EXCEPT !.kind = "feeswitch", !.tf = 2, !.tx = 3, !.ty = 2]
Degen == [Blank EXCEPT !.kind = "degen", !.rx = 9, !.ry = 8, !.fx = 1, !.fy = 1, !.lqBound = 40]

Classified(inner, graduated) ==
  [inner |-> inner, graduated |-> graduated, enabled |-> TRUE, percent |-> 20, pending |-> 0]

\* Limit orders against each other and a pool of ADA and a token.
AdaPair ==
  {[orders |-> <<Limit(1, "ada", "a", n, 1, 2, 3, 9, 4, 2),
                 Limit(2, "a", "ada", k, q, 3, f, b, 4, 2),
                 Limit(3, "ada", "a", 5, 1, 2, 2, 6, 3, 2)>>,
    pool |-> Classified(p, g), o2o |-> TRUE, residual |-> r, funding |-> 20]
     : n \in {7, 8, 11, 13}, k \in {6, 8, 9}, q \in {1, 2}, f \in {1, 4}, b \in {8, 11}, g \in BOOLEAN, r \in BOOLEAN,
       p \in {Classic("ada", "a", 40, 40), FeeSwitch("a", "ada", 40, 35)}}

\* A large order the pool fills in parts, whose step costs less than the
\* transaction.
Partial ==
  {[orders |-> <<Limit(1, "ada", "a", n, 2, 3, 3, b, c, m),
                 Limit(2, "a", "ada", k, 2, 3, 2, b, c, m)>>,
    pool |-> Classified(Classic("ada", "a", 40, 40), g), o2o |-> o, residual |-> r, funding |-> 20]
     : n \in {20, 27}, k \in {5, 22}, b \in {6, 7, 12}, c \in {2, 4}, m \in {4, 6, 9}, g \in BOOLEAN, r \in BOOLEAN, o \in BOOLEAN}

\* Pairs of tokens.
TokenPair ==
  {[orders |-> <<Limit(1, "a", "b", n, 1, 2, 3, 9, 4, 2),
                 Limit(2, "b", "a", k, 1, 3, f, 8, 4, 2),
                 Limit(3, "a", "b", 5, 2, 3, 2, 6, 3, 2)>>,
    pool |-> Classified(Classic("a", "b", 40, 40), FALSE), o2o |-> o, residual |-> FALSE, funding |-> 20]
     : n \in {7, 11}, k \in {6, 8}, f \in {1, 4}, o \in BOOLEAN}

\* A large order over a pool of two tokens that graduated.
GraduatedTokenPair ==
  {[orders |-> <<Limit(1, "a", "b", n, 2, 3, 3, 20, 4, 4)>>,
    pool |-> Classified(Classic("a", "b", 40, 40), TRUE), o2o |-> FALSE, residual |-> FALSE, funding |-> 20]
     : n \in 20 .. 30}

\* Ad-hoc orders over the launchpad's pool.
Launchpad ==
  {[orders |-> <<Instant(1, "ada", "a", n, 1, 4, 6), Instant(2, "a", "ada", k, 1, 2, 7)>>,
    pool |-> Classified(Degen, FALSE), o2o |-> FALSE, residual |-> TRUE, funding |-> 20]
     : n \in {5, 11, 14}, k \in {2, 3}}

MCScenarios == AdaPair \cup Partial \cup TokenPair \cup Launchpad
=============================================================================
