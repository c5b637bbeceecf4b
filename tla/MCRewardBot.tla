----------------------------- MODULE MCRewardBot -----------------------------
(***************************************************************************)
(* The reward distributor on small instances.                              *)
(***************************************************************************)
EXTENDS RewardBot

MCOwner == (1 :> "u1") @@ (2 :> "u1") @@ (3 :> "u2")

MCUsers == {"u1", "u2"}

Scenario(blocks, lag, orders, bal, refunds, charges, rollbacks, drops, kills) ==
    [blocks |-> blocks, lag |-> lag, orders |-> orders, bal |-> bal, refunds |-> refunds,
     charges |-> charges, rollbacks |-> rollbacks, drops |-> drops, kills |-> kills,
     calm |-> refunds + rollbacks + drops + kills = 0, gaugeFirst |-> TRUE, txs |-> 0]

\* Two orders of one user in an epoch, nothing else; the one user's two epochs;
\* two users and a wallet that has to be refilled from the gauge.
CalmScenarios ==
    {Scenario(5, 2, {1, 2}, 2, 0, 0, 0, 0, 0),
     Scenario(5, 1, {1, 3}, 1, 0, 1, 0, 0, 0)}

RoughScenarios ==
    {Scenario(4, 2, {1, 2}, 3, 0, 0, 1, 0, 0),
     Scenario(3, 2, {1, 2}, 2, 1, 0, 1, 0, 0),
     Scenario(3, 2, {1}, 0, 0, 1, 1, 0, 0),
     Scenario(5, 1, {1, 2}, 3, 0, 0, 0, 1, 0),
     Scenario(4, 2, {1, 3}, 2, 0, 0, 0, 1, 0),
     Scenario(4, 2, {1, 2}, 2, 1, 0, 0, 0, 0),
     Scenario(4, 2, {1, 3}, 2, 0, 0, 0, 0, 1)}

MCScenarios == CalmScenarios \cup RoughScenarios

=============================================================================
