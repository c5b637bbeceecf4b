---------------------------- MODULE MCLpIndexer ----------------------------
EXTENDS LpIndexer

CONSTANTS p1, a1, a2, f1

MCPoolOfFarm == [f \in {f1} |-> p1]

Base == [kinds |-> {"deposit"}, pairs |-> {}, height |-> 4, gaps |-> {1, 3}, forks |-> 0, stops |-> 0]

(* Deposits and redemptions of two accounts over several epochs, and two   *)
(* of them in one block.                                                   *)
Moves == [Base EXCEPT !.kinds = {"deposit", "change"}, !.gaps = {2, 4}, !.height = 5]
Pairs == [Base EXCEPT !.kinds = {}, !.pairs = {<<"deposit", "change">>, <<"deposit", "deposit">>}]
(* A gauge with polls and votes beside deposits. *)
Votes == [Base EXCEPT !.kinds = {"deposit", "open", "vote", "suspend"}, !.pairs = {<<"open", "vote">>}]
(* Moves the indexer does not see: accounts that leave, and transfers. *)
Unseen == [Base EXCEPT !.kinds = {"deposit", "change", "exit", "transfer"}, !.gaps = {2}, !.height = 5]
(* Forks within the confirmation delay: while shares mature, of a block    *)
(* with two events, and of polls, votes and suspensions.                   *)
Forks == [Base EXCEPT !.kinds = {"deposit", "open"}, !.gaps = {1}, !.forks = 1]
ForkPair == [Base EXCEPT !.kinds = {"suspend"}, !.pairs = {<<"deposit", "deposit">>}, !.height = 3,
                         !.gaps = {1}, !.forks = 1]
ForkLate == [Base EXCEPT !.pairs = {<<"open", "change">>}, !.height = 5, !.gaps = {2}, !.forks = 1]
ForkVotes == [Base EXCEPT !.kinds = {"vote"}, !.pairs = {<<"open", "vote">>}, !.gaps = {1}, !.forks = 1]
(* Stops anywhere. *)
Stops == [Base EXCEPT !.kinds = {"deposit", "open"}, !.stops = 1]
MCScenarios == {Moves, Pairs, Unseen, Votes, Forks, ForkPair, ForkLate, ForkVotes, Stops}

(* The accounts join one after the other and an epoch with a vote passes. *)
MCRewards == {[Base EXCEPT !.kinds = {"deposit"}, !.pairs = {<<"open", "vote">>}, !.height = 6, !.gaps = {2}]}
=============================================================================
