----------------------------- MODULE DaoProtocol -----------------------------
(***************************************************************************)
(* The on-chain entities of the DAO and the transactions the bot builds    *)
(* from them: epoch arithmetic (time.rs, inflation_box.rs), the life cycle *)
(* of a weighting poll (weighting_poll.rs), and the inputs, outputs and    *)
(* predicted entities of every action of routines/actions.                 *)
(*                                                                         *)
(* An entity id is <<kind, number>>; an output is identified by the        *)
(* transaction that made it and the entity it carries.  Ids of inflation   *)
(* boxes and poll factories count from 0: id n is the box whose last       *)
(* processed epoch is n - 1.                                               *)
(***************************************************************************)
EXTENDS DaoStores, Sequences

CONSTANTS
    EpochLen,           \* EPOCH_LEN
    Cooldown,           \* COOLDOWN_PERIOD_MILLIS + COOLDOWN_PERIOD_EXTRA_BUFFER
    Lifespan,           \* order_lifespan of the backlog
    Farms               \* the active farms, in the order of a poll's distribution

ASSUME TimeAssumption ==
    /\ {EpochLen, Cooldown, Lifespan} \subseteq Nat
    /\ EpochLen > 0

FarmSet == {Farms[i] : i \in DOMAIN Farms}

Ref(txid, id) == <<txid, id>>

\* A version is the output reference with the slot of its block (or, for a
\* prediction, the current slot); voting escrows are versioned by the output
\* reference alone.  Slots only tell a prediction, slot 0, from the first,
\* second... time the transaction is confirmed, slots 1, 2...
VersionOf(id, txid, slot) == IF id[1] = "ve" THEN <<txid, 0>> ELSE <<txid, slot>>

OutputRefOf(id, ver) == Ref(ver[1], id)

Traced(mod, id, txid, slot, prev, val) ==
    [mod |-> mod, ver |-> VersionOf(id, txid, slot), prev |-> prev, val |-> val]

-----------------------------------------------------------------------------
(* Epochs. *)
EpochStart(e) == e * EpochLen
EpochEnd(e) == (e + 1) * EpochLen
TimeToEpoch(t) == t \div EpochLen

\* Mutant: the end of the wrong epoch.
ActiveEpochLate(n, now, shift) ==
    IF n = 0 THEN 0
    ELSE IF EpochEnd(n) > now - shift THEN n - 1 ELSE n

\* InflationBox::active_epoch, n being the box's id: the epoch last processed
\* stays active for a while (shift, EPOCH_BOUNDARY_SHIFT) after its end.
ActiveEpoch(n, now, shift) ==
    IF n = 0 THEN 0
    ELSE IF EpochEnd(n - 1) > now - shift THEN n - 1 ELSE n

-----------------------------------------------------------------------------
(* Weighting poll. *)
NewPoll == [weight |-> [f \in FarmSet |-> 0], eliminated |-> FALSE]

WeightingOpen(e, now) == EpochStart(e) < now /\ EpochEnd(e) > now

Exhausted(poll) == \A f \in FarmSet : poll.weight[f] = 0

\* Mutant: the cool-down is counted from the end of the next epoch.
CanBeEliminatedLate(poll, e, now) ==
    Exhausted(poll) /\ ~poll.eliminated /\ now > EpochEnd(e + 1) + Cooldown

CanBeEliminated(poll, e, now) ==
    Exhausted(poll) /\ ~poll.eliminated /\ now > EpochEnd(e) + Cooldown

NextFarm(poll) ==
    Farms[CHOOSE i \in DOMAIN Farms :
            /\ poll.weight[Farms[i]] > 0
            /\ \A j \in 1 .. i - 1 : poll.weight[Farms[j]] = 0]

\* start is DISTRIBUTE_INFLATION_START_DELAY_MILLIS.
PollState(poll, e, now, start) ==
    IF WeightingOpen(e, now) THEN "weighting"
    ELSE IF ~Exhausted(poll)
         THEN IF now > EpochEnd(e) + start
              THEN "distribution" ELSE "waiting_distribution"
    ELSE IF poll.eliminated THEN "eliminated"
    ELSE IF CanBeEliminated(poll, e, now) THEN "ready_to_eliminate"
    ELSE "waiting_eliminate"

ApplyVotes(poll, w) ==
    [poll EXCEPT !.weight = [f \in FarmSet |-> @[f] + IF f \in DOMAIN w THEN w[f] ELSE 0]]

-----------------------------------------------------------------------------
(***************************************************************************)
(* Orders of users, and the checks an action makes before it builds a      *)
(* transaction for one.  An order is a record [kind, ve, version, w,       *)
(* until]; the signature checks are taken to succeed.                      *)
(***************************************************************************)
VoteAdmissible(o, ve, e) ==
    /\ ve.last < e
    /\ ve.version = o.version
    /\ ve.until >= EpochEnd(e)

\* The transaction metadata of an extension carries the same version as the
\* order's datum, yet the order's version is required to be the next one.
ExtendAdmissible(o, ve) ==
    /\ ve.version = o.version
    /\ ve.version + 1 = o.version

RedeemAdmissible(o, ve, now) ==
    /\ ve.version = o.version
    /\ ve.until < now

-----------------------------------------------------------------------------
(***************************************************************************)
(* Transactions: [kind, ins, outs, writes, order, sel].  writes are the    *)
(* predicted entities, as a function from id to previous version; order is *)
(* the backlog entry being executed, if any; sel is the change to the      *)
(* funding boxes.  The id of the transaction is added on submission.       *)
(***************************************************************************)
Nothing == [unit |-> 0]
NoFunds == [conf |-> {}, pred |-> {}, made |-> {}]
Change == <<"fund", 0>>

Tx(kind, ins, outs, writes) ==
    [kind |-> kind, ins |-> ins, outs |-> outs, writes |-> writes,
     order |-> {}, sel |-> NoFunds]

\* Adds the selected funding boxes and the change output.
Funded(tx, sel) ==
    [tx EXCEPT !.ins = @ \cup sel.conf \cup sel.pred,
               !.outs = (Change :> Nothing) @@ @,
               !.sel = [conf |-> sel.conf, pred |-> sel.pred, made |-> {}]]

LatestRef(p, id) == OutputRefOf(id, Read(p, id).ver)

VEFactory == <<"vefactory", 0>>

CreateSpends(p, ibox, factory) == {LatestRef(p, ibox), LatestRef(p, factory)}

CreateMakes(ibox, factory) ==
    (<<"ibox", ibox[2] + 1>> :> Nothing) @@ (<<"factory", factory[2] + 1>> :> Nothing)
        @@ (<<"wpoll", factory[2]>> :> NewPoll)

CreateWPoll(p, ibox, factory) ==
    LET made == CreateMakes(ibox, factory)
    IN  Tx("create", CreateSpends(p, ibox, factory), made, [id \in DOMAIN made |-> NoVer])

DistributeSpends(p, wp, farm) == {LatestRef(p, wp), LatestRef(p, <<"farm", farm>>)}

DistributeMakes(p, wp, farm) ==
    (wp :> [Read(p, wp).val EXCEPT !.weight[farm] = 0]) @@ (<<"farm", farm>> :> Nothing)

DistributeInflation(p, wp, farm) ==
    LET made == DistributeMakes(p, wp, farm)
    IN  Tx("distribute", DistributeSpends(p, wp, farm), made,
           [id \in DOMAIN made |-> Read(p, id).ver])

EliminateWPoll(p, wp) == Tx("eliminate", {LatestRef(p, wp)}, <<>>, <<>>)

VoteSpends(p, wp, o, ref) == {LatestRef(p, wp), LatestRef(p, o.ve), ref}

VoteMakes(p, wp, o) ==
    (wp :> ApplyVotes(Read(p, wp).val, o.w))
        @@ (o.ve :> [Read(p, o.ve).val EXCEPT !.version = @ + 1, !.last = wp[2]])

ExecuteOrder(p, wp, o, ref) ==
    LET made == VoteMakes(p, wp, o)
    IN  Tx("vote", VoteSpends(p, wp, o, ref), made, [id \in DOMAIN made |-> Read(p, id).ver])

MakeSpends(p, ref) == {LatestRef(p, VEFactory), ref}

MakeMakes(o) ==
    (VEFactory :> Nothing)
        @@ (o.ve :> [version |-> 0, last |-> -1, until |-> o.until, redeemed |-> FALSE])

MakeVotingEscrow(p, o, ref) ==
    Tx("make", MakeSpends(p, ref), MakeMakes(o),
       (VEFactory :> Read(p, VEFactory).ver) @@ (o.ve :> NoVer))

ExtendSpends(p, o, ref) == {LatestRef(p, o.ve), LatestRef(p, VEFactory), ref}

ExtendMakes(p, o) ==
    (VEFactory :> Nothing)
        @@ (o.ve :> [Read(p, o.ve).val EXCEPT !.version = @ + 1, !.until = o.until])

ExtendVotingEscrow(p, o, ref) ==
    Tx("extend", ExtendSpends(p, o, ref), ExtendMakes(p, o),
       (VEFactory :> Read(p, VEFactory).ver) @@ (o.ve :> NoVer))

RedeemSpends(p, o, ref) == {LatestRef(p, o.ve), LatestRef(p, VEFactory), ref}

RedeemVotingEscrow(p, o, ref) ==
    Tx("redeem", RedeemSpends(p, o, ref), VEFactory :> Nothing,
       VEFactory :> Read(p, VEFactory).ver)
=============================================================================
