---------------------------- MODULE UtxoIndexOps ----------------------------
(***************************************************************************)
(* The index of transaction outputs of the UTxO monitor                    *)
(* (cardano-utxo-monitor, index.rs), as operations on its value            *)
(*   txo     : output -> [settled, spent], the table of outputs;           *)
(*   events  : the entries <<slot, output>> of the events table;           *)
(*   unspent : the entries of the unspent table.                           *)
(* A slot is an option: {} while the transaction is in the mempool, whose  *)
(* key sorts after all others.  The secondary tables exist once per kind   *)
(* of credential with the same entries, and their keys begin with the      *)
(* credential, which an output determines; one copy without it stands for  *)
(* both.                                                                   *)
(*                                                                         *)
(* Each operation is one transaction of the database, whose writes appear  *)
(* together at its commit.  It reads the rows of the table of outputs with *)
(* get_cf, which takes no lock and no snapshot, so that another operation  *)
(* may commit between a read and the commit: an operation has two          *)
(* parameters, the index x it writes to and the rows y it has read.        *)
(***************************************************************************)
EXTENDS Naturals

CONSTANTS
    Tx,             \* transactions
    Txo,            \* their outputs
    Inputs,         \* [Tx -> SUBSET Txo]
    Outputs,        \* [Tx -> SUBSET Txo]
    AtScript,       \* outputs whose payment credential is a script
    Credentialed    \* outputs whose address has a credential (not Byron)

ASSUME UtxoAssumption ==
    /\ Inputs \in [Tx -> SUBSET Txo]
    /\ Outputs \in [Tx -> SUBSET Txo]

EmptyIndex == [txo |-> [o \in {} |-> {}], events |-> {}, unspent |-> {}]

(* The handlers keep outputs that no script locks (handler.rs). *)
Made(t) == Outputs[t] \ AtScript

Known(x, S) == S \cap DOMAIN x.txo

(* Events entries under the slots at which the outputs settled. *)
EntriesOf(x, S) == {<<x.txo[o].settled, o>> : o \in Known(x, S)}

WasSpent(x, o) == o \in DOMAIN x.txo /\ x.txo[o].spent

(* What a database transaction for t reads of the table of outputs when it *)
(* reads all at once, and when it reads the row of o later than the rest.  *)
View(x, t) == [txo |-> [o \in Known(x, Inputs[t] \cup Made(t)) |-> x.txo[o]]]
ReadLate(y, x, o) ==
    [txo |-> [p \in (DOMAIN y.txo \ {o}) \cup Known(x, {o}) |->
                 IF p = o THEN x.txo[o] ELSE y.txo[p]]]

(* update_txo_by_ref and update_unspent_txo of a transaction that is       *)
(* applied, with the rows read in y and written to x; of the outputs       *)
(* `outs', those in `used' are spent already.                              *)
Written(x, y, ins, outs, used, slot) ==
    [txo |-> [o \in DOMAIN x.txo \cup ins \cup outs |->
                 IF o \in outs THEN [settled |-> slot, spent |-> o \in used]
                 ELSE IF o \in ins THEN [settled |-> y.txo[o].settled, spent |-> TRUE]
                 ELSE x.txo[o]],
     events |-> (x.events \ EntriesOf(y, ins \cup outs))
                    \cup ({slot} \X ((ins \cup outs) \cap Credentialed)),
     unspent |-> (x.unspent \ (ins \cup outs)) \cup ((outs \ used) \cap Credentialed)]

(* Mutants: a confirmation forgets that an output is spent already; a      *)
(* spent output keeps its entry.                                           *)
ApplyForgets(x, y, t, slot) == Written(x, y, Known(y, Inputs[t]), Made(t), {}, slot)
ApplyKeepsEntry(x, y, t, slot) ==
    [Written(x, y, Known(y, Inputs[t]), Made(t), {o \in Made(t) : WasSpent(y, o)}, slot)
        EXCEPT !.unspent = @ \cup x.unspent]

(* apply: the inputs known to the index become spent and move, in the      *)
(* events, to the slot of the spending transaction; outputs are written    *)
(* with that slot and keep the spent flag they may already have.           *)
Apply(x, y, t, slot) ==
    Written(x, y, Known(y, Inputs[t]), Made(t), {o \in Made(t) : WasSpent(y, o)}, slot)

(* update_txo_by_ref and delete_txo_and_indexes of one that is unapplied. *)
Erased(x, y, ins, outs) ==
    [txo |-> [o \in (DOMAIN x.txo \cup ins) \ outs |->
                 IF o \in ins THEN [settled |-> y.txo[o].settled, spent |-> FALSE]
                 ELSE x.txo[o]],
     events |-> (x.events \ EntriesOf(y, ins \cup outs))
                    \cup EntriesOf(y, (ins \ outs) \cap Credentialed),
     unspent |-> (x.unspent \cup (ins \cap Credentialed)) \ outs]

(* Mutant: the inputs stay spent. *)
UnapplyKeepsInputs(x, y, t) == Erased(x, y, {}, Known(y, Made(t)))

(* unapply: the inputs known to the index become unspent and move, in the  *)
(* events, to the slot at which they settled; the outputs are deleted.     *)
Unapply(x, y, t) == Erased(x, y, Known(y, Inputs[t]), Known(y, Made(t)))

(* get_utxos with TxoQuery::Unspent. *)
Unspent(x) == Known(x, x.unspent)

(* get_utxos with TxoQuery::All: what is listed from a slot on. *)
Listed(x) == {e[2] : e \in x.events} \cap DOMAIN x.txo

(* The two secondary tables agree with the table of outputs, whatever was  *)
(* applied and unapplied in whatever order: the unspent table lists        *)
(* exactly the outputs not marked spent, and no output is missing from the *)
(* events.                                                                 *)
Agree(x) ==
    /\ x.unspent = {o \in DOMAIN x.txo \cap Credentialed : ~x.txo[o].spent}
    /\ DOMAIN x.txo \cap Credentialed \subseteq Listed(x)
=============================================================================
