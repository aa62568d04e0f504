--------------------------- MODULE ConfirmListener ---------------------------
(***************************************************************************)
(* What one who feeds LDK's chain listeners through the Confirm interface  *)
(* promises, whatever requests fail and whatever the chain does meanwhile: *)
(* a best block is told only when all that left its chain was taken back,  *)
(* and a confirmation only with the best block told, none moving a         *)
(* transaction that the listeners have confirmed.  Telling them again what *)
(* they know is no step here.  ChainSync implements this (Honours there).  *)
(***************************************************************************)
EXTENDS Integers

CONSTANTS Blocks, Genesis, Chain, Height, Txs, TxsIn, None

VARIABLES
  tip,    \* the best block of the network
  told,   \* what the listeners in memory were told: conf, best
  saved   \* what they would be restored from

contract == <<tip, told, saved>>

Start ==
  /\ tip = Genesis
  /\ told = [conf |-> [t \in Txs |-> None], best |-> Genesis]
  /\ saved = told

Move(b) ==
  /\ Height[b] > Height[tip] /\ tip' = b
  /\ UNCHANGED <<told, saved>>

(* transaction_unconfirmed, of transactions that left the best chain. *)
Unconfirmed(ts) ==
  /\ \A t \in ts : told.conf[t] # None /\ told.conf[t] \notin Chain[tip]
  /\ told' = [told EXCEPT !.conf = [t \in Txs |-> IF t \in ts THEN None ELSE told.conf[t]]]
  /\ UNCHANGED <<tip, saved>>

(* best_block_updated, once all that is not in its chain was taken back. *)
BestBlock(b) ==
  /\ b \in Chain[tip] /\ Height[told.best] <= Height[b]
  /\ \A t \in Txs : told.conf[t] # None => told.conf[t] \in Chain[b]
  /\ told' = [told EXCEPT !.best = b]
  /\ UNCHANGED <<tip, saved>>

(* transactions_confirmed, of transactions of the chain whose tip was told. *)
Holder(t) == CHOOSE a \in Chain[tip] : t \in TxsIn[a]
Confirmed(ts) ==
  /\ told.best = tip
  /\ \A t \in ts : told.conf[t] = None /\ \E a \in Chain[tip] : t \in TxsIn[a]
  /\ told' = [told EXCEPT !.conf = [t \in Txs |-> IF t \in ts THEN Holder(t) ELSE told.conf[t]]]
  /\ UNCHANGED <<tip, saved>>

Save    == saved' = told /\ UNCHANGED <<tip, told>>
Restart == told' = saved /\ UNCHANGED <<tip, saved>>

Advance == \/ Save \/ Restart
           \/ \E b \in Blocks : Move(b) \/ BestBlock(b)
           \/ \E ts \in SUBSET Txs : Unconfirmed(ts) \/ Confirmed(ts)

Spec == Start /\ [][Advance]_contract
=============================================================================
