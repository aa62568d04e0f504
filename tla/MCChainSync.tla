---------------------------- MODULE MCChainSync ----------------------------
(* A channel whose commitment (c) is reorganised: into a block on branch e that  *)
(* also holds the peer's spend of its output (r) before our claim (s) spends it, *)
(* so that positions decide the order, and out in favour of another closing (d)  *)
(* on branch b.  Block b4 stands for its branch up to height 4.                  *)
EXTENDS ChainSync

MCBlocks == {"g", "a1", "a2", "a3", "a4", "b4", "b5", "e2", "e3"}
MCTxs    == {"f", "c", "d", "r", "s"}

MCParent == [b \in MCBlocks |->
  CASE b \in {"g", "a1"} -> "g" [] b \in {"a2", "b4", "e2"} -> "a1"
    [] b = "a3" -> "a2" [] b = "a4" -> "a3" [] b = "e3" -> "e2" [] b = "b5" -> "b4"]
MCChain[b \in MCBlocks] == IF b = "g" THEN {b} ELSE {b} \cup MCChain[MCParent[b]]

MCHeight == [b \in MCBlocks |->
  CASE b = "g" -> 0 [] b = "a1" -> 1 [] b \in {"a2", "e2"} -> 2
    [] b \in {"a3", "e3"} -> 3 [] b \in {"a4", "b4"} -> 4 [] b = "b5" -> 5]

MCTxsIn == [b \in MCBlocks |->
  CASE b = "a1" -> {"f"} [] b = "a2" -> {"c"} [] b = "a4" -> {"s"}
    [] b = "b5" -> {"d"} [] b = "e2" -> {"c", "r"} [] OTHER -> {}]

MCSpends == [t \in MCTxs \ {"f"} |-> IF t \in {"c", "d"} THEN "f" ELSE "c"]
MCPos    == [t \in MCTxs |-> IF t \in {"f", "r"} THEN 1 ELSE 0]
MCOurs   == {"s"}
=============================================================================
