----------------------------- MODULE MCPumpLoop -----------------------------
(* PumpLoop with small SCID fields.  The answers of the LSP are the smallest    *)
(* SCID with a delta that does not fit, the largest SCID with the largest delta *)
(* that does, a SCID whose block is one too high, and an error.                 *)
EXTENDS PumpLoop

CONSTANTS p1, p2, h1, h2, o1, o2

MCPays  == {p1, p2}
MCHtlcs == {h1, h2}
MCOuts  == {o1, o2}
MCOut   == {o1}

MCAnswers ==
  {[ok |-> TRUE, block |-> 0, tx |-> 0, out |-> 0, cltv |-> 4],
   [ok |-> TRUE, block |-> 3, tx |-> 3, out |-> 3, cltv |-> 3],
   [ok |-> TRUE, block |-> 4, tx |-> 0, out |-> 0, cltv |-> 1],
   [ok |-> FALSE, block |-> 0, tx |-> 0, out |-> 0, cltv |-> 0]}
=============================================================================
