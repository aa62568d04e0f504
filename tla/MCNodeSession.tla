---------------------------- MODULE MCNodeSession ----------------------------
(* The instances of NodeSession that the configurations check.                *)
EXTENDS NodeSession
=============================================================================
