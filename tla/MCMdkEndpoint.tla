---------------------------- MODULE MCMdkEndpoint ----------------------------
(* MdkEndpoint with small SCID fields and 10 sats to the BTC.  The invoices are *)
(* over 1 sat, over a BTC without a multiplier, over half a msat, which          *)
(* parseBolt11AmountMsat does not read and LDK does not pay, and over 1 sat of   *)
(* the simnet, which is not read and is paid.  Payouts ask for 1 sat, 10 sats,   *)
(* half a msat or nothing.  Bodies name a route by its name, the older name, in  *)
(* capitals, as target only, or two routes.                                      *)
EXTENDS MdkEndpoint, TLC

CONSTANTS p1, p2, p3, p4, h1, h2

MCPays    == {p1, p2, p3, p4}
MCHtlcs   == {h1, h2}

Says(prefix, digits, mult) == [prefix |-> prefix, digits |-> digits, mult |-> mult]
MCWritten == (p1 :> Says("lnbc", 10, "n")) @@ (p2 :> Says("lntb", 5, "p"))
             @@ (p3 :> Says("lnbc", 1, "BTC")) @@ (p4 :> Says("lnsb", 10, "n"))

MCAnswers ==
  {[ok |-> TRUE, block |-> 3, tx |-> 3, out |-> 3, cltv |-> 3],
   [ok |-> FALSE, block |-> 0, tx |-> 0, out |-> 0, cltv |-> 0]}

Given(block) == [ok |-> TRUE, block |-> block, tx |-> 1, out |-> 0, cltv |-> 3]
MCCheckouts ==
  {[confirmed |-> FALSE, scid |-> None, sats |-> None],
   [confirmed |-> TRUE, scid |-> None, sats |-> 0],
   [confirmed |-> TRUE, scid |-> Given(2), sats |-> 7],
   [confirmed |-> TRUE, scid |-> Given(4), sats |-> None]}

Body(handler, target, amount) ==
  [handler |-> handler, route |-> "", target |-> target, amount |-> amount]
MCBodies ==
  {Body("webhook", "", None), Body("webhooks", "ping", None), Body("ping", "payout", None),
   Body("PAYOUT", "", 10000), Body("", "payout", 10000), Body("", "", None),
   Body("balance", "", None), Body("create_checkout", "", None), Body("get_checkout", "", None)}
  \cup {Body("payout", "", amount) : amount \in {None, 5, 10000, 100000}}
=============================================================================
