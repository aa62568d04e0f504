----------------------------- MODULE MdkEndpoint -----------------------------
(***************************************************************************)
(* The endpoint /api/mdk over the pump loop: a request passes the unified   *)
(* route (route.ts), LightningNode.fetch or a checkout operation            *)
(* (durable-object.ts), which call MdkNode (PumpLoop), the MDK API          *)
(* (client.ts) and, for a payout, an LNURL server (lnurl.ts).               *)
(*                                                                          *)
(* Requests come one after the other; what overlapping ones do to the node  *)
(* is SharedSession's.  MDK sends a webhook again until it is answered 200, *)
(* which here is one more request.  MDK, the LNURL server and how LDK reads *)
(* an invoice are external.  An invoice is its prefix, the digits of its    *)
(* amount, which it may lack, and their multiplier, which may be missing.   *)
(* Amounts of payouts are in tenths of a msat (pico-BTC), so that one may   *)
(* be a fraction of a msat.                                                 *)
(***************************************************************************)
EXTENDS PumpLoop, Sequences

CONSTANTS
  Bodies,      \* bodies of requests: [handler, route, target, amount]
  Written,     \* Pays -> what the invoice says: [prefix, digits, mult],
               \* mult "BTC" without a multiplier
  BtcMsat,     \* BTC_TO_MSAT, 100_000_000_000
  LspCltv,     \* lspCltvExpiryDelta of the options
  Checkouts    \* answers of MDK: [confirmed, scid, sats]; None for no scid, no amount,
               \* which is one in whole sats

ASSUME EndpointAssumption ==
  /\ Written \in [Pays -> [prefix : STRING, digits : Nat \cup {None}, mult : STRING]]
  /\ BtcMsat \in Nat /\ LspCltv \in Nat
  /\ \A b \in Bodies : b.amount \in Int \cup {None}
  /\ None \notin Int
  /\ Checkouts \subseteq [confirmed : BOOLEAN, scid : LspAnswer \cup {None},
                         sats : Nat \cup {None}]

VARIABLES
  req,         \* the request at work
  last,        \* the status of its answer, or of the last one; 0 until then
  mdk,         \* MDK: payments it was told of, invoice registered last
  asked,       \* history: Pays -> the amount a payout asked for
  confirmed    \* history: claims made in webhook calls that were answered 200
endpoint == <<req, last, mdk, asked, confirmed>>
allVars  == <<vars, endpoint>>

NoRequest == [step |-> "none", route |-> None, handler |-> None, amount |-> None,
              checkout |-> None, invoice |-> <<>>]

EndpointInit ==
  /\ Init /\ req = NoRequest /\ last = 0
  /\ mdk = [told |-> {}, invoice |-> None]
  /\ asked = [p \in Pays |-> None] /\ confirmed = {}

Reply(status) == req' = NoRequest /\ last' = status
GoOn(step)    == req' = [req EXCEPT !.step = step] /\ UNCHANGED last

-----------------------------------------------------------------------------
(* route.ts *)

SecretRoutes == {"webhook", "webhooks", "payout", "balance", "ping", "list_channels"}
Routes == SecretRoutes \cup
  {"create_checkout", "confirm_checkout", "get_checkout", "list_products", "get_customer"}

(* toLowerCase, of the names that requests are made of. *)
Lower(name) == IF name = "PAYOUT" THEN "payout" ELSE name

(* The first key that names a route, in any spelling. *)
ParseRoute(b) ==
  LET known == SelectSeq(<<b.handler, b.route, b.target>>, LAMBDA n : Lower(n) \in Routes)
  IN IF known = <<>> THEN None ELSE Lower(Head(known))

(* routeRequiresSecret, validateWebhookSecret, validateCsrf *)
Authorised(route, secret, csrf) == secret \/ (csrf /\ route \notin SecretRoutes)

(* The body is passed on as it came, but for the older name of webhooks. *)
Forwarded(b) == IF ParseRoute(b) = "webhook" THEN "webhooks" ELSE b.handler

(* handlePost.  MaxCalls bounds the requests too, as each makes at most one call. *)
HandlePost(b, secret, csrf) ==
  /\ req = NoRequest /\ calls < MaxCalls
  /\ LET route == ParseRoute(b)
     IN \/ /\ route = None \/ ~Authorised(route, secret, csrf)
           /\ last' = IF route = None THEN 400 ELSE 401
           /\ UNCHANGED req
        \/ /\ route # None /\ Authorised(route, secret, csrf)
           /\ req' = [NoRequest EXCEPT
                !.step = IF route \in SecretRoutes THEN "fetch" ELSE "api",
                !.route = route, !.handler = Forwarded(b), !.amount = b.amount]
           /\ last' = 0
  /\ UNCHANGED <<vars, mdk, asked, confirmed>>

-----------------------------------------------------------------------------
(* LightningNode.fetch *)

(* The call of MdkNode a request makes. *)
Call(kind, p) == Begin(kind, p) /\ GoOn("call")

Fetch ==
  /\ req.step = "fetch"
  /\ \/ req.handler = "webhooks" /\ Call("claims", None)
     \/ /\ req.handler = "payout"
        /\ IF req.amount = None \/ req.amount <= 0 THEN Reply(400) ELSE GoOn("lnurl")
        /\ UNCHANGED vars
     \/ req.handler \in {"balance", "list_channels"} /\ (Reply(200) \/ Reply(500)) /\ UNCHANGED vars
     \/ req.handler = "ping" /\ Reply(200) /\ UNCHANGED vars
     \/ /\ req.handler \notin {"webhooks", "payout", "balance", "list_channels", "ping"}
        /\ Reply(400) /\ UNCHANGED vars
  /\ UNCHANGED <<mdk, asked, confirmed>>

(* handleWebhook: receivePayments has returned or thrown. *)
WebhookCalled ==
  /\ req.step = "call" /\ req.handler = "webhooks" /\ pc = "idle"
  /\ \/ ret.how = "error" /\ Reply(500) /\ UNCHANGED confirmed
     \/ /\ ret.how = "claims" /\ ret.claims = {} /\ Reply(200)
        /\ confirmed' = confirmed \cup session.claims
     \/ ret.how = "claims" /\ ret.claims # {} /\ GoOn("confirm") /\ UNCHANGED confirmed
  /\ UNCHANGED <<vars, mdk, asked>>

(* Bug variant of Confirm: a failure is only logged. *)
ConfirmLogged ==
  /\ req.step = "confirm"
  /\ mdk' \in {[mdk EXCEPT !.told = @ \cup ret.claims], mdk}
  /\ Reply(200) /\ confirmed' = confirmed \cup session.claims
  /\ UNCHANGED <<vars, asked>>

(* paymentReceived.  A call of the API succeeds, or fails before or after MDK *)
(* has done what it was asked.                                                *)
Confirm ==
  /\ req.step = "confirm"
  /\ \/ /\ mdk' = [mdk EXCEPT !.told = @ \cup ret.claims] /\ Reply(200)
        /\ confirmed' = confirmed \cup session.claims
     \/ /\ mdk' \in {[mdk EXCEPT !.told = @ \cup ret.claims], mdk} /\ Reply(500)
        /\ UNCHANGED confirmed
  /\ UNCHANGED <<vars, asked>>

-----------------------------------------------------------------------------
(* Payouts: lnurl.ts *)

(* Bug variant of AmountMsat: a thousand msat to the nano-BTC. *)
NanoAsSat(digits, mult) ==
  CASE mult = "BTC" -> digits * BtcMsat
    [] mult = "n"   -> digits * 1000
    [] mult = "p" /\ digits % 10 = 0 -> digits \div 10
    [] OTHER -> None

(* Whole BTC, the multipliers, or pico-BTC; null for another letter and for a *)
(* fraction of a msat.                                                        *)
AmountMsat(digits, mult) ==
  CASE mult = "BTC" -> digits * BtcMsat
    [] mult = "m"   -> digits * 100000000
    [] mult = "u"   -> digits * 100000
    [] mult = "n"   -> digits * 100
    [] mult = "p" /\ digits % 10 = 0 -> digits \div 10
    [] OTHER -> None

BOLT11_PREFIXES == {"lnbcrt", "lntbs", "lntb", "lnbc"}

(* Null, too, for a prefix that is not in the list, and without an amount. *)
ParseBolt11AmountMsat(i) ==
  IF i.prefix \in BOLT11_PREFIXES /\ i.digits # None THEN AmountMsat(i.digits, i.mult)
  ELSE None

(* LDK reads pico-BTC ... *)
AmountPico(digits, mult) ==
  CASE mult = "BTC" -> digits * (10 * BtcMsat)
    [] mult = "m"   -> digits * 1000000000
    [] mult = "u"   -> digits * 1000000
    [] mult = "n"   -> digits * 1000
    [] mult = "p"   -> digits
    [] OTHER -> None

(* ... in every currency that it knows; lnurl.ts does not have the simnet. *)
LdkPrefixes == BOLT11_PREFIXES \cup {"lnsb"}
LdkPico(i) ==
  IF i.prefix \in LdkPrefixes /\ i.digits # None THEN AmountPico(i.digits, i.mult) ELSE None

(* It pays whatever the network of the node, but no invoice without an amount or *)
(* with a fraction of a msat.                                                    *)
LdkPays(i) == LdkPico(i) # None /\ LdkPico(i) % 10 = 0

(* The check of resolveDestinationToInvoice: an amount that was not read passes, *)
(* a fraction of a msat asked for is no BigInt and throws.                       *)
Accepts(i, amount) ==
  LET msat == ParseBolt11AmountMsat(i)
  IN msat = None \/ (amount % 10 = 0 /\ msat = amount \div 10)

(* handlePayout: no destination configured, or resolveDestinationToInvoice and pay. *)
Resolve ==
  /\ req.step = "lnurl"
  /\ \/ \E p \in Pays : /\ Accepts(Written[p], req.amount) /\ Call("pay", p)
                        /\ asked' = [asked EXCEPT ![p] = req.amount]
     \/ (Reply(400) \/ Reply(500)) /\ UNCHANGED <<vars, asked>>
  /\ UNCHANGED <<mdk, confirmed>>

PayoutCalled ==
  /\ req.step = "call" /\ req.handler = "payout" /\ pc = "idle"
  /\ IF ret.how = "outcome" /\ (\E o \in ret.pay : o.ok) THEN Reply(200) ELSE Reply(500)
  /\ UNCHANGED <<vars, mdk, asked, confirmed>>

-----------------------------------------------------------------------------
(* Checkouts *)

(* The operations that are one call of the API. *)
Api ==
  /\ req.step = "api" /\ req.route \notin {"create_checkout", "confirm_checkout"}
  /\ Reply(200) \/ Reply(500)
  /\ UNCHANGED <<vars, mdk, asked, confirmed>>

(* From sats to msat to sats to an amount of the invoice, which 0 is not. *)
InvoiceSats(sats) == IF sats = None \/ sats = 0 THEN None ELSE (sats * 1000 + 999) \div 1000

(* createInvoiceWithScidSession: the SCID is parsed behind the boundary, the delta *)
(* is that of the options.                                                         *)
InvoiceWithScid(a) == LET n == ParseScid(a)
                      IN [hop |-> JitHop(n, LspCltv), scid |-> FormatScid(n)]

(* createCheckout, confirmCheckout up to the invoice: none before MDK has     *)
(* confirmed, one over the SCID that MDK gave, or one over a new SCID.        *)
Create ==
  /\ req.step = "api" /\ req.route \in {"create_checkout", "confirm_checkout"}
  /\ \/ Reply(500) /\ UNCHANGED vars
     \/ \E c \in Checkouts :
          \/ ~c.confirmed /\ Reply(200) /\ UNCHANGED vars
          \/ /\ c.confirmed /\ c.scid = None /\ Begin("register", None)
             /\ req' = [req EXCEPT !.step = "call", !.checkout = c] /\ UNCHANGED last
          \/ /\ c.confirmed /\ c.scid # None /\ InRange(c.scid)
             /\ req' = [req EXCEPT !.step = "register", !.checkout = c,
                                   !.invoice = InvoiceWithScid(c.scid)]
             /\ UNCHANGED <<vars, last>>
  /\ UNCHANGED <<mdk, asked, confirmed>>

InvoiceCalled ==
  /\ req.step = "call" /\ req.route \notin SecretRoutes /\ pc = "idle"
  /\ \/ /\ ret.how = "invoice" /\ UNCHANGED last
        /\ req' = [req EXCEPT !.step = "register", !.invoice = ret.invoice]
     \/ ret.how # "invoice" /\ Reply(500)
  /\ UNCHANGED <<vars, mdk, asked, confirmed>>

RegisterInvoice ==
  /\ req.step = "register"
  /\ LET told == [mdk EXCEPT !.invoice = [scid |-> req.invoice.scid,
                                          sats |-> InvoiceSats(req.checkout.sats),
                                          checkout |-> req.checkout]]
     IN \/ mdk' = told /\ Reply(200)
        \/ mdk' \in {told, mdk} /\ Reply(500)
  /\ UNCHANGED <<vars, asked, confirmed>>

-----------------------------------------------------------------------------
(* LDK starts a payment only over an invoice that it can read and pay. *)
Readable == \A p \in Pays : paid[p] = "new" /\ paid'[p] = "pending" => LdkPays(Written[p])

Run    == req.step = "call" /\ Loop /\ Readable /\ UNCHANGED endpoint
Hear   == req.step = "call" /\ Receive /\ UNCHANGED endpoint
Expire == req.step = "call" /\ TimePasses /\ UNCHANGED endpoint

Answer == \/ Fetch \/ WebhookCalled \/ Confirm \/ Resolve \/ PayoutCalled
          \/ Api \/ Create \/ InvoiceCalled \/ RegisterInvoice

EndpointNext ==
  \/ \E b \in Bodies, secret, csrf \in BOOLEAN : HandlePost(b, secret, csrf)
  \/ Answer \/ Run \/ Hear \/ Expire

EndpointSpec == EndpointInit /\ [][EndpointNext]_allVars

-----------------------------------------------------------------------------
(* Properties *)

(* A webhook answered 200 means that MDK was told of every payment LDK claimed  *)
(* during it: those claimed in a flush without input or at the deadline too.    *)
OkMeansConfirmed == confirmed \subseteq mdk.told

(* A payout over an invoice whose prefix parseBolt11AmountMsat knows pays what was  *)
(* asked for, although the check of resolveDestinationToInvoice lets every amount   *)
(* pass that it cannot read: of those LDK pays none, but for other prefixes, which  *)
(* are null before their amount is looked at (lnurl.ts:72-73, 169).                 *)
PaysWhatWasAsked ==
  \A p \in Pays :
    asked[p] # None /\ paid[p] # "new" /\ Written[p].prefix \in BOLT11_PREFIXES =>
      LdkPico(Written[p]) = asked[p]

(* The invoice registered for a checkout has the SCID that MDK gave for it, or  *)
(* else one that the LSP assigned, and asks for the amount of the checkout.     *)
RegisteredAsAgreed ==
  mdk.invoice # None =>
    LET i == mdk.invoice
        Is(a) == i.scid = <<a.block, a.tx, a.out>>
    IN /\ IF i.checkout.scid # None THEN Is(i.checkout.scid)
          ELSE \E a \in Answers : a.ok /\ Is(a)
       /\ i.checkout.sats \notin {None, 0} => i.sats = i.checkout.sats
=============================================================================
