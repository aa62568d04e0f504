-------------------------- MODULE MdkEndpointProofs --------------------------
(* Proofs about MdkEndpoint.  Every step of the endpoint is a step of PumpLoop *)
(* or leaves its variables alone, so what PumpLoopProofs shows of the calls is *)
(* at hand here: that receivePayments returns all its claims is what makes an  *)
(* answer of 200 mean that MDK was told of them.                               *)
EXTENDS MdkEndpoint, PumpLoopProofs

(* What an action of the endpoint does to the variables of PumpLoop. *)
LEMMA StepPumps == EndpointNext => [Next]_vars
  <1> SUFFICES ASSUME EndpointNext PROVE [Next]_vars
    OBVIOUS
  <1>1. ASSUME NEW b \in Bodies, NEW secret \in BOOLEAN, NEW csrf \in BOOLEAN,
               HandlePost(b, secret, csrf)
        PROVE  UNCHANGED vars
    BY <1>1 DEF HandlePost
  <1>2. ASSUME NEW kind \in {"register", "claims", "pay"}, NEW p \in Pays \cup {None},
               Begin(kind, p)
        PROVE  Next
    BY <1>2 DEF Next
  <1>3. CASE Fetch
    BY <1>2, <1>3 DEF Fetch, Call
  <1>4. CASE WebhookCalled \/ Confirm \/ PayoutCalled \/ Api \/ InvoiceCalled \/ RegisterInvoice
    BY <1>4 DEF WebhookCalled, Confirm, PayoutCalled, Api, InvoiceCalled, RegisterInvoice
  <1>5. CASE Resolve
    BY <1>2, <1>5 DEF Resolve, Call
  <1>6. CASE Create
    BY <1>2, <1>6 DEF Create
  <1>7. CASE Run \/ Hear \/ Expire
    BY <1>7 DEF Run, Hear, Expire, Next
  <1> QED
    BY <1>1, <1>3, <1>4, <1>5, <1>6, <1>7 DEF EndpointNext, Answer

(* The endpoint implements the pump loop: its calls are calls PumpLoop allows. *)
THEOREM EndpointPumps == EndpointSpec => Spec
  <1>1. EndpointInit => Init
    BY DEF EndpointInit
  <1>2. [EndpointNext]_allVars => [Next]_vars
    BY StepPumps DEF allVars
  <1> QED
    BY <1>1, <1>2, PTL DEF EndpointSpec, Spec

-----------------------------------------------------------------------------
(* The records have their fields; at the confirmation the call has returned claims. *)
ReqRecord == req = [step |-> req.step, route |-> req.route, handler |-> req.handler,
                    amount |-> req.amount, checkout |-> req.checkout,
                    invoice |-> req.invoice]
ReqShape == /\ ReqRecord
            /\ mdk = [told |-> mdk.told, invoice |-> mdk.invoice]

ConfirmInv == /\ ReqShape /\ OkMeansConfirmed
              /\ req.step = "confirm" => ret.how = "claims"

LEMMA ConfirmStep ==
    ASSUME ConfirmInv, ClaimsAccounted, [EndpointNext]_allVars
    PROVE  ConfirmInv'
  <1> USE DEF ConfirmInv, OkMeansConfirmed
  <1>0. ReqRecord
    BY DEF ReqShape
  <1>1. ASSUME NEW status, Reply(status)
        PROVE  req' = NoRequest /\ ReqRecord' /\ req'.step = "none"
    BY <1>1 DEF Reply, ReqRecord, NoRequest
  <1>2. ASSUME NEW step, GoOn(step)
        PROVE  ReqRecord' /\ req'.step = step
    <2>1. req' = [req EXCEPT !.step = step]
      BY <1>2 DEF GoOn
    <2> QED BY <2>1, <1>0 DEF ReqRecord
  <1>3. ASSUME NEW b \in Bodies, NEW secret \in BOOLEAN, NEW csrf \in BOOLEAN,
               HandlePost(b, secret, csrf)
        PROVE  ConfirmInv'
    BY <1>3 DEF HandlePost, ReqShape, ReqRecord, NoRequest, vars
  <1>4. CASE Fetch
    <2>1. UNCHANGED <<mdk, confirmed>> /\ req.step # "confirm"
      BY <1>4 DEF Fetch
    <2>2. (\E status : Reply(status)) \/ GoOn("call") \/ GoOn("lnurl")
      BY <1>4 DEF Fetch, Call
    <2>3. ReqRecord' /\ req'.step # "confirm"
      BY <2>2, <1>1, <1>2
    <2> QED BY <2>1, <2>3 DEF ReqShape
  <1>5. CASE WebhookCalled
    <2>1. UNCHANGED <<mdk, ret>>
      BY <1>5 DEF WebhookCalled, vars
    <2>2. (\E status : Reply(status)) \/ (GoOn("confirm") /\ ret.how = "claims")
      BY <1>5 DEF WebhookCalled
    <2>3. ReqRecord' /\ (req'.step = "confirm" => ret.how = "claims")
      BY <2>2, <1>1, <1>2
    <2>5. ReqShape' /\ (req'.step = "confirm" => ret.how = "claims")
      BY <2>1, <2>3 DEF ReqShape
    <2>6. \/ confirmed' = confirmed
          \/ /\ ret.how = "claims" /\ ret.claims = {}
             /\ confirmed' = confirmed \cup session.claims
      BY <1>5 DEF WebhookCalled, ReqShape
    <2>7. confirmed' \subseteq mdk.told
      BY <2>6 DEF ClaimsAccounted
    <2> QED BY <2>1, <2>5, <2>7
  <1>6. CASE Confirm
    <2>1. req' = NoRequest /\ ReqShape' /\ mdk.told \subseteq mdk'.told
      BY <1>6, <1>1 DEF Confirm, ReqShape, ReqRecord, NoRequest
    <2>2. \/ confirmed' = confirmed
          \/ confirmed' = confirmed \cup session.claims /\ mdk'.told = mdk.told \cup ret.claims
      BY <1>6 DEF Confirm, ReqShape
    <2>3. ret.claims = session.claims
      BY <1>6 DEF Confirm, ClaimsAccounted
    <2> QED BY <2>1, <2>2, <2>3 DEF NoRequest
  <1>7. CASE Resolve \/ PayoutCalled \/ Api \/ Create \/ InvoiceCalled
    <2>1. UNCHANGED <<mdk, confirmed>> /\ req.step # "confirm"
      BY <1>7 DEF Resolve, PayoutCalled, Api, Create, InvoiceCalled
    <2>2. ReqShape' /\ req'.step # "confirm"
      BY <1>7, <1>1, <2>1
         DEF Resolve, PayoutCalled, Api, Create, InvoiceCalled, Call, GoOn, ReqShape, ReqRecord,
             NoRequest
    <2> QED BY <2>1, <2>2
  <1>8. CASE RegisterInvoice
    <2>1. req' = NoRequest /\ UNCHANGED confirmed
      BY <1>8, <1>1 DEF RegisterInvoice
    <2>2. mdk'.told = mdk.told /\ mdk' = [told |-> mdk'.told, invoice |-> mdk'.invoice]
      BY <1>8 DEF RegisterInvoice, ReqShape
    <2> QED BY <2>1, <2>2 DEF ReqShape, ReqRecord, NoRequest
  <1>9. CASE Run \/ Hear \/ Expire
    BY <1>9 DEF Run, Hear, Expire, endpoint, ReqShape, ReqRecord
  <1>10. CASE UNCHANGED allVars
    BY <1>10 DEF allVars, vars, endpoint, ReqShape, ReqRecord
  <1> QED
    BY <1>3, <1>4, <1>5, <1>6, <1>7, <1>8, <1>9, <1>10 DEF EndpointNext, Answer

(* A webhook answered 200 has told MDK of every payment claimed during it, for any *)
(* set of payments, any number of requests and whatever fails in between.          *)
THEOREM ConfirmedWhenOk == EndpointSpec => []OkMeansConfirmed
  <1>1. EndpointInit => ConfirmInv
    BY DEF EndpointInit, ConfirmInv, ReqShape, ReqRecord, OkMeansConfirmed, NoRequest
  <1>2. ConfirmInv /\ ClaimsAccounted /\ [EndpointNext]_allVars => ConfirmInv'
    BY ConfirmStep
  <1>3. ConfirmInv => OkMeansConfirmed
    BY DEF ConfirmInv
  <1> QED
    BY <1>1, <1>2, <1>3, EndpointPumps, ClaimsReturned, PTL DEF EndpointSpec

-----------------------------------------------------------------------------
(* An invoice with a known prefix that passes the check of the payout and that *)
(* LDK pays is over the amount asked for, to a tenth of a msat.                *)
LEMMA AcceptedIsAsked ==
    ASSUME NEW i \in [prefix : STRING, digits : Nat \cup {None}, mult : STRING],
           NEW amount \in Int, i.prefix \in BOLT11_PREFIXES, Accepts(i, amount), LdkPays(i)
    PROVE  LdkPico(i) = amount
  <1>1. BtcMsat \in Nat /\ None \notin Int
    BY EndpointAssumption
  <1>2. i.digits # None
    BY DEF LdkPays, LdkPico
  <1>3. PICK d \in Nat : d = i.digits
    BY <1>2
  <1>4. ParseBolt11AmountMsat(i) = AmountMsat(d, i.mult) /\ LdkPico(i) = AmountPico(d, i.mult)
    BY <1>2, <1>3 DEF ParseBolt11AmountMsat, LdkPico, LdkPrefixes
  <1>5. ASSUME NEW msat \in Int, AmountMsat(d, i.mult) = msat
        PROVE  amount = 10 * msat
    BY <1>1, <1>4, <1>5 DEF Accepts
  <1>6. CASE i.mult = "BTC"
    <2>1. PICK msat \in Int : msat = d * BtcMsat
      BY <1>1
    <2>2. AmountMsat(d, i.mult) = msat /\ AmountPico(d, i.mult) = d * (10 * BtcMsat)
      BY <1>6, <2>1, SMT DEF AmountMsat, AmountPico
    <2>3. d * (10 * BtcMsat) = 10 * msat
      BY <1>1, <2>1
    <2> QED
      BY <1>4, <1>5, <2>2, <2>3
  <1>7. CASE i.mult = "m"
    <2>1. AmountMsat(d, i.mult) = d * 100000000 /\ AmountPico(d, i.mult) = d * 1000000000
      BY <1>7, SMT DEF AmountMsat, AmountPico
    <2> QED
      BY <1>4, <1>5, <2>1
  <1>8. CASE i.mult = "u"
    <2>1. AmountMsat(d, i.mult) = d * 100000 /\ AmountPico(d, i.mult) = d * 1000000
      BY <1>8, SMT DEF AmountMsat, AmountPico
    <2> QED
      BY <1>4, <1>5, <2>1
  <1>9. CASE i.mult = "n"
    <2>1. AmountMsat(d, i.mult) = d * 100 /\ AmountPico(d, i.mult) = d * 1000
      BY <1>9, SMT DEF AmountMsat, AmountPico
    <2> QED
      BY <1>4, <1>5, <2>1
  <1>10. CASE i.mult = "p"
    <2>1. AmountPico(d, i.mult) = d
      BY <1>10, SMT DEF AmountPico
    <2>2. d % 10 = 0
      BY <1>4, <2>1 DEF LdkPays
    <2>3. AmountMsat(d, i.mult) = d \div 10
      BY <1>10, <2>2, SMT DEF AmountMsat
    <2> QED
      BY <1>4, <1>5, <2>1, <2>2, <2>3
  <1>11. CASE i.mult \notin {"BTC", "m", "u", "n", "p"}
    <2>1. AmountPico(d, i.mult) = None
      BY <1>11, SMT DEF AmountPico
    <2> QED
      BY <1>4, <2>1 DEF LdkPays
  <1> QED
    BY <1>6, <1>7, <1>8, <1>9, <1>10, <1>11

(* What was asked for passed the check; what LDK knows is over an amount it reads. *)
PayInv == /\ ReqRecord /\ DOMAIN asked = Pays
          /\ req.step \in {"fetch", "lnurl"} => req.amount \in Int \cup {None}
          /\ req.step = "lnurl" => req.amount \in Int
          /\ \A p \in Pays : asked[p] # None =>
                 asked[p] \in Int /\ Accepts(Written[p], asked[p])
          /\ \A p \in Pays : paid[p] # "new" => LdkPays(Written[p])

(* A payment that becomes known to LDK is pending first. *)
LEMMA KnownIsPending ==
    ASSUME TypeOK, Loop, NEW p \in Pays, paid'[p] # "new"
    PROVE  paid[p] # "new" \/ paid'[p] = "pending"
  <1>1. CASE ChannelsReady
    <2>1. CASE StartPayment
      BY <2>1 DEF StartPayment, Initiate, TypeOK
    <2> QED BY <1>1, <2>1 DEF ChannelsReady, Refused
  <1>2. CASE StartRead \/ LastFlush \/ SocketClosed \/ ReadTimeout \/ MainStep \/ ReadFails
             \/ PeerReady
    BY <1>2 DEF StartRead, LastFlush, SocketClosed, ReadTimeout, MainStep, ReadFails, PeerReady
  <1>3. CASE Check \/ Return \/ Fails
    BY <1>3 DEF Check, Return, Fails, EndCall
  <1> QED BY <1>1, <1>2, <1>3 DEF Loop

(* What the peer sends makes no payment known. *)
LEMMA HeardIsKnown ==
    ASSUME TypeOK, Receive \/ TimePasses, NEW p \in Pays, paid[p] = "new"
    PROVE  paid'[p] = "new"
  <1>1. ASSUME NEW q \in Pays, NEW ok \in BOOLEAN, ReceiveOutcome(q, ok)
        PROVE  paid'[p] = "new"
    BY <1>1 DEF ReceiveOutcome, TypeOK
  <1>2. CASE Receive
    BY <1>1, <1>2
       DEF Receive, ReceiveInit, ReceiveReestablish, ReceiveDisconnect, ReceiveAnswer, ReceiveHtlc
  <1>3. CASE TimePasses
    BY <1>3 DEF TimePasses
  <1> QED BY <1>2, <1>3

(* One step per action of the endpoint. *)
LEMMA PayStep == ASSUME PayInv, TypeOK, [EndpointNext]_allVars PROVE PayInv'
  <1>1. ASSUME NEW status, Reply(status)
        PROVE  ReqRecord' /\ req'.step = "none"
    BY <1>1 DEF Reply, ReqRecord, NoRequest
  <1>2. ASSUME NEW step, GoOn(step)
        PROVE  ReqRecord' /\ req'.step = step /\ req'.amount = req.amount
    <2>1. req' = [req EXCEPT !.step = step]
      BY <1>2 DEF GoOn
    <2> QED BY <2>1 DEF PayInv, ReqRecord
  <1>3. ASSUME NEW b \in Bodies, NEW secret \in BOOLEAN, NEW csrf \in BOOLEAN,
               HandlePost(b, secret, csrf)
        PROVE  PayInv'
    <2>1. UNCHANGED <<asked, paid>>
      BY <1>3 DEF HandlePost, vars
    <2>2. \/ req' = req
          \/ ReqRecord' /\ req'.step \in {"fetch", "api"} /\ req'.amount = b.amount
      BY <1>3 DEF HandlePost, ReqRecord, NoRequest
    <2> QED BY <2>1, <2>2, EndpointAssumption DEF PayInv, ReqRecord
  <1>4. CASE Fetch
    <2>1. UNCHANGED <<asked, paid>> /\ req.step = "fetch"
      BY <1>4 DEF Fetch, Call, Begin, vars
    <2>2. \/ \E status : Reply(status)
          \/ GoOn("call")
          \/ req.amount # None /\ GoOn("lnurl")
      BY <1>4 DEF Fetch, Call
    <2>3. ReqRecord' /\ req'.step # "fetch" /\ (req'.step = "lnurl" => req'.amount \in Int)
      BY <2>1, <2>2, <1>1, <1>2 DEF PayInv
    <2> QED BY <2>1, <2>3 DEF PayInv
  <1>5. CASE Resolve
    <2>1. paid' = paid /\ req.amount \in Int
      BY <1>5 DEF Resolve, Call, Begin, vars, PayInv
    <2>2. ReqRecord' /\ req'.step \notin {"fetch", "lnurl"}
      BY <1>5, <1>1, <1>2 DEF Resolve, Call
    <2>3. \/ asked' = asked
          \/ \E p \in Pays : /\ Accepts(Written[p], req.amount)
                             /\ asked' = [asked EXCEPT ![p] = req.amount]
      BY <1>5 DEF Resolve
    <2>4. /\ DOMAIN asked' = Pays
          /\ \A p \in Pays : asked'[p] # None =>
                 asked'[p] \in Int /\ Accepts(Written[p], asked'[p])
      BY <2>1, <2>3 DEF PayInv
    <2> QED BY <2>1, <2>2, <2>4 DEF PayInv, Accepts
  <1>6. CASE WebhookCalled \/ Confirm \/ PayoutCalled \/ Api \/ Create \/ InvoiceCalled
             \/ RegisterInvoice
    <2>1. UNCHANGED <<asked, paid>>
      BY <1>6 DEF WebhookCalled, Confirm, PayoutCalled, Api, Create, InvoiceCalled,
                  RegisterInvoice, Begin, vars
    <2>2. ASSUME NEW c, NEW i, req' = [req EXCEPT !.step = "register", !.checkout = c,
                                                   !.invoice = i]
          PROVE  ReqRecord' /\ req'.step = "register"
      BY <2>2 DEF PayInv, ReqRecord
    <2>3. ASSUME NEW c, req' = [req EXCEPT !.step = "call", !.checkout = c]
          PROVE  ReqRecord' /\ req'.step = "call"
      BY <2>3 DEF PayInv, ReqRecord
    <2>4. ASSUME NEW i, req' = [req EXCEPT !.step = "register", !.invoice = i]
          PROVE  ReqRecord' /\ req'.step = "register"
      BY <2>4 DEF PayInv, ReqRecord
    <2>5. CASE WebhookCalled \/ Confirm \/ PayoutCalled \/ Api \/ RegisterInvoice
      <3>1. (\E status : Reply(status)) \/ GoOn("confirm")
        BY <2>5 DEF WebhookCalled, Confirm, PayoutCalled, Api, RegisterInvoice
      <3> QED BY <2>1, <3>1, <1>1, <1>2 DEF PayInv
    <2>6. CASE InvoiceCalled
      <3>1. \/ Reply(500)
            \/ \E i : req' = [req EXCEPT !.step = "register", !.invoice = i]
        BY <2>6 DEF InvoiceCalled
      <3>2. ReqRecord' /\ req'.step \notin {"fetch", "lnurl"}
        BY <3>1, <2>4, <1>1
      <3> QED BY <2>1, <3>2 DEF PayInv
    <2>7. CASE Create
      <3>1. \/ Reply(500) \/ Reply(200)
            \/ \E c : req' = [req EXCEPT !.step = "call", !.checkout = c]
            \/ \E c, i : req' = [req EXCEPT !.step = "register", !.checkout = c, !.invoice = i]
        BY <2>7 DEF Create
      <3>2. ReqRecord' /\ req'.step \notin {"fetch", "lnurl"}
        BY <3>1, <2>2, <2>3, <1>1
      <3> QED BY <2>1, <3>2 DEF PayInv
    <2> QED BY <1>6, <2>5, <2>6, <2>7
  <1>7. CASE Run \/ Hear \/ Expire
    <2>1. UNCHANGED <<req, asked>> /\ (Loop \/ Receive \/ TimePasses)
      BY <1>7 DEF Run, Hear, Expire, endpoint
    <2>2. ASSUME NEW p \in Pays, paid'[p] # "new" PROVE LdkPays(Written[p])
      <3>1. CASE paid[p] # "new"
        BY <3>1 DEF PayInv
      <3>2. CASE Run /\ paid[p] = "new"
        BY <2>1, <2>2, <3>2, KnownIsPending DEF Run, Readable
      <3>3. CASE (Hear \/ Expire) /\ paid[p] = "new"
        BY <2>2, <3>3, HeardIsKnown DEF Hear, Expire
      <3> QED BY <1>7, <3>1, <3>2, <3>3
    <2> QED BY <2>1, <2>2 DEF PayInv, ReqRecord
  <1>8. CASE UNCHANGED allVars
    BY <1>8 DEF allVars, vars, endpoint, PayInv, ReqRecord
  <1> QED
    BY <1>3, <1>4, <1>5, <1>6, <1>7, <1>8 DEF EndpointNext, Answer

(* A payout pays the amount it was asked for, whatever invoice with one of the *)
(* four prefixes the LNURL server hands out, with or without an amount and     *)
(* whatever its multiplier, whole BTC included.                                *)
THEOREM PaidWhatWasAsked == EndpointSpec => []PaysWhatWasAsked
  <1>1. EndpointInit => PayInv
    BY DEF EndpointInit, Init, PayInv, ReqRecord, NoRequest
  <1>2. PayInv /\ TypeOK /\ [EndpointNext]_allVars => PayInv'
    BY PayStep
  <1>3. PayInv => PaysWhatWasAsked
    BY AcceptedIsAsked, EndpointAssumption DEF PayInv, PaysWhatWasAsked
  <1> QED
    BY <1>1, <1>2, <1>3, EndpointPumps, TypeCorrect, PTL DEF EndpointSpec

-----------------------------------------------------------------------------
(* An amount in whole sats survives the way over msat to the invoice. *)
LEMMA SatsRoundTrip ==
    ASSUME NEW sats \in Nat \ {0}
    PROVE  InvoiceSats(sats) = sats
  <1>1. sats # None
    BY EndpointAssumption
  <1>2. (sats * 1000 + 999) \div 1000 = sats
    OBVIOUS
  <1> QED BY <1>1, <1>2 DEF InvoiceSats

(* The invoice over an SCID that was given carries that SCID. *)
LEMMA GivenScid ==
    ASSUME NEW a \in LspAnswer, InRange(a)
    PROVE  InvoiceWithScid(a).scid = <<a.block, a.tx, a.out>>
  BY ScidRoundTrip DEF InvoiceWithScid

(* The loop and what it hears are those of the call that began. *)
LEMMA CallStays == Loop \/ Receive \/ TimePasses => UNCHANGED call
  <1>1. StartRead \/ LastFlush \/ SocketClosed \/ ReadTimeout \/ MainStep => UNCHANGED call
    BY DEF StartRead, LastFlush, SocketClosed, ReadTimeout, MainStep, callVars
  <1>2. ReadFails \/ PeerReady \/ ChannelsReady \/ Check => UNCHANGED call
    BY DEF ReadFails, PeerReady, ChannelsReady, Check, callVars
  <1>3. Return \/ Fails => UNCHANGED call
    BY DEF Return, Fails, EndCall
  <1>4. Receive => UNCHANGED call
    BY DEF Receive, ReceiveInit, ReceiveReestablish, ReceiveDisconnect, ReceiveAnswer,
           ReceiveHtlc, ReceiveOutcome, Receiving, callVars
  <1>5. TimePasses => UNCHANGED call
    BY DEF TimePasses, callVars
  <1> QED BY <1>1, <1>2, <1>3, <1>4, <1>5 DEF Loop

(* This SCID is one a checkout may have. *)
Agreed(scid, c) ==
  /\ c \in Checkouts
  /\ IF c.scid # None THEN scid = <<c.scid.block, c.scid.tx, c.scid.out>>
     ELSE \E a \in Answers : a.ok /\ scid = <<a.block, a.tx, a.out>>

(* A checkout without an SCID waits for a registration, one with an invoice for *)
(* MDK; no other request calls the node for an invoice.                         *)
AgreedInv ==
  /\ ReqShape
  /\ req.step \in {"fetch", "lnurl"} => req.route \in SecretRoutes
  /\ req.step = "call" /\ req.route \notin SecretRoutes =>
       call.kind = "register" /\ req.checkout \in Checkouts /\ req.checkout.scid = None
  /\ req.step = "register" => Agreed(req.invoice.scid, req.checkout)
  /\ RegisteredAsAgreed

(* What is agreed may be registered. *)
LEMMA AgreedRegisters ==
    ASSUME NEW scid, NEW c, Agreed(scid, c), NEW told,
           mdk' = [told |-> told, invoice |-> [scid |-> scid, sats |-> InvoiceSats(c.sats),
                                               checkout |-> c]]
    PROVE  RegisteredAsAgreed'
  <1>1. c.sats \in Nat \cup {None}
    BY EndpointAssumption DEF Agreed
  <1>2. c.sats \notin {None, 0} => InvoiceSats(c.sats) = c.sats
    BY <1>1, SatsRoundTrip
  <1> QED BY <1>2 DEF Agreed, RegisteredAsAgreed

(* One step per action of the endpoint. *)
LEMMA AgreedStep ==
    ASSUME AgreedInv, TypeOK, InvoiceIsAnswer, [EndpointNext]_allVars
    PROVE  AgreedInv'
  <1> USE DEF AgreedInv
  <1>0. ReqRecord /\ mdk = [told |-> mdk.told, invoice |-> mdk.invoice]
    BY DEF ReqShape
  <1>1. ASSUME NEW status, Reply(status)
        PROVE  ReqRecord' /\ req'.step = "none"
    BY <1>1 DEF Reply, ReqRecord, NoRequest
  <1>2. ASSUME NEW step, GoOn(step)
        PROVE  ReqRecord' /\ req'.step = step /\ req'.route = req.route
    <2>1. req' = [req EXCEPT !.step = step]
      BY <1>2 DEF GoOn
    <2> QED BY <2>1, <1>0 DEF ReqRecord
  <1>3. ASSUME ReqRecord', req'.step \notin {"fetch", "lnurl", "call", "register"},
               mdk'.invoice = mdk.invoice,
               mdk' = [told |-> mdk'.told, invoice |-> mdk'.invoice]
        PROVE  AgreedInv'
    BY <1>3 DEF ReqShape, RegisteredAsAgreed
  <1>4. ASSUME NEW b \in Bodies, NEW secret \in BOOLEAN, NEW csrf \in BOOLEAN,
               HandlePost(b, secret, csrf)
        PROVE  AgreedInv'
    <2>1. UNCHANGED <<mdk, call>>
      BY <1>4 DEF HandlePost, vars
    <2>2. \/ req' = req
          \/ /\ ReqRecord' /\ req'.step \in {"fetch", "api"}
             /\ req'.step = "fetch" => req'.route \in SecretRoutes
      BY <1>4 DEF HandlePost, ReqRecord, NoRequest
    <2> QED BY <2>1, <2>2 DEF ReqShape, ReqRecord, RegisteredAsAgreed
  <1>5. CASE Fetch \/ Resolve
    <2>1. UNCHANGED mdk /\ req.route \in SecretRoutes
      BY <1>5 DEF Fetch, Resolve
    <2>2. (\E status : Reply(status)) \/ GoOn("call") \/ GoOn("lnurl")
      BY <1>5 DEF Fetch, Resolve, Call
    <2>3. ReqRecord' /\ (req'.step = "none" \/
                         (req'.step \in {"call", "lnurl"} /\ req'.route \in SecretRoutes))
      BY <2>1, <2>2, <1>1, <1>2
    <2> QED BY <1>0, <2>1, <2>3 DEF ReqShape, RegisteredAsAgreed
  <1>6. CASE WebhookCalled \/ PayoutCalled \/ Api
    <2>1. UNCHANGED mdk
      BY <1>6 DEF WebhookCalled, PayoutCalled, Api
    <2>2. (\E status : Reply(status)) \/ GoOn("confirm")
      BY <1>6 DEF WebhookCalled, PayoutCalled, Api
    <2>3. ReqRecord' /\ req'.step \in {"none", "confirm"}
      BY <2>2, <1>1, <1>2
    <2> QED BY <1>0, <1>3, <2>1, <2>3
  <1>7. CASE Confirm
    <2>1. \E status : Reply(status)
      BY <1>7 DEF Confirm
    <2>2. mdk'.invoice = mdk.invoice /\ mdk' = [told |-> mdk'.told, invoice |-> mdk'.invoice]
      BY <1>0, <1>7 DEF Confirm
    <2> QED BY <1>1, <1>3, <2>1, <2>2
  <1>8. CASE Create
    <2>1. UNCHANGED mdk
      BY <1>8 DEF Create
    <2>2. CASE \E status : Reply(status)
      BY <1>0, <1>1, <1>3, <2>1, <2>2
    <2>3. ASSUME NEW c \in Checkouts, c.scid = None, Begin("register", None),
                 req' = [req EXCEPT !.step = "call", !.checkout = c]
          PROVE  AgreedInv'
      <3>1. ReqRecord' /\ req'.step = "call" /\ req'.checkout = c
        BY <1>0, <2>3 DEF ReqRecord
      <3>2. call'.kind = "register"
        BY <2>3 DEF Begin
      <3> QED BY <1>0, <2>1, <2>3, <3>1, <3>2 DEF ReqShape, RegisteredAsAgreed
    <2>4. ASSUME NEW c \in Checkouts, c.scid # None, InRange(c.scid),
                 req' = [req EXCEPT !.step = "register", !.checkout = c,
                                    !.invoice = InvoiceWithScid(c.scid)]
          PROVE  AgreedInv'
      <3>1. /\ ReqRecord' /\ req'.step = "register" /\ req'.checkout = c
            /\ req'.invoice = InvoiceWithScid(c.scid)
        BY <1>0, <2>4 DEF ReqRecord
      <3>2. c.scid \in LspAnswer
        BY <2>4, EndpointAssumption
      <3>3. Agreed(req'.invoice.scid, c)
        BY <2>4, <3>1, <3>2, GivenScid DEF Agreed
      <3> QED BY <1>0, <2>1, <3>1, <3>3 DEF ReqShape, RegisteredAsAgreed, Agreed
    <2> QED BY <1>8, <2>2, <2>3, <2>4 DEF Create
  <1>9. CASE InvoiceCalled
    <2>1. UNCHANGED mdk /\ req.step = "call" /\ req.route \notin SecretRoutes
      BY <1>9 DEF InvoiceCalled
    <2>2. CASE Reply(500)
      BY <1>0, <1>1, <1>3, <2>1, <2>2
    <2>3. CASE ret.how = "invoice" /\
               req' = [req EXCEPT !.step = "register", !.invoice = ret.invoice]
      <3>1. /\ ReqRecord' /\ req'.step = "register" /\ req'.checkout = req.checkout
            /\ req'.invoice = ret.invoice
        BY <1>0, <2>3 DEF ReqRecord
      <3>2. \E a \in session.taken : a.ok /\ ret.invoice.scid = <<a.block, a.tx, a.out>>
        BY <2>1, <2>3 DEF InvoiceIsAnswer
      <3>3. session.taken \subseteq Answers
        BY DEF TypeOK
      <3>4. Agreed(ret.invoice.scid, req.checkout)
        BY <2>1, <3>2, <3>3 DEF Agreed
      <3> QED BY <1>0, <2>1, <3>1, <3>4 DEF ReqShape, RegisteredAsAgreed, Agreed
    <2> QED BY <1>9, <2>2, <2>3 DEF InvoiceCalled
  <1>10. CASE RegisterInvoice
    <2> DEFINE told == [mdk EXCEPT !.invoice = [scid |-> req.invoice.scid,
                                                sats |-> InvoiceSats(req.checkout.sats),
                                                checkout |-> req.checkout]]
    <2>1. Agreed(req.invoice.scid, req.checkout) /\ (\E status : Reply(status))
          /\ mdk' \in {told, mdk}
      BY <1>10 DEF RegisterInvoice
    <2>2. ReqRecord' /\ req'.step = "none"
      BY <1>1, <2>1
    <2>3. told = [told |-> mdk.told,
                  invoice |-> [scid |-> req.invoice.scid,
                               sats |-> InvoiceSats(req.checkout.sats),
                               checkout |-> req.checkout]]
      BY <1>0
    <2>4. RegisteredAsAgreed'
      <3>1. CASE mdk' = told
        BY <2>1, <2>3, <3>1, AgreedRegisters
      <3>2. CASE mdk' = mdk
        BY <3>2 DEF RegisteredAsAgreed
      <3> QED BY <2>1, <3>1, <3>2
    <2>5. mdk' = [told |-> mdk'.told, invoice |-> mdk'.invoice]
      <3> HIDE DEF told
      <3> QED BY <1>0, <2>1, <2>3
    <2> QED BY <2>2, <2>4, <2>5 DEF ReqShape
  <1>11. CASE Run \/ Hear \/ Expire
    BY <1>11, CallStays DEF Run, Hear, Expire, endpoint, ReqShape, ReqRecord, RegisteredAsAgreed,
                            Agreed
  <1>12. CASE UNCHANGED allVars
    BY <1>12 DEF allVars, vars, endpoint, ReqShape, ReqRecord, RegisteredAsAgreed, Agreed
  <1> QED
    BY <1>4, <1>5, <1>6, <1>7, <1>8, <1>9, <1>10, <1>11, <1>12 DEF EndpointNext, Answer

(* The invoice MDK has for a checkout has the SCID that MDK gave, or one that the *)
(* LSP assigned, and the amount of the checkout, for any sizes of the fields, any *)
(* amounts, and whatever fails or is asked again in between.                      *)
THEOREM RegistersAsAgreed == EndpointSpec => []RegisteredAsAgreed
  <1>1. EndpointInit => AgreedInv
    BY DEF EndpointInit, AgreedInv, ReqShape, ReqRecord, RegisteredAsAgreed, NoRequest
  <1>2. AgreedInv /\ TypeOK /\ InvoiceIsAnswer /\ [EndpointNext]_allVars => AgreedInv'
    BY AgreedStep
  <1>3. AgreedInv => RegisteredAsAgreed
    BY DEF AgreedInv
  <1> QED
    BY <1>1, <1>2, <1>3, EndpointPumps, TypeCorrect, InvoiceRight, PTL DEF EndpointSpec
=============================================================================
