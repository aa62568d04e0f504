------------------------------- MODULE PumpLoop -------------------------------
(***************************************************************************)
(* Calls of an MdkNode that talk to the LSP, one after the other: getInvoice *)
(* (LSPS4 registration), receivePayments and pay.  Each restores the node,  *)
(* runs pumpLoop (pump-loop.ts) over process_pump_step (node.rs) until a    *)
(* result, a timeout or the end of the connection, and persists.  LDK's     *)
(* undelivered events and pending payments survive from one call to the     *)
(* next.                                                                    *)
(*                                                                          *)
(* The order in which monitors are flushed and messages are written, and    *)
(* crashes, are NodeSession's; here a call ends by returning or throwing,   *)
(* and its manager is stored in both cases.  The peer, LDK and the clock    *)
(* are external.                                                            *)
(***************************************************************************)
EXTENDS Integers, FiniteSets

CONSTANTS
  Pays,                          \* BOLT11 invoices that callers pay
  Htlcs,                         \* inbound payments the LSP holds for the node
  Outs,                          \* spendable outputs LDK reports
  Answers,                       \* answers of the LSP: [ok, block, tx, out, cltv]
  BlockSize, TxSize, OutSize,    \* 2^24, 2^24, 2^16
  CltvSize,                      \* 2^16
  MaxCalls,                      \* bound on the number of calls
  None

ASSUME SizeAssumption ==
  /\ BlockSize \in Nat \ {0} /\ TxSize \in Nat \ {0} /\ OutSize \in Nat \ {0}
  /\ CltvSize \in Nat \ {0}

(* RegisterNodeResponse: the parts of the SCID and the delta, or an error. *)
LspAnswer == [ok : BOOLEAN, block : Nat, tx : Nat, out : Nat, cltv : Nat]
ASSUME AnswerAssumption == Answers \subseteq LspAnswer
ASSUME CallAssumption == MaxCalls \in Nat /\ None \notin Pays

VARIABLES
  events,      \* LDK's events not handled yet: outcomes, claimable, spendable
  paid,        \* Pays -> "new" (unknown to LDK), "pending", "sent"
  held,        \* HTLCs the LSP still holds
  sweepKey,    \* storage: the value under sweepable_outputs
  collected,   \* history: every output a call collected
  calls, call, \* how many calls began; the current one
  pc,
  conn,        \* peer_ready, channels_ready, whether the socket is gone
  lsps,        \* Lsps4MessageHandler and the LSP behind it
  loop,        \* local variables of pumpLoop
  res,         \* result of the main step of this iteration
  swept,       \* sweepable_outputs of the session
  session,     \* history of the call: claims made, requests and payments started,
               \* answers taken
  ret          \* what the last call returned

vars == <<events, paid, held, sweepKey, collected, calls, call, pc, conn, lsps, loop,
          res, swept, session, ret>>

Word    == BlockSize * TxSize * OutSize      \* a SCID is a u64
Scid    == 0 .. (Word - 1)
Outcome == [pay : Pays, ok : BOOLEAN]
Reg     == [st : {"none", "ok", "error"}, scid : Scid, cltv : Nat]
Result  == [peer : BOOLEAN, chans : BOOLEAN, reg : Reg, claimed : SUBSET Htlcs,
            outcome : SUBSET Outcome, gone : BOOLEAN]      \* outcome: at most one
Locals  == [peerDone : BOOLEAN, chansDone : BOOLEAN, all : SUBSET Htlcs,
            late : BOOLEAN, quiet : BOOLEAN, read : BOOLEAN]

NoEvents == [outcomes |-> {}, claimable |-> {}, spendable |-> {}]
NoReg    == [st |-> "none", scid |-> 0, cltv |-> 0]
NoResult == [peer |-> FALSE, chans |-> FALSE, reg |-> NoReg, claimed |-> {},
             outcome |-> {}, gone |-> FALSE]
NoReturn == [how |-> "none", pay |-> {}, claims |-> {}, invoice |-> <<>>]
NewLoop  == [peerDone |-> FALSE, chansDone |-> FALSE, all |-> {}, late |-> FALSE,
             quiet |-> FALSE, read |-> FALSE]
NewConn  == [peer |-> FALSE, chans |-> FALSE, gone |-> FALSE]
NewLsps  == [asked |-> 0, response |-> {}]
NewSession == [claims |-> {}, starts |-> 0, taken |-> {}]

Init ==
  /\ events = NoEvents /\ paid = [p \in Pays |-> "new"] /\ held = Htlcs
  /\ sweepKey = {} /\ collected = {} /\ calls = 0
  /\ call = [kind |-> "none", pay |-> None] /\ pc = "idle"
  /\ conn = NewConn /\ lsps = NewLsps /\ loop = NewLoop /\ res = NoResult
  /\ swept = {} /\ session = NewSession /\ ret = NoReturn

-----------------------------------------------------------------------------
(* LSPS4: msgs.rs, InvoiceDetails and the boundary to JavaScript *)

(* Bug variant of InRange: the bound itself passes. *)
InRangeClosed(a) == a.block <= BlockSize /\ a.tx <= TxSize /\ a.out <= OutSize

(* parse_scid *)
InRange(a)   == a.block < BlockSize /\ a.tx < TxSize /\ a.out < OutSize
ParseScid(a) == a.block * (TxSize * OutSize) + a.tx * OutSize + a.out

(* parse_register_node_response *)
Registration(a) ==
  IF a.ok /\ InRange(a) THEN [st |-> "ok", scid |-> ParseScid(a), cltv |-> a.cltv]
  ELSE [NoReg EXCEPT !.st = "error"]

(* Bug variant of Crossing: the SCID crosses as a number that has no room for *)
(* its last bit.                                                             *)
LossyCrossing(n) == n - (n % 2)

(* A u64 passes to JavaScript and back as a decimal string. *)
Crossing(n) == n % Word

(* InvoiceDetails::from_invoice *)
FormatScid(n) == <<n \div (TxSize * OutSize), (n \div OutSize) % TxSize, n % OutSize>>

(* build_invoice, create_jit_invoice: the hop of the route hint; the delta is cut *)
(* to 16 bits.                                                                    *)
JitHop(n, cltv) == [scid |-> n, cltv |-> cltv % CltvSize]

(* create_invoice_on_session: the invoice, and the SCID reported to MDK. *)
Invoice(reg) == LET n == Crossing(reg.scid)
                IN [hop |-> JitHop(n, reg.cltv), scid |-> FormatScid(n)]

(* Lsps4MessageHandler: send_register_node, take_registration *)
Ask(l)  == [l EXCEPT !.asked = @ + 1]
Take(l) == [l EXCEPT !.response = {}]

-----------------------------------------------------------------------------
(* What the outside does *)

callVars == <<sweepKey, collected, calls, call>>

Begin(kind, p) ==
  /\ pc = "idle" /\ calls < MaxCalls
  /\ (kind = "pay") <=> (p # None)
  /\ calls' = calls + 1 /\ call' = [kind |-> kind, pay |-> p]
  /\ pc' = "top" /\ conn' = NewConn /\ lsps' = NewLsps /\ loop' = NewLoop
  /\ res' = NoResult /\ swept' = {} /\ session' = NewSession /\ ret' = NoReturn
  /\ UNCHANGED <<events, paid, held, sweepKey, collected>>

(* The alarm's sync matures an output between two calls; LDK keeps the event. *)
Mature(o) ==
  /\ pc = "idle" /\ o \notin collected \cup events.spendable
  /\ events' = [events EXCEPT !.spendable = @ \cup {o}]
  /\ UNCHANGED <<paid, held, callVars, pc, conn, lsps, loop, res, swept, session, ret>>

(* timeoutMs ran out, or quietTimeoutMs since the last claim. *)
TimePasses ==
  /\ pc = "top"
  /\ \/ ~loop.late /\ loop' = [loop EXCEPT !.late = TRUE]
     \/ ~loop.quiet /\ loop.all # {} /\ loop' = [loop EXCEPT !.quiet = TRUE]
  /\ UNCHANGED <<events, paid, held, callVars, pc, conn, lsps, res, swept, session, ret>>

(* What read_event takes from the bytes of one read, before the events of the *)
(* step are handled.                                                          *)
Receiving ==
  /\ pc = "read" /\ loop' = [loop EXCEPT !.read = TRUE]
  /\ UNCHANGED <<callVars, pc, res, swept, session, ret>>

ReceiveInit == /\ Receiving /\ ~conn.peer
               /\ conn' = [conn EXCEPT !.peer = TRUE]
               /\ UNCHANGED <<events, paid, held, lsps>>
ReceiveReestablish == /\ Receiving /\ conn.peer /\ ~conn.chans
                      /\ conn' = [conn EXCEPT !.chans = TRUE]
                      /\ UNCHANGED <<events, paid, held, lsps>>
(* handle_custom_message: the latest answer is the one that stays. *)
ReceiveAnswer(a) == /\ Receiving /\ conn.peer /\ lsps.asked > 0
                    /\ lsps' = [asked |-> lsps.asked - 1, response |-> {a}]
                    /\ UNCHANGED <<events, paid, held, conn>>
ReceiveHtlc(h) == /\ Receiving /\ conn.chans /\ h \in held
                  /\ held' = held \ {h}
                  /\ events' = [events EXCEPT !.claimable = @ \cup {h}]
                  /\ UNCHANGED <<paid, lsps, conn>>
ReceiveOutcome(p, ok) == /\ Receiving /\ conn.chans /\ paid[p] = "pending"
                         /\ paid' = [paid EXCEPT ![p] = IF ok THEN "sent" ELSE "new"]
                         /\ events' = [events EXCEPT !.outcomes = @ \cup {[pay |-> p, ok |-> ok]}]
                         /\ UNCHANGED <<held, lsps, conn>>
ReceiveDisconnect == /\ Receiving /\ ~conn.gone
                     /\ conn' = [peer |-> FALSE, chans |-> FALSE, gone |-> TRUE]
                     /\ UNCHANGED <<events, paid, held, lsps>>

-----------------------------------------------------------------------------
(* process_pump_step and applyPumpResult *)

(* Of the outcomes LDK reports in one step only the first is passed on. *)
Reported(outcomes) == IF outcomes = {} THEN {{}} ELSE {{o} : o \in outcomes}

(* The possible results of process_pump_step when these outcomes are reported. *)
Results(outcomes) ==
  {[peer |-> conn.peer, chans |-> conn.chans,
    reg |-> IF lsps.response = {} THEN NoReg
            ELSE Registration(CHOOSE a \in Answers : a \in lsps.response),
    claimed |-> events.claimable, outcome |-> o, gone |-> conn.gone] :
   o \in Reported(outcomes)}

(* The state after a step whose result is r, applied: events are handled,   *)
(* spendable outputs collected, the answer taken, the claims accumulated.   *)
Accumulate(lp, r) == IF r.claimed = {} THEN lp
                     ELSE [lp EXCEPT !.all = @ \cup r.claimed, !.quiet = FALSE]
Collect == /\ swept' = swept \cup events.spendable
           /\ collected' = collected \cup events.spendable
Handle  == events' = NoEvents /\ Collect
Record(r, started) == session' = [claims |-> session.claims \cup r.claimed,
                                  starts |-> session.starts + started,
                                  taken  |-> session.taken \cup lsps.response]

(* terminalResult: throw, return, or go on. *)
Throws(r)  == r.reg.st = "error"
Returns(r) == \/ call.kind = "register" /\ r.reg.st = "ok"
              \/ r.outcome # {}
              \/ r.gone

Leave(r, lp) == pc' = "left" /\ res' = r /\ loop' = lp
Throw(lp)    == pc' = "thrown" /\ res' = NoResult /\ loop' = lp

(* Bug variant of FlushThen: only steps with input accumulate their claims. *)
FlushForgets(r, lp, next) ==
  \/ Throws(r) /\ Throw(lp)
  \/ ~Throws(r) /\ (Returns(r) \/ next = "left") /\ Leave(r, lp)
  \/ ~Throws(r) /\ ~Returns(r) /\ next # "left" /\ pc' = next /\ loop' = lp /\ UNCHANGED res

(* A flush without input, after which the loop is left or goes on.  LDK has made *)
(* its claims when storing the monitors or writing to the socket fails.          *)
FlushThen(r, lp, next) ==
  LET after == Accumulate(lp, r)
  IN \/ Throw(lp)
     \/ Throws(r) /\ Throw(after)
     \/ ~Throws(r) /\ (Returns(r) \/ next = "left") /\ Leave(r, after)
     \/ ~Throws(r) /\ ~Returns(r) /\ next # "left"
        /\ pc' = next /\ loop' = after /\ UNCHANGED res

Flush(outcomes, lp, next, started) ==
  /\ Handle
  /\ \E r \in Results(outcomes) :
       /\ FlushThen(r, lp, next)
       /\ Record(r, started)

-----------------------------------------------------------------------------
(* The iterations of pumpLoop *)

(* Bug variant of TimedOut: the deadline is not checked while the peer is heard. *)
TimedOutInSilence == loop.late /\ ~loop.peerDone

TimedOut  == loop.late
QuietDone == call.kind = "claims" /\ loop.all # {} /\ loop.quiet

StartRead ==
  /\ pc = "top" /\ ~TimedOut /\ ~QuietDone
  /\ pc' = "read"
  /\ UNCHANGED <<events, paid, held, callVars, conn, lsps, loop, res, swept, session, ret>>

(* The last flush of a timeout; its result is the loop's, terminal or not. *)
LastFlush ==
  /\ pc = "top" /\ (TimedOut \/ QuietDone)
  /\ Flush(events.outcomes, loop, "left", 0) /\ lsps' = Take(lsps)
  /\ UNCHANGED <<paid, held, sweepKey, calls, call, conn, ret>>

(* The socket was closed by the peer. *)
SocketClosed ==
  /\ pc = "read" /\ ~loop.read
  /\ conn' = [peer |-> FALSE, chans |-> FALSE, gone |-> TRUE]
  /\ Leave([NoResult EXCEPT !.gone = TRUE], loop)
  /\ UNCHANGED <<events, paid, held, callVars, lsps, swept, session, ret>>

(* No bytes within the read timeout. *)
ReadTimeout ==
  /\ pc = "read" /\ ~loop.read
  /\ Flush(events.outcomes, loop, "top", 0) /\ lsps' = Take(lsps)
  /\ UNCHANGED <<paid, held, sweepKey, calls, call, conn, ret>>

MainStep ==
  /\ pc = "read" /\ loop.read
  /\ \E r \in Results(events.outcomes) :
       /\ \/ Throw(loop)
          \/ /\ pc' = "peer" /\ res' = r
             /\ loop' = [Accumulate(loop, r) EXCEPT !.read = FALSE]
       /\ Record(r, 0)
  /\ Handle /\ lsps' = Take(lsps)
  /\ UNCHANGED <<paid, held, sweepKey, calls, call, conn, ret>>

(* socket.read rejects, or read_event fails before any event is handled. *)
ReadFails ==
  /\ pc = "read"
  /\ Throw(loop)
  /\ UNCHANGED <<events, paid, held, callVars, conn, lsps, swept, session, ret>>

(* Bug variant of PeerReady: the latch peerReadyHandled is never set. *)
PeerReadyAgain ==
  /\ pc = "peer" /\ pc' = "chans"
  /\ lsps' = IF res.peer /\ call.kind = "register" THEN Ask(lsps) ELSE lsps
  /\ session' = IF res.peer /\ call.kind = "register" THEN [session EXCEPT !.starts = @ + 1]
                ELSE session
  /\ UNCHANGED <<events, paid, held, callVars, conn, loop, res, swept, ret>>

(* The peer is ready for the first time: ask for a registration. *)
Register ==
  /\ res.peer /\ ~loop.peerDone /\ call.kind = "register"
  /\ Flush(events.outcomes, [loop EXCEPT !.peerDone = TRUE], "chans", 1)
  /\ lsps' = Take(Ask(lsps))

PeerReady ==
  /\ pc = "peer"
  /\ \/ Register
     \/ /\ ~res.peer \/ loop.peerDone \/ call.kind # "register"
        /\ loop' = [loop EXCEPT !.peerDone = @ \/ res.peer] /\ pc' = "chans"
        /\ UNCHANGED <<events, collected, lsps, res, swept, session>>
  /\ UNCHANGED <<paid, held, sweepKey, calls, call, conn, ret>>

(* initiate_payment: LDK knows the payment, unless it gave it up at once. *)
Initiate(p, failed) == paid' = [paid EXCEPT ![p] = IF failed = {} THEN "pending" ELSE "new"]

(* Channels are usable for the first time: start the payment.  LDK refuses one *)
(* it knows or cannot route.                                                   *)
StartPayment ==
  /\ res.chans /\ ~loop.chansDone /\ call.kind = "pay" /\ paid[call.pay] = "new"
  /\ \E failed \in {{}, {[pay |-> call.pay, ok |-> FALSE]}} :
       /\ Flush(events.outcomes \cup failed, [loop EXCEPT !.chansDone = TRUE], "check", 1)
       /\ Initiate(call.pay, failed)
  /\ lsps' = Take(lsps)

Refused ==
  /\ res.chans /\ ~loop.chansDone /\ call.kind = "pay"
  /\ Throw(loop)
  /\ UNCHANGED <<events, paid, collected, lsps, swept, session>>

ChannelsReady ==
  /\ pc = "chans"
  /\ \/ StartPayment
     \/ Refused
     \/ /\ ~res.chans \/ loop.chansDone \/ call.kind # "pay"
        /\ loop' = [loop EXCEPT !.chansDone = @ \/ res.chans] /\ pc' = "check"
        /\ UNCHANGED <<events, paid, collected, lsps, res, swept, session>>
  /\ UNCHANGED <<held, sweepKey, calls, call, conn, ret>>

(* terminalResult of the main step, once the callbacks are done. *)
Check ==
  /\ pc = "check"
  /\ \/ Throws(res) /\ Throw(loop)
     \/ ~Throws(res) /\ Returns(res) /\ Leave(res, loop)
     \/ ~Throws(res) /\ ~Returns(res) /\ pc' = "top" /\ UNCHANGED <<res, loop>>
  /\ UNCHANGED <<events, paid, held, callVars, conn, lsps, swept, session, ret>>

-----------------------------------------------------------------------------
(* The end of the call *)

(* persistSessionEnd: outputs of this session replace the stored ones. *)
StoreSweepable == sweepKey' = IF swept = {} THEN sweepKey ELSE swept

Answered(r) ==
  CASE call.kind = "claims" -> [NoReturn EXCEPT !.how = "claims", !.claims = loop.all]
    [] call.kind = "register" ->
         IF r.reg.st = "ok" THEN [NoReturn EXCEPT !.how = "invoice", !.invoice = Invoice(r.reg)]
         ELSE [NoReturn EXCEPT !.how = "timedOut"]
    [] call.kind = "pay" ->
         IF r.outcome = {} THEN [NoReturn EXCEPT !.how = "timedOut"]
         ELSE [NoReturn EXCEPT !.how = "outcome", !.pay = r.outcome]

EndCall(value) ==
  /\ ret' = value /\ pc' = "idle" /\ StoreSweepable
  /\ UNCHANGED <<events, paid, held, collected, calls, call, conn, lsps, loop, res, swept,
                 session>>

Return == pc = "left" /\ EndCall(Answered(res))
Fails  == pc = "thrown" /\ EndCall([NoReturn EXCEPT !.how = "error"])

-----------------------------------------------------------------------------
Loop == \/ StartRead \/ LastFlush \/ SocketClosed \/ ReadTimeout \/ MainStep
        \/ ReadFails \/ PeerReady \/ ChannelsReady \/ Check \/ Return \/ Fails

Receive == \/ ReceiveInit \/ ReceiveReestablish \/ ReceiveDisconnect
           \/ \E a \in Answers : ReceiveAnswer(a)
           \/ \E h \in Htlcs : ReceiveHtlc(h)
           \/ \E p \in Pays, ok \in BOOLEAN : ReceiveOutcome(p, ok)

Next == \/ Loop \/ Receive \/ TimePasses
        \/ \E kind \in {"register", "claims", "pay"}, p \in Pays \cup {None} : Begin(kind, p)
        \/ \E o \in Outs : Mature(o)

Spec     == Init /\ [][Next]_vars
FairSpec == Spec /\ WF_vars(Loop) /\ SF_vars(TimePasses)

-----------------------------------------------------------------------------
(* Properties *)

(* Every variable has its type. *)
TypeOK ==
  /\ events \in [outcomes : SUBSET Outcome, claimable : SUBSET Htlcs, spendable : SUBSET Outs]
  /\ paid \in [Pays -> {"new", "pending", "sent"}]
  /\ held \subseteq Htlcs /\ sweepKey \subseteq Outs /\ collected \subseteq Outs
  /\ calls \in 0 .. MaxCalls
  /\ call \in [kind : {"none", "register", "claims", "pay"}, pay : Pays \cup {None}]
  /\ call.kind = "pay" => call.pay \in Pays
  /\ pc # "idle" => call.kind # "none"
  /\ pc \in {"idle", "top", "read", "peer", "chans", "check", "left", "thrown"}
  /\ conn \in [peer : BOOLEAN, chans : BOOLEAN, gone : BOOLEAN]
  /\ lsps \in [asked : Nat, response : SUBSET Answers]
  /\ loop \in Locals
  /\ res \in Result
  /\ swept \subseteq Outs
  /\ session \in [claims : SUBSET Htlcs, starts : Nat, taken : SUBSET Answers]
  /\ ret.how \in {"none", "claims", "invoice", "outcome", "timedOut", "error"}
  /\ ret.claims \subseteq Htlcs /\ ret.pay \subseteq Outcome

(* receivePayments returns every payment LDK claimed during the call, also those *)
(* claimed in a flush without input, in the flush of a deadline or before the    *)
(* peer went away: the caller confirms to MDK what it is told, nothing else.     *)
ClaimsAccounted == ret.how = "claims" => ret.claims = session.claims

(* The SCID in the invoice getInvoice returns, and the one it reports, are what   *)
(* the LSP assigned, across parse_scid, the boundary to JavaScript and formatting, *)
(* and so is a delta that fits 16 bits; and getInvoice reports a registration that *)
(* timed out only if no acceptable answer was taken, in whatever step, the flush   *)
(* of the deadline included, it arrived.                                           *)
InvoiceIsAnswer ==
  call.kind = "register" =>
    LET good == {a \in session.taken : /\ a.ok /\ a.block < BlockSize
                                       /\ a.tx < TxSize /\ a.out < OutSize}
        Carries(a) == /\ ret.invoice.scid = <<a.block, a.tx, a.out>>
                      /\ FormatScid(ret.invoice.hop.scid) = <<a.block, a.tx, a.out>>
                      /\ a.cltv < CltvSize => ret.invoice.hop.cltv = a.cltv
    IN /\ ret.how = "invoice" => \E a \in good : Carries(a)
       /\ ret.how = "timedOut" => good = {}

(* A call asks for at most one registration and starts at most one payment,      *)
(* however many steps report the peer or the channels as ready.                  *)
StartedOnce == session.starts <= 1

(* Every call ends, by returning or by throwing, whatever the peer sends or does *)
(* not send: the deadline of pumpLoop is reached under traffic and in silence.   *)
CallEnds == (pc # "idle") ~> (pc = "idle")

(* pay() returns the outcome of the payment it was asked to make. *)
OwnOutcome == ret.how = "outcome" => \A o \in ret.pay : o.pay = call.pay

(* Every spendable output a call collected is still stored when no call runs. *)
SweepableSurvive == pc = "idle" => collected \subseteq sweepKey
=============================================================================
