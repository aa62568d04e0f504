--------------------------- MODULE PumpLoopProofs ---------------------------
(* Proofs about PumpLoop, for any sets of invoices, HTLCs, outputs and answers, *)
(* any sizes of the fields of a SCID and any number of calls.                   *)
EXTENDS PumpLoop, TLAPS

USE SizeAssumption, AnswerAssumption, CallAssumption DEF LspAnswer

-----------------------------------------------------------------------------
(* SCIDs *)

\* A multiple of a smaller factor leaves room for one more.
LEMMA MulMono ==
    ASSUME NEW a \in Nat, NEW b \in Nat, NEW c \in Nat, a < b
    PROVE  a * c \in Nat /\ a * c + c <= b * c
  <1>1. b - a - 1 \in Nat
    OBVIOUS
  <1>2. (b - a - 1) * c \in Nat
    BY <1>1
  <1>3. (b - a - 1) * c = b * c - a * c - c
    OBVIOUS
  <1> QED
    BY <1>2, <1>3

\* Quotient and remainder of a number given by them.
LEMMA DivMod ==
    ASSUME NEW q \in Nat, NEW d \in Nat \ {0}, NEW r \in Nat, r < d
    PROVE  (q * d + r) \div d = q /\ (q * d + r) % d = r
  OBVIOUS

\* The two ways to group the fields of a SCID.
LEMMA ScidGroups ==
    ASSUME NEW a \in LspAnswer, InRange(a)
    PROVE  /\ a.tx * OutSize + a.out \in Nat /\ a.tx * OutSize + a.out < TxSize * OutSize
           /\ ParseScid(a) = a.block * (TxSize * OutSize) + (a.tx * OutSize + a.out)
           /\ a.block * TxSize + a.tx \in Nat
           /\ ParseScid(a) = (a.block * TxSize + a.tx) * OutSize + a.out
           /\ ParseScid(a) \in Scid
  <1>1. /\ a.block \in Nat /\ a.tx \in Nat /\ a.out \in Nat
        /\ a.block < BlockSize /\ a.tx < TxSize /\ a.out < OutSize
    BY DEF InRange
  <1> DEFINE low == a.tx * OutSize + a.out
             row == TxSize * OutSize
  <1>2. a.tx * OutSize \in Nat /\ a.tx * OutSize + OutSize <= row
    BY <1>1, MulMono
  <1>3. low \in Nat /\ low < row /\ row \in Nat
    BY <1>1, <1>2
  <1>4. a.block * row \in Nat /\ a.block * row + row <= BlockSize * row
    <2> HIDE DEF row
    <2> QED BY <1>1, <1>3, MulMono
  <1>5. ParseScid(a) = a.block * row + low
    BY <1>1 DEF ParseScid
  <1>6. BlockSize * row = Word
    BY DEF Word
  <1>7. ParseScid(a) \in Scid
    <2> HIDE DEF row, low
    <2>1. Word \in Int
      BY DEF Word
    <2> QED BY <1>3, <1>4, <1>5, <1>6, <2>1 DEF Scid
  <1>8. /\ a.block * TxSize + a.tx \in Nat
        /\ a.block * row = (a.block * TxSize) * OutSize
        /\ (a.block * TxSize + a.tx) * OutSize = (a.block * TxSize) * OutSize + a.tx * OutSize
    BY <1>1
  <1> QED
    <2>1. ParseScid(a) = (a.block * TxSize + a.tx) * OutSize + a.out
      BY <1>1, <1>8 DEF ParseScid
    <2> QED
      BY <1>3, <1>5, <1>7, <1>8, <2>1

\* What parse_scid accepts passes the boundary to JavaScript unchanged and is
\* formatted as it came: the numeric core of getInvoice, for any field sizes.
THEOREM ScidRoundTrip ==
    ASSUME NEW a \in LspAnswer, InRange(a)
    PROVE  /\ ParseScid(a) \in Scid
           /\ Crossing(ParseScid(a)) = ParseScid(a)
           /\ FormatScid(ParseScid(a)) = <<a.block, a.tx, a.out>>
  <1> DEFINE n == ParseScid(a)
  <1>1. /\ a.block \in Nat /\ a.tx \in Nat /\ a.out \in Nat
        /\ a.tx < TxSize /\ a.out < OutSize
    BY DEF InRange
  <1>2. TxSize * OutSize \in Nat \ {0}
    BY ScidGroups
  <1>3. n \in Scid /\ Word \in Nat
    BY ScidGroups DEF Scid, Word
  <1>4. n \div (TxSize * OutSize) = a.block
    <2> DEFINE row == TxSize * OutSize
               low == a.tx * OutSize + a.out
    <2>1. low \in Nat /\ low < row /\ n = a.block * row + low
      BY ScidGroups
    <2>2. n \div row = a.block
      <3> HIDE DEF row, low, n
      <3> QED BY <1>1, <1>2, <2>1, DivMod DEF row
    <2> QED
      BY <2>2
  <1>5. n \div OutSize = a.block * TxSize + a.tx /\ n % OutSize = a.out
    <2> DEFINE col == a.block * TxSize + a.tx
    <2>1. col \in Nat /\ n = col * OutSize + a.out
      BY ScidGroups
    <2>2. n \div OutSize = col /\ n % OutSize = a.out
      <3> HIDE DEF col, n
      <3> QED BY <1>1, <2>1, DivMod
    <2> QED
      BY <2>2
  <1>6. (a.block * TxSize + a.tx) % TxSize = a.tx
    BY <1>1, DivMod
  <1>7. Crossing(n) = n
    <2> HIDE DEF n
    <2>1. n \in Nat /\ n < Word
      BY <1>3 DEF Scid
    <2> QED BY <1>3, <2>1 DEF Crossing
  <1> QED
    BY <1>3, <1>4, <1>5, <1>6, <1>7 DEF FormatScid

-----------------------------------------------------------------------------
(* Types *)

\* What a step reports has the type of a result.
LEMMA RegistrationType ==
    ASSUME NEW a \in Answers
    PROVE  Registration(a) \in Reg
  <1>1. 0 \in Scid
    <2>1. BlockSize * TxSize \in Nat \ {0}
      OBVIOUS
    <2>2. Word \in Nat \ {0}
      BY <2>1 DEF Word
    <2> QED
      BY <2>2 DEF Scid
  <1>2. NoReg \in Reg
    BY <1>1 DEF NoReg, Reg
  <1>3. CASE a.ok /\ InRange(a)
    BY <1>3, ScidRoundTrip DEF Registration, Reg
  <1>4. CASE ~(a.ok /\ InRange(a))
    BY <1>2, <1>4 DEF Registration, Reg
  <1> QED
    BY <1>3, <1>4

\* The empty result is a result.
LEMMA NoResultType == NoReg \in Reg /\ NoResult \in Result
  <1>1. BlockSize * TxSize \in Nat \ {0}
    OBVIOUS
  <1>2. Word \in Nat \ {0}
    BY <1>1 DEF Word
  <1>3. NoReg \in Reg
    BY <1>2 DEF Scid, Reg, NoReg
  <1> QED
    BY <1>3 DEF NoResult, Result

\* What a step may report.
LEMMA ResultType ==
    ASSUME TypeOK, NEW outcomes \in SUBSET Outcome, NEW r \in Results(outcomes)
    PROVE  /\ r \in Result
           /\ r.claimed = events.claimable /\ r.outcome \subseteq outcomes
           /\ lsps.response = {} => r.reg = NoReg
           /\ lsps.response # {} => \E a \in lsps.response : r.reg = Registration(a)
  <1> DEFINE reg == IF lsps.response = {} THEN NoReg
                    ELSE Registration(CHOOSE a \in Answers : a \in lsps.response)
  <1>1. PICK o \in Reported(outcomes) :
          r = [peer |-> conn.peer, chans |-> conn.chans, reg |-> reg,
               claimed |-> events.claimable, outcome |-> o, gone |-> conn.gone]
    BY DEF Results
  <1>2. o \subseteq outcomes
    BY DEF Reported
  <1>3. lsps.response # {} =>
          /\ (CHOOSE a \in Answers : a \in lsps.response) \in Answers
          /\ (CHOOSE a \in Answers : a \in lsps.response) \in lsps.response
    BY DEF TypeOK
  <1>4. reg \in Reg
    BY <1>3, NoResultType, RegistrationType
  <1>5. r \in Result
    <2> HIDE DEF reg
    <2> QED BY <1>1, <1>2, <1>4 DEF TypeOK, Result
  <1>6. r.reg = reg /\ r.claimed = events.claimable /\ r.outcome = o
    BY <1>1
  <1> QED
    BY <1>2, <1>3, <1>5, <1>6

\* Accumulating a result changes the claims, and the quiet time if there are any.
LEMMA AccumulateFacts ==
    ASSUME NEW lp \in Locals, NEW r \in Result
    PROVE  /\ Accumulate(lp, r) \in Locals
           /\ Accumulate(lp, r).all = lp.all \cup r.claimed
           /\ Accumulate(lp, r).peerDone = lp.peerDone
           /\ Accumulate(lp, r).chansDone = lp.chansDone
  <1>1. CASE r.claimed = {}
    BY <1>1 DEF Accumulate, Locals, Result
  <1>2. CASE r.claimed # {}
    BY <1>2 DEF Accumulate, Locals, Result
  <1> QED
    BY <1>1, <1>2

\* Handling the events of a step keeps the types of what it changes.
LEMMA HandleType ==
    ASSUME TypeOK, Handle
    PROVE  /\ events' = NoEvents /\ swept' \subseteq Outs /\ collected' \subseteq Outs
           /\ events' \in [outcomes : SUBSET Outcome, claimable : SUBSET Htlcs,
                           spendable : SUBSET Outs]
  BY DEF TypeOK, Handle, Collect, NoEvents

\* A flush handles the events and records what it did.
LEMMA FlushFacts ==
    ASSUME TypeOK, NEW outcomes \in SUBSET Outcome, NEW lp \in Locals,
           NEW next \in {"left", "top", "chans", "check"}, NEW started \in {0, 1},
           Flush(outcomes, lp, next, started)
    PROVE  /\ events' = NoEvents /\ swept' \subseteq Outs /\ collected' \subseteq Outs
           /\ events' \in [outcomes : SUBSET Outcome, claimable : SUBSET Htlcs,
                           spendable : SUBSET Outs]
           /\ session' = [claims |-> session.claims \cup events.claimable,
                          starts |-> session.starts + started,
                          taken |-> session.taken \cup lsps.response]
           /\ session' \in [claims : SUBSET Htlcs, starts : Nat, taken : SUBSET Answers]
           /\ loop' \in Locals /\ res' \in Result
           /\ loop'.peerDone = lp.peerDone /\ loop'.chansDone = lp.chansDone
           /\ pc' # "thrown" => loop'.all = lp.all \cup events.claimable
           /\ pc' \in {"thrown", "left", next}
  <1>1. Handle
    BY DEF Flush
  <1>2. PICK r \in Results(outcomes) :
          /\ FlushThen(r, lp, next)
          /\ Record(r, started)
    BY DEF Flush
  <1>3. r \in Result /\ r.claimed = events.claimable
    BY ResultType
  <1>4. session' = [claims |-> session.claims \cup events.claimable,
                    starts |-> session.starts + started,
                    taken |-> session.taken \cup lsps.response]
    BY <1>2, <1>3 DEF Record, TypeOK
  <1>5. session' \in [claims : SUBSET Htlcs, starts : Nat, taken : SUBSET Answers]
    BY <1>4 DEF TypeOK
  <1>6. /\ Accumulate(lp, r) \in Locals
        /\ Accumulate(lp, r).all = lp.all \cup events.claimable
        /\ Accumulate(lp, r).peerDone = lp.peerDone
        /\ Accumulate(lp, r).chansDone = lp.chansDone
    BY <1>3, AccumulateFacts
  <1>7. CASE Throw(lp) \/ (Throws(r) /\ Throw(Accumulate(lp, r)))
    BY <1>1, <1>4, <1>5, <1>6, <1>7, HandleType, NoResultType DEF Throw
  <1>8. CASE ~Throws(r) /\ (Returns(r) \/ next = "left") /\ Leave(r, Accumulate(lp, r))
    BY <1>1, <1>2, <1>3, <1>4, <1>5, <1>6, <1>8, HandleType DEF Leave, Throws
  <1>9. CASE /\ ~Throws(r) /\ ~Returns(r) /\ next # "left"
             /\ pc' = next /\ loop' = Accumulate(lp, r) /\ UNCHANGED res
    <2>1. res' \in Result
      BY <1>9 DEF TypeOK
    <2> QED
      BY <1>1, <1>2, <1>4, <1>5, <1>6, <1>9, <2>1, HandleType DEF Throws
  <1>10. \/ Throw(lp)
         \/ Throws(r) /\ Throw(Accumulate(lp, r))
         \/ ~Throws(r) /\ (Returns(r) \/ next = "left") /\ Leave(r, Accumulate(lp, r))
         \/ /\ ~Throws(r) /\ ~Returns(r) /\ next # "left"
            /\ pc' = next /\ loop' = Accumulate(lp, r) /\ UNCHANGED res
    BY <1>2 DEF FlushThen
  <1> QED
    BY <1>7, <1>8, <1>9, <1>10

\* What a flush does to the history of the session and to the locals.
LEMMA FlushSession ==
    ASSUME TypeOK, NEW outcomes \in SUBSET Outcome, NEW lp \in Locals,
           NEW next \in {"left", "top", "chans", "check"}, NEW started \in {0, 1},
           Flush(outcomes, lp, next, started)
    PROVE  /\ session' = [claims |-> session.claims \cup events.claimable,
                          starts |-> session.starts + started,
                          taken |-> session.taken \cup lsps.response]
           /\ loop'.peerDone = lp.peerDone /\ loop'.chansDone = lp.chansDone
           /\ pc' # "thrown" => loop'.all = lp.all \cup events.claimable
  BY FlushFacts, Zenon

\* How a flush ends.
LEMMA FlushResult ==
    ASSUME TypeOK, NEW outcomes \in SUBSET Outcome, NEW lp \in Locals,
           NEW next \in {"left", "top", "chans", "check"}, NEW started \in {0, 1},
           Flush(outcomes, lp, next, started)
    PROVE  \/ pc' = "thrown"
           \/ \E r \in Results(outcomes) :
                /\ r.reg.st # "error"
                /\ \/ pc' = "left" /\ res' = r /\ (Returns(r) \/ next = "left")
                   \/ pc' = next /\ next # "left" /\ res' = res /\ ~Returns(r)
  <1>1. PICK r \in Results(outcomes) : FlushThen(r, lp, next)
    BY DEF Flush
  <1>2. \/ pc' = "thrown"
        \/ ~Throws(r) /\ (Returns(r) \/ next = "left") /\ pc' = "left" /\ res' = r
        \/ ~Throws(r) /\ ~Returns(r) /\ next # "left" /\ pc' = next /\ res' = res
    BY <1>1 DEF FlushThen, Throw, Leave
  <1> QED
    BY <1>2 DEF Throws

\* The main step throws or goes on with its result.
LEMMA MainFacts ==
    ASSUME TypeOK, MainStep
    PROVE  /\ events' = NoEvents /\ swept' \subseteq Outs /\ collected' \subseteq Outs
           /\ events' \in [outcomes : SUBSET Outcome, claimable : SUBSET Htlcs,
                           spendable : SUBSET Outs]
           /\ session' = [claims |-> session.claims \cup events.claimable,
                          starts |-> session.starts,
                          taken |-> session.taken \cup lsps.response]
           /\ session' \in [claims : SUBSET Htlcs, starts : Nat, taken : SUBSET Answers]
           /\ loop' \in Locals /\ res' \in Result
           /\ loop'.peerDone = loop.peerDone /\ loop'.chansDone = loop.chansDone
           /\ \/ pc' = "thrown"
              \/ /\ pc' = "peer" /\ res' \in Results(events.outcomes)
                 /\ loop'.all = loop.all \cup events.claimable
  <1>1. Handle /\ loop \in Locals /\ events.outcomes \subseteq Outcome
    BY DEF MainStep, TypeOK
  <1>2. PICK r \in Results(events.outcomes) :
          /\ \/ Throw(loop)
             \/ /\ pc' = "peer" /\ res' = r
                /\ loop' = [Accumulate(loop, r) EXCEPT !.read = FALSE]
          /\ Record(r, 0)
    BY DEF MainStep
  <1>3. r \in Result /\ r.claimed = events.claimable
    BY <1>1, ResultType
  <1>4. session' = [claims |-> session.claims \cup events.claimable,
                    starts |-> session.starts,
                    taken |-> session.taken \cup lsps.response]
    <2>1. session.starts + 0 = session.starts
      BY DEF TypeOK
    <2> QED
      BY <1>2, <1>3, <2>1 DEF Record
  <1>5. session' \in [claims : SUBSET Htlcs, starts : Nat, taken : SUBSET Answers]
    BY <1>4 DEF TypeOK
  <1>6. /\ Accumulate(loop, r) \in Locals
        /\ Accumulate(loop, r).all = loop.all \cup events.claimable
        /\ Accumulate(loop, r).peerDone = loop.peerDone
        /\ Accumulate(loop, r).chansDone = loop.chansDone
    BY <1>1, <1>3, AccumulateFacts
  <1>7. CASE Throw(loop)
    BY <1>1, <1>4, <1>5, <1>7, HandleType, NoResultType DEF Throw
  <1>8. CASE /\ pc' = "peer" /\ res' = r
             /\ loop' = [Accumulate(loop, r) EXCEPT !.read = FALSE]
    <2>1. /\ loop' \in Locals /\ loop'.all = loop.all \cup events.claimable
          /\ loop'.peerDone = loop.peerDone /\ loop'.chansDone = loop.chansDone
      BY <1>6, <1>8 DEF Locals
    <2> QED
      BY <1>1, <1>3, <1>4, <1>5, <1>8, <2>1, HandleType
  <1> QED
    BY <1>2, <1>7, <1>8

\* Every variable has its type in the initial state.
LEMMA InitType == Init => TypeOK
  BY NoResultType DEF Init, TypeOK, NoEvents, NewConn, NewLsps, NewLoop, NewSession,
     NoReturn, Locals

\* A call begins, or the outside moves while none runs.
LEMMA OutsideType ==
    ASSUME TypeOK,
           \/ TimePasses
           \/ \E kind \in {"register", "claims", "pay"}, p \in Pays \cup {None} : Begin(kind, p)
           \/ \E o \in Outs : Mature(o)
    PROVE  TypeOK'
  <1>1. ASSUME NEW kind \in {"register", "claims", "pay"}, NEW p \in Pays \cup {None},
               Begin(kind, p)
        PROVE  TypeOK'
    BY <1>1, NoResultType DEF TypeOK, Begin, NewConn, NewLsps, NewLoop, NewSession, NoReturn,
       Locals
  <1>2. ASSUME NEW o \in Outs, Mature(o) PROVE TypeOK'
    BY <1>2 DEF TypeOK, Mature, callVars
  <1>3. CASE TimePasses
    <2>1. loop' \in Locals
      BY <1>3 DEF TypeOK, TimePasses, Locals
    <2> QED
      BY <1>3, <2>1 DEF TypeOK, TimePasses, callVars
  <1> QED
    BY <1>1, <1>2, <1>3

\* Whatever is read keeps the types.
LEMMA ReceiveType == ASSUME TypeOK, Receive PROVE TypeOK'
  <1> USE DEF TypeOK, Receiving, callVars, Locals
  <1>1. CASE ReceiveInit
    BY <1>1 DEF ReceiveInit
  <1>2. CASE ReceiveReestablish
    BY <1>2 DEF ReceiveReestablish
  <1>3. CASE ReceiveDisconnect
    BY <1>3 DEF ReceiveDisconnect
  <1>4. ASSUME NEW a \in Answers, ReceiveAnswer(a) PROVE TypeOK'
    <2>1. lsps' \in [asked : Nat, response : SUBSET Answers]
      <3>1. lsps.asked - 1 \in Nat
        BY <1>4 DEF ReceiveAnswer
      <3> QED
        BY <1>4, <3>1 DEF ReceiveAnswer
    <2> QED
      BY <1>4, <2>1 DEF ReceiveAnswer
  <1>5. ASSUME NEW h \in Htlcs, ReceiveHtlc(h) PROVE TypeOK'
    BY <1>5 DEF ReceiveHtlc
  <1>6. ASSUME NEW p \in Pays, NEW ok \in BOOLEAN, ReceiveOutcome(p, ok) PROVE TypeOK'
    <2>1. /\ events' \in [outcomes : SUBSET Outcome, claimable : SUBSET Htlcs,
                           spendable : SUBSET Outs]
          /\ paid' \in [Pays -> {"new", "pending", "sent"}]
      <3>1. [pay |-> p, ok |-> ok] \in Outcome
        BY DEF Outcome
      <3> QED
        BY <1>6, <3>1 DEF ReceiveOutcome
    <2> QED
      BY <1>6, <2>1 DEF ReceiveOutcome
  <1> QED
    BY <1>1, <1>2, <1>3, <1>4, <1>5, <1>6 DEF Receive

\* Every iteration of the loop, and the end of a call, keep the types.
LEMMA LoopType == ASSUME TypeOK, Loop PROVE TypeOK'
  <1>0. /\ loop \in Locals /\ res \in Result /\ events.outcomes \subseteq Outcome
        /\ \A b \in BOOLEAN : /\ [loop EXCEPT !.peerDone = b] \in Locals
                              /\ [loop EXCEPT !.chansDone = b] \in Locals
        /\ Take(lsps) \in [asked : Nat, response : SUBSET Answers]
        /\ Take(Ask(lsps)) \in [asked : Nat, response : SUBSET Answers]
    <2>1. loop \in Locals /\ res \in Result /\ events.outcomes \subseteq Outcome
      BY DEF TypeOK
    <2>2. \A b \in BOOLEAN : /\ [loop EXCEPT !.peerDone = b] \in Locals
                            /\ [loop EXCEPT !.chansDone = b] \in Locals
      BY <2>1 DEF Locals
    <2>3. lsps \in [asked : Nat, response : SUBSET Answers]
      BY DEF TypeOK
    <2>4. /\ Take(lsps) \in [asked : Nat, response : SUBSET Answers]
          /\ Ask(lsps) \in [asked : Nat, response : SUBSET Answers]
      <3>1. lsps.asked + 1 \in Nat
        BY <2>3
      <3> QED
        BY <2>3, <3>1 DEF Take, Ask
    <2>5. Take(Ask(lsps)) \in [asked : Nat, response : SUBSET Answers]
      BY <2>4 DEF Take
    <2> QED
      BY <2>1, <2>2, <2>4, <2>5
  <1>1. CASE StartRead
    BY <1>1 DEF StartRead, TypeOK, callVars
  <1>2. CASE LastFlush
    <2>1. Flush(events.outcomes, loop, "left", 0)
      BY <1>2 DEF LastFlush
    <2> QED
      BY <1>0, <1>2, <2>1, FlushFacts DEF LastFlush, TypeOK
  <1>3. CASE SocketClosed
    <2>1. [NoResult EXCEPT !.gone = TRUE] \in Result
      BY NoResultType DEF Result
    <2> QED
      BY <1>3, <2>1 DEF SocketClosed, Leave, TypeOK, callVars
  <1>4. CASE ReadTimeout
    <2>1. Flush(events.outcomes, loop, "top", 0)
      BY <1>4 DEF ReadTimeout
    <2> QED
      BY <1>0, <1>4, <2>1, FlushFacts DEF ReadTimeout, TypeOK
  <1>5. CASE MainStep
    BY <1>0, <1>5, MainFacts DEF MainStep, TypeOK
  <1>6. CASE ReadFails
    BY <1>6, NoResultType DEF ReadFails, Throw, TypeOK, callVars
  <1>7. CASE PeerReady
    <2>1. CASE Register
      <3>1. Flush(events.outcomes, [loop EXCEPT !.peerDone = TRUE], "chans", 1)
        BY <2>1 DEF Register
      <3> QED
        BY <1>0, <1>7, <2>1, <3>1, FlushFacts DEF PeerReady, Register, TypeOK
    <2>2. CASE /\ loop' = [loop EXCEPT !.peerDone = @ \/ res.peer] /\ pc' = "chans"
               /\ UNCHANGED <<events, collected, lsps, res, swept, session>>
      <3>1. loop' \in Locals
        BY <1>0, <2>2
      <3> QED
        BY <1>7, <2>2, <3>1 DEF PeerReady, TypeOK
    <2> QED
      BY <1>7, <2>1, <2>2 DEF PeerReady
  <1>8. CASE ChannelsReady
    <2>1. CASE StartPayment
      <3>1. PICK failed \in {{}, {[pay |-> call.pay, ok |-> FALSE]}} :
              /\ Flush(events.outcomes \cup failed, [loop EXCEPT !.chansDone = TRUE], "check", 1)
              /\ Initiate(call.pay, failed)
        BY <2>1 DEF StartPayment
      <3>2. call.pay \in Pays
        BY <2>1 DEF StartPayment, TypeOK
      <3>3. [pay |-> call.pay, ok |-> FALSE] \in Outcome
        BY <3>2 DEF Outcome
      <3>4. paid' \in [Pays -> {"new", "pending", "sent"}]
        BY <3>1, <3>2 DEF Initiate, TypeOK
      <3>5. events.outcomes \cup failed \in SUBSET Outcome
        BY <1>0, <3>3
      <3> QED
        BY <1>0, <1>8, <2>1, <3>1, <3>4, <3>5, FlushFacts DEF ChannelsReady, StartPayment, TypeOK
    <2>2. CASE Refused
      BY <1>8, <2>2, NoResultType DEF ChannelsReady, Refused, Throw, TypeOK
    <2>3. CASE /\ loop' = [loop EXCEPT !.chansDone = @ \/ res.chans] /\ pc' = "check"
               /\ UNCHANGED <<events, paid, collected, lsps, res, swept, session>>
      <3>1. loop' \in Locals
        BY <1>0, <2>3
      <3> QED
        BY <1>8, <2>3, <3>1 DEF ChannelsReady, TypeOK
    <2> QED
      BY <1>8, <2>1, <2>2, <2>3 DEF ChannelsReady
  <1>9. CASE Check
    BY <1>9, <1>0, NoResultType DEF Check, Throw, Leave, TypeOK, callVars
  <1>10. CASE Return
    <2>1. loop.all \subseteq Htlcs /\ res.outcome \subseteq Outcome
      BY <1>0 DEF Locals, Result
    <2>2. call.kind \in {"claims", "register", "pay"} =>
            /\ ret'.how \in {"claims", "invoice", "outcome", "timedOut"}
            /\ ret'.claims \subseteq Htlcs /\ ret'.pay \subseteq Outcome
      BY <1>10, <2>1 DEF Return, EndCall, Answered, NoReturn
    <2> QED
      BY <1>10, <2>2 DEF Return, EndCall, StoreSweepable, TypeOK
  <1>11. CASE Fails
    BY <1>11 DEF Fails, EndCall, StoreSweepable, NoReturn, TypeOK
  <1> QED
    BY <1>1, <1>2, <1>3, <1>4, <1>5, <1>6, <1>7, <1>8, <1>9, <1>10, <1>11 DEF Loop

\* Every step keeps the types.
LEMMA StepType == ASSUME TypeOK, [Next]_vars PROVE TypeOK'
  <1>1. CASE UNCHANGED vars
    BY <1>1 DEF vars, TypeOK
  <1> QED
    BY <1>1, OutsideType, ReceiveType, LoopType DEF Next

\* The state of calls, node and LSP has its type, for any constants.
THEOREM TypeCorrect == Spec => []TypeOK
  BY InitType, StepType, PTL DEF Spec

-----------------------------------------------------------------------------
(* The inductive invariant *)

(* What was started is latched. *)
StartInv ==
  /\ session.starts <= 1
  /\ session.starts > 0 => \/ (call.kind = "register" /\ loop.peerDone)
                          \/ (call.kind = "pay" /\ loop.chansDone)

(* Until the call throws, the loop knows all that was claimed. *)
ClaimInv == pc \in {"top", "read", "peer", "chans", "check", "left"} => loop.all = session.claims

(* The result at hand holds what was taken: at most one answer. *)
HoldsAnswer ==
  \/ (session.taken = {} /\ res.reg = NoReg)
  \/ (\E a \in Answers : session.taken = {a} /\ res.reg = Registration(a))

(* The LSP answers the one request, and the step that takes the answer ends the loop. *)
AnswerInv ==
  /\ lsps.asked <= 1
  /\ lsps.asked = 1 => lsps.response = {} /\ session.taken = {}
  /\ \A a, b \in lsps.response : a = b
  /\ (lsps.asked > 0 \/ lsps.response # {} \/ session.taken # {}) =>
       (call.kind = "register" /\ loop.peerDone)
  /\ pc \in {"top", "read"} => session.taken = {}
  /\ pc \in {"peer", "chans", "check"} => lsps.response = {} /\ HoldsAnswer
  /\ pc = "left" => HoldsAnswer /\ res.reg.st # "error"

(* A running call has returned nothing; what was returned is right. *)
ReturnInv ==
  /\ pc # "idle" => ret.how = "none"
  /\ ClaimsAccounted /\ InvoiceIsAnswer

PumpInv == StartInv /\ ClaimInv /\ AnswerInv /\ ReturnInv

\* What a read leaves alone.
LEMMA ReceiveFacts ==
    ASSUME TypeOK, Receive
    PROVE  /\ pc = "read" /\ UNCHANGED <<pc, call, session, res, ret>>
           /\ loop'.peerDone = loop.peerDone /\ loop'.chansDone = loop.chansDone
           /\ loop'.all = loop.all
           /\ \/ lsps' = lsps
              \/ \E a \in Answers : /\ lsps.asked > 0
                                    /\ lsps' = [asked |-> lsps.asked - 1, response |-> {a}]
  <1>1. Receiving
    BY DEF Receive, ReceiveInit, ReceiveReestablish, ReceiveDisconnect, ReceiveAnswer,
       ReceiveHtlc, ReceiveOutcome
  <1>2. \/ lsps' = lsps
        \/ \E a \in Answers : /\ lsps.asked > 0
                              /\ lsps' = [asked |-> lsps.asked - 1, response |-> {a}]
    BY DEF Receive, ReceiveInit, ReceiveReestablish, ReceiveDisconnect, ReceiveAnswer,
       ReceiveHtlc, ReceiveOutcome
  <1>3. /\ pc = "read" /\ UNCHANGED <<pc, call, session, res, ret>>
        /\ loop' = [loop EXCEPT !.read = TRUE]
    BY <1>1 DEF Receiving, callVars
  <1> QED
    BY <1>2, <1>3 DEF TypeOK, Locals

\* The first registration request is sent, and the queue is flushed.
LEMMA RegisterFacts ==
    ASSUME TypeOK, PeerReady, Register
    PROVE  /\ pc = "peer" /\ call.kind = "register" /\ ~loop.peerDone
           /\ Flush(events.outcomes, [loop EXCEPT !.peerDone = TRUE], "chans", 1)
           /\ events.outcomes \in SUBSET Outcome
           /\ [loop EXCEPT !.peerDone = TRUE] \in Locals
           /\ [loop EXCEPT !.peerDone = TRUE].peerDone
           /\ [loop EXCEPT !.peerDone = TRUE].all = loop.all
           /\ lsps' = [asked |-> lsps.asked + 1, response |-> {}]
           /\ UNCHANGED <<call, ret>>
  <1>1. /\ loop \in Locals /\ events.outcomes \in SUBSET Outcome
        /\ lsps \in [asked : Nat, response : SUBSET Answers]
    BY DEF TypeOK
  <1>2. /\ [loop EXCEPT !.peerDone = TRUE] \in Locals
        /\ [loop EXCEPT !.peerDone = TRUE].peerDone
        /\ [loop EXCEPT !.peerDone = TRUE].all = loop.all
    BY <1>1 DEF Locals
  <1>3. lsps' = [asked |-> lsps.asked + 1, response |-> {}]
    <2>1. Ask(lsps) = [asked |-> lsps.asked + 1, response |-> lsps.response]
      BY <1>1 DEF Ask
    <2>2. Take(Ask(lsps)) = [asked |-> lsps.asked + 1, response |-> {}]
      BY <2>1 DEF Take
    <2> QED
      BY <2>2 DEF Register
  <1> QED
    BY <1>1, <1>2, <1>3 DEF PeerReady, Register

\* The payment is started, and the queue is flushed.
LEMMA StartFacts ==
    ASSUME TypeOK, ChannelsReady, StartPayment
    PROVE  /\ pc = "chans" /\ call.kind = "pay" /\ ~loop.chansDone
           /\ \E outcomes \in SUBSET Outcome :
                Flush(outcomes, [loop EXCEPT !.chansDone = TRUE], "check", 1)
           /\ [loop EXCEPT !.chansDone = TRUE] \in Locals
           /\ [loop EXCEPT !.chansDone = TRUE].chansDone
           /\ [loop EXCEPT !.chansDone = TRUE].all = loop.all
           /\ lsps' = Take(lsps)
           /\ UNCHANGED <<call, ret>>
  <1>1. /\ loop \in Locals /\ events.outcomes \in SUBSET Outcome
    BY DEF TypeOK
  <1>2. /\ [loop EXCEPT !.chansDone = TRUE] \in Locals
        /\ [loop EXCEPT !.chansDone = TRUE].chansDone
        /\ [loop EXCEPT !.chansDone = TRUE].all = loop.all
    BY <1>1 DEF Locals
  <1>3. \E outcomes \in SUBSET Outcome :
          Flush(outcomes, [loop EXCEPT !.chansDone = TRUE], "check", 1)
    <2>1. PICK failed \in {{}, {[pay |-> call.pay, ok |-> FALSE]}} :
            Flush(events.outcomes \cup failed, [loop EXCEPT !.chansDone = TRUE], "check", 1)
      BY DEF StartPayment
    <2>2. [pay |-> call.pay, ok |-> FALSE] \in Outcome
      BY DEF StartPayment, TypeOK, Outcome
    <2> QED
      BY <1>1, <2>1, <2>2
  <1> QED
    BY <1>1, <1>2, <1>3 DEF ChannelsReady, StartPayment

\* The remaining cases of the two callbacks.
LEMMA NoCallbackFacts ==
    ASSUME TypeOK,
           \/ PeerReady /\ ~Register
           \/ ChannelsReady /\ ~StartPayment
    PROVE  /\ \/ pc = "peer" /\ pc' = "chans"
              \/ pc = "chans" /\ pc' = "check"
              \/ pc = "chans" /\ pc' = "thrown"
           /\ UNCHANGED <<call, ret, session, lsps>>
           /\ pc' # "thrown" => res' = res
           /\ loop'.all = loop.all
           /\ loop.peerDone => loop'.peerDone
           /\ loop.chansDone => loop'.chansDone
  <1>1. loop \in Locals
    BY DEF TypeOK
  <1>2. CASE PeerReady /\ ~Register
    <2>1. /\ pc = "peer" /\ pc' = "chans" /\ UNCHANGED <<call, ret, session, lsps, res>>
          /\ loop' = [loop EXCEPT !.peerDone = loop.peerDone \/ res.peer]
      BY <1>2 DEF PeerReady
    <2> QED
      BY <1>1, <2>1 DEF Locals
  <1>3. CASE ChannelsReady /\ ~StartPayment
    <2>1. CASE Refused
      BY <1>1, <1>3, <2>1 DEF ChannelsReady, Refused, Throw
    <2>2. CASE ~Refused
      <3>1. /\ pc = "chans" /\ pc' = "check" /\ UNCHANGED <<call, ret, session, lsps, res>>
            /\ loop' = [loop EXCEPT !.chansDone = loop.chansDone \/ res.chans]
        BY <1>3, <2>2 DEF ChannelsReady
      <3> QED
        BY <1>1, <3>1 DEF Locals
    <2> QED
      BY <2>1, <2>2
  <1> QED
    BY <1>2, <1>3

\* Init establishes the invariant.
LEMMA InitInv == Init => PumpInv
  BY DEF Init, PumpInv, StartInv, ClaimInv, AnswerInv, ReturnInv, ClaimsAccounted,
     InvoiceIsAnswer, NewSession, NewLsps, NoReturn, NewLoop

\* The latches hold what has been started.
LEMMA StartStep == ASSUME TypeOK, StartInv, Next PROVE StartInv'
  <1>1. ASSUME NEW outcomes \in SUBSET Outcome, NEW next \in {"left", "top"},
               Flush(outcomes, loop, next, 0), call' = call
        PROVE  StartInv'
    <2>1. loop \in Locals
      BY DEF TypeOK
    <2>2. session' = [claims |-> session.claims \cup events.claimable,
                       starts |-> session.starts + 0,
                       taken |-> session.taken \cup lsps.response]
      BY <1>1, <2>1, FlushSession
    <2>3. loop'.peerDone = loop.peerDone /\ loop'.chansDone = loop.chansDone
      BY <1>1, <2>1, FlushSession
    <2>4. session'.starts = session.starts
      BY <2>2 DEF TypeOK
    <2> QED
      BY <1>1, <2>3, <2>4 DEF StartInv
  <1>2. CASE LastFlush
    BY <1>1, <1>2 DEF LastFlush, TypeOK
  <1>3. CASE ReadTimeout
    BY <1>1, <1>3 DEF ReadTimeout, TypeOK
  <1>4. CASE MainStep
    BY <1>4, MainFacts DEF MainStep, StartInv
  <1>5. CASE PeerReady /\ Register
    <2>0. session' = [claims |-> session.claims \cup events.claimable,
                       starts |-> session.starts + 1,
                       taken |-> session.taken \cup lsps.response]
      BY <1>5, RegisterFacts, FlushSession
    <2>1. session'.starts = session.starts + 1 /\ loop'.peerDone
      <3>1. loop'.peerDone
        BY <1>5, RegisterFacts, FlushSession
      <3> QED
        BY <2>0, <3>1
    <2>2. session.starts \in Nat /\ call.kind = "register" /\ ~loop.peerDone /\ call' = call
      BY <1>5, RegisterFacts DEF TypeOK
    <2>3. session.starts = 0
      BY <2>2 DEF StartInv
    <2> QED
      BY <2>1, <2>2, <2>3 DEF StartInv
  <1>6. CASE ChannelsReady /\ StartPayment
    <2>0. session' = [claims |-> session.claims \cup events.claimable,
                       starts |-> session.starts + 1,
                       taken |-> session.taken \cup lsps.response]
      BY <1>6, StartFacts, FlushSession
    <2>1. session'.starts = session.starts + 1 /\ loop'.chansDone
      <3>1. loop'.chansDone
        BY <1>6, StartFacts, FlushSession
      <3> QED
        BY <2>0, <3>1
    <2>2. session.starts \in Nat /\ call.kind = "pay" /\ ~loop.chansDone /\ call' = call
      BY <1>6, StartFacts DEF TypeOK
    <2>3. session.starts = 0
      BY <2>2 DEF StartInv
    <2> QED
      BY <2>1, <2>2, <2>3 DEF StartInv
  <1>7. CASE (PeerReady /\ ~Register) \/ (ChannelsReady /\ ~StartPayment)
    BY <1>7, NoCallbackFacts DEF StartInv
  <1>8. CASE Receive
    BY <1>8, ReceiveFacts DEF StartInv
  <1>9. CASE StartRead \/ SocketClosed \/ ReadFails \/ Check \/ Return \/ Fails
    BY <1>9 DEF StartRead, SocketClosed, ReadFails, Check, Return, Fails, EndCall, Leave, Throw,
       callVars, StartInv
  <1>10. CASE TimePasses
    <2>1. loop'.peerDone = loop.peerDone /\ loop'.chansDone = loop.chansDone
      BY <1>10 DEF TimePasses, TypeOK, Locals
    <2> QED
      BY <1>10, <2>1 DEF TimePasses, callVars, StartInv
  <1>11. ASSUME NEW kind, NEW p, Begin(kind, p) PROVE StartInv'
    BY <1>11 DEF Begin, NewSession, StartInv
  <1>12. ASSUME NEW o, Mature(o) PROVE StartInv'
    BY <1>12 DEF Mature, callVars, StartInv
  <1> QED
    BY <1>2, <1>3, <1>4, <1>5, <1>6, <1>7, <1>8, <1>9, <1>10, <1>11, <1>12 DEF Next, Loop

\* What LDK claims is accumulated by the step that reports it.
LEMMA ClaimStep == ASSUME TypeOK, ClaimInv, Next PROVE ClaimInv'
  <1>1. ASSUME NEW outcomes \in SUBSET Outcome, NEW next \in {"left", "top", "chans", "check"},
               NEW lp \in Locals, NEW started \in {0, 1},
               Flush(outcomes, lp, next, started), lp.all = session.claims
        PROVE  ClaimInv'
    <2>1. session' = [claims |-> session.claims \cup events.claimable,
                       starts |-> session.starts + started,
                       taken |-> session.taken \cup lsps.response]
      BY <1>1, FlushSession
    <2>2. pc' # "thrown" => loop'.all = lp.all \cup events.claimable
      BY <1>1, FlushSession
    <2>3. session'.claims = session.claims \cup events.claimable
      BY <2>1
    <2> QED
      BY <1>1, <2>2, <2>3 DEF ClaimInv
  <1>2. CASE LastFlush
    BY <1>1, <1>2 DEF LastFlush, TypeOK, ClaimInv
  <1>3. CASE ReadTimeout
    BY <1>1, <1>3 DEF ReadTimeout, TypeOK, ClaimInv
  <1>4. CASE MainStep
    <2>1. pc = "read"
      BY <1>4 DEF MainStep
    <2>2. session' = [claims |-> session.claims \cup events.claimable,
                       starts |-> session.starts,
                       taken |-> session.taken \cup lsps.response]
      BY <1>4, MainFacts
    <2>3. pc' = "thrown" \/ (pc' = "peer" /\ loop'.all = loop.all \cup events.claimable)
      BY <1>4, MainFacts
    <2>4. session'.claims = session.claims \cup events.claimable
      BY <2>2
    <2> QED
      BY <2>1, <2>3, <2>4 DEF ClaimInv
  <1>5. CASE PeerReady /\ Register
    BY <1>1, <1>5, RegisterFacts DEF ClaimInv
  <1>6. CASE ChannelsReady /\ StartPayment
    BY <1>1, <1>6, StartFacts DEF ClaimInv
  <1>7. CASE (PeerReady /\ ~Register) \/ (ChannelsReady /\ ~StartPayment)
    BY <1>7, NoCallbackFacts DEF ClaimInv
  <1>8. CASE Receive
    BY <1>8, ReceiveFacts DEF ClaimInv
  <1>9. CASE StartRead \/ SocketClosed \/ ReadFails \/ Check \/ Return \/ Fails
    BY <1>9 DEF StartRead, SocketClosed, ReadFails, Check, Return, Fails, EndCall, Leave, Throw,
       callVars, ClaimInv
  <1>10. CASE TimePasses
    <2>1. loop'.all = loop.all
      BY <1>10 DEF TimePasses, TypeOK, Locals
    <2> QED
      BY <1>10, <2>1 DEF TimePasses, callVars, ClaimInv
  <1>11. ASSUME NEW kind, NEW p, Begin(kind, p) PROVE ClaimInv'
    BY <1>11 DEF Begin, NewSession, NewLoop, ClaimInv
  <1>12. ASSUME NEW o, Mature(o) PROVE ClaimInv'
    BY <1>12 DEF Mature, callVars, ClaimInv
  <1> QED
    BY <1>2, <1>3, <1>4, <1>5, <1>6, <1>7, <1>8, <1>9, <1>10, <1>11, <1>12 DEF Next, Loop

\* A result holds the answer that its step takes.
LEMMA ResultAnswer ==
    ASSUME TypeOK, AnswerInv, session.taken = {}, NEW outcomes \in SUBSET Outcome,
           NEW r \in Results(outcomes)
    PROVE  /\ \/ (lsps.response = {} /\ r.reg = NoReg)
              \/ (\E a \in Answers : lsps.response = {a} /\ r.reg = Registration(a))
           /\ lsps.response # {} => r.reg.st \in {"ok", "error"}
  <1>1. CASE lsps.response = {}
    BY <1>1, ResultType
  <1>2. CASE lsps.response # {}
    <2>1. PICK a \in lsps.response : r.reg = Registration(a)
      BY <1>2, ResultType
    <2>2. a \in Answers /\ lsps.response = {a}
      BY <2>1 DEF AnswerInv, TypeOK
    <2>3. Registration(a).st \in {"ok", "error"}
      BY DEF Registration, NoReg
    <2> QED
      BY <1>2, <2>1, <2>2, <2>3
  <1> QED
    BY <1>1, <1>2

\* A flush that takes an answer ends the loop with it.
LEMMA FlushAnswer ==
    ASSUME TypeOK, AnswerInv, session.taken = {},
           NEW outcomes \in SUBSET Outcome, NEW lp \in Locals,
           NEW next \in {"left", "top", "chans", "check"}, NEW started \in {0, 1},
           Flush(outcomes, lp, next, started)
    PROVE  /\ session'.taken = lsps.response
           /\ \/ pc' = "thrown"
              \/ pc' = "left" /\ HoldsAnswer' /\ res'.reg.st # "error"
              \/ /\ pc' = next /\ next # "left" /\ res' = res
                 /\ call.kind = "register" => lsps.response = {}
  <1>1. session' = [claims |-> session.claims \cup events.claimable,
                    starts |-> session.starts + started,
                    taken |-> session.taken \cup lsps.response]
    BY FlushSession
  <1>2. session'.taken = lsps.response
    BY <1>1
  <1>3. \/ pc' = "thrown"
        \/ \E r \in Results(outcomes) :
             /\ r.reg.st # "error"
             /\ \/ pc' = "left" /\ res' = r /\ (Returns(r) \/ next = "left")
                \/ pc' = next /\ next # "left" /\ res' = res /\ ~Returns(r)
    BY FlushResult
  <1>4. ASSUME NEW r \in Results(outcomes), r.reg.st # "error",
               pc' = "left", res' = r
        PROVE  pc' = "left" /\ HoldsAnswer' /\ res'.reg.st # "error"
    <2>1. \/ (lsps.response = {} /\ r.reg = NoReg)
          \/ (\E a \in Answers : lsps.response = {a} /\ r.reg = Registration(a))
      BY ResultAnswer
    <2>2. HoldsAnswer'
      BY <1>2, <1>4, <2>1 DEF HoldsAnswer, NoReg, Registration, ParseScid, InRange
    <2> QED
      BY <1>4, <2>2
  <1>5. ASSUME NEW r \in Results(outcomes), r.reg.st # "error", ~Returns(r),
               call.kind = "register"
        PROVE  lsps.response = {}
    <2>1. lsps.response # {} => r.reg.st \in {"ok", "error"}
      BY ResultAnswer
    <2> QED
      BY <1>5, <2>1 DEF Returns
  <1> QED
    BY <1>2, <1>3, <1>4, <1>5, Zenon

\* The answer stays in one place: on its way, received, or taken by the last step.
LEMMA AnswerStep == ASSUME TypeOK, AnswerInv, Next PROVE AnswerInv'
  <1>1. ASSUME NEW outcomes \in SUBSET Outcome, NEW next \in {"left", "top"},
               Flush(outcomes, loop, next, 0), call' = call, lsps' = Take(lsps),
               pc \in {"top", "read"}
        PROVE  AnswerInv'
    <2>1. session.taken = {} /\ loop \in Locals
      BY <1>1 DEF AnswerInv, TypeOK
    <2>2. /\ session'.taken = lsps.response
          /\ \/ pc' = "thrown"
             \/ pc' = "left" /\ HoldsAnswer' /\ res'.reg.st # "error"
             \/ pc' = "top" /\ (call.kind = "register" => lsps.response = {})
      BY <1>1, <2>1, FlushAnswer
    <2>3. loop'.peerDone = loop.peerDone
      BY <1>1, <2>1, FlushSession
    <2>4. lsps'.asked = lsps.asked /\ lsps'.response = {}
      BY <1>1 DEF Take, TypeOK
    <2> QED
      BY <1>1, <2>1, <2>2, <2>3, <2>4 DEF AnswerInv
  <1>2. CASE LastFlush
    BY <1>1, <1>2 DEF LastFlush, TypeOK
  <1>3. CASE ReadTimeout
    BY <1>1, <1>3 DEF ReadTimeout, TypeOK
  <1>4. CASE MainStep
    <2>1. pc = "read" /\ session.taken = {} /\ call' = call /\ lsps' = Take(lsps)
      BY <1>4 DEF MainStep, AnswerInv
    <2>2. session' = [claims |-> session.claims \cup events.claimable,
                      starts |-> session.starts,
                      taken |-> session.taken \cup lsps.response]
      BY <1>4, MainFacts
    <2>3. session'.taken = lsps.response
      BY <2>1, <2>2
    <2>4. loop'.peerDone = loop.peerDone
      BY <1>4, MainFacts
    <2>5. pc' = "thrown" \/ (pc' = "peer" /\ res' \in Results(events.outcomes))
      BY <1>4, MainFacts
    <2>6. pc' = "peer" => HoldsAnswer'
      <3>1. SUFFICES ASSUME pc' = "peer" PROVE HoldsAnswer'
        OBVIOUS
      <3>2. res' \in Results(events.outcomes) /\ events.outcomes \in SUBSET Outcome
        BY <2>5, <3>1 DEF TypeOK
      <3>3. \/ (lsps.response = {} /\ res'.reg = NoReg)
            \/ (\E a \in Answers : lsps.response = {a} /\ res'.reg = Registration(a))
        BY <2>1, <3>2, ResultAnswer
      <3> QED
        BY <2>3, <3>3 DEF HoldsAnswer, NoReg, Registration, ParseScid, InRange
    <2>7. lsps'.asked = lsps.asked /\ lsps'.response = {}
      BY <2>1 DEF Take, TypeOK
    <2> QED
      BY <2>1, <2>3, <2>4, <2>5, <2>6, <2>7 DEF AnswerInv
  <1>5. CASE PeerReady /\ Register
    <2>1. /\ pc = "peer" /\ call.kind = "register" /\ ~loop.peerDone /\ call' = call
          /\ lsps' = [asked |-> lsps.asked + 1, response |-> {}]
      BY <1>5, RegisterFacts
    <2>2. session.taken = {} /\ lsps.response = {} /\ lsps.asked = 0 /\ HoldsAnswer
      BY <2>1 DEF AnswerInv, TypeOK
    <2>3. /\ session'.taken = lsps.response
          /\ \/ pc' = "thrown"
             \/ pc' = "left" /\ HoldsAnswer' /\ res'.reg.st # "error"
             \/ pc' = "chans" /\ res' = res
      BY <1>5, <2>2, RegisterFacts, FlushAnswer
    <2>4. loop'.peerDone
      BY <1>5, RegisterFacts, FlushSession
    <2>5. lsps'.asked = 1 /\ lsps'.response = {}
      BY <2>1, <2>2
    <2>6. res' = res => HoldsAnswer'
      BY <2>2, <2>3 DEF HoldsAnswer, NoReg, Registration, ParseScid, InRange
    <2> QED
      BY <2>1, <2>2, <2>3, <2>4, <2>5, <2>6 DEF AnswerInv
  <1>6. CASE ChannelsReady /\ StartPayment
    <2>1. /\ pc = "chans" /\ call.kind = "pay" /\ call' = call /\ lsps' = Take(lsps)
      BY <1>6, StartFacts
    <2>2. session.taken = {} /\ lsps.response = {} /\ lsps.asked = 0 /\ HoldsAnswer
      BY <2>1 DEF AnswerInv, TypeOK
    <2>3. /\ session'.taken = lsps.response
          /\ \/ pc' = "thrown"
             \/ pc' = "left" /\ HoldsAnswer' /\ res'.reg.st # "error"
             \/ pc' = "check" /\ res' = res
      BY <1>6, <2>2, StartFacts, FlushAnswer
    <2>4. lsps'.asked = 0 /\ lsps'.response = {}
      BY <2>1, <2>2 DEF Take, TypeOK
    <2>5. res' = res => HoldsAnswer'
      BY <2>2, <2>3 DEF HoldsAnswer, NoReg, Registration, ParseScid, InRange
    <2> QED
      BY <2>1, <2>2, <2>3, <2>4, <2>5 DEF AnswerInv
  <1>7. CASE (PeerReady /\ ~Register) \/ (ChannelsReady /\ ~StartPayment)
    <2>1. HoldsAnswer /\ lsps.response = {}
      BY <1>7, NoCallbackFacts DEF AnswerInv
    <2>2. pc' # "thrown" => HoldsAnswer'
      BY <1>7, <2>1, NoCallbackFacts DEF HoldsAnswer, NoReg, Registration, ParseScid, InRange
    <2> QED
      BY <1>7, <2>1, <2>2, NoCallbackFacts DEF AnswerInv
  <1>8. CASE Receive
    <2>1. /\ pc = "read" /\ UNCHANGED <<pc, call, session>> /\ loop'.peerDone = loop.peerDone
      BY <1>8, ReceiveFacts
    <2>2. CASE lsps' = lsps
      BY <2>1, <2>2 DEF AnswerInv
    <2>3. ASSUME NEW a \in Answers, lsps.asked > 0,
                 lsps' = [asked |-> lsps.asked - 1, response |-> {a}]
          PROVE  AnswerInv'
      <3>1. lsps.asked = 1
        BY <2>3 DEF AnswerInv, TypeOK
      <3>2. lsps'.asked = 0 /\ lsps'.response = {a}
        BY <2>3, <3>1
      <3> QED
        BY <2>1, <3>1, <3>2 DEF AnswerInv
    <2> QED
      BY <1>8, <2>2, <2>3, ReceiveFacts
  <1>9. CASE Check
    <2>1. UNCHANGED <<lsps, session, call>> /\ lsps.response = {} /\ HoldsAnswer /\ pc = "check"
      BY <1>9 DEF Check, callVars, AnswerInv
    <2>2. CASE Throws(res) /\ Throw(loop)
      BY <2>1, <2>2 DEF Throw, AnswerInv
    <2>3. CASE ~Throws(res) /\ Leave(res, loop)
      <3>1. HoldsAnswer'
        BY <2>1, <2>3 DEF Leave, HoldsAnswer, NoReg, Registration, ParseScid, InRange
      <3> QED
        BY <2>1, <2>3, <3>1 DEF Leave, Throws, AnswerInv
    <2>4. CASE ~Throws(res) /\ ~Returns(res) /\ pc' = "top" /\ UNCHANGED <<res, loop>>
      <3>1. session.taken # {} => call.kind = "register" /\ res.reg.st \in {"ok", "error"}
        <4>1. \A a \in Answers : Registration(a).st \in {"ok", "error"}
          BY DEF Registration, NoReg
        <4> QED
          BY <2>1, <4>1 DEF HoldsAnswer, AnswerInv
      <3>2. session.taken = {}
        BY <2>4, <3>1 DEF Returns, Throws
      <3> QED
        BY <2>1, <2>4, <3>2 DEF AnswerInv
    <2> QED
      BY <1>9, <2>2, <2>3, <2>4 DEF Check
  <1>10. CASE SocketClosed
    <2>1. session.taken = {} /\ UNCHANGED <<lsps, session, call, loop>> /\ pc' = "left"
          /\ res' = [NoResult EXCEPT !.gone = TRUE]
      BY <1>10 DEF SocketClosed, Leave, callVars, AnswerInv
    <2>2. res'.reg = NoReg /\ res'.reg.st = "none"
      BY <2>1 DEF NoResult, NoReg
    <2>3. HoldsAnswer'
      BY <2>1, <2>2 DEF HoldsAnswer, NoReg
    <2> QED
      BY <2>1, <2>2, <2>3 DEF AnswerInv
  <1>11. CASE StartRead \/ ReadFails \/ Return \/ Fails
    BY <1>11 DEF StartRead, ReadFails, Return, Fails, EndCall, Throw, callVars, AnswerInv
  <1>12. CASE TimePasses
    <2>1. loop'.peerDone = loop.peerDone
      BY <1>12 DEF TimePasses, TypeOK, Locals
    <2> QED
      BY <1>12, <2>1 DEF TimePasses, callVars, AnswerInv
  <1>13. ASSUME NEW kind, NEW p, Begin(kind, p) PROVE AnswerInv'
    BY <1>13 DEF Begin, NewSession, NewLsps, AnswerInv
  <1>14. ASSUME NEW o, Mature(o) PROVE AnswerInv'
    BY <1>14 DEF Mature, callVars, AnswerInv
  <1> QED
    BY <1>2, <1>3, <1>4, <1>5, <1>6, <1>7, <1>8, <1>9, <1>10, <1>11, <1>12, <1>13, <1>14
    DEF Next, Loop

\* An accepted registration is the answer, in the invoice too.
LEMMA InvoiceOf ==
    ASSUME NEW a \in Answers, Registration(a).st = "ok"
    PROVE  /\ a.ok /\ InRange(a)
           /\ Invoice(Registration(a)).scid = <<a.block, a.tx, a.out>>
           /\ FormatScid(Invoice(Registration(a)).hop.scid) = <<a.block, a.tx, a.out>>
           /\ a.cltv < CltvSize => Invoice(Registration(a)).hop.cltv = a.cltv
  <1>1. a.ok /\ InRange(a)
    BY DEF Registration, NoReg
  <1>2. Registration(a) = [st |-> "ok", scid |-> ParseScid(a), cltv |-> a.cltv]
    BY <1>1 DEF Registration
  <1>3. /\ Crossing(ParseScid(a)) = ParseScid(a)
        /\ FormatScid(ParseScid(a)) = <<a.block, a.tx, a.out>>
    BY <1>1, ScidRoundTrip
  <1>4. Invoice(Registration(a)) = [hop |-> [scid |-> ParseScid(a), cltv |-> a.cltv % CltvSize],
                                    scid |-> <<a.block, a.tx, a.out>>]
    BY <1>2, <1>3 DEF Invoice, JitHop
  <1>5. a.cltv < CltvSize => a.cltv % CltvSize = a.cltv
    <2>1. a.cltv \in Nat
      OBVIOUS
    <2> QED
      BY <2>1
  <1> QED
    BY <1>1, <1>3, <1>4, <1>5

\* What a call returns is what it did.
LEMMA ReturnRight == ASSUME TypeOK, ClaimInv, AnswerInv, Return PROVE ReturnInv'
  <1>1. /\ pc = "left" /\ ret' = Answered(res) /\ pc' = "idle"
        /\ UNCHANGED <<call, session>>
    BY DEF Return, EndCall
  <1>2. /\ loop.all = session.claims /\ HoldsAnswer /\ res.reg.st # "error"
        /\ call.kind \in {"register", "claims", "pay"}
    BY <1>1 DEF ClaimInv, AnswerInv, TypeOK
  <1>3. CASE call.kind = "claims"
    <2>1. ret' = [how |-> "claims", pay |-> {}, claims |-> loop.all, invoice |-> <<>>]
      BY <1>1, <1>3 DEF Answered, NoReturn
    <2>2. ret'.claims = loop.all
      BY <2>1
    <2> QED
      BY <1>1, <1>2, <1>3, <2>2 DEF ReturnInv, ClaimsAccounted, InvoiceIsAnswer
  <1>4. CASE call.kind = "pay"
    <2>1. ret'.how # "claims"
      BY <1>1, <1>4 DEF Answered, NoReturn
    <2> QED
      BY <1>1, <1>4, <2>1 DEF ReturnInv, ClaimsAccounted, InvoiceIsAnswer
  <1>5. CASE call.kind = "register"
    <2>1. CASE res.reg.st = "ok"
      <3>1. PICK a \in Answers : session.taken = {a} /\ res.reg = Registration(a)
        <4>1. NoReg.st # "ok"
          BY DEF NoReg
        <4> QED
          BY <1>2, <2>1, <4>1 DEF HoldsAnswer
      <3>2. ret' = [how |-> "invoice", pay |-> {}, claims |-> {}, invoice |-> Invoice(res.reg)]
        BY <1>1, <1>5, <2>1 DEF Answered, NoReturn
      <3>3. /\ a \in session'.taken /\ a.ok /\ InRange(a)
            /\ ret'.how = "invoice"
            /\ ret'.invoice.scid = <<a.block, a.tx, a.out>>
            /\ FormatScid(ret'.invoice.hop.scid) = <<a.block, a.tx, a.out>>
            /\ a.cltv < CltvSize => ret'.invoice.hop.cltv = a.cltv
        <4>1. ret'.invoice = Invoice(Registration(a))
          BY <3>1, <3>2
        <4> QED
          BY <1>1, <2>1, <3>1, <3>2, <4>1, InvoiceOf
      <3>4. InvoiceIsAnswer'
        BY <3>3 DEF InvoiceIsAnswer, InRange, FormatScid
      <3>5. ClaimsAccounted'
        BY <3>3 DEF ClaimsAccounted
      <3> QED
        BY <1>1, <3>4, <3>5 DEF ReturnInv
    <2>2. CASE res.reg.st # "ok"
      <3>1. session.taken = {}
        <4>1. \A a \in Answers : Registration(a).st \in {"ok", "error"}
          BY DEF Registration, NoReg
        <4> QED
          BY <1>2, <2>2, <4>1 DEF HoldsAnswer
      <3>2. ret'.how = "timedOut"
        BY <1>1, <1>5, <2>2 DEF Answered, NoReturn
      <3> QED
        BY <1>1, <3>1, <3>2 DEF ReturnInv, ClaimsAccounted, InvoiceIsAnswer
    <2> QED
      BY <2>1, <2>2
  <1> QED
    BY <1>2, <1>3, <1>4, <1>5

\* Only the end of a call returns something.
LEMMA ReturnStep ==
    ASSUME TypeOK, ClaimInv, AnswerInv, ReturnInv, Next
    PROVE  ReturnInv'
  <1>1. CASE Return
    BY <1>1, ReturnRight
  <1>2. CASE Fails
    <2>1. ret'.how = "error" /\ pc' = "idle"
      BY <1>2 DEF Fails, EndCall, NoReturn
    <2> QED
      BY <2>1 DEF ReturnInv, ClaimsAccounted, InvoiceIsAnswer
  <1>3. ASSUME NEW kind, NEW p, Begin(kind, p) PROVE ReturnInv'
    <2>1. ret'.how = "none"
      BY <1>3 DEF Begin, NoReturn
    <2> QED
      BY <2>1 DEF ReturnInv, ClaimsAccounted, InvoiceIsAnswer
  <1>4. ASSUME NEW o, Mature(o) PROVE ReturnInv'
    BY <1>4 DEF Mature, callVars, ReturnInv, ClaimsAccounted, InvoiceIsAnswer, FormatScid
  <1>5. ASSUME pc # "idle", ret' = ret PROVE ReturnInv'
    BY <1>5 DEF ReturnInv, ClaimsAccounted, InvoiceIsAnswer
  <1>6. CASE LastFlush \/ ReadTimeout \/ MainStep \/ PeerReady \/ ChannelsReady
    BY <1>5, <1>6 DEF LastFlush, ReadTimeout, MainStep, PeerReady, ChannelsReady
  <1>7. CASE StartRead \/ SocketClosed \/ ReadFails \/ Check \/ TimePasses
    BY <1>5, <1>7 DEF StartRead, SocketClosed, ReadFails, Check, TimePasses
  <1>8. CASE Receive
    BY <1>5, <1>8, ReceiveFacts
  <1> QED
    BY <1>1, <1>2, <1>3, <1>4, <1>6, <1>7, <1>8 DEF Next, Loop

\* Every step keeps the invariant.
LEMMA StepInv == ASSUME TypeOK, PumpInv, [Next]_vars PROVE PumpInv'
  <1>1. CASE Next
    BY <1>1, StartStep, ClaimStep, AnswerStep, ReturnStep DEF PumpInv
  <1>2. CASE UNCHANGED vars
    BY <1>2 DEF vars, PumpInv, StartInv, ClaimInv, AnswerInv, HoldsAnswer, ReturnInv,
       ClaimsAccounted, InvoiceIsAnswer, FormatScid, Registration, NoReg, InRange, ParseScid
  <1> QED
    BY <1>1, <1>2

\* The invariant holds in every reachable state.
THEOREM Invariance == Spec => []PumpInv
  BY InitType, StepType, InitInv, StepInv, PTL DEF Spec

\* A call asks for one registration and starts one payment at most, however often
\* the peer or the channels are reported as ready.
THEOREM StartsOnce == Spec => []StartedOnce
  <1>1. PumpInv => StartedOnce
    BY DEF PumpInv, StartInv, StartedOnce
  <1> QED
    BY <1>1, Invariance, PTL

\* receivePayments returns every payment LDK claimed in its call.
THEOREM ClaimsReturned == Spec => []ClaimsAccounted
  <1>1. PumpInv => ClaimsAccounted
    BY DEF PumpInv, ReturnInv
  <1> QED
    BY <1>1, Invariance, PTL

\* getInvoice returns the SCID and the delta of the answer it took, and an answer
\* that was taken is not reported as a timeout.
THEOREM InvoiceRight == Spec => []InvoiceIsAnswer
  <1>1. PumpInv => InvoiceIsAnswer
    BY DEF PumpInv, ReturnInv
  <1> QED
    BY <1>1, Invariance, PTL
=============================================================================
