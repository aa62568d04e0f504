--------------------------- MODULE ChainSyncProofs ---------------------------
(* Proofs about ChainSync, for any tree of blocks, any transactions and any     *)
(* bounds on faults and evictions.                                              *)
EXTENDS ChainSync, TLAPS

USE ChainAssumption, BoundAssumption

-----------------------------------------------------------------------------
(* Types *)

(* The local variables of sync(); what was found are transactions no longer in *)
(* the chain, and later transactions with their blocks.                        *)
PassRec(f) == [tip : Blocks \cup {None}, iter : 0..MaxIterations, todo : SUBSET Txs,
               outs : SUBSET Txs, found : {f},
               cur : [tx : Txs, block : Blocks \cup {None}] \cup {None}, missed : SUBSET Txs]
PassType ==
  /\ pass \in PassRec(pass.found)
  /\ pc \in {"head", "best", "drain", "flush"} => pass.found = {}
  /\ pc = "unconfirmed" => pass.found \subseteq Txs
  /\ pc \in {"confirmed", "proof", "height"} => pass.found \subseteq Found
  /\ pc \in {"head", "unconfirmed", "best", "confirmed", "proof", "height"} => pass.tip \in Blocks
  /\ pc = "proof" => pass.cur \in [tx : Txs, block : Blocks \cup {None}]
  /\ pc = "height" => pass.cur \in Found

Typed == TypeOK /\ PassType

\* Setting the local variables of sync() anew gives them their types.
LEMMA NoPassType ==
    ASSUME NEW b \in Blocks \cup {None},
           \/ pass' = NoPass /\ pc' = "idle"
           \/ pass' = [NoPass EXCEPT !.tip = b] /\ pc' = "head" /\ b \in Blocks
    PROVE  PassType' /\ pass'.iter \in 0..MaxIterations /\ pass'.tip \in Blocks \cup {None}
  <1>1. NoPass \in PassRec({})
    BY DEF NoPass, PassRec
  <1>2. pass' \in PassRec({})
    BY <1>1 DEF PassRec
  <1>3. pass'.found = {} /\ (pc' = "head" => pass'.tip \in Blocks)
    BY <1>1, <1>2 DEF PassRec
  <1> QED
    BY <1>2, <1>3 DEF PassType, PassRec

\* A fresh EsploraSyncClient has its type.
LEMMA FreshType ==
    /\ EmptyQueue \in [txs : SUBSET Txs, outs : SUBSET Txs]
    /\ NewSyncState \in [txs : SUBSET Txs, outs : SUBSET Txs, spends : SUBSET Spend,
                        last : Blocks \cup {None}, pending : BOOLEAN]
  BY DEF EmptyQueue, NewSyncState

\* Every variable has its type in the initial state.
LEMMA InitType == Init => Typed
  <1> SUFFICES ASSUME Init PROVE Typed
    OBVIOUS
  <1>1. stored \in Listeners /\ lis \in Listeners
    <2>1. stored = [conf |-> [t \in Txs |-> None], best |-> Genesis, outs |-> {Funding}]
      BY DEF Init
    <2>2. [t \in Txs |-> None] \in [Txs -> Blocks \cup {None}]
      OBVIOUS
    <2>3. Genesis \in Blocks /\ {Funding} \in SUBSET Txs
      OBVIOUS
    <2>4. stored \in Listeners
      BY <2>1, <2>2, <2>3 DEF Listeners
    <2> QED
      BY <2>4 DEF Init
  <1>2. PassType /\ pass.iter \in 0..MaxIterations /\ pass.tip \in Blocks \cup {None}
    <2>1. pass = NoPass /\ pc = "idle" /\ NoPass \in PassRec({})
      BY DEF Init, NoPass, PassRec
    <2> QED
      BY <2>1 DEF PassType, PassRec
  <1>3. /\ tip \in Blocks /\ mempool \subseteq Ours /\ pending \subseteq Ours
        /\ alarm \in BOOLEAN /\ scheduled \in BOOLEAN
        /\ faults \in 0..MaxFaults /\ crashes \in 0..MaxCrashes
        /\ pc = "idle" /\ filter = EmptyQueue /\ st = NewSyncState
    <2>1. /\ tip = Genesis /\ mempool = {} /\ pending = {} /\ alarm = FALSE /\ scheduled = FALSE
          /\ faults = 0 /\ crashes = 0
          /\ pc = "idle" /\ filter = EmptyQueue /\ st = NewSyncState
      BY DEF Init
    <2>2. alarm \in BOOLEAN /\ scheduled \in BOOLEAN
      BY <2>1, Zenon
    <2>3. faults \in 0..MaxFaults /\ crashes \in 0..MaxCrashes
      BY <2>1
    <2>4. tip \in Blocks /\ mempool \subseteq Ours /\ pending \subseteq Ours
      BY <2>1
    <2> QED
      BY <2>1, <2>2, <2>3, <2>4
  <1> QED
    BY <1>1, <1>2, <1>3, FreshType DEF Typed, TypeOK

\* The block that holds a transaction is a block of the chain.
LEMMA BlockOfFacts ==
    ASSUME NEW t \in Txs, NEW b \in Blocks
    PROVE  /\ BlockOf(t, b) \in Blocks \cup {None}
           /\ BlockOf(t, b) # None => BlockOf(t, b) \in Chain[b] /\ t \in TxsIn[BlockOf(t, b)]
  <1>1. CASE \E a \in Chain[b] : t \in TxsIn[a]
    <2>1. /\ BlockOf(t, b) = (CHOOSE a \in Chain[b] : t \in TxsIn[a])
          /\ BlockOf(t, b) \in Chain[b] /\ t \in TxsIn[BlockOf(t, b)]
      BY <1>1 DEF BlockOf
    <2> QED
      BY <2>1
  <1>2. CASE ~\E a \in Chain[b] : t \in TxsIn[a]
    BY <1>2 DEF BlockOf
  <1> QED
    BY <1>1, <1>2

\* Going round the loop again keeps the types.
LEMMA RestartType ==
    ASSUME Typed, NEW hash \in Blocks, Restart(hash)
    PROVE  Typed'
  <1>1. PassType'
    BY DEF Restart, Typed, PassType, PassRec
  <1>2. TypeOK'
    BY DEF Restart, Typed, TypeOK, PassType, PassRec, handler, net, timer
  <1> QED
    BY <1>1, <1>2 DEF Typed

\* An error of sync() keeps the types.
LEMMA AbortType ==
    ASSUME Typed, Abort(st) \/ Fail
    PROVE  Typed'
  <1>1. st' = st \/ st' = [st EXCEPT !.pending = TRUE]
    BY DEF Abort, Fail
  <1>2. /\ pc' = "failed" /\ UNCHANGED <<handler, stored, lis, pending, filter, pass>>
        /\ faults < MaxFaults /\ faults' = faults + 1
    BY DEF Abort, Fail, Fault
  <1>3. st' \in [txs : SUBSET Txs, outs : SUBSET Txs, spends : SUBSET Spend,
                 last : Blocks \cup {None}, pending : BOOLEAN]
    BY <1>1 DEF Typed, TypeOK
  <1> QED
    BY <1>2, <1>3 DEF Typed, TypeOK, PassType, PassRec, handler, net, timer

\* What the outside does, and the handler around sync(), keeps the types.
LEMMA HandlerType ==
    ASSUME Typed,
           \/ Request \/ Crash \/ AlarmFires \/ Restore \/ DrainAndClaim \/ PersistSessionEnd
           \/ Reschedule \/ (\E b \in Blocks : ChainMoves(b)) \/ (\E t \in Ours : Broadcast(t))
    PROVE  Typed'
  <1> USE DEF Typed, TypeOK, PassType, PassRec, net, timer, handler
  <1>1. CASE \E b \in Blocks : ChainMoves(b)
    BY <1>1 DEF ChainMoves
  <1>2. CASE Request
    BY <1>2 DEF Request
  <1>3. CASE Crash \/ Reschedule
    <2>1. /\ EndOfHandler /\ lis' = stored /\ UNCHANGED <<net, stored, faults>>
          /\ alarm' \in BOOLEAN /\ scheduled' \in BOOLEAN /\ crashes' \in 0..MaxCrashes
      <3>1. EndOfHandler /\ lis' = stored /\ UNCHANGED <<net, stored, faults>>
        BY <1>3 DEF Crash, Reschedule
      <3>2. alarm' \in BOOLEAN /\ scheduled' \in BOOLEAN
        BY <1>3, Zenon DEF Crash, Reschedule
      <3>3. crashes' \in 0..MaxCrashes
        BY <1>3 DEF Crash, Reschedule
      <3> QED
        BY <3>1, <3>2, <3>3
    <2>2. pass' = NoPass /\ pc' = "idle"
      BY <2>1 DEF EndOfHandler
    <2>3. PassType' /\ pass'.iter \in 0..MaxIterations /\ pass'.tip \in Blocks \cup {None}
      BY <2>2, NoPassType
    <2>4. pending' = {} /\ filter' = EmptyQueue /\ st' = NewSyncState
      BY <2>1 DEF EndOfHandler
    <2>5. UNCHANGED <<tip, mempool, stored, faults>> /\ lis' = stored
      BY <2>1
    <2>6. TypeOK'
      BY <2>1, <2>2, <2>3, <2>4, <2>5, FreshType
    <2> QED
      BY <2>3, <2>6, Zenon
  <1>4. CASE AlarmFires
    BY <1>4 DEF AlarmFires
  <1>5. CASE Restore
    <2>1. Registered(stored) \in [txs : SUBSET Txs, outs : SUBSET Txs]
      BY DEF Registered, Register, Listeners
    <2>2. /\ NewSyncState \in [txs : SUBSET Txs, outs : SUBSET Txs, spends : SUBSET Spend,
                               last : Blocks \cup {None}, pending : BOOLEAN]
          /\ faults' \in 0..MaxFaults
      BY <1>5 DEF Restore, Fault, NewSyncState
    <2> QED
      BY <1>5, <2>1, <2>2 DEF Restore
  <1>6. CASE DrainAndClaim
    <2>1. Claims(lis) \subseteq Ours
      BY DEF Claims
    <2> QED
      BY <1>6, <2>1 DEF DrainAndClaim
  <1>7. CASE PersistSessionEnd
    BY <1>7 DEF PersistSessionEnd
  <1>8. CASE \E t \in Ours : Broadcast(t)
    BY <1>8 DEF Broadcast, Fault
  <1> QED
    BY <1>1, <1>2, <1>3, <1>4, <1>5, <1>6, <1>7, <1>8

\* The requests of sync() and what it tells the listeners keep the types.
LEMMA TellType ==
    ASSUME Typed, GetTip \/ LoopHead \/ TellUnconfirmed \/ TellBest
    PROVE  Typed'
  <1>0. /\ st \in [txs : SUBSET Txs, outs : SUBSET Txs, spends : SUBSET Spend,
                   last : Blocks \cup {None}, pending : BOOLEAN]
        /\ filter \in [txs : SUBSET Txs, outs : SUBSET Txs]
    BY DEF Typed, TypeOK
  <1>1. CASE GetTip
    <2>1. CASE Abort(st)
      BY <2>1, AbortType
    <2>2. CASE ~Abort(st)
      <3>1. /\ pass' = [NoPass EXCEPT !.tip = tip] /\ pc' = "head" /\ tip \in Blocks
            /\ UNCHANGED <<handler, stored, lis, pending, filter, st, faults>>
        BY <1>1, <2>2 DEF GetTip, Typed, TypeOK
      <3>2. PassType' /\ pass'.iter \in 0..MaxIterations /\ pass'.tip \in Blocks \cup {None}
        BY <3>1, NoPassType
      <3> QED
        BY <3>1, <3>2 DEF Typed, TypeOK, net, timer, handler
    <2> QED
      BY <2>1, <2>2
  <1>2. CASE LoopHead
    <2>1. CASE GiveUp
      BY <1>2, <2>1 DEF LoopHead, Typed, TypeOK, PassType, PassRec, net, timer, handler
    <2>2. CASE ~GiveUp
      <3>1. /\ st' = ProcessQueues(st, filter) /\ filter' = EmptyQueue /\ pc = "head"
            /\ \/ pc' = "drain" /\ pass' = [pass EXCEPT !.iter = pass.iter + 1]
               \/ /\ pc' = "unconfirmed"
                  /\ pass' = [pass EXCEPT !.iter = pass.iter + 1, !.todo = Relevant(lis)]
               \/ /\ pc' = "confirmed"
                  /\ pass' = [pass EXCEPT !.iter = pass.iter + 1, !.todo = st'.txs,
                                          !.outs = st'.outs]
        BY <1>2, <2>2 DEF LoopHead
      <3>2. pass.iter + 1 \in 0..MaxIterations /\ Relevant(lis) \subseteq Txs
        BY <2>2 DEF GiveUp, Typed, TypeOK, Relevant
      <3>3. st' \in [txs : SUBSET Txs, outs : SUBSET Txs, spends : SUBSET Spend,
                     last : Blocks \cup {None}, pending : BOOLEAN]
        BY <1>0, <3>1 DEF ProcessQueues
      <3>4. PassType'
        BY <3>1, <3>2, <3>3 DEF Typed, PassType, PassRec
      <3>5. filter' \in [txs : SUBSET Txs, outs : SUBSET Txs]
        BY <3>1 DEF EmptyQueue
      <3> QED
        BY <1>2, <3>1, <3>3, <3>4, <3>5
        DEF LoopHead, Typed, TypeOK, PassType, PassRec, net, timer, handler
    <2> QED
      BY <2>1, <2>2
  <1>3. CASE TellUnconfirmed
    <2>1. CASE Fail
      BY <2>1, AbortType
    <2>2. CASE Restart(tip)
      BY <2>2, RestartType DEF Typed, TypeOK
    <2>3. CASE ~Fail /\ ~Restart(tip)
      <3>1. /\ lis' = Disconnect(lis, pass.found) /\ st' = Unconfirm(st, pass.found)
            /\ pass' = [pass EXCEPT !.found = {}] /\ pc' = "best" /\ pc = "unconfirmed"
            /\ UNCHANGED <<handler, stored, pending, filter, faults>>
        BY <1>3, <2>3 DEF TellUnconfirmed
      <3>2. lis' \in Listeners
        BY <3>1 DEF Disconnect, Listeners, Typed, TypeOK
      <3>3. st' \in [txs : SUBSET Txs, outs : SUBSET Txs, spends : SUBSET Spend,
                     last : Blocks \cup {None}, pending : BOOLEAN]
        <4>1. /\ pass.found \subseteq Txs
              /\ {sp.out : sp \in {x \in st.spends : x.tx \in pass.found}} \subseteq Txs
          BY <1>0, <3>1 DEF Typed, PassType, Spend
        <4> QED
          BY <1>0, <3>1, <4>1 DEF Unconfirm
      <3>4. PassType'
        BY <3>1 DEF Typed, PassType, PassRec
      <3> QED
        BY <3>1, <3>2, <3>3, <3>4 DEF Typed, TypeOK, PassType, PassRec, net, timer, handler
    <2> QED
      BY <2>1, <2>2, <2>3
  <1>4. CASE TellBest
    <2>1. CASE Fail
      BY <2>1, AbortType
    <2>2. CASE Restart(pass.tip)
      BY <1>4, <2>2, RestartType DEF TellBest, Typed, PassType, PassRec
    <2>3. CASE ~Fail /\ ~Restart(pass.tip)
      <3>1. /\ lis' = [lis EXCEPT !.best = pass.tip] /\ st' = Prune(st, Height[pass.tip])
            /\ pass' = [pass EXCEPT !.todo = st.txs, !.outs = st.outs]
            /\ pc = "best" /\ pc' = "confirmed" /\ pass.tip \in Blocks
            /\ UNCHANGED <<handler, stored, pending, filter, faults>>
        BY <1>4, <2>3 DEF TellBest, Typed, PassType, PassRec
      <3>2. lis' \in Listeners
        BY <3>1 DEF Listeners, Typed, TypeOK
      <3>3. st' \in [txs : SUBSET Txs, outs : SUBSET Txs, spends : SUBSET Spend,
                     last : Blocks \cup {None}, pending : BOOLEAN]
        BY <1>0, <3>1 DEF Prune
      <3>4. PassType'
        BY <1>0, <3>1 DEF Typed, PassType, PassRec
      <3> QED
        BY <3>1, <3>2, <3>3, <3>4 DEF Typed, TypeOK, PassType, PassRec, net, timer, handler
    <2> QED
      BY <2>1, <2>2, <2>3
  <1> QED
    BY <1>1, <1>2, <1>3, <1>4

\* An answer that changes only the local variables of sync().
LEMMA LocalType ==
    ASSUME Typed, UNCHANGED fetched, faults' \in 0..MaxFaults, PassType',
           pc' \in {"unconfirmed", "confirmed", "proof", "height"}
    PROVE  Typed'
  BY DEF Typed, TypeOK, PassType, PassRec, fetched, handler, net, timer

\* The block of a transaction is asked for.
LEMMA QueryType ==
    ASSUME Typed, pc \in {"confirmed", "proof"}, NEW t \in Txs, NEW p \in PassRec(pass.found),
           p.tip = pass.tip, ProofOf(p, t) \/ NoProofOf(p, t)
    PROVE  Typed'
  <1>1. /\ tip \in Blocks /\ faults \in 0..MaxFaults /\ pass.tip \in Blocks
        /\ pass.found \subseteq Found
    BY DEF Typed, TypeOK, PassType
  <1>2. CASE ProofOf(p, t)
    <2>1. /\ BlockOf(t, tip) \in Blocks /\ pc' = "height" /\ UNCHANGED <<fetched, faults>>
          /\ pass' = [p EXCEPT !.cur = [tx |-> t, block |-> BlockOf(t, tip)]]
      BY <1>1, <1>2, BlockOfFacts DEF ProofOf
    <2>2. [tx |-> t, block |-> BlockOf(t, tip)] \in Found
      BY <2>1 DEF Found
    <2>3. PassType'
      BY <1>1, <2>1, <2>2 DEF PassType, PassRec, Found
    <2> QED
      BY <1>1, <2>1, <2>3, LocalType
  <1>3. ASSUME NEW q \in PassRec(pass.found), q.tip = pass.tip, Skip(q), UNCHANGED fetched,
               faults' \in 0..MaxFaults
        PROVE  Typed'
    <2>1. PassType' /\ pc' = "confirmed"
      BY <1>1, <1>3 DEF Skip, PassType, PassRec
    <2> QED
      BY <1>3, <2>1, LocalType
  <1>4. CASE Skip(p) /\ UNCHANGED <<fetched, faults>>
    BY <1>1, <1>3, <1>4
  <1>5. CASE Fault /\ Skip([p EXCEPT !.missed = p.missed \cup {t}]) /\ UNCHANGED fetched
    <2>1. [p EXCEPT !.missed = p.missed \cup {t}] \in PassRec(pass.found)
      BY DEF PassRec
    <2>2. [p EXCEPT !.missed = p.missed \cup {t}].tip = pass.tip
      BY DEF PassRec
    <2>3. faults' \in 0..MaxFaults
      BY <1>1, <1>5 DEF Fault
    <2> QED
      BY <1>3, <1>5, <2>1, <2>2, <2>3
  <1> QED
    BY <1>2, <1>4, <1>5, AbortType DEF NoProofOf

\* A transaction was found in a block.
LEMMA KeepType ==
    ASSUME Typed, pc \in {"proof", "height"}, NEW t \in Txs, NEW b \in Blocks,
           Keep(pass, t, b), UNCHANGED <<fetched, faults>>
    PROVE  Typed'
  <1>1. [tx |-> t, block |-> b] \in Found
    BY DEF Found
  <1>2. /\ pc' = "confirmed" /\ faults' \in 0..MaxFaults
        /\ pass' = [pass EXCEPT !.cur = None, !.found = pass.found \cup {[tx |-> t, block |-> b]}]
    BY DEF Keep, Typed, TypeOK
  <1>3. PassType'
    BY <1>1, <1>2 DEF Typed, PassType, PassRec
  <1> QED
    BY <1>2, <1>3, LocalType

\* Every question of sync() to Esplora keeps the types.
LEMMA AskType ==
    ASSUME Typed,
           \/ GetSpenderProof \/ GetHeight
           \/ (\E t \in Txs : CheckRelevant(t) \/ CheckWatchedTx(t) \/ CheckWatchedOutput(t))
    PROVE  Typed'
  <1>0. /\ pass \in PassRec(pass.found) /\ tip \in Blocks /\ faults \in 0..MaxFaults
        /\ pc \in {"unconfirmed", "confirmed", "proof", "height"} => pass.tip \in Blocks
    BY DEF Typed, TypeOK, PassType
  <1>1. ASSUME NEW t \in Txs, CheckRelevant(t) PROVE Typed'
    <2>1. CASE Fail
      BY <2>1, AbortType
    <2>2. CASE ~Fail
      <3>1. /\ pc = "unconfirmed"
            /\ pass' = [pass EXCEPT !.todo = pass.todo \ {t},
                 !.found = IF InBestChain(lis.conf[t]) THEN pass.found ELSE pass.found \cup {t}]
            /\ UNCHANGED <<handler, stored, lis, pending, filter, st, pc, faults>>
        BY <1>1, <2>2 DEF CheckRelevant
      <3>2. PassType'
        BY <3>1 DEF Typed, PassType, PassRec
      <3> QED
        BY <1>0, <3>1, <3>2, LocalType DEF fetched
    <2> QED
      BY <2>1, <2>2
  <1>2. ASSUME NEW t \in Txs, CheckWatchedTx(t) PROVE Typed'
    <2> DEFINE p == [pass EXCEPT !.todo = pass.todo \ {t}]
    <2>1. pc = "confirmed" /\ (ProofOf(p, t) \/ NoProofOf(p, t))
      BY <1>2 DEF CheckWatchedTx
    <2>2. p \in PassRec(pass.found) /\ p.tip = pass.tip
      BY <1>0 DEF PassRec
    <2> HIDE DEF p
    <2> QED
      BY <2>1, <2>2, QueryType
  <1>3. ASSUME NEW o \in Txs, CheckWatchedOutput(o) PROVE Typed'
    <2> DEFINE p == [pass EXCEPT !.outs = pass.outs \ {o}]
    <2>1. /\ pc = "confirmed"
          /\ \/ Skip(p) /\ UNCHANGED <<fetched, faults>>
             \/ Restart(pass.tip)
             \/ (\E t \in Spender(o) :
                   /\ pc' = "proof" /\ UNCHANGED <<fetched, faults>>
                   /\ pass' = [p EXCEPT !.cur = [tx |-> t, block |-> BlockOf(t, tip)]])
             \/ Fail
      BY <1>3 DEF CheckWatchedOutput
    <2>2. p \in PassRec(pass.found) /\ p.tip = pass.tip /\ pass.tip \in Blocks
          /\ pass.found \subseteq Found
      BY <1>0, <2>1 DEF Typed, PassType, PassRec
    <2> HIDE DEF p
    <2>3. CASE Skip(p) /\ UNCHANGED <<fetched, faults>>
      <3>1. PassType' /\ pc' = "confirmed"
        BY <2>2, <2>3 DEF Skip, PassType, PassRec
      <3> QED
        BY <1>0, <2>3, <3>1, LocalType
    <2>4. ASSUME NEW t \in Spender(o), pc' = "proof", UNCHANGED <<fetched, faults>>,
                 pass' = [p EXCEPT !.cur = [tx |-> t, block |-> BlockOf(t, tip)]]
          PROVE  Typed'
      <3>1. t \in Txs
        BY DEF Spender, ChainSpender, Spenders
      <3>2. [tx |-> t, block |-> BlockOf(t, tip)] \in [tx : Txs, block : Blocks \cup {None}]
        BY <1>0, <3>1, BlockOfFacts
      <3>3. PassType'
        BY <2>2, <2>4, <3>2 DEF PassType, PassRec
      <3> QED
        BY <1>0, <2>4, <3>3, LocalType
    <2> QED
      BY <2>1, <2>2, <2>3, <2>4, AbortType, RestartType
  <1>4. CASE GetSpenderProof
    <2>1. /\ pc = "proof" /\ pass.cur.tx \in Txs /\ pass.cur.block \in Blocks \cup {None}
      BY <1>0, <1>4 DEF GetSpenderProof, Typed, PassType, PassRec
    <2>2. \/ ProofOf(pass, pass.cur.tx) \/ NoProofOf(pass, pass.cur.tx)
          \/ Restart(pass.tip)
          \/ /\ pass.cur.block # None
             /\ Keep(pass, pass.cur.tx, pass.cur.block) /\ UNCHANGED <<fetched, faults>>
      BY <1>4 DEF GetSpenderProof
    <2> QED
      BY <1>0, <2>1, <2>2, QueryType, KeepType, RestartType
  <1>5. CASE GetHeight
    <2>1. pc = "height" /\ pass.cur.tx \in Txs /\ pass.cur.block \in Blocks
      BY <1>5 DEF GetHeight, Typed, PassType, Found
    <2>2. \/ Keep(pass, pass.cur.tx, pass.cur.block) /\ UNCHANGED <<fetched, faults>>
          \/ Restart(pass.tip) \/ Fail
      BY <1>5 DEF GetHeight
    <2> QED
      BY <1>0, <2>1, <2>2, KeepType, RestartType, AbortType
  <1> QED
    BY <1>1, <1>2, <1>3, <1>4, <1>5

\* What the listeners keep of confirmed transactions has its type.
LEMMA ConnectType ==
    ASSUME NEW l \in Listeners, NEW fs \in SUBSET Found
    PROVE  /\ Connect(l, fs) \in Listeners
           /\ \A t \in Txs : \/ Connect(l, fs).conf[t] = l.conf[t]
                            \/ \E c \in fs : c.tx = t /\ Connect(l, fs).conf[t] = c.block
           /\ Connect(l, fs).best = l.best
  <1> DEFINE new == [t \in Txs |-> IF \E c \in fs : c.tx = t
                                   THEN (CHOOSE c \in fs : c.tx = t).block ELSE l.conf[t]]
             more == Claimable({c.tx : c \in fs})
  <1>1. ASSUME NEW t \in Txs
        PROVE  /\ new[t] \in Blocks \cup {None}
               /\ new[t] = l.conf[t] \/ \E c \in fs : c.tx = t /\ new[t] = c.block
    <2>1. CASE \E c \in fs : c.tx = t
      <3>1. /\ (CHOOSE c \in fs : c.tx = t) \in fs /\ (CHOOSE c \in fs : c.tx = t).tx = t
            /\ new[t] = (CHOOSE c \in fs : c.tx = t).block
        BY <2>1
      <3> QED
        BY <3>1 DEF Found
    <2>2. CASE ~\E c \in fs : c.tx = t
      BY <2>2 DEF Listeners
    <2> QED
      BY <2>1, <2>2
  <1>2. more \subseteq Txs
    BY DEF Claimable, Found
  <1>3. new \in [Txs -> Blocks \cup {None}]
    BY <1>1
  <1>4. Connect(l, fs) = [l EXCEPT !.conf = new, !.outs = l.outs \cup more]
    BY DEF Connect
  <1> HIDE DEF new, more
  <1>5. Connect(l, fs) \in Listeners
    BY <1>2, <1>3, <1>4 DEF Listeners
  <1>6. Connect(l, fs).conf = new /\ Connect(l, fs).best = l.best
    BY <1>4 DEF Listeners
  <1> QED
    BY <1>1, <1>5, <1>6

\* What SyncState keeps of confirmed transactions has its type.
LEMMA ConfirmType ==
    ASSUME NEW s \in [txs : SUBSET Txs, outs : SUBSET Txs, spends : SUBSET Spend,
                      last : Blocks \cup {None}, pending : BOOLEAN],
           NEW fs \in SUBSET Found
    PROVE  Confirm(s, fs) \in [txs : SUBSET Txs, outs : SUBSET Txs, spends : SUBSET Spend,
                               last : Blocks \cup {None}, pending : BOOLEAN]
  <1> DEFINE spent == {[tx |-> c.tx, height |-> Height[c.block], out |-> Spends[c.tx]] :
                        c \in {x \in fs : x.tx # Funding /\ Spends[x.tx] \in s.outs}}
  <1>1. spent \in SUBSET Spend
    <2> SUFFICES ASSUME NEW c \in fs, c.tx # Funding
                 PROVE  [tx |-> c.tx, height |-> Height[c.block], out |-> Spends[c.tx]] \in Spend
      OBVIOUS
    <2>1. c.tx \in Txs \ {Funding} /\ c.block \in Blocks
      BY DEF Found
    <2> QED
      BY <2>1 DEF Spend
  <1>2. Confirm(s, fs) = [s EXCEPT !.txs = s.txs \ {c.tx : c \in fs},
                                   !.outs = s.outs \ {sp.out : sp \in spent},
                                   !.spends = s.spends \cup spent]
    BY DEF Confirm
  <1> HIDE DEF spent
  <1> QED
    BY <1>1, <1>2

\* What TellConfirmed does, unless it restarts or fails.
LEMMA TellConfirmedFacts ==
    ASSUME Typed, TellConfirmed, ~Fail, ~Restart(tip)
    PROVE  /\ pc = "confirmed" /\ pc' = "head" /\ tip = pass.tip /\ pass.todo = {}
           /\ lis' = Connect(lis, pass.found) /\ lis \in Listeners /\ pass.found \in SUBSET Found
           /\ st' = [Confirm(st, pass.found) EXCEPT !.last = pass.tip, !.pending = FALSE]
           /\ filter' = Register(filter, lis'.outs \ lis.outs)
           /\ pending' = pending \cup (Claims(lis') \ Claims(lis))
           /\ pass' = [pass EXCEPT !.found = {}]
           /\ UNCHANGED <<tip, mempool, alarm, scheduled, crashes, stored, faults>>
  BY DEF TellConfirmed, Moved, Typed, TypeOK, PassType, net, timer

\* Telling the listeners what was found keeps the types.
LEMMA TellConfirmedType == ASSUME Typed, TellConfirmed PROVE Typed'
  <1>1. CASE Fail
    BY <1>1, AbortType
  <1>2. CASE Restart(tip)
    BY <1>2, RestartType DEF Typed, TypeOK
  <1>3. CASE ~Fail /\ ~Restart(tip)
    <2>1. /\ lis' = Connect(lis, pass.found) /\ lis \in Listeners
          /\ pass.found \in SUBSET Found /\ pc' = "head" /\ pc = "confirmed"
          /\ st' = [Confirm(st, pass.found) EXCEPT !.last = pass.tip, !.pending = FALSE]
          /\ filter' = Register(filter, lis'.outs \ lis.outs)
          /\ pending' = pending \cup (Claims(lis') \ Claims(lis))
          /\ pass' = [pass EXCEPT !.found = {}]
          /\ UNCHANGED <<tip, mempool, alarm, scheduled, crashes, stored, faults>>
      BY <1>3, TellConfirmedFacts
    <2>2. lis' \in Listeners
      BY <2>1, ConnectType
    <2>3. st' \in [txs : SUBSET Txs, outs : SUBSET Txs, spends : SUBSET Spend,
                   last : Blocks \cup {None}, pending : BOOLEAN]
      <3>1. /\ st \in [txs : SUBSET Txs, outs : SUBSET Txs, spends : SUBSET Spend,
                       last : Blocks \cup {None}, pending : BOOLEAN]
            /\ pass.tip \in Blocks
        BY <2>1 DEF Typed, TypeOK, PassType
      <3>2. Confirm(st, pass.found) \in [txs : SUBSET Txs, outs : SUBSET Txs,
              spends : SUBSET Spend, last : Blocks \cup {None}, pending : BOOLEAN]
        BY <2>1, <3>1, ConfirmType
      <3> QED
        BY <2>1, <3>1, <3>2
    <2>4. filter' \in [txs : SUBSET Txs, outs : SUBSET Txs]
      <3>1. lis'.outs \ lis.outs \subseteq Txs
        BY <2>2 DEF Listeners
      <3> QED
        BY <2>1, <3>1 DEF Register, Typed, TypeOK
    <2>5. pending' \subseteq Ours
      BY <2>1 DEF Claims, Typed, TypeOK
    <2>6. PassType' /\ pass'.tip \in Blocks \cup {None} /\ pass'.iter \in 0..MaxIterations
      BY <2>1 DEF Typed, PassType, PassRec
    <2>7. TypeOK'
      BY <2>1, <2>2, <2>3, <2>4, <2>5, <2>6 DEF Typed, TypeOK
    <2> QED
      BY <2>6, <2>7 DEF Typed
  <1> QED
    BY <1>1, <1>2, <1>3

\* Every step keeps the types.
LEMMA StepType == ASSUME Typed, [Next]_vars PROVE Typed'
  <1>1. CASE UNCHANGED vars
    BY <1>1 DEF vars, Typed, TypeOK, PassType, PassRec
  <1> QED
    BY <1>1, HandlerType, TellType, AskType, TellConfirmedType DEF Next, Alarm, Sync

\* Alarm, listeners and SyncState have their types, for any tree of blocks.
THEOREM TypeCorrect == Spec => []TypeOK
  <1>1. Typed => TypeOK
    BY DEF Typed
  <1> QED
    BY <1>1, InitType, StepType, PTL DEF Spec

\* Whatever fails in a handler, an alarm is to come or a handler at work once one was.
THEOREM AlarmLives == Spec => AlarmAlive
  <1>1. ASSUME [Next]_vars, alarm \/ pc # "idle" PROVE alarm' \/ pc' # "idle"
    <2>1. CASE UNCHANGED vars
      BY <1>1, <2>1 DEF vars
    <2>2. CASE Request \/ Crash \/ \E b \in Blocks : ChainMoves(b)
      BY <1>1, <2>2 DEF Request, Crash, ChainMoves, timer
    <2>3. CASE AlarmFires \/ Restore \/ DrainAndClaim \/ PersistSessionEnd \/ Reschedule
               \/ \E t \in Ours : Broadcast(t)
      BY <1>1, <2>3 DEF AlarmFires, Restore, DrainAndClaim, PersistSessionEnd, Reschedule,
         Broadcast, EndOfHandler
    <2>4. CASE Sync
      BY <2>4 DEF Sync, GetTip, LoopHead, TellUnconfirmed, TellBest, GetSpenderProof, GetHeight,
         TellConfirmed, CheckRelevant, CheckWatchedTx, CheckWatchedOutput, Fail, Abort, Restart,
         ProofOf, NoProofOf, Skip, Keep
    <2> QED
      BY <1>1, <2>1, <2>2, <2>3, <2>4 DEF Next, Alarm
  <1> QED
    BY <1>1, PTL DEF Spec, AlarmAlive

-----------------------------------------------------------------------------
(* The inductive invariant *)

(* The tips that sync() and the listeners remember were best blocks, in this order. *)
Le(a, b) == a = b \/ Height[a] < Height[b]

Active == pc \in {"head", "unconfirmed", "best", "confirmed", "proof", "height"}

(* Everything l takes for confirmed is in the chain of b. *)
Known(l, b) == \A t \in Txs : l.conf[t] # None => l.conf[t] \in Chain[b]

(* What l takes for confirmed was once, and still is if l takes it for buried. *)
Grounded(l) ==
  /\ Le(l.best, tip)
  /\ \A t \in Txs : l.conf[t] # None =>
       /\ t \in TxsIn[l.conf[t]]
       /\ Buried(l.conf[t], l.best) => l.conf[t] \in Chain[tip]

ListenInv == Grounded(stored) /\ Grounded(lis)

TipInv ==
  /\ Active => Le(pass.tip, tip) /\ (st.last # None => Le(st.last, pass.tip))
  /\ pc \in {"unconfirmed", "best"} => st.last # pass.tip
  /\ pc = "tip" => st.last = None

(* Once the unconfirmed transactions were told, the rest is in the chain of the pass. *)
KnownInv ==
  /\ pc \in {"best", "confirmed", "proof", "height"} => Known(lis, pass.tip)
  /\ (Active /\ st.last = pass.tip) => Known(lis, pass.tip)

(* While the tip stays: what was not found missing is in the chain, or to be looked up. *)
MissingInv ==
  (pc = "unconfirmed" /\ tip = pass.tip) =>
    \A t \in Txs : (lis.conf[t] # None /\ t \notin pass.todo \cup pass.found) =>
                     lis.conf[t] \in Chain[tip]

(* While the tip stays: what was found is where the chain has it. *)
FoundInv ==
  (pc \in {"confirmed", "proof", "height"} /\ tip = pass.tip) =>
    /\ \A c \in pass.found : c.block = BlockOf(c.tx, tip)
    /\ pc = "height" => pass.cur.block = BlockOf(pass.cur.tx, tip)

SyncInv == ListenInv /\ TipInv /\ KnownInv /\ MissingInv /\ FoundInv

\* Tips are in the order in which they were best blocks.
LEMMA LeFacts ==
    ASSUME NEW a \in Blocks, NEW b \in Blocks
    PROVE  /\ Le(a, a)
           /\ \A c \in Blocks : Le(a, b) /\ Le(b, c) => Le(a, c)
           /\ Le(a, b) /\ Le(b, a) => a = b
           /\ Le(a, b) => Height[a] <= Height[b]
           /\ Height[b] > Height[a] => Le(a, b) /\ a # b
  BY DEF Le

\* Init establishes the invariant.
LEMMA InitInv == Init => SyncInv
  BY DEF Init, SyncInv, ListenInv, Grounded, Le, TipInv, KnownInv, MissingInv, FoundInv, Active

\* The tip moves: what was true of it may be lost, what is buried stays.
LEMMA MoveInv ==
    ASSUME Typed, SyncInv, NEW b \in Blocks, ChainMoves(b)
    PROVE  SyncInv'
  <1>1. /\ Height[b] > Height[tip] /\ tip' = b /\ tip \in Blocks
        /\ {a \in Chain[tip] : Buried(a, tip)} \subseteq Chain[b]
        /\ UNCHANGED <<stored, lis, st, pc, pass>>
    BY DEF ChainMoves, Typed, TypeOK
  <1>2. ASSUME NEW l \in Listeners, Grounded(l), l' = l PROVE Grounded(l)'
    <2>1. l.best \in Blocks /\ Le(l.best, tip) /\ Height[l.best] <= Height[tip]
      BY <1>1, <1>2, LeFacts DEF Listeners, Grounded
    <2>2. Le(l.best, b)
      BY <1>1, <2>1, LeFacts
    <2>3. ASSUME NEW t \in Txs, l.conf[t] # None, Buried(l.conf[t], l.best)
          PROVE  l.conf[t] \in Chain[b]
      <3>1. l.conf[t] \in Chain[tip] /\ l.conf[t] \in Blocks
        BY <1>2, <2>3 DEF Grounded, Listeners
      <3>2. Buried(l.conf[t], tip)
        BY <1>1, <2>1, <2>3, <3>1 DEF Buried
      <3> QED
        BY <1>1, <3>1, <3>2
    <2> QED
      BY <1>1, <1>2, <2>2, <2>3 DEF Grounded, Le, Buried
  <1>3. ListenInv'
    BY <1>1, <1>2 DEF ListenInv, SyncInv, Typed, TypeOK
  <1>4. Active => pass.tip # b /\ Le(pass.tip, b)
    <2> SUFFICES ASSUME Active PROVE pass.tip # b /\ Le(pass.tip, b)
      OBVIOUS
    <2>1. pass.tip \in Blocks /\ Le(pass.tip, tip)
      BY DEF Active, Typed, PassType, SyncInv, TipInv
    <2> QED
      BY <1>1, <2>1, LeFacts
  <1>5. TipInv'
    BY <1>1, <1>4 DEF TipInv, Active, SyncInv, Le
  <1>6. KnownInv'
    BY <1>1 DEF KnownInv, Known, Active, SyncInv
  <1>7. MissingInv' /\ FoundInv'
    BY <1>1, <1>4 DEF MissingInv, FoundInv, Active
  <1> QED
    BY <1>3, <1>5, <1>6, <1>7 DEF SyncInv

\* The handler outside the loop of sync(): storage and memory take each other's place.
LEMMA FrameInv ==
    ASSUME SyncInv, tip' = tip, lis' \in {lis, stored}, stored' \in {lis, stored},
           ~Active', pc' = "tip" => st'.last = None
    PROVE  SyncInv'
  <1>1. ListenInv'
    BY DEF SyncInv, ListenInv, Grounded, Le, Buried
  <1>2. TipInv' /\ KnownInv' /\ MissingInv' /\ FoundInv'
    BY DEF TipInv, KnownInv, MissingInv, FoundInv, Active
  <1> QED
    BY <1>1, <1>2 DEF SyncInv

\* An error ends sync().
LEMMA AbortInv == ASSUME SyncInv, Abort(st) \/ Fail PROVE SyncInv'
  BY FrameInv DEF Abort, Fail, Active, handler, net

\* The loop goes round again, with the same tip or a new one.
LEMMA RestartInv ==
    ASSUME Typed, SyncInv, Active, NEW hash \in {tip, pass.tip}, Restart(hash)
    PROVE  SyncInv'
  <1>1. /\ UNCHANGED <<tip, stored, lis>> /\ pc' = "head"
        /\ pass'.tip = hash /\ st'.last = st.last
    BY DEF Restart, Typed, TypeOK, PassType, PassRec, handler, net
  <1>2. /\ tip \in Blocks /\ pass.tip \in Blocks /\ st.last \in Blocks \cup {None}
        /\ Le(pass.tip, tip) /\ (st.last # None => Le(st.last, pass.tip))
    BY DEF Active, Typed, TypeOK, PassType, SyncInv, TipInv
  <1>3. Le(hash, tip) /\ (st.last # None => Le(st.last, hash))
    BY <1>2, LeFacts
  <1>4. st.last = hash => Known(lis, hash)
    <2>1. CASE hash = pass.tip
      BY <2>1 DEF SyncInv, KnownInv
    <2>2. CASE hash = tip /\ tip # pass.tip
      BY <1>2, <2>2, LeFacts
    <2> QED
      BY <2>1, <2>2
  <1>5. ListenInv'
    BY <1>1 DEF SyncInv, ListenInv, Grounded, Le, Buried
  <1>6. TipInv' /\ KnownInv' /\ MissingInv' /\ FoundInv'
    BY <1>1, <1>3, <1>4 DEF TipInv, KnownInv, Known, MissingInv, FoundInv, Active, Le
  <1> QED
    BY <1>5, <1>6 DEF SyncInv

\* An answer that is kept for later.
LEMMA LocalInv ==
    ASSUME Typed, SyncInv, UNCHANGED <<tip, stored, lis, st>>, pass'.tip = pass.tip,
           pc \in {"confirmed", "proof", "height"}, pc' \in {"confirmed", "proof", "height"},
           FoundInv'
    PROVE  SyncInv'
  <1>1. ListenInv'
    BY DEF SyncInv, ListenInv, Grounded, Le, Buried
  <1>2. TipInv' /\ KnownInv' /\ MissingInv'
    BY DEF SyncInv, TipInv, KnownInv, Known, MissingInv, Active, Le
  <1> QED
    BY <1>1, <1>2 DEF SyncInv

\* The handler around sync() keeps the invariant.
LEMMA HandlerInv ==
    ASSUME SyncInv,
           \/ Request \/ Crash \/ AlarmFires \/ Restore \/ DrainAndClaim \/ PersistSessionEnd
           \/ Reschedule \/ (\E t \in Ours : Broadcast(t))
    PROVE  SyncInv'
  <1>1. CASE Request
    BY <1>1 DEF Request, net, SyncInv, ListenInv, Grounded, Le, Buried, TipInv, KnownInv, Known,
       MissingInv, FoundInv, BlockOf, Active
  <1>2. CASE Crash \/ Reschedule
    BY <1>2, FrameInv DEF Crash, Reschedule, EndOfHandler, Active, net
  <1>3. CASE AlarmFires
    BY <1>3, FrameInv DEF AlarmFires, Active, net
  <1>4. CASE Restore
    <2>1. NewSyncState.last = None
      BY DEF NewSyncState
    <2> QED
      BY <1>4, <2>1, FrameInv DEF Restore, Active, handler, net
  <1>5. CASE DrainAndClaim
    BY <1>5, FrameInv DEF DrainAndClaim, Active, handler, net
  <1>6. CASE PersistSessionEnd
    BY <1>6, FrameInv DEF PersistSessionEnd, Active, handler, net
  <1>7. CASE \E t \in Ours : Broadcast(t)
    BY <1>7, FrameInv DEF Broadcast, Active
  <1> QED
    BY <1>1, <1>2, <1>3, <1>4, <1>5, <1>6, <1>7

\* The tip is read for the first time.
LEMMA GetTipInv == ASSUME Typed, SyncInv, GetTip PROVE SyncInv'
  <1>1. CASE Abort(st)
    BY <1>1, AbortInv
  <1>2. CASE ~Abort(st)
    <2>1. /\ pass' = [NoPass EXCEPT !.tip = tip] /\ pc' = "head" /\ pc = "tip"
          /\ UNCHANGED <<tip, stored, lis, st>>
      BY <1>2 DEF GetTip, handler, net
    <2>2. pass'.tip = tip /\ st.last = None /\ tip # None
      BY <2>1 DEF NoPass, SyncInv, TipInv, Typed, TypeOK
    <2>3. ListenInv'
      BY <2>1 DEF SyncInv, ListenInv, Grounded, Le, Buried
    <2>4. TipInv' /\ KnownInv' /\ MissingInv' /\ FoundInv'
      BY <2>1, <2>2 DEF TipInv, KnownInv, MissingInv, FoundInv, Active, Le
    <2> QED
      BY <2>3, <2>4 DEF SyncInv
  <1> QED
    BY <1>1, <1>2

\* The head of the loop keeps the invariant.
LEMMA LoopHeadInv == ASSUME Typed, SyncInv, LoopHead PROVE SyncInv'
  <1>1. CASE GiveUp
    BY <1>1, FrameInv DEF LoopHead, Active, net
  <1>2. CASE ~GiveUp
    <2>1. /\ pc = "head" /\ UNCHANGED <<tip, stored, lis>> /\ st' = ProcessQueues(st, filter)
          /\ \/ pc' = "drain"
             \/ /\ pc' = "unconfirmed" /\ st.last # pass.tip
                /\ pass' = [pass EXCEPT !.iter = pass.iter + 1, !.todo = Relevant(lis)]
             \/ /\ pc' = "confirmed" /\ st.last = pass.tip
                /\ pass' = [pass EXCEPT !.iter = pass.iter + 1, !.todo = st'.txs,
                                        !.outs = st'.outs]
      BY <1>2 DEF LoopHead, net
    <2>2. CASE pc' = "drain"
      BY <2>1, <2>2, FrameInv DEF Active
    <2>3. CASE pc' # "drain"
      <3>1. pass'.tip = pass.tip /\ st'.last = st.last /\ pass'.found = {}
        BY <2>1, <2>3 DEF ProcessQueues, Typed, TypeOK, PassType, PassRec
      <3>2. ListenInv'
        BY <2>1 DEF SyncInv, ListenInv, Grounded, Le, Buried
      <3>3. TipInv' /\ KnownInv'
        BY <2>1, <2>3, <3>1 DEF SyncInv, TipInv, KnownInv, Known, Active, Le
      <3>4. MissingInv'
        <4>1. pc' = "unconfirmed" => pass'.todo = Relevant(lis)
          BY <2>1 DEF Typed, PassType, PassRec
        <4>2. SUFFICES ASSUME pc' = "unconfirmed", NEW t \in Txs, lis.conf[t] # None,
                              t \notin Relevant(lis)
                       PROVE  lis.conf[t] \in Chain[tip]
          BY <2>1, <4>1 DEF MissingInv
        <4> QED
          BY <4>2 DEF Relevant, SyncInv, ListenInv, Grounded
      <3>5. FoundInv'
        BY <2>1, <2>3, <3>1 DEF FoundInv
      <3> QED
        BY <3>2, <3>3, <3>4, <3>5 DEF SyncInv
    <2> QED
      BY <2>2, <2>3
  <1> QED
    BY <1>1, <1>2

\* What TellUnconfirmed does, unless it restarts or fails.
LEMMA TellUnconfirmedFacts ==
    ASSUME Typed, TellUnconfirmed, ~Fail, ~Restart(tip)
    PROVE  /\ pc = "unconfirmed" /\ pc' = "best" /\ tip = pass.tip /\ pass.todo = {}
           /\ UNCHANGED <<tip, stored>> /\ lis \in Listeners
           /\ \A t \in Txs : lis'.conf[t] = IF t \in pass.found THEN None ELSE lis.conf[t]
           /\ lis'.best = lis.best /\ st'.last = st.last
           /\ pass'.tip = pass.tip /\ pass'.found = {}
  <1>1. /\ pc = "unconfirmed" /\ pc' = "best" /\ tip = pass.tip /\ pass.todo = {}
        /\ UNCHANGED <<tip, stored>> /\ lis \in Listeners
        /\ lis' = Disconnect(lis, pass.found) /\ st' = Unconfirm(st, pass.found)
        /\ pass' = [pass EXCEPT !.found = {}]
    BY DEF TellUnconfirmed, Moved, Typed, TypeOK, handler, net
  <1>2. st'.last = st.last
    BY <1>1 DEF Unconfirm, Typed, TypeOK
  <1>3. pass'.tip = pass.tip /\ pass'.found = {}
    BY <1>1 DEF Typed, PassType, PassRec
  <1>4. /\ \A t \in Txs : lis'.conf[t] = IF t \in pass.found THEN None ELSE lis.conf[t]
        /\ lis'.best = lis.best
    BY <1>1 DEF Disconnect, Listeners
  <1> QED
    BY <1>1, <1>2, <1>3, <1>4

\* The unconfirmed transactions are told: what stays is in the chain of the pass.
LEMMA TellUnconfirmedInv == ASSUME Typed, SyncInv, TellUnconfirmed PROVE SyncInv'
  <1>1. CASE Fail
    BY <1>1, AbortInv
  <1>2. CASE Restart(tip)
    BY <1>2, RestartInv DEF TellUnconfirmed, Active, Fail, Abort
  <1>3. CASE ~Fail /\ ~Restart(tip)
    <2>1. /\ pc = "unconfirmed" /\ pc' = "best" /\ tip = pass.tip /\ pass.todo = {}
          /\ UNCHANGED <<tip, stored>> /\ lis \in Listeners
          /\ \A t \in Txs : lis'.conf[t] = IF t \in pass.found THEN None ELSE lis.conf[t]
          /\ lis'.best = lis.best /\ st'.last = st.last
          /\ pass'.tip = pass.tip /\ pass'.found = {}
      BY <1>3, TellUnconfirmedFacts
    <2>2. ListenInv'
      BY <2>1 DEF SyncInv, ListenInv, Grounded, Le, Buried
    <2>3. TipInv'
      BY <2>1 DEF SyncInv, TipInv, Active, Le
    <2>4. Known(lis, pass.tip)'
      BY <2>1 DEF SyncInv, MissingInv, Known
    <2>5. KnownInv' /\ MissingInv' /\ FoundInv'
      BY <2>1, <2>4 DEF KnownInv, MissingInv, FoundInv
    <2> QED
      BY <2>2, <2>3, <2>5 DEF SyncInv
  <1> QED
    BY <1>1, <1>2, <1>3

\* The new best block is told: what the listeners know is in its past.
LEMMA TellBestInv == ASSUME Typed, SyncInv, TellBest PROVE SyncInv'
  <1>1. CASE Fail
    BY <1>1, AbortInv
  <1>2. CASE Restart(pass.tip)
    BY <1>2, RestartInv DEF TellBest, Active
  <1>3. CASE ~Fail /\ ~Restart(pass.tip)
    <2>1. /\ pc = "best" /\ pc' = "confirmed" /\ pass.tip \in Chain[tip]
          /\ lis' = [lis EXCEPT !.best = pass.tip] /\ st' = Prune(st, Height[pass.tip])
          /\ pass' = [pass EXCEPT !.todo = st.txs, !.outs = st.outs]
          /\ UNCHANGED <<tip, stored>>
      BY <1>3 DEF TellBest, InBestChain, handler, net
    <2>2. st'.last = st.last
      BY <2>1 DEF Prune, Typed, TypeOK
    <2>3. pass'.tip = pass.tip /\ pass'.found = {} /\ pass.tip \in Blocks /\ tip \in Blocks
      BY <2>1 DEF Typed, TypeOK, PassType, PassRec
    <2>4. lis'.conf = lis.conf /\ lis'.best = pass.tip
      BY <2>1 DEF Typed, TypeOK, Listeners
    <2>5. Known(lis, pass.tip) /\ Le(pass.tip, tip)
      BY <2>1 DEF SyncInv, KnownInv, TipInv, Active
    <2>6. \A t \in Txs : lis.conf[t] # None => lis.conf[t] \in Chain[tip]
      BY <2>1, <2>3, <2>5, PastAssumption DEF Known
    <2>7. Grounded(lis)'
      BY <2>1, <2>4, <2>5, <2>6 DEF SyncInv, ListenInv, Grounded, Le
    <2>8. Grounded(stored)'
      BY <2>1 DEF SyncInv, ListenInv, Grounded, Le, Buried
    <2>9. TipInv' /\ KnownInv' /\ MissingInv' /\ FoundInv'
      BY <2>1, <2>2, <2>3, <2>4, <2>5
      DEF SyncInv, TipInv, KnownInv, Known, MissingInv, FoundInv, Active, Le
    <2> QED
      BY <2>7, <2>8, <2>9 DEF SyncInv, ListenInv
  <1> QED
    BY <1>1, <1>2, <1>3

\* The answers of the queries of sync() keep the invariant.
LEMMA QueryInv ==
    ASSUME Typed, SyncInv, pc \in {"confirmed", "proof"}, NEW t \in Txs,
           NEW p \in PassRec(pass.found), p.tip = pass.tip, p.found = pass.found,
           ProofOf(p, t) \/ NoProofOf(p, t)
    PROVE  SyncInv'
  <1>1. CASE Fail
    BY <1>1, AbortInv
  <1>2. CASE ~Fail
    <2>1. /\ UNCHANGED <<tip, stored, lis, st>> /\ pc' \in {"confirmed", "height"}
          /\ \/ /\ pc' = "height"
                /\ pass' = [p EXCEPT !.cur = [tx |-> t, block |-> BlockOf(t, tip)]]
             \/ pc' = "confirmed" /\ pass' = [p EXCEPT !.cur = None]
             \/ /\ pc' = "confirmed"
                /\ pass' = [[p EXCEPT !.missed = p.missed \cup {t}] EXCEPT !.cur = None]
      BY <1>2 DEF ProofOf, NoProofOf, Skip, fetched, handler, net
    <2>2. pass'.tip = pass.tip /\ pass'.found = pass.found
      BY <2>1 DEF PassRec
    <2>3. pc' = "height" => pass'.cur = [tx |-> t, block |-> BlockOf(t, tip)]
      BY <2>1 DEF PassRec
    <2>4. pc' = "height" => pass'.cur.block = BlockOf(pass'.cur.tx, tip)
      BY <2>3
    <2>5. tip = pass.tip => \A c \in pass.found : c.block = BlockOf(c.tx, tip)
      BY DEF SyncInv, FoundInv
    <2>6. FoundInv'
      BY <2>1, <2>2, <2>4, <2>5 DEF FoundInv, BlockOf
    <2> QED
      BY <2>1, <2>2, <2>6, LocalInv
  <1> QED
    BY <1>1, <1>2

\* A transaction found where the chain has it keeps the invariant.
LEMMA KeepInv ==
    ASSUME Typed, SyncInv, pc \in {"proof", "height"}, NEW t \in Txs, NEW b \in Blocks,
           tip = pass.tip => b = BlockOf(t, tip),
           Keep(pass, t, b), UNCHANGED fetched
    PROVE  SyncInv'
  <1>1. /\ pc' = "confirmed" /\ UNCHANGED <<tip, stored, lis, st>>
        /\ pass' = [pass EXCEPT !.cur = None, !.found = pass.found \cup {[tx |-> t, block |-> b]}]
    BY DEF Keep, fetched, handler, net
  <1>2. pass'.tip = pass.tip /\ pass'.found = pass.found \cup {[tx |-> t, block |-> b]}
    BY <1>1 DEF Typed, PassType, PassRec
  <1>3. tip = pass.tip => \A c \in pass.found : c.block = BlockOf(c.tx, tip)
    BY DEF SyncInv, FoundInv
  <1>4. ASSUME tip = pass.tip, NEW c \in pass.found \cup {[tx |-> t, block |-> b]}
        PROVE  c.block = BlockOf(c.tx, tip)
    BY <1>3, <1>4
  <1>5. FoundInv'
    BY <1>1, <1>2, <1>4 DEF FoundInv, BlockOf
  <1> QED
    BY <1>1, <1>2, <1>5, LocalInv

\* One transaction is checked against the chain.
LEMMA CheckRelevantInv ==
    ASSUME Typed, SyncInv, NEW t \in Txs, CheckRelevant(t)
    PROVE  SyncInv'
  <1>1. CASE Fail
    BY <1>1, AbortInv
  <1>2. CASE ~Fail
    <2>1. /\ pc = "unconfirmed" /\ UNCHANGED <<tip, stored, lis, st, pc>>
          /\ pass' = [pass EXCEPT !.todo = pass.todo \ {t},
               !.found = IF InBestChain(lis.conf[t]) THEN pass.found ELSE pass.found \cup {t}]
      BY <1>2 DEF CheckRelevant, handler, net
    <2>2. /\ pass'.tip = pass.tip /\ pass'.todo = pass.todo \ {t}
          /\ pass'.found = IF InBestChain(lis.conf[t]) THEN pass.found ELSE pass.found \cup {t}
      BY <2>1 DEF Typed, PassType, PassRec
    <2>3. ListenInv'
      BY <2>1 DEF SyncInv, ListenInv, Grounded, Le, Buried
    <2>4. MissingInv'
      BY <2>1, <2>2 DEF SyncInv, MissingInv, InBestChain
    <2>5. TipInv' /\ KnownInv' /\ FoundInv'
      BY <2>1, <2>2 DEF SyncInv, TipInv, KnownInv, Known, FoundInv, Active, Le
    <2> QED
      BY <2>3, <2>4, <2>5 DEF SyncInv
  <1> QED
    BY <1>1, <1>2

\* A watched output is checked.
LEMMA CheckOutputInv ==
    ASSUME Typed, SyncInv, NEW o \in Txs, CheckWatchedOutput(o)
    PROVE  SyncInv'
  <1> DEFINE p == [pass EXCEPT !.outs = pass.outs \ {o}]
  <1>1. /\ pc = "confirmed"
        /\ \/ Skip(p) /\ UNCHANGED <<fetched, faults>>
           \/ Restart(pass.tip)
           \/ (\E t \in Spender(o) :
                 /\ pc' = "proof" /\ UNCHANGED <<fetched, faults>>
                 /\ pass' = [p EXCEPT !.cur = [tx |-> t, block |-> BlockOf(t, tip)]])
           \/ Fail
    BY DEF CheckWatchedOutput
  <1>2. p \in PassRec(pass.found) /\ p.tip = pass.tip /\ p.found = pass.found
    BY DEF Typed, PassType, PassRec
  <1> HIDE DEF p
  <1>3. CASE Fail
    BY <1>3, AbortInv
  <1>4. CASE Restart(pass.tip)
    BY <1>1, <1>4, RestartInv DEF Active
  <1>5. CASE ~Fail /\ ~Restart(pass.tip)
    <2>1. /\ UNCHANGED <<tip, stored, lis, st>> /\ pc' \in {"confirmed", "proof"}
          /\ pass'.tip = pass.tip /\ pass'.found = pass.found
      BY <1>1, <1>2, <1>5 DEF Skip, fetched, handler, net, PassRec
    <2>2. FoundInv'
      BY <1>1, <2>1 DEF SyncInv, FoundInv, BlockOf
    <2> QED
      BY <1>1, <2>1, <2>2, LocalInv
  <1> QED
    BY <1>3, <1>4, <1>5

\* Every question of sync() to Esplora keeps the invariant.
LEMMA AskInv ==
    ASSUME Typed, SyncInv,
           \/ GetSpenderProof \/ GetHeight
           \/ (\E t \in Txs : CheckRelevant(t) \/ CheckWatchedTx(t) \/ CheckWatchedOutput(t))
    PROVE  SyncInv'
  <1>0. pass \in PassRec(pass.found) /\ tip \in Blocks
    BY DEF Typed, TypeOK, PassType
  <1>1. ASSUME NEW t \in Txs, CheckWatchedTx(t) PROVE SyncInv'
    <2> DEFINE p == [pass EXCEPT !.todo = pass.todo \ {t}]
    <2>1. pc = "confirmed" /\ (ProofOf(p, t) \/ NoProofOf(p, t))
      BY <1>1 DEF CheckWatchedTx
    <2>2. p \in PassRec(pass.found) /\ p.tip = pass.tip /\ p.found = pass.found
      BY <1>0 DEF PassRec
    <2> HIDE DEF p
    <2> QED
      BY <2>1, <2>2, QueryInv
  <1>2. CASE GetSpenderProof
    <2>1. /\ pc = "proof" /\ pass.cur.tx \in Txs /\ pass.cur.block \in Blocks \cup {None}
      BY <1>0, <1>2 DEF GetSpenderProof, Typed, PassType, PassRec
    <2>2. \/ ProofOf(pass, pass.cur.tx) \/ NoProofOf(pass, pass.cur.tx)
          \/ Restart(pass.tip)
          \/ /\ pass.cur.block # None /\ BlockOf(pass.cur.tx, tip) = pass.cur.block
             /\ Keep(pass, pass.cur.tx, pass.cur.block) /\ UNCHANGED fetched
      BY <1>2 DEF GetSpenderProof
    <2> QED
      BY <1>0, <2>1, <2>2, QueryInv, KeepInv, RestartInv DEF Active
  <1>3. CASE GetHeight
    <2>1. pc = "height" /\ pass.cur.tx \in Txs /\ pass.cur.block \in Blocks
      BY <1>3 DEF GetHeight, Typed, PassType, Found
    <2>2. \/ Keep(pass, pass.cur.tx, pass.cur.block) /\ UNCHANGED fetched
          \/ Restart(pass.tip) \/ Fail
      BY <1>3 DEF GetHeight
    <2>3. tip = pass.tip => pass.cur.block = BlockOf(pass.cur.tx, tip)
      BY <2>1 DEF SyncInv, FoundInv
    <2> QED
      BY <2>1, <2>2, <2>3, KeepInv, RestartInv, AbortInv DEF Active
  <1> QED
    BY <1>1, <1>2, <1>3, CheckRelevantInv, CheckOutputInv

\* What was found, and the tip, are told: the listeners agree with the chain of the pass.
LEMMA TellConfirmedInv == ASSUME Typed, SyncInv, TellConfirmed PROVE SyncInv'
  <1>1. CASE Fail
    BY <1>1, AbortInv
  <1>2. CASE Restart(tip)
    BY <1>2, RestartInv DEF TellConfirmed, Active, Fail, Abort
  <1>3. CASE ~Fail /\ ~Restart(tip)
    <2>1. /\ pc = "confirmed" /\ pc' = "head" /\ tip = pass.tip
          /\ lis' = Connect(lis, pass.found) /\ lis \in Listeners /\ pass.found \in SUBSET Found
          /\ st' = [Confirm(st, pass.found) EXCEPT !.last = pass.tip, !.pending = FALSE]
          /\ pass' = [pass EXCEPT !.found = {}] /\ UNCHANGED <<tip, stored>>
      BY <1>3, TellConfirmedFacts
    <2>2. pass'.tip = pass.tip /\ pass.tip \in Blocks /\ tip \in Blocks
      BY <2>1 DEF Typed, TypeOK, PassType, PassRec
    <2>3. st'.last = pass.tip
      <3>1. st \in [txs : SUBSET Txs, outs : SUBSET Txs, spends : SUBSET Spend,
                    last : Blocks \cup {None}, pending : BOOLEAN]
        BY DEF Typed, TypeOK
      <3> QED
        BY <2>1, <3>1, ConfirmType
    <2>4. Known(lis, tip) /\ \A c \in pass.found : c.block = BlockOf(c.tx, tip)
      BY <2>1 DEF SyncInv, KnownInv, FoundInv
    <2>5. /\ lis'.best = lis.best
          /\ \A t \in Txs : \/ lis'.conf[t] = lis.conf[t]
                            \/ lis'.conf[t] = BlockOf(t, tip) /\ lis'.conf[t] \in Blocks
      BY <2>1, <2>4, ConnectType DEF Found
    <2>6. \A t \in Txs : \/ lis'.conf[t] = lis.conf[t]
                         \/ t \in TxsIn[lis'.conf[t]] /\ lis'.conf[t] \in Chain[tip]
      BY <2>2, <2>5, BlockOfFacts
    <2>7. Known(lis, tip)'
      BY <2>1, <2>4, <2>6 DEF Known
    <2>8. Grounded(lis)'
      BY <2>1, <2>4, <2>5, <2>6 DEF SyncInv, ListenInv, Grounded, Known, Le
    <2>9. Grounded(stored)'
      BY <2>1 DEF SyncInv, ListenInv, Grounded, Le, Buried
    <2>10. TipInv' /\ KnownInv' /\ MissingInv' /\ FoundInv'
      BY <2>1, <2>2, <2>3, <2>7
      DEF SyncInv, TipInv, KnownInv, MissingInv, FoundInv, Active, Le, Known
    <2> QED
      BY <2>8, <2>9, <2>10 DEF SyncInv, ListenInv
  <1> QED
    BY <1>1, <1>2, <1>3

\* Every step keeps the invariant.
LEMMA StepInv == ASSUME Typed, SyncInv, [Next]_vars PROVE SyncInv'
  <1>1. CASE UNCHANGED vars
    BY <1>1 DEF vars, SyncInv, ListenInv, Grounded, Le, Buried, TipInv, KnownInv, Known,
       MissingInv, FoundInv, BlockOf, Active
  <1> QED
    BY <1>1, HandlerInv, MoveInv, GetTipInv, LoopHeadInv, TellUnconfirmedInv, TellBestInv,
       AskInv, TellConfirmedInv DEF Next, Alarm, Sync

\* The tips, the listeners and the answers of a pass keep to the chain they are about.
THEOREM Invariance == Spec => [](Typed /\ SyncInv)
  <1>1. Init => Typed /\ SyncInv
    BY InitType, InitInv
  <1>2. Typed /\ SyncInv /\ [Next]_vars => Typed' /\ SyncInv'
    BY StepType, StepInv
  <1> QED
    BY <1>1, <1>2, PTL DEF Spec

-----------------------------------------------------------------------------
(* What the listeners are told *)

\* Within a pass the listeners hear of transactions in two places only.
LEMMA WhoTells ==
    ASSUME Typed, [Next]_vars, InPass, NEW t \in Txs, lis'.conf[t] # lis.conf[t]
    PROVE  \/ TellUnconfirmed /\ ~Fail /\ ~Restart(tip)
           \/ TellConfirmed /\ ~Fail /\ ~Restart(tip)
  <1>1. lis' # lis
    OBVIOUS
  <1>2. lis' = lis \/ TellUnconfirmed \/ TellBest \/ TellConfirmed
    <2>1. CASE UNCHANGED vars
      BY <2>1 DEF vars
    <2>2. CASE Request \/ Crash \/ \E b \in Blocks : ChainMoves(b)
      BY <2>2 DEF Request, Crash, ChainMoves, EndOfHandler, InPass
    <2>3. CASE AlarmFires \/ Restore \/ DrainAndClaim \/ PersistSessionEnd \/ Reschedule
               \/ \E s \in Ours : Broadcast(s)
      BY <2>3 DEF AlarmFires, Restore, DrainAndClaim, PersistSessionEnd, Reschedule,
         Broadcast, EndOfHandler, InPass
    <2>4. CASE GetTip \/ LoopHead \/ GetSpenderProof \/ GetHeight
      BY <2>4 DEF GetTip, LoopHead, GetSpenderProof, GetHeight, Fail, Abort, Restart,
         ProofOf, NoProofOf, fetched
    <2>5. CASE \E s \in Txs : CheckRelevant(s) \/ CheckWatchedTx(s) \/ CheckWatchedOutput(s)
      BY <2>5 DEF CheckRelevant, CheckWatchedTx, CheckWatchedOutput, Fail, Abort, Restart,
         ProofOf, NoProofOf, fetched
    <2> QED
      BY <2>1, <2>2, <2>3, <2>4, <2>5 DEF Next, Alarm, Sync
  <1>3. ~TellBest
    <2> SUFFICES ASSUME TellBest PROVE lis'.conf = lis.conf
      OBVIOUS
    <2> QED
      BY DEF TellBest, Fail, Abort, Restart, Typed, TypeOK, Listeners
  <1> QED
    BY <1>1, <1>2, <1>3 DEF Fail, Abort, Restart

\* Nothing fetched before a move of the chain is told after it (esplora.rs:100, 157).
THEOREM ToldTrue == Spec => ToldIsCurrent
  <1> DEFINE P == \A t \in Txs : lis'.conf[t] # lis.conf[t] =>
                    tip = pass.tip /\ lis'.conf[t] \in {None, BlockOf(t, tip)}
  <1>1. ASSUME Typed, SyncInv, [Next]_vars, InPass PROVE P
    <2> SUFFICES ASSUME NEW t \in Txs, lis'.conf[t] # lis.conf[t]
                 PROVE  tip = pass.tip /\ lis'.conf[t] \in {None, BlockOf(t, tip)}
      OBVIOUS
    <2>1. CASE TellUnconfirmed /\ ~Fail /\ ~Restart(tip)
      BY <1>1, <2>1, TellUnconfirmedFacts
    <2>2. CASE TellConfirmed /\ ~Fail /\ ~Restart(tip)
      <3>1. /\ pc = "confirmed" /\ tip = pass.tip /\ lis' = Connect(lis, pass.found)
            /\ lis \in Listeners /\ pass.found \in SUBSET Found
        BY <1>1, <2>2, TellConfirmedFacts
      <3>2. \A c \in pass.found : c.block = BlockOf(c.tx, tip)
        BY <1>1, <3>1 DEF SyncInv, FoundInv
      <3> QED
        BY <3>1, <3>2, ConnectType
    <2> QED
      BY <1>1, <2>1, <2>2, WhoTells
  <1> QED
    BY <1>1, Invariance, PTL DEF Spec, ToldIsCurrent

(* A transaction reported in one block is reported unconfirmed before it is *)
(* reported in another (common.rs:28).                                      *)
UnconfirmedInBetween ==
  [][InPass => \A t \in Txs : lis.conf[t] # None /\ lis'.conf[t] # None =>
                                lis'.conf[t] = lis.conf[t]]_vars

\* A transaction is not reported in a second block before it was reported unconfirmed.
THEOREM NoDirectMove == Spec => UnconfirmedInBetween
  <1> DEFINE P == \A t \in Txs : lis.conf[t] # None /\ lis'.conf[t] # None =>
                                   lis'.conf[t] = lis.conf[t]
  <1>1. ASSUME Typed, SyncInv, [Next]_vars, InPass PROVE P
    <2> SUFFICES ASSUME NEW t \in Txs, lis.conf[t] # None, lis'.conf[t] # None,
                        lis'.conf[t] # lis.conf[t]
                 PROVE  FALSE
      OBVIOUS
    <2>1. CASE TellUnconfirmed /\ ~Fail /\ ~Restart(tip)
      BY <1>1, <2>1, TellUnconfirmedFacts
    <2>2. CASE TellConfirmed /\ ~Fail /\ ~Restart(tip)
      <3>1. /\ pc = "confirmed" /\ tip = pass.tip /\ lis' = Connect(lis, pass.found)
            /\ lis \in Listeners /\ pass.found \in SUBSET Found /\ tip \in Blocks
        BY <1>1, <2>2, TellConfirmedFacts DEF Typed, TypeOK
      <3>2. lis'.conf[t] = BlockOf(t, tip)
        BY <1>1, <3>1, ConnectType DEF SyncInv, FoundInv
      <3>3. lis'.conf[t] \in Chain[tip] /\ t \in TxsIn[lis'.conf[t]]
        BY <3>1, <3>2, BlockOfFacts
      <3>4. lis.conf[t] \in Chain[tip] /\ t \in TxsIn[lis.conf[t]]
        BY <1>1, <3>1 DEF SyncInv, KnownInv, Known, ListenInv, Grounded
      <3> QED
        BY <3>1, <3>3, <3>4, PastAssumption
    <2> QED
      BY <1>1, <2>1, <2>2, WhoTells
  <1> QED
    BY <1>1, Invariance, PTL DEF Spec, UnconfirmedInBetween
=============================================================================
