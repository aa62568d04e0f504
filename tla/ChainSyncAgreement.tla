-------------------------- MODULE ChainSyncAgreement --------------------------
(* What a pass of sync() achieves, for any tree of blocks and any transactions: *)
(* nothing the monitors asked for is forgotten, parents are told first, and a   *)
(* sync that ends without an error leaves the listeners in agreement with the   *)
(* chain it was about.                                                          *)
EXTENDS ChainSyncProofs, FiniteSetTheorems

USE ChainAssumption, BoundAssumption

-----------------------------------------------------------------------------
(* The order of a chain *)

\* Some number of a set is the least.
LEMMA Least ==
    ASSUME NEW S, S \subseteq Nat, S # {}
    PROVE  \E m \in S : \A n \in S : m <= n
  <1>1. \E m \in S : \A n \in S : ~ (<<n, m>> \in OpToRel(<, Nat))
    BY NatLessThanWellFounded, WFMin, Zenon
  <1>2. ASSUME NEW m \in Nat, NEW n \in Nat, n < m
        PROVE  <<n, m>> \in OpToRel(<, Nat)
    BY <1>2, Zenon DEF OpToRel
  <1>3. ASSUME NEW m \in S, \A n \in S : ~ (<<n, m>> \in OpToRel(<, Nat)), NEW n \in S
        PROVE  m <= n
    <2>1. m \in Nat /\ n \in Nat /\ ~(n < m)
      BY <1>2, <1>3, Zenon
    <2> QED
      BY <2>1
  <1> QED
    BY <1>1, <1>3, Zenon

\* A transaction is in one block of a chain.
LEMMA OneBlock ==
    ASSUME NEW t \in Txs, NEW b \in Blocks, NEW a \in Chain[b], t \in TxsIn[a]
    PROVE  BlockOf(t, b) = a /\ a # None
  <1>1. BlockOf(t, b) \in Chain[b] /\ t \in TxsIn[BlockOf(t, b)]
    BY DEF BlockOf
  <1>2. a \in Blocks
    OBVIOUS
  <1> QED
    BY <1>1, <1>2, PastAssumption

\* A chain spends an output once.
LEMMA OneSpender ==
    ASSUME NEW b \in Blocks, NEW t \in Txs \ {Funding}, NEW u \in Txs \ {Funding},
           Spends[t] = Spends[u], BlockOf(t, b) # None, BlockOf(u, b) # None
    PROVE  t = u
  <1>1. /\ BlockOf(t, b) \in Chain[b] /\ t \in TxsIn[BlockOf(t, b)]
        /\ BlockOf(u, b) \in Chain[b] /\ u \in TxsIn[BlockOf(u, b)]
    BY BlockOfFacts
  <1> QED
    BY <1>1, OrderAssumption

\* A chain holds the transaction that another one of it spends, and holds it earlier.
LEMMA ParentInChain ==
    ASSUME NEW b \in Blocks, NEW t \in Txs \ {Funding}, BlockOf(t, b) # None
    PROVE  /\ BlockOf(Spends[t], b) # None
           /\ \/ Height[BlockOf(Spends[t], b)] < Height[BlockOf(t, b)]
              \/ /\ Height[BlockOf(Spends[t], b)] = Height[BlockOf(t, b)]
                 /\ Pos[Spends[t]] < Pos[t]
  <1> DEFINE x == BlockOf(t, b)
  <1>1. x \in Chain[b] /\ t \in TxsIn[x] /\ x \in Blocks /\ Spends[t] \in Txs
    BY BlockOfFacts
  <1> HIDE DEF x
  <1>2. PICK a \in Chain[x] : /\ Spends[t] \in TxsIn[a]
                              /\ Height[a] < Height[x] \/ (a = x /\ Pos[Spends[t]] < Pos[t])
    BY <1>1, OrderAssumption
  <1>3. a \in Chain[b]
    BY <1>1, PastAssumption
  <1>4. BlockOf(Spends[t], b) = a /\ a # None
    BY <1>1, <1>2, <1>3, OneBlock
  <1> QED
    BY <1>2, <1>4 DEF x

-----------------------------------------------------------------------------
(* The order of what was found *)

\* What was found, sorted, has every parent before its child.
LEMMA SortedFacts ==
    ASSUME NEW fs \in SUBSET Found, NEW b \in Blocks, NEW q \in Sorted(fs),
           \A c \in fs : c.block = BlockOf(c.tx, b),
           NEW i \in DOMAIN q, NEW j \in DOMAIN q,
           q[j].tx # Funding, Spends[q[j].tx] = q[i].tx
    PROVE  i < j
  <1>1. /\ DOMAIN q = 1..Cardinality(fs) /\ \A k \in DOMAIN q : q[k] \in fs
        /\ \A k, l \in DOMAIN q : k < l => ~Before(q[l], q[k])
    BY DEF Sorted, SetToSeqs
  <1>2. /\ q[i] \in Found /\ q[j] \in Found
        /\ q[i].block = BlockOf(q[i].tx, b) /\ q[j].block = BlockOf(q[j].tx, b)
    BY <1>1
  <1>3. /\ q[j].tx \in Txs \ {Funding} /\ q[j].block # None /\ q[i].tx = Spends[q[j].tx]
        /\ q[i].block \in Blocks /\ q[j].block \in Blocks
    BY <1>2 DEF Found
  <1>4. Before(q[i], q[j])
    BY <1>2, <1>3, ParentInChain DEF Before
  <1>5. i # j
    <2>1. Height[q[j].block] \in Nat /\ Pos[q[j].tx] \in Nat
      BY <1>3
    <2> QED
      BY <1>4, <2>1 DEF Before
  <1>6. ~(j < i)
    BY <1>1, <1>4
  <1>7. i \in Int /\ j \in Int
    BY <1>1
  <1> QED
    BY <1>5, <1>6, <1>7

\* Sorting loses nothing of what was found.
LEMMA SortedAll ==
    ASSUME NEW fs, IsFiniteSet(fs), NEW q \in Sorted(fs)
    PROVE  /\ DOMAIN q = 1..Cardinality(fs)
           /\ \A i \in DOMAIN q : q[i] \in fs
           /\ \A c \in fs : \E i \in DOMAIN q : q[i] = c
  <1> DEFINE D == 1..Cardinality(fs)
  <1>1. q \in [D -> fs] /\ \A i, j \in D : i # j => q[i] # q[j]
    BY DEF Sorted, SetToSeqs
  <1>2. Cardinality(fs) \in Nat
    BY FS_CardinalityType
  <1>3. IsFiniteSet(D) /\ Cardinality(D) = Cardinality(fs)
    BY <1>2, FS_Interval
  <1> HIDE DEF D
  <1>4. q \in Injection(D, fs)
    BY <1>1 DEF Injection, IsInjective
  <1>5. q \in Surjection(D, fs)
    BY <1>3, <1>4, FS_Injection
  <1>6. \A c \in fs : \E i \in D : q[i] = c
    BY <1>5 DEF Surjection
  <1> QED
    BY <1>1, <1>6 DEF D

-----------------------------------------------------------------------------
(* No output unattended *)

(* Only confirmations that are not buried are taken back. *)
RelevantInv == pc = "unconfirmed" => pass.todo \cup pass.found \subseteq Relevant(lis)

Asking == pc \in {"confirmed", "proof", "height"}

(* The best block of the listeners is one before the tip of the pass, until it is told. *)
BestInv ==
  /\ Active => Le(lis.best, pass.tip)
  /\ Asking \/ (Active /\ st.last = pass.tip) => lis.best = pass.tip

(* A spend is remembered while the listeners have it confirmed, at that height. *)
SpendInv ==
  \A sp \in st.spends :
    /\ sp.tx # Funding /\ Spends[sp.tx] = sp.out
    /\ lis.conf[sp.tx] # None /\ sp.height = Height[lis.conf[sp.tx]]

AttendInv == RelevantInv /\ BestInv /\ SpendInv /\ NoOutputUnattended

Working == pc \notin {"idle", "restore", "reschedule"}

\* A step at which the listeners learn nothing and nothing is dropped.
LEMMA AttendQuiet ==
    ASSUME AttendInv, lis' = lis, st'.spends = st.spends,
           st.outs \cup filter.outs \subseteq st'.outs \cup filter'.outs,
           Working' => Working, RelevantInv', BestInv'
    PROVE  AttendInv'
  <1>1. SpendInv'
    BY DEF AttendInv, SpendInv
  <1>2. NoOutputUnattended'
    BY DEF AttendInv, NoOutputUnattended, Working, Buried, Spenders
  <1> QED
    BY <1>1, <1>2 DEF AttendInv

\* An error of sync() drops nothing.
LEMMA AttendAbort == ASSUME Typed, AttendInv, Abort(st) \/ Fail, Working PROVE AttendInv'
  <1>1. /\ pc' = "failed" /\ UNCHANGED <<lis, filter>>
        /\ st'.spends = st.spends /\ st'.outs = st.outs
    BY DEF Abort, Fail, Typed, TypeOK
  <1>2. RelevantInv' /\ BestInv'
    BY <1>1 DEF RelevantInv, BestInv, Active, Asking
  <1> QED
    BY <1>1, <1>2, AttendQuiet

\* A further round drops nothing.
LEMMA AttendRestart ==
    ASSUME Typed, SyncInv, AttendInv, Active, NEW hash \in {tip, pass.tip}, Restart(hash)
    PROVE  AttendInv'
  <1>1. /\ UNCHANGED <<lis, filter>> /\ pc' = "head" /\ pass'.tip = hash
        /\ st'.spends = st.spends /\ st'.outs = st.outs /\ st'.last = st.last
    BY DEF Restart, Typed, TypeOK, PassType, PassRec
  <1>2. /\ tip \in Blocks /\ pass.tip \in Blocks /\ lis.best \in Blocks
        /\ st.last \in Blocks \cup {None}
        /\ Le(pass.tip, tip) /\ Le(lis.best, pass.tip)
        /\ (st.last # None => Le(st.last, pass.tip))
    BY DEF Active, Typed, TypeOK, PassType, Listeners, SyncInv, TipInv, AttendInv, BestInv
  <1>3. Le(lis.best, hash)
    BY <1>2, LeFacts
  <1>4. st.last = hash => lis.best = hash
    <2>1. CASE hash = pass.tip
      BY <2>1 DEF AttendInv, BestInv
    <2>2. CASE hash = tip /\ tip # pass.tip
      BY <1>2, <2>2, LeFacts
    <2> QED
      BY <2>1, <2>2
  <1>5. RelevantInv' /\ BestInv'
    BY <1>1, <1>3, <1>4 DEF RelevantInv, BestInv, Active, Asking, Le
  <1>6. Working
    BY DEF Active, Working
  <1> QED
    BY <1>1, <1>5, <1>6, AttendQuiet

\* What happens around sync() drops nothing; a restored node asks for everything again.
LEMMA AttendHandler ==
    ASSUME Typed, SyncInv, AttendInv,
           \/ Request \/ Crash \/ AlarmFires \/ Restore \/ DrainAndClaim \/ PersistSessionEnd
           \/ Reschedule \/ (\E b \in Blocks : ChainMoves(b)) \/ (\E t \in Ours : Broadcast(t))
    PROVE  AttendInv'
  <1>1. CASE Request \/ (\E b \in Blocks : ChainMoves(b)) \/ (\E t \in Ours : Broadcast(t))
    <2>1. UNCHANGED <<lis, filter, st, pc, pass>>
      BY <1>1 DEF Request, ChainMoves, Broadcast
    <2>2. RelevantInv' /\ BestInv'
      BY <2>1 DEF AttendInv, RelevantInv, Relevant, Buried, BestInv, Active, Asking, Le
    <2> QED
      BY <2>1, <2>2, AttendQuiet DEF Working
  <1>2. CASE Crash \/ Reschedule
    <2>1. pc' = "idle" /\ st' = NewSyncState
      BY <1>2 DEF Crash, Reschedule, EndOfHandler
    <2> QED
      BY <2>1 DEF AttendInv, RelevantInv, BestInv, SpendInv, NoOutputUnattended, Active, Asking,
         NewSyncState
  <1>3. CASE AlarmFires \/ PersistSessionEnd \/ DrainAndClaim
    <2>1. /\ UNCHANGED <<lis, filter, st>> /\ pc' \in {"restore", "reschedule", "flush"}
          /\ pc' = "flush" => pc = "drain"
      BY <1>3 DEF AlarmFires, PersistSessionEnd, DrainAndClaim
    <2>2. RelevantInv' /\ BestInv'
      BY <2>1 DEF RelevantInv, BestInv, Active, Asking
    <2> QED
      BY <2>1, <2>2, AttendQuiet DEF Working
  <1>4. CASE Restore
    <2>1. CASE pc' = "reschedule"
      <3>1. UNCHANGED <<lis, filter, st>>
        BY <1>4, <2>1 DEF Restore
      <3>2. RelevantInv' /\ BestInv'
        BY <2>1 DEF RelevantInv, BestInv, Active, Asking
      <3> QED
        BY <2>1, <3>1, <3>2, AttendQuiet DEF Working
    <2>2. CASE pc' # "reschedule"
      <3>1. lis' = stored /\ filter' = Registered(stored) /\ st' = NewSyncState /\ pc' = "tip"
        BY <1>4, <2>2 DEF Restore
      <3>2. filter'.outs = lis'.outs
        BY <3>1 DEF Registered, Register
      <3> QED
        BY <3>1, <3>2 DEF AttendInv, RelevantInv, BestInv, SpendInv, NoOutputUnattended, Active,
           Asking, NewSyncState
    <2> QED
      BY <2>1, <2>2
  <1> QED
    BY <1>1, <1>2, <1>3, <1>4

\* The tip of a pass is no older than the best block of the listeners.
LEMMA AttendGetTip == ASSUME Typed, SyncInv, AttendInv, GetTip PROVE AttendInv'
  <1>1. pc = "tip" /\ Working
    BY DEF GetTip, Working
  <1>2. CASE Abort(st)
    BY <1>1, <1>2, AttendAbort
  <1>3. CASE ~Abort(st)
    <2>1. /\ pass' = [NoPass EXCEPT !.tip = tip] /\ pc' = "head"
          /\ UNCHANGED <<lis, filter, st>>
      BY <1>3 DEF GetTip
    <2>2. pass'.tip = tip /\ st.last = None /\ tip # None /\ Le(lis.best, tip)
      BY <1>1, <2>1 DEF NoPass, SyncInv, TipInv, ListenInv, Grounded, Typed, TypeOK
    <2>3. RelevantInv' /\ BestInv'
      BY <2>1, <2>2 DEF RelevantInv, BestInv, Active, Asking, Le
    <2> QED
      BY <1>1, <2>1, <2>3, AttendQuiet
  <1> QED
    BY <1>2, <1>3

\* What was registered moves from the queue to SyncState.
LEMMA AttendLoopHead == ASSUME Typed, SyncInv, AttendInv, LoopHead PROVE AttendInv'
  <1>0. pc = "head" /\ lis' = lis /\ Working /\ Active
    BY DEF LoopHead, Working, Active
  <1>1. CASE GiveUp
    <2>1. /\ pc' = "failed" /\ UNCHANGED filter
          /\ st'.spends = st.spends /\ st'.outs = st.outs
      BY <1>1 DEF LoopHead, Typed, TypeOK
    <2>2. RelevantInv' /\ BestInv'
      BY <2>1 DEF RelevantInv, BestInv, Active, Asking
    <2> QED
      BY <1>0, <2>1, <2>2, AttendQuiet
  <1>2. CASE ~GiveUp
    <2>1. /\ st' = ProcessQueues(st, filter)
          /\ \/ pc' = "drain"
             \/ /\ pc' = "unconfirmed" /\ st.last # pass.tip
                /\ pass' = [pass EXCEPT !.iter = pass.iter + 1, !.todo = Relevant(lis)]
             \/ /\ pc' = "confirmed" /\ st.last = pass.tip
                /\ pass' = [pass EXCEPT !.iter = pass.iter + 1, !.todo = st'.txs,
                                        !.outs = st'.outs]
      BY <1>2 DEF LoopHead
    <2>2. st'.last = st.last /\ st'.spends = st.spends /\ st'.outs = st.outs \cup filter.outs
      BY <2>1 DEF ProcessQueues, Typed, TypeOK
    <2>3. pc' # "drain" => pass'.tip = pass.tip /\ pass'.found = {}
      BY <1>0, <2>1 DEF Typed, PassType, PassRec
    <2>4. pc' = "unconfirmed" => pass'.todo = Relevant(lis)
      BY <2>1 DEF Typed, PassType, PassRec
    <2>5. RelevantInv'
      BY <1>0, <2>1, <2>3, <2>4 DEF RelevantInv, Relevant, Buried
    <2>6. BestInv'
      BY <1>0, <2>1, <2>2, <2>3 DEF AttendInv, BestInv, Active, Asking, Le
    <2> QED
      BY <1>0, <2>2, <2>5, <2>6, AttendQuiet
  <1> QED
    BY <1>1, <1>2

\* What TellUnconfirmed leaves in SyncState.
LEMMA UnconfirmFacts ==
    ASSUME Typed, TellUnconfirmed, ~Fail, ~Restart(tip)
    PROVE  /\ st'.txs = st.txs \cup pass.found
           /\ st'.outs = st.outs \cup {sp.out : sp \in {x \in st.spends : x.tx \in pass.found}}
           /\ st'.spends = {sp \in st.spends : sp.tx \notin pass.found}
           /\ UNCHANGED filter /\ lis'.outs = lis.outs
  <1>1. /\ st' = Unconfirm(st, pass.found) /\ lis' = Disconnect(lis, pass.found)
        /\ UNCHANGED filter
    BY DEF TellUnconfirmed
  <1>2. lis'.outs = lis.outs
    BY <1>1 DEF Disconnect, Typed, TypeOK, Listeners
  <1> QED
    BY <1>1, <1>2 DEF Unconfirm, Typed, TypeOK

\* What is told unconfirmed is watched again; what is buried is not among it.
LEMMA AttendUnconfirmed == ASSUME Typed, SyncInv, AttendInv, TellUnconfirmed PROVE AttendInv'
  <1>0. pc = "unconfirmed" /\ Working /\ Active
    BY DEF TellUnconfirmed, Working, Active
  <1>1. CASE Fail
    BY <1>0, <1>1, AttendAbort
  <1>2. CASE Restart(tip)
    BY <1>0, <1>2, AttendRestart
  <1>3. CASE ~Fail /\ ~Restart(tip)
    <2>1. /\ pc' = "best" /\ pass'.tip = pass.tip /\ lis'.best = lis.best /\ st'.last = st.last
          /\ \A t \in Txs : lis'.conf[t] = IF t \in pass.found THEN None ELSE lis.conf[t]
      BY <1>3, TellUnconfirmedFacts
    <2>2. /\ st'.outs = st.outs \cup {sp.out : sp \in {x \in st.spends : x.tx \in pass.found}}
          /\ st'.spends = {sp \in st.spends : sp.tx \notin pass.found}
          /\ UNCHANGED filter /\ lis'.outs = lis.outs
      BY <1>3, UnconfirmFacts
    <2>3. \A sp \in st.spends : sp.tx \in Txs
      BY DEF Typed, TypeOK, Spend
    <2>4. RelevantInv' /\ BestInv'
      BY <1>0, <2>1 DEF AttendInv, RelevantInv, BestInv, SyncInv, TipInv, Active, Asking, Le
    <2>5. SpendInv'
      BY <2>1, <2>2, <2>3 DEF AttendInv, SpendInv
    <2>6. NoOutputUnattended'
      <3> SUFFICES ASSUME NEW o \in lis.outs
                   PROVE  \/ o \in filter'.outs \cup st'.outs
                          \/ \E sp \in st'.spends : sp.out = o /\ lis'.conf[sp.tx] # None
                          \/ \E t \in Spenders(o) : /\ lis'.conf[t] # None
                                                    /\ Buried(lis'.conf[t], lis'.best)
        BY <2>2 DEF NoOutputUnattended, Spenders, Buried
      <3>1. \/ o \in filter.outs \cup st.outs
            \/ \E sp \in st.spends : sp.out = o /\ lis.conf[sp.tx] # None
            \/ \E t \in Spenders(o) : lis.conf[t] # None /\ Buried(lis.conf[t], lis.best)
        BY <1>0 DEF AttendInv, NoOutputUnattended
      <3>2. CASE o \in filter.outs \cup st.outs
        BY <2>2, <3>2
      <3>3. ASSUME NEW sp \in st.spends, sp.out = o, lis.conf[sp.tx] # None
            PROVE  o \in st'.outs \/ (sp \in st'.spends /\ lis'.conf[sp.tx] # None)
        BY <2>1, <2>2, <2>3, <3>3
      <3>4. ASSUME NEW t \in Spenders(o), lis.conf[t] # None, Buried(lis.conf[t], lis.best)
            PROVE  lis'.conf[t] # None /\ Buried(lis'.conf[t], lis'.best)
        <4>1. t \in Txs /\ t \notin pass.found
          BY <1>0, <3>4 DEF Spenders, AttendInv, RelevantInv, Relevant
        <4> QED
          BY <2>1, <3>4, <4>1
      <3> QED
        BY <3>1, <3>2, <3>3, <3>4
    <2> QED
      BY <2>4, <2>5, <2>6 DEF AttendInv
  <1> QED
    BY <1>1, <1>2, <1>3

\* What TellBest does, unless it restarts or fails.
LEMMA TellBestFacts ==
    ASSUME Typed, TellBest, ~Fail, ~Restart(pass.tip)
    PROVE  /\ pc = "best" /\ pc' = "confirmed" /\ UNCHANGED <<tip, stored, filter>>
           /\ lis'.conf = lis.conf /\ lis'.outs = lis.outs /\ lis'.best = pass.tip
           /\ st'.txs = st.txs /\ st'.outs = st.outs /\ st'.last = st.last
           /\ st'.spends = {sp \in st.spends :
                              Height[pass.tip] < sp.height + AntiReorgDelay - 1}
           /\ pass'.tip = pass.tip /\ pass'.todo = st.txs /\ pass'.outs = st.outs
           /\ pass'.found = {} /\ pass'.missed = pass.missed /\ pass.tip \in Blocks
  <1>1. /\ pc = "best" /\ pc' = "confirmed" /\ UNCHANGED <<tip, stored, filter>>
        /\ lis' = [lis EXCEPT !.best = pass.tip] /\ st' = Prune(st, Height[pass.tip])
        /\ pass' = [pass EXCEPT !.todo = st.txs, !.outs = st.outs]
    BY DEF TellBest, handler, net
  <1>2. lis'.conf = lis.conf /\ lis'.outs = lis.outs /\ lis'.best = pass.tip
    BY <1>1 DEF Typed, TypeOK, Listeners
  <1>3. /\ st'.txs = st.txs /\ st'.outs = st.outs /\ st'.last = st.last
        /\ st'.spends = {sp \in st.spends : Height[pass.tip] < sp.height + AntiReorgDelay - 1}
    BY <1>1 DEF Prune, Typed, TypeOK
  <1>4. /\ pass'.tip = pass.tip /\ pass'.todo = st.txs /\ pass'.outs = st.outs
        /\ pass'.found = {} /\ pass'.missed = pass.missed /\ pass.tip \in Blocks
    BY <1>1 DEF Typed, PassType, PassRec
  <1> QED
    BY <1>1, <1>2, <1>3, <1>4

\* A spend is forgotten when it is buried under the new best block.
LEMMA AttendBest == ASSUME Typed, SyncInv, AttendInv, TellBest PROVE AttendInv'
  <1>0. pc = "best" /\ Working /\ Active
    BY DEF TellBest, Working, Active
  <1>1. CASE Fail
    BY <1>0, <1>1, AttendAbort
  <1>2. CASE Restart(pass.tip)
    BY <1>0, <1>2, AttendRestart
  <1>3. CASE ~Fail /\ ~Restart(pass.tip)
    <2>1. /\ pc' = "confirmed" /\ UNCHANGED filter
          /\ lis'.conf = lis.conf /\ lis'.outs = lis.outs /\ lis'.best = pass.tip
          /\ st'.outs = st.outs /\ pass'.tip = pass.tip /\ pass.tip \in Blocks
          /\ st'.spends = {sp \in st.spends : Height[pass.tip] < sp.height + AntiReorgDelay - 1}
      BY <1>3, TellBestFacts
    <2>2. RelevantInv' /\ BestInv'
      BY <2>1 DEF RelevantInv, BestInv, Active, Asking, Le
    <2>3. SpendInv'
      BY <2>1 DEF AttendInv, SpendInv
    <2>4. Height[lis.best] <= Height[pass.tip] /\ lis.best \in Blocks
      <3>1. lis.best \in Blocks /\ Le(lis.best, pass.tip)
        BY <1>0 DEF AttendInv, BestInv, Typed, TypeOK, Listeners
      <3> QED
        BY <2>1, <3>1, LeFacts
    <2>5. ASSUME NEW sp \in st.spends
          PROVE  /\ sp.tx \in Spenders(sp.out) /\ lis.conf[sp.tx] \in Blocks
                 /\ sp.height = Height[lis.conf[sp.tx]]
      <3>1. sp.tx \in Txs
        BY DEF Typed, TypeOK, Spend
      <3> QED
        BY <3>1 DEF AttendInv, SpendInv, Spenders, Typed, TypeOK, Listeners
    <2>6. NoOutputUnattended'
      <3> SUFFICES ASSUME NEW o \in lis.outs
                   PROVE  \/ o \in filter.outs \cup st.outs
                          \/ \E sp \in st'.spends : sp.out = o /\ lis.conf[sp.tx] # None
                          \/ \E t \in Spenders(o) : /\ lis.conf[t] # None
                                                    /\ Buried(lis.conf[t], pass.tip)
        BY <2>1 DEF NoOutputUnattended, Spenders, Buried
      <3>1. \/ o \in filter.outs \cup st.outs
            \/ \E sp \in st.spends : sp.out = o /\ lis.conf[sp.tx] # None
            \/ \E t \in Spenders(o) : lis.conf[t] # None /\ Buried(lis.conf[t], lis.best)
        BY <1>0 DEF AttendInv, NoOutputUnattended
      <3>2. ASSUME NEW sp \in st.spends, sp.out = o, lis.conf[sp.tx] # None
            PROVE  sp \in st'.spends \/ Buried(lis.conf[sp.tx], pass.tip)
        <4>1. Height[lis.conf[sp.tx]] \in Nat /\ Height[pass.tip] \in Nat
          BY <2>1, <2>5
        <4> QED
          BY <2>1, <2>5, <4>1 DEF Buried
      <3>3. ASSUME NEW t \in Spenders(o), lis.conf[t] # None, Buried(lis.conf[t], lis.best)
            PROVE  Buried(lis.conf[t], pass.tip)
        <4>1. lis.conf[t] \in Blocks
          BY <3>3 DEF Spenders, Typed, TypeOK, Listeners
        <4> QED
          BY <2>1, <2>4, <3>3, <4>1 DEF Buried
      <3> QED
        BY <2>5, <3>1, <3>2, <3>3
    <2> QED
      BY <2>2, <2>3, <2>6 DEF AttendInv
  <1> QED
    BY <1>1, <1>2, <1>3

\* What is found is confirmed with the listeners, and nothing else changes for them.
LEMMA ConnectFacts ==
    ASSUME NEW l \in Listeners, NEW fs \in SUBSET Found
    PROVE  /\ \A c \in fs : Connect(l, fs).conf[c.tx] # None
           /\ Connect(l, fs).outs = l.outs \cup Claimable({c.tx : c \in fs})
  <1> DEFINE new == [t \in Txs |-> IF \E c \in fs : c.tx = t
                                   THEN (CHOOSE c \in fs : c.tx = t).block ELSE l.conf[t]]
             more == Claimable({c.tx : c \in fs})
  <1>1. ASSUME NEW c \in fs PROVE new[c.tx] # None
    <2>1. c.tx \in Txs /\ \E d \in fs : d.tx = c.tx
      BY DEF Found
    <2>2. (CHOOSE d \in fs : d.tx = c.tx) \in fs
      BY <2>1
    <2>3. (CHOOSE d \in fs : d.tx = c.tx).block \in Blocks
      BY <2>2 DEF Found
    <2> QED
      BY <2>1, <2>3
  <1>2. Connect(l, fs) = [l EXCEPT !.conf = new, !.outs = l.outs \cup more]
    BY DEF Connect
  <1> HIDE DEF new, more
  <1>3. Connect(l, fs).conf = new /\ Connect(l, fs).outs = l.outs \cup more
    BY <1>2 DEF Listeners
  <1> QED
    BY <1>1, <1>3 DEF more

\* A watched output that what was found spends is remembered with its spend.
LEMMA ConfirmFacts ==
    ASSUME NEW s \in [txs : SUBSET Txs, outs : SUBSET Txs, spends : SUBSET Spend,
                      last : Blocks \cup {None}, pending : BOOLEAN],
           NEW fs \in SUBSET Found
    PROVE  /\ Confirm(s, fs).txs = s.txs \ {c.tx : c \in fs}
           /\ s.spends \subseteq Confirm(s, fs).spends
           /\ \A sp \in Confirm(s, fs).spends :
                \/ sp \in s.spends
                \/ \E c \in fs : /\ c.tx # Funding /\ sp.tx = c.tx /\ sp.height = Height[c.block]
                                 /\ sp.out = Spends[c.tx]
           /\ \A o \in s.outs : \/ o \in Confirm(s, fs).outs
                                \/ \E sp \in Confirm(s, fs).spends :
                                     sp.out = o /\ \E c \in fs : sp.tx = c.tx
  <1> DEFINE spent == {[tx |-> c.tx, height |-> Height[c.block], out |-> Spends[c.tx]] :
                        c \in {x \in fs : x.tx # Funding /\ Spends[x.tx] \in s.outs}}
  <1>1. \A sp \in spent : \E c \in fs : /\ c.tx # Funding /\ sp.tx = c.tx
                                        /\ sp.height = Height[c.block] /\ sp.out = Spends[c.tx]
    OBVIOUS
  <1>2. Confirm(s, fs) = [s EXCEPT !.txs = s.txs \ {c.tx : c \in fs},
                                   !.outs = s.outs \ {sp.out : sp \in spent},
                                   !.spends = s.spends \cup spent]
    BY DEF Confirm
  <1> HIDE DEF spent
  <1>3. /\ Confirm(s, fs).txs = s.txs \ {c.tx : c \in fs}
        /\ Confirm(s, fs).outs = s.outs \ {sp.out : sp \in spent}
        /\ Confirm(s, fs).spends = s.spends \cup spent
    BY <1>2
  <1> QED
    BY <1>1, <1>3

\* What TellConfirmed does to what is watched, unless it restarts or fails.
LEMMA TellConfirmedEffect ==
    ASSUME Typed, SyncInv, TellConfirmed, ~Fail, ~Restart(tip)
    PROVE  /\ \A t \in Txs : \/ lis.conf[t] # None /\ lis'.conf[t] = lis.conf[t]
                             \/ lis.conf[t] = None /\ lis'.conf[t] \in {None, BlockOf(t, tip)}
           /\ \A c \in pass.found : /\ c.tx \in Txs /\ lis'.conf[c.tx] # None
                                    /\ lis'.conf[c.tx] = c.block
           /\ lis'.outs = lis.outs \cup Claimable({c.tx : c \in pass.found})
           /\ lis'.best = lis.best
           /\ filter'.txs = filter.txs /\ filter'.outs = filter.outs \cup (lis'.outs \ lis.outs)
           /\ st'.txs = st.txs \ {c.tx : c \in pass.found}
           /\ st.spends \subseteq st'.spends
           /\ \A sp \in st'.spends :
                \/ sp \in st.spends
                \/ \E c \in pass.found : /\ c.tx # Funding /\ sp.tx = c.tx
                                         /\ sp.height = Height[c.block] /\ sp.out = Spends[c.tx]
           /\ \A o \in st.outs : \/ o \in st'.outs
                                 \/ \E sp \in st'.spends :
                                      sp.out = o /\ \E c \in pass.found : sp.tx = c.tx
           /\ st'.last = pass.tip /\ st'.pending = FALSE
           /\ pass'.tip = pass.tip /\ pass'.found = {} /\ pass'.missed = pass.missed
  <1>1. /\ pc = "confirmed" /\ tip = pass.tip /\ tip \in Blocks
        /\ lis' = Connect(lis, pass.found) /\ lis \in Listeners /\ pass.found \in SUBSET Found
        /\ st' = [Confirm(st, pass.found) EXCEPT !.last = pass.tip, !.pending = FALSE]
        /\ filter' = Register(filter, lis'.outs \ lis.outs)
        /\ pass' = [pass EXCEPT !.found = {}]
        /\ st \in [txs : SUBSET Txs, outs : SUBSET Txs, spends : SUBSET Spend,
                   last : Blocks \cup {None}, pending : BOOLEAN]
    BY TellConfirmedFacts DEF Typed, TypeOK
  <1>2. \A c \in pass.found : c.block = BlockOf(c.tx, tip)
    BY <1>1 DEF SyncInv, FoundInv
  <1>3. lis' \in Listeners /\ lis'.best = lis.best
    BY <1>1, ConnectType
  <1>4. \A t \in Txs : lis'.conf[t] \in {lis.conf[t], BlockOf(t, tip)}
    BY <1>1, <1>2, ConnectType
  <1>5. ASSUME NEW t \in Txs, lis.conf[t] # None PROVE lis.conf[t] = BlockOf(t, tip)
    <2>1. t \in TxsIn[lis.conf[t]] /\ lis.conf[t] \in Chain[tip]
      BY <1>1, <1>5 DEF SyncInv, ListenInv, Grounded, KnownInv, Known
    <2> QED
      BY <1>1, <2>1, OneBlock
  <1>6. \A t \in Txs : \/ lis.conf[t] # None /\ lis'.conf[t] = lis.conf[t]
                       \/ lis.conf[t] = None /\ lis'.conf[t] \in {None, BlockOf(t, tip)}
    BY <1>4, <1>5
  <1>7. /\ \A c \in pass.found : c.tx \in Txs /\ lis'.conf[c.tx] # None
        /\ lis'.outs = lis.outs \cup Claimable({c.tx : c \in pass.found})
    <2>1. \A c \in pass.found : lis'.conf[c.tx] # None
      BY <1>1, ConnectFacts
    <2>2. lis'.outs = lis.outs \cup Claimable({c.tx : c \in pass.found})
      BY <1>1, ConnectFacts
    <2>3. \A c \in pass.found : c.tx \in Txs
      BY <1>1 DEF Found
    <2> QED
      BY <2>1, <2>2, <2>3
  <1>8. \A c \in pass.found : lis'.conf[c.tx] = c.block
    BY <1>2, <1>4, <1>5, <1>7
  <1>9. filter'.txs = filter.txs /\ filter'.outs = filter.outs \cup (lis'.outs \ lis.outs)
    BY <1>1 DEF Register, Typed, TypeOK
  <1>10. /\ st'.last = pass.tip /\ st'.pending = FALSE
         /\ st'.txs = Confirm(st, pass.found).txs /\ st'.outs = Confirm(st, pass.found).outs
         /\ st'.spends = Confirm(st, pass.found).spends
    BY <1>1, ConfirmType
  <1>11. pass'.tip = pass.tip /\ pass'.found = {} /\ pass'.missed = pass.missed
    BY <1>1 DEF Typed, PassType, PassRec
  <1>12. /\ st'.txs = st.txs \ {c.tx : c \in pass.found}
         /\ st.spends \subseteq st'.spends
    BY <1>1, <1>10, ConfirmFacts
  <1>13. \A sp \in st'.spends :
           \/ sp \in st.spends
           \/ \E c \in pass.found : /\ c.tx # Funding /\ sp.tx = c.tx
                                    /\ sp.height = Height[c.block] /\ sp.out = Spends[c.tx]
    BY <1>1, <1>10, ConfirmFacts
  <1>14. \A o \in st.outs : \/ o \in st'.outs
                            \/ \E sp \in st'.spends :
                                 sp.out = o /\ \E c \in pass.found : sp.tx = c.tx
    BY <1>1, <1>10, ConfirmFacts
  <1> QED
    BY <1>3, <1>6, <1>7, <1>8, <1>9, <1>10, <1>11, <1>12, <1>13, <1>14

\* A new output is queued, and a watched one that is found spent waits to be buried.
LEMMA AttendConfirmed == ASSUME Typed, SyncInv, AttendInv, TellConfirmed PROVE AttendInv'
  <1>0. pc = "confirmed" /\ Working /\ Active
    BY DEF TellConfirmed, Working, Active
  <1>1. CASE Fail
    BY <1>0, <1>1, AttendAbort
  <1>2. CASE Restart(tip)
    BY <1>0, <1>2, AttendRestart
  <1>3. CASE ~Fail /\ ~Restart(tip)
    <2>1. pc' = "head"
      BY <1>3, TellConfirmedFacts
    <2>2. /\ \A t \in Txs : lis.conf[t] # None => lis'.conf[t] = lis.conf[t]
          /\ \A c \in pass.found : lis'.conf[c.tx] # None /\ lis'.conf[c.tx] = c.block
          /\ lis'.best = lis.best /\ pass'.tip = pass.tip
          /\ filter'.outs = filter.outs \cup (lis'.outs \ lis.outs)
          /\ st.spends \subseteq st'.spends
      BY <1>3, TellConfirmedEffect
    <2>3. \A sp \in st'.spends :
            \/ sp \in st.spends
            \/ \E c \in pass.found : /\ c.tx # Funding /\ sp.tx = c.tx
                                     /\ sp.height = Height[c.block] /\ sp.out = Spends[c.tx]
      BY <1>3, TellConfirmedEffect
    <2>4. \A o \in st.outs : \/ o \in st'.outs
                             \/ \E sp \in st'.spends :
                                  sp.out = o /\ \E c \in pass.found : sp.tx = c.tx
      BY <1>3, TellConfirmedEffect
    <2>5. \A sp \in st.spends : sp.tx \in Txs
      BY DEF Typed, TypeOK, Spend
    <2>6. RelevantInv' /\ BestInv'
      BY <1>0, <2>1, <2>2 DEF RelevantInv, AttendInv, BestInv, Active, Asking, Le
    <2>7. SpendInv'
      <3> SUFFICES ASSUME NEW sp \in st'.spends
                   PROVE  /\ sp.tx # Funding /\ Spends[sp.tx] = sp.out
                          /\ lis'.conf[sp.tx] # None /\ sp.height = Height[lis'.conf[sp.tx]]
        BY DEF SpendInv
      <3>1. CASE sp \in st.spends
        BY <2>2, <2>5, <3>1 DEF AttendInv, SpendInv
      <3>2. CASE sp \notin st.spends
        BY <2>2, <2>3, <3>2
      <3> QED
        BY <3>1, <3>2
    <2>8. NoOutputUnattended'
      <3> SUFFICES ASSUME NEW o \in lis'.outs
                   PROVE  \/ o \in filter'.outs \cup st'.outs
                          \/ \E sp \in st'.spends : sp.out = o /\ lis'.conf[sp.tx] # None
                          \/ \E t \in Spenders(o) : /\ lis'.conf[t] # None
                                                    /\ Buried(lis'.conf[t], lis'.best)
        BY DEF NoOutputUnattended, Spenders, Buried
      <3>1. CASE o \notin lis.outs
        BY <2>2, <3>1
      <3>2. CASE o \in lis.outs
        <4>1. \/ o \in filter.outs \cup st.outs
              \/ \E sp \in st.spends : sp.out = o /\ lis.conf[sp.tx] # None
              \/ \E t \in Spenders(o) : lis.conf[t] # None /\ Buried(lis.conf[t], lis.best)
          BY <1>0, <3>2 DEF AttendInv, NoOutputUnattended
        <4>2. CASE o \in filter.outs
          BY <2>2, <4>2
        <4>3. CASE o \in st.outs
          BY <2>2, <2>4, <4>3
        <4>4. CASE \E sp \in st.spends : sp.out = o /\ lis.conf[sp.tx] # None
          BY <2>2, <2>5, <4>4
        <4>5. CASE \E t \in Spenders(o) : lis.conf[t] # None /\ Buried(lis.conf[t], lis.best)
          BY <2>2, <4>5 DEF Spenders
        <4> QED
          BY <4>1, <4>2, <4>3, <4>4, <4>5
      <3> QED
        BY <3>1, <3>2
    <2> QED
      BY <2>6, <2>7, <2>8 DEF AttendInv
  <1> QED
    BY <1>1, <1>2, <1>3

\* What a question of sync() to Esplora leaves alone.
LEMMA AskFacts ==
    ASSUME Typed,
           \/ GetSpenderProof \/ GetHeight
           \/ (\E t \in Txs : CheckWatchedTx(t) \/ CheckWatchedOutput(t)),
           ~Fail, ~Restart(pass.tip)
    PROVE  /\ Asking /\ Asking' /\ UNCHANGED fetched
           /\ pass'.tip = pass.tip
  <1>1. pass \in PassRec(pass.found)
    BY DEF Typed, PassType
  <1>2. ASSUME NEW t \in Txs, NEW p \in PassRec(pass.found), p.tip = pass.tip,
               ProofOf(p, t) \/ NoProofOf(p, t)
        PROVE  Asking' /\ UNCHANGED fetched /\ pass'.tip = pass.tip
    BY <1>2 DEF ProofOf, NoProofOf, Skip, Asking, PassRec
  <1>3. ASSUME NEW t \in Txs, CheckWatchedTx(t)
        PROVE  Asking /\ Asking' /\ UNCHANGED fetched /\ pass'.tip = pass.tip
    <2> DEFINE p == [pass EXCEPT !.todo = pass.todo \ {t}]
    <2>1. pc = "confirmed" /\ (ProofOf(p, t) \/ NoProofOf(p, t))
      BY <1>3 DEF CheckWatchedTx
    <2>2. p \in PassRec(pass.found) /\ p.tip = pass.tip
      BY <1>1 DEF PassRec
    <2> HIDE DEF p
    <2> QED
      BY <1>2, <2>1, <2>2 DEF Asking
  <1>4. ASSUME NEW o \in Txs, CheckWatchedOutput(o)
        PROVE  Asking /\ Asking' /\ UNCHANGED fetched /\ pass'.tip = pass.tip
    <2> DEFINE p == [pass EXCEPT !.outs = pass.outs \ {o}]
    <2>1. /\ pc = "confirmed"
          /\ \/ Skip(p) /\ UNCHANGED fetched
             \/ (\E t \in Spender(o) :
                   /\ pc' = "proof" /\ UNCHANGED fetched
                   /\ pass' = [p EXCEPT !.cur = [tx |-> t, block |-> BlockOf(t, tip)]])
      BY <1>4 DEF CheckWatchedOutput
    <2>2. p \in PassRec(pass.found) /\ p.tip = pass.tip
      BY <1>1 DEF PassRec
    <2> HIDE DEF p
    <2> QED
      BY <2>1, <2>2 DEF Skip, Asking, PassRec
  <1>5. CASE GetSpenderProof
    <2>1. pc = "proof" /\ pass.cur.tx \in Txs
      BY <1>1, <1>5 DEF GetSpenderProof, Typed, PassType, PassRec
    <2>2. \/ ProofOf(pass, pass.cur.tx) \/ NoProofOf(pass, pass.cur.tx)
          \/ Keep(pass, pass.cur.tx, pass.cur.block) /\ UNCHANGED fetched
      BY <1>5 DEF GetSpenderProof
    <2>3. CASE ProofOf(pass, pass.cur.tx) \/ NoProofOf(pass, pass.cur.tx)
      BY <1>1, <1>2, <2>1, <2>3 DEF Asking
    <2>4. CASE Keep(pass, pass.cur.tx, pass.cur.block) /\ UNCHANGED fetched
      BY <1>1, <2>1, <2>4 DEF Keep, Asking, PassRec
    <2> QED
      BY <2>2, <2>3, <2>4
  <1>6. CASE GetHeight
    <2>1. pc = "height" /\ Keep(pass, pass.cur.tx, pass.cur.block) /\ UNCHANGED fetched
      BY <1>6 DEF GetHeight
    <2> QED
      BY <1>1, <2>1 DEF Keep, Asking, PassRec
  <1> QED
    BY <1>3, <1>4, <1>5, <1>6

\* Questions drop nothing.
LEMMA AttendAsk ==
    ASSUME Typed, SyncInv, AttendInv,
           \/ GetSpenderProof \/ GetHeight
           \/ (\E t \in Txs : CheckRelevant(t) \/ CheckWatchedTx(t) \/ CheckWatchedOutput(t))
    PROVE  AttendInv'
  <1>0. Working /\ Active
    BY DEF GetSpenderProof, GetHeight, CheckRelevant, CheckWatchedTx, CheckWatchedOutput,
       Working, Active
  <1>1. CASE Fail
    BY <1>0, <1>1, AttendAbort
  <1>2. CASE Restart(pass.tip)
    BY <1>0, <1>2, AttendRestart
  <1>3. ASSUME ~Fail, NEW t \in Txs, CheckRelevant(t) PROVE AttendInv'
    <2>1. /\ pc = "unconfirmed" /\ UNCHANGED <<lis, filter, st, pc>> /\ t \in pass.todo
          /\ pass' = [pass EXCEPT !.todo = pass.todo \ {t},
               !.found = IF InBestChain(lis.conf[t]) THEN pass.found ELSE pass.found \cup {t}]
      BY <1>3 DEF CheckRelevant
    <2>2. /\ pass'.tip = pass.tip /\ pass'.todo = pass.todo \ {t}
          /\ pass'.found \subseteq pass.found \cup {t}
      BY <2>1 DEF Typed, PassType, PassRec
    <2>3. RelevantInv'
      BY <2>1, <2>2 DEF AttendInv, RelevantInv, Relevant, Buried
    <2>4. BestInv'
      BY <2>1, <2>2 DEF AttendInv, BestInv, Active, Asking, Le
    <2> QED
      BY <1>0, <2>1, <2>3, <2>4, AttendQuiet
  <1>4. CASE /\ ~Fail /\ ~Restart(pass.tip)
             /\ \/ GetSpenderProof \/ GetHeight
                \/ (\E t \in Txs : CheckWatchedTx(t) \/ CheckWatchedOutput(t))
    <2>1. Asking /\ Asking' /\ UNCHANGED <<lis, filter, st>> /\ pass'.tip = pass.tip
      BY <1>4, AskFacts DEF fetched
    <2>2. RelevantInv'
      BY <2>1 DEF RelevantInv, Asking
    <2>3. BestInv'
      BY <2>1 DEF AttendInv, BestInv, Active, Asking, Le
    <2> QED
      BY <1>0, <2>1, <2>2, <2>3, AttendQuiet
  <1> QED
    BY <1>1, <1>2, <1>3, <1>4

\* Every step keeps the outputs attended.
LEMMA AttendStep == ASSUME Typed, SyncInv, AttendInv, [Next]_vars PROVE AttendInv'
  <1>1. CASE UNCHANGED vars
    <2>1. UNCHANGED <<lis, filter, st, pc, pass>>
      BY <1>1 DEF vars
    <2>2. RelevantInv' /\ BestInv'
      BY <2>1 DEF AttendInv, RelevantInv, Relevant, Buried, BestInv, Active, Asking, Le
    <2> QED
      BY <2>1, <2>2, AttendQuiet DEF Working
  <1> QED
    BY <1>1, AttendHandler, AttendGetTip, AttendLoopHead, AttendUnconfirmed, AttendBest,
       AttendConfirmed, AttendAsk DEF Next, Alarm, Sync

\* No output a monitor asked for is ever dropped during a pass.
LEMMA Attendance == Spec => []AttendInv
  <1>1. Init => AttendInv
    BY DEF Init, AttendInv, RelevantInv, BestInv, SpendInv, NoOutputUnattended, Active, Asking,
       NewSyncState
  <1>2. Typed /\ SyncInv /\ AttendInv /\ [Next]_vars => AttendInv'
    BY AttendStep
  <1> QED
    BY <1>1, <1>2, Invariance, PTL DEF Spec

\* An output the monitor asked for is queued, watched, or its spend known (common.rs:28-81).
THEOREM NothingUnattended == Spec => []NoOutputUnattended
  <1>1. AttendInv => NoOutputUnattended
    BY DEF AttendInv
  <1> QED
    BY <1>1, Attendance, PTL

-----------------------------------------------------------------------------
(* Agreement *)

(* The outputs the monitor wants watched: of the funding, and of what our claims spend. *)
Watches(l) ==
  /\ Funding \in l.outs
  /\ \A t \in Claimable(Txs) : l.conf[t] # None => t \in l.outs

(* The funding transaction is watched until it is confirmed. *)
WatchInv ==
  /\ Watches(lis) /\ Watches(stored)
  /\ Working => Funding \in st.txs \cup filter.txs \/ lis.conf[Funding] # None

(* t is not in the chain, or was found in it, or is being asked for, or was missed. *)
Looked(t) == \/ BlockOf(t, tip) = None \/ IsFound(t)
             \/ pc \in {"proof", "height"} /\ pass.cur.tx = t
             \/ t \in pass.missed

(* While the tip stays: what is not to do was looked up. *)
LookedInv ==
  (Asking /\ tip = pass.tip) =>
    /\ \A t \in st.txs : t \in pass.todo \/ Looked(t)
    /\ \A o \in st.outs : o \in pass.outs \/ \A t \in Spenders(o) : Looked(t)

(* sync() is about to return Ok, or just did. *)
Done == \/ pc = "drain"
        \/ pc = "head" /\ st.last = pass.tip /\ ~st.pending /\ filter = EmptyQueue

AgreeInv == (Done /\ pass.missed = {}) => AgreesWith(lis, pass.tip)

AgreementInv == WatchInv /\ LookedInv /\ AgreeInv

\* A step at which the listeners learn nothing and sync() asks nothing.
LEMMA AgreementQuiet ==
    ASSUME AgreementInv, lis' \in {lis, stored}, stored' \in {lis, stored}, ~Asking', ~Done',
           Working' => /\ Working /\ lis' = lis
                       /\ st.txs \cup filter.txs \subseteq st'.txs \cup filter'.txs
    PROVE  AgreementInv'
  <1>1. Watches(lis)' /\ Watches(stored)'
    BY DEF AgreementInv, WatchInv, Watches, Claimable
  <1>2. WatchInv'
    BY <1>1 DEF AgreementInv, WatchInv, Working
  <1>3. LookedInv' /\ AgreeInv'
    BY DEF LookedInv, AgreeInv, Asking, Done
  <1> QED
    BY <1>2, <1>3 DEF AgreementInv

\* An error of sync() promises nothing.
LEMMA AgreementAbort ==
    ASSUME Typed, AgreementInv, Abort(st) \/ Fail, Working
    PROVE  AgreementInv'
  <1>1. pc' = "failed" /\ UNCHANGED <<lis, stored, filter>> /\ st'.txs = st.txs
    BY DEF Abort, Fail, Typed, TypeOK
  <1> QED
    BY <1>1, AgreementQuiet DEF Asking, Done

\* A further round is pending.
LEMMA AgreementRestart ==
    ASSUME Typed, AgreementInv, Working, NEW hash, Restart(hash)
    PROVE  AgreementInv'
  <1>1. /\ pc' = "head" /\ UNCHANGED <<lis, stored, filter>>
        /\ st'.txs = st.txs /\ st'.pending = TRUE
    BY DEF Restart, Typed, TypeOK
  <1> QED
    BY <1>1, AgreementQuiet DEF Asking, Done

\* A step outside the handler, or of its broadcasts.
LEMMA AgreementOutside ==
    ASSUME Typed, SyncInv, AgreementInv, UNCHANGED <<lis, stored, filter, st, pc, pass>>,
           tip' = tip \/ \E b \in Blocks : ChainMoves(b)
    PROVE  AgreementInv'
  <1>1. WatchInv'
    BY DEF AgreementInv, WatchInv, Watches, Claimable, Working
  <1>2. AgreeInv'
    BY DEF AgreementInv, AgreeInv, AgreesWith, BlockOf, Done
  <1>3. LookedInv'
    <2>1. CASE tip' = tip
      BY <2>1 DEF AgreementInv, LookedInv, Asking, Looked, IsFound, BlockOf, Spenders
    <2>2. ASSUME Asking, NEW b \in Blocks, ChainMoves(b) PROVE tip' # pass.tip
      <3>1. /\ tip \in Blocks /\ pass.tip \in Blocks /\ Le(pass.tip, tip)
            /\ tip' = b /\ Height[b] > Height[tip]
        BY <2>2 DEF Asking, Active, Typed, TypeOK, PassType, SyncInv, TipInv, ChainMoves
      <3> QED
        BY <3>1, LeFacts
    <2> QED
      BY <2>1, <2>2 DEF LookedInv, Asking
  <1> QED
    BY <1>1, <1>2, <1>3 DEF AgreementInv

\* What happens around sync().
LEMMA AgreementHandler ==
    ASSUME Typed, SyncInv, AgreementInv,
           \/ Request \/ Crash \/ AlarmFires \/ Restore \/ DrainAndClaim \/ PersistSessionEnd
           \/ Reschedule \/ (\E b \in Blocks : ChainMoves(b)) \/ (\E t \in Ours : Broadcast(t))
    PROVE  AgreementInv'
  <1>1. CASE Request \/ (\E b \in Blocks : ChainMoves(b)) \/ (\E t \in Ours : Broadcast(t))
    <2>1. /\ UNCHANGED <<lis, stored, filter, st, pc, pass>>
          /\ tip' = tip \/ \E b \in Blocks : ChainMoves(b)
      BY <1>1 DEF Request, ChainMoves, Broadcast, net
    <2> QED
      BY <2>1, AgreementOutside
  <1>2. CASE Crash \/ Reschedule
    <2>1. pc' = "idle" /\ lis' = stored /\ stored' = stored
      BY <1>2 DEF Crash, Reschedule, EndOfHandler
    <2> QED
      BY <2>1, AgreementQuiet DEF Asking, Done, Working
  <1>3. CASE AlarmFires \/ PersistSessionEnd \/ DrainAndClaim
    <2>1. /\ UNCHANGED <<lis, filter, st>> /\ stored' \in {lis, stored}
          /\ pc' \in {"restore", "reschedule", "flush"} /\ (pc' = "flush" => pc = "drain")
      BY <1>3 DEF AlarmFires, PersistSessionEnd, DrainAndClaim
    <2> QED
      BY <2>1, AgreementQuiet DEF Asking, Done, Working
  <1>4. CASE Restore
    <2>1. CASE pc' = "reschedule"
      <3>1. UNCHANGED <<lis, stored>>
        BY <1>4, <2>1 DEF Restore
      <3> QED
        BY <2>1, <3>1, AgreementQuiet DEF Asking, Done, Working
    <2>2. CASE pc' # "reschedule"
      <3>1. /\ lis' = stored /\ stored' = stored /\ filter' = Registered(stored)
            /\ st' = NewSyncState /\ pc' = "tip"
        BY <1>4, <2>2 DEF Restore
      <3>2. Funding \in filter'.txs
        BY <3>1 DEF Registered, Register
      <3>3. Watches(lis)' /\ Watches(stored)'
        BY <3>1 DEF AgreementInv, WatchInv, Watches, Claimable
      <3>4. WatchInv'
        BY <3>2, <3>3 DEF WatchInv
      <3>5. LookedInv' /\ AgreeInv'
        BY <3>1 DEF LookedInv, AgreeInv, Asking, Done
      <3> QED
        BY <3>4, <3>5 DEF AgreementInv
    <2> QED
      BY <2>1, <2>2
  <1> QED
    BY <1>1, <1>2, <1>3, <1>4

\* A tip that was not told yet is no agreement.
LEMMA AgreementGetTip == ASSUME Typed, SyncInv, AgreementInv, GetTip PROVE AgreementInv'
  <1>1. pc = "tip" /\ Working
    BY DEF GetTip, Working
  <1>2. CASE Abort(st)
    BY <1>1, <1>2, AgreementAbort
  <1>3. CASE ~Abort(st)
    <2>1. /\ pass' = [NoPass EXCEPT !.tip = tip] /\ pc' = "head"
          /\ UNCHANGED <<lis, stored, filter, st>>
      BY <1>3 DEF GetTip
    <2>2. pass'.tip = tip /\ st.last = None /\ tip # None
      BY <1>1, <2>1 DEF NoPass, SyncInv, TipInv, Typed, TypeOK
    <2> QED
      BY <1>1, <2>1, <2>2, AgreementQuiet DEF Asking, Done
  <1> QED
    BY <1>2, <1>3

\* The loop ends in agreement, or all that is watched is to be looked up.
LEMMA AgreementLoopHead == ASSUME Typed, SyncInv, AgreementInv, LoopHead PROVE AgreementInv'
  <1>0. pc = "head" /\ UNCHANGED <<lis, stored>> /\ Working
    BY DEF LoopHead, Working
  <1>1. CASE GiveUp
    <2>1. pc' = "failed" /\ UNCHANGED filter /\ st'.txs = st.txs
      BY <1>1 DEF LoopHead, Typed, TypeOK
    <2> QED
      BY <1>0, <2>1, AgreementQuiet DEF Asking, Done
  <1>2. CASE ~GiveUp
    <2>1. /\ st' = ProcessQueues(st, filter) /\ filter' = EmptyQueue
          /\ \/ /\ pc' = "drain" /\ pass' = [pass EXCEPT !.iter = pass.iter + 1]
                /\ ~st.pending /\ filter = EmptyQueue /\ st.last = pass.tip
             \/ pc' = "unconfirmed"
             \/ /\ pc' = "confirmed" /\ st.last = pass.tip
                /\ pass' = [pass EXCEPT !.iter = pass.iter + 1, !.todo = st'.txs,
                                        !.outs = st'.outs]
      BY <1>2 DEF LoopHead, Registrations
    <2>2. st'.txs = st.txs \cup filter.txs
      BY <2>1 DEF ProcessQueues, Typed, TypeOK
    <2>3. CASE pc' = "unconfirmed"
      BY <1>0, <2>2, <2>3, AgreementQuiet DEF Asking, Done
    <2>4. CASE pc' # "unconfirmed"
      <3>1. WatchInv'
        BY <1>0, <2>2 DEF AgreementInv, WatchInv, Watches, Claimable, Working
      <3>2. LookedInv'
        <4>1. pc' = "confirmed" => pass'.todo = st'.txs /\ pass'.outs = st'.outs
          BY <2>1, <2>4 DEF Typed, PassType, PassRec
        <4> QED
          BY <2>1, <2>4, <4>1 DEF LookedInv, Asking
      <3>3. AgreeInv'
        <4>1. CASE pc' = "drain"
          <5>1. pass'.tip = pass.tip /\ pass'.missed = pass.missed
            BY <2>1, <4>1 DEF Typed, PassType, PassRec
          <5>2. Done
            BY <1>0, <2>1, <4>1 DEF Done
          <5> QED
            BY <1>0, <5>1, <5>2 DEF AgreementInv, AgreeInv, AgreesWith, BlockOf
        <4>2. CASE pc' = "confirmed"
          BY <4>2 DEF AgreeInv, Done
        <4> QED
          BY <2>1, <2>4, <4>1, <4>2
      <3> QED
        BY <3>1, <3>2, <3>3 DEF AgreementInv
    <2> QED
      BY <2>3, <2>4
  <1> QED
    BY <1>1, <1>2

\* What is told unconfirmed is watched again.
LEMMA AgreementUnconfirmed ==
    ASSUME Typed, SyncInv, AgreementInv, TellUnconfirmed
    PROVE  AgreementInv'
  <1>0. pc = "unconfirmed" /\ Working
    BY DEF TellUnconfirmed, Working
  <1>1. CASE Fail
    BY <1>0, <1>1, AgreementAbort
  <1>2. CASE Restart(tip)
    BY <1>0, <1>2, AgreementRestart
  <1>3. CASE ~Fail /\ ~Restart(tip)
    <2>1. /\ pc' = "best" /\ UNCHANGED stored
          /\ \A t \in Txs : lis'.conf[t] = IF t \in pass.found THEN None ELSE lis.conf[t]
      BY <1>3, TellUnconfirmedFacts
    <2>2. st'.txs = st.txs \cup pass.found /\ UNCHANGED filter /\ lis'.outs = lis.outs
      BY <1>3, UnconfirmFacts
    <2>3. Watches(lis)' /\ Watches(stored)'
      BY <2>1, <2>2 DEF AgreementInv, WatchInv, Watches, Claimable
    <2>4. WatchInv'
      BY <1>0, <2>1, <2>2, <2>3 DEF AgreementInv, WatchInv
    <2>5. LookedInv' /\ AgreeInv'
      BY <2>1 DEF LookedInv, AgreeInv, Asking, Done
    <2> QED
      BY <2>4, <2>5 DEF AgreementInv
  <1> QED
    BY <1>1, <1>2, <1>3

\* After the best block, all that is watched is to be looked up.
LEMMA AgreementBest == ASSUME Typed, SyncInv, AgreementInv, TellBest PROVE AgreementInv'
  <1>0. pc = "best" /\ Working
    BY DEF TellBest, Working
  <1>1. CASE Fail
    BY <1>0, <1>1, AgreementAbort
  <1>2. CASE Restart(pass.tip)
    BY <1>0, <1>2, AgreementRestart
  <1>3. CASE ~Fail /\ ~Restart(pass.tip)
    <2>1. /\ pc' = "confirmed" /\ UNCHANGED <<stored, filter>>
          /\ lis'.conf = lis.conf /\ lis'.outs = lis.outs
          /\ st'.txs = st.txs /\ st'.outs = st.outs
          /\ pass'.todo = st.txs /\ pass'.outs = st.outs
      BY <1>3, TellBestFacts
    <2>2. Watches(lis)' /\ Watches(stored)'
      BY <2>1 DEF AgreementInv, WatchInv, Watches, Claimable
    <2>3. WatchInv'
      BY <1>0, <2>1, <2>2 DEF AgreementInv, WatchInv
    <2>4. LookedInv' /\ AgreeInv'
      BY <2>1 DEF LookedInv, AgreeInv, Asking, Done
    <2> QED
      BY <2>3, <2>4 DEF AgreementInv
  <1> QED
    BY <1>1, <1>2, <1>3

\* What it takes to be looked up after a step under which the tip stays.
LEMMA LookedLater ==
    ASSUME UNCHANGED tip, NEW t
    PROVE  Looked(t)' = (\/ BlockOf(t, tip) = None
                         \/ \E c \in pass'.found : c.tx = t
                         \/ pc' \in {"proof", "height"} /\ pass'.cur.tx = t
                         \/ t \in pass'.missed)
  BY DEF Looked, IsFound, BlockOf

\* An answer about t settles t.
LEMMA QueryLooks ==
    ASSUME Typed, pc \in {"confirmed", "proof"}, NEW t \in Txs, NEW p \in PassRec(pass.found),
           p.found = pass.found, p.missed = pass.missed, pc = "proof" => pass.cur.tx = t,
           ProofOf(p, t) \/ NoProofOf(p, t), ~Fail
    PROVE  /\ pass'.todo = p.todo /\ pass'.outs = p.outs /\ Looked(t)'
           /\ \A u \in Txs : Looked(u) => Looked(u)'
  <1>1. UNCHANGED tip
    BY DEF ProofOf, NoProofOf, fetched, handler, net
  <1>2. CASE ProofOf(p, t)
    <2>1. pc' = "height" /\ pass' = [p EXCEPT !.cur = [tx |-> t, block |-> BlockOf(t, tip)]]
      BY <1>2 DEF ProofOf
    <2>2. /\ pass'.todo = p.todo /\ pass'.outs = p.outs /\ pass'.found = pass.found
          /\ pass'.missed = pass.missed /\ pass'.cur = [tx |-> t, block |-> BlockOf(t, tip)]
      BY <2>1 DEF PassRec
    <2> QED
      BY <1>1, <2>1, <2>2, LookedLater DEF Looked, IsFound
  <1>3. CASE BlockOf(t, tip) = None /\ Skip(p)
    <2>1. pass' = [p EXCEPT !.cur = None]
      BY <1>3 DEF Skip
    <2>2. /\ pass'.todo = p.todo /\ pass'.outs = p.outs /\ pass'.found = pass.found
          /\ pass'.missed = pass.missed
      BY <2>1 DEF PassRec
    <2> QED
      BY <1>1, <1>3, <2>2, LookedLater DEF Looked, IsFound
  <1>4. CASE Skip([p EXCEPT !.missed = p.missed \cup {t}])
    <2>1. pass' = [[p EXCEPT !.missed = p.missed \cup {t}] EXCEPT !.cur = None]
      BY <1>4 DEF Skip
    <2>2. /\ pass'.todo = p.todo /\ pass'.outs = p.outs /\ pass'.found = pass.found
          /\ pass'.missed = pass.missed \cup {t}
      BY <2>1 DEF PassRec
    <2> QED
      BY <1>1, <2>2, LookedLater DEF Looked, IsFound
  <1> QED
    BY <1>2, <1>3, <1>4 DEF NoProofOf

\* The transaction in question is found.
LEMMA KeepLooks ==
    ASSUME Typed, pc \in {"proof", "height"}, UNCHANGED fetched,
           Keep(pass, pass.cur.tx, pass.cur.block)
    PROVE  /\ pass'.todo = pass.todo /\ pass'.outs = pass.outs /\ pass'.missed = pass.missed
           /\ \A u \in Txs : Looked(u) => Looked(u)'
  <1>1. UNCHANGED tip
    BY DEF fetched, handler, net
  <1>2. /\ pass'.todo = pass.todo /\ pass'.outs = pass.outs /\ pass'.missed = pass.missed
        /\ pass'.found = pass.found \cup {[tx |-> pass.cur.tx, block |-> pass.cur.block]}
    BY DEF Keep, Typed, PassType, PassRec
  <1>3. [tx |-> pass.cur.tx, block |-> pass.cur.block].tx = pass.cur.tx
    OBVIOUS
  <1>4. \E c \in pass'.found : c.tx = pass.cur.tx
    BY <1>2, <1>3
  <1>5. \A c \in pass.found : c \in pass'.found
    BY <1>2
  <1> QED
    BY <1>1, <1>2, <1>4, <1>5, LookedLater DEF Looked, IsFound

\* The answer about a watched output settles all that could spend it.
LEMMA OutputLooks ==
    ASSUME Typed, NEW o \in Txs, CheckWatchedOutput(o), ~Fail, ~Restart(pass.tip)
    PROVE  /\ pass'.todo = pass.todo /\ pass'.outs = pass.outs \ {o}
           /\ pass'.missed = pass.missed
           /\ \A u \in Spenders(o) : Looked(u)'
           /\ \A u \in Txs : Looked(u) => Looked(u)'
  <1> DEFINE p == [pass EXCEPT !.outs = pass.outs \ {o}]
  <1>1. /\ pc = "confirmed" /\ UNCHANGED tip
        /\ \/ ChainSpender(o) = {} /\ Skip(p)
           \/ \E t \in Spender(o) : IsFound(t) /\ BlockOf(t, tip) # None /\ Skip(p)
           \/ \E t \in Spender(o) :
                /\ pc' = "proof"
                /\ pass' = [p EXCEPT !.cur = [tx |-> t, block |-> BlockOf(t, tip)]]
    BY DEF CheckWatchedOutput, fetched, handler, net
  <1>2. /\ p \in PassRec(pass.found) /\ p.todo = pass.todo /\ p.outs = pass.outs \ {o}
        /\ p.missed = pass.missed /\ p.found = pass.found
    BY DEF Typed, PassType, PassRec
  <1> HIDE DEF p
  <1>3. ASSUME NEW t \in Spender(o), NEW u \in Spenders(o), BlockOf(u, tip) # None
        PROVE  u = t
    <2>1. u \in ChainSpender(o)
      BY <1>3 DEF ChainSpender
    <2>2. t \in ChainSpender(o)
      BY <1>3, <2>1 DEF Spender
    <2> QED
      BY <1>3, <2>1, <2>2, OneSpender DEF ChainSpender, Spenders, Typed, TypeOK
  <1>4. /\ pass'.todo = pass.todo /\ pass'.outs = pass.outs \ {o} /\ pass'.missed = pass.missed
        /\ pass'.found = pass.found
    BY <1>1, <1>2 DEF Skip, PassRec
  <1>5. \A u \in Txs : Looked(u) => Looked(u)'
    BY <1>1, <1>4, LookedLater DEF Looked, IsFound
  <1>6. ASSUME NEW u \in Spenders(o) PROVE Looked(u)'
    <2>1. CASE ChainSpender(o) = {}
      BY <1>1, <2>1, LookedLater DEF ChainSpender
    <2>2. ASSUME NEW t \in Spender(o), IsFound(t) PROVE Looked(u)'
      BY <1>1, <1>3, <1>4, <2>2, LookedLater DEF IsFound
    <2>3. ASSUME NEW t \in Spender(o), pc' = "proof",
                 pass' = [p EXCEPT !.cur = [tx |-> t, block |-> BlockOf(t, tip)]]
          PROVE  Looked(u)'
      <3>1. pass'.cur.tx = t
        BY <1>2, <2>3 DEF PassRec
      <3> QED
        BY <1>1, <1>3, <2>3, <3>1, LookedLater
    <2> QED
      BY <1>1, <2>1, <2>2, <2>3
  <1> QED
    BY <1>4, <1>5, <1>6

\* A question settles what it takes off the lists.
LEMMA AskLooks ==
    ASSUME Typed,
           \/ GetSpenderProof \/ GetHeight
           \/ (\E t \in Txs : CheckWatchedTx(t) \/ CheckWatchedOutput(t)),
           ~Fail, ~Restart(pass.tip)
    PROVE  /\ \A u \in Txs : Looked(u) => Looked(u)'
           /\ \A t \in pass.todo : t \in pass'.todo \/ Looked(t)'
           /\ \A o \in pass.outs : o \in pass'.outs \/ \A u \in Spenders(o) : Looked(u)'
  <1>1. pass \in PassRec(pass.found)
    BY DEF Typed, PassType
  <1>2. ASSUME NEW t \in Txs, CheckWatchedTx(t)
        PROVE  /\ pass'.todo = pass.todo \ {t} /\ pass'.outs = pass.outs /\ Looked(t)'
               /\ \A u \in Txs : Looked(u) => Looked(u)'
    <2> DEFINE p == [pass EXCEPT !.todo = pass.todo \ {t}]
    <2>1. pc = "confirmed" /\ (ProofOf(p, t) \/ NoProofOf(p, t))
      BY <1>2 DEF CheckWatchedTx
    <2>2. /\ p \in PassRec(pass.found) /\ p.found = pass.found /\ p.missed = pass.missed
          /\ p.todo = pass.todo \ {t} /\ p.outs = pass.outs
      BY <1>1 DEF PassRec
    <2> HIDE DEF p
    <2> QED
      BY <2>1, <2>2, QueryLooks
  <1>3. CASE GetSpenderProof
    <2>1. pc = "proof" /\ pass.cur.tx \in Txs
      BY <1>1, <1>3 DEF GetSpenderProof, Typed, PassType, PassRec
    <2>2. \/ ProofOf(pass, pass.cur.tx) \/ NoProofOf(pass, pass.cur.tx)
          \/ Keep(pass, pass.cur.tx, pass.cur.block) /\ UNCHANGED fetched
      BY <1>3 DEF GetSpenderProof
    <2>3. CASE ProofOf(pass, pass.cur.tx) \/ NoProofOf(pass, pass.cur.tx)
      BY <1>1, <2>1, <2>3, QueryLooks
    <2>4. CASE Keep(pass, pass.cur.tx, pass.cur.block) /\ UNCHANGED fetched
      BY <2>1, <2>4, KeepLooks
    <2> QED
      BY <2>2, <2>3, <2>4
  <1>4. CASE GetHeight
    <2>1. pc = "height" /\ Keep(pass, pass.cur.tx, pass.cur.block) /\ UNCHANGED fetched
      BY <1>4 DEF GetHeight
    <2> QED
      BY <2>1, KeepLooks
  <1>5. ASSUME NEW t \in Txs, CheckWatchedOutput(t)
        PROVE  /\ pass'.todo = pass.todo /\ pass'.outs = pass.outs \ {t}
               /\ pass'.missed = pass.missed
               /\ \A u \in Spenders(t) : Looked(u)'
               /\ \A u \in Txs : Looked(u) => Looked(u)'
    BY <1>5, OutputLooks
  <1> QED
    BY <1>2, <1>3, <1>4, <1>5

\* Questions keep the invariant.
LEMMA AgreementAsk ==
    ASSUME Typed, SyncInv, AgreementInv,
           \/ GetSpenderProof \/ GetHeight
           \/ (\E t \in Txs : CheckRelevant(t) \/ CheckWatchedTx(t) \/ CheckWatchedOutput(t))
    PROVE  AgreementInv'
  <1>0. Working
    BY DEF GetSpenderProof, GetHeight, CheckRelevant, CheckWatchedTx, CheckWatchedOutput, Working
  <1>1. CASE Fail
    BY <1>0, <1>1, AgreementAbort
  <1>2. CASE Restart(pass.tip)
    BY <1>0, <1>2, AgreementRestart
  <1>3. ASSUME ~Fail, NEW t \in Txs, CheckRelevant(t) PROVE AgreementInv'
    <2>1. pc = "unconfirmed" /\ UNCHANGED <<lis, stored, filter, st, pc>>
      BY <1>3 DEF CheckRelevant
    <2> QED
      BY <1>0, <2>1, AgreementQuiet DEF Asking, Done
  <1>4. CASE /\ ~Fail /\ ~Restart(pass.tip)
             /\ \/ GetSpenderProof \/ GetHeight
                \/ (\E t \in Txs : CheckWatchedTx(t) \/ CheckWatchedOutput(t))
    <2>1. /\ Asking /\ Asking' /\ UNCHANGED <<tip, lis, stored, filter, st>>
          /\ pass'.tip = pass.tip
      BY <1>4, AskFacts DEF fetched, handler, net
    <2>2. /\ \A u \in Txs : Looked(u) => Looked(u)'
          /\ \A t \in pass.todo : t \in pass'.todo \/ Looked(t)'
          /\ \A o \in pass.outs : o \in pass'.outs \/ \A u \in Spenders(o) : Looked(u)'
      BY <1>4, AskLooks
    <2>3. WatchInv'
      BY <1>0, <2>1 DEF AgreementInv, WatchInv, Watches, Claimable
    <2>4. AgreeInv'
      BY <2>1 DEF AgreeInv, Done, Asking
    <2>5. LookedInv'
      <3> SUFFICES ASSUME tip = pass.tip
                   PROVE  /\ \A t \in st.txs : t \in pass'.todo \/ Looked(t)'
                          /\ \A o \in st.outs :
                               o \in pass'.outs \/ \A u \in Spenders(o) : Looked(u)'
        BY <2>1 DEF LookedInv, Spenders
      <3>1. /\ \A t \in st.txs : t \in pass.todo \/ Looked(t)
            /\ \A o \in st.outs : o \in pass.outs \/ \A t \in Spenders(o) : Looked(t)
        BY <2>1 DEF AgreementInv, LookedInv
      <3>2. st.txs \subseteq Txs /\ \A o \in st.outs : Spenders(o) \subseteq Txs
        BY DEF Typed, TypeOK, Spenders
      <3> QED
        BY <2>2, <3>1, <3>2
    <2> QED
      BY <2>3, <2>4, <2>5 DEF AgreementInv
  <1> QED
    BY <1>1, <1>2, <1>3, <1>4

\* What the listeners learn is watched: the funding, and what our claims spend.
LEMMA WatchConfirmed ==
    ASSUME Typed, SyncInv, AgreementInv, TellConfirmed, ~Fail, ~Restart(tip)
    PROVE  WatchInv'
  <1>1. /\ pc = "confirmed" /\ Working /\ UNCHANGED stored
        /\ \A t \in Txs : \/ lis.conf[t] # None /\ lis'.conf[t] = lis.conf[t]
                          \/ lis.conf[t] = None /\ lis'.conf[t] \in {None, BlockOf(t, tip)}
        /\ \A c \in pass.found : lis'.conf[c.tx] # None
        /\ lis'.outs = lis.outs \cup Claimable({c.tx : c \in pass.found})
        /\ filter'.txs = filter.txs /\ st'.txs = st.txs \ {c.tx : c \in pass.found}
    BY TellConfirmedFacts, TellConfirmedEffect DEF Working
  <1>2. lis' = Connect(lis, pass.found) /\ lis \in Listeners /\ pass.found \in SUBSET Found
    BY TellConfirmedFacts
  <1>3. ASSUME NEW t \in Claimable(Txs), lis'.conf[t] # None PROVE t \in lis'.outs
    <2>1. t \in Txs
      BY DEF Claimable
    <2>2. CASE lis.conf[t] # None
      BY <1>1, <2>2 DEF AgreementInv, WatchInv, Watches
    <2>3. CASE lis.conf[t] = None
      <3>1. PICK c \in pass.found : c.tx = t
        BY <1>2, <1>3, <2>1, <2>3, ConnectType
      <3> QED
        BY <1>1, <3>1 DEF Claimable
    <2> QED
      BY <2>2, <2>3
  <1>4. Watches(lis)'
    BY <1>1, <1>3 DEF AgreementInv, WatchInv, Watches, Claimable
  <1>5. Watches(stored)'
    BY <1>1 DEF AgreementInv, WatchInv, Watches, Claimable
  <1>6. Funding \in st'.txs \cup filter'.txs \/ lis'.conf[Funding] # None
    <2>1. Funding \in st.txs \cup filter.txs \/ lis.conf[Funding] # None
      BY <1>1 DEF AgreementInv, WatchInv
    <2> QED
      BY <1>1, <2>1
  <1> QED
    BY <1>4, <1>5, <1>6 DEF WatchInv

\* When nothing new is to be watched, all of the chain was told.  Of the transactions of
\* the chain that were not, the earliest would spend an output that was watched.
LEMMA AllTold ==
    ASSUME Typed, SyncInv, AttendInv, AgreementInv, TellConfirmed, ~Fail, ~Restart(tip),
           filter' = EmptyQueue, pass.missed = {},
           NEW t \in Txs, BlockOf(t, tip) # None
    PROVE  lis'.conf[t] # None
  <1>1. /\ pc = "confirmed" /\ tip = pass.tip /\ tip \in Blocks
        /\ pass.todo = {} /\ pass.outs = {}
    BY TellConfirmedFacts DEF TellConfirmed, Typed, TypeOK
  <1>2. /\ filter.txs = {} /\ filter.outs = {} /\ lis'.outs \subseteq lis.outs
        /\ \A u \in Txs : lis.conf[u] # None => lis'.conf[u] = lis.conf[u]
        /\ \A c \in pass.found : lis'.conf[c.tx] # None
    BY TellConfirmedEffect DEF EmptyQueue
  <1>3. /\ \A u \in st.txs : Looked(u)
        /\ \A o \in st.outs : \A u \in Spenders(o) : Looked(u)
    BY <1>1 DEF AgreementInv, LookedInv, Asking
  <1>4. ASSUME NEW u \in Txs, Looked(u), BlockOf(u, tip) # None
        PROVE  lis'.conf[u] # None
    BY <1>1, <1>2, <1>4 DEF Looked, IsFound
  <1>5. BlockOf(Funding, tip) # None => lis'.conf[Funding] # None
    <2>1. Funding \in st.txs \/ lis.conf[Funding] # None
      BY <1>1, <1>2 DEF AgreementInv, WatchInv, Working
    <2> QED
      BY <1>2, <1>3, <1>4, <2>1
  <1>6. ASSUME NEW u \in Txs \ {Funding}, BlockOf(u, tip) # None, lis'.conf[Spends[u]] # None
        PROVE  lis'.conf[u] # None
    <2> DEFINE o == Spends[u]
    <2>1. o \in Txs /\ u \in Spenders(o)
      BY DEF Spenders
    <2>2. o = Funding \/ o \in Claimable(Txs)
      BY <2>1, ClaimAssumption DEF Claimable
    <2>3. o \in lis.outs
      BY <1>2, <1>6, <2>2, WatchConfirmed DEF WatchInv, Watches, Claimable
    <2>4. ASSUME NEW v \in Spenders(o), lis.conf[v] # None PROVE lis'.conf[u] # None
      <3>1. v \in Txs \ {Funding} /\ Spends[v] = o
        BY DEF Spenders
      <3>2. v \in TxsIn[lis.conf[v]] /\ lis.conf[v] \in Chain[tip]
        BY <1>1, <2>4, <3>1 DEF SyncInv, ListenInv, Grounded, KnownInv, Known
      <3>3. BlockOf(v, tip) # None
        BY <1>1, <3>1, <3>2, OneBlock
      <3>4. v = u
        BY <1>1, <1>6, <3>1, <3>3, OneSpender
      <3> QED
        BY <1>2, <2>4, <3>4
    <2>5. CASE o \in st.outs
      BY <1>3, <1>4, <1>6, <2>1, <2>5
    <2>6. ASSUME NEW sp \in st.spends, sp.out = o, lis.conf[sp.tx] # None
          PROVE  sp.tx \in Spenders(o)
      BY <2>6 DEF AttendInv, SpendInv, Typed, TypeOK, Spend, Spenders
    <2>7. \/ o \in st.outs
          \/ \E sp \in st.spends : sp.out = o /\ lis.conf[sp.tx] # None
          \/ \E v \in Spenders(o) : lis.conf[v] # None
      <3>1. \/ o \in filter.outs \cup st.outs
            \/ \E sp \in st.spends : sp.out = o /\ lis.conf[sp.tx] # None
            \/ \E v \in Spenders(o) : lis.conf[v] # None /\ Buried(lis.conf[v], lis.best)
        BY <1>1, <2>3 DEF AttendInv, NoOutputUnattended
      <3> QED
        BY <1>2, <3>1
    <2> QED
      BY <2>4, <2>5, <2>6, <2>7
  <1> DEFINE Untold == {u \in Txs : BlockOf(u, tip) # None /\ lis'.conf[u] = None}
             h(u) == Height[BlockOf(u, tip)]
             Heights == {h(u) : u \in Untold}
  <1>7. \A u \in Untold : u \in Txs /\ h(u) \in Nat /\ Pos[u] \in Nat
    BY <1>1, BlockOfFacts
  <1>8. ASSUME Untold # {} PROVE FALSE
    <2>1. PICK low \in Heights : \A n \in Heights : low <= n
      <3>1. Heights \subseteq Nat /\ Heights # {}
        BY <1>7, <1>8
      <3> HIDE DEF Heights
      <3> QED
        BY <3>1, Least
    <2> DEFINE Lowest == {u \in Untold : h(u) = low}
               Places == {Pos[u] : u \in Lowest}
    <2>2. PICK first \in Places : \A n \in Places : first <= n
      <3>1. Places \subseteq Nat /\ Places # {}
        BY <1>7, <2>1
      <3> HIDE DEF Places
      <3> QED
        BY <3>1, Least
    <2>3. PICK u \in Lowest : Pos[u] = first
      BY <2>2
    <2>4. u \in Txs \ {Funding} /\ BlockOf(u, tip) # None /\ lis'.conf[u] = None
      BY <1>5, <2>3
    <2>5. /\ Spends[u] \in Txs /\ BlockOf(Spends[u], tip) # None
          /\ \/ h(Spends[u]) < h(u)
             \/ h(Spends[u]) = h(u) /\ Pos[Spends[u]] < Pos[u]
      BY <1>1, <2>4, ParentInChain
    <2>6. Spends[u] \in Untold
      BY <1>6, <2>4, <2>5
    <2>7. h(Spends[u]) \in Heights /\ h(u) = low
      BY <2>3, <2>6
    <2> HIDE DEF h, Heights
    <2>8. h(Spends[u]) = low /\ Pos[Spends[u]] < Pos[u]
      <3>1. low <= h(Spends[u]) /\ h(Spends[u]) \in Nat /\ low \in Nat
        BY <1>7, <2>1, <2>3, <2>6, <2>7
      <3> QED
        BY <2>5, <2>7, <3>1
    <2>9. Pos[Spends[u]] \in Places
      BY <2>6, <2>8
    <2>10. Pos[Spends[u]] \in Nat /\ Pos[u] \in Nat
      BY <2>4, <2>5
    <2> HIDE DEF Places
    <2> QED
      BY <2>2, <2>3, <2>8, <2>9, <2>10
  <1> QED
    BY <1>8

\* Telling the confirmed transactions keeps the invariant.
LEMMA AgreementConfirmed ==
    ASSUME Typed, SyncInv, AttendInv, AgreementInv, TellConfirmed
    PROVE  AgreementInv'
  <1>0. pc = "confirmed" /\ Working
    BY DEF TellConfirmed, Working
  <1>1. CASE Fail
    BY <1>0, <1>1, AgreementAbort
  <1>2. CASE Restart(tip)
    BY <1>0, <1>2, AgreementRestart
  <1>3. CASE ~Fail /\ ~Restart(tip)
    <2>1. WatchInv'
      BY <1>3, WatchConfirmed
    <2>2. pc' = "head" /\ tip = pass.tip /\ tip' = tip /\ tip \in Blocks
      BY <1>3, TellConfirmedFacts DEF Typed, TypeOK
    <2>3. LookedInv'
      BY <2>2 DEF LookedInv, Asking
    <2>4. AgreeInv'
      <3>1. /\ pass'.tip = pass.tip /\ pass'.missed = pass.missed /\ lis'.best = lis.best
            /\ \A t \in Txs : \/ lis.conf[t] # None /\ lis'.conf[t] = lis.conf[t]
                              \/ lis.conf[t] = None /\ lis'.conf[t] \in {None, BlockOf(t, tip)}
        BY <1>3, TellConfirmedEffect
      <3> SUFFICES ASSUME filter' = EmptyQueue, pass.missed = {}
                   PROVE  lis'.best = tip /\ \A t \in Txs : lis'.conf[t] = BlockOf(t, tip)
        BY <2>2, <3>1 DEF AgreeInv, Done, AgreesWith, BlockOf
      <3>2. lis'.best = tip
        BY <1>0, <2>2, <3>1 DEF AttendInv, BestInv, Asking
      <3>3. ASSUME NEW t \in Txs PROVE lis'.conf[t] = BlockOf(t, tip)
        <4>1. CASE BlockOf(t, tip) # None
          <5>1. lis'.conf[t] # None
            BY <1>3, <4>1, AllTold
          <5>2. CASE lis.conf[t] # None
            <6>1. t \in TxsIn[lis.conf[t]] /\ lis.conf[t] \in Chain[tip]
              BY <1>0, <2>2, <5>2 DEF SyncInv, ListenInv, Grounded, KnownInv, Known
            <6> QED
              BY <2>2, <3>1, <5>2, <6>1, OneBlock
          <5>3. CASE lis.conf[t] = None
            BY <3>1, <5>1, <5>3
          <5> QED
            BY <5>2, <5>3
        <4>2. CASE BlockOf(t, tip) = None
          <5>1. CASE lis.conf[t] # None
            <6>1. t \in TxsIn[lis.conf[t]] /\ lis.conf[t] \in Chain[tip]
              BY <1>0, <2>2, <5>1 DEF SyncInv, ListenInv, Grounded, KnownInv, Known
            <6> QED
              BY <2>2, <4>2, <6>1, OneBlock
          <5>2. CASE lis.conf[t] = None
            BY <3>1, <4>2, <5>2
          <5> QED
            BY <5>1, <5>2
        <4> QED
          BY <4>1, <4>2
      <3> QED
        BY <3>2, <3>3
    <2> QED
      BY <2>1, <2>3, <2>4 DEF AgreementInv
  <1> QED
    BY <1>1, <1>2, <1>3

\* Every step keeps the invariant.
LEMMA AgreementStep ==
    ASSUME Typed, SyncInv, AttendInv, AgreementInv, [Next]_vars
    PROVE  AgreementInv'
  <1>1. CASE UNCHANGED vars
    BY <1>1, AgreementOutside DEF vars
  <1> QED
    BY <1>1, AgreementHandler, AgreementGetTip, AgreementLoopHead, AgreementUnconfirmed,
       AgreementBest, AgreementConfirmed, AgreementAsk DEF Next, Alarm, Sync

\* What is watched was looked up when it matters, and what was told is all there is.
LEMMA Agreement == Spec => []AgreementInv
  <1>1. Init => AgreementInv
    <2> SUFFICES ASSUME Init PROVE AgreementInv
      OBVIOUS
    <2>1. Watches(lis) /\ Watches(stored)
      BY DEF Init, Watches, Claimable
    <2> QED
      BY <2>1 DEF Init, AgreementInv, WatchInv, LookedInv, AgreeInv, Working, Asking, Done
  <1>2. Typed /\ SyncInv /\ AttendInv /\ AgreementInv /\ [Next]_vars => AgreementInv'
    BY AgreementStep
  <1> QED
    BY <1>1, <1>2, Invariance, Attendance, PTL DEF Spec

\* When sync() returns Ok and missed nothing, the listeners agree with the chain of the
\* tip it last saw (esplora.rs:51-165).
THEOREM AgreedWhenSynced == Spec => []SyncedMeansAgreed
  <1>1. AgreementInv => SyncedMeansAgreed
    BY DEF AgreementInv, AgreeInv, Done, SyncedMeansAgreed
  <1> QED
    BY <1>1, Agreement, PTL

-----------------------------------------------------------------------------
(* Parents first *)

(* t spends an output that l asks for. *)
Below(t, l) == t = Funding \/ Spends[t] \in l.outs

(* So does all that l has confirmed or asks for. *)
Rooted(l) == \A t \in Txs : l.conf[t] # None \/ t \in l.outs => Below(t, l)

(* So does all that sync() watches, looks up and finds, which is a finite number. *)
WatchedInv ==
  /\ \A t \in st.txs \cup filter.txs : Below(t, lis)
  /\ st.outs \cup filter.outs \subseteq lis.outs
RoundInv ==
  /\ Asking => /\ pass.outs \subseteq lis.outs /\ IsFiniteSet(pass.found)
               /\ \A t \in pass.todo : Below(t, lis)
               /\ \A c \in pass.found : Below(c.tx, lis)
  /\ pc \in {"proof", "height"} => Below(pass.cur.tx, lis)

(* Nothing is registered while a round of sync() asks. *)
QueueInv == pc \in {"unconfirmed", "best"} \/ Asking => filter = EmptyQueue

RootInv == Rooted(lis) /\ Rooted(stored) /\ WatchedInv /\ RoundInv /\ QueueInv

\* A step at which nothing is learnt, and no round of questions begins.
LEMMA RootQuiet ==
    ASSUME RootInv, UNCHANGED <<lis, stored, filter>>, st'.txs = st.txs, st'.outs = st.outs,
           ~Asking', pc' \in {"unconfirmed", "best"} => filter = EmptyQueue
    PROVE  RootInv'
  BY DEF RootInv, Rooted, Below, WatchedInv, RoundInv, QueueInv, Asking

\* An error of sync() leaves the outputs alone, and so does a further round.
LEMMA RootFailed ==
    ASSUME Typed, RootInv, Abort(st) \/ Fail \/ \E hash \in Blocks : Restart(hash)
    PROVE  RootInv'
  <1>1. /\ UNCHANGED <<lis, stored, filter>> /\ pc' \in {"failed", "head"}
        /\ st'.txs = st.txs /\ st'.outs = st.outs
    BY DEF Abort, Fail, Restart, Typed, TypeOK
  <1> QED
    BY <1>1, RootQuiet DEF Asking

\* Around sync() the listeners are what they were or what was stored.
LEMMA RootHandler ==
    ASSUME Typed, RootInv,
           \/ Request \/ Crash \/ AlarmFires \/ Restore \/ DrainAndClaim \/ PersistSessionEnd
           \/ Reschedule \/ (\E b \in Blocks : ChainMoves(b)) \/ (\E t \in Ours : Broadcast(t))
           \/ UNCHANGED vars
    PROVE  RootInv'
  <1>1. CASE \/ Request \/ (\E b \in Blocks : ChainMoves(b)) \/ (\E t \in Ours : Broadcast(t))
             \/ UNCHANGED vars
    <2>1. UNCHANGED <<lis, stored, filter, st, pc, pass>>
      BY <1>1 DEF Request, ChainMoves, Broadcast, vars
    <2> QED
      BY <2>1 DEF RootInv, Rooted, Below, WatchedInv, RoundInv, QueueInv, Asking
  <1>2. CASE Crash \/ Reschedule
    <2>1. /\ pc' = "idle" /\ lis' = stored /\ stored' = stored
          /\ st' = NewSyncState /\ filter' = EmptyQueue
      BY <1>2 DEF Crash, Reschedule, EndOfHandler
    <2> QED
      BY <2>1 DEF RootInv, Rooted, Below, WatchedInv, RoundInv, QueueInv, Asking, NewSyncState,
         EmptyQueue
  <1>3. CASE AlarmFires \/ PersistSessionEnd \/ DrainAndClaim
    <2>1. /\ UNCHANGED <<lis, filter, st>> /\ stored' \in {lis, stored}
          /\ pc' \in {"restore", "reschedule", "flush"}
      BY <1>3 DEF AlarmFires, PersistSessionEnd, DrainAndClaim
    <2> QED
      BY <2>1 DEF RootInv, Rooted, Below, WatchedInv, RoundInv, QueueInv, Asking
  <1>4. CASE Restore
    <2>1. CASE pc' = "reschedule"
      <3>1. UNCHANGED <<lis, stored, filter, st>>
        BY <1>4, <2>1 DEF Restore
      <3> QED
        BY <2>1, <3>1, RootQuiet DEF Asking
    <2>2. CASE pc' # "reschedule"
      <3>1. /\ lis' = stored /\ stored' = stored /\ filter' = Registered(stored)
            /\ st' = NewSyncState /\ pc' = "tip"
        BY <1>4, <2>2 DEF Restore
      <3>2. filter'.txs = {Funding} /\ filter'.outs = lis'.outs
        BY <3>1 DEF Registered, Register
      <3> QED
        BY <3>1, <3>2 DEF RootInv, Rooted, Below, WatchedInv, RoundInv, QueueInv, Asking,
           NewSyncState
    <2> QED
      BY <2>1, <2>2
  <1> QED
    BY <1>1, <1>2, <1>3, <1>4

\* A round looks up what is watched.
LEMMA RootHead == ASSUME Typed, RootInv, LoopHead PROVE RootInv'
  <1>1. pc = "head" /\ UNCHANGED <<lis, stored>>
    BY DEF LoopHead
  <1>2. CASE GiveUp
    <2>1. pc' = "failed" /\ UNCHANGED filter /\ st'.txs = st.txs /\ st'.outs = st.outs
      BY <1>2 DEF LoopHead, Typed, TypeOK
    <2> QED
      BY <1>1, <2>1, RootQuiet DEF Asking
  <1>3. CASE ~GiveUp
    <2>1. /\ st' = ProcessQueues(st, filter) /\ filter' = EmptyQueue
          /\ \/ pc' \in {"drain", "unconfirmed"}
             \/ /\ pc' = "confirmed"
                /\ pass' = [pass EXCEPT !.iter = pass.iter + 1, !.todo = st'.txs,
                                        !.outs = st'.outs]
      BY <1>3 DEF LoopHead
    <2>2. st'.txs = st.txs \cup filter.txs /\ st'.outs = st.outs \cup filter.outs
      BY <2>1 DEF ProcessQueues, Typed, TypeOK
    <2>3. pc' = "confirmed" => /\ pass'.todo = st'.txs /\ pass'.outs = st'.outs
                               /\ pass'.found = {}
      BY <1>1, <2>1 DEF Typed, PassType, PassRec
    <2>4. WatchedInv'
      BY <1>1, <2>1, <2>2 DEF RootInv, WatchedInv, Below, EmptyQueue
    <2>5. RoundInv' /\ QueueInv'
      BY <2>1, <2>3, <2>4, FS_EmptySet DEF RoundInv, QueueInv, WatchedInv, Asking
    <2> QED
      BY <1>1, <2>4, <2>5 DEF RootInv, Rooted, Below
  <1> QED
    BY <1>2, <1>3

\* What is taken back is watched again; it was confirmed, so it is rooted.
LEMMA RootUnconfirmed ==
    ASSUME Typed, AttendInv, RootInv, TellUnconfirmed, ~Fail, ~Restart(tip)
    PROVE  RootInv'
  <1>1. /\ pc = "unconfirmed" /\ pc' = "best" /\ UNCHANGED stored
        /\ \A t \in Txs : lis'.conf[t] = IF t \in pass.found THEN None ELSE lis.conf[t]
    BY TellUnconfirmedFacts
  <1>2. /\ st'.txs = st.txs \cup pass.found
        /\ st'.outs = st.outs \cup {sp.out : sp \in {x \in st.spends : x.tx \in pass.found}}
        /\ UNCHANGED filter /\ lis'.outs = lis.outs
    BY UnconfirmFacts
  <1>3. \A t \in pass.found : t \in Txs /\ lis.conf[t] # None
    BY <1>1 DEF AttendInv, RelevantInv, Relevant
  <1>4. \A sp \in st.spends : /\ sp.tx \in Txs /\ sp.tx # Funding /\ Spends[sp.tx] = sp.out
                              /\ lis.conf[sp.tx] # None
    BY DEF AttendInv, SpendInv, Typed, TypeOK, Spend
  <1>5. WatchedInv'
    BY <1>2, <1>3, <1>4 DEF RootInv, Rooted, WatchedInv, Below
  <1>6. Rooted(lis)' /\ Rooted(stored)'
    BY <1>1, <1>2 DEF RootInv, Rooted, Below
  <1> QED
    BY <1>1, <1>2, <1>5, <1>6 DEF RootInv, RoundInv, QueueInv, Asking

\* After the best block, what is watched is looked up.
LEMMA RootBest ==
    ASSUME Typed, RootInv, TellBest, ~Fail, ~Restart(pass.tip)
    PROVE  RootInv'
  <1>1. /\ pc = "best" /\ pc' = "confirmed" /\ UNCHANGED <<stored, filter>>
        /\ lis'.conf = lis.conf /\ lis'.outs = lis.outs
        /\ st'.txs = st.txs /\ st'.outs = st.outs
        /\ pass'.todo = st.txs /\ pass'.outs = st.outs /\ pass'.found = {}
    BY TellBestFacts
  <1> QED
    BY <1>1, FS_EmptySet DEF RootInv, Rooted, Below, WatchedInv, RoundInv, QueueInv, Asking

\* A question is about what is to be looked up, or what spends an output that is.
LEMMA AskPicks ==
    ASSUME Typed,
           \/ GetSpenderProof \/ GetHeight
           \/ (\E t \in Txs : CheckWatchedTx(t) \/ CheckWatchedOutput(t)),
           ~Fail, ~Restart(pass.tip)
    PROVE  /\ pass'.todo \subseteq pass.todo /\ pass'.outs \subseteq pass.outs
           /\ \A c \in pass'.found : \/ c \in pass.found
                                     \/ pc \in {"proof", "height"} /\ c.tx = pass.cur.tx
           /\ \E x : pass'.found \subseteq pass.found \cup {x}
           /\ pc' \in {"proof", "height"} =>
                \/ pc \in {"proof", "height"} /\ pass'.cur.tx = pass.cur.tx
                \/ pass'.cur.tx \in pass.todo
                \/ \E o \in pass.outs : pass'.cur.tx \in Spenders(o)
  <1>1. pass \in PassRec(pass.found)
    BY DEF Typed, PassType
  <1>2. ASSUME NEW t, NEW p \in PassRec(pass.found), ProofOf(p, t) \/ NoProofOf(p, t)
        PROVE  /\ pass'.todo = p.todo /\ pass'.outs = p.outs /\ pass'.found = pass.found
               /\ pc' \in {"proof", "height"} => pass'.cur.tx = t
    <2> DEFINE q == [p EXCEPT !.missed = p.missed \cup {t}]
               cur == [tx |-> t, block |-> BlockOf(t, tip)]
    <2>1. \/ pc' = "height" /\ pass' = [p EXCEPT !.cur = cur]
          \/ pc' = "confirmed" /\ pass' \in {[p EXCEPT !.cur = None], [q EXCEPT !.cur = None]}
      BY <1>2 DEF ProofOf, NoProofOf, Skip
    <2>2. cur.tx = t
      OBVIOUS
    <2> HIDE DEF cur
    <2> QED
      BY <2>1, <2>2 DEF PassRec
  <1>3. ASSUME NEW t \in Txs, CheckWatchedTx(t)
        PROVE  /\ pass'.todo \subseteq pass.todo /\ pass'.outs = pass.outs
               /\ pass'.found = pass.found
               /\ pc' \in {"proof", "height"} => pass'.cur.tx \in pass.todo
    <2> DEFINE p == [pass EXCEPT !.todo = pass.todo \ {t}]
    <2>1. t \in pass.todo /\ (ProofOf(p, t) \/ NoProofOf(p, t))
      BY <1>3 DEF CheckWatchedTx
    <2>2. /\ p \in PassRec(pass.found) /\ p.todo = pass.todo \ {t} /\ p.outs = pass.outs
      BY <1>1 DEF PassRec
    <2> HIDE DEF p
    <2> QED
      BY <1>2, <2>1, <2>2
  <1>4. ASSUME NEW o \in Txs, CheckWatchedOutput(o)
        PROVE  /\ pass'.todo = pass.todo /\ pass'.outs \subseteq pass.outs
               /\ pass'.found = pass.found
               /\ pc' \in {"proof", "height"} =>
                    \E x \in pass.outs : pass'.cur.tx \in Spenders(x)
    <2> DEFINE p == [pass EXCEPT !.outs = pass.outs \ {o}]
    <2>1. /\ o \in pass.outs
          /\ \/ Skip(p)
             \/ (\E t \in Spender(o) :
                   pass' = [p EXCEPT !.cur = [tx |-> t, block |-> BlockOf(t, tip)]])
      BY <1>4 DEF CheckWatchedOutput
    <2>2. /\ p \in PassRec(pass.found) /\ p.todo = pass.todo /\ p.outs = pass.outs \ {o}
          /\ p.found = pass.found
      BY <1>1 DEF PassRec
    <2> HIDE DEF p
    <2>3. CASE Skip(p)
      BY <2>2, <2>3 DEF Skip, PassRec
    <2>4. ASSUME NEW t \in Spender(o),
                 pass' = [p EXCEPT !.cur = [tx |-> t, block |-> BlockOf(t, tip)]]
          PROVE  /\ pass'.todo = p.todo /\ pass'.outs = p.outs /\ pass'.found = p.found
                 /\ pass'.cur.tx \in Spenders(o)
      <3>1. /\ pass'.todo = p.todo /\ pass'.outs = p.outs /\ pass'.found = p.found
            /\ pass'.cur.tx = t
        BY <2>2, <2>4 DEF PassRec
      <3> QED
        BY <3>1 DEF Spender, ChainSpender
    <2> QED
      BY <2>1, <2>2, <2>3, <2>4
  <1>5. ASSUME pc \in {"proof", "height"}, Keep(pass, pass.cur.tx, pass.cur.block)
        PROVE  /\ pass'.todo = pass.todo /\ pass'.outs = pass.outs /\ pc' = "confirmed"
               /\ \A c \in pass'.found : c \in pass.found \/ c.tx = pass.cur.tx
               /\ \E x : pass'.found \subseteq pass.found \cup {x}
    <2>1. /\ pc' = "confirmed"
          /\ pass' = [pass EXCEPT !.cur = None, !.found = pass.found \cup
                        {[tx |-> pass.cur.tx, block |-> pass.cur.block]}]
      BY <1>5 DEF Keep
    <2> QED
      BY <1>1, <2>1 DEF PassRec
  <1>6. CASE GetSpenderProof
    <2>1. pc = "proof"
      BY <1>6 DEF GetSpenderProof
    <2>2. \/ ProofOf(pass, pass.cur.tx) \/ NoProofOf(pass, pass.cur.tx)
          \/ Keep(pass, pass.cur.tx, pass.cur.block)
      BY <1>6 DEF GetSpenderProof
    <2>3. CASE ProofOf(pass, pass.cur.tx) \/ NoProofOf(pass, pass.cur.tx)
      BY <1>1, <1>2, <2>1, <2>3
    <2>4. CASE Keep(pass, pass.cur.tx, pass.cur.block)
      BY <1>5, <2>1, <2>4
    <2> QED
      BY <2>2, <2>3, <2>4
  <1>7. CASE GetHeight
    <2>1. pc = "height" /\ Keep(pass, pass.cur.tx, pass.cur.block)
      BY <1>7 DEF GetHeight
    <2> QED
      BY <1>5, <2>1
  <1> QED
    BY <1>3, <1>4, <1>6, <1>7

\* What a question turns up is rooted.
LEMMA RootAsk ==
    ASSUME Typed, RootInv,
           \/ GetSpenderProof \/ GetHeight
           \/ (\E t \in Txs : CheckWatchedTx(t) \/ CheckWatchedOutput(t)),
           ~Fail, ~Restart(pass.tip)
    PROVE  RootInv'
  <1>1. Asking /\ Asking' /\ UNCHANGED <<lis, stored, filter, st>>
    BY AskFacts DEF fetched
  <1>2. \A t \in Txs : Below(t, lis)' = Below(t, lis)
    BY <1>1 DEF Below
  <1>3. IsFiniteSet(pass'.found)
    <2>1. PICK x : pass'.found \subseteq pass.found \cup {x}
      BY AskPicks
    <2>2. IsFiniteSet(pass.found \cup {x})
      BY <1>1, FS_AddElement DEF RootInv, RoundInv
    <2> QED
      BY <2>1, <2>2, FS_Subset
  <1>4. /\ pass'.outs \subseteq lis.outs
        /\ \A t \in pass'.todo : Below(t, lis)
        /\ \A c \in pass'.found : Below(c.tx, lis)
        /\ pc' \in {"proof", "height"} => Below(pass'.cur.tx, lis)
    BY <1>1, AskPicks DEF RootInv, RoundInv, Below, Spenders
  <1> QED
    BY <1>1, <1>3, <1>4 DEF RootInv, Rooted, WatchedInv, RoundInv, QueueInv, Below, Asking

\* What the listeners learn is rooted, and so are the outputs they ask for then.
LEMMA RootConfirmed ==
    ASSUME Typed, SyncInv, RootInv, TellConfirmed, ~Fail, ~Restart(tip)
    PROVE  RootInv'
  <1>1. /\ pc = "confirmed" /\ pc' = "head" /\ UNCHANGED stored
        /\ lis' = Connect(lis, pass.found) /\ lis \in Listeners /\ pass.found \in SUBSET Found
    BY TellConfirmedFacts
  <1>2. /\ lis'.outs = lis.outs \cup Claimable({c.tx : c \in pass.found})
        /\ filter'.txs = filter.txs /\ filter'.outs = filter.outs \cup (lis'.outs \ lis.outs)
        /\ st'.txs = st.txs \ {c.tx : c \in pass.found}
    BY TellConfirmedEffect
  <1>3. st'.outs \subseteq st.outs
    <2>1. /\ st' = [Confirm(st, pass.found) EXCEPT !.last = pass.tip, !.pending = FALSE]
          /\ st \in [txs : SUBSET Txs, outs : SUBSET Txs, spends : SUBSET Spend,
                     last : Blocks \cup {None}, pending : BOOLEAN]
      BY TellConfirmedFacts DEF Typed, TypeOK
    <2>2. st'.outs = Confirm(st, pass.found).outs
      BY <1>1, <2>1, ConfirmType
    <2>3. Confirm(st, pass.found).outs \subseteq st.outs
      BY <2>1 DEF Confirm
    <2> QED
      BY <2>2, <2>3
  <1>4. \A c \in pass.found : c.tx \in Txs /\ Below(c.tx, lis)
    BY <1>1 DEF RootInv, RoundInv, Asking, Found
  <1>5. \A t \in Txs : Below(t, lis) => Below(t, lis')
    BY <1>2 DEF Below
  <1>6. ASSUME NEW t \in Txs, lis'.conf[t] # None \/ t \in lis'.outs
        PROVE  Below(t, lis')
    <2>1. CASE lis.conf[t] # None \/ t \in lis.outs
      BY <1>5, <2>1 DEF RootInv, Rooted
    <2>2. CASE ~(lis.conf[t] # None \/ t \in lis.outs)
      <3>1. \E c \in pass.found : c.tx = t
        <4>1. CASE lis'.conf[t] # None
          BY <1>1, <2>2, <4>1, ConnectType
        <4>2. CASE t \in lis'.outs
          BY <1>2, <2>2, <4>2 DEF Claimable
        <4> QED
          BY <1>6, <4>1, <4>2
      <3> QED
        BY <1>4, <1>5, <3>1
    <2> QED
      BY <2>1, <2>2
  <1>7. Rooted(lis)' /\ Rooted(stored)'
    BY <1>1, <1>6 DEF RootInv, Rooted, Below
  <1>8. WatchedInv'
    <2>1. st.txs \cup filter.txs \subseteq Txs
      BY DEF Typed, TypeOK
    <2>2. \A t \in st'.txs \cup filter'.txs : t \in Txs /\ Below(t, lis)
      BY <1>2, <2>1 DEF RootInv, WatchedInv
    <2>3. st'.outs \cup filter'.outs \subseteq lis'.outs
      BY <1>2, <1>3 DEF RootInv, WatchedInv
    <2> QED
      BY <1>5, <2>2, <2>3 DEF WatchedInv, Below
  <1> QED
    BY <1>1, <1>7, <1>8 DEF RootInv, RoundInv, QueueInv, Asking

\* Every step keeps the outputs rooted.
LEMMA RootStep == ASSUME Typed, SyncInv, AttendInv, RootInv, [Next]_vars PROVE RootInv'
  <1>1. CASE Abort(st) \/ Fail \/ \E hash \in Blocks : Restart(hash)
    BY <1>1, RootFailed
  <1>2. CASE GetTip /\ ~Abort(st)
    <2>1. pc' = "head" /\ UNCHANGED <<lis, stored, filter, st>>
      BY <1>2 DEF GetTip
    <2> QED
      BY <2>1, RootQuiet DEF Asking
  <1>3. ASSUME NEW t \in Txs, CheckRelevant(t), ~Fail PROVE RootInv'
    <2>1. pc = "unconfirmed" /\ UNCHANGED <<lis, stored, filter, st, pc>>
      BY <1>3 DEF CheckRelevant
    <2> QED
      BY <2>1, RootQuiet DEF RootInv, QueueInv, Asking
  <1>4. CASE /\ \/ TellUnconfirmed \/ TellBest \/ TellConfirmed \/ GetSpenderProof \/ GetHeight
                \/ \E t \in Txs : CheckWatchedTx(t) \/ CheckWatchedOutput(t)
             /\ ~Fail /\ ~\E hash \in Blocks : Restart(hash)
    <2>1. tip \in Blocks /\ pass.tip \in Blocks
      BY <1>4 DEF TellUnconfirmed, TellBest, TellConfirmed, GetSpenderProof, GetHeight,
         CheckWatchedTx, CheckWatchedOutput, Typed, TypeOK, PassType
    <2>2. ~Restart(tip) /\ ~Restart(pass.tip)
      BY <1>4, <2>1
    <2> QED
      BY <1>4, <2>2, RootUnconfirmed, RootBest, RootConfirmed, RootAsk
  <1> QED
    BY <1>1, <1>2, <1>3, <1>4, RootHandler, RootHead DEF Next, Alarm, Sync

\* All that is asked for spends an output that was asked for before.
LEMMA Rootedness == Spec => []RootInv
  <1>1. Init => RootInv
    BY DEF Init, RootInv, Rooted, Below, WatchedInv, RoundInv, QueueInv, Asking, NewSyncState,
       EmptyQueue
  <1>2. Typed /\ SyncInv /\ AttendInv /\ RootInv /\ [Next]_vars => RootInv'
    BY RootStep
  <1> QED
    BY <1>1, <1>2, Invariance, Attendance, PTL DEF Spec

\* The parent of what was found is known, was found too, or was missed: it spends an output
\* that is watched, or that only a transaction known to the listeners may spend.
LEMMA ParentLooked ==
    ASSUME Typed, SyncInv, AttendInv, AgreementInv, RootInv,
           TellConfirmed, ~Fail, ~Restart(tip),
           NEW c \in pass.found, c.tx # Funding
    PROVE  \/ lis.conf[Spends[c.tx]] # None \/ Spends[c.tx] \in pass.missed
           \/ IsFound(Spends[c.tx])
  <1>1. /\ pc = "confirmed" /\ tip = pass.tip /\ tip \in Blocks
        /\ pass.todo = {} /\ pass.outs = {} /\ c \in Found
    BY TellConfirmedFacts DEF TellConfirmed, Typed, TypeOK
  <1>2. c.tx \in Txs \ {Funding} /\ BlockOf(c.tx, tip) # None /\ Spends[c.tx] \in Txs
    BY <1>1 DEF SyncInv, FoundInv, Found
  <1>3. PICK p \in Txs : p = Spends[c.tx]
    BY <1>2
  <1>4. BlockOf(p, tip) # None
    BY <1>1, <1>2, <1>3, ParentInChain
  <1>5. filter = EmptyQueue /\ Below(c.tx, lis)
    BY <1>1 DEF RootInv, QueueInv, RoundInv, Asking
  <1>6. /\ \A u \in st.txs : Looked(u)
        /\ \A o \in st.outs : \A u \in Spenders(o) : Looked(u)
    BY <1>1 DEF AgreementInv, LookedInv, Asking
  <1>7. ASSUME Looked(p) PROVE IsFound(p) \/ p \in pass.missed
    BY <1>1, <1>4, <1>7 DEF Looked
  <1>8. CASE p = Funding
    <2>1. Funding \in st.txs \/ lis.conf[Funding] # None
      BY <1>1, <1>5 DEF AgreementInv, WatchInv, Working, EmptyQueue
    <2> QED
      BY <1>3, <1>6, <1>7, <1>8, <2>1
  <1>9. CASE p # Funding
    <2>1. PICK o \in Txs : o = Spends[p] /\ p \in Spenders(o)
      BY <1>9 DEF Spenders
    <2>2. o \in lis.outs
      BY <1>2, <1>3, <1>5, <1>9, <2>1 DEF RootInv, Rooted, Below
    <2>3. ASSUME NEW v \in Spenders(o), lis.conf[v] # None PROVE lis.conf[p] # None
      <3>1. v \in Txs \ {Funding} /\ Spends[v] = o
        BY DEF Spenders
      <3>2. v \in TxsIn[lis.conf[v]] /\ lis.conf[v] \in Chain[tip]
        BY <1>1, <2>3, <3>1 DEF SyncInv, ListenInv, Grounded, KnownInv, Known
      <3>3. BlockOf(v, tip) # None
        BY <1>1, <3>1, <3>2, OneBlock
      <3>4. v = p
        BY <1>1, <1>4, <1>9, <2>1, <3>1, <3>3, OneSpender
      <3> QED
        BY <2>3, <3>4
    <2>4. ASSUME NEW sp \in st.spends, sp.out = o, lis.conf[sp.tx] # None
          PROVE  sp.tx \in Spenders(o)
      BY <2>4 DEF AttendInv, SpendInv, Typed, TypeOK, Spend, Spenders
    <2>5. \/ o \in st.outs
          \/ \E sp \in st.spends : sp.out = o /\ lis.conf[sp.tx] # None
          \/ \E v \in Spenders(o) : lis.conf[v] # None
      <3>1. \/ o \in filter.outs \cup st.outs
            \/ \E sp \in st.spends : sp.out = o /\ lis.conf[sp.tx] # None
            \/ \E v \in Spenders(o) : lis.conf[v] # None /\ Buried(lis.conf[v], lis.best)
        BY <1>1, <2>2 DEF AttendInv, NoOutputUnattended
      <3> QED
        BY <1>5, <3>1 DEF EmptyQueue
    <2> QED
      BY <1>3, <1>6, <1>7, <2>1, <2>3, <2>4, <2>5
  <1> QED
    BY <1>8, <1>9

\* Only telling confirmations changes what was told last, but for its being forgotten.
LEMMA WhoBatches ==
    ASSUME [Next]_vars, batch' # batch
    PROVE  batch' = <<>> \/ (TellConfirmed /\ ~Fail /\ ~Restart(tip))
  <1>1. CASE UNCHANGED vars \/ Request \/ Crash \/ \E b \in Blocks : ChainMoves(b)
    BY <1>1 DEF vars, Request, Crash, ChainMoves, EndOfHandler
  <1>2. CASE AlarmFires \/ Restore \/ DrainAndClaim \/ PersistSessionEnd \/ Reschedule
             \/ \E s \in Ours : Broadcast(s)
    BY <1>2 DEF AlarmFires, Restore, DrainAndClaim, PersistSessionEnd, Reschedule,
       Broadcast, EndOfHandler, handler
  <1>3. CASE GetTip \/ LoopHead \/ GetSpenderProof \/ GetHeight \/ TellUnconfirmed \/ TellBest
    BY <1>3 DEF GetTip, LoopHead, GetSpenderProof, GetHeight, TellUnconfirmed, TellBest,
       Fail, Abort, Restart, ProofOf, NoProofOf, fetched, handler
  <1>4. CASE \E s \in Txs : CheckRelevant(s) \/ CheckWatchedTx(s) \/ CheckWatchedOutput(s)
    BY <1>4 DEF CheckRelevant, CheckWatchedTx, CheckWatchedOutput, Fail, Abort, Restart,
       ProofOf, NoProofOf, fetched, handler
  <1>5. ~Fail /\ ~Restart(tip)
    BY DEF Fail, Abort, Restart, handler
  <1> QED
    BY <1>1, <1>2, <1>3, <1>4, <1>5 DEF Next, Alarm, Sync

\* When the listeners are told of a transaction they know the one that it spends: they had
\* it confirmed or it comes first, unless its own request failed and was read as "not found"
\* (esplora.rs:337-341, client.rs:105).
THEOREM ParentsToldFirst == Spec => ParentsFirst
  <1>1. ASSUME Typed, SyncInv, AttendInv, AgreementInv, RootInv, [Next]_vars
        PROVE  ToldInOrder
    <2> SUFFICES ASSUME batch' # batch, NEW j \in DOMAIN batch', batch'[j].tx # Funding
                 PROVE  \/ lis.conf[Spends[batch'[j].tx]] # None
                        \/ \E i \in 1..(j - 1) : batch'[i].tx = Spends[batch'[j].tx]
                        \/ Spends[batch'[j].tx] \in pass.missed
      BY DEF ToldInOrder, KnowsParent
    <2>1. TellConfirmed /\ ~Fail /\ ~Restart(tip)
      BY <1>1, WhoBatches
    <2>2. /\ batch' \in Sorted(pass.found) /\ tip = pass.tip /\ tip \in Blocks
          /\ pass.found \in SUBSET Found /\ pc = "confirmed"
      BY <1>1, <2>1, TellConfirmedFacts DEF TellConfirmed, Typed, TypeOK
    <2>3. \A c \in pass.found : c.block = BlockOf(c.tx, tip)
      BY <1>1, <2>2 DEF SyncInv, FoundInv
    <2>4. /\ DOMAIN batch' = 1..Cardinality(pass.found) /\ batch'[j] \in pass.found
          /\ \A c \in pass.found : \E i \in DOMAIN batch' : batch'[i] = c
      BY <1>1, <2>2, SortedAll DEF RootInv, RoundInv, Asking
    <2>5. CASE IsFound(Spends[batch'[j].tx])
      <3>1. PICK i \in DOMAIN batch' : batch'[i].tx = Spends[batch'[j].tx]
        BY <2>4, <2>5 DEF IsFound
      <3>2. PICK q \in Sorted(pass.found) : q = batch'
        BY <2>2
      <3>3. i \in DOMAIN q /\ j \in DOMAIN q
        BY <3>1, <3>2
      <3>4. q[j].tx # Funding /\ Spends[q[j].tx] = q[i].tx
        BY <3>1, <3>2
      <3>5. i < j
        BY <2>2, <2>3, <3>3, <3>4, SortedFacts
      <3>6. i \in Nat /\ j \in Nat /\ i >= 1
        BY <2>4, <3>1
      <3> QED
        BY <3>1, <3>5, <3>6
    <2> QED
      BY <1>1, <2>1, <2>4, <2>5, ParentLooked
  <1>2. Typed /\ SyncInv /\ AttendInv /\ AgreementInv /\ RootInv /\ [Next]_vars
          => [ToldInOrder]_vars
    BY <1>1
  <1> QED
    BY <1>2, Invariance, Attendance, Agreement, Rootedness, PTL DEF Spec, ParentsFirst

-----------------------------------------------------------------------------
(* The contract of the listeners *)

(* While the tip stays: what was found missing is not in the chain. *)
GoneInv ==
  (pc = "unconfirmed" /\ tip = pass.tip) =>
    \A t \in pass.found : lis.conf[t] \notin Chain[tip]

\* Only LoopHead starts to look for what left the chain.
LEMMA WhoLooks ==
    ASSUME Typed, [Next]_vars, pc' = "unconfirmed"
    PROVE  \/ LoopHead
           \/ \E t \in Txs : CheckRelevant(t)
           \/ UNCHANGED <<tip, lis, pc, pass>>
           \/ \E b \in Blocks : ChainMoves(b)
  <1>1. CASE UNCHANGED vars \/ Request \/ \E t \in Ours : Broadcast(t)
    BY <1>1 DEF vars, Request, Broadcast, net
  <1>2. CASE \/ Crash \/ AlarmFires \/ Restore \/ DrainAndClaim \/ PersistSessionEnd \/ Reschedule
    BY <1>2 DEF Crash, AlarmFires, Restore, DrainAndClaim, PersistSessionEnd, Reschedule,
       EndOfHandler
  <1>3. CASE GetTip \/ TellUnconfirmed \/ TellBest \/ TellConfirmed
    BY <1>3 DEF GetTip, TellUnconfirmed, TellBest, TellConfirmed, Fail, Abort, Restart
  <1>4. CASE GetSpenderProof \/ GetHeight
    BY <1>4 DEF GetSpenderProof, GetHeight, ProofOf, NoProofOf, Skip, Keep, Fail, Abort, Restart
  <1>5. CASE \E t \in Txs : CheckWatchedTx(t) \/ CheckWatchedOutput(t)
    BY <1>5 DEF CheckWatchedTx, CheckWatchedOutput, ProofOf, NoProofOf, Skip, Fail, Abort, Restart
  <1> QED
    BY <1>1, <1>2, <1>3, <1>4, <1>5 DEF Next, Alarm, Sync

\* What is found missing stays missing until the tip moves.
LEMMA GoneStep == ASSUME Typed, SyncInv, GoneInv, [Next]_vars PROVE GoneInv'
  <1> SUFFICES ASSUME pc' = "unconfirmed" PROVE GoneInv'
    BY DEF GoneInv
  <1>1. CASE LoopHead
    <2>1. pass.found = {} /\ pass' = [pass EXCEPT !.iter = pass.iter + 1, !.todo = Relevant(lis)]
      BY <1>1 DEF LoopHead, Typed, PassType
    <2>2. pass'.found = {}
      BY <2>1 DEF Typed, PassType, PassRec
    <2> QED
      BY <2>2 DEF GoneInv
  <1>2. ASSUME NEW t \in Txs, CheckRelevant(t) PROVE GoneInv'
    <2>1. /\ pc = "unconfirmed" /\ UNCHANGED <<tip, lis>>
          /\ pass' = [pass EXCEPT !.todo = pass.todo \ {t},
               !.found = IF InBestChain(lis.conf[t]) THEN pass.found ELSE pass.found \cup {t}]
      BY <1>2 DEF CheckRelevant, Fail, Abort, handler, net
    <2>2. /\ pass'.tip = pass.tip
          /\ pass'.found = IF InBestChain(lis.conf[t]) THEN pass.found ELSE pass.found \cup {t}
      BY <2>1 DEF Typed, PassType, PassRec
    <2> QED
      BY <2>1, <2>2 DEF GoneInv, InBestChain
  <1>3. CASE UNCHANGED <<tip, lis, pc, pass>>
    BY <1>3 DEF GoneInv
  <1>4. ASSUME NEW b \in Blocks, ChainMoves(b) PROVE GoneInv'
    <2>1. /\ tip' = b /\ Height[b] > Height[tip] /\ UNCHANGED <<pc, pass>>
          /\ tip \in Blocks /\ pass.tip \in Blocks /\ Le(pass.tip, tip)
      BY <1>4 DEF ChainMoves, Typed, TypeOK, PassType, SyncInv, TipInv, Active
    <2>2. tip' # pass'.tip
      BY <2>1, LeFacts
    <2> QED
      BY <2>2 DEF GoneInv
  <1> QED
    BY <1>1, <1>2, <1>3, <1>4, WhoLooks

\* Nothing is told, nothing stored and the tip stays: a stutter of the contract.
LEMMA HonourQuiet == ASSUME UNCHANGED <<tip, lis, stored>> PROVE UNCHANGED Contract!contract
  BY DEF Contract!contract, View

\* What happens around sync(): the tip moves, listeners are saved or restored.
LEMMA HonourHandler ==
    ASSUME \/ Request \/ Crash \/ AlarmFires \/ Restore \/ DrainAndClaim \/ PersistSessionEnd
           \/ Reschedule \/ (\E b \in Blocks : ChainMoves(b)) \/ (\E t \in Ours : Broadcast(t))
    PROVE  [Contract!Advance]_(Contract!contract)
  <1>1. CASE Request \/ AlarmFires \/ (\E t \in Ours : Broadcast(t)) \/ (Restore /\ lis' = lis)
    <2>1. UNCHANGED <<tip, lis, stored>>
      BY <1>1 DEF Request, AlarmFires, Broadcast, Restore, handler, net
    <2> QED
      BY <2>1, HonourQuiet
  <1>2. CASE Crash \/ Reschedule \/ (Restore /\ lis' # lis)
    <2>1. lis' = stored /\ UNCHANGED <<tip, stored>>
      BY <1>2 DEF Crash, Reschedule, Restore, handler, net
    <2>2. Contract!Restart
      BY <2>1 DEF Contract!Restart, View
    <2> QED
      BY <2>2 DEF Contract!Advance
  <1>3. CASE DrainAndClaim \/ PersistSessionEnd
    <2>1. stored' = lis /\ UNCHANGED <<tip, lis>>
      BY <1>3 DEF DrainAndClaim, PersistSessionEnd, handler, net
    <2>2. Contract!Save
      BY <2>1 DEF Contract!Save, View
    <2> QED
      BY <2>2 DEF Contract!Advance
  <1>4. ASSUME NEW b \in Blocks, ChainMoves(b) PROVE Contract!Advance
    <2>1. Contract!Move(b)
      BY <1>4 DEF ChainMoves, Contract!Move, View
    <2> QED
      BY <2>1 DEF Contract!Advance
  <1> QED
    BY <1>1, <1>2, <1>3, <1>4

\* The transactions that left the chain are taken back, and were confirmed before.
LEMMA HonourUnconfirmed ==
    ASSUME Typed, AttendInv, GoneInv, TellUnconfirmed, ~Fail, ~Restart(tip)
    PROVE  Contract!Advance
  <1>1. /\ pc = "unconfirmed" /\ tip = pass.tip /\ UNCHANGED <<tip, stored>>
        /\ \A t \in Txs : lis'.conf[t] = IF t \in pass.found THEN None ELSE lis.conf[t]
        /\ lis'.best = lis.best
    BY TellUnconfirmedFacts
  <1>2. pass.found \subseteq Txs
    BY <1>1 DEF Typed, PassType
  <1>3. \A t \in pass.found : lis.conf[t] # None /\ lis.conf[t] \notin Chain[tip]
    BY <1>1 DEF AttendInv, RelevantInv, Relevant, GoneInv
  <1>4. lis' = Disconnect(lis, pass.found) /\ lis \in Listeners
    BY DEF TellUnconfirmed, Typed, TypeOK
  <1>5. lis'.conf = [t \in Txs |-> IF t \in pass.found THEN None ELSE lis.conf[t]]
    BY <1>4 DEF Disconnect, Listeners
  <1>6. Contract!Unconfirmed(pass.found)
    BY <1>1, <1>3, <1>5 DEF Contract!Unconfirmed, View
  <1> QED
    BY <1>2, <1>6 DEF Contract!Advance

\* A best block is told once the listeners have nothing confirmed outside its chain.
LEMMA HonourBest ==
    ASSUME Typed, SyncInv, AttendInv, TellBest, ~Fail, ~Restart(pass.tip)
    PROVE  Contract!Advance
  <1>1. /\ pc = "best" /\ UNCHANGED <<tip, stored>> /\ pass.tip \in Blocks
        /\ lis'.conf = lis.conf /\ lis'.best = pass.tip
    BY TellBestFacts
  <1>2. pass.tip \in Chain[tip]
    BY DEF TellBest, InBestChain
  <1>3. Known(lis, pass.tip) /\ Le(lis.best, pass.tip) /\ lis.best \in Blocks
    BY <1>1 DEF SyncInv, KnownInv, AttendInv, BestInv, Active, Typed, TypeOK, Listeners
  <1>4. Height[lis.best] <= Height[pass.tip]
    BY <1>1, <1>3, LeFacts
  <1>5. Contract!BestBlock(pass.tip)
    BY <1>1, <1>2, <1>3, <1>4 DEF Contract!BestBlock, View, Known
  <1> QED
    BY <1>1, <1>5 DEF Contract!Advance

\* What is told confirmed was not before, and is in the chain of the best block told.
LEMMA HonourConfirmed ==
    ASSUME Typed, SyncInv, AttendInv, TellConfirmed, ~Fail, ~Restart(tip)
    PROVE  Contract!Advance
  <1> DEFINE new == {t \in Txs : lis'.conf[t] # lis.conf[t]}
  <1>1. /\ pc = "confirmed" /\ tip = pass.tip /\ UNCHANGED <<tip, stored>>
        /\ lis' = Connect(lis, pass.found) /\ lis \in Listeners /\ pass.found \in SUBSET Found
    BY TellConfirmedFacts
  <1>2. /\ \A t \in Txs : \/ lis.conf[t] # None /\ lis'.conf[t] = lis.conf[t]
                          \/ lis.conf[t] = None /\ lis'.conf[t] \in {None, BlockOf(t, tip)}
        /\ lis'.best = lis.best
    BY TellConfirmedEffect
  <1>3. lis.best = tip
    BY <1>1 DEF AttendInv, BestInv, Asking
  <1>4. lis' \in Listeners
    BY <1>1, ConnectType
  <1>5. ASSUME NEW t \in new
        PROVE  /\ lis.conf[t] = None /\ \E a \in Chain[tip] : t \in TxsIn[a]
               /\ lis'.conf[t] = Contract!Holder(t)
    <2>1. lis.conf[t] = None /\ lis'.conf[t] = BlockOf(t, tip) /\ BlockOf(t, tip) # None
      BY <1>2
    <2> QED
      BY <2>1 DEF BlockOf, Contract!Holder
  <1>6. lis'.conf = [t \in Txs |-> IF t \in new THEN Contract!Holder(t) ELSE lis.conf[t]]
    <2>1. \A t \in Txs : lis'.conf[t] = IF t \in new THEN Contract!Holder(t) ELSE lis.conf[t]
      BY <1>5
    <2>2. lis'.conf = [t \in Txs |-> lis'.conf[t]]
      BY <1>4 DEF Listeners
    <2> QED
      BY <2>1, <2>2
  <1>7. new \subseteq Txs
    OBVIOUS
  <1> HIDE DEF new
  <1>8. Contract!Confirmed(new)
    BY <1>1, <1>2, <1>3, <1>5, <1>6 DEF Contract!Confirmed, View
  <1> QED
    BY <1>7, <1>8 DEF Contract!Advance

\* Every step of the alarm is a step of the contract, or none.
LEMMA HonourStep ==
    ASSUME Typed, SyncInv, AttendInv, GoneInv, [Next]_vars
    PROVE  [Contract!Advance]_(Contract!contract)
  <1>1. CASE UNCHANGED vars \/ GetTip \/ LoopHead \/ Fail \/ \E hash \in Blocks : Restart(hash)
    BY <1>1, HonourQuiet DEF vars, GetTip, LoopHead, Fail, Abort, Restart, handler, net
  <1>2. ASSUME NEW t \in Txs, CheckRelevant(t) PROVE UNCHANGED Contract!contract
    BY <1>2, HonourQuiet DEF CheckRelevant, Fail, Abort, handler, net
  <1>3. CASE \/ GetSpenderProof \/ GetHeight
             \/ \E t \in Txs : CheckWatchedTx(t) \/ CheckWatchedOutput(t)
    <2>1. pass.tip \in Blocks
      BY <1>3 DEF GetSpenderProof, GetHeight, CheckWatchedTx, CheckWatchedOutput, Typed, PassType
    <2>2. CASE Fail \/ Restart(pass.tip)
      BY <1>1, <2>1, <2>2
    <2>3. CASE ~Fail /\ ~Restart(pass.tip)
      BY <1>3, <2>3, AskFacts, HonourQuiet DEF fetched, handler, net
    <2> QED
      BY <2>2, <2>3
  <1>4. CASE TellUnconfirmed \/ TellBest \/ TellConfirmed
    <2>1. tip \in Blocks /\ pass.tip \in Blocks
      BY <1>4 DEF TellUnconfirmed, TellBest, TellConfirmed, Typed, TypeOK, PassType
    <2>2. CASE Fail \/ Restart(tip) \/ Restart(pass.tip)
      BY <1>1, <2>1, <2>2
    <2>3. CASE ~Fail /\ ~Restart(tip) /\ ~Restart(pass.tip)
      BY <1>4, <2>3, HonourUnconfirmed, HonourBest, HonourConfirmed
    <2> QED
      BY <2>2, <2>3
  <1> QED
    BY <1>1, <1>2, <1>3, <1>4, HonourHandler DEF Next, Alarm, Sync

\* sync() feeds the listeners as ConfirmListener promises, whatever moves, fails or is
\* evicted (common.rs:28-113, esplora.rs:51-165).
THEOREM ContractHonoured == Spec => Honours
  <1>1. Init => GoneInv
    BY DEF Init, GoneInv
  <1>2. Typed /\ SyncInv /\ GoneInv /\ [Next]_vars => GoneInv'
    BY GoneStep
  <1>3. Init => Contract!Start
    BY DEF Init, Contract!Start, View
  <1>4. Typed /\ SyncInv /\ AttendInv /\ GoneInv /\ [Next]_vars
          => [Contract!Advance]_(Contract!contract)
    BY HonourStep
  <1> QED
    BY <1>1, <1>2, <1>3, <1>4, Invariance, Attendance, PTL DEF Spec, Honours, Contract!Spec
=============================================================================
