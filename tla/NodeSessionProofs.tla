------------------------- MODULE NodeSessionProofs -------------------------
(***************************************************************************)
(* Proofs about NodeSession, for any set of channels, any bound on the     *)
(* update ids, and any sequence of sessions, failures and crashes.         *)
(***************************************************************************)
EXTENDS NodeSession, SequenceTheorems, TLAPS

-----------------------------------------------------------------------------
\* The versions that reads and crashes see are versions.
LEMMA VersionsAreTyped ==
    ASSUME TypeOK
    PROVE  /\ Durable \in Version /\ Visible \in Version
           /\ \A i \in 1 .. Len(log) : log[i] \in Version
BY DEF TypeOK, Durable, Visible

\* A one-version log and a log with one more version are logs.
LEMMA LogsAreTyped ==
    ASSUME NEW v \in Version, NEW s \in Seq(Version)
    PROVE  /\ <<v>> \in Seq(Version) /\ Len(<<v>>) = 1 /\ <<v>>[1] = v
           /\ Append(s, v) \in Seq(Version) /\ Len(Append(s, v)) = Len(s) + 1
OBVIOUS

LEMMA DropNodeTyped ==
    ASSUME DropNode
    PROVE  /\ pc' \in Points /\ kind' \in Kinds /\ ret' \in {"write", "tick", "endPut"}
           /\ failing' \in BOOLEAN /\ timedOut' \in BOOLEAN
           /\ monitor' \in Ids /\ latest' \in Ids /\ done' \in Ids /\ acked' \in Ids
           /\ pending' \in IdSets /\ queue' \in IdSets /\ batch' \in IdSets
           /\ closed' \in SUBSET Channels /\ outbound' \in Ids
           /\ stepClaims' \in SUBSET Claims /\ allClaimed' \in SUBSET Claims
BY DEF DropNode, Points, Kinds, Ids, IdSets, Zero, None

\* The initial state is typed.
LEMMA InitTyped == Init => TypeOK
<1> SUFFICES ASSUME Init PROVE TypeOK
  OBVIOUS
<1> DEFINE v == [monitor |-> Zero, latest |-> Zero, done |-> Zero, closed |-> {}]
<1>1. v \in Version
  BY DEF Version, Ids, Zero
<1>2. log \in Seq(Version) /\ Len(log) >= 1
  <2> HIDE DEF v
  <2>1. log = <<v>>
    BY DEF Init, v
  <2> QED BY <1>1, <2>1, LogsAreTyped
<1>3. /\ monitor \in Ids /\ latest \in Ids /\ done \in Ids /\ acked \in Ids
      /\ pending \in IdSets /\ queue \in IdSets /\ batch \in IdSets
      /\ outbound \in Ids /\ revealed \in Ids
  BY DEF Init, Ids, IdSets, Zero, None
<1> QED BY <1>2, <1>3 DEF Init, TypeOK, Points, Kinds

-----------------------------------------------------------------------------
\* The steps that only move the request.
LEMMA ControlTyped ==
    ASSUME TypeOK,
           \/ \E k \in Kinds : Begin(k)
           \/ Connect \/ Expire \/ SocketClosed \/ Exit
    PROVE  TypeOK'
<1>1. ASSUME NEW k \in Kinds, Begin(k) PROVE TypeOK'
  BY <1>1 DEF Begin, TypeOK, Points, nodeVars, bufferVars, stepVars, historyVars
<1>2. CASE Connect
  BY <1>2 DEF Connect, TypeOK, Points, nodeVars, bufferVars, stepVars, historyVars
<1>3. CASE Expire
  BY <1>3 DEF Expire, TypeOK, Points, nodeVars, bufferVars, stepVars, historyVars
<1>4. CASE SocketClosed
  BY <1>4 DEF SocketClosed, TypeOK, Points, nodeVars, bufferVars, stepVars, historyVars
<1>5. CASE Exit
  BY <1>5 DEF Exit, TypeOK, Points, nodeVars, bufferVars, stepVars, historyVars
<1> QED BY <1>1, <1>2, <1>3, <1>4, <1>5

LEMMA SetupFromStorageTyped ==
    ASSUME TypeOK, SetupFromStorage
    PROVE  TypeOK'
<1>1. Visible \in Version
  BY VersionsAreTyped
<1>2. FirstPoint[kind] \in Points
  BY DEF FirstPoint, Points, TypeOK, Kinds
<1>3. closed' \in SUBSET Channels
  BY <1>1 DEF SetupFromStorage, Outdated, Version
<1>4. monitor' \in Ids /\ latest' \in Ids /\ done' \in Ids /\ acked' \in Ids
  BY <1>1 DEF SetupFromStorage, Version, Ids
<1>5. pending' \in IdSets
  BY DEF SetupFromStorage, None, IdSets
<1> QED BY <1>2, <1>3, <1>4, <1>5 DEF SetupFromStorage, TypeOK, bufferVars, stepVars, historyVars

LEMMA TimerTickTyped ==
    ASSUME TypeOK, TimerTick
    PROVE  TypeOK'
<1>1. done' \in Ids /\ monitor' \in Ids
  BY DEF TimerTick, TypeOK, Ids, Handled
<1>2. pending' \in IdSets /\ queue' \in IdSets
  BY DEF TimerTick, TypeOK, Ids, IdSets, Missing
<1> QED BY <1>1, <1>2 DEF TimerTick, TypeOK, Points, stepVars, historyVars

\* The ids of a pump step are naturals, and do not go back.
LEMMA LastTyped ==
    ASSUME TypeOK, NEW c \in Channels, NEW early, NEW late
    PROVE  /\ Sent(c, early) \in Nat /\ Last(c, early, late) \in Nat
           /\ latest[c] <= Sent(c, early) /\ Sent(c, early) <= Last(c, early, late)
           /\ c \in late => Last(c, early, late) = Sent(c, early) + 1
           /\ Fresh(c, Last(c, early, late)) \subseteq Nat
<1>1. latest[c] \in Nat /\ monitor[c] \in Nat
  BY DEF TypeOK, Ids
<1> QED BY <1>1 DEF Sent, Last, Bump, Fresh

LEMMA AdvanceTyped ==
    ASSUME TypeOK, NEW early, NEW late, Advance(early, late)
    PROVE  monitor' \in Ids /\ latest' \in Ids /\ pending' \in IdSets
<1>1. monitor' \in Ids /\ latest' \in Ids
  BY LastTyped DEF Advance, Ids
<1>2. pending' \in IdSets
  BY LastTyped DEF Advance, IdSets, TypeOK
<1> QED BY <1>1, <1>2

LEMMA HandledTyped ==
    ASSUME TypeOK
    PROVE  [c \in Channels |-> Handled(c)] \in Ids
BY DEF TypeOK, Ids, Handled

LEMMA PumpStepTyped ==
    ASSUME TypeOK, PumpStep
    PROVE  TypeOK'
<1>1. PICK early \in SUBSET (Channels \ closed), late \in SUBSET (Channels \ closed) :
      \E claims \in SUBSET late : Pump(early, late, claims)
  BY DEF PumpStep
<1>2. PICK claims \in SUBSET late : Pump(early, late, claims)
  BY <1>1
<1>3. monitor' \in Ids /\ latest' \in Ids /\ pending' \in IdSets
  BY <1>2, AdvanceTyped DEF Pump
<1>4. done' \in Ids /\ outbound' \in Ids
  BY <1>2, HandledTyped DEF Pump, Ids
<1>5. queue' \in IdSets /\ batch' \in IdSets
  BY <1>2, LastTyped DEF Pump, IdSets, None, TypeOK
<1>6. stepClaims' \in SUBSET Claims
  BY <1>2, LastTyped DEF Pump, Claims
<1>7. pc' \in Points /\ ret' \in {"write", "tick", "endPut"}
  BY <1>2 DEF Pump, Points
<1> QED BY <1>3, <1>4, <1>5, <1>6, <1>7 DEF PumpStep, TypeOK

LEMMA PumpStepThrowsTyped ==
    ASSUME TypeOK, PumpStepThrows
    PROVE  TypeOK'
<1>1. PICK early \in SUBSET (Channels \ closed), late \in SUBSET (Channels \ closed) :
      PumpThrows(early, late)
  BY DEF PumpStepThrows
<1>2. monitor' \in Ids /\ latest' \in Ids /\ pending' \in IdSets
  BY <1>1, AdvanceTyped DEF PumpThrows
<1>3. done' \in Ids
  BY <1>1, HandledTyped DEF PumpThrows, TypeOK
<1>4. queue' \in IdSets
  BY <1>1, LastTyped DEF PumpThrows, IdSets, TypeOK
<1> QED BY <1>2, <1>3, <1>4 DEF PumpStepThrows, TypeOK, Points, stepVars, historyVars

LEMMA FlushPutTyped ==
    ASSUME TypeOK, FlushPut
    PROVE  TypeOK'
<1>1. PICK entries \in [Channels -> UNION {batch[c] : c \in Channels}] :
        log' = Append(log, [Visible EXCEPT !.monitor =
                 [c \in Channels |-> IF batch[c] = {} THEN @[c] ELSE entries[c]]])
  BY DEF FlushPut
<1> DEFINE v == [Visible EXCEPT !.monitor =
                 [c \in Channels |-> IF batch[c] = {} THEN @[c] ELSE entries[c]]]
<1>2. \A c \in Channels : entries[c] \in Nat
  BY DEF TypeOK, IdSets
<1>3. v \in Version
  BY <1>2, VersionsAreTyped DEF Version, Ids
<1>4. log' \in Seq(Version) /\ Len(log') >= 1
  <2> HIDE DEF v
  <2> QED BY <1>1, <1>3, LogsAreTyped DEF TypeOK, v
<1> QED BY <1>4 DEF FlushPut, TypeOK, Points, nodeVars, bufferVars, stepVars, historyVars

LEMMA FlushSyncTyped ==
    ASSUME TypeOK, FlushSync
    PROVE  TypeOK'
<1>1. log' \in Seq(Version) /\ Len(log') >= 1
  BY VersionsAreTyped, LogsAreTyped DEF FlushSync, Synced
<1>2. pending' \in IdSets /\ batch' \in IdSets
  BY DEF FlushSync, TypeOK, IdSets, None
<1>3. acked' \in Ids
  BY DEF FlushSync, TypeOK, Ids
<1> QED BY <1>1, <1>2, <1>3 DEF FlushSync, TypeOK, Points, stepVars, historyVars

\* Telling the peer keeps the knowledge of the peer a natural per channel.
LEMMA TellTyped ==
    ASSUME TypeOK, Tell
    PROVE  revealed' \in Ids
BY DEF Tell, TypeOK, Ids

LEMMA WriteOutboundTyped ==
    ASSUME TypeOK, WriteOutbound
    PROVE  TypeOK'
BY TellTyped DEF WriteOutbound, TypeOK, Points, Ids, Zero, nodeVars, bufferVars

LEMMA SyncChainTyped ==
    ASSUME TypeOK, SyncChain
    PROVE  TypeOK'
<1>1. queue' \in IdSets
  BY DEF SyncChain, TypeOK, Ids, IdSets
<1> QED BY <1>1 DEF SyncChain, TypeOK, Points, nodeVars, stepVars, historyVars

LEMMA DrainTyped ==
    ASSUME TypeOK, Drain
    PROVE  TypeOK'
BY DEF Drain, TypeOK, Points, IdSets, None, nodeVars, stepVars, historyVars

LEMMA PutManagerTyped ==
    ASSUME TypeOK, PutManager
    PROVE  TypeOK'
<1> DEFINE v == [monitor |-> Visible.monitor, latest |-> latest, done |-> done,
                 closed |-> closed]
<1>1. v \in Version
  BY VersionsAreTyped DEF TypeOK, Version
<1>2. log' \in Seq(Version) /\ Len(log') >= 1
  <2> HIDE DEF v
  <2> QED BY <1>1, LogsAreTyped DEF TypeOK, PutManager, v
<1> QED BY <1>2 DEF PutManager, TypeOK, Points, nodeVars, bufferVars, stepVars, historyVars

LEMMA SyncManagerTyped ==
    ASSUME TypeOK, SyncManager
    PROVE  TypeOK'
<1>1. log' \in Seq(Version) /\ Len(log') >= 1
  BY VersionsAreTyped, LogsAreTyped DEF SyncManager, Synced
<1>2. reported' \in SUBSET Claims
  BY DEF SyncManager, TypeOK
<1> QED BY <1>1, <1>2, DropNodeTyped DEF SyncManager, TypeOK

LEMMA FailTyped ==
    ASSUME TypeOK, Fail
    PROVE  TypeOK'
<1>1. revealed' \in Ids
  BY TellTyped DEF Fail, TypeOK
<1> QED BY <1>1 DEF Fail, TypeOK, Points, Ids, IdSets, Zero, None, nodeVars

LEMMA DropTyped ==
    ASSUME TypeOK, SetupFails \/ FailAgain
    PROVE  TypeOK'
BY DropNodeTyped DEF SetupFails, FailAgain, TypeOK, historyVars

LEMMA CrashTyped ==
    ASSUME TypeOK, Crash
    PROVE  TypeOK'
<1>1. PICK i \in 1 .. Len(log) : log' = <<log[i]>>
  BY DEF Crash
<1>2. log' \in Seq(Version) /\ Len(log') >= 1
  BY <1>1, VersionsAreTyped, LogsAreTyped
<1> QED BY <1>2, DropNodeTyped DEF Crash, TypeOK

\* Every step keeps the types.
LEMMA NextTyped ==
    ASSUME TypeOK, [Next]_vars
    PROVE  TypeOK'
<1>1. CASE UNCHANGED vars
  BY <1>1 DEF TypeOK, vars, requestVars, nodeVars, bufferVars, stepVars, historyVars
<1>2. CASE Next
  BY <1>2, ControlTyped, SetupFromStorageTyped, TimerTickTyped, PumpStepTyped,
     PumpStepThrowsTyped, FlushPutTyped, FlushSyncTyped, WriteOutboundTyped,
     SyncChainTyped, DrainTyped, PutManagerTyped, SyncManagerTyped, FailTyped,
     DropTyped, CrashTyped
     DEF Next, Session
<1> QED BY <1>1, <1>2

\* Every variable keeps its type, for all channels and update ids.
THEOREM TypeCorrect == Spec => []TypeOK
BY InitTyped, NextTyped, PTL DEF Spec

-----------------------------------------------------------------------------
(* The inductive invariant. *)

Quiet == pc \notin {"sync", "endSync"}

\* Storage has typed fields; outside a sync it is a single version.
LEMMA StoreFacts ==
    ASSUME TypeOK, LogInv
    PROVE  /\ Durable.monitor \in Ids /\ Durable.latest \in Ids /\ Durable.done \in Ids
           /\ Visible.monitor \in Ids /\ Visible.latest \in Ids /\ Visible.done \in Ids
           /\ Quiet => DOMAIN log = {1} /\ Visible = Durable
           /\ ~Quiet => DOMAIN log = {1, 2} /\ Visible = log[2]
           /\ \A c \in Channels :
                /\ Durable.monitor[c] <= Visible.monitor[c]
                /\ Durable.latest[c] <= Visible.latest[c]
                /\ Durable.done[c] <= Durable.monitor[c]
                /\ Visible.done[c] <= Durable.monitor[c]
<1>1. Durable \in Version /\ Visible \in Version
  BY VersionsAreTyped
<1>2. Quiet => Len(log) = 1
  BY DEF LogInv, Quiet
<1>3. ~Quiet => Len(log) = 2
  BY DEF LogInv, Quiet
<1>4. DOMAIN log = 1 .. Len(log)
  BY DEF TypeOK
<1>5. 1 \in DOMAIN log /\ Len(log) \in DOMAIN log
  BY <1>2, <1>3, <1>4
<1>6. \A c \in Channels :
        /\ Durable.monitor[c] <= Visible.monitor[c]
        /\ Durable.latest[c] <= Visible.latest[c]
        /\ Durable.done[c] <= Durable.monitor[c]
        /\ Visible.done[c] <= Durable.monitor[c]
  BY <1>5 DEF LogInv, Durable, Visible
<1> QED BY <1>1, <1>2, <1>3, <1>4, <1>6 DEF Version, Durable, Visible

LEMMA InitInv == Init => IInv
<1> SUFFICES ASSUME Init PROVE IInv
  OBVIOUS
<1> DEFINE v == [monitor |-> Zero, latest |-> Zero, done |-> Zero, closed |-> {}]
<1>1. log = <<v>> /\ Len(log) = 1 /\ DOMAIN log = {1} /\ log[1] = v
  BY DEF Init
<1>2. \A c \in Channels : v.monitor[c] = 0 /\ v.latest[c] = 0 /\ v.done[c] = 0
  BY DEF Zero
<1>3. LogInv
  BY <1>1, <1>2 DEF Init, LogInv
<1>4. NodeInv
  BY DEF Init, NodeInv, Running
<1>5. BufferInv
  BY DEF Init, BufferInv, None
<1>6. OutputInv
  BY <1>1, <1>2 DEF Init, OutputInv, Durable, Zero
<1>7. CutInv
  BY <1>1, <1>2 DEF Init, CutInv, Visible, Running
<1> QED BY <1>3, <1>4, <1>5, <1>6, <1>7 DEF IInv

\* The steps that leave storage, node and buffers alone.
LEMMA ControlInv ==
    ASSUME TypeOK, IInv,
           \/ \E k \in Kinds : Begin(k)
           \/ Connect \/ Expire \/ SocketClosed \/ Exit
    PROVE  IInv'
<1>1. /\ UNCHANGED <<log, nodeVars, bufferVars, stepVars, historyVars>>
      /\ Quiet /\ Quiet' /\ pc \notin {"put", "sync"} /\ pc' \notin {"put", "sync", "idle", "endSync"}
      /\ Running' => Running
  BY DEF Begin, Connect, Expire, SocketClosed, Exit, Quiet, Running
<1>2. pc' = "setup" => pc = "idle"
  BY DEF Begin, Connect, Expire, SocketClosed, Exit
<1>a. ~Running' => ~Running
  BY DEF Begin, Connect, Expire, SocketClosed, Exit, Running
<1>3. LogInv'
  BY <1>1 DEF IInv, LogInv, Quiet, nodeVars
<1>4. NodeInv'
  BY <1>1, <1>a DEF IInv, NodeInv, nodeVars, Visible, Durable
<1>5. BufferInv'
  BY <1>1, <1>2 DEF IInv, BufferInv, bufferVars, nodeVars, Visible
<1>6. OutputInv'
  BY <1>1 DEF IInv, OutputInv, stepVars, historyVars, bufferVars, Durable
<1>7. CutInv'
  BY <1>1, <1>a DEF IInv, CutInv, historyVars, nodeVars, Visible
<1> QED BY <1>3, <1>4, <1>5, <1>6, <1>7 DEF IInv

LEMMA SetupFromStorageInv ==
    ASSUME TypeOK, IInv, SetupFromStorage
    PROVE  IInv'
<1>1. /\ UNCHANGED <<log, bufferVars, stepVars, historyVars>> /\ Quiet /\ pc = "setup"
      /\ pc' \in {"exit", "tick", "connect", "chain"}
  BY DEF SetupFromStorage, FirstPoint, TypeOK, Kinds, Quiet
<1>2. Visible = Durable /\ Durable.monitor \in Ids /\ Durable.latest \in Ids
      /\ Durable.done \in Ids /\ \A c \in Channels : Durable.done[c] <= Durable.monitor[c]
  BY <1>1, StoreFacts DEF IInv
<1>3. LogInv'
  BY <1>1 DEF IInv, LogInv
<1>4. NodeInv'
  <2> SUFFICES ASSUME NEW c \in Channels
               PROVE  /\ Durable.monitor[c] <= monitor'[c] /\ monitor'[c] <= latest'[c]
                      /\ Durable.latest[c] <= latest'[c]
                      /\ done'[c] <= Durable.monitor[c] /\ acked'[c] <= Durable.monitor[c]
                      /\ monitor'[c] <= Durable.monitor[c]
    BY <1>1, <1>2 DEF NodeInv, Visible, Durable, Running
  <2>1. CASE c \in Outdated(Visible)
    BY <1>2, <2>1 DEF SetupFromStorage, Outdated, Ids
  <2>2. CASE c \notin Outdated(Visible)
    <3>1. Durable.monitor[c] <= Durable.latest[c]
      BY <1>2, <2>2 DEF Outdated, Ids
    <3> QED BY <1>2, <2>2, <3>1 DEF SetupFromStorage, Ids
  <2> QED BY <2>1, <2>2
<1>5. BufferInv'
  BY <1>1 DEF IInv, BufferInv, bufferVars, None
<1>6. OutputInv'
  BY <1>1 DEF IInv, OutputInv, stepVars, historyVars, Durable
<1>7. CutInv'
  <2>1. ~cut => Visible.closed = {} /\ Outdated(Visible) = {}
    <3>1. DOMAIN log = {1} /\ Visible = log[1]
      BY <1>1, StoreFacts DEF IInv, Durable
    <3>2. ~cut => Visible.closed = {}
      BY <3>1 DEF IInv, CutInv
    <3>3. ~cut => \A c \in Channels : Visible.monitor[c] <= Visible.latest[c]
      BY <1>1 DEF IInv, CutInv, Running
    <3>4. ~cut => Outdated(Visible) = {}
      BY <1>2, <3>3 DEF Outdated, Ids
    <3> QED BY <3>2, <3>4
  <2>2. ~cut => closed' = {}
    BY <2>1 DEF SetupFromStorage
  <2> QED BY <1>1, <2>2 DEF IInv, CutInv, historyVars, Running
<1> QED BY <1>3, <1>4, <1>5, <1>6, <1>7 DEF IInv

\* DropNode leaves a state in which the clauses about a session are empty.
LEMMA DropNodeInv ==
    ASSUME TypeOK, IInv, DropNode,
           Len(log') = 1, log'[1] \in Version,
           \A c \in Channels : /\ log'[1].done[c] <= log'[1].monitor[c]
                               /\ revealed'[c] <= log'[1].monitor[c],
           \A p \in reported' : /\ p[2] <= log'[1].monitor[p[1]]
                                /\ p[2] <= log'[1].latest[p[1]],
           ~cut' => /\ log'[1].closed = {}
                    /\ \A c \in Channels : log'[1].monitor[c] <= log'[1].latest[c],
           log' \in Seq(Version)
    PROVE  IInv'
<1>1. DOMAIN log' = {1} /\ pc' = "idle"
  BY DEF DropNode
<1>2. LogInv'
  BY <1>1 DEF LogInv, Version, Ids
<1>3. NodeInv' /\ BufferInv'
  BY DEF DropNode, NodeInv, Running, BufferInv, None
<1>4. OutputInv'
  BY <1>1 DEF DropNode, OutputInv, Durable, Zero, Version, Ids
<1>5. CutInv'
  BY <1>1 DEF DropNode, CutInv, Running, Visible
<1> QED BY <1>2, <1>3, <1>4, <1>5 DEF IInv

LEMMA SetupFailsInv ==
    ASSUME TypeOK, IInv, SetupFails
    PROVE  IInv'
<1>1. UNCHANGED <<log, revealed, reported, cut>> /\ pc = "setup" /\ Quiet /\ ~Running
  BY DEF SetupFails, historyVars, Quiet, Running
<1>2. DOMAIN log = {1} /\ Len(log) = 1 /\ Visible = log[1]
  BY <1>1, StoreFacts DEF IInv, LogInv, Quiet, Durable
<1>3. log \in Seq(Version) /\ log[1] \in Version
  BY VersionsAreTyped DEF TypeOK, Durable
<1>4. \A c \in Channels : log[1].done[c] <= log[1].monitor[c] /\ revealed[c] <= log[1].monitor[c]
  BY <1>2 DEF IInv, LogInv, OutputInv, Durable
<1>5. \A p \in reported : p[2] <= log[1].monitor[p[1]] /\ p[2] <= log[1].latest[p[1]]
  BY DEF IInv, OutputInv, Durable
<1>6. ~cut => log[1].closed = {} /\ \A c \in Channels : log[1].monitor[c] <= log[1].latest[c]
  BY <1>1, <1>2 DEF IInv, CutInv
<1> QED BY <1>1, <1>2, <1>3, <1>4, <1>5, <1>6, DropNodeInv DEF SetupFails

LEMMA FailAgainInv ==
    ASSUME TypeOK, IInv, FailAgain
    PROVE  IInv'
<1>1. UNCHANGED <<log, revealed, reported>> /\ cut' /\ Quiet
  BY DEF FailAgain, MayThrow, Quiet
<1>2. DOMAIN log = {1} /\ Len(log) = 1
  BY <1>1, StoreFacts DEF IInv, LogInv, Quiet
<1>3. log \in Seq(Version) /\ log[1] \in Version
  BY VersionsAreTyped DEF TypeOK, Durable
<1>4. \A c \in Channels : log[1].done[c] <= log[1].monitor[c] /\ revealed[c] <= log[1].monitor[c]
  BY <1>2 DEF IInv, LogInv, OutputInv, Durable
<1>5. \A p \in reported : p[2] <= log[1].monitor[p[1]] /\ p[2] <= log[1].latest[p[1]]
  BY DEF IInv, OutputInv, Durable
<1> QED BY <1>1, <1>2, <1>3, <1>4, <1>5, DropNodeInv DEF FailAgain

LEMMA CrashInv ==
    ASSUME TypeOK, IInv, Crash
    PROVE  IInv'
<1>1. PICK i \in 1 .. Len(log) : log' = <<log[i]>>
  BY DEF Crash
<1>2. UNCHANGED <<revealed, reported>> /\ cut' /\ i \in DOMAIN log
  BY <1>1 DEF Crash, TypeOK
<1>3. log[i] \in Version /\ log[1] \in Version
  BY VersionsAreTyped DEF Durable
<1>4. log' \in Seq(Version) /\ Len(log') = 1 /\ log'[1] = log[i]
  BY <1>1, <1>3, LogsAreTyped
<1>5. \A c \in Channels : /\ log[1].monitor[c] <= log[i].monitor[c]
                         /\ log[1].latest[c] <= log[i].latest[c]
                         /\ log[i].done[c] <= log[1].monitor[c]
                         /\ revealed[c] <= log[1].monitor[c]
  BY <1>2 DEF IInv, LogInv, OutputInv, Durable
<1>6. \A c \in Channels : log[i].done[c] <= log[i].monitor[c] /\ revealed[c] <= log[i].monitor[c]
  BY <1>3, <1>5 DEF Version, Ids, TypeOK
<1>7. \A p \in reported : p[2] <= log[i].monitor[p[1]] /\ p[2] <= log[i].latest[p[1]]
  <2> SUFFICES ASSUME NEW p \in reported
               PROVE  p[2] <= log[i].monitor[p[1]] /\ p[2] <= log[i].latest[p[1]]
    OBVIOUS
  <2>1. p[1] \in Channels /\ p[2] \in Nat
    BY DEF TypeOK, Claims
  <2>2. p[2] <= log[1].monitor[p[1]] /\ p[2] <= log[1].latest[p[1]]
    BY DEF IInv, OutputInv, Durable
  <2> QED BY <1>3, <1>5, <2>1, <2>2 DEF Version, Ids
<1> QED BY <1>2, <1>3, <1>4, <1>6, <1>7, DropNodeInv DEF Crash

LEMMA TimerTickInv ==
    ASSUME TypeOK, IInv, TimerTick
    PROVE  IInv'
<1>1. /\ UNCHANGED <<log, latest, acked, closed, batch, stepVars, historyVars>>
      /\ pc = "tick" /\ pc' \in {"exit", "connect"} /\ Quiet /\ Running
  BY DEF TimerTick, Quiet, Running
<1>2. Visible = Durable /\ Durable.monitor \in Ids /\ Durable.latest \in Ids
  BY <1>1, StoreFacts DEF IInv
<1>3. LogInv'
  BY <1>1 DEF IInv, LogInv
<1>4. ASSUME NEW c \in Channels
      PROVE  /\ monitor[c] \in Nat /\ latest[c] \in Nat /\ done[c] \in Nat /\ acked[c] \in Nat
             /\ Durable.monitor[c] \in Nat
             /\ Durable.monitor[c] <= monitor[c] /\ monitor[c] <= latest[c]
             /\ Durable.latest[c] <= latest[c]
             /\ done[c] <= Durable.monitor[c] /\ acked[c] <= Durable.monitor[c]
             /\ monitor[c] \in pending[c] \/ monitor[c] <= Durable.monitor[c]
  BY <1>1, <1>2 DEF IInv, NodeInv, TypeOK, Ids
<1>5. NodeInv'
  <2> SUFFICES ASSUME NEW c \in Channels
               PROVE  /\ Durable.monitor[c] <= monitor'[c] /\ monitor'[c] <= latest'[c]
                      /\ Durable.latest[c] <= latest'[c]
                      /\ done'[c] <= Durable.monitor[c] /\ acked'[c] <= Durable.monitor[c]
                      /\ monitor'[c] \in pending'[c] \/ monitor'[c] <= Durable.monitor[c]
    BY <1>1, <1>2 DEF NodeInv, Visible, Durable, Running
  <2>1. monitor'[c] = latest[c] /\ done'[c] = Handled(c) /\ pending'[c] = pending[c] \cup Missing(c)
    BY DEF TimerTick, TypeOK, Ids
  <2>2. latest[c] \in pending'[c] \/ latest[c] <= Durable.monitor[c]
    <3>1. CASE monitor[c] = latest[c]
      BY <1>4, <2>1, <3>1
    <3>2. CASE monitor[c] # latest[c]
      BY <1>4, <2>1, <3>2 DEF Missing
    <3> QED BY <3>1, <3>2
  <2> QED BY <1>1, <1>4, <2>1, <2>2 DEF Handled
<1>6. BufferInv'
  <2> SUFFICES ASSUME NEW c \in Channels, NEW u \in queue'[c] \cup batch'[c]
               PROVE  u <= monitor'[c] /\ Visible.monitor[c] <= u
    BY <1>1 DEF IInv, BufferInv, Visible
  <2>1. monitor'[c] = latest[c] /\ queue'[c] = queue[c] \cup Missing(c)
    BY DEF TimerTick, TypeOK, IdSets
  <2>2. CASE u \in queue[c] \cup batch[c]
    <3>1. u <= monitor[c] /\ Visible.monitor[c] <= u
      BY <1>1, <2>2 DEF IInv, BufferInv
    <3>2. u \in Nat
      BY <2>2 DEF TypeOK, IdSets
    <3> QED BY <1>4, <2>1, <3>1, <3>2
  <2>3. CASE u \in Missing(c)
    BY <1>2, <1>4, <2>1, <2>3 DEF Missing
  <2> QED BY <1>1, <2>1, <2>2, <2>3
<1>7. OutputInv'
  BY <1>1 DEF IInv, OutputInv, stepVars, historyVars, Durable
<1>8. CutInv'
  BY <1>1 DEF IInv, CutInv, historyVars, Visible, Running
<1> QED BY <1>3, <1>5, <1>6, <1>7, <1>8 DEF IInv

\* What the invariant says of one channel of a running session outside a sync.
LEMMA ChannelFacts ==
    ASSUME TypeOK, IInv, Running, Quiet, NEW c \in Channels
    PROVE  /\ monitor[c] \in Nat /\ latest[c] \in Nat /\ done[c] \in Nat /\ acked[c] \in Nat
           /\ Durable.monitor[c] \in Nat /\ Durable.latest[c] \in Nat
           /\ Visible.monitor[c] = Durable.monitor[c]
           /\ Visible.latest[c] = Durable.latest[c]
           /\ Durable.monitor[c] <= monitor[c] /\ monitor[c] <= latest[c]
           /\ Durable.latest[c] <= latest[c]
           /\ Handled(c) \in Nat /\ Handled(c) <= Durable.monitor[c]
           /\ monitor[c] \in pending[c] \/ monitor[c] <= Durable.monitor[c]
<1>1. Visible = Durable /\ Durable.monitor \in Ids /\ Durable.latest \in Ids
  BY StoreFacts DEF IInv
<1>2. /\ monitor[c] \in Nat /\ latest[c] \in Nat /\ done[c] \in Nat /\ acked[c] \in Nat
      /\ Durable.monitor[c] \in Nat /\ Durable.latest[c] \in Nat
  BY <1>1 DEF TypeOK, Ids
<1>3. /\ Durable.monitor[c] <= monitor[c] /\ monitor[c] <= latest[c]
      /\ Durable.latest[c] <= latest[c]
      /\ done[c] <= Durable.monitor[c] /\ acked[c] <= Durable.monitor[c]
      /\ monitor[c] \in pending[c] \/ monitor[c] <= Durable.monitor[c]
  BY <1>1 DEF IInv, NodeInv
<1> QED BY <1>1, <1>2, <1>3 DEF Handled

LEMMA PumpStepInv ==
    ASSUME TypeOK, IInv, PumpStep
    PROVE  IInv'
<1>1. PICK early \in SUBSET (Channels \ closed), late \in SUBSET (Channels \ closed) :
      \E claims \in SUBSET late : Pump(early, late, claims)
  BY DEF PumpStep
<1>2. PICK claims \in SUBSET late : Pump(early, late, claims)
  BY <1>1
<1> DEFINE sent(c) == Sent(c, early)
           last(c) == Last(c, early, late)
<1>3. /\ UNCHANGED <<log, closed, acked, allClaimed, revealed, reported, cut>>
      /\ pc = "pump" /\ pc' \in {"put", "write"} /\ Quiet /\ Running
      /\ queue' = None
      /\ pc' = IF batch' = None THEN "write" ELSE "put"
  BY <1>2 DEF PumpStep, Pump, Quiet, Running
<1>4. Visible = Durable
  BY <1>3, StoreFacts DEF IInv
<1>5. ASSUME NEW c \in Channels
      PROVE  /\ sent(c) \in Nat /\ last(c) \in Nat /\ latest[c] <= sent(c) /\ sent(c) <= last(c)
             /\ c \in late => last(c) = sent(c) + 1
             /\ latest'[c] = last(c) /\ monitor'[c] = last(c) /\ done'[c] = Handled(c)
             /\ pending'[c] = pending[c] \cup Fresh(c, last(c))
             /\ batch'[c] = queue[c] \cup Fresh(c, last(c)) /\ queue'[c] = {}
             /\ outbound'[c] = IF Handled(c) = sent(c) THEN Handled(c) ELSE 0
  <2>1. /\ latest'[c] = last(c) /\ monitor'[c] = last(c) /\ done'[c] = Handled(c)
        /\ pending'[c] = pending[c] \cup Fresh(c, last(c))
        /\ batch'[c] = queue[c] \cup Fresh(c, last(c)) /\ queue'[c] = {}
        /\ outbound'[c] = IF Handled(c) = sent(c) THEN Handled(c) ELSE 0
    BY <1>2 DEF Pump, Advance, None
  <2> QED BY <2>1, LastTyped
<1>6. stepClaims' = {<<c, last(c)>> : c \in claims}
  BY <1>2 DEF Pump
<1> HIDE DEF sent, last
<1>7. LogInv'
  BY <1>3 DEF IInv, LogInv
<1>8. NodeInv'
  <2> SUFFICES ASSUME NEW c \in Channels
               PROVE  /\ Durable.monitor[c] <= monitor'[c] /\ monitor'[c] <= latest'[c]
                      /\ Durable.latest[c] <= latest'[c]
                      /\ done'[c] <= Durable.monitor[c] /\ acked'[c] <= Durable.monitor[c]
                      /\ monitor'[c] \in pending'[c] \/ monitor'[c] <= Durable.monitor[c]
    BY <1>3, <1>4 DEF NodeInv, Visible, Durable, Running
  <2>1. last(c) = monitor[c] \/ last(c) \in Fresh(c, last(c))
    BY <1>3, <1>5, ChannelFacts DEF Fresh
  <2>2. acked[c] <= Durable.monitor[c]
    BY <1>3 DEF IInv, NodeInv
  <2> QED BY <1>3, <1>5, <2>1, <2>2, ChannelFacts
<1>9. BufferInv'
  <2> SUFFICES ASSUME NEW c \in Channels, NEW u \in queue'[c] \cup batch'[c]
               PROVE  u <= monitor'[c] /\ Visible.monitor[c] <= u
    BY <1>3 DEF IInv, BufferInv, Visible
  <2>1. CASE u \in queue[c]
    <3>1. u <= monitor[c] /\ Visible.monitor[c] <= u
      BY <1>3, <2>1 DEF IInv, BufferInv
    <3>2. u \in Nat
      BY <2>1 DEF TypeOK, IdSets
    <3> QED BY <1>3, <1>5, <3>1, <3>2, ChannelFacts
  <2>2. CASE u \in Fresh(c, last(c))
    BY <1>3, <1>5, <2>2, ChannelFacts DEF Fresh
  <2> QED BY <1>5, <2>1, <2>2
<1>10. OutputInv'
  <2>1. \A c \in Channels : outbound'[c] <= Durable.monitor[c]
    BY <1>3, <1>5, ChannelFacts
  <2>2. ASSUME NEW p \in stepClaims'
        PROVE  pc' \in {"put", "sync"} /\ p[2] \in batch'[p[1]]
    <3>1. PICK c \in claims : p = <<c, last(c)>>
      BY <1>6
    <3>2. c \in Channels /\ c \in late
      OBVIOUS
    <3>3. last(c) \in Fresh(c, last(c))
      BY <1>3, <1>5, <3>2, ChannelFacts DEF Fresh
    <3>4. batch'[c] # None[c]
      BY <1>5, <3>2, <3>3 DEF None
    <3> QED BY <1>3, <1>5, <3>1, <3>2, <3>3, <3>4
  <2> QED BY <1>3, <2>1, <2>2 DEF IInv, OutputInv, Durable
<1>11. CutInv'
  BY <1>3 DEF IInv, CutInv, Visible, Running
<1> QED BY <1>7, <1>8, <1>9, <1>10, <1>11 DEF IInv

LEMMA PumpStepThrowsInv ==
    ASSUME TypeOK, IInv, PumpStepThrows
    PROVE  IInv'
<1>1. PICK early \in SUBSET (Channels \ closed), late \in SUBSET (Channels \ closed) :
      PumpThrows(early, late)
  BY DEF PumpStepThrows
<1> DEFINE last(c) == Last(c, early, late)
<1>2. /\ UNCHANGED <<log, closed, acked, batch, stepVars, historyVars>>
      /\ pc = "pump" /\ pc' = "end" /\ Quiet /\ Running
  BY DEF PumpStepThrows, Quiet, Running
<1>3. Visible = Durable
  BY <1>2, StoreFacts DEF IInv
<1>4. ASSUME NEW c \in Channels
      PROVE  /\ last(c) \in Nat /\ latest[c] <= last(c)
             /\ latest'[c] = last(c) /\ monitor'[c] = last(c)
             /\ pending'[c] = pending[c] \cup Fresh(c, last(c))
             /\ queue'[c] = queue[c] \cup Fresh(c, last(c))
             /\ done'[c] \in {done[c], Handled(c)}
  <2>1. /\ latest'[c] = last(c) /\ monitor'[c] = last(c)
        /\ pending'[c] = pending[c] \cup Fresh(c, last(c))
        /\ queue'[c] = queue[c] \cup Fresh(c, last(c))
        /\ done'[c] \in {done[c], Handled(c)}
    BY <1>1 DEF PumpThrows, Advance
  <2>2. last(c) \in Nat /\ latest[c] <= last(c)
    <3>1. latest[c] <= Sent(c, early) /\ Sent(c, early) <= last(c) /\ last(c) \in Nat
          /\ Sent(c, early) \in Nat /\ latest[c] \in Nat
      BY LastTyped DEF TypeOK, Ids
    <3> QED BY <3>1
  <2> QED BY <2>1, <2>2
<1> HIDE DEF last
<1>5. LogInv'
  BY <1>2 DEF IInv, LogInv
<1>6. NodeInv'
  <2> SUFFICES ASSUME NEW c \in Channels
               PROVE  /\ Durable.monitor[c] <= monitor'[c] /\ monitor'[c] <= latest'[c]
                      /\ Durable.latest[c] <= latest'[c]
                      /\ done'[c] <= Durable.monitor[c] /\ acked[c] <= Durable.monitor[c]
                      /\ monitor'[c] \in pending'[c] \/ monitor'[c] <= Durable.monitor[c]
    BY <1>2, <1>3 DEF NodeInv, Visible, Durable, Running
  <2>1. last(c) = monitor[c] \/ last(c) \in Fresh(c, last(c))
    BY <1>2, <1>4, ChannelFacts DEF Fresh
  <2>2. acked[c] <= Durable.monitor[c] /\ done[c] <= Durable.monitor[c]
    BY <1>2 DEF IInv, NodeInv
  <2> QED BY <1>2, <1>4, <2>1, <2>2, ChannelFacts
<1>7. BufferInv'
  <2> SUFFICES ASSUME NEW c \in Channels, NEW u \in queue'[c] \cup batch'[c]
               PROVE  u <= monitor'[c] /\ Visible.monitor[c] <= u
    BY <1>2 DEF IInv, BufferInv, Visible
  <2>1. CASE u \in queue[c] \cup batch[c]
    <3>1. u <= monitor[c] /\ Visible.monitor[c] <= u
      BY <1>2, <2>1 DEF IInv, BufferInv
    <3>2. u \in Nat
      BY <2>1 DEF TypeOK, IdSets
    <3> QED BY <1>2, <1>4, <3>1, <3>2, ChannelFacts
  <2>2. CASE u \in Fresh(c, last(c))
    BY <1>2, <1>4, <2>2, ChannelFacts DEF Fresh
  <2> QED BY <1>2, <1>4, <2>1, <2>2
<1>8. OutputInv'
  BY <1>2 DEF IInv, OutputInv, Durable, stepVars, historyVars
<1>9. CutInv'
  BY <1>2 DEF IInv, CutInv, Visible, Running, historyVars
<1> QED BY <1>5, <1>6, <1>7, <1>8, <1>9 DEF IInv

\* Appending to a sequence of one element.
LEMMA AppendToOne ==
    ASSUME NEW S, NEW s \in Seq(S), Len(s) = 1, NEW v \in S
    PROVE  /\ Len(Append(s, v)) = 2 /\ Append(s, v)[1] = s[1] /\ Append(s, v)[2] = v
           /\ DOMAIN Append(s, v) = 1 .. 2
<1>1. Len(Append(s, v)) = 2 /\ Append(s, v) \in Seq(S)
  OBVIOUS
<1>2. Append(s, v)[1] = s[1] /\ Append(s, v)[2] = v
  <2>1. \A i \in 1 .. Len(s) : Append(s, v)[i] = s[i]
    BY AppendProperties
  <2>2. Append(s, v)[Len(s) + 1] = v
    BY AppendProperties
  <2> QED BY <2>1, <2>2
<1>3. DOMAIN Append(s, v) = 1 .. 2
  BY <1>1
<1> QED BY <1>1, <1>2, <1>3

\* A put adds a second version to the log.
LEMMA AppendFacts ==
    ASSUME TypeOK, Len(log) = 1, NEW v \in Version, log' = Append(log, v)
    PROVE  /\ Len(log') = 2 /\ DOMAIN log' = {1, 2} /\ log'[1] = log[1] /\ log'[2] = v
           /\ Durable' = Durable /\ Visible' = v
<1> DEFINE s == Append(log, v)
<1>0. log \in Seq(Version) /\ Len(log) = 1
  BY DEF TypeOK
<1>1. Len(s) = 2 /\ s[1] = log[1] /\ s[2] = v /\ DOMAIN s = 1 .. 2
  BY <1>0, AppendToOne
<1>2. 1 .. 2 = {1, 2}
  OBVIOUS
<1> QED BY <1>1, <1>2 DEF Durable, Visible

\* A sync leaves the last version.
LEMMA SyncFacts ==
    ASSUME TypeOK, log' = <<Visible>>
    PROVE  /\ Len(log') = 1 /\ DOMAIN log' = {1} /\ log'[1] = Visible
           /\ log' \in Seq(Version) /\ Durable' = Visible /\ Visible' = Visible
<1>1. Len(log') = 1 /\ DOMAIN log' = {1} /\ log'[1] = Visible
  OBVIOUS
<1>2. log' \in Seq(Version)
  BY VersionsAreTyped, LogsAreTyped
<1> QED BY <1>1, <1>2 DEF Durable, Visible

LEMMA FlushPutInv ==
    ASSUME TypeOK, IInv, FlushPut
    PROVE  IInv'
<1>1. PICK entries \in [Channels -> UNION {batch[c] : c \in Channels}] :
        /\ \A c \in Channels : batch[c] # {} => IsLast(entries[c], batch[c])
        /\ log' = Append(log, [Visible EXCEPT !.monitor =
                 [c \in Channels |-> IF batch[c] = {} THEN @[c] ELSE entries[c]]])
  BY DEF FlushPut
<1> DEFINE v == [Visible EXCEPT !.monitor =
                 [c \in Channels |-> IF batch[c] = {} THEN @[c] ELSE entries[c]]]
<1>2. v \in Version /\ v.latest = Visible.latest /\ v.done = Visible.done
      /\ v.closed = Visible.closed
      /\ \A c \in Channels : v.monitor[c] = IF batch[c] = {} THEN Visible.monitor[c]
                                                             ELSE entries[c]
  <2>1. \A c \in Channels : entries[c] \in Nat
    BY DEF TypeOK, IdSets
  <2> QED BY <2>1, VersionsAreTyped DEF Version, Ids
<1>3. log' = Append(log, v)
  BY <1>1
<1> HIDE DEF v
<1>4. /\ UNCHANGED <<nodeVars, bufferVars, stepVars, historyVars>>
      /\ pc = "put" /\ pc' = "sync" /\ Quiet /\ Running
  BY DEF FlushPut, Quiet, Running
<1>5. Visible = Durable /\ Len(log) = 1 /\ DOMAIN log = {1}
  BY <1>4, StoreFacts DEF IInv, LogInv, Quiet
<1>6. /\ Len(log') = 2 /\ DOMAIN log' = {1, 2} /\ log'[1] = log[1] /\ log'[2] = v
      /\ Durable' = Durable /\ Visible' = v
  BY <1>2, <1>3, <1>5, AppendFacts
<1>7. ASSUME NEW c \in Channels
      PROVE  /\ v.monitor[c] \in Nat
             /\ Durable.monitor[c] <= v.monitor[c] /\ v.monitor[c] <= monitor[c]
             /\ \A u \in batch[c] : u <= v.monitor[c]
  <2>1. CASE batch[c] = {}
    BY <1>2, <1>4, <1>5, <2>1, ChannelFacts
  <2>2. CASE batch[c] # {}
    <3>1. entries[c] \in batch[c] /\ \A u \in batch[c] : u <= entries[c]
      BY <1>1, <2>2 DEF IsLast
    <3>2. entries[c] <= monitor[c] /\ Visible.monitor[c] <= entries[c]
      BY <1>4, <3>1 DEF IInv, BufferInv
    <3>3. entries[c] \in Nat
      BY <3>1 DEF TypeOK, IdSets
    <3> QED BY <1>2, <1>5, <2>2, <3>1, <3>2, <3>3
  <2> QED BY <2>1, <2>2
<1>8. LogInv'
  <2>1. \A c \in Channels : /\ Durable.done[c] <= Durable.monitor[c]
                           /\ Durable.monitor[c] \in Nat /\ Durable.latest[c] \in Nat
    BY <1>4, StoreFacts, ChannelFacts DEF IInv
  <2>2. \A c \in Channels : /\ v.latest[c] = log[1].latest[c] /\ v.done[c] = log[1].done[c]
                           /\ log[1].monitor[c] <= v.monitor[c]
                           /\ log[1].done[c] <= log[1].monitor[c]
                           /\ log[1].monitor[c] \in Nat /\ log[1].latest[c] \in Nat
    BY <1>2, <1>5, <1>7, <2>1 DEF Durable
  <2> QED BY <1>4, <1>6, <2>2 DEF LogInv
<1>9. NodeInv'
  <2> SUFFICES ASSUME NEW c \in Channels
               PROVE  /\ v.monitor[c] <= monitor[c] /\ monitor[c] <= latest[c]
                      /\ v.latest[c] <= latest[c]
                      /\ done[c] <= Durable.monitor[c] /\ acked[c] <= Durable.monitor[c]
                      /\ monitor[c] \in pending[c] \/ monitor[c] <= Durable.monitor[c]
    BY <1>4, <1>6 DEF NodeInv, nodeVars, Running
  <2>1. done[c] <= Durable.monitor[c] /\ acked[c] <= Durable.monitor[c]
    BY <1>4 DEF IInv, NodeInv
  <2> QED BY <1>2, <1>4, <1>5, <1>7, <2>1, ChannelFacts
<1>10. BufferInv'
  <2>1. queue = None
    BY <1>4 DEF IInv, BufferInv
  <2> SUFFICES ASSUME NEW c \in Channels, NEW u \in queue[c] \cup batch[c]
               PROVE  u <= monitor[c] /\ u <= v.monitor[c]
    BY <1>4, <1>6, <2>1 DEF BufferInv, bufferVars, nodeVars
  <2>2. u \in batch[c]
    BY <2>1 DEF None
  <2> QED BY <1>7, <2>2 DEF IInv, BufferInv
<1>11. OutputInv'
  BY <1>4, <1>6 DEF IInv, OutputInv, stepVars, historyVars, bufferVars
<1>12. CutInv'
  <2>1. Running'
    BY <1>4 DEF Running
  <2> QED BY <1>2, <1>4, <1>5, <1>6, <2>1 DEF IInv, CutInv, historyVars, nodeVars, Visible
<1> QED BY <1>8, <1>9, <1>10, <1>11, <1>12 DEF IInv

LEMMA FlushSyncInv ==
    ASSUME TypeOK, IInv, FlushSync
    PROVE  IInv'
<1>1. /\ UNCHANGED <<monitor, latest, done, closed, queue, stepVars, historyVars>>
      /\ pc = "sync" /\ pc' \in {"write", "tick", "endPut"} /\ ~Quiet /\ Quiet'
      /\ batch' = None /\ Running /\ Running'
  BY DEF FlushSync, TypeOK, Quiet, Running
<1>2. DOMAIN log = {1, 2} /\ Visible = log[2]
  BY <1>1, StoreFacts DEF IInv
<1>3. /\ Len(log') = 1 /\ DOMAIN log' = {1} /\ log'[1] = Visible
      /\ Durable' = Visible /\ Visible' = Visible
  BY SyncFacts DEF FlushSync, Synced
<1>4. ASSUME NEW c \in Channels
      PROVE  /\ Visible.monitor[c] \in Nat /\ Visible.latest[c] \in Nat /\ Visible.done[c] \in Nat
             /\ Durable.monitor[c] \in Nat /\ Durable.monitor[c] <= Visible.monitor[c]
             /\ Durable.latest[c] \in Nat /\ Durable.latest[c] <= Visible.latest[c]
             /\ Visible.done[c] <= Visible.monitor[c]
             /\ monitor[c] \in Nat /\ done[c] \in Nat /\ acked[c] \in Nat /\ revealed[c] \in Nat
             /\ outbound[c] \in Nat
  <2>1. /\ Durable.monitor \in Ids /\ Durable.latest \in Ids
        /\ Visible.monitor \in Ids /\ Visible.latest \in Ids /\ Visible.done \in Ids
        /\ Durable.monitor[c] <= Visible.monitor[c]
        /\ Durable.latest[c] <= Visible.latest[c]
        /\ Visible.done[c] <= Durable.monitor[c]
    BY StoreFacts DEF IInv
  <2>2. /\ monitor[c] \in Nat /\ done[c] \in Nat /\ acked[c] \in Nat /\ revealed[c] \in Nat
        /\ outbound[c] \in Nat
    BY DEF TypeOK, Ids
  <2> QED BY <2>1, <2>2 DEF Ids
<1>5. ASSUME NEW c \in Channels
      PROVE  /\ pending'[c] = pending[c] \ batch[c]
             /\ acked'[c] = IF batch[c] # {} /\ pending'[c] = {} THEN monitor[c] ELSE acked[c]
             /\ \A u \in batch[c] : u <= Visible.monitor[c]
             /\ monitor[c] \in pending[c] \/ monitor[c] <= Durable.monitor[c]
  <2>1. /\ pending'[c] = pending[c] \ batch[c]
        /\ acked'[c] = IF batch[c] # {} /\ pending'[c] = {} THEN monitor[c] ELSE acked[c]
    BY DEF FlushSync, Synced
  <2> QED BY <1>1, <2>1 DEF IInv, BufferInv, NodeInv
<1>6. LogInv'
  BY <1>1, <1>3, <1>4 DEF LogInv
<1>7. NodeInv'
  <2> SUFFICES ASSUME NEW c \in Channels
               PROVE  /\ Visible.monitor[c] <= monitor[c] /\ monitor[c] <= latest[c]
                      /\ Visible.latest[c] <= latest[c]
                      /\ done[c] <= Visible.monitor[c] /\ acked'[c] <= Visible.monitor[c]
                      /\ monitor[c] \in pending'[c] \/ monitor[c] <= Visible.monitor[c]
    BY <1>1, <1>3 DEF NodeInv
  <2>1. /\ Visible.monitor[c] <= monitor[c] /\ monitor[c] <= latest[c]
        /\ Visible.latest[c] <= latest[c]
        /\ done[c] <= Durable.monitor[c] /\ acked[c] <= Durable.monitor[c]
    BY <1>1 DEF IInv, NodeInv
  <2>2. monitor[c] \in pending'[c] \/ monitor[c] <= Visible.monitor[c]
    BY <1>4, <1>5
  <2> QED BY <1>4, <1>5, <2>1, <2>2
<1>8. BufferInv'
  <2>1. queue' = None
    BY <1>1 DEF IInv, BufferInv
  <2> QED BY <1>1, <2>1 DEF BufferInv, None
<1>9. OutputInv'
  <2>1. \A c \in Channels : outbound[c] <= Visible.monitor[c] /\ revealed[c] <= Visible.monitor[c]
    <3>1. \A c \in Channels : outbound[c] <= Durable.monitor[c] /\ revealed[c] <= Durable.monitor[c]
      BY DEF IInv, OutputInv
    <3> QED BY <1>4, <3>1
  <2>2. ASSUME NEW p \in Claims, p[2] <= Durable.monitor[p[1]]
        PROVE  p[2] <= Visible.monitor[p[1]]
    BY <1>4, <2>2 DEF Claims
  <2>3. \A p \in stepClaims : p[2] <= Visible.monitor[p[1]]
    <3> SUFFICES ASSUME NEW p \in stepClaims PROVE p[2] <= Visible.monitor[p[1]]
      OBVIOUS
    <3>1. p \in Claims /\ p[1] \in Channels
      BY DEF TypeOK, Claims
    <3>2. p[2] <= Durable.monitor[p[1]] \/ p[2] \in batch[p[1]]
      BY DEF IInv, OutputInv
    <3> QED BY <1>5, <2>2, <3>1, <3>2
  <2>4. \A p \in allClaimed : p[2] <= Visible.monitor[p[1]]
    BY <2>2 DEF IInv, OutputInv, TypeOK
  <2>5. \A p \in reported : p[2] <= Visible.monitor[p[1]] /\ p[2] <= Visible.latest[p[1]]
    <3> SUFFICES ASSUME NEW p \in reported
                 PROVE  p[2] <= Visible.monitor[p[1]] /\ p[2] <= Visible.latest[p[1]]
      OBVIOUS
    <3>1. p[1] \in Channels /\ p[2] \in Nat
      BY DEF TypeOK, Claims
    <3>2. p[2] <= Durable.monitor[p[1]] /\ p[2] <= Durable.latest[p[1]]
      BY DEF IInv, OutputInv
    <3> QED BY <1>4, <3>1, <3>2
  <2> QED BY <1>1, <1>3, <2>1, <2>3, <2>4, <2>5 DEF OutputInv, stepVars, historyVars
<1>10. CutInv'
  BY <1>1, <1>2, <1>3 DEF IInv, CutInv, historyVars
<1> QED BY <1>6, <1>7, <1>8, <1>9, <1>10 DEF IInv

\* The peer is told no more than what the outbound bytes say.
LEMMA TellInv ==
    ASSUME TypeOK, IInv, Tell
    PROVE  \A c \in Channels : revealed'[c] <= Durable.monitor[c]
BY DEF Tell, IInv, OutputInv

LEMMA WriteOutboundInv ==
    ASSUME TypeOK, IInv, WriteOutbound
    PROVE  IInv'
<1>1. /\ UNCHANGED <<log, nodeVars, bufferVars, reported, cut>>
      /\ pc = "write" /\ pc' \in {"pump", "exit"} /\ Quiet /\ Quiet' /\ Running /\ Running'
      /\ allClaimed' = allClaimed \cup stepClaims /\ outbound' = Zero /\ stepClaims' = {}
      /\ Durable' = Durable /\ Visible' = Visible
  BY DEF WriteOutbound, Quiet, Running, Durable, Visible
<1>2. LogInv'
  BY <1>1 DEF IInv, LogInv
<1>3. NodeInv'
  BY <1>1 DEF IInv, NodeInv, nodeVars
<1>4. BufferInv'
  BY <1>1 DEF IInv, BufferInv, bufferVars, nodeVars
<1>5. OutputInv'
  <2>1. \A c \in Channels : revealed'[c] <= Durable.monitor[c]
    BY TellInv DEF WriteOutbound
  <2>2. \A c \in Channels : outbound'[c] <= Durable.monitor[c]
    BY <1>1, ChannelFacts DEF Zero
  <2>3. \A p \in allClaimed' : p[2] <= Durable.monitor[p[1]]
    BY <1>1 DEF IInv, OutputInv
  <2> QED BY <1>1, <2>1, <2>2, <2>3 DEF IInv, OutputInv, Durable
<1>6. CutInv'
  BY <1>1 DEF IInv, CutInv, nodeVars
<1> QED BY <1>2, <1>3, <1>4, <1>5, <1>6 DEF IInv

LEMMA SyncChainInv ==
    ASSUME TypeOK, IInv, SyncChain
    PROVE  IInv'
<1>1. /\ UNCHANGED <<log, nodeVars, batch, stepVars, historyVars>>
      /\ pc = "chain" /\ pc' = "drain" /\ Quiet /\ Quiet' /\ Running /\ Running'
      /\ Durable' = Durable /\ Visible' = Visible
      /\ \A c \in Channels : queue'[c] \subseteq queue[c] \cup {monitor[c]}
  BY DEF SyncChain, Quiet, Running, Durable, Visible
<1>2. LogInv'
  BY <1>1 DEF IInv, LogInv
<1>3. NodeInv'
  BY <1>1 DEF IInv, NodeInv, nodeVars
<1>4. BufferInv'
  <2> SUFFICES ASSUME NEW c \in Channels, NEW u \in queue'[c] \cup batch'[c]
               PROVE  u <= monitor[c] /\ Visible.monitor[c] <= u
    BY <1>1 DEF IInv, BufferInv, nodeVars
  <2>1. CASE u \in queue[c] \cup batch[c]
    BY <1>1, <2>1 DEF IInv, BufferInv
  <2>2. CASE u = monitor[c]
    BY <1>1, <2>2, ChannelFacts
  <2> QED BY <1>1, <2>1, <2>2
<1>5. OutputInv'
  BY <1>1 DEF IInv, OutputInv, stepVars, historyVars, Durable
<1>6. CutInv'
  BY <1>1 DEF IInv, CutInv, nodeVars, historyVars
<1> QED BY <1>2, <1>3, <1>4, <1>5, <1>6 DEF IInv

LEMMA DrainInv ==
    ASSUME TypeOK, IInv, Drain
    PROVE  IInv'
<1>1. /\ UNCHANGED <<log, nodeVars, stepVars, historyVars>>
      /\ pc \in {"drain", "end"} /\ pc' \in {"tick", "endPut", "put"}
      /\ Quiet /\ Quiet' /\ Running /\ Running'
      /\ Durable' = Durable /\ Visible' = Visible
      /\ batch' = queue /\ queue' = None /\ (pc' # "put" => queue = None)
  BY DEF Drain, Quiet, Running, Durable, Visible
<1>2. LogInv'
  BY <1>1 DEF IInv, LogInv
<1>3. NodeInv'
  BY <1>1 DEF IInv, NodeInv, nodeVars
<1>4. BufferInv'
  BY <1>1 DEF IInv, BufferInv, nodeVars, None
<1>5. OutputInv'
  BY <1>1 DEF IInv, OutputInv, stepVars, historyVars, Durable
<1>6. CutInv'
  BY <1>1 DEF IInv, CutInv, nodeVars, historyVars
<1> QED BY <1>2, <1>3, <1>4, <1>5, <1>6 DEF IInv

LEMMA PutManagerInv ==
    ASSUME TypeOK, IInv, PutManager
    PROVE  IInv'
<1> DEFINE v == [monitor |-> Visible.monitor, latest |-> latest, done |-> done,
                 closed |-> closed]
<1>1. /\ v \in Version /\ v.monitor = Visible.monitor /\ v.latest = latest
      /\ v.done = done /\ v.closed = closed
  BY VersionsAreTyped DEF TypeOK, Version
<1>2. log' = Append(log, v)
  BY DEF PutManager
<1> HIDE DEF v
<1>3. /\ UNCHANGED <<nodeVars, bufferVars, stepVars, historyVars>>
      /\ pc = "endPut" /\ pc' = "endSync" /\ Quiet /\ Running /\ Running'
  BY DEF PutManager, Quiet, Running
<1>4. Visible = Durable /\ Len(log) = 1 /\ DOMAIN log = {1}
  BY <1>3, StoreFacts DEF IInv, LogInv, Quiet
<1>5. /\ Len(log') = 2 /\ DOMAIN log' = {1, 2} /\ log'[1] = log[1] /\ log'[2] = v
      /\ Durable' = Durable /\ Visible' = v
  BY <1>1, <1>2, <1>4, AppendFacts
<1>6. ASSUME NEW c \in Channels
      PROVE  /\ v.monitor[c] = log[1].monitor[c] /\ log[1].monitor[c] \in Nat
             /\ v.latest[c] = latest[c] /\ log[1].latest[c] <= latest[c]
             /\ log[1].latest[c] \in Nat /\ latest[c] \in Nat
             /\ log[1].done[c] <= log[1].monitor[c]
             /\ v.done[c] <= log[1].monitor[c]
  <2>1. v.monitor[c] = log[1].monitor[c] /\ v.latest[c] = latest[c] /\ v.done[c] = done[c]
    BY <1>1, <1>4 DEF Durable
  <2>2. /\ log[1].monitor[c] \in Nat /\ log[1].latest[c] \in Nat /\ latest[c] \in Nat
        /\ log[1].latest[c] <= latest[c]
    BY <1>3, ChannelFacts DEF Durable
  <2>3. log[1].done[c] <= log[1].monitor[c]
    BY StoreFacts DEF IInv, Durable
  <2>4. done[c] <= log[1].monitor[c]
    BY <1>3 DEF IInv, NodeInv, Durable
  <2> QED BY <2>1, <2>2, <2>3, <2>4
<1>7. LogInv'
  BY <1>3, <1>5, <1>6 DEF LogInv, nodeVars
<1>8. NodeInv'
  <2> SUFFICES ASSUME NEW c \in Channels
               PROVE  /\ v.monitor[c] <= monitor[c] /\ monitor[c] <= latest[c]
                      /\ v.latest[c] <= latest[c]
                      /\ done[c] <= Durable.monitor[c] /\ acked[c] <= Durable.monitor[c]
                      /\ monitor[c] \in pending[c] \/ monitor[c] <= Durable.monitor[c]
    BY <1>3, <1>5 DEF NodeInv, nodeVars
  <2>1. done[c] <= Durable.monitor[c] /\ acked[c] <= Durable.monitor[c]
    BY <1>3 DEF IInv, NodeInv
  <2> QED BY <1>1, <1>3, <2>1, ChannelFacts
<1>9. BufferInv'
  <2>1. v.monitor = Visible.monitor /\ pc # "put" /\ pc # "sync"
    BY <1>1, <1>3
  <2> QED BY <1>3, <1>5, <2>1 DEF IInv, BufferInv, nodeVars, bufferVars
<1>10. OutputInv'
  BY <1>3, <1>5 DEF IInv, OutputInv, stepVars, historyVars, bufferVars
<1>11. CutInv'
  <2>1. ~cut => closed = {} /\ log[1].closed = {}
    BY <1>4 DEF IInv, CutInv
  <2> QED BY <1>1, <1>3, <1>5, <2>1 DEF CutInv, nodeVars, historyVars
<1> QED BY <1>7, <1>8, <1>9, <1>10, <1>11 DEF IInv

LEMMA SyncManagerInv ==
    ASSUME TypeOK, IInv, SyncManager
    PROVE  IInv'
<1>1. /\ pc = "endSync" /\ ~Quiet /\ Running /\ UNCHANGED <<revealed, cut>>
      /\ reported' \subseteq reported \cup allClaimed
  BY DEF SyncManager, Quiet, Running
<1>2. DOMAIN log = {1, 2} /\ Visible = log[2]
  BY <1>1, StoreFacts DEF IInv
<1>3. Len(log') = 1 /\ log'[1] = Visible /\ log' \in Seq(Version) /\ Visible \in Version
  BY SyncFacts, VersionsAreTyped DEF SyncManager, Synced
<1>4. ASSUME NEW c \in Channels
      PROVE  /\ Visible.monitor[c] = Durable.monitor[c] /\ Visible.latest[c] = latest[c]
             /\ Durable.monitor[c] \in Nat /\ latest[c] \in Nat
             /\ Durable.latest[c] <= Visible.latest[c]
             /\ Visible.done[c] <= Durable.monitor[c] /\ revealed[c] <= Durable.monitor[c]
             /\ Visible.monitor[c] <= Visible.latest[c]
  <2>1. Visible.monitor[c] = Durable.monitor[c] /\ Visible.latest[c] = latest[c]
    BY <1>1, <1>2 DEF IInv, LogInv, Durable
  <2>2. Durable.monitor[c] \in Nat /\ latest[c] \in Nat /\ monitor[c] \in Nat
    BY StoreFacts DEF IInv, Ids, TypeOK
  <2>3. Durable.latest[c] <= Visible.latest[c] /\ Visible.done[c] <= Durable.monitor[c]
    BY StoreFacts DEF IInv
  <2>4. Visible.monitor[c] <= monitor[c] /\ monitor[c] <= latest[c]
    BY <1>1 DEF IInv, NodeInv
  <2>5. revealed[c] <= Durable.monitor[c]
    BY DEF IInv, OutputInv
  <2> QED BY <2>1, <2>2, <2>3, <2>4, <2>5
<1>5. \A p \in reported' : p[2] <= log'[1].monitor[p[1]] /\ p[2] <= log'[1].latest[p[1]]
  <2> SUFFICES ASSUME NEW p \in reported \cup allClaimed
               PROVE  p[2] <= Visible.monitor[p[1]] /\ p[2] <= Visible.latest[p[1]]
    BY <1>1, <1>3
  <2>1. p[1] \in Channels /\ p[2] \in Nat
    BY DEF TypeOK, Claims
  <2>2. p[2] <= Durable.monitor[p[1]]
    BY DEF IInv, OutputInv
  <2> QED BY <1>4, <2>1, <2>2
<1>6. ~cut' => log'[1].closed = {} /\ \A c \in Channels : log'[1].monitor[c] <= log'[1].latest[c]
  <2>1. ~cut => Visible.closed = {}
    BY <1>2 DEF IInv, CutInv
  <2> QED BY <1>1, <1>3, <1>4, <2>1
<1>7. \A c \in Channels : /\ log'[1].done[c] <= log'[1].monitor[c]
                         /\ revealed'[c] <= log'[1].monitor[c]
  BY <1>1, <1>3, <1>4
<1>8. log'[1] \in Version /\ DropNode
  BY <1>3 DEF SyncManager, Synced
<1> QED BY <1>3, <1>5, <1>6, <1>7, <1>8, DropNodeInv

LEMMA FailInv ==
    ASSUME TypeOK, IInv, Fail
    PROVE  IInv'
<1>1. /\ UNCHANGED <<log, nodeVars, queue, allClaimed, reported, cut>>
      /\ pc' = "end" /\ Quiet /\ Quiet' /\ Running /\ Running'
      /\ Durable' = Durable /\ Visible' = Visible
      /\ batch' = None /\ outbound' = Zero /\ stepClaims' = {}
  BY DEF Fail, MayThrow, Quiet, Running, Durable, Visible
<1>2. LogInv'
  BY <1>1 DEF IInv, LogInv, Quiet
<1>3. NodeInv'
  BY <1>1 DEF IInv, NodeInv, nodeVars
<1>4. BufferInv'
  BY <1>1 DEF IInv, BufferInv, nodeVars, None, Quiet
<1>5. OutputInv'
  <2>1. \A c \in Channels : revealed'[c] <= Durable.monitor[c]
    BY TellInv DEF Fail, IInv, OutputInv
  <2>2. \A c \in Channels : outbound'[c] <= Durable.monitor[c]
    BY <1>1, ChannelFacts DEF Zero
  <2> QED BY <1>1, <2>1, <2>2 DEF IInv, OutputInv, Durable
<1>6. CutInv'
  BY <1>1 DEF IInv, CutInv, nodeVars
<1> QED BY <1>2, <1>3, <1>4, <1>5, <1>6 DEF IInv

\* Every step keeps the invariant.
LEMMA NextInv ==
    ASSUME TypeOK, IInv, [Next]_vars
    PROVE  IInv'
<1>1. CASE UNCHANGED vars
  <2>1. /\ UNCHANGED <<log, pc, nodeVars, bufferVars, stepVars, historyVars>>
        /\ Durable' = Durable /\ Visible' = Visible
    BY <1>1 DEF vars, requestVars, Durable, Visible
  <2>2. LogInv' /\ NodeInv'
    BY <2>1 DEF IInv, LogInv, NodeInv, nodeVars, Running
  <2>3. BufferInv' /\ OutputInv'
    BY <2>1 DEF IInv, BufferInv, OutputInv, nodeVars, bufferVars, stepVars, historyVars
  <2>4. CutInv'
    BY <2>1 DEF IInv, CutInv, nodeVars, historyVars, Running
  <2> QED BY <2>2, <2>3, <2>4 DEF IInv
<1>2. CASE Next
  BY <1>2, ControlInv, SetupFromStorageInv, SetupFailsInv, TimerTickInv, PumpStepInv,
     PumpStepThrowsInv, FlushPutInv, FlushSyncInv, WriteOutboundInv, SyncChainInv,
     DrainInv, PutManagerInv, SyncManagerInv, FailInv, FailAgainInv, CrashInv
     DEF Next, Session
<1> QED BY <1>1, <1>2

\* The inductive invariant holds in every reachable state.
THEOREM Invariance == Spec => [](TypeOK /\ IInv)
<1>1. Init => TypeOK /\ IInv
  BY InitTyped, InitInv
<1>2. TypeOK /\ IInv /\ [Next]_vars => (TypeOK /\ IInv)'
  BY NextTyped, NextInv
<1> QED BY <1>1, <1>2, PTL DEF Spec

-----------------------------------------------------------------------------
(* What follows from it. *)

\* Whatever a crash leaves on disk, the next setup_node accepts it.
THEOREM Restores == Spec => []AlwaysRestorable
<1>1. TypeOK /\ IInv => AlwaysRestorable
  <2> SUFFICES ASSUME TypeOK, IInv, NEW i \in DOMAIN log, NEW c \in Channels
               PROVE  log[i].done[c] <= log[i].monitor[c]
    BY DEF AlwaysRestorable, Restorable
  <2>1. log[1].monitor[c] <= log[i].monitor[c] /\ log[i].done[c] <= log[1].monitor[c]
    BY DEF IInv, LogInv
  <2>2. log[i] \in Version /\ log[1] \in Version
    BY VersionsAreTyped DEF TypeOK, Durable
  <2> QED BY <2>1, <2>2 DEF Version, Ids
<1> QED BY <1>1, Invariance, PTL

\* The peer knows only states that are on disk: the pump loop's flush before its
\* write is enough, for any interleaving with failures and crashes.
THEOREM Reveals == Spec => []RevealedIsDurable
<1>1. IInv => RevealedIsDurable
  BY DEF IInv, OutputInv, RevealedIsDurable
<1> QED BY <1>1, Invariance, PTL

\* Payments handed to the caller are on disk in the monitors and in the manager.
THEOREM Reports == Spec => []ReportedIsDurable
<1>1. IInv => ReportedIsDurable
  BY DEF IInv, OutputInv, ReportedIsDurable
<1> QED BY <1>1, Invariance, PTL

\* One failed call in a session never costs a channel.
THEOREM Closes == Spec => []CloseNeedsCut
<1>1. IInv => CloseNeedsCut
  BY DEF IInv, CutInv, CloseNeedsCut
<1> QED BY <1>1, Invariance, PTL

\* LDK never counts an update complete that is not on disk.
THEOREM Acks == Spec => []AckedIsDurable
<1>1. TypeOK /\ IInv => AckedIsDurable
  <2> SUFFICES ASSUME TypeOK, IInv, NEW c \in Channels PROVE acked[c] <= Durable.monitor[c]
    BY DEF AckedIsDurable
  <2>1. CASE Running
    BY <2>1 DEF IInv, NodeInv
  <2>2. CASE ~Running
    BY <2>2, StoreFacts DEF IInv, NodeInv, Zero, Ids
  <2> QED BY <2>1, <2>2
<1> QED BY <1>1, Invariance, PTL

\* Between sessions none of which was cut short the manager is up to date.
THEOREM Idles == Spec => []IdleIsCurrent
<1>1. TypeOK /\ IInv => IdleIsCurrent
  <2> SUFFICES ASSUME TypeOK, IInv, pc = "idle", ~cut, NEW c \in Channels
               PROVE  ~(Visible.latest[c] < Visible.monitor[c])
    BY DEF IdleIsCurrent, Outdated
  <2>1. Visible.monitor[c] <= Visible.latest[c]
    BY DEF IInv, CutInv, Running
  <2> QED BY <2>1, StoreFacts DEF IInv, Ids
<1> QED BY <1>1, Invariance, PTL

\* A step keeps the first version, or makes a later one the first.
LEMMA LogSteps ==
    ASSUME TypeOK, IInv, [Next]_vars
    PROVE  log'[1] = log[1] \/ \E i \in DOMAIN log : log'[1] = log[i]
<1>1. CASE UNCHANGED log
  BY <1>1
<1>2. CASE FlushPut \/ PutManager
  <2>1. Len(log) = 1
    BY <1>2 DEF FlushPut, PutManager, IInv, LogInv
  <2>2. PICK v : log' = Append(log, v)
    BY <1>2 DEF FlushPut, PutManager
  <2>3. log \in Seq(Version)
    BY DEF TypeOK
  <2>4. log'[1] = log[1]
    BY <2>1, <2>2, <2>3
  <2> QED BY <2>4
<1>3. CASE FlushSync \/ SyncManager
  BY <1>3, SyncFacts DEF FlushSync, SyncManager, Synced, Visible, TypeOK
<1>4. CASE Crash
  BY <1>4 DEF Crash, TypeOK
<1> QED BY <1>1, <1>2, <1>3, <1>4 DEF Next, Session, vars, Begin, SetupFromStorage,
     SetupFails, TimerTick, Connect, Expire, PumpStep, PumpStepThrows, WriteOutbound,
     SocketClosed, SyncChain, Exit, Drain, Fail, FailAgain

\* No sequence of sessions, failures and crashes takes durable state back.
THEOREM Advances == Spec => NeverRollsBack
<1>1. TypeOK /\ IInv /\ [Next]_vars =>
        [\A c \in Channels : /\ log[1].monitor[c] <= log'[1].monitor[c]
                             /\ log[1].latest[c] <= log'[1].latest[c]]_vars
  <2> SUFFICES ASSUME TypeOK, IInv, [Next]_vars, NEW c \in Channels
               PROVE  /\ log[1].monitor[c] <= log'[1].monitor[c]
                      /\ log[1].latest[c] <= log'[1].latest[c]
    OBVIOUS
  <2>1. log[1] \in Version /\ 1 \in DOMAIN log
    BY VersionsAreTyped DEF TypeOK, Durable
  <2>2. PICK i \in DOMAIN log : log'[1] = log[i]
    BY <2>1, LogSteps
  <2> QED BY <2>2 DEF IInv, LogInv
<1> QED BY <1>1, Invariance, PTL DEF Spec, NeverRollsBack

-----------------------------------------------------------------------------
(* The session implements the abstract node. *)

LEMMA InitImplements == Init => Node!Init
<1> SUFFICES ASSUME Init PROVE Node!Init
  OBVIOUS
<1> DEFINE v == [monitor |-> Zero, latest |-> Zero, done |-> Zero, closed |-> {}]
<1>1. log = <<v>> /\ log[1] = v
  BY DEF Init
<1>2. v.monitor = Zero
  OBVIOUS
<1> HIDE DEF v
<1> QED BY <1>1, <1>2 DEF Init, Node!Init, Zero

\* The monitors on disk advance: an abstract Persist.
LEMMA PersistImplements ==
    ASSUME TypeOK, IInv, [Next]_vars, TypeOK', UNCHANGED <<revealed, reported>>
    PROVE  Node!Persist
<1>1. log[1] \in Version /\ log'[1] \in Version /\ 1 \in DOMAIN log
  BY VersionsAreTyped DEF TypeOK, Durable
<1>2. PICK i \in DOMAIN log : log'[1] = log[i]
  BY <1>1, LogSteps
<1>3. \A c \in Channels : log[1].monitor[c] <= log'[1].monitor[c]
  BY <1>2 DEF IInv, LogInv
<1>4. log'[1].monitor \in [Channels -> Nat]
  BY <1>1 DEF Version, Ids
<1> QED BY <1>3, <1>4 DEF Node!Persist

\* Bytes leave for the peer: an abstract Reveal.
LEMMA RevealImplements ==
    ASSUME TypeOK, IInv, TypeOK', Tell, UNCHANGED <<log, reported>>
    PROVE  Node!Reveal
<1>1. \A c \in Channels : revealed'[c] <= log[1].monitor[c]
  BY TellInv DEF Durable
<1>2. revealed' \in [Channels -> Nat]
  BY DEF TypeOK, Ids
<1>3. \A c \in Channels : revealed[c] <= revealed'[c]
  BY DEF Tell, TypeOK, Ids
<1> QED BY <1>1, <1>2, <1>3 DEF Node!Reveal

\* A session that ends hands out its claims, and leaves the monitors as they are:
\* an abstract Report.
LEMMA ReportImplements ==
    ASSUME TypeOK, IInv, TypeOK', SyncManager
    PROVE  Node!Report
<1>1. pc = "endSync" /\ ~Quiet /\ UNCHANGED revealed /\ reported \subseteq reported'
      /\ reported' \subseteq reported \cup allClaimed
  BY DEF SyncManager, Quiet
<1>2. log'[1] = Visible /\ Visible = log[2]
  BY <1>1, StoreFacts, SyncFacts DEF IInv, SyncManager, Synced
<1>3. log[2].monitor = log[1].monitor
  <2>1. log[1].monitor \in Ids /\ log[2].monitor \in Ids
    BY <1>1, <1>2, StoreFacts DEF IInv, Durable
  <2>2. \A c \in Channels : log[2].monitor[c] = log[1].monitor[c]
    BY <1>1 DEF IInv, LogInv
  <2> QED BY <2>1, <2>2 DEF Ids
<1>4. UNCHANGED log[1].monitor
  BY <1>2, <1>3
<1>5. ASSUME NEW p \in reported'
      PROVE  p[1] \in Channels /\ p[2] <= log[1].monitor[p[1]]
  <2>1. p[1] \in Channels
    BY DEF TypeOK, Claims
  <2>2. p[2] <= log[1].monitor[p[1]]
    BY <1>1 DEF IInv, OutputInv, Durable
  <2> QED BY <2>1, <2>2
<1> QED BY <1>1, <1>4, <1>5 DEF Node!Report

LEMMA StepImplements ==
    ASSUME TypeOK, IInv, TypeOK', [Next]_vars
    PROVE  Node!Next
<1>1. CASE UNCHANGED <<revealed, reported>>
  BY <1>1, PersistImplements DEF Node!Next
<1>2. CASE WriteOutbound
  BY <1>2, RevealImplements DEF WriteOutbound, Node!Next
<1>3. CASE Fail /\ Tell
  BY <1>3, RevealImplements DEF Fail, Node!Next
<1>4. CASE SyncManager
  BY <1>4, ReportImplements DEF Node!Next
<1>5. CASE UNCHANGED vars
  BY <1>1, <1>5 DEF vars, historyVars
<1>6. CASE Next
  <2>1. CASE Fail
    BY <1>1, <1>3, <2>1 DEF Fail
  <2>2. CASE Crash \/ SetupFails \/ FailAgain
    BY <1>1, <2>2 DEF Crash, SetupFails, FailAgain, historyVars
  <2>3. CASE PumpStep \/ PumpStepThrows
    BY <1>1, <2>3 DEF PumpStep, PumpStepThrows, historyVars
  <2>4. CASE FlushPut \/ FlushSync \/ PutManager \/ Drain \/ SyncChain
    BY <1>1, <2>4 DEF FlushPut, FlushSync, PutManager, Drain, SyncChain, historyVars
  <2>5. CASE SetupFromStorage \/ TimerTick \/ Connect \/ Expire \/ SocketClosed \/ Exit
    BY <1>1, <2>5 DEF SetupFromStorage, TimerTick, Connect, Expire, SocketClosed, Exit, historyVars
  <2>6. CASE \E k \in Kinds : Begin(k)
    BY <1>1, <2>6 DEF Begin, historyVars
  <2> QED BY <1>2, <1>4, <1>6, <2>1, <2>2, <2>3, <2>4, <2>5, <2>6 DEF Next, Session
<1> QED BY <1>5, <1>6

\* Whatever fails or crashes, a caller and the peer see a node whose durable
\* states only advance and that never speaks of a state it could lose.
THEOREM Refines == Spec => Implements
<1>1. TypeOK /\ IInv /\ TypeOK' /\ [Next]_vars => [Node!Next]_(Node!vars)
  BY StepImplements
<1>2. Init => Node!Init
  BY InitImplements
<1> QED BY <1>1, <1>2, Invariance, PTL DEF Spec, Implements, Node!Spec
=============================================================================
