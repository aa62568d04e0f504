---------------------------- MODULE NodeSession ----------------------------
(***************************************************************************)
(* One request-scoped LDK session over Durable Object storage, and the     *)
(* sequence of sessions that follow each other on the same storage.        *)
(*                                                                         *)
(* MdkNode (packages/lightning-cloudflare/src/node.ts) restores the node   *)
(* from storage, does one unit of work, persists, and drops the node.  LDK *)
(* answers every monitor update with InProgress (persist.rs), JavaScript   *)
(* writes the buffered snapshots, syncs, and only then signals completion  *)
(* (storage.ts).  This module has one session at a time; SharedSession is  *)
(* about requests that overlap.                                            *)
(*                                                                         *)
(* A monitor snapshot is represented by the update id it contains, and a   *)
(* channel manager by what a restore compares with the monitors: the last  *)
(* update it generated, the last update it knows to be complete (what lies *)
(* between is written with it as in-flight), and the channels it closed.   *)
(***************************************************************************)
EXTENDS Naturals, Sequences, FiniteSets

CONSTANTS
    Channels,   \* channels of the node
    MaxUpdate   \* bound on the update ids of a channel

ASSUME BoundAssumption == MaxUpdate \in Nat

VARIABLES
    \* Durable Object storage: the versions a crash may leave behind.  The
    \* first one is on disk, the last one is what a read returns.
    log,
    \* The JavaScript request: control point, operation, where the flush that
    \* is running returns to, inside handleSessionFailure or not, deadline of
    \* the pump loop passed or not.
    pc, kind, ret, failing, timedOut,
    \* The LDK node of the session, per channel: id in the in-memory monitor,
    \* last id generated by the manager, last id the manager knows complete,
    \* last id of a Completed event, ids ChainMonitor waits for; and the
    \* channels the manager closed.
    monitor, latest, done, acked, pending, closed,
    \* DoPersister.pending, and the part of it that JavaScript has drained.
    queue, batch,
    \* The result of the last pump step: what its outbound bytes tell the peer
    \* (an update id per channel), the payments it claimed; and allClaimed.
    outbound, stepClaims, allClaimed,
    \* History: what the peer has been told, the payments returned by
    \* receivePayments, and whether a session was ever cut short.
    revealed, reported, cut

requestVars == <<pc, kind, ret, failing, timedOut>>
nodeVars    == <<monitor, latest, done, acked, pending, closed>>
bufferVars  == <<queue, batch>>
stepVars    == <<outbound, stepClaims, allClaimed>>
historyVars == <<revealed, reported, cut>>
vars == <<log, requestVars, nodeVars, bufferVars, stepVars, historyVars>>

Kinds == {"local", "receive", "pay", "invoice", "maintenance"}
Points == {"idle", "setup", "tick", "connect", "pump", "put", "sync", "write",
           "exit", "chain", "drain", "end", "endPut", "endSync"}

\* A payment claimed by an update of a channel's monitor.
Claims == Channels \X Nat
Ids == [Channels -> Nat]
IdSets == [Channels -> SUBSET Nat]

Version == [monitor : Ids, latest : Ids, done : Ids, closed : SUBSET Channels]

Zero == [c \in Channels |-> 0]
None == [c \in Channels |-> {}]

Durable == log[1]
Visible == log[Len(log)]

Running == pc \notin {"idle", "setup"}

TypeOK ==
    /\ log \in Seq(Version) /\ Len(log) >= 1
    /\ pc \in Points /\ kind \in Kinds
    /\ ret \in {"write", "tick", "endPut"}
    /\ failing \in BOOLEAN /\ timedOut \in BOOLEAN /\ cut \in BOOLEAN
    /\ monitor \in Ids /\ latest \in Ids /\ done \in Ids /\ acked \in Ids
    /\ pending \in IdSets /\ queue \in IdSets /\ batch \in IdSets
    /\ closed \in SUBSET Channels
    /\ outbound \in Ids /\ revealed \in Ids
    /\ stepClaims \in SUBSET Claims /\ allClaimed \in SUBSET Claims
    /\ reported \in SUBSET Claims

\* A channel manager has been stored and knows no channel yet.
Init ==
    /\ log = <<[monitor |-> Zero, latest |-> Zero, done |-> Zero, closed |-> {}]>>
    /\ pc = "idle" /\ kind = "local" /\ ret = "write"
    /\ failing = FALSE /\ timedOut = FALSE
    /\ monitor = Zero /\ latest = Zero /\ done = Zero /\ acked = Zero
    /\ pending = None /\ closed = {} /\ queue = None /\ batch = None
    /\ outbound = Zero /\ stepClaims = {} /\ allClaimed = {}
    /\ revealed = Zero /\ reported = {} /\ cut = FALSE

-----------------------------------------------------------------------------
\* teardown_node, or the loss of the isolate: nothing in memory survives.
DropNode ==
    /\ pc' = "idle" /\ kind' = "local" /\ ret' = "write"
    /\ failing' = FALSE /\ timedOut' = FALSE
    /\ monitor' = Zero /\ latest' = Zero /\ done' = Zero /\ acked' = Zero
    /\ pending' = None /\ closed' = {} /\ queue' = None /\ batch' = None
    /\ outbound' = Zero /\ stepClaims' = {} /\ allClaimed' = {}

Begin(k) ==
    /\ pc = "idle"
    /\ pc' = "setup" /\ kind' = k
    /\ UNCHANGED <<log, ret, failing, timedOut, nodeVars, bufferVars, stepVars, historyVars>>

\* LDK replays the in-flight updates of a manager onto a monitor, so it reads
\* a manager whose completed updates are all in the stored monitors.
Restorable(version) == \A c \in Channels : version.done[c] <= version.monitor[c]

\* A monitor ahead of its manager: LDK force-closes the channel on restore.
Outdated(version) == {c \in Channels : version.latest[c] < version.monitor[c]}

\* Control point after setupFromStorage, per operation of MdkNode.
FirstPoint == [local |-> "exit", receive |-> "tick", pay |-> "tick",
               invoice |-> "connect", maintenance |-> "chain"]

\* Restore from what storage reads return.  A fresh ChainMonitor has no pending
\* update, so recoverPendingUpdates finds none: the in-flight updates come back
\* when LDK processes its background events (Replay).  A manager whose
\* in-flight updates are all stored already gets them completed there too.
SetupFromStorage ==
    /\ pc = "setup" /\ Restorable(Visible)
    /\ pc' = FirstPoint[kind]
    /\ monitor' = Visible.monitor
    /\ closed' = Visible.closed \cup Outdated(Visible)
    /\ latest' = [c \in Channels |-> IF c \in Outdated(Visible)
                                     THEN Visible.monitor[c] ELSE Visible.latest[c]]
    /\ done' = [c \in Channels |-> IF c \in Outdated(Visible)
                                   THEN Visible.monitor[c] ELSE Visible.done[c]]
    /\ acked' = [c \in Channels |-> IF Visible.latest[c] <= Visible.monitor[c]
                                    THEN Visible.monitor[c] ELSE Visible.done[c]]
    /\ pending' = None
    /\ UNCHANGED <<log, kind, ret, failing, timedOut, bufferVars, stepVars, historyVars>>

\* Bug variant of SetupFails: a failed restore is treated like a failed session,
\* so that persistSessionEnd stores the manager of a fresh node.
SetupFailsButPersists ==
    /\ pc = "setup"
    /\ pc' = "end" /\ failing' = TRUE
    /\ UNCHANGED <<log, kind, ret, timedOut, nodeVars, bufferVars, stepVars, historyVars>>

\* The fee fetch fails, or LDK rejects the stored state: no session exists.
SetupFails ==
    /\ pc = "setup"
    /\ DropNode
    /\ UNCHANGED <<log, historyVars>>

-----------------------------------------------------------------------------
\* Background events: re-apply the in-flight updates the stored monitor lacks.
Missing(c) == (monitor[c] + 1) .. latest[c]

\* The Completed events that the manager handles: ids up to acked are done.
Handled(c) == IF done[c] < acked[c] THEN acked[c] ELSE done[c]

\* timer_tick (receivePayments, pay) and prepare_for_claiming (maintenance).
TimerTick ==
    /\ pc = "tick"
    /\ pc' = IF kind = "maintenance" THEN "exit" ELSE "connect"
    /\ done' = [c \in Channels |-> Handled(c)]
    /\ pending' = [c \in Channels |-> pending[c] \cup Missing(c)]
    /\ queue' = [c \in Channels |-> queue[c] \cup Missing(c)]
    /\ monitor' = latest
    /\ UNCHANGED <<log, kind, ret, failing, timedOut, latest, acked, closed, batch,
                   stepVars, historyVars>>

Connect ==
    /\ pc = "connect"
    /\ pc' = "pump"
    /\ UNCHANGED <<log, kind, ret, failing, timedOut, nodeVars, bufferVars, stepVars, historyVars>>

\* The loop finds its deadline passed: the next step is its last one.  (The quiet
\* timeout ends the loop in the same way.)
Expire ==
    /\ pc = "pump" /\ ~timedOut
    /\ timedOut' = TRUE
    /\ UNCHANGED <<log, pc, kind, ret, failing, nodeVars, bufferVars, stepVars, historyVars>>

\* The ids of a channel when the channels of early got one more update before the
\* manager handles completed updates, and those of late one more after it.
Bump(id, c, updated) == IF c \in updated THEN id + 1 ELSE id
Sent(c, early) == Bump(latest[c], c, early)
Last(c, early, late) == Bump(Sent(c, early), c, late)

\* The ids that a channel's in-memory monitor applies on its way to last.
Fresh(c, last) == (monitor[c] + 1) .. last

\* Updates are generated, applied to the in-memory monitors, and InProgress.
Advance(early, late) ==
    /\ \A c \in early \cup late : Last(c, early, late) <= MaxUpdate
    /\ latest' = [c \in Channels |-> Last(c, early, late)]
    /\ monitor' = [c \in Channels |-> Last(c, early, late)]
    /\ pending' = [c \in Channels |-> pending[c] \cup Fresh(c, Last(c, early, late))]

\* onChannelsReady (pay) and process_peer_message, one synchronous stretch of
\* WASM.  The claims are late updates.  A message held for a channel is released
\* only if the channel has no update in flight.  The step drains the persister
\* and takes the outbound bytes.
Pump(early, late, claims) ==
    /\ Advance(early, late)
    /\ done' = [c \in Channels |-> Handled(c)]
    /\ outbound' = [c \in Channels |-> IF Handled(c) = Sent(c, early) THEN Handled(c) ELSE 0]
    /\ stepClaims' = {<<c, Last(c, early, late)>> : c \in claims}
    /\ batch' = [c \in Channels |-> queue[c] \cup Fresh(c, Last(c, early, late))]
    /\ queue' = None
    /\ pc' = IF batch' = None THEN "write" ELSE "put"
    /\ ret' = "write"

PumpStep ==
    /\ pc = "pump"
    /\ \E early, late \in SUBSET (Channels \ closed) :
        \E claims \in SUBSET late : Pump(early, late, claims)
    /\ UNCHANGED <<log, kind, failing, timedOut, acked, closed, allClaimed,
                   revealed, reported, cut>>

\* process_peer_message throws at some chunk of the bytes: what was done before it
\* stays, and the updates stay in the persister for handleSessionFailure to drain.
PumpThrows(early, late) ==
    /\ Advance(early, late)
    /\ done' \in {done, [c \in Channels |-> Handled(c)]}
    /\ queue' = [c \in Channels |-> queue[c] \cup Fresh(c, Last(c, early, late))]

PumpStepThrows ==
    /\ pc = "pump"
    /\ \E early, late \in SUBSET (Channels \ closed) : PumpThrows(early, late)
    /\ failing' = TRUE
    /\ pc' = "end"
    /\ UNCHANGED <<log, kind, ret, timedOut, acked, closed, batch, stepVars, historyVars>>

\* Bug variant of IsLast: the entries end up in the reverse order.
IsFirst(id, ids) == id \in ids /\ \A other \in ids : id <= other

\* flushPendingMonitors: one put of the drained snapshots.  entries is filled in
\* the order of the persister, so that the last snapshot of a channel stays, and
\* a channel's snapshots were buffered in the order of their ids.
IsLast(id, ids) == id \in ids /\ \A other \in ids : other <= id

FlushPut ==
    /\ pc = "put"
    /\ \E entries \in [Channels -> UNION {batch[c] : c \in Channels}] :
        /\ \A c \in Channels : batch[c] # {} => IsLast(entries[c], batch[c])
        /\ log' = Append(log, [Visible EXCEPT !.monitor =
                      [c \in Channels |-> IF batch[c] = {} THEN @[c] ELSE entries[c]]])
    /\ pc' = "sync"
    /\ UNCHANGED <<kind, ret, failing, timedOut, nodeVars, bufferVars, stepVars, historyVars>>

\* Bug variant of Synced: sync() is not awaited.
NotSynced == UNCHANGED log

\* storage.sync() resolves: all that was put is on disk.
Synced == log' = <<Visible>>

\* storage.sync() resolves, then signal_monitors_persisted: ChainMonitor drops
\* the ids and, when a channel waits for no other, emits a Completed event.
FlushSync ==
    /\ pc = "sync"
    /\ Synced
    /\ pending' = [c \in Channels |-> pending[c] \ batch[c]]
    /\ acked' = [c \in Channels |-> IF batch[c] # {} /\ pending'[c] = {}
                                    THEN monitor[c] ELSE acked[c]]
    /\ batch' = None
    /\ pc' = ret
    /\ UNCHANGED <<kind, ret, failing, timedOut, monitor, latest, done, closed, queue,
                   stepVars, historyVars>>

\* The peer learns the messages in the outbound bytes.
Tell == revealed' = [c \in Channels |-> IF revealed[c] < outbound[c]
                                        THEN outbound[c] ELSE revealed[c]]

\* applyPumpResult after the flush: write, then record the claims.  The loop goes
\* on, or ends with a terminal result; after the deadline this was its last step.
WriteOutbound ==
    /\ pc = "write"
    /\ pc' \in IF timedOut THEN {"exit"} ELSE {"pump", "exit"}
    /\ Tell
    /\ allClaimed' = allClaimed \cup stepClaims
    /\ outbound' = Zero /\ stepClaims' = {}
    /\ UNCHANGED <<log, kind, ret, failing, timedOut, nodeVars, bufferVars,
                   reported, cut>>

\* socket.read() returned null: leave the loop without a last step.
SocketClosed ==
    /\ pc = "pump" /\ ~timedOut
    /\ pc' = "exit"
    /\ UNCHANGED <<log, kind, ret, failing, timedOut, nodeVars, bufferVars, stepVars, historyVars>>

\* sync_chain_on_session: monitors that saw new blocks are buffered again, under
\* the id they have, and ChainMonitor does not wait for these writes.
SyncChain ==
    /\ pc = "chain"
    /\ \E seen \in SUBSET {c \in Channels : monitor[c] > 0} :
        queue' = [c \in Channels |-> IF c \in seen THEN queue[c] \cup {monitor[c]}
                                                  ELSE queue[c]]
    /\ pc' = "drain"
    /\ UNCHANGED <<log, kind, ret, failing, timedOut, nodeVars, batch, stepVars, historyVars>>

\* What is left between the work and persistSessionEnd: the invoice or the node
\* info, socket.close, flush_broadcasts_on_session, the RGS timestamp.
Exit ==
    /\ pc = "exit"
    /\ pc' = "end"
    /\ UNCHANGED <<log, kind, ret, failing, timedOut, nodeVars, bufferVars, stepVars, historyVars>>

\* Bug variants of Drain: maintenance skips its timer tick; take_pending copies
\* the buffer and does not empty it.
DrainToExit ==
    /\ pc \in {"drain", "end"}
    /\ ret' = IF pc = "drain" THEN "exit" ELSE "endPut"
    /\ pc' = IF queue = None THEN ret' ELSE "put"
    /\ batch' = queue /\ queue' = None
    /\ UNCHANGED <<log, kind, failing, timedOut, nodeVars, stepVars, historyVars>>

DrainCopy ==
    /\ pc \in {"drain", "end"}
    /\ ret' = IF pc = "drain" THEN "tick" ELSE "endPut"
    /\ pc' = IF queue = None THEN ret' ELSE "put"
    /\ batch' = queue /\ UNCHANGED queue
    /\ UNCHANGED <<log, kind, failing, timedOut, nodeVars, stepVars, historyVars>>

\* drainAndFlushMonitors, after chain sync and at the start of persistSessionEnd.
Drain ==
    /\ pc \in {"drain", "end"}
    /\ ret' = IF pc = "drain" THEN "tick" ELSE "endPut"
    /\ pc' = IF queue = None THEN ret' ELSE "put"
    /\ batch' = queue /\ queue' = None
    /\ UNCHANGED <<log, kind, failing, timedOut, nodeVars, stepVars, historyVars>>

\* Bug variant of PutManager: the manager is serialized when the session starts.
PutStaleManager ==
    /\ pc = "endPut"
    /\ log' = Append(log, Visible)
    /\ pc' = "endSync"
    /\ UNCHANGED <<kind, ret, failing, timedOut, nodeVars, bufferVars, stepVars, historyVars>>

\* persistSessionEnd: serialize the manager as it is now, and put it.
PutManager ==
    /\ pc = "endPut"
    /\ log' = Append(log, [monitor |-> Visible.monitor, latest |-> latest,
                           done |-> done, closed |-> closed])
    /\ pc' = "endSync"
    /\ UNCHANGED <<kind, ret, failing, timedOut, nodeVars, bufferVars, stepVars, historyVars>>

\* persistSessionEnd returns and the node is dropped.  Only receivePayments
\* returns the claims, and only when it does not rethrow an error.
SyncManager ==
    /\ pc = "endSync"
    /\ Synced
    /\ reported' = IF kind = "receive" /\ ~failing THEN reported \cup allClaimed ELSE reported
    /\ DropNode
    /\ UNCHANGED <<revealed, cut>>

-----------------------------------------------------------------------------
\* A call of the session may throw: the RGS fetch of pay (before its timer tick),
\* the socket, WASM, a put (which then stored nothing), chain sync.  A sync() that
\* cannot make its writes durable resets the Durable Object: that is a Crash.
MayThrow ==
    \/ pc \in {"connect", "pump", "put", "write", "exit", "drain", "endPut"}
    \/ pc = "tick" /\ kind = "pay"

\* Bug variants of Fail: the node is dropped without a last persistSessionEnd;
\* persistSessionEnd is retried until it succeeds.
FailDrops ==
    /\ MayThrow /\ ~failing
    /\ DropNode
    /\ UNCHANGED <<log, revealed, reported, cut>>

FailForever ==
    /\ MayThrow
    /\ pc' = "end"
    /\ batch' = None /\ outbound' = Zero /\ stepClaims' = {}
    /\ UNCHANGED <<log, kind, ret, failing, timedOut, nodeVars, queue, allClaimed,
                   reported, revealed, cut>>

\* An error of the work or of its persistence enters handleSessionFailure, which
\* tries persistSessionEnd once more.  A socket write that fails may have sent
\* its bytes.  The claims of a step that was not applied never reach allClaimed.
Fail ==
    /\ MayThrow /\ ~failing
    /\ failing' = TRUE
    /\ pc' = "end"
    /\ IF pc = "write" THEN Tell \/ UNCHANGED revealed ELSE UNCHANGED revealed
    /\ batch' = None /\ outbound' = Zero /\ stepClaims' = {}
    /\ UNCHANGED <<log, kind, ret, timedOut, nodeVars, queue, allClaimed,
                   reported, cut>>

\* The last persistence attempt of handleSessionFailure fails: it is logged and
\* the node is dropped.
FailAgain ==
    /\ MayThrow /\ failing
    /\ cut' = TRUE
    /\ DropNode
    /\ UNCHANGED <<log, revealed, reported>>

\* The isolate dies.  Writes that were not synced survive up to some point.
Crash ==
    /\ pc # "idle" \/ Len(log) > 1
    /\ \E i \in 1 .. Len(log) : log' = <<log[i]>>
    /\ cut' = TRUE
    /\ DropNode
    /\ UNCHANGED <<revealed, reported>>

-----------------------------------------------------------------------------
\* The steps of a running request, those its environment does not choose.
Session ==
    \/ SetupFromStorage \/ SetupFails \/ TimerTick \/ Connect \/ Expire \/ PumpStep
    \/ PumpStepThrows
    \/ FlushPut \/ FlushSync \/ WriteOutbound \/ SocketClosed \/ SyncChain \/ Exit
    \/ Drain \/ PutManager \/ SyncManager \/ Fail \/ FailAgain

Next == (\E k \in Kinds : Begin(k)) \/ Session \/ Crash

Spec == Init /\ [][Next]_vars

\* Every await of a running request resolves or rejects; and a loop that keeps
\* coming back to its deadline test finds it passed at some point.
FairSpec == Spec /\ WF_vars(Session) /\ SF_vars(Expire)

-----------------------------------------------------------------------------
(* Properties. *)

\* Whatever version a crash leaves, the next restore is accepted: no stored
\* manager counts an update as complete that its monitors lack (node.ts:197).
AlwaysRestorable == \A i \in DOMAIN log : Restorable(log[i])

\* The peer is never told a state that a crash could take back: a message held
\* for a monitor update leaves only after the update is on disk.
RevealedIsDurable == \A c \in Channels : revealed[c] <= Durable.monitor[c]

\* LDK is told that an update is complete only when it is on disk (node.ts:171).
AckedIsDurable == \A c \in Channels : acked[c] <= Durable.monitor[c]

\* A payment returned by receivePayments has its preimage on disk, in a monitor
\* and in what the stored manager knows of it: no later crash or failure can take
\* the claim back.
ReportedIsDurable ==
    \A p \in reported : p[2] <= Durable.monitor[p[1]] /\ p[2] <= Durable.latest[p[1]]

\* A channel is force-closed by a restore only if a session was cut short: by a
\* crash, or by a second failure inside handleSessionFailure.  One failed call
\* anywhere in a session never costs a channel.
CloseNeedsCut == closed # {} => cut

\* Between sessions that were not cut short the stored manager is not behind its
\* monitors, however the sessions ended.
IdleIsCurrent == pc = "idle" /\ ~cut => Outdated(Visible) = {}

\* What is durable never goes back, in the monitors or in the manager, through
\* any sequence of sessions, failures and crashes.
NeverRollsBack ==
    [][\A c \in Channels : /\ log[1].monitor[c] <= log'[1].monitor[c]
                           /\ log[1].latest[c] <= log'[1].latest[c]]_vars

\* The inductive invariant behind the safety properties above.
\* What storage holds: one version, or a second one that is not synced yet; the
\* second is not behind the first, and no manager counts a lost update complete.
LogInv ==
    /\ Len(log) = IF pc \in {"sync", "endSync"} THEN 2 ELSE 1
    /\ \A i \in DOMAIN log : \A c \in Channels :
        /\ log[1].monitor[c] <= log[i].monitor[c]
        /\ log[1].latest[c] <= log[i].latest[c]
        /\ log[i].done[c] <= log[1].monitor[c]
    /\ pc = "endSync" => \A c \in Channels : log[2].monitor[c] = log[1].monitor[c]
                                         /\ log[2].latest[c] = latest[c]

\* The node of a running session: its monitors are between storage and manager,
\* and ChainMonitor waits for its newest update or that update is durable.
NodeInv ==
    /\ ~Running => acked = Zero
    /\ Running => \A c \in Channels :
        /\ Visible.monitor[c] <= monitor[c] /\ monitor[c] <= latest[c]
        /\ Visible.latest[c] <= latest[c]
        /\ done[c] <= Durable.monitor[c] /\ acked[c] <= Durable.monitor[c]
        /\ monitor[c] \in pending[c] \/ monitor[c] <= Durable.monitor[c]

\* What is buffered is newer than storage, and a drained batch is all there is.
BufferInv ==
    /\ pc \in {"idle", "setup"} => queue = None
    /\ pc \in {"put", "sync"} => queue = None
    /\ pc \notin {"put", "sync"} => batch = None
    /\ \A c \in Channels : \A u \in queue[c] \cup batch[c] :
        /\ u <= monitor[c]
        /\ pc = "sync" => u <= Visible.monitor[c]
        /\ pc # "sync" => Visible.monitor[c] <= u

\* What left, or is about to leave, the session is durable, or in the batch.
OutputInv ==
    /\ \A c \in Channels : outbound[c] <= Durable.monitor[c] /\ revealed[c] <= Durable.monitor[c]
    /\ \A p \in stepClaims : \/ p[2] <= Durable.monitor[p[1]]
                             \/ pc \in {"put", "sync"} /\ p[2] \in batch[p[1]]
    /\ \A p \in allClaimed : p[2] <= Durable.monitor[p[1]]
    /\ \A p \in reported : p[2] <= Durable.monitor[p[1]] /\ p[2] <= Durable.latest[p[1]]
    /\ pc = "idle" => allClaimed = {}

\* While no session was cut short the stored manager keeps up with the monitors
\* whenever no session runs, and no channel was closed.
CutInv ==
    ~cut => /\ closed = {} /\ \A i \in DOMAIN log : log[i].closed = {}
            /\ ~Running => \A c \in Channels : Visible.monitor[c] <= Visible.latest[c]

IInv == LogInv /\ NodeInv /\ BufferInv /\ OutputInv /\ CutInv

\* The session implements the abstract node: its durable state is the monitors
\* on disk.
Node == INSTANCE DurableNode WITH durable <- log[1].monitor
Implements == Node!Spec

\* Every session ends, whatever fails: nothing waits for an update or a message
\* that does not come.
SessionEnds == pc # "idle" ~> pc = "idle"

\* What README.md says of a payment that arrives: "The DO connects to the LSP,
\* claims the payment, and confirms it with MDK" (README.md:172).  A session that
\* ends without an error returns the payments it claimed, for confirmation.
ClaimsAreReturned ==
    [][pc = "endSync" /\ pc' = "idle" /\ ~failing /\ ~cut'
        => allClaimed \subseteq reported']_vars
=============================================================================
