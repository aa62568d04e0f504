--------------------------- MODULE SharedSession ---------------------------
(***************************************************************************)
(* Several requests of one Durable Object, over its storage and the single *)
(* SESSION slot of the WASM instance (crates/ldk-wasm/src/lib.rs:126).     *)
(*                                                                         *)
(* A Durable Object runs one JavaScript stretch at a time and delivers no  *)
(* event while a storage operation is pending, but at every other await    *)
(* (fetch, connect, socket read and write) another request may run.  Every *)
(* WASM export acts on whatever session the slot holds at that moment.     *)
(*                                                                         *)
(* NodeSession has the session in detail, with crashes and storage errors; *)
(* here one channel is enough and only network calls fail.  Versions and   *)
(* update ids are those of NodeSession.                                    *)
(***************************************************************************)
EXTENDS Naturals, Sequences

CONSTANTS
    Requests,    \* requests, the alarm included
    MaxUpdate,   \* bound on the update ids of the channel
    FetchYields, \* other requests may run while setup awaits fee estimates
    SyncYields   \* other requests may run while storage.sync() is awaited

ASSUME SharedAssumption ==
    /\ MaxUpdate \in Nat
    /\ {FetchYields, SyncYields} \subseteq BOOLEAN

VARIABLES
    log,       \* Durable Object storage, as in NodeSession: durable first, visible last
    open,      \* the slot holds a session
    node,      \* that session, meaningful while open
    request,   \* the JavaScript state of every request
    revealed   \* history: the highest update id the peer was told of

vars == <<log, open, node, request, revealed>>

Version == [monitor : Nat, latest : Nat, done : Nat, closed : BOOLEAN]

Kinds == {"local", "receive", "pay", "invoice", "maintenance"}

\* Connections a session may have: none yet, one of a request, one that LDK has
\* given up after bytes it could not decrypt.
Connections == {"none", "dead"} \cup Requests

Node == [monitor : Nat, latest : Nat, done : Nat, acked : Nat, closed : BOOLEAN,
         pending : SUBSET Nat, queue : SUBSET Nat, conn : Connections, by : Requests]

\* Points at which a request awaits the network, or is not running.
Awaiting == {"new", "rgs", "connect", "pump", "chain", "broadcast", "done"}
Yields == Awaiting \cup (IF FetchYields THEN {"fees"} ELSE {})
                   \cup (IF SyncYields THEN {"sync", "endSync"} ELSE {})
Points == Awaiting \cup {"fees", "tick", "put", "sync", "write", "drain", "end", "endPut",
                         "endSync"}

Request == [pc : Points, kind : Kinds, ret : {"write", "tick", "endPut"},
            snapshot : Version, batch : SUBSET Nat, outbound : Nat]

Durable == log[1]
Visible == log[Len(log)]

TypeOK ==
    /\ log \in Seq(Version) /\ Len(log) >= 1
    /\ open \in BOOLEAN /\ node \in Node
    /\ request \in [Requests -> Request]
    /\ revealed \in Nat

Fresh == [monitor |-> 0, latest |-> 0, done |-> 0, closed |-> FALSE]

Init ==
    /\ log = <<Fresh>>
    /\ open = FALSE
    /\ \E r \in Requests : node = [monitor |-> 0, latest |-> 0, done |-> 0, acked |-> 0,
            closed |-> FALSE, pending |-> {}, queue |-> {}, conn |-> "none", by |-> r]
    /\ request = [r \in Requests |-> [pc |-> "new", kind |-> "local", ret |-> "write",
                                      snapshot |-> Fresh, batch |-> {}, outbound |-> 0]]
    /\ revealed = 0

-----------------------------------------------------------------------------
\* Request r may run: every other request is at an await that lets it.
At(r, points) ==
    /\ request[r].pc \in points
    /\ \A other \in Requests \ {r} : request[other].pc \in Yields

\* Request r goes on at a point; nothing it holds is needed any more when it is done.
Goto(r, point) ==
    request' = [request EXCEPT ![r].pc = point]

Finish(r) ==
    request' = [request EXCEPT ![r] = [@ EXCEPT !.pc = "done", !.kind = "local",
        !.ret = "write", !.snapshot = Fresh, !.batch = {}, !.outbound = 0]]

\* Storage writes: a put is visible at once, and durable after a sync.
Put(version) == log' = Append(log, version)

Synced == log' = <<Visible>>

-----------------------------------------------------------------------------
(* The node in the slot. *)

Restorable(version) == version.done <= version.monitor

\* A session restored by r: LDK closes a channel whose monitor is ahead.
Restored(version, r) ==
    LET lost == version.latest < version.monitor
        behind == IF lost THEN version.monitor ELSE version.latest
    IN  [monitor |-> version.monitor,
         latest  |-> behind,
         done    |-> IF lost THEN version.monitor ELSE version.done,
         acked   |-> IF behind = version.monitor THEN version.monitor ELSE version.done,
         closed  |-> version.closed \/ lost,
         pending |-> {}, queue |-> {}, conn |-> "none", by |-> r]

Handled(n) == IF n.done < n.acked THEN n.acked ELSE n.done

\* The ids the in-memory monitor applies on its way to last.
Upto(n, last) == (n.monitor + 1) .. last

\* Background events: replay of in-flight updates, completed updates handled.
Ticked(n) ==
    [n EXCEPT !.done = Handled(n), !.monitor = n.latest,
              !.pending = @ \cup Upto(n, n.latest),
              !.queue = @ \cup Upto(n, n.latest)]

\* early and late new updates, before and after completed updates are handled.
Advanced(n, early, late) ==
    LET last == n.latest + early + late
    IN  [n EXCEPT !.latest = last, !.monitor = last, !.done = Handled(n),
                  !.pending = @ \cup Upto(n, last),
                  !.queue = @ \cup Upto(n, last)]

MayAdvance(n, early, late) ==
    early + late > 0 => ~n.closed /\ n.latest + early + late <= MaxUpdate

\* channel_monitor_updated for every id: ChainMonitor emits a Completed event for
\* the id its monitor has, when it waits for no other.
Signalled(n, ids) ==
    [n EXCEPT !.pending = @ \ ids,
              !.acked = IF ids # {} /\ n.pending \subseteq ids THEN n.monitor ELSE @]

-----------------------------------------------------------------------------
(* setupFromStorage. *)

\* Control point after setupFromStorage, per operation of MdkNode.
AfterSetup == [local |-> "end", receive |-> "tick", pay |-> "rgs",
               invoice |-> "connect", maintenance |-> "chain"]

\* setup_node puts a new session into the slot, whatever the slot holds.
Setup(r, k, version) ==
    /\ Restorable(version)
    /\ open' = TRUE
    /\ node' = Restored(version, r)
    /\ request' = [request EXCEPT ![r] = [@ EXCEPT !.pc = AfterSetup[k], !.kind = k,
                                                  !.snapshot = Fresh]]

\* Fresh cached fees: nothing runs between the reads and setup_node.  The alarm may
\* have refreshed them after another request found them stale.
BeginCached(r, k) ==
    /\ At(r, {"new"})
    /\ Setup(r, k, Visible)
    /\ UNCHANGED <<log, revealed>>

\* No fresh fees: the state was read, and refreshFees awaits the Esplora server.
BeginFetching(r, k) ==
    /\ At(r, {"new"})
    /\ request' = [request EXCEPT ![r] = [@ EXCEPT !.pc = "fees", !.kind = k,
                                                  !.snapshot = Visible]]
    /\ UNCHANGED <<log, open, node, revealed>>

\* Bug variant of FeesArrive: what was read is lost, as on a first start.
FeesArriveFresh(r) ==
    /\ At(r, {"fees"})
    /\ Setup(r, request[r].kind, Fresh)
    /\ UNCHANGED <<log, revealed>>

\* The fees arrive: the node is built from what was read before.
FeesArrive(r) ==
    /\ At(r, {"fees"})
    /\ Setup(r, request[r].kind, request[r].snapshot)
    /\ UNCHANGED <<log, revealed>>

\* setupFromStorage throws.  handleSessionFailure(false) persists nothing, but it
\* tears down the session in the slot, which is another request's.
SetupFails(r) ==
    /\ At(r, {"fees"})
    /\ open' = FALSE
    /\ Finish(r)
    /\ UNCHANGED <<log, node, revealed>>

-----------------------------------------------------------------------------
(* The work of a session. *)

\* pay: the RGS snapshot arrives.
RgsArrives(r) ==
    /\ At(r, {"rgs"})
    /\ Goto(r, "tick")
    /\ UNCHANGED <<log, open, node, revealed>>

\* timer_tick, or prepare_for_claiming and then the broadcasts of maintenance.
TimerTick(r) ==
    /\ At(r, {"tick"}) /\ open
    /\ node' = Ticked(node)
    /\ Goto(r, IF request[r].kind = "maintenance" THEN "broadcast" ELSE "connect")
    /\ UNCHANGED <<log, open, revealed>>

\* The socket is there: initiate_connection opens a connection on the session in
\* the slot, and the pump loop starts.
Connected(r) ==
    /\ At(r, {"connect"}) /\ open
    /\ node' = [node EXCEPT !.conn = r]
    /\ Goto(r, "pump")
    /\ UNCHANGED <<log, open, revealed>>

\* Request q holds the drained snapshots ids and the output out.  It puts the
\* snapshots, if there are any, and then goes on.
Flushing(q, ids, then, out) ==
    [q EXCEPT !.batch = ids, !.ret = then, !.pc = IF ids = {} THEN then ELSE "put",
              !.outbound = out]

\* A pump step on the own connection.  A message held for an update is released
\* when none is in flight; a closed channel has no more to say.
PumpStep(r) ==
    /\ At(r, {"pump"}) /\ open /\ node.conn = r
    /\ \E early, late \in {0, 1} :
        /\ MayAdvance(node, early, late)
        /\ LET n == Advanced(node, early, late)
               out == IF ~n.closed /\ n.done = node.latest + early THEN n.done ELSE 0
           IN  /\ node' = [n EXCEPT !.queue = {}]
               /\ request' = [request EXCEPT ![r] = Flushing(@, n.queue, "write", out)]
    /\ UNCHANGED <<log, open, revealed>>

\* A read timeout on a session that has a connection, but not r's: its events are
\* processed, and what the other connection has to send goes out on r's socket.
PumpForeign(r) ==
    /\ At(r, {"pump"}) /\ open /\ node.conn \notin {"none", r}
    /\ \E late \in {0, 1} :
        /\ MayAdvance(node, 0, late)
        /\ LET n == Advanced(node, 0, late)
           IN  /\ node' = [n EXCEPT !.queue = {}]
               /\ request' = [request EXCEPT ![r] = Flushing(@, n.queue, "write", 0)]
    /\ UNCHANGED <<log, open, revealed>>

\* process_peer_message throws: no connection, bytes of another connection, or an
\* error after part of the bytes was processed.  handleSessionFailure follows.
PumpThrows(r) ==
    /\ At(r, {"pump"}) /\ open
    /\ \/ node.conn = "none" /\ UNCHANGED node
       \/ node.conn \notin {"none", r} /\ node' = [node EXCEPT !.conn = "dead"]
       \/ /\ node.conn = r
          /\ \E early, late \in {0, 1} :
                /\ MayAdvance(node, early, late)
                /\ node' = [Advanced(node, early, late) EXCEPT !.conn = "dead"]
    /\ Goto(r, "end")
    /\ UNCHANGED <<log, open, revealed>>

\* The loop ends, perhaps because the socket of r was closed: then the session in
\* the slot forgets its connection, whoever opened it.  flush_broadcasts_on_session
\* takes the session in the slot.
Leave(r) ==
    /\ At(r, {"pump"}) /\ open
    /\ \E conn \in {node.conn, "none"} : node' = [node EXCEPT !.conn = conn]
    /\ Goto(r, "broadcast")
    /\ UNCHANGED <<log, open, revealed>>

\* socket.write of the outbound bytes, then the next read.
Write(r) ==
    /\ At(r, {"write"})
    /\ revealed' = IF revealed < request[r].outbound THEN request[r].outbound ELSE revealed
    /\ request' = [request EXCEPT ![r] = [@ EXCEPT !.pc = "pump", !.outbound = 0]]
    /\ UNCHANGED <<log, open, node>>

\* Chain sync works on the node it was started on, also when the slot holds another
\* one by now; the monitors that saw a block are buffered again.
ChainSynced(r) ==
    /\ At(r, {"chain"})
    /\ \/ UNCHANGED node
       \/ /\ open /\ node.by = r /\ node.monitor > 0
          /\ node' = [node EXCEPT !.queue = @ \cup {node.monitor}]
    /\ Goto(r, "drain")
    /\ UNCHANGED <<log, open, revealed>>

Broadcasted(r) ==
    /\ At(r, {"broadcast"})
    /\ Goto(r, "end")
    /\ UNCHANGED <<log, open, node, revealed>>

-----------------------------------------------------------------------------
(* flushPendingMonitors and persistSessionEnd. *)

\* Bug variant of Newest: the entries of a put end up in the reverse order.
Oldest(ids) == CHOOSE id \in ids : \A other \in ids : id <= other

\* The last snapshot of the batch stays under the channel's key.
Newest(ids) == CHOOSE id \in ids : \A other \in ids : other <= id

FlushPut(r) ==
    /\ At(r, {"put"})
    /\ Put([Visible EXCEPT !.monitor = Newest(request[r].batch)])
    /\ Goto(r, "sync")
    /\ UNCHANGED <<open, node, revealed>>

\* sync() resolves; completion is signalled to the session in the slot.
FlushSync(r) ==
    /\ At(r, {"sync"}) /\ open
    /\ Synced
    /\ node' = Signalled(node, request[r].batch)
    /\ request' = [request EXCEPT ![r] = [@ EXCEPT !.pc = request[r].ret, !.batch = {}]]
    /\ UNCHANGED <<open, revealed>>

\* Bug variant of Drain: maintenance skips its timer tick.
DrainToExit(r) ==
    /\ At(r, {"drain", "end"}) /\ open
    /\ LET next == IF request[r].pc = "drain" THEN "exit" ELSE "endPut"
       IN  request' = [request EXCEPT ![r] = Flushing(@, node.queue, next, @.outbound)]
    /\ node' = [node EXCEPT !.queue = {}]
    /\ UNCHANGED <<log, open, revealed>>

\* drainAndFlushMonitors on the session in the slot.
Drain(r) ==
    /\ At(r, {"drain", "end"}) /\ open
    /\ LET next == IF request[r].pc = "drain" THEN "tick" ELSE "endPut"
       IN  request' = [request EXCEPT ![r] = Flushing(@, node.queue, next, @.outbound)]
    /\ node' = [node EXCEPT !.queue = {}]
    /\ UNCHANGED <<log, open, revealed>>

\* The manager of the session in the slot is serialized and put.
PutManager(r) ==
    /\ At(r, {"endPut"}) /\ open
    /\ Put([monitor |-> Visible.monitor, latest |-> node.latest, done |-> node.done,
            closed |-> node.closed])
    /\ Goto(r, "endSync")
    /\ UNCHANGED <<open, node, revealed>>

\* teardown_node empties the slot, whoever's session it holds.
SyncManager(r) ==
    /\ At(r, {"endSync"})
    /\ Synced
    /\ open' = FALSE
    /\ Finish(r)
    /\ UNCHANGED <<node, revealed>>

\* A fetch, the connection or the socket fails: handleSessionFailure persists the
\* session in the slot and tears it down.
NetworkFails(r) ==
    /\ At(r, {"rgs", "connect", "pump", "chain"})
    /\ Goto(r, "end")
    /\ UNCHANGED <<log, open, node, revealed>>

\* The slot is empty when r needs it: the export throws, handleSessionFailure finds
\* no session either, and the request is over.
NoSession(r) ==
    /\ At(r, {"tick", "connect", "pump", "sync", "drain", "end", "endPut"}) /\ ~open
    /\ IF request[r].pc = "sync" THEN Synced ELSE UNCHANGED log
    /\ Finish(r)
    /\ UNCHANGED <<open, node, revealed>>

-----------------------------------------------------------------------------
Finished == (\A r \in Requests : request[r].pc = "done") /\ UNCHANGED vars

Next ==
    \/ \E r \in Requests, k \in Kinds : BeginCached(r, k) \/ BeginFetching(r, k)
    \/ \E r \in Requests :
        \/ FeesArrive(r) \/ SetupFails(r) \/ RgsArrives(r) \/ TimerTick(r)
        \/ Connected(r) \/ PumpStep(r) \/ PumpForeign(r) \/ PumpThrows(r) \/ Leave(r)
        \/ Write(r) \/ ChainSynced(r) \/ Broadcasted(r)
        \/ FlushPut(r) \/ FlushSync(r) \/ Drain(r) \/ PutManager(r) \/ SyncManager(r)
        \/ NetworkFails(r) \/ NoSession(r)
    \/ Finished

Spec == Init /\ [][Next]_vars

-----------------------------------------------------------------------------
(* Properties. *)

\* Whatever version the requests leave behind between them, LDK accepts it.
AlwaysRestorable == \A i \in DOMAIN log : Restorable(log[i])

\* However requests share a session, the peer learns only of states that are stored.
RevealedIsStored == revealed <= Visible.monitor

\* LDK counts an update complete only when it is in storage, although the signal
\* may come from a request whose batch is not of this session.
AckedIsStored == open => node.acked <= Visible.monitor

\* The session in the slot was not restored from state that is older than what
\* storage has by now.
SessionIsCurrent == open => Visible.monitor <= node.monitor /\ Visible.latest <= node.latest

\* Durable monitors and the durable manager never go back.
NeverRollsBack ==
    [][Durable.monitor <= Durable'.monitor /\ Durable.latest <= Durable'.latest]_vars

\* No channel is force-closed because sessions overlapped: "only one operation runs at
\* a time, preventing concurrent state corruption" (README.md:214).
NeverCloses == ~Visible.closed /\ (open => ~node.closed)

-----------------------------------------------------------------------------
(* The inductive invariant behind these properties.  Its first two parts hold   *)
(* whatever yields, the others in builds in which setup does not (~FetchYields). *)

\* At most one request is at a point at which no other may run.
ExclusionInv ==
    \A r, other \in Requests :
        r # other => request[r].pc \in Yields \/ request[other].pc \in Yields

\* id is the one Newest chooses.
IsNewest(id, ids) == id \in ids /\ \A other \in ids : other <= id

\* The monitor of a session is not ahead of its manager, and the newest snapshot in
\* the buffer is the monitor's.
Consistent(n) ==
    /\ n.monitor <= n.latest
    /\ n.queue = {} \/ IsNewest(n.monitor, n.queue)

\* A request that is about to put has the newest snapshot of the slot's session.
BufferInv ==
    /\ open => Consistent(node)
    /\ \A r \in Requests :
         request[r].pc = "put" => open /\ IsNewest(node.monitor, request[r].batch)

\* Any version in storage is one LDK accepts, and none is ahead of the visible one.
LogInv ==
    \A i \in DOMAIN log :
        /\ Restorable(log[i])
        /\ log[i].monitor <= Visible.monitor /\ log[i].latest <= Visible.latest

\* A session n over storage of which version is visible: it is not behind storage,
\* what it takes for complete is stored, and so is its monitor, unless ChainMonitor
\* waits for the newest update.
Sound(n, version) ==
    /\ version.monitor <= n.monitor /\ version.latest <= n.latest
    /\ n.acked <= version.monitor /\ n.done <= version.monitor
    /\ n.monitor \in n.pending \/ n.monitor <= version.monitor

NodeInv == open => Sound(node, Visible)

\* What a request is about to reveal, to restore or to signal is stored.
Held(q) ==
    /\ q.outbound <= Visible.monitor
    /\ q.pc = "fees" => q.snapshot = Visible
    /\ q.pc = "sync" => \A id \in q.batch : id <= Visible.monitor

RequestInv == \A r \in Requests : Held(request[r])

StorageInv == LogInv /\ NodeInv /\ RequestInv /\ RevealedIsStored

SharedInv == ExclusionInv /\ BufferInv /\ (~FetchYields => StorageInv)

\* Storage has writes that are not durable only while a request syncs them.
SyncInv == Len(log) = 1 \/ \E r \in Requests : request[r].pc \in {"sync", "endSync"}

\* Where nothing runs during a sync either, overlapping requests keep the promise that
\* one session makes (NodeSession): the peer is told only what is durable.
Channel == {"channel"}
Promise == INSTANCE DurableNode WITH
    Channels <- Channel, reported <- {},
    durable  <- [c \in Channel |-> Durable.monitor],
    revealed <- [c \in Channel |-> revealed]
Implements == Promise!Spec
=============================================================================
