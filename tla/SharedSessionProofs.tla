------------------------ MODULE SharedSessionProofs ------------------------
(* Proofs about SharedSession, for any requests and any bound on the updates. *)
EXTENDS SharedSession, TLAPS

USE SharedAssumption

-----------------------------------------------------------------------------
(* The node in the slot. *)

\* The bigger of two ids that completed is an id.
LEMMA HandledType == ASSUME NEW n \in Node PROVE Handled(n) \in Nat
  BY DEF Handled, Node

\* The ids of applied updates are ids.
LEMMA UptoType == ASSUME NEW n \in Node, NEW last \in Nat PROVE Upto(n, last) \in SUBSET Nat
  BY DEF Upto, Node

\* setup_node makes a consistent session of any version.
LEMMA RestoredConsistent ==
    ASSUME NEW version \in Version, NEW r \in Requests
    PROVE  Restored(version, r) \in Node /\ Consistent(Restored(version, r))
  BY DEF Restored, Version, Node, Connections, Consistent

\* The background events keep a session consistent.
LEMMA TickedConsistent ==
    ASSUME NEW n \in Node, Consistent(n)
    PROVE  Ticked(n) \in Node /\ Consistent(Ticked(n))
  <1>1. Upto(n, n.latest) \in SUBSET Nat
    BY UptoType DEF Node
  <1>2. Ticked(n) \in Node
    BY <1>1, HandledType DEF Ticked, Node
  <1>3. Consistent(Ticked(n))
    BY DEF Ticked, Consistent, Node, Upto, IsNewest
  <1> QED
    BY <1>2, <1>3

\* So do new updates.
LEMMA AdvancedConsistent ==
    ASSUME NEW n \in Node, Consistent(n), NEW early \in {0, 1}, NEW late \in {0, 1}
    PROVE  Advanced(n, early, late) \in Node /\ Consistent(Advanced(n, early, late))
  <1> DEFINE last == n.latest + early + late
  <1>1. last \in Nat
    BY DEF Node
  <1>2. Upto(n, last) \in SUBSET Nat
    BY <1>1, UptoType
  <1>3. Advanced(n, early, late) \in Node
    <2> HIDE DEF last
    <2>1. [n EXCEPT !.latest = last, !.monitor = last, !.done = Handled(n),
                    !.pending = @ \cup Upto(n, last), !.queue = @ \cup Upto(n, last)] \in Node
      BY <1>1, <1>2, HandledType DEF Node
    <2> QED
      BY <2>1 DEF Advanced, last
  <1>4. Consistent(Advanced(n, early, late))
    BY DEF Advanced, Consistent, Node, Upto, IsNewest
  <1> QED
    BY <1>3, <1>4

\* So does the signal that updates are stored.
LEMMA SignalledConsistent ==
    ASSUME NEW n \in Node, Consistent(n), NEW ids
    PROVE  Signalled(n, ids) \in Node /\ Consistent(Signalled(n, ids))
  BY DEF Signalled, Node, Consistent

\* A drained buffer leaves a session consistent.
LEMMA DrainedConsistent ==
    ASSUME NEW n \in Node, Consistent(n)
    PROVE  [n EXCEPT !.queue = {}] \in Node /\ Consistent([n EXCEPT !.queue = {}])
  BY DEF Consistent, Node

\* The state of the connection is no matter.
LEMMA ConnectionConsistent ==
    ASSUME NEW n \in Node, Consistent(n), NEW conn \in Connections
    PROVE  [n EXCEPT !.conn = conn] \in Node /\ Consistent([n EXCEPT !.conn = conn])
  BY DEF Consistent, Node

\* A monitor that chain sync persists again is the newest snapshot in the buffer.
LEMMA RequeuedConsistent ==
    ASSUME NEW n \in Node, Consistent(n)
    PROVE  /\ [n EXCEPT !.queue = @ \cup {n.monitor}] \in Node
           /\ Consistent([n EXCEPT !.queue = @ \cup {n.monitor}])
  BY DEF Consistent, Node, IsNewest

\* The last snapshot of a buffer is the one a put leaves under the key.
LEMMA NewestIs ==
    ASSUME NEW ids \in SUBSET Nat, NEW id, IsNewest(id, ids)
    PROVE  Newest(ids) = id
  <1>1. \A other \in ids : (\A any \in ids : any <= other) => other = id
    BY DEF IsNewest
  <1> QED
    BY <1>1 DEF Newest, IsNewest

-----------------------------------------------------------------------------
(* The request that runs. *)

\* The points at which a request yields are points.
LEMMA YieldsType == Yields \subseteq Points
  BY DEF Yields, Points

\* There is a visible and a durable version.
LEMMA VersionType == TypeOK => Visible \in Version /\ Durable \in Version
  BY DEF TypeOK, Visible, Durable

\* A put adds a version; the durable one stays.
LEMMA PutFacts ==
    ASSUME TypeOK, NEW version \in Version, Put(version)
    PROVE  /\ log' \in Seq(Version) /\ Len(log') >= 1
           /\ Visible' = version /\ Durable' = Durable
           /\ DOMAIN log' = DOMAIN log \cup {Len(log')}
           /\ \A i \in DOMAIN log : log'[i] = log[i]
           /\ log'[Len(log')] = version
  BY DEF TypeOK, Put, Visible, Durable

\* A sync leaves the visible version only.
LEMMA SyncedFacts ==
    ASSUME TypeOK, Synced
    PROVE  /\ log' \in Seq(Version) /\ Len(log') >= 1
           /\ Visible' = Visible /\ Durable' = Visible
           /\ \A i \in DOMAIN log' : log'[i] = Visible
  BY VersionType DEF TypeOK, Synced, Visible, Durable

\* A request that moves to a point keeps what it holds.
LEMMA GotoFacts ==
    ASSUME TypeOK, NEW r \in Requests, NEW point \in Points, Goto(r, point)
    PROVE  /\ request' \in [Requests -> Request]
           /\ request'[r] = [request[r] EXCEPT !.pc = point]
           /\ \A q \in Requests \ {r} : request'[q] = request[q]
  BY DEF TypeOK, Goto, Request

\* A request that is over holds nothing.
LEMMA FinishFacts ==
    ASSUME TypeOK, NEW r \in Requests, Finish(r)
    PROVE  /\ request' \in [Requests -> Request]
           /\ request'[r].pc = "done" /\ request'[r].outbound = 0
           /\ \A q \in Requests \ {r} : request'[q] = request[q]
  <1>1. [request[r] EXCEPT !.pc = "done", !.kind = "local", !.ret = "write",
                           !.snapshot = Fresh, !.batch = {}, !.outbound = 0] \in Request
    BY DEF TypeOK, Request, Points, Awaiting, Kinds, Fresh, Version
  <1> QED
    BY <1>1 DEF TypeOK, Finish, Request

\* setup_node makes the slot's session; the request goes on with its operation.
LEMMA SetupFacts ==
    ASSUME TypeOK, NEW r \in Requests, NEW k \in Kinds, NEW version \in Version,
           Setup(r, k, version)
    PROVE  /\ request' \in [Requests -> Request]
           /\ request'[r].pc \in Points \ {"fees", "put", "sync"}
           /\ request'[r].outbound = request[r].outbound
           /\ \A q \in Requests \ {r} : request'[q] = request[q]
           /\ open' /\ node' = Restored(version, r) /\ Restorable(version)
  <1>1. AfterSetup[k] \in Points \ {"fees", "put", "sync"}
    BY DEF AfterSetup, Kinds, Points, Awaiting
  <1>2. [request[r] EXCEPT !.pc = AfterSetup[k], !.kind = k, !.snapshot = Fresh] \in Request
    BY <1>1 DEF TypeOK, Request, Fresh, Version
  <1> QED
    BY <1>1, <1>2 DEF TypeOK, Setup, Request

\* A step of a request at some point leaves it the only one that does not yield.
LEMMA StepFacts ==
    ASSUME TypeOK, NEW r \in Requests, NEW points, At(r, points),
           \A q \in Requests \ {r} : request'[q] = request[q]
    PROVE  /\ ExclusionInv'
           /\ \A q \in Requests \ {r} : request'[q].pc \in Yields /\ request'[q].pc # "put"
           /\ FetchYields \/ \A q \in Requests \ {r} : request'[q].pc # "fees"
  <1>1. \A q \in Requests \ {r} : request'[q].pc \in Yields
    BY DEF At
  <1>2. "put" \notin Yields /\ (FetchYields \/ "fees" \notin Yields)
    BY DEF Yields, Awaiting
  <1>3. ExclusionInv'
    BY <1>1 DEF ExclusionInv
  <1> QED
    BY <1>1, <1>2, <1>3

\* A request that is given a new state is in it, and the others do not change.
LEMMA UpdateFacts ==
    ASSUME TypeOK, NEW r \in Requests, NEW q \in Request,
           request' = [request EXCEPT ![r] = q]
    PROVE  /\ request' \in [Requests -> Request]
           /\ request'[r] = q
           /\ \A other \in Requests \ {r} : request'[other] = request[other]
  BY DEF TypeOK

\* A request that drained a buffer puts it, if there is something to put.
LEMMA FlushingFacts ==
    ASSUME NEW q \in Request, NEW ids, ids \in SUBSET Nat,
           NEW then, then \in {"write", "tick", "endPut"}, NEW out, out \in Nat
    PROVE  /\ Flushing(q, ids, then, out) \in Request
           /\ Flushing(q, ids, then, out).pc = IF ids = {} THEN then ELSE "put"
           /\ Flushing(q, ids, then, out).batch = ids
           /\ Flushing(q, ids, then, out).outbound = out
  BY DEF Flushing, Request, Points

\* A pump step, on its own connection or not: the session advances, its buffer goes to
\* the request, and what goes out is what the manager knows complete, or nothing.
LEMMA PumpFacts ==
    ASSUME TypeOK, NEW r \in Requests, PumpStep(r) \/ PumpForeign(r)
    PROVE  \E early, late \in {0, 1} : \E out \in {0, Advanced(node, early, late).done} :
             /\ node' = [Advanced(node, early, late) EXCEPT !.queue = {}]
             /\ request' = [request EXCEPT ![r] =
                              Flushing(@, Advanced(node, early, late).queue, "write", out)]
  <1>1. CASE PumpStep(r)
    <2>1. PICK early, late \in {0, 1} :
             LET n == Advanced(node, early, late)
                 out == IF ~n.closed /\ n.done = node.latest + early THEN n.done ELSE 0
             IN  /\ node' = [n EXCEPT !.queue = {}]
                 /\ request' = [request EXCEPT ![r] = Flushing(@, n.queue, "write", out)]
      BY <1>1 DEF PumpStep
    <2> DEFINE n == Advanced(node, early, late)
               out == IF ~n.closed /\ n.done = node.latest + early THEN n.done ELSE 0
    <2>2. out \in {0, n.done}
      OBVIOUS
    <2> HIDE DEF n, out
    <2> QED
      BY <2>1, <2>2 DEF n, out
  <1>2. CASE PumpForeign(r)
    BY <1>2 DEF PumpForeign
  <1> QED
    BY <1>1, <1>2

\* A drained buffer goes to the request, which puts it or goes on.
LEMMA DrainFacts ==
    ASSUME TypeOK, NEW r \in Requests, Drain(r)
    PROVE  /\ request' \in [Requests -> Request]
           /\ request'[r].pc \in {"tick", "endPut", "put"}
           /\ request'[r].pc = "put" => node.queue # {}
           /\ request'[r].batch = node.queue /\ request'[r].outbound = request[r].outbound
           /\ \A q \in Requests \ {r} : request'[q] = request[q]
  <1> DEFINE next == IF request[r].pc = "drain" THEN "tick" ELSE "endPut"
             q == Flushing(request[r], node.queue, next, request[r].outbound)
  <1>1. next \in {"tick", "endPut"} /\ next \in {"write", "tick", "endPut"}
    OBVIOUS
  <1>2. request' = [request EXCEPT ![r] = q]
    BY DEF Drain
  <1>3. /\ request[r] \in Request /\ request[r].outbound \in Nat
        /\ node.queue \in SUBSET Nat
    BY DEF TypeOK, Node, Request
  <1> HIDE DEF next
  <1>4. /\ q \in Request
        /\ q.pc = IF node.queue = {} THEN next ELSE "put"
        /\ q.batch = node.queue
        /\ q.outbound = request[r].outbound
    BY <1>1, <1>3, FlushingFacts
  <1> HIDE DEF q
  <1> QED
    BY <1>1, <1>2, <1>4, UpdateFacts

\* After a write the request holds nothing more to send.
LEMMA WriteFacts ==
    ASSUME TypeOK, NEW r \in Requests, Write(r)
    PROVE  /\ request' \in [Requests -> Request]
           /\ request'[r].pc = "pump" /\ request'[r].outbound = 0
           /\ \A q \in Requests \ {r} : request'[q] = request[q]
           /\ revealed' \in {revealed, request[r].outbound}
  BY DEF TypeOK, Write, Request, Points, Awaiting

\* After a flush the request goes on where it wanted to.
LEMMA FlushFacts ==
    ASSUME TypeOK, NEW r \in Requests, FlushSync(r)
    PROVE  /\ request' \in [Requests -> Request]
           /\ request'[r].pc \in {"write", "tick", "endPut"}
           /\ request'[r].outbound = request[r].outbound
           /\ \A q \in Requests \ {r} : request'[q] = request[q]
  BY DEF TypeOK, FlushSync, Request, Points

\* A request that awaits fees holds what is visible.
LEMMA FetchFacts ==
    ASSUME TypeOK, NEW r \in Requests, NEW k \in Kinds, BeginFetching(r, k)
    PROVE  /\ request' \in [Requests -> Request]
           /\ request'[r].pc = "fees" /\ request'[r].snapshot = Visible
           /\ request'[r].outbound = request[r].outbound
           /\ \A q \in Requests \ {r} : request'[q] = request[q]
  <1>1. [request[r] EXCEPT !.pc = "fees", !.kind = k, !.snapshot = Visible] \in Request
    BY VersionType DEF TypeOK, Request, Points
  <1>2. request' = [request EXCEPT ![r] =
                      [request[r] EXCEPT !.pc = "fees", !.kind = k, !.snapshot = Visible]]
    BY DEF TypeOK, BeginFetching, Request
  <1> QED
    BY <1>1, <1>2 DEF TypeOK, Request

-----------------------------------------------------------------------------
(* Types, exclusion and buffers: whatever yields. *)

ShapeInv == TypeOK /\ ExclusionInv /\ BufferInv

\* What a step of a request has to see to.
LEMMA StepShape ==
    ASSUME TypeOK, NEW r \in Requests, NEW points, At(r, points),
           log' \in Seq(Version), Len(log') >= 1, open' \in BOOLEAN, node' \in Node,
           revealed' \in Nat, request' \in [Requests -> Request],
           \A q \in Requests \ {r} : request'[q] = request[q],
           open' => Consistent(node'),
           request'[r].pc = "put" => open' /\ IsNewest(node'.monitor, request'[r].batch)
    PROVE  ShapeInv'
  <1>1. ExclusionInv' /\ \A q \in Requests \ {r} : request'[q].pc # "put"
    BY StepFacts
  <1>2. BufferInv'
    BY <1>1 DEF BufferInv
  <1> QED
    BY <1>1, <1>2 DEF ShapeInv, TypeOK

\* A step that changes the slot's node, and moves its request to a point that is no put.
LEMMA MoveShape ==
    ASSUME ShapeInv, NEW r \in Requests, NEW points, At(r, points),
           NEW point \in Points \ {"put"}, Goto(r, point),
           UNCHANGED <<log, open, revealed>>, node' \in Node, open' => Consistent(node')
    PROVE  ShapeInv'
  <1>1. /\ request' \in [Requests -> Request]
        /\ request'[r] = [request[r] EXCEPT !.pc = point]
        /\ \A q \in Requests \ {r} : request'[q] = request[q]
    BY GotoFacts DEF ShapeInv
  <1>2. request'[r].pc # "put"
    BY <1>1 DEF ShapeInv, TypeOK, Request
  <1> QED
    BY <1>1, <1>2, StepShape DEF ShapeInv, TypeOK

\* The invariant holds when the object starts, ...
LEMMA InitShape == Init => ShapeInv
  <1> SUFFICES ASSUME Init PROVE ShapeInv
    OBVIOUS
  <1>1. log \in Seq(Version) /\ Len(log) >= 1
    BY DEF Init, Fresh, Version
  <1>2. request \in [Requests -> Request]
    BY DEF Init, Request, Points, Awaiting, Kinds, Fresh, Version
  <1>3. node \in Node
    BY DEF Init, Node, Connections
  <1>4. ExclusionInv /\ BufferInv
    BY DEF Init, ExclusionInv, BufferInv, Yields, Awaiting
  <1> QED
    BY <1>1, <1>2, <1>3, <1>4 DEF Init, ShapeInv, TypeOK

\* Setup, from whatever version.
LEMMA SetupShape ==
    ASSUME ShapeInv, NEW r \in Requests, NEW k \in Kinds, NEW version \in Version,
           NEW points, At(r, points), Setup(r, k, version), UNCHANGED <<log, revealed>>
    PROVE  ShapeInv'
  <1>1. /\ request' \in [Requests -> Request]
        /\ request'[r].pc # "put"
        /\ \A q \in Requests \ {r} : request'[q] = request[q]
        /\ open' = TRUE /\ node' = Restored(version, r)
    BY SetupFacts DEF ShapeInv, Setup
  <1>2. node' \in Node /\ Consistent(node')
    BY <1>1, RestoredConsistent
  <1> QED
    BY <1>1, <1>2, StepShape DEF ShapeInv, TypeOK

\* A pump step.
LEMMA PumpShape ==
    ASSUME ShapeInv, NEW r \in Requests, PumpStep(r) \/ PumpForeign(r)
    PROVE  ShapeInv'
  <1>1. At(r, {"pump"}) /\ open /\ UNCHANGED <<log, open, revealed>>
    BY DEF PumpStep, PumpForeign
  <1>2. PICK early, late \in {0, 1} : \E out \in {0, Advanced(node, early, late).done} :
             /\ node' = [Advanced(node, early, late) EXCEPT !.queue = {}]
             /\ request' = [request EXCEPT ![r] =
                              Flushing(@, Advanced(node, early, late).queue, "write", out)]
    BY PumpFacts DEF ShapeInv
  <1> DEFINE n == Advanced(node, early, late)
  <1>0. PICK out \in {0, n.done} :
             /\ node' = [n EXCEPT !.queue = {}]
             /\ request' = [request EXCEPT ![r] = Flushing(@, n.queue, "write", out)]
    BY <1>2
  <1> DEFINE q == Flushing(request[r], n.queue, "write", out)
  <1>3. n \in Node /\ Consistent(n)
    BY <1>1, AdvancedConsistent DEF ShapeInv, TypeOK, BufferInv
  <1>4. node' = [n EXCEPT !.queue = {}] /\ request' = [request EXCEPT ![r] = q]
    BY <1>0
  <1> HIDE DEF n
  <1>5. n.queue \in SUBSET Nat /\ out \in Nat
    BY <1>0, <1>3 DEF Node
  <1>6. request[r] \in Request
    BY DEF ShapeInv, TypeOK
  <1>7. q \in Request /\ q.batch = n.queue /\ (q.pc = "put" => n.queue # {})
    BY <1>5, <1>6, FlushingFacts
  <1> HIDE DEF q
  <1>8. /\ request' \in [Requests -> Request] /\ request'[r] = q
        /\ \A other \in Requests \ {r} : request'[other] = request[other]
    BY <1>4, <1>7, UpdateFacts DEF ShapeInv
  <1>9. node' \in Node /\ Consistent(node') /\ node'.monitor = n.monitor
    BY <1>3, <1>4, DrainedConsistent DEF Node
  <1>10. q.pc = "put" => IsNewest(node'.monitor, q.batch)
    BY <1>3, <1>7, <1>9 DEF Consistent
  <1> QED
    BY <1>1, <1>8, <1>9, <1>10, StepShape DEF ShapeInv, TypeOK

\* A step of the pump loop that throws.
LEMMA ThrowShape ==
    ASSUME ShapeInv, NEW r \in Requests, PumpThrows(r)
    PROVE  ShapeInv'
  <1>1. node \in Node /\ Consistent(node) /\ "dead" \in Connections
    BY DEF ShapeInv, TypeOK, BufferInv, PumpThrows, Connections
  <1>2. node' \in Node /\ Consistent(node')
    <2>1. CASE UNCHANGED node
      BY <1>1, <2>1
    <2>2. CASE node' = [node EXCEPT !.conn = "dead"]
      BY <1>1, <2>2, ConnectionConsistent
    <2>3. CASE \E early, late \in {0, 1} :
                 node' = [Advanced(node, early, late) EXCEPT !.conn = "dead"]
      BY <1>1, <2>3, AdvancedConsistent, ConnectionConsistent
    <2> QED
      BY <2>1, <2>2, <2>3 DEF PumpThrows
  <1>3. At(r, {"pump"}) /\ Goto(r, "end") /\ UNCHANGED <<log, open, revealed>>
    BY DEF PumpThrows
  <1>4. "end" \in Points \ {"put"}
    BY DEF Points
  <1> QED
    BY <1>2, <1>3, <1>4, MoveShape

\* The snapshots of the newest update go into storage.
LEMMA PutShape ==
    ASSUME ShapeInv, NEW r \in Requests, FlushPut(r)
    PROVE  /\ ShapeInv'
           /\ open /\ node.monitor \in Nat /\ IsNewest(node.monitor, request[r].batch)
           /\ Put([Visible EXCEPT !.monitor = node.monitor])
  <1>1. At(r, {"put"}) /\ Goto(r, "sync") /\ UNCHANGED <<open, node, revealed>>
    BY DEF FlushPut
  <1>2. open /\ IsNewest(node.monitor, request[r].batch)
    BY <1>1 DEF At, ShapeInv, BufferInv
  <1>3. request[r].batch \in SUBSET Nat /\ node.monitor \in Nat
    BY DEF ShapeInv, TypeOK, Request, Node
  <1>4. Put([Visible EXCEPT !.monitor = node.monitor])
    BY <1>2, <1>3, NewestIs DEF FlushPut
  <1>5. [Visible EXCEPT !.monitor = node.monitor] \in Version
    BY <1>3, VersionType DEF ShapeInv, Version
  <1>6. log' \in Seq(Version) /\ Len(log') >= 1
    BY <1>4, <1>5, PutFacts DEF ShapeInv
  <1>7. /\ request' \in [Requests -> Request]
        /\ request'[r] = [request[r] EXCEPT !.pc = "sync"]
        /\ \A q \in Requests \ {r} : request'[q] = request[q]
    BY <1>1, GotoFacts DEF ShapeInv, Points
  <1>8. request'[r].pc # "put"
    BY <1>7 DEF ShapeInv, TypeOK, Request
  <1>9. ShapeInv'
    BY <1>1, <1>6, <1>7, <1>8, StepShape DEF ShapeInv, TypeOK, BufferInv
  <1> QED
    BY <1>2, <1>3, <1>4, <1>9

\* ... and every step of a request preserves it.
LEMMA NextShape == ShapeInv /\ [Next]_vars => ShapeInv'
  <1> SUFFICES ASSUME ShapeInv, [Next]_vars PROVE ShapeInv'
    OBVIOUS
  <1> USE DEF ShapeInv
  <1>0. /\ Visible \in Version /\ node \in Node /\ (open => Consistent(node))
        /\ {"tick", "connect", "broadcast", "pump", "end", "drain", "endSync"} \subseteq Points \ {"put"}
    BY VersionType DEF TypeOK, BufferInv, Points, Awaiting
  <1>1. ASSUME NEW r \in Requests, NEW k \in Kinds, BeginCached(r, k) PROVE ShapeInv'
    BY <1>0, <1>1, SetupShape DEF BeginCached
  <1>2. ASSUME NEW r \in Requests, NEW k \in Kinds, BeginFetching(r, k) PROVE ShapeInv'
    <2>1. /\ request' \in [Requests -> Request] /\ request'[r].pc # "put"
          /\ \A q \in Requests \ {r} : request'[q] = request[q]
      BY <1>2, FetchFacts
    <2>2. At(r, {"new"}) /\ UNCHANGED <<log, open, node, revealed>>
      BY <1>2 DEF BeginFetching
    <2> QED
      BY <1>0, <2>1, <2>2, StepShape DEF TypeOK
  <1>3. ASSUME NEW r \in Requests, FeesArrive(r) PROVE ShapeInv'
    <2>1. request[r].kind \in Kinds /\ request[r].snapshot \in Version
      BY DEF TypeOK, Request
    <2> QED
      BY <1>3, <2>1, SetupShape DEF FeesArrive
  <1>4. ASSUME NEW r \in Requests, SetupFails(r) PROVE ShapeInv'
    BY <1>0, <1>4, FinishFacts, StepShape DEF SetupFails, TypeOK
  <1>5. ASSUME NEW r \in Requests, RgsArrives(r) PROVE ShapeInv'
    BY <1>0, <1>5, MoveShape DEF RgsArrives
  <1>6. ASSUME NEW r \in Requests, TimerTick(r) PROVE ShapeInv'
    <2>1. node' \in Node /\ Consistent(node')
      BY <1>0, <1>6, TickedConsistent DEF TimerTick
    <2>2. \E point \in Points \ {"put"} : Goto(r, point)
      BY <1>0, <1>6 DEF TimerTick
    <2> QED
      BY <1>6, <2>1, <2>2, MoveShape DEF TimerTick
  <1>7. ASSUME NEW r \in Requests, Connected(r) PROVE ShapeInv'
    <2>1. r \in Connections
      BY DEF Connections
    <2>2. node' \in Node /\ Consistent(node')
      BY <1>0, <1>7, <2>1, ConnectionConsistent DEF Connected
    <2> QED
      BY <1>0, <1>7, <2>2, MoveShape DEF Connected
  <1>8. ASSUME NEW r \in Requests, PumpStep(r) \/ PumpForeign(r) PROVE ShapeInv'
    BY <1>8, PumpShape
  <1>9. ASSUME NEW r \in Requests, PumpThrows(r) PROVE ShapeInv'
    BY <1>9, ThrowShape
  <1>10. ASSUME NEW r \in Requests, Leave(r) PROVE ShapeInv'
    <2>1. PICK conn \in {node.conn, "none"} : node' = [node EXCEPT !.conn = conn]
      BY <1>10 DEF Leave
    <2>2. conn \in Connections
      BY <1>0 DEF Node, Connections
    <2>3. node' \in Node /\ Consistent(node')
      BY <1>0, <1>10, <2>1, <2>2, ConnectionConsistent DEF Leave
    <2> QED
      BY <1>0, <1>10, <2>3, MoveShape DEF Leave
  <1>11. ASSUME NEW r \in Requests, Write(r) PROVE ShapeInv'
    <2>1. revealed' \in Nat
      BY <1>11, WriteFacts DEF TypeOK, Request
    <2>2. At(r, {"write"}) /\ UNCHANGED <<log, open, node>>
      BY <1>11 DEF Write
    <2> QED
      BY <1>0, <1>11, <2>1, <2>2, WriteFacts, StepShape DEF TypeOK
  <1>12. ASSUME NEW r \in Requests, ChainSynced(r) PROVE ShapeInv'
    <2>1. node' \in Node /\ (open => Consistent(node'))
      BY <1>0, <1>12, RequeuedConsistent DEF ChainSynced
    <2> QED
      BY <1>0, <1>12, <2>1, MoveShape DEF ChainSynced
  <1>13. ASSUME NEW r \in Requests, Broadcasted(r) PROVE ShapeInv'
    BY <1>0, <1>13, MoveShape DEF Broadcasted
  <1>14. ASSUME NEW r \in Requests, FlushPut(r) PROVE ShapeInv'
    BY <1>14, PutShape
  <1>15. ASSUME NEW r \in Requests, FlushSync(r) PROVE ShapeInv'
    <2>1. node' \in Node /\ Consistent(node')
      BY <1>0, <1>15, SignalledConsistent DEF FlushSync
    <2>2. log' \in Seq(Version) /\ Len(log') >= 1
      BY <1>15, SyncedFacts DEF FlushSync
    <2>3. At(r, {"sync"}) /\ UNCHANGED <<open, revealed>>
      BY <1>15 DEF FlushSync
    <2> QED
      BY <1>15, <2>1, <2>2, <2>3, FlushFacts, StepShape DEF TypeOK
  <1>16. ASSUME NEW r \in Requests, Drain(r) PROVE ShapeInv'
    <2>1. At(r, {"drain", "end"}) /\ open /\ node' = [node EXCEPT !.queue = {}]
          /\ UNCHANGED <<log, open, revealed>>
      BY <1>16 DEF Drain
    <2>2. node' \in Node /\ Consistent(node') /\ node'.monitor = node.monitor
      BY <1>0, <2>1, DrainedConsistent DEF Node
    <2>3. request'[r].pc = "put" => IsNewest(node'.monitor, request'[r].batch)
      BY <1>0, <1>16, <2>1, <2>2, DrainFacts DEF Consistent
    <2> QED
      BY <1>16, <2>1, <2>2, <2>3, DrainFacts, StepShape DEF TypeOK
  <1>17. ASSUME NEW r \in Requests, PutManager(r) PROVE ShapeInv'
    <2>1. [monitor |-> Visible.monitor, latest |-> node.latest, done |-> node.done,
           closed |-> node.closed] \in Version
      BY <1>0 DEF Version, Node
    <2>2. log' \in Seq(Version) /\ Len(log') >= 1
      BY <1>17, <2>1, PutFacts DEF PutManager
    <2>3. At(r, {"endPut"}) /\ Goto(r, "endSync") /\ UNCHANGED <<open, node, revealed>>
      BY <1>17 DEF PutManager
    <2>4. /\ request' \in [Requests -> Request]
          /\ request'[r] = [request[r] EXCEPT !.pc = "endSync"]
          /\ \A q \in Requests \ {r} : request'[q] = request[q]
      BY <1>0, <2>3, GotoFacts
    <2>5. request'[r].pc # "put"
      BY <2>4 DEF TypeOK, Request
    <2> QED
      BY <1>0, <2>2, <2>3, <2>4, <2>5, StepShape DEF TypeOK
  <1>18. ASSUME NEW r \in Requests, SyncManager(r) PROVE ShapeInv'
    <2>1. log' \in Seq(Version) /\ Len(log') >= 1
      BY <1>18, SyncedFacts DEF SyncManager
    <2>2. At(r, {"endSync"}) /\ Finish(r) /\ open' = FALSE /\ UNCHANGED <<node, revealed>>
      BY <1>18 DEF SyncManager
    <2> QED
      BY <1>0, <2>1, <2>2, FinishFacts, StepShape DEF TypeOK
  <1>19. ASSUME NEW r \in Requests, NetworkFails(r) PROVE ShapeInv'
    BY <1>0, <1>19, MoveShape DEF NetworkFails
  <1>20. ASSUME NEW r \in Requests, NoSession(r) PROVE ShapeInv'
    <2>1. log' \in Seq(Version) /\ Len(log') >= 1
      BY <1>20, SyncedFacts DEF NoSession, TypeOK
    <2>2. Finish(r) /\ ~open /\ UNCHANGED <<open, node, revealed>>
      BY <1>20 DEF NoSession
    <2>3. \E points : At(r, points)
      BY <1>20 DEF NoSession
    <2> QED
      BY <1>0, <2>1, <2>2, <2>3, FinishFacts, StepShape DEF TypeOK
  <1>21. CASE UNCHANGED vars
    BY <1>21 DEF vars, TypeOK, ExclusionInv, BufferInv
  <1> QED
    BY <1>1, <1>2, <1>3, <1>4, <1>5, <1>6, <1>7, <1>8, <1>9, <1>10, <1>11, <1>12, <1>13, <1>14,
       <1>15, <1>16, <1>17, <1>18, <1>19, <1>20, <1>21 DEF Next, Finished

\* Whatever requests overlap, and wherever they yield, the state keeps its shape, one
\* request at most is where no other may run, and a put has the newest snapshot.
THEOREM SharedShape == Spec => []ShapeInv
  <1> QED
    BY InitShape, NextShape, PTL DEF Spec

\* TypeOK of SharedSession.tla: the state of storage, of the slot and of the requests
\* has its types whatever overlaps.
THEOREM SharedType == Spec => []TypeOK
  <1>1. ShapeInv => TypeOK
    BY DEF ShapeInv
  <1> QED
    BY <1>1, SharedShape, PTL

-----------------------------------------------------------------------------
(* Sessions over storage. *)

\* What LDK restores from a version it accepts is sound over that version.
LEMMA RestoredSound ==
    ASSUME NEW version \in Version, NEW r \in Requests, Restorable(version)
    PROVE  Sound(Restored(version, r), version)
  BY DEF Restored, Restorable, Sound, Version

\* Replaying the updates in flight keeps a session sound.
LEMMA TickedSound ==
    ASSUME NEW n \in Node, Consistent(n), NEW version \in Version, Sound(n, version)
    PROVE  Sound(Ticked(n), version)
  BY DEF Ticked, Sound, Version, Node, Upto, Handled, Consistent

\* New updates keep a session sound, and what it takes for complete is stored.
LEMMA AdvancedSound ==
    ASSUME NEW n \in Node, Consistent(n), NEW version \in Version, Sound(n, version),
           NEW early \in {0, 1}, NEW late \in {0, 1}
    PROVE  Sound(Advanced(n, early, late), version)
  BY DEF Advanced, Sound, Version, Node, Upto, Handled, Consistent

\* A signal for ids that are stored keeps a session sound, whoever's ids they are.
LEMMA SignalledSound ==
    ASSUME NEW n \in Node, NEW version \in Version, Sound(n, version),
           NEW ids, \A id \in ids : id <= version.monitor
    PROVE  Sound(Signalled(n, ids), version)
  BY DEF Signalled, Sound, Version, Node

\* Buffer and connection are no matter.
LEMMA SameSound ==
    ASSUME NEW n \in Node, NEW version, Sound(n, version), NEW queue, NEW conn
    PROVE  /\ Sound([n EXCEPT !.queue = queue], version)
           /\ Sound([n EXCEPT !.conn = conn], version)
  BY DEF Sound, Node

\* Once its monitor is stored a session is sound over the new version.
LEMMA StoredSound ==
    ASSUME NEW n \in Node, NEW version \in Version, Sound(n, version)
    PROVE  Sound(n, [version EXCEPT !.monitor = n.monitor])
  BY DEF Sound, Node, Version

\* And so once its manager is.
LEMMA SerializedSound ==
    ASSUME NEW n \in Node, NEW version \in Version, Sound(n, version)
    PROVE  Sound(n, [monitor |-> version.monitor, latest |-> n.latest, done |-> n.done,
                     closed |-> n.closed])
  BY DEF Sound, Node, Version

\* A put of a version that is not behind what is visible.
LEMMA PutLog ==
    ASSUME TypeOK, LogInv, NEW version \in Version, Put(version), Restorable(version),
           Visible.monitor <= version.monitor, Visible.latest <= version.latest
    PROVE  LogInv'
  <1>1. /\ Visible' = version /\ DOMAIN log' = DOMAIN log \cup {Len(log')}
        /\ \A i \in DOMAIN log : log'[i] = log[i]
        /\ log'[Len(log')] = version
    BY PutFacts
  <1>2. Visible \in Version /\ \A i \in DOMAIN log : log[i] \in Version
    BY VersionType DEF TypeOK
  <1>3. ASSUME NEW i \in DOMAIN log'
        PROVE  /\ Restorable(log'[i]) /\ log'[i].monitor <= version.monitor
               /\ log'[i].latest <= version.latest
    <2>1. CASE i \in DOMAIN log
      <3>1. log'[i] = log[i] /\ log[i] \in Version
        BY <1>1, <1>2, <2>1
      <3>2. /\ Restorable(log[i]) /\ log[i].monitor <= Visible.monitor
            /\ log[i].latest <= Visible.latest
        BY <2>1 DEF LogInv
      <3> QED
        BY <1>2, <3>1, <3>2 DEF Version
    <2>2. CASE i = Len(log')
      BY <1>1, <2>2 DEF Version
    <2> QED
      BY <1>1, <1>3, <2>1, <2>2
  <1> QED
    BY <1>1, <1>3 DEF LogInv, Restorable

\* A sync.
LEMMA SyncedLog == ASSUME TypeOK, LogInv, Synced PROVE LogInv' /\ Visible' = Visible
  <1>1. Visible' = Visible /\ \A i \in DOMAIN log' : log'[i] = Visible
    BY SyncedFacts
  <1>2. Visible \in Version /\ Restorable(Visible)
    BY VersionType DEF TypeOK, LogInv, Visible
  <1> QED
    BY <1>1, <1>2 DEF LogInv, Restorable, Version

\* What a step of a request has to see to.
LEMMA StepStorage ==
    ASSUME ~FetchYields, TypeOK, StorageInv, NEW r \in Requests, NEW points, At(r, points),
           \A q \in Requests \ {r} : request'[q] = request[q],
           Visible' \in Version, Visible.monitor <= Visible'.monitor,
           LogInv', open' => Sound(node', Visible'), revealed' <= Visible'.monitor,
           request'[r].outbound <= Visible'.monitor,
           request'[r].pc = "fees" => request'[r].snapshot = Visible',
           request'[r].pc = "sync" => \A id \in request'[r].batch : id <= Visible'.monitor
    PROVE  StorageInv'
  <1>1. \A q \in Requests \ {r} : request'[q].pc # "fees"
    BY StepFacts
  <1>2. ASSUME NEW q \in Requests \ {r} PROVE Held(request[q])'
    <2>1. /\ request[q].outbound <= Visible.monitor /\ request[q].outbound \in Nat
          /\ request[q].pc = "sync" => \A id \in request[q].batch : id <= Visible.monitor
          /\ request[q].batch \in SUBSET Nat
          /\ Visible.monitor \in Nat /\ Visible'.monitor \in Nat
      BY VersionType DEF StorageInv, RequestInv, Held, TypeOK, Request, Version
    <2>2. request'[q] = request[q] /\ request'[q].pc # "fees"
      BY <1>1
    <2> QED
      BY <2>1, <2>2 DEF Held
  <1>3. Held(request[r])'
    BY DEF Held
  <1> QED
    BY <1>2, <1>3 DEF StorageInv, RequestInv, NodeInv, RevealedIsStored

\* A step that leaves storage alone, and moves its request to a point where it holds
\* what it held.
LEMMA MoveStorage ==
    ASSUME ~FetchYields, TypeOK, StorageInv, NEW r \in Requests, NEW points, At(r, points),
           NEW point \in Points \ {"fees", "sync"}, Goto(r, point),
           UNCHANGED <<log, revealed>>, open' => Sound(node', Visible)
    PROVE  StorageInv'
  <1>1. Visible' = Visible /\ Visible \in Version /\ LogInv'
    BY VersionType DEF Visible, StorageInv, LogInv, Restorable
  <1>2. request[r] \in Request /\ request[r].outbound <= Visible.monitor
    BY DEF TypeOK, StorageInv, RequestInv, Held
  <1>3. /\ request'[r] = [request[r] EXCEPT !.pc = point]
        /\ \A q \in Requests \ {r} : request'[q] = request[q]
    BY GotoFacts
  <1>4. request'[r].pc = point /\ request'[r].outbound <= Visible.monitor
    BY <1>2, <1>3 DEF Request
  <1>5. Visible.monitor <= Visible.monitor /\ revealed <= Visible.monitor
    BY <1>1 DEF StorageInv, RevealedIsStored, Version
  <1>6. request'[r].pc \notin {"fees", "sync"}
    BY <1>4
  <1> QED
    BY <1>1, <1>3, <1>4, <1>5, <1>6, StepStorage

\* A fresh object has nothing a request could be wrong about, ...
LEMMA InitStorage == Init => StorageInv
  BY DEF Init, StorageInv, LogInv, NodeInv, RequestInv, RevealedIsStored, Held, Restorable,
         Visible, Fresh

\* Setup from the visible version: a session that is not behind storage.
LEMMA SetupStorage ==
    ASSUME ~FetchYields, TypeOK, StorageInv, NEW r \in Requests, NEW k \in Kinds,
           NEW points, At(r, points), Setup(r, k, Visible), UNCHANGED <<log, revealed>>
    PROVE  StorageInv'
  <1>1. /\ request'[r].pc \notin {"fees", "sync"}
        /\ request'[r].outbound = request[r].outbound
        /\ \A q \in Requests \ {r} : request'[q] = request[q]
        /\ node' = Restored(Visible, r) /\ Restorable(Visible)
    BY VersionType, SetupFacts
  <1>2. Visible' = Visible /\ Visible \in Version /\ LogInv'
    BY VersionType DEF Visible, StorageInv, LogInv, Restorable
  <1>3. Sound(node', Visible')
    BY <1>1, <1>2, RestoredSound
  <1>4. /\ request[r].outbound <= Visible.monitor /\ revealed <= Visible.monitor
        /\ Visible.monitor <= Visible.monitor
    BY <1>2 DEF StorageInv, RequestInv, Held, RevealedIsStored, Version
  <1> QED
    BY <1>1, <1>2, <1>3, <1>4, StepStorage

\* A pump step: what goes out is stored.
LEMMA PumpStorage ==
    ASSUME ~FetchYields, ShapeInv, StorageInv, NEW r \in Requests, PumpStep(r) \/ PumpForeign(r)
    PROVE  StorageInv'
  <1>1. At(r, {"pump"}) /\ open /\ UNCHANGED <<log, open, revealed>> /\ TypeOK
    BY DEF PumpStep, PumpForeign, ShapeInv
  <1>2. PICK early, late \in {0, 1} : \E out \in {0, Advanced(node, early, late).done} :
             /\ node' = [Advanced(node, early, late) EXCEPT !.queue = {}]
             /\ request' = [request EXCEPT ![r] =
                              Flushing(@, Advanced(node, early, late).queue, "write", out)]
    BY <1>1, PumpFacts
  <1> DEFINE n == Advanced(node, early, late)
  <1>3. PICK out \in {0, n.done} :
             /\ node' = [n EXCEPT !.queue = {}]
             /\ request' = [request EXCEPT ![r] = Flushing(@, n.queue, "write", out)]
    BY <1>2
  <1> DEFINE q == Flushing(request[r], n.queue, "write", out)
  <1>4. Visible' = Visible /\ Visible \in Version /\ LogInv'
    BY <1>1, VersionType DEF Visible, StorageInv, LogInv, Restorable
  <1>5. node \in Node /\ Consistent(node) /\ Sound(node, Visible)
    BY <1>1 DEF ShapeInv, TypeOK, BufferInv, StorageInv, NodeInv
  <1>6. n \in Node /\ Sound(n, Visible)
    BY <1>4, <1>5, AdvancedConsistent, AdvancedSound
  <1>7. request' = [request EXCEPT ![r] = q]
    BY <1>3
  <1> HIDE DEF n
  <1>8. Sound(node', Visible')
    BY <1>3, <1>4, <1>6, SameSound
  <1>9. out \in Nat /\ out <= Visible.monitor /\ n.queue \in SUBSET Nat
    BY <1>3, <1>4, <1>6 DEF Sound, Node, Version
  <1>10. q \in Request /\ q.outbound = out /\ q.pc \notin {"fees", "sync"}
    BY <1>1, <1>9, FlushingFacts DEF TypeOK
  <1> HIDE DEF q
  <1>11. request'[r] = q /\ \A other \in Requests \ {r} : request'[other] = request[other]
    BY <1>1, <1>7, <1>10, UpdateFacts
  <1>12. revealed' <= Visible.monitor /\ Visible.monitor <= Visible.monitor
    BY <1>1, <1>4 DEF StorageInv, RevealedIsStored, Version
  <1> QED
    BY <1>1, <1>4, <1>8, <1>9, <1>10, <1>11, <1>12, StepStorage

\* A put of the newest snapshot: the visible monitor is the session's.
LEMMA PutStorage ==
    ASSUME ~FetchYields, ShapeInv, StorageInv, NEW r \in Requests, FlushPut(r)
    PROVE  StorageInv'
  <1> DEFINE version == [Visible EXCEPT !.monitor = node.monitor]
  <1>1. /\ TypeOK /\ At(r, {"put"}) /\ Goto(r, "sync")
        /\ UNCHANGED <<open, node, revealed>>
    BY DEF FlushPut, ShapeInv
  <1>2. open /\ IsNewest(node.monitor, request[r].batch) /\ Put(version)
    BY PutShape
  <1>3. Visible \in Version /\ node \in Node /\ Sound(node, Visible) /\ Restorable(Visible)
    BY <1>1, <1>2, VersionType DEF TypeOK, StorageInv, NodeInv, LogInv, Visible
  <1>4. /\ version \in Version /\ Restorable(version) /\ version.monitor = node.monitor
        /\ Visible.monitor <= version.monitor /\ Visible.latest <= version.latest
    BY <1>3 DEF Version, Node, Sound, Restorable
  <1>5. Sound(node, version)
    BY <1>3, StoredSound
  <1> HIDE DEF version
  <1>6. Visible' = version /\ LogInv'
    BY <1>1, <1>2, <1>4, PutFacts, PutLog DEF StorageInv
  <1>7. /\ request'[r] = [request[r] EXCEPT !.pc = "sync"]
        /\ \A q \in Requests \ {r} : request'[q] = request[q]
    BY <1>1, GotoFacts DEF Points
  <1>8. /\ request'[r].pc = "sync" /\ request'[r].batch = request[r].batch
        /\ request'[r].outbound = request[r].outbound
    BY <1>1, <1>7 DEF TypeOK, Request
  <1>9. \A id \in request'[r].batch : id <= Visible'.monitor
    BY <1>2, <1>4, <1>6, <1>8 DEF IsNewest
  <1>10. /\ request[r].outbound \in Nat /\ request[r].outbound <= Visible.monitor
         /\ revealed \in Nat /\ revealed <= Visible.monitor
    BY <1>1 DEF TypeOK, Request, StorageInv, RequestInv, Held, RevealedIsStored
  <1>11. request[r].outbound <= version.monitor /\ revealed <= version.monitor
    BY <1>3, <1>4, <1>10 DEF Version
  <1> QED
    BY <1>1, <1>4, <1>5, <1>6, <1>7, <1>8, <1>9, <1>11, StepStorage

\* The manager of the slot's session goes into storage.
LEMMA ManagerStorage ==
    ASSUME ~FetchYields, ShapeInv, StorageInv, NEW r \in Requests, PutManager(r)
    PROVE  StorageInv'
  <1> DEFINE version == [monitor |-> Visible.monitor, latest |-> node.latest,
                         done |-> node.done, closed |-> node.closed]
  <1>1. /\ TypeOK /\ At(r, {"endPut"}) /\ open /\ Put(version) /\ Goto(r, "endSync")
        /\ UNCHANGED <<open, node, revealed>>
    BY DEF PutManager, ShapeInv
  <1>2. Visible \in Version /\ node \in Node /\ Sound(node, Visible)
    BY <1>1, VersionType DEF TypeOK, StorageInv, NodeInv
  <1>3. /\ version \in Version /\ Restorable(version) /\ version.monitor = Visible.monitor
        /\ Visible.monitor <= version.monitor /\ Visible.latest <= version.latest
    BY <1>2 DEF Version, Node, Sound, Restorable
  <1>4. Sound(node, version)
    BY <1>2, SerializedSound
  <1> HIDE DEF version
  <1>5. Visible' = version /\ LogInv'
    BY <1>1, <1>3, PutFacts, PutLog DEF StorageInv
  <1>6. /\ request'[r] = [request[r] EXCEPT !.pc = "endSync"]
        /\ \A q \in Requests \ {r} : request'[q] = request[q]
    BY <1>1, GotoFacts DEF Points
  <1>7. request'[r].pc = "endSync" /\ request'[r].outbound = request[r].outbound
    BY <1>1, <1>6 DEF TypeOK, Request
  <1>8. request[r].outbound <= Visible.monitor /\ revealed <= Visible.monitor
    BY DEF StorageInv, RequestInv, Held, RevealedIsStored
  <1> QED
    BY <1>1, <1>3, <1>4, <1>5, <1>6, <1>7, <1>8, StepStorage

\* A sync by which a request goes on with a batch that no longer matters, or is over.
LEMMA SyncStorage ==
    ASSUME ~FetchYields, TypeOK, StorageInv, NEW r \in Requests, NEW points, At(r, points),
           Synced \/ UNCHANGED log, UNCHANGED revealed, open' => Sound(node', Visible),
           \A q \in Requests \ {r} : request'[q] = request[q],
           request'[r].pc \notin {"fees", "sync"},
           request'[r].outbound \in {0, request[r].outbound}
    PROVE  StorageInv'
  <1>1. LogInv' /\ Visible' = Visible
    BY SyncedLog DEF StorageInv, LogInv, Visible, Restorable
  <1>2. Visible \in Version /\ Visible.monitor \in Nat /\ Visible.monitor <= Visible.monitor
    BY VersionType DEF Version
  <1>3. request'[r].outbound <= Visible.monitor /\ revealed <= Visible.monitor
    BY <1>2 DEF StorageInv, RequestInv, Held, RevealedIsStored
  <1> QED
    BY <1>1, <1>2, <1>3, StepStorage

\* ... and no step puts anything into storage, or tells anyone of, what is older or
\* newer than what is there, if no request waits for fees while others run.
LEMMA NextStorage ==
    ASSUME ~FetchYields, ShapeInv, StorageInv, [Next]_vars
    PROVE  StorageInv'
  <1>0. /\ TypeOK /\ Visible \in Version /\ node \in Node
        /\ (open => Consistent(node) /\ Sound(node, Visible))
        /\ Visible.monitor <= Visible.monitor
        /\ {"tick", "connect", "broadcast", "pump", "end", "drain"} \subseteq Points \ {"fees", "sync"}
    BY VersionType DEF ShapeInv, TypeOK, BufferInv, StorageInv, NodeInv, Points, Awaiting, Version
  <1>1. ASSUME NEW r \in Requests, NEW k \in Kinds, BeginCached(r, k) PROVE StorageInv'
    BY <1>0, <1>1, SetupStorage DEF BeginCached
  <1>2. ASSUME NEW r \in Requests, NEW k \in Kinds, BeginFetching(r, k) PROVE StorageInv'
    <2>1. At(r, {"new"}) /\ UNCHANGED <<log, open, node, revealed>>
      BY <1>2 DEF BeginFetching
    <2>2. Visible' = Visible /\ LogInv'
      BY <2>1 DEF Visible, StorageInv, LogInv, Restorable
    <2>3. request[r].outbound <= Visible.monitor /\ revealed <= Visible.monitor
      BY DEF StorageInv, RequestInv, Held, RevealedIsStored
    <2> QED
      BY <1>0, <1>2, <2>1, <2>2, <2>3, FetchFacts, StepStorage
  <1>3. ASSUME NEW r \in Requests, FeesArrive(r) PROVE StorageInv'
    <2>1. request[r].kind \in Kinds /\ request[r].snapshot = Visible
      BY <1>0, <1>3 DEF TypeOK, Request, FeesArrive, At, StorageInv, RequestInv, Held
    <2> QED
      BY <1>0, <1>3, <2>1, SetupStorage DEF FeesArrive
  <1>4. ASSUME NEW r \in Requests, SetupFails(r) PROVE StorageInv'
    BY <1>0, <1>4, FinishFacts, SyncStorage DEF SetupFails
  <1>5. ASSUME NEW r \in Requests, RgsArrives(r) PROVE StorageInv'
    BY <1>0, <1>5, MoveStorage DEF RgsArrives
  <1>6. ASSUME NEW r \in Requests, TimerTick(r) PROVE StorageInv'
    <2>1. Sound(node', Visible)
      BY <1>0, <1>6, TickedSound DEF TimerTick
    <2>2. \E point \in Points \ {"fees", "sync"} : Goto(r, point)
      BY <1>0, <1>6 DEF TimerTick
    <2> QED
      BY <1>0, <1>6, <2>1, <2>2, MoveStorage DEF TimerTick
  <1>7. ASSUME NEW r \in Requests, Connected(r) PROVE StorageInv'
    <2>1. Sound(node', Visible)
      BY <1>0, <1>7, SameSound DEF Connected
    <2> QED
      BY <1>0, <1>7, <2>1, MoveStorage DEF Connected
  <1>8. ASSUME NEW r \in Requests, PumpStep(r) \/ PumpForeign(r) PROVE StorageInv'
    BY <1>8, PumpStorage
  <1>9. ASSUME NEW r \in Requests, PumpThrows(r) PROVE StorageInv'
    <2>1. open /\ At(r, {"pump"}) /\ Goto(r, "end") /\ UNCHANGED <<log, open, revealed>>
      BY <1>9 DEF PumpThrows
    <2>2. Sound(node', Visible)
      <3>1. CASE UNCHANGED node
        BY <1>0, <2>1, <3>1
      <3>2. CASE node' = [node EXCEPT !.conn = "dead"]
        BY <1>0, <2>1, <3>2, SameSound
      <3>3. CASE \E early, late \in {0, 1} :
                   node' = [Advanced(node, early, late) EXCEPT !.conn = "dead"]
        <4>1. PICK early, late \in {0, 1} :
                 node' = [Advanced(node, early, late) EXCEPT !.conn = "dead"]
          BY <3>3
        <4>2. Advanced(node, early, late) \in Node /\ Sound(Advanced(node, early, late), Visible)
          BY <1>0, <2>1, AdvancedConsistent, AdvancedSound
        <4> QED
          BY <4>1, <4>2, SameSound
      <3> QED
        BY <1>9, <3>1, <3>2, <3>3 DEF PumpThrows
    <2> QED
      BY <1>0, <2>1, <2>2, MoveStorage
  <1>10. ASSUME NEW r \in Requests, Leave(r) PROVE StorageInv'
    <2>1. Sound(node', Visible)
      <3>1. PICK conn \in {node.conn, "none"} : node' = [node EXCEPT !.conn = conn]
        BY <1>10 DEF Leave
      <3> QED
        BY <1>0, <1>10, <3>1, SameSound DEF Leave
    <2> QED
      BY <1>0, <1>10, <2>1, MoveStorage DEF Leave
  <1>11. ASSUME NEW r \in Requests, Write(r) PROVE StorageInv'
    <2>1. At(r, {"write"}) /\ UNCHANGED <<log, open, node>>
      BY <1>11 DEF Write
    <2>2. Visible' = Visible /\ LogInv'
      BY <2>1 DEF Visible, StorageInv, LogInv, Restorable
    <2>3. request[r].outbound <= Visible.monitor /\ revealed <= Visible.monitor
      BY DEF StorageInv, RequestInv, Held, RevealedIsStored
    <2>4. /\ revealed' <= Visible.monitor /\ request'[r].pc = "pump"
          /\ request'[r].outbound <= Visible.monitor
          /\ \A q \in Requests \ {r} : request'[q] = request[q]
      BY <1>0, <1>11, <2>3, WriteFacts DEF Version
    <2> QED
      BY <1>0, <2>1, <2>2, <2>4, StepStorage
  <1>12. ASSUME NEW r \in Requests, ChainSynced(r) PROVE StorageInv'
    <2>1. open => Sound(node', Visible)
      BY <1>0, <1>12, SameSound DEF ChainSynced
    <2> QED
      BY <1>0, <1>12, <2>1, MoveStorage DEF ChainSynced
  <1>13. ASSUME NEW r \in Requests, Broadcasted(r) PROVE StorageInv'
    BY <1>0, <1>13, MoveStorage DEF Broadcasted
  <1>14. ASSUME NEW r \in Requests, FlushPut(r) PROVE StorageInv'
    BY <1>14, PutStorage
  <1>15. ASSUME NEW r \in Requests, FlushSync(r) PROVE StorageInv'
    <2>1. \A id \in request[r].batch : id <= Visible.monitor
      BY <1>15 DEF FlushSync, At, StorageInv, RequestInv, Held
    <2>2. Sound(node', Visible)
      BY <1>0, <1>15, <2>1, SignalledSound DEF FlushSync
    <2>3. At(r, {"sync"}) /\ Synced /\ UNCHANGED revealed
      BY <1>15 DEF FlushSync
    <2> QED
      BY <1>0, <1>15, <2>2, <2>3, FlushFacts, SyncStorage
  <1>16. ASSUME NEW r \in Requests, Drain(r) PROVE StorageInv'
    <2>1. Sound(node', Visible)
      BY <1>0, <1>16, SameSound DEF Drain
    <2>2. At(r, {"drain", "end"}) /\ UNCHANGED <<log, open, revealed>>
      BY <1>16 DEF Drain
    <2> QED
      BY <1>0, <1>16, <2>1, <2>2, DrainFacts, SyncStorage
  <1>17. ASSUME NEW r \in Requests, PutManager(r) PROVE StorageInv'
    BY <1>17, ManagerStorage
  <1>18. ASSUME NEW r \in Requests, SyncManager(r) PROVE StorageInv'
    BY <1>0, <1>18, FinishFacts, SyncStorage DEF SyncManager
  <1>19. ASSUME NEW r \in Requests, NetworkFails(r) PROVE StorageInv'
    BY <1>0, <1>19, MoveStorage DEF NetworkFails
  <1>20. ASSUME NEW r \in Requests, NoSession(r) PROVE StorageInv'
    <2>1. Synced \/ UNCHANGED log
      BY <1>20 DEF NoSession
    <2>2. Finish(r) /\ ~open /\ UNCHANGED <<open, node, revealed>>
      BY <1>20 DEF NoSession
    <2>3. \E points : At(r, points)
      BY <1>20 DEF NoSession
    <2> QED
      BY <1>0, <2>1, <2>2, <2>3, FinishFacts, SyncStorage
  <1>21. CASE UNCHANGED vars
    BY <1>21 DEF vars, StorageInv, LogInv, NodeInv, RequestInv, Held, RevealedIsStored,
                 Restorable, Visible
  <1> QED
    BY <1>1, <1>2, <1>3, <1>4, <1>5, <1>6, <1>7, <1>8, <1>9, <1>10, <1>11, <1>12, <1>13, <1>14,
       <1>15, <1>16, <1>17, <1>18, <1>19, <1>20, <1>21 DEF Next, Finished

-----------------------------------------------------------------------------
(* What follows, if no request runs while another one awaits fee estimates.     *)

\* The invariant of SharedSession.tla, in builds where setup does not yield.
THEOREM SharedInvariance ==
    ASSUME ~FetchYields
    PROVE  Spec => [](ShapeInv /\ StorageInv)
  <1>1. Init => ShapeInv /\ StorageInv
    BY InitShape, InitStorage
  <1>2. ShapeInv /\ StorageInv /\ [Next]_vars => (ShapeInv /\ StorageInv)'
    BY NextShape, NextStorage
  <1> QED
    BY <1>1, <1>2, PTL DEF Spec

\* Every version that overlapping requests leave in storage is one LDK accepts: a
\* manager is never put over monitors that lack an update it takes for complete.
THEOREM SharedRestores ==
    ASSUME ~FetchYields
    PROVE  Spec => []AlwaysRestorable
  <1>1. ShapeInv /\ StorageInv => AlwaysRestorable
    BY DEF StorageInv, LogInv, AlwaysRestorable
  <1> QED
    BY <1>1, SharedInvariance, PTL

\* However requests share a session, nothing goes out on a socket that tells the peer
\* of an update whose monitor is not stored.
THEOREM SharedReveals ==
    ASSUME ~FetchYields
    PROVE  Spec => []RevealedIsStored
  <1>1. ShapeInv /\ StorageInv => RevealedIsStored
    BY DEF StorageInv
  <1> QED
    BY <1>1, SharedInvariance, PTL

\* A completion signalled to the session in the slot, perhaps by a request whose batch
\* is of another session, never covers an update that is not stored.
THEOREM SharedAcks ==
    ASSUME ~FetchYields
    PROVE  Spec => []AckedIsStored
  <1>1. ShapeInv /\ StorageInv => AckedIsStored
    BY DEF StorageInv, NodeInv, Sound, AckedIsStored
  <1> QED
    BY <1>1, SharedInvariance, PTL

\* The session in the slot is not behind storage, whoever restored it and whoever
\* wrote since.
THEOREM SharedCurrent ==
    ASSUME ~FetchYields
    PROVE  Spec => []SessionIsCurrent
  <1>1. ShapeInv /\ StorageInv => SessionIsCurrent
    BY DEF StorageInv, NodeInv, Sound, SessionIsCurrent
  <1> QED
    BY <1>1, SharedInvariance, PTL

\* A step leaves the durable version alone, or makes the visible one durable.
LEMMA DurableSteps ==
    ASSUME ShapeInv, [Next]_vars
    PROVE  Durable' \in {Durable, Visible}
  <1> USE DEF ShapeInv
  <1>2. CASE UNCHANGED log
    BY <1>2 DEF Durable
  <1>3. CASE Synced
    BY <1>3, SyncedFacts
  <1>4. ASSUME NEW version \in Version, Put(version) PROVE Durable' = Durable
    BY <1>4, PutFacts
  <1>5. ASSUME NEW r \in Requests, FlushPut(r) PROVE Durable' = Durable
    <2>1. open /\ Put([Visible EXCEPT !.monitor = node.monitor])
      BY <1>5, PutShape
    <2>2. [Visible EXCEPT !.monitor = node.monitor] \in Version
      BY VersionType DEF TypeOK, Version, Node
    <2> QED
      BY <1>4, <2>1, <2>2
  <1>6. ASSUME NEW r \in Requests, PutManager(r) PROVE Durable' = Durable
    <2> DEFINE version == [monitor |-> Visible.monitor, latest |-> node.latest,
                           done |-> node.done, closed |-> node.closed]
    <2>1. version \in Version
      BY VersionType DEF TypeOK, Version, Node
    <2>2. Put(version)
      BY <1>6 DEF PutManager
    <2> QED
      BY <1>4, <2>1, <2>2
  <1>7. ASSUME NEW r \in Requests, NEW k \in Kinds, BeginCached(r, k) \/ BeginFetching(r, k)
        PROVE  UNCHANGED log
    BY <1>7 DEF BeginCached, BeginFetching
  <1>8. ASSUME NEW r \in Requests,
               \/ FeesArrive(r) \/ SetupFails(r) \/ RgsArrives(r) \/ TimerTick(r)
               \/ Connected(r) \/ PumpStep(r) \/ PumpForeign(r) \/ PumpThrows(r) \/ Leave(r)
               \/ Write(r) \/ ChainSynced(r) \/ Broadcasted(r) \/ Drain(r) \/ NetworkFails(r)
        PROVE  UNCHANGED log
    BY <1>8 DEF FeesArrive, SetupFails, RgsArrives, TimerTick, Connected, PumpStep, PumpForeign,
                PumpThrows, Leave, Write, ChainSynced, Broadcasted, Drain, NetworkFails
  <1>9. ASSUME NEW r \in Requests, FlushSync(r) \/ SyncManager(r) \/ NoSession(r)
        PROVE  Synced \/ UNCHANGED log
    BY <1>9 DEF FlushSync, SyncManager, NoSession
  <1>10. CASE UNCHANGED vars
    BY <1>2, <1>10 DEF vars
  <1> QED
    BY <1>2, <1>3, <1>5, <1>6, <1>7, <1>8, <1>9, <1>10 DEF Next, Finished

\* So durable monitors and the durable manager advance.
LEMMA DurableAdvances ==
    ASSUME ShapeInv, StorageInv, [Next]_vars
    PROVE  Durable.monitor <= Durable'.monitor /\ Durable.latest <= Durable'.latest
  <1>1. Durable \in Version /\ Visible \in Version
    BY VersionType DEF ShapeInv
  <1>2. Durable.monitor <= Visible.monitor /\ Durable.latest <= Visible.latest
    BY DEF StorageInv, LogInv, ShapeInv, TypeOK, Durable
  <1>3. Durable' \in {Durable, Visible}
    BY DurableSteps
  <1> QED
    BY <1>1, <1>2, <1>3 DEF Version

\* The durable monitors and manager never go back, however the puts of one request fall
\* between those of another.
THEOREM SharedAdvances ==
    ASSUME ~FetchYields
    PROVE  Spec => NeverRollsBack
  <1>1. ShapeInv /\ StorageInv /\ [Next]_vars =>
          [Durable.monitor <= Durable'.monitor /\ Durable.latest <= Durable'.latest]_vars
    BY DurableAdvances
  <1> QED
    BY <1>1, SharedInvariance, PTL DEF Spec, NeverRollsBack

-----------------------------------------------------------------------------
(* The promise of DurableNode, if nothing runs during a sync either.            *)

\* While a request runs that is not at a sync, everything in storage is durable.
LEMMA RunningIsSynced ==
    ASSUME ~SyncYields, SyncInv, NEW r \in Requests, NEW points, At(r, points),
           request[r].pc \notin {"sync", "endSync"}
    PROVE  Len(log) = 1
  BY DEF SyncInv, At, Yields, Awaiting

\* A fresh object has one version in storage, ...
LEMMA InitSync == Init => SyncInv
  BY DEF Init, SyncInv

\* ... and a step leaves more than one behind only on its way to a sync.
LEMMA NextSync ==
    ASSUME ~SyncYields, ShapeInv, SyncInv, [Next]_vars
    PROVE  SyncInv'
  <1> USE DEF ShapeInv
  <1>1. ASSUME NEW r \in Requests, NEW points, At(r, points), UNCHANGED log,
               request[r].pc \notin {"sync", "endSync"}
        PROVE  SyncInv'
    BY <1>1, RunningIsSynced DEF SyncInv
  <1>2. CASE Synced
    BY <1>2 DEF Synced, SyncInv
  <1>3. ASSUME NEW r \in Requests, NEW k \in Kinds, BeginCached(r, k) \/ BeginFetching(r, k)
        PROVE  SyncInv'
    BY <1>1, <1>3 DEF BeginCached, BeginFetching, At
  <1>4. ASSUME NEW r \in Requests,
               \/ FeesArrive(r) \/ SetupFails(r) \/ RgsArrives(r) \/ TimerTick(r)
               \/ Connected(r) \/ PumpStep(r) \/ PumpForeign(r) \/ PumpThrows(r) \/ Leave(r)
        PROVE  SyncInv'
    BY <1>1, <1>4 DEF FeesArrive, SetupFails, RgsArrives, TimerTick, Connected, PumpStep,
                      PumpForeign, PumpThrows, Leave, At
  <1>5. ASSUME NEW r \in Requests,
               \/ Write(r) \/ ChainSynced(r) \/ Broadcasted(r) \/ Drain(r) \/ NetworkFails(r)
        PROVE  SyncInv'
    BY <1>1, <1>5 DEF Write, ChainSynced, Broadcasted, Drain, NetworkFails, At
  <1>6. ASSUME NEW r \in Requests, FlushPut(r) \/ PutManager(r) PROVE SyncInv'
    <2>1. Goto(r, "sync") \/ Goto(r, "endSync")
      BY <1>6 DEF FlushPut, PutManager
    <2>2. request'[r].pc \in {"sync", "endSync"}
      BY <2>1 DEF Goto, TypeOK, Request
    <2> QED
      BY <2>2 DEF SyncInv
  <1>7. ASSUME NEW r \in Requests, FlushSync(r) \/ SyncManager(r) PROVE SyncInv'
    BY <1>2, <1>7 DEF FlushSync, SyncManager
  <1>8. ASSUME NEW r \in Requests, NoSession(r) PROVE SyncInv'
    BY <1>1, <1>2, <1>8 DEF NoSession, At
  <1>9. CASE UNCHANGED vars
    BY <1>9 DEF vars, SyncInv
  <1> QED
    BY <1>3, <1>4, <1>5, <1>6, <1>7, <1>8, <1>9 DEF Next, Finished

\* Only a write to the socket tells the peer anything, and it tells what is durable.
LEMMA StepReveals ==
    ASSUME ~SyncYields, ShapeInv, StorageInv, SyncInv, [Next]_vars
    PROVE  \/ UNCHANGED revealed
           \/ UNCHANGED log /\ revealed <= revealed' /\ revealed' <= Durable.monitor
  <1> USE DEF ShapeInv
  <1>1. ASSUME NEW r \in Requests, Write(r)
        PROVE  UNCHANGED log /\ revealed <= revealed' /\ revealed' <= Durable.monitor
    <2>1. At(r, {"write"}) /\ UNCHANGED log
      BY <1>1 DEF Write
    <2>2. Durable = Visible
      BY <2>1, RunningIsSynced DEF At, Durable, Visible
    <2>3. /\ request[r].outbound \in Nat /\ request[r].outbound <= Visible.monitor
          /\ revealed \in Nat /\ revealed <= Visible.monitor
      BY DEF TypeOK, Request, StorageInv, RequestInv, Held, RevealedIsStored
    <2>4. revealed' = IF revealed < request[r].outbound THEN request[r].outbound ELSE revealed
      BY <1>1 DEF Write
    <2> QED
      BY <2>1, <2>2, <2>3, <2>4
  <1>2. ASSUME NEW r \in Requests, NEW k \in Kinds, BeginCached(r, k) \/ BeginFetching(r, k)
        PROVE  UNCHANGED revealed
    BY <1>2 DEF BeginCached, BeginFetching
  <1>3. ASSUME NEW r \in Requests,
               \/ FeesArrive(r) \/ SetupFails(r) \/ RgsArrives(r) \/ TimerTick(r)
               \/ Connected(r) \/ PumpStep(r) \/ PumpForeign(r) \/ PumpThrows(r) \/ Leave(r)
        PROVE  UNCHANGED revealed
    BY <1>3 DEF FeesArrive, SetupFails, RgsArrives, TimerTick, Connected, PumpStep,
                PumpForeign, PumpThrows, Leave
  <1>4. ASSUME NEW r \in Requests,
               \/ ChainSynced(r) \/ Broadcasted(r) \/ FlushPut(r) \/ FlushSync(r) \/ Drain(r)
               \/ PutManager(r) \/ SyncManager(r) \/ NetworkFails(r) \/ NoSession(r)
        PROVE  UNCHANGED revealed
    BY <1>4 DEF ChainSynced, Broadcasted, FlushPut, FlushSync, Drain, PutManager, SyncManager,
                NetworkFails, NoSession
  <1>5. CASE UNCHANGED vars
    BY <1>5 DEF vars
  <1> QED
    BY <1>1, <1>2, <1>3, <1>4, <1>5 DEF Next, Finished

\* A fresh object is a fresh DurableNode, ...
LEMMA SharedInitImplements == Init => Promise!Init
  BY DEF Init, Promise!Init, Durable, Fresh

\* ... and every step of a request is one of its steps, or none.
LEMMA SharedStepImplements ==
    ASSUME ~FetchYields, ~SyncYields, ShapeInv, StorageInv, SyncInv, ShapeInv', [Next]_vars
    PROVE  Promise!Next
  <1>1. Durable.monitor <= Durable'.monitor
    BY DurableAdvances
  <1>2. Durable'.monitor \in Nat /\ revealed' \in Nat
    <2>1. log' \in Seq(Version) /\ Len(log') >= 1 /\ revealed' \in Nat
      BY DEF ShapeInv, TypeOK
    <2>2. log'[1] \in Version
      BY <2>1
    <2> QED
      BY <2>1, <2>2 DEF Durable, Version
  <1>3. CASE UNCHANGED revealed
    BY <1>1, <1>2, <1>3 DEF Promise!Next, Promise!Persist
  <1>4. CASE UNCHANGED log /\ revealed <= revealed' /\ revealed' <= Durable.monitor
    <2>1. Durable' = Durable
      BY <1>4 DEF Durable
    <2> QED
      BY <1>2, <1>4, <2>1 DEF Promise!Next, Promise!Reveal
  <1> QED
    BY <1>3, <1>4, StepReveals

\* Overlapping requests implement DurableNode in builds where neither setup nor a sync
\* lets others run: durable states advance, and the peer is told durable states only.
THEOREM SharedRefines ==
    ASSUME ~FetchYields, ~SyncYields
    PROVE  Spec => Implements
  <1>1. ShapeInv /\ StorageInv /\ SyncInv /\ [Next]_vars => SyncInv'
    BY NextSync
  <1>2. Init => SyncInv /\ Promise!Init
    BY InitSync, SharedInitImplements
  <1>3. ShapeInv /\ StorageInv /\ SyncInv /\ ShapeInv' /\ [Next]_vars
          => [Promise!Next]_(Promise!vars)
    BY SharedStepImplements
  <1> QED
    BY <1>1, <1>2, <1>3, SharedInvariance, PTL DEF Spec, Implements, Promise!Spec
=============================================================================
