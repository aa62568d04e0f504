# A TLA+ model of mdk-cloudflare

mdk-cloudflare runs a Lightning node (LDK compiled to WASM) inside a Cloudflare
Durable Object.  No node lives longer than a request: every operation restores
the node from Durable Object storage, works, persists and drops it.  This
directory models that life cycle, checks it with TLC and proves the parts that
matter most with TLAPS.  Paths below are relative to `src/`; `TS` stands for
`packages/lightning-cloudflare/src`, `RS` for `crates/ldk-wasm/src`.

## Inventory

| Component | State | Operations | What is hard |
|---|---|---|---|
| Request session: `MdkNode` (TS/node.ts), `flushPendingMonitors` (TS/storage.ts), `DoPersister` (RS/persist.rs), session exports (RS/lib.rs), `EphemeralNode` (RS/node.rs) | storage keys `monitors/*`, `channel_manager`, `sweepable_outputs`, `rgs_timestamp`; the `SESSION` slot; ChainMonitor's pending updates; the persister's buffer | restore, timer tick, pump step, flush, sync, signal, serialize, teardown | order of put, sync, signal and write; failure of any call; crash between two of them |
| Pump loop (TS/pump-loop.ts) | deadline, latches, `allClaimed` | one WASM step per read, flush, write, terminal result | deadlines, results of nested steps overriding each other, claims lost when a step fails |
| Overlapping requests (TS/durable-object.ts `withNode`, RS/lib.rs `SESSION`) | one `SESSION` slot per isolate, the storage keys | every operation, and the alarm | requests interleave at every await that is not a storage operation |
| Alarm (TS/durable-object.ts `alarm`, `withNode`) | the scheduled alarm, fee cache | fee refresh, maintenance, challenge clean-up, rescheduling | partial failure, an alarm that must always come back |
| MPP challenges (TS/durable-object.ts, TS/mpp.ts) | `mpp/challenge/*` | create, verify, clean-up; `mppCharge` around a handler | check, await, delete; expiry against clean-up; consumption before the work |
| Webhook (TS/durable-object.ts `fetch`, `handleWebhook`, `handlePayout`; TS/route.ts) | none of its own | claim and confirm, payout, authentication | a confirmation that fails after a claim |
| Chain sync (RS/sync) and broadcaster (RS/chain.rs) | watched transactions and outputs, last synced tip, queued transactions | sync pass, reorg, flush of broadcasts | the tip moves during a pass, errors read as "not found", transactions lost by a failed POST |
| LSPS4 client (RS/lsps4) | pending request id, registration | register, handle response | a response overwritten or for an older request |
| LNURL, BOLT11, SCID helpers (TS/lnurl.ts, RS/lsps4/msgs.rs) | none | pure functions | rounding, integer widths |
| MDK API client, socket, logging, WASM glue | none of interest | I/O | failures, modelled at the callers |

What makes each component correct:

- session: storage is always restorable; nothing leaves the node before it is
  durable; a failure costs no channel; a reported payment is never lost;
- pump loop: every call ends, returns all it claimed and the answer it was given,
  and starts what it was asked for once;
- overlapping requests: each of the above although sessions overlap;
- challenges: a challenge is redeemed at most once, never after it expired, and
  a paid one can be redeemed;
- alarm: there is always a next alarm;
- webhook: an answer of 200 means that MDK knows of the claims; a payout pays what
  was asked for; a checkout is registered with its SCID and amount;
- chain sync: a pass leaves the listeners at a consistent chain, and in the end at
  the best one; a claim reaches the network.

## Modules

| Module | What it models |
|---|---|
| `NodeSession` | one session at a time over storage, the sessions that follow each other, failures and crashes |
| `DurableNode` | the abstract specification: durable states advance, only durable states are revealed, only durable claims are reported |
| `MCNodeSession` | instances of `NodeSession` for TLC |
| `NodeSessionProofs` | the TLAPS proofs about `NodeSession` |
| `SharedSession` | requests that overlap: one `SESSION` slot, one storage, interleaved at network awaits |
| `MCSharedSession` | instances of `SharedSession` |
| `SharedSessionProofs` | the TLAPS proofs about `SharedSession` |
| `OneTimeToken` | the abstract specification of a challenge: issued, paid, redeemed once, withdrawn only past its deadline |
| `MppChallenge` | challenges in storage, `mppCharge` around them, the clean-up of the alarm |
| `MCMppChallenge` | instances of `MppChallenge` |
| `MppChallengeProofs` | the TLAPS proofs about `MppChallenge` |
| `ConfirmListener` | the abstract specification of feeding LDK's listeners: what leaves the chain is taken back before a best block is told, and only its chain is confirmed |
| `ChainSync` | the alarm, the sync of LDK's listeners over a chain that moves, the broadcaster |
| `MCChainSync` | a tree of nine blocks with a channel's closing transactions |
| `ChainSyncProofs` | the TLAPS proofs about `ChainSync`: types, and what the listeners are told is true |
| `ChainSyncAgreement` | the proofs, on top of those, of what a pass achieves: nothing is forgotten, parents come first, all of the chain is told, and `ConfirmListener` is implemented |
| `PumpLoop` | calls that talk to the LSP, one after the other: iterations, callbacks, terminal results, LSPS4 |
| `MCPumpLoop` | instances of `PumpLoop` with small SCID fields |
| `PumpLoopProofs` | the TLAPS proofs about `PumpLoop` |
| `MdkEndpoint` | requests through route, Durable Object, MDK API and LNURL, composed over `PumpLoop` |
| `MCMdkEndpoint` | an instance of `MdkEndpoint` |
| `MdkEndpointProofs` | the TLAPS proofs about `MdkEndpoint`, on top of `PumpLoopProofs` |

`NodeSession` has the depth (every failure and crash of one session at a time),
`SharedSession` the breadth (sessions that overlap, no crash and no storage
failure); they share the representation of snapshots and managers.  `PumpLoop`
takes the same calls from the other side: what they hear from the LSP and return,
with the end of the session as one step.  `MdkEndpoint` EXTENDS it and adds what
makes the calls.  `ChainSync` is the maintenance session of the alarm with every
HTTP request a step.  `MppChallenge` touches neither the node nor its keys.

### NodeSession

One action per stretch of code between two awaits.

| Code | Actions |
|---|---|
| `setupFromStorage` (TS/node.ts:124), `setup_node`, `restore_from_bytes` | `Begin`, `SetupFromStorage`, `SetupFails` |
| `timer_tick`, `prepare_for_claiming` (RS/node.rs:581) | `TimerTick` |
| connect, handshake (TS/node.ts:557) | `Connect` |
| `pumpLoop` (TS/pump-loop.ts:50), `process_pump_step` (RS/node.rs:474) | `PumpStep`, `PumpStepThrows`, `WriteOutbound`, `SocketClosed`, `Expire` |
| `flushPendingMonitors` (TS/storage.ts:30), `signal_monitors_persisted` (RS/lib.rs:458) | `FlushPut`, `FlushSync` |
| `sync_chain_on_session`, `drainAndFlushMonitors` | `SyncChain`, `Drain` |
| `persistSessionEnd` (TS/node.ts:200), `teardown_node` | `Drain`, `PutManager`, `SyncManager` |
| `handleSessionFailure` (TS/node.ts:224) | `Fail`, `FailAgain` |
| eviction or reset of the Durable Object | `Crash` |

The operations differ in their first point (`FirstPoint`) and in what they do with
claims: `local` is getNodeInfo and createInvoiceWithScid, `receive` is
receivePayments, `pay` is pay, `invoice` is registerAndCreateInvoice,
`maintenance` is periodicMaintenance.

How data is represented.  A monitor snapshot is the update id it contains.  A
channel manager is the last update it generated (`latest`), the last one it knows
complete (`done`; what lies between is serialized as in-flight) and the channels
it closed.  Storage is the sequence `log` of versions that a crash may leave: the
first is on disk, the last is what a read returns; `sync()` leaves the last.  A
put that throws stored nothing.  `sync()` that cannot make writes durable resets
the Durable Object, which is `Crash`.

What is external is modelled from how the code uses it.  LDK accepts a manager
whose completed updates are all in its monitors; closes a channel whose monitor is
ahead of the manager (the closing update of such a channel is not modelled);
replays in-flight updates with its background events, which run with the next
timer tick or pump step (so `recoverPendingUpdates` always finds an empty list in
a fresh ChainMonitor); emits a Completed event only when no update of the channel
is pending; and releases a held message only when no update is in flight.  Monitors
that chain sync re-persists keep their update id.  Nothing in this repository
archives monitors, so `pendingDeletes` is always empty.

`Init` is a stored manager that knows no channel.  The operations before the first
manager is stored differ only in a fresh manager without channels.

pay throws after its teardown when the payment failed or timed out
(TS/node.ts:464-468), and then runs handleSessionFailure without a session; with
one session at a time this has no effect and is left out here.

### SharedSession

A request is a program counter over the same stretches of code; what it holds in
WASM is not its own but whatever the one `SESSION` slot (RS/lib.rs:126) holds when
it runs.

| Code | Actions |
|---|---|
| `setupFromStorage` with cached fees / with `refreshFees` | `BeginCached` / `BeginFetching`, `FeesArrive` |
| `pay`: RGS fetch (TS/node.ts:399) | `RgsArrives` |
| `timer_tick`, connect | `TimerTick`, `Connected` |
| `process_peer_message`, also when the socket belongs to a session that is gone | `PumpStep`, `PumpForeign`, `PumpThrows`, `NoSession` |
| `flushPendingMonitors`, `signal_monitors_persisted` | `FlushPut`, `FlushSync` |
| `sync_chain_on_session`, `flush_broadcasts_on_session` (take the session out of the slot or use it across an await) | `ChainSynced`, `Broadcasted` |
| `persistSessionEnd`, `teardown_node` | `Drain`, `PutManager`, `SyncManager` |
| `handleSessionFailure` | `NetworkFails`, `SetupFails` |

The input gate.  A Durable Object delivers no other event while a storage
operation is pending, so a read, a put and what surrounds them are not
interleaved; it does deliver events while a fetch or a socket is awaited.  Two
constants say what else yields: `SyncYields` the await of `storage.sync()`, and
`FetchYields` the await of `refreshFees` between the reads of `setupFromStorage`
and `setup_node`.  The code yields at the fetch; without it (`FetchYields` FALSE)
the model shows what holds for sessions that overlap only after their setup.

### MppChallenge

| Code | Actions |
|---|---|
| `parsePaymentAuthorization` (TS/mpp.ts:53) | `ArriveWithout`, `ArriveWith` |
| `verifyMppCredential` (TS/durable-object.ts:253), before and after the digest | `Verify`, `Digested` |
| `createMppChallenge` (TS/durable-object.ts:233) | `CreateChallenge`, `CreateFails` |
| the handler (TS/mpp.ts:178) | `HandlerReturns`, `HandlerThrows` |
| MPP clean-up in `alarm` (TS/durable-object.ts:127) | `Cleanup` |
| the payer and the clock | `Pay`, `Tick` |

A preimage is right, wrong or malformed, and a requester has the right one only
after the invoice was paid.  `issued` and `paid` are history.  `DigestYields` says
whether other requests run while `crypto.subtle.digest` is awaited; with it TLC
finds two requests redeem one challenge, since `verifyMppCredential` ignores what
`storage.delete` returns (TS/durable-object.ts:276).  Single use therefore rests on
the digest not yielding to another request, and the run and theorem say so.
What a payer is owed when the handler throws after the challenge was consumed is
specified nowhere; the step is there and no property is about it.

### ChainSync

Every HTTP request is an action, so that the chain may move between any two.

| Code | Actions |
|---|---|
| `withNode` (TS/durable-object.ts:84), `alarm` (:102), its `finally` | `Request`, `AlarmFires`, `Reschedule` |
| `setupFromStorage`, `load_existing_monitor` | `Restore` |
| `sync` (RS/sync/esplora.rs): first tip, head of the loop | `GetTip`, `LoopHead` |
| `get_unconfirmed_transactions` and its report after the tip was read again | `CheckRelevant`, `TellUnconfirmed` |
| `sync_best_block_updated` | `TellBest` |
| `get_confirmed_transactions`: watched transactions, outputs, proofs, heights | `CheckWatchedTx`, `CheckWatchedOutput`, `GetSpenderProof`, `GetHeight` |
| `sync_confirmed_transactions` (also RS/sync/common.rs) | `TellConfirmed` |
| `drainAndFlushMonitors`, `prepare_for_claiming` in `periodicMaintenance` | `DrainAndClaim` |
| `EsploraBroadcaster::flush` (RS/chain.rs) | `Broadcast`, one per POST |
| `persistSessionEnd`, `handleSessionFailure` | `PersistSessionEnd` |
| eviction; the network | `Crash`; `ChainMoves` |

The listeners (ChannelManager and ChainMonitor) are told the same things and are
one record: where each transaction was confirmed, the best block, the outputs to
watch.  A transaction has one output of interest, named by the transaction.  The
chain is a tree of blocks and a tip that moves to a higher one and keeps what is
`ANTI_REORG_DELAY` deep; our claims are mined only once they were broadcast.  A
request that fails is either an error of `sync()` or, where the client reads it as
"not found" (RS/sync/client.rs:105), a transaction that is missed (`pass.missed`).
What was found is told in any order that the code's unstable sort by height and place
may give it (`Sorted`).

### PumpLoop

| Code | Actions |
|---|---|
| `receivePayments`, `pay`, `registerAndCreateInvoice` up to `pumpLoop` | `Begin` |
| head of the loop: deadline, quiet time, read (TS/pump-loop.ts:117) | `StartRead`, `LastFlush`, `SocketClosed`, `ReadTimeout`, `ReadFails` |
| `read_event`, `Lsps4MessageHandler` (RS/lsps4/client.rs) | `ReceiveInit`, `ReceiveReestablish`, `ReceiveAnswer`, `ReceiveHtlc`, `ReceiveOutcome`, `ReceiveDisconnect` |
| `process_pump_step` (RS/node.rs:474), `process_events` (RS/events.rs), `applyPumpResult` | `MainStep` |
| `onPeerReady`, `onChannelsReady` and the flush behind each | `PeerReady` (`Register`), `ChannelsReady` (`StartPayment`, `Refused`) |
| `terminalResult` after the callbacks | `Check` |
| after the loop; `handleSessionFailure` | `Return`, `Fails` |
| `parse_scid`, `create_jit_invoice`, `InvoiceDetails` | `ParseScid`, `Registration`, `Crossing`, `JitHop`, `FormatScid`, `Invoice` |
| the clock; an output that matures between calls | `TimePasses`; `Mature` |

The bytes of one read are any number of `Receive` steps, so that messages may be
grouped in any way.  When storing or writing fails after the WASM step, the claims
are made and the events handled, and the loop throws; when `read_event` fails, the
events stay for a later call.  Of several payment outcomes in one step only the
first is passed on.  A failed payment may be tried again, a sent one is refused by
LDK.  The manager of a session is stored when it returns and when it throws, so
LDK's events and payments go from call to call.

### MdkEndpoint

| Code | Actions |
|---|---|
| `parseRoute`, `handlePost` (TS/route.ts) | `HandlePost` |
| `fetch` of the Durable Object (TS/durable-object.ts:345) | `Fetch` |
| `handleWebhook` (:400) | `WebhookCalled`, `Confirm` |
| `handlePayout` (:423), `resolveDestinationToInvoice` (TS/lnurl.ts:115), `pay` | `Resolve`, `PayoutCalled` |
| `createCheckout`, `confirmCheckout`, `registerInvoiceForCheckout` (:164) | `Create`, `InvoiceCalled`, `RegisterInvoice` |
| operations that are one call of the MDK API | `Api` |
| the call of MdkNode at work | `Run`, `Hear`, `Expire`: the steps of `PumpLoop` |

A call of the MDK API succeeds, or fails before or after MDK has done what it was
asked.  A session with a given SCID does not talk to the LSP and is one step.
Amounts are in tenths of a msat, since an invoice may ask for a fraction of one.
An invoice is its prefix, digits and multiplier, each of the last two possibly
missing; what `parseBolt11AmountMsat` makes of it and what LDK makes of it
(`LdkPico`, `LdkPays`, external) are two definitions, and the check of
`resolveDestinationToInvoice` (`Accepts`) uses only the first.  An invoice that the
first cannot read passes.  LDK refuses such an invoice when it has no amount, a
multiplier neither of them knows or a fraction of a msat, but not when only its
prefix is unknown to TS/lnurl.ts:56: a simnet invoice (`lnsb`) reads as null
(TS/lnurl.ts:72-73), passes (:169), and `initiate_payment` (RS/node.rs:656-669) pays
it without looking at its network, over any amount.  The model has that behaviour;
`PaysWhatWasAsked` is about the other prefixes.  The checks of the LNURL
server's metadata are the error of `Resolve`.  The secret, and cookie and header
for the routes that do not need it, are given or not.

## Runs

| Run | Instance | What it shows |
|---|---|---|
| `session` | one channel, update ids to 3, `FairSpec` | the inductive invariant and all safety properties, `DurableNode` is implemented, every session ends |
| `claims_returned` | one channel, ids to 2 | a violation: see Findings |
| `shared` | three requests (symmetric), ids to 2, `SyncYields`, not `FetchYields` | whatever requests do to each other's sessions, storage stays restorable and never goes back, the slot is never behind storage, the peer learns only what is stored |
| `shared_close` | two requests, ids to 1, neither yields | a violation: see Findings |
| `shared_stale` | two requests, ids to 2, `FetchYields` | a violation: see Findings |
| `mpp_single_use` | two challenges, three requests (symmetric), `DigestYields` FALSE | one payment lets one request through; `OneTimeToken` is implemented |
| `chain_sync` | nine blocks on three branches, five transactions, `FairSpec` | `ConfirmListener` is implemented: what listeners are told is true whatever moves during a pass, and in the end they agree with the best chain; claims reach the network; alarms go on |
| `pump` | two calls of any kind, two invoices, two HTLCs, one output, `FairSpec` | claims, answers and starts are accounted for; every call ends |
| `pay_outcome` | the same with two outputs, `Spec` | a violation: see Findings |
| `sweepable_survive` | the same | a violation: see Findings |
| `endpoint` | requests with at most two calls of the node, four invoices, two HTLCs, `EndpointSpec` | what a 200 promises, what a payout pays, what is registered for a checkout |
| `mpp_challenge` | two challenges, two requests, a longer clock, `DigestYields`, `FairSpec` | only paid, timely challenges are redeemed; no live challenge disappears; expired ones leave storage |

Bounds.  `MaxUpdate` bounds the updates a channel ever gets.  Three are enough for
one session to leave an update in flight, a later one to replay it and add two in
one step (one before the manager handles completed updates, one after), so that a
batch has several snapshots of one channel; the number of sessions, failures and
crashes is not bounded.  The
proofs cover any set of channels and any bound.

In `SharedSession` two updates give a request something to overwrite and another
something to lose; three requests are needed for one to store what a second has in
flight and a third to reveal it before the second's `sync()` is over.  This is why
the property is `RevealedIsStored` and not that what is revealed is synced: between
put and sync, overlapping requests rest on the platform holding back output.  Requests are
used once.  In `MppChallenge` the clock runs to one or two seconds past the first
expiry (`TTL` is 1), and two challenges let a clean-up delete one and keep another.

In `ChainSync` one failed request and one eviction may strike anywhere, and the
loop has its six of the code's iterations (`MAX_SYNC_ITERATIONS` is larger; six
suffice for two moves of the tip, the rounds that registrations ask for and the
last one).  The commitment is reorganised into another block, in which the peer
spends its output before our claim does, so that two transactions found in one pass
have the same height and only their places in the block order them; or it is
reorganised out in favour of another closing.  With `AntiReorgDelay` 3 spends are
buried within the instance.

In `PumpLoop` two calls are needed for what one call leaves to the next (an outcome,
a claimable payment, sweepable outputs).  SCID fields are 4, 4 and 4 wide instead of
2^24, 2^24 and 2^16; the answers of the LSP are the smallest SCID with a delta that
does not fit, the largest SCID with the largest delta that does, a block out of
range, and an error.  `MdkEndpoint` has the same bound on calls, so a webhook and
its retry, or a payout after a webhook; requests that make no call are not bounded.
Its invoices are over 1 sat, over one BTC without a multiplier (`BtcMsat` is 10 sats
instead of 10^8), over half a msat, and over 1 sat of the simnet.
`PumpLoopProofs` and `MdkEndpointProofs` hold for all sizes.

Fairness.  `FairSpec` of `NodeSession` assumes that every await of a running request resolves or
rejects (weak fairness of `Session`; sockets and fetches are cut by the platform)
and that a pump loop that keeps coming back to its deadline test finds it passed
(strong fairness of `Expire`; the test reads the wall clock).  Beginning a request
and crashing are not fair.  `FairSpec` of `MppChallenge` assumes the clean-up, as
the alarm is rescheduled in a `finally` (TS/durable-object.ts:143) and catches what
the parts before it throw, and that a digest ends; payers and the clock are not fair.
`FairSpec` of `ChainSync` assumes that the platform fires an alarm that is set and
runs its handler to the end, `WF(Alarm)`; the chain, requests and evictions are not
fair, and liveness rests on there being finitely many blocks, faults and evictions.
`FairSpec` of `PumpLoop` assumes that each await of the loop resolves or rejects,
`WF(Loop)`, and that the clock passes the deadline of a loop that comes back to its
test again and again, `SF(TimePasses)`: the peer may send without end or nothing at
all.

## Properties

- `AlwaysRestorable`: no version a crash can leave has a manager that counts an
  update as complete which its monitors lack.
- `RevealedIsDurable`, `AckedIsDurable`, `ReportedIsDurable`: the peer, LDK and the
  caller learn only of durable states.
- `CloseNeedsCut`, `IdleIsCurrent`: one failed call anywhere, followed by
  handleSessionFailure, leaves the manager up to date; a channel is force-closed on
  restore only after a crash or a second failure.
- `NeverRollsBack`: durable state only advances.
- `Implements`: the session implements `DurableNode`.
- `SessionEnds`: liveness under `FairSpec`.
- In `SharedSession`: `AlwaysRestorable` and `NeverRollsBack` again;
  `RevealedIsStored`; `AckedIsStored` (a signal that reaches another request's
  session completes only what is stored), `SessionIsCurrent` (the session in the slot
  is not behind storage), `NeverCloses`.
- In `MppChallenge`: `SingleRedemption`, `Redeemable` (a challenge is a one-time token:
  issued once, spent by one request of who paid, withdrawn unspent only past its
  deadline; only claimed for a digest that does not yield, violated if it does), `RedeemedRightly`, `LiveIsStored` (no failed
  verification, clean-up or other request takes a payer's challenge away; both
  sides agree on the second of expiry), `ExpiredIsCleaned`.
- In `ChainSync`: `SyncedMeansAgreed` (an Ok of `sync()` leaves the listeners with
  exactly the confirmations of the chain of the tip), `ToldIsCurrent` (nothing
  fetched before a move of the chain is told after it), `Honours` (the listeners are
  fed as `ConfirmListener` promises: no confirmation moves a transaction that they
  have confirmed, or comes under a best block of another branch),
  `NoOutputUnattended` (through any reorganisation), `ParentsFirst` (when the listeners
  are told of a transaction they know the one that it spends, confirmed before or
  earlier in the same call; the exception is a parent whose own request failed in this
  pass and was read as "not found", RS/sync/client.rs:105, while the child was found
  through the watched output), `AlarmAlive`,
  and the liveness properties `EventuallySynced` and `ClaimReachesNetwork`.
- In `PumpLoop`: `ClaimsAccounted` (receivePayments returns all that was claimed, in
  whatever flush), `InvoiceIsAnswer` (the SCID and delta of the LSP, through parsing,
  JavaScript and formatting; a timeout only if no good answer was taken),
  `StartedOnce`, and `CallEnds`.
- In `MdkEndpoint`: `OkMeansConfirmed` (a webhook answered 200 told MDK of each of
  its claims), `PaysWhatWasAsked` (what is paid over an invoice with a prefix of
  `BOLT11_PREFIXES` is what was asked for), and `RegisteredAsAgreed`.

Each is broken by a bug variant of the code kept next to the definition it
replaces (`DrainCopy`, `IsFirst`, `NotSynced`, ...).

## Findings

- `claims_returned`: README.md:172 says that a payment that arrives is claimed and
  confirmed with MDK.  `pay` and `registerAndCreateInvoice` run the same pump loop
  and claim what becomes claimable, but only `receivePayments` returns `allClaimed`:
  such a payment is claimed and never confirmed.
- `shared_close`: README.md:214 says that the Durable Object prevents concurrent
  state corruption, and RS/lib.rs:127 that Workers guarantee one request per isolate.
  Another request is delivered at a network await and overwrites the `SESSION` slot;
  if it restores between the monitor flush and the manager write of the first, it
  sees monitors ahead of the manager, and LDK closes the channel.
- `shared_stale`: ARCHITECTURE.md:33 says that one operation mutates channel state at
  a time.  With stale fees `setupFromStorage` reads storage, awaits `refreshFees` and
  builds the node from what it read; monitors stored meanwhile are overwritten with
  older ones.  Without a yield at the fetch it does not happen (`shared`).
- `pay_outcome`: README.md:257-264 says that `pay(bolt11)` returns its payment hash and
  preimage.  `terminalResult` (TS/pump-loop.ts:99) ends the loop with whatever
  outcome a step reports; after a pay() that timed out, the next one may return the
  outcome of the first.
- `sweepable_survive`: ARCHITECTURE.md:35 says that sweepable outputs survive between
  requests.  `persistSessionEnd` (TS/node.ts:211) replaces the stored ones by those of
  its session, and LDK does not report an output twice.

Disagreements that no run is about: the comment at TS/node.ts:527 says that chain
sync happens in getBalance and receivePayments, while only `periodicMaintenance`
syncs; docs/2026-03-10-ldk-cf-design.md:337 says that an invoice has a
`min_final_cltv_expiry` of the delta plus 2, while RS/lsps4/invoice.rs:85 sets the
delta; the delta is cut to 16 bits (RS/node.rs:397).  README.md:172 and
docs/2026-03-10-ldk-cf-design.md:458-459 say that a webhook claims and confirms, and
that a failed one is retried; handleWebhook (TS/durable-object.ts:409) confirms only
what its own call claimed, so if it fails after LDK claimed, the retry finds nothing,
answers 200, and MDK is not told.  Within one webhook the answer is right
(`OkMeansConfirmed`).  The check of a payout's amount (TS/lnurl.ts:169) does not see a
simnet invoice, which LDK pays (`MdkEndpoint` above).

## Proofs

`NodeSessionProofs` holds for any set of channels and any bound on the ids.

- `TypeCorrect`: `Spec => []TypeOK`, one lemma per action.
- `Invariance`: `Spec => [](TypeOK /\ IInv)`.  None of the safety properties is
  inductive.  `IInv` adds what they rest on: `LogInv` (during a sync there are
  exactly two versions, the second not behind the first, and no manager in either
  counts an update that the first's monitors lack), `NodeInv` (the in-memory monitor
  lies between storage and the manager, and ChainMonitor waits for its newest update
  or that update is durable: this is what makes a Completed event true), `BufferInv`
  (buffered snapshots are not older than storage, so a put never goes back),
  `OutputInv` (claims of the current step are durable or in the batch being
  flushed) and `CutInv`.
- `Restores`, `Reveals`, `Acks`, `Reports`, `Closes`, `Idles`, `Advances`: the safety
  properties, from the invariant.
- `Refines`: `Spec => Implements`; a sync or a crash maps to `Persist`, a write to
  `Reveal`, the end of a session to `Report`, the rest to stuttering (or to a
  `Persist` that changes nothing).

`MppChallengeProofs` holds for any sets of challenges and requests and any
lifetime.  `MppInvariance` proves `TypeOK /\ MppInv`, where `MppInv` adds to
`LiveIsStored`: what is stored is what was issued (`StoredInv`); a request past its
digest read a live challenge and, once admitted, had the right preimage
(`RequestInv`); and, if the digest does not yield, a redeemed challenge is gone and
nobody else holds it between read and delete (`UseInv`, without which single use is
not inductive).  `Rightly`, `Lives` and `SingleUse` are the safety properties;
`SingleUse` assumes `~DigestYields`, and so does `TokenHonoured`: `Spec => Redeemable`.
A challenge is mapped to unissued, live, spent or expired (`Life`); creation maps to
`Issue`, a matching digest to `Redeem`, what a verification or the alarm deletes as
expired to `Expire`, for which `UseInv` has to say that none of it was redeemed.

`PumpLoopProofs` holds for any invoices, HTLCs and answers, any number of calls and
any sizes of the SCID fields.  `ScidRoundTrip` is the arithmetic: a SCID that
`parse_scid` accepts fits its word and is formatted as it came.  `PumpInv` is the
invariant behind `ClaimsReturned`, `InvoiceRight` and `StartsOnce`: the latches
cover what was started (`StartInv`); the claims of the call are in the loop or in the
result (`ClaimInv`); and an answer is in one place, on its way, received, or in the
result of the last step (`AnswerInv`, without which "no good answer was taken" at the
deadline is not inductive).

`ChainSyncProofs` holds for any tree of blocks, any transactions and any bounds on
faults and evictions.  `SyncInv` is: what the listeners take for confirmed once was,
and stays once it is buried (`ListenInv`); the tips of listeners, pass and network
are in order (`TipInv`, so a tip that reads the same is the same); after the
unconfirmed transactions were told the rest is in the chain of the pass
(`KnownInv`); and while the tip stays, what was found is where the chain has it
(`MissingInv`, `FoundInv`).  `ToldTrue` and `NoDirectMove` follow, `AlarmLives` needs
no invariant.

`ChainSyncAgreement` goes on from `SyncInv`.

- `ParentsToldFirst`: a parent that was found in the same pass comes before its child in
  any outcome of the unstable sort, because it does in a chain (`ParentInChain`,
  `SortedFacts`).  One that was not found was confirmed with the listeners, or its
  request failed (`ParentLooked`): `RootInv` says that whatever is watched, found or
  about to be fetched spends an output that the listeners asked for (`Below`);
  `NoOutputUnattended` that such an output is watched or its spend confirmed; and
  `LookedInv` that while the tip stays each transaction to look for was found, is not in
  the chain, or is in `pass.missed`.
- `NothingUnattended`: `NoOutputUnattended` needs to know when a spend is forgotten and
  when it may be.  `AttendInv` adds that a remembered spend is confirmed with the
  listeners at the height remembered (`SpendInv`), that only what is not buried is
  taken back (`RelevantInv`), and that the best block of the listeners is one before
  the tip of the pass until it is told (`BestInv`).
- `AgreedWhenSynced`: `AgreementInv` says what is watched (`WatchInv`: the funding until
  it is confirmed, and every confirmed output that a claim spends), what was looked up
  while the tip stayed (`LookedInv`), and that a loop with nothing left to do agrees
  with its tip (`AgreeInv`).  The one step that is not bookkeeping is `AllTold`: when
  the confirmed transactions are told and nothing new was registered, no transaction of
  the chain is left out.  The earliest one that was would spend an output that was
  told before, hence one that was watched, hence it was looked up, or the chain would
  spend that output twice.  "Earliest" is by height and then place in the block
  (`Least`, from the library's theorem that < on Nat is well-founded).
- `ContractHonoured`: `Spec => Honours`.  The three calls of `Confirm` map to
  `Unconfirmed`, `BestBlock` and `Confirmed`, what stores the listeners to `Save`,
  what restores them to `Restart`, a move of the chain to `Move`, every request to
  stuttering.  Beyond `SyncInv` and `AttendInv` it needs that what was found missing
  stays missing while the tip does (`GoneInv`).

`SharedSessionProofs` holds for any set of requests and any bound on updates.
`SharedType` holds whatever yields, and so do two parts of the inductive
invariant: at most one request is at a point between which and its next no other may
run (`ExclusionInv`), and a request about to put has the newest snapshot of the node in
the slot (`BufferInv`).  The rest, `StorageInv`, is claimed for `~FetchYields` only, as
the two violations of `SharedSession` are real: the versions in storage are ones LDK
accepts, the node in the slot is not behind the visible one and takes nothing for
complete that is not stored, and what a request holds (an output to write, a batch
being synced, a snapshot read before the fees) is stored.  `SharedRestores`,
`SharedReveals`, `SharedAcks`, `SharedCurrent` and `SharedAdvances` follow.  With
`~SyncYields` as well, storage has unsynced writes only while a request syncs them
(`SyncInv`), and `SharedRefines` proves that overlapping requests implement
`DurableNode`, as one session does, but for the claims it reports, which
`SharedSession` leaves out.

`MdkEndpointProofs` shows that the endpoint implements `PumpLoop`
(`EndpointPumps`), takes over `ClaimsReturned`, and from it proves
`ConfirmedWhenOk`.  `PaidWhatWasAsked` rests on `AcceptedIsAsked`: for every
multiplier and for none, an invoice with a prefix of the list that passes the check
and that LDK pays asks for the amount; where the check reads nothing of such an
invoice, LDK refuses it.
`RegistersAsAgreed` follows a checkout from the answer of MDK through the call
(`AgreedInv`): what is kept for the registration is the SCID that `ScidRoundTrip`
brings back unchanged and an amount in whole sats, until MDK is told.

The assumptions are on constants: `BoundAssumption` (`MaxUpdate`; the bounds of
`ChainSync`), `MppAssumption`, `SizeAssumption`, `AnswerAssumption`, `CallAssumption`,
`EndpointAssumption`, and what a block chain is and LDK watches:
`ChainAssumption`, `PastAssumption` (a block has one past, in which a transaction is
found once), `OrderAssumption` (a transaction is mined after the one it spends, and
nothing is spent twice in a chain) and `ClaimAssumption` (the transactions modelled are
those around one channel: they spend the funding, or what one of our claims spends).
TLC evaluates all of them on the instances.  `SharedRestores` and its siblings
assume `~FetchYields`, `SharedRefines` also `~SyncYields`, `SingleUse` and
`TokenHonoured` assume `~DigestYields`; `SharedSession` and `MppChallenge` above say what these stand for.

Only model-checked: liveness (`SessionEnds`, `ExpiredIsCleaned`, `CallEnds`,
`EventuallySynced`, `ClaimReachesNetwork`), which is out of the prover's reach.  Every
invariant and action property that a passing run checks is also a theorem.  The
properties of the runs that end in a violation are not: the code breaks them.

## Plan

Done: `NodeSession` and `DurableNode`, `SharedSession`, `MppChallenge` and
`OneTimeToken`, `ChainSync` and `ConfirmListener`, `PumpLoop`, `MdkEndpoint`, with proofs
of all their safety properties and of the refinements.

Left:

1. `SharedSession`: crashes and failing storage, as `NodeSession` has them.

## Not modelled

Cryptography, message formats, routing, the LDK protocol inside a pump step (only
its effect on update ids and messages), logging, configuration and HTTP formatting.
The table that converts fee rates (RS/chain.rs, TS/node.ts `refreshFees`), URLs
signed for GET, cookies and bech32: data without state.  What an incremental
gossip snapshot adds to an empty graph (`rgs_timestamp`, TS/node.ts:446) is decided
by LDK.  The pending payout of a request whose answer was lost is not told from a
new one, in the code as in the model; no property is about it.
The examples, tools and scripts of the repository are not part of the system.
