------------------------------ MODULE ChainSync ------------------------------
(***************************************************************************)
(* One alarm of the Durable Object at a time: periodicMaintenance restores *)
(* the node, brings LDK's chain listeners up to date through Esplora       *)
(* (sync/esplora.rs, sync/common.rs, sync/client.rs), hands the pending    *)
(* claims to the broadcaster (chain.rs) and persists.                      *)
(*                                                                         *)
(* Every HTTP request is a step of its own, so the chain may grow or be    *)
(* reorganised between any two of them and any of them may fail.  The      *)
(* chain, the LDK listeners (ChannelManager and ChainMonitor, told the     *)
(* same things and taken as one) and the platform's alarm are external.    *)
(* A transaction has one output of interest, named by the transaction.     *)
(***************************************************************************)
EXTENDS Integers, FiniteSets, Sequences, SequencesExt

CONSTANTS
  Blocks, Genesis,   \* every block of every branch, and their root
  Chain,             \* Blocks -> SUBSET Blocks, a block and its ancestors
  Height,            \* Blocks -> Nat
  Txs, Funding,      \* the transactions around one channel
  TxsIn,          \* Blocks -> SUBSET Txs
  Spends,            \* Txs \ {Funding} -> Txs, whose output the transaction spends
  Pos,               \* Txs -> Nat, its place within a block
  Ours,              \* the claims LDK builds: mined only once they were broadcast
  AntiReorgDelay,    \* ANTI_REORG_DELAY
  MaxIterations,     \* MAX_SYNC_ITERATIONS
  MaxFaults,         \* bound on failed requests
  MaxCrashes,        \* bound on evictions of the isolate
  None

VARIABLES
  tip, mempool,      \* the network: best block, broadcast claims not always mined
  alarm, scheduled,  \* an alarm is set; alarmScheduled of this isolate
  stored,            \* listeners as persisted in Durable Object storage
  lis,               \* listeners in memory: conf, best, outs
  pending,           \* EsploraBroadcaster.pending_txs
  filter,            \* FilterQueue
  st,                \* SyncState
  pc, pass,          \* where the handler is; local variables of sync()
  batch,             \* history: the transactions told last, in the order told
  faults, crashes

net   == <<tip, mempool>>
timer == <<alarm, scheduled>>
vars  == <<tip, mempool, alarm, scheduled, stored, lis, pending, filter, st, pc,
           pass, batch, faults, crashes>>

(* The block of the chain ending in b that holds t. *)
BlockOf(t, b) == IF \E a \in Chain[b] : t \in TxsIn[a]
                 THEN CHOOSE a \in Chain[b] : t \in TxsIn[a] ELSE None

(* The answer to a status request for block b. *)
InBestChain(b) == b \in Chain[tip]

(* Confirmed deep enough that nobody expects it to be reorganised. *)
Buried(b, at) == Height[at] >= Height[b] + AntiReorgDelay - 1

ASSUME ChainAssumption ==
  /\ Chain \in [Blocks -> SUBSET Blocks] /\ Height \in [Blocks -> Nat]
  /\ TxsIn \in [Blocks -> SUBSET Txs]
  /\ Genesis \in Blocks /\ Funding \in Txs /\ Ours \subseteq Txs
  /\ Spends \in [Txs \ {Funding} -> Txs] /\ Pos \in [Txs -> Nat]
  /\ None \notin Blocks \cup Txs
(* A block has one past, in which a transaction is found once. *)
ASSUME PastAssumption ==
  \A b \in Blocks : \A a \in Chain[b] :
    /\ b \in Chain[b] /\ Chain[a] \subseteq Chain[b]
    /\ \A c \in Chain[b] : TxsIn[a] \cap TxsIn[c] # {} => a = c
(* A transaction is mined after the one it spends, and nothing is spent twice. *)
ASSUME OrderAssumption ==
  \A b \in Blocks :
    /\ \A t \in TxsIn[b] \ {Funding} : \E a \in Chain[b] :
         /\ Spends[t] \in TxsIn[a]
         /\ Height[a] < Height[b] \/ (a = b /\ Pos[Spends[t]] < Pos[t])
    /\ \A a, c \in Chain[b] : \A t \in TxsIn[a] \ {Funding}, u \in TxsIn[c] \ {Funding} :
         Spends[t] = Spends[u] => t = u
(* Around a channel: what spends the funding, our claims, what competes with them. *)
ASSUME ClaimAssumption ==
  /\ Funding \notin Ours
  /\ \A t \in Txs \ {Funding} : Spends[t] = Funding \/ \E s \in Ours : Spends[s] = Spends[t]
ASSUME BoundAssumption ==
  /\ AntiReorgDelay \in Nat \ {0} /\ MaxIterations \in Nat
  /\ MaxFaults \in Nat /\ MaxCrashes \in Nat

-----------------------------------------------------------------------------
(* State *)

NewSyncState == [txs |-> {}, outs |-> {}, spends |-> {}, last |-> None,
                 pending |-> FALSE]
EmptyQueue   == [txs |-> {}, outs |-> {}]
NoPass       == [tip |-> None, iter |-> 0, todo |-> {}, outs |-> {}, found |-> {},
                 cur |-> None, missed |-> {}]

Spend == [tx : Txs, height : Nat, out : Txs]
Found == [tx : Txs, block : Blocks]

(* What a session of the listeners remembers: where each transaction was    *)
(* confirmed, the best block, and the outputs the monitor wants watched.    *)
Listeners == [conf : [Txs -> Blocks \cup {None}], best : Blocks, outs : SUBSET Txs]

Init ==
  /\ tip = Genesis /\ mempool = {}
  /\ alarm = FALSE /\ scheduled = FALSE
  /\ stored = [conf |-> [t \in Txs |-> None], best |-> Genesis, outs |-> {Funding}]
  /\ lis = stored /\ pending = {}
  /\ filter = EmptyQueue /\ st = NewSyncState
  /\ pc = "idle" /\ pass = NoPass /\ batch = <<>> /\ faults = 0 /\ crashes = 0

-----------------------------------------------------------------------------
(* Environment: the network, requests, evictions *)

(* The best chain moves to a longer branch; blocks that are buried stay, and *)
(* our claims are mined only after they reached the network.                 *)
ChainMoves(b) ==
  /\ Height[b] > Height[tip]
  /\ {a \in Chain[tip] : Buried(a, tip)} \subseteq Chain[b]
  /\ \A a \in Chain[b] \ Chain[tip] : TxsIn[a] \cap Ours \subseteq mempool
  /\ tip' = b
  /\ UNCHANGED <<mempool, timer, stored, lis, pending, filter, st, pc, pass,
                 batch, faults, crashes>>

(* withNode: the first request of an isolate makes sure that an alarm is set. *)
Request ==
  /\ ~scheduled
  /\ scheduled' = TRUE /\ alarm' = TRUE
  /\ UNCHANGED <<net, stored, lis, pending, filter, st, pc, pass, batch, faults,
                 crashes>>

EndOfHandler == /\ pc' = "idle" /\ pass' = NoPass /\ batch' = <<>> /\ pending' = {}
                /\ filter' = EmptyQueue /\ st' = NewSyncState

(* The isolate is evicted.  What it held in memory is lost; the platform runs *)
(* an alarm handler that did not return once more.                            *)
Crash ==
  /\ crashes < MaxCrashes /\ crashes' = crashes + 1
  /\ scheduled' = FALSE
  /\ alarm' = (alarm \/ pc # "idle")
  /\ lis' = stored
  /\ EndOfHandler
  /\ UNCHANGED <<net, stored, faults>>

-----------------------------------------------------------------------------
(* The alarm handler up to the sync *)

handler == <<net, timer, batch, crashes>>

AlarmFires ==
  /\ alarm /\ pc = "idle"
  /\ alarm' = FALSE /\ pc' = "restore"
  /\ UNCHANGED <<net, scheduled, stored, lis, pending, filter, st, pass, batch,
                 faults, crashes>>

Fault == faults < MaxFaults /\ faults' = faults + 1

(* An error of sync() leaves periodicMaintenance through its catch; all but *)
(* the first request mark the sync as pending.                              *)
Abort(s) == /\ Fault
            /\ pc' = "failed" /\ st' = s
            /\ UNCHANGED <<handler, stored, lis, pending, filter, pass>>
Fail == Abort([st EXCEPT !.pending = TRUE])

(* Filter::register_output *)
Register(q, outs) == [q EXCEPT !.outs = @ \cup outs]

(* Bug variant of Registered: only the funding transaction. *)
RegisteredTx(l) == Register([txs |-> {Funding}, outs |-> {}], {})

(* load_existing_monitor registers the funding transaction and every output *)
(* of the monitor with the Filter.                                          *)
Registered(l) == Register([txs |-> {Funding}, outs |-> {}], l.outs)

(* setupFromStorage: a node with a fresh EsploraSyncClient. *)
Restore ==
  /\ pc = "restore"
  /\ \/ /\ lis' = stored /\ filter' = Registered(stored) /\ st' = NewSyncState
        /\ pc' = "tip" /\ UNCHANGED faults
     \/ /\ Fault
        /\ pc' = "reschedule" /\ UNCHANGED <<lis, filter, st>>
  /\ UNCHANGED <<handler, stored, pending, pass>>

-----------------------------------------------------------------------------
(* sync() *)

(* Every way to go round the loop again. *)
Restart(hash) ==
  /\ pc' = "head"
  /\ pass' = [pass EXCEPT !.tip = hash, !.todo = {}, !.outs = {}, !.found = {},
                          !.cur = None]
  /\ st' = [st EXCEPT !.pending = TRUE]
  /\ UNCHANGED <<handler, stored, lis, pending, filter, faults>>

GetTip ==
  /\ pc = "tip"
  /\ \/ /\ pass' = [NoPass EXCEPT !.tip = tip] /\ pc' = "head"
        /\ UNCHANGED <<handler, stored, lis, pending, filter, st, faults>>
     \/ Abort(st)

(* Confirmed with the listeners and not deep enough to be forgotten. *)
Relevant(l) == {t \in Txs : l.conf[t] # None /\ ~Buried(l.conf[t], l.best)}

(* Bug variant of Registrations: what was registered asks for no further round. *)
NoRegistrations(q) == FALSE

(* process_queues: what it reports, and what it does. *)
Registrations(q)    == q # EmptyQueue
ProcessQueues(s, q) == [s EXCEPT !.txs = @ \cup q.txs, !.outs = @ \cup q.outs]

(* Bug variant of GiveUp: one iteration too many. *)
GiveUpLate == pass.iter > MaxIterations

GiveUp == pass.iter >= MaxIterations

(* The head of the loop: give up, end, look for unconfirmed transactions on a *)
(* new tip, or look for confirmations only.                                   *)
LoopHead ==
  /\ pc = "head"
  /\ IF GiveUp
     THEN /\ pc' = "failed" /\ st' = [st EXCEPT !.pending = TRUE]
          /\ UNCHANGED <<filter, pass>>
     ELSE LET more   == Registrations(filter)
              newTip == st.last # pass.tip
              s      == ProcessQueues(st, filter)
          IN /\ st' = s /\ filter' = EmptyQueue
             /\ \/ /\ ~st.pending /\ ~more /\ ~newTip
                   /\ pc' = "drain" /\ pass' = [pass EXCEPT !.iter = @ + 1]
                \/ /\ newTip
                   /\ pc' = "unconfirmed"
                   /\ pass' = [pass EXCEPT !.iter = @ + 1, !.todo = Relevant(lis)]
                \/ /\ ~newTip /\ (st.pending \/ more)
                   /\ pc' = "confirmed"
                   /\ pass' = [pass EXCEPT !.iter = @ + 1, !.todo = s.txs, !.outs = s.outs]
  /\ batch' = <<>>
  /\ UNCHANGED <<net, timer, crashes, stored, lis, pending, faults>>

(* get_unconfirmed_transactions: is the block t was confirmed in still in *)
(* the best chain?                                                        *)
CheckRelevant(t) ==
  /\ pc = "unconfirmed" /\ t \in pass.todo
  /\ \/ /\ pass' = [pass EXCEPT !.todo = @ \ {t},
                     !.found = IF InBestChain(lis.conf[t]) THEN @ ELSE @ \cup {t}]
        /\ UNCHANGED <<handler, stored, lis, pending, filter, st, pc, faults>>
     \/ Fail

(* sync_unconfirmed_transactions, as SyncState and as the listeners see it. *)
Unconfirm(s, ts) ==
  [s EXCEPT !.txs = @ \cup ts,
            !.outs = @ \cup {sp.out : sp \in {x \in s.spends : x.tx \in ts}},
            !.spends = {sp \in @ : sp.tx \notin ts}]
(* Bug variant of Disconnect: only SyncState hears of it. *)
DisconnectNobody(l, ts) == l

Disconnect(l, ts) ==
  [l EXCEPT !.conf = [t \in Txs |-> IF t \in ts THEN None ELSE @[t]]]

(* Bug variant of Moved: the tip is not read again. *)
NeverMoved == FALSE

(* The tip is read again: did it move under the requests made since? *)
Moved == tip # pass.tip

TellUnconfirmed ==
  /\ pc = "unconfirmed" /\ pass.todo = {}
  /\ \/ Moved /\ Restart(tip)
     \/ /\ ~Moved
        /\ lis' = Disconnect(lis, pass.found) /\ st' = Unconfirm(st, pass.found)
        /\ pass' = [pass EXCEPT !.found = {}] /\ pc' = "best"
        /\ UNCHANGED <<handler, stored, pending, filter, faults>>
     \/ Fail

(* Bug variant of Prune: a spend is forgotten one block early. *)
PruneEarly(s, height) ==
  [s EXCEPT !.spends = {sp \in @ : height < sp.height + AntiReorgDelay - 2}]

Prune(s, height) ==
  [s EXCEPT !.spends = {sp \in @ : height < sp.height + AntiReorgDelay - 1}]

(* sync_best_block_updated *)
TellBest ==
  /\ pc = "best"
  /\ \/ ~InBestChain(pass.tip) /\ Restart(pass.tip)
     \/ /\ InBestChain(pass.tip)
        /\ lis' = [lis EXCEPT !.best = pass.tip]
        /\ st' = Prune(st, Height[pass.tip])
        /\ pass' = [pass EXCEPT !.todo = st.txs, !.outs = st.outs]
        /\ pc' = "confirmed"
        /\ UNCHANGED <<handler, stored, pending, filter, faults>>
     \/ Fail

-----------------------------------------------------------------------------
(* get_confirmed_transactions *)

IsFound(t) == \E c \in pass.found : c.tx = t

Skip(p)      == pc' = "confirmed" /\ pass' = [p EXCEPT !.cur = None]
Keep(p, t, b) ==
  pc' = "confirmed" /\ pass' = [p EXCEPT !.cur = None, !.found = @ \cup {[tx |-> t, block |-> b]}]

fetched == <<handler, stored, lis, pending, filter, st>>

(* get_confirmed_tx up to the height.  The proof names the block of t, whose *)
(* height is asked for next; there is none, or a failed request reads "not   *)
(* found"; an answer that does not decode or match is an error.              *)
ProofOf(p, t) ==
  /\ BlockOf(t, tip) # None
  /\ pc' = "height" /\ pass' = [p EXCEPT !.cur = [tx |-> t, block |-> BlockOf(t, tip)]]
  /\ UNCHANGED <<fetched, faults>>
NoProofOf(p, t) ==
  \/ BlockOf(t, tip) = None /\ Skip(p) /\ UNCHANGED <<fetched, faults>>
  \/ Fault /\ Skip([p EXCEPT !.missed = @ \cup {t}]) /\ UNCHANGED fetched
  \/ Fail

CheckWatchedTx(t) ==
  LET p == [pass EXCEPT !.todo = @ \ {t}]
  IN /\ pc = "confirmed" /\ t \in pass.todo
     /\ ProofOf(p, t) \/ NoProofOf(p, t)

(* What Esplora may report as the spender of o: the transaction in the best  *)
(* chain, or else one in the mempool, where our claims are not by themselves. *)
Spenders(o)     == {t \in Txs \ {Funding} : Spends[t] = o}
ChainSpender(o) == {t \in Spenders(o) : BlockOf(t, tip) # None}
Spender(o) == IF ChainSpender(o) # {} THEN ChainSpender(o)
              ELSE Spenders(o) \ (Ours \ mempool)

(* get_output_status of a watched output, once the transactions are done. *)
CheckWatchedOutput(o) ==
  LET p == [pass EXCEPT !.outs = @ \ {o}]
      rest == <<fetched, faults>>
  IN /\ pc = "confirmed" /\ pass.todo = {} /\ o \in pass.outs
     /\ \/ ChainSpender(o) = {} /\ Skip(p) /\ UNCHANGED rest
        \/ \E t \in Spender(o) :
             \/ /\ IsFound(t) /\ BlockOf(t, tip) # None
                /\ Skip(p) /\ UNCHANGED rest
             \/ /\ IsFound(t) /\ BlockOf(t, tip) = None
                /\ Restart(pass.tip)
             \/ /\ ~IsFound(t)
                /\ pc' = "proof" /\ UNCHANGED rest
                /\ pass' = [p EXCEPT !.cur = [tx |-> t, block |-> BlockOf(t, tip)]]
        \/ Fail

(* The proof of a spender: one that Esplora reported confirmed must be in the *)
(* block, and then has the height, that it reported.                          *)
GetSpenderProof ==
  LET t == pass.cur.tx
      b == BlockOf(t, tip)
      expected == pass.cur.block
  IN /\ pc = "proof"
     /\ \/ expected = None /\ ProofOf(pass, t)
        \/ expected # None /\ b = expected /\ Keep(pass, t, b) /\ UNCHANGED <<fetched, faults>>
        \/ expected # None /\ b \notin {None, expected} /\ Restart(pass.tip)
        \/ NoProofOf(pass, t)

GetHeight ==
  /\ pc = "height"
  /\ \/ /\ InBestChain(pass.cur.block)
        /\ Keep(pass, pass.cur.tx, pass.cur.block)
        /\ UNCHANGED <<fetched, faults>>
     \/ ~InBestChain(pass.cur.block) /\ Restart(pass.tip)
     \/ Fail

(* sync_confirmed_transactions, as SyncState and as the listeners see it; LDK *)
(* registers the output of a transaction that spends the funding.             *)
Confirm(s, fs) ==
  LET spent == {[tx |-> c.tx, height |-> Height[c.block], out |-> Spends[c.tx]] :
                 c \in {x \in fs : x.tx # Funding /\ Spends[x.tx] \in s.outs}}
  IN [s EXCEPT !.txs = @ \ {c.tx : c \in fs}, !.outs = @ \ {sp.out : sp \in spent},
               !.spends = @ \cup spent]
Claimable(ts) == {t \in ts : \E s \in Ours : Spends[s] = t}
Connect(l, fs) ==
  [l EXCEPT !.conf = [t \in Txs |-> IF \E c \in fs : c.tx = t
                                    THEN (CHOOSE c \in fs : c.tx = t).block ELSE @[t]],
            !.outs = @ \cup Claimable({c.tx : c \in fs})]

(* The claims LDK keeps broadcasting: of a confirmed output that nothing spent. *)
Claims(l) == {s \in Ours : /\ l.conf[Spends[s]] # None
                           /\ \A t \in Spenders(Spends[s]) : l.conf[t] = None}

(* Bug variant of Before: by height alone. *)
BeforeByHeight(x, y) == Height[x.block] < Height[y.block]

Before(x, y) == \/ Height[x.block] < Height[y.block]
                \/ Height[x.block] = Height[y.block] /\ Pos[x.tx] < Pos[y.tx]

(* What an unstable sort makes of fs. *)
Sorted(fs) == {q \in SetToSeqs(fs) : \A i, j \in DOMAIN q : i < j => ~Before(q[j], q[i])}

TellConfirmed ==
  /\ pc = "confirmed" /\ pass.todo = {} /\ pass.outs = {}
  /\ \/ Moved /\ Restart(tip)
     \/ /\ ~Moved
        /\ lis' = Connect(lis, pass.found)
        /\ st' = [Confirm(st, pass.found) EXCEPT !.last = pass.tip, !.pending = FALSE]
        /\ filter' = Register(filter, lis'.outs \ lis.outs)
        /\ pending' = pending \cup (Claims(lis') \ Claims(lis))
        /\ pass' = [pass EXCEPT !.found = {}] /\ batch' \in Sorted(pass.found)
        /\ pc' = "head"
        /\ UNCHANGED <<net, timer, crashes, stored, faults>>
     \/ Fail

-----------------------------------------------------------------------------
(* The alarm handler after the sync *)

(* Bug variant of DrainAndClaim: nothing is broadcast again. *)
DrainOnly ==
  /\ pc = "drain"
  /\ stored' = lis /\ pc' = "flush"
  /\ UNCHANGED <<handler, lis, pending, filter, st, pass, faults>>

(* drainAndFlushMonitors, then prepare_for_claiming rebroadcasts.  The manager,  *)
(* which is taken as one with the monitors, follows only in persistSessionEnd    *)
(* (node.ts:200); an eviction between the two is NodeSession's.                  *)
DrainAndClaim ==
  /\ pc = "drain"
  /\ stored' = lis /\ pending' = pending \cup Claims(lis) /\ pc' = "flush"
  /\ UNCHANGED <<handler, lis, filter, st, pass, faults>>

(* One POST of EsploraBroadcaster.flush; a transaction whose parent is not in *)
(* the chain is refused.  An error is logged and the transaction forgotten.   *)
Broadcast(t) ==
  /\ pc = "flush" /\ t \in pending
  /\ pending' = pending \ {t}
  /\ \/ /\ mempool' = IF BlockOf(Spends[t], tip) # None THEN mempool \cup {t} ELSE mempool
        /\ UNCHANGED faults
     \/ Fault /\ UNCHANGED mempool
  /\ UNCHANGED <<tip, timer, crashes, stored, lis, filter, st, pc, pass, batch>>

(* persistSessionEnd, in the session or in handleSessionFailure; a failed *)
(* session flushes no broadcasts.                                         *)
PersistSessionEnd ==
  /\ pc = "failed" \/ (pc = "flush" /\ pending = {})
  /\ stored' = lis /\ pc' = "reschedule"
  /\ UNCHANGED <<handler, lis, pending, filter, st, pass, faults>>

(* Bug variant of Reschedule: only after a sync that went through. *)
RescheduleOnSuccess ==
  /\ pc = "reschedule"
  /\ alarm' = (alarm \/ (pass.tip # None /\ ~st.pending)) /\ lis' = stored
  /\ EndOfHandler
  /\ UNCHANGED <<net, scheduled, stored, faults, crashes>>

(* The finally of alarm(). *)
Reschedule ==
  /\ pc = "reschedule"
  /\ alarm' = TRUE /\ lis' = stored
  /\ EndOfHandler
  /\ UNCHANGED <<net, scheduled, stored, faults, crashes>>

-----------------------------------------------------------------------------
Sync ==
  \/ GetTip \/ LoopHead \/ TellUnconfirmed \/ TellBest
  \/ GetSpenderProof \/ GetHeight \/ TellConfirmed
  \/ \E t \in Txs : CheckRelevant(t) \/ CheckWatchedTx(t) \/ CheckWatchedOutput(t)

Alarm == \/ AlarmFires \/ Restore \/ Sync \/ DrainAndClaim
         \/ PersistSessionEnd \/ Reschedule \/ \E t \in Ours : Broadcast(t)

Next == \/ Alarm \/ Request \/ Crash \/ \E b \in Blocks : ChainMoves(b)

Spec     == Init /\ [][Next]_vars
(* The platform fires the alarms that are set and runs a handler to its end; *)
(* nothing obliges the chain to move or a request to come.                   *)
FairSpec == Spec /\ WF_vars(Alarm)

-----------------------------------------------------------------------------
(* Properties *)

TypeOK ==
  /\ tip \in Blocks /\ mempool \subseteq Ours /\ pending \subseteq Ours
  /\ alarm \in BOOLEAN /\ scheduled \in BOOLEAN
  /\ stored \in Listeners /\ lis \in Listeners
  /\ filter \in [txs : SUBSET Txs, outs : SUBSET Txs]
  /\ st \in [txs : SUBSET Txs, outs : SUBSET Txs, spends : SUBSET Spend,
             last : Blocks \cup {None}, pending : BOOLEAN]
  /\ pc \in {"idle", "restore", "tip", "head", "unconfirmed", "best", "confirmed",
             "proof", "height", "drain", "flush", "failed", "reschedule"}
  /\ pass.iter \in 0..MaxIterations /\ pass.tip \in Blocks \cup {None}
  /\ faults \in 0..MaxFaults /\ crashes \in 0..MaxCrashes

(* l believes of every transaction and of the tip what the chain of b says. *)
AgreesWith(l, b) == l.best = b /\ \A t \in Txs : l.conf[t] = BlockOf(t, b)

(* When sync() returns Ok, the listeners know exactly the confirmations of  *)
(* the chain that ends in the tip it last saw, whatever moved during the    *)
(* pass, unless a failed request was read as "not found" (esplora.rs:52).   *)
SyncedMeansAgreed == pc = "drain" /\ pass.missed = {} => AgreesWith(lis, pass.tip)

(* During a pass an output the monitor asked for is never forgotten: it is  *)
(* queued, watched, waiting for its spend to be buried, or its spend is     *)
(* buried (common.rs:28-81).                                                *)
NoOutputUnattended ==
  pc \notin {"idle", "restore", "reschedule"} =>
    \A o \in lis.outs :
      \/ o \in filter.outs \cup st.outs
      \/ \E sp \in st.spends : sp.out = o /\ lis.conf[sp.tx] # None
      \/ \E t \in Spenders(o) : lis.conf[t] # None /\ Buried(lis.conf[t], lis.best)

(* Whoever is told of t knows the transaction that t spends: it was confirmed    *)
(* with him, or comes earlier in the same call, or else the request for it failed *)
(* in this pass and was read as "not found".                                      *)
KnowsParent(j) ==
  LET t == batch'[j].tx
  IN t # Funding =>
       \/ lis.conf[Spends[t]] # None
       \/ \E i \in 1..(j - 1) : batch'[i].tx = Spends[t]
       \/ Spends[t] \in pass.missed
ToldInOrder == batch' # batch => \A j \in DOMAIN batch' : KnowsParent(j)

(* The listeners are told of a transaction only when they know the one that it  *)
(* spends, in this call or from an earlier one, in this session or a former one. *)
(* Only a parent whose own request failed may be missing: get_merkle_block and   *)
(* get_tx read a failure as "not found", while the child is found through the    *)
(* watched output (esplora.rs:337-341, client.rs:105).                           *)
ParentsFirst == [][ToldInOrder]_vars

(* A step of a handler that restored the node and still has it. *)
InPass == pc \notin {"idle", "restore", "reschedule"} /\ pc' # "idle"

(* What the listeners are told is true of the chain of the tip the pass is  *)
(* about, which is the best one when it is told: nothing fetched before a   *)
(* move of the chain survives it (esplora.rs:100, 157).                     *)
ToldIsCurrent ==
  [][InPass => \A t \in Txs : lis'.conf[t] # lis.conf[t] =>
                 tip = pass.tip /\ lis'.conf[t] \in {None, BlockOf(t, tip)}]_vars

(* What the listeners know of the chain. *)
View(l) == [conf |-> l.conf, best |-> l.best]

(* sync() keeps the promise of ConfirmListener: told a best block only when  *)
(* all that left its chain was taken back, told of confirmations in that     *)
(* block's chain only, and restored only to what they once were told         *)
(* (common.rs:28-113, esplora.rs:51-165).                                    *)
Contract == INSTANCE ConfirmListener WITH told <- View(lis), saved <- View(stored)
Honours  == Contract!Spec

(* Once an alarm is set there is always an alarm to come or a handler at     *)
(* work, whatever fails in the handler (durable-object.ts:102).             *)
AlarmAlive == [][(alarm \/ pc # "idle") => (alarm' \/ pc' # "idle")]_vars

(* Once an alarm was set, the persisted listeners end up agreeing with the  *)
(* best chain (durable-object.ts:102-146, node.ts:243).                     *)
EventuallySynced == <>alarm => <>[]AgreesWith(stored, tip)

(* A claim of an output that stays in the chain reaches the network, though *)
(* a failed POST loses it from the queue (chain.rs:105).                    *)
ClaimReachesNetwork ==
  \A s \in Ours :
    <>alarm /\ <>[](BlockOf(Spends[s], tip) # None /\ ChainSpender(Spends[s]) = {})
      => <>(s \in mempool)
=============================================================================
