---------------------------- MODULE DurableNode ----------------------------
(***************************************************************************)
(* What the rest of the system may rely on, whatever happens to a session: *)
(* the node's durable channel states only advance, the peer is told only   *)
(* states that are durable, and a payment is reported only when its        *)
(* preimage is durable.  NodeSession implements this (Implements there).   *)
(***************************************************************************)
EXTENDS Naturals

CONSTANT Channels

VARIABLES
    durable,    \* update id on disk, per channel
    revealed,   \* update id the peer knows of, per channel
    reported    \* claims returned to the caller: <<channel, update id>>

vars == <<durable, revealed, reported>>

Init ==
    /\ durable = [c \in Channels |-> 0]
    /\ revealed = [c \in Channels |-> 0]
    /\ reported = {}

\* Some channels advance on disk, several at once.
Persist ==
    /\ durable' \in [Channels -> Nat]
    /\ \A c \in Channels : durable[c] <= durable'[c]
    /\ UNCHANGED <<revealed, reported>>

\* Messages leave for the peer.
Reveal ==
    /\ revealed' \in [Channels -> Nat]
    /\ \A c \in Channels : revealed[c] <= revealed'[c] /\ revealed'[c] <= durable[c]
    /\ UNCHANGED <<durable, reported>>

\* A session hands its claims to the caller.
Report ==
    /\ reported \subseteq reported'
    /\ \A p \in reported' : p[1] \in Channels /\ p[2] <= durable[p[1]]
    /\ UNCHANGED <<durable, revealed>>

Next == Persist \/ Reveal \/ Report

Spec == Init /\ [][Next]_vars
=============================================================================
