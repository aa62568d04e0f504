---------------------------- MODULE OneTimeToken ----------------------------
(***************************************************************************)
(* What a payer may rely on: a token that was issued can be redeemed until *)
(* its deadline, by whoever paid for it, and by one request only.          *)
(* MppChallenge implements this (Redeemable there).                        *)
(***************************************************************************)
EXTENDS Naturals

CONSTANTS Tokens, Holders

VARIABLES
    clock,
    state,      \* per token: unissued, live, spent, expired
    deadline,   \* per token, once issued
    bought,     \* tokens that were paid for
    admitted    \* <<request, token>> of the requests that were let through

token == <<clock, state, deadline, bought, admitted>>

Fresh ==
    /\ clock = 0
    /\ state = [t \in Tokens |-> "unissued"] /\ deadline = [t \in Tokens |-> 0]
    /\ bought = {} /\ admitted = {}

Issue(t) ==
    /\ state[t] = "unissued"
    /\ state' = [state EXCEPT ![t] = "live"]
    /\ deadline' = [deadline EXCEPT ![t] = deadline'[t]] /\ deadline'[t] >= clock
    /\ UNCHANGED <<clock, bought, admitted>>

Buy(t) ==
    /\ state[t] # "unissued" /\ t \notin bought
    /\ bought' = bought \cup {t}
    /\ UNCHANGED <<clock, state, deadline, admitted>>

Redeem(h, t) ==
    /\ state[t] = "live" /\ t \in bought
    /\ state' = [state EXCEPT ![t] = "spent"]
    /\ admitted' = admitted \cup {<<h, t>>}
    /\ UNCHANGED <<clock, deadline, bought>>

\* Only tokens past their deadline are withdrawn.
Expire(ts) ==
    /\ \A t \in ts : state[t] = "live" /\ deadline[t] < clock
    /\ state' = [t \in Tokens |-> IF t \in ts THEN "expired" ELSE state[t]]
    /\ UNCHANGED <<clock, deadline, bought, admitted>>

Pass == clock' = clock + 1 /\ UNCHANGED <<state, deadline, bought, admitted>>

Step ==
    \/ \E t \in Tokens : Issue(t) \/ Buy(t) \/ \E h \in Holders : Redeem(h, t)
    \/ \E ts \in SUBSET Tokens : Expire(ts)
    \/ Pass

Spec == Fresh /\ [][Step]_token
=============================================================================
