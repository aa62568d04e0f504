---------------------------- MODULE MppChallenge ----------------------------
(***************************************************************************)
(* Pay-per-request: mppCharge (packages/lightning-cloudflare/src/mpp.ts)   *)
(* in the Worker, and the challenges that the Durable Object keeps for it  *)
(* (durable-object.ts: createMppChallenge, verifyMppCredential, and the    *)
(* clean-up of the alarm).                                                 *)
(*                                                                         *)
(* A preimage is right, wrong or malformed; a payer has the right one only *)
(* after paying the invoice of the challenge.                              *)
(***************************************************************************)
EXTENDS Naturals, FiniteSets, Functions

CONSTANTS
    Challenges,    \* challenge ids that may be drawn
    NoId,          \* the id of a request without a credential
    Requests,      \* HTTP requests to a protected endpoint
    TTL,           \* MPP_CHALLENGE_TTL_SECS
    MaxTime,       \* bound on the clock
    DigestYields   \* other requests may run while crypto.subtle.digest is awaited

ASSUME MppAssumption ==
    /\ NoId \notin Challenges
    /\ TTL \in Nat /\ MaxTime \in Nat /\ DigestYields \in BOOLEAN

VARIABLES
    now,       \* the clock, in seconds
    stored,    \* storage: challenge id -> expiresAt
    issued,    \* history: challenge id -> expiresAt, of all challenges ever stored
    paid,      \* challenges whose invoice was paid
    request    \* per request: control point, credential, the clock at its verification

vars == <<now, stored, issued, paid, request>>

Preimages == {"right", "wrong", "malformed"}
Points == {"new", "verify", "digest", "issue", "handler",    \* under way
           "served", "wasted", "challenged", "error"}        \* answered

Request == [pc : Points, id : Challenges \cup {NoId}, preimage : Preimages, began : Nat]

TypeOK ==
    /\ now \in Nat
    /\ DOMAIN stored \subseteq DOMAIN issued /\ DOMAIN issued \subseteq Challenges
    /\ \A c \in DOMAIN stored : stored[c] \in Nat
    /\ \A c \in DOMAIN issued : issued[c] \in Nat
    /\ paid \subseteq DOMAIN issued
    /\ request \in [Requests -> Request]

NoChallenges == [c \in {} |-> 0]

Init ==
    /\ now = 0
    /\ stored = NoChallenges /\ issued = NoChallenges
    /\ paid = {}
    /\ request = [r \in Requests |-> [pc |-> "new", id |-> NoId, preimage |-> "wrong",
                                      began |-> 0]]

-----------------------------------------------------------------------------
Delete(ids) == stored' = Restrict(stored, DOMAIN stored \ ids)

Goto(r, point) == request' = [request EXCEPT ![r].pc = point]

\* Nothing runs in the Durable Object while it awaits a digest, unless that yields.
Free == DigestYields \/ \A r \in Requests : request[r].pc # "digest"

\* A payer pays the invoice of a challenge, at any time the LSP accepts it.
Pay(c) ==
    /\ c \in DOMAIN issued \ paid
    /\ paid' = paid \cup {c}
    /\ UNCHANGED <<now, stored, issued, request>>

Tick ==
    /\ now < MaxTime
    /\ now' = now + 1
    /\ UNCHANGED <<stored, issued, paid, request>>

\* parsePaymentAuthorization finds no credential.
ArriveWithout(r) ==
    /\ request[r].pc = "new"
    /\ Goto(r, "issue")
    /\ UNCHANGED <<now, stored, issued, paid>>

\* A credential for a challenge that was issued (or for one that never was).
ArriveWith(r, id, preimage) ==
    /\ request[r].pc = "new"
    /\ preimage = "right" => id \in paid
    /\ request' = [request EXCEPT ![r].pc = "verify", ![r].id = id, ![r].preimage = preimage]
    /\ UNCHANGED <<now, stored, issued, paid>>

-----------------------------------------------------------------------------
\* Bug variant of Expired: off by one.
ExpiredEarly(expiresAt) == expiresAt <= now

Expired(expiresAt) == expiresAt < now

\* Bug variant of Verify: the expiry of a stored challenge is left to the alarm.
VerifyNoExpiry(r) ==
    /\ request[r].pc = "verify" /\ Free
    /\ \/ /\ request[r].id \notin DOMAIN stored \/ request[r].preimage = "malformed"
          /\ request' = [request EXCEPT ![r].pc = "issue", ![r].began = now]
       \/ /\ request[r].id \in DOMAIN stored
          /\ request[r].preimage # "malformed"
          /\ request' = [request EXCEPT ![r].pc = "digest", ![r].began = now]
    /\ UNCHANGED <<now, stored, issued, paid>>

\* verifyMppCredential up to the digest.  Unknown, expired and malformed
\* credentials are refused, and mppCharge issues a fresh challenge.
Verify(r) ==
    /\ request[r].pc = "verify" /\ Free
    /\ LET id == request[r].id
       IN  \/ /\ id \notin DOMAIN stored
              /\ request' = [request EXCEPT ![r].pc = "issue", ![r].began = now]
              /\ UNCHANGED stored
           \/ /\ id \in DOMAIN stored /\ Expired(stored[id])
              /\ Delete({id})
              /\ request' = [request EXCEPT ![r].pc = "issue", ![r].began = now]
           \/ /\ id \in DOMAIN stored /\ ~Expired(stored[id])
              /\ request' = [request EXCEPT ![r].began = now,
                    ![r].pc = IF request[r].preimage = "malformed" THEN "issue" ELSE "digest"]
              /\ UNCHANGED stored
    /\ UNCHANGED <<now, issued, paid>>

\* Bug variant of Digested: the challenge is not deleted.
DigestedKeeps(r) ==
    /\ request[r].pc = "digest"
    /\ Goto(r, IF request[r].preimage = "right" THEN "handler" ELSE "issue")
    /\ UNCHANGED <<now, stored, issued, paid>>

\* verifyMppCredential after the digest: a match consumes the challenge, whether or
\* not it is still there, and mppCharge calls the handler.
Digested(r) ==
    /\ request[r].pc = "digest"
    /\ \/ /\ request[r].preimage = "right"
          /\ Delete({request[r].id})
          /\ Goto(r, "handler")
       \/ /\ request[r].preimage # "right"
          /\ Goto(r, "issue")
          /\ UNCHANGED stored
    /\ UNCHANGED <<now, issued, paid>>

HandlerReturns(r) ==
    /\ request[r].pc = "handler"
    /\ Goto(r, "served")
    /\ UNCHANGED <<now, stored, issued, paid>>

\* The handler throws, or the answer of the Durable Object does not arrive: 500,
\* and the challenge is consumed.
HandlerThrows(r) ==
    /\ request[r].pc = "handler"
    /\ Goto(r, "wasted")
    /\ UNCHANGED <<now, stored, issued, paid>>

-----------------------------------------------------------------------------
\* Bug variant of ExpiresAt: a wrong sign.
ExpiresBefore == TTL - now

ExpiresAt == now + TTL

\* createMppChallenge: after the checkout and its invoice, one put.
CreateChallenge(r) ==
    /\ request[r].pc = "issue" /\ Free
    /\ \E c \in Challenges \ DOMAIN issued :
        /\ stored' = [d \in DOMAIN stored \cup {c} |-> IF d = c THEN ExpiresAt ELSE stored[d]]
        /\ issued' = [d \in DOMAIN issued \cup {c} |-> IF d = c THEN ExpiresAt ELSE issued[d]]
    /\ Goto(r, "challenged")
    /\ UNCHANGED <<now, paid>>

\* The amount function, the checkout or its invoice fails: 500.
CreateFails(r) ==
    /\ request[r].pc = "issue"
    /\ Goto(r, "error")
    /\ UNCHANGED <<now, stored, issued, paid>>

\* Bug variant of Cleanup: only the first entry is deleted, and only if it expired.
CleanupFirst ==
    /\ Free
    /\ \E c \in DOMAIN stored :
        /\ \A d \in DOMAIN stored : stored[c] >= stored[d]
        /\ Expired(stored[c])
        /\ Delete({c})
    /\ UNCHANGED <<now, issued, paid, request>>

\* The alarm deletes what has expired.
Cleanup ==
    /\ Free
    /\ \E c \in DOMAIN stored : Expired(stored[c])
    /\ Delete({c \in DOMAIN stored : Expired(stored[c])})
    /\ UNCHANGED <<now, issued, paid, request>>

-----------------------------------------------------------------------------
Handling(r) ==
    \/ ArriveWithout(r)
    \/ \E id \in Challenges, preimage \in Preimages : ArriveWith(r, id, preimage)
    \/ Verify(r) \/ Digested(r) \/ HandlerReturns(r) \/ HandlerThrows(r)
    \/ CreateChallenge(r) \/ CreateFails(r)

Next ==
    \/ \E c \in Challenges : Pay(c)
    \/ \E r \in Requests : Handling(r)
    \/ Tick \/ Cleanup

Spec == Init /\ [][Next]_vars

\* The alarm is always rescheduled (durable-object.ts:143), and a digest ends.
FairSpec == Spec /\ WF_vars(Cleanup) /\ \A r \in Requests : WF_vars(Digested(r))

-----------------------------------------------------------------------------
(* Properties. *)

\* Requests that were let through, those with a given challenge among them.
Admitted(r) == request[r].pc \in {"handler", "served", "wasted"}
Redeemers(c) == {r \in Requests : request[r].id = c /\ Admitted(r)}

\* One payment buys one answer: "Each payment is single-use"
\* (packages/lightning-cloudflare/README.md:177).
SingleRedemption ==
    \A c \in Challenges : Cardinality(Redeemers(c)) <= 1

\* The handler runs only for a challenge that was paid, and whose verification
\* started before it expired, whatever the alarm did in between.
RedeemedRightly ==
    \A c \in Challenges : \A r \in Redeemers(c) :
        c \in paid /\ request[r].began <= issued[c]

\* A challenge that is neither redeemed nor expired is there to be redeemed: no
\* failed verification, clean-up or other request takes it away from its payer.
LiveIsStored ==
    \A c \in DOMAIN issued :
        now <= issued[c] /\ Redeemers(c) = {} => c \in DOMAIN stored /\ stored[c] = issued[c]

\* Challenges that expire do not stay in storage.
ExpiredIsCleaned ==
    \A c \in Challenges :
        (c \in DOMAIN stored /\ now > issued[c]) ~> (c \notin DOMAIN stored)

\* The life of a challenge as its payer sees it.
Life(c) ==
    IF c \notin DOMAIN issued THEN "unissued"
    ELSE IF c \in DOMAIN stored THEN "live"
    ELSE IF Redeemers(c) # {} THEN "spent" ELSE "expired"
Deadline(c) == IF c \in DOMAIN issued THEN issued[c] ELSE 0

\* A challenge is a one-time token: issued once, redeemed by one request at most and
\* only when paid, withdrawn unredeemed only past its deadline (durable-object.ts:231-281).
Token == INSTANCE OneTimeToken WITH
    Tokens <- Challenges, Holders <- Requests, clock <- now,
    state <- [c \in Challenges |-> Life(c)], deadline <- [c \in Challenges |-> Deadline(c)],
    bought <- paid, admitted <- {<<r, request[r].id>> : r \in {q \in Requests : Admitted(q)}}
Redeemable == Token!Spec

\* The inductive invariant behind the safety properties.
\* What is stored is what was issued.
StoredInv == \A c \in DOMAIN stored : stored[c] = issued[c]

\* A request gets past its digest with a challenge that had not expired when it
\* was read, and with a right preimage, which only a payer has.
RequestInv ==
    \A r \in Requests :
        /\ request[r].pc = "digest" \/ Admitted(r) =>
              request[r].id \in DOMAIN issued /\ request[r].began <= issued[request[r].id]
        /\ request[r].preimage = "right" => request[r].id \in paid
        /\ Admitted(r) => request[r].preimage = "right"

\* If digests do not let others run, one request at a time is between reading a
\* challenge and deleting it, so that a challenge is gone once it was redeemed.
UseInv ==
    ~DigestYields =>
        \A r, q \in Requests :
            /\ request[r].pc = "digest" /\ request[q].pc = "digest" => r = q
            /\ request[r].pc = "digest" => request[r].id \in DOMAIN stored
            /\ Admitted(r) => request[r].id \notin DOMAIN stored
            /\ Admitted(r) /\ Admitted(q) /\ request[r].id = request[q].id => r = q

MppInv == StoredInv /\ RequestInv /\ LiveIsStored /\ UseInv
=============================================================================
