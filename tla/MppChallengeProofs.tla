------------------------- MODULE MppChallengeProofs -------------------------
(* Proofs about MppChallenge, for any numbers of challenges and requests. *)
EXTENDS MppChallenge, FiniteSetTheorems, TLAPS

USE MppAssumption

\* A request that moves to a point keeps its credential; the others do not change.
LEMMA GotoFacts ==
    ASSUME TypeOK, NEW r \in Requests, NEW point \in Points, Goto(r, point)
    PROVE  /\ request' \in [Requests -> Request]
           /\ request'[r].pc = point
           /\ \A q \in Requests : /\ request'[q].id = request[q].id
                                  /\ request'[q].preimage = request[q].preimage
                                  /\ request'[q].began = request[q].began
           /\ \A q \in Requests \ {r} : request'[q] = request[q]
  BY DEF TypeOK, Goto, Request

\* A request that arrives with a credential changes nothing else.
LEMMA ArriveFacts ==
    ASSUME TypeOK, NEW r \in Requests, NEW id \in Challenges, NEW preimage \in Preimages,
           ArriveWith(r, id, preimage)
    PROVE  /\ request' \in [Requests -> Request]
           /\ request'[r].pc = "verify" /\ request'[r].id = id
           /\ request'[r].preimage = preimage
           /\ \A q \in Requests \ {r} : request'[q] = request[q]
  <1>1. request' \in [Requests -> Request]
    <2>1. [request[r] EXCEPT !.pc = "verify", !.id = id, !.preimage = preimage] \in Request
      BY DEF TypeOK, Request, Points
    <2>2. request' = [request EXCEPT ![r] =
                        [request[r] EXCEPT !.pc = "verify", !.id = id, !.preimage = preimage]]
      BY DEF TypeOK, ArriveWith, Request
    <2> QED
      BY <2>1, <2>2 DEF TypeOK
  <1> QED
    BY <1>1 DEF TypeOK, ArriveWith, Request

\* A verification records the clock, and stops or goes on to the digest.
LEMMA VerifyFacts ==
    ASSUME TypeOK, NEW r \in Requests, Verify(r)
    PROVE  /\ request' \in [Requests -> Request]
           /\ request'[r].pc \in {"issue", "digest"} /\ request'[r].began = now
           /\ request'[r].id = request[r].id /\ request'[r].preimage = request[r].preimage
           /\ request'[r].pc = "digest" =>
                  /\ request[r].id \in DOMAIN stored /\ ~Expired(stored[request[r].id])
                  /\ UNCHANGED stored
           /\ \A q \in Requests \ {r} : request'[q] = request[q]
  BY DEF TypeOK, Verify, Request, Points

\* Deleting challenges leaves the others as they are.
LEMMA DeleteFacts ==
    ASSUME NEW ids, Delete(ids)
    PROVE  /\ DOMAIN stored' = DOMAIN stored \ ids
           /\ \A c \in DOMAIN stored' : stored'[c] = stored[c]
  BY DEF Delete, Restrict

\* A new challenge is added to those that are stored and to those that were issued.
LEMMA CreateFacts ==
    ASSUME TypeOK, NEW r \in Requests, CreateChallenge(r)
    PROVE  \E c \in Challenges \ DOMAIN issued :
              /\ DOMAIN stored' = DOMAIN stored \cup {c}
              /\ DOMAIN issued' = DOMAIN issued \cup {c}
              /\ stored'[c] = now + TTL /\ issued'[c] = now + TTL
              /\ \A d \in DOMAIN stored : stored'[d] = stored[d]
              /\ \A d \in DOMAIN issued : issued'[d] = issued[d]
  BY DEF CreateChallenge, TypeOK, ExpiresAt

-----------------------------------------------------------------------------
LEMMA InitType == Init => TypeOK /\ MppInv
  <1> SUFFICES ASSUME Init PROVE TypeOK /\ MppInv
    OBVIOUS
  <1>1. TypeOK
    BY DEF Init, TypeOK, Request, Points, Preimages, NoChallenges
  <1>2. MppInv
    BY DEF Init, MppInv, StoredInv, RequestInv, LiveIsStored, UseInv, Admitted, Redeemers,
           NoChallenges
  <1> QED
    BY <1>1, <1>2

\* Every step keeps the types.
LEMMA NextType == TypeOK /\ [Next]_vars => TypeOK'
  <1> SUFFICES ASSUME TypeOK, [Next]_vars PROVE TypeOK'
    OBVIOUS
  <1>1. ASSUME NEW c \in Challenges, Pay(c) PROVE TypeOK'
    BY <1>1 DEF TypeOK, Pay
  <1>2. ASSUME NEW r \in Requests, ArriveWithout(r) PROVE TypeOK'
    BY <1>2, GotoFacts DEF TypeOK, ArriveWithout, Points
  <1>3. ASSUME NEW r \in Requests, NEW id \in Challenges, NEW preimage \in Preimages,
               ArriveWith(r, id, preimage)
        PROVE TypeOK'
    BY <1>3, ArriveFacts DEF TypeOK, ArriveWith
  <1>4. ASSUME NEW r \in Requests, Verify(r) PROVE TypeOK'
    <2>1. request' \in [Requests -> Request]
      BY <1>4, VerifyFacts
    <2>2. CASE UNCHANGED stored
      BY <1>4, <2>1, <2>2 DEF TypeOK, Verify
    <2>3. CASE Delete({request[r].id})
      BY <1>4, <2>1, <2>3, DeleteFacts DEF TypeOK, Verify
    <2> QED
      BY <1>4, <2>2, <2>3 DEF Verify
  <1>5. ASSUME NEW r \in Requests, Digested(r) PROVE TypeOK'
    <2>1. request' \in [Requests -> Request]
      BY <1>5, GotoFacts DEF Digested, Points
    <2>2. CASE UNCHANGED stored
      BY <1>5, <2>1, <2>2 DEF TypeOK, Digested
    <2>3. CASE Delete({request[r].id})
      BY <1>5, <2>1, <2>3, DeleteFacts DEF TypeOK, Digested
    <2> QED
      BY <1>5, <2>2, <2>3 DEF Digested
  <1>6. ASSUME NEW r \in Requests, HandlerReturns(r) PROVE TypeOK'
    BY <1>6, GotoFacts DEF TypeOK, HandlerReturns, Points
  <1>7. ASSUME NEW r \in Requests, HandlerThrows(r) PROVE TypeOK'
    BY <1>7, GotoFacts DEF TypeOK, HandlerThrows, Points
  <1>8. ASSUME NEW r \in Requests, CreateChallenge(r) PROVE TypeOK'
    <2>1. request' \in [Requests -> Request]
      BY <1>8, GotoFacts DEF CreateChallenge, Points
    <2>2. UNCHANGED <<now, paid>>
      BY <1>8 DEF CreateChallenge
    <2>3. PICK c \in Challenges \ DOMAIN issued :
              /\ DOMAIN stored' = DOMAIN stored \cup {c}
              /\ DOMAIN issued' = DOMAIN issued \cup {c}
              /\ stored'[c] = now + TTL /\ issued'[c] = now + TTL
              /\ \A d \in DOMAIN stored : stored'[d] = stored[d]
              /\ \A d \in DOMAIN issued : issued'[d] = issued[d]
      BY <1>8, CreateFacts
    <2>4. now + TTL \in Nat
      BY DEF TypeOK, MppAssumption
    <2> QED
      BY <2>1, <2>2, <2>3, <2>4 DEF TypeOK
  <1>9. ASSUME NEW r \in Requests, CreateFails(r) PROVE TypeOK'
    BY <1>9, GotoFacts DEF TypeOK, CreateFails, Points
  <1>10. CASE Tick
    BY <1>10 DEF TypeOK, Tick
  <1>11. CASE Cleanup
    BY <1>11, DeleteFacts DEF TypeOK, Cleanup
  <1>12. CASE UNCHANGED vars
    BY <1>12 DEF TypeOK, vars
  <1> QED
    BY <1>1, <1>2, <1>3, <1>4, <1>5, <1>6, <1>7, <1>8, <1>9, <1>10, <1>11, <1>12
       DEF Next, Handling

-----------------------------------------------------------------------------
\* Steps that leave the challenges alone and admit no request.
LEMMA QuietStep ==
    ASSUME TypeOK, TypeOK', MppInv, UNCHANGED <<now, stored, issued, paid>>,
           \A q \in Requests :
              /\ request'[q].id = request[q].id \/ ~Admitted(q)
              /\ request'[q].pc # "digest" \/ request'[q] = request[q]
              /\ Admitted(q)' <=> Admitted(q)
              /\ request'[q].began = request[q].began \/ ~Admitted(q)
              /\ request'[q].preimage = "right" => request'[q].id \in paid
              /\ Admitted(q) => request'[q].preimage = "right"
    PROVE  MppInv'
  <1>1. StoredInv'
    BY DEF MppInv, StoredInv
  <1>2. RequestInv'
    BY DEF MppInv, RequestInv, Admitted
  <1>3. LiveIsStored'
    BY DEF MppInv, LiveIsStored, Redeemers
  <1>4. UseInv'
    BY DEF MppInv, UseInv, Admitted
  <1> QED
    BY <1>1, <1>2, <1>3, <1>4 DEF MppInv

LEMMA PayStep ==
    ASSUME TypeOK, MppInv, NEW c \in Challenges, Pay(c)
    PROVE  MppInv'
  BY DEF Pay, MppInv, StoredInv, RequestInv, LiveIsStored, UseInv, Admitted, Redeemers

LEMMA TickStep ==
    ASSUME TypeOK, MppInv, Tick
    PROVE  MppInv'
  <1>1. now \in Nat /\ now' = now + 1 /\ \A c \in DOMAIN issued : issued[c] \in Nat
    BY DEF Tick, TypeOK
  <1>2. UNCHANGED <<stored, issued, paid, request>>
    BY DEF Tick
  <1>3. LiveIsStored'
    BY <1>1, <1>2 DEF MppInv, LiveIsStored, Redeemers, Admitted
  <1> QED
    BY <1>2, <1>3 DEF MppInv, StoredInv, RequestInv, UseInv, Admitted

LEMMA GotoStep ==
    ASSUME TypeOK, TypeOK', MppInv, NEW r \in Requests,
           \/ ArriveWithout(r) \/ HandlerReturns(r) \/ HandlerThrows(r) \/ CreateFails(r)
    PROVE  MppInv'
  <1>1. UNCHANGED <<now, stored, issued, paid>>
    BY DEF ArriveWithout, HandlerReturns, HandlerThrows, CreateFails
  <1>2. \E point \in Points \ {"digest"} :
            /\ Goto(r, point)
            /\ Admitted(r) <=> point \in {"handler", "served", "wasted"}
    BY DEF ArriveWithout, HandlerReturns, HandlerThrows, CreateFails, Points, Admitted
  <1> QED
    BY <1>1, <1>2, GotoFacts, QuietStep DEF Admitted, MppInv, RequestInv

LEMMA ArriveStep ==
    ASSUME TypeOK, TypeOK', MppInv, NEW r \in Requests, NEW id \in Challenges,
           NEW preimage \in Preimages, ArriveWith(r, id, preimage)
    PROVE  MppInv'
  <1>1. UNCHANGED <<now, stored, issued, paid>> /\ ~Admitted(r)
        /\ (preimage = "right" => id \in paid)
    BY DEF ArriveWith, Admitted
  <1> QED
    BY <1>1, ArriveFacts, QuietStep DEF Admitted, MppInv, RequestInv

\* A verification that goes on to its digest read a stored challenge that had not
\* expired; one that stops may have deleted an expired one.
LEMMA VerifyStep ==
    ASSUME TypeOK, TypeOK', MppInv, NEW r \in Requests, Verify(r)
    PROVE  MppInv'
  <1>1. UNCHANGED <<now, issued, paid>> /\ ~Admitted(r) /\ Free /\ request[r].pc # "digest"
    BY DEF Verify, Admitted
  <1>2. \A q \in Requests : /\ request'[q].id = request[q].id
                            /\ request'[q].preimage = request[q].preimage
                            /\ Admitted(q)' <=> Admitted(q)
    BY <1>1, VerifyFacts DEF Admitted
  <1>3. \A c \in Challenges : Redeemers(c)' = Redeemers(c)
    BY <1>2 DEF Redeemers
  <1>4. /\ DOMAIN stored' \subseteq DOMAIN stored
        /\ \A c \in DOMAIN stored' : stored'[c] = stored[c]
        /\ \A c \in DOMAIN stored \ DOMAIN stored' : Expired(stored[c])
    <2>1. CASE UNCHANGED stored
      BY <2>1
    <2>2. CASE /\ request[r].id \in DOMAIN stored /\ Expired(stored[request[r].id])
               /\ Delete({request[r].id})
      <3>1. /\ DOMAIN stored' = DOMAIN stored \ {request[r].id}
            /\ \A c \in DOMAIN stored' : stored'[c] = stored[c]
        BY <2>2, DeleteFacts
      <3> QED
        BY <2>2, <3>1
    <2>3. \/ UNCHANGED stored
          \/ /\ request[r].id \in DOMAIN stored /\ Expired(stored[request[r].id])
             /\ Delete({request[r].id})
      BY Zenon DEF Verify
    <2> QED
      BY <2>1, <2>2, <2>3
  <1>5. StoredInv'
    BY <1>1, <1>4 DEF MppInv, StoredInv
  <1>6. RequestInv'
    <2>1. ASSUME request'[r].pc = "digest"
          PROVE  /\ request[r].id \in DOMAIN issued
                 /\ now <= issued[request[r].id] /\ request'[r].began = now
      BY <2>1, VerifyFacts DEF TypeOK, MppInv, StoredInv, Expired
    <2> QED
      BY <1>1, <1>2, <2>1, VerifyFacts DEF MppInv, RequestInv, Admitted
  <1>7. LiveIsStored'
    <2> SUFFICES ASSUME NEW c \in DOMAIN issued, now <= issued[c], Redeemers(c) = {}
                 PROVE  c \in DOMAIN stored' /\ stored'[c] = issued[c]
      BY <1>1, <1>3 DEF LiveIsStored, TypeOK
    <2>1. c \in DOMAIN stored /\ stored[c] = issued[c]
      BY DEF MppInv, LiveIsStored
    <2>2. ~Expired(stored[c])
      <3>1. now \in Nat /\ issued[c] \in Nat
        BY DEF TypeOK
      <3> QED
        BY <2>1, <3>1 DEF Expired
    <2> QED
      BY <1>4, <2>1, <2>2
  <1>8. UseInv'
    <2> SUFFICES ASSUME ~DigestYields, NEW q \in Requests, NEW p \in Requests
                 PROVE  /\ request'[q].pc = "digest" /\ request'[p].pc = "digest" => q = p
                        /\ request'[q].pc = "digest" => request'[q].id \in DOMAIN stored'
                        /\ Admitted(q)' => request'[q].id \notin DOMAIN stored'
                        /\ Admitted(q)' /\ Admitted(p)' /\ request'[q].id = request'[p].id
                              => q = p
      BY DEF UseInv, Admitted
    <2>1. \A s \in Requests \ {r} : request'[s].pc # "digest"
      BY <1>1, VerifyFacts DEF Free
    <2> QED
      BY <1>2, <1>4, <2>1, VerifyFacts DEF MppInv, UseInv
  <1> QED
    BY <1>5, <1>6, <1>7, <1>8 DEF MppInv

\* A digest that matches deletes the challenge it admits the request with.
LEMMA DigestStep ==
    ASSUME TypeOK, TypeOK', MppInv, NEW r \in Requests, Digested(r)
    PROVE  MppInv'
  <1>1. UNCHANGED <<now, issued, paid>> /\ ~Admitted(r) /\ request[r].pc = "digest"
    BY DEF Digested, Admitted
  <1>2. CASE request[r].preimage # "right"
    <2>1. Goto(r, "issue") /\ UNCHANGED stored
      BY <1>2 DEF Digested
    <2> QED
      BY <1>1, <2>1, GotoFacts, QuietStep DEF Admitted, MppInv, RequestInv, Points
  <1>3. CASE request[r].preimage = "right"
    <2>1. Goto(r, "handler") /\ Delete({request[r].id})
      BY <1>3 DEF Digested
    <2>2. /\ DOMAIN stored' = DOMAIN stored \ {request[r].id}
          /\ \A c \in DOMAIN stored' : stored'[c] = stored[c]
      BY <2>1, DeleteFacts
    <2>3. /\ request'[r].pc = "handler"
          /\ \A q \in Requests : /\ request'[q].id = request[q].id
                                 /\ request'[q].preimage = request[q].preimage
                                 /\ request'[q].began = request[q].began
          /\ \A q \in Requests \ {r} : request'[q] = request[q]
      BY <2>1, GotoFacts DEF Points
    <2>4. StoredInv'
      BY <1>1, <2>2 DEF MppInv, StoredInv
    <2>5. RequestInv'
      BY <1>1, <1>3, <2>3 DEF MppInv, RequestInv, Admitted
    <2>6. LiveIsStored'
      <3> SUFFICES ASSUME NEW c \in DOMAIN issued, now <= issued[c], Redeemers(c)' = {}
                   PROVE  c \in DOMAIN stored' /\ stored'[c] = issued[c]
        BY <1>1 DEF LiveIsStored
      <3>1. Redeemers(c) = {} /\ c # request[r].id
        BY <1>1, <2>3 DEF Redeemers, Admitted
      <3>2. c \in DOMAIN stored /\ stored[c] = issued[c]
        BY <3>1 DEF MppInv, LiveIsStored
      <3> QED
        BY <2>2, <3>1, <3>2
    <2>7. UseInv'
      <3> SUFFICES ASSUME ~DigestYields, NEW q \in Requests, NEW p \in Requests
                   PROVE  /\ request'[q].pc = "digest" /\ request'[p].pc = "digest" => q = p
                          /\ request'[q].pc = "digest" => request'[q].id \in DOMAIN stored'
                          /\ Admitted(q)' => request'[q].id \notin DOMAIN stored'
                          /\ Admitted(q)' /\ Admitted(p)' /\ request'[q].id = request'[p].id
                                => q = p
        BY DEF UseInv, Admitted
      <3>1. \A s \in Requests : request'[s].pc # "digest"
        BY <1>1, <2>3 DEF MppInv, UseInv
      <3>2. \A s \in Requests \ {r} : Admitted(s)' => Admitted(s) /\ request[s].id # request[r].id
        BY <1>1, <2>3 DEF MppInv, UseInv, Admitted
      <3>3. Admitted(q)' => request'[q].id \notin DOMAIN stored'
        BY <2>2, <2>3, <3>2 DEF MppInv, UseInv
      <3>4. Admitted(q)' /\ Admitted(p)' /\ request'[q].id = request'[p].id => q = p
        BY <2>3, <3>2 DEF MppInv, UseInv
      <3> QED
        BY <3>1, <3>3, <3>4
    <2> QED
      BY <2>4, <2>5, <2>6, <2>7 DEF MppInv
  <1> QED
    BY <1>2, <1>3

\* A new challenge has an id that no request can have got past its digest with.
LEMMA CreateStep ==
    ASSUME TypeOK, TypeOK', MppInv, NEW r \in Requests, CreateChallenge(r)
    PROVE  MppInv'
  <1>1. UNCHANGED <<now, paid>> /\ ~Admitted(r) /\ Goto(r, "challenged")
    BY DEF CreateChallenge, Admitted
  <1>2. PICK c \in Challenges \ DOMAIN issued :
              /\ DOMAIN stored' = DOMAIN stored \cup {c}
              /\ DOMAIN issued' = DOMAIN issued \cup {c}
              /\ stored'[c] = now + TTL /\ issued'[c] = now + TTL
              /\ \A d \in DOMAIN stored : stored'[d] = stored[d]
              /\ \A d \in DOMAIN issued : issued'[d] = issued[d]
    BY CreateFacts
  <1>3. /\ request'[r].pc = "challenged"
        /\ \A q \in Requests : /\ request'[q].id = request[q].id
                               /\ request'[q].preimage = request[q].preimage
                               /\ request'[q].began = request[q].began
        /\ \A q \in Requests \ {r} : request'[q] = request[q]
    BY <1>1, GotoFacts DEF Points
  <1>4. \A q \in Requests : Admitted(q)' <=> Admitted(q)
    BY <1>1, <1>3 DEF Admitted
  <1>5. \A d \in Challenges : Redeemers(d)' = Redeemers(d)
    BY <1>3, <1>4 DEF Redeemers
  <1>6. StoredInv'
    BY <1>2 DEF MppInv, StoredInv, TypeOK
  <1>7. RequestInv'
    BY <1>1, <1>2, <1>3, <1>4 DEF MppInv, RequestInv, Admitted
  <1>8. LiveIsStored'
    <2> SUFFICES ASSUME NEW d \in DOMAIN issued', now <= issued'[d], Redeemers(d) = {}
                 PROVE  d \in DOMAIN stored' /\ stored'[d] = issued'[d]
      BY <1>1, <1>5 DEF LiveIsStored, TypeOK
    <2>1. CASE d = c
      BY <1>2, <2>1
    <2>2. CASE d \in DOMAIN issued
      BY <1>2, <2>2 DEF MppInv, LiveIsStored
    <2> QED
      BY <1>2, <2>1, <2>2
  <1>9. UseInv'
    BY <1>2, <1>3, <1>4 DEF MppInv, UseInv, RequestInv, Admitted
  <1> QED
    BY <1>6, <1>7, <1>8, <1>9 DEF MppInv

LEMMA CleanupStep ==
    ASSUME TypeOK, MppInv, Cleanup
    PROVE  MppInv'
  <1>1. UNCHANGED <<now, issued, paid, request>> /\ Free
    BY DEF Cleanup
  <1>2. /\ DOMAIN stored' = DOMAIN stored \ {c \in DOMAIN stored : Expired(stored[c])}
        /\ \A c \in DOMAIN stored' : stored'[c] = stored[c]
    BY DeleteFacts DEF Cleanup
  <1>3. StoredInv' /\ RequestInv'
    BY <1>1, <1>2 DEF MppInv, StoredInv, RequestInv, Admitted
  <1>4. LiveIsStored'
    <2> SUFFICES ASSUME NEW c \in DOMAIN issued, now <= issued[c], Redeemers(c) = {}
                 PROVE  c \in DOMAIN stored' /\ stored'[c] = issued[c]
      BY <1>1 DEF LiveIsStored, Redeemers, Admitted
    <2>1. c \in DOMAIN stored /\ stored[c] = issued[c]
      BY DEF MppInv, LiveIsStored
    <2>2. ~Expired(stored[c])
      <3>1. now \in Nat /\ issued[c] \in Nat
        BY DEF TypeOK
      <3> QED
        BY <2>1, <3>1 DEF Expired
    <2> QED
      BY <1>2, <2>1, <2>2
  <1>5. UseInv'
    BY <1>1, <1>2 DEF MppInv, UseInv, Free, Admitted
  <1> QED
    BY <1>3, <1>4, <1>5 DEF MppInv

-----------------------------------------------------------------------------
LEMMA NextInv == TypeOK /\ TypeOK' /\ MppInv /\ [Next]_vars => MppInv'
  <1> SUFFICES ASSUME TypeOK, TypeOK', MppInv, [Next]_vars PROVE MppInv'
    OBVIOUS
  <1>1. CASE UNCHANGED vars
    BY <1>1 DEF vars, MppInv, StoredInv, RequestInv, LiveIsStored, UseInv, Admitted, Redeemers
  <1>2. CASE Next
    BY <1>2, PayStep, TickStep, GotoStep, ArriveStep, VerifyStep, DigestStep, CreateStep,
       CleanupStep DEF Next, Handling
  <1> QED
    BY <1>1, <1>2

\* The types and the inductive invariant hold for any challenges and requests.
THEOREM MppInvariance == Spec => [](TypeOK /\ MppInv)
  BY InitType, NextType, NextInv, PTL DEF Spec

\* TypeOK of MppChallenge.tla: whatever requests overlap, storage, clock and requests
\* have their types.
THEOREM MppType == Spec => []TypeOK
  BY MppInvariance, PTL

\* The handler runs only for challenges that were paid and whose verification began
\* before they expired (verifyMppCredential, alarm).
THEOREM Rightly == Spec => []RedeemedRightly
  <1>1. TypeOK /\ MppInv => RedeemedRightly
    BY DEF MppInv, RequestInv, RedeemedRightly, Redeemers
  <1> QED
    BY <1>1, MppInvariance, PTL

\* No verification, clean-up or new challenge takes a live challenge away.
THEOREM Lives == Spec => []LiveIsStored
  <1>1. MppInv => LiveIsStored
    BY DEF MppInv
  <1> QED
    BY <1>1, MppInvariance, PTL

\* One payment buys one answer, if no request runs while another awaits its digest:
\* reading, comparing and deleting a challenge is then one step.
THEOREM SingleUse ==
    ASSUME ~DigestYields
    PROVE  Spec => []SingleRedemption
  <1>1. TypeOK /\ MppInv => SingleRedemption
    <2> SUFFICES ASSUME MppInv, NEW c \in Challenges
                 PROVE  Cardinality(Redeemers(c)) <= 1
      BY DEF SingleRedemption
    <2>1. \A r, q \in Redeemers(c) : r = q
      BY DEF MppInv, UseInv, Redeemers
    <2>2. CASE Redeemers(c) = {}
      BY <2>2, FS_EmptySet
    <2>3. CASE \E r : Redeemers(c) = {r}
      BY <2>3, FS_Singleton
    <2> QED
      BY <2>1, <2>2, <2>3
  <1> QED
    BY <1>1, MppInvariance, PTL

-----------------------------------------------------------------------------
(* Challenges as one-time tokens, if no request runs during a digest. *)

Entries == {<<r, request[r].id>> : r \in {q \in Requests : Admitted(q)}}

\* Steps that leave challenges, payments and admitted requests alone are stutters.
LEMMA TokenQuiet ==
    ASSUME UNCHANGED <<now, stored, issued, paid>>,
           \A q \in Requests : /\ Admitted(q)' <=> Admitted(q)
                               /\ Admitted(q) => request'[q].id = request[q].id
    PROVE  UNCHANGED Token!token
  <1>1. \A c \in Challenges : Redeemers(c)' = {} <=> Redeemers(c) = {}
    BY DEF Redeemers
  <1>2. \A c \in Challenges : Life(c)' = Life(c) /\ Deadline(c)' = Deadline(c)
    BY <1>1 DEF Life, Deadline
  <1>3. Entries' = Entries
    BY DEF Entries
  <1>4. /\ [c \in Challenges |-> Life(c)]' = [c \in Challenges |-> Life(c)]
        /\ [c \in Challenges |-> Deadline(c)]' = [c \in Challenges |-> Deadline(c)]
    BY <1>2
  <1> QED
    BY <1>3, <1>4 DEF Token!token, Entries

\* What leaves storage past its deadline, unredeemed, is withdrawn.
LEMMA TokenExpires ==
    ASSUME TypeOK, MppInv, ~DigestYields, UNCHANGED <<now, issued, paid>>,
           NEW ids, ids \subseteq DOMAIN stored, Delete(ids), \A c \in ids : Expired(stored[c]),
           \A q \in Requests : /\ Admitted(q)' <=> Admitted(q)
                               /\ request'[q].id = request[q].id
    PROVE  Token!Step
  <1>1. DOMAIN stored' = DOMAIN stored \ ids /\ ids \subseteq Challenges
    BY DeleteFacts DEF TypeOK
  <1>2. \A c \in Challenges : Redeemers(c)' = Redeemers(c)
    BY DEF Redeemers
  <1>3. \A c \in ids : /\ c \in DOMAIN issued /\ stored[c] = issued[c]
                      /\ Redeemers(c) = {} /\ issued[c] < now
    BY DEF MppInv, StoredInv, UseInv, Redeemers, TypeOK, Expired
  <1>4. \A c \in Challenges : Life(c)' = IF c \in ids THEN "expired" ELSE Life(c)
    BY <1>1, <1>2, <1>3 DEF Life
  <1>5. \A c \in ids : Life(c) = "live" /\ Deadline(c) < now
    BY <1>3 DEF Life, Deadline
  <1>6. /\ [c \in Challenges |-> Deadline(c)]' = [c \in Challenges |-> Deadline(c)]
        /\ Entries' = Entries
    BY DEF Deadline, Entries
  <1>7. Token!Expire(ids)
    BY <1>1, <1>4, <1>5, <1>6 DEF Token!Expire, Entries
  <1> QED
    BY <1>1, <1>7 DEF Token!Step

\* A verification refuses, or goes on to its digest, or withdraws what it found expired.
LEMMA TokenVerified ==
    ASSUME TypeOK, MppInv, ~DigestYields, NEW r \in Requests, Verify(r)
    PROVE  [Token!Step]_(Token!token)
  <1>1. UNCHANGED <<now, issued, paid>> /\ ~Admitted(r)
    BY DEF Verify, Admitted
  <1>2. \A q \in Requests : /\ Admitted(q)' <=> Admitted(q)
                            /\ request'[q].id = request[q].id
    BY <1>1, VerifyFacts DEF Admitted
  <1>3. \/ UNCHANGED stored
        \/ /\ request[r].id \in DOMAIN stored /\ Expired(stored[request[r].id])
           /\ Delete({request[r].id})
    BY Zenon DEF Verify
  <1> QED
    BY <1>1, <1>2, <1>3, TokenQuiet, TokenExpires

\* A digest that matches spends a live challenge that was paid.
LEMMA TokenDigested ==
    ASSUME TypeOK, MppInv, ~DigestYields, NEW r \in Requests, Digested(r)
    PROVE  [Token!Step]_(Token!token)
  <1>1. UNCHANGED <<now, issued, paid>> /\ ~Admitted(r) /\ request[r].pc = "digest"
    BY DEF Digested, Admitted
  <1>2. CASE request[r].preimage # "right"
    <2>1. Goto(r, "issue") /\ UNCHANGED stored
      BY <1>2 DEF Digested
    <2>2. \A q \in Requests : /\ Admitted(q)' <=> Admitted(q)
                              /\ request'[q].id = request[q].id
      BY <1>1, <2>1, GotoFacts DEF Admitted, Points
    <2> QED
      BY <1>1, <2>1, <2>2, TokenQuiet
  <1>3. CASE request[r].preimage = "right"
    <2> PICK id : id = request[r].id
      OBVIOUS
    <2>1. Goto(r, "handler") /\ Delete({id})
      BY <1>3 DEF Digested
    <2>2. DOMAIN stored' = DOMAIN stored \ {id}
      BY <2>1, DeleteFacts
    <2>3. /\ Admitted(r)' /\ \A q \in Requests : request'[q].id = request[q].id
          /\ \A q \in Requests \ {r} : Admitted(q)' <=> Admitted(q)
      BY <2>1, GotoFacts DEF Points, Admitted
    <2>4. id \in DOMAIN stored /\ id \in DOMAIN issued /\ id \in Challenges /\ id \in paid
      BY <1>1, <1>3 DEF MppInv, UseInv, RequestInv, TypeOK
    <2>5. \A c \in Challenges \ {id} : Redeemers(c)' = Redeemers(c)
      BY <2>3 DEF Redeemers
    <2>6. Redeemers(id)' # {}
      BY <2>3 DEF Redeemers
    <2>7. Life(id) = "live" /\ Life(id)' = "spent"
      BY <1>1, <2>2, <2>4, <2>6 DEF Life
    <2>8. \A c \in Challenges \ {id} : Life(c)' = Life(c)
      BY <1>1, <2>2, <2>5 DEF Life
    <2>9. [c \in Challenges |-> Life(c)]'
            = [[c \in Challenges |-> Life(c)] EXCEPT ![id] = "spent"]
      BY <2>4, <2>7, <2>8
    <2>10. [c \in Challenges |-> Deadline(c)]' = [c \in Challenges |-> Deadline(c)]
      BY <1>1 DEF Deadline
    <2>11. Entries' = Entries \cup {<<r, id>>}
      BY <1>1, <2>3 DEF Entries
    <2>12. Token!Redeem(r, id)
      BY <1>1, <2>4, <2>7, <2>9, <2>10, <2>11 DEF Token!Redeem, Entries
    <2> QED
      BY <2>4, <2>12 DEF Token!Step
  <1> QED
    BY <1>2, <1>3

\* A new challenge was not issued before, and its deadline is still to come.
LEMMA TokenCreated ==
    ASSUME TypeOK, MppInv, NEW r \in Requests, CreateChallenge(r)
    PROVE  Token!Step
  <1>1. UNCHANGED <<now, paid>> /\ ~Admitted(r) /\ Goto(r, "challenged")
    BY DEF CreateChallenge, Admitted
  <1>2. PICK c \in Challenges \ DOMAIN issued :
              /\ DOMAIN stored' = DOMAIN stored \cup {c}
              /\ DOMAIN issued' = DOMAIN issued \cup {c}
              /\ stored'[c] = now + TTL /\ issued'[c] = now + TTL
              /\ \A d \in DOMAIN stored : stored'[d] = stored[d]
              /\ \A d \in DOMAIN issued : issued'[d] = issued[d]
    BY CreateFacts
  <1>3. \A q \in Requests : Admitted(q)' <=> Admitted(q)
    BY <1>1, GotoFacts DEF Points, Admitted
  <1>4. \A q \in Requests : request'[q].id = request[q].id
    BY <1>1, GotoFacts DEF Points
  <1>5. \A d \in Challenges : Redeemers(d)' = Redeemers(d)
    BY <1>3, <1>4 DEF Redeemers
  <1>6. Life(c) = "unissued" /\ Life(c)' = "live" /\ Deadline(c)' = now + TTL
    BY <1>2 DEF Life, Deadline
  <1>7. \A d \in Challenges \ {c} : Life(d)' = Life(d) /\ Deadline(d)' = Deadline(d)
    BY <1>2, <1>5 DEF Life, Deadline
  <1>8. /\ [d \in Challenges |-> Life(d)]'
             = [[d \in Challenges |-> Life(d)] EXCEPT ![c] = "live"]
        /\ [d \in Challenges |-> Deadline(d)]'
             = [[d \in Challenges |-> Deadline(d)] EXCEPT ![c] = Deadline(c)']
    BY <1>6, <1>7
  <1>9. Deadline(c)' >= now
    BY <1>6 DEF TypeOK, MppAssumption
  <1>10. Entries' = Entries
    BY <1>3, <1>4 DEF Entries
  <1>11. Token!Issue(c)
    BY <1>1, <1>6, <1>8, <1>9, <1>10 DEF Token!Issue, Entries
  <1> QED
    BY <1>11 DEF Token!Step

\* Time and payments pass through.
LEMMA TokenOutside ==
    ASSUME TypeOK, Tick \/ \E c \in Challenges : Pay(c)
    PROVE  Token!Step
  <1>1. UNCHANGED <<stored, issued, request>>
    BY DEF Tick, Pay
  <1>2. /\ [c \in Challenges |-> Life(c)]' = [c \in Challenges |-> Life(c)]
        /\ [c \in Challenges |-> Deadline(c)]' = [c \in Challenges |-> Deadline(c)]
        /\ Entries' = Entries
    BY <1>1 DEF Life, Deadline, Redeemers, Entries, Admitted
  <1>3. CASE Tick
    <2>1. Token!Pass
      BY <1>2, <1>3 DEF Tick, Token!Pass, Entries
    <2> QED
      BY <2>1 DEF Token!Step
  <1>4. ASSUME NEW c \in Challenges, Pay(c) PROVE Token!Step
    <2>1. Token!Buy(c)
      BY <1>2, <1>4 DEF Pay, Token!Buy, Entries, Life
    <2> QED
      BY <2>1 DEF Token!Step
  <1> QED
    BY <1>3, <1>4

\* Every step of the requests and of the alarm is a step of the tokens, or none.
LEMMA TokenStep ==
    ASSUME TypeOK, MppInv, ~DigestYields, [Next]_vars
    PROVE  [Token!Step]_(Token!token)
  <1>1. CASE UNCHANGED vars
    BY <1>1, TokenQuiet DEF vars, Admitted
  <1>2. ASSUME NEW r \in Requests,
               ArriveWithout(r) \/ HandlerReturns(r) \/ HandlerThrows(r) \/ CreateFails(r)
        PROVE  UNCHANGED Token!token
    <2>1. UNCHANGED <<now, stored, issued, paid>>
      BY <1>2 DEF ArriveWithout, HandlerReturns, HandlerThrows, CreateFails
    <2>2. \E point \in Points :
              /\ Goto(r, point)
              /\ Admitted(r) <=> point \in {"handler", "served", "wasted"}
      BY <1>2 DEF ArriveWithout, HandlerReturns, HandlerThrows, CreateFails, Points, Admitted
    <2> QED
      BY <2>1, <2>2, GotoFacts, TokenQuiet DEF Admitted
  <1>3. ASSUME NEW r \in Requests, NEW id \in Challenges, NEW preimage \in Preimages,
               ArriveWith(r, id, preimage)
        PROVE  UNCHANGED Token!token
    <2>1. UNCHANGED <<now, stored, issued, paid>> /\ ~Admitted(r)
      BY <1>3 DEF ArriveWith, Admitted
    <2> QED
      BY <1>3, <2>1, ArriveFacts, TokenQuiet DEF Admitted
  <1>4. CASE Cleanup
    <2>1. UNCHANGED <<now, issued, paid, request>>
      BY <1>4 DEF Cleanup
    <2>2. \A q \in Requests : (Admitted(q)' <=> Admitted(q)) /\ request'[q].id = request[q].id
      BY <2>1 DEF Admitted
    <2> DEFINE ids == {c \in DOMAIN stored : Expired(stored[c])}
    <2>3. Delete(ids) /\ ids \subseteq DOMAIN stored /\ \A c \in ids : Expired(stored[c])
      BY <1>4 DEF Cleanup
    <2> HIDE DEF ids
    <2> QED
      BY <2>1, <2>2, <2>3, TokenExpires
  <1> QED
    BY <1>1, <1>2, <1>3, <1>4, TokenVerified, TokenDigested, TokenCreated, TokenOutside
       DEF Next, Handling

\* A fresh object has issued no token.
LEMMA TokenInit == Init => Token!Fresh
  BY DEF Init, Token!Fresh, Life, Deadline, Admitted, NoChallenges

\* If no request runs while another awaits its digest, a challenge is a one-time token:
\* it is redeemed once, by a request of who paid, and withdrawn only past its deadline
\* (createMppChallenge, verifyMppCredential, alarm).
THEOREM TokenHonoured ==
    ASSUME ~DigestYields
    PROVE  Spec => Redeemable
  <1>1. TypeOK /\ MppInv /\ [Next]_vars => [Token!Step]_(Token!token)
    BY TokenStep
  <1> QED
    BY <1>1, TokenInit, MppInvariance, PTL DEF Spec, Redeemable, Token!Spec
=============================================================================
