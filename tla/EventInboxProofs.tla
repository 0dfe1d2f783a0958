-------------------------- MODULE EventInboxProofs --------------------------
(* Proofs about EventInbox for every value of its constants.

   InboxInv is inductive: types, the tokens processes hold against the token of
   the row, and the occurrences against the payload that was stored. *)
EXTENDS EventInbox, TLAPS

\* A process holds a token that was handed out for its event, never a later one.
TokensWereHandedOut ==
    \A w \in Processes : claim[w] # None => claim[w].token <= inbox[claim[w].event].token

\* Nothing is known of an event before its first record.
AbsentEventsAreBlank ==
    \A e \in Events : inbox[e].state = "ABSENT" => inbox[e] = AbsentEvent

InboxInv ==
    /\ TypeOK
    /\ TokensWereHandedOut
    /\ ClaimsAreFenced
    /\ AbsentEventsAreBlank
    /\ OccurrencesExplainInbox

-----------------------------------------------------------------------------
\* The instants a caller may pass are integers, none later than the present.
LEMMA NowIsPast ==
    ASSUME TypeOK, NEW t \in Now
    PROVE  t \in Int /\ t <= clock
BY InboxBoundsAssumption DEF TypeOK, Now, Clock

\* A claim call looks at events.
LEMMA ScopesAreEvents == \A scope \in Scopes : scope \subseteq Events
BY DEF Scopes

\* None is no instant, no owner and no payload.
LEMMA NoneIsNoValue ==
    /\ \A i \in Int : i # None
    /\ \A w \in Processes : WorkerId[w] \in WorkerIds /\ WorkerId[w] # None
    /\ \A d \in Deliveries : /\ EventOf[d] \in Events /\ ReceivedAt[d] \in Nat
                             /\ DigestOf[d] \in Digests /\ DigestOf[d] # None
    /\ Lease \in Nat \ {0}
BY InboxConstantsAssumption, InboxBoundsAssumption, InboxNoneAssumption

\* The first record of an event gives a row without a lease.
LEMMA AcceptedType ==
    ASSUME NEW d \in Deliveries
    PROVE  /\ Accepted(d) \in InboxRecord
           /\ Accepted(d).state = "VERIFIED"
           /\ Accepted(d).owner = None /\ Accepted(d).lease_until = None
           /\ Accepted(d).token = 0
           /\ Accepted(d).digest = DigestOf[d] /\ Accepted(d).created_at = ReceivedAt[d]
PROOF
<1>1. AbsentEvent \in InboxRecord
  BY DEF AbsentEvent, InboxRecord
<1>2. AbsentEvent.owner = None /\ AbsentEvent.lease_until = None /\ AbsentEvent.token = 0
  BY DEF AbsentEvent
<1>3. /\ ReceivedAt[d] \in Int
      /\ DigestOf[d] \in Digests
  BY NoneIsNoValue
<1>4. Accepted(d) \in InboxRecord
  BY <1>1, <1>3 DEF Accepted, InboxRecord, InboxState
<1>5. QED
  BY <1>1, <1>2, <1>4 DEF Accepted, InboxRecord

\* Every row is a record of the inbox.
LEMMA RowType ==
    ASSUME TypeOK, NEW e \in Events
    PROVE  inbox[e] \in InboxRecord /\ inbox[e].token \in Nat
BY DEF TypeOK, InboxRecord

\* A conflict gives a row without a lease, with the payload it had.
LEMMA ConflictedType ==
    ASSUME TypeOK, NEW e \in Events, NEW d \in Deliveries
    PROVE  /\ Conflicted(e, d) \in InboxRecord
           /\ Conflicted(e, d).state = "CONFLICT"
           /\ Conflicted(e, d).owner = None /\ Conflicted(e, d).lease_until = None
           /\ Conflicted(e, d).token >= inbox[e].token
           /\ Conflicted(e, d).digest = inbox[e].digest
           /\ Conflicted(e, d).created_at = inbox[e].created_at
PROOF
<1>1. inbox[e] \in InboxRecord /\ inbox[e].token \in Nat
  BY RowType
<1> DEFINE k == inbox[e].token + (IF inbox[e].owner # None THEN 1 ELSE 0)
<1>2. k \in Nat /\ k >= inbox[e].token
  BY <1>1
<1>3. Conflicted(e, d) = [inbox[e] EXCEPT !.state = "CONFLICT", !.owner = None,
                                          !.lease_until = None, !.token = k]
  BY DEF Conflicted
<1> HIDE DEF k
<1>4. Conflicted(e, d) \in InboxRecord
  BY <1>1, <1>2, <1>3 DEF InboxRecord, InboxState
<1>5. QED
  BY <1>1, <1>2, <1>3, <1>4 DEF InboxRecord

\* A claim gives a row with a full lease and the next token.
LEMMA ClaimedType ==
    ASSUME TypeOK, NEW e \in Events, NEW w \in Processes, NEW t \in Int
    PROVE  /\ Claimed(e, w, t) \in InboxRecord
           /\ Claimed(e, w, t).state = "PROCESSING"
           /\ Claimed(e, w, t).owner # None /\ Claimed(e, w, t).lease_until # None
           /\ Claimed(e, w, t).token = inbox[e].token + 1
           /\ Claimed(e, w, t).digest = inbox[e].digest
           /\ Claimed(e, w, t).created_at = inbox[e].created_at
PROOF
<1>1. inbox[e] \in InboxRecord /\ inbox[e].token + 1 \in Nat
  BY RowType
<1>2. t + Lease \in Int /\ WorkerId[w] \in WorkerIds
  BY NoneIsNoValue
<1>3. t + Lease # None /\ WorkerId[w] # None
  BY <1>2, NoneIsNoValue
<1>4. QED
  BY <1>1, <1>2, <1>3 DEF Claimed, InboxRecord, InboxState

\* The row a heartbeat writes.
Renewed(e, t) ==
    [inbox[e] EXCEPT !.lease_until = IF t + Lease > @ THEN t + Lease ELSE @]

\* A heartbeat keeps everything but the end of the lease.
LEMMA RenewedType ==
    ASSUME TypeOK, NEW e \in Events, NEW t \in Int, inbox[e].state = "PROCESSING"
    PROVE  /\ Renewed(e, t) \in InboxRecord
           /\ Renewed(e, t).state = "PROCESSING"
           /\ Renewed(e, t).owner # None /\ Renewed(e, t).lease_until # None
           /\ Renewed(e, t).token = inbox[e].token
           /\ Renewed(e, t).digest = inbox[e].digest
           /\ Renewed(e, t).created_at = inbox[e].created_at
PROOF
<1>1. inbox[e] \in InboxRecord /\ inbox[e].owner # None /\ inbox[e].lease_until # None
  BY DEF TypeOK
<1>2. t + Lease \in Int /\ t + Lease # None
  BY NoneIsNoValue
<1>3. QED
  BY <1>1, <1>2 DEF Renewed, InboxRecord, InboxState

\* Leaving PROCESSING gives the lease up and keeps the token.
LEMMA ClosedType ==
    ASSUME TypeOK, NEW e \in Events, NEW s \in InboxState
    PROVE  /\ Closed(e, s) \in InboxRecord
           /\ Closed(e, s).state = s
           /\ Closed(e, s).owner = None /\ Closed(e, s).lease_until = None
           /\ Closed(e, s).token = inbox[e].token
           /\ Closed(e, s).digest = inbox[e].digest
           /\ Closed(e, s).created_at = inbox[e].created_at
PROOF
<1>1. inbox[e] \in InboxRecord
  BY RowType
<1>2. QED
  BY <1>1 DEF Closed, InboxRecord

-----------------------------------------------------------------------------
\* A step that writes one inbox row and no occurrence keeps InboxInv when the new
\* row is well formed, keeps the payload, and no claim outruns its token.
LEMMA RowStep ==
    ASSUME InboxInv, NEW e \in Events, NEW r \in InboxRecord,
           inbox' = [inbox EXCEPT ![e] = r],
           r.state \in InboxState,
           r.state = "PROCESSING" => r.owner # None /\ r.lease_until # None,
           r.state # "PROCESSING" => r.owner = None /\ r.lease_until = None,
           r.token >= inbox[e].token,
           r.digest = inbox[e].digest, r.created_at = inbox[e].created_at,
           inbox[e].state # "ABSENT",
           UNCHANGED <<clock, occurrence, application>>,
           \/ UNCHANGED claim
           \/ \E w \in Processes :
                 /\ claim' = [claim EXCEPT ![w] = [event |-> e, token |-> r.token]]
                 /\ r.token > inbox[e].token
    PROVE  InboxInv'
PROOF
<1> USE DEF InboxInv
<1>1. \A f \in Events : inbox'[f] = IF f = e THEN r ELSE inbox[f]
  BY DEF TypeOK
<1>2. \A f \in Events : inbox[f].token \in Nat /\ inbox'[f].token \in Nat
                        /\ inbox[f].token <= inbox'[f].token
  BY <1>1 DEF TypeOK, InboxRecord
<1>3. claim' \in [Processes -> ClaimRecord \cup {None}]
  <2>1. [event |-> e, token |-> r.token] \in ClaimRecord
    BY DEF ClaimRecord, InboxRecord
  <2>2. QED
    BY <2>1 DEF TypeOK
<1>4. TypeOK'
  <2>1. inbox' \in [Events -> InboxRecord]
    BY DEF TypeOK
  <2>2. \A f \in Events :
           /\ inbox'[f].state = "PROCESSING" => inbox'[f].owner # None /\ inbox'[f].lease_until # None
           /\ inbox'[f].state # "PROCESSING" => inbox'[f].owner = None /\ inbox'[f].lease_until = None
    BY <1>1 DEF TypeOK
  <2>3. QED
    BY <1>3, <2>1, <2>2 DEF TypeOK
<1>5. TokensWereHandedOut'
  <2>1. SUFFICES ASSUME NEW w \in Processes, claim'[w] # None
                 PROVE  claim'[w].token <= inbox'[claim'[w].event].token
    BY DEF TokensWereHandedOut
  <2>2. CASE claim'[w] = claim[w]
    <3>1. claim[w] \in ClaimRecord
      BY <2>1, <2>2 DEF TypeOK
    <3>2. claim[w].token \in Nat /\ claim[w].event \in Events
      BY <3>1 DEF ClaimRecord
    <3>3. claim[w].token <= inbox[claim[w].event].token
      BY <2>1, <2>2 DEF TokensWereHandedOut
    <3>4. QED
      BY <1>2, <2>2, <3>2, <3>3
  <2>3. CASE claim'[w] # claim[w]
    <3>1. claim'[w] = [event |-> e, token |-> r.token]
      BY <2>3 DEF TypeOK
    <3>2. QED
      BY <1>1, <1>2, <3>1
  <2>4. QED
    BY <2>2, <2>3
<1>6. ClaimsAreFenced'
  <2>1. CASE UNCHANGED claim
    BY <2>1 DEF ClaimsAreFenced
  <2>2. ASSUME NEW w \in Processes,
               claim' = [claim EXCEPT ![w] = [event |-> e, token |-> r.token]],
               r.token > inbox[e].token
        PROVE  ClaimsAreFenced'
    <3>1. \A x \in Processes \ {w} : claim'[x] = claim[x]
      BY <2>2
    <3>2. claim'[w] = [event |-> e, token |-> r.token]
      BY <2>2 DEF TypeOK
    <3>3. \A x \in Processes : claim[x] # None => claim[x] # [event |-> e, token |-> r.token]
      <4>1. SUFFICES ASSUME NEW x \in Processes, claim[x] = [event |-> e, token |-> r.token],
                            claim[x] # None
                     PROVE  FALSE
        OBVIOUS
      <4>2. r.token <= inbox[e].token
        BY <4>1 DEF TokensWereHandedOut
      <4>3. QED
        BY <1>1, <1>2, <2>2, <4>2
    <3>4. QED
      BY <3>1, <3>2, <3>3 DEF ClaimsAreFenced
  <2>3. QED
    BY <2>1, <2>2
<1>7. AbsentEventsAreBlank'
  <2>1. \A f \in Events : inbox'[f].state = "ABSENT" => f # e
    BY <1>1 DEF InboxState
  <2>2. QED
    BY <1>1, <2>1 DEF AbsentEventsAreBlank
<1>8. OccurrencesExplainInbox'
  <2>1. \A f \in Events : /\ inbox'[f].digest = inbox[f].digest
                          /\ inbox'[f].created_at = inbox[f].created_at
                          /\ inbox'[f].state # "ABSENT" <=> inbox[f].state # "ABSENT"
    BY <1>1 DEF InboxState
  <2>2. \A d \in Deliveries : EventOf[d] \in Events
    BY NoneIsNoValue
  <2>3. QED
    BY <2>1, <2>2 DEF OccurrencesExplainInbox, Registered
<1>9. QED
  BY <1>4, <1>5, <1>6, <1>7, <1>8

-----------------------------------------------------------------------------
\* An empty store keeps InboxInv.
LEMMA InboxInvInit == Init => InboxInv
PROOF
<1> SUFFICES ASSUME Init PROVE InboxInv
  OBVIOUS
<1>1. AbsentEvent \in InboxRecord /\ AbsentEvent.state = "ABSENT"
      /\ AbsentEvent.owner = None /\ AbsentEvent.lease_until = None
  BY DEF AbsentEvent, InboxRecord
<1>2. AbsentApplication \in ApplicationRecord
  BY DEF AbsentApplication, ApplicationRecord
<1>3. TypeOK
  BY <1>1, <1>2, InboxBoundsAssumption DEF Init, InboxInit, TypeOK, Clock
<1>4. TokensWereHandedOut /\ ClaimsAreFenced
  BY DEF Init, InboxInit, TokensWereHandedOut, ClaimsAreFenced
<1>5. AbsentEventsAreBlank
  BY DEF Init, InboxInit, AbsentEventsAreBlank
<1>6. OccurrencesExplainInbox
  <2>1. \A d \in Deliveries : occurrence[d] = None /\ occurrence[d] # "ACCEPTED"
    BY InboxNoneAssumption DEF Init, InboxInit, OccurrenceKind
  <2>2. \A e \in Events : ~Registered(e)
    BY <1>1 DEF Init, InboxInit, Registered
  <2>3. QED
    BY <2>1, <2>2 DEF OccurrencesExplainInbox
<1>7. QED
  BY <1>3, <1>4, <1>5, <1>6 DEF InboxInv

\* Registering a record keeps InboxInv: a first one creates the row, a copy leaves
\* it alone, a conflicting one stops it and keeps the payload.
LEMMA RegisterKeepsInbox ==
    ASSUME InboxInv, NEW d \in Deliveries, RegisterEvent(d)
    PROVE  InboxInv'
PROOF
<1> DEFINE e == EventOf[d]
           r == CASE KindOf(d) = "ACCEPTED"  -> Accepted(d)
                  [] KindOf(d) = "DUPLICATE" -> inbox[e]
                  [] OTHER                   -> Conflicted(e, d)
<1>1. e \in Events
  BY NoneIsNoValue
<1>2. TypeOK /\ TokensWereHandedOut /\ ClaimsAreFenced /\ AbsentEventsAreBlank
      /\ OccurrencesExplainInbox
  BY DEF InboxInv
<1>3. inbox' = [inbox EXCEPT ![e] = r]
  BY DEF RegisterEvent
<1>4. occurrence' = [occurrence EXCEPT ![d] = KindOf(d)] /\ occurrence[d] = None
      /\ UNCHANGED <<clock, claim, application>>
  BY DEF RegisterEvent
<1>5. KindOf(d) \in OccurrenceKind /\ KindOf(d) # None
  BY InboxNoneAssumption, <1>2, <1>4 DEF KindOf, OccurrenceKind
<1>6. /\ r \in InboxRecord /\ r.state \in InboxState
      /\ r.state = "PROCESSING" => r.owner # None /\ r.lease_until # None
      /\ r.state # "PROCESSING" => r.owner = None /\ r.lease_until = None
      /\ r.token >= inbox[e].token
  <2>1. CASE KindOf(d) = "ACCEPTED"
    <3>1. inbox[e] = AbsentEvent
      BY <1>1, <1>2, <2>1 DEF KindOf, Registered, AbsentEventsAreBlank
    <3>2. inbox[e].token = 0
      BY <3>1 DEF AbsentEvent
    <3>3. QED
      BY <2>1, <3>2, AcceptedType DEF InboxState
  <2>2. CASE KindOf(d) = "DUPLICATE"
    <3>1. r = inbox[e] /\ inbox[e].state # "ABSENT"
      BY <2>2 DEF KindOf, Registered
    <3>2. inbox[e] \in InboxRecord /\ inbox[e].token \in Nat
      BY <1>1, <1>2, RowType
    <3>3. inbox[e].state \in InboxState
      BY <3>1, <3>2 DEF InboxRecord
    <3>4. QED
      BY <1>1, <1>2, <3>1, <3>2, <3>3 DEF TypeOK
  <2>3. CASE KindOf(d) \notin {"ACCEPTED", "DUPLICATE"}
    <3>1. r = Conflicted(e, d)
      BY <2>3
    <3>2. QED
      BY <1>1, <1>2, <3>1, ConflictedType DEF InboxState
  <2>4. QED
    BY <2>1, <2>2, <2>3
<1>7. /\ KindOf(d) = "ACCEPTED" => /\ ~Registered(e)
                                   /\ r.digest = DigestOf[d] /\ r.created_at = ReceivedAt[d]
      /\ KindOf(d) # "ACCEPTED" => /\ Registered(e)
                                   /\ r.digest = inbox[e].digest
                                   /\ r.created_at = inbox[e].created_at
                                   /\ KindOf(d) = "CONFLICT" <=> inbox[e].digest # DigestOf[d]
  <2>1. CASE KindOf(d) = "ACCEPTED"
    BY <2>1, AcceptedType DEF KindOf
  <2>2. CASE KindOf(d) # "ACCEPTED"
    <3>1. Registered(e) /\ (KindOf(d) = "CONFLICT" <=> inbox[e].digest # DigestOf[d])
          /\ KindOf(d) \in {"DUPLICATE", "CONFLICT"}
      BY <2>2 DEF KindOf
    <3>2. r = inbox[e] \/ r = Conflicted(e, d)
      BY <2>2
    <3>3. QED
      BY <1>1, <1>2, <2>2, <3>1, <3>2, ConflictedType
  <2>3. QED
    BY <2>1, <2>2
<1> HIDE DEF r
<1>8. \A f \in Events : inbox'[f] = IF f = e THEN r ELSE inbox[f]
  BY <1>1, <1>2, <1>3 DEF TypeOK
<1>9. \A c \in Deliveries : occurrence'[c] = IF c = d THEN KindOf(d) ELSE occurrence[c]
  BY <1>2, <1>4 DEF TypeOK
<1>10. TypeOK'
  <2>1. inbox' \in [Events -> InboxRecord]
    BY <1>2, <1>3, <1>6 DEF TypeOK
  <2>2. occurrence' \in [Deliveries -> OccurrenceKind \cup {None}]
    BY <1>2, <1>4, <1>5 DEF TypeOK
  <2>3. \A f \in Events :
           /\ inbox'[f].state = "PROCESSING" => inbox'[f].owner # None /\ inbox'[f].lease_until # None
           /\ inbox'[f].state # "PROCESSING" => inbox'[f].owner = None /\ inbox'[f].lease_until = None
    BY <1>2, <1>6, <1>8 DEF TypeOK
  <2>4. QED
    BY <1>2, <1>4, <2>1, <2>2, <2>3 DEF TypeOK
<1>11. TokensWereHandedOut'
  <2>1. SUFFICES ASSUME NEW w \in Processes, claim[w] # None
                 PROVE  claim[w].token <= inbox'[claim[w].event].token
    BY <1>4 DEF TokensWereHandedOut
  <2>2. claim[w].token \in Nat /\ claim[w].event \in Events
    BY <1>2, <2>1 DEF TypeOK, ClaimRecord
  <2>3. claim[w].token <= inbox[claim[w].event].token
    BY <1>2, <2>1 DEF TokensWereHandedOut
  <2>4. \A f \in Events : inbox[f].token \in Nat /\ inbox'[f].token \in Nat
                          /\ inbox[f].token <= inbox'[f].token
    BY <1>2, <1>6, <1>8, RowType DEF InboxRecord
  <2>5. QED
    BY <2>2, <2>3, <2>4
<1>12. ClaimsAreFenced' /\ AbsentEventsAreBlank'
  BY <1>2, <1>4, <1>6, <1>8 DEF ClaimsAreFenced, AbsentEventsAreBlank, InboxState
<1>13. \A f \in Events : Registered(f)' <=> Registered(f) \/ f = e
  BY <1>6, <1>8 DEF Registered, InboxState
<1>14. OccurrencesExplainInbox'
  <2>1. \A f \in Events : Registered(f)' =>
           \E c \in Deliveries : EventOf[c] = f /\ occurrence'[c] = "ACCEPTED"
    <3>1. SUFFICES ASSUME NEW f \in Events, Registered(f)'
                   PROVE  \E c \in Deliveries : EventOf[c] = f /\ occurrence'[c] = "ACCEPTED"
      OBVIOUS
    <3>2. CASE Registered(f)
      <4>1. PICK c \in Deliveries : EventOf[c] = f /\ occurrence[c] = "ACCEPTED"
        BY <1>2, <3>2 DEF OccurrencesExplainInbox
      <4>2. c # d
        BY <1>4, <4>1, InboxNoneAssumption DEF OccurrenceKind
      <4>3. QED
        BY <1>9, <4>1, <4>2
    <3>3. CASE ~Registered(f)
      <4>1. f = e
        BY <1>13, <3>1, <3>3
      <4>2. KindOf(d) = "ACCEPTED"
        BY <1>7, <3>3, <4>1
      <4>3. QED
        BY <1>9, <4>1, <4>2
    <3>4. QED
      BY <3>2, <3>3
  <2>2. \A c, f \in Deliveries :
           EventOf[c] = EventOf[f] /\ occurrence'[c] = "ACCEPTED" /\ occurrence'[f] = "ACCEPTED"
           => c = f
    <3>1. \A c \in Deliveries : EventOf[c] = e /\ occurrence[c] # None => Registered(e)
      BY <1>2 DEF OccurrencesExplainInbox
    <3>2. \A c \in Deliveries : EventOf[c] = e /\ occurrence[c] = "ACCEPTED" => Registered(e)
      BY <3>1, InboxNoneAssumption DEF OccurrenceKind
    <3>3. QED
      BY <1>2, <1>7, <1>9, <3>2 DEF OccurrencesExplainInbox
  <2>3. \A c \in Deliveries : occurrence'[c] # None =>
           /\ Registered(EventOf[c])'
           /\ occurrence'[c] = "ACCEPTED" => /\ inbox'[EventOf[c]].digest = DigestOf[c]
                                             /\ inbox'[EventOf[c]].created_at = ReceivedAt[c]
           /\ occurrence'[c] = "CONFLICT" <=> inbox'[EventOf[c]].digest # DigestOf[c]
    <3>1. SUFFICES ASSUME NEW c \in Deliveries, occurrence'[c] # None
                   PROVE  /\ Registered(EventOf[c])'
                          /\ occurrence'[c] = "ACCEPTED" =>
                                /\ inbox'[EventOf[c]].digest = DigestOf[c]
                                /\ inbox'[EventOf[c]].created_at = ReceivedAt[c]
                          /\ occurrence'[c] = "CONFLICT" <=> inbox'[EventOf[c]].digest # DigestOf[c]
      OBVIOUS
    <3>2. EventOf[c] \in Events
      BY NoneIsNoValue
    <3>3. CASE c = d
      BY <1>1, <1>7, <1>8, <1>9, <1>13, <3>3
    <3>4. CASE c # d
      <4>1. /\ Registered(EventOf[c])
            /\ occurrence[c] = "ACCEPTED" => /\ inbox[EventOf[c]].digest = DigestOf[c]
                                             /\ inbox[EventOf[c]].created_at = ReceivedAt[c]
            /\ occurrence[c] = "CONFLICT" <=> inbox[EventOf[c]].digest # DigestOf[c]
        BY <1>2, <1>9, <3>1, <3>4 DEF OccurrencesExplainInbox
      <4>2. inbox'[EventOf[c]].digest = inbox[EventOf[c]].digest
            /\ inbox'[EventOf[c]].created_at = inbox[EventOf[c]].created_at
        BY <1>7, <1>8, <3>2, <4>1
      <4>3. QED
        BY <1>9, <1>13, <3>2, <3>4, <4>1, <4>2
    <3>5. QED
      BY <3>3, <3>4
  <2>4. QED
    BY <2>1, <2>2, <2>3 DEF OccurrencesExplainInbox, Registered
<1>15. QED
  BY <1>10, <1>11, <1>12, <1>14 DEF InboxInv

\* A claim raises the token above every token handed out before.
LEMMA ClaimKeepsInbox ==
    ASSUME InboxInv, NEW w \in Processes, NEW t \in Now,
           NEW scope \in Scopes, ClaimNext(w, t, scope)
    PROVE  InboxInv'
PROOF
<1>1. TypeOK /\ t \in Int
  BY NowIsPast DEF InboxInv
<1>2. PICK e \in scope :
         /\ Claimable(e, t)
         /\ inbox' = [inbox EXCEPT ![e] = Claimed(e, w, t)]
         /\ claim' = [claim EXCEPT ![w] = [event |-> e, token |-> Claimed(e, w, t).token]]
         /\ UNCHANGED <<clock, occurrence, application>>
  BY Zenon DEF ClaimNext
<1>3. e \in Events /\ inbox[e].state # "ABSENT" /\ inbox[e].token \in Nat
  BY <1>1, <1>2, ScopesAreEvents, RowType DEF Claimable
<1> DEFINE r == Claimed(e, w, t)
<1>4. /\ r \in InboxRecord /\ r.state = "PROCESSING" /\ r.owner # None /\ r.lease_until # None
      /\ r.token = inbox[e].token + 1
      /\ r.digest = inbox[e].digest /\ r.created_at = inbox[e].created_at
  BY <1>1, <1>3, ClaimedType
<1>5. inbox' = [inbox EXCEPT ![e] = r]
      /\ claim' = [claim EXCEPT ![w] = [event |-> e, token |-> r.token]]
  BY <1>2
<1> HIDE DEF r
<1>6. r.state \in InboxState /\ r.token > inbox[e].token /\ r.token >= inbox[e].token
  BY <1>3, <1>4 DEF InboxState
<1>7. QED
  BY <1>2, <1>3, <1>4, <1>5, <1>6, RowStep

\* A heartbeat only moves the end of the lease.
LEMMA HeartbeatKeepsInbox ==
    ASSUME InboxInv, NEW w \in Processes, NEW e \in Events, NEW t \in Now, Heartbeat(w, e, t)
    PROVE  InboxInv'
PROOF
<1>1. TypeOK /\ t \in Int
  BY NowIsPast DEF InboxInv
<1>2. inbox[e].state = "PROCESSING" /\ UNCHANGED <<clock, occurrence, claim, application>>
  BY DEF Heartbeat, HoldsEvent
<1> DEFINE r == Renewed(e, t)
<1>3. inbox' = [inbox EXCEPT ![e] = r]
  BY DEF Heartbeat, Renewed
<1>4. /\ r \in InboxRecord /\ r.state = "PROCESSING" /\ r.owner # None /\ r.lease_until # None
      /\ r.token = inbox[e].token /\ inbox[e].token \in Nat
      /\ r.digest = inbox[e].digest /\ r.created_at = inbox[e].created_at
  BY <1>1, <1>2, RenewedType, RowType
<1> HIDE DEF r
<1>5. r.state \in InboxState /\ r.token >= inbox[e].token
  BY <1>4 DEF InboxState
<1>6. QED
  BY <1>2, <1>3, <1>4, <1>5, RowStep

\* Leaving PROCESSING gives up the lease.
LEMMA TransitionKeepsInbox ==
    ASSUME InboxInv, NEW w \in Processes, NEW e \in Events,
           NEW expected \in InboxState, NEW target \in InboxState, NEW t \in Now,
           TransitionInbox(w, e, expected, target, t)
    PROVE  InboxInv'
PROOF
<1>1. TypeOK
  BY DEF InboxInv
<1>2. /\ inbox[e].state # "ABSENT" /\ target # "PROCESSING"
      /\ UNCHANGED <<clock, occurrence, claim, application>>
  BY DEF TransitionInbox, Registered
<1> DEFINE r == Closed(e, target)
<1>3. inbox' = [inbox EXCEPT ![e] = r]
  BY DEF TransitionInbox
<1>4. /\ r \in InboxRecord /\ r.state = target /\ r.owner = None /\ r.lease_until = None
      /\ r.token = inbox[e].token /\ inbox[e].token \in Nat
      /\ r.digest = inbox[e].digest /\ r.created_at = inbox[e].created_at
  BY <1>1, ClosedType, RowType
<1> HIDE DEF r
<1>5. r.state \in InboxState /\ r.token >= inbox[e].token
  BY <1>4
<1>6. QED
  BY <1>2, <1>3, <1>4, <1>5, RowStep

\* A step that leaves the inbox alone, and forgets at most some claims, keeps
\* InboxInv when it keeps the types of what it writes.
LEMMA OutsideTheInbox ==
    ASSUME InboxInv, UNCHANGED <<inbox, occurrence>>, clock' \in Clock,
           claim' \in [Processes -> ClaimRecord \cup {None}],
           \A w \in Processes : claim'[w] \in {claim[w], None},
           application' \in [Events -> [Roots -> ApplicationRecord]]
    PROVE  InboxInv'
PROOF
<1> USE DEF InboxInv
<1>1. TypeOK'
  BY DEF TypeOK
<1>2. TokensWereHandedOut' /\ ClaimsAreFenced'
  BY DEF TokensWereHandedOut, ClaimsAreFenced
<1>3. AbsentEventsAreBlank' /\ OccurrencesExplainInbox'
  BY DEF AbsentEventsAreBlank, OccurrencesExplainInbox, Registered
<1>4. QED
  BY <1>1, <1>2, <1>3

\* Creating or moving an application writes applications only.
LEMMA ApplicationStepType ==
    ASSUME TypeOK, ApplicationStep
    PROVE  /\ application' \in [Events -> [Roots -> ApplicationRecord]]
           /\ UNCHANGED <<clock, inbox, occurrence, claim>>
PROOF
<1>1. PICK e \in Events, r \in Roots :
         \/ \E v \in PlanVersions : CreateApplication(e, r, v)
         \/ \E expected, target \in ApplicationState, analysis \in Analyses \cup {None},
               child \in Children \cup {None}, applied \in PlanVersions \cup {None} :
               TransitionApplication(e, r, expected, target, analysis, child, applied)
  BY Zenon DEF ApplicationStep
<1>2. application[e][r] \in ApplicationRecord
  BY DEF TypeOK
<1>3. ASSUME NEW v \in PlanVersions, CreateApplication(e, r, v)
      PROVE  /\ application' \in [Events -> [Roots -> ApplicationRecord]]
             /\ UNCHANGED <<clock, inbox, occurrence, claim>>
  <2> DEFINE a == [AbsentApplication EXCEPT !.state = "PENDING", !.source_plan_version = v]
  <2>1. AbsentApplication \in ApplicationRecord
    BY DEF AbsentApplication, ApplicationRecord
  <2>2. a \in ApplicationRecord
    BY <2>1 DEF ApplicationRecord, ApplicationState
  <2>3. application' = [application EXCEPT ![e][r] = a] /\ UNCHANGED <<clock, inbox, occurrence, claim>>
    BY <1>3 DEF CreateApplication
  <2> HIDE DEF a
  <2>4. QED
    BY <2>2, <2>3 DEF TypeOK
<1>4. ASSUME NEW expected \in ApplicationState, NEW target \in ApplicationState,
             NEW analysis \in Analyses \cup {None}, NEW child \in Children \cup {None},
             NEW applied \in PlanVersions \cup {None},
             TransitionApplication(e, r, expected, target, analysis, child, applied)
      PROVE  /\ application' \in [Events -> [Roots -> ApplicationRecord]]
             /\ UNCHANGED <<clock, inbox, occurrence, claim>>
  <2> DEFINE old == application[e][r]
             a == [old EXCEPT !.state = target,
                              !.impact_analysis = Merged(@, analysis),
                              !.emergency_plan = Merged(@, child),
                              !.applied_plan_version = Merged(@, applied)]
  <2>1. a \in ApplicationRecord
    BY <1>2 DEF ApplicationRecord, Merged
  <2>2. application' = [application EXCEPT ![e][r] = a] /\ UNCHANGED <<clock, inbox, occurrence, claim>>
    BY <1>4 DEF TransitionApplication
  <2> HIDE DEF a
  <2>3. QED
    BY <2>1, <2>2 DEF TypeOK
<1>5. QED
  BY <1>1, <1>3, <1>4

\* Every step of Next keeps InboxInv.
LEMMA InboxInvStep == InboxInv /\ [Next]_vars => InboxInv'
PROOF
<1> SUFFICES ASSUME InboxInv, [Next]_vars PROVE InboxInv'
  OBVIOUS
<1>1. TypeOK
  BY DEF InboxInv
<1>2. CASE InboxTick
  BY <1>1, <1>2, OutsideTheInbox, InboxBoundsAssumption DEF InboxTick, inboxVars, TypeOK, Clock
<1>3. ASSUME NEW d \in Deliveries, RegisterEvent(d) PROVE InboxInv'
  BY <1>3, RegisterKeepsInbox
<1>4. CASE ClaimStep
  <2>1. PICK w \in Processes :
           \/ Abandon(w)
           \/ \E t \in Now :
                 \/ \E scope \in Scopes : ClaimNext(w, t, scope)
                 \/ \E e \in Events :
                       \/ Heartbeat(w, e, t)
                       \/ \E expected, target \in InboxState :
                             TransitionInbox(w, e, expected, target, t)
    BY <1>4, Zenon DEF ClaimStep
  <2>2. CASE Abandon(w)
    <3>1. claim' \in [Processes -> ClaimRecord \cup {None}]
          /\ \A x \in Processes : claim'[x] \in {claim[x], None}
      BY <1>1, <2>2 DEF Abandon, TypeOK
    <3>2. UNCHANGED <<clock, inbox, occurrence, application>>
      BY <2>2 DEF Abandon
    <3>3. QED
      BY <1>1, <3>1, <3>2, OutsideTheInbox DEF TypeOK
  <2>3. ASSUME NEW t \in Now, NEW scope \in Scopes, ClaimNext(w, t, scope) PROVE InboxInv'
    BY <2>3, ClaimKeepsInbox
  <2>4. ASSUME NEW t \in Now, NEW e \in Events, Heartbeat(w, e, t) PROVE InboxInv'
    BY <2>4, HeartbeatKeepsInbox
  <2>5. ASSUME NEW t \in Now, NEW e \in Events,
               NEW expected \in InboxState, NEW target \in InboxState,
               TransitionInbox(w, e, expected, target, t)
        PROVE  InboxInv'
    BY <2>5, TransitionKeepsInbox
  <2>6. QED
    BY <2>1, <2>2, <2>3, <2>4, <2>5
<1>5. CASE ApplicationStep
  <2>1. application' \in [Events -> [Roots -> ApplicationRecord]]
        /\ UNCHANGED <<clock, inbox, occurrence, claim>>
    BY <1>1, <1>5, ApplicationStepType
  <2>2. clock' \in Clock /\ claim' \in [Processes -> ClaimRecord \cup {None}]
        /\ \A w \in Processes : claim'[w] \in {claim[w], None}
    BY <1>1, <2>1 DEF TypeOK
  <2>3. QED
    BY <2>1, <2>2, OutsideTheInbox
<1>6. CASE UNCHANGED vars
  BY <1>1, <1>6, OutsideTheInbox DEF vars, inboxVars, TypeOK
<1>7. QED
  BY <1>2, <1>3, <1>4, <1>5, <1>6 DEF Next

\* InboxInv holds in every reachable state.
THEOREM InboxIsSound == Spec => []InboxInv
BY InboxInvInit, InboxInvStep, PTL DEF Spec

\* Type correctness, with the shape of a lease EventInboxRecord validates.
THEOREM InboxTypeCorrect == Spec => []TypeOK
PROOF
<1>1. InboxInv => TypeOK
  BY DEF InboxInv
<1>2. QED
  BY <1>1, InboxIsSound, PTL

\* No token is ever in the hands of two processes, however claims, takeovers,
\* conflicts and stops of processes interleave.
THEOREM Fenced == Spec => []ClaimsAreFenced
PROOF
<1>1. InboxInv => ClaimsAreFenced
  BY DEF InboxInv
<1>2. QED
  BY <1>1, InboxIsSound, PTL

\* The records of an event and its row agree, in whatever order they arrive.
THEOREM Explained == Spec => []OccurrencesExplainInbox
PROOF
<1>1. InboxInv => OccurrencesExplainInbox
  BY DEF InboxInv
<1>2. QED
  BY <1>1, InboxIsSound, PTL

-----------------------------------------------------------------------------
(* The action properties. *)

\* Whoever passes _assert_current_claim is the only process with the latest token.
LEMMA HolderIsAlone ==
    ASSUME InboxInv, NEW w \in Processes, NEW e \in Events, NEW t \in Now, HoldsEvent(w, e, t)
    PROVE  /\ claim[w] = [event |-> e, token |-> inbox[e].token]
           /\ \A x \in Processes \ {w} : claim[x] # [event |-> e, token |-> inbox[e].token]
PROOF
<1>1. claim[w] \in ClaimRecord /\ claim[w].event = e /\ claim[w].token = inbox[e].token
  BY DEF InboxInv, TypeOK, HoldsEvent
<1>2. claim[w] = [event |-> e, token |-> inbox[e].token]
  BY <1>1 DEF ClaimRecord
<1>3. claim[w] # None
  BY DEF HoldsEvent
<1>4. QED
  BY <1>2, <1>3 DEF InboxInv, ClaimsAreFenced

\* What a record changes of a claimed event: nothing, or it stops it and raises
\* its token.
LEMMA RegisterOnClaimed ==
    ASSUME InboxInv, NEW d \in Deliveries, RegisterEvent(d),
           NEW e \in Events, inbox[e].state = "PROCESSING", inbox'[e] # inbox[e]
    PROVE  inbox'[e].state = "CONFLICT" /\ inbox'[e].token > inbox[e].token
PROOF
<1>1. TypeOK
  BY DEF InboxInv
<1>2. e = EventOf[d]
  BY <1>1 DEF RegisterEvent, TypeOK
<1>3. Registered(e)
  BY DEF Registered
<1>4. inbox'[e] = Conflicted(e, d)
  BY <1>1, <1>2, <1>3 DEF RegisterEvent, KindOf, TypeOK
<1>5. inbox[e].owner # None /\ inbox[e].token \in Nat
  BY <1>1, RowType DEF TypeOK
<1> DEFINE k == inbox[e].token + (IF inbox[e].owner # None THEN 1 ELSE 0)
<1>6. k > inbox[e].token
  BY <1>5
<1>7. Conflicted(e, d) = [inbox[e] EXCEPT !.state = "CONFLICT", !.owner = None,
                                          !.lease_until = None, !.token = k]
  BY DEF Conflicted
<1> HIDE DEF k
<1>8. inbox[e] \in InboxRecord
  BY <1>1, RowType
<1>9. QED
  BY <1>4, <1>6, <1>7, <1>8 DEF InboxRecord

\* What a claim changes of an event: it takes one whose lease has run out, and
\* raises its token.
LEMMA ClaimOnClaimed ==
    ASSUME InboxInv, NEW w \in Processes, NEW t \in Now,
           NEW scope \in Scopes, ClaimNext(w, t, scope),
           NEW e \in Events, inbox'[e] # inbox[e]
    PROVE  /\ inbox'[e].token > inbox[e].token
           /\ inbox[e].state = "PROCESSING" => inbox[e].lease_until <= clock
PROOF
<1>1. TypeOK /\ t \in Int /\ t <= clock /\ clock \in Int
  BY NowIsPast, InboxBoundsAssumption DEF InboxInv, TypeOK, Clock
<1>2. PICK f \in scope : Claimable(f, t) /\ inbox' = [inbox EXCEPT ![f] = Claimed(f, w, t)]
  BY Zenon DEF ClaimNext
<1>3. f = e
  BY <1>1, <1>2, ScopesAreEvents DEF TypeOK
<1>4. inbox'[e] = Claimed(e, w, t)
  BY <1>1, <1>2, <1>3 DEF TypeOK
<1>5. inbox'[e].token > inbox[e].token
  BY <1>1, <1>4, ClaimedType, RowType
<1>6. ASSUME inbox[e].state = "PROCESSING" PROVE inbox[e].lease_until <= clock
  <2>1. inbox[e].lease_until \in Int
    BY <1>1, <1>6, RowType DEF TypeOK, InboxRecord
  <2>2. inbox[e].lease_until <= t
    BY <1>2, <1>3, <1>6 DEF Claimable
  <2>3. QED
    BY <1>1, <2>1, <2>2
<1>7. QED
  BY <1>5, <1>6

\* Heartbeats and closings keep the token; of a claimed event they need the claim.
LEMMA HeldStep ==
    ASSUME InboxInv, NEW w \in Processes, NEW t \in Now, NEW f \in Events,
           \/ Heartbeat(w, f, t)
           \/ \E expected, target \in InboxState : TransitionInbox(w, f, expected, target, t),
           NEW e \in Events
    PROVE  /\ inbox'[e].token = inbox[e].token
           /\ inbox'[e] # inbox[e] /\ inbox[e].state = "PROCESSING" => HoldsEvent(w, e, t)
PROOF
<1>1. TypeOK /\ t \in Int
  BY NowIsPast DEF InboxInv
<1>2. CASE Heartbeat(w, f, t)
  <2>1. HoldsEvent(w, f, t) /\ inbox[f].state = "PROCESSING"
        /\ inbox' = [inbox EXCEPT ![f] = Renewed(f, t)]
    BY <1>2 DEF Heartbeat, HoldsEvent, Renewed
  <2>2. Renewed(f, t).token = inbox[f].token
    BY <1>1, <2>1, RenewedType
  <2>3. QED
    BY <1>1, <2>1, <2>2 DEF TypeOK
<1>3. ASSUME NEW expected \in InboxState, NEW target \in InboxState,
             TransitionInbox(w, f, expected, target, t)
      PROVE  /\ inbox'[e].token = inbox[e].token
             /\ inbox'[e] # inbox[e] /\ inbox[e].state = "PROCESSING" => HoldsEvent(w, e, t)
  <2>1. inbox' = [inbox EXCEPT ![f] = Closed(f, target)]
        /\ (inbox[f].state = "PROCESSING" => HoldsEvent(w, f, t))
    BY <1>3 DEF TransitionInbox
  <2>2. Closed(f, target).token = inbox[f].token
    BY <1>1, ClosedType
  <2>3. QED
    BY <1>1, <2>1, <2>2 DEF TypeOK
<1>4. QED
  BY <1>2, <1>3

\* The ways a step can write the inbox.
LEMMA InboxWriters ==
    ASSUME InboxInv, [Next]_vars, inbox' # inbox
    PROVE  \/ \E d \in Deliveries : RegisterEvent(d)
           \/ \E w \in Processes, t \in Now :
                 \/ \E scope \in Scopes : ClaimNext(w, t, scope)
                 \/ \E f \in Events :
                       \/ Heartbeat(w, f, t)
                       \/ \E expected, target \in InboxState :
                             TransitionInbox(w, f, expected, target, t)
PROOF
<1>1. ~InboxTick /\ ~UNCHANGED vars /\ (\A w \in Processes : ~Abandon(w))
  BY DEF InboxTick, inboxVars, vars, Abandon
<1>2. ApplicationStep => inbox' = inbox
  BY ApplicationStepType DEF InboxInv
<1>3. (\E d \in Deliveries : RegisterEvent(d)) \/ ClaimStep
  BY <1>1, <1>2 DEF Next
<1>4. QED
  BY <1>1, <1>3, Zenon DEF ClaimStep

\* A holder that was fenced off changes nothing.
THEOREM HolderCloses == Spec => OnlyHolderCloses
PROOF
<1> DEFINE A ==
      \A e \in Events :
          inbox[e].state = "PROCESSING" /\ inbox'[e] # inbox[e] =>
            \/ inbox'[e].token > inbox[e].token
            \/ \E w \in Processes :
                  /\ claim[w] = [event |-> e, token |-> inbox[e].token]
                  /\ \A x \in Processes \ {w} :
                        claim[x] # [event |-> e, token |-> inbox[e].token]
<1>1. InboxInv /\ [Next]_vars => [A]_vars
  <2>1. SUFFICES ASSUME InboxInv, [Next]_vars, NEW e \in Events,
                        inbox[e].state = "PROCESSING", inbox'[e] # inbox[e]
                 PROVE  \/ inbox'[e].token > inbox[e].token
                        \/ \E w \in Processes :
                              /\ claim[w] = [event |-> e, token |-> inbox[e].token]
                              /\ \A x \in Processes \ {w} :
                                    claim[x] # [event |-> e, token |-> inbox[e].token]
    OBVIOUS
  <2>2. ASSUME NEW d \in Deliveries, RegisterEvent(d) PROVE inbox'[e].token > inbox[e].token
    BY <2>1, <2>2, RegisterOnClaimed
  <2>3. ASSUME NEW w \in Processes, NEW t \in Now, NEW scope \in Scopes,
               ClaimNext(w, t, scope)
        PROVE  inbox'[e].token > inbox[e].token
    BY <2>1, <2>3, ClaimOnClaimed
  <2>4. ASSUME NEW w \in Processes, NEW t \in Now, NEW f \in Events,
               \/ Heartbeat(w, f, t)
               \/ \E expected, target \in InboxState : TransitionInbox(w, f, expected, target, t)
        PROVE  \E x \in Processes :
                  /\ claim[x] = [event |-> e, token |-> inbox[e].token]
                  /\ \A y \in Processes \ {x} :
                        claim[y] # [event |-> e, token |-> inbox[e].token]
    <3>1. HoldsEvent(w, e, t)
      BY <2>1, <2>4, HeldStep
    <3>2. QED
      BY <2>1, <3>1, HolderIsAlone
  <2>5. inbox' # inbox
    BY <2>1
  <2>6. QED
    BY <2>1, <2>2, <2>3, <2>4, <2>5, InboxWriters
<1>2. QED
  BY <1>1, InboxIsSound, PTL DEF Spec, OnlyHolderCloses

\* A lease that has not run out is taken over by a conflict only.
THEOREM LeaseIsKept == Spec => LiveLeaseIsKept
PROOF
<1> DEFINE A ==
      \A e \in Events :
          /\ inbox[e].state = "PROCESSING" /\ clock < inbox[e].lease_until
          /\ inbox'[e].token # inbox[e].token
          => inbox'[e].state = "CONFLICT"
<1>1. InboxInv /\ [Next]_vars => [A]_vars
  <2>1. SUFFICES ASSUME InboxInv, [Next]_vars, NEW e \in Events,
                        inbox[e].state = "PROCESSING", clock < inbox[e].lease_until,
                        inbox'[e].token # inbox[e].token
                 PROVE  inbox'[e].state = "CONFLICT"
    OBVIOUS
  <2>2. inbox'[e] # inbox[e] /\ inbox' # inbox
    BY <2>1
  <2>3. ASSUME NEW d \in Deliveries, RegisterEvent(d) PROVE inbox'[e].state = "CONFLICT"
    BY <2>1, <2>2, <2>3, RegisterOnClaimed
  <2>4. ASSUME NEW w \in Processes, NEW t \in Now, NEW scope \in Scopes,
               ClaimNext(w, t, scope)
        PROVE  FALSE
    <3>1. inbox[e].lease_until \in Int /\ clock \in Int
      BY <2>1, RowType, InboxBoundsAssumption DEF InboxInv, TypeOK, InboxRecord, Clock
    <3>2. inbox[e].lease_until <= clock
      BY <2>1, <2>2, <2>4, ClaimOnClaimed
    <3>3. QED
      BY <2>1, <3>1, <3>2
  <2>5. ASSUME NEW w \in Processes, NEW t \in Now, NEW f \in Events,
               \/ Heartbeat(w, f, t)
               \/ \E expected, target \in InboxState : TransitionInbox(w, f, expected, target, t)
        PROVE  FALSE
    BY <2>1, <2>5, HeldStep
  <2>6. QED
    BY <2>1, <2>2, <2>3, <2>4, <2>5, InboxWriters
<1>2. QED
  BY <1>1, InboxIsSound, PTL DEF Spec, LiveLeaseIsKept

-----------------------------------------------------------------------------
(* The applications. *)

\* Nothing is recorded of an application before it is created.
AbsentApplicationsAreBlank ==
    \A e \in Events, r \in Roots :
        application[e][r].state = "ABSENT" => application[e][r] = AbsentApplication

\* What a field may become: None gives way to a value, a value stays.
KeptOnce(old, new) == old # None => new = old

\* What a step may do to one application.
Grown(old, new) ==
    /\ old.state \in {"APPLIED", "FAILED"} => new = old
    /\ KeptOnce(old.source_plan_version, new.source_plan_version)
    /\ KeptOnce(old.impact_analysis, new.impact_analysis)
    /\ KeptOnce(old.emergency_plan, new.emergency_plan)
    /\ KeptOnce(old.applied_plan_version, new.applied_plan_version)
    /\ new.state = "ABSENT" => new = old

\* A field passes _assert_write_once and keeps what it had.
LEMMA MergedKeeps ==
    ASSUME NEW old, NEW new, WriteOnce(old, new)
    PROVE  KeptOnce(old, Merged(old, new))
BY DEF WriteOnce, Merged, KeptOnce

\* Every step grows every application.
LEMMA ApplicationsGrow ==
    ASSUME TypeOK, AbsentApplicationsAreBlank, [Next]_vars,
           NEW e \in Events, NEW r \in Roots
    PROVE  Grown(application[e][r], application'[e][r])
PROOF
<1>1. CASE application'[e][r] = application[e][r]
  BY <1>1 DEF Grown, KeptOnce
<1>2. ASSUME NEW f \in Events, NEW q \in Roots, NEW v \in PlanVersions, CreateApplication(f, q, v)
      PROVE  Grown(application[e][r], application'[e][r])
  <2>1. CASE e = f /\ r = q
    <3> DEFINE a == [AbsentApplication EXCEPT !.state = "PENDING", !.source_plan_version = v]
    <3>1. application[e][r] = AbsentApplication
      BY <1>2, <2>1 DEF CreateApplication, AbsentApplicationsAreBlank
    <3>2. application'[e][r] = a
      BY <1>2, <2>1 DEF CreateApplication, TypeOK
    <3>3. a.state = "PENDING"
      BY DEF AbsentApplication
    <3> HIDE DEF a
    <3>4. QED
      BY <3>1, <3>2, <3>3 DEF Grown, KeptOnce, AbsentApplication
  <2>2. CASE ~(e = f /\ r = q)
    <3>1. application'[e][r] = application[e][r]
      BY <1>2, <2>2 DEF CreateApplication, TypeOK
    <3>2. QED
      BY <1>1, <3>1
  <2>3. QED
    BY <2>1, <2>2
<1>3. ASSUME NEW f \in Events, NEW q \in Roots,
             NEW expected \in ApplicationState, NEW target \in ApplicationState,
             NEW analysis \in Analyses \cup {None}, NEW child \in Children \cup {None},
             NEW applied \in PlanVersions \cup {None},
             TransitionApplication(f, q, expected, target, analysis, child, applied)
      PROVE  Grown(application[e][r], application'[e][r])
  <2>1. CASE e = f /\ r = q
    <3> DEFINE old == application[e][r]
               new == application'[e][r]
    <3>1. old \in ApplicationRecord
      BY DEF TypeOK
    <3>2. new = [old EXCEPT !.state = target,
                            !.impact_analysis = Merged(old.impact_analysis, analysis),
                            !.emergency_plan = Merged(old.emergency_plan, child),
                            !.applied_plan_version = Merged(old.applied_plan_version, applied)]
      BY <1>3, <2>1 DEF TransitionApplication, TypeOK
    <3>3. /\ new.state = target /\ new.source_plan_version = old.source_plan_version
          /\ new.impact_analysis = Merged(old.impact_analysis, analysis)
          /\ new.emergency_plan = Merged(old.emergency_plan, child)
          /\ new.applied_plan_version = Merged(old.applied_plan_version, applied)
      BY <3>1, <3>2 DEF ApplicationRecord
    <3>4. /\ old.state = expected /\ target \in ApplicationTransitions[expected]
          /\ WriteOnce(old.impact_analysis, analysis)
          /\ WriteOnce(old.emergency_plan, child)
          /\ WriteOnce(old.applied_plan_version, applied)
      BY <1>3, <2>1 DEF TransitionApplication
    <3>5. old.state \notin {"APPLIED", "FAILED"} /\ new.state # "ABSENT"
      BY <3>3, <3>4 DEF ApplicationTransitions, ApplicationState
    <3>6. KeptOnce(old.source_plan_version, new.source_plan_version)
      BY <3>3 DEF KeptOnce
    <3> HIDE DEF old, new
    <3>7. /\ KeptOnce(old.impact_analysis, new.impact_analysis)
          /\ KeptOnce(old.emergency_plan, new.emergency_plan)
          /\ KeptOnce(old.applied_plan_version, new.applied_plan_version)
      BY <3>3, <3>4, MergedKeeps
    <3>8. QED
      BY <3>5, <3>6, <3>7 DEF Grown, old, new
  <2>2. CASE ~(e = f /\ r = q)
    <3>1. application'[e][r] = application[e][r]
      BY <1>3, <2>2 DEF TransitionApplication, TypeOK
    <3>2. QED
      BY <1>1, <3>1
  <2>3. QED
    BY <2>1, <2>2
<1>4. CASE ApplicationStep
  <2>1. PICK f \in Events, q \in Roots :
           \/ \E v \in PlanVersions : CreateApplication(f, q, v)
           \/ \E expected, target \in ApplicationState, analysis \in Analyses \cup {None},
                 child \in Children \cup {None}, applied \in PlanVersions \cup {None} :
                 TransitionApplication(f, q, expected, target, analysis, child, applied)
    BY <1>4, Zenon DEF ApplicationStep
  <2>2. QED
    BY <1>2, <1>3, <2>1
<1>5. CASE UNCHANGED application
  BY <1>1, <1>5
<1>6. ASSUME ~ApplicationStep PROVE UNCHANGED application
  <2>1. CASE \E d \in Deliveries : RegisterEvent(d)
    BY <2>1 DEF RegisterEvent
  <2>2. CASE ClaimStep
    BY <2>2 DEF ClaimStep, Abandon, ClaimNext, Heartbeat, TransitionInbox
  <2>3. CASE InboxTick \/ UNCHANGED vars
    BY <2>3 DEF InboxTick, inboxVars, vars
  <2>4. QED
    BY <1>6, <2>1, <2>2, <2>3 DEF Next
<1>7. QED
  BY <1>4, <1>5, <1>6

\* An absent application stays blank.
LEMMA ApplicationsStayBlank ==
    Spec => [](TypeOK /\ AbsentApplicationsAreBlank)
PROOF
<1>1. Init => AbsentApplicationsAreBlank
  BY DEF Init, InboxInit, AbsentApplicationsAreBlank
<1>2. TypeOK /\ AbsentApplicationsAreBlank /\ [Next]_vars => AbsentApplicationsAreBlank'
  BY ApplicationsGrow DEF Grown, AbsentApplicationsAreBlank
<1>3. QED
  BY <1>1, <1>2, InboxTypeCorrect, PTL DEF Spec

\* Whatever stale copies of an application its writers hold, and with no claim
\* asked for, what it has recorded is never replaced.
THEOREM EvidenceIsKept == Spec => ApplicationEvidenceIsKept
PROOF
<1> DEFINE A ==
      \A e \in Events, r \in Roots :
          LET old == application[e][r]  new == application'[e][r] IN
          /\ old.state \in {"APPLIED", "FAILED"} => new = old
          /\ old.source_plan_version # None => new.source_plan_version = old.source_plan_version
          /\ old.impact_analysis # None => new.impact_analysis = old.impact_analysis
          /\ old.emergency_plan # None => new.emergency_plan = old.emergency_plan
          /\ old.applied_plan_version # None
                => new.applied_plan_version = old.applied_plan_version
<1>1. TypeOK /\ AbsentApplicationsAreBlank /\ [Next]_vars => [A]_vars
  BY ApplicationsGrow DEF Grown, KeptOnce
<1>2. QED
  BY <1>1, ApplicationsStayBlank, PTL DEF Spec, ApplicationEvidenceIsKept

=============================================================================
