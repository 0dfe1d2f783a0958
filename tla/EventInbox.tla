----------------------------- MODULE EventInbox -----------------------------
(* The Event Store of src/src/plan_engine/event_store.py: the inbox of sold-out
   events, the occurrences (deliveries) of each event, and one application of an
   event to a root plan.

   Every operation is one action: InMemoryEventStore runs it under one lock,
   PostgresEventStore in one transaction on the locked row.  Kafka may deliver a
   record several times and two records in either order; a process that claimed
   an event may stop at any moment and another take the event over. *)
EXTENDS Integers, FiniteSets

CONSTANTS
    Events,       \* event ids
    Digests,      \* payload digests
    Deliveries,   \* Kafka records: one occurrence_id for each transport coordinate
    EventOf, DigestOf, ReceivedAt,  \* what a record carries, the same at each delivery
    Rooms, RoomOf,  \* live rooms, and the room each event is about
    Processes,    \* processes that claim events
    WorkerId,     \* WorkerId[w]: the worker_id process w is configured with
    WorkerIds,
    Roots,        \* root plans
    PlanVersions, \* version numbers of root plans
    Children,     \* ids of emergency plans
    Analyses,     \* impact analyses
    Lease,        \* lease_seconds
    ClockLag,     \* how old the `now` of a call may be
    MaxClock,     \* bound of the model: last instant
    MaxToken,     \* bound of the model: claims of one event
    None          \* Python's None

Clock == 0..MaxClock

ASSUME InboxConstantsAssumption ==
    /\ EventOf \in [Deliveries -> Events]
    /\ DigestOf \in [Deliveries -> Digests]
    /\ ReceivedAt \in [Deliveries -> Nat]
    /\ RoomOf \in [Events -> Rooms]
    /\ WorkerId \in [Processes -> WorkerIds]

ASSUME InboxBoundsAssumption ==
    /\ Lease \in Nat \ {0} /\ ClockLag \in Nat
    /\ MaxClock \in Nat /\ MaxToken \in Nat

\* EventInboxState and EventApplicationState.  RECEIVED is never entered: an
\* event is verified before it is registered.
InboxState == {"VERIFIED", "CONFLICT", "PROCESSING", "WAITING_HUMAN", "APPLIED", "FAILED"}
ApplicationState == {"PENDING", "FREEZING", "EMERGENCY_RUNNING",
                     "WAITING_RECONCILIATION", "REPLAN_READY", "APPLIED", "FAILED"}
OccurrenceKind == {"ACCEPTED", "DUPLICATE", "CONFLICT"}

ASSUME InboxNoneAssumption ==
    None \notin Int \cup Digests \cup WorkerIds \cup PlanVersions
                \cup Children \cup Analyses \cup OccurrenceKind

InboxTransitions ==
    [s \in InboxState |->
        CASE s = "VERIFIED"      -> {"PROCESSING", "CONFLICT", "WAITING_HUMAN", "FAILED"}
          [] s = "CONFLICT"      -> {"WAITING_HUMAN", "FAILED"}
          [] s = "PROCESSING"    -> {"VERIFIED", "CONFLICT", "WAITING_HUMAN",
                                     "APPLIED", "FAILED"}
          [] s = "WAITING_HUMAN" -> {"VERIFIED", "APPLIED", "FAILED"}
          [] OTHER -> {}]

ApplicationTransitions ==
    [s \in ApplicationState |->
        CASE s = "PENDING"  -> {"FREEZING", "WAITING_RECONCILIATION", "FAILED"}
          [] s = "FREEZING" -> {"EMERGENCY_RUNNING", "WAITING_RECONCILIATION", "FAILED"}
          [] s = "EMERGENCY_RUNNING" -> {"WAITING_RECONCILIATION", "REPLAN_READY", "FAILED"}
          [] s = "WAITING_RECONCILIATION" -> {"EMERGENCY_RUNNING", "REPLAN_READY", "FAILED"}
          [] s = "REPLAN_READY" -> {"APPLIED", "FAILED"}
          [] OTHER -> {}]

VARIABLES
    clock,       \* the present
    inbox,       \* inbox[e]: the plan_event_inbox row of e
    occurrence,  \* occurrence[d]: how the record d was classified, or None
    claim,       \* claim[w]: the EventClaim process w works under, or None
    application  \* application[e][r]: the plan_event_applications row

inboxVars == <<inbox, occurrence, claim, application>>
vars == <<clock, inboxVars>>

InboxRecord == [state : InboxState \cup {"ABSENT"}, digest : Digests \cup {None},
                created_at : Int, owner : WorkerIds \cup {None},
                lease_until : Int \cup {None}, token : Nat]
ClaimRecord == [event : Events, token : Nat]
ApplicationRecord ==
    [state : ApplicationState \cup {"ABSENT"},
     source_plan_version : PlanVersions \cup {None},
     impact_analysis : Analyses \cup {None},
     emergency_plan : Children \cup {None},
     applied_plan_version : PlanVersions \cup {None}]

AbsentEvent == [state |-> "ABSENT", digest |-> None, created_at |-> 0,
                owner |-> None, lease_until |-> None, token |-> 0]
AbsentApplication == [state |-> "ABSENT", source_plan_version |-> None,
                      impact_analysis |-> None, emergency_plan |-> None,
                      applied_plan_version |-> None]

Registered(e) == inbox[e].state # "ABSENT"
Now == (clock - ClockLag)..clock

-----------------------------------------------------------------------------
(* Deliveries. *)

\* How a record stands to the first payload of its event.
KindOf(d) ==
    IF ~Registered(EventOf[d]) THEN "ACCEPTED"
    ELSE IF inbox[EventOf[d]].digest = DigestOf[d] THEN "DUPLICATE"
    ELSE "CONFLICT"

\* The row of a new event: its payload, received when Kafka says.
Accepted(d) == [AbsentEvent EXCEPT !.state = "VERIFIED", !.digest = DigestOf[d],
                                   !.created_at = ReceivedAt[d]]

ConflictOverwrites(e, d) ==  \* mutant: the last payload wins
    [inbox[e] EXCEPT !.state = "CONFLICT", !.digest = DigestOf[d],
                     !.owner = None, !.lease_until = None]

\* A second payload under one event id stops the event in whatever state it is,
\* ended or not, and takes the claim from its holder.  The first payload stays.
Conflicted(e, d) ==
    [inbox[e] EXCEPT !.state = "CONFLICT", !.owner = None, !.lease_until = None,
                     !.token = inbox[e].token + (IF inbox[e].owner # None THEN 1 ELSE 0)]

\* register_event: a record delivered again only returns its first result; a new
\* record is classified and the inbox follows in the same transaction.
RegisterEvent(d) ==
    LET e == EventOf[d] IN
    /\ occurrence[d] = None
    /\ occurrence' = [occurrence EXCEPT ![d] = KindOf(d)]
    /\ inbox' = [inbox EXCEPT ![e] =
          CASE KindOf(d) = "ACCEPTED"  -> Accepted(d)
            [] KindOf(d) = "DUPLICATE" -> @
            [] OTHER                   -> Conflicted(e, d)]
    /\ UNCHANGED <<clock, claim, application>>

-----------------------------------------------------------------------------
(* Claims. *)

ClaimableUnexpired(e, t) ==  \* mutant: whatever its lease
    inbox[e].state \in {"VERIFIED", "PROCESSING"} /\ inbox[e].created_at <= t

\* An event not yet taken, or whose holder let its lease run out.
Claimable(e, t) ==
    /\ inbox[e].created_at <= t
    /\ \/ inbox[e].state = "VERIFIED"
       \/ inbox[e].state = "PROCESSING" /\ inbox[e].lease_until <= t

SameToken(e, w, t) ==  \* mutant: a takeover keeps the token
    [inbox[e] EXCEPT !.state = "PROCESSING", !.owner = WorkerId[w],
                     !.lease_until = t + Lease,
                     !.token = IF inbox[e].state = "VERIFIED" THEN @ + 1 ELSE @]

Claimed(e, w, t) ==
    [inbox[e] EXCEPT !.state = "PROCESSING", !.owner = WorkerId[w],
                     !.lease_until = t + Lease, !.token = @ + 1]

\* What claim_next and claim_next_for_room look at.
Scopes == {Events} \cup {{e \in Events : RoomOf[e] = room} : room \in Rooms}

\* _claim_next: the oldest claimable event, by the time it was received; event
\* ids break ties.  The new token fences off every earlier holder.
ClaimNext(w, t, scope) ==
    \E e \in scope :
        /\ Claimable(e, t)
        /\ \A f \in scope : Claimable(f, t) => inbox[e].created_at <= inbox[f].created_at
        /\ inbox[e].token < MaxToken
        /\ inbox' = [inbox EXCEPT ![e] = Claimed(e, w, t)]
        /\ claim' = [claim EXCEPT ![w] = [event |-> e, token |-> Claimed(e, w, t).token]]
        /\ UNCHANGED <<clock, occurrence, application>>

\* Mutant: without the token.
HoldsEventByOwner(w, e, t) ==
    /\ claim[w] # None /\ claim[w].event = e
    /\ inbox[e].state = "PROCESSING" /\ inbox[e].owner = WorkerId[w]
    /\ t < inbox[e].lease_until

\* _assert_current_claim: the holder presents its worker_id and token.
HoldsEvent(w, e, t) ==
    /\ claim[w] # None /\ claim[w].event = e
    /\ inbox[e].state = "PROCESSING"
    /\ inbox[e].owner = WorkerId[w]
    /\ inbox[e].token = claim[w].token
    /\ t < inbox[e].lease_until

\* heartbeat: extends the lease, never shortens it.
Heartbeat(w, e, t) ==
    /\ HoldsEvent(w, e, t)
    /\ inbox' = [inbox EXCEPT ![e].lease_until = IF t + Lease > @ THEN t + Lease ELSE @]
    /\ UNCHANGED <<clock, occurrence, claim, application>>

ClosedWithLease(e, target) == [inbox[e] EXCEPT !.state = target]  \* mutant

Closed(e, target) ==
    [inbox[e] EXCEPT !.state = target, !.owner = None, !.lease_until = None]

\* transition_inbox: out of PROCESSING only by the holder, from the other states
\* by anyone; PROCESSING itself is entered by a claim only.
TransitionInbox(w, e, expected, target, t) ==
    /\ Registered(e)
    /\ inbox[e].state = expected
    /\ expected = "PROCESSING" => HoldsEvent(w, e, t)
    /\ target \in InboxTransitions[expected] \ {"PROCESSING"}
    /\ inbox' = [inbox EXCEPT ![e] = Closed(e, target)]
    /\ UNCHANGED <<clock, occurrence, claim, application>>

\* A process stops, or an exception ends its run: what it knew is gone, what the
\* store holds stays.
Abandon(w) ==
    /\ claim[w] # None
    /\ claim' = [claim EXCEPT ![w] = None]
    /\ UNCHANGED <<clock, inbox, occurrence, application>>

-----------------------------------------------------------------------------
(* Applications. *)

\* create_application: one for each event and root.  A repeat returns the first
\* when it names the same source version, and raises otherwise.  (That the plan
\* has the version, which only PostgreSQL asks, is left to the caller.)
CreateApplication(e, r, v) ==
    /\ Registered(e)
    /\ application[e][r].state = "ABSENT"
    /\ application' = [application EXCEPT ![e][r] =
          [AbsentApplication EXCEPT !.state = "PENDING", !.source_plan_version = v]]
    /\ UNCHANGED <<clock, inbox, occurrence, claim>>

NeverConflicts(old, new) == TRUE  \* mutant

\* _assert_write_once and the merge after it: None leaves the field alone.
WriteOnce(old, new) == old = None \/ new = None \/ old = new
Merged(old, new) == IF new = None THEN old ELSE new

\* transition_application: no claim is asked for.  The FailureFact, demanded for
\* FAILED and free to change, is left out.
TransitionApplication(e, r, expected, target, analysis, child, applied) ==
    LET old == application[e][r] IN
    /\ old.state # "ABSENT"
    /\ old.state = expected
    /\ target \in ApplicationTransitions[expected]
    /\ target = "APPLIED" => applied # None
    /\ WriteOnce(old.impact_analysis, analysis)
    /\ WriteOnce(old.emergency_plan, child)
    /\ WriteOnce(old.applied_plan_version, applied)
    /\ application' = [application EXCEPT ![e][r] =
          [old EXCEPT !.state = target,
                      !.impact_analysis = Merged(@, analysis),
                      !.emergency_plan = Merged(@, child),
                      !.applied_plan_version = Merged(@, applied)]]
    /\ UNCHANGED <<clock, inbox, occurrence, claim>>

-----------------------------------------------------------------------------
InboxTick ==
    /\ clock < MaxClock
    /\ clock' = clock + 1
    /\ UNCHANGED inboxVars

InboxInit ==
    /\ inbox = [e \in Events |-> AbsentEvent]
    /\ occurrence = [d \in Deliveries |-> None]
    /\ claim = [w \in Processes |-> None]
    /\ application = [e \in Events |-> [r \in Roots |-> AbsentApplication]]

Init == clock = 0 /\ InboxInit

ClaimStep ==
    \E w \in Processes :
        \/ Abandon(w)
        \/ \E t \in Now :
              \/ \E scope \in Scopes : ClaimNext(w, t, scope)
              \/ \E e \in Events :
                    \/ Heartbeat(w, e, t)
                    \/ \E expected, target \in InboxState :
                          TransitionInbox(w, e, expected, target, t)

ApplicationStep ==
    \E e \in Events, r \in Roots :
        \/ \E v \in PlanVersions : CreateApplication(e, r, v)
        \/ \E expected, target \in ApplicationState, analysis \in Analyses \cup {None},
              child \in Children \cup {None}, applied \in PlanVersions \cup {None} :
              TransitionApplication(e, r, expected, target, analysis, child, applied)

Next ==
    \/ InboxTick
    \/ \E d \in Deliveries : RegisterEvent(d)
    \/ ClaimStep
    \/ ApplicationStep

Spec == Init /\ [][Next]_vars

-----------------------------------------------------------------------------
(* What the store promises. *)

\* With the lease shape EventInboxRecord validates: a lease in PROCESSING only.
TypeOK ==
    /\ clock \in Clock
    /\ inbox \in [Events -> InboxRecord]
    /\ occurrence \in [Deliveries -> OccurrenceKind \cup {None}]
    /\ claim \in [Processes -> ClaimRecord \cup {None}]
    /\ application \in [Events -> [Roots -> ApplicationRecord]]
    /\ \A e \in Events :
          /\ inbox[e].state = "PROCESSING" => inbox[e].owner # None /\ inbox[e].lease_until # None
          /\ inbox[e].state # "PROCESSING" => inbox[e].owner = None /\ inbox[e].lease_until = None

\* No two processes ever hold the same token of an event, even when they share a
\* worker_id, so that at most one of them can renew or close it.
ClaimsAreFenced ==
    \A w, x \in Processes :
        claim[w] # None /\ claim[x] # None /\ claim[w] = claim[x] => w = x

\* However many records of an event arrive, and in whatever order, exactly one
\* was accepted; the stored payload is its payload, the duplicates carry the
\* same one and the conflicts another (D-079).
OccurrencesExplainInbox ==
    /\ \A e \in Events : Registered(e) =>
          \E d \in Deliveries : EventOf[d] = e /\ occurrence[d] = "ACCEPTED"
    /\ \A d, f \in Deliveries :
          /\ EventOf[d] = EventOf[f]
          /\ occurrence[d] = "ACCEPTED" /\ occurrence[f] = "ACCEPTED"
          => d = f
    /\ \A d \in Deliveries : occurrence[d] # None =>
          LET row == inbox[EventOf[d]] IN
          /\ Registered(EventOf[d])
          /\ occurrence[d] = "ACCEPTED" => row.digest = DigestOf[d] /\ row.created_at = ReceivedAt[d]
          /\ occurrence[d] = "CONFLICT" <=> row.digest # DigestOf[d]

\* A claimed event changes only while exactly one process holds its latest token,
\* unless a conflict or a takeover raises the token: a holder that was fenced off
\* changes nothing, even when it shares the worker_id of the new one.
OnlyHolderCloses ==
    [][\A e \in Events :
          inbox[e].state = "PROCESSING" /\ inbox'[e] # inbox[e] =>
            \/ inbox'[e].token > inbox[e].token
            \/ \E w \in Processes :
                  /\ claim[w] = [event |-> e, token |-> inbox[e].token]
                  /\ \A x \in Processes \ {w} :
                        claim[x] # [event |-> e, token |-> inbox[e].token]]_vars

\* A lease that has not run out is never taken over: the token of an event under
\* a live lease only rises with a conflict.
LiveLeaseIsKept ==
    [][\A e \in Events :
          /\ inbox[e].state = "PROCESSING" /\ clock < inbox[e].lease_until
          /\ inbox'[e].token # inbox[e].token
          => inbox'[e].state = "CONFLICT"]_vars

\* What an application has recorded is evidence: source version, analysis,
\* emergency plan and applied version are never replaced, and an application
\* that ended stays as it is.
ApplicationEvidenceIsKept ==
    [][\A e \in Events, r \in Roots :
          LET old == application[e][r]  new == application'[e][r] IN
          /\ old.state \in {"APPLIED", "FAILED"} => new = old
          /\ old.source_plan_version # None => new.source_plan_version = old.source_plan_version
          /\ old.impact_analysis # None => new.impact_analysis = old.impact_analysis
          /\ old.emergency_plan # None => new.emergency_plan = old.emergency_plan
          /\ old.applied_plan_version # None
                => new.applied_plan_version = old.applied_plan_version]_vars

=============================================================================
