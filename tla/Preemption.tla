----------------------------- MODULE Preemption -----------------------------
(* The PreemptionCoordinator (src/src/plan_engine/preemption.py) and the
   ReplanCoordinator (replan.py) on the PlanStore and the Event Store.

   There is no transaction across the two stores.  A call of run_next is a series
   of steps, each of them one call of one store, and several processes run it
   side by side: between two steps another process, a worker or the clock may
   act, a lease may run out, and the process may stop.  What a process remembers
   between its steps is job[w]; everything else is in the stores. *)
EXTENDS Integers, Sequences, FiniteSets

CONSTANTS
    Root,         \* the card batch of the room
    Children,     \* the emergency plans that may be created
    ChildOf,      \* ChildOf[e]: emergency plan of event e (its run_key names e and Root)
    ProductOf,    \* ProductOf[e]: exclusive resource of the product e is about
    Processes,    \* processes that run coordinators
    WorkerId, WorkerIds,
    Events, Digests, Deliveries, EventOf, DigestOf, ReceivedAt,
    Keys, KeysOf, DependsOn, RootKeys, ResourceKeys, Fingerprints, ResultStates,
    MaxVersion,   \* version budget of a plan (the code's constant 3)
    ClaimLimit, EventLease, NodeLease,
    MaxClock, MaxRuns, MaxToken,  \* bounds of the model
    None

VARIABLES
    clock,
    planRun, version, node, runs, command, ledger,  \* the PlanStore
    inbox, occurrence, claim, application,          \* the Event Store
    job  \* job[w]: where process w is, and what it has read so far

planVars  == <<planRun, version, node, runs, command, ledger>>
eventVars == <<inbox, occurrence, claim, application>>
vars      == <<clock, planVars, eventVars, job>>

Versions == 1..MaxVersion
Plans    == {Root} \cup Children

\* ImpactAnalysis: the version it was made for, the affected logical keys, and
\* whether its scope is the room.
Analyses == [version : Versions, keys : SUBSET Keys, room : BOOLEAN]

P == INSTANCE PlanStore WITH
        CardBatch <- {Root}, Signatures <- Events, Lease <- NodeLease,
        CommandIds <- {}, RetryDelays <- {}, ApprovalTTL <- 0, ReconcileTTL <- 0,
        ClockLag <- 0
Q == INSTANCE EventInbox WITH
        Roots <- {Root}, PlanVersions <- Versions, Lease <- EventLease,
        ClockLag <- MaxClock,  \* run_next keeps the instant it was called with
        Rooms <- {Root}, RoomOf <- [e \in Events |-> Root]

\* The emergency plan of an event is not a batch, and a DAG names its own nodes.
ASSUME PlansAssumption ==
    /\ Root \notin Children /\ ChildOf \in [Events -> Children]
    /\ KeysOf \in [Plans -> SUBSET Keys] /\ DependsOn \in [Keys -> SUBSET Keys]
    /\ \A p \in Plans : \A k \in KeysOf[p] : DependsOn[k] \subseteq KeysOf[p]
    /\ RootKeys \subseteq Keys /\ \A k \in RootKeys : DependsOn[k] = {}
    /\ DOMAIN ResourceKeys = Plans /\ \A p \in Plans : DOMAIN ResourceKeys[p] = Keys
    /\ "SUCCEEDED" \in ResultStates /\ ResultStates \subseteq P!NodeState

ASSUME EventsAssumption ==
    /\ EventOf \in [Deliveries -> Events] /\ DigestOf \in [Deliveries -> Digests]
    /\ ReceivedAt \in [Deliveries -> Nat] /\ WorkerId \in [Processes -> WorkerIds]

ASSUME LimitsAssumption ==
    /\ MaxVersion \in Nat \ {0} /\ ClaimLimit \in Nat \ {0}
    /\ NodeLease \in Nat \ {0} /\ EventLease \in Nat \ {0}
    /\ MaxClock \in Nat /\ MaxRuns \in Nat \ {0} /\ MaxToken \in Nat

ASSUME NothingAssumption ==
    None \notin Int \cup Events \cup Fingerprints \cup P!Node \cup Digests
                \cup WorkerIds \cup Children \cup Analyses \cup Q!OccurrenceKind

\* pc of a process.  Between claim and checkpoint it is the application state
\* that _resume_application works from.
Step == {"idle", "checked", "claimed", "opening"} \cup Q!ApplicationState \cup
        {"frozen", "recording", "polling", "executing", "settling", "waiting",
         "handing", "releasing", "succeeded", "failing", "publishing", "marking", "closing"} \cup
        {"confirming", "resuming", "restoring"}

\* event: the event it works on; now: the instant run_next was called with;
\* seen: the version of Root it read last; merged, reused: what replan() chose.
JobRecord == [pc : Step, event : Events \cup {None}, now : Q!Clock,
              seen : 0..MaxVersion, merged : SUBSET Events, reused : SUBSET Keys]
Idle == [pc |-> "idle", event |-> None, now |-> 0, seen |-> 0, merged |-> {}, reused |-> {}]

Ev(w)     == job[w].event
App(w)    == application[Ev(w)][Root]
Child(w)  == ChildOf[Ev(w)]
At(w, pc) == job[w].pc = pc

Goto(w, pc) == job' = [job EXCEPT ![w].pc = pc]
Return(w)   == job' = [job EXCEPT ![w] = Idle]

\* A call of one store leaves the other alone.
InPlanStore(A)  == A /\ UNCHANGED eventVars
InEventStore(A) == A /\ UNCHANGED planVars
NoCall          == UNCHANGED <<clock, planVars, eventVars>>

\* transition_inbox out of PROCESSING and transition_application, as the
\* coordinator calls them.
CloseInbox(w, target) ==
    InEventStore(Q!TransitionInbox(w, Ev(w), "PROCESSING", target, job[w].now))
MoveApplication(w, expected, target, analysis, child) ==
    InEventStore(Q!TransitionApplication(Ev(w), Root, expected, target, analysis, child, None))

-----------------------------------------------------------------------------
(* run_next: from the event to its application. *)

\* list_plan_runs names the plans that may still run, and those with an incident.
RootIsActive ==
    planRun[Root].state \in {"ACTIVE", "FROZEN"} \/ planRun[Root].reconciliation_required

RunNext(w) ==
    /\ At(w, "idle") /\ RootIsActive
    /\ job' = [job EXCEPT ![w] = [Idle EXCEPT !.pc = "checked", !.now = clock]]
    /\ NoCall

ClaimEvent(w) ==
    /\ At(w, "checked")
    /\ \/ /\ InEventStore(Q!ClaimNext(w, job[w].now, Events))
          /\ job' = [job EXCEPT ![w].pc = "claimed", ![w].event = claim'[w].event]
       \/ /\ \A e \in Events : ~Q!Claimable(e, job[w].now)
          /\ Return(w) /\ NoCall

\* The root is looked up again; an event that lost its root is given back.
Recheck(w) ==
    /\ At(w, "claimed")
    /\ \/ /\ RootIsActive
          /\ job' = [job EXCEPT ![w].pc = "opening", ![w].seen = planRun[Root].version]
          /\ NoCall
       \/ /\ ~RootIsActive
          /\ CloseInbox(w, "VERIFIED") /\ Return(w)

DispatchOnSource(w, state) ==  \* mutant: the version of the application
    job' = [job EXCEPT ![w].pc = state, ![w].seen = App(w).source_plan_version]

\* Where _resume_application goes on, with the version it reads now.
Dispatch(w, state) ==
    job' = [job EXCEPT ![w].pc = state, ![w].seen = planRun[Root].version]

\* create_application, with the version read before.  An application made for
\* another version makes it raise; so does a PENDING one when the root has ended.
OpenApplication(w) ==
    /\ At(w, "opening")
    /\ \/ /\ InEventStore(Q!CreateApplication(Ev(w), Root, job[w].seen))
          /\ IF planRun[Root].state \in {"ACTIVE", "FROZEN"} THEN Dispatch(w, "PENDING")
             ELSE Return(w)
       \/ /\ App(w).state # "ABSENT"
          /\ IF /\ App(w).source_plan_version = job[w].seen
                /\ App(w).state = "PENDING" => planRun[Root].state \in {"ACTIVE", "FROZEN"}
             THEN Dispatch(w, App(w).state)
             ELSE Return(w)
          /\ NoCall

-----------------------------------------------------------------------------
(* _resume_application: analysis, freeze, emergency plan. *)

\* ImpactAnalyzer: the cards of the product and what depends on them, or
\* everything when no card is about the product.
AnalysisOf(e, v) ==
    LET direct == {k \in KeysOf[Root] : ProductOf[e] \in ResourceKeys[Root][k]}
    IN [version |-> v, room |-> direct = {},
        keys |-> IF direct = {} THEN KeysOf[Root] ELSE P!DependencyClosure(Root, direct)]

Analyze(w) ==
    /\ At(w, "PENDING")
    /\ MoveApplication(w, "PENDING", "FREEZING", AnalysisOf(Ev(w), job[w].seen), None)
    /\ Goto(w, "FREEZING")

SkipFreeze(w) ==  \* mutant: only the checkpoint
    At(w, "FREEZING") /\ NoCall /\ Goto(w, "frozen")

Freeze(w) ==
    LET analysis == App(w).impact_analysis IN
    /\ At(w, "FREEZING")
    /\ analysis.version = job[w].seen
    /\ InPlanStore(P!ApplyImpactFreeze(Root, job[w].seen, Ev(w), analysis.keys, analysis.room))
    /\ Goto(w, "frozen")

CreateChild(w) ==
    /\ At(w, "frozen")
    /\ \/ InPlanStore(P!CreateOrResume(Child(w)))
       \/ planRun[Child(w)].state # "ABSENT" /\ NoCall
    /\ Goto(w, "recording")

RecordChild(w) ==
    /\ At(w, "recording")
    /\ MoveApplication(w, "FREEZING", "EMERGENCY_RUNNING", None, Child(w))
    /\ Goto(w, "EMERGENCY_RUNNING")

-----------------------------------------------------------------------------
(* _run_child: renew the lease, look at the child, execute one node, again. *)

RenewForChild(w) ==
    /\ At(w, "EMERGENCY_RUNNING")
    /\ InEventStore(Q!Heartbeat(w, Ev(w), clock))
    /\ Goto(w, "polling")

PcAfterChild(state, otherwise) ==
    CASE state = "SUCCEEDED" -> "succeeded" [] state = "FAILED" -> "failing" [] OTHER -> otherwise

\* The emergency worker claims the next node of the child, if none of its
\* resources is held.
PollChild(w) ==
    /\ At(w, "polling")
    /\ \/ /\ planRun[Child(w)].state \in {"SUCCEEDED", "FAILED"}
          /\ Goto(w, PcAfterChild(planRun[Child(w)].state, "polling")) /\ NoCall
       \/ /\ planRun[Child(w)].state \notin {"SUCCEEDED", "FAILED"}
          /\ InPlanStore(P!ClaimReadyNodes(Child(w), clock))
          /\ Goto(w, IF runs' = runs THEN "settling" ELSE "executing")

\* It executes the node it claimed and reports the outcome.
ExecuteChild(w) ==
    /\ At(w, "executing")
    /\ \E n \in P!CurrentNodes(Child(w)), s \in ResultStates : \E i \in DOMAIN runs[n] :
          /\ InPlanStore(P!RecordNodeResult(n, i, s, clock))
          /\ Goto(w, IF s \in {"SUCCEEDED", "FAILED"} THEN "EMERGENCY_RUNNING" ELSE "settling")

\* What became of a child that did not end: a node with an unknown outcome waits
\* for a person; otherwise the event is given back.
SettleChild(w) ==
    /\ At(w, "settling")
    /\ Goto(w, PcAfterChild(planRun[Child(w)].state,
                  IF \E n \in P!CurrentNodes(Child(w)) : node[n].state = "WAITING_RECONCILIATION"
                  THEN "waiting" ELSE "releasing"))
    /\ NoCall

ReleaseEvent(w) ==
    At(w, "releasing") /\ CloseInbox(w, "VERIFIED") /\ Return(w)

\* The checkpoint first, then the inbox.
WaitForHuman(w) ==
    /\ At(w, "waiting")
    /\ MoveApplication(w, "EMERGENCY_RUNNING", "WAITING_RECONCILIATION", None, None)
    /\ Goto(w, "handing")

HandOver(w) ==
    At(w, "handing") /\ CloseInbox(w, "WAITING_HUMAN") /\ Return(w)

\* An application found waiting is left alone, with its event claimed.
StayWaiting(w) ==
    At(w, "WAITING_RECONCILIATION") /\ Return(w) /\ NoCall

CloseInboxOnly(w) ==  \* mutant: no checkpoint
    At(w, "failing") /\ NoCall /\ Goto(w, "FAILED")

ChildFailed(w) ==
    /\ At(w, "failing")
    /\ MoveApplication(w, "EMERGENCY_RUNNING", "FAILED", None, None)
    /\ Goto(w, "FAILED")

CloseFailed(w) ==
    At(w, "FAILED") /\ CloseInbox(w, "FAILED") /\ Return(w)

ChildSucceeded(w) ==
    /\ At(w, "succeeded")
    /\ MoveApplication(w, "EMERGENCY_RUNNING", "REPLAN_READY", None, None)
    /\ Goto(w, "REPLAN_READY")

-----------------------------------------------------------------------------
(* ReplanCoordinator.replan and the end of an event. *)

MergeUnfinished(v) ==  \* mutant: also those whose emergency plan is running
    {e \in Events : /\ application[e][Root].state \in {"EMERGENCY_RUNNING", "REPLAN_READY"}
                    /\ application[e][Root].source_plan_version = v}

\* The events ready on version v, and those v was already published for.
Mergeable(v) ==
    {e \in Events :
        /\ application[e][Root].state = "REPLAN_READY"
        /\ \/ application[e][Root].source_plan_version = v
           \/ e \in version[Root][v].source_event_ids}

\* Cards that no merged event affects and whose result still stands.
ReusableKeys(v, merged) ==
    {k \in P!ProductKeys(Root) :
        /\ \A e \in merged : k \notin application[e][Root].impact_analysis.keys
        /\ P!Reusable(Root, v, k)}

\* replan() reads the plan, its version and the applications.  Nothing to merge
\* raises, unless the latest version is the answer to this very event.
PrepareReplan(w) ==
    LET v == planRun[Root].version  merged == Mergeable(v) IN
    /\ At(w, "REPLAN_READY")
    /\ IF merged = {} /\ version[Root][v].signature # Ev(w)
       THEN Return(w)
       ELSE job' = [job EXCEPT ![w].pc = "publishing", ![w].seen = v,
                               ![w].merged = merged, ![w].reused = ReusableKeys(v, merged)]
    /\ NoCall

\* create_replan_version, the version read before being the expected one.
Publish(w) ==
    LET merged == job[w].merged IN
    /\ At(w, "publishing")
    /\ \/ /\ InPlanStore(P!CreateReplanVersion(Root, job[w].seen, Ev(w), merged,
                                               job[w].reused, job[w].now))
          /\ job' = [job EXCEPT ![w].pc = "marking", ![w].seen = planRun'[Root].version,
                                ![w].reused = {}]
       \/ /\ P!IsReplay(Root, Ev(w), merged) /\ NoCall
          /\ job' = [job EXCEPT ![w].pc = "marking", ![w].seen = planRun[Root].version,
                                ![w].reused = {}]
       \/ InPlanStore(P!RefuseReplan(Root, job[w].seen, Ev(w), merged)) /\ Return(w)

MarkReady(w) ==  \* mutant: every application that is ready now
    /\ At(w, "marking")
    /\ \E f \in Events :
          /\ InEventStore(Q!TransitionApplication(f, Root, "REPLAN_READY", "APPLIED",
                                                  None, None, job[w].seen))
          /\ job' = [job EXCEPT ![w].merged = @ \ {f}]

\* Each merged application becomes APPLIED; one that is already there for the
\* same version is skipped, anything else raises.
MarkApplied(w) ==
    /\ At(w, "marking")
    /\ \E f \in job[w].merged :
          \/ /\ InEventStore(Q!TransitionApplication(f, Root, "REPLAN_READY", "APPLIED",
                                                     None, None, job[w].seen))
             /\ job' = [job EXCEPT ![w].merged = @ \ {f}]
          \/ /\ application[f][Root].state # "REPLAN_READY"
             /\ IF /\ application[f][Root].state = "APPLIED"
                   /\ application[f][Root].applied_plan_version = job[w].seen
                THEN job' = [job EXCEPT ![w].merged = @ \ {f}]
                ELSE Return(w)
             /\ NoCall

\* Back in the coordinator, which looks at its own application.
CheckApplied(w) ==
    /\ At(w, "marking") /\ job[w].merged = {}
    /\ IF App(w).state = "APPLIED"
       THEN job' = [job EXCEPT ![w].pc = "APPLIED", ![w].now = clock]
       ELSE Return(w)
    /\ NoCall

RenewForClose(w) ==
    /\ At(w, "APPLIED")
    /\ InEventStore(Q!Heartbeat(w, Ev(w), job[w].now))
    /\ Goto(w, "closing")

CloseApplied(w) ==
    At(w, "closing") /\ CloseInbox(w, "APPLIED") /\ Return(w)

-----------------------------------------------------------------------------
(* reconcile_waiting, on behalf of a person. *)

\* Nodes of the child whose outcome is unknown.
Waiting(w) == {n \in P!CurrentNodes(Child(w)) : node[n].state = "WAITING_RECONCILIATION"}

ReconcileWaiting(w, e) ==
    /\ At(w, "idle")
    /\ \E pc \in {"confirming", "resuming", "restoring"} :
          /\ CASE pc = "restoring"  -> /\ application[e][Root].state = "EMERGENCY_RUNNING"
                                       /\ inbox[e].state = "WAITING_HUMAN"
               [] pc = "confirming" -> /\ application[e][Root].state = "WAITING_RECONCILIATION"
                                       /\ \E n \in P!CurrentNodes(ChildOf[e]) :
                                             node[n].state = "WAITING_RECONCILIATION"
               [] OTHER             -> /\ application[e][Root].state = "WAITING_RECONCILIATION"
                                       /\ \A n \in P!CurrentNodes(ChildOf[e]) :
                                             node[n].state = "SUCCEEDED"
          /\ job' = [job EXCEPT ![w] = [Idle EXCEPT !.pc = pc, !.event = e, !.now = clock]]
    /\ NoCall

\* The platform confirms the write; the outcome of the node is recorded.
ConfirmChild(w) ==
    /\ At(w, "confirming")
    /\ \E n \in Waiting(w) : InPlanStore(P!ReconcilePlanReference(n, "SUCCEEDED"))
    /\ Goto(w, "resuming")

ResumeApplication(w) ==
    /\ At(w, "resuming")
    /\ MoveApplication(w, "WAITING_RECONCILIATION", "EMERGENCY_RUNNING", None, None)
    /\ Goto(w, "restoring")

RestoreInbox(w) ==
    /\ At(w, "restoring")
    /\ InEventStore(Q!TransitionInbox(w, Ev(w), "WAITING_HUMAN", "VERIFIED", job[w].now))
    /\ Return(w)

-----------------------------------------------------------------------------
\* A call raises, or the process stops.
Crash(w) == ~At(w, "idle") /\ Return(w) /\ NoCall

CoordinatorStep(w) ==
    \/ RunNext(w) \/ ClaimEvent(w) \/ Recheck(w) \/ OpenApplication(w)
    \/ Analyze(w) \/ Freeze(w) \/ CreateChild(w) \/ RecordChild(w)
    \/ RenewForChild(w) \/ PollChild(w) \/ ExecuteChild(w) \/ SettleChild(w)
    \/ ReleaseEvent(w) \/ WaitForHuman(w) \/ HandOver(w) \/ StayWaiting(w)
    \/ ChildFailed(w) \/ CloseFailed(w)
    \/ ChildSucceeded(w) \/ PrepareReplan(w) \/ Publish(w) \/ MarkApplied(w)
    \/ CheckApplied(w) \/ RenewForClose(w) \/ CloseApplied(w)

ReconcileStep(w) ==
    \/ \E e \in Events : ReconcileWaiting(w, e)
    \/ ConfirmChild(w) \/ ResumeApplication(w) \/ RestoreInbox(w)

\* Workers execute the cards of the batch, and a record of an event arrives.
WorkerStep ==
    /\ \/ P!ClaimReadyNodes(Root, clock)
       \/ \E n \in {m \in P!Node : m[1] = Root} :
             \E i \in DOMAIN runs[n] :
                \/ \E f \in Fingerprints : P!RecordNodeInput(n, i, f, clock)
                \/ P!RecordNodeResult(n, i, "SUCCEEDED", clock)
    /\ UNCHANGED <<eventVars, job>>

OpenBatch == P!CreateOrResume(Root) /\ UNCHANGED <<eventVars, job>>
Deliver   == (\E d \in Deliveries : Q!RegisterEvent(d)) /\ UNCHANGED <<planVars, job>>
Tick      == P!Tick /\ UNCHANGED <<eventVars, job>>

Init ==
    /\ P!Init
    /\ Q!InboxInit
    /\ job = [w \in Processes |-> Idle]

Next ==
    \/ Tick \/ OpenBatch \/ Deliver \/ WorkerStep
    \/ \E w \in Processes : CoordinatorStep(w) \/ ReconcileStep(w) \/ Crash(w)

Spec == Init /\ [][Next]_vars

-----------------------------------------------------------------------------
(* What the coordinators promise. *)

TypeOK ==
    /\ P!TypeOK /\ Q!TypeOK
    /\ job \in [Processes -> JobRecord]

\* An APPLIED application names a version that was published for its event.
AppliedIsPublished ==
    \A e \in Events :
        LET app == application[e][Root] IN
        app.state = "APPLIED" =>
            /\ app.applied_plan_version \in 1..planRun[Root].version
            /\ e \in version[Root][app.applied_plan_version].source_event_ids

\* No version is published for an event before its emergency plan has succeeded:
\* the product is off sale before its card batch goes on.
PublishedAfterEmergency ==
    \A e \in Events, v \in Versions :
        e \in version[Root][v].source_event_ids => planRun[ChildOf[e]].state = "SUCCEEDED"

\* The inbox never runs ahead of the application: an event is closed only for
\* what the application already says, and handed to a person only when its
\* emergency plan was left with an unknown outcome.
InboxFollowsApplication ==
    \A e \in Events :
        LET app == application[e][Root] IN
        /\ inbox[e].state = "APPLIED" => app.state = "APPLIED"
        /\ inbox[e].state = "FAILED" => app.state = "FAILED"
        /\ inbox[e].state = "WAITING_HUMAN" => app.emergency_plan # None

\* The card of a product and the sold-out write of the emergency plan that
\* freezes it never run at the same time (claim_ready_nodes of the store).
ResourceExclusion == P!ResourceExclusion

\* Once an event is past its freeze, the affected cards of the version it froze
\* are not started any more.
FrozenWorkStops ==
    [][\A e \in Events :
          LET app == application[e][Root] IN
          app.state \in {"EMERGENCY_RUNNING", "WAITING_RECONCILIATION", "REPLAN_READY", "APPLIED"} =>
            \A k \in app.impact_analysis.keys :
                LET n == <<Root, app.impact_analysis.version, k>> IN
                Len(runs'[n]) = Len(runs[n])]_vars

\* A version takes over no card that ran in the version in which an event froze
\* it, whether or not the event is merged.  (A card that this version had taken
\* over itself has no run there to supersede, and is taken over again.)
ReuseAvoidsFrozen ==
    [][\A e \in Events, k \in KeysOf[Root] :
          LET app == application[e][Root]  v == planRun'[Root].version IN
          /\ v > planRun[Root].version /\ planRun[Root].version > 0
          /\ app.state \in {"EMERGENCY_RUNNING", "WAITING_RECONCILIATION", "REPLAN_READY"}
          /\ app.impact_analysis.version = planRun[Root].version
          /\ k \in app.impact_analysis.keys /\ P!HasRun(<<Root, planRun[Root].version, k>>)
          => ~node'[<<Root, v, k>>].reused]_vars

-----------------------------------------------------------------------------
(* What the documents say and the code does not keep. *)

\* A crash at any step can be continued by the next run_next (docstring of
\* PreemptionCoordinator): when no coordinator is at work, an application that
\* has not ended would be accepted by create_application.
UnfinishedCanResume ==
    \A e \in Events :
        /\ \A w \in Processes : At(w, "idle")
        /\ application[e][Root].state \notin {"ABSENT", "APPLIED", "FAILED"}
        => application[e][Root].source_plan_version = planRun[Root].version

\* An event handed to a person can be taken up again (reconcile_waiting): when no
\* coordinator is at work, its application is in a state that call accepts.
WaitingCanBeTakenUp ==
    \A e \in Events :
        /\ \A w \in Processes : At(w, "idle")
        /\ inbox[e].state = "WAITING_HUMAN"
        => application[e][Root].state \in {"WAITING_RECONCILIATION", "EMERGENCY_RUNNING"}

\* A product that an event froze stays out of the batch until a version merges
\* the event: its cards are not to be started in the current version.
SoldOutStaysOut ==
    \A e \in Events :
        LET app == application[e][Root] IN
        app.state \in {"EMERGENCY_RUNNING", "WAITING_RECONCILIATION", "REPLAN_READY"} =>
            \A k \in app.impact_analysis.keys :
                \/ node[<<Root, planRun[Root].version, k>>].state # "READY"
                \/ e \in version[Root][planRun[Root].version].source_event_ids

=============================================================================
