-------------------------- MODULE PreemptionProofs --------------------------
(* Theorems about Preemption, for any events, plans, DAG, processes and bounds:
   the coordinators use the PlanStore and the Event Store as any caller may, so
   that everything proved of the stores holds of them, and the invariant that
   ties an event, its application, the versions of the batch and the emergency
   plans to what each process remembers. *)
EXTENDS Preemption, TLAPS

PT == INSTANCE PlanStoreTheorems WITH
        CardBatch <- {Root}, Signatures <- Events, Lease <- NodeLease,
        CommandIds <- {}, RetryDelays <- {}, ApprovalTTL <- 0, ReconcileTTL <- 0,
        ClockLag <- 0
QT == INSTANCE EventInboxProofs WITH
        Roots <- {Root}, PlanVersions <- Versions, Lease <- EventLease,
        ClockLag <- MaxClock, Rooms <- {Root}, RoomOf <- [e \in Events |-> Root]

-----------------------------------------------------------------------------
(* What the theorems of the stores assume of their constants. *)

\* The plans and DAGs of the PlanStore.
LEMMA PlanConstants ==
    /\ {Root} \subseteq Plans
    /\ KeysOf \in [Plans -> SUBSET Keys] /\ DependsOn \in [Keys -> SUBSET Keys]
    /\ \A p \in Plans : \A k \in KeysOf[p] : DependsOn[k] \subseteq KeysOf[p]
    /\ RootKeys \subseteq Keys /\ \A k \in RootKeys : DependsOn[k] = {}
    /\ DOMAIN ResourceKeys = Plans /\ \A p \in Plans : DOMAIN ResourceKeys[p] = Keys
    /\ ResultStates \subseteq PT!NodeState
    /\ MaxVersion \in Nat \ {0} /\ NodeLease \in Nat \ {0} /\ ClaimLimit \in Nat \ {0}
    /\ {} \subseteq Nat /\ 0 \in Nat
    /\ MaxClock \in Nat /\ MaxRuns \in Nat \ {0}
    /\ None \notin Int \cup Events \cup Events \cup Fingerprints \cup PT!Node
<1>1. ResultStates \subseteq PT!NodeState
  BY PlansAssumption DEF P!NodeState, PT!NodeState
<1>2. P!Node = PT!Node
  BY DEF P!Node, PT!Node, P!Versions, PT!Versions
<1> QED BY <1>1, <1>2, PlansAssumption, LimitsAssumption, NothingAssumption DEF Plans

\* The events, records and processes of the Event Store.
LEMMA EventConstants ==
    /\ EventOf \in [Deliveries -> Events] /\ DigestOf \in [Deliveries -> Digests]
    /\ ReceivedAt \in [Deliveries -> Nat] /\ WorkerId \in [Processes -> WorkerIds]
    /\ [e \in Events |-> Root] \in [Events -> {Root}]
    /\ EventLease \in Nat \ {0} /\ MaxClock \in Nat /\ MaxToken \in Nat
    /\ None \notin Int \cup Digests \cup WorkerIds \cup Versions
                   \cup Children \cup Analyses \cup QT!OccurrenceKind
<1>1. Q!OccurrenceKind = QT!OccurrenceKind /\ Versions \subseteq Int
  BY LimitsAssumption DEF Q!OccurrenceKind, QT!OccurrenceKind, Versions
<1> QED BY <1>1, EventsAssumption, LimitsAssumption, NothingAssumption

\* The stores of the proofs are the stores of the coordinators.
LEMMA SameInits == (P!Init => PT!Init) /\ (clock = 0 /\ Q!InboxInit => QT!Init)
BY DEF P!Init, PT!Init, P!AbsentPlan, PT!AbsentPlan, P!AbsentNode, PT!AbsentNode,
       P!FirstVersion, PT!FirstVersion, P!Node, PT!Node, P!Versions, PT!Versions,
       Q!InboxInit, QT!Init, QT!InboxInit, Q!AbsentEvent, QT!AbsentEvent,
       Q!AbsentApplication, QT!AbsentApplication

\* So are their steps, operation for operation.
LEMMA SamePlanSteps == [P!Next]_(P!vars) => [PT!Next]_(PT!vars)
BY Zenon DEF P!Next, PT!Next, P!AwaitedStatus, PT!AwaitedStatus, P!IsReplay,
    PT!IsReplay, P!IsCurrent, PT!IsCurrent, P!DueRetries, PT!DueRetries,
    P!HoldsResources, PT!HoldsResources, P!RecordNodeResult, PT!RecordNodeResult,
    P!Freezable, PT!Freezable, P!ClearReconciliationFailure,
    PT!ClearReconciliationFailure, P!OperatorStep, PT!OperatorStep, P!Resume, PT!Resume,
    P!vars, PT!vars, P!DependencyClosure, PT!DependencyClosure, P!ReplanStep,
    PT!ReplanStep, P!LockedResources, PT!LockedResources, P!NodeState, PT!NodeState,
    P!Transitions, PT!Transitions, P!AllSucceeded, PT!AllSucceeded, P!Precedes,
    PT!Precedes, P!Picks, PT!Picks, P!Cardinality, PT!Cardinality,
    P!RecordReconciliationFailure, PT!RecordReconciliationFailure, P!ProductKeys,
    PT!ProductKeys, P!TTL, PT!TTL, P!Evidence, PT!Evidence, P!RecordNodeInput,
    PT!RecordNodeInput, P!CloseReconciliation, PT!CloseReconciliation,
    P!ReconcilePlanReference, PT!ReconcilePlanReference, P!IssueResume, PT!IssueResume,
    P!Conflict, PT!Conflict, P!ReclaimExpiredNode, PT!ReclaimExpiredNode, P!HoldsClaim,
    PT!HoldsClaim, P!HeartbeatNodeRun, PT!HeartbeatNodeRun, P!WithDependentsReady,
    PT!WithDependentsReady, P!FreezeStep, PT!FreezeStep, P!NewNode, PT!NewNode,
    P!BlockedByIncident, PT!BlockedByIncident, P!WithNewNodes, PT!WithNewNodes,
    P!Approve, PT!Approve, P!Tick, PT!Tick, P!Claim, PT!Claim, P!Promoted, PT!Promoted,
    P!CurrentNodes, PT!CurrentNodes, P!LoopsOrExhausted, PT!LoopsOrExhausted,
    P!Reusable, PT!Reusable, P!Schedulable, PT!Schedulable, P!ClaimReadyNodes,
    PT!ClaimReadyNodes, P!FreezePlan, PT!FreezePlan, P!ClaimNextReadyNodes,
    PT!ClaimNextReadyNodes, P!RefuseReplan, PT!RefuseReplan, P!ScheduleRetry,
    PT!ScheduleRetry, P!SubmitCommand, PT!SubmitCommand, P!Reject, PT!Reject,
    P!Reclaimable, PT!Reclaimable, P!WorkerStep, PT!WorkerStep, P!CloseNode,
    PT!CloseNode, P!ReconcileStep, PT!ReconcileStep, P!Versions, PT!Versions,
    P!ApplyImpactFreeze, PT!ApplyImpactFreeze, P!LastRun, PT!LastRun, P!PlanAfter,
    PT!PlanAfter, P!Resources, PT!Resources, P!IssueNodeCommand, PT!IssueNodeCommand,
    P!CreateReplanVersion, PT!CreateReplanVersion, P!HasRun, PT!HasRun,
    P!CreateOrResume, PT!CreateOrResume, P!Now, PT!Now, P!NewRun, PT!NewRun, P!Verdict,
    PT!Verdict, P!Dependencies, PT!Dependencies, P!Node, PT!Node, P!Resumable,
    PT!Resumable

LEMMA SameEventSteps == [Q!Next]_(Q!vars) => [QT!Next]_(QT!vars)
BY Zenon DEF Q!Next, QT!Next, Q!InboxTick, QT!InboxTick, Q!inboxVars, QT!inboxVars,
    Q!RegisterEvent, QT!RegisterEvent, Q!KindOf, QT!KindOf, Q!Registered, QT!Registered,
    Q!Accepted, QT!Accepted, Q!AbsentEvent, QT!AbsentEvent, Q!Conflicted, QT!Conflicted,
    Q!ClaimStep, QT!ClaimStep, Q!Abandon, QT!Abandon, Q!Now, QT!Now, Q!Scopes,
    QT!Scopes, Q!ClaimNext, QT!ClaimNext, Q!Claimable, QT!Claimable, Q!Claimed,
    QT!Claimed, Q!Heartbeat, QT!Heartbeat, Q!HoldsEvent, QT!HoldsEvent, Q!InboxState,
    QT!InboxState, Q!TransitionInbox, QT!TransitionInbox, Q!InboxTransitions,
    QT!InboxTransitions, Q!Closed, QT!Closed, Q!ApplicationStep, QT!ApplicationStep,
    Q!CreateApplication, QT!CreateApplication, Q!AbsentApplication,
    QT!AbsentApplication, Q!ApplicationState, QT!ApplicationState,
    Q!TransitionApplication, QT!TransitionApplication, Q!ApplicationTransitions,
    QT!ApplicationTransitions, Q!WriteOnce, QT!WriteOnce, Q!Merged, QT!Merged, Q!vars,
    QT!vars

-----------------------------------------------------------------------------
(* The invariant. *)

\* An application that reached any of these is past its freeze.
PastFreeze == {"EMERGENCY_RUNNING", "WAITING_RECONCILIATION", "REPLAN_READY", "APPLIED", "FAILED"}

\* Steps of a process that has read the version of the batch.
AtRoot == Step \ {"idle", "checked", "claimed", "confirming", "resuming", "restoring"}

Impact(e) == application[e][Root].impact_analysis

\* The stored analysis is the one the analyzer makes, for a version that exists.
Analysed(e) ==
    /\ Impact(e) \in Analyses /\ Impact(e).version <= planRun[Root].version
    /\ Impact(e) = AnalysisOf(e, Impact(e).version)

\* No attempt of n will start, and the last one, if any, is superseded.
Halted(n) ==
    /\ node[n].state \notin P!Freezable
    /\ P!HasRun(n) => P!LastRun(n).superseded_by # None

Stopped(e) ==
    /\ Analysed(e)
    /\ \A k \in Impact(e).keys : Halted(<<Root, Impact(e).version, k>>)

Succeeded(e) == planRun[ChildOf[e]].state = "SUCCEEDED"

ApplicationInv(e) ==
    LET app == application[e][Root] IN
    /\ app.state \notin {"ABSENT", "PENDING"} => Analysed(e)
    /\ app.state \in PastFreeze => Stopped(e) /\ app.emergency_plan # None
    /\ app.state \in {"REPLAN_READY", "APPLIED"} => Succeeded(e)
    /\ app.state = "APPLIED" =>
          /\ app.applied_plan_version \in 1..planRun[Root].version
          /\ e \in version[Root][app.applied_plan_version].source_event_ids

\* The application allows the event to be in state s.
Permits(e, s) ==
    LET app == application[e][Root] IN
    /\ s = "APPLIED" => app.state = "APPLIED"
    /\ s = "FAILED" => app.state = "FAILED"
    /\ s = "WAITING_HUMAN" => app.emergency_plan # None

InboxFollows(e) == Permits(e, inbox[e].state)

\* What a process at pc may rely on about its event.
Expects(pc, e) ==
    LET app == application[e][Root] IN
    /\ pc = "FREEZING" => app.state \notin {"ABSENT", "PENDING"}
    /\ pc \in {"frozen", "recording"} => Stopped(e)
    /\ pc = "succeeded" => Succeeded(e)
    /\ pc = "handing" => app.emergency_plan # None
    /\ pc \in {"APPLIED", "closing"} => app.state = "APPLIED"
    /\ pc = "FAILED" => app.state = "FAILED"

\* What it may rely on when it remembers j.
Recalled(j) ==
    /\ j.pc \notin {"idle", "checked"} => j.event \in Events /\ Expects(j.pc, j.event)
    /\ j.now <= clock
    /\ j.pc \in AtRoot => j.seen \in 1..planRun[Root].version
    /\ j.pc = "publishing" =>
          /\ \A f \in j.merged : Succeeded(f)
          /\ j.merged = {} => version[Root][j.seen].signature = j.event
          /\ j.reused \subseteq P!ProductKeys(Root)
    /\ j.pc = "marking" => j.merged \subseteq version[Root][j.seen].source_event_ids

JobInv(w) == Recalled(job[w])

StoresInv ==
    /\ PT!StoreInv /\ PT!NodeInv /\ PT!SuccessIsComplete
    /\ QT!InboxInv /\ QT!AbsentApplicationsAreBlank

\* Nobody reports a checkpoint mismatch of the batch.
NoIncident == ~planRun[Root].reconciliation_required

CoordinationInv ==
    /\ NoIncident
    /\ job \in [Processes -> JobRecord]
    /\ \A w \in Processes : JobInv(w)
    /\ \A e \in Events : ApplicationInv(e) /\ InboxFollows(e)
    /\ PublishedAfterEmergency

Inv == StoresInv /\ CoordinationInv

\* What the invariant of the stores says of their rows.
LEMMA StoreRows ==
    ASSUME StoresInv
    PROVE  /\ clock \in 0..MaxClock /\ clock \in Int
           /\ planRun \in [Plans -> P!PlanRunRecord]
           /\ version \in [Plans -> [Versions -> P!VersionRecord]]
           /\ node \in [P!Node -> P!NodeRecord]
           /\ runs \in [P!Node -> Seq(P!NodeRunRecord)]
           /\ \A p \in Plans : planRun[p].version \in Nat /\ planRun[p].version <= MaxVersion
           /\ \A p \in Plans : planRun[p].state = "ABSENT" <=> planRun[p].version = 0
           /\ \A n \in P!Node : node[n].state = "ABSENT" <=> planRun[n[1]].version < n[2]
           /\ P!SuccessIsComplete
           /\ inbox \in [Events -> Q!InboxRecord]
           /\ occurrence \in [Deliveries -> Q!OccurrenceKind \cup {None}]
           /\ claim \in [Processes -> Q!ClaimRecord \cup {None}]
           /\ application \in [Events -> [{Root} -> Q!ApplicationRecord]]
<1>1. clock \in 0..MaxClock /\ clock \in Int
  BY LimitsAssumption DEF StoresInv, QT!InboxInv, QT!TypeOK, QT!Clock
<1>2. /\ planRun \in [Plans -> P!PlanRunRecord]
      /\ version \in [Plans -> [Versions -> P!VersionRecord]]
      /\ node \in [P!Node -> P!NodeRecord]
      /\ runs \in [P!Node -> Seq(P!NodeRunRecord)]
  BY Zenon DEF StoresInv, PT!StoreInv, PT!TypeOK, P!PlanRunRecord, PT!PlanRunRecord, P!PlanState,
     PT!PlanState, P!VersionRecord, PT!VersionRecord, P!Node, PT!Node, P!Versions, PT!Versions,
     Versions, P!NodeRecord, PT!NodeRecord, P!NodeState, PT!NodeState,
     P!NodeRunRecord, PT!NodeRunRecord
<1>3. \A p \in Plans : planRun[p].version \in Nat /\ planRun[p].version <= MaxVersion
  BY <1>2, LimitsAssumption DEF P!PlanRunRecord
<1>4. \A p \in Plans : planRun[p].state = "ABSENT" <=> planRun[p].version = 0
  BY DEF StoresInv, PT!StoreInv, PT!VersionsExist
<1>5. \A n \in P!Node : node[n].state = "ABSENT" <=> planRun[n[1]].version < n[2]
  BY DEF StoresInv, PT!StoreInv, PT!VersionsExist, P!Node, PT!Node, P!Versions, PT!Versions
<1>6. P!SuccessIsComplete
  BY Zenon DEF StoresInv, P!SuccessIsComplete, PT!SuccessIsComplete, P!CurrentNodes,
     PT!CurrentNodes, P!Node, PT!Node, P!Versions, PT!Versions
<1>7. /\ inbox \in [Events -> Q!InboxRecord]
      /\ occurrence \in [Deliveries -> Q!OccurrenceKind \cup {None}]
      /\ claim \in [Processes -> Q!ClaimRecord \cup {None}]
      /\ application \in [Events -> [{Root} -> Q!ApplicationRecord]]
  BY Zenon DEF StoresInv, QT!InboxInv, QT!TypeOK, Q!InboxRecord, QT!InboxRecord, Q!InboxState,
     QT!InboxState, Q!ClaimRecord, QT!ClaimRecord, Q!ApplicationRecord, QT!ApplicationRecord,
     Q!ApplicationState, QT!ApplicationState, Q!OccurrenceKind, QT!OccurrenceKind
<1> QED BY <1>1, <1>2, <1>3, <1>4, <1>5, <1>6, <1>7

-----------------------------------------------------------------------------
(* The calls a step makes are calls of the stores. *)

\* Calls about one emergency plan, and about the batch.
ChildCall(c) ==
    \/ P!CreateOrResume(c) \/ P!ClaimReadyNodes(c, clock)
    \/ \E n \in P!CurrentNodes(c) :
          \/ \E i \in DOMAIN runs[n], s \in ResultStates : P!RecordNodeResult(n, i, s, clock)
          \/ P!ReconcilePlanReference(n, "SUCCEEDED")
BatchCall ==
    \/ P!CreateOrResume(Root) \/ P!ClaimReadyNodes(Root, clock)
    \/ \E n \in P!Node : \E i \in DOMAIN runs[n] :
          /\ n[1] = Root
          /\ \/ \E f \in Fingerprints : P!RecordNodeInput(n, i, f, clock)
             \/ P!RecordNodeResult(n, i, "SUCCEEDED", clock)
PlanCall == (\E c \in Children : ChildCall(c)) \/ BatchCall \/ P!FreezeStep \/ P!ReplanStep

\* An emergency plan is a plan, and the batch is no emergency plan.
LEMMA Parts == /\ Root \in Plans /\ Root \notin Children /\ Children \subseteq Plans
               /\ \A e \in Events : ChildOf[e] \in Children
BY PlansAssumption DEF Plans

\* A call about plans is an action of the PlanStore.
LEMMA PlanCallIsStep == ASSUME StoresInv, PlanCall PROVE P!Next
<1>1. clock \in P!Now
  BY StoreRows DEF P!Now
<1>2. ASSUME NEW c \in Children, ChildCall(c) PROVE P!Next
  <2>1. c \in Plans /\ P!CurrentNodes(c) \subseteq P!Node
    BY Parts DEF P!CurrentNodes
  <2>2. ASSUME NEW n \in P!CurrentNodes(c), NEW i \in DOMAIN runs[n], NEW s \in ResultStates,
               P!RecordNodeResult(n, i, s, clock)
        PROVE P!Next
    BY <1>1, <2>1, <2>2 DEF P!Next, P!WorkerStep
  <2>3. ASSUME P!ClaimReadyNodes(c, clock) PROVE P!Next
    BY <1>1, <2>1, <2>3 DEF P!Next, P!WorkerStep
  <2> QED BY <1>2, <2>1, <2>2, <2>3 DEF ChildCall, P!Next, P!ReconcileStep
<1>3. ASSUME BatchCall PROVE P!Next
  <2>1. ASSUME NEW n \in P!Node, NEW i \in DOMAIN runs[n],
               \/ \E f \in Fingerprints : P!RecordNodeInput(n, i, f, clock)
               \/ P!RecordNodeResult(n, i, "SUCCEEDED", clock)
        PROVE P!Next
    BY <1>1, <2>1, PlansAssumption DEF P!Next, P!WorkerStep
  <2>2. ASSUME P!ClaimReadyNodes(Root, clock) PROVE P!Next
    BY <1>1, Parts, <2>2 DEF P!Next, P!WorkerStep
  <2> QED BY <1>3, Parts, <2>1, <2>2 DEF BatchCall, P!Next
<1> QED BY <1>2, <1>3 DEF PlanCall, P!Next

\* A call leaves the clock alone.
LEMMA PlanCallKeepsClock == ASSUME PlanCall PROVE clock' = clock
<1>1. ASSUME NEW n, NEW i, NEW s, NEW t, P!RecordNodeResult(n, i, s, t) PROVE clock' = clock
  BY <1>1 DEF P!RecordNodeResult
<1>2. ASSUME NEW p, NEW t, P!ClaimReadyNodes(p, t) PROVE clock' = clock
  BY <1>2 DEF P!ClaimReadyNodes, P!Claim
<1>3. ASSUME NEW p, P!CreateOrResume(p) PROVE clock' = clock
  BY <1>3 DEF P!CreateOrResume
<1>4. ASSUME P!FreezeStep PROVE clock' = clock
  BY <1>4 DEF P!FreezeStep, P!ApplyImpactFreeze
<1>5. ASSUME P!ReplanStep PROVE clock' = clock
  BY <1>5 DEF P!ReplanStep, P!CreateReplanVersion, P!RefuseReplan
<1>6. ASSUME NEW n, P!ReconcilePlanReference(n, "SUCCEEDED") PROVE clock' = clock
  BY <1>6 DEF P!ReconcilePlanReference
<1>7. ASSUME NEW n, NEW i, NEW f, NEW t, P!RecordNodeInput(n, i, f, t) PROVE clock' = clock
  BY <1>7 DEF P!RecordNodeInput
<1> QED BY <1>1, <1>2, <1>3, <1>4, <1>5, <1>6, <1>7 DEF PlanCall, ChildCall, BatchCall

\* The calls of a coordinator on the Event Store, with the arguments it passes.
EventCall ==
    \/ \E d \in Deliveries : Q!RegisterEvent(d)
    \/ \E w \in Processes, t \in 0..clock :
          \/ Q!ClaimNext(w, t, Events)
          \/ \E e \in Events :
                \/ Q!Heartbeat(w, e, t)
                \/ \E expected, target \in Q!InboxState : Q!TransitionInbox(w, e, expected, target, t)
    \/ \E e \in Events :
          \/ \E v \in Versions : Q!CreateApplication(e, Root, v)
          \/ \E expected, target \in Q!ApplicationState, analysis \in Analyses \cup {None},
                child \in Children \cup {None}, applied \in Versions \cup {None} :
                Q!TransitionApplication(e, Root, expected, target, analysis, child, applied)

\* They are actions of the Event Store, and leave the clock alone.
LEMMA EventCallIsStep == ASSUME StoresInv, EventCall PROVE Q!Next /\ clock' = clock
<1>1. 0..clock \subseteq Q!Now /\ Events \in Q!Scopes
  BY StoreRows, LimitsAssumption DEF Q!Now, Q!Scopes
<1>2. CASE \E d \in Deliveries : Q!RegisterEvent(d)
  BY <1>2 DEF Q!Next, Q!RegisterEvent
<1>3. ASSUME NEW w \in Processes, NEW t \in 0..clock,
             \/ Q!ClaimNext(w, t, Events)
             \/ \E e \in Events :
                \/ Q!Heartbeat(w, e, t)
                \/ \E expected, target \in Q!InboxState : Q!TransitionInbox(w, e, expected, target, t)
      PROVE  Q!Next /\ clock' = clock
  <2>1. Q!ClaimStep
    BY <1>1, <1>3 DEF Q!ClaimStep
  <2>2. clock' = clock
    BY <1>3 DEF Q!ClaimNext, Q!Heartbeat, Q!TransitionInbox
  <2> QED BY <2>1, <2>2 DEF Q!Next
<1>4. ASSUME NEW e \in Events,
          \/ \E v \in Versions : Q!CreateApplication(e, Root, v)
          \/ \E expected, target \in Q!ApplicationState, analysis \in Analyses \cup {None},
                child \in Children \cup {None}, applied \in Versions \cup {None} :
                Q!TransitionApplication(e, Root, expected, target, analysis, child, applied)
      PROVE  Q!Next /\ clock' = clock
  <2>1. Q!ApplicationStep
    BY <1>4 DEF Q!ApplicationStep
  <2>2. clock' = clock
    BY <1>4 DEF Q!CreateApplication, Q!TransitionApplication
  <2> QED BY <2>1, <2>2 DEF Q!Next
<1> QED BY <1>2, <1>3, <1>4 DEF EventCall

-----------------------------------------------------------------------------
(* What each action calls. *)

\* One call of one store, or of none.
Calls ==
    \/ PlanCall /\ UNCHANGED eventVars
    \/ EventCall /\ UNCHANGED planVars
    \/ NoCall

\* Where a process stands, by what it remembers.
LEMMA Remembers ==
    ASSUME Inv, NEW w \in Processes
    PROVE  /\ job[w] \in JobRecord /\ JobInv(w)
           /\ job[w].now \in 0..clock
           /\ job[w].pc \in AtRoot => job[w].seen \in Versions /\ planRun[Root].state # "ABSENT"
           /\ Ev(w) \in Events =>
                /\ ApplicationInv(Ev(w)) /\ InboxFollows(Ev(w)) /\ Child(w) \in Children
                /\ App(w) \in Q!ApplicationRecord
<1>1. job[w] \in JobRecord /\ JobInv(w) /\ StoresInv
  BY DEF Inv, CoordinationInv
<1>2. job[w].now \in 0..clock
  BY <1>1, StoreRows, LimitsAssumption DEF JobRecord, JobInv, Recalled, Expects, Ev, Q!Clock
<1>3. job[w].pc \in AtRoot => job[w].seen \in Versions /\ planRun[Root].state # "ABSENT"
  <2>1. /\ planRun[Root].version \in Nat /\ planRun[Root].version <= MaxVersion
        /\ planRun[Root].state = "ABSENT" <=> planRun[Root].version = 0
    BY <1>1, StoreRows, Parts
  <2> QED BY <1>1, <2>1, LimitsAssumption DEF JobInv, Recalled, Expects, Ev, Versions
<1>4. Ev(w) \in Events => App(w) \in Q!ApplicationRecord
  BY <1>1, StoreRows DEF App
<1> QED BY <1>1, <1>2, <1>3, <1>4, Parts DEF Inv, CoordinationInv, Child

\* An event leaves PROCESSING by the process that claimed it.
LEMMA ClosingCalls ==
    ASSUME Inv, NEW w \in Processes, Ev(w) \in Events, NEW target \in Q!InboxState,
           CloseInbox(w, target)
    PROVE  Calls
<1>1. job[w].now \in 0..clock /\ "PROCESSING" \in Q!InboxState
  BY Remembers DEF Q!InboxState
<1> QED BY <1>1, Zenon DEF CloseInbox, InEventStore, Calls, EventCall

\* An application moves on.
LEMMA MovingCalls ==
    ASSUME Inv, NEW w \in Processes, Ev(w) \in Events,
           NEW expected \in Q!ApplicationState, NEW target \in Q!ApplicationState,
           NEW analysis \in Analyses \cup {None}, NEW child \in Children \cup {None},
           MoveApplication(w, expected, target, analysis, child)
    PROVE  Calls
<1>1. Q!TransitionApplication(Ev(w), Root, expected, target, analysis, child, None) /\ UNCHANGED planVars
  BY DEF MoveApplication, InEventStore
<1>2. EventCall
  BY <1>1, Zenon DEF EventCall
<1> QED BY <1>1, <1>2 DEF Calls

\* The analyzer of one version.
LEMMA AnalysisType ==
    ASSUME NEW e \in Events, NEW v \in Versions
    PROVE  /\ AnalysisOf(e, v) \in Analyses /\ AnalysisOf(e, v).version = v
           /\ AnalysisOf(e, v).keys \subseteq KeysOf[Root]
           /\ AnalysisOf(e, v) # None
<1>1. KeysOf[Root] \subseteq Keys
  BY PlansAssumption, Parts
<1>2. AnalysisOf(e, v) \in Analyses /\ AnalysisOf(e, v).version = v
      /\ AnalysisOf(e, v).keys \subseteq KeysOf[Root]
  BY <1>1 DEF AnalysisOf, Analyses, P!DependencyClosure
<1> QED BY <1>2, NothingAssumption

\* A freeze by the stored analysis is a freeze by the closure of a product's
\* cards, or of everything.
LEMMA FreezeCalls ==
    ASSUME Inv, NEW w \in Processes, Freeze(w)
    PROVE  Calls
<1>1. job[w].pc = "FREEZING" /\ Ev(w) \in Events /\ job[w].seen \in Versions
      /\ Analysed(Ev(w)) /\ Impact(Ev(w)).version = job[w].seen
  BY Remembers DEF Freeze, At, JobInv, Recalled, Expects, Ev, ApplicationInv, AtRoot, App, Impact, Step,
     Q!ApplicationState
<1>2. P!ApplyImpactFreeze(Root, job[w].seen, Ev(w), Impact(Ev(w)).keys, Impact(Ev(w)).room)
      /\ UNCHANGED eventVars
  BY DEF Freeze, InPlanStore, App, Impact
<1> DEFINE direct == {k \in KeysOf[Root] : ProductOf[Ev(w)] \in ResourceKeys[Root][k]}
<1>3. /\ Impact(Ev(w)).room = (direct = {})
      /\ Impact(Ev(w)).keys = IF direct = {} THEN KeysOf[Root] ELSE P!DependencyClosure(Root, direct)
  <2>1. AnalysisOf(Ev(w), job[w].seen) =
          [version |-> job[w].seen, room |-> direct = {},
           keys |-> IF direct = {} THEN KeysOf[Root] ELSE P!DependencyClosure(Root, direct)]
    BY DEF AnalysisOf
  <2> HIDE DEF direct
  <2> QED BY <1>1, <2>1 DEF Analysed
<1>4. Impact(Ev(w)).room \in BOOLEAN
  BY <1>1 DEF Analysed, Analyses
<1>5. direct \subseteq P!ProductKeys(Root)
  BY DEF P!ProductKeys
<1>6. CASE direct = {}
  <2>1. P!ApplyImpactFreeze(Root, job[w].seen, Ev(w), KeysOf[Root], TRUE)
    BY <1>2, <1>3, <1>4, <1>6
  <2> QED BY <1>1, <1>2, <2>1 DEF Calls, PlanCall, P!FreezeStep, P!Versions, Versions
<1>7. CASE direct # {}
  <2>1. P!ApplyImpactFreeze(Root, job[w].seen, Ev(w), P!DependencyClosure(Root, direct), FALSE)
    BY <1>2, <1>3, <1>4, <1>7
  <2>2. direct \in (SUBSET P!ProductKeys(Root)) \ {{}}
    BY <1>5, <1>7
  <2> HIDE DEF direct
  <2>3. P!FreezeStep
    BY <1>1, <2>1, <2>2 DEF P!FreezeStep, P!Versions, Versions
  <2> QED BY <1>2, <2>3 DEF Calls, PlanCall
<1> QED BY <1>6, <1>7

\* A replan passes an event to merge: without one, the latest version is the
\* answer to this event, and create_replan_version returns it.
LEMMA PublishCalls ==
    ASSUME Inv, NEW w \in Processes, Publish(w)
    PROVE  Calls
<1> DEFINE merged == job[w].merged
           seen   == job[w].seen
<1>1. /\ Ev(w) \in Events /\ seen \in Versions /\ job[w].now \in 0..clock
      /\ merged \subseteq Events /\ job[w].reused \in SUBSET P!ProductKeys(Root)
      /\ merged = {} => version[Root][seen].signature = Ev(w)
  BY Remembers DEF Publish, At, JobInv, Recalled, Expects, Ev, AtRoot, Step, JobRecord
<1>2. \/ P!CreateReplanVersion(Root, seen, Ev(w), merged, job[w].reused, job[w].now)
         /\ UNCHANGED eventVars
      \/ NoCall
      \/ P!RefuseReplan(Root, seen, Ev(w), merged) /\ UNCHANGED eventVars
  BY DEF Publish, InPlanStore
<1> HIDE DEF merged, seen
<1>3. ASSUME P!CreateReplanVersion(Root, seen, Ev(w), merged, job[w].reused, job[w].now)
      PROVE  P!ReplanStep
  <2>1. merged # {}
    BY <1>1, <1>3 DEF P!CreateReplanVersion
  <2>2. merged \in (SUBSET Events) \ {{}} /\ seen \in P!Versions /\ Root \in {Root}
    BY <1>1, <2>1 DEF Versions, P!Versions
  <2> QED BY <1>1, <1>3, <2>2, Zenon DEF P!ReplanStep
<1>4. ASSUME P!RefuseReplan(Root, seen, Ev(w), merged)
      PROVE  P!ReplanStep
  <2>1. merged # {}
    BY <1>1, <1>4 DEF P!RefuseReplan, P!IsReplay
  <2>2. merged \in (SUBSET Events) \ {{}} /\ seen \in P!Versions /\ Root \in {Root}
    BY <1>1, <2>1 DEF Versions, P!Versions
  <2> QED BY <1>1, <1>4, <2>2, Zenon DEF P!ReplanStep
<1> QED BY <1>2, <1>3, <1>4, Zenon DEF Calls, PlanCall

\* Marking an application applied.
LEMMA MarkCalls ==
    ASSUME Inv, NEW w \in Processes, MarkApplied(w)
    PROVE  Calls
<1>1. job[w].seen \in Versions /\ job[w].merged \subseteq Events
  BY Remembers DEF MarkApplied, At, AtRoot, Step, JobRecord
<1>2. PICK f \in job[w].merged :
         \/ InEventStore(Q!TransitionApplication(f, Root, "REPLAN_READY", "APPLIED",
                                                 None, None, job[w].seen))
         \/ NoCall
  BY DEF MarkApplied
<1>3. f \in Events /\ "REPLAN_READY" \in Q!ApplicationState /\ "APPLIED" \in Q!ApplicationState
  BY <1>1 DEF Q!ApplicationState
<1>4. ASSUME InEventStore(Q!TransitionApplication(f, Root, "REPLAN_READY", "APPLIED",
                                                 None, None, job[w].seen))
      PROVE  EventCall /\ UNCHANGED planVars
  BY <1>1, <1>3, <1>4 DEF InEventStore, EventCall
<1> QED BY <1>2, <1>4 DEF Calls

\* Calls about the emergency plan of the event.
LEMMA ChildCalls ==
    ASSUME Inv, NEW w \in Processes,
           CreateChild(w) \/ PollChild(w) \/ ExecuteChild(w) \/ ConfirmChild(w)
    PROVE  Calls
<1>1. Child(w) \in Children
  BY Remembers DEF CreateChild, PollChild, ExecuteChild, ConfirmChild, At, JobInv, Recalled, Expects, Ev
<1>2. CASE CreateChild(w)
  BY <1>1, <1>2 DEF CreateChild, InPlanStore, Calls, PlanCall, ChildCall
<1>3. CASE PollChild(w)
  BY <1>1, <1>3 DEF PollChild, InPlanStore, Calls, PlanCall, ChildCall
<1>4. CASE ExecuteChild(w)
  BY <1>1, <1>4 DEF ExecuteChild, InPlanStore, Calls, PlanCall, ChildCall
<1>5. CASE ConfirmChild(w)
  <2>1. PICK n \in Waiting(w) : P!ReconcilePlanReference(n, "SUCCEEDED") /\ UNCHANGED eventVars
    BY <1>5 DEF ConfirmChild, InPlanStore
  <2>2. n \in P!CurrentNodes(Child(w))
    BY DEF Waiting
  <2> QED BY <1>1, <2>1, <2>2 DEF Calls, PlanCall, ChildCall
<1> QED BY <1>2, <1>3, <1>4, <1>5

\* Every step of a process is one call.
LEMMA ProcessCalls ==
    ASSUME Inv, NEW w \in Processes, CoordinatorStep(w) \/ ReconcileStep(w) \/ Crash(w)
    PROVE  Calls
<1>1. /\ job[w].now \in 0..clock
      /\ job[w].pc \notin {"idle", "checked"} => Ev(w) \in Events
      /\ job[w].pc \in AtRoot => job[w].seen \in Versions
  BY Remembers DEF JobInv, Recalled, Expects, Ev
<1>2. CASE RunNext(w) \/ StayWaiting(w) \/ SettleChild(w) \/ PrepareReplan(w) \/ CheckApplied(w)
           \/ Crash(w) \/ \E e \in Events : ReconcileWaiting(w, e)
  BY <1>2, Zenon DEF RunNext, StayWaiting, SettleChild, PrepareReplan, CheckApplied, Crash,
     ReconcileWaiting, Calls
<1>3. CASE ClaimEvent(w)
  BY <1>1, <1>3 DEF ClaimEvent, InEventStore, Calls, EventCall
<1>4. CASE Recheck(w) \/ ReleaseEvent(w) \/ HandOver(w) \/ CloseFailed(w) \/ CloseApplied(w)
  <2>1. Ev(w) \in Events
    BY <1>1, <1>4 DEF Recheck, ReleaseEvent, HandOver, CloseFailed, CloseApplied, At
  <2>2. {"VERIFIED", "WAITING_HUMAN", "FAILED", "APPLIED"} \subseteq Q!InboxState
    BY DEF Q!InboxState
  <2>3. NoCall \/ \E target \in Q!InboxState : CloseInbox(w, target)
    BY <1>4, <2>2 DEF Recheck, ReleaseEvent, HandOver, CloseFailed, CloseApplied
  <2> QED BY <2>1, <2>3, ClosingCalls DEF Calls
<1>5. CASE OpenApplication(w)
  <2>1. Ev(w) \in Events /\ job[w].seen \in Versions
    BY <1>1, <1>5 DEF OpenApplication, At, AtRoot, Step
  <2> QED BY <1>5, <2>1 DEF OpenApplication, InEventStore, Calls, EventCall
<1>6. CASE Analyze(w) \/ RecordChild(w) \/ WaitForHuman(w) \/ ChildFailed(w) \/ ChildSucceeded(w)
           \/ ResumeApplication(w)
  <2>1. Ev(w) \in Events /\ Child(w) \in Children
    BY <1>1, <1>6, Parts DEF Analyze, RecordChild, WaitForHuman, ChildFailed, ChildSucceeded,
       ResumeApplication, At, Child
  <2>2. CASE Analyze(w)
    <3>1. AnalysisOf(Ev(w), job[w].seen) \in Analyses
      BY <1>1, <2>1, <2>2, AnalysisType DEF Analyze, At, AtRoot, Step, Q!ApplicationState
    <3> QED BY <2>1, <2>2, <3>1, MovingCalls DEF Analyze, Q!ApplicationState
  <2>3. \E expected, target \in Q!ApplicationState, child \in Children \cup {None} :
           MoveApplication(w, expected, target, None, child)
        \/ Analyze(w)
    BY <1>6, <2>1 DEF RecordChild, WaitForHuman, ChildFailed, ChildSucceeded,
       ResumeApplication, Q!ApplicationState
  <2> QED BY <2>1, <2>2, <2>3, MovingCalls
<1>7. CASE Freeze(w)
  BY <1>7, FreezeCalls
<1>8. CASE CreateChild(w) \/ PollChild(w) \/ ExecuteChild(w) \/ ConfirmChild(w)
  BY <1>8, ChildCalls
<1>9. CASE RenewForChild(w) \/ RenewForClose(w)
  <2>1. Ev(w) \in Events /\ \E t \in 0..clock : InEventStore(Q!Heartbeat(w, Ev(w), t))
    BY <1>1, <1>9, StoreRows DEF RenewForChild, RenewForClose, At, Inv
  <2> QED BY <2>1 DEF InEventStore, Calls, EventCall
<1>10. CASE Publish(w) \/ MarkApplied(w)
  BY <1>10, PublishCalls, MarkCalls
<1>11. CASE RestoreInbox(w)
  <2>1. Ev(w) \in Events /\ {"WAITING_HUMAN", "VERIFIED"} \subseteq Q!InboxState
    BY <1>1, <1>11 DEF RestoreInbox, At, Q!InboxState
  <2> QED BY <1>1, <1>11, <2>1 DEF RestoreInbox, InEventStore, Calls, EventCall
<1> QED BY <1>2, <1>3, <1>4, <1>5, <1>6, <1>7, <1>8, <1>9, <1>10, <1>11
        DEF CoordinatorStep, ReconcileStep

\* Every step is one call, or lets time pass.
LEMMA NextCalls == ASSUME Inv, [Next]_vars PROVE Calls \/ Tick
<1>1. CASE \E w \in Processes : CoordinatorStep(w) \/ ReconcileStep(w) \/ Crash(w)
  BY <1>1, ProcessCalls
<1>2. CASE OpenBatch
  BY <1>2 DEF OpenBatch, Calls, PlanCall, BatchCall
<1>3. CASE Deliver
  BY <1>3 DEF Deliver, Calls, EventCall
<1>4. CASE WorkerStep
  <2>1. CASE P!ClaimReadyNodes(Root, clock)
    BY <1>4, <2>1 DEF WorkerStep, Calls, PlanCall, BatchCall
  <2>2. ASSUME NEW n \in P!Node, n[1] = Root, NEW i \in DOMAIN runs[n],
               \/ \E f \in Fingerprints : P!RecordNodeInput(n, i, f, clock)
               \/ P!RecordNodeResult(n, i, "SUCCEEDED", clock)
        PROVE  BatchCall
    BY <2>2 DEF BatchCall
  <2> QED BY <1>4, <2>1, <2>2 DEF WorkerStep, Calls, PlanCall
<1>5. CASE UNCHANGED vars
  BY <1>5 DEF vars, Calls, NoCall
<1> QED BY <1>1, <1>2, <1>3, <1>4, <1>5 DEF Next

\* So every step is a step of both stores, which share the clock.
LEMMA StoreSteps ==
    ASSUME StoresInv, Calls \/ Tick
    PROVE  [P!Next]_(P!vars) /\ [Q!Next]_(Q!vars)
<1>1. CASE PlanCall /\ UNCHANGED eventVars
  <2>1. clock' = clock /\ P!Next
    BY <1>1, PlanCallKeepsClock, PlanCallIsStep
  <2> QED BY <1>1, <2>1 DEF eventVars, Q!vars, Q!inboxVars
<1>2. CASE EventCall /\ UNCHANGED planVars
  BY <1>2, EventCallIsStep DEF planVars, P!vars
<1>3. CASE NoCall
  BY <1>3 DEF NoCall, planVars, eventVars, P!vars, Q!vars, Q!inboxVars
<1>4. CASE Tick
  <2>1. P!Next
    BY <1>4 DEF Tick, P!Next
  <2>2. Q!InboxTick
    BY <1>4 DEF Tick, P!Tick, Q!InboxTick, Q!inboxVars, eventVars
  <2> QED BY <2>1, <2>2 DEF Q!Next
<1> QED BY <1>1, <1>2, <1>3, <1>4 DEF Calls

\* And the invariant of the stores is kept.
LEMMA StoresInvStep ==
    ASSUME StoresInv, Calls \/ Tick
    PROVE  StoresInv'
<1>1. [PT!Next]_(PT!vars) /\ [QT!Next]_(QT!vars)
  BY StoreSteps, SamePlanSteps, SameEventSteps
<1>2. PT!StoreInv'
  BY <1>1, PlanConstants, PT!StoreInvStep DEF StoresInv
<1>3. PT!NodeInv'
  BY <1>1, PlanConstants, PT!NodeInvStep DEF StoresInv
<1>4. PT!SuccessIsComplete'
  BY <1>1, PlanConstants, PT!CompletionStep DEF StoresInv
<1>5. QT!InboxInv'
  BY <1>1, EventConstants, QT!InboxInvStep DEF StoresInv
<1>6. QT!AbsentApplicationsAreBlank'
  <2>1. QT!TypeOK /\ QT!AbsentApplicationsAreBlank
    BY DEF StoresInv, QT!InboxInv
  <2>2. \A e \in Events, r \in {Root} : QT!Grown(application[e][r], application'[e][r])
    BY <1>1, <2>1, EventConstants, QT!ApplicationsGrow
  <2> QED BY <2>1, <2>2 DEF QT!Grown, QT!AbsentApplicationsAreBlank
<1> QED BY <1>2, <1>3, <1>4, <1>5, <1>6 DEF StoresInv

LEMMA StoresInvInit == Init => StoresInv
<1> SUFFICES ASSUME Init PROVE StoresInv
  OBVIOUS
<1>1. PT!Init /\ QT!Init
  BY SameInits DEF Init, P!Init
<1>2. PT!StoreInv /\ PT!NodeInv
  BY <1>1, PlanConstants, PT!StoreInvInit, PT!NodeInvInit
<1>3. PT!SuccessIsComplete
  BY <1>1 DEF PT!Init, PT!SuccessIsComplete, PT!CurrentNodes, PT!Node, PT!AbsentPlan
<1>4. QT!InboxInv
  BY <1>1, EventConstants, QT!InboxInvInit
<1>5. QT!AbsentApplicationsAreBlank
  BY <1>1 DEF QT!Init, QT!InboxInit, QT!AbsentApplicationsAreBlank
<1> QED BY <1>2, <1>3, <1>4, <1>5 DEF StoresInv

-----------------------------------------------------------------------------
(* What the calls about plans leave as it was. *)

\* A node that closes: its plan keeps its version, every other plan its row, and
\* a card of the batch that is not waiting does not wait again.
LEMMA CloseStays ==
    ASSUME StoresInv, NEW m \in P!Node, NEW i, NEW s, NEW superseded, NEW t,
           P!CloseNode(m, i, s, superseded, t)
    PROVE  /\ \A p \in Plans :
                 /\ planRun'[p].version = planRun[p].version
                 /\ planRun'[p].reconciliation_required = planRun[p].reconciliation_required
           /\ \A p \in Plans : p # m[1] => planRun'[p] = planRun[p]
           /\ node[m].state # "SUCCEEDED"
           /\ \A n \in P!Node :
                 /\ n[1] # m[1] => node'[n] = node[n]
                 /\ s = "SUCCEEDED" /\ node[n].state \notin P!Freezable
                       => node'[n].state \notin P!Freezable
<1>1. /\ planRun \in [Plans -> P!PlanRunRecord] /\ node \in [P!Node -> P!NodeRecord]
      /\ m[1] \in Plans
  BY StoreRows DEF P!Node
<1>2. \A p \in Plans :
         /\ planRun'[p].version = planRun[p].version
         /\ planRun'[p].reconciliation_required = planRun[p].reconciliation_required
         /\ p # m[1] => planRun'[p] = planRun[p]
  BY <1>1 DEF P!CloseNode, P!PlanRunRecord
<1>3. node[m].state # "SUCCEEDED"
  BY DEF P!CloseNode, P!Transitions, P!NodeState
<1>4. ASSUME NEW n \in P!Node
      PROVE  /\ n[1] # m[1] => node'[n] = node[n]
             /\ s = "SUCCEEDED" /\ node[n].state \notin P!Freezable
                   => node'[n].state \notin P!Freezable
  <2> DEFINE closed == [node EXCEPT ![m].state = s]
  <2>1. node' = IF s = "SUCCEEDED" THEN P!WithDependentsReady(closed, m[1], t) ELSE closed
    BY DEF P!CloseNode
  <2>2. closed[n] = IF n = m THEN [node[n] EXCEPT !.state = s] ELSE node[n]
    BY <1>1
  <2>3. \/ node'[n] = closed[n]
        \/ /\ n \in P!CurrentNodes(m[1]) /\ closed[n].state = "PENDING" /\ s = "SUCCEEDED"
    <3>1. CASE s = "SUCCEEDED"
      <4>1. node'[n] = P!WithDependentsReady(closed, m[1], t)[n]
        BY <2>1, <3>1
      <4> HIDE DEF closed
      <4> QED BY <3>1, <4>1 DEF P!WithDependentsReady
    <3>2. CASE s # "SUCCEEDED"
      BY <2>1, <3>2
    <3> QED BY <3>1, <3>2
  <2>4. n = m => closed[n].state = s
    <3>1. node[n] \in P!NodeRecord
      BY <1>1
    <3> QED BY <2>2, <3>1 DEF P!NodeRecord
  <2> HIDE DEF closed
  <2>5. n[1] # m[1] => node'[n] = node[n]
    BY <2>2, <2>3 DEF P!CurrentNodes
  <2>6. ASSUME s = "SUCCEEDED", node[n].state \notin P!Freezable
        PROVE  node'[n].state \notin P!Freezable
    BY <2>2, <2>3, <2>4, <2>6 DEF P!Freezable
  <2> QED BY <2>5, <2>6
<1> QED BY <1>2, <1>3, <1>4

VersionsStay ==
    /\ planRun'[Root].reconciliation_required => planRun[Root].reconciliation_required
    /\ planRun[Root].version <= planRun'[Root].version
    /\ \A v \in 1..planRun[Root].version : version'[Root][v] = version[Root][v]
SuccessStays ==
    \A c \in Children : planRun[c].state = "SUCCEEDED" => planRun'[c].state = "SUCCEEDED"
StartedStays ==
    \A n \in P!Node :
        n[1] = Root /\ node[n].state \notin P!Freezable \cup {"ABSENT"}
        => node'[n].state \notin P!Freezable

\* A call about plans keeps the versions of the batch, the emergency plans that
\* succeeded, and the cards that are past waiting.
LEMMA PlanCallStays ==
    ASSUME StoresInv, PlanCall
    PROVE  VersionsStay /\ SuccessStays /\ StartedStays
<1>0. /\ planRun \in [Plans -> P!PlanRunRecord] /\ node \in [P!Node -> P!NodeRecord]
      /\ version \in [Plans -> [Versions -> P!VersionRecord]]
      /\ planRun[Root].version \in Nat /\ planRun[Root].version <= MaxVersion
      /\ \A p \in Plans : planRun[p].state = "ABSENT" <=> planRun[p].version = 0
      /\ \A n \in P!Node : node[n].state = "ABSENT" <=> planRun[n[1]].version < n[2]
      /\ Root \in Plans /\ Root \notin Children /\ Children \subseteq Plans
  BY StoreRows, Parts
<1>1. ASSUME UNCHANGED <<planRun, version, node>> PROVE VersionsStay /\ SuccessStays /\ StartedStays
  BY <1>0, <1>1 DEF VersionsStay, SuccessStays, StartedStays
<1>2. ASSUME NEW p \in Plans, P!CreateOrResume(p)
      PROVE  VersionsStay /\ SuccessStays /\ StartedStays
  <2>1. planRun[p].version = 0 /\ version' = version
    BY <1>0, <1>2 DEF P!CreateOrResume
  <2>2. /\ planRun'[p].state = "ACTIVE" /\ planRun'[p].version = 1
        /\ ~planRun'[p].reconciliation_required
        /\ \A q \in Plans : q # p => planRun'[q] = planRun[q]
    BY <1>0, <1>2 DEF P!CreateOrResume
  <2>3. SuccessStays
    BY <1>0, <1>2, <2>2 DEF SuccessStays, P!CreateOrResume
  <2>4. VersionsStay
    BY <1>0, <2>1, <2>2 DEF VersionsStay
  <2>5. ASSUME NEW n \in P!Node, node[n].state # "ABSENT" PROVE node'[n] = node[n]
    <3>1. n[1] # p \/ n[2] # 1
      BY <1>0, <2>1, <2>5
    <3> QED BY <1>2, <3>1 DEF P!CreateOrResume, P!WithNewNodes
  <2> QED BY <2>3, <2>4, <2>5 DEF StartedStays
<1>3. ASSUME NEW p, NEW t, P!ClaimReadyNodes(p, t)
      PROVE  VersionsStay /\ SuccessStays /\ StartedStays
  <2>1. UNCHANGED <<planRun, version>>
    BY <1>3, Zenon DEF P!ClaimReadyNodes, P!Claim
  <2>2. PICK S :
           node' = [n \in P!Node |-> IF n \in S
                                     THEN [P!Promoted({p}, t)[n] EXCEPT !.state = "RUNNING"]
                                     ELSE P!Promoted({p}, t)[n]]
    BY <1>3, Zenon DEF P!ClaimReadyNodes, P!Claim
  <2>3. ASSUME NEW n \in P!Node, node[n].state \notin P!Freezable PROVE node'[n].state \notin P!Freezable
    <3>1. P!Promoted({p}, t)[n] = node[n] /\ node[n] \in P!NodeRecord
      BY <1>0, <2>3 DEF P!Promoted, P!DueRetries, P!Freezable
    <3>2. node'[n] = node[n] \/ node'[n] = [node[n] EXCEPT !.state = "RUNNING"]
      BY <2>2, <3>1
    <3> QED BY <2>3, <3>1, <3>2 DEF P!Freezable, P!NodeRecord
  <2> QED BY <1>0, <2>1, <2>3 DEF VersionsStay, SuccessStays, StartedStays
<1>4. ASSUME NEW m \in P!Node, NEW i, NEW s, NEW superseded, NEW t,
             P!CloseNode(m, i, s, superseded, t), version' = version,
             \/ m[1] = Root /\ s = "SUCCEEDED"
             \/ m[1] # Root /\ m \in P!CurrentNodes(m[1])
      PROVE  VersionsStay /\ SuccessStays /\ StartedStays
  <2>1. VersionsStay
    BY <1>0, <1>4, CloseStays DEF VersionsStay
  <2>2. SuccessStays
    <3> SUFFICES ASSUME NEW c \in Children, planRun[c].state = "SUCCEEDED" PROVE m[1] # c
      BY <1>0, <1>4, CloseStays DEF SuccessStays
    <3>1. P!SuccessIsComplete /\ node[m].state # "SUCCEEDED"
      BY <1>4, StoreRows, CloseStays
    <3> QED BY <1>0, <1>4, <3>1 DEF P!SuccessIsComplete
  <2>3. StartedStays
    BY <1>4, CloseStays DEF StartedStays
  <2> QED BY <2>1, <2>2, <2>3
<1>5. ASSUME NEW c \in Children, ChildCall(c)
      PROVE  VersionsStay /\ SuccessStays /\ StartedStays
  <2>1. ASSUME NEW n \in P!CurrentNodes(c),
               \/ \E i \in DOMAIN runs[n], s \in ResultStates : P!RecordNodeResult(n, i, s, clock)
               \/ P!ReconcilePlanReference(n, "SUCCEEDED")
        PROVE  VersionsStay /\ SuccessStays /\ StartedStays
    <3>1. n \in P!Node /\ n[1] = c /\ n[1] # Root
      BY <1>0 DEF P!CurrentNodes
    <3>2. version' = version /\ \E i, s, superseded, t : P!CloseNode(n, i, s, superseded, t)
      BY <2>1, Zenon DEF P!RecordNodeResult, P!ReconcilePlanReference, P!CloseReconciliation
    <3> QED BY <1>4, <3>1, <3>2
  <2> QED BY <1>0, <1>2, <1>3, <1>5, <2>1 DEF ChildCall
<1>6. ASSUME BatchCall PROVE VersionsStay /\ SuccessStays /\ StartedStays
  <2>1. ASSUME NEW n \in P!Node, NEW i, NEW f, P!RecordNodeInput(n, i, f, clock)
        PROVE  VersionsStay /\ SuccessStays /\ StartedStays
    BY <1>1, <2>1 DEF P!RecordNodeInput
  <2>2. ASSUME NEW n \in P!Node, NEW i, n[1] = Root, P!RecordNodeResult(n, i, "SUCCEEDED", clock)
        PROVE  VersionsStay /\ SuccessStays /\ StartedStays
    <3>1. version' = version /\ \E superseded, t : P!CloseNode(n, i, "SUCCEEDED", superseded, t)
      BY <2>2, Zenon DEF P!RecordNodeResult
    <3>2. PICK superseded, t : P!CloseNode(n, i, "SUCCEEDED", superseded, t)
      BY <3>1
    <3> QED BY <1>4, <2>2, <3>1, <3>2
  <2> QED BY <1>0, <1>2, <1>3, <1>6, <2>1, <2>2 DEF BatchCall
<1>7. ASSUME NEW v, NEW e, NEW keys, NEW room, P!ApplyImpactFreeze(Root, v, e, keys, room)
      PROVE  VersionsStay /\ SuccessStays /\ StartedStays
  <2>1. /\ version' = version /\ planRun'[Root].version = planRun[Root].version
        /\ planRun'[Root].reconciliation_required = planRun[Root].reconciliation_required
        /\ \A q \in Plans : q # Root => planRun'[q] = planRun[q]
    BY <1>0, <1>7 DEF P!ApplyImpactFreeze, P!PlanRunRecord
  <2>2. ASSUME NEW n \in P!Node, node[n].state \notin P!Freezable PROVE node'[n] = node[n]
    BY <1>7, <2>2 DEF P!ApplyImpactFreeze
  <2> QED BY <1>0, <2>1, <2>2 DEF VersionsStay, SuccessStays, StartedStays
<1>8. ASSUME NEW v, NEW g, NEW sources, P!RefuseReplan(Root, v, g, sources)
      PROVE  VersionsStay /\ SuccessStays /\ StartedStays
  BY <1>0, <1>8 DEF P!RefuseReplan, P!PlanRunRecord, VersionsStay, SuccessStays, StartedStays
<1>9. ASSUME NEW v, NEW g, NEW sources, NEW reused, NEW t,
             P!CreateReplanVersion(Root, v, g, sources, reused, t)
      PROVE  VersionsStay /\ SuccessStays /\ StartedStays
  <2> DEFINE next == planRun[Root].version + 1
  <2>1. /\ planRun'[Root].version = next
        /\ planRun'[Root].reconciliation_required = planRun[Root].reconciliation_required
        /\ \A q \in Plans : q # Root => planRun'[q] = planRun[q]
    BY <1>0, <1>9 DEF P!CreateReplanVersion, P!PlanRunRecord
  <2>2. \A u \in Versions : u # next => version'[Root][u] = version[Root][u]
    BY <1>0, <1>9 DEF P!CreateReplanVersion
  <2>3. ASSUME NEW n \in P!Node, node[n].state # "ABSENT" PROVE node'[n] = node[n]
    <3>1. n[1] # Root \/ n[2] # next
      BY <1>0, <2>3
    <3> QED BY <1>9, <3>1 DEF P!CreateReplanVersion, P!WithNewNodes
  <2>4. VersionsStay
    BY <1>0, <2>1, <2>2, LimitsAssumption DEF VersionsStay, Versions
  <2> QED BY <1>0, <2>1, <2>3, <2>4 DEF SuccessStays, StartedStays
<1> QED BY <1>5, <1>6, <1>7, <1>8, <1>9 DEF PlanCall, P!FreezeStep, P!ReplanStep

-----------------------------------------------------------------------------
(* What a step leaves as it was. *)

HaltedStays ==
    \A n \in P!Node :
        n[1] = Root /\ n[2] <= planRun[Root].version /\ Halted(n)
        => Halted(n)' /\ Len(runs'[n]) = Len(runs[n])
ApplicationsStay ==
    \A e \in Events :
        LET old == application[e][Root]  new == application'[e][Root] IN
        /\ old.state \in {"APPLIED", "FAILED"} => new = old
        /\ old.state \notin {"ABSENT", "PENDING"} => new.state \notin {"ABSENT", "PENDING"}
        /\ old.impact_analysis # None => new.impact_analysis = old.impact_analysis
        /\ old.emergency_plan # None => new.emergency_plan = old.emergency_plan
Stays == /\ clock \in Int /\ clock' \in Int /\ clock <= clock'
         /\ planRun[Root].version \in Nat /\ planRun'[Root].version \in Nat
         /\ VersionsStay /\ SuccessStays
         /\ HaltedStays /\ ApplicationsStay

\* What an event froze starts no attempt.
LEMMA HaltedStep ==
    ASSUME StoresInv, Calls \/ Tick
    PROVE  HaltedStays
<1>1. /\ \A n \in PT!Node : PT!Effect(n)
      /\ P!Node = PT!Node
      /\ PT!StoreInv /\ PT!StoreInv'
  <2>1. [PT!Next]_(PT!vars) /\ PT!StoreInv /\ PT!NodeAgreesWithRun
    BY StoreSteps, SamePlanSteps DEF StoresInv, PT!NodeInv
  <2>2. PT!StoreInv'
    BY StoresInvStep DEF StoresInv
  <2>3. P!Node = PT!Node
    BY Zenon DEF P!Node, PT!Node, P!Versions, PT!Versions
  <2> QED BY <2>1, <2>2, <2>3, PlanConstants, PT!StepEffect
<1>2. StartedStays
  <2>1. ASSUME UNCHANGED node PROVE StartedStays
    BY <2>1 DEF StartedStays
  <2>2. PlanCall \/ UNCHANGED node
    BY DEF Calls, NoCall, planVars, Tick, P!Tick
  <2> QED BY <2>1, <2>2, PlanCallStays
<1> SUFFICES ASSUME NEW n \in P!Node, n[1] = Root, n[2] <= planRun[Root].version, Halted(n)
             PROVE  Halted(n)' /\ Len(runs'[n]) = Len(runs[n])
  BY DEF HaltedStays
<1>3. node[n].state \notin P!Freezable \cup {"ABSENT"} /\ node'[n].state \notin P!Freezable
  <2>1. node[n].state # "ABSENT"
    <3>1. planRun[Root].version \in Nat /\ n[2] \in Nat
      BY StoreRows, Parts, LimitsAssumption DEF P!Node, P!Versions
    <3> QED BY <3>1, StoreRows
  <2> QED BY <1>2, <2>1 DEF StartedStays, Halted
<1>4. /\ Len(runs[n]) \in Nat /\ Len(runs'[n]) \in Nat
      /\ PT!HasRun(n) <=> Len(runs[n]) > 0
      /\ PT!HasRun(n)' <=> Len(runs'[n]) > 0
      /\ PT!LastRun(n)' = runs'[n][Len(runs'[n])]
  BY <1>1, PlanConstants, PT!Histories
<1>5. PT!HasRun(n) => PT!LastRun(n).superseded_by # None
  BY Zenon DEF Halted, P!HasRun, PT!HasRun, P!LastRun, PT!LastRun
<1>6. PT!SameClaims(n)
  BY <1>1, <1>3, <1>5 DEF PT!Effect, PT!Untouched, PT!Quiet, PT!Born, PT!Moved, PT!Claimed,
     PT!TakenOver, PT!Closed, P!Freezable
<1>7. Len(runs'[n]) = Len(runs[n])
  BY <1>6 DEF PT!SameClaims
<1>8. PT!HasRun(n)' => PT!LastRun(n)'.superseded_by # None
  BY <1>4, <1>5, <1>6, <1>7 DEF PT!SameClaims, PT!Kept, PT!LastRun
<1>9. Halted(n)'
  BY <1>3, <1>8, Zenon DEF Halted, P!HasRun, PT!HasRun, P!LastRun, PT!LastRun
<1> QED BY <1>7, <1>9

\* The two writers of an application.
ApplicationCall(e) ==
    \/ \E v \in Versions : Q!CreateApplication(e, Root, v)
    \/ \E expected, target \in Q!ApplicationState, analysis \in Analyses \cup {None},
          child \in Children \cup {None}, applied \in Versions \cup {None} :
          Q!TransitionApplication(e, Root, expected, target, analysis, child, applied)

\* No application returns to its start.
LEMMA ApplicationsStep ==
    ASSUME StoresInv, Calls \/ Tick
    PROVE  ApplicationsStay
<1>1. /\ [QT!Next]_(QT!vars) /\ QT!TypeOK /\ QT!AbsentApplicationsAreBlank
      /\ application \in [Events -> [{Root} -> Q!ApplicationRecord]]
  BY StoreSteps, SameEventSteps, StoreRows DEF StoresInv, QT!InboxInv
<1> SUFFICES ASSUME NEW e \in Events
             PROVE  LET old == application[e][Root]  new == application'[e][Root] IN
                    /\ old.state \in {"APPLIED", "FAILED"} => new = old
                    /\ old.state \notin {"ABSENT", "PENDING"}
                          => new.state \notin {"ABSENT", "PENDING"}
                    /\ old.impact_analysis # None => new.impact_analysis = old.impact_analysis
                    /\ old.emergency_plan # None => new.emergency_plan = old.emergency_plan
  BY DEF ApplicationsStay
<1> DEFINE old == application[e][Root]
           new == application'[e][Root]
<1>2. QT!Grown(old, new)
  BY <1>1, EventConstants, QT!ApplicationsGrow
<1>3. new.state = "PENDING" => old.state \in {"ABSENT", "PENDING"}
  <2>1. UNCHANGED application \/ \E f \in Events : ApplicationCall(f)
    BY DEF Calls, NoCall, eventVars, Tick, EventCall, ApplicationCall, Q!RegisterEvent,
       Q!ClaimNext, Q!Heartbeat, Q!TransitionInbox
  <2>2. ASSUME NEW f \in Events, f # e, ApplicationCall(f) PROVE new = old
    BY <1>1, <2>2 DEF ApplicationCall, Q!CreateApplication, Q!TransitionApplication
  <2>3. ASSUME NEW v \in Versions, Q!CreateApplication(e, Root, v) PROVE old.state = "ABSENT"
    BY <2>3 DEF Q!CreateApplication
  <2>4. ASSUME NEW expected \in Q!ApplicationState, NEW target \in Q!ApplicationState,
               NEW analysis, NEW child, NEW applied,
               Q!TransitionApplication(e, Root, expected, target, analysis, child, applied)
        PROVE  new.state # "PENDING"
    <3>1. target # "PENDING"
      BY <2>4 DEF Q!TransitionApplication, Q!ApplicationTransitions, Q!ApplicationState
    <3>2. new.state = target
      <4> DEFINE a == [old EXCEPT !.state = target,
                          !.impact_analysis = Q!Merged(@, analysis),
                          !.emergency_plan = Q!Merged(@, child),
                          !.applied_plan_version = Q!Merged(@, applied)]
      <4>1. new = a
        BY <1>1, <2>4 DEF Q!TransitionApplication
      <4>2. old \in Q!ApplicationRecord
        BY <1>1
      <4>3. a.state = target
        BY <4>2 DEF Q!ApplicationRecord
      <4> QED BY <4>1, <4>3
    <3> QED BY <3>1, <3>2
  <2> QED BY <2>1, <2>2, <2>3, <2>4 DEF ApplicationCall
<1> QED BY <1>2, <1>3 DEF QT!Grown, QT!KeptOnce

\* Time, versions, emergency plans, frozen cards and applications.
LEMMA StepStays ==
    ASSUME StoresInv, Calls \/ Tick
    PROVE  Stays
<1>1. clock \in Int /\ clock' \in Int /\ clock <= clock'
  <2>1. clock' = clock \/ clock' = clock + 1
    BY PlanCallKeepsClock, EventCallIsStep DEF Calls, NoCall, Tick, P!Tick
  <2> QED BY <2>1, StoreRows
<1>0. planRun[Root].version \in Nat /\ planRun'[Root].version \in Nat
  <2>1. PT!StoreInv /\ PT!StoreInv'
    BY StoresInvStep DEF StoresInv
  <2> QED BY <2>1, Parts, LimitsAssumption DEF PT!StoreInv, PT!TypeOK, PT!PlanRunRecord
<1>2. VersionsStay /\ SuccessStays
  <2>1. CASE PlanCall
    BY <2>1, PlanCallStays
  <2>2. CASE UNCHANGED <<planRun, version>>
    BY <2>2, StoreRows, Parts DEF VersionsStay, SuccessStays
  <2> QED BY <2>1, <2>2 DEF Calls, NoCall, planVars, Tick, P!Tick
<1> QED BY <1>0, <1>1, <1>2, HaltedStep, ApplicationsStep DEF Stays

\* What was true of an event stays true of it.
LEMMA EventStays ==
    ASSUME StoresInv, Stays, NEW e \in Events
    PROVE  /\ Analysed(e) => Impact(e)' = Impact(e) /\ Analysed(e)'
           /\ Stopped(e) => Stopped(e)'
           /\ Succeeded(e) => Succeeded(e)'
<1>1. ASSUME Analysed(e) PROVE Impact(e)' = Impact(e) /\ Analysed(e)'
  <2>1. Impact(e) # None
    BY <1>1, NothingAssumption DEF Analysed
  <2>2. Impact(e)' = Impact(e)
    BY <2>1 DEF Stays, ApplicationsStay, Impact
  <2>3. Impact(e).version \in Nat
    BY <1>1, LimitsAssumption DEF Analysed, Analyses, Versions
  <2> QED BY <1>1, <2>2, <2>3 DEF Analysed, Stays, VersionsStay
<1>2. ASSUME Stopped(e) PROVE Stopped(e)'
  <2>1. Analysed(e) /\ Analysed(e)' /\ Impact(e)' = Impact(e)
    BY <1>1, <1>2 DEF Stopped
  <2>2. PICK v : v = Impact(e).version
    OBVIOUS
  <2>3. v \in Versions /\ v <= planRun[Root].version /\ Impact(e).keys \subseteq KeysOf[Root]
    <3>1. v \in Versions /\ v <= planRun[Root].version
      BY <2>1, <2>2 DEF Analysed, Analyses
    <3> QED BY <2>1, <2>2, <3>1, AnalysisType DEF Analysed
  <2>4. ASSUME NEW k \in Impact(e).keys PROVE Halted(<<Root, v, k>>)'
    <3>1. <<Root, v, k>> \in P!Node
      BY <2>3, Parts, PlansAssumption DEF P!Node, P!Versions, Versions
    <3>2. Halted(<<Root, v, k>>)
      BY <1>2, <2>2 DEF Stopped
    <3> QED BY <2>3, <3>1, <3>2 DEF Stays, HaltedStays
  <2>5. \A k \in Impact(e)'.keys : Halted(<<Root, v, k>>)'
    BY <2>1, <2>4
  <2>6. v = Impact(e)'.version
    BY <2>1, <2>2
  <2> QED BY <2>1, <2>5, <2>6 DEF Stopped, Halted, P!HasRun, P!LastRun
<1>3. Succeeded(e) => Succeeded(e)'
  BY Parts DEF Stays, SuccessStays, Succeeded
<1> QED BY <1>1, <1>2, <1>3

\* So does what a process remembers,
LEMMA RecalledStays ==
    ASSUME StoresInv, Stays, NEW j \in JobRecord, Recalled(j)
    PROVE  Recalled(j)'
<1>1. j.now <= clock'
  <2>1. j.now \in Int
    BY DEF JobRecord, Q!Clock
  <2> QED BY <2>1 DEF Recalled, Stays
<1>2. j.pc \in AtRoot =>
         /\ j.seen \in 1..planRun'[Root].version
         /\ version'[Root][j.seen] = version[Root][j.seen]
  BY DEF Recalled, Stays, VersionsStay
<1>3. CASE j.pc \in {"idle", "checked"}
  BY <1>1, <1>3 DEF Recalled, AtRoot
<1>4. CASE j.pc \notin {"idle", "checked"}
  <2>1. j.event \in Events
    BY <1>4 DEF Recalled
  <2>2. /\ Stopped(j.event) => Stopped(j.event)'
        /\ Succeeded(j.event) => Succeeded(j.event)'
        /\ \A f \in j.merged : Succeeded(f) => Succeeded(f)'
    <3>1. j.merged \subseteq Events
      BY DEF JobRecord
    <3> QED BY <2>1, <3>1, EventStays
  <2>3. LET old == application[j.event][Root]  new == application'[j.event][Root] IN
        /\ old.state \in {"APPLIED", "FAILED"} => new = old
        /\ old.state \notin {"ABSENT", "PENDING"} => new.state \notin {"ABSENT", "PENDING"}
        /\ old.emergency_plan # None => new.emergency_plan # None
    BY <2>1 DEF Stays, ApplicationsStay
  <2>4. j.pc \in {"publishing", "marking"} => j.pc \in AtRoot
    BY DEF AtRoot, Step
  <2>5. Expects(j.pc, j.event) => Expects(j.pc, j.event)'
    BY <2>1, <2>2, <2>3 DEF Expects
  <2> QED BY <1>1, <1>2, <2>1, <2>2, <2>4, <2>5 DEF Recalled
<1> QED BY <1>3, <1>4

\* and what an application says that the step does not write.
LEMMA ApplicationInvStays ==
    ASSUME StoresInv, Stays, NEW e \in Events, ApplicationInv(e),
           application'[e][Root] = application[e][Root]
    PROVE  ApplicationInv(e)'
<1>1. /\ Analysed(e) => Analysed(e)'
      /\ Stopped(e) => Stopped(e)'
      /\ Succeeded(e) => Succeeded(e)'
  BY EventStays
<1>2. \A v \in 1..planRun[Root].version :
         v \in 1..planRun'[Root].version /\ version'[Root][v] = version[Root][v]
  BY DEF Stays, VersionsStay
<1> QED BY <1>1, <1>2 DEF ApplicationInv

\* The inbox stays behind the application.
LEMMA InboxFollowsStays ==
    ASSUME StoresInv, Stays, NEW e \in Events, InboxFollows(e),
           inbox'[e].state = inbox[e].state \/ Permits(e, inbox'[e].state)
    PROVE  InboxFollows(e)'
BY DEF InboxFollows, Permits, Stays, ApplicationsStay

\* A version that is there was published after its emergency plans.
LEMMA PublishedStays ==
    ASSUME StoresInv, Stays, PublishedAfterEmergency, version' = version
    PROVE  PublishedAfterEmergency'
<1>1. \A e \in Events : Succeeded(e) => Succeeded(e)'
  BY EventStays
<1> QED BY <1>1 DEF PublishedAfterEmergency, Succeeded

-----------------------------------------------------------------------------
(* What a process remembers after its own step. *)

JobsInv == job \in [Processes -> JobRecord] /\ \A x \in Processes : JobInv(x)

\* A record a process may hold may be held by a process.
LEMMA HeldRecord ==
    ASSUME NEW x \in Processes, NEW j, job'[x] = j, Recalled(j)'
    PROVE  JobInv(x)'
BY DEF JobInv, Recalled, Expects, Stopped, Analysed, Succeeded, Halted, Impact,
       P!HasRun, P!LastRun

LEMMA JobsStay ==
    ASSUME Inv, Stays, job' = job
    PROVE  JobsInv'
<1>1. ASSUME NEW x \in Processes PROVE JobInv(x)'
  <2>1. job[x] \in JobRecord /\ Recalled(job[x]) /\ StoresInv
    BY DEF Inv, CoordinationInv, JobInv
  <2>2. PICK j \in JobRecord : j = job[x]
    BY <2>1
  <2>3. Recalled(j)'
    BY <2>1, <2>2, RecalledStays
  <2> QED BY <2>2, <2>3, HeldRecord
<1> QED BY <1>1 DEF JobsInv, Inv, CoordinationInv

\* One process goes on with r.
LEMMA JobMoves ==
    ASSUME Inv, Stays, NEW w \in Processes, NEW r \in JobRecord,
           job' = [job EXCEPT ![w] = r], Recalled(r)'
    PROVE  JobsInv'
<1>1. job' \in [Processes -> JobRecord] /\ job'[w] = r
      /\ \A x \in Processes : x # w => job'[x] = job[x]
  BY DEF Inv, CoordinationInv
<1>2. JobInv(w)'
  BY <1>1, HeldRecord
<1>3. ASSUME NEW x \in Processes, x # w PROVE JobInv(x)'
  <2>1. job[x] \in JobRecord /\ Recalled(job[x]) /\ StoresInv
    BY DEF Inv, CoordinationInv, JobInv
  <2>2. PICK j \in JobRecord : j = job[x]
    BY <2>1
  <2>3. Recalled(j)'
    BY <2>1, <2>2, RecalledStays
  <2> QED BY <1>1, <1>3, <2>2, <2>3, HeldRecord
<1> QED BY <1>1, <1>2, <1>3 DEF JobsInv

\* A run that ends remembers nothing.
LEMMA Returns ==
    ASSUME Inv, Stays, NEW w \in Processes, Return(w)
    PROVE  JobsInv'
<1>1. Idle \in JobRecord /\ Idle.pc = "idle" /\ Idle.now = 0
  BY LimitsAssumption DEF Idle, JobRecord, Step, Q!Clock
<1>2. 0 <= clock'
  BY StoreRows DEF Stays, Inv
<1>3. PICK r \in JobRecord : r = Idle
  BY <1>1
<1>4. Recalled(r)'
  BY <1>1, <1>2, <1>3 DEF Recalled, AtRoot
<1> QED BY <1>3, <1>4, JobMoves DEF Return

\* A run goes on to pc,
LEMMA Goes ==
    ASSUME Inv, Stays, NEW w \in Processes, NEW e \in Events, e = Ev(w),
           NEW pc \in Step \ {"publishing", "marking"}, pc \in AtRoot => job[w].pc \in AtRoot,
           Goto(w, pc), Expects(pc, e)'
    PROVE  JobsInv'
<1>1. PICK j \in JobRecord : j = job[w]
  BY Remembers
<1>2. PICK r \in JobRecord : r = [j EXCEPT !.pc = pc]
  BY <1>1 DEF JobRecord
<1>3. /\ r.pc = pc /\ r.event = e /\ r.now = j.now /\ r.seen = j.seen
  BY <1>1, <1>2 DEF JobRecord, Ev
<1>4. job' = [job EXCEPT ![w] = r]
  BY <1>1, <1>2 DEF Goto
<1>5. j.now \in 0..clock /\ Recalled(j)
  BY <1>1, Remembers DEF JobInv
<1>6. r.now <= clock'
  BY <1>3, <1>5 DEF Stays
<1>7. pc \in AtRoot => r.seen \in 1..planRun'[Root].version
  BY <1>1, <1>3, <1>5 DEF Recalled, Stays, VersionsStay
<1>8. Recalled(r)'
  BY <1>3, <1>6, <1>7 DEF Recalled
<1> QED BY <1>4, <1>8, JobMoves

\* or to where its application stands, with a version it has just read.
LEMMA Dispatches ==
    ASSUME Inv, Stays, NEW w \in Processes, NEW e \in Events, e = Ev(w),
           NEW pc \in Step \ {"publishing", "marking"},
           planRun[Root].state # "ABSENT", Dispatch(w, pc), Expects(pc, e)'
    PROVE  JobsInv'
<1>1. PICK j \in JobRecord : j = job[w]
  BY Remembers
<1>2. PICK v : v = planRun[Root].version
  OBVIOUS
<1>3. v \in 0..MaxVersion /\ v \in 1..planRun'[Root].version
  BY <1>2, StoreRows, Parts, LimitsAssumption DEF Inv, Stays, VersionsStay
<1>4. PICK r \in JobRecord : r = [j EXCEPT !.pc = pc, !.seen = v]
  BY <1>1, <1>3 DEF JobRecord
<1>5. r.pc = pc /\ r.event = e /\ r.now = j.now /\ r.seen = v
  BY <1>1, <1>4 DEF JobRecord, Ev
<1>6. job' = [job EXCEPT ![w] = r]
  BY <1>1, <1>2, <1>4 DEF Dispatch
<1>7. r.now <= clock'
  <2>1. j.now \in 0..clock
    BY <1>1, Remembers
  <2> QED BY <1>5, <2>1 DEF Stays
<1>8. Recalled(r)'
  BY <1>3, <1>5, <1>7 DEF Recalled
<1> QED BY <1>6, <1>8, JobMoves

-----------------------------------------------------------------------------
(* What the events and their applications are after a call. *)

EventsInv == \A e \in Events : ApplicationInv(e) /\ InboxFollows(e)

\* The inbox changes within what the applications permit.
LEMMA EventsStay ==
    ASSUME Inv, Stays, UNCHANGED application,
           \A e \in Events : inbox'[e].state = inbox[e].state \/ Permits(e, inbox'[e].state)
    PROVE  EventsInv'
<1>1. ASSUME NEW e \in Events PROVE ApplicationInv(e)' /\ InboxFollows(e)'
  BY <1>1, ApplicationInvStays, InboxFollowsStays DEF Inv, CoordinationInv
<1> QED BY <1>1 DEF EventsInv

\* One application changes.
LEMMA EventsMove ==
    ASSUME Inv, Stays, UNCHANGED inbox, NEW e \in Events, ApplicationInv(e)',
           \A f \in Events \ {e} : application'[f][Root] = application[f][Root]
    PROVE  EventsInv'
<1>1. ASSUME NEW f \in Events PROVE ApplicationInv(f)' /\ InboxFollows(f)'
  BY <1>1, ApplicationInvStays, InboxFollowsStays DEF Inv, CoordinationInv
<1> QED BY <1>1 DEF EventsInv

\* A call of the PlanStore, or none.
LEMMA NoEventCall ==
    ASSUME Inv, Stays, UNCHANGED eventVars
    PROVE  EventsInv'
BY EventsStay DEF eventVars

\* A call of the Event Store, or none.
LEMMA NoPlanCall ==
    ASSUME Inv, Stays, UNCHANGED planVars
    PROVE  PublishedAfterEmergency'
BY PublishedStays DEF planVars, Inv, CoordinationInv

\* An incident of the batch stays away.
LEMMA Assembled ==
    ASSUME Inv, Stays, JobsInv', EventsInv', PublishedAfterEmergency'
    PROVE  CoordinationInv'
BY DEF JobsInv, EventsInv, CoordinationInv, Inv, NoIncident, Stays, VersionsStay

\* A claim or a heartbeat leaves the event in PROCESSING.
LEMMA Claims ==
    ASSUME Inv, Stays, NEW w \in Processes, NEW t,
           Q!ClaimNext(w, t, Events) \/ \E e \in Events : Q!Heartbeat(w, e, t)
    PROVE  EventsInv'
<1>1. inbox \in [Events -> Q!InboxRecord]
  BY StoreRows DEF Inv
<1>2. ASSUME NEW e \in Events, NEW f \in Events,
             \/ inbox' = [inbox EXCEPT ![e] = Q!Claimed(e, w, t)]
             \/ Q!Heartbeat(w, e, t)
      PROVE  inbox'[f].state \in {inbox[f].state, "PROCESSING"}
  <2>1. inbox[e] \in Q!InboxRecord
    BY <1>1
  <2>2. ASSUME inbox' = [inbox EXCEPT ![e] = Q!Claimed(e, w, t)]
        PROVE  inbox'[f].state \in {inbox[f].state, "PROCESSING"}
    <3>1. Q!Claimed(e, w, t).state = "PROCESSING"
      BY <2>1 DEF Q!Claimed, Q!InboxRecord
    <3> QED BY <1>1, <2>2, <3>1
  <2>3. ASSUME NEW until, inbox' = [inbox EXCEPT ![e] = [inbox[e] EXCEPT !.lease_until = until]]
        PROVE  inbox'[f].state = inbox[f].state
    <3>1. [inbox[e] EXCEPT !.lease_until = until].state = inbox[e].state
      BY <2>1 DEF Q!InboxRecord
    <3> QED BY <1>1, <2>3, <3>1
  <2> QED BY <1>2, <2>2, <2>3 DEF Q!Heartbeat
<1>3. \A f \in Events : inbox'[f].state \in {inbox[f].state, "PROCESSING"}
  BY <1>2, Zenon DEF Q!ClaimNext
<1>4. UNCHANGED application
  BY DEF Q!ClaimNext, Q!Heartbeat
<1> QED BY <1>3, <1>4, EventsStay DEF Permits

\* An event is moved to a state its application permits.
LEMMA Transitions ==
    ASSUME Inv, Stays, NEW w \in Processes, NEW e \in Events, NEW expected, NEW t,
           NEW target, Permits(e, target), Q!TransitionInbox(w, e, expected, target, t)
    PROVE  EventsInv'
<1>1. inbox \in [Events -> Q!InboxRecord] /\ inbox[e] \in Q!InboxRecord
  BY StoreRows DEF Inv
<1>2. inbox' = [inbox EXCEPT ![e] = Q!Closed(e, target)] /\ UNCHANGED application
  BY DEF Q!TransitionInbox
<1>3. Q!Closed(e, target).state = target
  BY <1>1 DEF Q!Closed, Q!InboxRecord
<1> QED BY <1>1, <1>2, <1>3, EventsStay

\* The rows of the applications after one of them moved.
LEMMA Moved ==
    ASSUME StoresInv, NEW e \in Events, NEW expected, NEW target, NEW analysis, NEW child,
           NEW applied,
           Q!TransitionApplication(e, Root, expected, target, analysis, child, applied)
    PROVE  LET old == application[e][Root]  new == application'[e][Root] IN
           /\ UNCHANGED inbox
           /\ \A f \in Events \ {e} : application'[f][Root] = application[f][Root]
           /\ old.state = expected /\ new.state = target
           /\ new.impact_analysis = Q!Merged(old.impact_analysis, analysis)
           /\ Q!WriteOnce(old.impact_analysis, analysis)
           /\ new.emergency_plan = Q!Merged(old.emergency_plan, child)
           /\ new.applied_plan_version = Q!Merged(old.applied_plan_version, applied)
           /\ Q!WriteOnce(old.applied_plan_version, applied)
<1> DEFINE old == application[e][Root]
           a == [old EXCEPT !.state = target,
                            !.impact_analysis = Q!Merged(@, analysis),
                            !.emergency_plan = Q!Merged(@, child),
                            !.applied_plan_version = Q!Merged(@, applied)]
<1>1. application \in [Events -> [{Root} -> Q!ApplicationRecord]] /\ old \in Q!ApplicationRecord
  BY StoreRows
<1>2. application' = [application EXCEPT ![e][Root] = a] /\ UNCHANGED inbox
  BY DEF Q!TransitionApplication
<1>3. /\ a.state = target
      /\ a.impact_analysis = Q!Merged(old.impact_analysis, analysis)
      /\ a.emergency_plan = Q!Merged(old.emergency_plan, child)
      /\ a.applied_plan_version = Q!Merged(old.applied_plan_version, applied)
  BY <1>1 DEF Q!ApplicationRecord
<1>4. /\ old.state = expected
      /\ Q!WriteOnce(old.impact_analysis, analysis)
      /\ Q!WriteOnce(old.applied_plan_version, applied)
  BY DEF Q!TransitionApplication
<1> HIDE DEF a
<1>5. application'[e][Root] = a
      /\ \A f \in Events \ {e} : application'[f][Root] = application[f][Root]
  BY <1>1, <1>2
<1> QED BY <1>2, <1>3, <1>4, <1>5

-----------------------------------------------------------------------------
(* From the event to its application. *)

\* A run begins, on its own account or a person's, ends, or is abandoned.
LEMMA RunsBegin ==
    ASSUME Inv, Stays, NEW w \in Processes,
           RunNext(w) \/ (\E e \in Events : ReconcileWaiting(w, e))
           \/ StayWaiting(w) \/ Crash(w)
    PROVE  CoordinationInv'
<1>0. Idle \in JobRecord /\ Idle.event = None
  BY LimitsAssumption DEF Idle, JobRecord, Step, Q!Clock
<1>1. UNCHANGED <<planVars, eventVars>>
  BY DEF RunNext, ReconcileWaiting, StayWaiting, Crash, NoCall
<1>2. clock \in 0..MaxClock /\ clock <= clock'
  BY StoreRows DEF Inv, Stays
<1>3. ASSUME NEW pc \in {"checked", "confirming", "resuming", "restoring"},
             NEW e \in Events \cup {None}, pc # "checked" => e \in Events,
             job' = [job EXCEPT ![w] = [Idle EXCEPT !.pc = pc, !.event = e, !.now = clock]]
      PROVE  JobsInv'
  <2>1. PICK t \in 0..MaxClock : t = clock
    BY <1>2
  <2>2. [Idle EXCEPT !.pc = pc, !.event = e, !.now = t] \in JobRecord
    BY <1>0, <2>1 DEF JobRecord, Step, Q!Clock
  <2>3. PICK r \in JobRecord : r = [Idle EXCEPT !.pc = pc, !.event = e, !.now = t]
    BY <2>2
  <2>4. r.pc = pc /\ r.event = e /\ r.now = t
    BY <1>0, <2>3 DEF JobRecord
  <2>5. Recalled(r)'
    BY <1>2, <1>3, <2>1, <2>4 DEF Recalled, Expects, AtRoot
  <2> QED BY <1>3, <2>1, <2>3, <2>5, JobMoves
<1>4. CASE RunNext(w)
  <2>1. [Idle EXCEPT !.pc = "checked", !.now = clock]
        = [Idle EXCEPT !.pc = "checked", !.event = None, !.now = clock]
    BY <1>0, <1>2 DEF JobRecord
  <2> QED BY <1>1, <1>3, <1>4, <2>1, NoEventCall, NoPlanCall, Assembled DEF RunNext
<1>5. CASE \E e \in Events : ReconcileWaiting(w, e)
  <2>1. JobsInv'
    BY <1>3, <1>5, Zenon DEF ReconcileWaiting
  <2> QED BY <1>1, <2>1, NoEventCall, NoPlanCall, Assembled
<1>6. CASE StayWaiting(w) \/ Crash(w)
  BY <1>1, <1>6, Returns, NoEventCall, NoPlanCall, Assembled DEF StayWaiting, Crash
<1> QED BY <1>4, <1>5, <1>6

\* An event is claimed.
LEMMA EventsAreClaimed ==
    ASSUME Inv, Stays, NEW w \in Processes, ClaimEvent(w)
    PROVE  CoordinationInv'
<1>1. CASE Return(w) /\ NoCall
  BY <1>1, Returns, NoEventCall, NoPlanCall, Assembled DEF NoCall
<1>2. CASE /\ InEventStore(Q!ClaimNext(w, job[w].now, Events))
           /\ job' = [job EXCEPT ![w].pc = "claimed", ![w].event = claim'[w].event]
  <2>1. Q!ClaimNext(w, job[w].now, Events) /\ UNCHANGED planVars
    BY <1>2 DEF InEventStore
  <2>2. claim \in [Processes -> Q!ClaimRecord \cup {None}]
    BY StoreRows DEF Inv
  <2>3. PICK e \in Events : claim'[w].event = e
    BY <2>1, <2>2 DEF Q!ClaimNext
  <2>4. PICK j \in JobRecord : j = job[w]
    BY Remembers
  <2>5. PICK r \in JobRecord : r = [j EXCEPT !.pc = "claimed", !.event = e]
    BY DEF JobRecord, Step
  <2>6. r.pc = "claimed" /\ r.event = e /\ r.now = j.now
    BY <2>5 DEF JobRecord
  <2>7. job' = [job EXCEPT ![w] = r]
    BY <1>2, <2>3, <2>4, <2>5
  <2>8. r.now <= clock'
    <3>1. j.now \in 0..clock
      BY <2>4, Remembers
    <3> QED BY <2>6, <3>1 DEF Stays
  <2>9. Recalled(r)'
    BY <2>6, <2>8 DEF Recalled, Expects, AtRoot
  <2> QED BY <2>1, <2>7, <2>9, JobMoves, Claims, NoPlanCall, Assembled
<1> QED BY <1>1, <1>2 DEF ClaimEvent

\* Its batch is looked up.
LEMMA RootsAreChecked ==
    ASSUME Inv, Stays, NEW w \in Processes, Recheck(w)
    PROVE  CoordinationInv'
<1>1. PICK e \in Events : e = Ev(w)
  BY Remembers DEF Recheck, At, JobInv, Recalled, Ev
<1>2. CASE RootIsActive /\ Dispatch(w, "opening") /\ NoCall
  <2>1. planRun[Root].state # "ABSENT"
    BY <1>2 DEF RootIsActive, Inv, CoordinationInv, NoIncident
  <2>2. Expects("opening", e)'
    BY DEF Expects
  <2> QED BY <1>1, <1>2, <2>1, <2>2, Dispatches, NoEventCall, NoPlanCall, Assembled
          DEF NoCall, Step
<1>3. CASE CloseInbox(w, "VERIFIED") /\ Return(w)
  <2>1. Permits(e, "VERIFIED")
    BY DEF Permits
  <2> QED BY <1>1, <1>3, <2>1, Returns, Transitions, NoPlanCall, Assembled
          DEF CloseInbox, InEventStore
<1> QED BY <1>2, <1>3 DEF Recheck, Dispatch

\* Its application is created, or found.
LEMMA ApplicationsOpen ==
    ASSUME Inv, Stays, NEW w \in Processes, OpenApplication(w)
    PROVE  CoordinationInv'
<1>1. PICK e \in Events : e = Ev(w)
  BY Remembers DEF OpenApplication, At, JobInv, Recalled, Ev
<1>2. planRun[Root].state # "ABSENT"
  BY Remembers DEF OpenApplication, At, AtRoot, Step
<1>3. CASE /\ InEventStore(Q!CreateApplication(Ev(w), Root, job[w].seen))
           /\ Dispatch(w, "PENDING") \/ Return(w)
  <2>1. /\ application' = [application EXCEPT ![e][Root] =
              [Q!AbsentApplication EXCEPT !.state = "PENDING", !.source_plan_version = job[w].seen]]
        /\ UNCHANGED <<planVars, inbox>>
    BY <1>1, <1>3 DEF InEventStore, Q!CreateApplication
  <2>2. application \in [Events -> [{Root} -> Q!ApplicationRecord]]
    BY StoreRows DEF Inv
  <2>3. /\ application'[e][Root].state = "PENDING"
        /\ \A f \in Events \ {e} : application'[f][Root] = application[f][Root]
    <3> DEFINE a == [Q!AbsentApplication EXCEPT !.state = "PENDING",
                                               !.source_plan_version = job[w].seen]
    <3>1. a.state = "PENDING"
      BY DEF Q!AbsentApplication
    <3> HIDE DEF a
    <3> QED BY <2>1, <2>2, <3>1 DEF a
  <2>4. ApplicationInv(e)'
    BY <2>3 DEF ApplicationInv, PastFreeze
  <2>5. JobsInv'
    <3>1. Expects("PENDING", e)'
      BY DEF Expects
    <3> QED BY <1>1, <1>2, <1>3, <3>1, Returns, Dispatches DEF Step, Q!ApplicationState
  <2> QED BY <2>1, <2>3, <2>4, <2>5, EventsMove, NoPlanCall, Assembled
<1>4. CASE App(w).state # "ABSENT" /\ NoCall /\ (Dispatch(w, App(w).state) \/ Return(w))
  <2>1. PICK pc : pc = App(w).state
    OBVIOUS
  <2>2. pc \in Q!ApplicationState /\ application[e][Root].state = pc
    BY <1>1, <1>4, <2>1, Remembers DEF App, Q!ApplicationRecord
  <2>3. Expects(pc, e)'
    BY <1>4, <2>2 DEF Expects, NoCall, eventVars, Q!ApplicationState
  <2>4. JobsInv'
    BY <1>1, <1>2, <1>4, <2>1, <2>2, <2>3, Returns, Dispatches DEF Step, Q!ApplicationState
  <2> QED BY <1>4, <2>4, NoEventCall, NoPlanCall, Assembled DEF NoCall
<1> QED BY <1>3, <1>4 DEF OpenApplication

-----------------------------------------------------------------------------
(* Analysis, freeze, emergency plan. *)

\* A process past its claim: its event and what it may rely on.
LEMMA Works ==
    ASSUME Inv, NEW w \in Processes, job[w].pc \notin {"idle", "checked"}
    PROVE  /\ Ev(w) \in Events
           /\ Expects(job[w].pc, Ev(w))
           /\ ApplicationInv(Ev(w)) /\ InboxFollows(Ev(w)) /\ StoresInv
BY Remembers DEF JobInv, Recalled, Ev, Inv

\* The analysis of the version read before.
LEMMA EventsAreAnalyzed ==
    ASSUME Inv, Stays, NEW w \in Processes, Analyze(w)
    PROVE  CoordinationInv'
<1>1. PICK e \in Events : e = Ev(w)
  BY Works DEF Analyze, At
<1>2. PICK v \in Versions : v = job[w].seen
  BY Remembers DEF Analyze, At, AtRoot, Step, Q!ApplicationState
<1>3. v <= planRun[Root].version /\ planRun[Root].version \in Nat
  BY <1>2, Remembers DEF Analyze, At, AtRoot, Step, Q!ApplicationState, JobInv, Recalled, Stays
<1>4. Q!TransitionApplication(e, Root, "PENDING", "FREEZING", AnalysisOf(e, v), None, None)
      /\ UNCHANGED planVars /\ Goto(w, "FREEZING")
  BY <1>1, <1>2 DEF Analyze, MoveApplication, InEventStore
<1>5. /\ UNCHANGED inbox
      /\ \A f \in Events \ {e} : application'[f][Root] = application[f][Root]
      /\ application'[e][Root].state = "FREEZING"
      /\ Impact(e)' = AnalysisOf(e, v)
  <2>1. AnalysisOf(e, v) # None /\ StoresInv
    BY AnalysisType DEF Inv
  <2> HIDE DEF AnalysisOf
  <2> QED BY <1>4, <2>1, Moved DEF Q!Merged, Impact
<1>6. Analysed(e)'
  <2>1. /\ AnalysisOf(e, v) \in Analyses /\ AnalysisOf(e, v).version = v
        /\ v <= planRun'[Root].version
    <3>1. v <= planRun'[Root].version
      BY <1>3, LimitsAssumption DEF Stays, VersionsStay, Versions
    <3> QED BY <3>1, AnalysisType
  <2> QED BY <1>5, <2>1 DEF Analysed
<1>7. ApplicationInv(e)'
  BY <1>5, <1>6 DEF ApplicationInv, PastFreeze
<1>8. Expects("FREEZING", e)'
  BY <1>5 DEF Expects
<1>9. JobsInv'
  <2>1. "FREEZING" \in Step \ {"publishing", "marking"} /\ job[w].pc \in AtRoot
    BY DEF Step, Q!ApplicationState, AtRoot, Analyze, At
  <2> QED BY <1>1, <1>4, <1>8, <2>1, Goes
<1> QED BY <1>4, <1>5, <1>7, <1>9, EventsMove, NoPlanCall, Assembled

\* The freeze itself: from now on no affected card is started.
LEMMA FreezesStop ==
    ASSUME StoresInv, NEW e \in Events, NEW g, Analysed(e),
           Impact(e).version = planRun[Root].version, UNCHANGED application,
           P!ApplyImpactFreeze(Root, Impact(e).version, g, Impact(e).keys, Impact(e).room),
           g \in Events
    PROVE  Stopped(e)'
<1>1. PICK v : v = Impact(e).version
  OBVIOUS
<1>2. PICK keys : keys = Impact(e).keys
  OBVIOUS
<1>3. /\ v \in Versions /\ keys \subseteq KeysOf[Root]
  <2>1. v \in Versions
    BY <1>1 DEF Analysed, Analyses
  <2> QED BY <1>1, <1>2, <2>1, AnalysisType DEF Analysed
<1>4. /\ node \in [P!Node -> P!NodeRecord] /\ runs \in [P!Node -> Seq(P!NodeRunRecord)]
      /\ planRun[Root].version = planRun'[Root].version
  BY StoreRows, Parts DEF P!ApplyImpactFreeze, P!PlanRunRecord
<1>5. ASSUME NEW k \in keys PROVE Halted(<<Root, v, k>>)'
  <2> DEFINE n == <<Root, v, k>>
  <2>1. n \in P!Node /\ n \in P!CurrentNodes(Root) /\ n[3] = k
    BY <1>1, <1>3, Parts, PlansAssumption DEF P!Node, P!Versions, Versions, P!CurrentNodes
  <2> HIDE DEF n
  <2>2. PICK affected : affected = {m \in P!CurrentNodes(Root) : m[3] \in keys}
    OBVIOUS
  <2>3. n \in affected
    BY <2>1, <2>2
  <2>4. node'[n] = IF node[n].state \in P!Freezable THEN [node[n] EXCEPT !.state = "FROZEN"]
                   ELSE node[n]
    <3>1. node' = [m \in P!Node |-> IF m \in affected /\ node[m].state \in P!Freezable
                                    THEN [node[m] EXCEPT !.state = "FROZEN"] ELSE node[m]]
      BY <1>2, <2>2, Zenon DEF P!ApplyImpactFreeze
    <3> QED BY <2>1, <2>3, <3>1
  <2>5. runs'[n] = IF P!HasRun(n) /\ P!LastRun(n).superseded_by = None
                   THEN [runs[n] EXCEPT ![Len(runs[n])].superseded_by = g]
                   ELSE runs[n]
    <3>1. runs' = [m \in P!Node |->
                     IF m \in affected /\ P!HasRun(m) /\ P!LastRun(m).superseded_by = None
                     THEN [runs[m] EXCEPT ![Len(runs[m])].superseded_by = g] ELSE runs[m]]
      BY <1>2, <2>2, Zenon DEF P!ApplyImpactFreeze
    <3> QED BY <2>1, <2>3, <3>1
  <2>6. node'[n].state \notin P!Freezable
    <3>1. node[n] \in P!NodeRecord
      BY <1>4, <2>1
    <3> QED BY <2>4, <3>1 DEF P!Freezable, P!NodeRecord
  <2>7. P!HasRun(n)' => P!LastRun(n)'.superseded_by # None
    <3>1. CASE P!HasRun(n) /\ P!LastRun(n).superseded_by = None
      <4> DEFINE last == Len(runs[n])
      <4>1. runs[n] \in Seq(P!NodeRunRecord) /\ runs[n] # <<>>
        BY <1>4, <2>1, <3>1 DEF P!HasRun
      <4>2. last \in 1..last /\ runs[n][last] \in P!NodeRunRecord
        BY <4>1
      <4> DEFINE r == [runs[n][last] EXCEPT !.superseded_by = g]
      <4>3. r.superseded_by = g
        BY <4>2 DEF P!NodeRunRecord
      <4>4. runs'[n] = [runs[n] EXCEPT ![last] = r]
        BY <2>5, <3>1
      <4> HIDE DEF r
      <4>5. Len(runs'[n]) = last /\ runs'[n][last] = r
        BY <4>1, <4>2, <4>4
      <4> QED BY <4>3, <4>5, NothingAssumption DEF P!LastRun
    <3>2. CASE ~(P!HasRun(n) /\ P!LastRun(n).superseded_by = None)
      BY <2>5, <3>2 DEF P!HasRun, P!LastRun
    <3> QED BY <3>1, <3>2
  <2> QED BY <2>6, <2>7, Zenon DEF Halted, n
<1>6. Impact(e)' = Impact(e)
  BY DEF Impact
<1>7. Analysed(e)'
  BY <1>4, <1>6 DEF Analysed
<1> QED BY <1>1, <1>2, <1>5, <1>6, <1>7 DEF Stopped, Halted, P!HasRun, P!LastRun

LEMMA EventsAreFrozen ==
    ASSUME Inv, Stays, NEW w \in Processes, Freeze(w)
    PROVE  CoordinationInv'
<1>1. PICK e \in Events : e = Ev(w)
  BY Works DEF Freeze, At
<1>2. StoresInv /\ Analysed(e)
  BY <1>1, Works DEF Freeze, At, Expects, ApplicationInv
<1>3. /\ P!ApplyImpactFreeze(Root, Impact(e).version, e, Impact(e).keys, Impact(e).room)
      /\ Impact(e).version = planRun[Root].version
      /\ UNCHANGED <<eventVars, version>> /\ Goto(w, "frozen") /\ At(w, "FREEZING")
  <2>1. /\ P!ApplyImpactFreeze(Root, Impact(e).version, e, Impact(e).keys, Impact(e).room)
        /\ UNCHANGED eventVars /\ Goto(w, "frozen") /\ At(w, "FREEZING")
    BY <1>1 DEF Freeze, InPlanStore, App, Impact
  <2> QED BY <2>1 DEF P!ApplyImpactFreeze
<1>4. Expects("frozen", e)'
  <2>1. Stopped(e)'
    BY <1>2, <1>3, FreezesStop DEF eventVars
  <2> QED BY <2>1 DEF Expects
<1>5. JobsInv'
  <2>1. "frozen" \in Step \ {"publishing", "marking"} /\ job[w].pc \in AtRoot
    BY <1>3 DEF Step, Q!ApplicationState, AtRoot, At
  <2> QED BY <1>1, <1>3, <1>4, <2>1, Goes
<1>6. PublishedAfterEmergency'
  BY <1>2, <1>3, PublishedStays DEF Inv, CoordinationInv
<1> QED BY <1>3, <1>5, <1>6, NoEventCall, Assembled

\* The emergency plan is created, or is there from an earlier run.
LEMMA ChildrenAreCreated ==
    ASSUME Inv, Stays, NEW w \in Processes, CreateChild(w)
    PROVE  CoordinationInv'
<1>1. PICK e \in Events : e = Ev(w)
  BY Works DEF CreateChild, At
<1>2. StoresInv /\ Stopped(e)
  BY <1>1, Works DEF CreateChild, At, Expects
<1>3. UNCHANGED <<eventVars, version>> /\ Goto(w, "recording") /\ At(w, "frozen")
  BY DEF CreateChild, InPlanStore, P!CreateOrResume, NoCall, planVars
<1>4. Expects("recording", e)'
  <2>1. Stopped(e)'
    BY <1>2, EventStays
  <2> QED BY <2>1 DEF Expects
<1>5. JobsInv'
  <2>1. "recording" \in Step \ {"publishing", "marking"} /\ job[w].pc \in AtRoot
    BY <1>3 DEF Step, Q!ApplicationState, AtRoot, At
  <2> QED BY <1>1, <1>3, <1>4, <2>1, Goes
<1>6. PublishedAfterEmergency'
  BY <1>2, <1>3, PublishedStays DEF Inv, CoordinationInv
<1> QED BY <1>3, <1>5, <1>6, NoEventCall, Assembled

\* An application moves on: what has to hold of it, and of the process.
LEMMA Moves ==
    ASSUME Inv, Stays, NEW w \in Processes, NEW e \in Events, e = Ev(w),
           NEW expected, NEW target, NEW child, NEW pc \in Step \ {"publishing", "marking"},
           MoveApplication(w, expected, target, None, child), Goto(w, pc),
           pc \in AtRoot => job[w].pc \in AtRoot,
           ApplicationInv(e)', Expects(pc, e)'
    PROVE  CoordinationInv'
<1>1. /\ Q!TransitionApplication(e, Root, expected, target, None, child, None)
      /\ UNCHANGED planVars /\ StoresInv
  BY DEF MoveApplication, InEventStore, Inv
<1>2. UNCHANGED inbox /\ \A f \in Events \ {e} : application'[f][Root] = application[f][Root]
  BY <1>1, Moved
<1>3. JobsInv'
  BY Goes
<1> QED BY <1>1, <1>2, <1>3, EventsMove, NoPlanCall, Assembled

\* The application knows its emergency plan from the moment it is past its freeze.
LEMMA ChildrenAreRecorded ==
    ASSUME Inv, Stays, NEW w \in Processes, RecordChild(w)
    PROVE  CoordinationInv'
<1>1. PICK e \in Events : e = Ev(w)
  BY Works DEF RecordChild, At
<1>2. PICK c \in Children : c = Child(w)
  BY <1>1, Parts DEF Child
<1>3. StoresInv /\ Stopped(e)
  BY <1>1, Works DEF RecordChild, At, Expects
<1>4. /\ Q!TransitionApplication(e, Root, "FREEZING", "EMERGENCY_RUNNING", None, c, None)
      /\ MoveApplication(w, "FREEZING", "EMERGENCY_RUNNING", None, c)
      /\ Goto(w, "EMERGENCY_RUNNING") /\ At(w, "recording")
  BY <1>1, <1>2 DEF RecordChild, MoveApplication, InEventStore
<1>5. /\ application'[e][Root].state = "EMERGENCY_RUNNING"
      /\ application'[e][Root].emergency_plan # None
  BY <1>2, <1>3, <1>4, Moved, NothingAssumption DEF Q!Merged
<1>6. Stopped(e)' /\ Analysed(e)'
  BY <1>3, EventStays DEF Stopped
<1>7. ApplicationInv(e)'
  BY <1>5, <1>6 DEF ApplicationInv
<1>8. Expects("EMERGENCY_RUNNING", e)'
  BY DEF Expects
<1>9. "EMERGENCY_RUNNING" \in Step \ {"publishing", "marking"} /\ job[w].pc \in AtRoot
  BY <1>4 DEF Step, Q!ApplicationState, AtRoot, At
<1> QED BY <1>1, <1>4, <1>7, <1>8, <1>9, Moves

-----------------------------------------------------------------------------
(* The emergency plan, and what becomes of the event. *)

\* The lease of the event is renewed.
LEMMA LeasesAreRenewed ==
    ASSUME Inv, Stays, NEW w \in Processes, RenewForChild(w) \/ RenewForClose(w)
    PROVE  CoordinationInv'
<1>1. PICK e \in Events : e = Ev(w)
  BY Works DEF RenewForChild, RenewForClose, At
<1>2. EventsInv' /\ UNCHANGED <<planVars, application>>
  <2>1. PICK t : Q!Heartbeat(w, e, t) /\ UNCHANGED planVars
    BY <1>1 DEF RenewForChild, RenewForClose, InEventStore
  <2> QED BY <2>1, Claims DEF Q!Heartbeat
<1>3. CASE RenewForChild(w)
  <2>1. Expects("polling", e)'
    BY DEF Expects
  <2>2. "polling" \in Step \ {"publishing", "marking"} /\ job[w].pc \in AtRoot
    BY <1>3 DEF Step, Q!ApplicationState, AtRoot, RenewForChild, At
  <2> QED BY <1>1, <1>2, <1>3, <2>1, <2>2, Goes, NoPlanCall, Assembled DEF RenewForChild
<1>4. CASE RenewForClose(w)
  <2>1. Expects("closing", e)'
    BY <1>1, <1>2, <1>4, Works DEF Expects, RenewForClose, At
  <2>2. "closing" \in Step \ {"publishing", "marking"} /\ job[w].pc \in AtRoot
    BY <1>4 DEF Step, Q!ApplicationState, AtRoot, RenewForClose, At
  <2> QED BY <1>1, <1>2, <1>4, <2>1, <2>2, Goes, NoPlanCall, Assembled DEF RenewForClose
<1> QED BY <1>3, <1>4

\* The child is looked at, executed, and settled; a person confirms its write.
LEMMA ChildrenRun ==
    ASSUME Inv, Stays, NEW w \in Processes,
           PollChild(w) \/ ExecuteChild(w) \/ SettleChild(w) \/ ConfirmChild(w)
    PROVE  CoordinationInv'
<1>1. PICK e \in Events : e = Ev(w)
  BY Works DEF PollChild, ExecuteChild, SettleChild, ConfirmChild, At
<1>2. PICK pc \in {"succeeded", "failing", "waiting", "releasing", "polling", "settling",
                   "executing", "EMERGENCY_RUNNING", "resuming"} :
         /\ Goto(w, pc)
         /\ pc = "succeeded" => planRun[ChildOf[e]].state = "SUCCEEDED"
         /\ pc \in AtRoot => job[w].pc \in AtRoot
  <2>1. CASE PollChild(w)
    BY <1>1, <2>1 DEF PollChild, PcAfterChild, Child, At, AtRoot, Step
  <2>2. CASE ExecuteChild(w)
    BY <2>2 DEF ExecuteChild, At, AtRoot, Step
  <2>3. CASE SettleChild(w)
    BY <1>1, <2>3 DEF SettleChild, PcAfterChild, Child, At, AtRoot, Step
  <2>4. CASE ConfirmChild(w)
    BY <2>4 DEF ConfirmChild, AtRoot, Step
  <2> QED BY <2>1, <2>2, <2>3, <2>4
<1>3. UNCHANGED <<eventVars, version>>
  <2>1. ASSUME NEW c, P!ClaimReadyNodes(c, clock) PROVE version' = version
    BY <2>1, Zenon DEF P!ClaimReadyNodes, P!Claim
  <2>2. ASSUME NEW n, NEW i, NEW s, P!RecordNodeResult(n, i, s, clock) PROVE version' = version
    BY <2>2, Zenon DEF P!RecordNodeResult
  <2>3. ASSUME NEW n, P!ReconcilePlanReference(n, "SUCCEEDED") PROVE version' = version
    BY <2>3, Zenon DEF P!ReconcilePlanReference
  <2> QED BY <2>1, <2>2, <2>3 DEF PollChild, ExecuteChild, SettleChild, ConfirmChild, NoCall,
          InPlanStore, planVars
<1>4. Expects(pc, e)'
  <2>1. pc = "succeeded" => Succeeded(e)'
    BY <1>2, EventStays DEF Succeeded, Inv
  <2> QED BY <2>1 DEF Expects
<1>5. JobsInv'
  <2>1. pc \in Step \ {"publishing", "marking"}
    BY DEF Step, Q!ApplicationState
  <2> QED BY <1>1, <1>2, <1>4, <2>1, Goes
<1>6. PublishedAfterEmergency'
  BY <1>3, PublishedStays DEF Inv, CoordinationInv
<1> QED BY <1>3, <1>5, <1>6, NoEventCall, Assembled

\* The event is given back, handed to a person, or closed.
LEMMA EventsAreClosed ==
    ASSUME Inv, Stays, NEW w \in Processes,
           ReleaseEvent(w) \/ HandOver(w) \/ CloseFailed(w) \/ CloseApplied(w) \/ RestoreInbox(w)
    PROVE  CoordinationInv'
<1>1. PICK e \in Events : e = Ev(w)
  BY Works DEF ReleaseEvent, HandOver, CloseFailed, CloseApplied, RestoreInbox, At
<1>2. PICK target, expected :
         /\ Permits(e, target) /\ Return(w) /\ UNCHANGED planVars
         /\ Q!TransitionInbox(w, e, expected, target, job[w].now)
  <2>1. Expects(job[w].pc, e)
    BY <1>1, Works DEF ReleaseEvent, HandOver, CloseFailed, CloseApplied, RestoreInbox, At
  <2>2. PICK target, expected :
           /\ \/ target = "VERIFIED"
              \/ target = "WAITING_HUMAN" /\ At(w, "handing")
              \/ target = "FAILED" /\ At(w, "FAILED")
              \/ target = "APPLIED" /\ At(w, "closing")
           /\ Return(w) /\ UNCHANGED planVars
           /\ Q!TransitionInbox(w, e, expected, target, job[w].now)
    BY <1>1, Zenon DEF ReleaseEvent, HandOver, CloseFailed, CloseApplied, RestoreInbox, CloseInbox,
       InEventStore
  <2>3. Permits(e, target)
    BY <2>1, <2>2 DEF Permits, Expects, At
  <2> QED BY <2>2, <2>3
<1> QED BY <1>2, Transitions, Returns, NoPlanCall, Assembled

\* An application that waits for a person, that failed, whose emergency plan
\* succeeded, or that a person let go on.
LEMMA ApplicationsMove ==
    ASSUME Inv, Stays, NEW w \in Processes,
           WaitForHuman(w) \/ ChildFailed(w) \/ ChildSucceeded(w) \/ ResumeApplication(w)
    PROVE  CoordinationInv'
<1>1. PICK e \in Events : e = Ev(w)
  BY Works DEF WaitForHuman, ChildFailed, ChildSucceeded, ResumeApplication, At
<1>2. ApplicationInv(e) /\ StoresInv /\ Expects(job[w].pc, e)
  BY <1>1, Works DEF WaitForHuman, ChildFailed, ChildSucceeded, ResumeApplication, At
<1>3. PICK expected \in {"EMERGENCY_RUNNING", "WAITING_RECONCILIATION"},
           target \in {"WAITING_RECONCILIATION", "FAILED", "REPLAN_READY", "EMERGENCY_RUNNING"},
           pc \in {"handing", "FAILED", "REPLAN_READY", "restoring"} :
         /\ MoveApplication(w, expected, target, None, None) /\ Goto(w, pc)
         /\ pc \in AtRoot => job[w].pc \in AtRoot
         /\ target = "REPLAN_READY" => job[w].pc = "succeeded"
         /\ pc = "FAILED" => target = "FAILED"
  BY DEF WaitForHuman, ChildFailed, ChildSucceeded, ResumeApplication, At, AtRoot, Step
<1>4. /\ application[e][Root].state = expected
      /\ application'[e][Root].state = target
      /\ application'[e][Root].emergency_plan = application[e][Root].emergency_plan
  <2>1. Q!TransitionApplication(e, Root, expected, target, None, None, None)
    BY <1>1, <1>3 DEF MoveApplication, InEventStore
  <2> QED BY <1>2, <2>1, Moved DEF Q!Merged
<1>5. Stopped(e) /\ application[e][Root].emergency_plan # None
  BY <1>2, <1>4 DEF ApplicationInv, PastFreeze
<1>6. Stopped(e)' /\ Analysed(e)'
  BY <1>2, <1>5, EventStays DEF Stopped
<1>7. target = "REPLAN_READY" => Succeeded(e)'
  <2>1. target = "REPLAN_READY" => Succeeded(e)
    BY <1>2, <1>3 DEF Expects
  <2> QED BY <1>2, <2>1, EventStays
<1>8. ApplicationInv(e)'
  BY <1>4, <1>5, <1>6, <1>7 DEF ApplicationInv, PastFreeze
<1>9. Expects(pc, e)'
  BY <1>3, <1>4, <1>5 DEF Expects
<1>10. pc \in Step \ {"publishing", "marking"}
  BY DEF Step, Q!ApplicationState
<1> QED BY <1>1, <1>3, <1>8, <1>9, <1>10, Moves

-----------------------------------------------------------------------------
(* Replanning. *)

\* What is to be published, and for whom.
LEMMA ReplansArePrepared ==
    ASSUME Inv, Stays, NEW w \in Processes, PrepareReplan(w)
    PROVE  CoordinationInv'
<1>1. PICK e \in Events : e = Ev(w)
  BY Works DEF PrepareReplan, At
<1>2. UNCHANGED <<planVars, eventVars>>
  BY DEF PrepareReplan, NoCall
<1>3. CASE Return(w)
  BY <1>2, <1>3, Returns, NoEventCall, NoPlanCall, Assembled
<1>4. CASE ~Return(w)
  <2>1. PICK v : v = planRun[Root].version
    OBVIOUS
  <2>2. PICK merged : merged = Mergeable(v)
    OBVIOUS
  <2>3. PICK reused : reused = ReusableKeys(v, merged)
    OBVIOUS
  <2>4. /\ merged = {} => version[Root][v].signature = e
        /\ job' = [job EXCEPT ![w].pc = "publishing", ![w].seen = v,
                              ![w].merged = merged, ![w].reused = reused]
    BY <1>1, <1>4, <2>1, <2>2, <2>3 DEF PrepareReplan
  <2>5. v \in 0..MaxVersion /\ v \in 1..planRun'[Root].version
        /\ version'[Root][v] = version[Root][v]
    <3>1. planRun[Root].state # "ABSENT"
      BY Remembers DEF PrepareReplan, At, AtRoot, Step, Q!ApplicationState
    <3> QED BY <2>1, <3>1, StoreRows, Parts, LimitsAssumption DEF Inv, Stays, VersionsStay
  <2>6. merged \subseteq Events /\ \A f \in merged : Succeeded(f)'
    <3>1. merged \subseteq Events /\ \A f \in merged : application[f][Root].state = "REPLAN_READY"
      BY <2>2 DEF Mergeable
    <3>2. \A f \in merged : Succeeded(f)
      BY <3>1 DEF Inv, CoordinationInv, ApplicationInv
    <3> QED BY <3>1, <3>2, EventStays DEF Inv
  <2>7. reused \subseteq P!ProductKeys(Root) /\ reused \subseteq Keys
    BY <2>3, Parts, PlansAssumption DEF ReusableKeys, P!ProductKeys
  <2>8. PICK j \in JobRecord : j = job[w]
    BY Remembers
  <2>9. PICK r \in JobRecord : r = [j EXCEPT !.pc = "publishing", !.seen = v,
                                           !.merged = merged, !.reused = reused]
    BY <2>5, <2>6, <2>7 DEF JobRecord, Step
  <2>10. /\ r.pc = "publishing" /\ r.event = e /\ r.now = j.now /\ r.seen = v
         /\ r.merged = merged /\ r.reused = reused
    BY <1>1, <2>8, <2>9 DEF JobRecord, Ev
  <2>11. job' = [job EXCEPT ![w] = r]
    BY <2>4, <2>8, <2>9
  <2>12. r.now <= clock'
    <3>1. j.now \in 0..clock
      BY <2>8, Remembers
    <3> QED BY <2>10, <3>1 DEF Stays
  <2>13. Recalled(r)'
    <3>1. Expects("publishing", e)'
      BY DEF Expects
    <3>2. reused \subseteq P!ProductKeys(Root)'
      BY <2>7 DEF P!ProductKeys
    <3> QED BY <2>4, <2>5, <2>6, <2>10, <2>12, <3>1, <3>2 DEF Recalled
  <2> QED BY <1>2, <2>11, <2>13, JobMoves, NoEventCall, NoPlanCall, Assembled
<1> QED BY <1>3, <1>4

\* The row of a new version names the merged events; the others keep theirs.
LEMMA VersionsArePublished ==
    ASSUME StoresInv, Stays, PublishedAfterEmergency, NEW seen, NEW e, NEW merged \in SUBSET Events,
           NEW reused, NEW t, P!CreateReplanVersion(Root, seen, e, merged, reused, t),
           \A f \in merged : Succeeded(f)
    PROVE  /\ PublishedAfterEmergency'
           /\ version'[Root][planRun'[Root].version].source_event_ids = merged
           /\ planRun'[Root].version \in 1..MaxVersion
<1> DEFINE next == planRun[Root].version + 1
<1>1. /\ planRun \in [Plans -> P!PlanRunRecord] /\ Root \in Plans
      /\ version \in [Plans -> [Versions -> P!VersionRecord]]
      /\ planRun[Root].version \in Nat /\ planRun[Root].version <= MaxVersion
  BY StoreRows, Parts
<1>2. next \in 1..MaxVersion /\ next \in Versions
  BY <1>1, LimitsAssumption DEF P!CreateReplanVersion, P!LoopsOrExhausted, Versions
<1>3. version' = [version EXCEPT ![Root][next] = [source_event_ids |-> merged, signature |-> e]]
  BY Zenon DEF P!CreateReplanVersion
<1>4. planRun'[Root].version = next
  BY <1>1 DEF P!CreateReplanVersion, P!PlanRunRecord
<1> HIDE DEF next
<1>5. /\ version'[Root][next].source_event_ids = merged
      /\ \A v \in Versions \ {next} : version'[Root][v] = version[Root][v]
  BY <1>1, <1>2, <1>3
<1>6. ASSUME NEW f \in Events, NEW v \in Versions, f \in version'[Root][v].source_event_ids
      PROVE  Succeeded(f)'
  <2>1. Succeeded(f)
    BY <1>5, <1>6 DEF PublishedAfterEmergency, Succeeded
  <2> QED BY <2>1, EventStays
<1> QED BY <1>2, <1>4, <1>5, <1>6 DEF PublishedAfterEmergency, Succeeded

LEMMA ReplansArePublished ==
    ASSUME Inv, Stays, NEW w \in Processes, Publish(w)
    PROVE  CoordinationInv'
<1>1. PICK e \in Events : e = Ev(w)
  BY Works DEF Publish, At
<1>2. PICK j \in JobRecord : j = job[w]
  BY Remembers
<1>3. /\ j.pc = "publishing" /\ Recalled(j) /\ StoresInv /\ PublishedAfterEmergency
      /\ j.now \in 0..clock /\ j.event = e
  BY <1>1, <1>2, Remembers DEF Publish, At, JobInv, Inv, CoordinationInv, Ev
<1>4. PICK merged \in SUBSET Events : merged = j.merged
  BY DEF JobRecord
<1>5. ASSUME NEW s, s = planRun'[Root].version, s \in 1..MaxVersion,
             job' = [job EXCEPT ![w].pc = "marking", ![w].seen = s, ![w].reused = {}],
             merged \subseteq version'[Root][s].source_event_ids
      PROVE  JobsInv'
  <2>1. PICK r \in JobRecord : r = [j EXCEPT !.pc = "marking", !.seen = s, !.reused = {}]
    <3>1. s \in 0..MaxVersion
      BY <1>5, LimitsAssumption
    <3> QED BY <3>1 DEF JobRecord, Step
  <2>2. /\ r.pc = "marking" /\ r.event = e /\ r.now = j.now /\ r.seen = s /\ r.merged = merged
    BY <1>3, <1>4, <2>1 DEF JobRecord
  <2>3. job' = [job EXCEPT ![w] = r]
    BY <1>2, <1>5, <2>1
  <2>4. r.now <= clock' /\ r.seen \in 1..planRun'[Root].version
    BY <1>3, <1>5, <2>2, LimitsAssumption DEF Stays
  <2>5. Recalled(r)'
    <3>1. Expects("marking", e)'
      BY DEF Expects
    <3> QED BY <1>5, <2>2, <2>4, <3>1 DEF Recalled
  <2> QED BY <2>3, <2>5, JobMoves
<1>6. CASE /\ InPlanStore(P!CreateReplanVersion(Root, job[w].seen, Ev(w), merged,
                                                job[w].reused, job[w].now))
           /\ job' = [job EXCEPT ![w].pc = "marking", ![w].seen = planRun'[Root].version,
                                 ![w].reused = {}]
  <2>1. \A f \in merged : Succeeded(f)
    BY <1>3, <1>4 DEF Recalled
  <2>2. PICK s : s = planRun'[Root].version
    OBVIOUS
  <2>3. PublishedAfterEmergency' /\ s \in 1..MaxVersion
        /\ version'[Root][s].source_event_ids = merged
    BY <1>3, <1>6, <2>1, <2>2, VersionsArePublished DEF InPlanStore
  <2>4. JobsInv'
    BY <1>5, <1>6, <2>2, <2>3
  <2> QED BY <1>6, <2>3, <2>4, NoEventCall, Assembled DEF InPlanStore
<1>7. CASE /\ P!IsReplay(Root, Ev(w), merged) /\ NoCall
           /\ job' = [job EXCEPT ![w].pc = "marking", ![w].seen = planRun[Root].version,
                                 ![w].reused = {}]
  <2>1. PICK s : s = planRun[Root].version
    OBVIOUS
  <2>2. UNCHANGED <<planVars, eventVars, version>> /\ planRun'[Root].version = s
    BY <1>7, <2>1 DEF NoCall, planVars
  <2>3. merged \subseteq version'[Root][s].source_event_ids
    BY <1>7, <2>1, <2>2 DEF P!IsReplay
  <2>4. s \in 1..MaxVersion
    <3>1. planRun[Root].state # "ABSENT"
      BY Remembers DEF Publish, At, AtRoot, Step
    <3> QED BY <1>3, <2>1, <3>1, StoreRows, Parts, LimitsAssumption
  <2>5. JobsInv'
    BY <1>5, <1>7, <2>1, <2>2, <2>3, <2>4
  <2> QED BY <2>2, <2>5, NoEventCall, NoPlanCall, Assembled
<1>8. CASE InPlanStore(P!RefuseReplan(Root, job[w].seen, Ev(w), merged)) /\ Return(w)
  <2>1. UNCHANGED eventVars /\ version' = version
    BY <1>8 DEF InPlanStore, P!RefuseReplan
  <2> QED BY <1>3, <1>8, <2>1, PublishedStays, Returns, NoEventCall, Assembled
<1> QED BY <1>2, <1>4, <1>6, <1>7, <1>8 DEF Publish

\* Each merged application becomes APPLIED, or is found so.
LEMMA ReplansAreMarked ==
    ASSUME Inv, Stays, NEW w \in Processes, MarkApplied(w)
    PROVE  CoordinationInv'
<1>1. PICK e \in Events : e = Ev(w)
  BY Works DEF MarkApplied, At
<1>2. PICK j \in JobRecord : j = job[w]
  BY Remembers
<1>3. PICK v \in Versions : v = j.seen
  BY <1>2, Remembers DEF MarkApplied, At, AtRoot, Step
<1>4. /\ j.pc = "marking" /\ Recalled(j) /\ StoresInv /\ j.now \in 0..clock /\ j.event = e
      /\ v \in 1..planRun[Root].version /\ v \in 1..planRun'[Root].version
      /\ j.merged \subseteq version[Root][v].source_event_ids /\ j.merged \subseteq Events
      /\ version'[Root][v] = version[Root][v]
  <2>1. /\ j.pc = "marking" /\ Recalled(j) /\ StoresInv /\ j.now \in 0..clock /\ j.event = e
    BY <1>1, <1>2, Remembers DEF MarkApplied, At, JobInv, Inv, CoordinationInv, Ev
  <2> QED BY <1>3, <2>1 DEF Recalled, AtRoot, Step, JobRecord, Stays, VersionsStay
<1>5. ASSUME NEW f, job' = [job EXCEPT ![w].merged = @ \ {f}] PROVE JobsInv'
  <2>1. PICK r \in JobRecord : r = [j EXCEPT !.merged = @ \ {f}]
    BY DEF JobRecord
  <2>2. /\ r.pc = "marking" /\ r.event = e /\ r.now = j.now /\ r.seen = v
        /\ r.merged = j.merged \ {f}
    BY <1>3, <1>4, <2>1 DEF JobRecord
  <2>3. job' = [job EXCEPT ![w] = r]
    BY <1>2, <1>5, <2>1
  <2>4. r.now <= clock'
    BY <1>4, <2>2 DEF Stays
  <2>5. Recalled(r)'
    <3>1. Expects("marking", e)'
      BY DEF Expects
    <3> QED BY <1>4, <2>2, <2>4, <3>1 DEF Recalled
  <2> QED BY <2>3, <2>5, JobMoves
<1>6. PICK f \in j.merged :
         \/ /\ InEventStore(Q!TransitionApplication(f, Root, "REPLAN_READY", "APPLIED",
                                                    None, None, v))
            /\ job' = [job EXCEPT ![w].merged = @ \ {f}]
         \/ NoCall /\ (Return(w) \/ job' = [job EXCEPT ![w].merged = @ \ {f}])
  BY <1>2, <1>3 DEF MarkApplied
<1>7. CASE NoCall
  <2>1. JobsInv'
    BY <1>5, <1>6, <1>7, Returns
  <2> QED BY <1>7, <2>1, NoEventCall, NoPlanCall, Assembled DEF NoCall
<1>8. CASE InEventStore(Q!TransitionApplication(f, Root, "REPLAN_READY", "APPLIED",
                                                None, None, v))
           /\ job' = [job EXCEPT ![w].merged = @ \ {f}]
  <2>1. f \in Events /\ ApplicationInv(f)
    BY <1>4 DEF Inv, CoordinationInv
  <2>2. /\ UNCHANGED <<planVars, inbox>>
        /\ \A g \in Events \ {f} : application'[g][Root] = application[g][Root]
        /\ application[f][Root].state = "REPLAN_READY"
        /\ application'[f][Root].state = "APPLIED"
        /\ application'[f][Root].emergency_plan = application[f][Root].emergency_plan
        /\ application'[f][Root].applied_plan_version = v
    <3>1. v # None
      BY NothingAssumption, LimitsAssumption DEF Versions
    <3> QED BY <1>4, <1>8, <2>1, <3>1, Moved DEF InEventStore, Q!Merged
  <2>3. Stopped(f) /\ Succeeded(f) /\ application[f][Root].emergency_plan # None
    BY <2>1, <2>2 DEF ApplicationInv, PastFreeze
  <2>4. Stopped(f)' /\ Analysed(f)' /\ Succeeded(f)'
    BY <1>4, <2>1, <2>3, EventStays DEF Stopped
  <2>5. ApplicationInv(f)'
    BY <1>4, <2>2, <2>3, <2>4 DEF ApplicationInv
  <2> QED BY <1>5, <1>8, <2>1, <2>2, <2>5, EventsMove, NoPlanCall, Assembled
<1> QED BY <1>6, <1>7, <1>8

\* The coordinator looks at its own application.
LEMMA ReplansAreChecked ==
    ASSUME Inv, Stays, NEW w \in Processes, CheckApplied(w)
    PROVE  CoordinationInv'
<1>1. PICK e \in Events : e = Ev(w)
  BY Works DEF CheckApplied, At
<1>2. UNCHANGED <<planVars, eventVars>>
  BY DEF CheckApplied, NoCall
<1>3. CASE Return(w)
  BY <1>2, <1>3, Returns, NoEventCall, NoPlanCall, Assembled
<1>4. CASE ~Return(w)
  <2>1. PICK j \in JobRecord : j = job[w]
    BY Remembers
  <2>2. PICK t \in 0..MaxClock : t = clock
    BY StoreRows DEF Inv
  <2>3. /\ application'[e][Root].state = "APPLIED"
        /\ job' = [job EXCEPT ![w].pc = "APPLIED", ![w].now = t]
    BY <1>1, <1>2, <1>4, <2>2 DEF CheckApplied, App, eventVars
  <2>4. PICK r \in JobRecord : r = [j EXCEPT !.pc = "APPLIED", !.now = t]
    BY LimitsAssumption DEF JobRecord, Step, Q!ApplicationState, Q!Clock
  <2>5. r.pc = "APPLIED" /\ r.event = e /\ r.now = t /\ r.seen = j.seen
    BY <1>1, <2>1, <2>4 DEF JobRecord, Ev
  <2>6. job' = [job EXCEPT ![w] = r]
    BY <2>1, <2>3, <2>4
  <2>7. r.now <= clock' /\ r.seen \in 1..planRun'[Root].version
    <3>1. j.seen \in 1..planRun[Root].version
      BY <2>1, Remembers DEF CheckApplied, At, AtRoot, Step, JobInv, Recalled
    <3> QED BY <2>2, <2>5, <3>1 DEF Stays, VersionsStay
  <2>8. Recalled(r)'
    <3>1. Expects("APPLIED", e)'
      BY <2>3 DEF Expects
    <3> QED BY <2>5, <2>7, <3>1 DEF Recalled
  <2> QED BY <1>2, <2>6, <2>8, JobMoves, NoEventCall, NoPlanCall, Assembled
<1> QED BY <1>3, <1>4

-----------------------------------------------------------------------------
(* What the coordinators do not do themselves, and the whole step. *)

\* Workers on the batch, its creation, records of events, and time.
LEMMA OthersStep ==
    ASSUME Inv, Stays, Tick \/ OpenBatch \/ Deliver \/ WorkerStep \/ UNCHANGED vars
    PROVE  CoordinationInv'
<1>1. JobsInv'
  <2>1. job' = job
    BY DEF Tick, OpenBatch, Deliver, WorkerStep, vars
  <2> QED BY <2>1, JobsStay
<1>2. PublishedAfterEmergency'
  <2>1. version' = version
    <3>1. CASE WorkerStep
      <4>1. ASSUME P!ClaimReadyNodes(Root, clock) PROVE version' = version
        BY <4>1, Zenon DEF P!ClaimReadyNodes, P!Claim
      <4>2. ASSUME NEW n, NEW i, NEW f, \/ P!RecordNodeInput(n, i, f, clock)
                                        \/ P!RecordNodeResult(n, i, "SUCCEEDED", clock)
            PROVE  version' = version
        BY <4>2, Zenon DEF P!RecordNodeInput, P!RecordNodeResult
      <4> QED BY <3>1, <4>1, <4>2 DEF WorkerStep
    <3>2. CASE ~WorkerStep
      BY <3>2 DEF Tick, P!Tick, OpenBatch, P!CreateOrResume, Deliver, planVars, vars
    <3> QED BY <3>1, <3>2
  <2> QED BY <2>1, PublishedStays DEF Inv, CoordinationInv
<1>3. CASE ~Deliver
  <2>1. UNCHANGED eventVars
    BY <1>3 DEF Tick, OpenBatch, WorkerStep, vars
  <2> QED BY <1>1, <1>2, <2>1, NoEventCall, Assembled
<1>4. CASE Deliver
  <2>1. PICK d \in Deliveries : Q!RegisterEvent(d)
    BY <1>4 DEF Deliver
  <2>2. inbox \in [Events -> Q!InboxRecord] /\ EventOf[d] \in Events
    BY StoreRows, EventsAssumption DEF Inv
  <2>3. PICK g \in Events : g = EventOf[d]
    BY <2>2
  <2>4. /\ UNCHANGED application
        /\ \E row : /\ inbox' = [inbox EXCEPT ![g] = row]
                    /\ row.state = inbox[g].state \/ row.state \in {"VERIFIED", "CONFLICT"}
    <3>1. Q!Accepted(d).state = "VERIFIED"
      BY DEF Q!Accepted, Q!AbsentEvent
    <3>2. Q!Conflicted(g, d).state = "CONFLICT"
      BY <2>2 DEF Q!Conflicted, Q!InboxRecord
    <3>3. \/ inbox' = [inbox EXCEPT ![g] = Q!Accepted(d)]
          \/ inbox' = [inbox EXCEPT ![g] = inbox[g]]
          \/ inbox' = [inbox EXCEPT ![g] = Q!Conflicted(g, d)]
      BY <2>1, <2>3 DEF Q!RegisterEvent
    <3> QED BY <2>1, <3>1, <3>2, <3>3 DEF Q!RegisterEvent
  <2>5. \A e \in Events : \/ inbox'[e].state = inbox[e].state
                          \/ inbox'[e].state \in {"VERIFIED", "CONFLICT"}
    BY <2>2, <2>4
  <2>6. EventsInv'
    BY <2>4, <2>5, EventsStay DEF Permits
  <2> QED BY <1>1, <1>2, <2>6, Assembled
<1> QED BY <1>3, <1>4

LEMMA InvStep == Inv /\ [Next]_vars => Inv'
<1> SUFFICES ASSUME Inv, [Next]_vars PROVE Inv'
  OBVIOUS
<1>1. (Calls \/ Tick) /\ StoresInv
  BY NextCalls DEF Inv
<1>2. StoresInv' /\ Stays
  BY <1>1, StoresInvStep, StepStays
<1>3. ASSUME NEW w \in Processes, CoordinatorStep(w) \/ ReconcileStep(w) \/ Crash(w)
      PROVE  CoordinationInv'
  <2>1. CASE \/ RunNext(w) \/ (\E e \in Events : ReconcileWaiting(w, e))
             \/ StayWaiting(w) \/ Crash(w)
    BY <1>2, <2>1, RunsBegin
  <2>2. CASE ClaimEvent(w) \/ Recheck(w) \/ OpenApplication(w)
    BY <1>2, <2>2, EventsAreClaimed, RootsAreChecked, ApplicationsOpen
  <2>3. CASE Analyze(w) \/ Freeze(w) \/ CreateChild(w) \/ RecordChild(w)
    BY <1>2, <2>3, EventsAreAnalyzed, EventsAreFrozen, ChildrenAreCreated, ChildrenAreRecorded
  <2>4. CASE RenewForChild(w) \/ RenewForClose(w)
    BY <1>2, <2>4, LeasesAreRenewed
  <2>5. CASE PollChild(w) \/ ExecuteChild(w) \/ SettleChild(w) \/ ConfirmChild(w)
    BY <1>2, <2>5, ChildrenRun
  <2>6. CASE \/ ReleaseEvent(w) \/ HandOver(w) \/ CloseFailed(w) \/ CloseApplied(w)
             \/ RestoreInbox(w)
    BY <1>2, <2>6, EventsAreClosed
  <2>7. CASE WaitForHuman(w) \/ ChildFailed(w) \/ ChildSucceeded(w) \/ ResumeApplication(w)
    BY <1>2, <2>7, ApplicationsMove
  <2>8. CASE PrepareReplan(w) \/ Publish(w) \/ MarkApplied(w) \/ CheckApplied(w)
    BY <1>2, <2>8, ReplansArePrepared, ReplansArePublished, ReplansAreMarked, ReplansAreChecked
  <2> QED BY <1>3, <2>1, <2>2, <2>3, <2>4, <2>5, <2>6, <2>7, <2>8
          DEF CoordinatorStep, ReconcileStep
<1>4. CoordinationInv'
  BY <1>2, <1>3, OthersStep DEF Next
<1> QED BY <1>2, <1>4 DEF Inv

LEMMA InvInit == Init => Inv
<1> SUFFICES ASSUME Init PROVE Inv
  OBVIOUS
<1>1. StoresInv
  BY StoresInvInit
<1>2. NoIncident
  BY Parts DEF Init, P!Init, P!AbsentPlan, NoIncident
<1>3. /\ Idle \in JobRecord /\ Idle.pc = "idle" /\ Idle.now = 0 /\ clock = 0
      /\ job = [w \in Processes |-> Idle]
  BY LimitsAssumption DEF Idle, JobRecord, Step, Q!Clock, Init, P!Init
<1>4. \A w \in Processes : JobInv(w)
  BY <1>3 DEF JobInv, Recalled, AtRoot
<1>5. \A e \in Events : application[e][Root].state = "ABSENT" /\ inbox[e].state = "ABSENT"
  BY DEF Init, Q!InboxInit, Q!AbsentEvent, Q!AbsentApplication
<1>6. \A e \in Events : ApplicationInv(e) /\ InboxFollows(e)
  BY <1>5 DEF ApplicationInv, InboxFollows, Permits, PastFreeze
<1>7. PublishedAfterEmergency
  <2>1. \A v \in Versions : version[Root][v].source_event_ids = {}
    BY Parts DEF Init, P!Init, P!FirstVersion, Versions, P!Versions
  <2> QED BY <2>1 DEF PublishedAfterEmergency
<1> QED BY <1>1, <1>2, <1>3, <1>4, <1>6, <1>7 DEF Inv, CoordinationInv

\* The invariant holds throughout.
THEOREM Coordination == Spec => []Inv
BY InvInit, InvStep, PTL DEF Spec

-----------------------------------------------------------------------------
(* The coordinators on their stores. *)

\* Whatever the coordinators, the workers and a person do to the plans is what
\* the PlanStore lets any caller do: every step of a call of run_next is one
\* store call or none, with arguments the store expects.
THEOREM PlanStoreIsCalled == Spec => P!Spec
<1>1. Init => P!Init
  BY DEF Init
<1>2. Inv /\ [Next]_vars => [P!Next]_(P!vars)
  BY NextCalls, StoreSteps DEF Inv
<1> QED BY <1>1, <1>2, Coordination, PTL DEF Spec, P!Spec

\* The same of the Event Store, whose callers pass the instant their run was
\* started with: it lies anywhere between 0 and the clock.
THEOREM EventStoreIsCalled == Spec => Q!Spec
<1>1. Init => Q!Init
  BY DEF Init, P!Init, Q!Init
<1>2. Inv /\ [Next]_vars => [Q!Next]_(Q!vars)
  BY NextCalls, StoreSteps DEF Inv
<1> QED BY <1>1, <1>2, Coordination, PTL DEF Spec, Q!Spec

\* Type correctness of both stores and of what the processes remember.
THEOREM Types == Spec => []TypeOK
<1>1. Inv => TypeOK
  <2> SUFFICES ASSUME Inv PROVE TypeOK
    OBVIOUS
  <2>1. PT!TypeOK /\ QT!TypeOK
    BY DEF Inv, StoresInv, PT!StoreInv, QT!InboxInv
  <2>2. P!TypeOK
    BY <2>1, Zenon DEF P!TypeOK, PT!TypeOK, P!Clock, PT!Clock, P!PlanRunRecord, PT!PlanRunRecord,
       P!PlanState, PT!PlanState, P!VersionRecord, PT!VersionRecord, P!Node, PT!Node, P!Versions,
       PT!Versions, P!NodeRecord, PT!NodeRecord, P!NodeState, PT!NodeState, P!NodeRunRecord,
       PT!NodeRunRecord, P!CommandRecord, PT!CommandRecord, P!Reasons, PT!Reasons
  <2>3. Q!TypeOK
    BY <2>1, Zenon DEF Q!TypeOK, QT!TypeOK, Q!Clock, QT!Clock, Q!InboxRecord, QT!InboxRecord,
       Q!InboxState, QT!InboxState, Q!ClaimRecord, QT!ClaimRecord, Q!ApplicationRecord,
       QT!ApplicationRecord, Q!ApplicationState, QT!ApplicationState, Q!OccurrenceKind,
       QT!OccurrenceKind
  <2> QED BY <2>2, <2>3 DEF TypeOK, Inv, CoordinationInv
<1> QED BY <1>1, Coordination, PTL

\* The card of a product and the sold-out write of the emergency plan that froze
\* it never hold the product together (claim_ready_nodes of the store): the
\* coordinators are callers for whom the store promises it.
THEOREM Exclusion == Spec => []ResourceExclusion
<1>1. Init => PT!Init
  BY SameInits DEF Init
<1>2. Inv /\ [Next]_vars => [PT!Next]_(PT!vars)
  BY NextCalls, StoreSteps, SamePlanSteps DEF Inv
<1>3. Spec => PT!Spec
  BY <1>1, <1>2, Coordination, PTL DEF Spec, PT!Spec
<1>4. PT!Spec => []PT!ResourceExclusion
  BY PT!Exclusion, PlanConstants
<1>5. PT!ResourceExclusion => ResourceExclusion
  BY Zenon DEF ResourceExclusion, P!ResourceExclusion, PT!ResourceExclusion, P!Node, PT!Node,
     P!Versions, PT!Versions, P!HoldsResources, PT!HoldsResources, P!HasRun, PT!HasRun,
     P!LastRun, PT!LastRun, P!Resources, PT!Resources
<1> QED BY <1>3, <1>4, <1>5, PTL

-----------------------------------------------------------------------------
(* Events, applications and versions. *)

\* The inbox never runs ahead of the application (preemption.py moves the
\* application first, then the inbox): an event is closed only for what its
\* application already says.
THEOREM Following == Spec => []InboxFollowsApplication
<1>1. Inv => InboxFollowsApplication
  BY DEF Inv, CoordinationInv, InboxFollows, Permits, InboxFollowsApplication
<1> QED BY <1>1, Coordination, PTL

\* An APPLIED application names a version that was published for its event
\* (replan() marks what it merged).
THEOREM Applied == Spec => []AppliedIsPublished
<1>1. Inv => AppliedIsPublished
  BY DEF Inv, CoordinationInv, ApplicationInv, AppliedIsPublished
<1> QED BY <1>1, Coordination, PTL

\* The product of an event is off sale before a version goes on without it:
\* no version merges an event whose emergency plan has not succeeded.
THEOREM EmergencyFirst == Spec => []PublishedAfterEmergency
<1>1. Inv => PublishedAfterEmergency
  BY DEF Inv, CoordinationInv
<1> QED BY <1>1, Coordination, PTL

\* Once an event is past its freeze, the affected cards of the version it froze
\* are not started any more, by whoever claims (apply_impact_freeze).
THEOREM FrozenWork == Spec => FrozenWorkStops
<1> DEFINE A == \A e \in Events :
                  LET app == application[e][Root] IN
                  app.state \in {"EMERGENCY_RUNNING", "WAITING_RECONCILIATION", "REPLAN_READY",
                                 "APPLIED"} =>
                    \A k \in app.impact_analysis.keys :
                        LET n == <<Root, app.impact_analysis.version, k>> IN
                        Len(runs'[n]) = Len(runs[n])
<1>1. Inv /\ [Next]_vars => A
  <2> SUFFICES ASSUME Inv, [Next]_vars, NEW e \in Events, application[e][Root].state \in PastFreeze,
                      NEW k \in Impact(e).keys
               PROVE  LET n == <<Root, Impact(e).version, k>> IN Len(runs'[n]) = Len(runs[n])
    BY DEF PastFreeze, Impact
  <2>1. StoresInv /\ Stays
    BY NextCalls, StepStays DEF Inv
  <2>2. Analysed(e) /\ Stopped(e)
    BY DEF Inv, CoordinationInv, ApplicationInv, Stopped
  <2>3. PICK v : v = Impact(e).version
    OBVIOUS
  <2>4. v \in Versions /\ v <= planRun[Root].version /\ Impact(e).keys \subseteq KeysOf[Root]
    <3>1. v \in Versions /\ v <= planRun[Root].version
      BY <2>2, <2>3 DEF Analysed, Analyses
    <3> QED BY <2>2, <2>3, <3>1, AnalysisType DEF Analysed
  <2>5. <<Root, v, k>> \in P!Node
    BY <2>4, Parts, PlansAssumption DEF P!Node, P!Versions, Versions
  <2>6. Halted(<<Root, v, k>>)
    BY <2>2, <2>3 DEF Stopped
  <2> QED BY <2>1, <2>3, <2>4, <2>5, <2>6 DEF Stays, HaltedStays
<1>2. A => [A]_vars
  OBVIOUS
<1> HIDE DEF A
<1>3. Spec => [][A]_vars
  BY <1>1, Coordination, PTL DEF Spec
<1> QED BY <1>3 DEF A, FrozenWorkStops

\* Only create_replan_version gives the batch a further version.
LEMMA OnlyReplans ==
    ASSUME StoresInv, PlanCall, planRun[Root].version > 0,
           planRun'[Root].version # planRun[Root].version
    PROVE  \E u, g, sources, reused, t : P!CreateReplanVersion(Root, u, g, sources, reused, t)
<1>1. /\ planRun \in [Plans -> P!PlanRunRecord] /\ Root \in Plans /\ Children \subseteq Plans
      /\ planRun[Root].state # "ABSENT"
  BY StoreRows, Parts
<1>2. ASSUME NEW p \in Plans, P!CreateOrResume(p) PROVE FALSE
  BY <1>1, <1>2 DEF P!CreateOrResume
<1>3. ASSUME NEW p, NEW t, P!ClaimReadyNodes(p, t) PROVE FALSE
  BY <1>3, Zenon DEF P!ClaimReadyNodes, P!Claim
<1>4. ASSUME NEW n \in P!Node, NEW i, NEW s, NEW t, P!RecordNodeResult(n, i, s, t) PROVE FALSE
  <2>1. PICK superseded, u : P!CloseNode(n, i, s, superseded, u)
    BY <1>4, Zenon DEF P!RecordNodeResult
  <2> QED BY <1>1, <2>1, CloseStays
<1>5. ASSUME NEW n \in P!Node, P!ReconcilePlanReference(n, "SUCCEEDED") PROVE FALSE
  <2>1. PICK i, s, superseded, u : P!CloseNode(n, i, s, superseded, u)
    BY <1>5, Zenon DEF P!ReconcilePlanReference, P!CloseReconciliation
  <2> QED BY <1>1, <2>1, CloseStays
<1>6. ASSUME NEW n, NEW i, NEW f, NEW t, P!RecordNodeInput(n, i, f, t) PROVE FALSE
  BY <1>6 DEF P!RecordNodeInput
<1>7. ASSUME NEW v, NEW e, NEW keys, NEW room, P!ApplyImpactFreeze(Root, v, e, keys, room)
      PROVE  FALSE
  BY <1>1, <1>7 DEF P!ApplyImpactFreeze, P!PlanRunRecord
<1>8. ASSUME NEW v, NEW g, NEW sources, P!RefuseReplan(Root, v, g, sources) PROVE FALSE
  BY <1>1, <1>8 DEF P!RefuseReplan, P!PlanRunRecord
<1>9. ~P!FreezeStep
  BY <1>7 DEF P!FreezeStep
<1>10. ASSUME NEW c \in Children PROVE ~ChildCall(c)
  <2>1. c \in Plans /\ P!CurrentNodes(c) \subseteq P!Node
    BY <1>1 DEF P!CurrentNodes
  <2> QED BY <2>1, <1>2, <1>3, <1>4, <1>5 DEF ChildCall
<1>11. ~BatchCall
  BY <1>1, <1>2, <1>3, <1>4, <1>6 DEF BatchCall
<1>12. P!ReplanStep
  BY <1>9, <1>10, <1>11 DEF PlanCall
<1> QED BY <1>8, <1>12, Zenon DEF P!ReplanStep

\* A version takes over no card that ran in the version in which an event froze
\* it, whether or not the event is merged (replan() and create_replan_version).
THEOREM FrozenReuse == Spec => ReuseAvoidsFrozen
<1> DEFINE A == \A e \in Events, k \in KeysOf[Root] :
                  LET app == application[e][Root]  v == planRun'[Root].version IN
                  /\ v > planRun[Root].version /\ planRun[Root].version > 0
                  /\ app.state \in {"EMERGENCY_RUNNING", "WAITING_RECONCILIATION", "REPLAN_READY"}
                  /\ app.impact_analysis.version = planRun[Root].version
                  /\ k \in app.impact_analysis.keys /\ P!HasRun(<<Root, planRun[Root].version, k>>)
                  => ~node'[<<Root, v, k>>].reused
<1>1. ASSUME Inv, [Next]_vars, NEW e \in Events, NEW k \in KeysOf[Root],
             planRun'[Root].version > planRun[Root].version, planRun[Root].version > 0,
             application[e][Root].state \in {"EMERGENCY_RUNNING", "WAITING_RECONCILIATION",
                                             "REPLAN_READY"},
             Impact(e).version = planRun[Root].version, k \in Impact(e).keys,
             P!HasRun(<<Root, planRun[Root].version, k>>),
             node'[<<Root, planRun'[Root].version, k>>].reused
      PROVE  FALSE
  <2>1. StoresInv /\ Stays /\ Stopped(e) /\ PlanCall
    <3>1. (Calls \/ Tick) /\ StoresInv /\ Stays
      BY <1>1, NextCalls, StepStays DEF Inv
    <3>2. planRun' # planRun
      BY <1>1, <3>1 DEF Stays
    <3>3. PlanCall
      BY <3>1, <3>2 DEF Calls, NoCall, planVars, Tick, P!Tick
    <3> QED BY <1>1, <3>1, <3>3 DEF Inv, CoordinationInv, ApplicationInv, PastFreeze
  <2>2. PICK v : v = planRun[Root].version
    OBVIOUS
  <2>3. v \in Nat /\ v > 0 /\ planRun'[Root].version # v
    BY <1>1, <2>1, <2>2 DEF Stays
  <2>4. PICK u, g, sources, reused, t : P!CreateReplanVersion(Root, u, g, sources, reused, t)
    BY <1>1, <2>1, <2>2, <2>3, OnlyReplans
  <2>5. planRun'[Root].version = v + 1 /\ v + 1 <= MaxVersion
        /\ node' = P!WithNewNodes(Root, v + 1, reused, t)
        /\ \A key \in reused : P!Reusable(Root, v, key)
    <3>1. planRun \in [Plans -> P!PlanRunRecord] /\ Root \in Plans
      BY <2>1, StoreRows, Parts
    <3>2. planRun'[Root].version = v + 1
      BY <2>2, <2>4, <3>1 DEF P!CreateReplanVersion, P!PlanRunRecord
    <3>3. v + 1 <= MaxVersion
      BY <2>2, <2>3, <2>4, LimitsAssumption DEF P!CreateReplanVersion, P!LoopsOrExhausted
    <3> QED BY <2>2, <2>4, <3>2, <3>3, Zenon DEF P!CreateReplanVersion
  <2> DEFINE n == <<Root, v + 1, k>>
  <2>6. n \in P!Node /\ n[1] = Root /\ n[2] = v + 1 /\ n[3] = k
    BY <2>3, <2>5, Parts, PlansAssumption, LimitsAssumption DEF P!Node, P!Versions, Versions
  <2>7. node'[n].reused = (k \in reused)
    <3>1. node'[n] = P!NewNode(k, reused, t)
      BY <2>5, <2>6 DEF P!WithNewNodes
    <3> QED BY <3>1 DEF P!NewNode
  <2>8. P!Reusable(Root, v, k)
    BY <1>1, <2>5, <2>7
  <2>9. PICK x \in P!Evidence(Root, v, k) : P!LastRun(<<Root, x, k>>).superseded_by = None
    BY <2>8, Zenon DEF P!Reusable
  <2>10. x = v
    <3>1. x \in 1..v /\ \A y \in (x + 1)..v : ~P!HasRun(<<Root, y, k>>)
      BY <2>9 DEF P!Evidence
    <3>2. P!HasRun(<<Root, v, k>>)
      BY <1>1, <2>2
    <3> QED BY <2>3, <3>1, <3>2
  <2>11. Halted(<<Root, v, k>>)
    BY <1>1, <2>1, <2>2 DEF Stopped
  <2> QED BY <1>1, <2>2, <2>9, <2>10, <2>11 DEF Halted
<1>2. Inv /\ [Next]_vars => A
  BY <1>1 DEF Impact
<1>3. A => [A]_vars
  OBVIOUS
<1> HIDE DEF A
<1>4. Spec => [][A]_vars
  BY <1>2, Coordination, PTL DEF Spec
<1> QED BY <1>4 DEF A, ReuseAvoidsFrozen

=============================================================================
