--------------------------- MODULE PlanWorkerProofs ---------------------------
(* Theorems about PlanWorker, for any workers, plans, DAG, leases, deadlines and
   bounds: the workers use the PlanStore as any caller may, and a write is
   reserved before it is sent, carried out at most once and reported for what it
   was, whichever workers crash, lose their lease or take a node over. *)
EXTENDS MCPlanWorker, TLAPS

PT == INSTANCE PlanStoreTheorems WITH
        MaxVersion <- 1, Events <- {}, Signatures <- {}, Fingerprints <- {"input"},
        CommandIds <- {}, ClaimLimit <- 1, ApprovalTTL <- 0, ReconcileTTL <- 0,
        ResultStates <- {"SUCCEEDED", "FAILED", "WAITING_RECONCILIATION"},
        ClockLag <- 0

-----------------------------------------------------------------------------
(* What the theorems of the store assume of their constants. *)

LEMMA PlanConstants ==
    /\ CardBatch \subseteq Plans
    /\ KeysOf \in [Plans -> SUBSET Keys] /\ DependsOn \in [Keys -> SUBSET Keys]
    /\ \A p \in Plans : \A k \in KeysOf[p] : DependsOn[k] \subseteq KeysOf[p]
    /\ RootKeys \subseteq Keys /\ \A k \in RootKeys : DependsOn[k] = {}
    /\ DOMAIN ResourceKeys = Plans /\ \A p \in Plans : DOMAIN ResourceKeys[p] = Keys
    /\ {"SUCCEEDED", "FAILED", "WAITING_RECONCILIATION"} \subseteq PT!NodeState
    /\ 1 \in Nat \ {0} /\ Lease \in Nat \ {0}
    /\ RetryDelays \subseteq Nat /\ 0 \in Nat
    /\ MaxClock \in Nat /\ MaxRuns \in Nat \ {0}
    /\ None \notin Int \cup {} \cup {} \cup {"input"} \cup PT!Node
<1>1. {"SUCCEEDED", "FAILED", "WAITING_RECONCILIATION"} \subseteq PT!NodeState
  BY DEF PT!NodeState
<1>2. P!Node = PT!Node
  BY DEF P!Node, PT!Node, P!Versions, PT!Versions
<1> QED BY <1>1, <1>2, PlansAssumption, LimitsAssumption, NothingAssumption

\* The store of the proofs is the store of the workers.
LEMMA SameInit == P!Init => PT!Init
BY DEF P!Init, PT!Init, P!AbsentPlan, PT!AbsentPlan, P!AbsentNode, PT!AbsentNode,
       P!FirstVersion, PT!FirstVersion, P!Node, PT!Node, P!Versions, PT!Versions

\* So are its steps, operation for operation.
LEMMA SamePlanSteps == [P!Next]_(P!vars) => [PT!Next]_(PT!vars)
BY Zenon DEF P!Next, PT!Next, P!AwaitedStatus, PT!AwaitedStatus, P!IsReplay,
    PT!IsReplay, P!IsCurrent, PT!IsCurrent, P!DueRetries, PT!DueRetries,
    P!HoldsResources, PT!HoldsResources, P!RecordNodeResult, PT!RecordNodeResult,
    P!Freezable, PT!Freezable, P!ClearReconciliationFailure,
    PT!ClearReconciliationFailure, P!OperatorStep, PT!OperatorStep, P!Resume, PT!Resume,
    P!vars, PT!vars, P!DependencyClosure, PT!DependencyClosure, P!ReplanStep,
    PT!ReplanStep, P!LockedResources, PT!LockedResources, P!NodeState, PT!NodeState,
    P!Transitions, PT!Transitions, P!AllSucceeded, PT!AllSucceeded, P!Precedes,
    PT!Precedes, P!Picks, PT!Picks, P!Cardinality, PT!Cardinality,
    P!RecordReconciliationFailure, PT!RecordReconciliationFailure, P!ProductKeys,
    PT!ProductKeys, P!TTL, PT!TTL, P!Evidence, PT!Evidence, P!RecordNodeInput,
    PT!RecordNodeInput, P!CloseReconciliation, PT!CloseReconciliation,
    P!ReconcilePlanReference, PT!ReconcilePlanReference, P!IssueResume, PT!IssueResume,
    P!Conflict, PT!Conflict, P!ReclaimExpiredNode, PT!ReclaimExpiredNode, P!HoldsClaim,
    PT!HoldsClaim, P!HeartbeatNodeRun, PT!HeartbeatNodeRun, P!WithDependentsReady,
    PT!WithDependentsReady, P!FreezeStep, PT!FreezeStep, P!NewNode, PT!NewNode,
    P!BlockedByIncident, PT!BlockedByIncident, P!WithNewNodes, PT!WithNewNodes,
    P!Approve, PT!Approve, P!Tick, PT!Tick, P!Claim, PT!Claim, P!Promoted, PT!Promoted,
    P!CurrentNodes, PT!CurrentNodes, P!LoopsOrExhausted, PT!LoopsOrExhausted,
    P!Reusable, PT!Reusable, P!Schedulable, PT!Schedulable, P!ClaimReadyNodes,
    PT!ClaimReadyNodes, P!FreezePlan, PT!FreezePlan, P!ClaimNextReadyNodes,
    PT!ClaimNextReadyNodes, P!RefuseReplan, PT!RefuseReplan, P!ScheduleRetry,
    PT!ScheduleRetry, P!SubmitCommand, PT!SubmitCommand, P!Reject, PT!Reject,
    P!Reclaimable, PT!Reclaimable, P!WorkerStep, PT!WorkerStep, P!CloseNode,
    PT!CloseNode, P!ReconcileStep, PT!ReconcileStep, P!Versions, PT!Versions,
    P!ApplyImpactFreeze, PT!ApplyImpactFreeze, P!LastRun, PT!LastRun, P!PlanAfter,
    PT!PlanAfter, P!Resources, PT!Resources, P!IssueNodeCommand, PT!IssueNodeCommand,
    P!CreateReplanVersion, PT!CreateReplanVersion, P!HasRun, PT!HasRun,
    P!CreateOrResume, PT!CreateOrResume, P!Now, PT!Now, P!NewRun, PT!NewRun, P!Verdict,
    PT!Verdict, P!Dependencies, PT!Dependencies, P!Node, PT!Node, P!Resumable,
    PT!Resumable

-----------------------------------------------------------------------------
(* The invariant. *)

\* Worker w is the one that makes the write of its node.
Writing(w) == job[w].pc \in {"call", "handler", "written"} /\ NodeOf(w) \in WriteNodes

\* A worker works on a claim that was given out.
ClaimInv(w) ==
    job[w].pc # "idle" => NodeOf(w) \in P!Node /\ job[w].run \in DOMAIN runs[NodeOf(w)]

\* What it knows of the write of its node.
WriteInv(w) ==
    /\ job[w].pc \in {"reserve", "written"} => NodeOf(w) \in WriteNodes
    /\ Writing(w) =>
          /\ attempt[NodeOf(w)] = "INTENT_RECORDED"
          /\ sent[NodeOf(w)] = IF job[w].pc = "written" THEN 1 ELSE 0
    /\ job[w].pc = "report" /\ NodeOf(w) \in WriteNodes =>
          /\ job[w].outcome = "SUCCEEDED" => attempt[NodeOf(w)] = "SUCCEEDED"
          /\ job[w].outcome = "WAITING_RECONCILIATION"
                => attempt[NodeOf(w)] = "SIDE_EFFECT_UNKNOWN"

\* The attempt is reserved by one worker, whoever else claims the node.
OneWriter ==
    \A v, w \in Workers : Writing(v) /\ Writing(w) /\ NodeOf(v) = NodeOf(w) => v = w

\* What the Attempt Store says of the platform.
AttemptInv(n) ==
    /\ sent[n] \in {0, 1}
    /\ attempt[n] \in {"NONE", "NOT_SENT"} => sent[n] = 0
    /\ attempt[n] = "SUCCEEDED" => sent[n] = 1

\* What the node says of both.
NodeTells(n) ==
    /\ node[n].state = "SUCCEEDED" => sent[n] = 1
    /\ node[n].state = "WAITING_RECONCILIATION" => attempt[n] = "SIDE_EFFECT_UNKNOWN"

StoreInv == PT!StoreInv /\ PT!NodeInv

WorkType ==
    /\ attempt \in [WriteNodes -> AttemptState]
    /\ sent \in [WriteNodes -> Nat]
    /\ verified \in BOOLEAN
    /\ job \in [Workers -> JobRecord]
    /\ lost \in BOOLEAN

WorkInv ==
    /\ WorkType
    /\ \A w \in Workers : ClaimInv(w) /\ WriteInv(w)
    /\ OneWriter
    /\ \A n \in WriteNodes : AttemptInv(n) /\ NodeTells(n)

Inv == StoreInv /\ WorkInv

\* What the invariant of the store says of its rows.
LEMMA StoreRows ==
    ASSUME StoreInv
    PROVE  /\ clock \in 0..MaxClock /\ clock \in P!Now
           /\ planRun \in [Plans -> P!PlanRunRecord]
           /\ node \in [P!Node -> P!NodeRecord]
           /\ runs \in [P!Node -> Seq(P!NodeRunRecord)]
           /\ \A n \in P!Node : Len(runs[n]) \in Nat /\ DOMAIN runs[n] = 1..Len(runs[n])
           /\ P!TypeOK
<1>1. PT!TypeOK
  BY DEF StoreInv, PT!StoreInv
<1>2. P!TypeOK
  BY <1>1, Zenon DEF P!TypeOK, PT!TypeOK, P!Clock, PT!Clock, P!PlanRunRecord, PT!PlanRunRecord,
     P!PlanState, PT!PlanState, P!VersionRecord, PT!VersionRecord, P!Node, PT!Node, P!Versions,
     PT!Versions, P!NodeRecord, PT!NodeRecord, P!NodeState, PT!NodeState, P!NodeRunRecord,
     PT!NodeRunRecord, P!CommandRecord, PT!CommandRecord, P!Reasons, PT!Reasons, P!CommandType,
     PT!CommandType
<1>3. clock \in 0..MaxClock /\ clock \in P!Now
  BY <1>2, LimitsAssumption DEF P!TypeOK, P!Clock, P!Now
<1>4. \A n \in P!Node : Len(runs[n]) \in Nat /\ DOMAIN runs[n] = 1..Len(runs[n])
  BY <1>2 DEF P!TypeOK
<1> QED BY <1>2, <1>3, <1>4 DEF P!TypeOK

LEMMA InvInit == Init => Inv
<1> SUFFICES ASSUME Init PROVE Inv
  OBVIOUS
<1>1. StoreInv
  <2>1. PT!Init
    BY SameInit DEF Init
  <2> QED BY <2>1, PlanConstants, PT!StoreInvInit, PT!NodeInvInit DEF StoreInv
<1>2. /\ Idle \in JobRecord /\ Idle.pc = "idle" /\ job = [w \in Workers |-> Idle]
      /\ attempt = [n \in WriteNodes |-> "NONE"] /\ sent = [n \in WriteNodes |-> 0]
      /\ verified = TRUE /\ lost = FALSE
  BY LimitsAssumption DEF Init, Idle, JobRecord, Steps, Outcomes
<1>3. WorkType
  BY <1>2 DEF WorkType, AttemptState
<1>4. \A w \in Workers : ClaimInv(w) /\ WriteInv(w) /\ ~Writing(w)
  BY <1>2 DEF ClaimInv, WriteInv, Writing
<1>5. \A n \in WriteNodes : AttemptInv(n) /\ NodeTells(n)
  BY <1>2 DEF Init, P!Init, P!AbsentNode, AttemptInv, NodeTells, WriteNodes
<1> QED BY <1>1, <1>3, <1>4, <1>5 DEF Inv, WorkInv, OneWriter

-----------------------------------------------------------------------------
(* The calls of the workers are calls of the store. *)

\* The calls a step makes, with the arguments the workers pass.
StoreCall ==
    \/ \E p \in Plans : P!CreateOrResume(p) \/ P!ClaimReadyNodes(p, clock)
    \/ P!ClaimNextReadyNodes(clock)
    \/ \E n \in P!Node : \E i \in DOMAIN runs[n] :
          \/ P!ReclaimExpiredNode(n, i, clock)
          \/ P!RecordNodeInput(n, i, "input", clock)
          \/ \E d \in RetryDelays : P!ScheduleRetry(n, i, clock, clock + d)
          \/ \E s \in {"SUCCEEDED", "FAILED", "WAITING_RECONCILIATION"} :
                P!RecordNodeResult(n, i, s, clock)
    \/ \E n \in P!Node : P!ReconcilePlanReference(n, "SUCCEEDED")
    \/ P!Tick

LEMMA CallIsStep == ASSUME StoreInv, StoreCall PROVE P!Next
<1>1. clock \in P!Now
  BY StoreRows
<1>2. ASSUME NEW p \in Plans, P!CreateOrResume(p) \/ P!ClaimReadyNodes(p, clock) PROVE P!Next
  BY <1>1, <1>2, Zenon DEF P!Next, P!WorkerStep
<1>3. CASE P!ClaimNextReadyNodes(clock)
  BY <1>1, <1>3, Zenon DEF P!Next, P!WorkerStep
<1>4. ASSUME NEW n \in P!Node, NEW i \in DOMAIN runs[n],
             \/ P!ReclaimExpiredNode(n, i, clock)
             \/ P!RecordNodeInput(n, i, "input", clock)
             \/ \E d \in RetryDelays : P!ScheduleRetry(n, i, clock, clock + d)
             \/ \E s \in {"SUCCEEDED", "FAILED", "WAITING_RECONCILIATION"} :
                   P!RecordNodeResult(n, i, s, clock)
      PROVE  P!Next
  <2>1. "input" \in {"input"}
    OBVIOUS
  <2>2. P!WorkerStep
    BY <1>1, <1>4, <2>1, Zenon DEF P!WorkerStep
  <2> QED BY <2>2 DEF P!Next
<1>5. ASSUME NEW n \in P!Node, P!ReconcilePlanReference(n, "SUCCEEDED") PROVE P!Next
  BY <1>5, Zenon DEF P!Next, P!ReconcileStep
<1>6. CASE P!Tick
  BY <1>6 DEF P!Next
<1> QED BY <1>2, <1>3, <1>4, <1>5, <1>6, Zenon DEF StoreCall

\* Every step makes one call of the store, or none.
LEMMA NextCalls ==
    ASSUME Inv, Next
    PROVE  StoreCall \/ UNCHANGED <<clock, store>>
<1>1. ASSUME NEW w \in Workers PROVE ClaimInv(w)
  BY DEF Inv, WorkInv
<1>2. ASSUME NEW p \in Plans, Open(p) PROVE StoreCall
  BY <1>2, Zenon DEF Open, StoreCall
<1>3. ASSUME NEW w \in Workers, NEW p \in Plans, RunOnce(w, p) PROVE StoreCall
  BY <1>3, Zenon DEF RunOnce, StoreCall
<1>4. ASSUME NEW w \in Workers, RunNextOnce(w) PROVE StoreCall
  BY <1>4, Zenon DEF RunNextOnce, StoreCall
<1>5. ASSUME NEW w \in Workers, NEW n \in P!Node, TakeOver(w, n) PROVE StoreCall
  <2>1. Len(runs[n]) \in DOMAIN runs[n] /\ P!ReclaimExpiredNode(n, Len(runs[n]), clock)
    BY <1>5, StoreRows DEF Inv, TakeOver, P!HasRun
  <2> QED BY <2>1, Zenon DEF StoreCall
<1>6. ASSUME NEW w \in Workers, Materialize(w) PROVE StoreCall \/ UNCHANGED <<clock, store>>
  <2>1. NodeOf(w) \in P!Node /\ job[w].run \in DOMAIN runs[NodeOf(w)]
    BY <1>1, <1>6 DEF Materialize, At, ClaimInv
  <2> QED BY <1>6, <2>1, Zenon DEF Materialize, NoStore, StoreCall
<1>7. ASSUME NEW w \in Workers, ReportResult(w) PROVE StoreCall
  <2>1. NodeOf(w) \in P!Node /\ job[w].run \in DOMAIN runs[NodeOf(w)] /\ job[w] \in JobRecord
    BY <1>1, <1>7 DEF ReportResult, At, ClaimInv, Inv, WorkInv, WorkType
  <2>2. ASSUME NEW s \in {"SUCCEEDED", "FAILED", "WAITING_RECONCILIATION"}, RecordResult(w, s)
        PROVE  StoreCall
    BY <2>1, <2>2, Zenon DEF RecordResult, StoreCall
  <2>3. ASSUME NEW d \in RetryDelays,
               P!ScheduleRetry(NodeOf(w), job[w].run, clock, clock + d)
        PROVE  StoreCall
    BY <2>1, <2>3, Zenon DEF StoreCall
  <2>4. job[w].outcome \in Outcomes
    BY <2>1 DEF JobRecord
  <2> QED BY <1>7, <2>2, <2>3, <2>4 DEF ReportResult, Outcomes
<1>8. ASSUME NEW w \in Workers,
             \/ Dispatch(w) \/ ClaimOrReplay(w) \/ CallHandler(w) \/ AnswerRead(w)
             \/ PlatformWrites(w) \/ PlatformRefuses(w) \/ CompleteSuccess(w)
             \/ CompleteUnknown(w) \/ CompleteFailure(w) \/ ReportRefused(w)
             \/ Cancel(w) \/ Crash(w)
      PROVE  UNCHANGED <<clock, store>>
  BY <1>8 DEF Dispatch, ClaimOrReplay, CallHandler, AnswerRead, PlatformWrites, PlatformRefuses,
     CompleteSuccess, CompleteUnknown, CompleteFailure, ReportRefused, Cancel, Crash, Lose, NoStore
<1>9. CASE OutsideStep \/ ConflictEvent
  <2>1. ASSUME NEW n \in WriteNodes, ReconcileSoldOut(n) PROVE StoreCall
    <3>1. n \in P!Node
      BY DEF WriteNodes
    <3> QED BY <2>1, <3>1, Zenon DEF ReconcileSoldOut, StoreCall
  <2>2. CASE Tick
    BY <2>2 DEF Tick, StoreCall
  <2> QED BY <1>9, <2>1, <2>2 DEF OutsideStep, LateWrite, ConflictEvent, NoStore
<1> QED BY <1>2, <1>3, <1>4, <1>5, <1>6, <1>7, <1>8, <1>9
    DEF Next, WorkerStep, Execute, Stop

\* So the store is used as its specification says, and its invariant is kept.
LEMMA StoreSteps ==
    ASSUME Inv, [Next]_vars
    PROVE  [P!Next]_(P!vars) /\ [PT!Next]_(PT!vars) /\ StoreInv'
<1>1. [P!Next]_(P!vars)
  <2>1. CASE UNCHANGED <<clock, store>>
    BY <2>1 DEF store, P!vars
  <2>2. CASE StoreCall
    BY <2>2, CallIsStep DEF Inv
  <2> QED BY <2>1, <2>2, NextCalls DEF vars
<1>2. [PT!Next]_(PT!vars)
  BY <1>1, SamePlanSteps
<1>3. PT!StoreInv'
  BY <1>2, PlanConstants, PT!StoreInvStep DEF Inv, StoreInv
<1>4. PT!NodeInv'
  BY <1>2, PlanConstants, PT!NodeInvStep DEF Inv, StoreInv
<1> QED BY <1>1, <1>2, <1>3, <1>4 DEF StoreInv

\* A claim that was given out stays on record.
LEMMA RunsGrow ==
    ASSUME Inv, [Next]_vars
    PROVE  \A n \in P!Node : DOMAIN runs[n] \subseteq DOMAIN runs'[n]
<1> SUFFICES ASSUME NEW n \in P!Node PROVE DOMAIN runs[n] \subseteq DOMAIN runs'[n]
  OBVIOUS
<1>1. n \in PT!Node /\ P!Node = PT!Node
  BY DEF P!Node, PT!Node, P!Versions, PT!Versions
<1>2. PT!Effect(n)
  BY <1>1, StoreSteps, PlanConstants, PT!StepEffect DEF Inv, StoreInv, PT!NodeInv
<1>3. Len(runs[n]) \in Nat /\ DOMAIN runs[n] = 1..Len(runs[n])
  BY StoreRows DEF Inv
<1>4. Len(runs'[n]) \in Nat /\ DOMAIN runs'[n] = 1..Len(runs'[n])
  <2>1. PT!StoreInv /\ PT!StoreInv'
    BY StoreSteps DEF Inv, StoreInv
  <2> QED BY <1>1, <2>1, PlanConstants, PT!Histories
<1>5. Len(runs[n]) <= Len(runs'[n])
  BY <1>2, <1>3, <1>4 DEF PT!Effect, PT!Untouched, PT!Quiet, PT!SameClaims, PT!Born, PT!Moved,
     PT!Claimed, PT!TakenOver, PT!Closed, PT!Started
<1> QED BY <1>3, <1>4, <1>5

-----------------------------------------------------------------------------
(* What the calls make of the nodes. *)

\* The states that tell of a write.
Marked == {"SUCCEEDED", "WAITING_RECONCILIATION"}

\* The node tells no more than it did.
Unmarked(n) == node'[n].state \in Marked => node'[n].state = node[n].state

\* Calls that report no result.
LEMMA CallsMarkNothing ==
    ASSUME Inv,
           \/ \E p : P!CreateOrResume(p) \/ P!ClaimReadyNodes(p, clock)
           \/ P!ClaimNextReadyNodes(clock)
           \/ \E n, i : P!ReclaimExpiredNode(n, i, clock)
           \/ \E n, i : P!RecordNodeInput(n, i, "input", clock)
           \/ \E n, i, d : P!ScheduleRetry(n, i, clock, d)
           \/ P!Tick
           \/ UNCHANGED <<clock, store>>
    PROVE  \A n \in P!Node : Unmarked(n)
<1> SUFFICES ASSUME NEW n \in P!Node PROVE Unmarked(n)
  OBVIOUS
<1>0. node \in [P!Node -> P!NodeRecord]
  BY StoreRows DEF Inv
<1>1. ASSUME NEW p, P!CreateOrResume(p) PROVE Unmarked(n)
  <2>1. node'[n] = IF n[1] = p /\ n[2] = 1 THEN P!NewNode(n[3], {}, clock) ELSE node[n]
    BY <1>1 DEF P!CreateOrResume, P!WithNewNodes
  <2>2. P!NewNode(n[3], {}, clock).state \in {"READY", "PENDING"}
    BY DEF P!NewNode
  <2> QED BY <2>1, <2>2 DEF Unmarked, Marked
<1>2. ASSUME NEW ps, NEW byPriority, P!Claim(ps, byPriority, clock) PROVE Unmarked(n)
  <2>1. \/ node'[n] = P!Promoted(ps, clock)[n]
        \/ node'[n] = [P!Promoted(ps, clock)[n] EXCEPT !.state = "RUNNING"]
    BY <1>2, Zenon DEF P!Claim
  <2>2. \/ P!Promoted(ps, clock)[n] = node[n]
        \/ P!Promoted(ps, clock)[n] =
              [node[n] EXCEPT !.state = "READY", !.retry_at = None, !.ready_at = clock]
    BY Zenon DEF P!Promoted
  <2>3. node[n] \in P!NodeRecord
    BY <1>0
  <2> QED BY <2>1, <2>2, <2>3 DEF Unmarked, Marked, P!NodeRecord
<1>3. ASSUME NEW m, NEW i, NEW d, P!ScheduleRetry(m, i, clock, d) PROVE Unmarked(n)
  <2>1. node' = [node EXCEPT ![m].state = "RETRY_WAIT", ![m].retry_at = d]
    BY <1>3 DEF P!ScheduleRetry
  <2>2. node'[n].state \in {node[n].state, "RETRY_WAIT"}
    BY <1>0, <2>1 DEF P!NodeRecord
  <2> QED BY <2>2 DEF Unmarked, Marked
<1>4. ASSUME UNCHANGED node PROVE Unmarked(n)
  BY <1>4 DEF Unmarked
<1>5. ASSUME NEW m, NEW i,
             P!ReclaimExpiredNode(m, i, clock) \/ P!RecordNodeInput(m, i, "input", clock)
      PROVE  UNCHANGED node
  BY <1>5 DEF P!ReclaimExpiredNode, P!RecordNodeInput
<1>6. ASSUME P!Tick \/ UNCHANGED <<clock, store>> PROVE UNCHANGED node
  BY <1>6 DEF P!Tick, store
<1>7. ASSUME NEW p, P!ClaimReadyNodes(p, clock) PROVE Unmarked(n)
  BY <1>2, <1>7 DEF P!ClaimReadyNodes
<1>8. ASSUME P!ClaimNextReadyNodes(clock) PROVE Unmarked(n)
  BY <1>2, <1>8 DEF P!ClaimNextReadyNodes
<1> QED BY <1>1, <1>3, <1>4, <1>5, <1>6, <1>7, <1>8

\* A result marks the node it is reported for.
LEMMA ClosingMarks ==
    ASSUME Inv, NEW m \in P!Node, NEW i, NEW s, NEW superseded, NEW t,
           P!CloseNode(m, i, s, superseded, t)
    PROVE  /\ \A n \in P!Node \ {m} : Unmarked(n)
           /\ node'[m].state = s
<1> DEFINE closed == [node EXCEPT ![m].state = s]
<1>0. node \in [P!Node -> P!NodeRecord]
  BY StoreRows DEF Inv
<1>1. node' = IF s = "SUCCEEDED" THEN P!WithDependentsReady(closed, m[1], t) ELSE closed
  BY DEF P!CloseNode
<1>2. \A n \in P!Node : closed[n] = IF n = m THEN [node[n] EXCEPT !.state = s] ELSE node[n]
  BY <1>0
<1>3. closed[m].state = s
  <2>1. node[m] \in P!NodeRecord
    BY <1>0
  <2> QED BY <1>2, <2>1 DEF P!NodeRecord
<1>4. ASSUME NEW n \in P!Node
      PROVE  \/ node'[n] = closed[n]
             \/ /\ s = "SUCCEEDED" /\ closed[n].state = "PENDING"
                /\ node'[n] = [closed[n] EXCEPT !.state = "READY", !.ready_at = t]
  <2>1. CASE s = "SUCCEEDED"
    <3>1. node'[n] = P!WithDependentsReady(closed, m[1], t)[n]
      BY <1>1, <2>1
    <3> HIDE DEF closed
    <3> QED BY <2>1, <3>1, Zenon DEF P!WithDependentsReady
  <2>2. CASE s # "SUCCEEDED"
    BY <1>1, <2>2
  <2> QED BY <2>1, <2>2
<1>5. ASSUME NEW n \in P!Node \ {m} PROVE Unmarked(n)
  <2>1. closed[n] = node[n] /\ node[n] \in P!NodeRecord
    BY <1>0, <1>2
  <2> HIDE DEF closed
  <2> QED BY <1>4, <2>1 DEF Unmarked, Marked, P!NodeRecord
<1>6. node'[m].state = s
  <2> HIDE DEF closed
  <2> QED BY <1>3, <1>4
<1> QED BY <1>5, <1>6

-----------------------------------------------------------------------------
(* The steps of the workers. *)

\* What a step leaves to worker v, whose claim it does not touch: the attempt of
\* its node stays as it was, or was in nobody's hands.
LEMMA OtherWorker ==
    ASSUME Inv, [Next]_vars, NEW v \in Workers, job'[v] = job[v],
           NodeOf(v) \in WriteNodes =>
              \/ attempt'[NodeOf(v)] = attempt[NodeOf(v)] /\ sent'[NodeOf(v)] = sent[NodeOf(v)]
              \/ /\ ~Writing(v)
                 /\ \/ attempt'[NodeOf(v)] = attempt[NodeOf(v)]
                    \/ attempt[NodeOf(v)] \in {"NONE", "INTENT_RECORDED"}
    PROVE  ClaimInv(v)' /\ WriteInv(v)' /\ (Writing(v)' <=> Writing(v)) /\ NodeOf(v)' = NodeOf(v)
<1>1. ClaimInv(v) /\ WriteInv(v)
  BY DEF Inv, WorkInv
<1>2. ClaimInv(v)'
  BY <1>1, RunsGrow DEF ClaimInv, NodeOf
<1>3. WriteNodes' = WriteNodes
  BY DEF WriteNodes
<1> QED BY <1>1, <1>2, <1>3 DEF WriteInv, Writing, NodeOf

\* A step of worker w that makes no call of the store.
LEMMA WriterStep ==
    ASSUME Inv, [Next]_vars, UNCHANGED <<clock, store>>, NEW w \in Workers, NEW m,
           m = NodeOf(w), WorkType',
           \A v \in Workers \ {w} : job'[v] = job[v],
           \A n \in WriteNodes \ {m} : attempt'[n] = attempt[n] /\ sent'[n] = sent[n],
           m \in WriteNodes =>
              /\ \/ attempt'[m] = attempt[m] /\ sent'[m] = sent[m]
                 \/ Writing(w) \/ attempt[m] = "NONE"
              /\ AttemptInv(m)'
              /\ sent[m] = 1 => sent'[m] = 1,
           ClaimInv(w)', WriteInv(w)',
           Writing(w)' => /\ NodeOf(w)' = m
                          /\ Writing(w) \/ attempt[m] = "NONE"
    PROVE  WorkInv'
<1>0. /\ \A v \in Workers : ClaimInv(v) /\ WriteInv(v)
      /\ \A n \in WriteNodes : AttemptInv(n) /\ NodeTells(n)
      /\ OneWriter /\ WriteNodes' = WriteNodes
  BY DEF Inv, WorkInv, WriteNodes
<1>1. ASSUME NEW v \in Workers \ {w}
      PROVE  ClaimInv(v)' /\ WriteInv(v)' /\ (Writing(v)' <=> Writing(v)) /\ NodeOf(v)' = NodeOf(v)
  <2>1. CASE NodeOf(v) # NodeOf(w) \/ NodeOf(v) \notin WriteNodes
    BY <2>1, OtherWorker
  <2>2. CASE NodeOf(v) = NodeOf(w) /\ NodeOf(w) \in WriteNodes
    <3>1. Writing(w) \/ attempt[NodeOf(w)] = "NONE" =>
             ~Writing(v) /\ attempt[NodeOf(w)] \in {"NONE", "INTENT_RECORDED"}
      BY <1>0, <2>2 DEF OneWriter, WriteInv
    <3> QED BY <2>2, <3>1, OtherWorker
  <2> QED BY <2>1, <2>2
<1>2. OneWriter'
  <2> SUFFICES ASSUME NEW u \in Workers, NEW v \in Workers, Writing(u)', Writing(v)',
                      NodeOf(u)' = NodeOf(v)', u # v
               PROVE  FALSE
    BY DEF OneWriter
  <2>1. ASSUME NEW x \in Workers \ {w}, Writing(x)', Writing(w)', NodeOf(x)' = NodeOf(w)'
        PROVE  FALSE
    <3>1. Writing(x) /\ NodeOf(x) = NodeOf(w) /\ attempt[NodeOf(x)] = "INTENT_RECORDED"
      BY <1>0, <1>1, <2>1 DEF WriteInv
    <3> QED BY <1>0, <2>1, <3>1 DEF OneWriter
  <2> QED BY <1>0, <1>1, <2>1 DEF OneWriter
<1>3. ASSUME NEW n \in WriteNodes PROVE AttemptInv(n)' /\ NodeTells(n)'
  <2>1. node' = node
    BY DEF store
  <2>2. CASE n # m
    BY <1>0, <2>1, <2>2 DEF AttemptInv, NodeTells
  <2>3. CASE n = m
    BY <1>0, <2>1, <2>3 DEF NodeTells, WriteInv
  <2> QED BY <2>2, <2>3
<1> QED BY <1>0, <1>1, <1>2, <1>3 DEF WorkInv

\* A step that leaves attempts and platform alone: a worker takes a claim, or
\* goes on to where it makes no write.
LEMMA CallingStep ==
    ASSUME Inv, [Next]_vars, UNCHANGED <<attempt, sent>>, WorkType',
           \A v \in Workers : \/ job'[v] = job[v]
                              \/ ClaimInv(v)' /\ WriteInv(v)' /\ ~Writing(v)',
           \A n \in WriteNodes : NodeTells(n)'
    PROVE  WorkInv'
<1>0. /\ \A n \in WriteNodes : AttemptInv(n)
      /\ OneWriter /\ WriteNodes' = WriteNodes
  BY DEF Inv, WorkInv, WriteNodes
<1>1. ASSUME NEW v \in Workers
      PROVE  /\ ClaimInv(v)' /\ WriteInv(v)'
             /\ Writing(v)' => Writing(v) /\ NodeOf(v)' = NodeOf(v)
  BY OtherWorker
<1>2. OneWriter'
  BY <1>0, <1>1 DEF OneWriter
<1>3. \A n \in WriteNodes : AttemptInv(n)'
  BY <1>0 DEF AttemptInv
<1> QED BY <1>0, <1>1, <1>2, <1>3 DEF WorkInv

\* A worker goes on.
LEMMA Goes ==
    ASSUME WorkType, NEW w \in Workers, NEW pc \in Steps, Goto(w, pc)
    PROVE  /\ job' \in [Workers -> JobRecord]
           /\ job'[w].pc = pc /\ job'[w].node = NodeOf(w) /\ job'[w].run = job[w].run
           /\ \A v \in Workers \ {w} : job'[v] = job[v]
<1>1. job \in [Workers -> JobRecord] /\ job[w] \in JobRecord
  BY DEF WorkType
<1>2. job' = [job EXCEPT ![w] = [job[w] EXCEPT !.pc = pc]]
  BY <1>1 DEF Goto
<1>3. [job[w] EXCEPT !.pc = pc] \in JobRecord
  BY <1>1 DEF JobRecord
<1>4. [job[w] EXCEPT !.pc = pc].pc = pc /\ [job[w] EXCEPT !.pc = pc].node = job[w].node
      /\ [job[w] EXCEPT !.pc = pc].run = job[w].run
  BY <1>1 DEF JobRecord
<1> QED BY <1>1, <1>2, <1>3, <1>4 DEF NodeOf

\* It has a result.
LEMMA Reports ==
    ASSUME WorkType, NEW w \in Workers, NEW o \in Outcomes, Report(w, o)
    PROVE  /\ job' \in [Workers -> JobRecord]
           /\ job'[w].pc = "report" /\ job'[w].node = NodeOf(w) /\ job'[w].run = job[w].run
           /\ job'[w].outcome = o
           /\ \A v \in Workers \ {w} : job'[v] = job[v]
<1> DEFINE r == [job[w] EXCEPT !.pc = "report", !.outcome = o]
<1>1. job \in [Workers -> JobRecord] /\ job[w] \in JobRecord
  BY DEF WorkType
<1>2. job' = [job EXCEPT ![w] = r]
  BY <1>1 DEF Report
<1>3. r \in JobRecord
  BY <1>1 DEF JobRecord, Steps
<1>4. r.pc = "report" /\ r.node = job[w].node /\ r.run = job[w].run /\ r.outcome = o
  BY <1>1 DEF JobRecord
<1> HIDE DEF r
<1> QED BY <1>1, <1>2, <1>3, <1>4 DEF NodeOf

\* It is free again.
LEMMA Frees ==
    ASSUME WorkType, NEW w \in Workers, job' = [job EXCEPT ![w] = Idle]
    PROVE  /\ job' \in [Workers -> JobRecord]
           /\ job'[w].pc = "idle"
           /\ \A v \in Workers \ {w} : job'[v] = job[v]
           /\ ClaimInv(w)' /\ WriteInv(w)' /\ ~Writing(w)'
<1>1. Idle \in JobRecord /\ Idle.pc = "idle"
  BY LimitsAssumption DEF Idle, JobRecord, Steps, Outcomes
<1>2. job \in [Workers -> JobRecord]
  BY DEF WorkType
<1>3. job' \in [Workers -> JobRecord] /\ job'[w].pc = "idle"
      /\ \A v \in Workers \ {w} : job'[v] = job[v]
  BY <1>1, <1>2
<1> QED BY <1>3 DEF ClaimInv, WriteInv, Writing

\* The attempt of its node is closed.
LEMMA Closes ==
    ASSUME WorkType, NEW w, NodeOf(w) \in WriteNodes, NEW s \in AttemptState, Close(w, s)
    PROVE  /\ attempt' \in [WriteNodes -> AttemptState]
           /\ attempt'[NodeOf(w)] = s
           /\ \A n \in WriteNodes \ {NodeOf(w)} : attempt'[n] = attempt[n]
BY DEF WorkType, Close

\* Steps of a worker that leave the attempt alone and end up where nothing is
\* written.
LEMMA QuietStep ==
    ASSUME Inv, [Next]_vars, NEW w \in Workers, UNCHANGED <<clock, store>>, WorkType',
           UNCHANGED <<attempt, sent>>,
           \A v \in Workers \ {w} : job'[v] = job[v],
           ClaimInv(w)', WriteInv(w)', ~Writing(w)'
    PROVE  WorkInv'
<1>1. node' = node /\ WriteNodes' = WriteNodes
  BY DEF store, WriteNodes
<1>2. \A n \in WriteNodes : NodeTells(n)'
  BY <1>1 DEF Inv, WorkInv, NodeTells
<1> QED BY <1>2, CallingStep

\* Where a worker stands.
LEMMA Standing ==
    ASSUME Inv, NEW w \in Workers
    PROVE  /\ WorkType /\ ClaimInv(w) /\ WriteInv(w) /\ job[w] \in JobRecord
           /\ job[w].pc # "idle" =>
                 /\ NodeOf(w) \in P!Node
                 /\ KeyOf(w) \in WriteKeys <=> NodeOf(w) \in WriteNodes
           /\ NodeOf(w) \in WriteNodes => AttemptInv(NodeOf(w))
BY DEF Inv, WorkInv, WorkType, ClaimInv, WriteNodes, KeyOf

\* A worker keeps its claim when it goes on.
LEMMA KeepsClaim ==
    ASSUME Inv, [Next]_vars, NEW w \in Workers, job[w].pc # "idle",
           job'[w].node = NodeOf(w), job'[w].run = job[w].run
    PROVE  ClaimInv(w)'
BY Standing, RunsGrow DEF ClaimInv, NodeOf

LEMMA DispatchStep ==
    ASSUME Inv, Next, NEW w \in Workers, Dispatch(w)
    PROVE  WorkInv'
<1>1. /\ UNCHANGED <<clock, store>> /\ UNCHANGED <<attempt, sent, verified, lost>>
      /\ job[w].pc = "dispatch" /\ [Next]_vars
  BY DEF Dispatch, NoStore, NoPlatform, At
<1>2. WorkType /\ (KeyOf(w) \in WriteKeys <=> NodeOf(w) \in WriteNodes) /\ WriteNodes' = WriteNodes
  BY <1>1, Standing DEF WriteNodes
<1>3. \/ \E o \in {"FAILED", "SUCCEEDED"} :
            Report(w, o) /\ (NodeOf(w) \in WriteNodes => o = "FAILED")
      \/ Goto(w, "call") /\ NodeOf(w) \notin WriteNodes
      \/ Goto(w, "reserve") /\ NodeOf(w) \in WriteNodes
  BY <1>2, SkillsAssumption DEF Dispatch
<1>4. CASE \E o \in {"FAILED", "SUCCEEDED"} :
              Report(w, o) /\ (NodeOf(w) \in WriteNodes => o = "FAILED")
  <2>1. PICK o \in {"FAILED", "SUCCEEDED"} :
           Report(w, o) /\ (NodeOf(w) \in WriteNodes => o = "FAILED")
    BY <1>4
  <2>2. /\ job' \in [Workers -> JobRecord] /\ job'[w].pc = "report" /\ job'[w].node = NodeOf(w)
        /\ job'[w].run = job[w].run /\ job'[w].outcome = o
        /\ \A v \in Workers \ {w} : job'[v] = job[v]
    BY <1>2, <2>1, Reports DEF Outcomes
  <2>3. WriteInv(w)' /\ ~Writing(w)'
    BY <1>2, <2>1, <2>2 DEF WriteInv, Writing, NodeOf
  <2> QED BY <1>1, <1>2, <2>2, <2>3, KeepsClaim, QuietStep DEF WorkType
<1>5. ASSUME NEW pc \in {"call", "reserve"}, Goto(w, pc),
             pc = "reserve" <=> NodeOf(w) \in WriteNodes
      PROVE  WorkInv'
  <2>1. /\ job' \in [Workers -> JobRecord] /\ job'[w].pc = pc /\ job'[w].node = NodeOf(w)
        /\ job'[w].run = job[w].run
        /\ \A v \in Workers \ {w} : job'[v] = job[v]
    BY <1>2, <1>5, Goes DEF Steps
  <2>2. WriteInv(w)' /\ ~Writing(w)'
    BY <1>2, <1>5, <2>1 DEF WriteInv, Writing, NodeOf
  <2> QED BY <1>1, <1>2, <2>1, <2>2, KeepsClaim, QuietStep DEF WorkType
<1> QED BY <1>3, <1>4, <1>5

LEMMA ClaimOrReplayStep ==
    ASSUME Inv, Next, NEW w \in Workers, ClaimOrReplay(w)
    PROVE  WorkInv'
<1>1. /\ UNCHANGED <<clock, store>> /\ UNCHANGED <<sent, verified, lost>>
      /\ job[w].pc = "reserve" /\ [Next]_vars
  BY DEF ClaimOrReplay, NoStore, NoPlatform, At
<1>2. WorkType /\ NodeOf(w) \in WriteNodes /\ AttemptInv(NodeOf(w)) /\ WriteNodes' = WriteNodes
  BY <1>1, Standing DEF WriteInv, WriteNodes
<1>3. CASE attempt[NodeOf(w)] = "NONE"
  <2>1. Close(w, "INTENT_RECORDED") /\ Goto(w, "call")
    BY <1>3 DEF ClaimOrReplay, MayReserve
  <2>2. PICK m : m = NodeOf(w)
    OBVIOUS
  <2>3. /\ job' \in [Workers -> JobRecord] /\ job'[w].pc = "call" /\ job'[w].node = m
        /\ job'[w].run = job[w].run
        /\ \A v \in Workers \ {w} : job'[v] = job[v]
    BY <1>2, <2>1, <2>2, Goes DEF Steps
  <2>4. /\ attempt' \in [WriteNodes -> AttemptState] /\ attempt'[m] = "INTENT_RECORDED"
        /\ \A n \in WriteNodes \ {m} : attempt'[n] = attempt[n]
    BY <1>2, <2>1, <2>2, Closes DEF AttemptState
  <2>5. sent'[m] = 0
    BY <1>1, <1>2, <1>3, <2>2 DEF AttemptInv
  <2>6. WriteInv(w)' /\ AttemptInv(m)' /\ NodeOf(w)' = m
    BY <1>2, <2>2, <2>3, <2>4, <2>5 DEF WriteInv, AttemptInv, NodeOf
  <2>7. WorkType'
    BY <1>1, <1>2, <2>3, <2>4 DEF WorkType
  <2>8. ClaimInv(w)'
    BY <1>1, <2>2, <2>3, KeepsClaim
  <2> QED BY <1>1, <1>2, <1>3, <2>2, <2>3, <2>4, <2>6, <2>7, <2>8, WriterStep
<1>4. CASE attempt[NodeOf(w)] # "NONE"
  <2>1. Report(w, Replayed(attempt[NodeOf(w)])) /\ UNCHANGED attempt
    BY <1>4 DEF ClaimOrReplay, MayReserve
  <2>2. PICK o : o = Replayed(attempt[NodeOf(w)])
    OBVIOUS
  <2>3. /\ o \in Outcomes
        /\ o = "SUCCEEDED" => attempt[NodeOf(w)] = "SUCCEEDED"
        /\ o = "WAITING_RECONCILIATION" => attempt[NodeOf(w)] = "SIDE_EFFECT_UNKNOWN"
    BY <2>2 DEF Replayed, Outcomes
  <2>4. /\ job' \in [Workers -> JobRecord] /\ job'[w].pc = "report" /\ job'[w].node = NodeOf(w)
        /\ job'[w].run = job[w].run /\ job'[w].outcome = o
        /\ \A v \in Workers \ {w} : job'[v] = job[v]
    BY <1>2, <2>1, <2>2, <2>3, Reports
  <2>5. WriteInv(w)' /\ ~Writing(w)'
    BY <1>2, <2>1, <2>3, <2>4 DEF WriteInv, Writing, NodeOf
  <2> QED BY <1>1, <1>2, <2>1, <2>4, <2>5, KeepsClaim, QuietStep DEF WorkType
<1> QED BY <1>3, <1>4

\* The writer closes the attempt and reports, or is gone.
LEMMA ClosingStep ==
    ASSUME Inv, Next, NEW w \in Workers, Writing(w),
           UNCHANGED <<clock, store>>, UNCHANGED <<sent, verified>>, lost' \in BOOLEAN,
           NEW s \in AttemptState \ {"NONE"}, Close(w, s),
           s = "SUCCEEDED" => job[w].pc = "written",
           s = "NOT_SENT" => job[w].pc # "written",
           \/ job' = [job EXCEPT ![w] = Idle]
           \/ \E o \in Outcomes : /\ Report(w, o)
                                  /\ o = "SUCCEEDED" => s = "SUCCEEDED"
                                  /\ o = "WAITING_RECONCILIATION" => s = "SIDE_EFFECT_UNKNOWN"
    PROVE  WorkInv'
<1>1. /\ WorkType /\ NodeOf(w) \in WriteNodes /\ AttemptInv(NodeOf(w)) /\ WriteNodes' = WriteNodes
      /\ job[w].pc # "idle" /\ sent[NodeOf(w)] = IF job[w].pc = "written" THEN 1 ELSE 0
      /\ [Next]_vars
  BY Standing DEF Writing, WriteInv, WriteNodes
<1>2. PICK m : m = NodeOf(w)
  OBVIOUS
<1>3. /\ attempt' \in [WriteNodes -> AttemptState] /\ attempt'[m] = s
      /\ \A n \in WriteNodes \ {m} : attempt'[n] = attempt[n]
  BY <1>1, <1>2, Closes
<1>4. AttemptInv(m)'
  BY <1>1, <1>2, <1>3 DEF AttemptInv
<1>5. /\ job' \in [Workers -> JobRecord] /\ ClaimInv(w)' /\ WriteInv(w)' /\ ~Writing(w)'
      /\ \A v \in Workers \ {w} : job'[v] = job[v]
  <2>1. CASE job' = [job EXCEPT ![w] = Idle]
    BY <1>1, <2>1, Frees
  <2>2. ASSUME NEW o \in Outcomes, Report(w, o), o = "SUCCEEDED" => s = "SUCCEEDED",
               o = "WAITING_RECONCILIATION" => s = "SIDE_EFFECT_UNKNOWN"
        PROVE  /\ job' \in [Workers -> JobRecord] /\ ClaimInv(w)' /\ WriteInv(w)' /\ ~Writing(w)'
               /\ \A v \in Workers \ {w} : job'[v] = job[v]
    <3>1. /\ job' \in [Workers -> JobRecord] /\ job'[w].pc = "report" /\ job'[w].node = m
          /\ job'[w].run = job[w].run /\ job'[w].outcome = o
          /\ \A v \in Workers \ {w} : job'[v] = job[v]
      BY <1>1, <1>2, <2>2, Reports
    <3>2. WriteInv(w)' /\ ~Writing(w)'
      BY <1>3, <2>2, <3>1 DEF WriteInv, Writing, NodeOf
    <3> QED BY <1>1, <1>2, <3>1, <3>2, KeepsClaim
  <2> QED BY <2>1, <2>2
<1>6. WorkType'
  BY <1>1, <1>3, <1>5 DEF WorkType
<1> QED BY <1>1, <1>2, <1>3, <1>4, <1>5, <1>6, WriterStep

LEMMA HandlerSteps ==
    ASSUME Inv, Next, NEW w \in Workers,
           \/ CallHandler(w) \/ AnswerRead(w) \/ PlatformWrites(w) \/ PlatformRefuses(w)
           \/ CompleteSuccess(w) \/ CompleteUnknown(w) \/ CompleteFailure(w)
    PROVE  WorkInv'
<1>1. /\ UNCHANGED <<clock, store>> /\ UNCHANGED <<verified, lost>> /\ [Next]_vars
      /\ lost \in BOOLEAN /\ job[w].pc \in {"call", "handler", "written"}
  BY Standing DEF CallHandler, AnswerRead, PlatformWrites, PlatformRefuses, CompleteSuccess,
     CompleteUnknown, CompleteFailure, NoStore, NoPlatform, At, WorkType
<1>2. /\ WorkType /\ WriteInv(w) /\ WriteNodes' = WriteNodes
      /\ KeyOf(w) \in WriteKeys <=> NodeOf(w) \in WriteNodes
      /\ Writing(w) <=> NodeOf(w) \in WriteNodes
      /\ job[w].pc = "written" => NodeOf(w) \in WriteNodes
      /\ NodeOf(w) \in WriteNodes => AttemptInv(NodeOf(w))
  BY <1>1, Standing DEF WriteNodes, Writing, WriteInv
<1>3. CASE CallHandler(w)
  <2>1. CASE Goto(w, "handler") /\ UNCHANGED attempt
    <3>1. /\ job' \in [Workers -> JobRecord] /\ job'[w].pc = "handler" /\ job'[w].node = NodeOf(w)
          /\ job'[w].run = job[w].run
          /\ \A v \in Workers \ {w} : job'[v] = job[v]
      BY <1>2, <2>1, Goes DEF Steps
    <3>2. PICK m : m = NodeOf(w)
      OBVIOUS
    <3>3. UNCHANGED sent /\ job[w].pc = "call"
      BY <1>3 DEF CallHandler, NoPlatform, At
    <3>4. WriteInv(w)' /\ NodeOf(w)' = m
      BY <1>2, <2>1, <3>1, <3>2, <3>3 DEF WriteInv, Writing, NodeOf
    <3>5. WorkType' /\ ClaimInv(w)'
      BY <1>1, <1>2, <2>1, <3>1, <3>3, KeepsClaim DEF WorkType
    <3>6. m \in WriteNodes => AttemptInv(m)'
      BY <1>2, <2>1, <3>2, <3>3 DEF AttemptInv
    <3>7. Writing(w)' => Writing(w)
      BY <1>2, <3>2, <3>4 DEF Writing
    <3> QED BY <1>1, <2>1, <3>1, <3>2, <3>3, <3>4, <3>5, <3>6, <3>7, WriterStep
  <2>2. CASE Report(w, "FAILED") /\ KeyOf(w) \in WriteKeys /\ Close(w, "NOT_SENT")
    <3>1. UNCHANGED sent /\ job[w].pc = "call" /\ "FAILED" \in Outcomes
          /\ "NOT_SENT" \in AttemptState \ {"NONE"}
      BY <1>3 DEF CallHandler, NoPlatform, At, Outcomes, AttemptState
    <3> QED BY <1>1, <1>2, <2>2, <3>1, ClosingStep
  <2>3. CASE Report(w, "FAILED") /\ KeyOf(w) \notin WriteKeys /\ UNCHANGED attempt
    <3>1. /\ job' \in [Workers -> JobRecord] /\ job'[w].pc = "report" /\ job'[w].node = NodeOf(w)
          /\ job'[w].run = job[w].run /\ job'[w].outcome = "FAILED"
          /\ \A v \in Workers \ {w} : job'[v] = job[v]
      BY <1>2, <2>3, Reports DEF Outcomes
    <3>2. WriteInv(w)' /\ ~Writing(w)'
      BY <1>2, <2>3, <3>1 DEF WriteInv, Writing, NodeOf
    <3>3. UNCHANGED sent
      BY <1>3 DEF CallHandler, NoPlatform
    <3> QED BY <1>1, <1>2, <2>3, <3>1, <3>2, <3>3, KeepsClaim, QuietStep DEF WorkType
  <2> QED BY <1>3, <2>1, <2>2, <2>3 DEF CallHandler
<1>4. CASE AnswerRead(w)
  <2>1. UNCHANGED <<attempt, sent>> /\ NodeOf(w) \notin WriteNodes
    BY <1>2, <1>4, SkillsAssumption DEF AnswerRead, NoPlatform
  <2>2. PICK o \in Outcomes : Report(w, o)
    BY <1>4 DEF AnswerRead
  <2>3. /\ job' \in [Workers -> JobRecord] /\ job'[w].pc = "report" /\ job'[w].node = NodeOf(w)
        /\ job'[w].run = job[w].run /\ job'[w].outcome = o
        /\ \A v \in Workers \ {w} : job'[v] = job[v]
    BY <1>2, <2>2, Reports
  <2>4. WriteInv(w)' /\ ~Writing(w)'
    BY <1>2, <2>1, <2>3 DEF WriteInv, Writing, NodeOf
  <2> QED BY <1>1, <1>2, <2>1, <2>3, <2>4, KeepsClaim, QuietStep DEF WorkType
<1>5. CASE PlatformWrites(w)
  <2>1. PICK m : m = NodeOf(w)
    OBVIOUS
  <2>2. /\ m \in WriteNodes /\ sent[m] = 0 /\ sent' = [sent EXCEPT ![m] = @ + 1]
        /\ Goto(w, "written") /\ UNCHANGED attempt /\ job[w].pc = "handler"
    BY <1>2, <1>5, <2>1 DEF PlatformWrites, At
  <2>3. /\ sent' \in [WriteNodes -> Nat] /\ sent'[m] = 1
        /\ \A n \in WriteNodes \ {m} : sent'[n] = sent[n]
    BY <1>2, <2>2 DEF WorkType
  <2>4. /\ job' \in [Workers -> JobRecord] /\ job'[w].pc = "written" /\ job'[w].node = m
        /\ job'[w].run = job[w].run
        /\ \A v \in Workers \ {w} : job'[v] = job[v]
    BY <1>2, <2>1, <2>2, Goes DEF Steps
  <2>5. attempt[m] = "INTENT_RECORDED" /\ Writing(w)
    BY <1>2, <2>1, <2>2 DEF WriteInv
  <2>6. WriteInv(w)' /\ AttemptInv(m)' /\ NodeOf(w)' = m
    BY <1>2, <2>2, <2>3, <2>4, <2>5 DEF WriteInv, Writing, AttemptInv, NodeOf
  <2>7. WorkType' /\ ClaimInv(w)'
    BY <1>1, <1>2, <2>1, <2>2, <2>3, <2>4, KeepsClaim DEF WorkType
  <2> QED BY <1>1, <2>1, <2>2, <2>3, <2>4, <2>5, <2>6, <2>7, WriterStep
<1>6. CASE PlatformRefuses(w) \/ CompleteSuccess(w) \/ CompleteUnknown(w) \/ CompleteFailure(w)
  <2>1. /\ UNCHANGED sent /\ Writing(w)
        /\ \/ Close(w, "NOT_SENT") /\ Report(w, "FAILED") /\ job[w].pc = "handler"
           \/ Close(w, "SUCCEEDED") /\ Report(w, "SUCCEEDED") /\ job[w].pc = "written"
           \/ Close(w, "SIDE_EFFECT_UNKNOWN") /\ Report(w, "WAITING_RECONCILIATION")
           \/ Close(w, "FAILED") /\ Report(w, "FAILED")
    BY <1>2, <1>6 DEF PlatformRefuses, CompleteSuccess, CompleteUnknown, CompleteFailure,
       NoPlatform, At
  <2>2. /\ {"NOT_SENT", "SUCCEEDED", "SIDE_EFFECT_UNKNOWN", "FAILED"} \subseteq AttemptState \ {"NONE"}
        /\ {"SUCCEEDED", "WAITING_RECONCILIATION", "FAILED"} \subseteq Outcomes
    BY DEF AttemptState, Outcomes
  <2> QED BY <1>1, <2>1, <2>2, ClosingStep
<1> QED BY <1>3, <1>4, <1>5, <1>6

\* A worker that ends without a report.
LEMMA LosingSteps ==
    ASSUME Inv, Next, NEW w \in Workers, ReportRefused(w) \/ Cancel(w) \/ Crash(w)
    PROVE  WorkInv'
<1>1. /\ UNCHANGED <<clock, store>> /\ UNCHANGED <<sent, verified>> /\ [Next]_vars
      /\ job' = [job EXCEPT ![w] = Idle] /\ lost' \in BOOLEAN
  BY DEF ReportRefused, Cancel, Crash, Lose, NoStore
<1>2. WorkType
  BY Standing
<1>3. CASE UNCHANGED attempt
  BY <1>1, <1>2, <1>3, Frees, QuietStep DEF WorkType, WriteNodes
<1>4. CASE Cancel(w) /\ KeyOf(w) \in WriteKeys
  <2>1. Close(w, "SIDE_EFFECT_UNKNOWN") /\ Writing(w)
        /\ "SIDE_EFFECT_UNKNOWN" \in AttemptState \ {"NONE"}
    BY <1>4, Standing DEF Cancel, At, Writing, AttemptState
  <2> QED BY <1>1, <2>1, ClosingStep
<1> QED BY <1>3, <1>4 DEF ReportRefused, Cancel, Crash

\* A worker that takes a claim.
LEMMA Takes ==
    ASSUME Inv, Next, NEW w \in Workers, Started(w),
           \A n \in P!Node : Len(runs'[n]) > Len(runs[n]) => Len(runs'[n]) <= MaxRuns
    PROVE  /\ job' \in [Workers -> JobRecord]
           /\ \A v \in Workers : \/ job'[v] = job[v]
                                 \/ ClaimInv(v)' /\ WriteInv(v)' /\ ~Writing(v)'
<1> DEFINE taken == {n \in P!Node : Len(runs'[n]) > Len(runs[n])}
<1>1. WorkType
  BY Standing
<1>2. CASE taken = {}
  BY <1>1, <1>2 DEF Started, WorkType
<1>3. CASE taken # {}
  <2>1. PICK n \in taken : n = CHOOSE m \in taken : TRUE
    BY <1>3
  <2> DEFINE r == [pc |-> "materialize", node |-> n, run |-> Len(runs'[n]), outcome |-> "NONE"]
  <2>2. job' = [job EXCEPT ![w] = r]
    BY <1>3, <2>1 DEF Started
  <2>3. Len(runs'[n]) \in 1..MaxRuns /\ Len(runs'[n]) \in DOMAIN runs'[n]
    <3>1. n \in PT!Node
      BY <2>1 DEF P!Node, PT!Node, P!Versions, PT!Versions
    <3>2. PT!StoreInv /\ PT!StoreInv'
      BY StoreSteps DEF Inv, StoreInv
    <3>3. Len(runs[n]) \in Nat /\ Len(runs'[n]) \in Nat /\ DOMAIN runs'[n] = 1..Len(runs'[n])
      BY <3>1, <3>2, PlanConstants, PT!Histories
    <3> QED BY <2>1, <3>3, LimitsAssumption
  <2>4. r \in JobRecord /\ r.pc = "materialize" /\ r.node = n /\ r.run = Len(runs'[n]) /\ n \in P!Node
    BY <2>1, <2>3, LimitsAssumption DEF JobRecord, Steps, Outcomes
  <2> HIDE DEF r
  <2>5. /\ job' \in [Workers -> JobRecord] /\ job'[w] = r
        /\ \A v \in Workers \ {w} : job'[v] = job[v]
    BY <1>1, <2>2, <2>4 DEF WorkType
  <2>6. ClaimInv(w)' /\ WriteInv(w)' /\ ~Writing(w)'
    <3>1. P!Node' = P!Node
      BY DEF P!Node, P!Versions
    <3> QED BY <2>3, <2>4, <2>5, <3>1 DEF ClaimInv, WriteInv, Writing, NodeOf
  <2> QED BY <2>5, <2>6
<1> QED BY <1>2, <1>3

\* The bound of the model holds for every new claim.
LEMMA ClaimsAreBounded ==
    ASSUME Inv, NEW n \in P!Node, Len(runs'[n]) > Len(runs[n]),
           \/ \E p : P!ClaimReadyNodes(p, clock)
           \/ P!ClaimNextReadyNodes(clock)
           \/ \E m, i : P!ReclaimExpiredNode(m, i, clock)
    PROVE  Len(runs'[n]) <= MaxRuns
<1>0. runs \in [P!Node -> Seq(P!NodeRunRecord)] /\ Len(runs[n]) \in Nat
  BY StoreRows DEF Inv
<1>1. ASSUME NEW r, runs'[n] = Append(runs[n], r), Len(runs[n]) < MaxRuns
      PROVE  Len(runs'[n]) <= MaxRuns
  <2>1. Len(Append(runs[n], r)) = Len(runs[n]) + 1
    BY <1>0
  <2> QED BY <1>0, <1>1, <2>1, LimitsAssumption
<1>2. ~(runs'[n] = runs[n])
  BY <1>0
<1>3. ASSUME NEW ps, NEW byPriority, P!Claim(ps, byPriority, clock)
      PROVE  Len(runs'[n]) <= MaxRuns
  <2>1. PICK S : /\ \A m \in S : Len(runs[m]) < MaxRuns
                 /\ runs' = [m \in P!Node |-> IF m \in S THEN Append(runs[m], P!NewRun(m, clock))
                                              ELSE runs[m]]
    BY <1>3, Zenon DEF P!Claim
  <2> QED BY <1>1, <1>2, <2>1
<1>4. ASSUME NEW m, NEW i, P!ReclaimExpiredNode(m, i, clock)
      PROVE  Len(runs'[n]) <= MaxRuns
  <2>1. PICK r : runs' = [runs EXCEPT ![m] = Append(@, r)]
    BY <1>4, Zenon DEF P!ReclaimExpiredNode
  <2>2. Len(runs[m]) < MaxRuns
    BY <1>4 DEF P!ReclaimExpiredNode
  <2>3. m = n
    BY <1>0, <1>2, <2>1
  <2> QED BY <1>0, <1>1, <2>1, <2>2, <2>3
<1> QED BY <1>3, <1>4 DEF P!ClaimReadyNodes, P!ClaimNextReadyNodes

LEMMA TakingSteps ==
    ASSUME Inv, Next, NEW w \in Workers,
           \/ \E p \in Plans : RunOnce(w, p)
           \/ RunNextOnce(w)
           \/ \E n \in P!Node : TakeOver(w, n)
    PROVE  WorkInv'
<1>1. /\ Started(w) /\ UNCHANGED <<attempt, sent, verified, lost>> /\ [Next]_vars
      /\ \/ \E p : P!ClaimReadyNodes(p, clock)
         \/ P!ClaimNextReadyNodes(clock)
         \/ \E m, i : P!ReclaimExpiredNode(m, i, clock)
  BY DEF RunOnce, RunNextOnce, TakeOver, NoPlatform
<1>2. \A n \in P!Node : Len(runs'[n]) > Len(runs[n]) => Len(runs'[n]) <= MaxRuns
  BY <1>1, ClaimsAreBounded
<1>3. /\ job' \in [Workers -> JobRecord]
      /\ \A v \in Workers : \/ job'[v] = job[v]
                            \/ ClaimInv(v)' /\ WriteInv(v)' /\ ~Writing(v)'
  BY <1>1, <1>2, Takes
<1>4. WorkType' /\ WriteNodes' = WriteNodes
  BY <1>1, <1>3, Standing DEF WorkType, WriteNodes
<1>5. \A n \in WriteNodes : NodeTells(n)'
  <2>1. \A n \in P!Node : Unmarked(n)
    BY <1>1, CallsMarkNothing
  <2> QED BY <1>1, <2>1 DEF Inv, WorkInv, NodeTells, Unmarked, Marked, WriteNodes
<1> QED BY <1>1, <1>3, <1>4, <1>5, CallingStep

LEMMA MaterializeStep ==
    ASSUME Inv, Next, NEW w \in Workers, Materialize(w)
    PROVE  WorkInv'
<1>1. /\ UNCHANGED <<attempt, sent, verified, lost>> /\ [Next]_vars /\ job[w].pc = "materialize"
      /\ Goto(w, "dispatch") \/ Report(w, "FAILED")
      /\ P!RecordNodeInput(NodeOf(w), job[w].run, "input", clock) \/ UNCHANGED <<clock, store>>
  BY DEF Materialize, NoPlatform, NoStore, At
<1>2. WorkType /\ WriteNodes' = WriteNodes
  BY Standing DEF WriteNodes
<1>3. /\ job' \in [Workers -> JobRecord] /\ job'[w].pc \in {"dispatch", "report"}
      /\ job'[w].pc = "report" => job'[w].outcome = "FAILED"
      /\ job'[w].node = NodeOf(w) /\ job'[w].run = job[w].run
      /\ \A v \in Workers \ {w} : job'[v] = job[v]
  <2>1. CASE Goto(w, "dispatch")
    BY <1>2, <2>1, Goes DEF Steps
  <2>2. CASE Report(w, "FAILED")
    BY <1>2, <2>2, Reports DEF Outcomes
  <2> QED BY <1>1, <2>1, <2>2
<1>4. ClaimInv(w)' /\ WriteInv(w)' /\ ~Writing(w)'
  BY <1>1, <1>3, KeepsClaim DEF WriteInv, Writing
<1>5. \A n \in WriteNodes : NodeTells(n)'
  <2>1. \A n \in P!Node : Unmarked(n)
    BY <1>1, CallsMarkNothing
  <2> QED BY <1>1, <2>1 DEF Inv, WorkInv, NodeTells, Unmarked, Marked, WriteNodes
<1> QED BY <1>1, <1>2, <1>3, <1>4, <1>5, CallingStep DEF WorkType

LEMMA ReportStep ==
    ASSUME Inv, Next, NEW w \in Workers, ReportResult(w)
    PROVE  WorkInv'
<1>1. /\ UNCHANGED <<attempt, sent, verified, lost>> /\ [Next]_vars /\ job[w].pc = "report"
      /\ job' = [job EXCEPT ![w] = Idle]
  BY DEF ReportResult, NoPlatform, At
<1>2. WorkType /\ WriteInv(w) /\ NodeOf(w) \in P!Node /\ WriteNodes' = WriteNodes
  BY <1>1, Standing DEF WriteNodes
<1>3. /\ job' \in [Workers -> JobRecord]
      /\ ClaimInv(w)' /\ WriteInv(w)' /\ ~Writing(w)'
      /\ \A v \in Workers \ {w} : job'[v] = job[v]
  BY <1>1, <1>2, Frees
<1>4. ASSUME NEW s, RecordResult(w, s), s \in Marked => s = job[w].outcome
      PROVE  \A n \in WriteNodes : NodeTells(n)'
  <2>1. PICK superseded : P!CloseNode(NodeOf(w), job[w].run, s, superseded, clock)
    BY <1>4, Zenon DEF RecordResult, P!RecordNodeResult
  <2>2. (\A n \in P!Node \ {NodeOf(w)} : Unmarked(n)) /\ node'[NodeOf(w)].state = s
    BY <1>2, <2>1, ClosingMarks
  <2>3. NodeOf(w) \in WriteNodes => NodeTells(NodeOf(w)) /\ AttemptInv(NodeOf(w))
    BY DEF Inv, WorkInv
  <2>4. ASSUME NEW n \in WriteNodes PROVE NodeTells(n)'
    <3>1. CASE n = NodeOf(w)
      BY <1>1, <1>2, <1>4, <2>2, <2>3, <3>1 DEF NodeTells, AttemptInv, WriteInv, Marked
    <3>2. CASE n # NodeOf(w)
      BY <1>1, <2>2, <3>2 DEF Inv, WorkInv, NodeTells, Unmarked, Marked, WriteNodes
    <3> QED BY <3>1, <3>2
  <2> QED BY <2>4
<1>5. ASSUME NEW d, P!ScheduleRetry(NodeOf(w), job[w].run, clock, d)
      PROVE  \A n \in WriteNodes : NodeTells(n)'
  <2>1. \A n \in P!Node : Unmarked(n)
    BY <1>5, CallsMarkNothing
  <2> QED BY <1>1, <2>1 DEF Inv, WorkInv, NodeTells, Unmarked, Marked, WriteNodes
<1>6. \A n \in WriteNodes : NodeTells(n)'
  <2>1. CASE job[w].outcome \notin {"NONE", "TRANSIENT"} /\ RecordResult(w, job[w].outcome)
    BY <1>4, <2>1
  <2>2. CASE \E d \in RetryDelays :
                IF MayRetry(w, clock + d)
                THEN P!ScheduleRetry(NodeOf(w), job[w].run, clock, clock + d)
                ELSE RecordResult(w, "FAILED")
    <3>1. CASE RecordResult(w, "FAILED")
      BY <1>4, <3>1 DEF Marked
    <3>2. CASE \E d : P!ScheduleRetry(NodeOf(w), job[w].run, clock, d)
      BY <1>5, <3>2
    <3> QED BY <2>2, <3>1, <3>2
  <2> QED BY <2>1, <2>2 DEF ReportResult
<1> QED BY <1>1, <1>2, <1>3, <1>6, CallingStep DEF WorkType

\* What happens around the workers.
LEMMA OutsideSteps ==
    ASSUME Inv, Next, (\E p \in Plans : Open(p)) \/ OutsideStep \/ ConflictEvent
    PROVE  WorkInv'
<1>0. /\ WorkType /\ WriteNodes' = WriteNodes /\ [Next]_vars
      /\ \A n \in WriteNodes : AttemptInv(n) /\ NodeTells(n)
  BY DEF Inv, WorkInv, WriteNodes
<1>1. ASSUME UNCHANGED <<attempt, sent, job, lost>>, verified' \in BOOLEAN,
             \A n \in P!Node : Unmarked(n)
      PROVE  WorkInv'
  <2>1. WorkType' /\ \A v \in Workers : job'[v] = job[v]
    BY <1>0, <1>1 DEF WorkType
  <2>2. \A n \in WriteNodes : NodeTells(n)'
    BY <1>0, <1>1 DEF NodeTells, Unmarked, Marked, WriteNodes
  <2> QED BY <1>0, <1>1, <2>1, <2>2, CallingStep
<1>2. ASSUME NEW p \in Plans, Open(p) PROVE WorkInv'
  <2>1. \A n \in P!Node : Unmarked(n)
    BY <1>2, CallsMarkNothing DEF Open
  <2> QED BY <1>0, <1>1, <1>2, <2>1 DEF Open, WorkType
<1>3. CASE Tick \/ ConflictEvent
  <2>1. \A n \in P!Node : Unmarked(n)
    BY <1>3, CallsMarkNothing DEF Tick, ConflictEvent, NoStore
  <2> QED BY <1>0, <1>1, <1>3, <2>1 DEF Tick, ConflictEvent, WorkType
<1>4. ASSUME NEW m \in WriteNodes, ReconcileSoldOut(m) PROVE WorkInv'
  <2>1. UNCHANGED <<attempt, sent, verified, job, lost>> /\ sent[m] = 1 /\ m \in P!Node
    BY <1>4 DEF ReconcileSoldOut, WriteNodes
  <2>2. PICK i, superseded, t : P!CloseNode(m, i, "SUCCEEDED", superseded, t)
    BY <1>4, Zenon DEF ReconcileSoldOut, P!ReconcilePlanReference, P!CloseReconciliation
  <2>3. (\A n \in P!Node \ {m} : Unmarked(n)) /\ node'[m].state = "SUCCEEDED"
    BY <2>1, <2>2, ClosingMarks
  <2>4. WorkType' /\ \A v \in Workers : job'[v] = job[v]
    BY <1>0, <2>1 DEF WorkType
  <2>5. \A n \in WriteNodes : NodeTells(n)'
    BY <1>0, <2>1, <2>3 DEF NodeTells, Unmarked, Marked, WriteNodes
  <2> QED BY <1>0, <2>1, <2>4, <2>5, CallingStep
<1>5. ASSUME NEW m \in WriteNodes, LateWrite(m) PROVE WorkInv'
  <2>1. /\ UNCHANGED <<clock, store>> /\ UNCHANGED <<attempt, verified, job, lost>>
        /\ attempt[m] = "SIDE_EFFECT_UNKNOWN" /\ sent' = [sent EXCEPT ![m] = 1]
    BY <1>5 DEF LateWrite, NoStore
  <2>2. sent' \in [WriteNodes -> Nat] /\ sent'[m] = 1 /\ \A n \in WriteNodes \ {m} : sent'[n] = sent[n]
    BY <1>0, <2>1 DEF WorkType
  <2>3. ASSUME NEW v \in Workers
        PROVE  /\ ClaimInv(v)' /\ WriteInv(v)'
               /\ Writing(v)' => Writing(v) /\ NodeOf(v)' = NodeOf(v)
    <3>1. Writing(v) => NodeOf(v) # m
      BY <2>1, Standing DEF WriteInv
    <3> QED BY <1>0, <2>1, <2>2, <3>1, OtherWorker
  <2>4. OneWriter'
    BY <2>3 DEF Inv, WorkInv, OneWriter
  <2>5. \A n \in WriteNodes : AttemptInv(n)' /\ NodeTells(n)'
    <3>1. node' = node
      BY <2>1 DEF store
    <3> QED BY <1>0, <2>1, <2>2, <3>1 DEF AttemptInv, NodeTells
  <2>6. WorkType'
    BY <1>0, <2>1, <2>2 DEF WorkType
  <2> QED BY <1>0, <2>3, <2>4, <2>5, <2>6 DEF WorkInv
<1>6. CASE OutsideStep
  BY <1>3, <1>4, <1>5, <1>6, Zenon DEF OutsideStep
<1> QED BY <1>2, <1>3, <1>6, Zenon

LEMMA InvStep == Inv /\ [Next]_vars => Inv'
<1> SUFFICES ASSUME Inv, [Next]_vars PROVE Inv'
  OBVIOUS
<1>1. StoreInv'
  BY StoreSteps
<1>2. CASE Next
  <2>1. ASSUME NEW w \in Workers, WorkerStep(w) \/ Stop(w) PROVE WorkInv'
    BY <1>2, <2>1, TakingSteps, MaterializeStep, DispatchStep, ClaimOrReplayStep, HandlerSteps,
       ReportStep, LosingSteps
    DEF WorkerStep, Execute, Stop
  <2>2. WorkInv'
    BY <1>2, <2>1, OutsideSteps DEF Next
  <2> QED BY <1>1, <2>2 DEF Inv
<1>3. CASE UNCHANGED vars
  <2>1. /\ UNCHANGED <<attempt, sent, verified, job, lost>> /\ node' = node /\ WriteNodes' = WriteNodes
        /\ WorkType
    BY <1>3 DEF vars, store, WriteNodes, Inv, WorkInv
  <2>2. WorkType' /\ \A v \in Workers : job'[v] = job[v]
    BY <2>1 DEF WorkType
  <2>3. \A n \in WriteNodes : NodeTells(n)'
    BY <2>1 DEF Inv, WorkInv, NodeTells
  <2> QED BY <1>1, <2>1, <2>2, <2>3, CallingStep DEF Inv
<1> QED BY <1>2, <1>3

-----------------------------------------------------------------------------
(* The refinement of CallOnce, step by step. *)

\* What the attempt of a write stands for in CallOnce.
Answer(a) ==
    CASE a \in {"NONE", "INTENT_RECORDED"} -> "OPEN"
      [] a = "SUCCEEDED" -> "OK"
      [] a = "NOT_SENT"  -> "UNSENT"
      [] OTHER -> "LOST"

LEMMA Reserves ==
    ASSUME WorkType, NEW n \in WriteNodes, attempt[n] = "NONE", UNCHANGED sent,
           attempt' = [attempt EXCEPT ![n] = "INTENT_RECORDED"]
    PROVE  CallsOnce!Next
<1>1. WriteNodes' = WriteNodes
  BY DEF WriteNodes
<1>2. attempt'[n] = "INTENT_RECORDED" /\ \A m \in WriteNodes \ {n} : attempt'[m] = attempt[m]
  BY DEF WorkType
<1>3. CallsOnce!Reserve(n)
  BY <1>1, <1>2 DEF CallsOnce!Reserve
<1> QED BY <1>3, Zenon DEF CallsOnce!Next

LEMMA Settles ==
    ASSUME WorkType, NEW n \in WriteNodes, attempt[n] = "INTENT_RECORDED", UNCHANGED sent,
           NEW s \in {"SUCCEEDED", "NOT_SENT", "FAILED", "SIDE_EFFECT_UNKNOWN"},
           attempt' = [attempt EXCEPT ![n] = s],
           s = "SUCCEEDED" => sent[n] = 1, s = "NOT_SENT" => sent[n] = 0
    PROVE  CallsOnce!Next
<1>1. WriteNodes' = WriteNodes
  BY DEF WriteNodes
<1>2. attempt'[n] = s /\ \A m \in WriteNodes \ {n} : attempt'[m] = attempt[m]
  BY DEF WorkType
<1>3. CallsOnce!Settle(n, Answer(s)) /\ Answer(s) \in {"OK", "LOST", "UNSENT"}
  BY <1>1, <1>2 DEF CallsOnce!Settle, Answer
<1> QED BY <1>3, Zenon DEF CallsOnce!Next

LEMMA Sends ==
    ASSUME WorkType, NEW n \in WriteNodes, UNCHANGED attempt,
           attempt[n] \in {"INTENT_RECORDED", "SIDE_EFFECT_UNKNOWN"}, sent[n] = 0,
           sent' = [sent EXCEPT ![n] = 1]
    PROVE  CallsOnce!Next
<1>1. WriteNodes' = WriteNodes
  BY DEF WriteNodes
<1>2. CallsOnce!Send(n)
  BY <1>1 DEF CallsOnce!Send
<1> QED BY <1>2, Zenon DEF CallsOnce!Next

\* A worker that closes the attempt of its node is the one that reserved it.
LEMMA Closings ==
    ASSUME Inv, NEW w \in Workers, NodeOf(w) \in WriteNodes, UNCHANGED sent,
           NEW s \in {"SUCCEEDED", "NOT_SENT", "FAILED", "SIDE_EFFECT_UNKNOWN"}, Close(w, s),
           At(w, "call") \/ At(w, "handler") \/ At(w, "written"),
           s = "SUCCEEDED" => At(w, "written"), s = "NOT_SENT" => ~At(w, "written")
    PROVE  CallsOnce!Next
<1>1. PICK n : n = NodeOf(w)
  OBVIOUS
<1>2. WorkType /\ WriteInv(w)
  BY DEF Inv, WorkInv
<1>3. /\ attempt[n] = "INTENT_RECORDED" /\ n \in WriteNodes
      /\ s = "SUCCEEDED" => sent[n] = 1
      /\ s = "NOT_SENT" => sent[n] = 0
  BY <1>1, <1>2 DEF WriteInv, Writing, At
<1>4. attempt' = [attempt EXCEPT ![n] = s]
  BY <1>1 DEF Close
<1> QED BY <1>2, <1>3, <1>4, Settles

LEMMA CallSteps ==
    ASSUME Inv, [Next]_vars
    PROVE  [CallsOnce!Next]_(CallsOnce!vars)
<1>1. ASSUME UNCHANGED <<attempt, sent>> PROVE UNCHANGED CallsOnce!vars
  <2>1. WriteNodes' = WriteNodes
    BY DEF WriteNodes
  <2> QED BY <1>1, <2>1 DEF CallsOnce!vars
<1>2. WorkType
  BY DEF Inv, WorkInv
<1>3. ASSUME NEW w \in Workers, WorkerStep(w) \/ Stop(w)
      PROVE  [CallsOnce!Next]_(CallsOnce!vars)
  <2>1. CASE \/ \E p \in Plans : RunOnce(w, p)
             \/ RunNextOnce(w)
             \/ \E n \in P!Node : TakeOver(w, n)
             \/ Materialize(w) \/ Dispatch(w) \/ AnswerRead(w) \/ ReportResult(w)
             \/ ReportRefused(w) \/ Crash(w)
    BY <1>1, <2>1 DEF RunOnce, RunNextOnce, TakeOver, Materialize, Dispatch, AnswerRead,
       ReportResult, ReportRefused, Crash, Lose, NoPlatform
  <2>2. CASE ClaimOrReplay(w)
    <3>1. PICK n : n = NodeOf(w)
      OBVIOUS
    <3>2. n \in WriteNodes /\ UNCHANGED sent
      BY <2>2, <3>1 DEF ClaimOrReplay, At, NoPlatform, Inv, WorkInv, WriteInv
    <3>3. CASE MayReserve(n)
      <4>1. attempt[n] = "NONE" /\ attempt' = [attempt EXCEPT ![n] = "INTENT_RECORDED"]
        BY <2>2, <3>1, <3>3 DEF ClaimOrReplay, MayReserve, Close
      <4> QED BY <1>2, <3>2, <4>1, Reserves
    <3>4. CASE ~MayReserve(n)
      BY <1>1, <2>2, <3>1, <3>2, <3>4 DEF ClaimOrReplay
    <3> QED BY <3>3, <3>4
  <2>3. CASE PlatformWrites(w)
    <3>1. PICK n : n = NodeOf(w)
      OBVIOUS
    <3>2. /\ n \in WriteNodes /\ attempt[n] = "INTENT_RECORDED" /\ UNCHANGED attempt
          /\ sent[n] = 0 /\ sent' = [sent EXCEPT ![n] = 1]
      BY <1>2, <2>3, <3>1
      DEF PlatformWrites, At, KeyOf, Inv, WorkInv, ClaimInv, WriteInv, Writing, WriteNodes
    <3> QED BY <1>2, <3>2, Sends
  <2>4. CASE \/ CallHandler(w) \/ PlatformRefuses(w) \/ CompleteSuccess(w)
             \/ CompleteUnknown(w) \/ CompleteFailure(w) \/ Cancel(w)
    <3>1. UNCHANGED sent
      BY <2>4 DEF CallHandler, PlatformRefuses, CompleteSuccess, CompleteUnknown,
         CompleteFailure, Cancel, Lose, NoPlatform
    <3>2. ClaimInv(w) /\ WriteInv(w)
      BY DEF Inv, WorkInv
    <3>3. \/ UNCHANGED attempt
          \/ /\ At(w, "call") \/ At(w, "handler") \/ At(w, "written")
             /\ NodeOf(w) \in WriteNodes
             /\ \E s \in {"SUCCEEDED", "NOT_SENT", "FAILED", "SIDE_EFFECT_UNKNOWN"} :
                   /\ Close(w, s)
                   /\ s = "SUCCEEDED" => At(w, "written")
                   /\ s = "NOT_SENT" => ~At(w, "written")
      <4>1. /\ At(w, "call") \/ At(w, "handler") \/ At(w, "written")
                => NodeOf(w) \in P!Node
            /\ At(w, "written") => NodeOf(w) \in WriteNodes
        BY <3>2 DEF ClaimInv, WriteInv, At
      <4>2. NodeOf(w) \in P!Node /\ KeyOf(w) \in WriteKeys => NodeOf(w) \in WriteNodes
        BY DEF WriteNodes, KeyOf
      <4>3. CASE CallHandler(w)
        BY <4>1, <4>2, <4>3 DEF CallHandler, At
      <4>4. CASE PlatformRefuses(w)
        BY <4>1, <4>2, <4>4 DEF PlatformRefuses, At
      <4>5. CASE CompleteSuccess(w) \/ CompleteUnknown(w) \/ CompleteFailure(w)
        BY <4>1, <4>2, <4>5 DEF CompleteSuccess, CompleteUnknown, CompleteFailure
      <4>6. CASE Cancel(w)
        BY <4>1, <4>2, <4>6 DEF Cancel
      <4> QED BY <2>4, <4>3, <4>4, <4>5, <4>6
    <3> QED BY <1>1, <3>1, <3>3, Closings
  <2> QED BY <1>3, <2>1, <2>2, <2>3, <2>4 DEF WorkerStep, Execute, Stop
<1>4. ASSUME NEW n \in WriteNodes, LateWrite(n) PROVE [CallsOnce!Next]_(CallsOnce!vars)
  BY <1>2, <1>4, Sends DEF LateWrite
<1>5. CASE \/ \E p \in Plans : Open(p)
           \/ Tick \/ ConflictEvent \/ \E n \in WriteNodes : ReconcileSoldOut(n)
           \/ UNCHANGED vars
  BY <1>1, <1>5 DEF Open, Tick, ConflictEvent, ReconcileSoldOut, vars
<1> QED BY <1>3, <1>4, <1>5 DEF Next, OutsideStep

-----------------------------------------------------------------------------
(* The theorems. *)

\* The invariant behind all of them (_execute_claim_inner, claim_or_replay).
THEOREM Execution == Spec => []Inv
BY InvInit, InvStep, PTL DEF Spec

\* The workers use the PlanStore as its specification allows, so its theorems
\* hold of every plan they execute.
THEOREM PlanStoreIsCalled == Spec => P!Spec
<1>1. Init => P!Init
  BY DEF Init
<1>2. Inv /\ [Next]_vars => [P!Next]_(P!vars)
  BY StoreSteps
<1> QED BY <1>1, <1>2, Execution, PTL DEF Spec, P!Spec

LEMMA InvTypes == Inv => TypeOK
BY StoreRows DEF Inv, WorkInv, WorkType, TypeOK

\* Type correctness of the store, the attempts and the memory of the workers.
THEOREM Types == Spec => []TypeOK
BY Execution, InvTypes, PTL

LEMMA InvTells == Inv => NodeTellsTheWrite
BY DEF Inv, WorkInv, AttemptInv, NodeTells, NodeTellsTheWrite

\* A write node never claims more than the platform did, whichever workers crash,
\* lose their lease or take the node over (_execute_claim_inner, execute).
THEOREM Telling == Spec => []NodeTellsTheWrite
BY Execution, InvTells, PTL

\* However many workers believe they hold the claim of a write node, one of them
\* has reserved the write and only that one can make it (claim_or_replay).
THEOREM Reserving == Spec => []OneWriter
<1>1. Inv => OneWriter
  BY DEF Inv, WorkInv
<1> QED BY <1>1, Execution, PTL

LEMMA CallsInit == Init => CallsOnce!Init
BY DEF Init, CallsOnce!Init

\* The workers implement CallOnce: a write is reserved before it is sent, it is
\* sent at most once, and its answer is final and true (claim_or_replay,
\* complete_*; D-058).
THEOREM WritingOnce == Spec => CallsAreMadeOnce
<1>1. Inv /\ [Next]_vars => [CallsOnce!Next]_(CallsOnce!vars)
  BY CallSteps
<1> QED BY <1>1, CallsInit, Execution, PTL DEF Spec, CallsAreMadeOnce, CallsOnce!Spec

-----------------------------------------------------------------------------
(* The graph of MCPlanWorker is one of Reconciliation. *)

RT == INSTANCE ReconciliationProofs WITH
    Graphs <- {g1}, Reconcilers <- {s1, s2}, Services <- {s2}, Steady <- {s1}, Plans <- {batch},
    Keys <- {prepare, card}, KeysOf <- OneCardOf, DependsOn <- OneCardWaits,
    RootKeys <- {prepare}, ResourceKeys <- OneCardHolds, Events <- {e1},
    Signatures <- {x1}, CommandIds <- {cmd1}, MaxVersion <- 2, MaxRuns <- 1

\* Its batch is one that the theorems are about.
LEMMA OneCardFits == RT!Fits
<1>1. Checked!P!Node = RT!P!Node
  BY DEF Checked!P!Node, RT!P!Node, Checked!P!Versions, RT!P!Versions
<1>2. /\ OneCardOf \in [{batch} -> SUBSET {prepare, card}]
      /\ OneCardWaits \in [{prepare, card} -> SUBSET {prepare, card}]
      /\ OneCardOf[batch] = {prepare, card} /\ OneCardWaits[prepare] = {}
      /\ DOMAIN OneCardHolds = {batch} /\ DOMAIN OneCardHolds[batch] = {prepare, card}
  BY GraphAssumption DEF OneCardOf, OneCardWaits, OneCardHolds
<1>3. None \notin Int \cup {e1} \cup {x1} \cup RT!P!Node
  BY <1>1, GraphAssumption
<1>4. RT!PlansFit
  BY <1>2, <1>3 DEF RT!PlansFit
<1> QED BY <1>4 DEF RT!Fits

\* So are its behaviours and its properties.
LEMMA SameGraphInit == Checked!Init => RT!Init
BY DEF
    Checked!AnyPlan, RT!AnyPlan, Checked!GraphIdle, RT!GraphIdle, Checked!Init, RT!Init,
    Checked!ScanIdle, RT!ScanIdle, Checked!P!AbsentNode, RT!P!AbsentNode, Checked!P!AbsentPlan,
    RT!P!AbsentPlan, Checked!P!FirstVersion, RT!P!FirstVersion, Checked!P!Init, RT!P!Init,
    Checked!P!Node, RT!P!Node, Checked!P!Versions, RT!P!Versions

LEMMA SameGraphSteps == [Checked!Next]_(Checked!vars) => [RT!Next]_(RT!vars)
BY Zenon DEF
    Checked!Act, RT!Act, Checked!AnyPlan, RT!AnyPlan, Checked!Disagrees, RT!Disagrees,
    Checked!DriveToTerminal, RT!DriveToTerminal, Checked!Ended, RT!Ended, Checked!GiveUp,
    RT!GiveUp, Checked!GraphIdle, RT!GraphIdle, Checked!Invoke, RT!Invoke, Checked!IssueResume,
    RT!IssueResume, Checked!Listed, RT!Listed, Checked!Next, RT!Next, Checked!NoStore,
    RT!NoStore, Checked!OpenBatch, RT!OpenBatch, Checked!ReadCheckpoint, RT!ReadCheckpoint,
    Checked!ReadPlan, RT!ReadPlan, Checked!ReceiveCommand, RT!ReceiveCommand,
    Checked!Reconcile, RT!Reconcile, Checked!Replan, RT!Replan, Checked!SaveCheckpoint,
    RT!SaveCheckpoint, Checked!Scan, RT!Scan, Checked!ScanIdle, RT!ScanIdle, Checked!SoldOut,
    RT!SoldOut, Checked!Submit, RT!Submit, Checked!Verdict, RT!Verdict, Checked!WorkerStep,
    RT!WorkerStep, Checked!store, RT!store, Checked!vars, RT!vars, Checked!P!AllSucceeded,
    RT!P!AllSucceeded, Checked!P!ApplyImpactFreeze, RT!P!ApplyImpactFreeze, Checked!P!Approve,
    RT!P!Approve, Checked!P!BlockedByIncident, RT!P!BlockedByIncident, Checked!P!Claim,
    RT!P!Claim, Checked!P!ClaimReadyNodes, RT!P!ClaimReadyNodes,
    Checked!P!ClearReconciliationFailure, RT!P!ClearReconciliationFailure, Checked!P!CloseNode,
    RT!P!CloseNode, Checked!P!CloseReconciliation, RT!P!CloseReconciliation,
    Checked!P!Conflict, RT!P!Conflict, Checked!P!CreateOrResume, RT!P!CreateOrResume,
    Checked!P!CreateReplanVersion, RT!P!CreateReplanVersion, Checked!P!CurrentNodes,
    RT!P!CurrentNodes, Checked!P!Dependencies, RT!P!Dependencies, Checked!P!DependencyClosure,
    RT!P!DependencyClosure, Checked!P!DueRetries, RT!P!DueRetries, Checked!P!Evidence,
    RT!P!Evidence, Checked!P!Freezable, RT!P!Freezable, Checked!P!HasRun, RT!P!HasRun,
    Checked!P!HoldsClaim, RT!P!HoldsClaim, Checked!P!HoldsResources, RT!P!HoldsResources,
    Checked!P!IsCurrent, RT!P!IsCurrent, Checked!P!IssueResume, RT!P!IssueResume,
    Checked!P!LastRun, RT!P!LastRun, Checked!P!LockedResources, RT!P!LockedResources,
    Checked!P!LoopsOrExhausted, RT!P!LoopsOrExhausted, Checked!P!NewNode, RT!P!NewNode,
    Checked!P!NewRun, RT!P!NewRun, Checked!P!Node, RT!P!Node, Checked!P!NodeState,
    RT!P!NodeState, Checked!P!Picks, RT!P!Picks, Checked!P!PlanAfter, RT!P!PlanAfter,
    Checked!P!Precedes, RT!P!Precedes, Checked!P!ProductKeys, RT!P!ProductKeys,
    Checked!P!Promoted, RT!P!Promoted, Checked!P!RecordNodeResult, RT!P!RecordNodeResult,
    Checked!P!RecordReconciliationFailure, RT!P!RecordReconciliationFailure, Checked!P!Reject,
    RT!P!Reject, Checked!P!Resources, RT!P!Resources, Checked!P!Resumable, RT!P!Resumable,
    Checked!P!Resume, RT!P!Resume, Checked!P!Reusable, RT!P!Reusable, Checked!P!Schedulable,
    RT!P!Schedulable, Checked!P!SubmitCommand, RT!P!SubmitCommand, Checked!P!TTL, RT!P!TTL,
    Checked!P!Transitions, RT!P!Transitions, Checked!P!Verdict, RT!P!Verdict,
    Checked!P!Versions, RT!P!Versions, Checked!P!WithDependentsReady, RT!P!WithDependentsReady,
    Checked!P!WithNewNodes, RT!P!WithNewNodes,
    Checked!P!Cardinality, RT!P!Cardinality

LEMMA SameGraphProperties ==
    /\ RT!TypeOK => Checked!TypeOK
    /\ RT!CheckpointsAreBehind => Checked!CheckpointsAreBehind
BY Zenon DEF
    Checked!CheckpointsAreBehind, RT!CheckpointsAreBehind, Checked!Ended, RT!Ended,
    Checked!GraphRecord, RT!GraphRecord, Checked!LateFailure, RT!LateFailure,
    Checked!Reference, RT!Reference, Checked!ScanRecord, RT!ScanRecord, Checked!TypeOK,
    RT!TypeOK, Checked!P!Clock, RT!P!Clock, Checked!P!CommandRecord, RT!P!CommandRecord,
    Checked!P!CommandType, RT!P!CommandType, Checked!P!LastRun, RT!P!LastRun, Checked!P!Node,
    RT!P!Node, Checked!P!NodeRecord, RT!P!NodeRecord, Checked!P!NodeRunRecord,
    RT!P!NodeRunRecord, Checked!P!NodeState, RT!P!NodeState, Checked!P!PlanRunRecord,
    RT!P!PlanRunRecord, Checked!P!PlanState, RT!P!PlanState, Checked!P!Reasons, RT!P!Reasons,
    Checked!P!Resources, RT!P!Resources, Checked!P!TypeOK, RT!P!TypeOK,
    Checked!P!VersionRecord, RT!P!VersionRecord, Checked!P!Versions, RT!P!Versions

-----------------------------------------------------------------------------
(* The same for the behaviours of MCPlanWorker. *)

Scenes == {OneWorker, TwoWorkers, OneGraph}

SceneInv == scene \in Scenes /\ (Working => Inv) /\ (Reconciling => RT!Inv)

\* A step of a scene with workers is a step of PlanWorker, and one of the scene with
\* the graph is a step of Reconciliation.
LEMMA SceneSteps ==
    ASSUME SceneInv, [SceneNext]_sceneVars
    PROVE  /\ scene' = scene
           /\ Working => [Next]_vars
           /\ Reconciling => [RT!Next]_(RT!vars)
<1>1. CASE WorkersNext
  <2>1. scene \in {OneWorker, TwoWorkers}
    BY <1>1 DEF SceneInv, Scenes, WorkersNext, Working, OneGraph
  <2>2. scene.plans \subseteq Plans /\ scene.workers \subseteq Workers
    BY <2>1, ScenesAssumption DEF OneWorker, TwoWorkers
  <2>3. \/ \E p \in scene.plans : Open(p)
        \/ \E w \in scene.workers : WorkerStep(w) \/ Stop(w)
        \/ OutsideStep \/ ConflictEvent
    BY <1>1, Zenon DEF WorkersNext
  <2>4. Next
    BY <2>2, <2>3, Zenon DEF Next
  <2> QED BY <1>1, <2>4 DEF WorkersNext, Working, Reconciling
<1>2. CASE GraphNext
  <2>1. [RT!Next]_(RT!vars)
    BY <1>2, SameGraphSteps DEF GraphNext
  <2> QED BY <1>2, <2>1 DEF GraphNext, Reconciling, Working
<1>3. CASE UNCHANGED sceneVars
  <2>1. UNCHANGED Checked!vars
    BY <1>3 DEF sceneVars, vars, store, ofGraph, Checked!vars, Checked!store
  <2> QED BY <1>3, <2>1, SameGraphSteps DEF sceneVars
<1> QED BY <1>1, <1>2, <1>3 DEF SceneNext

LEMMA SceneInvInit == SceneInit => SceneInv
<1>1. OneGraph.part # "workers" /\ OneWorker.part # "graph" /\ TwoWorkers.part # "graph"
  BY DEF OneGraph, OneWorker, TwoWorkers
<1>2. Checked!Init => RT!Inv
  BY OneCardFits, SameGraphInit, RT!InvInit
<1> QED BY <1>1, <1>2, InvInit DEF SceneInit, SceneInv, Scenes, Working, Reconciling

LEMMA SceneInvStep == SceneInv /\ [SceneNext]_sceneVars => SceneInv'
<1> SUFFICES ASSUME SceneInv, [SceneNext]_sceneVars PROVE SceneInv'
  OBVIOUS
<1>1. scene' = scene /\ (Working => [Next]_vars) /\ (Reconciling => [RT!Next]_(RT!vars))
  BY SceneSteps
<1>2. scene' \in Scenes'
  BY <1>1 DEF SceneInv, Scenes, OneWorker, TwoWorkers, OneGraph
<1>3. Working' => Inv'
  BY <1>1, InvStep DEF SceneInv, Working
<1>4. Reconciling' => RT!Inv'
  BY <1>1, RT!InvStep DEF SceneInv, Reconciling
<1> QED BY <1>2, <1>3, <1>4 DEF SceneInv

\* The store, the attempts, the checkpoint and the memory of the processes keep
\* their types.
THEOREM ScenesTypes == SceneSpec => []TypesOK
<1>1. SceneInv => TypesOK
  BY InvTypes, RT!InvTypes, SameGraphProperties DEF SceneInv, TypesOK
<1> QED BY <1>1, SceneInvInit, SceneInvStep, PTL DEF SceneSpec

\* The run's invariant (PlanWorker!NodeTellsTheWrite).
THEOREM ScenesTell == SceneSpec => []NodesTellTheWrite
<1>1. SceneInv => NodesTellTheWrite
  BY InvTells DEF SceneInv, NodesTellTheWrite
<1> QED BY <1>1, SceneInvInit, SceneInvStep, PTL DEF SceneSpec

\* What the checkpoint of the scene says of its batch is so
\* (Reconciliation!CheckpointsAreBehind).
THEOREM ScenesReconcile == SceneSpec => []CheckpointsAreBehind
<1>1. SceneInv => CheckpointsAreBehind
  BY RT!InvBehind, SameGraphProperties DEF SceneInv, CheckpointsAreBehind
<1> QED BY <1>1, SceneInvInit, SceneInvStep, PTL DEF SceneSpec

\* The run's refinement (PlanWorker!CallsAreMadeOnce).
THEOREM ScenesWriteOnce == SceneSpec => WritesAreMadeOnce
<1> DEFINE A == Working => [CallsOnce!Next]_(CallsOnce!vars)
<1>1. SceneInv /\ [SceneNext]_sceneVars => A
  BY SceneSteps, CallSteps DEF SceneInv
<1>2. A => [A]_sceneVars
  OBVIOUS
<1> HIDE DEF A
<1>3. SceneSpec => [][A]_sceneVars
  BY <1>1, <1>2, SceneInvInit, SceneInvStep, PTL DEF SceneSpec
<1> QED BY <1>3 DEF A, WritesAreMadeOnce

=============================================================================
