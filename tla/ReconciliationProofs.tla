------------------------ MODULE ReconciliationProofs ------------------------
(* Theorems about Reconciliation, for any graphs, reconcilers, plans, DAGs, events
   and versions: a plan that ended stays as it ended until it is replanned or a late
   failure ends it once more, and so does what a checkpoint says of it. *)
EXTENDS Reconciliation, SequenceTheorems, TLAPS

PT == INSTANCE PlanStoreTheorems WITH
        CardBatch <- Plans, Fingerprints <- {}, ResultStates <- {"SUCCEEDED", "FAILED"},
        Lease <- 1, ClaimLimit <- 1, RetryDelays <- {}, ApprovalTTL <- 1, ReconcileTTL <- 1,
        ClockLag <- 0, MaxClock <- 0

-----------------------------------------------------------------------------
(* What a card batch is. *)

\* What PlanStore assumes of plans, bounds and None.
PlansFit ==
    /\ KeysOf \in [Plans -> SUBSET Keys] /\ DependsOn \in [Keys -> SUBSET Keys]
    /\ \A p \in Plans : \A k \in KeysOf[p] : DependsOn[k] \subseteq KeysOf[p]
    /\ RootKeys \subseteq Keys /\ \A k \in RootKeys : DependsOn[k] = {}
    /\ DOMAIN ResourceKeys = Plans /\ \A p \in Plans : DOMAIN ResourceKeys[p] = Keys
    /\ MaxVersion \in Nat \ {0} /\ MaxRuns \in Nat \ {0}
    /\ None \notin Int \cup Events \cup Signatures \cup P!Node

Fits == Plans # {} /\ Services \subseteq Reconcilers /\ PlansFit

LEMMA PlanConstants ==
    ASSUME Fits
    PROVE  /\ Plans \subseteq Plans
           /\ KeysOf \in [Plans -> SUBSET Keys] /\ DependsOn \in [Keys -> SUBSET Keys]
           /\ \A p \in Plans : \A k \in KeysOf[p] : DependsOn[k] \subseteq KeysOf[p]
           /\ RootKeys \subseteq Keys /\ \A k \in RootKeys : DependsOn[k] = {}
           /\ DOMAIN ResourceKeys = Plans /\ \A p \in Plans : DOMAIN ResourceKeys[p] = Keys
           /\ {"SUCCEEDED", "FAILED"} \subseteq PT!NodeState
           /\ MaxVersion \in Nat \ {0} /\ 1 \in Nat \ {0} /\ 1 \in Nat
           /\ {} \subseteq Nat /\ 0 \in Nat /\ MaxRuns \in Nat \ {0}
           /\ None \notin Int \cup Events \cup Signatures \cup {} \cup PT!Node
<1>1. {"SUCCEEDED", "FAILED"} \subseteq PT!NodeState
  BY DEF PT!NodeState
<1>2. P!Node = PT!Node
  BY DEF P!Node, PT!Node, P!Versions, PT!Versions
<1> QED BY <1>1, <1>2 DEF Fits, PlansFit

\* The store of the proofs is the store of Reconciliation.
LEMMA SameInit == P!Init => PT!Init
BY DEF P!Init, PT!Init, P!AbsentPlan, PT!AbsentPlan, P!AbsentNode, PT!AbsentNode,
       P!FirstVersion, PT!FirstVersion, P!Node, PT!Node, P!Versions, PT!Versions

\* So are its steps, operation for operation.
LEMMA SamePlanSteps == [P!Next]_(P!vars) => [PT!Next]_(PT!vars)
BY Zenon DEF P!Next, PT!Next, P!AwaitedStatus, PT!AwaitedStatus, P!IsReplay,
    PT!IsReplay, P!IsCurrent, PT!IsCurrent, P!DueRetries, PT!DueRetries,
    P!HoldsResources, PT!HoldsResources, P!RecordNodeResult, PT!RecordNodeResult,
    P!Freezable, PT!Freezable, P!ClearReconciliationFailure,
    PT!ClearReconciliationFailure, P!OperatorStep, PT!OperatorStep, P!Resume, PT!Resume,
    P!vars, PT!vars, P!DependencyClosure, PT!DependencyClosure, P!ReplanStep,
    PT!ReplanStep, P!LockedResources, PT!LockedResources, P!NodeState, PT!NodeState,
    P!Transitions, PT!Transitions, P!AllSucceeded, PT!AllSucceeded, P!Precedes,
    PT!Precedes, P!Picks, PT!Picks, P!Cardinality, PT!Cardinality,
    P!RecordReconciliationFailure, PT!RecordReconciliationFailure, P!ProductKeys,
    PT!ProductKeys, P!TTL, PT!TTL, P!Evidence, PT!Evidence, P!RecordNodeInput,
    PT!RecordNodeInput, P!CloseReconciliation, PT!CloseReconciliation,
    P!ReconcilePlanReference, PT!ReconcilePlanReference, P!IssueResume, PT!IssueResume,
    P!Conflict, PT!Conflict, P!ReclaimExpiredNode, PT!ReclaimExpiredNode, P!HoldsClaim,
    PT!HoldsClaim, P!HeartbeatNodeRun, PT!HeartbeatNodeRun, P!WithDependentsReady,
    PT!WithDependentsReady, P!FreezeStep, PT!FreezeStep, P!NewNode, PT!NewNode,
    P!BlockedByIncident, PT!BlockedByIncident, P!WithNewNodes, PT!WithNewNodes,
    P!Approve, PT!Approve, P!Tick, PT!Tick, P!Claim, PT!Claim, P!Promoted, PT!Promoted,
    P!CurrentNodes, PT!CurrentNodes, P!LoopsOrExhausted, PT!LoopsOrExhausted,
    P!Reusable, PT!Reusable, P!Schedulable, PT!Schedulable, P!ClaimReadyNodes,
    PT!ClaimReadyNodes, P!FreezePlan, PT!FreezePlan, P!ClaimNextReadyNodes,
    PT!ClaimNextReadyNodes, P!RefuseReplan, PT!RefuseReplan, P!ScheduleRetry,
    PT!ScheduleRetry, P!SubmitCommand, PT!SubmitCommand, P!Reject, PT!Reject,
    P!Reclaimable, PT!Reclaimable, P!WorkerStep, PT!WorkerStep, P!CloseNode,
    PT!CloseNode, P!ReconcileStep, PT!ReconcileStep, P!Versions, PT!Versions,
    P!ApplyImpactFreeze, PT!ApplyImpactFreeze, P!LastRun, PT!LastRun, P!PlanAfter,
    PT!PlanAfter, P!Resources, PT!Resources, P!IssueNodeCommand, PT!IssueNodeCommand,
    P!CreateReplanVersion, PT!CreateReplanVersion, P!HasRun, PT!HasRun,
    P!CreateOrResume, PT!CreateOrResume, P!Now, PT!Now, P!NewRun, PT!NewRun, P!Verdict,
    PT!Verdict, P!Dependencies, PT!Dependencies, P!Node, PT!Node, P!Resumable,
    PT!Resumable

-----------------------------------------------------------------------------
(* The invariant. *)

StoreInv == Fits /\ PT!StoreInv /\ PT!NodeInv /\ PT!SuccessIsComplete

\* An attempt that is being executed and that no event superseded.
Live(n) ==
    P!HasRun(n) /\ P!LastRun(n).state = "RUNNING" /\ P!LastRun(n).superseded_by = None

\* The clock stands still, and no lease runs out.
Leased == \A n \in P!Node : P!HasRun(n) => P!LastRun(n).lease_until > clock

\* No input is recorded here, so nothing can be reused.
NothingReused == \A n \in P!Node : ~node[n].reused

\* The products keep the next version from starting what an earlier one still
\* executes.
Apart ==
    \A m, n \in P!Node :
        m[1] = n[1] /\ m[3] = n[3] /\ m[2] < n[2] /\ P!Resources(m) # {} /\ Live(m)
        => ~P!HasRun(n)

\* A FAILED plan has a current node that will not succeed any more.
Stuck(p) ==
    \E n \in P!CurrentNodes(p) :
        /\ node[n].state # "SUCCEEDED"
        /\ P!HasRun(n) => node[n].state = "FAILED"
Fails == \A p \in Plans : planRun[p].state = "FAILED" => Stuck(p) \/ LateFailure(p)

BatchInv == Leased /\ NothingReused /\ Apart /\ Fails

\* Operators give RESUME commands only, about plans that exist.
OnlyResumes ==
    \A c \in CommandIds : command[c] # None =>
        command[c].type = "RESUME" /\ planRun[command[c].plan].state # "ABSENT"

\* What the processes remember.
MemoryType ==
    /\ checkpoint \in [Plans -> Reference \cup {None}]
    /\ graph \in [Graphs -> GraphRecord]
    /\ scan \in [Reconcilers -> ScanRecord]

\* A graph remembers a version that exists, and an end that is the plan's as long
\* as the version is.
GraphInv(g) ==
    LET j == graph[g] IN
    /\ j.pc \in {"drive", "save"} => j.version \in 1..planRun[j.plan].version
    /\ j.pc = "save" =>
          /\ j.status \in Ended
          /\ j.version = planRun[j.plan].version
             => planRun[j.plan].state = j.status \/ LateFailure(j.plan)

\* A reconciler looks at a plan that exists, and submits a command.
ScanInv(s) ==
    /\ scan[s].pc = "plan" => planRun[scan[s].plan].state # "ABSENT"
    /\ scan[s].pc = "submit" => scan[s].command \in CommandIds

MemoryInv ==
    /\ MemoryType
    /\ \A g \in Graphs : GraphInv(g)
    /\ \A s \in Reconcilers : ScanInv(s)
    /\ CheckpointsAreBehind

Inv == StoreInv /\ BatchInv /\ OnlyResumes /\ MemoryInv

\* What the invariant of the store says of its rows.
LEMMA StoreRows ==
    ASSUME StoreInv
    PROVE  /\ clock = 0 /\ clock \in P!Now
           /\ planRun \in [Plans -> P!PlanRunRecord]
           /\ node \in [P!Node -> P!NodeRecord]
           /\ runs \in [P!Node -> Seq(P!NodeRunRecord)]
           /\ command \in [CommandIds -> P!CommandRecord \cup {None}]
           /\ P!TypeOK
<1>1. PT!TypeOK
  BY DEF StoreInv, PT!StoreInv
<1>2. P!TypeOK
  BY <1>1, Zenon DEF P!TypeOK, PT!TypeOK, P!Clock, PT!Clock, P!PlanRunRecord, PT!PlanRunRecord,
     P!PlanState, PT!PlanState, P!VersionRecord, PT!VersionRecord, P!Node, PT!Node, P!Versions,
     PT!Versions, P!NodeRecord, PT!NodeRecord, P!NodeState, PT!NodeState, P!NodeRunRecord,
     PT!NodeRunRecord, P!CommandRecord, PT!CommandRecord, P!Reasons, PT!Reasons, P!CommandType,
     PT!CommandType
<1>3. clock = 0 /\ clock \in P!Now
  BY <1>2 DEF P!TypeOK, P!Clock, P!Now
<1> QED BY <1>2, <1>3 DEF P!TypeOK

\* And of those after a step.
LEMMA StoreTyped == StoreInv => P!TypeOK /\ planRun \in [Plans -> P!PlanRunRecord]
BY StoreRows

LEMMA StoreRowsNext ==
    ASSUME StoreInv'
    PROVE  planRun' \in [Plans -> P!PlanRunRecord] /\ P!TypeOK'
<1>1. StoreInv' => (P!TypeOK /\ planRun \in [Plans -> P!PlanRunRecord])'
  BY StoreTyped, PTL
<1> QED BY <1>1 DEF P!PlanRunRecord, P!PlanState

\* What there is to say of a node and its versions.
LEMMA NodeRows ==
    ASSUME StoreInv, NEW n \in P!Node
    PROVE  /\ n[1] \in Plans /\ n[2] \in 1..MaxVersion /\ n[3] \in KeysOf[n[1]]
           /\ n = <<n[1], n[2], n[3]>>
           /\ planRun[n[1]].version \in 0..MaxVersion
           /\ node[n] \in P!NodeRecord
           /\ Len(runs[n]) \in Nat /\ DOMAIN runs[n] = 1..Len(runs[n])
           /\ P!HasRun(n) => /\ Len(runs[n]) > 0 /\ P!LastRun(n) \in P!NodeRunRecord
                             /\ n[2] <= planRun[n[1]].version
           /\ node[n].state = "ABSENT" <=> planRun[n[1]].version < n[2]
           /\ P!HasRun(n) /\ P!LastRun(n).state \in {"RUNNING", "SUCCEEDED"}
                 => node[n].state = P!LastRun(n).state
           /\ node[n].state \in {"RUNNING", "SUCCEEDED"} /\ ~node[n].reused
                 => P!HasRun(n) /\ P!LastRun(n).state = node[n].state
<1>1. n[1] \in Plans /\ n[2] \in 1..MaxVersion /\ n[3] \in KeysOf[n[1]] /\ n = <<n[1], n[2], n[3]>>
  BY DEF P!Node, P!Versions
<1>2. planRun[n[1]].version \in 0..MaxVersion
  BY <1>1, StoreRows DEF P!PlanRunRecord
<1>3. runs[n] \in Seq(P!NodeRunRecord) /\ node[n] \in P!NodeRecord
  BY StoreRows
<1>4. Len(runs[n]) \in Nat /\ DOMAIN runs[n] = 1..Len(runs[n])
  BY <1>3, LenProperties
<1>5. P!HasRun(n) => Len(runs[n]) > 0 /\ P!LastRun(n) \in P!NodeRunRecord
  <2>1. P!HasRun(n) => Len(runs[n]) # 0
    BY <1>3, EmptySeq DEF P!HasRun
  <2> QED BY <1>3, <1>4, <2>1, ElementOfSeq DEF P!LastRun
<1>6. n \in PT!Node
  BY DEF P!Node, PT!Node, P!Versions, PT!Versions
<1>7. /\ node[n].state = "ABSENT" <=> planRun[n[1]].version < n[2]
      /\ P!HasRun(n) => node[n].state # "ABSENT"
  BY <1>6 DEF StoreInv, PT!StoreInv, PT!VersionsExist, PT!HasRun, P!HasRun
<1>8. /\ P!HasRun(n) /\ P!LastRun(n).state \in {"RUNNING", "SUCCEEDED"}
            => node[n].state = P!LastRun(n).state
      /\ node[n].state \in {"RUNNING", "SUCCEEDED"} /\ ~node[n].reused
            => P!HasRun(n) /\ P!LastRun(n).state = node[n].state
  BY <1>6 DEF StoreInv, PT!NodeInv, PT!NodeAgreesWithRun, PT!ExecutedStates, PT!HasRun, P!HasRun,
     PT!LastRun, P!LastRun
<1>9. P!HasRun(n) => n[2] <= planRun[n[1]].version
  BY <1>1, <1>2, <1>7
<1> QED BY <1>1, <1>2, <1>3, <1>4, <1>5, <1>7, <1>8, <1>9

-----------------------------------------------------------------------------
(* What each call does to the plans. *)

\* A plan that ended ends otherwise only by a replan or a late failure.
StoreKept ==
    \A p \in Plans :
        /\ planRun[p].version <= planRun'[p].version
        /\ planRun[p].state # "ABSENT" => planRun'[p].state # "ABSENT"
        /\ planRun[p].state \in Ended /\ planRun'[p].version = planRun[p].version
           => planRun'[p].state = planRun[p].state \/ LateFailure(p)'
        /\ LateFailure(p) => LateFailure(p)'

\* The node of a late failure stays as it is, if only current nodes change.
LEMMA FailureStays ==
    ASSUME NEW p \in Plans, LateFailure(p), StoreInv, planRun[p].version <= planRun'[p].version,
           planRun'[p].version \in Int,
           \A n \in P!Node : n[1] = p /\ n[2] < planRun[p].version /\ node[n].state = "FAILED"
              => runs'[n] = runs[n] /\ node'[n].state = "FAILED"
    PROVE  LateFailure(p)'
<1>1. PICK n \in P!Node :
        /\ n[1] = p /\ n[2] < planRun[p].version /\ P!Resources(n) = {}
        /\ node[n].state = "FAILED" /\ P!LastRun(n).superseded_by = None
  BY DEF LateFailure
<1>2. n[2] \in Int /\ planRun[p].version \in Int
  BY <1>1, NodeRows
<1>3. runs'[n] = runs[n] /\ node'[n].state = "FAILED" /\ n[2] < planRun'[p].version
  BY <1>1, <1>2
<1> QED BY <1>1, <1>3 DEF LateFailure, P!LastRun, P!Resources

\* Calls that pause, resume or report a plan.
LEMMA PauseCall ==
    ASSUME StoreInv, BatchInv, UNCHANGED <<clock, node, runs>>,
           planRun' \in [Plans -> P!PlanRunRecord],
           \A p \in Plans :
              /\ planRun'[p].version = planRun[p].version
              /\ \/ planRun'[p].state = planRun[p].state
                 \/ /\ planRun[p].state \in {"ACTIVE", "FROZEN"}
                    /\ planRun'[p].state \in {"ACTIVE", "FROZEN"}
    PROVE  BatchInv' /\ StoreKept
<1>1. \A p \in Plans : planRun[p].version \in Int
  BY StoreRows DEF P!PlanRunRecord
<1>2. \A p \in Plans : LateFailure(p) => LateFailure(p)'
  BY DEF LateFailure, P!LastRun, P!Resources
<1>3. StoreKept
  BY <1>1, <1>2 DEF StoreKept, Ended
<1>4. \A n \in P!Node : (P!HasRun(n) <=> P!HasRun(n)') /\ P!LastRun(n)' = P!LastRun(n)
                        /\ (Live(n) <=> Live(n)')
  BY DEF P!HasRun, P!LastRun, Live
<1>5. Leased' /\ NothingReused' /\ Apart'
  BY <1>4 DEF BatchInv, Leased, NothingReused, Apart, P!Resources
<1>6. Fails'
  <2> SUFFICES ASSUME NEW p \in Plans, planRun'[p].state = "FAILED"
               PROVE  Stuck(p)' \/ LateFailure(p)'
    BY DEF Fails
  <2>1. planRun[p].state = "FAILED" /\ P!CurrentNodes(p)' = P!CurrentNodes(p)
    BY DEF P!CurrentNodes
  <2>2. Stuck(p) => Stuck(p)'
    <3>1. \A n \in P!CurrentNodes(p) : n \in P!Node
      BY DEF P!CurrentNodes
    <3> QED BY <1>4, <2>1, <3>1 DEF Stuck
  <2> QED BY <1>2, <2>1, <2>2 DEF BatchInv, Fails
<1> QED BY <1>3, <1>5, <1>6 DEF BatchInv

\* Calls that give a plan a version.
LEMMA VersionCall ==
    ASSUME StoreInv, BatchInv, UNCHANGED <<clock, runs>>,
           NEW q \in Plans, NEW r, NEW t,
           planRun' = [planRun EXCEPT ![q] = r], r.state = "ACTIVE",
           r.version = planRun[q].version + 1, node' = P!WithNewNodes(q, r.version, {}, t)
    PROVE  BatchInv' /\ StoreKept
<1>1. \A p \in Plans : planRun[p].version \in Int
  BY StoreRows DEF P!PlanRunRecord
<1>2. /\ planRun'[q].version = planRun[q].version + 1 /\ planRun'[q].state = "ACTIVE"
      /\ \A p \in Plans \ {q} : planRun'[p] = planRun[p]
  BY StoreRows
<1>3. \A n \in P!Node : \/ node'[n] = node[n]
                        \/ n[2] = planRun[n[1]].version + 1 /\ ~node'[n].reused
  BY DEF P!WithNewNodes, P!NewNode
<1>4. \A p \in Plans : LateFailure(p) => LateFailure(p)'
  <2> SUFFICES ASSUME NEW p \in Plans, LateFailure(p) PROVE LateFailure(p)'
    OBVIOUS
  <2>1. planRun[p].version <= planRun'[p].version /\ planRun'[p].version \in Int
    BY <1>1, <1>2
  <2>2. \A n \in P!Node : n[1] = p /\ n[2] < planRun[p].version => node'[n] = node[n]
    BY <1>1, <1>3
  <2> QED BY <2>1, <2>2, FailureStays
<1>5. StoreKept
  BY <1>1, <1>2, <1>4 DEF StoreKept
<1>6. \A n \in P!Node : (P!HasRun(n) <=> P!HasRun(n)') /\ P!LastRun(n)' = P!LastRun(n)
                        /\ (Live(n) <=> Live(n)')
  BY DEF P!HasRun, P!LastRun, Live
<1>7. Leased' /\ NothingReused' /\ Apart'
  BY <1>3, <1>6 DEF BatchInv, Leased, NothingReused, Apart, P!Resources
<1>8. Fails'
  <2> SUFFICES ASSUME NEW p \in Plans, planRun'[p].state = "FAILED"
               PROVE  Stuck(p)' \/ LateFailure(p)'
    BY DEF Fails
  <2>1. p # q /\ planRun'[p] = planRun[p]
    BY <1>2
  <2>2. P!CurrentNodes(p)' = P!CurrentNodes(p)
    BY <2>1 DEF P!CurrentNodes
  <2>3. ASSUME NEW n \in P!CurrentNodes(p) PROVE node'[n] = node[n] /\ n \in P!Node
    BY <1>1, <1>3, <2>3 DEF P!CurrentNodes
  <2>4. Stuck(p) => Stuck(p)'
    BY <1>6, <2>2, <2>3 DEF Stuck
  <2> QED BY <1>4, <2>1, <2>4 DEF BatchInv, Fails
<1> QED BY <1>5, <1>7, <1>8 DEF BatchInv

\* A new run is the latest.
LEMMA RunAppended ==
    ASSUME StoreInv, NEW n \in P!Node, NEW r \in P!NodeRunRecord, runs'[n] = Append(runs[n], r)
    PROVE  P!HasRun(n)' /\ P!LastRun(n)' = r
<1>1. runs[n] \in Seq(P!NodeRunRecord)
  BY StoreRows
<1>2. Len(runs'[n]) = Len(runs[n]) + 1 /\ runs'[n][Len(runs[n]) + 1] = r /\ runs'[n] # <<>>
  BY <1>1, AppendProperties
<1> QED BY <1>2 DEF P!HasRun, P!LastRun

\* The latest run stays the latest when it is rewritten.
LEMMA RunRewritten ==
    ASSUME StoreInv, NEW n \in P!Node, NEW r \in P!NodeRunRecord, P!HasRun(n),
           runs'[n] = [runs[n] EXCEPT ![Len(runs[n])] = r]
    PROVE  P!HasRun(n)' /\ P!LastRun(n)' = r
<1>1. runs[n] \in Seq(P!NodeRunRecord)
  BY StoreRows
<1>2. Len(runs[n]) \in 1..Len(runs[n]) /\ Len(runs[n]) # 0
  BY NodeRows
<1>3. runs'[n] \in Seq(P!NodeRunRecord) /\ Len(runs'[n]) = Len(runs[n]) /\ runs'[n][Len(runs[n])] = r
  BY <1>1, <1>2, ExceptSeq
<1>4. runs'[n] # <<>>
  BY <1>2, <1>3, EmptySeq
<1> QED BY <1>3, <1>4 DEF P!HasRun, P!LastRun

\* A claim call picks nodes of the plan's current version whose products are free.
LEMMA ClaimCall ==
    ASSUME StoreInv, BatchInv, NEW q \in Plans, P!ClaimReadyNodes(q, clock)
    PROVE  BatchInv' /\ StoreKept
<1> DEFINE promoted   == P!Promoted({q}, clock)
           candidates == {n \in P!Schedulable({q}) : promoted[n].state = "READY"
                                                     /\ Len(runs[n]) < MaxRuns}
<1>1. planRun[q].state = "ACTIVE" /\ UNCHANGED <<clock, planRun>>
  BY Zenon DEF P!ClaimReadyNodes, P!Claim
<1>2. PICK S \in SUBSET candidates :
        /\ \A n \in S : P!Resources(n) \cap P!LockedResources(clock) = {}
        /\ node' = [n \in P!Node |-> IF n \in S THEN [promoted[n] EXCEPT !.state = "RUNNING"]
                                     ELSE promoted[n]]
        /\ runs' = [n \in P!Node |-> IF n \in S THEN Append(runs[n], P!NewRun(n, clock))
                                     ELSE runs[n]]
  BY Zenon DEF P!ClaimReadyNodes, P!Claim, P!Picks
<1>3. \A n \in P!Schedulable({q}) : n \in P!Node /\ n[1] = q /\ n[2] = planRun[q].version
  BY DEF P!Schedulable, P!CurrentNodes
<1>4. \A n \in S : n \in P!Node /\ n[1] = q /\ n[2] = planRun[q].version
  BY <1>2, <1>3
<1>5. ASSUME NEW n \in P!Node
      PROVE  /\ promoted[n] \in P!NodeRecord /\ promoted[n].reused = node[n].reused
             /\ n \notin P!Schedulable({q}) => promoted[n] = node[n]
  <2>1. promoted[n] = IF n \in P!DueRetries({q}, clock)
                      THEN [node[n] EXCEPT !.state = "READY", !.retry_at = None, !.ready_at = clock]
                      ELSE node[n]
    BY DEF P!Promoted
  <2>2. n \in P!DueRetries({q}, clock) => n \in P!Schedulable({q})
    BY DEF P!DueRetries
  <2>3. node[n] \in P!NodeRecord /\ clock \in Int
    BY NodeRows, StoreRows
  <2> HIDE DEF promoted
  <2> QED BY <2>1, <2>2, <2>3 DEF P!NodeRecord, P!NodeState
<1> HIDE DEF promoted, candidates
<1>6. ASSUME NEW n \in P!Node
      PROVE  /\ node'[n].reused = node[n].reused
             /\ n[1] # q \/ n[2] # planRun[q].version => node'[n] = node[n] /\ runs'[n] = runs[n]
  BY <1>2, <1>3, <1>4, <1>5 DEF P!NodeRecord
<1>7. ASSUME NEW n \in S
      PROVE  /\ P!HasRun(n)' /\ P!LastRun(n)'.lease_until > clock
  <2>1. P!NewRun(n, clock) \in P!NodeRunRecord /\ P!NewRun(n, clock).lease_until = clock + 1
    BY <1>4, NodeRows, StoreRows DEF P!NewRun, P!NodeRunRecord, P!NodeState
  <2> QED BY <1>2, <1>4, <2>1, RunAppended, StoreRows
<1>8. \A n \in P!Node \ S : /\ runs'[n] = runs[n] /\ P!HasRun(n)' = P!HasRun(n)
                            /\ P!LastRun(n)' = P!LastRun(n) /\ Live(n)' = Live(n)
  BY <1>2 DEF P!HasRun, P!LastRun, Live
<1>9. Leased' /\ NothingReused'
  BY <1>1, <1>6, <1>7, <1>8 DEF BatchInv, Leased, NothingReused
<1>10. Apart'
  <2> SUFFICES ASSUME NEW m \in P!Node, NEW n \in P!Node, m[1] = n[1], m[3] = n[3], m[2] < n[2],
                      P!Resources(m) # {}, Live(m)', P!HasRun(n)'
               PROVE  FALSE
    BY DEF Apart, P!Resources
  <2>1. m[2] \in Int /\ n[2] \in Int /\ planRun[n[1]].version \in Int
    BY NodeRows
  <2>2. CASE m \in S
    <3>1. n \notin S /\ ~P!HasRun(n)
      BY <1>4, <2>1, <2>2, NodeRows
    <3> QED BY <1>8, <3>1
  <2>3. CASE m \notin S /\ n \in S
    <3>1. Live(m) /\ P!LastRun(m).lease_until > clock
      BY <1>8, <2>3 DEF BatchInv, Leased, Live
    <3>2. P!Resources(m) \subseteq P!LockedResources(clock)
      BY <3>1 DEF P!LockedResources, P!HoldsResources, Live
    <3>3. P!Resources(m) = P!Resources(n)
      BY DEF P!Resources
    <3> QED BY <1>2, <2>3, <3>2, <3>3
  <2>4. CASE m \notin S /\ n \notin S
    BY <1>8, <2>4 DEF BatchInv, Apart
  <2> QED BY <2>2, <2>3, <2>4
<1>11. \A p \in Plans : LateFailure(p) => LateFailure(p)'
  <2> SUFFICES ASSUME NEW p \in Plans, LateFailure(p) PROVE LateFailure(p)'
    OBVIOUS
  <2>1. planRun[p].version \in Int
    BY StoreRows DEF P!PlanRunRecord
  <2>2. \A n \in P!Node : n[1] = p /\ n[2] < planRun[p].version
                          => node'[n] = node[n] /\ runs'[n] = runs[n]
    <3> SUFFICES ASSUME NEW n \in P!Node, n[1] = p, n[2] < planRun[p].version
                 PROVE  node'[n] = node[n] /\ runs'[n] = runs[n]
      OBVIOUS
    <3>1. n[2] # planRun[n[1]].version
      BY <2>1, NodeRows
    <3> QED BY <1>6, <3>1
  <2> QED BY <1>1, <2>1, <2>2, FailureStays
<1>12. StoreKept
  <2>1. \A p \in Plans : planRun[p].version \in Int
    BY StoreRows DEF P!PlanRunRecord
  <2> QED BY <1>1, <1>11, <2>1 DEF StoreKept
<1>13. Fails'
  <2> SUFFICES ASSUME NEW p \in Plans, planRun[p].state = "FAILED"
               PROVE  Stuck(p)' \/ LateFailure(p)'
    BY <1>1 DEF Fails
  <2>1. p # q
    BY <1>1
  <2>2. \A n \in P!CurrentNodes(p) : /\ node'[n] = node[n] /\ n \notin S /\ n \in P!Node
    BY <1>4, <1>6, <2>1 DEF P!CurrentNodes
  <2>3. P!CurrentNodes(p)' = P!CurrentNodes(p)
    BY <1>1 DEF P!CurrentNodes
  <2>4. Stuck(p) => Stuck(p)'
    BY <1>8, <2>2, <2>3 DEF Stuck
  <2> QED BY <1>11, <2>4 DEF BatchInv, Fails
<1> QED BY <1>9, <1>10, <1>12, <1>13 DEF BatchInv

\* A freeze marks attempts and stops what has not started, and no plan.
LEMMA FreezeCall ==
    ASSUME StoreInv, BatchInv, NEW q \in Plans, NEW e \in Events, NEW keys,
           P!ApplyImpactFreeze(q, planRun[q].version, e, keys, FALSE)
    PROVE  BatchInv' /\ StoreKept
<1> DEFINE affected == {n \in P!CurrentNodes(q) : n[3] \in keys}
<1>1. /\ planRun' = [planRun EXCEPT ![q].state = @]
      /\ runs' = [n \in P!Node |->
                     IF n \in affected /\ P!HasRun(n) /\ P!LastRun(n).superseded_by = None
                     THEN [runs[n] EXCEPT ![Len(runs[n])].superseded_by = e] ELSE runs[n]]
      /\ node' = [n \in P!Node |-> IF n \in affected /\ node[n].state \in P!Freezable
                                   THEN [node[n] EXCEPT !.state = "FROZEN"] ELSE node[n]]
      /\ clock' = clock
  BY Zenon DEF P!ApplyImpactFreeze
<1>2. \A n \in affected : n[1] = q /\ n[2] = planRun[q].version
  BY DEF P!CurrentNodes
<1> HIDE DEF affected
<1>3. planRun' = planRun
  BY <1>1, StoreRows DEF P!PlanRunRecord
<1>4. ASSUME NEW n \in P!Node
      PROVE  /\ node'[n].reused = node[n].reused
             /\ \/ node'[n].state = node[n].state
                \/ node[n].state \in P!Freezable /\ node'[n].state = "FROZEN"
             /\ n \notin affected => node'[n] = node[n] /\ runs'[n] = runs[n]
  <2>1. node[n] \in P!NodeRecord
    BY NodeRows
  <2>2. [node[n] EXCEPT !.state = "FROZEN"].state = "FROZEN"
        /\ [node[n] EXCEPT !.state = "FROZEN"].reused = node[n].reused
    BY <2>1 DEF P!NodeRecord
  <2> QED BY <1>1, <2>2
<1>5. ASSUME NEW n \in P!Node
      PROVE  /\ P!HasRun(n)' <=> P!HasRun(n)
             /\ Live(n)' => Live(n)
             /\ P!HasRun(n) => P!LastRun(n)'.lease_until = P!LastRun(n).lease_until
  <2>1. CASE runs'[n] = runs[n]
    BY <2>1 DEF P!HasRun, P!LastRun, Live
  <2>2. CASE n \in affected /\ P!HasRun(n) /\ P!LastRun(n).superseded_by = None
    <3> DEFINE r == [P!LastRun(n) EXCEPT !.superseded_by = e]
    <3>1. P!LastRun(n) \in P!NodeRunRecord
      BY <2>2, NodeRows
    <3>2. r \in P!NodeRunRecord /\ r.superseded_by = e /\ r.lease_until = P!LastRun(n).lease_until
      BY <3>1 DEF P!NodeRunRecord
    <3>3. runs'[n] = [runs[n] EXCEPT ![Len(runs[n])] = r]
      BY <1>1, <2>2 DEF P!LastRun
    <3> HIDE DEF r
    <3>4. P!HasRun(n)' /\ P!LastRun(n)' = r
      BY <2>2, <3>2, <3>3, RunRewritten
    <3>5. e # None
      BY DEF StoreInv, Fits, PlansFit
    <3> QED BY <2>2, <3>2, <3>4, <3>5 DEF Live
  <2> QED BY <1>1, <2>1, <2>2
<1>6. Leased' /\ NothingReused' /\ Apart'
  BY <1>1, <1>4, <1>5 DEF BatchInv, Leased, NothingReused, Apart, P!Resources
<1>7. \A p \in Plans : LateFailure(p) => LateFailure(p)'
  <2> SUFFICES ASSUME NEW p \in Plans, LateFailure(p) PROVE LateFailure(p)'
    OBVIOUS
  <2>1. planRun[p].version \in Int
    BY StoreRows DEF P!PlanRunRecord
  <2>2. \A n \in P!Node : n[1] = p /\ n[2] < planRun[p].version
                          => node'[n] = node[n] /\ runs'[n] = runs[n]
    BY <1>2, <1>4, <2>1
  <2> QED BY <1>3, <2>1, <2>2, FailureStays
<1>8. StoreKept
  <2>1. \A p \in Plans : planRun[p].version \in Int
    BY StoreRows DEF P!PlanRunRecord
  <2> QED BY <1>3, <1>7, <2>1 DEF StoreKept
<1>9. Fails'
  <2> SUFFICES ASSUME NEW p \in Plans, planRun[p].state = "FAILED"
               PROVE  Stuck(p)' \/ LateFailure(p)'
    BY <1>3 DEF Fails
  <2>1. P!CurrentNodes(p)' = P!CurrentNodes(p) /\ P!CurrentNodes(p) \subseteq P!Node
    BY <1>3 DEF P!CurrentNodes
  <2>2. Stuck(p) => Stuck(p)'
    BY <1>4, <1>5, <2>1 DEF Stuck, P!Freezable
  <2> QED BY <1>7, <2>2 DEF BatchInv, Fails
<1> QED BY <1>6, <1>8, <1>9 DEF BatchInv

\* A result closes its node; the plan may end, or end once more.
LEMMA CloseCall ==
    ASSUME StoreInv, BatchInv, NEW k \in P!Node, P!HasRun(k), NEW s \in Ended,
           P!RecordNodeResult(k, Len(runs[k]), s, clock)
    PROVE  BatchInv' /\ StoreKept
<1> DEFINE q      == k[1]
           closed == [node EXCEPT ![k].state = s]
           nodes  == IF s = "SUCCEEDED" THEN P!WithDependentsReady(closed, q, clock) ELSE closed
           late   == P!LastRun(k).superseded_by # None
<1>1. /\ P!LastRun(k).state = "RUNNING" /\ UNCHANGED clock
      /\ node' = nodes
      /\ runs' = [runs EXCEPT ![k][Len(runs[k])].state = s]
      /\ planRun' = [planRun EXCEPT ![q].state = P!PlanAfter(s, late, nodes, q)]
  BY DEF P!RecordNodeResult, P!HoldsClaim, P!CloseNode, P!LastRun
<1>2. /\ q \in Plans /\ node[k].state = "RUNNING" /\ k[2] \in 1..MaxVersion
      /\ k[2] <= planRun[q].version /\ planRun[q].version \in Int /\ node[k] \in P!NodeRecord
      /\ P!LastRun(k) \in P!NodeRunRecord /\ planRun[q] \in P!PlanRunRecord
      /\ k[3] \in KeysOf[q] /\ planRun[q].version \in 1..MaxVersion
  <2>1. planRun[k[1]] \in P!PlanRunRecord
    BY NodeRows, StoreRows
  <2> QED BY <1>1, <2>1, NodeRows
<1>3. /\ closed[k].state = s /\ closed[k].reused = node[k].reused
      /\ \A n \in P!Node \ {k} : closed[n] = node[n]
      /\ \A n \in P!Node : closed[n] \in P!NodeRecord
  <2>1. s \in P!NodeState
    BY DEF Ended, P!NodeState
  <2> QED BY <1>2, <2>1, StoreRows DEF P!NodeRecord
<1>4. /\ node'[k].state = s
      /\ \A n \in P!Node : node'[n].reused = node[n].reused
      /\ \A n \in P!Node \ {k} : \/ node'[n].state = node[n].state
                                 \/ node[n].state = "PENDING" /\ node'[n].state = "READY"
  <2>1. CASE s = "SUCCEEDED"
    <3>1. node' = P!WithDependentsReady(closed, q, clock)
      BY <1>1, <2>1
    <3> HIDE DEF closed
    <3>2. \A n \in P!Node :
            \/ node'[n] = closed[n]
            \/ closed[n].state = "PENDING" /\ node'[n].state = "READY" /\ node'[n].reused = closed[n].reused
      BY <1>3, <3>1 DEF P!WithDependentsReady, P!NodeRecord
    <3> QED BY <1>3, <2>1, <3>2
  <2>2. CASE s # "SUCCEEDED"
    BY <1>1, <1>3, <2>2
  <2> QED BY <2>1, <2>2
<1> DEFINE r == [P!LastRun(k) EXCEPT !.state = s]
<1>5. /\ P!HasRun(k)' /\ P!LastRun(k)' = r
      /\ \A n \in P!Node \ {k} : runs'[n] = runs[n]
  <2>1. s \in P!NodeState
    BY DEF Ended, P!NodeState
  <2>2. r \in P!NodeRunRecord
    BY <1>2, <2>1 DEF P!NodeRunRecord
  <2>3. runs'[k] = [runs[k] EXCEPT ![Len(runs[k])] = r]
    BY <1>1, StoreRows DEF P!LastRun
  <2>4. \A n \in P!Node \ {k} : runs'[n] = runs[n]
    BY <1>1, StoreRows
  <2> HIDE DEF r
  <2> QED BY <2>2, <2>3, <2>4, RunRewritten
<1>6. r.state = s /\ r.superseded_by = P!LastRun(k).superseded_by
      /\ r.lease_until = P!LastRun(k).lease_until
  BY <1>2 DEF P!NodeRunRecord
<1> HIDE DEF nodes, r
<1>7. \A n \in P!Node \ {k} : /\ P!HasRun(n)' <=> P!HasRun(n)
                              /\ P!LastRun(n)' = P!LastRun(n) /\ (Live(n)' <=> Live(n))
  BY <1>5 DEF P!HasRun, P!LastRun, Live
<1>8. ~Live(k)' /\ (late <=> P!LastRun(k)'.superseded_by # None)
  BY <1>5, <1>6 DEF Live, Ended
<1>9. Leased' /\ NothingReused' /\ Apart'
  BY <1>1, <1>4, <1>5, <1>6, <1>7, <1>8 DEF BatchInv, Leased, NothingReused, Apart, P!Resources
<1>10. /\ \A p \in Plans : planRun'[p].version = planRun[p].version
       /\ \A p \in Plans \ {q} : planRun'[p] = planRun[p]
       /\ planRun'[q].state = P!PlanAfter(s, late, nodes, q)
  BY <1>1, <1>2, StoreRows DEF P!PlanRunRecord
<1>11. \A p \in Plans : P!CurrentNodes(p)' = P!CurrentNodes(p)
  BY <1>10 DEF P!CurrentNodes
<1>12. \A p \in Plans : LateFailure(p) => LateFailure(p)'
  <2> SUFFICES ASSUME NEW p \in Plans, LateFailure(p) PROVE LateFailure(p)'
    OBVIOUS
  <2>1. planRun[p].version \in Int
    BY StoreRows DEF P!PlanRunRecord
  <2>2. \A n \in P!Node : node[n].state = "FAILED" => node'[n].state = "FAILED" /\ runs'[n] = runs[n]
    BY <1>2, <1>4, <1>5
  <2> QED BY <1>10, <2>1, <2>2, FailureStays
<1>13. \A p \in Plans : Stuck(p) => Stuck(p)'
  <2> SUFFICES ASSUME NEW p \in Plans, NEW n \in P!CurrentNodes(p), node[n].state # "SUCCEEDED",
                      P!HasRun(n) => node[n].state = "FAILED"
               PROVE  Stuck(p)'
    BY DEF Stuck
  <2>1. n \in P!Node /\ n # k
    BY <1>2 DEF P!CurrentNodes
  <2>2. node'[n].state # "SUCCEEDED" /\ (P!HasRun(n)' => node'[n].state = "FAILED")
    BY <1>4, <1>7, <2>1
  <2> QED BY <1>11, <2>2 DEF Stuck
<1>14. ASSUME Stuck(q), P!AllSucceeded(nodes, q) PROVE FALSE
  <2>1. Stuck(q)' /\ node' = nodes
    BY <1>1, <1>2, <1>13, <1>14 DEF nodes
  <2> QED BY <1>2, <1>11, <1>14, <2>1 DEF Stuck, P!AllSucceeded
<1>15. ASSUME s = "FAILED", ~late
       PROVE  LateFailure(q)' \/ (Stuck(q)' /\ planRun[q].state # "SUCCEEDED")
  <2>1. \A n \in P!CurrentNodes(q) : planRun[q].state = "SUCCEEDED" => node[n].state = "SUCCEEDED"
    <3>1. P!CurrentNodes(q) = PT!CurrentNodes(q)
      BY DEF P!CurrentNodes, PT!CurrentNodes, P!Node, PT!Node, P!Versions, PT!Versions
    <3> QED BY <1>2, <3>1 DEF StoreInv, PT!SuccessIsComplete
  <2>2. CASE k[2] = planRun[q].version
    <3>1. k \in P!CurrentNodes(q)
      BY <2>2 DEF P!CurrentNodes
    <3> QED BY <1>2, <1>4, <1>11, <1>15, <2>1, <3>1 DEF Stuck
  <2>3. CASE k[2] < planRun[q].version /\ P!Resources(k) = {}
    <3>1. k[2] < planRun'[q].version
      BY <1>2, <1>10, <2>3
    <3> QED BY <1>4, <1>8, <1>15, <2>3, <3>1 DEF LateFailure, P!Resources
  <2>4. CASE k[2] < planRun[q].version /\ P!Resources(k) # {}
    <3>0. PICK c \in P!Node : c = <<q, planRun[q].version, k[3]>>
      BY <1>2 DEF P!Node, P!Versions
    <3>1. c \in P!CurrentNodes(q) /\ c # k /\ k[1] = c[1] /\ k[3] = c[3] /\ k[2] < c[2]
      BY <1>2, <2>4, <3>0 DEF P!CurrentNodes
    <3>2. ~P!HasRun(c)
      BY <1>1, <1>15, <2>4, <3>1 DEF BatchInv, Apart, Live
    <3>3. node[c].state # "SUCCEEDED"
      BY <3>1, <3>2, NodeRows DEF BatchInv, NothingReused
    <3>4. node'[c].state # "SUCCEEDED" /\ ~P!HasRun(c)'
      BY <1>4, <1>7, <3>1, <3>2, <3>3
    <3> QED BY <1>2, <1>11, <2>1, <3>1, <3>3, <3>4 DEF Stuck
  <2> QED BY <1>2, <2>2, <2>3, <2>4
<1>16. \/ /\ s = "SUCCEEDED" /\ P!AllSucceeded(nodes, q)
          /\ planRun'[q].state = "SUCCEEDED"
       \/ s = "FAILED" /\ ~late /\ planRun'[q].state = "FAILED"
       \/ planRun'[q].state = planRun[q].state
  BY <1>10 DEF P!PlanAfter, Ended
<1> HIDE DEF late
<1>17. StoreKept
  <2> SUFFICES ASSUME NEW p \in Plans
               PROVE  /\ planRun[p].version <= planRun'[p].version
                      /\ planRun[p].state # "ABSENT" => planRun'[p].state # "ABSENT"
                      /\ planRun[p].state \in Ended
                         => planRun'[p].state = planRun[p].state \/ LateFailure(p)'
    BY <1>12 DEF StoreKept
  <2>1. planRun[p].version <= planRun'[p].version
    BY <1>10, StoreRows DEF P!PlanRunRecord
  <2>2. CASE p # q
    BY <1>10, <2>1, <2>2
  <2>3. CASE p = q
    <3>1. planRun[q].state = "FAILED" => Stuck(q) \/ LateFailure(q)'
      BY <1>2, <1>12 DEF BatchInv, Fails
    <3> QED BY <1>14, <1>15, <1>16, <2>1, <2>3, <3>1 DEF Ended
  <2> QED BY <2>2, <2>3
<1>18. Fails'
  <2> SUFFICES ASSUME NEW p \in Plans, planRun'[p].state = "FAILED"
               PROVE  Stuck(p)' \/ LateFailure(p)'
    BY DEF Fails
  <2>1. CASE planRun[p].state = "FAILED"
    BY <1>12, <1>13, <2>1 DEF BatchInv, Fails
  <2>2. CASE planRun[p].state # "FAILED"
    BY <1>10, <1>15, <1>16, <2>2
  <2> QED BY <2>1, <2>2
<1> QED BY <1>9, <1>17, <1>18 DEF BatchInv

-----------------------------------------------------------------------------
(* The calls of Reconciliation. *)

StoreCall ==
    \/ \E p \in Plans :
          \/ P!CreateOrResume(p) \/ P!ClaimReadyNodes(p, clock)
          \/ P!RecordReconciliationFailure(p) \/ P!ClearReconciliationFailure(p)
    \/ \E n \in P!Node, s \in Ended :
          P!HasRun(n) /\ P!RecordNodeResult(n, Len(runs[n]), s, clock)
    \/ \E p \in Plans, e \in Events : \E direct \in (SUBSET P!ProductKeys(p)) \ {{}} :
          P!ApplyImpactFreeze(p, planRun[p].version, e, P!DependencyClosure(p, direct), FALSE)
    \/ \E p \in Plans, e \in Events, s \in Signatures :
          P!CreateReplanVersion(p, planRun[p].version, s, {e}, {}, clock)
    \/ \E c \in CommandIds :
          P!SubmitCommand(c, clock) \/ \E p \in Plans : P!IssueResume(c, p)

\* A step calls the store at most once.
LEMMA NextCalls ==
    ASSUME Inv, [Next]_vars
    PROVE  StoreCall \/ UNCHANGED <<clock, store>>
<1>1. CASE UNCHANGED vars
  BY <1>1 DEF vars
<1>2. ASSUME NEW g \in Graphs,
             \/ \E p \in Plans : Invoke(g, p)
             \/ DriveToTerminal(g) \/ SaveCheckpoint(g) \/ GiveUp(g)
      PROVE  UNCHANGED <<clock, store>>
  BY <1>2 DEF Invoke, DriveToTerminal, SaveCheckpoint, GiveUp, NoStore
<1>3. ASSUME NEW g \in Graphs, OpenBatch(g) PROVE StoreCall \/ UNCHANGED <<clock, store>>
  <2>1. graph[g].plan \in Plans
    BY DEF Inv, MemoryInv, MemoryType, GraphRecord
  <2>2. P!CreateOrResume(graph[g].plan) \/ UNCHANGED <<clock, store>>
    BY <1>3, Zenon DEF OpenBatch, NoStore
  <2> QED BY <2>1, <2>2, Zenon DEF StoreCall
<1>4. ASSUME NEW s \in Reconcilers,
             \/ \E p \in Plans : Scan(s, p)
             \/ \E c \in CommandIds : ReceiveCommand(s, c)
             \/ ReadPlan(s) \/ ReadCheckpoint(s)
      PROVE  UNCHANGED <<clock, store>>
  BY <1>4 DEF Scan, ReceiveCommand, ReadPlan, ReadCheckpoint, NoStore
<1>5. ASSUME NEW s \in Reconcilers, Act(s) PROVE StoreCall \/ UNCHANGED <<clock, store>>
  <2>1. scan[s].plan \in Plans
    BY DEF Inv, MemoryInv, MemoryType, ScanRecord
  <2>2. \/ P!RecordReconciliationFailure(scan[s].plan) \/ P!ClearReconciliationFailure(scan[s].plan)
        \/ UNCHANGED <<clock, store>>
    BY <1>5, Zenon DEF Act, NoStore
  <2> QED BY <2>1, <2>2, Zenon DEF StoreCall
<1>6. ASSUME NEW s \in Reconcilers, Submit(s) PROVE StoreCall \/ UNCHANGED <<clock, store>>
  <2>1. scan[s].command \in CommandIds
    BY <1>6 DEF Inv, MemoryInv, ScanInv, Submit
  <2>2. P!SubmitCommand(scan[s].command, clock) \/ UNCHANGED <<clock, store>>
    BY <1>6, Zenon DEF Submit, NoStore
  <2> QED BY <2>1, <2>2, Zenon DEF StoreCall
<1>7. ASSUME WorkerStep PROVE StoreCall
  BY <1>7, Zenon DEF WorkerStep, StoreCall
<1>8. ASSUME NEW p \in Plans, NEW e \in Events, NEW direct \in (SUBSET P!ProductKeys(p)) \ {{}},
             SoldOut(p, e, direct)
      PROVE  StoreCall
  BY <1>8, Zenon DEF SoldOut, StoreCall
<1>9. ASSUME NEW p \in Plans, NEW e \in Events, NEW s \in Signatures, Replan(p, e, s)
      PROVE  StoreCall
  BY <1>9, Zenon DEF Replan, StoreCall
<1>10. ASSUME NEW p \in Plans, NEW c \in CommandIds, IssueResume(p, c) PROVE StoreCall
  BY <1>10, Zenon DEF IssueResume, StoreCall
<1>11. Services \subseteq Reconcilers
  BY DEF Inv, StoreInv, Fits
<1> QED BY <1>1, <1>2, <1>3, <1>4, <1>5, <1>6, <1>7, <1>8, <1>9, <1>10, <1>11 DEF Next, Reconcile

\* Every call is a step of the PlanStore.
LEMMA CallIsStep ==
    ASSUME Inv, StoreCall
    PROVE  P!Next
<1>0. clock = 0 /\ clock \in P!Now /\ clock \in 0..clock
  BY StoreRows DEF Inv
<1>1. ASSUME NEW p \in Plans, P!CreateOrResume(p) PROVE P!Next
  BY <1>1, Zenon DEF P!Next
<1>2. ASSUME NEW p \in Plans, P!ClaimReadyNodes(p, clock) PROVE P!Next
  BY <1>0, <1>2, Zenon DEF P!Next, P!WorkerStep
<1>3. ASSUME NEW p \in Plans, P!RecordReconciliationFailure(p) \/ P!ClearReconciliationFailure(p)
      PROVE  P!Next
  BY <1>3, Zenon DEF P!Next, P!ReconcileStep
<1>4. ASSUME NEW n \in P!Node, NEW s \in Ended, P!HasRun(n),
             P!RecordNodeResult(n, Len(runs[n]), s, clock)
      PROVE  P!Next
  <2>1. Len(runs[n]) \in DOMAIN runs[n]
    BY <1>4, NodeRows DEF Inv
  <2> QED BY <1>0, <1>4, <2>1, Zenon DEF P!Next, P!WorkerStep, Ended
<1>5. ASSUME NEW p \in Plans, planRun[p].version \notin P!Versions PROVE planRun[p].state = "ABSENT"
  <2>1. planRun[p].version = 0
    BY <1>5, StoreRows DEF Inv, P!PlanRunRecord, P!Versions
  <2> QED BY <2>1 DEF Inv, StoreInv, PT!StoreInv, PT!VersionsExist
<1>6. ASSUME NEW p \in Plans, NEW e \in Events, NEW direct \in (SUBSET P!ProductKeys(p)) \ {{}},
             P!ApplyImpactFreeze(p, planRun[p].version, e, P!DependencyClosure(p, direct), FALSE)
      PROVE  P!Next
  <2>1. planRun[p].state # "ABSENT"
    BY <1>6 DEF P!ApplyImpactFreeze
  <2> QED BY <1>5, <1>6, <2>1, Zenon DEF P!Next, P!FreezeStep
<1>7. ASSUME NEW p \in Plans, NEW e \in Events, NEW s \in Signatures,
             P!CreateReplanVersion(p, planRun[p].version, s, {e}, {}, clock)
      PROVE  P!Next
  <2>1. planRun[p].state # "ABSENT"
    BY <1>7 DEF P!CreateReplanVersion
  <2>2. {e} \in (SUBSET Events) \ {{}} /\ {} \in SUBSET P!ProductKeys(p)
    OBVIOUS
  <2> QED BY <1>0, <1>5, <1>7, <2>1, <2>2, Zenon DEF P!Next, P!ReplanStep
<1>8. ASSUME NEW c \in CommandIds, P!SubmitCommand(c, clock) \/ \E p \in Plans : P!IssueResume(c, p)
      PROVE  P!Next
  BY <1>0, <1>8, Zenon DEF P!Next, P!OperatorStep
<1> QED BY <1>1, <1>2, <1>3, <1>4, <1>6, <1>7, <1>8 DEF StoreCall

\* So the store is used as its specification says, and its invariant is kept.
LEMMA StoreSteps ==
    ASSUME Inv, [Next]_vars
    PROVE  [P!Next]_(P!vars) /\ StoreInv'
<1>1. [P!Next]_(P!vars)
  <2>1. CASE UNCHANGED <<clock, store>>
    BY <2>1 DEF store, P!vars
  <2> QED BY <2>1, NextCalls, CallIsStep
<1>2. [PT!Next]_(PT!vars)
  BY <1>1, SamePlanSteps
<1>3. PT!StoreInv'
  BY <1>2, PlanConstants, PT!StoreInvStep DEF Inv, StoreInv
<1>4. PT!NodeInv'
  BY <1>2, PlanConstants, PT!NodeInvStep DEF Inv, StoreInv
<1>5. PT!SuccessIsComplete'
  BY <1>2, PlanConstants, PT!CompletionStep DEF Inv, StoreInv
<1> QED BY <1>1, <1>3, <1>4, <1>5 DEF Inv, StoreInv

\* A command delivered here is RESUME: it touches no node.
LEMMA SubmitCall ==
    ASSUME Inv, NEW c \in CommandIds, P!SubmitCommand(c, clock), StoreInv'
    PROVE  BatchInv' /\ StoreKept
<1> DEFINE q == command[c].plan
<1>1. command[c].type = "RESUME" /\ q \in Plans
  <2>1. command[c] # None /\ command[c] \in P!CommandRecord \cup {None}
    BY StoreRows DEF Inv, P!SubmitCommand
  <2> QED BY <2>1 DEF Inv, OnlyResumes, P!CommandRecord
<1>2. /\ UNCHANGED <<clock, node, runs>>
      /\ \/ planRun' = planRun
         \/ P!Verdict(command[c], clock) = "ACCEPTED" /\ planRun' = [planRun EXCEPT ![q].state = "ACTIVE"]
  BY <1>1, Zenon DEF P!SubmitCommand, P!Resume
<1>3. P!Verdict(command[c], clock) = "ACCEPTED" => planRun[q].state = "FROZEN"
  BY <1>1 DEF P!Verdict, P!Resumable
<1>4. planRun' \in [Plans -> P!PlanRunRecord] /\ planRun \in [Plans -> P!PlanRunRecord]
  BY StoreRows, StoreRowsNext DEF Inv
<1> HIDE DEF q
<1>5. \A p \in Plans :
         /\ planRun'[p].version = planRun[p].version
         /\ \/ planRun'[p].state = planRun[p].state
            \/ /\ planRun[p].state \in {"ACTIVE", "FROZEN"}
               /\ planRun'[p].state \in {"ACTIVE", "FROZEN"}
  BY <1>1, <1>2, <1>3, <1>4 DEF P!PlanRunRecord
<1> QED BY <1>2, <1>4, <1>5, PauseCall DEF Inv

\* An incident pauses a plan; its end does nothing to it.
LEMMA IncidentCall ==
    ASSUME Inv, NEW q \in Plans, StoreInv',
           P!RecordReconciliationFailure(q) \/ P!ClearReconciliationFailure(q)
    PROVE  BatchInv' /\ StoreKept
<1>1. planRun' \in [Plans -> P!PlanRunRecord] /\ planRun \in [Plans -> P!PlanRunRecord]
  BY StoreRows, StoreRowsNext DEF Inv
<1>2. \A p \in Plans :
         /\ planRun'[p].version = planRun[p].version
         /\ \/ planRun'[p].state = planRun[p].state
            \/ /\ planRun[p].state \in {"ACTIVE", "FROZEN"}
               /\ planRun'[p].state \in {"ACTIVE", "FROZEN"}
  BY <1>1 DEF P!PlanRunRecord, P!RecordReconciliationFailure, P!ClearReconciliationFailure
<1>3. UNCHANGED <<clock, node, runs>>
  BY DEF P!RecordReconciliationFailure, P!ClearReconciliationFailure
<1> QED BY <1>1, <1>2, <1>3, PauseCall DEF Inv

\* Every step keeps the batches, and the ends of their plans.
LEMMA CallsKeepBatches ==
    ASSUME Inv, [Next]_vars
    PROVE  BatchInv' /\ StoreKept
<1>0. StoreInv' /\ StoreInv /\ BatchInv
  BY StoreSteps DEF Inv
<1>1. ASSUME UNCHANGED <<clock, planRun, node, runs>> PROVE BatchInv' /\ StoreKept
  BY <1>0, <1>1, PauseCall, StoreRowsNext
<1>2. CASE UNCHANGED <<clock, store>>
  BY <1>1, <1>2 DEF store
<1>3. ASSUME NEW p \in Plans, P!CreateOrResume(p) PROVE BatchInv' /\ StoreKept
  <2> DEFINE r == [state |-> "ACTIVE", version |-> 1, reconciliation_required |-> FALSE]
  <2>1. planRun[p].version = 0
    BY <1>0, <1>3 DEF StoreInv, PT!StoreInv, PT!VersionsExist, P!CreateOrResume
  <2>2. /\ planRun' = [planRun EXCEPT ![p] = r] /\ r.state = "ACTIVE" /\ r.version = 0 + 1
        /\ node' = P!WithNewNodes(p, r.version, {}, clock) /\ UNCHANGED <<clock, runs>>
    BY <1>3 DEF P!CreateOrResume
  <2> HIDE DEF r
  <2> QED BY <1>0, <2>1, <2>2, VersionCall
<1>4. ASSUME NEW p \in Plans, P!ClaimReadyNodes(p, clock) PROVE BatchInv' /\ StoreKept
  BY <1>0, <1>4, ClaimCall
<1>5. ASSUME NEW n \in P!Node, NEW s \in Ended, P!HasRun(n),
             P!RecordNodeResult(n, Len(runs[n]), s, clock)
      PROVE  BatchInv' /\ StoreKept
  BY <1>0, <1>5, CloseCall
<1>6. ASSUME NEW p \in Plans, NEW e \in Events, NEW keys,
             P!ApplyImpactFreeze(p, planRun[p].version, e, keys, FALSE)
      PROVE  BatchInv' /\ StoreKept
  BY <1>0, <1>6, FreezeCall
<1>7. ASSUME NEW p \in Plans, NEW e \in Events, NEW s \in Signatures,
             P!CreateReplanVersion(p, planRun[p].version, s, {e}, {}, clock)
      PROVE  BatchInv' /\ StoreKept
  <2> DEFINE r == [planRun[p] EXCEPT !.version = planRun[p].version + 1, !.state = "ACTIVE"]
  <2>1. planRun[p] \in P!PlanRunRecord
    BY <1>0, StoreRows
  <2>2. r.state = "ACTIVE" /\ r.version = planRun[p].version + 1
    BY <2>1 DEF P!PlanRunRecord
  <2>3. /\ planRun' = [planRun EXCEPT ![p] = r]
        /\ node' = P!WithNewNodes(p, planRun[p].version + 1, {}, clock) /\ UNCHANGED <<clock, runs>>
    BY <1>0, <1>7, StoreRows DEF P!CreateReplanVersion
  <2> HIDE DEF r
  <2> QED BY <1>0, <2>2, <2>3, VersionCall
<1>8. ASSUME NEW c \in CommandIds, NEW p \in Plans, P!IssueResume(c, p)
      PROVE  BatchInv' /\ StoreKept
  BY <1>1, <1>8 DEF P!IssueResume
<1>9. CASE StoreCall
  <2>1. ASSUME NEW p \in Plans, NEW e \in Events, NEW direct \in (SUBSET P!ProductKeys(p)) \ {{}},
               P!ApplyImpactFreeze(p, planRun[p].version, e, P!DependencyClosure(p, direct), FALSE)
        PROVE  BatchInv' /\ StoreKept
    BY <1>6, <2>1
  <2>2. ASSUME NEW c \in CommandIds, P!SubmitCommand(c, clock) PROVE BatchInv' /\ StoreKept
    BY <1>0, <2>2, SubmitCall
  <2>3. ASSUME NEW p \in Plans, P!RecordReconciliationFailure(p) \/ P!ClearReconciliationFailure(p)
        PROVE  BatchInv' /\ StoreKept
    BY <1>0, <2>3, IncidentCall
  <2> QED BY <1>3, <1>4, <1>5, <1>7, <1>8, <1>9, <2>1, <2>2, <2>3, Zenon DEF StoreCall
<1> QED BY <1>2, <1>9, NextCalls

\* Commands are given about plans that exist, and are RESUME.
LEMMA CallsKeepCommands ==
    ASSUME Inv, [Next]_vars
    PROVE  OnlyResumes'
<1>0. /\ \A p \in Plans : planRun[p].state # "ABSENT" => planRun'[p].state # "ABSENT"
      /\ command \in [CommandIds -> P!CommandRecord \cup {None}]
  BY CallsKeepBatches, StoreRows DEF StoreKept, Inv
<1>1. ASSUME UNCHANGED command PROVE OnlyResumes'
  <2> SUFFICES ASSUME NEW c \in CommandIds, command[c] # None
               PROVE  command[c].type = "RESUME" /\ planRun'[command[c].plan].state # "ABSENT"
    BY <1>1 DEF OnlyResumes
  <2>1. command[c].plan \in Plans
    BY <1>0 DEF P!CommandRecord
  <2> QED BY <1>0, <2>1 DEF Inv, OnlyResumes
<1>2. ASSUME NEW d \in CommandIds, NEW p \in Plans, P!IssueResume(d, p) PROVE OnlyResumes'
  <2> SUFFICES ASSUME NEW c \in CommandIds, command'[c] # None
               PROVE  command'[c].type = "RESUME" /\ planRun'[command'[c].plan].state # "ABSENT"
    BY DEF OnlyResumes
  <2>1. planRun[p].state = "FROZEN" /\ planRun' = planRun
    BY <1>2 DEF P!IssueResume
  <2>2. CASE c = d
    BY <1>0, <1>2, <2>1, <2>2 DEF P!IssueResume
  <2>3. CASE c # d
    <3>1. command'[c] = command[c]
      BY <1>0, <1>2, <2>3 DEF P!IssueResume
    <3> QED BY <2>1, <3>1 DEF Inv, OnlyResumes
  <2> QED BY <2>2, <2>3
<1>3. CASE UNCHANGED <<clock, store>>
  BY <1>1, <1>3 DEF store
<1>4. CASE StoreCall
  <2>1. ASSUME NEW p \in Plans,
               \/ P!CreateOrResume(p) \/ P!RecordReconciliationFailure(p)
               \/ P!ClearReconciliationFailure(p)
        PROVE  UNCHANGED command
    BY <2>1 DEF P!CreateOrResume, P!RecordReconciliationFailure, P!ClearReconciliationFailure
  <2>2. ASSUME NEW p \in Plans, P!ClaimReadyNodes(p, clock) PROVE UNCHANGED command
    BY <2>2, Zenon DEF P!ClaimReadyNodes, P!Claim
  <2>3. ASSUME NEW n \in P!Node, NEW s \in Ended, P!RecordNodeResult(n, Len(runs[n]), s, clock)
        PROVE  UNCHANGED command
    BY <2>3, Zenon DEF P!RecordNodeResult
  <2>4. ASSUME NEW p \in Plans, NEW e \in Events, NEW direct \in (SUBSET P!ProductKeys(p)) \ {{}},
               P!ApplyImpactFreeze(p, planRun[p].version, e, P!DependencyClosure(p, direct), FALSE)
        PROVE  UNCHANGED command
    BY <2>4, Zenon DEF P!ApplyImpactFreeze
  <2>5. ASSUME NEW p \in Plans, NEW e \in Events, NEW s \in Signatures,
               P!CreateReplanVersion(p, planRun[p].version, s, {e}, {}, clock)
        PROVE  UNCHANGED command
    BY <2>5, Zenon DEF P!CreateReplanVersion
  <2>6. ASSUME NEW c \in CommandIds, P!SubmitCommand(c, clock) PROVE UNCHANGED command
    BY <2>6, Zenon DEF P!SubmitCommand
  <2> QED BY <1>1, <1>2, <1>4, <2>1, <2>2, <2>3, <2>4, <2>5, <2>6, Zenon DEF StoreCall
<1> QED BY <1>3, <1>4, NextCalls

-----------------------------------------------------------------------------
(* What the processes remember. *)

\* What a reference says of the current version is so.
Behind(p) ==
    checkpoint[p] # None =>
        /\ checkpoint[p].version <= planRun[p].version
        /\ checkpoint[p].version = planRun[p].version
           => planRun[p].state = checkpoint[p].position \/ LateFailure(p)

\* A step makes nothing untrue that a graph, a reference or a reconciler holds.
LEMMA GraphStays ==
    ASSUME Inv, StoreKept, StoreInv', NEW g \in Graphs, graph'[g] = graph[g]
    PROVE  GraphInv(g)'
<1>1. PICK j \in GraphRecord : j = graph[g]
  BY DEF Inv, MemoryInv, MemoryType
<1>2. j.plan \in Plans
  BY <1>1 DEF GraphRecord
<1>3. planRun[j.plan].version \in Int /\ planRun'[j.plan].version \in Int
  BY <1>2, StoreRows, StoreRowsNext DEF Inv, P!PlanRunRecord
<1>4. /\ planRun[j.plan].version <= planRun'[j.plan].version
      /\ planRun[j.plan].state \in Ended /\ planRun'[j.plan].version = planRun[j.plan].version
            => planRun'[j.plan].state = planRun[j.plan].state \/ LateFailure(j.plan)'
      /\ LateFailure(j.plan) => LateFailure(j.plan)'
  BY <1>2 DEF StoreKept
<1>5. /\ j.pc \in {"drive", "save"} => j.version \in 1..planRun[j.plan].version
      /\ j.pc = "save" =>
            /\ j.status \in Ended
            /\ j.version = planRun[j.plan].version
               => planRun[j.plan].state = j.status \/ LateFailure(j.plan)
  BY <1>1 DEF Inv, MemoryInv, GraphInv
<1>6. /\ j.pc \in {"drive", "save"} => j.version \in 1..planRun'[j.plan].version
      /\ j.pc = "save" =>
            /\ j.status \in Ended
            /\ j.version = planRun'[j.plan].version
               => planRun'[j.plan].state = j.status \/ LateFailure(j.plan)'
  BY <1>3, <1>4, <1>5
<1> QED BY <1>1, <1>6 DEF GraphInv

LEMMA ReferenceStays ==
    ASSUME Inv, StoreKept, StoreInv', NEW p \in Plans, checkpoint'[p] = checkpoint[p]
    PROVE  Behind(p)'
<1> SUFFICES ASSUME checkpoint[p] # None PROVE Behind(p)'
  BY DEF Behind
<1>1. PICK r \in Reference : r = checkpoint[p]
  BY DEF Inv, MemoryInv, MemoryType
<1>2. r.version \in Int /\ r.position \in Ended
  BY <1>1 DEF Reference, P!Versions
<1>3. planRun[p].version \in Int /\ planRun'[p].version \in Int
  BY StoreRows, StoreRowsNext DEF Inv, P!PlanRunRecord
<1>4. /\ r.version <= planRun[p].version
      /\ r.version = planRun[p].version => planRun[p].state = r.position \/ LateFailure(p)
  BY <1>1 DEF Inv, MemoryInv, CheckpointsAreBehind
<1>5. /\ r.version <= planRun'[p].version
      /\ r.version = planRun'[p].version => planRun'[p].state = r.position \/ LateFailure(p)'
  BY <1>2, <1>3, <1>4 DEF StoreKept
<1> QED BY <1>1, <1>5 DEF Behind

LEMMA ScanStays ==
    ASSUME Inv, StoreKept, NEW s \in Reconcilers, scan'[s] = scan[s]
    PROVE  ScanInv(s)'
<1>1. scan[s].plan \in Plans
  BY DEF Inv, MemoryInv, MemoryType, ScanRecord
<1> QED BY <1>1 DEF Inv, MemoryInv, ScanInv, StoreKept

\* A step of one graph.
LEMMA GraphMoves ==
    ASSUME Inv, StoreKept, StoreInv', NEW g \in Graphs, NEW j \in GraphRecord,
           graph' = [graph EXCEPT ![g] = j], GraphInv(g)',
           UNCHANGED <<checkpoint, scan>>
    PROVE  MemoryInv'
<1>1. MemoryType'
  BY DEF Inv, MemoryInv, MemoryType
<1>2. \A h \in Graphs : GraphInv(h)'
  BY GraphStays DEF Inv, MemoryInv, MemoryType
<1>3. \A s \in Reconcilers : ScanInv(s)'
  BY ScanStays
<1>4. CheckpointsAreBehind'
  BY ReferenceStays DEF CheckpointsAreBehind, Behind
<1> QED BY <1>1, <1>2, <1>3, <1>4 DEF MemoryInv

\* A step of one reconciler.
LEMMA ScanMoves ==
    ASSUME Inv, StoreKept, StoreInv', NEW s \in Reconcilers, NEW j \in ScanRecord,
           scan' = [scan EXCEPT ![s] = j], ScanInv(s)',
           UNCHANGED <<checkpoint, graph>>
    PROVE  MemoryInv'
<1>1. MemoryType'
  BY DEF Inv, MemoryInv, MemoryType
<1>2. \A h \in Graphs : GraphInv(h)'
  BY GraphStays
<1>3. \A r \in Reconcilers : ScanInv(r)'
  BY ScanStays DEF Inv, MemoryInv, MemoryType
<1>4. CheckpointsAreBehind'
  BY ReferenceStays DEF CheckpointsAreBehind, Behind
<1> QED BY <1>1, <1>2, <1>3, <1>4 DEF MemoryInv

\* A step of something else.
LEMMA OthersMove ==
    ASSUME Inv, StoreKept, StoreInv', UNCHANGED <<checkpoint, graph, scan>>
    PROVE  MemoryInv'
<1>1. MemoryType'
  BY DEF Inv, MemoryInv, MemoryType
<1>2. (\A h \in Graphs : GraphInv(h)') /\ (\A s \in Reconcilers : ScanInv(s)')
  BY GraphStays, ScanStays
<1>3. CheckpointsAreBehind'
  BY ReferenceStays DEF CheckpointsAreBehind, Behind
<1> QED BY <1>1, <1>2, <1>3 DEF MemoryInv

\* What idle processes remember.
LEMMA IdleTypes ==
    ASSUME Fits
    PROVE  /\ GraphIdle \in GraphRecord /\ GraphIdle.pc = "idle"
           /\ ScanIdle \in ScanRecord /\ ScanIdle.pc = "idle"
<1>1. AnyPlan \in Plans
  <2>1. \E p \in Plans : TRUE
    BY DEF Fits
  <2> QED BY <2>1 DEF AnyPlan
<1>2. MaxVersion \in Nat
  BY DEF Fits, PlansFit
<1> QED BY <1>1, <1>2 DEF GraphIdle, GraphRecord, ScanIdle, ScanRecord, P!PlanState

\* The graph.
LEMMA GraphKeepsMemory ==
    ASSUME Inv, StoreKept, StoreInv', NEW g \in Graphs,
           \/ \E p \in Plans : Invoke(g, p)
           \/ OpenBatch(g) \/ DriveToTerminal(g) \/ SaveCheckpoint(g) \/ GiveUp(g)
    PROVE  MemoryInv'
<1>0. /\ graph \in [Graphs -> GraphRecord] /\ graph[g] \in GraphRecord
      /\ checkpoint \in [Plans -> Reference \cup {None}]
      /\ GraphIdle \in GraphRecord /\ GraphIdle.pc = "idle"
  BY IdleTypes DEF Inv, StoreInv, MemoryInv, MemoryType
<1>1. ASSUME NEW p \in Plans, Invoke(g, p) PROVE MemoryInv'
  <2> DEFINE j == [GraphIdle EXCEPT !.pc = "open", !.plan = p]
  <2>1. j \in GraphRecord /\ j.pc = "open"
    BY <1>0 DEF GraphRecord
  <2>2. graph' = [graph EXCEPT ![g] = j] /\ checkpoint' = [checkpoint EXCEPT ![p] = None] /\ scan' = scan
    BY <1>1 DEF Invoke
  <2> HIDE DEF j
  <2>3. MemoryType'
    BY <1>0, <2>1, <2>2 DEF Inv, MemoryInv, MemoryType
  <2>4. GraphInv(g)'
    BY <1>0, <2>1, <2>2 DEF GraphInv
  <2>5. \A h \in Graphs : GraphInv(h)'
    BY <1>0, <2>2, <2>4, GraphStays
  <2>6. \A q \in Plans : Behind(q)'
    <3>1. Behind(p)'
      BY <1>0, <2>2 DEF Behind
    <3> QED BY <1>0, <2>2, <3>1, ReferenceStays
  <2>7. \A s \in Reconcilers : ScanInv(s)'
    BY <2>2, ScanStays
  <2> QED BY <2>3, <2>5, <2>6, <2>7 DEF MemoryInv, CheckpointsAreBehind, Behind
<1>2. CASE OpenBatch(g)
  <2>1. PICK p \in Plans : p = graph[g].plan
    BY <1>0 DEF GraphRecord
  <2>2. PICK v : v = planRun'[p].version
    OBVIOUS
  <2> DEFINE j == [graph[g] EXCEPT !.pc = "drive", !.version = v]
  <2>3. /\ P!CreateOrResume(p) \/ (planRun[p].state # "ABSENT" /\ UNCHANGED <<clock, store>>)
        /\ graph' = [graph EXCEPT ![g].pc = "drive", ![g].version = v]
        /\ UNCHANGED <<checkpoint, scan>>
    BY <1>2, <2>1, <2>2, Zenon DEF OpenBatch, NoStore
  <2>4. v \in 0..MaxVersion /\ v \in 1..v
    <3>1. planRun'[p].state # "ABSENT"
      <4>1. CASE P!CreateOrResume(p)
        BY <4>1, StoreRows DEF Inv, P!CreateOrResume
      <4>2. CASE planRun[p].state # "ABSENT"
        BY <4>2 DEF StoreKept
      <4> QED BY <2>3, <4>1, <4>2
    <3>2. planRun'[p] \in P!PlanRunRecord /\ v # 0
      BY <2>2, <3>1, StoreRowsNext DEF StoreInv, PT!StoreInv, PT!VersionsExist
    <3> QED BY <2>2, <3>2 DEF P!PlanRunRecord
  <2>5. j \in GraphRecord /\ j.pc = "drive" /\ j.version = v /\ j.plan = p
    BY <1>0, <2>1, <2>4 DEF GraphRecord
  <2>6. graph' = [graph EXCEPT ![g] = j]
    BY <1>0, <2>3
  <2> HIDE DEF j
  <2>7. GraphInv(g)'
    BY <1>0, <2>2, <2>4, <2>5, <2>6 DEF GraphInv
  <2> QED BY <2>3, <2>5, <2>6, <2>7, GraphMoves
<1>3. CASE DriveToTerminal(g)
  <2>1. PICK p \in Plans : p = graph[g].plan
    BY <1>0 DEF GraphRecord
  <2>2. PICK e \in Ended : e = planRun[p].state
    BY <1>3, <2>1 DEF DriveToTerminal
  <2> DEFINE j == [graph[g] EXCEPT !.pc = "save", !.status = e]
  <2>3. /\ graph[g].pc = "drive" /\ planRun[p].version = graph[g].version /\ UNCHANGED <<clock, store>>
        /\ graph' = [graph EXCEPT ![g].pc = "save", ![g].status = e]
        /\ UNCHANGED <<checkpoint, scan>>
    BY <1>3, <2>1, <2>2 DEF DriveToTerminal, NoStore
  <2>4. graph[g].version \in 1..planRun[p].version
    BY <2>1, <2>3 DEF Inv, MemoryInv, GraphInv
  <2>5. /\ j \in GraphRecord /\ j.pc = "save" /\ j.version = graph[g].version /\ j.plan = p
        /\ j.status = e
    BY <1>0, <2>1 DEF GraphRecord
  <2>6. graph' = [graph EXCEPT ![g] = j]
    BY <1>0, <2>3
  <2> HIDE DEF j
  <2>7. GraphInv(g)'
    BY <1>0, <2>2, <2>3, <2>4, <2>5, <2>6 DEF GraphInv, store
  <2> QED BY <2>3, <2>5, <2>6, <2>7, GraphMoves
<1>4. CASE SaveCheckpoint(g)
  <2>1. PICK j \in GraphRecord : j = graph[g]
    BY <1>0
  <2> DEFINE r == [version |-> j.version, position |-> j.status]
             p == j.plan
  <2>2. /\ j.pc = "save" /\ checkpoint' = [checkpoint EXCEPT ![p] = r]
        /\ graph' = [graph EXCEPT ![g] = GraphIdle] /\ scan' = scan /\ UNCHANGED <<clock, store>>
    BY <1>4, <2>1 DEF SaveCheckpoint, NoStore
  <2>3. /\ p \in Plans /\ j.version \in 1..planRun[p].version /\ j.status \in Ended
        /\ j.version = planRun[p].version => planRun[p].state = j.status \/ LateFailure(p)
    BY <2>1, <2>2 DEF GraphRecord, Inv, MemoryInv, GraphInv
  <2>4. planRun[p].version \in 0..MaxVersion
    BY <2>3, StoreRows DEF Inv, P!PlanRunRecord
  <2>5. r \in Reference /\ r.version = j.version /\ r.position = j.status
    BY <2>3, <2>4 DEF Reference, P!Versions, Inv, StoreInv, Fits, PlansFit
  <2> HIDE DEF r, p
  <2>6. MemoryType'
    BY <1>0, <2>2, <2>5 DEF Inv, MemoryInv, MemoryType
  <2>7. \A h \in Graphs : GraphInv(h)'
    <3>1. GraphInv(g)'
      BY <1>0, <2>2 DEF GraphInv
    <3> QED BY <1>0, <2>2, <3>1, GraphStays
  <2>8. \A q \in Plans : Behind(q)'
    <3>1. Behind(p)'
      <4>1. checkpoint'[p] = r /\ planRun' = planRun /\ LateFailure(p)' = LateFailure(p)
        BY <1>0, <2>2, <2>3 DEF store, LateFailure, P!LastRun, P!Resources
      <4> QED BY <2>3, <2>4, <2>5, <4>1 DEF Behind
    <3> QED BY <1>0, <2>2, <3>1, ReferenceStays
  <2>9. \A s \in Reconcilers : ScanInv(s)'
    BY <2>2, ScanStays
  <2> QED BY <2>6, <2>7, <2>8, <2>9 DEF MemoryInv, CheckpointsAreBehind, Behind
<1>5. CASE GiveUp(g)
  <2>1. graph' = [graph EXCEPT ![g] = GraphIdle] /\ UNCHANGED <<checkpoint, scan>>
    BY <1>5 DEF GiveUp
  <2>2. GraphInv(g)'
    BY <1>0, <2>1 DEF GraphInv
  <2> QED BY <1>0, <2>1, <2>2, GraphMoves
<1> QED BY <1>1, <1>2, <1>3, <1>4, <1>5

\* The reconcilers.
LEMMA ScanKeepsMemory ==
    ASSUME Inv, StoreKept, StoreInv', NEW s \in Reconcilers,
           \/ \E p \in Plans : Scan(s, p)
           \/ \E c \in CommandIds : ReceiveCommand(s, c)
           \/ Reconcile(s)
    PROVE  MemoryInv'
<1>0. /\ scan \in [Reconcilers -> ScanRecord] /\ scan[s] \in ScanRecord
      /\ ScanIdle \in ScanRecord /\ ScanIdle.pc = "idle"
  BY IdleTypes DEF Inv, StoreInv, MemoryInv, MemoryType
<1>1. ASSUME NEW p \in Plans, Scan(s, p) PROVE MemoryInv'
  <2> DEFINE j == [ScanIdle EXCEPT !.pc = "plan", !.plan = p]
  <2>1. j \in ScanRecord /\ j.pc = "plan" /\ j.plan = p
    BY <1>0 DEF ScanRecord
  <2>2. scan' = [scan EXCEPT ![s] = j] /\ UNCHANGED <<checkpoint, graph, clock, store>>
    BY <1>1 DEF Scan, NoStore
  <2>3. planRun[p].state # "ABSENT"
    BY <1>1 DEF Scan, Listed
  <2> HIDE DEF j
  <2>4. ScanInv(s)'
    BY <1>0, <2>1, <2>2, <2>3 DEF ScanInv, store
  <2> QED BY <2>1, <2>2, <2>4, ScanMoves
<1>2. ASSUME NEW c \in CommandIds, ReceiveCommand(s, c) PROVE MemoryInv'
  <2>1. PICK p \in Plans : p = command[c].plan /\ planRun[p].state # "ABSENT"
    <3>1. command[c] \in P!CommandRecord
      BY <1>2, StoreRows DEF Inv, ReceiveCommand
    <3> QED BY <1>2, <3>1 DEF Inv, OnlyResumes, ReceiveCommand, P!CommandRecord
  <2> DEFINE j == [ScanIdle EXCEPT !.pc = "plan", !.plan = p, !.command = c]
  <2>2. j \in ScanRecord /\ j.pc = "plan" /\ j.plan = p
    BY <1>0 DEF ScanRecord
  <2>3. scan' = [scan EXCEPT ![s] = j] /\ UNCHANGED <<checkpoint, graph, clock, store>>
    BY <1>2, <2>1 DEF ReceiveCommand, NoStore
  <2> HIDE DEF j
  <2>4. ScanInv(s)'
    BY <1>0, <2>1, <2>2, <2>3 DEF ScanInv, store
  <2> QED BY <2>2, <2>3, <2>4, ScanMoves
<1>3. CASE ReadPlan(s)
  <2>1. PICK row \in P!PlanRunRecord : row = planRun[scan[s].plan] /\ row.state # "ABSENT"
    <3>1. scan[s].plan \in Plans /\ scan[s].pc = "plan"
      BY <1>0, <1>3 DEF ScanRecord, ReadPlan
    <3> QED BY <3>1, StoreRows DEF Inv, MemoryInv, ScanInv
  <2> DEFINE j == [scan[s] EXCEPT !.pc = "checkpoint", !.state = row.state,
                                  !.version = row.version, !.required = row.reconciliation_required]
  <2>2. j \in ScanRecord /\ j.pc = "checkpoint"
    BY <1>0, <2>1 DEF ScanRecord, P!PlanRunRecord
  <2>3. scan' = [scan EXCEPT ![s] = j] /\ UNCHANGED <<checkpoint, graph>>
    BY <1>0, <1>3, <2>1 DEF ReadPlan
  <2> HIDE DEF j
  <2>4. ScanInv(s)'
    BY <1>0, <2>2, <2>3 DEF ScanInv
  <2> QED BY <2>2, <2>3, <2>4, ScanMoves
<1>4. CASE ReadCheckpoint(s)
  <2>1. PICK verdict \in {None, "RECORD", "CLEAR", "NOTHING"} :
          verdict = Verdict(checkpoint[scan[s].plan], scan[s])
    BY DEF Verdict
  <2> DEFINE j == [ScanIdle EXCEPT !.pc = "act", !.plan = scan[s].plan,
                                   !.command = scan[s].command, !.verdict = verdict]
  <2>2. j \in ScanRecord /\ j.pc = "act"
    BY <1>0 DEF ScanRecord
  <2>3. scan' = [scan EXCEPT ![s] = j] /\ UNCHANGED <<checkpoint, graph>>
    BY <1>4, <2>1 DEF ReadCheckpoint
  <2> HIDE DEF j
  <2>4. ScanInv(s)'
    BY <1>0, <2>2, <2>3 DEF ScanInv
  <2> QED BY <2>2, <2>3, <2>4, ScanMoves
<1>5. CASE Act(s)
  <2> DEFINE submits == [ScanIdle EXCEPT !.pc = "submit", !.plan = scan[s].plan,
                                         !.command = scan[s].command]
             j == IF scan[s].command = None THEN ScanIdle ELSE submits
  <2>1. /\ submits \in ScanRecord /\ submits.pc = "submit" /\ submits.command = scan[s].command
        /\ scan[s].command \in CommandIds \cup {None}
    BY <1>0 DEF ScanRecord
  <2>2. scan' = [scan EXCEPT ![s] = j] /\ UNCHANGED <<checkpoint, graph>>
    BY <1>5, Zenon DEF Act
  <2> HIDE DEF submits
  <2>3. j \in ScanRecord /\ j.pc # "plan" /\ (j.pc = "submit" => j.command \in CommandIds)
    BY <1>0, <2>1
  <2> HIDE DEF j
  <2>4. ScanInv(s)'
    BY <1>0, <2>2, <2>3 DEF ScanInv
  <2> QED BY <2>2, <2>3, <2>4, ScanMoves
<1>6. CASE Submit(s)
  <2>1. scan' = [scan EXCEPT ![s] = ScanIdle] /\ UNCHANGED <<checkpoint, graph>>
    BY <1>6, Zenon DEF Submit
  <2>2. ScanInv(s)'
    BY <1>0, <2>1 DEF ScanInv
  <2> QED BY <1>0, <2>1, <2>2, ScanMoves
<1> QED BY <1>1, <1>2, <1>3, <1>4, <1>5, <1>6 DEF Reconcile

LEMMA MemoryStep ==
    ASSUME Inv, [Next]_vars
    PROVE  MemoryInv'
<1>0. StoreKept /\ StoreInv' /\ Services \subseteq Reconcilers
  BY StoreSteps, CallsKeepBatches DEF Inv, StoreInv, Fits
<1>1. ASSUME NEW g \in Graphs,
             \/ \E p \in Plans : Invoke(g, p)
             \/ OpenBatch(g) \/ DriveToTerminal(g) \/ SaveCheckpoint(g) \/ GiveUp(g)
      PROVE  MemoryInv'
  BY <1>0, <1>1, GraphKeepsMemory
<1>2. ASSUME NEW s \in Reconcilers,
             \/ \E p \in Plans : Scan(s, p)
             \/ \E c \in CommandIds : ReceiveCommand(s, c)
             \/ Reconcile(s)
      PROVE  MemoryInv'
  BY <1>0, <1>2, ScanKeepsMemory
<1>3. CASE \/ WorkerStep
           \/ \E p \in Plans, e \in Events :
                 \E direct \in (SUBSET P!ProductKeys(p)) \ {{}} : SoldOut(p, e, direct)
           \/ \E p \in Plans, e \in Events, s \in Signatures : Replan(p, e, s)
           \/ \E p \in Plans, c \in CommandIds : IssueResume(p, c)
           \/ UNCHANGED vars
  <2>1. UNCHANGED <<checkpoint, graph, scan>>
    BY <1>3, Zenon DEF WorkerStep, SoldOut, Replan, IssueResume, vars
  <2> QED BY <1>0, <2>1, OthersMove
<1> QED BY <1>0, <1>1, <1>2, <1>3 DEF Next

-----------------------------------------------------------------------------
(* The theorems. *)

LEMMA InvInit ==
    ASSUME Fits, Init
    PROVE  Inv
<1>1. PT!Init
  BY SameInit DEF Init
<1>2. StoreInv
  <2>1. PT!SuccessIsComplete
    BY <1>1, PlanConstants DEF PT!Init, PT!SuccessIsComplete, PT!AbsentPlan
  <2> QED BY <1>1, <2>1, PlanConstants, PT!StoreInvInit, PT!NodeInvInit DEF StoreInv
<1>3. /\ \A n \in P!Node : ~P!HasRun(n) /\ ~node[n].reused
      /\ \A p \in Plans : planRun[p].state = "ABSENT"
      /\ \A c \in CommandIds : command[c] = None
  BY DEF Init, P!Init, P!HasRun, P!AbsentNode, P!AbsentPlan
<1>4. BatchInv
  BY <1>3 DEF BatchInv, Leased, NothingReused, Apart, Fails
<1>5. OnlyResumes
  BY <1>3 DEF OnlyResumes
<1>6. /\ GraphIdle \in GraphRecord /\ GraphIdle.pc = "idle"
      /\ ScanIdle \in ScanRecord /\ ScanIdle.pc = "idle"
  BY IdleTypes
<1>7. MemoryInv
  BY <1>6 DEF Init, MemoryInv, MemoryType, GraphInv, ScanInv, CheckpointsAreBehind
<1> QED BY <1>2, <1>4, <1>5, <1>7 DEF Inv

LEMMA InvStep == Inv /\ [Next]_vars => Inv'
BY StoreSteps, CallsKeepBatches, CallsKeepCommands, MemoryStep DEF Inv

\* Graphs, workers, events and reconcilers keep the batches, and what they remember
\* of them, as the invariant says.
THEOREM Reconciled ==
    ASSUME Fits
    PROVE  Spec => []Inv
<1>1. Init => Inv
  BY InvInit
<1> QED BY <1>1, InvStep, PTL DEF Spec

\* The PlanStore is used as its specification allows, so its theorems hold of every
\* batch that is reconciled.
THEOREM PlanStoreIsReconciled ==
    ASSUME Fits
    PROVE  Spec => P!Init /\ [][P!Next]_(P!vars)
<1>1. Init => P!Init
  BY DEF Init
<1>2. Inv /\ [Next]_vars => [P!Next]_(P!vars)
  BY StoreSteps
<1> QED BY <1>1, <1>2, Reconciled, PTL DEF Spec

LEMMA InvTypes == Inv => TypeOK
BY StoreRows DEF Inv, MemoryInv, MemoryType, TypeOK

\* Type correctness of the store, the references and the memory of the processes.
THEOREM Types ==
    ASSUME Fits
    PROVE  Spec => []TypeOK
BY Reconciled, InvTypes, PTL

LEMMA InvBehind == Inv => CheckpointsAreBehind
BY DEF Inv, MemoryInv

\* What a checkpoint says of the current version is so in the store, or a late
\* failure has ended the plan once more.
THEOREM References ==
    ASSUME Fits
    PROVE  Spec => []CheckpointsAreBehind
BY Reconciled, InvBehind, PTL

\* A plan that ended stays as it ended until it is replanned or a late failure ends
\* it once more.
THEOREM EndsStay ==
    ASSUME Fits
    PROVE  Spec => [][\A p \in Plans :
                         planRun[p].state \in Ended /\ planRun'[p].version = planRun[p].version
                         => planRun'[p].state = planRun[p].state \/ LateFailure(p)']_vars
<1>1. Inv /\ [Next]_vars => [\A p \in Plans :
                               planRun[p].state \in Ended /\ planRun'[p].version = planRun[p].version
                               => planRun'[p].state = planRun[p].state \/ LateFailure(p)']_vars
  BY CallsKeepBatches DEF StoreKept
<1> QED BY <1>1, Reconciled, PTL DEF Spec

=============================================================================
