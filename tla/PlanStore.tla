----------------------------- MODULE PlanStore -----------------------------
(* The PlanStore of src/src/plan_engine/store.py: the authoritative record of
   plan runs, their immutable versions, the nodes of each version, the history
   of claims (NodeRuns) of each node and the ledger of human commands.

   Every operation of the store is one action: InMemoryPlanStore runs it under
   one lock, PostgresPlanStore in one transaction on the locked rows.  The
   callers (workers, operators, the preemption and replan coordinators, the
   checkpoint reconciler) appear as the arguments the actions are called with. *)
EXTENDS Integers, Sequences, FiniteSets

CONSTANTS
    Plans,         \* plan runs that may be created
    CardBatch,     \* those of kind CARD_BATCH; the others are EMERGENCY_SOLD_OUT
    Keys,          \* logical keys of the nodes of all plans
    KeysOf,        \* KeysOf[p]: logical keys of the DAG of plan p
    DependsOn,     \* DependsOn[k]: logical keys that node k depends on
    RootKeys,      \* keys of PREPARE_CARD_BATCH and VALIDATE_SOLD_OUT_EVENT nodes
    ResourceKeys,  \* ResourceKeys[p][k]: exclusive resources of node k of plan p
    Events,        \* ids of the sold-out events that freeze or replan a plan
    Signatures,    \* (failure_signature, input_fingerprint) pairs of replans
    Fingerprints,  \* fingerprints of materialized node inputs
    CommandIds,    \* ids of human commands
    ResultStates,  \* target states the callers pass to record_node_result
    MaxVersion,    \* version budget of a plan (the code's constant 3)
    Lease,         \* lease_seconds
    ClaimLimit,    \* limit of one claim call
    RetryDelays,   \* retry_at - now of schedule_retry
    ApprovalTTL, ReconcileTTL,  \* lifetime of commands, by type
    ClockLag,      \* how old the `now` a caller read before the lock may be
    MaxClock,      \* bound of the model: last instant
    MaxRuns,       \* bound of the model: claims of one node
    None           \* Python's None

Versions == 1..MaxVersion
Clock    == 0..MaxClock
Node     == {n \in Plans \X Versions \X Keys : n[3] \in KeysOf[n[1]]}

\* A DAG only names nodes of its own plan, and its roots wait for nothing.
ASSUME ConstantsAssumption ==
    /\ CardBatch \subseteq Plans
    /\ KeysOf \in [Plans -> SUBSET Keys]
    /\ DependsOn \in [Keys -> SUBSET Keys]
    /\ \A p \in Plans : \A k \in KeysOf[p] : DependsOn[k] \subseteq KeysOf[p]
    /\ RootKeys \subseteq Keys
    /\ \A k \in RootKeys : DependsOn[k] = {}
    /\ DOMAIN ResourceKeys = Plans
    /\ \A p \in Plans : DOMAIN ResourceKeys[p] = Keys

ASSUME BoundsAssumption ==
    /\ MaxVersion \in Nat \ {0} /\ Lease \in Nat \ {0} /\ ClaimLimit \in Nat \ {0}
    /\ RetryDelays \subseteq Nat /\ ApprovalTTL \in Nat /\ ReconcileTTL \in Nat
    /\ ClockLag \in Nat /\ MaxClock \in Nat /\ MaxRuns \in Nat \ {0}

ASSUME NoneAssumption ==
    None \notin Int \cup Events \cup Signatures \cup Fingerprints \cup Node

NodeState == {"PENDING", "READY", "RUNNING", "WAITING_APPROVAL",
              "WAITING_RECONCILIATION", "RETRY_WAIT", "SUCCEEDED", "FAILED",
              "FROZEN", "INVALIDATED", "SKIPPED"}
PlanState == {"ACTIVE", "FROZEN", "SUCCEEDED", "FAILED"}

ASSUME ResultStatesAssumption == ResultStates \subseteq NodeState

\* PlanStateMachine: the legal moves of a node.  Everything else raises.
Transitions ==
    [s \in NodeState |->
        CASE s = "PENDING"  -> {"READY", "FROZEN", "INVALIDATED", "SKIPPED"}
          [] s = "READY"    -> {"RUNNING", "FROZEN", "INVALIDATED", "SKIPPED"}
          [] s = "RUNNING"  -> {"SUCCEEDED", "FAILED", "RETRY_WAIT",
                                "WAITING_APPROVAL", "WAITING_RECONCILIATION", "FROZEN"}
          [] s = "RETRY_WAIT"             -> {"READY", "FROZEN", "FAILED"}
          [] s = "WAITING_APPROVAL"       -> {"READY", "FROZEN", "FAILED"}
          [] s = "WAITING_RECONCILIATION" -> {"SUCCEEDED", "FAILED"}
          [] s = "FROZEN"                 -> {"INVALIDATED", "SKIPPED"}
          [] OTHER -> {}]

VARIABLES
    clock,     \* the present; callers pass a `now` at most ClockLag behind it
    planRun,   \* planRun[p]: the plan_runs row
    version,   \* version[p][v]: the loop-guard facts of the plan_versions row
    node,      \* node[n]: the plan_nodes row, by <<plan, version, logical key>>
    runs,      \* runs[n]: the NodeRuns of n in the order they were claimed
    command,   \* command[c]: the PlanCommand an operator built, or None
    ledger     \* ledger[c]: the Command Ledger's first result for c, or None

vars == <<clock, planRun, version, node, runs, command, ledger>>

PlanRunRecord == [state : PlanState \cup {"ABSENT"}, version : 0..MaxVersion,
                  reconciliation_required : BOOLEAN]
VersionRecord == [source_event_ids : SUBSET Events, signature : Signatures \cup {None}]
NodeRecord    == [state : NodeState \cup {"ABSENT"}, ready_at : Int \cup {None},
                  retry_at : Int \cup {None}, reused : BOOLEAN]
NodeRunRecord == [claim_version : Nat, state : NodeState,
                  lease_until : Int, superseded_by : Events \cup {None},
                  input_fingerprint : Fingerprints \cup {None}]
CommandType   == {"APPROVE", "REJECT", "RECONCILE", "RESUME"}
CommandRecord == [type : CommandType, plan : Plans, expected_version : Versions,
                  node : Node \cup {None}, expected_status : NodeState \cup {None},
                  outcome : {"SUCCEEDED", "FAILED", None}, issued_at : Int,
                  seen_attempt : Nat]
Reasons       == {"ACCEPTED", "COMMAND_NOT_YET_VALID", "COMMAND_EXPIRED",
                  "PLAN_VERSION_MISMATCH", "RECONCILIATION_REQUIRED",
                  "COMMAND_STATE_NOT_APPLICABLE", "NODE_STATUS_MISMATCH"}

-----------------------------------------------------------------------------
(* Reading the store. *)

\* A caller reads its own clock before it takes the lock.
Now == (clock - ClockLag)..clock

CurrentNodes(p) == {n \in Node : n[1] = p /\ n[2] = planRun[p].version}
Resources(n)    == ResourceKeys[n[1]][n[3]]
Dependencies(n) == {<<n[1], n[2], k>> : k \in DependsOn[n[3]]}

HasRun(n)       == runs[n] # <<>>
LastRun(n)      == runs[n][Len(runs[n])]
IsCurrent(n, i) == i = Len(runs[n])

\* Only the latest claim of a node, still RUNNING, with a lease strictly in the
\* future at t, holds the node's resources.
HoldsResources(n, t) ==
    HasRun(n) /\ LastRun(n).state = "RUNNING" /\ LastRun(n).lease_until > t
LockedByUnfrozen(t) ==  \* mutant: what a freeze superseded holds nothing
    UNION {Resources(n) : n \in {m \in Node : HoldsResources(m, t) /\ LastRun(m).superseded_by = None}}
LockedResources(t) == UNION {Resources(n) : n \in {m \in Node : HoldsResources(m, t)}}

\* The guard that heartbeat, record_node_input, schedule_retry and
\* record_node_result share: a claim that is the node's latest, still RUNNING
\* and not expired.  A worker is known by the run <<n, i>> it was given: its
\* worker_id and claim_version are those of that run.
HoldsClaimByWorker(n, i, t) == runs[n][i].state = "RUNNING"  \* mutant

HoldsClaim(n, i, t) ==
    /\ IsCurrent(n, i)
    /\ runs[n][i].state = "RUNNING"
    /\ t < runs[n][i].lease_until

-----------------------------------------------------------------------------
(* Creating plans. *)

AbsentPlan == [state |-> "ABSENT", version |-> 0, reconciliation_required |-> FALSE]
AbsentNode == [state |-> "ABSENT", ready_at |-> None, retry_at |-> None, reused |-> FALSE]
FirstVersion == [source_event_ids |-> {}, signature |-> None]

\* A node of a new version: reused success, ready root, or waiting for its
\* dependencies.
NewNode(k, reused, t) ==
    [state    |-> IF k \in reused THEN "SUCCEEDED"
                  ELSE IF k \in RootKeys THEN "READY" ELSE "PENDING",
     ready_at |-> IF k \in RootKeys \ reused THEN t ELSE None,
     retry_at |-> None,
     reused   |-> k \in reused]

WithNewNodes(p, v, reused, t) ==
    [n \in Node |-> IF n[1] = p /\ n[2] = v THEN NewNode(n[3], reused, t) ELSE node[n]]

\* create_or_resume: a known run_key returns the stored plan unchanged.
CreateOrResume(p) ==
    /\ planRun[p].state = "ABSENT"
    /\ planRun' = [planRun EXCEPT ![p] =
                      [state |-> "ACTIVE", version |-> 1, reconciliation_required |-> FALSE]]
    /\ node' = WithNewNodes(p, 1, {}, clock)
    /\ UNCHANGED <<clock, version, runs, command, ledger>>

-----------------------------------------------------------------------------
(* Claiming nodes. *)

\* Nodes of the current version of the ACTIVE plans among ps.
Schedulable(ps) ==
    UNION {CurrentNodes(p) : p \in {q \in ps : planRun[q].state = "ACTIVE"}}

\* RETRY_WAIT nodes whose retry_at has come return to READY in the claim itself.
DueRetries(ps, t) ==
    {n \in Schedulable(ps) : /\ node[n].state = "RETRY_WAIT"
                             /\ node[n].retry_at # None
                             /\ t >= node[n].retry_at}
Promoted(ps, t) ==
    [n \in Node |->
        IF n \in DueRetries(ps, t)
        THEN [node[n] EXCEPT !.state = "READY", !.retry_at = None, !.ready_at = t]
        ELSE node[n]]

Conflict(m, n) == Resources(m) \cap Resources(n) # {}

\* The scan order of claim_next_ready_nodes: emergency plans (priority 100)
\* before card batches (priority 0), then by age; node ids, which are random,
\* break ties.  claim_ready_nodes scans one plan in materialization order, which
\* the model leaves open.
Precedes(nodes, m, n) ==
    IF (m[1] \in CardBatch) = (n[1] \in CardBatch)
    THEN nodes[m].ready_at < nodes[n].ready_at
    ELSE n[1] \in CardBatch

\* S is what a scan of the candidates picks: each one in turn whose resources
\* are free, until the limit is reached.
Picks(S, candidates, nodes, byPriority, t) ==
    LET Before(m, n) == byPriority /\ Precedes(nodes, m, n) IN
    /\ Cardinality(S) <= ClaimLimit
    /\ \A n \in S : Resources(n) \cap LockedResources(t) = {}
    /\ \A m, n \in S : m # n => ~Conflict(m, n)
    /\ \A n \in candidates \ S :
          \/ Resources(n) \cap LockedResources(t) # {}
          \/ \E m \in S : Conflict(m, n) /\ ~Before(n, m)
          \/ Cardinality(S) = ClaimLimit /\ \A m \in S : ~Before(n, m)

NewRun(n, t) ==
    [claim_version |-> Len(runs[n]) + 1, state |-> "RUNNING",
     lease_until |-> t + Lease, superseded_by |-> None, input_fingerprint |-> None]

\* Both claims end alike: every picked node becomes RUNNING under a new NodeRun
\* with the next claim_version.
Claim(ps, byPriority, t) ==
    LET promoted   == Promoted(ps, t)
        candidates == {n \in Schedulable(ps) : /\ promoted[n].state = "READY"
                                               /\ Len(runs[n]) < MaxRuns}
    IN \E S \in SUBSET candidates :
          /\ Picks(S, candidates, promoted, byPriority, t)
          /\ node' = [n \in Node |-> IF n \in S
                                     THEN [promoted[n] EXCEPT !.state = "RUNNING"]
                                     ELSE promoted[n]]
          /\ runs' = [n \in Node |-> IF n \in S THEN Append(runs[n], NewRun(n, t))
                                     ELSE runs[n]]
          /\ UNCHANGED <<clock, planRun, version, command, ledger>>

\* claim_ready_nodes: the next nodes of one plan.
ClaimReadyNodes(p, t) ==
    /\ planRun[p].state = "ACTIVE"
    /\ Claim({p}, FALSE, t)

\* claim_next_ready_nodes: the next nodes of all plans.
ClaimNextReadyNodes(t) == Claim(Plans, TRUE, t)

\* An attempt may be taken over once its lease ran out, unless an event
\* superseded it: only a replan may then execute the work again.
ReclaimableEarly(n, i, t) ==  \* mutant: at any time
    IsCurrent(n, i) /\ runs[n][i].state = "RUNNING" /\ runs[n][i].superseded_by = None
ReclaimableSuperseded(n, i, t) ==  \* mutant: superseded or not
    IsCurrent(n, i) /\ runs[n][i].state = "RUNNING" /\ t >= runs[n][i].lease_until

Reclaimable(n, i, t) ==
    /\ IsCurrent(n, i)
    /\ runs[n][i].state = "RUNNING"
    /\ runs[n][i].superseded_by = None
    /\ t >= runs[n][i].lease_until

\* reclaim_expired_node: a new claim of a node whose worker let its lease expire.
ReclaimExpiredNode(n, i, t) ==
    /\ Reclaimable(n, i, t)
    /\ Resources(n) \cap LockedResources(t) = {}
    /\ Len(runs[n]) < MaxRuns
    /\ runs' = [runs EXCEPT ![n] =
                  Append(@, [NewRun(n, t) EXCEPT
                                !.input_fingerprint = runs[n][i].input_fingerprint])]
    /\ UNCHANGED <<clock, planRun, version, node, command, ledger>>

-----------------------------------------------------------------------------
(* The holder of a claim. *)

\* heartbeat_node_run: extends the lease, never shortens it.
HeartbeatNodeRun(n, i, t) ==
    /\ HoldsClaim(n, i, t)
    /\ runs' = [runs EXCEPT ![n][i].lease_until = IF t + Lease > @ THEN t + Lease ELSE @]
    /\ UNCHANGED <<clock, planRun, version, node, command, ledger>>

\* record_node_input: the materialized input, once; a repeat of the same one is
\* a replay and a different one is refused.
RecordNodeInput(n, i, fingerprint, t) ==
    /\ HoldsClaim(n, i, t)
    /\ runs[n][i].input_fingerprint = None
    /\ runs' = [runs EXCEPT ![n][i].input_fingerprint = fingerprint]
    /\ UNCHANGED <<clock, planRun, version, node, command, ledger>>

\* schedule_retry: closes the attempt; the next one is only created by a claim.
ScheduleRetry(n, i, t, retryAt) ==
    /\ HoldsClaim(n, i, t)
    /\ runs[n][i].superseded_by = None
    /\ "RETRY_WAIT" \in Transitions[node[n].state]
    /\ runs' = [runs EXCEPT ![n][i].state = "RETRY_WAIT"]
    /\ node' = [node EXCEPT ![n].state = "RETRY_WAIT", ![n].retry_at = retryAt]
    /\ UNCHANGED <<clock, planRun, version, command, ledger>>

\* Mutants: one dependency is enough; every version of the plan follows.
WithDependentsReadyOnAny(nodes, p, t) ==
    [n \in Node |->
        IF /\ n \in CurrentNodes(p)
           /\ nodes[n].state = "PENDING"
           /\ \E d \in Dependencies(n) : nodes[d].state = "SUCCEEDED"
        THEN [nodes[n] EXCEPT !.state = "READY", !.ready_at = t]
        ELSE nodes[n]]
WithDependentsReadyInAll(nodes, p, t) ==
    [n \in Node |->
        IF /\ n[1] = p
           /\ nodes[n].state = "PENDING"
           /\ \A d \in Dependencies(n) : nodes[d].state = "SUCCEEDED"
        THEN [nodes[n] EXCEPT !.state = "READY", !.ready_at = t]
        ELSE nodes[n]]

\* A success makes READY every PENDING node of the current version whose
\* dependencies have all succeeded.
WithDependentsReady(nodes, p, t) ==
    [n \in Node |->
        IF /\ n \in CurrentNodes(p)
           /\ nodes[n].state = "PENDING"
           /\ \A d \in Dependencies(n) : nodes[d].state = "SUCCEEDED"
        THEN [nodes[n] EXCEPT !.state = "READY", !.ready_at = t]
        ELSE nodes[n]]

NoneUnfinished(nodes, p) ==  \* mutant: a frozen node counts as done
    \A n \in CurrentNodes(p) : nodes[n].state \notin {"PENDING", "READY", "RUNNING"}

AllSucceeded(nodes, p) == \A n \in CurrentNodes(p) : nodes[n].state = "SUCCEEDED"

\* Mutants: the plan takes any state of the node; superseded or not.
PlanAfterAny(s, superseded, nodes, p) ==
    IF s # "SUCCEEDED" \/ AllSucceeded(nodes, p) THEN s ELSE planRun[p].state
PlanAfterSuperseded(s, superseded, nodes, p) ==
    IF s \in {"FAILED", "FROZEN"} \/ (s = "SUCCEEDED" /\ AllSucceeded(nodes, p)) THEN s
    ELSE planRun[p].state

\* What a node of plan p that ended in state s makes of the plan.
PlanAfter(s, superseded, nodes, p) ==
    CASE s = "SUCCEEDED" /\ AllSucceeded(nodes, p) -> "SUCCEEDED"
      [] s \in {"FAILED", "FROZEN"} /\ ~superseded -> s
      [] OTHER                                     -> planRun[p].state

\* The node and its latest run move to state s together, and the plan follows.
CloseNode(n, i, s, superseded, t) ==
    LET p      == n[1]
        closed == [node EXCEPT ![n].state = s]
        nodes  == IF s = "SUCCEEDED" THEN WithDependentsReady(closed, p, t) ELSE closed
    IN /\ s \in Transitions[node[n].state]
       /\ node' = nodes
       /\ runs' = [runs EXCEPT ![n][i].state = s]
       /\ planRun' = [planRun EXCEPT ![p].state = PlanAfter(s, superseded, nodes, p)]

\* record_node_result: late, repeated and fenced-out results are refused.  A
\* superseded run still closes, without failing or freezing the plan.
RecordNodeResult(n, i, s, t) ==
    /\ HoldsClaim(n, i, t)
    /\ CloseNode(n, i, s, runs[n][i].superseded_by # None, t)
    /\ UNCHANGED <<clock, version, command, ledger>>

-----------------------------------------------------------------------------
(* Freezing. *)

\* freeze_plan: a pause of the aggregate; nodes keep their states.
FreezePlan(p) ==
    /\ planRun[p].state = "ACTIVE"
    /\ planRun' = [planRun EXCEPT ![p].state = "FROZEN"]
    /\ UNCHANGED <<clock, version, node, runs, command, ledger>>

Freezable == {"PENDING", "READY", "RETRY_WAIT", "WAITING_APPROVAL"}

\* ImpactAnalyzer's closure: the nodes that depend on the direct ones, directly
\* or not.
DependencyClosure(p, direct) ==
    LET Closed(T) == \A j \in KeysOf[p] : DependsOn[j] \cap T # {} => j \in T
    IN {k \in KeysOf[p] :
          \A T \in SUBSET KeysOf[p] : (direct \subseteq T /\ Closed(T)) => k \in T}

\* apply_impact_freeze: marks the latest attempt of every affected node
\* superseded, once, and freezes the nodes not yet executing.  A ROOM or
\* PLATFORM impact also freezes the plan.  The analysis was made for version v.
ApplyImpactFreeze(p, v, e, affectedKeys, global) ==
    LET affected == {n \in CurrentNodes(p) : n[3] \in affectedKeys} IN
    /\ planRun[p].version = v
    /\ affected # {}
    /\ planRun[p].state \in {"ACTIVE", "FROZEN"}
    /\ planRun' = [planRun EXCEPT ![p].state = IF global THEN "FROZEN" ELSE @]
    /\ runs' = [n \in Node |->
                  IF n \in affected /\ HasRun(n) /\ LastRun(n).superseded_by = None
                  THEN [runs[n] EXCEPT ![Len(runs[n])].superseded_by = e]
                  ELSE runs[n]]
    /\ node' = [n \in Node |->
                  IF n \in affected /\ node[n].state \in Freezable
                  THEN [node[n] EXCEPT !.state = "FROZEN"]
                  ELSE node[n]]
    /\ UNCHANGED <<clock, version, command, ledger>>

-----------------------------------------------------------------------------
(* Replanning. *)

\* The run whose output a node reused from version v on stands for: the latest
\* run of the nearest version that executed the node.
Evidence(p, v, k) ==
    {u \in 1..v : /\ HasRun(<<p, u, k>>)
                  /\ \A w \in (u + 1)..v : ~HasRun(<<p, w, k>>) /\ node[<<p, w, k>>].reused}

ReusableIfSuperseded(p, v, k) ==  \* mutant
    /\ k \in KeysOf[p]
    /\ node[<<p, v, k>>].state = "SUCCEEDED"
    /\ \E u \in Evidence(p, v, k) :
          LastRun(<<p, u, k>>).state = "SUCCEEDED" /\ LastRun(<<p, u, k>>).input_fingerprint # None

Reusable(p, v, k) ==
    /\ k \in KeysOf[p]
    /\ node[<<p, v, k>>].state = "SUCCEEDED"
    /\ \E u \in Evidence(p, v, k) :
          LET run == LastRun(<<p, u, k>>) IN
          /\ run.state = "SUCCEEDED"
          /\ run.superseded_by = None
          /\ run.input_fingerprint # None

\* An equal (failure_signature, input_fingerprint) on the latest version is a
\* replay when it brings no new event.
IsReplay(p, signature, sources) ==
    LET latest == version[p][planRun[p].version] IN
    latest.signature = signature /\ sources \subseteq latest.source_event_ids

\* The loop guard: a pair seen on any version, or the version budget.
LoopsOrExhausted(p, signature) ==
    \/ planRun[p].version >= MaxVersion
    \/ \E v \in 1..planRun[p].version : version[p][v].signature = signature

\* create_replan_version refusing the replan: the plan is frozen and the call
\* raises.  expected is checked before the budget, but after an equal latest pair.
RefuseReplan(p, expected, signature, sources) ==
    /\ p \in CardBatch /\ planRun[p].state # "ABSENT"
    /\ ~IsReplay(p, signature, sources)
    /\ \/ version[p][planRun[p].version].signature = signature
       \/ planRun[p].version = expected /\ LoopsOrExhausted(p, signature)
    /\ planRun' = [planRun EXCEPT ![p].state = "FROZEN"]
    /\ UNCHANGED <<clock, version, node, runs, command, ledger>>

\* create_replan_version: the next version of a card batch, with the reused
\* nodes already SUCCEEDED.  The plan becomes ACTIVE whatever it was.
CreateReplanVersion(p, expected, signature, sources, reused, t) ==
    LET next == planRun[p].version + 1 IN
    /\ p \in CardBatch /\ planRun[p].state # "ABSENT"
    /\ version[p][planRun[p].version].signature # signature
    /\ planRun[p].version = expected
    /\ ~LoopsOrExhausted(p, signature)
    /\ \A k \in reused : Reusable(p, planRun[p].version, k)
    /\ version' = [version EXCEPT ![p][next] =
                      [source_event_ids |-> sources, signature |-> signature]]
    /\ node' = WithNewNodes(p, next, reused, t)
    /\ planRun' = [planRun EXCEPT ![p].version = next, ![p].state = "ACTIVE"]
    /\ UNCHANGED <<clock, runs, command, ledger>>

-----------------------------------------------------------------------------
(* Checkpoint reconciliation. *)

\* record_reconciliation_failure: an incident freezes an ACTIVE plan.
RecordReconciliationFailure(p) ==
    /\ planRun[p].state # "ABSENT"
    /\ planRun' = [planRun EXCEPT
                      ![p].state = IF @ = "ACTIVE" THEN "FROZEN" ELSE @,
                      ![p].reconciliation_required = TRUE]
    /\ UNCHANGED <<clock, version, node, runs, command, ledger>>

\* clear_reconciliation_failure: ends the incident; the plan stays as it is.
ClearReconciliationFailure(p) ==
    /\ planRun[p].reconciliation_required
    /\ planRun' = [planRun EXCEPT ![p].reconciliation_required = FALSE]
    /\ UNCHANGED <<clock, version, node, runs, command, ledger>>

\* The part reconcile_plan_reference shares with the RECONCILE command.
CloseReconciliation(n, outcome, t) ==
    /\ node[n].state = "WAITING_RECONCILIATION"
    /\ HasRun(n) /\ LastRun(n).state = "WAITING_RECONCILIATION"
    /\ CloseNode(n, Len(runs[n]), outcome, FALSE, t)

\* reconcile_plan_reference: the coordinator closes an unknown side effect of a
\* node of the current version.
ReconcilePlanReference(n, outcome) ==
    /\ n \in CurrentNodes(n[1])
    /\ CloseReconciliation(n, outcome, clock)
    /\ UNCHANGED <<clock, version, command, ledger>>

-----------------------------------------------------------------------------
(* Human commands. *)

\* The states an operator acts on with a command of each type about a node.
AwaitedStatus == [APPROVE |-> "WAITING_APPROVAL", REJECT |-> "WAITING_APPROVAL",
                  RECONCILE |-> "WAITING_RECONCILIATION"]

\* An operator reads the plan and builds a PlanCommand from what it saw.
\* seen_attempt, the attempt on the screen, is not part of the command.
IssueNodeCommand(c, type, n, outcome) ==
    /\ command[c] = None
    /\ type \in DOMAIN AwaitedStatus
    /\ n \in CurrentNodes(n[1])
    /\ node[n].state = AwaitedStatus[type]
    /\ outcome = None <=> type # "RECONCILE"
    /\ command' = [command EXCEPT ![c] =
          [type |-> type, plan |-> n[1], expected_version |-> n[2], node |-> n,
           expected_status |-> node[n].state, outcome |-> outcome, issued_at |-> clock,
           seen_attempt |-> Len(runs[n])]]
    /\ UNCHANGED <<clock, planRun, version, node, runs, ledger>>

IssueResume(c, p) ==
    /\ command[c] = None
    /\ planRun[p].state = "FROZEN"
    /\ command' = [command EXCEPT ![c] =
          [type |-> "RESUME", plan |-> p, expected_version |-> planRun[p].version,
           node |-> None, expected_status |-> None, outcome |-> None,
           issued_at |-> clock, seen_attempt |-> 0]]
    /\ UNCHANGED <<clock, planRun, version, node, runs, ledger>>

TTL(cmd) == IF cmd.type = "RECONCILE" THEN ReconcileTTL ELSE ApprovalTTL

\* An open checkpoint incident admits only its own resolution.
NeverBlocks(cmd) == FALSE  \* mutant
BlockedByIncident(cmd) ==
    planRun[cmd.plan].reconciliation_required /\ cmd.type # "RECONCILE"

ResumableUnlessActive(p) == planRun[p].state # "ACTIVE"  \* mutant
Resumable(p) == planRun[p].state = "FROZEN"

\* The first check of submit_command and _apply_first_command that fails, in
\* the order of the code.
Verdict(cmd, t) ==
    IF t < cmd.issued_at THEN "COMMAND_NOT_YET_VALID"
    ELSE IF t >= cmd.issued_at + TTL(cmd) THEN "COMMAND_EXPIRED"
    ELSE IF cmd.expected_version # planRun[cmd.plan].version THEN "PLAN_VERSION_MISMATCH"
    ELSE IF BlockedByIncident(cmd) THEN "RECONCILIATION_REQUIRED"
    ELSE IF cmd.type = "RESUME" /\ ~Resumable(cmd.plan)
         THEN "COMMAND_STATE_NOT_APPLICABLE"
    ELSE IF cmd.type # "RESUME" /\ cmd.expected_status # node[cmd.node].state
         THEN "NODE_STATUS_MISMATCH"
    ELSE "ACCEPTED"

Resume(p) ==
    /\ planRun' = [planRun EXCEPT ![p].state = "ACTIVE"]
    /\ UNCHANGED <<node, runs>>

ApproveUndated(n, t) ==  \* mutant
    /\ node' = [node EXCEPT ![n].state = "READY", ![n].ready_at = None]
    /\ UNCHANGED <<planRun, runs>>

Approve(n, t) ==
    /\ node' = [node EXCEPT ![n].state = "READY", ![n].ready_at = t]
    /\ UNCHANGED <<planRun, runs>>

Reject(n) ==
    /\ node' = [node EXCEPT ![n].state = "FAILED"]
    /\ planRun' = [planRun EXCEPT ![n[1]].state = "FAILED"]
    /\ UNCHANGED runs

\* submit_command: the first delivery of a command id is judged, applied if
\* accepted, and entered in the ledger with its result in the same transaction;
\* every later delivery only returns that result.
SubmitCommand(c, t) ==
    LET cmd == command[c] IN
    /\ cmd # None
    /\ ledger[c] = None
    /\ ledger' = [ledger EXCEPT ![c] = Verdict(cmd, t)]
    /\ IF Verdict(cmd, t) # "ACCEPTED"
       THEN UNCHANGED <<planRun, node, runs>>
       ELSE \/ cmd.type = "RESUME"    /\ Resume(cmd.plan)
            \/ cmd.type = "APPROVE"   /\ Approve(cmd.node, t)
            \/ cmd.type = "REJECT"    /\ Reject(cmd.node)
            \/ cmd.type = "RECONCILE" /\ CloseReconciliation(cmd.node, cmd.outcome, t)
    /\ UNCHANGED <<clock, version, command>>

-----------------------------------------------------------------------------
Tick ==
    /\ clock < MaxClock
    /\ clock' = clock + 1
    /\ UNCHANGED <<planRun, version, node, runs, command, ledger>>

Init ==
    /\ clock = 0
    /\ planRun = [p \in Plans |-> AbsentPlan]
    /\ version = [p \in Plans |-> [v \in Versions |-> FirstVersion]]
    /\ node = [n \in Node |-> AbsentNode]
    /\ runs = [n \in Node |-> <<>>]
    /\ command = [c \in CommandIds |-> None]
    /\ ledger = [c \in CommandIds |-> None]

\* A worker asks for work, or uses a claim it was once given.
WorkerStep ==
    \E t \in Now :
        \/ \E p \in Plans : ClaimReadyNodes(p, t)
        \/ ClaimNextReadyNodes(t)
        \/ \E n \in Node : \E i \in DOMAIN runs[n] :
              \/ ReclaimExpiredNode(n, i, t)
              \/ HeartbeatNodeRun(n, i, t)
              \/ \E f \in Fingerprints : RecordNodeInput(n, i, f, t)
              \/ \E d \in RetryDelays : ScheduleRetry(n, i, t, t + d)
              \/ \E s \in ResultStates : RecordNodeResult(n, i, s, t)

\* Nodes that run a Skill on a product: the only ones the coordinators single
\* out for an impact, and offer for reuse.
ProductKeys(p) == {k \in KeysOf[p] : ResourceKeys[p][k] # {}}

\* The preemption coordinator freezes what one product, which may be on several
\* cards of the batch, or everything, touches.
FreezeStep ==
    \E p \in CardBatch, v \in Versions, e \in Events :
        \/ \E direct \in (SUBSET ProductKeys(p)) \ {{}} :
              ApplyImpactFreeze(p, v, e, DependencyClosure(p, direct), FALSE)
        \/ ApplyImpactFreeze(p, v, e, KeysOf[p], TRUE)

\* The replan coordinator passes the version it read as the expected one, at
\* least one event to merge, and the instant its whole run was started with.
ReplanStep ==
    \E p \in CardBatch, v \in Versions, signature \in Signatures, sources \in (SUBSET Events) \ {{}} :
        \/ RefuseReplan(p, v, signature, sources)
        \/ \E t \in 0..clock, reused \in SUBSET ProductKeys(p) :
              CreateReplanVersion(p, v, signature, sources, reused, t)

ReconcileStep ==
    \/ \E p \in Plans : RecordReconciliationFailure(p)
    \/ \E p \in Plans : ClearReconciliationFailure(p)
    \/ \E n \in Node : ReconcilePlanReference(n, "SUCCEEDED")

OperatorStep ==
    \E c \in CommandIds :
        \/ \E type \in DOMAIN AwaitedStatus, n \in Node, outcome \in {"SUCCEEDED", "FAILED", None} :
              IssueNodeCommand(c, type, n, outcome)
        \/ \E p \in Plans : IssueResume(c, p)
        \/ \E t \in Now : SubmitCommand(c, t)

Next ==
    \/ Tick
    \/ \E p \in Plans : CreateOrResume(p)
    \/ WorkerStep
    \/ \E p \in Plans : FreezePlan(p)
    \/ FreezeStep
    \/ ReplanStep
    \/ ReconcileStep
    \/ OperatorStep

Spec == Init /\ [][Next]_vars

\* Without operators and reconcilers: sold-out events freeze and replan what the
\* workers execute.
EventsNext ==
    Tick \/ (\E p \in Plans : CreateOrResume(p)) \/ WorkerStep \/ FreezeStep \/ ReplanStep
EventsSpec == Init /\ [][EventsNext]_vars

\* Without events: operators and the checkpoint reconciler act on what the
\* workers left.
CommandsNext ==
    \/ Tick
    \/ \E p \in Plans : CreateOrResume(p) \/ FreezePlan(p)
    \/ WorkerStep
    \/ ReconcileStep
    \/ OperatorStep
CommandsSpec == Init /\ [][CommandsNext]_vars

-----------------------------------------------------------------------------
(* What the store promises. *)

TypeOK ==
    /\ clock \in Clock
    /\ planRun \in [Plans -> PlanRunRecord]
    /\ version \in [Plans -> [Versions -> VersionRecord]]
    /\ node \in [Node -> NodeRecord]
    /\ runs \in [Node -> Seq(NodeRunRecord)]
    /\ command \in [CommandIds -> CommandRecord \cup {None}]
    /\ ledger \in [CommandIds -> Reasons \cup {None}]

\* Two plans never execute nodes on one resource at the same time: the sold-out
\* write of an emergency plan and the card of the same product exclude each
\* other through claims, heartbeats, reclaims and expiries.  It needs callers
\* whose clocks agree (ClockLag = 0).
ResourceExclusion ==
    \A m, n \in Node :
        m # n /\ HoldsResources(m, clock) /\ HoldsResources(n, clock)
        => Resources(m) \cap Resources(n) = {}

\* A claim is only taken over after its lease ran out: of the RUNNING runs of a
\* node only the latest can have a lease in the future, and the claim_versions
\* of a node increase (fencing tokens, D-031).
OneLiveClaim ==
    \A n \in Node : \A i \in DOMAIN runs[n] :
        /\ runs[n][i].claim_version = i
        /\ i < Len(runs[n]) /\ runs[n][i].state = "RUNNING" => runs[n][i].lease_until <= clock

ExecutedStates == {"RUNNING", "WAITING_APPROVAL", "WAITING_RECONCILIATION",
                   "RETRY_WAIT", "SUCCEEDED"}

\* The plan_nodes row and the node's latest NodeRun tell one story after every
\* mix of results, retries, freezes, approvals and reconciliations.
NodeAgreesWithRun ==
    \A n \in Node :
        /\ HasRun(n) /\ LastRun(n).state \in {"RUNNING", "WAITING_RECONCILIATION", "SUCCEEDED"}
              => node[n].state = LastRun(n).state
        /\ node[n].state \in ExecutedStates /\ ~node[n].reused
              => HasRun(n) /\ LastRun(n).state = node[n].state

\* No attempt of a node starts before everything it depends on has succeeded,
\* whichever order results, commands and replans come in.
DependenciesFirst ==
    \A n \in Node : HasRun(n) => \A d \in Dependencies(n) : node[d].state = "SUCCEEDED"

\* claim_next_ready_nodes raises on a READY node without ready_at, which would
\* stop the dispatch of every plan: no path to READY forgets it.
ReadyNodesHaveAge == \A n \in Node : node[n].state = "READY" => node[n].ready_at # None

\* The aggregate is SUCCEEDED only when every node of the current version is.
SuccessIsComplete ==
    \A p \in Plans : \A n \in CurrentNodes(p) :
        planRun[p].state = "SUCCEEDED" => node[n].state = "SUCCEEDED"

\* Every reused node leads back, through reused nodes only, to a real execution
\* that succeeded, had its input recorded, and is not superseded (D-085).
ReuseIsBacked ==
    \A n \in Node : node[n].reused =>
        \E u \in 1..(n[2] - 1) :
            LET origin == <<n[1], u, n[3]>> IN
            /\ HasRun(origin)
            /\ LastRun(origin).state = "SUCCEEDED"
            /\ LastRun(origin).superseded_by = None
            /\ LastRun(origin).input_fingerprint # None
            /\ \A w \in (u + 1)..n[2] : node[<<n[1], w, n[3]>>].reused

\* A superseded attempt is the last one of its node: only a replan executes the
\* node's work again.
SupersededIsFinal ==
    \A n \in Node : \A i \in DOMAIN runs[n] :
        runs[n][i].superseded_by # None => i = Len(runs[n])

\* While a checkpoint incident is open the plan dispatches nothing (D-030).
IncidentHoldsPlan ==
    \A p \in Plans : planRun[p].reconciliation_required => planRun[p].state # "ACTIVE"

\* A plan that ended stays as it ended until a replan gives it another version:
\* no stale RESUME, incident, freeze or late result reopens it (freeze_plan).
TerminalIsFinal ==
    [][\A p \in Plans :
          planRun[p].state \in {"SUCCEEDED", "FAILED"} /\ planRun'[p].version = planRun[p].version
          => planRun'[p].state = planRun[p].state]_vars

\* A node of an earlier version is never made READY again, by a late result, an
\* approval or a retry: what a replan left behind does not start anew.
OldVersionsAreClosed ==
    [][\A n \in Node :
          n[2] < planRun[n[1]].version /\ node[n].state # "READY"
          => node'[n].state # "READY"]_vars

\* NodeRuns are evidence: only the latest of a node changes, a recorded input
\* and a superseding event are never replaced, and a closed run stays closed
\* except for the reconciliation of an unknown outcome.
EvidenceIsImmutable ==
    [][\A n \in Node : \A i \in DOMAIN runs[n] :
          LET old == runs[n][i]  new == runs'[n][i] IN
          /\ i \in DOMAIN runs'[n]
          /\ i < Len(runs[n]) => new = old
          /\ old.input_fingerprint # None => new.input_fingerprint = old.input_fingerprint
          /\ old.superseded_by # None => new.superseded_by = old.superseded_by
          /\ old.state \notin {"RUNNING", "WAITING_RECONCILIATION"} => new.state = old.state
          /\ old.lease_until <= new.lease_until]_vars

\* The result of an attempt superseded by an event never fails or freezes the
\* plan it no longer belongs to; worker results only (comment of
\* record_node_result).
SupersededResultsAreHarmless ==
    [][\A n \in Node :
          /\ HasRun(n) /\ LastRun(n).superseded_by # None
          /\ node[n].state = "RUNNING" /\ node'[n].state # "RUNNING"
          => planRun'[n[1]].state \in {planRun[n[1]].state, "SUCCEEDED"}]_vars

\* Nor does the outcome found for it by a reconciliation.
SupersededOutcomesAreHarmless ==
    [][\A n \in Node :
          /\ HasRun(n) /\ LastRun(n).superseded_by # None
          /\ node[n].state = "WAITING_RECONCILIATION"
          /\ node'[n].state # "WAITING_RECONCILIATION"
          => planRun'[n[1]].state \in {planRun[n[1]].state, "SUCCEEDED"}]_vars

\* A result that arrives for a node of an earlier version does not decide the
\* state of the plan (D-081: late results stay out of the new version).
LateResultsStayOut ==
    [][\A n \in Node :
          n[2] < planRun[n[1]].version /\ node'[n].state # node[n].state
          => planRun'[n[1]].state = planRun[n[1]].state]_vars

\* An accepted approval concerns the attempt the operator was looking at.
ApprovalIsForSeenAttempt ==
    [][\A c \in CommandIds :
          /\ ledger[c] = None /\ ledger'[c] = "ACCEPTED"
          /\ command[c].type = "APPROVE"
          => Len(runs[command[c].node]) = command[c].seen_attempt]_vars

=============================================================================
