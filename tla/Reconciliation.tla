--------------------------- MODULE Reconciliation ---------------------------
(* The pre-live graph that drives a card batch and keeps a reference to it in its
   checkpoint (core/pre_live_graph.py with plan_engine/service.py), the
   reconciliation of that checkpoint with the PlanStore
   (plan_engine/reconciliation.py) and the commands it goes before
   (CommandService of plan_engine/commands.py), while workers execute the batch
   and a sold-out event replans it.

   A reconciliation reads the plan, reads the checkpoint and writes: between any
   two of these the graph, the workers and the other reconcilers go on.  The clock
   stands still: leases and lifetimes are the matter of PlanStore. *)
EXTENDS Integers, Sequences, FiniteSets

CONSTANTS
    Graphs,       \* executions of the pre-live graph
    Reconcilers,  \* the scans and the command services
    Services,     \* the command services among them
    Steady,       \* the scans that are called again and go on; others may stop anywhere
    Plans, Keys, KeysOf, DependsOn, RootKeys, ResourceKeys, Events, Signatures,
    CommandIds, MaxVersion, MaxRuns, None

VARIABLES
    clock, planRun, version, node, runs, command, ledger,  \* the PlanStore
    checkpoint,  \* checkpoint[p]: the reference in the graph thread of plan p
    graph,       \* graph[g]: where execution g is
    scan         \* scan[s]: what reconciler s has read

store == <<planRun, version, node, runs, command, ledger>>
vars  == <<clock, store, checkpoint, graph, scan>>

P == INSTANCE PlanStore WITH
        CardBatch <- Plans, Fingerprints <- {}, ResultStates <- {"SUCCEEDED", "FAILED"},
        Lease <- 1, ClaimLimit <- 1, RetryDelays <- {}, ApprovalTTL <- 1, ReconcileTTL <- 1,
        ClockLag <- 0, MaxClock <- 0

Ended == {"SUCCEEDED", "FAILED"}

\* PlanCheckpointReference; the control position is the end it stands for.
Reference == [version : P!Versions, position : Ended]

GraphRecord == [pc : {"idle", "open", "drive", "save"}, plan : Plans,
                version : 0..MaxVersion, status : Ended \cup {None}]
ScanRecord  == [pc : {"idle", "plan", "checkpoint", "act", "submit"}, plan : Plans,
                command : CommandIds \cup {None}, state : P!PlanState, version : 0..MaxVersion,
                required : BOOLEAN, verdict : {None, "RECORD", "CLEAR", "NOTHING"}]

AnyPlan == CHOOSE p \in Plans : TRUE
GraphIdle == [pc |-> "idle", plan |-> AnyPlan, version |-> 0, status |-> None]
ScanIdle  == [pc |-> "idle", plan |-> AnyPlan, command |-> None, state |-> "ACTIVE",
              version |-> 0, required |-> FALSE, verdict |-> None]

NoStore == UNCHANGED <<clock, store>>

-----------------------------------------------------------------------------
(* The graph. *)

\* A first invocation, which begins with an empty reference, or one that takes an
\* interrupted thread on, whose reference is not there yet.
Invoke(g, p) ==
    /\ graph[g].pc = "idle"
    /\ graph' = [graph EXCEPT ![g] = [GraphIdle EXCEPT !.pc = "open", !.plan = p]]
    /\ checkpoint' = [checkpoint EXCEPT ![p] = None]
    /\ NoStore /\ UNCHANGED scan

\* DefaultCardBatchPlanService.create_or_resume
OpenBatch(g) ==
    LET p == graph[g].plan IN
    /\ graph[g].pc = "open"
    /\ P!CreateOrResume(p) \/ (planRun[p].state # "ABSENT" /\ NoStore)
    /\ graph' = [graph EXCEPT ![g].pc = "drive", ![g].version = planRun'[p].version]
    /\ UNCHANGED <<checkpoint, scan>>

\* Mutant of DriveToTerminal: what has not succeeded counts as failed.
DriveToFirstResult(g) ==
    LET p == graph[g].plan IN
    /\ graph[g].pc = "drive"
    /\ planRun[p].version = graph[g].version
    /\ graph' = [graph EXCEPT ![g].pc = "save", ![g].status =
                    IF planRun[p].state = "SUCCEEDED" THEN "SUCCEEDED" ELSE "FAILED"]
    /\ NoStore /\ UNCHANGED <<checkpoint, scan>>

\* drive_to_terminal and _terminal_result: the result has to be one of the
\* version that was opened.
DriveToTerminal(g) ==
    LET p == graph[g].plan IN
    /\ graph[g].pc = "drive"
    /\ planRun[p].state \in Ended
    /\ planRun[p].version = graph[g].version
    /\ graph' = [graph EXCEPT ![g].pc = "save", ![g].status = planRun[p].state]
    /\ NoStore /\ UNCHANGED <<checkpoint, scan>>

\* LangGraph saves what _generate_cards_node returned.
SaveCheckpoint(g) ==
    LET j == graph[g] IN
    /\ j.pc = "save"
    /\ checkpoint' = [checkpoint EXCEPT ![j.plan] =
                         [version |-> j.version, position |-> j.status]]
    /\ graph' = [graph EXCEPT ![g] = GraphIdle]
    /\ NoStore /\ UNCHANGED scan

\* Nothing can be claimed, the version has changed, or the process stops.
GiveUp(g) ==
    /\ graph[g].pc # "idle"
    /\ graph' = [graph EXCEPT ![g] = GraphIdle]
    /\ NoStore /\ UNCHANGED <<checkpoint, scan>>

-----------------------------------------------------------------------------
(* PlanReconciliationService.reconcile *)

\* Mutant of Listed: plans that ended are not scanned, whatever happened to them.
ListedActive(p) == planRun[p].state \in {"ACTIVE", "FROZEN"}

\* list_plan_runs: what a scan looks at.
Listed(p) ==
    \/ planRun[p].state \in {"ACTIVE", "FROZEN"}
    \/ planRun[p].state # "ABSENT" /\ planRun[p].reconciliation_required

\* _reconcile_scan, at the start, every 30 seconds.
Scan(s, p) ==
    /\ scan[s].pc = "idle"
    /\ Listed(p)
    /\ scan' = [scan EXCEPT ![s] = [ScanIdle EXCEPT !.pc = "plan", !.plan = p]]
    /\ NoStore /\ UNCHANGED <<checkpoint, graph>>

\* CommandService.submit: reconcile_before_command comes first.
ReceiveCommand(s, c) ==
    /\ scan[s].pc = "idle"
    /\ command[c] # None
    /\ scan' = [scan EXCEPT ![s] =
                   [ScanIdle EXCEPT !.pc = "plan", !.plan = command[c].plan, !.command = c]]
    /\ NoStore /\ UNCHANGED <<checkpoint, graph>>

ReadPlan(s) ==
    LET row == planRun[scan[s].plan] IN
    /\ scan[s].pc = "plan"
    /\ scan' = [scan EXCEPT ![s].pc = "checkpoint", ![s].state = row.state,
                   ![s].version = row.version, ![s].required = row.reconciliation_required]
    /\ NoStore /\ UNCHANGED <<checkpoint, graph>>

\* A reference to another version, one ahead of the store, one to another end.
Disagrees(reference, j) ==
    \/ reference.version # j.version
    \/ j.state \notin Ended
    \/ reference.position # j.state

\* Without a reference nothing is written, not even the end of an incident.
Verdict(reference, j) ==
    IF reference = None THEN "NOTHING"
    ELSE IF Disagrees(reference, j) THEN "RECORD"
    ELSE IF j.required THEN "CLEAR" ELSE "NOTHING"

ReadCheckpoint(s) ==
    LET j == scan[s] IN
    /\ j.pc = "checkpoint"
    /\ scan' = [scan EXCEPT ![s] = [ScanIdle EXCEPT !.pc = "act", !.plan = j.plan,
                   !.command = j.command, !.verdict = Verdict(checkpoint[j.plan], j)]]
    /\ NoStore /\ UNCHANGED <<checkpoint, graph>>

Act(s) ==
    LET j == scan[s] IN
    /\ j.pc = "act"
    /\ \/ j.verdict = "RECORD" /\ P!RecordReconciliationFailure(j.plan)
       \/ j.verdict = "CLEAR" /\ P!ClearReconciliationFailure(j.plan)
       \/ j.verdict = "CLEAR" /\ ~planRun[j.plan].reconciliation_required /\ NoStore
       \/ j.verdict = "NOTHING" /\ NoStore
    /\ scan' = [scan EXCEPT ![s] =
                   IF j.command = None THEN ScanIdle
                   ELSE [ScanIdle EXCEPT !.pc = "submit", !.plan = j.plan, !.command = j.command]]
    /\ UNCHANGED <<checkpoint, graph>>

\* A command that is in the ledger is answered from there.
Submit(s) ==
    /\ scan[s].pc = "submit"
    /\ P!SubmitCommand(scan[s].command, clock)
       \/ (ledger[scan[s].command] # None /\ NoStore)
    /\ scan' = [scan EXCEPT ![s] = ScanIdle]
    /\ UNCHANGED <<checkpoint, graph>>

-----------------------------------------------------------------------------
(* Around them. *)

WorkerStep ==
    /\ \/ \E p \in Plans : P!ClaimReadyNodes(p, clock)
       \/ \E n \in P!Node : P!HasRun(n) /\ \E s \in Ended : P!RecordNodeResult(n, Len(runs[n]), s, clock)
    /\ UNCHANGED <<checkpoint, graph, scan>>

\* The coordinator of the event freezes what its product, which may be on several
\* cards, touches ...
SoldOut(p, e, direct) ==
    /\ P!ApplyImpactFreeze(p, planRun[p].version, e, P!DependencyClosure(p, direct), FALSE)
    /\ UNCHANGED <<checkpoint, graph, scan>>

\* ... and replans the batch, whatever became of it meanwhile.
Replan(p, e, s) ==
    /\ \E n \in P!CurrentNodes(p) :
          node[n].state = "FROZEN" \/ (P!HasRun(n) /\ P!LastRun(n).superseded_by = e)
    /\ P!CreateReplanVersion(p, planRun[p].version, s, {e}, {}, clock)
    /\ UNCHANGED <<checkpoint, graph, scan>>

IssueResume(p, c) == P!IssueResume(c, p) /\ UNCHANGED <<checkpoint, graph, scan>>

Init ==
    /\ P!Init
    /\ checkpoint = [p \in Plans |-> None]
    /\ graph = [g \in Graphs |-> GraphIdle]
    /\ scan = [s \in Reconcilers |-> ScanIdle]

Reconcile(s) == ReadPlan(s) \/ ReadCheckpoint(s) \/ Act(s) \/ Submit(s)

Next ==
    \/ \E g \in Graphs :
          \/ \E p \in Plans : Invoke(g, p)
          \/ OpenBatch(g) \/ DriveToTerminal(g) \/ SaveCheckpoint(g) \/ GiveUp(g)
    \/ \E s \in Reconcilers \ Services, p \in Plans : Scan(s, p)
    \/ \E s \in Services, c \in CommandIds : ReceiveCommand(s, c)
    \/ \E s \in Reconcilers : Reconcile(s)
    \/ WorkerStep
    \/ \E p \in Plans, e \in Events : \E direct \in (SUBSET P!ProductKeys(p)) \ {{}} : SoldOut(p, e, direct)
    \/ \E p \in Plans, e \in Events, s \in Signatures : Replan(p, e, s)
    \/ \E p \in Plans, c \in CommandIds : IssueResume(p, c)

\* Each plan is scanned again and again by somebody who finishes (the scheduler
\* of run_reconciliation_tick, on which the code relies).
Fairness ==
    \A s \in Steady :
        /\ \A p \in Plans : SF_vars(Scan(s, p))
        /\ WF_vars(Reconcile(s))

Spec == Init /\ [][Next]_vars /\ Fairness

-----------------------------------------------------------------------------
TypeOK ==
    /\ P!TypeOK
    /\ checkpoint \in [Plans -> Reference \cup {None}]
    /\ graph \in [Graphs -> GraphRecord]
    /\ scan \in [Reconcilers -> ScanRecord]

\* A node of an earlier version that holds no product and that no event superseded
\* has failed: such a result still fails the plan, whatever became of it.
LateFailure(p) ==
    \E n \in P!Node :
        /\ n[1] = p /\ n[2] < planRun[p].version /\ P!Resources(n) = {}
        /\ node[n].state = "FAILED" /\ P!LastRun(n).superseded_by = None

\* What the checkpoint says of the current version is so in the store, whatever
\* happened between the end of the plan and the save: the reference is never
\* ahead (D-028), and an incident about it is a false alarm, about a version that
\* was replanned, or about a plan that a late failure has ended once more.
CheckpointsAreBehind ==
    \A p \in Plans : checkpoint[p] # None =>
        /\ checkpoint[p].version <= planRun[p].version
        /\ checkpoint[p].version = planRun[p].version
           => planRun[p].state = checkpoint[p].position \/ LateFailure(p)

\* A false alarm does not last: a reconciliation that read the plan before it
\* ended and the checkpoint after it was saved opens an incident, and a later one
\* ends it, unless the facts stop agreeing before.
FalseAlarm(p) ==
    /\ planRun[p].reconciliation_required
    /\ checkpoint[p] # None
    /\ checkpoint[p].version = planRun[p].version
    /\ checkpoint[p].position = planRun[p].state
FalseAlarmsEnd == \A p \in Plans : FalseAlarm(p) ~> ~FalseAlarm(p)

\* An incident ends.  It does not when a batch is replanned after its reference
\* was saved: the older version is reported as a mismatch (reconciliation.py:166),
\* the new version is frozen, RESUME is refused, and no end is reached that could
\* be saved.
IncidentsEnd ==
    \A p \in Plans :
        planRun[p].reconciliation_required ~> ~planRun[p].reconciliation_required
=============================================================================
