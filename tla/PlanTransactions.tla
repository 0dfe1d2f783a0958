-------------------------- MODULE PlanTransactions --------------------------
(***************************************************************************)
(* The transactions of PostgresPlanStore (plan_engine/store.py), statement *)
(* by statement.  PlanStore makes one step of an operation; here it takes  *)
(* its row locks one after the other, waits for a row that another one     *)
(* holds or skips it, reads what is committed (READ COMMITTED), and writes *)
(* when it commits.  It may be rolled back at any moment: an exception, a  *)
(* lost connection, the victim of a deadlock.                              *)
(*                                                                         *)
(* The nodes are those of one version without dependencies; a replan makes *)
(* them history.  The lock of a command identifier is left out: it comes   *)
(* first, and only a second delivery of the command wants it.              *)
(***************************************************************************)
EXTENDS Integers, SequencesExt

CONSTANTS
    Connections,
    NodeOrder,        \* the nodes, in the order of their identifiers
    PlanOf,           \* PlanOf[n]: the plan of node n
    ResourcesOf,      \* ResourcesOf[n]: its resource keys
    Results,          \* what a worker may report
    Starts,           \* bound: states of the nodes to begin with
    LeaseTime,
    MaxClock,         \* bound: the clock stops here
    MaxAttempts,      \* bound: attempts of a node
    MaxTransactions,  \* bound: transactions of a behaviour
    NoOne

VARIABLES
    plan,      \* plan[p]: its committed row
    node,      \* node[n]: the committed state of node n
    attempts,  \* attempts[n]: its committed node_runs
    tx,        \* tx[c]: the transaction of connection c
    clock,
    begun      \* how many transactions began

vars == <<plan, node, attempts, tx, clock, begun>>

Nodes == ToSet(NodeOrder)
Plans == {PlanOf[n] : n \in Nodes}
Resources == UNION {ResourcesOf[n] : n \in Nodes}

PlanRecord == [state : {"ACTIVE", "FROZEN", "SUCCEEDED", "FAILED"}, replaced : BOOLEAN]
NodeStates == {"READY", "RUNNING", "RETRY_WAIT", "FROZEN"} \cup Results

(* late: a heartbeat renewed the lease after it had expired.               *)
Attempts == [state : NodeStates, until : Nat, superseded : BOOLEAN, late : BOOLEAN]

PlanRow(p) == <<"plan", p>>
NodeRow(n) == <<"node", n>>
RunRow(n, k) == <<"run", n, k>>
ResourceRow(r) == <<"resource", r>>
Rows == {PlanRow(p) : p \in Plans} \cup {NodeRow(n) : n \in Nodes}
        \cup {RunRow(n, k) : n \in Nodes, k \in 1..MaxAttempts}
        \cup {ResourceRow(r) : r \in Resources}

Claims == {"CLAIM_READY", "CLAIM_NEXT"}
OnPlan == {"CLAIM_READY", "FREEZE_PLAN", "RESUME", "REPLAN"}
OnRun == {"RESULT", "RETRY", "HEARTBEAT", "RECLAIM"}

(* nodes are what the operation is about, run the attempt and outcome the  *)
(* rest of its arguments; `now` was read before it began.  ready are the   *)
(* nodes it made READY, todo those it still has to, list the candidates,   *)
(* chosen the one it works on and claimed the one it will give out.        *)
Transactions == [op : Claims \cup OnPlan \cup OnRun \cup {"NONE", "FREEZE", "RECONCILE"},
                 plan : Plans \cup {NoOne}, nodes : SUBSET Nodes, run : 0..MaxAttempts,
                 outcome : Results \cup {NoOne, "ROOM", "CARD"}, now : 0..MaxClock,
                 step : {"LOCK", "PROMOTE", "TRY", "NODE", "RESOURCE", "HELD", "COMMIT"},
                 held : SUBSET Rows, ready : SUBSET Nodes, todo : SUBSET Nodes,
                 list : SUBSET Nodes, chosen : Nodes \cup {NoOne}, claimed : Nodes \cup {NoOne}]
None == [op |-> "NONE", plan |-> NoOne, nodes |-> {}, run |-> 0, outcome |-> NoOne, now |-> 0,
         step |-> "LOCK", held |-> {}, ready |-> {}, todo |-> {}, list |-> {},
         chosen |-> NoOne, claimed |-> NoOne]

-----------------------------------------------------------------------------
(* Rows and who holds them.                                                *)

Free(c, row) == \A d \in Connections \ {c} : row \notin tx[d].held

Latest(n) == attempts[n][Len(attempts[n])]
IsRunning(n) == attempts[n] # <<>> /\ Latest(n).state = "RUNNING"
InOrder(S, Row(_)) ==
    LET Member(n) == n \in S
        order == SelectSeq(NodeOrder, Member)
    IN [i \in DOMAIN order |-> Row(order[i])]
LatestRow(n) == RunRow(n, Len(attempts[n]))
LatestRows(S) == InOrder({n \in S : attempts[n] # <<>>}, LatestRow)

(* The attempt the caller named, or the latest ones of the nodes.          *)
RunRows(t) ==
    LET Named(n) == RunRow(n, t.run) IN
    IF t.op \in OnRun THEN InOrder(t.nodes, Named) ELSE LatestRows(t.nodes)

(* The rows an operation waits for: its plan, and then ...                 *)
PlanRows(t) ==
    IF t.op \in {"HEARTBEAT", "CLAIM_NEXT", "NONE"} THEN <<>> ELSE <<PlanRow(t.plan)>>
RowsOfPlan(t) ==
    CASE t.op \in {"HEARTBEAT", "RECLAIM"} -> RunRows(t)
      [] t.op \in {"RESULT", "RETRY", "FREEZE"} -> RunRows(t) \o InOrder(t.nodes, NodeRow)
      [] t.op = "RECONCILE" -> InOrder(t.nodes, NodeRow) \o RunRows(t)
      [] t.op = "REPLAN" ->
            LatestRows({n \in Nodes : PlanOf[n] = t.plan /\ node[n] = "SUCCEEDED"})
      [] OTHER -> <<>>

(* Mutant of Program: schedule_retry takes the attempt before the plan.    *)
ProgramRunFirst(t) ==
    IF t.op = "RETRY" THEN RowsOfPlan(t) \o PlanRows(t) ELSE PlanRows(t) \o RowsOfPlan(t)

Program(t) == PlanRows(t) \o RowsOfPlan(t)

Wanted(c) == SelectSeq(Program(tx[c]), LAMBDA row : row \notin tx[c].held)
Locked(c) == tx[c].step = "LOCK" /\ tx[c].op # "NONE" /\ Wanted(c) = <<>>

-----------------------------------------------------------------------------
(* The beginning and the end of a transaction.                             *)

Keep == UNCHANGED <<plan, node, attempts, clock, begun>>
Step(c, t) == tx' = [tx EXCEPT ![c] = t] /\ Keep
End(c) == tx' = [tx EXCEPT ![c] = None]

Begin(c, t) ==
    /\ tx[c].op = "NONE" /\ begun < MaxTransactions
    /\ tx' = [tx EXCEPT ![c] = [t EXCEPT !.now = clock]]
    /\ begun' = begun + 1
    /\ UNCHANGED <<plan, node, attempts, clock>>

BeginOnPlan(c, p, op) == Begin(c, [None EXCEPT !.op = op, !.plan = p])
BeginClaimNext(c) == Begin(c, [None EXCEPT !.op = "CLAIM_NEXT"])

(* The run is found without a lock: it never changes its plan and node.    *)
(* Workers begin with a run they hold, and others with an expired one.     *)
BeginOnRun(c, n, k, op, outcome) ==
    /\ k \in DOMAIN attempts[n] /\ attempts[n][k].state = "RUNNING"
    /\ (op = "RESULT") <=> (outcome # NoOne)
    /\ (op = "RECLAIM") <=> (clock >= attempts[n][k].until)
    /\ Begin(c, [None EXCEPT !.op = op, !.plan = PlanOf[n], !.nodes = {n}, !.run = k,
                             !.outcome = outcome])

BeginFreeze(c, p, S, scope) ==
    /\ S # {} /\ \A n \in S : PlanOf[n] = p
    /\ Begin(c, [None EXCEPT !.op = "FREEZE", !.plan = p, !.nodes = S, !.outcome = scope])

BeginReconcile(c, n, outcome) ==
    node[n] = "WAITING_RECONCILIATION" /\
    Begin(c, [None EXCEPT !.op = "RECONCILE", !.plan = PlanOf[n], !.nodes = {n},
                          !.outcome = outcome])

Lock(c) ==
    /\ Wanted(c) # <<>> /\ Free(c, Head(Wanted(c)))
    /\ Step(c, [tx[c] EXCEPT !.held = @ \cup {Head(Wanted(c))}])

Rollback(c) == tx[c].op # "NONE" /\ End(c) /\ Keep

Tick ==
    /\ clock < MaxClock
    /\ clock' = clock + 1
    /\ UNCHANGED <<plan, node, attempts, tx, begun>>

-----------------------------------------------------------------------------
(* Claims: claim_ready_nodes of one plan, claim_next_ready_nodes of all.   *)

IsCurrent(n) == plan[PlanOf[n]].state = "ACTIVE" /\ ~plan[PlanOf[n]].replaced
OfTransaction(c) == {n \in Nodes : tx[c].op = "CLAIM_NEXT" \/ PlanOf[n] = tx[c].plan}
Reads(c, n) == IF n \in tx[c].ready THEN "READY" ELSE node[n]

(* The UPDATE that makes due nodes READY finds its rows once, and takes    *)
(* them one by one, in an order of its own.  claim_next_ready_nodes does   *)
(* not hold their plans meanwhile.                                         *)
MissesItsPlan(c) == tx[c].op = "CLAIM_READY" /\ plan[tx[c].plan].state # "ACTIVE"

StartPromotion(c) ==
    /\ tx[c].op \in Claims /\ Locked(c) /\ ~MissesItsPlan(c)
    /\ LET due == {n \in OfTransaction(c) : IsCurrent(n) /\ node[n] = "RETRY_WAIT"} IN
       Step(c, [tx[c] EXCEPT !.step = "PROMOTE", !.todo = due])

PromoteRow(c, n) ==
    /\ tx[c].step = "PROMOTE" /\ n \in tx[c].todo /\ Free(c, NodeRow(n))
    /\ Step(c, [tx[c] EXCEPT !.todo = @ \ {n}, !.held = @ \cup {NodeRow(n)},
                             !.ready = @ \cup ({n} \cap {m \in Nodes : node[m] = "RETRY_WAIT"})])

SelectCandidates(c) ==
    LET ready == {n \in OfTransaction(c) : IsCurrent(n) /\ Reads(c, n) = "READY"}
        unlocked == {n \in ready : Free(c, NodeRow(n))}
    IN
    /\ tx[c].step = "PROMOTE" /\ tx[c].todo = {}
    /\ \/ /\ tx[c].op = "CLAIM_NEXT"
          /\ Step(c, [tx[c] EXCEPT !.step = "TRY", !.list = ready])
       \/ /\ tx[c].op = "CLAIM_READY"
          /\ Step(c, [tx[c] EXCEPT !.step = "TRY", !.list = unlocked,
                                   !.held = @ \cup {NodeRow(n) : n \in unlocked}])

(* SKIP LOCKED: a candidate whose plan or node another one holds, or that  *)
(* changed since the list was read, is passed over.                        *)
TryPlan(c, n) ==
    /\ tx[c].step = "TRY" /\ n \in tx[c].list
    /\ LET row == PlanRow(PlanOf[n])
           t == [tx[c] EXCEPT !.list = @ \ {n}]
       IN
       \/ /\ Free(c, row) /\ plan[PlanOf[n]].state = "ACTIVE"
          /\ Step(c, [t EXCEPT !.chosen = n, !.step = "NODE", !.held = @ \cup {row}])
       \/ /\ ~(Free(c, row) /\ plan[PlanOf[n]].state = "ACTIVE")
          /\ Step(c, t)

PassOver(t) == [t EXCEPT !.step = "TRY", !.chosen = NoOne]

TryNode(c) ==
    LET n == tx[c].chosen
        mayClaim == Free(c, NodeRow(n)) /\ Reads(c, n) = "READY" /\ IsCurrent(n)
    IN
    /\ tx[c].step = "NODE"
    /\ \/ mayClaim /\ Step(c, [tx[c] EXCEPT !.step = "RESOURCE", !.held = @ \cup {NodeRow(n)}])
       \/ ~mayClaim /\ Step(c, PassOver(tx[c]))

(* What a claim or a reclaim does when it does not get its resources.      *)
Refused(c) ==
    \/ tx[c].op \in Claims /\ Step(c, PassOver(tx[c]))
    \/ tx[c].op = "RECLAIM" /\ End(c) /\ Keep

(* _try_lock_resource_keys                                                 *)
MayTakeResources(c) ==
    \A r \in ResourcesOf[tx[c].chosen] : Free(c, ResourceRow(r))

TryResources(c) ==
    /\ tx[c].step = "RESOURCE"
    /\ \/ /\ MayTakeResources(c)
          /\ Step(c, [tx[c] EXCEPT !.step = "HELD",
                          !.held = @ \cup {ResourceRow(r) : r \in ResourcesOf[tx[c].chosen]}])
       \/ ~MayTakeResources(c) /\ Refused(c)

Shares(m, n) == m # n /\ ResourcesOf[m] \cap ResourcesOf[n] # {}

(* _resources_are_held                                                     *)
ResourcesAreHeld(n, now) ==
    \E m \in Nodes : Shares(m, n) /\ IsRunning(m) /\ Latest(m).until > now

CheckResources(c) ==
    /\ tx[c].step = "HELD"
    /\ \/ /\ ~ResourcesAreHeld(tx[c].chosen, tx[c].now)
          /\ Len(attempts[tx[c].chosen]) < MaxAttempts
          /\ Step(c, [tx[c] EXCEPT !.step = "COMMIT", !.claimed = tx[c].chosen])
       \/ ResourcesAreHeld(tx[c].chosen, tx[c].now) /\ Refused(c)

NewAttempt(now) ==
    [state |-> "RUNNING", until |-> now + LeaseTime, superseded |-> FALSE, late |-> FALSE]

(* A claim gives out at most one node (limit = 1) and commits what it made *)
(* READY also when it found none.                                          *)
CommitClaim(c) ==
    LET claimed == {tx[c].claimed} \cap Nodes IN
    /\ \/ tx[c].step = "COMMIT"
       \/ tx[c].step = "TRY" /\ tx[c].list = {}
       \/ Locked(c) /\ MissesItsPlan(c)
    /\ node' = [n \in Nodes |-> IF n \in claimed THEN "RUNNING" ELSE Reads(c, n)]
    /\ attempts' = [n \in Nodes |-> IF n \in claimed
                                    THEN Append(attempts[n], NewAttempt(tx[c].now))
                                    ELSE attempts[n]]
    /\ End(c)
    /\ UNCHANGED <<plan, clock, begun>>

(* reclaim_expired_node: an expired attempt that no event superseded.      *)
Reclaim(c) ==
    \E n \in tx[c].nodes :
        LET k == tx[c].run IN
        /\ tx[c].op = "RECLAIM" /\ Locked(c)
        /\ k = Len(attempts[n]) /\ IsRunning(n)
        /\ ~attempts[n][k].superseded /\ tx[c].now >= attempts[n][k].until
        /\ Step(c, [tx[c] EXCEPT !.step = "RESOURCE", !.chosen = n])

-----------------------------------------------------------------------------
(* What the other operations commit once they hold their rows; where a     *)
(* guard fails they raise, that is, Rollback.                              *)

Max2(i, j) == IF i > j THEN i ELSE j

(* _assert_live_current_claim                                              *)
IsLiveClaim(c, n) ==
    /\ tx[c].run = Len(attempts[n]) /\ IsRunning(n)
    /\ tx[c].now < Latest(n).until

SetLatest(n, run) == attempts' = [attempts EXCEPT ![n][Len(attempts[n])] = run]

Heartbeat(c) ==
    \E n \in tx[c].nodes :
        LET run == Latest(n)
            until == Max2(run.until, tx[c].now + LeaseTime)
        IN
        /\ tx[c].op = "HEARTBEAT" /\ Locked(c) /\ IsLiveClaim(c, n)
        /\ SetLatest(n, [run EXCEPT !.until = until, !.late = @ \/ clock >= run.until])
        /\ End(c)
        /\ UNCHANGED <<plan, node, clock, begun>>

ScheduleRetry(c) ==
    \E n \in tx[c].nodes :
        /\ tx[c].op = "RETRY" /\ Locked(c) /\ IsLiveClaim(c, n)
        /\ ~Latest(n).superseded /\ node[n] = "RUNNING"
        /\ SetLatest(n, [Latest(n) EXCEPT !.state = "RETRY_WAIT"])
        /\ node' = [node EXCEPT ![n] = "RETRY_WAIT"]
        /\ End(c)
        /\ UNCHANGED <<plan, clock, begun>>

(* The node and its attempt end, and with the last node the plan.  What a  *)
(* replan made history counts for no plan, except that it may fail it.     *)
Close(n, outcome) ==
    LET p == PlanOf[n]
        closed == [node EXCEPT ![n] = outcome]
        allSucceeded == ~plan[p].replaced
                        /\ \A m \in Nodes : PlanOf[m] = p => closed[m] = "SUCCEEDED"
        state == CASE outcome = "SUCCEEDED" /\ allSucceeded -> "SUCCEEDED"
                   [] outcome = "FAILED" /\ ~Latest(n).superseded -> "FAILED"
                   [] OTHER -> plan[p].state
    IN
    /\ node' = closed
    /\ SetLatest(n, [Latest(n) EXCEPT !.state = outcome])
    /\ plan' = [plan EXCEPT ![p].state = state]

RecordNodeResult(c) ==
    \E n \in tx[c].nodes :
        /\ tx[c].op = "RESULT" /\ Locked(c) /\ IsLiveClaim(c, n) /\ node[n] = "RUNNING"
        /\ Close(n, tx[c].outcome)
        /\ End(c)
        /\ UNCHANGED <<clock, begun>>

(* RECONCILE and reconcile_plan_reference.                                 *)
Reconcile(c) ==
    \E n \in tx[c].nodes :
        /\ tx[c].op = "RECONCILE" /\ Locked(c) /\ ~plan[PlanOf[n]].replaced
        /\ node[n] = "WAITING_RECONCILIATION" /\ attempts[n] # <<>>
        /\ Latest(n).state = "WAITING_RECONCILIATION"
        /\ Close(n, tx[c].outcome)
        /\ End(c)
        /\ UNCHANGED <<clock, begun>>

ApplyImpactFreeze(c) ==
    LET p == tx[c].plan
        Superseded(n) == [attempts[n] EXCEPT ![Len(attempts[n])].superseded = TRUE]
    IN
    /\ tx[c].op = "FREEZE" /\ Locked(c)
    /\ plan[p].state \in {"ACTIVE", "FROZEN"} /\ ~plan[p].replaced
    /\ attempts' = [n \in Nodes |-> IF n \in tx[c].nodes /\ attempts[n] # <<>>
                                    THEN Superseded(n) ELSE attempts[n]]
    /\ node' = [n \in Nodes |-> IF n \in tx[c].nodes /\ node[n] \in {"READY", "RETRY_WAIT"}
                                THEN "FROZEN" ELSE node[n]]
    /\ plan' = IF tx[c].outcome = "ROOM" THEN [plan EXCEPT ![p].state = "FROZEN"] ELSE plan
    /\ End(c)
    /\ UNCHANGED <<clock, begun>>

(* freeze_plan, RESUME and create_replan_version.                          *)
ChangePlan(c) ==
    LET p == tx[c].plan
        from == [FREEZE_PLAN |-> {"ACTIVE"}, RESUME |-> {"FROZEN"},
                 REPLAN |-> {"ACTIVE", "FROZEN", "SUCCEEDED", "FAILED"}]
        to == [FREEZE_PLAN |-> "FROZEN", RESUME |-> "ACTIVE", REPLAN |-> "ACTIVE"]
    IN
    /\ tx[c].op \in DOMAIN to /\ Locked(c)
    /\ plan[p].state \in from[tx[c].op]
    /\ tx[c].op = "REPLAN" => ~plan[p].replaced
    /\ plan' = [plan EXCEPT ![p] = [state |-> to[tx[c].op],
                                    replaced |-> plan[p].replaced \/ tx[c].op = "REPLAN"]]
    /\ End(c)
    /\ UNCHANGED <<node, attempts, clock, begun>>

-----------------------------------------------------------------------------
FirstAttempt(state) == [state |-> state, until |-> 1, superseded |-> FALSE, late |-> FALSE]

(* What one version of active plans, claimed once or not, may look like.   *)
Init ==
    /\ plan = [p \in Plans |-> [state |-> "ACTIVE", replaced |-> FALSE]]
    /\ node \in Starts /\ \A n \in Nodes : node[n] \in {"READY", "RUNNING", "RETRY_WAIT"}
    /\ \A m, n \in Nodes : Shares(m, n) => ~(node[m] = "RUNNING" /\ node[n] = "RUNNING")
    /\ attempts = [n \in Nodes |-> IF node[n] = "READY" THEN <<>> ELSE <<FirstAttempt(node[n])>>]
    /\ tx = [c \in Connections |-> None]
    /\ clock = 0 /\ begun = 0

Next ==
    \/ \E c \in Connections :
        \/ BeginClaimNext(c)
        \/ \E p \in Plans, op \in OnPlan : BeginOnPlan(c, p, op)
        \/ \E n \in Nodes, k \in 1..MaxAttempts, op \in OnRun, o \in Results \cup {NoOne} :
              BeginOnRun(c, n, k, op, o)
        \/ \E p \in Plans, S \in SUBSET Nodes, o \in {"ROOM", "CARD"} : BeginFreeze(c, p, S, o)
        \/ \E n \in Nodes, o \in Results \cap {"SUCCEEDED", "FAILED"} : BeginReconcile(c, n, o)
        \/ Lock(c) \/ Rollback(c)
        \/ StartPromotion(c) \/ \E n \in Nodes : PromoteRow(c, n)
        \/ SelectCandidates(c) \/ \E n \in Nodes : TryPlan(c, n)
        \/ TryNode(c) \/ TryResources(c) \/ CheckResources(c)
        \/ CommitClaim(c) \/ Reclaim(c)
        \/ Heartbeat(c) \/ ScheduleRetry(c) \/ RecordNodeResult(c) \/ Reconcile(c)
        \/ ApplyImpactFreeze(c) \/ ChangePlan(c)
    \/ Tick

Spec == Init /\ [][Next]_vars

-----------------------------------------------------------------------------
(* Rows and transactions keep their types.                                 *)
TypeOK ==
    /\ plan \in [Plans -> PlanRecord]
    /\ node \in [Nodes -> NodeStates]
    /\ \A n \in Nodes : /\ Len(attempts[n]) <= MaxAttempts
                        /\ \A k \in DOMAIN attempts[n] : attempts[n][k] \in Attempts
    /\ tx \in [Connections -> Transactions]
    /\ clock \in 0..MaxClock /\ begun \in 0..MaxTransactions

(* Nobody changes what a claim rests on before it commits: while it is on  *)
(* its way its plan stays active and its node READY, or, for a reclaim,    *)
(* the attempt it replaces running, and no claim beside it wants the same. *)
ClaimsInFlightHold ==
    \A c \in Connections :
        LET n == tx[c].claimed IN
        n # NoOne =>
            /\ IF tx[c].op = "RECLAIM"
               THEN IsRunning(n) /\ ~Latest(n).superseded
               ELSE IsCurrent(n) /\ Reads(c, n) = "READY" /\ node[n] \in {"READY", "RETRY_WAIT"}
            /\ \A d \in Connections \ {c} : tx[d].claimed # NoOne =>
                    tx[d].claimed # n /\ ~Shares(tx[d].claimed, n)

(* Two nodes that share a resource do not run together, unless a worker    *)
(* renewed a lease that had expired: a heartbeat takes no resource, and    *)
(* compares the lease with a time read before it waited.                   *)
ResourcesAreExclusive ==
    \A m, n \in Nodes :
        /\ Shares(m, n) /\ IsRunning(m) /\ IsRunning(n)
        /\ Latest(m).until > clock /\ Latest(n).until > clock
        => Latest(m).late \/ Latest(n).late

(* A node runs exactly when its latest attempt does, and the attempt that  *)
(* an event superseded is its last: neither a claim nor a reclaim that     *)
(* began before the freeze follows it.                                     *)
NodesAgree ==
    \A n \in Nodes :
        /\ (node[n] = "RUNNING") <=> IsRunning(n)
        /\ \A k \in DOMAIN attempts[n] : attempts[n][k].superseded => k = Len(attempts[n])

(* Who may be waiting for whom.                                            *)
WaitsFor(c) ==
    LET next == IF Wanted(c) = <<>> THEN {} ELSE {Head(Wanted(c))}
        rows == IF tx[c].step = "PROMOTE" THEN {NodeRow(n) : n \in tx[c].todo} ELSE next
    IN {d \in Connections \ {c} : rows \cap tx[d].held # {}}
CircularWaits == {S \in SUBSET Connections : S # {} /\ \A c \in S : WaitsFor(c) \cap S # {}}

(* "PlanRun -> NodeRun -> PlanNode" (store.py:3676, 3957, 4165): whoever   *)
(* takes its rows in this order never waits in a circle.  Only the UPDATE  *)
(* that makes retries READY, which takes nodes of any plan before their    *)
(* plans, can be part of one.                                              *)
LocksAreOrdered ==
    \A S \in CircularWaits :
        \E c \in S : tx[c].op = "CLAIM_NEXT" /\ tx[c].step = "PROMOTE"

(* "... so as to avoid a lock inversion with freeze" (store.py:3463): not  *)
(* so, and no run checks it.  The database aborts one of the two.          *)
DeadlockFree == CircularWaits = {}

(* What the row locks are for.                                             *)
LocksProtectClaims ==
    ClaimsInFlightHold /\ ResourcesAreExclusive /\ NodesAgree /\ LocksAreOrdered
=============================================================================
