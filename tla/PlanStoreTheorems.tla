------------------------- MODULE PlanStoreTheorems -------------------------
(* Theorems about PlanStore, for every set of plans, DAG, clock lag and bound:
   the store is well formed (StoreInv); what every step does to one node and
   its runs (Effect), and what follows from that alone (NodeInv); and the safety
   properties as theorems of the specification. *)
EXTENDS PlanStore, SequenceTheorems, TLAPS

-----------------------------------------------------------------------------
(* Typing of what the actions build. *)

\* The instants a caller may pass are integers.
LEMMA NowIsInt ==
    ASSUME TypeOK, NEW t \in Now
    PROVE  t \in Int /\ clock \in Nat
BY BoundsAssumption DEF TypeOK, Now, Clock

\* A node with a run has a latest one.
LEMMA LastRunType ==
    ASSUME TypeOK, NEW n \in Node, HasRun(n)
    PROVE  /\ Len(runs[n]) \in DOMAIN runs[n]
           /\ LastRun(n) \in NodeRunRecord
<1>1. runs[n] \in Seq(NodeRunRecord)
  BY DEF TypeOK
<1>2. runs[n] # <<>>
  BY DEF HasRun
<1>3. Len(runs[n]) \in Nat /\ DOMAIN runs[n] = 1..Len(runs[n]) /\ Len(runs[n]) # 0
  BY <1>1, <1>2, LenProperties, EmptySeq
<1> QED BY <1>1, <1>3, ElementOfSeq DEF LastRun

\* Any run in the history is a NodeRun.
LEMMA RunType ==
    ASSUME TypeOK, NEW n \in Node, NEW i \in DOMAIN runs[n]
    PROVE  /\ runs[n] \in Seq(NodeRunRecord)
           /\ i \in 1..Len(runs[n])
           /\ Len(runs[n]) \in Nat
           /\ runs[n][i] \in NodeRunRecord
<1>1. runs[n] \in Seq(NodeRunRecord)
  BY DEF TypeOK
<1>2. Len(runs[n]) \in Nat /\ DOMAIN runs[n] = 1..Len(runs[n])
  BY <1>1, LenProperties
<1> QED BY <1>1, <1>2, ElementOfSeq

\* Replacing one run of one node keeps the type of the histories.
LEMMA UpdateRunType ==
    ASSUME TypeOK, NEW n \in Node, NEW i \in DOMAIN runs[n], NEW r \in NodeRunRecord
    PROVE  [runs EXCEPT ![n] = [runs[n] EXCEPT ![i] = r]] \in [Node -> Seq(NodeRunRecord)]
<1>1. [runs[n] EXCEPT ![i] = r] \in Seq(NodeRunRecord)
  BY RunType, ExceptSeq
<1> QED BY <1>1 DEF TypeOK

\* So does a new claim.
LEMMA AppendRunType ==
    ASSUME TypeOK, NEW n \in Node, NEW r \in NodeRunRecord
    PROVE  Append(runs[n], r) \in Seq(NodeRunRecord)
BY AppendProperties DEF TypeOK

\* The run a claim or a takeover inserts is a NodeRun.
LEMMA NewRunType ==
    ASSUME TypeOK, NEW n \in Node, NEW t \in Int
    PROVE  NewRun(n, t) \in NodeRunRecord
<1>1. Len(runs[n]) \in Nat
  BY LenProperties DEF TypeOK
<1> QED BY <1>1, BoundsAssumption DEF NewRun, NodeRunRecord, NodeState

\* The nodes of a new version are nodes.
LEMMA NewNodesType ==
    ASSUME TypeOK, NEW p, NEW v, NEW reused, NEW t \in Int
    PROVE  WithNewNodes(p, v, reused, t) \in [Node -> NodeRecord]
<1>1. \A n \in Node : NewNode(n[3], reused, t) \in NodeRecord
  BY DEF NewNode, NodeRecord, NodeState
<1> QED BY <1>1 DEF WithNewNodes, TypeOK

\* Opening the dependents of a success keeps the type of the nodes.
LEMMA DependentsType ==
    ASSUME NEW nodes \in [Node -> NodeRecord], NEW p, NEW t \in Int
    PROVE  WithDependentsReady(nodes, p, t) \in [Node -> NodeRecord]
<1>1. \A n \in Node : [nodes[n] EXCEPT !.state = "READY", !.ready_at = t] \in NodeRecord
  BY DEF NodeRecord, NodeState
<1> QED BY <1>1 DEF WithDependentsReady

\* A node record with another state is one.
LEMMA NodeWithState ==
    ASSUME TypeOK, NEW n \in Node, NEW s \in NodeState
    PROVE  [node EXCEPT ![n].state = s] \in [Node -> NodeRecord]
BY DEF TypeOK, NodeRecord

\* Closing a node keeps the types of the three variables it writes.
LEMMA CloseNodeType ==
    ASSUME TypeOK, NEW n \in Node, NEW i \in DOMAIN runs[n], NEW s \in NodeState, NEW superseded,
           NEW t \in Int, CloseNode(n, i, s, superseded, t)
    PROVE  /\ planRun' \in [Plans -> PlanRunRecord]
           /\ node' \in [Node -> NodeRecord]
           /\ runs' \in [Node -> Seq(NodeRunRecord)]
<1> DEFINE closed == [node EXCEPT ![n].state = s]
           nodes  == IF s = "SUCCEEDED" THEN WithDependentsReady(closed, n[1], t) ELSE closed
<1>1. closed \in [Node -> NodeRecord]
  BY NodeWithState
<1>2. node' = nodes /\ node' \in [Node -> NodeRecord]
  BY <1>1, DependentsType DEF CloseNode
<1>3. runs' \in [Node -> Seq(NodeRunRecord)]
  <2>1. [runs[n][i] EXCEPT !.state = s] \in NodeRunRecord
    BY RunType DEF NodeRunRecord
  <2>2. runs' = [runs EXCEPT ![n] = [runs[n] EXCEPT ![i] = [runs[n][i] EXCEPT !.state = s]]]
    BY DEF CloseNode
  <2> QED BY <2>1, <2>2, UpdateRunType
<1>4. planRun' \in [Plans -> PlanRunRecord]
  <2>1. n[1] \in Plans
    BY DEF Node
  <2>2. PlanAfter(s, superseded, nodes, n[1]) \in PlanState \cup {"ABSENT"}
    BY <2>1 DEF PlanAfter, TypeOK, PlanRunRecord, PlanState
  <2>3. planRun' = [planRun EXCEPT ![n[1]].state = PlanAfter(s, superseded, nodes, n[1])]
    BY DEF CloseNode
  <2> QED BY <2>1, <2>2, <2>3 DEF TypeOK, PlanRunRecord
<1> QED BY <1>2, <1>3, <1>4

-----------------------------------------------------------------------------
(* The store is well formed. *)

\* Versions and their nodes exist together: a plan has its first version from
\* the start, the nodes of a version exist once it does, and only they run.
VersionsExist ==
    /\ \A p \in Plans : planRun[p].state = "ABSENT" <=> planRun[p].version = 0
    /\ \A n \in Node : node[n].state = "ABSENT" <=> planRun[n[1]].version < n[2]
    /\ \A n \in Node : HasRun(n) => node[n].state # "ABSENT"

\* A command about a node names its plan, its version and the state it was
\* issued for.
CommandsAwait ==
    \A c \in CommandIds :
        command[c] # None /\ command[c].type # "RESUME" =>
            /\ command[c].node \in Node
            /\ command[c].node[1] = command[c].plan
            /\ command[c].node[2] = command[c].expected_version
            /\ command[c].expected_status = AwaitedStatus[command[c].type]
            /\ command[c].type = "RECONCILE" => command[c].outcome \in {"SUCCEEDED", "FAILED"}

StoreInv == TypeOK /\ VersionsExist /\ CommandsAwait

\* Only creations touch which versions and nodes exist; every other action
\* keeps VersionsExist for that reason alone.
LEMMA VersionsKept ==
    ASSUME StoreInv,
           \A p \in Plans : /\ planRun'[p].version = planRun[p].version
                            /\ planRun'[p].state = "ABSENT" <=> planRun[p].state = "ABSENT",
           \A n \in Node : /\ node'[n].state = "ABSENT" <=> node[n].state = "ABSENT"
                           /\ runs'[n] # <<>> => HasRun(n) \/ node[n].state # "ABSENT"
    PROVE  VersionsExist'
BY DEF StoreInv, VersionsExist, HasRun, Node

\* Closing a node creates nothing.
LEMMA CloseNodeKeepsVersions ==
    ASSUME StoreInv, NEW n \in Node, NEW i \in DOMAIN runs[n], NEW s \in NodeState,
           NEW superseded, NEW t \in Int, CloseNode(n, i, s, superseded, t)
    PROVE  VersionsExist'
<1> DEFINE closed == [node EXCEPT ![n].state = s]
           nodes  == IF s = "SUCCEEDED" THEN WithDependentsReady(closed, n[1], t) ELSE closed
<1> USE DEF StoreInv
<1>1. n[1] \in Plans /\ node \in [Node -> NodeRecord] /\ planRun \in [Plans -> PlanRunRecord]
  BY DEF Node, TypeOK
<1>2. runs[n] # <<>> /\ node[n].state # "ABSENT"
  <2>1. runs[n] # <<>>
    BY RunType
  <2> QED BY <2>1 DEF VersionsExist, HasRun
<1>3. planRun[n[1]].state # "ABSENT"
  BY <1>1, <1>2 DEF VersionsExist, Node, Versions
<1>4. PlanAfter(s, superseded, nodes, n[1]) # "ABSENT"
  BY <1>3 DEF PlanAfter
<1>5. \A p \in Plans : /\ planRun'[p].version = planRun[p].version
                       /\ planRun'[p].state = "ABSENT" <=> planRun[p].state = "ABSENT"
  BY <1>1, <1>3, <1>4 DEF CloseNode, PlanRunRecord
<1>6. \A m \in Node : closed[m].state = "ABSENT" <=> node[m].state = "ABSENT"
  BY <1>1, <1>2 DEF NodeRecord, NodeState
<1>7. closed \in [Node -> NodeRecord]
  BY NodeWithState
<1>8. \A m \in Node : nodes[m].state = "ABSENT" <=> node[m].state = "ABSENT"
  BY <1>6, <1>7 DEF WithDependentsReady, NodeRecord
<1>9. \A m \in Node : runs'[m] # <<>> => HasRun(m)
  <2>1. \A m \in Node \ {n} : runs'[m] = runs[m]
    BY DEF CloseNode, TypeOK
  <2> QED BY <1>2, <2>1 DEF HasRun
<1>10. node' = nodes
  BY DEF CloseNode
<1> QED BY <1>5, <1>8, <1>9, <1>10, VersionsKept

\* The empty store is well formed.
LEMMA StoreInvInit == Init => StoreInv
<1> SUFFICES ASSUME Init PROVE StoreInv
  OBVIOUS
<1>1. TypeOK
  <2>1. runs \in [Node -> Seq(NodeRunRecord)]
    BY EmptySeq DEF Init
  <2> QED BY <2>1, BoundsAssumption
      DEF Init, TypeOK, Clock, AbsentPlan, PlanRunRecord, PlanState, FirstVersion,
          VersionRecord, AbsentNode, NodeRecord, NodeState
<1>2. VersionsExist
  BY BoundsAssumption DEF Init, VersionsExist, AbsentPlan, AbsentNode, HasRun, Node, Versions
<1>3. CommandsAwait
  BY DEF Init, CommandsAwait
<1> QED BY <1>1, <1>2, <1>3 DEF StoreInv

\* Creating or resuming a plan keeps the store well formed.
LEMMA CreateOrResumeKeepsStore ==
    ASSUME StoreInv, NEW p \in Plans, CreateOrResume(p)
    PROVE  StoreInv'
<1> USE DEF StoreInv
<1>1. clock \in Int /\ clock \in Nat
  BY BoundsAssumption DEF TypeOK, Clock
<1>2. node' \in [Node -> NodeRecord]
  BY <1>1, NewNodesType DEF CreateOrResume
<1>3. TypeOK'
  BY <1>2, BoundsAssumption
  DEF CreateOrResume, TypeOK, PlanRunRecord, PlanState
<1>4. \A q \in Plans : planRun'[q].state = "ABSENT" <=> planRun'[q].version = 0
  BY DEF CreateOrResume, TypeOK, PlanRunRecord, VersionsExist
<1>5. \A n \in Node : /\ node'[n].state = "ABSENT" <=> planRun'[n[1]].version < n[2]
                      /\ runs'[n] # <<>> => node'[n].state # "ABSENT"
  <2> TAKE n \in Node
  <2>0. n[1] \in Plans /\ n[2] \in 1..MaxVersion
    BY DEF Node, Versions
  <2>1. CASE n[1] = p /\ n[2] = 1
    <3>1. node'[n].state # "ABSENT"
      BY <2>1 DEF CreateOrResume, WithNewNodes, NewNode
    <3>2. planRun'[n[1]].version = 1
      BY <2>1 DEF CreateOrResume, TypeOK
    <3> QED BY <2>1, <3>1, <3>2
  <2>2. CASE n[1] = p /\ n[2] # 1
    <3>1. node'[n] = node[n] /\ runs'[n] = runs[n]
      BY <2>2 DEF CreateOrResume, WithNewNodes
    <3>2. planRun'[n[1]].version = 1 /\ planRun[n[1]].version = 0
      BY <2>2 DEF CreateOrResume, TypeOK, VersionsExist
    <3> QED BY <2>0, <2>2, <3>1, <3>2, BoundsAssumption DEF VersionsExist, HasRun
  <2>3. CASE n[1] # p
    <3>1. node'[n] = node[n] /\ runs'[n] = runs[n] /\ planRun'[n[1]] = planRun[n[1]]
      BY <2>0, <2>3 DEF CreateOrResume, WithNewNodes, TypeOK
    <3> QED BY <3>1 DEF VersionsExist, HasRun
  <2> QED BY <2>1, <2>2, <2>3
<1>6. VersionsExist'
  BY <1>4, <1>5 DEF VersionsExist, HasRun
<1>7. CommandsAwait'
  BY DEF CreateOrResume, CommandsAwait
<1> QED BY <1>3, <1>6, <1>7

\* A claim and its first run, written together, keep the store well formed.
LEMMA ClaimKeepsStore ==
    ASSUME StoreInv, NEW ps \in SUBSET Plans, NEW byPriority, NEW t \in Now,
           Claim(ps, byPriority, t)
    PROVE  StoreInv'
<1> USE DEF StoreInv
<1>0. t \in Int
  BY NowIsInt
<1> DEFINE promoted == Promoted(ps, t)
<1>1. promoted \in [Node -> NodeRecord]
  <2>1. \A n \in Node : [node[n] EXCEPT !.state = "READY", !.retry_at = None, !.ready_at = t]
                           \in NodeRecord
    BY <1>0 DEF TypeOK, NodeRecord, NodeState
  <2> QED BY <2>1 DEF Promoted, TypeOK
<1>2. \A n \in Node : promoted[n].state = "ABSENT" <=> node[n].state = "ABSENT"
  BY DEF Promoted, DueRetries, TypeOK, NodeRecord
<1>3. PICK S \in SUBSET Node :
         /\ \A n \in S : promoted[n].state = "READY"
         /\ node' = [n \in Node |-> IF n \in S THEN [promoted[n] EXCEPT !.state = "RUNNING"]
                                    ELSE promoted[n]]
         /\ runs' = [n \in Node |-> IF n \in S THEN Append(runs[n], NewRun(n, t)) ELSE runs[n]]
         /\ UNCHANGED <<clock, planRun, version, command, ledger>>
  <2> DEFINE candidates == {n \in Schedulable(ps) : promoted[n].state = "READY"
                                                     /\ Len(runs[n]) < MaxRuns}
  <2>1. candidates \in SUBSET Node
    BY DEF Schedulable, CurrentNodes
  <2>2. PICK S \in SUBSET candidates :
           /\ node' = [n \in Node |-> IF n \in S THEN [promoted[n] EXCEPT !.state = "RUNNING"]
                                      ELSE promoted[n]]
           /\ runs' = [n \in Node |-> IF n \in S THEN Append(runs[n], NewRun(n, t)) ELSE runs[n]]
           /\ UNCHANGED <<clock, planRun, version, command, ledger>>
    BY Zenon DEF Claim
  <2>3. S \in SUBSET Node /\ \A n \in S : promoted[n].state = "READY"
    BY <2>1
  <2> HIDE DEF promoted
  <2> QED BY <2>2, <2>3
<1>4. TypeOK'
  <2>1. node' \in [Node -> NodeRecord]
    <3>1. \A n \in Node : [promoted[n] EXCEPT !.state = "RUNNING"] \in NodeRecord
      BY <1>1 DEF NodeRecord, NodeState
    <3> QED BY <1>1, <1>3, <3>1
  <2>2. runs' \in [Node -> Seq(NodeRunRecord)]
    BY <1>0, <1>3, NewRunType, AppendRunType DEF TypeOK
  <2> QED BY <1>3, <2>1, <2>2 DEF TypeOK
<1>5. \A n \in Node : node'[n].state = "ABSENT" <=> node[n].state = "ABSENT"
  <2>1. \A n \in Node : [promoted[n] EXCEPT !.state = "RUNNING"].state = "RUNNING"
    BY <1>1 DEF NodeRecord
  <2> QED BY <1>2, <1>3, <2>1
<1>6. \A n \in Node : runs'[n] # <<>> => HasRun(n) \/ node[n].state # "ABSENT"
  BY <1>2, <1>3 DEF HasRun
<1>7. VersionsExist'
  BY <1>3, <1>5, <1>6, VersionsKept
<1>8. CommandsAwait'
  BY <1>3 DEF CommandsAwait
<1> QED BY <1>4, <1>7, <1>8

\* The actions of the holder of a claim, and the takeover of a lost one.
LEMMA WorkersKeepStore ==
    ASSUME StoreInv, NEW t \in Now, NEW n \in Node, NEW i \in DOMAIN runs[n],
           \/ ReclaimExpiredNode(n, i, t)
           \/ HeartbeatNodeRun(n, i, t)
           \/ \E f \in Fingerprints : RecordNodeInput(n, i, f, t)
           \/ \E d \in RetryDelays : ScheduleRetry(n, i, t, t + d)
           \/ \E s \in ResultStates : RecordNodeResult(n, i, s, t)
    PROVE  StoreInv'
<1> USE DEF StoreInv
<1>0. t \in Int
  BY NowIsInt
<1>1. /\ runs \in [Node -> Seq(NodeRunRecord)] /\ runs[n][i] \in NodeRunRecord
      /\ runs[n] # <<>> /\ node[n].state # "ABSENT"
  <2>1. runs[n] # <<>>
    BY RunType
  <2> QED BY <2>1, RunType DEF TypeOK, VersionsExist, HasRun
<1>2. CASE ReclaimExpiredNode(n, i, t)
  <2> DEFINE r == [NewRun(n, t) EXCEPT !.input_fingerprint = runs[n][i].input_fingerprint]
  <2>1. r \in NodeRunRecord
    BY <1>0, <1>1, NewRunType DEF NodeRunRecord
  <2>2. runs' = [runs EXCEPT ![n] = Append(runs[n], r)]
    BY <1>2 DEF ReclaimExpiredNode
  <2>3. runs' \in [Node -> Seq(NodeRunRecord)]
    BY <1>1, <2>1, <2>2, AppendRunType
  <2>4. TypeOK'
    BY <1>2, <2>3 DEF ReclaimExpiredNode, TypeOK
  <2>5. \A m \in Node : runs'[m] # <<>> => HasRun(m) \/ node[m].state # "ABSENT"
    BY <1>1, <2>2 DEF HasRun
  <2>6. VersionsExist'
    BY <1>2, <2>5, VersionsKept DEF ReclaimExpiredNode
  <2> QED BY <1>2, <2>4, <2>6 DEF ReclaimExpiredNode, CommandsAwait
<1>3. CASE HeartbeatNodeRun(n, i, t)
  <2> DEFINE r == [runs[n][i] EXCEPT !.lease_until = IF t + Lease > @ THEN t + Lease ELSE @]
  <2>0. t + Lease \in Int /\ runs[n][i].lease_until \in Int
    BY <1>0, <1>1, BoundsAssumption DEF NodeRunRecord
  <2>1. r \in NodeRunRecord
    BY <1>1, <2>0 DEF NodeRunRecord
  <2>2. runs' = [runs EXCEPT ![n] = [runs[n] EXCEPT ![i] = r]]
    BY <1>3 DEF HeartbeatNodeRun
  <2>3. runs' \in [Node -> Seq(NodeRunRecord)]
    BY <2>1, <2>2, UpdateRunType
  <2>4. TypeOK'
    BY <1>3, <2>3 DEF HeartbeatNodeRun, TypeOK
  <2>5. \A m \in Node : runs'[m] # <<>> => HasRun(m) \/ node[m].state # "ABSENT"
    BY <1>1, <2>2 DEF HasRun
  <2>6. VersionsExist'
    BY <1>3, <2>5, VersionsKept DEF HeartbeatNodeRun
  <2> QED BY <1>3, <2>4, <2>6 DEF HeartbeatNodeRun, CommandsAwait
<1>4. ASSUME NEW f \in Fingerprints, RecordNodeInput(n, i, f, t) PROVE StoreInv'
  <2> DEFINE r == [runs[n][i] EXCEPT !.input_fingerprint = f]
  <2>1. r \in NodeRunRecord
    BY <1>1 DEF NodeRunRecord
  <2>2. runs' = [runs EXCEPT ![n] = [runs[n] EXCEPT ![i] = r]]
    BY <1>4 DEF RecordNodeInput
  <2>3. runs' \in [Node -> Seq(NodeRunRecord)]
    BY <2>1, <2>2, UpdateRunType
  <2>4. TypeOK'
    BY <1>4, <2>3 DEF RecordNodeInput, TypeOK
  <2>5. \A m \in Node : runs'[m] # <<>> => HasRun(m) \/ node[m].state # "ABSENT"
    BY <1>1, <2>2 DEF HasRun
  <2>6. VersionsExist'
    BY <1>4, <2>5, VersionsKept DEF RecordNodeInput
  <2> QED BY <1>4, <2>4, <2>6 DEF RecordNodeInput, CommandsAwait
<1>5. ASSUME NEW d \in RetryDelays, ScheduleRetry(n, i, t, t + d) PROVE StoreInv'
  <2> DEFINE r == [runs[n][i] EXCEPT !.state = "RETRY_WAIT"]
             x == [node[n] EXCEPT !.state = "RETRY_WAIT", !.retry_at = t + d]
  <2>1. r \in NodeRunRecord
    BY <1>1 DEF NodeRunRecord, NodeState
  <2>2. runs' = [runs EXCEPT ![n] = [runs[n] EXCEPT ![i] = r]]
    BY <1>5 DEF ScheduleRetry
  <2>3. runs' \in [Node -> Seq(NodeRunRecord)]
    BY <2>1, <2>2, UpdateRunType
  <2>0. t + d \in Int
    BY <1>0, BoundsAssumption
  <2>4. x \in NodeRecord /\ x.state = "RETRY_WAIT"
    BY <2>0 DEF TypeOK, NodeRecord, NodeState
  <2>5. node' = [node EXCEPT ![n] = x]
    BY <1>5 DEF ScheduleRetry, TypeOK, NodeRecord
  <2>6. node' \in [Node -> NodeRecord]
    BY <2>4, <2>5 DEF TypeOK
  <2>7. TypeOK'
    BY <1>5, <2>3, <2>6 DEF ScheduleRetry, TypeOK
  <2>8. \A m \in Node : /\ node'[m].state = "ABSENT" <=> node[m].state = "ABSENT"
                        /\ runs'[m] # <<>> => HasRun(m) \/ node[m].state # "ABSENT"
    BY <1>1, <2>2, <2>4, <2>5 DEF HasRun, TypeOK
  <2>9. VersionsExist'
    BY <1>5, <2>8, VersionsKept DEF ScheduleRetry
  <2> QED BY <1>5, <2>7, <2>9 DEF ScheduleRetry, CommandsAwait
<1>6. ASSUME NEW s \in ResultStates, RecordNodeResult(n, i, s, t) PROVE StoreInv'
  <2>1. s \in NodeState /\ CloseNode(n, i, s, runs[n][i].superseded_by # None, t)
    BY <1>6, ResultStatesAssumption DEF RecordNodeResult
  <2>2. TypeOK'
    BY <1>0, <1>6, <2>1, CloseNodeType DEF RecordNodeResult, TypeOK
  <2>3. VersionsExist'
    BY <1>0, <2>1, CloseNodeKeepsVersions
  <2> QED BY <1>6, <2>2, <2>3 DEF RecordNodeResult, CommandsAwait
<1> QED BY <1>2, <1>3, <1>4, <1>5, <1>6

\* Actions that only move a PlanRun between the states of an existing plan.
LEMMA PlanStatesKeepStore ==
    ASSUME StoreInv, NEW p \in Plans,
           \/ FreezePlan(p)
           \/ RecordReconciliationFailure(p)
           \/ ClearReconciliationFailure(p)
           \/ \E v \in Versions, signature \in Signatures, sources \in SUBSET Events :
                 RefuseReplan(p, v, signature, sources)
    PROVE  StoreInv'
<1> USE DEF StoreInv
<1>1. UNCHANGED <<clock, version, node, runs, command, ledger>>
  BY DEF FreezePlan, RecordReconciliationFailure, ClearReconciliationFailure, RefuseReplan
<1>2. planRun[p] \in PlanRunRecord /\ planRun \in [Plans -> PlanRunRecord]
  BY DEF TypeOK
<1>3. PICK r \in PlanRunRecord :
         /\ planRun' = [planRun EXCEPT ![p] = r]
         /\ r.version = planRun[p].version
         /\ r.state = "ABSENT" <=> planRun[p].state = "ABSENT"
  <2>1. CASE FreezePlan(p)
    <3> DEFINE r == [planRun[p] EXCEPT !.state = "FROZEN"]
    <3>1. r \in PlanRunRecord /\ r.version = planRun[p].version
          /\ (r.state = "ABSENT" <=> planRun[p].state = "ABSENT")
      BY <1>2, <2>1 DEF FreezePlan, PlanRunRecord, PlanState
    <3>2. planRun' = [planRun EXCEPT ![p] = r]
      BY <1>2, <2>1 DEF FreezePlan, PlanRunRecord
    <3> QED BY <3>1, <3>2
  <2>2. CASE RecordReconciliationFailure(p)
    <3> DEFINE r == [planRun[p] EXCEPT !.state = IF @ = "ACTIVE" THEN "FROZEN" ELSE @,
                                   !.reconciliation_required = TRUE]
    <3>1. r \in PlanRunRecord /\ r.version = planRun[p].version
          /\ (r.state = "ABSENT" <=> planRun[p].state = "ABSENT")
      BY <1>2, <2>2 DEF RecordReconciliationFailure, PlanRunRecord, PlanState
    <3>2. planRun' = [planRun EXCEPT ![p] = r]
      BY <1>2, <2>2 DEF RecordReconciliationFailure, PlanRunRecord
    <3> QED BY <3>1, <3>2
  <2>3. CASE ClearReconciliationFailure(p)
    <3> DEFINE r == [planRun[p] EXCEPT !.reconciliation_required = FALSE]
    <3>1. r \in PlanRunRecord /\ r.version = planRun[p].version
          /\ (r.state = "ABSENT" <=> planRun[p].state = "ABSENT")
      BY <1>2, <2>3 DEF ClearReconciliationFailure, PlanRunRecord, PlanState
    <3>2. planRun' = [planRun EXCEPT ![p] = r]
      BY <1>2, <2>3 DEF ClearReconciliationFailure, PlanRunRecord
    <3> QED BY <3>1, <3>2
  <2>4. CASE \E v \in Versions, signature \in Signatures, sources \in SUBSET Events :
                RefuseReplan(p, v, signature, sources)
    <3> DEFINE r == [planRun[p] EXCEPT !.state = "FROZEN"]
    <3>1. r \in PlanRunRecord /\ r.version = planRun[p].version
          /\ (r.state = "ABSENT" <=> planRun[p].state = "ABSENT")
      BY <1>2, <2>4 DEF RefuseReplan, PlanRunRecord, PlanState
    <3>2. planRun' = [planRun EXCEPT ![p] = r]
      BY <1>2, <2>4 DEF RefuseReplan, PlanRunRecord
    <3> QED BY <3>1, <3>2
  <2> QED BY <2>1, <2>2, <2>3, <2>4
<1>4. /\ planRun' \in [Plans -> PlanRunRecord]
      /\ \A q \in Plans : /\ planRun'[q].version = planRun[q].version
                          /\ planRun'[q].state = "ABSENT" <=> planRun[q].state = "ABSENT"
  BY <1>2, <1>3
<1>5. VersionsExist'
  BY <1>1, <1>4, VersionsKept DEF HasRun
<1> QED BY <1>1, <1>4, <1>5 DEF TypeOK, CommandsAwait

\* Freezing one version for an event keeps the store well formed.
LEMMA ImpactFreezeKeepsStore ==
    ASSUME StoreInv, NEW p \in Plans, NEW v \in Versions, NEW e \in Events,
           NEW keys, NEW global, ApplyImpactFreeze(p, v, e, keys, global)
    PROVE  StoreInv'
<1> USE DEF StoreInv
<1> DEFINE affected == {n \in CurrentNodes(p) : n[3] \in keys}
           Marked(n) == [runs[n] EXCEPT ![Len(runs[n])] = [LastRun(n) EXCEPT !.superseded_by = e]]
           frozenPlan == [planRun[p] EXCEPT !.state = IF global THEN "FROZEN" ELSE @]
<1>1. /\ planRun \in [Plans -> PlanRunRecord] /\ node \in [Node -> NodeRecord]
      /\ runs \in [Node -> Seq(NodeRunRecord)]
  BY DEF TypeOK
<1>2. \A n \in Node : runs'[n] = runs[n] \/ (HasRun(n) /\ runs'[n] = Marked(n))
  BY <1>1 DEF ApplyImpactFreeze, LastRun
<1>3. runs' \in [Node -> Seq(NodeRunRecord)]
  <2>1. \A n \in Node : HasRun(n) => Marked(n) \in Seq(NodeRunRecord)
    <3> SUFFICES ASSUME NEW n \in Node, HasRun(n) PROVE Marked(n) \in Seq(NodeRunRecord)
      OBVIOUS
    <3>1. [LastRun(n) EXCEPT !.superseded_by = e] \in NodeRunRecord
      BY LastRunType DEF NodeRunRecord
    <3>2. Len(runs[n]) \in 1..Len(runs[n]) /\ runs[n] \in Seq(NodeRunRecord)
      BY LastRunType, RunType
    <3> QED BY <3>1, <3>2, ExceptSeq
  <2>2. runs' = [n \in Node |-> IF n \in affected /\ HasRun(n) /\ LastRun(n).superseded_by = None
                                THEN Marked(n) ELSE runs[n]]
    BY DEF ApplyImpactFreeze, LastRun
  <2> HIDE DEF affected, Marked
  <2> QED BY <1>1, <2>1, <2>2
<1>4. /\ node' \in [Node -> NodeRecord]
      /\ \A n \in Node : node'[n].state = "ABSENT" <=> node[n].state = "ABSENT"
  <2>1. \A n \in Node : /\ [node[n] EXCEPT !.state = "FROZEN"] \in NodeRecord
                        /\ [node[n] EXCEPT !.state = "FROZEN"].state = "FROZEN"
    BY <1>1 DEF NodeRecord, NodeState
  <2>2. node' = [n \in Node |-> IF n \in affected /\ node[n].state \in Freezable
                                THEN [node[n] EXCEPT !.state = "FROZEN"] ELSE node[n]]
    BY DEF ApplyImpactFreeze
  <2> HIDE DEF affected
  <2> QED BY <1>1, <2>1, <2>2 DEF Freezable
<1>5. /\ planRun' \in [Plans -> PlanRunRecord]
      /\ \A q \in Plans : /\ planRun'[q].version = planRun[q].version
                          /\ planRun'[q].state = "ABSENT" <=> planRun[q].state = "ABSENT"
  <2>1. /\ frozenPlan \in PlanRunRecord /\ frozenPlan.version = planRun[p].version
        /\ frozenPlan.state # "ABSENT" /\ planRun[p].state # "ABSENT"
    BY <1>1 DEF ApplyImpactFreeze, PlanRunRecord, PlanState
  <2>2. planRun' = [planRun EXCEPT ![p] = frozenPlan]
    BY <1>1 DEF ApplyImpactFreeze, PlanRunRecord
  <2> QED BY <1>1, <2>1, <2>2
<1>6. UNCHANGED <<clock, version, command, ledger>>
  BY DEF ApplyImpactFreeze
<1>7. \A n \in Node : runs'[n] # <<>> => HasRun(n) \/ node[n].state # "ABSENT"
  BY <1>2 DEF HasRun
<1>8. VersionsExist'
  BY <1>4, <1>5, <1>7, VersionsKept
<1> QED BY <1>3, <1>4, <1>5, <1>6, <1>8 DEF TypeOK, CommandsAwait

\* Publishing a version over a frozen one keeps the store well formed.
LEMMA ReplanKeepsStore ==
    ASSUME StoreInv, NEW p \in Plans, NEW v \in Versions, NEW signature \in Signatures,
           NEW sources \in SUBSET Events, NEW reused, NEW t \in 0..clock,
           CreateReplanVersion(p, v, signature, sources, reused, t)
    PROVE  StoreInv'
<1> USE DEF StoreInv
<1> DEFINE next == planRun[p].version + 1
<1>0. t \in Int /\ planRun \in [Plans -> PlanRunRecord] /\ version \in [Plans -> [Versions -> VersionRecord]]
  BY DEF TypeOK
<1>1. next \in Versions /\ planRun[p].version \in Nat
  BY <1>0, BoundsAssumption DEF CreateReplanVersion, LoopsOrExhausted, PlanRunRecord, Versions
<1>2. node' \in [Node -> NodeRecord]
  BY <1>0, NewNodesType DEF CreateReplanVersion
<1>3. version' \in [Plans -> [Versions -> VersionRecord]]
  <2>1. [source_event_ids |-> sources, signature |-> signature] \in VersionRecord
    BY DEF VersionRecord
  <2> QED BY <1>0, <1>1, <2>1 DEF CreateReplanVersion
<1>4. /\ planRun' \in [Plans -> PlanRunRecord]
      /\ planRun'[p].version = next /\ planRun'[p].state = "ACTIVE"
      /\ \A q \in Plans \ {p} : planRun'[q] = planRun[q]
  <2> DEFINE r == [planRun[p] EXCEPT !.version = next, !.state = "ACTIVE"]
  <2>1. r \in PlanRunRecord /\ r.version = next /\ r.state = "ACTIVE"
    <3>1. next \in 0..MaxVersion
      BY <1>1, BoundsAssumption DEF Versions
    <3> HIDE DEF next
    <3> QED BY <1>0, <3>1 DEF PlanRunRecord, PlanState
  <2>2. planRun' = [planRun EXCEPT ![p] = r]
    BY <1>0 DEF CreateReplanVersion, PlanRunRecord
  <2> QED BY <1>0, <2>1, <2>2
<1>5. UNCHANGED <<clock, runs, command, ledger>>
  BY DEF CreateReplanVersion
<1>6. \A n \in Node : /\ node'[n].state = "ABSENT" <=> planRun'[n[1]].version < n[2]
                      /\ HasRun(n) => node'[n].state # "ABSENT"
  <2> TAKE n \in Node
  <2>0. n[1] \in Plans /\ n[2] \in Nat
    BY BoundsAssumption DEF Node, Versions
  <2>1. CASE n[1] = p /\ n[2] = next
    <3>1. node'[n].state # "ABSENT"
      BY <2>1 DEF CreateReplanVersion, WithNewNodes, NewNode
    <3> QED BY <1>1, <1>4, <2>1, <3>1
  <2>2. CASE n[1] = p /\ n[2] # next
    <3>1. node'[n] = node[n]
      BY <2>2 DEF CreateReplanVersion, WithNewNodes
    <3> QED BY <1>1, <1>4, <2>0, <2>2, <3>1 DEF VersionsExist, HasRun
  <2>3. CASE n[1] # p
    <3>1. node'[n] = node[n]
      BY <2>3 DEF CreateReplanVersion, WithNewNodes
    <3> QED BY <1>4, <2>0, <2>3, <3>1 DEF VersionsExist, HasRun
  <2> QED BY <2>1, <2>2, <2>3
<1>7. \A q \in Plans : planRun'[q].state = "ABSENT" <=> planRun'[q].version = 0
  BY <1>1, <1>4 DEF VersionsExist
<1>8. VersionsExist'
  BY <1>5, <1>6, <1>7 DEF VersionsExist, HasRun
<1> QED BY <1>2, <1>3, <1>4, <1>5, <1>8 DEF TypeOK, CommandsAwait

\* A reconciliation closes the latest run of its node as a worker's result would.
LEMMA ReconciliationCloses ==
    ASSUME StoreInv, NEW n \in Node, NEW outcome \in {"SUCCEEDED", "FAILED"}, NEW t \in Int,
           CloseReconciliation(n, outcome, t)
    PROVE  /\ planRun' \in [Plans -> PlanRunRecord]
           /\ node' \in [Node -> NodeRecord]
           /\ runs' \in [Node -> Seq(NodeRunRecord)]
           /\ VersionsExist'
<1> USE DEF StoreInv
<1>1. /\ outcome \in NodeState /\ Len(runs[n]) \in DOMAIN runs[n]
      /\ CloseNode(n, Len(runs[n]), outcome, FALSE, t)
  BY LastRunType DEF CloseReconciliation, NodeState
<1> QED BY <1>1, CloseNodeType, CloseNodeKeepsVersions

\* Every business command keeps the store well formed, whichever kind it is.
LEMMA SubmitKeepsStore ==
    ASSUME StoreInv, NEW c \in CommandIds, NEW t \in Now, SubmitCommand(c, t)
    PROVE  StoreInv'
<1> USE DEF StoreInv
<1> DEFINE cmd == command[c]
<1>0. /\ t \in Int /\ cmd \in CommandRecord /\ cmd # None
      /\ planRun \in [Plans -> PlanRunRecord] /\ node \in [Node -> NodeRecord]
  BY NowIsInt DEF SubmitCommand, TypeOK
<1>1. UNCHANGED <<clock, version, command>> /\ CommandsAwait'
  BY DEF SubmitCommand, CommandsAwait
<1>2. ledger' \in [CommandIds -> Reasons \cup {None}]
  <2>1. Verdict(cmd, t) \in Reasons
    BY DEF Verdict, Reasons
  <2> QED BY <2>1 DEF SubmitCommand, TypeOK
<1>3. /\ planRun' \in [Plans -> PlanRunRecord] /\ node' \in [Node -> NodeRecord]
      /\ runs' \in [Node -> Seq(NodeRunRecord)]
      /\ VersionsExist'
  <2>1. CASE Verdict(cmd, t) # "ACCEPTED"
    <3>1. UNCHANGED <<planRun, node, runs>>
      BY <2>1 DEF SubmitCommand
    <3> QED BY <3>1 DEF TypeOK, VersionsExist, HasRun
  <2>2. CASE Verdict(cmd, t) = "ACCEPTED" /\ cmd.type = "RESUME" /\ Resume(cmd.plan)
    <3> DEFINE r == [planRun[cmd.plan] EXCEPT !.state = "ACTIVE"]
    <3>1. cmd.plan \in Plans /\ planRun[cmd.plan].state = "FROZEN"
      BY <1>0, <2>2 DEF Verdict, CommandRecord, Resumable
    <3>2. /\ r \in PlanRunRecord /\ r.version = planRun[cmd.plan].version
          /\ r.state # "ABSENT"
      BY <1>0, <3>1 DEF PlanRunRecord, PlanState
    <3>3. planRun' = [planRun EXCEPT ![cmd.plan] = r] /\ UNCHANGED <<node, runs>>
      BY <1>0, <2>2 DEF Resume, PlanRunRecord
    <3>4. \A p \in Plans : /\ planRun'[p].version = planRun[p].version
                           /\ planRun'[p].state = "ABSENT" <=> planRun[p].state = "ABSENT"
      BY <1>0, <3>1, <3>2, <3>3
    <3> QED BY <1>0, <3>1, <3>2, <3>3, <3>4, VersionsKept DEF TypeOK, HasRun
  <2>3. ASSUME Verdict(cmd, t) = "ACCEPTED", cmd.type # "RESUME"
        PROVE  /\ cmd.node \in Node
               /\ node[cmd.node].state = AwaitedStatus[cmd.type]
    BY <1>0, <2>3 DEF CommandsAwait, Verdict
  <2>4. CASE Verdict(cmd, t) = "ACCEPTED" /\ cmd.type = "APPROVE" /\ Approve(cmd.node, t)
    <3> DEFINE x == [node[cmd.node] EXCEPT !.state = "READY", !.ready_at = t]
    <3>1. cmd.node \in Node /\ node[cmd.node].state = "WAITING_APPROVAL"
      BY <2>3, <2>4 DEF AwaitedStatus
    <3>2. x \in NodeRecord /\ x.state = "READY"
      BY <1>0, <3>1 DEF NodeRecord, NodeState
    <3>3. node' = [node EXCEPT ![cmd.node] = x] /\ UNCHANGED <<planRun, runs>>
      BY <1>0, <2>4 DEF Approve, NodeRecord
    <3>4. \A n \in Node : node'[n].state = "ABSENT" <=> node[n].state = "ABSENT"
      BY <1>0, <3>1, <3>2, <3>3
    <3> QED BY <1>0, <3>1, <3>2, <3>3, <3>4, VersionsKept DEF TypeOK, HasRun
  <2>5. CASE Verdict(cmd, t) = "ACCEPTED" /\ cmd.type = "REJECT" /\ Reject(cmd.node)
    <3> DEFINE x == [node[cmd.node] EXCEPT !.state = "FAILED"]
               p == cmd.node[1]
               r == [planRun[p] EXCEPT !.state = "FAILED"]
    <3>1. cmd.node \in Node /\ node[cmd.node].state = "WAITING_APPROVAL" /\ p \in Plans
      BY <2>3, <2>5 DEF AwaitedStatus, Node
    <3>2. planRun[p].state # "ABSENT"
      BY <3>1, <1>0 DEF VersionsExist, Node, Versions
    <3>3. /\ x \in NodeRecord /\ x.state = "FAILED"
          /\ r \in PlanRunRecord /\ r.version = planRun[p].version /\ r.state = "FAILED"
      BY <1>0, <3>1 DEF NodeRecord, NodeState, PlanRunRecord, PlanState
    <3>4. /\ node' = [node EXCEPT ![cmd.node] = x] /\ planRun' = [planRun EXCEPT ![p] = r]
          /\ UNCHANGED runs
      BY <1>0, <2>5 DEF Reject, NodeRecord, PlanRunRecord
    <3>5. /\ \A n \in Node : node'[n].state = "ABSENT" <=> node[n].state = "ABSENT"
          /\ \A q \in Plans : /\ planRun'[q].version = planRun[q].version
                              /\ planRun'[q].state = "ABSENT" <=> planRun[q].state = "ABSENT"
      BY <1>0, <3>1, <3>2, <3>3, <3>4
    <3> QED BY <1>0, <3>1, <3>3, <3>4, <3>5, VersionsKept DEF TypeOK, HasRun
  <2>6. CASE Verdict(cmd, t) = "ACCEPTED" /\ cmd.type = "RECONCILE"
             /\ CloseReconciliation(cmd.node, cmd.outcome, t)
    <3>1. cmd.node \in Node /\ cmd.outcome \in {"SUCCEEDED", "FAILED"}
      BY <1>0, <2>6 DEF CommandsAwait
    <3> QED BY <1>0, <2>6, <3>1, ReconciliationCloses
  <2> QED BY <2>1, <2>2, <2>4, <2>5, <2>6 DEF SubmitCommand
<1> QED BY <1>1, <1>2, <1>3 DEF TypeOK

\* The coordinator's reconciliation.
LEMMA ReferenceKeepsStore ==
    ASSUME StoreInv, NEW n \in Node, ReconcilePlanReference(n, "SUCCEEDED")
    PROVE  StoreInv'
<1> USE DEF StoreInv
<1>1. clock \in Int /\ CloseReconciliation(n, "SUCCEEDED", clock)
      /\ UNCHANGED <<clock, version, command, ledger>>
  BY BoundsAssumption DEF ReconcilePlanReference, TypeOK, Clock
<1>2. /\ planRun' \in [Plans -> PlanRunRecord] /\ node' \in [Node -> NodeRecord]
      /\ runs' \in [Node -> Seq(NodeRunRecord)] /\ VersionsExist'
  BY <1>1, ReconciliationCloses
<1> QED BY <1>1, <1>2 DEF TypeOK, CommandsAwait

\* An operator builds a command from what the plan shows.
LEMMA IssueKeepsStore ==
    ASSUME StoreInv, NEW c \in CommandIds,
           \/ \E type \in DOMAIN AwaitedStatus, n \in Node, outcome \in {"SUCCEEDED", "FAILED", None} :
                 IssueNodeCommand(c, type, n, outcome)
           \/ \E p \in Plans : IssueResume(c, p)
    PROVE  StoreInv'
<1> USE DEF StoreInv
<1>1. /\ UNCHANGED <<clock, planRun, version, node, runs, ledger>>
      /\ clock \in Int
  BY BoundsAssumption DEF IssueNodeCommand, IssueResume, TypeOK, Clock
<1>2. PICK cmd \in CommandRecord :
         /\ command' = [command EXCEPT ![c] = cmd]
         /\ cmd.type # "RESUME" =>
               /\ cmd.node \in Node
               /\ cmd.node[1] = cmd.plan /\ cmd.node[2] = cmd.expected_version
               /\ cmd.expected_status = AwaitedStatus[cmd.type]
               /\ cmd.type = "RECONCILE" => cmd.outcome \in {"SUCCEEDED", "FAILED"}
  <2>1. CASE \E p \in Plans : IssueResume(c, p)
    <3>1. PICK p \in Plans : IssueResume(c, p)
      BY <2>1
    <3> DEFINE cmd == [type |-> "RESUME", plan |-> p, expected_version |-> planRun[p].version,
                       node |-> None, expected_status |-> None, outcome |-> None,
                       issued_at |-> clock, seen_attempt |-> 0]
    <3>2. planRun[p].version \in Versions
      BY <3>1, BoundsAssumption DEF IssueResume, VersionsExist, TypeOK, PlanRunRecord, Versions
    <3>3. cmd \in CommandRecord /\ cmd.type = "RESUME"
      BY <1>1, <3>2 DEF CommandRecord, CommandType
    <3>4. command' = [command EXCEPT ![c] = cmd]
      BY <3>1 DEF IssueResume
    <3> HIDE DEF cmd
    <3> QED BY <3>3, <3>4
  <2>2. CASE \E type \in DOMAIN AwaitedStatus, n \in Node, outcome \in {"SUCCEEDED", "FAILED", None} :
                IssueNodeCommand(c, type, n, outcome)
    <3>1. PICK type \in DOMAIN AwaitedStatus, n \in Node, outcome \in {"SUCCEEDED", "FAILED", None} :
              IssueNodeCommand(c, type, n, outcome)
      BY <2>2
    <3> DEFINE cmd == [type |-> type, plan |-> n[1], expected_version |-> n[2], node |-> n,
                       expected_status |-> node[n].state, outcome |-> outcome,
                       issued_at |-> clock, seen_attempt |-> Len(runs[n])]
    <3>2. /\ type \in {"APPROVE", "REJECT", "RECONCILE"}
          /\ n[1] \in Plans /\ n[2] \in Versions /\ Len(runs[n]) \in Nat
          /\ node[n].state = AwaitedStatus[type]
          /\ node[n].state \in NodeState
          /\ type = "RECONCILE" => outcome \in {"SUCCEEDED", "FAILED"}
      BY <3>1, LenProperties
      DEF IssueNodeCommand, AwaitedStatus, TypeOK, Node, NodeState
    <3>3. /\ cmd \in CommandRecord /\ cmd.type = type /\ cmd.node = n
          /\ cmd.plan = n[1] /\ cmd.expected_version = n[2]
          /\ cmd.expected_status = node[n].state /\ cmd.outcome = outcome
      BY <1>1, <3>2 DEF CommandRecord, CommandType
    <3>4. command' = [command EXCEPT ![c] = cmd]
      BY <3>1 DEF IssueNodeCommand
    <3> HIDE DEF cmd
    <3> QED BY <3>2, <3>3, <3>4
  <2> QED BY <2>1, <2>2
<1>3. TypeOK'
  BY <1>1, <1>2 DEF TypeOK
<1>4. CommandsAwait'
  BY <1>2 DEF CommandsAwait, TypeOK
<1> QED BY <1>1, <1>3, <1>4 DEF VersionsExist, HasRun

\* Every step keeps the store well formed, one case for each caller.
LEMMA StoreInvStep == StoreInv /\ [Next]_vars => StoreInv'
<1> SUFFICES ASSUME StoreInv, [Next]_vars PROVE StoreInv'
  OBVIOUS
<1>1. CASE Tick
  <2>1. TypeOK'
    BY <1>1, BoundsAssumption DEF Tick, StoreInv, TypeOK, Clock
  <2> QED BY <1>1, <2>1 DEF Tick, StoreInv, VersionsExist, HasRun, CommandsAwait
<1>2. CASE \E p \in Plans : CreateOrResume(p)
  BY <1>2, CreateOrResumeKeepsStore
<1>3. CASE WorkerStep
  <2>1. ASSUME NEW t \in Now, NEW p \in Plans, ClaimReadyNodes(p, t) PROVE StoreInv'
    <3>1. Claim({p}, FALSE, t) /\ {p} \in SUBSET Plans
      BY <2>1 DEF ClaimReadyNodes
    <3> QED BY <3>1, ClaimKeepsStore
  <2>2. ASSUME NEW t \in Now, ClaimNextReadyNodes(t) PROVE StoreInv'
    <3>1. Claim(Plans, TRUE, t) /\ Plans \in SUBSET Plans
      BY <2>2 DEF ClaimNextReadyNodes
    <3> QED BY <3>1, ClaimKeepsStore
  <2> QED BY <1>3, <2>1, <2>2, WorkersKeepStore DEF WorkerStep
<1>4. CASE \E p \in Plans : FreezePlan(p)
  BY <1>4, PlanStatesKeepStore
<1>5. CASE FreezeStep
  <2>1. CardBatch \subseteq Plans
    BY ConstantsAssumption
  <2> QED BY <1>5, <2>1, ImpactFreezeKeepsStore DEF FreezeStep
<1>6. CASE ReplanStep
  <2>1. CardBatch \subseteq Plans
    BY ConstantsAssumption
  <2>2. PICK p \in CardBatch, v \in Versions, signature \in Signatures,
             sources \in (SUBSET Events) \ {{}} :
           \/ RefuseReplan(p, v, signature, sources)
           \/ \E t \in 0..clock, reused \in SUBSET ProductKeys(p) :
                 CreateReplanVersion(p, v, signature, sources, reused, t)
    BY <1>6 DEF ReplanStep
  <2>3. p \in Plans /\ sources \in SUBSET Events
    BY <2>1
  <2> QED BY <2>2, <2>3, PlanStatesKeepStore, ReplanKeepsStore
<1>7. CASE ReconcileStep
  BY <1>7, PlanStatesKeepStore, ReferenceKeepsStore DEF ReconcileStep
<1>8. CASE OperatorStep
  BY <1>8, IssueKeepsStore, SubmitKeepsStore DEF OperatorStep
<1>9. CASE UNCHANGED vars
  BY <1>9 DEF vars, StoreInv, TypeOK, VersionsExist, HasRun, CommandsAwait
<1> QED BY <1>1, <1>2, <1>3, <1>4, <1>5, <1>6, <1>7, <1>8, <1>9 DEF Next

\* The store is well formed in every reachable state.
THEOREM StoreIsWellFormed == Spec => []StoreInv
BY StoreInvInit, StoreInvStep, PTL DEF Spec

\* Type correctness: no operation of the store writes a row outside its type.
THEOREM TypeCorrect == Spec => []TypeOK
<1>1. StoreInv => TypeOK
  BY DEF StoreInv
<1> QED BY <1>1, StoreIsWellFormed, PTL

-----------------------------------------------------------------------------
(* A step as one node sees it. *)

\* A run before and after a step: its claim, its recorded input, its
\* superseding event and its outcome stay, its lease only grows.
Kept(old, new) ==
    /\ new.claim_version = old.claim_version
    /\ old.lease_until <= new.lease_until
    /\ old.input_fingerprint # None => new.input_fingerprint = old.input_fingerprint
    /\ old.superseded_by # None => new.superseded_by = old.superseded_by
    /\ old.state \notin {"RUNNING", "WAITING_RECONCILIATION"} => new.state = old.state

\* The history of n keeps its length and changes at its end at most.
SameClaims(n) ==
    /\ Len(runs'[n]) = Len(runs[n])
    /\ \A i \in 1..Len(runs[n]) :
          /\ i < Len(runs[n]) => runs'[n][i] = runs[n][i]
          /\ Kept(runs[n][i], runs'[n][i])

\* No run of n changes its state.
Quiet(n) == SameClaims(n) /\ \A i \in 1..Len(runs[n]) : runs'[n][i].state = runs[n][i].state

\* A new run is appended.
Started(n) ==
    /\ Len(runs'[n]) = Len(runs[n]) + 1
    /\ \A i \in 1..Len(runs[n]) : runs'[n][i] = runs[n][i]
    /\ runs'[n][Len(runs[n]) + 1].claim_version = Len(runs[n]) + 1
    /\ runs'[n][Len(runs[n]) + 1].state = "RUNNING"

DependenciesMet(n) == \A d \in Dependencies(n) : node[d].state = "SUCCEEDED"

\* The lease of the latest run stays, or its holder renews it.
SameLeaseOrRenewed(n) ==
    \/ HasRun(n) => runs'[n][Len(runs[n])].lease_until = LastRun(n).lease_until
    \/ \E t \in Now : HoldsResources(n, t)

\* Nobody held the resources of n when it was started.
WasFree(n) == \E t \in Now : Resources(n) \cap LockedResources(t) = {}

\* The six things that can happen to a node.
Untouched(n) == Quiet(n) /\ node'[n] = node[n] /\ SameLeaseOrRenewed(n)
Born(n) ==
    /\ runs[n] = <<>> /\ runs'[n] = <<>>
    /\ node[n].state = "ABSENT"
    /\ \/ node'[n].state = "SUCCEEDED" /\ node'[n].reused
       \/ node'[n].state = "PENDING" /\ ~node'[n].reused
       \/ /\ node'[n].state = "READY" /\ ~node'[n].reused
          /\ node'[n].ready_at # None /\ Dependencies(n) = {}
Moved(n) ==
    /\ Quiet(n)
    /\ node[n].state \in {"PENDING", "READY", "RETRY_WAIT", "WAITING_APPROVAL"}
    /\ node'[n].state \in {"READY", "FROZEN", "FAILED"}
    /\ node'[n].reused = node[n].reused
    /\ node'[n].state = "READY" =>
          node'[n].ready_at # None /\ (node[n].state = "PENDING" => DependenciesMet(n)')
Claimed(n) ==
    /\ Started(n) /\ WasFree(n)
    /\ node[n].state \in {"READY", "RETRY_WAIT"}
    /\ node'[n].state = "RUNNING"
    /\ node'[n].reused = node[n].reused
TakenOver(n) ==
    /\ Started(n) /\ WasFree(n)
    /\ HasRun(n) /\ LastRun(n).state = "RUNNING" /\ LastRun(n).lease_until <= clock
    /\ LastRun(n).superseded_by = None
    /\ node[n].state = "RUNNING"
    /\ node'[n] = node[n]
Closed(n) ==
    /\ HasRun(n) /\ SameClaims(n)
    /\ runs'[n][Len(runs[n])].state = node'[n].state
    /\ node[n].state \in {"RUNNING", "WAITING_RECONCILIATION"}
    /\ node'[n].state \in {"SUCCEEDED", "FAILED", "RETRY_WAIT", "WAITING_APPROVAL",
                           "WAITING_RECONCILIATION", "FROZEN"}
    /\ node'[n].reused = node[n].reused

Effect(n) ==
    Untouched(n) \/ Born(n) \/ Moved(n) \/ Claimed(n) \/ TakenOver(n) \/ Closed(n)

-----------------------------------------------------------------------------
(* Histories. *)

\* An unchanged history is quiet.
LEMMA QuietIfSame ==
    ASSUME StoreInv, NEW n \in Node, runs'[n] = runs[n]
    PROVE  Quiet(n)
<1> SUFFICES ASSUME NEW i \in 1..Len(runs[n]) PROVE runs[n][i].lease_until \in Int
  BY DEF Quiet, SameClaims, Kept
<1>1. runs[n] \in Seq(NodeRunRecord)
  BY DEF StoreInv, TypeOK
<1>2. runs[n][i] \in NodeRunRecord
  BY <1>1, ElementOfSeq
<1> QED BY <1>2 DEF NodeRunRecord

\* Rewriting the latest run in a way that keeps it keeps the claims.
LEMMA RewriteLast ==
    ASSUME StoreInv, NEW n \in Node, HasRun(n), NEW r \in NodeRunRecord,
           Kept(LastRun(n), r),
           runs'[n] = [runs[n] EXCEPT ![Len(runs[n])] = r]
    PROVE  /\ SameClaims(n)
           /\ runs'[n][Len(runs[n])] = r
           /\ r.state = LastRun(n).state => Quiet(n)
<1> DEFINE last == Len(runs[n])
<1>1. runs[n] \in Seq(NodeRunRecord) /\ last \in 1..Len(runs[n]) /\ last \in Nat
  BY LastRunType, LenProperties DEF StoreInv, TypeOK
<1>2. /\ Len(runs'[n]) = last
      /\ \A j \in 1..last : runs'[n][j] = IF j = last THEN r ELSE runs[n][j]
  BY <1>1, ExceptSeq
<1>3. \A j \in 1..last : runs[n][j].lease_until \in Int
  <2>1. \A j \in 1..last : runs[n][j] \in NodeRunRecord
    BY <1>1, ElementOfSeq
  <2> QED BY <2>1 DEF NodeRunRecord
<1>4. LastRun(n) = runs[n][last]
  BY DEF LastRun
<1> HIDE DEF last
<1>5. \A j \in 1..last : Kept(runs[n][j], runs'[n][j])
  BY <1>2, <1>3, <1>4 DEF Kept
<1>6. SameClaims(n)
  BY <1>1, <1>2, <1>5 DEF SameClaims, last
<1>7. r.state = LastRun(n).state => Quiet(n)
  BY <1>1, <1>2, <1>4, <1>6 DEF Quiet, last
<1> QED BY <1>1, <1>2, <1>6, <1>7 DEF last

\* Appending a fresh run starts one.
LEMMA AppendStarts ==
    ASSUME StoreInv, NEW n \in Node, NEW r \in NodeRunRecord,
           r.claim_version = Len(runs[n]) + 1, r.state = "RUNNING",
           runs'[n] = Append(runs[n], r)
    PROVE  Started(n)
<1>1. runs[n] \in Seq(NodeRunRecord) /\ Len(runs[n]) \in Nat
  BY LenProperties DEF StoreInv, TypeOK
<1>2. /\ Len(runs'[n]) = Len(runs[n]) + 1
      /\ \A i \in 1..Len(runs[n]) : runs'[n][i] = runs[n][i]
      /\ runs'[n][Len(runs[n]) + 1] = r
  BY <1>1, AppendProperties
<1> QED BY <1>2 DEF Started

\* A node whose rows do not change is untouched.
LEMMA UntouchedIfSame ==
    ASSUME StoreInv, NEW n \in Node, runs'[n] = runs[n], node'[n] = node[n]
    PROVE  Effect(n)
BY QuietIfSame DEF Effect, Untouched, SameLeaseOrRenewed, LastRun

-----------------------------------------------------------------------------
(* The effect of each operation. *)

\* New nodes are born where none was; the others stay.
LEMMA NewNodesEffect ==
    ASSUME StoreInv, NEW p \in Plans, NEW v \in Versions, NEW reused, NEW t \in Int,
           planRun[p].version < v,
           node' = WithNewNodes(p, v, reused, t), UNCHANGED runs
    PROVE  \A n \in Node : Effect(n)
<1> SUFFICES ASSUME NEW n \in Node PROVE Effect(n)
  OBVIOUS
<1>1. CASE n[1] = p /\ n[2] = v
  <2>1. node'[n] = NewNode(n[3], reused, t)
    BY <1>1 DEF WithNewNodes
  <2>2. node[n].state = "ABSENT" /\ runs[n] = <<>> /\ runs'[n] = <<>>
    BY <1>1 DEF StoreInv, VersionsExist, HasRun
  <2>3. n[3] \in RootKeys => Dependencies(n) = {}
    BY ConstantsAssumption DEF Dependencies
  <2>4. t # None
    BY NoneAssumption
  <2>5. /\ node'[n].reused = (n[3] \in reused)
        /\ node'[n].state = IF n[3] \in reused THEN "SUCCEEDED"
                           ELSE IF n[3] \in RootKeys THEN "READY" ELSE "PENDING"
        /\ node'[n].state = "READY" => node'[n].ready_at = t /\ n[3] \in RootKeys
    BY <2>1 DEF NewNode
  <2> QED BY <2>2, <2>3, <2>4, <2>5 DEF Effect, Born
<1>2. CASE ~(n[1] = p /\ n[2] = v)
  <2>1. node'[n] = node[n] /\ runs'[n] = runs[n]
    BY <1>2 DEF WithNewNodes
  <2> QED BY <2>1, UntouchedIfSame
<1> QED BY <1>1, <1>2

\* A claim starts READY nodes and promotes due retries.
LEMMA ClaimEffect ==
    ASSUME StoreInv, NEW ps \in SUBSET Plans, NEW byPriority, NEW t \in Now,
           Claim(ps, byPriority, t)
    PROVE  \A n \in Node : Effect(n)
<1> DEFINE promoted == Promoted(ps, t)
           candidates == {n \in Schedulable(ps) : promoted[n].state = "READY"
                                                   /\ Len(runs[n]) < MaxRuns}
<1>0. t \in Int /\ node \in [Node -> NodeRecord]
  BY NowIsInt DEF StoreInv, TypeOK
<1>1. PICK S \in SUBSET candidates :
         /\ node' = [n \in Node |-> IF n \in S THEN [promoted[n] EXCEPT !.state = "RUNNING"]
                                    ELSE promoted[n]]
         /\ runs' = [n \in Node |-> IF n \in S THEN Append(runs[n], NewRun(n, t)) ELSE runs[n]]
         /\ \A n \in S : Resources(n) \cap LockedResources(t) = {}
  BY Zenon DEF Claim, Picks
<1>2. \A n \in S : promoted[n].state = "READY"
  BY <1>1
<1> HIDE DEF candidates
<1>3. \A n \in Node :
         \/ promoted[n] = node[n]
         \/ /\ node[n].state = "RETRY_WAIT" /\ promoted[n] \in NodeRecord
            /\ promoted[n].state = "READY" /\ promoted[n].ready_at = t
            /\ promoted[n].reused = node[n].reused
  BY <1>0 DEF Promoted, DueRetries, NodeRecord, NodeState
<1> HIDE DEF promoted
<1> SUFFICES ASSUME NEW n \in Node PROVE Effect(n)
  OBVIOUS
<1>4. CASE n \in S
  <2>1. Started(n)
    <3>1. NewRun(n, t) \in NodeRunRecord
      BY <1>0, NewRunType DEF StoreInv
    <3>2. NewRun(n, t).claim_version = Len(runs[n]) + 1 /\ NewRun(n, t).state = "RUNNING"
      BY DEF NewRun
    <3>3. runs'[n] = Append(runs[n], NewRun(n, t))
      BY <1>1, <1>4
    <3> QED BY <3>1, <3>2, <3>3, AppendStarts
  <2>2. node'[n] = [promoted[n] EXCEPT !.state = "RUNNING"]
    BY <1>1, <1>4
  <2>3. /\ node'[n].state = "RUNNING" /\ node'[n].reused = node[n].reused
        /\ node[n].state \in {"READY", "RETRY_WAIT"}
    BY <1>0, <1>2, <1>3, <1>4, <2>2 DEF NodeRecord
  <2>4. WasFree(n)
    BY <1>1, <1>4 DEF WasFree
  <2> QED BY <2>1, <2>3, <2>4 DEF Effect, Claimed
<1>5. CASE n \notin S
  <2>1. node'[n] = promoted[n] /\ runs'[n] = runs[n]
    BY <1>1, <1>5
  <2>2. CASE promoted[n] = node[n]
    BY <2>1, <2>2, UntouchedIfSame
  <2>3. CASE promoted[n] # node[n]
    <3>1. Quiet(n) /\ t # None
      BY <1>0, <2>1, QuietIfSame, NoneAssumption
    <3> QED BY <1>3, <2>1, <2>3, <3>1 DEF Effect, Moved
  <2> QED BY <2>2, <2>3
<1> QED BY <1>4, <1>5

\* Closing a node opens its dependents.
LEMMA CloseEffect ==
    ASSUME StoreInv, NodeAgreesWithRun, NEW n \in Node, NEW s \in NodeState, NEW superseded,
           NEW t \in Int, HasRun(n), LastRun(n).state \in {"RUNNING", "WAITING_RECONCILIATION"},
           CloseNode(n, Len(runs[n]), s, superseded, t)
    PROVE  \A m \in Node : Effect(m)
<1> DEFINE closed == [node EXCEPT ![n].state = s]
           r == [LastRun(n) EXCEPT !.state = s]
<1>1. node \in [Node -> NodeRecord] /\ runs \in [Node -> Seq(NodeRunRecord)]
  BY DEF StoreInv, TypeOK
<1>2. node[n].state = LastRun(n).state
  BY DEF NodeAgreesWithRun
<1>3. s \in {"SUCCEEDED", "FAILED", "RETRY_WAIT", "WAITING_APPROVAL",
            "WAITING_RECONCILIATION", "FROZEN"}
  BY <1>2 DEF CloseNode, Transitions, NodeState
<1>4. closed \in [Node -> NodeRecord] /\ closed[n].state = s /\ closed[n].reused = node[n].reused
      /\ \A m \in Node \ {n} : closed[m] = node[m]
  BY <1>1, NodeWithState DEF StoreInv, NodeRecord
<1>5. /\ node'[n] = closed[n]
      /\ \A m \in Node \ {n} :
            \/ node'[m] = node[m]
            \/ /\ node[m].state = "PENDING"
               /\ node'[m] = [node[m] EXCEPT !.state = "READY", !.ready_at = t]
               /\ s = "SUCCEEDED"
               /\ \A d \in Dependencies(m) : closed[d].state = "SUCCEEDED"
  <2>1. CASE s = "SUCCEEDED"
    <3>1. node' = WithDependentsReady(closed, n[1], t)
      BY <2>1 DEF CloseNode
    <3> QED BY <1>4, <2>1, <3>1 DEF WithDependentsReady
  <2>2. CASE s # "SUCCEEDED"
    <3>1. node' = closed
      BY <2>2 DEF CloseNode
    <3> QED BY <1>4, <3>1
  <2> QED BY <2>1, <2>2
<1>6. \A m \in Node : closed[m].state = "SUCCEEDED" => node'[m].state = "SUCCEEDED"
  BY <1>4, <1>5
<1>7. Effect(n)
  <2>1. LastRun(n) \in NodeRunRecord
    BY LastRunType DEF StoreInv
  <2>2. r \in NodeRunRecord /\ Kept(LastRun(n), r) /\ r.state = s
    BY <2>1 DEF NodeRunRecord, Kept
  <2>3. runs'[n] = [runs[n] EXCEPT ![Len(runs[n])] = r]
    BY <1>1 DEF CloseNode, LastRun
  <2>4. SameClaims(n) /\ runs'[n][Len(runs[n])].state = s
    BY <2>2, <2>3, RewriteLast
  <2> QED BY <1>2, <1>3, <1>4, <1>5, <2>4 DEF Effect, Closed
<1>8. ASSUME NEW m \in Node \ {n} PROVE Effect(m)
  <2>1. runs'[m] = runs[m]
    BY <1>1 DEF CloseNode
  <2>2. CASE node'[m] = node[m]
    BY <2>1, <2>2, UntouchedIfSame
  <2>3. CASE node'[m] # node[m]
    <3>1. /\ node[m].state = "PENDING" /\ node[m] \in NodeRecord
          /\ node'[m] = [node[m] EXCEPT !.state = "READY", !.ready_at = t]
          /\ \A d \in Dependencies(m) : closed[d].state = "SUCCEEDED"
      BY <1>1, <1>5, <2>3
    <3>2. /\ node'[m].state = "READY" /\ node'[m].ready_at = t
          /\ node'[m].reused = node[m].reused
      BY <3>1 DEF NodeRecord
    <3>3. Dependencies(m) \subseteq Node
      BY ConstantsAssumption DEF Dependencies, Node
    <3>4. \A d \in Dependencies(m) : node'[d].state = "SUCCEEDED"
      BY <1>6, <3>1, <3>3
    <3>5. Quiet(m) /\ t # None
      BY <2>1, QuietIfSame, NoneAssumption
    <3>6. DependenciesMet(m)'
      BY <3>4 DEF DependenciesMet, Dependencies
    <3> QED BY <3>1, <3>2, <3>5, <3>6 DEF Effect, Moved
  <2> QED BY <2>2, <2>3
<1> QED BY <1>7, <1>8

\* The holder of a claim, and the one who takes a lost claim over, touch one
\* node and its latest run.
LEMMA HolderEffect ==
    ASSUME StoreInv, NodeAgreesWithRun, NEW t \in Now, NEW n \in Node, NEW i \in DOMAIN runs[n],
           \/ ReclaimExpiredNode(n, i, t)
           \/ HeartbeatNodeRun(n, i, t)
           \/ \E f \in Fingerprints : RecordNodeInput(n, i, f, t)
           \/ \E d \in RetryDelays : ScheduleRetry(n, i, t, t + d)
           \/ \E s \in ResultStates : RecordNodeResult(n, i, s, t)
    PROVE  \A m \in Node : Effect(m)
<1>0. /\ t \in Int /\ t <= clock
      /\ node \in [Node -> NodeRecord] /\ runs \in [Node -> Seq(NodeRunRecord)]
  BY NowIsInt, BoundsAssumption DEF StoreInv, TypeOK, Now, Clock
<1>1. /\ i = Len(runs[n]) /\ runs[n][i] = LastRun(n) /\ LastRun(n).state = "RUNNING"
      /\ LastRun(n) \in NodeRunRecord /\ HasRun(n)
  <2>1. i = Len(runs[n]) /\ runs[n][i].state = "RUNNING"
    BY DEF ReclaimExpiredNode, Reclaimable, HeartbeatNodeRun, RecordNodeInput, ScheduleRetry,
           RecordNodeResult, HoldsClaim, IsCurrent
  <2>2. HasRun(n)
    BY RunType DEF HasRun, StoreInv
  <2> QED BY <2>1, <2>2, LastRunType DEF LastRun, StoreInv
<1>2. node[n].state = "RUNNING"
  BY <1>1 DEF NodeAgreesWithRun
<1>3. ASSUME \A m \in Node \ {n} : runs'[m] = runs[m] /\ node'[m] = node[m], Effect(n)
      PROVE  \A m \in Node : Effect(m)
  BY <1>3, UntouchedIfSame
<1>4. CASE ReclaimExpiredNode(n, i, t)
  <2> DEFINE r == [NewRun(n, t) EXCEPT !.input_fingerprint = runs[n][i].input_fingerprint]
  <2>1. r \in NodeRunRecord /\ r.claim_version = Len(runs[n]) + 1 /\ r.state = "RUNNING"
    <3>1. NewRun(n, t) \in NodeRunRecord
      BY <1>0, NewRunType DEF StoreInv
    <3>2. NewRun(n, t).claim_version = Len(runs[n]) + 1 /\ NewRun(n, t).state = "RUNNING"
      BY DEF NewRun
    <3>3. runs[n][i].input_fingerprint \in Fingerprints \cup {None}
      BY <1>1 DEF NodeRunRecord
    <3> QED BY <3>1, <3>2, <3>3 DEF NodeRunRecord
  <2>2. runs'[n] = Append(runs[n], r)
    BY <1>0, <1>4 DEF ReclaimExpiredNode
  <2>3. Started(n)
    BY <2>1, <2>2, AppendStarts
  <2>4. LastRun(n).lease_until <= clock /\ LastRun(n).superseded_by = None
    BY <1>0, <1>1, <1>4 DEF ReclaimExpiredNode, Reclaimable, NodeRunRecord, StoreInv, TypeOK, Clock
  <2>5. node' = node /\ \A m \in Node \ {n} : runs'[m] = runs[m]
    BY <1>0, <1>4 DEF ReclaimExpiredNode
  <2>6. WasFree(n)
    BY <1>4 DEF WasFree, ReclaimExpiredNode
  <2>7. Effect(n)
    BY <1>1, <1>2, <2>3, <2>4, <2>5, <2>6 DEF Effect, TakenOver
  <2> QED BY <1>3, <2>5, <2>7
<1>5. ASSUME NEW r \in NodeRunRecord, Kept(LastRun(n), r), r.state = "RUNNING",
             r.lease_until = LastRun(n).lease_until \/ HoldsClaim(n, i, t),
             runs' = [runs EXCEPT ![n] = [runs[n] EXCEPT ![i] = r]], node' = node
      PROVE  \A m \in Node : Effect(m)
  <2>1. runs'[n] = [runs[n] EXCEPT ![Len(runs[n])] = r]
    BY <1>0, <1>1, <1>5
  <2>2. Quiet(n) /\ runs'[n][Len(runs[n])] = r
    BY <1>1, <1>5, <2>1, RewriteLast
  <2>3. \A m \in Node \ {n} : runs'[m] = runs[m]
    BY <1>0, <1>5
  <2>4. HoldsClaim(n, i, t) => HoldsResources(n, t)
    BY <1>0, <1>1 DEF HoldsClaim, HoldsResources, NodeRunRecord
  <2>5. SameLeaseOrRenewed(n)
    BY <1>5, <2>2, <2>4 DEF SameLeaseOrRenewed
  <2> QED BY <1>3, <1>5, <2>2, <2>3, <2>5 DEF Effect, Untouched
<1>6. CASE HeartbeatNodeRun(n, i, t)
  <2> DEFINE until == IF t + Lease > LastRun(n).lease_until THEN t + Lease
                      ELSE LastRun(n).lease_until
             r == [LastRun(n) EXCEPT !.lease_until = until]
  <2>1. until \in Int /\ LastRun(n).lease_until <= until
    BY <1>0, <1>1, BoundsAssumption DEF NodeRunRecord
  <2> HIDE DEF until
  <2>2. r \in NodeRunRecord /\ Kept(LastRun(n), r) /\ r.state = "RUNNING"
    BY <1>1, <2>1 DEF NodeRunRecord, Kept
  <2>3. /\ runs' = [runs EXCEPT ![n] = [runs[n] EXCEPT ![i] = r]] /\ node' = node
        /\ HoldsClaim(n, i, t)
    BY <1>1, <1>6 DEF HeartbeatNodeRun, until
  <2> HIDE DEF r
  <2> QED BY <1>5, <2>2, <2>3
<1>7. ASSUME NEW f \in Fingerprints, RecordNodeInput(n, i, f, t)
      PROVE  \A m \in Node : Effect(m)
  <2> DEFINE r == [LastRun(n) EXCEPT !.input_fingerprint = f]
  <2>1. LastRun(n).input_fingerprint = None
    BY <1>1, <1>7 DEF RecordNodeInput
  <2>2. /\ r \in NodeRunRecord /\ Kept(LastRun(n), r) /\ r.state = "RUNNING"
        /\ r.lease_until = LastRun(n).lease_until
    BY <1>1, <2>1 DEF NodeRunRecord, Kept
  <2>3. runs' = [runs EXCEPT ![n] = [runs[n] EXCEPT ![i] = r]] /\ node' = node
    BY <1>1, <1>7 DEF RecordNodeInput
  <2> HIDE DEF r
  <2> QED BY <1>5, <2>2, <2>3
<1>8. ASSUME NEW d \in RetryDelays, ScheduleRetry(n, i, t, t + d)
      PROVE  \A m \in Node : Effect(m)
  <2> DEFINE r == [LastRun(n) EXCEPT !.state = "RETRY_WAIT"]
  <2>1. r \in NodeRunRecord /\ Kept(LastRun(n), r) /\ r.state = "RETRY_WAIT"
    BY <1>1 DEF NodeRunRecord, NodeState, Kept
  <2>2. /\ runs'[n] = [runs[n] EXCEPT ![Len(runs[n])] = r]
        /\ \A m \in Node \ {n} : runs'[m] = runs[m] /\ node'[m] = node[m]
    BY <1>0, <1>1, <1>8 DEF ScheduleRetry
  <2>3. node'[n].state = "RETRY_WAIT" /\ node'[n].reused = node[n].reused
    BY <1>0, <1>8 DEF ScheduleRetry, NodeRecord
  <2>4. SameClaims(n) /\ runs'[n][Len(runs[n])] = r
    BY <1>1, <2>1, <2>2, RewriteLast
  <2>5. Effect(n)
    BY <1>1, <1>2, <2>1, <2>3, <2>4 DEF Effect, Closed
  <2> QED BY <1>3, <2>2, <2>5
<1>9. ASSUME NEW s \in ResultStates, RecordNodeResult(n, i, s, t)
      PROVE  \A m \in Node : Effect(m)
  <2>1. s \in NodeState /\ CloseNode(n, Len(runs[n]), s, runs[n][i].superseded_by # None, t)
    BY <1>1, <1>9, ResultStatesAssumption DEF RecordNodeResult
  <2> QED BY <1>0, <1>1, <2>1, CloseEffect
<1> QED BY <1>4, <1>6, <1>7, <1>8, <1>9

\* An impact freeze marks runs and moves nodes that are not executing.
LEMMA ImpactEffect ==
    ASSUME StoreInv, NEW p \in Plans, NEW v \in Versions, NEW e \in Events,
           NEW keys, NEW global, ApplyImpactFreeze(p, v, e, keys, global)
    PROVE  \A n \in Node : Effect(n)
<1> DEFINE affected == {n \in CurrentNodes(p) : n[3] \in keys}
<1> SUFFICES ASSUME NEW n \in Node PROVE Effect(n)
  OBVIOUS
<1> DEFINE r == [LastRun(n) EXCEPT !.superseded_by = e]
<1>1. node \in [Node -> NodeRecord] /\ runs \in [Node -> Seq(NodeRunRecord)]
  BY DEF StoreInv, TypeOK
<1>2. Quiet(n) /\ (HasRun(n) => runs'[n][Len(runs[n])].lease_until = LastRun(n).lease_until)
  <2>1. CASE n \in affected /\ HasRun(n) /\ LastRun(n).superseded_by = None
    <3>1. LastRun(n) \in NodeRunRecord
      BY <2>1, LastRunType DEF StoreInv
    <3>2. /\ r \in NodeRunRecord /\ Kept(LastRun(n), r) /\ r.state = LastRun(n).state
          /\ r.lease_until = LastRun(n).lease_until
      BY <2>1, <3>1 DEF NodeRunRecord, Kept
    <3>3. runs'[n] = [runs[n] EXCEPT ![Len(runs[n])] = r]
      BY <1>1, <2>1 DEF ApplyImpactFreeze, LastRun
    <3> QED BY <2>1, <3>2, <3>3, RewriteLast
  <2>2. CASE ~(n \in affected /\ HasRun(n) /\ LastRun(n).superseded_by = None)
    <3>1. runs'[n] = runs[n]
      BY <2>2 DEF ApplyImpactFreeze
    <3> QED BY <3>1, QuietIfSame DEF LastRun
  <2> QED BY <2>1, <2>2
<1>3. CASE n \in affected /\ node[n].state \in Freezable
  <2>1. node'[n] = [node[n] EXCEPT !.state = "FROZEN"]
    BY <1>3 DEF ApplyImpactFreeze
  <2>2. node'[n].state = "FROZEN" /\ node'[n].reused = node[n].reused
    BY <1>1, <2>1 DEF NodeRecord
  <2> QED BY <1>2, <1>3, <2>2 DEF Effect, Moved, Freezable
<1>4. CASE ~(n \in affected /\ node[n].state \in Freezable)
  <2>1. node'[n] = node[n]
    BY <1>4 DEF ApplyImpactFreeze
  <2>2. SameLeaseOrRenewed(n)
    BY <1>2 DEF SameLeaseOrRenewed
  <2> QED BY <1>2, <2>1, <2>2 DEF Effect, Untouched
<1> QED BY <1>3, <1>4

\* A reconciliation closes a node.
LEMMA ReconciliationEffect ==
    ASSUME StoreInv, NodeAgreesWithRun, NEW n \in Node, NEW outcome \in {"SUCCEEDED", "FAILED"},
           NEW t \in Int, CloseReconciliation(n, outcome, t)
    PROVE  \A m \in Node : Effect(m)
<1>1. outcome \in NodeState
  BY DEF NodeState
<1> QED BY <1>1, CloseEffect DEF CloseReconciliation

\* A command moves one waiting node, or none.
LEMMA SubmitEffect ==
    ASSUME StoreInv, NodeAgreesWithRun, NEW c \in CommandIds, NEW t \in Now, SubmitCommand(c, t)
    PROVE  \A n \in Node : Effect(n)
<1> DEFINE cmd == command[c]
<1>0. /\ t \in Int /\ cmd \in CommandRecord /\ cmd # None
      /\ node \in [Node -> NodeRecord] /\ t # None
  BY NowIsInt, NoneAssumption DEF SubmitCommand, StoreInv, TypeOK
<1>1. ASSUME UNCHANGED <<node, runs>> PROVE \A n \in Node : Effect(n)
  BY <1>1, UntouchedIfSame
<1>2. ASSUME NEW m \in Node, NEW x, node' = [node EXCEPT ![m] = x], UNCHANGED runs,
             node[m].state = "WAITING_APPROVAL",
             x.state \in {"READY", "FAILED"}, x.reused = node[m].reused,
             x.state = "READY" => x.ready_at # None
      PROVE  \A n \in Node : Effect(n)
  <2> SUFFICES ASSUME NEW n \in Node PROVE Effect(n)
    OBVIOUS
  <2>1. CASE n # m
    <3>1. node'[n] = node[n] /\ runs'[n] = runs[n]
      BY <1>0, <1>2, <2>1
    <3> QED BY <3>1, UntouchedIfSame
  <2>2. CASE n = m
    <3>1. node'[n] = x /\ runs'[n] = runs[n]
      BY <1>0, <1>2, <2>2
    <3>2. Quiet(n)
      BY <3>1, QuietIfSame
    <3> QED BY <1>2, <2>2, <3>1, <3>2 DEF Effect, Moved
  <2> QED BY <2>1, <2>2
<1>3. CASE Verdict(cmd, t) # "ACCEPTED" \/ (cmd.type = "RESUME" /\ Resume(cmd.plan))
  BY <1>1, <1>3 DEF SubmitCommand, Resume
<1>4. ASSUME Verdict(cmd, t) = "ACCEPTED", cmd.type # "RESUME"
      PROVE  cmd.node \in Node /\ node[cmd.node].state = AwaitedStatus[cmd.type]
  BY <1>0, <1>4 DEF StoreInv, CommandsAwait, Verdict
<1>5. CASE Verdict(cmd, t) = "ACCEPTED" /\ cmd.type = "APPROVE" /\ Approve(cmd.node, t)
  <2> DEFINE x == [node[cmd.node] EXCEPT !.state = "READY", !.ready_at = t]
  <2>1. cmd.node \in Node /\ node[cmd.node].state = "WAITING_APPROVAL"
    BY <1>4, <1>5 DEF AwaitedStatus
  <2>2. x.state = "READY" /\ x.ready_at = t /\ x.reused = node[cmd.node].reused
    BY <1>0, <2>1 DEF NodeRecord
  <2>3. node' = [node EXCEPT ![cmd.node] = x] /\ UNCHANGED runs
    BY <1>0, <1>5 DEF Approve, NodeRecord
  <2> HIDE DEF x
  <2> QED BY <1>0, <1>2, <2>1, <2>2, <2>3
<1>6. CASE Verdict(cmd, t) = "ACCEPTED" /\ cmd.type = "REJECT" /\ Reject(cmd.node)
  <2> DEFINE x == [node[cmd.node] EXCEPT !.state = "FAILED"]
  <2>1. cmd.node \in Node /\ node[cmd.node].state = "WAITING_APPROVAL"
    BY <1>4, <1>6 DEF AwaitedStatus
  <2>2. x.state = "FAILED" /\ x.reused = node[cmd.node].reused
    BY <1>0, <2>1 DEF NodeRecord
  <2>3. node' = [node EXCEPT ![cmd.node] = x] /\ UNCHANGED runs
    BY <1>0, <1>6 DEF Reject, NodeRecord
  <2> HIDE DEF x
  <2> QED BY <1>2, <2>1, <2>2, <2>3
<1>7. CASE Verdict(cmd, t) = "ACCEPTED" /\ cmd.type = "RECONCILE"
           /\ CloseReconciliation(cmd.node, cmd.outcome, t)
  <2>1. cmd.node \in Node /\ cmd.outcome \in {"SUCCEEDED", "FAILED"}
    BY <1>0, <1>7 DEF StoreInv, CommandsAwait
  <2> QED BY <1>0, <1>7, <2>1, ReconciliationEffect
<1> QED BY <1>3, <1>5, <1>6, <1>7 DEF SubmitCommand

\* Time only moves forward.
LEMMA StepClock ==
    ASSUME StoreInv, [Next]_vars
    PROVE  clock \in Int /\ clock' \in Int /\ clock <= clock'
<1>1. clock \in Int
  BY BoundsAssumption DEF StoreInv, TypeOK, Clock
<1>2. CASE Tick
  BY <1>1, <1>2 DEF Tick
<1>3. CASE UNCHANGED clock
  BY <1>1, <1>3
<1>4. ASSUME NEW ps, NEW byPriority, NEW t, Claim(ps, byPriority, t) PROVE UNCHANGED clock
  BY <1>4, Zenon DEF Claim
<1>5. WorkerStep => UNCHANGED clock
  <2>1. ASSUME NEW n, NEW i, NEW t, NEW x,
               \/ ReclaimExpiredNode(n, i, t) \/ HeartbeatNodeRun(n, i, t)
               \/ RecordNodeInput(n, i, x, t) \/ ScheduleRetry(n, i, t, x)
               \/ RecordNodeResult(n, i, x, t)
        PROVE  UNCHANGED clock
    BY <2>1 DEF ReclaimExpiredNode, HeartbeatNodeRun, RecordNodeInput, ScheduleRetry,
                RecordNodeResult
  <2> QED BY <1>4, <2>1, Zenon DEF WorkerStep, ClaimReadyNodes, ClaimNextReadyNodes
<1>6. FreezeStep \/ ReplanStep \/ ReconcileStep => UNCHANGED clock
  <2>1. FreezeStep => UNCHANGED clock
    BY Zenon DEF FreezeStep, ApplyImpactFreeze
  <2>2. ReplanStep => UNCHANGED clock
    <3>1. ASSUME NEW p, NEW v, NEW g, NEW sources, NEW reused, NEW t,
                 RefuseReplan(p, v, g, sources) \/ CreateReplanVersion(p, v, g, sources, reused, t)
          PROVE  UNCHANGED clock
      BY <3>1 DEF RefuseReplan, CreateReplanVersion
    <3> QED BY <3>1 DEF ReplanStep
  <2>3. ReconcileStep => UNCHANGED clock
    BY Zenon DEF ReconcileStep, RecordReconciliationFailure, ClearReconciliationFailure,
                 ReconcilePlanReference
  <2> QED BY <2>1, <2>2, <2>3
<1>7. OperatorStep => UNCHANGED clock
  BY DEF OperatorStep, IssueNodeCommand, IssueResume, SubmitCommand
<1>8. (\E p \in Plans : CreateOrResume(p) \/ FreezePlan(p)) \/ UNCHANGED vars => UNCHANGED clock
  BY DEF CreateOrResume, FreezePlan, vars
<1> QED BY <1>2, <1>3, <1>5, <1>7, <1>8, <1>6 DEF Next

\* Whatever the step, every node sees one of the six effects.
LEMMA StepEffect ==
    ASSUME StoreInv, NodeAgreesWithRun, [Next]_vars
    PROVE  (\A n \in Node : Effect(n)) /\ clock <= clock' /\ clock' \in Int
<1>0. clock \in Int /\ CardBatch \subseteq Plans
  BY ConstantsAssumption, BoundsAssumption DEF StoreInv, TypeOK, Clock
<1> SUFFICES \A n \in Node : Effect(n)
  BY StepClock
<1>1. ASSUME UNCHANGED <<node, runs>> PROVE \A n \in Node : Effect(n)
  BY <1>1, UntouchedIfSame
<1>2. CASE Tick \/ (\E p \in Plans : FreezePlan(p)) \/ UNCHANGED vars
  BY <1>1, <1>2 DEF Tick, FreezePlan, vars
<1>3. CASE \E p \in Plans : CreateOrResume(p)
  <2>1. PICK p \in Plans : CreateOrResume(p)
    BY <1>3
  <2>2. 1 \in Versions /\ planRun[p].version < 1
    BY <2>1, BoundsAssumption DEF CreateOrResume, Versions, StoreInv, VersionsExist
  <2>3. node' = WithNewNodes(p, 1, {}, clock) /\ UNCHANGED runs
    BY <2>1 DEF CreateOrResume
  <2> QED BY <1>0, <2>2, <2>3, NewNodesEffect
<1>4. CASE WorkerStep
  <2>1. ASSUME NEW t \in Now, NEW p \in Plans, ClaimReadyNodes(p, t)
        PROVE  \A n \in Node : Effect(n)
    <3>1. Claim({p}, FALSE, t) /\ {p} \in SUBSET Plans
      BY <2>1 DEF ClaimReadyNodes
    <3> QED BY <3>1, ClaimEffect
  <2>2. ASSUME NEW t \in Now, ClaimNextReadyNodes(t)
        PROVE  \A n \in Node : Effect(n)
    <3>1. Claim(Plans, TRUE, t) /\ Plans \in SUBSET Plans
      BY <2>2 DEF ClaimNextReadyNodes
    <3> QED BY <3>1, ClaimEffect
  <2> QED BY <1>4, <2>1, <2>2, HolderEffect DEF WorkerStep
<1>5. CASE FreezeStep
  BY <1>0, <1>5, ImpactEffect DEF FreezeStep
<1>6. CASE ReplanStep
  <2>1. ASSUME NEW p \in CardBatch, NEW v \in Versions, NEW signature \in Signatures,
               NEW sources, NEW t \in 0..clock, NEW reused,
               CreateReplanVersion(p, v, signature, sources, reused, t)
        PROVE  \A n \in Node : Effect(n)
    <3> DEFINE next == planRun[p].version + 1
    <3>1. next \in Versions /\ planRun[p].version < next /\ p \in Plans
      BY <1>0, <2>1, BoundsAssumption
      DEF CreateReplanVersion, LoopsOrExhausted, PlanRunRecord, Versions, StoreInv, TypeOK
    <3>2. node' = WithNewNodes(p, next, reused, t) /\ UNCHANGED runs /\ t \in Int
      BY <2>1 DEF CreateReplanVersion
    <3> HIDE DEF next
    <3> QED BY <3>1, <3>2, NewNodesEffect
  <2>2. ASSUME NEW p, NEW v, NEW signature, NEW sources, RefuseReplan(p, v, signature, sources)
        PROVE  \A n \in Node : Effect(n)
    BY <1>1, <2>2 DEF RefuseReplan
  <2> QED BY <1>6, <2>1, <2>2 DEF ReplanStep
<1>7. CASE ReconcileStep
  <2>1. ASSUME NEW n \in Node, ReconcilePlanReference(n, "SUCCEEDED")
        PROVE  \A m \in Node : Effect(m)
    BY <1>0, <2>1, ReconciliationEffect DEF ReconcilePlanReference
  <2>2. ASSUME NEW p, RecordReconciliationFailure(p) \/ ClearReconciliationFailure(p)
        PROVE  \A n \in Node : Effect(n)
    BY <1>1, <2>2 DEF RecordReconciliationFailure, ClearReconciliationFailure
  <2> QED BY <1>7, <2>1, <2>2 DEF ReconcileStep
<1>8. CASE OperatorStep
  <2>1. ASSUME NEW c, NEW type, NEW n, NEW outcome, NEW p,
               IssueNodeCommand(c, type, n, outcome) \/ IssueResume(c, p)
        PROVE  \A m \in Node : Effect(m)
    BY <1>1, <2>1 DEF IssueNodeCommand, IssueResume
  <2> QED BY <1>8, <2>1, SubmitEffect DEF OperatorStep
<1> QED BY <1>2, <1>3, <1>4, <1>5, <1>6, <1>7, <1>8 DEF Next

-----------------------------------------------------------------------------
(* What follows for every node. *)

\* A reused node is done and never runs.
ReusedIsDone == \A n \in Node : node[n].reused => node[n].state = "SUCCEEDED" /\ ~HasRun(n)

\* A node is only READY, or once was, after what it depends on.
OpenedAfterDependencies ==
    \A n \in Node : node[n].state = "READY" \/ HasRun(n) => DependenciesMet(n)

NodeInv == /\ NodeAgreesWithRun
           /\ ReusedIsDone
           /\ OneLiveClaim
           /\ OpenedAfterDependencies
           /\ ReadyNodesHaveAge

\* A history is empty when its length is zero.
LEMMA EmptyHistory ==
    ASSUME NEW seq \in Seq(NodeRunRecord)
    PROVE  /\ Len(seq) \in Nat
           /\ seq # <<>> <=> Len(seq) > 0
           /\ DOMAIN seq = 1..Len(seq)
           /\ \A i \in 1..Len(seq) : seq[i].lease_until \in Int
<1>1. Len(seq) \in Nat /\ DOMAIN seq = 1..Len(seq)
  BY LenProperties
<1>2. seq # <<>> <=> Len(seq) > 0
  BY <1>1, EmptySeq
<1>3. \A i \in 1..Len(seq) : seq[i] \in NodeRunRecord
  BY ElementOfSeq
<1> QED BY <1>1, <1>2, <1>3 DEF NodeRunRecord

\* Lengths and leases of the histories before and after a step.
LEMMA Histories ==
    ASSUME StoreInv, StoreInv', NEW n \in Node
    PROVE  /\ Len(runs[n]) \in Nat /\ Len(runs'[n]) \in Nat
           /\ HasRun(n) <=> Len(runs[n]) > 0
           /\ HasRun(n)' <=> Len(runs'[n]) > 0
           /\ DOMAIN runs[n] = 1..Len(runs[n]) /\ DOMAIN runs'[n] = 1..Len(runs'[n])
           /\ LastRun(n)' = runs'[n][Len(runs'[n])]
           /\ \A i \in 1..Len(runs[n]) : runs[n][i].lease_until \in Int
           /\ \A i \in 1..Len(runs'[n]) : runs'[n][i].lease_until \in Int
<1>1. runs[n] \in Seq(NodeRunRecord) /\ runs'[n] \in Seq(NodeRunRecord)
  BY DEF StoreInv, TypeOK
<1> QED BY <1>1, EmptyHistory DEF HasRun, LastRun

\* The row of a node and its latest run keep telling one story.
LEMMA AgreementStep ==
    ASSUME StoreInv, StoreInv', NodeAgreesWithRun, \A n \in Node : Effect(n)
    PROVE  NodeAgreesWithRun'
<1> SUFFICES ASSUME NEW n \in Node
             PROVE  /\ HasRun(n)' /\ LastRun(n)'.state \in {"RUNNING", "WAITING_RECONCILIATION", "SUCCEEDED"}
                          => node'[n].state = LastRun(n)'.state
                    /\ node'[n].state \in ExecutedStates /\ ~node'[n].reused
                          => HasRun(n)' /\ LastRun(n)'.state = node'[n].state
  BY DEF NodeAgreesWithRun, ExecutedStates
<1>1. /\ HasRun(n) /\ LastRun(n).state \in {"RUNNING", "WAITING_RECONCILIATION", "SUCCEEDED"}
            => node[n].state = LastRun(n).state
      /\ node[n].state \in ExecutedStates /\ ~node[n].reused
            => HasRun(n) /\ LastRun(n).state = node[n].state
  BY DEF NodeAgreesWithRun
<1>2. ASSUME Quiet(n)
      PROVE  (HasRun(n)' <=> HasRun(n)) /\ (HasRun(n) => LastRun(n)'.state = LastRun(n).state)
  BY <1>2, Histories DEF Quiet, SameClaims, LastRun
<1>3. ASSUME Started(n)
      PROVE  HasRun(n)' /\ LastRun(n)'.state = "RUNNING"
  BY <1>3, Histories DEF Started
<1>4. CASE Untouched(n)
  BY <1>1, <1>2, <1>4 DEF Untouched
<1>5. CASE Born(n)
  BY <1>5 DEF Born, HasRun, ExecutedStates
<1>6. CASE Moved(n)
  BY <1>1, <1>2, <1>6 DEF Moved, ExecutedStates
<1>7. CASE Claimed(n)
  BY <1>3, <1>7 DEF Claimed
<1>8. CASE TakenOver(n)
  BY <1>3, <1>8 DEF TakenOver
<1>9. CASE Closed(n)
  <2>1. HasRun(n)' /\ LastRun(n)'.state = node'[n].state
    BY <1>9, Histories DEF Closed, SameClaims
  <2> QED BY <2>1
<1>10. Effect(n)
  OBVIOUS
<1> QED BY <1>4, <1>5, <1>6, <1>7, <1>8, <1>9, <1>10 DEF Effect

\* Reused nodes stay as they were created.
LEMMA ReusedStep ==
    ASSUME StoreInv, StoreInv', ReusedIsDone, \A n \in Node : Effect(n)
    PROVE  ReusedIsDone'
<1> SUFFICES ASSUME NEW n \in Node, node'[n].reused
             PROVE  node'[n].state = "SUCCEEDED" /\ ~HasRun(n)'
  BY DEF ReusedIsDone
<1>1. node[n].reused => node[n].state = "SUCCEEDED" /\ ~HasRun(n)
  BY DEF ReusedIsDone
<1>2. Quiet(n) => (HasRun(n)' <=> HasRun(n))
  BY Histories DEF Quiet, SameClaims
<1>3. Effect(n)
  OBVIOUS
<1> QED BY <1>1, <1>2, <1>3
        DEF Effect, Untouched, Born, Moved, Claimed, TakenOver, Closed, HasRun

\* A claim is only taken over when its lease is over.
LEMMA LiveClaimStep ==
    ASSUME StoreInv, StoreInv', NodeAgreesWithRun, OneLiveClaim,
           \A n \in Node : Effect(n), clock \in Int, clock' \in Int, clock <= clock'
    PROVE  OneLiveClaim'
<1> SUFFICES ASSUME NEW n \in Node, NEW i \in DOMAIN runs'[n]
             PROVE  /\ runs'[n][i].claim_version = i
                    /\ i < Len(runs'[n]) /\ runs'[n][i].state = "RUNNING"
                          => runs'[n][i].lease_until <= clock'
  BY DEF OneLiveClaim
<1>1. \A j \in 1..Len(runs[n]) :
         /\ runs[n][j].claim_version = j
         /\ j < Len(runs[n]) /\ runs[n][j].state = "RUNNING" => runs[n][j].lease_until <= clock
  BY Histories DEF OneLiveClaim
<1>2. i \in 1..Len(runs'[n]) /\ Len(runs[n]) \in Nat /\ runs'[n][i].lease_until \in Int
  BY Histories
<1>3. CASE SameClaims(n)
  BY <1>1, <1>2, <1>3 DEF SameClaims, Kept
<1>4. CASE Born(n)
  BY <1>2, <1>4, EmptyHistory DEF Born, StoreInv, TypeOK
<1>5. CASE Started(n) /\ (HasRun(n) /\ LastRun(n).state = "RUNNING" => LastRun(n).lease_until <= clock)
  <2>1. CASE i = Len(runs[n]) + 1
    BY <1>2, <1>5, <2>1 DEF Started
  <2>2. CASE i < Len(runs[n])
    BY <1>1, <1>2, <1>5, <2>2 DEF Started
  <2>3. CASE i = Len(runs[n])
    <3>1. HasRun(n) /\ runs'[n][i] = LastRun(n) /\ runs[n][i].claim_version = i
      BY <1>1, <1>2, <1>5, <2>3, Histories DEF Started, LastRun
    <3> QED BY <1>1, <1>2, <1>5, <2>3, <3>1 DEF LastRun
  <2> QED BY <1>2, <1>5, <2>1, <2>2, <2>3 DEF Started
<1>6. Claimed(n) => Started(n) /\ (HasRun(n) => LastRun(n).state # "RUNNING")
  BY DEF Claimed, NodeAgreesWithRun
<1>7. Effect(n)
  OBVIOUS
<1> QED BY <1>3, <1>4, <1>5, <1>6, <1>7
        DEF Effect, Untouched, Moved, TakenOver, Closed, Quiet

\* What succeeded stays so: dependencies once met are met for good.
LEMMA DependenciesStep ==
    ASSUME StoreInv, StoreInv', NodeAgreesWithRun, ReusedIsDone, OpenedAfterDependencies,
           \A n \in Node : Effect(n)
    PROVE  OpenedAfterDependencies'
<1>1. \A d \in Node : node[d].state = "SUCCEEDED" => node'[d].state = "SUCCEEDED"
  BY DEF Effect, Untouched, Born, Moved, Claimed, TakenOver, Closed
<1>2. \A n \in Node : DependenciesMet(n) => DependenciesMet(n)'
  <2>1. \A n \in Node : Dependencies(n) \subseteq Node
    BY ConstantsAssumption DEF Dependencies, Node
  <2> QED BY <1>1, <2>1 DEF DependenciesMet, Dependencies
<1> SUFFICES ASSUME NEW n \in Node, node'[n].state = "READY" \/ HasRun(n)'
             PROVE  DependenciesMet(n)'
  BY DEF OpenedAfterDependencies
<1>3. node[n].state = "READY" \/ HasRun(n) => DependenciesMet(n)'
  BY <1>2 DEF OpenedAfterDependencies
<1>4. node[n].state \in {"RETRY_WAIT", "WAITING_APPROVAL"} => HasRun(n)
  BY DEF NodeAgreesWithRun, ReusedIsDone, ExecutedStates
<1>5. Quiet(n) => (HasRun(n)' <=> HasRun(n))
  BY Histories DEF Quiet, SameClaims
<1>6. CASE Untouched(n)
  BY <1>3, <1>5, <1>6 DEF Untouched
<1>7. CASE Born(n)
  BY <1>7 DEF Born, HasRun, DependenciesMet, Dependencies
<1>8. CASE Moved(n)
  BY <1>3, <1>4, <1>5, <1>8 DEF Moved
<1>9. CASE Claimed(n)
  BY <1>3, <1>4, <1>9 DEF Claimed
<1>10. CASE TakenOver(n) \/ Closed(n)
  BY <1>3, <1>10 DEF TakenOver, Closed
<1>11. Effect(n)
  OBVIOUS
<1> QED BY <1>6, <1>7, <1>8, <1>9, <1>10, <1>11 DEF Effect

\* Every way to READY sets ready_at.
LEMMA AgeStep ==
    ASSUME ReadyNodesHaveAge, \A n \in Node : Effect(n)
    PROVE  ReadyNodesHaveAge'
BY DEF ReadyNodesHaveAge, Effect, Untouched, Born, Moved, Claimed, TakenOver, Closed

\* The empty store has no nodes to be unsound.
LEMMA NodeInvInit == Init => NodeInv
<1> SUFFICES ASSUME Init PROVE NodeInv
  OBVIOUS
<1>1. \A n \in Node : /\ ~HasRun(n) /\ node[n].state = "ABSENT" /\ ~node[n].reused
                     /\ DOMAIN runs[n] = {}
  BY DEF Init, HasRun, AbsentNode
<1> QED BY <1>1 DEF NodeInv, NodeAgreesWithRun, ReusedIsDone, OneLiveClaim,
                    OpenedAfterDependencies, ReadyNodesHaveAge, ExecutedStates

\* Every step keeps the nodes sound: each node is quiet or has one of the Effects.
LEMMA NodeInvStep == StoreInv /\ NodeInv /\ [Next]_vars => NodeInv'
<1> SUFFICES ASSUME StoreInv, NodeInv, [Next]_vars PROVE NodeInv'
  OBVIOUS
<1>1. StoreInv'
  BY StoreInvStep
<1>2. /\ \A n \in Node : Effect(n)
      /\ clock \in Int /\ clock' \in Int /\ clock <= clock'
  BY StepEffect, StepClock DEF NodeInv
<1> QED BY <1>1, <1>2, AgreementStep, ReusedStep, LiveClaimStep, DependenciesStep, AgeStep
        DEF NodeInv

\* The invariants of the nodes hold in every reachable state.
THEOREM NodesAreSound == Spec => [](StoreInv /\ NodeInv)
<1>1. Init => StoreInv /\ NodeInv
  BY StoreInvInit, NodeInvInit
<1>2. (StoreInv /\ NodeInv) /\ [Next]_vars => (StoreInv /\ NodeInv)'
  BY StoreInvStep, NodeInvStep
<1> QED BY <1>1, <1>2, PTL DEF Spec

-----------------------------------------------------------------------------
(* Properties that are part of the invariant of the nodes. *)

\* The node row and the latest NodeRun tell one story after every mix of
\* results, retries, freezes, approvals and reconciliations.
THEOREM Agreement == Spec => []NodeAgreesWithRun
<1>1. StoreInv /\ NodeInv => NodeAgreesWithRun
  BY DEF NodeInv
<1> QED BY <1>1, NodesAreSound, PTL

\* Claims fence each other: only the latest claim of a node can be alive.
THEOREM Fencing == Spec => []OneLiveClaim
<1>1. StoreInv /\ NodeInv => OneLiveClaim
  BY DEF NodeInv
<1> QED BY <1>1, NodesAreSound, PTL

\* No attempt starts before everything its node depends on has succeeded.
THEOREM Ordering == Spec => []DependenciesFirst
<1>1. StoreInv /\ NodeInv => DependenciesFirst
  BY DEF NodeInv, OpenedAfterDependencies, DependenciesFirst, DependenciesMet
<1> QED BY <1>1, NodesAreSound, PTL

\* A READY node has an age, so a claim over all plans never raises.
THEOREM Age == Spec => []ReadyNodesHaveAge
<1>1. StoreInv /\ NodeInv => ReadyNodesHaveAge
  BY DEF NodeInv
<1> QED BY <1>1, NodesAreSound, PTL

-----------------------------------------------------------------------------
(* NodeRuns are evidence. *)

\* No step rewrites an earlier run, a recorded input, a superseding event or an
\* outcome, and none shortens a lease.
THEOREM Evidences == Spec => EvidenceIsImmutable
<1> DEFINE Immutable ==
      \A n \in Node : \A i \in DOMAIN runs[n] :
          LET old == runs[n][i]  new == runs'[n][i] IN
          /\ i \in DOMAIN runs'[n]
          /\ i < Len(runs[n]) => new = old
          /\ old.input_fingerprint # None => new.input_fingerprint = old.input_fingerprint
          /\ old.superseded_by # None => new.superseded_by = old.superseded_by
          /\ old.state \notin {"RUNNING", "WAITING_RECONCILIATION"} => new.state = old.state
          /\ old.lease_until <= new.lease_until
<1>1. StoreInv /\ NodeInv /\ [Next]_vars => [Immutable]_vars
  <2> SUFFICES ASSUME StoreInv, NodeInv, [Next]_vars PROVE Immutable
    OBVIOUS
  <2>1. StoreInv' /\ \A n \in Node : Effect(n)
    BY StoreInvStep, StepEffect DEF NodeInv
  <2> SUFFICES ASSUME NEW n \in Node, NEW i \in DOMAIN runs[n]
               PROVE  LET old == runs[n][i]  new == runs'[n][i] IN
                      /\ i \in DOMAIN runs'[n]
                      /\ i < Len(runs[n]) => new = old
                      /\ Kept(old, new)
    BY DEF Kept
  <2>2. /\ i \in 1..Len(runs[n]) /\ Len(runs[n]) \in Nat /\ runs[n][i].lease_until \in Int
        /\ DOMAIN runs'[n] = 1..Len(runs'[n])
    BY <2>1, Histories
  <2>3. CASE SameClaims(n)
    BY <2>2, <2>3 DEF SameClaims
  <2>4. CASE Started(n)
    BY <2>2, <2>4 DEF Started, Kept
  <2>5. CASE Born(n)
    BY <2>5 DEF Born
  <2>6. Effect(n)
    BY <2>1
  <2> QED BY <2>3, <2>4, <2>5, <2>6
          DEF Effect, Untouched, Moved, Claimed, TakenOver, Closed, Quiet
<1> QED BY <1>1, NodesAreSound, PTL DEF Spec, EvidenceIsImmutable

-----------------------------------------------------------------------------
(* Exclusive resources. *)

\* What one step starts does not compete with itself.
Apart == \A m, n \in Node : m # n /\ Started(m) /\ Started(n) => ~Conflict(m, n)

\* A history that does not grow was not started.
LEMMA NotStarted ==
    ASSUME StoreInv, NEW n \in Node, runs'[n] = runs[n] \/ SameClaims(n)
    PROVE  ~Started(n)
<1>1. Len(runs[n]) \in Nat
  BY EmptyHistory DEF StoreInv, TypeOK
<1> QED BY <1>1 DEF Started, SameClaims

\* A claim call picks nodes that do not conflict.
LEMMA ClaimApart ==
    ASSUME StoreInv, NEW ps \in SUBSET Plans, NEW byPriority, NEW t, Claim(ps, byPriority, t)
    PROVE  Apart
<1> DEFINE candidates == {n \in Schedulable(ps) : Promoted(ps, t)[n].state = "READY"
                                                   /\ Len(runs[n]) < MaxRuns}
<1>1. PICK S \in SUBSET candidates :
         /\ \A m, n \in S : m # n => ~Conflict(m, n)
         /\ runs' = [n \in Node |-> IF n \in S THEN Append(runs[n], NewRun(n, t)) ELSE runs[n]]
  BY Zenon DEF Claim, Picks
<1> HIDE DEF candidates
<1>2. \A n \in Node : Started(n) => n \in S
  BY <1>1, NotStarted
<1> QED BY <1>1, <1>2 DEF Apart

\* A step that lengthens one history at most starts one node at most.
LEMMA OneNodeApart ==
    ASSUME StoreInv, NEW n \in Node, \A m \in Node \ {n} : runs'[m] = runs[m]
    PROVE  Apart
BY NotStarted DEF Apart

\* No step starts two nodes on one resource.
LEMMA StartedApart ==
    ASSUME StoreInv, NodeInv, [Next]_vars
    PROVE  Apart
<1>0. runs \in [Node -> Seq(NodeRunRecord)]
  BY DEF StoreInv, TypeOK
<1>1. ASSUME UNCHANGED runs PROVE Apart
  BY <1>1, NotStarted DEF Apart
<1>2. ASSUME NEW n \in Node, NEW i, NEW s, NEW superseded, NEW t, CloseNode(n, i, s, superseded, t)
      PROVE  Apart
  <2>1. \A m \in Node \ {n} : runs'[m] = runs[m]
    BY <1>0, <1>2 DEF CloseNode
  <2> QED BY <2>1, OneNodeApart
<1>3. CASE WorkerStep
  <2>1. ASSUME NEW t, NEW p \in Plans, ClaimReadyNodes(p, t) PROVE Apart
    <3>1. Claim({p}, FALSE, t) /\ {p} \in SUBSET Plans
      BY <2>1 DEF ClaimReadyNodes
    <3> QED BY <3>1, ClaimApart
  <2>2. ASSUME NEW t, ClaimNextReadyNodes(t) PROVE Apart
    <3>1. Claim(Plans, TRUE, t) /\ Plans \in SUBSET Plans
      BY <2>2 DEF ClaimNextReadyNodes
    <3> QED BY <3>1, ClaimApart
  <2>3. ASSUME NEW t, NEW n \in Node, NEW i, NEW x,
               \/ ReclaimExpiredNode(n, i, t) \/ HeartbeatNodeRun(n, i, t)
               \/ RecordNodeInput(n, i, x, t) \/ ScheduleRetry(n, i, t, x)
        PROVE  Apart
    <3>1. \A m \in Node \ {n} : runs'[m] = runs[m]
      BY <1>0, <2>3
      DEF ReclaimExpiredNode, HeartbeatNodeRun, RecordNodeInput, ScheduleRetry
    <3> QED BY <3>1, OneNodeApart
  <2>4. ASSUME NEW t, NEW n \in Node, NEW i, NEW s, RecordNodeResult(n, i, s, t) PROVE Apart
    BY <1>2, <2>4 DEF RecordNodeResult
  <2> QED BY <1>3, <2>1, <2>2, <2>3, <2>4 DEF WorkerStep
<1>4. CASE FreezeStep
  <2>1. ASSUME NEW p \in Plans, NEW v, NEW e \in Events, NEW keys, NEW global,
               ApplyImpactFreeze(p, v, e, keys, global)
        PROVE  Apart
    <3>1. \A n \in Node : Len(runs'[n]) = Len(runs[n])
      <4> SUFFICES ASSUME NEW n \in Node PROVE Len(runs'[n]) = Len(runs[n])
        OBVIOUS
      <4>1. \/ runs'[n] = runs[n]
            \/ HasRun(n) /\ runs'[n] = [runs[n] EXCEPT ![Len(runs[n])] =
                                          [LastRun(n) EXCEPT !.superseded_by = e]]
        BY <2>1 DEF ApplyImpactFreeze, LastRun
      <4>2. ASSUME HasRun(n) PROVE [LastRun(n) EXCEPT !.superseded_by = e] \in NodeRunRecord
                                   /\ Len(runs[n]) \in 1..Len(runs[n])
        <5>1. LastRun(n) \in NodeRunRecord /\ Len(runs[n]) \in DOMAIN runs[n]
          BY <4>2, LastRunType DEF StoreInv
        <5>2. DOMAIN runs[n] = 1..Len(runs[n])
          BY <1>0, EmptyHistory
        <5> QED BY <5>1, <5>2 DEF NodeRunRecord
      <4> QED BY <1>0, <4>1, <4>2, ExceptSeq
    <3>2. \A n \in Node : Len(runs[n]) \in Nat
      BY <1>0, EmptyHistory
    <3> QED BY <3>1, <3>2 DEF Apart, Started
  <2>2. CardBatch \subseteq Plans
    BY ConstantsAssumption
  <2> QED BY <1>4, <2>1, <2>2 DEF FreezeStep
<1>5. CASE ReplanStep
  <2>1. ASSUME NEW p, NEW v, NEW g, NEW sources, NEW reused, NEW t,
               RefuseReplan(p, v, g, sources) \/ CreateReplanVersion(p, v, g, sources, reused, t)
        PROVE  UNCHANGED runs
    BY <2>1 DEF RefuseReplan, CreateReplanVersion
  <2> QED BY <1>1, <1>5, <2>1 DEF ReplanStep
<1>6. CASE ReconcileStep
  <2>1. ASSUME NEW n \in Node, ReconcilePlanReference(n, "SUCCEEDED") PROVE Apart
    BY <1>2, <2>1 DEF ReconcilePlanReference, CloseReconciliation
  <2> QED BY <1>1, <1>6, <2>1 DEF ReconcileStep, RecordReconciliationFailure, ClearReconciliationFailure
<1>7. CASE OperatorStep
  <2>1. ASSUME NEW c \in CommandIds, NEW t \in Now, SubmitCommand(c, t) PROVE Apart
    <3>1. CASE UNCHANGED runs
      BY <1>1, <3>1
    <3>2. CASE /\ Verdict(command[c], t) = "ACCEPTED" /\ command[c].type = "RECONCILE"
               /\ CloseReconciliation(command[c].node, command[c].outcome, t)
      <4>1. command[c].node \in Node
        BY <2>1, <3>2 DEF SubmitCommand, StoreInv, CommandsAwait
      <4> QED BY <1>2, <3>2, <4>1 DEF CloseReconciliation
    <3> QED BY <2>1, <3>1, <3>2 DEF SubmitCommand, Resume, Approve, Reject
  <2> QED BY <1>1, <1>7, <2>1 DEF OperatorStep, IssueNodeCommand, IssueResume
<1>8. CASE Tick \/ (\E p \in Plans : CreateOrResume(p) \/ FreezePlan(p)) \/ UNCHANGED vars
  BY <1>1, <1>8 DEF Tick, CreateOrResume, FreezePlan, vars
<1> QED BY <1>3, <1>4, <1>5, <1>6, <1>7, <1>8 DEF Next

\* With clocks that agree a node holds its resources after a step only if it did
\* before, or if the step started it on free resources.
LEMMA HolderStep ==
    ASSUME StoreInv, NodeInv, [Next]_vars, ClockLag = 0,
           NEW n \in Node, HoldsResources(n, clock)'
    PROVE  \/ HoldsResources(n, clock)
           \/ Started(n) /\ Resources(n) \cap LockedResources(clock) = {}
<1>1. /\ StoreInv' /\ Effect(n)
      /\ clock \in Int /\ clock' \in Int /\ clock <= clock'
  BY StoreInvStep, StepEffect, StepClock DEF NodeInv
<1>2. Now = {clock}
  BY <1>1 DEF Now
<1>3. HasRun(n)' /\ LastRun(n)'.state = "RUNNING" /\ LastRun(n)'.lease_until > clock'
  BY DEF HoldsResources
<1>4. /\ Len(runs[n]) \in Nat /\ Len(runs'[n]) \in Nat
      /\ HasRun(n) <=> Len(runs[n]) > 0
      /\ HasRun(n)' <=> Len(runs'[n]) > 0
      /\ LastRun(n)' = runs'[n][Len(runs'[n])]
      /\ \A i \in 1..Len(runs[n]) : runs[n][i].lease_until \in Int
      /\ \A i \in 1..Len(runs'[n]) : runs'[n][i].lease_until \in Int
  BY <1>1, Histories
<1>5. CASE Untouched(n)
  <2>1. CASE \E t \in Now : HoldsResources(n, t)
    BY <1>2, <2>1
  <2>2. CASE HasRun(n) => runs'[n][Len(runs[n])].lease_until = LastRun(n).lease_until
    <3>1. /\ HasRun(n) /\ LastRun(n).state = "RUNNING"
          /\ LastRun(n).lease_until = LastRun(n)'.lease_until
          /\ LastRun(n).lease_until \in Int
      BY <1>3, <1>4, <1>5, <2>2 DEF Untouched, Quiet, SameClaims, LastRun
    <3> QED BY <1>1, <1>3, <3>1 DEF HoldsResources
  <2> QED BY <1>5, <2>1, <2>2 DEF Untouched, SameLeaseOrRenewed
<1>6. CASE Born(n)
  BY <1>3, <1>6 DEF Born, HasRun
<1>7. CASE Moved(n)
  <2>1. HasRun(n) /\ LastRun(n).state = "RUNNING"
    BY <1>3, <1>4, <1>7 DEF Moved, Quiet, SameClaims, LastRun
  <2> QED BY <1>7, <2>1 DEF Moved, NodeInv, NodeAgreesWithRun
<1>8. CASE Claimed(n) \/ TakenOver(n)
  BY <1>2, <1>8 DEF Claimed, TakenOver, WasFree
<1>9. CASE Closed(n)
  BY <1>3, <1>4, <1>9 DEF Closed, SameClaims
<1> QED BY <1>1, <1>5, <1>6, <1>7, <1>8, <1>9 DEF Effect

\* The exclusion of a product is kept by every step.
LEMMA ExclusionStep ==
    ASSUME StoreInv, NodeInv, ResourceExclusion, [Next]_vars, ClockLag = 0
    PROVE  ResourceExclusion'
<1> SUFFICES ASSUME NEW m \in Node, NEW n \in Node, m # n,
                    HoldsResources(m, clock)', HoldsResources(n, clock)'
             PROVE  Resources(m) \cap Resources(n) = {}
  BY DEF ResourceExclusion, Resources
<1>1. ASSUME NEW k \in Node, HoldsResources(k, clock)
      PROVE  Resources(k) \subseteq LockedResources(clock)
  BY <1>1 DEF LockedResources
<1>2. CASE HoldsResources(m, clock) /\ HoldsResources(n, clock)
  BY <1>2 DEF ResourceExclusion
<1>3. CASE HoldsResources(m, clock) /\ Resources(n) \cap LockedResources(clock) = {}
  BY <1>1, <1>3
<1>4. CASE HoldsResources(n, clock) /\ Resources(m) \cap LockedResources(clock) = {}
  BY <1>1, <1>4
<1>5. CASE Started(m) /\ Started(n)
  BY <1>5, StartedApart DEF Apart, Conflict
<1> QED BY <1>2, <1>3, <1>4, <1>5, HolderStep

\* Two nodes never execute on one product at the same time, provided the clocks
\* of the callers agree: claims, heartbeats and takeovers exclude each other.
THEOREM Exclusion ==
    ASSUME ClockLag = 0
    PROVE  Spec => []ResourceExclusion
<1>1. Init => ResourceExclusion
  <2>1. Init => \A n \in Node : ~HasRun(n)
    BY DEF Init, HasRun
  <2> QED BY <2>1 DEF ResourceExclusion, HoldsResources
<1>2. (StoreInv /\ NodeInv) /\ ResourceExclusion /\ [Next]_vars => ResourceExclusion'
  BY ExclusionStep
<1> QED BY <1>1, <1>2, NodesAreSound, PTL DEF Spec

-----------------------------------------------------------------------------
(* Completed plans. *)

\* A plan is SUCCEEDED after a step only if it was, or all its nodes now are.
Completes(p) ==
    planRun'[p].state = "SUCCEEDED" =>
        /\ planRun'[p].version = planRun[p].version
        /\ \/ planRun[p].state = "SUCCEEDED"
           \/ \A n \in CurrentNodes(p) : node'[n].state = "SUCCEEDED"

\* Closing a node completes its plan only with the last of its nodes.
LEMMA CloseCompletes ==
    ASSUME StoreInv, NEW n \in Node, NEW i, NEW s, NEW superseded, NEW t,
           CloseNode(n, i, s, superseded, t)
    PROVE  \A p \in Plans : Completes(p)
<1> DEFINE q      == n[1]
           closed == [node EXCEPT ![n].state = s]
           nodes  == IF s = "SUCCEEDED" THEN WithDependentsReady(closed, q, t) ELSE closed
<1>1. q \in Plans /\ planRun \in [Plans -> PlanRunRecord]
  BY DEF Node, StoreInv, TypeOK
<1>2. /\ node' = nodes
      /\ planRun' = [planRun EXCEPT ![q].state = PlanAfter(s, superseded, nodes, q)]
  BY DEF CloseNode
<1> HIDE DEF nodes
<1>3. \A p \in Plans : planRun'[p].version = planRun[p].version
  BY <1>1, <1>2 DEF PlanRunRecord
<1>4. \A p \in Plans \ {q} : planRun'[p].state = planRun[p].state
  BY <1>1, <1>2
<1>5. planRun'[q].state = PlanAfter(s, superseded, nodes, q)
  BY <1>1, <1>2 DEF PlanRunRecord
<1>6. Completes(q)
  BY <1>1, <1>2, <1>3, <1>5 DEF Completes, PlanAfter, AllSucceeded
<1> HIDE DEF q
<1> QED BY <1>1, <1>3, <1>4, <1>6 DEF Completes

\* Nothing else makes a plan SUCCEEDED.
LEMMA StepCompletes ==
    ASSUME StoreInv, [Next]_vars
    PROVE  \A p \in Plans : Completes(p)
<1>0. planRun \in [Plans -> PlanRunRecord] /\ CardBatch \subseteq Plans
  BY ConstantsAssumption DEF StoreInv, TypeOK
<1>1. ASSUME UNCHANGED planRun PROVE \A p \in Plans : Completes(p)
  BY <1>1 DEF Completes
<1>2. ASSUME NEW q \in Plans, NEW r, planRun' = [planRun EXCEPT ![q] = r],
             r.state # "SUCCEEDED" \/ (r.state = planRun[q].state /\ r.version = planRun[q].version)
      PROVE  \A p \in Plans : Completes(p)
  BY <1>0, <1>2 DEF Completes
<1>3. ASSUME NEW q \in Plans, NEW s, s # "SUCCEEDED", planRun' = [planRun EXCEPT ![q].state = s]
      PROVE  \A p \in Plans : Completes(p)
  BY <1>0, <1>3 DEF Completes, PlanRunRecord
<1>4. CASE Tick \/ UNCHANGED vars
  BY <1>1, <1>4 DEF Tick, vars
<1>5. CASE \E p \in Plans : CreateOrResume(p)
  <2>1. PICK p \in Plans : CreateOrResume(p)
    BY <1>5
  <2> DEFINE r == [state |-> "ACTIVE", version |-> 1, reconciliation_required |-> FALSE]
  <2>2. planRun' = [planRun EXCEPT ![p] = r] /\ r.state # "SUCCEEDED"
    BY <2>1 DEF CreateOrResume
  <2> HIDE DEF r
  <2> QED BY <1>2, <2>2
<1>6. CASE \E p \in Plans : FreezePlan(p)
  BY <1>3, <1>6 DEF FreezePlan
<1>7. CASE WorkerStep
  <2>1. ASSUME NEW ps, NEW byPriority, NEW t, Claim(ps, byPriority, t) PROVE UNCHANGED planRun
    BY <2>1, Zenon DEF Claim
  <2>2. ASSUME NEW t, NEW n, NEW i, NEW x,
               \/ ReclaimExpiredNode(n, i, t) \/ HeartbeatNodeRun(n, i, t)
               \/ RecordNodeInput(n, i, x, t) \/ ScheduleRetry(n, i, t, x)
        PROVE  UNCHANGED planRun
    BY <2>2 DEF ReclaimExpiredNode, HeartbeatNodeRun, RecordNodeInput, ScheduleRetry
  <2>3. ASSUME NEW t, NEW n \in Node, NEW i, NEW s, RecordNodeResult(n, i, s, t)
        PROVE  \A p \in Plans : Completes(p)
    BY <2>3, CloseCompletes DEF RecordNodeResult
  <2>4. ASSUME NEW t, (\E p \in Plans : ClaimReadyNodes(p, t)) \/ ClaimNextReadyNodes(t)
        PROVE  UNCHANGED planRun
    BY <2>1, <2>4 DEF ClaimReadyNodes, ClaimNextReadyNodes
  <2> QED BY <1>1, <1>7, <2>2, <2>3, <2>4 DEF WorkerStep
<1>8. CASE FreezeStep
  <2>1. ASSUME NEW p \in Plans, NEW v, NEW e, NEW keys, NEW global,
               ApplyImpactFreeze(p, v, e, keys, global)
        PROVE  \A q \in Plans : Completes(q)
    <3>1. \/ planRun' = [planRun EXCEPT ![p].state = "FROZEN"]
          \/ planRun' = [planRun EXCEPT ![p].state = planRun[p].state]
      BY <2>1 DEF ApplyImpactFreeze
    <3>2. planRun[p].state # "SUCCEEDED"
      BY <2>1 DEF ApplyImpactFreeze
    <3> QED BY <1>3, <3>1, <3>2
  <2> QED BY <1>0, <1>8, <2>1 DEF FreezeStep
<1>9. CASE ReplanStep
  <2>1. ASSUME NEW p \in Plans, NEW v, NEW g, NEW sources, RefuseReplan(p, v, g, sources)
        PROVE  \A q \in Plans : Completes(q)
    BY <1>3, <2>1 DEF RefuseReplan
  <2>2. ASSUME NEW p \in Plans, NEW v, NEW g, NEW sources, NEW reused, NEW t,
               CreateReplanVersion(p, v, g, sources, reused, t)
        PROVE  \A q \in Plans : Completes(q)
    <3> DEFINE r == [planRun[p] EXCEPT !.version = planRun[p].version + 1, !.state = "ACTIVE"]
    <3>1. planRun' = [planRun EXCEPT ![p] = r] /\ r.state = "ACTIVE"
      BY <1>0, <2>2 DEF CreateReplanVersion, PlanRunRecord
    <3> HIDE DEF r
    <3> QED BY <1>2, <3>1
  <2> QED BY <1>0, <1>9, <2>1, <2>2 DEF ReplanStep
<1>10. CASE ReconcileStep
  <2>1. ASSUME NEW p \in Plans, RecordReconciliationFailure(p)
        PROVE  \A q \in Plans : Completes(q)
    <3> DEFINE r == [planRun[p] EXCEPT !.state = IF @ = "ACTIVE" THEN "FROZEN" ELSE @,
                                       !.reconciliation_required = TRUE]
    <3>1. /\ planRun' = [planRun EXCEPT ![p] = r]
          /\ r.state = "FROZEN" \/ (r.state = planRun[p].state /\ r.version = planRun[p].version)
      BY <1>0, <2>1 DEF RecordReconciliationFailure, PlanRunRecord
    <3> HIDE DEF r
    <3> QED BY <1>2, <3>1
  <2>2. ASSUME NEW p \in Plans, ClearReconciliationFailure(p)
        PROVE  \A q \in Plans : Completes(q)
    <3> DEFINE r == [planRun[p] EXCEPT !.reconciliation_required = FALSE]
    <3>1. /\ planRun' = [planRun EXCEPT ![p] = r]
          /\ r.state = planRun[p].state /\ r.version = planRun[p].version
      BY <1>0, <2>2 DEF ClearReconciliationFailure, PlanRunRecord
    <3> HIDE DEF r
    <3> QED BY <1>2, <3>1
  <2>3. ASSUME NEW n \in Node, ReconcilePlanReference(n, "SUCCEEDED")
        PROVE  \A q \in Plans : Completes(q)
    BY <2>3, CloseCompletes DEF ReconcilePlanReference, CloseReconciliation
  <2> QED BY <1>10, <2>1, <2>2, <2>3 DEF ReconcileStep
<1>11. CASE OperatorStep
  <2>1. ASSUME NEW c \in CommandIds, NEW t \in Now, SubmitCommand(c, t)
        PROVE  \A p \in Plans : Completes(p)
    <3> DEFINE cmd == command[c]
    <3>0. cmd \in CommandRecord /\ cmd # None
      BY <2>1 DEF SubmitCommand, StoreInv, TypeOK
    <3>1. CASE UNCHANGED planRun
      BY <1>1, <3>1
    <3>2. CASE Resume(cmd.plan)
      <4>1. cmd.plan \in Plans
        BY <3>0 DEF CommandRecord
      <4> QED BY <1>3, <3>2, <4>1 DEF Resume
    <3>3. ASSUME cmd.type # "RESUME" PROVE cmd.node \in Node /\ cmd.node[1] \in Plans
      BY <3>0, <3>3 DEF StoreInv, CommandsAwait, Node
    <3>4. CASE cmd.type = "REJECT" /\ Reject(cmd.node)
      BY <1>3, <3>3, <3>4 DEF Reject
    <3>5. CASE cmd.type = "RECONCILE" /\ CloseReconciliation(cmd.node, cmd.outcome, t)
      BY <3>3, <3>5, CloseCompletes DEF CloseReconciliation
    <3> QED BY <2>1, <3>1, <3>2, <3>4, <3>5 DEF SubmitCommand, Approve
  <2> QED BY <1>1, <1>11, <2>1 DEF OperatorStep, IssueNodeCommand, IssueResume
<1> QED BY <1>4, <1>5, <1>6, <1>7, <1>8, <1>9, <1>10, <1>11 DEF Next

\* No step breaks up a completed plan.
LEMMA CompletionStep ==
    ASSUME StoreInv, NodeInv, SuccessIsComplete, [Next]_vars
    PROVE  SuccessIsComplete'
<1> SUFFICES ASSUME NEW p \in Plans, NEW n \in CurrentNodes(p)', planRun'[p].state = "SUCCEEDED"
             PROVE  node'[n].state = "SUCCEEDED"
  BY DEF SuccessIsComplete
<1>1. Completes(p) /\ Effect(n) /\ n \in Node
  BY StepCompletes, StepEffect DEF NodeInv, CurrentNodes
<1>2. n \in CurrentNodes(p)
  BY <1>1 DEF Completes, CurrentNodes
<1>3. CASE planRun[p].state = "SUCCEEDED"
  <2>1. node[n].state = "SUCCEEDED"
    BY <1>2, <1>3 DEF SuccessIsComplete
  <2> QED BY <1>1, <2>1 DEF Effect, Untouched, Born, Moved, Claimed, TakenOver, Closed
<1> QED BY <1>1, <1>2, <1>3 DEF Completes

\* A SUCCEEDED plan has only SUCCEEDED nodes: no result, freeze, command,
\* reconciliation or replan ends a plan early.
THEOREM Completion == Spec => []SuccessIsComplete
<1>1. Init => SuccessIsComplete
  BY DEF Init, SuccessIsComplete, AbsentPlan
<1>2. (StoreInv /\ NodeInv) /\ SuccessIsComplete /\ [Next]_vars => SuccessIsComplete'
  BY CompletionStep
<1> QED BY <1>1, <1>2, NodesAreSound, PTL DEF Spec

-----------------------------------------------------------------------------
(* What the callers of PlanStore leave intact, for every set of plans, DAG and
   bound.  All of them: old versions are not started again, reused results stay
   backed by an execution, and superseded results do not decide a plan.  Events
   and workers alone: a superseded attempt is the last one.  Workers, operators
   and reconcilers alone: an incident holds the plan, and what ended stays so. *)

-----------------------------------------------------------------------------
(* A step as a node of some version sees it. *)

Outdated(n) == n[2] < planRun[n[1]].version

\* Only the current version is started or superseded, and a node is born reused
\* only from a result that may be.
Versioned(n) ==
    /\ Outdated(n) /\ node[n].state # "READY" => node'[n].state # "READY"
    /\ Outdated(n) /\ HasRun(n) /\ LastRun(n).state = "SUCCEEDED" => runs'[n] = runs[n]
    /\ ~node[n].reused /\ node'[n].reused =>
          /\ n[2] = planRun[n[1]].version + 1
          /\ Reusable(n[1], planRun[n[1]].version, n[3])
          /\ UNCHANGED runs

\* A node whose run is left alone and which is not made READY is.
LEMMA VersionedIfSame ==
    ASSUME NEW n \in Node, runs'[n] = runs[n], node'[n].reused = node[n].reused,
           node'[n].state # "READY" \/ node[n].state = "READY"
    PROVE  Versioned(n)
BY DEF Versioned

\* A node of the current version is, as long as it is not born.
LEMMA VersionedIfCurrent ==
    ASSUME StoreInv, NEW p \in Plans, NEW n \in CurrentNodes(p), node'[n].reused = node[n].reused
    PROVE  Versioned(n)
<1>1. n \in Node /\ n[2] = planRun[n[1]].version /\ planRun[n[1]].version \in Int
  BY DEF CurrentNodes, StoreInv, TypeOK, PlanRunRecord
<1> QED BY <1>1 DEF Versioned, Outdated

\* n moves to s, and PENDING nodes of the current version may follow.
ClosesOne(n, s, t) ==
    /\ node'[n] = [node[n] EXCEPT !.state = s]
    /\ s \in Transitions[node[n].state]
    /\ \A m \in Node \ {n} :
          /\ runs'[m] = runs[m]
          /\ \/ node'[m] = node[m]
             \/ /\ m \in CurrentNodes(n[1])
                /\ node[m].state = "PENDING"
                /\ node'[m] = [node[m] EXCEPT !.state = "READY", !.ready_at = t]

\* What closing n does to the rows.
LEMMA CloseFrame ==
    ASSUME StoreInv, NEW n \in Node, NEW i, NEW s \in NodeState, NEW superseded, NEW t,
           CloseNode(n, i, s, superseded, t)
    PROVE  ClosesOne(n, s, t)
<1> DEFINE closed == [node EXCEPT ![n].state = s]
<1>1. node \in [Node -> NodeRecord] /\ runs \in [Node -> Seq(NodeRunRecord)]
  BY DEF StoreInv, TypeOK
<1>2. closed[n] = [node[n] EXCEPT !.state = s] /\ closed[n].state = s
      /\ \A m \in Node \ {n} : closed[m] = node[m]
  BY <1>1 DEF NodeRecord
<1>3. s \in Transitions[node[n].state] /\ \A m \in Node \ {n} : runs'[m] = runs[m]
  BY <1>1 DEF CloseNode
<1>4. CASE s = "SUCCEEDED"
  <2>1. node' = WithDependentsReady(closed, n[1], t)
    BY <1>4 DEF CloseNode
  <2> QED BY <1>2, <1>3, <1>4, <2>1 DEF WithDependentsReady, ClosesOne
<1>5. CASE s # "SUCCEEDED"
  <2>1. node' = closed
    BY <1>5 DEF CloseNode
  <2> QED BY <1>2, <1>3, <2>1 DEF ClosesOne
<1> QED BY <1>4, <1>5

\* Closing a node that was executing.
LEMMA CloseVersioned ==
    ASSUME StoreInv, NodeAgreesWithRun, NEW n \in Node, NEW s \in NodeState, NEW superseded, NEW t,
           HasRun(n), LastRun(n).state \in {"RUNNING", "WAITING_RECONCILIATION"},
           CloseNode(n, Len(runs[n]), s, superseded, t)
    PROVE  \A m \in Node : Versioned(m)
<1>1. node \in [Node -> NodeRecord] /\ n[1] \in Plans
  BY DEF StoreInv, TypeOK, Node
<1>0. ClosesOne(n, s, t)
  BY CloseFrame
<1>2. Versioned(n)
  <2>1. node[n].state \in {"RUNNING", "WAITING_RECONCILIATION"}
    BY DEF NodeAgreesWithRun
  <2>2. s # "READY" /\ node'[n] = [node[n] EXCEPT !.state = s]
    BY <1>0, <2>1 DEF ClosesOne, Transitions, NodeState
  <2>3. node'[n].state # "READY" /\ node'[n].reused = node[n].reused
    <3>1. node[n] \in NodeRecord
      BY <1>1
    <3> QED BY <2>2, <3>1 DEF NodeRecord
  <2> QED BY <2>3 DEF Versioned
<1>3. ASSUME NEW m \in Node \ {n} PROVE Versioned(m)
  <2>1. CASE node'[m] = node[m]
    BY <1>0, <2>1, VersionedIfSame DEF ClosesOne
  <2>2. CASE m \in CurrentNodes(n[1])
             /\ node'[m] = [node[m] EXCEPT !.state = "READY", !.ready_at = t]
    <3>1. node'[m].reused = node[m].reused
      <4>1. node[m] \in NodeRecord
        BY <1>1
      <4> QED BY <2>2, <4>1 DEF NodeRecord
    <3> QED BY <1>1, <2>2, <3>1, VersionedIfCurrent
  <2> QED BY <1>0, <2>1, <2>2 DEF ClosesOne
<1> QED BY <1>2, <1>3

\* A claim starts and promotes nodes of current versions.
LEMMA ClaimVersioned ==
    ASSUME StoreInv, NEW ps \in SUBSET Plans, NEW byPriority, NEW t \in Now,
           Claim(ps, byPriority, t)
    PROVE  \A n \in Node : Versioned(n)
<1> DEFINE promoted == Promoted(ps, t)
           candidates == {n \in Schedulable(ps) : promoted[n].state = "READY"
                                                   /\ Len(runs[n]) < MaxRuns}
<1>0. t \in Int
  BY NowIsInt DEF StoreInv
<1>1. node \in [Node -> NodeRecord]
  BY DEF StoreInv, TypeOK
<1>2. PICK S \in SUBSET candidates :
         /\ node' = [n \in Node |-> IF n \in S THEN [promoted[n] EXCEPT !.state = "RUNNING"]
                                    ELSE promoted[n]]
         /\ runs' = [n \in Node |-> IF n \in S THEN Append(runs[n], NewRun(n, t)) ELSE runs[n]]
  BY Zenon DEF Claim
<1> SUFFICES ASSUME NEW n \in Node PROVE Versioned(n)
  OBVIOUS
<1>3. node'[n].reused = node[n].reused
  <2>1. node[n] \in NodeRecord
    BY <1>1
  <2>2. promoted[n] \in NodeRecord /\ promoted[n].reused = node[n].reused
    <3>1. \/ promoted[n] = node[n]
          \/ promoted[n] = [node[n] EXCEPT !.state = "READY", !.retry_at = None, !.ready_at = t]
      BY DEF Promoted
    <3> QED BY <1>0, <2>1, <3>1 DEF NodeRecord, NodeState
  <2> HIDE DEF promoted, candidates
  <2> QED BY <1>2, <2>2 DEF NodeRecord
<1>4. CASE n \in Schedulable(ps)
  <2>1. PICK p \in Plans : n \in CurrentNodes(p)
    BY <1>4 DEF Schedulable
  <2> QED BY <1>3, <2>1, VersionedIfCurrent
<1>5. CASE n \notin Schedulable(ps)
  <2>1. promoted[n] = node[n] /\ n \notin S
    BY <1>5 DEF Promoted, DueRetries
  <2> QED BY <1>2, <1>3, <2>1, VersionedIfSame
<1> QED BY <1>4, <1>5

\* The holder of a claim, and the one who takes a lost claim over.
LEMMA HolderVersioned ==
    ASSUME StoreInv, NodeAgreesWithRun, NEW t \in Now, NEW n \in Node, NEW i \in DOMAIN runs[n],
           \/ ReclaimExpiredNode(n, i, t)
           \/ HeartbeatNodeRun(n, i, t)
           \/ \E f \in Fingerprints : RecordNodeInput(n, i, f, t)
           \/ \E d \in RetryDelays : ScheduleRetry(n, i, t, t + d)
           \/ \E s \in ResultStates : RecordNodeResult(n, i, s, t)
    PROVE  \A m \in Node : Versioned(m)
<1>0. node \in [Node -> NodeRecord] /\ runs \in [Node -> Seq(NodeRunRecord)]
  BY DEF StoreInv, TypeOK
<1>1. i = Len(runs[n]) /\ HasRun(n) /\ LastRun(n) = runs[n][i] /\ LastRun(n).state = "RUNNING"
  <2>1. i = Len(runs[n]) /\ runs[n][i].state = "RUNNING"
    BY DEF ReclaimExpiredNode, Reclaimable, HeartbeatNodeRun, RecordNodeInput, ScheduleRetry,
           RecordNodeResult, HoldsClaim, IsCurrent
  <2>2. HasRun(n)
    BY RunType DEF HasRun, StoreInv
  <2> QED BY <2>1, <2>2 DEF LastRun
<1>2. ASSUME \A m \in Node \ {n} : runs'[m] = runs[m] /\ node'[m] = node[m],
             node'[n] = node[n] \/ (node'[n].state = "RETRY_WAIT" /\ node'[n].reused = node[n].reused)
      PROVE  \A m \in Node : Versioned(m)
  <2>1. Versioned(n)
    BY <1>1, <1>2 DEF Versioned
  <2> QED BY <1>2, <2>1, VersionedIfSame
<1>3. ASSUME NEW x,
             \/ ReclaimExpiredNode(n, i, t) \/ HeartbeatNodeRun(n, i, t)
             \/ RecordNodeInput(n, i, x, t)
      PROVE  \A m \in Node : Versioned(m)
  <2>1. node' = node /\ \A m \in Node \ {n} : runs'[m] = runs[m]
    BY <1>0, <1>3 DEF ReclaimExpiredNode, HeartbeatNodeRun, RecordNodeInput
  <2> QED BY <1>2, <2>1
<1>4. ASSUME NEW x, ScheduleRetry(n, i, t, x)
      PROVE  \A m \in Node : Versioned(m)
  <2>1. /\ \A m \in Node \ {n} : runs'[m] = runs[m] /\ node'[m] = node[m]
        /\ node'[n].state = "RETRY_WAIT" /\ node'[n].reused = node[n].reused
    BY <1>0, <1>4 DEF ScheduleRetry, NodeRecord
  <2> QED BY <1>2, <2>1
<1>5. ASSUME NEW s \in ResultStates, RecordNodeResult(n, i, s, t)
      PROVE  \A m \in Node : Versioned(m)
  <2>1. s \in NodeState /\ CloseNode(n, Len(runs[n]), s, runs[n][i].superseded_by # None, t)
    BY <1>1, <1>5, ResultStatesAssumption DEF RecordNodeResult
  <2> QED BY <1>1, <2>1, CloseVersioned
<1> QED BY <1>3, <1>4, <1>5

\* A freeze supersedes runs of the version it was analysed for, the current one.
LEMMA ImpactVersioned ==
    ASSUME StoreInv, NEW p \in Plans, NEW v, NEW e, NEW keys, NEW global,
           ApplyImpactFreeze(p, v, e, keys, global)
    PROVE  \A n \in Node : Versioned(n)
<1> SUFFICES ASSUME NEW n \in Node PROVE Versioned(n)
  OBVIOUS
<1>1. node[n] \in NodeRecord
  BY DEF StoreInv, TypeOK
<1>2. \/ node'[n] = node[n]
      \/ node'[n] = [node[n] EXCEPT !.state = "FROZEN"]
  BY DEF ApplyImpactFreeze
<1>3. /\ node'[n].reused = node[n].reused
      /\ node'[n].state # "READY" \/ node[n].state = "READY"
  BY <1>1, <1>2 DEF NodeRecord
<1>4. CASE n \in CurrentNodes(p)
  BY <1>3, <1>4, VersionedIfCurrent
<1>5. CASE n \notin CurrentNodes(p)
  <2>1. runs'[n] = runs[n]
    BY <1>5 DEF ApplyImpactFreeze
  <2> QED BY <1>3, <2>1, VersionedIfSame
<1> QED BY <1>4, <1>5

\* New nodes are those of a version that was not there.
LEMMA NewNodesVersioned ==
    ASSUME StoreInv, NEW p \in Plans, NEW reused, NEW t,
           \A k \in reused : Reusable(p, planRun[p].version, k),
           node' = WithNewNodes(p, planRun[p].version + 1, reused, t), UNCHANGED runs
    PROVE  \A n \in Node : Versioned(n)
<1> SUFFICES ASSUME NEW n \in Node PROVE Versioned(n)
  OBVIOUS
<1>1. CASE n[1] = p /\ n[2] = planRun[p].version + 1
  <2>1. node'[n].reused => n[3] \in reused
    BY <1>1 DEF WithNewNodes, NewNode
  <2>2. ~Outdated(n)
    <3>1. planRun[p].version \in Nat
      BY DEF StoreInv, TypeOK, PlanRunRecord
    <3> QED BY <1>1, <3>1 DEF Outdated
  <2> QED BY <1>1, <2>1, <2>2 DEF Versioned
<1>2. CASE ~(n[1] = p /\ n[2] = planRun[p].version + 1)
  <2>1. node'[n] = node[n] /\ runs'[n] = runs[n]
    BY <1>2 DEF WithNewNodes
  <2> QED BY <2>1, VersionedIfSame
<1> QED BY <1>1, <1>2

\* A command acts on the version it was issued for, if that is the current one.
LEMMA SubmitVersioned ==
    ASSUME StoreInv, NodeAgreesWithRun, NEW c \in CommandIds, NEW t \in Now, SubmitCommand(c, t)
    PROVE  \A n \in Node : Versioned(n)
<1> DEFINE cmd == command[c]
<1>0. /\ cmd \in CommandRecord /\ cmd # None /\ node \in [Node -> NodeRecord]
  BY DEF SubmitCommand, StoreInv, TypeOK
<1>1. ASSUME UNCHANGED <<node, runs>> PROVE \A n \in Node : Versioned(n)
  BY <1>1, VersionedIfSame
<1>2. ASSUME Verdict(cmd, t) = "ACCEPTED", cmd.type # "RESUME"
      PROVE  cmd.node \in CurrentNodes(cmd.plan) /\ cmd.plan \in Plans
  BY <1>0, <1>2 DEF StoreInv, CommandsAwait, Verdict, CurrentNodes, CommandRecord
<1>3. ASSUME Verdict(cmd, t) = "ACCEPTED", cmd.type # "RESUME",
             NEW x, node' = [node EXCEPT ![cmd.node] = x], UNCHANGED runs,
             x.reused = node[cmd.node].reused
      PROVE  \A n \in Node : Versioned(n)
  <2>1. cmd.node \in CurrentNodes(cmd.plan) /\ cmd.plan \in Plans /\ cmd.node \in Node
    BY <1>2, <1>3 DEF CurrentNodes
  <2>2. node'[cmd.node].reused = node[cmd.node].reused
    BY <1>0, <1>3, <2>1
  <2>3. \A n \in Node \ {cmd.node} : node'[n] = node[n] /\ runs'[n] = runs[n]
    BY <1>0, <1>3
  <2> QED BY <2>1, <2>2, <2>3, VersionedIfCurrent, VersionedIfSame
<1>4. CASE Verdict(cmd, t) # "ACCEPTED" \/ (cmd.type = "RESUME" /\ Resume(cmd.plan))
  BY <1>1, <1>4 DEF SubmitCommand, Resume
<1>5. CASE Verdict(cmd, t) = "ACCEPTED" /\ cmd.type = "APPROVE" /\ Approve(cmd.node, t)
  <2> DEFINE x == [node[cmd.node] EXCEPT !.state = "READY", !.ready_at = t]
  <2>1. x.reused = node[cmd.node].reused
    BY <1>0, <1>2, <1>5 DEF NodeRecord, CurrentNodes
  <2>2. node' = [node EXCEPT ![cmd.node] = x] /\ UNCHANGED runs
    BY <1>0, <1>5 DEF Approve, NodeRecord
  <2> HIDE DEF x
  <2> QED BY <1>3, <1>5, <2>1, <2>2
<1>6. CASE Verdict(cmd, t) = "ACCEPTED" /\ cmd.type = "REJECT" /\ Reject(cmd.node)
  <2> DEFINE x == [node[cmd.node] EXCEPT !.state = "FAILED"]
  <2>1. x.reused = node[cmd.node].reused
    BY <1>0, <1>2, <1>6 DEF NodeRecord, CurrentNodes
  <2>2. node' = [node EXCEPT ![cmd.node] = x] /\ UNCHANGED runs
    BY <1>0, <1>6 DEF Reject, NodeRecord
  <2> HIDE DEF x
  <2> QED BY <1>3, <1>6, <2>1, <2>2
<1>7. CASE Verdict(cmd, t) = "ACCEPTED" /\ cmd.type = "RECONCILE"
           /\ CloseReconciliation(cmd.node, cmd.outcome, t)
  <2>1. cmd.node \in Node /\ cmd.outcome \in NodeState
    BY <1>0, <1>7 DEF StoreInv, CommandsAwait, NodeState
  <2> QED BY <1>7, <2>1, CloseVersioned DEF CloseReconciliation
<1> QED BY <1>4, <1>5, <1>6, <1>7 DEF SubmitCommand

\* Whatever the step, every node is Versioned.
LEMMA StepVersioned ==
    ASSUME StoreInv, NodeAgreesWithRun, [Next]_vars
    PROVE  \A n \in Node : Versioned(n)
<1>0. CardBatch \subseteq Plans
  BY ConstantsAssumption
<1>1. ASSUME UNCHANGED <<node, runs>> PROVE \A n \in Node : Versioned(n)
  BY <1>1, VersionedIfSame
<1>2. CASE Tick \/ (\E p \in Plans : FreezePlan(p)) \/ UNCHANGED vars
  BY <1>1, <1>2 DEF Tick, FreezePlan, vars
<1>3. CASE \E p \in Plans : CreateOrResume(p)
  <2>1. PICK p \in Plans : CreateOrResume(p)
    BY <1>3
  <2>2. planRun[p].version + 1 = 1
    BY <2>1 DEF CreateOrResume, StoreInv, VersionsExist
  <2> DEFINE none == {}
  <2>3. /\ node' = WithNewNodes(p, planRun[p].version + 1, none, clock) /\ UNCHANGED runs
        /\ \A k \in none : Reusable(p, planRun[p].version, k)
    BY <2>1, <2>2 DEF CreateOrResume
  <2> HIDE DEF none
  <2> QED BY <2>3, NewNodesVersioned
<1>4. CASE WorkerStep
  <2>1. ASSUME NEW t \in Now, NEW p \in Plans, ClaimReadyNodes(p, t)
        PROVE  \A n \in Node : Versioned(n)
    <3>1. Claim({p}, FALSE, t) /\ {p} \in SUBSET Plans
      BY <2>1 DEF ClaimReadyNodes
    <3> QED BY <3>1, ClaimVersioned
  <2>2. ASSUME NEW t \in Now, ClaimNextReadyNodes(t)
        PROVE  \A n \in Node : Versioned(n)
    <3>1. Claim(Plans, TRUE, t) /\ Plans \in SUBSET Plans
      BY <2>2 DEF ClaimNextReadyNodes
    <3> QED BY <3>1, ClaimVersioned
  <2> QED BY <1>4, <2>1, <2>2, HolderVersioned DEF WorkerStep
<1>5. CASE FreezeStep
  BY <1>0, <1>5, ImpactVersioned DEF FreezeStep
<1>6. CASE ReplanStep
  <2>1. ASSUME NEW p \in CardBatch, NEW v, NEW signature, NEW sources, NEW t, NEW reused,
               CreateReplanVersion(p, v, signature, sources, reused, t)
        PROVE  \A n \in Node : Versioned(n)
    BY <1>0, <2>1, NewNodesVersioned DEF CreateReplanVersion
  <2>2. ASSUME NEW p, NEW v, NEW signature, NEW sources, RefuseReplan(p, v, signature, sources)
        PROVE  \A n \in Node : Versioned(n)
    BY <1>1, <2>2 DEF RefuseReplan
  <2> QED BY <1>6, <2>1, <2>2 DEF ReplanStep
<1>7. CASE ReconcileStep
  <2>1. ASSUME NEW n \in Node, ReconcilePlanReference(n, "SUCCEEDED")
        PROVE  \A m \in Node : Versioned(m)
    BY <2>1, CloseVersioned DEF ReconcilePlanReference, CloseReconciliation, NodeState
  <2>2. ASSUME NEW p, RecordReconciliationFailure(p) \/ ClearReconciliationFailure(p)
        PROVE  \A n \in Node : Versioned(n)
    BY <1>1, <2>2 DEF RecordReconciliationFailure, ClearReconciliationFailure
  <2> QED BY <1>7, <2>1, <2>2 DEF ReconcileStep
<1>8. CASE OperatorStep
  <2>1. ASSUME NEW c, NEW type, NEW n, NEW outcome, NEW p,
               IssueNodeCommand(c, type, n, outcome) \/ IssueResume(c, p)
        PROVE  \A m \in Node : Versioned(m)
    BY <1>1, <2>1 DEF IssueNodeCommand, IssueResume
  <2> QED BY <1>8, <2>1, SubmitVersioned DEF OperatorStep
<1> QED BY <1>2, <1>3, <1>4, <1>5, <1>6, <1>7, <1>8 DEF Next

-----------------------------------------------------------------------------
(* Versions. *)

\* No step, whoever takes it, makes a node of an earlier version READY: a late
\* result opens dependents of the current version only, a claim promotes its
\* retries only, and an approval of an earlier version is refused.
THEOREM Closedness == Spec => OldVersionsAreClosed
<1> DEFINE Closed0 == \A n \in Node : n[2] < planRun[n[1]].version /\ node[n].state # "READY"
                                      => node'[n].state # "READY"
<1>1. (StoreInv /\ NodeInv) /\ [Next]_vars => [Closed0]_vars
  BY StepVersioned DEF NodeInv, Versioned, Outdated
<1> QED BY <1>1, NodesAreSound, PTL DEF Spec, OldVersionsAreClosed

\* An execution a reuse may stand on.
Backs(origin) ==
    /\ HasRun(origin)
    /\ LastRun(origin).state = "SUCCEEDED"
    /\ LastRun(origin).superseded_by = None
    /\ LastRun(origin).input_fingerprint # None

\* Node n is reused from its execution in version u.
BackedBy(n, u) ==
    /\ Backs(<<n[1], u, n[3]>>)
    /\ \A w \in (u + 1)..n[2] : node[<<n[1], w, n[3]>>].reused

\* What succeeded stays so, and so does the evidence of a version gone by.
LEMMA ReuseStep ==
    ASSUME StoreInv, NodeInv, ReuseIsBacked, [Next]_vars
    PROVE  ReuseIsBacked'
<1>1. StoreInv' /\ \A n \in Node : Effect(n) /\ Versioned(n)
  BY StoreInvStep, StepEffect, StepVersioned DEF NodeInv
<1>2. \A n \in Node : node[n].reused => node'[n].reused
  BY <1>1 DEF Effect, Untouched, Born, Moved, Claimed, TakenOver, Closed, NodeInv, ReusedIsDone
<1>3. SUFFICES ASSUME NEW n \in Node, node'[n].reused
               PROVE  \E u \in 1..(n[2] - 1) : BackedBy(n, u)'
  BY DEF ReuseIsBacked, BackedBy, Backs
<1>4. /\ n[1] \in Plans /\ n[2] \in Versions /\ n[3] \in KeysOf[n[1]] /\ Versions \subseteq Nat
      /\ planRun[n[1]].version \in Nat
      /\ \A u \in Versions : <<n[1], u, n[3]>> \in Node
  <2>1. n \in Plans \X Versions \X Keys /\ n[3] \in KeysOf[n[1]]
    BY DEF Node
  <2> QED BY <2>1 DEF Node, Versions, StoreInv, TypeOK, PlanRunRecord
<1>5. ASSUME NEW u \in 1..(n[2] - 1), Backs(<<n[1], u, n[3]>>),
             runs'[<<n[1], u, n[3]>>] = runs[<<n[1], u, n[3]>>],
             \A w \in (u + 1)..(n[2] - 1) : node[<<n[1], w, n[3]>>].reused
      PROVE  BackedBy(n, u)'
  <2>1. Backs(<<n[1], u, n[3]>>)'
    BY <1>5 DEF Backs, HasRun, LastRun
  <2>2. \A w \in (u + 1)..n[2] : node'[<<n[1], w, n[3]>>].reused
    <3> SUFFICES ASSUME NEW w \in (u + 1)..n[2] PROVE node'[<<n[1], w, n[3]>>].reused
      OBVIOUS
    <3>1. CASE w = n[2]
      <4>1. n = <<n[1], w, n[3]>>
        BY <3>1 DEF Node
      <4> QED BY <1>3, <4>1
    <3>2. CASE w # n[2]
      <4>1. w \in (u + 1)..(n[2] - 1) /\ w \in Versions
        BY <1>4, <3>2, BoundsAssumption DEF Versions
      <4> QED BY <1>2, <1>4, <1>5, <4>1
    <3> QED BY <3>1, <3>2
  <2> QED BY <2>1, <2>2 DEF BackedBy, Backs, HasRun, LastRun
<1>6. CASE node[n].reused
  <2>1. PICK u \in 1..(n[2] - 1) : BackedBy(n, u)
    BY <1>6 DEF ReuseIsBacked, BackedBy, Backs
  <2>2. /\ Backs(<<n[1], u, n[3]>>)
        /\ \A w \in (u + 1)..(n[2] - 1) : node[<<n[1], w, n[3]>>].reused
    BY <1>4, <2>1 DEF BackedBy
  <2>3. node[n].state # "ABSENT"
    BY <1>6 DEF NodeInv, ReusedIsDone
  <2>4. n[2] <= planRun[n[1]].version /\ u \in Versions /\ u < planRun[n[1]].version
    BY <1>4, <2>3, BoundsAssumption DEF StoreInv, VersionsExist, Versions
  <2>5. runs'[<<n[1], u, n[3]>>] = runs[<<n[1], u, n[3]>>]
    BY <1>1, <1>4, <2>2, <2>4 DEF Versioned, Outdated, Backs
  <2> QED BY <1>5, <2>2, <2>5
<1>7. CASE ~node[n].reused
  <2>1. /\ n[2] = planRun[n[1]].version + 1 /\ UNCHANGED runs
        /\ Reusable(n[1], n[2] - 1, n[3])
    BY <1>1, <1>3, <1>4, <1>7 DEF Versioned
  <2>2. PICK u \in 1..(n[2] - 1) :
           /\ Backs(<<n[1], u, n[3]>>)
           /\ \A w \in (u + 1)..(n[2] - 1) : node[<<n[1], w, n[3]>>].reused
    BY <2>1 DEF Reusable, Evidence, Backs
  <2> QED BY <1>5, <2>1, <2>2
<1> QED BY <1>6, <1>7

\* Every reused node leads back to an execution that succeeded and whose input
\* was recorded, and which no later event superseded: a freeze marks the runs of
\* the version it was analysed for only.
THEOREM Backing == Spec => []ReuseIsBacked
<1>1. Init => ReuseIsBacked
  BY DEF Init, ReuseIsBacked, AbsentNode
<1>2. (StoreInv /\ NodeInv) /\ ReuseIsBacked /\ [Next]_vars => ReuseIsBacked'
  BY ReuseStep
<1> QED BY <1>1, <1>2, NodesAreSound, PTL DEF Spec

-----------------------------------------------------------------------------
(* Superseded attempts. *)

\* Only the worker that holds its claim makes a RUNNING node stop running.
LEMMA OnlyHolderStops ==
    ASSUME StoreInv, NodeInv, [Next]_vars, NEW n \in Node,
           node[n].state = "RUNNING", node'[n].state # "RUNNING"
    PROVE  \/ \E t \in Now, i \in DOMAIN runs[n] : \E x : ScheduleRetry(n, i, t, x)
           \/ \E t \in Now, i \in DOMAIN runs[n], s \in ResultStates : RecordNodeResult(n, i, s, t)
<1>0. node \in [Node -> NodeRecord] /\ runs \in [Node -> Seq(NodeRunRecord)]
      /\ CardBatch \subseteq Plans
  BY ConstantsAssumption DEF StoreInv, TypeOK
<1>1. node'[n] # node[n]
  OBVIOUS
<1>2. ASSUME NEW p \in Plans, NEW v, NEW reused, NEW t, planRun[p].version < v,
             node' = WithNewNodes(p, v, reused, t)
      PROVE  FALSE
  <2>1. n[1] = p /\ n[2] = v
    BY <1>1, <1>2 DEF WithNewNodes
  <2>2. node[n].state = "ABSENT"
    BY <1>2, <2>1 DEF StoreInv, VersionsExist
  <2> QED BY <2>2
<1>3. ASSUME NEW m \in Node, m # n \/ LastRun(m).state # "RUNNING", NEW s \in NodeState,
             NEW superseded, NEW t, HasRun(m), CloseNode(m, Len(runs[m]), s, superseded, t)
      PROVE  FALSE
  <2>1. ClosesOne(m, s, t)
    BY <1>3, CloseFrame
  <2>2. m = n
    BY <1>1, <2>1 DEF ClosesOne
  <2>3. LastRun(n).state = "RUNNING"
    BY DEF NodeInv, NodeAgreesWithRun, ReusedIsDone, ExecutedStates
  <2> QED BY <1>3, <2>2, <2>3
<1>4. CASE WorkerStep
  <2>1. ASSUME NEW ps, NEW byPriority, NEW t, Claim(ps, byPriority, t) PROVE FALSE
    <3>1. \/ node'[n] = Promoted(ps, t)[n]
          \/ node'[n] = [Promoted(ps, t)[n] EXCEPT !.state = "RUNNING"]
      BY <2>1 DEF Claim
    <3>2. Promoted(ps, t)[n] = node[n]
      BY DEF Promoted, DueRetries
    <3>3. node[n] \in NodeRecord
      BY <1>0
    <3> QED BY <3>1, <3>2, <3>3 DEF NodeRecord
  <2>2. ASSUME NEW m, NEW i, NEW t, NEW x,
               \/ ReclaimExpiredNode(m, i, t) \/ HeartbeatNodeRun(m, i, t)
               \/ RecordNodeInput(m, i, x, t)
        PROVE  FALSE
    BY <1>1, <2>2 DEF ReclaimExpiredNode, HeartbeatNodeRun, RecordNodeInput
  <2>3. ASSUME NEW m \in Node, NEW i \in DOMAIN runs[m], NEW t, NEW x, ScheduleRetry(m, i, t, x)
        PROVE  m = n
    BY <1>0, <1>1, <2>3 DEF ScheduleRetry
  <2>4. ASSUME NEW m \in Node, NEW i \in DOMAIN runs[m], NEW t \in Now, NEW s \in ResultStates,
               RecordNodeResult(m, i, s, t)
        PROVE  m = n
    <3>1. s \in NodeState /\ CloseNode(m, i, s, runs[m][i].superseded_by # None, t)
      BY <2>4, ResultStatesAssumption DEF RecordNodeResult
    <3>2. ClosesOne(m, s, t)
      BY <3>1, CloseFrame
    <3> QED BY <1>1, <3>2 DEF ClosesOne
  <2>5. PICK t \in Now :
           \/ \E p \in Plans : ClaimReadyNodes(p, t)
           \/ ClaimNextReadyNodes(t)
           \/ \E m \in Node : \E i \in DOMAIN runs[m] :
                 \/ ReclaimExpiredNode(m, i, t)
                 \/ HeartbeatNodeRun(m, i, t)
                 \/ \E f \in Fingerprints : RecordNodeInput(m, i, f, t)
                 \/ \E d \in RetryDelays : ScheduleRetry(m, i, t, t + d)
                 \/ \E s \in ResultStates : RecordNodeResult(m, i, s, t)
    BY <1>4 DEF WorkerStep
  <2>6. \E m \in Node : \E i \in DOMAIN runs[m] :
           \/ \E d \in RetryDelays : ScheduleRetry(m, i, t, t + d)
           \/ \E s \in ResultStates : RecordNodeResult(m, i, s, t)
    BY <2>1, <2>2, <2>5 DEF ClaimReadyNodes, ClaimNextReadyNodes
  <2> QED BY <2>3, <2>4, <2>6
<1>5. CASE FreezeStep
  <2>1. ASSUME NEW p, NEW v, NEW e, NEW keys, NEW global, ApplyImpactFreeze(p, v, e, keys, global)
        PROVE  FALSE
    BY <1>1, <2>1 DEF ApplyImpactFreeze, Freezable
  <2> QED BY <1>5, <2>1 DEF FreezeStep
<1>6. CASE ReplanStep
  <2>1. ASSUME NEW p, NEW v, NEW g, NEW sources, RefuseReplan(p, v, g, sources) PROVE FALSE
    BY <1>1, <2>1 DEF RefuseReplan
  <2>2. ASSUME NEW p \in Plans, NEW v, NEW g, NEW sources, NEW reused, NEW t,
               CreateReplanVersion(p, v, g, sources, reused, t)
        PROVE  FALSE
    <3>1. planRun[p].version \in Nat
      BY DEF StoreInv, TypeOK, PlanRunRecord
    <3>2. planRun[p].version < planRun[p].version + 1
      BY <3>1
    <3> QED BY <1>2, <2>2, <3>2 DEF CreateReplanVersion
  <2> QED BY <1>0, <1>6, <2>1, <2>2 DEF ReplanStep
<1>7. ASSUME NEW m \in Node, NEW outcome \in NodeState, NEW t, CloseReconciliation(m, outcome, t)
      PROVE  FALSE
  BY <1>3, <1>7 DEF CloseReconciliation
<1>8. CASE ReconcileStep
  <2>1. "SUCCEEDED" \in NodeState
    BY DEF NodeState
  <2>2. ASSUME NEW m \in Node, ReconcilePlanReference(m, "SUCCEEDED") PROVE FALSE
    BY <1>7, <2>1, <2>2 DEF ReconcilePlanReference
  <2> QED BY <1>1, <1>8, <2>2
          DEF ReconcileStep, RecordReconciliationFailure, ClearReconciliationFailure
<1>9. CASE OperatorStep
  <2>1. ASSUME NEW c \in CommandIds, NEW t \in Now, SubmitCommand(c, t) PROVE FALSE
    <3> DEFINE cmd == command[c]
    <3>1. ASSUME cmd.type # "RESUME"
          PROVE  /\ cmd.node \in Node
                 /\ cmd.expected_status = AwaitedStatus[cmd.type]
                 /\ cmd.type = "RECONCILE" => cmd.outcome \in NodeState
      BY <2>1, <3>1 DEF SubmitCommand, StoreInv, CommandsAwait, NodeState
    <3>2. CASE Verdict(cmd, t) = "ACCEPTED" /\ cmd.type \in {"APPROVE", "REJECT"}
               /\ (Approve(cmd.node, t) \/ Reject(cmd.node))
      <4>1. node[cmd.node].state = "WAITING_APPROVAL" /\ cmd.node \in Node
        BY <3>1, <3>2 DEF Verdict, AwaitedStatus
      <4>2. cmd.node # n
        BY <4>1
      <4> QED BY <1>0, <1>1, <3>2, <4>1, <4>2 DEF Approve, Reject
    <3>3. CASE cmd.type = "RECONCILE" /\ CloseReconciliation(cmd.node, cmd.outcome, t)
      BY <1>7, <3>1, <3>3
    <3> QED BY <1>1, <2>1, <3>2, <3>3 DEF SubmitCommand, Resume
  <2> QED BY <1>1, <1>9, <2>1 DEF OperatorStep, IssueNodeCommand, IssueResume
<1>10. CASE Tick \/ (\E p \in Plans : FreezePlan(p)) \/ UNCHANGED vars
  BY <1>1, <1>10 DEF Tick, FreezePlan, vars
<1>11. CASE \E p \in Plans : CreateOrResume(p)
  <2>1. PICK p \in Plans : CreateOrResume(p)
    BY <1>11
  <2>2. planRun[p].version < 1 /\ node' = WithNewNodes(p, 1, {}, clock)
    BY <2>1 DEF CreateOrResume, StoreInv, VersionsExist
  <2> QED BY <1>2, <2>2
<1> QED BY <1>4, <1>5, <1>6, <1>8, <1>9, <1>10, <1>11 DEF Next

\* The result of an attempt that an event superseded never fails or freezes the
\* plan: it is recorded, and can at most complete the plan.
THEOREM Harmlessness == Spec => SupersededResultsAreHarmless
<1> DEFINE Harmless ==
      \A n \in Node :
          /\ HasRun(n) /\ LastRun(n).superseded_by # None
          /\ node[n].state = "RUNNING" /\ node'[n].state # "RUNNING"
          => planRun'[n[1]].state \in {planRun[n[1]].state, "SUCCEEDED"}
<1>1. (StoreInv /\ NodeInv) /\ [Next]_vars => [Harmless]_vars
  <2> SUFFICES ASSUME StoreInv, NodeInv, [Next]_vars, NEW n \in Node,
                      HasRun(n), LastRun(n).superseded_by # None,
                      node[n].state = "RUNNING", node'[n].state # "RUNNING"
               PROVE  planRun'[n[1]].state \in {planRun[n[1]].state, "SUCCEEDED"}
    OBVIOUS
  <2>1. CASE \E t \in Now, i \in DOMAIN runs[n] : \E x : ScheduleRetry(n, i, t, x)
    BY <2>1 DEF ScheduleRetry, HoldsClaim, IsCurrent, LastRun
  <2>2. CASE \E t \in Now, i \in DOMAIN runs[n], s \in ResultStates : RecordNodeResult(n, i, s, t)
    <3>1. PICK t \in Now, i \in DOMAIN runs[n], s \in ResultStates : RecordNodeResult(n, i, s, t)
      BY <2>2
    <3>2. CloseNode(n, i, s, TRUE, t)
      BY <3>1 DEF RecordNodeResult, HoldsClaim, IsCurrent, LastRun
    <3>3. n[1] \in Plans /\ planRun \in [Plans -> PlanRunRecord]
      BY DEF Node, StoreInv, TypeOK
    <3>4. PICK nodes : planRun' = [planRun EXCEPT ![n[1]].state = PlanAfter(s, TRUE, nodes, n[1])]
      BY <3>2 DEF CloseNode
    <3>5. planRun'[n[1]].state = PlanAfter(s, TRUE, nodes, n[1])
      BY <3>3, <3>4 DEF PlanRunRecord
    <3> QED BY <3>5 DEF PlanAfter
  <2> QED BY <2>1, <2>2, OnlyHolderStops
<1> QED BY <1>1, NodesAreSound, PTL DEF Spec, SupersededResultsAreHarmless

-----------------------------------------------------------------------------
(* Without operators and reconcilers a superseded attempt is the last one. *)

\* A retry waits for its instant or is frozen with it, a superseded node is not
\* on its way to another attempt, and only the last run is superseded.
Rests(n) ==
    /\ node[n].retry_at # None => node[n].state \in {"RETRY_WAIT", "FROZEN"}
    /\ HasRun(n) /\ LastRun(n).superseded_by # None =>
          /\ node[n].state \notin {"PENDING", "READY"}
          /\ node[n].state = "RETRY_WAIT" => node[n].retry_at = None
    /\ \A i \in 1..(Len(runs[n]) - 1) : runs[n][i].superseded_by = None

SupersededRest == \A n \in Node : Rests(n)

\* A node whose rows stay rests as it did.
LEMMA RestsIfSame ==
    ASSUME NEW n \in Node, Rests(n), runs'[n] = runs[n],
           node'[n].retry_at \in {None, node[n].retry_at},
           node'[n].retry_at # None => node'[n].state \in {"RETRY_WAIT", "FROZEN"},
           HasRun(n) /\ LastRun(n).superseded_by # None => node'[n].state = node[n].state
    PROVE  Rests(n)'
BY DEF Rests, HasRun, LastRun

\* A new attempt of a node that nothing superseded.
LEMMA RestsIfStarted ==
    ASSUME StoreInv, NEW n \in Node, Rests(n), NEW r, r.superseded_by = None,
           runs'[n] = Append(runs[n], r), r \in NodeRunRecord,
           HasRun(n) => LastRun(n).superseded_by = None,
           node'[n].retry_at = None
    PROVE  Rests(n)'
<1>1. runs[n] \in Seq(NodeRunRecord) /\ Len(runs[n]) \in Nat /\ (HasRun(n) <=> Len(runs[n]) > 0)
  BY EmptyHistory DEF StoreInv, TypeOK, HasRun
<1>2. /\ Len(runs'[n]) = Len(runs[n]) + 1 /\ runs'[n][Len(runs[n]) + 1] = r
      /\ \A i \in 1..Len(runs[n]) : runs'[n][i] = runs[n][i]
  BY <1>1, AppendProperties
<1>3. LastRun(n)'.superseded_by = None
  BY <1>2 DEF LastRun
<1>4. \A i \in 1..Len(runs[n]) : runs[n][i].superseded_by = None
  <2> SUFFICES ASSUME NEW i \in 1..Len(runs[n]) PROVE runs[n][i].superseded_by = None
    OBVIOUS
  <2>1. CASE i = Len(runs[n])
    BY <1>1, <2>1 DEF LastRun
  <2>2. CASE i < Len(runs[n])
    BY <1>1, <2>2 DEF Rests
  <2> QED BY <1>1, <2>1, <2>2
<1>5. \A i \in 1..(Len(runs'[n]) - 1) : runs'[n][i].superseded_by = None
  BY <1>1, <1>2, <1>4
<1> QED BY <1>3, <1>5 DEF Rests

\* A rewrite of the latest attempt.
LEMMA RestsIfRewritten ==
    ASSUME StoreInv, NEW n \in Node, Rests(n), HasRun(n), NEW r \in NodeRunRecord,
           runs'[n] = [runs[n] EXCEPT ![Len(runs[n])] = r],
           node'[n].retry_at # None => node'[n].state \in {"RETRY_WAIT", "FROZEN"},
           r.superseded_by # None =>
              /\ node'[n].state \notin {"PENDING", "READY"}
              /\ node'[n].state = "RETRY_WAIT" => node'[n].retry_at = None
    PROVE  Rests(n)'
<1>1. runs[n] \in Seq(NodeRunRecord) /\ Len(runs[n]) \in Nat /\ Len(runs[n]) > 0
  BY EmptyHistory DEF StoreInv, TypeOK, HasRun
<1>2. /\ Len(runs'[n]) = Len(runs[n])
      /\ \A i \in 1..Len(runs[n]) : runs'[n][i] = IF i = Len(runs[n]) THEN r ELSE runs[n][i]
  BY <1>1, ExceptSeq
<1>3. LastRun(n)' = r
  BY <1>1, <1>2 DEF LastRun
<1>4. \A i \in 1..(Len(runs'[n]) - 1) : runs'[n][i].superseded_by = None
  BY <1>1, <1>2 DEF Rests
<1> QED BY <1>3, <1>4 DEF Rests

\* A claim takes what waits for nothing and was not superseded.
LEMMA ClaimRests ==
    ASSUME StoreInv, SupersededRest, NEW ps \in SUBSET Plans, NEW byPriority, NEW t \in Now,
           Claim(ps, byPriority, t)
    PROVE  SupersededRest'
<1> DEFINE promoted == Promoted(ps, t)
           candidates == {n \in Schedulable(ps) : promoted[n].state = "READY"
                                                   /\ Len(runs[n]) < MaxRuns}
<1>0. t \in Int
  BY NowIsInt DEF StoreInv
<1>1. PICK S \in SUBSET candidates :
         /\ node' = [n \in Node |-> IF n \in S THEN [promoted[n] EXCEPT !.state = "RUNNING"]
                                    ELSE promoted[n]]
         /\ runs' = [n \in Node |-> IF n \in S THEN Append(runs[n], NewRun(n, t)) ELSE runs[n]]
  BY Zenon DEF Claim
<1> SUFFICES ASSUME NEW n \in Node PROVE Rests(n)'
  BY DEF SupersededRest, Rests, HasRun, LastRun
<1>2. node[n] \in NodeRecord /\ Rests(n)
  BY DEF StoreInv, TypeOK, SupersededRest
<1>3. \/ promoted[n] = node[n]
      \/ /\ node[n].state = "RETRY_WAIT" /\ node[n].retry_at # None
         /\ promoted[n] \in NodeRecord
         /\ promoted[n].state = "READY" /\ promoted[n].retry_at = None
  BY <1>0, <1>2 DEF Promoted, DueRetries, NodeRecord, NodeState
<1>4. n \in S => promoted[n].state = "READY"
  BY <1>1
<1> HIDE DEF promoted, candidates
<1>5. CASE n \in S
  <2>1. node'[n] = [promoted[n] EXCEPT !.state = "RUNNING"] /\ runs'[n] = Append(runs[n], NewRun(n, t))
    BY <1>1, <1>5
  <2>2. promoted[n].retry_at = None
    BY <1>2, <1>3, <1>4, <1>5 DEF Rests
  <2>3. node'[n].retry_at = None
    BY <1>2, <1>3, <2>1, <2>2 DEF NodeRecord
  <2>4. HasRun(n) => LastRun(n).superseded_by = None
    BY <1>2, <1>3, <1>4, <1>5 DEF Rests
  <2>5. NewRun(n, t) \in NodeRunRecord /\ NewRun(n, t).superseded_by = None
    BY <1>0, NewRunType DEF StoreInv, NewRun
  <2> QED BY <1>2, <2>1, <2>3, <2>4, <2>5, RestsIfStarted
<1>6. CASE n \notin S
  <2>1. node'[n] = promoted[n] /\ runs'[n] = runs[n]
    BY <1>1, <1>6
  <2> QED BY <1>2, <1>3, <2>1, RestsIfSame DEF Rests
<1> QED BY <1>5, <1>6

\* A worker that was superseded may record its result; it starts nothing.
LEMMA HolderRests ==
    ASSUME StoreInv, NodeInv, SupersededRest, NEW t \in Now, NEW n \in Node,
           NEW i \in DOMAIN runs[n],
           \/ ReclaimExpiredNode(n, i, t)
           \/ HeartbeatNodeRun(n, i, t)
           \/ \E f \in Fingerprints : RecordNodeInput(n, i, f, t)
           \/ \E d \in RetryDelays : ScheduleRetry(n, i, t, t + d)
           \/ \E s \in ResultStates : RecordNodeResult(n, i, s, t)
    PROVE  SupersededRest'
<1>0. /\ t \in Int /\ node \in [Node -> NodeRecord] /\ runs \in [Node -> Seq(NodeRunRecord)]
      /\ node[n] \in NodeRecord /\ \A m \in Node : Rests(m)
  BY NowIsInt DEF StoreInv, TypeOK, SupersededRest
<1>1. /\ i = Len(runs[n]) /\ HasRun(n) /\ LastRun(n) = runs[n][i] /\ LastRun(n).state = "RUNNING"
      /\ LastRun(n) \in NodeRunRecord
  <2>1. i = Len(runs[n]) /\ runs[n][i].state = "RUNNING"
    BY DEF ReclaimExpiredNode, Reclaimable, HeartbeatNodeRun, RecordNodeInput, ScheduleRetry,
           RecordNodeResult, HoldsClaim, IsCurrent
  <2>2. HasRun(n)
    BY RunType DEF HasRun, StoreInv
  <2> QED BY <2>1, <2>2, LastRunType DEF LastRun, StoreInv
<1>2. node[n].state = "RUNNING" /\ node[n].retry_at = None
  BY <1>0, <1>1 DEF NodeInv, NodeAgreesWithRun, Rests
<1> SUFFICES Rests(n)' /\ \A m \in Node \ {n} : Rests(m)'
  BY DEF SupersededRest, Rests, HasRun, LastRun
<1>3. ASSUME \A m \in Node \ {n} : node'[m] = node[m] /\ runs'[m] = runs[m]
      PROVE  \A m \in Node \ {n} : Rests(m)'
  BY <1>0, <1>3 DEF Rests, HasRun, LastRun
<1>4. CASE ReclaimExpiredNode(n, i, t)
  <2> DEFINE r == [NewRun(n, t) EXCEPT !.input_fingerprint = runs[n][i].input_fingerprint]
  <2>1. r \in NodeRunRecord /\ r.superseded_by = None
    <3>1. NewRun(n, t) \in NodeRunRecord /\ NewRun(n, t).superseded_by = None
      BY <1>0, NewRunType DEF StoreInv, NewRun
    <3>2. runs[n][i].input_fingerprint \in Fingerprints \cup {None}
      BY <1>1 DEF NodeRunRecord
    <3> QED BY <3>1, <3>2 DEF NodeRunRecord
  <2>2. /\ runs'[n] = Append(runs[n], r) /\ node' = node
        /\ \A m \in Node \ {n} : runs'[m] = runs[m]
        /\ LastRun(n).superseded_by = None
    BY <1>0, <1>1, <1>4 DEF ReclaimExpiredNode, Reclaimable
  <2> HIDE DEF r
  <2>3. Rests(n)'
    BY <1>0, <1>2, <2>1, <2>2, RestsIfStarted
  <2> QED BY <1>3, <2>2, <2>3
<1>5. ASSUME NEW r \in NodeRunRecord, runs' = [runs EXCEPT ![n] = [runs[n] EXCEPT ![i] = r]],
             node'[n].retry_at # None => node'[n].state = "RETRY_WAIT" /\ r.superseded_by = None,
             node'[n].state \notin {"PENDING", "READY"}
      PROVE  Rests(n)' /\ \A m \in Node \ {n} : runs'[m] = runs[m]
  <2>1. /\ runs'[n] = [runs[n] EXCEPT ![Len(runs[n])] = r]
        /\ \A m \in Node \ {n} : runs'[m] = runs[m]
    BY <1>0, <1>1, <1>5
  <2> QED BY <1>0, <1>1, <1>5, <2>1, RestsIfRewritten
<1>6. ASSUME HeartbeatNodeRun(n, i, t)
      PROVE  Rests(n)' /\ \A m \in Node \ {n} : Rests(m)'
  <2> DEFINE until == IF t + Lease > LastRun(n).lease_until THEN t + Lease
                      ELSE LastRun(n).lease_until
             r == [LastRun(n) EXCEPT !.lease_until = until]
  <2>1. until \in Int
    BY <1>0, <1>1, BoundsAssumption DEF NodeRunRecord
  <2> HIDE DEF until
  <2>2. r \in NodeRunRecord
    BY <1>1, <2>1 DEF NodeRunRecord
  <2>3. runs' = [runs EXCEPT ![n] = [runs[n] EXCEPT ![i] = r]] /\ node' = node
    BY <1>1, <1>6 DEF HeartbeatNodeRun, until
  <2> HIDE DEF r
  <2> QED BY <1>2, <1>3, <1>5, <2>2, <2>3
<1>7. ASSUME NEW f \in Fingerprints, RecordNodeInput(n, i, f, t)
      PROVE  Rests(n)' /\ \A m \in Node \ {n} : Rests(m)'
  <2> DEFINE r == [LastRun(n) EXCEPT !.input_fingerprint = f]
  <2>1. r \in NodeRunRecord
    BY <1>1, <1>7 DEF NodeRunRecord
  <2>2. runs' = [runs EXCEPT ![n] = [runs[n] EXCEPT ![i] = r]] /\ node' = node
    BY <1>1, <1>7 DEF RecordNodeInput
  <2> HIDE DEF r
  <2> QED BY <1>2, <1>3, <1>5, <2>1, <2>2
<1>8. ASSUME NEW d \in RetryDelays, ScheduleRetry(n, i, t, t + d)
      PROVE  Rests(n)' /\ \A m \in Node \ {n} : Rests(m)'
  <2> DEFINE r == [LastRun(n) EXCEPT !.state = "RETRY_WAIT"]
  <2>1. r \in NodeRunRecord /\ r.superseded_by = None
    BY <1>1, <1>8 DEF NodeRunRecord, NodeState, ScheduleRetry
  <2>2. /\ runs' = [runs EXCEPT ![n] = [runs[n] EXCEPT ![i] = r]]
        /\ \A m \in Node \ {n} : node'[m] = node[m]
        /\ node'[n].state = "RETRY_WAIT"
    BY <1>0, <1>1, <1>8 DEF ScheduleRetry, NodeRecord
  <2> HIDE DEF r
  <2> QED BY <1>3, <1>5, <2>1, <2>2
<1>9. ASSUME NEW s \in ResultStates, RecordNodeResult(n, i, s, t)
      PROVE  Rests(n)' /\ \A m \in Node \ {n} : Rests(m)'
  <2> DEFINE r == [LastRun(n) EXCEPT !.state = s]
  <2>1. s \in NodeState /\ CloseNode(n, i, s, runs[n][i].superseded_by # None, t)
    BY <1>9, ResultStatesAssumption DEF RecordNodeResult
  <2>2. ClosesOne(n, s, t)
    BY <2>1, CloseFrame
  <2>3. /\ r \in NodeRunRecord
        /\ runs' = [runs EXCEPT ![n] = [runs[n] EXCEPT ![i] = r]]
    BY <1>1, <2>1 DEF NodeRunRecord, CloseNode
  <2>4. /\ node'[n].state \notin {"PENDING", "READY"} /\ node'[n].retry_at = None
    BY <1>0, <1>2, <2>2 DEF ClosesOne, Transitions, NodeState, NodeRecord
  <2> HIDE DEF r
  <2>5. Rests(n)'
    BY <1>5, <2>3, <2>4
  <2>6. ASSUME NEW m \in Node \ {n} PROVE Rests(m)'
    <3>1. node[m] \in NodeRecord /\ Rests(m)
      BY <1>0
    <3>2. \/ node'[m] = node[m]
          \/ /\ node[m].state = "PENDING"
             /\ node'[m] = [node[m] EXCEPT !.state = "READY", !.ready_at = t]
      BY <2>2 DEF ClosesOne
    <3>3. \/ node'[m] = node[m]
          \/ node[m].state = "PENDING" /\ node'[m].retry_at = node[m].retry_at
      BY <3>1, <3>2 DEF NodeRecord
    <3>4. runs'[m] = runs[m]
      BY <2>2 DEF ClosesOne
    <3> QED BY <3>1, <3>3, <3>4, RestsIfSame DEF Rests
  <2> QED BY <2>5, <2>6
<1> QED BY <1>4, <1>6, <1>7, <1>8, <1>9

\* A freeze stops what it supersedes, unless it is being executed.
LEMMA ImpactRests ==
    ASSUME StoreInv, SupersededRest, NEW p \in Plans, NEW v, NEW e \in Events, NEW keys, NEW global,
           ApplyImpactFreeze(p, v, e, keys, global)
    PROVE  SupersededRest'
<1> DEFINE affected == {n \in CurrentNodes(p) : n[3] \in keys}
<1> SUFFICES ASSUME NEW n \in Node PROVE Rests(n)'
  BY DEF SupersededRest, Rests, HasRun, LastRun
<1>1. node[n] \in NodeRecord /\ Rests(n)
  BY DEF StoreInv, TypeOK, SupersededRest
<1>2. node'[n] = IF n \in affected /\ node[n].state \in Freezable
                 THEN [node[n] EXCEPT !.state = "FROZEN"] ELSE node[n]
  BY DEF ApplyImpactFreeze
<1>3. /\ node'[n].retry_at = node[n].retry_at
      /\ node'[n].state = IF n \in affected /\ node[n].state \in Freezable
                          THEN "FROZEN" ELSE node[n].state
  BY <1>1, <1>2 DEF NodeRecord
<1>4. node'[n].retry_at # None => node'[n].state \in {"RETRY_WAIT", "FROZEN"}
  BY <1>1, <1>3 DEF Rests
<1> HIDE DEF affected
<1>5. CASE n \in affected /\ HasRun(n) /\ LastRun(n).superseded_by = None
  <2> DEFINE r == [LastRun(n) EXCEPT !.superseded_by = e]
  <2>1. r \in NodeRunRecord
    BY <1>5, LastRunType DEF StoreInv, NodeRunRecord
  <2>2. runs'[n] = [runs[n] EXCEPT ![Len(runs[n])] = r]
    BY <1>5 DEF ApplyImpactFreeze, LastRun, StoreInv, TypeOK, affected
  <2> HIDE DEF r
  <2> QED BY <1>1, <1>3, <1>4, <1>5, <2>1, <2>2, RestsIfRewritten DEF Freezable
<1>6. CASE ~(n \in affected /\ HasRun(n) /\ LastRun(n).superseded_by = None)
  <2>1. runs'[n] = runs[n]
    BY <1>6 DEF ApplyImpactFreeze, affected
  <2>2. HasRun(n) /\ LastRun(n).superseded_by # None =>
           /\ node'[n].state \notin {"PENDING", "READY"}
           /\ node'[n].state = "RETRY_WAIT" => node'[n].retry_at = None
    BY <1>1, <1>3 DEF Rests
  <2> QED BY <1>1, <1>4, <2>1, <2>2 DEF Rests, HasRun, LastRun
<1> QED BY <1>5, <1>6

\* New nodes wait for no instant and have no run.
LEMMA NewNodesRest ==
    ASSUME StoreInv, SupersededRest, NEW p \in Plans, NEW v, NEW reused, NEW t,
           planRun[p].version < v,
           node' = WithNewNodes(p, v, reused, t), UNCHANGED runs
    PROVE  SupersededRest'
<1> SUFFICES ASSUME NEW n \in Node PROVE Rests(n)'
  BY DEF SupersededRest, Rests, HasRun, LastRun
<1>1. Rests(n)
  BY DEF SupersededRest
<1>2. CASE n[1] = p /\ n[2] = v
  <2>1. ~HasRun(n)
    BY <1>2 DEF StoreInv, VersionsExist
  <2>2. node'[n].retry_at = None
    BY <1>2 DEF WithNewNodes, NewNode
  <2> QED BY <1>1, <2>1, <2>2 DEF Rests, HasRun, LastRun
<1>3. CASE ~(n[1] = p /\ n[2] = v)
  <2>1. node'[n] = node[n] /\ runs'[n] = runs[n]
    BY <1>3 DEF WithNewNodes
  <2> QED BY <1>1, <2>1 DEF Rests, HasRun, LastRun
<1> QED BY <1>2, <1>3

\* One step of the callers that events, workers and time move.
LEMMA RestStep ==
    ASSUME StoreInv, NodeInv, SupersededRest, [EventsNext]_vars
    PROVE  SupersededRest'
<1>0. CardBatch \subseteq Plans
  BY ConstantsAssumption
<1>1. ASSUME UNCHANGED <<node, runs>> PROVE SupersededRest'
  BY <1>1 DEF SupersededRest, Rests, HasRun, LastRun
<1>2. CASE Tick \/ UNCHANGED vars
  BY <1>1, <1>2 DEF Tick, vars
<1>3. CASE \E p \in Plans : CreateOrResume(p)
  <2>1. PICK p \in Plans : CreateOrResume(p)
    BY <1>3
  <2> DEFINE none == {}
  <2>2. planRun[p].version < 1 /\ node' = WithNewNodes(p, 1, none, clock) /\ UNCHANGED runs
    BY <2>1 DEF CreateOrResume, StoreInv, VersionsExist
  <2> HIDE DEF none
  <2> QED BY <2>2, NewNodesRest
<1>4. CASE WorkerStep
  <2>1. ASSUME NEW t \in Now, NEW p \in Plans, ClaimReadyNodes(p, t) PROVE SupersededRest'
    <3>1. Claim({p}, FALSE, t) /\ {p} \in SUBSET Plans
      BY <2>1 DEF ClaimReadyNodes
    <3> QED BY <3>1, ClaimRests
  <2>2. ASSUME NEW t \in Now, ClaimNextReadyNodes(t) PROVE SupersededRest'
    <3>1. Claim(Plans, TRUE, t) /\ Plans \in SUBSET Plans
      BY <2>2 DEF ClaimNextReadyNodes
    <3> QED BY <3>1, ClaimRests
  <2> QED BY <1>4, <2>1, <2>2, HolderRests DEF WorkerStep
<1>5. CASE FreezeStep
  BY <1>0, <1>5, ImpactRests DEF FreezeStep
<1>6. CASE ReplanStep
  <2>1. ASSUME NEW p \in CardBatch, NEW v, NEW signature, NEW sources, NEW t, NEW reused,
               CreateReplanVersion(p, v, signature, sources, reused, t)
        PROVE  SupersededRest'
    <3> DEFINE next == planRun[p].version + 1
    <3>1. planRun[p].version \in Nat
      BY <1>0 DEF StoreInv, TypeOK, PlanRunRecord
    <3>2. planRun[p].version < next
      BY <3>1
    <3>3. node' = WithNewNodes(p, next, reused, t) /\ UNCHANGED runs
      BY <2>1 DEF CreateReplanVersion
    <3> HIDE DEF next
    <3> QED BY <1>0, <3>2, <3>3, NewNodesRest
  <2>2. ASSUME NEW p, NEW v, NEW signature, NEW sources, RefuseReplan(p, v, signature, sources)
        PROVE  SupersededRest'
    BY <1>1, <2>2 DEF RefuseReplan
  <2> QED BY <1>6, <2>1, <2>2 DEF ReplanStep
<1> QED BY <1>2, <1>3, <1>4, <1>5, <1>6 DEF EventsNext

\* The callers of EventsSpec are callers of the store.
LEMMA EventsAreSteps == [EventsNext]_vars => [Next]_vars
BY DEF EventsNext, Next

\* As long as no operator approves or reconciles it, a superseded attempt is the
\* last one of its node: no retry, claim or takeover starts another.
THEOREM Finality == EventsSpec => []SupersededIsFinal
<1>1. Init => StoreInv /\ NodeInv /\ SupersededRest
  <2>1. Init => \A n \in Node : node[n].retry_at = None /\ runs[n] = <<>>
    BY DEF Init, AbsentNode
  <2>2. Init => SupersededRest
    BY <2>1 DEF SupersededRest, Rests, HasRun
  <2> QED BY <2>2, StoreInvInit, NodeInvInit
<1>2. (StoreInv /\ NodeInv /\ SupersededRest) /\ [EventsNext]_vars
      => (StoreInv /\ NodeInv /\ SupersededRest)'
  BY EventsAreSteps, StoreInvStep, NodeInvStep, RestStep
<1>3. StoreInv /\ NodeInv /\ SupersededRest => SupersededIsFinal
  <2> SUFFICES ASSUME StoreInv, SupersededRest, NEW n \in Node, NEW i \in DOMAIN runs[n],
                      runs[n][i].superseded_by # None
               PROVE  i = Len(runs[n])
    BY DEF SupersededIsFinal
  <2>1. DOMAIN runs[n] = 1..Len(runs[n]) /\ Len(runs[n]) \in Nat
    BY EmptyHistory DEF StoreInv, TypeOK
  <2>2. \A j \in 1..(Len(runs[n]) - 1) : runs[n][j].superseded_by = None
    BY DEF SupersededRest, Rests
  <2> QED BY <2>1, <2>2
<1> QED BY <1>1, <1>2, <1>3, PTL DEF EventsSpec

-----------------------------------------------------------------------------
(* Plans without events: incidents and ends. *)

\* A plan row before and after a step of CommandsSpec.
Opens(p) ==
    /\ planRun[p].state = "ABSENT" /\ planRun'[p].version = 1
    /\ planRun'[p].state = "ACTIVE" /\ ~planRun'[p].reconciliation_required
Keeps(p) ==
    /\ planRun'[p].state = planRun[p].state
    /\ planRun'[p].reconciliation_required =>
          planRun[p].reconciliation_required \/ planRun[p].state # "ACTIVE"
Pauses(p) == planRun[p].state = "ACTIVE" /\ planRun'[p].state = "FROZEN"
Resumes(p) ==
    /\ planRun[p].state = "FROZEN" /\ ~planRun[p].reconciliation_required
    /\ planRun'[p].state = "ACTIVE" /\ ~planRun'[p].reconciliation_required
Fails(p, n) ==
    /\ n[1] = p /\ node[n].state \in {"RUNNING", "WAITING_RECONCILIATION", "WAITING_APPROVAL"}
    /\ \/ planRun'[p].state = "FAILED" /\ node'[n].state = "FAILED"
       \/ planRun'[p].state = "FROZEN" /\ "FROZEN" \in ResultStates

PlanMoves(p) ==
    \/ Opens(p)
    \/ /\ planRun'[p].version = planRun[p].version
       /\ \/ Keeps(p)
          \/ Pauses(p)
          \/ Resumes(p)
          \/ planRun'[p].state = "SUCCEEDED"
          \/ \E n \in Node : Fails(p, n)

\* A plan whose row stays.
LEMMA MovesIfSame ==
    ASSUME NEW p \in Plans, planRun'[p] = planRun[p]
    PROVE  PlanMoves(p)
BY DEF PlanMoves, Keeps

\* A closed node decides its plan, and no other one.
LEMMA CloseMoves ==
    ASSUME StoreInv, NodeInv, NEW n \in Node, NEW s \in NodeState, NEW superseded, NEW t,
           s = "FROZEN" => "FROZEN" \in ResultStates,
           HasRun(n), LastRun(n).state \in {"RUNNING", "WAITING_RECONCILIATION"},
           CloseNode(n, Len(runs[n]), s, superseded, t)
    PROVE  \A p \in Plans : PlanMoves(p)
<1>1. n[1] \in Plans /\ planRun \in [Plans -> PlanRunRecord] /\ node \in [Node -> NodeRecord]
  BY DEF Node, StoreInv, TypeOK
<1>2. PICK nodes : planRun' = [planRun EXCEPT ![n[1]].state = PlanAfter(s, superseded, nodes, n[1])]
  BY DEF CloseNode
<1>3. \A p \in Plans \ {n[1]} : planRun'[p] = planRun[p]
  BY <1>1, <1>2
<1>4. /\ planRun'[n[1]].state = PlanAfter(s, superseded, nodes, n[1])
      /\ planRun'[n[1]].version = planRun[n[1]].version
      /\ planRun'[n[1]].reconciliation_required = planRun[n[1]].reconciliation_required
  BY <1>1, <1>2 DEF PlanRunRecord
<1>5. node'[n].state = s
  <2>1. ClosesOne(n, s, t) /\ node[n] \in NodeRecord
    BY <1>1, CloseFrame
  <2> QED BY <2>1 DEF ClosesOne, NodeRecord
<1>6. node[n].state \in {"RUNNING", "WAITING_RECONCILIATION"}
  BY DEF NodeInv, NodeAgreesWithRun
<1>7. PlanMoves(n[1])
  <2>1. CASE planRun'[n[1]].state = planRun[n[1]].state
    BY <1>4, <2>1 DEF PlanMoves, Keeps
  <2>2. CASE planRun'[n[1]].state = "SUCCEEDED"
    BY <1>4, <2>2 DEF PlanMoves
  <2>3. CASE s \in {"FAILED", "FROZEN"} /\ planRun'[n[1]].state = s
    <3>1. Fails(n[1], n)
      BY <1>5, <1>6, <2>3 DEF Fails
    <3> QED BY <1>4, <3>1 DEF PlanMoves
  <2> QED BY <1>4, <2>1, <2>2, <2>3 DEF PlanAfter
<1> QED BY <1>3, <1>7, MovesIfSame

\* A rewritten plan row.
LEMMA MovesIfRewritten ==
    ASSUME StoreInv, NEW q \in Plans, NEW r, planRun' = [planRun EXCEPT ![q] = r],
           PlanMoves(q)
    PROVE  \A p \in Plans : PlanMoves(p)
<1>1. \A p \in Plans \ {q} : planRun'[p] = planRun[p]
  BY DEF StoreInv, TypeOK
<1> QED BY <1>1, MovesIfSame

\* A command decides what the verdict admits.
LEMMA SubmitMoves ==
    ASSUME StoreInv, NodeInv, NEW c \in CommandIds, NEW t \in Now, SubmitCommand(c, t)
    PROVE  \A p \in Plans : PlanMoves(p)
<1> DEFINE cmd == command[c]
<1>0. /\ cmd \in CommandRecord /\ cmd # None
      /\ planRun \in [Plans -> PlanRunRecord] /\ node \in [Node -> NodeRecord]
  BY DEF SubmitCommand, StoreInv, TypeOK
<1>1. CASE UNCHANGED planRun
  BY <1>1, MovesIfSame
<1>2. CASE Verdict(cmd, t) = "ACCEPTED" /\ cmd.type = "RESUME" /\ Resume(cmd.plan)
  <2> DEFINE r == [planRun[cmd.plan] EXCEPT !.state = "ACTIVE"]
  <2>1. /\ cmd.plan \in Plans /\ planRun[cmd.plan].state = "FROZEN"
        /\ ~planRun[cmd.plan].reconciliation_required
    BY <1>0, <1>2 DEF Verdict, CommandRecord, Resumable, BlockedByIncident
  <2>2. /\ r.state = "ACTIVE" /\ r.version = planRun[cmd.plan].version
        /\ r.reconciliation_required = planRun[cmd.plan].reconciliation_required
    BY <1>0, <2>1 DEF PlanRunRecord
  <2>3. planRun' = [planRun EXCEPT ![cmd.plan] = r]
    BY <1>0, <1>2 DEF Resume, PlanRunRecord
  <2>4. planRun'[cmd.plan] = r
    BY <1>0, <2>1, <2>3
  <2> HIDE DEF r
  <2>5. PlanMoves(cmd.plan)
    BY <2>1, <2>2, <2>4 DEF PlanMoves, Resumes
  <2> QED BY <2>1, <2>3, <2>5, MovesIfRewritten
<1>3. CASE Verdict(cmd, t) = "ACCEPTED" /\ cmd.type = "REJECT" /\ Reject(cmd.node)
  <2> DEFINE p == cmd.node[1]
             r == [planRun[p] EXCEPT !.state = "FAILED"]
  <2>1. cmd.node \in Node /\ node[cmd.node].state = "WAITING_APPROVAL" /\ p \in Plans
    BY <1>0, <1>3 DEF StoreInv, CommandsAwait, Verdict, AwaitedStatus, Node
  <2>2. /\ planRun' = [planRun EXCEPT ![p] = r]
        /\ r.state = "FAILED" /\ r.version = planRun[p].version
    BY <1>0, <1>3, <2>1 DEF Reject, PlanRunRecord
  <2>3. node'[cmd.node].state = "FAILED"
    BY <1>0, <1>3, <2>1 DEF Reject, NodeRecord
  <2>4. planRun'[p] = r
    BY <1>0, <2>1, <2>2
  <2> HIDE DEF r
  <2>5. Fails(p, cmd.node)
    BY <2>1, <2>2, <2>3, <2>4 DEF Fails
  <2>6. PlanMoves(p)
    BY <2>1, <2>2, <2>4, <2>5 DEF PlanMoves
  <2> QED BY <2>1, <2>2, <2>6, MovesIfRewritten
<1>4. CASE Verdict(cmd, t) = "ACCEPTED" /\ cmd.type = "RECONCILE"
           /\ CloseReconciliation(cmd.node, cmd.outcome, t)
  <2>1. cmd.node \in Node /\ cmd.outcome \in NodeState /\ cmd.outcome # "FROZEN"
    BY <1>0, <1>4 DEF StoreInv, CommandsAwait, NodeState
  <2> QED BY <1>4, <2>1, CloseMoves DEF CloseReconciliation
<1> QED BY <1>1, <1>2, <1>3, <1>4 DEF SubmitCommand, Approve

\* One step of the callers that know of no event.
LEMMA StepMoves ==
    ASSUME StoreInv, NodeInv, [CommandsNext]_vars
    PROVE  \A p \in Plans : PlanMoves(p)
<1>0. planRun \in [Plans -> PlanRunRecord]
  BY DEF StoreInv, TypeOK
<1>1. ASSUME UNCHANGED planRun PROVE \A p \in Plans : PlanMoves(p)
  BY <1>1, MovesIfSame
<1>2. CASE Tick \/ UNCHANGED vars
  BY <1>1, <1>2 DEF Tick, vars
<1>3. CASE \E p \in Plans : CreateOrResume(p)
  <2>1. PICK p \in Plans : CreateOrResume(p)
    BY <1>3
  <2> DEFINE r == [state |-> "ACTIVE", version |-> 1, reconciliation_required |-> FALSE]
  <2>2. planRun' = [planRun EXCEPT ![p] = r] /\ planRun'[p] = r /\ planRun[p].state = "ABSENT"
    BY <1>0, <2>1 DEF CreateOrResume
  <2>3. PlanMoves(p)
    BY <2>2 DEF PlanMoves, Opens
  <2> HIDE DEF r
  <2> QED BY <2>2, <2>3, MovesIfRewritten
<1>4. CASE \E p \in Plans : FreezePlan(p)
  <2>1. PICK p \in Plans : FreezePlan(p)
    BY <1>4
  <2> DEFINE r == [planRun[p] EXCEPT !.state = "FROZEN"]
  <2>2. /\ planRun' = [planRun EXCEPT ![p] = r] /\ planRun'[p] = r /\ planRun[p].state = "ACTIVE"
        /\ r.state = "FROZEN" /\ r.version = planRun[p].version
    BY <1>0, <2>1 DEF FreezePlan, PlanRunRecord
  <2> HIDE DEF r
  <2>3. PlanMoves(p)
    BY <2>2 DEF PlanMoves, Pauses
  <2> QED BY <2>2, <2>3, MovesIfRewritten
<1>5. CASE WorkerStep
  <2>1. ASSUME NEW ps, NEW byPriority, NEW t, Claim(ps, byPriority, t) PROVE UNCHANGED planRun
    BY <2>1, Zenon DEF Claim
  <2>2. ASSUME NEW t, NEW n, NEW i, NEW x,
               \/ ReclaimExpiredNode(n, i, t) \/ HeartbeatNodeRun(n, i, t)
               \/ RecordNodeInput(n, i, x, t) \/ ScheduleRetry(n, i, t, x)
        PROVE  UNCHANGED planRun
    BY <2>2 DEF ReclaimExpiredNode, HeartbeatNodeRun, RecordNodeInput, ScheduleRetry
  <2>3. ASSUME NEW t, NEW n \in Node, NEW i \in DOMAIN runs[n], NEW s \in ResultStates,
               RecordNodeResult(n, i, s, t)
        PROVE  \A p \in Plans : PlanMoves(p)
    <3>1. HasRun(n)
      BY RunType DEF HasRun, StoreInv
    <3>2. /\ i = Len(runs[n]) /\ LastRun(n).state = "RUNNING" /\ s \in NodeState
          /\ CloseNode(n, Len(runs[n]), s, runs[n][i].superseded_by # None, t)
      BY <2>3, ResultStatesAssumption DEF RecordNodeResult, HoldsClaim, IsCurrent, LastRun
    <3> QED BY <3>1, <3>2, CloseMoves
  <2>4. ASSUME NEW t, (\E p \in Plans : ClaimReadyNodes(p, t)) \/ ClaimNextReadyNodes(t)
        PROVE  UNCHANGED planRun
    BY <2>1, <2>4 DEF ClaimReadyNodes, ClaimNextReadyNodes
  <2> QED BY <1>1, <1>5, <2>2, <2>3, <2>4 DEF WorkerStep
<1>6. CASE ReconcileStep
  <2>1. ASSUME NEW p \in Plans, RecordReconciliationFailure(p)
        PROVE  \A q \in Plans : PlanMoves(q)
    <3> DEFINE r == [planRun[p] EXCEPT !.state = IF @ = "ACTIVE" THEN "FROZEN" ELSE @,
                                       !.reconciliation_required = TRUE]
    <3>1. /\ planRun' = [planRun EXCEPT ![p] = r] /\ planRun'[p] = r
          /\ r.state = IF planRun[p].state = "ACTIVE" THEN "FROZEN" ELSE planRun[p].state
          /\ r.version = planRun[p].version
      BY <1>0, <2>1 DEF RecordReconciliationFailure, PlanRunRecord
    <3> HIDE DEF r
    <3>2. PlanMoves(p)
      BY <3>1 DEF PlanMoves, Pauses, Keeps
    <3> QED BY <3>1, <3>2, MovesIfRewritten
  <2>2. ASSUME NEW p \in Plans, ClearReconciliationFailure(p)
        PROVE  \A q \in Plans : PlanMoves(q)
    <3> DEFINE r == [planRun[p] EXCEPT !.reconciliation_required = FALSE]
    <3>1. /\ planRun' = [planRun EXCEPT ![p] = r] /\ planRun'[p] = r
          /\ r.state = planRun[p].state /\ r.version = planRun[p].version
          /\ ~r.reconciliation_required
      BY <1>0, <2>2 DEF ClearReconciliationFailure, PlanRunRecord
    <3> HIDE DEF r
    <3>2. PlanMoves(p)
      BY <3>1 DEF PlanMoves, Keeps
    <3> QED BY <3>1, <3>2, MovesIfRewritten
  <2>3. ASSUME NEW n \in Node, ReconcilePlanReference(n, "SUCCEEDED")
        PROVE  \A q \in Plans : PlanMoves(q)
    <3>1. "SUCCEEDED" \in NodeState /\ "SUCCEEDED" # "FROZEN"
      BY DEF NodeState
    <3> QED BY <2>3, <3>1, CloseMoves DEF ReconcilePlanReference, CloseReconciliation
  <2> QED BY <1>6, <2>1, <2>2, <2>3 DEF ReconcileStep
<1>7. CASE OperatorStep
  BY <1>1, <1>7, SubmitMoves DEF OperatorStep, IssueNodeCommand, IssueResume
<1> QED BY <1>2, <1>3, <1>4, <1>5, <1>6, <1>7 DEF CommandsNext

\* The callers of CommandsSpec are callers of the store.
LEMMA CommandsAreSteps == [CommandsNext]_vars => [Next]_vars
BY DEF CommandsNext, Next

\* A plan with an open checkpoint incident is never ACTIVE, and so dispatches
\* nothing: RESUME is refused as long as the incident is open.
THEOREM Holding == CommandsSpec => []IncidentHoldsPlan
<1>1. Init => StoreInv /\ NodeInv /\ IncidentHoldsPlan
  <2>1. Init => IncidentHoldsPlan
    BY DEF Init, IncidentHoldsPlan, AbsentPlan
  <2> QED BY <2>1, StoreInvInit, NodeInvInit
<1>2. (StoreInv /\ NodeInv /\ IncidentHoldsPlan) /\ [CommandsNext]_vars
      => (StoreInv /\ NodeInv /\ IncidentHoldsPlan)'
  <2> SUFFICES ASSUME StoreInv, NodeInv, IncidentHoldsPlan, [CommandsNext]_vars
               PROVE  (StoreInv /\ NodeInv)' /\ IncidentHoldsPlan'
    OBVIOUS
  <2>1. StoreInv' /\ NodeInv' /\ \A p \in Plans : PlanMoves(p)
    BY CommandsAreSteps, StoreInvStep, NodeInvStep, StepMoves
  <2> QED BY <2>1
          DEF IncidentHoldsPlan, PlanMoves, Opens, Keeps, Pauses, Resumes, Fails
<1> QED BY <1>1, <1>2, PTL DEF CommandsSpec

\* A FAILED plan has a FAILED node, and there is one version.
Ended ==
    \A p \in Plans :
        /\ planRun[p].version <= 1
        /\ planRun[p].state = "FAILED" => \E n \in CurrentNodes(p) : node[n].state = "FAILED"

\* With one version every node that exists is current.
LEMMA NodesAreCurrent ==
    ASSUME StoreInv, Ended, NEW n \in Node, node[n].state # "ABSENT"
    PROVE  n \in CurrentNodes(n[1]) /\ n[1] \in Plans
<1>1. n[1] \in Plans /\ n[2] \in Nat /\ n[2] >= 1
  BY BoundsAssumption DEF Node, Versions
<1>2. planRun[n[1]].version \in Nat /\ planRun[n[1]].version <= 1 /\ ~(planRun[n[1]].version < n[2])
  BY <1>1 DEF StoreInv, TypeOK, PlanRunRecord, VersionsExist, Ended
<1> QED BY <1>1, <1>2 DEF CurrentNodes

\* Every step leaves ended plans as they are.
LEMMA EndedStep ==
    ASSUME "FROZEN" \notin ResultStates, StoreInv, NodeInv, SuccessIsComplete, Ended,
           [CommandsNext]_vars
    PROVE  /\ Ended'
           /\ \A p \in Plans : planRun[p].state \in {"SUCCEEDED", "FAILED"}
                               => planRun'[p].state = planRun[p].state
<1>1. /\ \A p \in Plans : PlanMoves(p) /\ Completes(p)
      /\ \A n \in Node : Effect(n)
  BY CommandsAreSteps, StepMoves, StepCompletes, StepEffect DEF NodeInv
<1>2. \A n \in Node : node[n].state = "FAILED" => node'[n].state = "FAILED"
  BY <1>1 DEF Effect, Untouched, Born, Moved, Claimed, TakenOver, Closed
<1>3. \A p \in Plans : planRun'[p].version = planRun[p].version \/ Opens(p)
  BY <1>1 DEF PlanMoves
<1>4. ASSUME NEW p \in Plans, planRun[p].state \in {"SUCCEEDED", "FAILED"}
      PROVE  planRun'[p].state = planRun[p].state
  <2>1. PlanMoves(p) /\ Completes(p)
    BY <1>1
  <2>2. CASE planRun'[p].state = "SUCCEEDED"
    <3>1. CASE planRun[p].state = "FAILED"
      <4>1. PICK n \in CurrentNodes(p) : node[n].state = "FAILED"
        BY <3>1 DEF Ended
      <4>2. node'[n].state = "SUCCEEDED" /\ node'[n].state = "FAILED"
        BY <1>2, <2>1, <2>2, <3>1, <4>1 DEF Completes, CurrentNodes
      <4> QED BY <4>2
    <3> QED BY <1>4, <2>2, <3>1
  <2>3. CASE \E n \in Node : Fails(p, n)
    <3>1. PICK n \in Node : Fails(p, n)
      BY <2>3
    <3>2. n \in CurrentNodes(p) /\ node[n].state # "SUCCEEDED"
      BY <3>1, NodesAreCurrent DEF Fails
    <3>3. planRun[p].state = "FAILED"
      BY <1>4, <3>2 DEF SuccessIsComplete
    <3> QED BY <3>1, <3>3 DEF Fails
  <2> QED BY <1>4, <2>1, <2>2, <2>3 DEF PlanMoves, Opens, Keeps, Pauses, Resumes
<1>5. ASSUME NEW p \in Plans
      PROVE  /\ planRun'[p].version <= 1
             /\ planRun'[p].state = "FAILED" => \E n \in CurrentNodes(p)' : node'[n].state = "FAILED"
  <2>1. planRun[p].version \in Nat /\ planRun[p].version <= 1
    BY DEF StoreInv, TypeOK, PlanRunRecord, Ended
  <2>2. planRun'[p].version <= 1
    BY <1>3, <2>1 DEF Opens
  <2>3. ASSUME planRun'[p].state = "FAILED"
        PROVE  \E n \in CurrentNodes(p)' : node'[n].state = "FAILED"
    <3>1. planRun'[p].version = planRun[p].version
      BY <1>3, <2>3 DEF Opens
    <3>2. CurrentNodes(p)' = CurrentNodes(p)
      BY <3>1 DEF CurrentNodes
    <3>3. CASE planRun[p].state = "FAILED"
      <4>1. PICK n \in CurrentNodes(p) : node[n].state = "FAILED"
        BY <3>3 DEF Ended
      <4> QED BY <1>2, <3>2, <4>1 DEF CurrentNodes
    <3>4. CASE \E n \in Node : Fails(p, n)
      <4>1. PICK n \in Node : Fails(p, n)
        BY <3>4
      <4>2. node'[n].state = "FAILED" /\ n \in CurrentNodes(p)
        BY <2>3, <4>1, NodesAreCurrent DEF Fails
      <4> QED BY <3>2, <4>2
    <3>5. PlanMoves(p)
      BY <1>1
    <3> QED BY <2>3, <3>3, <3>4, <3>5 DEF PlanMoves, Opens, Keeps, Pauses, Resumes
  <2> QED BY <2>2, <2>3
<1> QED BY <1>4, <1>5 DEF Ended

\* A plan that ended stays as it ended, whatever results, commands, incidents and
\* pauses come late.  The workers never pass FROZEN as a result (worker.py).
THEOREM Ending ==
    ASSUME "FROZEN" \notin ResultStates
    PROVE  CommandsSpec => TerminalIsFinal
<1> DEFINE Final ==
      \A p \in Plans :
          planRun[p].state \in {"SUCCEEDED", "FAILED"} /\ planRun'[p].version = planRun[p].version
          => planRun'[p].state = planRun[p].state
           Inv == StoreInv /\ NodeInv /\ SuccessIsComplete /\ Ended
<1>1. Init => Inv
  <2>1. Init => SuccessIsComplete /\ Ended
    BY DEF Init, SuccessIsComplete, Ended, AbsentPlan
  <2> QED BY <2>1, StoreInvInit, NodeInvInit
<1>2. Inv /\ [CommandsNext]_vars => Inv' /\ [Final]_vars
  <2> SUFFICES ASSUME Inv, [CommandsNext]_vars PROVE Inv' /\ Final
    OBVIOUS
  <2>1. [Next]_vars
    BY CommandsAreSteps
  <2>2. StoreInv' /\ NodeInv' /\ SuccessIsComplete'
    BY <2>1, StoreInvStep, NodeInvStep, CompletionStep
  <2>3. Ended' /\ Final
    BY EndedStep
  <2> QED BY <2>2, <2>3
<1> HIDE DEF Inv, Final
<1>3. TerminalIsFinal <=> [][Final]_vars
  BY DEF TerminalIsFinal, Final
<1> QED BY <1>1, <1>2, <1>3, PTL DEF CommandsSpec

=============================================================================
