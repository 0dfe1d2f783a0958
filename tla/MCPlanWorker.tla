---------------------------- MODULE MCPlanWorker ----------------------------
(* Who executes plans and who looks after them, on small instances.  To keep the
   state space small a behaviour has either one worker that is never stopped, for a
   card batch of one card and its summary and the emergency plan of the same
   product; or two workers that may stop, side by side, on the emergency plan, whose
   event may turn out to conflict; or the graph of a card batch of one card and its
   preparation, with a scan and a command service that reconcile its checkpoint. *)
EXTENDS PlanWorker

CONSTANTS batch, emergency, prepare, card, collect, mark, r1, w1, w2, g1, s1, s2, e1, x1, cmd1

TwoKeysOf    == [p \in Plans |-> IF p = batch THEN {card, collect} ELSE {mark}]
TwoDependsOn == [k \in Keys |-> IF k = collect THEN {card} ELSE {}]
TwoResources ==
    [p \in Plans |-> [k \in Keys |->
        IF k = (IF p = batch THEN card ELSE mark) THEN {r1} ELSE {}]]

\* Who is in the behaviours below works on the plans of PlanWorker.
ASSUME ScenesAssumption == {w1, w2} \subseteq Workers /\ {batch, emergency} \subseteq Plans

VARIABLES
    checkpoint, graph, scan,  \* of the graph and its reconcilers
    scene  \* who and what is in this behaviour

ofWorkers == <<attempt, sent, verified, job, lost>>
ofGraph   == <<checkpoint, graph, scan>>
sceneVars == <<vars, ofGraph, scene>>

OneCardOf    == [p \in {batch} |-> {prepare, card}]
OneCardWaits == [k \in {prepare, card} |-> IF k = card THEN {prepare} ELSE {}]
OneCardHolds == [p \in {batch} |-> [k \in {prepare, card} |-> IF k = card THEN {r1} ELSE {}]]

Checked == INSTANCE Reconciliation WITH
    Graphs <- {g1}, Reconcilers <- {s1, s2}, Services <- {s2}, Steady <- {s1}, Plans <- {batch},
    Keys <- {prepare, card}, KeysOf <- OneCardOf, DependsOn <- OneCardWaits,
    RootKeys <- {prepare}, ResourceKeys <- OneCardHolds, Events <- {e1},
    Signatures <- {x1}, CommandIds <- {cmd1}, MaxVersion <- 2, MaxRuns <- 1

\* The nodes and the None of Reconciliation are told apart.
ASSUME GraphAssumption == prepare # card /\ None \notin Int \cup {e1, x1} \cup Checked!P!Node

OneWorker  == [part |-> "workers", workers |-> {w1}, plans |-> Plans, stops |-> FALSE]
TwoWorkers == [part |-> "workers", workers |-> Workers, plans |-> {emergency}, stops |-> TRUE]
OneGraph   == [part |-> "graph"]

Working     == scene.part = "workers"
Reconciling == scene.part = "graph"

SceneInit ==
    \/ /\ scene \in {OneWorker, TwoWorkers}
       /\ Init
       /\ checkpoint = 0 /\ graph = 0 /\ scan = 0
    \/ /\ scene = OneGraph
       /\ Checked!Init
       /\ attempt = 0 /\ sent = 0 /\ verified = 0 /\ job = 0 /\ lost = 0

WorkersNext ==
    /\ Working
    /\ \/ \E p \in scene.plans : Open(p)
       \/ \E w \in scene.workers : WorkerStep(w) \/ (scene.stops /\ Stop(w))
       \/ OutsideStep \/ (scene.stops /\ ConflictEvent)
    /\ UNCHANGED <<ofGraph, scene>>

GraphNext == Reconciling /\ Checked!Next /\ UNCHANGED <<ofWorkers, scene>>

SceneNext == WorkersNext \/ GraphNext

\* PlanWorker's Fairness for the workers of the scene, and that of Reconciliation.
SceneFairness ==
    /\ WF_sceneVars(Working /\ Tick /\ UNCHANGED <<ofGraph, scene>>)
    /\ \A w \in Workers :
          /\ WF_sceneVars(Working /\ w \in scene.workers /\ RunNextOnce(w)
                     /\ UNCHANGED <<ofGraph, scene>>)
          /\ WF_sceneVars(Working /\ w \in scene.workers /\ Execute(w)
                     /\ UNCHANGED <<ofGraph, scene>>)
    /\ SF_sceneVars(Reconciling /\ Checked!Scan(s1, batch) /\ UNCHANGED <<ofWorkers, scene>>)
    /\ WF_sceneVars(Reconciling /\ Checked!Reconcile(s1) /\ UNCHANGED <<ofWorkers, scene>>)

SceneSpec == SceneInit /\ [][SceneNext]_sceneVars /\ SceneFairness

-----------------------------------------------------------------------------
(* The store, the attempts, the checkpoint and the memory of the processes keep
   their types. *)
TypesOK ==
    /\ Working => TypeOK
    /\ Reconciling => Checked!TypeOK

(* A write node never claims more than the platform did (PlanWorker). *)
NodesTellTheWrite == Working => NodeTellsTheWrite

(* What the checkpoint says of the current version is so in the store
   (Reconciliation). *)
CheckpointsAreBehind == Reconciling => Checked!CheckpointsAreBehind

(* A write is reserved before it is sent and carried out at most once: every step
   is one of CallOnce (PlanWorker!CallsAreMadeOnce). *)
WritesAreMadeOnce ==
    [][Working => [CallsOnce!Next]_(CallsOnce!vars)]_sceneVars

(* Plans end or wait for a person, unless a claim was lost (PlanWorker); a false
   alarm of the reconciliation does not last (Reconciliation). *)
ScenesEnd ==
    /\ \A p \in Plans :
          (Working /\ planRun[p].state # "ABSENT") ~> (Working /\ (Settled(p) \/ lost))
    /\ (Reconciling /\ Checked!FalseAlarm(batch)) ~> (Reconciling /\ ~Checked!FalseAlarm(batch))
=============================================================================
