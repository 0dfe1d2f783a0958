------------------------------ MODULE MCLedgers ------------------------------
(***************************************************************************)
(* Parts of the system that have tables of their own and read nothing of   *)
(* each other, side by side on small instances: the execution ledgers of   *)
(* the evaluation phases and what else pays for model calls; the           *)
(* escalation of a high conflict; the evaluation that retains or rejects a *)
(* candidate; what people confirm as memory or judge of a release; how     *)
(* inventory facts come in; the harness of the dashboard and the           *)
(* evaluation of its runs; and the transactions of the plan store.  A      *)
(* behaviour is one of a single part: the variable `part` says of which,   *)
(* and the parts share variables of one name.                              *)
(***************************************************************************)
EXTENDS MCDecisions, MCCalls

(* Values of the constants that a configuration cannot write.              *)
EachSplitOne == [VALIDATION |-> 1, HOLDOUT |-> 1]
EachSplitZero == [VALIDATION |-> 0, HOLDOUT |-> 0]
OneCase == <<c0>>
TwoCases == <<c1, c2>>
TasksOfParts == ("Phase13" :> {ta, tb}) @@ ("Copilot" :> {ta, tp})
PayerOfTasks == (ta :> a) @@ (tb :> b) @@ (tp :> z)
EvaluatedInParts == ("Phase13" :> {a, b, d}) @@ ("Copilot" :> {a})
LimitsInParts == ("Phase13" :> [c \in {a, b, d} |-> 1]) @@ ("Copilot" :> [c \in {a, z} |-> 1])
PhaseLimits == ("Phase13" :> 3) @@ ("Copilot" :> 1)
PairInOrder == <<a, b>>
PairsOfCases == {<<a, b>>, <<d, a>>}
LogOfPartitions == (g1 :> <<<<a, 1>>, <<b, 1>>, <<a, 2>>>>) @@ (g2 :> <<<<a, 1>>, NoOne>>)
RoutesOfProcesses ==
    {[planEngine |-> FALSE, decisionSupport |-> TRUE], [planEngine |-> TRUE, decisionSupport |-> FALSE]}
TwoThenOne == (g1 :> <<c1, c2>>) @@ (g2 :> <<c1>>)

RunnerSymmetry ==
    Permutations(Runners) \cup Permutations(Runs) \cup Permutations(Operators)

Locking == INSTANCE PlanTransactions WITH
    Connections <- Runners, NodeOrder <- <<a, b, d>>,
    PlanOf <- (a :> g1) @@ (b :> g1) @@ (d :> g2),
    ResourcesOf <- (a :> {z}) @@ (b :> {}) @@ (d :> {z}),
    Results <- {"SUCCEEDED", "FAILED", "WAITING_RECONCILIATION"},
    Starts <- {(a :> "RETRY_WAIT") @@ (b :> "RETRY_WAIT") @@ (d :> "READY"),
               (a :> "RUNNING") @@ (b :> "READY") @@ (d :> "READY")},
    LeaseTime <- 2, MaxClock <- 1, MaxAttempts <- 2, MaxTransactions <- 2,
    plan <- status, node <- store, tx <- job

(* The variables a part does not have. *)
OnlySmoke ==
    /\ run = 0 /\ recovery = 0 /\ declared = 0 /\ result = 0 /\ cost = 0
    /\ blocked = 0 /\ events = 0 /\ settled = 0 /\ batch = 0 /\ status = 0
    /\ results = 0 /\ review = 0 /\ conclusions = 0 /\ reading = 0
    /\ reservation = 0 /\ closed = 0 /\ store = 0 /\ clock = 0
    /\ claim = 0 /\ attempts = 0 /\ selected = 0 /\ metrics = 0 /\ decision = 0
KeepSmoke == UNCHANGED <<part,
    run, recovery, declared, result, cost, blocked, events, settled, batch,
    status, results, review, conclusions, reading, reservation, closed, store, clock,
    claim, attempts, selected, metrics, decision>>

OnlyCampaign ==
    /\ slots = 0 /\ declared = 0 /\ result = 0 /\ cost = 0 /\ blocked = 0
    /\ events = 0 /\ settled = 0 /\ batch = 0 /\ status = 0 /\ results = 0
    /\ review = 0 /\ conclusions = 0 /\ reading = 0
    /\ reservation = 0 /\ closed = 0 /\ store = 0 /\ clock = 0
    /\ claim = 0 /\ attempts = 0 /\ selected = 0 /\ metrics = 0 /\ decision = 0
KeepCampaign == UNCHANGED <<part,
    slots, declared, result, cost, blocked, events, settled, batch, status,
    results, review, conclusions, reading, reservation, closed, store, clock,
    claim, attempts, selected, metrics, decision>>

OnlyQualified ==
    /\ slots = 0 /\ run = 0 /\ recovery = 0 /\ events = 0 /\ settled = 0
    /\ batch = 0 /\ status = 0 /\ results = 0 /\ review = 0
    /\ conclusions = 0 /\ reading = 0
    /\ reservation = 0 /\ closed = 0 /\ store = 0 /\ clock = 0
    /\ claim = 0 /\ attempts = 0 /\ selected = 0 /\ metrics = 0 /\ decision = 0
KeepQualified == UNCHANGED <<part,
    slots, run, recovery, events, settled, batch, status, results, review,
    conclusions, reading, reservation, closed, store, clock,
    claim, attempts, selected, metrics, decision>>

OnlySealed ==
    /\ slots = 0 /\ claimed = 0 /\ begun = 0 /\ receipt = 0 /\ fact = 0
    /\ outcome = 0 /\ run = 0 /\ recovery = 0 /\ declared = 0
    /\ result = 0 /\ blocked = 0 /\ reservation = 0 /\ closed = 0 /\ store = 0 /\ clock = 0
    /\ claim = 0 /\ attempts = 0 /\ selected = 0 /\ metrics = 0 /\ decision = 0
KeepSealed == UNCHANGED <<part,
    slots, claimed, begun, receipt, fact, outcome, run, recovery, declared,
    result, blocked, reservation, closed, store, clock,
    claim, attempts, selected, metrics, decision>>

OnlySpecialists ==
    /\ slots = 0 /\ claimed = 0 /\ begun = 0 /\ receipt = 0 /\ fact = 0
    /\ outcome = 0 /\ run = 0 /\ recovery = 0 /\ declared = 0 /\ result = 0
    /\ cost = 0 /\ blocked = 0 /\ events = 0 /\ settled = 0 /\ batch = 0
    /\ status = 0 /\ results = 0 /\ review = 0 /\ conclusions = 0 /\ reading = 0
    /\ store = 0 /\ clock = 0
    /\ claim = 0 /\ attempts = 0 /\ selected = 0 /\ metrics = 0 /\ decision = 0
KeepSpecialists == UNCHANGED <<part,
    slots, claimed, begun, receipt, fact, outcome, run, recovery, declared,
    result, cost, blocked, events, settled, batch, status, results, review,
    conclusions, reading, store, clock,
    claim, attempts, selected, metrics, decision>>

OnlyEscalation ==
    /\ slots = 0 /\ claimed = 0 /\ begun = 0 /\ receipt = 0 /\ fact = 0
    /\ outcome = 0 /\ run = 0 /\ recovery = 0 /\ declared = 0 /\ result = 0
    /\ cost = 0 /\ blocked = 0 /\ events = 0 /\ settled = 0 /\ batch = 0
    /\ status = 0 /\ results = 0 /\ review = 0 /\ conclusions = 0 /\ reading = 0
    /\ reservation = 0 /\ closed = 0
    /\ claim = 0 /\ attempts = 0 /\ selected = 0 /\ metrics = 0 /\ decision = 0
KeepEscalation == UNCHANGED <<part,
    slots, claimed, begun, receipt, fact, outcome, run, recovery, declared,
    result, cost, blocked, events, settled, batch, status, results, review,
    conclusions, reading, reservation, closed,
    claim, attempts, selected, metrics, decision>>

OnlyEvaluation ==
    /\ slots = 0 /\ claimed = 0 /\ begun = 0 /\ sent = 0 /\ receipt = 0 /\ fact = 0
    /\ outcome = 0 /\ recovery = 0 /\ declared = 0 /\ result = 0
    /\ cost = 0 /\ blocked = 0 /\ events = 0 /\ settled = 0 /\ batch = 0
    /\ status = 0 /\ results = 0 /\ review = 0 /\ conclusions = 0 /\ reading = 0
    /\ reservation = 0 /\ closed = 0 /\ store = 0 /\ clock = 0
KeepEvaluation == UNCHANGED <<part,
    slots, claimed, begun, sent, receipt, fact, outcome, recovery, declared,
    result, cost, blocked, events, settled, batch, status, results, review,
    conclusions, reading, reservation, closed, store, clock>>

OnlyPromotions ==
    /\ slots = 0 /\ begun = 0 /\ sent = 0 /\ receipt = 0 /\ outcome = 0 /\ run = 0
    /\ recovery = 0 /\ declared = 0 /\ result = 0 /\ cost = 0 /\ events = 0 /\ settled = 0
    /\ batch = 0 /\ review = 0 /\ reading = 0 /\ closed = 0 /\ clock = 0 /\ claim = 0
    /\ attempts = 0 /\ selected = 0 /\ metrics = 0 /\ decision = 0
KeepPromotions == UNCHANGED <<part,
    slots, begun, sent, receipt, outcome, run, recovery, declared, result,
    cost, events, settled, batch, review, reading, closed, clock, claim,
    attempts, selected, metrics, decision>>

OnlyCopiloted ==
    /\ slots = 0 /\ claimed = 0 /\ begun = 0 /\ sent = 0 /\ fact = 0 /\ outcome = 0
    /\ run = 0 /\ recovery = 0 /\ declared = 0 /\ result = 0 /\ cost = 0 /\ blocked = 0
    /\ events = 0 /\ settled = 0 /\ batch = 0 /\ status = 0 /\ review = 0 /\ conclusions = 0
    /\ reading = 0 /\ closed = 0 /\ store = 0 /\ clock = 0 /\ claim = 0 /\ attempts = 0
    /\ selected = 0 /\ metrics = 0 /\ decision = 0
KeepCopiloted == UNCHANGED <<part,
    slots, claimed, begun, sent, fact, outcome, run, recovery, declared,
    result, cost, blocked, events, settled, batch, status, review, conclusions,
    reading, closed, store, clock, claim, attempts, selected, metrics, decision>>

OnlyRelease ==
    /\ slots = 0 /\ claimed = 0 /\ begun = 0 /\ sent = 0 /\ receipt = 0 /\ fact = 0
    /\ outcome = 0 /\ job = 0 /\ recovery = 0 /\ declared = 0 /\ cost = 0 /\ blocked = 0
    /\ events = 0 /\ settled = 0 /\ batch = 0 /\ results = 0 /\ review = 0 /\ conclusions = 0
    /\ reservation = 0 /\ store = 0 /\ clock = 0 /\ claim = 0 /\ attempts = 0 /\ selected = 0
    /\ metrics = 0
KeepRelease == UNCHANGED <<part,
    slots, claimed, begun, sent, receipt, fact, outcome, job, recovery,
    declared, cost, blocked, events, settled, batch, results, review, conclusions,
    reservation, store, clock, claim, attempts, selected, metrics>>

OnlyTransactions ==
    /\ slots = 0 /\ claimed = 0 /\ sent = 0 /\ receipt = 0 /\ fact = 0 /\ outcome = 0
    /\ run = 0 /\ recovery = 0 /\ declared = 0 /\ result = 0 /\ cost = 0 /\ blocked = 0
    /\ events = 0 /\ settled = 0 /\ batch = 0 /\ results = 0 /\ review = 0 /\ conclusions = 0
    /\ reading = 0 /\ reservation = 0 /\ closed = 0 /\ claim = 0 /\ selected = 0 /\ metrics = 0
    /\ decision = 0
KeepTransactions == UNCHANGED <<part,
    slots, claimed, sent, receipt, fact, outcome, run, recovery, declared,
    result, cost, blocked, events, settled, batch, results, review,
    conclusions, reading, reservation, closed, claim, selected, metrics,
    decision>>

OnlyArriving ==
    /\ slots = 0 /\ claimed = 0 /\ begun = 0 /\ sent = 0 /\ receipt = 0 /\ fact = 0
    /\ outcome = 0 /\ run = 0 /\ recovery = 0 /\ declared = 0 /\ result = 0 /\ blocked = 0
    /\ settled = 0 /\ batch = 0 /\ status = 0 /\ results = 0 /\ review = 0 /\ conclusions = 0
    /\ reading = 0 /\ reservation = 0 /\ closed = 0 /\ store = 0 /\ clock = 0 /\ attempts = 0
    /\ selected = 0 /\ metrics = 0 /\ decision = 0
KeepArriving == UNCHANGED <<part,
    slots, claimed, begun, sent, receipt, fact, outcome, run, recovery,
    declared, result, blocked, settled, batch, status, results, review, conclusions,
    reading, reservation, closed, store, clock, attempts, selected, metrics, decision>>

OnlyProbed ==
    /\ slots = 0 /\ claimed = 0 /\ run = 0 /\ recovery = 0 /\ declared = 0 /\ result = 0
    /\ cost = 0 /\ blocked = 0 /\ events = 0 /\ settled = 0 /\ batch = 0 /\ status = 0
    /\ results = 0 /\ conclusions = 0 /\ reading = 0 /\ reservation = 0 /\ closed = 0 /\ store = 0
    /\ clock = 0 /\ claim = 0 /\ attempts = 0 /\ selected = 0 /\ metrics = 0 /\ decision = 0
KeepProbed == UNCHANGED <<part,
    slots, claimed, run, recovery, declared, result, cost, blocked, events,
    settled, batch, status, results, conclusions, reading, reservation, closed, store,
    clock, claim, attempts, selected, metrics, decision>>

OnlyAgents ==
    /\ slots = 0 /\ claimed = 0 /\ begun = 0 /\ receipt = 0 /\ fact = 0 /\ outcome = 0
    /\ run = 0 /\ recovery = 0 /\ declared = 0 /\ result = 0 /\ cost = 0 /\ blocked = 0
    /\ events = 0 /\ settled = 0 /\ batch = 0 /\ status = 0 /\ review = 0 /\ conclusions = 0
    /\ reading = 0 /\ closed = 0 /\ store = 0 /\ clock = 0 /\ claim = 0 /\ attempts = 0
    /\ selected = 0 /\ metrics = 0 /\ decision = 0
KeepAgents == UNCHANGED <<part,
    slots, claimed, begun, receipt, fact, outcome, run, recovery, declared,
    result, cost, blocked, events, settled, batch, status, review, conclusions,
    reading, closed, store, clock, claim, attempts, selected, metrics, decision>>

OnlyHarnessed ==
    /\ slots = 0 /\ claimed = 0 /\ begun = 0 /\ receipt = 0 /\ fact = 0 /\ outcome = 0
    /\ recovery = 0 /\ declared = 0 /\ result = 0 /\ cost = 0 /\ blocked = 0
    /\ events = 0 /\ settled = 0 /\ batch = 0 /\ results = 0 /\ review = 0
    /\ conclusions = 0 /\ reading = 0 /\ reservation = 0 /\ store = 0 /\ clock = 0
    /\ claim = 0 /\ selected = 0 /\ metrics = 0 /\ decision = 0
KeepHarnessed == UNCHANGED <<part,
    slots, claimed, begun, receipt, fact, outcome, recovery, declared, result,
    cost, blocked, events, settled, batch, results, review, conclusions,
    reading, reservation, store, clock, claim, selected, metrics, decision>>

OnlyQueued ==
    /\ slots = 0 /\ claimed = 0 /\ begun = 0 /\ sent = 0 /\ receipt = 0 /\ fact = 0
    /\ run = 0 /\ recovery = 0 /\ declared = 0 /\ result = 0 /\ cost = 0 /\ events = 0
    /\ settled = 0 /\ batch = 0 /\ status = 0 /\ review = 0 /\ conclusions = 0
    /\ reading = 0 /\ reservation = 0 /\ closed = 0 /\ claim = 0 /\ attempts = 0
    /\ selected = 0 /\ metrics = 0 /\ decision = 0
KeepQueued == UNCHANGED <<part,
    slots, claimed, begun, sent, receipt, fact, run, recovery, declared,
    result, cost, events, settled, batch, status, review, conclusions,
    reading, reservation, closed, claim, attempts, selected, metrics,
    decision>>

Init ==
    \/ part = "SmokeLedger" /\ Smoke!Init /\ OnlySmoke
    \/ part = "ControlledE2E" /\ Campaign!Init /\ OnlyCampaign
    \/ part = "Qualification" /\ Qualified!Init /\ OnlyQualified
    \/ part = "Holdout" /\ Sealed!Init /\ OnlySealed
    \/ part = "Phase13" /\ Paying("Phase13")!Init /\ OnlySpecialists
    \/ part = "Copilot" /\ Paying("Copilot")!Init /\ OnlySpecialists
    \/ part = "Escalation" /\ Conflict!Init /\ OnlyEscalation
    \/ part = "Evaluation" /\ Evaluation!Init /\ OnlyEvaluation
    \/ part = "MemoryPromotion" /\ Promotions!Init /\ OnlyPromotions
    \/ part = "CopilotSmoke" /\ Copiloted!Init /\ OnlyCopiloted
    \/ part = "ReleaseGate" /\ Release!Init /\ OnlyRelease
    \/ part = "PlanTransactions" /\ Locking!Init /\ OnlyTransactions
    \/ part = "Ingress" /\ Arriving!Init /\ OnlyArriving
    \/ part = "Probes" /\ Probed!Init /\ OnlyProbed
    \/ part = "AgentSmoke" /\ Agents!Init /\ OnlyAgents
    \/ part = "Harness" /\ Harnessed!Init /\ OnlyHarnessed
    \/ part = "AgentEvaluation" /\ Queued!Init /\ OnlyQueued

Next ==
    \/ part = "SmokeLedger" /\ Smoke!Next /\ KeepSmoke
    \/ part = "ControlledE2E" /\ Campaign!Next /\ KeepCampaign
    \/ part = "Qualification" /\ Qualified!Next /\ KeepQualified
    \/ part = "Holdout" /\ Sealed!Next /\ KeepSealed
    \/ part = "Phase13" /\ Paying("Phase13")!Next /\ KeepSpecialists
    \/ part = "Copilot" /\ Paying("Copilot")!Next /\ KeepSpecialists
    \/ part = "Escalation" /\ Conflict!Next /\ KeepEscalation
    \/ part = "Evaluation" /\ Evaluation!Next /\ KeepEvaluation
    \/ part = "MemoryPromotion" /\ Promotions!Next /\ KeepPromotions
    \/ part = "CopilotSmoke" /\ Copiloted!Next /\ KeepCopiloted
    \/ part = "ReleaseGate" /\ Release!Next /\ KeepRelease
    \/ part = "PlanTransactions" /\ Locking!Next /\ KeepTransactions
    \/ part = "Ingress" /\ Arriving!Next /\ KeepArriving
    \/ part = "Probes" /\ Probed!Next /\ KeepProbed
    \/ part = "AgentSmoke" /\ Agents!Next /\ KeepAgents
    \/ part = "Harness" /\ Harnessed!Next /\ KeepHarnessed
    \/ part = "AgentEvaluation" /\ Queued!Next /\ KeepQueued

Spec == Init /\ [][Next]_vars

-----------------------------------------------------------------------------
(* Every part keeps its types.                                             *)
TypeOK ==
    /\ part = "SmokeLedger" => Smoke!TypeOK
    /\ part = "ControlledE2E" => Campaign!TypeOK
    /\ part = "Qualification" => Qualified!TypeOK
    /\ part = "Holdout" => Sealed!TypeOK
    /\ part = "Phase13" => Paying("Phase13")!TypeOK
    /\ part = "Copilot" => Paying("Copilot")!TypeOK
    /\ part = "Escalation" => Conflict!TypeOK
    /\ part = "Evaluation" => Evaluation!TypeOK
    /\ part = "MemoryPromotion" => Promotions!TypeOK
    /\ part = "CopilotSmoke" => Copiloted!TypeOK
    /\ part = "ReleaseGate" => Release!TypeOK
    /\ part = "PlanTransactions" => Locking!TypeOK
    /\ part = "Ingress" => Arriving!TypeOK
    /\ part = "Probes" => Probed!TypeOK
    /\ part = "AgentSmoke" => Agents!TypeOK
    /\ part = "Harness" => Harnessed!TypeOK
    /\ part = "AgentEvaluation" => Queued!TypeOK

(* The outcomes of cases, runs and campaigns tell what happened outside,   *)
(* those of memory commands what is remembered, those of sessions what the *)
(* harness did, and the offsets Kafka has what the event store has.        *)
OutcomesAreTrue ==
    /\ part = "SmokeLedger" => Smoke!OutcomesAreTrue
    /\ part = "ControlledE2E" => Campaign!OutcomesAreTrue
    /\ part = "Qualification" => Qualified!OutcomesAreTrue
    /\ part = "Phase13" => Paying("Phase13")!OutcomesAreTrue
    /\ part = "Copilot" => Paying("Copilot")!OutcomesAreTrue
    /\ part = "Escalation" => Conflict!OutcomesAreTrue
    /\ part = "Evaluation" => Evaluation!OutcomesAreTrue
    /\ part = "MemoryPromotion" => Promotions!OutcomesAreTrue
    /\ part = "CopilotSmoke" => Copiloted!OutcomesAreTrue
    /\ part = "Ingress" => Arriving!OutcomesAreTrue
    /\ part = "Probes" => Probed!OutcomesAreTrue
    /\ part = "AgentSmoke" => Agents!OutcomesAreTrue
    /\ part = "Harness" => Harnessed!OutcomesAreTrue
    /\ part = "AgentEvaluation" => Queued!OutcomesAreTrue

(* Every step of a ledger is a step of CallOnce or leaves its calls alone: *)
(* a paid call is reserved, made at most once and answered truly.          *)
CallsAreMadeOnce ==
    [][
        /\ part = "SmokeLedger" => [Smoke!CallsOnce!Next]_(Smoke!CallsOnce!vars)
        /\ part = "ControlledE2E" => [Campaign!CallsOnce!Next]_(Campaign!CallsOnce!vars)
        /\ part = "Qualification" => [Qualified!CallsOnce!Next]_(Qualified!CallsOnce!vars)
        /\ part = "Phase13" => [Paying("Phase13")!CallsOnce!Next]_(Paying("Phase13")!CallsOnce!vars)
        /\ part = "Copilot" => [Paying("Copilot")!CallsOnce!Next]_(Paying("Copilot")!CallsOnce!vars)
        /\ part = "Escalation" => [Conflict!CallsOnce!Next]_(Conflict!CallsOnce!vars)
        /\ part = "Probes" => [Probed!CallsOnce!Next]_(Probed!CallsOnce!vars)
    ]_vars

(* Smoke runners beside each other spend on one case at a time, a live     *)
(* campaign run has at most one attempt without a fact, of two opposed     *)
(* candidates at most one becomes a memory, and one worker evaluates a     *)
(* recorded run.                                                           *)
OneAtATime ==
    /\ part = "SmokeLedger" => Smoke!OneCaseAtATime
    /\ part = "ControlledE2E" => Campaign!OneOpenAttempt
    /\ part = "MemoryPromotion" => Promotions!NoOpposedMemories
    /\ part = "AgentEvaluation" => Queued!OneOwner

(* The commitments of qualification campaigns fit into the project budget, *)
(* those of specialists into their phase and what others left of it, those *)
(* of the smokes of the copilot and of the two agents into theirs, and the *)
(* pool of the sealed holdout is neither overdrawn nor paid back twice.    *)
CommittedWithinBudget ==
    /\ part = "Qualification" => Qualified!CommittedWithinBudget
    /\ part = "Phase13" => Paying("Phase13")!CommittedWithinBudget
    /\ part = "Copilot" => Paying("Copilot")!CommittedWithinBudget
    /\ part = "Holdout" => Sealed!PoolIsCovered
    /\ part = "CopilotSmoke" => Copiloted!CommittedWithinBudget
    /\ part = "AgentSmoke" => Agents!CommittedWithinBudget

(* A model that works on an escalation does so in the live session.        *)
CallsStayLive == part = "Escalation" => Conflict!CallsStayLive

(* A command rests on an approval, and that on an escalation that ended    *)
(* READY; a memory rests on a confirmation a person intended.              *)
CommandsAreBacked ==
    /\ part = "Escalation" => Conflict!CommandsAreBacked
    /\ part = "MemoryPromotion" => Promotions!MemoriesAreBacked

(* A conclusion QUALIFIED rests on reviewed, complete, passed runs of both *)
(* batches, a decision RETAINED on complete results of both splits, and an *)
(* enabled release on a technical pass and the sessions of the study.      *)
QualificationIsBacked ==
    /\ part = "Holdout" => Sealed!QualificationIsBacked
    /\ part = "Evaluation" => Evaluation!RetentionIsBacked
    /\ part = "ReleaseGate" => Release!EnablingIsBacked

(* While a claim is on its way to its commit nothing it rests on changes,  *)
(* claims of one resource exclude each other, and nobody but a promotion   *)
(* of retries waits in a circle.                                           *)
LocksProtectClaims == part = "PlanTransactions" => Locking!LocksProtectClaims
=============================================================================
