------------------------------- MODULE MCCalls ------------------------------
(***************************************************************************)
(* The parts that pay for model calls beside the escalation: the ledgers   *)
(* of the evaluation phases.                                               *)
(***************************************************************************)
EXTENDS MCParts

Smoke == INSTANCE SmokeLedger WITH CaseOrder <- SmokeCases, Reservation <- CaseReservation

ASSUME SmokeAssumption ==
    /\ SmokeCases \in Seq(Smoke!Cases) /\ SmokeCases # <<>>
    /\ \A i, j \in DOMAIN SmokeCases : SmokeCases[i] = SmokeCases[j] => i = j

Campaign == INSTANCE ControlledE2E WITH CampaignBudget <- StageBudget

ASSUME CampaignAssumption ==
    /\ StageBudget \in Nat
    /\ \A k \in Campaign!Kinds :
        /\ Campaign!Slots(k) \in Seq(Campaign!CasesOf(k)) /\ Campaign!Slots(k) # <<>>
        /\ \A i, j \in DOMAIN Campaign!Slots(k) : Campaign!Slots(k)[i] = Campaign!Slots(k)[j] => i = j
    /\ Campaign!CasesOf("CALIBRATION") \cap Campaign!CasesOf("FORMAL") = {}
    /\ Len(Calibration) <= Len(Formal)

Probed == INSTANCE Probes WITH
    Processes <- Runners, verdict <- review

ASSUME ProbedAssumption == NoOne \notin Probed!Jobs

Qualified == INSTANCE Qualification WITH
    Development <- Drafts, Slots <- FrozenSlots, Costs <- {0, 1},
    CampaignBudget <- RunBudget, ProjectBudget <- PolicyBudget

ASSUME QualifiedAssumption ==
    \A g \in Campaigns :
        /\ FrozenSlots[g] \in Seq(Qualified!CasesOf(g)) /\ FrozenSlots[g] # <<>>
        /\ \A i, n \in DOMAIN FrozenSlots[g] : FrozenSlots[g][i] = FrozenSlots[g][n] => i = n

Paying(k) == INSTANCE SpecialistRuns WITH
    Tasks <- TasksOf[k], CandidateOf <- PayerOf, Evaluated <- EvaluatedOf[k],
    Limit <- LimitOf[k], PhaseLimit <- PhaseLimitOf[k],
    MaxModelCalls <- ModelCalls, MaxSkillCalls <- SkillCalls,
    Reservation <- CallReservation, Costs <- CallCosts, CaseBudget <- TaskBudget

(* What is assumed of the tasks and budgets of part k.                     *)
PayingConstants(k) ==
    /\ CallReservation \in Nat /\ CallCosts \subseteq Nat
    /\ ModelCalls \in Nat \ {0}
    /\ IsFiniteSet(TasksOf[k]) /\ TasksOf[k] # {}
    /\ \A t \in TasksOf[k] : PayerOf[t] \in Paying(k)!Candidates
    /\ IsFiniteSet(EvaluatedOf[k]) /\ EvaluatedOf[k] \subseteq Paying(k)!Candidates
    /\ LimitOf[k] \in [Paying(k)!Candidates -> Nat] /\ PhaseLimitOf[k] \in Nat

ASSUME PayingAssumption == \A k \in {"Phase13", "Copilot"} : PayingConstants(k)

Copiloted == INSTANCE CopilotSmoke WITH
    Processes <- Runners, CaseOrder <- CopilotCases, Limit <- CopilotLimit,
    Reservation <- CopilotReservation, Costs <- CopilotCosts,
    ledger <- reservation, answered <- receipt, report <- results

ASSUME CopilotAssumption ==
    /\ CopilotCases \in Seq(Copiloted!Cases)
    /\ CopilotLimit \in Nat /\ CopilotReservation \in Nat /\ CopilotCosts \subseteq Nat
    /\ NoOne \notin Copiloted!Tally \cup Copiloted!Reports \cup CopilotCosts
    /\ NoOne \notin [state : {"RESERVED", "SETTLED"}, amount : 0..CopilotLimit, usageKnown : BOOLEAN]

Agents == INSTANCE AgentSmoke WITH
    Processes <- Runners, CaseLists <- AgentLists, Limit <- AgentLimit, MaxCases <- AgentSlots,
    Reservation <- AgentReservation, Costs <- AgentCosts,
    ledger <- reservation, report <- results

ASSUME AgentsAssumption ==
    /\ IsFiniteSet(Agents!Cases) /\ AgentLists \subseteq Seq(Agents!Cases)
    /\ AgentLimit \in Nat /\ AgentSlots \in Nat /\ AgentReservation \in Nat /\ AgentCosts \subseteq Nat
    /\ NoOne \notin Agents!RunRecords \cup Agents!Reports \cup Agents!Agents \cup Agents!Statuses
    /\ NoOne \notin Agents!Reservations
=============================================================================
