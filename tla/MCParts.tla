------------------------------- MODULE MCParts ------------------------------
(***************************************************************************)
(* What the parts beside each other have in common: the actors, the        *)
(* constants of the instances, and the variables.  A behaviour is one of a *)
(* single part: the variable `part` says of which, and the parts share     *)
(* variables of one name.                                                  *)
(***************************************************************************)
EXTENDS Naturals, Sequences, FiniteSets, TLC

CONSTANTS Runners, Operators, NoOne, Runs, Aggregators, g1, g2, c0, c1, c2, a, b, d, z, ta, tb, tp,
    Window, Deadline, LeaseTime, ValidUntil, MaxClock, MaxToken, Reviewed, Opposed,
    Trials, ParticipantLimit, MinParticipants, MaxRetries,
    BatchSize, PassMin, Forward,
    Validation, HoldoutCases, ShardSize, BaselineGood, MinGood, Margin, MaxVersion,
    SmokeCases, History, CaseReservation, TotalBudget, Calibration, Formal, StageBudget,
    Campaigns, Drafts, FrozenSlots, RunBudget, PolicyBudget,
    TasksOf, PayerOf, EvaluatedOf, LimitOf, PhaseLimitOf, ModelCalls, SkillCalls,
    CallReservation, CallCosts, TaskBudget,
    CopilotCases, CopilotLimit, CopilotReservation, CopilotCosts,
    AgentLists, AgentLimit, AgentSlots, AgentReservation, AgentCosts,
    EventLog, BatchLimit,
    HarnessReads, HarnessWrite, HarnessForeign, HarnessRoutes,
    IterationLimit, RepeatLimit, RequestLimit

VARIABLES part,
    slots, claimed, begun, sent, receipt, fact, outcome, job, run, recovery,
    declared, result, cost, blocked, events, settled, batch, status, results,
    review, conclusions, reading, reservation, closed, store, clock,
    claim, attempts, selected, metrics, decision

vars == <<part,
    slots, claimed, begun, sent, receipt, fact, outcome, job, run, recovery,
    declared, result, cost, blocked, events, settled, batch, status, results,
    review, conclusions, reading, reservation, closed,
    store, clock, claim, attempts, selected, metrics, decision>>
=============================================================================
