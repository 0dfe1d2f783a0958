----------------------------- MODULE MCDecisions ----------------------------
(***************************************************************************)
(* The parts that decide: the escalation of a high conflict, what people   *)
(* confirm as memory or judge of a release, the evaluations that retain,   *)
(* score or qualify a candidate, how inventory facts come in, and the      *)
(* harness of the dashboard.                                               *)
(***************************************************************************)
EXTENDS MCParts

Conflict == INSTANCE Escalation

ASSUME EscalationAssumption ==
    /\ Window \in Nat \ {0}
    /\ {Deadline, LeaseTime, ValidUntil, MaxClock, MaxToken} \subseteq Nat

Promotions == INSTANCE MemoryPromotion WITH
    Processes <- Runners, Candidates <- Reviewed, Commands <- Runs,
    candidate <- status, eligibility <- fact, intent <- claimed, told <- results,
    confirmed <- conclusions, memory <- store, others <- blocked, lock <- reservation

ASSUME PromotionAssumption ==
    /\ NoOne \notin Runners \cup Reviewed \cup Promotions!Facts \cup Promotions!Jobs
    /\ NoOne \notin Promotions!Verdicts
    /\ \A k \in Reviewed : {k} \notin Opposed

Release == INSTANCE ReleaseGate WITH
    Participants <- Operators, Cases <- Runs,
    technical <- status, final <- closed, session <- run, promotion <- decision

ASSUME ReleaseAssumption ==
    /\ NoOne \notin Release!CaseStatus \cup Release!TechnicalStatus \cup Release!PromotionStatus
    /\ NoOne \notin Release!FinalStatus \cup Release!Sessions \cup Release!Readings
    /\ {Trials, MinParticipants} \subseteq Nat

Evaluation == INSTANCE Retention WITH
    Processes <- Runners, Holdout <- HoldoutCases

ASSUME EvaluationAssumption ==
    /\ {Validation, HoldoutCases, ShardSize} \subseteq Nat \ {0}
    /\ Validation % ShardSize = 0
    /\ MinGood \in [Evaluation!Splits -> Nat] /\ Margin \in [Evaluation!Splits -> Nat]
    /\ MaxVersion \in Nat

Queued == INSTANCE AgentEvaluation WITH
    Workers <- Runners,
    row <- store, scores <- results, ended <- outcome, late <- blocked

ASSUME QueuedAssumption ==
    /\ NoOne \notin Runners \cup Queued!Terminal \cup Queued!Verdicts
    /\ NoOne \notin Queued!Rows \cup Queued!JobRecords
    /\ MaxRetries \in Nat \ {0} /\ {LeaseTime, MaxClock} \subseteq Nat

Sealed == INSTANCE Holdout

ASSUME SealedAssumption ==
    /\ BatchSize \in Nat \ {0} /\ PassMin \in Nat

Arriving == INSTANCE Ingress WITH
    Processes <- Runners, MaxMessages <- BatchLimit, Log <- EventLog,
    committed <- cost, owner <- claim, occurrences <- events

ASSUME ArrivingAssumption ==
    /\ \A q \in DOMAIN EventLog : EventLog[q] \in Seq({EventLog[q][i] : i \in DOMAIN EventLog[q]})
    /\ BatchLimit \in Nat
    /\ NoOne \notin Arriving!Batch \cup Arriving!Kinds \cup Arriving!Partitions

Harnessed == INSTANCE Harness WITH
    Requests <- Runners, Reads <- HarnessReads, Write <- HarnessWrite, Foreign <- HarnessForeign,
    Routes <- HarnessRoutes, MaxIterations <- IterationLimit, MaxRepeated <- RepeatLimit,
    MaxRequests <- RequestLimit,
    requests <- attempts, thread <- run, session <- status, executed <- sent, told <- closed

ASSUME HarnessedAssumption ==
    /\ IterationLimit \in Nat \ {0} /\ RepeatLimit \in Nat /\ RequestLimit \in Nat
    /\ NoOne \notin Harnessed!Checkpoints \cup Harnessed!Sessions \cup Harnessed!JobRecords
    /\ NoOne \notin Harnessed!Tools \cup Harnessed!Decisions
    /\ NoOne \notin [tool : Harnessed!Tools, routes : HarnessRoutes]
=============================================================================
