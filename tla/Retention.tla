----------------------------- MODULE Retention -----------------------------
(***************************************************************************)
(* The formal evaluation of one candidate of phase 13: the evaluation      *)
(* store (specialist_evaluation/store.py), FormalEvaluationCoordinator     *)
(* (runner.py) and the recorder of paired results (live_ops.py), driven by *)
(* scripts/run_phase13_evaluation.py.                                      *)
(*                                                                         *)
(* A process claims the run of the candidate, answers the validation cases *)
(* shard by shard, then the holdout cases, and writes one decision.  Every *)
(* call of the store is a step of its own; the claim is checked by every   *)
(* write, so what a process reads just before a write belongs to it.       *)
(***************************************************************************)
EXTENDS Naturals, FiniteSets, FiniteSetsExt

CONSTANTS
    Processes,
    Validation, Holdout,  \* how many cases there are of each split
    ShardSize,            \* how many cases lie between two looks at the gate
    BaselineGood,         \* the cases the deterministic baseline answers well
    MinGood,              \* MinGood[s]: how many good answers split s asks for
    Margin,               \* Margin[s]: how many more than the baseline's
    MaxVersion            \* bound: how often the run is claimed

VARIABLES
    run,        \* the run of the candidate
    claim,      \* how often it was claimed, and whether the last lease lives
    attempts,   \* attempts[x]: the stored result of case and subject x
    selected,   \* the results that count
    metrics,    \* metrics[s]: the saved counts of split s
    decision,   \* the retention decision
    job         \* job[p]: where process p is

vars == <<run, claim, attempts, selected, metrics, decision, job>>

Last == Validation + Holdout
Cases == 1..Last
Splits == {"VALIDATION", "HOLDOUT"}
CasesOf(s) == IF s = "VALIDATION" THEN 1..Validation ELSE Validation + 1..Last
SplitOf(c) == IF c <= Validation THEN "VALIDATION" ELSE "HOLDOUT"
Results == Cases \X {"BASELINE", "AGENT"}

(* What an agent makes of a case: a good or a bad suggestion, one that     *)
(* cites foreign evidence, no valid suggestion at all, or no answer.       *)
Outcomes == {"GOOD", "BAD", "SEVERE", "FAILED", "INFRASTRUCTURE"}
Steps == {"IDLE", "CLAIM", "CASE", "BASELINE", "AGENT", "SELECT_BASELINE",
          "SELECT_AGENT", "GATE", "METRICS", "DECIDE", "PERSIST"}
Decisions == {"NONE", "RETAINED", "REJECTED", "INCONCLUSIVE"}

NoMetric == [good |-> 0, baseline |-> 0, saved |-> FALSE]
IdleJob == [pc |-> "IDLE", version |-> 0, case |-> 1, got |-> "NONE", ruling |-> "NONE"]

-----------------------------------------------------------------------------
(* What the store holds.                                                   *)

Pairs(s) == {c \in CasesOf(s) : {<<c, "BASELINE">>, <<c, "AGENT">>} \subseteq selected}
Good(s, subject) == Cardinality({c \in Pairs(s) : attempts[<<c, subject>>] = "GOOD"})
Severe(s) == {c \in Pairs(s) : attempts[<<c, "AGENT">>] = "SEVERE"}
HardGates == \A c \in Cases : attempts[<<c, "AGENT">>] \notin {"SEVERE", "FAILED"}

(* The pairs are read by the cases that have any result, and a case of     *)
(* which only a part was selected makes the reader raise.                  *)
HalfPair(s) == \E c \in CasesOf(s) \ Pairs(s) : \E x \in Results : x[1] = c /\ attempts[x] # "NONE"

Counted(s) == [good |-> Good(s, "AGENT"), baseline |-> Good(s, "BASELINE"), saved |-> TRUE]

(* Could the rest of the validation still reach what is asked for?         *)
Reachable ==
    Good("VALIDATION", "AGENT") + Validation - Cardinality(Pairs("VALIDATION"))
        >= Max({MinGood["VALIDATION"], Good("VALIDATION", "BASELINE") + Margin["VALIDATION"]})

GateRejects == Severe("VALIDATION") # {} \/ ~Reachable

MetThreshold(metric, s) ==
    metric.good >= MinGood[s] /\ metric.good >= metric.baseline + Margin[s]

(* decide_candidate_retention, after the last holdout case.                *)
Ruling ==
    IF Severe("VALIDATION") \cup Severe("HOLDOUT") # {} \/ ~MetThreshold(metrics["HOLDOUT"], "HOLDOUT")
    THEN "REJECTED"
    ELSE "RETAINED"

(* What save_retention_decision and the record itself ask of RETAINED.     *)
RetainedEvidence ==
    /\ \A s \in Splits : Pairs(s) = CasesOf(s) /\ Severe(s) = {} /\ metrics[s].saved
    /\ HardGates

-----------------------------------------------------------------------------
At(p, pc) == job[p].pc = pc
Goto(p, pc) == job' = [job EXCEPT ![p].pc = pc]
Quit(p) == job' = [job EXCEPT ![p] = IdleJob]

(* _assert_claim_row                                                       *)
HoldsClaim(p) == run = "RUNNING" /\ claim.live /\ claim.version = job[p].version

CreateRun(p) ==
    /\ At(p, "IDLE")
    /\ decision = "NONE"
    /\ run' = "RUNNING"
    /\ Goto(p, "CLAIM")
    /\ UNCHANGED <<claim, attempts, selected, metrics, decision>>

(* Nobody can claim a run whose lease lives: the script ends.              *)
ClaimRun(p) ==
    /\ At(p, "CLAIM")
    /\ claim.version < MaxVersion
    /\ IF run = "RUNNING" /\ ~claim.live
       THEN /\ claim' = [version |-> claim.version + 1, live |-> TRUE]
            /\ job' = [job EXCEPT ![p].pc = "CASE", ![p].version = claim.version + 1]
       ELSE Quit(p) /\ UNCHANGED claim
    /\ UNCHANGED <<run, attempts, selected, metrics, decision>>

(* A minute after the claim, which nobody extends.                         *)
LeaseEnds ==
    /\ claim.live
    /\ claim' = [claim EXCEPT !.live = FALSE]
    /\ UNCHANGED <<run, attempts, selected, metrics, decision, job>>

(* The answer of the model.  Without one, the evaluation of a validation   *)
(* case is INCONCLUSIVE, and that of a holdout case raises; a case that    *)
(* has a selected result is not recorded again.                            *)
RunCase(p, got) ==
    LET c == job[p].case IN
    /\ At(p, "CASE")
    /\ CASE got = "INFRASTRUCTURE" /\ SplitOf(c) = "VALIDATION" ->
              job' = [job EXCEPT ![p].pc = "PERSIST", ![p].ruling = "INCONCLUSIVE"]
         [] got = "INFRASTRUCTURE" /\ SplitOf(c) = "HOLDOUT" -> Quit(p)
         [] OTHER -> job' = [job EXCEPT ![p].pc = "BASELINE", ![p].got = got]
    /\ UNCHANGED <<run, claim, attempts, selected, metrics, decision>>

AppendBaseline(p) ==
    LET c == job[p].case IN
    /\ At(p, "BASELINE")
    /\ IF HoldsClaim(p) /\ \A x \in selected : x[1] # c
       THEN /\ attempts' = [attempts EXCEPT ![<<c, "BASELINE">>] =
                                IF c \in BaselineGood THEN "GOOD" ELSE "BAD"]
            /\ Goto(p, "AGENT")
       ELSE Quit(p) /\ UNCHANGED attempts
    /\ UNCHANGED <<run, claim, selected, metrics, decision>>

(* The number of an attempt is always one: another result of the case is a *)
(* conflict, and the same one is unless latency and tokens agree as well.  *)
AppendAgent(p) ==
    LET x == <<job[p].case, "AGENT">> IN
    /\ At(p, "AGENT")
    /\ \/ /\ HoldsClaim(p)
          /\ attempts[x] \in {"NONE", job[p].got}
          /\ attempts' = [attempts EXCEPT ![x] = job[p].got]
          /\ Goto(p, "SELECT_BASELINE")
       \/ /\ ~HoldsClaim(p) \/ attempts[x] # "NONE"
          /\ Quit(p)
          /\ UNCHANGED attempts
    /\ UNCHANGED <<run, claim, selected, metrics, decision>>

Select(p, subject, pc) ==
    /\ IF HoldsClaim(p)
       THEN selected' = selected \cup {<<job[p].case, subject>>} /\ Goto(p, pc)
       ELSE Quit(p) /\ UNCHANGED selected
    /\ UNCHANGED <<run, claim, attempts, metrics, decision>>

SelectBaseline(p) == At(p, "SELECT_BASELINE") /\ Select(p, "BASELINE", "SELECT_AGENT")

SelectAgent(p) ==
    LET c == job[p].case IN
    /\ At(p, "SELECT_AGENT")
    /\ Select(p, "AGENT", IF c = Last THEN "METRICS" ELSE "GATE")

(* After a shard of validation cases their results are read again: the     *)
(* gate rejects, lets the next shard run or unlocks the holdout.  In the   *)
(* middle of a shard and in the holdout the next case is due.              *)
Gate(p) ==
    LET c == job[p].case
        Due == c <= Validation /\ c % ShardSize = 0
    IN
    /\ At(p, "GATE")
    /\ CASE Due /\ HalfPair("VALIDATION") -> Quit(p)
         [] Due /\ ~HalfPair("VALIDATION") /\ GateRejects ->
              job' = [job EXCEPT ![p].pc = "PERSIST", ![p].ruling = "REJECTED"]
         [] Due /\ ~HalfPair("VALIDATION") /\ ~GateRejects /\ c = Validation -> Goto(p, "METRICS")
         [] OTHER -> job' = [job EXCEPT ![p].pc = "CASE", ![p].case = c + 1]
    /\ UNCHANGED <<run, claim, attempts, selected, metrics, decision>>

(* Mutant of Gate: the gate is asked about quality only.                   *)
GateWithoutSafety(p) ==
    LET c == job[p].case IN
    /\ At(p, "GATE")
    /\ CASE c <= Validation /\ c % ShardSize = 0 /\ ~Reachable ->
              job' = [job EXCEPT ![p].pc = "PERSIST", ![p].ruling = "REJECTED"]
         [] c = Validation /\ Reachable -> Goto(p, "METRICS")
         [] OTHER -> job' = [job EXCEPT ![p].pc = "CASE", ![p].case = c + 1]
    /\ UNCHANGED <<run, claim, attempts, selected, metrics, decision>>

(* save_paired_metric counts again what the metric says.                   *)
SaveMetrics(p) ==
    LET s == SplitOf(job[p].case) IN
    /\ At(p, "METRICS")
    /\ IF metrics[s].saved \/ (HoldsClaim(p) /\ Pairs(s) = CasesOf(s))
       THEN /\ metrics' = IF metrics[s].saved THEN metrics
                          ELSE [metrics EXCEPT ![s] = Counted(s)]
            /\ IF s = "HOLDOUT" THEN Goto(p, "DECIDE")
               ELSE job' = [job EXCEPT ![p].pc = "CASE", ![p].case = @ + 1]
       ELSE Quit(p) /\ UNCHANGED metrics
    /\ UNCHANGED <<run, claim, attempts, selected, decision>>

Decide(p) ==
    /\ At(p, "DECIDE")
    /\ job' = [job EXCEPT ![p].pc = "PERSIST", ![p].ruling = Ruling]
    /\ UNCHANGED <<run, claim, attempts, selected, metrics, decision>>

(* _persist_decision and save_retention_decision.  The record refuses a    *)
(* RETAINED whose agents did not pass every hard gate.                     *)
Persist(p) ==
    /\ At(p, "PERSIST")
    /\ IF /\ HoldsClaim(p)
          /\ \A s \in Splits : ~HalfPair(s)
          /\ job[p].ruling = "RETAINED" => RetainedEvidence
       THEN /\ decision' = job[p].ruling
            /\ run' = "COMPLETED"
            /\ claim' = [claim EXCEPT !.live = FALSE]
       ELSE UNCHANGED <<decision, run, claim>>
    /\ Quit(p)
    /\ UNCHANGED <<attempts, selected, metrics>>

(* The process ends, anywhere.                                             *)
Stop(p) ==
    /\ ~At(p, "IDLE")
    /\ Quit(p)
    /\ UNCHANGED <<run, claim, attempts, selected, metrics, decision>>

-----------------------------------------------------------------------------
Init ==
    /\ run = "NONE"
    /\ claim = [version |-> 0, live |-> FALSE]
    /\ attempts = [x \in Results |-> "NONE"]
    /\ selected = {}
    /\ metrics = [s \in Splits |-> NoMetric]
    /\ decision = "NONE"
    /\ job = [p \in Processes |-> IdleJob]

Next ==
    \/ LeaseEnds
    \/ \E p \in Processes :
          \/ CreateRun(p)
          \/ ClaimRun(p)
          \/ \E got \in Outcomes : RunCase(p, got)
          \/ AppendBaseline(p)
          \/ AppendAgent(p)
          \/ SelectBaseline(p)
          \/ SelectAgent(p)
          \/ Gate(p)
          \/ SaveMetrics(p)
          \/ Decide(p)
          \/ Persist(p)
          \/ Stop(p)

Spec == Init /\ [][Next]_vars

-----------------------------------------------------------------------------
(* The run, its facts and the memory of the processes keep their types.    *)
TypeOK ==
    /\ run \in {"NONE", "RUNNING", "COMPLETED"}
    /\ claim \in [version : 0..MaxVersion, live : BOOLEAN]
    /\ attempts \in [Results -> (Outcomes \ {"INFRASTRUCTURE"}) \cup {"NONE"}]
    /\ selected \subseteq Results
    /\ metrics \in [Splits -> [good : 0..Last, baseline : 0..Last, saved : BOOLEAN]]
    /\ decision \in Decisions
    /\ job \in [Processes -> [pc : Steps, version : 0..MaxVersion, case : Cases,
                              got : Outcomes \cup {"NONE"}, ruling : Decisions]]

(* Saved metrics still tell what the results that count say, whoever wrote *)
(* them, and a rejection has a reason that can be read from them.          *)
OutcomesAreTrue ==
    /\ \A s \in Splits : metrics[s].saved => metrics[s] = Counted(s)
    /\ decision = "REJECTED" =>
          \/ GateRejects
          \/ Severe("HOLDOUT") # {}
          \/ ~MetThreshold(metrics["HOLDOUT"], "HOLDOUT")

(* No process looks at the holdout before the whole validation counts and  *)
(* has passed, and a candidate is retained on nothing less than complete   *)
(* results of both splits that passed every gate (record_pair and the gate *)
(* in runner.py, save_retention_decision in store.py).                     *)
RetentionIsBacked ==
    /\ \A c \in CasesOf("HOLDOUT") : attempts[<<c, "BASELINE">>] # "NONE" =>
          Pairs("VALIDATION") = CasesOf("VALIDATION") /\ ~GateRejects
    /\ decision = "RETAINED" =>
          /\ RetainedEvidence
          /\ \A s \in Splits : MetThreshold(Counted(s), s)

(* decide_candidate_retention says of a severe violation in the store that *)
(* a later gap of the external evidence must not downgrade it to           *)
(* INCONCLUSIVE.  The coordinator does not ask it when a model call fails. *)
SevereIsRejected ==
    decision = "INCONCLUSIVE" => Severe("VALIDATION") \cup Severe("HOLDOUT") = {}

(* A claimed evaluation comes to a decision: stated, but it does not hold. *)
(* A process that takes over stops at the first case that has a selected   *)
(* result; without an answer to a holdout case, or when a RETAINED misses a*)
(* hard gate, the run stays RUNNING as well.                               *)
EvaluationsConclude == (run = "RUNNING") ~> (decision # "NONE")
=============================================================================
