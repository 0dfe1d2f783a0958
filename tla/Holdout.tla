------------------------------- MODULE Holdout -------------------------------
(***************************************************************************)
(* The sealed holdout of phase 17: the budget pool and the runs of         *)
(* phase17_holdout_ledger.py (with docker/init_phase17_holdout_ledger.sql),*)
(* the runner (phase17_holdout_runner.py), and the command line that       *)
(* starts it, ends it after an exception and draws the conclusion from     *)
(* both batches (scripts/run_phase17_holdout.py).                          *)
(*                                                                         *)
(* A batch is one campaign of the pool.  Every execution is a new run, and *)
(* nothing limits the runs of a batch.  A stage without a usage is charged *)
(* its whole reservation; an answer may be cheaper, never free.            *)
(***************************************************************************)
EXTENDS Integers, Sequences, FiniteSetsExt

CONSTANTS
    Runs,           \* the executions of the command line
    Aggregators,    \* the executions of its --aggregate
    BatchSize,      \* the cases of a batch
    PassMin,        \* how many of them must pass
    Forward         \* what the contract may still spend

VARIABLES
    events,     \* events[b]: the budget events of the campaign of batch b
    settled,    \* settled[b]: the amount of its SETTLE event
    batch,      \* batch[r]: the batch run r belongs to, 0 before begin_phase17_run
    status,     \* status[r]: the terminal result of run r
    results,    \* results[r]: the case results of run r in their order
    cost,       \* cost[r]: what the recorded attempts of r cost
    sent,       \* sent[r]: how many stages of r were sent to the model
    review,     \* review[r]: the safety review of the captured answers of r
    conclusions,\* the qualification records
    job,        \* job[r]: where execution r is
    reading     \* reading[a]: what aggregator a concluded and has not recorded

pool == <<events, settled>>
rows == <<batch, status, results, cost, review, conclusions>>
vars == <<events, settled, batch, status, results, cost, sent, review, conclusions, job, reading>>

Batches == {1, 2}
Verdicts == {"PASS", "FAILED", "BLOCKED"}

(* CRITICAL is a case that failed in the validation of its analyst.        *)
CaseOutcomes == Verdicts \cup {"CRITICAL"}

(* Started; the pool is read; the campaign, the run; a stage is sent and   *)
(* recorded; the case, the run, the settlement; an exception.              *)
Steps == {"NEW", "ENSURE", "BEGIN", "SEND", "RECORD", "CASE", "CLOSE", "SETTLE",
          "ABORT", "ABORT_SETTLE", "END"}

JobRecord == [pc : Steps, batch : Batches, stage : {"ANALYST", "PLANNER"},
              outcome : CaseOutcomes, sent : BOOLEAN]

Fresh(pc, b) == [pc |-> pc, batch |-> b, stage |-> "ANALYST", outcome |-> "PASS", sent |-> FALSE]

StageReservation == 2
Reservation == 2 * BatchSize * StageReservation

Init ==
    /\ events = [b \in Batches |-> {}]
    /\ settled = [b \in Batches |-> 0]
    /\ batch = [r \in Runs |-> 0]
    /\ status = [r \in Runs |-> "NONE"]
    /\ results = [r \in Runs |-> <<>>]
    /\ cost = [r \in Runs |-> 0]
    /\ sent = [r \in Runs |-> 0]
    /\ review = [r \in Runs |-> "NONE"]
    /\ conclusions = {}
    /\ job \in [Runs -> {Fresh("NEW", b) : b \in Batches}]
    /\ reading = [a \in Aggregators |-> {}]

-----------------------------------------------------------------------------
(* The pool: an unsettled campaign takes its reservation, a settled one    *)
(* what it cost.                                                           *)
Reserved ==
    MapThenSumSet(LAMBDA b : (IF "RESERVE" \in events[b] THEN Reservation ELSE 0)
                             - (IF "RELEASE" \in events[b] THEN Reservation ELSE 0), Batches)
Settled == MapThenSumSet(LAMBDA b : settled[b], Batches)
Available == Forward - Reserved - Settled

At(r, pc) == job[r].pc = pc
Goto(r, pc) == job' = [job EXCEPT ![r] = Fresh(pc, @.batch)]
BatchOf(r) == job[r].batch
IsTerminal(r) == status[r] # "NONE"

Count(r, o) == Cardinality({i \in DOMAIN results[r] : results[r][i] = o})

(* The result of a batch: BLOCKED first, then a critical failure, then the *)
(* threshold.                                                              *)
Verdict(r) ==
    IF Count(r, "BLOCKED") > 0 THEN "BLOCKED"
    ELSE IF Count(r, "CRITICAL") = 0 /\ Count(r, "PASS") >= PassMin THEN "PASS" ELSE "FAILED"

-----------------------------------------------------------------------------
(* The command line reads the pool before a person approves the execution. *)
CheckPool(r) ==
    /\ At(r, "NEW")
    /\ Goto(r, IF Reservation <= Available THEN "ENSURE" ELSE "END")
    /\ UNCHANGED <<pool, rows, sent, reading>>

(* A campaign that exists is taken as it is; a new one must fit.           *)
MayReserve(b) == Reserved + Settled + Reservation <= Forward

EnsureCampaign(r) ==
    /\ At(r, "ENSURE")
    /\ "RESERVE" \in events[BatchOf(r)] \/ MayReserve(BatchOf(r))
    /\ events' = [events EXCEPT ![BatchOf(r)] = @ \cup {"RESERVE"}]
    /\ Goto(r, "BEGIN")
    /\ UNCHANGED <<settled, rows, sent, reading>>

BeginRun(r) ==
    /\ At(r, "BEGIN")
    /\ batch' = [batch EXCEPT ![r] = BatchOf(r)]
    /\ Goto(r, "SEND")
    /\ UNCHANGED <<pool, status, results, cost, sent, review, conclusions, reading>>

(* The model port is called; the request may fail before it leaves.        *)
DispatchStage(r) ==
    /\ At(r, "SEND")
    /\ \E leaves \in BOOLEAN :
        /\ sent' = [sent EXCEPT ![r] = IF leaves THEN @ + 1 ELSE @]
        /\ job' = [job EXCEPT ![r].pc = "RECORD", ![r].sent = leaves]
    /\ UNCHANGED <<pool, rows, reading>>

(* The attempts of the stage are recorded with their costs.  A failed      *)
(* capture blocks, a request that was not sent blocks, the rest fails.     *)
RecordAttempts(r) ==
    /\ At(r, "RECORD")
    /\ ~IsTerminal(r)
    /\ \E c \in 1..StageReservation :
        /\ ~job[r].sent => c = StageReservation
        /\ cost' = [cost EXCEPT ![r] = @ + c]
    /\ \E o \in CaseOutcomes :
        /\ o = "PASS" => job[r].sent
        /\ o = "FAILED" => job[r].sent
        /\ o = "CRITICAL" => job[r].sent /\ job[r].stage = "ANALYST"
        /\ job' = IF o = "PASS" /\ job[r].stage = "ANALYST"
                  THEN [job EXCEPT ![r].pc = "SEND", ![r].stage = "PLANNER", ![r].sent = FALSE]
                  ELSE [job EXCEPT ![r].pc = "CASE", ![r].outcome = o, ![r].sent = FALSE]
    /\ UNCHANGED <<pool, batch, status, results, sent, review, conclusions, reading>>

(* Mutant of RecordCaseResult: the batch goes on for one case too many.    *)
RecordCaseBeyond(r) ==
    /\ At(r, "CASE")
    /\ ~IsTerminal(r)
    /\ results' = [results EXCEPT ![r] = Append(@, job[r].outcome)]
    /\ Goto(r, IF Len(results'[r]) > BatchSize THEN "CLOSE" ELSE "SEND")
    /\ UNCHANGED <<pool, batch, status, cost, sent, review, conclusions, reading>>

RecordCaseResult(r) ==
    /\ At(r, "CASE")
    /\ ~IsTerminal(r)
    /\ results' = [results EXCEPT ![r] = Append(@, job[r].outcome)]
    /\ Goto(r, IF Len(results'[r]) = BatchSize THEN "CLOSE" ELSE "SEND")
    /\ UNCHANGED <<pool, batch, status, cost, sent, review, conclusions, reading>>

CloseRun(r) ==
    /\ At(r, "CLOSE")
    /\ ~IsTerminal(r)
    /\ status' = [status EXCEPT ![r] = Verdict(r)]
    /\ Goto(r, "SETTLE")
    /\ UNCHANGED <<pool, batch, results, cost, sent, review, conclusions, reading>>

(* The settlement releases the reservation and takes the cost of this run. *)
(* Each event is there at most once.                                       *)
MaySettle(r) ==
    /\ events[BatchOf(r)] \cap {"RELEASE", "SETTLE"} = {}
    /\ Reserved - Reservation + Settled + cost[r] <= Forward

SettleCampaign(r) ==
    /\ At(r, "SETTLE") \/ At(r, "ABORT_SETTLE")
    /\ MaySettle(r)
    /\ events' = [events EXCEPT ![BatchOf(r)] = @ \cup {"RELEASE", "SETTLE"}]
    /\ settled' = [settled EXCEPT ![BatchOf(r)] = cost[r]]
    /\ Goto(r, "END")
    /\ UNCHANGED <<rows, sent, reading>>

(* Any call raises; then the exception handler reads the run.              *)
Raise(r) ==
    /\ job[r].pc \in {"ENSURE", "BEGIN", "SEND", "RECORD", "CASE", "CLOSE", "SETTLE"}
    /\ Goto(r, "ABORT")
    /\ UNCHANGED <<pool, rows, sent, reading>>

(* An execution without a cost of its own releases the campaign.           *)
ReleaseCampaign(r) ==
    /\ At(r, "ABORT")
    /\ batch[r] = 0 \/ (~IsTerminal(r) /\ cost[r] = 0)
    /\ "RESERVE" \in events[BatchOf(r)]
    /\ events[BatchOf(r)] \cap {"RELEASE", "SETTLE"} = {}
    /\ events' = [events EXCEPT ![BatchOf(r)] = @ \cup {"RELEASE"}]
    /\ Goto(r, "END")
    /\ UNCHANGED <<settled, rows, sent, reading>>

AbortRun(r) ==
    /\ At(r, "ABORT")
    /\ ~IsTerminal(r)
    /\ cost[r] > 0
    /\ status' = [status EXCEPT ![r] = "FAILED"]
    /\ Goto(r, "ABORT_SETTLE")
    /\ UNCHANGED <<pool, batch, results, cost, sent, review, conclusions, reading>>

(* The process stops, or the handler fails or has nothing to do.           *)
Stop(r) ==
    /\ ~At(r, "END")
    /\ Goto(r, "END")
    /\ UNCHANGED <<pool, rows, sent, reading>>

-----------------------------------------------------------------------------
(* Another person reviews the captured answers of a run that has ended.    *)
RecordSafetyReview(r, v) ==
    /\ IsTerminal(r)
    /\ sent[r] > 0
    /\ review[r] = "NONE"
    /\ review' = [review EXCEPT ![r] = v]
    /\ UNCHANGED <<pool, batch, status, results, cost, sent, conclusions, job, reading>>

(* Mutant of SafetyGate: a run without a review passes.                    *)
SafetyGateOfFailures(runs) ==
    IF \E r \in runs : review[r] = "FAIL" THEN "FAILED" ELSE "PASS"

SafetyGate(runs) ==
    IF \E r \in runs : review[r] = "FAIL" THEN "FAILED"
    ELSE IF \E r \in runs : review[r] # "PASS" THEN "BLOCKED" ELSE "PASS"

(* One terminal run of each batch, whichever the query returns first.      *)
Conclusion(r1, r2) ==
    [runs |-> <<r1, r2>>,
     status |-> IF "BLOCKED" \in {status[r1], status[r2]} THEN "BLOCKED"
                ELSE IF SafetyGate({r1, r2}) # "PASS" THEN SafetyGate({r1, r2})
                ELSE IF status[r1] = "PASS" /\ status[r2] = "PASS"
                        /\ Count(r1, "CRITICAL") + Count(r2, "CRITICAL") = 0 THEN "QUALIFIED"
                ELSE "FAILED"]

(* What --aggregate asks of a run before it counts.                        *)
IsComplete(r) == IsTerminal(r) /\ Len(results[r]) = BatchSize

Aggregate(a) ==
    /\ conclusions = {}
    /\ reading[a] = {}
    /\ \E r1, r2 \in Runs :
        /\ batch[r1] = 1 /\ batch[r2] = 2
        /\ IsComplete(r1) /\ IsComplete(r2)
        /\ reading' = [reading EXCEPT ![a] = {Conclusion(r1, r2)}]
    /\ UNCHANGED <<pool, rows, sent, job>>

RecordQualification(a) ==
    \E q \in reading[a] :
        /\ q.runs \notin {p.runs : p \in conclusions}
        /\ conclusions' = conclusions \cup {q}
        /\ reading' = [reading EXCEPT ![a] = {}]
        /\ UNCHANGED <<pool, batch, status, results, cost, sent, review, job>>

Next ==
    \/ \E r \in Runs :
        \/ CheckPool(r) \/ EnsureCampaign(r) \/ BeginRun(r)
        \/ DispatchStage(r) \/ RecordAttempts(r) \/ RecordCaseResult(r)
        \/ CloseRun(r) \/ SettleCampaign(r)
        \/ Raise(r) \/ ReleaseCampaign(r) \/ AbortRun(r) \/ Stop(r)
        \/ \E v \in {"PASS", "FAIL", "INCONCLUSIVE"} : RecordSafetyReview(r, v)
    \/ \E a \in Aggregators : Aggregate(a) \/ RecordQualification(a)

Spec == Init /\ [][Next]_vars

-----------------------------------------------------------------------------
(* The rows of the ledger and the memory of the executions keep their      *)
(* types.                                                                  *)
TypeOK ==
    /\ events \in [Batches -> SUBSET {"RESERVE", "SETTLE", "RELEASE"}]
    /\ settled \in [Batches -> Nat]
    /\ batch \in [Runs -> {0} \cup Batches]
    /\ status \in [Runs -> {"NONE"} \cup Verdicts]
    /\ \A r \in Runs : Len(results[r]) <= BatchSize /\ \A i \in DOMAIN results[r] : results[r][i] \in CaseOutcomes
    /\ cost \in [Runs -> Nat]
    /\ sent \in [Runs -> Nat]
    /\ review \in [Runs -> {"NONE", "PASS", "FAIL", "INCONCLUSIVE"}]
    /\ job \in [Runs -> JobRecord]

(* The pool is never overdrawn and never paid back twice, whatever runs of *)
(* the same and of different batches do beside each other                  *)
(* (ensure_phase17_campaign, settle_phase17_campaign).                     *)
PoolIsCovered ==
    /\ 0 <= Reserved /\ 0 <= Available
    /\ \A b \in Batches : "SETTLE" \in events[b] => "RELEASE" \in events[b]

(* A qualification rests on one run of each batch in which enough cases    *)
(* made both of their requests, none failed critically or was blocked, and *)
(* the review of whose answers passed (record_phase17_qualification).      *)
QualificationIsBacked ==
    \A q \in conclusions : q.status = "QUALIFIED" =>
        \A b \in Batches :
            LET r == q.runs[b]
            IN  /\ batch[r] = b
                /\ status[r] = "PASS"
                /\ Len(results[r]) = BatchSize
                /\ sent[r] >= BatchSize + PassMin
                /\ Count(r, "PASS") >= PassMin
                /\ review[r] = "PASS"

(* release_phase17_campaign is for campaigns that cost nothing.            *)
ReleasedMeansUnspent ==
    \A b \in Batches :
        events[b] = {"RESERVE", "RELEASE"} => \A r \in Runs : batch[r] = b => sent[r] = 0
=============================================================================
