-------------------------- MODULE AgentEvaluation --------------------------
(***************************************************************************)
(* The evaluation of a recorded agent run, a row of                        *)
(* live_agent_evaluation_runs that PostgreSQL also uses as the queue:      *)
(* requests create it, workers claim, evaluate and close it.  Rows share   *)
(* nothing, so the model has one.  complete_run and fail_run read the row, *)
(* decide, and write it in a second transaction, whoever holds the lease.  *)
(***************************************************************************)
EXTENDS Naturals

CONSTANTS
    Workers, NoOne,
    LeaseTime,      \* lease_seconds
    MaxRetries,     \* the attempt that fails for good
    MaxClock        \* bound: the clock stops here

VARIABLES
    row,            \* the evaluation run, or NoOne before it is created
    scores,         \* the result its detail rows (dimension scores) are of
    job,            \* the run each worker is evaluating
    clock,
    ended,          \* the first terminal status the run had
    late            \* some worker wrote after its lease had run out

vars == <<row, scores, job, clock, ended, late>>

Verdicts == {"PASS", "WARN", "FAIL"}
Terminal == {"completed", "partial", "failed"}
Rows ==
    [status : Terminal \cup {"queued", "running"}, retries : 0..MaxRetries,
     until : 0..(MaxClock + LeaseTime), owner : Workers \cup {NoOne},
     verdict : Verdicts \cup {NoOne}]
Steps == {"EVALUATE", "COMPLETE", "FAIL"}
JobRecords ==
    [step : Steps, until : Nat, verdict : Verdicts \cup {NoOne}, retries : 0..MaxRetries]

Init ==
    /\ row = NoOne
    /\ scores = NoOne
    /\ job = [w \in Workers |-> NoOne]
    /\ clock = 0
    /\ ended = NoOne
    /\ late = FALSE

(* One UPDATE writes the row, and what it says last is remembered.         *)
Write(new) ==
    /\ row' = new
    /\ ended' = IF ended = NoOne /\ new.status \in Terminal THEN new.status ELSE ended

Released(s) == [row EXCEPT !.status = s, !.owner = NoOne, !.until = 0]

-----------------------------------------------------------------------------
(* create_or_reuse_run: the unique key of the inputs finds the row again.  *)
Create ==
    /\ row = NoOne
    /\ row' = [status |-> "queued", retries |-> 0, until |-> 0, owner |-> NoOne,
               verdict |-> NoOne]
    /\ UNCHANGED <<scores, job, clock, ended, late>>

(* claim_next_run: what is queued, or running on a lease that ran out.     *)
Claim(w) ==
    /\ job[w] = NoOne
    /\ row # NoOne
    /\ \/ row.status = "queued"
       \/ row.status = "running" /\ row.until <= clock
    /\ row' = [row EXCEPT !.status = "running", !.owner = w, !.until = clock + LeaseTime]
    /\ job' = [job EXCEPT ![w] = [step |-> "EVALUATE", until |-> clock + LeaseTime,
                                  verdict |-> NoOne, retries |-> 0]]
    /\ UNCHANGED <<scores, clock, ended, late>>

(* run_once: the replay is rated, or something raises; either way the row  *)
(* is read again, and left alone when it is closed.                        *)
Evaluate(w, verdict) ==
    /\ job[w] # NoOne /\ job[w].step = "EVALUATE"
    /\ job' = [job EXCEPT ![w] =
          IF row.status \in Terminal THEN NoOne
          ELSE [@ EXCEPT !.step = IF verdict = NoOne THEN "FAIL" ELSE "COMPLETE",
                         !.verdict = verdict, !.retries = row.retries]]
    /\ UNCHANGED <<row, scores, clock, ended, late>>

(* The second half of complete_run: the row and its details in one         *)
(* transaction.                                                            *)
Complete(w) ==
    /\ job[w] # NoOne /\ job[w].step = "COMPLETE"
    /\ Write([Released(IF job[w].verdict = "PASS" THEN "completed" ELSE "partial")
                 EXCEPT !.verdict = job[w].verdict])
    /\ scores' = job[w].verdict
    /\ late' = (late \/ clock >= job[w].until)
    /\ job' = [job EXCEPT ![w] = NoOne]
    /\ UNCHANGED clock

(* complete_run fails, which rolls it back, and run_once records that: it  *)
(* reads the row again.                                                    *)
FailToComplete(w) ==
    /\ job[w] # NoOne /\ job[w].step = "COMPLETE"
    /\ job' = [job EXCEPT ![w] =
          IF row.status \in Terminal THEN NoOne
          ELSE [@ EXCEPT !.step = "FAIL", !.verdict = NoOne, !.retries = row.retries]]
    /\ UNCHANGED <<row, scores, clock, ended, late>>

(* The second half of fail_run, with the count it read.                    *)
Fail(w) ==
    /\ job[w] # NoOne /\ job[w].step = "FAIL"
    /\ LET retries == job[w].retries + 1
       IN  Write([Released(IF retries >= MaxRetries THEN "failed" ELSE "queued")
                     EXCEPT !.retries = retries])
    /\ late' = (late \/ clock >= job[w].until)
    /\ job' = [job EXCEPT ![w] = NoOne]
    /\ UNCHANGED <<scores, clock>>

(* The worker stops; its lease runs out.                                   *)
Crash(w) ==
    /\ job[w] # NoOne
    /\ job' = [job EXCEPT ![w] = NoOne]
    /\ UNCHANGED <<row, scores, clock, ended, late>>

Tick ==
    /\ clock < MaxClock
    /\ clock' = clock + 1
    /\ UNCHANGED <<row, scores, job, ended, late>>

Next ==
    \/ Create \/ Tick
    \/ \E w \in Workers :
          \/ Claim(w) \/ Complete(w) \/ FailToComplete(w) \/ Fail(w) \/ Crash(w)
          \/ \E verdict \in Verdicts \cup {NoOne} : Evaluate(w, verdict)

Spec == Init /\ [][Next]_vars

-----------------------------------------------------------------------------
TypeOK ==
    /\ row \in Rows \cup {NoOne}
    /\ scores \in Verdicts \cup {NoOne}
    /\ job \in [Workers -> JobRecords \cup {NoOne}]
    /\ clock \in 0..MaxClock
    /\ ended \in Terminal \cup {NoOne}
    /\ late \in BOOLEAN

(* However workers race and stop, the detail rows are of the result the    *)
(* run tells, a run that failed used all its attempts, and until a worker  *)
(* outlives its lease the first terminal status stays (complete_run,       *)
(* fail_run).                                                              *)
OutcomesAreTrue == row # NoOne =>
    /\ scores = row.verdict
    /\ row.status = "completed" => row.verdict = "PASS"
    /\ row.status = "partial" => row.verdict \in Verdicts \ {"PASS"}
    /\ row.status = "failed" => row.retries = MaxRetries
    /\ ~late /\ ended # NoOne => row.status = ended

(* Until a worker outlives its lease, the one that evaluates under a lease *)
(* is the one the row names (claim_next_run).                              *)
OneOwner == ~late => \A w \in Workers :
    job[w] # NoOne /\ clock < job[w].until =>
        row.status = "running" /\ row.owner = w
=============================================================================
