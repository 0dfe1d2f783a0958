----------------------------- MODULE SmokeLedger -----------------------------
(***************************************************************************)
(* The formal smoke run: its PostgreSQL ledger (official_smoke_ledger.py   *)
(* and official_smoke_ledger_v2.py, which keep the same rules) and the     *)
(* runner that executes the frozen cases one after the other               *)
(* (official_smoke_runner.py, official_smoke_runner_v2.py).                *)
(*                                                                         *)
(* A case is two paid model calls, the ANALYST and then the PLANNER.  The  *)
(* ledger serialises its transactions on the row of the run (a call of the *)
(* ledger is one action); between two calls a runner may stop, and another *)
(* one may be started while the first still waits for the model.           *)
(***************************************************************************)
EXTENDS Naturals, Sequences, FiniteSets

CONSTANTS
    Runners,        \* processes that execute the run, one after or beside the other
    CaseOrder,      \* the frozen cases in the order of their slots
    History,        \* what was spent before the run
    Reservation,    \* what a claimed case reserves for its two stages
    TotalBudget

VARIABLES
    slots,      \* the cases ensure_run froze
    claimed,    \* the cases with a claim
    begun,      \* the dispatch attempts, as pairs of case and stage
    sent,       \* sent[k]: requests of attempt k that reached the provider
    receipt,    \* the attempts with a provider receipt
    fact,       \* fact[k]: the validation fact of attempt k
    outcome,    \* outcome[c]: the terminal outcome of case c
    job         \* job[r]: where execute() of runner r is, and what it reported

ledger == <<slots, claimed, begun, receipt, fact, outcome>>
vars == <<slots, claimed, begun, sent, receipt, fact, outcome, job>>

Cases == {CaseOrder[i] : i \in DOMAIN CaseOrder}
Stages == {"ANALYST", "PLANNER"}
Attempts == Cases \X Stages

(* A fact or an outcome is its reason code; the status follows from it.    *)
(* All reasons of a call that was made and did not count are INVALID.      *)
Failed == {"INVALID", "UNKNOWN"}
Blocked == {"NOT_SENT", "PRE_SEND"}
Passed == {"READY", "RECOVERED"}

(* ensure_run, recovery, get_case_outcome, claim_case, begin_dispatch, the *)
(* model port, the receipt and its validation, close_case.                 *)
Steps == {"IDLE", "RECOVER", "CASE", "CLAIM", "BEGIN", "SEND", "AWAIT", "JUDGE", "CLOSE"}

JobRecord == [pc : Steps, at : DOMAIN CaseOrder, stage : Stages,
              reason : Failed \cup Blocked \cup {"READY"},
              report : {"NONE", "PASS", "FAILED", "BLOCKED"}]

Idle(report) == [pc |-> "IDLE", at |-> 1, stage |-> "ANALYST",
                 reason |-> "PRE_SEND", report |-> report]

Init ==
    /\ slots = {}
    /\ claimed = {}
    /\ begun = {}
    /\ sent = [k \in Attempts |-> 0]
    /\ receipt = {}
    /\ fact = [k \in Attempts |-> "NONE"]
    /\ outcome = [c \in Cases |-> "NONE"]
    /\ job = [r \in Runners |-> Idle("NONE")]

-----------------------------------------------------------------------------
(* The case and the attempt runner r works on.                             *)
CaseOf(r) == CaseOrder[job[r].at]
AttemptOf(r) == <<CaseOf(r), job[r].stage>>

At(r, pc) == job[r].pc = pc
Goto(r, pc) == job' = [job EXCEPT ![r].pc = pc]
CloseWith(r, reason) == job' = [job EXCEPT ![r].pc = "CLOSE", ![r].reason = reason]
Finish(r, report) == job' = [job EXCEPT ![r] = Idle(report)]

ReportOf(o) == IF o \in Blocked THEN "BLOCKED" ELSE "FAILED"

(* The next case, or the end of the run.                                   *)
NextCase(r) ==
    IF job[r].at < Len(CaseOrder)
    THEN job' = [job EXCEPT ![r].pc = "CASE", ![r].at = @ + 1]
    ELSE Finish(r, "PASS")

-----------------------------------------------------------------------------
(* The ledger.                                                             *)

(* One outcome other than PASS ends the run for every runner.              *)
AcceptsDispatch == \A c \in Cases : outcome[c] \notin Failed \cup Blocked

Exposure == History + Reservation * Cardinality(claimed)

PassedStages(c) == {s \in Stages : fact[<<c, s>>] = "PASS" /\ <<c, s>> \in receipt}

(* Mutant of Admissible: a BLOCKED outcome is taken without looking at the *)
(* attempts.                                                               *)
AdmissibleBlock(c, o) ==
    CASE o \in Passed -> PassedStages(c) = Stages
      [] o \in Failed -> \E s \in Stages : fact[<<c, s>>] \in Failed
      [] OTHER -> TRUE

(* The evidence a terminal outcome must rest on.                           *)
Admissible(c, o) ==
    CASE o \in Passed -> PassedStages(c) = Stages
      [] o \in Failed -> \E s \in Stages : fact[<<c, s>>] \in Failed
      [] o \in Blocked ->
            \A s \in Stages : <<c, s>> \in begun =>
                \/ fact[<<c, s>>] = "NOT_SENT" /\ <<c, s>> \notin receipt
                \/ s = "ANALYST" /\ s \in PassedStages(c)

(* What recovery finds in a claimed case that has no outcome: nothing it   *)
(* may decide ("NONE"), a fact that was written, or a call without one.    *)
Recovered(c) ==
    LET facts == {fact[<<c, s>>] : s \in {t \in Stages : <<c, t>> \in begun}}
    IN  IF c \notin claimed \/ outcome[c] # "NONE" THEN "NONE"
        ELSE IF facts \cap Failed # {} THEN CHOOSE f \in Failed : f \in facts
        ELSE IF "NOT_SENT" \in facts THEN "NOT_SENT"
        ELSE IF "NONE" \in facts THEN "UNKNOWN"
        ELSE IF PassedStages(c) = Stages THEN "RECOVERED"
        ELSE "NONE"

(* A validation fact is written once; PASS needs a receipt, and what has a *)
(* receipt was sent.                                                       *)
MayRecord(k, f) ==
    /\ k \in begun
    /\ fact[k] = "NONE"
    /\ f = "PASS" => k \in receipt
    /\ f = "NOT_SENT" => k \notin receipt

(* Mutant of MayBegin: an attempt that exists is begun again.              *)
MayBeginAgain(k) ==
    /\ AcceptsDispatch
    /\ k[1] \in claimed
    /\ k[2] = "PLANNER" => fact[<<k[1], "ANALYST">>] = "PASS"

MayBegin(k) ==
    /\ AcceptsDispatch
    /\ k[1] \in claimed
    /\ k \notin begun
    /\ k[2] = "PLANNER" => fact[<<k[1], "ANALYST">>] = "PASS"

-----------------------------------------------------------------------------
(* execute()                                                               *)

EnsureRun(r) ==
    /\ At(r, "IDLE")
    /\ slots' = Cases
    /\ job' = [job EXCEPT ![r] = [Idle("NONE") EXCEPT !.pc = "RECOVER"]]
    /\ UNCHANGED <<claimed, begun, sent, receipt, fact, outcome>>

(* One transaction over all open claims; a case that did not pass ends     *)
(* this execution before anything is sent.                                 *)
RecoverOpenAttempts(r) ==
    /\ At(r, "RECOVER")
    /\ fact' = [k \in Attempts |->
                  IF k \in begun /\ fact[k] = "NONE" /\ Recovered(k[1]) = "UNKNOWN"
                  THEN "UNKNOWN" ELSE fact[k]]
    /\ outcome' = [c \in Cases |-> IF Recovered(c) = "NONE" THEN outcome[c] ELSE Recovered(c)]
    /\ LET lost == {Recovered(c) : c \in Cases} \cap (Failed \cup Blocked)
       IN  IF lost = {} THEN Goto(r, "CASE")
           ELSE \E o \in lost : Finish(r, ReportOf(o))
    /\ UNCHANGED <<slots, claimed, begun, sent, receipt>>

GetCaseOutcome(r) ==
    /\ At(r, "CASE")
    /\ LET o == outcome[CaseOf(r)]
       IN  \/ o = "NONE" /\ Goto(r, "CLAIM")
           \/ o \in Passed /\ NextCase(r)
           \/ o \in Failed \cup Blocked /\ Finish(r, ReportOf(o))
    /\ UNCHANGED <<ledger, sent>>

(* The claim of another runner is returned as if it were one's own.        *)
ClaimCase(r) ==
    /\ At(r, "CLAIM")
    /\ AcceptsDispatch
    /\ CaseOf(r) \in slots
    /\ CaseOf(r) \notin claimed => Exposure + Reservation <= TotalBudget
    /\ claimed' = claimed \cup {CaseOf(r)}
    /\ job' = [job EXCEPT ![r].pc = "BEGIN", ![r].stage = "ANALYST"]
    /\ UNCHANGED <<slots, begun, sent, receipt, fact, outcome>>

(* The bounded runner reserves its call by writing the attempt.            *)
BeginDispatch(r) ==
    /\ At(r, "BEGIN")
    /\ MayBegin(AttemptOf(r))
    /\ begun' = begun \cup {AttemptOf(r)}
    /\ Goto(r, "SEND")
    /\ UNCHANGED <<slots, claimed, sent, receipt, fact, outcome>>

(* begin_dispatch refuses, or the bounded runner stops before it.          *)
StopBeforeSend(r) ==
    /\ At(r, "BEGIN")
    /\ CloseWith(r, "PRE_SEND")
    /\ UNCHANGED <<ledger, sent>>

SendRequest(r) ==
    /\ At(r, "SEND")
    /\ sent' = [sent EXCEPT ![AttemptOf(r)] = @ + 1]
    /\ Goto(r, "AWAIT")
    /\ UNCHANGED ledger

(* The deadline passed during the reservation, or the port says that the   *)
(* request did not leave.                                                  *)
AppendBlockedValidation(r) ==
    /\ At(r, "SEND")
    /\ MayRecord(AttemptOf(r), "NOT_SENT")
    /\ fact' = [fact EXCEPT ![AttemptOf(r)] = "NOT_SENT"]
    /\ CloseWith(r, "NOT_SENT")
    /\ UNCHANGED <<slots, claimed, begun, sent, receipt, outcome>>

(* The receipt asks neither for the outcome nor for the facts.             *)
AppendProviderReceipt(r) ==
    /\ At(r, "AWAIT")
    /\ AttemptOf(r) \notin receipt
    /\ receipt' = receipt \cup {AttemptOf(r)}
    /\ Goto(r, "JUDGE")
    /\ UNCHANGED <<slots, claimed, begun, sent, fact, outcome>>

(* No answer in time, an answer without a usable receipt, or an answer     *)
(* that does not validate.                                                 *)
AppendFailedValidation(r) ==
    /\ At(r, "AWAIT") \/ At(r, "JUDGE")
    /\ MayRecord(AttemptOf(r), "INVALID")
    /\ fact' = [fact EXCEPT ![AttemptOf(r)] = "INVALID"]
    /\ CloseWith(r, "INVALID")
    /\ UNCHANGED <<slots, claimed, begun, sent, receipt, outcome>>

(* Mutant of AppendValidationPass: close_case is forgotten.                *)
AppendValidationOnly(r) ==
    /\ At(r, "JUDGE")
    /\ MayRecord(AttemptOf(r), "PASS")
    /\ fact' = [fact EXCEPT ![AttemptOf(r)] = "PASS"]
    /\ IF job[r].stage = "ANALYST"
       THEN job' = [job EXCEPT ![r].pc = "BEGIN", ![r].stage = "PLANNER"]
       ELSE NextCase(r)
    /\ UNCHANGED <<slots, claimed, begun, sent, receipt, outcome>>

AppendValidationPass(r) ==
    /\ At(r, "JUDGE")
    /\ MayRecord(AttemptOf(r), "PASS")
    /\ fact' = [fact EXCEPT ![AttemptOf(r)] = "PASS"]
    /\ IF job[r].stage = "ANALYST"
       THEN job' = [job EXCEPT ![r].pc = "BEGIN", ![r].stage = "PLANNER"]
       ELSE CloseWith(r, "READY")
    /\ UNCHANGED <<slots, claimed, begun, sent, receipt, outcome>>

(* An existing outcome must be the very same fact.                         *)
CloseCase(r) ==
    /\ At(r, "CLOSE")
    /\ \/ outcome[CaseOf(r)] = job[r].reason
       \/ outcome[CaseOf(r)] = "NONE" /\ Admissible(CaseOf(r), job[r].reason)
    /\ outcome' = [outcome EXCEPT ![CaseOf(r)] = job[r].reason]
    /\ IF job[r].reason = "READY" THEN NextCase(r) ELSE Finish(r, ReportOf(job[r].reason))
    /\ UNCHANGED <<slots, claimed, begun, sent, receipt, fact>>

(* The process stops, or a call of the ledger raises and execute() with it.*)
Crash(r) ==
    /\ ~At(r, "IDLE")
    /\ Finish(r, "NONE")
    /\ UNCHANGED <<ledger, sent>>

Next == \E r \in Runners :
    \/ EnsureRun(r) \/ RecoverOpenAttempts(r) \/ GetCaseOutcome(r) \/ ClaimCase(r)
    \/ BeginDispatch(r) \/ StopBeforeSend(r) \/ SendRequest(r) \/ AppendBlockedValidation(r)
    \/ AppendProviderReceipt(r) \/ AppendFailedValidation(r) \/ AppendValidationPass(r)
    \/ CloseCase(r) \/ Crash(r)

Spec == Init /\ [][Next]_vars

-----------------------------------------------------------------------------
(* The rows of the ledger and the memory of the runners keep their types.  *)
TypeOK ==
    /\ slots \subseteq Cases
    /\ claimed \subseteq Cases
    /\ begun \subseteq Attempts
    /\ sent \in [Attempts -> Nat]
    /\ receipt \subseteq Attempts
    /\ fact \in [Attempts -> {"NONE", "PASS", "NOT_SENT"} \cup Failed]
    /\ outcome \in [Cases -> {"NONE"} \cup Passed \cup Failed \cup Blocked]
    /\ job \in [Runners -> JobRecord]

(* The outcome of a case tells what happened outside, whoever wrote it and *)
(* whatever the other runners were doing: PASS stands for one request of   *)
(* each stage, FAILED for an attempt that failed, and BLOCKED never hides  *)
(* a request, except that of an analyst that passed.  What execute()       *)
(* reported agrees with the outcomes (_close_case_in_cursor).              *)
OutcomesAreTrue ==
    /\ \A c \in Cases :
        /\ outcome[c] \in Passed => \A s \in Stages : sent[<<c, s>>] = 1 /\ <<c, s>> \in receipt
        /\ outcome[c] \in Failed => \E s \in Stages : fact[<<c, s>>] \in Failed
        /\ outcome[c] \in Blocked =>
            /\ sent[<<c, "PLANNER">>] = 0
            /\ sent[<<c, "ANALYST">>] = 1 => fact[<<c, "ANALYST">>] = "PASS"
    /\ \A r \in Runners :
        /\ job[r].report = "PASS" => \A c \in Cases : outcome[c] \in Passed
        /\ job[r].report = "FAILED" => \E c \in Cases : outcome[c] \in Failed
        /\ job[r].report = "BLOCKED" => \E c \in Cases : outcome[c] \in Blocked

(* Runners beside each other still spend on one case at a time: a case is  *)
(* claimed only when every case before it has passed, so the first case    *)
(* that does not pass is the last one that cost anything (claim_case).     *)
OneCaseAtATime ==
    \A i, j \in DOMAIN CaseOrder :
        i < j /\ CaseOrder[j] \in claimed => outcome[CaseOrder[i]] \in Passed

(* Every model call is reserved, made at most once and answered truly.     *)
CallsOnce == INSTANCE CallOnce WITH
    Calls <- Attempts,
    reserved <- begun,
    answer <- [k \in Attempts |->
                CASE fact[k] = "NONE" -> "OPEN"
                  [] fact[k] = "PASS" -> "OK"
                  [] fact[k] = "NOT_SENT" -> "UNSENT"
                  [] OTHER -> "LOST"]

(* The refinement: no second request for an attempt, none for an attempt   *)
(* declared unsent, and no fact is rewritten (begin_dispatch).             *)
CallsAreMadeOnce == CallsOnce!Spec
=============================================================================
