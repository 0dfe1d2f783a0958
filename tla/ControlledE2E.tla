--------------------------- MODULE ControlledE2E ---------------------------
(***************************************************************************)
(* The controlled end-to-end campaign (V5 to V8): its append-only ledger   *)
(* (controlled_e2e_ledger_v5.py with the triggers of                       *)
(* docker/init_phase16_v5_controlled_e2e.sql) and the runner               *)
(* (controlled_e2e_v5.py).                                                 *)
(*                                                                         *)
(* A campaign has one calibration run and one formal run.  Unlike the      *)
(* smoke run, an execution goes on to the next case when a case fails, and *)
(* a crash ends the run: the next execution only records what it finds.    *)
(***************************************************************************)
EXTENDS Naturals, Sequences, FiniteSets

CONSTANTS
    Runners,        \* processes that execute a run
    Calibration,    \* the sequence with the calibration case
    Formal,         \* the sequence of the formal cases
    CampaignBudget  \* how many stages the budget of the campaign can reserve

VARIABLES
    run,        \* run[k]: absent, open, or the outcome of the run of kind k
    claimed,    \* the cases with a claim
    begun,      \* the dispatch attempts, as pairs of case and stage
    sent,       \* sent[a]: requests of attempt a that left the process
    receipt,    \* receipt[a]: whether the provider receipt of a is complete
    fact,       \* fact[a]: the validation fact of a
    outcome,    \* outcome[c]: the outcome of case c
    recovery,   \* recovery[c]: the recovery fact of the claim of c
    job         \* job[r]: where execute() of runner r is, and how it ended

cases == <<claimed, outcome, recovery>>
attempts == <<begun, sent, receipt, fact>>
vars == <<run, claimed, begun, sent, receipt, fact, outcome, recovery, job>>

Kinds == {"CALIBRATION", "FORMAL"}
Slots(k) == IF k = "CALIBRATION" THEN Calibration ELSE Formal
CasesOf(k) == {Slots(k)[i] : i \in DOMAIN Slots(k)}
Cases == UNION {CasesOf(k) : k \in Kinds}
KindOf(c) == CHOOSE k \in Kinds : c \in CasesOf(k)
Stages == {"ANALYST", "PLANNER"}
Attempts == Cases \X Stages
Verdicts == {"PASS", "FAILED", "BLOCKED"}

(* Recovery of attempts and of cases, begin_run, claim_case,               *)
(* begin_dispatch, the model port, the receipt and its validation,         *)
(* close_case and close_run.                                               *)
Steps == {"IDLE", "ATTEMPTS", "CASES", "RUN", "CLAIM", "BEGIN", "SEND", "AWAIT", "JUDGE",
          "CLOSE", "END"}

(* seen: the verdicts of the cases executed so far; found: what recovery   *)
(* found of the same run; end: how execute() ended, an exception is ERROR. *)
JobRecord == [pc : Steps, kind : Kinds, at : 1..(Len(Formal) + 1), stage : Stages,
              verdict : Verdicts, seen : SUBSET Verdicts, found : {"NONE", "FAILED", "BLOCKED"},
              end : {"NONE", "ERROR"} \cup Verdicts]

Idle(k, end) == [pc |-> "IDLE", kind |-> k, at |-> 1, stage |-> "ANALYST", verdict |-> "BLOCKED",
                 seen |-> {}, found |-> "NONE", end |-> end]

Init ==
    /\ run = [k \in Kinds |-> "NONE"]
    /\ claimed = {}
    /\ begun = {}
    /\ sent = [a \in Attempts |-> 0]
    /\ receipt = [a \in Attempts |-> "NONE"]
    /\ fact = [a \in Attempts |-> "NONE"]
    /\ outcome = [c \in Cases |-> "NONE"]
    /\ recovery = [c \in Cases |-> "NONE"]
    /\ job = [r \in Runners |-> Idle("CALIBRATION", "NONE")]

-----------------------------------------------------------------------------
(* What the rows say.                                                      *)
Passed(a) == fact[a] = "PASS" /\ receipt[a] = "COMPLETE"
BegunStages(c) == {s \in Stages : <<c, s>> \in begun}
FactsOf(c) == {fact[<<c, s>>] : s \in BegunStages(c)}

(* claim_case and begin_dispatch lock the run and refuse a terminal one.   *)
IsLive(k) == run[k] = "OPEN"

(* The triggers of the outcomes of a case and of a run.                    *)
CaseMayEnd(c, v) ==
    CASE v = "PASS" -> \A s \in Stages : Passed(<<c, s>>)
      [] OTHER -> v \in FactsOf(c) \/ recovery[c] = v

RunMayEnd(k, v) ==
    /\ IsLive(k)
    /\ CASE v = "PASS" -> \A c \in CasesOf(k) : outcome[c] = "PASS"
         [] OTHER -> \E c \in CasesOf(k) : outcome[c] = v

-----------------------------------------------------------------------------
(* The case and the attempt runner r works on.                             *)
CaseOf(r) == Slots(job[r].kind)[job[r].at]
AttemptOf(r) == <<CaseOf(r), job[r].stage>>

At(r, pc) == job[r].pc = pc
Goto(r, pc) == job' = [job EXCEPT ![r].pc = pc]
CloseAs(r, v) == job' = [job EXCEPT ![r].pc = "CLOSE", ![r].verdict = v]
Finish(r, end) == job' = [job EXCEPT ![r] = Idle(job[r].kind, end)]

(* One FAILED case fails the run, and one that is not PASS blocks it.      *)
VerdictOf(seen) ==
    IF "FAILED" \in seen THEN "FAILED" ELSE IF "BLOCKED" \in seen THEN "BLOCKED" ELSE "PASS"

(* Rows that another transaction has locked are skipped: those of the runs *)
(* other runners are writing to.                                           *)
Locked(r) == {job[q].kind : q \in {p \in Runners \ {r} : ~At(p, "IDLE") /\ ~At(p, "SEND") /\ ~At(p, "AWAIT")}}

-----------------------------------------------------------------------------
Start(r, k) ==
    /\ At(r, "IDLE")
    /\ job' = [job EXCEPT ![r] = [Idle(k, "NONE") EXCEPT !.pc = "ATTEMPTS"]]
    /\ UNCHANGED <<run, cases, attempts>>

(* An attempt without a fact may have been sent: it fails, and with it its *)
(* case and its run.  (Two of one run would write two outcomes of the run, *)
(* which its key refuses: see OneOpenAttempt.)                             *)
RecoverOpenAttempts(r) ==
    /\ At(r, "ATTEMPTS")
    /\ \E skipped \in SUBSET Locked(r) :
        LET open == {a \in begun :
                        /\ fact[a] = "NONE"
                        /\ outcome[a[1]] = "NONE"
                        /\ IsLive(KindOf(a[1]))
                        /\ KindOf(a[1]) \notin skipped}
            lost == {KindOf(a[1]) : a \in open}
        IN  /\ fact' = [a \in Attempts |-> IF a \in open THEN "FAILED" ELSE fact[a]]
            /\ outcome' = [c \in Cases |->
                  IF \E s \in Stages : <<c, s>> \in open THEN "FAILED" ELSE outcome[c]]
            /\ run' = [k \in Kinds |-> IF k \in lost THEN "FAILED" ELSE run[k]]
            /\ job' = [job EXCEPT ![r].pc = "CASES",
                                  ![r].found = IF job[r].kind \in lost THEN "FAILED" ELSE "NONE"]
    /\ UNCHANGED <<claimed, recovery, begun, sent, receipt>>

(* A claimed case whose attempts all have a fact cannot be continued: one  *)
(* such case of every live run is closed, and its run.                     *)
RecoverIncompleteCases(r) ==
    /\ At(r, "CASES")
    /\ \E skipped \in SUBSET Locked(r) :
        LET open == {c \in claimed :
                        /\ outcome[c] = "NONE"
                        /\ IsLive(KindOf(c))
                        /\ "NONE" \notin FactsOf(c)
                        /\ KindOf(c) \notin skipped}
            verdict(c) == IF BegunStages(c) = {} THEN "BLOCKED" ELSE "FAILED"
        IN  \E first \in SUBSET open :
            /\ {KindOf(c) : c \in first} = {KindOf(c) : c \in open}
            /\ \A c, d \in first : KindOf(c) = KindOf(d) => c = d
            /\ recovery' = [c \in Cases |-> IF c \in first THEN verdict(c) ELSE recovery[c]]
            /\ outcome' = [c \in Cases |-> IF c \in first THEN verdict(c) ELSE outcome[c]]
            /\ run' = [k \in Kinds |->
                  IF \E c \in first : KindOf(c) = k
                  THEN verdict(CHOOSE c \in first : KindOf(c) = k) ELSE run[k]]
            /\ LET found == {verdict(c) : c \in {d \in first : KindOf(d) = job[r].kind}}
                             \cup ({job[r].found} \ {"NONE"})
               IN  IF found = {} THEN Goto(r, "RUN")
                   ELSE Finish(r, IF job[r].found # "NONE" THEN job[r].found
                                  ELSE CHOOSE v \in found : TRUE)
    /\ UNCHANGED <<claimed, attempts>>

(* The formal run needs a calibration that passed; a run that has ended is *)
(* not opened again.                                                       *)
MayBeginRun(k) ==
    /\ k = "FORMAL" => run["CALIBRATION"] = "PASS"
    /\ run[k] \in {"NONE", "OPEN"}

BeginRun(r) ==
    /\ At(r, "RUN")
    /\ LET k == job[r].kind
       IN  \/ /\ MayBeginRun(k)
              /\ run' = [run EXCEPT ![k] = "OPEN"]
              /\ Goto(r, "CLAIM")
           \/ /\ ~MayBeginRun(k)
              /\ Finish(r, "BLOCKED")
              /\ UNCHANGED run
    /\ UNCHANGED <<cases, attempts>>

(* The claim of another runner is returned as if it were one's own.        *)
ClaimCase(r) ==
    /\ At(r, "CLAIM")
    /\ IsLive(job[r].kind)
    /\ outcome[CaseOf(r)] = "NONE"
    /\ claimed' = claimed \cup {CaseOf(r)}
    /\ job' = [job EXCEPT ![r].pc = "BEGIN", ![r].stage = "ANALYST"]
    /\ UNCHANGED <<run, outcome, recovery, attempts>>

(* When the claim is refused the runner closes the run as BLOCKED, which   *)
(* the trigger refuses unless a case of the run is BLOCKED.                *)
RefuseClaim(r) ==
    /\ At(r, "CLAIM")
    /\ ~IsLive(job[r].kind) \/ outcome[CaseOf(r)] # "NONE"
    /\ IF RunMayEnd(job[r].kind, "BLOCKED")
       THEN /\ run' = [run EXCEPT ![job[r].kind] = "BLOCKED"]
            /\ Finish(r, "BLOCKED")
       ELSE Finish(r, "ERROR") /\ UNCHANGED run
    /\ UNCHANGED <<cases, attempts>>

MayBegin(a) ==
    /\ IsLive(KindOf(a[1]))
    /\ a[1] \in claimed
    /\ a \notin begun
    /\ a[2] = "PLANNER" => Passed(<<a[1], "ANALYST">>)
    /\ Cardinality(begun) < CampaignBudget

(* The bounded runner reserves its call by writing the attempt.            *)
BeginDispatch(r) ==
    /\ At(r, "BEGIN")
    /\ MayBegin(AttemptOf(r))
    /\ begun' = begun \cup {AttemptOf(r)}
    /\ Goto(r, "SEND")
    /\ UNCHANGED <<run, cases, sent, receipt, fact>>

(* begin_dispatch refuses, or the bounded runner stops before it.          *)
StopBeforeSend(r) ==
    /\ At(r, "BEGIN")
    /\ CloseAs(r, "BLOCKED")
    /\ UNCHANGED <<run, cases, attempts>>

SendRequest(r) ==
    /\ At(r, "SEND")
    /\ sent' = [sent EXCEPT ![AttemptOf(r)] = @ + 1]
    /\ Goto(r, "AWAIT")
    /\ UNCHANGED <<run, cases, begun, receipt, fact>>

AppendReceipt(r) ==
    /\ At(r, "AWAIT")
    /\ receipt[AttemptOf(r)] = "NONE"
    /\ \E shape \in {"COMPLETE", "INCOMPLETE"} : receipt' = [receipt EXCEPT ![AttemptOf(r)] = shape]
    /\ Goto(r, "JUDGE")
    /\ UNCHANGED <<run, cases, begun, sent, fact>>

(* One fact for an attempt; PASS needs a complete receipt and BLOCKED none.*)
MayRecord(a, v) ==
    /\ fact[a] = "NONE"
    /\ v = "PASS" => receipt[a] = "COMPLETE"
    /\ v = "BLOCKED" => receipt[a] = "NONE"

(* BLOCKED before the request, FAILED without an answer or with an answer  *)
(* that does not validate; after a PASS of the analyst comes the planner.  *)
AppendValidation(r) ==
    \E v \in Verdicts :
        /\ v = "BLOCKED" <=> At(r, "SEND")
        /\ v = "FAILED" => At(r, "AWAIT") \/ At(r, "JUDGE")
        /\ v = "PASS" => At(r, "JUDGE")
        /\ MayRecord(AttemptOf(r), v)
        /\ fact' = [fact EXCEPT ![AttemptOf(r)] = v]
        /\ IF v = "PASS" /\ job[r].stage = "ANALYST"
           THEN job' = [job EXCEPT ![r].pc = "BEGIN", ![r].stage = "PLANNER"]
           ELSE CloseAs(r, v)
        /\ UNCHANGED <<run, cases, begun, sent, receipt>>


CloseCase(r) ==
    /\ At(r, "CLOSE")
    /\ IF outcome[CaseOf(r)] = "NONE" /\ CaseMayEnd(CaseOf(r), job[r].verdict)
       THEN /\ outcome' = [outcome EXCEPT ![CaseOf(r)] = job[r].verdict]
            /\ job' = [job EXCEPT
                  ![r].pc = IF job[r].at = Len(Slots(job[r].kind)) THEN "END" ELSE "CLAIM",
                  ![r].at = @ + 1,
                  ![r].seen = @ \cup {job[r].verdict}]
       ELSE Finish(r, "ERROR") /\ UNCHANGED outcome
    /\ UNCHANGED <<run, claimed, recovery, attempts>>

CloseRun(r) ==
    /\ At(r, "END")
    /\ LET v == VerdictOf(job[r].seen)
       IN  IF RunMayEnd(job[r].kind, v)
           THEN run' = [run EXCEPT ![job[r].kind] = v] /\ Finish(r, v)
           ELSE Finish(r, "ERROR") /\ UNCHANGED run
    /\ UNCHANGED <<cases, attempts>>

(* The process stops, or another call of the ledger raises.                *)
Crash(r) ==
    /\ ~At(r, "IDLE")
    /\ Finish(r, "NONE")
    /\ UNCHANGED <<run, cases, attempts>>

Next == \E r \in Runners :
    \/ \E k \in Kinds : Start(r, k)
    \/ RecoverOpenAttempts(r) \/ RecoverIncompleteCases(r)
    \/ BeginRun(r) \/ ClaimCase(r) \/ RefuseClaim(r)
    \/ BeginDispatch(r) \/ StopBeforeSend(r) \/ SendRequest(r)
    \/ AppendReceipt(r) \/ AppendValidation(r)
    \/ CloseCase(r) \/ CloseRun(r) \/ Crash(r)

Spec == Init /\ [][Next]_vars

-----------------------------------------------------------------------------
(* The rows of the ledger and the memory of the runners keep their types.  *)
TypeOK ==
    /\ run \in [Kinds -> {"NONE", "OPEN"} \cup Verdicts]
    /\ claimed \subseteq Cases
    /\ begun \subseteq Attempts
    /\ sent \in [Attempts -> Nat]
    /\ receipt \in [Attempts -> {"NONE", "COMPLETE", "INCOMPLETE"}]
    /\ fact \in [Attempts -> {"NONE"} \cup Verdicts]
    /\ outcome \in [Cases -> {"NONE"} \cup Verdicts]
    /\ recovery \in [Cases -> {"NONE", "FAILED", "BLOCKED"}]
    /\ job \in [Runners -> JobRecord]

(* A run that passed rests on two answered requests of each of its cases,  *)
(* the formal run on a calibration that did the same, and a case that is   *)
(* BLOCKED never hides a planner's request (close_run, begin_run and the   *)
(* recoveries).                                                            *)
OutcomesAreTrue ==
    /\ \A k \in Kinds : run[k] = "PASS" =>
        \A c \in CasesOf(k), s \in Stages : sent[<<c, s>>] = 1 /\ Passed(<<c, s>>)
    /\ \A c \in CasesOf("FORMAL") : c \in claimed => run["CALIBRATION"] = "PASS"
    /\ \A c \in Cases : outcome[c] = "BLOCKED" =>
        /\ sent[<<c, "PLANNER">>] = 0
        /\ sent[<<c, "ANALYST">>] = 1 => Passed(<<c, "ANALYST">>)

(* Recovery relies on a live run having at most one attempt without a fact,*)
(* also when two runners execute it side by side (recover_open_attempts).  *)
OneOpenAttempt ==
    \A a, b \in begun :
        /\ fact[a] = "NONE" /\ fact[b] = "NONE"
        /\ KindOf(a[1]) = KindOf(b[1])
        /\ IsLive(KindOf(a[1]))
        => a = b

(* execute() says that a refused claim closes the run at once, because the *)
(* state of the ledger is unknown then.                                    *)
RefusedClaimClosesRun ==
    [][\A r \in Runners : RefuseClaim(r) => run'[job[r].kind] # "OPEN"]_vars

CallsOnce == INSTANCE CallOnce WITH
    Calls <- Attempts,
    reserved <- begun,
    answer <- [a \in Attempts |->
                CASE fact[a] = "NONE" -> "OPEN"
                  [] fact[a] = "PASS" -> "OK"
                  [] fact[a] = "BLOCKED" -> "UNSENT"
                  [] OTHER -> "LOST"]

(* No attempt is sent twice or after it was declared unsent, whatever      *)
(* recoveries and runners do beside each other (begin_dispatch).           *)
CallsAreMadeOnce == CallsOnce!Spec
=============================================================================
