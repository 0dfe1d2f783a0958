----------------------------- MODULE Escalation -----------------------------
(***************************************************************************)
(* One high conflict of a live session, from the EvidenceBundle to the     *)
(* operator's command: the workspace store (decision_support/store.py, the *)
(* PostgreSQL one with its triggers), the coordinator that asks an Analyst *)
(* and then a Planner (multi_agent.py), and the decision on the Planner's  *)
(* proposal (decision_support_service.py, commands.py, sold_out_flow.py).  *)
(*                                                                         *)
(* The store locks the workspace row in every operation, so an operation   *)
(* is one step.  A fact that is appended names the version of the          *)
(* workspace it was built from and raises it; claims and leases do not.    *)
(* Facts about anything else, which only raise the version, are left out.  *)
(***************************************************************************)
EXTENDS Naturals

CONSTANTS
    Runners,       \* processes that run the coordinator or serve a decision
    Operators,
    NoOne,
    Window,        \* how long a dispatch claim lasts (2 s)
    Deadline,      \* of a run of the coordinator (5 s)
    LeaseTime,     \* of an operator's lease
    ValidUntil,    \* when the evidence goes stale
    MaxClock, MaxToken  \* bounds of the model

VARIABLES
    store,         \* the workspace and its facts
    sent,          \* sent[s]: how often the model was asked at stage s
    job,           \* job[r]: what runner r is doing
    clock

vars == <<store, sent, job, clock>>

Stages == {"ANALYST", "PLANNER"}
Kinds == {"APPROVE", "REJECT"}

(* claim[s] is the end of the claim of stage s, 0 before there is one; an  *)
(* outcome DEGRADED names its analysis, UNLINKED has none.                 *)
Stores == [view : {"LIVE", "REVIEW"}, version : Nat,
           holder : Operators \cup {NoOne}, token : 0..MaxToken, until : Nat,
           escalation : {"NONE", "AUTOMATIC", "OPERATOR_REQUESTED"},
           claim : [Stages -> Nat], analysis : BOOLEAN, proposal : BOOLEAN,
           outcome : {"NONE", "READY", "DEGRADED", "UNLINKED"},
           decision : Kinds \cup {"NONE"}, decided : 0..MaxToken,
           command : BOOLEAN, planned : BOOLEAN]

Idle == [pc |-> "IDLE", operator |-> NoOne, token |-> 0, version |-> 0,
         deadline |-> 0, stage |-> "ANALYST", code |-> "COORDINATOR_TIMEOUT",
         allow |-> FALSE, again |-> FALSE, kind |-> "REJECT"]
Jobs == [pc : {"IDLE", "ESCALATE", "RECOVER", "CLAIM", "SEND", "AWAIT", "RECORD", "READY",
               "CLOSE", "CLOSING", "DECIDE", "COMMAND", "PLAN"},
         operator : Operators \cup {NoOne}, token : 0..MaxToken, version : Nat,
         deadline : Nat, stage : Stages, code : {"COORDINATOR_TIMEOUT", "OTHER"},
         allow : BOOLEAN, again : BOOLEAN, kind : Kinds]

Live == store.view = "LIVE"
Closed == store.outcome # "NONE"

-----------------------------------------------------------------------------
(* The operator's lease: a token is never given twice.                     *)

MayAcquire(o) ==
    \/ store.holder = o /\ clock < store.until
    \/ clock >= store.until /\ store.token < MaxToken

Acquired(o) ==
    IF store.holder = o /\ clock < store.until THEN store
    ELSE [store EXCEPT !.holder = o, !.token = @ + 1, !.until = clock + LeaseTime]

HoldsLease(o, token) == store.holder = o /\ store.token = token /\ clock < store.until

(* The lease the operator behind job r had is still the lease.             *)
Fenced(r) == HoldsLease(job[r].operator, job[r].token)

Renewed == [store EXCEPT !.until = clock + LeaseTime]
Released == [store EXCEPT !.holder = NoOne, !.until = 0]

RenewLock(o) ==
    /\ HoldsLease(o, store.token)
    /\ store.until < clock + LeaseTime
    /\ store' = Renewed
    /\ UNCHANGED <<sent, job, clock>>

ReleaseLock(o) ==
    /\ HoldsLease(o, store.token)
    /\ store' = Released
    /\ UNCHANGED <<sent, job, clock>>

(* Mutant of MayLeaveLive: only the Planner's claim is looked at.          *)
MayLeaveLivePlanned == clock >= store.claim["PLANNER"]
MayLeaveLive == \A s \in Stages : clock >= store.claim[s]

(* A fact that is appended and a view that changes raise the version.      *)
Appended(record) == [record EXCEPT !.version = @ + 1]
InReview(record) == [Appended(record) EXCEPT !.view = "REVIEW"]

AdvanceView(o) ==
    /\ MayAcquire(o) /\ Live /\ MayLeaveLive
    /\ store' = InReview(Acquired(o))
    /\ UNCHANGED <<sent, job, clock>>

-----------------------------------------------------------------------------
(* The coordinator: _coordinate, from its entry to its return.             *)

At(r, pc) == job[r].pc = pc
Stop(r) == job' = [job EXCEPT ![r] = Idle]
Late(r) == clock >= job[r].deadline
Current(r) == job[r].version = store.version
Expiry(r) ==
    LET end == store.claim[job[r].stage] IN
    IF end < job[r].deadline THEN end ELSE job[r].deadline

Goto(r, pc, stage, version) ==
    job' = [job EXCEPT ![r].pc = pc, ![r].stage = stage, ![r].version = version]
Degrade(r, stage, code, allow) ==
    job' = [job EXCEPT ![r] = [Idle EXCEPT
        !.pc = "CLOSE", !.stage = stage, !.code = code, !.allow = allow, !.again = TRUE]]

Begin(r, operator, token) ==
    job' = [job EXCEPT ![r] = [Idle EXCEPT
        !.pc = "ESCALATE", !.operator = operator, !.token = token,
        !.version = store.version, !.deadline = clock + Deadline]]

Resume(r, version) ==
    job' = [job EXCEPT ![r] = [Idle EXCEPT
        !.pc = "RECOVER", !.version = version, !.deadline = job[r].deadline]]

(* run_automatic leaves an escalation an operator asked for alone.         *)
RunAutomatic(r) ==
    /\ At(r, "IDLE")
    /\ \/ store.escalation = "AUTOMATIC"
       \/ store.escalation = "NONE" /\ Live /\ clock < ValidUntil
    /\ Begin(r, NoOne, 0)
    /\ UNCHANGED <<store, sent, clock>>

(* run_operator_requested does nothing with stale evidence.                *)
BeginRequested(r, operator, token) ==
    IF store.escalation # "NONE" \/ clock < ValidUntil
    THEN Begin(r, operator, token) ELSE UNCHANGED job

(* request_multi_agent_escalation: the lease stays in any case.            *)
RunRequested(r, o) ==
    /\ At(r, "IDLE")
    /\ \/ store.escalation = "OPERATOR_REQUESTED"
       \/ store.escalation = "NONE" /\ Live
    /\ MayAcquire(o)
    /\ store' = Acquired(o)
    /\ BeginRequested(r, o, store'.token)
    /\ UNCHANGED <<sent, clock>>

MayEscalate(r) ==
    /\ store.escalation = "NONE" /\ Live /\ clock < ValidUntil /\ Current(r)
    /\ job[r].operator # NoOne => Fenced(r)

Escalated(r) ==
    [Appended(store) EXCEPT !.escalation =
        IF job[r].operator = NoOne THEN "AUTOMATIC" ELSE "OPERATOR_REQUESTED"]

Escalate(r) ==
    /\ At(r, "ESCALATE")
    /\ \/ /\ store.escalation # "NONE"
          /\ Resume(r, store.version)
          /\ UNCHANGED store
       \/ /\ MayEscalate(r)
          /\ store' = Escalated(r)
          /\ Resume(r, store'.version)
       \/ /\ store.escalation = "NONE" /\ ~MayEscalate(r)
          /\ Stop(r)
          /\ UNCHANGED store
    /\ UNCHANGED <<sent, clock>>

(* _recover_existing, and what follows from what it finds.                 *)
Recover(r) ==
    /\ At(r, "RECOVER")
    /\ \/ Closed /\ Stop(r)
       \/ /\ ~Closed /\ store.proposal
          /\ IF Live THEN Goto(r, "READY", "PLANNER", store.version)
             ELSE Degrade(r, "PLANNER", "COORDINATOR_TIMEOUT", TRUE)
       \/ /\ ~Closed /\ store.analysis /\ ~store.proposal
          /\ IF Live THEN Goto(r, "CLAIM", "PLANNER", store.version)
             ELSE IF store.claim["PLANNER"] # 0
                  THEN Degrade(r, "PLANNER", "COORDINATOR_TIMEOUT", TRUE)
                  ELSE Stop(r)
       \/ /\ ~Closed /\ ~store.analysis
          /\ IF ~Live THEN Stop(r)
             ELSE IF Late(r) THEN Degrade(r, "ANALYST", "COORDINATOR_TIMEOUT", FALSE)
                  ELSE Goto(r, "CLAIM", "ANALYST", job[r].version)
    /\ UNCHANGED <<store, sent, clock>>

(* The evidence stays valid until the model must have answered.            *)
CoversWindow == Live /\ clock + Window < ValidUntil

(* Mutant of MayClaim: the claim of another coordinator is not looked at.  *)
MayClaimAgain(s) == CoversWindow

MayClaim(s) == store.claim[s] = 0 /\ CoversWindow
Claimed(s) == [store EXCEPT !.claim[s] = clock + Window]
IsActive(s) == clock < store.claim[s]

(* A claim that another coordinator holds is waited for; what became of an *)
(* expired one is unknown.                                                 *)
TakeClaim(r, s) ==
    \/ MayClaim(s) /\ store' = Claimed(s) /\ Goto(r, "SEND", s, job[r].version)
    \/ /\ store.claim[s] # 0 /\ ~MayClaim(s)
       /\ IF IsActive(s) THEN Stop(r)
          ELSE Degrade(r, s, "COORDINATOR_TIMEOUT", s = "PLANNER")
       /\ UNCHANGED store

ClaimAnalyst(r) ==
    /\ At(r, "CLAIM") /\ job[r].stage = "ANALYST"
    /\ \/ TakeClaim(r, "ANALYST")
       \/ /\ store.claim["ANALYST"] = 0 /\ ~MayClaim("ANALYST")
          /\ Degrade(r, "ANALYST", "OTHER", FALSE)
          /\ UNCHANGED store
    /\ UNCHANGED <<sent, clock>>

ClaimPlanner(r) ==
    /\ At(r, "CLAIM") /\ job[r].stage = "PLANNER"
    /\ \/ ~Live /\ Stop(r) /\ UNCHANGED store
       \/ /\ Live /\ Late(r)
          /\ Degrade(r, "PLANNER", "COORDINATOR_TIMEOUT", FALSE)
          /\ UNCHANGED store
       \/ Live /\ ~Late(r) /\ TakeClaim(r, "PLANNER")
       \/ /\ Live /\ ~Late(r) /\ store.claim["PLANNER"] = 0 /\ ~MayClaim("PLANNER")
          /\ Stop(r)
          /\ UNCHANGED store
    /\ UNCHANGED <<sent, clock>>

(* Nothing is sent when the window is over.                                *)
Send(r) ==
    LET s == job[r].stage IN
    /\ At(r, "SEND")
    /\ IF clock < Expiry(r)
       THEN sent' = [sent EXCEPT ![s] = @ + 1] /\ Goto(r, "AWAIT", s, job[r].version)
       ELSE Degrade(r, s, "COORDINATOR_TIMEOUT", FALSE) /\ UNCHANGED sent
    /\ UNCHANGED <<store, clock>>

(* An answer that comes in time is validated; one that is no good and one  *)
(* that comes past the deadline of the run close the escalation.           *)
Answer(r) ==
    LET s == job[r].stage IN
    /\ At(r, "AWAIT")
    /\ \/ ~Late(r) /\ Goto(r, "RECORD", s, job[r].version)
       \/ Degrade(r, s, IF Late(r) THEN "COORDINATOR_TIMEOUT" ELSE "OTHER", FALSE)
    /\ UNCHANGED <<store, sent, clock>>

(* asyncio.TimeoutError: of the Planner only that of the whole run may     *)
(* still be closed in REVIEW.                                              *)
NoAnswer(r) ==
    LET s == job[r].stage IN
    /\ At(r, "AWAIT") /\ clock >= Expiry(r)
    /\ IF s = "ANALYST" THEN Degrade(r, s, "COORDINATOR_TIMEOUT", FALSE)
       ELSE Degrade(r, s, IF Late(r) THEN "COORDINATOR_TIMEOUT" ELSE "OTHER", Late(r))
    /\ UNCHANGED <<store, sent, clock>>

(* The generic handler: what the store has is returned.                    *)
Unwind(r) ==
    IF store.analysis \/ Closed THEN Stop(r)
    ELSE Degrade(r, job[r].stage, "OTHER", FALSE)

RunnerFails(r) ==
    /\ At(r, "AWAIT") /\ Unwind(r)
    /\ UNCHANGED <<store, sent, clock>>

MayAnalyse(r) == Current(r) /\ ~store.analysis /\ ~Closed

AppendConflictAnalysis(r) ==
    /\ At(r, "RECORD") /\ job[r].stage = "ANALYST"
    /\ IF Live /\ MayAnalyse(r)
       THEN /\ store' = [Appended(store) EXCEPT !.analysis = TRUE]
            /\ Goto(r, "CLAIM", "PLANNER", store'.version)
       ELSE Unwind(r) /\ UNCHANGED store
    /\ UNCHANGED <<sent, clock>>

(* The proposal has its analysis, and is the first of its line.            *)
ContinuesLineage == store.analysis /\ ~store.proposal

(* Mutant of MayPropose: the version is not compared.                      *)
MayProposeStale(r) == Live /\ clock < ValidUntil /\ ContinuesLineage

(* That the escalation is closed already shows in the version only.        *)
MayPropose(r) == Live /\ clock < ValidUntil /\ ContinuesLineage /\ Current(r)

AppendProposal(r) ==
    /\ At(r, "RECORD") /\ job[r].stage = "PLANNER"
    /\ IF MayPropose(r)
       THEN /\ store' = [Appended(store) EXCEPT !.proposal = TRUE]
            /\ Goto(r, "READY", "PLANNER", store'.version)
       ELSE Unwind(r) /\ UNCHANGED store
    /\ UNCHANGED <<sent, clock>>

AppendReadyOutcome(r) ==
    /\ At(r, "READY")
    /\ \/ /\ Late(r)
          /\ Degrade(r, "PLANNER", "COORDINATOR_TIMEOUT", FALSE)
          /\ UNCHANGED store
       \/ /\ ~Late(r)
          /\ IF Live /\ Current(r) /\ ~Closed
             THEN store' = [Appended(store) EXCEPT !.outcome = "READY"]
             ELSE UNCHANGED store
          /\ Stop(r)
    /\ UNCHANGED <<sent, clock>>

(* _persist_degraded: it reads the workspace and tries once more if that   *)
(* has changed when the outcome is appended.                               *)
PersistDegraded(r) ==
    /\ At(r, "CLOSE")
    /\ IF Closed \/ (~Live /\ job[r].stage = "PLANNER" /\ ~job[r].allow)
       THEN Stop(r)
       ELSE Goto(r, "CLOSING", job[r].stage, store.version)
    /\ UNCHANGED <<store, sent, clock>>

(* Mutant of MayDegrade: in REVIEW any claim will do.                      *)
MayDegradeByClaim(r) ==
    /\ Current(r) /\ ~Closed
    /\ IF Live THEN job[r].stage = "PLANNER" \/ ~store.analysis
       ELSE \E s \in Stages : store.claim[s] # 0

(* In REVIEW an outcome only tells that a request was sent and that its    *)
(* answer is unknown.                                                      *)
MayCloseInReview(r) ==
    /\ job[r].code = "COORDINATOR_TIMEOUT"
    /\ \/ store.claim["PLANNER"] # 0
       \/ ~store.analysis /\ store.claim["ANALYST"] # 0

MayDegrade(r) ==
    /\ Current(r) /\ ~Closed
    /\ IF Live THEN job[r].stage = "PLANNER" \/ ~store.analysis ELSE MayCloseInReview(r)

AppendDegradedOutcome(r) ==
    /\ At(r, "CLOSING")
    /\ IF MayDegrade(r)
       THEN /\ store' = [Appended(store) EXCEPT !.outcome =
                    IF Live /\ job[r].stage = "PLANNER" THEN "DEGRADED" ELSE "UNLINKED"]
            /\ Stop(r)
       ELSE /\ IF Closed \/ ~job[r].again THEN Stop(r)
               ELSE job' = [job EXCEPT ![r].pc = "CLOSE", ![r].again = FALSE]
            /\ UNCHANGED store
    /\ UNCHANGED <<sent, clock>>

-----------------------------------------------------------------------------
(* The operator's decision on the proposal.                                *)

(* Mutant of MayCompile: the proposal's own status READY will do.          *)
MayCompileProposal(kind) == store.proposal

MayCompile(kind) == store.proposal /\ (kind = "APPROVE" => store.outcome = "READY")

(* The compiled decision goes to the recovery, a draft that does not       *)
(* compile nowhere.                                                        *)
Compile(r, operator, token, kind) ==
    IF MayCompile(kind)
    THEN job' = [job EXCEPT ![r] = [Idle EXCEPT
            !.pc = "DECIDE", !.operator = operator, !.token = token,
            !.version = store.version, !.kind = kind]]
    ELSE UNCHANGED job

(* submit_decision up to the compiled commands.  The lease stays when the  *)
(* draft does not compile.                                                 *)
SubmitDecision(r, o, kind) ==
    /\ At(r, "IDLE") /\ store.proposal /\ MayAcquire(o)
    /\ store' = Acquired(o)
    /\ Compile(r, o, store'.token, kind)
    /\ UNCHANGED <<sent, clock>>

MayDecide(r) == Current(r) /\ store.decision = "NONE" /\ Fenced(r)

AppendOperatorDecision(r) ==
    /\ At(r, "DECIDE")
    /\ IF Live /\ MayDecide(r)
       THEN /\ store' = [Appended(store) EXCEPT !.decision = job[r].kind,
                                                !.decided = job[r].token]
            /\ IF job[r].kind = "REJECT" THEN Stop(r)
               ELSE Goto(r, "COMMAND", "PLANNER", store'.version)
       ELSE Stop(r) /\ UNCHANGED store
    /\ UNCHANGED <<sent, clock>>

(* A command belongs to the lease in which was decided.                    *)
MayCommand(r) == Current(r) /\ Fenced(r) /\ store.decided = job[r].token

AppendExecutionCommand(r) ==
    /\ At(r, "COMMAND")
    /\ IF MayCommand(r)
       THEN /\ store' = [Appended(store) EXCEPT !.command = TRUE]
            /\ Goto(r, "PLAN", "PLANNER", store'.version)
       ELSE Stop(r) /\ UNCHANGED store
    /\ UNCHANGED <<sent, clock>>

(* The PlanCommand goes to the plan store.                                 *)
SubmitPlanCommand(r) ==
    /\ At(r, "PLAN")
    /\ store' = [store EXCEPT !.planned = TRUE]
    /\ Stop(r)
    /\ UNCHANGED <<sent, clock>>

Crash(r) ==
    /\ ~At(r, "IDLE") /\ Stop(r)
    /\ UNCHANGED <<store, sent, clock>>

Tick == clock < MaxClock /\ clock' = clock + 1 /\ UNCHANGED <<store, sent, job>>

-----------------------------------------------------------------------------
Init ==
    /\ store = [view |-> "LIVE", version |-> 1, holder |-> NoOne,
                token |-> 0, until |-> 0, escalation |-> "NONE",
                claim |-> [s \in Stages |-> 0], analysis |-> FALSE, proposal |-> FALSE,
                outcome |-> "NONE", decision |-> "NONE", decided |-> 0,
                command |-> FALSE, planned |-> FALSE]
    /\ sent = [s \in Stages |-> 0]
    /\ job = [r \in Runners |-> Idle]
    /\ clock = 0

Next ==
    \/ \E r \in Runners :
          \/ RunAutomatic(r) \/ Escalate(r) \/ Recover(r) \/ Send(r)
          \/ ClaimAnalyst(r) \/ ClaimPlanner(r)
          \/ Answer(r) \/ NoAnswer(r) \/ RunnerFails(r)
          \/ AppendConflictAnalysis(r) \/ AppendProposal(r) \/ AppendReadyOutcome(r)
          \/ PersistDegraded(r) \/ AppendDegradedOutcome(r)
          \/ AppendOperatorDecision(r) \/ AppendExecutionCommand(r)
          \/ SubmitPlanCommand(r) \/ Crash(r)
          \/ \E o \in Operators :
                RunRequested(r, o) \/ \E kind \in Kinds : SubmitDecision(r, o, kind)
    \/ \E o \in Operators : RenewLock(o) \/ ReleaseLock(o) \/ AdvanceView(o)
    \/ Tick

Spec == Init /\ [][Next]_vars

-----------------------------------------------------------------------------
(* The store, the calls and the memory of the processes keep their types.  *)
TypeOK ==
    /\ store \in Stores
    /\ sent \in [Stages -> Nat]
    /\ job \in [Runners -> Jobs]
    /\ clock \in 0..MaxClock

(* While a model works on a request in the window of its claim, the        *)
(* session is live and the evidence valid: an operator who ends the live   *)
(* session and a coordinator that dispatches exclude each other            *)
(* (advance_view against claim_analyst_dispatch, claim_planner_dispatch).  *)
CallsStayLive ==
    \A r \in Runners :
        At(r, "AWAIT") /\ clock < store.claim[job[r].stage] => Live /\ clock < ValidUntil

(* What the outcome of an escalation says of its two calls is true: READY  *)
(* rests on one call of each; a degraded one that names no analysis beside *)
(* one was written in REVIEW for a Planner whose answer is unknown         *)
(* (append_multi_agent_outcome).                                           *)
OutcomesAreTrue ==
    /\ store.outcome = "READY" =>
          store.analysis /\ store.proposal /\ \A s \in Stages : sent[s] = 1
    /\ store.outcome = "UNLINKED" /\ store.analysis => ~Live /\ store.claim["PLANNER"] # 0
    /\ store.outcome = "DEGRADED" => store.analysis

(* A command that reached the store or the plan stands on the approval of  *)
(* a proposal whose escalation ended READY, in whatever order outcome,     *)
(* decision and leases of operators came (MayCompile: D-152).              *)
CommandsAreBacked ==
    /\ store.planned => store.command
    /\ store.command => store.decision = "APPROVE"
    /\ store.decision = "APPROVE" => store.outcome = "READY"

(* The refinement: the Analyst and the Planner are each asked at most once *)
(* for an escalation, and a call given up for lost never turns up as an    *)
(* analysis or a proposal.  Neither claim asks whether the escalation is   *)
(* closed: a call may still be claimed and paid for afterwards, and is     *)
(* lost when its runner stops waiting.                                     *)
Awaited(s) == \E r \in Runners : job[r].pc \in {"SEND", "AWAIT"} /\ job[r].stage = s
Answered(s) == IF s = "ANALYST" THEN store.analysis ELSE store.proposal
CallsOnce == INSTANCE CallOnce WITH
    Calls <- Stages,
    reserved <- {s \in Stages : store.claim[s] # 0},
    answer <- [s \in Stages |->
                IF Answered(s) THEN "OK"
                ELSE IF store.claim[s] # 0 /\ Closed /\ ~Awaited(s) THEN "LOST" ELSE "OPEN"]
CallsAreMadeOnce == CallsOnce!Spec
=============================================================================
