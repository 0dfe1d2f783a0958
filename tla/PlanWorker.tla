----------------------------- MODULE PlanWorker -----------------------------
(* PlanWorker (worker.py) with its failure policy (failure_policy.py), the
   executor and the Attempt Store of the Skill runtime (skill_runtime/executor.py,
   attempt_store.py), the platform behind the Skill that marks a product sold out
   (fake_platform.py) and the reconciler of its unknown outcomes
   (side_effect_reconciliation.py), on one PlanStore.

   A claim is executed by a coroutine: it records the input, checks the deadline,
   reserves the write in the Attempt Store, calls the handler, closes the attempt
   and reports the node.  Each of these is a transaction of its own; between them
   the process may stop, be cancelled, or stay away until its lease has run out.
   A call of run_once that claims several nodes is several workers here. *)
EXTENDS Integers, Sequences, FiniteSets

CONSTANTS
    Workers,
    Plans, CardBatch, Keys, KeysOf, DependsOn, RootKeys, ResourceKeys,
    ReadKeys,     \* nodes that run generate_product_card
    WriteKeys,    \* nodes that run handle_sold_out_event
    Lease,
    Deadline,     \* the deadline_at the workers are called with
    MaxReadAttempts,  \* attempts of a read (the code's constant 3)
    RetryDelays,  \* back-off, or what the platform asks for
    MaxClock, MaxRuns,  \* bounds of the model
    None

VARIABLES
    clock, planRun, version, node, runs, command, ledger,  \* the PlanStore
    attempt,   \* attempt[n]: the Attempt of write node n (its idempotency key)
    sent,      \* sent[n]: how often the platform carried out the write of n
    verified,  \* the sold-out event is VERIFIED or PROCESSING in its inbox
    job,       \* job[w]: the claim worker w executes
    lost       \* a claim ended with its worker, not with a result

store == <<planRun, version, node, runs, command, ledger>>
vars  == <<clock, store, attempt, sent, verified, job, lost>>

P == INSTANCE PlanStore WITH
        MaxVersion <- 1, Events <- {}, Signatures <- {}, Fingerprints <- {"input"},
        CommandIds <- {}, ClaimLimit <- 1, ApprovalTTL <- 0, ReconcileTTL <- 0,
        ResultStates <- {"SUCCEEDED", "FAILED", "WAITING_RECONCILIATION"},
        ClockLag <- 0

\* What PlanStore assumes of plans and bounds; a node runs one Skill.
ASSUME PlansAssumption ==
    /\ CardBatch \subseteq Plans
    /\ KeysOf \in [Plans -> SUBSET Keys] /\ DependsOn \in [Keys -> SUBSET Keys]
    /\ \A p \in Plans : \A k \in KeysOf[p] : DependsOn[k] \subseteq KeysOf[p]
    /\ RootKeys \subseteq Keys /\ \A k \in RootKeys : DependsOn[k] = {}
    /\ DOMAIN ResourceKeys = Plans /\ \A p \in Plans : DOMAIN ResourceKeys[p] = Keys

ASSUME SkillsAssumption == ReadKeys \cap WriteKeys = {}

ASSUME LimitsAssumption ==
    /\ Lease \in Nat \ {0} /\ RetryDelays \subseteq Nat
    /\ MaxClock \in Nat /\ MaxRuns \in Nat \ {0}

ASSUME NothingAssumption == None \notin Int \cup {"input"} \cup P!Node

WriteNodes == {n \in P!Node : n[3] \in WriteKeys}

\* FAILED splits by what the failure says of the side effect.
AttemptState == {"NONE", "INTENT_RECORDED", "SUCCEEDED", "NOT_SENT", "FAILED",
                 "SIDE_EFFECT_UNKNOWN"}

Steps == {"idle", "materialize", "dispatch", "reserve", "call", "handler", "written", "report"}
Outcomes == {"NONE", "SUCCEEDED", "FAILED", "WAITING_RECONCILIATION", "TRANSIENT"}
JobRecord == [pc : Steps, node : P!Node \cup {None}, run : 0..MaxRuns, outcome : Outcomes]
Idle == [pc |-> "idle", node |-> None, run |-> 0, outcome |-> "NONE"]

At(w, pc)      == job[w].pc = pc
NodeOf(w)      == job[w].node
KeyOf(w)       == NodeOf(w)[3]
Goto(w, pc)    == job' = [job EXCEPT ![w].pc = pc]
Report(w, o)   == job' = [job EXCEPT ![w].pc = "report", ![w].outcome = o]
HoldsClaim(w)  == P!HoldsClaim(NodeOf(w), job[w].run, clock)
InTime         == clock < Deadline

Close(w, s)    == attempt' = [attempt EXCEPT ![NodeOf(w)] = s]
NoStore        == UNCHANGED <<clock, store>>
NoPlatform     == UNCHANGED <<sent, verified, lost>>

-----------------------------------------------------------------------------
(* Claims. *)

\* The node of a new run is executed by the worker that made the call.
Started(w) ==
    LET taken == {n \in P!Node : Len(runs'[n]) > Len(runs[n])} IN
    job' = IF taken = {} THEN job
           ELSE [job EXCEPT ![w] = [pc |-> "materialize", node |-> CHOOSE n \in taken : TRUE,
                                    run |-> Len(runs'[CHOOSE n \in taken : TRUE]),
                                    outcome |-> "NONE"]]

RunOnce(w, p) ==
    /\ At(w, "idle")
    /\ P!ClaimReadyNodes(p, clock) /\ Started(w)
    /\ UNCHANGED attempt /\ NoPlatform

RunNextOnce(w) ==
    /\ At(w, "idle")
    /\ P!ClaimNextReadyNodes(clock) /\ Started(w)
    /\ UNCHANGED attempt /\ NoPlatform

\* The store offers the takeover of an expired claim; nothing under src/ calls
\* it yet, and the worker is prepared for the claim it returns.
TakeOver(w, n) ==
    /\ At(w, "idle") /\ P!HasRun(n)
    /\ P!ReclaimExpiredNode(n, Len(runs[n]), clock) /\ Started(w)
    /\ UNCHANGED attempt /\ NoPlatform

-----------------------------------------------------------------------------
(* _execute_claim: up to the handler. *)

\* An input that is already there is replayed; a claim that is lost makes the
\* call raise, and the worker tries to report FAILED.
Materialize(w) ==
    /\ At(w, "materialize")
    /\ LET recorded == runs[NodeOf(w)][job[w].run].input_fingerprint # None IN
       \/ P!RecordNodeInput(NodeOf(w), job[w].run, "input", clock) /\ Goto(w, "dispatch")
       \/ recorded /\ HoldsClaim(w) /\ Goto(w, "dispatch") /\ NoStore
       \/ ~HoldsClaim(w) /\ Report(w, "FAILED") /\ NoStore
    /\ UNCHANGED attempt /\ NoPlatform

\* Mutant of Dispatch: a claim that is late is dropped without a report.
DispatchSilently(w) ==
    /\ At(w, "dispatch")
    /\ CASE ~InTime -> job' = [job EXCEPT ![w] = Idle]
         [] InTime /\ KeyOf(w) \in ReadKeys -> Goto(w, "call")
         [] InTime /\ KeyOf(w) \in WriteKeys /\ verified -> Goto(w, "reserve")
         [] InTime /\ KeyOf(w) \in WriteKeys /\ ~verified -> Report(w, "FAILED")
         [] OTHER -> Report(w, "SUCCEEDED")
    /\ NoStore /\ UNCHANGED attempt /\ NoPlatform

\* Control nodes are done at once; a write first looks at its event again.
Dispatch(w) ==
    /\ At(w, "dispatch")
    /\ CASE ~InTime -> Report(w, "FAILED")
         [] InTime /\ KeyOf(w) \in ReadKeys -> Goto(w, "call")
         [] InTime /\ KeyOf(w) \in WriteKeys /\ verified -> Goto(w, "reserve")
         [] InTime /\ KeyOf(w) \in WriteKeys /\ ~verified -> Report(w, "FAILED")
         [] OTHER -> Report(w, "SUCCEEDED")
    /\ NoStore /\ UNCHANGED attempt /\ NoPlatform

\* Mutant of Replayed: a write that may have happened counts as done.
ReplayedAsDone(a) ==
    IF a \in {"SUCCEEDED", "SIDE_EFFECT_UNKNOWN"} THEN "SUCCEEDED" ELSE "FAILED"

ReplayedAsIs(a) == a  \* mutant: the attempt's state is taken for the node's

\* What the worker makes of the attempt it finds: an unknown one waits for a
\* person, one that is still open is an error without a failure.
Replayed(a) ==
    CASE a = "SUCCEEDED"           -> "SUCCEEDED"
      [] a = "SIDE_EFFECT_UNKNOWN" -> "WAITING_RECONCILIATION"
      [] OTHER                     -> "FAILED"

MayReserveUnsent(n) == attempt[n] \in {"NONE", "NOT_SENT"}  \* mutant: an attempt that was not sent is made again

MayReserve(n) == attempt[n] = "NONE"

\* claim_or_replay: one attempt for an operation, for ever.
ClaimOrReplay(w) ==
    /\ At(w, "reserve")
    /\ IF MayReserve(NodeOf(w))
       THEN Close(w, "INTENT_RECORDED") /\ Goto(w, "call")
       ELSE Report(w, Replayed(attempt[NodeOf(w)])) /\ UNCHANGED attempt
    /\ NoStore /\ NoPlatform

\* The deadline is asked again; then the handler runs.
CallHandler(w) ==
    /\ At(w, "call")
    /\ \/ InTime /\ Goto(w, "handler") /\ UNCHANGED attempt
       \/ /\ ~InTime /\ Report(w, "FAILED")
          /\ IF KeyOf(w) \in WriteKeys THEN Close(w, "NOT_SENT") ELSE UNCHANGED attempt
    /\ NoStore /\ NoPlatform

-----------------------------------------------------------------------------
(* The handler and the platform. *)

\* A card is read: done, a failure that may pass, one that does not, no answer
\* in time.
AnswerRead(w) ==
    /\ At(w, "handler") /\ KeyOf(w) \in ReadKeys
    /\ \E o \in Outcomes \ {"NONE"} : Report(w, o)
    /\ NoStore /\ UNCHANGED attempt /\ NoPlatform

\* mark_sold_out with the version the event saw: it is carried out once.
PlatformWrites(w) ==
    /\ At(w, "handler") /\ KeyOf(w) \in WriteKeys
    /\ sent[NodeOf(w)] = 0
    /\ sent' = [sent EXCEPT ![NodeOf(w)] = @ + 1]
    /\ Goto(w, "written")
    /\ NoStore /\ UNCHANGED <<attempt, verified, lost>>

\* Refused before the send, or the product has another version.
PlatformRefuses(w) ==
    /\ At(w, "handler") /\ KeyOf(w) \in WriteKeys
    /\ Close(w, "NOT_SENT") /\ Report(w, "FAILED")
    /\ NoStore /\ NoPlatform

CompleteSuccess(w) ==
    /\ At(w, "written")
    /\ Close(w, "SUCCEEDED") /\ Report(w, "SUCCEEDED")
    /\ NoStore /\ NoPlatform

\* A timeout, or a platform that does not know.
CompleteUnknown(w) ==
    /\ (At(w, "handler") /\ KeyOf(w) \in WriteKeys) \/ At(w, "written")
    /\ Close(w, "SIDE_EFFECT_UNKNOWN") /\ Report(w, "WAITING_RECONCILIATION")
    /\ NoStore /\ NoPlatform

\* The handler raises: an internal failure, whatever the platform did.
CompleteFailure(w) ==
    /\ (At(w, "handler") /\ KeyOf(w) \in WriteKeys) \/ At(w, "written")
    /\ Close(w, "FAILED") /\ Report(w, "FAILED")
    /\ NoStore /\ NoPlatform

\* A request nobody waits for any more reaches the platform.
LateWrite(n) ==
    /\ attempt[n] = "SIDE_EFFECT_UNKNOWN"
    /\ sent[n] = 0
    /\ sent' = [sent EXCEPT ![n] = 1]
    /\ NoStore /\ UNCHANGED <<attempt, verified, job, lost>>

-----------------------------------------------------------------------------
(* The report, and how a worker ends without one. *)

AttemptSeconds == 1

\* FailurePolicy.decide for a failure that may pass: another attempt has to fit
\* before the deadline.
MayRetry(w, retryAt) ==
    /\ job[w].run < MaxReadAttempts
    /\ retryAt + AttemptSeconds < Deadline

RecordResult(w, s) == P!RecordNodeResult(NodeOf(w), job[w].run, s, clock)

ReportResult(w) ==
    /\ At(w, "report")
    /\ \/ job[w].outcome \notin {"NONE", "TRANSIENT"} /\ RecordResult(w, job[w].outcome)
       \/ /\ job[w].outcome = "TRANSIENT"
          /\ \E d \in RetryDelays :
                IF MayRetry(w, clock + d)
                THEN P!ScheduleRetry(NodeOf(w), job[w].run, clock, clock + d)
                ELSE RecordResult(w, "FAILED")
    /\ job' = [job EXCEPT ![w] = Idle]
    /\ UNCHANGED attempt /\ NoPlatform

Lose(w) ==
    /\ lost' = TRUE
    /\ job' = [job EXCEPT ![w] = Idle]
    /\ NoStore /\ UNCHANGED <<sent, verified>>

\* The claim is no longer held: every report raises, the node stays RUNNING.
ReportRefused(w) == At(w, "report") /\ ~HoldsClaim(w) /\ Lose(w) /\ UNCHANGED attempt

\* The coroutine is cancelled in its handler: the executor closes the attempt
\* and the cancellation goes on, past the worker's own handling of errors.
Cancel(w) ==
    /\ At(w, "handler") \/ At(w, "written")
    /\ IF KeyOf(w) \in WriteKeys THEN Close(w, "SIDE_EFFECT_UNKNOWN") ELSE UNCHANGED attempt
    /\ Lose(w)

Crash(w) == ~At(w, "idle") /\ Lose(w) /\ UNCHANGED attempt

-----------------------------------------------------------------------------
(* Around the workers. *)

Open(p) ==
    /\ P!CreateOrResume(p)
    /\ UNCHANGED <<attempt, sent, verified, job, lost>>

\* Another payload under the same event id.
ConflictEvent ==
    /\ verified /\ verified' = FALSE
    /\ NoStore /\ UNCHANGED <<attempt, sent, job, lost>>

\* reconcile(): the platform shows the product sold out in a later version.
ReconcileSoldOut(n) ==
    /\ sent[n] = 1
    /\ P!ReconcilePlanReference(n, "SUCCEEDED")
    /\ UNCHANGED <<attempt, sent, verified, job, lost>>

Tick == P!Tick /\ UNCHANGED <<attempt, sent, verified, job, lost>>

Init ==
    /\ P!Init
    /\ attempt = [n \in WriteNodes |-> "NONE"]
    /\ sent = [n \in WriteNodes |-> 0]
    /\ verified = TRUE
    /\ job = [w \in Workers |-> Idle]
    /\ lost = FALSE

\* What a worker does once it has a claim.
Execute(w) ==
    \/ Materialize(w) \/ Dispatch(w) \/ ClaimOrReplay(w) \/ CallHandler(w)
    \/ AnswerRead(w) \/ PlatformWrites(w) \/ PlatformRefuses(w)
    \/ CompleteSuccess(w) \/ CompleteUnknown(w) \/ CompleteFailure(w)
    \/ ReportResult(w) \/ ReportRefused(w)

WorkerStep(w) ==
    \/ \E p \in Plans : RunOnce(w, p)
    \/ RunNextOnce(w)
    \/ \E n \in P!Node : TakeOver(w, n)
    \/ Execute(w)

Stop(w) == Cancel(w) \/ Crash(w)

\* What happens around them.
OutsideStep ==
    \/ Tick
    \/ \E n \in WriteNodes : LateWrite(n) \/ ReconcileSoldOut(n)

Next ==
    \/ \E p \in Plans : Open(p)
    \/ \E w \in Workers : WorkerStep(w) \/ Stop(w)
    \/ OutsideStep \/ ConflictEvent

\* Time passes, a worker that has a claim goes on, and free workers are called
\* again (drive_to_terminal leaves that to its caller).  Nothing else is fair:
\* no takeover, no reconciliation.
Fairness ==
    /\ WF_vars(Tick)
    /\ \A w \in Workers : WF_vars(RunNextOnce(w)) /\ WF_vars(Execute(w))

Spec == Init /\ [][Next]_vars /\ Fairness

-----------------------------------------------------------------------------
(* What workers and executor promise together. *)

\* The attempts, the platform and the memory of the workers keep their types.
TypeOK ==
    /\ P!TypeOK
    /\ attempt \in [WriteNodes -> AttemptState]
    /\ sent \in [WriteNodes -> Nat]
    /\ verified \in BOOLEAN
    /\ job \in [Workers -> JobRecord]
    /\ lost \in BOOLEAN

\* A write node never claims more than the platform did, across crashes between
\* the write, its attempt and its report: SUCCEEDED stands for a write that was
\* carried out, a node waits for reconciliation exactly for an outcome nobody
\* knows, and a write is carried out only behind a recorded intent
\* (_execute_claim_inner, execute).
NodeTellsTheWrite ==
    \A n \in WriteNodes :
        /\ node[n].state = "SUCCEEDED" => sent[n] = 1
        /\ node[n].state = "WAITING_RECONCILIATION" => attempt[n] = "SIDE_EFFECT_UNKNOWN"
        /\ sent[n] > 0 => attempt[n] \notin {"NONE", "NOT_SENT"}

\* The refinement: a write is reserved before it is sent, carried out at most
\* once whoever takes its node over, and its answer is final (claim_or_replay;
\* D-058).
CallsOnce == INSTANCE CallOnce WITH
    Calls <- WriteNodes,
    reserved <- {n \in WriteNodes : attempt[n] # "NONE"},
    answer <- [n \in WriteNodes |->
                CASE attempt[n] \in {"NONE", "INTENT_RECORDED"} -> "OPEN"
                  [] attempt[n] = "SUCCEEDED" -> "OK"
                  [] attempt[n] = "NOT_SENT"  -> "UNSENT"
                  [] OTHER -> "LOST"]
CallsAreMadeOnce == CallsOnce!Spec

\* Every plan ends, or stands where only a person can take it on, unless a claim
\* was lost with its worker: retries, deadlines, failures, a competing plan on
\* the same product and a conflicting event all lead to a result.
Settled(p) ==
    \/ planRun[p].state \in {"SUCCEEDED", "FAILED"}
    \/ \E n \in P!CurrentNodes(p) : node[n].state = "WAITING_RECONCILIATION"
PlansEnd ==
    \A p \in Plans : (planRun[p].state # "ABSENT") ~> (Settled(p) \/ lost)

\* FAILED of a write node says that the product was left alone (D-058: an
\* unknown side effect waits for its reconciliation).
FailedMeansNotApplied ==
    \A n \in WriteNodes : node[n].state = "FAILED" => sent[n] = 0

\* A worker in its handler holds its claim (D-032: it sends heartbeats).
WorkIsCovered ==
    \A w \in Workers : At(w, "handler") \/ At(w, "written") => HoldsClaim(w)
=============================================================================
