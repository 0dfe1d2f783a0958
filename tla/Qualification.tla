---------------------------- MODULE Qualification ----------------------------
(***************************************************************************)
(* The qualification campaigns (V9): the ledger of policy, campaigns and   *)
(* runs (phase16_qualification_ledger.py), that of slots, claims and       *)
(* attempts (phase16_qualification_execution_ledger.py with the triggers   *)
(* of docker/init_phase16_qualification_ledger.sql), and the runner        *)
(* (phase16_qualification_runner.py).                                      *)
(*                                                                         *)
(* Every execution is a new run and a campaign has one run, so a campaign  *)
(* whose process stopped is never continued.  Nothing is recovered.  Costs *)
(* are counted in reservations of one stage.                               *)
(***************************************************************************)
EXTENDS Naturals, Sequences, FiniteSetsExt

CONSTANTS
    Campaigns,
    Development,    \* the development campaigns among them
    Slots,          \* Slots[g]: the frozen cases of campaign g in their order
    Costs,          \* what the provider may charge for an answer: 0, and at most 1
    CampaignBudget, \* what a campaign reserves
    ProjectBudget   \* what all campaigns of the policy may cost

VARIABLES
    declared,   \* the campaigns ensure_campaign accepted
    result,     \* result[g]: no run, an open one, or the conclusion of campaign g
    claimed,    \* the claims, as pairs of campaign and case
    begun,      \* the dispatch attempts, as triples of campaign, case and stage
    sent,       \* sent[a]: requests of attempt a that left the process
    receipt,    \* receipt[a]: complete, incomplete, or without a usage (UNPRICED)
    cost,       \* cost[a]: what the receipt of a says it cost
    fact,       \* fact[a]: the validation fact of a
    blocked,    \* the claims with a pre-dispatch block
    outcome,    \* outcome[c]: the outcome of the claim c
    job         \* job[g]: where the process that executes campaign g is

project == <<declared, result>>
claims == <<claimed, blocked, outcome>>
attempts == <<begun, sent, receipt, cost, fact>>
vars == <<declared, result, claimed, begun, sent, receipt, cost, fact, blocked, outcome, job>>

MaxDevelopment == 2
CasesOf(g) == {Slots[g][i] : i \in DOMAIN Slots[g]}
Stages == {"ANALYST", "PLANNER"}
Claims == UNION {{g} \X CasesOf(g) : g \in Campaigns}
Attempts == {<<c[1], c[2], s>> : c \in Claims, s \in Stages}
Verdicts == {"PASS", "FAILED", "BLOCKED"}

(* Not running, claim_case, begin_dispatch, the model port, the receipt    *)
(* and its validation, the block before the dispatch, close_case, the end. *)
Steps == {"IDLE", "CLAIM", "BEGIN", "SEND", "AWAIT", "JUDGE", "BLOCK", "CLOSE", "END"}

(* hard: a request that was not sent blocks the remaining cases; clean: no *)
(* case has failed; drift: an answer came from a model or host that the    *)
(* campaign did not declare.                                               *)
JobRecord == [pc : Steps, at : UNION {DOMAIN Slots[g] : g \in Campaigns}, stage : Stages, verdict : Verdicts,
              hard : BOOLEAN, clean : BOOLEAN, drift : BOOLEAN]

Idle == [pc |-> "IDLE", at |-> 1, stage |-> "ANALYST", verdict |-> "BLOCKED",
         hard |-> FALSE, clean |-> TRUE, drift |-> FALSE]

Init ==
    /\ declared = {}
    /\ result = [g \in Campaigns |-> "NONE"]
    /\ claimed = {}
    /\ begun = {}
    /\ sent = [a \in Attempts |-> 0]
    /\ receipt = [a \in Attempts |-> "NONE"]
    /\ cost = [a \in Attempts |-> 0]
    /\ fact = [a \in Attempts |-> "NONE"]
    /\ blocked = {}
    /\ outcome = [c \in Claims |-> "NONE"]
    /\ job = [g \in Campaigns |-> Idle]

-----------------------------------------------------------------------------
AttemptsOf(g) == {a \in begun : a[1] = g}

(* Mutant of Committed: the reservation is given back when the run opens.  *)
CommittedByReceipts(g) ==
    IF result[g] # "NONE" THEN MapThenSumSet(LAMBDA a : cost[a], AttemptsOf(g))
    ELSE CampaignBudget

(* A campaign commits its reservation until its run has a result, and then *)
(* what its receipts say.                                                  *)
Committed(g) ==
    IF result[g] \in Verdicts THEN MapThenSumSet(LAMBDA a : cost[a], AttemptsOf(g))
    ELSE CampaignBudget

TotalCommitted(campaigns) == MapThenSumSet(Committed, campaigns)

(* Within a run an attempt counts in full until its receipt tells its cost.*)
IsPriced(a) == receipt[a] \in {"COMPLETE", "INCOMPLETE"}

Reserved(g) == MapThenSumSet(LAMBDA a : IF IsPriced(a) THEN cost[a] ELSE 1, AttemptsOf(g))

Passed(a) == fact[a] = "PASS" /\ receipt[a] = "COMPLETE"
Attempt(c, s) == <<c[1], c[2], s>>

(* The trigger of the outcomes of a case (every slot expects both stages). *)
CaseMayEnd(c, v) ==
    CASE v = "PASS" -> \A s \in Stages : Passed(Attempt(c, s))
      [] v = "FAILED" -> \E s \in Stages : fact[Attempt(c, s)] = "FAILED"
      [] v = "BLOCKED" -> c \in blocked \/ \E s \in Stages : fact[Attempt(c, s)] = "BLOCKED"

IsLive(g) == result[g] = "OPEN"

At(g, pc) == job[g].pc = pc
ClaimOf(g) == <<g, Slots[g][job[g].at]>>
AttemptOf(g) == Attempt(ClaimOf(g), job[g].stage)
Goto(g, pc) == job' = [job EXCEPT ![g].pc = pc]
EndStage(g, pc, v) == job' = [job EXCEPT ![g].pc = pc, ![g].verdict = v]

-----------------------------------------------------------------------------
(* In the lock of the policy: at most two development campaigns, and the   *)
(* commitments of all campaigns stay within the project budget.            *)
EnsureCampaign(g) ==
    /\ g \notin declared
    /\ g \in Development => Cardinality(declared \cap Development) < MaxDevelopment
    /\ TotalCommitted(declared \cup {g}) <= ProjectBudget
    /\ declared' = declared \cup {g}
    /\ UNCHANGED <<result, claims, attempts, job>>

(* The run of an execution has an id of its own, and a second run of the   *)
(* same campaign is refused.                                               *)
MayBeginRun(g) == g \in declared /\ result[g] = "NONE"

BeginRunWithSlots(g) ==
    /\ MayBeginRun(g)
    /\ result' = [result EXCEPT ![g] = "OPEN"]
    /\ job' = [job EXCEPT ![g] = [Idle EXCEPT !.pc = "CLAIM"]]
    /\ UNCHANGED <<declared, claims, attempts>>

ClaimCase(g) ==
    /\ At(g, "CLAIM")
    /\ IsLive(g)
    /\ outcome[ClaimOf(g)] = "NONE"
    /\ claimed' = claimed \cup {ClaimOf(g)}
    /\ job' = [job EXCEPT ![g].pc = IF job[g].hard THEN "BLOCK" ELSE "BEGIN",
                          ![g].stage = "ANALYST", ![g].verdict = "BLOCKED"]
    /\ UNCHANGED <<project, blocked, outcome, attempts>>

(* A repetition with the same request is answered with the attempt.        *)
MayBegin(g) ==
    /\ IsLive(g)
    /\ Reserved(g) + 1 <= CampaignBudget
    /\ job[g].stage = "PLANNER" => Passed(Attempt(ClaimOf(g), "ANALYST"))

BeginDispatch(g) ==
    /\ At(g, "BEGIN")
    /\ MayBegin(g)
    /\ begun' = begun \cup {AttemptOf(g)}
    /\ Goto(g, "SEND")
    /\ UNCHANGED <<project, claims, sent, receipt, cost, fact>>

(* begin_dispatch refuses, or the bounded runner stops before it.          *)
StopBeforeSend(g) ==
    /\ At(g, "BEGIN")
    /\ EndStage(g, "BLOCK", "BLOCKED")
    /\ UNCHANGED <<project, claims, attempts>>

SendRequest(g) ==
    /\ At(g, "SEND")
    /\ sent' = [sent EXCEPT ![AttemptOf(g)] = @ + 1]
    /\ Goto(g, "AWAIT")
    /\ UNCHANGED <<project, claims, begun, receipt, cost, fact>>

(* Without a usage the receipt is incomplete and tells no cost.            *)
AppendReceipt(g) ==
    /\ At(g, "AWAIT")
    /\ receipt[AttemptOf(g)] = "NONE"
    /\ \E shape \in {"COMPLETE", "INCOMPLETE", "UNPRICED"}, c \in Costs, drift \in BOOLEAN :
        /\ shape = "UNPRICED" => c = 0
        /\ receipt' = [receipt EXCEPT ![AttemptOf(g)] = shape]
        /\ cost' = [cost EXCEPT ![AttemptOf(g)] = c]
        /\ job' = [job EXCEPT ![g].pc = "JUDGE", ![g].drift = @ \/ drift]
    /\ UNCHANGED <<project, claims, begun, sent, fact>>

MayRecord(a, v) ==
    /\ fact[a] = "NONE"
    /\ v = "PASS" => receipt[a] = "COMPLETE"
    /\ v = "BLOCKED" => receipt[a] = "NONE"

(* BLOCKED without a request, FAILED without a usable answer; after a PASS *)
(* of the analyst comes the planner.                                       *)
AppendValidation(g) ==
    \E v \in Verdicts :
        /\ v = "BLOCKED" <=> At(g, "SEND")
        /\ v = "FAILED" => At(g, "AWAIT") \/ At(g, "JUDGE")
        /\ v = "PASS" => At(g, "JUDGE")
        /\ MayRecord(AttemptOf(g), v)
        /\ fact' = [fact EXCEPT ![AttemptOf(g)] = v]
        /\ CASE v = "BLOCKED" -> EndStage(g, "BLOCK", v)
             [] v = "PASS" /\ job[g].stage = "ANALYST" ->
                    job' = [job EXCEPT ![g].pc = "BEGIN", ![g].stage = "PLANNER"]
             [] OTHER -> EndStage(g, "CLOSE", v)
        /\ UNCHANGED <<project, claims, begun, sent, receipt, cost>>

RecordPreDispatchBlock(g) ==
    /\ At(g, "BLOCK")
    /\ ClaimOf(g) \notin blocked
    /\ blocked' = blocked \cup {ClaimOf(g)}
    /\ Goto(g, "CLOSE")
    /\ UNCHANGED <<project, claimed, outcome, attempts>>

CloseCase(g) ==
    /\ At(g, "CLOSE")
    /\ outcome[ClaimOf(g)] = "NONE"
    /\ CaseMayEnd(ClaimOf(g), job[g].verdict)
    /\ outcome' = [outcome EXCEPT ![ClaimOf(g)] = job[g].verdict]
    /\ LET last == job[g].at = Len(Slots[g])
       IN  job' = [job EXCEPT
              ![g].pc = IF last THEN "END" ELSE "CLAIM",
              ![g].at = IF last THEN @ ELSE @ + 1,
              ![g].hard = @ \/ job[g].verdict = "BLOCKED",
              ![g].clean = @ /\ job[g].verdict = "PASS"]
    /\ UNCHANGED <<project, claimed, blocked, attempts>>

(* The metrics and the result.  The trigger refuses PASS when an answer    *)
(* drifted: the run stays open.                                            *)
CloseRun(g) ==
    /\ At(g, "END")
    /\ result' = IF ~IsLive(g) \/ (job[g].clean /\ job[g].drift) THEN result
                 ELSE [result EXCEPT ![g] = IF job[g].clean THEN "PASS" ELSE "FAILED"]
    /\ job' = [job EXCEPT ![g] = Idle]
    /\ UNCHANGED <<declared, claims, attempts>>

(* The process stops, or a call of the ledger raises and execute() with it.*)
Crash(g) ==
    /\ ~At(g, "IDLE")
    /\ job' = [job EXCEPT ![g] = Idle]
    /\ UNCHANGED <<project, claims, attempts>>

Next == \E g \in Campaigns :
    \/ EnsureCampaign(g) \/ BeginRunWithSlots(g) \/ ClaimCase(g)
    \/ BeginDispatch(g) \/ StopBeforeSend(g) \/ SendRequest(g)
    \/ AppendReceipt(g) \/ AppendValidation(g) \/ RecordPreDispatchBlock(g)
    \/ CloseCase(g) \/ CloseRun(g) \/ Crash(g)

Spec == Init /\ [][Next]_vars

-----------------------------------------------------------------------------
(* The rows of the ledgers and the memory of the processes keep their      *)
(* types.                                                                  *)
TypeOK ==
    /\ declared \subseteq Campaigns
    /\ result \in [Campaigns -> {"NONE", "OPEN"} \cup Verdicts]
    /\ claimed \subseteq Claims
    /\ begun \subseteq Attempts
    /\ sent \in [Attempts -> Nat]
    /\ receipt \in [Attempts -> {"NONE", "COMPLETE", "INCOMPLETE", "UNPRICED"}]
    /\ cost \in [Attempts -> Nat]
    /\ fact \in [Attempts -> {"NONE"} \cup Verdicts]
    /\ blocked \subseteq Claims
    /\ outcome \in [Claims -> {"NONE"} \cup Verdicts]
    /\ job \in [Campaigns -> JobRecord]

(* A campaign that passed made and validated both requests of each of its  *)
(* cases, and a blocked case never hides the request of its planner        *)
(* (close_run, close_case and their triggers).                             *)
OutcomesAreTrue ==
    /\ \A g \in Campaigns : result[g] = "PASS" =>
        \A c \in CasesOf(g), s \in Stages : sent[<<g, c, s>>] = 1 /\ Passed(<<g, c, s>>)
    /\ \A c \in Claims : outcome[c] = "BLOCKED" =>
        /\ sent[Attempt(c, "PLANNER")] = 0
        /\ sent[Attempt(c, "ANALYST")] = 1 => Passed(Attempt(c, "ANALYST"))

(* What the campaigns of a policy commit never exceeds its budget: a run   *)
(* that ends gives back what its receipts did not use, and its receipts    *)
(* fit into what it had reserved (ensure_campaign, begin_dispatch).        *)
CommittedWithinBudget == TotalCommitted(declared) <= ProjectBudget

(* ensure_campaign speaks of the exposure of the project: whatever the     *)
(* provider charges for the requests that left, up to their reservations   *)
(* as long as no receipt tells it, stays within the budget.                *)
ExposureIsBounded ==
    MapThenSumSet(LAMBDA a : IF IsPriced(a) THEN cost[a] ELSE sent[a], Attempts)
        <= ProjectBudget

CallsOnce == INSTANCE CallOnce WITH
    Calls <- Attempts,
    reserved <- begun,
    answer <- [a \in Attempts |->
                CASE fact[a] = "NONE" -> "OPEN"
                  [] fact[a] = "PASS" -> "OK"
                  [] fact[a] = "BLOCKED" -> "UNSENT"
                  [] OTHER -> "LOST"]

(* No attempt is sent twice although begin_dispatch answers a repetition:  *)
(* the one run of a campaign is executed once (begin_run).                 *)
CallsAreMadeOnce == CallsOnce!Spec
=============================================================================
