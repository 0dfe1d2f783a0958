--------------------------- MODULE MemoryPromotion ---------------------------
(***************************************************************************)
(* How a preference learnt after a live session becomes a memory of the    *)
(* anchor: staged by an agent, found eligible by rules, confirmed by an    *)
(* operator, written by PromotionPolicy.  Four stores without a common     *)
(* transaction (candidates, eligibility and confirmations, command         *)
(* results, memories) and any number of processes that evaluate and        *)
(* confirm, crash, and are called again with the same command.             *)
(*                                                                         *)
(* The in-memory and the PostgreSQL stores are one model.  The scope is    *)
(* one anchor and one room.  What the rules find in the decision traces is *)
(* a choice; a command binds the candidate, its version and the operator,  *)
(* and the candidate stands for the three.                                 *)
(***************************************************************************)
EXTENDS Naturals

CONSTANTS
    Processes, Candidates, Commands, NoOne,
    Opposed     \* pairs of candidates of one category that share a product

VARIABLES
    candidate,  \* status of each candidate; its version counts the changes
    eligibility,\* the fact of each candidate: who asked, and what was found
    intent,     \* the candidate an operator meant by a command
    told,       \* the result PromotionPolicy recorded for a command
    confirmed,  \* the confirmation recorded for a command
    memory,     \* the candidates whose preference is an anchor memory
    others,     \* some memory of the scope was not written by a promotion
    lock,       \* the process inside promotion_scope_lock
    job         \* what each process is doing

vars == <<candidate, eligibility, intent, told, confirmed, memory, others, lock, job>>

Version == [ABSENT |-> 0, STAGED |-> 1, ELIGIBLE |-> 2, APPLIED |-> 3]
Verdicts == {"APPLIED", "CONFLICT"}
Facts == [command : Commands, status : {"STAGED", "ELIGIBLE"}]
Steps == {"eligible", "intended", "admitted", "clear", "written", "decided", "promoted"}
Jobs == [step : Steps, command : Commands, candidate : Candidates, verdict : Verdicts \cup {NoOne}]

Init ==
    /\ candidate = [k \in Candidates |-> "ABSENT"]
    /\ eligibility = [k \in Candidates |-> NoOne]
    /\ intent = [m \in Commands |-> NoOne]
    /\ told = [m \in Commands |-> NoOne]
    /\ confirmed = [m \in Commands |-> NoOne]
    /\ memory = {}
    /\ others = FALSE
    /\ lock = NoOne
    /\ job = [o \in Processes |-> NoOne]

At(o, step) == job[o] # NoOne /\ job[o].step = step
Move(o, step) == job' = [job EXCEPT ![o].step = step]
Decide(o, step, verdict) == job' = [job EXCEPT ![o].step = step, ![o].verdict = verdict]
Stop(o) == job' = [job EXCEPT ![o] = NoOne]

(* Leaving the scope lock, by the end of the block or by an exception; the *)
(* lock belongs to a database session and does not survive the process.    *)
LeaveScope(o) == lock' = IF lock = o THEN NoOne ELSE lock

IsEligible(k) == eligibility[k] # NoOne /\ eligibility[k].status = "ELIGIBLE"

(* _has_active_conflict: a memory of another origin is a conflict whatever *)
(* it says, a promoted one when it contradicts the candidate.              *)
HasActiveConflict(k) == others \/ \E j \in memory : {j, k} \in Opposed

-----------------------------------------------------------------------------
(* The skill stages a candidate; staging it again changes nothing.         *)
Stage(k) ==
    /\ candidate[k] = "ABSENT"
    /\ candidate' = [candidate EXCEPT ![k] = "STAGED"]
    /\ UNCHANGED <<eligibility, intent, told, confirmed, memory, others, lock, job>>

(* evaluate_eligibility up to its fact: the first fact of a candidate      *)
(* stays, a command finds one fact, and the same command comes back only   *)
(* to make up for a transition that was cut off.                           *)
RecordEligibility(o, k, m, status) ==
    /\ job[o] = NoOne
    /\ candidate[k] = "STAGED"
    /\ \/ /\ eligibility[k] = NoOne
          /\ \A j \in Candidates : eligibility[j] # NoOne => eligibility[j].command # m
       \/ eligibility[k] = [command |-> m, status |-> status]
    /\ eligibility' = [eligibility EXCEPT ![k] = [command |-> m, status |-> status]]
    /\ job' = IF status = "STAGED" THEN job
              ELSE [job EXCEPT ![o] =
                [step |-> "eligible", command |-> m, candidate |-> k, verdict |-> NoOne]]
    /\ UNCHANGED <<candidate, intent, told, confirmed, memory, others, lock>>

(* ... and its transition, compare-and-swap on the version.                *)
BecomeEligible(o) ==
    /\ At(o, "eligible")
    /\ candidate' = IF candidate[job[o].candidate] # "STAGED" THEN candidate
                    ELSE [candidate EXCEPT ![job[o].candidate] = "ELIGIBLE"]
    /\ Stop(o)
    /\ UNCHANGED <<eligibility, intent, told, confirmed, memory, others, lock>>

(* confirm_promotion up to the intent.  A confirmed command is answered    *)
(* from its confirmation, a candidate at another version is refused unless *)
(* it is the one this version led to.                                      *)
RecordConfirmationIntent(o, m, k, expected) ==
    /\ job[o] = NoOne
    /\ confirmed[m] = NoOne
    /\ \/ candidate[k] = "ELIGIBLE" /\ expected = Version[candidate[k]]
       \/ candidate[k] = "APPLIED" /\ expected + 1 = Version[candidate[k]]
    /\ IsEligible(k)
    /\ intent[m] \in {NoOne, k}
    /\ intent' = [intent EXCEPT ![m] = k]
    /\ job' = [job EXCEPT ![o] =
          [step |-> "intended", command |-> m, candidate |-> k, verdict |-> NoOne]]
    /\ UNCHANGED <<candidate, eligibility, told, confirmed, memory, others, lock>>

(* promote up to the lock: a command with a result is answered by it, a    *)
(* candidate that is APPLIED means that only the result is missing.        *)
Promote(o) ==
    LET m == job[o].command
        k == job[o].candidate
    IN  /\ At(o, "intended")
        /\ CASE told[m] # NoOne -> Decide(o, "promoted", told[m])
             [] told[m] = NoOne /\ candidate[k] = "APPLIED" -> Decide(o, "decided", "APPLIED")
             [] OTHER -> Move(o, "admitted")
        /\ UNCHANGED <<candidate, eligibility, intent, told, confirmed, memory, others, lock>>

(* The lock and, under it, the look at the memories of the scope.  The     *)
(* candidate was read before the lock.                                     *)
EnterScope(o) ==
    /\ At(o, "admitted")
    /\ lock = NoOne
    /\ lock' = o
    /\ IF HasActiveConflict(job[o].candidate)
       THEN Decide(o, "decided", "CONFLICT")
       ELSE Move(o, "clear")
    /\ UNCHANGED <<candidate, eligibility, intent, told, confirmed, memory, others>>

(* write_memory: an upsert under the key of the candidate.                 *)
WriteMemory(o) ==
    /\ At(o, "clear")
    /\ memory' = memory \cup {job[o].candidate}
    /\ Move(o, "written")
    /\ UNCHANGED <<candidate, eligibility, intent, told, confirmed, others, lock>>

(* The transition of the candidate; it raises for one already APPLIED.     *)
Apply(o) ==
    LET k == job[o].candidate
    IN  /\ At(o, "written")
        /\ IF candidate[k] = "ELIGIBLE"
           THEN /\ candidate' = [candidate EXCEPT ![k] = "APPLIED"]
                /\ Decide(o, "decided", "APPLIED")
                /\ UNCHANGED lock
           ELSE UNCHANGED candidate /\ Stop(o) /\ LeaveScope(o)
        /\ UNCHANGED <<eligibility, intent, told, confirmed, memory, others>>

(* record_command_result: the first result of a command stays, another one *)
(* raises.                                                                 *)
RecordCommandResult(o) ==
    LET m == job[o].command
    IN  /\ At(o, "decided")
        /\ IF told[m] \in {NoOne, job[o].verdict}
           THEN told' = [told EXCEPT ![m] = job[o].verdict] /\ Move(o, "promoted")
           ELSE UNCHANGED told /\ Stop(o)
        /\ LeaveScope(o)
        /\ UNCHANGED <<candidate, eligibility, intent, confirmed, memory, others>>

(* record_confirmation, with the same rule.                                *)
RecordConfirmation(o) ==
    LET m == job[o].command
    IN  /\ At(o, "promoted")
        /\ confirmed' = IF confirmed[m] # NoOne THEN confirmed
                        ELSE [confirmed EXCEPT ![m] = job[o].verdict]
        /\ Stop(o)
        /\ UNCHANGED <<candidate, eligibility, intent, told, memory, others, lock>>

(* The process stops at any point of a call.                               *)
Crash(o) ==
    /\ job[o] # NoOne
    /\ Stop(o) /\ LeaveScope(o)
    /\ UNCHANGED <<candidate, eligibility, intent, told, confirmed, memory, others>>

(* Feedback of decisions writes memories of its own, without the lock.     *)
WriteOtherMemory ==
    /\ ~others
    /\ others' = TRUE
    /\ UNCHANGED <<candidate, eligibility, intent, told, confirmed, memory, lock, job>>

Next ==
    \/ \E k \in Candidates : Stage(k)
    \/ \E o \in Processes, k \in Candidates, m \in Commands, status \in {"STAGED", "ELIGIBLE"} :
            RecordEligibility(o, k, m, status)
    \/ \E o \in Processes : BecomeEligible(o)
    \/ \E o \in Processes, m \in Commands, k \in Candidates, expected \in 1..3 :
            RecordConfirmationIntent(o, m, k, expected)
    \/ \E o \in Processes : Promote(o)
    \/ \E o \in Processes : EnterScope(o)
    \/ \E o \in Processes : WriteMemory(o)
    \/ \E o \in Processes : Apply(o)
    \/ \E o \in Processes : RecordCommandResult(o)
    \/ \E o \in Processes : RecordConfirmation(o)
    \/ \E o \in Processes : Crash(o)
    \/ WriteOtherMemory

Spec == Init /\ [][Next]_vars

-----------------------------------------------------------------------------
(* Rows, the lock and the processes keep their types.                      *)
TypeOK ==
    /\ candidate \in [Candidates -> DOMAIN Version]
    /\ eligibility \in [Candidates -> Facts \cup {NoOne}]
    /\ intent \in [Commands -> Candidates \cup {NoOne}]
    /\ told \in [Commands -> Verdicts \cup {NoOne}]
    /\ confirmed \in [Commands -> Verdicts \cup {NoOne}]
    /\ memory \subseteq Candidates
    /\ others \in BOOLEAN
    /\ lock \in Processes \cup {NoOne}
    /\ job \in [Processes -> Jobs \cup {NoOne}]

(* Two memories that contradict each other are never promoted side by side *)
(* (promotion_scope_lock around check and write).                          *)
NoOpposedMemories == \A j, k \in memory : {j, k} \notin Opposed

(* A promoted memory rests on an operator's intent and on the rules'       *)
(* finding, wherever the process that wrote it stopped, and an APPLIED     *)
(* candidate has its memory.                                               *)
MemoriesAreBacked ==
    /\ \A k \in memory : IsEligible(k) /\ \E m \in Commands : intent[m] = k
    /\ \A k \in Candidates : candidate[k] = "APPLIED" => k \in memory

(* What a command was told is so: APPLIED names an applied candidate, a    *)
(* conflict leaves no promoted memory of the candidate behind unless       *)
(* another writer came in between, and a confirmation repeats the result.  *)
OutcomesAreTrue ==
    \A m \in Commands :
        /\ told[m] = "APPLIED" => candidate[intent[m]] = "APPLIED"
        /\ told[m] = "CONFLICT" => intent[m] \notin memory \/ others
        /\ confirmed[m] # NoOne => confirmed[m] = told[m]
=============================================================================
