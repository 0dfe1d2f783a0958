--------------------------- MODULE SpecialistRuns ---------------------------
(***************************************************************************)
(* The model budget of the specialists (specialist_runtime/budget.py) and  *)
(* BoundedSpecialistRunner.run (runner.py), which pays for each model call *)
(* of a task from it.                                                      *)
(*                                                                         *)
(* The budget is one ledger that several processes share: every operation  *)
(* runs under its lock.  A request is known by its task and its number in  *)
(* the task, so that a task that is run again meets its own requests.      *)
(***************************************************************************)
EXTENDS Naturals, Integers, FiniteSetsExt

CONSTANTS
    Runners,
    Tasks,
    CandidateOf,   \* CandidateOf[t]: the candidate that pays for task t
    Evaluated,     \* the candidates of phase 13, which share what they leave
    Limit,         \* Limit[c]: what candidate c may spend of its own
    PhaseLimit,    \* what the candidates of phase 13 may spend together
    MaxModelCalls, MaxSkillCalls,  \* of a profile
    Reservation,   \* the worst case of one call
    Costs,         \* what a call may turn out to cost
    CaseBudget     \* max_case_cost_cny of a profile

VARIABLES
    reservation,   \* reservation[q]: the reservation of request q
    closed,        \* the candidates that gave their allowance to the others
    sent,          \* sent[q]: how often request q went to the model
    job            \* job[r]: where run() of runner r is, and what it returned

vars == <<reservation, closed, sent, job>>

Candidates == DOMAIN Limit
Requests == Tasks \X (1..MaxModelCalls)
States == {"NONE", "RESERVED", "SETTLED", "RELEASED"}

(* cost is what the ledger counts: the reservation until it is settled.    *)
Reservations == [state : States, cost : Nat, usage_known : BOOLEAN]
NoReservation == [state |-> "NONE", cost |-> 0, usage_known |-> FALSE]

(* The status of an AgentResult; STOPPED is a run() that raised, or whose  *)
(* process ended.                                                          *)
Statuses == {"NONE", "SUCCEEDED", "MODEL_ERROR", "BUDGET_EXCEEDED", "DENIED",
             "RECONCILE", "STOPPED"}
JobRecord == [pc : {"IDLE", "RESERVE", "SEND", "AWAIT"}, task : Tasks,
              index : 1..MaxModelCalls, cost : Nat, status : Statuses]

-----------------------------------------------------------------------------
(* The ledger.                                                             *)

Exposure(c) ==
    MapThenSumSet(LAMBDA q : reservation[q].cost,
                  {q \in Requests : CandidateOf[q[1]] = c})
SpentBy(cs) == MapThenSumSet(Exposure, cs)

Extra(exposure, c) == IF exposure > Limit[c] THEN exposure - Limit[c] ELSE 0

(* What closed candidates left; a closed candidate that had borrowed takes *)
(* away from it.                                                           *)
Shared == MapThenSumSet(LAMBDA c : Limit[c] - Exposure(c), closed \cap Evaluated)

(* Mutant of MayReserve: the pool is not looked at.                        *)
MayReserveInPhase(c) ==
    /\ c \notin closed
    /\ SpentBy(Evaluated) + Reservation <= PhaseLimit

(* _assert_capacity: a candidate outside phase 13 has its own limit only.  *)
MayReserve(c) ==
    /\ c \notin closed
    /\ IF c \notin Evaluated
       THEN Exposure(c) + Reservation <= Limit[c]
       ELSE /\ SpentBy(Evaluated) + Reservation <= PhaseLimit
            /\ Extra(Exposure(c) + Reservation, c) +
                 MapThenSumSet(LAMBDA d : Extra(Exposure(d), d), Evaluated \ (closed \cup {c}))
                 <= Shared

Settled(cost, known) == [state |-> "SETTLED", cost |-> cost, usage_known |-> known]
Charge(q, cost, known) == reservation' = [reservation EXCEPT ![q] = Settled(cost, known)]

(* settle: a second settlement has to be the same one.                     *)
MaySettle(q, cost, known) ==
    reservation[q].state = "RESERVED" \/ reservation[q] = Settled(cost, known)

Release(q) ==
    /\ reservation[q].state \in {"RESERVED", "RELEASED"}
    /\ reservation' = [reservation EXCEPT ![q].state = "RELEASED", ![q].cost = 0]

(* release_candidate_allowance                                             *)
ReleaseAllowance(c) ==
    /\ c \in Evaluated \ closed
    /\ \A q \in Requests : CandidateOf[q[1]] = c => reservation[q].state # "RESERVED"
    /\ closed' = closed \cup {c}
    /\ UNCHANGED <<reservation, sent, job>>

(* A person goes through list_pending_reservations after a restart and     *)
(* settles what is pending, whoever may still wait for it.                 *)
SettlePending(q) ==
    /\ reservation[q].state = "RESERVED"
    /\ Charge(q, Reservation, FALSE)
    /\ UNCHANGED <<closed, sent, job>>

-----------------------------------------------------------------------------
(* run(): one model call after the other.                                  *)

At(r, pc) == job[r].pc = pc
RequestOf(r) == <<job[r].task, job[r].index>>
Goto(r, pc) == job' = [job EXCEPT ![r].pc = pc]
Return(r, status) == job' = [job EXCEPT ![r].pc = "IDLE", ![r].status = status]
Finish(r, status, cost) ==
    job' = [job EXCEPT ![r].pc = "IDLE", ![r].status = status, ![r].cost = @ + cost]
GoOn(r, cost) ==
    job' = [job EXCEPT ![r].pc = "RESERVE", ![r].index = @ + 1, ![r].cost = @ + cost]

Run(r, t) ==
    /\ At(r, "IDLE")
    /\ job' = [job EXCEPT ![r] = [pc |-> "RESERVE", task |-> t, index |-> 1,
                                  cost |-> 0, status |-> "NONE"]]
    /\ UNCHANGED <<reservation, closed, sent>>

(* A request of an earlier run of the task is not made again.              *)
Reserve(r) ==
    LET q == RequestOf(r) IN
    /\ At(r, "RESERVE")
    /\ IF /\ job[r].cost + Reservation <= CaseBudget
          /\ reservation[q].state = "NONE"
          /\ MayReserve(CandidateOf[q[1]])
       THEN /\ reservation' = [reservation EXCEPT ![q] =
                    [state |-> "RESERVED", cost |-> Reservation, usage_known |-> FALSE]]
            /\ Goto(r, "SEND")
       ELSE Return(r, "BUDGET_EXCEEDED") /\ UNCHANGED reservation
    /\ UNCHANGED <<closed, sent>>

(* The lock was waited for past the deadline: nothing is sent.  Releasing  *)
(* what was settled meanwhile raises.                                      *)
ReleaseLate(r) ==
    /\ At(r, "SEND")
    /\ \/ Release(RequestOf(r)) /\ Return(r, "MODEL_ERROR")
       \/ /\ reservation[RequestOf(r)].state = "SETTLED"
          /\ Return(r, "STOPPED") /\ UNCHANGED reservation
    /\ UNCHANGED <<closed, sent>>

Send(r) ==
    /\ At(r, "SEND")
    /\ sent' = [sent EXCEPT ![RequestOf(r)] = @ + 1]
    /\ Goto(r, "AWAIT")
    /\ UNCHANGED <<reservation, closed>>

(* _settle_unknown: no answer in time, a failure, another request's answer,*)
(* no usage, too many tokens or no price for them.                         *)
SettleUnknown(r) ==
    LET q == RequestOf(r) IN
    /\ At(r, "AWAIT")
    /\ \/ /\ MaySettle(q, Reservation, FALSE) /\ Charge(q, Reservation, FALSE)
          /\ \E s \in {"MODEL_ERROR", "BUDGET_EXCEEDED"} : Finish(r, s, Reservation)
       \/ Return(r, "RECONCILE") /\ UNCHANGED reservation
    /\ UNCHANGED <<closed, sent>>

(* Mutant of Answered: an overrun is answered like any other call.         *)
AnsweredOverrun(r, cost) ==
    \/ \E s \in {"SUCCEEDED", "MODEL_ERROR", "DENIED"} : Finish(r, s, cost)
    \/ job[r].index < MaxModelCalls /\ GoOn(r, cost)

(* What a settled answer leads to: the end of the task, or a Skill call    *)
(* and the next model call, as far as the profile lets it.                 *)
Answered(r, cost) ==
    IF cost > Reservation THEN Finish(r, "BUDGET_EXCEEDED", cost)
    ELSE \/ \E s \in {"SUCCEEDED", "MODEL_ERROR", "DENIED"} : Finish(r, s, cost)
         \/ /\ job[r].index <= MaxSkillCalls
            /\ IF job[r].index < MaxModelCalls THEN GoOn(r, cost)
               ELSE Finish(r, "BUDGET_EXCEEDED", cost)

Answer(r, cost) ==
    LET q == RequestOf(r) IN
    /\ At(r, "AWAIT")
    /\ \/ MaySettle(q, cost, TRUE) /\ Charge(q, cost, TRUE) /\ Answered(r, cost)
       \/ /\ ~MaySettle(q, cost, TRUE)
          /\ Finish(r, "RECONCILE", cost)
          /\ UNCHANGED reservation
    /\ UNCHANGED <<closed, sent>>

(* The run is cancelled: the call is settled unless that fails.            *)
Cancel(r) ==
    LET q == RequestOf(r) IN
    /\ At(r, "AWAIT")
    /\ MaySettle(q, Reservation, FALSE) /\ Charge(q, Reservation, FALSE)
    /\ Return(r, "STOPPED")
    /\ UNCHANGED <<closed, sent>>

Crash(r) ==
    /\ ~At(r, "IDLE")
    /\ Return(r, "STOPPED")
    /\ UNCHANGED <<reservation, closed, sent>>

-----------------------------------------------------------------------------
Init ==
    /\ reservation = [q \in Requests |-> NoReservation]
    /\ closed = {}
    /\ sent = [q \in Requests |-> 0]
    /\ job = [r \in Runners |-> [pc |-> "IDLE", task |-> CHOOSE t \in Tasks : TRUE,
                                 index |-> 1, cost |-> 0, status |-> "NONE"]]

Next ==
    \/ \E r \in Runners :
          \/ \E t \in Tasks : Run(r, t)
          \/ Reserve(r) \/ ReleaseLate(r) \/ Send(r) \/ SettleUnknown(r)
          \/ \E cost \in Costs : Answer(r, cost)
          \/ Cancel(r) \/ Crash(r)
    \/ \E c \in Candidates : ReleaseAllowance(c)
    \/ \E q \in Requests : SettlePending(q)

Spec == Init /\ [][Next]_vars

-----------------------------------------------------------------------------
(* The ledger and the memory of the runners keep their types, and what     *)
(* holds no money counts for nothing.                                      *)
TypeOK ==
    /\ reservation \in [Requests -> Reservations]
    /\ \A q \in Requests : reservation[q].state \in {"NONE", "RELEASED"} => reservation[q].cost = 0
    /\ closed \subseteq Evaluated
    /\ sent \in [Requests -> 0..1]
    /\ job \in [Runners -> JobRecord]

(* Whatever was reserved, settled, released and left to others in whatever *)
(* order, and apart from calls that cost more than their reservation: the  *)
(* phase stays within its limit, a candidate outside it within its own,    *)
(* and what candidates spend beyond their own limits comes from closed     *)
(* candidates, never from one that has not spent its share                 *)
(* (_assert_capacity, release_candidate_allowance).                        *)
Counted(c) ==
    MapThenSumSet(LAMBDA q : IF reservation[q].cost > Reservation THEN Reservation
                             ELSE reservation[q].cost,
                  {q \in Requests : CandidateOf[q[1]] = c})
CommittedWithinBudget ==
    /\ MapThenSumSet(LAMBDA c : Counted(c), Evaluated) <= PhaseLimit
    /\ \A c \in Candidates \ Evaluated : Counted(c) <= Limit[c]
    /\ MapThenSumSet(LAMBDA c : Extra(Counted(c), c), Evaluated \ closed)
          <= MapThenSumSet(LAMBDA c : Limit[c] - Counted(c), closed)

(* A run that succeeded was charged, in the ledger, exactly the cost it    *)
(* returns, and its calls were made: no recovery and no second run of the  *)
(* task settled one of them differently, and none of them ran over (run,   *)
(* PRICE_RESERVATION_OVERRUN).                                             *)
OutcomesAreTrue ==
    \A r \in Runners : job[r].status = "SUCCEEDED" =>
        LET made == {job[r].task} \X (1..job[r].index) IN
        /\ job[r].cost = MapThenSumSet(LAMBDA q : reservation[q].cost, made)
        /\ \A q \in made : /\ sent[q] = 1
                           /\ reservation[q].usage_known
                           /\ reservation[q].cost <= Reservation

(* The refinement: a model call is paid for once.                          *)
CallsOnce == INSTANCE CallOnce WITH
    Calls <- Requests,
    reserved <- {q \in Requests : reservation[q].state # "NONE"},
    answer <- [q \in Requests |->
                IF reservation[q].state \in {"NONE", "RESERVED"} THEN "OPEN"
                ELSE IF reservation[q].state = "RELEASED" THEN "UNSENT"
                ELSE IF reservation[q].usage_known THEN "OK" ELSE "LOST"]
CallsAreMadeOnce == CallsOnce!Spec
=============================================================================
