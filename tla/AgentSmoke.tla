----------------------------- MODULE AgentSmoke -----------------------------
(***************************************************************************)
(* The smoke test of the two agents of phase 16: for each case             *)
(* Phase16SmokeRunner reserves a budget, asks the analyst and then the     *)
(* planner, and settles both together.  Processes share the ledger; the    *)
(* in-memory and the PostgreSQL store are one model.                       *)
(***************************************************************************)
EXTENDS Naturals, Sequences, FiniteSets, FiniteSetsExt, SequencesExt

CONSTANTS
    Processes, NoOne,
    CaseLists,      \* the case_ids a run may be given
    Limit,          \* PHASE16_SMOKE_BUDGET_CNY
    MaxCases,       \* PHASE16_SMOKE_MAX_CASES
    Reservation,    \* reserved_case_budget_cny
    Costs           \* what an answer with usage may cost

VARIABLES
    ledger,         \* the reservation of each case
    sent,           \* how often each agent was asked about each case
    job,            \* the run each process is in
    report          \* the last report of each process, with its cases

vars == <<ledger, sent, job, report>>

Cases == UNION {ToSet(list) : list \in CaseLists}
Agents == {"ANALYST", "PLANNER"}
Statuses == {"PASS", "FAIL", "INCONCLUSIVE", "BLOCKED"}
Reservations ==
    [state : {"RESERVED", "SETTLED", "RELEASED"}, amount : 0..Limit,
     usageKnown : BOOLEAN, outcome : Statuses \cup {NoOne}]
RunRecords ==
    [cases : CaseLists, next : Nat, agent : Agents \cup {NoOne},
     inFlight : BOOLEAN, cost : 0..Reservation]
Reports == [status : Statuses, cases : CaseLists]

Init ==
    /\ ledger = [c \in Cases |-> NoOne]
    /\ sent = [k \in Cases \X Agents |-> 0]
    /\ job = [o \in Processes |-> NoOne]
    /\ report = [o \in Processes |-> NoOne]

(* What holds a slot and money: all but what was released.                 *)
Held == {c \in Cases : ledger[c] # NoOne /\ ledger[c].state # "RELEASED"}
Exposure == MapThenSumSet(LAMBDA c : ledger[c].amount, Held)

Case(o) == job[o].cases[job[o].next]
BetweenCases(o) == job[o] # NoOne /\ job[o].agent = NoOne
CaseLeft(o) == job[o].next <= Len(job[o].cases)

ReportAs(o, status) ==
    /\ report' = [report EXCEPT ![o] = [status |-> status, cases |-> job[o].cases]]
    /\ job' = [job EXCEPT ![o] = NoOne]

(* settle, release: only of what is reserved.                              *)
CloseCase(c, state, amount, known, outcome) ==
    /\ ledger[c].state = "RESERVED"
    /\ ledger' = [ledger EXCEPT ![c] =
          [state |-> state, amount |-> amount, usageKnown |-> known, outcome |-> outcome]]

(* Nobody knows what the call cost: the whole reservation is spent.        *)
SettleUnknown(o) ==
    /\ CloseCase(Case(o), "SETTLED", ledger[Case(o)].amount, FALSE, "INCONCLUSIVE")
    /\ ReportAs(o, "INCONCLUSIVE")

-----------------------------------------------------------------------------
Start(o, list) ==
    /\ job[o] = NoOne
    /\ job' = [job EXCEPT ![o] = [cases |-> list, next |-> 1, agent |-> NoOne,
                                  inFlight |-> FALSE, cost |-> 0]]
    /\ UNCHANGED <<ledger, sent, report>>

(* reserve creates a reservation under the lock of the ledger.             *)
Reserve(o) ==
    /\ BetweenCases(o) /\ CaseLeft(o)
    /\ ledger[Case(o)] = NoOne
    /\ Cardinality(Held) < MaxCases
    /\ Exposure + Reservation <= Limit
    /\ ledger' = [ledger EXCEPT ![Case(o)] =
          [state |-> "RESERVED", amount |-> Reservation, usageKnown |-> FALSE, outcome |-> NoOne]]
    /\ job' = [job EXCEPT ![o].agent = "ANALYST", ![o].cost = 0]
    /\ UNCHANGED <<sent, report>>

ExceedBudget(o) ==
    /\ BetweenCases(o) /\ CaseLeft(o)
    /\ ledger[Case(o)] = NoOne
    /\ Cardinality(Held) >= MaxCases \/ Exposure + Reservation > Limit
    /\ ReportAs(o, "BLOCKED")
    /\ UNCHANGED <<ledger, sent>>

(* reserve finds the case: its stored outcome counts, and one without an   *)
(* outcome, by a run that crashed or goes on, is left to a person.         *)
Replay(o) ==
    /\ BetweenCases(o) /\ CaseLeft(o)
    /\ ledger[Case(o)] # NoOne
    /\ \/ /\ ledger[Case(o)].state = "RESERVED"
          /\ ReportAs(o, "BLOCKED")
       \/ /\ ledger[Case(o)].state # "RESERVED" /\ ledger[Case(o)].outcome = "PASS"
          /\ job' = [job EXCEPT ![o].next = @ + 1] /\ UNCHANGED report
       \/ /\ ledger[Case(o)].state # "RESERVED" /\ ledger[Case(o)].outcome # "PASS"
          /\ ReportAs(o, ledger[Case(o)].outcome)
    /\ UNCHANGED <<ledger, sent>>

(* complete: the request of the agent leaves.                              *)
Send(o) ==
    /\ job[o] # NoOne /\ job[o].agent # NoOne /\ ~job[o].inFlight
    /\ sent' = [sent EXCEPT ![<<Case(o), job[o].agent>>] = @ + 1]
    /\ job' = [job EXCEPT ![o].inFlight = TRUE]
    /\ UNCHANGED <<ledger, report>>

(* The port says that it did not send: the case is released when that was  *)
(* the analyst, and settled with the analyst's cost when the planner.      *)
RefuseSend(o) ==
    /\ job[o] # NoOne /\ job[o].agent # NoOne /\ ~job[o].inFlight
    /\ IF job[o].agent = "ANALYST"
       THEN CloseCase(Case(o), "RELEASED", ledger[Case(o)].amount, FALSE, "FAIL")
       ELSE CloseCase(Case(o), "SETTLED", job[o].cost, TRUE, "FAIL")
    /\ ReportAs(o, "FAIL")
    /\ UNCHANGED sent

(* The port raises, before or after it sent; fails after sending; or       *)
(* returns another identity or no usage.                                   *)
LoseCall(o) ==
    /\ job[o] # NoOne /\ job[o].agent # NoOne
    /\ SettleUnknown(o)
    /\ UNCHANGED sent

(* An answer with usage: the planner's turn, or the case has passed.       *)
Answer(o, cost) ==
    /\ job[o] # NoOne /\ job[o].inFlight
    /\ LET total == job[o].cost + cost
       IN  \/ total > Reservation /\ SettleUnknown(o)
           \/ /\ total <= Reservation /\ job[o].agent = "ANALYST"
              /\ job' = [job EXCEPT ![o].agent = "PLANNER", ![o].inFlight = FALSE, ![o].cost = total]
              /\ UNCHANGED <<ledger, report>>
           \/ /\ total <= Reservation /\ job[o].agent # "ANALYST"
              /\ CloseCase(Case(o), "SETTLED", total, TRUE, "PASS")
              /\ job' = [job EXCEPT ![o].agent = NoOne, ![o].inFlight = FALSE, ![o].next = @ + 1]
              /\ UNCHANGED report
    /\ UNCHANGED sent

Report(o) ==
    /\ BetweenCases(o) /\ ~CaseLeft(o)
    /\ ReportAs(o, "PASS")
    /\ UNCHANGED <<ledger, sent>>

(* The process stops; what it reserved stays reserved.                     *)
Crash(o) ==
    /\ job[o] # NoOne
    /\ job' = [job EXCEPT ![o] = NoOne]
    /\ UNCHANGED <<ledger, sent, report>>

Next == \E o \in Processes :
    \/ \E list \in CaseLists : Start(o, list)
    \/ Reserve(o) \/ ExceedBudget(o) \/ Replay(o)
    \/ Send(o) \/ RefuseSend(o) \/ LoseCall(o)
    \/ \E cost \in Costs : Answer(o, cost)
    \/ Report(o) \/ Crash(o)

Spec == Init /\ [][Next]_vars

-----------------------------------------------------------------------------
TypeOK ==
    /\ ledger \in [Cases -> Reservations \cup {NoOne}]
    /\ sent \in [Cases \X Agents -> Nat]
    /\ \A o \in Processes : job[o] # NoOne =>
          job[o] \in RunRecords /\ job[o].next \in 1..(Len(job[o].cases) + 1)
    /\ report \in [Processes -> Reports \cup {NoOne}]

(* Reservations and settlements of all runs fit into the budget, and the   *)
(* cases into the slots (reserve).                                         *)
CommittedWithinBudget == Exposure <= Limit /\ Cardinality(Held) <= MaxCases

(* However runs race and crash, no agent is asked twice about a case or    *)
(* before it is reserved; what was released cost nothing; a failed case    *)
(* was not planned and a passed one asked both; and a report tells the     *)
(* stored outcomes of its cases (run, _run_case).                          *)
OutcomesAreTrue ==
    /\ \A c \in Cases, g \in Agents : sent[<<c, g>>] <= (IF ledger[c] = NoOne THEN 0 ELSE 1)
    /\ \A c \in Cases : ledger[c] # NoOne =>
          /\ ledger[c].state = "RELEASED" => sent[<<c, "ANALYST">>] = 0
          /\ ledger[c].outcome = "FAIL" => sent[<<c, "PLANNER">>] = 0
          /\ ledger[c].outcome = "PASS" => \A g \in Agents : sent[<<c, g>>] = 1
    /\ \A o \in Processes : report[o] # NoOne =>
          LET outcomes == {ledger[c].outcome : c \in {x \in ToSet(report[o].cases) : ledger[x] # NoOne}}
          IN  CASE report[o].status = "PASS" ->
                      \A c \in ToSet(report[o].cases) : ledger[c] # NoOne /\ ledger[c].outcome = "PASS"
                [] report[o].status \in {"FAIL", "INCONCLUSIVE"} -> report[o].status \in outcomes
                [] OTHER -> TRUE
=============================================================================
