---------------------------- MODULE CopilotSmoke ----------------------------
(***************************************************************************)
(* The smoke test of the copilot before a release: CopilotSmokeRunner asks *)
(* the model once per case and books every request in the budget of phase  *)
(* 15.  Runners in several processes share the ledger; a runner may crash, *)
(* and run again with the responses its object remembers.                  *)
(*                                                                         *)
(* Both budget stores are one model.  A response is a cost, or none when   *)
(* the usage is missing, and a verdict: good, or a failure, a fallback, an *)
(* invalid schema or a severe violation, which the report treats alike.    *)
(***************************************************************************)
EXTENDS Naturals, Sequences, FiniteSetsExt

CONSTANTS
    Processes, NoOne,
    CaseOrder,      \* the cases of the smoke, in the order they are sent
    Limit,          \* PHASE15_BUDGET_CNY
    Reservation,    \* reserved_case_budget_cny
    Costs           \* what a response may cost

VARIABLES
    ledger,         \* the reservation of each request
    answered,       \* the responses the runner of each process remembers
    job,            \* the run each process is in
    report          \* the last report of each process

vars == <<ledger, answered, job, report>>

Cases == {CaseOrder[i] : i \in DOMAIN CaseOrder}
Reservations ==
    [state : {"RESERVED", "SETTLED"}, amount : 0..Limit, usageKnown : BOOLEAN] \cup {NoOne}
Tally == [next : 1..(Len(CaseOrder) + 1), inFlight : BOOLEAN,
          calls : 0..Len(CaseOrder), duplicates : 0..Len(CaseOrder),
          failed : BOOLEAN, unpriced : BOOLEAN, exceeded : BOOLEAN]
Reports == [status : {"PASS", "FAIL", "BLOCKED"}, eligible : BOOLEAN]

Init ==
    /\ ledger = [c \in Cases |-> NoOne]
    /\ answered = [o \in Processes |-> {}]
    /\ job = [o \in Processes |-> NoOne]
    /\ report = [o \in Processes |-> NoOne]

(* _exposure: what is reserved and what was settled.                       *)
Exposure == MapThenSumSet(LAMBDA c : IF ledger[c] = NoOne THEN 0 ELSE ledger[c].amount, Cases)

IsSettled(c) == ledger[c] # NoOne /\ ledger[c].state = "SETTLED"

(* settle: the first settlement of a request stays; without a known usage  *)
(* it takes the reservation.                                               *)
Settlement(cost) ==
    IF cost # NoOne /\ cost <= Reservation
    THEN [state |-> "SETTLED", amount |-> cost, usageKnown |-> TRUE]
    ELSE [state |-> "SETTLED", amount |-> Reservation, usageKnown |-> FALSE]

(* The status of a run from its tally, in the order of the code: a run     *)
(* that only replayed passes.                                              *)
StatusOf(t) ==
    CASE t.exceeded -> "BLOCKED"
      [] ~t.exceeded /\ t.calls = 0 /\ t.duplicates = Len(CaseOrder) -> "PASS"
      [] ~t.exceeded /\ t.calls > 0 /\ t.failed -> "FAIL"
      [] ~t.exceeded /\ t.calls > 0 /\ ~t.failed /\ t.unpriced -> "BLOCKED"
      [] OTHER -> "PASS"

ReportOf(t) ==
    [status |-> StatusOf(t),
     eligible |-> StatusOf(t) = "PASS" /\ t.calls + t.duplicates = Len(CaseOrder)]

Running(o) == job[o] # NoOne
Case(o) == CaseOrder[job[o].next]

-----------------------------------------------------------------------------
(* A run of the smoke over all its cases.                                  *)
Start(o) ==
    /\ job[o] = NoOne
    /\ job' = [job EXCEPT ![o] =
          [next |-> 1, inFlight |-> FALSE, calls |-> 0, duplicates |-> 0,
           failed |-> FALSE, unpriced |-> FALSE, exceeded |-> FALSE]]
    /\ UNCHANGED <<ledger, answered, report>>

(* A case that needs no call: the runner remembers its response, or the    *)
(* ledger says that another run settled it.                                *)
Replay(o) ==
    /\ Running(o) /\ ~job[o].inFlight /\ job[o].next <= Len(CaseOrder)
    /\ Case(o) \in answered[o] \/ IsSettled(Case(o))
    /\ job' = [job EXCEPT ![o].next = @ + 1, ![o].duplicates = @ + 1]
    /\ UNCHANGED <<ledger, answered, report>>

(* reserve, then the call.  A request that is reserved already, by a run   *)
(* that crashed or by one still waiting for its response, is sent again.   *)
ReserveAndSend(o) ==
    /\ Running(o) /\ ~job[o].inFlight /\ job[o].next <= Len(CaseOrder)
    /\ Case(o) \notin answered[o]
    /\ \/ /\ ledger[Case(o)] = NoOne
          /\ Exposure + Reservation <= Limit
          /\ ledger' = [ledger EXCEPT ![Case(o)] =
                [state |-> "RESERVED", amount |-> Reservation, usageKnown |-> FALSE]]
       \/ /\ ledger[Case(o)] # NoOne /\ ~IsSettled(Case(o))
          /\ UNCHANGED ledger
    /\ job' = [job EXCEPT ![o].inFlight = TRUE]
    /\ UNCHANGED <<answered, report>>

(* reserve refuses: the run stops asking and reports what it has.          *)
ExceedBudget(o) ==
    /\ Running(o) /\ ~job[o].inFlight /\ job[o].next <= Len(CaseOrder)
    /\ Case(o) \notin answered[o]
    /\ ledger[Case(o)] = NoOne
    /\ Exposure + Reservation > Limit
    /\ job' = [job EXCEPT ![o].exceeded = TRUE, ![o].next = Len(CaseOrder) + 1]
    /\ UNCHANGED <<ledger, answered, report>>

(* The response arrives, is remembered and settled.  When another run has  *)
(* settled the request otherwise, settle raises and the run ends without a *)
(* report.                                                                 *)
ReceiveAndSettle(o, cost, good) ==
    LET c == Case(o)
        t == job[o]
    IN  /\ Running(o) /\ job[o].inFlight
        /\ answered' = [answered EXCEPT ![o] = @ \cup {c}]
        /\ IF IsSettled(c) /\ ledger[c] # Settlement(cost)
           THEN job' = [job EXCEPT ![o] = NoOne] /\ UNCHANGED ledger
           ELSE /\ ledger' = [ledger EXCEPT ![c] = Settlement(cost)]
                /\ job' = [job EXCEPT ![o] =
                     [t EXCEPT !.next = @ + 1, !.inFlight = FALSE, !.calls = @ + 1,
                               !.failed = @ \/ ~good,
                               !.unpriced = @ \/ ~Settlement(cost).usageKnown]]
        /\ UNCHANGED report

(* The report ends the run.                                                *)
Report(o) ==
    /\ Running(o) /\ ~job[o].inFlight /\ job[o].next > Len(CaseOrder)
    /\ report' = [report EXCEPT ![o] = ReportOf(job[o])]
    /\ job' = [job EXCEPT ![o] = NoOne]
    /\ UNCHANGED <<ledger, answered>>

(* The process stops; reservations stay, what the runner remembers is lost.*)
Crash(o) ==
    /\ Running(o) \/ answered[o] # {}
    /\ job' = [job EXCEPT ![o] = NoOne]
    /\ answered' = [answered EXCEPT ![o] = {}]
    /\ UNCHANGED <<ledger, report>>

Next ==
    \/ \E o \in Processes : Start(o)
    \/ \E o \in Processes : Replay(o)
    \/ \E o \in Processes : ReserveAndSend(o)
    \/ \E o \in Processes : ExceedBudget(o)
    \/ \E o \in Processes, cost \in Costs \cup {NoOne}, good \in BOOLEAN :
            ReceiveAndSettle(o, cost, good)
    \/ \E o \in Processes : Report(o)
    \/ \E o \in Processes : Crash(o)

Spec == Init /\ [][Next]_vars

-----------------------------------------------------------------------------
(* The ledger, the tallies and the reports keep their types.               *)
TypeOK ==
    /\ ledger \in [Cases -> Reservations]
    /\ answered \in [Processes -> SUBSET Cases]
    /\ job \in [Processes -> Tally \cup {NoOne}]
    /\ report \in [Processes -> Reports \cup {NoOne}]

(* Whatever the runs do beside each other and however often a request is   *)
(* sent, reservations and settlements fit into the budget.                 *)
CommittedWithinBudget == Exposure <= Limit

(* A report that may promote rests on settled requests for every case, and *)
(* what a runner remembers was settled.                                    *)
OutcomesAreTrue ==
    /\ \A o \in Processes : report[o] # NoOne /\ report[o].eligible => \A c \in Cases : IsSettled(c)
    /\ \A o \in Processes : \A c \in answered[o] : IsSettled(c)

(* What one would expect as well, and what the code does not promise: once *)
(* a report was FAIL, no later report promotes.  A run that only replays   *)
(* passes whatever the responses were, so no run of TLC checks this.       *)
FailedSmokeStaysFailed ==
    [][\A o, q \in Processes :
        report[o] # NoOne /\ report[o].status = "FAIL" /\ report'[q] # report[q]
            => ~report'[q].eligible]_vars
=============================================================================
