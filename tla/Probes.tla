------------------------------- MODULE Probes -------------------------------
(***************************************************************************)
(* Two diagnoses of the model that may be made once each, whatever comes   *)
(* of them: the planner diagnostic ("V3") and the JSON probe ("V4").  Each *)
(* has append-only tables with triggers of their own and a runner that     *)
(* writes its intent, calls the model and closes the run with what it got. *)
(*                                                                         *)
(* Several processes may run either.  The V3 runner calls the model        *)
(* through BoundedSpecialistRunner, which swallows what the port raises    *)
(* and stops when the deadline passed in the reservation.                  *)
(***************************************************************************)
EXTENDS Naturals

CONSTANTS Processes, NoOne

VARIABLES
    begun,      \* the probes with a dispatch attempt
    sent,       \* how often the request of a probe left
    fact,       \* the model failure fact
    receipt,    \* the provider receipt
    verdict,    \* the validation fact, which only V3 has
    outcome,    \* the outcome of the run
    job         \* the execute() each process is in

vars == <<begun, sent, fact, receipt, verdict, outcome, job>>

Kinds == {"V3", "V4"}
Facts == {"NOT_SENT", "SENT", "UNKNOWN"}
Receipts == {"GOOD", "BAD", "INCOMPLETE"}   \* BAD: the content is refused
Outcomes == {"PASS", "FAILED", "BLOCKED"}
Jobs == [probe : Kinds, at : {"BEGIN", "CALL", "SENT", "ANSWERED", "RECORDED", "JUDGED"},
         got : Facts \cup Receipts \cup {"NONE"}]

Init ==
    /\ begun = {}
    /\ sent = [k \in Kinds |-> 0]
    /\ fact = [k \in Kinds |-> "NONE"]
    /\ receipt = [k \in Kinds |-> "NONE"]
    /\ verdict = [k \in Kinds |-> "NONE"]
    /\ outcome = [k \in Kinds |-> "NONE"]
    /\ job = [o \in Processes |-> NoOne]

At(o, step) == job[o] # NoOne /\ job[o].at = step
GoTo(o, step) == job' = [job EXCEPT ![o].at = step]
Got(o, g) == job' = [job EXCEPT ![o].at = "ANSWERED", ![o].got = g]
Leave(o) == job' = [job EXCEPT ![o] = NoOne]

(* What a runner makes of what was recorded.                               *)
VerdictOf(k) ==
    IF receipt[k] = "GOOD" THEN "PASS"
    ELSE IF fact[k] = "NOT_SENT" THEN "BLOCKED" ELSE "FAILED"

(* What the triggers let a verdict (V3) or an outcome (V4) rest on.        *)
Backed(k, v) ==
    CASE v = "PASS" -> receipt[k] \in {"GOOD", "BAD"} /\ fact[k] = "NONE"
      [] v = "FAILED" -> fact[k] \in {"SENT", "UNKNOWN"} \/ receipt[k] # "NONE"
      [] v = "BLOCKED" -> fact[k] = "NOT_SENT"

-----------------------------------------------------------------------------
(* ensure_run creates the run or finds it with the same identity.          *)
Start(o, k) ==
    /\ job[o] = NoOne
    /\ job' = [job EXCEPT ![o] = [probe |-> k, at |-> "BEGIN", got |-> "NONE"]]
    /\ UNCHANGED <<begun, sent, fact, receipt, verdict, outcome>>

(* begin_dispatch under the lock of the run: one attempt, ever.            *)
BeginDispatch(o) ==
    /\ At(o, "BEGIN")
    /\ job[o].probe \notin begun /\ outcome[job[o].probe] = "NONE"
    /\ begun' = begun \cup {job[o].probe}
    /\ GoTo(o, "CALL")
    /\ UNCHANGED <<sent, fact, receipt, verdict, outcome>>

(* The attempt exists: V3 reports PRE_DISPATCH_BLOCKED, V4 raises.         *)
RefuseDispatch(o) ==
    /\ At(o, "BEGIN")
    /\ job[o].probe \in begun
    /\ Leave(o)
    /\ UNCHANGED <<begun, sent, fact, receipt, verdict, outcome>>

(* The deadline passed in the reservation, or the port raised before it    *)
(* sent: V3 goes on without an outcome of the port (V4 raises: Crash).     *)
StopBeforeSend(o) ==
    /\ At(o, "CALL") /\ job[o].probe = "V3"
    /\ Got(o, "NONE")
    /\ UNCHANGED <<begun, sent, fact, receipt, verdict, outcome>>

Send(o) ==
    /\ At(o, "CALL")
    /\ sent' = [sent EXCEPT ![job[o].probe] = @ + 1]
    /\ GoTo(o, "SENT")
    /\ UNCHANGED <<begun, fact, receipt, verdict, outcome>>

(* The port returns: a failure before or after sending, a success, or, for *)
(* V3, nothing it can use (V4 raises: Crash).                              *)
Answer(o, g) ==
    /\ \/ At(o, "CALL") /\ g = "NOT_SENT"
       \/ At(o, "SENT") /\ g \in {"SENT", "GOOD", "BAD", "INCOMPLETE"}
       \/ At(o, "SENT") /\ g = "NONE" /\ job[o].probe = "V3"
    /\ Got(o, g)
    /\ UNCHANGED <<begun, sent, fact, receipt, verdict, outcome>>

(* append_model_failure, append_failure: without an outcome of the port it *)
(* is unknown whether the request was sent.                                *)
AppendFailure(o) ==
    LET k == job[o].probe
    IN  /\ At(o, "ANSWERED") /\ job[o].got \in {"NOT_SENT", "SENT", "NONE"}
        /\ fact[k] = "NONE" /\ receipt[k] = "NONE"
        /\ fact' = [fact EXCEPT ![k] = IF job[o].got = "NONE" THEN "UNKNOWN" ELSE job[o].got]
        /\ GoTo(o, "RECORDED")
        /\ UNCHANGED <<begun, sent, receipt, verdict, outcome>>

(* append_provider_receipt, append_receipt: V3 refuses an incomplete       *)
(* receipt, and the run stays open.                                        *)
AppendReceipt(o) ==
    LET k == job[o].probe
    IN  /\ At(o, "ANSWERED") /\ job[o].got \in Receipts
        /\ fact[k] = "NONE" /\ receipt[k] = "NONE"
        /\ IF k = "V3" /\ job[o].got = "INCOMPLETE"
           THEN Leave(o) /\ UNCHANGED receipt
           ELSE receipt' = [receipt EXCEPT ![k] = job[o].got] /\ GoTo(o, "RECORDED")
        /\ UNCHANGED <<begun, sent, fact, verdict, outcome>>

AppendValidation(o) ==
    LET k == job[o].probe
    IN  /\ At(o, "RECORDED") /\ k = "V3"
        /\ verdict[k] = "NONE"
        /\ Backed(k, VerdictOf(k))
        /\ verdict' = [verdict EXCEPT ![k] = VerdictOf(k)]
        /\ GoTo(o, "JUDGED")
        /\ UNCHANGED <<begun, sent, fact, receipt, outcome>>

(* V3: close_case rests on the validation fact.                            *)
CloseCase(o) ==
    LET k == job[o].probe
    IN  /\ At(o, "JUDGED")
        /\ k \in begun /\ outcome[k] = "NONE"
        /\ verdict[k] = VerdictOf(k)
        /\ outcome' = [outcome EXCEPT ![k] = VerdictOf(k)]
        /\ Leave(o)
        /\ UNCHANGED <<begun, sent, fact, receipt, verdict>>

(* V4: close rests on the failure fact or the receipt.                     *)
Close(o) ==
    LET k == job[o].probe
    IN  /\ At(o, "RECORDED") /\ k = "V4"
        /\ k \in begun /\ outcome[k] = "NONE"
        /\ Backed(k, VerdictOf(k))
        /\ outcome' = [outcome EXCEPT ![k] = VerdictOf(k)]
        /\ Leave(o)
        /\ UNCHANGED <<begun, sent, fact, receipt, verdict>>

(* Something raises or the process stops; nothing recovers an open run.    *)
Crash(o) ==
    /\ job[o] # NoOne
    /\ Leave(o)
    /\ UNCHANGED <<begun, sent, fact, receipt, verdict, outcome>>

Next == \E o \in Processes :
    \/ \E k \in Kinds : Start(o, k)
    \/ BeginDispatch(o) \/ RefuseDispatch(o)
    \/ StopBeforeSend(o) \/ Send(o)
    \/ \E g \in Facts \cup Receipts \cup {"NONE"} : Answer(o, g)
    \/ AppendFailure(o) \/ AppendReceipt(o) \/ AppendValidation(o)
    \/ CloseCase(o) \/ Close(o) \/ Crash(o)

Spec == Init /\ [][Next]_vars

-----------------------------------------------------------------------------
TypeOK ==
    /\ begun \subseteq Kinds
    /\ sent \in [Kinds -> Nat]
    /\ fact \in [Kinds -> Facts \cup {"NONE"}]
    /\ receipt \in [Kinds -> Receipts \cup {"NONE"}]
    /\ verdict \in [Kinds -> Outcomes \cup {"NONE"}]
    /\ outcome \in [Kinds -> Outcomes \cup {"NONE"}]
    /\ job \in [Processes -> Jobs \cup {NoOne}]

(* However many runners race and wherever they stop, the outcome of a      *)
(* probe tells what happened outside: a pass was sent and well received, a *)
(* blocked one was never sent, and a failed one was sent unless its fact   *)
(* says that nobody knows (execute, close_case, close).                    *)
OutcomesAreTrue == \A k \in Kinds :
    /\ outcome[k] = "PASS" => sent[k] = 1 /\ receipt[k] = "GOOD"
    /\ outcome[k] = "BLOCKED" => sent[k] = 0
    /\ outcome[k] = "FAILED" /\ fact[k] # "UNKNOWN" => sent[k] = 1
    /\ fact[k] = "NONE" \/ receipt[k] = "NONE"

(* What the docstring of release() says as well and the code does not do:  *)
(* a V3 run whose deadline passed before it sent is closed as unsent.      *)
(* UNKNOWN facts leave it FAILED, so no run of TLC checks this.            *)
UnsentIsClosedUnsent ==
    \A k \in Kinds : sent[k] = 0 /\ outcome[k] # "NONE" => outcome[k] = "BLOCKED"

(* A probe is a call that is reserved, made once and answered for good.    *)
CallsOnce == INSTANCE CallOnce WITH
    Calls <- Kinds,
    reserved <- begun,
    answer <- [k \in Kinds |->
                IF receipt[k] # "NONE" THEN "OK"
                ELSE IF fact[k] = "NOT_SENT" THEN "UNSENT"
                ELSE IF fact[k] \in {"SENT", "UNKNOWN"} THEN "LOST" ELSE "OPEN"]
CallsAreMadeOnce == CallsOnce!Spec
=============================================================================
