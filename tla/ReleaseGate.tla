----------------------------- MODULE ReleaseGate -----------------------------
(***************************************************************************)
(* The decision to release with or without decision support: the results   *)
(* of the technical cases, the study with human participants, and the      *)
(* promotion that joins them with the smoke report.                        *)
(*                                                                         *)
(* The stores are those of PostgreSQL; the in-memory ones do the same but  *)
(* for append_case_result, which refuses results of a finished run there.  *)
(* A case result is PASS, FAIL, BLOCKED or SEVERE (a PASS with a severe    *)
(* violation); the answers of the participants and the three metrics are   *)
(* not told apart, so what the strict AND gate says is a choice.           *)
(***************************************************************************)
EXTENDS Naturals, FiniteSets

CONSTANTS
    Participants, Cases, NoOne,
    Trials,             \* assignments of a session (8)
    ParticipantLimit,   \* participant_limit of the study
    MinParticipants     \* participants a promotion needs (3)

VARIABLES
    result,     \* result of each case of the release run
    technical,  \* the technical decision, once it was made
    final,      \* the final decision, once it was saved
    session,    \* the session of each participant
    reading,    \* promotion_evidence between its two reads, and its outcome
    promotion   \* the promotion decision, once it was built

vars == <<result, technical, final, session, reading, promotion>>

CaseStatus == {"PASS", "FAIL", "BLOCKED", "SEVERE"}
TechnicalStatus == {"PASS", "FAIL", "BLOCKED"}
PromotionStatus == {"PROMOTE", "KEEP_DISABLED", "BLOCKED"}
FinalStatus == {"NOT_RELEASED", "ENABLED", "DISABLED"}
Sessions == [status : {"OPEN", "COMPLETED"}, answered : 0..Trials, started : BOOLEAN]
Readings == [status : {"READY", "BLOCKED"}, of : SUBSET Participants,
             responses : [Participants -> 0..Trials] \cup {NoOne}]

Init ==
    /\ result = [c \in Cases |-> NoOne]
    /\ technical = NoOne
    /\ final = NoOne
    /\ session = [p \in Participants |-> NoOne]
    /\ reading = NoOne
    /\ promotion = NoOne

Joined == {p \in Participants : session[p] # NoOne}
BetweenReads == reading # NoOne /\ reading.responses = NoOne

(* _technical_for, which never asks the caller for counts.                 *)
TechnicalFor(results) ==
    CASE \E c \in Cases : results[c] \in {NoOne, "BLOCKED"} -> "BLOCKED"
      [] OTHER -> IF \A c \in Cases : results[c] = "PASS" THEN "PASS" ELSE "FAIL"

(* _final_for: the technical decision first, then the promotion.           *)
FinalFor(decided, promoted) ==
    CASE decided # "PASS" -> "NOT_RELEASED"
      [] decided = "PASS" /\ promoted = "PROMOTE" -> "ENABLED"
      [] OTHER -> "DISABLED"

-----------------------------------------------------------------------------
(* The first result of a case stays.                                       *)
AppendCaseResult(c, status) ==
    /\ result[c] = NoOne
    /\ result' = [result EXCEPT ![c] = status]
    /\ UNCHANGED <<technical, final, session, reading, promotion>>

(* The technical decision, once.                                           *)
FinalizeTechnical ==
    /\ technical = NoOne
    /\ technical' = TechnicalFor(result)
    /\ UNCHANGED <<result, final, session, reading, promotion>>

(* create_session: one per participant, up to the limit.                   *)
CreateSession(p) ==
    /\ session[p] = NoOne
    /\ Cardinality(Joined) < ParticipantLimit
    /\ session' = [session EXCEPT ![p] = [status |-> "OPEN", answered |-> 0, started |-> FALSE]]
    /\ UNCHANGED <<result, technical, final, reading, promotion>>

(* next_trial starts the first trial without a response, or finds none.    *)
NextTrial(p) ==
    /\ session[p] # NoOne
    /\ session' = IF session[p].answered = Trials
                  THEN [session EXCEPT ![p].status = "COMPLETED"]
                  ELSE [session EXCEPT ![p].started = TRUE]
    /\ UNCHANGED <<result, technical, final, reading, promotion>>

(* record_response: only to a trial that was started, once; the last one   *)
(* completes the session.                                                  *)
RecordResponse(p) ==
    /\ session[p] # NoOne /\ session[p].started
    /\ session' = [session EXCEPT
          ![p].answered = @ + 1, ![p].started = FALSE,
          ![p].status = IF session[p].answered + 1 = Trials THEN "COMPLETED" ELSE @]
    /\ UNCHANGED <<result, technical, final, reading, promotion>>

(* promotion_evidence reads the sessions ...                               *)
ReadSessions ==
    /\ ~BetweenReads
    /\ promotion = NoOne
    /\ reading' =
          [of |-> Joined, responses |-> NoOne,
           status |-> IF /\ Cardinality(Joined) >= MinParticipants
                         /\ \A p \in Joined : session[p].status = "COMPLETED"
                      THEN "READY" ELSE "BLOCKED"]
    /\ UNCHANGED <<result, technical, final, session, promotion>>

(* ... and then the responses, which participants go on recording.         *)
ReadResponses ==
    /\ BetweenReads
    /\ reading' = [reading EXCEPT !.responses =
          [p \in Participants |-> IF p \in Joined THEN session[p].answered ELSE 0]]
    /\ UNCHANGED <<result, technical, final, session, promotion>>

(* build_promotion_decision: a complete smoke report, evidence that is     *)
(* READY, and only then the metrics.                                       *)
BuildPromotion(smokeComplete, meetsQuality) ==
    /\ promotion = NoOne
    /\ ~BetweenReads
    /\ promotion' =
          CASE ~smokeComplete \/ reading = NoOne -> "BLOCKED"
            [] OTHER -> IF reading.status = "BLOCKED" THEN "BLOCKED"
                        ELSE IF meetsQuality THEN "PROMOTE" ELSE "KEEP_DISABLED"
    /\ UNCHANGED <<result, technical, final, session, reading>>

(* save_promotion: after the technical decision; the first one stays.      *)
SavePromotion(promoted) ==
    /\ technical # NoOne
    /\ final = NoOne
    /\ final' = FinalFor(technical, promoted)
    /\ UNCHANGED <<result, technical, session, reading, promotion>>

Next ==
    \/ \E c \in Cases, status \in CaseStatus : AppendCaseResult(c, status)
    \/ FinalizeTechnical
    \/ \E p \in Participants : CreateSession(p)
    \/ \E p \in Participants : NextTrial(p)
    \/ \E p \in Participants : RecordResponse(p)
    \/ ReadSessions
    \/ ReadResponses
    \/ \E smokeComplete, meetsQuality \in BOOLEAN : BuildPromotion(smokeComplete, meetsQuality)
    \/ \E promoted \in {"BLOCKED", promotion} \ {NoOne} : SavePromotion(promoted)

Spec == Init /\ [][Next]_vars

-----------------------------------------------------------------------------
(* Rows and decisions keep their types.                                    *)
TypeOK ==
    /\ result \in [Cases -> CaseStatus \cup {NoOne}]
    /\ technical \in TechnicalStatus \cup {NoOne}
    /\ final \in FinalStatus \cup {NoOne}
    /\ session \in [Participants -> Sessions \cup {NoOne}]
    /\ reading \in Readings \cup {NoOne}
    /\ promotion \in PromotionStatus \cup {NoOne}

(* The copilot is enabled only when every case passed and enough people    *)
(* answered every trial of theirs, whatever was appended, recorded or read *)
(* in between.                                                             *)
EnablingIsBacked ==
    final = "ENABLED" =>
        /\ \A c \in Cases : result[c] = "PASS"
        /\ \E ready \in SUBSET Joined :
            /\ Cardinality(ready) >= MinParticipants
            /\ \A p \in ready : session[p].answered = Trials

(* What one would expect as well and two reads do not promise: the         *)
(* responses of evidence that is READY are those of its participants.      *)
ResponsesAreCounted ==
    reading # NoOne /\ reading.status = "READY" /\ reading.responses # NoOne =>
        \A p \in Participants : reading.responses[p] = IF p \in reading.of THEN Trials ELSE 0

(* Also not promised: the decision stays what the results say.  PostgreSQL *)
(* takes a missing result after the run was finalized.                     *)
DecisionTellsResults == technical # NoOne => technical = TechnicalFor(result)
=============================================================================
