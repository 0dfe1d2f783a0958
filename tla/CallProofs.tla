----------------------------- MODULE CallProofs -----------------------------
(***************************************************************************)
(* Lemmas about the ledgers of the paid calls (but the smokes of           *)
(* LedgerProofs), for every set of runners and every list of cases: for    *)
(* each part an inductive invariant (Init, Step), what it says of the      *)
(* outcomes (Holds), and that every step makes each paid call at most once *)
(* (Refines).                                                              *)
(***************************************************************************)
EXTENDS MCCalls, DecisionProofs

-----------------------------------------------------------------------------
(* The smoke run.                                                          *)

(* An attempt: reserved for a claimed case, the planner after the analyst, *)
(* sent at most once, and what was recorded of it is true.                 *)
SmokeAttempt(k) ==
    /\ k \in begun => k[1] \in claimed
    /\ (k \in begun /\ k[2] = "PLANNER") => fact[<<k[1], "ANALYST">>] = "PASS"
    /\ sent[k] \in {0, 1}
    /\ sent[k] = 1 => k \in begun
    /\ k \in receipt => sent[k] = 1
    /\ fact[k] # "NONE" => k \in begun
    /\ fact[k] = "PASS" => k \in receipt
    /\ fact[k] = "NOT_SENT" => sent[k] = 0

(* What an outcome rests on, for good.                                     *)
SmokeCase(c) ==
    /\ outcome[c] \in Smoke!Passed => \A s \in Smoke!Stages : fact[<<c, s>>] = "PASS"
    /\ outcome[c] \in Smoke!Failed => \E s \in Smoke!Stages : fact[<<c, s>>] \in Smoke!Failed
    /\ outcome[c] \in Smoke!Blocked =>
        \A s \in Smoke!Stages : <<c, s>> \in begun =>
            fact[<<c, s>>] = "NOT_SENT" \/ (s = "ANALYST" /\ fact[<<c, s>>] = "PASS")

SmokeRows ==
    /\ Smoke!TypeOK /\ Smoke!OneCaseAtATime
    /\ \A k \in Smoke!Attempts : SmokeAttempt(k)
    /\ \A c \in Smoke!Cases : SmokeCase(c)

(* The attempt execution j works on, and whether it is its own.            *)
SmokeWork(j) == <<SmokeCases[j.at], j.stage>>
SmokeOwns(j) == j.pc \in {"SEND", "AWAIT", "JUDGE"}

(* An execution: every case before its own has passed, its case is         *)
(* claimed, and its attempt is as far as it is.                            *)
SmokeJob(j) ==
    /\ j.pc = "RECOVER" => j.at = 1
    /\ j.pc \notin {"IDLE", "RECOVER"} =>
        \A i \in DOMAIN SmokeCases : i < j.at => outcome[SmokeCases[i]] \in Smoke!Passed
    /\ j.pc \in {"BEGIN", "SEND", "AWAIT", "JUDGE", "CLOSE"} => SmokeCases[j.at] \in claimed
    /\ SmokeOwns(j) => SmokeWork(j) \in begun /\ fact[SmokeWork(j)] \in {"NONE", "UNKNOWN"}
    /\ j.pc = "SEND" => sent[SmokeWork(j)] = 0 /\ SmokeWork(j) \notin receipt
    /\ j.pc = "AWAIT" => sent[SmokeWork(j)] = 1
    /\ j.pc = "JUDGE" => sent[SmokeWork(j)] = 1 /\ SmokeWork(j) \in receipt
    /\ j.report = "PASS" => \A c \in Smoke!Cases : outcome[c] \in Smoke!Passed
    /\ j.report = "FAILED" => \E c \in Smoke!Cases : outcome[c] \in Smoke!Failed
    /\ j.report = "BLOCKED" => \E c \in Smoke!Cases : outcome[c] \in Smoke!Blocked

SmokeInv ==
    /\ SmokeRows
    /\ \A r \in Runners : SmokeJob(job[r])
    /\ \A r, q \in Runners :
        r # q /\ SmokeOwns(job[r]) /\ SmokeOwns(job[q]) => SmokeWork(job[r]) # SmokeWork(job[q])


-----------------------------------------------------------------------------
LEMMA SmokeInit ==
    ASSUME Smoke!Init
    PROVE  SmokeInv
<1>1. Smoke!TypeOK
  <2>1. Smoke!Idle("NONE") \in Smoke!JobRecord
    <3>1. 1 \in DOMAIN SmokeCases
      BY SmokeAssumption
    <3> QED BY <3>1 DEF Smoke!Idle, Smoke!JobRecord, Smoke!Steps, Smoke!Stages, Smoke!Blocked, Smoke!Failed
  <2> QED BY <2>1 DEF Smoke!Init, Smoke!TypeOK
<1>2. \A k \in Smoke!Attempts : SmokeAttempt(k)
  BY DEF Smoke!Init, SmokeAttempt
<1>3. \A c \in Smoke!Cases : SmokeCase(c)
  BY DEF Smoke!Init, SmokeCase, Smoke!Passed, Smoke!Failed, Smoke!Blocked
<1>4. Smoke!OneCaseAtATime
  BY DEF Smoke!Init, Smoke!OneCaseAtATime
<1>5. \A r \in Runners : job[r].pc = "IDLE" /\ job[r].report = "NONE"
  BY DEF Smoke!Init, Smoke!Idle
<1>6. \A r \in Runners : SmokeJob(job[r]) /\ ~SmokeOwns(job[r])
  BY <1>5 DEF SmokeJob, SmokeOwns
<1> QED BY <1>1, <1>2, <1>3, <1>4, <1>6 DEF SmokeInv, SmokeRows

LEMMA SmokeTypes ==
    ASSUME SmokeInv, NEW r \in Runners
    PROVE  /\ SmokeRows /\ Smoke!TypeOK /\ SmokeJob(job[r])
           /\ job \in [Runners -> Smoke!JobRecord] /\ job[r] \in Smoke!JobRecord
           /\ job[r].at \in DOMAIN SmokeCases /\ job[r].stage \in Smoke!Stages
           /\ Smoke!CaseOf(r) = SmokeCases[job[r].at] /\ Smoke!CaseOf(r) \in Smoke!Cases
           /\ Smoke!AttemptOf(r) = SmokeWork(job[r]) /\ SmokeWork(job[r]) \in Smoke!Attempts
           /\ SmokeAttempt(SmokeWork(job[r])) /\ SmokeCase(SmokeCases[job[r].at])
           /\ sent \in [Smoke!Attempts -> Nat]
           /\ fact \in [Smoke!Attempts -> {"NONE", "PASS", "NOT_SENT"} \cup Smoke!Failed]
           /\ outcome \in [Smoke!Cases -> {"NONE"} \cup Smoke!Passed \cup Smoke!Failed \cup Smoke!Blocked]
<1>1. /\ SmokeRows /\ Smoke!TypeOK /\ SmokeJob(job[r])
      /\ job \in [Runners -> Smoke!JobRecord] /\ job[r] \in Smoke!JobRecord
      /\ sent \in [Smoke!Attempts -> Nat]
      /\ fact \in [Smoke!Attempts -> {"NONE", "PASS", "NOT_SENT"} \cup Smoke!Failed]
      /\ outcome \in [Smoke!Cases -> {"NONE"} \cup Smoke!Passed \cup Smoke!Failed \cup Smoke!Blocked]
  BY DEF SmokeInv, SmokeRows, Smoke!TypeOK
<1>2. job[r].at \in DOMAIN SmokeCases /\ job[r].stage \in Smoke!Stages
  BY <1>1 DEF Smoke!JobRecord
<1>3. Smoke!CaseOf(r) = SmokeCases[job[r].at] /\ Smoke!CaseOf(r) \in Smoke!Cases
  BY <1>2 DEF Smoke!CaseOf, Smoke!Cases
<1>4. Smoke!AttemptOf(r) = SmokeWork(job[r]) /\ SmokeWork(job[r]) \in Smoke!Attempts
  BY <1>2, <1>3 DEF Smoke!AttemptOf, SmokeWork, Smoke!Attempts
<1> QED BY <1>1, <1>2, <1>3, <1>4 DEF SmokeRows

(* One execution moves on; the others keep their attempts.                 *)
LEMMA SmokeMoves ==
    ASSUME SmokeInv, NEW r \in Runners, NEW j \in Smoke!JobRecord, job' = [job EXCEPT ![r] = j],
           SmokeRows', SmokeJob(j)',
           \A c \in Smoke!Cases : outcome[c] # "NONE" => outcome'[c] = outcome[c],
           claimed \subseteq claimed', begun \subseteq begun',
           \A q \in Runners \ {r} : SmokeOwns(job[q]) =>
               LET k == SmokeWork(job[q])
               IN  sent'[k] = sent[k] /\ (k \in receipt' <=> k \in receipt) /\ fact'[k] \in {"NONE", "UNKNOWN"},
           SmokeOwns(j) => (SmokeOwns(job[r]) /\ SmokeWork(j) = SmokeWork(job[r])) \/ SmokeWork(j) \notin begun
    PROVE  SmokeInv'
<1>0. /\ job \in [Runners -> Smoke!JobRecord]
      /\ \A q \in Runners : SmokeJob(job[q])
  BY SmokeTypes DEF SmokeInv
<1>1. job'[r] = j /\ \A q \in Runners : q # r => job'[q] = job[q]
  BY <1>0
<1>2. \A c \in Smoke!Cases :
          /\ outcome[c] \in Smoke!Passed => outcome'[c] \in Smoke!Passed
          /\ outcome[c] \in Smoke!Failed => outcome'[c] \in Smoke!Failed
          /\ outcome[c] \in Smoke!Blocked => outcome'[c] \in Smoke!Blocked
  BY DEF Smoke!Passed, Smoke!Failed, Smoke!Blocked
<1>3. ASSUME NEW q \in Runners PROVE SmokeJob(job[q])'
  <2>1. CASE q = r
    BY <1>1, <2>1 DEF SmokeJob, SmokeOwns, SmokeWork
  <2>2. CASE q # r
    <3>1. PICK i \in Smoke!JobRecord : i = job[q] /\ i = job'[q]
      BY <1>0, <1>1, <2>2
    <3>2. SmokeJob(i)
      BY <1>0, <3>1
    <3>3. SmokeOwns(i) => SmokeWork(i) \in begun'
                          /\ sent'[SmokeWork(i)] = sent[SmokeWork(i)]
                          /\ (SmokeWork(i) \in receipt' <=> SmokeWork(i) \in receipt)
                          /\ fact'[SmokeWork(i)] \in {"NONE", "UNKNOWN"}
      BY <2>2, <3>1, <3>2 DEF SmokeJob
    <3>4. \A n \in DOMAIN SmokeCases : SmokeCases[n] \in Smoke!Cases
      BY DEF Smoke!Cases
    <3>5. SmokeJob(i)'
      BY <1>2, <3>2, <3>3, <3>4 DEF SmokeJob, SmokeOwns
    <3> QED BY <3>1, <3>5 DEF SmokeJob, SmokeOwns, SmokeWork
  <2> QED BY <2>1, <2>2
<1>4. ASSUME NEW p \in Runners, NEW q \in Runners, p # q, SmokeOwns(job'[p]), SmokeOwns(job'[q])
      PROVE  SmokeWork(job'[p]) # SmokeWork(job'[q])
  <2>1. \A i \in Runners : SmokeOwns(job[i]) => SmokeWork(job[i]) \in begun
    BY <1>0 DEF SmokeJob
  <2>2. CASE p = r
    BY <1>1, <1>4, <2>1, <2>2 DEF SmokeInv
  <2>3. CASE q = r
    BY <1>1, <1>4, <2>1, <2>3 DEF SmokeInv
  <2>4. CASE p # r /\ q # r
    BY <1>1, <1>4, <2>4 DEF SmokeInv
  <2> QED BY <2>2, <2>3, <2>4
<1>5. \A p, q \in Runners :
          (p # q /\ SmokeOwns(job[p])' /\ SmokeOwns(job[q])') => SmokeWork(job[p])' # SmokeWork(job[q])'
  BY <1>4 DEF SmokeOwns, SmokeWork
<1> QED BY <1>3, <1>5 DEF SmokeInv


-----------------------------------------------------------------------------
(* The actions that write no row a runner or an outcome rests on.          *)
LEMMA SmokeRowsStay ==
    ASSUME SmokeRows, Smoke!TypeOK', claimed' = claimed, UNCHANGED <<begun, sent, receipt, fact, outcome>>
    PROVE  SmokeRows'
BY DEF SmokeRows, SmokeAttempt, SmokeCase, Smoke!OneCaseAtATime

(* The next case, or the end of the run after the last one.                *)
LEMMA SmokeNext ==
    ASSUME SmokeInv, NEW r \in Runners, Smoke!NextCase(r), job[r].pc \notin {"IDLE", "RECOVER"},
           \A c \in Smoke!Cases : outcome[c] # "NONE" => outcome'[c] = outcome[c],
           outcome'[SmokeCases[job[r].at]] \in Smoke!Passed
    PROVE  \E j \in Smoke!JobRecord :
              /\ job' = [job EXCEPT ![r] = j] /\ j.pc \in {"IDLE", "CASE"}
              /\ SmokeJob(j)'
<1>0. /\ job \in [Runners -> Smoke!JobRecord] /\ job[r] \in Smoke!JobRecord
      /\ job[r].at \in DOMAIN SmokeCases /\ SmokeJob(job[r])
  BY SmokeTypes
<1>1. PICK n \in Nat : DOMAIN SmokeCases = 1..n /\ n = Len(SmokeCases) /\ n >= 1
  BY SmokeAssumption
<1>2. \A i \in DOMAIN SmokeCases : i < job[r].at => outcome'[SmokeCases[i]] \in Smoke!Passed
  <2>1. \A i \in DOMAIN SmokeCases : SmokeCases[i] \in Smoke!Cases
    BY DEF Smoke!Cases
  <2> QED BY <1>0, <2>1 DEF SmokeJob, Smoke!Passed
<1>3. CASE job[r].at < Len(SmokeCases)
  <2> DEFINE k == [job[r] EXCEPT !.pc = "CASE", !.at = job[r].at + 1]
  <2>1. job[r].at + 1 \in DOMAIN SmokeCases
    BY <1>0, <1>1, <1>3
  <2>2. /\ k \in Smoke!JobRecord /\ k.pc = "CASE" /\ k.at = job[r].at + 1 /\ k.report = job[r].report
    BY <1>0, <2>1 DEF Smoke!JobRecord, Smoke!Steps
  <2>3. job' = [job EXCEPT ![r] = k]
    BY <1>0, <1>3 DEF Smoke!NextCase
  <2> HIDE DEF k
  <2>4. PICK j \in Smoke!JobRecord : j = k
    BY <2>2
  <2>5. \A i \in DOMAIN SmokeCases : i < j.at => outcome'[SmokeCases[i]] \in Smoke!Passed
    <3>1. \A i \in DOMAIN SmokeCases : i < job[r].at + 1 => i < job[r].at \/ i = job[r].at
      BY <1>0, <1>1
    <3> QED BY <1>2, <2>2, <2>4, <3>1
  <2>6. /\ j.report = "PASS" => \A c \in Smoke!Cases : outcome'[c] \in Smoke!Passed
        /\ j.report = "FAILED" => \E c \in Smoke!Cases : outcome'[c] \in Smoke!Failed
        /\ j.report = "BLOCKED" => \E c \in Smoke!Cases : outcome'[c] \in Smoke!Blocked
    BY <1>0, <2>2, <2>4 DEF SmokeJob, Smoke!Passed, Smoke!Failed, Smoke!Blocked
  <2>7. SmokeJob(j)'
    BY <2>2, <2>4, <2>5, <2>6 DEF SmokeJob, SmokeOwns
  <2> QED BY <2>2, <2>3, <2>4, <2>7
<1>4. CASE ~(job[r].at < Len(SmokeCases))
  <2>1. job' = [job EXCEPT ![r] = Smoke!Idle("PASS")]
    BY <1>4 DEF Smoke!NextCase, Smoke!Finish
  <2>2. /\ Smoke!Idle("PASS") \in Smoke!JobRecord /\ Smoke!Idle("PASS").pc = "IDLE"
        /\ Smoke!Idle("PASS").report = "PASS"
    <3>1. 1 \in DOMAIN SmokeCases
      BY <1>1
    <3> QED BY <3>1 DEF Smoke!Idle, Smoke!JobRecord, Smoke!Steps, Smoke!Stages, Smoke!Blocked, Smoke!Failed
  <2>3. PICK j \in Smoke!JobRecord : j = Smoke!Idle("PASS") /\ j.pc = "IDLE" /\ j.report = "PASS"
    BY <2>2
  <2>4. \A c \in Smoke!Cases : outcome'[c] \in Smoke!Passed
    <3>1. \A i \in DOMAIN SmokeCases : i < job[r].at \/ i = job[r].at
      BY <1>0, <1>1, <1>4
    <3>2. \A i \in DOMAIN SmokeCases : outcome'[SmokeCases[i]] \in Smoke!Passed
      BY <1>2, <3>1
    <3> QED BY <3>2 DEF Smoke!Cases
  <2>5. SmokeJob(j)'
    BY <2>3, <2>4 DEF SmokeJob, SmokeOwns
  <2> QED BY <2>1, <2>3, <2>5
<1> QED BY <1>3, <1>4

(* An execution ends and reports what an outcome says.                     *)
LEMMA SmokeFinishes ==
    ASSUME SmokeInv, NEW r \in Runners, NEW report \in {"NONE", "FAILED", "BLOCKED"}, Smoke!Finish(r, report),
           report = "FAILED" => \E c \in Smoke!Cases : outcome'[c] \in Smoke!Failed,
           report = "BLOCKED" => \E c \in Smoke!Cases : outcome'[c] \in Smoke!Blocked
    PROVE  \E j \in Smoke!JobRecord :
              job' = [job EXCEPT ![r] = j] /\ j.pc = "IDLE" /\ SmokeJob(j)'
<1>1. /\ Smoke!Idle(report) \in Smoke!JobRecord /\ Smoke!Idle(report).pc = "IDLE"
      /\ Smoke!Idle(report).report = report
  <2>1. 1 \in DOMAIN SmokeCases
    BY SmokeAssumption
  <2> QED BY <2>1 DEF Smoke!Idle, Smoke!JobRecord, Smoke!Steps, Smoke!Stages, Smoke!Blocked, Smoke!Failed
<1>2. PICK j \in Smoke!JobRecord : j = Smoke!Idle(report) /\ j.pc = "IDLE" /\ j.report = report
  BY <1>1
<1>3. SmokeJob(j)'
  BY <1>2 DEF SmokeJob, SmokeOwns
<1> QED BY <1>2, <1>3 DEF Smoke!Finish


LEMMA SmokeQuietly ==
    ASSUME SmokeInv, NEW r \in Runners, NEW j \in Smoke!JobRecord, job' = [job EXCEPT ![r] = j],
           SmokeJob(j)', ~SmokeOwns(j), slots' \in SUBSET Smoke!Cases,
           UNCHANGED <<claimed, begun, sent, receipt, fact, outcome>>
    PROVE  SmokeInv'
<1>1. /\ Smoke!TypeOK /\ SmokeRows /\ job \in [Runners -> Smoke!JobRecord]
      /\ \A q \in Runners : SmokeJob(job[q])
  BY SmokeTypes DEF SmokeInv
<1>2. job' \in [Runners -> Smoke!JobRecord]
  BY <1>1
<1>3. Smoke!TypeOK'
  BY <1>1, <1>2 DEF Smoke!TypeOK
<1>4. SmokeRows'
  BY <1>1, <1>3, SmokeRowsStay
<1>5. \A q \in Runners : SmokeOwns(job[q]) => fact[SmokeWork(job[q])] \in {"NONE", "UNKNOWN"}
  BY <1>1 DEF SmokeJob
<1> QED BY <1>4, <1>5, SmokeMoves

LEMMA SmokeEnsures ==
    ASSUME SmokeInv, NEW r \in Runners, Smoke!EnsureRun(r)
    PROVE  SmokeInv'
<1> DEFINE k == [Smoke!Idle("NONE") EXCEPT !.pc = "RECOVER"]
<1>1. 1 \in DOMAIN SmokeCases
  BY SmokeAssumption
<1>2. k \in Smoke!JobRecord /\ k.pc = "RECOVER" /\ k.at = 1 /\ k.report = "NONE"
  BY <1>1 DEF Smoke!Idle, Smoke!JobRecord, Smoke!Steps, Smoke!Stages, Smoke!Blocked, Smoke!Failed
<1>3. job' = [job EXCEPT ![r] = k] /\ slots' = Smoke!Cases
      /\ UNCHANGED <<claimed, begun, sent, receipt, fact, outcome>>
  BY DEF Smoke!EnsureRun
<1> HIDE DEF k
<1>4. PICK j \in Smoke!JobRecord : j = k
  BY <1>2
<1>5. SmokeJob(j)' /\ ~SmokeOwns(j)
  BY <1>2, <1>4 DEF SmokeJob, SmokeOwns
<1> QED BY <1>3, <1>4, <1>5, SmokeQuietly

LEMMA SmokeLooks ==
    ASSUME SmokeInv, NEW r \in Runners, Smoke!GetCaseOutcome(r)
    PROVE  SmokeInv'
<1>0. /\ job \in [Runners -> Smoke!JobRecord] /\ job[r] \in Smoke!JobRecord /\ job[r].pc = "CASE"
      /\ SmokeJob(job[r]) /\ slots \in SUBSET Smoke!Cases
      /\ Smoke!CaseOf(r) = SmokeCases[job[r].at] /\ Smoke!CaseOf(r) \in Smoke!Cases
      /\ UNCHANGED <<slots, claimed, begun, sent, receipt, fact, outcome>>
  BY SmokeTypes DEF Smoke!GetCaseOutcome, Smoke!At, Smoke!ledger, Smoke!TypeOK
<1>1. CASE Smoke!Goto(r, "CLAIM")
  <2> DEFINE k == [job[r] EXCEPT !.pc = "CLAIM"]
  <2>1. k \in Smoke!JobRecord /\ k.pc = "CLAIM" /\ k.at = job[r].at /\ k.report = job[r].report
    BY <1>0 DEF Smoke!JobRecord, Smoke!Steps
  <2>2. job' = [job EXCEPT ![r] = k]
    BY <1>0, <1>1 DEF Smoke!Goto
  <2> HIDE DEF k
  <2>3. PICK j \in Smoke!JobRecord : j = k
    BY <2>1
  <2>4. SmokeJob(j)' /\ ~SmokeOwns(j)
    BY <1>0, <2>1, <2>3 DEF SmokeJob, SmokeOwns
  <2> QED BY <1>0, <2>2, <2>3, <2>4, SmokeQuietly
<1>2. CASE outcome[Smoke!CaseOf(r)] \in Smoke!Passed /\ Smoke!NextCase(r)
  <2>1. PICK j \in Smoke!JobRecord : job' = [job EXCEPT ![r] = j] /\ j.pc \in {"IDLE", "CASE"} /\ SmokeJob(j)'
    BY <1>0, <1>2, SmokeNext
  <2> QED BY <1>0, <2>1, SmokeQuietly DEF SmokeOwns
<1>3. CASE /\ outcome[Smoke!CaseOf(r)] \in Smoke!Failed \cup Smoke!Blocked
           /\ Smoke!Finish(r, Smoke!ReportOf(outcome[Smoke!CaseOf(r)]))
  <2>1. PICK report \in {"FAILED", "BLOCKED"} :
            /\ Smoke!Finish(r, report)
            /\ report = "FAILED" => outcome[Smoke!CaseOf(r)] \in Smoke!Failed
            /\ report = "BLOCKED" => outcome[Smoke!CaseOf(r)] \in Smoke!Blocked
    BY <1>3 DEF Smoke!ReportOf
  <2>2. PICK j \in Smoke!JobRecord : job' = [job EXCEPT ![r] = j] /\ j.pc = "IDLE" /\ SmokeJob(j)'
    BY <1>0, <2>1, SmokeFinishes
  <2> QED BY <1>0, <2>2, SmokeQuietly DEF SmokeOwns
<1> QED BY <1>1, <1>2, <1>3 DEF Smoke!GetCaseOutcome

LEMMA SmokeStops ==
    ASSUME SmokeInv, NEW r \in Runners, Smoke!StopBeforeSend(r) \/ Smoke!Crash(r)
    PROVE  SmokeInv'
<1>0. /\ job \in [Runners -> Smoke!JobRecord] /\ job[r] \in Smoke!JobRecord
      /\ SmokeJob(job[r]) /\ slots \in SUBSET Smoke!Cases
      /\ UNCHANGED <<slots, claimed, begun, sent, receipt, fact, outcome>>
  BY SmokeTypes DEF Smoke!StopBeforeSend, Smoke!Crash, Smoke!ledger, Smoke!TypeOK
<1>1. CASE Smoke!StopBeforeSend(r)
  <2> DEFINE k == [job[r] EXCEPT !.pc = "CLOSE", !.reason = "PRE_SEND"]
  <2>1. k \in Smoke!JobRecord /\ k.pc = "CLOSE" /\ k.at = job[r].at /\ k.report = job[r].report
    BY <1>0 DEF Smoke!JobRecord, Smoke!Steps, Smoke!Blocked
  <2>2. job' = [job EXCEPT ![r] = k] /\ job[r].pc = "BEGIN"
    BY <1>0, <1>1 DEF Smoke!StopBeforeSend, Smoke!CloseWith, Smoke!At
  <2> HIDE DEF k
  <2>3. PICK j \in Smoke!JobRecord : j = k
    BY <2>1
  <2>4. SmokeJob(j)' /\ ~SmokeOwns(j)
    BY <1>0, <2>1, <2>2, <2>3 DEF SmokeJob, SmokeOwns
  <2> QED BY <1>0, <2>2, <2>3, <2>4, SmokeQuietly
<1>2. CASE Smoke!Crash(r)
  <2>1. Smoke!Finish(r, "NONE")
    BY <1>2 DEF Smoke!Crash
  <2>2. PICK j \in Smoke!JobRecord : job' = [job EXCEPT ![r] = j] /\ j.pc = "IDLE" /\ SmokeJob(j)'
    BY <2>1, SmokeFinishes
  <2> QED BY <1>0, <2>2, SmokeQuietly DEF SmokeOwns
<1> QED BY <1>1, <1>2


-----------------------------------------------------------------------------
(* The claim: every case before it has passed.                             *)
LEMMA SmokeClaims ==
    ASSUME SmokeInv, NEW r \in Runners, Smoke!ClaimCase(r)
    PROVE  SmokeInv'
<1>0. /\ job \in [Runners -> Smoke!JobRecord] /\ job[r] \in Smoke!JobRecord /\ job[r].pc = "CLAIM"
      /\ SmokeJob(job[r]) /\ SmokeRows /\ Smoke!TypeOK /\ job[r].at \in DOMAIN SmokeCases
      /\ \A q \in Runners : SmokeJob(job[q])
      /\ SmokeCases[job[r].at] \in Smoke!Cases /\ claimed' = claimed \cup {SmokeCases[job[r].at]}
      /\ UNCHANGED <<slots, begun, sent, receipt, fact, outcome>>
  BY SmokeTypes DEF Smoke!ClaimCase, Smoke!At, SmokeInv
<1> DEFINE k == [job[r] EXCEPT !.pc = "BEGIN", !.stage = "ANALYST"]
<1>1. k \in Smoke!JobRecord /\ k.pc = "BEGIN" /\ k.at = job[r].at /\ k.report = job[r].report
  BY <1>0 DEF Smoke!JobRecord, Smoke!Steps, Smoke!Stages
<1>2. job' = [job EXCEPT ![r] = k]
  BY <1>0 DEF Smoke!ClaimCase
<1> HIDE DEF k
<1>3. PICK j \in Smoke!JobRecord : j = k
  BY <1>1
<1>4. SmokeJob(j)' /\ ~SmokeOwns(j)
  BY <1>0, <1>1, <1>3 DEF SmokeJob, SmokeOwns
<1>5. Smoke!TypeOK'
  <2>1. job' \in [Runners -> Smoke!JobRecord] /\ claimed' \subseteq Smoke!Cases
    BY <1>0, <1>2, <1>3 DEF Smoke!TypeOK
  <2> QED BY <1>0, <2>1 DEF Smoke!TypeOK
<1>6. Smoke!OneCaseAtATime'
  <2> SUFFICES ASSUME NEW i \in DOMAIN SmokeCases, NEW n \in DOMAIN SmokeCases, i < n, SmokeCases[n] \in claimed'
               PROVE  outcome'[SmokeCases[i]] \in Smoke!Passed
    BY DEF Smoke!OneCaseAtATime
  <2>1. CASE SmokeCases[n] \in claimed
    BY <1>0, <2>1 DEF SmokeRows, Smoke!OneCaseAtATime
  <2>2. CASE SmokeCases[n] = SmokeCases[job[r].at]
    <3>1. n = job[r].at
      BY <1>0, <2>2, SmokeAssumption
    <3> QED BY <1>0, <3>1 DEF SmokeJob
  <2> QED BY <1>0, <2>1, <2>2
<1>7. \A q \in Smoke!Attempts : SmokeAttempt(q)'
  BY <1>0 DEF SmokeRows, SmokeAttempt
<1>8. \A c \in Smoke!Cases : SmokeCase(c)'
  BY <1>0 DEF SmokeRows, SmokeCase
<1>9. \A q \in Runners : SmokeOwns(job[q]) => fact[SmokeWork(job[q])] \in {"NONE", "UNKNOWN"}
  BY <1>0 DEF SmokeJob
<1>10. SmokeRows'
  BY <1>5, <1>6, <1>7, <1>8 DEF SmokeRows
<1> QED BY <1>0, <1>2, <1>3, <1>4, <1>9, <1>10, SmokeMoves

(* A new attempt: nothing was sent, answered or recorded of it.            *)
LEMMA SmokeBegins ==
    ASSUME SmokeInv, NEW r \in Runners, Smoke!BeginDispatch(r)
    PROVE  SmokeInv'
<1>0. /\ job \in [Runners -> Smoke!JobRecord] /\ job[r] \in Smoke!JobRecord /\ job[r].pc = "BEGIN"
      /\ SmokeJob(job[r]) /\ SmokeRows /\ Smoke!TypeOK
      /\ \A q \in Runners : SmokeJob(job[q])
      /\ UNCHANGED <<slots, claimed, sent, receipt, fact, outcome>>
      /\ outcome \in [Smoke!Cases -> {"NONE"} \cup Smoke!Passed \cup Smoke!Failed \cup Smoke!Blocked]
  BY SmokeTypes DEF Smoke!BeginDispatch, Smoke!At, SmokeInv
<1> DEFINE k == [job[r] EXCEPT !.pc = "SEND"]
<1>1. k \in Smoke!JobRecord /\ k.pc = "SEND" /\ k.at = job[r].at /\ k.stage = job[r].stage /\ k.report = job[r].report
  BY <1>0 DEF Smoke!JobRecord, Smoke!Steps
<1>2. job' = [job EXCEPT ![r] = k]
  BY <1>0 DEF Smoke!BeginDispatch, Smoke!Goto
<1> HIDE DEF k
<1>3. PICK j \in Smoke!JobRecord : j = k
  BY <1>1
<1>4. PICK w \in Smoke!Attempts : w = SmokeWork(j) /\ w = SmokeWork(job[r]) /\ w = Smoke!AttemptOf(r)
  BY <1>1, <1>3, SmokeTypes DEF SmokeWork
<1>5. /\ begun' = begun \cup {w} /\ w \notin begun /\ w[1] \in claimed
      /\ w[2] = "PLANNER" => fact[<<w[1], "ANALYST">>] = "PASS"
      /\ \A c \in Smoke!Cases : outcome[c] \notin Smoke!Failed \cup Smoke!Blocked
  BY <1>4 DEF Smoke!BeginDispatch, Smoke!MayBegin, Smoke!AcceptsDispatch
<1>6. sent[w] = 0 /\ w \notin receipt /\ fact[w] = "NONE"
  BY <1>0, <1>4, <1>5 DEF SmokeRows, SmokeAttempt
<1>7. SmokeJob(j)'
  BY <1>0, <1>1, <1>3, <1>4, <1>5, <1>6 DEF SmokeJob, SmokeOwns
<1>8. Smoke!TypeOK'
  <2>1. job' \in [Runners -> Smoke!JobRecord]
    BY <1>0, <1>2, <1>3
  <2>2. begun' \subseteq Smoke!Attempts
    BY <1>0, <1>5 DEF Smoke!TypeOK
  <2> QED BY <1>0, <2>1, <2>2 DEF Smoke!TypeOK
<1>9. \A q \in Smoke!Attempts : SmokeAttempt(q)'
  BY <1>0, <1>5, <1>6 DEF SmokeRows, SmokeAttempt
<1>10. \A c \in Smoke!Cases : SmokeCase(c)'
  BY <1>0, <1>5 DEF SmokeRows, SmokeCase
<1>11. SmokeRows'
  BY <1>0, <1>8, <1>9, <1>10 DEF SmokeRows, Smoke!OneCaseAtATime
<1>12. \A q \in Runners : SmokeOwns(job[q]) => fact[SmokeWork(job[q])] \in {"NONE", "UNKNOWN"}
  BY <1>0 DEF SmokeJob
<1> QED BY <1>0, <1>2, <1>3, <1>4, <1>5, <1>7, <1>11, <1>12, SmokeMoves

(* The request leaves once.                                                *)
LEMMA SmokeSends ==
    ASSUME SmokeInv, NEW r \in Runners, Smoke!SendRequest(r)
    PROVE  SmokeInv'
<1>0. /\ job \in [Runners -> Smoke!JobRecord] /\ job[r] \in Smoke!JobRecord /\ job[r].pc = "SEND"
      /\ SmokeJob(job[r]) /\ SmokeRows /\ Smoke!TypeOK
      /\ \A q \in Runners : SmokeJob(job[q])
      /\ UNCHANGED <<slots, claimed, begun, receipt, fact, outcome>>
      /\ sent \in [Smoke!Attempts -> Nat]
  BY SmokeTypes DEF Smoke!SendRequest, Smoke!At, SmokeInv, Smoke!ledger
<1> DEFINE k == [job[r] EXCEPT !.pc = "AWAIT"]
<1>1. k \in Smoke!JobRecord /\ k.pc = "AWAIT" /\ k.at = job[r].at /\ k.stage = job[r].stage /\ k.report = job[r].report
  BY <1>0 DEF Smoke!JobRecord, Smoke!Steps
<1>2. job' = [job EXCEPT ![r] = k]
  BY <1>0 DEF Smoke!SendRequest, Smoke!Goto
<1> HIDE DEF k
<1>3. PICK j \in Smoke!JobRecord : j = k
  BY <1>1
<1>4. PICK w \in Smoke!Attempts : w = SmokeWork(j) /\ w = SmokeWork(job[r]) /\ w = Smoke!AttemptOf(r)
  BY <1>1, <1>3, SmokeTypes DEF SmokeWork
<1>5. sent[w] = 0 /\ w \in begun /\ w \notin receipt /\ fact[w] \in {"NONE", "UNKNOWN"}
  BY <1>0, <1>4 DEF SmokeJob, SmokeOwns
<1>6. sent' = [sent EXCEPT ![w] = 1]
  BY <1>4, <1>5 DEF Smoke!SendRequest
<1>7. SmokeJob(j)'
  BY <1>0, <1>1, <1>3, <1>4, <1>5, <1>6 DEF SmokeJob, SmokeOwns
<1>8. Smoke!TypeOK'
  <2>1. job' \in [Runners -> Smoke!JobRecord]
    BY <1>0, <1>2, <1>3
  <2>2. sent' \in [Smoke!Attempts -> Nat]
    BY <1>0, <1>6
  <2> QED BY <1>0, <2>1, <2>2 DEF Smoke!TypeOK
<1>9. \A q \in Smoke!Attempts : SmokeAttempt(q)'
  <2>1. \A q \in Smoke!Attempts : sent'[q] = IF q = w THEN 1 ELSE sent[q]
    BY <1>0, <1>6
  <2> QED BY <1>0, <1>5, <2>1 DEF SmokeRows, SmokeAttempt
<1>10. \A c \in Smoke!Cases : SmokeCase(c)'
  BY <1>0 DEF SmokeRows, SmokeCase
<1>11. SmokeRows'
  BY <1>0, <1>8, <1>9, <1>10 DEF SmokeRows, Smoke!OneCaseAtATime
<1>12. \A q \in Runners \ {r} : SmokeOwns(job[q]) =>
           SmokeWork(job[q]) # w /\ SmokeWork(job[q]) \in begun /\ fact[SmokeWork(job[q])] \in {"NONE", "UNKNOWN"}
  BY <1>0, <1>4 DEF SmokeJob, SmokeInv, SmokeOwns
<1>13. \A q \in Runners \ {r} : SmokeOwns(job[q]) => sent'[SmokeWork(job[q])] = sent[SmokeWork(job[q])]
  BY <1>0, <1>6, <1>12 DEF Smoke!TypeOK
<1>14. SmokeOwns(job[r])
  BY <1>0 DEF SmokeOwns
<1> QED BY <1>0, <1>2, <1>3, <1>4, <1>7, <1>11, <1>12, <1>13, <1>14, SmokeMoves


(* A fact is recorded once, by the execution that owns the attempt.        *)
LEMMA SmokeRecords ==
    ASSUME SmokeInv, NEW r \in Runners, NEW j \in Smoke!JobRecord, job' = [job EXCEPT ![r] = j],
           SmokeOwns(job[r]), ~SmokeOwns(j), SmokeJob(j)',
           NEW f \in {"PASS", "NOT_SENT", "INVALID"},
           Smoke!MayRecord(Smoke!AttemptOf(r), f), fact' = [fact EXCEPT ![Smoke!AttemptOf(r)] = f],
           f = "NOT_SENT" => job[r].pc = "SEND",
           UNCHANGED <<slots, claimed, begun, sent, receipt, outcome>>
    PROVE  SmokeInv'
<1>0. /\ job \in [Runners -> Smoke!JobRecord] /\ SmokeJob(job[r]) /\ SmokeRows /\ Smoke!TypeOK
      /\ \A q \in Runners : SmokeJob(job[q])
      /\ fact \in [Smoke!Attempts -> {"NONE", "PASS", "NOT_SENT"} \cup Smoke!Failed]
  BY SmokeTypes DEF SmokeInv
<1>1. PICK w \in Smoke!Attempts : w = SmokeWork(job[r]) /\ w = Smoke!AttemptOf(r)
  BY SmokeTypes
<1>2. /\ w \in begun /\ fact[w] = "NONE" /\ fact' = [fact EXCEPT ![w] = f]
      /\ f = "PASS" => w \in receipt
      /\ f = "NOT_SENT" => sent[w] = 0
  BY <1>0, <1>1 DEF Smoke!MayRecord, SmokeJob
<1>3. \A q \in Smoke!Attempts : fact'[q] = IF q = w THEN f ELSE fact[q]
  BY <1>0, <1>2
<1>4. Smoke!TypeOK'
  <2>1. job' \in [Runners -> Smoke!JobRecord]
    BY <1>0
  <2>2. fact' \in [Smoke!Attempts -> {"NONE", "PASS", "NOT_SENT"} \cup Smoke!Failed]
    BY <1>0, <1>2 DEF Smoke!Failed
  <2> QED BY <1>0, <2>1, <2>2 DEF Smoke!TypeOK
<1>5. \A q \in Smoke!Attempts : SmokeAttempt(q)'
  <2> SUFFICES ASSUME NEW q \in Smoke!Attempts PROVE SmokeAttempt(q)'
    OBVIOUS
  <2>1. SmokeAttempt(q)
    BY <1>0 DEF SmokeRows
  <2>2. (q \in begun /\ q[2] = "PLANNER") => fact'[<<q[1], "ANALYST">>] = "PASS"
    <3>1. <<q[1], "ANALYST">> \in Smoke!Attempts
      BY DEF Smoke!Attempts, Smoke!Stages
    <3> QED BY <1>2, <1>3, <2>1, <3>1 DEF SmokeAttempt
  <2> QED BY <1>2, <1>3, <2>1, <2>2 DEF SmokeAttempt
<1>6. \A c \in Smoke!Cases : SmokeCase(c)'
  <2> SUFFICES ASSUME NEW c \in Smoke!Cases PROVE SmokeCase(c)'
    OBVIOUS
  <2>1. SmokeCase(c) /\ \A s \in Smoke!Stages : <<c, s>> \in Smoke!Attempts
    BY <1>0 DEF SmokeRows, Smoke!Attempts
  <2>2. \A s \in Smoke!Stages : fact[<<c, s>>] # "NONE" => fact'[<<c, s>>] = fact[<<c, s>>]
    BY <1>2, <1>3, <2>1
  <2>3. outcome[c] \in Smoke!Blocked =>
          \A s \in Smoke!Stages : <<c, s>> \in begun =>
            fact'[<<c, s>>] = "NOT_SENT" \/ (s = "ANALYST" /\ fact'[<<c, s>>] = "PASS")
    BY <2>1, <2>2 DEF SmokeCase
  <2>4. outcome[c] \in Smoke!Failed => \E s \in Smoke!Stages : fact'[<<c, s>>] \in Smoke!Failed
    BY <2>1, <2>2 DEF SmokeCase, Smoke!Failed
  <2>5. outcome[c] \in Smoke!Passed => \A s \in Smoke!Stages : fact'[<<c, s>>] = "PASS"
    BY <2>1, <2>2 DEF SmokeCase
  <2> QED BY <2>3, <2>4, <2>5 DEF SmokeCase
<1>7. SmokeRows'
  BY <1>0, <1>4, <1>5, <1>6 DEF SmokeRows, Smoke!OneCaseAtATime
<1>8. \A q \in Runners \ {r} : SmokeOwns(job[q]) =>
           SmokeWork(job[q]) # w /\ SmokeWork(job[q]) \in begun /\ fact[SmokeWork(job[q])] \in {"NONE", "UNKNOWN"}
  BY <1>0, <1>1 DEF SmokeJob, SmokeInv
<1>9. \A q \in Runners \ {r} : SmokeOwns(job[q]) => fact'[SmokeWork(job[q])] = fact[SmokeWork(job[q])]
  BY <1>0, <1>3, <1>8 DEF Smoke!TypeOK
<1> QED BY <1>7, <1>8, <1>9, SmokeMoves

LEMMA SmokeJudges ==
    ASSUME SmokeInv, NEW r \in Runners,
           \/ Smoke!AppendBlockedValidation(r) \/ Smoke!AppendFailedValidation(r)
           \/ Smoke!AppendValidationPass(r)
    PROVE  SmokeInv'
<1>0. /\ job \in [Runners -> Smoke!JobRecord] /\ job[r] \in Smoke!JobRecord /\ SmokeJob(job[r])
      /\ job[r].pc \in {"SEND", "AWAIT", "JUDGE"}
      /\ UNCHANGED <<slots, claimed, begun, sent, receipt, outcome>>
  BY SmokeTypes DEF Smoke!AppendBlockedValidation, Smoke!AppendFailedValidation, Smoke!AppendValidationPass, Smoke!At
<1>1. PICK f \in {"PASS", "NOT_SENT", "INVALID"} :
          /\ Smoke!MayRecord(Smoke!AttemptOf(r), f) /\ fact' = [fact EXCEPT ![Smoke!AttemptOf(r)] = f]
          /\ f = "NOT_SENT" => job[r].pc = "SEND"
          /\ \/ \E reason \in {"NOT_SENT", "INVALID", "READY"} : Smoke!CloseWith(r, reason)
             \/ job' = [job EXCEPT ![r].pc = "BEGIN", ![r].stage = "PLANNER"]
  BY DEF Smoke!AppendBlockedValidation, Smoke!AppendFailedValidation, Smoke!AppendValidationPass, Smoke!At
<1>2. PICK j \in Smoke!JobRecord :
          /\ job' = [job EXCEPT ![r] = j] /\ j.pc \in {"CLOSE", "BEGIN"}
          /\ j.at = job[r].at /\ j.report = job[r].report
  <2>1. ASSUME NEW reason \in {"NOT_SENT", "INVALID", "READY"}, Smoke!CloseWith(r, reason)
        PROVE  \E j \in Smoke!JobRecord :
                  /\ job' = [job EXCEPT ![r] = j] /\ j.pc \in {"CLOSE", "BEGIN"}
                  /\ j.at = job[r].at /\ j.report = job[r].report
    <3> DEFINE k == [job[r] EXCEPT !.pc = "CLOSE", !.reason = reason]
    <3>1. k \in Smoke!JobRecord /\ k.pc = "CLOSE" /\ k.at = job[r].at /\ k.report = job[r].report
      BY <1>0 DEF Smoke!JobRecord, Smoke!Steps, Smoke!Blocked, Smoke!Failed
    <3>2. job' = [job EXCEPT ![r] = k]
      BY <1>0, <2>1 DEF Smoke!CloseWith
    <3> HIDE DEF k
    <3> QED BY <3>1, <3>2
  <2>2. CASE job' = [job EXCEPT ![r].pc = "BEGIN", ![r].stage = "PLANNER"]
    <3> DEFINE k == [job[r] EXCEPT !.pc = "BEGIN", !.stage = "PLANNER"]
    <3>1. k \in Smoke!JobRecord /\ k.pc = "BEGIN" /\ k.at = job[r].at /\ k.report = job[r].report
      BY <1>0 DEF Smoke!JobRecord, Smoke!Steps, Smoke!Stages
    <3>2. job' = [job EXCEPT ![r] = k]
      BY <1>0, <2>2
    <3> HIDE DEF k
    <3> QED BY <3>1, <3>2
  <2> QED BY <1>1, <2>1, <2>2
<1>3. SmokeJob(j)' /\ ~SmokeOwns(j) /\ SmokeOwns(job[r])
  BY <1>0, <1>2 DEF SmokeJob, SmokeOwns
<1> QED BY <1>0, <1>1, <1>2, <1>3, SmokeRecords

(* The receipt of the answer, whoever has decided what by then.            *)
LEMMA SmokeReceives ==
    ASSUME SmokeInv, NEW r \in Runners, Smoke!AppendProviderReceipt(r)
    PROVE  SmokeInv'
<1>0. /\ job \in [Runners -> Smoke!JobRecord] /\ job[r] \in Smoke!JobRecord /\ job[r].pc = "AWAIT"
      /\ SmokeJob(job[r]) /\ SmokeRows /\ Smoke!TypeOK
      /\ \A q \in Runners : SmokeJob(job[q])
      /\ UNCHANGED <<slots, claimed, begun, sent, fact, outcome>>
  BY SmokeTypes DEF Smoke!AppendProviderReceipt, Smoke!At, SmokeInv
<1> DEFINE k == [job[r] EXCEPT !.pc = "JUDGE"]
<1>1. k \in Smoke!JobRecord /\ k.pc = "JUDGE" /\ k.at = job[r].at /\ k.stage = job[r].stage /\ k.report = job[r].report
  BY <1>0 DEF Smoke!JobRecord, Smoke!Steps
<1>2. job' = [job EXCEPT ![r] = k]
  BY <1>0 DEF Smoke!AppendProviderReceipt, Smoke!Goto
<1> HIDE DEF k
<1>3. PICK j \in Smoke!JobRecord : j = k
  BY <1>1
<1>4. PICK w \in Smoke!Attempts : w = SmokeWork(j) /\ w = SmokeWork(job[r]) /\ w = Smoke!AttemptOf(r)
  BY <1>1, <1>3, SmokeTypes DEF SmokeWork
<1>5. sent[w] = 1 /\ w \in begun /\ fact[w] \in {"NONE", "UNKNOWN"} /\ receipt' = receipt \cup {w}
  BY <1>0, <1>4 DEF SmokeJob, SmokeOwns, Smoke!AppendProviderReceipt
<1>6. SmokeJob(j)'
  BY <1>0, <1>1, <1>3, <1>4, <1>5 DEF SmokeJob, SmokeOwns
<1>7. Smoke!TypeOK'
  <2>1. job' \in [Runners -> Smoke!JobRecord]
    BY <1>0, <1>2, <1>3
  <2>2. receipt' \subseteq Smoke!Attempts
    BY <1>0, <1>5 DEF Smoke!TypeOK
  <2> QED BY <1>0, <2>1, <2>2 DEF Smoke!TypeOK
<1>8. \A q \in Smoke!Attempts : SmokeAttempt(q)'
  BY <1>0, <1>5 DEF SmokeRows, SmokeAttempt
<1>9. \A c \in Smoke!Cases : SmokeCase(c)'
  BY <1>0 DEF SmokeRows, SmokeCase
<1>10. SmokeRows'
  BY <1>0, <1>7, <1>8, <1>9 DEF SmokeRows, Smoke!OneCaseAtATime
<1>11. \A q \in Runners \ {r} : SmokeOwns(job[q]) =>
           SmokeWork(job[q]) # w /\ SmokeWork(job[q]) \in begun /\ fact[SmokeWork(job[q])] \in {"NONE", "UNKNOWN"}
  BY <1>0, <1>4 DEF SmokeJob, SmokeInv, SmokeOwns
<1>12. SmokeOwns(job[r])
  BY <1>0 DEF SmokeOwns
<1> QED BY <1>0, <1>2, <1>3, <1>4, <1>5, <1>6, <1>10, <1>11, <1>12, SmokeMoves


(* The outcome a runner closes its case with rests on the attempts.        *)
LEMMA SmokeCloses ==
    ASSUME SmokeInv, NEW r \in Runners, Smoke!CloseCase(r)
    PROVE  SmokeInv'
<1>0. /\ job \in [Runners -> Smoke!JobRecord] /\ job[r] \in Smoke!JobRecord /\ job[r].pc = "CLOSE"
      /\ SmokeJob(job[r]) /\ SmokeRows /\ Smoke!TypeOK
      /\ \A q \in Runners : SmokeJob(job[q])
      /\ outcome \in [Smoke!Cases -> {"NONE"} \cup Smoke!Passed \cup Smoke!Failed \cup Smoke!Blocked]
      /\ UNCHANGED <<slots, claimed, begun, sent, receipt, fact>>
  BY SmokeTypes DEF Smoke!CloseCase, Smoke!At, SmokeInv
<1>1. PICK c \in Smoke!Cases : c = Smoke!CaseOf(r) /\ c = SmokeCases[job[r].at]
  BY SmokeTypes
<1>2. PICK o \in Smoke!Failed \cup Smoke!Blocked \cup {"READY"} : o = job[r].reason
  BY <1>0 DEF Smoke!JobRecord
<1>3. /\ outcome[c] = o \/ (outcome[c] = "NONE" /\ Smoke!Admissible(c, o))
      /\ outcome' = [outcome EXCEPT ![c] = o]
      /\ IF o = "READY" THEN Smoke!NextCase(r) ELSE Smoke!Finish(r, Smoke!ReportOf(o))
  BY <1>1, <1>2 DEF Smoke!CloseCase
<1>4. \A n \in Smoke!Cases : outcome'[n] = IF n = c THEN o ELSE outcome[n]
  BY <1>0, <1>3
<1>5. \A n \in Smoke!Cases : outcome[n] # "NONE" => outcome'[n] = outcome[n]
  BY <1>3, <1>4
<1>6. PICK j \in Smoke!JobRecord : job' = [job EXCEPT ![r] = j] /\ j.pc \in {"IDLE", "CASE"} /\ SmokeJob(j)'
  <2>1. CASE o = "READY"
    <3>1. outcome'[SmokeCases[job[r].at]] \in Smoke!Passed
      BY <1>1, <1>4, <2>1 DEF Smoke!Passed
    <3> QED BY <1>0, <1>3, <1>5, <2>1, <3>1, SmokeNext
  <2>2. CASE o # "READY"
    <3>1. PICK report \in {"FAILED", "BLOCKED"} :
              /\ Smoke!Finish(r, report)
              /\ report = "FAILED" => o \in Smoke!Failed
              /\ report = "BLOCKED" => o \in Smoke!Blocked
      BY <1>2, <1>3, <2>2 DEF Smoke!ReportOf
    <3>2. outcome'[c] = o
      BY <1>4
    <3>3. \E j \in Smoke!JobRecord : job' = [job EXCEPT ![r] = j] /\ j.pc = "IDLE" /\ SmokeJob(j)'
      BY <3>1, <3>2, SmokeFinishes
    <3> QED BY <3>3
  <2> QED BY <2>1, <2>2
<1>7. Smoke!TypeOK'
  <2>1. job' \in [Runners -> Smoke!JobRecord]
    BY <1>0, <1>6
  <2>2. outcome' \in [Smoke!Cases -> {"NONE"} \cup Smoke!Passed \cup Smoke!Failed \cup Smoke!Blocked]
    BY <1>0, <1>2, <1>3 DEF Smoke!Passed
  <2> QED BY <1>0, <2>1, <2>2 DEF Smoke!TypeOK
<1>8. ASSUME NEW n \in Smoke!Cases PROVE SmokeCase(n)'
  <2>1. SmokeCase(n)
    BY <1>0 DEF SmokeRows
  <2>2. CASE outcome'[n] = outcome[n]
    BY <1>0, <2>1, <2>2 DEF SmokeCase
  <2>3. CASE n = c /\ outcome'[n] = o /\ Smoke!Admissible(c, o)
    <3>1. o \in Smoke!Passed => Smoke!PassedStages(c) = Smoke!Stages
      BY <2>3 DEF Smoke!Admissible, Smoke!Passed, Smoke!Failed, Smoke!Blocked
    <3>2. o \in Smoke!Failed => \E s \in Smoke!Stages : fact[<<c, s>>] \in Smoke!Failed
      BY <2>3 DEF Smoke!Admissible, Smoke!Passed, Smoke!Failed, Smoke!Blocked
    <3>3. o \in Smoke!Blocked =>
             \A s \in Smoke!Stages : <<c, s>> \in begun =>
                 \/ fact[<<c, s>>] = "NOT_SENT" /\ <<c, s>> \notin receipt
                 \/ s = "ANALYST" /\ s \in Smoke!PassedStages(c)
      BY <2>3 DEF Smoke!Admissible, Smoke!Passed, Smoke!Failed, Smoke!Blocked
    <3> QED BY <1>0, <2>3, <3>1, <3>2, <3>3 DEF SmokeCase, Smoke!PassedStages
  <2> QED BY <1>3, <1>4, <2>2, <2>3
<1>9. Smoke!OneCaseAtATime'
  <2> SUFFICES ASSUME NEW i \in DOMAIN SmokeCases, NEW n \in DOMAIN SmokeCases, i < n, SmokeCases[n] \in claimed
               PROVE  outcome'[SmokeCases[i]] \in Smoke!Passed
    BY <1>0 DEF Smoke!OneCaseAtATime
  <2>1. outcome[SmokeCases[i]] \in Smoke!Passed /\ SmokeCases[i] \in Smoke!Cases
    BY <1>0 DEF SmokeRows, Smoke!OneCaseAtATime, Smoke!Cases
  <2> QED BY <1>5, <2>1 DEF Smoke!Passed
<1>10. SmokeRows'
  BY <1>0, <1>7, <1>8, <1>9 DEF SmokeRows, SmokeAttempt
<1>11. \A q \in Runners : SmokeOwns(job[q]) => fact[SmokeWork(job[q])] \in {"NONE", "UNKNOWN"}
  BY <1>0 DEF SmokeJob
<1>12. ~SmokeOwns(j)
  BY <1>6 DEF SmokeOwns
<1> QED BY <1>0, <1>5, <1>6, <1>10, <1>11, <1>12, SmokeMoves

(* What recovery decides of a case rests on its attempts.                  *)
LEMMA SmokeRecovered ==
    ASSUME SmokeRows, NEW c \in Smoke!Cases, NEW o, o = Smoke!Recovered(c), o # "NONE"
    PROVE  /\ outcome[c] = "NONE" /\ c \in claimed
           /\ o \in Smoke!Failed \cup {"NOT_SENT", "RECOVERED"}
           /\ o \in Smoke!Failed => \E s \in Smoke!Stages :
                  <<c, s>> \in begun
                  /\ (fact[<<c, s>>] \in Smoke!Failed \/ (fact[<<c, s>>] = "NONE" /\ o = "UNKNOWN"))
           /\ o = "NOT_SENT" => \A s \in Smoke!Stages : <<c, s>> \in begun =>
                  fact[<<c, s>>] = "NOT_SENT" \/ (s = "ANALYST" /\ fact[<<c, s>>] = "PASS")
           /\ o = "RECOVERED" => \A s \in Smoke!Stages : fact[<<c, s>>] = "PASS"
<1> DEFINE facts == {fact[<<c, s>>] : s \in {t \in Smoke!Stages : <<c, t>> \in begun}}
<1>1. c \in claimed /\ outcome[c] = "NONE"
  BY DEF Smoke!Recovered
<1>2. o = IF facts \cap Smoke!Failed # {} THEN CHOOSE f \in Smoke!Failed : f \in facts
          ELSE IF "NOT_SENT" \in facts THEN "NOT_SENT"
          ELSE IF "NONE" \in facts THEN "UNKNOWN"
          ELSE IF Smoke!PassedStages(c) = Smoke!Stages THEN "RECOVERED"
          ELSE "NONE"
  BY <1>1 DEF Smoke!Recovered
<1>3. \A f \in facts : \E s \in Smoke!Stages : <<c, s>> \in begun /\ fact[<<c, s>>] = f
  OBVIOUS
<1>4. CASE facts \cap Smoke!Failed # {}
  <2>1. o \in Smoke!Failed /\ o \in facts
    <3>1. \E f \in Smoke!Failed : f \in facts
      BY <1>4
    <3>2. o = CHOOSE f \in Smoke!Failed : f \in facts
      BY <1>2, <1>4
    <3> HIDE DEF facts
    <3> QED BY <3>1, <3>2
  <2>2. o # "NOT_SENT" /\ o # "RECOVERED"
    BY <2>1 DEF Smoke!Failed
  <2> QED BY <1>1, <1>3, <2>1, <2>2
<1>5. CASE facts \cap Smoke!Failed = {} /\ "NOT_SENT" \in facts
  <2>1. o = "NOT_SENT"
    BY <1>2, <1>5
  <2>2. PICK t \in Smoke!Stages : <<c, t>> \in begun /\ fact[<<c, t>>] = "NOT_SENT"
    BY <1>3, <1>5
  <2>3. \A s \in Smoke!Stages : SmokeAttempt(<<c, s>>)
    BY DEF SmokeRows, Smoke!Attempts
  <2>4. \A s \in Smoke!Stages : <<c, s>> \in begun =>
            fact[<<c, s>>] = "NOT_SENT" \/ (s = "ANALYST" /\ fact[<<c, s>>] = "PASS")
    BY <2>2, <2>3 DEF SmokeAttempt, Smoke!Stages
  <2> QED BY <1>1, <2>1, <2>4 DEF Smoke!Failed
<1>6. CASE facts \cap Smoke!Failed = {} /\ "NOT_SENT" \notin facts /\ "NONE" \in facts
  <2>1. o = "UNKNOWN"
    BY <1>2, <1>6
  <2> QED BY <1>1, <1>3, <1>6, <2>1 DEF Smoke!Failed
<1>7. CASE facts \cap Smoke!Failed = {} /\ "NOT_SENT" \notin facts /\ "NONE" \notin facts
  <2>1. o = "RECOVERED" /\ Smoke!PassedStages(c) = Smoke!Stages
    BY <1>2, <1>7
  <2> QED BY <1>1, <2>1 DEF Smoke!Failed, Smoke!PassedStages
<1> QED BY <1>4, <1>5, <1>6, <1>7


LEMMA SmokeRecovers ==
    ASSUME SmokeInv, NEW r \in Runners, Smoke!RecoverOpenAttempts(r)
    PROVE  SmokeInv'
<1>0. /\ job \in [Runners -> Smoke!JobRecord] /\ job[r] \in Smoke!JobRecord /\ job[r].pc = "RECOVER"
      /\ SmokeJob(job[r]) /\ SmokeRows /\ Smoke!TypeOK
      /\ fact \in [Smoke!Attempts -> {"NONE", "PASS", "NOT_SENT"} \cup Smoke!Failed]
      /\ outcome \in [Smoke!Cases -> {"NONE"} \cup Smoke!Passed \cup Smoke!Failed \cup Smoke!Blocked]
      /\ UNCHANGED <<slots, claimed, begun, sent, receipt>>
  BY SmokeTypes DEF Smoke!RecoverOpenAttempts, Smoke!At
<1>1. \A k \in Smoke!Attempts :
          /\ fact'[k] = fact[k] \/ (k \in begun /\ fact[k] = "NONE" /\ fact'[k] = "UNKNOWN")
          /\ k \in begun /\ fact[k] = "NONE" /\ Smoke!Recovered(k[1]) = "UNKNOWN" => fact'[k] = "UNKNOWN"
  BY DEF Smoke!RecoverOpenAttempts
<1>2. fact' \in [Smoke!Attempts -> {"NONE", "PASS", "NOT_SENT"} \cup Smoke!Failed]
  BY <1>0 DEF Smoke!RecoverOpenAttempts, Smoke!Failed
<1>3. \A c \in Smoke!Cases :
          \/ outcome'[c] = outcome[c]
          \/ outcome[c] = "NONE" /\ outcome'[c] = Smoke!Recovered(c) /\ Smoke!Recovered(c) # "NONE"
  <2> SUFFICES ASSUME NEW c \in Smoke!Cases
               PROVE  \/ outcome'[c] = outcome[c]
                      \/ outcome[c] = "NONE" /\ outcome'[c] = Smoke!Recovered(c) /\ Smoke!Recovered(c) # "NONE"
    OBVIOUS
  <2>1. outcome'[c] = IF Smoke!Recovered(c) = "NONE" THEN outcome[c] ELSE Smoke!Recovered(c)
    BY DEF Smoke!RecoverOpenAttempts
  <2>2. Smoke!Recovered(c) # "NONE" => outcome[c] = "NONE"
    BY <1>0, SmokeRecovered
  <2> QED BY <2>1, <2>2
<1>4. \A c \in Smoke!Cases : Smoke!Recovered(c) # "NONE" => Smoke!Recovered(c) \in Smoke!Failed \cup {"NOT_SENT", "RECOVERED"}
  BY <1>0, SmokeRecovered
<1>5. outcome' \in [Smoke!Cases -> {"NONE"} \cup Smoke!Passed \cup Smoke!Failed \cup Smoke!Blocked]
  <2>1. outcome' = [c \in Smoke!Cases |-> IF Smoke!Recovered(c) = "NONE" THEN outcome[c] ELSE Smoke!Recovered(c)]
    BY DEF Smoke!RecoverOpenAttempts
  <2> QED BY <1>0, <1>4, <2>1 DEF Smoke!Passed, Smoke!Blocked
<1>6. PICK j \in Smoke!JobRecord :
          job' = [job EXCEPT ![r] = j] /\ ~SmokeOwns(j) /\ SmokeJob(j)'
  <2> DEFINE lost == {Smoke!Recovered(c) : c \in Smoke!Cases} \cap (Smoke!Failed \cup Smoke!Blocked)
  <2>0. IF lost = {} THEN Smoke!Goto(r, "CASE") ELSE \E o \in lost : Smoke!Finish(r, Smoke!ReportOf(o))
    BY DEF Smoke!RecoverOpenAttempts
  <2>1. CASE lost = {}
    <3> DEFINE k == [job[r] EXCEPT !.pc = "CASE"]
    <3>1. k \in Smoke!JobRecord /\ k.pc = "CASE" /\ k.at = job[r].at /\ k.report = job[r].report
      BY <1>0 DEF Smoke!JobRecord, Smoke!Steps
    <3>2. job' = [job EXCEPT ![r] = k]
      BY <1>0, <2>0, <2>1 DEF Smoke!Goto
    <3> HIDE DEF k, lost
    <3>3. PICK j \in Smoke!JobRecord : j = k
      BY <3>1
    <3>4. j.at = 1 /\ j.pc = "CASE" /\ j.report = job[r].report
      BY <1>0, <3>1, <3>3 DEF SmokeJob
    <3>5. \A i \in DOMAIN SmokeCases : ~(i < 1)
      BY SmokeAssumption
    <3>6. /\ j.report = "PASS" => \A c \in Smoke!Cases : outcome'[c] \in Smoke!Passed
          /\ j.report = "FAILED" => \E c \in Smoke!Cases : outcome'[c] \in Smoke!Failed
          /\ j.report = "BLOCKED" => \E c \in Smoke!Cases : outcome'[c] \in Smoke!Blocked
      BY <1>0, <1>3, <3>4 DEF SmokeJob, Smoke!Passed, Smoke!Failed, Smoke!Blocked
    <3>7. SmokeJob(j)' /\ ~SmokeOwns(j)
      BY <3>4, <3>5, <3>6 DEF SmokeJob, SmokeOwns
    <3> QED BY <3>2, <3>3, <3>7
  <2>2. CASE lost # {}
    <3>1. PICK o \in lost : Smoke!Finish(r, Smoke!ReportOf(o))
      BY <2>0, <2>2
    <3>2. PICK c \in Smoke!Cases : Smoke!Recovered(c) = o /\ o \in Smoke!Failed \cup Smoke!Blocked
      BY <3>1
    <3> HIDE DEF lost
    <3>3. outcome'[c] = o
      <4>1. o # "NONE"
        BY <3>2 DEF Smoke!Failed, Smoke!Blocked
      <4>2. outcome'[c] = IF Smoke!Recovered(c) = "NONE" THEN outcome[c] ELSE Smoke!Recovered(c)
        BY DEF Smoke!RecoverOpenAttempts
      <4> QED BY <3>2, <4>1, <4>2
    <3>4. PICK report \in {"FAILED", "BLOCKED"} :
              /\ Smoke!Finish(r, report)
              /\ report = "FAILED" => outcome'[c] \in Smoke!Failed
              /\ report = "BLOCKED" => outcome'[c] \in Smoke!Blocked
      BY <3>1, <3>2, <3>3 DEF Smoke!ReportOf
    <3>5. PICK j \in Smoke!JobRecord : job' = [job EXCEPT ![r] = j] /\ j.pc = "IDLE" /\ SmokeJob(j)'
      BY <3>4, SmokeFinishes
    <3> QED BY <3>5 DEF SmokeOwns
  <2> QED BY <2>1, <2>2
<1>7. Smoke!TypeOK'
  <2>1. job' \in [Runners -> Smoke!JobRecord]
    BY <1>0, <1>6
  <2> QED BY <1>0, <1>2, <1>5, <2>1 DEF Smoke!TypeOK
<1>8. ASSUME NEW k \in Smoke!Attempts PROVE SmokeAttempt(k)'
  <2>1. SmokeAttempt(k) /\ k[1] \in Smoke!Cases
    BY <1>0 DEF SmokeRows, Smoke!Attempts
  <2>2. <<k[1], "ANALYST">> \in Smoke!Attempts
    BY <2>1 DEF Smoke!Attempts, Smoke!Stages
  <2>3. fact[<<k[1], "ANALYST">>] = "PASS" => fact'[<<k[1], "ANALYST">>] = "PASS"
    BY <1>1, <2>2
  <2>4. /\ fact'[k] # "NONE" => fact[k] # "NONE" \/ k \in begun
        /\ fact'[k] = "PASS" => fact[k] = "PASS"
        /\ fact'[k] = "NOT_SENT" => fact[k] = "NOT_SENT"
    BY <1>1
  <2> QED BY <1>0, <2>1, <2>3, <2>4 DEF SmokeAttempt
<1>9. ASSUME NEW c \in Smoke!Cases PROVE SmokeCase(c)'
  <2>1. SmokeCase(c) /\ \A s \in Smoke!Stages : <<c, s>> \in Smoke!Attempts
    BY <1>0 DEF SmokeRows, Smoke!Attempts
  <2>2. \A s \in Smoke!Stages :
            /\ fact[<<c, s>>] = "PASS" => fact'[<<c, s>>] = "PASS"
            /\ fact[<<c, s>>] = "NOT_SENT" => fact'[<<c, s>>] = "NOT_SENT"
            /\ fact[<<c, s>>] \in Smoke!Failed => fact'[<<c, s>>] \in Smoke!Failed
    BY <1>1, <2>1 DEF Smoke!Failed
  <2>3. CASE outcome'[c] = outcome[c]
    BY <1>0, <2>1, <2>2, <2>3 DEF SmokeCase
  <2>4. CASE outcome'[c] = Smoke!Recovered(c) /\ Smoke!Recovered(c) # "NONE"
    <3>1. PICK o : o = Smoke!Recovered(c)
      OBVIOUS
    <3>2. /\ o \in Smoke!Failed \cup {"NOT_SENT", "RECOVERED"}
          /\ o \in Smoke!Failed => \E s \in Smoke!Stages :
                 <<c, s>> \in begun
                 /\ (fact[<<c, s>>] \in Smoke!Failed \/ (fact[<<c, s>>] = "NONE" /\ o = "UNKNOWN"))
          /\ o = "NOT_SENT" => \A s \in Smoke!Stages : <<c, s>> \in begun =>
                 fact[<<c, s>>] = "NOT_SENT" \/ (s = "ANALYST" /\ fact[<<c, s>>] = "PASS")
          /\ o = "RECOVERED" => \A s \in Smoke!Stages : fact[<<c, s>>] = "PASS"
      BY <1>0, <2>4, <3>1, SmokeRecovered
    <3>3. o \in Smoke!Failed => \E s \in Smoke!Stages : fact'[<<c, s>>] \in Smoke!Failed
      <4> SUFFICES ASSUME o \in Smoke!Failed PROVE \E s \in Smoke!Stages : fact'[<<c, s>>] \in Smoke!Failed
        OBVIOUS
      <4>1. PICK s \in Smoke!Stages :
                <<c, s>> \in begun
                /\ (fact[<<c, s>>] \in Smoke!Failed \/ (fact[<<c, s>>] = "NONE" /\ o = "UNKNOWN"))
        BY <3>2
      <4>2. (fact[<<c, s>>] = "NONE" /\ o = "UNKNOWN") => fact'[<<c, s>>] = "UNKNOWN"
        BY <1>1, <2>1, <3>1, <4>1
      <4> QED BY <2>2, <4>1, <4>2 DEF Smoke!Failed
    <3>4. o \in Smoke!Passed => o = "RECOVERED"
      BY <3>2 DEF Smoke!Passed, Smoke!Failed
    <3>5. o \in Smoke!Blocked => o = "NOT_SENT"
      BY <3>2 DEF Smoke!Blocked, Smoke!Failed
    <3> QED BY <1>0, <2>2, <2>4, <3>1, <3>2, <3>3, <3>4, <3>5 DEF SmokeCase
  <2> QED BY <1>3, <2>3, <2>4
<1>10. Smoke!OneCaseAtATime'
  <2> SUFFICES ASSUME NEW i \in DOMAIN SmokeCases, NEW n \in DOMAIN SmokeCases, i < n, SmokeCases[n] \in claimed
               PROVE  outcome'[SmokeCases[i]] \in Smoke!Passed
    BY <1>0 DEF Smoke!OneCaseAtATime
  <2>1. outcome[SmokeCases[i]] \in Smoke!Passed /\ SmokeCases[i] \in Smoke!Cases
    BY <1>0 DEF SmokeRows, Smoke!OneCaseAtATime, Smoke!Cases
  <2> QED BY <1>3, <2>1 DEF Smoke!Passed
<1>11. SmokeRows'
  BY <1>7, <1>8, <1>9, <1>10 DEF SmokeRows
<1>12. \A c \in Smoke!Cases : outcome[c] # "NONE" => outcome'[c] = outcome[c]
  BY <1>3
<1>13. \A q \in Runners : SmokeOwns(job[q]) => fact'[SmokeWork(job[q])] \in {"NONE", "UNKNOWN"}
  <2> SUFFICES ASSUME NEW q \in Runners, SmokeOwns(job[q])
               PROVE  fact'[SmokeWork(job[q])] \in {"NONE", "UNKNOWN"}
    OBVIOUS
  <2>1. SmokeWork(job[q]) \in Smoke!Attempts /\ fact[SmokeWork(job[q])] \in {"NONE", "UNKNOWN"}
    BY SmokeTypes DEF SmokeJob
  <2> QED BY <1>1, <2>1
<1> QED BY <1>0, <1>6, <1>11, <1>12, <1>13, SmokeMoves

LEMMA SmokeStep ==
    ASSUME SmokeInv, [Smoke!Next]_(Smoke!vars)
    PROVE  SmokeInv'
<1>1. CASE UNCHANGED Smoke!vars
  BY <1>1 DEF Smoke!vars, SmokeInv, SmokeRows, SmokeAttempt, SmokeCase, SmokeJob, SmokeOwns, SmokeWork,
              Smoke!TypeOK, Smoke!OneCaseAtATime
<1>2. CASE Smoke!Next
  <2>1. PICK r \in Runners :
            \/ Smoke!EnsureRun(r) \/ Smoke!RecoverOpenAttempts(r) \/ Smoke!GetCaseOutcome(r)
            \/ Smoke!ClaimCase(r) \/ Smoke!BeginDispatch(r) \/ Smoke!StopBeforeSend(r)
            \/ Smoke!SendRequest(r) \/ Smoke!AppendBlockedValidation(r) \/ Smoke!AppendProviderReceipt(r)
            \/ Smoke!AppendFailedValidation(r) \/ Smoke!AppendValidationPass(r)
            \/ Smoke!CloseCase(r) \/ Smoke!Crash(r)
    BY <1>2 DEF Smoke!Next
  <2> QED BY <2>1, SmokeEnsures, SmokeRecovers, SmokeLooks, SmokeClaims, SmokeBegins, SmokeStops, SmokeSends,
             SmokeRecords, SmokeReceives, SmokeJudges, SmokeCloses
<1> QED BY <1>1, <1>2

(* The invariant gives what the ledger promises.                           *)
LEMMA SmokeHolds ==
    ASSUME SmokeInv
    PROVE  Smoke!TypeOK /\ Smoke!OneCaseAtATime /\ Smoke!OutcomesAreTrue
<1>1. /\ SmokeRows /\ Smoke!TypeOK /\ Smoke!OneCaseAtATime
      /\ \A k \in Smoke!Attempts : SmokeAttempt(k)
      /\ \A c \in Smoke!Cases : SmokeCase(c)
      /\ \A r \in Runners : SmokeJob(job[r])
  BY DEF SmokeInv, SmokeRows
<1>2. ASSUME NEW c \in Smoke!Cases
      PROVE  /\ outcome[c] \in Smoke!Passed => \A s \in Smoke!Stages : sent[<<c, s>>] = 1 /\ <<c, s>> \in receipt
             /\ outcome[c] \in Smoke!Failed => \E s \in Smoke!Stages : fact[<<c, s>>] \in Smoke!Failed
             /\ outcome[c] \in Smoke!Blocked =>
                   /\ sent[<<c, "PLANNER">>] = 0
                   /\ sent[<<c, "ANALYST">>] = 1 => fact[<<c, "ANALYST">>] = "PASS"
  <2>1. SmokeCase(c) /\ \A s \in Smoke!Stages : <<c, s>> \in Smoke!Attempts /\ SmokeAttempt(<<c, s>>)
    BY <1>1 DEF Smoke!Attempts
  <2>2. "ANALYST" \in Smoke!Stages /\ "PLANNER" \in Smoke!Stages
    BY DEF Smoke!Stages
  <2>3. outcome[c] \in Smoke!Passed => \A s \in Smoke!Stages : sent[<<c, s>>] = 1 /\ <<c, s>> \in receipt
    BY <2>1 DEF SmokeCase, SmokeAttempt
  <2>4. outcome[c] \in Smoke!Failed => \E s \in Smoke!Stages : fact[<<c, s>>] \in Smoke!Failed
    BY <2>1 DEF SmokeCase
  <2>5. outcome[c] \in Smoke!Blocked =>
            /\ sent[<<c, "PLANNER">>] = 0
            /\ sent[<<c, "ANALYST">>] = 1 => fact[<<c, "ANALYST">>] = "PASS"
    BY <2>1, <2>2 DEF SmokeCase, SmokeAttempt
  <2> QED BY <2>3, <2>4, <2>5
<1>3. \A r \in Runners :
          /\ job[r].report = "PASS" => \A c \in Smoke!Cases : outcome[c] \in Smoke!Passed
          /\ job[r].report = "FAILED" => \E c \in Smoke!Cases : outcome[c] \in Smoke!Failed
          /\ job[r].report = "BLOCKED" => \E c \in Smoke!Cases : outcome[c] \in Smoke!Blocked
  BY <1>1 DEF SmokeJob
<1> QED BY <1>1, <1>2, <1>3 DEF Smoke!OutcomesAreTrue


-----------------------------------------------------------------------------
(* The calls of the smoke run: what its ledger says of them.               *)
SmokeSays(f) ==
    IF f = "NONE" THEN "OPEN" ELSE IF f = "PASS" THEN "OK" ELSE IF f = "NOT_SENT" THEN "UNSENT" ELSE "LOST"
SmokeAnswer == [k \in Smoke!Attempts |-> SmokeSays(fact[k])]
SmokeCalls == [Smoke!CallsOnce!Next]_(Smoke!CallsOnce!vars)

LEMMA SmokeMapping ==
    /\ UNCHANGED <<begun, sent, SmokeAnswer>> => UNCHANGED Smoke!CallsOnce!vars
    /\ \A k \in Smoke!Attempts :
         /\ Smoke!CallsOnce!Reserve(k) <=>
              k \notin begun /\ begun' = begun \cup {k} /\ UNCHANGED <<sent, SmokeAnswer>>
         /\ Smoke!CallsOnce!Send(k) <=>
              /\ k \in begun /\ sent[k] = 0 /\ SmokeAnswer[k] \in {"OPEN", "LOST"}
              /\ sent' = [sent EXCEPT ![k] = 1] /\ UNCHANGED <<begun, SmokeAnswer>>
         /\ \A o : Smoke!CallsOnce!Settle(k, o) <=>
              /\ k \in begun /\ SmokeAnswer[k] = "OPEN"
              /\ o = "OK" => sent[k] = 1
              /\ o = "UNSENT" => sent[k] = 0
              /\ SmokeAnswer' = [SmokeAnswer EXCEPT ![k] = o]
              /\ UNCHANGED <<begun, sent>>
<1>1. SmokeAnswer = [k \in Smoke!Attempts |->
                CASE fact[k] = "NONE" -> "OPEN"
                  [] fact[k] = "PASS" -> "OK"
                  [] fact[k] = "NOT_SENT" -> "UNSENT"
                  [] OTHER -> "LOST"]
  BY DEF SmokeAnswer, SmokeSays
<1>2. SmokeAnswer' = [k \in Smoke!Attempts |->
                CASE fact'[k] = "NONE" -> "OPEN"
                  [] fact'[k] = "PASS" -> "OK"
                  [] fact'[k] = "NOT_SENT" -> "UNSENT"
                  [] OTHER -> "LOST"]
  BY DEF SmokeAnswer, SmokeSays
<1> HIDE DEF SmokeAnswer
<1> QED BY <1>1, <1>2 DEF Smoke!CallsOnce!vars, Smoke!CallsOnce!Reserve, Smoke!CallsOnce!Send, Smoke!CallsOnce!Settle

(* No call is begun, sent or judged.                                       *)
LEMMA SmokeCallsRest ==
    ASSUME UNCHANGED <<begun, sent, fact>>
    PROVE  SmokeCalls
<1>1. UNCHANGED <<begun, sent, SmokeAnswer>>
  BY DEF SmokeAnswer
<1> QED BY <1>1, SmokeMapping DEF SmokeCalls

(* One open call gets its answer.                                          *)
LEMMA SmokeCallSettled ==
    ASSUME SmokeInv, NEW k \in Smoke!Attempts, NEW f \in {"PASS", "NOT_SENT"} \cup Smoke!Failed,
           k \in begun, fact[k] = "NONE", fact' = [fact EXCEPT ![k] = f], UNCHANGED <<begun, sent>>,
           f = "PASS" => sent[k] = 1, f = "NOT_SENT" => sent[k] = 0
    PROVE  SmokeCalls
<1>1. fact \in [Smoke!Attempts -> {"NONE", "PASS", "NOT_SENT"} \cup Smoke!Failed]
  BY DEF SmokeInv, SmokeRows, Smoke!TypeOK
<1>2. SmokeAnswer' = [SmokeAnswer EXCEPT ![k] = SmokeSays(f)]
  BY <1>1 DEF SmokeAnswer
<1>3. SmokeAnswer[k] = "OPEN" /\ SmokeSays(f) \in {"OK", "LOST", "UNSENT"}
      /\ (SmokeSays(f) = "OK" => sent[k] = 1) /\ (SmokeSays(f) = "UNSENT" => sent[k] = 0)
  BY DEF SmokeAnswer, SmokeSays, Smoke!Failed
<1>4. Smoke!CallsOnce!Settle(k, SmokeSays(f))
  BY <1>2, <1>3, SmokeMapping
<1> QED BY <1>3, <1>4 DEF SmokeCalls, Smoke!CallsOnce!Next

LEMMA SmokeCallBegun ==
    ASSUME SmokeInv, NEW r \in Runners, Smoke!BeginDispatch(r)
    PROVE  SmokeCalls
<1>1. PICK k \in Smoke!Attempts : k = Smoke!AttemptOf(r)
  BY SmokeTypes
<1>2. k \notin begun /\ begun' = begun \cup {k} /\ UNCHANGED <<sent, fact>>
  BY <1>1 DEF Smoke!BeginDispatch, Smoke!MayBegin
<1>3. UNCHANGED SmokeAnswer
  BY <1>2 DEF SmokeAnswer
<1>4. Smoke!CallsOnce!Reserve(k)
  BY <1>2, <1>3, SmokeMapping
<1> QED BY <1>4 DEF SmokeCalls, Smoke!CallsOnce!Next

LEMMA SmokeCallSent ==
    ASSUME SmokeInv, NEW r \in Runners, Smoke!SendRequest(r)
    PROVE  SmokeCalls
<1>1. PICK k \in Smoke!Attempts : k = Smoke!AttemptOf(r) /\ k = SmokeWork(job[r])
  BY SmokeTypes
<1>2. k \in begun /\ fact[k] \in {"NONE", "UNKNOWN"} /\ sent[k] = 0
  BY <1>1, SmokeTypes DEF SmokeJob, SmokeOwns, Smoke!SendRequest, Smoke!At
<1>3. sent' = [sent EXCEPT ![k] = 1] /\ UNCHANGED <<begun, fact>>
  BY <1>1, <1>2, SmokeTypes DEF Smoke!SendRequest, Smoke!ledger
<1>4. UNCHANGED SmokeAnswer /\ SmokeAnswer[k] \in {"OPEN", "LOST"}
  BY <1>2, <1>3 DEF SmokeAnswer, SmokeSays
<1>5. Smoke!CallsOnce!Send(k)
  BY <1>2, <1>3, <1>4, SmokeMapping
<1> QED BY <1>5 DEF SmokeCalls, Smoke!CallsOnce!Next

LEMMA SmokeCallJudged ==
    ASSUME SmokeInv, NEW r \in Runners,
           \/ Smoke!AppendBlockedValidation(r) \/ Smoke!AppendFailedValidation(r) \/ Smoke!AppendValidationPass(r)
    PROVE  SmokeCalls
<1>1. PICK k \in Smoke!Attempts : k = Smoke!AttemptOf(r) /\ k = SmokeWork(job[r]) /\ SmokeAttempt(k)
  BY SmokeTypes
<1>2. UNCHANGED <<begun, sent>>
  BY DEF Smoke!AppendBlockedValidation, Smoke!AppendFailedValidation, Smoke!AppendValidationPass
<1>3. PICK f \in {"PASS", "NOT_SENT"} \cup Smoke!Failed :
          Smoke!MayRecord(k, f) /\ fact' = [fact EXCEPT ![k] = f]
          /\ (f = "NOT_SENT" => job[r].pc = "SEND")
  BY <1>1 DEF Smoke!AppendBlockedValidation, Smoke!AppendFailedValidation, Smoke!AppendValidationPass,
              Smoke!Failed, Smoke!At
<1>4. f = "PASS" => sent[k] = 1
  BY <1>1, <1>3 DEF Smoke!MayRecord, SmokeAttempt
<1>5. f = "NOT_SENT" => sent[k] = 0
  BY <1>1, <1>3, SmokeTypes DEF SmokeJob
<1>6. k \in begun /\ fact[k] = "NONE"
  BY <1>3 DEF Smoke!MayRecord
<1> QED BY <1>2, <1>3, <1>4, <1>5, <1>6, SmokeCallSettled

(* Recovery declares at most one call lost: the cases are paid for one at  *)
(* a time, and the planner only after the analyst passed.                  *)
LEMMA SmokeCallLost ==
    ASSUME SmokeInv, NEW r \in Runners, Smoke!RecoverOpenAttempts(r)
    PROVE  SmokeCalls
<1> DEFINE Lost(k) == k \in begun /\ fact[k] = "NONE" /\ Smoke!Recovered(k[1]) = "UNKNOWN"
<1>1. /\ SmokeRows
      /\ fact \in [Smoke!Attempts -> {"NONE", "PASS", "NOT_SENT"} \cup Smoke!Failed]
      /\ fact' = [k \in Smoke!Attempts |-> IF Lost(k) THEN "UNKNOWN" ELSE fact[k]]
      /\ UNCHANGED <<begun, sent>>
  BY SmokeTypes DEF Smoke!RecoverOpenAttempts
<1>2. ASSUME NEW k \in Smoke!Attempts, NEW l \in Smoke!Attempts, Lost(k), Lost(l)
      PROVE  k = l
  <2>1. /\ k[1] \in Smoke!Cases /\ l[1] \in Smoke!Cases /\ k = <<k[1], k[2]>> /\ l = <<l[1], l[2]>>
        /\ k[2] \in Smoke!Stages /\ l[2] \in Smoke!Stages
    BY DEF Smoke!Attempts
  <2>2. k[1] \in claimed /\ outcome[k[1]] = "NONE" /\ l[1] \in claimed /\ outcome[l[1]] = "NONE"
    BY <1>2 DEF Smoke!Recovered
  <2>3. PICK i \in DOMAIN SmokeCases, n \in DOMAIN SmokeCases : k[1] = SmokeCases[i] /\ l[1] = SmokeCases[n]
    BY <2>1 DEF Smoke!Cases
  <2>4. ~(i < n) /\ ~(n < i)
    BY <1>1, <2>2, <2>3 DEF SmokeRows, Smoke!OneCaseAtATime, Smoke!Passed
  <2>5. i = n
    <3>1. i \in Nat /\ n \in Nat
      BY SmokeAssumption
    <3> QED BY <2>4, <3>1
  <2>6. SmokeAttempt(k) /\ SmokeAttempt(l)
    BY <1>1 DEF SmokeRows
  <2>7. k[2] = l[2]
    BY <1>2, <2>1, <2>3, <2>5, <2>6 DEF SmokeAttempt, Smoke!Stages
  <2> QED BY <2>1, <2>3, <2>5, <2>7
<1>3. CASE \E k \in Smoke!Attempts : Lost(k)
  <2>1. PICK k \in Smoke!Attempts : Lost(k)
    BY <1>3
  <2>2. fact' = [fact EXCEPT ![k] = "UNKNOWN"]
    <3>1. \A l \in Smoke!Attempts : Lost(l) <=> l = k
      BY <1>2, <2>1
    <3> HIDE DEF Lost
    <3> QED BY <1>1, <3>1
  <2>3. k \in begun /\ fact[k] = "NONE" /\ "UNKNOWN" \in Smoke!Failed
    BY <2>1 DEF Smoke!Failed
  <2> QED BY <1>1, <2>2, <2>3, SmokeCallSettled
<1>4. CASE \A k \in Smoke!Attempts : ~Lost(k)
  <2>1. fact' = fact
    <3> HIDE DEF Lost
    <3> QED BY <1>1, <1>4
  <2> QED BY <1>1, <2>1, SmokeCallsRest
<1> QED BY <1>3, <1>4

(* Every step of the smoke run makes each paid call at most once.          *)
LEMMA SmokeRefines ==
    ASSUME SmokeInv, [Smoke!Next]_(Smoke!vars)
    PROVE  SmokeCalls
<1>1. CASE UNCHANGED Smoke!vars
  BY <1>1, SmokeCallsRest DEF Smoke!vars
<1>2. CASE Smoke!Next
  <2>1. PICK r \in Runners :
            \/ Smoke!EnsureRun(r) \/ Smoke!RecoverOpenAttempts(r) \/ Smoke!GetCaseOutcome(r)
            \/ Smoke!ClaimCase(r) \/ Smoke!BeginDispatch(r) \/ Smoke!StopBeforeSend(r)
            \/ Smoke!SendRequest(r) \/ Smoke!AppendBlockedValidation(r) \/ Smoke!AppendProviderReceipt(r)
            \/ Smoke!AppendFailedValidation(r) \/ Smoke!AppendValidationPass(r)
            \/ Smoke!CloseCase(r) \/ Smoke!Crash(r)
    BY <1>2 DEF Smoke!Next
  <2>2. CASE \/ Smoke!EnsureRun(r) \/ Smoke!GetCaseOutcome(r) \/ Smoke!ClaimCase(r) \/ Smoke!StopBeforeSend(r)
             \/ Smoke!AppendProviderReceipt(r) \/ Smoke!CloseCase(r) \/ Smoke!Crash(r)
    BY <2>2, SmokeCallsRest DEF Smoke!EnsureRun, Smoke!GetCaseOutcome, Smoke!ClaimCase, Smoke!StopBeforeSend,
           Smoke!AppendProviderReceipt, Smoke!CloseCase, Smoke!Crash, Smoke!ledger
  <2> QED BY <2>1, <2>2, SmokeCallBegun, SmokeCallSent, SmokeCallJudged, SmokeCallLost
<1> QED BY <1>1, <1>2

-----------------------------------------------------------------------------
(* The controlled end-to-end campaign.                                     *)

(* An attempt: reserved for a claimed case, the planner after the analyst, *)
(* sent at most once, and what was recorded of it is true.                 *)
CampaignAttempt(k) ==
    /\ k \in begun => k[1] \in claimed
    /\ (k \in begun /\ k[2] = "PLANNER") => Campaign!Passed(<<k[1], "ANALYST">>)
    /\ sent[k] \in {0, 1}
    /\ sent[k] = 1 => k \in begun
    /\ receipt[k] # "NONE" => sent[k] = 1
    /\ fact[k] # "NONE" => k \in begun
    /\ fact[k] = "PASS" => receipt[k] = "COMPLETE"
    /\ fact[k] = "BLOCKED" => sent[k] = 0

(* The attempts of case c leave nothing to do.                             *)
CampaignDone(c) ==
    \/ \A s \in Campaign!Stages : Campaign!Passed(<<c, s>>)
    \/ \E s \in Campaign!Stages : fact[<<c, s>>] \in {"FAILED", "BLOCKED"}

(* A case: claimed in a run that began, and what its outcome rests on.     *)
CampaignCase(c) ==
    /\ c \in claimed => run[Campaign!KindOf(c)] # "NONE"
    /\ outcome[c] # "NONE" => c \in claimed
    /\ outcome[c] = "PASS" => \A s \in Campaign!Stages : Campaign!Passed(<<c, s>>)
    /\ (outcome[c] # "NONE" /\ Campaign!IsLive(Campaign!KindOf(c))) => CampaignDone(c)
    /\ outcome[c] = "BLOCKED" =>
        \/ \E s \in Campaign!Stages : fact[<<c, s>>] = "BLOCKED"
        \/ Campaign!BegunStages(c) = {} /\ run[Campaign!KindOf(c)] \in Campaign!Verdicts
    /\ recovery[c] # "NONE" => outcome[c] # "NONE"

(* The runs: what passed, and the formal one after the calibration.        *)
CampaignRuns ==
    /\ \A k \in Campaign!Kinds : run[k] = "PASS" => \A c \in Campaign!CasesOf(k) : outcome[c] = "PASS"
    /\ run["FORMAL"] # "NONE" => run["CALIBRATION"] = "PASS"

(* The cases before slot n of run k have ended.                            *)
CampaignBefore(k, n) ==
    \A i \in DOMAIN Campaign!Slots(k) : i < n => outcome[Campaign!Slots(k)[i]] # "NONE"

CampaignOrder ==
    \A k \in Campaign!Kinds : \A n \in DOMAIN Campaign!Slots(k) :
        Campaign!Slots(k)[n] \in claimed => CampaignBefore(k, n)

CampaignRows ==
    /\ Campaign!TypeOK /\ Campaign!OneOpenAttempt /\ CampaignRuns /\ CampaignOrder
    /\ \A k \in Campaign!Attempts : CampaignAttempt(k)
    /\ \A c \in Campaign!Cases : CampaignCase(c)

(* The attempt execution j works on, and whether it is its own.            *)
CampaignWork(j) == <<Campaign!Slots(j.kind)[j.at], j.stage>>
CampaignOwns(j) == j.pc \in {"SEND", "AWAIT", "JUDGE"}
CampaignActive == {"CLAIM", "BEGIN", "SEND", "AWAIT", "JUDGE", "CLOSE"}

(* An execution: every case before its own has ended, its case is claimed, *)
(* and its attempt is as far as it is.                                     *)
CampaignJob(j) ==
    /\ j.pc \in {"IDLE", "ATTEMPTS", "CASES", "RUN"} => j.at = 1
    /\ j.pc \in CampaignActive =>
        j.at \in DOMAIN Campaign!Slots(j.kind) /\ run[j.kind] # "NONE" /\ CampaignBefore(j.kind, j.at)
    /\ j.pc \in CampaignActive \ {"CLAIM"} => Campaign!Slots(j.kind)[j.at] \in claimed
    /\ CampaignOwns(j) => CampaignWork(j) \in begun /\ fact[CampaignWork(j)] \in {"NONE", "FAILED"}
    /\ j.pc = "SEND" => sent[CampaignWork(j)] = 0 /\ receipt[CampaignWork(j)] = "NONE"
    /\ j.pc \in {"AWAIT", "JUDGE"} => sent[CampaignWork(j)] = 1

CampaignInv ==
    /\ CampaignRows
    /\ \A r \in Runners : CampaignJob(job[r])
    /\ \A r, q \in Runners :
        r # q /\ CampaignOwns(job[r]) /\ CampaignOwns(job[q]) => CampaignWork(job[r]) # CampaignWork(job[q])


-----------------------------------------------------------------------------
(* A case belongs to one run.                                              *)
LEMMA CampaignKinds ==
    /\ \A k \in Campaign!Kinds : \A c \in Campaign!CasesOf(k) :
          c \in Campaign!Cases /\ Campaign!KindOf(c) = k
    /\ \A c \in Campaign!Cases :
          Campaign!KindOf(c) \in Campaign!Kinds /\ c \in Campaign!CasesOf(Campaign!KindOf(c))
    /\ \A k \in Campaign!Kinds : \A i \in DOMAIN Campaign!Slots(k) :
          Campaign!Slots(k)[i] \in Campaign!CasesOf(k)
<1>1. \A k \in Campaign!Kinds : \A c \in Campaign!CasesOf(k) : c \in Campaign!Cases /\ Campaign!KindOf(c) = k
  <2> SUFFICES ASSUME NEW k \in Campaign!Kinds, NEW c \in Campaign!CasesOf(k)
               PROVE  c \in Campaign!Cases /\ Campaign!KindOf(c) = k
    OBVIOUS
  <2>1. \A l \in Campaign!Kinds : c \in Campaign!CasesOf(l) => l = k
    BY CampaignAssumption DEF Campaign!Kinds
  <2>2. Campaign!KindOf(c) = k
    BY <2>1 DEF Campaign!KindOf
  <2> QED BY <2>2 DEF Campaign!Cases
<1>2. \A c \in Campaign!Cases : \E k \in Campaign!Kinds : c \in Campaign!CasesOf(k)
  BY DEF Campaign!Cases
<1>3. \A k \in Campaign!Kinds : \A i \in DOMAIN Campaign!Slots(k) : Campaign!Slots(k)[i] \in Campaign!CasesOf(k)
  BY DEF Campaign!CasesOf
<1> QED BY <1>1, <1>2, <1>3

LEMMA CampaignInit ==
    ASSUME Campaign!Init
    PROVE  CampaignInv
<1>1. Campaign!Idle("CALIBRATION", "NONE") \in Campaign!JobRecord
  BY DEF Campaign!Idle, Campaign!JobRecord, Campaign!Steps, Campaign!Stages, Campaign!Verdicts, Campaign!Kinds
<1>2. Campaign!TypeOK
  BY <1>1 DEF Campaign!Init, Campaign!TypeOK
<1>3. \A k \in Campaign!Attempts : CampaignAttempt(k)
  BY DEF Campaign!Init, CampaignAttempt
<1>4. \A c \in Campaign!Cases : CampaignCase(c)
  BY DEF Campaign!Init, CampaignCase
<1>5. CampaignRuns /\ CampaignOrder /\ Campaign!OneOpenAttempt
  BY DEF Campaign!Init, CampaignRuns, CampaignOrder, Campaign!OneOpenAttempt, Campaign!Kinds
<1>6. \A r \in Runners : job[r].pc = "IDLE" /\ job[r].at = 1
  BY DEF Campaign!Init, Campaign!Idle
<1>7. \A r \in Runners : CampaignJob(job[r]) /\ ~CampaignOwns(job[r])
  BY <1>6 DEF CampaignJob, CampaignOwns, CampaignActive
<1> QED BY <1>2, <1>3, <1>4, <1>5, <1>7 DEF CampaignInv, CampaignRows

LEMMA CampaignTypes ==
    ASSUME CampaignInv, NEW r \in Runners
    PROVE  /\ CampaignRows /\ Campaign!TypeOK /\ CampaignJob(job[r])
           /\ job \in [Runners -> Campaign!JobRecord] /\ job[r] \in Campaign!JobRecord
           /\ job[r].kind \in Campaign!Kinds /\ job[r].stage \in Campaign!Stages
           /\ job[r].at \in 1..(Len(Formal) + 1)
           /\ run \in [Campaign!Kinds -> {"NONE", "OPEN"} \cup Campaign!Verdicts]
           /\ claimed \in SUBSET Campaign!Cases /\ begun \in SUBSET Campaign!Attempts
           /\ sent \in [Campaign!Attempts -> Nat]
           /\ receipt \in [Campaign!Attempts -> {"NONE", "COMPLETE", "INCOMPLETE"}]
           /\ fact \in [Campaign!Attempts -> {"NONE"} \cup Campaign!Verdicts]
           /\ outcome \in [Campaign!Cases -> {"NONE"} \cup Campaign!Verdicts]
           /\ recovery \in [Campaign!Cases -> {"NONE", "FAILED", "BLOCKED"}]
<1>1. /\ CampaignRows /\ Campaign!TypeOK /\ CampaignJob(job[r])
      /\ job \in [Runners -> Campaign!JobRecord] /\ job[r] \in Campaign!JobRecord
  BY DEF CampaignInv, CampaignRows, Campaign!TypeOK
<1>2. job[r].kind \in Campaign!Kinds /\ job[r].stage \in Campaign!Stages /\ job[r].at \in 1..(Len(Formal) + 1)
  BY <1>1 DEF Campaign!JobRecord
<1> QED BY <1>1, <1>2 DEF Campaign!TypeOK

(* The attempt of an execution that has one.                               *)
LEMMA CampaignWorks ==
    ASSUME CampaignInv, NEW r \in Runners, job[r].pc \in CampaignActive
    PROVE  /\ job[r].at \in DOMAIN Campaign!Slots(job[r].kind)
           /\ Campaign!CaseOf(r) = Campaign!Slots(job[r].kind)[job[r].at]
           /\ Campaign!CaseOf(r) \in Campaign!Cases /\ Campaign!KindOf(Campaign!CaseOf(r)) = job[r].kind
           /\ Campaign!AttemptOf(r) = CampaignWork(job[r]) /\ CampaignWork(job[r]) \in Campaign!Attempts
           /\ CampaignWork(job[r])[1] = Campaign!CaseOf(r) /\ CampaignWork(job[r])[2] = job[r].stage
           /\ CampaignAttempt(CampaignWork(job[r])) /\ CampaignCase(Campaign!CaseOf(r))
<1>1. job[r].at \in DOMAIN Campaign!Slots(job[r].kind) /\ job[r].kind \in Campaign!Kinds /\ job[r].stage \in Campaign!Stages
  BY CampaignTypes DEF CampaignJob
<1>2. Campaign!CaseOf(r) = Campaign!Slots(job[r].kind)[job[r].at]
  BY DEF Campaign!CaseOf
<1>3. Campaign!CaseOf(r) \in Campaign!Cases /\ Campaign!KindOf(Campaign!CaseOf(r)) = job[r].kind
  BY <1>1, <1>2, CampaignKinds
<1>4. Campaign!AttemptOf(r) = CampaignWork(job[r]) /\ CampaignWork(job[r]) \in Campaign!Attempts
      /\ CampaignWork(job[r])[1] = Campaign!CaseOf(r) /\ CampaignWork(job[r])[2] = job[r].stage
  BY <1>1, <1>2, <1>3 DEF Campaign!AttemptOf, CampaignWork, Campaign!Attempts
<1> QED BY <1>1, <1>2, <1>3, <1>4 DEF CampaignInv, CampaignRows

(* One execution moves on; the others keep their attempts.                 *)
LEMMA CampaignMoves ==
    ASSUME CampaignInv, NEW r \in Runners, NEW j \in Campaign!JobRecord, job' = [job EXCEPT ![r] = j],
           CampaignRows', CampaignJob(j)',
           \A c \in Campaign!Cases : outcome[c] # "NONE" => outcome'[c] # "NONE",
           \A k \in Campaign!Kinds : run[k] # "NONE" => run'[k] # "NONE",
           claimed \subseteq claimed', begun \subseteq begun',
           \A q \in Runners \ {r} : CampaignOwns(job[q]) =>
               LET k == CampaignWork(job[q])
               IN  sent'[k] = sent[k] /\ receipt'[k] = receipt[k] /\ fact'[k] \in {"NONE", "FAILED"},
           CampaignOwns(j) => (CampaignOwns(job[r]) /\ CampaignWork(j) = CampaignWork(job[r]))
                              \/ CampaignWork(j) \notin begun
    PROVE  CampaignInv'
<1>0. /\ job \in [Runners -> Campaign!JobRecord]
      /\ \A q \in Runners : CampaignJob(job[q])
  BY CampaignTypes DEF CampaignInv
<1>1. job'[r] = j /\ \A q \in Runners : q # r => job'[q] = job[q]
  BY <1>0
<1>2. \A k \in Campaign!Kinds : \A n : CampaignBefore(k, n) => CampaignBefore(k, n)'
  BY CampaignKinds DEF CampaignBefore
<1>3. ASSUME NEW q \in Runners PROVE CampaignJob(job[q])'
  <2>1. CASE q = r
    BY <1>1, <2>1 DEF CampaignJob, CampaignOwns, CampaignWork, CampaignActive, CampaignBefore
  <2>2. CASE q # r
    <3>1. PICK i \in Campaign!JobRecord : i = job[q] /\ i = job'[q]
      BY <1>0, <1>1, <2>2
    <3>2. CampaignJob(i) /\ i.kind \in Campaign!Kinds
      BY <1>0, <3>1 DEF Campaign!JobRecord
    <3>3. CampaignOwns(i) => CampaignWork(i) \in begun'
                          /\ sent'[CampaignWork(i)] = sent[CampaignWork(i)]
                          /\ receipt'[CampaignWork(i)] = receipt[CampaignWork(i)]
                          /\ fact'[CampaignWork(i)] \in {"NONE", "FAILED"}
      BY <2>2, <3>1, <3>2 DEF CampaignJob
    <3>4. CampaignBefore(i.kind, i.at) => CampaignBefore(i.kind, i.at)'
      BY <1>2, <3>2
    <3>5. CampaignJob(i)'
      BY <3>2, <3>3, <3>4 DEF CampaignJob, CampaignOwns, CampaignActive
    <3> QED BY <3>1, <3>5 DEF CampaignJob, CampaignOwns, CampaignWork, CampaignActive, CampaignBefore
  <2> QED BY <2>1, <2>2
<1>4. ASSUME NEW p \in Runners, NEW q \in Runners, p # q, CampaignOwns(job'[p]), CampaignOwns(job'[q])
      PROVE  CampaignWork(job'[p]) # CampaignWork(job'[q])
  <2>1. \A i \in Runners : CampaignOwns(job[i]) => CampaignWork(job[i]) \in begun
    BY <1>0 DEF CampaignJob
  <2>2. CASE p = r
    BY <1>1, <1>4, <2>1, <2>2 DEF CampaignInv
  <2>3. CASE q = r
    BY <1>1, <1>4, <2>1, <2>3 DEF CampaignInv
  <2>4. CASE p # r /\ q # r
    BY <1>1, <1>4, <2>4 DEF CampaignInv
  <2> QED BY <2>2, <2>3, <2>4
<1>5. \A p, q \in Runners :
          (p # q /\ CampaignOwns(job[p])' /\ CampaignOwns(job[q])') => CampaignWork(job[p])' # CampaignWork(job[q])'
  BY <1>4 DEF CampaignOwns, CampaignWork
<1> QED BY <1>3, <1>5 DEF CampaignInv


-----------------------------------------------------------------------------
(* The steps that leave the rows alone, and those that write a run.        *)
LEMMA CampaignFinishes ==
    ASSUME CampaignInv, NEW r \in Runners, NEW end \in {"NONE", "ERROR"} \cup Campaign!Verdicts,
           Campaign!Finish(r, end)
    PROVE  \E j \in Campaign!JobRecord :
              job' = [job EXCEPT ![r] = j] /\ ~CampaignOwns(j) /\ CampaignJob(j)'
<1>0. job[r].kind \in Campaign!Kinds
  BY CampaignTypes
<1>1. /\ Campaign!Idle(job[r].kind, end) \in Campaign!JobRecord
      /\ Campaign!Idle(job[r].kind, end).pc = "IDLE" /\ Campaign!Idle(job[r].kind, end).at = 1
  <2>1. 1 \in 1..(Len(Formal) + 1)
    <3>1. Formal \in Seq(Campaign!CasesOf("FORMAL"))
      BY CampaignAssumption DEF Campaign!Slots, Campaign!Kinds
    <3>2. Len(Formal) \in Nat
      BY <3>1
    <3> QED BY <3>2
  <2> QED BY <1>0, <2>1 DEF Campaign!Idle, Campaign!JobRecord, Campaign!Steps, Campaign!Stages, Campaign!Verdicts
<1>2. PICK j \in Campaign!JobRecord : j = Campaign!Idle(job[r].kind, end) /\ j.pc = "IDLE" /\ j.at = 1
  BY <1>1
<1>3. CampaignJob(j)'
  BY <1>2 DEF CampaignJob, CampaignOwns, CampaignActive
<1> QED BY <1>2, <1>3 DEF Campaign!Finish, CampaignOwns

LEMMA CampaignStays ==
    ASSUME CampaignInv, NEW r \in Runners, NEW j \in Campaign!JobRecord, job' = [job EXCEPT ![r] = j],
           CampaignJob(j)', ~CampaignOwns(j),
           UNCHANGED <<run, claimed, begun, sent, receipt, fact, outcome, recovery>>
    PROVE  CampaignInv'
<1>1. /\ Campaign!TypeOK /\ CampaignRows /\ job \in [Runners -> Campaign!JobRecord]
      /\ \A q \in Runners : CampaignJob(job[q])
  BY CampaignTypes DEF CampaignInv
<1>2. job' \in [Runners -> Campaign!JobRecord]
  BY <1>1
<1>3. Campaign!TypeOK'
  BY <1>1, <1>2 DEF Campaign!TypeOK
<1>4. /\ \A k \in Campaign!Attempts : CampaignAttempt(k)'
      /\ \A c \in Campaign!Cases : CampaignCase(c)'
      /\ CampaignRuns' /\ CampaignOrder' /\ Campaign!OneOpenAttempt'
  BY <1>1 DEF CampaignRows, CampaignAttempt, CampaignCase, CampaignRuns, CampaignOrder, CampaignBefore, CampaignDone,
      Campaign!OneOpenAttempt, Campaign!Passed, Campaign!IsLive, Campaign!BegunStages
<1>5. CampaignRows'
  BY <1>3, <1>4 DEF CampaignRows
<1>6. \A q \in Runners : CampaignOwns(job[q]) => fact[CampaignWork(job[q])] \in {"NONE", "FAILED"}
  BY <1>1 DEF CampaignJob
<1> QED BY <1>5, <1>6, CampaignMoves

LEMMA CampaignQuietly ==
    ASSUME CampaignInv, NEW r \in Runners,
           (\E k \in Campaign!Kinds : Campaign!Start(r, k)) \/ Campaign!StopBeforeSend(r) \/ Campaign!Crash(r)
    PROVE  CampaignInv'
<1>0. /\ job \in [Runners -> Campaign!JobRecord] /\ job[r] \in Campaign!JobRecord /\ CampaignJob(job[r])
      /\ UNCHANGED <<run, claimed, begun, sent, receipt, fact, outcome, recovery>>
  BY CampaignTypes DEF Campaign!Start, Campaign!StopBeforeSend, Campaign!Crash, Campaign!cases, Campaign!attempts
<1>1. CASE \E k \in Campaign!Kinds : Campaign!Start(r, k)
  <2>1. PICK k \in Campaign!Kinds : Campaign!Start(r, k)
    BY <1>1
  <2> DEFINE n == [Campaign!Idle(k, "NONE") EXCEPT !.pc = "ATTEMPTS"]
  <2>2. n \in Campaign!JobRecord /\ n.pc = "ATTEMPTS" /\ n.at = 1
    <3>1. Formal \in Seq(Campaign!CasesOf("FORMAL"))
      BY CampaignAssumption DEF Campaign!Slots, Campaign!Kinds
    <3>2. Len(Formal) \in Nat
      BY <3>1
    <3>3. 1 \in 1..(Len(Formal) + 1)
      BY <3>2
    <3> QED BY <3>3 DEF Campaign!Idle, Campaign!JobRecord, Campaign!Steps, Campaign!Stages, Campaign!Verdicts
  <2>3. job' = [job EXCEPT ![r] = n]
    BY <2>1 DEF Campaign!Start
  <2> HIDE DEF n
  <2>4. PICK j \in Campaign!JobRecord : j = n
    BY <2>2
  <2>5. CampaignJob(j)' /\ ~CampaignOwns(j)
    BY <2>2, <2>4 DEF CampaignJob, CampaignOwns, CampaignActive
  <2> QED BY <1>0, <2>3, <2>4, <2>5, CampaignStays
<1>2. CASE Campaign!StopBeforeSend(r)
  <2> DEFINE n == [job[r] EXCEPT !.pc = "CLOSE", !.verdict = "BLOCKED"]
  <2>1. n \in Campaign!JobRecord /\ n.pc = "CLOSE" /\ n.at = job[r].at /\ n.kind = job[r].kind
    BY <1>0 DEF Campaign!JobRecord, Campaign!Steps, Campaign!Verdicts
  <2>2. job' = [job EXCEPT ![r] = n] /\ job[r].pc = "BEGIN"
    BY <1>0, <1>2 DEF Campaign!StopBeforeSend, Campaign!CloseAs, Campaign!At
  <2> HIDE DEF n
  <2>3. PICK j \in Campaign!JobRecord : j = n
    BY <2>1
  <2>4. CampaignJob(j)' /\ ~CampaignOwns(j)
    BY <1>0, <2>1, <2>2, <2>3 DEF CampaignJob, CampaignOwns, CampaignActive, CampaignBefore
  <2> QED BY <1>0, <2>2, <2>3, <2>4, CampaignStays
<1>3. CASE Campaign!Crash(r)
  <2>1. PICK j \in Campaign!JobRecord : job' = [job EXCEPT ![r] = j] /\ ~CampaignOwns(j) /\ CampaignJob(j)'
    BY <1>3, CampaignFinishes DEF Campaign!Crash
  <2> QED BY <1>0, <2>1, CampaignStays
<1> QED BY <1>1, <1>2, <1>3

(* A run is opened, or a live run ends.                                    *)
LEMMA CampaignWritesRun ==
    ASSUME CampaignInv, NEW r \in Runners, NEW j \in Campaign!JobRecord, job' = [job EXCEPT ![r] = j],
           CampaignJob(j)', ~CampaignOwns(j),
           NEW k \in Campaign!Kinds, NEW v \in {"OPEN"} \cup Campaign!Verdicts, run' = [run EXCEPT ![k] = v],
           v = "OPEN" => Campaign!MayBeginRun(k),
           v # "OPEN" => Campaign!RunMayEnd(k, v),
           UNCHANGED <<claimed, begun, sent, receipt, fact, outcome, recovery>>
    PROVE  CampaignInv'
<1>1. /\ Campaign!TypeOK /\ CampaignRows /\ job \in [Runners -> Campaign!JobRecord]
      /\ run \in [Campaign!Kinds -> {"NONE", "OPEN"} \cup Campaign!Verdicts]
      /\ begun \in SUBSET Campaign!Attempts /\ claimed \in SUBSET Campaign!Cases
      /\ \A q \in Runners : CampaignJob(job[q])
  BY CampaignTypes DEF CampaignInv
<1>2. job' \in [Runners -> Campaign!JobRecord] /\ run' \in [Campaign!Kinds -> {"NONE", "OPEN"} \cup Campaign!Verdicts]
  BY <1>1
<1>3. Campaign!TypeOK'
  BY <1>1, <1>2 DEF Campaign!TypeOK
<1>4. /\ run[k] \in {"NONE", "OPEN"}
      /\ run[k] = "NONE" => v = "OPEN"
      /\ \A l \in Campaign!Kinds : run'[l] = IF l = k THEN v ELSE run[l]
  BY <1>1 DEF Campaign!MayBeginRun, Campaign!RunMayEnd, Campaign!IsLive
<1>5. CampaignRuns'
  <2>1. v = "PASS" => \A c \in Campaign!CasesOf(k) : outcome[c] = "PASS"
    BY DEF Campaign!RunMayEnd
  <2>2. \A l \in Campaign!Kinds : run'[l] = "PASS" => \A c \in Campaign!CasesOf(l) : outcome'[c] = "PASS"
    BY <1>1, <1>4, <2>1 DEF CampaignRows, CampaignRuns
  <2>3. run'["FORMAL"] # "NONE" => run'["CALIBRATION"] = "PASS"
    BY <1>1, <1>4 DEF CampaignRows, CampaignRuns, Campaign!Kinds, Campaign!MayBeginRun
  <2> QED BY <2>2, <2>3 DEF CampaignRuns
<1>6. ASSUME NEW c \in Campaign!Cases PROVE CampaignCase(c)'
  <2>1. CampaignCase(c) /\ Campaign!KindOf(c) \in Campaign!Kinds
    BY <1>1, CampaignKinds DEF CampaignRows
  <2>2. c \in claimed => run'[Campaign!KindOf(c)] # "NONE"
    BY <1>4, <2>1 DEF CampaignCase, Campaign!Verdicts
  <2>3. (outcome[c] # "NONE" /\ run'[Campaign!KindOf(c)] = "OPEN") => CampaignDone(c)
    BY <1>4, <2>1 DEF CampaignCase, Campaign!IsLive, Campaign!Verdicts
  <2>4. CampaignDone(c)' <=> CampaignDone(c)
    BY DEF CampaignDone, Campaign!Passed
  <2>5. run[Campaign!KindOf(c)] \in Campaign!Verdicts => run'[Campaign!KindOf(c)] \in Campaign!Verdicts
    BY <1>4, <2>1 DEF Campaign!Verdicts
  <2>6. (outcome[c] # "NONE" /\ Campaign!IsLive(Campaign!KindOf(c)))' => CampaignDone(c)'
    BY <2>3, <2>4 DEF Campaign!IsLive
  <2> QED BY <2>1, <2>2, <2>5, <2>6 DEF CampaignCase, Campaign!Passed, Campaign!BegunStages
<1>7. Campaign!OneOpenAttempt'
  <2>1. \A k1 \in begun : \A k2 \in begun :
          (fact[k1] = "NONE" /\ fact[k2] = "NONE" /\ Campaign!KindOf(k1[1]) = Campaign!KindOf(k2[1])
           /\ run'[Campaign!KindOf(k1[1])] = "OPEN") => k1 = k2
    <3> SUFFICES ASSUME NEW k1 \in begun, NEW k2 \in begun, fact[k1] = "NONE", fact[k2] = "NONE",
                        Campaign!KindOf(k1[1]) = Campaign!KindOf(k2[1]), run'[Campaign!KindOf(k1[1])] = "OPEN"
                 PROVE  k1 = k2
      OBVIOUS
    <3>1. k1[1] \in Campaign!Cases /\ Campaign!KindOf(k1[1]) \in Campaign!Kinds /\ k1[1] \in claimed
      BY <1>1, CampaignKinds DEF CampaignRows, CampaignAttempt, Campaign!Attempts
    <3>2. run[Campaign!KindOf(k1[1])] = "OPEN"
      BY <1>1, <1>4, <3>1 DEF CampaignRows, CampaignCase, Campaign!Verdicts
    <3> QED BY <1>1, <3>2 DEF CampaignRows, Campaign!OneOpenAttempt, Campaign!IsLive
  <2> QED BY <2>1 DEF Campaign!OneOpenAttempt, Campaign!IsLive
<1>8. \A q \in Campaign!Attempts : CampaignAttempt(q)'
  BY <1>1 DEF CampaignRows, CampaignAttempt, Campaign!Passed
<1>9. CampaignOrder'
  BY <1>1 DEF CampaignRows, CampaignOrder, CampaignBefore
<1>10. CampaignRows'
  BY <1>3, <1>5, <1>6, <1>7, <1>8, <1>9 DEF CampaignRows
<1>11. \A q \in Runners : CampaignOwns(job[q]) => fact[CampaignWork(job[q])] \in {"NONE", "FAILED"}
  BY <1>1 DEF CampaignJob
<1>12. \A l \in Campaign!Kinds : run[l] # "NONE" => run'[l] # "NONE"
  BY <1>4 DEF Campaign!Verdicts
<1> QED BY <1>10, <1>11, <1>12, CampaignMoves


LEMMA CampaignEndsRun ==
    ASSUME CampaignInv, NEW r \in Runners,
           Campaign!RefuseClaim(r) \/ Campaign!CloseRun(r)
    PROVE  CampaignInv'
<1>0. /\ job[r].kind \in Campaign!Kinds
      /\ UNCHANGED <<claimed, begun, sent, receipt, fact, outcome, recovery>>
  BY CampaignTypes DEF Campaign!RefuseClaim, Campaign!CloseRun, Campaign!cases, Campaign!attempts
<1>1. \/ /\ Campaign!Finish(r, "ERROR") /\ UNCHANGED run
      \/ \E v \in Campaign!Verdicts :
            /\ Campaign!RunMayEnd(job[r].kind, v) /\ run' = [run EXCEPT ![job[r].kind] = v]
            /\ Campaign!Finish(r, v)
  BY DEF Campaign!RefuseClaim, Campaign!CloseRun, Campaign!VerdictOf, Campaign!Verdicts
<1>2. CASE Campaign!Finish(r, "ERROR") /\ UNCHANGED run
  <2>1. PICK j \in Campaign!JobRecord : job' = [job EXCEPT ![r] = j] /\ ~CampaignOwns(j) /\ CampaignJob(j)'
    BY <1>2, CampaignFinishes
  <2> QED BY <1>0, <1>2, <2>1, CampaignStays
<1>3. ASSUME NEW v \in Campaign!Verdicts, Campaign!RunMayEnd(job[r].kind, v),
             run' = [run EXCEPT ![job[r].kind] = v], Campaign!Finish(r, v)
      PROVE  CampaignInv'
  <2>1. PICK j \in Campaign!JobRecord : job' = [job EXCEPT ![r] = j] /\ ~CampaignOwns(j) /\ CampaignJob(j)'
    BY <1>3, CampaignFinishes
  <2>2. PICK k \in Campaign!Kinds : k = job[r].kind
    BY <1>0
  <2>3. v # "OPEN"
    BY DEF Campaign!Verdicts
  <2> QED BY <1>0, <1>3, <2>1, <2>2, <2>3, CampaignWritesRun
<1> QED BY <1>1, <1>2, <1>3

LEMMA CampaignBeginsRun ==
    ASSUME CampaignInv, NEW r \in Runners, Campaign!BeginRun(r)
    PROVE  CampaignInv'
<1>0. /\ job \in [Runners -> Campaign!JobRecord] /\ job[r] \in Campaign!JobRecord /\ CampaignJob(job[r])
      /\ job[r].kind \in Campaign!Kinds /\ job[r].pc = "RUN" /\ job[r].at = 1
      /\ run \in [Campaign!Kinds -> {"NONE", "OPEN"} \cup Campaign!Verdicts]
      /\ UNCHANGED <<claimed, begun, sent, receipt, fact, outcome, recovery>>
  BY CampaignTypes DEF Campaign!BeginRun, Campaign!At, Campaign!cases, Campaign!attempts, CampaignJob
<1>1. CASE ~Campaign!MayBeginRun(job[r].kind)
  <2>1. Campaign!Finish(r, "BLOCKED") /\ UNCHANGED run
    BY <1>1 DEF Campaign!BeginRun
  <2>2. PICK j \in Campaign!JobRecord : job' = [job EXCEPT ![r] = j] /\ ~CampaignOwns(j) /\ CampaignJob(j)'
    BY <2>1, CampaignFinishes DEF Campaign!Verdicts
  <2> QED BY <1>0, <2>1, <2>2, CampaignStays
<1>2. CASE Campaign!MayBeginRun(job[r].kind)
  <2> DEFINE n == [job[r] EXCEPT !.pc = "CLAIM"]
  <2>1. n \in Campaign!JobRecord /\ n.pc = "CLAIM" /\ n.at = 1 /\ n.kind = job[r].kind
    BY <1>0 DEF Campaign!JobRecord, Campaign!Steps
  <2>2. job' = [job EXCEPT ![r] = n] /\ run' = [run EXCEPT ![job[r].kind] = "OPEN"]
    BY <1>0, <1>2 DEF Campaign!BeginRun, Campaign!Goto
  <2> HIDE DEF n
  <2>3. PICK j \in Campaign!JobRecord : j = n
    BY <2>1
  <2>4. PICK k \in Campaign!Kinds : k = job[r].kind
    BY <1>0
  <2>5. 1 \in DOMAIN Campaign!Slots(k) /\ \A i \in DOMAIN Campaign!Slots(k) : ~(i < 1)
    <3>1. Campaign!Slots(k) \in Seq(Campaign!CasesOf(k)) /\ Campaign!Slots(k) # <<>>
      BY CampaignAssumption
    <3> QED BY <3>1
  <2>6. run'[k] # "NONE"
    BY <1>0, <2>2, <2>4
  <2>7. CampaignJob(j)' /\ ~CampaignOwns(j)
    BY <2>1, <2>3, <2>4, <2>5, <2>6 DEF CampaignJob, CampaignOwns, CampaignActive, CampaignBefore
  <2> QED BY <1>0, <1>2, <2>2, <2>3, <2>4, <2>7, CampaignWritesRun
<1> QED BY <1>1, <1>2

(* The claim: every case before it has ended.                              *)
LEMMA CampaignClaims ==
    ASSUME CampaignInv, NEW r \in Runners, Campaign!ClaimCase(r)
    PROVE  CampaignInv'
<1>0. /\ job \in [Runners -> Campaign!JobRecord] /\ job[r] \in Campaign!JobRecord /\ job[r].pc = "CLAIM"
      /\ CampaignJob(job[r]) /\ CampaignRows /\ Campaign!TypeOK
      /\ \A q \in Runners : CampaignJob(job[q])
      /\ UNCHANGED <<run, begun, sent, receipt, fact, outcome, recovery>>
  BY CampaignTypes DEF Campaign!ClaimCase, Campaign!At, CampaignInv, Campaign!attempts
<1>1. PICK c \in Campaign!Cases, k \in Campaign!Kinds, n \in 1..(Len(Formal) + 1) :
          /\ n \in DOMAIN Campaign!Slots(k) /\ c = Campaign!CaseOf(r) /\ k = job[r].kind /\ n = job[r].at /\ c = Campaign!Slots(k)[n]
          /\ Campaign!KindOf(c) = k
  <2>1. job[r].pc \in CampaignActive
    BY <1>0 DEF CampaignActive
  <2> QED BY <2>1, CampaignWorks, CampaignTypes
<1>2. claimed' = claimed \cup {c} /\ run[k] = "OPEN" /\ CampaignBefore(k, n)
  BY <1>0, <1>1 DEF Campaign!ClaimCase, Campaign!IsLive, CampaignJob, CampaignActive
<1> DEFINE m == [job[r] EXCEPT !.pc = "BEGIN", !.stage = "ANALYST"]
<1>3. m \in Campaign!JobRecord /\ m.pc = "BEGIN" /\ m.at = n /\ m.kind = k
  BY <1>0, <1>1 DEF Campaign!JobRecord, Campaign!Steps, Campaign!Stages
<1>4. job' = [job EXCEPT ![r] = m]
  BY <1>0 DEF Campaign!ClaimCase
<1> HIDE DEF m
<1>5. PICK j \in Campaign!JobRecord : j = m
  BY <1>3
<1>6. CampaignJob(j)' /\ ~CampaignOwns(j)
  BY <1>0, <1>1, <1>2, <1>3, <1>5 DEF CampaignJob, CampaignOwns, CampaignActive, CampaignBefore
<1>7. Campaign!TypeOK'
  <2>1. job' \in [Runners -> Campaign!JobRecord] /\ claimed' \subseteq Campaign!Cases
    BY <1>0, <1>2, <1>4, <1>5 DEF Campaign!TypeOK
  <2> QED BY <1>0, <2>1 DEF Campaign!TypeOK
<1>8. CampaignOrder'
  <2> SUFFICES ASSUME NEW l \in Campaign!Kinds, NEW i \in DOMAIN Campaign!Slots(l), Campaign!Slots(l)[i] \in claimed'
               PROVE  CampaignBefore(l, i)
    BY <1>0 DEF CampaignOrder, CampaignBefore
  <2>1. CASE Campaign!Slots(l)[i] \in claimed
    BY <1>0, <2>1 DEF CampaignRows, CampaignOrder
  <2>2. CASE Campaign!Slots(l)[i] = c
    <3>1. l = k
      BY <1>1, <2>2, CampaignKinds
    <3>2. i = n
      BY <1>1, <2>2, <3>1, CampaignAssumption
    <3> QED BY <1>2, <3>1, <3>2
  <2> QED BY <1>2, <2>1, <2>2
<1>9. \A q \in Campaign!Attempts : CampaignAttempt(q)'
  BY <1>0, <1>2 DEF CampaignRows, CampaignAttempt, Campaign!Passed
<1>10. \A q \in Campaign!Cases : CampaignCase(q)'
  BY <1>0, <1>1, <1>2 DEF CampaignRows, CampaignCase, CampaignDone, Campaign!Passed, Campaign!IsLive, Campaign!BegunStages
<1>11. CampaignRuns' /\ Campaign!OneOpenAttempt'
  BY <1>0 DEF CampaignRows, CampaignRuns, Campaign!OneOpenAttempt, Campaign!IsLive
<1>12. CampaignRows'
  BY <1>7, <1>8, <1>9, <1>10, <1>11 DEF CampaignRows
<1>13. \A q \in Runners : CampaignOwns(job[q]) => fact[CampaignWork(job[q])] \in {"NONE", "FAILED"}
  BY <1>0 DEF CampaignJob
<1>14. claimed \subseteq claimed'
  BY <1>2
<1> QED BY <1>0, <1>4, <1>5, <1>6, <1>12, <1>13, <1>14, CampaignMoves


-----------------------------------------------------------------------------
(* A new attempt is the only open one of its run: the cases before have    *)
(* ended, no later one is claimed, and its own case has no other open one. *)
LEMMA CampaignAlone ==
    ASSUME CampaignInv, NEW w \in Campaign!Attempts, Campaign!MayBegin(w),
           NEW k \in Campaign!Kinds, NEW n \in DOMAIN Campaign!Slots(k), w[1] = Campaign!Slots(k)[n],
           CampaignBefore(k, n),
           NEW x \in begun, fact[x] = "NONE", Campaign!KindOf(x[1]) = k
    PROVE  FALSE
<1>0. /\ CampaignRows /\ x \in Campaign!Attempts
      /\ run[k] = "OPEN" /\ Campaign!KindOf(w[1]) = k
  <2>1. Campaign!KindOf(w[1]) = k
    BY CampaignKinds
  <2> QED BY <2>1 DEF CampaignInv, CampaignRows, Campaign!TypeOK, Campaign!MayBegin, Campaign!IsLive
<1>1. /\ CampaignAttempt(x) /\ x[1] \in Campaign!Cases /\ x[1] \in claimed /\ x[2] \in Campaign!Stages
      /\ w[1] \in Campaign!Cases /\ w[2] \in Campaign!Stages /\ w = <<w[1], w[2]>> /\ x = <<x[1], x[2]>>
      /\ CampaignCase(x[1]) /\ CampaignCase(w[1])
  BY <1>0 DEF CampaignRows, CampaignAttempt, Campaign!Attempts
<1>2. /\ w \notin begun
      /\ w[2] = "PLANNER" => Campaign!Passed(<<w[1], "ANALYST">>)
  BY DEF Campaign!MayBegin
<1>3. \A c \in Campaign!Cases : \A s \in Campaign!Stages : CampaignAttempt(<<c, s>>)
  BY <1>0 DEF CampaignRows, Campaign!Attempts
<1>4. outcome[x[1]] = "NONE"
  <2>1. CampaignDone(x[1]) => FALSE
    BY <1>1, <1>3 DEF CampaignDone, CampaignAttempt, Campaign!Passed, Campaign!Stages
  <2>2. (outcome[x[1]] # "NONE" /\ Campaign!IsLive(Campaign!KindOf(x[1]))) => CampaignDone(x[1])
    BY <1>1 DEF CampaignCase
  <2> QED BY <1>0, <2>1, <2>2 DEF Campaign!IsLive
<1>5. outcome[w[1]] = "NONE"
  <2>1. CampaignDone(w[1]) => FALSE
    BY <1>1, <1>2, <1>3 DEF CampaignDone, CampaignAttempt, Campaign!Passed, Campaign!Stages
  <2>2. (outcome[w[1]] # "NONE" /\ Campaign!IsLive(Campaign!KindOf(w[1]))) => CampaignDone(w[1])
    BY <1>1 DEF CampaignCase
  <2> QED BY <1>0, <2>1, <2>2 DEF Campaign!IsLive
<1>6. x[1] \in Campaign!CasesOf(k)
  BY <1>1, CampaignKinds
<1>7. PICK i \in DOMAIN Campaign!Slots(k) : x[1] = Campaign!Slots(k)[i]
  BY <1>6 DEF Campaign!CasesOf
<1>8. ~(i < n)
  BY <1>4, <1>7 DEF CampaignBefore
<1>9. ~(n < i)
  BY <1>0, <1>1, <1>5, <1>7 DEF CampaignRows, CampaignOrder, CampaignBefore
<1>10. i = n
  <2>1. Campaign!Slots(k) \in Seq(Campaign!CasesOf(k))
    BY CampaignAssumption
  <2>2. i \in Nat /\ n \in Nat
    BY <2>1
  <2> QED BY <1>8, <1>9, <2>2
<1>11. x[1] = w[1]
  BY <1>7, <1>10
<1> QED BY <1>1, <1>2, <1>3, <1>11 DEF CampaignAttempt, Campaign!Passed, Campaign!Stages

LEMMA CampaignBegins ==
    ASSUME CampaignInv, NEW r \in Runners, Campaign!BeginDispatch(r)
    PROVE  CampaignInv'
<1>0. /\ job \in [Runners -> Campaign!JobRecord] /\ job[r] \in Campaign!JobRecord /\ job[r].pc = "BEGIN"
      /\ CampaignJob(job[r]) /\ CampaignRows /\ Campaign!TypeOK /\ job[r].pc \in CampaignActive
      /\ \A q \in Runners : CampaignJob(job[q])
      /\ UNCHANGED <<run, claimed, sent, receipt, fact, outcome, recovery>>
  BY CampaignTypes DEF Campaign!BeginDispatch, Campaign!At, CampaignInv, Campaign!cases, CampaignActive
<1> DEFINE m == [job[r] EXCEPT !.pc = "SEND"]
<1>1. m \in Campaign!JobRecord /\ m.pc = "SEND" /\ m.at = job[r].at /\ m.kind = job[r].kind /\ m.stage = job[r].stage
  BY <1>0 DEF Campaign!JobRecord, Campaign!Steps
<1>2. job' = [job EXCEPT ![r] = m]
  BY <1>0 DEF Campaign!BeginDispatch, Campaign!Goto
<1> HIDE DEF m
<1>3. PICK j \in Campaign!JobRecord : j = m
  BY <1>1
<1>4. PICK w \in Campaign!Attempts, k \in Campaign!Kinds, n \in 1..(Len(Formal) + 1) :
          /\ w = CampaignWork(job[r]) /\ w = Campaign!AttemptOf(r)
          /\ k = job[r].kind /\ n = job[r].at /\ n \in DOMAIN Campaign!Slots(k) /\ w[1] = Campaign!Slots(k)[n]
          /\ Campaign!KindOf(w[1]) = k
  BY <1>0, CampaignWorks, CampaignTypes
<1>5. w = CampaignWork(j)
  BY <1>1, <1>3, <1>4 DEF CampaignWork
<1>6. Campaign!MayBegin(w) /\ begun' = begun \cup {w}
  BY <1>4 DEF Campaign!BeginDispatch
<1>7. /\ run[k] = "OPEN" /\ w[1] \in claimed /\ w \notin begun
      /\ w[2] = "PLANNER" => Campaign!Passed(<<w[1], "ANALYST">>)
  BY <1>4, <1>6 DEF Campaign!MayBegin, Campaign!IsLive
<1>8. sent[w] = 0 /\ receipt[w] = "NONE" /\ fact[w] = "NONE"
  BY <1>0, <1>7 DEF CampaignRows, CampaignAttempt
<1>9. CampaignBefore(k, n)
  BY <1>0, <1>4 DEF CampaignJob
<1>10. \A x \in begun : fact[x] = "NONE" => Campaign!KindOf(x[1]) # k
  BY <1>4, <1>6, <1>9, CampaignAlone
<1>11. CampaignJob(j)'
  BY <1>0, <1>1, <1>3, <1>4, <1>5, <1>6, <1>7, <1>8 DEF CampaignJob, CampaignOwns, CampaignActive, CampaignBefore
<1>12. Campaign!TypeOK'
  <2>1. job' \in [Runners -> Campaign!JobRecord] /\ begun' \subseteq Campaign!Attempts
    BY <1>0, <1>2, <1>3, <1>6 DEF Campaign!TypeOK
  <2> QED BY <1>0, <2>1 DEF Campaign!TypeOK
<1>13. Campaign!OneOpenAttempt'
  <2>1. \A x1 \in begun' : \A x2 \in begun' :
          (fact[x1] = "NONE" /\ fact[x2] = "NONE" /\ Campaign!KindOf(x1[1]) = Campaign!KindOf(x2[1])
           /\ Campaign!IsLive(Campaign!KindOf(x1[1]))) => x1 = x2
    BY <1>0, <1>4, <1>6, <1>10 DEF CampaignRows, Campaign!OneOpenAttempt
  <2> QED BY <1>0, <2>1 DEF Campaign!OneOpenAttempt, Campaign!IsLive
<1>14. \A q \in Campaign!Attempts : CampaignAttempt(q)'
  BY <1>0, <1>6, <1>7, <1>8 DEF CampaignRows, CampaignAttempt, Campaign!Passed
<1>15. ASSUME NEW c \in Campaign!Cases PROVE CampaignCase(c)'
  <2>1. CampaignCase(c)
    BY <1>0 DEF CampaignRows
  <2>2. CASE c = w[1]
    <3>1. run[Campaign!KindOf(c)] \notin Campaign!Verdicts
      BY <1>4, <1>7, <2>2 DEF Campaign!Verdicts
    <3> QED BY <1>0, <2>1, <3>1 DEF CampaignCase, CampaignDone, Campaign!Passed, Campaign!IsLive
  <2>3. CASE c # w[1]
    <3>1. Campaign!BegunStages(c)' = Campaign!BegunStages(c)
      BY <1>6, <2>3 DEF Campaign!BegunStages
    <3> QED BY <1>0, <2>1, <3>1 DEF CampaignCase, CampaignDone, Campaign!Passed, Campaign!IsLive
  <2> QED BY <2>2, <2>3
<1>16. CampaignRuns' /\ CampaignOrder'
  BY <1>0 DEF CampaignRows, CampaignRuns, CampaignOrder, CampaignBefore
<1>17. CampaignRows'
  BY <1>12, <1>13, <1>14, <1>15, <1>16 DEF CampaignRows
<1>18. \A q \in Runners : CampaignOwns(job[q]) => fact[CampaignWork(job[q])] \in {"NONE", "FAILED"}
  BY <1>0 DEF CampaignJob
<1>19. begun \subseteq begun' /\ CampaignWork(j) \notin begun
  BY <1>5, <1>6, <1>7
<1> QED BY <1>0, <1>2, <1>3, <1>11, <1>17, <1>18, <1>19, CampaignMoves

(* The request leaves once.                                                *)
LEMMA CampaignSends ==
    ASSUME CampaignInv, NEW r \in Runners, Campaign!SendRequest(r)
    PROVE  CampaignInv'
<1>0. /\ job \in [Runners -> Campaign!JobRecord] /\ job[r] \in Campaign!JobRecord /\ job[r].pc = "SEND"
      /\ CampaignJob(job[r]) /\ CampaignRows /\ Campaign!TypeOK /\ job[r].pc \in CampaignActive
      /\ \A q \in Runners : CampaignJob(job[q])
      /\ sent \in [Campaign!Attempts -> Nat] /\ begun \in SUBSET Campaign!Attempts
      /\ UNCHANGED <<run, claimed, begun, receipt, fact, outcome, recovery>>
  BY CampaignTypes DEF Campaign!SendRequest, Campaign!At, CampaignInv, Campaign!cases, CampaignActive
<1> DEFINE m == [job[r] EXCEPT !.pc = "AWAIT"]
<1>1. m \in Campaign!JobRecord /\ m.pc = "AWAIT" /\ m.at = job[r].at /\ m.kind = job[r].kind /\ m.stage = job[r].stage
  BY <1>0 DEF Campaign!JobRecord, Campaign!Steps
<1>2. job' = [job EXCEPT ![r] = m]
  BY <1>0 DEF Campaign!SendRequest, Campaign!Goto
<1> HIDE DEF m
<1>3. PICK j \in Campaign!JobRecord : j = m
  BY <1>1
<1>4. PICK w \in Campaign!Attempts : w = CampaignWork(job[r]) /\ w = Campaign!AttemptOf(r)
  BY <1>0, CampaignWorks
<1>5. w = CampaignWork(j)
  BY <1>1, <1>3, <1>4 DEF CampaignWork
<1>6. w \in begun /\ sent[w] = 0 /\ receipt[w] = "NONE" /\ fact[w] \in {"NONE", "FAILED"}
  BY <1>0, <1>4 DEF CampaignJob, CampaignOwns
<1>7. sent' = [sent EXCEPT ![w] = 1]
  BY <1>4, <1>6 DEF Campaign!SendRequest
<1>8. \A q \in Campaign!Attempts : sent'[q] = IF q = w THEN 1 ELSE sent[q]
  BY <1>0, <1>7
<1>9. CampaignJob(j)'
  BY <1>0, <1>1, <1>3, <1>4, <1>5, <1>6, <1>8 DEF CampaignJob, CampaignOwns, CampaignActive, CampaignBefore
<1>10. Campaign!TypeOK'
  <2>1. job' \in [Runners -> Campaign!JobRecord] /\ sent' \in [Campaign!Attempts -> Nat]
    BY <1>0, <1>2, <1>3, <1>7
  <2> QED BY <1>0, <2>1 DEF Campaign!TypeOK
<1>11. \A q \in Campaign!Attempts : CampaignAttempt(q)'
  BY <1>0, <1>6, <1>8 DEF CampaignRows, CampaignAttempt, Campaign!Passed
<1>12. \A c \in Campaign!Cases : CampaignCase(c)'
  BY <1>0 DEF CampaignRows, CampaignCase, CampaignDone, Campaign!Passed, Campaign!IsLive, Campaign!BegunStages
<1>13. CampaignRuns' /\ CampaignOrder' /\ Campaign!OneOpenAttempt'
  BY <1>0 DEF CampaignRows, CampaignRuns, CampaignOrder, CampaignBefore, Campaign!OneOpenAttempt, Campaign!IsLive
<1>14. CampaignRows'
  BY <1>10, <1>11, <1>12, <1>13 DEF CampaignRows
<1>15. \A q \in Runners \ {r} : CampaignOwns(job[q]) =>
           /\ CampaignWork(job[q]) # w /\ CampaignWork(job[q]) \in Campaign!Attempts
           /\ fact[CampaignWork(job[q])] \in {"NONE", "FAILED"}
  BY <1>0, <1>4 DEF CampaignJob, CampaignInv, CampaignOwns
<1>16. CampaignOwns(job[r])
  BY <1>0 DEF CampaignOwns
<1> QED BY <1>0, <1>2, <1>3, <1>4, <1>5, <1>8, <1>9, <1>14, <1>15, <1>16, CampaignMoves

(* The answer comes in.                                                    *)
LEMMA CampaignReceives ==
    ASSUME CampaignInv, NEW r \in Runners, Campaign!AppendReceipt(r)
    PROVE  CampaignInv'
<1>0. /\ job \in [Runners -> Campaign!JobRecord] /\ job[r] \in Campaign!JobRecord /\ job[r].pc = "AWAIT"
      /\ CampaignJob(job[r]) /\ CampaignRows /\ Campaign!TypeOK /\ job[r].pc \in CampaignActive
      /\ \A q \in Runners : CampaignJob(job[q])
      /\ receipt \in [Campaign!Attempts -> {"NONE", "COMPLETE", "INCOMPLETE"}] /\ begun \in SUBSET Campaign!Attempts
      /\ UNCHANGED <<run, claimed, begun, sent, fact, outcome, recovery>>
  BY CampaignTypes DEF Campaign!AppendReceipt, Campaign!At, CampaignInv, Campaign!cases, CampaignActive
<1> DEFINE m == [job[r] EXCEPT !.pc = "JUDGE"]
<1>1. m \in Campaign!JobRecord /\ m.pc = "JUDGE" /\ m.at = job[r].at /\ m.kind = job[r].kind /\ m.stage = job[r].stage
  BY <1>0 DEF Campaign!JobRecord, Campaign!Steps
<1>2. job' = [job EXCEPT ![r] = m]
  BY <1>0 DEF Campaign!AppendReceipt, Campaign!Goto
<1> HIDE DEF m
<1>3. PICK j \in Campaign!JobRecord : j = m
  BY <1>1
<1>4. PICK w \in Campaign!Attempts : w = CampaignWork(job[r]) /\ w = Campaign!AttemptOf(r)
  BY <1>0, CampaignWorks
<1>5. w = CampaignWork(j)
  BY <1>1, <1>3, <1>4 DEF CampaignWork
<1>6. w \in begun /\ sent[w] = 1 /\ fact[w] \in {"NONE", "FAILED"}
  BY <1>0, <1>4 DEF CampaignJob, CampaignOwns
<1>7. PICK shape \in {"COMPLETE", "INCOMPLETE"} : receipt' = [receipt EXCEPT ![w] = shape]
  BY <1>4 DEF Campaign!AppendReceipt
<1>8. receipt[w] = "NONE" /\ \A q \in Campaign!Attempts : receipt'[q] = IF q = w THEN shape ELSE receipt[q]
  BY <1>0, <1>4, <1>7 DEF Campaign!AppendReceipt
<1>9. CampaignJob(j)'
  BY <1>0, <1>1, <1>3, <1>4, <1>5, <1>6 DEF CampaignJob, CampaignOwns, CampaignActive, CampaignBefore
<1>10. Campaign!TypeOK'
  <2>1. job' \in [Runners -> Campaign!JobRecord] /\ receipt' \in [Campaign!Attempts -> {"NONE", "COMPLETE", "INCOMPLETE"}]
    BY <1>0, <1>2, <1>3, <1>7
  <2> QED BY <1>0, <2>1 DEF Campaign!TypeOK
<1>11. \A q \in Campaign!Attempts : Campaign!Passed(q) => Campaign!Passed(q)'
  BY <1>0, <1>8 DEF Campaign!Passed
<1>12. ASSUME NEW q \in Campaign!Attempts PROVE CampaignAttempt(q)'
  <2>1. CampaignAttempt(q) /\ <<q[1], "ANALYST">> \in Campaign!Attempts
    BY <1>0 DEF CampaignRows, Campaign!Attempts, Campaign!Stages
  <2> QED BY <1>0, <1>6, <1>8, <1>11, <2>1 DEF CampaignAttempt
<1>13. ASSUME NEW c \in Campaign!Cases PROVE CampaignCase(c)'
  <2>1. CampaignCase(c) /\ \A s \in Campaign!Stages : <<c, s>> \in Campaign!Attempts
    BY <1>0 DEF CampaignRows, Campaign!Attempts
  <2>2. CampaignDone(c) => CampaignDone(c)'
    BY <1>0, <1>11, <2>1 DEF CampaignDone
  <2> QED BY <1>0, <1>11, <2>1, <2>2 DEF CampaignCase, Campaign!IsLive, Campaign!BegunStages
<1>14. CampaignRuns' /\ CampaignOrder' /\ Campaign!OneOpenAttempt'
  BY <1>0 DEF CampaignRows, CampaignRuns, CampaignOrder, CampaignBefore, Campaign!OneOpenAttempt, Campaign!IsLive
<1>15. CampaignRows'
  BY <1>10, <1>12, <1>13, <1>14 DEF CampaignRows
<1>16. \A q \in Runners \ {r} : CampaignOwns(job[q]) =>
           /\ CampaignWork(job[q]) # w /\ CampaignWork(job[q]) \in Campaign!Attempts
           /\ fact[CampaignWork(job[q])] \in {"NONE", "FAILED"}
  BY <1>0, <1>4 DEF CampaignJob, CampaignInv, CampaignOwns
<1>17. CampaignOwns(job[r])
  BY <1>0 DEF CampaignOwns
<1> QED BY <1>0, <1>2, <1>3, <1>4, <1>5, <1>8, <1>9, <1>15, <1>16, <1>17, CampaignMoves


(* Facts only come in: what passed, failed or was blocked stays so.        *)
LEMMA CampaignFactsStay ==
    ASSUME CampaignRows, UNCHANGED <<begun, receipt>>,
           \A q \in Campaign!Attempts : fact[q] # "NONE" => fact'[q] = fact[q]
    PROVE  /\ \A q \in Campaign!Attempts : Campaign!Passed(q) => Campaign!Passed(q)'
           /\ \A c \in Campaign!Cases : CampaignDone(c) => CampaignDone(c)'
           /\ \A c \in Campaign!Cases : Campaign!BegunStages(c)' = Campaign!BegunStages(c)
           /\ \A c \in Campaign!Cases : (\E s \in Campaign!Stages : fact[<<c, s>>] = "BLOCKED")
                                     => (\E s \in Campaign!Stages : fact'[<<c, s>>] = "BLOCKED")
<1>1. \A q \in Campaign!Attempts : Campaign!Passed(q) => Campaign!Passed(q)'
  BY DEF Campaign!Passed
<1>2. \A c \in Campaign!Cases : \A s \in Campaign!Stages : <<c, s>> \in Campaign!Attempts
  BY DEF Campaign!Attempts
<1>3. \A c \in Campaign!Cases : CampaignDone(c) => CampaignDone(c)'
  BY <1>1, <1>2 DEF CampaignDone
<1>4. \A c \in Campaign!Cases : Campaign!BegunStages(c)' = Campaign!BegunStages(c)
  BY DEF Campaign!BegunStages
<1> QED BY <1>1, <1>2, <1>3, <1>4

(* A fact is recorded once, by the execution that owns the attempt.        *)
LEMMA CampaignJudges ==
    ASSUME CampaignInv, NEW r \in Runners, Campaign!AppendValidation(r)
    PROVE  CampaignInv'
<1>0. /\ job \in [Runners -> Campaign!JobRecord] /\ job[r] \in Campaign!JobRecord
      /\ job[r].pc \in {"SEND", "AWAIT", "JUDGE"}
      /\ CampaignJob(job[r]) /\ CampaignRows /\ Campaign!TypeOK /\ job[r].pc \in CampaignActive
      /\ \A q \in Runners : CampaignJob(job[q])
      /\ fact \in [Campaign!Attempts -> {"NONE"} \cup Campaign!Verdicts] /\ begun \in SUBSET Campaign!Attempts
      /\ UNCHANGED <<run, claimed, begun, sent, receipt, outcome, recovery>>
  BY CampaignTypes DEF Campaign!AppendValidation, Campaign!At, CampaignInv, Campaign!cases, CampaignActive, Campaign!Verdicts
<1>1. PICK w \in Campaign!Attempts : w = CampaignWork(job[r]) /\ w = Campaign!AttemptOf(r)
  BY <1>0, CampaignWorks
<1>2. PICK v \in Campaign!Verdicts :
          /\ v = "BLOCKED" => job[r].pc = "SEND"
          /\ Campaign!MayRecord(w, v) /\ fact' = [fact EXCEPT ![w] = v]
          /\ \/ job' = [job EXCEPT ![r].pc = "BEGIN", ![r].stage = "PLANNER"]
             \/ Campaign!CloseAs(r, v)
  BY <1>1 DEF Campaign!AppendValidation, Campaign!At
<1>3. /\ w \in begun /\ fact[w] = "NONE"
      /\ v = "PASS" => receipt[w] = "COMPLETE"
      /\ v = "BLOCKED" => sent[w] = 0
  BY <1>0, <1>1, <1>2 DEF Campaign!MayRecord, CampaignJob, CampaignOwns
<1>4. \A q \in Campaign!Attempts : fact'[q] = IF q = w THEN v ELSE fact[q]
  BY <1>0, <1>2
<1>5. PICK j \in Campaign!JobRecord :
          job' = [job EXCEPT ![r] = j] /\ j.pc \in {"BEGIN", "CLOSE"} /\ j.at = job[r].at /\ j.kind = job[r].kind
  <2> DEFINE m1 == [job[r] EXCEPT !.pc = "BEGIN", !.stage = "PLANNER"]
             m2 == [job[r] EXCEPT !.pc = "CLOSE", !.verdict = v]
  <2>1. m1 \in Campaign!JobRecord /\ m1.pc = "BEGIN" /\ m1.at = job[r].at /\ m1.kind = job[r].kind
    BY <1>0 DEF Campaign!JobRecord, Campaign!Steps, Campaign!Stages
  <2>2. m2 \in Campaign!JobRecord /\ m2.pc = "CLOSE" /\ m2.at = job[r].at /\ m2.kind = job[r].kind
    BY <1>0 DEF Campaign!JobRecord, Campaign!Steps
  <2>3. job' = [job EXCEPT ![r] = m1] \/ job' = [job EXCEPT ![r] = m2]
    BY <1>0, <1>2 DEF Campaign!CloseAs
  <2> HIDE DEF m1, m2
  <2> QED BY <2>1, <2>2, <2>3
<1>6. CampaignJob(j)' /\ ~CampaignOwns(j)
  BY <1>0, <1>5 DEF CampaignJob, CampaignOwns, CampaignActive, CampaignBefore
<1>7. Campaign!TypeOK'
  <2>1. job' \in [Runners -> Campaign!JobRecord] /\ fact' \in [Campaign!Attempts -> {"NONE"} \cup Campaign!Verdicts]
    BY <1>0, <1>2, <1>5
  <2> QED BY <1>0, <2>1 DEF Campaign!TypeOK
<1>8. \A q \in Campaign!Attempts : fact[q] # "NONE" => fact'[q] = fact[q]
  BY <1>3, <1>4
<1>9. ASSUME NEW q \in Campaign!Attempts PROVE CampaignAttempt(q)'
  <2>1. CampaignAttempt(q) /\ <<q[1], "ANALYST">> \in Campaign!Attempts
    BY <1>0 DEF CampaignRows, Campaign!Attempts, Campaign!Stages
  <2>2. Campaign!Passed(<<q[1], "ANALYST">>) => Campaign!Passed(<<q[1], "ANALYST">>)'
    BY <1>0, <1>8, <2>1, CampaignFactsStay
  <2> QED BY <1>0, <1>3, <1>4, <2>1, <2>2 DEF CampaignAttempt
<1>10. ASSUME NEW c \in Campaign!Cases PROVE CampaignCase(c)'
  <2>1. CampaignCase(c) /\ \A s \in Campaign!Stages : <<c, s>> \in Campaign!Attempts
    BY <1>0 DEF CampaignRows, Campaign!Attempts
  <2>2. /\ CampaignDone(c) => CampaignDone(c)'
        /\ Campaign!BegunStages(c)' = Campaign!BegunStages(c)
        /\ (\E s \in Campaign!Stages : fact[<<c, s>>] = "BLOCKED") => (\E s \in Campaign!Stages : fact'[<<c, s>>] = "BLOCKED")
        /\ \A s \in Campaign!Stages : Campaign!Passed(<<c, s>>) => Campaign!Passed(<<c, s>>)'
    BY <1>0, <1>8, <2>1, CampaignFactsStay
  <2> QED BY <1>0, <2>1, <2>2 DEF CampaignCase, Campaign!IsLive
<1>11. Campaign!OneOpenAttempt'
  <2>1. \A q \in begun : fact'[q] = "NONE" => fact[q] = "NONE"
    BY <1>0, <1>8
  <2> QED BY <1>0, <2>1 DEF CampaignRows, Campaign!OneOpenAttempt, Campaign!IsLive
<1>12. CampaignRuns' /\ CampaignOrder'
  BY <1>0 DEF CampaignRows, CampaignRuns, CampaignOrder, CampaignBefore
<1>13. CampaignRows'
  BY <1>7, <1>9, <1>10, <1>11, <1>12 DEF CampaignRows
<1>14. \A q \in Runners \ {r} : CampaignOwns(job[q]) =>
           /\ CampaignWork(job[q]) # w /\ CampaignWork(job[q]) \in Campaign!Attempts
           /\ fact[CampaignWork(job[q])] \in {"NONE", "FAILED"}
  BY <1>0, <1>1 DEF CampaignJob, CampaignInv, CampaignOwns
<1>15. \A q \in Runners \ {r} : CampaignOwns(job[q]) => fact'[CampaignWork(job[q])] \in {"NONE", "FAILED"}
  BY <1>4, <1>14
<1> QED BY <1>0, <1>5, <1>6, <1>13, <1>15, CampaignMoves

(* An outcome is written once, and rests on the facts of its case.         *)
LEMMA CampaignClosesCase ==
    ASSUME CampaignInv, NEW r \in Runners, Campaign!CloseCase(r)
    PROVE  CampaignInv'
<1>0. /\ job \in [Runners -> Campaign!JobRecord] /\ job[r] \in Campaign!JobRecord /\ job[r].pc = "CLOSE"
      /\ CampaignJob(job[r]) /\ CampaignRows /\ Campaign!TypeOK /\ job[r].pc \in CampaignActive
      /\ \A q \in Runners : CampaignJob(job[q])
      /\ outcome \in [Campaign!Cases -> {"NONE"} \cup Campaign!Verdicts]
      /\ UNCHANGED <<run, claimed, begun, sent, receipt, fact, recovery>>
  BY CampaignTypes DEF Campaign!CloseCase, Campaign!At, CampaignInv, Campaign!attempts, CampaignActive
<1>1. PICK c \in Campaign!Cases, k \in Campaign!Kinds, n \in 1..(Len(Formal) + 1) :
          /\ n \in DOMAIN Campaign!Slots(k) /\ c = Campaign!CaseOf(r) /\ k = job[r].kind /\ n = job[r].at
          /\ c = Campaign!Slots(k)[n] /\ Campaign!KindOf(c) = k
  BY <1>0, CampaignWorks, CampaignTypes
<1>2. PICK v \in Campaign!Verdicts : v = job[r].verdict
  BY <1>0 DEF Campaign!JobRecord
<1>3. CASE ~(outcome[c] = "NONE" /\ Campaign!CaseMayEnd(c, v))
  <2>1. Campaign!Finish(r, "ERROR") /\ UNCHANGED outcome
    BY <1>1, <1>2, <1>3 DEF Campaign!CloseCase
  <2>2. PICK j \in Campaign!JobRecord : job' = [job EXCEPT ![r] = j] /\ ~CampaignOwns(j) /\ CampaignJob(j)'
    BY <2>1, CampaignFinishes
  <2> QED BY <1>0, <2>1, <2>2, CampaignStays
<1>4. CASE outcome[c] = "NONE" /\ Campaign!CaseMayEnd(c, v)
  <2> DEFINE m == [job[r] EXCEPT !.pc = IF n = Len(Campaign!Slots(k)) THEN "END" ELSE "CLAIM",
                                 !.at = n + 1, !.seen = job[r].seen \cup {v}]
  <2>1. outcome' = [outcome EXCEPT ![c] = v] /\ job' = [job EXCEPT ![r] = m]
    BY <1>0, <1>1, <1>2, <1>4 DEF Campaign!CloseCase
  <2>2. PICK len \in Nat : len = Len(Campaign!Slots(k)) /\ DOMAIN Campaign!Slots(k) = 1..len
    BY CampaignAssumption
  <2>3. n + 1 \in 1..(Len(Formal) + 1) /\ n \in 1..len
    <3>1. Len(Formal) \in Nat /\ Len(Calibration) \in Nat /\ Len(Calibration) <= Len(Formal)
      BY CampaignAssumption DEF Campaign!Slots, Campaign!Kinds
    <3>2. len <= Len(Formal)
      BY <2>2, <3>1 DEF Campaign!Slots, Campaign!Kinds
    <3> QED BY <1>1, <2>2, <3>1, <3>2
  <2>4. /\ m \in Campaign!JobRecord /\ m.at = n + 1 /\ m.kind = k
        /\ m.pc = IF n = Len(Campaign!Slots(k)) THEN "END" ELSE "CLAIM"
    BY <1>0, <1>1, <2>3 DEF Campaign!JobRecord, Campaign!Steps
  <2> HIDE DEF m
  <2>5. PICK j \in Campaign!JobRecord : j = m
    BY <2>4
  <2>6. \A q \in Campaign!Cases : outcome'[q] = IF q = c THEN v ELSE outcome[q]
    BY <1>0, <2>1
  <2>7. v # "NONE"
    BY DEF Campaign!Verdicts
  <2>8. CampaignBefore(k, n)
    BY <1>0, <1>1 DEF CampaignJob
  <2>9. CampaignBefore(k, n + 1)'
    <3> SUFFICES ASSUME NEW i \in DOMAIN Campaign!Slots(k), i < n + 1 PROVE outcome'[Campaign!Slots(k)[i]] # "NONE"
      BY DEF CampaignBefore
    <3>1. Campaign!Slots(k)[i] \in Campaign!Cases
      BY CampaignKinds
    <3>2. i < n \/ i = n
      BY <2>2, <2>3
    <3> QED BY <1>1, <2>6, <2>7, <2>8, <3>1, <3>2 DEF CampaignBefore
  <2>10. n # len => n + 1 \in DOMAIN Campaign!Slots(k)
    BY <2>2, <2>3
  <2>11. j.pc \in {"END", "CLAIM"} /\ (j.pc = "CLAIM" => n # len) /\ j.at = n + 1 /\ j.kind = k
    BY <2>2, <2>4, <2>5
  <2>12. CampaignJob(j)' /\ ~CampaignOwns(j)
    <3>1. run[k] # "NONE"
      BY <1>0, <1>1 DEF CampaignJob
    <3> QED BY <1>0, <2>9, <2>10, <2>11, <3>1 DEF CampaignJob, CampaignOwns, CampaignActive
  <2>13. Campaign!TypeOK'
    <3>1. job' \in [Runners -> Campaign!JobRecord] /\ outcome' \in [Campaign!Cases -> {"NONE"} \cup Campaign!Verdicts]
      BY <1>0, <2>1, <2>5
    <3> QED BY <1>0, <3>1 DEF Campaign!TypeOK
  <2>14. ASSUME NEW q \in Campaign!Cases PROVE CampaignCase(q)'
    <3>1. CampaignCase(q)
      BY <1>0 DEF CampaignRows
    <3>2. CASE q # c
      BY <1>0, <2>6, <3>1, <3>2 DEF CampaignCase, CampaignDone, Campaign!Passed, Campaign!IsLive, Campaign!BegunStages
    <3>3. CASE q = c
      <4>1. recovery[c] = "NONE" /\ c \in claimed /\ outcome'[c] = v
        BY <1>0, <1>1, <1>4, <2>6, <3>1, <3>3 DEF CampaignCase, CampaignJob, CampaignActive
      <4>2. v = "PASS" => \A s \in Campaign!Stages : Campaign!Passed(<<c, s>>)
        BY <1>4 DEF Campaign!CaseMayEnd
      <4>3. v # "PASS" => \E s \in Campaign!Stages : fact[<<c, s>>] = v
        BY <1>4, <2>7, <4>1 DEF Campaign!CaseMayEnd, Campaign!FactsOf, Campaign!BegunStages
      <4>4. CampaignDone(c)
        BY <4>2, <4>3 DEF CampaignDone, Campaign!Verdicts
      <4>5. CampaignDone(c)' /\ \A s \in Campaign!Stages : Campaign!Passed(<<c, s>>)' <=> Campaign!Passed(<<c, s>>)
        BY <1>0, <4>4 DEF CampaignDone, Campaign!Passed
      <4> QED BY <1>0, <3>1, <3>3, <4>1, <4>2, <4>3, <4>5 DEF CampaignCase
    <3> QED BY <3>2, <3>3
  <2>15. CampaignRuns'
    <3>1. \A l \in Campaign!Kinds : \A q \in Campaign!CasesOf(l) : outcome[q] = "PASS" => outcome'[q] = "PASS"
      BY <1>4, <2>6, CampaignKinds
    <3> QED BY <1>0, <3>1 DEF CampaignRows, CampaignRuns
  <2>16. CampaignOrder'
    <3>1. \A q \in Campaign!Cases : outcome[q] # "NONE" => outcome'[q] # "NONE"
      BY <2>6, <2>7
    <3> QED BY <1>0, <3>1, CampaignKinds DEF CampaignRows, CampaignOrder, CampaignBefore
  <2>17. \A q \in Campaign!Attempts : CampaignAttempt(q)'
    BY <1>0 DEF CampaignRows, CampaignAttempt, Campaign!Passed
  <2>18. Campaign!OneOpenAttempt'
    BY <1>0 DEF CampaignRows, Campaign!OneOpenAttempt, Campaign!IsLive
  <2>19. CampaignRows'
    BY <2>13, <2>14, <2>15, <2>16, <2>17, <2>18 DEF CampaignRows
  <2>20. \A q \in Runners : CampaignOwns(job[q]) => fact[CampaignWork(job[q])] \in {"NONE", "FAILED"}
    BY <1>0 DEF CampaignJob
  <2>21. \A q \in Campaign!Cases : outcome[q] # "NONE" => outcome'[q] # "NONE"
    BY <2>6, <2>7
  <2> QED BY <1>0, <2>1, <2>5, <2>12, <2>19, <2>20, <2>21, CampaignMoves
<1> QED BY <1>3, <1>4


-----------------------------------------------------------------------------
(* Recovery gives every open attempt it may look at the fact FAILED.       *)
LEMMA CampaignRecoversAttempts ==
    ASSUME CampaignInv, NEW r \in Runners, Campaign!RecoverOpenAttempts(r)
    PROVE  CampaignInv'
<1>0. /\ job \in [Runners -> Campaign!JobRecord] /\ job[r] \in Campaign!JobRecord /\ job[r].pc = "ATTEMPTS"
      /\ CampaignJob(job[r]) /\ CampaignRows /\ Campaign!TypeOK
      /\ \A q \in Runners : CampaignJob(job[q])
      /\ run \in [Campaign!Kinds -> {"NONE", "OPEN"} \cup Campaign!Verdicts]
      /\ fact \in [Campaign!Attempts -> {"NONE"} \cup Campaign!Verdicts] /\ begun \in SUBSET Campaign!Attempts
      /\ outcome \in [Campaign!Cases -> {"NONE"} \cup Campaign!Verdicts]
      /\ UNCHANGED <<claimed, recovery, begun, sent, receipt>>
  BY CampaignTypes DEF Campaign!RecoverOpenAttempts, Campaign!At, CampaignInv
<1>1. PICK skipped \in SUBSET Campaign!Locked(r) :
        LET open == {k \in begun :
                        /\ fact[k] = "NONE"
                        /\ outcome[k[1]] = "NONE"
                        /\ Campaign!IsLive(Campaign!KindOf(k[1]))
                        /\ Campaign!KindOf(k[1]) \notin skipped}
            lost == {Campaign!KindOf(k[1]) : k \in open}
        IN  /\ fact' = [k \in Campaign!Attempts |-> IF k \in open THEN "FAILED" ELSE fact[k]]
            /\ outcome' = [c \in Campaign!Cases |->
                  IF \E s \in Campaign!Stages : <<c, s>> \in open THEN "FAILED" ELSE outcome[c]]
            /\ run' = [k \in Campaign!Kinds |-> IF k \in lost THEN "FAILED" ELSE run[k]]
            /\ job' = [job EXCEPT ![r].pc = "CASES",
                                  ![r].found = IF job[r].kind \in lost THEN "FAILED" ELSE "NONE"]
  BY DEF Campaign!RecoverOpenAttempts
<1> DEFINE Open == {k \in begun :
                        /\ fact[k] = "NONE"
                        /\ outcome[k[1]] = "NONE"
                        /\ Campaign!IsLive(Campaign!KindOf(k[1]))
                        /\ Campaign!KindOf(k[1]) \notin skipped}
           Lost == {Campaign!KindOf(k[1]) : k \in Open}
<1>2. PICK open, lost : open = Open /\ lost = Lost
  OBVIOUS
<1>3. /\ fact' = [k \in Campaign!Attempts |-> IF k \in open THEN "FAILED" ELSE fact[k]]
      /\ outcome' = [c \in Campaign!Cases |->
            IF \E s \in Campaign!Stages : <<c, s>> \in open THEN "FAILED" ELSE outcome[c]]
      /\ run' = [k \in Campaign!Kinds |-> IF k \in lost THEN "FAILED" ELSE run[k]]
      /\ job' = [job EXCEPT ![r].pc = "CASES",
                            ![r].found = IF job[r].kind \in lost THEN "FAILED" ELSE "NONE"]
  BY <1>1, <1>2
<1>4. /\ open \subseteq begun
      /\ \A k \in open : /\ fact[k] = "NONE" /\ outcome[k[1]] = "NONE"
                         /\ run[Campaign!KindOf(k[1])] = "OPEN" /\ Campaign!KindOf(k[1]) \in lost
      /\ \A k \in lost : run[k] = "OPEN"
  BY <1>2 DEF Campaign!IsLive
<1> HIDE DEF Open, Lost
<1>5. PICK j \in Campaign!JobRecord : job' = [job EXCEPT ![r] = j] /\ j.pc = "CASES" /\ j.at = job[r].at
  <2> DEFINE m == [job[r] EXCEPT !.pc = "CASES", !.found = IF job[r].kind \in lost THEN "FAILED" ELSE "NONE"]
  <2>1. m \in Campaign!JobRecord /\ m.pc = "CASES" /\ m.at = job[r].at
    BY <1>0 DEF Campaign!JobRecord, Campaign!Steps
  <2>2. job' = [job EXCEPT ![r] = m]
    BY <1>0, <1>3
  <2> HIDE DEF m
  <2> QED BY <2>1, <2>2
<1>6. CampaignJob(j)' /\ ~CampaignOwns(j)
  BY <1>0, <1>5 DEF CampaignJob, CampaignOwns, CampaignActive
<1>7. \A q \in Campaign!Attempts : fact'[q] = IF q \in open THEN "FAILED" ELSE fact[q]
  BY <1>3
<1>8. \A c \in Campaign!Cases :
          \/ outcome'[c] = outcome[c] /\ \A s \in Campaign!Stages : <<c, s>> \notin open
          \/ /\ outcome[c] = "NONE" /\ outcome'[c] = "FAILED" /\ c \in claimed
             /\ Campaign!KindOf(c) \in lost
  <2> SUFFICES ASSUME NEW c \in Campaign!Cases, NEW s \in Campaign!Stages, <<c, s>> \in open
               PROVE  outcome[c] = "NONE" /\ c \in claimed /\ Campaign!KindOf(c) \in lost
    BY <1>3
  <2>1. <<c, s>> \in begun /\ <<c, s>> \in Campaign!Attempts
    BY <1>4 DEF Campaign!Attempts
  <2>2. CampaignAttempt(<<c, s>>)
    BY <1>0, <2>1 DEF CampaignRows
  <2> QED BY <1>4, <2>1, <2>2 DEF CampaignAttempt
<1>9. \A k \in Campaign!Kinds : run'[k] = IF k \in lost THEN "FAILED" ELSE run[k]
  BY <1>3
<1>10. Campaign!TypeOK'
  <2>1. job' \in [Runners -> Campaign!JobRecord]
    BY <1>0, <1>5
  <2>2. fact' \in [Campaign!Attempts -> {"NONE"} \cup Campaign!Verdicts]
    BY <1>0, <1>3 DEF Campaign!Verdicts
  <2>3. outcome' \in [Campaign!Cases -> {"NONE"} \cup Campaign!Verdicts]
    <3>1. \A c \in Campaign!Cases :
             (IF \E s \in Campaign!Stages : <<c, s>> \in open THEN "FAILED" ELSE outcome[c])
                \in {"NONE"} \cup Campaign!Verdicts
      BY <1>0 DEF Campaign!Verdicts
    <3> QED BY <1>3, <3>1
  <2>4. run' \in [Campaign!Kinds -> {"NONE", "OPEN"} \cup Campaign!Verdicts]
    BY <1>0, <1>3 DEF Campaign!Verdicts
  <2> QED BY <1>0, <2>1, <2>2, <2>3, <2>4 DEF Campaign!TypeOK
<1>11. \A q \in Campaign!Attempts : fact[q] # "NONE" => fact'[q] = fact[q]
  BY <1>4, <1>7
<1>12. ASSUME NEW q \in Campaign!Attempts PROVE CampaignAttempt(q)'
  <2>1. CampaignAttempt(q) /\ <<q[1], "ANALYST">> \in Campaign!Attempts
    BY <1>0 DEF CampaignRows, Campaign!Attempts, Campaign!Stages
  <2>2. Campaign!Passed(<<q[1], "ANALYST">>) => Campaign!Passed(<<q[1], "ANALYST">>)'
    BY <1>0, <1>11, <2>1, CampaignFactsStay
  <2> QED BY <1>0, <1>4, <1>7, <2>1, <2>2 DEF CampaignAttempt
<1>13. ASSUME NEW c \in Campaign!Cases PROVE CampaignCase(c)'
  <2>1. CampaignCase(c) /\ Campaign!KindOf(c) \in Campaign!Kinds /\ \A s \in Campaign!Stages : <<c, s>> \in Campaign!Attempts
    BY <1>0, CampaignKinds DEF CampaignRows, Campaign!Attempts
  <2>2. /\ CampaignDone(c) => CampaignDone(c)'
        /\ Campaign!BegunStages(c)' = Campaign!BegunStages(c)
        /\ (\E s \in Campaign!Stages : fact[<<c, s>>] = "BLOCKED") => (\E s \in Campaign!Stages : fact'[<<c, s>>] = "BLOCKED")
        /\ \A s \in Campaign!Stages : Campaign!Passed(<<c, s>>) => Campaign!Passed(<<c, s>>)'
    BY <1>0, <1>11, <2>1, CampaignFactsStay
  <2>3. /\ run[Campaign!KindOf(c)] # "NONE" => run'[Campaign!KindOf(c)] # "NONE"
        /\ run[Campaign!KindOf(c)] \in Campaign!Verdicts => run'[Campaign!KindOf(c)] \in Campaign!Verdicts
        /\ run'[Campaign!KindOf(c)] = "OPEN" => run[Campaign!KindOf(c)] = "OPEN" /\ Campaign!KindOf(c) \notin lost
    BY <1>9, <2>1 DEF Campaign!Verdicts
  <2>4. CASE outcome'[c] = outcome[c]
    <3>1. Campaign!IsLive(Campaign!KindOf(c))' => Campaign!IsLive(Campaign!KindOf(c))
      BY <2>3 DEF Campaign!IsLive
    <3> QED BY <1>0, <2>1, <2>2, <2>3, <2>4, <3>1 DEF CampaignCase
  <2>5. CASE outcome[c] = "NONE" /\ outcome'[c] = "FAILED" /\ c \in claimed /\ Campaign!KindOf(c) \in lost
    <3>1. ~Campaign!IsLive(Campaign!KindOf(c))'
      BY <2>3, <2>5 DEF Campaign!IsLive
    <3> QED BY <1>0, <2>1, <2>3, <2>5, <3>1 DEF CampaignCase
  <2> QED BY <1>8, <2>4, <2>5
<1>14. CampaignRuns'
  <2>1. \A k \in Campaign!Kinds : run'[k] = "PASS" => \A c \in Campaign!CasesOf(k) : outcome'[c] = "PASS"
    BY <1>0, <1>8, <1>9, CampaignKinds DEF CampaignRows, CampaignRuns
  <2>2. run'["FORMAL"] # "NONE" => run'["CALIBRATION"] = "PASS"
    BY <1>0, <1>4, <1>9 DEF CampaignRows, CampaignRuns, Campaign!Kinds
  <2> QED BY <2>1, <2>2 DEF CampaignRuns
<1>15. \A c \in Campaign!Cases : outcome[c] # "NONE" => outcome'[c] # "NONE"
  BY <1>8
<1>16. CampaignOrder'
  BY <1>0, <1>15, CampaignKinds DEF CampaignRows, CampaignOrder, CampaignBefore
<1>17. Campaign!OneOpenAttempt'
  <2>1. \A q \in begun : fact'[q] = "NONE" => fact[q] = "NONE"
    BY <1>0, <1>11
  <2>2. \A q \in begun : Campaign!IsLive(Campaign!KindOf(q[1]))' => Campaign!IsLive(Campaign!KindOf(q[1]))
    <3>1. \A q \in begun : Campaign!KindOf(q[1]) \in Campaign!Kinds
      BY <1>0, CampaignKinds DEF Campaign!Attempts
    <3> QED BY <1>9, <3>1 DEF Campaign!IsLive
  <2> QED BY <1>0, <2>1, <2>2 DEF CampaignRows, Campaign!OneOpenAttempt, Campaign!IsLive
<1>18. CampaignRows'
  BY <1>10, <1>12, <1>13, <1>14, <1>16, <1>17 DEF CampaignRows
<1>19. \A q \in Runners : CampaignOwns(job[q]) => fact'[CampaignWork(job[q])] \in {"NONE", "FAILED"}
  <2> SUFFICES ASSUME NEW q \in Runners, CampaignOwns(job[q])
               PROVE  fact'[CampaignWork(job[q])] \in {"NONE", "FAILED"}
    OBVIOUS
  <2>1. CampaignWork(job[q]) \in Campaign!Attempts /\ fact[CampaignWork(job[q])] \in {"NONE", "FAILED"}
    BY <1>0, CampaignWorks DEF CampaignJob, CampaignOwns, CampaignActive
  <2> QED BY <1>7, <2>1
<1>20. \A k \in Campaign!Kinds : run[k] # "NONE" => run'[k] # "NONE"
  BY <1>9
<1> QED BY <1>0, <1>5, <1>6, <1>15, <1>18, <1>19, <1>20, CampaignMoves


(* What recovery writes of a claimed case it cannot continue.              *)
CampaignLeft(c) == IF Campaign!BegunStages(c) = {} THEN "BLOCKED" ELSE "FAILED"

LEMMA CampaignRecoversCases ==
    ASSUME CampaignInv, NEW r \in Runners, Campaign!RecoverIncompleteCases(r)
    PROVE  CampaignInv'
<1>0. /\ job \in [Runners -> Campaign!JobRecord] /\ job[r] \in Campaign!JobRecord /\ job[r].pc = "CASES"
      /\ CampaignJob(job[r]) /\ CampaignRows /\ Campaign!TypeOK
      /\ \A q \in Runners : CampaignJob(job[q])
      /\ run \in [Campaign!Kinds -> {"NONE", "OPEN"} \cup Campaign!Verdicts]
      /\ claimed \in SUBSET Campaign!Cases /\ begun \in SUBSET Campaign!Attempts
      /\ outcome \in [Campaign!Cases -> {"NONE"} \cup Campaign!Verdicts]
      /\ recovery \in [Campaign!Cases -> {"NONE", "FAILED", "BLOCKED"}]
      /\ UNCHANGED <<claimed, begun, sent, receipt, fact>>
  BY CampaignTypes DEF Campaign!RecoverIncompleteCases, Campaign!At, CampaignInv, Campaign!attempts
<1>1. PICK first \in SUBSET claimed :
        /\ \A c \in first : outcome[c] = "NONE" /\ run[Campaign!KindOf(c)] = "OPEN"
        /\ recovery' = [c \in Campaign!Cases |-> IF c \in first THEN CampaignLeft(c) ELSE recovery[c]]
        /\ outcome' = [c \in Campaign!Cases |-> IF c \in first THEN CampaignLeft(c) ELSE outcome[c]]
        /\ run' = [k \in Campaign!Kinds |->
              IF \E c \in first : Campaign!KindOf(c) = k
              THEN CampaignLeft(CHOOSE c \in first : Campaign!KindOf(c) = k) ELSE run[k]]
        /\ \/ Campaign!Goto(r, "RUN")
           \/ \E end \in {"FAILED", "BLOCKED"} : Campaign!Finish(r, end)
  <2>1. PICK skipped \in SUBSET Campaign!Locked(r) :
        LET open == {c \in claimed :
                        /\ outcome[c] = "NONE"
                        /\ Campaign!IsLive(Campaign!KindOf(c))
                        /\ "NONE" \notin Campaign!FactsOf(c)
                        /\ Campaign!KindOf(c) \notin skipped}
            verdict(c) == IF Campaign!BegunStages(c) = {} THEN "BLOCKED" ELSE "FAILED"
        IN  \E first \in SUBSET open :
            /\ recovery' = [c \in Campaign!Cases |-> IF c \in first THEN verdict(c) ELSE recovery[c]]
            /\ outcome' = [c \in Campaign!Cases |-> IF c \in first THEN verdict(c) ELSE outcome[c]]
            /\ run' = [k \in Campaign!Kinds |->
                  IF \E c \in first : Campaign!KindOf(c) = k
                  THEN verdict(CHOOSE c \in first : Campaign!KindOf(c) = k) ELSE run[k]]
            /\ LET found == {verdict(c) : c \in {e \in first : Campaign!KindOf(e) = job[r].kind}}
                             \cup ({job[r].found} \ {"NONE"})
               IN  IF found = {} THEN Campaign!Goto(r, "RUN")
                   ELSE Campaign!Finish(r, IF job[r].found # "NONE" THEN job[r].found
                                           ELSE CHOOSE v \in found : TRUE)
    BY DEF Campaign!RecoverIncompleteCases
  <2> DEFINE open == {c \in claimed :
                        /\ outcome[c] = "NONE"
                        /\ Campaign!IsLive(Campaign!KindOf(c))
                        /\ "NONE" \notin Campaign!FactsOf(c)
                        /\ Campaign!KindOf(c) \notin skipped}
  <2>2. PICK first \in SUBSET open :
            /\ recovery' = [c \in Campaign!Cases |-> IF c \in first THEN CampaignLeft(c) ELSE recovery[c]]
            /\ outcome' = [c \in Campaign!Cases |-> IF c \in first THEN CampaignLeft(c) ELSE outcome[c]]
            /\ run' = [k \in Campaign!Kinds |->
                  IF \E c \in first : Campaign!KindOf(c) = k
                  THEN CampaignLeft(CHOOSE c \in first : Campaign!KindOf(c) = k) ELSE run[k]]
            /\ LET found == {CampaignLeft(c) : c \in {e \in first : Campaign!KindOf(e) = job[r].kind}}
                             \cup ({job[r].found} \ {"NONE"})
               IN  IF found = {} THEN Campaign!Goto(r, "RUN")
                   ELSE Campaign!Finish(r, IF job[r].found # "NONE" THEN job[r].found
                                           ELSE CHOOSE v \in found : TRUE)
    BY <2>1 DEF CampaignLeft
  <2> DEFINE found == {CampaignLeft(c) : c \in {e \in first : Campaign!KindOf(e) = job[r].kind}}
                         \cup ({job[r].found} \ {"NONE"})
  <2>3. Campaign!Goto(r, "RUN") \/ \E end \in {"FAILED", "BLOCKED"} : Campaign!Finish(r, end)
    <3>1. found \subseteq {"FAILED", "BLOCKED"} /\ (job[r].found # "NONE" => job[r].found \in {"FAILED", "BLOCKED"})
      BY <1>0 DEF CampaignLeft, Campaign!JobRecord
    <3>2. IF found = {} THEN Campaign!Goto(r, "RUN")
          ELSE Campaign!Finish(r, IF job[r].found # "NONE" THEN job[r].found ELSE CHOOSE v \in found : TRUE)
      BY <2>2
    <3>3. found # {} => (CHOOSE v \in found : TRUE) \in {"FAILED", "BLOCKED"}
      <4> HIDE DEF found
      <4> QED BY <3>1
    <3> HIDE DEF found
    <3> QED BY <3>1, <3>2, <3>3
  <2>4. first \in SUBSET claimed /\ \A c \in first : outcome[c] = "NONE" /\ run[Campaign!KindOf(c)] = "OPEN"
    BY DEF Campaign!IsLive
  <2> QED BY <2>2, <2>3, <2>4
<1>2. \A c \in Campaign!Cases : CampaignLeft(c) \in {"FAILED", "BLOCKED"}
  BY DEF CampaignLeft
<1>3. \A c \in Campaign!Cases :
          /\ c \in first => /\ outcome[c] = "NONE" /\ outcome'[c] = CampaignLeft(c) /\ c \in claimed
                            /\ run'[Campaign!KindOf(c)] \in {"FAILED", "BLOCKED"}
          /\ c \notin first => outcome'[c] = outcome[c] /\ recovery'[c] = recovery[c]
  <2> SUFFICES ASSUME NEW c \in Campaign!Cases
               PROVE  /\ c \in first => /\ outcome[c] = "NONE" /\ outcome'[c] = CampaignLeft(c) /\ c \in claimed
                                        /\ run'[Campaign!KindOf(c)] \in {"FAILED", "BLOCKED"}
                      /\ c \notin first => outcome'[c] = outcome[c] /\ recovery'[c] = recovery[c]
    OBVIOUS
  <2>1. c \in first => run'[Campaign!KindOf(c)] \in {"FAILED", "BLOCKED"}
    <3> SUFFICES ASSUME c \in first PROVE run'[Campaign!KindOf(c)] \in {"FAILED", "BLOCKED"}
      OBVIOUS
    <3>1. PICK k \in Campaign!Kinds : k = Campaign!KindOf(c)
      BY CampaignKinds
    <3>2. \E e \in first : Campaign!KindOf(e) = k
      BY <3>1
    <3>3. run'[k] = CampaignLeft(CHOOSE e \in first : Campaign!KindOf(e) = k)
      BY <1>1, <3>2
    <3> QED BY <3>1, <3>3 DEF CampaignLeft
  <2> QED BY <1>1, <2>1
<1>4. \A k \in Campaign!Kinds :
          \/ run'[k] = run[k]
          \/ run[k] = "OPEN" /\ run'[k] \in {"FAILED", "BLOCKED"}
  <2> SUFFICES ASSUME NEW k \in Campaign!Kinds
               PROVE  \/ run'[k] = run[k]
                      \/ run[k] = "OPEN" /\ run'[k] \in {"FAILED", "BLOCKED"}
    OBVIOUS
  <2>1. CASE \E c \in first : Campaign!KindOf(c) = k
    <3>1. PICK c \in first : Campaign!KindOf(c) = k
      BY <2>1
    <3>2. c \in Campaign!Cases
      BY <1>0
    <3> QED BY <1>1, <1>3, <3>1, <3>2
  <2>2. CASE ~(\E c \in first : Campaign!KindOf(c) = k)
    BY <1>1, <2>2
  <2> QED BY <2>1, <2>2
<1>5. PICK j \in Campaign!JobRecord : job' = [job EXCEPT ![r] = j] /\ ~CampaignOwns(j) /\ CampaignJob(j)'
  <2>1. CASE \E end \in {"FAILED", "BLOCKED"} : Campaign!Finish(r, end)
    BY <2>1, CampaignFinishes DEF Campaign!Verdicts
  <2>2. CASE Campaign!Goto(r, "RUN")
    <3> DEFINE m == [job[r] EXCEPT !.pc = "RUN"]
    <3>1. m \in Campaign!JobRecord /\ m.pc = "RUN" /\ m.at = job[r].at
      BY <1>0 DEF Campaign!JobRecord, Campaign!Steps
    <3>2. job' = [job EXCEPT ![r] = m]
      BY <1>0, <2>2 DEF Campaign!Goto
    <3> HIDE DEF m
    <3>3. PICK j \in Campaign!JobRecord : j = m
      BY <3>1
    <3>4. CampaignJob(j)' /\ ~CampaignOwns(j)
      BY <1>0, <3>1, <3>3 DEF CampaignJob, CampaignOwns, CampaignActive
    <3> QED BY <3>2, <3>3, <3>4
  <2> QED BY <1>1, <2>1, <2>2
<1>6. Campaign!TypeOK'
  <2>1. job' \in [Runners -> Campaign!JobRecord]
    BY <1>0, <1>5
  <2>2. outcome' \in [Campaign!Cases -> {"NONE"} \cup Campaign!Verdicts]
    BY <1>0, <1>1, <1>2 DEF Campaign!Verdicts
  <2>3. recovery' \in [Campaign!Cases -> {"NONE", "FAILED", "BLOCKED"}]
    BY <1>0, <1>1, <1>2
  <2>4. run' \in [Campaign!Kinds -> {"NONE", "OPEN"} \cup Campaign!Verdicts]
    <3>1. \A k \in Campaign!Kinds : run'[k] \in {"NONE", "OPEN"} \cup Campaign!Verdicts
      BY <1>0, <1>4 DEF Campaign!Verdicts
    <3>2. run' = [k \in Campaign!Kinds |-> run'[k]]
      BY <1>1
    <3> QED BY <3>1, <3>2
  <2> QED BY <1>0, <2>1, <2>2, <2>3, <2>4 DEF Campaign!TypeOK
<1>7. ASSUME NEW c \in Campaign!Cases PROVE CampaignCase(c)'
  <2>1. CampaignCase(c) /\ Campaign!KindOf(c) \in Campaign!Kinds
    BY <1>0, CampaignKinds DEF CampaignRows
  <2>2. /\ CampaignDone(c)' <=> CampaignDone(c)
        /\ Campaign!BegunStages(c)' = Campaign!BegunStages(c)
        /\ \A s \in Campaign!Stages : Campaign!Passed(<<c, s>>)' <=> Campaign!Passed(<<c, s>>)
    BY <1>0 DEF CampaignDone, Campaign!BegunStages, Campaign!Passed
  <2>3. /\ run[Campaign!KindOf(c)] # "NONE" => run'[Campaign!KindOf(c)] # "NONE"
        /\ run[Campaign!KindOf(c)] \in Campaign!Verdicts => run'[Campaign!KindOf(c)] \in Campaign!Verdicts
        /\ run'[Campaign!KindOf(c)] = "OPEN" => run[Campaign!KindOf(c)] = "OPEN"
    BY <1>4, <2>1 DEF Campaign!Verdicts
  <2>4. CASE c \notin first
    <3>1. Campaign!IsLive(Campaign!KindOf(c))' => Campaign!IsLive(Campaign!KindOf(c))
      BY <2>3 DEF Campaign!IsLive
    <3> QED BY <1>0, <1>3, <2>1, <2>2, <2>3, <2>4, <3>1 DEF CampaignCase
  <2>5. CASE c \in first
    <3>1. /\ run'[Campaign!KindOf(c)] \in Campaign!Verdicts /\ run'[Campaign!KindOf(c)] # "NONE"
          /\ ~Campaign!IsLive(Campaign!KindOf(c))'
      BY <1>3, <2>5 DEF Campaign!IsLive, Campaign!Verdicts
    <3>2. outcome'[c] = CampaignLeft(c) /\ outcome'[c] \in {"FAILED", "BLOCKED"} /\ c \in claimed
      BY <1>2, <1>3, <2>5
    <3>3. outcome'[c] = "BLOCKED" => Campaign!BegunStages(c) = {}
      BY <3>2 DEF CampaignLeft
    <3> QED BY <1>0, <2>2, <3>1, <3>2, <3>3 DEF CampaignCase
  <2> QED BY <2>4, <2>5
<1>8. CampaignRuns'
  <2>1. \A k \in Campaign!Kinds : run'[k] = "PASS" => \A c \in Campaign!CasesOf(k) : outcome'[c] = "PASS"
    BY <1>0, <1>3, <1>4, CampaignKinds DEF CampaignRows, CampaignRuns
  <2>2. run'["FORMAL"] # "NONE" => run'["CALIBRATION"] = "PASS"
    BY <1>0, <1>4 DEF CampaignRows, CampaignRuns, Campaign!Kinds
  <2> QED BY <2>1, <2>2 DEF CampaignRuns
<1>9. \A c \in Campaign!Cases : outcome[c] # "NONE" => outcome'[c] # "NONE"
  BY <1>3
<1>10. CampaignOrder'
  BY <1>0, <1>9, CampaignKinds DEF CampaignRows, CampaignOrder, CampaignBefore
<1>11. Campaign!OneOpenAttempt'
  <2>1. \A q \in begun : Campaign!IsLive(Campaign!KindOf(q[1]))' => Campaign!IsLive(Campaign!KindOf(q[1]))
    <3>1. \A q \in begun : Campaign!KindOf(q[1]) \in Campaign!Kinds
      BY <1>0, CampaignKinds DEF Campaign!Attempts
    <3> QED BY <1>4, <3>1 DEF Campaign!IsLive
  <2> QED BY <1>0, <2>1 DEF CampaignRows, Campaign!OneOpenAttempt, Campaign!IsLive
<1>12. \A q \in Campaign!Attempts : CampaignAttempt(q)'
  BY <1>0 DEF CampaignRows, CampaignAttempt, Campaign!Passed
<1>13. CampaignRows'
  BY <1>6, <1>7, <1>8, <1>10, <1>11, <1>12 DEF CampaignRows
<1>14. \A q \in Runners : CampaignOwns(job[q]) => fact[CampaignWork(job[q])] \in {"NONE", "FAILED"}
  BY <1>0 DEF CampaignJob
<1>15. \A k \in Campaign!Kinds : run[k] # "NONE" => run'[k] # "NONE"
  BY <1>4
<1> QED BY <1>0, <1>5, <1>9, <1>13, <1>14, <1>15, CampaignMoves

LEMMA CampaignStep ==
    ASSUME CampaignInv, [Campaign!Next]_(Campaign!vars)
    PROVE  CampaignInv'
<1>1. CASE UNCHANGED Campaign!vars
  BY <1>1 DEF Campaign!vars, CampaignInv, CampaignRows, CampaignAttempt, CampaignCase, CampaignDone, CampaignRuns,
              CampaignBefore, CampaignOrder, CampaignJob, CampaignOwns, CampaignWork, Campaign!TypeOK,
              Campaign!OneOpenAttempt, Campaign!Passed, Campaign!IsLive, Campaign!BegunStages
<1>2. CASE Campaign!Next
  <2>1. PICK r \in Runners :
            \/ \E k \in Campaign!Kinds : Campaign!Start(r, k)
            \/ Campaign!RecoverOpenAttempts(r) \/ Campaign!RecoverIncompleteCases(r)
            \/ Campaign!BeginRun(r) \/ Campaign!ClaimCase(r) \/ Campaign!RefuseClaim(r)
            \/ Campaign!BeginDispatch(r) \/ Campaign!StopBeforeSend(r) \/ Campaign!SendRequest(r)
            \/ Campaign!AppendReceipt(r) \/ Campaign!AppendValidation(r)
            \/ Campaign!CloseCase(r) \/ Campaign!CloseRun(r) \/ Campaign!Crash(r)
    BY <1>2 DEF Campaign!Next
  <2> QED BY <2>1, CampaignQuietly, CampaignRecoversAttempts, CampaignRecoversCases, CampaignBeginsRun,
             CampaignClaims, CampaignEndsRun, CampaignBegins, CampaignSends, CampaignReceives, CampaignJudges,
             CampaignClosesCase
<1> QED BY <1>1, <1>2

(* The invariant gives what the ledger promises.                           *)
LEMMA CampaignHolds ==
    ASSUME CampaignInv
    PROVE  Campaign!TypeOK /\ Campaign!OneOpenAttempt /\ Campaign!OutcomesAreTrue
<1>1. /\ Campaign!TypeOK /\ Campaign!OneOpenAttempt /\ CampaignRuns
      /\ \A k \in Campaign!Attempts : CampaignAttempt(k)
      /\ \A c \in Campaign!Cases : CampaignCase(c)
      /\ \A c \in Campaign!Cases : \A s \in Campaign!Stages : <<c, s>> \in Campaign!Attempts
  BY DEF CampaignInv, CampaignRows, Campaign!Attempts
<1>2. ASSUME NEW k \in Campaign!Kinds, run[k] = "PASS", NEW c \in Campaign!CasesOf(k), NEW s \in Campaign!Stages
      PROVE  sent[<<c, s>>] = 1 /\ Campaign!Passed(<<c, s>>)
  <2>1. c \in Campaign!Cases /\ outcome[c] = "PASS"
    BY <1>1, <1>2, CampaignKinds DEF CampaignRuns
  <2>2. Campaign!Passed(<<c, s>>) /\ CampaignAttempt(<<c, s>>)
    BY <1>1, <2>1 DEF CampaignCase
  <2> QED BY <2>2 DEF Campaign!Passed, CampaignAttempt
<1>3. ASSUME NEW c \in Campaign!CasesOf("FORMAL"), c \in claimed PROVE run["CALIBRATION"] = "PASS"
  <2>1. c \in Campaign!Cases /\ Campaign!KindOf(c) = "FORMAL"
    BY CampaignKinds DEF Campaign!Kinds
  <2> QED BY <1>1, <1>3, <2>1 DEF CampaignCase, CampaignRuns
<1>4. ASSUME NEW c \in Campaign!Cases, outcome[c] = "BLOCKED"
      PROVE  /\ sent[<<c, "PLANNER">>] = 0
             /\ sent[<<c, "ANALYST">>] = 1 => Campaign!Passed(<<c, "ANALYST">>)
  <2>1. CampaignAttempt(<<c, "PLANNER">>) /\ CampaignAttempt(<<c, "ANALYST">>) /\ CampaignCase(c)
    BY <1>1 DEF Campaign!Stages
  <2>2. CASE \E s \in Campaign!Stages : fact[<<c, s>>] = "BLOCKED"
    BY <2>1, <2>2 DEF CampaignAttempt, Campaign!Stages, Campaign!Passed
  <2>3. CASE Campaign!BegunStages(c) = {}
    <3>1. <<c, "PLANNER">> \notin begun /\ <<c, "ANALYST">> \notin begun
      BY <2>3 DEF Campaign!BegunStages, Campaign!Stages
    <3>2. sent[<<c, "PLANNER">>] = 0 /\ sent[<<c, "ANALYST">>] = 0
      BY <2>1, <3>1 DEF CampaignAttempt
    <3> QED BY <3>2
  <2> QED BY <1>4, <2>1, <2>2, <2>3 DEF CampaignCase
<1> QED BY <1>1, <1>2, <1>3, <1>4 DEF Campaign!OutcomesAreTrue


-----------------------------------------------------------------------------
(* The calls of the campaign: what its ledger says of them.                *)
CampaignSays(f) ==
    IF f = "NONE" THEN "OPEN" ELSE IF f = "PASS" THEN "OK" ELSE IF f = "BLOCKED" THEN "UNSENT" ELSE "LOST"
CampaignAnswer == [k \in Campaign!Attempts |-> CampaignSays(fact[k])]
CampaignCalls == [Campaign!CallsOnce!Next]_(Campaign!CallsOnce!vars)

LEMMA CampaignMapping ==
    /\ UNCHANGED <<begun, sent, CampaignAnswer>> => UNCHANGED Campaign!CallsOnce!vars
    /\ \A k \in Campaign!Attempts :
         /\ Campaign!CallsOnce!Reserve(k) <=>
              k \notin begun /\ begun' = begun \cup {k} /\ UNCHANGED <<sent, CampaignAnswer>>
         /\ Campaign!CallsOnce!Send(k) <=>
              /\ k \in begun /\ sent[k] = 0 /\ CampaignAnswer[k] \in {"OPEN", "LOST"}
              /\ sent' = [sent EXCEPT ![k] = 1] /\ UNCHANGED <<begun, CampaignAnswer>>
         /\ \A o : Campaign!CallsOnce!Settle(k, o) <=>
              /\ k \in begun /\ CampaignAnswer[k] = "OPEN"
              /\ o = "OK" => sent[k] = 1
              /\ o = "UNSENT" => sent[k] = 0
              /\ CampaignAnswer' = [CampaignAnswer EXCEPT ![k] = o]
              /\ UNCHANGED <<begun, sent>>
<1>1. CampaignAnswer = [k \in Campaign!Attempts |->
                CASE fact[k] = "NONE" -> "OPEN"
                  [] fact[k] = "PASS" -> "OK"
                  [] fact[k] = "BLOCKED" -> "UNSENT"
                  [] OTHER -> "LOST"]
  BY DEF CampaignAnswer, CampaignSays
<1>2. CampaignAnswer' = [k \in Campaign!Attempts |->
                CASE fact'[k] = "NONE" -> "OPEN"
                  [] fact'[k] = "PASS" -> "OK"
                  [] fact'[k] = "BLOCKED" -> "UNSENT"
                  [] OTHER -> "LOST"]
  BY DEF CampaignAnswer, CampaignSays
<1> HIDE DEF CampaignAnswer
<1> QED BY <1>1, <1>2 DEF Campaign!CallsOnce!vars, Campaign!CallsOnce!Reserve, Campaign!CallsOnce!Send, Campaign!CallsOnce!Settle

(* No call is begun, sent or judged.                                       *)
LEMMA CampaignCallsRest ==
    ASSUME UNCHANGED <<begun, sent, fact>>
    PROVE  CampaignCalls
<1>1. UNCHANGED <<begun, sent, CampaignAnswer>>
  BY DEF CampaignAnswer
<1> QED BY <1>1, CampaignMapping DEF CampaignCalls

(* One open call gets its answer.                                          *)
LEMMA CampaignCallSettled ==
    ASSUME CampaignInv, NEW k \in Campaign!Attempts, NEW f \in Campaign!Verdicts,
           k \in begun, fact[k] = "NONE", fact' = [fact EXCEPT ![k] = f], UNCHANGED <<begun, sent>>,
           f = "PASS" => sent[k] = 1, f = "BLOCKED" => sent[k] = 0
    PROVE  CampaignCalls
<1>1. fact \in [Campaign!Attempts -> {"NONE"} \cup Campaign!Verdicts]
  BY DEF CampaignInv, CampaignRows, Campaign!TypeOK
<1>2. CampaignAnswer' = [CampaignAnswer EXCEPT ![k] = CampaignSays(f)]
  BY <1>1 DEF CampaignAnswer
<1>3. CampaignAnswer[k] = "OPEN" /\ CampaignSays(f) \in {"OK", "LOST", "UNSENT"}
      /\ (CampaignSays(f) = "OK" => sent[k] = 1) /\ (CampaignSays(f) = "UNSENT" => sent[k] = 0)
  BY DEF CampaignAnswer, CampaignSays, Campaign!Verdicts
<1>4. Campaign!CallsOnce!Settle(k, CampaignSays(f))
  BY <1>2, <1>3, CampaignMapping
<1> QED BY <1>3, <1>4 DEF CampaignCalls, Campaign!CallsOnce!Next

LEMMA CampaignCallBegun ==
    ASSUME CampaignInv, NEW r \in Runners, Campaign!BeginDispatch(r)
    PROVE  CampaignCalls
<1>1. PICK k \in Campaign!Attempts : k = Campaign!AttemptOf(r)
  BY CampaignWorks DEF Campaign!BeginDispatch, Campaign!At, CampaignActive
<1>2. k \notin begun /\ begun' = begun \cup {k} /\ UNCHANGED <<sent, fact>>
  BY <1>1 DEF Campaign!BeginDispatch, Campaign!MayBegin
<1>3. UNCHANGED CampaignAnswer
  BY <1>2 DEF CampaignAnswer
<1>4. Campaign!CallsOnce!Reserve(k)
  BY <1>2, <1>3, CampaignMapping
<1> QED BY <1>4 DEF CampaignCalls, Campaign!CallsOnce!Next

LEMMA CampaignCallSent ==
    ASSUME CampaignInv, NEW r \in Runners, Campaign!SendRequest(r)
    PROVE  CampaignCalls
<1>1. job[r].pc = "SEND" /\ job[r].pc \in CampaignActive /\ CampaignOwns(job[r])
  BY DEF Campaign!SendRequest, Campaign!At, CampaignActive, CampaignOwns
<1>2. PICK k \in Campaign!Attempts : k = Campaign!AttemptOf(r) /\ k = CampaignWork(job[r])
  BY <1>1, CampaignWorks
<1>3. k \in begun /\ fact[k] \in {"NONE", "FAILED"} /\ sent[k] = 0
  BY <1>1, <1>2, CampaignTypes DEF CampaignJob
<1>4. sent' = [sent EXCEPT ![k] = 1] /\ UNCHANGED <<begun, fact>>
  BY <1>2, <1>3, CampaignTypes DEF Campaign!SendRequest
<1>5. UNCHANGED CampaignAnswer /\ CampaignAnswer[k] \in {"OPEN", "LOST"}
  BY <1>3, <1>4 DEF CampaignAnswer, CampaignSays
<1>6. Campaign!CallsOnce!Send(k)
  BY <1>3, <1>4, <1>5, CampaignMapping
<1> QED BY <1>6 DEF CampaignCalls, Campaign!CallsOnce!Next

LEMMA CampaignCallJudged ==
    ASSUME CampaignInv, NEW r \in Runners, Campaign!AppendValidation(r)
    PROVE  CampaignCalls
<1>1. job[r].pc \in {"SEND", "AWAIT", "JUDGE"} /\ job[r].pc \in CampaignActive /\ CampaignOwns(job[r])
  BY DEF Campaign!AppendValidation, Campaign!At, CampaignActive, CampaignOwns, Campaign!Verdicts
<1>2. PICK k \in Campaign!Attempts : k = Campaign!AttemptOf(r) /\ k = CampaignWork(job[r]) /\ CampaignAttempt(k)
  BY <1>1, CampaignWorks
<1>3. UNCHANGED <<begun, sent>>
  BY DEF Campaign!AppendValidation
<1>4. PICK f \in Campaign!Verdicts :
          Campaign!MayRecord(k, f) /\ fact' = [fact EXCEPT ![k] = f]
          /\ (f = "BLOCKED" => job[r].pc = "SEND")
  BY <1>2 DEF Campaign!AppendValidation, Campaign!At
<1>5. f = "PASS" => sent[k] = 1
  BY <1>2, <1>4 DEF Campaign!MayRecord, CampaignAttempt
<1>6. f = "BLOCKED" => sent[k] = 0
  BY <1>2, <1>4, CampaignTypes DEF CampaignJob
<1>7. k \in begun /\ fact[k] = "NONE"
  BY <1>1, <1>2, <1>4, CampaignTypes DEF Campaign!MayRecord, CampaignJob
<1> QED BY <1>3, <1>4, <1>5, <1>6, <1>7, CampaignCallSettled

(* Recovery declares at most one call lost: one run is live at a time, and *)
(* a live run has at most one open attempt.                                *)
LEMMA CampaignCallLost ==
    ASSUME CampaignInv, NEW r \in Runners, Campaign!RecoverOpenAttempts(r)
    PROVE  CampaignCalls
<1>1. PICK skipped \in SUBSET Campaign!Locked(r) :
          fact' = [k \in Campaign!Attempts |->
                     IF k \in {x \in begun : /\ fact[x] = "NONE" /\ outcome[x[1]] = "NONE"
                                             /\ Campaign!IsLive(Campaign!KindOf(x[1]))
                                             /\ Campaign!KindOf(x[1]) \notin skipped}
                     THEN "FAILED" ELSE fact[k]]
  BY DEF Campaign!RecoverOpenAttempts
<1> DEFINE Lost(x) == /\ x \in begun /\ fact[x] = "NONE" /\ outcome[x[1]] = "NONE"
                      /\ Campaign!IsLive(Campaign!KindOf(x[1]))
                      /\ Campaign!KindOf(x[1]) \notin skipped
<1>2. /\ CampaignRows /\ begun \in SUBSET Campaign!Attempts
      /\ fact \in [Campaign!Attempts -> {"NONE"} \cup Campaign!Verdicts]
      /\ fact' = [k \in Campaign!Attempts |-> IF Lost(k) THEN "FAILED" ELSE fact[k]]
      /\ UNCHANGED <<begun, sent>>
  BY <1>1, CampaignTypes DEF Campaign!RecoverOpenAttempts
<1>3. ASSUME NEW k \in Campaign!Attempts, NEW l \in Campaign!Attempts, Lost(k), Lost(l)
      PROVE  k = l
  <2>1. Campaign!KindOf(k[1]) \in Campaign!Kinds /\ Campaign!KindOf(l[1]) \in Campaign!Kinds
    BY CampaignKinds DEF Campaign!Attempts
  <2>2. Campaign!KindOf(k[1]) = Campaign!KindOf(l[1])
    BY <1>2, <1>3, <2>1 DEF CampaignRows, CampaignRuns, Campaign!Kinds, Campaign!IsLive
  <2> QED BY <1>2, <1>3, <2>2 DEF CampaignRows, Campaign!OneOpenAttempt
<1>4. CASE \E k \in Campaign!Attempts : Lost(k)
  <2>1. PICK k \in Campaign!Attempts : Lost(k)
    BY <1>4
  <2>2. fact' = [fact EXCEPT ![k] = "FAILED"]
    <3>1. \A l \in Campaign!Attempts : Lost(l) <=> l = k
      BY <1>3, <2>1
    <3> HIDE DEF Lost
    <3> QED BY <1>2, <3>1
  <2>3. k \in begun /\ fact[k] = "NONE" /\ "FAILED" \in Campaign!Verdicts
    BY <2>1 DEF Campaign!Verdicts
  <2> QED BY <1>2, <2>2, <2>3, CampaignCallSettled
<1>5. CASE \A k \in Campaign!Attempts : ~Lost(k)
  <2>1. fact' = fact
    <3> HIDE DEF Lost
    <3> QED BY <1>2, <1>5
  <2> QED BY <1>2, <2>1, CampaignCallsRest
<1> QED BY <1>4, <1>5

(* Every step of the campaign makes each paid call at most once.           *)
LEMMA CampaignRefines ==
    ASSUME CampaignInv, [Campaign!Next]_(Campaign!vars)
    PROVE  CampaignCalls
<1>1. CASE UNCHANGED Campaign!vars
  BY <1>1, CampaignCallsRest DEF Campaign!vars
<1>2. CASE Campaign!Next
  <2>1. PICK r \in Runners :
            \/ \E k \in Campaign!Kinds : Campaign!Start(r, k)
            \/ Campaign!RecoverOpenAttempts(r) \/ Campaign!RecoverIncompleteCases(r)
            \/ Campaign!BeginRun(r) \/ Campaign!ClaimCase(r) \/ Campaign!RefuseClaim(r)
            \/ Campaign!BeginDispatch(r) \/ Campaign!StopBeforeSend(r) \/ Campaign!SendRequest(r)
            \/ Campaign!AppendReceipt(r) \/ Campaign!AppendValidation(r)
            \/ Campaign!CloseCase(r) \/ Campaign!CloseRun(r) \/ Campaign!Crash(r)
    BY <1>2 DEF Campaign!Next
  <2>2. CASE \/ \E k \in Campaign!Kinds : Campaign!Start(r, k)
             \/ Campaign!RecoverIncompleteCases(r) \/ Campaign!BeginRun(r) \/ Campaign!ClaimCase(r)
             \/ Campaign!RefuseClaim(r) \/ Campaign!StopBeforeSend(r) \/ Campaign!AppendReceipt(r)
             \/ Campaign!CloseCase(r) \/ Campaign!CloseRun(r) \/ Campaign!Crash(r)
    BY <2>2, CampaignCallsRest DEF Campaign!Start, Campaign!RecoverIncompleteCases, Campaign!BeginRun,
           Campaign!ClaimCase, Campaign!RefuseClaim, Campaign!StopBeforeSend, Campaign!AppendReceipt,
           Campaign!CloseCase, Campaign!CloseRun, Campaign!Crash, Campaign!attempts
  <2> QED BY <2>1, <2>2, CampaignCallBegun, CampaignCallSent, CampaignCallJudged, CampaignCallLost
<1> QED BY <1>1, <1>2

-----------------------------------------------------------------------------
(* The two probes.                                                         *)

(* A probe: nothing exists before its attempt, one request at most leaves, *)
(* and either a failure or a receipt is recorded, which is true.           *)
ProbedRow(k) ==
    /\ k \notin begun => sent[k] = 0 /\ fact[k] = "NONE" /\ receipt[k] = "NONE" /\ outcome[k] = "NONE"
    /\ sent[k] \in {0, 1}
    /\ fact[k] = "NONE" \/ receipt[k] = "NONE"
    /\ receipt[k] # "NONE" => sent[k] = 1
    /\ fact[k] = "SENT" => sent[k] = 1
    /\ fact[k] = "NOT_SENT" => sent[k] = 0
    /\ outcome[k] # "NONE" => (fact[k] # "NONE" \/ receipt[k] # "NONE") /\ outcome[k] = Probed!VerdictOf(k)

ProbedRows == Probed!TypeOK /\ \A k \in Probed!Kinds : ProbedRow(k)

(* An execution that has the attempt of its probe, and nothing recorded of *)
(* it yet.                                                                 *)
ProbedOwns(j) == j.at \in {"CALL", "SENT", "ANSWERED", "RECORDED", "JUDGED"}
ProbedWaits(j) == j.at \in {"CALL", "SENT", "ANSWERED"}

ProbedJob(j) ==
    /\ ProbedOwns(j) => j.probe \in begun /\ outcome[j.probe] = "NONE"
    /\ ProbedWaits(j) => fact[j.probe] = "NONE" /\ receipt[j.probe] = "NONE"
    /\ j.at \in {"RECORDED", "JUDGED"} => fact[j.probe] # "NONE" \/ receipt[j.probe] # "NONE"
    /\ j.at = "CALL" => sent[j.probe] = 0
    /\ j.at = "SENT" => sent[j.probe] = 1
    /\ j.at = "ANSWERED" /\ j.got = "NOT_SENT" => sent[j.probe] = 0
    /\ j.at = "ANSWERED" /\ j.got \in {"SENT"} \cup Probed!Receipts => sent[j.probe] = 1

ProbedInv ==
    /\ ProbedRows
    /\ \A o \in Runners : job[o] # NoOne => ProbedJob(job[o])
    /\ \A o, q \in Runners :
        o # q /\ job[o] # NoOne /\ job[q] # NoOne /\ ProbedOwns(job[o]) /\ ProbedOwns(job[q])
            => job[o].probe # job[q].probe

-----------------------------------------------------------------------------
LEMMA ProbedInit ==
    ASSUME Probed!Init
    PROVE  ProbedInv
<1>1. Probed!TypeOK
  BY DEF Probed!Init, Probed!TypeOK
<1>2. \A k \in Probed!Kinds : ProbedRow(k)
  BY DEF Probed!Init, ProbedRow
<1> QED BY <1>1, <1>2 DEF ProbedInv, ProbedRows, Probed!Init

LEMMA ProbedTypes ==
    ASSUME ProbedInv, NEW o \in Runners
    PROVE  /\ ProbedRows /\ Probed!TypeOK /\ job \in [Runners -> Probed!Jobs \cup {NoOne}]
           /\ begun \subseteq Probed!Kinds /\ sent \in [Probed!Kinds -> Nat]
           /\ fact \in [Probed!Kinds -> Probed!Facts \cup {"NONE"}]
           /\ receipt \in [Probed!Kinds -> Probed!Receipts \cup {"NONE"}]
           /\ review \in [Probed!Kinds -> Probed!Outcomes \cup {"NONE"}]
           /\ outcome \in [Probed!Kinds -> Probed!Outcomes \cup {"NONE"}]
           /\ job[o] # NoOne => /\ job[o] \in Probed!Jobs /\ ProbedJob(job[o])
                                /\ job[o].probe \in Probed!Kinds /\ ProbedRow(job[o].probe)
<1>1. ProbedRows /\ Probed!TypeOK
  BY DEF ProbedInv, ProbedRows
<1>2. job[o] # NoOne => job[o] \in Probed!Jobs /\ ProbedJob(job[o])
  BY <1>1 DEF ProbedInv, Probed!TypeOK
<1>3. job[o] # NoOne => job[o].probe \in Probed!Kinds
  BY <1>2 DEF Probed!Jobs
<1> QED BY <1>1, <1>2, <1>3 DEF ProbedRows, Probed!TypeOK

(* An execution ends, or begins, beside rows that are left alone.          *)
LEMMA ProbedMovesAlone ==
    ASSUME ProbedInv, UNCHANGED <<begun, sent, fact, receipt, review, outcome>>,
           NEW o \in Runners, NEW j \in Probed!Jobs \cup {NoOne}, job' = [job EXCEPT ![o] = j],
           j # NoOne => ~ProbedOwns(j)
    PROVE  ProbedInv'
<1>1. Probed!TypeOK'
  BY ProbedTypes DEF Probed!TypeOK
<1>2. ProbedRows'
  BY <1>1, ProbedTypes DEF ProbedRows, ProbedRow, Probed!VerdictOf
<1>3. \A q \in Runners : job'[q] = IF q = o THEN j ELSE job[q]
  BY ProbedTypes
<1>4. \A q \in Runners : job[q] # NoOne => ProbedJob(job[q])
  BY DEF ProbedInv
<1>5. j # NoOne => ProbedJob(j)
  BY DEF ProbedJob, ProbedOwns, ProbedWaits
<1>6. \A x : ProbedJob(x) => ProbedJob(x)'
  BY DEF ProbedJob
<1>7. \A q \in Runners : job'[q] # NoOne => ProbedJob(job'[q])
  BY <1>3, <1>4, <1>5
<1>8. \A q \in Runners : job'[q] # NoOne => ProbedJob(job[q])'
  BY <1>7 DEF ProbedJob
<1>9. \A p, q \in Runners :
        p # q /\ job'[p] # NoOne /\ job'[q] # NoOne /\ ProbedOwns(job'[p]) /\ ProbedOwns(job'[q])
            => job'[p].probe # job'[q].probe
  BY <1>3 DEF ProbedInv
<1> QED BY <1>2, <1>8, <1>9 DEF ProbedInv, ProbedOwns

(* An execution moves on with the attempt of probe k, which is its own or  *)
(* was nobody's; whatever is written is about k.                           *)
LEMMA ProbedMoves ==
    ASSUME ProbedInv, Probed!TypeOK', NEW o \in Runners, NEW k \in Probed!Kinds,
           NEW j \in Probed!Jobs \cup {NoOne}, job' = [job EXCEPT ![o] = j],
           begun' = begun \cup {k},
           \A l \in Probed!Kinds : l # k =>
               sent'[l] = sent[l] /\ fact'[l] = fact[l] /\ receipt'[l] = receipt[l] /\ outcome'[l] = outcome[l],
           k \notin begun \/ (job[o] # NoOne /\ ProbedOwns(job[o]) /\ job[o].probe = k),
           j # NoOne /\ ProbedOwns(j) => j.probe = k,
           ProbedRow(k)', j # NoOne => ProbedJob(j)'
    PROVE  ProbedInv'
<1>1. \A l \in Probed!Kinds : ProbedRow(l)'
  <2> SUFFICES ASSUME NEW l \in Probed!Kinds, l # k PROVE ProbedRow(l)'
    OBVIOUS
  <2>1. ProbedRow(l)
    BY DEF ProbedInv, ProbedRows
  <2>2. /\ sent'[l] = sent[l] /\ fact'[l] = fact[l] /\ receipt'[l] = receipt[l] /\ outcome'[l] = outcome[l]
        /\ l \in begun' <=> l \in begun
    OBVIOUS
  <2> HIDE DEF Probed!Kinds
  <2> QED BY <2>1, <2>2 DEF ProbedRow, Probed!VerdictOf
<1>2. \A q \in Runners : job'[q] = IF q = o THEN j ELSE job[q]
  BY ProbedTypes
<1>3. ASSUME NEW q \in Runners, q # o, job[q] # NoOne, ProbedOwns(job[q])
      PROVE  job[q].probe # k
  BY <1>3, ProbedTypes DEF ProbedInv, ProbedJob
<1>4. ASSUME NEW q \in Runners, job'[q] # NoOne PROVE ProbedJob(job[q])'
  <2>1. CASE q = o
    BY <1>2, <1>4, <2>1 DEF ProbedJob
  <2>2. CASE q # o
    <3>1. PICK i \in Probed!Jobs : i = job[q] /\ i = job'[q] /\ ProbedJob(i) /\ i.probe \in Probed!Kinds
      BY <1>2, <1>4, <2>2, ProbedTypes
    <3>2. ProbedOwns(i) => i.probe # k
      BY <1>3, <2>2, <3>1, ProbedAssumption
    <3>3. ProbedJob(i)'
      BY <3>1, <3>2 DEF ProbedJob, ProbedOwns, ProbedWaits
    <3> QED BY <3>1, <3>3 DEF ProbedJob
  <2> QED BY <2>1, <2>2
<1>5. \A p, q \in Runners :
        p # q /\ job'[p] # NoOne /\ job'[q] # NoOne /\ ProbedOwns(job'[p]) /\ ProbedOwns(job'[q])
            => job'[p].probe # job'[q].probe
  BY <1>2, <1>3 DEF ProbedInv
<1> QED BY <1>1, <1>4, <1>5 DEF ProbedInv, ProbedRows, ProbedOwns

-----------------------------------------------------------------------------
(* The actions that write no row.                                          *)
LEMMA ProbedQuiet ==
    ASSUME ProbedInv, NEW o \in Runners,
           \/ \E k \in Probed!Kinds : Probed!Start(o, k)
           \/ Probed!RefuseDispatch(o) \/ Probed!Crash(o)
    PROVE  ProbedInv'
<1>1. CASE \E k \in Probed!Kinds : Probed!Start(o, k)
  <2>1. PICK k \in Probed!Kinds : Probed!Start(o, k)
    BY <1>1
  <2> DEFINE m == [probe |-> k, at |-> "BEGIN", got |-> "NONE"]
  <2>2. m \in Probed!Jobs /\ ~ProbedOwns(m)
    BY DEF Probed!Jobs, ProbedOwns
  <2>3. job' = [job EXCEPT ![o] = m]
    BY <2>1 DEF Probed!Start
  <2> HIDE DEF m
  <2>4. PICK j \in Probed!Jobs : j = m
    BY <2>2
  <2> QED BY <2>1, <2>2, <2>3, <2>4, ProbedMovesAlone DEF Probed!Start
<1>2. CASE Probed!RefuseDispatch(o) \/ Probed!Crash(o)
  <2>1. job' = [job EXCEPT ![o] = NoOne] /\ UNCHANGED <<begun, sent, fact, receipt, review, outcome>>
    BY <1>2 DEF Probed!RefuseDispatch, Probed!Crash, Probed!Leave
  <2> QED BY <2>1, ProbedMovesAlone
<1> QED BY <1>1, <1>2

(* Moves of an execution.                                                  *)
LEMMA ProbedFields ==
    ASSUME ProbedInv, NEW o \in Runners, job[o] # NoOne,
           NEW step \in {"BEGIN", "CALL", "SENT", "ANSWERED", "RECORDED", "JUDGED"},
           NEW g \in Probed!Facts \cup Probed!Receipts \cup {"NONE"}
    PROVE  /\ Probed!GoTo(o, step) => \E j \in Probed!Jobs :
                /\ job' = [job EXCEPT ![o] = j]
                /\ j.at = step /\ j.probe = job[o].probe /\ j.got = job[o].got
           /\ Probed!Got(o, g) => \E j \in Probed!Jobs :
                /\ job' = [job EXCEPT ![o] = j]
                /\ j.at = "ANSWERED" /\ j.probe = job[o].probe /\ j.got = g
<1> DEFINE i == [job[o] EXCEPT !.at = step]
           m == [job[o] EXCEPT !.at = "ANSWERED", !.got = g]
<1>1. job[o] \in Probed!Jobs /\ job \in [Runners -> Probed!Jobs \cup {NoOne}]
  BY ProbedTypes
<1>2. i \in Probed!Jobs /\ i.at = step /\ i.probe = job[o].probe /\ i.got = job[o].got
  BY <1>1 DEF Probed!Jobs
<1>3. m \in Probed!Jobs /\ m.at = "ANSWERED" /\ m.probe = job[o].probe /\ m.got = g
  BY <1>1 DEF Probed!Jobs
<1>4. Probed!GoTo(o, step) => job' = [job EXCEPT ![o] = i]
  BY DEF Probed!GoTo
<1>5. Probed!Got(o, g) => job' = [job EXCEPT ![o] = m]
  BY DEF Probed!Got
<1> HIDE DEF i, m
<1> QED BY <1>2, <1>3, <1>4, <1>5

LEMMA ProbedBegins ==
    ASSUME ProbedInv, NEW o \in Runners, Probed!BeginDispatch(o)
    PROVE  ProbedInv'
<1>1. job[o] # NoOne
  BY DEF Probed!BeginDispatch, Probed!At
<1>2. PICK k \in Probed!Kinds : k = job[o].probe /\ ProbedRow(k)
  BY <1>1, ProbedTypes
<1>3. /\ k \notin begun /\ begun' = begun \cup {k} /\ UNCHANGED <<sent, fact, receipt, review, outcome>>
      /\ Probed!GoTo(o, "CALL")
  BY <1>2 DEF Probed!BeginDispatch
<1>4. PICK j \in Probed!Jobs : job' = [job EXCEPT ![o] = j] /\ j.at = "CALL" /\ j.probe = k
  BY <1>1, <1>2, <1>3, ProbedFields
<1>5. Probed!TypeOK'
  BY <1>3, <1>4, ProbedTypes DEF Probed!TypeOK
<1>6. ProbedRow(k)' /\ ProbedJob(j)'
  BY <1>2, <1>3, <1>4 DEF ProbedRow, ProbedJob, ProbedOwns, ProbedWaits
<1> QED BY <1>3, <1>4, <1>5, <1>6, ProbedMoves

LEMMA ProbedAnswers ==
    ASSUME ProbedInv, NEW o \in Runners,
           Probed!StopBeforeSend(o) \/ \E g \in Probed!Facts \cup Probed!Receipts \cup {"NONE"} : Probed!Answer(o, g)
    PROVE  ProbedInv'
<1>1. PICK g \in Probed!Facts \cup Probed!Receipts \cup {"NONE"} :
        /\ Probed!Got(o, g) /\ job[o] # NoOne /\ job[o].at \in {"CALL", "SENT"}
        /\ g = "NOT_SENT" => job[o].at = "CALL"
        /\ g \in {"SENT"} \cup Probed!Receipts => job[o].at = "SENT"
        /\ UNCHANGED <<begun, sent, fact, receipt, review, outcome>>
  <2>1. CASE Probed!StopBeforeSend(o)
    BY <2>1 DEF Probed!StopBeforeSend, Probed!At, Probed!Receipts
  <2>2. CASE \E g \in Probed!Facts \cup Probed!Receipts \cup {"NONE"} : Probed!Answer(o, g)
    <3>1. PICK g \in Probed!Facts \cup Probed!Receipts \cup {"NONE"} : Probed!Answer(o, g)
      BY <2>2
    <3> QED BY <3>1 DEF Probed!Answer, Probed!At, Probed!Receipts
  <2> QED BY <2>1, <2>2
<1>2. PICK k \in Probed!Kinds : k = job[o].probe /\ ProbedRow(k) /\ ProbedJob(job[o])
  BY <1>1, ProbedTypes
<1>3. PICK j \in Probed!Jobs : job' = [job EXCEPT ![o] = j] /\ j.at = "ANSWERED" /\ j.probe = k /\ j.got = g
  BY <1>1, <1>2, ProbedFields
<1>4. Probed!TypeOK'
  BY <1>1, <1>3, ProbedTypes DEF Probed!TypeOK
<1>5. k \in begun /\ outcome[k] = "NONE" /\ fact[k] = "NONE" /\ receipt[k] = "NONE"
      /\ (job[o].at = "CALL" => sent[k] = 0) /\ (job[o].at = "SENT" => sent[k] = 1)
  BY <1>1, <1>2 DEF ProbedJob, ProbedOwns, ProbedWaits
<1>6. ProbedJob(j)'
  BY <1>1, <1>3, <1>5 DEF ProbedJob, ProbedOwns, ProbedWaits
<1>7. ProbedRow(k)'
  BY <1>1, <1>2 DEF ProbedRow, Probed!VerdictOf
<1>8. begun' = begun \cup {k} /\ ProbedOwns(job[o])
  BY <1>1, <1>5 DEF ProbedOwns
<1> QED BY <1>1, <1>2, <1>3, <1>4, <1>6, <1>7, <1>8, ProbedMoves

LEMMA ProbedSends ==
    ASSUME ProbedInv, NEW o \in Runners, Probed!Send(o)
    PROVE  ProbedInv'
<1>1. job[o] # NoOne /\ job[o].at = "CALL"
  BY DEF Probed!Send, Probed!At
<1>2. PICK k \in Probed!Kinds : k = job[o].probe /\ ProbedRow(k) /\ ProbedJob(job[o])
  BY <1>1, ProbedTypes
<1>3. k \in begun /\ sent[k] = 0 /\ fact[k] = "NONE" /\ receipt[k] = "NONE" /\ outcome[k] = "NONE"
  BY <1>1, <1>2 DEF ProbedJob, ProbedOwns, ProbedWaits
<1>4. /\ sent' = [sent EXCEPT ![k] = 1] /\ UNCHANGED <<begun, fact, receipt, review, outcome>>
      /\ Probed!GoTo(o, "SENT")
  BY <1>2, <1>3, ProbedTypes DEF Probed!Send
<1>5. PICK j \in Probed!Jobs : job' = [job EXCEPT ![o] = j] /\ j.at = "SENT" /\ j.probe = k
  BY <1>1, <1>2, <1>4, ProbedFields
<1>6. sent'[k] = 1 /\ \A l \in Probed!Kinds : l # k => sent'[l] = sent[l]
  BY <1>4, ProbedTypes
<1>7. Probed!TypeOK'
  BY <1>4, <1>5, ProbedTypes DEF Probed!TypeOK
<1>8. ProbedRow(k)' /\ ProbedJob(j)'
  BY <1>2, <1>3, <1>4, <1>5, <1>6 DEF ProbedRow, ProbedJob, ProbedOwns, ProbedWaits
<1>9. begun' = begun \cup {k} /\ ProbedOwns(job[o])
  BY <1>1, <1>3, <1>4 DEF ProbedOwns
<1> QED BY <1>1, <1>2, <1>4, <1>5, <1>6, <1>7, <1>8, <1>9, ProbedMoves

(* What is appended is about the attempt of the execution, once.           *)
LEMMA ProbedRecords ==
    ASSUME ProbedInv, NEW o \in Runners, Probed!AppendFailure(o) \/ Probed!AppendReceipt(o)
    PROVE  ProbedInv'
<1>1. job[o] # NoOne /\ job[o].at = "ANSWERED"
  BY DEF Probed!AppendFailure, Probed!AppendReceipt, Probed!At
<1>2. PICK k \in Probed!Kinds : k = job[o].probe /\ ProbedRow(k) /\ ProbedJob(job[o])
  BY <1>1, ProbedTypes
<1>3. /\ k \in begun /\ outcome[k] = "NONE" /\ fact[k] = "NONE" /\ receipt[k] = "NONE"
      /\ job[o].got = "NOT_SENT" => sent[k] = 0
      /\ job[o].got \in {"SENT"} \cup Probed!Receipts => sent[k] = 1
      /\ ProbedOwns(job[o])
  BY <1>1, <1>2 DEF ProbedJob, ProbedOwns, ProbedWaits
<1>4. CASE Probed!AppendFailure(o)
  <2>1. PICK f \in Probed!Facts : /\ fact' = [fact EXCEPT ![k] = f]
                                  /\ f = "NOT_SENT" => sent[k] = 0
                                  /\ f = "SENT" => sent[k] = 1
    <3> DEFINE f == IF job[o].got = "NONE" THEN "UNKNOWN" ELSE job[o].got
    <3>1. fact' = [fact EXCEPT ![k] = f] /\ job[o].got \in {"NOT_SENT", "SENT", "NONE"}
      BY <1>2, <1>4 DEF Probed!AppendFailure
    <3>2. f \in Probed!Facts /\ (f = "NOT_SENT" => sent[k] = 0) /\ (f = "SENT" => sent[k] = 1)
      BY <1>3, <3>1 DEF Probed!Facts
    <3> QED BY <3>1, <3>2
  <2>2. Probed!GoTo(o, "RECORDED") /\ UNCHANGED <<begun, sent, receipt, review, outcome>>
    BY <1>4 DEF Probed!AppendFailure
  <2>3. PICK j \in Probed!Jobs : job' = [job EXCEPT ![o] = j] /\ j.at = "RECORDED" /\ j.probe = k
    BY <1>1, <1>2, <2>2, ProbedFields
  <2>4. fact'[k] = f /\ \A l \in Probed!Kinds : l # k => fact'[l] = fact[l]
    BY <2>1, ProbedTypes
  <2>5. Probed!TypeOK'
    BY <2>1, <2>2, <2>3, ProbedTypes DEF Probed!TypeOK
  <2>6. f # "NONE"
    BY DEF Probed!Facts
  <2>7. ProbedRow(k)' /\ ProbedJob(j)'
    BY <1>2, <1>3, <2>1, <2>2, <2>3, <2>4, <2>6 DEF ProbedRow, ProbedJob, ProbedOwns, ProbedWaits
  <2>8. begun' = begun \cup {k}
    BY <1>3, <2>2
  <2> QED BY <1>1, <1>2, <1>3, <2>2, <2>3, <2>4, <2>5, <2>7, <2>8, ProbedMoves
<1>5. CASE Probed!AppendReceipt(o) /\ k = "V3" /\ job[o].got = "INCOMPLETE"
  <2>1. job' = [job EXCEPT ![o] = NoOne] /\ UNCHANGED <<begun, sent, fact, receipt, review, outcome>>
    BY <1>2, <1>5 DEF Probed!AppendReceipt, Probed!Leave
  <2> QED BY <2>1, ProbedMovesAlone
<1>6. CASE Probed!AppendReceipt(o) /\ ~(k = "V3" /\ job[o].got = "INCOMPLETE")
  <2>1. PICK g \in Probed!Receipts : receipt' = [receipt EXCEPT ![k] = g] /\ sent[k] = 1
    BY <1>2, <1>3, <1>6 DEF Probed!AppendReceipt
  <2>2. Probed!GoTo(o, "RECORDED") /\ UNCHANGED <<begun, sent, fact, review, outcome>>
    BY <1>2, <1>6 DEF Probed!AppendReceipt
  <2>3. PICK j \in Probed!Jobs : job' = [job EXCEPT ![o] = j] /\ j.at = "RECORDED" /\ j.probe = k
    BY <1>1, <1>2, <2>2, ProbedFields
  <2>4. receipt'[k] = g /\ \A l \in Probed!Kinds : l # k => receipt'[l] = receipt[l]
    BY <2>1, ProbedTypes
  <2>5. Probed!TypeOK'
    BY <2>1, <2>2, <2>3, ProbedTypes DEF Probed!TypeOK
  <2>6. g # "NONE"
    BY DEF Probed!Receipts
  <2>7. ProbedRow(k)' /\ ProbedJob(j)'
    BY <1>2, <1>3, <2>1, <2>2, <2>3, <2>4, <2>6 DEF ProbedRow, ProbedJob, ProbedOwns, ProbedWaits
  <2>8. begun' = begun \cup {k}
    BY <1>3, <2>2
  <2> QED BY <1>1, <1>2, <1>3, <2>2, <2>3, <2>4, <2>5, <2>7, <2>8, ProbedMoves
<1> QED BY <1>4, <1>5, <1>6

(* The validation fact of V3 is one more row; the outcome is what the      *)
(* runner makes of what was recorded.                                      *)
LEMMA ProbedJudges ==
    ASSUME ProbedInv, NEW o \in Runners, Probed!AppendValidation(o)
    PROVE  ProbedInv'
<1>1. job[o] # NoOne /\ job[o].at = "RECORDED"
  BY DEF Probed!AppendValidation, Probed!At
<1>2. PICK k \in Probed!Kinds : k = job[o].probe /\ ProbedRow(k) /\ ProbedJob(job[o])
  BY <1>1, ProbedTypes
<1>3. /\ k \in begun /\ outcome[k] = "NONE" /\ ProbedOwns(job[o])
      /\ fact[k] # "NONE" \/ receipt[k] # "NONE"
  BY <1>1, <1>2 DEF ProbedJob, ProbedOwns, ProbedWaits
<1>4. /\ review' = [review EXCEPT ![k] = Probed!VerdictOf(k)]
      /\ UNCHANGED <<begun, sent, fact, receipt, outcome>> /\ Probed!GoTo(o, "JUDGED")
  BY <1>2 DEF Probed!AppendValidation
<1>5. PICK j \in Probed!Jobs : job' = [job EXCEPT ![o] = j] /\ j.at = "JUDGED" /\ j.probe = k
  BY <1>1, <1>2, <1>4, ProbedFields
<1>6. Probed!VerdictOf(k) \in Probed!Outcomes
  BY DEF Probed!VerdictOf, Probed!Outcomes
<1>7. Probed!TypeOK'
  BY <1>4, <1>5, <1>6, ProbedTypes DEF Probed!TypeOK
<1>8. ProbedRow(k)' /\ ProbedJob(j)'
  BY <1>2, <1>3, <1>4, <1>5 DEF ProbedRow, ProbedJob, ProbedOwns, ProbedWaits, Probed!VerdictOf
<1>9. begun' = begun \cup {k}
  BY <1>3, <1>4
<1> QED BY <1>1, <1>2, <1>3, <1>4, <1>5, <1>7, <1>8, <1>9, ProbedMoves

LEMMA ProbedCloses ==
    ASSUME ProbedInv, NEW o \in Runners, Probed!CloseCase(o) \/ Probed!Close(o)
    PROVE  ProbedInv'
<1>1. job[o] # NoOne /\ job[o].at \in {"RECORDED", "JUDGED"}
  BY DEF Probed!CloseCase, Probed!Close, Probed!At
<1>2. PICK k \in Probed!Kinds : k = job[o].probe /\ ProbedRow(k) /\ ProbedJob(job[o])
  BY <1>1, ProbedTypes
<1>3. /\ k \in begun /\ outcome[k] = "NONE" /\ ProbedOwns(job[o])
      /\ fact[k] # "NONE" \/ receipt[k] # "NONE"
  BY <1>1, <1>2 DEF ProbedJob, ProbedOwns, ProbedWaits
<1>4. PICK v \in Probed!Outcomes : v = Probed!VerdictOf(k)
  BY DEF Probed!VerdictOf, Probed!Outcomes
<1>5. /\ outcome' = [outcome EXCEPT ![k] = v] /\ job' = [job EXCEPT ![o] = NoOne]
      /\ UNCHANGED <<begun, sent, fact, receipt, review>>
  BY <1>2, <1>4 DEF Probed!CloseCase, Probed!Close, Probed!Leave
<1>6. outcome'[k] = v /\ \A l \in Probed!Kinds : l # k => outcome'[l] = outcome[l]
  BY <1>5, ProbedTypes
<1>7. Probed!TypeOK'
  BY <1>5, ProbedTypes DEF Probed!TypeOK
<1>8. Probed!VerdictOf(k)' = v
  BY <1>4, <1>5 DEF Probed!VerdictOf
<1>9. ProbedRow(k)'
  BY <1>2, <1>3, <1>5, <1>6, <1>8 DEF ProbedRow
<1>10. begun' = begun \cup {k}
  BY <1>3, <1>5
<1> QED BY <1>1, <1>2, <1>3, <1>5, <1>6, <1>7, <1>9, <1>10, ProbedMoves

LEMMA ProbedStep ==
    ASSUME ProbedInv, [Probed!Next]_(Probed!vars)
    PROVE  ProbedInv'
<1>1. CASE UNCHANGED Probed!vars
  BY <1>1 DEF Probed!vars, ProbedInv, ProbedRows, ProbedRow, ProbedJob, Probed!TypeOK, Probed!VerdictOf
<1>2. CASE Probed!Next
  BY <1>2, ProbedQuiet, ProbedBegins, ProbedAnswers, ProbedSends, ProbedRecords, ProbedJudges,
     ProbedCloses DEF Probed!Next
<1> QED BY <1>1, <1>2

(* The invariant gives what the probes promise.                            *)
LEMMA ProbedHolds ==
    ASSUME ProbedInv
    PROVE  Probed!TypeOK /\ Probed!OutcomesAreTrue
<1> SUFFICES ASSUME NEW k \in Probed!Kinds
             PROVE  /\ outcome[k] = "PASS" => sent[k] = 1 /\ receipt[k] = "GOOD"
                    /\ outcome[k] = "BLOCKED" => sent[k] = 0
                    /\ outcome[k] = "FAILED" /\ fact[k] # "UNKNOWN" => sent[k] = 1
                    /\ fact[k] = "NONE" \/ receipt[k] = "NONE"
  BY DEF ProbedInv, ProbedRows, Probed!OutcomesAreTrue
<1>1. ProbedRow(k) /\ fact[k] \in Probed!Facts \cup {"NONE"}
  BY DEF ProbedInv, ProbedRows, Probed!TypeOK
<1> QED BY <1>1 DEF ProbedRow, Probed!VerdictOf, Probed!Facts

-----------------------------------------------------------------------------
(* The calls of the probes: what their tables say of them.                 *)
ProbedSays(f, g) ==
    IF g # "NONE" THEN "OK" ELSE IF f = "NOT_SENT" THEN "UNSENT"
    ELSE IF f \in {"SENT", "UNKNOWN"} THEN "LOST" ELSE "OPEN"
ProbedAnswer == [k \in Probed!Kinds |-> ProbedSays(fact[k], receipt[k])]
ProbedCalls == [Probed!CallsOnce!Next]_(Probed!CallsOnce!vars)

LEMMA ProbedMapping ==
    /\ UNCHANGED <<begun, sent, ProbedAnswer>> => UNCHANGED Probed!CallsOnce!vars
    /\ \A k \in Probed!Kinds :
         /\ Probed!CallsOnce!Reserve(k) <=>
              k \notin begun /\ begun' = begun \cup {k} /\ UNCHANGED <<sent, ProbedAnswer>>
         /\ Probed!CallsOnce!Send(k) <=>
              /\ k \in begun /\ sent[k] = 0 /\ ProbedAnswer[k] \in {"OPEN", "LOST"}
              /\ sent' = [sent EXCEPT ![k] = 1] /\ UNCHANGED <<begun, ProbedAnswer>>
         /\ \A o : Probed!CallsOnce!Settle(k, o) <=>
              /\ k \in begun /\ ProbedAnswer[k] = "OPEN"
              /\ o = "OK" => sent[k] = 1
              /\ o = "UNSENT" => sent[k] = 0
              /\ ProbedAnswer' = [ProbedAnswer EXCEPT ![k] = o]
              /\ UNCHANGED <<begun, sent>>
BY DEF ProbedAnswer, ProbedSays, Probed!CallsOnce!vars, Probed!CallsOnce!Reserve,
   Probed!CallsOnce!Send, Probed!CallsOnce!Settle

(* No call is begun, sent or judged.                                       *)
LEMMA ProbedCallsRest ==
    ASSUME UNCHANGED <<begun, sent, fact, receipt>>
    PROVE  ProbedCalls
<1>1. UNCHANGED <<begun, sent, ProbedAnswer>>
  BY DEF ProbedAnswer
<1> QED BY <1>1, ProbedMapping DEF ProbedCalls

LEMMA ProbedCallBegun ==
    ASSUME ProbedInv, NEW o \in Runners, Probed!BeginDispatch(o)
    PROVE  ProbedCalls
<1>1. PICK k \in Probed!Kinds : k = job[o].probe
  BY ProbedTypes DEF Probed!BeginDispatch, Probed!At
<1>2. k \notin begun /\ begun' = begun \cup {k} /\ UNCHANGED <<sent, fact, receipt>>
  BY <1>1 DEF Probed!BeginDispatch
<1>3. UNCHANGED ProbedAnswer
  BY <1>2 DEF ProbedAnswer
<1>4. Probed!CallsOnce!Reserve(k)
  BY <1>2, <1>3, ProbedMapping
<1> QED BY <1>4 DEF ProbedCalls, Probed!CallsOnce!Next

LEMMA ProbedCallSent ==
    ASSUME ProbedInv, NEW o \in Runners, Probed!Send(o)
    PROVE  ProbedCalls
<1>1. job[o] # NoOne /\ job[o].at = "CALL"
  BY DEF Probed!Send, Probed!At
<1>2. PICK k \in Probed!Kinds : k = job[o].probe /\ ProbedJob(job[o])
  BY <1>1, ProbedTypes
<1>3. k \in begun /\ sent[k] = 0 /\ fact[k] = "NONE" /\ receipt[k] = "NONE"
  BY <1>1, <1>2 DEF ProbedJob, ProbedOwns, ProbedWaits
<1>4. sent' = [sent EXCEPT ![k] = 1] /\ UNCHANGED <<begun, fact, receipt>>
  BY <1>2, <1>3, ProbedTypes DEF Probed!Send
<1>5. UNCHANGED ProbedAnswer /\ ProbedAnswer[k] = "OPEN"
  BY <1>3, <1>4 DEF ProbedAnswer, ProbedSays
<1>6. Probed!CallsOnce!Send(k)
  BY <1>3, <1>4, <1>5, ProbedMapping
<1> QED BY <1>6 DEF ProbedCalls, Probed!CallsOnce!Next

LEMMA ProbedCallSettled ==
    ASSUME ProbedInv, NEW o \in Runners, Probed!AppendFailure(o) \/ Probed!AppendReceipt(o)
    PROVE  ProbedCalls
<1>1. job[o] # NoOne /\ job[o].at = "ANSWERED"
  BY DEF Probed!AppendFailure, Probed!AppendReceipt, Probed!At
<1>2. PICK k \in Probed!Kinds : k = job[o].probe /\ ProbedJob(job[o])
  BY <1>1, ProbedTypes
<1>3. /\ k \in begun /\ fact[k] = "NONE" /\ receipt[k] = "NONE"
      /\ job[o].got = "NOT_SENT" => sent[k] = 0
      /\ job[o].got \in Probed!Receipts => sent[k] = 1
  BY <1>1, <1>2 DEF ProbedJob, ProbedOwns, ProbedWaits
<1>4. UNCHANGED <<begun, sent>> /\ ProbedAnswer[k] = "OPEN"
  BY <1>3 DEF Probed!AppendFailure, Probed!AppendReceipt, ProbedAnswer, ProbedSays
<1>5. CASE UNCHANGED <<fact, receipt>>
  BY <1>4, <1>5, ProbedCallsRest
<1>6. CASE ~UNCHANGED <<fact, receipt>>
  <2>1. PICK v \in {"OK", "LOST", "UNSENT"} :
          /\ ProbedAnswer' = [ProbedAnswer EXCEPT ![k] = v]
          /\ v = "OK" => sent[k] = 1
          /\ v = "UNSENT" => sent[k] = 0
    <3>1. CASE Probed!AppendFailure(o)
      <4>1. PICK f : /\ fact' = [fact EXCEPT ![k] = f] /\ f \in Probed!Facts
                     /\ f = "NOT_SENT" => sent[k] = 0
        <5> DEFINE f == IF job[o].got = "NONE" THEN "UNKNOWN" ELSE job[o].got
        <5>1. fact' = [fact EXCEPT ![k] = f] /\ job[o].got \in {"NOT_SENT", "SENT", "NONE"}
          BY <1>2, <3>1 DEF Probed!AppendFailure
        <5>2. f \in Probed!Facts /\ (f = "NOT_SENT" => sent[k] = 0)
          BY <1>3, <5>1 DEF Probed!Facts
        <5> QED BY <5>1, <5>2
      <4>2. receipt' = receipt
        BY <3>1 DEF Probed!AppendFailure
      <4>3. ProbedAnswer' = [ProbedAnswer EXCEPT ![k] = ProbedSays(f, "NONE")]
        BY <1>3, <4>1, <4>2, ProbedTypes DEF ProbedAnswer
      <4> QED BY <4>1, <4>3 DEF ProbedSays, Probed!Facts
    <3>2. CASE Probed!AppendReceipt(o)
      <4>1. PICK g \in Probed!Receipts : receipt' = [receipt EXCEPT ![k] = g] /\ fact' = fact
        BY <1>2, <1>6, <3>2 DEF Probed!AppendReceipt
      <4>2. job[o].got \in Probed!Receipts
        BY <3>2 DEF Probed!AppendReceipt
      <4>3. ProbedAnswer' = [ProbedAnswer EXCEPT ![k] = ProbedSays("NONE", g)]
        BY <1>3, <4>1, ProbedTypes DEF ProbedAnswer
      <4> QED BY <1>3, <4>1, <4>2, <4>3 DEF ProbedSays, Probed!Receipts
    <3> QED BY <3>1, <3>2
  <2>2. Probed!CallsOnce!Settle(k, v)
    BY <1>3, <1>4, <2>1, ProbedMapping
  <2> QED BY <2>2 DEF ProbedCalls, Probed!CallsOnce!Next
<1> QED BY <1>5, <1>6

(* Every step of the probes makes each call at most once.                  *)
LEMMA ProbedRefines ==
    ASSUME ProbedInv, [Probed!Next]_(Probed!vars)
    PROVE  ProbedCalls
<1>1. CASE UNCHANGED Probed!vars
  BY <1>1, ProbedCallsRest DEF Probed!vars
<1>2. CASE Probed!Next
  <2>1. PICK o \in Runners :
            \/ \E k \in Probed!Kinds : Probed!Start(o, k)
            \/ Probed!BeginDispatch(o) \/ Probed!RefuseDispatch(o)
            \/ Probed!StopBeforeSend(o) \/ Probed!Send(o)
            \/ \E g \in Probed!Facts \cup Probed!Receipts \cup {"NONE"} : Probed!Answer(o, g)
            \/ Probed!AppendFailure(o) \/ Probed!AppendReceipt(o) \/ Probed!AppendValidation(o)
            \/ Probed!CloseCase(o) \/ Probed!Close(o) \/ Probed!Crash(o)
    BY <1>2 DEF Probed!Next
  <2>2. CASE \/ \E k \in Probed!Kinds : Probed!Start(o, k)
             \/ Probed!RefuseDispatch(o) \/ Probed!StopBeforeSend(o)
             \/ \E g \in Probed!Facts \cup Probed!Receipts \cup {"NONE"} : Probed!Answer(o, g)
             \/ Probed!AppendValidation(o) \/ Probed!CloseCase(o) \/ Probed!Close(o) \/ Probed!Crash(o)
    BY <2>2, ProbedCallsRest DEF Probed!Start, Probed!RefuseDispatch, Probed!StopBeforeSend, Probed!Answer,
           Probed!AppendValidation, Probed!CloseCase, Probed!Close, Probed!Crash
  <2> QED BY <2>1, <2>2, ProbedCallBegun, ProbedCallSent, ProbedCallSettled
<1> QED BY <1>1, <1>2

-----------------------------------------------------------------------------
(* The qualification campaigns.                                            *)

(* Case n of campaign g, and its attempt of stage s.                       *)
QualifiedClaim(g, n) == <<g, FrozenSlots[g][n]>>
QualifiedKey(g, n, s) == <<g, FrozenSlots[g][n], s>>

(* An attempt: reserved for a claimed case, the planner after the analyst, *)
(* sent at most once, and what was recorded of it is true.                 *)
QualifiedAttempt(g, c, s) ==
    LET k == <<g, c, s>>
    IN  /\ k \in begun => <<g, c>> \in claimed
        /\ (k \in begun /\ s = "PLANNER") => Qualified!Passed(<<g, c, "ANALYST">>)
        /\ sent[k] \in {0, 1}
        /\ sent[k] = 1 => k \in begun
        /\ receipt[k] # "NONE" => sent[k] = 1
        /\ fact[k] # "NONE" => k \in begun
        /\ fact[k] = "PASS" => receipt[k] = "COMPLETE"
        /\ fact[k] = "BLOCKED" => sent[k] = 0

(* The requests of a case that nobody may call blocked otherwise.          *)
QualifiedHides(g, c) ==
    ~ /\ sent[<<g, c, "PLANNER">>] = 0
      /\ sent[<<g, c, "ANALYST">>] = 1 => Qualified!Passed(<<g, c, "ANALYST">>)

QualifiedCase(g, c) ==
    /\ outcome[<<g, c>>] = "PASS" => \A s \in Qualified!Stages : Qualified!Passed(<<g, c, s>>)
    /\ outcome[<<g, c>>] = "BLOCKED" => ~QualifiedHides(g, c)

QualifiedActive == {"BEGIN", "SEND", "AWAIT", "JUDGE", "BLOCK", "CLOSE"}

(* The process j that executes campaign g: nothing is begun after its case,*)
(* nor of a stage it has yet to begin, and the verdict it has in mind is   *)
(* true.                                                                   *)
QualifiedJob(g, j) ==
    /\ j.pc # "IDLE" => result[g] = "OPEN"
    /\ j.at \in DOMAIN FrozenSlots[g]
    /\ j.pc # "IDLE" => \A n \in DOMAIN FrozenSlots[g] : \A s \in Qualified!Stages :
           (n > j.at \/ (n = j.at /\ j.pc = "CLAIM")) => QualifiedKey(g, n, s) \notin begun
    /\ (j.pc # "IDLE" /\ j.clean) => \A n \in DOMAIN FrozenSlots[g] :
           (n < j.at \/ j.pc = "END") => outcome[QualifiedClaim(g, n)] = "PASS"
    /\ j.pc \in QualifiedActive =>
        QualifiedClaim(g, j.at) \in claimed /\ outcome[QualifiedClaim(g, j.at)] = "NONE"
    /\ (j.pc \in {"BEGIN", "SEND", "AWAIT", "JUDGE"} /\ j.stage = "ANALYST") =>
        QualifiedKey(g, j.at, "PLANNER") \notin begun
    /\ (j.pc \in {"BEGIN", "SEND", "AWAIT", "JUDGE"} /\ j.stage = "PLANNER") =>
        Qualified!Passed(QualifiedKey(g, j.at, "ANALYST"))
    /\ j.pc = "BEGIN" => QualifiedKey(g, j.at, j.stage) \notin begun
    /\ j.pc \in {"SEND", "AWAIT", "JUDGE"} =>
        QualifiedKey(g, j.at, j.stage) \in begun /\ fact[QualifiedKey(g, j.at, j.stage)] = "NONE"
    /\ j.pc = "SEND" => sent[QualifiedKey(g, j.at, j.stage)] = 0
    /\ j.pc \in {"AWAIT", "JUDGE"} => sent[QualifiedKey(g, j.at, j.stage)] = 1
    /\ j.pc = "BLOCK" => j.verdict = "BLOCKED"
    /\ (j.pc \in {"BLOCK", "CLOSE"} /\ j.verdict = "BLOCKED") => ~QualifiedHides(g, FrozenSlots[g][j.at])

(* What the rows and the process of campaign g say of each other.          *)
QualifiedPart(g) ==
    /\ \A c \in Qualified!CasesOf(g) :
        /\ QualifiedCase(g, c)
        /\ \A s \in Qualified!Stages :
            /\ QualifiedAttempt(g, c, s)
            /\ result[g] = "NONE" => <<g, c, s>> \notin begun
    /\ result[g] = "PASS" => \A c \in Qualified!CasesOf(g) : outcome[<<g, c>>] = "PASS"
    /\ QualifiedJob(g, job[g])

QualifiedInv ==
    /\ Qualified!TypeOK
    /\ \A g \in Campaigns : QualifiedPart(g)

-----------------------------------------------------------------------------
(* The cases and attempts of a campaign.                                   *)
LEMMA QualifiedKeys ==
    /\ \A g \in Campaigns : \A n \in DOMAIN FrozenSlots[g] :
          /\ FrozenSlots[g][n] \in Qualified!CasesOf(g) /\ QualifiedClaim(g, n) \in Qualified!Claims
          /\ \A s \in Qualified!Stages : QualifiedKey(g, n, s) \in Qualified!Attempts
    /\ \A g \in Campaigns : \A c \in Qualified!CasesOf(g) :
          /\ <<g, c>> \in Qualified!Claims /\ \E n \in DOMAIN FrozenSlots[g] : c = FrozenSlots[g][n]
          /\ \A s \in Qualified!Stages : <<g, c, s>> \in Qualified!Attempts
    /\ \A c \in Qualified!Claims : \E g \in Campaigns : \E x \in Qualified!CasesOf(g) : c = <<g, x>>
    /\ \A k \in Qualified!Attempts : \E g \in Campaigns : \E c \in Qualified!CasesOf(g) :
          \E s \in Qualified!Stages : k = <<g, c, s>>
    /\ \A g \in Campaigns : 1 \in DOMAIN FrozenSlots[g] /\ Len(FrozenSlots[g]) \in DOMAIN FrozenSlots[g]
          /\ DOMAIN FrozenSlots[g] = 1..Len(FrozenSlots[g]) /\ Len(FrozenSlots[g]) \in Nat
<1>1. \A g \in Campaigns : \A n \in DOMAIN FrozenSlots[g] : FrozenSlots[g][n] \in Qualified!CasesOf(g)
  BY DEF Qualified!CasesOf
<1>2. \A g \in Campaigns : \A c \in Qualified!CasesOf(g) :
          <<g, c>> \in Qualified!Claims /\ \E n \in DOMAIN FrozenSlots[g] : c = FrozenSlots[g][n]
  BY DEF Qualified!CasesOf, Qualified!Claims
<1>3. \A c \in Qualified!Claims : \E g \in Campaigns : \E x \in Qualified!CasesOf(g) : c = <<g, x>>
  BY DEF Qualified!Claims
<1>4. ASSUME NEW g \in Campaigns, NEW c \in Qualified!CasesOf(g), NEW s \in Qualified!Stages
      PROVE  <<g, c, s>> \in Qualified!Attempts
  <2>1. <<g, c>> \in Qualified!Claims /\ <<g, c>>[1] = g /\ <<g, c>>[2] = c
    BY <1>2
  <2> QED BY <2>1 DEF Qualified!Attempts
<1>5. ASSUME NEW k \in Qualified!Attempts
      PROVE  \E g \in Campaigns : \E c \in Qualified!CasesOf(g) : \E s \in Qualified!Stages : k = <<g, c, s>>
  <2>1. PICK c \in Qualified!Claims : \E s \in Qualified!Stages : k = <<c[1], c[2], s>>
    BY DEF Qualified!Attempts
  <2> QED BY <2>1, <1>3
<1>6. ASSUME NEW g \in Campaigns
      PROVE  1 \in DOMAIN FrozenSlots[g] /\ Len(FrozenSlots[g]) \in DOMAIN FrozenSlots[g]
             /\ DOMAIN FrozenSlots[g] = 1..Len(FrozenSlots[g]) /\ Len(FrozenSlots[g]) \in Nat
  <2>1. FrozenSlots[g] \in Seq(Qualified!CasesOf(g)) /\ FrozenSlots[g] # <<>>
    BY QualifiedAssumption
  <2> QED BY <2>1
<1> QED BY <1>1, <1>2, <1>3, <1>4, <1>5, <1>6 DEF QualifiedClaim, QualifiedKey

LEMMA QualifiedIdle ==
    ASSUME NEW g \in Campaigns
    PROVE  /\ Qualified!Idle \in Qualified!JobRecord /\ QualifiedJob(g, Qualified!Idle)
           /\ Qualified!Idle.pc = "IDLE" /\ Qualified!Idle.at = 1
           /\ [Qualified!Idle EXCEPT !.pc = "CLAIM"] \in Qualified!JobRecord
<1>1. 1 \in UNION {DOMAIN FrozenSlots[h] : h \in Campaigns} /\ 1 \in DOMAIN FrozenSlots[g]
  BY QualifiedKeys
<1>2. Qualified!Idle \in Qualified!JobRecord /\ Qualified!Idle.pc = "IDLE" /\ Qualified!Idle.at = 1
  BY <1>1 DEF Qualified!Idle, Qualified!JobRecord, Qualified!Steps, Qualified!Stages, Qualified!Verdicts
<1>3. [Qualified!Idle EXCEPT !.pc = "CLAIM"] \in Qualified!JobRecord
  BY <1>2 DEF Qualified!JobRecord, Qualified!Steps
<1> QED BY <1>1, <1>2, <1>3 DEF QualifiedJob, QualifiedActive

LEMMA QualifiedInit ==
    ASSUME Qualified!Init
    PROVE  QualifiedInv
<1>1. Qualified!TypeOK
  <2>1. job \in [Campaigns -> Qualified!JobRecord]
    BY QualifiedIdle DEF Qualified!Init
  <2> QED BY <2>1 DEF Qualified!Init, Qualified!TypeOK
<1>2. ASSUME NEW g \in Campaigns PROVE QualifiedPart(g)
  <2>1. QualifiedJob(g, job[g])
    BY QualifiedIdle DEF Qualified!Init
  <2>2. ASSUME NEW c \in Qualified!CasesOf(g)
        PROVE  QualifiedCase(g, c) /\ \A s \in Qualified!Stages : QualifiedAttempt(g, c, s)
    BY QualifiedKeys DEF Qualified!Init, QualifiedCase, QualifiedAttempt
  <2>3. result[g] # "PASS" /\ begun = {}
    BY DEF Qualified!Init
  <2> QED BY <2>1, <2>2, <2>3 DEF QualifiedPart
<1> QED BY <1>1, <1>2 DEF QualifiedInv

LEMMA QualifiedTypes ==
    ASSUME QualifiedInv, NEW g \in Campaigns
    PROVE  /\ Qualified!TypeOK /\ QualifiedPart(g) /\ QualifiedJob(g, job[g])
           /\ job \in [Campaigns -> Qualified!JobRecord] /\ job[g] \in Qualified!JobRecord
           /\ job[g].pc \in Qualified!Steps /\ job[g].stage \in Qualified!Stages /\ job[g].verdict \in Qualified!Verdicts
           /\ job[g].at \in DOMAIN FrozenSlots[g]
           /\ result \in [Campaigns -> {"NONE", "OPEN"} \cup Qualified!Verdicts]
           /\ claimed \in SUBSET Qualified!Claims /\ begun \in SUBSET Qualified!Attempts
           /\ sent \in [Qualified!Attempts -> Nat]
           /\ receipt \in [Qualified!Attempts -> {"NONE", "COMPLETE", "INCOMPLETE", "UNPRICED"}]
           /\ cost \in [Qualified!Attempts -> Nat]
           /\ fact \in [Qualified!Attempts -> {"NONE"} \cup Qualified!Verdicts]
           /\ outcome \in [Qualified!Claims -> {"NONE"} \cup Qualified!Verdicts]
<1>1. /\ Qualified!TypeOK /\ QualifiedPart(g) /\ QualifiedJob(g, job[g])
      /\ job \in [Campaigns -> Qualified!JobRecord] /\ job[g] \in Qualified!JobRecord
  BY DEF QualifiedInv, QualifiedPart, Qualified!TypeOK
<1>2. /\ job[g].pc \in Qualified!Steps /\ job[g].stage \in Qualified!Stages
      /\ job[g].verdict \in Qualified!Verdicts
  BY <1>1 DEF Qualified!JobRecord
<1> QED BY <1>1, <1>2 DEF QualifiedJob, Qualified!TypeOK

(* What the rows of campaign g say.                                        *)
QualifiedRows(g) ==
    /\ \A c \in Qualified!CasesOf(g) :
        /\ QualifiedCase(g, c)
        /\ \A s \in Qualified!Stages :
            /\ QualifiedAttempt(g, c, s)
            /\ result[g] = "NONE" => <<g, c, s>> \notin begun
    /\ result[g] = "PASS" => \A c \in Qualified!CasesOf(g) : outcome[<<g, c>>] = "PASS"

(* A step leaves the rows of campaign h alone.                             *)
QualifiedKeeps(h) ==
    /\ result'[h] = result[h]
    /\ \A c \in Qualified!CasesOf(h) :
        /\ <<h, c>> \in claimed' <=> <<h, c>> \in claimed
        /\ outcome'[<<h, c>>] = outcome[<<h, c>>]
        /\ \A s \in Qualified!Stages :
            /\ <<h, c, s>> \in begun' <=> <<h, c, s>> \in begun
            /\ sent'[<<h, c, s>>] = sent[<<h, c, s>>]
            /\ receipt'[<<h, c, s>>] = receipt[<<h, c, s>>]
            /\ fact'[<<h, c, s>>] = fact[<<h, c, s>>]

LEMMA QualifiedKept ==
    ASSUME NEW h \in Campaigns, QualifiedKeeps(h), NEW j \in Qualified!JobRecord
    PROVE  /\ QualifiedRows(h) => QualifiedRows(h)'
           /\ QualifiedJob(h, j) => QualifiedJob(h, j)'
<1>1. \A c \in Qualified!CasesOf(h) : \A s \in Qualified!Stages :
          /\ Qualified!Passed(<<h, c, s>>)' <=> Qualified!Passed(<<h, c, s>>)
          /\ QualifiedHides(h, c)' <=> QualifiedHides(h, c)
  BY DEF QualifiedKeeps, Qualified!Passed, QualifiedHides, Qualified!Stages
<1>2. ASSUME NEW c \in Qualified!CasesOf(h), QualifiedCase(h, c) PROVE QualifiedCase(h, c)'
  BY <1>2 DEF QualifiedCase, QualifiedKeeps, QualifiedHides, Qualified!Passed, Qualified!Stages
<1>3. ASSUME NEW c \in Qualified!CasesOf(h), NEW s \in Qualified!Stages, QualifiedAttempt(h, c, s)
      PROVE  QualifiedAttempt(h, c, s)'
  BY <1>1, <1>3 DEF QualifiedAttempt, QualifiedKeeps, Qualified!Stages
<1>4. QualifiedRows(h) => QualifiedRows(h)'
  BY <1>2, <1>3 DEF QualifiedRows, QualifiedKeeps
<1>5. ASSUME NEW n \in DOMAIN FrozenSlots[h]
      PROVE  /\ QualifiedClaim(h, n) \in claimed' <=> QualifiedClaim(h, n) \in claimed
             /\ outcome'[QualifiedClaim(h, n)] = outcome[QualifiedClaim(h, n)]
             /\ \A s \in Qualified!Stages :
                  /\ QualifiedKey(h, n, s) \in begun' <=> QualifiedKey(h, n, s) \in begun
                  /\ sent'[QualifiedKey(h, n, s)] = sent[QualifiedKey(h, n, s)]
                  /\ receipt'[QualifiedKey(h, n, s)] = receipt[QualifiedKey(h, n, s)]
                  /\ fact'[QualifiedKey(h, n, s)] = fact[QualifiedKey(h, n, s)]
  BY QualifiedKeys DEF QualifiedKeeps, QualifiedClaim, QualifiedKey
<1>6. QualifiedJob(h, j) => QualifiedJob(h, j)'
  <2>1. SUFFICES ASSUME QualifiedJob(h, j) PROVE QualifiedJob(h, j)'
    OBVIOUS
  <2>2. result'[h] = result[h] /\ j.at \in DOMAIN FrozenSlots[h]
    BY <2>1 DEF QualifiedKeeps, QualifiedJob
  <2>3. \A n \in DOMAIN FrozenSlots[h] : QualifiedHides(h, FrozenSlots[h][n])' <=> QualifiedHides(h, FrozenSlots[h][n])
    BY <1>5 DEF QualifiedHides, QualifiedKey, Qualified!Passed, Qualified!Stages
  <2>4. \A n \in DOMAIN FrozenSlots[h] : \A s \in Qualified!Stages :
            Qualified!Passed(QualifiedKey(h, n, s)) => Qualified!Passed(QualifiedKey(h, n, s))'
    BY <1>5 DEF Qualified!Passed
  <2>5. j.stage \in Qualified!Stages /\ {"ANALYST", "PLANNER"} = Qualified!Stages
    BY DEF Qualified!Stages, Qualified!JobRecord
  <2>6. \A s \in Qualified!Stages : 
          /\ QualifiedHides(h, FrozenSlots[h][j.at])' <=> QualifiedHides(h, FrozenSlots[h][j.at])
          /\ Qualified!Passed(QualifiedKey(h, j.at, s)) => Qualified!Passed(QualifiedKey(h, j.at, s))'
    BY <2>2, <2>3, <2>4
  <2> QED BY <1>5, <2>1, <2>2, <2>5, <2>6 DEF QualifiedJob, QualifiedActive
<1> QED BY <1>4, <1>6

(* One campaign moves on; the others keep what they have.                  *)
LEMMA QualifiedMoves ==
    ASSUME QualifiedInv, NEW g \in Campaigns, NEW j \in Qualified!JobRecord, job' = [job EXCEPT ![g] = j],
           Qualified!TypeOK', QualifiedRows(g)', QualifiedJob(g, j)',
           \A h \in Campaigns \ {g} : QualifiedKeeps(h)
    PROVE  QualifiedInv'
<1>1. ASSUME NEW h \in Campaigns PROVE QualifiedRows(h)' /\ QualifiedJob(h, job[h])'
  <2>1. PICK i \in Qualified!JobRecord : i = job'[h] /\ (h = g => i = j) /\ (h # g => i = job[h])
    BY QualifiedTypes
  <2>2. CASE h = g
    <3>1. QualifiedJob(g, i)'
      BY <2>1, <2>2
    <3> QED BY <2>1, <2>2, <3>1 DEF QualifiedJob, QualifiedHides, QualifiedKey, QualifiedClaim
  <2>3. CASE h # g
    <3>1. QualifiedRows(h) /\ QualifiedJob(h, i)
      BY <2>1, <2>3 DEF QualifiedInv, QualifiedPart, QualifiedRows
    <3>2. QualifiedRows(h)' /\ QualifiedJob(h, i)'
      BY <2>3, <3>1, QualifiedKept
    <3> QED BY <2>1, <3>2 DEF QualifiedJob, QualifiedHides, QualifiedKey, QualifiedClaim
  <2> QED BY <2>2, <2>3
<1>2. \A h \in Campaigns : QualifiedPart(h)'
  BY <1>1 DEF QualifiedPart, QualifiedRows
<1> QED BY <1>2 DEF QualifiedInv

-----------------------------------------------------------------------------
(* The steps of one campaign.                                              *)
LEMMA QualifiedRowsOf ==
    ASSUME QualifiedInv, NEW g \in Campaigns
    PROVE  /\ QualifiedRows(g)
           /\ \A c \in Qualified!CasesOf(g) : \A s \in Qualified!Stages :
                 QualifiedCase(g, c) /\ QualifiedAttempt(g, c, s)
BY DEF QualifiedInv, QualifiedPart, QualifiedRows

(* Before its request is sent a case hides none.                           *)
LEMMA QualifiedUnsent ==
    ASSUME QualifiedInv, NEW g \in Campaigns, job[g].pc \in {"CLAIM", "BEGIN", "SEND"}
    PROVE  ~QualifiedHides(g, FrozenSlots[g][job[g].at])
<1>1. PICK n \in DOMAIN FrozenSlots[g] : n = job[g].at
  BY QualifiedTypes
<1>2. PICK c \in Qualified!CasesOf(g) : c = FrozenSlots[g][n]
  BY QualifiedKeys
<1>3. \A s \in Qualified!Stages : QualifiedAttempt(g, c, s) /\ QualifiedKey(g, n, s) = <<g, c, s>>
  BY <1>2, QualifiedRowsOf DEF QualifiedKey
<1>4. QualifiedJob(g, job[g]) /\ job[g].stage \in Qualified!Stages
  BY QualifiedTypes
<1>5. \A s \in Qualified!Stages : <<g, c, s>> \notin begun => sent[<<g, c, s>>] = 0
  BY <1>3 DEF QualifiedAttempt
<1>6. "ANALYST" \in Qualified!Stages /\ "PLANNER" \in Qualified!Stages
  BY DEF Qualified!Stages
<1>7. CASE job[g].pc = "CLAIM"
  <2>1. \A s \in Qualified!Stages : <<g, c, s>> \notin begun
    BY <1>1, <1>3, <1>4, <1>7 DEF QualifiedJob
  <2> QED BY <2>1, <1>1, <1>2, <1>5, <1>6 DEF QualifiedHides
<1>8. CASE job[g].pc \in {"BEGIN", "SEND"} /\ job[g].stage = "ANALYST"
  <2>1. sent[<<g, c, "PLANNER">>] = 0 /\ sent[<<g, c, "ANALYST">>] = 0
    BY <1>1, <1>3, <1>4, <1>5, <1>6, <1>8 DEF QualifiedJob
  <2> QED BY <2>1, <1>1, <1>2 DEF QualifiedHides
<1>9. CASE job[g].pc \in {"BEGIN", "SEND"} /\ job[g].stage = "PLANNER"
  <2>1. sent[<<g, c, "PLANNER">>] = 0 /\ Qualified!Passed(<<g, c, "ANALYST">>)
    BY <1>1, <1>3, <1>4, <1>5, <1>6, <1>9 DEF QualifiedJob
  <2> QED BY <2>1, <1>1, <1>2 DEF QualifiedHides
<1> QED BY <1>4, <1>7, <1>8, <1>9 DEF Qualified!Stages

LEMMA QualifiedStays ==
    ASSUME QualifiedInv, NEW g \in Campaigns, NEW j \in Qualified!JobRecord, job' = [job EXCEPT ![g] = j],
           QualifiedJob(g, j), declared' \subseteq Campaigns, blocked' \subseteq Qualified!Claims,
           UNCHANGED <<result, claimed, begun, sent, receipt, cost, fact, outcome>>
    PROVE  QualifiedInv'
<1>1. \A h \in Campaigns : QualifiedKeeps(h)
  BY DEF QualifiedKeeps
<1>2. Qualified!TypeOK'
  <2>1. job' \in [Campaigns -> Qualified!JobRecord]
    BY QualifiedTypes
  <2> QED BY <2>1, QualifiedTypes DEF Qualified!TypeOK
<1>3. QualifiedRows(g)' /\ QualifiedJob(g, j)'
  BY <1>1, QualifiedRowsOf, QualifiedKept
<1> QED BY <1>1, <1>2, <1>3, QualifiedMoves

LEMMA QualifiedRests ==
    ASSUME QualifiedInv, NEW g \in Campaigns,
           \/ Qualified!EnsureCampaign(g) \/ Qualified!StopBeforeSend(g)
           \/ Qualified!RecordPreDispatchBlock(g) \/ Qualified!Crash(g)
    PROVE  QualifiedInv'
<1>0. PICK i \in Qualified!JobRecord : i = job[g] /\ QualifiedJob(g, i)
  BY QualifiedTypes
<1>1. /\ declared \subseteq Campaigns /\ blocked \subseteq Qualified!Claims
      /\ job \in [Campaigns -> Qualified!JobRecord]
  BY QualifiedTypes DEF Qualified!TypeOK
<1>2. CASE Qualified!EnsureCampaign(g)
  <2>1. declared' \subseteq Campaigns /\ UNCHANGED <<result, claimed, begun, sent, receipt, cost, fact, outcome, blocked, job>>
    BY <1>1, <1>2 DEF Qualified!EnsureCampaign, Qualified!claims, Qualified!attempts
  <2>2. job' = [job EXCEPT ![g] = i]
    BY <1>0, <1>1, <2>1
  <2> QED BY <1>0, <1>1, <2>1, <2>2, QualifiedStays
<1>3. CASE Qualified!StopBeforeSend(g)
  <2>1. PICK j \in Qualified!JobRecord : j = [i EXCEPT !.pc = "BLOCK", !.verdict = "BLOCKED"]
    BY DEF Qualified!JobRecord, Qualified!Steps, Qualified!Verdicts
  <2>2. i.pc = "BEGIN" /\ job' = [job EXCEPT ![g] = j]
        /\ UNCHANGED <<declared, result, claimed, begun, sent, receipt, cost, fact, outcome, blocked>>
    BY <1>0, <1>1, <1>3, <2>1 DEF Qualified!StopBeforeSend, Qualified!EndStage, Qualified!At, Qualified!project, Qualified!claims, Qualified!attempts
  <2>3. ~QualifiedHides(g, FrozenSlots[g][i.at])
    BY <1>0, <2>2, QualifiedUnsent
  <2>4. j.at = i.at /\ j.pc = "BLOCK" /\ j.verdict = "BLOCKED" /\ j.clean = i.clean
    BY <2>1 DEF Qualified!JobRecord
  <2>5. QualifiedJob(g, j)
    BY <1>0, <2>2, <2>3, <2>4 DEF QualifiedJob, QualifiedActive
  <2> QED BY <1>1, <2>2, <2>5, QualifiedStays
<1>4. CASE Qualified!RecordPreDispatchBlock(g)
  <2>1. PICK j \in Qualified!JobRecord : j = [i EXCEPT !.pc = "CLOSE"]
    BY DEF Qualified!JobRecord, Qualified!Steps
  <2>2. i.pc = "BLOCK" /\ job' = [job EXCEPT ![g] = j] /\ blocked' = blocked \cup {QualifiedClaim(g, i.at)}
        /\ UNCHANGED <<declared, result, claimed, begun, sent, receipt, cost, fact, outcome>>
    BY <1>0, <1>1, <1>4, <2>1 DEF Qualified!RecordPreDispatchBlock, Qualified!Goto, Qualified!At, Qualified!project,
           Qualified!attempts, Qualified!ClaimOf, QualifiedClaim
  <2>3. j.at = i.at /\ j.pc = "CLOSE" /\ j.verdict = i.verdict /\ j.clean = i.clean
    BY <2>1 DEF Qualified!JobRecord
  <2>4. QualifiedJob(g, j) /\ i.at \in DOMAIN FrozenSlots[g]
    BY <1>0, <2>2, <2>3 DEF QualifiedJob, QualifiedActive
  <2>5. blocked' \subseteq Qualified!Claims
    BY <1>1, <2>2, <2>4, QualifiedKeys
  <2> QED BY <1>1, <2>2, <2>4, <2>5, QualifiedStays
<1>5. CASE Qualified!Crash(g)
  <2>1. job' = [job EXCEPT ![g] = Qualified!Idle]
        /\ UNCHANGED <<declared, result, claimed, begun, sent, receipt, cost, fact, outcome, blocked>>
    BY <1>5 DEF Qualified!Crash, Qualified!project, Qualified!claims, Qualified!attempts
  <2> QED BY <1>1, <2>1, QualifiedIdle, QualifiedStays
<1> QED BY <1>2, <1>3, <1>4, <1>5

(* The step that opens the run, and the one that closes it.                *)
LEMMA QualifiedRuns ==
    ASSUME QualifiedInv, NEW g \in Campaigns, Qualified!BeginRunWithSlots(g) \/ Qualified!CloseRun(g)
    PROVE  QualifiedInv'
<1>0. PICK i \in Qualified!JobRecord : i = job[g] /\ QualifiedJob(g, i)
  BY QualifiedTypes
<1>1. /\ QualifiedRows(g) /\ job \in [Campaigns -> Qualified!JobRecord]
      /\ result \in [Campaigns -> {"NONE", "OPEN"} \cup Qualified!Verdicts]
  BY QualifiedTypes, QualifiedRowsOf
<1>2. UNCHANGED <<declared, claimed, begun, sent, receipt, cost, fact, outcome, blocked>>
  BY DEF Qualified!BeginRunWithSlots, Qualified!CloseRun, Qualified!claims, Qualified!attempts
<1>3. \E j \in Qualified!JobRecord : /\ job' = [job EXCEPT ![g] = j]
                                     /\ QualifiedJob(g, j)' /\ QualifiedRows(g)'
                                     /\ \E v \in {"OPEN"} \cup Qualified!Verdicts : result' = [result EXCEPT ![g] = v]
  <2>1. CASE Qualified!BeginRunWithSlots(g)
    <3>1. PICK j \in Qualified!JobRecord : j = [Qualified!Idle EXCEPT !.pc = "CLAIM"] /\ job' = [job EXCEPT ![g] = j]
      BY <2>1, QualifiedIdle DEF Qualified!BeginRunWithSlots
    <3>2. result[g] = "NONE" /\ result' = [result EXCEPT ![g] = "OPEN"] /\ result'[g] = "OPEN"
      BY <1>1, <2>1 DEF Qualified!BeginRunWithSlots, Qualified!MayBeginRun
    <3>3. \A n \in DOMAIN FrozenSlots[g] : \A s \in Qualified!Stages : QualifiedKey(g, n, s) \notin begun
      BY <1>1, <3>2, QualifiedKeys DEF QualifiedRows, QualifiedKey
    <3>4. j.pc = "CLAIM" /\ j.at = 1 /\ 1 \in DOMAIN FrozenSlots[g] /\ \A n \in DOMAIN FrozenSlots[g] : ~(n < 1)
      BY <3>1, QualifiedIdle, QualifiedKeys
    <3>5. QualifiedJob(g, j)'
      BY <1>2, <3>2, <3>3, <3>4 DEF QualifiedJob, QualifiedActive
    <3>6. ASSUME NEW c \in Qualified!CasesOf(g), NEW s \in Qualified!Stages
          PROVE  QualifiedCase(g, c)' /\ QualifiedAttempt(g, c, s)'
      BY <1>1, <1>2 DEF QualifiedRows, QualifiedCase, QualifiedAttempt, QualifiedHides, Qualified!Passed
    <3>7. QualifiedRows(g)'
      <4>1. "ANALYST" \in Qualified!Stages /\ result'[g] # "PASS" /\ result'[g] # "NONE"
        BY <3>2 DEF Qualified!Stages
      <4> QED BY <3>6, <4>1 DEF QualifiedRows
    <3> QED BY <3>1, <3>2, <3>5, <3>7
  <2>2. CASE Qualified!CloseRun(g)
    <3>1. i.pc = "END" /\ job' = [job EXCEPT ![g] = Qualified!Idle] /\ result[g] = "OPEN"
      BY <1>0, <2>2 DEF Qualified!CloseRun, Qualified!At, QualifiedJob
    <3>2. PICK v \in {"OPEN"} \cup Qualified!Verdicts : result' = [result EXCEPT ![g] = v] /\ (v = "PASS" => i.clean)
      <4>1. result' = [result EXCEPT ![g] = "OPEN"] \/ result' = [result EXCEPT ![g] = "FAILED"]
            \/ (i.clean /\ result' = [result EXCEPT ![g] = "PASS"])
        BY <1>0, <1>1, <2>2, <3>1 DEF Qualified!CloseRun
      <4> QED BY <4>1 DEF Qualified!Verdicts
    <3>3. result'[g] = v /\ v # "NONE"
      BY <1>1, <3>2 DEF Qualified!Verdicts
    <3>4. v = "PASS" => \A c \in Qualified!CasesOf(g) : outcome[<<g, c>>] = "PASS"
      <4>1. v = "PASS" => \A n \in DOMAIN FrozenSlots[g] : outcome[QualifiedClaim(g, n)] = "PASS"
        BY <1>0, <3>1, <3>2 DEF QualifiedJob, Qualified!JobRecord
      <4>2. ASSUME NEW c \in Qualified!CasesOf(g), v = "PASS" PROVE outcome[<<g, c>>] = "PASS"
        <5>1. PICK n \in DOMAIN FrozenSlots[g] : c = FrozenSlots[g][n]
          BY QualifiedKeys
        <5> QED BY <4>1, <4>2, <5>1 DEF QualifiedClaim
      <4> QED BY <4>2
    <3>5. ASSUME NEW c \in Qualified!CasesOf(g), NEW s \in Qualified!Stages
          PROVE  QualifiedCase(g, c)' /\ QualifiedAttempt(g, c, s)'
      BY <1>1, <1>2 DEF QualifiedRows, QualifiedCase, QualifiedAttempt, QualifiedHides, Qualified!Passed
    <3>6. QualifiedRows(g)'
      <4>1. "ANALYST" \in Qualified!Stages
        BY DEF Qualified!Stages
      <4> QED BY <1>2, <3>3, <3>4, <3>5, <4>1 DEF QualifiedRows
    <3>7. QualifiedJob(g, Qualified!Idle)'
      BY QualifiedIdle DEF QualifiedJob, QualifiedActive
    <3> QED BY <3>1, <3>2, <3>6, <3>7, QualifiedIdle
  <2> QED BY <2>1, <2>2
<1>4. PICK j \in Qualified!JobRecord :
        /\ job' = [job EXCEPT ![g] = j]
        /\ QualifiedJob(g, j)' /\ QualifiedRows(g)'
        /\ \E v \in {"OPEN"} \cup Qualified!Verdicts : result' = [result EXCEPT ![g] = v]
  BY <1>3
<1>5. \A h \in Campaigns \ {g} : QualifiedKeeps(h)
  BY <1>1, <1>2, <1>4 DEF QualifiedKeeps
<1>6. Qualified!TypeOK'
  <2>1. job' \in [Campaigns -> Qualified!JobRecord] /\ result' \in [Campaigns -> {"NONE", "OPEN"} \cup Qualified!Verdicts]
    BY <1>1, <1>4
  <2> QED BY <1>2, <2>1, QualifiedTypes DEF Qualified!TypeOK
<1> QED BY <1>4, <1>5, <1>6, QualifiedMoves

(* A claim, and the attempt that is begun, sent or received.               *)
LEMMA QualifiedClaims ==
    ASSUME QualifiedInv, NEW g \in Campaigns, Qualified!ClaimCase(g)
    PROVE  QualifiedInv'
<1>0. PICK i \in Qualified!JobRecord : i = job[g] /\ QualifiedJob(g, i)
  BY QualifiedTypes
<1>1. /\ QualifiedRows(g) /\ job \in [Campaigns -> Qualified!JobRecord] /\ i.at \in DOMAIN FrozenSlots[g]
      /\ claimed \in SUBSET Qualified!Claims
  BY <1>0, QualifiedTypes, QualifiedRowsOf
<1>2. PICK j \in Qualified!JobRecord :
          j = [i EXCEPT !.pc = IF i.hard THEN "BLOCK" ELSE "BEGIN", !.stage = "ANALYST", !.verdict = "BLOCKED"]
  BY DEF Qualified!JobRecord, Qualified!Steps, Qualified!Stages, Qualified!Verdicts
<1>3. /\ i.pc = "CLAIM" /\ outcome[QualifiedClaim(g, i.at)] = "NONE" /\ job' = [job EXCEPT ![g] = j]
      /\ claimed' = claimed \cup {QualifiedClaim(g, i.at)}
      /\ UNCHANGED <<declared, result, begun, sent, receipt, cost, fact, outcome, blocked>>
  BY <1>0, <1>1, <1>2 DEF Qualified!ClaimCase, Qualified!At, Qualified!ClaimOf, QualifiedClaim, Qualified!project, Qualified!attempts
<1>4. /\ j.at = i.at /\ j.pc \in {"BLOCK", "BEGIN"} /\ j.verdict = "BLOCKED" /\ j.stage = "ANALYST" /\ j.clean = i.clean
  BY <1>2 DEF Qualified!JobRecord
<1>5. ~QualifiedHides(g, FrozenSlots[g][i.at])
  BY <1>0, <1>3, QualifiedUnsent
<1>6. QualifiedClaim(g, i.at) \in Qualified!Claims
  BY <1>1, QualifiedKeys
<1>7. Qualified!TypeOK'
  <2>1. job' \in [Campaigns -> Qualified!JobRecord]
    BY <1>1, <1>3
  <2> QED BY <1>3, <1>6, <2>1, QualifiedTypes DEF Qualified!TypeOK
<1>8. QualifiedJob(g, j)'
  <2>1. \A s \in Qualified!Stages : QualifiedKey(g, i.at, s) \notin begun
    BY <1>0, <1>1, <1>3 DEF QualifiedJob
  <2>2. ~QualifiedHides(g, FrozenSlots[g][i.at])'
    BY <1>3, <1>5 DEF QualifiedHides, Qualified!Passed
  <2>3. "ANALYST" \in Qualified!Stages /\ "PLANNER" \in Qualified!Stages
    BY DEF Qualified!Stages
  <2> QED BY <1>0, <1>3, <1>4, <2>1, <2>2, <2>3 DEF QualifiedJob, QualifiedActive
<1>9. ASSUME NEW c \in Qualified!CasesOf(g), NEW s \in Qualified!Stages
      PROVE  QualifiedCase(g, c)' /\ QualifiedAttempt(g, c, s)'
  BY <1>1, <1>3 DEF QualifiedRows, QualifiedCase, QualifiedAttempt, QualifiedHides, Qualified!Passed
<1>10. QualifiedRows(g)'
  <2>1. "ANALYST" \in Qualified!Stages
    BY DEF Qualified!Stages
  <2> QED BY <1>1, <1>3, <1>9, <2>1 DEF QualifiedRows
<1>11. \A h \in Campaigns \ {g} : QualifiedKeeps(h)
  BY <1>3 DEF QualifiedKeeps, QualifiedClaim
<1> QED BY <1>3, <1>7, <1>8, <1>10, <1>11, QualifiedMoves

LEMMA QualifiedBegins ==
    ASSUME QualifiedInv, NEW g \in Campaigns, Qualified!BeginDispatch(g)
    PROVE  QualifiedInv'
<1>0. PICK i \in Qualified!JobRecord : i = job[g] /\ QualifiedJob(g, i)
  BY QualifiedTypes
<1>1. /\ QualifiedRows(g) /\ job \in [Campaigns -> Qualified!JobRecord] /\ i.stage \in Qualified!Stages
      /\ begun \in SUBSET Qualified!Attempts
  BY <1>0, QualifiedTypes, QualifiedRowsOf
<1>2. PICK n \in DOMAIN FrozenSlots[g] : n = i.at
  BY <1>0 DEF QualifiedJob
<1>3. PICK x \in Qualified!CasesOf(g) : x = FrozenSlots[g][n]
  BY QualifiedKeys
<1>4. PICK k \in Qualified!Attempts : k = QualifiedKey(g, n, i.stage) /\ k = <<g, x, i.stage>>
  BY <1>1, <1>2, <1>3, QualifiedKeys DEF QualifiedKey
<1>5. PICK j \in Qualified!JobRecord : j = [i EXCEPT !.pc = "SEND"]
  BY DEF Qualified!JobRecord, Qualified!Steps
<1>6. /\ i.pc = "BEGIN" /\ result[g] = "OPEN" /\ job' = [job EXCEPT ![g] = j] /\ begun' = begun \cup {k}
      /\ UNCHANGED <<declared, result, claimed, sent, receipt, cost, fact, outcome, blocked>>
      /\ i.stage = "PLANNER" => Qualified!Passed(<<g, x, "ANALYST">>)
  BY <1>0, <1>2, <1>3, <1>4, <1>5 DEF Qualified!BeginDispatch, Qualified!MayBegin, Qualified!IsLive, Qualified!At,
         Qualified!AttemptOf, Qualified!Attempt, Qualified!ClaimOf, Qualified!Goto, Qualified!project, Qualified!claims
<1>7. /\ j.at = n /\ j.pc = "SEND" /\ j.stage = i.stage /\ j.clean = i.clean
  BY <1>2, <1>5 DEF Qualified!JobRecord
<1>8. k \notin begun /\ sent[k] = 0 /\ fact[k] = "NONE" /\ <<g, x>> \in claimed
  <2>1. k \notin begun /\ <<g, x>> \in claimed
    BY <1>0, <1>2, <1>3, <1>4, <1>6 DEF QualifiedJob, QualifiedActive, QualifiedClaim
  <2>2. QualifiedAttempt(g, x, i.stage)
    BY <1>1 DEF QualifiedRows
  <2> QED BY <1>4, <2>1, <2>2 DEF QualifiedAttempt
<1>9. Qualified!TypeOK'
  <2>1. job' \in [Campaigns -> Qualified!JobRecord]
    BY <1>1, <1>6
  <2> QED BY <1>6, <2>1, QualifiedTypes DEF Qualified!TypeOK
<1>10. QualifiedJob(g, j)'
  <2>1. \A m \in DOMAIN FrozenSlots[g] : \A s \in Qualified!Stages :
            (QualifiedKey(g, m, s) \in begun' /\ QualifiedKey(g, m, s) \notin begun) => m = n /\ s = i.stage
    BY <1>4, <1>6, QualifiedAssumption DEF QualifiedKey
  <2>2. "ANALYST" \in Qualified!Stages /\ "PLANNER" \in Qualified!Stages /\ n \in Nat
    BY QualifiedKeys DEF Qualified!Stages
  <2>3. \A m \in DOMAIN FrozenSlots[g] : \A s \in Qualified!Stages : m > n => QualifiedKey(g, m, s) \notin begun'
    BY <1>0, <1>2, <1>6, <2>1, <2>2 DEF QualifiedJob
  <2>4. i.stage = "ANALYST" => QualifiedKey(g, n, "PLANNER") \notin begun'
    BY <1>0, <1>2, <1>6, <2>1, <2>2 DEF QualifiedJob
  <2>5. i.stage = "PLANNER" => Qualified!Passed(QualifiedKey(g, n, "ANALYST"))'
    BY <1>3, <1>6 DEF Qualified!Passed, QualifiedKey
  <2> QED BY <1>0, <1>2, <1>4, <1>6, <1>7, <1>8, <2>3, <2>4, <2>5 DEF QualifiedJob, QualifiedActive
<1>11. ASSUME NEW c \in Qualified!CasesOf(g), NEW s \in Qualified!Stages
       PROVE  QualifiedCase(g, c)' /\ QualifiedAttempt(g, c, s)'
  <2>1. QualifiedCase(g, c) /\ QualifiedAttempt(g, c, s)
    BY <1>1 DEF QualifiedRows
  <2>2. QualifiedCase(g, c)'
    BY <1>6, <2>1 DEF QualifiedCase, QualifiedHides, Qualified!Passed
  <2>3. <<g, c, s>> \in begun' => <<g, c, s>> \in begun \/ (c = x /\ s = i.stage)
    BY <1>4, <1>6
  <2>4. QualifiedAttempt(g, c, s)'
    BY <1>4, <1>6, <1>8, <2>1, <2>3 DEF QualifiedAttempt, Qualified!Passed
  <2> QED BY <2>2, <2>4
<1>12. QualifiedRows(g)'
  <2>1. "ANALYST" \in Qualified!Stages /\ result'[g] # "NONE" /\ result'[g] # "PASS"
    BY <1>6 DEF Qualified!Stages
  <2> QED BY <1>11, <2>1 DEF QualifiedRows
<1>13. \A h \in Campaigns \ {g} : QualifiedKeeps(h)
  BY <1>4, <1>6 DEF QualifiedKeeps
<1> QED BY <1>6, <1>9, <1>10, <1>12, <1>13, QualifiedMoves

(* The case and the attempt a process has in hand.                         *)
LEMMA QualifiedWorks ==
    ASSUME QualifiedInv, NEW g \in Campaigns
    PROVE  \E i \in Qualified!JobRecord : \E n \in DOMAIN FrozenSlots[g] : \E x \in Qualified!CasesOf(g) :
           \E k \in Qualified!Attempts :
              /\ i = job[g] /\ QualifiedJob(g, i) /\ i.stage \in Qualified!Stages
              /\ n = i.at /\ x = FrozenSlots[g][n] /\ Qualified!ClaimOf(g) = <<g, x>> /\ QualifiedClaim(g, n) = <<g, x>>
              /\ k = QualifiedKey(g, n, i.stage) /\ k = <<g, x, i.stage>> /\ Qualified!AttemptOf(g) = k
              /\ QualifiedAttempt(g, x, i.stage)
<1>0. PICK i \in Qualified!JobRecord : i = job[g] /\ QualifiedJob(g, i) /\ i.stage \in Qualified!Stages
  BY QualifiedTypes
<1>1. PICK n \in DOMAIN FrozenSlots[g] : n = i.at
  BY <1>0 DEF QualifiedJob
<1>2. PICK x \in Qualified!CasesOf(g) : x = FrozenSlots[g][n]
  BY QualifiedKeys
<1>3. PICK k \in Qualified!Attempts : k = QualifiedKey(g, n, i.stage) /\ k = <<g, x, i.stage>>
  BY <1>0, <1>1, <1>2, QualifiedKeys DEF QualifiedKey
<1>4. Qualified!ClaimOf(g) = <<g, x>> /\ QualifiedClaim(g, n) = <<g, x>> /\ Qualified!AttemptOf(g) = k
  BY <1>0, <1>1, <1>2, <1>3 DEF Qualified!ClaimOf, Qualified!AttemptOf, Qualified!Attempt, QualifiedClaim
<1>5. QualifiedAttempt(g, x, i.stage)
  BY <1>0, QualifiedRowsOf
<1> QED BY <1>0, <1>1, <1>2, <1>3, <1>4, <1>5

(* A step that writes of one attempt in hand what its process knows.       *)
LEMMA QualifiedWrites ==
    ASSUME QualifiedInv, NEW g \in Campaigns, NEW i \in Qualified!JobRecord, NEW n \in DOMAIN FrozenSlots[g],
           NEW x \in Qualified!CasesOf(g), NEW k \in Qualified!Attempts, NEW j \in Qualified!JobRecord,
           i = job[g], n = i.at, x = FrozenSlots[g][n], k = QualifiedKey(g, n, i.stage), k = <<g, x, i.stage>>,
           i.stage \in Qualified!Stages, i.pc \in {"SEND", "AWAIT", "JUDGE"}, job' = [job EXCEPT ![g] = j],
           UNCHANGED <<declared, result, claimed, begun, blocked, outcome>>,
           \E m \in Nat : sent' = [sent EXCEPT ![k] = m],
           \E v \in {"NONE", "COMPLETE", "INCOMPLETE", "UNPRICED"} : receipt' = [receipt EXCEPT ![k] = v],
           cost' \in [Qualified!Attempts -> Nat],
           \E v \in {"NONE"} \cup Qualified!Verdicts : fact' = [fact EXCEPT ![k] = v],
           QualifiedAttempt(g, x, i.stage)', QualifiedJob(g, j)'
    PROVE  QualifiedInv'
<1>1. /\ QualifiedJob(g, i) /\ QualifiedRows(g) /\ job \in [Campaigns -> Qualified!JobRecord]
      /\ sent \in [Qualified!Attempts -> Nat]
      /\ receipt \in [Qualified!Attempts -> {"NONE", "COMPLETE", "INCOMPLETE", "UNPRICED"}]
      /\ fact \in [Qualified!Attempts -> {"NONE"} \cup Qualified!Verdicts]
  BY QualifiedTypes, QualifiedRowsOf
<1>2. Qualified!TypeOK'
  <2>1. /\ job' \in [Campaigns -> Qualified!JobRecord] /\ sent' \in [Qualified!Attempts -> Nat]
        /\ receipt' \in [Qualified!Attempts -> {"NONE", "COMPLETE", "INCOMPLETE", "UNPRICED"}]
        /\ fact' \in [Qualified!Attempts -> {"NONE"} \cup Qualified!Verdicts]
    BY <1>1
  <2> QED BY <2>1, QualifiedTypes DEF Qualified!TypeOK
<1>3. \A l \in Qualified!Attempts : l # k => sent'[l] = sent[l] /\ receipt'[l] = receipt[l] /\ fact'[l] = fact[l]
  BY <1>1
<1>4. /\ k \in begun /\ fact[k] = "NONE" /\ outcome[<<g, x>>] = "NONE"
      /\ i.stage = "ANALYST" => <<g, x, "PLANNER">> \notin begun
  BY <1>1 DEF QualifiedJob, QualifiedActive, QualifiedClaim, QualifiedKey
<1>5. ASSUME NEW c \in Qualified!CasesOf(g), NEW s \in Qualified!Stages
      PROVE  QualifiedCase(g, c)' /\ QualifiedAttempt(g, c, s)'
  <2>1. /\ QualifiedCase(g, c) /\ QualifiedAttempt(g, c, s)
        /\ \A t \in Qualified!Stages : <<g, c, t>> \in Qualified!Attempts
    BY <1>1, QualifiedKeys DEF QualifiedRows
  <2>2. \A t \in Qualified!Stages : c # x =>
            /\ sent'[<<g, c, t>>] = sent[<<g, c, t>>]
            /\ receipt'[<<g, c, t>>] = receipt[<<g, c, t>>] /\ fact'[<<g, c, t>>] = fact[<<g, c, t>>]
    BY <1>3, <2>1
  <2>3. "ANALYST" \in Qualified!Stages /\ "PLANNER" \in Qualified!Stages
    BY DEF Qualified!Stages
  <2>4. CASE c # x
    BY <2>1, <2>2, <2>3, <2>4 DEF QualifiedCase, QualifiedAttempt, QualifiedHides, Qualified!Passed
  <2>5. CASE c = x
    <3>1. QualifiedCase(g, c)'
      BY <1>4, <2>5 DEF QualifiedCase
    <3>2. CASE s = i.stage
      BY <2>5, <3>1, <3>2
    <3>3. CASE s # i.stage
      <4>1. /\ sent'[<<g, c, s>>] = sent[<<g, c, s>>]
            /\ receipt'[<<g, c, s>>] = receipt[<<g, c, s>>] /\ fact'[<<g, c, s>>] = fact[<<g, c, s>>]
        BY <1>3, <2>1, <3>3
      <4>2. s = "PLANNER" => <<g, c, s>> \notin begun
        BY <1>4, <2>5, <3>3 DEF Qualified!Stages
      <4>3. QualifiedAttempt(g, c, s)'
        BY <2>1, <4>1, <4>2 DEF QualifiedAttempt
      <4> QED BY <3>1, <4>3
    <3> QED BY <3>2, <3>3
  <2> QED BY <2>4, <2>5
<1>6. QualifiedRows(g)'
  <2>1. "ANALYST" \in Qualified!Stages /\ result[g] = "OPEN" /\ result'[g] = "OPEN"
    BY <1>1 DEF Qualified!Stages, QualifiedJob
  <2> QED BY <1>5, <2>1 DEF QualifiedRows
<1>7. ASSUME NEW h \in Campaigns \ {g} PROVE QualifiedKeeps(h)
  <2>1. \A c \in Qualified!CasesOf(h) : \A s \in Qualified!Stages :
            <<h, c, s>> \in Qualified!Attempts /\ <<h, c, s>> # k
    <3>1. \A c \in Qualified!CasesOf(h) : \A s \in Qualified!Stages : <<h, c, s>> \in Qualified!Attempts
      BY QualifiedKeys
    <3>2. \A c, s : <<h, c, s>> # k
      OBVIOUS
    <3> QED BY <3>1, <3>2
  <2> QED BY <1>3, <2>1 DEF QualifiedKeeps
<1> QED BY <1>2, <1>6, <1>7, QualifiedMoves

LEMMA QualifiedSends ==
    ASSUME QualifiedInv, NEW g \in Campaigns, Qualified!SendRequest(g)
    PROVE  QualifiedInv'
<1>1. PICK i \in Qualified!JobRecord, n \in DOMAIN FrozenSlots[g], x \in Qualified!CasesOf(g), k \in Qualified!Attempts :
        /\ i = job[g] /\ QualifiedJob(g, i) /\ i.stage \in Qualified!Stages
        /\ n = i.at /\ x = FrozenSlots[g][n]
        /\ k = QualifiedKey(g, n, i.stage) /\ k = <<g, x, i.stage>> /\ Qualified!AttemptOf(g) = k
        /\ QualifiedAttempt(g, x, i.stage)
  BY QualifiedWorks
<1>2. PICK j \in Qualified!JobRecord : j = [i EXCEPT !.pc = "AWAIT"]
  BY DEF Qualified!JobRecord, Qualified!Steps
<1>3. /\ i.pc = "SEND" /\ job' = [job EXCEPT ![g] = j] /\ sent' = [sent EXCEPT ![k] = sent[k] + 1]
      /\ UNCHANGED <<declared, result, claimed, begun, receipt, cost, fact, outcome, blocked>>
  BY <1>1, <1>2, QualifiedTypes DEF Qualified!SendRequest, Qualified!At, Qualified!Goto, Qualified!project, Qualified!claims
<1>4. sent[k] = 0 /\ fact[k] = "NONE" /\ k \in begun
  BY <1>1, <1>3 DEF QualifiedJob
<1>5. sent' = [sent EXCEPT ![k] = 1] /\ sent'[k] = 1
  BY <1>3, <1>4, QualifiedTypes
<1>6. j.at = n /\ j.pc = "AWAIT" /\ j.stage = i.stage /\ j.clean = i.clean
  BY <1>1, <1>2 DEF Qualified!JobRecord
<1>7. QualifiedAttempt(g, x, i.stage)'
  BY <1>1, <1>3, <1>4, <1>5 DEF QualifiedAttempt, Qualified!Passed
<1>8. i.stage = "PLANNER" => Qualified!Passed(QualifiedKey(g, n, "ANALYST"))'
  BY <1>1, <1>3 DEF QualifiedJob, Qualified!Passed
<1>9. QualifiedJob(g, j)'
  BY <1>1, <1>3, <1>4, <1>5, <1>6, <1>8 DEF QualifiedJob, QualifiedActive
<1>10. /\ receipt' = [receipt EXCEPT ![k] = receipt[k]] /\ fact' = [fact EXCEPT ![k] = fact[k]]
       /\ receipt[k] \in {"NONE", "COMPLETE", "INCOMPLETE", "UNPRICED"} /\ fact[k] \in {"NONE"} \cup Qualified!Verdicts
       /\ cost' \in [Qualified!Attempts -> Nat]
  BY <1>3, QualifiedTypes
<1>11. /\ \E m \in Nat : sent' = [sent EXCEPT ![k] = m]
       /\ \E v \in {"NONE", "COMPLETE", "INCOMPLETE", "UNPRICED"} : receipt' = [receipt EXCEPT ![k] = v]
       /\ \E v \in {"NONE"} \cup Qualified!Verdicts : fact' = [fact EXCEPT ![k] = v]
  BY <1>5, <1>10
<1> QED BY <1>1, <1>3, <1>7, <1>9, <1>10, <1>11, QualifiedWrites

LEMMA QualifiedReceives ==
    ASSUME QualifiedInv, NEW g \in Campaigns, Qualified!AppendReceipt(g)
    PROVE  QualifiedInv'
<1>1. PICK i \in Qualified!JobRecord, n \in DOMAIN FrozenSlots[g], x \in Qualified!CasesOf(g), k \in Qualified!Attempts :
        /\ i = job[g] /\ QualifiedJob(g, i) /\ i.stage \in Qualified!Stages
        /\ n = i.at /\ x = FrozenSlots[g][n]
        /\ k = QualifiedKey(g, n, i.stage) /\ k = <<g, x, i.stage>> /\ Qualified!AttemptOf(g) = k
        /\ QualifiedAttempt(g, x, i.stage)
  BY QualifiedWorks
<1>2. PICK v \in {"COMPLETE", "INCOMPLETE", "UNPRICED"}, c \in {0, 1}, drift \in BOOLEAN :
        /\ receipt' = [receipt EXCEPT ![k] = v] /\ cost' = [cost EXCEPT ![k] = c]
        /\ job' = [job EXCEPT ![g].pc = "JUDGE", ![g].drift = @ \/ drift]
  BY <1>1 DEF Qualified!AppendReceipt
<1>3. PICK j \in Qualified!JobRecord : j = [i EXCEPT !.pc = "JUDGE", !.drift = @ \/ drift]
  BY DEF Qualified!JobRecord, Qualified!Steps
<1>4. /\ i.pc = "AWAIT" /\ job' = [job EXCEPT ![g] = j] /\ receipt[k] = "NONE"
      /\ UNCHANGED <<declared, result, claimed, begun, sent, fact, outcome, blocked>>
  BY <1>1, <1>2, <1>3, QualifiedTypes DEF Qualified!AppendReceipt, Qualified!At, Qualified!project, Qualified!claims
<1>5. sent[k] = 1 /\ fact[k] = "NONE" /\ k \in begun
  BY <1>1, <1>4 DEF QualifiedJob
<1>6. j.at = n /\ j.pc = "JUDGE" /\ j.stage = i.stage /\ j.clean = i.clean
  BY <1>1, <1>3 DEF Qualified!JobRecord
<1>7. /\ \A l \in Qualified!Attempts : l # k => receipt'[l] = receipt[l]
      /\ sent' = [sent EXCEPT ![k] = 1] /\ fact' = [fact EXCEPT ![k] = "NONE"]
      /\ cost' \in [Qualified!Attempts -> Nat]
  BY <1>2, <1>4, <1>5, QualifiedTypes
<1>8. /\ QualifiedKey(g, n, "ANALYST") \in Qualified!Attempts
      /\ i.stage = "PLANNER" => QualifiedKey(g, n, "ANALYST") # k
  <2>1. QualifiedKey(g, n, "ANALYST") \in Qualified!Attempts
    BY QualifiedKeys DEF Qualified!Stages
  <2>2. ASSUME i.stage = "PLANNER" PROVE QualifiedKey(g, n, "ANALYST") # k
    BY <1>1, <2>2 DEF QualifiedKey
  <2> QED BY <2>1, <2>2
<1>9. i.stage = "PLANNER" => Qualified!Passed(QualifiedKey(g, n, "ANALYST"))'
  BY <1>1, <1>4, <1>7, <1>8 DEF QualifiedJob, Qualified!Passed
<1>10. QualifiedAttempt(g, x, i.stage)'
  <2>1. i.stage = "PLANNER" => Qualified!Passed(<<g, x, "ANALYST">>)'
    BY <1>1, <1>9 DEF Qualified!Passed, QualifiedKey
  <2> QED BY <1>1, <1>4, <1>5, <2>1 DEF QualifiedAttempt
<1>11. QualifiedJob(g, j)'
  BY <1>1, <1>4, <1>5, <1>6, <1>9 DEF QualifiedJob, QualifiedActive
<1>12. /\ \E m \in Nat : sent' = [sent EXCEPT ![k] = m]
       /\ \E u \in {"NONE", "COMPLETE", "INCOMPLETE", "UNPRICED"} : receipt' = [receipt EXCEPT ![k] = u]
       /\ \E u \in {"NONE"} \cup Qualified!Verdicts : fact' = [fact EXCEPT ![k] = u]
  BY <1>2, <1>7
<1> QED BY <1>1, <1>4, <1>7, <1>10, <1>11, <1>12, QualifiedWrites

LEMMA QualifiedJudges ==
    ASSUME QualifiedInv, NEW g \in Campaigns, Qualified!AppendValidation(g)
    PROVE  QualifiedInv'
<1>1. PICK i \in Qualified!JobRecord, n \in DOMAIN FrozenSlots[g], x \in Qualified!CasesOf(g), k \in Qualified!Attempts :
        /\ i = job[g] /\ QualifiedJob(g, i) /\ i.stage \in Qualified!Stages
        /\ n = i.at /\ x = FrozenSlots[g][n]
        /\ k = QualifiedKey(g, n, i.stage) /\ k = <<g, x, i.stage>> /\ Qualified!AttemptOf(g) = k
        /\ QualifiedAttempt(g, x, i.stage)
  BY QualifiedWorks
<1>2. PICK v \in Qualified!Verdicts :
        /\ v = "BLOCKED" <=> i.pc = "SEND"
        /\ v = "FAILED" => i.pc \in {"AWAIT", "JUDGE"}
        /\ v = "PASS" => i.pc = "JUDGE"
        /\ Qualified!MayRecord(k, v) /\ fact' = [fact EXCEPT ![k] = v]
        /\ CASE v = "BLOCKED" -> Qualified!EndStage(g, "BLOCK", v)
             [] v = "PASS" /\ job[g].stage = "ANALYST" ->
                    job' = [job EXCEPT ![g].pc = "BEGIN", ![g].stage = "PLANNER"]
             [] OTHER -> Qualified!EndStage(g, "CLOSE", v)
  BY <1>1 DEF Qualified!AppendValidation, Qualified!At
<1>3. UNCHANGED <<declared, result, claimed, begun, sent, receipt, cost, outcome, blocked>>
  BY DEF Qualified!AppendValidation, Qualified!project, Qualified!claims
<1>4. i.pc \in {"SEND", "AWAIT", "JUDGE"} /\ fact[k] = "NONE" /\ (v = "PASS" => receipt[k] = "COMPLETE")
  BY <1>2 DEF Qualified!MayRecord, Qualified!Verdicts
<1>5. /\ k \in begun /\ fact'[k] = v /\ (v = "BLOCKED" => sent[k] = 0)
      /\ \A l \in Qualified!Attempts : l # k => fact'[l] = fact[l]
  <2>1. k \in begun /\ (i.pc = "SEND" => sent[k] = 0)
    BY <1>1, <1>4 DEF QualifiedJob
  <2>2. v = "BLOCKED" => i.pc = "SEND"
    BY <1>2
  <2>3. fact'[k] = v /\ \A l \in Qualified!Attempts : l # k => fact'[l] = fact[l]
    BY <1>2, QualifiedTypes
  <2> QED BY <2>1, <2>2, <2>3
<1>6. /\ QualifiedKey(g, n, "ANALYST") \in Qualified!Attempts /\ QualifiedKey(g, n, "ANALYST") = <<g, x, "ANALYST">>
      /\ i.stage = "PLANNER" => QualifiedKey(g, n, "ANALYST") # k
      /\ i.stage = "ANALYST" => QualifiedKey(g, n, "ANALYST") = k
  <2>1. QualifiedKey(g, n, "ANALYST") = <<g, x, "ANALYST">> /\ "ANALYST" \in Qualified!Stages
    BY <1>1 DEF QualifiedKey, Qualified!Stages
  <2>2. QualifiedKey(g, n, "ANALYST") \in Qualified!Attempts
    BY <2>1, QualifiedKeys
  <2> QED BY <1>1, <2>1, <2>2
<1>7. (i.stage = "PLANNER" \/ v = "PASS") => Qualified!Passed(<<g, x, "ANALYST">>)'
  <2>1. CASE i.stage = "PLANNER"
    <3>1. Qualified!Passed(<<g, x, "ANALYST">>) /\ fact'[<<g, x, "ANALYST">>] = fact[<<g, x, "ANALYST">>]
      BY <1>1, <1>4, <1>5, <1>6, <2>1 DEF QualifiedJob
    <3> QED BY <1>3, <3>1 DEF Qualified!Passed
  <2>2. CASE i.stage = "ANALYST" /\ v = "PASS"
    BY <1>3, <1>4, <1>5, <1>6, <2>2 DEF Qualified!Passed
  <2> QED BY <1>1, <2>1, <2>2 DEF Qualified!Stages
<1>8. QualifiedAttempt(g, x, i.stage)'
  BY <1>1, <1>3, <1>4, <1>5, <1>7 DEF QualifiedAttempt
<1>9. v = "BLOCKED" => ~QualifiedHides(g, x)'
  <2>1. v = "BLOCKED" => i.pc = "SEND" /\ ~QualifiedHides(g, x)
    BY <1>1, <1>2, QualifiedUnsent
  <2>2. Qualified!Passed(<<g, x, "ANALYST">>) => Qualified!Passed(<<g, x, "ANALYST">>)'
    <3>1. Qualified!Passed(<<g, x, "ANALYST">>) => <<g, x, "ANALYST">> # k
      BY <1>4 DEF Qualified!Passed
    <3> QED BY <1>3, <1>5, <1>6, <3>1 DEF Qualified!Passed
  <2> QED BY <1>3, <2>1, <2>2 DEF QualifiedHides
<1>10. \E j \in Qualified!JobRecord :
        /\ job' = [job EXCEPT ![g] = j] /\ j.at = n /\ j.clean = i.clean
        /\ \/ j.pc = "BLOCK" /\ v = "BLOCKED" /\ j.verdict = v
           \/ j.pc = "CLOSE" /\ j.verdict = v /\ v # "BLOCKED"
           \/ j.pc = "BEGIN" /\ j.stage = "PLANNER" /\ i.stage = "ANALYST" /\ v = "PASS"
  <2>1. job \in [Campaigns -> Qualified!JobRecord]
    BY QualifiedTypes
  <2>2. CASE v = "BLOCKED"
    <3>1. PICK j \in Qualified!JobRecord : j = [i EXCEPT !.pc = "BLOCK", !.verdict = v]
      BY DEF Qualified!JobRecord, Qualified!Steps
    <3>2. job' = [job EXCEPT ![g] = j]
      BY <1>1, <1>2, <2>1, <2>2, <3>1 DEF Qualified!EndStage
    <3>3. j.at = n /\ j.clean = i.clean /\ j.pc = "BLOCK" /\ j.verdict = v
      BY <1>1, <3>1 DEF Qualified!JobRecord
    <3> QED BY <2>2, <3>2, <3>3
  <2>3. CASE v = "PASS" /\ i.stage = "ANALYST"
    <3>1. PICK j \in Qualified!JobRecord : j = [i EXCEPT !.pc = "BEGIN", !.stage = "PLANNER"]
      BY DEF Qualified!JobRecord, Qualified!Steps, Qualified!Stages
    <3>2. job' = [job EXCEPT ![g] = j]
      BY <1>1, <1>2, <2>1, <2>3, <3>1
    <3>3. j.at = n /\ j.clean = i.clean /\ j.pc = "BEGIN" /\ j.stage = "PLANNER"
      BY <1>1, <3>1 DEF Qualified!JobRecord
    <3> QED BY <2>3, <3>2, <3>3
  <2>4. CASE v # "BLOCKED" /\ ~(v = "PASS" /\ i.stage = "ANALYST")
    <3>1. PICK j \in Qualified!JobRecord : j = [i EXCEPT !.pc = "CLOSE", !.verdict = v]
      BY DEF Qualified!JobRecord, Qualified!Steps
    <3>2. job' = [job EXCEPT ![g] = j]
      BY <1>1, <1>2, <2>1, <2>4, <3>1 DEF Qualified!EndStage
    <3>3. j.at = n /\ j.clean = i.clean /\ j.pc = "CLOSE" /\ j.verdict = v
      BY <1>1, <3>1 DEF Qualified!JobRecord
    <3> QED BY <2>4, <3>2, <3>3
  <2> QED BY <2>2, <2>3, <2>4
<1>11. PICK j \in Qualified!JobRecord :
        /\ job' = [job EXCEPT ![g] = j] /\ j.at = n /\ j.clean = i.clean
        /\ \/ j.pc = "BLOCK" /\ v = "BLOCKED" /\ j.verdict = v
           \/ j.pc = "CLOSE" /\ j.verdict = v /\ v # "BLOCKED"
           \/ j.pc = "BEGIN" /\ j.stage = "PLANNER" /\ i.stage = "ANALYST" /\ v = "PASS"
  BY <1>10
<1>12. QualifiedJob(g, j)'
  BY <1>1, <1>3, <1>4, <1>6, <1>7, <1>9, <1>11 DEF QualifiedJob, QualifiedActive
<1>13. /\ sent' = [sent EXCEPT ![k] = sent[k]] /\ receipt' = [receipt EXCEPT ![k] = receipt[k]]
       /\ sent[k] \in Nat /\ receipt[k] \in {"NONE", "COMPLETE", "INCOMPLETE", "UNPRICED"}
       /\ cost' \in [Qualified!Attempts -> Nat]
  BY <1>3, QualifiedTypes
<1>14. /\ \E m \in Nat : sent' = [sent EXCEPT ![k] = m]
       /\ \E u \in {"NONE", "COMPLETE", "INCOMPLETE", "UNPRICED"} : receipt' = [receipt EXCEPT ![k] = u]
       /\ \E u \in {"NONE"} \cup Qualified!Verdicts : fact' = [fact EXCEPT ![k] = u]
  BY <1>2, <1>13
<1> QED BY <1>1, <1>3, <1>4, <1>8, <1>11, <1>12, <1>13, <1>14, QualifiedWrites

LEMMA QualifiedCloses ==
    ASSUME QualifiedInv, NEW g \in Campaigns, Qualified!CloseCase(g)
    PROVE  QualifiedInv'
<1>1. PICK i \in Qualified!JobRecord, n \in DOMAIN FrozenSlots[g], x \in Qualified!CasesOf(g) :
        /\ i = job[g] /\ QualifiedJob(g, i) /\ n = i.at /\ x = FrozenSlots[g][n]
        /\ Qualified!ClaimOf(g) = <<g, x>> /\ QualifiedClaim(g, n) = <<g, x>>
  BY QualifiedWorks
<1>2. /\ QualifiedRows(g) /\ job \in [Campaigns -> Qualified!JobRecord] /\ i.verdict \in Qualified!Verdicts
      /\ outcome \in [Qualified!Claims -> {"NONE"} \cup Qualified!Verdicts]
  BY <1>1, QualifiedTypes, QualifiedRowsOf
<1>3. /\ i.pc = "CLOSE" /\ outcome[<<g, x>>] = "NONE" /\ Qualified!CaseMayEnd(<<g, x>>, i.verdict)
      /\ outcome' = [outcome EXCEPT ![<<g, x>>] = i.verdict]
      /\ UNCHANGED <<declared, result, claimed, begun, sent, receipt, cost, fact, blocked>>
  BY <1>1 DEF Qualified!CloseCase, Qualified!At, Qualified!project, Qualified!attempts
<1>4. /\ n \in 1..Len(FrozenSlots[g]) /\ Len(FrozenSlots[g]) \in Nat
      /\ DOMAIN FrozenSlots[g] = 1..Len(FrozenSlots[g]) /\ <<g, x>> \in Qualified!Claims
  BY QualifiedKeys
<1>5. \E j \in Qualified!JobRecord :
        /\ job' = [job EXCEPT ![g] = j] /\ (j.clean => i.clean /\ i.verdict = "PASS")
        /\ \/ n = Len(FrozenSlots[g]) /\ j.pc = "END" /\ j.at = n
           \/ n # Len(FrozenSlots[g]) /\ j.pc = "CLAIM" /\ j.at = n + 1
  <2>1. CASE n = Len(FrozenSlots[g])
    <3>1. PICK j \in Qualified!JobRecord :
              j = [i EXCEPT !.pc = "END", !.at = @, !.hard = @ \/ i.verdict = "BLOCKED", !.clean = @ /\ i.verdict = "PASS"]
      BY DEF Qualified!JobRecord, Qualified!Steps
    <3>2. job' = [job EXCEPT ![g] = j]
      BY <1>1, <1>2, <2>1, <3>1 DEF Qualified!CloseCase
    <3>3. j.pc = "END" /\ j.at = n /\ (j.clean => i.clean /\ i.verdict = "PASS")
      BY <1>1, <3>1 DEF Qualified!JobRecord
    <3> QED BY <2>1, <3>2, <3>3
  <2>2. CASE n # Len(FrozenSlots[g])
    <3>1. n + 1 \in UNION {DOMAIN FrozenSlots[h] : h \in Campaigns}
      BY <1>4, <2>2
    <3>2. PICK j \in Qualified!JobRecord :
              j = [i EXCEPT !.pc = "CLAIM", !.at = n + 1, !.hard = @ \/ i.verdict = "BLOCKED", !.clean = @ /\ i.verdict = "PASS"]
      BY <3>1 DEF Qualified!JobRecord, Qualified!Steps
    <3>3. job' = [job EXCEPT ![g] = j]
      BY <1>1, <1>2, <2>2, <3>2 DEF Qualified!CloseCase
    <3>4. j.pc = "CLAIM" /\ j.at = n + 1 /\ (j.clean => i.clean /\ i.verdict = "PASS")
      BY <1>1, <3>2 DEF Qualified!JobRecord
    <3> QED BY <2>2, <3>3, <3>4
  <2> QED BY <2>1, <2>2
<1>6. PICK j \in Qualified!JobRecord :
        /\ job' = [job EXCEPT ![g] = j] /\ (j.clean => i.clean /\ i.verdict = "PASS")
        /\ \/ n = Len(FrozenSlots[g]) /\ j.pc = "END" /\ j.at = n
           \/ n # Len(FrozenSlots[g]) /\ j.pc = "CLAIM" /\ j.at = n + 1
  BY <1>5
<1>7. /\ outcome'[<<g, x>>] = i.verdict
      /\ \A c \in Qualified!Claims : c # <<g, x>> => outcome'[c] = outcome[c]
  BY <1>2, <1>3, <1>4
<1>8. QualifiedJob(g, j)'
  <2>1. j.at \in DOMAIN FrozenSlots[g] /\ n \in Nat /\ result'[g] = "OPEN"
    BY <1>1, <1>3, <1>4, <1>6 DEF QualifiedJob
  <2>2. ASSUME NEW m \in DOMAIN FrozenSlots[g], NEW s \in Qualified!Stages,
               m > j.at \/ (m = j.at /\ j.pc = "CLAIM")
        PROVE  QualifiedKey(g, m, s) \notin begun'
    <3>1. m > n
      BY <1>4, <1>6, <2>1, <2>2
    <3>2. i.pc # "IDLE" /\ m > i.at
      BY <1>1, <1>3, <3>1
    <3>3. QualifiedKey(g, m, s) \notin begun
      BY <1>1, <3>2 DEF QualifiedJob
    <3> QED BY <1>3, <3>3
  <2>3. ASSUME NEW m \in DOMAIN FrozenSlots[g], j.clean, m < j.at \/ j.pc = "END"
        PROVE  outcome'[QualifiedClaim(g, m)] = "PASS"
    <3>1. m <= n
      BY <1>4, <1>6, <2>1, <2>3
    <3>4. i.clean /\ i.verdict = "PASS"
      BY <1>6, <2>3 DEF Qualified!JobRecord
    <3>2. CASE m = n
      BY <1>1, <1>7, <3>2, <3>4
    <3>3. CASE m < n
      <4>1. outcome[QualifiedClaim(g, m)] = "PASS" /\ QualifiedClaim(g, m) \in Qualified!Claims
        BY <1>1, <1>3, <3>3, <3>4, QualifiedKeys DEF QualifiedJob
      <4> QED BY <1>3, <1>7, <4>1
    <3> QED BY <1>4, <3>1, <3>2, <3>3
  <2> QED BY <1>6, <2>1, <2>2, <2>3 DEF QualifiedJob, QualifiedActive
<1>9. ASSUME NEW c \in Qualified!CasesOf(g), NEW s \in Qualified!Stages
      PROVE  QualifiedCase(g, c)' /\ QualifiedAttempt(g, c, s)'
  <2>1. QualifiedCase(g, c) /\ QualifiedAttempt(g, c, s) /\ <<g, c>> \in Qualified!Claims
    BY <1>2, QualifiedKeys DEF QualifiedRows
  <2>2. QualifiedAttempt(g, c, s)'
    BY <1>3, <2>1 DEF QualifiedAttempt, Qualified!Passed
  <2>3. CASE c # x
    <3>1. outcome'[<<g, c>>] = outcome[<<g, c>>]
      BY <1>7, <2>1, <2>3
    <3>2. QualifiedCase(g, c)'
      BY <1>3, <2>1, <3>1 DEF QualifiedCase, QualifiedHides, Qualified!Passed
    <3> QED BY <2>2, <3>2
  <2>4. CASE c = x
    <3>1. i.verdict = "PASS" => \A t \in Qualified!Stages : Qualified!Passed(<<g, x, t>>)
      BY <1>3 DEF Qualified!CaseMayEnd, Qualified!Attempt
    <3>2. i.verdict = "BLOCKED" => ~QualifiedHides(g, x)
      BY <1>1, <1>3 DEF QualifiedJob
    <3>3. QualifiedCase(g, c)'
      BY <1>3, <1>7, <2>4, <3>1, <3>2 DEF QualifiedCase, QualifiedHides, Qualified!Passed
    <3> QED BY <2>2, <3>3
  <2> QED BY <2>3, <2>4
<1>10. QualifiedRows(g)'
  <2>1. "ANALYST" \in Qualified!Stages /\ result[g] = "OPEN" /\ result'[g] = "OPEN"
    BY <1>1, <1>3 DEF Qualified!Stages, QualifiedJob
  <2> QED BY <1>9, <2>1 DEF QualifiedRows
<1>11. ASSUME NEW h \in Campaigns \ {g} PROVE QualifiedKeeps(h)
  <2>1. \A c \in Qualified!CasesOf(h) : <<h, c>> \in Qualified!Claims
    BY QualifiedKeys
  <2>2. \A c : <<h, c>> # <<g, x>>
    OBVIOUS
  <2> QED BY <1>3, <1>7, <2>1, <2>2 DEF QualifiedKeeps
<1>12. Qualified!TypeOK'
  <2>1. job' \in [Campaigns -> Qualified!JobRecord] /\ outcome' \in [Qualified!Claims -> {"NONE"} \cup Qualified!Verdicts]
    BY <1>2, <1>3, <1>6
  <2> QED BY <1>3, <2>1, QualifiedTypes DEF Qualified!TypeOK
<1> QED BY <1>6, <1>8, <1>10, <1>11, <1>12, QualifiedMoves

LEMMA QualifiedStep ==
    ASSUME QualifiedInv, [Qualified!Next]_(Qualified!vars)
    PROVE  QualifiedInv'
<1>1. CASE UNCHANGED Qualified!vars
  <2>1. UNCHANGED <<declared, result, claimed, begun, sent, receipt, cost, fact, blocked, outcome, job>>
    BY <1>1 DEF Qualified!vars
  <2>2. ASSUME NEW g \in Campaigns PROVE QualifiedPart(g)'
    <3>1. QualifiedKeeps(g) /\ QualifiedRows(g) /\ job'[g] = job[g]
      BY <2>1, QualifiedRowsOf DEF QualifiedKeeps
    <3>2. PICK i \in Qualified!JobRecord : i = job[g] /\ i = job'[g] /\ QualifiedJob(g, i)
      BY <3>1, QualifiedTypes
    <3>3. QualifiedRows(g)' /\ QualifiedJob(g, i)'
      BY <3>1, <3>2, QualifiedKept
    <3>4. QualifiedJob(g, job[g])'
      BY <3>2, <3>3 DEF QualifiedJob, QualifiedHides, QualifiedKey, QualifiedClaim
    <3> QED BY <3>3, <3>4 DEF QualifiedPart, QualifiedRows
  <2>3. Qualified!TypeOK'
    BY <2>1 DEF QualifiedInv, Qualified!TypeOK
  <2> QED BY <2>2, <2>3 DEF QualifiedInv
<1>2. CASE Qualified!Next
  BY <1>2, QualifiedRests, QualifiedRuns, QualifiedClaims, QualifiedBegins, QualifiedSends, QualifiedReceives,
     QualifiedJudges, QualifiedCloses DEF Qualified!Next
<1> QED BY <1>1, <1>2

LEMMA QualifiedHolds ==
    ASSUME QualifiedInv
    PROVE  Qualified!TypeOK /\ Qualified!OutcomesAreTrue
<1>1. ASSUME NEW g \in Campaigns, result[g] = "PASS", NEW c \in Qualified!CasesOf(g), NEW s \in Qualified!Stages
      PROVE  sent[<<g, c, s>>] = 1 /\ Qualified!Passed(<<g, c, s>>)
  <2>1. outcome[<<g, c>>] = "PASS" /\ QualifiedCase(g, c) /\ QualifiedAttempt(g, c, s)
    BY <1>1, QualifiedRowsOf DEF QualifiedRows
  <2>2. Qualified!Passed(<<g, c, s>>)
    BY <2>1 DEF QualifiedCase
  <2> QED BY <2>1, <2>2 DEF QualifiedAttempt, Qualified!Passed
<1>2. ASSUME NEW c \in Qualified!Claims, outcome[c] = "BLOCKED"
      PROVE  /\ sent[Qualified!Attempt(c, "PLANNER")] = 0
             /\ sent[Qualified!Attempt(c, "ANALYST")] = 1 => Qualified!Passed(Qualified!Attempt(c, "ANALYST"))
  <2>0. PICK g \in Campaigns : \E x \in Qualified!CasesOf(g) : c = <<g, x>>
    BY QualifiedKeys
  <2>1. PICK x \in Qualified!CasesOf(g) : c = <<g, x>>
    BY <2>0
  <2>2. QualifiedCase(g, x)
    BY QualifiedRowsOf DEF QualifiedRows
  <2>3. ~QualifiedHides(g, x)
    BY <1>2, <2>1, <2>2 DEF QualifiedCase
  <2>4. \A s : Qualified!Attempt(c, s) = <<g, x, s>>
    BY <2>1 DEF Qualified!Attempt
  <2> QED BY <2>3, <2>4 DEF QualifiedHides
<1>3. Qualified!TypeOK
  BY DEF QualifiedInv
<1> QED BY <1>1, <1>2, <1>3 DEF Qualified!OutcomesAreTrue

-----------------------------------------------------------------------------
(* The calls of the campaigns: what their ledgers say of them.             *)
QualifiedSays(f) ==
    IF f = "NONE" THEN "OPEN" ELSE IF f = "PASS" THEN "OK" ELSE IF f = "BLOCKED" THEN "UNSENT" ELSE "LOST"
QualifiedAnswer == [k \in Qualified!Attempts |-> QualifiedSays(fact[k])]
QualifiedCalls == [Qualified!CallsOnce!Next]_(Qualified!CallsOnce!vars)

LEMMA QualifiedMapping ==
    /\ UNCHANGED <<begun, sent, QualifiedAnswer>> => UNCHANGED Qualified!CallsOnce!vars
    /\ \A k \in Qualified!Attempts :
         /\ Qualified!CallsOnce!Reserve(k) <=>
              k \notin begun /\ begun' = begun \cup {k} /\ UNCHANGED <<sent, QualifiedAnswer>>
         /\ Qualified!CallsOnce!Send(k) <=>
              /\ k \in begun /\ sent[k] = 0 /\ QualifiedAnswer[k] \in {"OPEN", "LOST"}
              /\ sent' = [sent EXCEPT ![k] = 1] /\ UNCHANGED <<begun, QualifiedAnswer>>
         /\ \A o : Qualified!CallsOnce!Settle(k, o) <=>
              /\ k \in begun /\ QualifiedAnswer[k] = "OPEN"
              /\ o = "OK" => sent[k] = 1
              /\ o = "UNSENT" => sent[k] = 0
              /\ QualifiedAnswer' = [QualifiedAnswer EXCEPT ![k] = o]
              /\ UNCHANGED <<begun, sent>>
<1>1. QualifiedAnswer = [k \in Qualified!Attempts |->
                CASE fact[k] = "NONE" -> "OPEN"
                  [] fact[k] = "PASS" -> "OK"
                  [] fact[k] = "BLOCKED" -> "UNSENT"
                  [] OTHER -> "LOST"]
  BY DEF QualifiedAnswer, QualifiedSays
<1>2. QualifiedAnswer' = [k \in Qualified!Attempts |->
                CASE fact'[k] = "NONE" -> "OPEN"
                  [] fact'[k] = "PASS" -> "OK"
                  [] fact'[k] = "BLOCKED" -> "UNSENT"
                  [] OTHER -> "LOST"]
  BY DEF QualifiedAnswer, QualifiedSays
<1> HIDE DEF QualifiedAnswer
<1> QED BY <1>1, <1>2 DEF Qualified!CallsOnce!vars, Qualified!CallsOnce!Reserve, Qualified!CallsOnce!Send, Qualified!CallsOnce!Settle

LEMMA QualifiedRefines ==
    ASSUME QualifiedInv, [Qualified!Next]_(Qualified!vars)
    PROVE  QualifiedCalls
<1>0. fact \in [Qualified!Attempts -> {"NONE"} \cup Qualified!Verdicts] /\ sent \in [Qualified!Attempts -> Nat]
  BY DEF QualifiedInv, Qualified!TypeOK
<1>1. ASSUME UNCHANGED <<begun, sent, fact>> PROVE QualifiedCalls
  <2>1. UNCHANGED <<begun, sent, QualifiedAnswer>>
    BY <1>1 DEF QualifiedAnswer
  <2> QED BY <2>1, QualifiedMapping DEF QualifiedCalls
<1>2. CASE UNCHANGED Qualified!vars
  BY <1>1, <1>2 DEF Qualified!vars
<1>3. ASSUME NEW g \in Campaigns, Qualified!BeginDispatch(g) \/ Qualified!SendRequest(g) \/ Qualified!AppendValidation(g)
      PROVE  QualifiedCalls
  <2>1. PICK i \in Qualified!JobRecord, n \in DOMAIN FrozenSlots[g], x \in Qualified!CasesOf(g), k \in Qualified!Attempts :
          /\ i = job[g] /\ QualifiedJob(g, i) /\ i.stage \in Qualified!Stages
          /\ n = i.at /\ x = FrozenSlots[g][n] /\ QualifiedClaim(g, n) = <<g, x>>
          /\ k = QualifiedKey(g, n, i.stage) /\ k = <<g, x, i.stage>> /\ Qualified!AttemptOf(g) = k
          /\ QualifiedAttempt(g, x, i.stage)
    BY QualifiedWorks
  <2>2. CASE Qualified!BeginDispatch(g)
    <3>1. i.pc = "BEGIN" /\ begun' = begun \cup {k} /\ UNCHANGED <<sent, fact>>
      BY <2>1, <2>2 DEF Qualified!BeginDispatch, Qualified!At
    <3>2. k \notin begun
      BY <2>1, <3>1 DEF QualifiedJob
    <3>3. UNCHANGED QualifiedAnswer
      BY <3>1 DEF QualifiedAnswer
    <3>4. Qualified!CallsOnce!Reserve(k)
      BY <3>1, <3>2, <3>3, QualifiedMapping
    <3> QED BY <3>4 DEF QualifiedCalls, Qualified!CallsOnce!Next
  <2>3. CASE Qualified!SendRequest(g)
    <3>1. i.pc = "SEND" /\ sent' = [sent EXCEPT ![k] = sent[k] + 1] /\ UNCHANGED <<begun, fact>>
      BY <1>0, <2>1, <2>3 DEF Qualified!SendRequest, Qualified!At
    <3>2. k \in begun /\ sent[k] = 0 /\ fact[k] = "NONE"
      BY <2>1, <3>1 DEF QualifiedJob
    <3>3. UNCHANGED QualifiedAnswer /\ QualifiedAnswer[k] = "OPEN" /\ sent' = [sent EXCEPT ![k] = 1]
      BY <3>1, <3>2 DEF QualifiedAnswer, QualifiedSays
    <3>4. Qualified!CallsOnce!Send(k)
      BY <3>1, <3>2, <3>3, QualifiedMapping
    <3> QED BY <3>4 DEF QualifiedCalls, Qualified!CallsOnce!Next
  <2>4. CASE Qualified!AppendValidation(g)
    <3>1. PICK v \in Qualified!Verdicts :
            /\ v = "BLOCKED" => i.pc = "SEND"
            /\ v = "FAILED" => i.pc \in {"AWAIT", "JUDGE"}
            /\ v = "PASS" => i.pc = "JUDGE"
            /\ Qualified!MayRecord(k, v) /\ fact' = [fact EXCEPT ![k] = v]
      BY <2>1, <2>4 DEF Qualified!AppendValidation, Qualified!At
    <3>2. UNCHANGED <<begun, sent>> /\ i.pc \in {"SEND", "AWAIT", "JUDGE"} /\ fact[k] = "NONE"
      BY <2>4, <3>1 DEF Qualified!AppendValidation, Qualified!MayRecord, Qualified!Verdicts
    <3>3. k \in begun /\ (i.pc = "SEND" => sent[k] = 0) /\ (i.pc = "JUDGE" => sent[k] = 1)
      BY <2>1, <3>2 DEF QualifiedJob
    <3>4. QualifiedAnswer' = [QualifiedAnswer EXCEPT ![k] = QualifiedSays(v)]
      BY <1>0, <3>1 DEF QualifiedAnswer
    <3>5. QualifiedAnswer[k] = "OPEN" /\ QualifiedSays(v) \in {"OK", "LOST", "UNSENT"}
          /\ (QualifiedSays(v) = "OK" => v = "PASS") /\ (QualifiedSays(v) = "UNSENT" => v = "BLOCKED")
      BY <3>2 DEF QualifiedAnswer, QualifiedSays, Qualified!Verdicts
    <3>6. (QualifiedSays(v) = "OK" => sent[k] = 1) /\ (QualifiedSays(v) = "UNSENT" => sent[k] = 0)
      BY <3>1, <3>3, <3>5
    <3>7. Qualified!CallsOnce!Settle(k, QualifiedSays(v))
      BY <3>2, <3>3, <3>4, <3>5, <3>6, QualifiedMapping
    <3> QED BY <3>5, <3>7 DEF QualifiedCalls, Qualified!CallsOnce!Next
  <2> QED BY <1>3, <2>2, <2>3, <2>4
<1>4. ASSUME NEW g \in Campaigns,
             \/ Qualified!EnsureCampaign(g) \/ Qualified!BeginRunWithSlots(g) \/ Qualified!ClaimCase(g)
             \/ Qualified!StopBeforeSend(g) \/ Qualified!AppendReceipt(g) \/ Qualified!RecordPreDispatchBlock(g)
             \/ Qualified!CloseCase(g) \/ Qualified!CloseRun(g) \/ Qualified!Crash(g)
      PROVE  QualifiedCalls
  BY <1>1, <1>4 DEF Qualified!EnsureCampaign, Qualified!BeginRunWithSlots, Qualified!ClaimCase,
     Qualified!StopBeforeSend, Qualified!AppendReceipt, Qualified!RecordPreDispatchBlock,
     Qualified!CloseCase, Qualified!CloseRun, Qualified!Crash, Qualified!attempts
<1> QED BY <1>2, <1>3, <1>4 DEF Qualified!Next

-----------------------------------------------------------------------------
(* The runs of the specialists: what they commit of their budgets, and     *)
(* what they pay for a task.                                               *)

-----------------------------------------------------------------------------
PayingRequestsOf(k, c) == {q \in Paying(k)!Requests : PayerOf[q[1]] = c}

(* What the requests of a ledger cost, and what of it was reserved.        *)
PayingPaid(k, res) == [q \in Paying(k)!Requests |-> res[q].cost]
PayingCount(k, res) == [q \in Paying(k)!Requests |->
    IF res[q].cost > CallReservation THEN CallReservation ELSE res[q].cost]

(* Both by candidate.                                                      *)
PayingSpends(k, res) == [c \in Paying(k)!Candidates |-> SumOver(PayingPaid(k, res), PayingRequestsOf(k, c))]
PayingCounts(k, res) == [c \in Paying(k)!Candidates |-> SumOver(PayingCount(k, res), PayingRequestsOf(k, c))]

(* What candidates borrow, and what they leave.                            *)
PayingOver(k, n) == [c \in Paying(k)!Candidates |-> Paying(k)!Extra(n[c], c)]
PayingLeft(k, n) == [c \in Paying(k)!Candidates |-> LimitOf[k][c] - n[c]]

(* The commitments n of the candidates are covered when cl are closed.     *)
PayingWithin(k, n, cl) ==
    /\ SumOver(n, EvaluatedOf[k]) <= PhaseLimitOf[k]
    /\ \A c \in Paying(k)!Candidates \ EvaluatedOf[k] : n[c] <= LimitOf[k][c]
    /\ SumOver(PayingOver(k, n), EvaluatedOf[k] \ cl) <= SumOver(PayingLeft(k, n), cl)

LEMMA PayingRequests ==
    ASSUME NEW k, PayingConstants(k)
    PROVE  /\ IsFiniteSet(Paying(k)!Requests)
           /\ \A c : PayingRequestsOf(k, c) \subseteq Paying(k)!Requests /\ IsFiniteSet(PayingRequestsOf(k, c))
           /\ \A q \in Paying(k)!Requests : PayerOf[q[1]] \in Paying(k)!Candidates /\ q \in PayingRequestsOf(k, PayerOf[q[1]])
<1>1. IsFiniteSet(1..ModelCalls)
  BY FS_Interval DEF PayingConstants
<1>2. IsFiniteSet(Paying(k)!Requests)
  BY <1>1, FS_Product DEF PayingConstants, Paying!Requests
<1>3. \A c : PayingRequestsOf(k, c) \in SUBSET Paying(k)!Requests
  BY DEF PayingRequestsOf
<1>4. \A c : IsFiniteSet(PayingRequestsOf(k, c))
  BY <1>2, <1>3, FS_Subset
<1>5. \A q \in Paying(k)!Requests : PayerOf[q[1]] \in Paying(k)!Candidates
  BY DEF Paying!Requests, PayingConstants
<1> QED BY <1>2, <1>3, <1>4, <1>5 DEF PayingRequestsOf

LEMMA PayingSumsOfCosts ==
    ASSUME NEW k, PayingConstants(k), NEW u \in [Paying(k)!Requests -> Paying(k)!Reservations],
           NEW c \in Paying(k)!Candidates
    PROVE  /\ \A q \in Paying(k)!Requests : PayingPaid(k, u)[q] \in Int /\ PayingCount(k, u)[q] \in Int /\ PayingCount(k, u)[q] <= PayingPaid(k, u)[q]
           /\ PayingSpends(k, u)[c] \in Int /\ PayingCounts(k, u)[c] \in Int /\ PayingCounts(k, u)[c] <= PayingSpends(k, u)[c]
<1>1. \A q \in Paying(k)!Requests : PayingPaid(k, u)[q] \in Int /\ PayingCount(k, u)[q] \in Int /\ PayingCount(k, u)[q] <= PayingPaid(k, u)[q]
  BY DEF PayingConstants, PayingPaid, PayingCount, Paying!Reservations
<1>2. IsFiniteSet(PayingRequestsOf(k, c)) /\ PayingRequestsOf(k, c) \subseteq Paying(k)!Requests
  BY PayingRequests
<1>3. SumOver(PayingPaid(k, u), PayingRequestsOf(k, c)) \in Int /\ SumOver(PayingCount(k, u), PayingRequestsOf(k, c)) \in Int
  BY <1>1, <1>2, SumType
<1>4. SumOver(PayingCount(k, u), PayingRequestsOf(k, c)) <= SumOver(PayingPaid(k, u), PayingRequestsOf(k, c))
  BY <1>1, <1>2, SumUpTo
<1> QED BY <1>1, <1>3, <1>4 DEF PayingSpends, PayingCounts

-----------------------------------------------------------------------------
(* The sums of the model are sums over functions.                          *)

LEMMA PayingExposureIs ==
    ASSUME NEW k, PayingConstants(k), NEW c \in Paying(k)!Candidates
    PROVE  Paying(k)!Exposure(c) = SumOver(PayingPaid(k, reservation), PayingRequestsOf(k, c))
<1> DEFINE S == PayingRequestsOf(k, c)
           w == PayingPaid(k, reservation)
           P(g) == g = [s \in SUBSET S |-> IF s = {} THEN 0
                          ELSE reservation[Chosen(s)].cost + g[s \ {Chosen(s)}]]
<1>1. ASSUME NEW g PROVE P(g) <=> Tally(g, w, S)
  <2>1. \A s \in SUBSET S : s # {} => w[Chosen(s)] = reservation[Chosen(s)].cost
    BY ChosenIn DEF PayingRequestsOf, PayingPaid
  <2>2. [s \in SUBSET S |-> IF s = {} THEN 0 ELSE reservation[Chosen(s)].cost + g[s \ {Chosen(s)}]]
        = [s \in SUBSET S |-> IF s = {} THEN 0 ELSE w[Chosen(s)] + g[s \ {Chosen(s)}]]
    BY <2>1
  <2> QED BY <2>2 DEF Tally
<1>2. IsFiniteSet(S)
  BY PayingRequests
<1>3. PICK g : P(g) /\ g = CHOOSE f : P(f)
  <2> HIDE DEF P, S, w
  <2> QED BY <1>1, <1>2, TallyExists
<1>4. Paying(k)!Exposure(c) = g[S]
  BY <1>3 DEF Paying!MapThenSumSet, Paying!MapThenFoldSet, Chosen, Paying!Exposure, PayingRequestsOf
<1>5. PICK h : Tally(h, w, S) /\ SumOver(w, S) = h[S]
  BY <1>2, SumTally
<1>6. g[S] = h[S]
  <2> HIDE DEF P, S, w
  <2> QED BY <1>1, <1>2, <1>3, <1>5, TallyUnique
<1> QED BY <1>4, <1>5, <1>6

LEMMA PayingCountedIs ==
    ASSUME NEW k, PayingConstants(k), NEW c \in Paying(k)!Candidates
    PROVE  Paying(k)!Counted(c) = SumOver(PayingCount(k, reservation), PayingRequestsOf(k, c))
<1> DEFINE S == PayingRequestsOf(k, c)
           w == PayingCount(k, reservation)
           P(g) == g = [s \in SUBSET S |-> IF s = {} THEN 0
                          ELSE (IF reservation[Chosen(s)].cost > CallReservation THEN CallReservation ELSE reservation[Chosen(s)].cost) + g[s \ {Chosen(s)}]]
<1>1. ASSUME NEW g PROVE P(g) <=> Tally(g, w, S)
  <2>1. \A s \in SUBSET S : s # {} => w[Chosen(s)] = (IF reservation[Chosen(s)].cost > CallReservation THEN CallReservation ELSE reservation[Chosen(s)].cost)
    BY ChosenIn DEF PayingRequestsOf, PayingCount
  <2>2. [s \in SUBSET S |-> IF s = {} THEN 0 ELSE (IF reservation[Chosen(s)].cost > CallReservation THEN CallReservation ELSE reservation[Chosen(s)].cost) + g[s \ {Chosen(s)}]]
        = [s \in SUBSET S |-> IF s = {} THEN 0 ELSE w[Chosen(s)] + g[s \ {Chosen(s)}]]
    BY <2>1
  <2> QED BY <2>2 DEF Tally
<1>2. IsFiniteSet(S)
  BY PayingRequests
<1>3. PICK g : P(g) /\ g = CHOOSE f : P(f)
  <2> HIDE DEF P, S, w
  <2> QED BY <1>1, <1>2, TallyExists
<1>4. Paying(k)!Counted(c) = g[S]
  BY <1>3 DEF Paying!MapThenSumSet, Paying!MapThenFoldSet, Chosen, Paying!Counted, PayingRequestsOf
<1>5. PICK h : Tally(h, w, S) /\ SumOver(w, S) = h[S]
  BY <1>2, SumTally
<1>6. g[S] = h[S]
  <2> HIDE DEF P, S, w
  <2> QED BY <1>1, <1>2, <1>3, <1>5, TallyUnique
<1> QED BY <1>4, <1>5, <1>6

LEMMA PayingSpentByIs ==
    ASSUME NEW k, PayingConstants(k)
    PROVE  Paying(k)!SpentBy(EvaluatedOf[k]) = SumOver(PayingSpends(k, reservation), EvaluatedOf[k])
<1> DEFINE S == EvaluatedOf[k]
           w == PayingSpends(k, reservation)
           P(g) == g = [s \in SUBSET S |-> IF s = {} THEN 0
                          ELSE Paying(k)!Exposure(Chosen(s)) + g[s \ {Chosen(s)}]]
<1>1. ASSUME NEW g PROVE P(g) <=> Tally(g, w, S)
  <2>1. \A s \in SUBSET S : s # {} => w[Chosen(s)] = Paying(k)!Exposure(Chosen(s))
    BY ChosenIn, PayingExposureIs DEF PayingSpends, PayingConstants
  <2>2. [s \in SUBSET S |-> IF s = {} THEN 0 ELSE Paying(k)!Exposure(Chosen(s)) + g[s \ {Chosen(s)}]]
        = [s \in SUBSET S |-> IF s = {} THEN 0 ELSE w[Chosen(s)] + g[s \ {Chosen(s)}]]
    BY <2>1
  <2> QED BY <2>2 DEF Tally
<1>2. IsFiniteSet(S)
  BY DEF PayingConstants
<1>3. PICK g : P(g) /\ g = CHOOSE f : P(f)
  <2> HIDE DEF P, S, w
  <2> QED BY <1>1, <1>2, TallyExists
<1>4. Paying(k)!SpentBy(EvaluatedOf[k]) = g[S]
  BY <1>3 DEF Paying!MapThenSumSet, Paying!MapThenFoldSet, Chosen, Paying!SpentBy
<1>5. PICK h : Tally(h, w, S) /\ SumOver(w, S) = h[S]
  BY <1>2, SumTally
<1>6. g[S] = h[S]
  <2> HIDE DEF P, S, w
  <2> QED BY <1>1, <1>2, <1>3, <1>5, TallyUnique
<1> QED BY <1>4, <1>5, <1>6

LEMMA PayingSharedIs ==
    ASSUME NEW k, PayingConstants(k)
    PROVE  Paying(k)!Shared = SumOver(PayingLeft(k, PayingSpends(k, reservation)), closed \cap EvaluatedOf[k])
<1> DEFINE S == closed \cap EvaluatedOf[k]
           w == PayingLeft(k, PayingSpends(k, reservation))
           P(g) == g = [s \in SUBSET S |-> IF s = {} THEN 0
                          ELSE (LimitOf[k][Chosen(s)] - Paying(k)!Exposure(Chosen(s))) + g[s \ {Chosen(s)}]]
<1>1. ASSUME NEW g PROVE P(g) <=> Tally(g, w, S)
  <2>1. \A s \in SUBSET S : s # {} => w[Chosen(s)] = (LimitOf[k][Chosen(s)] - Paying(k)!Exposure(Chosen(s)))
    BY ChosenIn, PayingExposureIs DEF PayingSpends, PayingLeft, PayingConstants
  <2>2. [s \in SUBSET S |-> IF s = {} THEN 0 ELSE (LimitOf[k][Chosen(s)] - Paying(k)!Exposure(Chosen(s))) + g[s \ {Chosen(s)}]]
        = [s \in SUBSET S |-> IF s = {} THEN 0 ELSE w[Chosen(s)] + g[s \ {Chosen(s)}]]
    BY <2>1
  <2> QED BY <2>2 DEF Tally
<1>2. IsFiniteSet(S)
  BY FS_Subset DEF PayingConstants
<1>3. PICK g : P(g) /\ g = CHOOSE f : P(f)
  <2> HIDE DEF P, S, w
  <2> QED BY <1>1, <1>2, TallyExists
<1>4. Paying(k)!Shared = g[S]
  BY <1>3 DEF Paying!MapThenSumSet, Paying!MapThenFoldSet, Chosen, Paying!Shared
<1>5. PICK h : Tally(h, w, S) /\ SumOver(w, S) = h[S]
  BY <1>2, SumTally
<1>6. g[S] = h[S]
  <2> HIDE DEF P, S, w
  <2> QED BY <1>1, <1>2, <1>3, <1>5, TallyUnique
<1> QED BY <1>4, <1>5, <1>6

LEMMA PayingBorrowedIs ==
    ASSUME NEW k, PayingConstants(k), NEW c
    PROVE  Paying(k)!MapThenSumSet(LAMBDA x : Paying(k)!Extra(Paying(k)!Exposure(x), x), EvaluatedOf[k] \ (closed \cup {c})) = SumOver(PayingOver(k, PayingSpends(k, reservation)), EvaluatedOf[k] \ (closed \cup {c}))
<1> DEFINE S == EvaluatedOf[k] \ (closed \cup {c})
           w == PayingOver(k, PayingSpends(k, reservation))
           P(g) == g = [s \in SUBSET S |-> IF s = {} THEN 0
                          ELSE Paying(k)!Extra(Paying(k)!Exposure(Chosen(s)), Chosen(s)) + g[s \ {Chosen(s)}]]
<1>1. ASSUME NEW g PROVE P(g) <=> Tally(g, w, S)
  <2>1. \A s \in SUBSET S : s # {} => w[Chosen(s)] = Paying(k)!Extra(Paying(k)!Exposure(Chosen(s)), Chosen(s))
    BY ChosenIn, PayingExposureIs DEF PayingSpends, PayingOver, PayingConstants
  <2>2. [s \in SUBSET S |-> IF s = {} THEN 0 ELSE Paying(k)!Extra(Paying(k)!Exposure(Chosen(s)), Chosen(s)) + g[s \ {Chosen(s)}]]
        = [s \in SUBSET S |-> IF s = {} THEN 0 ELSE w[Chosen(s)] + g[s \ {Chosen(s)}]]
    BY <2>1
  <2> QED BY <2>2 DEF Tally
<1>2. IsFiniteSet(S)
  BY FS_Subset DEF PayingConstants
<1>3. PICK g : P(g) /\ g = CHOOSE f : P(f)
  <2> HIDE DEF P, S, w
  <2> QED BY <1>1, <1>2, TallyExists
<1>4. Paying(k)!MapThenSumSet(LAMBDA x : Paying(k)!Extra(Paying(k)!Exposure(x), x), EvaluatedOf[k] \ (closed \cup {c})) = g[S]
  BY <1>3 DEF Paying!MapThenSumSet, Paying!MapThenFoldSet, Chosen
<1>5. PICK h : Tally(h, w, S) /\ SumOver(w, S) = h[S]
  BY <1>2, SumTally
<1>6. g[S] = h[S]
  <2> HIDE DEF P, S, w
  <2> QED BY <1>1, <1>2, <1>3, <1>5, TallyUnique
<1> QED BY <1>4, <1>5, <1>6

LEMMA PayingAllCountedIs ==
    ASSUME NEW k, PayingConstants(k)
    PROVE  Paying(k)!MapThenSumSet(LAMBDA c : Paying(k)!Counted(c), EvaluatedOf[k]) = SumOver(PayingCounts(k, reservation), EvaluatedOf[k])
<1> DEFINE S == EvaluatedOf[k]
           w == PayingCounts(k, reservation)
           P(g) == g = [s \in SUBSET S |-> IF s = {} THEN 0
                          ELSE Paying(k)!Counted(Chosen(s)) + g[s \ {Chosen(s)}]]
<1>1. ASSUME NEW g PROVE P(g) <=> Tally(g, w, S)
  <2>1. \A s \in SUBSET S : s # {} => w[Chosen(s)] = Paying(k)!Counted(Chosen(s))
    BY ChosenIn, PayingCountedIs DEF PayingCounts, PayingConstants
  <2>2. [s \in SUBSET S |-> IF s = {} THEN 0 ELSE Paying(k)!Counted(Chosen(s)) + g[s \ {Chosen(s)}]]
        = [s \in SUBSET S |-> IF s = {} THEN 0 ELSE w[Chosen(s)] + g[s \ {Chosen(s)}]]
    BY <2>1
  <2> QED BY <2>2 DEF Tally
<1>2. IsFiniteSet(S)
  BY DEF PayingConstants
<1>3. PICK g : P(g) /\ g = CHOOSE f : P(f)
  <2> HIDE DEF P, S, w
  <2> QED BY <1>1, <1>2, TallyExists
<1>4. Paying(k)!MapThenSumSet(LAMBDA c : Paying(k)!Counted(c), EvaluatedOf[k]) = g[S]
  BY <1>3 DEF Paying!MapThenSumSet, Paying!MapThenFoldSet, Chosen
<1>5. PICK h : Tally(h, w, S) /\ SumOver(w, S) = h[S]
  BY <1>2, SumTally
<1>6. g[S] = h[S]
  <2> HIDE DEF P, S, w
  <2> QED BY <1>1, <1>2, <1>3, <1>5, TallyUnique
<1> QED BY <1>4, <1>5, <1>6

LEMMA PayingOverIs ==
    ASSUME NEW k, PayingConstants(k)
    PROVE  Paying(k)!MapThenSumSet(LAMBDA x : Paying(k)!Extra(Paying(k)!Counted(x), x), EvaluatedOf[k] \ closed) = SumOver(PayingOver(k, PayingCounts(k, reservation)), EvaluatedOf[k] \ closed)
<1> DEFINE S == EvaluatedOf[k] \ closed
           w == PayingOver(k, PayingCounts(k, reservation))
           P(g) == g = [s \in SUBSET S |-> IF s = {} THEN 0
                          ELSE Paying(k)!Extra(Paying(k)!Counted(Chosen(s)), Chosen(s)) + g[s \ {Chosen(s)}]]
<1>1. ASSUME NEW g PROVE P(g) <=> Tally(g, w, S)
  <2>1. \A s \in SUBSET S : s # {} => w[Chosen(s)] = Paying(k)!Extra(Paying(k)!Counted(Chosen(s)), Chosen(s))
    BY ChosenIn, PayingCountedIs DEF PayingCounts, PayingOver, PayingConstants
  <2>2. [s \in SUBSET S |-> IF s = {} THEN 0 ELSE Paying(k)!Extra(Paying(k)!Counted(Chosen(s)), Chosen(s)) + g[s \ {Chosen(s)}]]
        = [s \in SUBSET S |-> IF s = {} THEN 0 ELSE w[Chosen(s)] + g[s \ {Chosen(s)}]]
    BY <2>1
  <2> QED BY <2>2 DEF Tally
<1>2. IsFiniteSet(S)
  BY FS_Subset DEF PayingConstants
<1>3. PICK g : P(g) /\ g = CHOOSE f : P(f)
  <2> HIDE DEF P, S, w
  <2> QED BY <1>1, <1>2, TallyExists
<1>4. Paying(k)!MapThenSumSet(LAMBDA x : Paying(k)!Extra(Paying(k)!Counted(x), x), EvaluatedOf[k] \ closed) = g[S]
  BY <1>3 DEF Paying!MapThenSumSet, Paying!MapThenFoldSet, Chosen
<1>5. PICK h : Tally(h, w, S) /\ SumOver(w, S) = h[S]
  BY <1>2, SumTally
<1>6. g[S] = h[S]
  <2> HIDE DEF P, S, w
  <2> QED BY <1>1, <1>2, <1>3, <1>5, TallyUnique
<1> QED BY <1>4, <1>5, <1>6

LEMMA PayingLeftIs ==
    ASSUME NEW k, PayingConstants(k), closed \subseteq EvaluatedOf[k]
    PROVE  Paying(k)!MapThenSumSet(LAMBDA x : LimitOf[k][x] - Paying(k)!Counted(x), closed) = SumOver(PayingLeft(k, PayingCounts(k, reservation)), closed)
<1> DEFINE S == closed
           w == PayingLeft(k, PayingCounts(k, reservation))
           P(g) == g = [s \in SUBSET S |-> IF s = {} THEN 0
                          ELSE (LimitOf[k][Chosen(s)] - Paying(k)!Counted(Chosen(s))) + g[s \ {Chosen(s)}]]
<1>1. ASSUME NEW g PROVE P(g) <=> Tally(g, w, S)
  <2>1. \A s \in SUBSET S : s # {} => w[Chosen(s)] = (LimitOf[k][Chosen(s)] - Paying(k)!Counted(Chosen(s)))
    BY ChosenIn, PayingCountedIs DEF PayingCounts, PayingLeft, PayingConstants
  <2>2. [s \in SUBSET S |-> IF s = {} THEN 0 ELSE (LimitOf[k][Chosen(s)] - Paying(k)!Counted(Chosen(s))) + g[s \ {Chosen(s)}]]
        = [s \in SUBSET S |-> IF s = {} THEN 0 ELSE w[Chosen(s)] + g[s \ {Chosen(s)}]]
    BY <2>1
  <2> QED BY <2>2 DEF Tally
<1>2. IsFiniteSet(S)
  BY FS_Subset DEF PayingConstants
<1>3. PICK g : P(g) /\ g = CHOOSE f : P(f)
  <2> HIDE DEF P, S, w
  <2> QED BY <1>1, <1>2, TallyExists
<1>4. Paying(k)!MapThenSumSet(LAMBDA x : LimitOf[k][x] - Paying(k)!Counted(x), closed) = g[S]
  BY <1>3 DEF Paying!MapThenSumSet, Paying!MapThenFoldSet, Chosen
<1>5. PICK h : Tally(h, w, S) /\ SumOver(w, S) = h[S]
  BY <1>2, SumTally
<1>6. g[S] = h[S]
  <2> HIDE DEF P, S, w
  <2> QED BY <1>1, <1>2, <1>3, <1>5, TallyUnique
<1> QED BY <1>4, <1>5, <1>6

LEMMA PayingPaidIs ==
    ASSUME NEW k, PayingConstants(k), NEW T, T \subseteq Paying(k)!Requests
    PROVE  Paying(k)!MapThenSumSet(LAMBDA q : reservation[q].cost, T) = SumOver(PayingPaid(k, reservation), T)
<1> DEFINE S == T
           w == PayingPaid(k, reservation)
           P(g) == g = [s \in SUBSET S |-> IF s = {} THEN 0
                          ELSE reservation[Chosen(s)].cost + g[s \ {Chosen(s)}]]
<1>1. ASSUME NEW g PROVE P(g) <=> Tally(g, w, S)
  <2>1. \A s \in SUBSET S : s # {} => w[Chosen(s)] = reservation[Chosen(s)].cost
    BY ChosenIn DEF PayingPaid
  <2>2. [s \in SUBSET S |-> IF s = {} THEN 0 ELSE reservation[Chosen(s)].cost + g[s \ {Chosen(s)}]]
        = [s \in SUBSET S |-> IF s = {} THEN 0 ELSE w[Chosen(s)] + g[s \ {Chosen(s)}]]
    BY <2>1
  <2> QED BY <2>2 DEF Tally
<1>2. IsFiniteSet(S)
  BY PayingRequests, FS_Subset
<1>3. PICK g : P(g) /\ g = CHOOSE f : P(f)
  <2> HIDE DEF P, S, w
  <2> QED BY <1>1, <1>2, TallyExists
<1>4. Paying(k)!MapThenSumSet(LAMBDA q : reservation[q].cost, T) = g[S]
  BY <1>3 DEF Paying!MapThenSumSet, Paying!MapThenFoldSet, Chosen
<1>5. PICK h : Tally(h, w, S) /\ SumOver(w, S) = h[S]
  BY <1>2, SumTally
<1>6. g[S] = h[S]
  <2> HIDE DEF P, S, w
  <2> QED BY <1>1, <1>2, <1>3, <1>5, TallyUnique
<1> QED BY <1>4, <1>5, <1>6

(* The property, and the guard of a reservation, in these terms.           *)
LEMMA PayingBudgetIs ==
    ASSUME NEW k, PayingConstants(k), closed \subseteq EvaluatedOf[k]
    PROVE  Paying(k)!CommittedWithinBudget <=> PayingWithin(k, PayingCounts(k, reservation), closed)
<1>1. \A c \in Paying(k)!Candidates \ EvaluatedOf[k] : Paying(k)!Counted(c) = PayingCounts(k, reservation)[c]
  BY PayingCountedIs DEF PayingCounts
<1> QED BY <1>1, PayingAllCountedIs, PayingOverIs, PayingLeftIs DEF Paying!CommittedWithinBudget, PayingWithin

LEMMA PayingMayReserveIs ==
    ASSUME NEW k, PayingConstants(k), closed \subseteq EvaluatedOf[k],
           NEW c \in Paying(k)!Candidates, Paying(k)!MayReserve(c)
    PROVE  /\ c \notin closed
           /\ c \notin EvaluatedOf[k] => PayingSpends(k, reservation)[c] + CallReservation <= LimitOf[k][c]
           /\ c \in EvaluatedOf[k] =>
                /\ SumOver(PayingSpends(k, reservation), EvaluatedOf[k]) + CallReservation <= PhaseLimitOf[k]
                /\ Paying(k)!Extra(PayingSpends(k, reservation)[c] + CallReservation, c)
                     + SumOver(PayingOver(k, PayingSpends(k, reservation)), (EvaluatedOf[k] \ closed) \ {c})
                     <= SumOver(PayingLeft(k, PayingSpends(k, reservation)), closed)
<1>1. Paying(k)!Exposure(c) = PayingSpends(k, reservation)[c]
  BY PayingExposureIs DEF PayingSpends
<1>2. closed \cap EvaluatedOf[k] = closed /\ EvaluatedOf[k] \ (closed \cup {c}) = (EvaluatedOf[k] \ closed) \ {c}
  OBVIOUS
<1>3. ASSUME c \in EvaluatedOf[k]
      PROVE  /\ Paying(k)!SpentBy(EvaluatedOf[k]) + CallReservation <= PhaseLimitOf[k]
             /\ Paying(k)!Extra(Paying(k)!Exposure(c) + CallReservation, c)
                  + Paying(k)!MapThenSumSet(LAMBDA x : Paying(k)!Extra(Paying(k)!Exposure(x), x), EvaluatedOf[k] \ (closed \cup {c}))
                  <= Paying(k)!Shared
  BY <1>3 DEF Paying!MayReserve
<1>4. c \notin EvaluatedOf[k] => Paying(k)!Exposure(c) + CallReservation <= LimitOf[k][c]
  BY DEF Paying!MayReserve
<1>5. c \notin closed
  BY DEF Paying!MayReserve
<1> HIDE DEF Paying!MayReserve
<1> QED BY <1>1, <1>2, <1>3, <1>4, <1>5, PayingSpentByIs, PayingSharedIs, PayingBorrowedIs

-----------------------------------------------------------------------------
(* What keeps commitments covered: that some fall, that a candidate closes *)
(* and leaves what it has not committed, and a reservation.                *)
LEMMA PayingSumsOf ==
    ASSUME NEW k, PayingConstants(k), NEW n \in [Paying(k)!Candidates -> Int],
           NEW S \in SUBSET EvaluatedOf[k]
    PROVE  /\ IsFiniteSet(S) /\ \A x \in S : x \in Paying(k)!Candidates
           /\ \A x \in Paying(k)!Candidates : n[x] \in Int /\ PayingOver(k, n)[x] \in Int /\ PayingLeft(k, n)[x] \in Int
                /\ PayingOver(k, n)[x] = Paying(k)!Extra(n[x], x) /\ PayingLeft(k, n)[x] = LimitOf[k][x] - n[x]
           /\ SumOver(n, S) \in Int /\ SumOver(PayingOver(k, n), S) \in Int /\ SumOver(PayingLeft(k, n), S) \in Int
<1>1. IsFiniteSet(S) /\ \A x \in S : x \in Paying(k)!Candidates
  BY FS_Subset DEF PayingConstants
<1>2. \A x \in Paying(k)!Candidates : n[x] \in Int /\ PayingOver(k, n)[x] \in Int /\ PayingLeft(k, n)[x] \in Int
        /\ PayingOver(k, n)[x] = Paying(k)!Extra(n[x], x) /\ PayingLeft(k, n)[x] = LimitOf[k][x] - n[x]
  BY DEF PayingOver, PayingLeft, Paying!Extra, PayingConstants
<1> QED BY <1>1, <1>2, SumType

LEMMA PayingFallsKeepWithin ==
    ASSUME NEW k, PayingConstants(k), NEW n \in [Paying(k)!Candidates -> Int],
           NEW m \in [Paying(k)!Candidates -> Int],
           \A c \in Paying(k)!Candidates : m[c] <= n[c], NEW cl \in SUBSET EvaluatedOf[k], PayingWithin(k, n, cl)
    PROVE  PayingWithin(k, m, cl)
<1>1. EvaluatedOf[k] \in SUBSET EvaluatedOf[k] /\ EvaluatedOf[k] \ cl \in SUBSET EvaluatedOf[k]
  OBVIOUS
<1>2. \A c \in Paying(k)!Candidates : PayingOver(k, m)[c] <= PayingOver(k, n)[c] /\ PayingLeft(k, n)[c] <= PayingLeft(k, m)[c]
  BY DEF PayingOver, PayingLeft, Paying!Extra, PayingConstants
<1>3. SumOver(m, EvaluatedOf[k]) <= SumOver(n, EvaluatedOf[k])
  BY <1>1, PayingSumsOf, SumUpTo
<1>4. SumOver(PayingOver(k, m), EvaluatedOf[k] \ cl) <= SumOver(PayingOver(k, n), EvaluatedOf[k] \ cl)
  BY <1>1, <1>2, PayingSumsOf, SumUpTo
<1>5. SumOver(PayingLeft(k, n), cl) <= SumOver(PayingLeft(k, m), cl)
  BY <1>1, <1>2, PayingSumsOf, SumUpTo
<1>6. \A c \in Paying(k)!Candidates \ EvaluatedOf[k] : m[c] <= LimitOf[k][c]
  BY DEF PayingWithin, PayingConstants
<1>7. /\ SumOver(m, EvaluatedOf[k]) \in Int /\ SumOver(n, EvaluatedOf[k]) \in Int /\ PhaseLimitOf[k] \in Int
      /\ SumOver(PayingOver(k, m), EvaluatedOf[k] \ cl) \in Int /\ SumOver(PayingOver(k, n), EvaluatedOf[k] \ cl) \in Int
      /\ SumOver(PayingLeft(k, n), cl) \in Int /\ SumOver(PayingLeft(k, m), cl) \in Int
  BY <1>1, PayingSumsOf DEF PayingConstants
<1> QED BY <1>3, <1>4, <1>5, <1>6, <1>7 DEF PayingWithin

LEMMA PayingClosingKeepsWithin ==
    ASSUME NEW k, PayingConstants(k), NEW n \in [Paying(k)!Candidates -> Int],
           NEW cl \in SUBSET EvaluatedOf[k],
           NEW c \in EvaluatedOf[k] \ cl, PayingWithin(k, n, cl)
    PROVE  PayingWithin(k, n, cl \cup {c})
<1>1. EvaluatedOf[k] \ (cl \cup {c}) = (EvaluatedOf[k] \ cl) \ {c}
  OBVIOUS
<1>2. /\ EvaluatedOf[k] \ cl \in SUBSET EvaluatedOf[k] /\ (EvaluatedOf[k] \ cl) \ {c} \in SUBSET EvaluatedOf[k]
      /\ cl \cup {c} \in SUBSET EvaluatedOf[k] /\ c \in Paying(k)!Candidates
  BY DEF PayingConstants
<1>3. SumOver(PayingOver(k, n), EvaluatedOf[k] \ cl) = PayingOver(k, n)[c] + SumOver(PayingOver(k, n), (EvaluatedOf[k] \ cl) \ {c})
  BY <1>2, PayingSumsOf, SumRest
<1>4. SumOver(PayingLeft(k, n), cl \cup {c}) = PayingLeft(k, n)[c] + SumOver(PayingLeft(k, n), cl)
  BY <1>2, PayingSumsOf, SumMore
<1>5. PayingOver(k, n)[c] \in Int /\ PayingLeft(k, n)[c] \in Int /\ 0 <= PayingLeft(k, n)[c] + PayingOver(k, n)[c]
  BY <1>2 DEF PayingOver, PayingLeft, Paying!Extra, PayingConstants
<1>6. /\ SumOver(PayingOver(k, n), (EvaluatedOf[k] \ cl) \ {c}) \in Int /\ SumOver(PayingLeft(k, n), cl) \in Int
  BY <1>2, PayingSumsOf
<1>7. SumOver(PayingOver(k, n), EvaluatedOf[k] \ cl) <= SumOver(PayingLeft(k, n), cl)
  BY DEF PayingWithin
<1>8. SumOver(PayingOver(k, n), (EvaluatedOf[k] \ cl) \ {c}) <= SumOver(PayingLeft(k, n), cl \cup {c})
  BY <1>3, <1>4, <1>5, <1>6, <1>7
<1> QED BY <1>1, <1>8 DEF PayingWithin

LEMMA PayingReservingKeepsWithin ==
    ASSUME NEW k, PayingConstants(k), NEW n \in [Paying(k)!Candidates -> Int],
           NEW e \in [Paying(k)!Candidates -> Int],
           \A c \in Paying(k)!Candidates : n[c] <= e[c], NEW cl \in SUBSET EvaluatedOf[k],
           NEW o \in Paying(k)!Candidates \ cl, PayingWithin(k, n, cl),
           o \notin EvaluatedOf[k] => e[o] + CallReservation <= LimitOf[k][o],
           o \in EvaluatedOf[k] =>
                /\ SumOver(e, EvaluatedOf[k]) + CallReservation <= PhaseLimitOf[k]
                /\ Paying(k)!Extra(e[o] + CallReservation, o) + SumOver(PayingOver(k, e), (EvaluatedOf[k] \ cl) \ {o})
                     <= SumOver(PayingLeft(k, e), cl)
    PROVE  PayingWithin(k, [n EXCEPT ![o] = @ + CallReservation], cl)
<1> DEFINE m == [n EXCEPT ![o] = @ + CallReservation]
           R == (EvaluatedOf[k] \ cl) \ {o}
<1>1. /\ CallReservation \in Int /\ m \in [Paying(k)!Candidates -> Int] /\ m[o] = n[o] + CallReservation
      /\ \A x \in Paying(k)!Candidates : x # o => m[x] = n[x]
  BY DEF PayingConstants
<1>2. /\ EvaluatedOf[k] \in SUBSET EvaluatedOf[k] /\ EvaluatedOf[k] \ cl \in SUBSET EvaluatedOf[k]
      /\ R \in SUBSET EvaluatedOf[k] /\ EvaluatedOf[k] \ {o} \in SUBSET EvaluatedOf[k]
  OBVIOUS
<1>3. \A x \in Paying(k)!Candidates : PayingOver(k, n)[x] <= PayingOver(k, e)[x] /\ PayingLeft(k, e)[x] <= PayingLeft(k, n)[x]
  BY DEF PayingOver, PayingLeft, Paying!Extra, PayingConstants
<1>4. \A x \in Paying(k)!Candidates : x # o => PayingOver(k, m)[x] = PayingOver(k, n)[x] /\ PayingLeft(k, m)[x] = PayingLeft(k, n)[x]
  BY <1>1 DEF PayingOver, PayingLeft, Paying!Extra
<1> HIDE DEF m, R
<1>5. SumOver(PayingLeft(k, e), cl) <= SumOver(PayingLeft(k, m), cl)
  <2>1. \A x \in cl : PayingLeft(k, e)[x] <= PayingLeft(k, m)[x]
    BY <1>3, <1>4, PayingSumsOf
  <2> QED BY <1>1, <2>1, PayingSumsOf, SumUpTo
<1>6. CASE o \notin EvaluatedOf[k]
  <2>1. SumOver(m, EvaluatedOf[k]) = SumOver(n, EvaluatedOf[k])
    BY <1>1, <1>2, <1>6, PayingSumsOf, SumSame
  <2>2. SumOver(PayingOver(k, m), EvaluatedOf[k] \ cl) = SumOver(PayingOver(k, n), EvaluatedOf[k] \ cl)
    BY <1>1, <1>2, <1>4, <1>6, PayingSumsOf, SumSame
  <2>3. SumOver(PayingLeft(k, m), cl) = SumOver(PayingLeft(k, n), cl)
    BY <1>1, <1>2, <1>4, <1>6, PayingSumsOf, SumSame
  <2>4. \A x \in Paying(k)!Candidates \ EvaluatedOf[k] : m[x] <= LimitOf[k][x]
    BY <1>1, <1>6 DEF PayingWithin, PayingConstants
  <2> QED BY <2>1, <2>2, <2>3, <2>4 DEF PayingWithin, m
<1>7. CASE o \in EvaluatedOf[k]
  <2>1. SumOver(m, EvaluatedOf[k]) = m[o] + SumOver(m, EvaluatedOf[k] \ {o})
    BY <1>1, <1>2, <1>7, PayingSumsOf, SumRest
  <2>2. SumOver(n, EvaluatedOf[k]) = n[o] + SumOver(n, EvaluatedOf[k] \ {o})
    BY <1>1, <1>2, <1>7, PayingSumsOf, SumRest
  <2>3. SumOver(m, EvaluatedOf[k] \ {o}) = SumOver(n, EvaluatedOf[k] \ {o})
    BY <1>1, <1>2, PayingSumsOf, SumSame
  <2>4. SumOver(n, EvaluatedOf[k]) <= SumOver(e, EvaluatedOf[k])
    BY <1>2, PayingSumsOf, SumUpTo
  <2>5. /\ SumOver(n, EvaluatedOf[k] \ {o}) \in Int /\ SumOver(e, EvaluatedOf[k]) \in Int /\ n[o] \in Int
        /\ PhaseLimitOf[k] \in Int
    BY <1>2, PayingSumsOf DEF PayingConstants
  <2>6. SumOver(e, EvaluatedOf[k]) + CallReservation <= PhaseLimitOf[k]
    BY <1>7
  <2>7. SumOver(m, EvaluatedOf[k]) <= PhaseLimitOf[k]
    BY <1>1, <2>1, <2>2, <2>3, <2>4, <2>5, <2>6
  <2>8. SumOver(PayingOver(k, m), EvaluatedOf[k] \ cl) = PayingOver(k, m)[o] + SumOver(PayingOver(k, m), R)
    <3>1. o \in EvaluatedOf[k] \ cl
      BY <1>7
    <3> QED BY <1>1, <1>2, <3>1, PayingSumsOf, SumRest DEF R
  <2>9. SumOver(PayingOver(k, m), R) <= SumOver(PayingOver(k, e), R)
    <3>1. \A x \in R : PayingOver(k, m)[x] <= PayingOver(k, e)[x]
      BY <1>2, <1>3, <1>4, PayingSumsOf DEF R
    <3> QED BY <1>1, <1>2, <3>1, PayingSumsOf, SumUpTo
  <2>10. PayingOver(k, m)[o] <= Paying(k)!Extra(e[o] + CallReservation, o) /\ PayingOver(k, m)[o] \in Int /\ Paying(k)!Extra(e[o] + CallReservation, o) \in Int
    BY <1>1 DEF PayingOver, Paying!Extra, PayingConstants
  <2>11. Paying(k)!Extra(e[o] + CallReservation, o) + SumOver(PayingOver(k, e), R) <= SumOver(PayingLeft(k, e), cl)
    BY <1>7 DEF R
  <2>12. /\ SumOver(PayingOver(k, m), R) \in Int /\ SumOver(PayingOver(k, e), R) \in Int
         /\ SumOver(PayingLeft(k, e), cl) \in Int /\ SumOver(PayingLeft(k, m), cl) \in Int
    BY <1>1, <1>2, PayingSumsOf
  <2>13. SumOver(PayingOver(k, m), EvaluatedOf[k] \ cl) <= SumOver(PayingLeft(k, m), cl)
    BY <1>5, <2>8, <2>9, <2>10, <2>11, <2>12
  <2>14. \A x \in Paying(k)!Candidates \ EvaluatedOf[k] : m[x] <= LimitOf[k][x]
    BY <1>1, <1>7 DEF PayingWithin
  <2> QED BY <2>7, <2>13, <2>14 DEF PayingWithin, m
<1> QED BY <1>6, <1>7

-----------------------------------------------------------------------------
(* A request that was answered and charged within its reservation.         *)
PayingGood(k, q) ==
    /\ reservation[q].state = "SETTLED" /\ reservation[q].usage_known
    /\ reservation[q].cost <= CallReservation
    /\ sent[q] = 1

(* The first n requests of run j were, and it counts what they cost.       *)
PayingSpent(k, j, n) ==
    /\ \A i \in 1..n : PayingGood(k, <<j.task, i>>)
    /\ j.cost = SumOver(PayingPaid(k, reservation), {j.task} \X (1..n))

(* A row of the ledger.                                                    *)
PayingRow(k, q) ==
    /\ reservation[q].state \in {"NONE", "RELEASED"} => reservation[q].cost = 0 /\ sent[q] = 0
    /\ reservation[q].state = "RESERVED" => reservation[q].cost = CallReservation
    /\ (reservation[q].state = "SETTLED" /\ reservation[q].usage_known) => sent[q] = 1

PayingCalling == {"SEND", "AWAIT"}

(* A run of a task: its earlier requests were answered, and nobody else    *)
(* has released the one it is at.                                          *)
PayingRunning(k, j) ==
    /\ j.pc # "IDLE" => j.status = "NONE" /\ PayingSpent(k, j, j.index - 1)
    /\ j.pc \in PayingCalling => reservation[<<j.task, j.index>>].state \in {"RESERVED", "SETTLED"}
    /\ j.pc = "SEND" => sent[<<j.task, j.index>>] = 0
    /\ j.pc = "AWAIT" => sent[<<j.task, j.index>>] = 1
    /\ j.status = "SUCCEEDED" => PayingSpent(k, j, j.index)

(* No request is made for two runs.                                        *)
PayingApart(j, l) == (j.pc \in PayingCalling /\ l.pc \in PayingCalling) => <<j.task, j.index>> # <<l.task, l.index>>

PayingInv(k) ==
    /\ Paying(k)!TypeOK
    /\ \A q \in Paying(k)!Requests : PayingRow(k, q)
    /\ \A r \in Runners : PayingRunning(k, job[r])
    /\ \A r, s \in Runners : r # s => PayingApart(job[r], job[s])
    /\ PayingWithin(k, PayingCounts(k, reservation), closed)

LEMMA PayingDomains ==
    ASSUME NEW k, PayingConstants(k)
    PROVE  /\ 1 \in 1..ModelCalls /\ ModelCalls \in Nat /\ CallReservation \in Nat
           /\ \A t \in TasksOf[k] : \A i \in 1..ModelCalls : <<t, i>> \in Paying(k)!Requests
           /\ \A q \in Paying(k)!Requests : \E t \in TasksOf[k] : \E i \in 1..ModelCalls : q = <<t, i>>
BY DEF PayingConstants, Paying!Requests

LEMMA PayingMadeRequests ==
    ASSUME NEW k, PayingConstants(k), NEW t \in TasksOf[k], NEW n \in 0..ModelCalls
    PROVE  /\ {t} \X (1..n) \subseteq Paying(k)!Requests /\ IsFiniteSet({t} \X (1..n))
           /\ \A i \in 1..n : <<t, i>> \in Paying(k)!Requests
<1>1. {t} \X (1..n) \subseteq Paying(k)!Requests /\ \A i \in 1..n : <<t, i>> \in Paying(k)!Requests
  BY DEF PayingConstants, Paying!Requests
<1>2. IsFiniteSet({t} \X (1..n))
  BY <1>1, PayingRequests, FS_Subset
<1> QED BY <1>1, <1>2

(* One request more costs what it was charged.                             *)
LEMMA PayingOneMore ==
    ASSUME NEW k, PayingConstants(k), NEW u \in [Paying(k)!Requests -> Paying(k)!Reservations],
           NEW t \in TasksOf[k], NEW n \in 1..ModelCalls
    PROVE  SumOver(PayingPaid(k, u), {t} \X (1..n)) = u[<<t, n>>].cost + SumOver(PayingPaid(k, u), {t} \X (1..(n - 1)))
<1> DEFINE S == {t} \X (1..(n - 1))
<1>1. n - 1 \in 0..ModelCalls /\ n \in 0..ModelCalls
  BY PayingDomains
<1>2. IsFiniteSet(S) /\ {t} \X (1..n) \subseteq Paying(k)!Requests /\ <<t, n>> \in Paying(k)!Requests
  BY <1>1, PayingMadeRequests, PayingDomains
<1>3. {t} \X (1..n) = S \cup {<<t, n>>} /\ <<t, n>> \notin S
  <2>1. 1..n = (1..(n - 1)) \cup {n} /\ n \notin 1..(n - 1)
    BY PayingDomains
  <2> QED BY <2>1
<1>4. \A q \in Paying(k)!Requests : PayingPaid(k, u)[q] = u[q].cost /\ PayingPaid(k, u)[q] \in Int
  BY DEF PayingPaid, Paying!Reservations
<1> HIDE DEF S
<1>5. SumOver(PayingPaid(k, u), S \cup {<<t, n>>}) = PayingPaid(k, u)[<<t, n>>] + SumOver(PayingPaid(k, u), S)
  BY <1>2, <1>3, <1>4, SumMore
<1> QED BY <1>2, <1>3, <1>4, <1>5 DEF S

LEMMA PayingNothingMade ==
    ASSUME NEW k, NEW u, NEW t
    PROVE  SumOver(PayingPaid(k, u), {t} \X (1..0)) = 0
<1>1. {t} \X (1..0) = {}
  OBVIOUS
<1> QED BY <1>1, SumNone

LEMMA PayingInit == ASSUME NEW k, PayingConstants(k), Paying(k)!Init PROVE PayingInv(k)
<1>1. /\ reservation \in [Paying(k)!Requests -> Paying(k)!Reservations] /\ closed \subseteq EvaluatedOf[k]
      /\ sent \in [Paying(k)!Requests -> 0..1]
      /\ \A q \in Paying(k)!Requests : reservation[q].state = "NONE" /\ reservation[q].cost = 0 /\ sent[q] = 0
  BY DEF Paying!Init, Paying!NoReservation, Paying!Reservations, Paying!States
<1>2. (CHOOSE t \in TasksOf[k] : TRUE) \in TasksOf[k]
  BY DEF PayingConstants
<1>3. /\ job \in [Runners -> Paying(k)!JobRecord]
      /\ \A r \in Runners : job[r].pc = "IDLE" /\ job[r].status = "NONE"
  BY <1>2, PayingDomains DEF Paying!Init, Paying!JobRecord, Paying!Statuses
<1>4. Paying(k)!TypeOK
  BY <1>1, <1>3 DEF Paying!TypeOK
<1>5. PayingWithin(k, PayingCounts(k, reservation), closed)
  <2>1. \A q \in Paying(k)!Requests : PayingCount(k, reservation)[q] = 0
    BY <1>1 DEF PayingCount, PayingConstants
  <2>2. \A c \in Paying(k)!Candidates : PayingCounts(k, reservation)[c] = 0
    BY <2>1, PayingRequests, SumZero DEF PayingCounts
  <2>3. \A c \in Paying(k)!Candidates : PayingOver(k, PayingCounts(k, reservation))[c] = 0
    BY <2>2 DEF PayingOver, Paying!Extra, PayingConstants
  <2>4. closed = {} /\ EvaluatedOf[k] \ closed = EvaluatedOf[k]
    BY DEF Paying!Init
  <2>5. /\ SumOver(PayingCounts(k, reservation), EvaluatedOf[k]) = 0
        /\ SumOver(PayingOver(k, PayingCounts(k, reservation)), EvaluatedOf[k]) = 0
    BY <2>2, <2>3, SumZero DEF PayingConstants
  <2>6. SumOver(PayingLeft(k, PayingCounts(k, reservation)), {}) = 0
    BY SumNone
  <2> QED BY <2>2, <2>4, <2>5, <2>6 DEF PayingWithin, PayingConstants
<1>6. ASSUME NEW q \in Paying(k)!Requests PROVE PayingRow(k, q)
  BY <1>1 DEF PayingRow
<1>7. ASSUME NEW r \in Runners PROVE PayingRunning(k, job[r])
  BY <1>3 DEF PayingRunning, PayingCalling
<1>8. ASSUME NEW r \in Runners, NEW s \in Runners PROVE PayingApart(job[r], job[s])
  BY <1>3 DEF PayingApart, PayingCalling
<1> QED BY <1>4, <1>5, <1>6, <1>7, <1>8 DEF PayingInv

-----------------------------------------------------------------------------
(* The commitments of the next ledger v: settling and releasing only let   *)
(* them fall, and a reservation adds to those of its candidate.            *)
LEMMA PayingCommitmentsFall ==
    ASSUME NEW k, PayingConstants(k), NEW u \in [Paying(k)!Requests -> Paying(k)!Reservations],
           NEW v \in [Paying(k)!Requests -> Paying(k)!Reservations],
           \A q \in Paying(k)!Requests : PayingCount(k, v)[q] <= PayingCount(k, u)[q],
           NEW cl \in SUBSET EvaluatedOf[k], PayingWithin(k, PayingCounts(k, u), cl)
    PROVE  PayingWithin(k, PayingCounts(k, v), cl)
<1>1. ASSUME NEW c \in Paying(k)!Candidates
      PROVE  PayingCounts(k, u)[c] \in Int /\ PayingCounts(k, v)[c] \in Int /\ PayingCounts(k, v)[c] <= PayingCounts(k, u)[c]
  <2>1. IsFiniteSet(PayingRequestsOf(k, c)) /\ PayingRequestsOf(k, c) \subseteq Paying(k)!Requests
    BY PayingRequests
  <2>2. \A q \in Paying(k)!Requests : PayingCount(k, u)[q] \in Int /\ PayingCount(k, v)[q] \in Int
    BY <1>1, PayingSumsOfCosts
  <2>3. SumOver(PayingCount(k, v), PayingRequestsOf(k, c)) <= SumOver(PayingCount(k, u), PayingRequestsOf(k, c))
    BY <2>1, <2>2, SumUpTo
  <2> QED BY <2>3, PayingSumsOfCosts DEF PayingCounts
<1>2. PayingCounts(k, u) \in [Paying(k)!Candidates -> Int] /\ PayingCounts(k, v) \in [Paying(k)!Candidates -> Int]
  BY <1>1 DEF PayingCounts
<1> QED BY <1>1, <1>2, PayingFallsKeepWithin

LEMMA PayingCommitmentAdded ==
    ASSUME NEW k, PayingConstants(k), NEW u \in [Paying(k)!Requests -> Paying(k)!Reservations],
           NEW v \in [Paying(k)!Requests -> Paying(k)!Reservations], NEW q \in Paying(k)!Requests,
           u[q].cost = 0, v[q].cost = CallReservation,
           \A p \in Paying(k)!Requests : p # q => v[p] = u[p],
           NEW o \in Paying(k)!Candidates, o = PayerOf[q[1]]
    PROVE  /\ PayingCounts(k, v)[o] = PayingCounts(k, u)[o] + CallReservation
           /\ \A c \in Paying(k)!Candidates : c # o => PayingCounts(k, v)[c] = PayingCounts(k, u)[c]
<1>1. CallReservation \in Nat
  BY DEF PayingConstants
<1>2. PayingCount(k, u)[q] = 0 /\ PayingCount(k, v)[q] = CallReservation
  BY <1>1 DEF PayingCount
<1>3. \A p \in Paying(k)!Requests : p # q => PayingCount(k, v)[p] = PayingCount(k, u)[p]
  BY <1>1 DEF PayingCount
<1>4. \A p \in Paying(k)!Requests : PayingCount(k, u)[p] \in Int /\ PayingCount(k, v)[p] \in Int
  BY PayingSumsOfCosts
<1>5. ASSUME NEW c \in Paying(k)!Candidates, c # o PROVE PayingCounts(k, v)[c] = PayingCounts(k, u)[c]
  <2>1. IsFiniteSet(PayingRequestsOf(k, c)) /\ PayingRequestsOf(k, c) \subseteq Paying(k)!Requests /\ q \notin PayingRequestsOf(k, c)
    BY <1>5, PayingRequests DEF PayingRequestsOf
  <2>2. SumOver(PayingCount(k, v), PayingRequestsOf(k, c)) = SumOver(PayingCount(k, u), PayingRequestsOf(k, c))
    BY <1>3, <2>1, SumSame
  <2> QED BY <2>2 DEF PayingCounts
<1>6. PayingCounts(k, v)[o] = PayingCounts(k, u)[o] + CallReservation
  <2>1. IsFiniteSet(PayingRequestsOf(k, o)) /\ PayingRequestsOf(k, o) \subseteq Paying(k)!Requests /\ q \in PayingRequestsOf(k, o)
        /\ o \in Paying(k)!Candidates
    BY PayingRequests
  <2> DEFINE S == PayingRequestsOf(k, o)
  <2>2. SumOver(PayingCount(k, v), S) = PayingCount(k, v)[q] + SumOver(PayingCount(k, v), S \ {q})
    BY <1>4, <2>1, SumRest
  <2>3. SumOver(PayingCount(k, u), S) = PayingCount(k, u)[q] + SumOver(PayingCount(k, u), S \ {q})
    BY <1>4, <2>1, SumRest
  <2>4. IsFiniteSet(S \ {q}) /\ S \ {q} \subseteq Paying(k)!Requests
    BY <2>1, FS_Subset
  <2>5. SumOver(PayingCount(k, v), S \ {q}) = SumOver(PayingCount(k, u), S \ {q})
    BY <1>3, <2>4, SumSame
  <2>6. SumOver(PayingCount(k, u), S \ {q}) \in Int
    BY <1>4, <2>4, SumType
  <2>7. SumOver(PayingCount(k, v), S) = SumOver(PayingCount(k, u), S) + CallReservation
    BY <1>1, <1>2, <2>2, <2>3, <2>5, <2>6
  <2> QED BY <2>1, <2>7 DEF PayingCounts
<1> QED BY <1>5, <1>6

-----------------------------------------------------------------------------
(* What was answered and charged stays as it is.                           *)
LEMMA PayingSpentStays ==
    ASSUME NEW k, PayingConstants(k), Paying(k)!TypeOK, Paying(k)!TypeOK',
           \A q \in Paying(k)!Requests : PayingGood(k, q) => reservation'[q] = reservation[q] /\ sent'[q] = sent[q],
           NEW j \in Paying(k)!JobRecord, NEW n \in 0..ModelCalls, PayingSpent(k, j, n)
    PROVE  PayingSpent(k, j, n)'
<1>1. j.task \in TasksOf[k]
  BY DEF Paying!JobRecord
<1>2. {j.task} \X (1..n) \subseteq Paying(k)!Requests /\ IsFiniteSet({j.task} \X (1..n))
      /\ \A i \in 1..n : <<j.task, i>> \in Paying(k)!Requests
  BY <1>1, PayingMadeRequests
<1>3. \A q \in {j.task} \X (1..n) : PayingGood(k, q) /\ q \in Paying(k)!Requests
  BY <1>2 DEF PayingSpent
<1>4. \A q \in {j.task} \X (1..n) : PayingPaid(k, reservation')[q] = PayingPaid(k, reservation)[q]
  BY <1>3 DEF PayingPaid
<1>5. SumOver(PayingPaid(k, reservation'), {j.task} \X (1..n)) = SumOver(PayingPaid(k, reservation), {j.task} \X (1..n))
  BY <1>2, <1>4, SumSame
<1>6. ASSUME NEW i \in 1..n PROVE PayingGood(k, <<j.task, i>>)'
  <2>1. PayingGood(k, <<j.task, i>>) /\ <<j.task, i>> \in Paying(k)!Requests
    BY <1>2 DEF PayingSpent
  <2> QED BY <2>1 DEF PayingGood
<1>7. j.cost = SumOver(PayingPaid(k, reservation'), {j.task} \X (1..n))
  BY <1>5 DEF PayingSpent
<1> QED BY <1>6, <1>7 DEF PayingSpent

LEMMA PayingJobTypes ==
    ASSUME NEW k, PayingConstants(k), NEW j \in Paying(k)!JobRecord
    PROVE  /\ j.task \in TasksOf[k] /\ j.index \in 1..ModelCalls /\ j.cost \in Nat
           /\ <<j.task, j.index>> \in Paying(k)!Requests
           /\ j.index \in 0..ModelCalls /\ j.index - 1 \in 0..ModelCalls
BY PayingDomains DEF Paying!JobRecord

(* So a run that is not at the request that changes goes on as it was.     *)
LEMMA PayingRunningStays ==
    ASSUME NEW k, PayingConstants(k), Paying(k)!TypeOK, Paying(k)!TypeOK',
           \A q \in Paying(k)!Requests : PayingGood(k, q) => reservation'[q] = reservation[q] /\ sent'[q] = sent[q],
           NEW j \in Paying(k)!JobRecord, PayingRunning(k, j),
           j.pc \in PayingCalling =>
               /\ reservation'[<<j.task, j.index>>].state \in {"RESERVED", "SETTLED"}
               /\ sent'[<<j.task, j.index>>] = sent[<<j.task, j.index>>]
    PROVE  PayingRunning(k, j)'
<1>1. j.pc # "IDLE" => j.status = "NONE" /\ PayingSpent(k, j, j.index - 1)'
  BY PayingJobTypes, PayingSpentStays DEF PayingRunning
<1>2. j.status = "SUCCEEDED" => PayingSpent(k, j, j.index)'
  BY PayingJobTypes, PayingSpentStays DEF PayingRunning
<1>3. j.pc = "SEND" => sent'[<<j.task, j.index>>] = 0
  BY DEF PayingRunning, PayingCalling
<1>4. j.pc = "AWAIT" => sent'[<<j.task, j.index>>] = 1
  BY DEF PayingRunning, PayingCalling
<1> QED BY <1>1, <1>2, <1>3, <1>4 DEF PayingRunning

(* A run at a request is alone with it.                                    *)
LEMMA PayingAlone ==
    ASSUME NEW k, PayingInv(k), NEW r \in Runners, NEW s \in Runners, r # s,
           job[r].pc \in PayingCalling, job[s].pc \in PayingCalling
    PROVE  <<job[s].task, job[s].index>> # Paying(k)!RequestOf(r)
BY DEF PayingInv, PayingApart, Paying!RequestOf

LEMMA PayingJobsAt ==
    ASSUME NEW k, PayingConstants(k), PayingInv(k), NEW r \in Runners
    PROVE  /\ job[r] \in Paying(k)!JobRecord /\ Paying(k)!RequestOf(r) = <<job[r].task, job[r].index>>
           /\ Paying(k)!RequestOf(r) \in Paying(k)!Requests /\ PayingRow(k, Paying(k)!RequestOf(r)) /\ PayingRunning(k, job[r])
           /\ reservation[Paying(k)!RequestOf(r)] \in Paying(k)!Reservations /\ sent[Paying(k)!RequestOf(r)] \in 0..1
<1>1. job[r] \in Paying(k)!JobRecord /\ Paying(k)!RequestOf(r) = <<job[r].task, job[r].index>> /\ PayingRunning(k, job[r])
  BY DEF PayingInv, Paying!TypeOK, Paying!RequestOf
<1>2. Paying(k)!RequestOf(r) \in Paying(k)!Requests
  BY <1>1, PayingJobTypes
<1> QED BY <1>1, <1>2 DEF PayingInv, Paying!TypeOK

-----------------------------------------------------------------------------
(* A step of run r at its request q: it was alone with q, or q was not     *)
(* made yet, or no row changes and r does not call the model.              *)
LEMMA PayingStepAt ==
    ASSUME NEW k, PayingConstants(k), PayingInv(k), Paying(k)!TypeOK', NEW r \in Runners,
           \A s \in Runners : s # r => job'[s] = job[s],
           NEW q \in Paying(k)!Requests, q = Paying(k)!RequestOf(r),
           \A p \in Paying(k)!Requests : p # q => reservation'[p] = reservation[p] /\ sent'[p] = sent[p],
           PayingGood(k, q) => reservation'[q] = reservation[q] /\ sent'[q] = sent[q],
           PayingRow(k, q)', PayingRunning(k, job[r])',
           \/ job[r].pc \in PayingCalling
           \/ reservation[q].state = "NONE"
           \/ reservation' = reservation /\ sent' = sent /\ job'[r].pc \notin PayingCalling,
           job'[r].pc \in PayingCalling => <<job'[r].task, job'[r].index>> = q,
           PayingWithin(k, PayingCounts(k, reservation'), closed')
    PROVE  PayingInv(k)'
<1>1. \A p \in Paying(k)!Requests : PayingGood(k, p) => reservation'[p] = reservation[p] /\ sent'[p] = sent[p]
  OBVIOUS
<1>2. ASSUME NEW p \in Paying(k)!Requests PROVE PayingRow(k, p)'
  <2>1. PayingRow(k, p)
    BY DEF PayingInv
  <2>2. CASE p # q
    BY <2>1, <2>2 DEF PayingRow
  <2> QED BY <2>2
<1>3. ASSUME NEW s \in Runners, s # r,
             job[s].pc \in PayingCalling, <<job[s].task, job[s].index>> = q
      PROVE  reservation' = reservation /\ sent' = sent /\ job'[r].pc \notin PayingCalling
  <2>1. job[r].pc \notin PayingCalling
    BY <1>3, PayingAlone
  <2>2. reservation[q].state # "NONE"
    BY <1>3, PayingJobsAt DEF PayingRunning
  <2> QED BY <2>1, <2>2
<1>4. ASSUME NEW s \in Runners PROVE PayingRunning(k, job[s])'
  <2>1. CASE s = r
    BY <2>1
  <2>2. CASE s # r
    <3>1. job'[s] = job[s] /\ job[s] \in Paying(k)!JobRecord /\ PayingRunning(k, job[s])
          /\ <<job[s].task, job[s].index>> \in Paying(k)!Requests /\ Paying(k)!TypeOK
      BY <2>2, PayingJobsAt DEF PayingInv
    <3> DEFINE p == <<job[s].task, job[s].index>>
    <3>2. ASSUME job[s].pc \in PayingCalling
          PROVE  reservation'[p].state \in {"RESERVED", "SETTLED"} /\ sent'[p] = sent[p]
      <4>1. reservation'[p] = reservation[p] /\ sent'[p] = sent[p]
        BY <1>3, <2>2, <3>1, <3>2
      <4> QED BY <3>1, <3>2, <4>1 DEF PayingRunning
    <3> DEFINE j == job[s]
    <3>3. PayingRunning(k, j)'
      <4>1. PICK l \in Paying(k)!JobRecord : l = job[s]
        BY <3>1
      <4>2. PayingRunning(k, l) /\ (l.pc \in PayingCalling =>
               /\ reservation'[<<l.task, l.index>>].state \in {"RESERVED", "SETTLED"}
               /\ sent'[<<l.task, l.index>>] = sent[<<l.task, l.index>>])
        BY <3>1, <3>2, <4>1
      <4>3. PayingRunning(k, l)'
        BY <1>1, <3>1, <4>2, PayingRunningStays
      <4>4. l = job'[s]
        BY <3>1, <4>1
      <4> QED BY <4>3, <4>4 DEF PayingRunning, PayingSpent, PayingGood
    <3> QED BY <3>3
  <2> QED BY <2>1, <2>2
<1>5. ASSUME NEW s \in Runners, NEW o \in Runners, s # o PROVE PayingApart(job[s], job[o])'
  <2>1. CASE s # r /\ o # r
    BY <1>5, <2>1 DEF PayingInv, PayingApart
  <2>2. CASE s = r
    BY <1>3, <1>5, <2>2 DEF PayingApart
  <2>3. CASE o = r
    BY <1>3, <1>5, <2>3 DEF PayingApart
  <2> QED BY <2>1, <2>2, <2>3
<1> QED BY <1>2, <1>4, <1>5 DEF PayingInv

LEMMA PayingRunKeeps ==
    ASSUME NEW k, PayingConstants(k), PayingInv(k), NEW r \in Runners, NEW t \in TasksOf[k],
           Paying(k)!Run(r, t)
    PROVE  PayingInv(k)'
<1>1. PICK q \in Paying(k)!Requests : q = Paying(k)!RequestOf(r)
  BY PayingJobsAt
<1>2. /\ reservation' = reservation /\ sent' = sent /\ closed' = closed
      /\ \A s \in Runners : s # r => job'[s] = job[s]
  BY DEF Paying!Run, PayingInv, Paying!TypeOK
<1>3. job' = [job EXCEPT ![r] = [pc |-> "RESERVE", task |-> t, index |-> 1, cost |-> 0, status |-> "NONE"]]
  BY DEF Paying!Run
<1>4. job'[r] = [pc |-> "RESERVE", task |-> t, index |-> 1, cost |-> 0, status |-> "NONE"]
  BY <1>3 DEF PayingInv, Paying!TypeOK
<1>5. Paying(k)!TypeOK'
  BY <1>2, <1>3, PayingDomains DEF PayingInv, Paying!TypeOK, Paying!JobRecord, Paying!Statuses
<1>6. PayingRunning(k, job[r])'
  <2>1. job'[r].cost = SumOver(PayingPaid(k, reservation'), {job'[r].task} \X (1..0)) /\ 1 - 1 = 0
        /\ 1..0 = {}
    BY <1>4, PayingNothingMade
  <2> QED BY <1>4, <2>1 DEF PayingRunning, PayingSpent, PayingCalling
<1>7. PayingRow(k, q)'
  BY <1>2, PayingJobsAt, <1>1 DEF PayingRow
<1> QED BY <1>1, <1>2, <1>4, <1>5, <1>6, <1>7, PayingStepAt DEF PayingCalling, PayingInv

(* A return that does not succeed, without a change of the ledger.         *)
LEMMA PayingReturnKeeps ==
    ASSUME NEW k, PayingConstants(k), PayingInv(k),
           NEW r \in Runners, UNCHANGED <<reservation, closed, sent>>,
           NEW c \in Nat, NEW stat \in Paying(k)!Statuses \ {"SUCCEEDED"},
           job' = [job EXCEPT ![r].pc = "IDLE", ![r].status = stat, ![r].cost = c]
    PROVE  PayingInv(k)'
<1>1. PICK q \in Paying(k)!Requests : q = Paying(k)!RequestOf(r)
  BY PayingJobsAt
<1>2. job \in [Runners -> Paying(k)!JobRecord]
  BY DEF PayingInv, Paying!TypeOK
<1>3. /\ \A s \in Runners : s # r => job'[s] = job[s]
      /\ job'[r].pc = "IDLE" /\ job'[r].status # "SUCCEEDED" /\ job'[r] \in Paying(k)!JobRecord
      /\ job' \in [Runners -> Paying(k)!JobRecord]
  BY <1>2 DEF Paying!JobRecord
<1>4. Paying(k)!TypeOK'
  BY <1>3 DEF PayingInv, Paying!TypeOK
<1>5. PayingRunning(k, job[r])'
  BY <1>3 DEF PayingRunning, PayingCalling
<1>6. PayingRow(k, q)'
  BY PayingJobsAt, <1>1 DEF PayingRow
<1> QED BY <1>1, <1>2, <1>3, <1>4, <1>5, <1>6, PayingStepAt DEF PayingCalling, PayingInv

LEMMA PayingCrashKeeps ==
    ASSUME NEW k, PayingConstants(k), PayingInv(k), NEW r \in Runners, Paying(k)!Crash(r)
    PROVE  PayingInv(k)'
<1>1. job[r] \in Paying(k)!JobRecord
  BY PayingJobsAt
<1>2. job' = [job EXCEPT ![r].pc = "IDLE", ![r].status = "STOPPED", ![r].cost = job[r].cost]
  BY <1>1 DEF Paying!Crash, Paying!Return, PayingInv, Paying!TypeOK, Paying!JobRecord
<1>3. job[r].cost \in Nat /\ "STOPPED" \in Paying(k)!Statuses \ {"SUCCEEDED"}
  BY <1>1 DEF Paying!JobRecord, Paying!Statuses
<1> QED BY <1>2, <1>3, PayingReturnKeeps DEF Paying!Crash

LEMMA PayingSendKeeps ==
    ASSUME NEW k, PayingConstants(k), PayingInv(k), NEW r \in Runners, Paying(k)!Send(r)
    PROVE  PayingInv(k)'
<1>1. PICK q \in Paying(k)!Requests : q = Paying(k)!RequestOf(r)
  BY PayingJobsAt
<1>2. /\ job[r] \in Paying(k)!JobRecord /\ job[r].pc = "SEND" /\ sent[q] = 0 /\ q = <<job[r].task, job[r].index>>
      /\ job[r].status = "NONE" /\ PayingSpent(k, job[r], job[r].index - 1)
      /\ reservation[q].state \in {"RESERVED", "SETTLED"} /\ PayingRow(k, q)
  BY <1>1, PayingJobsAt DEF Paying!Send, Paying!At, PayingRunning, PayingCalling
<1>3. /\ reservation' = reservation /\ closed' = closed
      /\ sent' = [sent EXCEPT ![q] = 1]
      /\ job' = [job EXCEPT ![r].pc = "AWAIT"]
  <2>1. sent' = [sent EXCEPT ![q] = @ + 1]
    BY <1>1 DEF Paying!Send
  <2> QED BY <1>1, <1>2, <2>1 DEF Paying!Send, Paying!Goto, PayingInv, Paying!TypeOK
<1>4. /\ \A s \in Runners : s # r => job'[s] = job[s]
      /\ job'[r] = [job[r] EXCEPT !.pc = "AWAIT"] /\ job'[r] \in Paying(k)!JobRecord
      /\ \A p \in Paying(k)!Requests : p # q => sent'[p] = sent[p]
      /\ sent'[q] = 1
  BY <1>2, <1>3 DEF PayingInv, Paying!TypeOK, Paying!JobRecord
<1>5. Paying(k)!TypeOK'
  BY <1>3, <1>4 DEF PayingInv, Paying!TypeOK
<1>6. ~PayingGood(k, q)
  BY <1>2 DEF PayingGood
<1>7. PayingRow(k, q)'
  BY <1>2, <1>3, <1>4 DEF PayingRow
<1>8. PayingRunning(k, job[r])'
  <2>1. PICK l \in Paying(k)!JobRecord : l = job[r]
    BY <1>2
  <2>2. PayingSpent(k, l, l.index - 1)'
    <3>1. \A p \in Paying(k)!Requests : PayingGood(k, p) => reservation'[p] = reservation[p] /\ sent'[p] = sent[p]
      BY <1>3, <1>4, <1>6
    <3>2. PayingSpent(k, l, l.index - 1) /\ l.index - 1 \in 0..ModelCalls /\ Paying(k)!TypeOK
      BY <1>2, <2>1, PayingJobTypes DEF PayingInv
    <3> QED BY <1>5, <3>1, <3>2, PayingSpentStays
  <2>3. /\ job'[r].task = l.task /\ job'[r].index = l.index /\ job'[r].cost = l.cost
        /\ job'[r].status = "NONE" /\ job'[r].pc = "AWAIT"
    BY <1>2, <1>4, <2>1 DEF Paying!JobRecord
  <2>4. PayingSpent(k, job[r], job[r].index - 1)'
    BY <2>2, <2>3 DEF PayingSpent, PayingGood
  <2>5. <<job'[r].task, job'[r].index>> = q
    BY <1>2, <2>1, <2>3
  <2>6. reservation'[q].state \in {"RESERVED", "SETTLED"} /\ sent'[q] = 1
    BY <1>2, <1>3, <1>4
  <2> QED BY <2>3, <2>4, <2>5, <2>6 DEF PayingRunning, PayingCalling
<1>9. job'[r].pc = "AWAIT" /\ <<job'[r].task, job'[r].index>> = q
  BY <1>2, <1>4 DEF Paying!JobRecord
<1>10. /\ job[r].pc \in PayingCalling
       /\ PayingWithin(k, PayingCounts(k, reservation'), closed')
       /\ \A p \in Paying(k)!Requests : p # q => reservation'[p] = reservation[p] /\ sent'[p] = sent[p]
  BY <1>2, <1>3, <1>4 DEF PayingCalling, PayingInv
<1> QED BY <1>1, <1>4, <1>5, <1>6, <1>7, <1>8, <1>9, <1>10, PayingStepAt

LEMMA PayingReserveKeeps ==
    ASSUME NEW k, PayingConstants(k), PayingInv(k), NEW r \in Runners, Paying(k)!Reserve(r)
    PROVE  PayingInv(k)'
<1>1. PICK q \in Paying(k)!Requests : q = Paying(k)!RequestOf(r)
  BY PayingJobsAt
<1>2. /\ job[r] \in Paying(k)!JobRecord /\ job[r].pc = "RESERVE" /\ q = <<job[r].task, job[r].index>>
      /\ job[r].status = "NONE" /\ PayingSpent(k, job[r], job[r].index - 1) /\ PayingRow(k, q)
  BY <1>1, PayingJobsAt DEF Paying!Reserve, Paying!At, PayingRunning
<1>3. CASE Paying(k)!Return(r, "BUDGET_EXCEEDED") /\ UNCHANGED reservation
  <2>1. job' = [job EXCEPT ![r].pc = "IDLE", ![r].status = "BUDGET_EXCEEDED", ![r].cost = job[r].cost]
    BY <1>2, <1>3 DEF Paying!Return, PayingInv, Paying!TypeOK, Paying!JobRecord
  <2>2. job[r].cost \in Nat /\ "BUDGET_EXCEEDED" \in Paying(k)!Statuses \ {"SUCCEEDED"}
    BY <1>2 DEF Paying!JobRecord, Paying!Statuses
  <2> QED BY <1>3, <2>1, <2>2, PayingReturnKeeps DEF Paying!Reserve
<1>4. CASE /\ reservation[q].state = "NONE" /\ Paying(k)!MayReserve(PayerOf[q[1]])
           /\ reservation' = [reservation EXCEPT ![q] =
                  [state |-> "RESERVED", cost |-> CallReservation, usage_known |-> FALSE]]
           /\ Paying(k)!Goto(r, "SEND")
  <2> DEFINE x == [state |-> "RESERVED", cost |-> CallReservation, usage_known |-> FALSE]
  <2>1. /\ x \in Paying(k)!Reservations /\ reservation[q].cost = 0 /\ sent[q] = 0
        /\ reservation \in [Paying(k)!Requests -> Paying(k)!Reservations] /\ sent' = sent /\ closed' = closed
        /\ closed \in SUBSET EvaluatedOf[k]
    BY <1>2, <1>4, PayingDomains DEF PayingRow, Paying!Reservations, Paying!States, Paying!Reserve, PayingInv, Paying!TypeOK
  <2>2. /\ reservation' \in [Paying(k)!Requests -> Paying(k)!Reservations] /\ reservation'[q] = x
        /\ \A p \in Paying(k)!Requests : p # q => reservation'[p] = reservation[p]
    BY <1>4, <2>1
  <2>3. /\ \A s \in Runners : s # r => job'[s] = job[s]
        /\ job'[r] = [job[r] EXCEPT !.pc = "SEND"] /\ job'[r] \in Paying(k)!JobRecord
        /\ job' \in [Runners -> Paying(k)!JobRecord]
    BY <1>2, <1>4 DEF Paying!Goto, PayingInv, Paying!TypeOK, Paying!JobRecord
  <2>4. Paying(k)!TypeOK'
    BY <2>1, <2>2, <2>3 DEF PayingInv, Paying!TypeOK
  <2>5. ~PayingGood(k, q)
    BY <1>4 DEF PayingGood
  <2>6. PayingRow(k, q)'
    BY <2>1, <2>2 DEF PayingRow
  <2>7. PICK l \in Paying(k)!JobRecord : l = job[r]
    BY <1>2
  <2>8. PayingSpent(k, l, l.index - 1)'
    <3>1. \A p \in Paying(k)!Requests : PayingGood(k, p) => reservation'[p] = reservation[p] /\ sent'[p] = sent[p]
      BY <2>1, <2>2, <2>5
    <3>2. PayingSpent(k, l, l.index - 1) /\ l.index - 1 \in 0..ModelCalls /\ Paying(k)!TypeOK
      BY <1>2, <2>7, PayingJobTypes DEF PayingInv
    <3> QED BY <2>4, <3>1, <3>2, PayingSpentStays
  <2>9. /\ job'[r].task = l.task /\ job'[r].index = l.index /\ job'[r].cost = l.cost
        /\ job'[r].status = "NONE" /\ job'[r].pc = "SEND"
        /\ <<job'[r].task, job'[r].index>> = q
    BY <1>2, <2>3, <2>7 DEF Paying!JobRecord
  <2>10. PayingRunning(k, job[r])'
    <3>1. PayingSpent(k, job[r], job[r].index - 1)'
      BY <2>8, <2>9 DEF PayingSpent, PayingGood
    <3>2. reservation'[q].state = "RESERVED" /\ sent'[q] = 0
      BY <2>1, <2>2
    <3> QED BY <2>9, <3>1, <3>2 DEF PayingRunning, PayingCalling
  <2>11. PayingWithin(k, PayingCounts(k, reservation'), closed')
    <3> DEFINE n == PayingCounts(k, reservation)
               e == PayingSpends(k, reservation)
    <3>1. PICK o \in Paying(k)!Candidates : o = PayerOf[q[1]]
      BY PayingRequests
    <3>2. Paying(k)!MayReserve(o)
      BY <1>4, <3>1
    <3>3. n \in [Paying(k)!Candidates -> Int] /\ e \in [Paying(k)!Candidates -> Int] /\ \A c \in Paying(k)!Candidates : n[c] <= e[c]
      BY <2>1, PayingSumsOfCosts DEF PayingCounts, PayingSpends
    <3>4. PayingWithin(k, n, closed)
      BY DEF PayingInv
    <3> HIDE DEF n, e
    <3>5. /\ o \notin closed
          /\ o \notin EvaluatedOf[k] => e[o] + CallReservation <= LimitOf[k][o]
          /\ o \in EvaluatedOf[k] =>
                /\ SumOver(e, EvaluatedOf[k]) + CallReservation <= PhaseLimitOf[k]
                /\ Paying(k)!Extra(e[o] + CallReservation, o) + SumOver(PayingOver(k, e), (EvaluatedOf[k] \ closed) \ {o})
                     <= SumOver(PayingLeft(k, e), closed)
      BY <2>1, <3>2, PayingMayReserveIs DEF e
    <3>6. PayingWithin(k, [n EXCEPT ![o] = @ + CallReservation], closed)
      <4>1. PICK known \in SUBSET EvaluatedOf[k] : known = closed
        BY <2>1
      <4> QED BY <3>3, <3>4, <3>5, <4>1, PayingReservingKeepsWithin
    <3>7. x \in Paying(k)!Reservations /\ x.cost = CallReservation
      BY <2>1
    <3> HIDE DEF x
    <3>8. PayingCounts(k, reservation') = [n EXCEPT ![o] = @ + CallReservation]
      <4>1. PICK u \in [Paying(k)!Requests -> Paying(k)!Reservations] : u = reservation
        BY DEF PayingInv, Paying!TypeOK
      <4>2. u[q].cost = 0 /\ reservation' = [u EXCEPT ![q] = x]
        BY <1>4, <2>1, <4>1 DEF x
      <4>3. PICK v \in [Paying(k)!Requests -> Paying(k)!Reservations] : v = reservation'
        BY <3>7, <4>2
      <4>4. v[q].cost = CallReservation /\ \A p \in Paying(k)!Requests : p # q => v[p] = u[p]
        BY <3>7, <4>2, <4>3
      <4>6. u[q].cost = 0
        BY <4>2
      <4>7. PayingCounts(k, v)[o] = PayingCounts(k, u)[o] + CallReservation
        BY <3>1, <4>4, <4>6, PayingCommitmentAdded
      <4>8. \A c \in Paying(k)!Candidates : c # o => PayingCounts(k, v)[c] = PayingCounts(k, u)[c]
        BY <3>1, <4>4, <4>6, PayingCommitmentAdded
      <4> QED BY <4>1, <4>3, <4>7, <4>8 DEF n, PayingCounts
    <3> QED BY <2>1, <3>6, <3>8
  <2> QED BY <1>1, <1>4, <2>1, <2>2, <2>3, <2>4, <2>5, <2>6, <2>9, <2>10, <2>11, PayingStepAt
<1> QED BY <1>1, <1>3, <1>4 DEF Paying!Reserve

LEMMA PayingReleaseLateKeeps ==
    ASSUME NEW k, PayingConstants(k), PayingInv(k), NEW r \in Runners, Paying(k)!ReleaseLate(r)
    PROVE  PayingInv(k)'
<1>1. PICK q \in Paying(k)!Requests : q = Paying(k)!RequestOf(r)
  BY PayingJobsAt
<1>2. /\ job[r] \in Paying(k)!JobRecord /\ job[r].pc = "SEND" /\ job[r].status = "NONE"
      /\ sent[q] = 0 /\ reservation[q].state \in {"RESERVED", "SETTLED"} /\ PayingRow(k, q)
      /\ reservation[q] \in Paying(k)!Reservations /\ sent' = sent /\ closed' = closed
  BY <1>1, PayingJobsAt DEF Paying!ReleaseLate, Paying!At, PayingRunning, PayingCalling
<1>3. CASE Paying(k)!Return(r, "STOPPED") /\ UNCHANGED reservation
  <2>1. job' = [job EXCEPT ![r].pc = "IDLE", ![r].status = "STOPPED", ![r].cost = job[r].cost]
    BY <1>2, <1>3 DEF Paying!Return, PayingInv, Paying!TypeOK, Paying!JobRecord
  <2>2. job[r].cost \in Nat /\ "STOPPED" \in Paying(k)!Statuses \ {"SUCCEEDED"}
    BY <1>2 DEF Paying!JobRecord, Paying!Statuses
  <2> QED BY <1>2, <1>3, <2>1, <2>2, PayingReturnKeeps
<1>4. CASE Paying(k)!Release(Paying(k)!RequestOf(r)) /\ Paying(k)!Return(r, "MODEL_ERROR")
  <2>1. /\ reservation[q].state = "RESERVED"
        /\ reservation' = [reservation EXCEPT ![q].state = "RELEASED", ![q].cost = 0]
    BY <1>1, <1>2, <1>4 DEF Paying!Release
  <2>2. /\ reservation \in [Paying(k)!Requests -> Paying(k)!Reservations] /\ reservation' \in [Paying(k)!Requests -> Paying(k)!Reservations]
        /\ reservation'[q].state = "RELEASED" /\ reservation'[q].cost = 0
        /\ \A p \in Paying(k)!Requests : p # q => reservation'[p] = reservation[p]
    BY <2>1, PayingDomains DEF PayingInv, Paying!TypeOK, Paying!Reservations, Paying!States
  <2>3. /\ \A s \in Runners : s # r => job'[s] = job[s]
        /\ job'[r].pc = "IDLE" /\ job'[r].status = "MODEL_ERROR"
        /\ job' \in [Runners -> Paying(k)!JobRecord]
    BY <1>2, <1>4 DEF Paying!Return, PayingInv, Paying!TypeOK, Paying!JobRecord, Paying!Statuses
  <2>4. Paying(k)!TypeOK'
    BY <1>2, <2>2, <2>3 DEF PayingInv, Paying!TypeOK
  <2>5. ~PayingGood(k, q)
    BY <2>1 DEF PayingGood
  <2>6. PayingRow(k, q)'
    BY <1>2, <2>2 DEF PayingRow
  <2>7. PayingRunning(k, job[r])'
    BY <2>3 DEF PayingRunning, PayingCalling
  <2>8. PayingWithin(k, PayingCounts(k, reservation'), closed')
    <3>1. \A p \in Paying(k)!Requests : PayingCount(k, reservation')[p] <= PayingCount(k, reservation)[p]
      BY <2>2, PayingDomains DEF PayingCount, Paying!Reservations
    <3>2. PayingWithin(k, PayingCounts(k, reservation), closed) /\ closed \in SUBSET EvaluatedOf[k]
      BY DEF PayingInv, Paying!TypeOK
    <3> QED BY <1>2, <2>2, <3>1, <3>2, PayingCommitmentsFall
  <2> QED BY <1>1, <1>2, <2>2, <2>3, <2>4, <2>5, <2>6, <2>7, <2>8, PayingStepAt DEF PayingCalling
<1> QED BY <1>1, <1>3, <1>4 DEF Paying!ReleaseLate

-----------------------------------------------------------------------------
(* A settlement x of the request that run r waits for, and what r makes of *)
(* it: it ends without success, or succeeds or goes on with an answer that *)
(* was charged within its reservation.                                     *)
LEMMA PayingSettleKeeps ==
    ASSUME NEW k, PayingConstants(k), PayingInv(k), NEW r \in Runners,
           Paying(k)!At(r, "AWAIT"), UNCHANGED <<closed, sent>>,
           NEW q \in Paying(k)!Requests, q = Paying(k)!RequestOf(r),
           NEW x \in Paying(k)!Reservations, x.state = "SETTLED",
           reservation[q].state = "RESERVED" \/ reservation[q] = x,
           reservation' = [reservation EXCEPT ![q] = x],
           NEW y \in Paying(k)!JobRecord, job' = [job EXCEPT ![r] = y],
           \/ y.pc = "IDLE" /\ y.status # "SUCCEEDED"
           \/ /\ x.usage_known /\ x.cost <= CallReservation
              /\ y.task = job[r].task /\ y.cost = job[r].cost + x.cost
              /\ \/ y.pc = "IDLE" /\ y.index = job[r].index
                 \/ y.pc = "RESERVE" /\ y.status = "NONE" /\ y.index = job[r].index + 1
    PROVE  PayingInv(k)'
<1>1. /\ job[r] \in Paying(k)!JobRecord /\ job[r].pc = "AWAIT" /\ q = <<job[r].task, job[r].index>>
      /\ job[r].status = "NONE" /\ PayingSpent(k, job[r], job[r].index - 1) /\ PayingRow(k, q)
      /\ sent[q] = 1
  BY PayingJobsAt DEF Paying!At, PayingRunning, PayingCalling
<1>2. /\ reservation \in [Paying(k)!Requests -> Paying(k)!Reservations] /\ reservation' \in [Paying(k)!Requests -> Paying(k)!Reservations]
      /\ reservation'[q] = x /\ sent' = sent /\ closed' = closed /\ closed \in SUBSET EvaluatedOf[k]
      /\ \A p \in Paying(k)!Requests : p # q => reservation'[p] = reservation[p]
  BY DEF PayingInv, Paying!TypeOK
<1>3. /\ \A s \in Runners : s # r => job'[s] = job[s]
      /\ job'[r] = y /\ job' \in [Runners -> Paying(k)!JobRecord]
  BY DEF PayingInv, Paying!TypeOK
<1>4. Paying(k)!TypeOK'
  BY <1>2, <1>3 DEF PayingInv, Paying!TypeOK
<1>5. \A p \in Paying(k)!Requests : PayingGood(k, p) => reservation'[p] = reservation[p] /\ sent'[p] = sent[p]
  BY <1>2 DEF PayingGood
<1>6. PayingRow(k, q)'
  BY <1>1, <1>2 DEF PayingRow
<1>7. PayingWithin(k, PayingCounts(k, reservation'), closed')
  <2>1. \A p \in Paying(k)!Requests : PayingCount(k, reservation')[p] <= PayingCount(k, reservation)[p]
    <3>1. PayingRow(k, q)
      BY <1>1
    <3> QED BY <1>2, <3>1, PayingDomains DEF PayingRow, PayingCount, Paying!Reservations
  <2>2. PayingWithin(k, PayingCounts(k, reservation), closed)
    BY DEF PayingInv
  <2>3. PICK u \in [Paying(k)!Requests -> Paying(k)!Reservations] : u = reservation
    BY DEF PayingInv, Paying!TypeOK
  <2>4. PICK v \in [Paying(k)!Requests -> Paying(k)!Reservations] : v = reservation'
    BY <1>2
  <2>5. PICK cl \in SUBSET EvaluatedOf[k] : cl = closed /\ cl = closed'
    BY DEF PayingInv, Paying!TypeOK
  <2>6. PayingWithin(k, PayingCounts(k, u), cl)
    BY <2>2, <2>3, <2>5
  <2>7. \A p \in Paying(k)!Requests : PayingCount(k, v)[p] <= PayingCount(k, u)[p]
    BY <2>1, <2>3, <2>4
  <2>8. PayingWithin(k, PayingCounts(k, v), cl)
    BY <2>6, <2>7, PayingCommitmentsFall, ZenonT(60)
  <2> QED BY <2>4, <2>5, <2>8
<1>8. CASE y.pc = "IDLE" /\ y.status # "SUCCEEDED"
  <2>1. PayingRunning(k, job[r])'
    BY <1>3, <1>8 DEF PayingRunning, PayingCalling
  <2> QED BY <1>1, <1>2, <1>3, <1>4, <1>5, <1>6, <1>7, <1>8, <2>1, PayingStepAt DEF PayingCalling
<1>9. CASE /\ x.usage_known /\ x.cost <= CallReservation
           /\ y.task = job[r].task /\ y.cost = job[r].cost + x.cost
           /\ \/ y.pc = "IDLE" /\ y.index = job[r].index
              \/ y.pc = "RESERVE" /\ y.status = "NONE" /\ y.index = job[r].index + 1
  <2>1. PICK l \in Paying(k)!JobRecord : l = job[r]
    BY <1>1
  <2>2. PICK i \in 1..ModelCalls : i = l.index
    BY <2>1, PayingJobTypes
  <2>3. i \in Nat /\ i - 1 \in 0..ModelCalls /\ l.task \in TasksOf[k] /\ q = <<l.task, i>>
    BY <1>1, <2>1, <2>2, PayingJobTypes
  <2>4. PayingSpent(k, l, i - 1)'
    <3>1. PayingSpent(k, l, i - 1) /\ Paying(k)!TypeOK
      BY <1>1, <2>1, <2>2 DEF PayingInv
    <3> QED BY <1>4, <1>5, <2>3, <3>1, PayingSpentStays
  <2>5. PayingGood(k, <<l.task, i>>)'
    BY <1>1, <1>2, <1>9, <2>3 DEF PayingGood
  <2>6. \A h \in 1..i : PayingGood(k, <<l.task, h>>)'
    <3>1. \A h \in 1..i : h = i \/ h \in 1..(i - 1)
      BY <2>3
    <3>2. \A h \in 1..(i - 1) : PayingGood(k, <<l.task, h>>)'
      BY <2>4 DEF PayingSpent
    <3>3. ASSUME NEW h \in 1..i PROVE PayingGood(k, <<l.task, h>>)'
      <4>1. CASE h = i
        BY <2>5, <4>1
      <4>2. CASE h \in 1..(i - 1)
        BY <3>2, <4>2
      <4> QED BY <3>1, <4>1, <4>2
    <3> QED BY <3>3
  <2>7. l.cost + x.cost = SumOver(PayingPaid(k, reservation'), {l.task} \X (1..i))
    <3>1. PICK v \in [Paying(k)!Requests -> Paying(k)!Reservations] : v = reservation'
      BY <1>2
    <3>2. l.cost = SumOver(PayingPaid(k, v), {l.task} \X (1..(i - 1)))
      BY <2>4, <3>1 DEF PayingSpent
    <3>3. SumOver(PayingPaid(k, v), {l.task} \X (1..i)) = v[<<l.task, i>>].cost + SumOver(PayingPaid(k, v), {l.task} \X (1..(i - 1)))
      <4>1. PICK t \in TasksOf[k] : t = l.task
        BY <2>3
      <4>2. PICK h \in 1..ModelCalls : h = i
        BY <2>3
      <4>3. SumOver(PayingPaid(k, v), {t} \X (1..h)) = v[<<t, h>>].cost + SumOver(PayingPaid(k, v), {t} \X (1..(h - 1)))
        BY PayingOneMore, SMTT(60)
      <4> QED BY <4>1, <4>2, <4>3
    <3>4. v[<<l.task, i>>] = x /\ x.cost \in Nat /\ l.cost \in Nat
      BY <1>2, <2>3, <3>1, PayingJobTypes DEF Paying!Reservations
    <3>5. PICK c \in Nat : c = l.cost /\ c = SumOver(PayingPaid(k, v), {l.task} \X (1..(i - 1)))
      BY <3>2, <3>4
    <3> QED BY <3>1, <3>3, <3>4, <3>5
  <2>8. /\ y.task = l.task /\ y.cost = l.cost + x.cost
        /\ \/ y.pc = "IDLE" /\ y.index = i
           \/ y.pc = "RESERVE" /\ y.status = "NONE" /\ y.index - 1 = i
    BY <1>9, <2>1, <2>2, <2>3
  <2>9. PayingRunning(k, job[r])'
    <3>1. PayingSpent(k, y, i)'
      BY <2>6, <2>7, <2>8 DEF PayingSpent
    <3>2. PayingRunning(k, y)'
      BY <2>8, <3>1 DEF PayingRunning, PayingCalling
    <3> QED BY <1>3, <3>2 DEF PayingRunning, PayingSpent, PayingGood
  <2>10. job'[r].pc \notin PayingCalling
    BY <1>3, <2>8 DEF PayingCalling
  <2> QED BY <1>1, <1>2, <1>3, <1>4, <1>5, <1>6, <1>7, <2>9, <2>10, PayingStepAt DEF PayingCalling
<1> QED BY <1>8, <1>9

LEMMA PayingCharged ==
    ASSUME NEW k, PayingConstants(k), PayingInv(k), NEW q \in Paying(k)!Requests, NEW c \in Nat,
           NEW known \in BOOLEAN,
           Paying(k)!MaySettle(q, c, known), Paying(k)!Charge(q, c, known)
    PROVE  /\ Paying(k)!Settled(c, known) \in Paying(k)!Reservations /\ Paying(k)!Settled(c, known).state = "SETTLED"
           /\ Paying(k)!Settled(c, known).cost = c /\ Paying(k)!Settled(c, known).usage_known = known
           /\ reservation[q].state = "RESERVED" \/ reservation[q] = Paying(k)!Settled(c, known)
           /\ reservation' = [reservation EXCEPT ![q] = Paying(k)!Settled(c, known)]
BY DEF Paying!MaySettle, Paying!Charge, Paying!Settled, Paying!Reservations, Paying!States

LEMMA PayingChargedInFull ==
    ASSUME NEW k, PayingConstants(k), PayingInv(k), NEW q \in Paying(k)!Requests,
           Paying(k)!MaySettle(q, CallReservation, FALSE), Paying(k)!Charge(q, CallReservation, FALSE)
    PROVE  LET x == Paying(k)!Settled(CallReservation, FALSE)
           IN  /\ x \in Paying(k)!Reservations /\ x.state = "SETTLED"
               /\ reservation[q].state = "RESERVED" \/ reservation[q] = x
               /\ reservation' = [reservation EXCEPT ![q] = x]
BY DEF PayingConstants, Paying!MaySettle, Paying!Charge, Paying!Settled, Paying!Reservations, Paying!States

LEMMA PayingFinished ==
    ASSUME NEW k, PayingConstants(k), PayingInv(k), NEW r \in Runners,
           NEW stat \in Paying(k)!Statuses, NEW c \in Nat, Paying(k)!Finish(r, stat, c)
    PROVE  \E y \in Paying(k)!JobRecord : /\ job' = [job EXCEPT ![r] = y]
                                /\ y.pc = "IDLE" /\ y.status = stat /\ y.task = job[r].task
                                /\ y.index = job[r].index /\ y.cost = job[r].cost + c
<1>1. job[r] \in Paying(k)!JobRecord /\ job \in [Runners -> Paying(k)!JobRecord]
  BY DEF PayingInv, Paying!TypeOK
<1> DEFINE n == job[r].cost + c
           y == [job[r] EXCEPT !.pc = "IDLE", !.status = stat, !.cost = n]
<1>0. n \in Nat
  <2>1. PICK h \in Nat : h = job[r].cost
    BY <1>1, PayingJobTypes
  <2>2. h + c \in Nat
    OBVIOUS
  <2> QED BY <2>1, <2>2
<1> HIDE DEF n
<1>2. y \in Paying(k)!JobRecord /\ y.pc = "IDLE" /\ y.status = stat /\ y.task = job[r].task
      /\ y.index = job[r].index /\ y.cost = n
  BY <1>0, <1>1 DEF Paying!JobRecord
<1>3. job' = [job EXCEPT ![r] = y]
  BY <1>1 DEF Paying!Finish, n
<1> QED BY <1>2, <1>3 DEF n

LEMMA PayingAnswerKeeps ==
    ASSUME NEW k, PayingConstants(k), PayingInv(k), NEW r \in Runners, NEW paid \in CallCosts,
           Paying(k)!Answer(r, paid)
    PROVE  PayingInv(k)'
<1>1. PICK q \in Paying(k)!Requests : q = Paying(k)!RequestOf(r)
  BY PayingJobsAt
<1>2. paid \in Nat /\ CallReservation \in Nat /\ job[r] \in Paying(k)!JobRecord /\ job[r].cost \in Nat
  BY PayingJobsAt, PayingJobTypes DEF PayingConstants
<1>3. Paying(k)!At(r, "AWAIT") /\ UNCHANGED <<closed, sent>>
  BY DEF Paying!Answer
<1>4. CASE Paying(k)!MaySettle(q, paid, TRUE) /\ Paying(k)!Charge(q, paid, TRUE) /\ Paying(k)!Answered(r, paid)
  <2> DEFINE x == Paying(k)!Settled(paid, TRUE)
  <2>1. /\ x \in Paying(k)!Reservations /\ x.state = "SETTLED" /\ x.cost = paid /\ x.usage_known
        /\ reservation[q].state = "RESERVED" \/ reservation[q] = x
        /\ reservation' = [reservation EXCEPT ![q] = x]
    BY <1>2, <1>4, PayingCharged
  <2>2. \E y \in Paying(k)!JobRecord :
           /\ job' = [job EXCEPT ![r] = y]
           /\ \/ y.pc = "IDLE" /\ y.status # "SUCCEEDED"
              \/ /\ paid <= CallReservation
                 /\ y.task = job[r].task /\ y.cost = job[r].cost + paid
                 /\ \/ y.pc = "IDLE" /\ y.index = job[r].index
                    \/ y.pc = "RESERVE" /\ y.status = "NONE" /\ y.index = job[r].index + 1
    <3>1. CASE Paying(k)!Finish(r, "BUDGET_EXCEEDED", paid)
      <4>1. "BUDGET_EXCEEDED" \in Paying(k)!Statuses
        BY DEF Paying!Statuses
      <4> QED BY <1>2, <3>1, <4>1, PayingFinished
    <3>2. CASE paid <= CallReservation /\ \E s \in {"SUCCEEDED", "MODEL_ERROR", "DENIED"} : Paying(k)!Finish(r, s, paid)
      <4>1. PICK s \in Paying(k)!Statuses : Paying(k)!Finish(r, s, paid)
        BY <3>2 DEF Paying!Statuses
      <4> QED BY <1>2, <3>2, <4>1, PayingFinished
    <3>3. CASE paid <= CallReservation /\ job[r].index < ModelCalls /\ Paying(k)!GoOn(r, paid)
      <4> DEFINE i == job[r].index + 1
                 n == job[r].cost + paid
                 y == [job[r] EXCEPT !.pc = "RESERVE", !.index = i, !.cost = n]
      <4>1. job' = [job EXCEPT ![r] = y]
        BY <1>2, <3>3 DEF Paying!GoOn, PayingInv, Paying!TypeOK
      <4>2. job[r].status = "NONE"
        BY <1>3, PayingJobsAt DEF Paying!At, PayingRunning
      <4>3. i \in 1..ModelCalls /\ n \in Nat
        <5>1. PICK h \in 1..ModelCalls : h = job[r].index
          BY <1>2, PayingJobTypes
        <5>2. h < ModelCalls /\ h + 1 \in 1..ModelCalls
          BY <3>3, <5>1, PayingDomains
        <5> QED BY <1>2, <5>1, <5>2
      <4> HIDE DEF i, n
      <4>4. y \in Paying(k)!JobRecord /\ y.pc = "RESERVE" /\ y.status = "NONE" /\ y.task = job[r].task
            /\ y.index = i /\ y.cost = n
        BY <1>2, <4>2, <4>3 DEF Paying!JobRecord
      <4> HIDE DEF y
      <4> QED BY <3>3, <4>1, <4>4 DEF i, n
    <3>4. CASE paid > CallReservation
      BY <1>4, <3>1, <3>4 DEF Paying!Answered
    <3>5. CASE ~(paid > CallReservation)
      BY <1>2, <1>4, <3>1, <3>2, <3>3, <3>5 DEF Paying!Answered
    <3> QED BY <3>4, <3>5
  <2> HIDE DEF x
  <2> QED BY <1>1, <1>3, <2>1, <2>2, PayingSettleKeeps
<1>5. CASE Paying(k)!Finish(r, "RECONCILE", paid) /\ UNCHANGED reservation
  <2>1. job' = [job EXCEPT ![r].pc = "IDLE", ![r].status = "RECONCILE", ![r].cost = job[r].cost + paid]
    BY <1>2, <1>5 DEF Paying!Finish, PayingInv, Paying!TypeOK
  <2>2. job[r].cost + paid \in Nat /\ "RECONCILE" \in Paying(k)!Statuses \ {"SUCCEEDED"}
    BY <1>2 DEF Paying!Statuses
  <2> QED BY <1>3, <1>5, <2>1, <2>2, PayingReturnKeeps
<1> QED BY <1>1, <1>4, <1>5 DEF Paying!Answer

LEMMA PayingSettleUnknownKeeps ==
    ASSUME NEW k, PayingConstants(k), PayingInv(k), NEW r \in Runners, Paying(k)!SettleUnknown(r)
    PROVE  PayingInv(k)'
<1>1. PICK q \in Paying(k)!Requests : q = Paying(k)!RequestOf(r)
  BY PayingJobsAt
<1>2. CallReservation \in Nat /\ job[r] \in Paying(k)!JobRecord /\ job[r].cost \in Nat
  BY PayingJobsAt, PayingJobTypes DEF PayingConstants
<1>3. Paying(k)!At(r, "AWAIT") /\ UNCHANGED <<closed, sent>>
  BY DEF Paying!SettleUnknown
<1>4. CASE /\ Paying(k)!MaySettle(q, CallReservation, FALSE) /\ Paying(k)!Charge(q, CallReservation, FALSE)
           /\ \E s \in {"MODEL_ERROR", "BUDGET_EXCEEDED"} : Paying(k)!Finish(r, s, CallReservation)
  <2> DEFINE x == Paying(k)!Settled(CallReservation, FALSE)
  <2>1. /\ x \in Paying(k)!Reservations /\ x.state = "SETTLED"
        /\ reservation[q].state = "RESERVED" \/ reservation[q] = x
        /\ reservation' = [reservation EXCEPT ![q] = x]
    BY <1>2, <1>4, PayingChargedInFull
  <2>2. PICK s \in Paying(k)!Statuses \ {"SUCCEEDED"} : Paying(k)!Finish(r, s, CallReservation)
    BY <1>4 DEF Paying!Statuses
  <2>3. PICK y \in Paying(k)!JobRecord : job' = [job EXCEPT ![r] = y] /\ y.pc = "IDLE" /\ y.status = s
    BY <1>2, <2>2, PayingFinished
  <2> HIDE DEF x
  <2> QED BY <1>1, <1>3, <2>1, <2>2, <2>3, PayingSettleKeeps
<1>5. CASE Paying(k)!Return(r, "RECONCILE") /\ UNCHANGED reservation
  <2>1. job' = [job EXCEPT ![r].pc = "IDLE", ![r].status = "RECONCILE", ![r].cost = job[r].cost]
    BY <1>2, <1>5 DEF Paying!Return, PayingInv, Paying!TypeOK, Paying!JobRecord
  <2>2. "RECONCILE" \in Paying(k)!Statuses \ {"SUCCEEDED"}
    BY DEF Paying!Statuses
  <2> QED BY <1>2, <1>3, <1>5, <2>1, <2>2, PayingReturnKeeps
<1> QED BY <1>1, <1>4, <1>5 DEF Paying!SettleUnknown

LEMMA PayingCancelKeeps ==
    ASSUME NEW k, PayingConstants(k), PayingInv(k), NEW r \in Runners, Paying(k)!Cancel(r)
    PROVE  PayingInv(k)'
<1>1. PICK q \in Paying(k)!Requests : q = Paying(k)!RequestOf(r)
  BY PayingJobsAt
<1>2. CallReservation \in Nat /\ job[r] \in Paying(k)!JobRecord
  BY PayingJobsAt DEF PayingConstants
<1>3. /\ Paying(k)!At(r, "AWAIT") /\ UNCHANGED <<closed, sent>>
      /\ Paying(k)!MaySettle(q, CallReservation, FALSE) /\ Paying(k)!Charge(q, CallReservation, FALSE) /\ Paying(k)!Return(r, "STOPPED")
  BY <1>1 DEF Paying!Cancel
<1> DEFINE x == Paying(k)!Settled(CallReservation, FALSE)
           y == [job[r] EXCEPT !.pc = "IDLE", !.status = "STOPPED"]
<1>4. /\ x \in Paying(k)!Reservations /\ x.state = "SETTLED"
      /\ reservation[q].state = "RESERVED" \/ reservation[q] = x
      /\ reservation' = [reservation EXCEPT ![q] = x]
  BY <1>2, <1>3, PayingChargedInFull
<1>5. y \in Paying(k)!JobRecord /\ y.pc = "IDLE" /\ y.status # "SUCCEEDED" /\ job' = [job EXCEPT ![r] = y]
  BY <1>2, <1>3 DEF Paying!Return, Paying!JobRecord, Paying!Statuses, PayingInv, Paying!TypeOK
<1> HIDE DEF x, y
<1> QED BY <1>1, <1>3, <1>4, <1>5, PayingSettleKeeps

-----------------------------------------------------------------------------
(* Steps of the ledger alone.                                              *)
LEMMA PayingReleaseAllowanceKeeps ==
    ASSUME NEW k, PayingConstants(k), PayingInv(k), NEW c \in Paying(k)!Candidates,
           Paying(k)!ReleaseAllowance(c)
    PROVE  PayingInv(k)'
<1>1. /\ c \in EvaluatedOf[k] \ closed /\ closed' = closed \cup {c}
      /\ reservation' = reservation /\ sent' = sent /\ job' = job
  BY DEF Paying!ReleaseAllowance
<1>2. Paying(k)!TypeOK'
  BY <1>1 DEF PayingInv, Paying!TypeOK
<1>3. PayingWithin(k, PayingCounts(k, reservation), closed \cup {c})
  <2>1. PayingCounts(k, reservation) \in [Paying(k)!Candidates -> Int]
    BY PayingSumsOfCosts DEF PayingCounts, PayingInv, Paying!TypeOK
  <2>2. PayingWithin(k, PayingCounts(k, reservation), closed) /\ closed \in SUBSET EvaluatedOf[k]
    BY DEF PayingInv, Paying!TypeOK
  <2> QED BY <1>1, <2>1, <2>2, PayingClosingKeepsWithin
<1>4. \A q \in Paying(k)!Requests : PayingRow(k, q)'
  BY <1>1 DEF PayingInv, PayingRow
<1>5. \A r \in Runners : PayingRunning(k, job[r])'
  BY <1>1 DEF PayingInv, PayingRunning, PayingSpent, PayingGood
<1>6. \A r, s \in Runners : r # s => PayingApart(job[r], job[s])'
  BY <1>1 DEF PayingInv, PayingApart
<1> QED BY <1>1, <1>2, <1>3, <1>4, <1>5, <1>6 DEF PayingInv

LEMMA PayingSettlePendingKeeps ==
    ASSUME NEW k, PayingConstants(k), PayingInv(k), NEW q \in Paying(k)!Requests,
           Paying(k)!SettlePending(q)
    PROVE  PayingInv(k)'
<1> DEFINE x == Paying(k)!Settled(CallReservation, FALSE)
<1>1. /\ reservation[q].state = "RESERVED" /\ closed' = closed /\ sent' = sent /\ job' = job
      /\ reservation' = [reservation EXCEPT ![q] = x]
  BY DEF Paying!SettlePending, Paying!Charge
<1>2. x \in Paying(k)!Reservations /\ x.state = "SETTLED" /\ x.cost = CallReservation /\ ~x.usage_known
  BY DEF Paying!Settled, Paying!Reservations, Paying!States, PayingConstants
<1>3. /\ reservation \in [Paying(k)!Requests -> Paying(k)!Reservations] /\ reservation' \in [Paying(k)!Requests -> Paying(k)!Reservations]
      /\ reservation'[q] = x /\ \A p \in Paying(k)!Requests : p # q => reservation'[p] = reservation[p]
  BY <1>1, <1>2 DEF PayingInv, Paying!TypeOK
<1> HIDE DEF x
<1>4. Paying(k)!TypeOK'
  BY <1>1, <1>2, <1>3 DEF PayingInv, Paying!TypeOK
<1>5. \A p \in Paying(k)!Requests : PayingGood(k, p) => reservation'[p] = reservation[p] /\ sent'[p] = sent[p]
  BY <1>1, <1>3 DEF PayingGood
<1>6. ASSUME NEW p \in Paying(k)!Requests PROVE PayingRow(k, p)'
  <2>1. PayingRow(k, p)
    BY DEF PayingInv
  <2> QED BY <1>1, <1>2, <1>3, <2>1 DEF PayingRow
<1>7. ASSUME NEW r \in Runners PROVE PayingRunning(k, job[r])'
  <2>1. PICK j \in Paying(k)!JobRecord : j = job[r]
    BY PayingJobsAt
  <2>2. Paying(k)!TypeOK /\ PayingRunning(k, j) /\ <<j.task, j.index>> \in Paying(k)!Requests
    BY <2>1, PayingJobsAt DEF PayingInv
  <2>3. j.pc \in PayingCalling =>
           /\ reservation'[<<j.task, j.index>>].state \in {"RESERVED", "SETTLED"}
           /\ sent'[<<j.task, j.index>>] = sent[<<j.task, j.index>>]
    BY <1>1, <1>2, <1>3, <2>2 DEF PayingRunning
  <2>4. PayingRunning(k, j)'
    BY <1>4, <1>5, <2>2, <2>3, PayingRunningStays
  <2> QED BY <1>1, <2>1, <2>4 DEF PayingRunning, PayingSpent, PayingGood
<1>8. \A r, s \in Runners : r # s => PayingApart(job[r], job[s])'
  BY <1>1 DEF PayingInv, PayingApart
<1>9. PayingWithin(k, PayingCounts(k, reservation'), closed')
  <2>1. \A p \in Paying(k)!Requests : PayingCount(k, reservation')[p] <= PayingCount(k, reservation)[p]
    <3>1. PayingRow(k, q)
      BY DEF PayingInv
    <3> QED BY <1>1, <1>2, <1>3, <3>1, PayingDomains DEF PayingRow, PayingCount, Paying!Reservations
  <2>2. PayingWithin(k, PayingCounts(k, reservation), closed) /\ closed \in SUBSET EvaluatedOf[k]
    BY DEF PayingInv, Paying!TypeOK
  <2> QED BY <1>1, <1>3, <2>1, <2>2, PayingCommitmentsFall
<1> QED BY <1>4, <1>6, <1>7, <1>8, <1>9 DEF PayingInv

LEMMA PayingStep == ASSUME NEW k, PayingConstants(k), PayingInv(k), [Paying(k)!Next]_(Paying(k)!vars) PROVE PayingInv(k)'
<1>1. CASE UNCHANGED Paying(k)!vars
  BY <1>1 DEF Paying!vars, PayingInv, Paying!TypeOK, PayingRow, PayingRunning, PayingSpent, PayingGood, PayingApart
<1>2. CASE Paying(k)!Next
  <2>1. CASE \E r \in Runners :
            \/ \E t \in TasksOf[k] : Paying(k)!Run(r, t)
            \/ Paying(k)!Reserve(r) \/ Paying(k)!ReleaseLate(r) \/ Paying(k)!Send(r) \/ Paying(k)!SettleUnknown(r)
            \/ \E paid \in CallCosts : Paying(k)!Answer(r, paid)
            \/ Paying(k)!Cancel(r) \/ Paying(k)!Crash(r)
    BY <2>1, PayingRunKeeps, PayingReserveKeeps, PayingReleaseLateKeeps, PayingSendKeeps, PayingSettleUnknownKeeps, PayingAnswerKeeps,
       PayingCancelKeeps, PayingCrashKeeps
  <2> QED BY <1>2, <2>1, PayingReleaseAllowanceKeeps, PayingSettlePendingKeeps DEF Paying!Next
<1> QED BY <1>1, <1>2

-----------------------------------------------------------------------------
(* What the invariant says of the runs, and of the calls that are paid.    *)
LEMMA PayingHolds ==
    ASSUME NEW k, PayingConstants(k), PayingInv(k)
    PROVE  Paying(k)!TypeOK /\ Paying(k)!CommittedWithinBudget /\ Paying(k)!OutcomesAreTrue
<1>1. Paying(k)!TypeOK /\ closed \subseteq EvaluatedOf[k]
  BY DEF PayingInv, Paying!TypeOK
<1>2. Paying(k)!CommittedWithinBudget
  BY <1>1, PayingBudgetIs DEF PayingInv
<1>3. ASSUME NEW r \in Runners, job[r].status = "SUCCEEDED"
      PROVE  LET made == {job[r].task} \X (1..job[r].index) IN
             /\ job[r].cost = Paying(k)!MapThenSumSet(LAMBDA q : reservation[q].cost, made)
             /\ \A q \in made : sent[q] = 1 /\ reservation[q].usage_known /\ reservation[q].cost <= CallReservation
  <2> DEFINE made == {job[r].task} \X (1..job[r].index)
  <2>1. PayingSpent(k, job[r], job[r].index) /\ job[r].task \in TasksOf[k] /\ job[r].index \in 0..ModelCalls
    BY <1>3, PayingJobsAt, PayingJobTypes DEF PayingRunning
  <2>2. made \subseteq Paying(k)!Requests
    BY <2>1, PayingMadeRequests
  <2>3. job[r].cost = SumOver(PayingPaid(k, reservation), made)
    BY <2>1 DEF PayingSpent
  <2>4. \A q \in made : PayingGood(k, q)
    BY <2>1 DEF PayingSpent
  <2> HIDE DEF made
  <2>5. Paying(k)!MapThenSumSet(LAMBDA q : reservation[q].cost, made) = SumOver(PayingPaid(k, reservation), made)
    BY <2>2, PayingPaidIs
  <2>6. \A q \in made : sent[q] = 1 /\ reservation[q].usage_known /\ reservation[q].cost <= CallReservation
    BY <2>4 DEF PayingGood
  <2> QED BY <2>3, <2>5, <2>6 DEF made
<1> QED BY <1>1, <1>2, <1>3 DEF Paying!OutcomesAreTrue

-----------------------------------------------------------------------------
(* The calls: which were reserved, and what the ledger says of them.       *)
PayingSays(v) ==
    IF v.state \in {"NONE", "RESERVED"} THEN "OPEN"
    ELSE IF v.state = "RELEASED" THEN "UNSENT" ELSE IF v.usage_known THEN "OK" ELSE "LOST"
PayingTold(k) == [q \in Paying(k)!Requests |-> PayingSays(reservation[q])]
PayingMade(k) == {q \in Paying(k)!Requests : reservation[q].state # "NONE"}

LEMMA PayingMapping ==
    ASSUME NEW k
    PROVE  /\ UNCHANGED <<PayingMade(k), sent, PayingTold(k)>> => UNCHANGED Paying(k)!CallsOnce!vars
           /\ \A q \in Paying(k)!Requests :
                /\ Paying(k)!CallsOnce!Reserve(q) <=>
                     q \notin PayingMade(k) /\ PayingMade(k)' = PayingMade(k) \cup {q} /\ UNCHANGED <<sent, PayingTold(k)>>
                /\ Paying(k)!CallsOnce!Send(q) <=>
                     /\ q \in PayingMade(k) /\ sent[q] = 0 /\ PayingTold(k)[q] \in {"OPEN", "LOST"}
                     /\ sent' = [sent EXCEPT ![q] = 1] /\ UNCHANGED <<PayingMade(k), PayingTold(k)>>
                /\ \A o : Paying(k)!CallsOnce!Settle(q, o) <=>
                     /\ q \in PayingMade(k) /\ PayingTold(k)[q] = "OPEN"
                     /\ o = "OK" => sent[q] = 1
                     /\ o = "UNSENT" => sent[q] = 0
                     /\ PayingTold(k)' = [PayingTold(k) EXCEPT ![q] = o]
                     /\ UNCHANGED <<PayingMade(k), sent>>
<1>1. PayingTold(k) = [q \in Paying(k)!Requests |->
                IF reservation[q].state \in {"NONE", "RESERVED"} THEN "OPEN"
                ELSE IF reservation[q].state = "RELEASED" THEN "UNSENT"
                ELSE IF reservation[q].usage_known THEN "OK" ELSE "LOST"]
  BY DEF PayingTold, PayingSays
<1>2. PayingTold(k)' = [q \in Paying(k)!Requests |->
                IF reservation'[q].state \in {"NONE", "RESERVED"} THEN "OPEN"
                ELSE IF reservation'[q].state = "RELEASED" THEN "UNSENT"
                ELSE IF reservation'[q].usage_known THEN "OK" ELSE "LOST"]
  BY DEF PayingTold, PayingSays
<1>3. PayingMade(k) = {q \in Paying(k)!Requests : reservation[q].state # "NONE"}
      /\ PayingMade(k)' = {q \in Paying(k)!Requests : reservation'[q].state # "NONE"}
  BY DEF PayingMade
<1> HIDE DEF PayingTold, PayingMade
<1> QED BY <1>1, <1>2, <1>3 DEF Paying!CallsOnce!vars, Paying!CallsOnce!Reserve, Paying!CallsOnce!Send, Paying!CallsOnce!Settle

PayingCalls(k) == [Paying(k)!CallsOnce!Next]_(Paying(k)!CallsOnce!vars)

LEMMA PayingCallsRest == ASSUME NEW k, UNCHANGED <<reservation, sent>> PROVE PayingCalls(k)
<1>1. UNCHANGED <<PayingMade(k), sent, PayingTold(k)>>
  BY DEF PayingMade, PayingTold
<1> QED BY <1>1, PayingMapping DEF PayingCalls

(* A settlement, or a release of what was not sent.                        *)
LEMMA PayingCallSettled ==
    ASSUME NEW k, PayingInv(k), NEW q \in Paying(k)!Requests, NEW x \in Paying(k)!Reservations,
           reservation' = [reservation EXCEPT ![q] = x], sent' = sent,
           reservation[q] # x => reservation[q].state = "RESERVED",
           \/ x.state = "SETTLED" /\ (x.usage_known => sent[q] = 1)
           \/ x.state = "RELEASED" /\ sent[q] = 0
    PROVE  PayingCalls(k)
<1>1. CASE reservation[q] = x
  <2>1. reservation' = reservation
    BY <1>1 DEF PayingInv, Paying!TypeOK
  <2> QED BY <2>1, PayingCallsRest
<1>2. CASE reservation[q].state = "RESERVED"
  <2>1. /\ q \in PayingMade(k) /\ PayingTold(k)[q] = "OPEN"
        /\ \A p \in Paying(k)!Requests : p # q => reservation'[p] = reservation[p]
        /\ reservation'[q] = x
    BY <1>2 DEF PayingMade, PayingTold, PayingSays, PayingInv, Paying!TypeOK
  <2>2. PayingMade(k)' = PayingMade(k)
    BY <2>1 DEF PayingMade
  <2>3. PayingTold(k)' = [PayingTold(k) EXCEPT ![q] = PayingSays(x)]
    <3>1. \A p \in Paying(k)!Requests : p # q => PayingTold(k)'[p] = PayingTold(k)[p]
      BY <2>1 DEF PayingTold
    <3>2. PayingTold(k)'[q] = PayingSays(x)
      BY <2>1 DEF PayingTold
    <3> QED BY <3>1, <3>2 DEF PayingTold
  <2>4. PICK o \in {"OK", "LOST", "UNSENT"} : o = PayingSays(x)
    BY DEF PayingSays
  <2>5. (o = "OK" => sent[q] = 1) /\ (o = "UNSENT" => sent[q] = 0)
    BY <2>4 DEF PayingSays
  <2>6. Paying(k)!CallsOnce!Settle(q, o)
    BY <2>1, <2>2, <2>3, <2>4, <2>5, PayingMapping
  <2> QED BY <2>6 DEF PayingCalls, Paying!CallsOnce!Next
<1> QED BY <1>1, <1>2

LEMMA PayingRefines ==
    ASSUME NEW k, PayingConstants(k), PayingInv(k), [Paying(k)!Next]_(Paying(k)!vars)
    PROVE  PayingCalls(k)
<1>1. CASE UNCHANGED Paying(k)!vars
  BY <1>1, PayingCallsRest DEF Paying!vars
<1>2. ASSUME NEW r \in Runners, NEW t \in TasksOf[k], Paying(k)!Run(r, t) PROVE PayingCalls(k)
  BY <1>2, PayingCallsRest DEF Paying!Run
<1>3. ASSUME NEW r \in Runners, Paying(k)!Reserve(r) PROVE PayingCalls(k)
  <2>1. PICK q \in Paying(k)!Requests : q = Paying(k)!RequestOf(r)
    BY PayingJobsAt
  <2>2. CASE UNCHANGED reservation
    BY <1>3, <2>2, PayingCallsRest DEF Paying!Reserve
  <2>3. CASE /\ reservation[q].state = "NONE"
             /\ reservation' = [reservation EXCEPT ![q] =
                    [state |-> "RESERVED", cost |-> CallReservation, usage_known |-> FALSE]]
    <3>1. /\ q \notin PayingMade(k) /\ sent' = sent /\ reservation'[q].state = "RESERVED"
          /\ \A p \in Paying(k)!Requests : p # q => reservation'[p] = reservation[p]
      BY <1>3, <2>3 DEF Paying!Reserve, PayingMade, PayingInv, Paying!TypeOK
    <3>2. PayingMade(k)' = PayingMade(k) \cup {q}
      BY <3>1 DEF PayingMade
    <3>3. PayingTold(k)' = PayingTold(k)
      <4>1. \A p \in Paying(k)!Requests : PayingTold(k)'[p] = PayingTold(k)[p]
        BY <2>3, <3>1 DEF PayingTold, PayingSays
      <4> QED BY <4>1 DEF PayingTold
    <3>4. Paying(k)!CallsOnce!Reserve(q)
      BY <3>1, <3>2, <3>3, PayingMapping
    <3> QED BY <3>4 DEF PayingCalls, Paying!CallsOnce!Next
  <2> QED BY <1>3, <2>1, <2>2, <2>3 DEF Paying!Reserve
<1>4. ASSUME NEW r \in Runners, Paying(k)!ReleaseLate(r) PROVE PayingCalls(k)
  <2>1. PICK q \in Paying(k)!Requests : q = Paying(k)!RequestOf(r)
    BY PayingJobsAt
  <2>2. CASE UNCHANGED reservation
    BY <1>4, <2>2, PayingCallsRest DEF Paying!ReleaseLate
  <2>3. CASE Paying(k)!Release(Paying(k)!RequestOf(r))
    <3>1. sent[q] = 0 /\ reservation[q].state = "RESERVED" /\ sent' = sent
      BY <1>4, <2>1, <2>3, PayingJobsAt DEF Paying!ReleaseLate, Paying!Release, Paying!At, PayingRunning, PayingCalling
    <3> DEFINE x == [reservation[q] EXCEPT !.state = "RELEASED", !.cost = 0]
    <3>0. Paying(k)!Release(q) /\ reservation[q] \in Paying(k)!Reservations
      BY <2>1, <2>3 DEF PayingInv, Paying!TypeOK
    <3>2. reservation' = [reservation EXCEPT ![q] = x] /\ x \in Paying(k)!Reservations /\ x.state = "RELEASED"
      BY <3>0 DEF Paying!Release, Paying!Reservations, Paying!States
    <3>3. PICK y \in Paying(k)!Reservations : y = x
      BY <3>2
    <3> HIDE DEF x
    <3>4. reservation' = [reservation EXCEPT ![q] = y]
      BY <3>2, <3>3
    <3>5. reservation[q] # y => reservation[q].state = "RESERVED"
      BY <3>1
    <3>6. \/ y.state = "SETTLED" /\ (y.usage_known => sent[q] = 1)
          \/ y.state = "RELEASED" /\ sent[q] = 0
      BY <3>1, <3>2, <3>3
    <3> QED BY <3>1, <3>4, <3>5, <3>6, PayingCallSettled, ZenonT(60)
  <2> QED BY <1>4, <2>1, <2>2, <2>3 DEF Paying!ReleaseLate
<1>5. ASSUME NEW r \in Runners, Paying(k)!Send(r) PROVE PayingCalls(k)
  <2>1. PICK q \in Paying(k)!Requests : q = Paying(k)!RequestOf(r)
    BY PayingJobsAt
  <2>2. /\ sent[q] = 0 /\ reservation[q].state \in {"RESERVED", "SETTLED"} /\ PayingRow(k, q)
        /\ reservation' = reservation /\ sent' = [sent EXCEPT ![q] = @ + 1]
    BY <1>5, <2>1, PayingJobsAt DEF Paying!Send, Paying!At, PayingRunning, PayingCalling
  <2>3. q \in PayingMade(k) /\ PayingTold(k)[q] \in {"OPEN", "LOST"}
    BY <2>2 DEF PayingMade, PayingTold, PayingSays, PayingRow
  <2>4. UNCHANGED <<PayingMade(k), PayingTold(k)>> /\ sent' = [sent EXCEPT ![q] = 1]
    BY <2>2 DEF PayingMade, PayingTold
  <2>5. Paying(k)!CallsOnce!Send(q)
    BY <2>2, <2>3, <2>4, PayingMapping
  <2> QED BY <2>5 DEF PayingCalls, Paying!CallsOnce!Next
<1>6. ASSUME NEW r \in Runners, NEW c \in Nat, NEW known \in BOOLEAN, Paying(k)!At(r, "AWAIT"), sent' = sent,
             Paying(k)!MaySettle(Paying(k)!RequestOf(r), c, known), Paying(k)!Charge(Paying(k)!RequestOf(r), c, known)
      PROVE  PayingCalls(k)
  <2>1. PICK q \in Paying(k)!Requests : q = Paying(k)!RequestOf(r)
    BY PayingJobsAt
  <2>2. sent[q] = 1
    BY <1>6, <2>1, PayingJobsAt DEF Paying!At, PayingRunning
  <2>3. /\ Paying(k)!Settled(c, known) \in Paying(k)!Reservations /\ Paying(k)!Settled(c, known).state = "SETTLED"
        /\ reservation[q].state = "RESERVED" \/ reservation[q] = Paying(k)!Settled(c, known)
        /\ reservation' = [reservation EXCEPT ![q] = Paying(k)!Settled(c, known)]
    BY <1>6, <2>1, PayingCharged
  <2> QED BY <1>6, <2>2, <2>3, PayingCallSettled
<1>7. ASSUME NEW r \in Runners,
             Paying(k)!SettleUnknown(r) \/ Paying(k)!Cancel(r) \/ \E paid \in CallCosts : Paying(k)!Answer(r, paid)
      PROVE  PayingCalls(k)
  <2>1. Paying(k)!At(r, "AWAIT") /\ sent' = sent
    BY <1>7 DEF Paying!SettleUnknown, Paying!Cancel, Paying!Answer
  <2>2. CallReservation \in Nat /\ CallCosts \subseteq Nat
    BY DEF PayingConstants
  <2>3. CASE UNCHANGED reservation
    BY <2>1, <2>3, PayingCallsRest
  <2>4. CASE \E c \in Nat : \E known \in BOOLEAN : Paying(k)!MaySettle(Paying(k)!RequestOf(r), c, known) /\ Paying(k)!Charge(Paying(k)!RequestOf(r), c, known)
    BY <1>6, <2>1, <2>4
  <2> QED BY <1>7, <2>2, <2>3, <2>4 DEF Paying!SettleUnknown, Paying!Cancel, Paying!Answer
<1>8. ASSUME NEW r \in Runners, Paying(k)!Crash(r) PROVE PayingCalls(k)
  BY <1>8, PayingCallsRest DEF Paying!Crash
<1>9. ASSUME NEW c \in Paying(k)!Candidates, Paying(k)!ReleaseAllowance(c) PROVE PayingCalls(k)
  BY <1>9, PayingCallsRest DEF Paying!ReleaseAllowance
<1>10. ASSUME NEW q \in Paying(k)!Requests, Paying(k)!SettlePending(q) PROVE PayingCalls(k)
  <2>1. Paying(k)!Settled(CallReservation, FALSE) \in Paying(k)!Reservations /\ Paying(k)!Settled(CallReservation, FALSE).state = "SETTLED"
        /\ ~Paying(k)!Settled(CallReservation, FALSE).usage_known
    BY DEF Paying!Settled, Paying!Reservations, Paying!States, PayingConstants
  <2>2. /\ reservation[q].state = "RESERVED" /\ sent' = sent
        /\ reservation' = [reservation EXCEPT ![q] = Paying(k)!Settled(CallReservation, FALSE)]
    BY <1>10 DEF Paying!SettlePending, Paying!Charge
  <2> QED BY <2>1, <2>2, PayingCallSettled
<1> QED BY <1>1, <1>2, <1>3, <1>4, <1>5, <1>7, <1>8, <1>9, <1>10 DEF Paying!Next
=============================================================================
