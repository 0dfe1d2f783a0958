---------------------------- MODULE LedgerProofs ----------------------------
(***************************************************************************)
(* Lemmas about the smokes of the copilot and of the two agents, and       *)
(* theorems about the parts beside each other (MCLedgers): every reachable *)
(* state satisfies the invariant of its part, and what follows for the     *)
(* properties of the run.                                                  *)
(***************************************************************************)
EXTENDS MCLedgers, DecisionProofs, CallProofs

-----------------------------------------------------------------------------
(* The smoke of the copilot.                                               *)

(* What the requests hold of the budget.                                   *)
CopilotHeld(res) == [c \in Copiloted!Cases |-> IF res[c] = NoOne THEN 0 ELSE res[c].amount]
CopilotSettled(res, c) == res[c] # NoOne /\ res[c].state = "SETTLED"

(* A run in the middle of its cases: those it passed are settled, and the  *)
(* tally has counted each.                                                 *)
CopilotRun(t, res) ==
    /\ t.calls + t.duplicates <= t.next - 1
    /\ t.inFlight => t.next <= Len(CopilotCases) /\ ~t.exceeded /\ res[CopilotCases[t.next]] # NoOne
    /\ t.exceeded => t.next = Len(CopilotCases) + 1
    /\ ~t.exceeded => /\ t.calls + t.duplicates = t.next - 1
                      /\ \A i \in 1..(t.next - 1) : CopilotSettled(res, CopilotCases[i])

CopilotRows(res) ==
    \A c \in Copiloted!Cases : res[c] # NoOne /\ res[c].state = "RESERVED" =>
        res[c].amount = CopilotReservation

CopilotInv ==
    /\ Copiloted!TypeOK
    /\ CopilotRows(reservation)
    /\ SumOver(CopilotHeld(reservation), Copiloted!Cases) <= CopilotLimit
    /\ \A o \in Runners : job[o] # NoOne => CopilotRun(job[o], reservation)
    /\ \A o \in Runners : \A c \in receipt[o] : CopilotSettled(reservation, c)
    /\ \A o \in Runners : (results[o] # NoOne /\ results[o].eligible) =>
          \A c \in Copiloted!Cases : CopilotSettled(reservation, c)

(* Nothing is forgotten, and what was settled stays settled.               *)
CopilotGrows(u, v) ==
    \A c \in Copiloted!Cases :
        /\ u[c] # NoOne => v[c] # NoOne
        /\ CopilotSettled(u, c) => CopilotSettled(v, c)

LEMMA CopilotDomains ==
    /\ CopilotCases \in Seq(Copiloted!Cases) /\ Len(CopilotCases) \in Nat
    /\ DOMAIN CopilotCases = 1..Len(CopilotCases)
    /\ \A i \in 1..Len(CopilotCases) : CopilotCases[i] \in Copiloted!Cases
    /\ \A c \in Copiloted!Cases : \E i \in 1..Len(CopilotCases) : c = CopilotCases[i]
    /\ IsFiniteSet(Copiloted!Cases)
<1>1. CopilotCases \in Seq(Copiloted!Cases) /\ Len(CopilotCases) \in Nat
      /\ DOMAIN CopilotCases = 1..Len(CopilotCases)
  BY CopilotAssumption
<1>2. Copiloted!Cases = {CopilotCases[i] : i \in 1..Len(CopilotCases)}
  BY <1>1 DEF Copiloted!Cases
<1>3. IsFiniteSet(1..Len(CopilotCases))
  BY <1>1, FS_Interval
<1>4. CopilotCases \in Surjection(1..Len(CopilotCases), Copiloted!Cases)
  BY <1>1, <1>2 DEF Surjection
<1>5. IsFiniteSet(Copiloted!Cases)
  BY <1>3, <1>4, FS_Surjection
<1> QED BY <1>1, <1>2, <1>5

LEMMA CopilotExposureIs == Copiloted!Exposure = SumOver(CopilotHeld(reservation), Copiloted!Cases)
<1> DEFINE S == Copiloted!Cases
           w == CopilotHeld(reservation)
           P(g) == g = [s \in SUBSET S |-> IF s = {} THEN 0
                          ELSE (IF reservation[Chosen(s)] = NoOne THEN 0 ELSE reservation[Chosen(s)].amount)
                               + g[s \ {Chosen(s)}]]
<1>1. ASSUME NEW g PROVE P(g) <=> Tally(g, w, S)
  <2>1. \A s \in SUBSET S : s # {} =>
            w[Chosen(s)] = IF reservation[Chosen(s)] = NoOne THEN 0 ELSE reservation[Chosen(s)].amount
    BY ChosenIn DEF CopilotHeld
  <2>2. [s \in SUBSET S |-> IF s = {} THEN 0
             ELSE (IF reservation[Chosen(s)] = NoOne THEN 0 ELSE reservation[Chosen(s)].amount)
                  + g[s \ {Chosen(s)}]]
        = [s \in SUBSET S |-> IF s = {} THEN 0 ELSE w[Chosen(s)] + g[s \ {Chosen(s)}]]
    BY <2>1
  <2> QED BY <2>2 DEF Tally
<1>2. IsFiniteSet(S)
  BY CopilotDomains
<1>3. PICK g : P(g) /\ g = CHOOSE f : P(f)
  <2> HIDE DEF P, S, w
  <2> QED BY <1>1, <1>2, TallyExists
<1>4. Copiloted!Exposure = g[S]
  BY <1>3 DEF Copiloted!MapThenSumSet, Copiloted!MapThenFoldSet, Chosen, Copiloted!Exposure
<1>5. PICK h : Tally(h, w, S) /\ SumOver(w, S) = h[S]
  BY <1>2, SumTally
<1>6. g[S] = h[S]
  <2> HIDE DEF P, S, w
  <2> QED BY <1>1, <1>2, <1>3, <1>5, TallyUnique
<1> QED BY <1>4, <1>5, <1>6

LEMMA CopilotWeights ==
    ASSUME NEW u \in [Copiloted!Cases -> Copiloted!Reservations]
    PROVE  /\ \A c \in Copiloted!Cases : CopilotHeld(u)[c] \in Int /\ CopilotHeld(u)[c] >= 0
           /\ SumOver(CopilotHeld(u), Copiloted!Cases) \in Int
<1>1. ASSUME NEW c \in Copiloted!Cases PROVE CopilotHeld(u)[c] \in Int /\ CopilotHeld(u)[c] >= 0
  <2>1. CASE u[c] = NoOne
    BY <2>1 DEF CopilotHeld
  <2>2. CASE u[c] # NoOne
    <3>1. u[c].amount \in 0..CopilotLimit
      BY <2>2 DEF Copiloted!Reservations
    <3> QED BY <2>2, <3>1, CopilotAssumption DEF CopilotHeld
  <2> QED BY <2>1, <2>2
<1> QED BY <1>1, CopilotDomains, SumType

LEMMA CopilotRunStays ==
    ASSUME NEW u, NEW v, CopilotGrows(u, v), NEW t \in Copiloted!Tally, CopilotRun(t, u)
    PROVE  CopilotRun(t, v)
<1>1. t.next \in 1..(Len(CopilotCases) + 1) /\ Len(CopilotCases) \in Nat
  BY CopilotDomains DEF Copiloted!Tally
<1>2. ASSUME t.inFlight PROVE v[CopilotCases[t.next]] # NoOne
  <2>1. t.next \in 1..Len(CopilotCases)
    BY <1>1, <1>2 DEF CopilotRun
  <2> QED BY <1>2, <2>1, CopilotDomains DEF CopilotRun, CopilotGrows
<1>3. ASSUME ~t.exceeded, NEW i \in 1..(t.next - 1) PROVE CopilotSettled(v, CopilotCases[i])
  <2>1. i \in 1..Len(CopilotCases)
    BY <1>1
  <2> QED BY <1>3, <2>1, CopilotDomains DEF CopilotRun, CopilotGrows
<1> QED BY <1>2, <1>3 DEF CopilotRun

LEMMA CopilotInit == Copiloted!Init => CopilotInv
<1> SUFFICES ASSUME Copiloted!Init PROVE CopilotInv
  OBVIOUS
<1>1. \A c \in Copiloted!Cases : CopilotHeld(reservation)[c] = 0
  BY DEF Copiloted!Init, CopilotHeld
<1>2. SumOver(CopilotHeld(reservation), Copiloted!Cases) = 0
  BY <1>1, CopilotDomains, SumZero
<1>3. Copiloted!TypeOK
  BY DEF Copiloted!Init, Copiloted!TypeOK, Copiloted!Reservations
<1> QED BY <1>2, <1>3, CopilotAssumption DEF CopilotInv, Copiloted!Init, CopilotRows

(* A step of one run.                                                      *)
LEMMA CopilotStepBy ==
    ASSUME CopilotInv, Copiloted!TypeOK', NEW o \in Runners,
           CopilotGrows(reservation, reservation'), CopilotRows(reservation'),
           SumOver(CopilotHeld(reservation'), Copiloted!Cases) <= CopilotLimit,
           \A p \in Runners : p # o => job'[p] = job[p],
           job'[o] # NoOne => CopilotRun(job'[o], reservation'),
           \A p \in Runners : \A c \in receipt'[p] : c \in receipt[p] \/ CopilotSettled(reservation', c),
           \A p \in Runners : results'[p] = results[p] \/
               (results'[p].eligible => \A c \in Copiloted!Cases : CopilotSettled(reservation', c))
    PROVE  CopilotInv'
<1>1. ASSUME NEW p \in Runners, job'[p] # NoOne PROVE CopilotRun(job'[p], reservation')
  <2>1. CASE p = o
    BY <1>1, <2>1
  <2>2. CASE p # o
    <3>1. PICK t \in Copiloted!Tally : t = job[p] /\ t = job'[p]
      BY <1>1, <2>2 DEF CopilotInv, Copiloted!TypeOK
    <3>2. CopilotRun(t, reservation)
      BY <1>1, <3>1 DEF CopilotInv
    <3> QED BY <3>1, <3>2, CopilotRunStays
  <2> QED BY <2>1, <2>2
<1>2. ASSUME NEW p \in Runners, NEW c \in receipt'[p] PROVE CopilotSettled(reservation', c)
  <2>1. receipt[p] \subseteq Copiloted!Cases
    BY DEF CopilotInv, Copiloted!TypeOK
  <2> QED BY <1>2, <2>1 DEF CopilotInv, CopilotGrows
<1>3. ASSUME NEW p \in Runners, results'[p] # NoOne, results'[p].eligible, NEW c \in Copiloted!Cases
      PROVE  CopilotSettled(reservation', c)
  BY <1>3 DEF CopilotInv, CopilotGrows
<1> QED BY <1>1, <1>2, <1>3 DEF CopilotInv, CopilotRun, CopilotSettled, CopilotRows

(* A step that leaves the ledger alone.                                    *)
LEMMA CopilotStepAside ==
    ASSUME CopilotInv, Copiloted!TypeOK', NEW o \in Runners, reservation' = reservation,
           \A p \in Runners : p # o => job'[p] = job[p],
           job'[o] # NoOne => CopilotRun(job'[o], reservation),
           \A p \in Runners : receipt'[p] \subseteq receipt[p],
           \A p \in Runners : results'[p] = results[p] \/
               (results'[p].eligible => \A c \in Copiloted!Cases : CopilotSettled(reservation, c))
    PROVE  CopilotInv'
<1>1. CopilotGrows(reservation, reservation')
  BY DEF CopilotGrows
<1>2. CopilotRows(reservation') /\ SumOver(CopilotHeld(reservation'), Copiloted!Cases) <= CopilotLimit
  BY DEF CopilotInv
<1>3. job'[o] # NoOne => CopilotRun(job'[o], reservation')
  OBVIOUS
<1>4. \A p \in Runners : \A c \in receipt'[p] : c \in receipt[p] \/ CopilotSettled(reservation', c)
  OBVIOUS
<1>5. \A p \in Runners : results'[p] = results[p] \/
         (results'[p].eligible => \A c \in Copiloted!Cases : CopilotSettled(reservation', c))
  OBVIOUS
<1> QED BY <1>1, <1>2, <1>3, <1>4, <1>5, CopilotStepBy

LEMMA CopilotStartKeeps == ASSUME CopilotInv, NEW o \in Runners, Copiloted!Start(o) PROVE CopilotInv'
<1> DEFINE t == [next |-> 1, inFlight |-> FALSE, calls |-> 0, duplicates |-> 0,
                 failed |-> FALSE, unpriced |-> FALSE, exceeded |-> FALSE]
<1>1. t \in Copiloted!Tally
  BY CopilotDomains DEF Copiloted!Tally
<1>2. CopilotRun(t, reservation)
  BY DEF CopilotRun
<1>3. job' = [job EXCEPT ![o] = t] /\ UNCHANGED <<reservation, receipt, results>>
  BY DEF Copiloted!Start
<1> HIDE DEF t
<1>4. job'[o] = t /\ (\A p \in Runners : p # o => job'[p] = job[p]) /\ Copiloted!TypeOK'
  BY <1>1, <1>3 DEF CopilotInv, Copiloted!TypeOK
<1> QED BY <1>2, <1>3, <1>4, CopilotStepAside

(* The run of o, at a case it has not asked for.                           *)
LEMMA CopilotAt ==
    ASSUME CopilotInv, NEW o \in Runners, job[o] # NoOne, job[o].next <= Len(CopilotCases)
    PROVE  /\ job[o] \in Copiloted!Tally /\ CopilotRun(job[o], reservation)
           /\ ~job[o].exceeded
           /\ job[o].next \in 1..Len(CopilotCases) /\ Len(CopilotCases) \in Nat
           /\ job[o].calls \in Nat /\ job[o].duplicates \in Nat
           /\ job[o].calls + job[o].duplicates = job[o].next - 1
           /\ Copiloted!Case(o) = CopilotCases[job[o].next] /\ Copiloted!Case(o) \in Copiloted!Cases
<1>1. job[o] \in Copiloted!Tally /\ CopilotRun(job[o], reservation)
  BY DEF CopilotInv, Copiloted!TypeOK
<1>2. job[o].next \in 1..Len(CopilotCases) /\ Len(CopilotCases) \in Nat
  BY <1>1, CopilotDomains DEF Copiloted!Tally
<1>3. ~job[o].exceeded
  BY <1>1, <1>2 DEF CopilotRun
<1>4. job[o].calls \in Nat /\ job[o].duplicates \in Nat
  BY <1>1 DEF Copiloted!Tally
<1> QED BY <1>1, <1>2, <1>3, <1>4, CopilotDomains DEF CopilotRun, Copiloted!Case

(* A case is passed when it is settled.                                    *)
LEMMA CopilotPasses ==
    ASSUME NEW u, NEW t \in Copiloted!Tally, CopilotRun(t, u), ~t.exceeded,
           t.next \in 1..Len(CopilotCases), CopilotSettled(u, CopilotCases[t.next]),
           NEW y \in Copiloted!Tally, y.next = t.next + 1, ~y.exceeded, ~y.inFlight,
           y.calls + y.duplicates = t.calls + t.duplicates + 1
    PROVE  CopilotRun(y, u)
<1>1. Len(CopilotCases) \in Nat /\ t.next \in Nat
  BY CopilotDomains
<1>2. PICK n \in Nat : n = t.calls + t.duplicates
  BY DEF Copiloted!Tally
<1>3. PICK m \in Nat : m = y.calls + y.duplicates
  BY DEF Copiloted!Tally
<1>4. m = y.next - 1
  <2>1. n = t.next - 1
    BY <1>2 DEF CopilotRun
  <2>2. m = n + 1
    BY <1>2, <1>3
  <2> QED BY <1>1, <2>1, <2>2
<1>5. ASSUME NEW i \in 1..(y.next - 1) PROVE CopilotSettled(u, CopilotCases[i])
  <2>1. i \in 1..(t.next - 1) \/ i = t.next
    BY <1>1
  <2> QED BY <2>1 DEF CopilotRun
<1>6. m <= y.next - 1
  BY <1>1, <1>4
<1> QED BY <1>3, <1>4, <1>5, <1>6 DEF CopilotRun

LEMMA CopilotReplayKeeps == ASSUME CopilotInv, NEW o \in Runners, Copiloted!Replay(o) PROVE CopilotInv'
<1>1. /\ job[o] # NoOne /\ ~job[o].inFlight /\ job[o].next <= Len(CopilotCases)
      /\ Copiloted!Case(o) \in receipt[o] \/ Copiloted!IsSettled(Copiloted!Case(o))
      /\ job' = [job EXCEPT ![o].next = @ + 1, ![o].duplicates = @ + 1]
      /\ UNCHANGED <<reservation, receipt, results>>
  BY DEF Copiloted!Replay, Copiloted!Running
<1>2. PICK t \in Copiloted!Tally : t = job[o]
  BY <1>1, CopilotAt
<1>3. /\ CopilotRun(t, reservation) /\ ~t.exceeded /\ ~t.inFlight
      /\ t.next \in 1..Len(CopilotCases) /\ Len(CopilotCases) \in Nat
      /\ t.calls \in Nat /\ t.duplicates \in Nat /\ t.calls + t.duplicates = t.next - 1
      /\ Copiloted!Case(o) = CopilotCases[t.next] /\ Copiloted!Case(o) \in Copiloted!Cases
  BY <1>1, <1>2, CopilotAt
<1>4. CopilotSettled(reservation, CopilotCases[t.next])
  BY <1>1, <1>3 DEF CopilotInv, Copiloted!IsSettled, CopilotSettled
<1>5. PICK n \in 1..(Len(CopilotCases) + 1) : n = t.next + 1
  BY <1>3
<1>6. PICK m \in 0..Len(CopilotCases) : m = t.duplicates + 1
  BY <1>3
<1> DEFINE y == [t EXCEPT !.next = n, !.duplicates = m]
<1>7. y \in Copiloted!Tally /\ y.next = n /\ y.duplicates = m /\ ~y.exceeded /\ ~y.inFlight /\ y.calls = t.calls
  BY <1>3, <1>5, <1>6 DEF Copiloted!Tally
<1>8. job' = [job EXCEPT ![o] = y]
  BY <1>1, <1>2, <1>5, <1>6 DEF CopilotInv, Copiloted!TypeOK, Copiloted!Tally
<1> HIDE DEF y
<1>9. job'[o] = y /\ (\A p \in Runners : p # o => job'[p] = job[p]) /\ Copiloted!TypeOK'
  BY <1>1, <1>7, <1>8 DEF CopilotInv, Copiloted!TypeOK
<1>10. y.calls + y.duplicates = t.calls + t.duplicates + 1
  BY <1>3, <1>6, <1>7
<1>11. CopilotRun(y, reservation)
  <2>1. PICK x \in Copiloted!Tally : x = y
    BY <1>7
  <2> QED BY <1>3, <1>4, <1>5, <1>7, <1>10, <2>1, CopilotPasses
<1> QED BY <1>1, <1>9, <1>11, CopilotStepAside

(* What a changed reservation changes of the sum.                          *)
LEMMA CopilotHeldChanges ==
    ASSUME NEW u \in [Copiloted!Cases -> Copiloted!Reservations],
           NEW v \in [Copiloted!Cases -> Copiloted!Reservations], NEW c \in Copiloted!Cases,
           \A e \in Copiloted!Cases : e # c => v[e] = u[e]
    PROVE  SumOver(CopilotHeld(v), Copiloted!Cases) =
               SumOver(CopilotHeld(u), Copiloted!Cases) + CopilotHeld(v)[c] - CopilotHeld(u)[c]
<1> DEFINE S == Copiloted!Cases \ {c}
<1>1. /\ \A e \in Copiloted!Cases : CopilotHeld(u)[e] \in Int /\ CopilotHeld(v)[e] \in Int
      /\ IsFiniteSet(Copiloted!Cases) /\ IsFiniteSet(S)
  BY CopilotWeights, CopilotDomains, FS_Subset
<1>2. SumOver(CopilotHeld(u), Copiloted!Cases) = CopilotHeld(u)[c] + SumOver(CopilotHeld(u), S)
  BY <1>1, SumRest
<1>3. SumOver(CopilotHeld(v), Copiloted!Cases) = CopilotHeld(v)[c] + SumOver(CopilotHeld(v), S)
  BY <1>1, SumRest
<1>4. SumOver(CopilotHeld(u), S) = SumOver(CopilotHeld(v), S)
  <2>1. \A e \in S : CopilotHeld(u)[e] = CopilotHeld(v)[e]
    BY DEF CopilotHeld
  <2> QED BY <1>1, <2>1, SumSame
<1>5. SumOver(CopilotHeld(u), S) \in Int
  BY <1>1, SumType
<1> QED BY <1>1, <1>2, <1>3, <1>4, <1>5

LEMMA CopilotHeldIsNat ==
    ASSUME NEW u \in [Copiloted!Cases -> Copiloted!Reservations]
    PROVE  SumOver(CopilotHeld(u), Copiloted!Cases) \in Nat
<1> DEFINE w == [c \in Copiloted!Cases |-> 0]
<1>1. SumOver(w, Copiloted!Cases) = 0
  BY CopilotDomains, SumZero
<1>2. \A c \in Copiloted!Cases : w[c] \in Int /\ CopilotHeld(u)[c] \in Int /\ w[c] <= CopilotHeld(u)[c]
  BY CopilotWeights
<1>3. SumOver(w, Copiloted!Cases) <= SumOver(CopilotHeld(u), Copiloted!Cases)
  BY <1>2, CopilotDomains, SumUpTo
<1> QED BY <1>1, <1>3, CopilotWeights

LEMMA CopilotReserveAndSendKeeps ==
    ASSUME CopilotInv, NEW o \in Runners, Copiloted!ReserveAndSend(o) PROVE CopilotInv'
<1>1. /\ job[o] # NoOne /\ ~job[o].inFlight /\ job[o].next <= Len(CopilotCases)
      /\ job' = [job EXCEPT ![o].inFlight = TRUE]
      /\ UNCHANGED <<receipt, results>>
  BY DEF Copiloted!ReserveAndSend, Copiloted!Running
<1>2. PICK t \in Copiloted!Tally : t = job[o]
  BY <1>1, CopilotAt
<1>3. /\ CopilotRun(t, reservation) /\ ~t.exceeded /\ t.next \in 1..Len(CopilotCases)
      /\ Copiloted!Case(o) = CopilotCases[t.next]
  BY <1>1, <1>2, CopilotAt
<1>4. PICK c \in Copiloted!Cases : c = Copiloted!Case(o)
  BY <1>1, CopilotAt
<1> DEFINE y == [t EXCEPT !.inFlight = TRUE]
<1>5. y \in Copiloted!Tally /\ job' = [job EXCEPT ![o] = y]
  BY <1>1, <1>2 DEF CopilotInv, Copiloted!TypeOK, Copiloted!Tally
<1>6. ASSUME NEW v, CopilotRun(t, v), v[c] # NoOne PROVE CopilotRun(y, v)
  <2>1. y.inFlight /\ y.next = t.next /\ y.exceeded = t.exceeded /\ y.calls = t.calls /\ y.duplicates = t.duplicates
    BY DEF Copiloted!Tally
  <2> HIDE DEF y
  <2> QED BY <1>3, <1>4, <1>6, <2>1, CopilotDomains DEF CopilotRun
<1> HIDE DEF y
<1>7. job'[o] = y /\ (\A p \in Runners : p # o => job'[p] = job[p]) /\ job' \in [Runners -> Copiloted!Tally \cup {NoOne}]
  BY <1>5 DEF CopilotInv, Copiloted!TypeOK
<1>8. CASE reservation[c] # NoOne /\ reservation' = reservation
  <2>1. CopilotRun(y, reservation)
    BY <1>3, <1>6, <1>8
  <2>2. Copiloted!TypeOK'
    BY <1>1, <1>7, <1>8 DEF CopilotInv, Copiloted!TypeOK
  <2> QED BY <1>1, <1>7, <1>8, <2>1, <2>2, CopilotStepAside
<1>9. CASE /\ reservation[c] = NoOne /\ Copiloted!Exposure + CopilotReservation <= CopilotLimit
           /\ reservation' = [reservation EXCEPT ![c] =
                  [state |-> "RESERVED", amount |-> CopilotReservation, usageKnown |-> FALSE]]
  <2> DEFINE x == [state |-> "RESERVED", amount |-> CopilotReservation, usageKnown |-> FALSE]
  <2>1. PICK u \in [Copiloted!Cases -> Copiloted!Reservations] : u = reservation
    BY DEF CopilotInv, Copiloted!TypeOK
  <2>2. PICK n \in Nat : n = SumOver(CopilotHeld(u), Copiloted!Cases)
    BY CopilotHeldIsNat
  <2>3. CopilotReservation \in 0..CopilotLimit /\ n + CopilotReservation <= CopilotLimit
    BY <1>9, <2>1, <2>2, CopilotExposureIs, CopilotAssumption
  <2>4. x \in Copiloted!Reservations /\ x # NoOne /\ x.state = "RESERVED" /\ x.amount = CopilotReservation
    <3>1. x \in [state : {"RESERVED", "SETTLED"}, amount : 0..CopilotLimit, usageKnown : BOOLEAN]
      BY <2>3
    <3>2. x.state = "RESERVED" /\ x.amount = CopilotReservation
      OBVIOUS
    <3> HIDE DEF x
    <3> QED BY <3>1, <3>2, CopilotAssumption DEF Copiloted!Reservations
  <2>5. reservation' = [u EXCEPT ![c] = x]
    BY <1>9, <2>1
  <2> HIDE DEF x
  <2>6. PICK v \in [Copiloted!Cases -> Copiloted!Reservations] :
            v = reservation' /\ v[c] = x /\ \A e \in Copiloted!Cases : e # c => v[e] = u[e]
    BY <2>4, <2>5
  <2>7. CopilotHeld(u)[c] = 0 /\ CopilotHeld(v)[c] = CopilotReservation
    BY <1>9, <2>1, <2>4, <2>6 DEF CopilotHeld
  <2>8. SumOver(CopilotHeld(v), Copiloted!Cases) = n + CopilotHeld(v)[c] - CopilotHeld(u)[c]
    BY <2>2, <2>6, CopilotHeldChanges
  <2>9. SumOver(CopilotHeld(v), Copiloted!Cases) <= CopilotLimit
    BY <2>3, <2>7, <2>8, CopilotAssumption
  <2>10. CopilotGrows(u, v)
    BY <1>9, <2>1, <2>6 DEF CopilotGrows, CopilotSettled
  <2>11. CopilotRun(t, v) /\ v[c] # NoOne
    BY <1>3, <2>1, <2>4, <2>6, <2>10, CopilotRunStays
  <2>12. CopilotRun(y, v)
    BY <1>6, <2>11
  <2>13. CopilotRows(v)
    BY <2>1, <2>4, <2>6 DEF CopilotInv, CopilotRows
  <2>14. Copiloted!TypeOK'
    BY <1>1, <1>7, <2>6 DEF CopilotInv, Copiloted!TypeOK
  <2>15. CopilotGrows(reservation, reservation') /\ CopilotRows(reservation')
         /\ SumOver(CopilotHeld(reservation'), Copiloted!Cases) <= CopilotLimit
         /\ CopilotRun(job'[o], reservation')
    BY <1>7, <2>1, <2>6, <2>9, <2>10, <2>12, <2>13
  <2>16. \A p \in Runners : \A e \in receipt'[p] : e \in receipt[p] \/ CopilotSettled(reservation', e)
    BY <1>1
  <2> QED BY <1>1, <1>7, <2>14, <2>15, <2>16, CopilotStepBy
<1> QED BY <1>4, <1>8, <1>9 DEF Copiloted!ReserveAndSend

LEMMA CopilotExceedBudgetKeeps ==
    ASSUME CopilotInv, NEW o \in Runners, Copiloted!ExceedBudget(o) PROVE CopilotInv'
<1>1. /\ job[o] # NoOne /\ ~job[o].inFlight /\ job[o].next <= Len(CopilotCases)
      /\ job' = [job EXCEPT ![o].exceeded = TRUE, ![o].next = Len(CopilotCases) + 1]
      /\ UNCHANGED <<reservation, receipt, results>>
  BY DEF Copiloted!ExceedBudget, Copiloted!Running
<1>2. PICK t \in Copiloted!Tally : t = job[o]
  BY <1>1, CopilotAt
<1>3. /\ CopilotRun(t, reservation) /\ ~t.inFlight /\ t.next \in 1..Len(CopilotCases)
      /\ Len(CopilotCases) \in Nat
  BY <1>1, <1>2, CopilotAt
<1> DEFINE n == Len(CopilotCases) + 1
           y == [t EXCEPT !.exceeded = TRUE, !.next = n]
<1>4. n \in 1..(Len(CopilotCases) + 1) /\ t.next - 1 <= n - 1
  BY <1>3
<1>5. job' = [job EXCEPT ![o] = y]
  BY <1>1, <1>2 DEF CopilotInv, Copiloted!TypeOK, Copiloted!Tally
<1>n. n = Len(CopilotCases) + 1
  OBVIOUS
<1> HIDE DEF n
<1>6. y \in Copiloted!Tally /\ y.exceeded /\ y.next = n /\ ~y.inFlight /\ y.calls = t.calls /\ y.duplicates = t.duplicates
  BY <1>3, <1>4 DEF Copiloted!Tally
<1> HIDE DEF y
<1>7. job'[o] = y /\ (\A p \in Runners : p # o => job'[p] = job[p]) /\ Copiloted!TypeOK'
  BY <1>1, <1>5, <1>6 DEF CopilotInv, Copiloted!TypeOK
<1>8. y.calls + y.duplicates <= y.next - 1
  <2>1. PICK m \in Nat : m = t.calls + t.duplicates
    BY DEF Copiloted!Tally
  <2>2. m <= t.next - 1
    BY <1>3, <2>1 DEF CopilotRun
  <2>3. m <= n - 1
    BY <1>3, <1>4, <2>2
  <2> QED BY <1>6, <2>1, <2>3
<1>9. CopilotRun(y, reservation)
  BY <1>6, <1>8, <1>n DEF CopilotRun
<1> QED BY <1>1, <1>7, <1>9, CopilotStepAside

(* What a settlement is.                                                   *)
LEMMA CopilotSettlement ==
    ASSUME CopilotReservation \in 0..CopilotLimit, NEW g \in CopilotCosts \cup {NoOne}
    PROVE  /\ Copiloted!Settlement(g) \in Copiloted!Reservations /\ Copiloted!Settlement(g) # NoOne
           /\ Copiloted!Settlement(g).state = "SETTLED"
           /\ Copiloted!Settlement(g).amount \in 0..CopilotReservation
           /\ Copiloted!Settlement(g).usageKnown \in BOOLEAN
<1> DEFINE R == [state : {"RESERVED", "SETTLED"}, amount : 0..CopilotLimit, usageKnown : BOOLEAN]
           x == Copiloted!Settlement(g)
<1>1. CASE g # NoOne /\ g <= CopilotReservation
  <2>1. x = [state |-> "SETTLED", amount |-> g, usageKnown |-> TRUE]
    BY <1>1 DEF Copiloted!Settlement
  <2>2. g \in 0..CopilotLimit /\ g \in 0..CopilotReservation
    BY <1>1, CopilotAssumption
  <2>3. x \in R /\ x.state = "SETTLED" /\ x.amount = g /\ x.usageKnown \in BOOLEAN
    BY <2>1, <2>2
  <2> HIDE DEF x
  <2> QED BY <2>2, <2>3, CopilotAssumption DEF Copiloted!Reservations, x
<1>2. CASE ~(g # NoOne /\ g <= CopilotReservation)
  <2>1. x = [state |-> "SETTLED", amount |-> CopilotReservation, usageKnown |-> FALSE]
    BY <1>2 DEF Copiloted!Settlement
  <2>3. x \in R /\ x.state = "SETTLED" /\ x.amount = CopilotReservation /\ x.usageKnown \in BOOLEAN
    BY <2>1
  <2>4. CopilotReservation \in 0..CopilotReservation
    BY CopilotAssumption
  <2> HIDE DEF x
  <2> QED BY <2>3, <2>4, CopilotAssumption DEF Copiloted!Reservations, x
<1> QED BY <1>1, <1>2

LEMMA CopilotReceiveAndSettleKeeps ==
    ASSUME CopilotInv, NEW o \in Runners, NEW g \in CopilotCosts \cup {NoOne}, NEW good \in BOOLEAN,
           Copiloted!ReceiveAndSettle(o, g, good)
    PROVE  CopilotInv'
<1>1. /\ job[o] # NoOne /\ job[o].inFlight
      /\ receipt' = [receipt EXCEPT ![o] = @ \cup {Copiloted!Case(o)}]
      /\ results' = results
  BY DEF Copiloted!ReceiveAndSettle, Copiloted!Running
<1>2. PICK t \in Copiloted!Tally : t = job[o]
  BY <1>1 DEF CopilotInv, Copiloted!TypeOK
<1>3. /\ CopilotRun(t, reservation) /\ t.next <= Len(CopilotCases) /\ t.inFlight
  BY <1>1, <1>2 DEF CopilotInv, CopilotRun
<1>4. /\ ~t.exceeded /\ t.next \in 1..Len(CopilotCases) /\ Len(CopilotCases) \in Nat
      /\ t.calls \in Nat /\ t.duplicates \in Nat /\ t.calls + t.duplicates = t.next - 1
      /\ Copiloted!Case(o) = CopilotCases[t.next]
  BY <1>1, <1>2, <1>3, CopilotAt
<1>5. PICK c \in Copiloted!Cases : c = Copiloted!Case(o) /\ c = CopilotCases[t.next] /\ reservation[c] # NoOne
  BY <1>1, <1>2, <1>3, <1>4, CopilotAt DEF CopilotRun
<1>6. PICK u \in [Copiloted!Cases -> Copiloted!Reservations] : u = reservation
  BY DEF CopilotInv, Copiloted!TypeOK
<1>7. \A p \in Runners : \A e \in receipt'[p] : e \in receipt[p] \/ e = c
  BY <1>1, <1>5 DEF CopilotInv, Copiloted!TypeOK
<1>8. receipt' \in [Runners -> SUBSET Copiloted!Cases]
  BY <1>1, <1>5 DEF CopilotInv, Copiloted!TypeOK
<1>9. CASE /\ Copiloted!IsSettled(c) /\ job' = [job EXCEPT ![o] = NoOne] /\ reservation' = reservation
  <2>1. job'[o] = NoOne /\ (\A p \in Runners : p # o => job'[p] = job[p]) /\ Copiloted!TypeOK'
    BY <1>1, <1>8, <1>9 DEF CopilotInv, Copiloted!TypeOK
  <2>2. CopilotSettled(reservation', c)
    BY <1>9 DEF Copiloted!IsSettled, CopilotSettled
  <2>3. CopilotGrows(reservation, reservation')
    BY <1>9 DEF CopilotGrows
  <2>4. CopilotRows(reservation') /\ SumOver(CopilotHeld(reservation'), Copiloted!Cases) <= CopilotLimit
    BY <1>9 DEF CopilotInv
  <2>5. \A p \in Runners : \A e \in receipt'[p] : e \in receipt[p] \/ CopilotSettled(reservation', e)
    BY <1>7, <2>2
  <2> QED BY <1>1, <2>1, <2>3, <2>4, <2>5, CopilotStepBy
<1>10. CASE /\ ~(Copiloted!IsSettled(c) /\ reservation[c] # Copiloted!Settlement(g))
            /\ reservation' = [reservation EXCEPT ![c] = Copiloted!Settlement(g)]
            /\ job' = [job EXCEPT ![o] =
                   [job[o] EXCEPT !.next = @ + 1, !.inFlight = FALSE, !.calls = @ + 1,
                                  !.failed = @ \/ ~good,
                                  !.unpriced = @ \/ ~Copiloted!Settlement(g).usageKnown]]
  <2> DEFINE x == Copiloted!Settlement(g)
  <2>1. u[c].state \in {"RESERVED", "SETTLED"} /\ u[c].amount \in 0..CopilotLimit
    BY <1>5, <1>6 DEF Copiloted!Reservations
  <2>2. \/ u[c].state = "RESERVED" /\ u[c].amount = CopilotReservation
        \/ u[c] = x
    BY <1>5, <1>6, <1>10, <2>1 DEF CopilotInv, CopilotRows, Copiloted!IsSettled
  <2>3. /\ x \in Copiloted!Reservations /\ x # NoOne /\ x.state = "SETTLED" /\ x.usageKnown \in BOOLEAN
        /\ x.amount <= u[c].amount /\ x.amount \in Int /\ u[c].amount \in Int
    <3>1. CASE u[c].state = "RESERVED" /\ u[c].amount = CopilotReservation
      <4>1. CopilotReservation \in 0..CopilotLimit
        BY <2>1, <3>1
      <4> HIDE DEF x
      <4> QED BY <3>1, <4>1, CopilotSettlement, CopilotAssumption DEF x
    <3>2. CASE u[c] = x
      <4>1. x.state = "SETTLED" /\ x.usageKnown \in BOOLEAN
        BY DEF Copiloted!Settlement
      <4> HIDE DEF x
      <4> QED BY <1>5, <1>6, <2>1, <3>2, <4>1
    <3> QED BY <2>2, <3>1, <3>2
  <2>4. PICK n \in 1..(Len(CopilotCases) + 1) : n = t.next + 1
    BY <1>4
  <2>5. PICK m \in 0..Len(CopilotCases) : m = t.calls + 1
    BY <1>4
  <2> DEFINE fl == t.failed \/ ~good
             up == t.unpriced \/ ~x.usageKnown
             y == [t EXCEPT !.next = n, !.inFlight = FALSE, !.calls = m, !.failed = fl, !.unpriced = up]
  <2>6. fl \in BOOLEAN /\ up \in BOOLEAN
    BY <2>3 DEF Copiloted!Tally
  <2>7. job' = [job EXCEPT ![o] = y]
    BY <1>2, <1>10, <2>4, <2>5 DEF CopilotInv, Copiloted!TypeOK, Copiloted!Tally
  <2>8. reservation' = [u EXCEPT ![c] = x]
    BY <1>6, <1>10
  <2> HIDE DEF fl, up, x
  <2>9. y \in Copiloted!Tally /\ y.next = n /\ ~y.inFlight /\ y.calls = m /\ ~y.exceeded /\ y.duplicates = t.duplicates
    BY <1>4, <2>6 DEF Copiloted!Tally
  <2> HIDE DEF y
  <2>10. PICK v \in [Copiloted!Cases -> Copiloted!Reservations] :
             v = reservation' /\ v[c] = x /\ \A e \in Copiloted!Cases : e # c => v[e] = u[e]
    BY <2>3, <2>8
  <2>11. CopilotHeld(u)[c] = u[c].amount /\ CopilotHeld(v)[c] = x.amount
    BY <1>5, <1>6, <2>3, <2>10 DEF CopilotHeld
  <2>12. PICK h \in Nat : h = SumOver(CopilotHeld(u), Copiloted!Cases)
    BY CopilotHeldIsNat
  <2>13. SumOver(CopilotHeld(v), Copiloted!Cases) = h + CopilotHeld(v)[c] - CopilotHeld(u)[c]
    BY <2>10, <2>12, CopilotHeldChanges
  <2>14. h <= CopilotLimit
    BY <1>6, <2>12 DEF CopilotInv
  <2>15. SumOver(CopilotHeld(v), Copiloted!Cases) <= CopilotLimit
    BY <2>3, <2>11, <2>13, <2>14, CopilotAssumption
  <2>16. CopilotSettled(v, c)
    BY <2>3, <2>10 DEF CopilotSettled
  <2>17. CopilotGrows(u, v)
    BY <2>10, <2>16 DEF CopilotGrows, CopilotSettled
  <2>18. CopilotRun(t, v)
    BY <1>3, <1>6, <2>17, CopilotRunStays
  <2>19. y.calls + y.duplicates = t.calls + t.duplicates + 1
    BY <1>4, <2>5, <2>9
  <2>20. CopilotRun(y, v)
    <3>1. PICK e \in Copiloted!Tally : e = y
      BY <2>9
    <3> QED BY <1>4, <1>5, <2>4, <2>9, <2>16, <2>18, <2>19, <3>1, CopilotPasses
  <2>21. CopilotRows(v)
    BY <1>6, <2>3, <2>10 DEF CopilotInv, CopilotRows
  <2>22. job'[o] = y /\ (\A p \in Runners : p # o => job'[p] = job[p]) /\ Copiloted!TypeOK'
    BY <1>1, <1>8, <2>7, <2>9, <2>10 DEF CopilotInv, Copiloted!TypeOK
  <2>23. CopilotGrows(reservation, reservation') /\ CopilotRows(reservation')
         /\ SumOver(CopilotHeld(reservation'), Copiloted!Cases) <= CopilotLimit
         /\ CopilotRun(job'[o], reservation')
    BY <1>6, <2>10, <2>15, <2>17, <2>20, <2>21, <2>22
  <2>24. \A p \in Runners : \A e \in receipt'[p] : e \in receipt[p] \/ CopilotSettled(reservation', e)
    BY <1>7, <2>10, <2>16
  <2> QED BY <1>1, <2>22, <2>23, <2>24, CopilotStepBy
<1> QED BY <1>5, <1>9, <1>10 DEF Copiloted!ReceiveAndSettle

LEMMA CopilotReportKeeps == ASSUME CopilotInv, NEW o \in Runners, Copiloted!Report(o) PROVE CopilotInv'
<1>1. /\ job[o] # NoOne /\ ~job[o].inFlight /\ job[o].next > Len(CopilotCases)
      /\ results' = [results EXCEPT ![o] = Copiloted!ReportOf(job[o])]
      /\ job' = [job EXCEPT ![o] = NoOne]
      /\ UNCHANGED <<reservation, receipt>>
  BY DEF Copiloted!Report, Copiloted!Running
<1>2. PICK t \in Copiloted!Tally : t = job[o] /\ CopilotRun(t, reservation)
  BY <1>1 DEF CopilotInv, Copiloted!TypeOK
<1>3. /\ t.next = Len(CopilotCases) + 1 /\ Len(CopilotCases) \in Nat
  BY <1>1, <1>2, CopilotDomains DEF Copiloted!Tally
<1>4. Copiloted!ReportOf(t) \in Copiloted!Reports
  <2>1. Copiloted!StatusOf(t) \in {"PASS", "FAIL", "BLOCKED"}
    BY DEF Copiloted!StatusOf
  <2> QED BY <2>1 DEF Copiloted!ReportOf, Copiloted!Reports
<1>5. ASSUME Copiloted!ReportOf(t).eligible, NEW c \in Copiloted!Cases PROVE CopilotSettled(reservation, c)
  <2>1. Copiloted!StatusOf(t) = "PASS"
    BY <1>5 DEF Copiloted!ReportOf
  <2>2. ~t.exceeded
    BY <2>1 DEF Copiloted!StatusOf
  <2>3. PICK i \in 1..Len(CopilotCases) : c = CopilotCases[i]
    BY CopilotDomains
  <2>4. i \in 1..(t.next - 1)
    BY <1>3, <2>3
  <2> QED BY <1>2, <2>2, <2>3, <2>4 DEF CopilotRun
<1>6. job'[o] = NoOne /\ (\A p \in Runners : p # o => job'[p] = job[p]) /\ Copiloted!TypeOK'
  BY <1>1, <1>2, <1>4 DEF CopilotInv, Copiloted!TypeOK
<1>7. \A p \in Runners : results'[p] = results[p] \/
         (results'[p].eligible => \A c \in Copiloted!Cases : CopilotSettled(reservation, c))
  <2>1. results' = [results EXCEPT ![o] = Copiloted!ReportOf(t)]
    BY <1>1, <1>2
  <2> QED BY <1>5, <2>1 DEF CopilotInv, Copiloted!TypeOK
<1> QED BY <1>1, <1>6, <1>7, CopilotStepAside

LEMMA CopilotCrashKeeps == ASSUME CopilotInv, NEW o \in Runners, Copiloted!Crash(o) PROVE CopilotInv'
<1>1. /\ job' = [job EXCEPT ![o] = NoOne] /\ receipt' = [receipt EXCEPT ![o] = {}]
      /\ UNCHANGED <<reservation, results>>
  BY DEF Copiloted!Crash
<1>2. job'[o] = NoOne /\ (\A p \in Runners : p # o => job'[p] = job[p]) /\ Copiloted!TypeOK'
  BY <1>1 DEF CopilotInv, Copiloted!TypeOK
<1>3. \A p \in Runners : receipt'[p] \subseteq receipt[p]
  BY <1>1 DEF CopilotInv, Copiloted!TypeOK
<1> QED BY <1>1, <1>2, <1>3, CopilotStepAside

LEMMA CopilotStep == CopilotInv /\ [Copiloted!Next]_(Copiloted!vars) => CopilotInv'
<1> SUFFICES ASSUME CopilotInv, [Copiloted!Next]_(Copiloted!vars) PROVE CopilotInv'
  OBVIOUS
<1>1. ASSUME NEW o \in Runners, Copiloted!Start(o) PROVE CopilotInv'
  BY <1>1, CopilotStartKeeps
<1>2. ASSUME NEW o \in Runners, Copiloted!Replay(o) PROVE CopilotInv'
  BY <1>2, CopilotReplayKeeps
<1>3. ASSUME NEW o \in Runners, Copiloted!ReserveAndSend(o) PROVE CopilotInv'
  BY <1>3, CopilotReserveAndSendKeeps
<1>4. ASSUME NEW o \in Runners, Copiloted!ExceedBudget(o) PROVE CopilotInv'
  BY <1>4, CopilotExceedBudgetKeeps
<1>5. ASSUME NEW o \in Runners, NEW g \in CopilotCosts \cup {NoOne}, NEW good \in BOOLEAN,
             Copiloted!ReceiveAndSettle(o, g, good) PROVE CopilotInv'
  BY <1>5, CopilotReceiveAndSettleKeeps
<1>6. ASSUME NEW o \in Runners, Copiloted!Report(o) PROVE CopilotInv'
  BY <1>6, CopilotReportKeeps
<1>7. ASSUME NEW o \in Runners, Copiloted!Crash(o) PROVE CopilotInv'
  BY <1>7, CopilotCrashKeeps
<1>8. CASE UNCHANGED Copiloted!vars
  BY <1>8 DEF CopilotInv, CopilotRun, CopilotSettled, CopilotRows, CopilotHeld, Copiloted!vars,
       Copiloted!TypeOK
<1> QED BY <1>1, <1>2, <1>3, <1>4, <1>5, <1>6, <1>7, <1>8 DEF Copiloted!Next

LEMMA CopilotHolds == CopilotInv => Copiloted!TypeOK /\ Copiloted!CommittedWithinBudget /\ Copiloted!OutcomesAreTrue
<1> SUFFICES ASSUME CopilotInv PROVE Copiloted!TypeOK /\ Copiloted!CommittedWithinBudget /\ Copiloted!OutcomesAreTrue
  OBVIOUS
<1>1. Copiloted!CommittedWithinBudget
  BY CopilotExposureIs DEF CopilotInv, Copiloted!CommittedWithinBudget
<1>2. Copiloted!OutcomesAreTrue
  BY DEF CopilotInv, Copiloted!OutcomesAreTrue, Copiloted!IsSettled, CopilotSettled
<1> QED BY <1>1, <1>2 DEF CopilotInv

-----------------------------------------------------------------------------
(* The smoke of the two agents.                                            *)

(* What the cases hold: money and slots, all but the released ones.        *)
AgentsHeld(u) == {c \in Agents!Cases : u[c] # NoOne /\ u[c].state # "RELEASED"}
AgentsAmounts(u) == [c \in Agents!Cases |-> u[c].amount]
AgentsWithin(u) ==
    /\ SumOver(AgentsAmounts(u), AgentsHeld(u)) <= AgentLimit
    /\ Cardinality(AgentsHeld(u)) <= AgentSlots

(* A case and the requests about it: none before its reservation, none of  *)
(* a released one, none to the planner of a failed one, both of a passed   *)
(* one.                                                                    *)
AgentsRow(u, s, c) ==
    /\ u[c] = NoOne => s[<<c, "ANALYST">>] = 0 /\ s[<<c, "PLANNER">>] = 0
    /\ s[<<c, "ANALYST">>] <= 1 /\ s[<<c, "PLANNER">>] <= 1
    /\ (u[c] # NoOne /\ u[c].state = "RESERVED") => u[c].amount = AgentReservation /\ u[c].outcome = NoOne
    /\ (u[c] # NoOne /\ u[c].state # "RESERVED") => u[c].outcome \in Agents!Statuses
    /\ (u[c] # NoOne /\ u[c].state = "RELEASED") => s[<<c, "ANALYST">>] = 0
    /\ (u[c] # NoOne /\ u[c].outcome = "FAIL") => s[<<c, "PLANNER">>] = 0
    /\ (u[c] # NoOne /\ u[c].outcome = "PASS") => s[<<c, "ANALYST">>] = 1 /\ s[<<c, "PLANNER">>] = 1

AgentsReserved(u, c) == u[c] # NoOne /\ u[c].state = "RESERVED"
AgentsPassed(u, c) == u[c] # NoOne /\ u[c].outcome = "PASS"

(* A run: it passed the cases before the one it is at, and the one an      *)
(* agent works on is reserved, and asked as far as the run is.             *)
AgentsRun(t, u, s) ==
    /\ t.next \in 1..(Len(t.cases) + 1)
    /\ \A i \in 1..Len(t.cases) : i < t.next => AgentsPassed(u, t.cases[i])
    /\ t.inFlight => t.agent # NoOne
    /\ t.agent # NoOne =>
          /\ t.next \in 1..Len(t.cases)
          /\ AgentsReserved(u, t.cases[t.next])
          /\ s[<<t.cases[t.next], "ANALYST">>] = (IF t.agent = "ANALYST" /\ ~t.inFlight THEN 0 ELSE 1)
          /\ s[<<t.cases[t.next], "PLANNER">>] = (IF t.agent = "PLANNER" /\ t.inFlight THEN 1 ELSE 0)

(* A report tells the stored outcomes of its cases.                        *)
AgentsTold(r, u) ==
    /\ r.status = "PASS" => \A i \in 1..Len(r.cases) : AgentsPassed(u, r.cases[i])
    /\ r.status \in {"FAIL", "INCONCLUSIVE"} =>
          \E i \in 1..Len(r.cases) : u[r.cases[i]] # NoOne /\ u[r.cases[i]].outcome = r.status

AgentsApart(w) ==
    \A o, q \in Runners :
        (o # q /\ w[o] # NoOne /\ w[q] # NoOne /\ w[o].agent # NoOne /\ w[q].agent # NoOne)
            => w[o].cases[w[o].next] # w[q].cases[w[q].next]

AgentsTypes ==
    /\ reservation \in [Agents!Cases -> Agents!Reservations \cup {NoOne}]
    /\ sent \in [Agents!Cases \X Agents!Agents -> Nat]
    /\ job \in [Runners -> Agents!RunRecords \cup {NoOne}]
    /\ results \in [Runners -> Agents!Reports \cup {NoOne}]

AgentsInv ==
    /\ AgentsTypes
    /\ AgentsWithin(reservation)
    /\ \A c \in Agents!Cases : AgentsRow(reservation, sent, c)
    /\ \A o \in Runners : job[o] # NoOne => AgentsRun(job[o], reservation, sent)
    /\ \A o \in Runners : results[o] # NoOne => AgentsTold(results[o], reservation)
    /\ AgentsApart(job)

LEMMA AgentsDomains ==
    ASSUME NEW l \in AgentLists
    PROVE  /\ Len(l) \in Nat /\ DOMAIN l = 1..Len(l)
           /\ \A i \in 1..Len(l) : l[i] \in Agents!Cases
BY AgentsAssumption

LEMMA AgentsExposureIs == Agents!Exposure = SumOver(AgentsAmounts(reservation), AgentsHeld(reservation))
<1> DEFINE S == AgentsHeld(reservation)
           w == AgentsAmounts(reservation)
           P(g) == g = [s \in SUBSET S |-> IF s = {} THEN 0
                          ELSE reservation[Chosen(s)].amount + g[s \ {Chosen(s)}]]
<1>1. ASSUME NEW g PROVE P(g) <=> Tally(g, w, S)
  <2>1. \A s \in SUBSET S : s # {} => w[Chosen(s)] = reservation[Chosen(s)].amount
    BY ChosenIn DEF AgentsAmounts, AgentsHeld
  <2>2. [s \in SUBSET S |-> IF s = {} THEN 0 ELSE reservation[Chosen(s)].amount + g[s \ {Chosen(s)}]]
        = [s \in SUBSET S |-> IF s = {} THEN 0 ELSE w[Chosen(s)] + g[s \ {Chosen(s)}]]
    BY <2>1
  <2> QED BY <2>2 DEF Tally
<1>2. IsFiniteSet(S)
  BY AgentsAssumption, FS_Subset DEF AgentsHeld
<1>3. PICK g : P(g) /\ g = CHOOSE f : P(f)
  <2> HIDE DEF P, S, w
  <2> QED BY <1>1, <1>2, TallyExists
<1>4. Agents!Held = S
  BY DEF Agents!Held, AgentsHeld
<1>5. Agents!Exposure = g[S]
  BY <1>3, <1>4 DEF Agents!MapThenSumSet, Agents!MapThenFoldSet, Chosen, Agents!Exposure
<1>6. PICK h : Tally(h, w, S) /\ SumOver(w, S) = h[S]
  BY <1>2, SumTally
<1>7. g[S] = h[S]
  <2> HIDE DEF P, S, w
  <2> QED BY <1>1, <1>2, <1>3, <1>6, TallyUnique
<1> QED BY <1>5, <1>6, <1>7

LEMMA AgentsWeights ==
    ASSUME NEW u \in [Agents!Cases -> Agents!Reservations \cup {NoOne}]
    PROVE  /\ AgentsHeld(u) \subseteq Agents!Cases /\ IsFiniteSet(AgentsHeld(u))
           /\ \A c \in AgentsHeld(u) : AgentsAmounts(u)[c] \in Nat /\ AgentsAmounts(u)[c] = u[c].amount
           /\ SumOver(AgentsAmounts(u), AgentsHeld(u)) \in Nat
           /\ Cardinality(AgentsHeld(u)) \in Nat
<1>1. AgentsHeld(u) \subseteq Agents!Cases /\ IsFiniteSet(AgentsHeld(u))
  BY AgentsAssumption, FS_Subset DEF AgentsHeld
<1>2. ASSUME NEW c \in AgentsHeld(u) PROVE AgentsAmounts(u)[c] \in Nat /\ AgentsAmounts(u)[c] = u[c].amount
  <2>1. u[c] \in Agents!Reservations
    BY DEF AgentsHeld
  <2>2. u[c].amount \in Nat
    BY <2>1, AgentsAssumption DEF Agents!Reservations
  <2> QED BY <1>1, <2>2 DEF AgentsAmounts
<1> DEFINE w == AgentsAmounts(u)
           n == [c \in Agents!Cases |-> 0]
           S == AgentsHeld(u)
<1>3. \A c \in S : w[c] \in Int /\ n[c] \in Int /\ n[c] = 0 /\ n[c] <= w[c]
  BY <1>1, <1>2
<1> HIDE DEF w, n, S
<1>4. SumOver(w, S) \in Int /\ SumOver(n, S) = 0 /\ SumOver(n, S) <= SumOver(w, S)
  BY <1>1, <1>3, SumType, SumZero, SumUpTo DEF S
<1> QED BY <1>1, <1>2, <1>4, FS_CardinalityType DEF w, S

(* A reservation takes a slot and its money.                               *)
LEMMA AgentsReserve ==
    ASSUME NEW u \in [Agents!Cases -> Agents!Reservations \cup {NoOne}],
           NEW v \in [Agents!Cases -> Agents!Reservations \cup {NoOne}], NEW c \in Agents!Cases,
           \A e \in Agents!Cases : e # c => v[e] = u[e],
           u[c] = NoOne, v[c] # NoOne, v[c].state = "RESERVED", v[c].amount = AgentReservation,
           SumOver(AgentsAmounts(u), AgentsHeld(u)) + AgentReservation <= AgentLimit,
           Cardinality(AgentsHeld(u)) < AgentSlots
    PROVE  AgentsWithin(v)
<1> DEFINE S == AgentsHeld(u)
<1>1. c \notin S /\ AgentsHeld(v) = S \cup {c}
  BY DEF AgentsHeld
<1>2. \A e \in S : AgentsAmounts(v)[e] = AgentsAmounts(u)[e] /\ AgentsAmounts(v)[e] \in Int
  BY AgentsWeights DEF AgentsAmounts, AgentsHeld
<1>3. AgentsAmounts(v)[c] = AgentReservation /\ AgentReservation \in Nat /\ AgentLimit \in Nat /\ AgentSlots \in Nat
  BY AgentsAssumption DEF AgentsAmounts
<1>4. IsFiniteSet(S) /\ Cardinality(S) \in Nat /\ SumOver(AgentsAmounts(u), S) \in Nat
  BY AgentsWeights
<1> HIDE DEF S
<1>5. SumOver(AgentsAmounts(v), S) = SumOver(AgentsAmounts(u), S)
  BY <1>2, <1>4, SumSame
<1>6. SumOver(AgentsAmounts(v), S \cup {c}) = AgentsAmounts(v)[c] + SumOver(AgentsAmounts(v), S)
  <2> DEFINE w == AgentsAmounts(v)
  <2>1. \A y \in S \cup {c} : w[y] \in Int
    BY <1>2, <1>3
  <2>2. c \notin S /\ IsFiniteSet(S)
    BY <1>1, <1>4
  <2> HIDE DEF w
  <2>3. SumOver(w, S \cup {c}) = w[c] + SumOver(w, S)
    BY <2>1, <2>2, SumMore
  <2> QED BY <2>3 DEF w
<1>7. Cardinality(S \cup {c}) = Cardinality(S) + 1
  <2>1. IsFiniteSet(S)
    BY <1>4
  <2>2. Cardinality(S \cup {c}) = IF c \in S THEN Cardinality(S) ELSE Cardinality(S) + 1
    BY <2>1, FS_AddElement
  <2> QED BY <1>1, <2>2
<1>8. SumOver(AgentsAmounts(v), S \cup {c}) <= AgentLimit
  BY <1>3, <1>4, <1>5, <1>6 DEF S
<1>9. Cardinality(S \cup {c}) <= AgentSlots
  BY <1>3, <1>4, <1>7 DEF S
<1> QED BY <1>1, <1>8, <1>9 DEF AgentsWithin

(* A settlement of no more than was reserved, or a release, fits.          *)
LEMMA AgentsClose ==
    ASSUME NEW u \in [Agents!Cases -> Agents!Reservations \cup {NoOne}],
           NEW v \in [Agents!Cases -> Agents!Reservations \cup {NoOne}], NEW c \in Agents!Cases,
           \A e \in Agents!Cases : e # c => v[e] = u[e],
           AgentsReserved(u, c), v[c] # NoOne, v[c].amount <= u[c].amount,
           AgentsWithin(u)
    PROVE  AgentsWithin(v)
<1> DEFINE S == AgentsHeld(u)
           R == AgentsHeld(u) \ {c}
<1>1. c \in S /\ S = R \cup {c} /\ c \notin R
  BY DEF AgentsHeld, AgentsReserved
<1>2. AgentsHeld(v) = S \/ AgentsHeld(v) = R
  BY <1>1 DEF AgentsHeld
<1>3. IsFiniteSet(S) /\ IsFiniteSet(R) /\ Cardinality(S) \in Nat /\ Cardinality(R) = Cardinality(S) - 1
  BY <1>1, AgentsWeights, FS_RemoveElement
<1>4. \A e \in S : AgentsAmounts(u)[e] \in Int /\ AgentsAmounts(u)[e] >= 0
  BY AgentsWeights
<1>5. \A e \in R : AgentsAmounts(v)[e] = AgentsAmounts(u)[e]
  BY DEF AgentsAmounts, AgentsHeld
<1>6. AgentsAmounts(u)[c] = u[c].amount /\ AgentsAmounts(v)[c] = v[c].amount /\ v[c].amount \in Int
  BY DEF AgentsAmounts, Agents!Reservations
<1> HIDE DEF S, R
<1>7. SumOver(AgentsAmounts(u), S) = AgentsAmounts(u)[c] + SumOver(AgentsAmounts(u), R)
  BY <1>1, <1>3, <1>4, SumMore
<1>8. SumOver(AgentsAmounts(v), R) = SumOver(AgentsAmounts(u), R)
  BY <1>3, <1>5, SumSame
<1>9. SumOver(AgentsAmounts(v), R \cup {c}) = AgentsAmounts(v)[c] + SumOver(AgentsAmounts(v), R)
  BY <1>1, <1>3, <1>4, <1>5, <1>6, SumMore
<1>10. SumOver(AgentsAmounts(u), R) \in Int
  BY <1>1, <1>3, <1>4, SumType
<1>11. AgentsAmounts(u)[c] \in Int /\ AgentsAmounts(u)[c] >= 0
  BY <1>1, <1>4
<1>12. SumOver(AgentsAmounts(u), S) <= AgentLimit /\ Cardinality(S) <= AgentSlots
  BY DEF AgentsWithin, S
<1>13. CASE AgentsHeld(v) = S
  <2>1. SumOver(AgentsAmounts(v), S) <= AgentLimit
    BY <1>1, <1>6, <1>7, <1>8, <1>9, <1>10, <1>11, <1>12, AgentsAssumption
  <2> QED BY <1>12, <1>13, <2>1 DEF AgentsWithin
<1>14. CASE AgentsHeld(v) = R
  <2>1. SumOver(AgentsAmounts(v), R) <= AgentLimit
    BY <1>7, <1>8, <1>10, <1>11, <1>12, AgentsAssumption
  <2>2. Cardinality(R) <= AgentSlots
    BY <1>3, <1>12, AgentsAssumption
  <2> QED BY <1>14, <2>1, <2>2 DEF AgentsWithin
<1> QED BY <1>2, <1>13, <1>14

(* What was said of other cases stays true when an open case changes.      *)
AgentsOpen(u, c) == u[c] = NoOne \/ (u[c].state = "RESERVED" /\ u[c].outcome = NoOne)
AgentsAside(u, v, s, w, c) ==
    \A e \in Agents!Cases : e # c =>
        /\ v[e] = u[e]
        /\ w[<<e, "ANALYST">>] = s[<<e, "ANALYST">>]
        /\ w[<<e, "PLANNER">>] = s[<<e, "PLANNER">>]

LEMMA AgentsRunStays ==
    ASSUME NEW u, NEW v, NEW s, NEW w, NEW c \in Agents!Cases, AgentsAside(u, v, s, w, c), AgentsOpen(u, c),
           NEW t \in Agents!RunRecords, AgentsRun(t, u, s), t.agent # NoOne => t.cases[t.next] # c
    PROVE  AgentsRun(t, v, w)
<1>1. Len(t.cases) \in Nat /\ \A i \in 1..Len(t.cases) : t.cases[i] \in Agents!Cases
  BY AgentsDomains DEF Agents!RunRecords
<1>2. ASSUME NEW i \in 1..Len(t.cases), i < t.next PROVE AgentsPassed(v, t.cases[i])
  <2>1. AgentsPassed(u, t.cases[i])
    BY <1>2 DEF AgentsRun
  <2>2. t.cases[i] # c
    BY <2>1, AgentsAssumption DEF AgentsPassed, AgentsOpen, Agents!Statuses
  <2> QED BY <1>1, <2>1, <2>2 DEF AgentsAside, AgentsPassed
<1>3. ASSUME t.agent # NoOne
      PROVE  /\ AgentsReserved(v, t.cases[t.next])
             /\ w[<<t.cases[t.next], "ANALYST">>] = s[<<t.cases[t.next], "ANALYST">>]
             /\ w[<<t.cases[t.next], "PLANNER">>] = s[<<t.cases[t.next], "PLANNER">>]
  BY <1>1, <1>3 DEF AgentsRun, AgentsAside, AgentsReserved
<1> QED BY <1>2, <1>3 DEF AgentsRun

LEMMA AgentsToldStays ==
    ASSUME NEW u, NEW v, NEW s, NEW w, NEW c \in Agents!Cases, AgentsAside(u, v, s, w, c), AgentsOpen(u, c),
           NEW r \in Agents!Reports, AgentsTold(r, u)
    PROVE  AgentsTold(r, v)
<1>1. Len(r.cases) \in Nat /\ \A i \in 1..Len(r.cases) : r.cases[i] \in Agents!Cases
  BY AgentsDomains DEF Agents!Reports
<1>2. ASSUME NEW i \in 1..Len(r.cases), AgentsPassed(u, r.cases[i]) PROVE AgentsPassed(v, r.cases[i])
  <2>1. r.cases[i] # c
    BY <1>2, AgentsAssumption DEF AgentsPassed, AgentsOpen, Agents!Statuses
  <2> QED BY <1>1, <1>2, <2>1 DEF AgentsAside, AgentsPassed
<1>3. ASSUME r.status \in {"FAIL", "INCONCLUSIVE"}, NEW i \in 1..Len(r.cases),
             u[r.cases[i]] # NoOne, u[r.cases[i]].outcome = r.status
      PROVE  v[r.cases[i]] # NoOne /\ v[r.cases[i]].outcome = r.status
  <2>1. r.cases[i] # c
    BY <1>3, AgentsAssumption DEF AgentsOpen, Agents!Statuses
  <2> QED BY <1>1, <1>3, <2>1 DEF AgentsAside
<1> QED BY <1>2, <1>3 DEF AgentsTold

(* Two runs are apart when the one that changed is at a case of its own.   *)
LEMMA AgentsStayApart ==
    ASSUME NEW o \in Runners, NEW u, NEW v, AgentsApart(u), \A p \in Runners : p # o => v[p] = u[p],
           \A p \in Runners : (p # o /\ u[p] # NoOne /\ u[p].agent # NoOne /\ v[o] # NoOne /\ v[o].agent # NoOne) =>
               u[p].cases[u[p].next] # v[o].cases[v[o].next]
    PROVE  AgentsApart(v)
BY DEF AgentsApart

(* A step of one run on its case.                                          *)
LEMMA AgentsStepBy ==
    ASSUME AgentsInv, AgentsTypes', NEW o \in Runners, NEW c \in Agents!Cases,
           AgentsAside(reservation, reservation', sent, sent', c), AgentsOpen(reservation, c),
           AgentsWithin(reservation'), AgentsRow(reservation', sent', c),
           \A p \in Runners : p # o => job'[p] = job[p],
           \A p \in Runners : (p # o /\ job[p] # NoOne /\ job[p].agent # NoOne) => job[p].cases[job[p].next] # c,
           job'[o] # NoOne => AgentsRun(job'[o], reservation', sent'),
           (job'[o] # NoOne /\ job'[o].agent # NoOne) => job'[o].cases[job'[o].next] = c,
           \A p \in Runners : results'[p] = results[p] \/ AgentsTold(results'[p], reservation')
    PROVE  AgentsInv'
<1>1. ASSUME NEW e \in Agents!Cases PROVE AgentsRow(reservation', sent', e)
  <2>1. CASE e = c
    BY <2>1
  <2>2. CASE e # c
    <3>1. AgentsRow(reservation, sent, e)
      BY DEF AgentsInv
    <3> QED BY <2>2, <3>1 DEF AgentsRow, AgentsAside
  <2> QED BY <2>1, <2>2
<1>2. ASSUME NEW p \in Runners, job'[p] # NoOne PROVE AgentsRun(job'[p], reservation', sent')
  <2>1. CASE p = o
    BY <1>2, <2>1
  <2>2. CASE p # o
    <3>1. PICK t \in Agents!RunRecords : t = job[p] /\ t = job'[p]
      BY <1>2, <2>2 DEF AgentsInv, AgentsTypes
    <3>2. AgentsRun(t, reservation, sent)
      BY <1>2, <3>1 DEF AgentsInv
    <3>3. t.agent # NoOne => t.cases[t.next] # c
      BY <1>2, <2>2, <3>1
    <3> QED BY <3>1, <3>2, <3>3, AgentsRunStays
  <2> QED BY <2>1, <2>2
<1>3. ASSUME NEW p \in Runners, results'[p] # NoOne PROVE AgentsTold(results'[p], reservation')
  <2>1. CASE results'[p] = results[p]
    <3>1. PICK r \in Agents!Reports : r = results[p] /\ r = results'[p]
      BY <1>3, <2>1 DEF AgentsInv, AgentsTypes
    <3>2. AgentsTold(r, reservation)
      BY <1>3, <3>1 DEF AgentsInv
    <3> QED BY <3>1, <3>2, AgentsToldStays
  <2>2. CASE AgentsTold(results'[p], reservation')
    BY <2>2
  <2> QED BY <2>1, <2>2
<1>4. AgentsApart(job')
  <2>1. AgentsApart(job)
    BY DEF AgentsInv
  <2> QED BY <2>1, AgentsStayApart
<1> QED BY <1>1, <1>2, <1>3, <1>4 DEF AgentsInv

(* A step that leaves the cases alone.                                     *)
LEMMA AgentsStepAside ==
    ASSUME AgentsInv, AgentsTypes', NEW o \in Runners, reservation' = reservation, sent' = sent,
           \A p \in Runners : p # o => job'[p] = job[p],
           job'[o] # NoOne => AgentsRun(job'[o], reservation, sent),
           (job'[o] # NoOne /\ job'[o].agent # NoOne) =>
               (job[o] # NoOne /\ job[o].agent # NoOne /\ job'[o].cases[job'[o].next] = job[o].cases[job[o].next]),
           \A p \in Runners : results'[p] = results[p] \/ AgentsTold(results'[p], reservation)
    PROVE  AgentsInv'
<1>1. ASSUME NEW p \in Runners, job'[p] # NoOne PROVE AgentsRun(job'[p], reservation, sent)
  BY <1>1 DEF AgentsInv
<1>2. ASSUME NEW p \in Runners, results'[p] # NoOne PROVE AgentsTold(results'[p], reservation)
  BY <1>2 DEF AgentsInv
<1>3. AgentsApart(job')
  <2>1. AgentsApart(job)
    BY DEF AgentsInv
  <2>2. \A p \in Runners : (p # o /\ job[p] # NoOne /\ job[p].agent # NoOne /\ job'[o] # NoOne /\ job'[o].agent # NoOne) =>
               job[p].cases[job[p].next] # job'[o].cases[job'[o].next]
    BY <2>1 DEF AgentsApart
  <2> QED BY <2>1, <2>2, AgentsStayApart
<1> QED BY <1>1, <1>2, <1>3 DEF AgentsInv, AgentsTypes, AgentsRow, AgentsWithin

LEMMA AgentsInit == Agents!Init => AgentsInv
<1> SUFFICES ASSUME Agents!Init PROVE AgentsInv
  OBVIOUS
<1>1. AgentsTypes
  BY DEF Agents!Init, AgentsTypes
<1>2. AgentsHeld(reservation) = {}
  BY DEF Agents!Init, AgentsHeld
<1>3. AgentsWithin(reservation)
  <2>1. SumOver(AgentsAmounts(reservation), {}) = 0 /\ Cardinality({}) = 0
    BY SumNone, FS_EmptySet
  <2> QED BY <1>2, <2>1, AgentsAssumption DEF AgentsWithin
<1>4. \A c \in Agents!Cases : AgentsRow(reservation, sent, c)
  BY DEF Agents!Init, AgentsRow, Agents!Agents
<1> QED BY <1>1, <1>3, <1>4 DEF AgentsInv, Agents!Init, AgentsApart

(* The report that ends a run.                                             *)
LEMMA AgentsReportAs ==
    ASSUME AgentsInv, NEW o \in Runners, job[o] # NoOne, NEW st \in Agents!Statuses, Agents!ReportAs(o, st)
    PROVE  /\ job' \in [Runners -> Agents!RunRecords \cup {NoOne}] /\ job'[o] = NoOne
           /\ \A p \in Runners : p # o => job'[p] = job[p]
           /\ results' \in [Runners -> Agents!Reports \cup {NoOne}]
           /\ results'[o] = [status |-> st, cases |-> job[o].cases]
           /\ \A p \in Runners : p # o => results'[p] = results[p]
<1>1. results' = [results EXCEPT ![o] = [status |-> st, cases |-> job[o].cases]] /\ job' = [job EXCEPT ![o] = NoOne]
  BY DEF Agents!ReportAs
<1>2. [status |-> st, cases |-> job[o].cases] \in Agents!Reports
  BY DEF AgentsInv, AgentsTypes, Agents!RunRecords, Agents!Reports
<1>3. job \in [Runners -> Agents!RunRecords \cup {NoOne}] /\ results \in [Runners -> Agents!Reports \cup {NoOne}]
  BY DEF AgentsInv, AgentsTypes
<1> QED BY <1>1, <1>2, <1>3

LEMMA AgentsReportAside ==
    ASSUME AgentsInv, NEW o \in Runners, job[o] # NoOne, NEW st \in Agents!Statuses, Agents!ReportAs(o, st),
           AgentsTold([status |-> st, cases |-> job[o].cases], reservation), UNCHANGED <<reservation, sent>>
    PROVE  AgentsInv'
<1>1. /\ job' \in [Runners -> Agents!RunRecords \cup {NoOne}] /\ job'[o] = NoOne
      /\ \A p \in Runners : p # o => job'[p] = job[p]
      /\ results' \in [Runners -> Agents!Reports \cup {NoOne}]
      /\ results'[o] = [status |-> st, cases |-> job[o].cases]
      /\ \A p \in Runners : p # o => results'[p] = results[p]
  BY AgentsReportAs
<1>2. AgentsTypes'
  BY <1>1 DEF AgentsInv, AgentsTypes
<1>3. \A p \in Runners : results'[p] = results[p] \/ AgentsTold(results'[p], reservation)
  BY <1>1
<1> QED BY <1>1, <1>2, <1>3, AgentsStepAside

LEMMA AgentsStartKeeps ==
    ASSUME AgentsInv, NEW o \in Runners, NEW l \in AgentLists, Agents!Start(o, l) PROVE AgentsInv'
<1> DEFINE t == [cases |-> l, next |-> 1, agent |-> NoOne, inFlight |-> FALSE, cost |-> 0]
<1>1. t \in Agents!RunRecords
  BY AgentsAssumption DEF Agents!RunRecords
<1>2. AgentsRun(t, reservation, sent)
  BY AgentsDomains DEF AgentsRun
<1>3. job' = [job EXCEPT ![o] = t] /\ UNCHANGED <<reservation, sent, results>>
  BY DEF Agents!Start
<1>4. t.agent = NoOne
  OBVIOUS
<1> HIDE DEF t
<1>5. job'[o] = t /\ (\A p \in Runners : p # o => job'[p] = job[p]) /\ AgentsTypes'
  BY <1>1, <1>3 DEF AgentsInv, AgentsTypes
<1> QED BY <1>2, <1>3, <1>4, <1>5, AgentsStepAside

LEMMA AgentsExceedBudgetKeeps ==
    ASSUME AgentsInv, NEW o \in Runners, Agents!ExceedBudget(o) PROVE AgentsInv'
<1>1. job[o] # NoOne /\ Agents!ReportAs(o, "BLOCKED") /\ UNCHANGED <<reservation, sent>> /\ "BLOCKED" \in Agents!Statuses
  BY DEF Agents!ExceedBudget, Agents!BetweenCases, Agents!Statuses
<1>2. AgentsTold([status |-> "BLOCKED", cases |-> job[o].cases], reservation)
  BY DEF AgentsTold
<1> QED BY <1>1, <1>2, AgentsReportAside

LEMMA AgentsReportKeeps ==
    ASSUME AgentsInv, NEW o \in Runners, Agents!Report(o) PROVE AgentsInv'
<1>1. job[o] # NoOne /\ Agents!ReportAs(o, "PASS") /\ UNCHANGED <<reservation, sent>> /\ "PASS" \in Agents!Statuses
      /\ ~(job[o].next <= Len(job[o].cases))
  BY DEF Agents!Report, Agents!BetweenCases, Agents!CaseLeft, Agents!Statuses
<1>2. PICK t \in Agents!RunRecords : t = job[o] /\ AgentsRun(t, reservation, sent)
  BY <1>1 DEF AgentsInv, AgentsTypes
<1>3. Len(t.cases) \in Nat /\ t.next = Len(t.cases) + 1
  <2>1. Len(t.cases) \in Nat
    BY AgentsDomains DEF Agents!RunRecords
  <2> QED BY <1>1, <1>2, <2>1 DEF AgentsRun
<1>4. \A i \in 1..Len(t.cases) : AgentsPassed(reservation, t.cases[i])
  <2>1. \A i \in 1..Len(t.cases) : i < t.next
    BY <1>3
  <2> QED BY <1>2, <2>1 DEF AgentsRun
<1>5. AgentsTold([status |-> "PASS", cases |-> job[o].cases], reservation)
  BY <1>2, <1>4 DEF AgentsTold
<1> QED BY <1>1, <1>5, AgentsReportAside

LEMMA AgentsReplayKeeps ==
    ASSUME AgentsInv, NEW o \in Runners, Agents!Replay(o) PROVE AgentsInv'
<1>1. /\ job[o] # NoOne /\ job[o].agent = NoOne /\ job[o].next <= Len(job[o].cases)
      /\ UNCHANGED <<reservation, sent>> /\ Agents!Case(o) = job[o].cases[job[o].next]
      /\ reservation[Agents!Case(o)] # NoOne
  BY DEF Agents!Replay, Agents!BetweenCases, Agents!CaseLeft, Agents!Case
<1>2. PICK t \in Agents!RunRecords : t = job[o] /\ AgentsRun(t, reservation, sent)
  BY <1>1 DEF AgentsInv, AgentsTypes
<1>3. Len(t.cases) \in Nat /\ t.next \in 1..Len(t.cases)
  <2>1. Len(t.cases) \in Nat
    BY AgentsDomains DEF Agents!RunRecords
  <2> QED BY <1>1, <1>2, <2>1 DEF AgentsRun
<1>4. PICK c \in Agents!Cases : c = Agents!Case(o) /\ c = t.cases[t.next]
  BY <1>1, <1>2, <1>3, AgentsDomains DEF Agents!RunRecords
<1>5. PICK u \in Agents!Reservations : u = reservation[c]
  BY <1>1, <1>4 DEF AgentsInv, AgentsTypes
<1>6. u # NoOne
  BY <1>1, <1>4, <1>5
<1>7. CASE u.state = "RESERVED" /\ Agents!ReportAs(o, "BLOCKED")
  <2>1. AgentsTold([status |-> "BLOCKED", cases |-> job[o].cases], reservation)
    BY DEF AgentsTold
  <2>2. "BLOCKED" \in Agents!Statuses
    BY DEF Agents!Statuses
  <2> QED BY <1>1, <1>7, <2>1, <2>2, AgentsReportAside
<1>8. CASE /\ u.state # "RESERVED" /\ u.outcome = "PASS" /\ results' = results
           /\ job' = [job EXCEPT ![o].next = @ + 1]
  <2>1. PICK n \in Nat : n = t.next + 1
    BY <1>3
  <2> DEFINE y == [t EXCEPT !.next = n]
  <2>2. y \in Agents!RunRecords /\ y.next = n /\ y.cases = t.cases /\ y.agent = NoOne /\ y.inFlight = t.inFlight
    BY <1>1, <1>2 DEF Agents!RunRecords
  <2>3. job' = [job EXCEPT ![o] = y]
    BY <1>2, <1>8, <2>1 DEF AgentsInv, AgentsTypes, Agents!RunRecords
  <2> HIDE DEF y
  <2>4. job'[o] = y /\ (\A p \in Runners : p # o => job'[p] = job[p]) /\ AgentsTypes'
    BY <1>1, <1>8, <2>2, <2>3 DEF AgentsInv, AgentsTypes
  <2>5. AgentsRun(y, reservation, sent)
    <3>1. ASSUME NEW i \in 1..Len(t.cases), i < n PROVE AgentsPassed(reservation, t.cases[i])
      <4>1. i < t.next \/ i = t.next
        BY <1>3, <2>1, <3>1
      <4> QED BY <1>2, <1>4, <1>5, <1>6, <1>8, <4>1 DEF AgentsRun, AgentsPassed
    <3>2. n \in 1..(Len(t.cases) + 1)
      BY <1>3, <2>1
    <3>3. ~t.inFlight
      BY <1>1, <1>2 DEF AgentsRun
    <3> QED BY <2>2, <3>1, <3>2, <3>3 DEF AgentsRun
  <2> QED BY <1>1, <1>8, <2>2, <2>4, <2>5, AgentsStepAside
<1>9. CASE u.state # "RESERVED" /\ u.outcome # "PASS" /\ Agents!ReportAs(o, u.outcome)
  <2>1. u.outcome \in Agents!Statuses
    BY <1>4, <1>5, <1>6, <1>9 DEF AgentsInv, AgentsRow
  <2>2. AgentsTold([status |-> u.outcome, cases |-> job[o].cases], reservation)
    BY <1>2, <1>3, <1>4, <1>5, <1>6, <1>9 DEF AgentsTold
  <2> QED BY <1>1, <1>9, <2>1, <2>2, AgentsReportAside
<1>10. \/ u.state = "RESERVED" /\ Agents!ReportAs(o, "BLOCKED")
       \/ u.state # "RESERVED" /\ u.outcome = "PASS" /\ results' = results /\ job' = [job EXCEPT ![o].next = @ + 1]
       \/ u.state # "RESERVED" /\ u.outcome # "PASS" /\ Agents!ReportAs(o, u.outcome)
  BY <1>1, <1>4, <1>5 DEF Agents!Replay
<1> QED BY <1>7, <1>8, <1>9, <1>10

LEMMA AgentsCrashKeeps == ASSUME AgentsInv, NEW o \in Runners, Agents!Crash(o) PROVE AgentsInv'
<1>1. job' = [job EXCEPT ![o] = NoOne] /\ UNCHANGED <<reservation, sent, results>>
  BY DEF Agents!Crash
<1>2. job'[o] = NoOne /\ (\A p \in Runners : p # o => job'[p] = job[p]) /\ AgentsTypes'
  BY <1>1 DEF AgentsInv, AgentsTypes
<1> QED BY <1>1, <1>2, AgentsStepAside

LEMMA AgentsReserveKeeps == ASSUME AgentsInv, NEW o \in Runners, Agents!Reserve(o) PROVE AgentsInv'
<1>0. job[o] # NoOne /\ job[o].agent = NoOne /\ job[o].next <= Len(job[o].cases)
  BY DEF Agents!Reserve, Agents!BetweenCases, Agents!CaseLeft
<1>b. Cardinality(Agents!Held) < AgentSlots /\ Agents!Exposure + AgentReservation <= AgentLimit
  BY DEF Agents!Reserve, Cardinality, Agents!Cardinality
<1>1. /\ job[o] # NoOne /\ job[o].agent = NoOne /\ job[o].next <= Len(job[o].cases)
      /\ Agents!Case(o) = job[o].cases[job[o].next] /\ reservation[Agents!Case(o)] = NoOne
      /\ reservation' = [reservation EXCEPT ![Agents!Case(o)] =
             [state |-> "RESERVED", amount |-> AgentReservation, usageKnown |-> FALSE, outcome |-> NoOne]]
      /\ job' = [job EXCEPT ![o].agent = "ANALYST", ![o].cost = 0]
      /\ UNCHANGED <<sent, results>>
  BY <1>0 DEF Agents!Reserve, Agents!Case
<1>2. PICK t \in Agents!RunRecords : t = job[o] /\ AgentsRun(t, reservation, sent)
  BY <1>1 DEF AgentsInv, AgentsTypes
<1>3. Len(t.cases) \in Nat /\ t.next \in 1..Len(t.cases)
  <2>1. Len(t.cases) \in Nat
    BY AgentsDomains DEF Agents!RunRecords
  <2> QED BY <1>1, <1>2, <2>1 DEF AgentsRun
<1>4. PICK c \in Agents!Cases : c = Agents!Case(o) /\ c = t.cases[t.next]
  BY <1>1, <1>2, <1>3, AgentsDomains DEF Agents!RunRecords
<1>5. PICK u \in [Agents!Cases -> Agents!Reservations \cup {NoOne}] : u = reservation /\ u[c] = NoOne
  BY <1>1, <1>4 DEF AgentsInv, AgentsTypes
<1>6. PICK n \in Nat : n = SumOver(AgentsAmounts(u), AgentsHeld(u))
  BY AgentsWeights
<1>7. n + AgentReservation <= AgentLimit /\ Cardinality(AgentsHeld(u)) < AgentSlots
  BY <1>b, <1>5, <1>6, AgentsExposureIs DEF Agents!Held, AgentsHeld
<1>8. AgentReservation \in 0..AgentLimit
  BY <1>7, AgentsAssumption
<1> DEFINE x == [state |-> "RESERVED", amount |-> AgentReservation, usageKnown |-> FALSE, outcome |-> NoOne]
           y == [t EXCEPT !.agent = "ANALYST", !.cost = 0]
<1>9. x \in Agents!Reservations /\ x.state = "RESERVED" /\ x.amount = AgentReservation /\ x.outcome = NoOne
  BY <1>8 DEF Agents!Reservations
<1>10. reservation' = [u EXCEPT ![c] = x]
  BY <1>1, <1>4, <1>5
<1>11. job' = [job EXCEPT ![o] = y]
  BY <1>1, <1>2 DEF AgentsInv, AgentsTypes, Agents!RunRecords
<1>12. y \in Agents!RunRecords /\ y.next = t.next /\ y.cases = t.cases /\ y.agent = "ANALYST" /\ ~y.inFlight
  <2>1. ~t.inFlight
    BY <1>1, <1>2 DEF AgentsRun
  <2>2. 0 \in 0..AgentReservation
    BY AgentsAssumption
  <2> QED BY <2>1, <2>2 DEF Agents!RunRecords, Agents!Agents
<1> HIDE DEF x, y
<1>13. x # NoOne
  BY <1>9, AgentsAssumption
<1>14. PICK v \in [Agents!Cases -> Agents!Reservations \cup {NoOne}] :
          v = reservation' /\ v[c] = x /\ \A e \in Agents!Cases : e # c => v[e] = u[e]
  BY <1>9, <1>10
<1>15. AgentsWithin(v)
  BY <1>5, <1>6, <1>7, <1>9, <1>13, <1>14, AgentsReserve
<1>16. AgentsAside(reservation, reservation', sent, sent', c) /\ AgentsOpen(reservation, c)
  BY <1>1, <1>5, <1>14 DEF AgentsAside, AgentsOpen
<1>17. sent[<<c, "ANALYST">>] = 0 /\ sent[<<c, "PLANNER">>] = 0
  BY <1>5 DEF AgentsInv, AgentsRow
<1>18. AgentsRow(reservation', sent', c)
  BY <1>1, <1>9, <1>13, <1>14, <1>17, AgentsAssumption DEF AgentsRow, Agents!Statuses
<1>19. AgentsReserved(reservation', c) /\ AgentsRun(t, reservation', sent')
  <2>1. AgentsReserved(reservation', c)
    BY <1>9, <1>13, <1>14 DEF AgentsReserved
  <2> QED BY <1>1, <1>2, <1>16, <2>1, AgentsRunStays
<1>20. AgentsRun(y, reservation', sent')
  <2>1. y.agent # NoOne
    BY <1>12, AgentsAssumption DEF Agents!Agents
  <2>2. sent'[<<c, "ANALYST">>] = 0 /\ sent'[<<c, "PLANNER">>] = 0
    BY <1>1, <1>17
  <2>3. /\ t.next \in 1..(Len(t.cases) + 1)
        /\ \A i \in 1..Len(t.cases) : i < t.next => AgentsPassed(reservation', t.cases[i])
    BY <1>19 DEF AgentsRun
  <2>4. AgentsReserved(reservation', y.cases[y.next]) /\ sent'[<<y.cases[y.next], "ANALYST">>] = 0
        /\ sent'[<<y.cases[y.next], "PLANNER">>] = 0
    BY <1>4, <1>12, <1>19, <2>2
  <2>5. y.next \in 1..Len(y.cases) /\ y.next \in 1..(Len(y.cases) + 1)
    BY <1>3, <1>12
  <2>6. \A i \in 1..Len(y.cases) : i < y.next => AgentsPassed(reservation', y.cases[i])
    BY <1>12, <2>3
  <2>7. /\ sent'[<<y.cases[y.next], "ANALYST">>] = (IF y.agent = "ANALYST" /\ ~y.inFlight THEN 0 ELSE 1)
        /\ sent'[<<y.cases[y.next], "PLANNER">>] = (IF y.agent = "PLANNER" /\ y.inFlight THEN 1 ELSE 0)
    BY <1>12, <2>4
  <2>8. y.inFlight => y.agent # NoOne
    BY <1>12
  <2> QED BY <2>4, <2>5, <2>6, <2>7, <2>8 DEF AgentsRun
<1>21. job'[o] = y /\ (\A p \in Runners : p # o => job'[p] = job[p]) /\ AgentsTypes'
  <2>1. job'[o] = y /\ (\A p \in Runners : p # o => job'[p] = job[p])
        /\ job' \in [Runners -> Agents!RunRecords \cup {NoOne}]
    BY <1>11, <1>12 DEF AgentsInv, AgentsTypes
  <2> QED BY <1>1, <1>14, <2>1 DEF AgentsInv, AgentsTypes
<1>22. \A p \in Runners : (p # o /\ job[p] # NoOne /\ job[p].agent # NoOne) => job[p].cases[job[p].next] # c
  BY <1>5 DEF AgentsInv, AgentsRun, AgentsReserved
<1>23. AgentsWithin(reservation') /\ AgentsRun(job'[o], reservation', sent')
       /\ job'[o].cases[job'[o].next] = c
  BY <1>4, <1>12, <1>14, <1>15, <1>20, <1>21
<1> QED BY <1>1, <1>16, <1>18, <1>21, <1>22, <1>23, AgentsStepBy

(* A run whose case an agent works on.                                     *)
LEMMA AgentsAt ==
    ASSUME AgentsInv, NEW o \in Runners, job[o] # NoOne, job[o].agent # NoOne
    PROVE  /\ job[o] \in Agents!RunRecords /\ AgentsRun(job[o], reservation, sent)
           /\ job[o].agent \in {"ANALYST", "PLANNER"}
           /\ job[o].next \in 1..Len(job[o].cases) /\ Len(job[o].cases) \in Nat /\ job[o].cost \in 0..AgentReservation
           /\ Agents!Case(o) \in Agents!Cases /\ Agents!Case(o) = job[o].cases[job[o].next]
           /\ reservation \in [Agents!Cases -> Agents!Reservations \cup {NoOne}]
           /\ AgentsReserved(reservation, Agents!Case(o)) /\ AgentsOpen(reservation, Agents!Case(o))
           /\ reservation[Agents!Case(o)].amount = AgentReservation /\ AgentReservation \in 0..AgentLimit
           /\ AgentsWithin(reservation)
           /\ sent[<<Agents!Case(o), "ANALYST">>] = (IF job[o].agent = "ANALYST" /\ ~job[o].inFlight THEN 0 ELSE 1)
           /\ sent[<<Agents!Case(o), "PLANNER">>] = (IF job[o].agent = "PLANNER" /\ job[o].inFlight THEN 1 ELSE 0)
           /\ \A p \in Runners : (p # o /\ job[p] # NoOne /\ job[p].agent # NoOne) =>
                  job[p].cases[job[p].next] # Agents!Case(o)
<1>1. PICK t \in Agents!RunRecords : t = job[o] /\ AgentsRun(t, reservation, sent)
  BY DEF AgentsInv, AgentsTypes
<1>2. t.next \in 1..Len(t.cases) /\ Len(t.cases) \in Nat /\ t.agent \in {"ANALYST", "PLANNER"} /\ t.cost \in 0..AgentReservation
  BY <1>1, AgentsDomains DEF AgentsRun, Agents!RunRecords, Agents!Agents
<1>3. PICK c \in Agents!Cases : c = Agents!Case(o) /\ c = t.cases[t.next]
  BY <1>1, <1>2, AgentsDomains DEF Agents!RunRecords, Agents!Case
<1>4. PICK u \in [Agents!Cases -> Agents!Reservations \cup {NoOne}] : u = reservation
  BY DEF AgentsInv, AgentsTypes
<1>5. /\ AgentsReserved(u, c)
      /\ sent[<<c, "ANALYST">>] = (IF t.agent = "ANALYST" /\ ~t.inFlight THEN 0 ELSE 1)
      /\ sent[<<c, "PLANNER">>] = (IF t.agent = "PLANNER" /\ t.inFlight THEN 1 ELSE 0)
  BY <1>1, <1>3, <1>4 DEF AgentsRun
<1>6. u[c] \in Agents!Reservations
  BY <1>5 DEF AgentsReserved
<1>7. u[c].amount = AgentReservation /\ u[c].outcome = NoOne
  BY <1>4, <1>5 DEF AgentsInv, AgentsRow, AgentsReserved
<1>8. AgentReservation \in 0..AgentLimit
  BY <1>6, <1>7 DEF Agents!Reservations
<1>9. AgentsOpen(u, c) /\ AgentsWithin(u)
  BY <1>4, <1>5, <1>7 DEF AgentsOpen, AgentsReserved, AgentsInv
<1>10. \A p \in Runners : (p # o /\ job[p] # NoOne /\ job[p].agent # NoOne) => job[p].cases[job[p].next] # c
  BY <1>1, <1>3 DEF AgentsInv, AgentsApart
<1> QED BY <1>1, <1>2, <1>3, <1>4, <1>5, <1>6, <1>7, <1>8, <1>9, <1>10

LEMMA AgentsSendKeeps == ASSUME AgentsInv, NEW o \in Runners, Agents!Send(o) PROVE AgentsInv'
<1>1. /\ job[o] # NoOne /\ job[o].agent # NoOne /\ ~job[o].inFlight
      /\ sent' = [sent EXCEPT ![<<Agents!Case(o), job[o].agent>>] = @ + 1]
      /\ job' = [job EXCEPT ![o].inFlight = TRUE]
      /\ UNCHANGED <<reservation, results>>
  BY DEF Agents!Send
<1>a. PICK c \in Agents!Cases : c = Agents!Case(o)
  BY <1>1, AgentsAt
<1>2. PICK t \in Agents!RunRecords :
         /\ t = job[o] /\ AgentsRun(t, reservation, sent) /\ t.agent \in {"ANALYST", "PLANNER"}
         /\ t.next \in 1..Len(t.cases)
         /\ c = Agents!Case(o) /\ c = t.cases[t.next]
         /\ AgentsReserved(reservation, c) /\ AgentsOpen(reservation, c)
         /\ sent[<<c, "ANALYST">>] = (IF t.agent = "ANALYST" /\ ~t.inFlight THEN 0 ELSE 1)
         /\ sent[<<c, "PLANNER">>] = (IF t.agent = "PLANNER" /\ t.inFlight THEN 1 ELSE 0)
         /\ \A p \in Runners : (p # o /\ job[p] # NoOne /\ job[p].agent # NoOne) => job[p].cases[job[p].next] # c
  BY <1>1, <1>a, AgentsAt
<1> DEFINE y == [t EXCEPT !.inFlight = TRUE]
<1>3. y \in Agents!RunRecords /\ y.next = t.next /\ y.cases = t.cases /\ y.agent = t.agent /\ y.inFlight
  BY DEF Agents!RunRecords
<1>4. job' = [job EXCEPT ![o] = y]
  BY <1>1, <1>2 DEF AgentsInv, AgentsTypes, Agents!RunRecords
<1> HIDE DEF y
<1>5. sent \in [Agents!Cases \X Agents!Agents -> Nat] /\ <<c, t.agent>> \in Agents!Cases \X Agents!Agents
  BY <1>2 DEF AgentsInv, AgentsTypes, Agents!Agents
<1>6. sent' \in [Agents!Cases \X Agents!Agents -> Nat]
  BY <1>1, <1>2, <1>5
<1>7. \A e \in Agents!Cases : \A g \in Agents!Agents :
          sent'[<<e, g>>] = (IF e = c /\ g = t.agent THEN sent[<<e, g>>] + 1 ELSE sent[<<e, g>>])
  BY <1>1, <1>2, <1>5
<1>8. "ANALYST" \in Agents!Agents /\ "PLANNER" \in Agents!Agents
  BY DEF Agents!Agents
<1>9. AgentsAside(reservation, reservation', sent, sent', c)
  BY <1>1, <1>7, <1>8 DEF AgentsAside
<1>10. /\ sent'[<<c, "ANALYST">>] = 1
       /\ sent'[<<c, "PLANNER">>] = (IF t.agent = "PLANNER" THEN 1 ELSE 0)
  <2>1. ~t.inFlight
    BY <1>1, <1>2
  <2>2. CASE t.agent = "ANALYST"
    BY <1>2, <1>7, <1>8, <2>1, <2>2
  <2>3. CASE t.agent = "PLANNER"
    BY <1>2, <1>7, <1>8, <2>1, <2>3
  <2> QED BY <1>2, <2>2, <2>3
<1>11. AgentsRow(reservation', sent', c)
  <2>1. reservation[c] # NoOne /\ reservation[c].outcome = NoOne /\ reservation[c].state = "RESERVED"
        /\ reservation[c].amount = AgentReservation
    BY <1>2 DEF AgentsInv, AgentsRow, AgentsReserved
  <2> QED BY <1>1, <1>10, <2>1, AgentsAssumption DEF AgentsRow, Agents!Statuses
<1>12. AgentsRun(y, reservation', sent')
  BY <1>1, <1>2, <1>3, <1>10 DEF AgentsRun
<1>13. AgentsWithin(reservation')
  BY <1>1 DEF AgentsInv, AgentsWithin
<1>14. job'[o] = y /\ (\A p \in Runners : p # o => job'[p] = job[p]) /\ AgentsTypes'
  BY <1>1, <1>3, <1>4, <1>6 DEF AgentsInv, AgentsTypes
<1>15. AgentsRun(job'[o], reservation', sent') /\ job'[o].cases[job'[o].next] = c
  BY <1>2, <1>3, <1>12, <1>14
<1> QED BY <1>1, <1>2, <1>9, <1>11, <1>13, <1>14, <1>15, AgentsStepBy

(* settle or release of the case a run is at.                              *)
LEMMA AgentsCloses ==
    ASSUME AgentsInv, NEW o \in Runners, job[o] # NoOne, job[o].agent # NoOne,
           NEW x \in Agents!Reservations, x.state # "RESERVED", x.amount <= AgentReservation, x.outcome \in Agents!Statuses,
           reservation' = [reservation EXCEPT ![Agents!Case(o)] = x], sent' = sent,
           x.state = "RELEASED" => sent[<<Agents!Case(o), "ANALYST">>] = 0,
           x.outcome = "FAIL" => sent[<<Agents!Case(o), "PLANNER">>] = 0,
           x.outcome = "PASS" => sent[<<Agents!Case(o), "ANALYST">>] = 1 /\ sent[<<Agents!Case(o), "PLANNER">>] = 1,
           job' \in [Runners -> Agents!RunRecords \cup {NoOne}],
           \A p \in Runners : p # o => job'[p] = job[p],
           job'[o] # NoOne => job'[o].agent = NoOne /\ AgentsRun(job'[o], reservation', sent'),
           results' \in [Runners -> Agents!Reports \cup {NoOne}],
           \A p \in Runners : results'[p] = results[p] \/ AgentsTold(results'[p], reservation')
    PROVE  AgentsInv'
<1>1. /\ Agents!Case(o) \in Agents!Cases
      /\ AgentsReserved(reservation, Agents!Case(o)) /\ AgentsOpen(reservation, Agents!Case(o))
      /\ reservation[Agents!Case(o)].amount = AgentReservation
      /\ reservation \in [Agents!Cases -> Agents!Reservations \cup {NoOne}] /\ AgentsWithin(reservation)
      /\ \A p \in Runners : (p # o /\ job[p] # NoOne /\ job[p].agent # NoOne) =>
              job[p].cases[job[p].next] # Agents!Case(o)
  BY AgentsAt
<1>2. PICK c \in Agents!Cases : c = Agents!Case(o)
  BY <1>1
<1>3. PICK u \in [Agents!Cases -> Agents!Reservations \cup {NoOne}] :
         /\ c = Agents!Case(o) /\ u = reservation
         /\ AgentsReserved(u, c) /\ u[c].amount = AgentReservation /\ AgentsOpen(u, c) /\ AgentsWithin(u)
         /\ \A p \in Runners : (p # o /\ job[p] # NoOne /\ job[p].agent # NoOne) => job[p].cases[job[p].next] # c
  BY <1>1, <1>2
<1>4. x # NoOne
  BY AgentsAssumption
<1>5. PICK v \in [Agents!Cases -> Agents!Reservations \cup {NoOne}] :
          v = reservation' /\ v[c] = x /\ \A e \in Agents!Cases : e # c => v[e] = u[e]
  <2>1. reservation' = [u EXCEPT ![c] = x]
    BY <1>3
  <2>2. [u EXCEPT ![c] = x] \in [Agents!Cases -> Agents!Reservations \cup {NoOne}]
    OBVIOUS
  <2> QED BY <2>1, <2>2
<1>6. AgentsWithin(v)
  BY <1>3, <1>4, <1>5, AgentsClose
<1>7. AgentsAside(reservation, reservation', sent, sent', c) /\ AgentsOpen(reservation, c)
  BY <1>3, <1>5 DEF AgentsAside
<1>8. AgentsRow(v, sent, c)
  <2>1. sent[<<c, "ANALYST">>] <= 1 /\ sent[<<c, "PLANNER">>] <= 1
    BY <1>3 DEF AgentsInv, AgentsRow
  <2> QED BY <1>3, <1>4, <1>5, <2>1 DEF AgentsRow
<1>9. AgentsTypes'
  BY <1>5 DEF AgentsInv, AgentsTypes
<1>10. AgentsWithin(reservation') /\ AgentsRow(reservation', sent', c)
  BY <1>5, <1>6, <1>8
<1>11. \A p \in Runners : (p # o /\ job[p] # NoOne /\ job[p].agent # NoOne) => job[p].cases[job[p].next] # c
  BY <1>3
<1> QED BY <1>7, <1>9, <1>10, <1>11, AgentsStepBy

(* ... and the report that says so.                                        *)
LEMMA AgentsClosesAndReports ==
    ASSUME AgentsInv, NEW o \in Runners, job[o] # NoOne, job[o].agent # NoOne,
           NEW x \in Agents!Reservations, x.state # "RESERVED", x.amount <= AgentReservation,
           x.outcome \in {"FAIL", "INCONCLUSIVE"},
           reservation' = [reservation EXCEPT ![Agents!Case(o)] = x], sent' = sent,
           x.state = "RELEASED" => sent[<<Agents!Case(o), "ANALYST">>] = 0,
           x.outcome = "FAIL" => sent[<<Agents!Case(o), "PLANNER">>] = 0,
           Agents!ReportAs(o, x.outcome)
    PROVE  AgentsInv'
<1>1. x.outcome \in Agents!Statuses /\ x.outcome # "PASS" /\ x # NoOne
  BY AgentsAssumption DEF Agents!Statuses
<1>2. /\ job' \in [Runners -> Agents!RunRecords \cup {NoOne}] /\ job'[o] = NoOne
      /\ \A p \in Runners : p # o => job'[p] = job[p]
      /\ results' \in [Runners -> Agents!Reports \cup {NoOne}]
      /\ results'[o] = [status |-> x.outcome, cases |-> job[o].cases]
      /\ \A p \in Runners : p # o => results'[p] = results[p]
  BY <1>1, AgentsReportAs
<1>3. PICK t \in Agents!RunRecords :
          t = job[o] /\ t.next \in 1..Len(t.cases) /\ Agents!Case(o) \in Agents!Cases /\ Agents!Case(o) = t.cases[t.next]
  BY AgentsAt
<1>4. reservation'[t.cases[t.next]] = x
  BY <1>3 DEF AgentsInv, AgentsTypes
<1>5. AgentsTold([status |-> x.outcome, cases |-> t.cases], reservation')
  BY <1>1, <1>3, <1>4 DEF AgentsTold
<1>6. \A p \in Runners : results'[p] = results[p] \/ AgentsTold(results'[p], reservation')
  BY <1>2, <1>3, <1>5
<1> QED BY <1>1, <1>2, <1>6, AgentsCloses

(* Nobody knows what the call cost.                                        *)
LEMMA AgentsSettleUnknown ==
    ASSUME AgentsInv, NEW o \in Runners, job[o] # NoOne, job[o].agent # NoOne, Agents!SettleUnknown(o), sent' = sent
    PROVE  AgentsInv'
<1>1. reservation[Agents!Case(o)].amount = AgentReservation /\ AgentReservation \in 0..AgentLimit
  BY AgentsAt
<1> DEFINE x == [state |-> "SETTLED", amount |-> AgentReservation, usageKnown |-> FALSE, outcome |-> "INCONCLUSIVE"]
<1>2. x \in Agents!Reservations /\ x.state = "SETTLED" /\ x.amount = AgentReservation /\ x.outcome = "INCONCLUSIVE"
  BY <1>1 DEF Agents!Reservations, Agents!Statuses
<1>3. reservation' = [reservation EXCEPT ![Agents!Case(o)] = x] /\ Agents!ReportAs(o, "INCONCLUSIVE")
  BY <1>1 DEF Agents!SettleUnknown, Agents!CloseCase
<1> HIDE DEF x
<1>4. x.state # "RESERVED" /\ x.state # "RELEASED" /\ x.outcome # "FAIL" /\ x.amount <= AgentReservation
      /\ Agents!ReportAs(o, x.outcome) /\ x.outcome \in {"FAIL", "INCONCLUSIVE"}
  BY <1>1, <1>2, <1>3
<1> QED BY <1>2, <1>3, <1>4, AgentsClosesAndReports

LEMMA AgentsLoseCallKeeps == ASSUME AgentsInv, NEW o \in Runners, Agents!LoseCall(o) PROVE AgentsInv'
BY AgentsSettleUnknown DEF Agents!LoseCall

LEMMA AgentsRefuseSendKeeps == ASSUME AgentsInv, NEW o \in Runners, Agents!RefuseSend(o) PROVE AgentsInv'
<1>1. job[o] # NoOne /\ job[o].agent # NoOne /\ ~job[o].inFlight /\ Agents!ReportAs(o, "FAIL") /\ sent' = sent
  BY DEF Agents!RefuseSend
<1>2. PICK t \in Agents!RunRecords :
         /\ t = job[o] /\ t.cost \in 0..AgentReservation /\ t.agent \in {"ANALYST", "PLANNER"}
         /\ reservation[Agents!Case(o)].amount = AgentReservation /\ AgentReservation \in 0..AgentLimit
         /\ sent[<<Agents!Case(o), "ANALYST">>] = (IF t.agent = "ANALYST" /\ ~t.inFlight THEN 0 ELSE 1)
         /\ sent[<<Agents!Case(o), "PLANNER">>] = (IF t.agent = "PLANNER" /\ t.inFlight THEN 1 ELSE 0)
  BY <1>1, AgentsAt
<1>3. sent[<<Agents!Case(o), "PLANNER">>] = 0 /\ (t.agent = "ANALYST" => sent[<<Agents!Case(o), "ANALYST">>] = 0)
  BY <1>1, <1>2
<1>4. CASE t.agent = "ANALYST"
  <2> DEFINE x == [state |-> "RELEASED", amount |-> AgentReservation, usageKnown |-> FALSE, outcome |-> "FAIL"]
  <2>1. x \in Agents!Reservations /\ x.state = "RELEASED" /\ x.amount = AgentReservation /\ x.outcome = "FAIL"
    BY <1>2 DEF Agents!Reservations, Agents!Statuses
  <2>2. reservation' = [reservation EXCEPT ![Agents!Case(o)] = x]
    BY <1>2, <1>4 DEF Agents!RefuseSend, Agents!CloseCase
  <2> HIDE DEF x
  <2>3. x.state # "RESERVED" /\ x.amount <= AgentReservation /\ x.outcome \in {"FAIL", "INCONCLUSIVE"}
        /\ Agents!ReportAs(o, x.outcome)
    BY <1>1, <1>2, <2>1
  <2> QED BY <1>1, <1>3, <1>4, <2>1, <2>2, <2>3, AgentsClosesAndReports
<1>5. CASE t.agent = "PLANNER"
  <2>1. PICK n \in 0..AgentReservation : n = t.cost
    BY <1>2
  <2> DEFINE x == [state |-> "SETTLED", amount |-> n, usageKnown |-> TRUE, outcome |-> "FAIL"]
  <2>2. n \in 0..AgentLimit /\ n <= AgentReservation
    BY <1>2, AgentsAssumption
  <2>3. x \in Agents!Reservations /\ x.state = "SETTLED" /\ x.amount = n /\ x.outcome = "FAIL"
    BY <2>2 DEF Agents!Reservations, Agents!Statuses
  <2>4. reservation' = [reservation EXCEPT ![Agents!Case(o)] = x]
    BY <1>2, <1>5, <2>1 DEF Agents!RefuseSend, Agents!CloseCase
  <2> HIDE DEF x
  <2> QED BY <1>1, <1>3, <2>2, <2>3, <2>4, AgentsClosesAndReports
<1> QED BY <1>2, <1>4, <1>5

LEMMA AgentsAnswerKeeps ==
    ASSUME AgentsInv, NEW o \in Runners, NEW g \in AgentCosts, Agents!Answer(o, g) PROVE AgentsInv'
<1>1. job[o] # NoOne /\ job[o].inFlight /\ sent' = sent /\ g \in Nat
  BY AgentsAssumption DEF Agents!Answer
<1>2. job[o].agent # NoOne
  BY <1>1 DEF AgentsInv, AgentsRun
<1>3. PICK t \in Agents!RunRecords :
         /\ t = job[o] /\ AgentsRun(t, reservation, sent) /\ t.agent \in {"ANALYST", "PLANNER"}
         /\ t.next \in 1..Len(t.cases) /\ Len(t.cases) \in Nat /\ t.cost \in 0..AgentReservation
         /\ Agents!Case(o) \in Agents!Cases /\ Agents!Case(o) = t.cases[t.next] /\ AgentReservation \in 0..AgentLimit
         /\ AgentsOpen(reservation, Agents!Case(o)) /\ AgentsReserved(reservation, Agents!Case(o))
         /\ sent[<<Agents!Case(o), "ANALYST">>] = (IF t.agent = "ANALYST" /\ ~t.inFlight THEN 0 ELSE 1)
         /\ sent[<<Agents!Case(o), "PLANNER">>] = (IF t.agent = "PLANNER" /\ t.inFlight THEN 1 ELSE 0)
  BY <1>1, <1>2, AgentsAt
<1>4. PICK c \in Agents!Cases : c = Agents!Case(o) /\ c = t.cases[t.next]
  BY <1>3
<1>5. PICK n \in Nat : n = t.cost + g
  BY <1>1, <1>3, AgentsAssumption
<1>6. CASE Agents!SettleUnknown(o)
  BY <1>1, <1>2, <1>6, AgentsSettleUnknown
<1>7. CASE /\ n <= AgentReservation /\ t.agent = "ANALYST" /\ UNCHANGED <<reservation, results>>
           /\ job' = [job EXCEPT ![o].agent = "PLANNER", ![o].inFlight = FALSE, ![o].cost = n]
  <2> DEFINE y == [t EXCEPT !.agent = "PLANNER", !.inFlight = FALSE, !.cost = n]
  <2>1. n \in 0..AgentReservation
    BY <1>7, AgentsAssumption
  <2>2. y \in Agents!RunRecords /\ y.next = t.next /\ y.cases = t.cases /\ y.agent = "PLANNER" /\ ~y.inFlight
    BY <2>1 DEF Agents!RunRecords, Agents!Agents
  <2>3. job' = [job EXCEPT ![o] = y]
    BY <1>3, <1>7 DEF AgentsInv, AgentsTypes, Agents!RunRecords
  <2> HIDE DEF y
  <2>4. job'[o] = y /\ (\A p \in Runners : p # o => job'[p] = job[p]) /\ AgentsTypes'
    <3>1. job'[o] = y /\ (\A p \in Runners : p # o => job'[p] = job[p])
          /\ job' \in [Runners -> Agents!RunRecords \cup {NoOne}]
      BY <2>2, <2>3 DEF AgentsInv, AgentsTypes
    <3> QED BY <1>1, <1>7, <3>1 DEF AgentsInv, AgentsTypes
  <2>5. AgentsRun(y, reservation, sent)
    <3>1. /\ sent[<<y.cases[y.next], "ANALYST">>] = 1 /\ sent[<<y.cases[y.next], "PLANNER">>] = 0
          /\ AgentsReserved(reservation, y.cases[y.next])
      BY <1>1, <1>3, <1>7, <2>2
    <3>2. y.next \in 1..Len(y.cases) /\ y.next \in 1..(Len(y.cases) + 1)
      BY <1>3, <2>2
    <3>3. \A i \in 1..Len(y.cases) : i < y.next => AgentsPassed(reservation, y.cases[i])
      BY <1>3, <2>2 DEF AgentsRun
    <3> QED BY <2>2, <3>1, <3>2, <3>3 DEF AgentsRun
  <2> QED BY <1>1, <1>2, <1>3, <1>7, <2>2, <2>4, <2>5, AgentsStepAside
<1>8. CASE /\ n <= AgentReservation /\ t.agent # "ANALYST" /\ Agents!CloseCase(c, "SETTLED", n, TRUE, "PASS")
           /\ job' = [job EXCEPT ![o].agent = NoOne, ![o].inFlight = FALSE, ![o].next = @ + 1]
           /\ results' = results
  <2> DEFINE x == [state |-> "SETTLED", amount |-> n, usageKnown |-> TRUE, outcome |-> "PASS"]
  <2>1. n \in 0..AgentLimit /\ n <= AgentReservation
    BY <1>3, <1>8, AgentsAssumption
  <2>2. x \in Agents!Reservations /\ x.state = "SETTLED" /\ x.amount = n /\ x.outcome = "PASS" /\ x.outcome \in Agents!Statuses
    BY <2>1 DEF Agents!Reservations, Agents!Statuses
  <2>3. reservation' = [reservation EXCEPT ![c] = x]
    BY <1>8 DEF Agents!CloseCase
  <2>4. PICK m \in Nat : m = t.next + 1
    BY <1>3
  <2> DEFINE y == [t EXCEPT !.agent = NoOne, !.inFlight = FALSE, !.next = m]
  <2>5. y \in Agents!RunRecords /\ y.next = m /\ y.cases = t.cases /\ y.agent = NoOne /\ ~y.inFlight
    BY DEF Agents!RunRecords
  <2>6. job' = [job EXCEPT ![o] = y]
    BY <1>3, <1>8, <2>4 DEF AgentsInv, AgentsTypes, Agents!RunRecords
  <2> HIDE DEF x, y
  <2>7. x # NoOne
    BY <2>2, AgentsAssumption
  <2>8. job'[o] = y /\ (\A p \in Runners : p # o => job'[p] = job[p])
        /\ job' \in [Runners -> Agents!RunRecords \cup {NoOne}]
    BY <2>5, <2>6 DEF AgentsInv, AgentsTypes
  <2>9. sent[<<c, "ANALYST">>] = 1 /\ sent[<<c, "PLANNER">>] = 1
    BY <1>1, <1>3, <1>4, <1>8
  <2>10. PICK v \in [Agents!Cases -> Agents!Reservations \cup {NoOne}] :
             v = reservation' /\ v[c] = x /\ \A e \in Agents!Cases : e # c => v[e] = reservation[e]
    BY <2>2, <2>3 DEF AgentsInv, AgentsTypes
  <2>11. \A i \in 1..Len(t.cases) : i < t.next => AgentsPassed(v, t.cases[i])
    <3> SUFFICES ASSUME NEW i \in 1..Len(t.cases), i < t.next PROVE AgentsPassed(v, t.cases[i])
      OBVIOUS
    <3>1. AgentsPassed(reservation, t.cases[i])
      BY <1>3 DEF AgentsRun
    <3>2. t.cases[i] \in Agents!Cases
      BY AgentsDomains DEF Agents!RunRecords
    <3>3. t.cases[i] = c \/ v[t.cases[i]] = reservation[t.cases[i]]
      BY <2>10, <3>2
    <3> QED BY <2>2, <2>7, <2>10, <3>1, <3>3 DEF AgentsPassed
  <2>12. AgentsRun(y, v, sent)
    <3>1. ASSUME NEW i \in 1..Len(t.cases), i < m PROVE AgentsPassed(v, t.cases[i])
      <4>1. i < t.next \/ i = t.next
        BY <1>3, <2>4, <3>1
      <4> QED BY <1>4, <2>2, <2>7, <2>10, <2>11, <4>1 DEF AgentsPassed
    <3>2. m \in 1..(Len(t.cases) + 1)
      BY <1>3, <2>4
    <3> QED BY <2>5, <3>1, <3>2 DEF AgentsRun
  <2>13. job'[o].agent = NoOne /\ AgentsRun(job'[o], reservation', sent')
    BY <1>1, <2>5, <2>8, <2>10, <2>12
  <2>14. results' \in [Runners -> Agents!Reports \cup {NoOne}] /\ (\A p \in Runners : results'[p] = results[p])
    BY <1>8 DEF AgentsInv, AgentsTypes
  <2>15. reservation' = [reservation EXCEPT ![Agents!Case(o)] = x]
         /\ sent[<<Agents!Case(o), "ANALYST">>] = 1 /\ sent[<<Agents!Case(o), "PLANNER">>] = 1
    BY <1>4, <2>3, <2>9
  <2> QED BY <1>1, <1>2, <2>1, <2>2, <2>8, <2>13, <2>14, <2>15, AgentsCloses
<1>9. Agents!SettleUnknown(o)
      \/ (/\ n <= AgentReservation /\ t.agent = "ANALYST" /\ UNCHANGED <<reservation, results>>
          /\ job' = [job EXCEPT ![o].agent = "PLANNER", ![o].inFlight = FALSE, ![o].cost = n])
      \/ (/\ n <= AgentReservation /\ t.agent # "ANALYST" /\ Agents!CloseCase(c, "SETTLED", n, TRUE, "PASS")
          /\ job' = [job EXCEPT ![o].agent = NoOne, ![o].inFlight = FALSE, ![o].next = @ + 1]
          /\ results' = results)
  BY <1>3, <1>4, <1>5 DEF Agents!Answer
<1> QED BY <1>6, <1>7, <1>8, <1>9

LEMMA AgentsStep == AgentsInv /\ [Agents!Next]_(Agents!vars) => AgentsInv'
<1> SUFFICES ASSUME AgentsInv, [Agents!Next]_(Agents!vars) PROVE AgentsInv'
  OBVIOUS
<1>1. ASSUME NEW o \in Runners, NEW l \in AgentLists, Agents!Start(o, l) PROVE AgentsInv'
  BY <1>1, AgentsStartKeeps
<1>2. ASSUME NEW o \in Runners, Agents!Reserve(o) PROVE AgentsInv'
  BY <1>2, AgentsReserveKeeps
<1>3. ASSUME NEW o \in Runners, Agents!ExceedBudget(o) PROVE AgentsInv'
  BY <1>3, AgentsExceedBudgetKeeps
<1>4. ASSUME NEW o \in Runners, Agents!Replay(o) PROVE AgentsInv'
  BY <1>4, AgentsReplayKeeps
<1>5. ASSUME NEW o \in Runners, Agents!Send(o) PROVE AgentsInv'
  BY <1>5, AgentsSendKeeps
<1>6. ASSUME NEW o \in Runners, Agents!RefuseSend(o) PROVE AgentsInv'
  BY <1>6, AgentsRefuseSendKeeps
<1>7. ASSUME NEW o \in Runners, Agents!LoseCall(o) PROVE AgentsInv'
  BY <1>7, AgentsLoseCallKeeps
<1>8. ASSUME NEW o \in Runners, NEW g \in AgentCosts, Agents!Answer(o, g) PROVE AgentsInv'
  BY <1>8, AgentsAnswerKeeps
<1>9. ASSUME NEW o \in Runners, Agents!Report(o) PROVE AgentsInv'
  BY <1>9, AgentsReportKeeps
<1>10. ASSUME NEW o \in Runners, Agents!Crash(o) PROVE AgentsInv'
  BY <1>10, AgentsCrashKeeps
<1>11. CASE UNCHANGED Agents!vars
  BY <1>11 DEF AgentsInv, AgentsTypes, AgentsRun, AgentsRow, AgentsTold, AgentsApart, AgentsWithin, Agents!vars
<1> QED BY <1>1, <1>2, <1>3, <1>4, <1>5, <1>6, <1>7, <1>8, <1>9, <1>10, <1>11 DEF Agents!Next

LEMMA AgentsHolds == AgentsInv => Agents!TypeOK /\ Agents!CommittedWithinBudget /\ Agents!OutcomesAreTrue
<1> SUFFICES ASSUME AgentsInv PROVE Agents!TypeOK /\ Agents!CommittedWithinBudget /\ Agents!OutcomesAreTrue
  OBVIOUS
<1>1. Agents!TypeOK
  BY DEF AgentsInv, AgentsTypes, AgentsRun, Agents!TypeOK
<1>2. Agents!CommittedWithinBudget
  BY AgentsExposureIs DEF AgentsInv, AgentsWithin, Agents!CommittedWithinBudget, Agents!Held, AgentsHeld,
     Agents!Cardinality, Cardinality
<1>3. ASSUME NEW c \in Agents!Cases, NEW g \in Agents!Agents PROVE sent[<<c, g>>] <= (IF reservation[c] = NoOne THEN 0 ELSE 1)
  <2>1. AgentsRow(reservation, sent, c) /\ sent[<<c, g>>] \in Nat
    BY DEF AgentsInv, AgentsTypes
  <2> QED BY <2>1 DEF AgentsRow, Agents!Agents
<1>4. ASSUME NEW c \in Agents!Cases, reservation[c] # NoOne
      PROVE /\ reservation[c].state = "RELEASED" => sent[<<c, "ANALYST">>] = 0
            /\ reservation[c].outcome = "FAIL" => sent[<<c, "PLANNER">>] = 0
            /\ reservation[c].outcome = "PASS" => \A g \in Agents!Agents : sent[<<c, g>>] = 1
  BY <1>4 DEF AgentsInv, AgentsRow, Agents!Agents
<1>5. ASSUME NEW l \in AgentLists PROVE Agents!ToSet(l) = {l[i] : i \in 1..Len(l)}
  BY AgentsDomains DEF Agents!ToSet
<1>6. ASSUME NEW o \in Runners, results[o] # NoOne
      PROVE  LET outcomes == {reservation[c].outcome : c \in {x \in Agents!ToSet(results[o].cases) : reservation[x] # NoOne}}
             IN  CASE results[o].status = "PASS" ->
                      \A c \in Agents!ToSet(results[o].cases) : reservation[c] # NoOne /\ reservation[c].outcome = "PASS"
                [] results[o].status \in {"FAIL", "INCONCLUSIVE"} -> results[o].status \in outcomes
                [] OTHER -> TRUE
  <2>1. PICK r \in Agents!Reports : r = results[o] /\ AgentsTold(r, reservation)
    BY <1>6 DEF AgentsInv, AgentsTypes
  <2>2. Agents!ToSet(r.cases) = {r.cases[i] : i \in 1..Len(r.cases)}
    BY <1>5 DEF Agents!Reports
  <2>3. r.status = "PASS" =>
            \A c \in Agents!ToSet(r.cases) : reservation[c] # NoOne /\ reservation[c].outcome = "PASS"
    BY <2>1, <2>2 DEF AgentsTold, AgentsPassed
  <2>4. r.status \in {"FAIL", "INCONCLUSIVE"} =>
            r.status \in {reservation[c].outcome : c \in {x \in Agents!ToSet(r.cases) : reservation[x] # NoOne}}
    BY <2>1, <2>2 DEF AgentsTold
  <2> QED BY <2>1, <2>3, <2>4
<1>7. Agents!OutcomesAreTrue
  BY <1>3, <1>4, <1>6 DEF Agents!OutcomesAreTrue
<1> QED BY <1>1, <1>2, <1>7

-----------------------------------------------------------------------------
(* What every reachable state satisfies, part by part.                     *)
LedgersInv ==
    /\ part = "SmokeLedger" => SmokeInv
    /\ part = "ControlledE2E" => CampaignInv
    /\ part = "Qualification" => QualifiedInv
    /\ part = "Holdout" => SealedInv
    /\ part = "Phase13" => PayingInv("Phase13")
    /\ part = "Copilot" => PayingInv("Copilot")
    /\ part = "Escalation" => ConflictInv
    /\ part = "Evaluation" => EvaluationInv
    /\ part = "MemoryPromotion" => PromotionInv
    /\ part = "CopilotSmoke" => CopilotInv
    /\ part = "ReleaseGate" => ReleaseInv
    /\ part = "Ingress" => ArrivingInv
    /\ part = "Probes" => ProbedInv
    /\ part = "AgentSmoke" => AgentsInv
    /\ part = "Harness" => HarnessedInv
    /\ part = "AgentEvaluation" => QueuedInv

LEMMA LedgersInit == Init => LedgersInv
<1> SUFFICES ASSUME Init PROVE LedgersInv
  OBVIOUS
<1>1. CASE part = "SmokeLedger"
  <2>1. Smoke!Init
    BY <1>1 DEF Init
  <2> QED BY <1>1, <2>1, SmokeInit DEF LedgersInv
<1>2. CASE part = "ControlledE2E"
  <2>1. Campaign!Init
    BY <1>2 DEF Init
  <2> QED BY <1>2, <2>1, CampaignInit DEF LedgersInv
<1>3. CASE part = "Qualification"
  <2>1. Qualified!Init
    BY <1>3 DEF Init
  <2> QED BY <1>3, <2>1, QualifiedInit DEF LedgersInv
<1>4. CASE part = "Holdout"
  <2>1. Sealed!Init
    BY <1>4 DEF Init
  <2> QED BY <1>4, <2>1, SealedInit DEF LedgersInv
<1>5. CASE part = "Phase13"
  <2>1. Paying("Phase13")!Init
    BY <1>5 DEF Init
  <2> QED BY <1>5, <2>1, PayingInit, PayingAssumption DEF LedgersInv
<1>6. CASE part = "Copilot"
  <2>1. Paying("Copilot")!Init
    BY <1>6 DEF Init
  <2> QED BY <1>6, <2>1, PayingInit, PayingAssumption DEF LedgersInv
<1>7. CASE part = "Escalation"
  <2>1. Conflict!Init
    BY <1>7 DEF Init
  <2> QED BY <1>7, <2>1, ConflictInit DEF LedgersInv
<1>8. CASE part = "Evaluation"
  <2>1. Evaluation!Init
    BY <1>8 DEF Init
  <2> QED BY <1>8, <2>1, EvaluationInit DEF LedgersInv
<1>9. CASE part = "MemoryPromotion"
  <2>1. Promotions!Init
    BY <1>9 DEF Init
  <2> QED BY <1>9, <2>1, PromotionInit DEF LedgersInv
<1>10. CASE part = "CopilotSmoke"
  <2>1. Copiloted!Init
    BY <1>10 DEF Init
  <2> QED BY <1>10, <2>1, CopilotInit DEF LedgersInv
<1>11. CASE part = "ReleaseGate"
  <2>1. Release!Init
    BY <1>11 DEF Init
  <2> QED BY <1>11, <2>1, ReleaseInit DEF LedgersInv
<1>12. CASE part = "Ingress"
  <2>1. Arriving!Init
    BY <1>12 DEF Init
  <2> QED BY <1>12, <2>1, ArrivingInit DEF LedgersInv
<1>13. CASE part = "Probes"
  <2>1. Probed!Init
    BY <1>13 DEF Init
  <2> QED BY <1>13, <2>1, ProbedInit DEF LedgersInv
<1>14. CASE part = "AgentSmoke"
  <2>1. Agents!Init
    BY <1>14 DEF Init
  <2> QED BY <1>14, <2>1, AgentsInit DEF LedgersInv
<1>15. CASE part = "Harness"
  <2>1. Harnessed!Init
    BY <1>15 DEF Init
  <2> QED BY <1>15, <2>1, HarnessedInit DEF LedgersInv
<1>16. CASE part = "AgentEvaluation"
  <2>1. Queued!Init
    BY <1>16 DEF Init
  <2> QED BY <1>16, <2>1, QueuedInit DEF LedgersInv
<1> QED BY <1>1, <1>2, <1>3, <1>4, <1>5, <1>6, <1>7, <1>8, <1>9, <1>10, <1>11, <1>12, <1>13, <1>14, <1>15, <1>16 DEF LedgersInv

(* A step stays in its part, and is one of it or changes nothing.          *)
LEMMA LedgersSteps ==
    ASSUME [Next]_vars
    PROVE  /\ part' = part
           /\ part = "SmokeLedger" => [Smoke!Next]_(Smoke!vars)
           /\ part = "ControlledE2E" => [Campaign!Next]_(Campaign!vars)
           /\ part = "Qualification" => [Qualified!Next]_(Qualified!vars)
           /\ part = "Holdout" => [Sealed!Next]_(Sealed!vars)
           /\ part = "Phase13" => [Paying("Phase13")!Next]_(Paying("Phase13")!vars)
           /\ part = "Copilot" => [Paying("Copilot")!Next]_(Paying("Copilot")!vars)
           /\ part = "Escalation" => [Conflict!Next]_(Conflict!vars)
           /\ part = "Evaluation" => [Evaluation!Next]_(Evaluation!vars)
           /\ part = "MemoryPromotion" => [Promotions!Next]_(Promotions!vars)
           /\ part = "CopilotSmoke" => [Copiloted!Next]_(Copiloted!vars)
           /\ part = "ReleaseGate" => [Release!Next]_(Release!vars)
           /\ part = "Ingress" => [Arriving!Next]_(Arriving!vars)
           /\ part = "Probes" => [Probed!Next]_(Probed!vars)
           /\ part = "AgentSmoke" => [Agents!Next]_(Agents!vars)
           /\ part = "Harness" => [Harnessed!Next]_(Harnessed!vars)
           /\ part = "AgentEvaluation" => [Queued!Next]_(Queued!vars)
<1>1. CASE UNCHANGED vars
  BY <1>1 DEF vars, Smoke!vars, Campaign!vars, Qualified!vars, Sealed!vars, Paying!vars, Conflict!vars, Evaluation!vars, Promotions!vars, Copiloted!vars, Release!vars, Arriving!vars, Probed!vars, Agents!vars, Harnessed!vars, Queued!vars
<1>2. CASE Next
  <2>1. part' = part
    BY <1>2 DEF Next, KeepAgents, KeepArriving, KeepCampaign, KeepCopiloted, KeepEscalation, KeepEvaluation, KeepHarnessed, KeepProbed, KeepPromotions, KeepQualified, KeepQueued, KeepRelease, KeepSealed, KeepSmoke, KeepSpecialists, KeepTransactions
  <2>2. part = "SmokeLedger" => Smoke!Next
    BY <1>2 DEF Next
  <2>3. part = "ControlledE2E" => Campaign!Next
    BY <1>2 DEF Next
  <2>4. part = "Qualification" => Qualified!Next
    BY <1>2 DEF Next
  <2>5. part = "Holdout" => Sealed!Next
    BY <1>2 DEF Next
  <2>6. part = "Phase13" => Paying("Phase13")!Next
    BY <1>2 DEF Next
  <2>7. part = "Copilot" => Paying("Copilot")!Next
    BY <1>2 DEF Next
  <2>8. part = "Escalation" => Conflict!Next
    BY <1>2 DEF Next
  <2>9. part = "Evaluation" => Evaluation!Next
    BY <1>2 DEF Next
  <2>10. part = "MemoryPromotion" => Promotions!Next
    BY <1>2 DEF Next
  <2>11. part = "CopilotSmoke" => Copiloted!Next
    BY <1>2 DEF Next
  <2>12. part = "ReleaseGate" => Release!Next
    BY <1>2 DEF Next
  <2>13. part = "Ingress" => Arriving!Next
    BY <1>2 DEF Next
  <2>14. part = "Probes" => Probed!Next
    BY <1>2 DEF Next
  <2>15. part = "AgentSmoke" => Agents!Next
    BY <1>2 DEF Next
  <2>16. part = "Harness" => Harnessed!Next
    BY <1>2 DEF Next
  <2>17. part = "AgentEvaluation" => Queued!Next
    BY <1>2 DEF Next
  <2> QED BY <2>1, <2>2, <2>3, <2>4, <2>5, <2>6, <2>7, <2>8, <2>9, <2>10, <2>11, <2>12, <2>13, <2>14, <2>15, <2>16, <2>17
<1> QED BY <1>1, <1>2

LEMMA LedgersStep == LedgersInv /\ [Next]_vars => LedgersInv'
<1> SUFFICES ASSUME LedgersInv, [Next]_vars PROVE LedgersInv'
  OBVIOUS
<1>0. part' = part
  BY LedgersSteps
<1>1. ASSUME part = "SmokeLedger" PROVE SmokeInv'
  <2>1. SmokeInv /\ [Smoke!Next]_(Smoke!vars)
    BY <1>1, LedgersSteps DEF LedgersInv
  <2> QED BY <2>1, SmokeStep
<1>2. ASSUME part = "ControlledE2E" PROVE CampaignInv'
  <2>1. CampaignInv /\ [Campaign!Next]_(Campaign!vars)
    BY <1>2, LedgersSteps DEF LedgersInv
  <2> QED BY <2>1, CampaignStep
<1>3. ASSUME part = "Qualification" PROVE QualifiedInv'
  <2>1. QualifiedInv /\ [Qualified!Next]_(Qualified!vars)
    BY <1>3, LedgersSteps DEF LedgersInv
  <2> QED BY <2>1, QualifiedStep
<1>4. ASSUME part = "Holdout" PROVE SealedInv'
  <2>1. SealedInv /\ [Sealed!Next]_(Sealed!vars)
    BY <1>4, LedgersSteps DEF LedgersInv
  <2> QED BY <2>1, SealedStep, SealedStutters
<1>5. ASSUME part = "Phase13" PROVE PayingInv("Phase13")'
  <2>1. PayingInv("Phase13") /\ [Paying("Phase13")!Next]_(Paying("Phase13")!vars)
    BY <1>5, LedgersSteps DEF LedgersInv
  <2> QED BY <2>1, PayingStep, PayingAssumption
<1>6. ASSUME part = "Copilot" PROVE PayingInv("Copilot")'
  <2>1. PayingInv("Copilot") /\ [Paying("Copilot")!Next]_(Paying("Copilot")!vars)
    BY <1>6, LedgersSteps DEF LedgersInv
  <2> QED BY <2>1, PayingStep, PayingAssumption
<1>7. ASSUME part = "Escalation" PROVE ConflictInv'
  <2>1. ConflictInv /\ [Conflict!Next]_(Conflict!vars)
    BY <1>7, LedgersSteps DEF LedgersInv
  <2> QED BY <2>1, ConflictStep, ConflictStutters
<1>8. ASSUME part = "Evaluation" PROVE EvaluationInv'
  <2>1. EvaluationInv /\ [Evaluation!Next]_(Evaluation!vars)
    BY <1>8, LedgersSteps DEF LedgersInv
  <2> QED BY <2>1, EvaluationStep, EvaluationStutters
<1>9. ASSUME part = "MemoryPromotion" PROVE PromotionInv'
  <2>1. PromotionInv /\ [Promotions!Next]_(Promotions!vars)
    BY <1>9, LedgersSteps DEF LedgersInv
  <2> QED BY <2>1, PromotionStep, PromotionStutters
<1>10. ASSUME part = "CopilotSmoke" PROVE CopilotInv'
  <2>1. CopilotInv /\ [Copiloted!Next]_(Copiloted!vars)
    BY <1>10, LedgersSteps DEF LedgersInv
  <2> QED BY <2>1, CopilotStep
<1>11. ASSUME part = "ReleaseGate" PROVE ReleaseInv'
  <2>1. ReleaseInv /\ [Release!Next]_(Release!vars)
    BY <1>11, LedgersSteps DEF LedgersInv
  <2> QED BY <2>1, ReleaseStep, ReleaseStutters
<1>12. ASSUME part = "Ingress" PROVE ArrivingInv'
  <2>1. ArrivingInv /\ [Arriving!Next]_(Arriving!vars)
    BY <1>12, LedgersSteps DEF LedgersInv
  <2> QED BY <2>1, ArrivingStep
<1>13. ASSUME part = "Probes" PROVE ProbedInv'
  <2>1. ProbedInv /\ [Probed!Next]_(Probed!vars)
    BY <1>13, LedgersSteps DEF LedgersInv
  <2> QED BY <2>1, ProbedStep
<1>14. ASSUME part = "AgentSmoke" PROVE AgentsInv'
  <2>1. AgentsInv /\ [Agents!Next]_(Agents!vars)
    BY <1>14, LedgersSteps DEF LedgersInv
  <2> QED BY <2>1, AgentsStep
<1>15. ASSUME part = "Harness" PROVE HarnessedInv'
  <2>1. HarnessedInv /\ [Harnessed!Next]_(Harnessed!vars)
    BY <1>15, LedgersSteps DEF LedgersInv
  <2> QED BY <2>1, HarnessedStep
<1>16. ASSUME part = "AgentEvaluation" PROVE QueuedInv'
  <2>1. QueuedInv /\ [Queued!Next]_(Queued!vars)
    BY <1>16, LedgersSteps DEF LedgersInv
  <2> QED BY <2>1, QueuedStep, QueuedStutters
<1> QED BY <1>0, <1>1, <1>2, <1>3, <1>4, <1>5, <1>6, <1>7, <1>8, <1>9, <1>10, <1>11, <1>12, <1>13, <1>14, <1>15, <1>16 DEF LedgersInv

(* The parts keep what their lemmas say of them.                           *)
THEOREM LedgersHold == Spec => []LedgersInv
<1>1. LedgersInv /\ [Next]_vars => LedgersInv'
  BY LedgersStep
<1> QED BY LedgersInit, <1>1, PTL DEF Spec

(* OneAtATime: smoke runners beside each other spend on one case at a time *)
(* (the next case is begun after the one before passed), a live campaign   *)
(* run has at most one attempt without a fact, promote never makes two     *)
(* opposed candidates memories, and one worker holds a recorded run.       *)
THEOREM OneAtATimeHolds == Spec => []OneAtATime
<1>1. LedgersInv => OneAtATime
  BY SmokeHolds, CampaignHolds, PromotionHolds, QueuedHolds DEF LedgersInv, OneAtATime
<1> QED BY <1>1, LedgersHold, PTL

(* CallsStayLive: while the Analyst or the Planner is waited for within    *)
(* its claim the session stays live and its evidence fresh, since no       *)
(* operation leaves LIVE before the claims of the workspace have ended.    *)
THEOREM CallsStayLiveHolds == Spec => []CallsStayLive
<1>1. LedgersInv => CallsStayLive
  BY ConflictHolds DEF LedgersInv, CallsStayLive
<1> QED BY <1>1, LedgersHold, PTL

(* CommandsAreBacked: the store compiles a command only from an approval   *)
(* of a proposal whose escalation ended READY; promote writes a memory     *)
(* only for a candidate an operator confirmed.                             *)
THEOREM CommandsAreBackedHolds == Spec => []CommandsAreBacked
<1>1. LedgersInv => CommandsAreBacked
  BY ConflictHolds, PromotionHolds DEF LedgersInv, CommandsAreBacked
<1> QED BY <1>1, LedgersHold, PTL

(* QualificationIsBacked: conclude_sealed_holdout finds complete, passed   *)
(* and reviewed runs of both batches behind QUALIFIED, the decision        *)
(* RETAINED has the results of both splits behind it, and ENABLED the      *)
(* technical pass and the answers of the study.                            *)
THEOREM QualificationIsBackedHolds == Spec => []QualificationIsBacked
<1>1. LedgersInv => QualificationIsBacked
  BY SealedHolds, EvaluationHolds, ReleaseHolds DEF LedgersInv, QualificationIsBacked
<1> QED BY <1>1, LedgersHold, PTL

(* OutcomesAreTrue: a case that passed, a run that completed and a         *)
(* campaign that was qualified have the calls, receipts and facts behind   *)
(* them that the ledgers say; a memory command tells what is remembered, a *)
(* session what the harness did and a person decided, and no offset is     *)
(* committed to Kafka (ingress.py, run_batch) whose message the event      *)
(* store does not have.                                                    *)
THEOREM OutcomesAreTrueHolds == Spec => []OutcomesAreTrue
<1>1. LedgersInv => OutcomesAreTrue
  BY SmokeHolds, CampaignHolds, QualifiedHolds, PayingHolds, PayingAssumption, ConflictHolds, EvaluationHolds, PromotionHolds, CopilotHolds, ArrivingHolds, ProbedHolds, AgentsHolds, HarnessedHolds, QueuedHolds DEF LedgersInv, OutcomesAreTrue
<1> QED BY <1>1, LedgersHold, PTL

(* A step of the part that is not of its runners leaves the calls alone.   *)
LEMMA ConflictCallsRest == UNCHANGED Conflict!vars => ConflictCalls
<1>1. SUFFICES ASSUME UNCHANGED Conflict!vars PROVE ConflictCalls
  OBVIOUS
<1>2. UNCHANGED <<store, sent, job, clock>>
  BY <1>1 DEF Conflict!vars
<1>3. ConflictReserved' = ConflictReserved
  BY <1>2 DEF ConflictReserved
<1>4. ConflictAnswer' = ConflictAnswer
  BY <1>2 DEF ConflictAnswer, ConflictSays, Conflict!Answered, Conflict!Awaited, Conflict!Closed
<1> QED BY <1>2, <1>3, <1>4, ConflictMapping DEF ConflictCalls

(* What the steps of the parts say of their calls.                         *)
LedgersCalls ==
    /\ part = "SmokeLedger" => SmokeCalls
    /\ part = "ControlledE2E" => CampaignCalls
    /\ part = "Qualification" => QualifiedCalls
    /\ part = "Phase13" => PayingCalls("Phase13")
    /\ part = "Copilot" => PayingCalls("Copilot")
    /\ part = "Escalation" => ConflictCalls
    /\ part = "Probes" => ProbedCalls

LEMMA LedgersCallOnce == LedgersInv /\ [Next]_vars => LedgersCalls
<1> SUFFICES ASSUME LedgersInv, [Next]_vars PROVE LedgersCalls
  OBVIOUS
<1>0. LedgersInv'
  BY LedgersStep
<1>1. ASSUME part = "SmokeLedger" PROVE SmokeCalls
  <2>1. SmokeInv /\ [Smoke!Next]_(Smoke!vars)
    BY <1>1, LedgersSteps DEF LedgersInv
  <2> QED BY <2>1, SmokeRefines
<1>2. ASSUME part = "ControlledE2E" PROVE CampaignCalls
  <2>1. CampaignInv /\ [Campaign!Next]_(Campaign!vars)
    BY <1>2, LedgersSteps DEF LedgersInv
  <2> QED BY <2>1, CampaignRefines
<1>3. ASSUME part = "Qualification" PROVE QualifiedCalls
  <2>1. QualifiedInv /\ [Qualified!Next]_(Qualified!vars)
    BY <1>3, LedgersSteps DEF LedgersInv
  <2> QED BY <2>1, QualifiedRefines
<1>4. ASSUME part = "Phase13" PROVE PayingCalls("Phase13")
  <2>1. PayingInv("Phase13") /\ [Paying("Phase13")!Next]_(Paying("Phase13")!vars)
    BY <1>4, LedgersSteps DEF LedgersInv
  <2> QED BY <2>1, PayingRefines, PayingAssumption
<1>5. ASSUME part = "Copilot" PROVE PayingCalls("Copilot")
  <2>1. PayingInv("Copilot") /\ [Paying("Copilot")!Next]_(Paying("Copilot")!vars)
    BY <1>5, LedgersSteps DEF LedgersInv
  <2> QED BY <2>1, PayingRefines, PayingAssumption
<1>6. ASSUME part = "Escalation" PROVE ConflictCalls
  <2>1. ConflictInv /\ [Conflict!Next]_(Conflict!vars)
    BY <1>6, LedgersSteps DEF LedgersInv
  <2>2. ConflictInv'
    BY <1>0, <1>6, LedgersSteps DEF LedgersInv
  <2> QED BY <2>1, <2>2, ConflictRefines, ConflictCallsRest
<1>7. ASSUME part = "Probes" PROVE ProbedCalls
  <2>1. ProbedInv /\ [Probed!Next]_(Probed!vars)
    BY <1>7, LedgersSteps DEF LedgersInv
  <2> QED BY <2>1, ProbedRefines
<1> QED BY <1>1, <1>2, <1>3, <1>4, <1>5, <1>6, <1>7 DEF LedgersCalls

(* CallsAreMadeOnce: every step of a ledger is a step of CallOnce or       *)
(* leaves its calls alone.  A paid call is reserved before it is sent, is  *)
(* sent at most once, and what the ledger says of it is true: so of the    *)
(* smoke run, the campaign, the qualification, the specialists of both     *)
(* phases, the Analyst and the Planner of an escalation, and the probes.   *)
THEOREM CallsAreMadeOnceHolds == Spec => CallsAreMadeOnce
<1>1. LedgersInv /\ [Next]_vars => LedgersCalls
  BY LedgersCallOnce
<1>2. Spec => [][LedgersCalls]_vars
  BY <1>1, LedgersHold, PTL DEF Spec
<1> QED BY <1>2, PTL DEF CallsAreMadeOnce, LedgersCalls, SmokeCalls, CampaignCalls, QualifiedCalls, PayingCalls, ConflictCalls, ProbedCalls
=============================================================================
