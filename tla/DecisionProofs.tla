--------------------------- MODULE DecisionProofs ---------------------------
(***************************************************************************)
(* Lemmas about finite sums and about the parts that decide, for every set *)
(* of processes, operators and runs and every bound: for each part an      *)
(* inductive invariant (Init, Step), and what it says of the decisions     *)
(* (Holds).                                                                *)
(***************************************************************************)
EXTENDS MCDecisions, Integers, FiniteSetTheorems, WellFoundedInduction, TLAPS

-----------------------------------------------------------------------------
(* Finite sums.  The costs of a set of requests are summed by taking them  *)
(* one after the other in the order of CHOOSE; what is said of such a sum  *)
(* holds of every smaller set, so that a smallest set without it would be  *)
(* none.                                                                   *)

(* Among subsets of a finite set some are minimal. *)
LEMMA LeastSubset ==
    ASSUME NEW S, IsFiniteSet(S), NEW B, B \subseteq SUBSET S, B # {}
    PROVE  \E T \in B : \A U \in B : U \subseteq T => U = T
<1>1. IsWellFoundedOn(StrictSubsetOrdering(S), SUBSET S)
  BY FS_StrictSubsetOrderingWellFounded, FS_FiniteSubsetsOfFinite
<1>2. PICK T \in B : \A U \in B : ~(<<U, T>> \in StrictSubsetOrdering(S))
  BY <1>1, WFMin, Zenon
<1>3. \A U \in B : ~(U \subseteq T /\ U # T)
  BY <1>2 DEF StrictSubsetOrdering
<1> QED BY <1>2, <1>3

(* The element of a set that is taken first.                              *)
Chosen(s) == CHOOSE x \in s : TRUE

LEMMA ChosenIn == ASSUME NEW s, s # {} PROVE Chosen(s) \in s
BY DEF Chosen

(* t gives each subset of S the sum of the weights w of its elements.      *)
Tally(t, w, S) == t = [s \in SUBSET S |-> IF s = {} THEN 0 ELSE w[Chosen(s)] + t[s \ {Chosen(s)}]]

LEMMA TallyUnique ==
    ASSUME NEW S, NEW U, NEW w, NEW v, NEW t, NEW u, Tally(t, w, S), Tally(u, v, U),
           NEW T, IsFiniteSet(T), T \subseteq S, T \subseteq U, \A x \in T : w[x] = v[x]
    PROVE  t[T] = u[T]
<1> DEFINE B == {s \in SUBSET T : t[s] # u[s]}
<1>1. SUFFICES ASSUME B # {} PROVE FALSE
  OBVIOUS
<1>2. PICK s \in B : \A r \in B : r \subseteq s => r = s
  <2>1. B \subseteq SUBSET T
    OBVIOUS
  <2> HIDE DEF B
  <2> QED BY <1>1, <2>1, LeastSubset
<1>3. s \in SUBSET S /\ s \in SUBSET U /\ s \in SUBSET T
  OBVIOUS
<1>4. CASE s = {}
  <2>1. t[s] # u[s]
    OBVIOUS
  <2> HIDE DEF B
  <2>2. t[s] = 0
    BY <1>3, <1>4 DEF Tally
  <2>3. u[s] = 0
    BY <1>3, <1>4 DEF Tally
  <2> QED BY <2>1, <2>2, <2>3
<1>5. CASE s # {}
  <2>1. Chosen(s) \in s /\ s \ {Chosen(s)} \in SUBSET T /\ s \ {Chosen(s)} # s
    BY <1>3, <1>5, ChosenIn
  <2>2. t[s \ {Chosen(s)}] = u[s \ {Chosen(s)}]
    BY <1>2, <2>1
  <2>3. w[Chosen(s)] = v[Chosen(s)]
    BY <1>3, <2>1
  <2>6. t[s] # u[s]
    OBVIOUS
  <2> HIDE DEF B
  <2>4. t[s] = w[Chosen(s)] + t[s \ {Chosen(s)}]
    BY <1>3, <1>5 DEF Tally
  <2>5. u[s] = v[Chosen(s)] + u[s \ {Chosen(s)}]
    BY <1>3, <1>5 DEF Tally
  <2> QED BY <2>2, <2>3, <2>4, <2>5, <2>6
<1> QED BY <1>4, <1>5

LEMMA TallyExists ==
    ASSUME NEW S, IsFiniteSet(S), NEW w
    PROVE  \E t : Tally(t, w, S)
<1> DEFINE B == {T \in SUBSET S : ~\E t : Tally(t, w, T)}
<1>1. SUFFICES ASSUME B # {} PROVE FALSE
  OBVIOUS
<1>2. PICK T \in B : \A r \in B : r \subseteq T => r = T
  <2>1. B \subseteq SUBSET S
    OBVIOUS
  <2> HIDE DEF B
  <2> QED BY <1>1, <2>1, LeastSubset
<1> DEFINE V(u) == (CHOOSE t : Tally(t, w, u))[u]
           f == [s \in SUBSET T |-> IF s = {} THEN 0 ELSE w[Chosen(s)] + V(s \ {Chosen(s)})]
<1>3. ASSUME NEW u, u \subseteq T, u # T
      PROVE  V(u) = f[u]
  <2>1. PICK t : Tally(t, w, u) /\ t = CHOOSE g : Tally(g, w, u)
    BY <1>2, <1>3
  <2>2. u \in SUBSET u /\ V(u) = t[u]
    BY <2>1
  <2>3. CASE u = {}
    <3>1. t[u] = 0
      <4> HIDE DEF B, V, f
      <4> QED BY <2>1, <2>2, <2>3 DEF Tally
    <3>2. f[u] = 0
      BY <1>3, <2>3
    <3> QED BY <2>2, <3>1, <3>2
  <2>4. CASE u # {}
    <3>1. t[u] = w[Chosen(u)] + t[u \ {Chosen(u)}]
      <4> HIDE DEF B, V, f
      <4> QED BY <2>1, <2>2, <2>4 DEF Tally
    <3> DEFINE r == u \ {Chosen(u)}
    <3>2. Chosen(u) \in u /\ r \subseteq T /\ r # T /\ r \subseteq u
      BY <1>3, <2>4, ChosenIn
    <3>3. PICK q : Tally(q, w, r) /\ q = CHOOSE g : Tally(g, w, r)
      BY <1>2, <3>2
    <3>4. IsFiniteSet(r)
      BY <3>2, <1>2, FS_Subset
    <3>5. q[r] = t[r]
      <4> HIDE DEF r
      <4> QED BY <2>1, <3>2, <3>3, <3>4, TallyUnique
    <3>6. V(r) = q[r]
      BY <3>3
    <3>7. f[u] = w[Chosen(u)] + V(r)
      BY <1>3, <2>4
    <3> HIDE DEF V, f
    <3> QED BY <2>2, <3>1, <3>5, <3>6, <3>7
  <2> QED BY <2>3, <2>4
<1>4. Tally(f, w, T)
  <2>1. ASSUME NEW s \in SUBSET T, s # {} PROVE V(s \ {Chosen(s)}) = f[s \ {Chosen(s)}]
    <3>1. Chosen(s) \in s
      BY <2>1, ChosenIn
    <3> HIDE DEF V, f
    <3> QED BY <1>3, <2>1, <3>1
  <2>2. f = [s \in SUBSET T |-> IF s = {} THEN 0 ELSE w[Chosen(s)] + V(s \ {Chosen(s)})]
    OBVIOUS
  <2> HIDE DEF V, f
  <2>3. [s \in SUBSET T |-> IF s = {} THEN 0 ELSE w[Chosen(s)] + V(s \ {Chosen(s)})]
        = [s \in SUBSET T |-> IF s = {} THEN 0 ELSE w[Chosen(s)] + f[s \ {Chosen(s)}]]
    BY <2>1
  <2> QED BY <2>2, <2>3 DEF Tally
<1> QED BY <1>2, <1>4

-----------------------------------------------------------------------------
(* The sum of the weights w of the elements of S.                          *)
SumOver(w, S) == (CHOOSE t : Tally(t, w, S))[S]

LEMMA SumTally ==
    ASSUME NEW S, IsFiniteSet(S), NEW w
    PROVE  \E t : Tally(t, w, S) /\ SumOver(w, S) = t[S]
<1>1. PICK t : Tally(t, w, S)
  BY TallyExists
<1> QED BY <1>1 DEF SumOver

LEMMA SumSame ==
    ASSUME NEW S, IsFiniteSet(S), NEW w, NEW v, \A x \in S : w[x] = v[x]
    PROVE  SumOver(w, S) = SumOver(v, S)
BY SumTally, TallyUnique

LEMMA SumNone == ASSUME NEW w PROVE SumOver(w, {}) = 0
<1>1. PICK t : Tally(t, w, {}) /\ SumOver(w, {}) = t[{}]
  BY SumTally, FS_EmptySet
<1> QED BY <1>1 DEF Tally

(* What is chosen first does not matter. *)
LEMMA SumAny ==
    ASSUME NEW S, IsFiniteSet(S), NEW w, S # {}
    PROVE  SumOver(w, S) = w[Chosen(S)] + SumOver(w, S \ {Chosen(S)})
<1>1. PICK t : Tally(t, w, S) /\ SumOver(w, S) = t[S]
  BY SumTally
<1>2. t[S] = w[Chosen(S)] + t[S \ {Chosen(S)}]
  BY <1>1 DEF Tally
<1>3. IsFiniteSet(S \ {Chosen(S)})
  BY FS_Subset
<1>4. PICK u : Tally(u, w, S \ {Chosen(S)}) /\ SumOver(w, S \ {Chosen(S)}) = u[S \ {Chosen(S)}]
  BY <1>3, SumTally
<1>5. u[S \ {Chosen(S)}] = t[S \ {Chosen(S)}]
  BY <1>1, <1>3, <1>4, TallyUnique
<1> QED BY <1>1, <1>2, <1>4, <1>5

LEMMA SumZero ==
    ASSUME NEW S, IsFiniteSet(S), NEW w, \A x \in S : w[x] = 0
    PROVE  SumOver(w, S) = 0
<1> DEFINE B == {s \in SUBSET S : SumOver(w, s) # 0}
<1>1. SUFFICES ASSUME B # {} PROVE FALSE
  BY DEF B
<1>2. PICK s \in B : \A r \in B : r \subseteq s => r = s
  <2>1. B \subseteq SUBSET S
    OBVIOUS
  <2> HIDE DEF B
  <2> QED BY <1>1, <2>1, LeastSubset
<1>3. s # {}
  BY SumNone
<1>4. IsFiniteSet(s) /\ Chosen(s) \in s
  BY <1>3, FS_Subset, ChosenIn
<1>5. SumOver(w, s \ {Chosen(s)}) = 0
  BY <1>2, <1>4
<1>6. w[Chosen(s)] = 0
  BY <1>4
<1>7. SumOver(w, s) = w[Chosen(s)] + SumOver(w, s \ {Chosen(s)})
  BY <1>3, <1>4, SumAny
<1> QED BY <1>5, <1>6, <1>7

LEMMA SumType ==
    ASSUME NEW S, IsFiniteSet(S), NEW w, \A x \in S : w[x] \in Int
    PROVE  SumOver(w, S) \in Int
<1> DEFINE B == {s \in SUBSET S : SumOver(w, s) \notin Int}
<1>1. SUFFICES ASSUME B # {} PROVE FALSE
  BY DEF B
<1>2. PICK s \in B : \A r \in B : r \subseteq s => r = s
  <2>1. B \subseteq SUBSET S
    OBVIOUS
  <2> HIDE DEF B
  <2> QED BY <1>1, <2>1, LeastSubset
<1>3. s # {}
  BY SumNone
<1>4. IsFiniteSet(s) /\ Chosen(s) \in s
  BY <1>3, FS_Subset, ChosenIn
<1>5. SumOver(w, s \ {Chosen(s)}) \in Int
  BY <1>2, <1>4
<1>6. w[Chosen(s)] \in Int
  BY <1>4
<1>7. SumOver(w, s) = w[Chosen(s)] + SumOver(w, s \ {Chosen(s)})
  BY <1>3, <1>4, SumAny
<1> QED BY <1>5, <1>6, <1>7

LEMMA SumRest ==
    ASSUME NEW S, IsFiniteSet(S), NEW w, \A x \in S : w[x] \in Int, NEW x \in S
    PROVE  SumOver(w, S) = w[x] + SumOver(w, S \ {x})
<1> DEFINE B == {s \in SUBSET S : \E y \in s : SumOver(w, s) # w[y] + SumOver(w, s \ {y})}
<1>1. SUFFICES ASSUME B # {} PROVE FALSE
  OBVIOUS
<1>2. PICK s \in B : \A r \in B : r \subseteq s => r = s
  <2>1. B \subseteq SUBSET S
    OBVIOUS
  <2> HIDE DEF B
  <2> QED BY <1>1, <2>1, LeastSubset
<1>3. PICK y \in s : SumOver(w, s) # w[y] + SumOver(w, s \ {y})
  OBVIOUS
<1>4. s \in SUBSET S /\ \A r \in SUBSET S : (r \subseteq s /\ r # s) =>
          \A i \in r : SumOver(w, r) = w[i] + SumOver(w, r \ {i})
  BY <1>2
<1> HIDE DEF B
<1>5. IsFiniteSet(s) /\ Chosen(s) \in s
  BY <1>3, <1>4, FS_Subset, ChosenIn
<1> DEFINE c == Chosen(s)
<1>6. SumOver(w, s) = w[c] + SumOver(w, s \ {c})
  BY <1>3, <1>5, SumAny
<1>7. c # y /\ c \in s
  BY <1>3, <1>5, <1>6
<1> HIDE DEF c
<1>8. SumOver(w, s \ {c}) = w[y] + SumOver(w, (s \ {c}) \ {y})
  BY <1>4, <1>7
<1>9. SumOver(w, s \ {y}) = w[c] + SumOver(w, (s \ {y}) \ {c})
  BY <1>4, <1>7
<1>10. (s \ {c}) \ {y} = (s \ {y}) \ {c}
  OBVIOUS
<1>11. SumOver(w, (s \ {c}) \ {y}) \in Int /\ w[c] \in Int /\ w[y] \in Int
  <2>1. IsFiniteSet((s \ {c}) \ {y}) /\ \A i \in (s \ {c}) \ {y} : w[i] \in Int
    BY <1>4, <1>5, FS_Subset
  <2> QED BY <1>4, <1>7, <2>1, SumType
<1>12. PICK r \in Int : r = SumOver(w, (s \ {c}) \ {y}) /\ r = SumOver(w, (s \ {y}) \ {c})
  BY <1>10, <1>11
<1>13. SumOver(w, s) = w[c] + (w[y] + r) /\ SumOver(w, s \ {y}) = w[c] + r
  BY <1>6, <1>8, <1>9, <1>12
<1>14. w[c] + (w[y] + r) = w[y] + (w[c] + r)
  BY <1>11
<1> QED BY <1>3, <1>13, <1>14

LEMMA SumMore ==
    ASSUME NEW S, IsFiniteSet(S), NEW w, NEW x, x \notin S, \A y \in S \cup {x} : w[y] \in Int
    PROVE  SumOver(w, S \cup {x}) = w[x] + SumOver(w, S)
<1>1. IsFiniteSet(S \cup {x}) /\ (S \cup {x}) \ {x} = S
  BY FS_AddElement
<1> QED BY <1>1, SumRest

LEMMA SumUpTo ==
    ASSUME NEW S, IsFiniteSet(S), NEW w, NEW v, \A x \in S : w[x] \in Int /\ v[x] \in Int /\ w[x] <= v[x]
    PROVE  SumOver(w, S) <= SumOver(v, S)
<1> DEFINE B == {s \in SUBSET S : ~(SumOver(w, s) <= SumOver(v, s))}
<1>1. SUFFICES ASSUME B # {} PROVE FALSE
  OBVIOUS
<1>2. PICK s \in B : \A r \in B : r \subseteq s => r = s
  <2>1. B \subseteq SUBSET S
    OBVIOUS
  <2> HIDE DEF B
  <2> QED BY <1>1, <2>1, LeastSubset
<1>3. s \in SUBSET S /\ ~(SumOver(w, s) <= SumOver(v, s)) /\ s # {}
  BY SumNone
<1>4. IsFiniteSet(s) /\ Chosen(s) \in s
  BY <1>3, FS_Subset, ChosenIn
<1> DEFINE c == Chosen(s)
<1>5. SumOver(w, s \ {c}) <= SumOver(v, s \ {c})
  BY <1>2, <1>4
<1>6. SumOver(w, s) = w[c] + SumOver(w, s \ {c}) /\ SumOver(v, s) = v[c] + SumOver(v, s \ {c})
  BY <1>3, <1>4, SumAny
<1>7. SumOver(w, s \ {c}) \in Int /\ SumOver(v, s \ {c}) \in Int /\ w[c] \in Int /\ v[c] \in Int /\ w[c] <= v[c]
  <2>1. IsFiniteSet(s \ {c})
    BY <1>4, FS_Subset
  <2> HIDE DEF B
  <2> QED BY <1>3, <1>4, <2>1, SumType
<1> HIDE DEF B, c
<1> QED BY <1>3, <1>5, <1>6, <1>7

-----------------------------------------------------------------------------
(* The escalation of a high conflict: what the session, the claims and the *)
(* leases say of each other, and of every runner.                          *)

ConflictClaims ==
    /\ \A s \in Conflict!Stages : store.claim[s] = 0 \/ store.claim[s] < ValidUntil
    /\ ~Conflict!Live => \A s \in Conflict!Stages : clock >= store.claim[s]

ConflictFacts ==
    /\ store.claim["PLANNER"] # 0 => store.analysis
    /\ store.analysis => sent["ANALYST"] = 1
    /\ store.proposal => store.analysis /\ sent["PLANNER"] = 1
    /\ \A s \in Conflict!Stages : sent[s] \in {0, 1} /\ (sent[s] = 1 => store.claim[s] # 0)

Dispatching == {"SEND", "AWAIT", "RECORD"}

ConflictJob(j) ==
    /\ j.version <= store.version
    /\ j.stage = "PLANNER" => store.analysis
    /\ j.pc \in {"READY", "DECIDE", "COMMAND", "PLAN"} => store.proposal
    /\ j.pc \in Dispatching => store.claim[j.stage] # 0
    /\ j.pc = "SEND" => sent[j.stage] = 0
    /\ j.pc \in {"AWAIT", "RECORD"} => sent[j.stage] = 1
    /\ j.pc \in {"CLAIM"} \cup Dispatching /\ j.stage = "PLANNER" /\ j.version = store.version
          => ~Conflict!Closed
    /\ j.pc = "DECIDE" /\ j.kind = "APPROVE" => store.outcome = "READY"
    /\ j.pc = "COMMAND" => store.decision = "APPROVE"
    /\ j.pc = "PLAN" => store.command

ConflictJobs == \A r \in Runners : ConflictJob(job[r])

ConflictAlone ==
    \A r1, r2 \in Runners :
        job[r1].pc \in Dispatching /\ job[r2].pc \in Dispatching /\ job[r1].stage = job[r2].stage
            => r1 = r2

ConflictStore ==
    /\ store \in Conflict!Stores /\ sent \in [Conflict!Stages -> Nat] /\ clock \in 0..MaxClock
    /\ ConflictClaims /\ ConflictFacts
    /\ Conflict!OutcomesAreTrue /\ Conflict!CommandsAreBacked

ConflictInv ==
    /\ ConflictStore
    /\ job \in [Runners -> Conflict!Jobs] /\ ConflictJobs /\ ConflictAlone

-----------------------------------------------------------------------------
LEMMA ConflictInit ==
    ASSUME Conflict!Init
    PROVE  ConflictInv
<1> USE EscalationAssumption DEF Conflict!Init
<1>1. store \in Conflict!Stores /\ job \in [Runners -> Conflict!Jobs]
  BY DEF Conflict!Stores, Conflict!Jobs, Conflict!Idle, Conflict!Stages, Conflict!Kinds
<1>2. sent \in [Conflict!Stages -> Nat] /\ clock \in 0..MaxClock
  OBVIOUS
<1>3. ConflictClaims /\ ConflictFacts
  BY DEF ConflictClaims, ConflictFacts, Conflict!Live, Conflict!Stages
<1>4. ConflictJobs /\ ConflictAlone
  BY DEF ConflictJobs, ConflictJob, ConflictAlone, Conflict!Idle, Dispatching
<1>5. Conflict!OutcomesAreTrue /\ Conflict!CommandsAreBacked
  BY DEF Conflict!OutcomesAreTrue, Conflict!CommandsAreBacked
<1> QED BY <1>1, <1>2, <1>3, <1>4, <1>5 DEF ConflictInv, ConflictStore

(* What jobs rely on stays: facts are not taken back, and the version tells *)
(* of the closing.                                                          *)
ConflictGrows ==
    /\ store'.version \in Nat /\ store.version <= store'.version
    /\ store.analysis => store'.analysis
    /\ store.proposal => store'.proposal
    /\ \A s \in Conflict!Stages : store.claim[s] # 0 => store'.claim[s] # 0
    /\ store'.outcome # store.outcome => ~Conflict!Closed /\ store.version < store'.version
    /\ store.decision # "NONE" => store'.decision = store.decision
    /\ store.command => store'.command


LEMMA ConflictJobStays ==
    ASSUME ConflictInv, ConflictGrows, sent' = sent, NEW r \in Runners, job'[r] = job[r]
    PROVE  ConflictJob(job[r])'
<1> DEFINE j == job[r]
<1>1. ConflictJob(j) /\ j.version \in Nat /\ j.stage \in Conflict!Stages /\ store.version \in Nat
  BY DEF ConflictInv, ConflictJobs, ConflictStore, Conflict!Jobs, Conflict!Stores
<1>2. job'[r] = j
  OBVIOUS
<1> HIDE DEF j
<1>3. j.version <= store'.version /\ (j.version = store'.version => store'.outcome = store.outcome)
  BY <1>1 DEF ConflictJob, ConflictGrows
<1>4. j.pc = "DECIDE" /\ j.kind = "APPROVE" => store'.outcome = "READY"
  BY <1>1 DEF ConflictJob, ConflictGrows, Conflict!Closed
<1>5. j.pc \in {"CLAIM"} \cup Dispatching /\ j.stage = "PLANNER" /\ j.version = store'.version
          => store'.outcome = "NONE"
  BY <1>1, <1>3 DEF ConflictJob, ConflictGrows, Conflict!Closed
<1> QED BY <1>1, <1>2, <1>3, <1>4, <1>5 DEF ConflictJob, ConflictGrows, Conflict!Closed, Dispatching

(* A runner's move beside a step of the store. *)
LEMMA ConflictMoves ==
    ASSUME ConflictInv, ConflictGrows, sent' = sent, ConflictStore',
           NEW r \in Runners, NEW j \in Conflict!Jobs,
           job' = [job EXCEPT ![r] = j], ConflictJob(j)',
           j.pc \in Dispatching => job[r].pc \in Dispatching /\ job[r].stage = j.stage
    PROVE  ConflictInv'
<1>1. job' \in [Runners -> Conflict!Jobs]
  BY DEF ConflictInv
<1>2. ConflictJobs'
  <2> SUFFICES ASSUME NEW x \in Runners PROVE ConflictJob(job[x])'
    BY DEF ConflictJobs
  <2>1. CASE x = r
    BY <2>1 DEF ConflictInv, ConflictJob, Dispatching, Conflict!Closed
  <2>2. CASE x # r
    BY <2>2, ConflictJobStays DEF ConflictInv
  <2> QED BY <2>1, <2>2
<1>3. ConflictAlone'
  BY DEF ConflictInv, ConflictAlone
<1> QED BY <1>1, <1>2, <1>3 DEF ConflictInv

LEMMA ConflictKept ==
    ASSUME ConflictInv, UNCHANGED <<store, sent, clock>>
    PROVE  ConflictStore' /\ ConflictGrows
<1>1. ConflictStore'
  BY DEF ConflictInv, ConflictStore, ConflictClaims, ConflictFacts, Conflict!Live,
      Conflict!OutcomesAreTrue, Conflict!CommandsAreBacked
<1>2. ConflictGrows
  BY DEF ConflictInv, ConflictStore, ConflictGrows, Conflict!Stores
<1> QED BY <1>1, <1>2

LEMMA ConflictMovesAlone ==
    ASSUME ConflictInv, UNCHANGED <<store, sent, clock>>,
           NEW r \in Runners, NEW j \in Conflict!Jobs,
           job' = [job EXCEPT ![r] = j], ConflictJob(j),
           j.pc \in Dispatching => job[r].pc \in Dispatching /\ job[r].stage = j.stage
    PROVE  ConflictInv'
<1>1. ConflictJob(j)'
  BY DEF ConflictJob, Conflict!Closed
<1> QED BY <1>1, ConflictKept, ConflictMoves

LEMMA ConflictIdle ==
    ASSUME ConflictInv
    PROVE  Conflict!Idle \in Conflict!Jobs /\ ConflictJob(Conflict!Idle)
BY EscalationAssumption DEF ConflictInv, ConflictStore, Conflict!Stores, Conflict!Idle, Conflict!Jobs,
    ConflictJob, Dispatching, Conflict!Stages, Conflict!Kinds

LEMMA ConflictStops ==
    ASSUME ConflictInv, UNCHANGED <<store, sent, clock>>, NEW r \in Runners, Conflict!Stop(r)
    PROVE  ConflictInv'
<1>1. Conflict!Idle.pc \notin Dispatching
  BY DEF Conflict!Idle, Dispatching
<1> QED BY <1>1, ConflictIdle, ConflictMovesAlone DEF Conflict!Stop

LEMMA ConflictDegrades ==
    ASSUME ConflictInv, UNCHANGED <<store, sent, clock>>, NEW r \in Runners,
           NEW s \in Conflict!Stages, NEW code \in {"COORDINATOR_TIMEOUT", "OTHER"},
           NEW allow \in BOOLEAN, Conflict!Degrade(r, s, code, allow),
           s = "PLANNER" => store.analysis
    PROVE  ConflictInv'
<1> DEFINE j == [Conflict!Idle EXCEPT !.pc = "CLOSE", !.stage = s, !.code = code,
                                      !.allow = allow, !.again = TRUE]
<1>1. j \in Conflict!Jobs
  BY ConflictIdle DEF Conflict!Jobs
<1>2. ConflictJob(j) /\ j.pc \notin Dispatching
  BY ConflictIdle DEF ConflictJob, Dispatching, Conflict!Idle
<1>3. job' = [job EXCEPT ![r] = j]
  BY DEF Conflict!Degrade
<1> HIDE DEF j
<1> QED BY <1>1, <1>2, <1>3, ConflictMovesAlone

LEMMA ConflictGoes ==
    ASSUME ConflictInv, UNCHANGED <<store, sent, clock>>, NEW r \in Runners,
           NEW pc \in {"CLAIM", "RECORD", "READY", "CLOSING"}, NEW s \in Conflict!Stages,
           NEW v \in Nat, Conflict!Goto(r, pc, s, v),
           v <= store.version,
           s = "PLANNER" => store.analysis,
           pc = "CLAIM" /\ s = "PLANNER" => ~Conflict!Closed,
           pc = "RECORD" => Conflict!At(r, "AWAIT") /\ s = job[r].stage /\ v = job[r].version,
           pc = "READY" => store.proposal
    PROVE  ConflictInv'
<1> DEFINE j == [job[r] EXCEPT !.pc = pc, !.stage = s, !.version = v]
<1>0. job[r] \in Conflict!Jobs /\ ConflictJob(job[r])
  BY DEF ConflictInv, ConflictJobs
<1>1. j \in Conflict!Jobs /\ j.pc = pc /\ j.stage = s /\ j.version = v
  BY <1>0 DEF Conflict!Jobs
<1>3. job' = [job EXCEPT ![r] = j]
  BY DEF Conflict!Goto, ConflictInv
<1> HIDE DEF j
<1>2. ConflictJob(j)
  BY <1>0, <1>1 DEF ConflictJob, Dispatching, Conflict!At
<1>4. pc \in Dispatching => job[r].pc \in Dispatching /\ job[r].stage = s
  BY DEF Dispatching, Conflict!At
<1> QED BY <1>1, <1>2, <1>3, <1>4, ConflictMovesAlone

LEMMA ConflictAppended ==
    ASSUME NEW x \in Conflict!Stores
    PROVE  /\ Conflict!Appended(x) \in Conflict!Stores
           /\ Conflict!Appended(x) = [x EXCEPT !.version = x.version + 1]
           /\ x.version + 1 \in Nat
BY DEF Conflict!Appended, Conflict!Stores

(* Leases: only the holder, its token and its end change. *)
LEMMA ConflictLeases ==
    ASSUME ConflictInv, UNCHANGED <<sent, clock>>, NEW h \in Operators \cup {NoOne},
           NEW t \in 0..MaxToken, NEW u \in Nat,
           store' = [store EXCEPT !.holder = h, !.token = t, !.until = u]
    PROVE  ConflictStore' /\ ConflictGrows /\ store'.version = store.version
<1>1. store' \in Conflict!Stores
  BY DEF ConflictInv, ConflictStore, Conflict!Stores
<1>2. \A f \in {"view", "version", "claim", "analysis", "proposal", "outcome", "decision",
                "command", "planned"} : store'[f] = store[f]
  BY DEF ConflictInv, ConflictStore, Conflict!Stores
<1>3. /\ store'.view = store.view /\ store'.version = store.version /\ store'.claim = store.claim
      /\ store'.analysis = store.analysis /\ store'.proposal = store.proposal
      /\ store'.outcome = store.outcome /\ store'.decision = store.decision
      /\ store'.command = store.command /\ store'.planned = store.planned
  BY <1>2
<1>4. ConflictStore'
  BY <1>1, <1>3 DEF ConflictInv, ConflictStore, ConflictClaims, ConflictFacts, Conflict!Live,
      Conflict!OutcomesAreTrue, Conflict!CommandsAreBacked
<1>5. ConflictGrows
  BY <1>1, <1>3 DEF ConflictInv, ConflictStore, ConflictGrows, Conflict!Stores
<1> QED BY <1>3, <1>4, <1>5

(* Acquiring a lease is such a change. *)
LEMMA ConflictLeaseOf ==
    ASSUME ConflictInv, NEW o \in Operators, Conflict!MayAcquire(o)
    PROVE  \E h \in Operators \cup {NoOne}, t \in 0..MaxToken, u \in Nat :
              Conflict!Acquired(o) = [store EXCEPT !.holder = h, !.token = t, !.until = u]
<1> USE EscalationAssumption
<1>0. /\ store \in Conflict!Stores /\ clock \in Nat
      /\ store.token \in 0..MaxToken /\ store.until \in Nat
      /\ store.holder \in Operators \cup {NoOne}
  BY DEF ConflictInv, ConflictStore, Conflict!Stores
<1>1. CASE store.holder = o /\ clock < store.until
  <2>1. Conflict!Acquired(o) =
          [store EXCEPT !.holder = store.holder, !.token = store.token, !.until = store.until]
    BY <1>0, <1>1 DEF Conflict!Acquired, Conflict!Stores
  <2> QED BY <1>0, <2>1
<1>2. CASE ~(store.holder = o /\ clock < store.until)
  <2>1. Conflict!Acquired(o) =
          [store EXCEPT !.holder = o, !.token = store.token + 1, !.until = clock + LeaseTime]
    BY <1>0, <1>2 DEF Conflict!Acquired, Conflict!Stores
  <2>2. store.token + 1 \in 0..MaxToken /\ clock + LeaseTime \in Nat
    BY <1>0, <1>2 DEF Conflict!MayAcquire
  <2> QED BY <2>1, <2>2
<1> QED BY <1>1, <1>2

LEMMA ConflictAcquired ==
    ASSUME ConflictInv, UNCHANGED <<sent, clock>>, NEW o \in Operators,
           Conflict!MayAcquire(o), store' = Conflict!Acquired(o)
    PROVE  ConflictStore' /\ ConflictGrows /\ store'.version = store.version
<1>1. PICK h \in Operators \cup {NoOne}, t \in 0..MaxToken, u \in Nat :
          Conflict!Acquired(o) = [store EXCEPT !.holder = h, !.token = t, !.until = u]
  BY ConflictLeaseOf
<1> QED BY <1>1, ConflictLeases

(* Whatever happens without a runner leaves the runners what they rely on. *)
LEMMA ConflictBeside ==
    ASSUME ConflictInv, ConflictGrows, UNCHANGED <<sent, job>>, ConflictStore'
    PROVE  ConflictInv'
<1>1. ConflictJobs'
  BY ConflictJobStays DEF ConflictJobs
<1> QED BY <1>1 DEF ConflictInv, ConflictAlone

LEMMA ConflictOperators ==
    ASSUME ConflictInv, NEW o \in Operators,
           Conflict!RenewLock(o) \/ Conflict!ReleaseLock(o) \/ Conflict!AdvanceView(o)
    PROVE  ConflictInv'
<1> USE EscalationAssumption
<1>0. store \in Conflict!Stores /\ clock \in Nat
  BY DEF ConflictInv, ConflictStore
<1>1. CASE Conflict!RenewLock(o)
  <2>1. store' = [store EXCEPT !.holder = store.holder, !.token = store.token,
                               !.until = clock + LeaseTime]
    BY <1>0, <1>1 DEF Conflict!RenewLock, Conflict!Renewed, Conflict!Stores
  <2>2. UNCHANGED <<sent, job, clock>>
    BY <1>1 DEF Conflict!RenewLock
  <2>3. /\ store.holder \in Operators \cup {NoOne} /\ store.token \in 0..MaxToken
        /\ clock + LeaseTime \in Nat
    BY <1>0 DEF Conflict!Stores
  <2> QED BY <2>1, <2>2, <2>3, ConflictLeases, ConflictBeside
<1>2. CASE Conflict!ReleaseLock(o)
  <2>1. store' = [store EXCEPT !.holder = NoOne, !.token = store.token, !.until = 0]
    BY <1>0, <1>2 DEF Conflict!ReleaseLock, Conflict!Released, Conflict!Stores
  <2>2. UNCHANGED <<sent, job, clock>>
    BY <1>2 DEF Conflict!ReleaseLock
  <2> QED BY <1>0, <2>1, <2>2, ConflictLeases, ConflictBeside DEF Conflict!Stores
<1>3. CASE Conflict!AdvanceView(o)
  <2>1. UNCHANGED <<sent, job, clock>> /\ Conflict!MayLeaveLive
    BY <1>3 DEF Conflict!AdvanceView
  <2>2. PICK h \in Operators \cup {NoOne}, t \in 0..MaxToken, u \in Nat :
          Conflict!Acquired(o) = [store EXCEPT !.holder = h, !.token = t, !.until = u]
    BY <1>3, ConflictLeaseOf DEF Conflict!AdvanceView
  <2> DEFINE x == [store EXCEPT !.holder = h, !.token = t, !.until = u]
             y == Conflict!Appended(x)
  <2>3. /\ x \in Conflict!Stores
        /\ x.version = store.version /\ x.claim = store.claim
        /\ x.analysis = store.analysis /\ x.proposal = store.proposal
        /\ x.outcome = store.outcome /\ x.decision = store.decision
        /\ x.command = store.command /\ x.planned = store.planned
    BY <1>0 DEF Conflict!Stores
  <2>4. store' = [y EXCEPT !.view = "REVIEW"]
    BY <1>3, <2>2 DEF Conflict!AdvanceView, Conflict!InReview
  <2> HIDE DEF x
  <2>5. y \in Conflict!Stores /\ y = [x EXCEPT !.version = x.version + 1]
    BY <2>3, ConflictAppended
  <2> HIDE DEF y
  <2>6. store' \in Conflict!Stores
    BY <2>4, <2>5 DEF Conflict!Stores
  <2>7. /\ store'.view = "REVIEW" /\ store'.version = store.version + 1 /\ store'.claim = store.claim
        /\ store'.analysis = store.analysis /\ store'.proposal = store.proposal
        /\ store'.outcome = store.outcome /\ store'.decision = store.decision
        /\ store'.command = store.command /\ store'.planned = store.planned
    BY <2>3, <2>4, <2>5 DEF Conflict!Stores
  <2>8. ConflictGrows
    BY <1>0, <2>7 DEF ConflictGrows, Conflict!Stores
  <2>9. ConflictStore'
    BY <2>1, <2>6, <2>7 DEF ConflictInv, ConflictStore, ConflictClaims, ConflictFacts, Conflict!Live,
        Conflict!MayLeaveLive, Conflict!OutcomesAreTrue, Conflict!CommandsAreBacked, Conflict!Stages
  <2> QED BY <2>1, <2>8, <2>9, ConflictBeside
<1> QED BY <1>1, <1>2, <1>3

LEMMA ConflictTicks ==
    ASSUME ConflictInv, Conflict!Tick
    PROVE  ConflictInv'
<1>1. clock' \in 0..MaxClock /\ clock <= clock' /\ UNCHANGED <<store, sent, job>>
  BY EscalationAssumption DEF Conflict!Tick, ConflictInv, ConflictStore
<1>2. ConflictStore'
  BY <1>1 DEF ConflictInv, ConflictStore, ConflictClaims, ConflictFacts, Conflict!Live,
      Conflict!OutcomesAreTrue, Conflict!CommandsAreBacked, Conflict!Stores, Conflict!Stages
<1>3. ConflictGrows
  BY <1>1 DEF ConflictInv, ConflictStore, ConflictGrows, Conflict!Stores
<1> QED BY <1>1, <1>2, <1>3, ConflictBeside

(* A job that begins knows nothing yet. *)
LEMMA ConflictBegins ==
    ASSUME ConflictInv, ConflictStore', ConflictGrows, UNCHANGED <<sent, clock>>,
           store'.version = store.version,
           NEW r \in Runners, NEW o \in Operators \cup {NoOne}, NEW t \in 0..MaxToken,
           Conflict!Begin(r, o, t)
    PROVE  ConflictInv'
<1>0. store.version \in Nat /\ clock + Deadline \in Nat
  BY EscalationAssumption DEF ConflictInv, ConflictStore, Conflict!Stores
<1>1. PICK j \in Conflict!Jobs :
        /\ job' = [job EXCEPT ![r] = j]
        /\ j.pc = "ESCALATE" /\ j.version = store.version /\ j.stage = "ANALYST"
  <2> DEFINE j == [Conflict!Idle EXCEPT !.pc = "ESCALATE", !.operator = o, !.token = t,
                          !.version = store.version, !.deadline = clock + Deadline]
  <2>1. j \in Conflict!Jobs
    BY <1>0, ConflictIdle DEF Conflict!Jobs
  <2>2. j.pc = "ESCALATE" /\ j.version = store.version /\ j.stage = "ANALYST"
    BY DEF Conflict!Idle
  <2>3. job' = [job EXCEPT ![r] = j]
    BY DEF Conflict!Begin
  <2> QED BY <2>1, <2>2, <2>3
<1>2. ConflictJob(j)' /\ j.pc \notin Dispatching
  BY <1>0, <1>1 DEF ConflictJob, Dispatching
<1> QED BY <1>1, <1>2, ConflictMoves

LEMMA ConflictResumes ==
    ASSUME ConflictInv, ConflictStore', ConflictGrows, UNCHANGED <<sent, clock>>,
           NEW r \in Runners, NEW v \in Nat, v <= store'.version, Conflict!Resume(r, v)
    PROVE  ConflictInv'
<1>1. PICK j \in Conflict!Jobs :
        /\ job' = [job EXCEPT ![r] = j]
        /\ j.pc = "RECOVER" /\ j.version = v /\ j.stage = "ANALYST"
  <2> DEFINE j == [Conflict!Idle EXCEPT !.pc = "RECOVER", !.version = v, !.deadline = job[r].deadline]
  <2>1. j \in Conflict!Jobs
    BY ConflictIdle DEF Conflict!Jobs, ConflictInv
  <2>2. j.pc = "RECOVER" /\ j.version = v /\ j.stage = "ANALYST"
    BY DEF Conflict!Idle
  <2>3. job' = [job EXCEPT ![r] = j]
    BY DEF Conflict!Resume
  <2> QED BY <2>1, <2>2, <2>3
<1>2. ConflictJob(j)' /\ j.pc \notin Dispatching
  BY <1>1 DEF ConflictJob, Dispatching
<1> QED BY <1>1, <1>2, ConflictMoves

LEMMA ConflictEntries ==
    ASSUME ConflictInv, NEW r \in Runners,
           Conflict!RunAutomatic(r) \/ \E o \in Operators : Conflict!RunRequested(r, o)
    PROVE  ConflictInv'
<1>1. CASE Conflict!RunAutomatic(r)
  <2>1. UNCHANGED <<store, sent, clock>> /\ Conflict!Begin(r, NoOne, 0)
    BY <1>1 DEF Conflict!RunAutomatic
  <2>2. 0 \in 0..MaxToken
    BY EscalationAssumption
  <2> QED BY <2>1, <2>2, ConflictKept, ConflictBegins
<1>2. ASSUME NEW o \in Operators, Conflict!RunRequested(r, o) PROVE ConflictInv'
  <2>1. /\ UNCHANGED <<sent, clock>> /\ store' = Conflict!Acquired(o)
        /\ Conflict!MayAcquire(o)
        /\ Conflict!Begin(r, o, store'.token) \/ UNCHANGED job
    BY <1>2 DEF Conflict!RunRequested, Conflict!BeginRequested
  <2>2. ConflictStore' /\ ConflictGrows /\ store'.version = store.version
    BY <2>1, ConflictAcquired
  <2>3. store'.token \in 0..MaxToken
    BY <2>2 DEF ConflictStore, Conflict!Stores
  <2>4. CASE UNCHANGED job
    BY <2>1, <2>2, <2>4, ConflictBeside
  <2>5. CASE Conflict!Begin(r, o, store'.token)
    BY <2>1, <2>2, <2>3, <2>5, ConflictBegins
  <2> QED BY <2>1, <2>4, <2>5
<1> QED BY <1>1, <1>2

LEMMA ConflictEscalates ==
    ASSUME ConflictInv, NEW r \in Runners, Conflict!Escalate(r)
    PROVE  ConflictInv'
<1>0. store \in Conflict!Stores /\ store.version \in Nat
  BY DEF ConflictInv, ConflictStore, Conflict!Stores
<1>1. CASE Conflict!Resume(r, store.version) /\ UNCHANGED store
  <2>1. UNCHANGED <<store, sent, clock>>
    BY <1>1 DEF Conflict!Escalate
  <2>2. store.version <= store'.version
    BY <1>0, <1>1
  <2> QED BY <1>0, <1>1, <2>1, <2>2, ConflictKept, ConflictResumes
<1>2. CASE store' = Conflict!Escalated(r) /\ Conflict!Resume(r, store'.version)
  <2> DEFINE y == Conflict!Appended(store)
  <2>1. y \in Conflict!Stores /\ y = [store EXCEPT !.version = store.version + 1]
    BY <1>0, ConflictAppended
  <2>2. PICK e \in {"AUTOMATIC", "OPERATOR_REQUESTED"} : store' = [y EXCEPT !.escalation = e]
    BY <1>2 DEF Conflict!Escalated
  <2> HIDE DEF y
  <2>3. store' \in Conflict!Stores
    BY <2>1, <2>2 DEF Conflict!Stores
  <2>4. /\ store'.view = store.view /\ store'.version = store.version + 1
        /\ store'.claim = store.claim
        /\ store'.analysis = store.analysis /\ store'.proposal = store.proposal
        /\ store'.outcome = store.outcome /\ store'.decision = store.decision
        /\ store'.command = store.command /\ store'.planned = store.planned
    BY <1>0, <2>1, <2>2 DEF Conflict!Stores
  <2>5. UNCHANGED <<sent, clock>>
    BY DEF Conflict!Escalate
  <2>6. ConflictStore'
    BY <2>3, <2>4, <2>5 DEF ConflictInv, ConflictStore, ConflictClaims, ConflictFacts, Conflict!Live,
        Conflict!OutcomesAreTrue, Conflict!CommandsAreBacked
  <2>7. ConflictGrows
    BY <1>0, <2>4 DEF ConflictGrows
  <2>8. store'.version \in Nat /\ store'.version <= store'.version
    BY <1>0, <2>4
  <2> QED BY <1>2, <2>5, <2>6, <2>7, <2>8, ConflictResumes
<1>3. CASE Conflict!Stop(r) /\ UNCHANGED store
  BY <1>3, ConflictStops DEF Conflict!Escalate
<1> QED BY <1>1, <1>2, <1>3 DEF Conflict!Escalate

LEMMA ConflictRecovers ==
    ASSUME ConflictInv, NEW r \in Runners, Conflict!Recover(r)
    PROVE  ConflictInv'
<1>0. /\ UNCHANGED <<store, sent, clock>> /\ store.version \in Nat
      /\ job[r].version \in Nat /\ job[r].version <= store.version
      /\ store.proposal => store.analysis
  BY DEF Conflict!Recover, ConflictInv, ConflictStore, Conflict!Stores, Conflict!Jobs, ConflictJobs,
      ConflictJob, ConflictFacts
<1>1. CASE Conflict!Stop(r)
  BY <1>0, <1>1, ConflictStops
<1>2. CASE store.proposal /\ Conflict!Goto(r, "READY", "PLANNER", store.version)
  <2>1. "PLANNER" \in Conflict!Stages /\ store.version <= store.version
    BY <1>0 DEF Conflict!Stages
  <2> QED BY <1>0, <1>2, <2>1, ConflictGoes
<1>3. CASE store.analysis /\ Conflict!Degrade(r, "PLANNER", "COORDINATOR_TIMEOUT", TRUE)
  <2>1. "PLANNER" \in Conflict!Stages
    BY DEF Conflict!Stages
  <2> QED BY <1>0, <1>3, <2>1, ConflictDegrades
<1>4. CASE ~Conflict!Closed /\ store.analysis /\ Conflict!Goto(r, "CLAIM", "PLANNER", store.version)
  <2>1. "PLANNER" \in Conflict!Stages /\ store.version <= store.version
    BY <1>0 DEF Conflict!Stages
  <2> QED BY <1>0, <1>4, <2>1, ConflictGoes
<1>5. CASE Conflict!Degrade(r, "ANALYST", "COORDINATOR_TIMEOUT", FALSE)
  <2>1. "ANALYST" \in Conflict!Stages
    BY DEF Conflict!Stages
  <2> QED BY <1>0, <1>5, <2>1, ConflictDegrades
<1>6. CASE Conflict!Goto(r, "CLAIM", "ANALYST", job[r].version)
  <2>1. "ANALYST" \in Conflict!Stages
    BY DEF Conflict!Stages
  <2> QED BY <1>0, <1>6, <2>1, ConflictGoes
<1> QED BY <1>0, <1>1, <1>2, <1>3, <1>4, <1>5, <1>6 DEF Conflict!Recover

(* A job as the invariant has it. *)
LEMMA ConflictKnows ==
    ASSUME ConflictInv, NEW r \in Runners
    PROVE  /\ job[r] \in Conflict!Jobs /\ ConflictJob(job[r])
           /\ job[r].stage \in Conflict!Stages
           /\ job[r].version \in Nat /\ job[r].version <= store.version
           /\ store \in Conflict!Stores /\ store.version \in Nat /\ clock \in Nat
           /\ "ANALYST" \in Conflict!Stages /\ "PLANNER" \in Conflict!Stages
           /\ store.proposal => store.analysis
           /\ job[r].stage = "PLANNER" => store.analysis
BY DEF ConflictInv, ConflictStore, Conflict!Stores, Conflict!Jobs, ConflictJobs, ConflictJob,
    ConflictFacts, Conflict!Stages

(* A dispatch is claimed once, and only one runner goes on from it. *)
LEMMA ConflictTakes ==
    ASSUME ConflictInv, NEW r \in Runners, NEW s \in Conflict!Stages,
           Conflict!At(r, "CLAIM"), job[r].stage = s,
           Conflict!TakeClaim(r, s), UNCHANGED <<sent, clock>>
    PROVE  ConflictInv'
<1>0. job[r] \in Conflict!Jobs /\ ConflictJob(job[r]) /\ store \in Conflict!Stores
  BY ConflictKnows
<1>1. CASE Conflict!MayClaim(s) /\ store' = Conflict!Claimed(s)
           /\ Conflict!Goto(r, "SEND", s, job[r].version)
  <2>1. store.claim[s] = 0 /\ Conflict!Live /\ clock + Window < ValidUntil
    BY <1>1 DEF Conflict!MayClaim, Conflict!CoversWindow
  <2>2. clock + Window \in Nat /\ clock + Window # 0 /\ clock \in Nat
    BY EscalationAssumption DEF ConflictInv, ConflictStore
  <2>3. /\ store' \in Conflict!Stores
        /\ store'.claim = [store.claim EXCEPT ![s] = clock + Window]
        /\ store'.view = store.view /\ store'.version = store.version
        /\ store'.analysis = store.analysis /\ store'.proposal = store.proposal
        /\ store'.outcome = store.outcome /\ store'.decision = store.decision
        /\ store'.command = store.command /\ store'.planned = store.planned
    BY <1>0, <1>1, <2>2 DEF Conflict!Claimed, Conflict!Stores
  <2>4. store.claim \in [Conflict!Stages -> Nat]
    BY <1>0 DEF Conflict!Stores
  <2>5. ConflictStore'
    <3>1. ConflictClaims' /\ ConflictFacts'
      BY <1>0, <2>1, <2>2, <2>3, <2>4 DEF ConflictInv, ConflictStore, ConflictClaims, ConflictFacts,
          Conflict!Live, ConflictJob, Conflict!Stages
    <3>2. Conflict!OutcomesAreTrue' /\ Conflict!CommandsAreBacked'
      BY <2>1, <2>3, <2>4 DEF ConflictInv, ConflictStore, Conflict!OutcomesAreTrue,
          Conflict!CommandsAreBacked, Conflict!Live, Conflict!Stages
    <3> QED BY <2>3, <3>1, <3>2 DEF ConflictInv, ConflictStore
  <2>6. ConflictGrows
    BY <1>0, <2>2, <2>3, <2>4 DEF ConflictGrows, Conflict!Stores
  <2>7. sent[s] = 0
    BY <2>1 DEF ConflictInv, ConflictStore, ConflictFacts
  <2>8. PICK j \in Conflict!Jobs :
          /\ job' = [job EXCEPT ![r] = j]
          /\ j.pc = "SEND" /\ j.stage = s /\ j.version = job[r].version
    <3> DEFINE j == [job[r] EXCEPT !.pc = "SEND", !.stage = s, !.version = job[r].version]
    <3>1. j \in Conflict!Jobs /\ j.pc = "SEND" /\ j.stage = s /\ j.version = job[r].version
      BY <1>0 DEF Conflict!Jobs
    <3>2. job' = [job EXCEPT ![r] = j]
      BY <1>1 DEF Conflict!Goto, ConflictInv
    <3> QED BY <3>1, <3>2
  <2>9. ConflictJob(j)'
    BY <1>0, <2>2, <2>3, <2>4, <2>7, <2>8 DEF ConflictJob, Conflict!Closed, Conflict!At, Dispatching
  <2>10. ConflictJobs'
    <3> SUFFICES ASSUME NEW x \in Runners PROVE ConflictJob(job[x])'
      BY DEF ConflictJobs
    <3>1. CASE x = r
      <4>1. job'[x] = j
        BY <2>8, <3>1 DEF ConflictInv
      <4> QED BY <2>9, <4>1 DEF ConflictJob, Dispatching, Conflict!Closed
    <3>2. CASE x # r
      BY <2>6, <2>8, <3>2, ConflictJobStays DEF ConflictInv
    <3> QED BY <3>1, <3>2
  <2>11. \A x \in Runners : job[x].pc \in Dispatching => job[x].stage # s
    BY <2>1 DEF ConflictInv, ConflictJobs, ConflictJob
  <2>12. ConflictAlone'
    BY <2>8, <2>11 DEF ConflictInv, ConflictAlone
  <2> QED BY <2>5, <2>8, <2>10, <2>12 DEF ConflictInv
<1>2. CASE UNCHANGED store /\ Conflict!Stop(r)
  BY <1>2, ConflictStops
<1>3. CASE UNCHANGED store /\ Conflict!Degrade(r, s, "COORDINATOR_TIMEOUT", s = "PLANNER")
  <2>1. s = "PLANNER" => store.analysis
    BY ConflictKnows
  <2> QED BY <1>3, <2>1, ConflictDegrades
<1> QED BY <1>1, <1>2, <1>3 DEF Conflict!TakeClaim

LEMMA ConflictClaimsTaken ==
    ASSUME ConflictInv, NEW r \in Runners, Conflict!ClaimAnalyst(r) \/ Conflict!ClaimPlanner(r)
    PROVE  ConflictInv'
<1> USE ConflictKnows
<1>1. CASE Conflict!ClaimAnalyst(r)
  <2>1. Conflict!At(r, "CLAIM") /\ job[r].stage = "ANALYST" /\ UNCHANGED <<sent, clock>>
    BY <1>1 DEF Conflict!ClaimAnalyst
  <2>2. CASE Conflict!TakeClaim(r, "ANALYST")
    BY <2>1, <2>2, ConflictTakes
  <2>3. CASE Conflict!Degrade(r, "ANALYST", "OTHER", FALSE) /\ UNCHANGED store
    BY <2>1, <2>3, ConflictDegrades
  <2> QED BY <1>1, <2>2, <2>3 DEF Conflict!ClaimAnalyst
<1>2. CASE Conflict!ClaimPlanner(r)
  <2>1. Conflict!At(r, "CLAIM") /\ job[r].stage = "PLANNER" /\ UNCHANGED <<sent, clock>>
    BY <1>2 DEF Conflict!ClaimPlanner
  <2>2. CASE Conflict!TakeClaim(r, "PLANNER")
    BY <2>1, <2>2, ConflictTakes
  <2>3. CASE Conflict!Degrade(r, "PLANNER", "COORDINATOR_TIMEOUT", FALSE) /\ UNCHANGED store
    BY <2>1, <2>3, ConflictDegrades
  <2>4. CASE Conflict!Stop(r) /\ UNCHANGED store
    BY <2>1, <2>4, ConflictStops
  <2> QED BY <1>2, <2>2, <2>3, <2>4 DEF Conflict!ClaimPlanner
<1> QED BY <1>1, <1>2

(* The one runner that claimed the dispatch asks the model. *)
LEMMA ConflictSends ==
    ASSUME ConflictInv, NEW r \in Runners, Conflict!Send(r)
    PROVE  ConflictInv'
<1> DEFINE s == job[r].stage
<1>0. /\ job[r] \in Conflict!Jobs /\ ConflictJob(job[r]) /\ s \in Conflict!Stages
      /\ s = "PLANNER" => store.analysis
  BY ConflictKnows
<1>1. job[r].pc = "SEND" /\ UNCHANGED <<store, clock>>
  BY DEF Conflict!Send, Conflict!At
<1>2. CASE sent' = [sent EXCEPT ![s] = @ + 1] /\ Conflict!Goto(r, "AWAIT", s, job[r].version)
  <2>1. store.claim[s] # 0 /\ sent[s] = 0 /\ sent \in [Conflict!Stages -> Nat]
    BY <1>0, <1>1 DEF ConflictJob, ConflictInv, ConflictStore, Dispatching
  <2>2. sent' = [sent EXCEPT ![s] = 1]
    BY <1>0, <1>2, <2>1
  <2>3. ConflictStore'
    <3>1. ConflictClaims' /\ ConflictFacts'
      BY <1>0, <1>1, <2>1, <2>2 DEF ConflictInv, ConflictStore, ConflictClaims, ConflictFacts,
          Conflict!Live, Conflict!Stages
    <3>2. Conflict!OutcomesAreTrue' /\ Conflict!CommandsAreBacked'
      BY <1>0, <1>1, <2>1, <2>2 DEF ConflictInv, ConflictStore, Conflict!OutcomesAreTrue,
          Conflict!CommandsAreBacked, Conflict!Live, Conflict!Stages
    <3>3. sent' \in [Conflict!Stages -> Nat]
      BY <2>1, <2>2
    <3> QED BY <1>1, <3>1, <3>2, <3>3 DEF ConflictInv, ConflictStore
  <2>4. PICK j \in Conflict!Jobs :
          /\ job' = [job EXCEPT ![r] = j]
          /\ j.pc = "AWAIT" /\ j.stage = s /\ j.version = job[r].version
    <3> DEFINE j == [job[r] EXCEPT !.pc = "AWAIT", !.stage = s, !.version = job[r].version]
    <3>1. j \in Conflict!Jobs /\ j.pc = "AWAIT" /\ j.stage = s /\ j.version = job[r].version
      BY <1>0 DEF Conflict!Jobs
    <3>2. job' = [job EXCEPT ![r] = j]
      BY <1>2 DEF Conflict!Goto, ConflictInv
    <3> QED BY <3>1, <3>2
  <2>5. ConflictJobs'
    <3> SUFFICES ASSUME NEW x \in Runners PROVE ConflictJob(job[x])'
      BY DEF ConflictJobs
    <3>1. CASE x = r
      <4>1. job'[x] = j
        BY <2>4, <3>1 DEF ConflictInv
      <4> QED BY <1>0, <1>1, <2>1, <2>2, <2>4, <4>1 DEF ConflictJob, Dispatching, Conflict!Closed
    <3>2. CASE x # r
      <4>1. job'[x] = job[x] /\ ConflictJob(job[x]) /\ job[x].stage \in Conflict!Stages
        BY <2>4, <3>2, ConflictKnows DEF ConflictInv
      <4>2. job[x].pc \in Dispatching => job[x].stage # s
        BY <1>1, <3>2 DEF ConflictInv, ConflictAlone, Dispatching
      <4> QED BY <1>0, <1>1, <2>1, <2>2, <4>1, <4>2 DEF ConflictJob, Dispatching, Conflict!Closed
    <3> QED BY <3>1, <3>2
  <2>6. ConflictAlone'
    BY <1>1, <2>4 DEF ConflictInv, ConflictAlone, Dispatching
  <2> QED BY <2>3, <2>4, <2>5, <2>6 DEF ConflictInv
<1>3. CASE Conflict!Degrade(r, s, "COORDINATOR_TIMEOUT", FALSE) /\ UNCHANGED sent
  BY <1>0, <1>1, <1>3, ConflictDegrades
<1> QED BY <1>2, <1>3 DEF Conflict!Send

LEMMA ConflictUnwinds ==
    ASSUME ConflictInv, UNCHANGED <<store, sent, clock>>, NEW r \in Runners, Conflict!Unwind(r)
    PROVE  ConflictInv'
BY ConflictKnows, ConflictStops, ConflictDegrades DEF Conflict!Unwind

LEMMA ConflictAnswers ==
    ASSUME ConflictInv, NEW r \in Runners,
           Conflict!Answer(r) \/ Conflict!NoAnswer(r) \/ Conflict!RunnerFails(r)
    PROVE  ConflictInv'
<1> DEFINE s == job[r].stage
<1>0. /\ s \in Conflict!Stages /\ (s = "PLANNER" => store.analysis)
      /\ job[r].version \in Nat /\ job[r].version <= store.version
  BY ConflictKnows
<1>1. Conflict!At(r, "AWAIT") /\ UNCHANGED <<store, sent, clock>>
  BY DEF Conflict!Answer, Conflict!NoAnswer, Conflict!RunnerFails
<1>2. CASE Conflict!Answer(r)
  <2>1. CASE Conflict!Goto(r, "RECORD", s, job[r].version)
    BY <1>0, <1>1, <2>1, ConflictGoes
  <2>2. ASSUME NEW code \in {"COORDINATOR_TIMEOUT", "OTHER"}, Conflict!Degrade(r, s, code, FALSE)
        PROVE  ConflictInv'
    BY <1>0, <1>1, <2>2, ConflictDegrades
  <2> QED BY <1>2, <2>1, <2>2 DEF Conflict!Answer
<1>3. CASE Conflict!NoAnswer(r)
  <2>1. ASSUME NEW code \in {"COORDINATOR_TIMEOUT", "OTHER"}, NEW allow \in BOOLEAN,
               Conflict!Degrade(r, s, code, allow)
        PROVE  ConflictInv'
    BY <1>0, <1>1, <2>1, ConflictDegrades
  <2>2. Conflict!Late(r) \in BOOLEAN
    BY DEF Conflict!Late
  <2> QED BY <1>3, <2>1, <2>2 DEF Conflict!NoAnswer
<1>4. CASE Conflict!RunnerFails(r)
  BY <1>1, <1>4, ConflictUnwinds DEF Conflict!RunnerFails
<1> QED BY <1>2, <1>3, <1>4

(* Facts that are appended. *)
LEMMA ConflictAnalyses ==
    ASSUME ConflictInv, NEW r \in Runners, Conflict!AppendConflictAnalysis(r)
    PROVE  ConflictInv'
<1>0. /\ job[r] \in Conflict!Jobs /\ ConflictJob(job[r]) /\ store \in Conflict!Stores
      /\ store.version \in Nat /\ "PLANNER" \in Conflict!Stages
  BY ConflictKnows
<1>1. /\ job[r].pc = "RECORD" /\ job[r].stage = "ANALYST" /\ UNCHANGED <<sent, clock>>
  BY DEF Conflict!AppendConflictAnalysis, Conflict!At
<1>2. CASE /\ Conflict!Live /\ Conflict!MayAnalyse(r)
           /\ store' = [Conflict!Appended(store) EXCEPT !.analysis = TRUE]
           /\ Conflict!Goto(r, "CLAIM", "PLANNER", store'.version)
  <2> DEFINE y == Conflict!Appended(store)
  <2>1. y \in Conflict!Stores /\ y = [store EXCEPT !.version = store.version + 1]
    BY <1>0, ConflictAppended
  <2>2. store' = [y EXCEPT !.analysis = TRUE]
    BY <1>2
  <2> HIDE DEF y
  <2>3. store' \in Conflict!Stores
    BY <2>1, <2>2 DEF Conflict!Stores
  <2>4. /\ store'.view = store.view /\ store'.version = store.version + 1
        /\ store'.claim = store.claim
        /\ store'.analysis = TRUE /\ store'.proposal = store.proposal
        /\ store'.outcome = store.outcome /\ store'.decision = store.decision
        /\ store'.command = store.command /\ store'.planned = store.planned
    BY <1>0, <2>1, <2>2 DEF Conflict!Stores
  <2>5. store.outcome = "NONE" /\ sent["ANALYST"] = 1 /\ store.claim["ANALYST"] # 0
    BY <1>0, <1>1, <1>2 DEF ConflictJob, Conflict!MayAnalyse, Conflict!Closed, Dispatching
  <2>6. ConflictStore'
    <3>1. ConflictClaims' /\ ConflictFacts'
      BY <1>1, <2>4, <2>5 DEF ConflictInv, ConflictStore, ConflictClaims, ConflictFacts, Conflict!Live
    <3>2. Conflict!OutcomesAreTrue' /\ Conflict!CommandsAreBacked'
      BY <1>1, <2>4, <2>5 DEF ConflictInv, ConflictStore, Conflict!OutcomesAreTrue,
          Conflict!CommandsAreBacked, Conflict!Live
    <3> QED BY <1>1, <2>3, <3>1, <3>2 DEF ConflictInv, ConflictStore
  <2>7. ConflictGrows
    BY <1>0, <2>4 DEF ConflictGrows
  <2>8. PICK j \in Conflict!Jobs :
          /\ job' = [job EXCEPT ![r] = j]
          /\ j.pc = "CLAIM" /\ j.stage = "PLANNER" /\ j.version = store'.version
    <3>1. PICK v \in Nat : v = store'.version
      BY <1>0, <2>4
    <3> DEFINE j == [job[r] EXCEPT !.pc = "CLAIM", !.stage = "PLANNER", !.version = v]
    <3>2. j \in Conflict!Jobs /\ j.pc = "CLAIM" /\ j.stage = "PLANNER" /\ j.version = v
      BY <1>0 DEF Conflict!Jobs
    <3>3. Conflict!Goto(r, "CLAIM", "PLANNER", v)
      BY <1>2, <3>1
    <3>4. job' = [job EXCEPT ![r] = j]
      BY <3>3 DEF Conflict!Goto, ConflictInv
    <3> QED BY <3>1, <3>2, <3>4
  <2>9. ConflictJob(j)' /\ j.pc \notin Dispatching
    BY <1>0, <2>4, <2>5, <2>8 DEF ConflictJob, Dispatching, Conflict!Closed
  <2> QED BY <1>1, <2>6, <2>7, <2>8, <2>9, ConflictMoves
<1>3. CASE Conflict!Unwind(r) /\ UNCHANGED store
  BY <1>1, <1>3, ConflictUnwinds
<1> QED BY <1>2, <1>3 DEF Conflict!AppendConflictAnalysis

LEMMA ConflictProposes ==
    ASSUME ConflictInv, NEW r \in Runners, Conflict!AppendProposal(r)
    PROVE  ConflictInv'
<1>0. /\ job[r] \in Conflict!Jobs /\ ConflictJob(job[r]) /\ store \in Conflict!Stores
      /\ store.version \in Nat /\ "PLANNER" \in Conflict!Stages
  BY ConflictKnows
<1>1. /\ job[r].pc = "RECORD" /\ job[r].stage = "PLANNER" /\ UNCHANGED <<sent, clock>>
  BY DEF Conflict!AppendProposal, Conflict!At
<1>2. CASE /\ Conflict!MayPropose(r)
           /\ store' = [Conflict!Appended(store) EXCEPT !.proposal = TRUE]
           /\ Conflict!Goto(r, "READY", "PLANNER", store'.version)
  <2> DEFINE y == Conflict!Appended(store)
  <2>1. y \in Conflict!Stores /\ y = [store EXCEPT !.version = store.version + 1]
    BY <1>0, ConflictAppended
  <2>2. store' = [y EXCEPT !.proposal = TRUE]
    BY <1>2
  <2> HIDE DEF y
  <2>3. store' \in Conflict!Stores
    BY <2>1, <2>2 DEF Conflict!Stores
  <2>4. /\ store'.view = store.view /\ store'.version = store.version + 1
        /\ store'.claim = store.claim
        /\ store'.analysis = store.analysis /\ store'.proposal = TRUE
        /\ store'.outcome = store.outcome /\ store'.decision = store.decision
        /\ store'.command = store.command /\ store'.planned = store.planned
    BY <1>0, <2>1, <2>2 DEF Conflict!Stores
  <2>5. store.analysis /\ sent["PLANNER"] = 1
    BY <1>0, <1>1, <1>2 DEF ConflictJob, Conflict!MayPropose, Conflict!ContinuesLineage
  <2>6. ConflictStore'
    <3>1. ConflictClaims' /\ ConflictFacts'
      BY <1>1, <2>4, <2>5 DEF ConflictInv, ConflictStore, ConflictClaims, ConflictFacts, Conflict!Live
    <3>2. Conflict!OutcomesAreTrue' /\ Conflict!CommandsAreBacked'
      BY <1>1, <2>4, <2>5 DEF ConflictInv, ConflictStore, Conflict!OutcomesAreTrue,
          Conflict!CommandsAreBacked, Conflict!Live
    <3> QED BY <1>1, <2>3, <3>1, <3>2 DEF ConflictInv, ConflictStore
  <2>7. ConflictGrows
    BY <1>0, <2>4 DEF ConflictGrows
  <2>8. PICK j \in Conflict!Jobs :
          /\ job' = [job EXCEPT ![r] = j]
          /\ j.pc = "READY" /\ j.stage = "PLANNER" /\ j.version = store'.version
    <3>1. PICK v \in Nat : v = store'.version
      BY <1>0, <2>4
    <3> DEFINE j == [job[r] EXCEPT !.pc = "READY", !.stage = "PLANNER", !.version = v]
    <3>2. j \in Conflict!Jobs /\ j.pc = "READY" /\ j.stage = "PLANNER" /\ j.version = v
      BY <1>0 DEF Conflict!Jobs
    <3>3. Conflict!Goto(r, "READY", "PLANNER", v)
      BY <1>2, <3>1
    <3>4. job' = [job EXCEPT ![r] = j]
      BY <3>3 DEF Conflict!Goto, ConflictInv
    <3> QED BY <3>1, <3>2, <3>4
  <2>9. ConflictJob(j)' /\ j.pc \notin Dispatching
    BY <1>0, <2>4, <2>5, <2>8 DEF ConflictJob, Dispatching, Conflict!Closed
  <2> QED BY <1>1, <2>6, <2>7, <2>8, <2>9, ConflictMoves
<1>3. CASE Conflict!Unwind(r) /\ UNCHANGED store
  BY <1>1, <1>3, ConflictUnwinds
<1> QED BY <1>2, <1>3 DEF Conflict!AppendProposal

(* A job that ends beside a step of the store. *)
LEMMA ConflictEnds ==
    ASSUME ConflictInv, ConflictGrows, sent' = sent, ConflictStore', NEW r \in Runners, Conflict!Stop(r)
    PROVE  ConflictInv'
<1>1. Conflict!Idle \in Conflict!Jobs /\ Conflict!Idle.pc \notin Dispatching
  BY ConflictIdle DEF Conflict!Idle, Dispatching
<1>2. ConflictJob(Conflict!Idle)'
  BY DEF ConflictJob, Conflict!Idle, ConflictGrows, Dispatching
<1>3. PICK j \in Conflict!Jobs : j = Conflict!Idle
  BY <1>1
<1>4. ConflictJob(j)' /\ j.pc \notin Dispatching /\ job' = [job EXCEPT ![r] = j]
  BY <1>1, <1>2, <1>3 DEF Conflict!Stop, ConflictJob
<1> QED BY <1>4, ConflictMoves

LEMMA ConflictEndsReady ==
    ASSUME ConflictInv, NEW r \in Runners, Conflict!AppendReadyOutcome(r)
    PROVE  ConflictInv'
<1>0. /\ ConflictJob(job[r]) /\ store \in Conflict!Stores /\ store.version \in Nat
      /\ "PLANNER" \in Conflict!Stages
  BY ConflictKnows
<1>1. /\ job[r].pc = "READY" /\ UNCHANGED <<sent, clock>>
  BY DEF Conflict!AppendReadyOutcome, Conflict!At
<1>2. store.proposal /\ store.analysis
  BY <1>0, <1>1, ConflictKnows DEF ConflictJob
<1>3. CASE /\ ~Conflict!Closed /\ Conflict!Stop(r)
           /\ store' = [Conflict!Appended(store) EXCEPT !.outcome = "READY"]
  <2> DEFINE y == Conflict!Appended(store)
  <2>1. y \in Conflict!Stores /\ y = [store EXCEPT !.version = store.version + 1]
    BY <1>0, ConflictAppended
  <2>2. store' = [y EXCEPT !.outcome = "READY"]
    BY <1>3
  <2> HIDE DEF y
  <2>3. store' \in Conflict!Stores
    BY <2>1, <2>2 DEF Conflict!Stores
  <2>4. /\ store'.view = store.view /\ store'.version = store.version + 1
        /\ store'.claim = store.claim
        /\ store'.analysis = store.analysis /\ store'.proposal = store.proposal
        /\ store'.outcome = "READY" /\ store'.decision = store.decision
        /\ store'.command = store.command /\ store'.planned = store.planned
    BY <1>0, <2>1, <2>2 DEF Conflict!Stores
  <2>5. ConflictStore'
    <3>1. ConflictClaims' /\ ConflictFacts'
      BY <1>1, <2>4 DEF ConflictInv, ConflictStore, ConflictClaims, ConflictFacts, Conflict!Live
    <3>2. Conflict!OutcomesAreTrue' /\ Conflict!CommandsAreBacked'
      BY <1>1, <1>2, <2>4 DEF ConflictInv, ConflictStore, Conflict!OutcomesAreTrue,
          Conflict!CommandsAreBacked, ConflictFacts, Conflict!Stages
    <3> QED BY <1>1, <2>3, <3>1, <3>2 DEF ConflictInv, ConflictStore
  <2>6. ConflictGrows
    BY <1>0, <1>3, <2>4 DEF ConflictGrows
  <2> QED BY <1>1, <1>3, <2>5, <2>6, ConflictEnds
<1>4. CASE Conflict!Stop(r) /\ UNCHANGED store
  BY <1>1, <1>4, ConflictStops
<1>5. CASE Conflict!Degrade(r, "PLANNER", "COORDINATOR_TIMEOUT", FALSE) /\ UNCHANGED store
  BY <1>0, <1>1, <1>2, <1>5, ConflictDegrades
<1> QED BY <1>3, <1>4, <1>5 DEF Conflict!AppendReadyOutcome

LEMMA ConflictEndsDegraded ==
    ASSUME ConflictInv, NEW r \in Runners,
           Conflict!PersistDegraded(r) \/ Conflict!AppendDegradedOutcome(r)
    PROVE  ConflictInv'
<1>0. /\ job[r] \in Conflict!Jobs /\ ConflictJob(job[r]) /\ job[r].stage \in Conflict!Stages
      /\ store \in Conflict!Stores /\ store.version \in Nat
      /\ job[r].version \in Nat /\ job[r].version <= store.version
      /\ job[r].stage = "PLANNER" => store.analysis
  BY ConflictKnows
<1>1. UNCHANGED <<sent, clock>>
  BY DEF Conflict!PersistDegraded, Conflict!AppendDegradedOutcome
<1>2. CASE Conflict!PersistDegraded(r)
  <2>1. CASE Conflict!Stop(r)
    BY <1>2, <2>1, ConflictStops DEF Conflict!PersistDegraded
  <2>2. CASE Conflict!Goto(r, "CLOSING", job[r].stage, store.version)
    <3>1. store.version <= store.version
      BY <1>0
    <3> QED BY <1>0, <1>2, <2>2, <3>1, ConflictGoes DEF Conflict!PersistDegraded
  <2> QED BY <1>2, <2>1, <2>2 DEF Conflict!PersistDegraded
<1>3. CASE Conflict!AppendDegradedOutcome(r)
  <2>1. CASE Conflict!MayDegrade(r)
    <3> DEFINE y == Conflict!Appended(store)
    <3>1. y \in Conflict!Stores /\ y = [store EXCEPT !.version = store.version + 1]
      BY <1>0, ConflictAppended
    <3>2. PICK e \in {"DEGRADED", "UNLINKED"} :
            /\ store' = [y EXCEPT !.outcome = e]
            /\ e = "DEGRADED" <=> Conflict!Live /\ job[r].stage = "PLANNER"
      BY <1>3, <2>1 DEF Conflict!AppendDegradedOutcome
    <3> HIDE DEF y
    <3>3. store' \in Conflict!Stores
      BY <3>1, <3>2 DEF Conflict!Stores
    <3>4. /\ store'.view = store.view /\ store'.version = store.version + 1
          /\ store'.claim = store.claim
          /\ store'.analysis = store.analysis /\ store'.proposal = store.proposal
          /\ store'.outcome = e /\ store'.decision = store.decision
          /\ store'.command = store.command /\ store'.planned = store.planned
      BY <1>0, <3>1, <3>2 DEF Conflict!Stores
    <3>5. store.outcome = "NONE"
      BY <2>1 DEF Conflict!MayDegrade, Conflict!Closed
    <3>6. ConflictStore'
      <4>1. ConflictClaims' /\ ConflictFacts'
        BY <1>1, <3>4 DEF ConflictInv, ConflictStore, ConflictClaims, ConflictFacts, Conflict!Live
      <4>2. Conflict!OutcomesAreTrue'
        BY <1>0, <1>1, <2>1, <3>2, <3>4 DEF Conflict!OutcomesAreTrue, Conflict!MayDegrade,
            Conflict!MayCloseInReview, Conflict!Live
      <4>3. Conflict!CommandsAreBacked'
        BY <3>4, <3>5 DEF ConflictInv, ConflictStore, Conflict!CommandsAreBacked
      <4> QED BY <1>1, <3>3, <4>1, <4>2, <4>3 DEF ConflictInv, ConflictStore
    <3>7. ConflictGrows
      BY <1>0, <3>4, <3>5 DEF ConflictGrows, Conflict!Closed
    <3> QED BY <1>1, <1>3, <2>1, <3>6, <3>7, ConflictEnds DEF Conflict!AppendDegradedOutcome
  <2>2. CASE UNCHANGED store /\ Conflict!Stop(r)
    BY <1>1, <2>2, ConflictStops
  <2>3. CASE UNCHANGED store /\ job' = [job EXCEPT ![r].pc = "CLOSE", ![r].again = FALSE]
    <3> DEFINE j == [job[r] EXCEPT !.pc = "CLOSE", !.again = FALSE]
    <3>1. /\ j \in Conflict!Jobs /\ j.pc = "CLOSE" /\ j.stage = job[r].stage
          /\ j.version = job[r].version
      BY <1>0 DEF Conflict!Jobs
    <3>2. job' = [job EXCEPT ![r] = j]
      BY <2>3 DEF ConflictInv
    <3> HIDE DEF j
    <3>3. ConflictJob(j) /\ j.pc \notin Dispatching
      BY <1>0, <3>1 DEF ConflictJob, Dispatching
    <3> QED BY <1>1, <2>3, <3>1, <3>2, <3>3, ConflictMovesAlone
  <2> QED BY <1>3, <2>1, <2>2, <2>3 DEF Conflict!AppendDegradedOutcome
<1> QED BY <1>2, <1>3

(* The operator's decision, its command and what reaches the plan store. *)
LEMMA ConflictSubmits ==
    ASSUME ConflictInv, NEW r \in Runners, NEW o \in Operators, NEW kind \in Conflict!Kinds,
           Conflict!SubmitDecision(r, o, kind)
    PROVE  ConflictInv'
<1>1. /\ UNCHANGED <<sent, clock>> /\ store' = Conflict!Acquired(o) /\ Conflict!MayAcquire(o)
      /\ Conflict!Compile(r, o, store'.token, kind) /\ store.proposal
  BY DEF Conflict!SubmitDecision
<1>2. ConflictStore' /\ ConflictGrows /\ store'.version = store.version
  BY <1>1, ConflictAcquired
<1>3. CASE UNCHANGED job
  BY <1>1, <1>2, <1>3, ConflictBeside
<1>4. CASE Conflict!MayCompile(kind) /\ ~UNCHANGED job
  <2>1. PICK t \in 0..MaxToken : t = store'.token
    BY <1>2 DEF ConflictStore, Conflict!Stores
  <2>2. PICK j \in Conflict!Jobs :
          /\ job' = [job EXCEPT ![r] = j] /\ j.pc = "DECIDE" /\ j.stage = "ANALYST"
          /\ j.version = store.version /\ j.kind = kind
    <3> DEFINE j == [Conflict!Idle EXCEPT !.pc = "DECIDE", !.operator = o, !.token = t,
                            !.version = store.version, !.kind = kind]
    <3>1. j \in Conflict!Jobs
      BY <2>1, ConflictIdle, ConflictKnows DEF Conflict!Jobs
    <3>2. j.pc = "DECIDE" /\ j.stage = "ANALYST" /\ j.version = store.version /\ j.kind = kind
      BY DEF Conflict!Idle
    <3>3. Conflict!Compile(r, o, t, kind)
      BY <1>1, <2>1
    <3>4. job' = [job EXCEPT ![r] = j]
      BY <1>4, <3>3 DEF Conflict!Compile
    <3> QED BY <3>1, <3>2, <3>4
  <2>3. ConflictJob(j)' /\ j.pc \notin Dispatching
    <3>1. /\ store'.version \in Nat
          /\ store'.proposal
          /\ kind = "APPROVE" => store'.outcome = "READY"
      BY <1>1, <1>2, <1>4 DEF ConflictGrows, Conflict!MayCompile, Conflict!Closed
    <3> QED BY <1>2, <2>2, <3>1 DEF ConflictJob, Dispatching
  <2> QED BY <1>1, <1>2, <2>2, <2>3, ConflictMoves
<1> QED BY <1>1, <1>3, <1>4 DEF Conflict!Compile

LEMMA ConflictDecides ==
    ASSUME ConflictInv, NEW r \in Runners, Conflict!AppendOperatorDecision(r)
    PROVE  ConflictInv'
<1>0. /\ job[r] \in Conflict!Jobs /\ ConflictJob(job[r]) /\ store \in Conflict!Stores
      /\ store.version \in Nat
  BY ConflictKnows
<1>1. job[r].pc = "DECIDE" /\ UNCHANGED <<sent, clock>>
  BY DEF Conflict!AppendOperatorDecision, Conflict!At
<1>2. CASE Conflict!Stop(r) /\ UNCHANGED store
  BY <1>1, <1>2, ConflictStops
<1>3. CASE /\ Conflict!MayDecide(r)
           /\ store' = [Conflict!Appended(store) EXCEPT !.decision = job[r].kind,
                                                        !.decided = job[r].token]
           /\ IF job[r].kind = "REJECT" THEN Conflict!Stop(r)
              ELSE Conflict!Goto(r, "COMMAND", "PLANNER", store'.version)
  <2> DEFINE y == Conflict!Appended(store)
  <2>1. y \in Conflict!Stores /\ y = [store EXCEPT !.version = store.version + 1]
    BY <1>0, ConflictAppended
  <2>2. PICK k \in Conflict!Kinds, t \in 0..MaxToken : k = job[r].kind /\ t = job[r].token
    BY <1>0 DEF Conflict!Jobs
  <2>3. store' = [y EXCEPT !.decision = k, !.decided = t]
    BY <1>3, <2>2
  <2> HIDE DEF y
  <2>4. store' \in Conflict!Stores
    BY <2>1, <2>3 DEF Conflict!Stores
  <2>5. /\ store'.view = store.view /\ store'.version = store.version + 1
        /\ store'.claim = store.claim
        /\ store'.analysis = store.analysis /\ store'.proposal = store.proposal
        /\ store'.outcome = store.outcome /\ store'.decision = k
        /\ store'.command = store.command /\ store'.planned = store.planned
    BY <1>0, <2>1, <2>3 DEF Conflict!Stores
  <2>6. /\ store.decision = "NONE" /\ store.proposal /\ store.analysis
        /\ k = "APPROVE" => store.outcome = "READY"
    BY <1>0, <1>1, <1>3, <2>2, ConflictKnows DEF ConflictJob, Conflict!MayDecide
  <2>7. ConflictStore'
    <3>1. ConflictClaims' /\ ConflictFacts'
      BY <1>1, <2>5 DEF ConflictInv, ConflictStore, ConflictClaims, ConflictFacts, Conflict!Live
    <3>2. Conflict!OutcomesAreTrue' /\ Conflict!CommandsAreBacked'
      BY <1>1, <2>5, <2>6 DEF ConflictInv, ConflictStore, Conflict!OutcomesAreTrue,
          Conflict!CommandsAreBacked, Conflict!Live
    <3> QED BY <1>1, <2>4, <3>1, <3>2 DEF ConflictInv, ConflictStore
  <2>8. ConflictGrows
    BY <1>0, <2>5, <2>6 DEF ConflictGrows
  <2>9. CASE k = "REJECT"
    BY <1>1, <1>3, <2>2, <2>7, <2>8, <2>9, ConflictEnds
  <2>10. CASE k # "REJECT"
    <3>1. k = "APPROVE"
      BY <2>10 DEF Conflict!Kinds
    <3>2. PICK v \in Nat : v = store'.version
      BY <1>0, <2>5
    <3>3. PICK j \in Conflict!Jobs :
            /\ job' = [job EXCEPT ![r] = j]
            /\ j.pc = "COMMAND" /\ j.stage = "PLANNER" /\ j.version = v
      <4> DEFINE j == [job[r] EXCEPT !.pc = "COMMAND", !.stage = "PLANNER", !.version = v]
      <4>1. j \in Conflict!Jobs /\ j.pc = "COMMAND" /\ j.stage = "PLANNER" /\ j.version = v
        BY <1>0 DEF Conflict!Jobs, Conflict!Stages
      <4>2. Conflict!Goto(r, "COMMAND", "PLANNER", v)
        BY <1>3, <2>2, <2>10, <3>2
      <4>3. job' = [job EXCEPT ![r] = j]
        BY <4>2 DEF Conflict!Goto, ConflictInv
      <4> QED BY <4>1, <4>3
    <3>4. ConflictJob(j)' /\ j.pc \notin Dispatching
      BY <2>5, <2>6, <3>1, <3>2, <3>3 DEF ConflictJob, Dispatching
    <3> QED BY <1>1, <2>7, <2>8, <3>3, <3>4, ConflictMoves
  <2> QED BY <2>9, <2>10
<1> QED BY <1>2, <1>3 DEF Conflict!AppendOperatorDecision

LEMMA ConflictCommands ==
    ASSUME ConflictInv, NEW r \in Runners,
           Conflict!AppendExecutionCommand(r) \/ Conflict!SubmitPlanCommand(r)
    PROVE  ConflictInv'
<1>0. /\ job[r] \in Conflict!Jobs /\ ConflictJob(job[r]) /\ store \in Conflict!Stores
      /\ store.version \in Nat
  BY ConflictKnows
<1>1. UNCHANGED <<sent, clock>>
  BY DEF Conflict!AppendExecutionCommand, Conflict!SubmitPlanCommand
<1>2. CASE Conflict!SubmitPlanCommand(r)
  <2>1. store' = [store EXCEPT !.planned = TRUE] /\ Conflict!Stop(r) /\ store.command
    BY <1>0, <1>2 DEF Conflict!SubmitPlanCommand, Conflict!At, ConflictJob
  <2>2. /\ store' \in Conflict!Stores
        /\ store'.view = store.view /\ store'.version = store.version
        /\ store'.claim = store.claim
        /\ store'.analysis = store.analysis /\ store'.proposal = store.proposal
        /\ store'.outcome = store.outcome /\ store'.decision = store.decision
        /\ store'.command = store.command
    BY <1>0, <2>1 DEF Conflict!Stores
  <2>3. ConflictStore'
    BY <1>1, <2>1, <2>2 DEF ConflictInv, ConflictStore, ConflictClaims, ConflictFacts, Conflict!Live,
        Conflict!OutcomesAreTrue, Conflict!CommandsAreBacked
  <2>4. ConflictGrows
    BY <1>0, <2>2 DEF ConflictGrows
  <2> QED BY <1>1, <2>1, <2>3, <2>4, ConflictEnds
<1>3. CASE Conflict!AppendExecutionCommand(r) /\ ~(Conflict!Stop(r) /\ UNCHANGED store)
  <2> DEFINE y == Conflict!Appended(store)
  <2>1. y \in Conflict!Stores /\ y = [store EXCEPT !.version = store.version + 1]
    BY <1>0, ConflictAppended
  <2>2. /\ store' = [y EXCEPT !.command = TRUE] /\ job[r].pc = "COMMAND"
        /\ Conflict!Goto(r, "PLAN", "PLANNER", store'.version)
    BY <1>3 DEF Conflict!AppendExecutionCommand, Conflict!At
  <2> HIDE DEF y
  <2>3. store' \in Conflict!Stores
    BY <2>1, <2>2 DEF Conflict!Stores
  <2>4. /\ store'.view = store.view /\ store'.version = store.version + 1
        /\ store'.claim = store.claim
        /\ store'.analysis = store.analysis /\ store'.proposal = store.proposal
        /\ store'.outcome = store.outcome /\ store'.decision = store.decision
        /\ store'.command = TRUE /\ store'.planned = store.planned
    BY <1>0, <2>1, <2>2 DEF Conflict!Stores
  <2>5. store.decision = "APPROVE" /\ store.proposal /\ store.analysis
    BY <1>0, <2>2, ConflictKnows DEF ConflictJob
  <2>6. ConflictStore'
    BY <1>1, <2>3, <2>4, <2>5 DEF ConflictInv, ConflictStore, ConflictClaims, ConflictFacts,
        Conflict!Live, Conflict!OutcomesAreTrue, Conflict!CommandsAreBacked
  <2>7. ConflictGrows
    BY <1>0, <2>4 DEF ConflictGrows
  <2>8. PICK v \in Nat : v = store'.version
    BY <1>0, <2>4
  <2>9. PICK j \in Conflict!Jobs :
          /\ job' = [job EXCEPT ![r] = j]
          /\ j.pc = "PLAN" /\ j.stage = "PLANNER" /\ j.version = v
    <3> DEFINE j == [job[r] EXCEPT !.pc = "PLAN", !.stage = "PLANNER", !.version = v]
    <3>1. j \in Conflict!Jobs /\ j.pc = "PLAN" /\ j.stage = "PLANNER" /\ j.version = v
      BY <1>0 DEF Conflict!Jobs, Conflict!Stages
    <3>2. Conflict!Goto(r, "PLAN", "PLANNER", v)
      BY <2>2, <2>8
    <3>3. job' = [job EXCEPT ![r] = j]
      BY <3>2 DEF Conflict!Goto, ConflictInv
    <3> QED BY <3>1, <3>3
  <2>10. ConflictJob(j)' /\ j.pc \notin Dispatching
    BY <2>4, <2>5, <2>8, <2>9 DEF ConflictJob, Dispatching
  <2> QED BY <1>1, <2>6, <2>7, <2>9, <2>10, ConflictMoves
<1>4. CASE Conflict!Stop(r) /\ UNCHANGED store
  BY <1>1, <1>4, ConflictStops
<1> QED BY <1>2, <1>3, <1>4

LEMMA ConflictCrashes ==
    ASSUME ConflictInv, NEW r \in Runners, Conflict!Crash(r)
    PROVE  ConflictInv'
BY ConflictStops DEF Conflict!Crash

LEMMA ConflictStep ==
    ASSUME ConflictInv, Conflict!Next
    PROVE  ConflictInv'
<1>1. CASE Conflict!Tick
  BY <1>1, ConflictTicks
<1>2. CASE \E o \in Operators :
             Conflict!RenewLock(o) \/ Conflict!ReleaseLock(o) \/ Conflict!AdvanceView(o)
  BY <1>2, ConflictOperators
<1>3. ASSUME NEW r \in Runners,
             \/ Conflict!RunAutomatic(r) \/ Conflict!Escalate(r) \/ Conflict!Recover(r)
             \/ Conflict!Send(r) \/ Conflict!ClaimAnalyst(r) \/ Conflict!ClaimPlanner(r)
             \/ Conflict!Answer(r) \/ Conflict!NoAnswer(r) \/ Conflict!RunnerFails(r)
             \/ Conflict!AppendConflictAnalysis(r) \/ Conflict!AppendProposal(r)
             \/ Conflict!AppendReadyOutcome(r) \/ Conflict!PersistDegraded(r)
             \/ Conflict!AppendDegradedOutcome(r) \/ Conflict!AppendOperatorDecision(r)
             \/ Conflict!AppendExecutionCommand(r) \/ Conflict!SubmitPlanCommand(r)
             \/ Conflict!Crash(r)
      PROVE  ConflictInv'
  BY <1>3, ConflictEntries, ConflictEscalates, ConflictRecovers, ConflictSends, ConflictClaimsTaken,
      ConflictAnswers, ConflictAnalyses, ConflictProposes, ConflictEndsReady, ConflictEndsDegraded,
      ConflictDecides, ConflictCommands, ConflictCrashes
<1>4. ASSUME NEW r \in Runners, NEW o \in Operators,
             Conflict!RunRequested(r, o)
                \/ \E kind \in Conflict!Kinds : Conflict!SubmitDecision(r, o, kind)
      PROVE  ConflictInv'
  BY <1>4, ConflictEntries, ConflictSubmits
<1> QED BY <1>1, <1>2, <1>3, <1>4 DEF Conflict!Next

LEMMA ConflictHolds ==
    ASSUME ConflictInv
    PROVE  Conflict!TypeOK /\ Conflict!CallsStayLive /\ Conflict!OutcomesAreTrue
              /\ Conflict!CommandsAreBacked
<1>1. Conflict!TypeOK
  BY DEF ConflictInv, ConflictStore, Conflict!TypeOK
<1>2. Conflict!CallsStayLive
  <2> SUFFICES ASSUME NEW r \in Runners, clock < store.claim[job[r].stage]
               PROVE  Conflict!Live /\ clock < ValidUntil
    BY DEF Conflict!CallsStayLive
  <2> DEFINE s == job[r].stage
  <2>1. s \in Conflict!Stages /\ clock \in Nat /\ store.claim[s] \in Nat
    BY ConflictKnows DEF Conflict!Stores
  <2> QED BY <2>1, EscalationAssumption DEF ConflictInv, ConflictStore, ConflictClaims
<1> QED BY <1>1, <1>2 DEF ConflictInv, ConflictStore

(* A step that changes nothing of this part keeps the invariant.            *)
LEMMA ConflictStutters ==
    ASSUME ConflictInv, UNCHANGED Conflict!vars
    PROVE  ConflictInv'
BY DEF Conflict!vars, ConflictInv, ConflictStore, ConflictClaims, Conflict!Live, ConflictFacts,
   Conflict!OutcomesAreTrue, Conflict!CommandsAreBacked, ConflictJobs, ConflictJob,
   Conflict!Closed, ConflictAlone

-----------------------------------------------------------------------------

(* What the ledger says of the call of stage s. *)
ConflictSays(s) ==
    IF Conflict!Answered(s) THEN "OK"
    ELSE IF store.claim[s] # 0 /\ Conflict!Closed /\ ~Conflict!Awaited(s) THEN "LOST" ELSE "OPEN"
ConflictReserved == {s \in Conflict!Stages : store.claim[s] # 0}
ConflictAnswer == [s \in Conflict!Stages |-> ConflictSays(s)]

LEMMA ConflictMapping ==
    /\ UNCHANGED <<ConflictReserved, sent, ConflictAnswer>> => UNCHANGED Conflict!CallsOnce!vars
    /\ \A s \in Conflict!Stages :
         /\ Conflict!CallsOnce!Reserve(s) <=>
              /\ s \notin ConflictReserved /\ ConflictReserved' = ConflictReserved \cup {s}
              /\ UNCHANGED <<sent, ConflictAnswer>>
         /\ Conflict!CallsOnce!Send(s) <=>
              /\ s \in ConflictReserved /\ sent[s] = 0 /\ ConflictAnswer[s] \in {"OPEN", "LOST"}
              /\ sent' = [sent EXCEPT ![s] = 1] /\ UNCHANGED <<ConflictReserved, ConflictAnswer>>
         /\ \A a1 : Conflict!CallsOnce!Settle(s, a1) <=>
              /\ s \in ConflictReserved /\ ConflictAnswer[s] = "OPEN"
              /\ a1 = "OK" => sent[s] = 1
              /\ a1 = "UNSENT" => sent[s] = 0
              /\ ConflictAnswer' = [ConflictAnswer EXCEPT ![s] = a1]
              /\ UNCHANGED <<ConflictReserved, sent>>
BY DEF Conflict!CallsOnce!vars, Conflict!CallsOnce!Reserve, Conflict!CallsOnce!Send,
    Conflict!CallsOnce!Settle, ConflictReserved, ConflictAnswer, ConflictSays

ConflictCalls == [Conflict!CallsOnce!Next]_(Conflict!CallsOnce!vars)

(* Nobody starts to wait for an answer. *)
ConflictRests(r) ==
    /\ job'[r].pc \notin {"SEND", "AWAIT"}
    /\ \A x \in Runners : x # r => job'[x] = job[x]

ConflictQuiet ==
    /\ store'.claim = store.claim /\ store'.analysis = store.analysis
    /\ store'.proposal = store.proposal /\ UNCHANGED sent
    /\ Conflict!Closed => Conflict!Closed'
    /\ UNCHANGED job \/ \E r \in Runners : ConflictRests(r)

LEMMA ConflictQuietCalls ==
    ASSUME ConflictInv, ConflictQuiet
    PROVE  ConflictCalls
<1>1. ConflictReserved' = ConflictReserved
  BY DEF ConflictQuiet, ConflictReserved
<1>2. ASSUME NEW s \in Conflict!Stages, Conflict!Awaited(s)' PROVE Conflict!Awaited(s)
  <2>1. CASE UNCHANGED job
    BY <1>2, <2>1 DEF Conflict!Awaited
  <2>2. ASSUME NEW r \in Runners, ConflictRests(r) PROVE Conflict!Awaited(s)
    BY <1>2, <2>2 DEF ConflictRests, Conflict!Awaited
  <2> QED BY <2>1, <2>2 DEF ConflictQuiet
<1>3. \A s \in Conflict!Stages :
        ConflictSays(s)' = ConflictSays(s)
          \/ /\ ConflictSays(s) = "OPEN" /\ ConflictSays(s)' = "LOST"
             /\ store.claim[s] # 0 /\ ~Conflict!Answered(s)
  BY <1>2 DEF ConflictQuiet, ConflictSays, Conflict!Answered
<1>4. store.claim["PLANNER"] # 0 => Conflict!Answered("ANALYST")
  BY DEF ConflictInv, ConflictStore, ConflictFacts, Conflict!Answered
<1>5. CASE \A s \in Conflict!Stages : ConflictSays(s)' = ConflictSays(s)
  <2>1. ConflictAnswer' = ConflictAnswer
    BY <1>5 DEF ConflictAnswer
  <2> QED BY <1>1, <2>1, ConflictMapping DEF ConflictCalls, ConflictQuiet
<1>6. ASSUME NEW s \in Conflict!Stages, ConflictSays(s)' # ConflictSays(s) PROVE ConflictCalls
  <2>1. /\ ConflictSays(s) = "OPEN" /\ ConflictSays(s)' = "LOST"
        /\ store.claim[s] # 0 /\ ~Conflict!Answered(s)
    BY <1>3, <1>6
  <2>2. \A x \in Conflict!Stages : x # s => ConflictSays(x)' = ConflictSays(x)
    BY <1>3, <1>4, <2>1 DEF Conflict!Stages
  <2>3. ConflictAnswer' = [ConflictAnswer EXCEPT ![s] = "LOST"]
    BY <2>1, <2>2 DEF ConflictAnswer
  <2>4. s \in ConflictReserved /\ ConflictAnswer[s] = "OPEN"
    BY <2>1 DEF ConflictReserved, ConflictAnswer
  <2>5. Conflict!CallsOnce!Settle(s, "LOST")
    BY <1>1, <2>3, <2>4, ConflictMapping DEF ConflictQuiet
  <2> QED BY <2>5 DEF ConflictCalls, Conflict!CallsOnce!Next
<1> QED BY <1>5, <1>6

LEMMA ConflictTakesCall ==
    ASSUME ConflictInv, ConflictInv', NEW r \in Runners, NEW s \in Conflict!Stages,
           Conflict!At(r, "CLAIM"), job[r].stage = s, UNCHANGED sent,
           Conflict!MayClaim(s), store' = Conflict!Claimed(s),
           Conflict!Goto(r, "SEND", s, job[r].version)
    PROVE  ConflictCalls
<1>0. /\ job[r] \in Conflict!Jobs /\ store \in Conflict!Stores
      /\ clock + Window \in Nat /\ clock + Window # 0 /\ job \in [Runners -> Conflict!Jobs]
  BY ConflictKnows, EscalationAssumption DEF ConflictInv
<1>1. /\ store'.claim = [store.claim EXCEPT ![s] = clock + Window] /\ store.claim[s] = 0
      /\ store.claim \in [Conflict!Stages -> Nat]
      /\ store'.analysis = store.analysis /\ store'.proposal = store.proposal
      /\ store'.outcome = store.outcome
  BY <1>0 DEF Conflict!Claimed, Conflict!MayClaim, Conflict!Stores
<1>2. ConflictReserved' = ConflictReserved \cup {s} /\ s \notin ConflictReserved
  BY <1>0, <1>1 DEF ConflictReserved
<1>3. /\ job'[r].pc = "SEND" /\ job'[r].stage = s /\ job[r].pc = "CLAIM"
      /\ \A x \in Runners : x # r => job'[x] = job[x]
  BY <1>0 DEF Conflict!Goto, Conflict!At, Conflict!Jobs
<1>4. Conflict!Awaited(s)'
  BY <1>3 DEF Conflict!Awaited
<1>5. \A t \in Conflict!Stages : t # s => (Conflict!Awaited(t)' <=> Conflict!Awaited(t))
  BY <1>3 DEF Conflict!Awaited
<1>6. \A t \in Conflict!Stages : ConflictSays(t)' = ConflictSays(t)
  BY <1>1, <1>4, <1>5 DEF ConflictSays, Conflict!Answered, Conflict!Closed
<1>7. ConflictAnswer' = ConflictAnswer
  BY <1>6 DEF ConflictAnswer
<1>8. Conflict!CallsOnce!Reserve(s)
  BY <1>2, <1>7, ConflictMapping
<1> QED BY <1>8 DEF ConflictCalls, Conflict!CallsOnce!Next

LEMMA ConflictSendsCall ==
    ASSUME ConflictInv, NEW r \in Runners, Conflict!At(r, "SEND"), UNCHANGED store,
           sent' = [sent EXCEPT ![job[r].stage] = @ + 1],
           Conflict!Goto(r, "AWAIT", job[r].stage, job[r].version)
    PROVE  ConflictCalls
<1> DEFINE s == job[r].stage
<1>0. /\ job[r] \in Conflict!Jobs /\ ConflictJob(job[r]) /\ s \in Conflict!Stages
      /\ job \in [Runners -> Conflict!Jobs] /\ sent \in [Conflict!Stages -> Nat]
  BY ConflictKnows DEF ConflictInv, ConflictStore
<1>1. store.claim[s] # 0 /\ sent[s] = 0
  BY <1>0 DEF ConflictJob, Conflict!At, Dispatching
<1>2. /\ job'[r].pc = "AWAIT" /\ job'[r].stage = s /\ job[r].pc = "SEND"
      /\ \A x \in Runners : x # r => job'[x] = job[x]
  BY <1>0 DEF Conflict!Goto, Conflict!At, Conflict!Jobs
<1>3. \A t \in Conflict!Stages : Conflict!Awaited(t)' <=> Conflict!Awaited(t)
  BY <1>2 DEF Conflict!Awaited
<1>4. ConflictReserved' = ConflictReserved /\ ConflictAnswer' = ConflictAnswer
  BY <1>3 DEF ConflictReserved, ConflictAnswer, ConflictSays, Conflict!Answered, Conflict!Closed
<1>5. s \in ConflictReserved /\ sent' = [sent EXCEPT ![s] = 1]
  BY <1>0, <1>1 DEF ConflictReserved
<1>6. ~Conflict!Answered(s)
  BY <1>0, <1>1, ConflictKnows DEF ConflictInv, ConflictStore, ConflictFacts, Conflict!Answered,
      Conflict!Stages
<1>7. ConflictAnswer[s] \in {"OPEN", "LOST"}
  BY <1>0, <1>6 DEF ConflictAnswer, ConflictSays
<1>8. Conflict!CallsOnce!Send(s)
  BY <1>0, <1>1, <1>4, <1>5, <1>7, ConflictMapping
<1> QED BY <1>0, <1>8 DEF ConflictCalls, Conflict!CallsOnce!Next

(* An answer that is recorded: of stage s, while the escalation is open. *)
LEMMA ConflictSettlesCall ==
    ASSUME ConflictInv, ConflictInv', NEW s \in Conflict!Stages, UNCHANGED sent,
           store'.claim = store.claim, store.claim[s] # 0, sent[s] = 1,
           store.outcome = "NONE", store'.outcome = "NONE",
           ~Conflict!Answered(s), Conflict!Answered(s)',
           \A t \in Conflict!Stages : t # s => (Conflict!Answered(t)' <=> Conflict!Answered(t))
    PROVE  ConflictCalls
<1>1. ConflictReserved' = ConflictReserved /\ s \in ConflictReserved
  BY DEF ConflictReserved
<1>2. /\ ConflictSays(s) = "OPEN" /\ ConflictSays(s)' = "OK"
      /\ \A t \in Conflict!Stages : t # s => ConflictSays(t)' = ConflictSays(t)
  BY DEF ConflictSays, Conflict!Closed
<1>3. ConflictAnswer' = [ConflictAnswer EXCEPT ![s] = "OK"] /\ ConflictAnswer[s] = "OPEN"
  BY <1>2 DEF ConflictAnswer
<1>4. Conflict!CallsOnce!Settle(s, "OK")
  BY <1>1, <1>3, ConflictMapping
<1> QED BY <1>4 DEF ConflictCalls, Conflict!CallsOnce!Next

LEMMA ConflictTurns ==
    ASSUME ConflictInv, NEW r \in Runners
    PROVE  /\ Conflict!Stop(r) => ConflictRests(r)
           /\ \A s, code, allow : Conflict!Degrade(r, s, code, allow) => ConflictRests(r)
           /\ \A o, t : Conflict!Begin(r, o, t) => ConflictRests(r)
           /\ \A v : Conflict!Resume(r, v) => ConflictRests(r)
           /\ \A pc, s, v : pc \notin {"SEND", "AWAIT"} /\ Conflict!Goto(r, pc, s, v)
                              => ConflictRests(r)
           /\ Conflict!Unwind(r) => ConflictRests(r)
<1>0. job \in [Runners -> Conflict!Jobs] /\ job[r] \in Conflict!Jobs
  BY DEF ConflictInv
<1>1. Conflict!Stop(r) => ConflictRests(r)
  BY <1>0 DEF Conflict!Stop, Conflict!Idle, ConflictRests
<1>2. ASSUME NEW s, NEW code, NEW allow, Conflict!Degrade(r, s, code, allow) PROVE ConflictRests(r)
  BY <1>0, <1>2 DEF Conflict!Degrade, Conflict!Idle, ConflictRests
<1>3. ASSUME NEW o, NEW t, Conflict!Begin(r, o, t) PROVE ConflictRests(r)
  BY <1>0, <1>3 DEF Conflict!Begin, Conflict!Idle, ConflictRests
<1>4. ASSUME NEW v, Conflict!Resume(r, v) PROVE ConflictRests(r)
  BY <1>0, <1>4 DEF Conflict!Resume, Conflict!Idle, ConflictRests
<1>5. ASSUME NEW pc, NEW s, NEW v, pc \notin {"SEND", "AWAIT"}, Conflict!Goto(r, pc, s, v)
      PROVE  ConflictRests(r)
  BY <1>0, <1>5 DEF Conflict!Goto, Conflict!Jobs, ConflictRests
<1>6. Conflict!Unwind(r) => ConflictRests(r)
  BY <1>1, <1>2 DEF Conflict!Unwind
<1> QED BY <1>1, <1>2, <1>3, <1>4, <1>5, <1>6

LEMMA ConflictQuietSteps ==
    ASSUME ConflictInv, NEW r \in Runners,
           \/ Conflict!RunAutomatic(r) \/ Conflict!Escalate(r) \/ Conflict!Recover(r)
           \/ Conflict!Answer(r) \/ Conflict!NoAnswer(r) \/ Conflict!RunnerFails(r)
           \/ Conflict!AppendReadyOutcome(r) \/ Conflict!PersistDegraded(r)
           \/ Conflict!AppendDegradedOutcome(r) \/ Conflict!AppendOperatorDecision(r)
           \/ Conflict!AppendExecutionCommand(r) \/ Conflict!SubmitPlanCommand(r)
           \/ Conflict!Crash(r)
    PROVE  ConflictQuiet
<1> USE ConflictTurns DEF ConflictQuiet
<1>0. store \in Conflict!Stores
  BY ConflictKnows
<1>1. CASE Conflict!RunAutomatic(r)
  BY <1>1 DEF Conflict!RunAutomatic, Conflict!Closed
<1>2. CASE Conflict!Escalate(r)
  <2>1. ConflictRests(r)
    BY <1>2 DEF Conflict!Escalate
  <2> QED BY <1>0, <1>2, <2>1 DEF Conflict!Escalate, Conflict!Escalated, Conflict!Appended,
            Conflict!Stores, Conflict!Closed
<1>3. CASE Conflict!Recover(r)
  <2>1. \/ Conflict!Stop(r)
        \/ \E s, code, allow : Conflict!Degrade(r, s, code, allow)
        \/ \E pc \in {"READY", "CLAIM"} : \E s, v : Conflict!Goto(r, pc, s, v)
    BY <1>3, Zenon DEF Conflict!Recover
  <2>2. ConflictRests(r)
    BY <2>1
  <2> QED BY <1>3, <2>2 DEF Conflict!Recover, Conflict!Closed
<1>4. CASE Conflict!Answer(r)
  <2>1. \/ \E s, code, allow : Conflict!Degrade(r, s, code, allow)
        \/ \E pc \in {"RECORD"} : \E s, v : Conflict!Goto(r, pc, s, v)
    BY <1>4, Zenon DEF Conflict!Answer
  <2>2. ConflictRests(r)
    BY <2>1
  <2> QED BY <1>4, <2>2 DEF Conflict!Answer, Conflict!Closed
<1>5. CASE Conflict!NoAnswer(r)
  <2>1. ConflictRests(r)
    BY <1>5 DEF Conflict!NoAnswer
  <2> QED BY <1>5, <2>1 DEF Conflict!NoAnswer, Conflict!Closed
<1>6. CASE Conflict!RunnerFails(r)
  BY <1>6 DEF Conflict!RunnerFails, Conflict!Closed
<1>7. CASE Conflict!AppendReadyOutcome(r)
  <2>1. ConflictRests(r)
    BY <1>7 DEF Conflict!AppendReadyOutcome
  <2> QED BY <1>0, <1>7, <2>1 DEF Conflict!AppendReadyOutcome, Conflict!Appended, Conflict!Stores,
            Conflict!Closed
<1>8. CASE Conflict!PersistDegraded(r)
  <2>1. ConflictRests(r)
    BY <1>8 DEF Conflict!PersistDegraded
  <2> QED BY <1>8, <2>1 DEF Conflict!PersistDegraded, Conflict!Closed
<1>9. CASE Conflict!AppendDegradedOutcome(r)
  <2>1. ConflictRests(r)
    <3>1. CASE job' = [job EXCEPT ![r].pc = "CLOSE", ![r].again = FALSE]
      BY <3>1 DEF ConflictRests, ConflictInv, Conflict!Jobs
    <3> QED BY <1>9, <3>1 DEF Conflict!AppendDegradedOutcome
  <2> QED BY <1>0, <1>9, <2>1 DEF Conflict!AppendDegradedOutcome, Conflict!Appended, Conflict!Stores,
            Conflict!Closed
<1>10. CASE Conflict!AppendOperatorDecision(r)
  <2>1. ConflictRests(r)
    BY <1>10 DEF Conflict!AppendOperatorDecision
  <2> QED BY <1>0, <1>10, <2>1 DEF Conflict!AppendOperatorDecision, Conflict!Appended,
            Conflict!Stores, Conflict!Closed
<1>11. CASE Conflict!AppendExecutionCommand(r)
  <2>1. ConflictRests(r)
    BY <1>11 DEF Conflict!AppendExecutionCommand
  <2> QED BY <1>0, <1>11, <2>1 DEF Conflict!AppendExecutionCommand, Conflict!Appended,
            Conflict!Stores, Conflict!Closed
<1>12. CASE Conflict!SubmitPlanCommand(r)
  BY <1>0, <1>12 DEF Conflict!SubmitPlanCommand, Conflict!Stores, Conflict!Closed
<1>13. CASE Conflict!Crash(r)
  BY <1>13 DEF Conflict!Crash, Conflict!Closed
<1> QED BY <1>1, <1>2, <1>3, <1>4, <1>5, <1>6, <1>7, <1>8, <1>9, <1>10, <1>11, <1>12, <1>13

LEMMA ConflictQuietOperators ==
    ASSUME ConflictInv, NEW o \in Operators,
           \/ Conflict!RenewLock(o) \/ Conflict!ReleaseLock(o) \/ Conflict!AdvanceView(o)
           \/ \E r \in Runners : Conflict!RunRequested(r, o)
                 \/ \E kind \in Conflict!Kinds : Conflict!SubmitDecision(r, o, kind)
    PROVE  ConflictQuiet
<1> USE DEF ConflictQuiet
<1>0. store \in Conflict!Stores
  BY DEF ConflictInv, ConflictStore
<1>1. /\ Conflict!Acquired(o).claim = store.claim /\ Conflict!Acquired(o).analysis = store.analysis
      /\ Conflict!Acquired(o).proposal = store.proposal
      /\ Conflict!Acquired(o).outcome = store.outcome /\ Conflict!Acquired(o).view = store.view
  BY <1>0 DEF Conflict!Acquired, Conflict!Stores
<1>2. CASE Conflict!RenewLock(o) \/ Conflict!ReleaseLock(o)
  BY <1>0, <1>2 DEF Conflict!RenewLock, Conflict!Renewed, Conflict!ReleaseLock, Conflict!Released,
      Conflict!Stores, Conflict!Closed
<1>3. CASE Conflict!AdvanceView(o)
  <2>1. PICK h \in Operators \cup {NoOne}, t \in 0..MaxToken, u \in Nat :
          Conflict!Acquired(o) = [store EXCEPT !.holder = h, !.token = t, !.until = u]
    BY <1>3, ConflictLeaseOf DEF Conflict!AdvanceView
  <2> DEFINE x == Conflict!Acquired(o)
             y == Conflict!Appended(x)
  <2>2. x \in Conflict!Stores
    BY <1>0, <2>1 DEF Conflict!Stores
  <2>3. store' = [y EXCEPT !.view = "REVIEW"] /\ UNCHANGED <<sent, job>>
    BY <1>3 DEF Conflict!AdvanceView, Conflict!InReview
  <2>4. /\ x.claim = store.claim /\ x.analysis = store.analysis /\ x.proposal = store.proposal
        /\ x.outcome = store.outcome
    BY <1>1
  <2> HIDE DEF x
  <2>5. y \in Conflict!Stores /\ y = [x EXCEPT !.version = x.version + 1]
    BY <2>2, ConflictAppended
  <2> HIDE DEF y
  <2> QED BY <2>2, <2>3, <2>4, <2>5 DEF Conflict!Stores, Conflict!Closed
<1>4. ASSUME NEW r \in Runners, Conflict!RunRequested(r, o) PROVE ConflictQuiet
  <2>1. ConflictRests(r) \/ UNCHANGED job
    BY <1>4, ConflictTurns DEF Conflict!RunRequested, Conflict!BeginRequested
  <2> QED BY <1>1, <1>4, <2>1 DEF Conflict!RunRequested, Conflict!Closed
<1>5. ASSUME NEW r \in Runners, NEW kind \in Conflict!Kinds, Conflict!SubmitDecision(r, o, kind)
      PROVE  ConflictQuiet
  <2>1. ConflictRests(r) \/ UNCHANGED job
    <3>1. PICK t : t = store'.token
      OBVIOUS
    <3>2. Conflict!Compile(r, o, t, kind)
      BY <1>5, <3>1 DEF Conflict!SubmitDecision
    <3> QED BY <3>2 DEF Conflict!Compile, Conflict!Idle, ConflictRests, ConflictInv
  <2> QED BY <1>1, <1>5, <2>1 DEF Conflict!SubmitDecision, Conflict!Closed
<1> QED BY <1>2, <1>3, <1>4, <1>5

LEMMA ConflictDispatches ==
    ASSUME ConflictInv, ConflictInv', NEW r \in Runners,
           \/ Conflict!ClaimAnalyst(r) \/ Conflict!ClaimPlanner(r) \/ Conflict!Send(r)
           \/ Conflict!AppendConflictAnalysis(r) \/ Conflict!AppendProposal(r)
    PROVE  ConflictCalls
<1>0. /\ job[r] \in Conflict!Jobs /\ ConflictJob(job[r]) /\ store \in Conflict!Stores
      /\ "ANALYST" \in Conflict!Stages /\ "PLANNER" \in Conflict!Stages
  BY ConflictKnows
<1>1. ASSUME UNCHANGED <<store, sent>>, ConflictRests(r) PROVE ConflictCalls
  BY <1>1, ConflictQuietCalls DEF ConflictQuiet, Conflict!Closed
<1>2. ASSUME NEW s \in Conflict!Stages, job[r].stage = s, Conflict!At(r, "CLAIM"), UNCHANGED sent,
             Conflict!TakeClaim(r, s)
      PROVE  ConflictCalls
  <2>1. CASE Conflict!MayClaim(s) /\ store' = Conflict!Claimed(s)
             /\ Conflict!Goto(r, "SEND", s, job[r].version)
    BY <1>2, <2>1, ConflictTakesCall
  <2>2. CASE UNCHANGED store /\ ConflictRests(r)
    BY <1>1, <1>2, <2>2
  <2> QED BY <1>2, <2>1, <2>2, ConflictTurns DEF Conflict!TakeClaim
<1>3. CASE Conflict!ClaimAnalyst(r)
  <2>1. CASE Conflict!TakeClaim(r, "ANALYST")
    BY <1>0, <1>2, <1>3, <2>1 DEF Conflict!ClaimAnalyst
  <2>2. CASE Conflict!Degrade(r, "ANALYST", "OTHER", FALSE) /\ UNCHANGED store
    BY <1>1, <1>3, <2>2, ConflictTurns DEF Conflict!ClaimAnalyst
  <2> QED BY <1>3, <2>1, <2>2 DEF Conflict!ClaimAnalyst
<1>4. CASE Conflict!ClaimPlanner(r)
  <2>1. CASE Conflict!TakeClaim(r, "PLANNER")
    BY <1>0, <1>2, <1>4, <2>1 DEF Conflict!ClaimPlanner
  <2>2. CASE ConflictRests(r) /\ UNCHANGED store
    BY <1>1, <1>4, <2>2 DEF Conflict!ClaimPlanner
  <2> QED BY <1>4, <2>1, <2>2, ConflictTurns DEF Conflict!ClaimPlanner
<1>5. CASE Conflict!Send(r)
  <2>1. CASE sent' = [sent EXCEPT ![job[r].stage] = @ + 1]
             /\ Conflict!Goto(r, "AWAIT", job[r].stage, job[r].version)
    BY <1>5, <2>1, ConflictSendsCall DEF Conflict!Send
  <2>2. CASE UNCHANGED sent /\ ConflictRests(r)
    BY <1>1, <1>5, <2>2 DEF Conflict!Send
  <2> QED BY <1>5, <2>1, <2>2, ConflictTurns DEF Conflict!Send
<1>6. CASE Conflict!AppendConflictAnalysis(r)
  <2>1. CASE Conflict!Unwind(r) /\ UNCHANGED store
    BY <1>1, <1>6, <2>1, ConflictTurns DEF Conflict!AppendConflictAnalysis
  <2>2. CASE /\ Conflict!MayAnalyse(r)
             /\ store' = [Conflict!Appended(store) EXCEPT !.analysis = TRUE]
    <3>1. /\ store'.claim = store.claim /\ store'.analysis = TRUE
          /\ store'.proposal = store.proposal /\ store'.outcome = store.outcome
      BY <1>0, <2>2 DEF Conflict!Appended, Conflict!Stores
    <3>2. /\ ~store.analysis /\ store.outcome = "NONE" /\ UNCHANGED sent
          /\ store.claim["ANALYST"] # 0 /\ sent["ANALYST"] = 1
      BY <1>0, <1>6, <2>2 DEF Conflict!MayAnalyse, Conflict!Closed, ConflictJob, Dispatching,
          Conflict!AppendConflictAnalysis, Conflict!At
    <3> QED BY <1>0, <3>1, <3>2, ConflictSettlesCall DEF Conflict!Answered, Conflict!Stages
  <2> QED BY <1>6, <2>1, <2>2 DEF Conflict!AppendConflictAnalysis
<1>7. CASE Conflict!AppendProposal(r)
  <2>1. CASE Conflict!Unwind(r) /\ UNCHANGED store
    BY <1>1, <1>7, <2>1, ConflictTurns DEF Conflict!AppendProposal
  <2>2. CASE /\ Conflict!MayPropose(r)
             /\ store' = [Conflict!Appended(store) EXCEPT !.proposal = TRUE]
    <3>1. /\ store'.claim = store.claim /\ store'.analysis = store.analysis
          /\ store'.proposal = TRUE /\ store'.outcome = store.outcome
      BY <1>0, <2>2 DEF Conflict!Appended, Conflict!Stores
    <3>2. /\ ~store.proposal /\ store.outcome = "NONE" /\ UNCHANGED sent
          /\ store.claim["PLANNER"] # 0 /\ sent["PLANNER"] = 1
      BY <1>0, <1>7, <2>2 DEF Conflict!MayPropose, Conflict!ContinuesLineage, Conflict!Current,
          Conflict!Closed, ConflictJob, Dispatching, Conflict!AppendProposal, Conflict!At
    <3> QED BY <1>0, <3>1, <3>2, ConflictSettlesCall DEF Conflict!Answered, Conflict!Stages
  <2> QED BY <1>7, <2>1, <2>2 DEF Conflict!AppendProposal
<1> QED BY <1>3, <1>4, <1>5, <1>6, <1>7

LEMMA ConflictRefines ==
    ASSUME ConflictInv, ConflictInv', Conflict!Next
    PROVE  ConflictCalls
<1>1. CASE Conflict!Tick
  BY <1>1, ConflictQuietCalls DEF Conflict!Tick, ConflictQuiet, Conflict!Closed
<1>2. ASSUME NEW r \in Runners, ConflictQuiet PROVE ConflictCalls
  BY <1>2, ConflictQuietCalls
<1> QED BY <1>1, ConflictQuietCalls, ConflictQuietSteps, ConflictQuietOperators, ConflictDispatches
        DEF Conflict!Next

-----------------------------------------------------------------------------
(* What people confirm as memory.                                          *)

(* What a process that is at step j.step has behind it.                    *)
PromotionJob(o, j) ==
    /\ Promotions!IsEligible(j.candidate)
    /\ j.step # "eligible" => claimed[j.command] = j.candidate
    /\ j.step \in {"clear", "written"} => reservation = o
    /\ j.step = "clear" => \A k \in store : {k, j.candidate} \notin Opposed
    /\ j.step = "written" => j.candidate \in store
    /\ j.step \in {"decided", "promoted"} => j.verdict \in Promotions!Verdicts
    /\ j.step \in {"decided", "promoted"} /\ j.verdict = "APPLIED" => status[j.candidate] = "APPLIED"
    /\ j.step \in {"decided", "promoted"} /\ j.verdict = "CONFLICT" =>
          Promotions!HasActiveConflict(j.candidate)
    /\ j.step = "promoted" => results[j.command] = j.verdict

PromotionJobs == \A o \in Runners : job[o] # NoOne => PromotionJob(o, job[o])

(* What the results of commands rest on.                                   *)
PromotionTold == \A m \in Runs :
    /\ results[m] # NoOne => claimed[m] # NoOne
    /\ results[m] = "APPLIED" => status[claimed[m]] = "APPLIED"
    /\ results[m] = "CONFLICT" => Promotions!HasActiveConflict(claimed[m])
    /\ conclusions[m] # NoOne => conclusions[m] = results[m]

PromotionRows ==
    /\ Promotions!TypeOK
    /\ Promotions!NoOpposedMemories /\ Promotions!MemoriesAreBacked /\ PromotionTold

PromotionInv == PromotionRows /\ PromotionJobs

-----------------------------------------------------------------------------
LEMMA PromotionInit ==
    ASSUME Promotions!Init
    PROVE  PromotionInv
<1> USE DEF Promotions!Init
<1>1. Promotions!TypeOK
  BY DEF Promotions!TypeOK, Promotions!Version
<1>2. Promotions!NoOpposedMemories /\ Promotions!MemoriesAreBacked
  BY DEF Promotions!NoOpposedMemories, Promotions!MemoriesAreBacked
<1>3. PromotionTold /\ PromotionJobs
  BY PromotionAssumption DEF PromotionTold, PromotionJobs, Promotions!Verdicts
<1> QED BY <1>1, <1>2, <1>3 DEF PromotionInv, PromotionRows

(* What process o does takes nothing back that another one relies on, and  *)
(* memories are written by the holder of the lock only.                    *)
PromotionGrows(o) ==
    /\ \A k \in Reviewed : Promotions!IsEligible(k) => Promotions!IsEligible(k)'
    /\ \A m \in Runs : claimed[m] # NoOne => claimed'[m] = claimed[m]
    /\ \A k \in Reviewed : status[k] = "APPLIED" => status'[k] = "APPLIED"
    /\ store \subseteq store'
    /\ \A q \in Runners : q # o /\ reservation = q => reservation' = q /\ store' = store
    /\ blocked => blocked'
    /\ \A m \in Runs : results[m] # NoOne => results'[m] = results[m]

LEMMA PromotionJobStays ==
    ASSUME PromotionInv, NEW o, PromotionGrows(o), NEW q \in Runners, q # o, job[q] # NoOne,
           job'[q] = job[q]
    PROVE  PromotionJob(q, job[q])'
<1>1. PICK j \in Promotions!Jobs : j = job[q]
  BY DEF PromotionInv, PromotionRows, Promotions!TypeOK
<1>2. PromotionJob(q, j)
  BY <1>1 DEF PromotionInv, PromotionJobs
<1>3. j.candidate \in Reviewed /\ j.command \in Runs
  BY DEF Promotions!Jobs
<1>4. Promotions!HasActiveConflict(j.candidate) => Promotions!HasActiveConflict(j.candidate)'
  BY DEF PromotionGrows, Promotions!HasActiveConflict
<1>5. Promotions!IsEligible(j.candidate)'
  BY <1>2, <1>3 DEF PromotionGrows, PromotionJob
<1>6. j.step # "eligible" => claimed'[j.command] = j.candidate
  BY <1>2, <1>3, PromotionAssumption DEF PromotionGrows, PromotionJob
<1>7. j.step \in {"clear", "written"} => reservation' = q /\ store' = store
  BY <1>2 DEF PromotionGrows, PromotionJob
<1>8. j.step = "promoted" => results'[j.command] = j.verdict
  BY <1>2, <1>3, PromotionAssumption DEF PromotionGrows, PromotionJob
<1> QED BY <1>1, <1>2, <1>3, <1>4, <1>5, <1>6, <1>7, <1>8 DEF PromotionJob, PromotionGrows

LEMMA PromotionMoves ==
    ASSUME PromotionInv, PromotionRows', NEW o \in Runners, PromotionGrows(o),
           NEW j \in Promotions!Jobs \cup {NoOne}, job' = [job EXCEPT ![o] = j],
           j # NoOne => PromotionJob(o, j)'
    PROVE  PromotionInv'
<1> SUFFICES ASSUME NEW q \in Runners, job'[q] # NoOne PROVE PromotionJob(q, job[q])'
  BY DEF PromotionInv, PromotionJobs
<1>0. job \in [Runners -> Promotions!Jobs \cup {NoOne}]
  BY DEF PromotionInv, PromotionRows, Promotions!TypeOK
<1>1. CASE q = o
  <2>1. job'[q] = j
    BY <1>0, <1>1
  <2> QED BY <1>1, <2>1 DEF PromotionJob
<1>2. CASE q # o
  <2>1. job'[q] = job[q]
    BY <1>0, <1>2
  <2> QED BY <1>2, <2>1, PromotionJobStays
<1> QED BY <1>1, <1>2

(* Rows that are left alone, or only taken up by another kind of memory.   *)
LEMMA PromotionRowsKept ==
    ASSUME PromotionInv, UNCHANGED <<status, fact, claimed, results, conclusions, store>>,
           blocked' \in BOOLEAN, blocked => blocked', reservation' \in Runners \cup {NoOne},
           NEW o, reservation' = reservation \/ reservation \in {o, NoOne},
           job' \in [Runners -> Promotions!Jobs \cup {NoOne}]
    PROVE  PromotionRows' /\ PromotionGrows(o)
<1>1. Promotions!TypeOK'
  BY DEF PromotionInv, PromotionRows, Promotions!TypeOK
<1>2. \A k \in Reviewed : Promotions!IsEligible(k)' <=> Promotions!IsEligible(k)
  BY DEF Promotions!IsEligible
<1>3. Promotions!MemoriesAreBacked'
  BY <1>2 DEF PromotionInv, PromotionRows, Promotions!MemoriesAreBacked, Promotions!IsEligible
<1>4. Promotions!NoOpposedMemories'
  BY DEF PromotionInv, PromotionRows, Promotions!NoOpposedMemories
<1>5. PromotionTold'
  BY DEF PromotionInv, PromotionRows, PromotionTold, Promotions!HasActiveConflict
<1>6. PromotionGrows(o)
  BY <1>2, PromotionAssumption DEF PromotionGrows
<1> QED BY <1>1, <1>3, <1>4, <1>5, <1>6 DEF PromotionRows

LEMMA PromotionJobType ==
    ASSUME PromotionInv, NEW o \in Runners
    PROVE  /\ job \in [Runners -> Promotions!Jobs \cup {NoOne}]
           /\ reservation \in Runners \cup {NoOne}
           /\ blocked \in BOOLEAN
           /\ job[o] # NoOne => job[o] \in Promotions!Jobs /\ PromotionJob(o, job[o])
BY DEF PromotionInv, PromotionRows, PromotionJobs, Promotions!TypeOK

(* A process that stops or moves on beside unchanged rows.                 *)
LEMMA PromotionMovesAlone ==
    ASSUME PromotionInv, UNCHANGED <<status, fact, claimed, results, conclusions, store, blocked>>,
           NEW o \in Runners, reservation' \in Runners \cup {NoOne},
           reservation' = reservation \/ reservation \in {o, NoOne},
           NEW j \in Promotions!Jobs \cup {NoOne}, job' = [job EXCEPT ![o] = j],
           j # NoOne => PromotionJob(o, j)'
    PROVE  PromotionInv'
<1>1. job' \in [Runners -> Promotions!Jobs \cup {NoOne}]
  BY PromotionJobType
<1>2. blocked' \in BOOLEAN
  BY PromotionJobType
<1> QED BY <1>1, <1>2, PromotionRowsKept, PromotionMoves

LEMMA PromotionStops ==
    ASSUME PromotionInv, UNCHANGED <<status, fact, claimed, results, conclusions, store, blocked>>,
           NEW o \in Runners, Promotions!Stop(o), Promotions!LeaveScope(o) \/ UNCHANGED reservation
    PROVE  PromotionInv'
<1>1. job' = [job EXCEPT ![o] = NoOne]
  BY DEF Promotions!Stop
<1>2. /\ reservation' \in Runners \cup {NoOne}
      /\ reservation' = reservation \/ reservation \in {o, NoOne}
  BY PromotionJobType DEF Promotions!LeaveScope
<1> QED BY <1>1, <1>2, PromotionMovesAlone

LEMMA PromotionCrash ==
    ASSUME PromotionInv, NEW o \in Runners, Promotions!Crash(o)
    PROVE  PromotionInv'
BY PromotionStops DEF Promotions!Crash

(* Moves of a job that keep its command and its candidate.                 *)
LEMMA PromotionFields ==
    ASSUME PromotionInv, NEW o \in Runners, job[o] # NoOne,
           NEW step \in Promotions!Steps, NEW verdict \in Promotions!Verdicts
    PROVE  /\ Promotions!Move(o, step) =>
                \E j \in Promotions!Jobs :
                    /\ job' = [job EXCEPT ![o] = j]
                    /\ j.step = step /\ j.command = job[o].command
                    /\ j.candidate = job[o].candidate /\ j.verdict = job[o].verdict
           /\ Promotions!Decide(o, step, verdict) =>
                \E j \in Promotions!Jobs :
                    /\ job' = [job EXCEPT ![o] = j]
                    /\ j.step = step /\ j.command = job[o].command
                    /\ j.candidate = job[o].candidate /\ j.verdict = verdict
<1> DEFINE j1 == [job[o] EXCEPT !.step = step]
           j2 == [job[o] EXCEPT !.step = step, !.verdict = verdict]
<1>0. job[o] \in Promotions!Jobs /\ job \in [Runners -> Promotions!Jobs \cup {NoOne}]
  BY PromotionJobType
<1>1. /\ j1 \in Promotions!Jobs
      /\ j1.step = step /\ j1.command = job[o].command
      /\ j1.candidate = job[o].candidate /\ j1.verdict = job[o].verdict
  BY <1>0 DEF Promotions!Jobs
<1>2. /\ j2 \in Promotions!Jobs
      /\ j2.step = step /\ j2.command = job[o].command
      /\ j2.candidate = job[o].candidate /\ j2.verdict = verdict
  BY <1>0 DEF Promotions!Jobs
<1>3. Promotions!Move(o, step) => job' = [job EXCEPT ![o] = j1]
  BY <1>0 DEF Promotions!Move
<1>4. Promotions!Decide(o, step, verdict) => job' = [job EXCEPT ![o] = j2]
  BY <1>0 DEF Promotions!Decide
<1> HIDE DEF j1, j2
<1> QED BY <1>1, <1>2, <1>3, <1>4

(* A candidate that changes its status without being applied.              *)
LEMMA PromotionStatusChanges ==
    ASSUME PromotionInv, UNCHANGED <<fact, claimed, results, conclusions, store, blocked, reservation>>,
           status' \in [Reviewed -> DOMAIN Promotions!Version],
           \A x \in Reviewed : status'[x] = "APPLIED" <=> status[x] = "APPLIED",
           job' \in [Runners -> Promotions!Jobs \cup {NoOne}]
    PROVE  PromotionRows'
<1>1. Promotions!TypeOK'
  BY DEF PromotionInv, PromotionRows, Promotions!TypeOK
<1>2. Promotions!MemoriesAreBacked' /\ Promotions!NoOpposedMemories'
  BY DEF PromotionInv, PromotionRows, Promotions!NoOpposedMemories, Promotions!MemoriesAreBacked,
      Promotions!IsEligible
<1>3. PromotionTold'
  <2>1. \A m \in Runs : results[m] # NoOne => claimed[m] \in Reviewed
    BY PromotionAssumption DEF PromotionInv, PromotionRows, PromotionTold, Promotions!TypeOK
  <2>2. \A m \in Runs : results[m] = "APPLIED" => status'[claimed[m]] = "APPLIED"
    BY <2>1, PromotionAssumption DEF PromotionInv, PromotionRows, PromotionTold, Promotions!Verdicts
  <2>3. \A m \in Runs : results[m] = "CONFLICT" => Promotions!HasActiveConflict(claimed[m])'
    BY DEF PromotionInv, PromotionRows, PromotionTold, Promotions!HasActiveConflict
  <2> QED BY <2>2, <2>3 DEF PromotionInv, PromotionRows, PromotionTold
<1> QED BY <1>1, <1>2, <1>3 DEF PromotionRows

LEMMA PromotionStage ==
    ASSUME PromotionInv, NEW k \in Reviewed, Promotions!Stage(k)
    PROVE  PromotionInv'
<1>0. /\ status \in [Reviewed -> DOMAIN Promotions!Version] /\ status[k] = "ABSENT"
      /\ status' = [status EXCEPT ![k] = "STAGED"]
      /\ UNCHANGED <<fact, claimed, results, conclusions, store, blocked, reservation, job>>
  BY DEF Promotions!Stage, PromotionInv, PromotionRows, Promotions!TypeOK
<1>1. status' \in [Reviewed -> DOMAIN Promotions!Version]
  BY <1>0 DEF Promotions!Version
<1>2. \A x \in Reviewed : status'[x] = "APPLIED" <=> status[x] = "APPLIED"
  BY <1>0
<1>3. PromotionRows'
  <2>1. job' \in [Runners -> Promotions!Jobs \cup {NoOne}]
    BY <1>0 DEF PromotionInv, PromotionRows, Promotions!TypeOK
  <2> QED BY <1>0, <1>1, <1>2, <2>1, PromotionStatusChanges
<1>4. PromotionJobs'
  <2> SUFFICES ASSUME NEW q \in Runners, job[q] # NoOne PROVE PromotionJob(q, job[q])'
    BY <1>0 DEF PromotionJobs
  <2>1. PromotionJob(q, job[q]) /\ job[q].candidate \in Reviewed
    BY PromotionJobType DEF Promotions!Jobs
  <2> QED BY <1>0, <1>2, <2>1 DEF PromotionJob, Promotions!IsEligible, Promotions!HasActiveConflict
<1> QED BY <1>3, <1>4 DEF PromotionInv

LEMMA PromotionOther ==
    ASSUME PromotionInv, Promotions!WriteOtherMemory
    PROVE  PromotionInv'
<1>0. blocked' = TRUE /\ UNCHANGED <<status, fact, claimed, results, conclusions, store, reservation, job>>
  BY DEF Promotions!WriteOtherMemory
<1>1. reservation' \in Runners \cup {NoOne} /\ job' \in [Runners -> Promotions!Jobs \cup {NoOne}]
  BY <1>0 DEF PromotionInv, PromotionRows, Promotions!TypeOK
<1>2. PromotionRows' /\ PromotionGrows(NoOne)
  BY <1>0, <1>1, PromotionRowsKept
<1>3. PromotionJobs'
  BY <1>0, <1>2, PromotionJobStays, PromotionAssumption DEF PromotionJobs
<1> QED BY <1>2, <1>3 DEF PromotionInv

LEMMA PromotionEligibility ==
    ASSUME PromotionInv, NEW o \in Runners, NEW k \in Reviewed, NEW m \in Runs,
           NEW found \in {"STAGED", "ELIGIBLE"}, Promotions!RecordEligibility(o, k, m, found)
    PROVE  PromotionInv'
<1> DEFINE new == [command |-> m, status |-> found]
           j == [step |-> "eligible", command |-> m, candidate |-> k, verdict |-> NoOne]
<1>0. /\ fact \in [Reviewed -> Promotions!Facts \cup {NoOne}]
      /\ fact[k] = NoOne \/ fact[k] = new
      /\ fact' = [fact EXCEPT ![k] = new] /\ new \in Promotions!Facts
      /\ UNCHANGED <<status, claimed, results, conclusions, store, blocked, reservation>>
  BY DEF Promotions!RecordEligibility, PromotionInv, PromotionRows, Promotions!TypeOK, Promotions!Facts
<1>1. fact' \in [Reviewed -> Promotions!Facts \cup {NoOne}]
  BY <1>0
<1>2. \A x \in Reviewed : Promotions!IsEligible(x) => Promotions!IsEligible(x)'
  BY <1>0 DEF Promotions!IsEligible
<1>3. PromotionGrows(o)
  BY <1>0, <1>2 DEF PromotionGrows
<1>4. (PromotionJob(o, j)' /\ j \in Promotions!Jobs) \/ found = "STAGED"
  <2>1. found = "ELIGIBLE" => Promotions!IsEligible(k)'
    BY <1>0, PromotionAssumption DEF Promotions!IsEligible
  <2>2. j \in Promotions!Jobs
    BY DEF Promotions!Jobs, Promotions!Steps
  <2> QED BY <2>1, <2>2 DEF PromotionJob
<1>5. \/ job' = [job EXCEPT ![o] = j] /\ found = "ELIGIBLE"
      \/ job' = job
  BY DEF Promotions!RecordEligibility
<1> HIDE DEF j, new
<1>6. job' \in [Runners -> Promotions!Jobs \cup {NoOne}]
  BY <1>4, <1>5, PromotionJobType
<1>7. PromotionRows'
  <2>1. Promotions!TypeOK'
    BY <1>0, <1>1, <1>6 DEF PromotionInv, PromotionRows, Promotions!TypeOK
  <2>2. Promotions!MemoriesAreBacked'
    BY <1>0, <1>2 DEF PromotionInv, PromotionRows, Promotions!TypeOK, Promotions!MemoriesAreBacked
  <2> QED BY <1>0, <2>1, <2>2 DEF PromotionInv, PromotionRows, Promotions!NoOpposedMemories,
          PromotionTold, Promotions!HasActiveConflict
<1>8. CASE job' = job
  <2>1. PromotionJobs'
    <3> SUFFICES ASSUME NEW q \in Runners, job[q] # NoOne PROVE PromotionJob(q, job[q])'
      BY <1>8 DEF PromotionJobs
    <3>1. PromotionJob(q, job[q]) /\ job[q].candidate \in Reviewed
      BY PromotionJobType DEF Promotions!Jobs
    <3> QED BY <1>0, <1>2, <1>8, <3>1 DEF PromotionJob, Promotions!HasActiveConflict
  <2> QED BY <1>7, <2>1 DEF PromotionInv
<1>9. CASE job' = [job EXCEPT ![o] = j] /\ found = "ELIGIBLE"
  BY <1>3, <1>4, <1>7, <1>9, PromotionMoves
<1> QED BY <1>5, <1>8, <1>9

LEMMA PromotionBecomes ==
    ASSUME PromotionInv, NEW o \in Runners, Promotions!BecomeEligible(o)
    PROVE  PromotionInv'
<1>0. /\ status \in [Reviewed -> DOMAIN Promotions!Version]
      /\ job' = [job EXCEPT ![o] = NoOne] /\ job[o].candidate \in Reviewed
      /\ \/ status' = status
         \/ /\ status[job[o].candidate] = "STAGED"
            /\ status' = [status EXCEPT ![job[o].candidate] = "ELIGIBLE"]
      /\ UNCHANGED <<fact, claimed, results, conclusions, store, blocked, reservation>>
  BY PromotionJobType DEF Promotions!BecomeEligible, Promotions!At, Promotions!Stop, PromotionInv,
      PromotionRows, Promotions!TypeOK, Promotions!Jobs
<1>1. status' \in [Reviewed -> DOMAIN Promotions!Version]
  BY <1>0 DEF Promotions!Version
<1>2. \A x \in Reviewed : status'[x] = "APPLIED" <=> status[x] = "APPLIED"
  BY <1>0
<1>3. job' \in [Runners -> Promotions!Jobs \cup {NoOne}]
  BY <1>0, PromotionJobType
<1>4. PromotionRows'
  BY <1>0, <1>1, <1>2, <1>3, PromotionStatusChanges
<1>5. PromotionGrows(o)
  BY <1>0, <1>2 DEF PromotionGrows, Promotions!IsEligible
<1> QED BY <1>0, <1>4, <1>5, PromotionMoves

LEMMA PromotionIntent ==
    ASSUME PromotionInv, NEW o \in Runners, NEW m \in Runs, NEW k \in Reviewed,
           NEW expected, Promotions!RecordConfirmationIntent(o, m, k, expected)
    PROVE  PromotionInv'
<1> DEFINE j == [step |-> "intended", command |-> m, candidate |-> k, verdict |-> NoOne]
<1>0. /\ claimed \in [Runs -> Reviewed \cup {NoOne}] /\ claimed[m] \in {NoOne, k}
      /\ claimed' = [claimed EXCEPT ![m] = k] /\ Promotions!IsEligible(k)
      /\ UNCHANGED <<status, fact, results, conclusions, store, blocked, reservation>>
      /\ job' = [job EXCEPT ![o] = j]
  BY DEF Promotions!RecordConfirmationIntent, PromotionInv, PromotionRows, Promotions!TypeOK
<1>1. \A x \in Runs : claimed[x] # NoOne => claimed'[x] = claimed[x]
  BY <1>0
<1>2. PromotionGrows(o)
  BY <1>0, <1>1 DEF PromotionGrows, Promotions!IsEligible
<1>3. j \in Promotions!Jobs
  BY DEF Promotions!Jobs, Promotions!Steps
<1>4. PromotionJob(o, j)'
  BY <1>0 DEF PromotionJob, Promotions!IsEligible
<1> HIDE DEF j
<1>5. Promotions!TypeOK'
  BY <1>0, <1>3 DEF PromotionInv, PromotionRows, Promotions!TypeOK
<1>6. Promotions!MemoriesAreBacked'
  BY <1>0, <1>1, PromotionAssumption DEF PromotionInv, PromotionRows, Promotions!TypeOK,
      Promotions!MemoriesAreBacked, Promotions!IsEligible
<1>7. PromotionTold'
  <2> SUFFICES ASSUME NEW x \in Runs
               PROVE  /\ results[x] # NoOne => claimed'[x] = claimed[x] /\ claimed[x] # NoOne
                      /\ results[x] = "APPLIED" => status[claimed'[x]] = "APPLIED"
                      /\ results[x] = "CONFLICT" => Promotions!HasActiveConflict(claimed[x])
                      /\ conclusions[x] # NoOne => conclusions[x] = results[x]
    BY <1>0, PromotionAssumption DEF PromotionTold, Promotions!HasActiveConflict, Promotions!Verdicts
  <2>1. results[x] # NoOne => claimed'[x] = claimed[x] /\ claimed[x] # NoOne
    BY <1>1 DEF PromotionInv, PromotionRows, PromotionTold
  <2> QED BY <2>1, PromotionAssumption DEF PromotionInv, PromotionRows, PromotionTold, Promotions!Verdicts
<1>8. Promotions!NoOpposedMemories'
  BY <1>0 DEF PromotionInv, PromotionRows, Promotions!NoOpposedMemories
<1> QED BY <1>0, <1>2, <1>3, <1>4, <1>5, <1>6, <1>7, <1>8, PromotionMoves DEF PromotionRows

LEMMA PromotionPromote ==
    ASSUME PromotionInv, NEW o \in Runners, Promotions!Promote(o)
    PROVE  PromotionInv'
<1> DEFINE m == job[o].command
           k == job[o].candidate
<1>0. /\ job[o] # NoOne /\ job[o].step = "intended" /\ m \in Runs /\ k \in Reviewed
      /\ PromotionJob(o, job[o])
      /\ UNCHANGED <<status, fact, claimed, results, conclusions, store, blocked, reservation>>
  BY PromotionJobType DEF Promotions!Promote, Promotions!At, Promotions!Jobs
<1>1. /\ results[m] \in Promotions!Verdicts \cup {NoOne} /\ claimed[m] = k
      /\ Promotions!IsEligible(k)
      /\ results[m] = "APPLIED" => status[k] = "APPLIED"
      /\ results[m] = "CONFLICT" => Promotions!HasActiveConflict(k)
  BY <1>0 DEF PromotionJob, PromotionInv, PromotionRows, PromotionTold, Promotions!TypeOK
<1>2. reservation' \in Runners \cup {NoOne}
  BY <1>0, PromotionJobType
<1>3. CASE results[m] # NoOne
  <2>1. Promotions!Decide(o, "promoted", results[m]) /\ results[m] \in Promotions!Verdicts
    BY <1>1, <1>3 DEF Promotions!Promote
  <2>2. PICK j \in Promotions!Jobs : /\ job' = [job EXCEPT ![o] = j] /\ j.step = "promoted"
                                     /\ j.command = m /\ j.candidate = k /\ j.verdict = results[m]
    BY <1>0, <2>1, PromotionFields DEF Promotions!Steps
  <2>3. PromotionJob(o, j)'
    BY <1>0, <1>1, <2>1, <2>2 DEF PromotionJob, Promotions!IsEligible, Promotions!HasActiveConflict
  <2> QED BY <1>0, <1>2, <2>2, <2>3, PromotionMovesAlone
<1>4. CASE results[m] = NoOne /\ status[k] = "APPLIED"
  <2>1. Promotions!Decide(o, "decided", "APPLIED")
    BY <1>4 DEF Promotions!Promote
  <2>2. PICK j \in Promotions!Jobs : /\ job' = [job EXCEPT ![o] = j] /\ j.step = "decided"
                                     /\ j.command = m /\ j.candidate = k /\ j.verdict = "APPLIED"
    BY <1>0, <2>1, PromotionFields DEF Promotions!Steps, Promotions!Verdicts
  <2>3. PromotionJob(o, j)'
    BY <1>0, <1>1, <1>4, <2>2 DEF PromotionJob, Promotions!IsEligible, Promotions!Verdicts
  <2> QED BY <1>0, <1>2, <2>2, <2>3, PromotionMovesAlone
<1>5. CASE results[m] = NoOne /\ status[k] # "APPLIED"
  <2>1. Promotions!Move(o, "admitted")
    BY <1>5 DEF Promotions!Promote
  <2>2. PICK j \in Promotions!Jobs : /\ job' = [job EXCEPT ![o] = j] /\ j.step = "admitted"
                                     /\ j.command = m /\ j.candidate = k
    BY <1>0, <2>1, PromotionFields DEF Promotions!Steps, Promotions!Verdicts
  <2>3. PromotionJob(o, j)'
    BY <1>0, <1>1, <2>2 DEF PromotionJob, Promotions!IsEligible
  <2> QED BY <1>0, <1>2, <2>2, <2>3, PromotionMovesAlone
<1> QED BY <1>3, <1>4, <1>5

LEMMA PromotionEnters ==
    ASSUME PromotionInv, NEW o \in Runners, Promotions!EnterScope(o)
    PROVE  PromotionInv'
<1> DEFINE k == job[o].candidate
<1>0. /\ job[o] # NoOne /\ job[o].step = "admitted" /\ k \in Reviewed /\ job[o].command \in Runs
      /\ PromotionJob(o, job[o]) /\ reservation = NoOne /\ reservation' = o
      /\ UNCHANGED <<status, fact, claimed, results, conclusions, store, blocked>>
  BY PromotionJobType DEF Promotions!EnterScope, Promotions!At, Promotions!Jobs
<1>1. CASE Promotions!HasActiveConflict(k)
  <2>1. Promotions!Decide(o, "decided", "CONFLICT")
    BY <1>1 DEF Promotions!EnterScope
  <2>2. PICK j \in Promotions!Jobs : /\ job' = [job EXCEPT ![o] = j] /\ j.step = "decided"
                                     /\ j.command = job[o].command /\ j.candidate = k
                                     /\ j.verdict = "CONFLICT"
    BY <1>0, <2>1, PromotionFields DEF Promotions!Steps, Promotions!Verdicts
  <2>3. PromotionJob(o, j)'
    BY <1>0, <1>1, <2>2 DEF PromotionJob, Promotions!IsEligible, Promotions!Verdicts,
        Promotions!HasActiveConflict
  <2> QED BY <1>0, <2>2, <2>3, PromotionMovesAlone
<1>2. CASE ~Promotions!HasActiveConflict(k)
  <2>1. Promotions!Move(o, "clear")
    BY <1>2 DEF Promotions!EnterScope
  <2>2. PICK j \in Promotions!Jobs : /\ job' = [job EXCEPT ![o] = j] /\ j.step = "clear"
                                     /\ j.command = job[o].command /\ j.candidate = k
    BY <1>0, <2>1, PromotionFields DEF Promotions!Steps, Promotions!Verdicts
  <2>3. PromotionJob(o, j)'
    BY <1>0, <1>2, <2>2 DEF PromotionJob, Promotions!IsEligible, Promotions!HasActiveConflict
  <2> QED BY <1>0, <2>2, <2>3, PromotionMovesAlone
<1> QED BY <1>1, <1>2

LEMMA PromotionWrites ==
    ASSUME PromotionInv, NEW o \in Runners, Promotions!WriteMemory(o)
    PROVE  PromotionInv'
<1> DEFINE k == job[o].candidate
<1>0. /\ job[o] # NoOne /\ job[o].step = "clear" /\ k \in Reviewed /\ job[o].command \in Runs
      /\ PromotionJob(o, job[o]) /\ store' = store \cup {k} /\ store \subseteq Reviewed
      /\ UNCHANGED <<status, fact, claimed, results, conclusions, blocked, reservation>>
  BY PromotionJobType DEF Promotions!WriteMemory, Promotions!At, Promotions!Jobs, PromotionInv,
      PromotionRows, Promotions!TypeOK
<1>1. /\ reservation = o /\ \A x \in store : {x, k} \notin Opposed
      /\ Promotions!IsEligible(k) /\ claimed[job[o].command] = k
  BY <1>0 DEF PromotionJob
<1>2. PICK j \in Promotions!Jobs : /\ job' = [job EXCEPT ![o] = j] /\ j.step = "written"
                                   /\ j.command = job[o].command /\ j.candidate = k
  BY <1>0, PromotionFields DEF Promotions!WriteMemory, Promotions!Steps, Promotions!Verdicts
<1>3. PromotionJob(o, j)'
  BY <1>0, <1>1, <1>2 DEF PromotionJob, Promotions!IsEligible
<1>4. PromotionGrows(o)
  BY <1>0, <1>1 DEF PromotionGrows, Promotions!IsEligible
<1>5. Promotions!TypeOK'
  BY <1>0, <1>2 DEF PromotionInv, PromotionRows, Promotions!TypeOK
<1>6. Promotions!NoOpposedMemories'
  <2>1. \A x, y \in store : {x, y} \notin Opposed
    BY DEF PromotionInv, PromotionRows, Promotions!NoOpposedMemories
  <2>2. \A x \in store : {k, x} = {x, k}
    OBVIOUS
  <2>3. {k, k} \notin Opposed
    BY <1>0, PromotionAssumption
  <2> QED BY <1>0, <1>1, <2>1, <2>2, <2>3 DEF Promotions!NoOpposedMemories
<1>7. Promotions!MemoriesAreBacked'
  BY <1>0, <1>1 DEF PromotionInv, PromotionRows, Promotions!MemoriesAreBacked, Promotions!IsEligible
<1>8. PromotionTold'
  BY <1>0 DEF PromotionInv, PromotionRows, PromotionTold, Promotions!HasActiveConflict
<1>9. PromotionRows'
  BY <1>5, <1>6, <1>7, <1>8 DEF PromotionRows
<1> QED BY <1>2, <1>3, <1>4, <1>9, PromotionMoves

LEMMA PromotionApplies ==
    ASSUME PromotionInv, NEW o \in Runners, Promotions!Apply(o)
    PROVE  PromotionInv'
<1> DEFINE k == job[o].candidate
<1>0. /\ job[o] # NoOne /\ job[o].step = "written" /\ k \in Reviewed /\ job[o].command \in Runs
      /\ PromotionJob(o, job[o]) /\ status \in [Reviewed -> DOMAIN Promotions!Version]
      /\ UNCHANGED <<fact, claimed, results, conclusions, store, blocked>>
  BY PromotionJobType DEF Promotions!Apply, Promotions!At, Promotions!Jobs, PromotionInv,
      PromotionRows, Promotions!TypeOK
<1>1. CASE status[k] = "ELIGIBLE"
  <2>1. /\ status' = [status EXCEPT ![k] = "APPLIED"] /\ Promotions!Decide(o, "decided", "APPLIED")
        /\ UNCHANGED reservation
    BY <1>1 DEF Promotions!Apply
  <2>2. PICK j \in Promotions!Jobs : /\ job' = [job EXCEPT ![o] = j] /\ j.step = "decided"
                                     /\ j.command = job[o].command /\ j.candidate = k
                                     /\ j.verdict = "APPLIED"
    BY <1>0, <2>1, PromotionFields DEF Promotions!Steps, Promotions!Verdicts
  <2>3. PromotionJob(o, j)'
    BY <1>0, <2>1, <2>2 DEF PromotionJob, Promotions!IsEligible, Promotions!Verdicts
  <2>4. PromotionGrows(o)
    BY <1>0, <2>1 DEF PromotionGrows, Promotions!IsEligible
  <2>5. status' \in [Reviewed -> DOMAIN Promotions!Version]
    BY <1>0, <2>1 DEF Promotions!Version
  <2>6. Promotions!TypeOK'
    BY <1>0, <2>1, <2>2, <2>5 DEF PromotionInv, PromotionRows, Promotions!TypeOK
  <2>7. Promotions!MemoriesAreBacked'
    BY <1>0, <2>1 DEF PromotionInv, PromotionRows, Promotions!MemoriesAreBacked,
        Promotions!IsEligible, PromotionJob
  <2>8. PromotionTold' /\ Promotions!NoOpposedMemories'
    <3>1. \A x \in Reviewed : status[x] = "APPLIED" => status'[x] = "APPLIED"
      BY <1>0, <2>1
    <3>2. \A m \in Runs : results[m] # NoOne => claimed[m] \in Reviewed
      BY DEF PromotionInv, PromotionRows, PromotionTold, Promotions!TypeOK
    <3>3. \A m \in Runs : results[m] = "APPLIED" => status'[claimed[m]] = "APPLIED"
      BY <3>1, <3>2, PromotionAssumption DEF PromotionInv, PromotionRows, PromotionTold,
          Promotions!Verdicts
    <3> QED BY <1>0, <2>1, <3>3 DEF PromotionInv, PromotionRows, PromotionTold,
                Promotions!HasActiveConflict, Promotions!NoOpposedMemories
  <2>9. PromotionRows'
    BY <2>6, <2>7, <2>8 DEF PromotionRows
  <2> QED BY <2>2, <2>3, <2>4, <2>9, PromotionMoves
<1>2. CASE status[k] # "ELIGIBLE"
  <2>1. UNCHANGED status /\ Promotions!Stop(o) /\ Promotions!LeaveScope(o)
    BY <1>2 DEF Promotions!Apply
  <2> QED BY <1>0, <2>1, PromotionStops
<1> QED BY <1>1, <1>2

LEMMA PromotionRecords ==
    ASSUME PromotionInv, NEW o \in Runners, Promotions!RecordCommandResult(o)
    PROVE  PromotionInv'
<1> DEFINE m == job[o].command
           k == job[o].candidate
           v == job[o].verdict
<1>0. /\ job[o] # NoOne /\ job[o].step = "decided" /\ k \in Reviewed /\ m \in Runs
      /\ PromotionJob(o, job[o]) /\ results \in [Runs -> Promotions!Verdicts \cup {NoOne}]
      /\ UNCHANGED <<status, fact, claimed, conclusions, store, blocked>>
      /\ Promotions!LeaveScope(o)
  BY PromotionJobType DEF Promotions!RecordCommandResult, Promotions!At, Promotions!Jobs,
      PromotionInv, PromotionRows, Promotions!TypeOK
<1>1. v \in Promotions!Verdicts /\ claimed[m] = k
  BY <1>0 DEF PromotionJob
<1>2. CASE results[m] \in {NoOne, v}
  <2>1. results' = [results EXCEPT ![m] = v] /\ Promotions!Move(o, "promoted")
    BY <1>2 DEF Promotions!RecordCommandResult
  <2>2. PICK j \in Promotions!Jobs : /\ job' = [job EXCEPT ![o] = j] /\ j.step = "promoted"
                                     /\ j.command = m /\ j.candidate = k /\ j.verdict = v
    BY <1>0, <2>1, PromotionFields DEF Promotions!Steps, Promotions!Verdicts
  <2>3. /\ reservation' \in Runners \cup {NoOne}
        /\ reservation' = reservation \/ reservation = o
    BY <1>0, PromotionJobType DEF Promotions!LeaveScope
  <2>4. PromotionJob(o, j)'
    BY <1>0, <2>1, <2>2 DEF PromotionJob, Promotions!IsEligible, Promotions!HasActiveConflict
  <2>5. PromotionGrows(o)
    BY <1>0, <1>2, <2>1, <2>3 DEF PromotionGrows, Promotions!IsEligible
  <2>6. Promotions!TypeOK'
    BY <1>0, <1>1, <2>1, <2>2, <2>3 DEF PromotionInv, PromotionRows, Promotions!TypeOK
  <2>7. Promotions!MemoriesAreBacked' /\ Promotions!NoOpposedMemories'
    BY <1>0 DEF PromotionInv, PromotionRows, Promotions!MemoriesAreBacked,
        Promotions!IsEligible, Promotions!NoOpposedMemories
  <2>8. PromotionTold'
    <3> SUFFICES ASSUME NEW x \in Runs
                 PROVE  /\ results'[x] # NoOne => claimed[x] # NoOne
                        /\ results'[x] = "APPLIED" => status[claimed[x]] = "APPLIED"
                        /\ results'[x] = "CONFLICT" => Promotions!HasActiveConflict(claimed[x])
                        /\ conclusions[x] # NoOne => conclusions[x] = results'[x]
      BY <1>0 DEF PromotionTold, Promotions!HasActiveConflict
    <3>1. CASE x # m
      BY <1>0, <2>1, <3>1 DEF PromotionInv, PromotionRows, PromotionTold
    <3>2. CASE x = m
      <4>1. results'[x] = v
        BY <1>0, <2>1, <3>2
      <4>2. conclusions[x] # NoOne => conclusions[x] = v
        BY <1>2, <3>2 DEF PromotionInv, PromotionRows, PromotionTold
      <4>3. claimed[x] # NoOne
        BY <1>0, <1>1, <3>2, PromotionAssumption
      <4> QED BY <1>0, <1>1, <3>2, <4>1, <4>2, <4>3 DEF PromotionJob
    <3> QED BY <3>1, <3>2
  <2>9. PromotionRows'
    BY <2>6, <2>7, <2>8 DEF PromotionRows
  <2> QED BY <2>2, <2>4, <2>5, <2>9, PromotionMoves
<1>3. CASE results[m] \notin {NoOne, v}
  <2>1. UNCHANGED results /\ Promotions!Stop(o)
    BY <1>3 DEF Promotions!RecordCommandResult
  <2> QED BY <1>0, <2>1, PromotionStops
<1> QED BY <1>2, <1>3

LEMMA PromotionConfirms ==
    ASSUME PromotionInv, NEW o \in Runners, Promotions!RecordConfirmation(o)
    PROVE  PromotionInv'
<1> DEFINE m == job[o].command
<1>0. /\ job[o] # NoOne /\ job[o].step = "promoted" /\ m \in Runs
      /\ PromotionJob(o, job[o]) /\ conclusions \in [Runs -> Promotions!Verdicts \cup {NoOne}]
      /\ UNCHANGED <<status, fact, claimed, results, store, blocked, reservation>>
      /\ job' = [job EXCEPT ![o] = NoOne]
      /\ conclusions' = conclusions \/ conclusions' = [conclusions EXCEPT ![m] = job[o].verdict]
  BY PromotionJobType DEF Promotions!RecordConfirmation, Promotions!At, Promotions!Jobs,
      PromotionInv, PromotionRows, Promotions!TypeOK, Promotions!Stop
<1>1. job[o].verdict \in Promotions!Verdicts /\ results[m] = job[o].verdict
  BY <1>0 DEF PromotionJob
<1>2. Promotions!TypeOK'
  BY <1>0, <1>1 DEF PromotionInv, PromotionRows, Promotions!TypeOK
<1>3. Promotions!MemoriesAreBacked' /\ Promotions!NoOpposedMemories'
  BY <1>0 DEF PromotionInv, PromotionRows, Promotions!MemoriesAreBacked,
      Promotions!IsEligible, Promotions!NoOpposedMemories
<1>4. PromotionTold'
  BY <1>0, <1>1 DEF PromotionInv, PromotionRows, PromotionTold, Promotions!HasActiveConflict
<1>5. PromotionGrows(o)
  BY <1>0 DEF PromotionGrows, Promotions!IsEligible
<1>6. PromotionRows'
  BY <1>2, <1>3, <1>4 DEF PromotionRows
<1> QED BY <1>0, <1>5, <1>6, PromotionMoves

LEMMA PromotionStep ==
    ASSUME PromotionInv, Promotions!Next
    PROVE  PromotionInv'
BY PromotionStage, PromotionOther, PromotionEligibility, PromotionBecomes, PromotionIntent,
   PromotionPromote, PromotionEnters, PromotionWrites, PromotionApplies, PromotionRecords,
   PromotionConfirms, PromotionCrash
   DEF Promotions!Next

LEMMA PromotionHolds ==
    ASSUME PromotionInv
    PROVE  /\ Promotions!TypeOK /\ Promotions!NoOpposedMemories /\ Promotions!MemoriesAreBacked
           /\ Promotions!OutcomesAreTrue
<1>1. Promotions!OutcomesAreTrue
  <2> SUFFICES ASSUME NEW m \in Runs, results[m] = "CONFLICT", claimed[m] \in store, ~blocked
               PROVE  FALSE
    BY DEF PromotionInv, PromotionRows, PromotionTold, Promotions!OutcomesAreTrue
  <2> QED BY DEF PromotionInv, PromotionRows, PromotionTold, Promotions!HasActiveConflict,
              Promotions!NoOpposedMemories
<1> QED BY <1>1 DEF PromotionInv, PromotionRows

(* A step that changes nothing of this part keeps the invariant.            *)
LEMMA PromotionStutters ==
    ASSUME PromotionInv, UNCHANGED Promotions!vars
    PROVE  PromotionInv'
<1>1. UNCHANGED <<status, fact, claimed, results, conclusions, store, blocked, reservation, job>>
  BY DEF Promotions!vars
<1>2. \A k : Promotions!IsEligible(k)' <=> Promotions!IsEligible(k)
  BY <1>1 DEF Promotions!IsEligible
<1>3. \A k : Promotions!HasActiveConflict(k)' <=> Promotions!HasActiveConflict(k)
  BY <1>1 DEF Promotions!HasActiveConflict
<1>4. PromotionRows'
  BY <1>1, <1>2, <1>3 DEF PromotionInv, PromotionRows, Promotions!TypeOK, Promotions!NoOpposedMemories,
     Promotions!MemoriesAreBacked, Promotions!IsEligible, PromotionTold
<1>5. PromotionJobs'
  BY <1>1, <1>2, <1>3 DEF PromotionInv, PromotionJobs, PromotionJob
<1> QED BY <1>4, <1>5 DEF PromotionInv

-----------------------------------------------------------------------------
(* What people judge of a release.                                         *)

(* A completed session answered every trial of its own, and a started      *)
(* trial is one that is left.                                              *)
ReleaseSessions ==
    \A p \in Operators : run[p] # NoOne =>
        /\ run[p].started => run[p].answered < Trials
        /\ run[p].status = "COMPLETED" => run[p].answered = Trials

(* Evidence that is READY goes on being true: its participants are enough  *)
(* and answered everything.                                                *)
ReleaseReading ==
    reading # NoOne /\ reading.status = "READY" =>
        /\ Release!Cardinality(reading.of) >= MinParticipants
        /\ \A p \in reading.of : run[p] # NoOne /\ run[p].answered = Trials

(* What each decision rests on.                                            *)
ReleaseDecisions ==
    /\ status = "PASS" => \A c \in Runs : result[c] = "PASS"
    /\ decision = "PROMOTE" => reading # NoOne /\ reading.status = "READY"
    /\ closed = "ENABLED" => status = "PASS" /\ decision = "PROMOTE"

ReleaseInv == Release!TypeOK /\ ReleaseSessions /\ ReleaseReading /\ ReleaseDecisions

-----------------------------------------------------------------------------
LEMMA ReleaseInit ==
    ASSUME Release!Init
    PROVE  ReleaseInv
<1>1. NoOne \notin {"PASS", "PROMOTE", "ENABLED"}
  BY ReleaseAssumption DEF Release!TechnicalStatus, Release!PromotionStatus, Release!FinalStatus
<1> QED BY <1>1 DEF Release!Init, ReleaseInv, Release!TypeOK, ReleaseSessions, ReleaseReading, ReleaseDecisions

LEMMA ReleaseAppends ==
    ASSUME ReleaseInv, NEW c \in Runs, NEW s \in Release!CaseStatus, Release!AppendCaseResult(c, s)
    PROVE  ReleaseInv'
<1>0. /\ result[c] = NoOne /\ result' = [result EXCEPT ![c] = s]
      /\ UNCHANGED <<status, closed, run, reading, decision>>
      /\ result \in [Runs -> Release!CaseStatus \cup {NoOne}]
  BY DEF Release!AppendCaseResult, ReleaseInv, Release!TypeOK
<1>1. Release!TypeOK'
  BY <1>0 DEF ReleaseInv, Release!TypeOK
<1>2. ReleaseSessions' /\ ReleaseReading'
  BY <1>0 DEF ReleaseInv, ReleaseSessions, ReleaseReading
<1>3. status = "PASS" => \A k \in Runs : result'[k] = "PASS"
  BY <1>0, ReleaseAssumption DEF ReleaseInv, ReleaseDecisions, Release!CaseStatus
<1>4. ReleaseDecisions'
  BY <1>0, <1>3 DEF ReleaseInv, ReleaseDecisions
<1> QED BY <1>1, <1>2, <1>4 DEF ReleaseInv

LEMMA ReleaseFinalizes ==
    ASSUME ReleaseInv, Release!FinalizeTechnical
    PROVE  ReleaseInv'
<1>0. /\ status = NoOne /\ status' = Release!TechnicalFor(result)
      /\ UNCHANGED <<result, closed, run, reading, decision>>
  BY DEF Release!FinalizeTechnical
<1>1. /\ status' \in Release!TechnicalStatus
      /\ status' = "PASS" => \A c \in Runs : result[c] = "PASS"
  BY <1>0 DEF Release!TechnicalFor, Release!TechnicalStatus
<1>2. Release!TypeOK'
  BY <1>0, <1>1 DEF ReleaseInv, Release!TypeOK
<1>3. ReleaseSessions' /\ ReleaseReading'
  BY <1>0 DEF ReleaseInv, ReleaseSessions, ReleaseReading
<1>4. closed # "ENABLED"
  BY <1>0, ReleaseAssumption DEF ReleaseInv, ReleaseDecisions, Release!TechnicalStatus
<1>5. ReleaseDecisions'
  BY <1>0, <1>1, <1>4 DEF ReleaseInv, ReleaseDecisions
<1> QED BY <1>2, <1>3, <1>5 DEF ReleaseInv

(* The sessions of one participant change, and no answer is taken back.    *)
LEMMA ReleaseAnswers ==
    ASSUME ReleaseInv, NEW p \in Operators, NEW s \in Release!Sessions,
           run' = [run EXCEPT ![p] = s], UNCHANGED <<result, status, closed, reading, decision>>,
           s.started => s.answered < Trials,
           s.status = "COMPLETED" => s.answered = Trials,
           run[p] # NoOne /\ run[p].answered = Trials => s.answered = Trials
    PROVE  ReleaseInv'
<1>0. run \in [Operators -> Release!Sessions \cup {NoOne}] /\ s # NoOne
  BY ReleaseAssumption DEF ReleaseInv, Release!TypeOK
<1>1. Release!TypeOK'
  BY <1>0 DEF ReleaseInv, Release!TypeOK
<1>2. ReleaseSessions'
  BY <1>0 DEF ReleaseInv, ReleaseSessions
<1>3. ReleaseReading'
  <2> SUFFICES ASSUME reading # NoOne, reading.status = "READY"
               PROVE  /\ Release!Cardinality(reading.of) >= MinParticipants
                      /\ \A k \in reading.of : run'[k] # NoOne /\ run'[k].answered = Trials
    BY DEF ReleaseReading
  <2>1. reading.of \subseteq Operators
    BY DEF ReleaseInv, Release!TypeOK, Release!Readings
  <2> QED BY <1>0, <2>1 DEF ReleaseInv, ReleaseReading
<1>4. ReleaseDecisions'
  BY DEF ReleaseInv, ReleaseDecisions
<1> QED BY <1>1, <1>2, <1>3, <1>4 DEF ReleaseInv

LEMMA ReleaseCreates ==
    ASSUME ReleaseInv, NEW p \in Operators, Release!CreateSession(p)
    PROVE  ReleaseInv'
<1> DEFINE s == [status |-> "OPEN", answered |-> 0, started |-> FALSE]
<1>1. s \in Release!Sessions /\ ~s.started /\ s.status = "OPEN"
  BY ReleaseAssumption DEF Release!Sessions
<1>2. /\ run[p] = NoOne /\ run' = [run EXCEPT ![p] = s]
      /\ UNCHANGED <<result, status, closed, reading, decision>>
  BY DEF Release!CreateSession
<1> HIDE DEF s
<1> QED BY <1>1, <1>2, ReleaseAnswers

LEMMA ReleaseTries ==
    ASSUME ReleaseInv, NEW p \in Operators, Release!NextTrial(p)
    PROVE  ReleaseInv'
<1>0. /\ run[p] \in Release!Sessions /\ run[p] # NoOne /\ run \in [Operators -> Release!Sessions \cup {NoOne}]
      /\ UNCHANGED <<result, status, closed, reading, decision>>
      /\ run[p].started => run[p].answered < Trials
      /\ run[p].status = "COMPLETED" => run[p].answered = Trials
      /\ run[p].answered \in 0..Trials
  BY DEF Release!NextTrial, ReleaseInv, Release!TypeOK, ReleaseSessions, Release!Sessions
<1>1. PICK s \in Release!Sessions :
          /\ run' = [run EXCEPT ![p] = s] /\ s.answered = run[p].answered
          /\ s.started => s.answered < Trials
          /\ s.status = "COMPLETED" => s.answered = Trials
  <2>1. CASE run[p].answered = Trials
    <3> DEFINE s == [run[p] EXCEPT !.status = "COMPLETED"]
    <3>1. /\ s \in Release!Sessions /\ s.answered = run[p].answered /\ s.started = run[p].started
          /\ s.status = "COMPLETED"
      BY <1>0 DEF Release!Sessions
    <3>2. run' = [run EXCEPT ![p] = s]
      BY <1>0, <2>1 DEF Release!NextTrial
    <3> HIDE DEF s
    <3> QED BY <1>0, <2>1, <3>1, <3>2
  <2>2. CASE run[p].answered # Trials
    <3> DEFINE s == [run[p] EXCEPT !.started = TRUE]
    <3>1. /\ s \in Release!Sessions /\ s.answered = run[p].answered /\ s.status = run[p].status
      BY <1>0 DEF Release!Sessions
    <3>2. run' = [run EXCEPT ![p] = s]
      BY <1>0, <2>2 DEF Release!NextTrial
    <3>3. run[p].answered < Trials
      BY <1>0, <2>2, ReleaseAssumption
    <3> HIDE DEF s
    <3> QED BY <1>0, <3>1, <3>2, <3>3
  <2> QED BY <2>1, <2>2
<1> QED BY <1>0, <1>1, ReleaseAnswers

LEMMA ReleaseRecords ==
    ASSUME ReleaseInv, NEW p \in Operators, Release!RecordResponse(p)
    PROVE  ReleaseInv'
<1>0. /\ run[p] \in Release!Sessions /\ run[p] # NoOne /\ run \in [Operators -> Release!Sessions \cup {NoOne}]
      /\ UNCHANGED <<result, status, closed, reading, decision>>
      /\ run[p].answered < Trials /\ run[p].answered \in 0..Trials /\ Trials \in Nat
      /\ run[p].status # "COMPLETED" /\ run[p].status \in {"OPEN", "COMPLETED"}
  BY ReleaseAssumption
     DEF Release!RecordResponse, ReleaseInv, Release!TypeOK, ReleaseSessions, Release!Sessions
<1>1. PICK s \in Release!Sessions :
          /\ ~s.started /\ run' = [run EXCEPT ![p] = s]
          /\ s.status = "COMPLETED" => s.answered = Trials
  <2> DEFINE s == [run[p] EXCEPT !.answered = @ + 1, !.started = FALSE,
                      !.status = IF run[p].answered + 1 = Trials THEN "COMPLETED" ELSE @]
  <2>1. run[p].answered + 1 \in 0..Trials
    BY <1>0
  <2>2. /\ s \in Release!Sessions /\ ~s.started
        /\ s.status = "COMPLETED" => s.answered = Trials
    BY <1>0, <2>1 DEF Release!Sessions
  <2>3. run' = [run EXCEPT ![p] = s]
    BY <1>0 DEF Release!RecordResponse
  <2> HIDE DEF s
  <2> QED BY <2>2, <2>3
<1>2. run[p].answered # Trials
  BY <1>0
<1> QED BY <1>0, <1>1, <1>2, ReleaseAnswers

LEMMA ReleaseReadsSessions ==
    ASSUME ReleaseInv, Release!ReadSessions
    PROVE  ReleaseInv'
<1>0. /\ decision = NoOne /\ UNCHANGED <<result, status, closed, run, decision>>
      /\ run \in [Operators -> Release!Sessions \cup {NoOne}]
  BY DEF Release!ReadSessions, ReleaseInv, Release!TypeOK
<1>1. PICK s \in {"READY", "BLOCKED"} :
          /\ reading' = [of |-> Release!Joined, responses |-> NoOne, status |-> s]
          /\ s = "READY" => /\ Release!Cardinality(Release!Joined) >= MinParticipants
                            /\ \A p \in Release!Joined : run[p].status = "COMPLETED"
  <2> DEFINE s == IF /\ Release!Cardinality(Release!Joined) >= MinParticipants
                     /\ \A p \in Release!Joined : run[p].status = "COMPLETED"
                  THEN "READY" ELSE "BLOCKED"
  <2>1. /\ s \in {"READY", "BLOCKED"}
        /\ s = "READY" => /\ Release!Cardinality(Release!Joined) >= MinParticipants
                          /\ \A p \in Release!Joined : run[p].status = "COMPLETED"
    OBVIOUS
  <2>2. reading' = [of |-> Release!Joined, responses |-> NoOne, status |-> s]
    BY DEF Release!ReadSessions
  <2> HIDE DEF s
  <2> QED BY <2>1, <2>2
<1>2. /\ reading' \in Release!Readings /\ reading'.of = Release!Joined /\ reading'.status = s
  BY <1>1 DEF Release!Readings, Release!Joined
<1>3. Release!TypeOK'
  BY <1>0, <1>2 DEF ReleaseInv, Release!TypeOK
<1>4. ReleaseSessions'
  BY <1>0 DEF ReleaseInv, ReleaseSessions
<1>5. ReleaseReading'
  <2> SUFFICES ASSUME s = "READY"
               PROVE  /\ Release!Cardinality(Release!Joined) >= MinParticipants
                      /\ \A p \in Release!Joined : run[p] # NoOne /\ run[p].answered = Trials
    BY <1>0, <1>2 DEF ReleaseReading
  <2> QED BY <1>1 DEF ReleaseInv, ReleaseSessions, Release!Joined
<1>6. ReleaseDecisions'
  <2>1. decision # "PROMOTE"
    BY <1>0, ReleaseAssumption DEF Release!PromotionStatus
  <2> QED BY <1>0, <2>1 DEF ReleaseInv, ReleaseDecisions
<1> QED BY <1>3, <1>4, <1>5, <1>6 DEF ReleaseInv

LEMMA ReleaseReadsResponses ==
    ASSUME ReleaseInv, Release!ReadResponses
    PROVE  ReleaseInv'
<1> DEFINE answers == [p \in Operators |-> IF p \in Release!Joined THEN run[p].answered ELSE 0]
<1>0. /\ reading \in Release!Readings /\ reading # NoOne
      /\ reading' = [reading EXCEPT !.responses = answers]
      /\ UNCHANGED <<result, status, closed, run, decision>>
      /\ run \in [Operators -> Release!Sessions \cup {NoOne}]
  BY DEF Release!ReadResponses, Release!BetweenReads, ReleaseInv, Release!TypeOK
<1>1. answers \in [Operators -> 0..Trials]
  BY <1>0, ReleaseAssumption DEF Release!Joined, Release!Sessions
<1> HIDE DEF answers
<1>2. reading' \in Release!Readings /\ reading'.of = reading.of /\ reading'.status = reading.status
      /\ reading' # NoOne
  BY <1>0, <1>1, ReleaseAssumption DEF Release!Readings
<1>3. Release!TypeOK'
  BY <1>0, <1>2 DEF ReleaseInv, Release!TypeOK
<1>4. ReleaseSessions' /\ ReleaseReading' /\ ReleaseDecisions'
  BY <1>0, <1>2 DEF ReleaseInv, ReleaseSessions, ReleaseReading, ReleaseDecisions
<1> QED BY <1>3, <1>4 DEF ReleaseInv

LEMMA ReleaseBuilds ==
    ASSUME ReleaseInv, NEW complete \in BOOLEAN, NEW meets \in BOOLEAN,
           Release!BuildPromotion(complete, meets)
    PROVE  ReleaseInv'
<1>0. decision = NoOne /\ UNCHANGED <<result, status, closed, run, reading>>
  BY DEF Release!BuildPromotion
<1>1. /\ decision' \in Release!PromotionStatus
      /\ decision' = "PROMOTE" => reading # NoOne /\ reading.status # "BLOCKED"
  BY DEF Release!BuildPromotion, Release!PromotionStatus
<1>2. reading # NoOne => reading.status \in {"READY", "BLOCKED"}
  BY DEF ReleaseInv, Release!TypeOK, Release!Readings
<1>3. closed # "ENABLED"
  BY <1>0, ReleaseAssumption DEF ReleaseInv, ReleaseDecisions, Release!PromotionStatus
<1>4. Release!TypeOK'
  BY <1>0, <1>1 DEF ReleaseInv, Release!TypeOK
<1>5. ReleaseSessions' /\ ReleaseReading' /\ ReleaseDecisions'
  BY <1>0, <1>1, <1>2, <1>3 DEF ReleaseInv, ReleaseSessions, ReleaseReading, ReleaseDecisions
<1> QED BY <1>4, <1>5 DEF ReleaseInv

LEMMA ReleaseSaves ==
    ASSUME ReleaseInv, NEW promoted \in {"BLOCKED", decision} \ {NoOne},
           Release!SavePromotion(promoted)
    PROVE  ReleaseInv'
<1>0. closed' = Release!FinalFor(status, promoted) /\ UNCHANGED <<result, status, run, reading, decision>>
  BY DEF Release!SavePromotion
<1>1. /\ closed' \in Release!FinalStatus
      /\ closed' = "ENABLED" => status = "PASS" /\ promoted = "PROMOTE"
  BY <1>0 DEF Release!FinalFor, Release!FinalStatus
<1>2. Release!TypeOK'
  BY <1>0, <1>1 DEF ReleaseInv, Release!TypeOK
<1>3. ReleaseSessions' /\ ReleaseReading' /\ ReleaseDecisions'
  BY <1>0, <1>1 DEF ReleaseInv, ReleaseSessions, ReleaseReading, ReleaseDecisions
<1> QED BY <1>2, <1>3 DEF ReleaseInv

LEMMA ReleaseStep ==
    ASSUME ReleaseInv, Release!Next
    PROVE  ReleaseInv'
BY ReleaseAppends, ReleaseFinalizes, ReleaseCreates, ReleaseTries, ReleaseRecords,
   ReleaseReadsSessions, ReleaseReadsResponses, ReleaseBuilds, ReleaseSaves DEF Release!Next

LEMMA ReleaseHolds ==
    ASSUME ReleaseInv
    PROVE  Release!TypeOK /\ Release!EnablingIsBacked
<1>1. ASSUME closed = "ENABLED"
      PROVE  /\ \A c \in Runs : result[c] = "PASS"
             /\ \E ready \in SUBSET Release!Joined :
                  /\ Release!Cardinality(ready) >= MinParticipants
                  /\ \A p \in ready : run[p].answered = Trials
  <2>1. /\ reading # NoOne /\ reading.status = "READY" /\ \A c \in Runs : result[c] = "PASS"
    BY <1>1 DEF ReleaseInv, ReleaseDecisions
  <2>2. reading.of \subseteq Operators
    BY <2>1 DEF ReleaseInv, Release!TypeOK, Release!Readings
  <2>3. /\ reading.of \in SUBSET Release!Joined /\ Release!Cardinality(reading.of) >= MinParticipants
        /\ \A p \in reading.of : run[p].answered = Trials
    BY <2>1, <2>2 DEF ReleaseInv, ReleaseReading, Release!Joined
  <2> QED BY <2>1, <2>3
<1> QED BY <1>1 DEF ReleaseInv, Release!EnablingIsBacked

(* A step that changes nothing of this part keeps the invariant.            *)
LEMMA ReleaseStutters ==
    ASSUME ReleaseInv, UNCHANGED Release!vars
    PROVE  ReleaseInv'
BY DEF Release!vars, ReleaseInv, Release!TypeOK, ReleaseSessions, ReleaseReading,
   ReleaseDecisions

-----------------------------------------------------------------------------
(* The evaluation that retains or rejects a candidate.                     *)

(* The validation counts completely and has passed its gate.               *)
EvaluationPassed ==
    /\ Evaluation!Pairs("VALIDATION") = Evaluation!CasesOf("VALIDATION")
    /\ ~Evaluation!GateRejects

(* What a rejection may rest on.                                           *)
EvaluationReason ==
    \/ Evaluation!GateRejects
    \/ Evaluation!Severe("HOLDOUT") # {}
    \/ metrics["HOLDOUT"].saved /\ ~Evaluation!MetThreshold(metrics["HOLDOUT"], "HOLDOUT")

(* The answer of the deterministic baseline.                               *)
EvaluationBaseline(c) == IF c \in BaselineGood THEN "GOOD" ELSE "BAD"

EvaluationRows ==
    /\ Evaluation!TypeOK
    /\ \A c \in Evaluation!Cases : attempts[<<c, "BASELINE">>] \in {"NONE", EvaluationBaseline(c)}
    /\ \A x \in selected : attempts[x] # "NONE"
    /\ \A c \in Evaluation!CasesOf("HOLDOUT") : attempts[<<c, "BASELINE">>] # "NONE" => EvaluationPassed
    /\ \A s \in Evaluation!Splits : metrics[s].saved =>
          Evaluation!Pairs(s) = Evaluation!CasesOf(s) /\ metrics[s] = Evaluation!Counted(s)
    /\ decision = "RETAINED" =>
          /\ Evaluation!RetainedEvidence
          /\ \A s \in Evaluation!Splits : Evaluation!MetThreshold(Evaluation!Counted(s), s)
    /\ decision = "REJECTED" => EvaluationReason

(* How far a process is in the case it works on, and that all cases before *)
(* that one count.                                                         *)
EvaluationCase(j) ==
    /\ j.pc \in {"IDLE", "CLAIM"} => j.case = 1
    /\ j.pc \in {"CASE", "BASELINE", "AGENT", "SELECT_BASELINE", "SELECT_AGENT", "GATE", "METRICS"} =>
          /\ \A k \in 1..(j.case - 1) : {<<k, "BASELINE">>, <<k, "AGENT">>} \subseteq selected
          /\ j.case > Validation => EvaluationPassed
    /\ j.pc \in {"BASELINE", "AGENT"} => j.got \in Evaluation!Outcomes \ {"INFRASTRUCTURE"}
    /\ j.pc \in {"AGENT", "SELECT_BASELINE"} => attempts[<<j.case, "BASELINE">>] # "NONE"
    /\ j.pc \in {"SELECT_BASELINE", "SELECT_AGENT"} => attempts[<<j.case, "AGENT">>] # "NONE"
    /\ j.pc \in {"SELECT_AGENT", "GATE", "METRICS"} => <<j.case, "BASELINE">> \in selected
    /\ j.pc \in {"GATE", "METRICS"} => <<j.case, "AGENT">> \in selected

(* What a process that is done with its cases goes on with.                *)
EvaluationConclusion(j) ==
    /\ j.pc = "GATE" => j.case # Evaluation!Last
    /\ j.pc = "METRICS" => j.case = Evaluation!Last \/ (j.case = Validation /\ EvaluationPassed)
    /\ j.pc = "DECIDE" => metrics["HOLDOUT"].saved
    /\ j.pc = "PERSIST" /\ j.ruling = "RETAINED" =>
          metrics["HOLDOUT"].saved /\ Evaluation!MetThreshold(metrics["HOLDOUT"], "HOLDOUT")
    /\ j.pc = "PERSIST" /\ j.ruling = "REJECTED" => EvaluationReason

EvaluationJob(j) == EvaluationCase(j) /\ EvaluationConclusion(j)

EvaluationInv == EvaluationRows /\ \A p \in Runners : EvaluationJob(job[p])

-----------------------------------------------------------------------------
(* The cardinality the model counts with is that of the library.           *)
LEMMA EvaluationCounts ==
    ASSUME NEW S
    PROVE  Evaluation!Cardinality(S) = Cardinality(S)
BY Zenon DEF Evaluation!Cardinality, Cardinality


LEMMA EvaluationSets ==
    /\ Validation \in Nat /\ HoldoutCases \in Nat /\ Validation > 0 /\ HoldoutCases > 0
    /\ ShardSize \in Nat /\ ShardSize > 0 /\ MaxVersion \in Nat
    /\ Evaluation!Last = Validation + HoldoutCases /\ Evaluation!Last \in Nat
    /\ Evaluation!CasesOf("VALIDATION") = 1..Validation
    /\ Evaluation!CasesOf("HOLDOUT") = (Validation + 1)..Evaluation!Last
    /\ Evaluation!Cases = 1..Evaluation!Last
    /\ \A s : Evaluation!CasesOf(s) \subseteq Evaluation!Cases
    /\ \A s : Evaluation!Pairs(s) \subseteq Evaluation!CasesOf(s)
    /\ \A s : IsFiniteSet(Evaluation!Pairs(s))
    /\ \A s, o : Evaluation!Good(s, o) \in 0..Evaluation!Last
    /\ \A s : Evaluation!Cardinality(Evaluation!Pairs(s)) \in 0..Evaluation!Last
    /\ Evaluation!Cardinality(1..Validation) = Validation
<1>1. /\ Validation \in Nat /\ HoldoutCases \in Nat /\ Validation > 0 /\ HoldoutCases > 0
      /\ ShardSize \in Nat /\ ShardSize > 0 /\ MaxVersion \in Nat
  BY EvaluationAssumption
<1>2. Evaluation!Last = Validation + HoldoutCases /\ Evaluation!Last \in Nat
  BY <1>1 DEF Evaluation!Last
<1>3. /\ Evaluation!CasesOf("VALIDATION") = 1..Validation
      /\ Evaluation!CasesOf("HOLDOUT") = (Validation + 1)..Evaluation!Last
      /\ Evaluation!Cases = 1..Evaluation!Last
      /\ \A s : Evaluation!CasesOf(s) \subseteq Evaluation!Cases
  BY <1>1, <1>2 DEF Evaluation!CasesOf, Evaluation!Cases
<1>4. \A s : Evaluation!Pairs(s) \subseteq Evaluation!CasesOf(s)
  BY DEF Evaluation!Pairs
<1>5. IsFiniteSet(Evaluation!Cases) /\ Cardinality(Evaluation!Cases) = Evaluation!Last
  BY <1>2, <1>3, FS_Interval
<1>6. \A S \in SUBSET Evaluation!Cases :
          IsFiniteSet(S) /\ Evaluation!Cardinality(S) \in 0..Evaluation!Last
  <2> TAKE S \in SUBSET Evaluation!Cases
  <2>1. IsFiniteSet(S) /\ Cardinality(S) <= Evaluation!Last
    BY <1>5, FS_Subset
  <2>2. Cardinality(S) \in Nat
    BY <2>1, FS_CardinalityType
  <2> QED BY <1>2, <2>1, <2>2, EvaluationCounts
<1>7. \A s : Evaluation!Pairs(s) \in SUBSET Evaluation!Cases
  BY <1>3, <1>4
<1>8. \A s, o : {c \in Evaluation!Pairs(s) : attempts[<<c, o>>] = "GOOD"} \in SUBSET Evaluation!Cases
  BY <1>7
<1>9. \A s, o : Evaluation!Good(s, o) \in 0..Evaluation!Last
  BY <1>6, <1>8 DEF Evaluation!Good
<1>10. Evaluation!Cardinality(1..Validation) = Validation
  BY <1>1, FS_Interval, EvaluationCounts
<1> QED BY <1>1, <1>2, <1>3, <1>4, <1>6, <1>7, <1>9, <1>10

LEMMA EvaluationInit ==
    ASSUME Evaluation!Init
    PROVE  EvaluationInv
<1>1. /\ run = "NONE" /\ claim = [version |-> 0, live |-> FALSE] /\ selected = {} /\ decision = "NONE"
      /\ attempts = [x \in Evaluation!Results |-> "NONE"]
      /\ metrics = [s \in Evaluation!Splits |-> Evaluation!NoMetric]
      /\ job = [p \in Runners |-> Evaluation!IdleJob]
  BY DEF Evaluation!Init
<1>2. Evaluation!TypeOK
  BY <1>1, EvaluationSets
     DEF Evaluation!TypeOK, Evaluation!NoMetric, Evaluation!IdleJob, Evaluation!Decisions,
         Evaluation!Steps, Evaluation!Splits
<1>3. EvaluationRows
  BY <1>1, <1>2, EvaluationSets
     DEF EvaluationRows, Evaluation!NoMetric, Evaluation!Results, Evaluation!Splits
<1>4. \A p \in Runners : EvaluationJob(job[p])
  BY <1>1 DEF EvaluationJob, EvaluationCase, EvaluationConclusion, Evaluation!IdleJob
<1> QED BY <1>3, <1>4 DEF EvaluationInv

-----------------------------------------------------------------------------
(* What a step of the store never takes back: results, what counts, saved  *)
(* metrics, a passed validation and the reasons of a rejection.            *)
EvaluationGrows ==
    /\ \A x \in Evaluation!Results : attempts[x] # "NONE" => attempts'[x] = attempts[x]
    /\ selected \subseteq selected'
    /\ metrics["HOLDOUT"].saved => metrics'["HOLDOUT"] = metrics["HOLDOUT"]
    /\ EvaluationPassed => EvaluationPassed'
    /\ EvaluationReason => EvaluationReason'

LEMMA EvaluationJobStays ==
    ASSUME Evaluation!TypeOK, EvaluationGrows, NEW j, EvaluationJob(j), j.case \in Evaluation!Cases
    PROVE  EvaluationJob(j)'
<1>1. <<j.case, "BASELINE">> \in Evaluation!Results /\ <<j.case, "AGENT">> \in Evaluation!Results
  BY DEF Evaluation!Results
<1>2. EvaluationCase(j)'
  BY <1>1 DEF EvaluationJob, EvaluationCase, EvaluationGrows
<1>3. EvaluationConclusion(j)'
  BY DEF EvaluationJob, EvaluationConclusion, EvaluationGrows, Evaluation!MetThreshold
<1> QED BY <1>2, <1>3 DEF EvaluationJob

(* The records the processes keep.                                         *)
EvaluationJobs ==
    [pc : Evaluation!Steps, version : 0..MaxVersion, case : Evaluation!Cases,
     got : Evaluation!Outcomes \cup {"NONE"}, ruling : Evaluation!Decisions]

LEMMA EvaluationMoves ==
    ASSUME EvaluationInv, EvaluationGrows, EvaluationRows', NEW p \in Runners,
           NEW j, job' = [job EXCEPT ![p] = j], EvaluationJob(j)'
    PROVE  EvaluationInv'
<1>1. job \in [Runners -> EvaluationJobs] /\ Evaluation!TypeOK
  BY DEF EvaluationInv, EvaluationRows, Evaluation!TypeOK, EvaluationJobs
<1>2. ASSUME NEW q \in Runners PROVE EvaluationJob(job[q])'
  <2>1. CASE q = p
    <3>1. job'[q] = j
      BY <1>1, <2>1
    <3> QED BY <3>1 DEF EvaluationJob, EvaluationCase, EvaluationConclusion
  <2>2. CASE q # p
    <3>1. job'[q] = job[q] /\ job[q].case \in Evaluation!Cases /\ EvaluationJob(job[q])
      BY <1>1, <2>2 DEF EvaluationInv, EvaluationJobs
    <3>2. PICK k : k = job[q]
      OBVIOUS
    <3>3. EvaluationJob(k)'
      BY <1>1, <3>1, <3>2, EvaluationJobStays
    <3> QED BY <3>1, <3>2, <3>3 DEF EvaluationJob, EvaluationCase, EvaluationConclusion
  <2> QED BY <2>1, <2>2
<1> QED BY <1>2 DEF EvaluationInv

LEMMA EvaluationUnchanged ==
    ASSUME UNCHANGED <<attempts, selected, metrics>>
    PROVE  /\ EvaluationPassed' = EvaluationPassed /\ EvaluationReason' = EvaluationReason
           /\ \A s : Evaluation!Pairs(s)' = Evaluation!Pairs(s)
           /\ \A s : Evaluation!Counted(s)' = Evaluation!Counted(s)
           /\ Evaluation!RetainedEvidence' = Evaluation!RetainedEvidence
BY DEF EvaluationPassed, EvaluationReason, Evaluation!Pairs, Evaluation!GateRejects,
       Evaluation!Reachable, Evaluation!Good, Evaluation!Severe, Evaluation!Counted,
       Evaluation!RetainedEvidence, Evaluation!HardGates, Evaluation!MetThreshold

(* Steps that write nothing but the memory of their process.               *)
LEMMA EvaluationMovesAlone ==
    ASSUME EvaluationInv, UNCHANGED <<attempts, selected, metrics, decision>>,
           run' \in {"NONE", "RUNNING", "COMPLETED"}, claim' \in [version : 0..MaxVersion, live : BOOLEAN],
           NEW p \in Runners, NEW j \in EvaluationJobs, job' = [job EXCEPT ![p] = j], EvaluationJob(j)
    PROVE  EvaluationInv'
<1>1. Evaluation!TypeOK'
  BY DEF EvaluationInv, EvaluationRows, Evaluation!TypeOK, EvaluationJobs
<1>2. /\ EvaluationPassed' = EvaluationPassed /\ EvaluationReason' = EvaluationReason
      /\ \A s : Evaluation!Pairs(s)' = Evaluation!Pairs(s)
      /\ \A s : Evaluation!Counted(s)' = Evaluation!Counted(s)
      /\ Evaluation!RetainedEvidence' = Evaluation!RetainedEvidence
  BY EvaluationUnchanged
<1>3. EvaluationGrows
  BY <1>2 DEF EvaluationGrows
<1>4. EvaluationRows'
  BY <1>1, <1>2 DEF EvaluationInv, EvaluationRows, Evaluation!MetThreshold
<1>5. EvaluationJob(j)'
  BY <1>2 DEF EvaluationJob, EvaluationCase, EvaluationConclusion
<1> QED BY <1>3, <1>4, <1>5, EvaluationMoves

LEMMA EvaluationTypes ==
    ASSUME EvaluationInv, NEW p \in Runners
    PROVE  /\ job \in [Runners -> EvaluationJobs] /\ job[p] \in EvaluationJobs /\ EvaluationJob(job[p])
           /\ job[p].pc \in Evaluation!Steps /\ job[p].version \in 0..MaxVersion
           /\ job[p].case \in Evaluation!Cases /\ job[p].got \in Evaluation!Outcomes \cup {"NONE"}
           /\ job[p].ruling \in Evaluation!Decisions
           /\ run \in {"NONE", "RUNNING", "COMPLETED"} /\ claim \in [version : 0..MaxVersion, live : BOOLEAN]
           /\ Evaluation!TypeOK
BY DEF EvaluationInv, EvaluationRows, Evaluation!TypeOK, EvaluationJobs

(* A process that gives up, or has stopped.                                *)
LEMMA EvaluationQuits ==
    ASSUME EvaluationInv, UNCHANGED <<attempts, selected, metrics, decision>>,
           run' \in {"NONE", "RUNNING", "COMPLETED"}, claim' \in [version : 0..MaxVersion, live : BOOLEAN],
           NEW p \in Runners, Evaluation!Quit(p)
    PROVE  EvaluationInv'
<1>1. PICK j \in EvaluationJobs : j = Evaluation!IdleJob
  <2>1. 1 \in Evaluation!Cases /\ 0 \in 0..MaxVersion
    BY EvaluationSets
  <2> QED BY <2>1 DEF EvaluationJobs, Evaluation!IdleJob, Evaluation!Steps, Evaluation!Decisions
<1>2. EvaluationJob(j) /\ job' = [job EXCEPT ![p] = j]
  BY <1>1 DEF EvaluationJob, EvaluationCase, EvaluationConclusion, Evaluation!IdleJob, Evaluation!Quit
<1> QED BY <1>1, <1>2, EvaluationMovesAlone

LEMMA EvaluationCreates ==
    ASSUME EvaluationInv, NEW p \in Runners, Evaluation!CreateRun(p)
    PROVE  EvaluationInv'
<1>1. PICK j \in EvaluationJobs : job' = [job EXCEPT ![p] = j] /\ j.pc = "CLAIM" /\ j.case = 1
  <2>1. [job[p] EXCEPT !.pc = "CLAIM"] \in EvaluationJobs
    BY EvaluationTypes DEF EvaluationJobs, Evaluation!Steps
  <2>2. [job[p] EXCEPT !.pc = "CLAIM"].pc = "CLAIM" /\ [job[p] EXCEPT !.pc = "CLAIM"].case = 1
    BY EvaluationTypes
       DEF EvaluationJobs, EvaluationJob, EvaluationCase, Evaluation!CreateRun, Evaluation!At
  <2>3. job' = [job EXCEPT ![p] = [job[p] EXCEPT !.pc = "CLAIM"]]
    BY EvaluationTypes DEF Evaluation!CreateRun, Evaluation!Goto
  <2> QED BY <2>1, <2>2, <2>3
<1>2. EvaluationJob(j)
  BY <1>1 DEF EvaluationJob, EvaluationCase, EvaluationConclusion
<1> QED BY <1>1, <1>2, EvaluationMovesAlone, EvaluationTypes DEF Evaluation!CreateRun

LEMMA EvaluationClaims ==
    ASSUME EvaluationInv, NEW p \in Runners, Evaluation!ClaimRun(p)
    PROVE  EvaluationInv'
<1>0. claim.version \in 0..MaxVersion /\ claim.version < MaxVersion /\ job[p].pc = "CLAIM"
  BY EvaluationTypes DEF Evaluation!ClaimRun, Evaluation!At
<1>3. claim.version + 1 \in 0..MaxVersion
  BY <1>0, EvaluationSets
<1>1. CASE run = "RUNNING" /\ ~claim.live
  <2>1. claim' \in [version : 0..MaxVersion, live : BOOLEAN]
    <3>1. claim' = [version |-> claim.version + 1, live |-> TRUE]
      BY <1>1 DEF Evaluation!ClaimRun
    <3> QED BY <1>3, <3>1
  <2> DEFINE k == [job[p] EXCEPT !.pc = "CASE", !.version = claim.version + 1]
  <2>2. k \in EvaluationJobs /\ k.pc = "CASE" /\ k.case = job[p].case
    BY <1>3, EvaluationTypes DEF EvaluationJobs, Evaluation!Steps
  <2>3. job' = [job EXCEPT ![p] = k]
    BY <1>1, EvaluationTypes DEF Evaluation!ClaimRun
  <2>4. PICK j \in EvaluationJobs : job' = [job EXCEPT ![p] = j] /\ j.pc = "CASE" /\ j.case = job[p].case
    <3> HIDE DEF k
    <3> QED BY <2>2, <2>3
  <2>5. EvaluationJob(j)
    <3>1. j.case = 1
      BY <1>0, <2>4, EvaluationTypes DEF EvaluationJob, EvaluationCase
    <3>2. ~(1 > Validation) /\ 1..(1 - 1) = {}
      BY EvaluationSets
    <3> QED BY <2>4, <3>1, <3>2 DEF EvaluationJob, EvaluationCase, EvaluationConclusion
  <2> QED BY <1>1, <2>1, <2>4, <2>5, EvaluationMovesAlone, EvaluationTypes DEF Evaluation!ClaimRun
<1>2. CASE ~(run = "RUNNING" /\ ~claim.live)
  BY <1>2, EvaluationQuits, EvaluationTypes DEF Evaluation!ClaimRun
<1> QED BY <1>1, <1>2

LEMMA EvaluationLeaseEnds ==
    ASSUME EvaluationInv, Evaluation!LeaseEnds
    PROVE  EvaluationInv'
<1>1. claim \in [version : 0..MaxVersion, live : BOOLEAN] /\ job \in [Runners -> EvaluationJobs]
  BY DEF EvaluationInv, EvaluationRows, Evaluation!TypeOK, EvaluationJobs
<1>2. claim' \in [version : 0..MaxVersion, live : BOOLEAN]
      /\ UNCHANGED <<run, attempts, selected, metrics, decision, job>>
  BY <1>1 DEF Evaluation!LeaseEnds
<1>3. CASE Runners = {}
  <2>1. Evaluation!TypeOK'
    BY <1>2 DEF EvaluationInv, EvaluationRows, Evaluation!TypeOK
  <2>2. EvaluationRows'
    BY <1>2, <2>1, EvaluationUnchanged DEF EvaluationInv, EvaluationRows, Evaluation!MetThreshold
  <2> QED BY <1>3, <2>2 DEF EvaluationInv
<1>4. ASSUME NEW p \in Runners PROVE EvaluationInv'
  <2>1. PICK j \in EvaluationJobs : j = job[p]
    BY <1>1
  <2>2. job' = [job EXCEPT ![p] = j] /\ EvaluationJob(j)
    BY <1>1, <1>2, <2>1 DEF EvaluationInv
  <2> QED BY <1>2, <2>1, <2>2, EvaluationMovesAlone, EvaluationTypes
<1> QED BY <1>3, <1>4

LEMMA EvaluationRuns ==
    ASSUME EvaluationInv, NEW p \in Runners, NEW got \in Evaluation!Outcomes, Evaluation!RunCase(p, got)
    PROVE  EvaluationInv'
<1>0. job[p].pc = "CASE" /\ UNCHANGED <<run, claim, attempts, selected, metrics, decision>>
  BY DEF Evaluation!RunCase, Evaluation!At
<1> DEFINE k1 == [job[p] EXCEPT !.pc = "PERSIST", !.ruling = "INCONCLUSIVE"]
           k2 == [job[p] EXCEPT !.pc = "BASELINE", !.got = got]
<1>1. CASE got = "INFRASTRUCTURE" /\ Evaluation!SplitOf(job[p].case) = "VALIDATION"
  <2>1. k1 \in EvaluationJobs /\ k1.pc = "PERSIST" /\ k1.ruling = "INCONCLUSIVE"
    BY EvaluationTypes DEF EvaluationJobs, Evaluation!Steps, Evaluation!Decisions
  <2>2. job' = [job EXCEPT ![p] = k1]
    BY <1>1, EvaluationTypes DEF Evaluation!RunCase
  <2> HIDE DEF k1
  <2>3. PICK j \in EvaluationJobs : job' = [job EXCEPT ![p] = j] /\ j.pc = "PERSIST" /\ j.ruling = "INCONCLUSIVE"
    BY <2>1, <2>2
  <2>4. EvaluationJob(j)
    BY <2>3 DEF EvaluationJob, EvaluationCase, EvaluationConclusion
  <2> QED BY <1>0, <2>3, <2>4, EvaluationMovesAlone, EvaluationTypes
<1>2. CASE got = "INFRASTRUCTURE" /\ Evaluation!SplitOf(job[p].case) = "HOLDOUT"
  <2>1. Evaluation!Quit(p)
    BY <1>2 DEF Evaluation!RunCase
  <2> QED BY <1>0, <2>1, EvaluationQuits, EvaluationTypes
<1>3. CASE got # "INFRASTRUCTURE"
  <2>1. k2 \in EvaluationJobs /\ k2.pc = "BASELINE" /\ k2.got = got /\ k2.case = job[p].case
    BY EvaluationTypes DEF EvaluationJobs, Evaluation!Steps
  <2>2. job' = [job EXCEPT ![p] = k2]
    BY <1>3, EvaluationTypes DEF Evaluation!RunCase
  <2> HIDE DEF k2
  <2>3. PICK j \in EvaluationJobs :
            job' = [job EXCEPT ![p] = j] /\ j.pc = "BASELINE" /\ j.got = got /\ j.case = job[p].case
    BY <2>1, <2>2
  <2>4. EvaluationJob(j)
    BY <1>0, <1>3, <2>3, EvaluationTypes DEF EvaluationJob, EvaluationCase, EvaluationConclusion
  <2> QED BY <1>0, <2>3, <2>4, EvaluationMovesAlone, EvaluationTypes
<1> QED BY <1>1, <1>2, <1>3 DEF Evaluation!SplitOf

LEMMA EvaluationDecides ==
    ASSUME EvaluationInv, NEW p \in Runners, Evaluation!Decide(p)
    PROVE  EvaluationInv'
<1>0. job[p].pc = "DECIDE" /\ UNCHANGED <<run, claim, attempts, selected, metrics, decision>>
  BY DEF Evaluation!Decide, Evaluation!At
<1>1. metrics["HOLDOUT"].saved
  BY <1>0, EvaluationTypes DEF EvaluationJob, EvaluationConclusion
<1>2. /\ Evaluation!Ruling \in {"REJECTED", "RETAINED"}
      /\ Evaluation!Ruling = "RETAINED" => Evaluation!MetThreshold(metrics["HOLDOUT"], "HOLDOUT")
      /\ Evaluation!Ruling = "REJECTED" => EvaluationReason
  BY <1>1 DEF Evaluation!Ruling, EvaluationReason, Evaluation!GateRejects
<1> DEFINE k == [job[p] EXCEPT !.pc = "PERSIST", !.ruling = Evaluation!Ruling]
<1>3. k \in EvaluationJobs /\ k.pc = "PERSIST" /\ k.ruling = Evaluation!Ruling
  BY <1>2, EvaluationTypes DEF EvaluationJobs, Evaluation!Steps, Evaluation!Decisions
<1>4. job' = [job EXCEPT ![p] = k]
  BY EvaluationTypes DEF Evaluation!Decide
<1> HIDE DEF k
<1>5. PICK j \in EvaluationJobs : job' = [job EXCEPT ![p] = j] /\ j.pc = "PERSIST" /\ j.ruling = Evaluation!Ruling
  BY <1>3, <1>4
<1>6. EvaluationJob(j)
  BY <1>1, <1>2, <1>5 DEF EvaluationJob, EvaluationCase, EvaluationConclusion
<1> QED BY <1>0, <1>5, <1>6, EvaluationMovesAlone, EvaluationTypes

(* Everything up to the case of a process that asks the gate counts.       *)
LEMMA EvaluationGate ==
    ASSUME EvaluationInv, NEW p \in Runners, Evaluation!Gate(p)
    PROVE  EvaluationInv'
<1> DEFINE c == job[p].case
           Due == c <= Validation /\ c % ShardSize = 0
<1>0. /\ job[p].pc = "GATE" /\ UNCHANGED <<run, claim, attempts, selected, metrics, decision>>
      /\ c \in Nat /\ c \in 1..Evaluation!Last /\ c # Evaluation!Last
  BY EvaluationTypes, EvaluationSets
     DEF Evaluation!Gate, Evaluation!At, EvaluationJob, EvaluationConclusion
<1>1. \A k \in 1..c : {<<k, "BASELINE">>, <<k, "AGENT">>} \subseteq selected
  <2>1. \A k \in 1..c : k = c \/ k \in 1..(c - 1)
    BY <1>0
  <2> QED BY <1>0, <2>1, EvaluationTypes DEF EvaluationJob, EvaluationCase
<1>2. CASE Due /\ Evaluation!HalfPair("VALIDATION")
  <2>1. Evaluation!Quit(p)
    BY <1>2 DEF Evaluation!Gate
  <2> QED BY <1>0, <2>1, EvaluationQuits, EvaluationTypes
<1>3. CASE Due /\ ~Evaluation!HalfPair("VALIDATION") /\ Evaluation!GateRejects
  <2> DEFINE k == [job[p] EXCEPT !.pc = "PERSIST", !.ruling = "REJECTED"]
  <2>1. k \in EvaluationJobs /\ k.pc = "PERSIST" /\ k.ruling = "REJECTED"
    BY EvaluationTypes DEF EvaluationJobs, Evaluation!Steps, Evaluation!Decisions
  <2>2. job' = [job EXCEPT ![p] = k]
    BY <1>3, EvaluationTypes DEF Evaluation!Gate
  <2> HIDE DEF k
  <2>3. PICK j \in EvaluationJobs : job' = [job EXCEPT ![p] = j] /\ j.pc = "PERSIST" /\ j.ruling = "REJECTED"
    BY <2>1, <2>2
  <2>4. EvaluationJob(j)
    BY <1>3, <2>3 DEF EvaluationJob, EvaluationCase, EvaluationConclusion, EvaluationReason
  <2> QED BY <1>0, <2>3, <2>4, EvaluationMovesAlone, EvaluationTypes
<1>4. CASE Due /\ ~Evaluation!HalfPair("VALIDATION") /\ ~Evaluation!GateRejects /\ c = Validation
  <2> DEFINE k == [job[p] EXCEPT !.pc = "METRICS"]
  <2>1. k \in EvaluationJobs /\ k.pc = "METRICS" /\ k.case = job[p].case
    BY EvaluationTypes DEF EvaluationJobs, Evaluation!Steps
  <2>2. job' = [job EXCEPT ![p] = k]
    BY <1>4, EvaluationTypes DEF Evaluation!Gate, Evaluation!Goto
  <2> HIDE DEF k
  <2>3. PICK j \in EvaluationJobs : job' = [job EXCEPT ![p] = j] /\ j.pc = "METRICS" /\ j.case = job[p].case
    BY <2>1, <2>2
  <2>4. EvaluationPassed
    BY <1>1, <1>4, EvaluationSets DEF EvaluationPassed, Evaluation!Pairs
  <2>5. EvaluationJob(j)
    BY <1>0, <1>4, <2>3, <2>4, EvaluationTypes DEF EvaluationJob, EvaluationCase, EvaluationConclusion
  <2> QED BY <1>0, <2>3, <2>5, EvaluationMovesAlone, EvaluationTypes
<1>5. CASE ~Due \/ (~Evaluation!HalfPair("VALIDATION") /\ ~Evaluation!GateRejects /\ c # Validation)
  <2>1. c + 1 \in Evaluation!Cases
    BY <1>0, EvaluationSets
  <2> DEFINE k == [job[p] EXCEPT !.pc = "CASE", !.case = c + 1]
  <2>2. k \in EvaluationJobs /\ k.pc = "CASE" /\ k.case = c + 1
    BY <2>1, EvaluationTypes DEF EvaluationJobs, Evaluation!Steps
  <2>3. job' = [job EXCEPT ![p] = k]
    BY <1>5, EvaluationTypes DEF Evaluation!Gate
  <2> HIDE DEF k
  <2>4. PICK j \in EvaluationJobs : job' = [job EXCEPT ![p] = j] /\ j.pc = "CASE" /\ j.case = c + 1
    BY <2>2, <2>3
  <2>5. c # Validation
    BY <1>5, EvaluationSets, EvaluationAssumption
  <2>6. c + 1 > Validation => EvaluationPassed
    <3>1. c + 1 > Validation => c > Validation
      BY <1>0, <2>5, EvaluationSets
    <3> QED BY <1>0, <3>1, EvaluationTypes DEF EvaluationJob, EvaluationCase
  <2>7. (c + 1) - 1 = c
    BY <1>0
  <2> HIDE DEF c
  <2>8. EvaluationJob(j)
    BY <1>1, <2>4, <2>6, <2>7 DEF EvaluationJob, EvaluationCase, EvaluationConclusion
  <2> QED BY <1>0, <2>4, <2>8, EvaluationMovesAlone, EvaluationTypes
<1> QED BY <1>2, <1>3, <1>4, <1>5

-----------------------------------------------------------------------------
(* A result is stored: what counts goes on counting the same.              *)
LEMMA EvaluationStores ==
    ASSUME EvaluationInv, NEW x \in Evaluation!Results, NEW v \in Evaluation!Outcomes \ {"INFRASTRUCTURE"},
           attempts[x] \in {"NONE", v}, attempts' = [attempts EXCEPT ![x] = v],
           UNCHANGED <<run, claim, selected, metrics, decision>>,
           x[2] = "BASELINE" /\ x[1] > Validation => EvaluationPassed,
           x[2] = "BASELINE" => v = EvaluationBaseline(x[1]),
           NEW p \in Runners, NEW j \in EvaluationJobs, job' = [job EXCEPT ![p] = j],
           EvaluationGrows => EvaluationJob(j)'
    PROVE  EvaluationInv'
<1>1. /\ attempts \in [Evaluation!Results -> (Evaluation!Outcomes \ {"INFRASTRUCTURE"}) \cup {"NONE"}]
      /\ v # "NONE" /\ selected \subseteq Evaluation!Results
      /\ job \in [Runners -> EvaluationJobs]
  BY DEF EvaluationInv, EvaluationRows, Evaluation!TypeOK, Evaluation!Outcomes, EvaluationJobs
<1>2. Evaluation!TypeOK'
  BY <1>1 DEF EvaluationInv, EvaluationRows, Evaluation!TypeOK, EvaluationJobs
<1>3. /\ \A y \in Evaluation!Results : attempts[y] # "NONE" => attempts'[y] = attempts[y]
      /\ \A y \in selected : attempts[y] # "NONE" /\ attempts'[y] = attempts[y]
  BY <1>1 DEF EvaluationInv, EvaluationRows
<1>4. \A s : Evaluation!Pairs(s)' = Evaluation!Pairs(s)
  BY DEF Evaluation!Pairs
<1>5. \A s : \A c \in Evaluation!Pairs(s) : /\ attempts'[<<c, "BASELINE">>] = attempts[<<c, "BASELINE">>]
                                            /\ attempts'[<<c, "AGENT">>] = attempts[<<c, "AGENT">>]
                                            /\ attempts[<<c, "AGENT">>] # "NONE"
  BY <1>3 DEF Evaluation!Pairs
<1>6. \A s : Evaluation!Severe(s)' = Evaluation!Severe(s)
  BY <1>4, <1>5 DEF Evaluation!Severe
<1>7. \A s : /\ Evaluation!Good(s, "AGENT")' = Evaluation!Good(s, "AGENT")
             /\ Evaluation!Good(s, "BASELINE")' = Evaluation!Good(s, "BASELINE")
  <2> TAKE s
  <2>1. {c \in Evaluation!Pairs(s) : attempts[<<c, "AGENT">>] = "GOOD"}' =
        {c \in Evaluation!Pairs(s) : attempts[<<c, "AGENT">>] = "GOOD"}
    BY <1>4, <1>5
  <2>2. {c \in Evaluation!Pairs(s) : attempts[<<c, "BASELINE">>] = "GOOD"}' =
        {c \in Evaluation!Pairs(s) : attempts[<<c, "BASELINE">>] = "GOOD"}
    BY <1>4, <1>5
  <2> QED BY <2>1, <2>2 DEF Evaluation!Good
<1>8. /\ Evaluation!GateRejects' = Evaluation!GateRejects
      /\ \A s : Evaluation!Counted(s)' = Evaluation!Counted(s)
  BY <1>4, <1>6, <1>7 DEF Evaluation!GateRejects, Evaluation!Reachable, Evaluation!Counted
<1>9. EvaluationPassed' = EvaluationPassed /\ EvaluationReason' = EvaluationReason
  BY <1>4, <1>6, <1>8 DEF EvaluationPassed, EvaluationReason, Evaluation!MetThreshold
<1>10. EvaluationGrows
  BY <1>3, <1>9 DEF EvaluationGrows
<1>11. \A c \in Evaluation!CasesOf("HOLDOUT") : attempts'[<<c, "BASELINE">>] # "NONE" => EvaluationPassed'
  <2> SUFFICES ASSUME NEW c \in Evaluation!CasesOf("HOLDOUT"), attempts'[<<c, "BASELINE">>] # "NONE"
               PROVE  EvaluationPassed
    BY <1>9
  <2>1. c \in Evaluation!Cases /\ c > Validation
    BY EvaluationSets
  <2>2. <<c, "BASELINE">> \in Evaluation!Results
    BY <2>1 DEF Evaluation!Results
  <2>3. CASE x = <<c, "BASELINE">>
    BY <2>1, <2>3
  <2>4. CASE x # <<c, "BASELINE">>
    BY <1>1, <2>2, <2>4 DEF EvaluationInv, EvaluationRows
  <2> QED BY <2>3, <2>4
<1>12. Evaluation!RetainedEvidence => Evaluation!RetainedEvidence'
  <2> SUFFICES ASSUME Evaluation!RetainedEvidence PROVE Evaluation!RetainedEvidence'
    OBVIOUS
  <2>1. \A c \in Evaluation!Cases : \E s \in Evaluation!Splits : c \in Evaluation!Pairs(s)
    BY EvaluationSets DEF Evaluation!RetainedEvidence, Evaluation!Splits
  <2>2. \A c \in Evaluation!Cases : attempts'[<<c, "AGENT">>] = attempts[<<c, "AGENT">>]
    BY <1>5, <2>1
  <2>3. Evaluation!HardGates'
    BY <2>2 DEF Evaluation!RetainedEvidence, Evaluation!HardGates
  <2> QED BY <1>4, <1>6, <2>3 DEF Evaluation!RetainedEvidence, Evaluation!CasesOf
<1>13. \A s \in Evaluation!Splits : metrics'[s].saved =>
          Evaluation!Pairs(s)' = Evaluation!CasesOf(s) /\ metrics'[s] = Evaluation!Counted(s)'
  BY <1>4, <1>8 DEF EvaluationInv, EvaluationRows
<1>14. decision' = "RETAINED" =>
          /\ Evaluation!RetainedEvidence'
          /\ \A s \in Evaluation!Splits : Evaluation!MetThreshold(Evaluation!Counted(s), s)'
  BY <1>8, <1>12 DEF EvaluationInv, EvaluationRows, Evaluation!MetThreshold
<1>15. \A c \in Evaluation!Cases : attempts'[<<c, "BASELINE">>] \in {"NONE", EvaluationBaseline(c)}
  <2> TAKE c \in Evaluation!Cases
  <2>1. <<c, "BASELINE">> \in Evaluation!Results
    BY DEF Evaluation!Results
  <2> QED BY <1>1, <2>1 DEF EvaluationInv, EvaluationRows
<1>16. EvaluationRows'
  BY <1>2, <1>3, <1>9, <1>11, <1>13, <1>14, <1>15 DEF EvaluationInv, EvaluationRows
<1> QED BY <1>10, <1>16, EvaluationMoves

LEMMA EvaluationAppendsBaseline ==
    ASSUME EvaluationInv, NEW p \in Runners, Evaluation!AppendBaseline(p)
    PROVE  EvaluationInv'
<1> DEFINE c == job[p].case
           ok == Evaluation!HoldsClaim(p) /\ \A y \in selected : y[1] # c
           w == EvaluationBaseline(c)
<1>0. /\ job[p].pc = "BASELINE" /\ UNCHANGED <<run, claim, selected, metrics, decision>>
      /\ c \in Evaluation!Cases
  BY EvaluationTypes DEF Evaluation!AppendBaseline, Evaluation!At
<1>1. CASE ~ok
  <2>1. Evaluation!Quit(p) /\ UNCHANGED attempts
    BY <1>1 DEF Evaluation!AppendBaseline
  <2> QED BY <1>0, <2>1, EvaluationQuits, EvaluationTypes
<1>2. CASE ok
  <2> DEFINE k == [job[p] EXCEPT !.pc = "AGENT"]
  <2>1. /\ k \in EvaluationJobs /\ k.pc = "AGENT" /\ k.case = c /\ k.got = job[p].got
    BY EvaluationTypes DEF EvaluationJobs, Evaluation!Steps
  <2>2. job' = [job EXCEPT ![p] = k] /\ attempts' = [attempts EXCEPT ![<<c, "BASELINE">>] = w]
    BY <1>2, EvaluationTypes DEF Evaluation!AppendBaseline, Evaluation!Goto, EvaluationBaseline
  <2> HIDE DEF k
  <2>3. PICK j \in EvaluationJobs :
            job' = [job EXCEPT ![p] = j] /\ j.pc = "AGENT" /\ j.case = c /\ j.got = job[p].got
    BY <2>1, <2>2
  <2>4. PICK x : x = <<c, "BASELINE">>
    OBVIOUS
  <2>5. PICK v : v = w
    OBVIOUS
  <2>6. x \in Evaluation!Results /\ v \in Evaluation!Outcomes \ {"INFRASTRUCTURE"}
    BY <1>0, <2>4, <2>5 DEF Evaluation!Results, Evaluation!Outcomes, EvaluationBaseline
  <2>7. attempts[x] \in {"NONE", v}
    BY <1>0, <2>4, <2>5 DEF EvaluationInv, EvaluationRows
  <2>8. c > Validation => EvaluationPassed
    BY <1>0, EvaluationTypes DEF EvaluationJob, EvaluationCase
  <2>9. attempts'[x] # "NONE"
    BY <2>2, <2>4, <2>5, <2>6 DEF EvaluationInv, EvaluationRows, Evaluation!TypeOK,
            Evaluation!Outcomes, EvaluationBaseline
  <2>10. EvaluationGrows => EvaluationJob(j)'
    <3>1. /\ \A i \in 1..(j.case - 1) : {<<i, "BASELINE">>, <<i, "AGENT">>} \subseteq selected
          /\ j.got \in Evaluation!Outcomes \ {"INFRASTRUCTURE"}
      BY <1>0, <2>3, EvaluationTypes DEF EvaluationJob, EvaluationCase
    <3> QED BY <2>3, <2>4, <2>8, <2>9, <3>1
            DEF EvaluationJob, EvaluationCase, EvaluationConclusion, EvaluationGrows
  <2> QED BY <1>0, <2>2, <2>3, <2>4, <2>5, <2>6, <2>7, <2>8, <2>10, EvaluationStores
<1> QED BY <1>1, <1>2

LEMMA EvaluationAppendsAgent ==
    ASSUME EvaluationInv, NEW p \in Runners, Evaluation!AppendAgent(p)
    PROVE  EvaluationInv'
<1> DEFINE c == job[p].case
           v == job[p].got
<1>0. /\ job[p].pc = "AGENT" /\ UNCHANGED <<run, claim, selected, metrics, decision>>
      /\ c \in Evaluation!Cases /\ v \in Evaluation!Outcomes \ {"INFRASTRUCTURE"}
  BY EvaluationTypes DEF Evaluation!AppendAgent, Evaluation!At, EvaluationJob, EvaluationCase
<1>1. CASE Evaluation!Quit(p) /\ UNCHANGED attempts
  BY <1>0, <1>1, EvaluationQuits, EvaluationTypes
<1>2. CASE /\ attempts[<<c, "AGENT">>] \in {"NONE", v}
           /\ attempts' = [attempts EXCEPT ![<<c, "AGENT">>] = v]
           /\ Evaluation!Goto(p, "SELECT_BASELINE")
  <2> DEFINE k == [job[p] EXCEPT !.pc = "SELECT_BASELINE"]
  <2>1. k \in EvaluationJobs /\ k.pc = "SELECT_BASELINE" /\ k.case = c
    BY EvaluationTypes DEF EvaluationJobs, Evaluation!Steps
  <2>2. job' = [job EXCEPT ![p] = k]
    BY <1>2, EvaluationTypes DEF Evaluation!Goto
  <2> HIDE DEF k
  <2>3. PICK j \in EvaluationJobs : job' = [job EXCEPT ![p] = j] /\ j.pc = "SELECT_BASELINE" /\ j.case = c
    BY <2>1, <2>2
  <2>4. PICK x : x = <<c, "AGENT">>
    OBVIOUS
  <2>5. PICK u : u = v
    OBVIOUS
  <2>6. x \in Evaluation!Results /\ <<c, "BASELINE">> \in Evaluation!Results /\ x # <<c, "BASELINE">>
    BY <1>0, <2>4 DEF Evaluation!Results
  <2>7. attempts'[x] # "NONE"
    BY <1>0, <1>2, <2>4, <2>5, <2>6 DEF EvaluationInv, EvaluationRows, Evaluation!TypeOK, Evaluation!Outcomes
  <2>8. EvaluationGrows => EvaluationJob(j)'
    <3>1. /\ \A i \in 1..(j.case - 1) : {<<i, "BASELINE">>, <<i, "AGENT">>} \subseteq selected
          /\ j.case > Validation => EvaluationPassed
          /\ attempts[<<j.case, "BASELINE">>] # "NONE"
      BY <1>0, <2>3, EvaluationTypes DEF EvaluationJob, EvaluationCase
    <3> QED BY <2>3, <2>4, <2>6, <2>7, <3>1
            DEF EvaluationJob, EvaluationCase, EvaluationConclusion, EvaluationGrows
  <2> QED BY <1>0, <1>2, <2>3, <2>4, <2>5, <2>6, <2>8, EvaluationStores
<1> QED BY <1>1, <1>2 DEF Evaluation!AppendAgent

-----------------------------------------------------------------------------
LEMMA EvaluationMax ==
    ASSUME NEW x \in Nat, NEW y \in Nat
    PROVE  /\ Evaluation!Max({x, y}) \in {x, y}
           /\ x <= Evaluation!Max({x, y}) /\ y <= Evaluation!Max({x, y})
<1>1. \E m \in {x, y} : \A e \in {x, y} : m >= e
  OBVIOUS
<1>2. /\ Evaluation!Max({x, y}) \in {x, y}
      /\ \A e \in {x, y} : Evaluation!Max({x, y}) >= e
  BY <1>1 DEF Evaluation!Max
<1> QED BY <1>2

(* What the gate asks of the rest of the validation, without a maximum.    *)
EvaluationReach ==
    LET left == Evaluation!Good("VALIDATION", "AGENT") + Validation
                  - Evaluation!Cardinality(Evaluation!Pairs("VALIDATION"))
    IN  /\ left >= MinGood["VALIDATION"]
        /\ left >= Evaluation!Good("VALIDATION", "BASELINE") + Margin["VALIDATION"]

LEMMA EvaluationReaches == Evaluation!Reachable <=> EvaluationReach
<1>1. PICK x \in Nat : x = MinGood["VALIDATION"]
  BY EvaluationAssumption DEF Evaluation!Splits
<1>2. PICK y \in Nat : y = Evaluation!Good("VALIDATION", "BASELINE") + Margin["VALIDATION"]
  <2>1. Margin["VALIDATION"] \in Nat
    BY EvaluationAssumption DEF Evaluation!Splits
  <2>2. Evaluation!Good("VALIDATION", "BASELINE") \in Nat
    BY EvaluationSets
  <2> QED BY <2>1, <2>2
<1>3. PICK left \in Int : left = Evaluation!Good("VALIDATION", "AGENT") + Validation
                      - Evaluation!Cardinality(Evaluation!Pairs("VALIDATION"))
  <2>1. Evaluation!Good("VALIDATION", "AGENT") \in Nat /\ Validation \in Nat
        /\ Evaluation!Cardinality(Evaluation!Pairs("VALIDATION")) \in Nat
    BY EvaluationSets
  <2> QED BY <2>1
<1>4. Evaluation!Reachable <=> left >= Evaluation!Max({x, y})
  BY <1>1, <1>2, <1>3 DEF Evaluation!Reachable
<1>5. left >= Evaluation!Max({x, y}) <=> left >= x /\ left >= y
  BY EvaluationMax
<1> QED BY <1>1, <1>2, <1>3, <1>4, <1>5 DEF EvaluationReach

(* One result more that counts: a pair at most is new.                     *)
LEMMA EvaluationPairs ==
    ASSUME EvaluationInv, NEW c \in Evaluation!Cases, NEW o \in {"BASELINE", "AGENT"},
           selected' = selected \cup {<<c, o>>}, UNCHANGED attempts, NEW s
    PROVE  /\ Evaluation!Pairs(s) \subseteq Evaluation!Pairs(s)'
           /\ Evaluation!Pairs(s)' \in {Evaluation!Pairs(s), Evaluation!Pairs(s) \cup {c}}
           /\ Evaluation!Severe(s) \subseteq Evaluation!Severe(s)'
           /\ Evaluation!Pairs(s) = Evaluation!CasesOf(s) => Evaluation!Pairs(s)' = Evaluation!Pairs(s)
<1>1. Evaluation!Pairs(s) \subseteq Evaluation!Pairs(s)'
  BY DEF Evaluation!Pairs
<1>2. Evaluation!Pairs(s)' \in {Evaluation!Pairs(s), Evaluation!Pairs(s) \cup {c}}
  <2>1. \A k : k # c => (k \in Evaluation!Pairs(s)' <=> k \in Evaluation!Pairs(s))
    BY DEF Evaluation!Pairs
  <2> QED BY <1>1, <2>1
<1>3. Evaluation!Severe(s) \subseteq Evaluation!Severe(s)'
  BY <1>1 DEF Evaluation!Severe
<1>4. Evaluation!Pairs(s)' \subseteq Evaluation!CasesOf(s)
  BY DEF Evaluation!Pairs, Evaluation!CasesOf
<1> QED BY <1>1, <1>2, <1>3, <1>4

LEMMA EvaluationSelectCounts ==
    ASSUME EvaluationInv, NEW c \in Evaluation!Cases, NEW o \in {"BASELINE", "AGENT"},
           selected' = selected \cup {<<c, o>>}, UNCHANGED attempts, NEW s, NEW w
    PROVE  LET n == Evaluation!Cardinality(Evaluation!Pairs(s))
           IN  /\ n \in Nat /\ n' \in {n, n + 1} /\ Evaluation!Good(s, w) \in Nat
               /\ Evaluation!Good(s, w)' \in Nat
               /\ Evaluation!Good(s, w) <= Evaluation!Good(s, w)'
               /\ Evaluation!Good(s, w)' <= Evaluation!Good(s, w) + (n' - n)
<1> DEFINE P == Evaluation!Pairs(s)
           G == {k \in P : attempts[<<k, w>>] = "GOOD"}
<1>1. IsFiniteSet(P) /\ IsFiniteSet(G)
  <2>1. IsFiniteSet(P)
    BY EvaluationSets
  <2> QED BY <2>1, FS_Subset
<1>2. Cardinality(P) \in Nat /\ Cardinality(G) \in Nat
  BY <1>1, FS_CardinalityType
<1>3. Evaluation!Good(s, w) = Cardinality(G) /\ Evaluation!Good(s, w)' = Cardinality(G')
  BY EvaluationCounts DEF Evaluation!Good
<1>4. Evaluation!Cardinality(P) = Cardinality(P) /\ Evaluation!Cardinality(P)' = Cardinality(P')
  BY EvaluationCounts
<1>5. P' = P \/ (P' = P \cup {c} /\ c \notin P)
  BY EvaluationPairs
<1>6. CASE P' = P
  <2>1. G' = G
    BY <1>6
  <2> HIDE DEF P, G
  <2>2. Cardinality(P') = Cardinality(P) /\ Cardinality(G') = Cardinality(G)
    BY <1>6, <2>1
  <2> QED BY <1>2, <1>3, <1>4, <2>2 DEF P
<1>7. CASE P' = P \cup {c} /\ c \notin P
  <2>1. G' = G \/ (G' = G \cup {c} /\ c \notin G)
    BY <1>7
  <2> HIDE DEF P, G
  <2>2. Cardinality(P') = Cardinality(P) + 1
    BY <1>1, <1>7, FS_AddElement
  <2>3. Cardinality(G') = Cardinality(G) \/ Cardinality(G') = Cardinality(G) + 1
    BY <1>1, <2>1, FS_AddElement
  <2> QED BY <1>2, <1>3, <1>4, <2>2, <2>3 DEF P
<1> QED BY <1>5, <1>6, <1>7

(* A gate that rejects goes on rejecting, whatever else comes to count.    *)
LEMMA EvaluationRejectsOn ==
    ASSUME EvaluationInv, NEW c \in Evaluation!Cases, NEW o \in {"BASELINE", "AGENT"},
           selected' = selected \cup {<<c, o>>}, UNCHANGED attempts, Evaluation!GateRejects
    PROVE  Evaluation!GateRejects'
<1>1. CASE Evaluation!Severe("VALIDATION") # {}
  <2>1. Evaluation!Severe("VALIDATION") \subseteq Evaluation!Severe("VALIDATION")'
    BY EvaluationPairs
  <2> QED BY <1>1, <2>1 DEF Evaluation!GateRejects
<1>2. CASE ~Evaluation!Reachable
  <2> DEFINE n == Evaluation!Cardinality(Evaluation!Pairs("VALIDATION"))
             g == Evaluation!Good("VALIDATION", "AGENT")
             b0 == Evaluation!Good("VALIDATION", "BASELINE")
  <2>1. n \in Nat /\ n' \in {n, n + 1} /\ g \in Nat /\ g' \in Nat /\ g' <= g + (n' - n)
    BY EvaluationSelectCounts
  <2>2. b0 \in Nat /\ b0' \in Nat /\ b0 <= b0'
    BY EvaluationSelectCounts
  <2>3. /\ Validation \in Nat /\ MinGood["VALIDATION"] \in Nat /\ Margin["VALIDATION"] \in Nat
    BY EvaluationAssumption DEF Evaluation!Splits
  <2>4. Evaluation!Reachable <=>
            g + Validation - n >= MinGood["VALIDATION"] /\ g + Validation - n >= b0 + Margin["VALIDATION"]
    BY EvaluationReaches DEF EvaluationReach
  <2>5. (Evaluation!Reachable <=> EvaluationReach)'
    BY EvaluationReaches, PTL
  <2>6. Evaluation!Reachable' <=>
            g' + Validation - n' >= MinGood["VALIDATION"] /\ g' + Validation - n' >= b0' + Margin["VALIDATION"]
    BY <2>5 DEF EvaluationReach
  <2>7. PICK n0, n1, x0, x1, y0, y1 \in Nat :
            n0 = n /\ n1 = n' /\ x0 = g /\ x1 = g' /\ y0 = b0 /\ y1 = b0'
    BY <2>1, <2>2
  <2>8. PICK m, k \in Nat : m = MinGood["VALIDATION"] /\ k = Margin["VALIDATION"]
    BY <2>3
  <2>9. /\ n1 \in {n0, n0 + 1} /\ x1 <= x0 + (n1 - n0) /\ y0 <= y1
    BY <2>1, <2>2, <2>7
  <2>10. Evaluation!Reachable' <=> x1 + Validation - n1 >= m /\ x1 + Validation - n1 >= y1 + k
    BY <2>6, <2>7, <2>8
  <2>11. Evaluation!Reachable <=> x0 + Validation - n0 >= m /\ x0 + Validation - n0 >= y0 + k
    BY <2>4, <2>7, <2>8
  <2> HIDE DEF n, g, b0
  <2>12. ASSUME x1 + Validation - n1 >= m, x1 + Validation - n1 >= y1 + k
         PROVE  x0 + Validation - n0 >= m /\ x0 + Validation - n0 >= y0 + k
    BY <2>3, <2>9, <2>12
  <2>13. ~Evaluation!Reachable'
    BY <1>2, <2>10, <2>11, <2>12
  <2> QED BY <2>13 DEF Evaluation!GateRejects
<1> QED BY <1>1, <1>2 DEF Evaluation!GateRejects

(* A result comes to count: a split that counts completely stays as it is. *)
LEMMA EvaluationSelects ==
    ASSUME EvaluationInv, NEW c \in Evaluation!Cases, NEW o \in {"BASELINE", "AGENT"},
           selected' = selected \cup {<<c, o>>}, attempts[<<c, o>>] # "NONE",
           UNCHANGED <<run, claim, attempts, metrics, decision>>,
           NEW p \in Runners, NEW j \in EvaluationJobs, job' = [job EXCEPT ![p] = j],
           EvaluationGrows => EvaluationJob(j)'
    PROVE  EvaluationInv'
<1>1. job \in [Runners -> EvaluationJobs] /\ Evaluation!TypeOK
  BY DEF EvaluationInv, EvaluationRows, Evaluation!TypeOK, EvaluationJobs
<1>2. Evaluation!TypeOK'
  BY <1>1 DEF Evaluation!TypeOK, EvaluationJobs, Evaluation!Results
<1>3. \A s : Evaluation!Pairs(s) = Evaluation!CasesOf(s) =>
          /\ Evaluation!Pairs(s)' = Evaluation!Pairs(s)
          /\ Evaluation!Counted(s)' = Evaluation!Counted(s)
          /\ Evaluation!Severe(s)' = Evaluation!Severe(s)
  <2> SUFFICES ASSUME NEW s, Evaluation!Pairs(s) = Evaluation!CasesOf(s)
               PROVE  /\ Evaluation!Pairs(s)' = Evaluation!Pairs(s)
                      /\ Evaluation!Counted(s)' = Evaluation!Counted(s)
                      /\ Evaluation!Severe(s)' = Evaluation!Severe(s)
    OBVIOUS
  <2>1. Evaluation!Pairs(s)' = Evaluation!Pairs(s)
    BY EvaluationPairs
  <2> QED BY <2>1 DEF Evaluation!Counted, Evaluation!Good, Evaluation!Severe
<1>4. EvaluationPassed => EvaluationPassed'
  <2>1. Evaluation!CasesOf("VALIDATION")' = Evaluation!CasesOf("VALIDATION")
    BY DEF Evaluation!CasesOf
  <2> QED BY <1>3, <2>1 DEF EvaluationPassed, Evaluation!GateRejects, Evaluation!Reachable, Evaluation!Counted
<1>5. EvaluationReason => EvaluationReason'
  <2>1. Evaluation!Severe("HOLDOUT") \subseteq Evaluation!Severe("HOLDOUT")'
    BY EvaluationPairs
  <2> QED BY <2>1, EvaluationRejectsOn DEF EvaluationReason, Evaluation!MetThreshold
<1>6. EvaluationGrows
  BY <1>4, <1>5 DEF EvaluationGrows
<1>7. \A s \in Evaluation!Splits : metrics'[s].saved =>
          Evaluation!Pairs(s)' = Evaluation!CasesOf(s) /\ metrics'[s] = Evaluation!Counted(s)'
  BY <1>3 DEF EvaluationInv, EvaluationRows
<1>8. decision' = "RETAINED" =>
          /\ Evaluation!RetainedEvidence'
          /\ \A s \in Evaluation!Splits : Evaluation!MetThreshold(Evaluation!Counted(s), s)'
  <2> SUFFICES ASSUME decision = "RETAINED"
               PROVE  /\ Evaluation!RetainedEvidence'
                      /\ \A s \in Evaluation!Splits : Evaluation!MetThreshold(Evaluation!Counted(s), s)'
    OBVIOUS
  <2>1. /\ Evaluation!RetainedEvidence
        /\ \A s \in Evaluation!Splits : Evaluation!MetThreshold(Evaluation!Counted(s), s)
    BY DEF EvaluationInv, EvaluationRows
  <2> QED BY <1>3, <2>1 DEF Evaluation!RetainedEvidence, Evaluation!HardGates, Evaluation!MetThreshold
<1>9. \A x \in selected' : attempts'[x] # "NONE"
  BY DEF EvaluationInv, EvaluationRows
<1>10. \A k \in Evaluation!CasesOf("HOLDOUT") : attempts'[<<k, "BASELINE">>] # "NONE" => EvaluationPassed'
  BY <1>4 DEF EvaluationInv, EvaluationRows
<1>11. \A k \in Evaluation!Cases : attempts'[<<k, "BASELINE">>] \in {"NONE", EvaluationBaseline(k)}
  BY DEF EvaluationInv, EvaluationRows
<1>12. decision' = "REJECTED" => EvaluationReason'
  BY <1>5 DEF EvaluationInv, EvaluationRows
<1>13. EvaluationRows'
  BY <1>2, <1>7, <1>8, <1>9, <1>10, <1>11, <1>12 DEF EvaluationRows
<1> QED BY <1>6, <1>13, EvaluationMoves

LEMMA EvaluationSelectsBaseline ==
    ASSUME EvaluationInv, NEW p \in Runners, Evaluation!SelectBaseline(p)
    PROVE  EvaluationInv'
<1> DEFINE c == job[p].case
<1>0. /\ job[p].pc = "SELECT_BASELINE" /\ UNCHANGED <<run, claim, attempts, metrics, decision>>
      /\ c \in Evaluation!Cases /\ attempts[<<c, "BASELINE">>] # "NONE"
      /\ attempts[<<c, "AGENT">>] # "NONE"
  BY EvaluationTypes
     DEF Evaluation!SelectBaseline, Evaluation!Select, Evaluation!At, EvaluationJob, EvaluationCase
<1>1. CASE ~Evaluation!HoldsClaim(p)
  <2>1. Evaluation!Quit(p) /\ UNCHANGED selected
    BY <1>1 DEF Evaluation!SelectBaseline, Evaluation!Select
  <2> QED BY <1>0, <2>1, EvaluationQuits, EvaluationTypes
<1>2. CASE Evaluation!HoldsClaim(p)
  <2> DEFINE k == [job[p] EXCEPT !.pc = "SELECT_AGENT"]
  <2>1. k \in EvaluationJobs /\ k.pc = "SELECT_AGENT" /\ k.case = c
    BY EvaluationTypes DEF EvaluationJobs, Evaluation!Steps
  <2>2. job' = [job EXCEPT ![p] = k] /\ selected' = selected \cup {<<c, "BASELINE">>}
    BY <1>2, EvaluationTypes DEF Evaluation!SelectBaseline, Evaluation!Select, Evaluation!Goto
  <2> HIDE DEF k
  <2>3. PICK j \in EvaluationJobs : job' = [job EXCEPT ![p] = j] /\ j.pc = "SELECT_AGENT" /\ j.case = c
    BY <2>1, <2>2
  <2>4. PICK i \in Evaluation!Cases : i = c
    BY <1>0
  <2>5. EvaluationGrows => EvaluationJob(j)'
    <3>1. /\ \A m \in 1..(j.case - 1) : {<<m, "BASELINE">>, <<m, "AGENT">>} \subseteq selected
          /\ j.case > Validation => EvaluationPassed
      BY <1>0, <2>3, EvaluationTypes DEF EvaluationJob, EvaluationCase
    <3> QED BY <1>0, <2>2, <2>3, <2>4, <3>1
            DEF EvaluationJob, EvaluationCase, EvaluationConclusion, EvaluationGrows
  <2> QED BY <1>0, <2>2, <2>3, <2>4, <2>5, EvaluationSelects
<1> QED BY <1>1, <1>2

LEMMA EvaluationSelectsAgent ==
    ASSUME EvaluationInv, NEW p \in Runners, Evaluation!SelectAgent(p)
    PROVE  EvaluationInv'
<1> DEFINE c == job[p].case
           next == IF c = Evaluation!Last THEN "METRICS" ELSE "GATE"
<1>0. /\ job[p].pc = "SELECT_AGENT" /\ UNCHANGED <<run, claim, attempts, metrics, decision>>
      /\ c \in Evaluation!Cases /\ <<c, "BASELINE">> \in selected
      /\ attempts[<<c, "AGENT">>] # "NONE"
  BY EvaluationTypes
     DEF Evaluation!SelectAgent, Evaluation!Select, Evaluation!At, EvaluationJob, EvaluationCase
<1>1. CASE ~Evaluation!HoldsClaim(p)
  <2>1. Evaluation!Quit(p) /\ UNCHANGED selected
    BY <1>1 DEF Evaluation!SelectAgent, Evaluation!Select
  <2> QED BY <1>0, <2>1, EvaluationQuits, EvaluationTypes
<1>2. CASE Evaluation!HoldsClaim(p)
  <2> DEFINE k == [job[p] EXCEPT !.pc = next]
  <2>1. k \in EvaluationJobs /\ k.pc = next /\ k.case = c
    BY EvaluationTypes DEF EvaluationJobs, Evaluation!Steps
  <2>2. job' = [job EXCEPT ![p] = k] /\ selected' = selected \cup {<<c, "AGENT">>}
    BY <1>2, EvaluationTypes DEF Evaluation!SelectAgent, Evaluation!Select, Evaluation!Goto
  <2> HIDE DEF k
  <2>3. PICK j \in EvaluationJobs :
            /\ job' = [job EXCEPT ![p] = j] /\ j.case = c
            /\ j.pc \in {"METRICS", "GATE"} /\ (j.pc = "METRICS" <=> c = Evaluation!Last)
    BY <2>1, <2>2
  <2>4. PICK i \in Evaluation!Cases : i = c
    BY <1>0
  <2>5. EvaluationGrows => EvaluationJob(j)'
    <3>1. /\ \A m \in 1..(j.case - 1) : {<<m, "BASELINE">>, <<m, "AGENT">>} \subseteq selected
          /\ j.case > Validation => EvaluationPassed
      BY <1>0, <2>3, EvaluationTypes DEF EvaluationJob, EvaluationCase
    <3> QED BY <1>0, <2>2, <2>3, <2>4, <3>1
            DEF EvaluationJob, EvaluationCase, EvaluationConclusion, EvaluationGrows, Evaluation!Last
  <2> QED BY <1>0, <2>2, <2>3, <2>4, <2>5, EvaluationSelects
<1> QED BY <1>1, <1>2

LEMMA EvaluationSaves ==
    ASSUME EvaluationInv, NEW p \in Runners, Evaluation!SaveMetrics(p)
    PROVE  EvaluationInv'
<1> DEFINE c == job[p].case
           s == Evaluation!SplitOf(c)
           ok == metrics[s].saved \/ (Evaluation!HoldsClaim(p) /\ Evaluation!Pairs(s) = Evaluation!CasesOf(s))
<1>0. /\ job[p].pc = "METRICS" /\ UNCHANGED <<run, claim, attempts, selected, decision>>
      /\ c \in Evaluation!Cases /\ s \in Evaluation!Splits
  BY EvaluationTypes DEF Evaluation!SaveMetrics, Evaluation!At, Evaluation!SplitOf, Evaluation!Splits
<1>1. CASE ~ok
  <2>1. Evaluation!Quit(p) /\ UNCHANGED metrics
    BY <1>1 DEF Evaluation!SaveMetrics
  <2> QED BY <1>0, <2>1, EvaluationQuits, EvaluationTypes
<1>2. CASE ok
  <2>0. /\ EvaluationRows /\ Evaluation!TypeOK /\ EvaluationJob(job[p])
        /\ job \in [Runners -> EvaluationJobs]
        /\ metrics \in [Evaluation!Splits ->
               [good : 0..Evaluation!Last, baseline : 0..Evaluation!Last, saved : BOOLEAN]]
    BY EvaluationTypes DEF EvaluationInv, Evaluation!TypeOK
  <2>1. Evaluation!Pairs(s) = Evaluation!CasesOf(s)
    BY <1>0, <1>2, <2>0 DEF EvaluationRows
  <2>2. PICK t \in Evaluation!Splits : t = s
    BY <1>0
  <2>3. PICK new : new = Evaluation!Counted(t)
    OBVIOUS
  <2>4. new \in [good : 0..Evaluation!Last, baseline : 0..Evaluation!Last, saved : BOOLEAN] /\ new.saved
    BY <2>3, EvaluationSets DEF Evaluation!Counted
  <2>5. metrics' = [metrics EXCEPT ![t] = new]
    <3>1. metrics' = IF metrics[t].saved THEN metrics ELSE [metrics EXCEPT ![t] = new]
      BY <1>2, <2>2, <2>3 DEF Evaluation!SaveMetrics
    <3>2. metrics[t].saved => metrics[t] = new
      BY <2>0, <2>3 DEF EvaluationRows
    <3>3. CASE metrics[t].saved
      <4>1. metrics' = metrics /\ new = metrics[t]
        BY <3>1, <3>2, <3>3
      <4> QED BY <2>0, <4>1
    <3>4. CASE ~metrics[t].saved
      BY <3>1, <3>4
    <3> QED BY <3>3, <3>4
  <2>6. /\ EvaluationPassed' = EvaluationPassed
        /\ \A x : Evaluation!Pairs(x)' = Evaluation!Pairs(x)
        /\ \A x : Evaluation!Counted(x)' = Evaluation!Counted(x)
        /\ \A x : Evaluation!Severe(x)' = Evaluation!Severe(x)
        /\ Evaluation!GateRejects' = Evaluation!GateRejects
    BY <1>0
       DEF EvaluationPassed, Evaluation!Pairs, Evaluation!GateRejects, Evaluation!Reachable,
           Evaluation!Good, Evaluation!Severe, Evaluation!Counted
  <2>7. \A x \in Evaluation!Splits : metrics[x].saved => metrics'[x] = metrics[x]
    BY <2>0, <2>3, <2>5 DEF EvaluationRows
  <2>8. EvaluationReason => EvaluationReason'
    BY <2>6, <2>7 DEF EvaluationReason, Evaluation!MetThreshold, Evaluation!Splits
  <2>9. EvaluationGrows
    BY <1>0, <2>6, <2>7, <2>8 DEF EvaluationGrows, Evaluation!Splits
  <2>10. \A x \in Evaluation!Splits : metrics'[x].saved =>
            Evaluation!Pairs(x)' = Evaluation!CasesOf(x) /\ metrics'[x] = Evaluation!Counted(x)'
    BY <2>0, <2>1, <2>2, <2>3, <2>5, <2>6 DEF EvaluationRows
  <2>11. Evaluation!RetainedEvidence => Evaluation!RetainedEvidence'
    BY <1>0, <2>6, <2>7 DEF Evaluation!RetainedEvidence, Evaluation!HardGates
  <2> DEFINE k == IF s = "HOLDOUT" THEN [job[p] EXCEPT !.pc = "DECIDE"]
                  ELSE [job[p] EXCEPT !.pc = "CASE", !.case = c + 1]
  <2>12. s = "HOLDOUT" \/ (s = "VALIDATION" /\ c = Validation /\ EvaluationPassed /\ c + 1 \in Evaluation!Cases)
    BY <1>0, <2>0, EvaluationSets
       DEF Evaluation!SplitOf, EvaluationJob, EvaluationConclusion
  <2>13. /\ k \in EvaluationJobs
         /\ s = "HOLDOUT" => k.pc = "DECIDE"
         /\ s = "VALIDATION" => k.pc = "CASE" /\ k.case = c + 1
    BY <2>12, EvaluationTypes DEF EvaluationJobs, Evaluation!Steps
  <2>14. job' = [job EXCEPT ![p] = k]
    BY <1>2, EvaluationTypes DEF Evaluation!SaveMetrics, Evaluation!Goto
  <2> HIDE DEF k
  <2>15. PICK j \in EvaluationJobs :
             /\ job' = [job EXCEPT ![p] = j]
             /\ s = "HOLDOUT" => j.pc = "DECIDE"
             /\ s = "VALIDATION" => j.pc = "CASE" /\ j.case = c + 1
    BY <2>13, <2>14
  <2>16. EvaluationJob(j)'
    <3>1. CASE s = "HOLDOUT"
      <4>1. metrics'["HOLDOUT"].saved
        BY <2>0, <2>2, <2>4, <2>5, <3>1
      <4> QED BY <2>15, <3>1, <4>1 DEF EvaluationJob, EvaluationCase, EvaluationConclusion
    <3>2. CASE s = "VALIDATION"
      <4>1. c \in Nat /\ \A m \in 1..c : m = c \/ m \in 1..(c - 1)
        BY <1>0, EvaluationSets
      <4>2. \A m \in 1..c : {<<m, "BASELINE">>, <<m, "AGENT">>} \subseteq selected
        BY <1>0, <2>0, <4>1 DEF EvaluationJob, EvaluationCase
      <4>3. (c + 1) - 1 = c
        BY <4>1
      <4> HIDE DEF c
      <4> QED BY <1>0, <2>6, <2>12, <2>15, <3>2, <4>2, <4>3
              DEF EvaluationJob, EvaluationCase, EvaluationConclusion
    <3> QED BY <2>12, <3>1, <3>2
  <2>17. Evaluation!TypeOK'
    BY <1>0, <2>0, <2>4, <2>5, <2>15 DEF Evaluation!TypeOK, EvaluationJobs
  <2>18. EvaluationRows'
    BY <1>0, <2>0, <2>6, <2>8, <2>10, <2>11, <2>17 DEF EvaluationRows, Evaluation!MetThreshold
  <2> QED BY <2>9, <2>15, <2>16, <2>18, EvaluationMoves
<1> QED BY <1>1, <1>2

(* A decision is written: RETAINED on complete splits that met everything. *)
LEMMA EvaluationPersists ==
    ASSUME EvaluationInv, NEW p \in Runners, Evaluation!Persist(p)
    PROVE  EvaluationInv'
<1> DEFINE ok == /\ Evaluation!HoldsClaim(p)
                 /\ \A s \in Evaluation!Splits : ~Evaluation!HalfPair(s)
                 /\ job[p].ruling = "RETAINED" => Evaluation!RetainedEvidence
<1>0. /\ job[p].pc = "PERSIST" /\ UNCHANGED <<attempts, selected, metrics>> /\ Evaluation!Quit(p)
      /\ claim \in [version : 0..MaxVersion, live : BOOLEAN]
  BY EvaluationTypes DEF Evaluation!Persist, Evaluation!At
<1>1. CASE ~ok
  <2>1. UNCHANGED <<decision, run, claim>>
    BY <1>1 DEF Evaluation!Persist
  <2> QED BY <1>0, <2>1, EvaluationQuits, EvaluationTypes
<1>2. CASE ok
  <2>0. /\ EvaluationRows /\ Evaluation!TypeOK /\ EvaluationJob(job[p])
        /\ job \in [Runners -> EvaluationJobs]
    BY EvaluationTypes DEF EvaluationInv
  <2>1. /\ decision' = job[p].ruling /\ run' = "COMPLETED" /\ claim' = [claim EXCEPT !.live = FALSE]
    BY <1>2 DEF Evaluation!Persist
  <2>2. PICK j \in EvaluationJobs : j = Evaluation!IdleJob
    <3>1. 1 \in Evaluation!Cases /\ 0 \in 0..MaxVersion
      BY EvaluationSets
    <3> QED BY <3>1 DEF EvaluationJobs, Evaluation!IdleJob, Evaluation!Steps, Evaluation!Decisions
  <2>3. EvaluationJob(j)' /\ job' = [job EXCEPT ![p] = j]
    BY <1>0, <2>2 DEF EvaluationJob, EvaluationCase, EvaluationConclusion, Evaluation!IdleJob, Evaluation!Quit
  <2>4. Evaluation!TypeOK'
    BY <1>0, <2>0, <2>1, <2>3, EvaluationTypes DEF Evaluation!TypeOK, EvaluationJobs
  <2>5. job[p].ruling = "REJECTED" => EvaluationReason
    BY <1>0, <2>0 DEF EvaluationJob, EvaluationConclusion
  <2>6. job[p].ruling = "RETAINED" =>
            /\ Evaluation!RetainedEvidence
            /\ \A s \in Evaluation!Splits : Evaluation!MetThreshold(Evaluation!Counted(s), s)
    <3> SUFFICES ASSUME job[p].ruling = "RETAINED"
                 PROVE  /\ Evaluation!RetainedEvidence
                        /\ \A s \in Evaluation!Splits : Evaluation!MetThreshold(Evaluation!Counted(s), s)
      OBVIOUS
    <3>1. /\ Evaluation!RetainedEvidence /\ metrics["HOLDOUT"].saved
          /\ Evaluation!MetThreshold(metrics["HOLDOUT"], "HOLDOUT")
      BY <1>0, <1>2, <2>0 DEF EvaluationJob, EvaluationConclusion
    <3>2. Evaluation!MetThreshold(Evaluation!Counted("HOLDOUT"), "HOLDOUT")
      BY <2>0, <3>1 DEF EvaluationRows, Evaluation!Splits
    <3>3. EvaluationPassed
      <4>1. Evaluation!Last \in Evaluation!CasesOf("HOLDOUT")
        BY EvaluationSets
      <4>2. <<Evaluation!Last, "BASELINE">> \in selected
        BY <3>1, <4>1 DEF Evaluation!RetainedEvidence, Evaluation!Splits, Evaluation!Pairs
      <4> QED BY <2>0, <4>1, <4>2 DEF EvaluationRows
    <3>4. Evaluation!MetThreshold(Evaluation!Counted("VALIDATION"), "VALIDATION")
      <4>1. Evaluation!Cardinality(Evaluation!Pairs("VALIDATION")) = Validation
        BY <3>3, EvaluationSets DEF EvaluationPassed
      <4>2. PICK g \in Nat : g = Evaluation!Good("VALIDATION", "AGENT")
        BY EvaluationSets
      <4>3. PICK m, k \in Nat : m = MinGood["VALIDATION"] /\ k = Evaluation!Good("VALIDATION", "BASELINE") + Margin["VALIDATION"]
        <5>1. /\ MinGood["VALIDATION"] \in Nat /\ Margin["VALIDATION"] \in Nat
              /\ Evaluation!Good("VALIDATION", "BASELINE") \in Nat
          BY EvaluationAssumption, EvaluationSets DEF Evaluation!Splits
        <5> QED BY <5>1
      <4>4. PICK n \in Nat : n = Evaluation!Cardinality(Evaluation!Pairs("VALIDATION")) /\ n = Validation
        BY <4>1, EvaluationSets
      <4>5. g + Validation - n >= m /\ g + Validation - n >= k
        <5>1. EvaluationReach
          BY <3>3, EvaluationReaches DEF EvaluationPassed, Evaluation!GateRejects
        <5> QED BY <4>2, <4>3, <4>4, <5>1 DEF EvaluationReach
      <4>6. g >= m /\ g >= k
        BY <4>4, <4>5
      <4> QED BY <4>2, <4>3, <4>6 DEF Evaluation!MetThreshold, Evaluation!Counted
    <3> QED BY <3>1, <3>2, <3>4 DEF Evaluation!Splits
  <2>7. EvaluationGrows
    BY <1>0, EvaluationUnchanged DEF EvaluationGrows
  <2>8. EvaluationRows'
    BY <1>0, <2>0, <2>1, <2>4, <2>5, <2>6, EvaluationUnchanged DEF EvaluationRows, Evaluation!MetThreshold
  <2> QED BY <2>2, <2>3, <2>7, <2>8, EvaluationMoves
<1> QED BY <1>1, <1>2

LEMMA EvaluationStep ==
    ASSUME EvaluationInv, Evaluation!Next
    PROVE  EvaluationInv'
<1>1. ASSUME NEW p \in Runners, Evaluation!Stop(p) PROVE EvaluationInv'
  BY <1>1, EvaluationQuits, EvaluationTypes DEF Evaluation!Stop
<1> QED BY <1>1, EvaluationLeaseEnds, EvaluationCreates, EvaluationClaims, EvaluationRuns,
        EvaluationAppendsBaseline, EvaluationAppendsAgent, EvaluationSelectsBaseline,
        EvaluationSelectsAgent, EvaluationGate, EvaluationSaves, EvaluationDecides,
        EvaluationPersists DEF Evaluation!Next

LEMMA EvaluationHolds ==
    ASSUME EvaluationInv
    PROVE  Evaluation!TypeOK /\ Evaluation!OutcomesAreTrue /\ Evaluation!RetentionIsBacked
<1>1. Evaluation!OutcomesAreTrue
  BY DEF EvaluationInv, EvaluationRows, Evaluation!OutcomesAreTrue, EvaluationReason
<1>2. Evaluation!RetentionIsBacked
  BY DEF EvaluationInv, EvaluationRows, Evaluation!RetentionIsBacked, EvaluationPassed
<1> QED BY <1>1, <1>2 DEF EvaluationInv, EvaluationRows

(* A step that changes nothing of this part keeps the invariant.            *)
LEMMA EvaluationStutters ==
    ASSUME EvaluationInv, UNCHANGED Evaluation!vars
    PROVE  EvaluationInv'
<1>1. UNCHANGED <<run, claim, attempts, selected, metrics, decision, job>>
  BY DEF Evaluation!vars
<1>2. EvaluationRows'
  BY <1>1, EvaluationUnchanged DEF EvaluationInv, EvaluationRows, Evaluation!TypeOK, Evaluation!MetThreshold
<1>3. \A p \in Runners : EvaluationJob(job[p])'
  <2> TAKE p \in Runners
  <2>1. EvaluationJob(job[p])
    BY DEF EvaluationInv
  <2>2. job'[p] = job[p]
    BY <1>1
  <2> QED BY <1>1, <2>1, <2>2, EvaluationUnchanged DEF EvaluationJob, EvaluationCase, EvaluationConclusion, Evaluation!MetThreshold
<1> QED BY <1>2, <1>3 DEF EvaluationInv

-----------------------------------------------------------------------------
(* The evaluation of recorded runs.                                        *)

(* The row and its first terminal status, as long as nobody was late; a    *)
(* run that used all its attempts is closed.                               *)
QueuedRow ==
    /\ store \in Queued!Rows \cup {NoOne}
    /\ results \in Queued!Verdicts \cup {NoOne}
    /\ clock \in 0..MaxClock
    /\ outcome \in Queued!Terminal \cup {NoOne}
    /\ blocked \in BOOLEAN
    /\ store = NoOne => results = NoOne /\ outcome = NoOne
    /\ store # NoOne /\ store.retries = MaxRetries => store.status \in Queued!Terminal
    /\ Queued!OutcomesAreTrue

(* What worker w knows of the run it evaluates; under its lease it is the  *)
(* owner, and the lease the row tells is its lease.                        *)
QueuedJob(w, j) ==
    /\ store # NoOne
    /\ j.retries < MaxRetries
    /\ j.step = "COMPLETE" => j.verdict \in Queued!Verdicts
    /\ ~blocked /\ clock < j.until =>
          store.status = "running" /\ store.owner = w /\ store.until = j.until

QueuedInv ==
    /\ QueuedRow
    /\ job \in [Runners -> Queued!JobRecords \cup {NoOne}]
    /\ \A w \in Runners : job[w] # NoOne => QueuedJob(w, job[w])

-----------------------------------------------------------------------------
LEMMA QueuedInit ==
    ASSUME Queued!Init
    PROVE  QueuedInv
<1>1. 0 \in 0..MaxClock
  BY QueuedAssumption
<1> QED BY <1>1 DEF Queued!Init, QueuedInv, QueuedRow, Queued!OutcomesAreTrue

LEMMA QueuedJobType ==
    ASSUME QueuedInv, NEW w \in Runners, job[w] # NoOne
    PROVE  /\ job[w] \in Queued!JobRecords /\ QueuedJob(w, job[w])
           /\ job[w].until \in Nat /\ job[w].retries \in 0..MaxRetries
           /\ job[w].step \in Queued!Steps /\ job[w].verdict \in Queued!Verdicts \cup {NoOne}
           /\ store \in Queued!Rows /\ store # NoOne /\ clock \in Nat
BY DEF QueuedInv, QueuedJob, QueuedRow, Queued!JobRecords

(* A job that changes beside an unchanged row.                             *)
LEMMA QueuedMoves ==
    ASSUME QueuedInv, UNCHANGED <<store, results, clock, outcome, blocked>>, NEW w \in Runners,
           NEW j \in Queued!JobRecords \cup {NoOne}, job' = [job EXCEPT ![w] = j],
           j # NoOne => QueuedJob(w, j)
    PROVE  QueuedInv'
<1>1. QueuedRow'
  BY DEF QueuedInv, QueuedRow, Queued!OutcomesAreTrue
<1>2. \A q \in Runners : job'[q] # NoOne => QueuedJob(q, job'[q])
  BY DEF QueuedInv
<1> QED BY <1>1, <1>2 DEF QueuedInv, QueuedJob

(* A job that writes the row: nobody else is under a lease then, or the    *)
(* writer is late.                                                         *)
LEMMA QueuedWrites ==
    ASSUME QueuedInv, QueuedRow', store' # NoOne, UNCHANGED clock, NEW w \in Runners, job[w] # NoOne,
           blocked' = (blocked \/ clock >= job[w].until), job' = [job EXCEPT ![w] = NoOne]
    PROVE  QueuedInv'
<1> SUFFICES ASSUME NEW q \in Runners, job'[q] # NoOne PROVE QueuedJob(q, job[q])'
  BY DEF QueuedInv
<1>1. q # w /\ job'[q] = job[q]
  BY DEF QueuedInv
<1>2. QueuedJob(q, job[q]) /\ QueuedJob(w, job[w])
  BY <1>1 DEF QueuedInv
<1>3. ~blocked' => ~(clock < job[q].until)
  <2> SUFFICES ASSUME ~blocked', clock < job[q].until PROVE FALSE
    OBVIOUS
  <2>1. ~blocked /\ ~(clock >= job[w].until)
    OBVIOUS
  <2>2. job[w].until \in Nat /\ clock \in Nat
    BY QueuedJobType
  <2>3. clock < job[w].until
    BY <2>1, <2>2
  <2>4. store.owner = w /\ store.owner = q
    BY <1>2, <2>1, <2>3 DEF QueuedJob
  <2> QED BY <1>1, <2>4
<1> QED BY <1>1, <1>2, <1>3 DEF QueuedJob

LEMMA QueuedCreate ==
    ASSUME QueuedInv, Queued!Create
    PROVE  QueuedInv'
<1>1. QueuedRow'
  BY QueuedAssumption DEF QueuedInv, QueuedRow, Queued!Create, Queued!Rows, Queued!OutcomesAreTrue,
      Queued!Terminal
<1>2. \A w \in Runners : job'[w] = NoOne
  BY DEF QueuedInv, QueuedJob, Queued!Create
<1> QED BY <1>1, <1>2 DEF QueuedInv, Queued!Create

LEMMA QueuedTick ==
    ASSUME QueuedInv, Queued!Tick
    PROVE  QueuedInv'
<1>1. clock' \in 0..MaxClock /\ clock < clock' /\ UNCHANGED <<store, results, job, outcome, blocked>>
  BY QueuedAssumption DEF Queued!Tick, QueuedInv, QueuedRow
<1>2. QueuedRow'
  BY <1>1 DEF QueuedInv, QueuedRow, Queued!OutcomesAreTrue
<1>3. \A w \in Runners : job[w] # NoOne => QueuedJob(w, job[w])'
  BY <1>1, QueuedJobType DEF QueuedInv, QueuedRow, QueuedJob
<1> QED BY <1>1, <1>2, <1>3 DEF QueuedInv

LEMMA QueuedClaim ==
    ASSUME QueuedInv, NEW w \in Runners, Queued!Claim(w)
    PROVE  QueuedInv'
<1> USE QueuedAssumption
<1>0. /\ store \in Queued!Rows /\ store # NoOne /\ clock \in 0..MaxClock
      /\ job[w] = NoOne
      /\ job' = [job EXCEPT ![w] = [step |-> "EVALUATE", until |-> clock + LeaseTime,
                                   verdict |-> NoOne, retries |-> 0]]
      /\ store' = [store EXCEPT !.status = "running", !.owner = w, !.until = clock + LeaseTime]
      /\ UNCHANGED <<results, clock, outcome, blocked>>
      /\ store.status = "queued" \/ (store.status = "running" /\ store.until <= clock)
  BY DEF Queued!Claim, QueuedInv, QueuedRow
<1>1. PICK j \in Queued!JobRecords : /\ j.step = "EVALUATE" /\ j.until = clock + LeaseTime
                                     /\ j.retries = 0 /\ job' = [job EXCEPT ![w] = j]
  <2> DEFINE r == [step |-> "EVALUATE", until |-> clock + LeaseTime, verdict |-> NoOne, retries |-> 0]
  <2>1. clock + LeaseTime \in Nat /\ 0 \in 0..MaxRetries
    BY <1>0
  <2>2. /\ r \in Queued!JobRecords /\ r.step = "EVALUATE" /\ r.until = clock + LeaseTime
        /\ r.retries = 0 /\ job' = [job EXCEPT ![w] = r]
    BY <1>0, <2>1 DEF Queued!JobRecords, Queued!Steps
  <2> HIDE DEF r
  <2> QED BY <2>2
<1>2. /\ store' \in Queued!Rows /\ store' # NoOne /\ store'.status = "running" /\ store'.owner = w
      /\ store'.until = clock + LeaseTime /\ store'.verdict = store.verdict
      /\ store'.retries = store.retries
  <2>1. clock + LeaseTime \in 0..(MaxClock + LeaseTime)
    BY <1>0
  <2> HIDE QueuedAssumption
  <2>2. /\ store.retries \in 0..MaxRetries /\ store.verdict \in Queued!Verdicts \cup {NoOne}
        /\ store' = [status |-> "running", retries |-> store.retries,
                     until |-> clock + LeaseTime, owner |-> w, verdict |-> store.verdict]
    BY <1>0 DEF Queued!Rows
  <2>3. store' \in Queued!Rows
    BY <2>1, <2>2 DEF Queued!Rows
  <2> QED BY <2>2, <2>3, QueuedAssumption
<1>3. ~blocked => outcome = NoOne
  BY <1>0 DEF QueuedInv, QueuedRow, Queued!OutcomesAreTrue, Queued!Terminal
<1>4. store.retries # MaxRetries
  BY <1>0 DEF QueuedInv, QueuedRow, Queued!Terminal
<1>5. QueuedRow'
  BY <1>0, <1>2, <1>3, <1>4 DEF QueuedInv, QueuedRow, Queued!OutcomesAreTrue
<1>6. QueuedJob(w, j)'
  BY <1>0, <1>1, <1>2 DEF QueuedJob
<1>7. ASSUME NEW q \in Runners, job'[q] # NoOne PROVE QueuedJob(q, job[q])'
  <2>1. CASE q = w
    <3>1. job'[q] = j
      BY <1>1, <2>1 DEF QueuedInv
    <3> QED BY <1>6, <2>1, <3>1 DEF QueuedJob
  <2>2. CASE q # w
    <3>1. job'[q] = job[q] /\ job[q] # NoOne
      BY <1>1, <1>7, <2>2 DEF QueuedInv
    <3>2. QueuedJob(q, job[q]) /\ job[q].until \in Nat
      BY <3>1, QueuedJobType
    <3>3. ~blocked => ~(clock < job[q].until)
      BY <1>0, <3>2 DEF QueuedJob
    <3> QED BY <1>0, <1>2, <3>1, <3>2, <3>3 DEF QueuedJob
  <2> QED BY <2>1, <2>2
<1> QED BY <1>0, <1>1, <1>5, <1>7 DEF QueuedInv

LEMMA QueuedEvaluate ==
    ASSUME QueuedInv, NEW w \in Runners, NEW verdict \in Queued!Verdicts \cup {NoOne},
           Queued!Evaluate(w, verdict)
    PROVE  QueuedInv'
<1> DEFINE j == [job[w] EXCEPT !.step = IF verdict = NoOne THEN "FAIL" ELSE "COMPLETE",
                               !.verdict = verdict, !.retries = store.retries]
<1>0. /\ job[w] # NoOne /\ job[w] \in Queued!JobRecords /\ QueuedJob(w, job[w])
      /\ store \in Queued!Rows /\ store # NoOne
      /\ UNCHANGED <<store, results, clock, outcome, blocked>>
  BY QueuedJobType DEF Queued!Evaluate
<1>1. CASE store.status \in Queued!Terminal
  <2>1. job' = [job EXCEPT ![w] = NoOne]
    BY <1>1 DEF Queued!Evaluate
  <2> QED BY <1>0, <2>1, QueuedMoves
<1>2. CASE store.status \notin Queued!Terminal
  <2>1. job' = [job EXCEPT ![w] = j]
    BY <1>2 DEF Queued!Evaluate, QueuedInv
  <2>2. /\ j \in Queued!JobRecords /\ j.retries = store.retries /\ j.until = job[w].until
        /\ j.step = "COMPLETE" => verdict # NoOne /\ j.verdict = verdict
    BY <1>0 DEF Queued!JobRecords, Queued!Rows, Queued!Steps
  <2>3. store.retries < MaxRetries
    <3>1. store.retries # MaxRetries
      BY <1>0, <1>2 DEF QueuedInv, QueuedRow
    <3>2. store.retries \in 0..MaxRetries
      BY <1>0 DEF Queued!Rows
    <3> QED BY <3>1, <3>2, QueuedAssumption
  <2> HIDE DEF j
  <2>4. QueuedJob(w, j)
    BY <1>0, <2>2, <2>3 DEF QueuedJob
  <2> QED BY <1>0, <2>1, <2>2, <2>4, QueuedMoves
<1> QED BY <1>1, <1>2

LEMMA QueuedFailsToComplete ==
    ASSUME QueuedInv, NEW w \in Runners, Queued!FailToComplete(w)
    PROVE  QueuedInv'
<1> DEFINE j == [job[w] EXCEPT !.step = "FAIL", !.verdict = NoOne, !.retries = store.retries]
<1>0. /\ job[w] # NoOne /\ job[w] \in Queued!JobRecords /\ QueuedJob(w, job[w])
      /\ store \in Queued!Rows /\ store # NoOne
      /\ UNCHANGED <<store, results, clock, outcome, blocked>>
  BY QueuedJobType DEF Queued!FailToComplete
<1>1. CASE store.status \in Queued!Terminal
  <2>1. job' = [job EXCEPT ![w] = NoOne]
    BY <1>1 DEF Queued!FailToComplete
  <2> QED BY <1>0, <2>1, QueuedMoves
<1>2. CASE store.status \notin Queued!Terminal
  <2>1. job' = [job EXCEPT ![w] = j]
    BY <1>2 DEF Queued!FailToComplete, QueuedInv
  <2>2. /\ j \in Queued!JobRecords /\ j.retries = store.retries /\ j.until = job[w].until
        /\ j.step = "FAIL"
    BY <1>0 DEF Queued!JobRecords, Queued!Rows, Queued!Steps
  <2>3. store.retries < MaxRetries
    <3>1. store.retries # MaxRetries
      BY <1>0, <1>2 DEF QueuedInv, QueuedRow
    <3>2. store.retries \in 0..MaxRetries
      BY <1>0 DEF Queued!Rows
    <3> QED BY <3>1, <3>2, QueuedAssumption
  <2> HIDE DEF j
  <2>4. QueuedJob(w, j)
    BY <1>0, <2>2, <2>3 DEF QueuedJob
  <2> QED BY <1>0, <2>1, <2>2, <2>4, QueuedMoves
<1> QED BY <1>1, <1>2

(* Whoever writes under its lease finds no terminal status.                *)
LEMMA QueuedFirst ==
    ASSUME QueuedInv, NEW w \in Runners, job[w] # NoOne,
           ~(blocked \/ clock >= job[w].until)
    PROVE  outcome = NoOne
BY QueuedJobType DEF QueuedInv, QueuedRow, QueuedJob, Queued!OutcomesAreTrue, Queued!Terminal

(* The row that a write releases, field by field.                          *)
LEMMA QueuedReleased ==
    ASSUME store \in Queued!Rows, NEW STATE s, NEW STATE r, r = Queued!Released(s)
    PROVE  r = [status |-> s, retries |-> store.retries, until |-> 0, owner |-> NoOne,
               verdict |-> store.verdict]
BY DEF Queued!Rows, Queued!Released

LEMMA QueuedCompletes ==
    ASSUME QueuedInv, NEW w \in Runners, Queued!Complete(w)
    PROVE  QueuedInv'
<1> USE QueuedAssumption
<1> DEFINE s == IF job[w].verdict = "PASS" THEN "completed" ELSE "partial"
           new == [Queued!Released(s) EXCEPT !.verdict = job[w].verdict]
<1>0. /\ job[w] # NoOne /\ job[w].step = "COMPLETE" /\ job' = [job EXCEPT ![w] = NoOne]
      /\ store' = new /\ results' = job[w].verdict /\ UNCHANGED clock
      /\ blocked' = (blocked \/ clock >= job[w].until)
      /\ outcome' = IF outcome = NoOne /\ new.status \in Queued!Terminal THEN new.status ELSE outcome
  BY DEF Queued!Complete, Queued!Write
<1>1. store \in Queued!Rows /\ job[w].verdict \in Queued!Verdicts
  BY <1>0, QueuedJobType DEF QueuedJob
<1>2. s \in Queued!Terminal
  BY DEF Queued!Terminal
<1>3. /\ new \in Queued!Rows /\ new.status = s /\ new.verdict = job[w].verdict
      /\ new.retries = store.retries
  <2> HIDE DEF s
  <2>1. store.retries \in 0..MaxRetries /\ 0 \in 0..(MaxClock + LeaseTime)
    BY <1>1 DEF Queued!Rows
  <2> HIDE QueuedAssumption
  <2>2. new = [status |-> s, retries |-> store.retries, until |-> 0, owner |-> NoOne,
               verdict |-> job[w].verdict]
    BY <1>1, QueuedReleased
  <2> HIDE DEF new
  <2> QED BY <1>1, <1>2, <2>1, <2>2, QueuedAssumption DEF Queued!Rows
<1>4. ~blocked' => outcome = NoOne
  BY <1>0, QueuedFirst
<1>5. /\ s = "completed" => job[w].verdict = "PASS"
      /\ s = "partial" => job[w].verdict # "PASS"
      /\ s # "failed"
  OBVIOUS
<1>6. blocked \in BOOLEAN /\ blocked' \in BOOLEAN /\ outcome \in Queued!Terminal \cup {NoOne}
  BY <1>0 DEF QueuedInv, QueuedRow
<1> HIDE DEF new, s
<1>7. Queued!OutcomesAreTrue'
  BY <1>0, <1>1, <1>2, <1>3, <1>4, <1>5 DEF Queued!OutcomesAreTrue
<1>8. QueuedRow'
  BY <1>0, <1>1, <1>2, <1>3, <1>6, <1>7 DEF QueuedInv, QueuedRow
<1> QED BY <1>0, <1>3, <1>8, QueuedWrites

LEMMA QueuedFails ==
    ASSUME QueuedInv, NEW w \in Runners, Queued!Fail(w)
    PROVE  QueuedInv'
<1> USE QueuedAssumption
<1> DEFINE n == job[w].retries + 1
           s == IF n >= MaxRetries THEN "failed" ELSE "queued"
           new == [Queued!Released(s) EXCEPT !.retries = n]
<1>0. /\ job[w] # NoOne /\ job[w].step = "FAIL" /\ job' = [job EXCEPT ![w] = NoOne]
      /\ store' = new /\ UNCHANGED <<results, clock>>
      /\ blocked' = (blocked \/ clock >= job[w].until)
      /\ outcome' = IF outcome = NoOne /\ new.status \in Queued!Terminal THEN new.status ELSE outcome
  BY DEF Queued!Fail, Queued!Write
<1>1. store \in Queued!Rows /\ store # NoOne /\ n \in 0..MaxRetries
  BY <1>0, QueuedJobType DEF QueuedJob
<1>3. /\ new \in Queued!Rows /\ new.status = s /\ new.verdict = store.verdict
      /\ new.retries = n
  <2>1. s \in Queued!Terminal \cup {"queued", "running"}
    BY DEF Queued!Terminal
  <2> HIDE DEF s, n
  <2>2. store.verdict \in Queued!Verdicts \cup {NoOne} /\ 0 \in 0..(MaxClock + LeaseTime)
    BY <1>1 DEF Queued!Rows
  <2> HIDE QueuedAssumption
  <2>3. new = [status |-> s, retries |-> n, until |-> 0, owner |-> NoOne,
               verdict |-> store.verdict]
    BY <1>1, QueuedReleased
  <2> HIDE DEF new
  <2> QED BY <1>1, <2>1, <2>2, <2>3, QueuedAssumption DEF Queued!Rows
<1>4. ~blocked' => outcome = NoOne
  BY <1>0, QueuedFirst
<1>5. (s = "failed" /\ n = MaxRetries) \/ (s = "queued" /\ n < MaxRetries)
  BY <1>1
<1>6. blocked \in BOOLEAN /\ blocked' \in BOOLEAN /\ outcome \in Queued!Terminal \cup {NoOne}
  BY <1>0 DEF QueuedInv, QueuedRow
<1>2. results = store.verdict
  BY <1>1 DEF QueuedInv, QueuedRow, Queued!OutcomesAreTrue
<1> HIDE DEF new, s, n
<1>7. Queued!OutcomesAreTrue'
  BY <1>0, <1>2, <1>3, <1>4, <1>5 DEF Queued!OutcomesAreTrue, Queued!Terminal
<1>8. QueuedRow'
  BY <1>0, <1>1, <1>3, <1>5, <1>6, <1>7 DEF QueuedInv, QueuedRow, Queued!Terminal
<1> QED BY <1>0, <1>3, <1>8, QueuedWrites

LEMMA QueuedStep ==
    ASSUME QueuedInv, Queued!Next
    PROVE  QueuedInv'
<1>1. ASSUME NEW w \in Runners, Queued!Crash(w) PROVE QueuedInv'
  BY <1>1, QueuedMoves DEF Queued!Crash
<1> QED BY <1>1, QueuedCreate, QueuedTick, QueuedClaim, QueuedEvaluate, QueuedFailsToComplete,
        QueuedCompletes, QueuedFails DEF Queued!Next

LEMMA QueuedHolds ==
    ASSUME QueuedInv
    PROVE  Queued!TypeOK /\ Queued!OutcomesAreTrue /\ Queued!OneOwner
<1>1. Queued!OneOwner
  BY DEF QueuedInv, QueuedJob, Queued!OneOwner
<1> QED BY <1>1 DEF QueuedInv, QueuedRow, Queued!TypeOK

(* A step that changes nothing of this part keeps the invariant.            *)
LEMMA QueuedStutters ==
    ASSUME QueuedInv, UNCHANGED Queued!vars
    PROVE  QueuedInv'
BY DEF Queued!vars, QueuedInv, QueuedRow, Queued!OutcomesAreTrue, QueuedJob

-----------------------------------------------------------------------------
(* The sealed holdout of a qualification.                                  *)

(* The requests that left for the case an execution works on.              *)
SealedUnderway(j) ==
    CASE j.pc = "SEND"   -> IF j.stage = "PLANNER" THEN 1 ELSE 0
      [] j.pc = "RECORD" -> (IF j.stage = "PLANNER" THEN 1 ELSE 0) + (IF j.sent THEN 1 ELSE 0)
      [] j.pc = "CASE"   -> IF j.outcome = "PASS" THEN 2 ELSE IF j.outcome = "BLOCKED" THEN 0 ELSE 1
      [] OTHER           -> 0

(* Every case that was not blocked made a request, and every case that     *)
(* passed made two.                                                        *)
SealedRequests(r) ==
    sent[r] >= (Len(results[r]) - Sealed!Count(r, "BLOCKED")) + Sealed!Count(r, "PASS")
               + SealedUnderway(job[r])

(* What a run that passed rests on.                                        *)
SealedPass(r) ==
    status[r] = "PASS" => Sealed!Count(r, "BLOCKED") = 0 /\ Sealed!Count(r, "PASS") >= PassMin

(* A run and its execution.                                                *)
SealedRun(r) ==
    /\ results[r] \in Seq(Sealed!CaseOutcomes) /\ Len(results[r]) <= BatchSize
    /\ job[r].pc \in {"NEW", "ENSURE", "BEGIN"} => results[r] = <<>>
    /\ job[r].pc \in {"SEND", "RECORD", "CASE"} => Len(results[r]) < BatchSize
    /\ batch[r] # 0 => batch[r] = job[r].batch
    /\ SealedRequests(r)
    /\ SealedPass(r)

SealedConclusions == [runs : Runs \X Runs, status : {"BLOCKED", "FAILED", "QUALIFIED"}]

(* What a conclusion rests on.                                             *)
SealedBacked(q) ==
    q.status = "QUALIFIED" =>
        \A k \in Sealed!Batches :
            LET r == q.runs[k]
            IN  /\ batch[r] = k /\ status[r] = "PASS" /\ Len(results[r]) = BatchSize
                /\ review[r] = "PASS"

SealedInv ==
    /\ Sealed!TypeOK /\ results \in [Runs -> Seq(Sealed!CaseOutcomes)]
    /\ \A r \in Runs : SealedRun(r)
    /\ conclusions \subseteq SealedConclusions /\ reading \in [Aggregators -> SUBSET SealedConclusions]
    /\ \A q \in conclusions : SealedBacked(q)
    /\ \A x \in Aggregators : \A q \in reading[x] : SealedBacked(q)

-----------------------------------------------------------------------------
(* The cardinality the model counts with is that of the library.           *)
LEMMA SealedCounts ==
    ASSUME NEW S
    PROVE  Sealed!Cardinality(S) = Cardinality(S)
BY Zenon DEF Sealed!Cardinality, Cardinality

LEMMA SealedInit ==
    ASSUME Sealed!Init
    PROVE  SealedInv
<1>1. Sealed!TypeOK
  <2>1. \A k \in Sealed!Batches : Sealed!Fresh("NEW", k) \in Sealed!JobRecord
    BY DEF Sealed!Fresh, Sealed!JobRecord, Sealed!Steps, Sealed!CaseOutcomes, Sealed!Verdicts
  <2>2. job \in [Runs -> Sealed!JobRecord]
    BY <2>1 DEF Sealed!Init
  <2> QED BY <2>2, SealedAssumption DEF Sealed!Init, Sealed!TypeOK, Sealed!Batches
<1>2. \A r \in Runs : SealedRun(r)
  <2> SUFFICES ASSUME NEW r \in Runs PROVE SealedRun(r)
    OBVIOUS
  <2>1. /\ results[r] = <<>> /\ job[r].pc = "NEW" /\ batch[r] = 0 /\ status[r] = "NONE" /\ sent[r] = 0
    BY DEF Sealed!Init, Sealed!Fresh
  <2>2. \A o : Sealed!Count(r, o) = 0
    <3>1. \A o : {i \in DOMAIN results[r] : results[r][i] = o} = {}
      BY <2>1
    <3>2. Sealed!Cardinality({}) = 0
      BY FS_EmptySet, SealedCounts
    <3> QED BY <3>1, <3>2 DEF Sealed!Count
  <2>3. SealedRequests(r)
    BY <2>1, <2>2 DEF SealedRequests, SealedUnderway
  <2> QED BY <2>1, <2>3, SealedAssumption DEF SealedRun, SealedPass
<1>3. results \in [Runs -> Seq(Sealed!CaseOutcomes)]
  BY DEF Sealed!Init
<1> QED BY <1>1, <1>2, <1>3 DEF SealedInv, Sealed!Init

LEMMA SealedTypes ==
    ASSUME SealedInv, NEW r \in Runs
    PROVE  /\ Sealed!TypeOK /\ SealedRun(r)
           /\ job \in [Runs -> Sealed!JobRecord] /\ job[r] \in Sealed!JobRecord
           /\ results \in [Runs -> Seq(Sealed!CaseOutcomes)]
           /\ results[r] \in Seq(Sealed!CaseOutcomes) /\ sent[r] \in Nat /\ cost[r] \in Nat
           /\ SealedUnderway(job[r]) \in Nat
           /\ job[r].batch \in Sealed!Batches /\ Sealed!Batches \subseteq Nat \ {0}
           /\ \A o : Sealed!Count(r, o) \in 0..Len(results[r])
<1>1. /\ Sealed!TypeOK /\ SealedRun(r)
      /\ job \in [Runs -> Sealed!JobRecord] /\ job[r] \in Sealed!JobRecord
      /\ results \in [Runs -> Seq(Sealed!CaseOutcomes)]
      /\ results[r] \in Seq(Sealed!CaseOutcomes) /\ sent[r] \in Nat /\ cost[r] \in Nat
  BY DEF SealedInv, SealedRun, Sealed!TypeOK
<1>2. \A o : Sealed!Count(r, o) \in 0..Len(results[r])
  <2> TAKE o
  <2>1. DOMAIN results[r] = 1..Len(results[r]) /\ Len(results[r]) \in Nat
    BY <1>1
  <2>0. \A n \in Nat : IsFiniteSet(1..n) /\ Cardinality(1..n) = n
    BY FS_Interval
  <2>2. IsFiniteSet(DOMAIN results[r]) /\ Cardinality(DOMAIN results[r]) = Len(results[r])
    BY <2>0, <2>1
  <2>3. PICK S : S = {i \in DOMAIN results[r] : results[r][i] = o}
    OBVIOUS
  <2>4. IsFiniteSet(S) /\ Cardinality(S) <= Len(results[r])
    BY <2>2, <2>3, FS_Subset
  <2>5. Cardinality(S) \in Nat
    BY <2>4, FS_CardinalityType
  <2> QED BY <2>1, <2>3, <2>4, <2>5, SealedCounts DEF Sealed!Count
<1>3. job[r].batch \in Sealed!Batches /\ Sealed!Batches \subseteq Nat \ {0}
  BY <1>1 DEF Sealed!JobRecord, Sealed!Batches
<1>4. SealedUnderway(job[r]) \in Nat
  BY DEF SealedUnderway
<1> QED BY <1>1, <1>2, <1>3, <1>4

(* One execution moves on, and nothing a conclusion may rest on changes.   *)
LEMMA SealedMoves ==
    ASSUME SealedInv, NEW r \in Runs, Sealed!TypeOK', SealedRun(r)',
           results' \in [Runs -> Seq(Sealed!CaseOutcomes)],
           \A q \in Runs : q # r =>
               /\ batch'[q] = batch[q] /\ status'[q] = status[q] /\ results'[q] = results[q]
               /\ job'[q] = job[q] /\ sent'[q] = sent[q],
           batch[r] # 0 => batch'[r] = batch[r],
           status[r] # "NONE" => status'[r] = status[r] /\ results'[r] = results[r],
           UNCHANGED <<review, conclusions, reading>>
    PROVE  SealedInv'
<1>1. ASSUME NEW q \in Runs PROVE SealedRun(q)'
  <2>1. CASE q = r
    BY <2>1
  <2>2. CASE q # r
    <3>1. /\ batch'[q] = batch[q] /\ status'[q] = status[q] /\ results'[q] = results[q]
          /\ job'[q] = job[q] /\ sent'[q] = sent[q] /\ SealedRun(q)
      BY <2>2 DEF SealedInv
    <3>2. \A o : Sealed!Count(q, o)' = Sealed!Count(q, o)
      BY <3>1 DEF Sealed!Count
    <3>3. SealedUnderway(job[q])' = SealedUnderway(job[q])
      BY <3>1 DEF SealedUnderway
    <3> QED BY <3>1, <3>2, <3>3 DEF SealedRun, SealedRequests, SealedPass
  <2> QED BY <2>1, <2>2
<1>2. ASSUME NEW q \in SealedConclusions, SealedBacked(q) PROVE SealedBacked(q)'
  <2> SUFFICES ASSUME q.status = "QUALIFIED", NEW k \in Sealed!Batches
               PROVE  /\ batch'[q.runs[k]] = k /\ status'[q.runs[k]] = "PASS"
                      /\ Len(results'[q.runs[k]]) = BatchSize /\ review'[q.runs[k]] = "PASS"
    BY DEF SealedBacked
  <2>1. q.runs[k] \in Runs /\ k # 0
    BY DEF SealedConclusions, Sealed!Batches
  <2> QED BY <1>2, <2>1 DEF SealedBacked
<1> QED BY <1>1, <1>2 DEF SealedInv

(* An execution that has no request of a case on its way any more or yet.  *)
LEMMA SealedGoes ==
    ASSUME SealedInv, NEW r \in Runs, NEW j \in Sealed!JobRecord, job' = [job EXCEPT ![r] = j],
           j.batch = job[r].batch, j.pc \in Sealed!Steps \ {"RECORD", "CASE"},
           j.pc = "SEND" => j.stage = "ANALYST",
           j.pc \in {"ENSURE", "BEGIN", "SEND"} => job[r].pc \in {"NEW", "ENSURE", "BEGIN"},
           j.pc # "NEW",
           UNCHANGED <<results, sent, review, conclusions, reading>>,
           events' \in [Sealed!Batches -> SUBSET {"RESERVE", "SETTLE", "RELEASE"}],
           settled' \in [Sealed!Batches -> Nat], UNCHANGED cost,
           batch' \in [Runs -> {0} \cup Sealed!Batches],
           \A q \in Runs : batch'[q] = batch[q] \/ (q = r /\ batch[r] = 0 /\ batch'[q] = job[r].batch),
           status' \in [Runs -> {"NONE"} \cup Sealed!Verdicts],
           \A q \in Runs : status'[q] = status[q] \/ (q = r /\ status[r] = "NONE"),
           SealedPass(r)'
    PROVE  SealedInv'
<1>0. /\ Sealed!TypeOK /\ SealedRun(r) /\ results \in [Runs -> Seq(Sealed!CaseOutcomes)] /\ job \in [Runs -> Sealed!JobRecord]
      /\ SealedUnderway(job[r]) \in Nat
      /\ Len(results[r]) \in Nat /\ sent[r] \in Nat
      /\ \A o : Sealed!Count(r, o) \in Nat
  BY SealedTypes
<1>1. Sealed!TypeOK'
  BY <1>0 DEF Sealed!TypeOK
<1>2. job'[r] = j /\ \A q \in Runs : q # r => job'[q] = job[q]
  BY <1>0
<1>3. SealedUnderway(j) = 0
  BY DEF SealedUnderway, Sealed!Steps
<1>4. SealedRequests(r)'
  <2>1. SealedUnderway(job[r])' = 0
    BY <1>2, <1>3 DEF SealedUnderway
  <2>2. \A o : Sealed!Count(r, o)' = Sealed!Count(r, o)
    BY DEF Sealed!Count
  <2>3. sent[r] >= (Len(results[r]) - Sealed!Count(r, "BLOCKED")) + Sealed!Count(r, "PASS") + 0
    <3>1. sent[r] >= (Len(results[r]) - Sealed!Count(r, "BLOCKED")) + Sealed!Count(r, "PASS")
                     + SealedUnderway(job[r])
      BY <1>0 DEF SealedRun, SealedRequests
    <3>2. Sealed!Count(r, "BLOCKED") \in Nat /\ Sealed!Count(r, "PASS") \in Nat
      BY <1>0
    <3> QED BY <1>0, <3>1, <3>2
  <2> QED BY <2>1, <2>2, <2>3 DEF SealedRequests
<1>5. SealedRun(r)'
  <2>1. \A o : Sealed!Count(r, o)' = Sealed!Count(r, o)
    BY DEF Sealed!Count
  <2>2. Len(<<>>) < BatchSize
    BY SealedAssumption
  <2> QED BY <1>0, <1>2, <1>4, <2>1, <2>2 DEF SealedRun
<1> QED BY <1>0, <1>1, <1>2, <1>5, SealedMoves

LEMMA SealedFresh ==
    ASSUME SealedInv, NEW r \in Runs, NEW pc \in Sealed!Steps, Sealed!Goto(r, pc)
    PROVE  \E j \in Sealed!JobRecord :
              job' = [job EXCEPT ![r] = j] /\ j.batch = job[r].batch /\ j.pc = pc
              /\ j.stage = "ANALYST" /\ j.outcome = "PASS" /\ ~j.sent
<1>1. job[r].batch \in Sealed!Batches /\ job \in [Runs -> Sealed!JobRecord]
  BY SealedTypes
<1> DEFINE k == Sealed!Fresh(pc, job[r].batch)
<1>2. /\ k \in Sealed!JobRecord /\ k.batch = job[r].batch /\ k.pc = pc
      /\ k.stage = "ANALYST" /\ k.outcome = "PASS" /\ ~k.sent
  BY <1>1 DEF Sealed!Fresh, Sealed!JobRecord, Sealed!CaseOutcomes, Sealed!Verdicts
<1>3. job' = [job EXCEPT ![r] = k]
  BY <1>1 DEF Sealed!Goto
<1> HIDE DEF k
<1> QED BY <1>2, <1>3

-----------------------------------------------------------------------------
(* The steps that only move the execution and the pool.                    *)
LEMMA SealedGoesOn ==
    ASSUME SealedInv, NEW r \in Runs,
           \/ Sealed!CheckPool(r) \/ Sealed!EnsureCampaign(r) \/ Sealed!Raise(r)
           \/ Sealed!ReleaseCampaign(r) \/ Sealed!Stop(r)
    PROVE  SealedInv'
<1>0. /\ Sealed!TypeOK /\ SealedPass(r)
      /\ events \in [Sealed!Batches -> SUBSET {"RESERVE", "SETTLE", "RELEASE"}]
      /\ settled \in [Sealed!Batches -> Nat] /\ batch \in [Runs -> {0} \cup Sealed!Batches]
      /\ status \in [Runs -> {"NONE"} \cup Sealed!Verdicts]
  BY SealedTypes DEF SealedRun, Sealed!TypeOK
<1>1. PICK pc \in Sealed!Steps :
          /\ Sealed!Goto(r, pc) /\ pc \notin {"NEW", "RECORD", "CASE", "SEND"}
          /\ pc \in {"ENSURE", "BEGIN"} => job[r].pc \in {"NEW", "ENSURE", "BEGIN"}
  BY DEF Sealed!CheckPool, Sealed!EnsureCampaign, Sealed!Raise, Sealed!ReleaseCampaign, Sealed!Stop,
         Sealed!Steps, Sealed!At
<1>2. /\ UNCHANGED <<batch, status, results, cost, sent, review, conclusions, reading, settled>>
      /\ events' \in [Sealed!Batches -> SUBSET {"RESERVE", "SETTLE", "RELEASE"}]
  <2>1. CASE Sealed!CheckPool(r) \/ Sealed!Raise(r) \/ Sealed!Stop(r)
    BY <1>0, <2>1 DEF Sealed!CheckPool, Sealed!Raise, Sealed!Stop, Sealed!pool, Sealed!rows
  <2>2. CASE Sealed!EnsureCampaign(r)
    <3>1. /\ events' = [events EXCEPT ![job[r].batch] = events[job[r].batch] \cup {"RESERVE"}]
          /\ UNCHANGED <<settled, batch, status, results, cost, sent, review, conclusions, reading>>
      BY <2>2 DEF Sealed!EnsureCampaign, Sealed!BatchOf, Sealed!rows
    <3> QED BY <1>0, <3>1
  <2>3. CASE Sealed!ReleaseCampaign(r)
    <3>1. /\ events' = [events EXCEPT ![job[r].batch] = events[job[r].batch] \cup {"RELEASE"}]
          /\ UNCHANGED <<settled, batch, status, results, cost, sent, review, conclusions, reading>>
      BY <2>3 DEF Sealed!ReleaseCampaign, Sealed!BatchOf, Sealed!rows
    <3> QED BY <1>0, <3>1
  <2> QED BY <2>1, <2>2, <2>3
<1>3. PICK j \in Sealed!JobRecord : job' = [job EXCEPT ![r] = j] /\ j.batch = job[r].batch /\ j.pc = pc
  BY <1>1, SealedFresh
<1>4. SealedPass(r)'
  BY <1>0, <1>2 DEF SealedPass, Sealed!Count
<1> QED BY <1>0, <1>1, <1>2, <1>3, <1>4, SealedGoes

LEMMA SealedBegins ==
    ASSUME SealedInv, NEW r \in Runs, Sealed!BeginRun(r)
    PROVE  SealedInv'
<1>0. /\ Sealed!TypeOK /\ SealedPass(r)
      /\ events \in [Sealed!Batches -> SUBSET {"RESERVE", "SETTLE", "RELEASE"}]
      /\ settled \in [Sealed!Batches -> Nat] /\ batch \in [Runs -> {0} \cup Sealed!Batches]
      /\ status \in [Runs -> {"NONE"} \cup Sealed!Verdicts]
      /\ batch[r] # 0 => batch[r] = job[r].batch
      /\ job[r].batch \in Sealed!Batches
  BY SealedTypes DEF SealedRun, Sealed!TypeOK
<1>1. /\ job[r].pc = "BEGIN" /\ Sealed!Goto(r, "SEND") /\ batch' = [batch EXCEPT ![r] = job[r].batch]
      /\ UNCHANGED <<events, settled, status, results, cost, sent, review, conclusions, reading>>
  BY DEF Sealed!BeginRun, Sealed!At, Sealed!BatchOf, Sealed!pool
<1>2. PICK j \in Sealed!JobRecord :
          job' = [job EXCEPT ![r] = j] /\ j.batch = job[r].batch /\ j.pc = "SEND" /\ j.stage = "ANALYST"
  BY <1>1, SealedFresh DEF Sealed!Steps
<1>3. /\ batch' \in [Runs -> {0} \cup Sealed!Batches]
      /\ \A q \in Runs : batch'[q] = batch[q] \/ (q = r /\ batch[r] = 0 /\ batch'[q] = job[r].batch)
  BY <1>0, <1>1, SealedTypes
<1>4. SealedPass(r)'
  BY <1>0, <1>1 DEF SealedPass, Sealed!Count
<1> QED BY <1>0, <1>1, <1>2, <1>3, <1>4, SealedGoes DEF Sealed!Steps

LEMMA SealedCloses ==
    ASSUME SealedInv, NEW r \in Runs, Sealed!CloseRun(r) \/ Sealed!AbortRun(r)
    PROVE  SealedInv'
<1>0. /\ Sealed!TypeOK
      /\ events \in [Sealed!Batches -> SUBSET {"RESERVE", "SETTLE", "RELEASE"}]
      /\ settled \in [Sealed!Batches -> Nat] /\ batch \in [Runs -> {0} \cup Sealed!Batches]
      /\ status \in [Runs -> {"NONE"} \cup Sealed!Verdicts]
  BY SealedTypes DEF Sealed!TypeOK
<1>1. PICK pc \in {"SETTLE", "ABORT_SETTLE"}, v \in Sealed!Verdicts :
          /\ Sealed!Goto(r, pc) /\ status[r] = "NONE" /\ status' = [status EXCEPT ![r] = v]
          /\ v = "PASS" => v = Sealed!Verdict(r)
          /\ UNCHANGED <<events, settled, batch, results, cost, sent, review, conclusions, reading>>
  <2>1. CASE Sealed!CloseRun(r)
    <3>1. Sealed!Verdict(r) \in Sealed!Verdicts
      BY DEF Sealed!Verdict, Sealed!Verdicts
    <3> QED BY <2>1, <3>1 DEF Sealed!CloseRun, Sealed!IsTerminal, Sealed!pool
  <2>2. CASE Sealed!AbortRun(r)
    BY <2>2 DEF Sealed!AbortRun, Sealed!IsTerminal, Sealed!pool, Sealed!Verdicts
  <2> QED BY <2>1, <2>2
<1>2. v = "PASS" => Sealed!Count(r, "BLOCKED") = 0 /\ Sealed!Count(r, "PASS") >= PassMin
  <2>1. PICK x, y, w \in Nat : x = Sealed!Count(r, "BLOCKED") /\ y = Sealed!Count(r, "PASS")
                               /\ w = Sealed!Count(r, "CRITICAL")
    BY SealedTypes
  <2>2. v = "PASS" => "PASS" = IF x > 0 THEN "BLOCKED"
                                ELSE IF w = 0 /\ y >= PassMin THEN "PASS" ELSE "FAILED"
    BY <1>1, <2>1 DEF Sealed!Verdict
  <2>3. v = "PASS" => ~(x > 0)
    BY <2>2
  <2>4. v = "PASS" => y >= PassMin
    BY <2>2
  <2> QED BY <2>1, <2>3, <2>4
<1>3. PICK j \in Sealed!JobRecord : job' = [job EXCEPT ![r] = j] /\ j.batch = job[r].batch /\ j.pc = pc
  BY <1>1, SealedFresh DEF Sealed!Steps
<1>4. SealedPass(r)'
  BY <1>0, <1>1, <1>2 DEF SealedPass, Sealed!Count
<1>5. /\ status' \in [Runs -> {"NONE"} \cup Sealed!Verdicts]
      /\ \A q \in Runs : status'[q] = status[q] \/ (q = r /\ status[r] = "NONE")
  BY <1>0, <1>1
<1> QED BY <1>0, <1>1, <1>3, <1>4, <1>5, SealedGoes DEF Sealed!Steps

LEMMA SealedSettles ==
    ASSUME SealedInv, NEW r \in Runs, Sealed!SettleCampaign(r)
    PROVE  SealedInv'
<1>0. /\ Sealed!TypeOK /\ SealedPass(r)
      /\ events \in [Sealed!Batches -> SUBSET {"RESERVE", "SETTLE", "RELEASE"}]
      /\ settled \in [Sealed!Batches -> Nat] /\ batch \in [Runs -> {0} \cup Sealed!Batches]
      /\ status \in [Runs -> {"NONE"} \cup Sealed!Verdicts]
      /\ cost[r] \in Nat
  BY SealedTypes DEF SealedRun, Sealed!TypeOK
<1>1. /\ Sealed!Goto(r, "END")
      /\ events' \in [Sealed!Batches -> SUBSET {"RESERVE", "SETTLE", "RELEASE"}]
      /\ settled' \in [Sealed!Batches -> Nat]
      /\ UNCHANGED <<batch, status, results, cost, sent, review, conclusions, reading>>
  <2>1. /\ Sealed!Goto(r, "END")
        /\ events' = [events EXCEPT ![job[r].batch] = events[job[r].batch] \cup {"RELEASE", "SETTLE"}]
        /\ settled' = [settled EXCEPT ![job[r].batch] = cost[r]]
        /\ UNCHANGED <<batch, status, results, cost, sent, review, conclusions, reading>>
    BY DEF Sealed!SettleCampaign, Sealed!BatchOf, Sealed!rows
  <2> QED BY <1>0, <2>1
<1>2. PICK j \in Sealed!JobRecord : job' = [job EXCEPT ![r] = j] /\ j.batch = job[r].batch /\ j.pc = "END"
  BY <1>1, SealedFresh DEF Sealed!Steps
<1>3. SealedPass(r)'
  BY <1>0, <1>1 DEF SealedPass, Sealed!Count
<1> QED BY <1>0, <1>1, <1>2, <1>3, SealedGoes DEF Sealed!Steps

(* A stage is sent: the request that leaves is one more.                   *)
LEMMA SealedDispatches ==
    ASSUME SealedInv, NEW r \in Runs, Sealed!DispatchStage(r)
    PROVE  SealedInv'
<1>0. /\ Sealed!TypeOK /\ SealedRun(r) /\ results \in [Runs -> Seq(Sealed!CaseOutcomes)] /\ job \in [Runs -> Sealed!JobRecord]
      /\ job[r].pc = "SEND" /\ Len(results[r]) \in Nat /\ sent[r] \in Nat
      /\ UNCHANGED <<events, settled, batch, status, results, cost, review, conclusions, reading>>
  BY SealedTypes DEF Sealed!DispatchStage, Sealed!At, Sealed!pool, Sealed!rows
<1>1. PICK leaves \in BOOLEAN :
          /\ sent' = [sent EXCEPT ![r] = IF leaves THEN sent[r] + 1 ELSE sent[r]]
          /\ job' = [job EXCEPT ![r].pc = "RECORD", ![r].sent = leaves]
  BY DEF Sealed!DispatchStage
<1>2. PICK j \in Sealed!JobRecord :
          /\ job' = [job EXCEPT ![r] = j] /\ j.batch = job[r].batch /\ j.pc = "RECORD"
          /\ j.stage = job[r].stage /\ j.sent = leaves
  <2> DEFINE k == [job[r] EXCEPT !.pc = "RECORD", !.sent = leaves]
  <2>1. /\ k \in Sealed!JobRecord /\ k.batch = job[r].batch /\ k.pc = "RECORD"
        /\ k.stage = job[r].stage /\ k.sent = leaves
    BY <1>0 DEF Sealed!JobRecord, Sealed!Steps
  <2>2. job' = [job EXCEPT ![r] = k]
    BY <1>0, <1>1
  <2> HIDE DEF k
  <2> QED BY <2>1, <2>2
<1>3. /\ job'[r] = j /\ \A q \in Runs : q # r => job'[q] = job[q] /\ sent'[q] = sent[q]
      /\ sent'[r] = sent[r] + (IF leaves THEN 1 ELSE 0)
      /\ sent' \in [Runs -> Nat]
  <2>1. sent \in [Runs -> Nat]
    BY <1>0 DEF Sealed!TypeOK
  <2>2. PICK n \in Nat : n = IF leaves THEN sent[r] + 1 ELSE sent[r]
    BY <1>0
  <2>3. sent' = [sent EXCEPT ![r] = n]
    BY <1>1, <2>2
  <2>4. /\ job'[r] = j /\ \A q \in Runs : q # r => job'[q] = job[q]
    BY <1>0, <1>2
  <2>5. sent' \in [Runs -> Nat] /\ sent'[r] = n /\ \A q \in Runs : q # r => sent'[q] = sent[q]
    BY <2>1, <2>3
  <2>6. n = sent[r] + (IF leaves THEN 1 ELSE 0)
    BY <1>0, <2>2
  <2> QED BY <2>4, <2>5, <2>6
<1>4. Sealed!TypeOK'
  BY <1>0, <1>2, <1>3 DEF Sealed!TypeOK
<1>5. SealedRequests(r)'
  <2>1. SealedUnderway(job[r])' = SealedUnderway(job[r]) + (IF leaves THEN 1 ELSE 0)
    BY <1>0, <1>2, <1>3 DEF SealedUnderway
  <2>2. PICK u \in Nat : u = SealedUnderway(job[r])
    BY SealedTypes
  <2>3. \A o : Sealed!Count(r, o)' = Sealed!Count(r, o)
    BY <1>0 DEF Sealed!Count
  <2>4. PICK x, y \in Nat : x = Sealed!Count(r, "BLOCKED") /\ y = Sealed!Count(r, "PASS")
    BY SealedTypes
  <2>5. sent[r] >= (Len(results[r]) - x) + y + u
    BY <1>0, <2>2, <2>4 DEF SealedRun, SealedRequests
  <2>6. sent'[r] >= (Len(results[r]) - x) + y + (u + (IF leaves THEN 1 ELSE 0))
    <3>1. PICK n, m \in Nat : n = Len(results[r]) /\ m = sent[r]
      BY <1>0
    <3> QED BY <1>0, <1>3, <2>5, <3>1
  <2> QED BY <1>0, <2>1, <2>2, <2>3, <2>4, <2>6 DEF SealedRequests
<1>6. SealedRun(r)'
  <2>1. \A o : Sealed!Count(r, o)' = Sealed!Count(r, o)
    BY <1>0 DEF Sealed!Count
  <2> QED BY <1>0, <1>2, <1>3, <1>5, <2>1 DEF SealedRun, SealedPass
<1> QED BY <1>0, <1>3, <1>4, <1>6, SealedMoves


(* The answer of a stage: the case goes on or has its outcome, and what    *)
(* the requests of the case account for does not grow.                     *)
LEMMA SealedRecords ==
    ASSUME SealedInv, NEW r \in Runs, Sealed!RecordAttempts(r)
    PROVE  SealedInv'
<1>0. /\ Sealed!TypeOK /\ SealedRun(r) /\ results \in [Runs -> Seq(Sealed!CaseOutcomes)] /\ job \in [Runs -> Sealed!JobRecord] /\ job[r] \in Sealed!JobRecord
      /\ job[r].pc = "RECORD" /\ status[r] = "NONE" /\ Len(results[r]) \in Nat /\ sent[r] \in Nat
      /\ cost \in [Runs -> Nat]
      /\ UNCHANGED <<events, settled, batch, status, results, sent, review, conclusions, reading>>
  BY SealedTypes DEF Sealed!RecordAttempts, Sealed!At, Sealed!IsTerminal, Sealed!pool, Sealed!TypeOK
<1>1. cost' \in [Runs -> Nat]
  <2>1. PICK c \in 1..Sealed!StageReservation : cost' = [cost EXCEPT ![r] = @ + c]
    BY DEF Sealed!RecordAttempts
  <2>2. c \in Nat /\ cost[r] \in Nat
    BY <1>0, <2>1 DEF Sealed!StageReservation
  <2>3. cost[r] + c \in Nat
    BY <2>2
  <2> QED BY <1>0, <2>1, <2>3
<1>2. PICK o \in Sealed!CaseOutcomes :
          /\ o = "PASS" => job[r].sent
          /\ o = "FAILED" => job[r].sent
          /\ o = "CRITICAL" => job[r].sent /\ job[r].stage = "ANALYST"
          /\ job' = IF o = "PASS" /\ job[r].stage = "ANALYST"
                    THEN [job EXCEPT ![r].pc = "SEND", ![r].stage = "PLANNER", ![r].sent = FALSE]
                    ELSE [job EXCEPT ![r].pc = "CASE", ![r].outcome = o, ![r].sent = FALSE]
  BY DEF Sealed!RecordAttempts
<1>3. PICK j \in Sealed!JobRecord :
          /\ job' = [job EXCEPT ![r] = j] /\ j.batch = job[r].batch /\ j.pc \in {"SEND", "CASE"}
          /\ SealedUnderway(j) <= SealedUnderway(job[r])
  <2>1. CASE o = "PASS" /\ job[r].stage = "ANALYST"
    <3> DEFINE k == [job[r] EXCEPT !.pc = "SEND", !.stage = "PLANNER", !.sent = FALSE]
    <3>1. k \in Sealed!JobRecord /\ k.batch = job[r].batch /\ k.pc = "SEND" /\ k.stage = "PLANNER"
      BY <1>0 DEF Sealed!JobRecord, Sealed!Steps
    <3>2. job' = [job EXCEPT ![r] = k]
      BY <1>0, <1>2, <2>1
    <3>3. SealedUnderway(k) = 1
      BY <3>1 DEF SealedUnderway
    <3>4. SealedUnderway(job[r]) = 1
      BY <1>0, <1>2, <2>1 DEF SealedUnderway
    <3>5. SealedUnderway(k) <= SealedUnderway(job[r])
      BY <3>3, <3>4
    <3> HIDE DEF k
    <3> QED BY <3>1, <3>2, <3>5
  <2>2. CASE ~(o = "PASS" /\ job[r].stage = "ANALYST")
    <3> DEFINE k == [job[r] EXCEPT !.pc = "CASE", !.outcome = o, !.sent = FALSE]
    <3>1. k \in Sealed!JobRecord /\ k.batch = job[r].batch /\ k.pc = "CASE" /\ k.outcome = o
      BY <1>0 DEF Sealed!JobRecord, Sealed!Steps
    <3>2. job' = [job EXCEPT ![r] = k]
      BY <1>0, <1>2, <2>2
    <3>3. SealedUnderway(k) = IF o = "PASS" THEN 2 ELSE IF o = "BLOCKED" THEN 0 ELSE 1
      BY <3>1 DEF SealedUnderway
    <3>4. SealedUnderway(job[r]) = (IF job[r].stage = "PLANNER" THEN 1 ELSE 0) + (IF job[r].sent THEN 1 ELSE 0)
      BY <1>0 DEF SealedUnderway
    <3>5. o \in {"PASS", "FAILED", "BLOCKED", "CRITICAL"} /\ job[r].stage \in {"ANALYST", "PLANNER"}
      BY <1>0 DEF Sealed!CaseOutcomes, Sealed!Verdicts, Sealed!JobRecord
    <3>6. o # "BLOCKED" => job[r].sent
      BY <1>2, <3>5
    <3>7. o = "PASS" => job[r].stage = "PLANNER"
      BY <2>2, <3>5
    <3>8. SealedUnderway(k) <= SealedUnderway(job[r])
      BY <3>3, <3>4, <3>5, <3>6, <3>7
    <3> HIDE DEF k
    <3> QED BY <3>1, <3>2, <3>8
  <2> QED BY <2>1, <2>2
<1>4. job'[r] = j /\ \A q \in Runs : q # r => job'[q] = job[q]
  BY <1>0, <1>3
<1>5. Sealed!TypeOK'
  BY <1>0, <1>1, <1>3 DEF Sealed!TypeOK
<1>6. \A o1 : Sealed!Count(r, o1)' = Sealed!Count(r, o1)
  BY <1>0 DEF Sealed!Count
<1>7. SealedRequests(r)'
  <2>1. PICK u, v \in Nat : u = SealedUnderway(job[r]) /\ v = SealedUnderway(j)
    BY SealedTypes DEF SealedUnderway
  <2>2. SealedUnderway(job[r])' = v
    BY <1>4, <2>1 DEF SealedUnderway
  <2>3. PICK n, m \in Nat : n = Len(results[r]) /\ m = sent[r]
    BY <1>0
  <2>4. PICK x, y \in Nat : x = Sealed!Count(r, "BLOCKED") /\ y = Sealed!Count(r, "PASS")
    BY SealedTypes
  <2>5. m >= (n - x) + y + u
    BY <1>0, <2>1, <2>3, <2>4 DEF SealedRun, SealedRequests
  <2>6. m >= (n - x) + y + v
    BY <1>3, <2>1, <2>5
  <2> QED BY <1>0, <1>6, <2>2, <2>3, <2>4, <2>6 DEF SealedRequests
<1>8. SealedRun(r)'
  BY <1>0, <1>3, <1>4, <1>6, <1>7 DEF SealedRun, SealedPass
<1> QED BY <1>0, <1>4, <1>5, <1>8, SealedMoves

(* The results of one kind in a list of case results.                      *)
SealedTally(s, o) == Cardinality({i \in DOMAIN s : s[i] = o})

(* One result more is counted once.                                        *)
LEMMA SealedAppends ==
    ASSUME NEW s \in Seq(Sealed!CaseOutcomes), NEW x \in Sealed!CaseOutcomes, NEW o
    PROVE  SealedTally(Append(s, x), o) = SealedTally(s, o) + (IF x = o THEN 1 ELSE 0)
<1>1. PICK n \in Nat : n = Len(s) /\ DOMAIN s = 1..n /\ DOMAIN Append(s, x) = 1..(n + 1)
  OBVIOUS
<1>2. PICK A, B : A = {i \in DOMAIN s : s[i] = o} /\ B = {i \in DOMAIN Append(s, x) : Append(s, x)[i] = o}
  OBVIOUS
<1>3. IsFiniteSet(A)
  <2>1. IsFiniteSet(1..n)
    BY FS_Interval
  <2> QED BY <1>1, <1>2, <2>1, FS_Subset
<1>4. (\A i \in 1..n : Append(s, x)[i] = s[i]) /\ Append(s, x)[n + 1] = x
  BY <1>1
<1>5. CASE x = o
  <2>1. B = A \cup {n + 1} /\ n + 1 \notin A
    BY <1>1, <1>2, <1>4, <1>5
  <2>2. Cardinality(A \cup {n + 1}) = Cardinality(A) + 1
    BY <1>3, <2>1, FS_AddElement
  <2> QED BY <1>2, <1>5, <2>1, <2>2 DEF SealedTally
<1>6. CASE x # o
  <2>1. B = A
    BY <1>1, <1>2, <1>4, <1>6
  <2>2. PICK c \in Nat : c = Cardinality(A)
    BY <1>3, FS_CardinalityType
  <2>3. c = c + (IF x = o THEN 1 ELSE 0)
    BY <1>6
  <2> QED BY <1>2, <2>1, <2>2, <2>3 DEF SealedTally
<1> QED BY <1>5, <1>6

(* The case has its result: its requests are accounted for by the counts.  *)
LEMMA SealedTakesResult ==
    ASSUME SealedInv, NEW r \in Runs, Sealed!RecordCaseResult(r)
    PROVE  SealedInv'
<1>0. /\ Sealed!TypeOK /\ SealedRun(r) /\ results \in [Runs -> Seq(Sealed!CaseOutcomes)] /\ job \in [Runs -> Sealed!JobRecord] /\ job[r] \in Sealed!JobRecord
      /\ job[r].pc = "CASE" /\ status[r] = "NONE" /\ Len(results[r]) \in Nat /\ sent[r] \in Nat
      /\ results[r] \in Seq(Sealed!CaseOutcomes)
      /\ UNCHANGED <<events, settled, batch, status, cost, sent, review, conclusions, reading>>
  BY SealedTypes DEF Sealed!RecordCaseResult, Sealed!At, Sealed!IsTerminal, Sealed!pool
<1>1. PICK o \in Sealed!CaseOutcomes : o = job[r].outcome
  BY <1>0 DEF Sealed!JobRecord
<1>2. PICK n \in Nat : n = Len(results[r]) /\ n < BatchSize
  BY <1>0 DEF SealedRun
<1>3. PICK t \in Seq(Sealed!CaseOutcomes) : t = Append(results[r], o) /\ Len(t) = n + 1
  <2>1. Append(results[r], o) \in Seq(Sealed!CaseOutcomes) /\ Len(Append(results[r], o)) = Len(results[r]) + 1
    BY <1>0
  <2> QED BY <1>2, <2>1
<1>4. /\ results' = [results EXCEPT ![r] = t]
      /\ Sealed!Goto(r, IF Len(results'[r]) = BatchSize THEN "CLOSE" ELSE "SEND")
  BY <1>1, <1>3 DEF Sealed!RecordCaseResult
<1>5. /\ results' \in [Runs -> Seq(Sealed!CaseOutcomes)] /\ results'[r] = t
      /\ \A q \in Runs : q # r => results'[q] = results[q]
  BY <1>0, <1>4
<1>6. PICK j \in Sealed!JobRecord :
          /\ job' = [job EXCEPT ![r] = j] /\ j.batch = job[r].batch /\ j.stage = "ANALYST"
          /\ j.pc = IF n + 1 = BatchSize THEN "CLOSE" ELSE "SEND"
  <2>1. PICK pc \in Sealed!Steps : pc = (IF n + 1 = BatchSize THEN "CLOSE" ELSE "SEND") /\ Sealed!Goto(r, pc)
    BY <1>3, <1>4, <1>5 DEF Sealed!Steps
  <2> QED BY <2>1, SealedFresh
<1>7. job'[r] = j /\ \A q \in Runs : q # r => job'[q] = job[q]
  BY <1>0, <1>6
<1>8. Sealed!TypeOK'
  <2>1. \A q \in Runs : Len(results'[q]) <= BatchSize
    <3>1. n + 1 <= BatchSize
      BY <1>2, SealedAssumption
    <3> QED BY <1>0, <1>3, <1>5, <3>1 DEF Sealed!TypeOK
  <2>2. \A q \in Runs : \A i \in DOMAIN results'[q] : results'[q][i] \in Sealed!CaseOutcomes
    BY <1>5
  <2>3. job' \in [Runs -> Sealed!JobRecord]
    BY <1>0, <1>6
  <2> QED BY <1>0, <2>1, <2>2, <2>3 DEF Sealed!TypeOK
<1>9. SealedRequests(r)'
  <2>0. PICK x, y \in Nat : x = Sealed!Count(r, "BLOCKED") /\ y = Sealed!Count(r, "PASS")
    BY SealedTypes
  <2>1. PICK m, u \in Nat : m = sent[r] /\ u = SealedUnderway(job[r])
    BY <1>0, SealedTypes
  <2>2. m >= (n - x) + y + u
    BY <1>0, <1>2, <2>0, <2>1 DEF SealedRun, SealedRequests
  <2>3. u = IF o = "PASS" THEN 2 ELSE IF o = "BLOCKED" THEN 0 ELSE 1
    BY <1>0, <1>1, <2>1 DEF SealedUnderway
  <2>4. Sealed!Count(r, "BLOCKED")' = x + (IF o = "BLOCKED" THEN 1 ELSE 0)
    <3>1. PICK s \in Seq(Sealed!CaseOutcomes) : s = results[r]
      BY <1>0
    <3>2. x = SealedTally(s, "BLOCKED")
      BY <3>1, <2>0, SealedCounts DEF Sealed!Count, SealedTally
    <3>3. Sealed!Count(r, "BLOCKED")' = SealedTally(t, "BLOCKED")
      BY <1>5, SealedCounts DEF Sealed!Count, SealedTally
    <3>4. t = Append(s, o)
      BY <1>3, <3>1
    <3> QED BY <3>2, <3>3, <3>4, SealedAppends
  <2>5. Sealed!Count(r, "PASS")' = y + (IF o = "PASS" THEN 1 ELSE 0)
    <3>1. PICK s \in Seq(Sealed!CaseOutcomes) : s = results[r]
      BY <1>0
    <3>2. y = SealedTally(s, "PASS")
      BY <3>1, <2>0, SealedCounts DEF Sealed!Count, SealedTally
    <3>3. Sealed!Count(r, "PASS")' = SealedTally(t, "PASS")
      BY <1>5, SealedCounts DEF Sealed!Count, SealedTally
    <3>4. t = Append(s, o)
      BY <1>3, <3>1
    <3> QED BY <3>2, <3>3, <3>4, SealedAppends
  <2>6. SealedUnderway(job[r])' = 0
    BY <1>6, <1>7 DEF SealedUnderway
  <2>7. m >= ((n + 1) - (x + (IF o = "BLOCKED" THEN 1 ELSE 0))) + (y + (IF o = "PASS" THEN 1 ELSE 0)) + 0
    BY <2>2, <2>3
  <2>8. Len(results'[r]) = n + 1 /\ sent'[r] = m
    BY <1>0, <1>3, <1>5, <2>1
  <2> QED BY <2>0, <2>4, <2>5, <2>6, <2>7, <2>8 DEF SealedRequests
<1>10. SealedRun(r)'
  <2>1. Len(results'[r]) <= BatchSize /\ (job'[r].pc \in {"SEND", "RECORD", "CASE"} => Len(results'[r]) < BatchSize)
    <3>1. n + 1 <= BatchSize /\ (n + 1 # BatchSize => n + 1 < BatchSize)
      BY <1>2, SealedAssumption
    <3> QED BY <1>3, <1>5, <1>6, <1>7, <3>1
  <2> QED BY <1>0, <1>3, <1>5, <1>6, <1>7, <1>9, <2>1 DEF SealedRun, SealedPass
<1> QED BY <1>0, <1>5, <1>7, <1>8, <1>10, SealedMoves


-----------------------------------------------------------------------------
(* The steps that only touch the review and the conclusions.               *)
LEMMA SealedConcludes ==
    ASSUME SealedInv, Sealed!TypeOK',
           conclusions' \subseteq SealedConclusions,
           reading' \in [Aggregators -> SUBSET SealedConclusions],
           UNCHANGED <<batch, status, results, sent, job>>,
           \A r \in Runs : review'[r] = review[r] \/ review[r] = "NONE",
           \A q \in conclusions' : SealedBacked(q),
           \A x \in Aggregators : \A q \in reading'[x] : SealedBacked(q)
    PROVE  SealedInv'
<1>1. ASSUME NEW q \in SealedConclusions, SealedBacked(q) PROVE SealedBacked(q)'
  <2> SUFFICES ASSUME q.status = "QUALIFIED", NEW k \in Sealed!Batches
               PROVE  /\ batch'[q.runs[k]] = k /\ status'[q.runs[k]] = "PASS"
                      /\ Len(results'[q.runs[k]]) = BatchSize /\ review'[q.runs[k]] = "PASS"
    BY DEF SealedBacked
  <2>1. q.runs[k] \in Runs
    BY DEF SealedConclusions, Sealed!Batches
  <2> QED BY <1>1, <2>1 DEF SealedBacked
<1>2. ASSUME NEW r \in Runs PROVE SealedRun(r)'
  <2>1. SealedRun(r)
    BY DEF SealedInv
  <2>2. \A o : Sealed!Count(r, o)' = Sealed!Count(r, o)
    BY DEF Sealed!Count
  <2>3. SealedUnderway(job[r])' = SealedUnderway(job[r])
    BY DEF SealedUnderway
  <2> QED BY <2>1, <2>2, <2>3 DEF SealedRun, SealedRequests, SealedPass
<1>3. \A q \in conclusions' : SealedBacked(q)'
  BY <1>1
<1>4. \A x \in Aggregators : \A q \in reading'[x] : SealedBacked(q)'
  BY <1>1
<1> QED BY <1>2, <1>3, <1>4 DEF SealedInv

LEMMA SealedReviews ==
    ASSUME SealedInv, NEW r \in Runs, NEW v \in {"PASS", "FAIL", "INCONCLUSIVE"},
           Sealed!RecordSafetyReview(r, v)
    PROVE  SealedInv'
<1>1. /\ review' = [review EXCEPT ![r] = v] /\ review[r] = "NONE"
      /\ UNCHANGED <<events, settled, batch, status, results, cost, sent, conclusions, job, reading>>
  BY DEF Sealed!RecordSafetyReview, Sealed!pool
<1>2. Sealed!TypeOK /\ review \in [Runs -> {"NONE", "PASS", "FAIL", "INCONCLUSIVE"}]
  BY DEF SealedInv, Sealed!TypeOK
<1>3. review' \in [Runs -> {"NONE", "PASS", "FAIL", "INCONCLUSIVE"}]
  BY <1>1, <1>2
<1>4. \A q \in Runs : review'[q] = review[q] \/ review[q] = "NONE"
  BY <1>1, <1>2
<1>5. Sealed!TypeOK'
  BY <1>1, <1>2, <1>3 DEF Sealed!TypeOK
<1> QED BY <1>1, <1>4, <1>5, SealedConcludes DEF SealedInv

(* The conclusion of two complete runs rests on what it says.              *)
LEMMA SealedAggregates ==
    ASSUME SealedInv, NEW x \in Aggregators, Sealed!Aggregate(x)
    PROVE  SealedInv'
<1>1. PICK r1, r2 \in Runs :
          /\ batch[r1] = 1 /\ batch[r2] = 2
          /\ Sealed!IsComplete(r1) /\ Sealed!IsComplete(r2)
          /\ reading' = [reading EXCEPT ![x] = {Sealed!Conclusion(r1, r2)}]
          /\ UNCHANGED <<events, settled, batch, status, results, cost, review, conclusions, sent, job>>
  BY DEF Sealed!Aggregate, Sealed!pool, Sealed!rows
<1>2. PICK v : v = Sealed!Conclusion(r1, r2).status /\ Sealed!Conclusion(r1, r2) = [runs |-> <<r1, r2>>, status |-> v]
  BY DEF Sealed!Conclusion
<1>3. v \in {"BLOCKED", "FAILED", "QUALIFIED"}
  BY <1>2 DEF Sealed!Conclusion, Sealed!SafetyGate
<1>4. PICK q \in SealedConclusions : q = [runs |-> <<r1, r2>>, status |-> v]
  BY <1>3 DEF SealedConclusions
<1>5. SealedBacked(q)
  <2> SUFFICES ASSUME v = "QUALIFIED", NEW k \in Sealed!Batches
               PROVE  /\ batch[q.runs[k]] = k /\ status[q.runs[k]] = "PASS"
                      /\ Len(results[q.runs[k]]) = BatchSize /\ review[q.runs[k]] = "PASS"
    BY <1>4 DEF SealedBacked
  <2>1. /\ Sealed!SafetyGate({r1, r2}) = "PASS"
        /\ status[r1] = "PASS" /\ status[r2] = "PASS"
    BY <1>2 DEF Sealed!Conclusion, Sealed!SafetyGate
  <2>2. review[r1] = "PASS" /\ review[r2] = "PASS"
    BY <2>1 DEF Sealed!SafetyGate
  <2>3. Len(results[r1]) = BatchSize /\ Len(results[r2]) = BatchSize
    BY <1>1 DEF Sealed!IsComplete
  <2>4. CASE k = 1
    BY <1>1, <1>4, <2>1, <2>2, <2>3, <2>4
  <2>5. CASE k = 2
    BY <1>1, <1>4, <2>1, <2>2, <2>3, <2>5
  <2> QED BY <2>4, <2>5 DEF Sealed!Batches
<1>6. reading' = [reading EXCEPT ![x] = {q}]
  BY <1>1, <1>2, <1>4
<1>7. /\ reading \in [Aggregators -> SUBSET SealedConclusions] /\ conclusions \subseteq SealedConclusions
      /\ Sealed!TypeOK /\ (\A p \in conclusions : SealedBacked(p))
      /\ \A y \in Aggregators : \A p \in reading[y] : SealedBacked(p)
  BY DEF SealedInv
<1>8. reading' \in [Aggregators -> SUBSET SealedConclusions]
  BY <1>6, <1>7
<1>9. \A y \in Aggregators : \A p \in reading'[y] : SealedBacked(p)
  BY <1>5, <1>6, <1>7
<1>10. Sealed!TypeOK'
  BY <1>1, <1>7 DEF Sealed!TypeOK
<1> QED BY <1>1, <1>7, <1>8, <1>9, <1>10, SealedConcludes

LEMMA SealedQualifies ==
    ASSUME SealedInv, NEW x \in Aggregators, Sealed!RecordQualification(x)
    PROVE  SealedInv'
<1>1. PICK q \in reading[x] :
          /\ conclusions' = conclusions \cup {q} /\ reading' = [reading EXCEPT ![x] = {}]
          /\ UNCHANGED <<events, settled, batch, status, results, cost, sent, review, job>>
  BY DEF Sealed!RecordQualification, Sealed!pool
<1>2. /\ reading \in [Aggregators -> SUBSET SealedConclusions] /\ conclusions \subseteq SealedConclusions
      /\ Sealed!TypeOK /\ (\A p \in conclusions : SealedBacked(p))
      /\ \A y \in Aggregators : \A p \in reading[y] : SealedBacked(p)
  BY DEF SealedInv
<1>3. reading' \in [Aggregators -> SUBSET SealedConclusions] /\ conclusions' \subseteq SealedConclusions
  BY <1>1, <1>2
<1>4. \A y \in Aggregators : \A p \in reading'[y] : SealedBacked(p)
  BY <1>1, <1>2
<1>5. Sealed!TypeOK'
  BY <1>1, <1>2 DEF Sealed!TypeOK
<1> QED BY <1>1, <1>2, <1>3, <1>4, <1>5, SealedConcludes

LEMMA SealedStep ==
    ASSUME SealedInv, Sealed!Next
    PROVE  SealedInv'
<1>1. CASE \E r \in Runs :
            \/ Sealed!CheckPool(r) \/ Sealed!EnsureCampaign(r) \/ Sealed!BeginRun(r)
            \/ Sealed!DispatchStage(r) \/ Sealed!RecordAttempts(r) \/ Sealed!RecordCaseResult(r)
            \/ Sealed!CloseRun(r) \/ Sealed!SettleCampaign(r)
            \/ Sealed!Raise(r) \/ Sealed!ReleaseCampaign(r) \/ Sealed!AbortRun(r) \/ Sealed!Stop(r)
  BY <1>1, SealedGoesOn, SealedBegins, SealedDispatches, SealedRecords, SealedTakesResult, SealedCloses,
     SealedSettles
<1>2. CASE \E r \in Runs, v \in {"PASS", "FAIL", "INCONCLUSIVE"} : Sealed!RecordSafetyReview(r, v)
  BY <1>2, SealedReviews
<1>3. CASE \E x \in Aggregators : Sealed!Aggregate(x) \/ Sealed!RecordQualification(x)
  BY <1>3, SealedAggregates, SealedQualifies
<1> QED BY <1>1, <1>2, <1>3 DEF Sealed!Next

LEMMA SealedHolds ==
    ASSUME SealedInv
    PROVE  Sealed!TypeOK /\ Sealed!QualificationIsBacked
<1> SUFFICES ASSUME NEW q \in conclusions, q.status = "QUALIFIED", NEW k \in Sealed!Batches, NEW r \in Runs,
                    r = q.runs[k]
             PROVE  /\ batch[r] = k /\ status[r] = "PASS" /\ Len(results[r]) = BatchSize
                    /\ sent[r] >= BatchSize + PassMin /\ Sealed!Count(r, "PASS") >= PassMin
                    /\ review[r] = "PASS"
  <2>1. \A p \in SealedConclusions, i \in Sealed!Batches : p.runs[i] \in Runs
    BY DEF SealedConclusions, Sealed!Batches
  <2> QED BY <2>1 DEF SealedInv, Sealed!QualificationIsBacked
<1>1. batch[r] = k /\ status[r] = "PASS" /\ Len(results[r]) = BatchSize /\ review[r] = "PASS"
  BY DEF SealedInv, SealedBacked
<1>2. Sealed!Count(r, "BLOCKED") = 0 /\ Sealed!Count(r, "PASS") >= PassMin
  BY <1>1 DEF SealedInv, SealedRun, SealedPass
<1>3. PICK y, m, u \in Nat : y = Sealed!Count(r, "PASS") /\ m = sent[r] /\ u = SealedUnderway(job[r])
  <2>1. Sealed!Count(r, "PASS") \in Nat /\ sent[r] \in Nat /\ SealedUnderway(job[r]) \in Nat
    BY SealedTypes
  <2> QED BY <2>1
<1>4. m >= (BatchSize - 0) + y + u
  <2>1. SealedRequests(r)
    BY DEF SealedInv, SealedRun
  <2> QED BY <1>1, <1>2, <1>3, <2>1 DEF SealedRequests
<1>5. m >= BatchSize + PassMin
  BY <1>2, <1>3, <1>4, SealedAssumption
<1> QED BY <1>1, <1>2, <1>3, <1>5

(* A step that changes nothing of this part keeps the invariant.            *)
LEMMA SealedStutters ==
    ASSUME SealedInv, UNCHANGED Sealed!vars
    PROVE  SealedInv'
<1>1. UNCHANGED <<events, settled, batch, status, results, cost, sent, review, conclusions, job, reading>>
  BY DEF Sealed!vars
<1>2. \A r, o : Sealed!Count(r, o)' = Sealed!Count(r, o)
  BY <1>1 DEF Sealed!Count
<1>3. \A r \in Runs : SealedRun(r)'
  BY <1>1, <1>2 DEF SealedInv, SealedRun, SealedRequests, SealedUnderway, SealedPass
<1>4. \A q : SealedBacked(q)' <=> SealedBacked(q)
  BY <1>1, <1>2 DEF SealedBacked
<1> QED BY <1>1, <1>3, <1>4 DEF SealedInv, Sealed!TypeOK

-----------------------------------------------------------------------------
(* How inventory facts come in.                                            *)

(* A batch: of each partition every record up to where it is was           *)
(* registered, but for the one in hand that is not stored yet.             *)
ArrivingRun(t, e) ==
    /\ \A q \in Arriving!Partitions : t.next[q] \in 0..Len(EventLog[q])
    /\ t.taken = NoOne => ~t.stored
    /\ t.taken # NoOne => t.next[t.taken] \in 1..Len(EventLog[t.taken])
    /\ \A q \in Arriving!Partitions : \A i \in 1..Len(EventLog[q]) :
          (i < t.next[q] \/ (i = t.next[q] /\ (t.taken # q \/ t.stored))) => e[<<q, i>>] # NoOne

ArrivingCommitted(n, e) ==
    \A q \in Arriving!Partitions :
        /\ n[q] \in 0..Len(EventLog[q])
        /\ \A i \in 1..Len(EventLog[q]) : i <= n[q] => e[<<q, i>>] # NoOne

ArrivingRow(e, x) ==
    e[x] # NoOne =>
        \E y \in Arriving!Positions :
            /\ e[y] = "ACCEPTED" /\ Arriving!Record(y)[1] = Arriving!Record(x)[1]
            /\ (e[x] = "CONFLICT") <=> Arriving!Record(x)[2] # Arriving!Record(y)[2]
ArrivingOnce(e) ==
    \A x, y \in Arriving!Positions :
        (e[x] = "ACCEPTED" /\ e[y] = "ACCEPTED" /\ Arriving!Record(x)[1] = Arriving!Record(y)[1]) => x = y

ArrivingTypes ==
    /\ cost \in [Arriving!Partitions -> Nat]
    /\ claim \in [Arriving!Partitions -> Runners \cup {NoOne}]
    /\ events \in [Arriving!Positions -> Arriving!Kinds \cup {NoOne}]
    /\ job \in [Runners -> Arriving!Batch \cup {NoOne}]

ArrivingInv ==
    /\ ArrivingTypes
    /\ ArrivingCommitted(cost, events)
    /\ \A x \in Arriving!Positions : ArrivingRow(events, x)
    /\ ArrivingOnce(events)
    /\ \A o \in Runners : job[o] # NoOne => ArrivingRun(job[o], events)

LEMMA ArrivingPlaces ==
    /\ \A q \in Arriving!Partitions : Len(EventLog[q]) \in Nat /\ DOMAIN EventLog[q] = 1..Len(EventLog[q])
    /\ \A q \in Arriving!Partitions : \A i \in 1..Len(EventLog[q]) : <<q, i>> \in Arriving!Positions
    /\ \A x \in Arriving!Positions : \E q \in Arriving!Partitions : \E i \in 1..Len(EventLog[q]) : x = <<q, i>>
<1>1. \A q \in Arriving!Partitions : Len(EventLog[q]) \in Nat /\ DOMAIN EventLog[q] = 1..Len(EventLog[q])
  BY ArrivingAssumption DEF Arriving!Partitions
<1>2. Arriving!Positions = UNION {{q} \X (1..Len(EventLog[q])) : q \in Arriving!Partitions}
  BY <1>1 DEF Arriving!Positions
<1> QED BY <1>1, <1>2

LEMMA ArrivingInit == Arriving!Init => ArrivingInv
<1> SUFFICES ASSUME Arriving!Init PROVE ArrivingInv
  OBVIOUS
<1>1. ArrivingTypes
  BY DEF Arriving!Init, ArrivingTypes
<1>2. ArrivingCommitted(cost, events)
  BY ArrivingPlaces DEF Arriving!Init, ArrivingCommitted
<1>3. (\A x \in Arriving!Positions : ArrivingRow(events, x)) /\ ArrivingOnce(events)
  BY ArrivingAssumption DEF Arriving!Init, ArrivingRow, ArrivingOnce, Arriving!Kinds
<1> QED BY <1>1, <1>2, <1>3 DEF ArrivingInv, Arriving!Init

(* A step of one batch that registers nothing.                             *)
LEMMA ArrivingStepAside ==
    ASSUME ArrivingInv, NEW o \in Runners, events' = events, ArrivingTypes',
           ArrivingCommitted(cost', events), \A p \in Runners : p # o => job'[p] = job[p],
           job'[o] # NoOne => ArrivingRun(job'[o], events)
    PROVE  ArrivingInv'
<1>1. ASSUME NEW p \in Runners, job'[p] # NoOne PROVE ArrivingRun(job'[p], events)
  BY <1>1 DEF ArrivingInv
<1> QED BY <1>1 DEF ArrivingInv, ArrivingRow, ArrivingOnce

LEMMA ArrivingOpenKeeps == ASSUME ArrivingInv, NEW o \in Runners, Arriving!Open(o) PROVE ArrivingInv'
<1> DEFINE t == [next |-> [q \in Arriving!Partitions |-> 0], taken |-> NoOne, stored |-> FALSE, count |-> 0]
<1>1. t \in Arriving!Batch /\ t.taken = NoOne /\ ~t.stored
  BY ArrivingAssumption DEF Arriving!Batch
<1>2. \A q \in Arriving!Partitions : t.next[q] = 0
  OBVIOUS
<1>3. job' = [job EXCEPT ![o] = t] /\ UNCHANGED <<cost, claim, events>>
  BY DEF Arriving!Open
<1> HIDE DEF t
<1>4. ArrivingRun(t, events)
  BY <1>1, <1>2, ArrivingPlaces DEF ArrivingRun
<1>5. job'[o] = t /\ (\A p \in Runners : p # o => job'[p] = job[p]) /\ ArrivingTypes'
  BY <1>1, <1>3 DEF ArrivingInv, ArrivingTypes
<1>6. ArrivingCommitted(cost', events)
  BY <1>3 DEF ArrivingInv
<1> QED BY <1>3, <1>4, <1>5, <1>6, ArrivingStepAside

LEMMA ArrivingAssignKeeps ==
    ASSUME ArrivingInv, NEW o \in Runners, NEW q \in Arriving!Partitions, Arriving!Assign(q, o) PROVE ArrivingInv'
<1>1. /\ job[o] # NoOne /\ job[o].taken = NoOne
      /\ claim' = [claim EXCEPT ![q] = o] /\ job' = [job EXCEPT ![o].next[q] = cost[q]]
      /\ UNCHANGED <<cost, events>>
  BY DEF Arriving!Assign
<1>2. PICK t \in Arriving!Batch : t = job[o] /\ ArrivingRun(t, events)
  BY <1>1 DEF ArrivingInv, ArrivingTypes
<1>3. PICK n \in [Arriving!Partitions -> Nat] : n = [t.next EXCEPT ![q] = cost[q]]
  BY DEF ArrivingInv, ArrivingTypes, Arriving!Batch
<1>4. n[q] = cost[q] /\ \A p \in Arriving!Partitions : p # q => n[p] = t.next[p]
  BY <1>3 DEF Arriving!Batch
<1> DEFINE y == [t EXCEPT !.next = n]
<1>5. y \in Arriving!Batch /\ y.next = n /\ y.taken = NoOne /\ y.stored = t.stored
  BY <1>1, <1>2 DEF Arriving!Batch
<1>6. job' = [job EXCEPT ![o] = y]
  BY <1>1, <1>2, <1>3 DEF ArrivingInv, ArrivingTypes, Arriving!Batch
<1> HIDE DEF y
<1>7. ArrivingRun(y, events)
  <2>1. ~y.stored
    BY <1>1, <1>2, <1>5 DEF ArrivingRun
  <2>2. ASSUME NEW p \in Arriving!Partitions
        PROVE  /\ n[p] \in 0..Len(EventLog[p])
               /\ \A i \in 1..Len(EventLog[p]) : i <= n[p] => events[<<p, i>>] # NoOne
    <3>1. CASE p = q
      BY <1>4, <3>1 DEF ArrivingInv, ArrivingCommitted
    <3>2. CASE p # q
      <4>1. t.next[p] \in 0..Len(EventLog[p]) /\ Len(EventLog[p]) \in Nat
        BY <1>2, ArrivingPlaces DEF ArrivingRun
      <4>2. t.taken # p
        BY <1>1, <1>2, ArrivingAssumption
      <4>3. ASSUME NEW i \in 1..Len(EventLog[p]), i <= t.next[p] PROVE events[<<p, i>>] # NoOne
        <5>1. i < t.next[p] \/ i = t.next[p]
          BY <4>1, <4>3
        <5> QED BY <1>2, <4>2, <5>1 DEF ArrivingRun
      <4> QED BY <1>4, <3>2, <4>1, <4>3
    <3> QED BY <3>1, <3>2
  <2>3. ASSUME NEW p \in Arriving!Partitions, NEW i \in 1..Len(EventLog[p]), i < n[p] \/ i = n[p]
        PROVE  events[<<p, i>>] # NoOne
    <3>1. i <= n[p]
      BY <2>3
    <3> QED BY <2>2, <3>1
  <2> QED BY <1>5, <2>1, <2>2, <2>3 DEF ArrivingRun
<1>8. job'[o] = y /\ (\A p \in Runners : p # o => job'[p] = job[p])
  BY <1>6 DEF ArrivingInv, ArrivingTypes
<1>9. ArrivingTypes'
  BY <1>1, <1>5, <1>6 DEF ArrivingInv, ArrivingTypes
<1>10. ArrivingCommitted(cost', events)
  BY <1>1 DEF ArrivingInv
<1> QED BY <1>1, <1>7, <1>8, <1>9, <1>10, ArrivingStepAside

LEMMA ArrivingTakeKeeps ==
    ASSUME ArrivingInv, NEW o \in Runners, NEW q \in Arriving!Partitions, Arriving!Take(o, q) PROVE ArrivingInv'
<1>1. /\ job[o] # NoOne /\ job[o].taken = NoOne /\ job[o].next[q] < Len(EventLog[q])
      /\ job' = [job EXCEPT ![o].taken = q, ![o].next[q] = @ + 1]
      /\ UNCHANGED <<cost, claim, events>>
  BY DEF Arriving!Take
<1>2. PICK t \in Arriving!Batch : t = job[o] /\ ArrivingRun(t, events)
  BY <1>1 DEF ArrivingInv, ArrivingTypes
<1>3. t.next[q] \in Nat /\ t.next \in [Arriving!Partitions -> Nat] /\ Len(EventLog[q]) \in Nat
  BY ArrivingPlaces DEF Arriving!Batch
<1>4. PICK k \in 1..Len(EventLog[q]) : k = t.next[q] + 1
  BY <1>1, <1>2, <1>3
<1>5. PICK n \in [Arriving!Partitions -> Nat] : n = [t.next EXCEPT ![q] = k]
  <2>1. k \in Nat
    BY <1>3, <1>4
  <2>2. [t.next EXCEPT ![q] = k] \in [Arriving!Partitions -> Nat]
    BY <1>3, <2>1
  <2> QED BY <2>2
<1>6. n[q] = k /\ \A p \in Arriving!Partitions : p # q => n[p] = t.next[p]
  BY <1>3, <1>5
<1> DEFINE y == [t EXCEPT !.taken = q, !.next = n]
<1>7. y \in Arriving!Batch /\ y.next = n /\ y.taken = q /\ y.stored = t.stored
  BY DEF Arriving!Batch
<1>8. job' = [job EXCEPT ![o] = y]
  BY <1>1, <1>2, <1>4, <1>5 DEF ArrivingInv, ArrivingTypes, Arriving!Batch
<1> HIDE DEF y
<1>9. ArrivingRun(y, events)
  <2>1. ~y.stored
    BY <1>1, <1>2, <1>7 DEF ArrivingRun
  <2>2. \A p \in Arriving!Partitions : n[p] \in 0..Len(EventLog[p])
    BY <1>2, <1>3, <1>4, <1>6 DEF ArrivingRun
  <2>3. ASSUME NEW p \in Arriving!Partitions, NEW i \in 1..Len(EventLog[p]), i < n[p] \/ (i = n[p] /\ q # p)
        PROVE  events[<<p, i>>] # NoOne
    <3>1. t.taken # p
      BY <1>1, <1>2, ArrivingAssumption
    <3>2. i < t.next[p] \/ i = t.next[p]
      BY <1>3, <1>4, <1>6, <2>3
    <3> QED BY <1>2, <3>1, <3>2 DEF ArrivingRun
  <2>4. y.taken # NoOne /\ y.next[y.taken] \in 1..Len(EventLog[y.taken])
    BY <1>4, <1>6, <1>7, ArrivingAssumption
  <2> QED BY <1>7, <2>1, <2>2, <2>3, <2>4 DEF ArrivingRun
<1>10. job'[o] = y /\ (\A p \in Runners : p # o => job'[p] = job[p])
  BY <1>8 DEF ArrivingInv, ArrivingTypes
<1>11. ArrivingTypes'
  BY <1>1, <1>7, <1>8 DEF ArrivingInv, ArrivingTypes
<1>12. ArrivingCommitted(cost', events)
  BY <1>1 DEF ArrivingInv
<1> QED BY <1>1, <1>9, <1>10, <1>11, <1>12, ArrivingStepAside

(* The record in hand.                                                     *)
LEMMA ArrivingAt ==
    ASSUME ArrivingInv, NEW o \in Runners, job[o] # NoOne, job[o].taken # NoOne
    PROVE  /\ job[o] \in Arriving!Batch /\ ArrivingRun(job[o], events)
           /\ job[o].taken \in Arriving!Partitions /\ Len(EventLog[job[o].taken]) \in Nat
           /\ job[o].next[job[o].taken] \in 1..Len(EventLog[job[o].taken])
           /\ Arriving!InHand(o) = <<job[o].taken, job[o].next[job[o].taken]>>
           /\ Arriving!InHand(o) \in Arriving!Positions
<1>1. job[o] \in Arriving!Batch /\ ArrivingRun(job[o], events)
  BY DEF ArrivingInv, ArrivingTypes
<1>2. job[o].taken \in Arriving!Partitions
  BY <1>1 DEF Arriving!Batch
<1>3. job[o].next[job[o].taken] \in 1..Len(EventLog[job[o].taken])
  BY <1>1 DEF ArrivingRun
<1> QED BY <1>1, <1>2, <1>3, ArrivingPlaces DEF Arriving!InHand

(* How an event is registered.                                             *)
ArrivingFirst(x) == {y \in Arriving!Positions : events[y] = "ACCEPTED" /\ Arriving!Record(y)[1] = Arriving!Record(x)[1]}
ArrivingSame(x) == \E y \in ArrivingFirst(x) : Arriving!Record(y)[2] = Arriving!Record(x)[2]

LEMMA ArrivingKind ==
    ASSUME NEW x
    PROVE  \/ ArrivingFirst(x) = {} /\ Arriving!KindOf(x) = "ACCEPTED"
           \/ ArrivingSame(x) /\ Arriving!KindOf(x) = "DUPLICATE"
           \/ ArrivingFirst(x) # {} /\ ~ArrivingSame(x) /\ Arriving!KindOf(x) = "CONFLICT"
<1>1. CASE ArrivingFirst(x) = {}
  <2>1. ~ArrivingSame(x)
    BY <1>1 DEF ArrivingSame
  <2> QED BY <1>1, <2>1 DEF ArrivingFirst, ArrivingSame, Arriving!KindOf
<1>2. CASE ArrivingFirst(x) # {} /\ ArrivingSame(x)
  BY <1>2 DEF ArrivingFirst, ArrivingSame, Arriving!KindOf
<1>3. CASE ArrivingFirst(x) # {} /\ ~ArrivingSame(x)
  BY <1>3 DEF ArrivingFirst, ArrivingSame, Arriving!KindOf
<1> QED BY <1>1, <1>2, <1>3

LEMMA ArrivingIngestKeeps == ASSUME ArrivingInv, NEW o \in Runners, Arriving!Ingest(o) PROVE ArrivingInv'
<1>1. /\ job[o] # NoOne /\ job[o].taken # NoOne
      /\ events' = [events EXCEPT ![Arriving!InHand(o)] = IF @ = NoOne THEN Arriving!KindOf(Arriving!InHand(o)) ELSE @]
      /\ job' = [job EXCEPT ![o].stored = TRUE]
      /\ UNCHANGED <<cost, claim>>
  BY DEF Arriving!Ingest
<1>2. PICK t \in Arriving!Batch : t = job[o] /\ ArrivingRun(t, events)
  BY <1>1, ArrivingAt
<1>3. PICK q \in Arriving!Partitions : q = t.taken /\ t.next[q] \in 1..Len(EventLog[q]) /\ Len(EventLog[q]) \in Nat
  BY <1>1, <1>2, ArrivingAt
<1>4. PICK x \in Arriving!Positions : x = Arriving!InHand(o) /\ x = <<q, t.next[q]>>
  BY <1>1, <1>2, <1>3, ArrivingAt
<1>5. PICK e \in [Arriving!Positions -> Arriving!Kinds \cup {NoOne}] : e = events
  BY DEF ArrivingInv, ArrivingTypes
<1> DEFINE k == IF e[x] = NoOne THEN Arriving!KindOf(x) ELSE e[x]
<1>6. k \in Arriving!Kinds
  BY <1>5, ArrivingKind DEF Arriving!Kinds
<1>7. events' = [e EXCEPT ![x] = k]
  BY <1>1, <1>4, <1>5
<1>8. e[x] # NoOne => k = e[x]
  OBVIOUS
<1>9. e[x] = NoOne => k = Arriving!KindOf(x)
  OBVIOUS
<1> HIDE DEF k
<1>10. PICK f \in [Arriving!Positions -> Arriving!Kinds \cup {NoOne}] :
           f = events' /\ f[x] = k /\ \A y \in Arriving!Positions : y # x => f[y] = e[y]
  BY <1>6, <1>7
<1>11. k # NoOne
  BY <1>6, ArrivingAssumption
<1>12. \A y \in Arriving!Positions : e[y] # NoOne => f[y] = e[y]
  BY <1>8, <1>10
<1>13. ASSUME NEW u \in Arriving!Batch, ArrivingRun(u, e) PROVE ArrivingRun(u, f)
  <2>1. \A p \in Arriving!Partitions : \A i \in 1..Len(EventLog[p]) : e[<<p, i>>] # NoOne => f[<<p, i>>] # NoOne
    BY <1>12, ArrivingPlaces
  <2> QED BY <1>13, <2>1 DEF ArrivingRun
<1>14. ArrivingCommitted(cost', f)
  <2>1. \A p \in Arriving!Partitions : \A i \in 1..Len(EventLog[p]) : e[<<p, i>>] # NoOne => f[<<p, i>>] # NoOne
    BY <1>12, ArrivingPlaces
  <2> QED BY <1>1, <1>5, <2>1 DEF ArrivingInv, ArrivingCommitted
<1>15. ASSUME NEW y \in Arriving!Positions PROVE ArrivingRow(f, y)
  <2>1. CASE y # x \/ e[x] # NoOne
    <3>1. f[y] = e[y] /\ ArrivingRow(e, y)
      BY <1>5, <1>8, <1>10, <2>1 DEF ArrivingInv
    <3>2. \A w \in Arriving!Positions : e[w] = "ACCEPTED" => f[w] = "ACCEPTED"
      BY <1>12, ArrivingAssumption DEF Arriving!Kinds
    <3> QED BY <3>1, <3>2 DEF ArrivingRow
  <2>2. CASE y = x /\ e[x] = NoOne
    <3>1. CASE ArrivingFirst(x) = {} /\ k = "ACCEPTED"
      BY <1>10, <2>2, <3>1 DEF ArrivingRow
    <3>2. CASE ArrivingSame(x) /\ k = "DUPLICATE"
      <4>1. PICK w \in Arriving!Positions : e[w] = "ACCEPTED" /\ Arriving!Record(w)[1] = Arriving!Record(x)[1]
                 /\ Arriving!Record(w)[2] = Arriving!Record(x)[2]
        BY <1>5, <3>2 DEF ArrivingSame, ArrivingFirst
      <4>2. f[w] = "ACCEPTED"
        BY <1>12, <4>1, ArrivingAssumption DEF Arriving!Kinds
      <4> QED BY <1>10, <2>2, <3>2, <4>1, <4>2 DEF ArrivingRow
    <3>3. CASE ArrivingFirst(x) # {} /\ ~ArrivingSame(x) /\ k = "CONFLICT"
      <4>1. PICK w \in Arriving!Positions : e[w] = "ACCEPTED" /\ Arriving!Record(w)[1] = Arriving!Record(x)[1]
                 /\ Arriving!Record(w)[2] # Arriving!Record(x)[2]
        BY <1>5, <3>3 DEF ArrivingSame, ArrivingFirst
      <4>2. f[w] = "ACCEPTED"
        BY <1>12, <4>1, ArrivingAssumption DEF Arriving!Kinds
      <4> QED BY <1>10, <2>2, <3>3, <4>1, <4>2 DEF ArrivingRow
    <3> QED BY <1>9, <2>2, <3>1, <3>2, <3>3, ArrivingKind
  <2> QED BY <2>1, <2>2
<1>16. ArrivingOnce(f)
  <2>1. ArrivingOnce(e)
    BY <1>5 DEF ArrivingInv
  <2>2. CASE k # "ACCEPTED" \/ e[x] # NoOne
    <3>1. \A y \in Arriving!Positions : f[y] = "ACCEPTED" => e[y] = "ACCEPTED"
      BY <1>8, <1>10, <2>2
    <3> QED BY <2>1, <3>1 DEF ArrivingOnce
  <2>3. CASE k = "ACCEPTED" /\ e[x] = NoOne
    <3>1. ArrivingFirst(x) = {}
      BY <1>9, <2>3, ArrivingKind
    <3>2. \A y \in Arriving!Positions : e[y] = "ACCEPTED" => Arriving!Record(y)[1] # Arriving!Record(x)[1]
      BY <1>5, <3>1 DEF ArrivingFirst
    <3> QED BY <1>10, <2>1, <3>2 DEF ArrivingOnce
  <2> QED BY <2>2, <2>3
<1> DEFINE y == [t EXCEPT !.stored = TRUE]
<1>17. y \in Arriving!Batch /\ y.next = t.next /\ y.taken = t.taken /\ y.stored
  BY DEF Arriving!Batch
<1>18. job' = [job EXCEPT ![o] = y]
  BY <1>1, <1>2 DEF ArrivingInv, ArrivingTypes, Arriving!Batch
<1> HIDE DEF y
<1>19. job'[o] = y /\ (\A p \in Runners : p # o => job'[p] = job[p]) /\ ArrivingTypes'
  <2>1. job'[o] = y /\ (\A p \in Runners : p # o => job'[p] = job[p]) /\ job' \in [Runners -> Arriving!Batch \cup {NoOne}]
    BY <1>17, <1>18 DEF ArrivingInv, ArrivingTypes
  <2> QED BY <1>1, <1>10, <2>1 DEF ArrivingInv, ArrivingTypes
<1>20. ArrivingRun(y, f)
  <2>1. ArrivingRun(t, f)
    BY <1>2, <1>5, <1>13
  <2>2. y.taken # NoOne
    BY <1>1, <1>2, <1>17
  <2>3. ASSUME NEW p \in Arriving!Partitions, NEW i \in 1..Len(EventLog[p]), i < y.next[p] \/ i = y.next[p]
        PROVE  f[<<p, i>>] # NoOne
    <3>1. CASE p = q /\ i = t.next[q]
      BY <1>4, <1>10, <1>11, <3>1
    <3>2. CASE ~(p = q /\ i = t.next[q])
      BY <1>3, <1>17, <2>1, <2>3, <3>2 DEF ArrivingRun
    <3> QED BY <3>1, <3>2
  <2> QED BY <1>17, <2>1, <2>2, <2>3 DEF ArrivingRun
<1>21. ASSUME NEW p \in Runners, job'[p] # NoOne PROVE ArrivingRun(job'[p], f)
  <2>1. CASE p = o
    BY <1>19, <1>20, <2>1
  <2>2. CASE p # o
    <3>1. PICK u \in Arriving!Batch : u = job[p] /\ u = job'[p]
      BY <1>19, <1>21, <2>2 DEF ArrivingInv, ArrivingTypes
    <3>2. ArrivingRun(u, e)
      BY <1>5, <1>21, <3>1 DEF ArrivingInv
    <3> QED BY <1>13, <3>1, <3>2
  <2> QED BY <2>1, <2>2
<1> QED BY <1>10, <1>14, <1>15, <1>16, <1>19, <1>21 DEF ArrivingInv

LEMMA ArrivingCommitKeeps == ASSUME ArrivingInv, NEW o \in Runners, Arriving!Commit(o) PROVE ArrivingInv'
<1>1. /\ job[o] # NoOne /\ job[o].taken # NoOne /\ job[o].stored
      /\ cost' = [cost EXCEPT ![job[o].taken] = Arriving!InHand(o)[2]]
      /\ events' = events
  BY DEF Arriving!Commit
<1>2. PICK t \in Arriving!Batch : t = job[o] /\ ArrivingRun(t, events)
  BY <1>1, ArrivingAt
<1>3. PICK q \in Arriving!Partitions : q = t.taken /\ t.next[q] \in 1..Len(EventLog[q]) /\ Len(EventLog[q]) \in Nat
  BY <1>1, <1>2, ArrivingAt
<1>4. cost' = [cost EXCEPT ![q] = t.next[q]] /\ Arriving!InHand(o)[2] = t.next[q]
  <2>1. Arriving!InHand(o) = <<q, t.next[q]>>
    BY <1>1, <1>2, <1>3, ArrivingAt
  <2>2. Arriving!InHand(o)[2] = t.next[q]
    BY <2>1
  <2> QED BY <1>1, <1>2, <1>3, <2>2
<1>5. PICK n \in [Arriving!Partitions -> Nat] : n = cost' /\ n[q] = t.next[q] /\ \A p \in Arriving!Partitions : p # q => n[p] = cost[p]
  <2>1. t.next[q] \in Nat
    BY <1>3
  <2> QED BY <1>4, <2>1 DEF ArrivingInv, ArrivingTypes
<1>6. ArrivingCommitted(n, events)
  <2> SUFFICES ASSUME NEW p \in Arriving!Partitions
               PROVE  n[p] \in 0..Len(EventLog[p]) /\ \A i \in 1..Len(EventLog[p]) : i <= n[p] => events[<<p, i>>] # NoOne
    BY DEF ArrivingCommitted
  <2>1. CASE p # q
    BY <1>5, <2>1 DEF ArrivingInv, ArrivingCommitted
  <2>2. CASE p = q
    <3>1. ASSUME NEW i \in 1..Len(EventLog[q]), i <= t.next[q] PROVE events[<<q, i>>] # NoOne
      <4>1. i < t.next[q] \/ i = t.next[q]
        BY <1>3, <3>1
      <4> QED BY <1>1, <1>2, <4>1 DEF ArrivingRun
    <3> QED BY <1>3, <1>5, <2>2, <3>1
  <2> QED BY <2>1, <2>2
<1>7. ArrivingCommitted(cost', events) /\ cost' \in [Arriving!Partitions -> Nat]
  BY <1>5, <1>6
<1>8. CASE /\ job[o].count + 1 < BatchLimit /\ claim' = claim
           /\ job' = [job EXCEPT ![o].taken = NoOne, ![o].stored = FALSE, ![o].count = @ + 1]
  <2>1. PICK m \in 0..BatchLimit : m = t.count + 1
    <3>1. PICK l \in Nat : l = t.count
      BY ArrivingAssumption DEF Arriving!Batch
    <3>2. l + 1 < BatchLimit
      BY <1>2, <1>8, <3>1
    <3>3. l + 1 \in 0..BatchLimit
      BY <3>2, ArrivingAssumption
    <3> QED BY <3>1, <3>3
  <2> DEFINE y == [t EXCEPT !.taken = NoOne, !.stored = FALSE, !.count = m]
  <2>2. y \in Arriving!Batch /\ y.next = t.next /\ y.taken = NoOne /\ ~y.stored
    BY DEF Arriving!Batch
  <2>3. job' = [job EXCEPT ![o] = y]
    BY <1>2, <1>8, <2>1 DEF ArrivingInv, ArrivingTypes, Arriving!Batch
  <2> HIDE DEF y
  <2>4. job'[o] = y /\ (\A p \in Runners : p # o => job'[p] = job[p]) /\ job' \in [Runners -> Arriving!Batch \cup {NoOne}]
    BY <2>2, <2>3 DEF ArrivingInv, ArrivingTypes
  <2>5. ArrivingTypes'
    BY <1>1, <1>7, <1>8, <2>4 DEF ArrivingInv, ArrivingTypes
  <2>6. ArrivingRun(y, events)
    <3>1. ASSUME NEW p \in Arriving!Partitions, NEW i \in 1..Len(EventLog[p]), i < t.next[p] \/ i = t.next[p]
          PROVE  events[<<p, i>>] # NoOne
      BY <1>1, <1>2, <3>1 DEF ArrivingRun
    <3> QED BY <1>2, <2>2, <3>1 DEF ArrivingRun
  <2> QED BY <1>1, <1>7, <2>4, <2>5, <2>6, ArrivingStepAside
<1>9. CASE /\ job' = [job EXCEPT ![o] = NoOne]
           /\ claim' = [p \in Arriving!Partitions |-> IF claim[p] = o THEN NoOne ELSE claim[p]]
  <2>1. job'[o] = NoOne /\ (\A p \in Runners : p # o => job'[p] = job[p]) /\ job' \in [Runners -> Arriving!Batch \cup {NoOne}]
    BY <1>9 DEF ArrivingInv, ArrivingTypes
  <2>2. claim' \in [Arriving!Partitions -> Runners \cup {NoOne}]
    BY <1>9 DEF ArrivingInv, ArrivingTypes
  <2>3. ArrivingTypes'
    BY <1>1, <1>7, <2>1, <2>2 DEF ArrivingInv, ArrivingTypes
  <2> QED BY <1>1, <1>7, <2>1, <2>3, ArrivingStepAside
<1> QED BY <1>8, <1>9 DEF Arriving!Commit

LEMMA ArrivingCloseKeeps == ASSUME ArrivingInv, NEW o \in Runners, Arriving!Close(o) PROVE ArrivingInv'
<1>1. /\ job' = [job EXCEPT ![o] = NoOne] /\ UNCHANGED <<cost, events>>
      /\ claim' = [p \in Arriving!Partitions |-> IF claim[p] = o THEN NoOne ELSE claim[p]]
  BY DEF Arriving!Close
<1>2. job'[o] = NoOne /\ (\A p \in Runners : p # o => job'[p] = job[p]) /\ ArrivingTypes'
  BY <1>1 DEF ArrivingInv, ArrivingTypes
<1>3. ArrivingCommitted(cost', events)
  BY <1>1 DEF ArrivingInv
<1> QED BY <1>1, <1>2, <1>3, ArrivingStepAside

LEMMA ArrivingStep == ArrivingInv /\ [Arriving!Next]_(Arriving!vars) => ArrivingInv'
<1> SUFFICES ASSUME ArrivingInv, [Arriving!Next]_(Arriving!vars) PROVE ArrivingInv'
  OBVIOUS
<1>1. ASSUME NEW o \in Runners, Arriving!Open(o) PROVE ArrivingInv'
  BY <1>1, ArrivingOpenKeeps
<1>2. ASSUME NEW o \in Runners, NEW q \in Arriving!Partitions, Arriving!Assign(q, o) PROVE ArrivingInv'
  BY <1>2, ArrivingAssignKeeps
<1>3. ASSUME NEW o \in Runners, NEW q \in Arriving!Partitions, Arriving!Take(o, q) PROVE ArrivingInv'
  BY <1>3, ArrivingTakeKeeps
<1>4. ASSUME NEW o \in Runners, Arriving!Ingest(o) PROVE ArrivingInv'
  BY <1>4, ArrivingIngestKeeps
<1>5. ASSUME NEW o \in Runners, Arriving!Commit(o) PROVE ArrivingInv'
  BY <1>5, ArrivingCommitKeeps
<1>6. ASSUME NEW o \in Runners, Arriving!Close(o) PROVE ArrivingInv'
  BY <1>6, ArrivingCloseKeeps
<1>7. CASE UNCHANGED Arriving!vars
  BY <1>7 DEF ArrivingInv, ArrivingTypes, ArrivingCommitted, ArrivingRow, ArrivingOnce, ArrivingRun, Arriving!vars
<1> QED BY <1>1, <1>2, <1>3, <1>4, <1>5, <1>6, <1>7 DEF Arriving!Next

LEMMA ArrivingHolds == ArrivingInv => Arriving!TypeOK /\ Arriving!OutcomesAreTrue
<1> SUFFICES ASSUME ArrivingInv PROVE Arriving!TypeOK /\ Arriving!OutcomesAreTrue
  OBVIOUS
<1>1. Arriving!TypeOK
  BY DEF ArrivingInv, ArrivingTypes, ArrivingCommitted, Arriving!TypeOK
<1>2. ASSUME NEW x \in Arriving!Positions, x[2] <= cost[x[1]] PROVE events[x] # NoOne
  <2>1. PICK q \in Arriving!Partitions : \E i \in 1..Len(EventLog[q]) : x = <<q, i>>
    BY ArrivingPlaces
  <2>2. PICK i \in 1..Len(EventLog[q]) : x = <<q, i>>
    BY <2>1
  <2> QED BY <1>2, <2>2 DEF ArrivingInv, ArrivingCommitted
<1>3. ASSUME NEW x \in Arriving!Positions, events[x] # NoOne
      PROVE  \E y \in Arriving!Positions :
                 /\ events[y] = "ACCEPTED" /\ Arriving!Record(y)[1] = Arriving!Record(x)[1]
                 /\ (events[x] = "CONFLICT") <=> Arriving!Record(x)[2] # Arriving!Record(y)[2]
  BY <1>3 DEF ArrivingInv, ArrivingRow
<1>4. ArrivingOnce(events)
  BY DEF ArrivingInv
<1>5. Arriving!OutcomesAreTrue
  BY <1>2, <1>3, <1>4 DEF Arriving!OutcomesAreTrue, ArrivingOnce
<1> QED BY <1>1, <1>5

-----------------------------------------------------------------------------
(* The harness of the dashboard.                                           *)

(* A checkpoint: the graph reasons and executes only while iterations are  *)
(* left, and executes only a tool of the live stage or, from before the    *)
(* upgrade, the write.                                                     *)
HarnessedPoint(at) ==
    /\ at.next \in {"reason", "execute"} => at.iteration < IterationLimit
    /\ at.next = "execute" => at.tool \in HarnessReads \cup {HarnessWrite}

(* A request: beyond the interrupt the thread is too, a decision comes with*)
(* every approval, and what is saved without an error went to the end.     *)
HarnessedRun(t, th) ==
    /\ HarnessedPoint(t.at)
    /\ t.at.next # "interrupt" => th.next # "interrupt"
    /\ t.kind # "START" => t.decision \in Harnessed!Decisions
    /\ t.kind = "CHECK" => t.failed
    /\ (t.kind = "SAVE" /\ ~t.failed) => t.at.next = "end"

(* Approvals meet only a session a person was asked about.                 *)
HarnessedAsked(x) == x # NoOne /\ x # Harnessed!Completed

HarnessedInv ==
    /\ Harnessed!TypeOK
    /\ status # NoOne => run # NoOne
    /\ run # NoOne => HarnessedPoint(run)
    /\ \A r \in Runners : job[r] # NoOne => run # NoOne /\ HarnessedRun(job[r], run)
    /\ \A r \in Runners : (job[r] # NoOne /\ job[r].kind # "START") => HarnessedAsked(status)
    /\ Harnessed!OutcomesAreTrue

LEMMA HarnessedInit == Harnessed!Init => HarnessedInv
<1> SUFFICES ASSUME Harnessed!Init PROVE HarnessedInv
  OBVIOUS
<1>1. attempts = 0 /\ job = [r \in Runners |-> NoOne] /\ sent = NoOne /\ closed = FALSE
  BY DEF Harnessed!Init
<1>2. \/ run = NoOne /\ status = NoOne
      \/ /\ run \in Harnessed!Checkpoints /\ run # NoOne /\ HarnessedPoint(run)
         /\ status \in Harnessed!Sessions /\ status.status = "pending_human"
  <2>1. PICK e \in Harnessed!Old \cup {Harnessed!New} : run = e.thread /\ status = e.session
    BY DEF Harnessed!Init
  <2>2. CASE e = Harnessed!New
    BY <2>1, <2>2 DEF Harnessed!New
  <2>3. CASE e \in Harnessed!Old
    <3>1. PICK n \in {"interrupt", "execute"} :
              e = [thread |-> [next |-> n, tool |-> HarnessWrite, iteration |-> 0],
                   session |-> [status |-> "pending_human", decision |-> NoOne]]
      BY <2>3 DEF Harnessed!Old, Harnessed!At
    <3>2. 0 \in 0..IterationLimit /\ 0 < IterationLimit
      BY HarnessedAssumption
    <3>3. run = [next |-> n, tool |-> HarnessWrite, iteration |-> 0] /\ run \in Harnessed!Checkpoints
      BY <2>1, <3>1, <3>2 DEF Harnessed!Checkpoints, Harnessed!Nodes, Harnessed!Tools
    <3>4. run # NoOne
      BY <3>3, HarnessedAssumption
    <3>5. HarnessedPoint(run)
      BY <3>2, <3>3 DEF HarnessedPoint
    <3>6. status = [status |-> "pending_human", decision |-> NoOne] /\ status \in Harnessed!Sessions
      BY <2>1, <3>1 DEF Harnessed!Sessions
    <3> QED BY <3>3, <3>4, <3>5, <3>6
  <2> QED BY <2>1, <2>2, <2>3
<1>3. Harnessed!TypeOK
  <2>1. attempts \in 0..RequestLimit
    BY <1>1, HarnessedAssumption
  <2>2. run \in Harnessed!Checkpoints \cup {NoOne} /\ status \in Harnessed!Sessions \cup {NoOne}
    BY <1>2
  <2> QED BY <1>1, <2>1, <2>2 DEF Harnessed!TypeOK
<1>4. Harnessed!OutcomesAreTrue
  BY <1>1, <1>2 DEF Harnessed!OutcomesAreTrue
<1>5. status # NoOne => run # NoOne
  BY <1>2, HarnessedAssumption
<1>6. run # NoOne => HarnessedPoint(run)
  BY <1>2
<1> QED BY <1>1, <1>3, <1>4, <1>5, <1>6 DEF HarnessedInv

(* A step of one request that saves no session.                            *)
LEMMA HarnessedStepBy ==
    ASSUME HarnessedInv, Harnessed!TypeOK', NEW r \in Runners,
           \A q \in Runners : q # r => job'[q] = job[q],
           run' = run \/ (run' # NoOne /\ HarnessedPoint(run') /\ run'.next # "interrupt"),
           job'[r] # NoOne => run' # NoOne /\ HarnessedRun(job'[r], run'),
           (job'[r] # NoOne /\ job'[r].kind # "START") => HarnessedAsked(status),
           sent' = sent \/ (sent'.tool \in HarnessReads /\ sent'.routes.decisionSupport),
           status' = status, closed' = closed
    PROVE  HarnessedInv'
<1>1. ASSUME NEW q \in Runners, job'[q] # NoOne PROVE run' # NoOne /\ HarnessedRun(job'[q], run')
  <2>1. CASE q = r
    BY <1>1, <2>1
  <2>2. CASE q # r
    <3>1. run # NoOne /\ HarnessedRun(job[q], run) /\ job'[q] = job[q]
      BY <1>1, <2>2 DEF HarnessedInv
    <3> QED BY <3>1 DEF HarnessedRun
  <2> QED BY <2>1, <2>2
<1>2. ASSUME NEW q \in Runners, job'[q] # NoOne, job'[q].kind # "START" PROVE HarnessedAsked(status)
  BY <1>2 DEF HarnessedInv
<1>3. Harnessed!OutcomesAreTrue'
  <2>1. sent' # NoOne => sent'.tool \in HarnessReads /\ sent'.routes.decisionSupport
    BY DEF HarnessedInv, Harnessed!OutcomesAreTrue
  <2>2. status # NoOne =>
            /\ status.status = "completed" => status.decision # "rejected"
            /\ status.status = "rejected" => status.decision = "rejected"
            /\ run'.next = "interrupt" => status.status \in {"pending_human", "error"}
    BY DEF HarnessedInv, Harnessed!OutcomesAreTrue
  <2>3. closed => status = Harnessed!Completed
    BY DEF HarnessedInv, Harnessed!OutcomesAreTrue
  <2> QED BY <2>1, <2>2, <2>3 DEF Harnessed!OutcomesAreTrue
<1>4. status' # NoOne => run' # NoOne
  BY DEF HarnessedInv
<1>5. run' # NoOne => HarnessedPoint(run')
  BY DEF HarnessedInv
<1>6. \A q \in Runners : (job'[q] # NoOne /\ job'[q].kind # "START") => HarnessedAsked(status')
  BY <1>2
<1> QED BY <1>1, <1>3, <1>4, <1>5, <1>6 DEF HarnessedInv

LEMMA HarnessedStartKeeps ==
    ASSUME HarnessedInv, NEW r \in Runners, NEW x \in HarnessRoutes, Harnessed!Start(r, x) PROVE HarnessedInv'
<1> DEFINE at == [next |-> "reason", tool |-> NoOne, iteration |-> 0]
           t == [kind |-> "START", routes |-> x, at |-> at, decision |-> NoOne, failed |-> FALSE,
                 last |-> NoOne, repeated |-> 0]
<1>1. 0 \in 0..IterationLimit /\ 0 < IterationLimit /\ 0 \in 0..RepeatLimit
  BY HarnessedAssumption
<1>2. at \in Harnessed!Checkpoints /\ at.next = "reason" /\ at.iteration = 0
  BY <1>1 DEF Harnessed!Checkpoints, Harnessed!Nodes
<1>3. /\ attempts < RequestLimit /\ attempts' = attempts + 1 /\ job' = [job EXCEPT ![r] = t]
      /\ run' = at /\ UNCHANGED <<status, sent, closed>>
  BY DEF Harnessed!Start, Harnessed!Begin, Harnessed!At
<1>4. HarnessedPoint(at) /\ at # NoOne
  BY <1>1, <1>2, HarnessedAssumption DEF HarnessedPoint
<1> HIDE DEF at
<1>5. t \in Harnessed!JobRecords /\ t.kind = "START" /\ t.at = at
  BY <1>1, <1>2 DEF Harnessed!JobRecords
<1> HIDE DEF t
<1>6. job'[r] = t /\ (\A q \in Runners : q # r => job'[q] = job[q]) /\ job' \in [Runners -> Harnessed!JobRecords \cup {NoOne}]
  BY <1>3, <1>5 DEF HarnessedInv, Harnessed!TypeOK
<1>7. attempts' \in 0..RequestLimit
  BY <1>3, HarnessedAssumption DEF HarnessedInv, Harnessed!TypeOK
<1>8. Harnessed!TypeOK'
  BY <1>2, <1>3, <1>6, <1>7 DEF HarnessedInv, Harnessed!TypeOK
<1>9. HarnessedRun(t, at)
  BY <1>4, <1>5 DEF HarnessedRun
<1>10. run' # NoOne /\ HarnessedPoint(run') /\ run'.next # "interrupt" /\ HarnessedRun(job'[r], run')
       /\ job'[r].kind = "START"
  BY <1>2, <1>3, <1>4, <1>5, <1>6, <1>9
<1> QED BY <1>3, <1>6, <1>8, <1>10, HarnessedStepBy

LEMMA HarnessedApproveKeeps ==
    ASSUME HarnessedInv, NEW r \in Runners, NEW x \in HarnessRoutes, NEW g \in Harnessed!Decisions,
           Harnessed!Approve(r, x, g)
    PROVE  HarnessedInv'
<1> DEFINE t == [kind |-> "RESUME", routes |-> x, at |-> run, decision |-> g, failed |-> FALSE,
                 last |-> NoOne, repeated |-> 0]
<1>1. /\ attempts < RequestLimit /\ attempts' = attempts + 1 /\ job' = [job EXCEPT ![r] = t]
      /\ status # NoOne /\ status.status # "completed" /\ UNCHANGED <<run, status, sent, closed>>
  BY DEF Harnessed!Approve, Harnessed!Begin
<1>2. run # NoOne /\ run \in Harnessed!Checkpoints /\ HarnessedPoint(run)
  BY <1>1 DEF HarnessedInv, Harnessed!TypeOK
<1>3. 0 \in 0..RepeatLimit
  BY HarnessedAssumption
<1>4. t \in Harnessed!JobRecords /\ t.kind = "RESUME" /\ t.at = run /\ t.decision = g
  BY <1>2, <1>3 DEF Harnessed!JobRecords
<1> HIDE DEF t
<1>5. job'[r] = t /\ (\A q \in Runners : q # r => job'[q] = job[q]) /\ job' \in [Runners -> Harnessed!JobRecords \cup {NoOne}]
  BY <1>1, <1>4 DEF HarnessedInv, Harnessed!TypeOK
<1>6. attempts' \in 0..RequestLimit
  BY <1>1, HarnessedAssumption DEF HarnessedInv, Harnessed!TypeOK
<1>7. Harnessed!TypeOK'
  BY <1>1, <1>5, <1>6 DEF HarnessedInv, Harnessed!TypeOK
<1>8. HarnessedRun(t, run)
  BY <1>2, <1>4 DEF HarnessedRun
<1>9. HarnessedAsked(status)
  <2>1. Harnessed!Completed.status = "completed"
    BY DEF Harnessed!Completed
  <2> QED BY <1>1, <2>1 DEF HarnessedAsked
<1>10. run' # NoOne /\ HarnessedRun(job'[r], run')
  BY <1>1, <1>2, <1>5, <1>8
<1> QED BY <1>1, <1>5, <1>7, <1>9, <1>10, HarnessedStepBy

(* A request of a run that does something, and what it may become.         *)
LEMMA HarnessedAt ==
    ASSUME HarnessedInv, NEW r \in Runners, job[r] # NoOne
    PROVE  /\ job[r] \in Harnessed!JobRecords /\ job[r].at \in Harnessed!Checkpoints
           /\ run # NoOne /\ HarnessedRun(job[r], run) /\ HarnessedPoint(job[r].at)
           /\ job[r].kind # "START" => HarnessedAsked(status)
BY DEF HarnessedInv, Harnessed!TypeOK, HarnessedRun, Harnessed!JobRecords

(* A node is done.                                                         *)
LEMMA HarnessedAdvances ==
    ASSUME HarnessedInv, NEW r \in Runners, job[r] # NoOne, job[r].kind \in Harnessed!InGraph,
           NEW at \in Harnessed!Checkpoints, HarnessedPoint(at), at.next # "interrupt",
           Harnessed!Advance(r, at), attempts' = attempts, status' = status, closed' = closed,
           sent' \in [tool : Harnessed!Tools, routes : HarnessRoutes] \cup {NoOne},
           sent' = sent \/ (sent'.tool \in HarnessReads /\ sent'.routes.decisionSupport)
    PROVE  HarnessedInv'
<1>1. PICK t \in Harnessed!JobRecords : t = job[r] /\ HarnessedRun(t, run) /\ t.kind \in {"START", "RESUME"}
          /\ (t.kind # "START" => HarnessedAsked(status))
  BY HarnessedAt DEF Harnessed!InGraph
<1> DEFINE y == [t EXCEPT !.at = at]
<1>2. job' = [job EXCEPT ![r] = y] /\ run' = at
  BY <1>1 DEF Harnessed!Advance, HarnessedInv, Harnessed!TypeOK, Harnessed!JobRecords
<1>3. y \in Harnessed!JobRecords /\ y.at = at /\ y.kind = t.kind /\ y.decision = t.decision /\ y.failed = t.failed
  BY DEF Harnessed!JobRecords
<1> HIDE DEF y
<1>4. job'[r] = y /\ (\A q \in Runners : q # r => job'[q] = job[q]) /\ job' \in [Runners -> Harnessed!JobRecords \cup {NoOne}]
  BY <1>2, <1>3 DEF HarnessedInv, Harnessed!TypeOK
<1>5. Harnessed!TypeOK'
  BY <1>2, <1>4 DEF HarnessedInv, Harnessed!TypeOK
<1>6. HarnessedRun(y, at)
  BY <1>1, <1>3 DEF HarnessedRun
<1>7. at # NoOne
  BY HarnessedAssumption
<1>8. run' # NoOne /\ HarnessedPoint(run') /\ run'.next # "interrupt" /\ HarnessedRun(job'[r], run')
  BY <1>2, <1>4, <1>6, <1>7
<1>9. (job'[r] # NoOne /\ job'[r].kind # "START") => HarnessedAsked(status)
  BY <1>1, <1>3, <1>4
<1> QED BY <1>4, <1>5, <1>8, <1>9, HarnessedStepBy

LEMMA HarnessedAudits ==
    ASSUME HarnessedInv, NEW r \in Runners, job[r] # NoOne
    PROVE  Harnessed!Audited(r) \in Harnessed!Checkpoints /\ HarnessedPoint(Harnessed!Audited(r))
           /\ Harnessed!Audited(r).next # "interrupt"
<1>1. PICK k \in Harnessed!Checkpoints : k = job[r].at
  BY HarnessedAt
<1> DEFINE y == [k EXCEPT !.next = "audit", !.tool = NoOne]
<1>2. y \in Harnessed!Checkpoints /\ y.next = "audit"
  BY DEF Harnessed!Checkpoints, Harnessed!Nodes
<1>3. Harnessed!Audited(r) = y
  BY <1>1 DEF Harnessed!Audited
<1> HIDE DEF y
<1> QED BY <1>2, <1>3 DEF HarnessedPoint

LEMMA HarnessedAudited ==
    ASSUME HarnessedInv, NEW r \in Runners, job[r] # NoOne, job[r].kind \in Harnessed!InGraph,
           Harnessed!Advance(r, Harnessed!Audited(r)), UNCHANGED <<attempts, status, closed, sent>>
    PROVE  HarnessedInv'
<1>1. PICK at \in Harnessed!Checkpoints : at = Harnessed!Audited(r) /\ HarnessedPoint(at) /\ at.next # "interrupt"
  BY HarnessedAudits
<1>2. sent' \in [tool : Harnessed!Tools, routes : HarnessRoutes] \cup {NoOne}
  BY DEF HarnessedInv, Harnessed!TypeOK
<1> QED BY <1>1, <1>2, HarnessedAdvances

(* Something raised.                                                       *)
LEMMA HarnessedFails ==
    ASSUME HarnessedInv, NEW r \in Runners, job[r] # NoOne, Harnessed!Failed(r),
           UNCHANGED <<attempts, run, status, closed>>,
           sent' \in [tool : Harnessed!Tools, routes : HarnessRoutes] \cup {NoOne},
           sent' = sent \/ (sent'.tool \in HarnessReads /\ sent'.routes.decisionSupport)
    PROVE  HarnessedInv'
<1>1. PICK t \in Harnessed!JobRecords : t = job[r] /\ HarnessedRun(t, run) /\ run # NoOne
          /\ (t.kind # "START" => HarnessedAsked(status))
  BY HarnessedAt
<1> DEFINE y == [t EXCEPT !.kind = "CHECK", !.failed = TRUE]
<1>2. y \in Harnessed!JobRecords /\ y.at = t.at /\ y.kind = "CHECK" /\ y.failed /\ y.decision = t.decision
  BY DEF Harnessed!JobRecords
<1>3. job' = [job EXCEPT ![r] = IF t.kind = "START" THEN NoOne ELSE y]
  BY <1>1 DEF Harnessed!Failed, HarnessedInv, Harnessed!TypeOK, Harnessed!JobRecords
<1> HIDE DEF y
<1>4. /\ job'[r] = IF t.kind = "START" THEN NoOne ELSE y
      /\ \A q \in Runners : q # r => job'[q] = job[q]
      /\ job' \in [Runners -> Harnessed!JobRecords \cup {NoOne}]
  BY <1>2, <1>3 DEF HarnessedInv, Harnessed!TypeOK
<1>5. Harnessed!TypeOK'
  BY <1>4 DEF HarnessedInv, Harnessed!TypeOK
<1>6. t.kind # "START" => HarnessedRun(y, run)
  BY <1>1, <1>2 DEF HarnessedRun
<1>7. job'[r] # NoOne => run' # NoOne /\ HarnessedRun(job'[r], run') /\ HarnessedAsked(status)
  BY <1>1, <1>4, <1>6
<1> QED BY <1>4, <1>5, <1>7, HarnessedStepBy

LEMMA HarnessedConcludeKeeps ==
    ASSUME HarnessedInv, NEW r \in Runners, Harnessed!Conclude(r) \/ Harnessed!Refuse(r) PROVE HarnessedInv'
BY HarnessedAudited DEF Harnessed!Conclude, Harnessed!Refuse, Harnessed!Node

LEMMA HarnessedProposeKeeps ==
    ASSUME HarnessedInv, NEW r \in Runners, NEW x \in Harnessed!Tools, Harnessed!Propose(r, x) PROVE HarnessedInv'
<1>1. /\ job[r] # NoOne /\ job[r].kind \in Harnessed!InGraph /\ job[r].at.next = "reason"
      /\ UNCHANGED <<attempts, status, closed, sent>>
  BY DEF Harnessed!Propose, Harnessed!Node
<1>2. PICK t \in Harnessed!JobRecords : t = job[r] /\ HarnessedRun(t, run)
          /\ (t.kind # "START" => HarnessedAsked(status))
  BY <1>1, HarnessedAt
<1> DEFINE calls == IF t.last = x THEN t.repeated ELSE 0
           at == [t.at EXCEPT !.next = "execute", !.tool = x]
           y == [t EXCEPT !.at = at, !.last = x, !.repeated = calls + 1]
<1>3. CASE x \in {HarnessWrite, HarnessForeign} \/ calls >= RepeatLimit
  <2>1. Harnessed!Advance(r, Harnessed!Audited(r))
    BY <1>2, <1>3 DEF Harnessed!Propose
  <2> QED BY <1>1, <2>1, HarnessedAudited
<1>4. CASE ~(x \in {HarnessWrite, HarnessForeign} \/ calls >= RepeatLimit)
  <2>1. run' = at /\ job' = [job EXCEPT ![r].at = at, ![r].last = x, ![r].repeated = calls + 1]
    BY <1>2, <1>4 DEF Harnessed!Propose
  <2>2. job' = [job EXCEPT ![r] = y]
    BY <1>2, <2>1 DEF HarnessedInv, Harnessed!TypeOK, Harnessed!JobRecords
  <2>3. calls \in 0..RepeatLimit /\ calls < RepeatLimit
    BY <1>4, HarnessedAssumption DEF Harnessed!JobRecords
  <2>4. calls + 1 \in 0..RepeatLimit
    BY <2>3, HarnessedAssumption
  <2>5. at \in Harnessed!Checkpoints /\ at.next = "execute" /\ at.tool = x /\ at.iteration = t.at.iteration
    BY DEF Harnessed!JobRecords, Harnessed!Checkpoints, Harnessed!Nodes
  <2>6. t.at.iteration < IterationLimit
    BY <1>1, <1>2 DEF HarnessedRun, HarnessedPoint
  <2>7. x \in HarnessReads
    BY <1>4 DEF Harnessed!Tools
  <2> HIDE DEF at, calls
  <2>8. HarnessedPoint(at) /\ at # NoOne
    BY <2>5, <2>6, <2>7, HarnessedAssumption DEF HarnessedPoint
  <2>9. y \in Harnessed!JobRecords /\ y.at = at /\ y.kind = t.kind /\ y.decision = t.decision /\ y.failed = t.failed
    BY <2>4, <2>5 DEF Harnessed!JobRecords
  <2> HIDE DEF y
  <2>10. job'[r] = y /\ (\A q \in Runners : q # r => job'[q] = job[q]) /\ job' \in [Runners -> Harnessed!JobRecords \cup {NoOne}]
    BY <2>2, <2>9 DEF HarnessedInv, Harnessed!TypeOK
  <2>11. Harnessed!TypeOK'
    BY <1>1, <2>1, <2>5, <2>10 DEF HarnessedInv, Harnessed!TypeOK
  <2>12. t.kind = "START" \/ t.kind = "RESUME"
    BY <1>1, <1>2 DEF Harnessed!InGraph
  <2>13. HarnessedRun(y, at)
    BY <1>2, <2>5, <2>8, <2>9, <2>12 DEF HarnessedRun
  <2>14. run' # NoOne /\ HarnessedPoint(run') /\ run'.next # "interrupt" /\ HarnessedRun(job'[r], run')
    BY <2>1, <2>5, <2>8, <2>10, <2>13
  <2>15. (job'[r] # NoOne /\ job'[r].kind # "START") => HarnessedAsked(status)
    BY <1>2, <2>9, <2>10
  <2> QED BY <1>1, <2>10, <2>11, <2>14, <2>15, HarnessedStepBy
<1> QED BY <1>3, <1>4

LEMMA HarnessedInterruptKeeps ==
    ASSUME HarnessedInv, NEW r \in Runners, NEW x \in BOOLEAN, Harnessed!Interrupt(r, x) PROVE HarnessedInv'
<1>1. /\ job[r] # NoOne /\ job[r].kind \in Harnessed!InGraph
      /\ UNCHANGED <<attempts, status, closed, sent>>
  BY DEF Harnessed!Interrupt, Harnessed!Node, Harnessed!InGraph
<1>2. \/ Harnessed!Advance(r, Harnessed!Audited(r))
      \/ Harnessed!Failed(r) /\ UNCHANGED run
  BY DEF Harnessed!Interrupt
<1>3. sent' \in [tool : Harnessed!Tools, routes : HarnessRoutes] \cup {NoOne}
  BY <1>1 DEF HarnessedInv, Harnessed!TypeOK
<1> QED BY <1>1, <1>2, <1>3, HarnessedAudited, HarnessedFails

LEMMA HarnessedExecuteKeeps ==
    ASSUME HarnessedInv, NEW r \in Runners, NEW x \in BOOLEAN, Harnessed!Execute(r, x) PROVE HarnessedInv'
<1>1. /\ job[r] # NoOne /\ job[r].kind \in Harnessed!InGraph /\ job[r].at.next = "execute"
      /\ job[r].routes.decisionSupport /\ job[r].at.tool # HarnessWrite
      /\ sent' = [tool |-> job[r].at.tool, routes |-> job[r].routes]
      /\ UNCHANGED <<attempts, status, closed>>
  BY DEF Harnessed!Execute, Harnessed!Node
<1>2. PICK t \in Harnessed!JobRecords : t = job[r] /\ HarnessedPoint(t.at)
  BY <1>1, HarnessedAt
<1>3. t.at.tool \in HarnessReads /\ t.at.iteration < IterationLimit
  BY <1>1, <1>2 DEF HarnessedPoint
<1>4. /\ sent' = [tool |-> t.at.tool, routes |-> t.routes]
      /\ sent'.tool \in HarnessReads /\ sent'.routes.decisionSupport
  BY <1>1, <1>2, <1>3
<1>5. sent' \in [tool : Harnessed!Tools, routes : HarnessRoutes] \cup {NoOne}
  BY <1>3, <1>4 DEF Harnessed!Tools, Harnessed!JobRecords
<1>6. CASE x
  <2>1. Harnessed!Failed(r) /\ UNCHANGED run
    BY <1>6 DEF Harnessed!Execute
  <2> QED BY <1>1, <1>4, <1>5, <2>1, HarnessedFails
<1>7. CASE ~x
  <2>1. PICK k \in Nat : k = t.at.iteration /\ k < IterationLimit
    BY <1>2, <1>3, HarnessedAssumption DEF Harnessed!JobRecords, Harnessed!Checkpoints
  <2> DEFINE at == [tool |-> NoOne, iteration |-> k + 1,
                    next |-> IF k + 1 >= IterationLimit THEN "audit" ELSE "reason"]
  <2>2. Harnessed!Advance(r, at)
    BY <1>2, <1>7, <2>1 DEF Harnessed!Execute
  <2>3. k + 1 \in 0..IterationLimit
    BY <2>1, HarnessedAssumption
  <2>4. at \in Harnessed!Checkpoints /\ at.next # "interrupt"
    BY <2>3 DEF Harnessed!Checkpoints, Harnessed!Nodes
  <2>5. HarnessedPoint(at)
    BY <2>1, HarnessedAssumption DEF HarnessedPoint
  <2> HIDE DEF at
  <2> QED BY <1>1, <1>4, <1>5, <2>2, <2>4, <2>5, HarnessedAdvances
<1> QED BY <1>6, <1>7

LEMMA HarnessedAuditKeeps ==
    ASSUME HarnessedInv, NEW r \in Runners, Harnessed!Audit(r) PROVE HarnessedInv'
<1>1. /\ job[r] # NoOne /\ job[r].kind \in Harnessed!InGraph
      /\ Harnessed!Advance(r, [job[r].at EXCEPT !.next = "end"])
      /\ UNCHANGED <<attempts, status, closed, sent>>
  BY DEF Harnessed!Audit, Harnessed!Node
<1>2. PICK k \in Harnessed!Checkpoints : k = job[r].at
  BY <1>1, HarnessedAt
<1> DEFINE y == [k EXCEPT !.next = "end"]
<1>3. y \in Harnessed!Checkpoints /\ y.next = "end"
  BY DEF Harnessed!Checkpoints, Harnessed!Nodes
<1>4. Harnessed!Advance(r, y)
  BY <1>1, <1>2
<1> HIDE DEF y
<1>5. HarnessedPoint(y)
  BY <1>3 DEF HarnessedPoint
<1>6. sent' \in [tool : Harnessed!Tools, routes : HarnessRoutes] \cup {NoOne}
  BY <1>1 DEF HarnessedInv, Harnessed!TypeOK
<1> QED BY <1>1, <1>3, <1>4, <1>5, <1>6, HarnessedAdvances

LEMMA HarnessedRaiseKeeps ==
    ASSUME HarnessedInv, NEW r \in Runners, Harnessed!Raise(r) PROVE HarnessedInv'
<1>1. job[r] # NoOne /\ Harnessed!Failed(r) /\ UNCHANGED <<attempts, run, status, closed, sent>>
  BY DEF Harnessed!Raise
<1>2. sent' \in [tool : Harnessed!Tools, routes : HarnessRoutes] \cup {NoOne}
  BY <1>1 DEF HarnessedInv, Harnessed!TypeOK
<1> QED BY <1>1, <1>2, HarnessedFails

(* A request that is over.                                                 *)
LEMMA HarnessedOver ==
    ASSUME HarnessedInv, NEW r \in Runners, job' = [job EXCEPT ![r] = NoOne]
    PROVE  /\ job'[r] = NoOne
           /\ \A q \in Runners : q # r => job'[q] = job[q]
           /\ job' \in [Runners -> Harnessed!JobRecords \cup {NoOne}]
BY DEF HarnessedInv, Harnessed!TypeOK

LEMMA HarnessedCrashKeeps ==
    ASSUME HarnessedInv, NEW r \in Runners, Harnessed!Crash(r) PROVE HarnessedInv'
<1>1. job' = [job EXCEPT ![r] = NoOne] /\ UNCHANGED <<attempts, run, status, sent, closed>>
  BY DEF Harnessed!Crash
<1>2. /\ job'[r] = NoOne /\ (\A q \in Runners : q # r => job'[q] = job[q])
      /\ job' \in [Runners -> Harnessed!JobRecords \cup {NoOne}]
  BY <1>1, HarnessedOver
<1>3. Harnessed!TypeOK'
  BY <1>1, <1>2 DEF HarnessedInv, Harnessed!TypeOK
<1> QED BY <1>1, <1>2, <1>3, HarnessedStepBy

LEMMA HarnessedCheckKeeps ==
    ASSUME HarnessedInv, NEW r \in Runners, Harnessed!CheckFinal(r) PROVE HarnessedInv'
<1>1. /\ job[r] # NoOne
      /\ (job[r].kind = "RESUME" /\ job[r].at.next = "end") \/ job[r].kind = "CHECK"
      /\ job' = [job EXCEPT ![r] = IF status.status \in {"completed", "rejected"} THEN NoOne
                                   ELSE [@ EXCEPT !.kind = "SAVE"]]
      /\ UNCHANGED <<attempts, run, status, sent, closed>>
  BY DEF Harnessed!CheckFinal, Harnessed!Node
<1>2. PICK t \in Harnessed!JobRecords : t = job[r] /\ HarnessedRun(t, run) /\ run # NoOne
          /\ (t.kind # "START" => HarnessedAsked(status))
  BY <1>1, HarnessedAt
<1> DEFINE y == [t EXCEPT !.kind = "SAVE"]
<1>3. y \in Harnessed!JobRecords /\ y.kind = "SAVE" /\ y.at = t.at /\ y.failed = t.failed /\ y.decision = t.decision
  BY DEF Harnessed!JobRecords
<1>4. job' = [job EXCEPT ![r] = NoOne] \/ job' = [job EXCEPT ![r] = y]
  BY <1>1, <1>2 DEF HarnessedInv, Harnessed!TypeOK
<1> HIDE DEF y
<1>5. /\ job'[r] = NoOne \/ job'[r] = y
      /\ \A q \in Runners : q # r => job'[q] = job[q]
      /\ job' \in [Runners -> Harnessed!JobRecords \cup {NoOne}]
  BY <1>3, <1>4 DEF HarnessedInv, Harnessed!TypeOK
<1>6. Harnessed!TypeOK'
  BY <1>1, <1>5 DEF HarnessedInv, Harnessed!TypeOK
<1>7. HarnessedRun(y, run) /\ HarnessedAsked(status)
  BY <1>1, <1>2, <1>3 DEF HarnessedRun
<1>8. job'[r] # NoOne => run' # NoOne /\ HarnessedRun(job'[r], run')
  BY <1>1, <1>2, <1>5, <1>7
<1> QED BY <1>1, <1>5, <1>6, <1>7, <1>8, HarnessedStepBy

(* A step of one request that saves a session.                             *)
LEMMA HarnessedSaved ==
    ASSUME HarnessedInv, NEW r \in Runners, job' = [job EXCEPT ![r] = NoOne],
           NEW x \in Harnessed!Sessions, status' = x, x # NoOne,
           UNCHANGED <<attempts, run, sent>>, run # NoOne, closed' \in BOOLEAN,
           x.status = "completed" => x.decision # "rejected",
           x.status = "rejected" => x.decision = "rejected",
           run.next = "interrupt" => x.status \in {"pending_human", "error"},
           closed' => x = Harnessed!Completed,
           \A q \in Runners : (q # r /\ job[q] # NoOne /\ job[q].kind # "START") => x # Harnessed!Completed
    PROVE  HarnessedInv'
<1>1. /\ job'[r] = NoOne /\ (\A q \in Runners : q # r => job'[q] = job[q])
      /\ job' \in [Runners -> Harnessed!JobRecords \cup {NoOne}]
  BY HarnessedOver
<1>2. Harnessed!TypeOK'
  BY <1>1 DEF HarnessedInv, Harnessed!TypeOK
<1>3. ASSUME NEW q \in Runners, job'[q] # NoOne PROVE run' # NoOne /\ HarnessedRun(job'[q], run')
  <2>1. q # r /\ job'[q] = job[q]
    BY <1>1, <1>3
  <2>2. HarnessedRun(job[q], run)
    BY <1>3, <2>1 DEF HarnessedInv
  <2> QED BY <2>1, <2>2
<1>4. ASSUME NEW q \in Runners, job'[q] # NoOne, job'[q].kind # "START" PROVE HarnessedAsked(status')
  <2>1. q # r /\ job'[q] = job[q]
    BY <1>1, <1>4
  <2> QED BY <1>4, <2>1 DEF HarnessedAsked
<1>5. Harnessed!OutcomesAreTrue'
  BY DEF HarnessedInv, Harnessed!OutcomesAreTrue
<1>6. run' # NoOne => HarnessedPoint(run')
  BY DEF HarnessedInv
<1> QED BY <1>2, <1>3, <1>4, <1>5, <1>6 DEF HarnessedInv

LEMMA HarnessedTerminalKeeps ==
    ASSUME HarnessedInv, NEW r \in Runners, Harnessed!SaveTerminal(r) PROVE HarnessedInv'
<1>1. /\ job[r] # NoOne /\ job[r].at.next = "end"
      /\ status' = IF status = NoOne THEN Harnessed!Completed ELSE status
      /\ closed' = (closed \/ status' = Harnessed!Completed)
      /\ job' = [job EXCEPT ![r] = NoOne] /\ UNCHANGED <<attempts, run, sent>>
  BY DEF Harnessed!SaveTerminal, Harnessed!Node
<1>2. run # NoOne /\ run.next # "interrupt"
  BY <1>1, HarnessedAt DEF HarnessedRun
<1>3. closed' \in BOOLEAN
  BY <1>1
<1>4. Harnessed!Completed \in Harnessed!Sessions
  BY DEF Harnessed!Completed, Harnessed!Sessions
<1>5. Harnessed!Completed # NoOne /\ Harnessed!Completed.status = "completed" /\ Harnessed!Completed.decision = NoOne
  BY <1>4, HarnessedAssumption DEF Harnessed!Completed
<1>6. NoOne # "rejected"
  BY HarnessedAssumption DEF Harnessed!Decisions
<1>7. CASE status = NoOne
  <2>1. \A q \in Runners : ~(job[q] # NoOne /\ job[q].kind # "START")
    BY <1>7 DEF HarnessedInv, HarnessedAsked
  <2>2. status' = Harnessed!Completed
    BY <1>1, <1>7
  <2>3. PICK x \in Harnessed!Sessions : x = Harnessed!Completed
    BY <1>4
  <2>4. Harnessed!Completed.decision # "rejected" /\ Harnessed!Completed.status # "rejected"
    BY <1>5, <1>6
  <2> QED BY <1>1, <1>2, <1>3, <1>5, <2>1, <2>2, <2>3, <2>4, HarnessedSaved
<1>8. CASE status # NoOne
  <2>1. status' = status /\ status \in Harnessed!Sessions
    BY <1>1, <1>8 DEF HarnessedInv, Harnessed!TypeOK
  <2>2. /\ status.status = "completed" => status.decision # "rejected"
        /\ status.status = "rejected" => status.decision = "rejected"
        /\ closed => status = Harnessed!Completed
    BY <1>8 DEF HarnessedInv, Harnessed!OutcomesAreTrue
  <2>3. closed' => status = Harnessed!Completed
    BY <1>1, <2>1, <2>2
  <2>4. \A q \in Runners : (q # r /\ job[q] # NoOne /\ job[q].kind # "START") => status # Harnessed!Completed
    BY DEF HarnessedInv, HarnessedAsked
  <2>5. PICK x \in Harnessed!Sessions : x = status
    BY <2>1
  <2> QED BY <1>1, <1>2, <1>3, <1>8, <2>1, <2>2, <2>3, <2>4, <2>5, HarnessedSaved
<1> QED BY <1>7, <1>8

LEMMA HarnessedFinalKeeps ==
    ASSUME HarnessedInv, NEW r \in Runners, Harnessed!SaveFinal(r) PROVE HarnessedInv'
<1>1. job[r] # NoOne /\ job[r].kind = "SAVE"
      /\ job' = [job EXCEPT ![r] = NoOne] /\ UNCHANGED <<attempts, run, sent, closed>>
  BY DEF Harnessed!SaveFinal, Harnessed!Node
<1>2. PICK t \in Harnessed!JobRecords : t = job[r] /\ HarnessedRun(t, run) /\ run # NoOne
          /\ HarnessedAsked(status)
  BY <1>1, HarnessedAt
<1>3. /\ t.decision \in Harnessed!Decisions /\ t.decision # NoOne
      /\ ~t.failed => run.next # "interrupt"
  BY <1>1, <1>2, HarnessedAssumption DEF HarnessedRun
<1> DEFINE s == CASE t.failed -> "error"
                  [] ~t.failed /\ t.decision = "approved" -> "completed"
                  [] OTHER -> "rejected"
           x == [decision |-> t.decision, status |-> s]
<1>4. status' = x
  BY <1>2 DEF Harnessed!SaveFinal
<1>5. s \in {"completed", "rejected", "error"}
  OBVIOUS
<1>6. s = "completed" => t.decision # "rejected"
  OBVIOUS
<1>7. s = "rejected" => t.decision = "rejected"
  BY <1>3 DEF Harnessed!Decisions
<1>8. run.next = "interrupt" => s = "error"
  BY <1>3
<1> HIDE DEF s
<1>9. x \in Harnessed!Sessions /\ x.status = s /\ x.decision = t.decision
  BY <1>3, <1>5 DEF Harnessed!Sessions
<1>10. Harnessed!Completed.decision = NoOne
  BY DEF Harnessed!Completed
<1> HIDE DEF x
<1>11. x # NoOne /\ x # Harnessed!Completed
  BY <1>3, <1>9, <1>10, HarnessedAssumption
<1>12. ~closed
  BY <1>2 DEF HarnessedInv, Harnessed!OutcomesAreTrue, HarnessedAsked
<1>13. closed' \in BOOLEAN /\ ~closed'
  BY <1>1, <1>12 DEF HarnessedInv, Harnessed!TypeOK
<1>14. run.next = "interrupt" => x.status \in {"pending_human", "error"}
  BY <1>8, <1>9
<1>15. x.status = "completed" => x.decision # "rejected"
  BY <1>6, <1>9
<1>16. x.status = "rejected" => x.decision = "rejected"
  BY <1>7, <1>9
<1> QED BY <1>1, <1>2, <1>4, <1>9, <1>11, <1>13, <1>14, <1>15, <1>16, HarnessedSaved

LEMMA HarnessedStep == HarnessedInv /\ [Harnessed!Next]_(Harnessed!vars) => HarnessedInv'
<1> SUFFICES ASSUME HarnessedInv, [Harnessed!Next]_(Harnessed!vars) PROVE HarnessedInv'
  OBVIOUS
<1>1. CASE Harnessed!Next
  <2>1. PICK r \in Runners :
            \/ \E x \in HarnessRoutes : Harnessed!Start(r, x) \/ \E g \in Harnessed!Decisions : Harnessed!Approve(r, x, g)
            \/ Harnessed!Conclude(r) \/ \E x \in Harnessed!Tools : Harnessed!Propose(r, x)
            \/ Harnessed!Refuse(r) \/ Harnessed!Audit(r) \/ Harnessed!Raise(r)
            \/ \E x \in BOOLEAN : Harnessed!Interrupt(r, x) \/ Harnessed!Execute(r, x)
            \/ Harnessed!SaveTerminal(r) \/ Harnessed!CheckFinal(r) \/ Harnessed!SaveFinal(r) \/ Harnessed!Crash(r)
    BY <1>1 DEF Harnessed!Next
  <2> QED BY <2>1, HarnessedStartKeeps, HarnessedApproveKeeps, HarnessedConcludeKeeps, HarnessedProposeKeeps,
             HarnessedInterruptKeeps, HarnessedExecuteKeeps, HarnessedAuditKeeps, HarnessedRaiseKeeps,
             HarnessedTerminalKeeps, HarnessedCheckKeeps, HarnessedFinalKeeps, HarnessedCrashKeeps
<1>2. CASE UNCHANGED Harnessed!vars
  <2>1. UNCHANGED <<attempts, run, status, job, sent, closed>>
    BY <1>2 DEF Harnessed!vars
  <2>2. Harnessed!TypeOK' /\ Harnessed!OutcomesAreTrue'
    BY <2>1 DEF HarnessedInv, Harnessed!TypeOK, Harnessed!OutcomesAreTrue
  <2> QED BY <2>1, <2>2 DEF HarnessedInv
<1> QED BY <1>1, <1>2

LEMMA HarnessedHolds == HarnessedInv => Harnessed!TypeOK /\ Harnessed!OutcomesAreTrue
BY DEF HarnessedInv
=============================================================================
