----------------------------- MODULE ToolsProofs -----------------------------
(***************************************************************************)
(* The queries and downloads behind the tools and the migration of the     *)
(* database, for any number of tasks, workers, elements, rows, bytes and   *)
(* starts; and the types of all the tools side by side.                    *)
(***************************************************************************)
EXTENDS MCTools, MutationToolsProofs, FiniteSetTheorems, SequenceTheorems, TLAPS

-----------------------------------------------------------------------------
(***************************************************************************)
(* Finite sets in order.                                                   *)
(***************************************************************************)
\* Among sets that are bad there is one without a smaller one.
LEMMA SmallestBad ==
    ASSUME NEW S, IsFiniteSet(S), NEW Bad \in SUBSET SUBSET S, Bad # {}
    PROVE  \E T \in Bad : IsFiniteSet(T) /\ \A U \in Bad : U \subseteq T => U = T
  <1> DEFINE R == StrictSubsetOrdering(S)
  <1>1. IsWellFoundedOn(R, FiniteSubsetsOf(S))
    BY FS_StrictSubsetOrderingWellFounded
  <1>2. Bad \subseteq FiniteSubsetsOf(S)
    BY FS_Subset DEF FiniteSubsetsOf
  <1>3. PICK T \in Bad : \A U \in Bad : <<U, T>> \notin R
    <2> HIDE DEF R
    <2> QED
      BY <1>1, <1>2, WFMin
  <1>4. ASSUME NEW U \in Bad, U \subseteq T PROVE U = T
    BY <1>3, <1>4 DEF StrictSubsetOrdering
  <1>5. IsFiniteSet(T)
    BY FS_Subset
  <1> QED
    BY <1>4, <1>5

\* A finite set has a first element of a total order.
LEMMA FirstOne ==
    ASSUME NEW S, IsFiniteSet(S), NEW R,
           \A x, y \in S : x # y => <<x, y>> \in R \/ <<y, x>> \in R,
           \A x, y, z \in S : <<x, y>> \in R /\ <<y, z>> \in R => <<x, z>> \in R,
           NEW T \in SUBSET S, T # {}
    PROVE  \E m \in T : \A y \in T \ {m} : <<m, y>> \in R
  <1> DEFINE First(U) == \E m \in U : \A y \in U \ {m} : <<m, y>> \in R
             Bad == {U \in SUBSET S : U # {} /\ ~First(U)}
  <1>1. SUFFICES ASSUME Bad # {} PROVE FALSE
    OBVIOUS
  <1>2. Bad \in SUBSET SUBSET S
    OBVIOUS
  <1>3. PICK U \in Bad : \A V \in Bad : V \subseteq U => V = U
    <2> HIDE DEF Bad
    <2> QED
      BY <1>1, <1>2, SmallestBad
  <1>4. PICK x \in U : TRUE
    OBVIOUS
  <1>5. CASE U = {x}
    BY <1>5
  <1>6. CASE U # {x}
    <2>1. U \ {x} # {} /\ U \ {x} # U /\ U \ {x} \in SUBSET S
      BY <1>4, <1>6
    <2> DEFINE V == U \ {x}
    <2>2. First(V)
      <3> HIDE DEF First, V
      <3>1. V \notin Bad
        <4> HIDE DEF Bad
        <4> QED
          BY <1>3, <2>1 DEF V
      <3> QED
        BY <2>1, <3>1 DEF V
    <2>3. PICK m \in U \ {x} : \A y \in (U \ {x}) \ {m} : <<m, y>> \in R
      BY <2>2
    <2>4. x \in S /\ m \in S /\ x # m /\ U \subseteq S
      OBVIOUS
    <2>5. CASE <<m, x>> \in R
      <3>1. \A y \in U \ {m} : <<m, y>> \in R
        BY <2>3, <2>5
      <3> QED
        BY <3>1
    <2>6. CASE <<x, m>> \in R
      <3>1. \A y \in U \ {x} : <<x, y>> \in R
        BY <2>3, <2>4, <2>6
      <3> QED
        BY <3>1
    <2> QED
      BY <2>4, <2>5, <2>6
  <1> QED
    BY <1>5, <1>6

\* The set of the elements before those of a sequence is the one with its members in order.
Ordered(s, R) == \A i, j \in DOMAIN s : i < j => <<s[i], s[j]>> \in R

LEMMA OrderExists ==
    ASSUME NEW S, IsFiniteSet(S), NEW R,
           \A x, y \in S : x # y => <<x, y>> \in R \/ <<y, x>> \in R,
           \A x, y, z \in S : <<x, y>> \in R /\ <<y, z>> \in R => <<x, z>> \in R
    PROVE  \E s \in SetToSeqs(S) : Ordered(s, R)
  <1> DEFINE Orderable(U) == \E s \in SetToSeqs(U) : Ordered(s, R)
             Bad == {U \in SUBSET S : ~Orderable(U)}
  <1>1. SUFFICES ASSUME Bad # {} PROVE FALSE
    OBVIOUS
  <1>2. Bad \in SUBSET SUBSET S
    OBVIOUS
  <1>3. PICK U \in Bad : IsFiniteSet(U) /\ \A V \in Bad : V \subseteq U => V = U
    <2> HIDE DEF Bad
    <2> QED
      BY <1>1, <1>2, SmallestBad
  <1>4. U # {}
    <2>1. ASSUME U = {} PROVE FALSE
      <3>1. Cardinality(U) = 0
        BY <2>1, FS_EmptySet
      <3> DEFINE s == [i \in 1 .. 0 |-> i]
      <3>2. s \in [1 .. Cardinality(U) -> U] /\ 1 .. Cardinality(U) = {}
        BY <3>1
      <3>3. s \in SetToSeqs(U) /\ Ordered(s, R)
        BY <3>2 DEF SetToSeqs, Ordered
      <3> QED
        BY <3>3
    <2> QED
      BY <2>1
  <1>5. PICK m \in U : \A y \in U \ {m} : <<m, y>> \in R
    <2>1. U \in SUBSET S
      OBVIOUS
    <2> QED
      BY <1>4, <2>1, FirstOne
  <1> DEFINE n == Cardinality(U)
             V == U \ {m}
  <1>6. n \in Nat \ {0} /\ Cardinality(V) = n - 1
    BY <1>3, <1>5, FS_RemoveElement, FS_CardinalityType, FS_EmptySet
  <1>7. PICK s \in SetToSeqs(V) : Ordered(s, R)
    <2>1. V \in SUBSET S /\ V \subseteq U /\ V # U
      OBVIOUS
    <2> QED
      BY <1>3, <2>1
  <1>8. s \in [1 .. n - 1 -> V] /\ \A i, j \in 1 .. n - 1 : i # j => s[i] # s[j]
    BY <1>6 DEF SetToSeqs
  <1> DEFINE t == [i \in 1 .. n |-> IF i = 1 THEN m ELSE s[i - 1]]
  <1> HIDE DEF n, V
  <1>9. \A i \in 2 .. n : i - 1 \in 1 .. n - 1 /\ t[i] = s[i - 1] /\ s[i - 1] \in U /\ s[i - 1] # m
    BY <1>6, <1>8 DEF V
  <1>10. t[1] = m /\ DOMAIN t = 1 .. n
    BY <1>6
  <1>11. t \in [1 .. n -> U]
    <2>1. ASSUME NEW i \in 1 .. n PROVE t[i] \in U
      <3>1. i = 1 \/ i \in 2 .. n
        BY <1>6
      <3> HIDE DEF t
      <3> QED
        BY <1>5, <1>9, <1>10, <3>1
    <2>2. t = [i \in 1 .. n |-> t[i]]
      OBVIOUS
    <2> HIDE DEF t
    <2> QED
      BY <2>1, <2>2
  <1>12. \A i, j \in 1 .. n : i # j => t[i] # t[j]
    <2> SUFFICES ASSUME NEW i \in 1 .. n, NEW j \in 1 .. n, i < j PROVE t[i] # t[j]
      BY <1>6
    <2> HIDE DEF t
    <2>1. j \in 2 .. n /\ (i = 1 \/ i \in 2 .. n)
      BY <1>6
    <2> QED
      BY <1>6, <1>8, <1>9, <1>10, <2>1
  <1>13. Ordered(t, R)
    <2> SUFFICES ASSUME NEW i \in 1 .. n, NEW j \in 1 .. n, i < j PROVE <<t[i], t[j]>> \in R
      BY <1>10 DEF Ordered
    <2> HIDE DEF t
    <2>1. j \in 2 .. n /\ (i = 1 \/ i \in 2 .. n)
      BY <1>6
    <2>2. CASE i = 1
      BY <1>5, <1>9, <1>10, <2>1, <2>2
    <2>3. CASE i \in 2 .. n
      <3>1. i - 1 \in DOMAIN s /\ j - 1 \in DOMAIN s /\ i - 1 < j - 1
        BY <1>6, <1>8, <2>1, <2>3
      <3> QED
        BY <1>7, <1>9, <2>1, <2>3, <3>1 DEF Ordered
    <2> QED
      BY <2>1, <2>2, <2>3
  <1>14. t \in SetToSeqs(U)
    <2> HIDE DEF t
    <2> QED
      BY <1>11, <1>12 DEF SetToSeqs, n
  <1> QED
    BY <1>13, <1>14

\* A sequence of the members of a finite set, each once, in order (Ordering.tla).
LEMMA InOrderFacts ==
    ASSUME NEW S, IsFiniteSet(S), NEW R,
           \A x, y \in S : x # y => <<x, y>> \in R \/ <<y, x>> \in R,
           \A x, y, z \in S : <<x, y>> \in R /\ <<y, z>> \in R => <<x, z>> \in R,
           NEW s, s = InOrder(S, R), NEW n, n = Cardinality(S)
    PROVE  /\ n \in Nat /\ s \in [1 .. n -> S]
           /\ \A i, j \in 1 .. n : i # j => s[i] # s[j]
           /\ \A i, j \in 1 .. n : i < j => <<s[i], s[j]>> \in R
           /\ \A x \in S : \E i \in 1 .. n : s[i] = x
  <1>1. s \in SetToSeqs(S) /\ Ordered(s, R)
    BY OrderExists DEF InOrder, Ordered
  <1>2. s \in [1 .. n -> S] /\ \A i, j \in 1 .. n : i # j => s[i] # s[j]
    BY <1>1 DEF SetToSeqs
  <1>3. n \in Nat
    BY FS_CardinalityType
  <1>4. IsFiniteSet(1 .. n) /\ Cardinality(1 .. n) = n
    BY <1>3, FS_Interval
  <1>5. s \in Injection(1 .. n, S)
    BY <1>2 DEF Injection, IsInjective
  <1>6. s \in Surjection(1 .. n, S)
    BY <1>4, <1>5, FS_Injection
  <1>7. \A x \in S : \E i \in 1 .. n : s[i] = x
    BY <1>6 DEF Surjection
  <1> QED
    BY <1>1, <1>2, <1>3, <1>7 DEF Ordered

-----------------------------------------------------------------------------
(***************************************************************************)
(* The pool of workers runs each task at most once and resolves with all   *)
(* of their results.  PoolWhole needs to know besides that no index beyond *)
(* the counter has been touched, and that each one below it has a result   *)
(* or a worker, unless a task failed.                                      *)
(***************************************************************************)
Counted ==
    /\ started <= tasks
    /\ \A w \in WorkerIds : holding[w] <= started
    /\ \A i \in Slots : i > started => results[i] = None

Distinct == \A w, v \in WorkerIds : holding[w] # 0 /\ holding[w] = holding[v] => w = v

Unanswered == \A w \in WorkerIds : holding[w] # 0 => results[holding[w]] = None

\* No index was skipped.
Covered ==
    pool # "rejected" =>
        \A i \in 1 .. started : results[i] # None \/ \E w \in WorkerIds : holding[w] = i

Phases ==
    /\ pool = "idle" => /\ started = 0 /\ tasks = 0
                        /\ \A w \in WorkerIds : holding[w] = 0
    /\ pool = "resolved" => started = tasks /\ \A w \in WorkerIds : holding[w] = 0

PoolIInv ==
    /\ PoolTypeOK
    /\ Counted
    /\ Distinct
    /\ Unanswered
    /\ Covered
    /\ Phases

-----------------------------------------------------------------------------
LEMMA PoolStarts == PoolInit => PoolIInv
  BY PoolAssumption
  DEF PoolInit, PoolIInv, PoolTypeOK, Counted, Distinct, Unanswered, Covered, Phases,
      Slots, WorkerIds, PoolStates

LEMMA PoolMeans == PoolIInv => PoolWhole
  BY PoolAssumption
  DEF PoolIInv, PoolTypeOK, Distinct, Unanswered, Covered, Phases, PoolWhole, WorkerIds

\* The workers that start with the pool take the first indices, each its own.
LEMMA StartKeeps ==
    ASSUME PoolIInv, NEW n \in 0 .. MaxTasks, StartPool(n)
    PROVE  PoolIInv'
  <1> USE PoolAssumption DEF WorkerIds, Slots
  <1>1. /\ tasks' = n /\ started' = (IF n < Limit THEN n ELSE Limit)
        /\ results' = results
        /\ \A w \in WorkerIds : holding'[w] = IF w <= n THEN w ELSE 0
        /\ \A i \in Slots : results[i] = None
    BY DEF StartPool, PoolIInv, Counted, Phases, PoolTypeOK
  <1>2. started' \in 0 .. n /\ started' \in Nat /\ started' <= Limit
    BY <1>1
  <1>3. PoolTypeOK'
    BY <1>1, <1>2 DEF StartPool, PoolIInv, PoolTypeOK, PoolStates
  <1>4. Counted' /\ Distinct' /\ Unanswered'
    BY <1>1, <1>2 DEF Counted, Distinct, Unanswered
  <1>5. Covered'
    <2> SUFFICES ASSUME NEW i \in 1 .. started' PROVE \E w \in WorkerIds : holding'[w] = i
      BY DEF Covered
    <2>1. i \in WorkerIds /\ i <= n
      BY <1>2
    <2> QED
      BY <2>1, <1>1
  <1>6. Phases'
    BY <1>1, <1>2 DEF Phases, StartPool
  <1> QED
    BY <1>3, <1>4, <1>5, <1>6 DEF PoolIInv

\* A worker stores its result and takes the next index in one turn of the event loop.
LEMMA AnswerKeeps ==
    ASSUME PoolIInv, NEW w \in WorkerIds, NEW a \in Answers, Answer(w, a)
    PROVE  PoolIInv'
  <1> USE PoolAssumption DEF WorkerIds, Slots
  <1> DEFINE j == holding[w]
             more == started < tasks
  <1>1. /\ j \in 1 .. started /\ j \in Slots
        /\ started \in Nat /\ tasks \in 0 .. MaxTasks /\ started <= tasks
    BY DEF Answer, PoolIInv, PoolTypeOK, Counted
  <1>2. /\ tasks' = tasks
        /\ started' = IF more THEN started + 1 ELSE started
        /\ results' = [results EXCEPT ![j] = a]
        /\ holding' = [holding EXCEPT ![w] = IF more THEN started + 1 ELSE 0]
    BY DEF Answer, TakeNext
  <1>3. /\ results'[j] = a /\ a # None
        /\ \A i \in Slots : i # j => results'[i] = results[i]
        /\ holding'[w] = IF more THEN started + 1 ELSE 0
        /\ \A v \in WorkerIds : v # w => holding'[v] = holding[v]
    BY <1>1, <1>2 DEF PoolIInv, PoolTypeOK
  <1>4. \A v \in WorkerIds : holding[v] \in Nat /\ holding[v] <= started
    BY DEF PoolIInv, PoolTypeOK, Counted
  <1>5. PoolTypeOK'
    <2>1. results' \in [Slots -> Answers \cup {None}] /\ holding' \in [WorkerIds -> 0 .. MaxTasks]
      BY <1>1, <1>2 DEF PoolIInv, PoolTypeOK
    <2> QED
      BY <1>1, <1>2, <2>1 DEF PoolIInv, PoolTypeOK, PoolStates, Answer
  <1>6. Counted'
    BY <1>1, <1>2, <1>3, <1>4 DEF Counted, PoolIInv
  <1>7. Distinct'
    BY <1>1, <1>2, <1>3, <1>4 DEF Distinct, PoolIInv
  <1>8. Unanswered'
    <2> SUFFICES ASSUME NEW v \in WorkerIds, holding'[v] # 0 PROVE results'[holding'[v]] = None
      BY DEF Unanswered
    <2>1. CASE v = w
      BY <2>1, <1>1, <1>3 DEF PoolIInv, Counted
    <2>2. CASE v # w
      <3>1. holding[v] # j /\ holding[v] \in Slots
        BY <2>2, <1>1, <1>3, <1>4 DEF PoolIInv, Distinct, PoolTypeOK
      <3> QED
        BY <2>2, <3>1, <1>3 DEF PoolIInv, Unanswered
    <2> QED
      BY <2>1, <2>2
  <1>9. Covered'
    <2> SUFFICES ASSUME pool' # "rejected", NEW i \in 1 .. started'
                 PROVE  results'[i] # None \/ \E v \in WorkerIds : holding'[v] = i
      BY DEF Covered
    <2>1. pool # "rejected" /\ i \in Slots
      BY <1>1, <1>2 DEF Answer
    <2>2. CASE i = j
      BY <2>2, <1>3
    <2>3. CASE i > started
      BY <2>3, <1>1, <1>2, <1>3
    <2>4. CASE i <= started /\ i # j
      <3>1. results[i] # None \/ \E v \in WorkerIds : holding[v] = i
        BY <2>1, <2>4, <1>1 DEF PoolIInv, Covered
      <3>2. CASE results[i] # None
        BY <3>2, <2>1, <2>4, <1>3
      <3>3. CASE \E v \in WorkerIds : holding[v] = i
        BY <3>3, <2>4, <1>3
      <3> QED
        BY <3>1, <3>2, <3>3
    <2> QED
      BY <2>2, <2>3, <2>4, <1>1, <1>2
  <1>10. Phases'
    <2>1. pool # "idle" /\ pool # "resolved" /\ pool' # "idle"
      BY <1>1 DEF Answer, PoolIInv, Phases
    <2>2. ASSUME pool' = "resolved"
          PROVE  started' = tasks' /\ \A v \in WorkerIds : holding'[v] = 0
      BY <2>1, <2>2, <1>1, <1>2, <1>3 DEF Answer, AllThrough
    <2> QED
      BY <2>1, <2>2 DEF Phases
  <1> QED
    BY <1>5, <1>6, <1>7, <1>8, <1>9, <1>10 DEF PoolIInv

\* A failure ends one worker and the promise; the others keep what they hold.
LEMMA FailKeeps ==
    ASSUME PoolIInv, NEW w \in WorkerIds, Fail(w)
    PROVE  PoolIInv'
  <1> USE PoolAssumption DEF WorkerIds, Slots
  <1>1. /\ UNCHANGED <<tasks, started, results>> /\ pool' = "rejected"
        /\ \A v \in WorkerIds : holding'[v] = 0 \/ holding'[v] = holding[v]
        /\ holding' \in [WorkerIds -> 0 .. MaxTasks]
    BY DEF Fail, PoolIInv, PoolTypeOK
  <1> QED
    BY <1>1, SMTT(30) DEF PoolIInv, PoolTypeOK, PoolStates, Counted, Distinct, Unanswered, Covered, Phases

LEMMA PoolSteps == PoolIInv /\ [PoolNext]_poolVars => PoolIInv'
  <1> SUFFICES ASSUME PoolIInv, [PoolNext]_poolVars PROVE PoolIInv'
    OBVIOUS
  <1>1. CASE \E n \in 0 .. MaxTasks : StartPool(n)
    BY <1>1, StartKeeps
  <1>2. CASE \E w \in WorkerIds : \E a \in Answers : Answer(w, a)
    BY <1>2, AnswerKeeps
  <1>3. CASE \E w \in WorkerIds : Fail(w)
    BY <1>3, FailKeeps
  <1>4. CASE UNCHANGED poolVars
    BY <1>4 DEF poolVars, PoolIInv, PoolTypeOK, Counted, Distinct, Unanswered, Covered, Phases
  <1> QED
    BY <1>1, <1>2, <1>3, <1>4 DEF PoolNext

\* The pool's state is well typed for any number of tasks, workers and failures.
THEOREM PoolTypeCorrect == PoolSpec => []PoolTypeOK
  <1>1. PoolIInv => PoolTypeOK
    BY DEF PoolIInv
  <1> QED
    BY <1>1, PoolStarts, PoolSteps, PTL DEF PoolSpec

\* withConcurrencyLimit runs no task twice, overwrites no result, and resolves only with a
\* result of every task and no worker under way, for any number of tasks and workers.
THEOREM PoolRunsEachOnce == PoolSpec => []PoolWhole
  BY PoolStarts, PoolSteps, PoolMeans, PTL DEF PoolSpec
-----------------------------------------------------------------------------
(***************************************************************************)
(* The queries that fan out: whatever the order of the responses, what the *)
(* transforms and the probes hold at the end is what Autodesk holds.       *)
(***************************************************************************)
LEMMA LengthOf ==
    ASSUME NEW n \in Nat, NEW ws, ws = [i \in 1 .. n |-> ws[i]]
    PROVE  Len(ws) = n
  <1> DEFINE S == {ws[i] : i \in 1 .. n}
  <1>1. ws \in [1 .. n -> S]
    OBVIOUS
  <1>2. ws \in Seq(S)
    BY <1>1, SeqDef
  <1>3. Len(ws) \in Nat /\ DOMAIN ws = 1 .. Len(ws)
    BY <1>2, LenProperties
  <1> QED
    BY <1>1, <1>3

LEMMA Monotonic == ASSUME NEW a \in Nat, NEW b \in Nat, NEW c \in Nat, a <= b PROVE a * c <= b * c
  OBVIOUS

LEMMA Quotient ==
    ASSUME NEW a \in Nat, NEW b \in Nat \ {0}
    PROVE  a \div b \in Nat /\ (a \div b) * b <= a /\ a < (a \div b) * b + b
  OBVIOUS

\* There are enough batches for the elements, and no more than the pool takes.
LEMMA BatchesFacts ==
    ASSUME NEW n \in Nat, n <= MaxElements
    PROVE  /\ Batches(n) \in 0 .. MaxTasks
           /\ \A e \in 1 .. n : \E i \in 1 .. Batches(n) : (i - 1) * BatchSize < e /\ e <= i * BatchSize
  <1>0. BatchSize \in Nat \ {0} /\ MaxTasks \in Nat /\ MaxElements \in Nat /\ MaxElements <= MaxTasks * BatchSize
    BY AecdmAssumption, PoolAssumption
  <1> DEFINE b == BatchSize
             q == Batches(n)
  <1>1. q \in Nat /\ q * b <= n + b - 1 /\ n + b - 1 < q * b + b
    BY <1>0, Quotient DEF Batches
  <1> HIDE DEF q
  <1>2. q <= MaxTasks
    <2>1. SUFFICES ASSUME MaxTasks + 1 <= q PROVE FALSE
      BY <1>0, <1>1
    <2>2. (MaxTasks + 1) * b <= q * b
      BY <1>0, <1>1, <2>1, Monotonic
    <2>3. (MaxTasks + 1) * b = MaxTasks * b + b
      BY <1>0
    <2>4. MaxTasks * b \in Nat /\ q * b \in Nat
      BY <1>0, <1>1
    <2> HIDE DEF b
    <2> QED
      BY <1>0, <1>1, <2>2, <2>3, <2>4 DEF b
  <1>3. ASSUME NEW e \in 1 .. n
        PROVE  \E i \in 1 .. q : (i - 1) * b < e /\ e <= i * b
    <2> DEFINE j == (e - 1) \div b
    <2>1. j \in Nat /\ j * b <= e - 1 /\ e - 1 < j * b + b
      BY <1>0, Quotient
    <2> HIDE DEF j
    <2>2. (j + 1) * b = j * b + b /\ j * b \in Nat /\ q * b \in Nat
      BY <1>0, <1>1, <2>1
    <2>3. j < q
      <3>1. SUFFICES ASSUME q <= j PROVE FALSE
        BY <1>1, <2>1
      <3>2. q * b <= j * b
        BY <1>0, <1>1, <2>1, <3>1, Monotonic
      <3> QED
        BY <1>0, <1>1, <2>1, <2>2, <3>2
    <2>4. j + 1 \in 1 .. q /\ ((j + 1) - 1) * b < e /\ e <= (j + 1) * b
      BY <1>0, <1>1, <2>1, <2>2, <2>3
    <2> QED
      BY <2>4
  <1> QED
    BY <1>1, <1>2, <1>3 DEF q

BeforeCall == query = "idle" => geometry = <<>> /\ transforms = <<>> /\ probed = {}

\* A batch that was answered has brought what Autodesk holds of its elements.
PositionsKnown ==
    query \in {"positions", "failed"} =>
      /\ probed = {}
      /\ \E n \in Elements \cup {0} : DOMAIN geometry = 1 .. n /\ DOMAIN transforms = 1 .. n /\ tasks = Batches(n)
      /\ \A e \in DOMAIN geometry : transforms[e] \in {None, geometry[e]}
      /\ \A i \in 1 .. tasks : results[i] # None => \A e \in Batch(i) : transforms[e] = geometry[e]

\* The result of a probe is the count of its category, or nothing when it failed.
CountOf(i) == IF counts[i] < ProbeLimit THEN counts[i] ELSE ProbeLimit
CategoriesKnown ==
    query = "categories" =>
      /\ transforms = <<>> /\ tasks = MaxTasks
      /\ counts \in [Slots -> 0 .. ProbeLimit + 1]
      /\ \A i \in Slots : IF i \in probed THEN results[i] = CountOf(i) ELSE results[i] \in {None, 0}

AecdmIInv ==
    /\ PoolIInv /\ AecdmTypeOK
    /\ BeforeCall /\ PositionsKnown /\ CategoriesKnown
    /\ AecdmExact

LEMMA AecdmStarts == AecdmInit => AecdmIInv
  <1> SUFFICES ASSUME AecdmInit PROVE AecdmIInv
    OBVIOUS
  <1>1. PoolIInv /\ PoolWhole
    BY PoolStarts, PoolMeans DEF AecdmInit
  <1> QED
    BY <1>1 DEF AecdmInit, AecdmIInv, PoolIInv, AecdmTypeOK, BeforeCall, PositionsKnown, CategoriesKnown, AecdmExact

\* Before its end a call promises nothing but what the pool does.
LEMMA NotDone ==
    ASSUME PoolIInv', query' # "done" PROVE AecdmExact'
  <1>1. PoolWhole'
    BY PoolMeans, PTL
  <1> QED
    BY <1>1 DEF AecdmExact

LEMMA PositionsStart ==
    ASSUME AecdmIInv, QueryElementPositions
    PROVE  AecdmIInv'
  <1>1. PICK n \in Elements \cup {0} :
               /\ query = "idle" /\ query' = "positions" /\ boxed' \in BOOLEAN
               /\ geometry' \in [1 .. n -> Transforms \cup {None}]
               /\ transforms' = [e \in 1 .. n |-> None]
               /\ StartPool(Batches(n)) /\ UNCHANGED <<counts, probed, listing>>
    BY DEF QueryElementPositions
  <1>2. n \in Nat /\ n <= MaxElements
    BY AecdmAssumption DEF Elements
  <1>3. Batches(n) \in 0 .. MaxTasks
    BY <1>2, BatchesFacts
  <1>4. PoolIInv'
    BY <1>1, <1>3, StartKeeps DEF AecdmIInv
  <1>5. tasks' = Batches(n) /\ \A i \in Slots : results'[i] = None
    BY <1>1 DEF StartPool, AecdmIInv, PoolIInv, Counted, Phases, PoolTypeOK, Slots
  <1>6. 1 .. tasks' \subseteq Slots
    BY <1>3, <1>5, PoolAssumption DEF Slots
  <1>7. PositionsKnown'
    BY <1>1, <1>5, <1>6 DEF PositionsKnown, AecdmIInv, BeforeCall
  <1>8. AecdmTypeOK' /\ BeforeCall' /\ CategoriesKnown'
    BY <1>1, <1>4 DEF AecdmIInv, AecdmTypeOK, BeforeCall, CategoriesKnown, PoolIInv
  <1>9. AecdmExact'
    BY <1>1, <1>4, NotDone
  <1> QED
    BY <1>4, <1>7, <1>8, <1>9 DEF AecdmIInv

\* What the pool does in an answer: one result more, of the task its worker held.
LEMMA OneResult ==
    ASSUME PoolIInv, NEW w \in WorkerIds, NEW a \in Answers, Answer(w, a)
    PROVE  /\ PoolIInv' /\ tasks' = tasks /\ holding[w] \in 1 .. tasks /\ holding[w] \in Slots
           /\ results[holding[w]] = None /\ results'[holding[w]] = a
           /\ \A i \in Slots : i # holding[w] => results'[i] = results[i]
  <1>1. holding[w] \in Slots /\ holding[w] \in 1 .. tasks
    BY PoolAssumption DEF Answer, PoolIInv, PoolTypeOK, Counted, Slots
  <1>2. results[holding[w]] = None
    BY DEF Answer, PoolIInv, Unanswered
  <1> QED
    BY <1>1, <1>2, AnswerKeeps DEF Answer, PoolIInv, PoolTypeOK

LEMMA PositionsAnswered ==
    ASSUME AecdmIInv, NEW w \in WorkerIds, BatchAnswers(w)
    PROVE  AecdmIInv'
  <1>1. /\ query \in {"positions", "failed"} /\ Answer(w, 0)
        /\ UNCHANGED <<query, geometry, counts, boxed, probed, listing>>
    BY DEF BatchAnswers
  <1>2. 0 \in Answers
    BY AecdmAssumption
  <1> DEFINE j == holding[w]
  <1>3. /\ PoolIInv' /\ tasks' = tasks /\ j \in 1 .. tasks
        /\ \A i \in Slots : i # j => results'[i] = results[i]
    BY <1>1, <1>2, OneResult DEF AecdmIInv
  <1>4. PICK n \in Elements \cup {0} : DOMAIN geometry = 1 .. n /\ DOMAIN transforms = 1 .. n /\ tasks = Batches(n)
    BY <1>1 DEF AecdmIInv, PositionsKnown
  <1>5. /\ DOMAIN transforms' = 1 .. n
        /\ \A e \in 1 .. n : transforms'[e] = IF e \in Batch(j) /\ geometry[e] # None THEN geometry[e]
                                            ELSE transforms[e]
    BY <1>4 DEF BatchAnswers
  <1>6. \A e \in 1 .. n : transforms[e] \in {None, geometry[e]}
    BY <1>1, <1>4 DEF AecdmIInv, PositionsKnown
  <1>7. \A e \in 1 .. n : transforms'[e] \in {None, geometry[e]}
    BY <1>5, <1>6
  <1>8. ASSUME NEW i \in 1 .. tasks, results'[i] # None, NEW e \in Batch(i)
        PROVE  transforms'[e] = geometry[e]
    <2>1. e \in 1 .. n /\ i \in Slots
      BY <1>4, PoolAssumption DEF Batch, Slots, AecdmIInv, PoolIInv, PoolTypeOK
    <2>2. CASE i = j
      BY <1>5, <1>6, <1>8, <2>1, <2>2
    <2>3. CASE i # j
      <3>1. results[i] # None
        BY <1>3, <1>8, <2>1, <2>3
      <3>2. transforms[e] = geometry[e]
        BY <1>1, <1>8, <3>1 DEF AecdmIInv, PositionsKnown
      <3> QED
        BY <1>5, <2>1, <3>2
    <2> QED
      BY <2>2, <2>3
  <1>9. PositionsKnown'
    <2>1. \A i : Batch(i)' = Batch(i)
      BY <1>1 DEF Batch
    <2>2. probed' = {}
      BY <1>1 DEF AecdmIInv, PositionsKnown
    <2>3. DOMAIN geometry' = 1 .. n /\ geometry' = geometry
      BY <1>1, <1>4
    <2>4. \A i \in 1 .. tasks' : results'[i] # None => \A e \in Batch(i)' : transforms'[e] = geometry'[e]
      BY <1>3, <1>8, <2>1, <2>3
    <2> QED
      BY <1>3, <1>4, <1>5, <1>7, <2>2, <2>3, <2>4 DEF PositionsKnown
  <1>10. AecdmTypeOK' /\ BeforeCall' /\ CategoriesKnown'
    BY <1>1, <1>3 DEF AecdmIInv, AecdmTypeOK, BeforeCall, CategoriesKnown, PoolIInv
  <1>11. AecdmExact'
    BY <1>1, <1>3, NotDone
  <1> QED
    BY <1>3, <1>9, <1>10, <1>11 DEF AecdmIInv

LEMMA PositionsFail ==
    ASSUME AecdmIInv, NEW w \in WorkerIds, BatchFails(w)
    PROVE  AecdmIInv'
  <1>1. /\ query \in {"positions", "failed"} /\ query' = "failed" /\ Fail(w)
        /\ UNCHANGED <<geometry, counts, boxed, transforms, probed, listing>>
    BY DEF BatchFails
  <1>2. PoolIInv'
    BY <1>1, FailKeeps DEF AecdmIInv
  <1>3. UNCHANGED <<tasks, results>>
    BY <1>1 DEF Fail
  <1>4. PositionsKnown'
    BY <1>1, <1>3 DEF AecdmIInv, PositionsKnown, Batch
  <1>5. AecdmTypeOK' /\ BeforeCall' /\ CategoriesKnown'
    BY <1>1, <1>2 DEF AecdmIInv, AecdmTypeOK, BeforeCall, CategoriesKnown, PoolIInv
  <1>6. AecdmExact'
    BY <1>1, <1>2, NotDone
  <1> QED
    BY <1>2, <1>4, <1>5, <1>6 DEF AecdmIInv

\* When the pool resolves every element has been asked for.
LEMMA AllTransforms ==
    ASSUME AecdmIInv, query = "positions", pool = "resolved"
    PROVE  \E n \in Nat : DOMAIN geometry = 1 .. n /\ \A e \in 1 .. n : transforms[e] = geometry[e]
  <1>1. PICK n \in Elements \cup {0} : DOMAIN geometry = 1 .. n /\ DOMAIN transforms = 1 .. n /\ tasks = Batches(n)
    BY DEF AecdmIInv, PositionsKnown
  <1>2. n \in Nat /\ n <= MaxElements
    BY AecdmAssumption DEF Elements
  <1>3. ASSUME NEW e \in 1 .. n PROVE transforms[e] = geometry[e]
    <2>1. PICK i \in 1 .. tasks : (i - 1) * BatchSize < e /\ e <= i * BatchSize
      BY <1>1, <1>2, BatchesFacts
    <2>2. e \in Batch(i)
      BY <1>1, <2>1 DEF Batch
    <2>3. results[i] # None
      BY PoolMeans DEF AecdmIInv, PoolWhole
    <2> QED
      BY <2>2, <2>3 DEF AecdmIInv, PositionsKnown
  <1> QED
    BY <1>1, <1>2, <1>3

LEMMA PositionsDone ==
    ASSUME AecdmIInv, AnswerPositions
    PROVE  AecdmIInv'
  <1> DEFINE kept == {e \in DOMAIN geometry : boxed => Decoded(e) = "inside"}
             before == {p \in kept \X kept : p[1] < p[2]}
             order == InOrder(kept, before)
             m == Cardinality(kept)
  <1>1. /\ query = "positions" /\ pool = "resolved" /\ query' = "done"
        /\ listing' = [k \in DOMAIN order |-> [id |-> order[k], position |-> Decoded(order[k])]]
        /\ UNCHANGED <<poolVars, geometry, counts, boxed, transforms, probed>>
    BY DEF AnswerPositions
  <1>2. PICK n \in Nat : DOMAIN geometry = 1 .. n /\ \A e \in 1 .. n : transforms[e] = geometry[e]
    BY <1>1, AllTransforms
  <1>3. kept \subseteq 1 .. n /\ IsFiniteSet(kept)
    <2>1. kept \in SUBSET (1 .. n)
      BY <1>2
    <2> HIDE DEF kept
    <2>2. IsFiniteSet(1 .. n)
      BY FS_Interval
    <2> QED
      BY <2>1, <2>2, FS_Subset
  <1>4. /\ \A x, y \in kept : x # y => <<x, y>> \in before \/ <<y, x>> \in before
        /\ \A x, y, z \in kept : <<x, y>> \in before /\ <<y, z>> \in before => <<x, z>> \in before
        /\ \A x, y \in kept : <<x, y>> \in before => x < y
    <2> HIDE DEF kept
    <2>1. \A x, y \in kept : <<x, y>> \in before <=> x < y
      OBVIOUS
    <2> HIDE DEF before
    <2> QED
      BY <1>3, <2>1
  <1> DEFINE Place(e) == IF geometry[e] \in {"inside", "outside"} THEN geometry[e] ELSE None
             wanted == {e \in DOMAIN geometry : boxed => geometry[e] = "inside"}
  <1>5. (\A e \in 1 .. n : Decoded(e) = Place(e)) /\ kept = wanted
    <2>1. \A e \in 1 .. n : Decoded(e) = Place(e)
      BY <1>2 DEF Decoded
    <2>2. \A e \in 1 .. n : Decoded(e) = "inside" <=> geometry[e] = "inside"
      BY <1>2, AecdmAssumption DEF Decoded, Transforms
    <2> QED
      BY <1>2, <2>1, <2>2
  <1> HIDE DEF kept, before, m, order
  <1>6. /\ m \in Nat /\ order \in [1 .. m -> kept]
        /\ \A i, j \in 1 .. m : i < j => <<order[i], order[j]>> \in before
        /\ \A x \in kept : \E i \in 1 .. m : order[i] = x
    <2>1. IsFiniteSet(kept) /\ order = InOrder(kept, before) /\ m = Cardinality(kept)
      BY <1>3 DEF order, m
    <2>2. /\ \A x, y \in kept : x # y => <<x, y>> \in before \/ <<y, x>> \in before
          /\ \A x, y, z \in kept : <<x, y>> \in before /\ <<y, z>> \in before => <<x, z>> \in before
      BY <1>3, <1>4
    <2> QED
      BY <2>1, <2>2, InOrderFacts, SMTT(30)
  <1>7. /\ listing' = [k \in 1 .. m |-> listing'[k]]
        /\ \A k \in 1 .. m : /\ listing'[k].id = order[k] /\ listing'[k].position = Place(order[k])
                             /\ order[k] \in kept
    BY <1>1, <1>3, <1>5, <1>6
  <1>8. Len(listing') = m /\ DOMAIN listing' = 1 .. m
    BY <1>6, <1>7, LengthOf
  <1> HIDE DEF Place, wanted
  <1>9. {r.id : r \in ToSet(listing')} = wanted
    BY <1>5, <1>6, <1>7, <1>8 DEF ToSet
  <1>10. \A k \in DOMAIN listing' : listing'[k].position = Place(listing'[k].id)
    BY <1>7, <1>8
  <1>11. \A k \in 2 .. Len(listing') : listing'[k - 1].id < listing'[k].id
    <2> SUFFICES ASSUME NEW k \in 2 .. m PROVE listing'[k - 1].id < listing'[k].id
      BY <1>8
    <2>1. k - 1 \in 1 .. m /\ k \in 1 .. m /\ k - 1 < k
      BY <1>6
    <2>2. <<order[k - 1], order[k]>> \in before
      BY <1>6, <2>1
    <2>3. order[k - 1] < order[k]
      BY <1>4, <1>7, <2>1, <2>2
    <2> QED
      BY <1>7, <2>1, <2>3
  <1>12. PoolIInv' /\ PoolWhole'
    BY <1>1, PoolMeans
    DEF AecdmIInv, poolVars, PoolIInv, PoolTypeOK, Counted, Distinct, Unanswered, Covered, Phases, PoolWhole
  <1>13. probed' = {} /\ geometry' = geometry /\ boxed' = boxed
    BY <1>1 DEF AecdmIInv, PositionsKnown
  <1>14. AecdmExact'
    BY <1>9, <1>10, <1>11, <1>12, <1>13 DEF AecdmExact, Place, wanted
  <1>15. AecdmTypeOK' /\ BeforeCall' /\ PositionsKnown' /\ CategoriesKnown'
    BY <1>1, <1>12 DEF AecdmIInv, AecdmTypeOK, BeforeCall, PositionsKnown, CategoriesKnown, PoolIInv
  <1> QED
    BY <1>12, <1>14, <1>15 DEF AecdmIInv

LEMMA CategoriesStart ==
    ASSUME AecdmIInv, ListAecdmCategories
    PROVE  AecdmIInv'
  <1>1. /\ query = "idle" /\ query' = "categories" /\ counts' \in [Slots -> 0 .. ProbeLimit + 1]
        /\ StartPool(MaxTasks) /\ UNCHANGED <<geometry, boxed, transforms, probed, listing>>
    BY DEF ListAecdmCategories
  <1>2. PoolIInv'
    BY <1>1, StartKeeps, PoolAssumption DEF AecdmIInv
  <1>3. tasks' = MaxTasks /\ \A i \in Slots : results'[i] = None
    BY <1>1 DEF StartPool, AecdmIInv, PoolIInv, Counted, Phases, PoolTypeOK, Slots
  <1>4. transforms' = <<>> /\ probed' = {}
    BY <1>1 DEF AecdmIInv, BeforeCall
  <1>5. CategoriesKnown'
    BY <1>1, <1>3, <1>4 DEF CategoriesKnown
  <1>6. AecdmTypeOK' /\ BeforeCall' /\ PositionsKnown'
    BY <1>1, <1>2, <1>4 DEF AecdmIInv, AecdmTypeOK, BeforeCall, PositionsKnown, PoolIInv
  <1>7. AecdmExact'
    BY <1>1, <1>2, NotDone
  <1> QED
    BY <1>2, <1>5, <1>6, <1>7 DEF AecdmIInv

\* A probe that is answered is counted, one that fails counts nothing.
LEMMA ProbeEnds ==
    ASSUME AecdmIInv, NEW w \in WorkerIds, ProbeCategoryCount(w) \/ ProbeFails(w)
    PROVE  AecdmIInv'
  <1> DEFINE j == holding[w]
  <1>0. query = "categories" /\ UNCHANGED <<query, geometry, counts, boxed, transforms, listing>>
    BY DEF ProbeCategoryCount, ProbeFails
  <1>1. /\ transforms = <<>> /\ tasks = MaxTasks /\ counts \in [Slots -> 0 .. ProbeLimit + 1]
        /\ \A i \in Slots : IF i \in probed THEN results[i] = CountOf(i) ELSE results[i] \in {None, 0}
    BY <1>0 DEF AecdmIInv, CategoriesKnown
  <1>2. \/ Answer(w, CountOf(j)) /\ probed' = probed \cup {j}
        \/ Answer(w, 0) /\ probed' = probed
    BY DEF ProbeCategoryCount, ProbeFails, CountOf
  <1>3. j \in Slots
    BY PoolAssumption DEF ProbeCategoryCount, ProbeFails, Answer, AecdmIInv, PoolIInv, PoolTypeOK, Slots
  <1>4. 0 \in Answers /\ CountOf(j) \in Answers
    BY <1>1, <1>3, AecdmAssumption DEF CountOf
  <1>5. /\ PoolIInv' /\ tasks' = tasks /\ results[j] = None
        /\ \A i \in Slots : i # j => results'[i] = results[i]
        /\ \/ results'[j] = CountOf(j) /\ probed' = probed \cup {j}
           \/ results'[j] = 0 /\ probed' = probed
    <2> HIDE DEF j
    <2>1. CASE Answer(w, CountOf(j)) /\ probed' = probed \cup {j}
      BY <1>4, <2>1, OneResult DEF AecdmIInv, j
    <2>2. CASE Answer(w, 0) /\ probed' = probed
      BY <1>4, <2>2, OneResult DEF AecdmIInv, j
    <2> QED
      BY <1>2, <2>1, <2>2
  <1>6. j \notin probed
    BY <1>1, <1>3, <1>4, <1>5, PoolAssumption
  <1>7. \A i : CountOf(i)' = CountOf(i)
    BY <1>0 DEF CountOf
  <1>8. CategoriesKnown'
    <2>1. ASSUME NEW i \in Slots
          PROVE  IF i \in probed' THEN results'[i] = CountOf(i) ELSE results'[i] \in {None, 0}
      BY <1>1, <1>5, <1>6
    <2> QED
      BY <1>0, <1>1, <1>5, <1>7, <2>1 DEF CategoriesKnown
  <1>9. AecdmTypeOK' /\ BeforeCall' /\ PositionsKnown'
    BY <1>0, <1>3, <1>5 DEF AecdmIInv, AecdmTypeOK, BeforeCall, PositionsKnown, PoolIInv
  <1>10. AecdmExact'
    BY <1>0, <1>5, NotDone
  <1> QED
    BY <1>5, <1>8, <1>9, <1>10 DEF AecdmIInv

LEMMA CategoriesDone ==
    ASSUME AecdmIInv, AnswerCategories
    PROVE  AecdmIInv'
  <1> DEFINE kept == {i \in Slots : results[i] > 0}
             Larger(i, j) == results[i] > results[j] \/ (results[i] = results[j] /\ i < j)
             before == {p \in kept \X kept : Larger(p[1], p[2])}
             order == InOrder(kept, before)
             m == Cardinality(kept)
  <1>1. /\ query = "categories" /\ pool = "resolved" /\ query' = "done"
        /\ listing' = order
        /\ UNCHANGED <<poolVars, geometry, counts, boxed, transforms, probed>>
    BY DEF AnswerCategories
  <1>2. /\ transforms = <<>> /\ tasks = MaxTasks /\ counts \in [Slots -> 0 .. ProbeLimit + 1]
        /\ \A i \in Slots : IF i \in probed THEN results[i] = CountOf(i) ELSE results[i] \in {None, 0}
    BY <1>1 DEF AecdmIInv, CategoriesKnown
  <1>3. PoolWhole
    BY PoolMeans DEF AecdmIInv
  <1>4. \A i \in Slots : results[i] = IF i \in probed THEN CountOf(i) ELSE 0
    BY <1>1, <1>2, <1>3 DEF PoolWhole, Slots
  <1>5. \A i \in Slots : counts[i] \in Nat /\ CountOf(i) \in Nat /\ results[i] \in Nat /\ i \in Nat
    BY <1>2, <1>4, AecdmAssumption, PoolAssumption DEF CountOf, Slots
  <1>6. ProbeLimit \in Nat
    BY AecdmAssumption
  <1>7. kept \subseteq Slots /\ IsFiniteSet(kept)
    <2>1. IsFiniteSet(Slots)
      BY PoolAssumption, FS_Interval DEF Slots
    <2>2. kept \in SUBSET Slots
      OBVIOUS
    <2> HIDE DEF kept
    <2> QED
      BY <2>1, <2>2, FS_Subset
  <1>8. /\ \A x, y \in kept : x # y => <<x, y>> \in before \/ <<y, x>> \in before
        /\ \A x, y, z \in kept : <<x, y>> \in before /\ <<y, z>> \in before => <<x, z>> \in before
        /\ \A x, y \in kept : <<x, y>> \in before => results[x] >= results[y]
    <2>1. \A x, y \in kept : <<x, y>> \in before <=> Larger(x, y)
      <3> HIDE DEF kept, Larger
      <3> QED
        OBVIOUS
    <2> HIDE DEF before, kept
    <2> QED
      BY <1>5, <1>7, <2>1
  <1> HIDE DEF before, m, order
  <1>9. /\ m \in Nat /\ order \in [1 .. m -> kept]
        /\ \A i, j \in 1 .. m : i # j => order[i] # order[j]
        /\ \A i, j \in 1 .. m : i < j => <<order[i], order[j]>> \in before
        /\ \A x \in kept : \E i \in 1 .. m : order[i] = x
    <2> HIDE DEF kept, Larger
    <2>1. \A x, y \in kept : x # y => <<x, y>> \in before \/ <<y, x>> \in before
      BY <1>8
    <2>2. \A x, y, z \in kept : <<x, y>> \in before /\ <<y, z>> \in before => <<x, z>> \in before
      BY <1>8
    <2> QED
      BY <1>7, <2>1, <2>2, InOrderFacts DEF order, m
  <1>10. Len(listing') = m /\ DOMAIN listing' = 1 .. m
    BY <1>1, <1>9, LengthOf
  <1>11. kept = {i \in probed : counts[i] > 0 /\ ProbeLimit > 0}
    <2>1. probed \subseteq Slots
      BY DEF AecdmIInv, AecdmTypeOK
    <2>2. \A i \in Slots : results[i] > 0 <=> i \in probed /\ counts[i] > 0 /\ ProbeLimit > 0
      BY <1>4, <1>5, <1>6 DEF CountOf
    <2> QED
      BY <2>1, <2>2
  <1>12. ToSet(listing') = {i \in probed : counts[i] > 0 /\ ProbeLimit > 0}
    <2>1. ToSet(listing') = kept
      <3> HIDE DEF kept
      <3> QED
        BY <1>1, <1>9, <1>10 DEF ToSet
    <2> QED
      BY <1>11, <2>1
  <1>13. IsInjective(listing')
    BY <1>1, <1>9, <1>10 DEF IsInjective
  <1>14. ASSUME NEW k \in 2 .. Len(listing')
         PROVE  counts[listing'[k - 1]] >= counts[listing'[k]] \/ counts[listing'[k - 1]] >= ProbeLimit
    <2> DEFINE x == order[k - 1]
               y == order[k]
    <2>1. k - 1 \in 1 .. m /\ k \in 1 .. m /\ k - 1 < k
      BY <1>9, <1>10
    <2>2. <<x, y>> \in before /\ x \in kept /\ y \in kept
      BY <1>9, <2>1
    <2> HIDE DEF x, y
    <2>3. results[x] >= results[y] /\ x \in Slots /\ y \in Slots
      BY <1>7, <1>8, <2>2
    <2>4. results[x] = CountOf(x) /\ results[y] = CountOf(y)
      BY <1>4, <2>2, <2>3
    <2>5. counts[x] >= counts[y] \/ counts[x] >= ProbeLimit
      BY <1>5, <1>6, <2>3, <2>4 DEF CountOf
    <2> QED
      BY <1>1, <2>5 DEF x, y
  <1>15. PoolIInv' /\ PoolWhole'
    BY <1>1, PoolMeans
    DEF AecdmIInv, poolVars, PoolIInv, PoolTypeOK, Counted, Distinct, Unanswered, Covered, Phases, PoolWhole
  <1>16. AecdmExact'
    BY <1>1, <1>2, <1>12, <1>13, <1>14, <1>15 DEF AecdmExact
  <1>17. AecdmTypeOK' /\ BeforeCall' /\ PositionsKnown' /\ CategoriesKnown'
    BY <1>1, <1>15 DEF AecdmIInv, AecdmTypeOK, BeforeCall, PositionsKnown, CategoriesKnown, PoolIInv
  <1> QED
    BY <1>15, <1>16, <1>17 DEF AecdmIInv

LEMMA AecdmSteps == AecdmIInv /\ [AecdmNext]_aecdmVars => AecdmIInv'
  <1> SUFFICES ASSUME AecdmIInv, [AecdmNext]_aecdmVars PROVE AecdmIInv'
    OBVIOUS
  <1>1. CASE UNCHANGED aecdmVars
    BY <1>1
    DEF aecdmVars, poolVars, AecdmIInv, PoolIInv, PoolTypeOK, Counted, Distinct, Unanswered, Covered, Phases,
        AecdmTypeOK, BeforeCall, PositionsKnown, CategoriesKnown, CountOf, Batch, AecdmExact, PoolWhole
  <1> QED
    BY <1>1, PositionsStart, PositionsAnswered, PositionsFail, PositionsDone, CategoriesStart, ProbeEnds,
       CategoriesDone DEF AecdmNext

\* Whatever order the responses of a pool of workers come in, each element gets the position
\* of its own transform and a box leaves exactly those inside; each category whose probe was
\* answered and that holds elements is listed, once, the largest first (queryElementPositions
\* and listAecdmCategories, src/apis/aecdm.ts).
THEOREM QueriesExact == AecdmSpec => []AecdmExact
  <1>1. AecdmIInv => AecdmExact
    BY DEF AecdmIInv
  <1> QED
    BY <1>1, AecdmStarts, AecdmSteps, PTL DEF AecdmSpec
-----------------------------------------------------------------------------
(***************************************************************************)
(* The clashes reported are those of the test, whatever files are missing. *)
(* What is needed besides ClashExact: the table of each file is the file   *)
(* if it was received and empty if it was not, and the test is a           *)
(* successful one if there is one.                                         *)
(***************************************************************************)
\* A set of positions has a least one.
LEMMA LeastPosition ==
    ASSUME NEW n \in Nat, NEW T \in SUBSET (1 .. n), T # {}
    PROVE  \E m \in T : \A j \in T : m <= j
  <1> DEFINE R == {p \in (1 .. n) \X (1 .. n) : p[1] < p[2]}
  <1>1. IsFiniteSet(1 .. n)
    BY FS_Interval
  <1>2. \A x, y \in 1 .. n : <<x, y>> \in R <=> x < y
    OBVIOUS
  <1> HIDE DEF R
  <1>3. /\ \A x, y \in 1 .. n : x # y => <<x, y>> \in R \/ <<y, x>> \in R
        /\ \A x, y, z \in 1 .. n : <<x, y>> \in R /\ <<y, z>> \in R => <<x, z>> \in R
    BY <1>2
  <1>4. PICK m \in T : \A y \in T \ {m} : <<m, y>> \in R
    BY <1>1, <1>3, FirstOne
  <1>5. ASSUME NEW j \in T PROVE m <= j
    <2>1. m \in 1 .. n /\ j \in 1 .. n
      OBVIOUS
    <2>2. CASE j = m
      BY <2>1, <2>2
    <2>3. CASE j # m
      <3>1. <<m, j>> \in R
        BY <1>4, <2>3
      <3>2. m < j
        BY <1>2, <2>1, <3>1
      <3> QED
        BY <2>1, <3>2
    <2> QED
      BY <2>2, <2>3
  <1> QED
    BY <1>5

\* The instance of a clash is the first one that names it, or nothing if none does.
FirstWith(s, id, k) == s[k].cid = id /\ \A j \in 1 .. k - 1 : s[j].cid # id

LEMMA InstanceOfFacts ==
    ASSUME NEW X, Nothing \notin X, NEW s \in Seq(X), NEW id
    PROVE  /\ (InstanceOf(s, id) # Nothing) <=> \E i \in ToSet(s) : i.cid = id
           /\ InstanceOf(s, id) # Nothing =>
                  \E k \in DOMAIN s : FirstWith(s, id, k) /\ InstanceOf(s, id) = s[k]
  <1> DEFINE of == {i \in DOMAIN s : s[i].cid = id}
  <1>1. DOMAIN s = 1 .. Len(s) /\ Len(s) \in Nat /\ \A i \in DOMAIN s : s[i] \in X
    OBVIOUS
  <1>2. CASE of = {}
    <2>1. InstanceOf(s, id) = Nothing
      BY <1>2 DEF InstanceOf
    <2>2. ~\E i \in ToSet(s) : i.cid = id
      BY <1>2 DEF ToSet
    <2> QED
      BY <2>1, <2>2
  <1>3. CASE of # {}
    <2>1. PICK m \in of : \A j \in of : m <= j
      BY <1>1, <1>3, LeastPosition
    <2>2. (CHOOSE i \in of : \A j \in of : i <= j) = m
      BY <1>1, <2>1
    <2>3. InstanceOf(s, id) = s[m]
      BY <1>3, <2>2 DEF InstanceOf
    <2>4. m \in DOMAIN s /\ s[m].cid = id /\ FirstWith(s, id, m)
      BY <1>1, <2>1 DEF FirstWith
    <2>5. s[m] \in ToSet(s) /\ s[m] # Nothing
      BY <1>1, <2>4 DEF ToSet
    <2> QED
      BY <2>3, <2>4, <2>5
  <1> QED
    BY <1>2, <1>3

Passing(x) ==
    /\ onlyStatus \in {Nothing, x.status}
    /\ filter = Nothing \/ x.dist >= filter \/ x.dist <= -filter

\* What is reported of clashes c, instances s and documents d: those that pass and have an
\* instance, in the order o of their depth, as far as MaxResults goes.
Reported(r, c, s, d, o, n) ==
    /\ Len(r) = IF n < MaxResults THEN n ELSE MaxResults
    /\ DOMAIN r = 1 .. Len(r)
    /\ \A k \in DOMAIN r : r[k] = [id |-> c[o[k]].id, dist |-> c[o[k]].dist,
                                   status |-> c[o[k]].status,
                                   left |-> Document(d, InstanceOf(s, c[o[k]].id).left),
                                   right |-> Document(d, InstanceOf(s, c[o[k]].id).right)]
    /\ \A k \in 1 .. n : Passing(c[o[k]]) /\ InstanceOf(s, c[o[k]].id) # Nothing
    /\ \A i, j \in 1 .. n : i < j => c[o[i]].dist <= c[o[j]].dist
    /\ \A i \in DOMAIN c : Passing(c[i]) /\ InstanceOf(s, c[i].id) # Nothing =>
           \E k \in 1 .. n : o[k] = i

LEMMA ResolvesInOrder ==
    ASSUME NEW c \in Seq([id : Nat, dist : Int, status : Nat]), NEW s, NEW d,
           filter \in {Nothing, 2},
           NEW r, r = ResolveClashes([clash |-> c, instance |-> s, document |-> d])
    PROVE  \E n \in Nat : \E o \in [1 .. n -> DOMAIN c] : Reported(r, c, s, d, o, n)
  <1> DEFINE t == [clash |-> c, instance |-> s, document |-> d]
             kept == {i \in DOMAIN t.clash :
                         /\ onlyStatus # Nothing => t.clash[i].status = onlyStatus
                         /\ filter # Nothing => Distance(t.clash[i].dist) >= filter
                         /\ InstanceOf(t.instance, t.clash[i].id) # Nothing}
             Deeper(i, j) == t.clash[i].dist < t.clash[j].dist
                                 \/ (t.clash[i].dist = t.clash[j].dist /\ i < j)
             R == {p \in kept \X kept : Deeper(p[1], p[2])}
             order == InOrder(kept, R)
             Side(i) == LET inst == InstanceOf(t.instance, t.clash[i].id)
                        IN [id |-> t.clash[i].id, dist |-> t.clash[i].dist, status |-> t.clash[i].status,
                            left |-> Document(t.document, inst.left),
                            right |-> Document(t.document, inst.right)]
             all == [k \in DOMAIN order |-> Side(order[k])]
             n == Cardinality(kept)
  <1>1. r = SubSeq(all, 1, IF Len(all) < MaxResults THEN Len(all) ELSE MaxResults)
    BY DEF ResolveClashes
  <1>2. /\ DOMAIN c = 1 .. Len(c) /\ Len(c) \in Nat
        /\ \A i \in DOMAIN c : c[i].dist \in Int
    <2>1. DOMAIN c = 1 .. Len(c) /\ Len(c) \in Nat /\ c \in [1 .. Len(c) -> [id : Nat, dist : Int, status : Nat]]
      BY LenProperties
    <2> QED
      BY <2>1
  <1>3. \A i \in DOMAIN c : i \in kept <=> Passing(c[i]) /\ InstanceOf(s, c[i].id) # Nothing
    BY <1>2 DEF Passing, Distance
  <1>4. kept \subseteq DOMAIN c
    OBVIOUS
  <1>5. IsFiniteSet(kept)
    <2> HIDE DEF kept
    <2>1. IsFiniteSet(DOMAIN c)
      BY <1>2, FS_Interval
    <2> QED
      BY <1>4, <2>1, FS_Subset
  <1> DEFINE Above(x, y) == c[x].dist < c[y].dist \/ (c[x].dist = c[y].dist /\ x < y)
  <1>6. \A x, y \in kept : <<x, y>> \in R <=> Above(x, y)
    OBVIOUS
  <1>7. \A i \in DOMAIN order : all[i] = [id |-> c[order[i]].id, dist |-> c[order[i]].dist,
                                   status |-> c[order[i]].status,
                                   left |-> Document(d, InstanceOf(s, c[order[i]].id).left),
                                   right |-> Document(d, InstanceOf(s, c[order[i]].id).right)]
    OBVIOUS
  <1>8. DOMAIN all = DOMAIN order
    OBVIOUS
  <1> HIDE DEF R, kept, all, t
  <1>9. /\ \A x, y \in kept : x # y => <<x, y>> \in R \/ <<y, x>> \in R
        /\ \A x, y, z \in kept : <<x, y>> \in R /\ <<y, z>> \in R => <<x, z>> \in R
    <2>1. \A x \in kept : x \in Int /\ c[x].dist \in Int
      BY <1>2, <1>4
    <2>2. ASSUME NEW x \in kept, NEW y \in kept, x # y PROVE <<x, y>> \in R \/ <<y, x>> \in R
      <3>1. x \in Int /\ y \in Int /\ c[x].dist \in Int /\ c[y].dist \in Int
        BY <2>1
      <3>2. Above(x, y) \/ Above(y, x)
        BY <2>2, <3>1
      <3> HIDE DEF Above
      <3> QED
        BY <1>6, <3>2
    <2>3. ASSUME NEW x \in kept, NEW y \in kept, NEW z \in kept, <<x, y>> \in R, <<y, z>> \in R
          PROVE  <<x, z>> \in R
      <3>1. /\ x \in Int /\ y \in Int /\ z \in Int
            /\ c[x].dist \in Int /\ c[y].dist \in Int /\ c[z].dist \in Int
        BY <2>1
      <3>2. Above(x, y) /\ Above(y, z)
        <4> HIDE DEF Above
        <4> QED
          BY <1>6, <2>3
      <3>3. Above(x, z)
        <4> DEFINE u == c[x].dist
                   v == c[y].dist
                   w == c[z].dist
        <4>1. u \in Int /\ v \in Int /\ w \in Int
          BY <3>1
        <4>2. (u < v \/ (u = v /\ x < y)) /\ (v < w \/ (v = w /\ y < z))
          BY <3>2
        <4>3. u < w \/ (u = w /\ x < z)
          <5> HIDE DEF u, v, w
          <5> QED
            BY <3>1, <4>1, <4>2
        <4> QED
          BY <4>3
      <3> HIDE DEF Above
      <3> QED
        BY <1>6, <3>3
    <2> QED
      BY <2>2, <2>3
  <1>10. /\ n \in Nat /\ order \in [1 .. n -> kept]
         /\ \A i, j \in 1 .. n : i < j => <<order[i], order[j]>> \in R
         /\ \A x \in kept : \E i \in 1 .. n : order[i] = x
    <2>1. order = InOrder(kept, R) /\ n = Cardinality(kept)
      OBVIOUS
    <2> HIDE DEF order, n
    <2> QED
      BY <1>5, <1>9, <2>1, InOrderFacts
  <1> HIDE DEF order, n
  <1>11. order \in [1 .. n -> DOMAIN c]
    BY <1>4, <1>10
  <1>12. Len(all) = n
    BY <1>8, <1>10, LengthOf
  <1> DEFINE m == IF n < MaxResults THEN n ELSE MaxResults
  <1>13. m \in Nat /\ m <= n /\ 1 .. m \subseteq 1 .. n
    BY <1>10, ClashAssumption
  <1>14. r = SubSeq(all, 1, m)
    BY <1>1, <1>12
  <1> HIDE DEF m
  <1>15. Len(r) = m /\ DOMAIN r = 1 .. Len(r) /\ \A k \in 1 .. m : r[k] = all[k]
    <2> DEFINE X == {all[k] : k \in 1 .. m}
    <2>1. \A k \in 1 .. m : all[k] \in X
      OBVIOUS
    <2> HIDE DEF X
    <2>2. /\ r \in Seq(X) /\ Len(r) = IF 1 <= m THEN m - 1 + 1 ELSE 0
          /\ \A k \in 1 .. m - 1 + 1 : r[k] = all[1 + k - 1]
      <3>1. PICK a \in Int : a = 1
        OBVIOUS
      <3>2. m \in Int /\ \A k \in a .. m : all[k] \in X
        BY <1>13, <2>1, <3>1
      <3> HIDE DEF all
      <3>3. /\ SubSeq(all, a, m) \in Seq(X) /\ Len(SubSeq(all, a, m)) = IF a <= m THEN m - a + 1 ELSE 0
            /\ \A k \in 1 .. m - a + 1 : SubSeq(all, a, m)[k] = all[a + k - 1]
        BY <3>1, <3>2, SubSeqProperties
      <3> QED
        BY <1>14, <3>1, <3>3
    <2>3. Len(r) = m
      BY <1>13, <2>2
    <2>4. DOMAIN r = 1 .. Len(r)
      BY <2>2, LenProperties
    <2>5. \A k \in 1 .. m : k \in 1 .. m - 1 + 1 /\ 1 + k - 1 = k
      BY <1>13
    <2> QED
      BY <2>2, <2>3, <2>4, <2>5
  <1>16. Len(r) = IF n < MaxResults THEN n ELSE MaxResults
    BY <1>15 DEF m
  <1>17. \A k \in DOMAIN r : r[k] = [id |-> c[order[k]].id, dist |-> c[order[k]].dist,
                                   status |-> c[order[k]].status,
                                   left |-> Document(d, InstanceOf(s, c[order[k]].id).left),
                                   right |-> Document(d, InstanceOf(s, c[order[k]].id).right)]
    BY <1>7, <1>10, <1>13, <1>15
  <1>18. \A k \in 1 .. n : Passing(c[order[k]]) /\ InstanceOf(s, c[order[k]].id) # Nothing
    BY <1>3, <1>4, <1>10
  <1>19. \A i, j \in 1 .. n : i < j => c[order[i]].dist <= c[order[j]].dist
    <2> SUFFICES ASSUME NEW i \in 1 .. n, NEW j \in 1 .. n, i < j
                 PROVE  c[order[i]].dist <= c[order[j]].dist
      OBVIOUS
    <2>1. order[i] \in kept /\ order[j] \in kept /\ <<order[i], order[j]>> \in R
      BY <1>10
    <2>2. c[order[i]].dist \in Int /\ c[order[j]].dist \in Int
      BY <1>2, <1>4, <2>1
    <2> QED
      <3>1. Above(order[i], order[j])
        <4> HIDE DEF Above
        <4> QED
          BY <1>6, <2>1
      <3> DEFINE u == c[order[i]].dist
                 v == c[order[j]].dist
      <3>2. u \in Int /\ v \in Int
        BY <2>2
      <3>3. u < v \/ u = v
        BY <3>1
      <3>4. u <= v
        <4> HIDE DEF u, v
        <4> QED
          BY <3>2, <3>3
      <3> QED
        BY <3>4
  <1>20. \A i \in DOMAIN c : Passing(c[i]) /\ InstanceOf(s, c[i].id) # Nothing =>
            \E k \in 1 .. n : order[k] = i
    BY <1>3, <1>10
  <1>21. Reported(r, c, s, d, order, n)
    BY <1>15, <1>16, <1>17, <1>18, <1>19, <1>20 DEF Reported
  <1> QED
    BY <1>10, <1>11, <1>21

\* The table of a file is the file, if it was received.
Received == [clash |-> IF "clash" \in got THEN truth.clash ELSE <<>>,
             instance |-> IF "clash-instance" \in got THEN truth.instance ELSE <<>>,
             document |-> IF "document" \in got THEN truth.document ELSE {}]

ClashFiled ==
    /\ filter \in {Nothing, 2}
    /\ clashPc \in {"idle", "version", "tests", "resources"} => tables = NoTables /\ got = {}
    /\ clashPc \in {"download", "done"} =>
           /\ truth \in [clash : ClashTables, instance : InstanceTables, document : DocumentTables]
           /\ tables = Received
    /\ clashPc = "download" => pending \in Seq(Resources)

BestTest == "Success" \in ToSet(tests) => tests[test] = "Success"

ClashIInv == ClashTypeOK /\ ClashFiled /\ BestTest /\ ClashExact

LEMMA ClashStarts == ClashInit => ClashIInv
  BY ClashAssumption
     DEF ClashInit, ClashIInv, ClashTypeOK, ClashFiled, BestTest, ClashExact, ToSet, Resources

\* Steps that are not the last: nothing is claimed of the answer yet.
LEMMA NotReported == clashPc # "done" => ClashExact
  BY DEF ClashExact

LEMMA ListClashTestsKeeps == ClashIInv /\ ListClashTests => ClashIInv'
  <1> SUFFICES ASSUME ClashIInv, ListClashTests PROVE ClashIInv'
    OBVIOUS
  <1> USE DEF ListClashTests
  <1>1. ClashTypeOK' /\ ClashFiled'
    BY DEF ClashIInv, ClashTypeOK, ClashFiled
  <1>2. BestTest'
    <2> DEFINE good == {i \in DOMAIN tests' : tests'[i] = "Success"}
    <2>1. SUFFICES ASSUME "Success" \in ToSet(tests') PROVE tests'[test'] = "Success"
      BY DEF BestTest
    <2>2. PICK n \in 0 .. 2 : tests' \in [1 .. n -> {"Success", "Running"}]
      OBVIOUS
    <2>3. good # {} /\ good \in SUBSET (1 .. n)
      BY <2>1, <2>2 DEF ToSet
    <2>4. \E i \in good : \A j \in good : i <= j
      BY <2>3, LeastPosition
    <2>5. test' = CHOOSE i \in good : \A j \in good : i <= j
      BY <2>3
    <2>6. test' \in good
      BY <2>4, <2>5
    <2> QED
      BY <2>6
  <1>3. ClashExact'
    BY DEF ClashExact
  <1> QED
    BY <1>1, <1>2, <1>3 DEF ClashIInv

LEMMA GetResourcesKeeps == ClashIInv /\ GetResources => ClashIInv'
  <1> SUFFICES ASSUME ClashIInv, GetResources PROVE ClashIInv'
    OBVIOUS
  <1> USE DEF GetResources
  <1>1. ClashTypeOK' /\ BestTest'
    BY DEF ClashIInv, ClashTypeOK, BestTest
  <1>2. pending' \in Seq(Resources)
    <2>1. PICK rs \in SUBSET Resources : pending' \in SetToSeqs(rs)
      OBVIOUS
    <2>2. IsFiniteSet(Resources)
      <3>1. IsFiniteSet({}) /\ {"clash"} = {} \cup {"clash"}
        BY FS_EmptySet
      <3>2. IsFiniteSet({"clash"})
        BY <3>1, FS_AddElement
      <3>3. IsFiniteSet({"clash"} \cup {"clash-instance"})
        BY <3>2, FS_AddElement
      <3>4. IsFiniteSet({"clash"} \cup {"clash-instance"} \cup {"document"})
        BY <3>3, FS_AddElement
      <3>5. Resources = {"clash"} \cup {"clash-instance"} \cup {"document"}
        BY DEF Resources
      <3> QED
        BY <3>4, <3>5
    <2>3. Cardinality(rs) \in Nat
      BY <2>2, FS_Subset, FS_CardinalityType
    <2>4. pending' \in [1 .. Cardinality(rs) -> rs]
      BY <2>1 DEF SetToSeqs
    <2>5. pending' \in [1 .. Cardinality(rs) -> Resources]
      BY <2>4
    <2> QED
      BY <2>3, <2>5, SeqDef
  <1>3. truth' \in [clash : ClashTables, instance : InstanceTables, document : DocumentTables]
    OBVIOUS
  <1>4. ClashFiled'
    BY <1>2, <1>3 DEF ClashIInv, ClashFiled, NoTables, Received
  <1>5. ClashExact'
    BY DEF ClashExact
  <1> QED
    BY <1>1, <1>4, <1>5 DEF ClashIInv

LEMMA DownloadedKeeps == ClashIInv /\ Downloaded => ClashIInv'
  <1> SUFFICES ASSUME ClashIInv, Downloaded PROVE ClashIInv'
    OBVIOUS
  <1> USE DEF Downloaded
  <1>1. pending \in Seq(Resources) /\ pending # <<>> /\ tables = Received
    BY DEF ClashIInv, ClashFiled
  <1>2. pending[1] \in Resources /\ Tail(pending) \in Seq(Resources)
    BY <1>1, HeadTailProperties
  <1>3. ClashTypeOK' /\ BestTest'
    BY <1>2 DEF ClashIInv, ClashTypeOK, BestTest
  <1>4. tables' = Received'
    <2>1. CASE pending[1] = "clash"
      BY <1>1, <2>1 DEF Filed, Received
    <2>2. CASE pending[1] = "clash-instance"
      BY <1>1, <2>2 DEF Filed, Received
    <2>3. CASE pending[1] = "document"
      BY <1>1, <2>3 DEF Filed, Received
    <2> QED
      BY <1>2, <2>1, <2>2, <2>3 DEF Resources
  <1>5. ClashFiled'
    BY <1>2, <1>4 DEF ClashIInv, ClashFiled
  <1>6. ClashExact'
    BY DEF ClashExact
  <1> QED
    BY <1>3, <1>5, <1>6 DEF ClashIInv

LEMMA AnswerClashesKeeps == ClashIInv /\ AnswerClashes => ClashIInv'
  <1> SUFFICES ASSUME ClashIInv, AnswerClashes PROVE ClashIInv'
    OBVIOUS
  <1>1. UNCHANGED <<latest, tests, filter, onlyStatus, version, test, pending, truth, tables, got>>
    BY DEF AnswerClashes
  <1>2. ClashTypeOK' /\ BestTest' /\ ClashFiled'
    BY <1>1 DEF ClashIInv, ClashTypeOK, BestTest, ClashFiled, AnswerClashes, Received
  <1> DEFINE c == IF "clash" \in got THEN truth.clash ELSE <<>>
             s == IF "clash-instance" \in got THEN truth.instance ELSE <<>>
             d == IF "document" \in got THEN truth.document ELSE {}
             X == ToSet(truth.instance) \ {Nothing}
             r == clashes'
  <1>3. /\ truth.clash \in Seq([id : Nat, dist : Int, status : Nat])
        /\ truth.instance \in Seq(X)
        /\ filter \in {Nothing, 2}
        /\ tables = [clash |-> c, instance |-> s, document |-> d]
        /\ BestTest
    BY ClashAssumption DEF ClashIInv, ClashFiled, AnswerClashes, Received
  <1>4. c \in Seq([id : Nat, dist : Int, status : Nat]) /\ s \in Seq(X) /\ Nothing \notin X
    BY <1>3
  <1>5. r = ResolveClashes([clash |-> c, instance |-> s, document |-> d])
    BY <1>3 DEF AnswerClashes
  <1>6. \A i \in DOMAIN c : c[i] = truth.clash[i] /\ c[i] \in ToSet(truth.clash)
    BY <1>3 DEF ToSet
  <1>7. \A id : InstanceOf(s, id) # Nothing =>
            /\ \E i \in ToSet(truth.instance) : i.cid = id
            /\ \E k \in DOMAIN truth.instance :
                   FirstWith(truth.instance, id, k) /\ InstanceOf(s, id) = truth.instance[k]
    <2>1. CASE "clash-instance" \in got
      BY <1>4, <2>1, InstanceOfFacts
    <2>2. CASE "clash-instance" \notin got
      BY <2>2 DEF InstanceOf
    <2> QED
      BY <2>1, <2>2
  <1>8. ASSUME "clash-instance" \in got, NEW i \in ToSet(truth.instance)
        PROVE  InstanceOf(s, i.cid) # Nothing
    BY <1>4, <1>8, InstanceOfFacts
  <1> DEFINE Known(x) == IF "document" \in got /\ x \in truth.document THEN x ELSE Nothing
  <1>9. \A x : Document(d, x) = Known(x)
    BY DEF Document
  <1>10. "clash" \in got => c = truth.clash
    OBVIOUS
  <1> HIDE DEF c, s, d, r, X
  <1>11. PICK n \in Nat : \E o \in [1 .. n -> DOMAIN c] : Reported(r, c, s, d, o, n)
    BY <1>3, <1>4, <1>5, ResolvesInOrder
  <1>12. PICK o \in [1 .. n -> DOMAIN c] : Reported(r, c, s, d, o, n)
    BY <1>11
  <1>13. /\ Len(r) = (IF n < MaxResults THEN n ELSE MaxResults)
         /\ DOMAIN r = 1 .. Len(r) /\ DOMAIN r \subseteq 1 .. n /\ Len(r) \in Nat
    BY <1>12, ClashAssumption DEF Reported
  <1> DEFINE Has(x) == \E i \in ToSet(truth.instance) : i.cid = x.id
             all == {x \in ToSet(truth.clash) : Passing(x) /\ Has(x)}
             cut == {x \in all : ~\E y \in ToSet(r) : y.id = x.id}
  <1>14. \A k \in DOMAIN r : r[k] = [id |-> c[o[k]].id, dist |-> c[o[k]].dist,
                                  status |-> c[o[k]].status,
                                  left |-> Document(d, InstanceOf(s, c[o[k]].id).left),
                                  right |-> Document(d, InstanceOf(s, c[o[k]].id).right)]
    BY <1>12 DEF Reported
  <1>15. \A k \in 1 .. n : /\ o[k] \in DOMAIN c
                           /\ Passing(c[o[k]]) /\ InstanceOf(s, c[o[k]].id) # Nothing
    BY <1>12 DEF Reported
  <1>16. \A k \in 1 .. n : c[o[k]] \in all
    BY <1>6, <1>7, <1>15
  <1>17. \A i, j \in 1 .. n : i < j => c[o[i]].dist <= c[o[j]].dist
    BY <1>12 DEF Reported
  <1>18. ASSUME NEW y \in ToSet(r)
         PROVE  \E x \in all, e \in DOMAIN truth.instance :
                    /\ x.id = y.id /\ x.dist = y.dist /\ x.status = y.status
                    /\ FirstWith(truth.instance, x.id, e)
                    /\ y.left = Known(truth.instance[e].left)
                    /\ y.right = Known(truth.instance[e].right)
    <2>1. PICK k \in DOMAIN r : y = r[k]
      BY DEF ToSet
    <2>2. k \in 1 .. n
      BY <1>13
    <2> DEFINE x == c[o[k]]
    <2>3. x \in all
      BY <1>16, <2>2
    <2>4. PICK e \in DOMAIN truth.instance :
              FirstWith(truth.instance, x.id, e) /\ InstanceOf(s, x.id) = truth.instance[e]
      BY <1>7, <1>15, <2>2
    <2>5. y = [id |-> x.id, dist |-> x.dist, status |-> x.status,
               left |-> Document(d, InstanceOf(s, x.id).left),
               right |-> Document(d, InstanceOf(s, x.id).right)]
      BY <1>14, <2>1
    <2> HIDE DEF all, x, Known
    <2>6. /\ y.id = x.id /\ y.dist = x.dist /\ y.status = x.status
          /\ y.left = Known(truth.instance[e].left)
          /\ y.right = Known(truth.instance[e].right)
      BY <1>9, <2>4, <2>5
    <2> QED
      BY <2>3, <2>4, <2>6
  <1>19. \A i, j \in DOMAIN r : i < j => r[i].dist <= r[j].dist
    <2> SUFFICES ASSUME NEW i \in DOMAIN r, NEW j \in DOMAIN r, i < j PROVE r[i].dist <= r[j].dist
      OBVIOUS
    <2>1. r[i].dist = c[o[i]].dist /\ r[j].dist = c[o[j]].dist
      BY <1>14
    <2> QED
      BY <1>13, <1>17, <2>1
  <1>20. ASSUME {"clash", "clash-instance"} \subseteq got
         PROVE  /\ Len(r) <= MaxResults
                /\ cut # {} => Len(r) = MaxResults
                /\ \A x \in cut, y \in ToSet(r) : y.dist <= x.dist
    <2>1. Len(r) <= MaxResults
      BY <1>13, ClashAssumption
    <2>2. ASSUME NEW x \in cut PROVE Len(r) = MaxResults /\ \A y \in ToSet(r) : y.dist <= x.dist
      <3>1. PICK i \in DOMAIN c : x = c[i]
        BY <1>10, <1>20 DEF ToSet
      <3>2. Passing(x) /\ InstanceOf(s, x.id) # Nothing
        <4>1. PICK e \in ToSet(truth.instance) : e.cid = x.id
          OBVIOUS
        <4> QED
          BY <1>8, <1>20, <4>1
      <3>3. PICK k \in 1 .. n : o[k] = i
        BY <1>12, <3>1, <3>2 DEF Reported
      <3>4. k \notin DOMAIN r
        <4>1. ASSUME k \in DOMAIN r PROVE FALSE
          <5>1. r[k].id = x.id /\ r[k] \in ToSet(r)
            BY <1>14, <3>1, <3>3, <4>1 DEF ToSet
          <5> QED
            BY <5>1
        <4> QED
          BY <4>1
      <3>5. Len(r) = MaxResults /\ \A q \in DOMAIN r : q < k /\ q \in 1 .. n
        BY <1>13, <3>4, ClashAssumption
      <3>6. ASSUME NEW y \in ToSet(r) PROVE y.dist <= x.dist
        <4>1. PICK q \in DOMAIN r : y = r[q]
          BY DEF ToSet
        <4>2. c[o[q]].dist <= c[o[k]].dist
          BY <1>17, <3>5
        <4> QED
          BY <1>14, <3>1, <3>3, <4>1, <4>2
      <3> QED
        BY <3>5, <3>6
    <2> QED
      BY <2>1, <2>2
  <1>21. filter' = filter /\ onlyStatus' = onlyStatus /\ tests' = tests /\ test' = test /\ truth' = truth /\ got' = got
    BY <1>1
  <1> HIDE DEF all, cut, Known
  <1>22. ClashExact'
    <2> DEFINE K(x) == IF "document" \in got' /\ x \in truth'.document THEN x ELSE Nothing
               A == {x \in ToSet(truth'.clash) :
                        /\ onlyStatus' \in {Nothing, x.status}
                        /\ filter' = Nothing \/ x.dist >= filter' \/ x.dist <= -filter'
                        /\ \E i \in ToSet(truth'.instance) : i.cid = x.id}
               C == {x \in A : ~\E y \in ToSet(clashes') : y.id = x.id}
    <2>1. A = all
      BY <1>21 DEF all, Passing
    <2>2. C = cut
      <3> HIDE DEF A
      <3> QED
        BY <2>1 DEF cut, r
    <2>3. \A x : K(x) = Known(x)
      BY <1>21 DEF Known
    <2> HIDE DEF A, C, K
    <2>4. \A y \in ToSet(clashes') : \E x \in A, e \in DOMAIN truth'.instance :
              /\ x.id = y.id /\ x.dist = y.dist /\ x.status = y.status
              /\ truth'.instance[e].cid = x.id
              /\ \A k \in 1 .. e - 1 : truth'.instance[k].cid # x.id
              /\ y.left = K(truth'.instance[e].left)
              /\ y.right = K(truth'.instance[e].right)
      BY <1>18, <1>21, <2>1, <2>3 DEF FirstWith, r
    <2>5. \A i, j \in DOMAIN clashes' : i < j => clashes'[i].dist <= clashes'[j].dist
      BY <1>19 DEF r
    <2>6. {"clash", "clash-instance"} \subseteq got' =>
              /\ Len(clashes') <= MaxResults
              /\ C # {} => Len(clashes') = MaxResults
              /\ \A x \in C, y \in ToSet(clashes') : y.dist <= x.dist
      BY <1>20, <1>21, <2>2 DEF r
    <2>7. "Success" \in ToSet(tests') => tests'[test'] = "Success"
      BY <1>3, <1>21 DEF BestTest
    <2> QED
      BY <2>4, <2>5, <2>6, <2>7 DEF ClashExact, A, C, K
  <1> QED
    BY <1>2, <1>22 DEF ClashIInv

LEMMA ClashSteps == ClashIInv /\ [ClashNext]_clashVars => ClashIInv'
  <1> SUFFICES ASSUME ClashIInv, [ClashNext]_clashVars PROVE ClashIInv'
    OBVIOUS
  <1> USE DEF ClashIInv, ClashTypeOK, ClashFiled, BestTest
  <1>1. CASE NewVersion
    <2>1. ClashExact'
      BY <1>1 DEF NewVersion, ClashExact
    <2>2. BestTest' /\ ClashTypeOK'
      BY <1>1, ClashAssumption DEF NewVersion
    <2>3. Received' = Received
      BY <1>1 DEF NewVersion, Received
    <2>4. ClashFiled'
      BY <1>1, <2>3 DEF NewVersion
    <2> QED
      BY <2>1, <2>2, <2>4
  <1>2. CASE ListClashes
    BY <1>2, ClashAssumption DEF ListClashes, ClashExact
  <1>3. CASE GetLatestModelSetVersion
    BY <1>3, ClashAssumption DEF GetLatestModelSetVersion, ClashExact
  <1>4. CASE NotOk
    <2>1. Tail(pending) \in Seq(Resources)
      BY <1>4, HeadTailProperties DEF NotOk
    <2> QED
      BY <1>4, <2>1 DEF NotOk, ClashExact, Received
  <1>5. CASE ClashThrew
    BY <1>5 DEF ClashThrew, ClashExact
  <1>6. CASE UNCHANGED clashVars
    <2>1. ClashExact'
      <3> HIDE DEF ClashTypeOK, ClashFiled, BestTest
      <3>1. /\ clashPc' = clashPc /\ filter' = filter /\ onlyStatus' = onlyStatus /\ tests' = tests /\ test' = test
            /\ truth' = truth /\ got' = got /\ clashes' = clashes
        BY <1>6 DEF clashVars
      <3> QED
        BY <3>1 DEF ClashExact
    <2>2. BestTest' /\ ClashTypeOK'
      BY <1>6 DEF clashVars
    <2>3. ClashFiled'
      BY <1>6 DEF clashVars, Received
    <2> QED
      BY <2>1, <2>2, <2>3
  <1> QED
    BY <1>1, <1>2, <1>3, <1>4, <1>5, <1>6, ListClashTestsKeeps, GetResourcesKeeps,
       DownloadedKeeps, AnswerClashesKeeps DEF ClashNext

\* Whatever order the files come in and whichever are missing, the clashes reported are clashes
\* of the test with the documents of their first instance, the deepest first, as many as
\* max_results allows (getClashResults and resolveClashes, src/apis/model-coordination.ts).
THEOREM ClashesExact == ClashSpec => []ClashExact
  <1>1. ClashIInv => ClashExact
    BY DEF ClashIInv
  <1> QED
    BY <1>1, ClashStarts, ClashSteps, PTL DEF ClashSpec

-----------------------------------------------------------------------------
(***************************************************************************)
(* Downloads line by line: the reader stands after m rows, what it holds   *)
(* over begins where row m + 1 does, and the stream goes on where the      *)
(* bytes read end.  So the lines of a chunk are whole rows, in order.      *)
(***************************************************************************)
LEMMA SubSeqOf ==
    ASSUME NEW n \in Nat, NEW s, s = [i \in 1 .. n |-> s[i]],
           NEW a \in Nat \ {0}, NEW b \in Nat, b <= n
    PROVE  SubSeq(s, a, b) = [i \in 1 .. b - a + 1 |-> s[a + i - 1]]
  <1> DEFINE X == {s[i] : i \in 1 .. n}
             t == SubSeq(s, a, b)
  <1>1. \A i \in a .. b : s[i] \in X
    OBVIOUS
  <1> HIDE DEF X
  <1>2. /\ t \in Seq(X)
        /\ Len(t) = IF a <= b THEN b - a + 1 ELSE 0
        /\ \A i \in 1 .. b - a + 1 : t[i] = s[a + i - 1]
    <2>1. a \in Int /\ b \in Int
      OBVIOUS
    <2> QED
      BY <1>1, <2>1, SubSeqProperties, SMTT(30)
  <1> HIDE DEF t
  <1>3. t = [i \in 1 .. Len(t) |-> t[i]] /\ Len(t) \in Nat
    BY <1>2, LenProperties
  <1>4. 1 .. Len(t) = 1 .. b - a + 1
    BY <1>2
  <1>5. t = [i \in 1 .. b - a + 1 |-> s[a + i - 1]]
    BY <1>2, <1>3, <1>4
  <1> QED
    BY <1>5 DEF t

LEMMA TailOf ==
    ASSUME NEW n \in Nat, NEW s, s = [i \in 1 .. n |-> s[i]], NEW a \in Nat \ {0}
    PROVE  SubSeq(s, a, n) = [i \in 1 .. n - a + 1 |-> s[a + i - 1]]
  <1>1. n <= n
    OBVIOUS
  <1> QED
    BY <1>1, SubSeqOf

LEMMA ConcatOf ==
    ASSUME NEW n \in Nat, NEW s, s = [i \in 1 .. n |-> s[i]],
           NEW m \in Nat, NEW t, t = [i \in 1 .. m |-> t[i]]
    PROVE  s \o t = [i \in 1 .. n + m |-> IF i <= n THEN s[i] ELSE t[i - n]]
  <1> DEFINE X == {s[i] : i \in 1 .. n} \cup {t[i] : i \in 1 .. m}
             u == s \o t
  <1>1. s \in [1 .. n -> X] /\ t \in [1 .. m -> X]
    OBVIOUS
  <1> HIDE DEF X
  <1>2. s \in Seq(X) /\ t \in Seq(X)
    BY <1>1, SeqDef
  <1>3. Len(s) = n /\ Len(t) = m
    BY LengthOf
  <1>4. /\ u \in Seq(X) /\ Len(u) = n + m
        /\ \A i \in 1 .. n + m : u[i] = IF i <= n THEN s[i] ELSE t[i - n]
    BY <1>2, <1>3, ConcatProperties
  <1> HIDE DEF u
  <1>5. u = [i \in 1 .. n + m |-> u[i]]
    BY <1>4, LenProperties
  <1>6. u = [i \in 1 .. n + m |-> IF i <= n THEN s[i] ELSE t[i - n]]
    BY <1>4, <1>5
  <1> QED
    BY <1>6 DEF u

\* A finite set of numbers in order.
IsOrderOf(o, c, S) ==
    /\ c \in Nat /\ o \in [1 .. c -> S]
    /\ \A i, j \in 1 .. c : i < j => o[i] < o[j]
    /\ \A x \in S : \E i \in 1 .. c : o[i] = x

LEMMA NumbersInOrder ==
    ASSUME NEW S, \A x \in S : x \in Int, IsFiniteSet(S)
    PROVE  IsOrderOf(InOrder(S, Ascending(S)), Cardinality(S), S)
  <1> DEFINE o == InOrder(S, Ascending(S))
             c == Cardinality(S)
  <1> DEFINE R == Ascending(S)
  <1>1. \A x, y \in S : <<x, y>> \in R <=> x < y
    BY DEF Ascending
  <1>2. ASSUME NEW x \in S, NEW y \in S, x # y PROVE <<x, y>> \in R \/ <<y, x>> \in R
    <2>1. x < y \/ y < x
      BY <1>2
    <2> QED
      BY <1>1, <2>1
  <1>3. ASSUME NEW x \in S, NEW y \in S, NEW z \in S, <<x, y>> \in R, <<y, z>> \in R
        PROVE  <<x, z>> \in R
    <2>1. x < y /\ y < z
      BY <1>1, <1>3
    <2>2. x < z
      BY <2>1
    <2> QED
      BY <1>1, <2>2
  <1>4. /\ c \in Nat /\ o \in [1 .. c -> S]
        /\ \A i, j \in 1 .. c : i < j => <<o[i], o[j]>> \in R
        /\ \A x \in S : \E i \in 1 .. c : o[i] = x
    <2>1. o = InOrder(S, R) /\ c = Cardinality(S)
      OBVIOUS
    <2>2. \A x, y \in S : x # y => <<x, y>> \in R \/ <<y, x>> \in R
      BY <1>2
    <2>3. \A x, y, z \in S : <<x, y>> \in R /\ <<y, z>> \in R => <<x, z>> \in R
      BY <1>3
    <2> HIDE DEF R, o, c
    <2> QED
      BY <2>1, <2>2, <2>3, InOrderFacts
  <1> HIDE DEF R, o, c
  <1>5. IsOrderOf(o, c, S)
    BY <1>1, <1>4 DEF IsOrderOf
  <1> QED
    BY <1>5 DEF o, c

\* There is one order.
LEMMA OneOrder ==
    ASSUME NEW S, \A x \in S : x \in Int, NEW n, NEW o, IsOrderOf(o, n, S),
           NEW m, NEW g, IsOrderOf(g, m, S)
    PROVE  o = g
  <1> USE DEF IsOrderOf
  <1>1. n = m
    <2>1. ASSUME NEW a \in Nat, NEW f \in [1 .. a -> S], \A i, j \in 1 .. a : i < j => f[i] < f[j],
                 \A x \in S : \E i \in 1 .. a : f[i] = x
          PROVE  IsFiniteSet(S) /\ Cardinality(S) = a
      <3>1. \A i, j \in 1 .. a : f[i] = f[j] => i = j
        <4> SUFFICES ASSUME NEW i \in 1 .. a, NEW j \in 1 .. a, i # j PROVE f[i] # f[j]
          OBVIOUS
        <4>1. f[i] \in S /\ f[j] \in S
          OBVIOUS
        <4>2. f[i] \in Int /\ f[j] \in Int
          BY <4>1
        <4>3. CASE i < j
          BY <2>1, <4>2, <4>3
        <4>4. CASE j < i
          BY <2>1, <4>2, <4>4
        <4> QED
          BY <4>3, <4>4
      <3>2. f \in Bijection(1 .. a, S)
        BY <2>1, <3>1 DEF Bijection, Injection, IsInjective, Surjection
      <3>3. IsFiniteSet(1 .. a) /\ Cardinality(1 .. a) = a
        BY FS_Interval
      <3>4. ExistsBijection(1 .. a, S)
        BY <3>2 DEF ExistsBijection
      <3> QED
        BY <3>3, <3>4, FS_Bijection
    <2> QED
      BY <2>1
  <1> DEFINE wrong == {k \in 1 .. n : o[k] # g[k]}
  <1>2. o \in [1 .. n -> S] /\ g \in [1 .. n -> S]
    BY <1>1
  <1>3. wrong = {}
    <2>1. SUFFICES ASSUME wrong # {} PROVE FALSE
      OBVIOUS
    <2>2. PICK k \in wrong : \A j \in wrong : k <= j
      <3>1. wrong \in SUBSET (1 .. n) /\ n \in Nat
        OBVIOUS
      <3> HIDE DEF wrong
      <3> QED
        BY <2>1, <3>1, LeastPosition
    <2>3. k \in 1 .. n /\ o[k] # g[k]
      OBVIOUS
    <2>4. \A j \in 1 .. n : j < k => o[j] = g[j]
      BY <2>2, <2>3
    <2>5. PICK a \in 1 .. n : o[k] = g[a]
      BY <1>1, <1>2, <2>3
    <2>6. PICK b \in 1 .. n : g[k] = o[b]
      BY <1>2, <2>3
    <2> HIDE DEF wrong
    <2>7. o[k] \in Int /\ g[k] \in Int
      BY <1>2, <2>3
    <2>8. ASSUME a < k PROVE FALSE
      <3>1. o[a] = o[k] /\ o[a] < o[k]
        BY <2>3, <2>4, <2>5, <2>8
      <3> QED
        BY <2>7, <3>1
    <2>9. ASSUME b < k PROVE FALSE
      <3>1. g[b] = g[k] /\ g[b] < g[k]
        BY <1>1, <2>3, <2>4, <2>6, <2>9
      <3> QED
        BY <2>7, <3>1
    <2>10. a > k /\ b > k
      <3>1. a # k /\ b # k
        BY <2>3, <2>5, <2>6
      <3>2. a \in Int /\ b \in Int /\ k \in Int
        BY <2>3
      <3> QED
        BY <2>8, <2>9, <3>1, <3>2
    <2>11. g[k] < o[k] /\ o[k] < g[k]
      BY <1>1, <2>3, <2>5, <2>6, <2>10
    <2> QED
      BY <2>7, <2>11
  <1>4. g = [k \in 1 .. n |-> g[k]] /\ o = [k \in 1 .. n |-> o[k]]
    BY <1>2
  <1>5. \A k \in 1 .. n : o[k] = g[k]
    BY <1>3
  <1> QED
    BY <1>4, <1>5

\* Numbers that are already in order stay as they are.
LEMMA AlreadyInOrder ==
    ASSUME NEW S, \A x \in S : x \in Int, IsFiniteSet(S), NEW n, NEW g, IsOrderOf(g, n, S)
    PROVE  InOrder(S, Ascending(S)) = g
  BY NumbersInOrder, OneOrder

\* The byte at a place of a file, with a line end before its first row or without.
ByteAt(f, off, i) ==
    IF i <= off THEN EOL
    ELSE CASE (i - off) % 3 = 1 -> Opening(f[(i - off + 2) \div 3])
           [] (i - off) % 3 = 2 -> Closing(f[(i - off + 1) \div 3])
           [] OTHER -> EOL

LEMMA BytesOfRow ==
    ASSUME NEW off \in {0, 1}, NEW k \in Nat \ {0}
    PROVE  /\ ByteAt(file, off, off + 3 * (k - 1) + 1) = Opening(file[k])
           /\ ByteAt(file, off, off + 3 * (k - 1) + 2) = Closing(file[k])
           /\ ByteAt(file, off, off + 3 * (k - 1) + 3) = EOL
  <1>1. ASSUME NEW t \in 1 .. 3
        PROVE  /\ off + 3 * (k - 1) + t > off
               /\ off + 3 * (k - 1) + t - off = 3 * (k - 1) + t
    OBVIOUS
  <1>2. /\ (3 * (k - 1) + 1) % 3 = 1 /\ (3 * (k - 1) + 1 + 2) \div 3 = k
        /\ (3 * (k - 1) + 2) % 3 = 2 /\ (3 * (k - 1) + 2 + 1) \div 3 = k
        /\ (3 * (k - 1) + 3) % 3 = 0
    OBVIOUS
  <1>3. ByteAt(file, off, off + 3 * (k - 1) + 1) = Opening(file[k])
    BY <1>1, <1>2 DEF ByteAt
  <1>4. ByteAt(file, off, off + 3 * (k - 1) + 2) = Closing(file[k])
    BY <1>1, <1>2 DEF ByteAt
  <1>5. ByteAt(file, off, off + 3 * (k - 1) + 3) = EOL
    BY <1>1, <1>2 DEF ByteAt
  <1> QED
    BY <1>3, <1>4, <1>5

\* A place in a line: of which line, and where in it.
LEMMA PlaceInLine ==
    ASSUME NEW j \in Nat \ {0}
    PROVE  \E k \in Nat \ {0} : \E t \in 1 .. 3 : j = 3 * (k - 1) + t
  <1> DEFINE k == (j + 2) \div 3
             t == j - 3 * (k - 1)
  <1>1. k \in Nat \ {0} /\ t \in 1 .. 3 /\ j = 3 * (k - 1) + t
    OBVIOUS
  <1> QED
    BY <1>1

\* The pieces of a text whose line ends stand at g[1], g[2] and so on.
Pieces(text, N, g, n) ==
    [lines |-> [k \in 1 .. n |-> SubSeq(text, IF k = 1 THEN 1 ELSE g[k - 1] + 1, g[k] - 1)],
     carry |-> SubSeq(text, IF n = 0 THEN 1 ELSE g[n] + 1, N)]

LEMMA PlacesFinite ==
    ASSUME NEW N \in Nat, NEW S, S \subseteq 1 .. N
    PROVE  IsFiniteSet(S)
  <1>1. IsFiniteSet(1 .. N)
    BY FS_Interval
  <1>2. S \in SUBSET (1 .. N)
    OBVIOUS
  <1> DEFINE I == 1 .. N
  <1> HIDE DEF I
  <1>3. IsFiniteSet(I) => \A X \in SUBSET I : IsFiniteSet(X)
    BY FS_Subset
  <1> QED
    BY <1>1, <1>2, <1>3 DEF I

\* The places of the line ends in a text.
EndsOf(text, N) == {i \in 1 .. N : text[i] = EOL}

LEMMA SplitPieces ==
    ASSUME NEW N \in Nat, NEW text, text = [i \in 1 .. N |-> text[i]], NEW n, NEW g,
           IsOrderOf(g, n, EndsOf(text, N))
    PROVE  SplitAtEnds(text) = Pieces(text, N, g, n)
  <1> DEFINE marks == EndsOf(text, N)
             ends == InOrder(marks, Ascending(marks))
             Start(k) == IF k = 1 THEN 1 ELSE ends[k - 1] + 1
  <1>1. DOMAIN text = 1 .. N
    OBVIOUS
  <1>2. Len(text) = N
    BY LengthOf
  <1>3. marks \in SUBSET (1 .. N)
    BY DEF EndsOf
  <1>4. marks = {i \in DOMAIN text : text[i] = EOL}
    BY <1>1 DEF EndsOf
  <1> HIDE DEF marks
  <1>5. ends = g
    <2>1. \A x \in marks : x \in Int
      BY <1>3
    <2>2. marks \subseteq 1 .. N
      BY <1>3
    <2>3. IsFiniteSet(marks)
      BY <2>2, PlacesFinite
    <2>4. IsOrderOf(g, n, marks)
      BY DEF marks
    <2> QED
      BY <2>1, <2>3, <2>4, AlreadyInOrder
  <1>6. n \in Nat /\ DOMAIN g = 1 .. n /\ Len(g) = n
    <2>1. n \in Nat /\ g = [k \in 1 .. n |-> g[k]]
      BY DEF IsOrderOf, marks
    <2> QED
      BY <2>1, LengthOf
  <1>7. SplitAtEnds(text) =
          [lines |-> [k \in DOMAIN ends |-> SubSeq(text, Start(k), ends[k] - 1)],
           carry |-> SubSeq(text, Start(Len(ends) + 1), Len(text))]
    BY <1>4, Zenon DEF SplitAtEnds
  <1> HIDE DEF ends
  <1>8. SplitAtEnds(text) =
          [lines |-> [k \in 1 .. n |-> SubSeq(text, IF k = 1 THEN 1 ELSE g[k - 1] + 1, g[k] - 1)],
           carry |-> SubSeq(text, IF n + 1 = 1 THEN 1 ELSE g[n + 1 - 1] + 1, N)]
    <2>1. SplitAtEnds(text) =
            [lines |-> [k \in DOMAIN g |-> SubSeq(text, IF k = 1 THEN 1 ELSE g[k - 1] + 1, g[k] - 1)],
             carry |-> SubSeq(text, IF Len(g) + 1 = 1 THEN 1 ELSE g[Len(g) + 1 - 1] + 1, Len(text))]
      BY <1>5, <1>7
    <2> QED
      BY <1>2, <1>6, <2>1
  <1>9. (IF n + 1 = 1 THEN 1 ELSE g[n + 1 - 1] + 1) = (IF n = 0 THEN 1 ELSE g[n] + 1)
    <2>1. n + 1 - 1 = n /\ (n + 1 = 1 <=> n = 0)
      BY <1>6
    <2> QED
      BY <2>1
  <1> QED
    BY <1>8, <1>9, Zenon DEF Pieces

LEMMA RowIsNoEnd ==
    ASSUME NEW r
    PROVE  Opening(r) # EOL /\ Closing(r) # EOL
  BY DEF Opening, Closing, EOL

\* Two bytes of a text.
LEMMA TwoBytes ==
    ASSUME NEW N \in Nat, NEW text, text = [i \in 1 .. N |-> text[i]],
           NEW a \in Nat \ {0}, a + 1 <= N
    PROVE  SubSeq(text, a, a + 1) = <<text[a], text[a + 1]>>
  <1>1. SubSeq(text, a, a + 1) = [i \in 1 .. (a + 1) - a + 1 |-> text[a + i - 1]]
    BY SubSeqOf
  <1>2. (a + 1) - a + 1 = 2 /\ a + 1 - 1 = a /\ a + 2 - 1 = a + 1
    OBVIOUS
  <1>3. SubSeq(text, a, a + 1) = [i \in 1 .. 2 |-> text[a + i - 1]]
    BY <1>1, <1>2
  <1>4. [i \in 1 .. 2 |-> text[a + i - 1]] = <<text[a + 1 - 1], text[a + 2 - 1]>>
    OBVIOUS
  <1> QED
    BY <1>2, <1>3, <1>4

\* Where the k-th line of such a text ends.
EndAt(z, k) == z + 3 * (k - z)

\* The next n bytes of a file after the first p.
BytesFrom(f, off, p, n) == [i \in 1 .. n |-> ByteAt(f, off, p + i)]

\* q rows of the file after the first m, each in a line, after a blank line if z = 1.
LinesOf(m, q, z) ==
    [k \in 1 .. q + z |->
        IF k <= z THEN <<>> ELSE <<Opening(file[m + k - z]), Closing(file[m + k - z])>>]

\* N bytes from the start of a line on, m rows before them, hold q lines, after a blank one if z = 1.
CutAt(off, z, s, m, q, N) ==
    /\ s + z = off + 3 * m
    /\ z = 1 => off = 1 /\ s = 0
    /\ z + 3 * q <= N /\ N <= z + 3 * q + 2

SplitsInto(off, z, s, m, q, N) ==
    SplitAtEnds(BytesFrom(file, off, s, N)) =
        [lines |-> LinesOf(m, q, z),
         carry |-> BytesFrom(file, off, s + z + 3 * q, N - (z + 3 * q))]

LEMMA Splits ==
    ASSUME NEW off \in {0, 1}, NEW z \in {0, 1}, NEW s \in Nat, NEW m \in Nat, NEW q \in Nat,
           NEW N \in Nat, CutAt(off, z, s, m, q, N)
    PROVE  SplitsInto(off, z, s, m, q, N)
  <1> DEFINE text == BytesFrom(file, off, s, N)
  <1>0. /\ s + z = off + 3 * m /\ (z = 1 => off = 1 /\ s = 0)
        /\ z + 3 * q <= N /\ N <= z + 3 * q + 2
    BY DEF CutAt
  <1> USE <1>0
  <1> DEFINE marks == {i \in 1 .. N : text[i] = EOL}
             g == [k \in 1 .. q + z |-> EndAt(z, k)]
  <1>1. /\ DOMAIN text = 1 .. N /\ \A i \in 1 .. N : text[i] = ByteAt(file, off, s + i)
        /\ text = [i \in 1 .. N |-> text[i]]
    BY DEF BytesFrom
  <1> HIDE DEF text
  <1>2. ASSUME NEW i \in 1 .. N, i <= z PROVE text[i] = EOL
    BY <1>1, <1>2 DEF ByteAt
  <1>3. ASSUME NEW k \in Nat \ {0}
        PROVE  /\ z + 3 * (k - 1) + 1 <= N => text[z + 3 * (k - 1) + 1] = Opening(file[m + k])
               /\ z + 3 * (k - 1) + 2 <= N => text[z + 3 * (k - 1) + 2] = Closing(file[m + k])
               /\ z + 3 * (k - 1) + 3 <= N => text[z + 3 * (k - 1) + 3] = EOL
    <2> DEFINE j == m + k
    <2>1. j \in Nat \ {0} /\ off + 3 * (j - 1) = s + z + 3 * (k - 1)
      OBVIOUS
    <2> HIDE DEF j
    <2>2. /\ ByteAt(file, off, off + 3 * (j - 1) + 1) = Opening(file[j])
          /\ ByteAt(file, off, off + 3 * (j - 1) + 2) = Closing(file[j])
          /\ ByteAt(file, off, off + 3 * (j - 1) + 3) = EOL
      BY <2>1, BytesOfRow
    <2>3. ASSUME NEW t \in 1 .. 3, z + 3 * (k - 1) + t <= N
          PROVE  text[z + 3 * (k - 1) + t] = ByteAt(file, off, off + 3 * (j - 1) + t)
      <3>1. z + 3 * (k - 1) + t \in 1 .. N
        BY <2>3
      <3>2. s + (z + 3 * (k - 1) + t) = off + 3 * (j - 1) + t
        BY <2>1
      <3> QED
        BY <1>1, <3>1, <3>2
    <2> QED
      BY <2>2, <2>3 DEF j
  <1>4. IsOrderOf(g, q + z, marks)
    <2>1. ASSUME NEW k \in 1 .. q + z PROVE g[k] \in marks
      <3>1. CASE k <= z
        <4>1. g[k] = k /\ k \in 1 .. N
          BY <3>1 DEF EndAt
        <4> QED
          BY <1>1, <1>2, <3>1, <4>1
      <3>2. CASE k > z
        <4> DEFINE j == k - z
        <4>1. j \in Nat \ {0} /\ g[k] = z + 3 * (j - 1) + 3 /\ g[k] \in 1 .. N
          BY <3>2 DEF EndAt
        <4> HIDE DEF j, g
        <4>2. z + 3 * (j - 1) + 3 <= N
          BY <4>1
        <4>3. text[z + 3 * (j - 1) + 3] = EOL
          BY <1>3, <4>1, <4>2
        <4> QED
          BY <1>1, <4>1, <4>3
      <3> QED
        BY <3>1, <3>2
    <2>2. ASSUME NEW i \in 1 .. q + z, NEW j \in 1 .. q + z, i < j PROVE g[i] < g[j]
      BY <2>2 DEF EndAt
    <2>3. ASSUME NEW i \in marks PROVE \E k \in 1 .. q + z : g[k] = i
      <3>1. i \in 1 .. N /\ text[i] = EOL
        BY <1>1
      <3>2. CASE i <= z
        <4>1. z = 1 /\ i = 1 /\ g[1] = 1 /\ 1 \in 1 .. q + z
          BY <3>1, <3>2 DEF EndAt
        <4> QED
          BY <4>1
      <3>3. CASE i > z
        <4>0. i - z \in Nat \ {0}
          BY <3>1, <3>3
        <4>1. PICK k \in Nat \ {0} : \E t \in 1 .. 3 : i - z = 3 * (k - 1) + t
          BY <4>0, PlaceInLine
        <4>2. PICK t \in 1 .. 3 : i - z = 3 * (k - 1) + t
          BY <4>1
        <4>3. i = z + 3 * (k - 1) + t /\ i <= N
          BY <3>1, <4>2
        <4>4. t # 1
          <5> SUFFICES ASSUME t = 1 PROVE FALSE
            OBVIOUS
          <5>1. i = z + 3 * (k - 1) + 1 /\ z + 3 * (k - 1) + 1 <= N
            BY <4>3
          <5>2. text[z + 3 * (k - 1) + 1] = Opening(file[m + k])
            BY <1>3, <5>1
          <5> QED
            BY <3>1, <5>1, <5>2, RowIsNoEnd
        <4>5. t # 2
          <5> SUFFICES ASSUME t = 2 PROVE FALSE
            OBVIOUS
          <5>1. i = z + 3 * (k - 1) + 2 /\ z + 3 * (k - 1) + 2 <= N
            BY <4>3
          <5>2. text[z + 3 * (k - 1) + 2] = Closing(file[m + k])
            BY <1>3, <5>1
          <5> QED
            BY <3>1, <5>1, <5>2, RowIsNoEnd
        <4>6. t = 3
          BY <4>4, <4>5
        <4>7. k + z \in 1 .. q + z /\ g[k + z] = i
          BY <4>3, <4>6 DEF EndAt
        <4> QED
          BY <4>7
      <3> QED
        BY <3>1, <3>2, <3>3
    <2>4. g = [k \in 1 .. q + z |-> g[k]] /\ q + z \in Nat
      OBVIOUS
    <2> HIDE DEF g, marks
    <2>5. g \in [1 .. q + z -> marks]
      BY <2>1, <2>4
    <2> QED
      BY <2>2, <2>3, <2>4, <2>5 DEF IsOrderOf
  <1>5. text = [i \in 1 .. N |-> text[i]]
    BY <1>1
  <1>6. SplitAtEnds(text) = Pieces(text, N, g, q + z)
    <2> DEFINE n == q + z
    <2>1. IsOrderOf(g, n, EndsOf(text, N))
      BY <1>4 DEF EndsOf
    <2> HIDE DEF g, marks, n
    <2>3. SplitAtEnds(text) = Pieces(text, N, g, n)
      BY <1>5, <2>1, SplitPieces
    <2> QED
      BY <2>3 DEF n
  <1>7. \A k \in 1 .. q + z : g[k] = EndAt(z, k)
    OBVIOUS
  <1> HIDE DEF g, marks
  <1> DEFINE line(k) == SubSeq(text, IF k = 1 THEN 1 ELSE g[k - 1] + 1, g[k] - 1)
             row(k) == <<Opening(file[m + k - z]), Closing(file[m + k - z])>>
  <1>8. ASSUME NEW k \in 1 .. q + z
        PROVE  line(k) = IF k <= z THEN <<>> ELSE row(k)
    <2>1. CASE k <= z
      <3>1. k = 1 /\ g[k] - 1 = 0
        BY <1>7, <2>1 DEF EndAt
      <3>2. line(k) = SubSeq(text, 1, 0)
        BY <3>1
      <3>3. SubSeq(text, 1, 0) = [i \in 1 .. 0 - 1 + 1 |-> text[1 + i - 1]]
        BY <1>5, SubSeqOf
      <3>4. 1 .. 0 - 1 + 1 = {}
        OBVIOUS
      <3>5. SubSeq(text, 1, 0) = <<>>
        BY <3>3, <3>4
      <3> QED
        BY <2>1, <3>2, <3>5
    <2>2. CASE k > z
      <3> DEFINE j == k - z
                 a == z + 3 * (j - 1) + 1
      <3>1. j \in Nat \ {0} /\ a \in Nat \ {0} /\ a + 1 <= N /\ a + 1 = z + 3 * (j - 1) + 2
        BY <2>2
      <3>2. g[k] - 1 = a + 1
        BY <1>7, <2>2 DEF EndAt
      <3>3. (IF k = 1 THEN 1 ELSE g[k - 1] + 1) = a
        <4>1. CASE k = 1
          BY <2>2, <4>1
        <4>2. CASE k # 1
          <5>1. k - 1 \in 1 .. q + z
            BY <4>2
          <5>2. g[k - 1] = EndAt(z, k - 1)
            BY <1>7, <5>1
          <5>3. EndAt(z, k - 1) + 1 = a
            BY DEF EndAt
          <5> QED
            BY <4>2, <5>2, <5>3
        <4> QED
          BY <4>1, <4>2
      <3>4. m + k - z = m + j
        OBVIOUS
      <3>5. text[a] = Opening(file[m + j]) /\ text[a + 1] = Closing(file[m + j])
        <4>1. z + 3 * (j - 1) + 1 <= N /\ z + 3 * (j - 1) + 2 <= N
          BY <3>1
        <4>2. a = z + 3 * (j - 1) + 1
          OBVIOUS
        <4> HIDE DEF a, j
        <4> QED
          BY <1>3, <3>1, <4>1, <4>2
      <3>6. line(k) = SubSeq(text, a, a + 1)
        <4> HIDE DEF a, j
        <4> QED
          BY <3>2, <3>3
      <3>7. row(k) = <<Opening(file[m + j]), Closing(file[m + j])>>
        BY <3>4
      <3> HIDE DEF a, j, line, row
      <3>8. SubSeq(text, a, a + 1) = <<text[a], text[a + 1]>>
        BY <1>5, <3>1, TwoBytes
      <3>9. line(k) = row(k)
        BY <3>5, <3>6, <3>7, <3>8, Zenon
      <3>10. ~(k <= z)
        BY <2>2
      <3> QED
        BY <3>9, <3>10, Zenon
    <2> HIDE DEF line, row
    <2> QED
      BY <2>1, <2>2
  <1> DEFINE b == z + 3 * q + 1
             tail == SubSeq(text, IF q + z = 0 THEN 1 ELSE g[q + z] + 1, N)
  <1>9. tail = [i \in 1 .. N - (z + 3 * q) |-> ByteAt(file, off, s + z + 3 * q + i)]
    <2>1. (IF q + z = 0 THEN 1 ELSE g[q + z] + 1) = b
      <3>1. CASE q + z = 0
        BY <3>1
      <3>2. CASE q + z # 0
        <4>1. q + z \in 1 .. q + z
          BY <3>2
        <4>2. g[q + z] = EndAt(z, q + z)
          BY <1>7, <4>1
        <4>3. EndAt(z, q + z) + 1 = b
          BY DEF EndAt
        <4> QED
          BY <3>2, <4>2, <4>3
      <3> QED
        BY <3>1, <3>2
    <2>2. b \in Nat \ {0} /\ N - b + 1 = N - (z + 3 * q)
      OBVIOUS
    <2>3. ASSUME NEW i \in 1 .. N - (z + 3 * q)
          PROVE  text[b + i - 1] = ByteAt(file, off, s + z + 3 * q + i)
      <3>1. b + i - 1 \in 1 .. N /\ s + (b + i - 1) = s + z + 3 * q + i
        BY <2>3
      <3> HIDE DEF b
      <3> QED
        BY <1>1, <3>1
    <2> HIDE DEF b
    <2>4. SubSeq(text, b, N) = [i \in 1 .. N - b + 1 |-> text[b + i - 1]]
      BY <1>5, <2>2, TailOf, SMTT(30)
    <2> QED
      BY <2>1, <2>2, <2>3, <2>4
  <1>10. Pieces(text, N, g, q + z) = [lines |-> [k \in 1 .. q + z |-> line(k)], carry |-> tail]
    BY Zenon DEF Pieces
  <1> HIDE DEF line, tail, row
  <1>11. [k \in 1 .. q + z |-> line(k)] = [k \in 1 .. q + z |-> IF k <= z THEN <<>> ELSE row(k)]
    BY <1>8, Zenon
  <1> QED
    BY <1>6, <1>9, <1>10, <1>11, Zenon DEF row, text, LinesOf, BytesFrom, SplitsInto

\* The first n rows of the file.
First(n) == [i \in 1 .. n |-> file[i]]

\* What the cap leaves of n rows.
Capped(n) == IF maxLines = NoCap \/ n <= maxLines THEN n ELSE maxLines

LEMMA FirstFacts ==
    ASSUME NEW n \in Nat
    PROVE  Len(First(n)) = n /\ Append(First(n), file[n + 1]) = First(n + 1)
  <1> DEFINE X == {file[i] : i \in 1 .. n + 1}
             s == First(n)
             t == Append(s, file[n + 1])
  <1>1. s = [i \in 1 .. n |-> s[i]] /\ \A i \in 1 .. n : s[i] = file[i]
    BY DEF First
  <1>2. file[n + 1] \in X /\ \A i \in 1 .. n : s[i] \in X
    BY <1>1
  <1> HIDE DEF s
  <1>3. Len(s) = n
    BY <1>1, LengthOf
  <1> HIDE DEF X
  <1>4. s \in Seq(X)
    <2>1. s \in [1 .. n -> X]
      BY <1>1, <1>2
    <2> QED
      BY <2>1, SeqDef
  <1>5. /\ t \in Seq(X) /\ Len(t) = n + 1
        /\ \A i \in 1 .. n : t[i] = s[i]
        /\ t[n + 1] = file[n + 1]
    BY <1>2, <1>3, <1>4, AppendProperties
  <1> HIDE DEF t
  <1>6. t = [i \in 1 .. n + 1 |-> t[i]]
    BY <1>5, LenProperties
  <1>7. \A i \in 1 .. n + 1 : t[i] = file[i]
    BY <1>1, <1>5
  <1>8. t = First(n + 1)
    BY <1>6, <1>7 DEF First
  <1> QED
    BY <1>3, <1>8 DEF s, t

LEMMA CappedFacts ==
    ASSUME maxLines = NoCap \/ maxLines \in Nat, NEW n \in Nat
    PROVE  /\ Capped(n) \in Nat /\ Capped(n) <= n
           /\ Full(First(Capped(n))) => Capped(n + 1) = Capped(n)
           /\ ~Full(First(Capped(n))) => Capped(n) = n /\ Capped(n + 1) = n + 1
           /\ Full(First(Capped(n))) => Capped(n) = maxLines
  <1>1. Capped(n) \in Nat /\ Capped(n) <= n
    BY DEF Capped
  <1>2. Len(First(Capped(n))) = Capped(n)
    BY <1>1, FirstFacts
  <1>3. Full(First(Capped(n))) <=> maxLines # NoCap /\ Capped(n) >= maxLines
    BY <1>2, Zenon DEF Full
  <1>4. CASE maxLines = NoCap
    BY <1>1, <1>3, <1>4 DEF Capped
  <1>5. CASE maxLines # NoCap
    <2>1. maxLines \in Nat
      BY <1>5
    <2> QED
      BY <1>1, <1>3, <1>5, <2>1 DEF Capped
  <1> QED
    BY <1>4, <1>5

\* The loop over complete lines: the rows of the file one after the other, up to the cap.
LEMMA ParsesRows ==
    ASSUME NEW z \in {0, 1}, NEW m \in Nat, NEW q \in Nat,
           maxLines = NoCap \/ maxLines \in Nat, rows = First(m), Capped(m) = m
    PROVE  Parsed(LinesOf(m, q, z)) = First(Capped(m + q))
  <1> DEFINE lines == LinesOf(m, q, z)
  <1> DEFINE n == q + z
             past(k) == m + (IF k <= z THEN 0 ELSE k - z)
             w == [k \in 0 .. n |-> First(Capped(past(k)))]
             next(f, k) == IF k = 0 THEN rows
                           ELSE IF Full(f[k - 1]) \/ lines[k] = <<>> THEN f[k - 1]
                           ELSE Append(f[k - 1], lines[k][1][1])
  <1>1. Len(lines) = n /\ n \in Nat
    <2>1. lines = [k \in 1 .. n |-> lines[k]] /\ n \in Nat
      BY DEF LinesOf
    <2> HIDE DEF n, lines
    <2> QED
      BY <2>1, LengthOf
  <1>2. ASSUME NEW k \in 1 .. n
        PROVE  /\ k <= z => lines[k] = <<>>
               /\ k > z => lines[k] # <<>> /\ lines[k][1][1] = file[m + k - z]
    <2>1. CASE k <= z
      BY <2>1 DEF LinesOf
    <2>2. CASE k > z
      <3>1. lines[k] = <<Opening(file[m + k - z]), Closing(file[m + k - z])>>
        BY <2>2 DEF LinesOf
      <3> DEFINE r == file[m + k - z]
      <3> HIDE DEF r
      <3>2. <<Opening(r), Closing(r)>> # <<>> /\ <<Opening(r), Closing(r)>>[1][1] = r
        BY DEF Opening
      <3> QED
        BY <2>2, <3>1, <3>2 DEF r
    <2> QED
      BY <2>1, <2>2
  <1> HIDE DEF lines
  <1>3. ASSUME NEW f, NEW k \in 1 .. n, f[k - 1] = First(Capped(past(k - 1)))
        PROVE  next(f, k) = First(Capped(past(k)))
    <2>1. CASE k <= z
      <3>1. past(k - 1) = past(k) /\ k # 0
        BY <2>1
      <3>2. lines[k] = <<>>
        BY <1>2, <2>1
      <3>3. next(f, k) = f[k - 1]
        BY <3>1, <3>2
      <3> QED
        BY <1>3, <3>1, <3>3
    <2>2. CASE k > z
      <3> DEFINE j == past(k - 1)
      <3>1. j \in Nat /\ past(k) = j + 1 /\ m + k - z = j + 1 /\ k # 0
        BY <2>2
      <3>2. lines[k] # <<>> /\ lines[k][1][1] = file[j + 1]
        <4> HIDE DEF j
        <4> QED
          BY <1>2, <2>2, <3>1
      <3>3. f[k - 1] = First(Capped(j))
        BY <1>3
      <3> HIDE DEF j, past
      <3>4. next(f, k) = IF Full(f[k - 1]) THEN f[k - 1] ELSE Append(f[k - 1], file[j + 1])
        BY <3>1, <3>2
      <3> HIDE DEF next
      <3>5. CASE Full(First(Capped(j)))
        <4>1. Capped(j + 1) = Capped(j)
          BY <3>1, <3>5, CappedFacts
        <4> QED
          BY <3>1, <3>3, <3>4, <3>5, <4>1
      <3>6. CASE ~Full(First(Capped(j)))
        <4>1. Capped(j) = j /\ Capped(j + 1) = j + 1
          BY <3>1, <3>6, CappedFacts
        <4>2. Append(First(j), file[j + 1]) = First(j + 1)
          BY <3>1, FirstFacts
        <4> QED
          BY <3>1, <3>3, <3>4, <3>6, <4>1, <4>2
      <3> QED
        BY <3>5, <3>6
    <2> QED
      BY <2>1, <2>2
  <1>4. past(0) = m /\ past(n) = m + q
    OBVIOUS
  <1>5. w = [k \in 0 .. n |-> next(w, k)]
    <2>1. ASSUME NEW k \in 0 .. n PROVE First(Capped(past(k))) = next(w, k)
      <3>1. CASE k = 0
        BY <1>4, <3>1
      <3>2. CASE k # 0
        <4>1. k \in 1 .. n /\ k - 1 \in 0 .. n
          BY <1>1, <3>2
        <4>2. w[k - 1] = First(Capped(past(k - 1)))
          BY <4>1
        <4> HIDE DEF w, next, past
        <4> QED
          BY <1>3, <4>1, <4>2
      <3> QED
        BY <3>1, <3>2
    <2> HIDE DEF next, past
    <2> QED
      BY <2>1
  <1> DEFINE after == CHOOSE f : f = [k \in 0 .. n |-> next(f, k)]
  <1>6. Parsed(lines) = after[n]
    BY <1>1 DEF Parsed
  <1>7. after = [k \in 0 .. n |-> next(after, k)]
    <2> HIDE DEF next, w
    <2> QED
      BY <1>5
  <1> HIDE DEF after
  <1>8. \A k \in 0 .. n : after[k] = First(Capped(past(k)))
    <2>1. after[0] = First(Capped(past(0)))
      BY <1>1, <1>4, <1>7
    <2> DEFINE wrong == {k \in 1 .. n : after[k] # First(Capped(past(k)))}
    <2>2. ASSUME wrong # {} PROVE FALSE
      <3>1. wrong \in SUBSET (1 .. n)
        OBVIOUS
      <3>2. PICK k \in wrong : \A j \in wrong : k <= j
        <4> HIDE DEF wrong, n
        <4> QED
          BY <1>1, <2>2, <3>1, LeastPosition
      <3>3. k \in 1 .. n /\ after[k] # First(Capped(past(k)))
        OBVIOUS
      <3> HIDE DEF past, next
      <3>4. after[k - 1] = First(Capped(past(k - 1)))
        <4>1. CASE k = 1
          BY <2>1, <4>1
        <4>2. CASE k # 1
          <5>1. k - 1 \in 1 .. n /\ k - 1 < k
            BY <3>3, <4>2
          <5>2. k - 1 \notin wrong
            BY <3>2, <5>1
          <5> QED
            BY <5>1, <5>2
        <4> QED
          BY <4>1, <4>2
      <3>5. after[k] = next(after, k)
        <4>1. k \in 0 .. n
          BY <3>3
        <4> QED
          BY <1>7, <4>1
      <3> QED
        BY <1>3, <3>3, <3>4, <3>5
    <2>3. ASSUME NEW k \in 0 .. n PROVE after[k] = First(Capped(past(k)))
      <3>1. CASE k = 0
        BY <2>1, <3>1
      <3>2. CASE k # 0
        <4>1. k \in 1 .. n
          BY <3>2
        <4> HIDE DEF past, n
        <4> QED
          BY <2>2, <4>1
      <3> QED
        BY <3>1, <3>2
    <2> QED
      BY <2>3
  <1> QED
    <2>1. n \in 0 .. n
      BY <1>1
    <2> HIDE DEF n, past
    <2> QED
      BY <1>4, <1>6, <1>8, <2>1 DEF lines

\* A file of n rows has L bytes: the line end after the last row may be missing.
Layout(n, off, L) == L = off + 3 * n \/ (off = 0 /\ n > 0 /\ L = 3 * n - 1)

LEMMA WrittenIs ==
    ASSUME NEW n \in Nat, NEW rs, rs = [i \in 1 .. n |-> rs[i]], NEW s \in Written(rs)
    PROVE  \E off \in {0, 1} : \E L \in Nat : Layout(n, off, L) /\ s = BytesFrom(rs, off, 0, L)
  <1> DEFINE N == 3 * n
             text == [i \in 1 .. N |->
                        CASE i % 3 = 1 -> Opening(rs[(i + 2) \div 3])
                          [] i % 3 = 2 -> Closing(rs[(i + 1) \div 3])
                          [] OTHER -> EOL]
  <1>1. Len(rs) = n
    BY LengthOf
  <1>2. s \in {text, <<EOL>> \o text, SubSeq(text, 1, Len(text) - 1)}
    BY <1>1 DEF Written
  <1>3. \A i \in 1 .. N : text[i] = ByteAt(rs, 0, i)
    <2>1. ASSUME NEW i \in 1 .. N PROVE text[i] = ByteAt(rs, 0, i)
      <3>1. i - 0 = i /\ ~(i <= 0) /\ i - 0 + 2 = i + 2 /\ i - 0 + 1 = i + 1
        OBVIOUS
      <3> QED
        BY <3>1 DEF ByteAt
    <2> QED
      BY <2>1
  <1>4. text = [i \in 1 .. N |-> text[i]] /\ N \in Nat
    OBVIOUS
  <1>5. CASE s = text
    <2>1. Layout(n, 0, N)
      BY DEF Layout
    <2>2. \A i \in 1 .. N : 0 + i = i
      OBVIOUS
    <2> HIDE DEF text, N
    <2>3. s = BytesFrom(rs, 0, 0, N)
      BY <1>3, <1>4, <1>5, <2>2 DEF BytesFrom
    <2> QED
      BY <1>4, <2>1, <2>3
  <1>6. CASE s = <<EOL>> \o text
    <2> HIDE DEF text
    <2>1. <<EOL>> = [i \in 1 .. 1 |-> <<EOL>>[i]] /\ <<EOL>>[1] = EOL
      OBVIOUS
    <2> DEFINE e == <<EOL>>
    <2>2. e = [i \in 1 .. 1 |-> e[i]] /\ e[1] = EOL
      BY <2>1
    <2> HIDE DEF e, N
    <2>3. e \o text = [i \in 1 .. 1 + N |-> IF i <= 1 THEN e[i] ELSE text[i - 1]]
      BY <1>4, <2>2, ConcatOf
    <2>4. ASSUME NEW i \in 1 .. 1 + N
          PROVE  (IF i <= 1 THEN e[i] ELSE text[i - 1]) = ByteAt(rs, 1, 0 + i)
      <3>1. CASE i <= 1
        <4>1. i = 1
          BY <3>1
        <4> QED
          BY <2>2, <4>1 DEF ByteAt
      <3>2. CASE ~(i <= 1)
        <4> DEFINE j == i - 1
        <4>1. j \in 1 .. N /\ ~(0 + i <= 1) /\ 0 + i - 1 = j
          BY <1>4, <3>2
        <4>2. j - 0 = j /\ ~(j <= 0)
          BY <4>1
        <4> HIDE DEF j
        <4>3. ByteAt(rs, 1, 0 + i) = ByteAt(rs, 0, j)
          BY <4>1, <4>2 DEF ByteAt
        <4> QED
          BY <1>3, <3>2, <4>1, <4>3 DEF j
      <3> QED
        BY <3>1, <3>2
    <2>5. s = BytesFrom(rs, 1, 0, 1 + N)
      BY <1>6, <2>3, <2>4 DEF BytesFrom, e
    <2>6. Layout(n, 1, 1 + N) /\ 1 + N \in Nat
      BY DEF Layout, N
    <2> QED
      BY <2>5, <2>6
  <1>7. CASE s = SubSeq(text, 1, Len(text) - 1)
    <2> HIDE DEF text
    <2>1. Len(text) = N
      <3> HIDE DEF N
      <3> QED
        BY <1>4, LengthOf
    <2>2. CASE n = 0
      <3>1. s = <<>>
        BY <1>7, <2>1, <2>2, SubSeqEmpty
      <3>2. BytesFrom(rs, 0, 0, 0) = <<>>
        BY DEF BytesFrom
      <3>3. Layout(n, 0, 0)
        BY <2>2 DEF Layout
      <3> QED
        BY <3>1, <3>2, <3>3
    <2>3. CASE n # 0
      <3> DEFINE b == N - 1
      <3>1. b \in Nat /\ b <= N /\ b - 1 + 1 = b /\ \A i \in 1 .. b : i \in 1 .. N /\ 1 + i - 1 = i /\ 0 + i = i
        BY <2>3
      <3>2. Layout(n, 0, b)
        BY <2>3 DEF Layout
      <3>3. s = SubSeq(text, 1, b)
        BY <1>7, <2>1
      <3> HIDE DEF b, N
      <3>4. SubSeq(text, 1, b) = [i \in 1 .. b - 1 + 1 |-> text[1 + i - 1]]
        BY <1>4, <3>1, SubSeqOf
      <3>5. s = BytesFrom(rs, 0, 0, b)
        BY <1>3, <3>1, <3>3, <3>4 DEF BytesFrom
      <3> QED
        BY <3>1, <3>2, <3>5
    <2> QED
      BY <2>2, <2>3
  <1> QED
    BY <1>2, <1>5, <1>6, <1>7

\* What is held over and a chunk of n bytes are bytes that follow one another; the rest follows.
Follow(off, p, h, R, n) ==
    /\ BytesFrom(file, off, p, h) \o SubSeq(BytesFrom(file, off, p + h, R), 1, n)
         = BytesFrom(file, off, p, h + n)
    /\ SubSeq(BytesFrom(file, off, p + h, R), n + 1, R) = BytesFrom(file, off, p + h + n, R - n)

LEMMA BytesFollow ==
    ASSUME NEW off \in {0, 1}, NEW p \in Nat, NEW h \in Nat, NEW R \in Nat, NEW n \in 1 .. R
    PROVE  Follow(off, p, h, R, n)
  <1> DEFINE s == BytesFrom(file, off, p, h)
             t == BytesFrom(file, off, p + h, R)
             c == SubSeq(t, 1, n)
             d == SubSeq(t, n + 1, R)
  <1>1. s = [i \in 1 .. h |-> s[i]] /\ \A i \in 1 .. h : s[i] = ByteAt(file, off, p + i)
    BY DEF BytesFrom
  <1>2. t = [i \in 1 .. R |-> t[i]] /\ \A i \in 1 .. R : t[i] = ByteAt(file, off, p + h + i)
    BY DEF BytesFrom
  <1> HIDE DEF s, t
  <1>3. c = [i \in 1 .. n |-> t[i]]
    <2>1. n \in Nat /\ n <= R /\ n - 1 + 1 = n /\ \A i \in 1 .. n : 1 + i - 1 = i
      OBVIOUS
    <2>2. SubSeq(t, 1, n) = [i \in 1 .. n - 1 + 1 |-> t[1 + i - 1]]
      BY <1>2, <2>1, SubSeqOf
    <2> QED
      BY <2>1, <2>2
  <1>4. d = [i \in 1 .. R - n |-> t[n + i]]
    <2> DEFINE a == n + 1
    <2>1. a \in Nat \ {0} /\ R - a + 1 = R - n /\ \A i \in 1 .. R - n : a + i - 1 = n + i
      OBVIOUS
    <2>2. d = SubSeq(t, a, R)
      OBVIOUS
    <2> HIDE DEF a, d
    <2>3. SubSeq(t, a, R) = [i \in 1 .. R - a + 1 |-> t[a + i - 1]]
      BY <1>2, <2>1, TailOf
    <2> QED
      BY <2>1, <2>2, <2>3
  <1> HIDE DEF c, d
  <1>5. s \o c = [i \in 1 .. h + n |-> IF i <= h THEN s[i] ELSE c[i - h]]
    <2>1. n \in Nat
      OBVIOUS
    <2>2. c = [i \in 1 .. n |-> c[i]]
      BY <1>3
    <2> QED
      BY <1>1, <2>1, <2>2, ConcatOf
  <1>6. ASSUME NEW i \in 1 .. h + n
        PROVE  (IF i <= h THEN s[i] ELSE c[i - h]) = ByteAt(file, off, p + i)
    <2>1. CASE i <= h
      BY <1>1, <2>1
    <2>2. CASE ~(i <= h)
      <3>1. i - h \in 1 .. n /\ i - h \in 1 .. R /\ p + h + (i - h) = p + i
        BY <2>2
      <3>2. c[i - h] = t[i - h]
        BY <1>3, <3>1
      <3>3. t[i - h] = ByteAt(file, off, p + h + (i - h))
        BY <1>2, <3>1
      <3> QED
        BY <2>2, <3>1, <3>2, <3>3
    <2> QED
      BY <2>1, <2>2
  <1>7. ASSUME NEW i \in 1 .. R - n PROVE t[n + i] = ByteAt(file, off, p + h + n + i)
    <2>1. n + i \in 1 .. R /\ p + h + (n + i) = p + h + n + i
      OBVIOUS
    <2> QED
      BY <1>2, <2>1
  <1>8. s \o c = BytesFrom(file, off, p, h + n)
    BY <1>5, <1>6 DEF BytesFrom
  <1>9. d = BytesFrom(file, off, p + h + n, R - n)
    BY <1>4, <1>7 DEF BytesFrom
  <1> QED
    BY <1>8, <1>9 DEF s, t, c, d, Follow

\* The file is a sequence of rows.
FileIsSeq == Len(file) \in Nat /\ file = [i \in 1 .. Len(file) |-> file[i]]

LEMMA FirstRows ==
    ASSUME FileIsSeq, NEW n \in Nat, n <= Len(file)
    PROVE  First(n) = SubSeq(file, 1, Len(First(n)))
  <1>1. Len(First(n)) = n
    BY FirstFacts
  <1> DEFINE N == Len(file)
  <1>2. N \in Nat /\ n <= N /\ file = [i \in 1 .. N |-> file[i]]
    BY DEF FileIsSeq
  <1> HIDE DEF N
  <1>3. n - 1 + 1 = n /\ \A i \in 1 .. n : 1 + i - 1 = i
    OBVIOUS
  <1>4. SubSeq(file, 1, n) = [i \in 1 .. n - 1 + 1 |-> file[1 + i - 1]]
    BY <1>2, SubSeqOf
  <1> QED
    BY <1>1, <1>3, <1>4 DEF First

\* A blank line parses, and so does a row.
LEMMA LinesParse == Parses(<<>>) /\ \A r : Parses(<<Opening(r), Closing(r)>>)
  <1>1. ASSUME NEW r PROVE Parses(<<Opening(r), Closing(r)>>)
    <2> DEFINE line == <<Opening(r), Closing(r)>>
    <2>1. line[1][1] = r
      BY DEF Opening
    <2> HIDE DEF line
    <2>2. r \in {line[1][1]} /\ line = <<Opening(r), Closing(r)>>
      BY <2>1 DEF line
    <2> QED
      BY <2>2 DEF Parses, line
  <1> QED
    BY <1>1 DEF Parses

\* The reader stands in a file of L bytes, m rows behind it; z = 1 before a blank first line.
Reading(off, z, m, L) ==
    LET p == off + 3 * m - z
    IN /\ z = 1 => off = 1 /\ m = 0 /\ bytesRead = 0
       /\ p <= bytesRead /\ bytesRead <= p + 2 /\ bytesRead <= L
       /\ carry = BytesFrom(file, off, p, bytesRead - p)
       /\ stream = BytesFrom(file, off, bytesRead, L - bytesRead)
       /\ rows = First(m) /\ ~Full(rows)

\* A download that ended well holds the first rows of the file, as many as the cap allows.
Holds(n) ==
    /\ n \in Nat /\ n <= Len(file) /\ rows = First(n)
    /\ maxLines = NoCap \/ n <= maxLines

NdjsonIInv ==
    /\ FileIsSeq
    /\ maxLines = NoCap \/ maxLines \in Nat
    /\ reader \in ReaderStates /\ bytesRead \in Nat
    /\ reader = "open" =>
           \E off \in {0, 1} : \E z \in {0, 1} : \E m \in Nat : \E L \in Nat :
               Layout(Len(file), off, L) /\ Reading(off, z, m, L)
    /\ reader \in {"released", "cancelled"} => \E n \in Nat : Holds(n)
    /\ DownloadExact

LEMMA NdjsonStarts == NdjsonInit => NdjsonIInv
  <1> SUFFICES ASSUME NdjsonInit PROVE NdjsonIInv
    OBVIOUS
  <1> USE DEF NdjsonInit
  <1>1. FileIsSeq
    BY DEF FileIsSeq
  <1>2. DownloadExact
    BY NdjsonAssumption DEF DownloadExact
  <1> QED
    BY <1>1, <1>2 DEF NdjsonIInv, ReaderStates

LEMMA Cut ==
    ASSUME NEW N \in Nat, N >= 1, NEW z \in {0, 1}
    PROVE  \E q \in Nat : z + 3 * q <= N /\ N <= z + 3 * q + 2
  <1>1. (N - z) \div 3 \in Nat /\ z + 3 * ((N - z) \div 3) <= N /\ N <= z + 3 * ((N - z) \div 3) + 2
    <2> DEFINE d == N - z
    <2>1. d \in Nat /\ N = d + z
      OBVIOUS
    <2> HIDE DEF d
    <2>2. d \div 3 \in Nat /\ 3 * (d \div 3) <= d /\ d <= 3 * (d \div 3) + 2
      BY <2>1
    <2>3. z + 3 * (d \div 3) <= N /\ N <= z + 3 * (d \div 3) + 2
      BY <2>1, <2>2
    <2> QED
      BY <2>2, <2>3 DEF d
  <1> QED
    BY <1>1

\* What the reader knows where it stands.
LEMMA WhereItStands ==
    ASSUME NdjsonIInv, NEW off \in {0, 1}, NEW z \in {0, 1}, NEW m \in Nat, NEW L \in Nat,
           Layout(Len(file), off, L), Reading(off, z, m, L)
    PROVE  /\ off + 3 * m - z \in Nat /\ Capped(m) = m /\ rows = First(m)
           /\ Capped(m + 1) = m + 1 /\ (maxLines = NoCap \/ m + 1 <= maxLines)
           /\ L <= off + 3 * Len(file) /\ L >= off + 3 * Len(file) - 1
  <1>1. maxLines = NoCap \/ maxLines \in Nat
    BY DEF NdjsonIInv
  <1>2. off + 3 * m - z \in Nat
    BY DEF Reading
  <1>3. rows = First(m) /\ ~Full(First(m))
    BY DEF Reading
  <1>4. Len(First(m)) = m
    BY FirstFacts
  <1>5. maxLines = NoCap \/ (maxLines \in Nat /\ m < maxLines)
    BY <1>1, <1>3, <1>4 DEF Full
  <1>6. Capped(m) = m /\ Capped(m + 1) = m + 1
    <2>1. CASE maxLines = NoCap
      BY <2>1 DEF Capped
    <2>2. CASE maxLines \in Nat /\ m < maxLines
      BY <2>2 DEF Capped
    <2> QED
      BY <1>5, <2>1, <2>2
  <1>7. Len(file) \in Nat
    BY DEF NdjsonIInv, FileIsSeq
  <1>8. L <= off + 3 * Len(file) /\ L >= off + 3 * Len(file) - 1
    BY <1>7 DEF Layout
  <1>9. maxLines = NoCap \/ m + 1 <= maxLines
    BY <1>5
  <1> QED
    BY <1>2, <1>3, <1>6, <1>8, <1>9

LEMMA ReadChunkKeeps == NdjsonIInv /\ ReadChunk => NdjsonIInv'
  <1> SUFFICES ASSUME NdjsonIInv, ReadChunk PROVE NdjsonIInv'
    OBVIOUS
  <1>0. /\ reader = "open" /\ UNCHANGED <<file, maxLines>>
        /\ bytesRead \in Nat /\ FileIsSeq /\ (maxLines = NoCap \/ maxLines \in Nat)
    BY DEF ReadChunk, NdjsonIInv
  <1>21. PICK off \in {0, 1} : \E z \in {0, 1} : \E m \in Nat : \E L \in Nat :
            Layout(Len(file), off, L) /\ Reading(off, z, m, L)
    BY <1>0 DEF NdjsonIInv
  <1>22. PICK z \in {0, 1} : \E m \in Nat : \E L \in Nat :
            Layout(Len(file), off, L) /\ Reading(off, z, m, L)
    BY <1>21
  <1>23. PICK m \in Nat : \E L \in Nat : Layout(Len(file), off, L) /\ Reading(off, z, m, L)
    BY <1>22
  <1>1. PICK L \in Nat : Layout(Len(file), off, L) /\ Reading(off, z, m, L)
    BY <1>23
  <1>2. /\ off + 3 * m - z \in Nat /\ Capped(m) = m /\ rows = First(m)
        /\ L <= off + 3 * Len(file) /\ Len(file) \in Nat
    BY <1>0, <1>1, WhereItStands DEF FileIsSeq
  <1>3. PICK p \in Nat : p = off + 3 * m - z
    BY <1>2
  <1>24. /\ bytesRead - p \in Nat /\ bytesRead - p <= 2 /\ L - bytesRead \in Nat
         /\ z = 1 => off = 1 /\ m = 0 /\ bytesRead = 0
         /\ carry = BytesFrom(file, off, p, bytesRead - p)
         /\ stream = BytesFrom(file, off, bytesRead, L - bytesRead)
    <2>1. bytesRead - p \in Nat /\ L - bytesRead \in Nat /\ bytesRead - p <= 2
      BY <1>0, <1>1, <1>3 DEF Reading
    <2>2. /\ z = 1 => off = 1 /\ m = 0 /\ bytesRead = 0
          /\ carry = BytesFrom(file, off, p, bytesRead - p)
          /\ stream = BytesFrom(file, off, bytesRead, L - bytesRead)
      BY <1>1, <1>3 DEF Reading
    <2> QED
      BY <2>1, <2>2
  <1>25. PICK h \in Nat : h = bytesRead - p
    BY <1>24
  <1>26. PICK R \in Nat : R = L - bytesRead
    BY <1>24
  <1>4. /\ h = bytesRead - p /\ R = L - bytesRead /\ h <= 2
        /\ z = 1 => off = 1 /\ m = 0 /\ bytesRead = 0
        /\ carry = BytesFrom(file, off, p, h) /\ stream = BytesFrom(file, off, bytesRead, R)
    BY <1>24, <1>25, <1>26
  <1>5. Len(stream) = R
    <2>1. stream = [i \in 1 .. R |-> stream[i]]
      BY <1>4 DEF BytesFrom
    <2> QED
      BY <2>1, LengthOf
  <1>9. PICK n \in 1 .. R :
           /\ stream' = SubSeq(stream, n + 1, R)
           /\ bytesRead' = bytesRead + n
           /\ IF bytesRead' > MaxBytes
              THEN reader' = "failed" /\ UNCHANGED <<rows, carry>>
              ELSE LET split == SplitNdjsonLines(carry, SubSeq(stream, 1, n))
                       next == Parsed(split.lines)
                   IN /\ carry' = split.carry
                      /\ IF \A k \in DOMAIN split.lines : Parses(split.lines[k])
                         THEN /\ rows' = next
                              /\ reader' = IF Full(next) THEN "cancelled" ELSE "open"
                         ELSE reader' = "failed" /\ UNCHANGED rows
    BY <1>5, Zenon DEF ReadChunk
  <1>10. PICK N \in Nat : /\ N = h + n /\ N >= 1 /\ p + z = off + 3 * m
                          /\ p + N = bytesRead + n /\ p + h = bytesRead /\ bytesRead + R = L
    <2>1. h + n \in Nat /\ h + n >= 1
      OBVIOUS
    <2>2. p + z = off + 3 * m /\ p + (h + n) = bytesRead + n /\ p + h = bytesRead /\ bytesRead + R = L
      BY <1>0, <1>3, <1>4
    <2> QED
      BY <2>1, <2>2
  <1>11. bytesRead' = bytesRead + n
    BY <1>9
  <1>12. /\ off \in {0, 1} /\ z \in {0, 1} /\ m \in Nat /\ p \in Nat /\ h \in Nat /\ R \in Nat
         /\ n \in 1 .. R /\ N \in Nat
    BY <1>1, <1>3, <1>4, <1>9, <1>10
  <1>6. FileIsSeq' /\ (maxLines = NoCap \/ maxLines \in Nat)' /\ bytesRead' \in Nat
    BY <1>0, <1>11 DEF FileIsSeq
  <1>7. CASE bytesRead' > MaxBytes
    <2>1. reader' = "failed"
      BY <1>7, <1>9
    <2>2. DownloadExact'
      BY <2>1 DEF DownloadExact
    <2> QED
      BY <1>6, <2>1, <2>2 DEF NdjsonIInv, ReaderStates
  <1>8. CASE ~(bytesRead' > MaxBytes)
    <2>1. PICK q \in Nat : z + 3 * q <= N /\ N <= z + 3 * q + 2
      BY <1>10, Cut
    <2> DEFINE split == SplitAtEnds(BytesFrom(file, off, p, N))
               c == Capped(m + q)
    <2>2. /\ SplitNdjsonLines(carry, SubSeq(stream, 1, n)) = split
          /\ stream' = BytesFrom(file, off, bytesRead + n, R - n)
      <3>1. Follow(off, p, h, R, n)
        BY <1>12, BytesFollow
      <3>2. /\ carry \o SubSeq(stream, 1, n) = BytesFrom(file, off, p, N)
            /\ SubSeq(stream, n + 1, R) = BytesFrom(file, off, bytesRead + n, R - n)
        BY <1>4, <1>10, <3>1 DEF Follow
      <3> QED
        BY <1>9, <3>2, Zenon DEF SplitNdjsonLines
    <2> DEFINE lines == LinesOf(m, q, z)
    <2>4. split.lines = lines /\ split.carry = BytesFrom(file, off, p + z + 3 * q, N - (z + 3 * q))
      <3>1. z = 1 => off = 1 /\ p = 0
        BY <1>3, <1>4
      <3>2. CutAt(off, z, p, m, q, N)
        BY <1>10, <2>1, <3>1 DEF CutAt
      <3>3. SplitsInto(off, z, p, m, q, N)
        BY <1>12, <2>1, <3>2, Splits
      <3>4. split = [lines |-> LinesOf(m, q, z),
                     carry |-> BytesFrom(file, off, p + z + 3 * q, N - (z + 3 * q))]
        BY <3>3 DEF SplitsInto
      <3> HIDE DEF split
      <3> QED
        BY <3>4
    <2>5. \A k \in DOMAIN split.lines : Parses(split.lines[k])
      <3>1. ASSUME NEW k \in 1 .. q + z PROVE Parses(lines[k])
        <4>1. CASE k <= z
          <5>1. lines[k] = <<>>
            BY <4>1 DEF LinesOf
          <5> QED
            BY <5>1, LinesParse
        <4>2. CASE ~(k <= z)
          <5> DEFINE r == file[m + k - z]
          <5>1. lines[k] = <<Opening(r), Closing(r)>>
            BY <4>2 DEF LinesOf
          <5> HIDE DEF r, lines
          <5> QED
            BY <5>1, LinesParse
        <4> QED
          BY <4>1, <4>2
      <3>2. DOMAIN lines = 1 .. q + z
        BY DEF LinesOf
      <3> HIDE DEF lines, split
      <3> QED
        BY <2>4, <3>1, <3>2
    <2>6. Parsed(split.lines) = First(c)
      <3> HIDE DEF split
      <3>1. Parsed(lines) = First(c)
        BY <1>0, <1>2, <2>1, ParsesRows
      <3> QED
        BY <2>4, <3>1
    <2>7. /\ carry' = split.carry /\ rows' = First(c)
          /\ reader' = IF Full(First(c)) THEN "cancelled" ELSE "open"
      <3> HIDE DEF split, c
      <3> QED
        BY <1>8, <1>9, <2>2, <2>5, <2>6
    <2>8. m + q <= Len(file) /\ m + q \in Nat
      <3>1. off + 3 * (m + q) = p + z + 3 * q /\ bytesRead + n <= L
        BY <1>10
      <3>2. p + z + 3 * q <= p + N
        BY <2>1
      <3>3. off + 3 * (m + q) <= off + 3 * Len(file)
        BY <1>0, <1>2, <1>10, <3>1, <3>2
      <3> QED
        BY <1>2, <3>3
    <2>9. /\ c \in Nat /\ c <= m + q
          /\ Full(First(c)) => c = maxLines
          /\ ~Full(First(c)) => c = m + q
      <3> DEFINE j == m + q
      <3>1. j \in Nat
        BY <2>8
      <3> HIDE DEF j
      <3>2. /\ Capped(j) \in Nat /\ Capped(j) <= j
            /\ Full(First(Capped(j))) => Capped(j) = maxLines
            /\ ~Full(First(Capped(j))) => Capped(j) = j
        BY <1>0, <3>1, CappedFacts
      <3> QED
        BY <3>2 DEF j
    <2>10. /\ First(c) = SubSeq(file, 1, Len(First(c))) /\ Len(First(c)) = c
      <3> HIDE DEF c
      <3>1. c <= Len(file)
        BY <1>2, <2>8, <2>9
      <3> QED
        BY <1>0, <2>9, <3>1, FirstRows, FirstFacts
    <2>11. DownloadExact'
      <3> HIDE DEF c
      <3>1. reader' # "released" /\ bytesRead' <= MaxBytes
        BY <1>6, <1>8, <2>7, NdjsonAssumption
      <3>2. rows' = SubSeq(file', 1, Len(rows'))
        BY <1>0, <2>7, <2>10
      <3>3. reader' = "cancelled" => Full(rows)' /\ Len(rows') = maxLines'
        BY <1>0, <2>7, <2>9, <2>10 DEF Full
      <3> QED
        BY <3>1, <3>2, <3>3 DEF DownloadExact
    <2>12. ASSUME reader' = "open"
           PROVE  Layout(Len(file), off, L)' /\ Reading(off, 0, m + q, L)'
      <3>1. ~Full(First(c)) /\ c = m + q
        <4> HIDE DEF c
        <4> QED
          BY <2>7, <2>9, <2>12
      <3>2. Layout(Len(file), off, L)'
        BY <1>0, <1>1 DEF Layout
      <3> DEFINE t == off + 3 * (m + q) - 0
      <3>3. /\ t = p + z + 3 * q /\ t <= bytesRead + n /\ bytesRead + n <= t + 2
            /\ bytesRead + n <= L
            /\ N - (z + 3 * q) = bytesRead + n - t /\ R - n = L - (bytesRead + n)
        BY <1>0, <1>10, <2>1
      <3>4. carry' = BytesFrom(file, off, t, bytesRead' - t)
        <4> DEFINE e == bytesRead + n - t
        <4>1. p + z + 3 * q = t /\ N - (z + 3 * q) = e
          BY <3>3
        <4> HIDE DEF t, e, split
        <4>2. carry' = BytesFrom(file, off, t, e)
          BY <2>4, <2>7, <4>1, Zenon
        <4>3. bytesRead' - t = e
          BY <1>0, <1>11 DEF e, t
        <4> QED
          BY <4>2, <4>3, Zenon
      <3>5. stream' = BytesFrom(file, off, bytesRead', L - bytesRead')
        <4> HIDE DEF t
        <4> QED
          BY <1>11, <2>2, <3>3
      <3>6. rows' = First(m + q) /\ ~Full(rows')
        <4> HIDE DEF c
        <4> QED
          BY <2>7, <3>1
      <3>7. (rows = First(m + q) /\ ~Full(rows))'
        BY <1>0, <3>6 DEF First, Full
      <3>8. /\ (carry = BytesFrom(file, off, t, bytesRead - t))'
            /\ (stream = BytesFrom(file, off, bytesRead, L - bytesRead))'
        BY <1>0, <3>4, <3>5 DEF BytesFrom, ByteAt
      <3> QED
        BY <1>11, <3>2, <3>3, <3>7, <3>8 DEF Reading
    <2>13. reader' \in ReaderStates /\ reader' # "released"
      <3> HIDE DEF c
      <3> QED
        BY <2>7 DEF ReaderStates
    <2>14. PICK k \in Nat : k = c
      <3> HIDE DEF c
      <3> QED
        BY <2>9
    <2>15. ASSUME reader' = "cancelled" PROVE Holds(k)'
      <3> HIDE DEF c
      <3>1. k = maxLines /\ k <= Len(file)
        BY <1>2, <2>7, <2>8, <2>9, <2>14, <2>15
      <3>2. rows' = First(k)
        BY <2>7, <2>14
      <3>3. k <= Len(file)' /\ rows' = First(k)' /\ k <= maxLines'
        BY <1>0, <3>1, <3>2 DEF First
      <3> QED
        BY <3>3 DEF Holds
    <2>16. reader' \in {"released", "cancelled"} => (\E i \in Nat : Holds(i))'
      <3> HIDE DEF c
      <3> QED
        BY <2>13, <2>15
    <2> HIDE DEF c, split
    <2> QED
      BY <1>6, <2>8, <2>11, <2>12, <2>13, <2>16 DEF NdjsonIInv
  <1> QED
    BY <1>7, <1>8

\* A last line without an end holds the last row.
LEMMA LastLine ==
    ASSUME NEW m \in Nat
    PROVE  BytesFrom(file, 0, 3 * m, 2) = <<Opening(file[m + 1]), Closing(file[m + 1])>>
  <1>1. ByteAt(file, 0, 3 * m + 1) = Opening(file[m + 1]) /\ ByteAt(file, 0, 3 * m + 2) = Closing(file[m + 1])
    <2> DEFINE k == m + 1
    <2>1. k \in Nat \ {0} /\ 0 + 3 * (k - 1) + 1 = 3 * m + 1 /\ 0 + 3 * (k - 1) + 2 = 3 * m + 2
      OBVIOUS
    <2> HIDE DEF k
    <2>2. /\ ByteAt(file, 0, 0 + 3 * (k - 1) + 1) = Opening(file[k])
          /\ ByteAt(file, 0, 0 + 3 * (k - 1) + 2) = Closing(file[k])
      BY <2>1, BytesOfRow
    <2> QED
      BY <2>1, <2>2 DEF k
  <1>2. BytesFrom(file, 0, 3 * m, 2) = <<ByteAt(file, 0, 3 * m + 1), ByteAt(file, 0, 3 * m + 2)>>
    BY DEF BytesFrom
  <1> QED
    BY <1>1, <1>2

LEMMA StreamEndsKeeps == NdjsonIInv /\ StreamEnds => NdjsonIInv'
  <1> SUFFICES ASSUME NdjsonIInv, StreamEnds PROVE NdjsonIInv'
    OBVIOUS
  <1>0. /\ reader = "open" /\ stream = <<>> /\ UNCHANGED <<file, maxLines, bytesRead>>
        /\ bytesRead \in Nat /\ FileIsSeq /\ (maxLines = NoCap \/ maxLines \in Nat)
        /\ bytesRead <= MaxBytes /\ Len(file) \in Nat
    BY DEF StreamEnds, NdjsonIInv, DownloadExact, FileIsSeq
  <1> DEFINE n == Len(file)
  <1>1. PICK off \in {0, 1} : \E z \in {0, 1} : \E m \in Nat : \E L \in Nat :
            Layout(n, off, L) /\ Reading(off, z, m, L)
    BY <1>0 DEF NdjsonIInv
  <1>2. PICK z \in {0, 1} : \E m \in Nat : \E L \in Nat : Layout(n, off, L) /\ Reading(off, z, m, L)
    BY <1>1
  <1>3. PICK m \in Nat : \E L \in Nat : Layout(n, off, L) /\ Reading(off, z, m, L)
    BY <1>2
  <1>4. PICK L \in Nat : Layout(n, off, L) /\ Reading(off, z, m, L)
    BY <1>3
  <1>5. /\ Capped(m) = m /\ Capped(m + 1) = m + 1 /\ rows = First(m)
        /\ maxLines = NoCap \/ m + 1 <= maxLines
    BY <1>4, WhereItStands
  <1> DEFINE p == off + 3 * m - z
  <1>6. /\ z = 1 => off = 1 /\ m = 0 /\ bytesRead = 0
        /\ p <= bytesRead /\ bytesRead <= p + 2 /\ bytesRead <= L
        /\ carry = BytesFrom(file, off, p, bytesRead - p)
        /\ stream = BytesFrom(file, off, bytesRead, L - bytesRead)
    BY <1>4 DEF Reading
  <1>7. bytesRead = L
    <2> DEFINE R == L - bytesRead
    <2>1. R \in Nat
      BY <1>0, <1>6
    <2>2. stream = [i \in 1 .. R |-> stream[i]]
      <3> HIDE DEF R, p
      <3> QED
        BY <1>6 DEF BytesFrom, R
    <2> HIDE DEF R
    <2>3. Len(stream) = R
      BY <2>1, <2>2, LengthOf
    <2>4. R = 0
      BY <1>0, <2>3
    <2> QED
      BY <1>0, <2>4 DEF R
  <1>8. (L = off + 3 * n) \/ (off = 0 /\ n > 0 /\ L = 3 * n - 1)
    BY <1>4 DEF Layout
  <1>9. z = 0
    BY <1>0, <1>6, <1>7, <1>8
  <1>10. Parses(carry) /\ Parsed(<<carry>>) = First(n) /\ n <= m + 1
    <2>1. CASE L = off + 3 * n
      <3>1. m = n /\ bytesRead - p = 0
        BY <1>0, <1>6, <1>7, <1>9, <2>1
      <3>2. carry = <<>>
        <4> HIDE DEF p
        <4>1. carry = BytesFrom(file, off, p, 0)
          BY <1>6, <3>1
        <4> QED
          BY <4>1 DEF BytesFrom
      <3>3. <<carry>> = LinesOf(m, 0, 1)
        BY <3>2 DEF LinesOf
      <3>4. Parsed(LinesOf(m, 0, 1)) = First(Capped(m + 0))
        BY <1>0, <1>5, ParsesRows
      <3>5. m + 0 = m
        OBVIOUS
      <3> QED
        BY <1>0, <1>5, <3>1, <3>2, <3>3, <3>4, <3>5, LinesParse
    <2>2. CASE off = 0 /\ n > 0 /\ L = 3 * n - 1
      <3>1. m + 1 = n /\ p = 3 * m /\ bytesRead - p = 2
        BY <1>0, <1>6, <1>7, <1>9, <2>2
      <3>2. carry = <<Opening(file[m + 1]), Closing(file[m + 1])>>
        <4> HIDE DEF p
        <4>1. carry = BytesFrom(file, 0, 3 * m, 2)
          BY <1>6, <2>2, <3>1
        <4> QED
          BY <4>1, LastLine
      <3>3. <<carry>> = LinesOf(m, 1, 0)
        <4>1. LinesOf(m, 1, 0) = [k \in 1 .. 1 |-> <<Opening(file[m + k - 0]), Closing(file[m + k - 0])>>]
          BY DEF LinesOf
        <4>2. m + 1 - 0 = m + 1
          OBVIOUS
        <4> QED
          BY <3>2, <4>1, <4>2
      <3>4. Parsed(LinesOf(m, 1, 0)) = First(Capped(m + 1))
        BY <1>0, <1>5, ParsesRows
      <3>5. Parses(carry)
        BY <3>2, LinesParse
      <3> QED
        BY <1>0, <1>5, <3>1, <3>3, <3>4, <3>5
    <2> QED
      BY <1>8, <2>1, <2>2
  <1>11. rows' = First(n) /\ reader' = "released"
    BY <1>10 DEF StreamEnds
  <1>12. n <= Len(file) /\ n \in Nat
    BY <1>0
  <1> HIDE DEF n
  <1>13. First(n) = SubSeq(file, 1, Len(First(n))) /\ Len(First(n)) = n
    BY <1>0, <1>12, FirstRows, FirstFacts
  <1>14. DownloadExact'
    BY <1>0, <1>11, <1>13 DEF DownloadExact, n
  <1>15. FileIsSeq'
    BY <1>0 DEF FileIsSeq
  <1>16. PICK k \in Nat : k = n
    BY <1>12
  <1>17. Holds(k)'
    <2>1. n <= m + 1
      BY <1>10
    <2>2. maxLines = NoCap \/ k <= maxLines
      BY <1>0, <1>5, <1>12, <1>16, <2>1
    <2>3. k <= Len(file)' /\ rows' = First(k)' /\ (maxLines = NoCap \/ k <= maxLines)'
      BY <1>0, <1>11, <1>12, <1>16, <2>2 DEF First
    <2> QED
      BY <2>3 DEF Holds
  <1>18. (\E i \in Nat : Holds(i))'
    BY <1>17
  <1> QED
    BY <1>0, <1>11, <1>14, <1>15, <1>18 DEF NdjsonIInv, ReaderStates

LEMMA BreaksKeep == NdjsonIInv /\ (StreamBreaks \/ FetchFails) => NdjsonIInv'
  BY DEF NdjsonIInv, StreamBreaks, FetchFails, FileIsSeq, DownloadExact, ReaderStates

\* A response arrives: whatever way the file is written, the reader stands before its first row.
LEMMA StreamArrives ==
    ASSUME NdjsonIInv, NEW n \in Nat, NEW rs, rs = [i \in 1 .. n |-> rs[i]],
           NEW cap, cap = NoCap \/ cap \in Nat \ {0}, FetchNdjson(rs, cap), reader' # "released"
    PROVE  NdjsonIInv'
  <1>1. /\ file' = rs /\ maxLines' = cap /\ rows' = <<>> /\ carry' = <<>> /\ bytesRead' = 0
        /\ \E s \in Written(rs), declared \in BOOLEAN :
               /\ stream' = s
               /\ reader' = IF declared /\ Len(s) > MaxBytes THEN "failed" ELSE "open"
    BY DEF FetchNdjson
  <1>2. stream' \in Written(rs) /\ reader' \in {"failed", "open"}
    BY <1>1
  <1>3. Len(rs) = n
    BY LengthOf
  <1>4. FileIsSeq'
    BY <1>1, <1>3 DEF FileIsSeq
  <1>5. PICK off \in {0, 1} : \E L \in Nat : Layout(n, off, L) /\ stream' = BytesFrom(rs, off, 0, L)
    BY <1>2, WrittenIs
  <1>6. PICK L \in Nat : Layout(n, off, L) /\ stream' = BytesFrom(rs, off, 0, L)
    BY <1>5
  <1>7. DownloadExact'
    <2>1. SubSeq(rs, 1, 0) = <<>>
      BY SubSeqEmpty
    <2> QED
      BY <1>1, <1>2, <2>1, NdjsonAssumption DEF DownloadExact
  <1>8. First(0)' = <<>> /\ ~Full(rows)'
    BY <1>1 DEF First, Full
  <1>9. ASSUME NEW z \in {0, 1}, z = off PROVE (Layout(Len(file), off, L) /\ Reading(off, z, 0, L))'
    <2>1. off + 3 * 0 - z = 0 /\ 0 - 0 = 0 /\ L - 0 = L /\ 0 <= L /\ 0 <= 0 + 2
      BY <1>9
    <2>2. BytesFrom(rs, off, 0, 0) = <<>>
      BY DEF BytesFrom
    <2>3. Layout(Len(file), off, L)'
      BY <1>1, <1>3, <1>6 DEF Layout
    <2>4. (carry = BytesFrom(file, off, 0, 0))' /\ (stream = BytesFrom(file, off, 0, L))'
      BY <1>1, <1>6, <2>2 DEF BytesFrom, ByteAt
    <2>5. Reading(off, z, 0, L)'
      BY <1>1, <1>8, <1>9, <2>1, <2>4 DEF Reading
    <2> QED
      BY <2>3, <2>5
  <1>10. (Layout(Len(file), off, L) /\ Reading(off, off, 0, L))'
    BY <1>9
  <1>11. (\E o \in {0, 1} : \E z \in {0, 1} : \E m \in Nat : \E l \in Nat :
             Layout(Len(file), o, l) /\ Reading(o, z, m, l))'
    BY <1>10
  <1> QED
    BY <1>1, <1>2, <1>4, <1>7, <1>11 DEF NdjsonIInv, ReaderStates

\* An answer without a body: the file has no rows, and none were read.
LEMMA NoBody ==
    ASSUME NdjsonIInv, NEW cap, cap = NoCap \/ cap \in Nat \ {0}, FetchNdjson(<<>>, cap),
           reader' = "released"
    PROVE  NdjsonIInv'
  <1>1. /\ file' = <<>> /\ maxLines' = cap /\ rows' = <<>> /\ bytesRead' = 0
        /\ Len(<<>>) = 0 /\ SubSeq(<<>>, 1, 0) = <<>>
    BY SubSeqEmpty DEF FetchNdjson
  <1>2. FileIsSeq'
    BY <1>1 DEF FileIsSeq
  <1>3. DownloadExact'
    BY <1>1, NdjsonAssumption DEF DownloadExact
  <1>4. Holds(0)'
    BY <1>1 DEF Holds, First
  <1>5. (\E k \in Nat : Holds(k))'
    BY <1>4
  <1> QED
    BY <1>1, <1>2, <1>3, <1>5 DEF NdjsonIInv, ReaderStates

LEMMA FetchKeeps ==
    ASSUME NdjsonIInv, NEW n \in Nat, NEW rs, rs = [i \in 1 .. n |-> rs[i]],
           NEW cap, cap = NoCap \/ cap \in Nat \ {0}, FetchNdjson(rs, cap)
    PROVE  NdjsonIInv'
  <1>1. CASE reader' # "released"
    BY <1>1, StreamArrives
  <1>2. CASE reader' = "released"
    <2>1. rs = <<>>
      BY <1>2 DEF FetchNdjson
    <2>2. FetchNdjson(<<>>, cap)
      BY <2>1
    <2> QED
      BY <1>2, <2>2, NoBody
  <1> QED
    BY <1>1, <1>2

-----------------------------------------------------------------------------
(***************************************************************************)
(* The difference of two versions.                                         *)
(***************************************************************************)
LEMMA OneByOne ==
    ASSUME NEW S, IsFiniteSet(S)
    PROVE  \E n \in Nat : /\ SetToSeq(S) = [i \in 1 .. n |-> SetToSeq(S)[i]]
                          /\ {SetToSeq(S)[i] : i \in 1 .. n} = S
  <1> DEFINE n == Cardinality(S)
             s == SetToSeq(S)
  <1>1. n \in Nat
    BY FS_CardinalityType
  <1>2. \E f \in [1 .. n -> S] : IsInjective(f) /\ \A x \in S : \E i \in 1 .. n : f[i] = x
    <2>1. PICK k \in Nat : ExistsBijection(1 .. k, S)
      BY FS_NatBijection
    <2>2. k = n
      BY <2>1, FS_CountingElements
    <2>3. PICK f : f \in Bijection(1 .. n, S)
      BY <2>1, <2>2 DEF ExistsBijection
    <2> QED
      BY <2>3 DEF Bijection, Injection, Surjection, IsInjective
  <1>3. s \in [1 .. n -> S] /\ IsInjective(s)
    BY <1>2 DEF SetToSeq
  <1> HIDE DEF n, s
  <1>4. {s[i] : i \in 1 .. n} = S
    <2> DEFINE R == {s[i] : i \in 1 .. n}
    <2>1. R \subseteq S
      BY <1>3
    <2>2. s \in Bijection(1 .. n, R)
      BY <1>3 DEF Bijection, Injection, Surjection, IsInjective
    <2>3. ExistsBijection(1 .. n, R)
      BY <2>2 DEF ExistsBijection
    <2>4. Cardinality(R) = n
      BY <1>1, <2>3, FS_CountingElements
    <2> HIDE DEF R
    <2>5. R = S
      BY <2>1, <2>4, FS_Subset DEF n
    <2> QED
      BY <2>5 DEF R
  <1>5. s = [i \in 1 .. n |-> s[i]]
    BY <1>3
  <1> QED
    BY <1>1, <1>4, <1>5 DEF s

\* The keys of a fields file, once it is asked for.
KeysOf(f) == {f[i].key : i \in DOMAIN f}

FieldsAsked(ks) ==
    LET S == {[key |-> k] : k \in ks}
    IN \E n \in Nat : SetToSeq(S) = [i \in 1 .. n |-> SetToSeq(S)[i]] /\ KeysOf(SetToSeq(S)) = ks

LEMMA FieldsFile ==
    ASSUME NEW ks \in SUBSET FieldKeys
    PROVE  FieldsAsked(ks)
  <1> DEFINE S == {[key |-> k] : k \in ks}
             s == SetToSeq(S)
  <1>1. IsFiniteSet(S)
    <2>1. IsFiniteSet(FieldKeys)
      BY VersionDiffAssumption
    <2>2. IsFiniteSet(ks)
      BY <2>1, FS_Subset
    <2> DEFINE f == [k \in ks |-> [key |-> k]]
    <2>3. f \in Surjection(ks, S)
      BY DEF Surjection
    <2> HIDE DEF f, S
    <2> QED
      BY <2>2, <2>3, FS_Surjection
  <1> HIDE DEF S
  <1>2. PICK n \in Nat : s = [i \in 1 .. n |-> s[i]] /\ {s[i] : i \in 1 .. n} = S
    BY <1>1, OneByOne
  <1> HIDE DEF s
  <1>3. KeysOf(s) = ks
    <2>1. DOMAIN s = 1 .. n
      BY <1>2
    <2>2. KeysOf(s) = {x.key : x \in S}
      BY <1>2, <2>1 DEF KeysOf
    <2>3. \A x \in S : x.key \in ks
      BY DEF S
    <2>4. \A k \in ks : \E x \in S : x.key = k
      <3> SUFFICES ASSUME NEW k \in ks PROVE \E x \in S : x.key = k
        OBVIOUS
      <3>1. [key |-> k] \in S /\ [key |-> k].key = k
        BY DEF S
      <3> QED
        BY <3>1
    <2> QED
      BY <2>2, <2>3, <2>4
  <1> QED
    BY <1>2, <1>3 DEF s, S, FieldsAsked

\* What the call knows at each of its stations.
CallIInv ==
    /\ diffCall # "idle" => asked.cap \in Nat \ {0} /\ asked.wait \in Nat
    /\ elapsed \in Nat
    /\ diffCall = "idle" => elapsed = 0
    /\ diffCall = "asking" => elapsed <= asked.wait
    /\ diffCall = "sleeping" => elapsed < asked.wait

DiffIInv == NdjsonIInv /\ CallIInv

LEMMA DiffStarts == VersionDiffInit => DiffIInv
  BY NdjsonStarts DEF VersionDiffInit, DiffIInv, CallIInv

LEMMA NdjsonSame == NdjsonIInv /\ UNCHANGED ndjsonVars => NdjsonIInv'
  <1> SUFFICES ASSUME NdjsonIInv, UNCHANGED ndjsonVars PROVE NdjsonIInv'
    OBVIOUS
  <1>1. /\ UNCHANGED <<stream, file, reader, rows, carry, bytesRead, maxLines>>
    BY DEF ndjsonVars
  <1>2. (reader = "open" =>
           \E off \in {0, 1} : \E z \in {0, 1} : \E m \in Nat : \E L \in Nat :
               Layout(Len(file), off, L) /\ Reading(off, z, m, L))'
    BY <1>1 DEF NdjsonIInv, Layout, Reading, First, Full, BytesFrom, ByteAt
  <1>3. (reader \in {"released", "cancelled"} => \E n \in Nat : Holds(n))'
    BY <1>1 DEF NdjsonIInv, Holds, First
  <1>4. FileIsSeq' /\ DownloadExact'
    BY <1>1 DEF NdjsonIInv, FileIsSeq, DownloadExact, Full
  <1> QED
    BY <1>1, <1>2, <1>3, <1>4 DEF NdjsonIInv

LEMMA FetchFieldsKeeps == NdjsonIInv /\ FetchFields => NdjsonIInv'
  <1> SUFFICES ASSUME NdjsonIInv, FetchFields PROVE NdjsonIInv'
    OBVIOUS
  <1>1. CASE FetchFails
    BY <1>1, BreaksKeep
  <1>2. CASE ~FetchFails
    <2>1. PICK ks \in SUBSET FieldKeys : FetchNdjson(SetToSeq({[key |-> k] : k \in ks}), NoCap)
      BY <1>2 DEF FetchFields
    <2> DEFINE s == SetToSeq({[key |-> k] : k \in ks})
    <2>2. PICK n \in Nat : s = [i \in 1 .. n |-> s[i]]
      BY FieldsFile DEF FieldsAsked
    <2> HIDE DEF s
    <2>3. FetchNdjson(s, NoCap)
      BY <2>1 DEF s
    <2> QED
      BY <2>2, <2>3, FetchKeeps
  <1> QED
    BY <1>1, <1>2

LEMMA FetchPropertiesKeeps == DiffIInv /\ FetchProperties => NdjsonIInv'
  <1> SUFFICES ASSUME DiffIInv, FetchProperties PROVE NdjsonIInv'
    OBVIOUS
  <1>1. NdjsonIInv /\ asked.cap \in Nat \ {0}
    BY DEF DiffIInv, CallIInv, FetchProperties
  <1>2. CASE FetchFails
    BY <1>1, <1>2, BreaksKeep
  <1>3. CASE ~FetchFails
    <2>1. PICK n \in 0 .. MaxRows : \E rs \in [1 .. n -> DiffRows] : FetchNdjson(rs, asked.cap)
      BY <1>3 DEF FetchProperties
    <2>2. PICK rs \in [1 .. n -> DiffRows] : FetchNdjson(rs, asked.cap)
      BY <2>1
    <2>3. n \in Nat
      BY VersionDiffAssumption
    <2>4. rs = [i \in 1 .. n |-> rs[i]]
      BY <2>2
    <2> QED
      BY <1>1, <2>2, <2>3, <2>4, FetchKeeps
  <1> QED
    BY <1>2, <1>3

LEMMA NdjsonSteps == DiffIInv /\ [VersionDiffNext]_diffVars => NdjsonIInv'
  <1> SUFFICES ASSUME DiffIInv, [VersionDiffNext]_diffVars PROVE NdjsonIInv'
    OBVIOUS
  <1>0. NdjsonIInv
    BY DEF DiffIInv
  <1>1. CASE UNCHANGED ndjsonVars
    BY <1>0, <1>1, NdjsonSame
  <1>2. CASE FetchFields
    BY <1>0, <1>2, FetchFieldsKeeps
  <1>3. CASE FetchProperties
    BY <1>3, FetchPropertiesKeeps
  <1>4. CASE Read
    BY <1>0, <1>4, ReadChunkKeeps, StreamEndsKeeps, BreaksKeep DEF Read
  <1>5. CASE UNCHANGED diffVars
    BY <1>1, <1>5 DEF diffVars
  <1>6. CASE StartDiff \/ JobMoves \/ Answered \/ Sleep \/ Threw \/ Report
    <2>1. UNCHANGED ndjsonVars
      BY <1>6 DEF StartDiff, JobMoves, Answered, Sleep, Threw, Report
    <2> QED
      BY <1>1, <2>1
  <1> QED
    BY <1>1, <1>2, <1>3, <1>4, <1>5, <1>6 DEF VersionDiffNext, DiffCallSteps

LEMMA CallSteps == CallIInv /\ [VersionDiffNext]_diffVars => CallIInv'
  <1> SUFFICES ASSUME CallIInv, [VersionDiffNext]_diffVars PROVE CallIInv'
    OBVIOUS
  <1> USE DEF CallIInv
  <1>1. CASE StartDiff
    <2>1. PICK w \in 0 .. MaxWait : \E cap \in 1 .. MaxRows, f \in {NoValue} \cup {"Walls"} :
              asked' = [wait |-> w, cap |-> cap, filter |-> f]
      BY <1>1 DEF StartDiff
    <2>2. PICK cap \in 1 .. MaxRows : \E f \in {NoValue} \cup {"Walls"} :
              asked' = [wait |-> w, cap |-> cap, filter |-> f]
      BY <2>1
    <2>3. asked'.wait = w /\ asked'.cap = cap
      BY <2>2
    <2>4. diffCall = "idle" /\ diffCall' = "asking" /\ elapsed' = elapsed
      BY <1>1 DEF StartDiff
    <2> QED
      BY <2>3, <2>4, VersionDiffAssumption
  <1>2. CASE JobMoves
    BY <1>2 DEF JobMoves
  <1>3. CASE Answered
    <2>1. diffCall = "asking" /\ UNCHANGED <<asked, elapsed>>
      BY <1>3 DEF Answered
    <2>2. diffCall' # "idle" /\ diffCall' # "asking"
      BY <1>3 DEF Answered
    <2>3. diffCall' = "sleeping" => elapsed < asked.wait
      BY <1>3 DEF Answered, PollsOn
    <2> QED
      BY <2>1, <2>2, <2>3
  <1>4. CASE Sleep
    BY <1>4 DEF Sleep
  <1>5. CASE Threw
    BY <1>5 DEF Threw
  <1>6. CASE FetchFields
    BY <1>6 DEF FetchFields
  <1>7. CASE FetchProperties
    BY <1>7 DEF FetchProperties
  <1>8. CASE Report
    BY <1>8 DEF Report
  <1>9. CASE Read
    BY <1>9 DEF Read
  <1>10. CASE UNCHANGED diffVars
    BY <1>10 DEF diffVars
  <1> QED
    BY <1>1, <1>2, <1>3, <1>4, <1>5, <1>6, <1>7, <1>8, <1>9, <1>10 DEF VersionDiffNext, DiffCallSteps

LEMMA DiffSteps == DiffIInv /\ [VersionDiffNext]_diffVars => DiffIInv'
  BY NdjsonSteps, CallSteps DEF DiffIInv

\* Wherever the network cuts a file, for any files, chunks and caps: readNdjsonStream gives the
\* rows of the file in order, all of them or as many as the cap allows.
THEOREM DownloadsExact == VersionDiffSpec => []DownloadExact
  <1>1. DiffIInv => DownloadExact
    BY DEF DiffIInv, NdjsonIInv
  <1> QED
    BY <1>1, DiffStarts, DiffSteps, PTL DEF VersionDiffSpec

\* Counting through an order counts the elements.
LEMMA CountedInOrder ==
    ASSUME NEW n \in Nat, NEW S, S \subseteq 1 .. n, NEW m, NEW o, IsOrderOf(o, m, S),
           NEW T, T \subseteq S
    PROVE  Cardinality({k \in 1 .. m : o[k] \in T}) = Cardinality(T)
  <1> DEFINE K == {k \in 1 .. m : o[k] \in T}
             f == [k \in K |-> o[k]]
  <1>1. /\ m \in Nat /\ o \in [1 .. m -> S] /\ \A x \in S : x \in Int
        /\ \A i, j \in 1 .. m : i < j => o[i] < o[j]
        /\ \A x \in S : \E i \in 1 .. m : o[i] = x
    BY DEF IsOrderOf
  <1>2. ASSUME NEW i \in 1 .. m, NEW j \in 1 .. m, i # j PROVE o[i] # o[j]
    <2>1. o[i] \in Int /\ o[j] \in Int
      BY <1>1
    <2>2. CASE i < j
      BY <1>1, <2>1, <2>2
    <2>3. CASE j < i
      BY <1>1, <2>1, <2>3
    <2> QED
      BY <1>2, <2>2, <2>3
  <1>3. K \subseteq 1 .. m
    OBVIOUS
  <1>4. f \in [K -> T] /\ \A i, j \in K : f[i] = f[j] => i = j
    BY <1>2
  <1>5. \A x \in T : \E k \in K : f[k] = x
    BY <1>1
  <1> HIDE DEF f, K
  <1>6. f \in Bijection(K, T)
    BY <1>4, <1>5 DEF Bijection, Injection, IsInjective, Surjection
  <1>7. ExistsBijection(K, T)
    BY <1>6 DEF ExistsBijection
  <1>8. IsFiniteSet(K)
    BY <1>1, <1>3, PlacesFinite
  <1>9. Cardinality(T) = Cardinality(K)
    BY <1>7, <1>8, FS_Bijection
  <1> QED
    BY <1>9 DEF K

\* Three kinds, each element of one: the counts add up.
LEMMA ThreeKinds ==
    ASSUME NEW S, IsFiniteSet(S), NEW A, NEW B, NEW D, S = A \cup B \cup D,
           A \cap B = {}, (A \cup B) \cap D = {}
    PROVE  Cardinality(A) + Cardinality(B) + Cardinality(D) = Cardinality(S)
  <1>1. IsFiniteSet(A) /\ IsFiniteSet(B) /\ IsFiniteSet(D)
    <2>1. A \in SUBSET S /\ B \in SUBSET S /\ D \in SUBSET S
      OBVIOUS
    <2>2. \A X \in SUBSET S : IsFiniteSet(X)
      BY FS_Subset
    <2> QED
      BY <2>1, <2>2
  <1>2. Cardinality({}) = 0
    BY FS_EmptySet
  <1> DEFINE U == A \cup B
  <1>3. IsFiniteSet(U) /\ Cardinality(U) = Cardinality(A) + Cardinality(B) - Cardinality(A \cap B)
    BY <1>1, FS_Union
  <1>4. U \cap D = {} /\ U \cup D = S
    OBVIOUS
  <1> HIDE DEF U
  <1>5. Cardinality(U \cup D) = Cardinality(U) + Cardinality(D) - Cardinality(U \cap D)
    BY <1>1, <1>3, FS_Union
  <1>6. /\ Cardinality(A) \in Nat /\ Cardinality(B) \in Nat /\ Cardinality(D) \in Nat
        /\ Cardinality(U) \in Nat
    BY <1>1, <1>3, FS_CardinalityType
  <1>7. Cardinality(A \cap B) = 0
    BY <1>2
  <1>8. Cardinality(U \cap D) = 0 /\ Cardinality(U \cup D) = Cardinality(S)
    BY <1>2, <1>4
  <1> QED
    BY <1>3, <1>5, <1>6, <1>7, <1>8

\* The roll-up of the rows read: each row in the filter's category is counted once.
LEMMA RollupCounts ==
    ASSUME NEW n \in Nat, rows = [i \in 1 .. n |-> rows[i]]
    PROVE  LET Cat(i) == Category(rows[i], fields)
               kept == {i \in 1 .. n : asked.filter # NoValue => Cat(i) = asked.filter}
               rolled == RollupDiff(DownloadDiffProperties)
           IN /\ DOMAIN rolled = {Cat(i) : i \in kept}
              /\ \A c \in DOMAIN rolled :
                     rolled[c].ADDED + rolled[c].REMOVED + rolled[c].CHANGED
                         = Cardinality({i \in kept : Cat(i) = c})
  <1> DEFINE Cat(i) == Category(rows[i], fields)
             kept == {i \in 1 .. n : asked.filter # NoValue => Cat(i) = asked.filter}
             all == [i \in 1 .. n |-> Element(rows[i], fields)]
             order == InOrder(kept, Ascending(kept))
             m == Cardinality(kept)
             elements == DownloadDiffProperties
             rolled == RollupDiff(elements)
             Kinds == {"ADDED", "REMOVED", "CHANGED"}
             knd(i) == Kind(rows[i])
  <1>1. DOMAIN rows = 1 .. n
    OBVIOUS
  <1>2. \A i \in 1 .. n : all[i].category = Cat(i) /\ all[i].kind = knd(i)
    BY DEF Element
  <1>3. \A i \in 1 .. n : knd(i) \in Kinds
    BY DEF Kind
  <1>4. IsOrderOf(order, m, kept)
    <2>1. kept \subseteq 1 .. n
      OBVIOUS
    <2> HIDE DEF kept
    <2>2. IsFiniteSet(kept)
      BY <2>1, PlacesFinite
    <2>3. \A x \in kept : x \in Int
      BY <2>1
    <2> QED
      BY <2>2, <2>3, NumbersInOrder
  <1>5. elements = [k \in DOMAIN order |-> all[order[k]]]
    <2> DEFINE allRead == [i \in DOMAIN rows |-> Element(rows[i], fields)]
               keptRead == {i \in DOMAIN allRead : asked.filter # NoValue => allRead[i].category = asked.filter}
               orderRead == InOrder(keptRead, Ascending(keptRead))
    <2>1. elements = [k \in DOMAIN orderRead |-> allRead[orderRead[k]]]
      BY Zenon DEF DownloadDiffProperties
    <2>2. allRead = all /\ DOMAIN all = 1 .. n
      BY <1>1
    <2> HIDE DEF allRead, all, Cat
    <2>3. keptRead = kept
      BY <1>2, <2>2
    <2> HIDE DEF keptRead, kept
    <2>4. orderRead = order
      BY <2>3
    <2> HIDE DEF orderRead, order
    <2> QED
      BY <2>1, <2>2, <2>4
  <1>6. kept \subseteq 1 .. n
    OBVIOUS
  <1> HIDE DEF order, m, kept, all, elements
  <1>7. m \in Nat /\ order \in [1 .. m -> kept] /\ DOMAIN order = 1 .. m
        /\ \A x \in kept : \E i \in 1 .. m : order[i] = x
    BY <1>4 DEF IsOrderOf
  <1> HIDE DEF Cat, knd, Kinds
  <1>8. /\ DOMAIN elements = 1 .. m
        /\ \A k \in 1 .. m : /\ order[k] \in kept /\ order[k] \in 1 .. n
                             /\ elements[k].category = Cat(order[k])
                             /\ elements[k].kind = knd(order[k])
    BY <1>2, <1>5, <1>6, <1>7
  <1> DEFINE Count(c, k) == {i \in DOMAIN elements : elements[i].category = c /\ elements[i].kind = k}
  <1>9. rolled = [c \in {elements[i].category : i \in DOMAIN elements} |->
                    [k \in Kinds |-> Cardinality(Count(c, k))]]
    BY DEF RollupDiff, Kinds
  <1> HIDE DEF rolled, Count
  <1>10. DOMAIN rolled = {Cat(i) : i \in kept}
    <2>1. DOMAIN rolled = {elements[i].category : i \in 1 .. m}
      BY <1>8, <1>9
    <2>2. \A k \in 1 .. m : \E i \in kept : elements[k].category = Cat(i)
      BY <1>8
    <2>3. \A i \in kept : \E k \in 1 .. m : elements[k].category = Cat(i)
      BY <1>7, <1>8
    <2> QED
      BY <2>1, <2>2, <2>3
  <1>11. ASSUME NEW c \in DOMAIN rolled
         PROVE  rolled[c].ADDED + rolled[c].REMOVED + rolled[c].CHANGED
                    = Cardinality({i \in kept : Cat(i) = c})
    <2> DEFINE T(k) == {i \in kept : Cat(i) = c /\ knd(i) = k}
               Of == {i \in kept : Cat(i) = c}
    <2>1. rolled[c] = [k \in Kinds |-> Cardinality(Count(c, k))]
      BY <1>9
    <2>2. /\ rolled[c].ADDED = Cardinality(Count(c, "ADDED"))
          /\ rolled[c].REMOVED = Cardinality(Count(c, "REMOVED"))
          /\ rolled[c].CHANGED = Cardinality(Count(c, "CHANGED"))
      BY <2>1 DEF Kinds
    <2>3. ASSUME NEW k \in Kinds PROVE Cardinality(Count(c, k)) = Cardinality(T(k))
      <3>1. Count(c, k) = {i \in 1 .. m : order[i] \in T(k)}
        BY <1>8 DEF Count
      <3>2. T(k) \subseteq kept
        OBVIOUS
      <3> HIDE DEF T
      <3>3. Cardinality({i \in 1 .. m : order[i] \in T(k)}) = Cardinality(T(k))
        BY <1>4, <1>6, <3>2, CountedInOrder
      <3> QED
        BY <3>1, <3>3
    <2>4. /\ Of = T("ADDED") \cup T("REMOVED") \cup T("CHANGED")
          /\ T("ADDED") \cap T("REMOVED") = {}
          /\ (T("ADDED") \cup T("REMOVED")) \cap T("CHANGED") = {}
      BY <1>3, <1>6 DEF Kinds
    <2>5. IsFiniteSet(Of)
      <3>1. Of \subseteq 1 .. n
        BY <1>6
      <3> HIDE DEF Of
      <3> QED
        BY <3>1, PlacesFinite
    <2>6. Cardinality(T("ADDED")) + Cardinality(T("REMOVED")) + Cardinality(T("CHANGED")) = Cardinality(Of)
      <3> HIDE DEF T, Of
      <3> QED
        BY <2>4, <2>5, ThreeKinds
    <2>7. "ADDED" \in Kinds /\ "REMOVED" \in Kinds /\ "CHANGED" \in Kinds
      BY DEF Kinds
    <2> HIDE DEF T
    <2> QED
      BY <2>2, <2>3, <2>6, <2>7
  <1> QED
    BY <1>10, <1>11 DEF Cat, kept, elements, rolled

\* What the call knows about Autodesk's computation, and which file it reads.
StationIInv ==
    /\ job \in Jobs
    /\ diffCall \in {"idle", "asking", "sleeping"} => reader = "none"
    /\ diffCall = "failed" => job = "FAILED"
    /\ diffCall = "processing" => known = "PROCESSING" /\ elapsed = asked.wait
    /\ diffCall \in {"fields", "properties", "reported"} => job = "FINISHED"
    /\ diffCall = "fields" /\ reader \in {"open", "released", "cancelled"} => KeysOf(file) = diff.keys
    /\ diffCall \in {"properties", "reported"} /\ reader \in {"open", "released", "cancelled"} =>
           file = diff.rows /\ maxLines = asked.cap /\ fields = diff.keys

HonestIInv == DiffIInv /\ StationIInv /\ DiffHonest

LEMMA HonestStarts == VersionDiffInit => HonestIInv
  <1> SUFFICES ASSUME VersionDiffInit PROVE HonestIInv
    OBVIOUS
  <1>1. StationIInv
    BY DEF StationIInv, VersionDiffInit, NdjsonInit, Jobs
  <1>2. DiffHonest
    BY DEF DiffHonest, VersionDiffInit
  <1> QED
    BY <1>1, <1>2, DiffStarts DEF HonestIInv

\* A fields file that was read to its end gives the keys it holds.
LEMMA KeysRead ==
    ASSUME NdjsonIInv, reader = "released"
    PROVE  DownloadDiffFields = KeysOf(file)
  <1> DEFINE n == Len(file)
  <1>1. n \in Nat /\ file = [i \in 1 .. n |-> file[i]]
    BY DEF NdjsonIInv, FileIsSeq
  <1>2. PICK k \in Nat : Holds(k)
    BY DEF NdjsonIInv
  <1>3. rows = First(k) /\ Len(rows) = n
    BY <1>2 DEF Holds, NdjsonIInv, DownloadExact
  <1>4. k = n
    BY <1>2, <1>3, FirstFacts
  <1> HIDE DEF n
  <1>5. rows = file
    BY <1>1, <1>3, <1>4 DEF First
  <1> QED
    BY <1>5 DEF DownloadDiffFields, KeysOf

\* The report of a difference whose file was read.
LEMMA ReportIsHonest ==
    ASSUME HonestIInv, Report
    PROVE  DiffHonest'
  <1>1. /\ diffCall = "properties" /\ reader \in {"released", "cancelled"} /\ diffCall' = "reported"
        /\ report' = RollupDiff(DownloadDiffProperties)
        /\ UNCHANGED <<diff, asked, job>>
    BY DEF Report
  <1>2. /\ job = "FINISHED" /\ file = diff.rows /\ maxLines = asked.cap /\ fields = diff.keys
        /\ asked.cap \in Nat
    BY <1>1 DEF HonestIInv, StationIInv, DiffIInv, CallIInv
  <1>3. NdjsonIInv /\ Len(file) \in Nat
    BY DEF HonestIInv, DiffIInv, NdjsonIInv, FileIsSeq
  <1>4. PICK n \in Nat : Holds(n)
    BY <1>1, <1>3 DEF NdjsonIInv
  <1>5. /\ n <= Len(file) /\ rows = First(n) /\ Len(rows) = n
        /\ maxLines = NoCap \/ n <= maxLines
    BY <1>4, FirstFacts DEF Holds
  <1>6. maxLines # NoCap
    BY <1>2, NdjsonAssumption
  <1>7. n = IF Len(diff.rows) < asked.cap THEN Len(diff.rows) ELSE asked.cap
    <2>1. CASE reader = "released"
      <3>1. n = Len(file)
        BY <1>3, <1>5, <2>1 DEF NdjsonIInv, DownloadExact
      <3> QED
        BY <1>2, <1>3, <1>5, <1>6, <3>1
    <2>2. CASE reader = "cancelled"
      <3>1. n = maxLines
        BY <1>3, <1>5, <2>2 DEF NdjsonIInv, DownloadExact
      <3> QED
        BY <1>2, <1>3, <1>5, <3>1
    <2> QED
      BY <1>1, <2>1, <2>2
  <1> DEFINE Cat(i) == Category(diff.rows[i], diff.keys)
             kept == {i \in 1 .. n : asked.filter # NoValue => Cat(i) = asked.filter}
             cats == {Cat(i) : i \in 1 .. n}
             wanted == IF asked.filter = NoValue THEN cats ELSE cats \cap {asked.filter}
             Of(c) == {i \in 1 .. n : Cat(i) = c}
  <1>8. /\ DOMAIN report' = {Cat(i) : i \in kept}
        /\ \A c \in DOMAIN report' :
               report'[c].ADDED + report'[c].REMOVED + report'[c].CHANGED
                   = Cardinality({i \in kept : Cat(i) = c})
    <2>1. rows = [i \in 1 .. n |-> rows[i]] /\ \A i \in 1 .. n : rows[i] = diff.rows[i]
      BY <1>2, <1>5 DEF First
    <2> DEFINE CatRead(i) == Category(rows[i], fields)
               keptRead == {i \in 1 .. n : asked.filter # NoValue => CatRead(i) = asked.filter}
    <2>2. /\ DOMAIN report' = {CatRead(i) : i \in keptRead}
          /\ \A c \in DOMAIN report' :
                 report'[c].ADDED + report'[c].REMOVED + report'[c].CHANGED
                     = Cardinality({i \in keptRead : CatRead(i) = c})
      BY <1>1, <2>1, RollupCounts
    <2>3. \A i \in 1 .. n : CatRead(i) = Cat(i)
      BY <1>2, <2>1
    <2> HIDE DEF CatRead, Cat
    <2>4. keptRead = kept
      BY <2>3
    <2>5. kept \subseteq 1 .. n
      OBVIOUS
    <2>6. {CatRead(i) : i \in keptRead} = {Cat(i) : i \in kept}
      BY <2>3, <2>4
    <2>7. ASSUME NEW c PROVE {i \in keptRead : CatRead(i) = c} = {i \in kept : Cat(i) = c}
      BY <2>3, <2>4
    <2> HIDE DEF kept, keptRead
    <2> QED
      BY <2>2, <2>6, <2>7
  <1> HIDE DEF Cat
  <1>9. {Cat(i) : i \in kept} = wanted
    OBVIOUS
  <1>10. ASSUME NEW c \in wanted PROVE {i \in kept : Cat(i) = c} = Of(c)
    OBVIOUS
  <1> HIDE DEF kept, wanted, Of
  <1>11. /\ DOMAIN report' = wanted
         /\ \A c \in wanted :
                report'[c].ADDED + report'[c].REMOVED + report'[c].CHANGED = Cardinality(Of(c))
    BY <1>8, <1>9, <1>10
  <1> DEFINE least == IF Len(diff.rows) < asked.cap THEN Len(diff.rows) ELSE asked.cap
             CatsTo(k) == {Category(diff.rows[i], diff.keys) : i \in 1 .. k}
             WantedTo(k) == IF asked.filter = NoValue THEN CatsTo(k) ELSE CatsTo(k) \cap {asked.filter}
             OfTo(k, c) == {i \in 1 .. k : Category(diff.rows[i], diff.keys) = c}
  <1>12. wanted = WantedTo(n) /\ \A c : Of(c) = OfTo(n, c)
    BY DEF wanted, Of, Cat
  <1>13. /\ DOMAIN report' = WantedTo(least)
         /\ \A c \in WantedTo(least) :
                report'[c].ADDED + report'[c].REMOVED + report'[c].CHANGED = Cardinality(OfTo(least, c))
    <2>1. least = n
      BY <1>7
    <2> HIDE DEF WantedTo, OfTo, least
    <2> QED
      BY <1>11, <1>12, <2>1
  <1>14. diff' = diff /\ asked' = asked /\ job' = job
    BY <1>1
  <1> QED
    <2>1. /\ diffCall' # "failed" /\ diffCall' # "processing" /\ job' = "FINISHED"
      BY <1>1, <1>2
    <2> DEFINE CatsNow(k) == {Category(diff'.rows[i], diff'.keys) : i \in 1 .. k}
               WantedNow(k) == IF asked'.filter = NoValue THEN CatsNow(k) ELSE CatsNow(k) \cap {asked'.filter}
               OfNow(k, c) == {i \in 1 .. k : Category(diff'.rows[i], diff'.keys) = c}
               now == IF Len(diff'.rows) < asked'.cap THEN Len(diff'.rows) ELSE asked'.cap
    <2>2. now = least /\ WantedNow(least) = WantedTo(least) /\ \A c : OfNow(least, c) = OfTo(least, c)
      BY <1>14
    <2> HIDE DEF least
    <2>3. /\ DOMAIN report' = WantedNow(now)
          /\ \A c \in WantedNow(now) :
                 report'[c].ADDED + report'[c].REMOVED + report'[c].CHANGED = Cardinality(OfNow(now, c))
      <3> HIDE DEF WantedNow, WantedTo, OfNow, OfTo, now
      <3> QED
        BY <1>13, <2>2
    <2> QED
      BY <2>1, <2>3, Zenon DEF DiffHonest

\* Any other step: nothing is reported by it, and what was reported stands.
LEMMA StepsStayHonest ==
    ASSUME HonestIInv, [VersionDiffNext]_diffVars, ~Report
    PROVE  DiffHonest'
  <1> USE DEF HonestIInv
  <1> DEFINE Same == UNCHANGED <<diffCall, job, known, elapsed, asked, diff, report>>
  <1>1. CASE Same
    BY <1>1 DEF DiffHonest
  <1>2. CASE diffCall' \notin {"failed", "processing", "reported"}
    BY <1>2 DEF DiffHonest
  <1>3. CASE StartDiff \/ JobMoves \/ Sleep \/ Threw \/ FetchFields \/ FetchProperties
    <2>1. CASE StartDiff
      BY <1>2, <2>1 DEF StartDiff
    <2>2. CASE JobMoves
      BY <1>2, <2>2 DEF JobMoves
    <2>3. CASE Sleep
      BY <1>2, <2>3 DEF Sleep
    <2>4. CASE Threw
      BY <1>2, <2>4 DEF Threw
    <2>5. CASE FetchFields
      BY <1>2, <2>5 DEF FetchFields
    <2>6. CASE FetchProperties
      BY <1>2, <2>6 DEF FetchProperties
    <2> QED
      BY <1>3, <2>1, <2>2, <2>3, <2>4, <2>5, <2>6
  <1>4. CASE Answered
    <2>1. /\ diffCall = "asking" /\ known' = job /\ UNCHANGED <<job, elapsed, asked>>
          /\ elapsed <= asked.wait /\ elapsed \in Nat /\ asked.wait \in Nat
      BY <1>4 DEF Answered, DiffIInv, CallIInv
    <2>2. diffCall' # "reported" /\ (diffCall' = "failed" => job = "FAILED")
      BY <1>4 DEF Answered
    <2>3. diffCall' = "processing" => job = "PROCESSING" /\ ~(elapsed < asked.wait)
      BY <1>4 DEF Answered, PollsOn
    <2> QED
      BY <2>1, <2>2, <2>3 DEF DiffHonest
  <1>5. CASE Read \/ UNCHANGED diffVars
    BY <1>1, <1>5 DEF Read, diffVars
  <1> QED
    BY <1>3, <1>4, <1>5 DEF VersionDiffNext, DiffCallSteps

LEMMA StationsKeep ==
    ASSUME HonestIInv, [VersionDiffNext]_diffVars
    PROVE  StationIInv'
  <1> USE DEF StationIInv
  <1>0. StationIInv /\ DiffIInv /\ NdjsonIInv
    BY DEF HonestIInv, DiffIInv
  <1>1. CASE StartDiff
    BY <1>0, <1>1 DEF StartDiff, ndjsonVars
  <1>2. CASE JobMoves
    BY <1>0, <1>2 DEF JobMoves, ndjsonVars, Jobs
  <1>3. CASE Answered
    <2>1. /\ diffCall = "asking" /\ known' = job /\ UNCHANGED <<job, elapsed, asked, reader>>
          /\ elapsed <= asked.wait /\ elapsed \in Nat /\ asked.wait \in Nat
      BY <1>0, <1>3 DEF Answered, DiffIInv, CallIInv, ndjsonVars
    <2>2. /\ diffCall' \notin {"properties", "reported"}
          /\ diffCall' = "failed" => job = "FAILED"
          /\ diffCall' = "processing" => job = "PROCESSING" /\ ~(elapsed < asked.wait)
          /\ diffCall' = "fields" => job = "FINISHED"
      <3>1. job \in Jobs
        BY <1>0
      <3> QED
        BY <1>3, <3>1 DEF Answered, PollsOn, Jobs
    <2>3. reader' = "none"
      BY <1>0, <2>1
    <2>4. job' \in Jobs
      BY <1>0, <2>1
    <2> QED
      BY <2>1, <2>2, <2>3, <2>4
  <1>4. CASE Sleep
    BY <1>0, <1>4 DEF Sleep, ndjsonVars
  <1>5. CASE Threw
    BY <1>0, <1>5 DEF Threw, ndjsonVars
  <1>6. CASE FetchFields
    <2>1. diffCall = "fields" /\ UNCHANGED <<job, diffCall>>
      BY <1>6 DEF FetchFields
    <2>2. CASE FetchFails
      BY <1>0, <2>1, <2>2 DEF FetchFails
    <2>3. CASE ~FetchFails
      <3>1. PICK ks \in SUBSET FieldKeys :
                diff' = [keys |-> ks] /\ FetchNdjson(SetToSeq({[key |-> k] : k \in ks}), NoCap)
        BY <1>6, <2>3 DEF FetchFields
      <3>2. KeysOf(SetToSeq({[key |-> k] : k \in ks})) = ks
        BY FieldsFile DEF FieldsAsked
      <3>3. file' = SetToSeq({[key |-> k] : k \in ks})
        BY <3>1 DEF FetchNdjson
      <3>4. KeysOf(file)' = diff'.keys
        BY <3>1, <3>2, <3>3 DEF KeysOf
      <3> QED
        BY <1>0, <2>1, <3>4
    <2> QED
      BY <2>2, <2>3
  <1>7. CASE FetchProperties
    <2>1. /\ diffCall = "fields" /\ reader = "released" /\ diffCall' = "properties"
          /\ fields' = DownloadDiffFields /\ UNCHANGED <<job, asked>>
      BY <1>7 DEF FetchProperties
    <2>2. fields' = diff.keys
      BY <1>0, <2>1, KeysRead
    <2>3. CASE FetchFails
      BY <1>0, <2>1, <2>3 DEF FetchFails
    <2>4. CASE ~FetchFails
      <3>1. PICK n \in 0 .. MaxRows : \E rs \in [1 .. n -> DiffRows] :
                diff' = [keys |-> diff.keys, rows |-> rs] /\ FetchNdjson(rs, asked.cap)
        BY <1>7, <2>4 DEF FetchProperties
      <3>2. PICK rs \in [1 .. n -> DiffRows] :
                diff' = [keys |-> diff.keys, rows |-> rs] /\ FetchNdjson(rs, asked.cap)
        BY <3>1
      <3>3. file' = diff'.rows /\ diff'.keys = diff.keys /\ maxLines' = asked.cap
        BY <3>2 DEF FetchNdjson
      <3> QED
        BY <1>0, <2>1, <2>2, <3>3
    <2> QED
      BY <2>3, <2>4
  <1>8. CASE Report
    BY <1>0, <1>8 DEF Report, ndjsonVars
  <1>9. CASE Read
    <2>1. /\ UNCHANGED <<job, diff, diffCall, known, elapsed, asked, fields, report>>
          /\ reader = "open" /\ UNCHANGED <<file, maxLines>>
      BY <1>9 DEF Read, ReadChunk, StreamEnds, StreamBreaks
    <2>2. KeysOf(file)' = KeysOf(file)
      BY <2>1 DEF KeysOf
    <2> QED
      BY <1>0, <2>1, <2>2
  <1>10. CASE UNCHANGED diffVars
    BY <1>0, <1>10 DEF diffVars, ndjsonVars, KeysOf
  <1> QED
    BY <1>1, <1>2, <1>3, <1>4, <1>5, <1>6, <1>7, <1>8, <1>9, <1>10 DEF VersionDiffNext, DiffCallSteps

LEMMA HonestSteps == HonestIInv /\ [VersionDiffNext]_diffVars => HonestIInv'
  <1> SUFFICES ASSUME HonestIInv, [VersionDiffNext]_diffVars PROVE HonestIInv'
    OBVIOUS
  <1>1. DiffIInv'
    BY DiffSteps DEF HonestIInv
  <1>2. DiffHonest'
    BY ReportIsHonest, StepsStayHonest
  <1> QED
    BY <1>1, <1>2, StationsKeep DEF HonestIInv

\* Whatever Autodesk answers and however long the caller waits: mp_diff_versions says of the
\* difference what is so, and its report counts each row it was to count once.
THEOREM DiffsHonest == VersionDiffSpec => []DiffHonest
  <1>1. HonestIInv => DiffHonest
    BY DEF HonestIInv
  <1> QED
    BY <1>1, HonestStarts, HonestSteps, PTL DEF VersionDiffSpec

-----------------------------------------------------------------------------
(***************************************************************************)
(* Reads page by page: what was found are the first elements of the whole  *)
(* answer, and what is left of the model holds the others.                 *)
(***************************************************************************)
\* The elements of s from place a + 1 to place b.
Part(s, a, b) == [i \in 1 .. b - a |-> s[a + i]]

LEMMA PartFacts ==
    ASSUME NEW a \in Nat, NEW b \in Nat, a <= b, NEW s
    PROVE  /\ Len(Part(s, a, b)) = b - a /\ DOMAIN Part(s, a, b) = 1 .. b - a
           /\ \A i \in 1 .. b - a : Part(s, a, b)[i] = s[a + i]
           /\ Part(s, a, b) = Part(Part(s, a, b), 0, b - a)
  <1> DEFINE t == Part(s, a, b)
             n == b - a
  <1>1. n \in Nat /\ t = [i \in 1 .. n |-> t[i]] /\ \A i \in 1 .. n : t[i] = s[a + i]
    BY DEF Part
  <1> HIDE DEF t, n
  <1>2. Len(t) = n
    BY <1>1, LengthOf
  <1>3. t = Part(t, 0, n)
    <2>1. n - 0 = n /\ \A i \in 1 .. n : 0 + i = i
      BY <1>1
    <2> QED
      BY <1>1, <2>1 DEF Part
  <1> QED
    BY <1>1, <1>2, <1>3 DEF t, n

LEMMA PartOfPart ==
    ASSUME NEW a \in Nat, NEW b \in Nat, NEW c \in Nat, NEW d \in Nat, c <= d, d <= b - a, NEW s
    PROVE  Part(Part(s, a, b), c, d) = Part(s, a + c, a + d)
  <1>1. (a + d) - (a + c) = d - c
    OBVIOUS
  <1>2. ASSUME NEW i \in 1 .. d - c PROVE Part(s, a, b)[c + i] = s[a + c + i]
    <2>1. c + i \in 1 .. b - a /\ a + (c + i) = a + c + i
      OBVIOUS
    <2> QED
      BY <2>1 DEF Part
  <1> DEFINE t == Part(s, a, b)
  <1> HIDE DEF t
  <1>3. Part(t, c, d) = [i \in 1 .. d - c |-> s[a + c + i]]
    BY <1>2 DEF Part, t
  <1> QED
    BY <1>1, <1>3 DEF Part, t

LEMMA PartsJoin ==
    ASSUME NEW a \in Nat, NEW b \in Nat, NEW c \in Nat, a <= b, b <= c, NEW s
    PROVE  Part(s, a, b) \o Part(s, b, c) = Part(s, a, c)
  <1> DEFINE t == Part(s, a, b)
             u == Part(s, b, c)
             n == b - a
             m == c - b
  <1>1. n \in Nat /\ m \in Nat /\ n + m = c - a
    OBVIOUS
  <1>2. t = [i \in 1 .. n |-> t[i]] /\ u = [i \in 1 .. m |-> u[i]]
    BY DEF Part
  <1>3. ASSUME NEW i \in 1 .. n + m
        PROVE  (IF i <= n THEN t[i] ELSE u[i - n]) = s[a + i]
    <2>1. CASE i <= n
      BY <2>1 DEF Part
    <2>2. CASE i > n
      <3>1. i - n \in 1 .. c - b /\ b + (i - n) = a + i
        BY <2>2
      <3> QED
        BY <2>2, <3>1 DEF Part
    <2> QED
      BY <2>1, <2>2
  <1> HIDE DEF t, u, n, m
  <1>4. t \o u = [i \in 1 .. n + m |-> IF i <= n THEN t[i] ELSE u[i - n]]
    BY <1>1, <1>2, ConcatOf, SMTT(30)
  <1>5. t \o u = [i \in 1 .. n + m |-> s[a + i]]
    BY <1>3, <1>4
  <1> QED
    BY <1>1, <1>5 DEF Part, t, u

\* What SubSeq takes of a sequence of n elements.
LEMMA SubSeqParts ==
    ASSUME NEW n \in Nat, NEW s, s = Part(s, 0, n), NEW a \in 0 .. n
    PROVE  SubSeq(s, 1, a) = Part(s, 0, a) /\ SubSeq(s, a + 1, n) = Part(s, a, n)
  <1>1. s = [i \in 1 .. n |-> s[i]]
    BY DEF Part
  <1>2. SubSeq(s, 1, a) = [i \in 1 .. a |-> s[i]]
    <2>1. 1 \in Nat \ {0} /\ a \in Nat /\ a <= n
      OBVIOUS
    <2>2. SubSeq(s, 1, a) = [i \in 1 .. a - 1 + 1 |-> s[1 + i - 1]]
      BY <1>1, <2>1, SubSeqOf
    <2>3. a - 1 + 1 = a /\ \A i \in 1 .. a : 1 + i - 1 = i
      OBVIOUS
    <2> QED
      BY <2>2, <2>3
  <1>3. SubSeq(s, a + 1, n) = [i \in 1 .. n - a |-> s[a + i]]
    <2>1. a + 1 \in Nat \ {0} /\ n \in Nat /\ n <= n
      OBVIOUS
    <2>2. SubSeq(s, a + 1, n) = [i \in 1 .. n - (a + 1) + 1 |-> s[a + 1 + i - 1]]
      BY <1>1, <2>1, SubSeqOf
    <2>3. n - (a + 1) + 1 = n - a /\ \A i \in 1 .. n - a : a + 1 + i - 1 = a + i
      OBVIOUS
    <2> QED
      BY <2>2, <2>3
  <1>4. Part(s, 0, a) = [i \in 1 .. a |-> s[i]]
    <2>1. a - 0 = a /\ \A i \in 1 .. a : 0 + i = i
      OBVIOUS
    <2> QED
      BY <2>1 DEF Part
  <1> QED
    BY <1>2, <1>3, <1>4 DEF Part

Listed(s) == Len(s) \in Nat /\ s = Part(s, 0, Len(s))

LEMMA FirstOfParts ==
    ASSUME NEW s, Listed(s), NEW n \in Nat
    PROVE  /\ Least(Len(s), n) \in Nat /\ Least(Len(s), n) <= Len(s) /\ Least(Len(s), n) <= n
           /\ FirstOf(s, n) = Part(s, 0, Least(Len(s), n))
  <1>1. Len(s) \in Nat
    BY DEF Listed
  <1>2. /\ Least(Len(s), n) \in Nat /\ Least(Len(s), n) <= Len(s) /\ Least(Len(s), n) <= n
    BY <1>1 DEF Least
  <1> DEFINE a == Least(Len(s), n)
             N == Len(s)
  <1> HIDE DEF a, N
  <1>3. a \in 0 .. N /\ N \in Nat /\ s = Part(s, 0, N)
    BY <1>1, <1>2 DEF a, N, Listed
  <1>4. SubSeq(s, 1, a) = Part(s, 0, a)
    BY <1>3, SubSeqParts
  <1> QED
    BY <1>2, <1>4 DEF a, FirstOf

LEMMA PartIsSeq ==
    ASSUME NEW a \in Nat, NEW b \in Nat, a <= b, NEW s
    PROVE  Listed(Part(s, a, b)) /\ Len(Part(s, a, b)) = b - a
  BY PartFacts DEF Listed

LEMMA JoinFromStart ==
    ASSUME NEW c \in Nat, NEW e \in Nat, NEW s
    PROVE  Part(s, 0, c) \o Part(s, c, c + e) = Part(s, 0, c + e)
  <1>1. PICK z \in Nat : z = 0
    OBVIOUS
  <1>2. PICK q \in Nat : q = c + e
    OBVIOUS
  <1>3. z <= c /\ c <= q
    BY <1>1, <1>2
  <1>4. Part(s, z, c) \o Part(s, c, q) = Part(s, z, q)
    BY <1>3, PartsJoin, SMTT(30)
  <1> QED
    BY <1>1, <1>2, <1>4

\* A page added to the first c elements, with no more than the cap allows.
Taken(t, c, d, f) ==
    /\ c \in Nat /\ d \in Nat /\ c <= d /\ d <= Len(t) /\ c <= MaxFound
    /\ f = Part(t, 0, c) \o FirstOf(Part(t, c, d), MaxFound - c)

Took(t, d, f) ==
    /\ Len(f) \in Nat /\ Len(f) <= MaxFound /\ f = Part(t, 0, Len(f))
    /\ Len(f) < MaxFound => Len(f) = d
    /\ Len(f) >= MaxFound \/ d = Len(t) => f = FirstOf(t, MaxFound)

LEMMA TakeMore ==
    ASSUME NEW t, Listed(t), NEW c, NEW d, NEW f, Taken(t, c, d, f)
    PROVE  Took(t, d, f)
  <1> USE DEF Taken
  <1>1. MaxFound \in Nat /\ MaxFound - c \in Nat
    BY ScanAssumption
  <1> DEFINE p == Part(t, c, d)
             e == Least(d - c, MaxFound - c)
  <1>2. Listed(p) /\ Len(p) = d - c /\ f = Part(t, 0, c) \o FirstOf(p, MaxFound - c)
    BY PartIsSeq
  <1>3. FirstOf(p, MaxFound - c) = Part(p, 0, e) /\ e \in Nat /\ e <= d - c /\ e <= MaxFound - c
    <2> HIDE DEF p
    <2> QED
      BY <1>1, <1>2, FirstOfParts
  <1>4. e = d - c \/ e = MaxFound - c
    BY DEF Least
  <1> HIDE DEF e
  <1>5. f = Part(t, 0, c) \o Part(p, 0, e) /\ Part(p, 0, e) = Part(t, c, c + e)
    <2>1. Part(Part(t, c, d), 0, e) = Part(t, c + 0, c + e)
      BY <1>3, PartOfPart
    <2>2. Part(p, 0, e) = Part(t, c, c + e)
      BY <2>1
    <2> HIDE DEF p
    <2> QED
      BY <1>2, <1>3, <2>2
  <1>6. f = Part(t, 0, c + e)
    <2> HIDE DEF p
    <2> QED
      BY <1>3, <1>5, JoinFromStart
  <1> HIDE DEF p
  <1>7. Len(f) = c + e
    <2> DEFINE b == c + e
    <2>1. b \in Nat /\ 0 \in Nat /\ 0 <= b /\ b - 0 = b
      BY <1>3
    <2> HIDE DEF b
    <2>2. Len(Part(t, 0, b)) = b
      BY <2>1, PartIsSeq
    <2> QED
      BY <1>6, <2>2 DEF b
  <1>8. Len(t) \in Nat
    BY DEF Listed
  <1>9. ASSUME c + e >= MaxFound \/ d = Len(t) PROVE f = FirstOf(t, MaxFound)
    <2>1. FirstOf(t, MaxFound) = Part(t, 0, Least(Len(t), MaxFound))
      BY <1>1, FirstOfParts
    <2>2. Least(Len(t), MaxFound) = c + e
      BY <1>1, <1>3, <1>4, <1>8, <1>9 DEF Least
    <2> QED
      BY <1>6, <2>1, <2>2
  <1> QED
    BY <1>1, <1>3, <1>4, <1>6, <1>7, <1>9 DEF Took

\* The places of the elements of s that are in good.
Spots(s, good) == {i \in 1 .. Len(s) : s[i] \in good}

LEMMA SpotsInOrder ==
    ASSUME NEW s, Listed(s), NEW good
    PROVE  \E o : \E n \in Nat : IsOrderOf(o, n, Spots(s, good))
  <1> DEFINE S == Spots(s, good)
             N == Len(s)
  <1>1. N \in Nat /\ S \subseteq 1 .. N
    BY DEF Listed, Spots
  <1> HIDE DEF S, N
  <1>2. IsFiniteSet(S) /\ \A x \in S : x \in Int
    <2>1. IsFiniteSet(S)
      BY <1>1, PlacesFinite
    <2> QED
      BY <1>1, <2>1
  <1>3. IsOrderOf(InOrder(S, Ascending(S)), Cardinality(S), S)
    BY <1>2, NumbersInOrder
  <1> QED
    BY <1>3 DEF IsOrderOf, S

LEMMA ChosenIs ==
    ASSUME NEW s, Listed(s), NEW good, NEW n, NEW o, IsOrderOf(o, n, Spots(s, good))
    PROVE  Chosen(s, good) = [k \in 1 .. n |-> s[o[k]]]
  <1> DEFINE S == Spots(s, good)
             N == Len(s)
  <1>1. N \in Nat /\ S \subseteq 1 .. N
    BY DEF Listed, Spots
  <1>2. DOMAIN s = 1 .. N
    BY DEF Listed, Part
  <1>3. S = {i \in DOMAIN s : s[i] \in good}
    BY <1>2 DEF Spots
  <1> HIDE DEF S, N
  <1>4. IsFiniteSet(S) /\ \A x \in S : x \in Int
    <2>1. IsFiniteSet(S)
      BY <1>1, PlacesFinite
    <2> QED
      BY <1>1, <2>1
  <1>5. InOrder(S, Ascending(S)) = o
    BY <1>4, AlreadyInOrder DEF S
  <1>6. DOMAIN o = 1 .. n
    BY DEF IsOrderOf
  <1>7. Chosen(s, good) = [k \in DOMAIN o |-> s[o[k]]]
    BY <1>3, <1>5, Zenon DEF Chosen
  <1> QED
    BY <1>6, <1>7

\* The first c of n numbers in order are those up to a.
UpTo(o, n, a, c) == \A i \in 1 .. n : o[i] <= a <=> i <= c

LEMMA Divide ==
    ASSUME NEW S, \A x \in S : x \in Int, NEW n, NEW o, IsOrderOf(o, n, S), NEW a \in Int
    PROVE  \E c \in 0 .. n : UpTo(o, n, a, c)
  <1> USE DEF UpTo
  <1> DEFINE over == {k \in 1 .. n : o[k] > a}
  <1>1. n \in Nat /\ \A k \in 1 .. n : o[k] \in Int
    BY DEF IsOrderOf
  <1>2. CASE over = {}
    <2>1. n \in 0 .. n /\ \A k \in 1 .. n : o[k] <= a /\ k <= n
      BY <1>1, <1>2
    <2> QED
      BY <2>1
  <1>3. CASE over # {}
    <2>1. PICK m \in over : \A j \in over : m <= j
      <3>1. over \in SUBSET (1 .. n)
        OBVIOUS
      <3> HIDE DEF over
      <3> QED
        BY <1>1, <1>3, <3>1, LeastPosition
    <2>2. m \in 1 .. n /\ o[m] > a /\ m - 1 \in 0 .. n
      BY <1>1
    <2>3. ASSUME NEW k \in 1 .. n PROVE o[k] <= a <=> k <= m - 1
      <3>1. CASE k < m
        <4>1. k \notin over /\ k <= m - 1
          BY <2>1, <2>2, <3>1
        <4> QED
          BY <1>1, <4>1
      <3>2. CASE k = m
        BY <1>1, <2>2, <3>2
      <3>3. CASE k > m
        <4>1. o[m] < o[k]
          BY <2>2, <3>3 DEF IsOrderOf
        <4> HIDE DEF over
        <4>2. o[k] > a /\ ~(k <= m - 1)
          BY <1>1, <2>2, <3>3, <4>1
        <4> QED
          BY <1>1, <4>2
      <3> QED
        BY <2>2, <3>1, <3>2, <3>3
    <2> QED
      BY <2>2, <2>3
  <1> QED
    BY <1>2, <1>3

\* The places from a + 1 to b of s hold the chosen elements from c + 1 to d.
Between(s, o, n, a, b, c, d) ==
    /\ a \in Nat /\ b \in Nat /\ a <= b /\ b <= Len(s)
    /\ c \in Nat /\ d \in Nat /\ c <= d /\ d <= n
    /\ UpTo(o, n, a, c) /\ UpTo(o, n, b, d)

LEMMA ChosenOfPart ==
    ASSUME NEW s, Listed(s), NEW good, NEW n, NEW o, IsOrderOf(o, n, Spots(s, good)),
           NEW a, NEW b, NEW c, NEW d, Between(s, o, n, a, b, c, d)
    PROVE  Chosen(Part(s, a, b), good) = [k \in 1 .. d - c |-> s[o[c + k]]]
  <1> DEFINE t == Part(s, a, b)
             m == d - c
             g == [k \in 1 .. m |-> o[c + k] - a]
  <1> USE DEF Between
  <1>1. m \in Nat /\ n \in Nat /\ Len(s) \in Nat
    BY DEF IsOrderOf, Listed
  <1>2. Listed(t) /\ Len(t) = b - a /\ \A i \in 1 .. b - a : t[i] = s[a + i]
    BY PartIsSeq, PartFacts
  <1>3. ASSUME NEW k \in 1 .. n
        PROVE  o[k] \in Nat /\ o[k] \in 1 .. Len(s) /\ s[o[k]] \in good
    BY DEF IsOrderOf, Spots
  <1>4. ASSUME NEW k \in 1 .. m
        PROVE  /\ c + k \in 1 .. n /\ o[c + k] \in Nat
               /\ o[c + k] - a \in 1 .. b - a /\ a + (o[c + k] - a) = o[c + k]
    <2>1. c + k \in 1 .. n /\ ~(c + k <= c) /\ c + k <= d
      BY <1>1
    <2>2. o[c + k] \in Nat /\ ~(o[c + k] <= a) /\ o[c + k] <= b
      BY <1>3, <2>1 DEF UpTo
    <2> QED
      BY <2>1, <2>2
  <1> HIDE DEF t
  <1>5. IsOrderOf(g, m, Spots(t, good))
    <2>1. ASSUME NEW k \in 1 .. m PROVE g[k] \in Spots(t, good)
      <3>1. g[k] \in 1 .. b - a /\ t[g[k]] = s[o[c + k]]
        BY <1>2, <1>4
      <3>2. s[o[c + k]] \in good
        BY <1>3, <1>4
      <3> HIDE DEF g
      <3> QED
        BY <1>2, <3>1, <3>2 DEF Spots
    <2>2. ASSUME NEW i \in 1 .. m, NEW j \in 1 .. m, i < j PROVE g[i] < g[j]
      <3>1. c + i \in 1 .. n /\ c + j \in 1 .. n /\ c + i < c + j
        <4>1. i \in Int /\ j \in Int
          BY <1>1
        <4> HIDE DEF m
        <4> QED
          BY <1>4, <2>2, <4>1
      <3>2. o[c + i] < o[c + j]
        BY <3>1 DEF IsOrderOf
      <3>3. o[c + i] \in Nat /\ o[c + j] \in Nat /\ g[i] = o[c + i] - a /\ g[j] = o[c + j] - a
        BY <1>4
      <3> HIDE DEF g
      <3> QED
        BY <3>2, <3>3
    <2>3. ASSUME NEW x \in Spots(t, good) PROVE \E k \in 1 .. m : g[k] = x
      <3>1. x \in 1 .. b - a /\ s[a + x] \in good
        BY <1>2 DEF Spots
      <3>2. a + x \in Spots(s, good)
        BY <1>1, <3>1 DEF Spots
      <3>3. PICK k \in 1 .. n : o[k] = a + x
        BY <3>2 DEF IsOrderOf
      <3>4. ~(k <= c) /\ k <= d
        <4>1. ~(o[k] <= a) /\ o[k] <= b
          BY <3>1, <3>3
        <4> QED
          BY <4>1 DEF UpTo
      <3>5. k - c \in 1 .. m /\ c + (k - c) = k
        BY <1>1, <3>4
      <3>6. g[k - c] = o[k] - a
        BY <3>5
      <3> HIDE DEF g, m
      <3> QED
        BY <3>1, <3>3, <3>5, <3>6
    <2> DEFINE S == Spots(t, good)
    <2>4. g \in [1 .. m -> S]
      <3>1. g = [k \in 1 .. m |-> g[k]]
        OBVIOUS
      <3> HIDE DEF g, S, m
      <3>2. \A k \in 1 .. m : g[k] \in S
        BY <2>1 DEF S
      <3> QED
        BY <3>1, <3>2
    <2> HIDE DEF g, m
    <2> QED
      BY <1>1, <2>2, <2>3, <2>4 DEF IsOrderOf
  <1>6. Chosen(t, good) = [k \in 1 .. m |-> t[g[k]]]
    <2> HIDE DEF g, m
    <2> QED
      BY <1>2, <1>5, ChosenIs
  <1>7. ASSUME NEW k \in 1 .. m PROVE t[g[k]] = s[o[c + k]]
    BY <1>2, <1>4
  <1> HIDE DEF g, m
  <1>8. [k \in 1 .. m |-> t[g[k]]] = [k \in 1 .. m |-> s[o[c + k]]]
    BY <1>7
  <1> QED
    BY <1>6, <1>8 DEF m, t

\* What is chosen of the first k elements, and of those after them.
LEMMA ChosenSplit ==
    ASSUME NEW s, Listed(s), NEW good, NEW k \in 0 .. Len(s), NEW t, t = Chosen(s, good)
    PROVE  /\ Listed(t)
           /\ \E c \in 0 .. Len(t) :
                  /\ Chosen(Part(s, 0, k), good) = Part(t, 0, c)
                  /\ Chosen(Part(s, k, Len(s)), good) = Part(t, c, Len(t))
                  /\ k = Len(s) => c = Len(t)
  <1>1. PICK o : \E n \in Nat : IsOrderOf(o, n, Spots(s, good))
    BY SpotsInOrder
  <1>2. PICK n \in Nat : IsOrderOf(o, n, Spots(s, good))
    BY <1>1
  <1>3. t = [i \in 1 .. n |-> s[o[i]]]
    BY <1>2, ChosenIs
  <1>4. t = [i \in 1 .. n |-> t[i]] /\ Len(t) = n
    <2>1. t = [i \in 1 .. n |-> t[i]]
      BY <1>3
    <2> QED
      BY <2>1, LengthOf
  <1>5. Listed(t)
    <2>1. n - 0 = n /\ \A i \in 1 .. n : 0 + i = i
      OBVIOUS
    <2> QED
      BY <1>4, <2>1 DEF Listed, Part
  <1>6. PICK N \in Nat : N = Len(s)
    BY DEF Listed
  <1>7. \A x \in Spots(s, good) : x \in Int /\ 0 < x /\ x <= N
    BY <1>6 DEF Spots
  <1>8. PICK c \in 0 .. n : UpTo(o, n, k, c)
    <2> DEFINE S == Spots(s, good)
    <2>1. \A x \in S : x \in Int
      BY <1>7
    <2>2. k \in Int
      BY <1>6
    <2> HIDE DEF S
    <2>3. IsOrderOf(o, n, S)
      BY <1>2 DEF S
    <2> QED
      BY <2>1, <2>2, <2>3, Divide
  <1>9. PICK z \in Nat : z = 0
    OBVIOUS
  <1>10. UpTo(o, n, z, z) /\ UpTo(o, n, N, n)
    <2>1. ASSUME NEW i \in 1 .. n PROVE o[i] \in Int /\ 0 < o[i] /\ o[i] <= N
      BY <1>2, <1>7 DEF IsOrderOf
    <2> QED
      BY <1>9, <2>1 DEF UpTo
  <1>11. k \in Nat /\ z <= k /\ k <= Len(s) /\ k <= N /\ c \in Nat /\ z <= c /\ c <= n /\ n <= n /\ N <= Len(s)
    BY <1>6, <1>9
  <1>12. Chosen(Part(s, z, k), good) = [i \in 1 .. c - z |-> s[o[z + i]]]
    <2>1. Between(s, o, n, z, k, z, c)
      BY <1>8, <1>10, <1>11 DEF Between
    <2> QED
      BY <1>2, <2>1, ChosenOfPart
  <1>13. Chosen(Part(s, k, N), good) = [i \in 1 .. n - c |-> s[o[c + i]]]
    <2>1. Between(s, o, n, k, N, c, n)
      BY <1>8, <1>10, <1>11 DEF Between
    <2> QED
      BY <1>2, <2>1, ChosenOfPart
  <1>14. [i \in 1 .. c - z |-> s[o[z + i]]] = Part(t, z, c)
    <2>1. \A i \in 1 .. c - z : z + i \in 1 .. n
      BY <1>9
    <2>2. \A i \in 1 .. c - z : t[z + i] = s[o[z + i]]
      BY <1>3, <2>1
    <2> QED
      BY <2>2 DEF Part
  <1>15. [i \in 1 .. n - c |-> s[o[c + i]]] = Part(t, c, n)
    <2>1. \A i \in 1 .. n - c : c + i \in 1 .. n
      OBVIOUS
    <2>2. \A i \in 1 .. n - c : t[c + i] = s[o[c + i]]
      BY <1>3, <2>1
    <2> QED
      BY <2>2 DEF Part
  <1>16. k = N => c = n
    <2>1. ASSUME k = N, c # n PROVE FALSE
      <3>1. n \in 1 .. n /\ ~(n <= c)
        BY <2>1
      <3> QED
        BY <1>8, <1>10, <2>1, <3>1 DEF UpTo
    <2> QED
      BY <2>1
  <1> QED
    BY <1>4, <1>5, <1>6, <1>9, <1>12, <1>13, <1>14, <1>15, <1>16

\* The area of a level is what the recursive definition says.
LEMMA AreaSteps ==
    ASSUME NEW rs, Len(rs) \in Nat, NEW l
    PROVE  /\ AreaUpTo(rs, l)[0] = 0
           /\ \A k \in 1 .. Len(rs) :
                  AreaUpTo(rs, l)[k] = IF rs[k].level = l THEN AreaUpTo(rs, l)[k - 1] + rs[k].area
                                       ELSE AreaUpTo(rs, l)[k - 1]
  <1> DEFINE N == Len(rs)
             next(f, k) == IF k = 0 THEN 0
                           ELSE IF rs[k].level = l THEN f[k - 1] + rs[k].area ELSE f[k - 1]
             Sums(f, n) == f = [k \in 0 .. n |-> next(f, k)]
             wrong == {n \in 1 .. N : ~ \E f : Sums(f, n)}
  <1> HIDE DEF N
  <1>1. N \in Nat /\ N = Len(rs)
    BY DEF N
  <1>2. \E f : Sums(f, 0)
    <2> DEFINE w == [k \in 0 .. 0 |-> 0]
    <2>1. w = [k \in 0 .. 0 |-> next(w, k)]
      OBVIOUS
    <2> HIDE DEF w, next
    <2> QED
      BY <2>1
  <1>3. ASSUME NEW m \in 1 .. N, NEW f, Sums(f, m - 1) PROVE \E g : Sums(g, m)
    <2> DEFINE g == [k \in 0 .. m |-> IF k = m THEN next(f, m) ELSE f[k]]
    <2>1. ASSUME NEW k \in 0 .. m PROVE g[k] = next(g, k)
      <3>1. CASE k = m
        <4>1. g[k] = next(f, m) /\ k - 1 \in 0 .. m /\ k - 1 # m /\ k # 0
          BY <3>1
        <4>2. g[k - 1] = f[k - 1]
          BY <4>1
        <4> HIDE DEF g
        <4> QED
          BY <3>1, <4>1, <4>2
      <3>2. CASE k # m
        <4>1. k \in 0 .. m - 1 /\ g[k] = f[k]
          BY <3>2
        <4>2. f[k] = next(f, k)
          <5> HIDE DEF next, g
          <5> QED
            BY <1>3, <4>1
        <4>3. CASE k = 0
          BY <4>1, <4>2, <4>3
        <4>4. CASE k # 0
          <5>1. k - 1 \in 0 .. m /\ k - 1 # m
            BY <4>1, <4>4
          <5>2. g[k - 1] = f[k - 1]
            BY <5>1
          <5> HIDE DEF g
          <5> QED
            BY <4>1, <4>2, <4>4, <5>2
        <4> QED
          BY <4>3, <4>4
      <3> QED
        BY <3>1, <3>2
    <2>2. g = [k \in 0 .. m |-> g[k]]
      OBVIOUS
    <2> HIDE DEF g, next
    <2>3. Sums(g, m)
      BY <2>1, <2>2
    <2> QED
      BY <2>3
  <1> HIDE DEF Sums
  <1>4. wrong = {}
    <2>1. SUFFICES ASSUME wrong # {} PROVE FALSE
      OBVIOUS
    <2>2. wrong \in SUBSET (1 .. N)
      OBVIOUS
    <2>3. PICK m \in wrong : \A j \in wrong : m <= j
      <3> HIDE DEF wrong
      <3> QED
        BY <1>1, <2>1, <2>2, LeastPosition
    <2>4. m \in 1 .. N /\ ~ \E f : Sums(f, m)
      OBVIOUS
    <2>5. m = 1 \/ m - 1 \in 1 .. N
      BY <1>1, <2>4
    <2>6. \E f : Sums(f, m - 1)
      <3>1. CASE m = 1
        BY <1>2, <3>1
      <3>2. CASE m # 1
        <4>1. m - 1 \in 1 .. N /\ ~(m <= m - 1)
          BY <2>4, <2>5, <3>2
        <4>2. m - 1 \notin wrong
          <5> HIDE DEF wrong
          <5> QED
            BY <2>3, <4>1
        <4> QED
          BY <4>1, <4>2
      <3> QED
        BY <3>1, <3>2
    <2> QED
      BY <1>3, <2>4, <2>6
  <1>5. \E f : Sums(f, N)
    <2>1. N = 0 \/ N \in 1 .. N
      BY <1>1
    <2>2. CASE N = 0
      BY <1>2, <2>2
    <2>3. CASE N \in 1 .. N
      BY <1>4, <2>3
    <2> QED
      BY <2>1, <2>2, <2>3
  <1> DEFINE sum == CHOOSE f : Sums(f, N)
  <1>6. Sums(sum, N)
    BY <1>5
  <1>7. AreaUpTo(rs, l) = sum
    BY <1>1 DEF AreaUpTo, Sums
  <1> HIDE DEF sum
  <1>8. ASSUME NEW k \in 0 .. N PROVE sum[k] = next(sum, k)
    <2> HIDE DEF next
    <2> QED
      BY <1>6 DEF Sums
  <1>9. sum[0] = 0
    BY <1>1, <1>8
  <1>10. ASSUME NEW k \in 1 .. N
         PROVE  sum[k] = IF rs[k].level = l THEN sum[k - 1] + rs[k].area ELSE sum[k - 1]
    <2>1. k \in 0 .. N /\ k # 0
      BY <1>1
    <2>2. sum[k] = next(sum, k)
      BY <1>8, <2>1
    <2> QED
      BY <2>1, <2>2
  <1> QED
    BY <1>1, <1>7, <1>9, <1>10

\* A level that the first c rows do not have has no area among them.
LEMMA NoArea ==
    ASSUME NEW rs, Len(rs) \in Nat, NEW l, NEW c \in 0 .. Len(rs), \A i \in 1 .. c : rs[i].level # l
    PROVE  AreaUpTo(rs, l)[c] = 0
  <1> DEFINE sum == AreaUpTo(rs, l)
             wrong == {k \in 1 .. c : sum[k] # 0}
  <1>1. sum[0] = 0 /\ c \in Nat
    BY AreaSteps
  <1>2. \A k \in 1 .. c : sum[k] = sum[k - 1]
    BY AreaSteps
  <1> HIDE DEF sum
  <1>3. SUFFICES ASSUME wrong # {} PROVE FALSE
    BY <1>1 DEF sum
  <1>4. wrong \in SUBSET (1 .. c)
    OBVIOUS
  <1>5. PICK m \in wrong : \A j \in wrong : m <= j
    <2> HIDE DEF wrong
    <2> QED
      BY <1>1, <1>3, <1>4, LeastPosition
  <1>6. m \in 1 .. c /\ sum[m] # 0 /\ (m = 1 \/ m - 1 \in 1 .. c) /\ ~(m <= m - 1)
    OBVIOUS
  <1>7. sum[m - 1] = 0
    <2>1. CASE m = 1
      BY <1>1, <2>1
    <2>2. CASE m # 1
      <3>1. m - 1 \in 1 .. c /\ m - 1 \notin wrong
        <4> HIDE DEF wrong
        <4> QED
          BY <1>5, <1>6, <2>2
      <3> QED
        BY <3>1
    <2> QED
      BY <2>1, <2>2
  <1> QED
    BY <1>2, <1>6, <1>7

\* The rollup of the first c rows.
Levels(rs, c) == {rs[i].level : i \in 1 .. c}
OfLevel(rs, c, l) == {i \in 1 .. c : rs[i].level = l}
Group(rs, c, l) == [count |-> Cardinality(OfLevel(rs, c, l)), area |-> AreaUpTo(rs, l)[c]]
Rolled(rs, c) == [l \in Levels(rs, c) |-> Group(rs, c, l)]

LEMMA OneMoreOfLevel ==
    ASSUME NEW rs, NEW c \in Nat, NEW l
    PROVE  /\ Cardinality(OfLevel(rs, c, l)) \in Nat
           /\ rs[c + 1].level = l =>
                  Cardinality(OfLevel(rs, c + 1, l)) = Cardinality(OfLevel(rs, c, l)) + 1
           /\ rs[c + 1].level # l => OfLevel(rs, c + 1, l) = OfLevel(rs, c, l)
           /\ l \notin Levels(rs, c) => Cardinality(OfLevel(rs, c, l)) = 0
  <1> DEFINE S == OfLevel(rs, c, l)
  <1>1. S \subseteq 1 .. c /\ c + 1 \notin S
    BY DEF OfLevel
  <1>2. rs[c + 1].level = l => OfLevel(rs, c + 1, l) = S \cup {c + 1}
    BY DEF OfLevel
  <1>3. rs[c + 1].level # l => OfLevel(rs, c + 1, l) = S
    BY DEF OfLevel
  <1>4. l \notin Levels(rs, c) => S = {}
    BY DEF OfLevel, Levels
  <1> HIDE DEF S
  <1>5. IsFiniteSet(S)
    BY <1>1, PlacesFinite
  <1>6. Cardinality(S) \in Nat
    BY <1>5, FS_CardinalityType
  <1>7. Cardinality(S \cup {c + 1}) = Cardinality(S) + 1
    BY <1>1, <1>5, FS_AddElement
  <1>8. Cardinality({}) = 0
    BY FS_EmptySet
  <1> QED
    BY <1>2, <1>3, <1>4, <1>6, <1>7, <1>8 DEF S

\* One row more.
LEMMA RolledStep ==
    ASSUME NEW rs, Len(rs) \in Nat, NEW c \in Nat, c + 1 <= Len(rs)
    PROVE  InGroup(Rolled(rs, c), rs[c + 1]) = Rolled(rs, c + 1)
  <1> DEFINE r == rs[c + 1]
             g == Rolled(rs, c)
             old == IF r.level \in DOMAIN g THEN g[r.level] ELSE [count |-> 0, area |-> 0]
             new(l) == IF l = r.level THEN [count |-> old.count + 1, area |-> old.area + r.area]
                       ELSE g[l]
  <1>1. DOMAIN g = Levels(rs, c) /\ \A l \in Levels(rs, c) : g[l] = Group(rs, c, l)
    BY DEF Rolled
  <1>2. Levels(rs, c + 1) = Levels(rs, c) \cup {r.level}
    BY DEF Levels
  <1>3. InGroup(g, r) = [l \in DOMAIN g \cup {r.level} |-> new(l)]
    BY DEF InGroup
  <1> HIDE DEF g, r
  <1>4. old = Group(rs, c, r.level)
    <2>1. CASE r.level \in Levels(rs, c)
      BY <1>1, <2>1
    <2>2. CASE r.level \notin Levels(rs, c)
      <3>1. Cardinality(OfLevel(rs, c, r.level)) = 0
        BY <2>2, OneMoreOfLevel
      <3>2. AreaUpTo(rs, r.level)[c] = 0
        <4>1. c \in 0 .. Len(rs) /\ \A i \in 1 .. c : rs[i].level # r.level
          BY <2>2 DEF Levels
        <4> QED
          BY <4>1, NoArea
      <3>3. old = [count |-> 0, area |-> 0]
        BY <1>1, <2>2
      <3> QED
        BY <3>1, <3>2, <3>3 DEF Group
    <2> QED
      BY <2>1, <2>2
  <1> HIDE DEF old
  <1>5. ASSUME NEW l PROVE AreaUpTo(rs, l)[c + 1] = IF r.level = l THEN AreaUpTo(rs, l)[c] + r.area
                                                    ELSE AreaUpTo(rs, l)[c]
    <2>1. c + 1 \in 1 .. Len(rs) /\ c + 1 - 1 = c
      OBVIOUS
    <2>2. AreaUpTo(rs, l)[c + 1] = IF rs[c + 1].level = l THEN AreaUpTo(rs, l)[c + 1 - 1] + rs[c + 1].area
                                   ELSE AreaUpTo(rs, l)[c + 1 - 1]
      BY <2>1, AreaSteps
    <2> QED
      BY <2>1, <2>2 DEF r
  <1>6. ASSUME NEW l \in Levels(rs, c + 1) PROVE new(l) = Group(rs, c + 1, l)
    <2>1. CASE l = r.level
      <3>1. Cardinality(OfLevel(rs, c + 1, l)) = Cardinality(OfLevel(rs, c, l)) + 1
        BY <2>1, OneMoreOfLevel DEF r
      <3>2. AreaUpTo(rs, l)[c + 1] = AreaUpTo(rs, l)[c] + r.area
        BY <1>5, <2>1
      <3>3. old.count = Cardinality(OfLevel(rs, c, l)) /\ old.area = AreaUpTo(rs, l)[c]
        BY <1>4, <2>1 DEF Group
      <3>4. new(l) = [count |-> old.count + 1, area |-> old.area + r.area]
        BY <2>1
      <3> QED
        BY <3>1, <3>2, <3>3, <3>4 DEF Group
    <2>2. CASE l # r.level
      <3>1. OfLevel(rs, c + 1, l) = OfLevel(rs, c, l)
        BY <2>2, OneMoreOfLevel DEF r
      <3>2. AreaUpTo(rs, l)[c + 1] = AreaUpTo(rs, l)[c]
        BY <1>5, <2>2
      <3>3. new(l) = Group(rs, c, l)
        BY <1>1, <1>2, <2>2
      <3> QED
        BY <3>1, <3>2, <3>3 DEF Group
    <2> QED
      BY <2>1, <2>2
  <1> HIDE DEF new
  <1>7. InGroup(g, r) = [l \in Levels(rs, c + 1) |-> new(l)]
    BY <1>1, <1>2, <1>3
  <1>8. InGroup(g, r) = [l \in Levels(rs, c + 1) |-> Group(rs, c + 1, l)]
    BY <1>6, <1>7
  <1> QED
    BY <1>8 DEF g, r, Rolled

\* The loop over the rows of a page.
LEMMA GroupsRows ==
    ASSUME NEW rs, Listed(rs), NEW c \in Nat, NEW d \in Nat, c <= d, d <= Len(rs),
           groups = Rolled(rs, c)
    PROVE  Grouped(Part(rs, c, d)) = Rolled(rs, d)
  <1> DEFINE p == Part(rs, c, d)
             n == d - c
             w == [k \in 0 .. n |-> Rolled(rs, c + k)]
             next(f, k) == IF k = 0 THEN groups ELSE InGroup(f[k - 1], p[k])
  <1>1. Len(p) = n /\ n \in Nat /\ Len(rs) \in Nat
    BY PartIsSeq DEF Listed
  <1>2. ASSUME NEW k \in 1 .. n PROVE p[k] = rs[c + k]
    BY PartFacts
  <1> HIDE DEF p
  <1>3. ASSUME NEW f, NEW k \in 1 .. n, f[k - 1] = Rolled(rs, c + (k - 1))
        PROVE  next(f, k) = Rolled(rs, c + k)
    <2> DEFINE j == c + (k - 1)
    <2>1. j \in Nat /\ j + 1 <= Len(rs) /\ j + 1 = c + k /\ k # 0
      BY <1>1
    <2> HIDE DEF j
    <2>2. InGroup(Rolled(rs, j), rs[j + 1]) = Rolled(rs, j + 1)
      BY <1>1, <2>1, RolledStep
    <2>3. next(f, k) = InGroup(f[k - 1], rs[j + 1])
      BY <1>2, <2>1
    <2>4. f[k - 1] = Rolled(rs, j)
      BY <1>3 DEF j
    <2> HIDE DEF next
    <2> QED
      BY <2>1, <2>2, <2>3, <2>4
  <1>4. c + 0 = c /\ c + n = d
    OBVIOUS
  <1>5. w = [k \in 0 .. n |-> next(w, k)]
    <2>1. ASSUME NEW k \in 0 .. n PROVE Rolled(rs, c + k) = next(w, k)
      <3>1. CASE k = 0
        BY <1>4, <3>1
      <3>2. CASE k # 0
        <4>1. k \in 1 .. n /\ k - 1 \in 0 .. n
          BY <1>1, <3>2
        <4>2. w[k - 1] = Rolled(rs, c + (k - 1))
          BY <4>1
        <4> HIDE DEF w, next
        <4> QED
          BY <1>3, <4>1, <4>2
      <3> QED
        BY <3>1, <3>2
    <2> HIDE DEF next
    <2> QED
      BY <2>1
  <1> DEFINE after == CHOOSE f : f = [k \in 0 .. n |-> next(f, k)]
  <1>6. Grouped(p) = after[n]
    BY <1>1 DEF Grouped
  <1>7. after = [k \in 0 .. n |-> next(after, k)]
    <2> HIDE DEF next, w
    <2> QED
      BY <1>5
  <1> HIDE DEF after, w
  <1>8. after[0] = Rolled(rs, c + 0)
    BY <1>1, <1>4, <1>7
  <1> DEFINE wrong == {k \in 1 .. n : after[k] # Rolled(rs, c + k)}
  <1>9. wrong = {}
    <2>1. SUFFICES ASSUME wrong # {} PROVE FALSE
      OBVIOUS
    <2>2. wrong \in SUBSET (1 .. n)
      OBVIOUS
    <2>3. PICK k \in wrong : \A j \in wrong : k <= j
      <3> HIDE DEF wrong, n
      <3> QED
        BY <1>1, <2>1, <2>2, LeastPosition
    <2>4. k \in 1 .. n /\ after[k] # Rolled(rs, c + k)
      OBVIOUS
    <2> HIDE DEF n
    <2>5. k - 1 = 0 \/ k - 1 \in 1 .. n
      BY <1>1, <2>4
    <2>6. after[k - 1] = Rolled(rs, c + (k - 1))
      <3>1. CASE k - 1 = 0
        BY <1>8, <3>1
      <3>2. CASE k - 1 \in 1 .. n
        <4>1. ~(k <= k - 1)
          BY <2>4
        <4>2. k - 1 \notin wrong
          <5> HIDE DEF wrong
          <5> QED
            BY <2>3, <4>1
        <4> QED
          BY <3>2, <4>2
      <3> QED
        BY <2>5, <3>1, <3>2
    <2>7. next(after, k) = Rolled(rs, c + k)
      <3> HIDE DEF next
      <3> QED
        BY <1>3, <2>4, <2>6
    <2>8. after[k] = next(after, k)
      <3>1. k \in 0 .. n
        BY <2>4
      <3> HIDE DEF next
      <3> QED
        BY <1>7, <3>1
    <2> QED
      BY <2>4, <2>7, <2>8
  <1>10. after[n] = Rolled(rs, d)
    <2>1. CASE n = 0
      BY <1>4, <1>8, <2>1
    <2>2. CASE n # 0
      <3>1. n \in 1 .. n
        BY <1>1, <2>2
      <3>2. after[n] = Rolled(rs, c + n)
        BY <1>9, <3>1
      <3> QED
        BY <1>4, <3>2
    <2> QED
      BY <2>1, <2>2
  <1> QED
    BY <1>6, <1>10 DEF p

LEMMA NothingYet ==
    /\ Len(<<>>) = 0
    /\ \A s : Part(s, 0, 0) = <<>>
    /\ \A rs : Rolled(rs, 0) = <<>>
  <1>1. ASSUME NEW s PROVE Part(s, 0, 0) = <<>>
    <2>1. 1 .. 0 - 0 = {}
      OBVIOUS
    <2> QED
      BY <2>1 DEF Part
  <1>2. ASSUME NEW rs PROVE Rolled(rs, 0) = <<>>
    <2>1. Levels(rs, 0) = {}
      BY DEF Levels
    <2> QED
      BY <2>1 DEF Rolled
  <1> QED
    BY <1>1, <1>2

\* Between two pages: what was found are the first elements of the whole answer, and what is
\* left of the model holds the others.
OnProperties(good, m, l, f) ==
    LET all == Chosen(m, good)
    IN /\ Listed(l) /\ Listed(all)
       /\ \E c \in 0 .. Len(all) :
              c <= MaxFound /\ f = Part(all, 0, c) /\ Chosen(l, good) = Part(all, c, Len(all))

OnElements(m, l, f) ==
    LET all == Chosen(m, OfCategory)
    IN /\ Listed(all)
       /\ \E c \in 0 .. Len(all) :
              c <= MaxFound /\ f = Part(all, 0, c) /\ l = Part(all, c, Len(all))

OnAggregate(good, m, l, s, g) ==
    LET counted == Chosen(FirstOf(m, MaxScan), good)
    IN /\ Listed(m) /\ Listed(l) /\ Listed(counted)
       /\ s \in 0 .. MaxScan /\ s + Len(l) = Len(m)
       /\ \E c \in 0 .. Len(counted) :
              /\ g = Rolled(counted, c)
              /\ Chosen(FirstOf(l, MaxScan - s), good) = Part(counted, c, Len(counted))

LEMMA FoundLength ==
    ASSUME NEW t, NEW c \in Nat
    PROVE  Len(Part(t, 0, c)) = c
  <1>1. PICK z \in Nat : z = 0
    OBVIOUS
  <1>2. z <= c /\ c - z = c
    BY <1>1
  <1>3. Len(Part(t, z, c)) = c - z
    BY <1>2, PartFacts
  <1> QED
    BY <1>1, <1>2, <1>3

\* What getMdProperties makes of a page of n rows.
Finds(good, l, n, f, k, h) ==
    /\ n \in Nat /\ n <= Len(l)
    /\ h = f \o FirstOf(Chosen(SubSeq(l, 1, n), good), MaxFound - Len(f))
    /\ k = SubSeq(l, n + 1, Len(l))

LEMMA PropertiesPage ==
    ASSUME NEW good, NEW m, NEW l, NEW f, OnProperties(good, m, l, f),
           NEW n, NEW k, NEW h, Finds(good, l, n, f, k, h)
    PROVE  /\ Len(h) \in Nat /\ Len(h) <= MaxFound
           /\ Len(h) < MaxFound => OnProperties(good, m, k, h)
           /\ Len(h) >= MaxFound \/ n = Len(l) => h = FirstOf(Chosen(m, good), MaxFound)
  <1> USE DEF Finds
  <1> DEFINE all == Chosen(m, good)
  <1>1. Listed(l) /\ Listed(all)
    BY DEF OnProperties
  <1>2. PICK c \in 0 .. Len(all) :
            c <= MaxFound /\ f = Part(all, 0, c) /\ Chosen(l, good) = Part(all, c, Len(all))
    BY DEF OnProperties
  <1> HIDE DEF all
  <1>3. PICK L \in Nat : L = Len(all)
    BY <1>1 DEF Listed
  <1>4. PICK N \in Nat : N = Len(l)
    BY <1>1 DEF Listed
  <1>5. c \in Nat /\ c <= L /\ n \in 0 .. N
    BY <1>3, <1>4
  <1>6. SubSeq(l, 1, n) = Part(l, 0, n) /\ k = Part(l, n, N)
    <2>1. l = Part(l, 0, N)
      BY <1>1, <1>4 DEF Listed
    <2> QED
      BY <1>4, <1>5, <2>1, SubSeqParts
  <1> DEFINE t == Chosen(l, good)
  <1>7. t = Part(all, c, L) /\ Len(t) = L - c
    <2>1. t = Part(all, c, L)
      BY <1>2, <1>3
    <2> QED
      BY <1>5, <2>1, PartFacts
  <1>8. PICK d \in 0 .. Len(t) :
            /\ Chosen(Part(l, 0, n), good) = Part(t, 0, d)
            /\ Chosen(Part(l, n, N), good) = Part(t, d, Len(t))
            /\ n = N => d = Len(t)
    <2>1. n \in 0 .. Len(l)
      BY <1>4, <1>5
    <2> QED
      BY <1>1, <1>4, <2>1, ChosenSplit
  <1> HIDE DEF t
  <1>9. d \in Nat /\ d <= L - c
    BY <1>5, <1>7
  <1>10. Part(t, 0, d) = Part(all, c, c + d) /\ Part(t, d, L - c) = Part(all, c + d, L)
    <2>1. PICK z \in Nat : z = 0
      OBVIOUS
    <2>2. Part(Part(all, c, L), z, d) = Part(all, c + z, c + d)
      BY <1>5, <1>9, <2>1, PartOfPart
    <2>3. PICK j \in Nat : j = L - c
      BY <1>5
    <2>4. d <= j /\ j <= L - c
      BY <1>9, <2>3
    <2>5. Part(Part(all, c, L), d, j) = Part(all, c + d, c + j)
      BY <1>5, <1>9, <2>4, PartOfPart
    <2>6. c + z = c /\ c + j = L
      BY <1>5, <2>1, <2>3
    <2> QED
      BY <1>7, <2>1, <2>2, <2>3, <2>5, <2>6
  <1>11. Len(f) = c
    BY <1>2, <1>5, FoundLength
  <1>12. h = Part(all, 0, c) \o FirstOf(Part(all, c, c + d), MaxFound - c)
    BY <1>2, <1>6, <1>8, <1>10, <1>11
  <1>13. PICK e \in Nat : e = c + d /\ c <= e /\ e <= L
    BY <1>5, <1>9
  <1>14. /\ Len(h) \in Nat /\ Len(h) <= MaxFound /\ h = Part(all, 0, Len(h))
         /\ Len(h) < MaxFound => Len(h) = e
         /\ Len(h) >= MaxFound \/ e = L => h = FirstOf(all, MaxFound)
    <2>1. h = Part(all, 0, c) \o FirstOf(Part(all, c, e), MaxFound - c)
      BY <1>12, <1>13
    <2>2. e <= Len(all) /\ c <= MaxFound
      BY <1>2, <1>3, <1>13
    <2>3. Took(all, e, h)
      <3>1. Taken(all, c, e, h)
        BY <1>5, <1>13, <2>1, <2>2 DEF Taken
      <3> QED
        BY <1>1, <3>1, TakeMore
    <2> QED
      BY <1>3, <2>3 DEF Took
  <1>15. n = Len(l) => e = L
    BY <1>4, <1>5, <1>7, <1>8, <1>13
  <1>16. ASSUME Len(h) < MaxFound PROVE OnProperties(good, m, k, h)
    <2>1. Len(h) = e /\ e \in 0 .. Len(all) /\ e <= MaxFound
      BY <1>3, <1>13, <1>14, <1>16
    <2>2. Chosen(k, good) = Part(all, e, Len(all))
      BY <1>3, <1>6, <1>7, <1>8, <1>10, <1>13
    <2>3. Listed(k)
      <3>1. n <= N
        BY <1>5
      <3> QED
        BY <1>6, <3>1, PartIsSeq
    <2>4. h = Part(all, 0, e)
      BY <1>14, <2>1
    <2> QED
      BY <1>1, <2>1, <2>2, <2>3, <2>4 DEF OnProperties, all
  <1> QED
    BY <1>14, <1>15, <1>16 DEF all

\* What fetchWithFilter makes of a page of n elements.
Fetches(l, n, f, k, h) ==
    /\ n \in Nat /\ n <= Len(l)
    /\ h = f \o FirstOf(SubSeq(l, 1, n), MaxFound - Len(f))
    /\ k = SubSeq(l, n + 1, Len(l))

LEMMA ElementsPage ==
    ASSUME NEW m, NEW l, NEW f, OnElements(m, l, f),
           NEW n, NEW k, NEW h, Fetches(l, n, f, k, h)
    PROVE  /\ Len(h) \in Nat /\ Len(h) <= MaxFound
           /\ Len(h) < MaxFound => OnElements(m, k, h)
           /\ Len(h) >= MaxFound \/ n = Len(l) => h = FirstOf(Chosen(m, OfCategory), MaxFound)
  <1> USE DEF Fetches
  <1> DEFINE all == Chosen(m, OfCategory)
  <1>1. Listed(all)
    BY DEF OnElements
  <1>2. PICK c \in 0 .. Len(all) : c <= MaxFound /\ f = Part(all, 0, c) /\ l = Part(all, c, Len(all))
    BY DEF OnElements
  <1> HIDE DEF all
  <1>3. PICK L \in Nat : L = Len(all)
    BY <1>1 DEF Listed
  <1>4. c \in Nat /\ c <= L
    BY <1>3
  <1>5. l = Part(all, c, L)
    BY <1>2, <1>3
  <1>6. PICK N \in Nat : N = Len(l) /\ N = L - c
    BY <1>4, <1>5, PartFacts
  <1>7. n \in 0 .. N /\ l = Part(l, 0, N)
    <2>1. Listed(l)
      BY <1>4, <1>5, PartIsSeq
    <2> QED
      BY <1>6, <2>1 DEF Listed
  <1>8. SubSeq(l, 1, n) = Part(l, 0, n) /\ k = Part(l, n, N)
    BY <1>6, <1>7, SubSeqParts
  <1>9. Part(l, 0, n) = Part(all, c, c + n) /\ Part(l, n, N) = Part(all, c + n, L)
    <2>1. PICK z \in Nat : z = 0
      OBVIOUS
    <2>2. n <= N /\ N <= L - c
      BY <1>6, <1>7
    <2>3. Part(Part(all, c, L), z, n) = Part(all, c + z, c + n)
      BY <1>4, <1>6, <1>7, <2>1, <2>2, PartOfPart
    <2>4. Part(Part(all, c, L), n, N) = Part(all, c + n, c + N)
      BY <1>4, <2>2, PartOfPart
    <2>5. c + z = c /\ c + N = L
      BY <1>4, <1>6, <2>1
    <2> QED
      BY <1>5, <2>1, <2>3, <2>4, <2>5
  <1>10. Len(f) = c
    BY <1>2, <1>4, FoundLength
  <1>11. h = Part(all, 0, c) \o FirstOf(Part(all, c, c + n), MaxFound - c)
    BY <1>2, <1>8, <1>9, <1>10
  <1>12. PICK e \in Nat : e = c + n /\ c <= e /\ e <= L
    BY <1>4, <1>6, <1>7
  <1>13. /\ Len(h) \in Nat /\ Len(h) <= MaxFound /\ h = Part(all, 0, Len(h))
         /\ Len(h) < MaxFound => Len(h) = e
         /\ Len(h) >= MaxFound \/ e = L => h = FirstOf(all, MaxFound)
    <2>1. h = Part(all, 0, c) \o FirstOf(Part(all, c, e), MaxFound - c)
      BY <1>11, <1>12
    <2>2. e <= Len(all) /\ c <= MaxFound
      BY <1>2, <1>3, <1>12
    <2>3. Took(all, e, h)
      <3>1. Taken(all, c, e, h)
        BY <1>4, <1>12, <2>1, <2>2 DEF Taken
      <3> QED
        BY <1>1, <3>1, TakeMore
    <2> QED
      BY <1>3, <2>3 DEF Took
  <1>14. n = Len(l) => e = L
    <2>1. ASSUME n = N PROVE c + n = L
      BY <1>4, <1>6, <2>1
    <2> QED
      BY <1>6, <1>12, <2>1
  <1>15. ASSUME Len(h) < MaxFound PROVE OnElements(m, k, h)
    <2>1. Len(h) = e /\ e \in 0 .. Len(all) /\ e <= MaxFound
      BY <1>3, <1>12, <1>13, <1>15
    <2>2. k = Part(all, e, Len(all)) /\ h = Part(all, 0, e)
      BY <1>3, <1>8, <1>9, <1>12, <1>13, <2>1
    <2> QED
      BY <1>1, <2>1, <2>2 DEF OnElements, all
  <1> QED
    BY <1>13, <1>14, <1>15 DEF all

\* What aggregateMdProperties makes of the first n rows of l.
Looks(good, l, n, s, looked, k, u, g) ==
    /\ n \in Nat /\ n <= Len(l)
    /\ looked = FirstOf(SubSeq(l, 1, n), MaxScan - s)
    /\ k = SubSeq(l, n + 1, Len(l))
    /\ u = s + Len(looked)
    /\ g = Grouped(Chosen(looked, good))

Seen(good, m) == Chosen(FirstOf(m, MaxScan), good)

LEMMA AggregatePage ==
    ASSUME NEW good, NEW m, NEW l, NEW s, OnAggregate(good, m, l, s, groups),
           NEW n, NEW looked, NEW k, NEW u, NEW g, Looks(good, l, n, s, looked, k, u, g)
    PROVE  /\ Len(looked) \in Nat /\ Len(looked) <= n /\ u \in 0 .. MaxScan
           /\ u < MaxScan => OnAggregate(good, m, k, u, g) /\ Len(looked) = n
           /\ u >= MaxScan \/ n = Len(l) =>
                  /\ g = Rolled(Seen(good, m), Len(Seen(good, m))) /\ u = Least(Len(m), MaxScan)
                  /\ Len(looked) < n => u < Len(m)
  <1> DEFINE counted == Seen(good, m)
  <1>1. /\ Listed(m) /\ Listed(l) /\ Listed(counted)
        /\ s \in 0 .. MaxScan /\ s + Len(l) = Len(m) /\ MaxScan \in Nat
    BY ScanAssumption DEF OnAggregate, Seen
  <1>2. PICK c \in 0 .. Len(counted) :
            /\ groups = Rolled(counted, c)
            /\ Chosen(FirstOf(l, MaxScan - s), good) = Part(counted, c, Len(counted))
    BY DEF OnAggregate, Seen
  <1> HIDE DEF counted
  <1>3. PICK N \in Nat : N = Len(l)
    BY <1>1 DEF Listed
  <1>4. PICK L \in Nat : L = Len(counted)
    BY <1>1 DEF Listed
  <1>5. PICK B \in Nat : B = MaxScan - s
    BY <1>1
  <1>6. n \in 0 .. N /\ k = Part(l, n, N) /\ looked = FirstOf(Part(l, 0, n), B)
    <2>1. n \in 0 .. N /\ l = Part(l, 0, N)
      BY <1>1, <1>3 DEF Looks, Listed
    <2>2. SubSeq(l, 1, n) = Part(l, 0, n) /\ SubSeq(l, n + 1, N) = Part(l, n, N)
      BY <1>3, <2>1, SubSeqParts
    <2> QED
      BY <1>3, <1>5, <2>1, <2>2 DEF Looks
  <1> DEFINE j == Least(n, B)
             R == Least(N, B)
  <1>7. j \in Nat /\ R \in Nat /\ j <= n /\ j <= B /\ j <= R /\ R <= N /\ R <= B
    BY <1>6 DEF Least
  <1>8. (j < B => j = n) /\ (j = B \/ n = N => R = j) /\ (j = n => R - n = Least(N - n, B - n))
    BY <1>6 DEF Least
  <1> HIDE DEF j, R
  <1>9. looked = Part(l, 0, j) /\ Len(looked) = j
    <2>1. PICK z \in Nat : z = 0
      OBVIOUS
    <2>2. z <= n /\ n - z = n /\ n \in Nat
      BY <1>6, <2>1
    <2>3. Listed(Part(l, z, n)) /\ Len(Part(l, z, n)) = n
      BY <2>2, PartIsSeq
    <2>4. FirstOf(Part(l, z, n), B) = Part(Part(l, z, n), 0, j)
      BY <2>3, FirstOfParts DEF j
    <2>5. z <= j /\ j <= n - z
      BY <1>7, <2>1, <2>2
    <2>6. Part(Part(l, z, n), z, j) = Part(l, z + z, z + j)
      BY <1>7, <2>2, <2>5, PartOfPart
    <2>7. z + z = z /\ z + j = j
      BY <1>7, <2>1
    <2>8. looked = Part(l, 0, j)
      BY <1>6, <2>1, <2>4, <2>6, <2>7
    <2> QED
      BY <1>7, <2>8, FoundLength
  <1> DEFINE rest == Part(l, 0, R)
             t == Chosen(rest, good)
  <1>10. FirstOf(l, B) = rest
    BY <1>1, <1>3, FirstOfParts DEF R
  <1>11. Listed(rest) /\ Len(rest) = R
    <2>1. PICK z \in Nat : z = 0
      OBVIOUS
    <2>2. z <= R /\ R - z = R
      BY <1>7, <2>1
    <2>3. Listed(Part(l, z, R)) /\ Len(Part(l, z, R)) = R - z
      BY <1>7, <2>2, PartIsSeq
    <2> QED
      BY <2>1, <2>2, <2>3
  <1>12. Part(rest, 0, j) = looked /\ Part(rest, j, R) = Part(l, j, R)
    <2>1. PICK z \in Nat : z = 0
      OBVIOUS
    <2>2. z <= j /\ j <= R - z /\ R <= R - z
      BY <1>7, <2>1
    <2>3. Part(Part(l, z, R), z, j) = Part(l, z + z, z + j)
      BY <1>7, <2>2, PartOfPart
    <2>4. Part(Part(l, z, R), j, R) = Part(l, z + j, z + R)
      BY <1>7, <2>2, PartOfPart
    <2>5. z + z = z /\ z + j = j /\ z + R = R
      BY <1>7, <2>1
    <2> QED
      BY <1>9, <2>1, <2>3, <2>4, <2>5
  <1> HIDE DEF rest
  <1>13. t = Part(counted, c, L) /\ c \in Nat /\ c <= L
    BY <1>2, <1>4, <1>5, <1>10
  <1>14. Listed(t) /\ Len(t) = L - c
    BY <1>13, PartIsSeq
  <1>15. PICK d \in 0 .. Len(t) :
             /\ Chosen(Part(rest, 0, j), good) = Part(t, 0, d)
             /\ Chosen(Part(rest, j, R), good) = Part(t, d, Len(t))
             /\ j = R => d = Len(t)
    <2>1. j \in 0 .. Len(rest)
      BY <1>7, <1>11
    <2> QED
      BY <1>11, <2>1, ChosenSplit
  <1> HIDE DEF t
  <1>16. PICK e \in Nat : e = c + d /\ c <= e /\ e <= L
    BY <1>13, <1>14, <1>15
  <1>17. Part(t, 0, d) = Part(counted, c, e) /\ Part(t, d, Len(t)) = Part(counted, e, L)
    <2>1. PICK z \in Nat : z = 0
      OBVIOUS
    <2>2. PICK w \in Nat : w = L - c
      BY <1>13
    <2>3. d \in Nat /\ z <= d /\ d <= L - c /\ d <= w /\ w <= L - c
      BY <1>13, <1>14, <1>15, <2>1, <2>2
    <2>4. Part(Part(counted, c, L), z, d) = Part(counted, c + z, c + d)
      BY <1>13, <2>3, PartOfPart
    <2>5. Part(Part(counted, c, L), d, w) = Part(counted, c + d, c + w)
      BY <1>13, <2>3, PartOfPart
    <2>6. c + z = c /\ c + w = L
      BY <1>13, <2>1, <2>2
    <2> QED
      BY <1>13, <1>14, <1>16, <2>1, <2>2, <2>4, <2>5, <2>6
  <1>18. Chosen(looked, good) = Part(counted, c, e)
    BY <1>12, <1>15, <1>17
  <1>19. g = Rolled(counted, e)
    <2>1. e <= Len(counted)
      BY <1>4, <1>16
    <2>2. Grouped(Part(counted, c, e)) = Rolled(counted, e)
      BY <1>1, <1>2, <1>13, <1>16, <2>1, GroupsRows
    <2> QED
      BY <1>18, <2>2 DEF Looks
  <1>20. u = s + j /\ u \in 0 .. MaxScan /\ (u < MaxScan <=> j < B)
    <2>1. u = s + j
      BY <1>9 DEF Looks
    <2> QED
      BY <1>1, <1>5, <1>7, <2>1
  <1>21. ASSUME u < MaxScan PROVE OnAggregate(good, m, k, u, g) /\ Len(looked) = n
    <2>1. j = n /\ n \in Nat /\ n <= N
      BY <1>6, <1>8, <1>20, <1>21
    <2>2. Listed(k) /\ Len(k) = N - n
      BY <1>6, <2>1, PartIsSeq
    <2>3. u + Len(k) = Len(m)
      BY <1>1, <1>3, <1>20, <2>1, <2>2
    <2>4. FirstOf(k, MaxScan - u) = Part(l, j, R)
      <3>1. PICK b \in Nat : b = MaxScan - u /\ b = B - n
        BY <1>1, <1>5, <1>20, <1>21, <2>1
      <3>2. PICK z \in Nat : z = 0
        OBVIOUS
      <3>3. PICK w \in Nat : w = R - n
        BY <1>7, <2>1
      <3>4. FirstOf(k, b) = Part(k, z, w)
        <4>1. w = Least(Len(k), b)
          BY <1>8, <2>1, <2>2, <3>1, <3>3
        <4> QED
          BY <2>2, <3>2, <4>1, FirstOfParts
      <3>5. z <= w /\ w <= N - n
        BY <1>7, <2>1, <3>2, <3>3
      <3>6. Part(Part(l, n, N), z, w) = Part(l, n + z, n + w)
        BY <2>1, <3>5, PartOfPart
      <3>7. n + z = n /\ n + w = R
        BY <1>7, <2>1, <3>2, <3>3
      <3> QED
        BY <1>6, <2>1, <3>1, <3>4, <3>6, <3>7
    <2>5. Chosen(FirstOf(k, MaxScan - u), good) = Part(counted, e, Len(counted))
      BY <1>4, <1>12, <1>15, <1>17, <2>4
    <2>6. e \in 0 .. Len(counted)
      BY <1>4, <1>16
    <2>7. OnAggregate(good, m, k, u, g)
      BY <1>1, <1>19, <1>20, <2>2, <2>3, <2>5, <2>6 DEF OnAggregate, Seen, counted
    <2> QED
      BY <1>9, <2>1, <2>7
  <1>22. ASSUME u >= MaxScan \/ n = Len(l)
         PROVE  /\ g = Rolled(counted, Len(counted)) /\ u = Least(Len(m), MaxScan)
                /\ Len(looked) < n => u < Len(m)
    <2>1. R = j
      <3>1. j = B \/ n = N
        BY <1>1, <1>3, <1>7, <1>20, <1>22
      <3> QED
        BY <1>8, <3>1
    <2>2. e = Len(counted)
      BY <1>4, <1>13, <1>14, <1>15, <1>16, <2>1
    <2>3. u = Least(Len(m), MaxScan)
      BY <1>1, <1>3, <1>5, <1>20, <2>1 DEF R, Least
    <2>4. j < n => u < Len(m)
      BY <1>1, <1>3, <1>6, <1>7, <1>20
    <2> QED
      BY <1>9, <1>19, <2>2, <2>3, <2>4
  <1> QED
    BY <1>7, <1>9, <1>20, <1>21, <1>22 DEF counted

\* What the loops look for is what the property is about.
LEMMA WantedRows == Wanted = IF scanTool = "elements" THEN OfCategory ELSE Matching(narrowed)
  <1>1. Sought # NoCategory
    BY ScanAssumption
  <1>2. ASSUME NEW r PROVE CategoryOf(r) = Sought <=> r.tree = Sought \/ (r.tree = NoCategory /\ r.prop = Sought)
    BY <1>1 DEF CategoryOf
  <1>3. CASE scanTool = "elements"
    BY <1>3 DEF Wanted, OfCategory
  <1>4. CASE scanTool # "elements"
    BY <1>2, <1>4 DEF Wanted, Matching
  <1> QED
    BY <1>3, <1>4

BeforeScan == scanPc = "idle" => found = <<>> /\ groups = <<>> /\ scanned = 0 /\ ~truncated

OnTheWay ==
    scanPc \in {"views", "tree", "pages"} =>
        /\ scanTool \in ScanTools /\ ~truncated
        /\ scanTool = "properties" => OnProperties(Matching(narrowed), model, left, found)
        /\ scanTool = "elements" => OnElements(model, left, found)
        /\ scanTool = "aggregate" => OnAggregate(Matching(narrowed), model, left, scanned, groups)

ScanIInv == ScanTypeOK /\ BeforeScan /\ OnTheWay /\ ScanExact

LEMMA ScanStarts == ScanInit => ScanIInv
  <1> SUFFICES ASSUME ScanInit PROVE ScanIInv
    OBVIOUS
  <1>1. Len(found) <= MaxFound /\ scanned \in 0 .. MaxScan
    BY NothingYet, ScanAssumption DEF ScanInit
  <1> QED
    BY <1>1 DEF ScanInit, ScanIInv, ScanTypeOK, BeforeScan, OnTheWay, ScanExact

LEMMA ModelIsListed ==
    ASSUME NEW n \in Nat, NEW m \in [1 .. n -> ModelRows]
    PROVE  Listed(m)
  <1>1. m = [i \in 1 .. n |-> m[i]]
    OBVIOUS
  <1>2. Len(m) = n
    BY <1>1, LengthOf
  <1>3. n - 0 = n /\ \A i \in 1 .. n : 0 + i = i
    OBVIOUS
  <1> QED
    BY <1>1, <1>2, <1>3 DEF Listed, Part

LEMMA ChosenListed ==
    ASSUME NEW s, Listed(s), NEW good
    PROVE  Listed(Chosen(s, good))
  <1>1. PICK k \in 0 .. Len(s) : k = Len(s)
    BY DEF Listed
  <1> QED
    BY ChosenSplit

LEMMA NothingTaken ==
    ASSUME NEW t, Listed(t)
    PROVE  0 \in 0 .. Len(t) /\ t = Part(t, 0, Len(t)) /\ 0 <= MaxFound /\ Part(t, 0, 0) = <<>>
  BY NothingYet, ScanAssumption DEF Listed

LEMMA ScanBegins ==
    ASSUME ScanIInv, StartScan
    PROVE  ScanIInv'
  <1>1. /\ scanPc = "idle" /\ scanTool' \in ScanTools
        /\ \E n \in 0 .. MaxModel : model' \in [1 .. n -> ModelRows]
        /\ left' = IF scanTool' = "elements" THEN Chosen(model', OfCategory) ELSE model'
        /\ scanPc' \in {"pages", "views", "tree"}
        /\ narrowed' \in SUBSET {"category", "ids"}
        /\ UNCHANGED <<found, scanned, groups, truncated>>
    BY DEF StartScan, ScanTools, MayNarrow, WithView
  <1>2. found = <<>> /\ groups = <<>> /\ scanned = 0 /\ ~truncated
    BY <1>1 DEF ScanIInv, BeforeScan
  <1> DEFINE m == model'
  <1>3. Listed(m)
    <2>1. PICK n \in 0 .. MaxModel : m \in [1 .. n -> ModelRows]
      BY <1>1
    <2>2. n \in Nat
      OBVIOUS
    <2> HIDE DEF m
    <2> QED
      BY <2>1, <2>2, ModelIsListed
  <1> HIDE DEF m
  <1>4. OnProperties(Matching(narrowed'), m, m, <<>>)
    <2>1. Listed(Chosen(m, Matching(narrowed')))
      BY <1>3, ChosenListed
    <2> QED
      BY <1>3, <2>1, NothingTaken DEF OnProperties
  <1>5. OnElements(m, Chosen(m, OfCategory), <<>>)
    <2>1. Listed(Chosen(m, OfCategory))
      BY <1>3, ChosenListed
    <2> QED
      BY <1>3, <2>1, NothingTaken DEF OnElements
  <1>6. OnAggregate(Matching(narrowed'), m, m, 0, <<>>)
    <2> DEFINE f == FirstOf(m, MaxScan)
               t == Chosen(f, Matching(narrowed'))
    <2>1. Listed(f)
      <3>1. MaxScan \in Nat
        BY ScanAssumption
      <3>2. PICK a \in Nat : f = Part(m, 0, a)
        BY <1>3, <3>1, FirstOfParts
      <3>3. PICK z \in Nat : z = 0
        OBVIOUS
      <3>4. z <= a
        BY <3>3
      <3>5. Listed(Part(m, z, a))
        BY <3>4, PartIsSeq
      <3> QED
        BY <3>2, <3>3, <3>5
    <2>2. Listed(t)
      <3> HIDE DEF f
      <3> QED
        BY <2>1, ChosenListed
    <2>3. 0 \in 0 .. MaxScan /\ MaxScan - 0 = MaxScan /\ 0 + Len(m) = Len(m)
      BY <1>3, ScanAssumption DEF Listed
    <2>4. t = Part(t, 0, Len(t)) /\ 0 \in 0 .. Len(t)
      BY <2>2, NothingTaken
    <2>5. Rolled(t, 0) = <<>>
      BY NothingYet
    <2> HIDE DEF t
    <2>6. \E c \in 0 .. Len(t) : <<>> = Rolled(t, c) /\ t = Part(t, c, Len(t))
      BY <2>4, <2>5
    <2> QED
      BY <1>3, <2>2, <2>3, <2>6 DEF OnAggregate, t
  <1>7. OnTheWay'
    BY <1>1, <1>2, <1>4, <1>5, <1>6 DEF OnTheWay, ScanTools, m
  <1>8. ScanTypeOK' /\ BeforeScan' /\ ScanExact'
    BY <1>1, <1>2 DEF ScanIInv, ScanTypeOK, BeforeScan, ScanExact
  <1> QED
    BY <1>7, <1>8 DEF ScanIInv

LEMMA PropertiesKeep ==
    ASSUME ScanIInv, NEW n \in Nat, NEW cursor \in BOOLEAN, GetMdProperties(n, cursor)
    PROVE  ScanIInv'
  <1>1. /\ scanPc = "pages" /\ scanTool = "properties"
        /\ n <= Len(left) /\ (n < Len(left) => cursor)
        /\ left' = SubSeq(left, n + 1, Len(left))
        /\ found' = found \o FirstOf(Chosen(SubSeq(left, 1, n), Matching(narrowed)), MaxFound - Len(found))
        /\ scanPc' = IF Len(found') < MaxFound /\ cursor THEN "pages" ELSE "done"
        /\ UNCHANGED <<scanTool, narrowed, model, scanned, groups, truncated>>
    BY DEF GetMdProperties, IsPage, MatchesOfPage, Turn
  <1>2. OnProperties(Matching(narrowed), model, left, found) /\ ~truncated /\ scanTool \in ScanTools
    BY <1>1 DEF ScanIInv, OnTheWay
  <1> DEFINE h == found'
             k == left'
  <1>0. Finds(Matching(narrowed), left, n, found, k, h)
    BY <1>1 DEF Finds
  <1> HIDE DEF h, k
  <1>3. /\ Len(h) \in Nat /\ Len(h) <= MaxFound
        /\ Len(h) < MaxFound => OnProperties(Matching(narrowed), model, k, h)
        /\ Len(h) >= MaxFound \/ n = Len(left) => h = FirstOf(Chosen(model, Matching(narrowed)), MaxFound)
    BY <1>0, <1>2, PropertiesPage
  <1>4. Len(left) \in Nat /\ MaxFound \in Nat
    BY <1>2, ScanAssumption DEF OnProperties, Listed
  <1> USE DEF h, k
  <1>5. OnTheWay'
    BY <1>1, <1>2, <1>3 DEF OnTheWay
  <1>6. scanPc' = "done" => found' = FirstOf(Chosen(model, Matching(narrowed)), MaxFound)
    BY <1>1, <1>3, <1>4
  <1>7. ScanExact'
    <2>1. Wanted' = Matching(narrowed) /\ scanTool' = "properties" /\ model' = model
      BY <1>1, WantedRows DEF Wanted
    <2> QED
      BY <1>6, <2>1 DEF ScanExact
  <1>8. ScanTypeOK' /\ BeforeScan'
    BY <1>1, <1>3 DEF ScanIInv, ScanTypeOK, BeforeScan
  <1> QED
    BY <1>5, <1>7, <1>8 DEF ScanIInv

LEMMA ElementsKeep ==
    ASSUME ScanIInv, NEW n \in Nat, NEW cursor \in BOOLEAN, FetchWithFilter(n, cursor)
    PROVE  ScanIInv'
  <1>1. /\ scanPc = "pages" /\ scanTool = "elements"
        /\ n <= Len(left) /\ (n < Len(left) => cursor)
        /\ left' = SubSeq(left, n + 1, Len(left))
        /\ found' = found \o FirstOf(SubSeq(left, 1, n), MaxFound - Len(found))
        /\ scanPc' = IF Len(found') < MaxFound /\ cursor THEN "pages" ELSE "done"
        /\ UNCHANGED <<scanTool, narrowed, model, scanned, groups, truncated>>
    BY DEF FetchWithFilter, IsPage, Turn
  <1>2. OnElements(model, left, found) /\ ~truncated /\ scanTool \in ScanTools
    BY <1>1 DEF ScanIInv, OnTheWay
  <1> DEFINE h == found'
             k == left'
  <1>0. Fetches(left, n, found, k, h)
    BY <1>1 DEF Fetches
  <1> HIDE DEF h, k
  <1>3. /\ Len(h) \in Nat /\ Len(h) <= MaxFound
        /\ Len(h) < MaxFound => OnElements(model, k, h)
        /\ Len(h) >= MaxFound \/ n = Len(left) => h = FirstOf(Chosen(model, OfCategory), MaxFound)
    BY <1>0, <1>2, ElementsPage
  <1>4. Len(left) \in Nat /\ MaxFound \in Nat
    <2> DEFINE all == Chosen(model, OfCategory)
    <2>1. PICK c \in 0 .. Len(all) : left = Part(all, c, Len(all))
      BY <1>2 DEF OnElements
    <2>2. Listed(all)
      BY <1>2 DEF OnElements
    <2> HIDE DEF all
    <2>3. Len(all) \in Nat /\ c \in Nat /\ c <= Len(all)
      BY <2>2 DEF Listed
    <2>4. PICK b \in Nat : b = Len(all)
      BY <2>3
    <2>5. c <= b /\ left = Part(all, c, b)
      BY <2>1, <2>3, <2>4
    <2>6. Len(Part(all, c, b)) = b - c
      BY <2>3, <2>5, PartFacts
    <2> QED
      BY <2>3, <2>5, <2>6, ScanAssumption
  <1> USE DEF h, k
  <1>5. OnTheWay'
    BY <1>1, <1>2, <1>3 DEF OnTheWay
  <1>6. scanPc' = "done" => found' = FirstOf(Chosen(model, OfCategory), MaxFound)
    BY <1>1, <1>3, <1>4
  <1>7. ScanExact'
    <2>1. Wanted' = OfCategory /\ scanTool' = "elements" /\ model' = model
      BY <1>1, WantedRows DEF Wanted
    <2> QED
      BY <1>6, <2>1 DEF ScanExact
  <1>8. ScanTypeOK' /\ BeforeScan'
    BY <1>1, <1>3 DEF ScanIInv, ScanTypeOK, BeforeScan
  <1> QED
    BY <1>5, <1>7, <1>8 DEF ScanIInv

LEMMA AggregateKeeps ==
    ASSUME ScanIInv, NEW n \in Nat, NEW cursor \in BOOLEAN, AggregateMdProperties(n, cursor)
    PROVE  ScanIInv'
  <1> DEFINE looked == FirstOf(SubSeq(left, 1, n), MaxScan - scanned)
             k == left'
             u == scanned'
             g == groups'
             counted == Seen(Matching(narrowed), model)
  <1>1. /\ scanPc = "pages" /\ scanTool = "aggregate"
        /\ n <= Len(left) /\ (n < Len(left) => cursor)
        /\ Looks(Matching(narrowed), left, n, scanned, looked, k, u, g)
        /\ truncated' = (truncated \/ Len(looked) < n)
        /\ scanPc' = IF u < MaxScan /\ cursor THEN "pages" ELSE "done"
        /\ UNCHANGED <<scanTool, narrowed, model, found>>
    BY DEF AggregateMdProperties, IsPage, Turn, Looks
  <1>2. OnAggregate(Matching(narrowed), model, left, scanned, groups) /\ ~truncated /\ scanTool \in ScanTools
    BY <1>1 DEF ScanIInv, OnTheWay
  <1> HIDE DEF looked, k, u, g
  <1>3. /\ Len(looked) \in Nat /\ Len(looked) <= n /\ u \in 0 .. MaxScan
        /\ u < MaxScan => OnAggregate(Matching(narrowed), model, k, u, g) /\ Len(looked) = n
        /\ u >= MaxScan \/ n = Len(left) =>
               /\ g = Rolled(counted, Len(counted)) /\ u = Least(Len(model), MaxScan)
               /\ Len(looked) < n => u < Len(model)
    BY <1>1, <1>2, AggregatePage
  <1>4. Len(left) \in Nat /\ MaxScan \in Nat
    BY <1>2, ScanAssumption DEF OnAggregate, Listed
  <1>5. OnTheWay'
    <2>1. scanPc' = "pages" => u < MaxScan
      BY <1>1
    <2>2. ~(Len(looked) < n) \/ Len(looked) # n
      BY <1>1, <1>3
    <2>3. scanPc' = "pages" => ~truncated' /\ OnAggregate(Matching(narrowed), model, k, u, g)
      BY <1>1, <1>2, <1>3, <2>1, <2>2, Zenon
    <2> QED
      BY <1>1, <1>2, <2>3 DEF OnTheWay, k, u, g
  <1>6. scanPc' = "done" => /\ g = Rolled(counted, Len(counted)) /\ u = Least(Len(model), MaxScan)
                            /\ truncated' => u < Len(model)
    <2>1. scanPc' = "done" => u >= MaxScan \/ n = Len(left)
      BY <1>1, <1>3, <1>4
    <2> QED
      BY <1>1, <1>2, <1>3, <2>1, Zenon
  <1>7. ScanExact'
    <2> SUFFICES ASSUME scanPc' = "done" PROVE ScanExact'
      BY DEF ScanExact
    <2> DEFINE all == Chosen(FirstOf(model', MaxScan), Wanted')
    <2>1. scanTool' = "aggregate" /\ all = counted
      BY <1>1, WantedRows DEF Wanted, counted, Seen
    <2>2. Listed(counted)
      BY <1>2 DEF OnAggregate, Seen
    <2> HIDE DEF counted, all
    <2>3. DOMAIN all = 1 .. Len(all) /\ g = Rolled(all, Len(all))
      <3>1. all = [i \in 1 .. Len(all) - 0 |-> all[0 + i]] /\ Len(all) - 0 = Len(all)
        BY <2>1, <2>2 DEF Listed, Part
      <3> QED
        BY <1>6, <2>1, <3>1
    <2>4. DOMAIN g = {all[i].level : i \in DOMAIN all}
      BY <2>3 DEF Rolled, Levels
    <2>5. ASSUME NEW l \in DOMAIN g
          PROVE  /\ g[l].count = Cardinality({i \in DOMAIN all : all[i].level = l})
                 /\ g[l].area = AreaUpTo(all, l)[Len(all)]
      <3>1. g[l] = Group(all, Len(all), l)
        BY <2>3, <2>5 DEF Rolled
      <3> QED
        BY <2>3, <3>1 DEF Group, OfLevel
    <2>6. u = Least(Len(model'), MaxScan) /\ (truncated' => u < Len(model'))
      BY <1>1, <1>6
    <2> QED
      BY <2>1, <2>4, <2>5, <2>6 DEF ScanExact, all, g, u
  <1>8. ScanTypeOK' /\ BeforeScan'
    BY <1>1, <1>3 DEF ScanIInv, ScanTypeOK, BeforeScan, u
  <1> QED
    BY <1>5, <1>7, <1>8 DEF ScanIInv

LEMMA ScanSteps == ScanIInv /\ [ScanNext]_scanVars => ScanIInv'
  <1> SUFFICES ASSUME ScanIInv, [ScanNext]_scanVars PROVE ScanIInv'
    OBVIOUS
  <1>1. CASE StartScan
    BY <1>1, ScanBegins
  <1>2. CASE GetMdViews \/ GetMdCategoryMap \/ ScanThrew
    <2>1. /\ scanPc \in {"views", "tree", "pages"} /\ scanPc' \in {"tree", "pages", "threw"}
          /\ UNCHANGED <<scanTool, narrowed, model, left, found, scanned, groups, truncated>>
      BY <1>2 DEF GetMdViews, GetMdCategoryMap, ScanThrew, WithView
    <2> QED
      BY <2>1 DEF ScanIInv, ScanTypeOK, BeforeScan, OnTheWay, ScanExact
  <1>3. ASSUME NEW n \in 0 .. MaxModel, NEW cursor \in BOOLEAN,
               GetMdProperties(n, cursor) \/ AggregateMdProperties(n, cursor) \/ FetchWithFilter(n, cursor)
        PROVE  ScanIInv'
    <2>1. n \in Nat
      OBVIOUS
    <2>2. CASE GetMdProperties(n, cursor)
      BY <2>1, <2>2, PropertiesKeep
    <2>3. CASE AggregateMdProperties(n, cursor)
      BY <2>1, <2>3, AggregateKeeps
    <2>4. CASE FetchWithFilter(n, cursor)
      BY <2>1, <2>4, ElementsKeep
    <2> QED
      BY <1>3, <2>2, <2>3, <2>4
  <1>4. CASE UNCHANGED scanVars
    <2>1. UNCHANGED <<scanTool, narrowed, scanPc, model, left, found, scanned, groups, truncated>>
      BY <1>4 DEF scanVars
    <2>2. Wanted' = Wanted
      BY <2>1 DEF Wanted
    <2> QED
      BY <2>1, <2>2 DEF ScanIInv, ScanTypeOK, BeforeScan, OnTheWay, ScanExact
  <1> QED
    BY <1>1, <1>2, <1>3, <1>4, Zenon DEF ScanNext

\* getMdProperties, aggregateMdProperties and fetchWithFilter answer alike however Autodesk cuts a
\* model into pages and wherever a cap falls: with the first elements that match, or with the
\* counts and sums of the elements that were looked at.
THEOREM ScansExact == ScanSpec => []ScanExact
  <1>1. ScanIInv => ScanExact
    BY DEF ScanIInv
  <1> QED
    BY <1>1, ScanStarts, ScanSteps, PTL DEF ScanSpec

-----------------------------------------------------------------------------
(***************************************************************************)
(* No start of a server, however often it crashes and wherever, takes a    *)
(* row bound to a call off the disk.  MigrationKeepsRows is not inductive: *)
(* the statements that drop a table rely on what the ones before them left *)
(* in the other, and the DELETE relies on no bound row being among those   *)
(* without a binding.                                                      *)
(***************************************************************************)
Rebuilding == {"drop_copy", "create_copy", "fill", "drop", "rename"}

\* Before the first start only an older server has been there.
Untouched ==
    starts = 0 => at = "down" /\ copy = NoTable /\ torn = {}

\* The columns a table has at each statement, and the rows without a binding.
TableShape ==
    /\ at \notin {"down", "create", "rename"} => table # NoTable
    /\ table # NoTable =>
          /\ table.unbound \cap owed = {}
          /\ "payload_hash" \in table.columns => "tool_name" \in table.columns
          /\ "tenant_id" \in table.columns => table.columns = Columns
          /\ at \in {"unbind", "columns", "serving"} \cup Rebuilding => Bindings \subseteq table.columns
          /\ at \in {"tool_name", "payload_hash"} => "payload_hash" \notin table.columns
          /\ at = "payload_hash" => "tool_name" \in table.columns
          /\ at \in Rebuilding => "tenant_id" \notin table.columns
          /\ at = "serving" => table.columns = Columns
          /\ Bindings \subseteq table.columns /\ at # "unbind" /\ "unbind" \notin torn =>
                table.unbound = {}

\* What the rebuilding has put into the copy so far.
CopyShape ==
    /\ at \in {"fill", "drop", "rename"} => copy # NoTable /\ copy.columns = Columns
    /\ at = "drop" => copy.rows = table.rows /\ copy.unbound = table.unbound
    /\ at = "rename" => /\ table = NoTable
                        /\ owed \subseteq copy.rows
                        /\ copy.unbound \cap owed = {}
                        /\ "unbind" \notin torn => copy.unbound = {}

\* After a crash before RENAME the table is a new one, and the copy is never dropped.
TornShape ==
    "rename" \in torn =>
        /\ at \notin {"tool_name", "payload_hash", "unbind"} \cup Rebuilding
        /\ table # NoTable => table.columns = Columns

Held ==
    /\ owed \subseteq OnDisk(table) \cup OnDisk(copy)
    /\ "rename" \notin torn /\ at # "rename" => owed \subseteq OnDisk(table)

MigrationIInv ==
    /\ MigrationTypeOK
    /\ Untouched
    /\ TableShape
    /\ CopyShape
    /\ TornShape
    /\ Held

\* Nothing has been written before the first start.
LEMMA MigrationStarts == MigrationInit => MigrationIInv
  BY MigrationAssumption
  DEF MigrationInit, MigrationIInv, MigrationTypeOK, Untouched, TableShape, CopyShape, TornShape,
      Held, OnDisk

\* The invariant says what a reader of the database relies on.
LEMMA MigrationMeans == MigrationIInv => MigrationKeepsRows
  BY MigrationAssumption
  DEF MigrationIInv, MigrationTypeOK, TableShape, TornShape, Held, OnDisk, MigrationKeepsRows,
      Table, Columns, Bindings

\* Every statement, start, write and crash keeps it.
LEMMA MigrationSteps == MigrationIInv /\ [MigrationNext]_migrationVars => MigrationIInv'
  <1> SUFFICES ASSUME MigrationIInv, [MigrationNext]_migrationVars PROVE MigrationIInv'
    OBVIOUS
  <1> USE MigrationAssumption DEF Table, Empty, Columns, Bindings, Statements, Rebuilding, OnDisk,
        MigrationIInv, MigrationTypeOK, Untouched, TableShape, CopyShape, TornShape, Held
  <1>1. CASE OlderServer
    BY <1>1 DEF OlderServer
  <1>2. CASE StartServer
    BY <1>2 DEF StartServer
  <1>3. CASE CreateTable
    BY <1>3 DEF CreateTable, Stmt
  <1>4. CASE ProbeBindings
    BY <1>4 DEF ProbeBindings
  <1>5. CASE AddColumn("tool_name", "payload_hash")
    <2>1. /\ table \in Table /\ at = "tool_name" /\ at' = "payload_hash"
          /\ UNCHANGED <<copy, starts, owed, torn>>
      BY <1>5 DEF AddColumn, Stmt
    <2>2. table' = [columns |-> table.columns \cup {"tool_name"}, rows |-> table.rows,
                    unbound |-> table.unbound]
      BY <1>5, <2>1 DEF AddColumn, Stmt
    <2> QED
      BY <2>1, <2>2
  <1>6. CASE AddColumn("payload_hash", "unbind")
    <2>1. /\ table \in Table /\ at = "payload_hash" /\ at' = "unbind"
          /\ UNCHANGED <<copy, starts, owed, torn>>
      BY <1>6 DEF AddColumn, Stmt
    <2>2. table' = [columns |-> table.columns \cup {"payload_hash"}, rows |-> table.rows,
                    unbound |-> table.unbound]
      BY <1>6, <2>1 DEF AddColumn, Stmt
    <2> QED
      BY <2>1, <2>2
  <1>7. CASE DeleteUnbound
    <2>1. /\ table \in Table /\ at = "unbind" /\ at' = "columns"
          /\ UNCHANGED <<copy, starts, owed, torn>>
      BY <1>7 DEF DeleteUnbound, Stmt
    <2>2. table' = [columns |-> table.columns, rows |-> table.rows \ table.unbound, unbound |-> {}]
      BY <1>7, <2>1 DEF DeleteUnbound, Stmt
    <2> QED
      BY <2>1, <2>2
  <1>8. CASE MigrateTenantIdPrimaryKey
    BY <1>8 DEF MigrateTenantIdPrimaryKey
  <1>9. CASE DropCopy
    BY <1>9 DEF DropCopy, Stmt
  <1>10. CASE CreateCopy
    BY <1>10 DEF CreateCopy, Stmt
  <1>11. CASE FillCopy
    <2>1. /\ copy \in Table /\ at = "fill" /\ at' = "drop"
          /\ UNCHANGED <<table, starts, owed, torn>>
      BY <1>11 DEF FillCopy, Stmt
    <2>2. copy' = [columns |-> copy.columns, rows |-> table.rows, unbound |-> table.unbound]
      BY <1>11, <2>1 DEF FillCopy, Stmt
    <2> QED
      BY <2>1, <2>2
  <1>12. CASE DropTable
    BY <1>12 DEF DropTable, Stmt
  <1>13. CASE RenameCopy
    BY <1>13 DEF RenameCopy, Stmt
  <1>14. CASE WriteRow
    <2>1. PICK r \in NewRows : table' = [table EXCEPT !.rows = @ \cup {r}] /\ owed' = owed \cup {r}
      BY <1>14 DEF WriteRow
    <2>2. /\ table \in Table /\ at = "serving" /\ UNCHANGED <<copy, at, starts, torn>>
      BY <1>14 DEF WriteRow
    <2>3. table' = [columns |-> table.columns, rows |-> table.rows \cup {r}, unbound |-> table.unbound]
      BY <2>1, <2>2
    <2> QED
      BY <2>1, <2>2, <2>3
  <1>15. CASE CrashServer
    BY <1>15 DEF CrashServer
  <1>16. CASE UNCHANGED migrationVars
    BY <1>16 DEF migrationVars
  <1> QED
    BY <1>1, <1>2, <1>3, <1>4, <1>5, <1>6, <1>7, <1>8, <1>9, <1>10, <1>11, <1>12, <1>13, <1>14, <1>15, <1>16 DEF MigrationNext

\* The tables and the copy keep their shape through all statements and crashes.
THEOREM MigrationTypeCorrect == MigrationSpec => []MigrationTypeOK
  <1>1. MigrationIInv => MigrationTypeOK
    BY DEF MigrationIInv
  <1> QED
    BY <1>1, MigrationStarts, MigrationSteps, PTL DEF MigrationSpec

\* However often a server is started and stopped in the middle of a migration, the rows that
\* replay finished calls stay on the disk, and a server that serves has them all unless a stop
\* fell between DROP and RENAME (rebuildWithTenantId, migrateLegacyIdempotencyColumns).
THEOREM MigrationKeeps == MigrationSpec => []MigrationKeepsRows
  BY MigrationStarts, MigrationSteps, MigrationMeans, PTL DEF MigrationSpec

-----------------------------------------------------------------------------
(***************************************************************************)
(* The types of a difference, which rest on the invariants above.          *)
(***************************************************************************)
DiffTyped ==
    /\ job \in Jobs /\ known \in Jobs
    /\ Len(rows) <= Len(file)
    /\ diffCall \in {"idle", "asking", "sleeping", "fields", "properties"} \cup Ended
    /\ diffCall # "idle" => asked.wait <= MaxWait
    /\ elapsed <= MaxWait + 1
    /\ fields \subseteq FieldKeys
    /\ diffCall = "fields" /\ reader \in {"open", "released"} => diff.keys \subseteq FieldKeys

LEMMA TypedStarts == VersionDiffInit => DiffTyped
  <1> SUFFICES ASSUME VersionDiffInit PROVE DiffTyped
    OBVIOUS
  <1>1. rows = <<>> /\ file = <<>>
    BY DEF VersionDiffInit, NdjsonInit
  <1> QED
    BY <1>1, VersionDiffAssumption DEF VersionDiffInit, NdjsonInit, DiffTyped, Jobs

\* A reader that did not fail has read no more rows than the file has.
LEMMA RowsOfFile == NdjsonIInv /\ reader \in {"open", "released", "cancelled"} => Len(rows) <= Len(file)
  <1> SUFFICES ASSUME NdjsonIInv, reader \in {"open", "released", "cancelled"} PROVE Len(rows) <= Len(file)
    OBVIOUS
  <1>0. Len(file) \in Nat
    BY DEF NdjsonIInv, FileIsSeq
  <1>1. CASE reader = "open"
    <2>1. PICK off \in {0, 1}, z \in {0, 1} : \E m \in Nat : \E L \in Nat :
              Layout(Len(file), off, L) /\ Reading(off, z, m, L)
      BY <1>1 DEF NdjsonIInv
    <2>2. PICK m \in Nat : \E L \in Nat : Layout(Len(file), off, L) /\ Reading(off, z, m, L)
      BY <2>1
    <2>3. PICK L \in Nat : Layout(Len(file), off, L) /\ Reading(off, z, m, L)
      BY <2>2
    <2>4. rows = First(m) /\ off + 3 * m - z <= L
      BY <2>3 DEF Reading, NdjsonIInv
    <2>5. m <= Len(file)
      BY <1>0, <2>3, <2>4 DEF Layout
    <2> QED
      BY <2>4, <2>5, FirstFacts
  <1>2. CASE reader # "open"
    <2>1. PICK n \in Nat : Holds(n)
      BY <1>2 DEF NdjsonIInv
    <2> QED
      BY <2>1, FirstFacts DEF Holds
  <1> QED
    BY <1>1, <1>2

\* A step that reads leaves the rows alone, starts with none, or ends in a reader that did not fail.
LEMMA RowsStayWithin ==
    ASSUME HonestIInv, DiffTyped, [VersionDiffNext]_diffVars
    PROVE  Len(rows') <= Len(file')
  <1>0. NdjsonIInv /\ NdjsonIInv'
    BY HonestSteps DEF HonestIInv, DiffIInv
  <1>1. CASE UNCHANGED <<rows, file>>
    BY <1>1 DEF DiffTyped
  <1>2. CASE reader' \in {"open", "released", "cancelled"}
    <2>1. (NdjsonIInv /\ reader \in {"open", "released", "cancelled"} => Len(rows) <= Len(file))'
      BY RowsOfFile, PTL
    <2> QED
      BY <1>0, <1>2, <2>1
  <1>3. ASSUME NEW rs, NEW cap, FetchNdjson(rs, cap) PROVE Len(rows') <= Len(file')
    <2>1. rows' = <<>> /\ Len(file') \in Nat
      BY <1>0, <1>3 DEF FetchNdjson, NdjsonIInv, FileIsSeq
    <2> QED
      BY <2>1
  <1>4. CASE FetchFields
    BY <1>1, <1>3, <1>4 DEF FetchFields, FetchFails
  <1>5. CASE FetchProperties
    BY <1>1, <1>3, <1>5 DEF FetchProperties, FetchFails
  <1>6. CASE Read
    <2>1. CASE ReadChunk
      <3>1. reader' \in {"open", "cancelled"} \/ (reader' = "failed" /\ rows' = rows)
        <4> DEFINE Keeps(n) == reader' \in {"open", "cancelled"} \/ (reader' = "failed" /\ rows' = rows)
        <4>1. \E n \in 1 .. Len(stream) : Keeps(n)
          BY <2>1 DEF ReadChunk
        <4> QED
          BY <4>1
      <3> QED
        BY <1>1, <1>2, <2>1, <3>1 DEF ReadChunk
    <2>2. CASE StreamEnds
      <3>1. reader' = "released" \/ rows' = rows
        BY <2>2 DEF StreamEnds
      <3> QED
        BY <1>1, <1>2, <2>2, <3>1 DEF StreamEnds
    <2> QED
      BY <1>1, <1>6, <2>1, <2>2 DEF Read, StreamBreaks
  <1>7. CASE StartDiff \/ JobMoves \/ Answered \/ Sleep \/ Threw \/ Report \/ UNCHANGED diffVars
    <2>1. UNCHANGED ndjsonVars
      BY <1>7 DEF StartDiff, JobMoves, Answered, Sleep, Threw, Report, diffVars
    <2> QED
      BY <1>1, <2>1 DEF ndjsonVars
  <1> QED
    BY <1>4, <1>5, <1>6, <1>7 DEF VersionDiffNext, DiffCallSteps

LEMMA TypedSteps == HonestIInv /\ DiffTyped /\ [VersionDiffNext]_diffVars => DiffTyped'
  <1> SUFFICES ASSUME HonestIInv, DiffTyped, [VersionDiffNext]_diffVars PROVE DiffTyped'
    OBVIOUS
  <1> DEFINE Rest == /\ job \in Jobs /\ known \in Jobs
                     /\ diffCall \in {"idle", "asking", "sleeping", "fields", "properties"} \cup Ended
                     /\ diffCall # "idle" => asked.wait <= MaxWait
                     /\ elapsed <= MaxWait + 1
                     /\ fields \subseteq FieldKeys
                     /\ diffCall = "fields" /\ reader \in {"open", "released"} => diff.keys \subseteq FieldKeys
  <1>0. Rest /\ CallIInv /\ StationIInv /\ NdjsonIInv /\ MaxWait \in Nat
    BY VersionDiffAssumption DEF DiffTyped, HonestIInv, DiffIInv
  <1>1. CASE StartDiff
    <2>1. PICK w \in 0 .. MaxWait : \E cap \in 1 .. MaxRows, f \in {NoValue} \cup {"Walls"} :
              asked' = [wait |-> w, cap |-> cap, filter |-> f]
      BY <1>1 DEF StartDiff
    <2>2. asked'.wait \in 0 .. MaxWait
      BY <2>1
    <2> QED
      BY <1>0, <1>1, <2>2, RowsStayWithin DEF StartDiff, DiffTyped, ndjsonVars
  <1>2. CASE Answered
    <2>1. job \in {"PROCESSING", "FINISHED", "FAILED"} /\ diffCall = "asking"
      BY <1>0, <1>2 DEF Answered, Jobs
    <2>2. /\ diffCall' \in {"sleeping", "failed", "processing", "no_urls", "fields"}
          /\ known' = job /\ UNCHANGED <<job, elapsed, asked, fields, reader>>
      BY <1>2, <2>1 DEF Answered, ndjsonVars
    <2>3. reader' = "none"
      BY <1>0, <2>1, <2>2 DEF StationIInv
    <2> QED
      BY <1>0, <2>1, <2>2, <2>3, RowsStayWithin DEF DiffTyped, Ended
  <1>3. CASE Sleep
    <2>1. elapsed' = elapsed + 1 /\ elapsed \in Nat /\ asked.wait \in Nat /\ elapsed < asked.wait /\ asked.wait <= MaxWait
      BY <1>0, <1>3 DEF Sleep, CallIInv
    <2>2. elapsed' <= MaxWait + 1
      BY <1>0, <2>1
    <2> QED
      BY <1>0, <1>3, <2>2, RowsStayWithin DEF Sleep, DiffTyped
  <1>4. CASE FetchFields
    <2>1. /\ diffCall = "fields" /\ UNCHANGED <<job, diffCall, known, elapsed, asked, fields>>
      BY <1>4 DEF FetchFields
    <2>2. reader' \in {"open", "released"} => diff'.keys \subseteq FieldKeys
      <3>1. CASE FetchFails
        BY <3>1 DEF FetchFails
      <3>2. CASE ~FetchFails
        <4>1. PICK ks \in SUBSET FieldKeys : diff' = [keys |-> ks]
          BY <1>4, <3>2 DEF FetchFields
        <4> QED
          BY <4>1
      <3> QED
        BY <3>1, <3>2
    <2> QED
      BY <1>0, <2>1, <2>2, RowsStayWithin DEF DiffTyped
  <1>5. CASE FetchProperties
    <2>1. /\ diffCall = "fields" /\ reader = "released" /\ diffCall' = "properties"
          /\ fields' = DownloadDiffFields /\ UNCHANGED <<job, known, elapsed, asked>>
      BY <1>5 DEF FetchProperties
    <2>2. fields' = diff.keys
      BY <1>0, <2>1, KeysRead DEF StationIInv
    <2> QED
      BY <1>0, <2>1, <2>2, RowsStayWithin DEF DiffTyped
  <1>6. CASE Read
    <2>1. UNCHANGED <<job, diff, diffCall, known, elapsed, asked, fields>> /\ reader = "open"
      BY <1>6 DEF Read, ReadChunk, StreamEnds, StreamBreaks
    <2> QED
      BY <1>0, <2>1, RowsStayWithin DEF DiffTyped
  <1>7. CASE JobMoves \/ Threw \/ Report
    <2>1. CASE JobMoves
      BY <1>0, <2>1, RowsStayWithin DEF JobMoves, DiffTyped, Jobs, ndjsonVars
    <2>2. CASE Threw
      BY <1>0, <2>2, RowsStayWithin DEF Threw, DiffTyped, Ended, ndjsonVars
    <2>3. CASE Report
      BY <1>0, <2>3, RowsStayWithin DEF Report, DiffTyped, Ended, ndjsonVars
    <2> QED
      BY <1>7, <2>1, <2>2, <2>3
  <1>8. CASE UNCHANGED diffVars
    BY <1>0, <1>8, RowsStayWithin DEF diffVars, ndjsonVars, DiffTyped
  <1> QED
    BY <1>1, <1>2, <1>3, <1>4, <1>5, <1>6, <1>7, <1>8 DEF VersionDiffNext, DiffCallSteps

LEMMA DiffTypes == HonestIInv /\ DiffTyped => VersionDiffTypeOK
  <1> SUFFICES ASSUME HonestIInv, DiffTyped PROVE VersionDiffTypeOK
    OBVIOUS
  <1>1. elapsed \in Nat /\ MaxWait \in Nat /\ reader \in ReaderStates /\ bytesRead \in Nat
    BY VersionDiffAssumption DEF HonestIInv, DiffIInv, CallIInv, NdjsonIInv
  <1> QED
    BY <1>1 DEF DiffTyped, VersionDiffTypeOK, NdjsonTypeOK

-----------------------------------------------------------------------------
(***************************************************************************)
(* The parts side by side: a step of one leaves the variables of the other *)
(* alone, so that each keeps its own invariant.                            *)
(***************************************************************************)
ToolsIInv ==
    /\ part \in Parts
    /\ CallShaped /\ WorldShaped /\ ScanIInv /\ HonestIInv /\ DiffTyped
    /\ ClashIInv /\ AecdmIInv /\ MigrationIInv

LEMMA ToolsStart == Init => ToolsIInv
  <1> SUFFICES ASSUME Init PROVE ToolsIInv
    OBVIOUS
  <1>1. MutationInit
    <2>1. [tool |-> "reviews_create", projects |-> {"*"}, hosts |-> {"*"}] \in Settings
      BY DEF Settings, Tools
    <2> QED
      BY <2>1 DEF Init, MutationInit
  <1> QED
    BY <1>1, ShapeInit, WorldInit, ScanStarts, HonestStarts, TypedStarts, ClashStarts, AecdmStarts,
       MigrationStarts DEF Init, ToolsIInv

LEMMA ToolsStep ==
    ASSUME [Next]_toolsVars
    PROVE  /\ part' = part
           /\ [MutationNext]_mutationVars /\ [ScanNext]_scanVars /\ [VersionDiffNext]_diffVars
           /\ [ClashNext]_clashVars /\ [AecdmNext]_aecdmVars /\ [MigrationNext]_migrationVars
  <1>1. CASE UNCHANGED toolsVars
    BY <1>1 DEF toolsVars
  <1>2. CASE MutationPart
    BY <1>2 DEF MutationPart
  <1>3. CASE ScanPart
    BY <1>3 DEF ScanPart
  <1>4. CASE DiffPart
    BY <1>4 DEF DiffPart, DiffOnly
  <1>5. CASE ClashPart
    BY <1>5 DEF ClashPart
  <1>6. CASE AecdmPart
    BY <1>6 DEF AecdmPart
  <1>7. CASE MigrationPart
    BY <1>7 DEF MigrationPart
  <1> QED
    BY <1>1, <1>2, <1>3, <1>4, <1>5, <1>6, <1>7 DEF Next

LEMMA ToolsSteps == ToolsIInv /\ [Next]_toolsVars => ToolsIInv'
  <1> SUFFICES ASSUME ToolsIInv, [Next]_toolsVars PROVE ToolsIInv'
    OBVIOUS
  <1>1. CallShaped' /\ WorldShaped'
    BY ToolsStep, ShapeNext, WorldNext DEF ToolsIInv
  <1>2. ScanIInv'
    BY ToolsStep, ScanSteps DEF ToolsIInv
  <1>3. HonestIInv' /\ DiffTyped'
    BY ToolsStep, HonestSteps, TypedSteps DEF ToolsIInv
  <1>4. ClashIInv' /\ AecdmIInv' /\ MigrationIInv'
    BY ToolsStep, ClashSteps, AecdmSteps, MigrationSteps DEF ToolsIInv
  <1> QED
    BY <1>1, <1>2, <1>3, <1>4, ToolsStep DEF ToolsIInv

\* Whichever part runs, the others stand still, and the state of each is well typed.
THEOREM ToolsTypeCorrect == Spec => []TypeOK
  <1>1. ToolsIInv => TypeOK
    BY ShapesAreTypes, DiffTypes
       DEF ToolsIInv, TypeOK, ScanIInv, ClashIInv, AecdmIInv, MigrationIInv
  <1> QED
    BY <1>1, ToolsStart, ToolsSteps, PTL DEF Spec
=============================================================================
