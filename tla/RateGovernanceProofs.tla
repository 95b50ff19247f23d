----------------------- MODULE RateGovernanceProofs -----------------------
(***************************************************************************)
(* Proofs about RateGovernance, for all processes, tenants, projects and   *)
(* limits, with counters in memory or on SQLite.                           *)
(***************************************************************************)
EXTENDS RateGovernance, FiniteSetTheorems, TLAPS

-----------------------------------------------------------------------------
\* Type correctness.

Calls == [RateKeys -> Nat]

LEMMA NoCallsType == NoCalls \in Calls /\ \A k \in RateKeys : NoCalls[k] = 0
BY DEF NoCalls, Calls

LEMMA StoreOfType == \A p \in Processes : StoreOf(p) \in Stores
BY DEF StoreOf, Stores

LEMMA CountUpType ==
    ASSUME NEW calls \in [Stores -> Calls], NEW s \in Stores, NEW k \in RateKeys
    PROVE  [calls EXCEPT ![s][k] = @ + 1] \in [Stores -> Calls]
BY DEF Calls

\* The deployment does not change while the system runs.
LEMMA ModeStays == [Next]_vars => sqlite' = sqlite /\ running' = running
<1> SUFFICES ASSUME [Next]_vars
             PROVE  sqlite' = sqlite /\ running' = running
  OBVIOUS
<1>1. ASSUME NEW p \in running, NEW t \in Tenants, NEW i \in Projects,
             CheckRateLimit(p, t, i)
      PROVE  sqlite' = sqlite
  BY <1>1 DEF CheckRateLimit
<1>2. ASSUME NEW p \in running, Increment(p) \/ Judge(p) \/ PruneStale(p)
                 \/ DeleteStale(p) \/ StatementThrows(p) \/ Restart(p)
      PROVE  sqlite' = sqlite
  BY <1>2 DEF Increment, Judge, PruneStale, DeleteStale, StatementThrows, Restart
<1>3. CASE Tick /\ UNCHANGED running
  BY <1>3 DEF Tick
<1>4. CASE UNCHANGED vars
  BY <1>4 DEF vars
<1>5. QED
  BY <1>1, <1>2, <1>3, <1>4 DEF Next

\* What a process does between two statements, as far as types are concerned.
LEMMA BeginType ==
    ASSUME TypeOK, NEW p \in Processes, NEW work, NEW point, Begin(p, work, point),
           \/ work \in RateKeys /\ point \in {"insert", "select"}
           \/ work \in [hour : 0..MaxHour] /\ point \in Cleaning
           \/ work = None /\ point \in {"idle", "dead"}
    PROVE  /\ pc' \in [Processes -> {"idle", "insert", "select", "dead"} \cup Cleaning]
           /\ job' \in [Processes -> RateKeys \cup [hour : 0..MaxHour] \cup {None}]
           /\ \A q \in Processes : /\ pc'[q] \in {"insert", "select"} => job'[q] \in RateKeys
                                   /\ pc'[q] \in Cleaning => job'[q] \in [hour : 0..MaxHour]
BY DEF TypeOK, Begin, Goto, Cleaning

LEMMA TypeStep == TypeOK /\ [Next]_vars => TypeOK'
<1> SUFFICES ASSUME TypeOK, [Next]_vars
             PROVE  TypeOK'
  OBVIOUS
<1>0. running' = running /\ running \subseteq Processes
  BY ModeStays DEF TypeOK
<1> USE ConstantsAssumption, <1>0
<1>1. ASSUME NEW p \in Processes, NEW t \in Tenants, NEW i \in Projects, CheckRateLimit(p, t, i)
      PROVE  TypeOK'
  <2>1. [tenant |-> t, project |-> i, hour |-> hour] \in RateKeys
    BY DEF RateKeys, TypeOK
  <2>2. QED
    BY <1>1, <2>1, BeginType DEF CheckRateLimit, TypeOK, history
<1>2. ASSUME NEW p \in Processes, Increment(p)
      PROVE  TypeOK'
  <2>1. /\ job' = job /\ job[p] \in RateKeys /\ Row(job[p]) \in RateKeys
        /\ Begin(p, job[p], "select")
    BY <1>2 DEF Increment, Begin, Row, TypeOK
  <2>2. {counters', counted', passed'} \subseteq [Stores -> [RateKeys -> Nat]]
    BY <1>2, <2>1, StoreOfType DEF Increment, TypeOK
  <2>3. QED
    BY <1>2, <2>1, <2>2, BeginType DEF Increment, TypeOK
<1>3. ASSUME NEW p \in Processes, Judge(p)
      PROVE  TypeOK'
  <2>1. job[p] \in RateKeys
    BY <1>3 DEF Judge, TypeOK
  <2>2. passed' \in [Stores -> [RateKeys -> Nat]]
    <3>1. passed \in [Stores -> Calls] /\ StoreOf(p) \in Stores
      BY StoreOfType DEF TypeOK, Calls
    <3>2. [passed EXCEPT ![StoreOf(p)][job[p]] = @ + 1] \in [Stores -> Calls]
      BY <2>1, <3>1, CountUpType
    <3>3. passed' = passed \/ passed' = [passed EXCEPT ![StoreOf(p)][job[p]] = @ + 1]
      BY <1>3 DEF Judge
    <3>4. QED
      BY <3>1, <3>2, <3>3 DEF Calls
  <2>3. refused' \in [Stores -> SUBSET RateKeys]
    <3>1. refused' = refused \/ refused' = [refused EXCEPT ![StoreOf(p)] = @ \cup {job[p]}]
      BY <1>3 DEF Judge
    <3>2. StoreOf(p) \in Stores
      BY StoreOfType
    <3>3. QED
      BY <2>1, <3>1, <3>2 DEF TypeOK
  <2>4. QED
    BY <1>3, <2>2, <2>3, BeginType DEF Judge, Leave, TypeOK
<1>4. ASSUME NEW p \in Processes, PruneStale(p)
      PROVE  TypeOK'
  <2>1. [hour |-> hour] \in [hour : 0..MaxHour]
    BY DEF TypeOK
  <2>2. QED
    BY <1>4, <2>1, BeginType DEF PruneStale, BeginCleanUp, Cleaning, TypeOK, history
<1>5. ASSUME NEW p \in Processes, DeleteStale(p)
      PROVE  TypeOK'
  <2>1. counters' \in [Stores -> [RateKeys -> Nat]]
    BY <1>5, StoreOfType DEF DeleteStale, TypeOK
  <2>2. QED
    BY <1>5, <2>1, BeginType DEF DeleteStale, Leave, TypeOK, history
<1>6. ASSUME NEW p \in Processes, StatementThrows(p)
      PROVE  TypeOK'
  BY <1>6, BeginType DEF StatementThrows, Leave, TypeOK, history
<1>7. ASSUME NEW p \in Processes, Restart(p)
      PROVE  TypeOK'
  <2>1. CASE sqlite /\ BeginCleanUp(p, "start") /\ UNCHANGED <<counters, history>>
    <3>1. [hour |-> hour] \in [hour : 0..MaxHour]
      BY DEF TypeOK
    <3>2. QED
      BY <1>7, <2>1, <3>1, BeginType DEF Restart, BeginCleanUp, Cleaning, TypeOK, history
  <2>2. CASE ~sqlite /\ Leave(p, "idle") /\ counters' = [counters EXCEPT ![p] = NoCalls]
                /\ counted' = [counted EXCEPT ![p] = NoCalls]
                /\ passed' = [passed EXCEPT ![p] = NoCalls]
                /\ refused' = [refused EXCEPT ![p] = {}]
    <3>1. /\ {counters', counted', passed'} \subseteq [Stores -> [RateKeys -> Nat]]
          /\ refused' \in [Stores -> SUBSET RateKeys]
      BY <2>2, NoCallsType DEF TypeOK, Calls
    <3>2. QED
      BY <1>7, <2>2, <3>1, BeginType DEF Restart, Leave, TypeOK
  <2>3. QED
    BY <1>7, <2>1, <2>2 DEF Restart
<1>8. CASE Tick
  BY <1>8 DEF Tick, TypeOK, history
<1>9. CASE UNCHANGED vars
  BY <1>9 DEF vars, TypeOK
<1>10. QED
  BY <1>1, <1>2, <1>3, <1>4, <1>5, <1>6, <1>7, <1>8, <1>9 DEF Next

\* Every reachable state of the counters, the processes and their histories is well typed.
THEOREM RateTypeCorrect == Spec => []TypeOK
<1>1. Init => TypeOK
  BY ConstantsAssumption, NoCallsType DEF Init, TypeOK, Calls, Cleaning
<1>2. QED
  BY <1>1, TypeStep, PTL DEF Spec
-----------------------------------------------------------------------------
\* No call is refused without cause.

\* A row holds no more than the calls counted under its key, of which the call that is
\* about to be judged is one.
CountInv ==
    /\ \A s \in Stores : \A k \in RateKeys : counters[s][k] <= counted[s][k]
    /\ \A p \in Processes : pc[p] = "select" => counted[StoreOf(p)][job[p]] >= 1
    /\ RefusedForCause

LEMMA CountStep == TypeOK /\ CountInv /\ [Next]_vars => CountInv'
<1> SUFFICES ASSUME TypeOK, CountInv, [Next]_vars
             PROVE  CountInv'
  OBVIOUS
<1>0. running' = running /\ running \subseteq Processes
  BY ModeStays DEF TypeOK
<1> USE ConstantsAssumption, <1>0
<1>1. ASSUME NEW p \in Processes, NEW work, NEW point, point # "select", Begin(p, work, point),
             UNCHANGED <<sqlite, counted, refused>>,
             \A s \in Stores : \A k \in RateKeys : counters'[s][k] <= counted[s][k]
      PROVE  CountInv'
  BY <1>1 DEF Begin, Goto, CountInv, RefusedForCause, StoreOf, TypeOK
<1>2. ASSUME NEW p \in Processes, NEW t \in Tenants, NEW i \in Projects, CheckRateLimit(p, t, i)
      PROVE  CountInv'
  BY <1>1, <1>2 DEF CheckRateLimit, CountInv, history
<1>3. ASSUME NEW p \in Processes, Increment(p)
      PROVE  CountInv'
  <2> DEFINE k == job[p]
             s == StoreOf(p)
  <2>1. /\ k \in RateKeys /\ s \in Stores /\ counters' = [counters EXCEPT ![s][k] = @ + 1]
        /\ counted' = [counted EXCEPT ![s][k] = @ + 1]
        /\ pc' = [pc EXCEPT ![p] = "select"] /\ UNCHANGED <<sqlite, job, refused>>
    BY <1>3, StoreOfType DEF Increment, Row, Goto, TypeOK
  <2>2. \A z \in Stores : \A l \in RateKeys :
            /\ counted[z][l] \in Nat /\ counters[z][l] \in Nat
            /\ counted'[z][l] = IF z = s /\ l = k THEN counted[z][l] + 1 ELSE counted[z][l]
            /\ counters'[z][l] = IF z = s /\ l = k THEN counters[z][l] + 1 ELSE counters[z][l]
    BY <2>1 DEF TypeOK
  <2>3. \A z \in Stores : \A l \in RateKeys : counters'[z][l] <= counted'[z][l]
    BY <2>2 DEF CountInv
  <2>4. ASSUME NEW q \in Processes, pc'[q] = "select"
        PROVE  counted'[StoreOf(q)][job[q]] >= 1
    <3>1. job[q] \in RateKeys /\ StoreOf(q) \in Stores /\ (q = p \/ pc[q] = "select")
      BY <2>1, <2>4, StoreOfType DEF TypeOK
    <3>2. QED
      BY <2>2, <3>1 DEF CountInv
  <2>5. RefusedForCause'
    BY <2>1, <2>2 DEF CountInv, RefusedForCause, TypeOK
  <2>6. QED
    BY <2>1, <2>3, <2>4, <2>5 DEF CountInv, StoreOf
<1>4. ASSUME NEW p \in Processes, Judge(p)
      PROVE  CountInv'
  <2>1. /\ job[p] \in RateKeys /\ StoreOf(p) \in Stores /\ pc[p] = "select"
        /\ UNCHANGED <<sqlite, counters, counted>> /\ Begin(p, None, "idle")
    BY <1>4, StoreOfType DEF Judge, Leave, TypeOK
  <2>2. CASE ExceedsLimit(Count(p)) /\ refused' = [refused EXCEPT ![StoreOf(p)] = @ \cup {job[p]}]
    <3>1. counters[StoreOf(p)][job[p]] \in Nat /\ counted[StoreOf(p)][job[p]] \in Nat
      BY <2>1 DEF TypeOK
    <3>2. counted[StoreOf(p)][job[p]] > Limit
      BY <2>1, <2>2, <3>1 DEF ExceedsLimit, Count, Row, CountInv
    <3>3. RefusedForCause'
      BY <2>1, <2>2, <3>2 DEF CountInv, RefusedForCause, TypeOK
    <3>4. QED
      BY <2>1, <3>3 DEF Begin, Goto, CountInv, StoreOf, TypeOK
  <2>3. CASE UNCHANGED refused
    BY <1>1, <2>1, <2>3 DEF CountInv
  <2>4. QED
    BY <1>4, <2>2, <2>3 DEF Judge
<1>5. ASSUME NEW p \in Processes, PruneStale(p)
      PROVE  CountInv'
  BY <1>1, <1>5 DEF PruneStale, BeginCleanUp, CountInv, history
<1>6. ASSUME NEW p \in Processes, DeleteStale(p)
      PROVE  CountInv'
  <2>1. \A s \in Stores : \A k \in RateKeys : counters'[s][k] \in {0, counters[s][k]}
    BY <1>6, StoreOfType DEF DeleteStale, TypeOK
  <2>2. \A s \in Stores : \A k \in RateKeys : counters'[s][k] <= counted[s][k]
    <3>1. \A s \in Stores : \A k \in RateKeys : counted[s][k] \in Nat
      BY DEF TypeOK
    <3>2. QED
      BY <2>1, <3>1 DEF CountInv
  <2>3. QED
    BY <1>1, <1>6, <2>2 DEF DeleteStale, Leave, history
<1>7. ASSUME NEW p \in Processes, StatementThrows(p)
      PROVE  CountInv'
  BY <1>1, <1>7 DEF StatementThrows, Leave, CountInv, history
<1>8. ASSUME NEW p \in Processes, Restart(p)
      PROVE  CountInv'
  <2>1. CASE BeginCleanUp(p, "start") /\ UNCHANGED <<counters, history>>
    BY <1>1, <1>8, <2>1 DEF Restart, BeginCleanUp, CountInv, history
  <2>2. CASE ~sqlite /\ Leave(p, "idle") /\ counters' = [counters EXCEPT ![p] = NoCalls]
                /\ counted' = [counted EXCEPT ![p] = NoCalls]
                /\ refused' = [refused EXCEPT ![p] = {}]
    <3>1. /\ \A s \in Stores \ {p} : /\ counters'[s] = counters[s] /\ counted'[s] = counted[s]
                                     /\ refused'[s] = refused[s]
          /\ p \in Stores /\ counters'[p] = NoCalls /\ counted'[p] = NoCalls /\ refused'[p] = {}
      BY <2>2 DEF Stores, TypeOK
    <3>2. \A q \in Processes : pc'[q] = "select" => /\ q # p /\ pc[q] = "select"
                                                    /\ job'[q] = job[q]
      BY <2>2 DEF Leave, Begin, Goto, TypeOK
    <3>3. \A q \in Processes : StoreOf(q) = q /\ StoreOf(q)' = q
      BY <1>8, <2>2 DEF Restart, StoreOf
    <3>4. QED
      BY <3>1, <3>2, <3>3, NoCallsType DEF CountInv, RefusedForCause, Stores
  <2>3. QED
    BY <1>8, <2>1, <2>2 DEF Restart
<1>9. CASE Tick
  BY <1>9 DEF Tick, CountInv, RefusedForCause, StoreOf, history
<1>10. CASE UNCHANGED vars
  BY <1>10 DEF vars, CountInv, RefusedForCause, StoreOf
<1>11. QED
  BY <1>2, <1>3, <1>4, <1>5, <1>6, <1>7, <1>8, <1>9, <1>10 DEF Next

\* A refused call is one too many of its own tenant, for its project and hour: other tenants
\* and projects, other processes and the clean-ups never use up a budget.
THEOREM RefusalsHaveCause == Spec => []RefusedForCause
<1>1. Init => CountInv
  BY NoCallsType DEF Init, CountInv, RefusedForCause
<1>2. CountInv => RefusedForCause
  BY DEF CountInv
<1>3. QED
  BY <1>1, <1>2, RateTypeCorrect, CountStep, PTL DEF Spec
-----------------------------------------------------------------------------
\* A sole writer keeps the limit.

\* The hour that process p read, or would read now.
ReadHour(p) == IF pc[p] \in {"idle", "dead"} THEN hour ELSE job[p].hour

\* The row of every key of that hour holds all calls let through and the one to be judged, and
\* nothing was let through for a later hour: a clean-up deletes no row that is still needed.
Covered(p, k) ==
    /\ passed[StoreOf(p)][k] <= Limit
    /\ k.hour > ReadHour(p) => passed[StoreOf(p)][k] = 0
    /\ k.hour = ReadHour(p) => passed[StoreOf(p)][k] <= counters[StoreOf(p)][k]
    /\ pc[p] = "select" /\ k = job[p] => passed[StoreOf(p)][k] < counters[StoreOf(p)][k]

LimitInv ==
    SoleWriters => \A p \in running : /\ ReadHour(p) <= hour
                                      /\ \A k \in RateKeys : Covered(p, k)

\* A step of one process does not touch the store of another.
Apart(p) == \A q \in running \ {p} :
    /\ pc'[q] = pc[q] /\ job'[q] = job[q]
    /\ passed'[StoreOf(q)] = passed[StoreOf(q)] /\ counters'[StoreOf(q)] = counters[StoreOf(q)]

LEMMA OwnStore ==
    ASSUME NEW p \in running, LimitInv, SoleWriters, UNCHANGED <<running, sqlite, hour>>, Apart(p),
           ReadHour(p)' <= hour, \A k \in RateKeys : Covered(p, k)'
    PROVE  LimitInv'
<1>1. \A q \in running : StoreOf(q)' = StoreOf(q)
  BY DEF StoreOf
<1>2. ASSUME NEW q \in running \ {p}
      PROVE  ReadHour(q)' <= hour /\ \A k \in RateKeys : Covered(q, k)'
  BY <1>1, <1>2 DEF Apart, LimitInv, ReadHour, Covered
<1>3. QED
  BY <1>2 DEF LimitInv

LEMMA LimitStep == TypeOK /\ LimitInv /\ [Next]_vars => LimitInv'
<1> SUFFICES ASSUME TypeOK, LimitInv, [Next]_vars
             PROVE  LimitInv'
  OBVIOUS
<1>0. sqlite' = sqlite /\ running' = running /\ running \subseteq Processes
  BY ModeStays DEF TypeOK
<1> SUFFICES ASSUME SoleWriters
             PROVE  LimitInv'
  <2>1. SoleWriters' = SoleWriters
    BY <1>0 DEF SoleWriters, StoreOf
  <2>2. QED
    BY <2>1 DEF LimitInv
<1> USE ConstantsAssumption, <1>0
<1>1. \A p, q \in running : StoreOf(p) = StoreOf(q) => p = q
  BY DEF SoleWriters
<1>2. \A p \in running : \A k \in RateKeys :
          /\ passed[StoreOf(p)][k] \in Nat /\ counters[StoreOf(p)][k] \in Nat
          /\ k.hour \in Nat
  <2>1. MaxHour \in Nat
    BY ConstantsAssumption
  <2>2. \A k \in RateKeys : k.hour \in Nat
    BY <2>1 DEF RateKeys
  <2>3. ASSUME NEW p \in running, NEW k \in RateKeys
        PROVE  passed[StoreOf(p)][k] \in Nat /\ counters[StoreOf(p)][k] \in Nat
    BY StoreOfType DEF TypeOK
  <2>4. QED
    BY <2>2, <2>3
<1>3. hour \in Nat /\ \A p \in running : ReadHour(p) \in Nat /\ (pc[p] \notin {"idle", "dead"} => ReadHour(p) = job[p].hour)
  BY DEF TypeOK, ReadHour, RateKeys, Cleaning
<1>4. ASSUME NEW p \in running, NEW work, NEW point, Begin(p, work, point),
             UNCHANGED <<sqlite, hour, counters, passed>>,
             \/ point \in {"idle", "dead"}
             \/ point \notin {"idle", "dead", "select"} /\ work.hour = hour
      PROVE  LimitInv'
  <2>1. Apart(p) /\ pc'[p] = point /\ job'[p] = work /\ StoreOf(p)' = StoreOf(p)
    BY <1>4 DEF Apart, Begin, Goto, StoreOf, TypeOK
  <2>2. ReadHour(p)' = hour /\ pc'[p] # "select"
    BY <1>4, <2>1 DEF ReadHour
  <2>3. ReadHour(p) <= hour
    BY DEF LimitInv
  <2>4. ASSUME NEW k \in RateKeys
        PROVE  Covered(p, k)'
    <3>1. Covered(p, k)
      BY DEF LimitInv
    <3>2. QED
      BY <1>2, <1>3, <1>4, <2>1, <2>2, <2>3, <3>1 DEF Covered
  <2>5. QED
    BY <1>3, <1>4, <2>1, <2>2, <2>4, OwnStore
<1>5. ASSUME NEW p \in running, NEW t \in Tenants, NEW i \in Projects, CheckRateLimit(p, t, i)
      PROVE  LimitInv'
  BY <1>4, <1>5 DEF CheckRateLimit, history
<1>6. ASSUME NEW p \in running, Increment(p)
      PROVE  LimitInv'
  <2>1. /\ job[p] \in RateKeys /\ StoreOf(p) \in Stores /\ pc[p] = "insert"
        /\ counters' = [counters EXCEPT ![StoreOf(p)][job[p]] = @ + 1]
        /\ pc' = [pc EXCEPT ![p] = "select"] /\ UNCHANGED <<sqlite, hour, job, passed>>
    BY <1>6, StoreOfType DEF Increment, Row, Goto, TypeOK
  <2>2. Apart(p) /\ StoreOf(p)' = StoreOf(p)
    BY <1>1, <2>1, StoreOfType DEF Apart, StoreOf, TypeOK
  <2>3. ReadHour(p)' = ReadHour(p) /\ ReadHour(p) = job[p].hour /\ ReadHour(p) <= hour
    BY <2>1, <1>3 DEF ReadHour, LimitInv, TypeOK
  <2>4. ASSUME NEW k \in RateKeys
        PROVE  Covered(p, k)'
    <3>1. Covered(p, k)
      BY DEF LimitInv
    <3>2. counters'[StoreOf(p)][k] = IF k = job[p] THEN counters[StoreOf(p)][k] + 1
                                                   ELSE counters[StoreOf(p)][k]
      BY <2>1 DEF TypeOK
    <3>3. QED
      BY <1>2, <2>1, <2>2, <2>3, <3>1, <3>2 DEF Covered
  <2>5. QED
    BY <2>1, <2>2, <2>3, <2>4, OwnStore
<1>7. ASSUME NEW p \in running, Judge(p)
      PROVE  LimitInv'
  <2>1. /\ job[p] \in RateKeys /\ StoreOf(p) \in Stores /\ pc[p] = "select"
        /\ Begin(p, None, "idle") /\ UNCHANGED <<sqlite, hour, counters>>
    BY <1>7, StoreOfType DEF Judge, Leave, TypeOK
  <2>2. CASE UNCHANGED passed
    BY <1>4, <2>1, <2>2
  <2>3. CASE ~ExceedsLimit(Count(p)) /\ passed' = [passed EXCEPT ![StoreOf(p)][job[p]] = @ + 1]
    <3>1. Apart(p) /\ pc'[p] = "idle" /\ StoreOf(p)' = StoreOf(p)
      BY <1>1, <2>1, <2>3, StoreOfType DEF Apart, Begin, Goto, StoreOf, TypeOK
    <3>2. ReadHour(p)' = hour /\ ReadHour(p) = job[p].hour /\ ReadHour(p) <= hour
      BY <1>3, <2>1, <3>1 DEF ReadHour, LimitInv
    <3>3. /\ Covered(p, job[p])
          /\ counters[StoreOf(p)][job[p]] <= Limit
      <4>1. Covered(p, job[p]) /\ counters[StoreOf(p)][job[p]] > 0
        BY <1>2, <2>1 DEF LimitInv, Covered
      <4>2. QED
        BY <1>2, <2>1, <2>3, <4>1 DEF ExceedsLimit, Count, Row
    <3>4. ASSUME NEW k \in RateKeys
          PROVE  Covered(p, k)'
      <4>1. passed'[StoreOf(p)][k] = IF k = job[p] THEN passed[StoreOf(p)][k] + 1
                                                   ELSE passed[StoreOf(p)][k]
        BY <2>1, <2>3 DEF TypeOK
      <4>2. Covered(p, k)
        BY DEF LimitInv
      <4>3. QED
        BY <1>2, <1>3, <2>1, <3>1, <3>2, <3>3, <4>1, <4>2 DEF Covered
    <3>5. QED
      BY <1>3, <2>1, <3>1, <3>2, <3>4, OwnStore
  <2>4. QED
    BY <1>7, <2>2, <2>3 DEF Judge
<1>8. ASSUME NEW p \in running, PruneStale(p)
      PROVE  LimitInv'
  BY <1>4, <1>8 DEF PruneStale, BeginCleanUp, history
<1>9. ASSUME NEW p \in running, DeleteStale(p)
      PROVE  LimitInv'
  <2>1. /\ StoreOf(p) \in Stores /\ pc[p] \in Cleaning
        /\ Begin(p, None, "idle") /\ UNCHANGED <<sqlite, hour, passed>>
    BY <1>9, StoreOfType DEF DeleteStale, Leave, history
  <2>2. Apart(p) /\ pc'[p] = "idle" /\ StoreOf(p)' = StoreOf(p)
    BY <1>1, <1>9, <2>1, StoreOfType DEF DeleteStale, Apart, Begin, Goto, StoreOf, TypeOK
  <2>3. ReadHour(p)' = hour /\ ReadHour(p) = job[p].hour /\ ReadHour(p) <= hour
    BY <1>3, <2>1, <2>2 DEF ReadHour, LimitInv, Cleaning
  <2>4. ASSUME NEW k \in RateKeys
        PROVE  Covered(p, k)'
    <3>1. counters'[StoreOf(p)][k] = IF k.hour # job[p].hour THEN 0
                                                             ELSE counters[StoreOf(p)][k]
      BY <1>9, <2>1 DEF DeleteStale, Stale, TypeOK
    <3>2. Covered(p, k)
      BY DEF LimitInv
    <3>3. QED
      BY <1>2, <1>3, <2>1, <2>2, <2>3, <3>1, <3>2 DEF Covered
  <2>5. QED
    BY <1>3, <2>1, <2>2, <2>3, <2>4, OwnStore
<1>10. ASSUME NEW p \in running, StatementThrows(p)
       PROVE  LimitInv'
  BY <1>4, <1>10 DEF StatementThrows, Leave, history
<1>11. ASSUME NEW p \in running, Restart(p)
       PROVE  LimitInv'
  <2>1. CASE BeginCleanUp(p, "start") /\ UNCHANGED <<counters, history>>
    BY <1>4, <1>11, <2>1 DEF Restart, BeginCleanUp, history
  <2>2. CASE ~sqlite /\ Leave(p, "idle") /\ counters' = [counters EXCEPT ![p] = NoCalls]
                /\ passed' = [passed EXCEPT ![p] = NoCalls]
    <3>1. UNCHANGED <<sqlite, hour>> /\ \A q \in running : StoreOf(q) = q /\ StoreOf(q)' = q
      BY <1>11, <2>2 DEF Restart, StoreOf
    <3>2. Apart(p) /\ pc'[p] = "idle" /\ ReadHour(p)' = hour
      BY <2>2, <3>1 DEF Apart, Leave, Begin, Goto, ReadHour, Stores, TypeOK
    <3>3. passed'[p] = NoCalls /\ counters'[p] = NoCalls
      BY <2>2 DEF TypeOK, Stores
    <3>4. \A k \in RateKeys : Covered(p, k)'
      BY <3>1, <3>2, <3>3, NoCallsType DEF Covered
    <3>5. QED
      BY <1>3, <3>1, <3>2, <3>4, OwnStore
  <2>3. QED
    BY <1>11, <2>1, <2>2 DEF Restart
<1>12. CASE Tick
  <2>1. /\ hour' = hour + 1 /\ UNCHANGED <<sqlite, counters, pc, job, passed>>
        /\ \A q \in running : StoreOf(q)' = StoreOf(q)
    BY <1>12 DEF Tick, history, StoreOf
  <2>2. ASSUME NEW q \in running
        PROVE  ReadHour(q)' <= hour' /\ \A k \in RateKeys : Covered(q, k)'
    <3>1. /\ ReadHour(q) <= hour
          /\ ReadHour(q)' = IF pc[q] \in {"idle", "dead"} THEN hour + 1 ELSE ReadHour(q)
          /\ pc[q] \in {"idle", "dead"} => ReadHour(q) = hour
      BY <2>1 DEF LimitInv, ReadHour
    <3>2. ASSUME NEW k \in RateKeys
          PROVE  Covered(q, k)'
      <4>1. Covered(q, k)
        BY DEF LimitInv
      <4>2. QED
        BY <1>2, <1>3, <2>1, <3>1, <4>1 DEF Covered
    <3>3. QED
      BY <1>2, <1>3, <2>1, <3>1, <3>2
  <2>3. QED
    BY <2>2 DEF LimitInv
<1>13. CASE UNCHANGED vars
  BY <1>13 DEF vars, LimitInv, SoleWriters, StoreOf, ReadHour, Covered
<1>14. QED
  BY <1>5, <1>6, <1>7, <1>8, <1>9, <1>10, <1>11, <1>12, <1>13 DEF Next

\* Where one process writes to a store, it lets no more calls through than the limit per
\* tenant, project and hour, however often the hour turns and the process restarts.
THEOREM SoleWriterKeepsLimit == Spec => []LimitHolds
<1>1. Init => LimitInv
  <2> SUFFICES ASSUME Init
               PROVE  LimitInv
    OBVIOUS
  <2>1. \A p \in running : ReadHour(p) = 0 /\ hour = 0 /\ pc[p] = "idle"
    BY DEF Init, ReadHour
  <2>2. \A p \in running : passed[StoreOf(p)] = NoCalls /\ counters[StoreOf(p)] = NoCalls
    BY StoreOfType DEF Init
  <2>3. QED
    BY <2>1, <2>2, NoCallsType, ConstantsAssumption DEF LimitInv, Covered
<1>2. LimitInv => LimitHolds
  BY DEF LimitInv, LimitHolds, Covered
<1>3. QED
  BY <1>1, <1>2, RateTypeCorrect, LimitStep, PTL DEF Spec
-----------------------------------------------------------------------------
\* Two processes on one database.

\* Process p has a call of key k in hand; the call is counted and waits for the verdict;
\* p is in a clean-up that read the clock before the hour of k.
InHand(p, k) == pc[p] \in {"insert", "select"} /\ job[p] = k
Counted(p, k) == IF pc[p] = "select" /\ job[p] = k THEN 1 ELSE 0
Overtaken(p, k) == pc[p] \in Cleaning /\ job[p].hour < k.hour

Through(k) == passed[Shared][k]
Rows(k) == counters[Shared][k]
Spent(p, q, k) == Through(k) + Counted(p, k) + Counted(q, k)

\* In the hour of k, the row covers what was spent until a clean-up that the turn of the
\* hour overtook deletes it; then one budget is gone, and one call that was counted waits.
\* Once the hour is over, only a process without a call in hand can delete the row, so that
\* of two calls in hand one at most is let through beyond what the row allows.
Stretch(p, q, k) ==
    /\ hour < k.hour => Through(k) = 0 /\ Rows(k) = 0 /\ ~InHand(p, k) /\ ~InHand(q, k)
    /\ hour = k.hour =>
          /\ Overtaken(p, k) /\ Overtaken(q, k) => Through(k) = 0 /\ Rows(k) = 0
          /\ Overtaken(p, k) \/ Overtaken(q, k) => Spent(p, q, k) <= Rows(k) /\ Through(k) <= Limit
          /\ Spent(p, q, k) <= Rows(k) + Limit + 1 /\ Through(k) <= 2 * Limit + 1
    /\ hour > k.hour =>
          /\ InHand(p, k) /\ InHand(q, k) => Spent(p, q, k) <= Rows(k) + Limit + 1
          /\ InHand(p, k) \/ InHand(q, k) => Through(k) <= 2 * Limit + 1
          /\ Through(k) <= 2 * Limit + 2

HoursRead == \A p \in Processes : ReadHour(p) <= hour

\* The step of a process of two, on the database, seen from a key.
LEMMA StretchFacts ==
    ASSUME TypeOK, NEW k \in RateKeys
    PROVE  /\ Through(k) \in Nat /\ Rows(k) \in Nat /\ hour \in Nat /\ k.hour \in Nat /\ Limit \in Nat
           /\ \A p \in Processes : Counted(p, k) \in {0, 1}
           /\ \A p \in Processes : pc[p] \in Cleaning => job[p].hour \in Nat
<1>1. MaxHour \in Nat /\ Limit \in Nat /\ Shared \in Stores
  BY ConstantsAssumption DEF Stores
<1>2. k.hour \in Nat
  BY <1>1 DEF RateKeys
<1>3. Through(k) \in Nat /\ Rows(k) \in Nat
  BY <1>1 DEF TypeOK, Through, Rows
<1>4. \A p \in Processes : pc[p] \in Cleaning => job[p].hour \in Nat
  BY <1>1 DEF TypeOK
<1>5. hour \in Nat
  BY <1>1 DEF TypeOK
<1>6. QED
  BY <1>1, <1>2, <1>3, <1>4, <1>5 DEF Counted

LEMMA BeginStretch ==
    ASSUME TypeOK, NEW p \in Processes, NEW q \in Processes, p # q, NEW k \in RateKeys,
           Stretch(p, q, k), NEW work, NEW point, Begin(p, work, point),
           UNCHANGED <<hour, counters, passed>>,
           \/ point \in {"idle", "dead"}
           \/ point \in Cleaning /\ work.hour = hour
           \/ point = "insert" /\ work.hour = hour /\ pc[p] = "idle"
    PROVE  Stretch(p, q, k)'
<1>1. pc'[p] = point /\ job'[p] = work /\ pc'[q] = pc[q] /\ job'[q] = job[q] /\ hour' = hour
  BY DEF Begin, Goto, TypeOK
<1>2. Through(k)' = Through(k) /\ Rows(k)' = Rows(k)
  BY DEF Through, Rows
<1>3. Counted(q, k)' = Counted(q, k) /\ (InHand(q, k)' <=> InHand(q, k)) /\ (Overtaken(q, k)' <=> Overtaken(q, k))
  BY <1>1 DEF Counted, InHand, Overtaken
<1>4. point # "select" /\ Counted(p, k)' = 0
  BY <1>1 DEF Counted, Cleaning
<1>5. InHand(p, k)' => k.hour = hour /\ pc[p] = "idle"
  BY <1>1, <1>4 DEF InHand, Cleaning
<1>6. k.hour <= hour => ~Overtaken(p, k)'
  BY <1>1, StretchFacts DEF Overtaken, Cleaning
<1>7. Spent(p, q, k)' = Through(k) + Counted(q, k) /\ Spent(p, q, k)' <= Spent(p, q, k)
  BY <1>2, <1>3, <1>4, StretchFacts DEF Spent
<1>8. QED
  <2> HIDE DEF Spent, Through, Rows, Counted, InHand, Overtaken
  <2>1. /\ hour \in Nat /\ k.hour \in Nat /\ Limit \in Nat /\ Rows(k) \in Nat /\ Through(k) \in Nat
        /\ Spent(p, q, k) \in Nat /\ Spent(p, q, k)' \in Nat
    BY <1>7, StretchFacts DEF Spent
  <2>2. QED
    BY <1>1, <1>2, <1>3, <1>5, <1>6, <1>7, <2>1 DEF Stretch

LEMMA IncrementStretch ==
    ASSUME TypeOK, sqlite, NEW p \in Processes, NEW q \in Processes, p # q, NEW k \in RateKeys,
           Stretch(p, q, k), Increment(p)
    PROVE  Stretch(p, q, k)'
<1>1. /\ job[p] \in RateKeys /\ Shared \in Stores /\ pc[p] = "insert"
      /\ counters' = [counters EXCEPT ![Shared][job[p]] = @ + 1]
      /\ pc' = [pc EXCEPT ![p] = "select"] /\ UNCHANGED <<hour, job, passed>>
  BY DEF Increment, Row, Goto, StoreOf, Stores, TypeOK
<1>2. Rows(k)' = IF k = job[p] THEN Rows(k) + 1 ELSE Rows(k)
  BY <1>1 DEF Rows, TypeOK
<1>3. /\ pc'[p] = "select" /\ pc'[q] = pc[q] /\ job'[p] = job[p] /\ job'[q] = job[q]
      /\ Through(k)' = Through(k)
  BY <1>1 DEF Through, TypeOK
<1>4. Counted(p, k)' = (IF k = job[p] THEN 1 ELSE 0) /\ Counted(p, k) = 0 /\ Counted(q, k)' = Counted(q, k)
  BY <1>1, <1>3 DEF Counted
<1>5. /\ InHand(p, k)' <=> InHand(p, k)
      /\ InHand(q, k)' <=> InHand(q, k)
      /\ Overtaken(q, k)' <=> Overtaken(q, k)
      /\ ~Overtaken(p, k) /\ ~Overtaken(p, k)'
      /\ InHand(p, k) <=> k = job[p]
  BY <1>1, <1>3 DEF InHand, Overtaken, Cleaning
<1>6. Spent(p, q, k)' = IF k = job[p] THEN Spent(p, q, k) + 1 ELSE Spent(p, q, k)
  BY <1>3, <1>4, StretchFacts DEF Spent
<1>7. Spent(p, q, k) \in Nat /\ Rows(k) \in Nat /\ Through(k) \in Nat /\ Limit \in Nat /\ hour \in Nat /\ k.hour \in Nat
  BY StretchFacts DEF Spent
<1>8. hour' = hour
  BY <1>1
<1>9. QED
  BY <1>2, <1>3, <1>5, <1>6, <1>7, <1>8 DEF Stretch

LEMMA JudgeStretch ==
    ASSUME TypeOK, sqlite, NEW p \in Processes, NEW q \in Processes, p # q, NEW k \in RateKeys,
           Stretch(p, q, k), Judge(p)
    PROVE  Stretch(p, q, k)'
<1>1. /\ job[p] \in RateKeys /\ Shared \in Stores /\ pc[p] = "select" /\ StoreOf(p) = Shared
      /\ Begin(p, None, "idle") /\ UNCHANGED <<sqlite, hour, counters>>
  BY DEF Judge, Leave, StoreOf, Stores, TypeOK
<1>2. CASE UNCHANGED passed
  BY <1>1, <1>2, BeginStretch
<1>3. CASE ~ExceedsLimit(Count(p)) /\ passed' = [passed EXCEPT ![StoreOf(p)][job[p]] = @ + 1]
  <2>1. /\ pc'[p] = "idle" /\ pc'[q] = pc[q] /\ job'[q] = job[q]
        /\ Rows(k)' = Rows(k) /\ hour' = hour
    BY <1>1 DEF Rows, Begin, Goto, TypeOK
  <2>2. Through(k)' = IF k = job[p] THEN Through(k) + 1 ELSE Through(k)
    BY <1>1, <1>3 DEF Through, TypeOK
  <2>3. /\ Counted(p, k)' = 0 /\ Counted(p, k) = (IF k = job[p] THEN 1 ELSE 0)
        /\ Counted(q, k)' = Counted(q, k) /\ Counted(q, k) \in {0, 1}
    BY <1>1, <2>1 DEF Counted
  <2>4. /\ ~InHand(p, k)' /\ (InHand(p, k) <=> k = job[p])
        /\ InHand(q, k)' <=> InHand(q, k)
        /\ Overtaken(q, k)' <=> Overtaken(q, k)
        /\ ~Overtaken(p, k) /\ ~Overtaken(p, k)'
    BY <1>1, <2>1 DEF InHand, Overtaken, Cleaning
  <2>5. Rows(k) \in Nat /\ Through(k) \in Nat /\ Limit \in Nat /\ hour \in Nat /\ k.hour \in Nat
    BY StretchFacts
  <2>6. k = job[p] => Rows(k) <= Limit
    BY <1>1, <1>3, <2>5 DEF ExceedsLimit, Count, Row, Rows
  <2>7. /\ Spent(p, q, k)' = Spent(p, q, k) /\ Spent(p, q, k) \in Nat
        /\ k = job[p] => Through(k) + 1 <= Spent(p, q, k)
    BY <2>2, <2>3, <2>5 DEF Spent
  <2>8. QED
    BY <2>1, <2>2, <2>4, <2>5, <2>6, <2>7 DEF Stretch
<1>4. QED
  BY <1>2, <1>3 DEF Judge

LEMMA DeleteStretch ==
    ASSUME TypeOK, sqlite, HoursRead, NEW p \in Processes, NEW q \in Processes, p # q,
           NEW k \in RateKeys, Stretch(p, q, k), DeleteStale(p)
    PROVE  Stretch(p, q, k)'
<1>1. /\ Shared \in Stores /\ pc[p] \in Cleaning /\ StoreOf(p) = Shared
      /\ Begin(p, None, "idle") /\ UNCHANGED <<hour, passed>>
  BY DEF DeleteStale, Leave, StoreOf, Stores, history
<1>2. /\ pc'[p] = "idle" /\ pc'[q] = pc[q] /\ job'[q] = job[q] /\ hour' = hour
      /\ Through(k)' = Through(k)
  BY <1>1 DEF Through, Begin, Goto, TypeOK
<1>3. Rows(k)' = IF k.hour # job[p].hour THEN 0 ELSE Rows(k)
  BY <1>1 DEF DeleteStale, Stale, Rows, TypeOK
<1>4. Counted(p, k)' = 0 /\ Counted(p, k) = 0 /\ Counted(q, k)' = Counted(q, k) /\ Counted(q, k) \in {0, 1}
  BY <1>1, <1>2 DEF Counted, Cleaning
<1>5. /\ ~InHand(p, k)' /\ ~InHand(p, k)
      /\ InHand(q, k)' <=> InHand(q, k)
      /\ Overtaken(q, k)' <=> Overtaken(q, k)
      /\ Overtaken(p, k) <=> job[p].hour < k.hour
      /\ ~Overtaken(p, k)'
      /\ Counted(q, k) = 1 => ~Overtaken(q, k)
  BY <1>1, <1>2 DEF InHand, Overtaken, Cleaning, Counted
<1>6. job[p].hour <= hour /\ job[p].hour \in Nat
  BY <1>1, StretchFacts DEF HoursRead, ReadHour, Cleaning
<1>7. Rows(k) \in Nat /\ Through(k) \in Nat /\ Limit \in Nat /\ hour \in Nat /\ k.hour \in Nat
  BY StretchFacts
<1>8. Spent(p, q, k)' = Through(k) + Counted(q, k) /\ Spent(p, q, k) = Through(k) + Counted(q, k)
  BY <1>2, <1>4, <1>7 DEF Spent
<1>9. QED
  BY <1>2, <1>3, <1>4, <1>5, <1>6, <1>7, <1>8 DEF Stretch

LEMMA TickStretch ==
    ASSUME TypeOK, NEW p \in Processes, NEW q \in Processes, NEW k \in RateKeys,
           Stretch(p, q, k), Tick
    PROVE  Stretch(p, q, k)'
<1>1. hour' = hour + 1 /\ UNCHANGED <<counters, pc, job, passed>>
  BY DEF Tick, history
<1>2. /\ Through(k)' = Through(k) /\ Rows(k)' = Rows(k) /\ Spent(p, q, k)' = Spent(p, q, k)
      /\ \A r \in {p, q} : /\ InHand(r, k)' <=> InHand(r, k)
                           /\ Overtaken(r, k)' <=> Overtaken(r, k)
  BY <1>1 DEF Through, Rows, Spent, Counted, InHand, Overtaken
<1>3. /\ Rows(k) \in Nat /\ Through(k) \in Nat /\ Limit \in Nat /\ hour \in Nat /\ k.hour \in Nat
      /\ Counted(p, k) \in {0, 1} /\ Counted(q, k) \in {0, 1}
  BY StretchFacts
<1>4. \A r \in {p, q} : ~InHand(r, k) => Counted(r, k) = 0
  BY DEF InHand, Counted
<1>5. Spent(p, q, k) = Through(k) + Counted(p, k) + Counted(q, k)
  BY DEF Spent
<1>6. QED
  BY <1>1, <1>2, <1>3, <1>4, <1>5 DEF Stretch

LEMMA HoursStep == TypeOK /\ HoursRead /\ [Next]_vars => HoursRead'
<1> SUFFICES ASSUME TypeOK, HoursRead, [Next]_vars
             PROVE  HoursRead'
  OBVIOUS
<1>0. hour \in Nat /\ \A p \in Processes : ReadHour(p) \in Nat
  BY ConstantsAssumption DEF TypeOK, ReadHour, RateKeys, Cleaning
<1>1. ASSUME NEW p \in Processes, NEW work, NEW point, Begin(p, work, point), UNCHANGED hour,
             point \in {"idle", "dead"} \/ work.hour = hour
      PROVE  HoursRead'
  <2>1. \A q \in Processes \ {p} : ReadHour(q)' = ReadHour(q)
    BY <1>1 DEF Begin, Goto, ReadHour, TypeOK
  <2>2. ReadHour(p)' = hour
    BY <1>1 DEF Begin, Goto, ReadHour, TypeOK
  <2>3. QED
    BY <1>0, <1>1, <2>1, <2>2 DEF HoursRead
<1>2. ASSUME NEW p \in Processes, NEW t \in Tenants, NEW i \in Projects, CheckRateLimit(p, t, i)
      PROVE  HoursRead'
  BY <1>1, <1>2 DEF CheckRateLimit
<1>3. ASSUME NEW p \in Processes, Increment(p)
      PROVE  HoursRead'
  BY <1>3 DEF Increment, Goto, HoursRead, ReadHour, TypeOK
<1>4. ASSUME NEW p \in Processes, Judge(p)
      PROVE  HoursRead'
  BY <1>1, <1>4 DEF Judge, Leave
<1>5. ASSUME NEW p \in Processes, PruneStale(p) \/ DeleteStale(p) \/ StatementThrows(p) \/ Restart(p)
      PROVE  HoursRead'
  <2>1. UNCHANGED hour
    BY <1>5 DEF PruneStale, DeleteStale, StatementThrows, Restart
  <2>2. \E work, point : Begin(p, work, point) /\ (point \in {"idle", "dead"} \/ work.hour = hour)
    BY <1>5 DEF PruneStale, DeleteStale, StatementThrows, Restart, BeginCleanUp, Leave
  <2>3. QED
    BY <1>1, <2>1, <2>2
<1>6. CASE Tick
  <2>1. hour' = hour + 1 /\ \A p \in Processes : ReadHour(p)' \in {ReadHour(p), hour'}
    BY <1>6 DEF Tick, ReadHour
  <2>2. QED
    BY <1>0, <2>1 DEF HoursRead
<1>7. CASE UNCHANGED vars
  BY <1>7 DEF vars, HoursRead, ReadHour
<1>8. QED
  BY <1>2, <1>3, <1>4, <1>5, <1>6, <1>7 DEF Next, TypeOK

LEMMA ServeStretch ==
    ASSUME TypeOK, sqlite, HoursRead, NEW p \in Processes, NEW q \in Processes, p # q,
           NEW k \in RateKeys, Stretch(p, q, k),
           \/ \E t \in Tenants, i \in Projects : CheckRateLimit(p, t, i)
           \/ Increment(p) \/ Judge(p)
           \/ PruneStale(p) \/ DeleteStale(p) \/ StatementThrows(p) \/ Restart(p)
    PROVE  Stretch(p, q, k)'
<1>1. ASSUME NEW t \in Tenants, NEW i \in Projects, CheckRateLimit(p, t, i)
      PROVE  Stretch(p, q, k)'
  <2>1. /\ Begin(p, [tenant |-> t, project |-> i, hour |-> hour], "insert") /\ pc[p] = "idle"
        /\ UNCHANGED <<hour, counters, passed>>
    BY <1>1 DEF CheckRateLimit, history
  <2>2. [tenant |-> t, project |-> i, hour |-> hour].hour = hour
    OBVIOUS
  <2>3. QED
    BY <2>1, <2>2, BeginStretch
<1>2. CASE Increment(p)
  BY <1>2, IncrementStretch
<1>3. CASE Judge(p)
  BY <1>3, JudgeStretch
<1>4. CASE PruneStale(p) \/ StatementThrows(p) \/ Restart(p)
  <2>1. UNCHANGED <<hour, counters, passed>>
    BY <1>4 DEF PruneStale, StatementThrows, Restart, history
  <2>2. \/ Leave(p, "idle") \/ Leave(p, "dead")
        \/ \E point \in Cleaning : Begin(p, [hour |-> hour], point)
    BY <1>4 DEF PruneStale, StatementThrows, Restart, BeginCleanUp, Cleaning
  <2>3. CASE Leave(p, "idle") \/ Leave(p, "dead")
    BY <2>1, <2>3, BeginStretch DEF Leave
  <2>4. CASE \E point \in Cleaning : Begin(p, [hour |-> hour], point)
    <3>1. [hour |-> hour].hour = hour
      OBVIOUS
    <3>2. QED
      BY <2>1, <2>4, <3>1, BeginStretch
  <2>5. QED
    BY <2>2, <2>3, <2>4
<1>5. CASE DeleteStale(p)
  BY <1>5, DeleteStretch
<1>6. QED
  BY <1>1, <1>2, <1>3, <1>4, <1>5

TwoProcesses == \E p, q \in Processes : p # q /\ Processes = {p, q}

StretchInv ==
    /\ HoursRead
    /\ TwoProcesses /\ sqlite =>
          \A p, q \in Processes : p # q => \A k \in RateKeys : Stretch(p, q, k)

LEMMA StretchStep == TypeOK /\ StretchInv /\ [Next]_vars => StretchInv'
<1> SUFFICES ASSUME TypeOK, StretchInv, [Next]_vars
             PROVE  StretchInv'
  OBVIOUS
<1>1. HoursRead' /\ TypeOK' /\ sqlite' = sqlite
  BY HoursStep, ModeStays, TypeStep DEF StretchInv
<1>2. SUFFICES ASSUME TwoProcesses, sqlite, NEW p \in Processes, NEW q \in Processes, p # q,
                      NEW k \in RateKeys
               PROVE  Stretch(p, q, k)'
  BY <1>1 DEF StretchInv
<1>3. Stretch(p, q, k) /\ Stretch(q, p, k) /\ HoursRead
  BY <1>2 DEF StretchInv
<1>4. Processes = {p, q}
  BY <1>2 DEF TwoProcesses
<1>5. CASE \E x \in Processes :
               \/ \E t \in Tenants, i \in Projects : CheckRateLimit(x, t, i)
               \/ Increment(x) \/ Judge(x)
               \/ PruneStale(x) \/ DeleteStale(x) \/ StatementThrows(x) \/ Restart(x)
  <2>1. Stretch(p, q, k)' \/ Stretch(q, p, k)'
    BY <1>2, <1>3, <1>4, <1>5, ServeStretch
  <2>2. CASE Stretch(q, p, k)'
    <3>1. Spent(p, q, k)' = Spent(q, p, k)'
      <4>1. {Through(k)', Counted(p, k)', Counted(q, k)'} \subseteq Nat
        BY <1>1, ConstantsAssumption DEF TypeOK, Through, Counted, Stores
      <4>2. QED
        BY <4>1 DEF Spent
    <3>2. QED
      BY <2>2, <3>1 DEF Stretch
  <2>3. QED
    BY <2>1, <2>2
<1>6. CASE Tick
  BY <1>3, <1>6, TickStretch
<1>7. CASE UNCHANGED vars
  BY <1>3, <1>7 DEF vars, Stretch, Spent, Through, Rows, Counted, InHand, Overtaken
<1>8. QED
  BY <1>5, <1>6, <1>7 DEF Next, TypeOK

\* A set of two has two elements and no other.
LEMMA TwoElements ==
    ASSUME NEW S, Cardinality(S) = 2
    PROVE  IsFiniteSet(S) => \E a, b \in S : a # b /\ S = {a, b}
<1> SUFFICES ASSUME IsFiniteSet(S)
             PROVE  \E a, b \in S : a # b /\ S = {a, b}
  OBVIOUS
<1>1. PICK a \in S : TRUE
  BY FS_EmptySet
<1>2. IsFiniteSet(S \ {a}) /\ Cardinality(S \ {a}) = 1
  BY <1>1, FS_RemoveElement
<1>3. PICK b : S \ {a} = {b}
  BY <1>2, FS_Singleton
<1>4. QED
  BY <1>1, <1>3

\* Two processes that share a database let through at most twice the limit and two calls
\* more, however the turn of the hour, their clean-ups, their errors and their restarts fall.
THEOREM TwoProcessesStretchTheLimit == IsFiniteSet(Processes) => (Spec => []LimitStretched)
<1> SUFFICES ASSUME IsFiniteSet(Processes)
             PROVE  Spec => []LimitStretched
  OBVIOUS
<1>1. Init => StretchInv
  <2> SUFFICES ASSUME Init
               PROVE  StretchInv
    OBVIOUS
  <2>1. hour = 0 /\ \A p \in Processes : pc[p] = "idle" /\ ReadHour(p) = 0
    BY DEF Init, ReadHour
  <2>2. \A k \in RateKeys : Through(k) = 0 /\ Rows(k) = 0
    BY NoCallsType DEF Init, Through, Rows, Stores
  <2>3. \A p \in Processes : \A k \in RateKeys : Counted(p, k) = 0 /\ ~InHand(p, k)
    BY <2>1 DEF Counted, InHand
  <2>4. \A k \in RateKeys : k.hour \in Nat
    BY ConstantsAssumption DEF RateKeys
  <2>5. ASSUME NEW p \in Processes, NEW q \in Processes, NEW k \in RateKeys
        PROVE  Stretch(p, q, k)
    BY <2>1, <2>2, <2>3, <2>4, ConstantsAssumption DEF Stretch, Spent
  <2>6. QED
    BY <2>1, <2>5 DEF StretchInv, HoursRead
<1>2. TypeOK /\ StretchInv /\ LimitHolds => LimitStretched
  <2> SUFFICES ASSUME TypeOK, StretchInv, LimitHolds, Cardinality(Processes) = 2,
                      NEW p \in Processes, p \in running, NEW k \in RateKeys
               PROVE  passed[StoreOf(p)][k] <= 2 * Limit + 2
    BY DEF LimitStretched, TypeOK
  <2>1. TwoProcesses
    BY TwoElements DEF TwoProcesses
  <2>2. CASE sqlite
    <3>1. PICK q \in Processes : q # p
      BY <2>1 DEF TwoProcesses
    <3>2. Stretch(p, q, k)
      BY <2>1, <2>2, <3>1 DEF StretchInv
    <3>3. Through(k) <= 2 * Limit + 2
      BY <3>2, StretchFacts DEF Stretch
    <3>4. QED
      BY <2>2, <3>3 DEF StoreOf, Through
  <2>3. CASE ~sqlite
    <3>1. SoleWriters
      BY <2>3 DEF SoleWriters, StoreOf
    <3>2. passed[StoreOf(p)][k] <= Limit /\ passed[StoreOf(p)][k] \in Nat
      BY <3>1, StoreOfType DEF LimitHolds, TypeOK
    <3>3. QED
      BY <3>2, ConstantsAssumption
  <2>4. QED
    BY <2>2, <2>3
<1>3. QED
  BY <1>1, <1>2, RateTypeCorrect, SoleWriterKeepsLimit, StretchStep, PTL DEF Spec
=============================================================================
