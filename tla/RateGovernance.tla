--------------------------- MODULE RateGovernance ---------------------------
(***************************************************************************)
(* checkRateLimit (src/safety/rate-governance.ts): the limit on the calls  *)
(* of a tool per tenant, project and hour, with its counters in memory or  *)
(* SQLite (src/persistence/rate-store.ts) and the timers that clean up.    *)
(*                                                                         *)
(* None of this awaits, so a process is inside one check or clean-up at a  *)
(* time; but the hour may turn, and on SQLite another process may run,     *)
(* between the reading of the clock and each statement.                    *)
(*                                                                         *)
(* Abstracted: one tool that has a limit (each tool has its own counters); *)
(* a project is its id as the caller wrote it, which is what a key holds.  *)
(***************************************************************************)
EXTENDS Naturals, FiniteSets, Functions

CONSTANTS
    Processes, Tenants, Projects,
    Shared,     \* the name of the shared database
    None,       \* no work
    Limit,      \* per_project_per_hour
    MaxHour,    \* the clock stops here (bound)
    MaxCalls    \* calls counted in all (bound)

ASSUME ConstantsAssumption ==
    /\ {Limit, MaxHour, MaxCalls} \subseteq Nat
    /\ Shared \notin Processes

VARIABLES
    running,    \* the processes of this deployment; docs/SAFETY.md asks for one
    sqlite,     \* FORMA_PERSISTENCE_MODE = sqlite (else memory)
    hour,       \* hourBucket()
    counters,   \* the rows of rate_counters, per store; 0 stands for no row
    pc,         \* where each process is
    job,        \* what it is working on, with the hour it read
    counted,    \* history: calls counted under each key, per store
    passed,     \* history: calls let through under each key, per store
    refused     \* history: the keys under which a call was refused, per store

vars == <<running, sqlite, hour, counters, pc, job, counted, passed, refused>>
history == <<counted, passed, refused>>

\* With SQLite all processes share one store; in memory each has its own.
Stores == Processes \cup {Shared}
StoreOf(p) == IF sqlite THEN Shared ELSE p

RateKeys == [tenant : Tenants, project : Projects, hour : 0..MaxHour]
NoCalls == [k \in RateKeys |-> 0]
Total(calls) == FoldFunction(+, 0, calls)
CallsCounted == FoldFunction(LAMBDA calls, n : Total(calls) + n, 0, counted)

Cleaning == {"start", "sweep", "prune"}

TypeOK ==
    /\ running \subseteq Processes
    /\ sqlite \in BOOLEAN
    /\ hour \in 0..MaxHour
    /\ counters \in [Stores -> [RateKeys -> Nat]]
    /\ pc \in [Processes -> {"idle", "insert", "select", "dead"} \cup Cleaning]
    /\ job \in [Processes -> RateKeys \cup [hour : 0..MaxHour] \cup {None}]
    /\ \A p \in Processes : /\ pc[p] \in {"insert", "select"} => job[p] \in RateKeys
                            /\ pc[p] \in Cleaning => job[p] \in [hour : 0..MaxHour]
    /\ counted \in [Stores -> [RateKeys -> Nat]]
    /\ passed \in [Stores -> [RateKeys -> Nat]]
    /\ refused \in [Stores -> SUBSET RateKeys]

Init ==
    /\ running \in SUBSET Processes \ {{}}
    /\ sqlite \in BOOLEAN
    /\ hour = 0
    /\ counters = [s \in Stores |-> NoCalls]
    /\ pc = [p \in Processes |-> "idle"]
    /\ job = [p \in Processes |-> None]
    /\ counted = [s \in Stores |-> NoCalls]
    /\ passed = [s \in Stores |-> NoCalls]
    /\ refused = [s \in Stores |-> {}]
-----------------------------------------------------------------------------
Goto(p, point) == pc' = [pc EXCEPT ![p] = point]

\* Mutant: the next check works with the key of the last one.
GotoOnly(p, work, point) == UNCHANGED job /\ Goto(p, point)
Begin(p, work, point) == job' = [job EXCEPT ![p] = work] /\ Goto(p, point)

\* The check or the clean-up of process p is over, perhaps together with the process.
Leave(p, point) == Begin(p, None, point)

\* checkRateLimit reads the clock ...
CheckRateLimit(p, t, i) ==
    /\ pc[p] = "idle"
    /\ CallsCounted < MaxCalls
    /\ Begin(p, [tenant |-> t, project |-> i, hour |-> hour], "insert")
    /\ UNCHANGED <<sqlite, hour, counters, history>>

\* Mutant: the hour is not part of the key.
RowWithoutHour(k) == [k EXCEPT !.hour = 0]

\* The key of a row: tenant, tool, project and hour.
Row(k) == k

\* ... INSERT ... ON CONFLICT DO UPDATE SET count = count + 1 ...
Increment(p) ==
    /\ pc[p] = "insert"
    /\ counters' = [counters EXCEPT ![StoreOf(p)][Row(job[p])] = @ + 1]
    /\ counted' = [counted EXCEPT ![StoreOf(p)][job[p]] = @ + 1]
    /\ Goto(p, "select")
    /\ UNCHANGED <<sqlite, hour, job, passed, refused>>

\* ... SELECT count, which is taken to be 1 if the row has gone meanwhile ...
Count(p) ==
    LET n == counters[StoreOf(p)][Row(job[p])] IN IF n = 0 THEN 1 ELSE n

ExceedsLimit(n) == n > Limit

\* ... and the verdict.
Judge(p) ==
    /\ pc[p] = "select"
    /\ \/ /\ ExceedsLimit(Count(p))
          /\ refused' = [refused EXCEPT ![StoreOf(p)] = @ \cup {job[p]}]
          /\ UNCHANGED passed
       \/ /\ ~ExceedsLimit(Count(p))
          /\ passed' = [passed EXCEPT ![StoreOf(p)][job[p]] = @ + 1]
          /\ UNCHANGED refused
    /\ Leave(p, "idle")
    /\ UNCHANGED <<sqlite, hour, counters, counted>>
-----------------------------------------------------------------------------
\* A clean-up reads the clock ...
BeginCleanUp(p, point) == Begin(p, [hour |-> hour], point)

\* ... when the hourly timer of rate-governance.ts fires, or that of setupPersistence ...
PruneStale(p) ==
    /\ pc[p] = "idle"
    /\ BeginCleanUp(p, "prune") \/ (sqlite /\ BeginCleanUp(p, "sweep"))
    /\ UNCHANGED <<sqlite, hour, counters, history>>

\* Mutant: the row of the current hour goes too.
StaleUpToNow(k, current) == k.hour <= current
Stale(k, current) == k.hour # current

\* ... and deletes the rows of every other hour.
DeleteStale(p) ==
    /\ pc[p] \in Cleaning
    /\ counters' = [counters EXCEPT ![StoreOf(p)] =
           [k \in RateKeys |-> IF Stale(k, job[p].hour) THEN 0 ELSE @[k]]]
    /\ Leave(p, "idle")
    /\ UNCHANGED <<sqlite, hour, history>>

\* A statement throws (SQLITE_BUSY, a full disk).  The call fails; setupPersistence catches
\* what its timer throws; nobody catches what the timer of rate-governance.ts throws.
StatementThrows(p) ==
    /\ sqlite
    /\ \/ pc[p] \in {"insert", "select", "sweep"} /\ Leave(p, "idle")
       \/ pc[p] = "prune" /\ Leave(p, "dead")
    /\ UNCHANGED <<sqlite, hour, counters, history>>

\* The process is started anew, with empty counters or with a clean-up.
Restart(p) ==
    /\ \/ /\ sqlite
          /\ BeginCleanUp(p, "start")
          /\ UNCHANGED <<counters, history>>
       \/ /\ ~sqlite
          /\ Leave(p, "idle")
          /\ counters' = [counters EXCEPT ![p] = NoCalls]
          /\ counted' = [counted EXCEPT ![p] = NoCalls]
          /\ passed' = [passed EXCEPT ![p] = NoCalls]
          /\ refused' = [refused EXCEPT ![p] = {}]
    /\ UNCHANGED <<sqlite, hour>>

Tick ==
    /\ hour < MaxHour
    /\ hour' = hour + 1
    /\ UNCHANGED <<sqlite, counters, pc, job, history>>

Next ==
    /\ \/ \E p \in running :
             \/ \E t \in Tenants, i \in Projects : CheckRateLimit(p, t, i)
             \/ Increment(p) \/ Judge(p)
             \/ PruneStale(p) \/ DeleteStale(p) \/ StatementThrows(p) \/ Restart(p)
       \/ Tick
    /\ UNCHANGED running

Spec == Init /\ [][Next]_vars
-----------------------------------------------------------------------------
\* One process per store: a single process, or counters in memory.
SoleWriters == \A p, q \in running : StoreOf(p) = StoreOf(q) => p = q

\* No more calls than the limit are let through per tenant, project and hour, whenever the
\* hour turns, and over all restarts as long as the counters survive them.
LimitHolds ==
    SoleWriters => \A p \in running : \A k \in RateKeys : passed[StoreOf(p)][k] <= Limit

\* Two processes on one database, as while one replaces the other: a clean-up that the turn
\* of the hour overtakes grants one more budget, and of the other process one call may slip
\* through at that moment and one after the end of the hour; no more.
LimitStretched ==
    Cardinality(Processes) = 2 =>
        \A p \in running : \A k \in RateKeys : passed[StoreOf(p)][k] <= 2 * Limit + 2

\* A call is refused only if its own tenant made more calls than the limit for that project
\* in that hour, whatever the other tenants and processes did in between.
RefusedForCause ==
    \A s \in Stores : \A k \in refused[s] : counted[s][k] > Limit
=============================================================================
