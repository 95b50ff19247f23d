----------------------------- MODULE WorkerPool -----------------------------
(***************************************************************************)
(* withConcurrencyLimit (src/apis/aecdm.ts): a list of asynchronous tasks  *)
(* run by at most Limit workers.  A worker is one async function; between  *)
(* two awaits it runs alone, so taking the next index is one step with     *)
(* what came before it.  Promise.all gives up at the first failure but     *)
(* cancels nobody: the other workers go on sending requests.               *)
(***************************************************************************)
EXTENDS Naturals

CONSTANTS
    MaxTasks,   \* the longest list (bound)
    Limit,      \* workers at work at the same time
    Answers,    \* what a task may give
    None        \* no result yet

ASSUME PoolAssumption ==
    /\ MaxTasks \in Nat
    /\ Limit \in Nat \ {0}
    /\ None \notin Answers

VARIABLES
    tasks,      \* tasks.length
    started,    \* next: how many tasks have been taken
    holding,    \* the task each worker awaits, 0 if none
    results,    \* the slots of the answer
    pool        \* the promise that Promise.all returned

poolVars == <<tasks, started, holding, results, pool>>

Slots == 1 .. MaxTasks
WorkerIds == 1 .. Limit
PoolStates == {"idle", "running", "resolved", "rejected"}

PoolTypeOK ==
    /\ tasks \in 0 .. MaxTasks
    /\ started \in 0 .. MaxTasks
    /\ holding \in [WorkerIds -> 0 .. MaxTasks]
    /\ results \in [Slots -> Answers \cup {None}]
    /\ pool \in PoolStates

PoolInit ==
    /\ tasks = 0
    /\ started = 0
    /\ holding = [w \in WorkerIds |-> 0]
    /\ results = [i \in Slots |-> None]
    /\ pool = "idle"

\* Each worker runs up to its first await while the array of workers is built.
StartPool(n) ==
    /\ pool = "idle"
    /\ tasks' = n
    /\ started' = IF n < Limit THEN n ELSE Limit
    /\ holding' = [w \in WorkerIds |-> IF w <= n THEN w ELSE 0]
    /\ pool' = IF n = 0 THEN "resolved" ELSE "running"
    /\ UNCHANGED results

\* A broken pool: the index is read before the await and advanced after it.
TakeNextLate(w) ==
    /\ holding' = [holding EXCEPT ![w] = IF started < tasks THEN started ELSE 0]
    /\ started' = IF started < tasks THEN started + 1 ELSE started

\* The worker goes round its loop: the next index, or it is through.
TakeNext(w) ==
    /\ holding' = [holding EXCEPT ![w] = IF started < tasks THEN started + 1 ELSE 0]
    /\ started' = IF started < tasks THEN started + 1 ELSE started

\* The last worker at work has run out of tasks: all of Promise.all is settled.
AllThrough(w) == started = tasks /\ \A v \in WorkerIds \ {w} : holding[v] = 0

Answer(w, a) ==
    /\ holding[w] # 0
    /\ results' = [results EXCEPT ![holding[w]] = a]
    /\ TakeNext(w)
    /\ pool' = IF pool = "running" /\ AllThrough(w) THEN "resolved" ELSE pool
    /\ UNCHANGED tasks

\* The worker ends with its task; the others do not notice.
Fail(w) ==
    /\ holding[w] # 0
    /\ holding' = [holding EXCEPT ![w] = 0]
    /\ pool' = "rejected"
    /\ UNCHANGED <<tasks, started, results>>

PoolNext ==
    \/ \E n \in 0 .. MaxTasks : StartPool(n)
    \/ \E w \in WorkerIds : \E a \in Answers : Answer(w, a)
    \/ \E w \in WorkerIds : Fail(w)

PoolSpec == PoolInit /\ [][PoolNext]_poolVars

-----------------------------------------------------------------------------
(***************************************************************************)
(* Properties                                                              *)
(***************************************************************************)

\* No task is run by two workers, none is run again once it has a result, and the caller that
\* goes on with the results has one of every task, with no worker still writing to them.
PoolWhole ==
    /\ \A w, v \in WorkerIds : holding[w] # 0 /\ holding[w] = holding[v] => w = v
    /\ \A w \in WorkerIds : holding[w] # 0 => results[holding[w]] = None
    /\ pool = "resolved" => /\ \A i \in 1 .. tasks : results[i] # None
                            /\ \A w \in WorkerIds : holding[w] = 0
=============================================================================
