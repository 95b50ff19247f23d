------------------------------ MODULE AuditLog ------------------------------
(***************************************************************************)
(* The hash-chained audit log: appendAuditEntry and pruneOldAuditFiles     *)
(* (src/safety/audit-log.ts), verifyChain (src/safety/hash-chain.ts) and   *)
(* the verdict of meta_verify_audit_chain.                                 *)
(*                                                                         *)
(* An append is two steps, the choice of the file and of the previous hash *)
(* and the write, because two server processes may log into one directory; *)
(* within a process nothing runs between the two.  A write may fail after  *)
(* part of the line reached the file, with or without a crash, and a file  *)
(* may not be readable when its last hash is wanted.  Somebody may edit a   *)
(* file behind the server's back, once.                                    *)
(*                                                                         *)
(* Abstracted: the content of an entry is a serial number; SHA-256 is a    *)
(* free constructor; time is the UTC day.                                  *)
(***************************************************************************)
EXTENDS Naturals, Sequences, FiniteSets

CONSTANTS
    Processes,   \* server processes
    Dirs,        \* audit directories: the root and one per tenant
    None,        \* no hash cached, no append under way
    Retention,   \* FORMA_AUDIT_RETENTION_DAYS
    LastDay,     \* the calendar ends here (bound)
    MaxEntries   \* appends that are tried (bound)

ASSUME ConstantsAssumption ==
    /\ {Retention, LastDay} \subseteq Nat \ {0} /\ MaxEntries \in Nat

VARIABLES
    day,        \* today, UTC
    files,      \* what the daily file of each directory holds, <<>> if there is none
    lastHash,   \* lastHashByFile of each process
    current,    \* currentFileByDir of each process, as the day of the file, 0 if unset
    pending,    \* the append a process is in the middle of
    tried,      \* the number of appends tried so far; numbers the entries
    writers,    \* history: the processes that wrote to each file
    hurt,       \* history: the files with a write cut short or an edit
    unread      \* history: the files with entries that could not be read for their last hash

vars == <<day, files, lastHash, current, pending, tried, writers, hurt, unread>>

Files == Dirs \X (1..LastDay)

\* Mutant: dated by the local clock, east of Greenwich.
FileOfLocalDay(dir) == <<dir, day + 1>>

\* todayLogFile
FileOf(dir) == <<dir, day>>

\* sha256(prevHash + entry): equal only for equal arguments.
Genesis == <<>>
ComputeHash(prev, body) == <<prev, body>>

\* What one append left in the file: a line, a line without its newline, or a part of it.
Endings == {"line", "unended", "cut"}
Written(prev, body, ending) ==
    [prev |-> prev, body |-> body, hash |-> ComputeHash(prev, body), ending |-> ending]

\* A write parses as a line of its own if it is complete and nothing is glued to it.
Readable(ws, i) ==
    /\ ws[i].ending # "cut"
    /\ i > 1 => ws[i - 1].ending = "line"
    /\ i < Len(ws) => ws[i].ending = "line"

\* Mutant: only the hash of each entry is checked, not its place.
VerifyHashesOnly(ws) == \A i \in DOMAIN ws : ws[i].hash = ComputeHash(ws[i].prev, ws[i].body)

\* verifyChain
VerifyChain(ws) ==
    \A i \in DOMAIN ws :
        /\ ws[i].prev = IF i = 1 THEN Genesis ELSE ws[i - 1].hash
        /\ ws[i].hash = ComputeHash(ws[i].prev, ws[i].body)

\* The verdict "Audit chain VALID": every line parses, and the chain verifies.
SaysValid(ws) == (\A i \in DOMAIN ws : Readable(ws, i)) /\ VerifyChain(ws)

Init ==
    /\ day = 1
    /\ files = [f \in Files |-> <<>>]
    /\ lastHash = [p \in Processes |-> [f \in Files |-> None]]
    /\ current = [p \in Processes |-> [dir \in Dirs |-> 0]]
    /\ pending = [p \in Processes |-> None]
    /\ tried = 0
    /\ writers = [f \in Files |-> {}]
    /\ hurt = {}
    /\ unread = {}
-----------------------------------------------------------------------------
\* loadLastHashFromFile: a file that cannot be read, or whose last line does not parse,
\* restarts the chain.
LoadLastHash(f, read) ==
    LET ws == files[f] IN
    IF read /\ ws # <<>> /\ Readable(ws, Len(ws)) THEN ws[Len(ws)].hash ELSE Genesis

\* Mutant: the hash is kept per directory, as the code did before.
CachedPerDir(p, f) ==
    LET before == current[p][f[1]] IN
    IF before = 0 THEN None ELSE lastHash[p][<<f[1], before>>]

Cached(p, f) == lastHash[p][f]

\* getLastHash: the cached hash of today's file, or what its last line says.
PreviousHash(p, f, read) ==
    IF Cached(p, f) # None THEN Cached(p, f) ELSE LoadLastHash(f, read)

\* The read of a file that is there may fail; without a cached hash there is one.
ReadFails(p, f) == Cached(p, f) = None /\ files[f] # <<>> /\ unread' = unread \cup {f}

\* Process p starts to append an entry: today's file, and the hash to chain it to.  The
\* hash of the file before it is forgotten.
Prepare(p, dir, read) ==
    LET f == FileOf(dir) IN
    /\ pending[p] = None /\ tried < MaxEntries
    /\ IF read THEN UNCHANGED unread ELSE ReadFails(p, f)
    /\ pending' = [pending EXCEPT ![p] =
           [file |-> f, prev |-> PreviousHash(p, f, read), body |-> tried + 1]]
    /\ lastHash' = [lastHash EXCEPT ![p] =
           [g \in Files |-> IF g = f THEN PreviousHash(p, f, read)
                            ELSE IF g = <<dir, current[p][dir]>> THEN None ELSE @[g]]]
    /\ current' = [current EXCEPT ![p][dir] = day]
    /\ tried' = tried + 1
    /\ UNCHANGED <<day, files, writers, hurt>>

Append1(p, ending) ==
    LET a == pending[p] IN
    /\ files' = [files EXCEPT ![a.file] = Append(@, Written(a.prev, a.body, ending))]
    /\ writers' = [writers EXCEPT ![a.file] = @ \cup {p}]

\* appendFileSync returns; only then does the cached hash move on.
Write(p) ==
    /\ pending[p] # None
    /\ Append1(p, "line")
    /\ lastHash' = [lastHash EXCEPT ![p][pending[p].file] =
           ComputeHash(pending[p].prev, pending[p].body)]
    /\ pending' = [pending EXCEPT ![p] = None]
    /\ UNCHANGED <<day, current, tried, hurt, unread>>

\* Mutant: the cached hash moves on whether or not the entry was written.
AdvanceAnyway(p) ==
    lastHash' = [lastHash EXCEPT ![p][pending[p].file] =
        ComputeHash(pending[p].prev, pending[p].body)]
KeepHash(p) == UNCHANGED lastHash

\* appendFileSync throws, having written nothing, a part of the line, or all but its end.
WriteFails(p) ==
    /\ pending[p] # None
    /\ \/ UNCHANGED <<files, writers, hurt>>
       \/ \E ending \in Endings \ {"line"} : Append1(p, ending) /\ hurt' = hurt \cup {pending[p].file}
    /\ KeepHash(p)
    /\ pending' = [pending EXCEPT ![p] = None]
    /\ UNCHANGED <<day, current, tried, unread>>
-----------------------------------------------------------------------------
\* Mutant: a file is dated by its end.
ExpiredTooSoon(f) == f[2] + Retention <= day + 1

\* pruneFilesInDir: the file of the day on which the retention ends goes too, once that
\* day's midnight is past.
Expired(f) == f[2] + Retention <= day

\* pruneOldAuditFiles deletes what it can; unlinkSync may fail for some files.
Prune(gone) ==
    /\ gone \subseteq {f \in Files : Expired(f) /\ files[f] # <<>>}
    /\ files' = [f \in Files |-> IF f \in gone THEN <<>> ELSE files[f]]

\* Mutant: the prune runs at start only.
PruneNever(gone) == FALSE /\ UNCHANGED files
PruneAgain(gone) == Prune(gone)

\* The interval timer of index.ts.
PeriodicPrune(p) ==
    /\ pending[p] = None
    /\ \E gone \in SUBSET Files : gone # {} /\ PruneAgain(gone)
    /\ UNCHANGED <<day, lastHash, current, pending, tried, writers, hurt, unread>>

\* A stop, perhaps in the middle of an append, and a start, which prunes.
Restart(p) ==
    /\ lastHash' = [lastHash EXCEPT ![p] = [f \in Files |-> None]]
    /\ current' = [current EXCEPT ![p] = [dir \in Dirs |-> 0]]
    /\ pending' = [pending EXCEPT ![p] = None]
    /\ \E gone \in SUBSET Files : Prune(gone)
    /\ UNCHANGED <<day, tried, writers, hurt, unread>>

\* Midnight.  An append takes less than a day.
Tick ==
    /\ day < LastDay
    /\ \A p \in Processes : pending[p] # None => pending[p].file[2] = day
    /\ day' = day + 1
    /\ UNCHANGED <<files, lastHash, current, pending, tried, writers, hurt, unread>>

\* Somebody alters, removes or swaps entries of a file.
Edit(f) ==
    /\ hurt = {} /\ files[f] # <<>>
    /\ LET ws == files[f]
           n == Len(ws) IN
       \/ \E i \in 1..n : files' = [files EXCEPT ![f][i].body = 0]
       \/ \E i \in 1..n : files' = [files EXCEPT ![f] =
              [j \in 1..(n - 1) |-> IF j < i THEN ws[j] ELSE ws[j + 1]]]
       \/ \E i \in 1..n, j \in 1..n : i < j /\ files' = [files EXCEPT ![f] =
              [@ EXCEPT ![i] = ws[j], ![j] = ws[i]]]
    /\ hurt' = hurt \cup {f}
    /\ UNCHANGED <<day, lastHash, current, pending, tried, writers, unread>>

Next ==
    \/ \E p \in Processes :
          \/ \E dir \in Dirs, read \in BOOLEAN : Prepare(p, dir, read)
          \/ Write(p) \/ WriteFails(p) \/ PeriodicPrune(p) \/ Restart(p)
    \/ \E f \in Files : Edit(f)
    \/ Tick

\* setInterval keeps firing while the process is up, and its unlinks do not fail for ever.
Fairness == \A p \in Processes : WF_vars(PeriodicPrune(p)) /\ WF_vars(Write(p))

Spec == Init /\ [][Next]_vars /\ Fairness
-----------------------------------------------------------------------------
\* Types; an append that is under way goes to the file of today, or of the day just over.
TypeOK ==
    /\ day \in 1..LastDay
    /\ \A f \in Files : \A i \in DOMAIN files[f] :
          files[f][i].body \in 0..MaxEntries /\ files[f][i].ending \in Endings
    /\ \A p \in Processes : \A dir \in Dirs : current[p][dir] \in 0..day
    /\ \A p \in Processes : pending[p] # None =>
          /\ pending[p].file[1] \in Dirs /\ pending[p].file[2] \in {day - 1, day}
          /\ pending[p].body \in 1..tried
    /\ tried \in 0..MaxEntries
    /\ writers \in [Files -> SUBSET Processes]
    /\ hurt \cup unread \subseteq Files

\* A file that only one process wrote to, that nobody edited, that no write was cut short
\* in and that could be read whenever its last hash was wanted, verifies: over midnight,
\* restarts, failed appends, prunes and other directories.
ChainValid ==
    \A f \in Files :
        f \notin hurt \cup unread /\ Cardinality(writers[f]) <= 1 => SaysValid(files[f])

\* "A valid result means the retained entries have not been modified or reordered"
\* (README): then every entry is one the server wrote, in the order it wrote them, chained
\* to the one before it.
ValidMeansGenuine ==
    \A f \in Files : SaysValid(files[f]) =>
        \A i, j \in DOMAIN files[f] :
            /\ files[f][i].body # 0
            /\ i < j => files[f][i].body < files[f][j].body

\* Within the retention period the server never takes back an entry: whatever a step of
\* the server does, the file of a recent day only grows.
RecentEntriesStay ==
    [][\A f \in Files : day - f[2] < Retention /\ hurt' = hurt =>
           \A i \in DOMAIN files[f] :
               i \in DOMAIN files'[f] /\ files'[f][i] = files[f][i]]_vars

\* PRIVACY.md: files older than the retention are deleted even while the process stays up.
OldFilesGo ==
    \A f \in Files : (day >= f[2] + Retention) ~> (files[f] = <<>>)
=============================================================================
