----------------------------- MODULE VersionDiff ----------------------------
(***************************************************************************)
(* mp_diff_versions (src/tools/mp/diff-versions.ts): ask Autodesk for the  *)
(* difference of two versions of a model, poll until it is computed or the *)
(* caller's patience is over, download the two files of the result         *)
(* (NdjsonRead) and roll them up by category.                              *)
(*                                                                         *)
(* Abstracted: time is counted in polls of four seconds; a row of the      *)
(* result is an element of DiffRows; the fields file holds the keys that   *)
(* turn a property into a name.                                            *)
(***************************************************************************)
EXTENDS NdjsonRead, FiniteSets

CONSTANTS
    DiffRows,       \* rows a difference may hold
    FieldKeys,      \* keys of the fields file
    CategoryKey,    \* the key whose field is __category__
    InternalKeys,   \* keys in INTERNAL_CATEGORY_SKIP
    MaxRows,        \* rows of one difference (bound)
    MaxWait,        \* wait_seconds, in polls (bound)
    NoValue         \* no category, no filter

ASSUME VersionDiffAssumption == {MaxRows, MaxWait} \subseteq Nat /\ IsFiniteSet(FieldKeys)

VARIABLES
    job,        \* the computation at Autodesk
    diff,       \* the two files of its result, once they are asked for
    diffCall,   \* where the call is
    known,      \* status.state
    elapsed,    \* polls since the deadline was set
    asked,      \* the input: patience, max_elements, category filter
    fields,     \* the fields map
    report      \* the answer

diffVars == <<ndjsonVars, job, diff, diffCall, known, elapsed, asked, fields, report>>

Jobs == {"PROCESSING", "FINISHED", "FAILED"}
Ended == {"reported", "failed", "processing", "no_urls", "threw"}

VersionDiffTypeOK ==
    /\ NdjsonTypeOK
    /\ job \in Jobs /\ known \in Jobs
    /\ diffCall \in {"idle", "asking", "sleeping", "fields", "properties"} \cup Ended
    /\ elapsed \in 0 .. MaxWait + 1
    /\ fields \subseteq FieldKeys

VersionDiffInit ==
    /\ NdjsonInit
    /\ job = "PROCESSING" /\ known = "PROCESSING"
    /\ diff = <<>> /\ asked = <<>> /\ report = <<>>
    /\ diffCall = "idle"
    /\ elapsed = 0
    /\ fields = {}

-----------------------------------------------------------------------------
\* What a row becomes: its kind, the properties that name it, and what changed in it.
Kind(row) ==
    CASE row.type = "OBJECT_ADDED" -> "ADDED"
      [] row.type = "OBJECT_REMOVED" -> "REMOVED"
      [] OTHER -> "CHANGED"

Props(row) == IF DOMAIN row.cur # {} THEN row.cur ELSE row.prev

Category(row, known_) ==
    IF CategoryKey \in known_ \cap DOMAIN Props(row) THEN Props(row)[CategoryKey] ELSE NoValue

\* A parameter counts as changed when both versions have it, with different values, and it is
\* not part of the model's plumbing; a key the fields file lacks is kept.
ComputeChanges(row, known_) ==
    {k \in DOMAIN row.cur \cap DOMAIN row.prev :
        row.cur[k] # row.prev[k] /\ ~(k \in known_ /\ k \in InternalKeys)}

Element(row, known_) ==
    [kind |-> Kind(row), category |-> Category(row, known_), changeType |-> row.changeType,
     changes |-> IF Kind(row) = "CHANGED" THEN ComputeChanges(row, known_) ELSE {}]

\* rollupDiff without the element's category: whatever has none is lost.
RollupNamed(elements) ==
    [c \in {elements[i].category : i \in DOMAIN elements} \ {NoValue} |->
        [k \in {"ADDED", "REMOVED", "CHANGED"} |->
            Cardinality({i \in DOMAIN elements : elements[i].category = c /\ elements[i].kind = k})]]

\* rollupDiff: how many elements of each category were added, removed and changed.
RollupDiff(elements) ==
    [c \in {elements[i].category : i \in DOMAIN elements} |->
        [k \in {"ADDED", "REMOVED", "CHANGED"} |->
            Cardinality({i \in DOMAIN elements : elements[i].category = c /\ elements[i].kind = k})]]

DownloadDiffFields == {rows[i].key : i \in DOMAIN rows}

\* The elements in the order of the file, those of the category asked for if one was.
DownloadDiffProperties ==
    LET all == [i \in DOMAIN rows |-> Element(rows[i], fields)]
        kept == {i \in DOMAIN all : asked.filter # NoValue => all[i].category = asked.filter}
        order == InOrder(kept, Ascending(kept))
    IN [k \in DOMAIN order |-> all[order[k]]]

-----------------------------------------------------------------------------
\* A call creates the difference, or asks for one that an earlier call created.
StartDiff ==
    /\ diffCall = "idle"
    /\ diffCall' = "asking"
    /\ \E w \in 0 .. MaxWait, cap \in 1 .. MaxRows, f \in {NoValue} \cup {"Walls"} :
           asked' = [wait |-> w, cap |-> cap, filter |-> f]
    /\ UNCHANGED <<ndjsonVars, job, diff, known, elapsed, fields, report>>

\* Autodesk's computation ends, or never does.
JobMoves ==
    /\ diffCall \in {"asking", "sleeping"} /\ job = "PROCESSING"
    /\ job' \in {"FINISHED", "FAILED"}
    /\ UNCHANGED <<ndjsonVars, diff, diffCall, known, elapsed, asked, fields, report>>

\* A loop that asks once more after the last sleep before it looks at the clock.
PollsOnLate(state, t) == state = "PROCESSING" /\ t <= asked.wait

PollsOn(state, t) == state = "PROCESSING" /\ t < asked.wait

\* The status arrives; the loop and what follows it run up to the next await.
Answered ==
    /\ diffCall = "asking"
    /\ known' = job
    /\ IF PollsOn(job, elapsed) THEN diffCall' = "sleeping"
       ELSE CASE job = "FAILED" -> diffCall' = "failed"
              [] job = "PROCESSING" -> diffCall' = "processing"
              [] OTHER -> diffCall' \in {"no_urls", "fields"}
    /\ UNCHANGED <<ndjsonVars, job, diff, elapsed, asked, fields, report>>

\* A deadline set anew for every poll.
SleepRestarts ==
    /\ diffCall = "sleeping"
    /\ diffCall' = "asking"
    /\ UNCHANGED <<ndjsonVars, job, diff, known, elapsed, asked, fields, report>>

Sleep ==
    /\ diffCall = "sleeping"
    /\ diffCall' = "asking"
    /\ elapsed' = elapsed + 1
    /\ UNCHANGED <<ndjsonVars, job, diff, known, asked, fields, report>>

\* The client gives up on the request, or the download does: the wrapper answers an error.
Threw ==
    /\ diffCall = "asking" \/ (diffCall \in {"fields", "properties"} /\ reader = "failed")
    /\ diffCall' = "threw"
    /\ UNCHANGED <<ndjsonVars, job, diff, known, elapsed, asked, fields, report>>

FetchFields ==
    /\ diffCall = "fields"
    /\ reader = "none"
    /\ \/ \E ks \in SUBSET FieldKeys :
              /\ diff' = [keys |-> ks]
              /\ FetchNdjson(SetToSeq({[key |-> k] : k \in ks}), NoCap)
       \/ FetchFails /\ UNCHANGED diff
    /\ UNCHANGED <<job, diffCall, known, elapsed, asked, fields, report>>

FetchProperties ==
    /\ diffCall = "fields"
    /\ reader = "released"
    /\ diffCall' = "properties"
    /\ fields' = DownloadDiffFields
    /\ \/ \E n \in 0 .. MaxRows : \E rs \in [1 .. n -> DiffRows] :
              /\ diff' = [keys |-> diff.keys, rows |-> rs]
              /\ FetchNdjson(rs, asked.cap)
       \/ FetchFails /\ UNCHANGED diff
    /\ UNCHANGED <<job, known, elapsed, asked, report>>

Report ==
    /\ diffCall = "properties"
    /\ reader \in {"released", "cancelled"}
    /\ diffCall' = "reported"
    /\ report' = RollupDiff(DownloadDiffProperties)
    /\ UNCHANGED <<ndjsonVars, job, diff, known, elapsed, asked, fields>>

Read ==
    /\ ReadChunk \/ StreamEnds \/ StreamBreaks
    /\ UNCHANGED <<job, diff, diffCall, known, elapsed, asked, fields, report>>

DiffCallSteps == Answered \/ Sleep \/ Threw \/ FetchFields \/ FetchProperties \/ Report \/ Read

VersionDiffNext == StartDiff \/ JobMoves \/ DiffCallSteps

\* Without the fairness of DiffEnds.
VersionDiffSpec == VersionDiffInit /\ [][VersionDiffNext]_diffVars

-----------------------------------------------------------------------------
(***************************************************************************)
(* Properties                                                              *)
(***************************************************************************)

\* What the call says is so: a failure is Autodesk's; "still processing" means that it was not
\* done when last asked and that the patience is used up, not more than one poll before; a
\* report counts each row of the difference within max_elements, in the filter's category, once.
DiffHonest ==
    /\ diffCall = "failed" => job = "FAILED"
    /\ diffCall = "processing" => known = "PROCESSING" /\ elapsed = asked.wait
    /\ diffCall = "reported" =>
           LET n == IF Len(diff.rows) < asked.cap THEN Len(diff.rows) ELSE asked.cap
               Of(c) == {i \in 1 .. n : Category(diff.rows[i], diff.keys) = c}
               cats == {Category(diff.rows[i], diff.keys) : i \in 1 .. n}
               wanted == IF asked.filter = NoValue THEN cats ELSE cats \cap {asked.filter}
           IN /\ job = "FINISHED"
              /\ DOMAIN report = wanted
              /\ \A c \in wanted :
                     report[c].ADDED + report[c].REMOVED + report[c].CHANGED = Cardinality(Of(c))

\* A call ends even when Autodesk never finishes the difference.
DiffEnds == (diffCall = "asking") ~> (diffCall \in Ended)
=============================================================================
