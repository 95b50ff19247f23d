---------------------------- MODULE AecdmQueries ----------------------------
(***************************************************************************)
(* The queries of src/apis/aecdm.ts that fan out over a pool of workers:   *)
(* queryElementPositions asks for the geometry of the elements in batches, *)
(* listAecdmCategories probes one well-known category after the other.     *)
(* The elements themselves come page by page (ModelScan).                  *)
(*                                                                         *)
(* Abstracted: an element is its place in the list; its transform is the   *)
(* place it puts the element at, or something that does not decode.        *)
(***************************************************************************)
EXTENDS WorkerPool, Sequences, SequencesExt, Ordering

CONSTANTS
    BatchSize,      \* elements per geometry request
    MaxElements,    \* elements of the category (bound)
    ProbeLimit      \* the most a probe counts

\* Where a transform puts an element; "unsupported" is of a length that does not decode.
Transforms == {"inside", "outside", "unsupported"}

\* A task of the pool gives nothing (0) or the count of a probe; the bound on tasks is large
\* enough for the bound on elements.
ASSUME AecdmAssumption ==
    /\ BatchSize \in Nat \ {0} /\ {MaxElements, ProbeLimit} \subseteq Nat
    /\ MaxElements <= MaxTasks * BatchSize
    /\ 0 .. ProbeLimit \subseteq Answers
    /\ None \notin Transforms

VARIABLES
    query,      \* what the call is doing
    geometry,   \* what Autodesk holds of each element
    counts,     \* how many elements it holds of each category
    boxed,      \* a referenceBox was given
    transforms, \* transformByElementId, None where no row came
    probed,     \* history: the categories whose probe was answered
    listing     \* the answer of the call

aecdmVars == <<poolVars, query, geometry, counts, boxed, transforms, probed, listing>>

Elements == 1 .. MaxElements

AecdmTypeOK ==
    /\ PoolTypeOK
    /\ query \in {"idle", "positions", "categories", "done", "failed"}
    /\ boxed \in BOOLEAN
    /\ probed \subseteq Slots

AecdmInit ==
    /\ PoolInit
    /\ query = "idle"
    /\ geometry = <<>> /\ counts = <<>>
    /\ boxed = FALSE
    /\ transforms = <<>>
    /\ probed = {}
    /\ listing = <<>>

\* The elements of one batch request.
Batch(i) == {e \in DOMAIN geometry : (i - 1) * BatchSize < e /\ e <= i * BatchSize}
Batches(n) == (n + BatchSize - 1) \div BatchSize

\* The elements are known; an empty category needs no geometry.
QueryElementPositions ==
    \E n \in Elements \cup {0} : \E g \in [1 .. n -> Transforms \cup {None}], b \in BOOLEAN :
        /\ query = "idle"
        /\ query' = "positions"
        /\ geometry' = g
        /\ boxed' = b
        /\ transforms' = [e \in 1 .. n |-> None]
        /\ StartPool(Batches(n))
        /\ UNCHANGED <<counts, probed, listing>>

\* A response holds a row only for some of the elements asked for.
BatchAnswers(w) ==
    /\ query \in {"positions", "failed"}
    /\ Answer(w, 0)
    /\ transforms' = [e \in DOMAIN transforms |->
                          IF e \in Batch(holding[w]) /\ geometry[e] # None THEN geometry[e]
                          ELSE transforms[e]]
    /\ UNCHANGED <<query, geometry, counts, boxed, probed, listing>>

BatchFails(w) ==
    /\ query \in {"positions", "failed"}
    /\ Fail(w)
    /\ query' = "failed"
    /\ UNCHANGED <<geometry, counts, boxed, transforms, probed, listing>>

Decoded(e) == IF transforms[e] \in {"inside", "outside"} THEN transforms[e] ELSE None

\* Positions in the order of the elements; with a box, those that lie in it.
AnswerPositions ==
    /\ query = "positions" /\ pool = "resolved"
    /\ query' = "done"
    /\ LET kept == {e \in DOMAIN geometry : boxed => Decoded(e) = "inside"}
           order == InOrder(kept, {p \in kept \X kept : p[1] < p[2]})
       IN listing' = [k \in DOMAIN order |-> [id |-> order[k], position |-> Decoded(order[k])]]
    /\ UNCHANGED <<poolVars, geometry, counts, boxed, transforms, probed>>

ListAecdmCategories ==
    \E c \in [Slots -> 0 .. ProbeLimit + 1] :
        /\ query = "idle"
        /\ query' = "categories"
        /\ counts' = c
        /\ StartPool(MaxTasks)
        /\ UNCHANGED <<geometry, boxed, transforms, probed, listing>>

\* A probe counts the ids of one page.
ProbeCategoryCount(w) ==
    /\ query = "categories"
    /\ LET n == counts[holding[w]] IN Answer(w, IF n < ProbeLimit THEN n ELSE ProbeLimit)
    /\ probed' = probed \cup {holding[w]}
    /\ UNCHANGED <<query, geometry, counts, boxed, transforms, listing>>

\* A probe that fails counts nothing: the category goes missing from the list.
ProbeFails(w) ==
    /\ query = "categories"
    /\ Answer(w, 0)
    /\ UNCHANGED <<query, geometry, counts, boxed, transforms, probed, listing>>

\* The categories with elements, the largest first; the sort is stable.
AnswerCategories ==
    /\ query = "categories" /\ pool = "resolved"
    /\ query' = "done"
    /\ LET kept == {i \in Slots : results[i] > 0}
           Larger(i, j) == results[i] > results[j] \/ (results[i] = results[j] /\ i < j)
       IN listing' = InOrder(kept, {p \in kept \X kept : Larger(p[1], p[2])})
    /\ UNCHANGED <<poolVars, geometry, counts, boxed, transforms, probed>>

AecdmNext ==
    \/ QueryElementPositions \/ AnswerPositions
    \/ ListAecdmCategories \/ AnswerCategories
    \/ \E w \in WorkerIds : \/ BatchAnswers(w) \/ BatchFails(w)
                            \/ ProbeCategoryCount(w) \/ ProbeFails(w)

AecdmSpec == AecdmInit /\ [][AecdmNext]_aecdmVars

-----------------------------------------------------------------------------
(***************************************************************************)
(* Properties                                                              *)
(***************************************************************************)

\* In whatever order the responses come: each element gets the position its own transform
\* decodes to, or none, and a box leaves exactly those inside; each category that holds
\* elements and whose probe was answered is listed, once, with no smaller one before it.
AecdmExact ==
    /\ PoolWhole
    /\ query = "done" /\ transforms # <<>> =>
           LET Place(e) == IF geometry[e] \in {"inside", "outside"} THEN geometry[e] ELSE None
               wanted == {e \in DOMAIN geometry : boxed => geometry[e] = "inside"}
           IN /\ {r.id : r \in ToSet(listing)} = wanted
              /\ \A k \in DOMAIN listing : listing[k].position = Place(listing[k].id)
              /\ \A k \in 2 .. Len(listing) : listing[k - 1].id < listing[k].id
    /\ query = "done" /\ probed # {} =>
           /\ ToSet(listing) = {i \in probed : counts[i] > 0 /\ ProbeLimit > 0}
           /\ IsInjective(listing)
           /\ \A k \in 2 .. Len(listing) :
                  counts[listing[k - 1]] >= counts[listing[k]]
                    \/ counts[listing[k - 1]] >= ProbeLimit
=============================================================================
