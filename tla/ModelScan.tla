------------------------------ MODULE ModelScan -----------------------------
(***************************************************************************)
(* The reads that go through a model page by page: getMdProperties and     *)
(* aggregateMdProperties (src/apis/model-derivative.ts) over the flat list *)
(* of a view's properties, fetchWithFilter (src/apis/aecdm.ts) over the    *)
(* elements of a category.                                                 *)
(*                                                                         *)
(* Abstracted: an element is a record with the category of its node in the *)
(* object tree, the category its properties tell, whether its name holds   *)
(* the category asked for, whether its objectId is asked for, its level    *)
(* and its area; where an answer is cut into pages is Autodesk's choice, a *)
(* page with a cursor holds a row, and the last page may have a cursor     *)
(* although nothing follows.                                               *)
(***************************************************************************)
EXTENDS Integers, FiniteSets, Sequences, SequencesExt, Ordering

CONSTANTS
    ModelRows,      \* elements a model may hold
    MaxModel,       \* elements of one model (bound)
    MaxFound,       \* maxResults, maxElements
    MaxScan,        \* maxScan
    MaxPage,        \* the most a page of elements may hold
    Sought,         \* the category asked for
    NoCategory

ASSUME ScanAssumption == {MaxFound, MaxScan} \subseteq Nat /\ Sought # NoCategory

VARIABLES
    scanTool,   \* which of the reads
    narrowed,   \* how the caller narrowed it down: categoryFilter, objectIds
    scanPc,     \* where it is
    model,      \* the rows of the model
    left,       \* the rows not yet sent
    found,      \* the rows of the answer
    scanned,    \* how many rows were looked at
    groups,     \* the rollup, by level
    truncated

scanVars == <<scanTool, narrowed, scanPc, model, left, found, scanned, groups, truncated>>

ScanTools == {"properties", "aggregate", "elements"}

\* The filters that each read takes; the elements are always those of a category.
MayNarrow == [properties |-> SUBSET {"category", "ids"}, aggregate |-> SUBSET {"category"},
              elements |-> {{"category"}}]

ScanTypeOK ==
    /\ scanTool \in ScanTools \cup {"none"}
    /\ narrowed \in SUBSET {"category", "ids"}
    /\ scanPc \in {"idle", "views", "tree", "pages", "done", "threw"}
    /\ scanned \in 0 .. MaxScan
    /\ Len(found) <= MaxFound
    /\ truncated \in BOOLEAN

ScanInit ==
    /\ scanTool = "none" /\ narrowed = {} /\ scanPc = "idle"
    /\ model = <<>> /\ left = <<>> /\ found = <<>> /\ groups = <<>>
    /\ scanned = 0
    /\ truncated = FALSE

-----------------------------------------------------------------------------
\* A category that trusts the properties before the tree.
CategoryByProperties(r) == IF r.prop # NoCategory THEN r.prop ELSE r.tree

\* The tree's category if the element is in the tree, else the one its properties tell.
CategoryOf(r) == IF r.tree # NoCategory THEN r.tree ELSE r.prop

\* Without a filter every row matches.
Matching(filters) ==
    {r \in ModelRows : /\ "ids" \in filters => r.listed
                       /\ "category" \in filters => CategoryOf(r) = Sought \/ r.named}

OfCategory == {r \in ModelRows : r.prop = Sought}

\* The rows of s that are in good, in their order.
Chosen(s, good) ==
    LET places == {i \in DOMAIN s : s[i] \in good}
        order == InOrder(places, Ascending(places))
    IN [k \in DOMAIN order |-> s[order[k]]]

Least(a, b) == IF a <= b THEN a ELSE b
FirstOf(s, n) == SubSeq(s, 1, Least(Len(s), n))

\* The level and the area of one element go into its group; an area without a number adds nothing.
InGroup(g, r) ==
    LET old == IF r.level \in DOMAIN g THEN g[r.level] ELSE [count |-> 0, area |-> 0]
    IN [l \in DOMAIN g \cup {r.level} |->
           IF l = r.level THEN [count |-> old.count + 1, area |-> old.area + r.area] ELSE g[l]]

\* The rows of a page go into the groups one by one.
Grouped(rs) ==
    LET after[k \in 0 .. Len(rs)] == IF k = 0 THEN groups ELSE InGroup(after[k - 1], rs[k])
    IN after[Len(rs)]

-----------------------------------------------------------------------------
\* The object tree is read for its categories only.
WithView(filters) == IF "category" \in filters THEN "tree" ELSE "pages"

\* Without a view the first 3D view is looked up; the elements need none.
StartScan ==
    /\ scanPc = "idle"
    /\ scanTool' \in ScanTools /\ narrowed' \in MayNarrow[scanTool']
    /\ \E n \in 0 .. MaxModel : model' \in [1 .. n -> ModelRows]
    /\ left' = IF scanTool' = "elements" THEN Chosen(model', OfCategory) ELSE model'
    /\ scanPc' \in IF scanTool' = "elements" THEN {"pages"} ELSE {"views", WithView(narrowed')}
    /\ UNCHANGED <<found, scanned, groups, truncated>>

\* No view: the model is not translated.
GetMdViews ==
    /\ scanPc = "views"
    /\ scanPc' \in {WithView(narrowed), "threw"}
    /\ UNCHANGED <<scanTool, narrowed, model, left, found, scanned, groups, truncated>>

GetMdCategoryMap ==
    /\ scanPc = "tree"
    /\ scanPc' = "pages"
    /\ UNCHANGED <<scanTool, narrowed, model, left, found, scanned, groups, truncated>>

ScanThrew ==
    /\ scanPc \in {"views", "tree", "pages"}
    /\ scanPc' = "threw"
    /\ UNCHANGED <<scanTool, narrowed, model, left, found, scanned, groups, truncated>>

\* The server sends the first n of the rows that are left, with a cursor or without.
IsPage(n, cursor) ==
    /\ n <= Len(left)
    /\ n = 0 => left = <<>> /\ ~cursor
    /\ n < Len(left) => cursor

Turn(more) == scanPc' = IF more THEN "pages" ELSE "done"

\* A loop that forgets how many it has from the pages before.
ElementsOfPage(rows) == FirstOf(Chosen(rows, Matching(narrowed)), MaxFound)

\* Matching rows of a page, up to the cap.
MatchesOfPage(rows) == FirstOf(Chosen(rows, Matching(narrowed)), MaxFound - Len(found))

GetMdProperties(n, cursor) ==
    /\ scanPc = "pages" /\ scanTool = "properties"
    /\ IsPage(n, cursor)
    /\ left' = SubSeq(left, n + 1, Len(left))
    /\ found' = found \o MatchesOfPage(SubSeq(left, 1, n))
    /\ Turn(Len(found') < MaxFound /\ cursor)
    /\ UNCHANGED <<scanTool, narrowed, model, scanned, groups, truncated>>

\* Rows of a page up to the cap on rows looked at; a row beyond the cap shows in truncated.
AggregateMdProperties(n, cursor) ==
    /\ scanPc = "pages" /\ scanTool = "aggregate"
    /\ IsPage(n, cursor)
    /\ left' = SubSeq(left, n + 1, Len(left))
    /\ LET looked == FirstOf(SubSeq(left, 1, n), MaxScan - scanned)
       IN /\ scanned' = scanned + Len(looked)
          /\ groups' = Grouped(Chosen(looked, Matching(narrowed)))
          /\ truncated' = (truncated \/ Len(looked) < n)
    /\ Turn(scanned' < MaxScan /\ cursor)
    /\ UNCHANGED <<scanTool, narrowed, model, found>>

\* The page is no larger than what is wanted, nor than the API allows.
FetchWithFilter(n, cursor) ==
    /\ scanPc = "pages" /\ scanTool = "elements"
    /\ IsPage(n, cursor) /\ n <= Least(MaxFound, MaxPage)
    /\ left' = SubSeq(left, n + 1, Len(left))
    /\ found' = found \o FirstOf(SubSeq(left, 1, n), MaxFound - Len(found))
    /\ Turn(Len(found') < MaxFound /\ cursor)
    /\ UNCHANGED <<scanTool, narrowed, model, scanned, groups, truncated>>

ScanNext ==
    \/ StartScan \/ GetMdViews \/ GetMdCategoryMap \/ ScanThrew
    \/ \E n \in 0 .. MaxModel, cursor \in BOOLEAN :
           GetMdProperties(n, cursor) \/ AggregateMdProperties(n, cursor) \/ FetchWithFilter(n, cursor)

ScanSpec == ScanInit /\ [][ScanNext]_scanVars

-----------------------------------------------------------------------------
(***************************************************************************)
(* Properties                                                              *)
(***************************************************************************)

\* The area of the rows of a level among the first k rows, for each k.
AreaUpTo(rs, l) ==
    LET sum[k \in 0 .. Len(rs)] ==
            IF k = 0 THEN 0
            ELSE IF rs[k].level = l THEN sum[k - 1] + rs[k].area ELSE sum[k - 1]
    IN sum

\* The elements that the answer is about.
Wanted ==
    {r \in ModelRows :
        IF scanTool = "elements" THEN r.prop = Sought
        ELSE /\ \/ "category" \notin narrowed
                \/ r.tree = Sought \/ (r.tree = NoCategory /\ r.prop = Sought) \/ r.named
             /\ r.listed \/ "ids" \notin narrowed}

\* However the answer is cut into pages, it is the same: the first MaxFound rows that match, in
\* the model's order; the count and the area of each level over the first MaxScan rows; and a
\* rollup that says it was cut short was.
ScanExact ==
    scanPc = "done" =>
        LET seen == Chosen(FirstOf(model, MaxScan), Wanted)
        IN /\ scanTool \in {"properties", "elements"} =>
                  found = FirstOf(Chosen(model, Wanted), MaxFound)
           /\ scanTool = "aggregate" =>
                  /\ DOMAIN groups = {seen[i].level : i \in DOMAIN seen}
                  /\ \A l \in DOMAIN groups :
                         /\ groups[l].count = Cardinality({i \in DOMAIN seen : seen[i].level = l})
                         /\ groups[l].area = AreaUpTo(seen, l)[Len(seen)]
                  /\ scanned = Least(Len(model), MaxScan)
                  /\ truncated => scanned < Len(model)

\* A rollup that leaves rows out says so (the comment on truncated: "True if the scan hit the
\* maxScan safety cap (results may be partial)").
PartialIsTold ==
    scanPc = "done" /\ scanTool = "aggregate" /\ scanned < Len(model) => truncated
=============================================================================
