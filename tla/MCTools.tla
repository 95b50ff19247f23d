------------------------------- MODULE MCTools ------------------------------
(***************************************************************************)
(* The tools, the queries behind them and the migration of the database on *)
(* small sets.  They share no state, so one run has them side by side: a   *)
(* behaviour belongs to one part, whose variables alone change.            *)
(***************************************************************************)
EXTENDS MutationTools, ModelScan, VersionDiff, ClashReport, AecdmQueries, SchemaMigration

VARIABLE part   \* what this behaviour is about

Parts == {"mutation tools", "page scans", "version diff", "clash report", "aecdm queries", "migration"}

toolsVars == <<mutationVars, scanVars, diffVars, clashVars, aecdmVars, migrationVars, part>>

\* The versions of an element in a difference: one added, one removed, one moved and resized.
Row(type, change, cur, prev) == [type |-> type, changeType |-> change, cur |-> cur, prev |-> prev]
MCDiffRows == {Row("OBJECT_ADDED", NoValue, [c |-> "Walls"], <<>>),
               Row("OBJECT_REMOVED", NoValue, <<>>, [c |-> "Walls"]),
               Row("OBJECT_CHANGED", "Transform", [c |-> "Doors", w |-> "2"], [c |-> "Doors", w |-> "1"])}

\* Elements whose category the tree and the properties tell differently, or only one of them.
Item(tree, prop, named, listed, level, area) ==
    [tree |-> tree, prop |-> prop, named |-> named, listed |-> listed, level |-> level, area |-> area]
MCModelRows == {Item("W", "D", FALSE, TRUE, "L1", 2), Item("D", "W", FALSE, FALSE, "L1", 1),
                Item(NoCategory, "W", FALSE, TRUE, "L2", 3), Item("D", NoCategory, TRUE, TRUE, "L2", 0)}

\* Clashes of two depths and two statuses in either order; a clash with two instances, and one with none.
Clash(id, dist, status) == [id |-> id, dist |-> dist, status |-> status]
Instance(cid, a, b) == [cid |-> cid, left |-> a, right |-> b]
MCClashTables == {<<>>, <<Clash(1, -1, 1), Clash(2, -3, 2), Clash(3, 2, 1)>>,
                  <<Clash(2, 1, 1), Clash(1, -2, 1)>>}
MCInstanceTables == {<<>>, <<Instance(1, "x", "y"), Instance(2, "y", "x"), Instance(1, "y", "y"),
                             Instance(3, "z", "x")>>, <<Instance(2, "x", "x")>>}
MCDocumentTables == {{"x", "y"}, {"x"}}

Init ==
    /\ part \in Parts
    /\ setting \in IF part = "mutation tools" THEN Settings
                   ELSE {[tool |-> "reviews_create", projects |-> {"*"}, hosts |-> {"*"}]}
    /\ MutationStart /\ ScanInit /\ VersionDiffInit /\ ClashInit /\ AecdmInit /\ MigrationInit

MutationPart ==
    /\ part = "mutation tools" /\ MutationNext
    /\ UNCHANGED <<scanVars, diffVars, clashVars, aecdmVars, migrationVars, part>>

ScanPart ==
    /\ part = "page scans" /\ ScanNext
    /\ UNCHANGED <<mutationVars, diffVars, clashVars, aecdmVars, migrationVars, part>>

DiffOnly == part = "version diff"
              /\ UNCHANGED <<mutationVars, scanVars, clashVars, aecdmVars, migrationVars, part>>
DiffPart == DiffOnly /\ VersionDiffNext

ClashPart ==
    /\ part = "clash report" /\ ClashNext
    /\ UNCHANGED <<mutationVars, scanVars, diffVars, aecdmVars, migrationVars, part>>

AecdmPart ==
    /\ part = "aecdm queries" /\ AecdmNext
    /\ UNCHANGED <<mutationVars, scanVars, diffVars, clashVars, migrationVars, part>>

MigrationPart ==
    /\ part = "migration" /\ MigrationNext
    /\ UNCHANGED <<mutationVars, scanVars, diffVars, clashVars, aecdmVars, part>>

Next == MutationPart \/ ScanPart \/ DiffPart \/ ClashPart \/ AecdmPart \/ MigrationPart

\* A running call goes on: the event loop runs its timers, and every request is answered or times out.
Spec == Init /\ [][Next]_toolsVars /\ WF_toolsVars(DiffOnly /\ DiffCallSteps)

\* Each part's variables have their types.
TypeOK ==
    /\ part \in Parts
    /\ MutationTypeOK /\ ScanTypeOK /\ VersionDiffTypeOK /\ ClashTypeOK /\ AecdmTypeOK /\ MigrationTypeOK
=============================================================================
