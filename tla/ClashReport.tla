----------------------------- MODULE ClashReport ----------------------------
(***************************************************************************)
(* getClashResults and resolveClashes (src/apis/model-coordination.ts),    *)
(* which mc_list_clashes answers from: the newest version of a set of      *)
(* models, its clash test, the three files of the test one after the       *)
(* other, and the join of the three.                                       *)
(*                                                                         *)
(* Abstracted: a clash is its id with a distance and a status; an instance *)
(* names the clash and the document of either side; decompressing and      *)
(* parsing a file either works or throws.                                  *)
(***************************************************************************)
EXTENDS Integers, FiniteSets, Sequences, SequencesExt, Ordering

CONSTANTS
    MaxVersion,     \* newest version there may be (bound)
    ClashTables,    \* contents the file of clashes may have
    InstanceTables, \* contents the file of instances may have
    Documents,      \* the ids of documents
    DocumentTables, \* contents the file of documents may have
    MaxResults,     \* max_results
    Nothing         \* no test, no filter, no document

\* A clash has its id, a distance and a status; an instance is something.
ASSUME ClashAssumption ==
    /\ {MaxVersion, MaxResults} \subseteq Nat \ {0}
    /\ ClashTables \subseteq Seq([id : Nat, dist : Int, status : Nat])
    /\ \A t \in InstanceTables : t \in Seq(ToSet(t) \ {Nothing})

VARIABLES
    latest,     \* the newest version of the set of models at Autodesk
    tests,      \* the clash tests of the version asked for
    filter,     \* min_penetration of the call
    onlyStatus, \* status of the call
    clashPc,    \* where the call is
    version,    \* the version the call looks at
    test,       \* the test it chose
    pending,    \* the resources it has still to download
    truth,      \* history: what the files hold
    tables,     \* what it has of the files
    got,        \* history: the files that were received
    clashes     \* its answer

clashVars == <<latest, tests, filter, onlyStatus, clashPc, version, test, pending, truth, tables, got,
               clashes>>

\* The types of the resources, as the code tells them apart.
Resources == {"clash", "clash-instance", "document"}
NoTables == [clash |-> <<>>, instance |-> <<>>, document |-> {}]

ClashTypeOK ==
    /\ latest \in 1 .. MaxVersion /\ version \in 0 .. MaxVersion
    /\ clashPc \in {"idle", "version", "tests", "resources", "download", "done", "no_test", "threw"}
    /\ got \subseteq Resources

ClashInit ==
    /\ latest = 1 /\ version = 0
    /\ tests = <<>> /\ test = Nothing /\ filter = Nothing /\ onlyStatus = Nothing
    /\ clashPc = "idle"
    /\ pending = <<>>
    /\ truth = NoTables /\ tables = NoTables
    /\ got = {}
    /\ clashes = <<>>

-----------------------------------------------------------------------------
Distance(d) == IF d < 0 THEN -d ELSE d

\* A join that takes the last instance of a clash.
LastInstance(instances, id) ==
    LET of == {i \in DOMAIN instances : instances[i].cid = id}
    IN IF of = {} THEN Nothing ELSE instances[CHOOSE i \in of : \A j \in of : i >= j]

\* The first instance of a clash in the file, if there is one.
InstanceOf(instances, id) ==
    LET of == {i \in DOMAIN instances : instances[i].cid = id}
    IN IF of = {} THEN Nothing ELSE instances[CHOOSE i \in of : \A j \in of : i <= j]

Document(docs, d) == IF d \in docs THEN d ELSE Nothing

\* The clashes that pass the filters and have an instance, the deepest first, at most MaxResults.
ResolveClashes(t) ==
    LET kept == {i \in DOMAIN t.clash :
                    /\ onlyStatus # Nothing => t.clash[i].status = onlyStatus
                    /\ filter # Nothing => Distance(t.clash[i].dist) >= filter
                    /\ InstanceOf(t.instance, t.clash[i].id) # Nothing}
        Deeper(i, j) == t.clash[i].dist < t.clash[j].dist \/ (t.clash[i].dist = t.clash[j].dist /\ i < j)
        order == InOrder(kept, {p \in kept \X kept : Deeper(p[1], p[2])})
        Side(i) == LET inst == InstanceOf(t.instance, t.clash[i].id)
                   IN [id |-> t.clash[i].id, dist |-> t.clash[i].dist, status |-> t.clash[i].status,
                       left |-> Document(t.document, inst.left),
                       right |-> Document(t.document, inst.right)]
        all == [k \in DOMAIN order |-> Side(order[k])]
    IN SubSeq(all, 1, IF Len(all) < MaxResults THEN Len(all) ELSE MaxResults)

-----------------------------------------------------------------------------
\* ACC computes the clashes of a new version meanwhile.
NewVersion ==
    /\ clashPc \in {"version", "tests", "resources", "download"}
    /\ latest < MaxVersion
    /\ latest' = latest + 1
    /\ UNCHANGED <<tests, filter, onlyStatus, clashPc, version, test, pending, truth, tables, got, clashes>>

\* A version may be given; else the newest is looked up.
ListClashes ==
    /\ clashPc = "idle"
    /\ filter' \in {Nothing, 2} /\ onlyStatus' \in {Nothing, 1}
    /\ \/ clashPc' = "version" /\ version' = 0
       \/ clashPc' = "tests" /\ version' \in 1 .. latest
    /\ UNCHANGED <<latest, tests, test, pending, truth, tables, got, clashes>>

GetLatestModelSetVersion ==
    /\ clashPc = "version"
    /\ version' = latest
    /\ clashPc' = "tests"
    /\ UNCHANGED <<latest, tests, filter, onlyStatus, test, pending, truth, tables, got, clashes>>

\* The first test that succeeded, else whatever test comes first.
ListClashTests ==
    /\ clashPc = "tests"
    /\ \E n \in 0 .. 2 : tests' \in [1 .. n -> {"Success", "Running"}]
    /\ LET good == {i \in DOMAIN tests' : tests'[i] = "Success"}
       IN test' = IF good # {} THEN CHOOSE i \in good : \A j \in good : i <= j
                  ELSE IF tests' # <<>> THEN 1 ELSE Nothing
    /\ clashPc' = IF tests' = <<>> THEN "no_test" ELSE "resources"
    /\ UNCHANGED <<latest, filter, onlyStatus, version, pending, truth, tables, got, clashes>>

\* The signed addresses of the files come in any order; a running test may lack some.
GetResources ==
    /\ clashPc = "resources"
    /\ \E rs \in SUBSET Resources : pending' \in SetToSeqs(rs)
    /\ \E c \in ClashTables, i \in InstanceTables, d \in DocumentTables :
           truth' = [clash |-> c, instance |-> i, document |-> d]
    /\ clashPc' = "download"
    /\ UNCHANGED <<latest, tests, filter, onlyStatus, version, test, tables, got, clashes>>

\* Files told apart by a shorter name first: the instances pass for clashes.
FiledByShortName(r, t) ==
    CASE r = "document" -> [t EXCEPT !.document = truth.document]
      [] OTHER -> [t EXCEPT !.clash = IF r = "clash" THEN truth.clash ELSE <<>>]

\* The longer type is asked about first: "clash-instance" contains "clash".
Filed(r, t) ==
    CASE r = "clash-instance" -> [t EXCEPT !.instance = truth.instance]
      [] r = "document" -> [t EXCEPT !.document = truth.document]
      [] OTHER -> [t EXCEPT !.clash = truth.clash]

Downloaded ==
    /\ clashPc = "download" /\ pending # <<>>
    /\ pending' = Tail(pending)
    /\ tables' = Filed(pending[1], tables)
    /\ got' = got \cup {pending[1]}
    /\ UNCHANGED <<latest, tests, filter, onlyStatus, clashPc, version, test, truth, clashes>>

\* An error status (the address has expired): the file is passed over without a word.
NotOk ==
    /\ clashPc = "download" /\ pending # <<>>
    /\ pending' = Tail(pending)
    /\ UNCHANGED <<latest, tests, filter, onlyStatus, clashPc, version, test, truth, tables, got, clashes>>

\* A timeout, a file over the cap of bytes or one that does not parse; a call to Autodesk fails.
ClashThrew ==
    /\ clashPc \in {"version", "tests", "resources"} \/ (clashPc = "download" /\ pending # <<>>)
    /\ clashPc' = "threw"
    /\ UNCHANGED <<latest, tests, filter, onlyStatus, version, test, pending, truth, tables, got, clashes>>

AnswerClashes ==
    /\ clashPc = "download" /\ pending = <<>>
    /\ clashPc' = "done"
    /\ clashes' = ResolveClashes(tables)
    /\ UNCHANGED <<latest, tests, filter, onlyStatus, version, test, pending, truth, tables, got>>

ClashNext ==
    \/ NewVersion \/ ListClashes \/ GetLatestModelSetVersion \/ ListClashTests \/ GetResources
    \/ Downloaded \/ NotOk \/ ClashThrew \/ AnswerClashes

ClashSpec == ClashInit /\ [][ClashNext]_clashVars

-----------------------------------------------------------------------------
(***************************************************************************)
(* Properties                                                              *)
(***************************************************************************)

\* Whatever order the files come in and whichever of them are missing: a clash that is reported
\* is one of the test's with the documents of its first instance, or with no document; the
\* deepest come first and none deeper was cut; nothing is reported of a test that did not
\* succeed when one did; and once the clashes and their instances are there, each clash that
\* passes the filters and has an instance is reported as far as max_results goes.
ClashExact ==
    clashPc = "done" =>
        LET Known(d) == IF "document" \in got /\ d \in truth.document THEN d ELSE Nothing
            Passes(c) == /\ onlyStatus \in {Nothing, c.status}
                         /\ filter = Nothing \/ c.dist >= filter \/ c.dist <= -filter
            Has(c) == \E i \in ToSet(truth.instance) : i.cid = c.id
            all == {c \in ToSet(truth.clash) : Passes(c) /\ Has(c)}
            cut == {c \in all : ~\E r \in ToSet(clashes) : r.id = c.id}
        IN /\ \A r \in ToSet(clashes) : \E c \in all, k \in DOMAIN truth.instance :
                  /\ c.id = r.id /\ c.dist = r.dist /\ c.status = r.status
                  /\ truth.instance[k].cid = c.id
                  /\ \A j \in 1 .. k - 1 : truth.instance[j].cid # c.id
                  /\ r.left = Known(truth.instance[k].left)
                  /\ r.right = Known(truth.instance[k].right)
           /\ \A i, j \in DOMAIN clashes : i < j => clashes[i].dist <= clashes[j].dist
           /\ {"clash", "clash-instance"} \subseteq got =>
                  /\ Len(clashes) <= MaxResults
                  /\ cut # {} => Len(clashes) = MaxResults
                  /\ \A c \in cut, r \in ToSet(clashes) : r.dist <= c.dist
           /\ "Success" \in ToSet(tests) => tests[test] = "Success"
=============================================================================
