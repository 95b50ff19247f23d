--------------------------- MODULE SchemaMigration --------------------------
(***************************************************************************)
(* migrateSchema (src/persistence/db.ts): what a server does to the tables *)
(* an older server left, before it serves its first call.  Every statement *)
(* is a transaction of its own, and the process may stop between two.      *)
(*                                                                         *)
(* Modelled on idempotency_records, which needs every step; the other two  *)
(* tables only lack tenant_id.  One server migrates at a time.             *)
(***************************************************************************)
EXTENDS Naturals, FiniteSets

CONSTANTS
    OldRows,    \* rows an older server left
    NewRows,    \* rows this server writes (bound)
    MaxStarts,  \* how often the server starts (bound)
    NoTable

VARIABLES
    table,      \* idempotency_records: its columns and its rows, or NoTable
    copy,       \* idempotency_records_migrate
    at,         \* the statement that comes next
    starts,
    owed,       \* history: the rows bound to a call that were ever written
    torn        \* history: the statements a crash kept from following the one before them

migrationVars == <<table, copy, at, starts, owed, torn>>

Bindings == {"tool_name", "payload_hash"}
Columns == Bindings \cup {"tenant_id"}
Statements == {"create", "probe", "tool_name", "payload_hash", "unbind", "columns",
               "drop_copy", "create_copy", "fill", "drop", "rename"}

Table == [columns : SUBSET Columns, rows : SUBSET (OldRows \cup NewRows), unbound : SUBSET OldRows]
Empty == [columns |-> Columns, rows |-> {}, unbound |-> {}]

ASSUME MigrationAssumption ==
    /\ OldRows \cap NewRows = {}
    /\ MaxStarts \in Nat
    /\ NoTable \notin Table

MigrationTypeOK ==
    /\ table \in Table \cup {NoTable} /\ copy \in Table \cup {NoTable}
    /\ at \in Statements \cup {"down", "serving"}
    /\ starts \in 0 .. MaxStarts
    /\ owed \subseteq OldRows \cup NewRows

MigrationInit ==
    /\ table = NoTable /\ copy = NoTable
    /\ at = "down"
    /\ starts = 0
    /\ owed = {} /\ torn = {}

-----------------------------------------------------------------------------
\* An older server has left its table: without the binding columns its rows are bound to no call.
OlderServer ==
    /\ starts = 0 /\ table = NoTable
    /\ \E cols \in {{}, Bindings} :
           table' = [columns |-> cols, rows |-> OldRows,
                     unbound |-> IF cols = {} THEN OldRows ELSE {}]
    /\ owed' = IF table'.unbound = {} THEN OldRows ELSE {}
    /\ UNCHANGED <<copy, at, starts, torn>>

StartServer ==
    /\ at = "down" /\ starts < MaxStarts
    /\ starts' = starts + 1
    /\ at' = "create"
    /\ UNCHANGED <<table, copy, owed, torn>>

Stmt(here, next) == at = here /\ at' = next

CreateTable ==
    /\ Stmt("create", "probe")
    /\ table' = IF table = NoTable THEN Empty ELSE table
    /\ UNCHANGED <<copy, starts, owed, torn>>

\* Nothing is dropped unless a binding column was missing.
ProbeBindings ==
    /\ at = "probe"
    /\ at' = IF Bindings \subseteq table.columns THEN "columns" ELSE "tool_name"
    /\ UNCHANGED <<table, copy, starts, owed, torn>>

\* A column that is there already is left alone.
AddColumn(col, next) ==
    /\ Stmt(col, next)
    /\ table' = [table EXCEPT !.columns = @ \cup {col}]
    /\ UNCHANGED <<copy, starts, owed, torn>>

DeleteUnbound ==
    /\ Stmt("unbind", "columns")
    /\ table' = [table EXCEPT !.rows = @ \ table.unbound, !.unbound = {}]
    /\ UNCHANGED <<copy, starts, owed, torn>>

MigrateTenantIdPrimaryKey ==
    /\ at = "columns"
    /\ at' = IF "tenant_id" \in table.columns THEN "serving" ELSE "drop_copy"
    /\ UNCHANGED <<table, copy, starts, owed, torn>>

DropCopy ==
    /\ Stmt("drop_copy", "create_copy")
    /\ copy' = NoTable
    /\ UNCHANGED <<table, starts, owed, torn>>

CreateCopy ==
    /\ Stmt("create_copy", "fill")
    /\ copy' = Empty
    /\ UNCHANGED <<table, starts, owed, torn>>

\* The old table goes before the rows are across.
DropsBeforeFill ==
    /\ Stmt("fill", "drop")
    /\ copy' = Empty
    /\ UNCHANGED <<table, starts, owed, torn>>

FillCopy ==
    /\ Stmt("fill", "drop")
    /\ copy' = [copy EXCEPT !.rows = table.rows, !.unbound = table.unbound]
    /\ UNCHANGED <<table, starts, owed, torn>>

DropTable ==
    /\ Stmt("drop", "rename")
    /\ table' = NoTable
    /\ UNCHANGED <<copy, starts, owed, torn>>

RenameCopy ==
    /\ Stmt("rename", "serving")
    /\ table' = copy
    /\ copy' = NoTable
    /\ UNCHANGED <<starts, owed, torn>>

WriteRow ==
    /\ at = "serving"
    /\ \E r \in NewRows \ owed :
           /\ table' = [table EXCEPT !.rows = @ \cup {r}]
           /\ owed' = owed \cup {r}
    /\ UNCHANGED <<copy, at, starts, torn>>

CrashServer ==
    /\ at # "down"
    /\ at' = "down"
    /\ torn' = torn \cup ({at} \cap {"unbind", "rename"})
    /\ UNCHANGED <<table, copy, starts, owed>>

MigrationNext ==
    \/ OlderServer \/ StartServer \/ CreateTable \/ ProbeBindings
    \/ AddColumn("tool_name", "payload_hash") \/ AddColumn("payload_hash", "unbind")
    \/ DeleteUnbound \/ MigrateTenantIdPrimaryKey
    \/ DropCopy \/ CreateCopy \/ FillCopy \/ DropTable \/ RenameCopy
    \/ WriteRow \/ CrashServer

MigrationSpec == MigrationInit /\ [][MigrationNext]_migrationVars

-----------------------------------------------------------------------------
(***************************************************************************)
(* Properties                                                              *)
(***************************************************************************)

OnDisk(t) == IF t = NoTable THEN {} ELSE t.rows

\* Wherever the process stops and however often, no row bound to a call leaves the disk.  A
\* server that serves has the columns it needs; it has all those rows unless a crash fell
\* between dropping the table and renaming its copy (the next start then makes a new table and
\* never looks at the copy again), and no unbound row unless one fell before the DELETE.
MigrationKeepsRows ==
    /\ owed \subseteq OnDisk(table) \cup OnDisk(copy)
    /\ at = "serving" =>
           /\ table.columns = Columns
           /\ "rename" \notin torn => owed \subseteq table.rows
           /\ "unbind" \notin torn => table.unbound = {}
=============================================================================
