---------------------------- MODULE TenantBackup ----------------------------
(***************************************************************************)
(* scripts/backup-tenants.ts: snapshots of the database, verify-key,       *)
(* restore and rotate-key, run in the container while the server and the   *)
(* provisioning commands of TenantAdmin go on.                             *)
(*                                                                         *)
(* A command reads, snapshots and writes with awaits in between; SQLite    *)
(* makes each backup and each transaction atomic.  A restore replaces the  *)
(* whole database.  A dry run is the command's first step without the      *)
(* others.  The operators take a backup file away when they are done with  *)
(* it (the runbook's sections 2.3, 4.1 and 6.4).  Abstracted: a backup     *)
(* passes its integrity check.                                             *)
(***************************************************************************)
EXTENDS TenantAdmin

CONSTANT Careful    \* the operators keep to the runbook, see SafeToProvision

ASSUME BackupAssumption == Careful \in BOOLEAN /\ None \notin Files

VARIABLES
    files,      \* the backup files: the tenants table in each
    heldKeys,   \* the master keys the operators still have a copy of
    lastKey,    \* the latest one that was generated
    exposed,    \* history: rows written under a running restore, and in no snapshot since
    removed     \* history: rows whose last backup was taken away, and in no snapshot since

backupVars == <<files, heldKeys, lastKey, exposed, removed>>
vars == <<tenancyVars, adminVars, backupVars>>

TypeOK ==
    /\ TenancyTypeOK
    /\ AdminTypeOK
    /\ files \in [Files -> Tables \cup {None}]
    /\ heldKeys \in SUBSET MasterKeys
    /\ lastKey \in MasterKeys
    /\ exposed \in SUBSET Tenants
    /\ removed \in SUBSET Tenants

Init ==
    /\ TenancyInit
    /\ AdminInit
    /\ files = [f \in Files |-> None]
    /\ heldKeys = {1}
    /\ lastKey = 1
    /\ exposed = {}
    /\ removed = {}

FindUndecryptableRows(table, key) == {t \in RowsOf(table) : ~Decrypts(table[t], key)}

(***************************************************************************)
(* snapshot                                                                *)
(***************************************************************************)
\* The live rows are all in a backup now.
BackedUp == exposed' = exposed \ RowsOf(tenants) /\ removed' = removed \ RowsOf(tenants)

\* Mutant: the file named by --out is overwritten.
OverwritesFile(f) == files' = [files EXCEPT ![f] = tenants] /\ BackedUp

\* An existing file is never overwritten.
WriteConsistentSnapshot(f) ==
    /\ files[f] = None
    /\ files' = [files EXCEPT ![f] = tenants]
    /\ BackedUp

CmdSnapshot(c, f) ==
    /\ Begin(c)
    /\ WriteConsistentSnapshot(f)
    /\ UNCHANGED <<tenancyVars, accounts, command, revoked, late, heldKeys, lastKey>>

(***************************************************************************)
(* verify-key: zero failures are the operator's leave to discard the       *)
(* copies of the older keys; an empty table proves nothing.                *)
(***************************************************************************)
CmdVerifyKey(c) ==
    /\ Begin(c)
    /\ RowsOf(tenants) # {}
    /\ FindUndecryptableRows(tenants, masterKey) = {}
    /\ heldKeys' = {k \in heldKeys : k >= masterKey}
    /\ UNCHANGED <<tenancyVars, accounts, command, revoked, late, files, lastKey, exposed, removed>>

(***************************************************************************)
(* restore --apply                                                         *)
(***************************************************************************)
\* Mutant: the dry run only prints what it finds.
MayRestoreUnchecked(f) == TRUE

\* Every row of the file must decrypt under the key the server runs with.
MayRestore(f) == FindUndecryptableRows(files[f], masterKey) = {}

ReadBackup(c, f) ==
    /\ Begin(c)
    /\ files[f] # None
    /\ MayRestore(f)
    /\ command' = [command EXCEPT ![c].at = "restore", ![c].file = f]
    /\ UNCHANGED <<tenancyVars, accounts, revoked, late, backupVars>>

SnapshotBeforeRestore(c, f) ==
    /\ Runs(c, "restore")
    /\ WriteConsistentSnapshot(f)
    /\ Continue(c, "overwrite")
    /\ UNCHANGED <<tenancyVars, accounts, revoked, late, heldKeys, lastKey>>

\* The rows come back as they were: whom the file has as live is told nothing of a disable.
Overwrite(c) ==
    /\ Runs(c, "overwrite")
    /\ tenants' = files[command[c].file]
    /\ revoked' = revoked \ Live(tenants')
    /\ late' = late \cup {t \in Live(tenants') : BeingDeleted(tenants'[t].robot)}
    /\ Continue(c, "check")
    /\ UNCHANGED <<masterKey, providers, requests, robotOf, accounts, backupVars>>

\* What landed is read back; a mismatch is reported and changes nothing.
CheckLanded(c) ==
    /\ Runs(c, "check")
    /\ Exit(c)
    /\ UNCHANGED <<tenancyVars, accounts, revoked, late, backupVars>>

(***************************************************************************)
(* rotate-key --apply                                                      *)
(***************************************************************************)
\* The dry run on a read-only handle; the new key is a fresh one.
PreviewRotation(c) ==
    /\ Begin(c)
    /\ RowsOf(tenants) # {}
    /\ FindUndecryptableRows(tenants, masterKey) = {}
    /\ command' = [command EXCEPT ![c].at = "rotate", ![c].rows = RowsOf(tenants)]
    /\ UNCHANGED <<tenancyVars, accounts, revoked, late, backupVars>>

SnapshotBeforeRotation(c, f) ==
    /\ Runs(c, "rotate")
    /\ WriteConsistentSnapshot(f)
    /\ Continue(c, "commit")
    /\ UNCHANGED <<tenancyVars, accounts, revoked, late, heldKeys, lastKey>>

\* Mutant: the transaction writes the rows of the preview.
RowsOfPreview(c) == command[c].rows

\* The transaction reads the rows again: those that came after the preview rotate as well.
RowsToRotate(c) == RowsOf(tenants)

\* Mutant: INSERT OR REPLACE instead of UPDATE, with the default of the disabled column.
RotatedWholeRows(rows, key) ==
    [t \in Tenants |-> IF t \in rows
                         THEN [tenants[t] EXCEPT !.under = key, !.disabled = FALSE]
                         ELSE tenants[t]]

Rotated(rows, key) == [t \in Tenants |-> IF t \in rows THEN [tenants[t] EXCEPT !.under = key]
                                                       ELSE tenants[t]]

\* All rows or, if one does not decrypt, none.
CommitRotation(c) ==
    /\ Runs(c, "commit")
    /\ IF \A t \in RowsToRotate(c) : t \in RowsOf(tenants) /\ Decrypts(tenants[t], masterKey)
       THEN /\ lastKey < MaxKey
            /\ lastKey' = lastKey + 1
            /\ heldKeys' = heldKeys \cup {lastKey'}
            /\ tenants' = Rotated(RowsToRotate(c), lastKey')
       ELSE UNCHANGED <<tenants, heldKeys, lastKey>>
    /\ Exit(c)
    /\ UNCHANGED <<masterKey, providers, requests, robotOf, accounts, revoked, late, files,
                   exposed, removed>>

(***************************************************************************)
(* The machine restarts, by itself or because `fly secrets set` gave it    *)
(* another of the keys the operators hold: every process in it dies.       *)
(***************************************************************************)
Restart ==
    /\ \E key \in heldKeys : ServerRestarts(key)
    /\ command' = [c \in Admins |-> Idle]
    /\ UNCHANGED <<accounts, started, revoked, late, backupVars>>

RowsElsewhere(f) == UNION {RowsOf(files[g]) : g \in {h \in Files \ {f} : files[h] # None}}

\* rm of a backup, whoever made it; not of the file of a restore that has yet to succeed.
RemoveFile(c, f) ==
    /\ Begin(c)
    /\ files[f] # None
    /\ \A d \in Admins : command[d].file # f
    /\ files' = [files EXCEPT ![f] = None]
    /\ removed' = removed \cup (RowsOf(files[f]) \ RowsElsewhere(f))
    /\ UNCHANGED <<tenancyVars, accounts, command, revoked, late, heldKeys, lastKey, exposed>>

\* The runbook (section 6.6) has nobody provision until verify-key reports no failure.
SafeToProvision == Careful => RowsUnder(tenants, masterKey)

\* Nothing bars it while a restore has its snapshot and has yet to overwrite the table.
NoteExposed ==
    /\ exposed' = IF \E c \in Admins : At(c, "overwrite")
                    THEN exposed \cup {t \in Tenants : robotOf'[t] # robotOf[t]}
                    ELSE exposed
    /\ UNCHANGED <<files, heldKeys, lastKey, removed>>

BackupStep(c) ==
    \/ CmdVerifyKey(c)
    \/ \E f \in Files : \/ CmdSnapshot(c, f) \/ RemoveFile(c, f)
                        \/ ReadBackup(c, f)
                        \/ SnapshotBeforeRestore(c, f)
                        \/ SnapshotBeforeRotation(c, f)
    \/ Overwrite(c) \/ CheckLanded(c)
    \/ PreviewRotation(c) \/ CommitRotation(c)

Next ==
    \/ HandleRequest /\ UNCHANGED <<adminVars, backupVars>>
    \/ \E c \in Admins : \/ AdminStep(c) /\ UNCHANGED backupVars
                         \/ SafeToProvision /\ ProvisionStep(c) /\ NoteExposed
                         \/ BackupStep(c)
    \/ Restart

Spec == Init /\ [][Next]_vars

(***************************************************************************)
(* A rotation moves all rows or none: the live table and each backup are   *)
(* under one master key, so that one secret opens all of it.               *)
(***************************************************************************)
RowsUnderOneKey ==
    \A table \in {tenants} \cup ({files[f] : f \in Files} \ {None}) :
        \E key \in MasterKeys : RowsUnder(table, key)

(***************************************************************************)
(* Whatever is rotated, restored or rolled back, the operators who discard *)
(* keys when verify-key reports zero failures still hold the key of every  *)
(* live row.                                                               *)
(***************************************************************************)
KeysKept == \A t \in RowsOf(tenants) : tenants[t].under \in heldKeys

(***************************************************************************)
(* A tenant whose bearer key an operator was told "is rejected from now    *)
(* on" is let in by nothing but a restore of a backup that has it live.    *)
(***************************************************************************)
RevokedStaysOut == revoked \cap Live(tenants) = {}

(***************************************************************************)
(* The row of a tenant that got its bearer key is the credential itself.   *)
(* Nothing but the operators' rm of its last backup takes it from the live *)
(* table and from every backup: the snapshot before a restore is there for *)
(* the tenants provisioned after the backup (backup-tenants.ts:315-317).   *)
(***************************************************************************)
InBackup(t) == \E f \in Files : files[f] # None /\ t \in RowsOf(files[f])

SnapshotSavesAll ==
    \A t \in Tenants : robotOf[t] # None => t \in RowsOf(tenants) \cup removed \/ InBackup(t)

(***************************************************************************)
(* It does not save a row that is written while a restore lies between its *)
(* snapshot and the overwriting.  Those apart, no order of restores,       *)
(* rotations, snapshots and restarts loses a tenant.                       *)
(***************************************************************************)
NoTenantLost ==
    \A t \in Tenants : robotOf[t] # None =>
        t \in RowsOf(tenants) \cup removed \cup exposed \/ InBackup(t)
=============================================================================
