---------------------------- MODULE TenantProofs ----------------------------
(***************************************************************************)
(* What holds of the tenants for any number of tenants, accounts, shells,  *)
(* commands, master keys and backup files, whatever races and restarts:    *)
(* a tenant keeps to its robot, a rotation is all or nothing, and neither  *)
(* a key nor a tenant is lost while the operators keep to the runbook.     *)
(***************************************************************************)
EXTENDS TenantBackup, TLAPS

-----------------------------------------------------------------------------
(***************************************************************************)
(* What the operations of the store do to the table.                       *)
(***************************************************************************)
LEMMA NoneApart == None \notin Accounts /\ None \notin Tenants /\ None \notin Rows /\ None \notin Tables
  BY TenancyAssumption

LEMMA CreateFacts ==
    ASSUME TenancyTypeOK, NEW t \in Tenants, NEW a \in Accounts, CreateTenant(t, a)
    PROVE  /\ tenants' \in Tables /\ robotOf' \in [Tenants -> Accounts \cup {None}]
           /\ robotOf[t] = None /\ robotOf'[t] = a
           /\ tenants'[t] \in Rows /\ tenants'[t] # None
           /\ tenants'[t].robot = a /\ tenants'[t].under = masterKey /\ ~tenants'[t].disabled
           /\ \A u \in Tenants \ {t} : tenants'[u] = tenants[u] /\ robotOf'[u] = robotOf[u]
  <1> DEFINE row == [robot |-> a, under |-> masterKey, disabled |-> FALSE]
  <1>1. row \in Rows
    BY DEF TenancyTypeOK, Rows
  <1>5. row # None
    BY <1>1, NoneApart
  <1> HIDE DEF row
  <1>2. tenants' = [tenants EXCEPT ![t] = row] /\ robotOf' = [robotOf EXCEPT ![t] = a] /\ robotOf[t] = None
    BY DEF CreateTenant, row
  <1>3. row.robot = a /\ row.under = masterKey /\ ~row.disabled
    BY DEF row
  <1> QED
    BY <1>1, <1>2, <1>3, <1>5 DEF TenancyTypeOK, Tables

\* No row comes or goes, and each keeps its robot and its ciphertext.
SameRows ==
    \A u \in Tenants :
        /\ tenants'[u] = None <=> tenants[u] = None
        /\ tenants[u] # None => tenants'[u].robot = tenants[u].robot

LEMMA DisableFacts ==
    ASSUME TenancyTypeOK, NEW t \in Tenants, DisableTenant(t)
    PROVE  /\ tenants' \in Tables /\ SameRows
           /\ tenants[t] # None /\ t \notin Live(tenants')
           /\ \A u \in Tenants : tenants[u] # None => tenants'[u].under = tenants[u].under
           /\ Live(tenants') \subseteq Live(tenants)
  <1>1. tenants[t] \in Rows /\ tenants[t] # None
    BY DEF DisableTenant, TenancyTypeOK, Tables
  <1>2. \A u \in Tenants : tenants'[u] = IF u = t THEN [tenants[t] EXCEPT !.disabled = TRUE]
                                               ELSE tenants[u]
    BY DEF DisableTenant, TenancyTypeOK, Tables
  <1>3. tenants'[t] = [robot |-> tenants[t].robot, under |-> tenants[t].under, disabled |-> TRUE]
    BY <1>1, <1>2 DEF Rows
  <1>4. /\ tenants'[t] \in Rows /\ tenants'[t].disabled
        /\ tenants'[t].robot = tenants[t].robot /\ tenants'[t].under = tenants[t].under
    BY <1>1, <1>3 DEF Rows
  <1>5. tenants'[t] # None
    BY <1>4, NoneApart
  <1>6. tenants' \in Tables
    BY <1>2, <1>4 DEF DisableTenant, TenancyTypeOK, Tables
  <1> QED
    BY <1>1, <1>2, <1>4, <1>5, <1>6 DEF SameRows, Live, RowsOf

LEMMA RotateFacts ==
    ASSUME TenancyTypeOK, NEW key \in MasterKeys, tenants' = Rotated(RowsOf(tenants), key)
    PROVE  /\ tenants' \in Tables /\ SameRows
           /\ \A u \in Tenants : tenants'[u] # None => tenants'[u].under = key
           /\ Live(tenants') = Live(tenants)
  <1>1. \A u \in Tenants : tenants[u] \in Rows \cup {None}
    BY DEF TenancyTypeOK, Tables
  <1>2. ASSUME NEW u \in Tenants, tenants[u] # None
        PROVE  /\ tenants'[u] \in Rows /\ tenants'[u] # None
               /\ tenants'[u].robot = tenants[u].robot /\ tenants'[u].under = key
               /\ tenants'[u].disabled = tenants[u].disabled
    <2>1. tenants[u] \in Rows /\ u \in RowsOf(tenants)
      BY <1>1, <1>2 DEF RowsOf
    <2>2. tenants'[u] = [tenants[u] EXCEPT !.under = key]
      BY <2>1 DEF Rotated
    <2>3. tenants'[u] = [robot |-> tenants[u].robot, under |-> key, disabled |-> tenants[u].disabled]
      BY <2>1, <2>2 DEF Rows
    <2> QED
      BY <2>1, <2>3, NoneApart DEF Rows
  <1>3. \A u \in Tenants : tenants[u] = None => tenants'[u] = None
    BY DEF Rotated, RowsOf
  <1>4. tenants' \in Tables
    BY <1>2, <1>3 DEF Rotated, Tables
  <1> QED
    BY <1>2, <1>3, <1>4 DEF SameRows, Live, RowsOf
-----------------------------------------------------------------------------
(***************************************************************************)
(* Type correctness.                                                       *)
(***************************************************************************)
\* A command is a record that keeps its type when one shell goes on.
LEMMA CommandFacts ==
    ASSUME AdminTypeOK, NEW c \in Admins, NEW m \in Commands, command' = [command EXCEPT ![c] = m]
    PROVE  /\ command' \in [Admins -> Commands] /\ command'[c] = m
           /\ \A d \in Admins \ {c} : command'[d] = command[d]
  BY DEF AdminTypeOK

LEMMA IdleCommand == Idle \in Commands
  BY DEF Idle, Commands

Ats == {"idle", "create", "key", "row", "disable", "delete", "restore", "overwrite", "check",
        "rotate", "commit"}

LEMMA ContinueFacts ==
    ASSUME AdminTypeOK, NEW c \in Admins, NEW at \in Ats, Continue(c, at)
    PROVE  /\ command' \in [Admins -> Commands]
           /\ command'[c].at = at /\ command'[c].account = command[c].account
           /\ command'[c].rows = command[c].rows /\ command'[c].file = command[c].file
           /\ \A d \in Admins \ {c} : command'[d] = command[d]
  <1>1. command[c] \in Commands
    BY DEF AdminTypeOK
  <1>2. \A d \in Admins : command'[d] = IF d = c THEN [command[c] EXCEPT !.at = at] ELSE command[d]
    BY DEF Continue, AdminTypeOK
  <1>3. command'[c] = [at |-> at, account |-> command[c].account, rows |-> command[c].rows,
                       file |-> command[c].file]
    BY <1>1, <1>2 DEF Commands
  <1>4. command'[c] \in Commands
    BY <1>1, <1>3 DEF Commands, Ats
  <1> QED
    BY <1>2, <1>3, <1>4 DEF Continue, AdminTypeOK

LEMMA ExitFacts ==
    ASSUME AdminTypeOK, NEW c \in Admins, Exit(c)
    PROVE  /\ command' \in [Admins -> Commands] /\ command'[c] = Idle
           /\ \A d \in Admins \ {c} : command'[d] = command[d]
  BY CommandFacts, IdleCommand DEF Exit

\* A shell begins a command: where it goes, and on what.
LEMMA CommandMoves ==
    ASSUME AdminTypeOK, NEW c \in Admins, NEW m, NEW at \in Ats, NEW a \in Accounts \cup {None},
           NEW rows \in SUBSET Tenants, NEW f \in Files \cup {None},
           m = [at |-> at, account |-> a, rows |-> rows, file |-> f],
           command' = [command EXCEPT ![c] = m]
    PROVE  /\ command' \in [Admins -> Commands]
           /\ command'[c].at = at /\ command'[c].account = a
           /\ command'[c].rows = rows /\ command'[c].file = f
           /\ \A d \in Admins \ {c} : command'[d] = command[d]
  <1>1. m \in Commands
    BY DEF Commands, Ats
  <1> QED
    BY <1>1, CommandFacts

LEMMA EntryAccount ==
    ASSUME NEW e \in Commands, NEW at, NEW a, NEW m, m = [e EXCEPT !.at = at, !.account = a]
    PROVE  m = [at |-> at, account |-> a, rows |-> e.rows, file |-> e.file]
  BY DEF Commands

LEMMA EntryRows ==
    ASSUME NEW e \in Commands, NEW at, NEW rows, NEW m, m = [e EXCEPT !.at = at, !.rows = rows]
    PROVE  m = [at |-> at, account |-> e.account, rows |-> rows, file |-> e.file]
  BY DEF Commands

LEMMA EntryTypes ==
    ASSUME AdminTypeOK, NEW c \in Admins
    PROVE  /\ command[c] \in Commands /\ command[c].at \in Ats
           /\ command[c].account \in Accounts \cup {None}
           /\ command[c].rows \in SUBSET Tenants /\ command[c].file \in Files \cup {None}
  BY DEF AdminTypeOK, Commands, Ats

\* What a command works on once it is under way.
Placed ==
    \A c \in Admins :
        /\ command[c].at \in {"key", "row"} => command[c].account \in Accounts
        /\ command[c].at \in {"restore", "overwrite"} =>
               command[c].file \in Files /\ files[command[c].file] # None

OnlyCommand(c) == \A d \in Admins \ {c} : command'[d] = command[d]

\* Commands that begin, end, or only ask Autodesk: no table, file or key changes.
Quiet(c) ==
    /\ UNCHANGED <<tenancyVars, revoked, late, backupVars>>
    /\ OnlyCommand(c)
    /\ command'[c].at \notin {"delete", "restore", "overwrite"}
    /\ command'[c].at \in {"key", "row"} => command'[c].account \in Accounts
    /\ \A a \in Accounts : accounts'[a] = "deleted" => accounts[a] = "deleted"

QuietAction(c) ==
    \/ ListServiceAccounts(c) \/ CreateServiceAccount(c) \/ CreateServiceAccountKey(c)
    \/ SetServiceAccountStatus(c) \/ CheckLanded(c) \/ PreviewRotation(c)

LEMMA BeginFacts ==
    ASSUME AdminTypeOK, NEW c \in Admins, Begin(c)
    PROVE  started' \in 0..MaxCommands
  BY AdminAssumption DEF AdminTypeOK, Begin

LEMMA QuietSteps ==
    ASSUME TypeOK, Placed, NEW c \in Admins, QuietAction(c), UNCHANGED backupVars
    PROVE  AdminTypeOK' /\ Quiet(c)
  <1>1. AdminTypeOK /\ command[c] \in Commands
    BY DEF TypeOK, AdminTypeOK
  <1>2. CASE ListServiceAccounts(c)
    <2>1. Continue(c, "create") /\ UNCHANGED <<tenancyVars, accounts, revoked, late>> /\ Begin(c)
      BY <1>2 DEF ListServiceAccounts
    <2>2. /\ command' \in [Admins -> Commands] /\ OnlyCommand(c) /\ command'[c].at = "create"
      <3>1. "create" \in Ats
        BY DEF Ats
      <3> QED
        BY <1>1, <2>1, <3>1, ContinueFacts DEF OnlyCommand
    <2> QED
      BY <1>1, <2>1, <2>2, BeginFacts DEF AdminTypeOK, Quiet
  <1>3. CASE CreateServiceAccount(c)
    <2>1. UNCHANGED <<tenancyVars, revoked, late, started>>
      BY <1>3 DEF CreateServiceAccount, Runs
    <2>2. CASE \E a \in Accounts :
                  /\ accounts' = [accounts EXCEPT ![a] = "keyless"]
                  /\ \/ command' = [command EXCEPT ![c].at = "key", ![c].account = a]
                     \/ Exit(c)
      <3>1. PICK a \in Accounts :
                  /\ accounts' = [accounts EXCEPT ![a] = "keyless"]
                  /\ \/ command' = [command EXCEPT ![c].at = "key", ![c].account = a]
                     \/ Exit(c)
        BY <2>2
      <3>2. /\ accounts' \in [Accounts -> AccountStatuses]
            /\ \A b \in Accounts : accounts'[b] = "deleted" => accounts[b] = "deleted"
        BY <1>1, <3>1 DEF AdminTypeOK, AccountStatuses
      <3>3. /\ command' \in [Admins -> Commands] /\ OnlyCommand(c)
            /\ command'[c].at \in {"key", "idle"}
            /\ command'[c].at = "key" => command'[c].account \in Accounts
        <4>1. CASE Exit(c)
          BY <1>1, <4>1, ExitFacts DEF OnlyCommand, Idle
        <4>2. CASE command' = [command EXCEPT ![c].at = "key", ![c].account = a]
          <5>1. PICK m : /\ m = [command[c] EXCEPT !.at = "key", !.account = a]
                         /\ command' = [command EXCEPT ![c] = m]
            BY <4>2
          <5>2. m = [at |-> "key", account |-> a, rows |-> command[c].rows, file |-> command[c].file]
            BY <1>1, <5>1, EntryAccount
          <5>3. "key" \in Ats
            BY DEF Ats
          <5> QED
            BY <1>1, <5>1, <5>2, <5>3, CommandMoves, EntryTypes DEF OnlyCommand
        <4> QED
          BY <3>1, <4>1, <4>2
      <3> QED
        BY <1>1, <2>1, <3>2, <3>3 DEF AdminTypeOK, Quiet
    <2>3. CASE UNCHANGED accounts /\ Exit(c)
      BY <1>1, <2>1, <2>3, ExitFacts DEF AdminTypeOK, Quiet, OnlyCommand, Idle
    <2> QED
      BY <1>3, <2>2, <2>3 DEF CreateServiceAccount
  <1>4. CASE CreateServiceAccountKey(c)
    <2>1. /\ UNCHANGED <<tenancyVars, revoked, late, started>>
          /\ \/ /\ accounts' = [accounts EXCEPT ![command[c].account] = "ENABLED"]
                /\ Continue(c, "row")
             \/ UNCHANGED accounts /\ Exit(c)
      BY <1>4 DEF CreateServiceAccountKey, Runs
    <2>2. /\ accounts' \in [Accounts -> AccountStatuses]
          /\ \A b \in Accounts : accounts'[b] = "deleted" => accounts[b] = "deleted"
      BY <1>1, <2>1 DEF AdminTypeOK, AccountStatuses
    <2>3. /\ command' \in [Admins -> Commands] /\ OnlyCommand(c)
          /\ command'[c].at \in {"row", "idle"}
          /\ command'[c].at = "row" => command'[c].account \in Accounts
      <3>1. "row" \in Ats /\ command[c].account \in Accounts
        BY <1>4 DEF Ats, Placed, CreateServiceAccountKey, Runs, At
      <3> QED
        BY <1>1, <2>1, <3>1, ContinueFacts, ExitFacts DEF OnlyCommand, Idle
    <2> QED
      BY <1>1, <2>1, <2>2, <2>3 DEF AdminTypeOK, Quiet
  <1>5. CASE SetServiceAccountStatus(c)
    <2>1. /\ UNCHANGED <<tenancyVars, revoked, late, started>> /\ Exit(c)
          /\ \/ accounts' = [accounts EXCEPT ![command[c].account] = "DISABLED"]
             \/ UNCHANGED accounts
      BY <1>5 DEF SetServiceAccountStatus, Runs, Remote
    <2>2. /\ accounts' \in [Accounts -> AccountStatuses]
          /\ \A b \in Accounts : accounts'[b] = "deleted" => accounts[b] = "deleted"
      BY <1>1, <2>1 DEF AdminTypeOK, AccountStatuses
    <2> QED
      BY <1>1, <2>1, <2>2, ExitFacts DEF AdminTypeOK, Quiet, OnlyCommand, Idle
  <1>6. CASE CheckLanded(c)
    BY <1>1, <1>6, ExitFacts DEF CheckLanded, Runs, AdminTypeOK, Quiet, OnlyCommand, Idle
  <1>7. CASE PreviewRotation(c)
    <2>1. PICK m : /\ m = [command[c] EXCEPT !.at = "rotate", !.rows = RowsOf(tenants)]
                   /\ command' = [command EXCEPT ![c] = m]
      BY <1>7 DEF PreviewRotation
    <2>2. m = [at |-> "rotate", account |-> command[c].account, rows |-> RowsOf(tenants),
               file |-> command[c].file]
      BY <1>1, <2>1, EntryRows
    <2>3. "rotate" \in Ats /\ RowsOf(tenants) \in SUBSET Tenants
      BY DEF Ats, RowsOf
    <2>4. UNCHANGED <<tenancyVars, accounts, revoked, late, backupVars>> /\ Begin(c)
      BY <1>7 DEF PreviewRotation
    <2>5. /\ command' \in [Admins -> Commands] /\ OnlyCommand(c) /\ command'[c].at = "rotate"
      <3> DEFINE a == command[c].account
                 f == command[c].file
                 rows == RowsOf(tenants)
      <3>1. a \in Accounts \cup {None} /\ f \in Files \cup {None}
        BY <1>1, EntryTypes
      <3>2. AdminTypeOK /\ rows \in SUBSET Tenants /\ m = [at |-> "rotate", account |-> a, rows |-> rows, file |-> f]
        BY <1>1, <2>2, <2>3
      <3> HIDE DEF a, f, rows
      <3> QED
        BY <2>1, <2>3, <3>1, <3>2, CommandMoves DEF OnlyCommand
    <2>6. AdminTypeOK'
      BY <1>1, <2>4, <2>5, BeginFacts DEF AdminTypeOK
    <2>7. Quiet(c)
      BY <1>1, <2>4, <2>5 DEF AdminTypeOK, Quiet
    <2> QED
      BY <2>6, <2>7
  <1> QED
    BY <1>2, <1>3, <1>4, <1>5, <1>6, <1>7 DEF QuietAction

\* The other kinds of steps, each with what it leaves of the shell's command.
Looks(c) ==
    /\ UNCHANGED <<tenancyVars, accounts, revoked, late, backupVars>>
    /\ OnlyCommand(c)
    /\ command'[c].at = "delete"
    /\ command'[c].rows = FindTenantsByServiceAccountId(command'[c].account) \cap Live(tenants)

Deletes(c) ==
    /\ UNCHANGED <<tenancyVars, revoked, late, backupVars>>
    /\ OnlyCommand(c) /\ command'[c] = Idle
    /\ command[c].at = "delete" /\ command[c].rows = {}
    /\ \A a \in Accounts : accounts'[a] = "deleted" => accounts[a] = "deleted" \/ a = command[c].account

Reads(c) ==
    /\ UNCHANGED <<tenancyVars, accounts, revoked, late, backupVars>>
    /\ OnlyCommand(c)
    /\ command'[c].at = "restore"
    /\ command'[c].file \in Files /\ files[command'[c].file] # None /\ MayRestore(command'[c].file)

Provides(c, t, a) ==
    /\ CreateTenant(t, a)
    /\ late' = IF BeingDeleted(a) THEN late \cup {t} ELSE late
    /\ exposed' = IF \E d \in Admins : At(d, "overwrite") THEN exposed \cup {t} ELSE exposed
    /\ UNCHANGED <<masterKey, providers, requests, revoked, accounts>>
    /\ UNCHANGED <<files, heldKeys, lastKey, removed>>
    /\ OnlyCommand(c) /\ command'[c] \in {command[c], Idle}

Disables(c, t) ==
    /\ DisableTenant(t)
    /\ revoked' = revoked \cup {t}
    /\ UNCHANGED <<masterKey, providers, requests, robotOf, accounts, late, backupVars>>
    /\ OnlyCommand(c)
    /\ command'[c].at \in {"idle", "disable", "delete"}
    /\ command'[c].at = "delete" => /\ command[c].at = "delete"
                                    /\ command'[c].account = command[c].account
                                    /\ command'[c].rows = command[c].rows \ {t}

Snapshots(c, f) ==
    /\ files[f] = None /\ files' = [files EXCEPT ![f] = tenants] /\ BackedUp
    /\ UNCHANGED <<tenancyVars, accounts, revoked, late, heldKeys, lastKey>>
    /\ OnlyCommand(c)
    /\ command'[c].at \in {"idle", "overwrite", "commit"}
    /\ command'[c].at = "overwrite" => command[c].at = "restore" /\ command'[c].file = command[c].file

Removes(f) ==
    /\ files[f] # None /\ files' = [files EXCEPT ![f] = None]
    /\ \A d \in Admins : command[d].file # f
    /\ removed' = removed \cup (RowsOf(files[f]) \ RowsElsewhere(f))
    /\ UNCHANGED <<tenancyVars, accounts, command, revoked, late, heldKeys, lastKey, exposed>>

Overwrites(c) ==
    /\ command[c].at = "overwrite" /\ command'[c].at = "check" /\ OnlyCommand(c)
    /\ tenants' = files[command[c].file]
    /\ revoked' = revoked \ Live(tenants')
    /\ late' = late \cup {t \in Live(tenants') : BeingDeleted(tenants'[t].robot)}
    /\ UNCHANGED <<masterKey, providers, requests, robotOf, accounts, backupVars>>

Rotates(c) ==
    /\ \/ /\ lastKey' \in MasterKeys /\ heldKeys' = heldKeys \cup {lastKey'}
          /\ tenants' = Rotated(RowsOf(tenants), lastKey')
       \/ UNCHANGED <<tenants, heldKeys, lastKey>>
    /\ OnlyCommand(c) /\ command'[c] = Idle
    /\ UNCHANGED <<masterKey, providers, requests, robotOf, accounts, revoked, late, files>>
    /\ UNCHANGED <<exposed, removed>>

LEMMA BeginsRecord ==
    ASSUME AdminTypeOK, NEW c \in Admins, NEW at \in Ats, NEW a \in Accounts \cup {None},
           command' = [command EXCEPT ![c].at = at, ![c].account = a]
    PROVE  /\ command' \in [Admins -> Commands] /\ OnlyCommand(c)
           /\ command'[c].at = at /\ command'[c].account = a
  <1>1. PICK m : /\ m = [command[c] EXCEPT !.at = at, !.account = a]
                 /\ command' = [command EXCEPT ![c] = m]
    OBVIOUS
  <1>2. /\ command[c] \in Commands
        /\ command[c].rows \in SUBSET Tenants /\ command[c].file \in Files \cup {None}
    BY EntryTypes
  <1>3. m = [at |-> at, account |-> a, rows |-> command[c].rows, file |-> command[c].file]
    BY <1>1, <1>2 DEF Commands
  <1>4. m \in Commands
    BY <1>2, <1>3 DEF Commands, Ats
  <1>5. command' \in [Admins -> Commands] /\ command'[c] = m /\ OnlyCommand(c)
    BY <1>1, <1>4, CommandFacts DEF OnlyCommand
  <1> QED
    BY <1>3, <1>5

LEMMA LookSteps ==
    ASSUME TypeOK, NEW c \in Admins, NEW a \in Accounts, LookForTenants(c, a), UNCHANGED backupVars
    PROVE  AdminTypeOK' /\ Looks(c)
  <1> DEFINE found == FindTenantsByServiceAccountId(a) \cap Live(tenants)
  <1>1. AdminTypeOK /\ found \in SUBSET Tenants /\ "delete" \in Ats
    BY DEF TypeOK, Ats, Live, RowsOf
  <1>2. PICK m : /\ m = [command[c] EXCEPT !.at = "delete", !.account = a, !.rows = found]
                 /\ command' = [command EXCEPT ![c] = m]
    BY DEF LookForTenants
  <1> HIDE DEF found
  <1>3. m = [at |-> "delete", account |-> a, rows |-> found, file |-> command[c].file]
    <2>1. command[c] \in Commands
      BY <1>1, EntryTypes
    <2> QED
      BY <1>2, <2>1 DEF Commands
  <1>4. /\ command' \in [Admins -> Commands] /\ OnlyCommand(c)
        /\ command'[c].at = "delete" /\ command'[c].account = a /\ command'[c].rows = found
    BY <1>1, <1>2, <1>3, CommandMoves, EntryTypes DEF OnlyCommand
  <1>5. UNCHANGED <<tenancyVars, accounts, revoked, late>> /\ Begin(c)
    BY DEF LookForTenants
  <1> QED
    BY <1>1, <1>4, <1>5, BeginFacts DEF AdminTypeOK, Looks, found

LEMMA DeleteSteps ==
    ASSUME TypeOK, NEW c \in Admins, DeleteServiceAccount(c), UNCHANGED backupVars
    PROVE  AdminTypeOK' /\ Deletes(c)
  <1>1. AdminTypeOK
    BY DEF TypeOK
  <1>2. /\ UNCHANGED <<tenancyVars, revoked, late, started>> /\ Exit(c)
        /\ command[c].at = "delete" /\ command[c].rows = {}
        /\ \/ accounts' = [accounts EXCEPT ![command[c].account] = "deleted"]
           \/ UNCHANGED accounts
    BY DEF DeleteServiceAccount, Runs, Remote, At, MayDelete
  <1>3. /\ accounts' \in [Accounts -> AccountStatuses]
        /\ \A a \in Accounts : accounts'[a] = "deleted" =>
                                  accounts[a] = "deleted" \/ a = command[c].account
    BY <1>1, <1>2 DEF AdminTypeOK, AccountStatuses
  <1> QED
    BY <1>1, <1>2, <1>3, ExitFacts DEF AdminTypeOK, Deletes, OnlyCommand

LEMMA ReadSteps ==
    ASSUME TypeOK, NEW c \in Admins, NEW f \in Files, ReadBackup(c, f)
    PROVE  AdminTypeOK' /\ Reads(c)
  <1>1. AdminTypeOK /\ "restore" \in Ats
    BY DEF TypeOK, Ats
  <1>2. PICK m : /\ m = [command[c] EXCEPT !.at = "restore", !.file = f]
                 /\ command' = [command EXCEPT ![c] = m]
    BY DEF ReadBackup
  <1>3. m = [at |-> "restore", account |-> command[c].account, rows |-> command[c].rows, file |-> f]
    <2>1. command[c] \in Commands
      BY <1>1, EntryTypes
    <2> QED
      BY <1>2, <2>1 DEF Commands
  <1>4. /\ command' \in [Admins -> Commands] /\ OnlyCommand(c)
        /\ command'[c].at = "restore" /\ command'[c].file = f
    BY <1>1, <1>2, <1>3, CommandMoves, EntryTypes DEF OnlyCommand
  <1>5. /\ UNCHANGED <<tenancyVars, accounts, revoked, late, backupVars>> /\ Begin(c)
        /\ files[f] # None /\ MayRestore(f)
    BY DEF ReadBackup
  <1> QED
    BY <1>1, <1>4, <1>5, BeginFacts DEF AdminTypeOK, Reads

\* The row that appears, and no other, may be exposed.
LEMMA ExposeFacts ==
    ASSUME TenancyTypeOK, NEW t \in Tenants, NEW a \in Accounts, CreateTenant(t, a), NoteExposed
    PROVE  /\ exposed' = IF \E d \in Admins : At(d, "overwrite") THEN exposed \cup {t} ELSE exposed
           /\ UNCHANGED <<files, heldKeys, lastKey, removed>>
  <1>1. robotOf[t] = None /\ robotOf'[t] = a /\ \A u \in Tenants \ {t} : robotOf'[u] = robotOf[u]
    BY CreateFacts
  <1>2. {u \in Tenants : robotOf'[u] # robotOf[u]} = {t}
    BY <1>1, NoneApart
  <1> QED
    BY <1>2 DEF NoteExposed

LEMMA CreateRowSteps ==
    ASSUME TypeOK, Placed, NEW c \in Admins, NEW t \in Tenants, CreateRow(c, t), NoteExposed
    PROVE  AdminTypeOK' /\ TenancyTypeOK' /\ (Quiet(c) \/ \E a \in Accounts : Provides(c, t, a))
  <1>1. AdminTypeOK /\ TenancyTypeOK
    BY DEF TypeOK
  <1>2. /\ command[c].at = "row" /\ Exit(c) /\ UNCHANGED <<accounts, started>>
        /\ \/ Provision(c, t, command[c].account)
           \/ UNCHANGED <<tenancyVars, revoked, late>>
    BY DEF CreateRow, Runs, At
  <1>3. command' \in [Admins -> Commands] /\ command'[c] = Idle /\ OnlyCommand(c)
    BY <1>1, <1>2, ExitFacts DEF OnlyCommand
  <1>4. command[c].account \in Accounts
    BY <1>2 DEF Placed
  <1>5. CASE Provision(c, t, command[c].account)
    <2>1. Provides(c, t, command[c].account)
      BY <1>1, <1>2, <1>3, <1>4, <1>5, ExposeFacts DEF Provision, Provides
    <2>2. late' \in SUBSET Tenants
      BY <1>1, <2>1 DEF Provides, AdminTypeOK
    <2>3. tenants' \in Tables /\ robotOf' \in [Tenants -> Accounts \cup {None}]
      BY <1>1, <1>4, <2>1, CreateFacts DEF Provides
    <2> QED
      BY <1>1, <1>2, <1>3, <1>4, <2>1, <2>2, <2>3 DEF Provides, AdminTypeOK, TenancyTypeOK
  <1>6. CASE UNCHANGED <<tenancyVars, revoked, late>>
    <2>1. UNCHANGED backupVars
      <3>1. {u \in Tenants : robotOf'[u] # robotOf[u]} = {}
        BY <1>6 DEF tenancyVars
      <3> QED
        BY <3>1 DEF NoteExposed, backupVars
    <2> QED
      BY <1>1, <1>2, <1>3, <1>6, <2>1 DEF Quiet, AdminTypeOK, TenancyTypeOK, tenancyVars, Idle
  <1> QED
    BY <1>2, <1>5, <1>6

LEMMA SeedCreateSteps ==
    ASSUME TypeOK, NEW c \in Admins, NEW t \in Tenants, NEW a \in Accounts, SeedCreate(c, t, a),
           NoteExposed
    PROVE  AdminTypeOK' /\ TenancyTypeOK' /\ Provides(c, t, a)
  <1>1. AdminTypeOK /\ TenancyTypeOK
    BY DEF TypeOK
  <1>2. Provision(c, t, a) /\ UNCHANGED <<command, accounts>> /\ Begin(c)
    BY DEF SeedCreate
  <1>3. Provides(c, t, a)
    BY <1>1, <1>2, ExposeFacts DEF Provides, Provision, OnlyCommand
  <1>4. tenants' \in Tables /\ robotOf' \in [Tenants -> Accounts \cup {None}] /\ late' \in SUBSET Tenants
    BY <1>1, <1>3, CreateFacts DEF Provides, AdminTypeOK
  <1> QED
    BY <1>1, <1>2, <1>3, <1>4, BeginFacts DEF Provides, AdminTypeOK, TenancyTypeOK

LEMMA DisableSteps ==
    ASSUME TypeOK, NEW c \in Admins, NEW t \in Tenants, UNCHANGED backupVars,
           DisableLocally(c, t) \/ DisableMatching(c, t) \/ SeedDisable(c, t)
    PROVE  AdminTypeOK' /\ TenancyTypeOK' /\ (Quiet(c) \/ Disables(c, t))
  <1>1. AdminTypeOK /\ TenancyTypeOK
    BY DEF TypeOK
  <1>2. ASSUME Disables(c, t), command' \in [Admins -> Commands], started' \in 0..MaxCommands
        PROVE  AdminTypeOK' /\ TenancyTypeOK'
    <2>1. tenants' \in Tables
      BY <1>1, <1>2, DisableFacts DEF Disables
    <2> QED
      BY <1>1, <1>2, <2>1 DEF Disables, AdminTypeOK, TenancyTypeOK
  <1>3. CASE DisableLocally(c, t)
    <2>1. /\ Begin(c) /\ DisableTenant(t) /\ revoked' = revoked \cup {t}
          /\ command' = [command EXCEPT ![c].at = "disable", ![c].account = tenants[t].robot]
          /\ UNCHANGED <<masterKey, providers, requests, robotOf, accounts, late>>
      BY <1>3 DEF DisableLocally
    <2>2. "disable" \in Ats /\ tenants[t].robot \in Accounts
      BY <1>1, <2>1 DEF Ats, DisableTenant, TenancyTypeOK, Tables, Rows
    <2>3. command' \in [Admins -> Commands] /\ OnlyCommand(c) /\ command'[c].at = "disable"
      BY <1>1, <2>1, <2>2, BeginsRecord
    <2>4. Disables(c, t)
      BY <2>1, <2>3 DEF Disables
    <2> QED
      BY <1>1, <1>2, <2>1, <2>3, <2>4, BeginFacts
  <1>4. CASE DisableMatching(c, t)
    <2>1. /\ command[c].at = "delete" /\ UNCHANGED started
          /\ UNCHANGED <<masterKey, providers, requests, robotOf, accounts, late>>
      BY <1>4 DEF DisableMatching, Runs, At
    <2>2. CASE tenants[t] = None
      <3>1. UNCHANGED <<tenants, revoked>> /\ Exit(c)
        BY <1>4, <2>2 DEF DisableMatching
      <3>2. command' \in [Admins -> Commands] /\ command'[c] = Idle /\ OnlyCommand(c)
        BY <1>1, <3>1, ExitFacts DEF OnlyCommand
      <3> QED
        BY <1>1, <2>1, <3>1, <3>2 DEF Quiet, AdminTypeOK, TenancyTypeOK, tenancyVars, Idle
    <2>3. CASE tenants[t] # None
      <3>1. /\ DisableTenant(t) /\ revoked' = revoked \cup {t}
            /\ command' = [command EXCEPT ![c].rows = @ \ {t}]
        BY <1>4, <2>3 DEF DisableMatching
      <3>2. PICK m : m = [command[c] EXCEPT !.rows = @ \ {t}] /\ command' = [command EXCEPT ![c] = m]
        BY <3>1
      <3>3. /\ command[c] \in Commands /\ command[c].rows \in SUBSET Tenants
        BY <1>1, EntryTypes
      <3>4. m = [at |-> command[c].at, account |-> command[c].account,
                 rows |-> command[c].rows \ {t}, file |-> command[c].file]
        BY <3>2, <3>3 DEF Commands
      <3>5. m \in Commands
        BY <3>3, <3>4 DEF Commands
      <3>6. command' \in [Admins -> Commands] /\ command'[c] = m /\ OnlyCommand(c)
        BY <1>1, <3>2, <3>5, CommandFacts DEF OnlyCommand
      <3>7. Disables(c, t)
        BY <2>1, <3>1, <3>4, <3>6 DEF Disables
      <3> QED
        BY <1>1, <1>2, <2>1, <3>6, <3>7 DEF AdminTypeOK
    <2> QED
      BY <2>2, <2>3
  <1>5. CASE SeedDisable(c, t)
    <2>1. /\ Begin(c) /\ DisableTenant(t) /\ revoked' = revoked \cup {t}
          /\ UNCHANGED <<masterKey, providers, requests, robotOf, accounts, command, late>>
      BY <1>5 DEF SeedDisable
    <2>2. Disables(c, t)
      BY <2>1 DEF Disables, Begin, At, OnlyCommand
    <2> QED
      BY <1>1, <1>2, <2>1, <2>2, BeginFacts DEF AdminTypeOK
  <1> QED
    BY <1>3, <1>4, <1>5

LEMMA SnapshotSteps ==
    ASSUME TypeOK, NEW c \in Admins, NEW f \in Files,
           CmdSnapshot(c, f) \/ SnapshotBeforeRestore(c, f) \/ SnapshotBeforeRotation(c, f)
    PROVE  TypeOK' /\ Snapshots(c, f)
  <1>1. AdminTypeOK /\ TenancyTypeOK /\ "overwrite" \in Ats /\ "commit" \in Ats
    BY DEF TypeOK, Ats
  <1>2. /\ files[f] = None /\ files' = [files EXCEPT ![f] = tenants] /\ BackedUp
        /\ UNCHANGED <<tenancyVars, accounts, revoked, late, heldKeys, lastKey>>
    BY DEF CmdSnapshot, SnapshotBeforeRestore, SnapshotBeforeRotation, WriteConsistentSnapshot
  <1>3. /\ files' \in [Files -> Tables \cup {None}]
        /\ exposed' \in SUBSET Tenants /\ removed' \in SUBSET Tenants
    BY <1>1, <1>2 DEF TypeOK, TenancyTypeOK, BackedUp
  <1>4. CASE CmdSnapshot(c, f)
    <2>1. Begin(c) /\ UNCHANGED command /\ command[c].at = "idle"
      BY <1>4 DEF CmdSnapshot, Begin, At
    <2> QED
      BY <1>1, <1>2, <1>3, <2>1, BeginFacts
      DEF TypeOK, AdminTypeOK, TenancyTypeOK, tenancyVars, Snapshots, OnlyCommand
  <1>5. CASE SnapshotBeforeRestore(c, f)
    <2>1. command[c].at = "restore" /\ UNCHANGED started /\ Continue(c, "overwrite")
      BY <1>5 DEF SnapshotBeforeRestore, Runs, At
    <2>2. /\ command' \in [Admins -> Commands] /\ OnlyCommand(c)
          /\ command'[c].at = "overwrite" /\ command'[c].file = command[c].file
      BY <1>1, <2>1, ContinueFacts DEF OnlyCommand
    <2> QED
      BY <1>1, <1>2, <1>3, <2>1, <2>2 DEF TypeOK, AdminTypeOK, TenancyTypeOK, tenancyVars, Snapshots
  <1>6. CASE SnapshotBeforeRotation(c, f)
    <2>1. UNCHANGED started /\ Continue(c, "commit")
      BY <1>6 DEF SnapshotBeforeRotation, Runs, At
    <2>2. command' \in [Admins -> Commands] /\ OnlyCommand(c) /\ command'[c].at = "commit"
      BY <1>1, <2>1, ContinueFacts DEF OnlyCommand
    <2> QED
      BY <1>1, <1>2, <1>3, <2>1, <2>2 DEF TypeOK, AdminTypeOK, TenancyTypeOK, tenancyVars, Snapshots
  <1> QED
    BY <1>4, <1>5, <1>6

LEMMA RemoveSteps ==
    ASSUME TypeOK, NEW c \in Admins, NEW f \in Files, RemoveFile(c, f)
    PROVE  TypeOK' /\ Removes(f)
  <1>1. AdminTypeOK /\ TenancyTypeOK /\ Begin(c)
    BY DEF TypeOK, RemoveFile
  <1>2. Removes(f)
    BY DEF Removes, RemoveFile
  <1>3. files' \in [Files -> Tables \cup {None}] /\ removed' \in SUBSET Tenants
    BY <1>2 DEF Removes, TypeOK, RowsOf
  <1> QED
    BY <1>1, <1>2, <1>3, BeginFacts
    DEF Removes, TypeOK, AdminTypeOK, TenancyTypeOK, tenancyVars

LEMMA OverwriteSteps ==
    ASSUME TypeOK, Placed, NEW c \in Admins, Overwrite(c)
    PROVE  TypeOK' /\ Overwrites(c)
  <1>1. AdminTypeOK /\ TenancyTypeOK /\ "check" \in Ats
    BY DEF TypeOK, Ats
  <1>2. /\ command[c].at = "overwrite" /\ UNCHANGED started /\ Continue(c, "check")
        /\ tenants' = files[command[c].file]
        /\ revoked' = revoked \ Live(tenants')
        /\ late' = late \cup {t \in Live(tenants') : BeingDeleted(tenants'[t].robot)}
        /\ UNCHANGED <<masterKey, providers, requests, robotOf, accounts, backupVars>>
    BY DEF Overwrite, Runs, At
  <1>3. command' \in [Admins -> Commands] /\ OnlyCommand(c) /\ command'[c].at = "check"
    BY <1>1, <1>2, ContinueFacts DEF OnlyCommand
  <1>4. tenants' \in Tables
    BY <1>2 DEF Placed, TypeOK
  <1>5. Live(tenants') \subseteq Tenants
    BY DEF Live, RowsOf
  <1> QED
    BY <1>1, <1>2, <1>3, <1>4, <1>5 DEF TypeOK, AdminTypeOK, TenancyTypeOK, backupVars, Overwrites

LEMMA RotateSteps ==
    ASSUME TypeOK, NEW c \in Admins, CommitRotation(c)
    PROVE  TypeOK' /\ Rotates(c)
  <1>1. AdminTypeOK /\ TenancyTypeOK /\ lastKey \in MasterKeys /\ MaxKey \in Nat
    BY TenancyAssumption DEF TypeOK
  <1>2. /\ Exit(c) /\ UNCHANGED started
        /\ UNCHANGED <<masterKey, providers, requests, robotOf, accounts, revoked, late, files,
                       exposed, removed>>
        /\ \/ /\ lastKey < MaxKey /\ lastKey' = lastKey + 1
              /\ heldKeys' = heldKeys \cup {lastKey'}
              /\ tenants' = Rotated(RowsOf(tenants), lastKey')
           \/ UNCHANGED <<tenants, heldKeys, lastKey>>
    BY DEF CommitRotation, Runs, RowsToRotate
  <1>3. command' \in [Admins -> Commands] /\ command'[c] = Idle /\ OnlyCommand(c)
    BY <1>1, <1>2, ExitFacts DEF OnlyCommand
  <1>4. lastKey' \in MasterKeys
    BY <1>1, <1>2 DEF MasterKeys
  <1>5. tenants' \in Tables
    BY <1>1, <1>2, <1>4, RotateFacts DEF TenancyTypeOK
  <1> QED
    BY <1>1, <1>2, <1>3, <1>4, <1>5 DEF TypeOK, AdminTypeOK, TenancyTypeOK, Rotates

\* verify-key that finds no row it cannot decrypt.
Verifies ==
    /\ RowsUnder(tenants, masterKey)
    /\ heldKeys' = {k \in heldKeys : k >= masterKey}
    /\ UNCHANGED <<tenancyVars, accounts, command, revoked, late, files, lastKey, exposed, removed>>

LEMMA VerifySteps ==
    ASSUME TypeOK, NEW c \in Admins, CmdVerifyKey(c)
    PROVE  TypeOK' /\ Verifies
  <1>1. AdminTypeOK /\ TenancyTypeOK /\ Begin(c)
    BY DEF TypeOK, CmdVerifyKey
  <1>2. RowsUnder(tenants, masterKey)
    BY DEF CmdVerifyKey, FindUndecryptableRows, RowsUnder
  <1> QED
    BY <1>1, <1>2, BeginFacts
    DEF CmdVerifyKey, Verifies, TypeOK, AdminTypeOK, TenancyTypeOK, tenancyVars

LEMMA RestartSteps ==
    ASSUME TypeOK, Restart
    PROVE  /\ TypeOK' /\ \A c \in Admins : command'[c] = Idle
           /\ masterKey' \in heldKeys
           /\ \A t \in Tenants : providers'[t] = None
           /\ \A r \in Requests : requests'[r] = NoRequest
           /\ UNCHANGED <<tenants, robotOf, accounts, revoked, late, backupVars>>
  <1>1. AdminTypeOK /\ TenancyTypeOK /\ heldKeys \in SUBSET MasterKeys
    BY DEF TypeOK
  <1>2. /\ masterKey' \in heldKeys
        /\ providers' = [t \in Tenants |-> None] /\ requests' = [r \in Requests |-> NoRequest]
        /\ command' = [c \in Admins |-> Idle]
        /\ UNCHANGED <<tenants, robotOf, accounts, started, revoked, late, backupVars>>
    BY DEF Restart, ServerRestarts
  <1>3. NoRequest \in [tenant : Tenants \cup {None}, robot : Accounts \cup {None}, status : Statuses]
    BY DEF NoRequest, Statuses
  <1> QED
    BY <1>1, <1>2, <1>3, IdleCommand DEF TypeOK, AdminTypeOK, TenancyTypeOK, backupVars

\* Only a credential that is cached, or that decrypts, gives a request its robot.
RequestTypes == [tenant : Tenants \cup {None}, robot : Accounts \cup {None}, status : Statuses]

LEMMA ServeSteps ==
    ASSUME TypeOK, HandleRequest, UNCHANGED <<adminVars, backupVars>>
    PROVE  /\ TypeOK' /\ UNCHANGED <<tenants, masterKey, robotOf, adminVars, backupVars>>
           /\ \A t \in Tenants : providers'[t] \in {providers[t], None}
                                 \/ (tenants[t] # None /\ providers'[t] = tenants[t].robot)
           /\ \A r \in Requests :
                  \/ requests'[r].robot = None
                  \/ requests'[r].robot = requests[r].robot /\ requests'[r].tenant = requests[r].tenant
                  \/ /\ requests'[r].tenant \in Tenants
                     /\ requests'[r].robot = providers'[requests'[r].tenant]
  <1>1. TenancyTypeOK /\ requests \in [Requests -> RequestTypes]
    BY DEF TypeOK, TenancyTypeOK, RequestTypes
  <1>2. UNCHANGED <<tenants, masterKey, robotOf>>
    BY DEF HandleRequest, RefuseBearer, Authorize, ParseBody, HandleMcpPost, Close
  <1>3. PICK r \in Requests : \/ \E t \in Tenants : RefuseBearer(r, t) \/ Authorize(r, t)
                              \/ RefuseBearer(r, None)
                              \/ ParseBody(r) \/ HandleMcpPost(r) \/ Close(r)
    BY DEF HandleRequest
  <1> DEFINE Facts ==
        /\ providers' \in [Tenants -> Accounts \cup {None}]
        /\ requests' \in [Requests -> RequestTypes]
        /\ \A t \in Tenants : providers'[t] \in {providers[t], None}
                              \/ (tenants[t] # None /\ providers'[t] = tenants[t].robot)
        /\ \A q \in Requests \ {r} : requests'[q] = requests[q]
        /\ \/ requests'[r].robot = None
           \/ requests'[r].robot = requests[r].robot /\ requests'[r].tenant = requests[r].tenant
           \/ /\ requests'[r].tenant \in Tenants
              /\ requests'[r].robot = providers'[requests'[r].tenant]
  <1>4. ASSUME \E t \in Tenants \cup {None} : RefuseBearer(r, t) PROVE Facts
    <2>1. PICK t \in Tenants \cup {None} : RefuseBearer(r, t)
      BY <1>4
    <2> QED
      BY <1>1, <2>1 DEF RefuseBearer, TenancyTypeOK, RequestTypes, Statuses
  <1>5. ASSUME \E t \in Tenants : Authorize(r, t) PROVE Facts
    <2>1. PICK t \in Tenants : Authorize(r, t)
      BY <1>5
    <2> DEFINE robot == BuildTenantContext(t)
    <2>2. /\ robot \in {providers[t], None} \/ robot = tenants[t].robot
          /\ robot \in Accounts \cup {None} /\ tenants[t] # None
      BY <1>1, <2>1 DEF Authorize, Live, RowsOf, BuildTenantContext, TenancyTypeOK, Tables, Rows
    <2>3. /\ providers' = [providers EXCEPT ![t] = robot]
          /\ \E s \in Statuses : requests' = [requests EXCEPT
                                   ![r] = [tenant |-> t, robot |-> robot, status |-> s]]
      BY <2>1 DEF Authorize, Statuses
    <2> HIDE DEF robot
    <2> QED
      BY <1>1, <2>2, <2>3 DEF TenancyTypeOK, RequestTypes
  <1>6. ASSUME ParseBody(r) \/ HandleMcpPost(r) PROVE Facts
    <2>1. PICK s \in Statuses : requests' = [requests EXCEPT ![r].status = s] /\ UNCHANGED providers
      BY <1>6 DEF ParseBody, HandleMcpPost, Answer, Statuses
    <2>2. requests[r] \in RequestTypes /\ requests'[r] = [requests[r] EXCEPT !.status = s]
      BY <1>1, <2>1
    <2>3. requests'[r] = [tenant |-> requests[r].tenant, robot |-> requests[r].robot, status |-> s]
      BY <2>2 DEF RequestTypes
    <2>4. requests'[r] \in RequestTypes
      BY <2>2, <2>3 DEF RequestTypes
    <2> QED
      BY <1>1, <2>1, <2>3, <2>4 DEF TenancyTypeOK
  <1>7. ASSUME Close(r) PROVE Facts
    BY <1>1, <1>7 DEF Close, NoRequest, TenancyTypeOK, RequestTypes, Statuses
  <1>8. Facts
    BY <1>3, <1>4, <1>5, <1>6, <1>7
  <1>9. TypeOK'
    BY <1>1, <1>2, <1>8 DEF TypeOK, TenancyTypeOK, AdminTypeOK, adminVars, backupVars, RequestTypes
  <1> QED
    BY <1>2, <1>8, <1>9

\* Every step is of one of these kinds.
ShellStep(c) ==
    \/ Quiet(c) \/ Looks(c) \/ Deletes(c) \/ Reads(c) \/ Overwrites(c) \/ Rotates(c)
    \/ \E t \in Tenants, a \in Accounts : Provides(c, t, a) /\ SafeToProvision
    \/ \E t \in Tenants : Disables(c, t)
    \/ \E f \in Files : Snapshots(c, f)

Kinds ==
    \/ HandleRequest /\ UNCHANGED <<adminVars, backupVars>>
    \/ Restart
    \/ Verifies
    \/ \E f \in Files : Removes(f)
    \/ \E c \in Admins : ShellStep(c)

LEMMA NextKinds ==
    ASSUME TypeOK, Placed, Next
    PROVE  TypeOK' /\ Kinds
  <1> DEFINE Done == TypeOK' /\ Kinds
  <1>1. ASSUME NEW c \in Admins, AdminTypeOK', Quiet(c) \/ Looks(c) \/ Deletes(c) \/ Reads(c)
        PROVE  Done
    <2>1. UNCHANGED <<tenancyVars, backupVars>> /\ Kinds
      BY <1>1 DEF Quiet, Looks, Deletes, Reads, Kinds, ShellStep
    <2> QED
      BY <1>1, <2>1 DEF TypeOK, TenancyTypeOK, tenancyVars, backupVars
  <1>2. ASSUME NEW c \in Admins, AdminTypeOK', TenancyTypeOK',
               \/ Quiet(c)
               \/ \E t \in Tenants, a \in Accounts : Provides(c, t, a) /\ SafeToProvision
               \/ \E t \in Tenants : Disables(c, t)
        PROVE  Done
    <2>1. UNCHANGED <<files, heldKeys, lastKey, removed>> /\ exposed' \in SUBSET Tenants
      BY <1>2 DEF Quiet, Provides, Disables, TypeOK, backupVars
    <2>2. Kinds
      BY <1>2 DEF Kinds, ShellStep
    <2> QED
      BY <1>2, <2>1, <2>2 DEF TypeOK
  <1>3. CASE HandleRequest /\ UNCHANGED <<adminVars, backupVars>>
    BY <1>3, ServeSteps DEF Kinds, ShellStep
  <1>4. CASE Restart
    BY <1>4, RestartSteps DEF Kinds, ShellStep
  <1>5. CASE \E c \in Admins : AdminStep(c) /\ UNCHANGED backupVars
    <2>1. PICK c \in Admins : AdminStep(c) /\ UNCHANGED backupVars
      BY <1>5
    <2>2. CASE QuietAction(c)
      BY <1>1, <2>1, <2>2, QuietSteps
    <2>3. CASE DeleteServiceAccount(c)
      BY <1>1, <2>1, <2>3, DeleteSteps
    <2>4. CASE \E a \in Accounts : LookForTenants(c, a)
      BY <1>1, <2>1, <2>4, LookSteps
    <2>5. CASE \E t \in Tenants : DisableLocally(c, t) \/ DisableMatching(c, t) \/ SeedDisable(c, t)
      BY <1>2, <2>1, <2>5, DisableSteps
    <2> QED
      BY <2>1, <2>2, <2>3, <2>4, <2>5 DEF AdminStep, QuietAction
  <1>6. CASE \E c \in Admins : SafeToProvision /\ ProvisionStep(c) /\ NoteExposed
    <2>1. PICK c \in Admins : SafeToProvision /\ ProvisionStep(c) /\ NoteExposed
      BY <1>6
    <2>2. CASE \E t \in Tenants : CreateRow(c, t)
      BY <1>2, <2>1, <2>2, CreateRowSteps
    <2>3. CASE \E t \in Tenants, a \in Accounts : SeedCreate(c, t, a)
      BY <1>2, <2>1, <2>3, SeedCreateSteps
    <2> QED
      BY <2>1, <2>2, <2>3 DEF ProvisionStep
  <1>7. CASE \E c \in Admins : BackupStep(c)
    <2>1. PICK c \in Admins : BackupStep(c)
      BY <1>7
    <2>2. CASE CmdVerifyKey(c)
      BY <2>2, VerifySteps DEF Kinds, ShellStep
    <2>3. CASE \E f \in Files : \/ CmdSnapshot(c, f) \/ SnapshotBeforeRestore(c, f)
                                \/ SnapshotBeforeRotation(c, f)
      BY <2>3, SnapshotSteps DEF Kinds, ShellStep
    <2>4. CASE \E f \in Files : ReadBackup(c, f)
      BY <1>1, <2>4, ReadSteps
    <2>8. CASE \E f \in Files : RemoveFile(c, f)
      BY <2>8, RemoveSteps DEF Kinds
    <2>5. CASE Overwrite(c)
      BY <2>5, OverwriteSteps DEF Kinds, ShellStep
    <2>6. CASE CheckLanded(c) \/ PreviewRotation(c)
      <3>1. UNCHANGED backupVars /\ QuietAction(c)
        BY <2>6 DEF CheckLanded, PreviewRotation, QuietAction
      <3> QED
        BY <1>1, <3>1, QuietSteps
    <2>7. CASE CommitRotation(c)
      BY <2>7, RotateSteps DEF Kinds, ShellStep
    <2> QED
      BY <2>1, <2>2, <2>3, <2>4, <2>5, <2>6, <2>7, <2>8 DEF BackupStep
  <1> QED
    BY <1>3, <1>4, <1>5, <1>6, <1>7 DEF Next

LEMMA PlacedStays ==
    ASSUME TypeOK, Placed, Next
    PROVE  Placed'
  <1>1. Kinds /\ AdminTypeOK /\ files \in [Files -> Tables \cup {None}]
    BY NextKinds DEF TypeOK
  <1>2. CASE (HandleRequest /\ UNCHANGED <<adminVars, backupVars>>) \/ Verifies
    <2>1. UNCHANGED <<command, files>>
      BY <1>2 DEF Verifies, adminVars, backupVars
    <2> QED
      BY <2>1 DEF Placed
  <1>3. CASE Restart
    BY <1>3, RestartSteps DEF Placed, Idle
  <1>5. CASE \E f \in Files : Removes(f)
    <2>1. PICK f \in Files : Removes(f)
      BY <1>5
    <2>2. \A g \in Files : g # f => files'[g] = files[g]
      BY <1>1, <2>1 DEF Removes
    <2> QED
      BY <2>1, <2>2 DEF Placed, Removes
  <1>4. CASE \E c \in Admins : ShellStep(c)
    <2>1. PICK c \in Admins : ShellStep(c)
      BY <1>4
    <2>2. CASE \E f \in Files : Snapshots(c, f)
      <3>1. PICK f \in Files : Snapshots(c, f)
        BY <2>2
      <3>2. \A g \in Files : files[g] # None => files'[g] # None
        BY <1>1, <3>1 DEF Snapshots
      <3> QED
        BY <3>1, <3>2 DEF Placed, Snapshots, OnlyCommand
    <2>3. CASE ~ \E f \in Files : Snapshots(c, f)
      <3>1. UNCHANGED files /\ OnlyCommand(c)
        BY <2>1, <2>3 DEF ShellStep, Quiet, Looks, Deletes, Reads, Overwrites, Rotates, Provides,
                          Disables, backupVars
      <3>2. /\ command'[c].at \in {"key", "row"} => command'[c].account \in Accounts
            /\ command'[c].at \in {"restore", "overwrite"} =>
                   command'[c].file \in Files /\ files[command'[c].file] # None
        BY <2>1, <2>3 DEF ShellStep, Quiet, Looks, Deletes, Reads, Overwrites, Rotates, Provides,
                          Disables, Placed, Idle
      <3> QED
        BY <3>1, <3>2 DEF Placed, OnlyCommand
    <2> QED
      BY <2>2, <2>3
  <1> QED
    BY <1>1, <1>2, <1>3, <1>4, <1>5 DEF Kinds

TypedInv == TypeOK /\ Placed

LEMMA TypedStarts == Init => TypedInv
  <1> SUFFICES ASSUME Init PROVE TypedInv
    OBVIOUS
  <1>1. 1 \in MasterKeys
    BY TenancyAssumption DEF MasterKeys
  <1>2. NoRequest \in [tenant : Tenants \cup {None}, robot : Accounts \cup {None}, status : Statuses]
    BY DEF NoRequest, Statuses
  <1>3. TypeOK
    BY <1>1, <1>2, IdleCommand, AdminAssumption
    DEF Init, TenancyInit, AdminInit, TypeOK, TenancyTypeOK, AdminTypeOK, Tables, AccountStatuses
  <1>4. Placed
    BY DEF Init, AdminInit, Placed, Idle
  <1> QED
    BY <1>3, <1>4 DEF TypedInv

LEMMA TypedSteps == TypedInv /\ [Next]_vars => TypedInv'
  <1>1. ASSUME TypedInv, Next PROVE TypedInv'
    BY <1>1, NextKinds, PlacedStays DEF TypedInv
  <1>2. ASSUME TypedInv, UNCHANGED vars PROVE TypedInv'
    BY <1>2 DEF TypedInv, TypeOK, TenancyTypeOK, AdminTypeOK, Placed, vars, tenancyVars, adminVars,
                backupVars
  <1> QED
    BY <1>1, <1>2

\* Type correctness of the server, the commands and the backups: in particular no command
\* writes a row for an account it does not have, or a file it has not read.
THEOREM TenantTypeCorrect == Spec => []TypeOK
  <1>1. TypedInv => TypeOK
    BY DEF TypedInv
  <1> QED
    BY <1>1, TypedStarts, TypedSteps, PTL DEF Spec

-----------------------------------------------------------------------------
(***************************************************************************)
(* A tenant keeps to its robot: OwnRobot needs the rows of the backups too, *)
(* because a restore brings them back.                                     *)
(***************************************************************************)
FilesOwn ==
    \A f \in Files : files[f] # None =>
        \A t \in Tenants : files[f][t] # None => files[f][t].robot = robotOf[t]

OwnInv == TypedInv /\ OwnRobot /\ FilesOwn

\* In a table a row stands for an account, so its tenant was created.
LEMMA RowsCreated ==
    ASSUME OwnInv
    PROVE  /\ \A t \in Tenants : tenants[t] # None => robotOf[t] # None
           /\ \A f \in Files : files[f] # None =>
                  \A t \in Tenants : files[f][t] # None => robotOf[t] # None
  <1>1. \A t \in Tenants : tenants[t] # None => tenants[t].robot \in Accounts
    BY DEF OwnInv, TypedInv, TypeOK, TenancyTypeOK, Tables, Rows
  <1>2. ASSUME NEW f \in Files, files[f] # None, NEW t \in Tenants, files[f][t] # None
        PROVE  files[f][t].robot \in Accounts
    BY <1>2 DEF OwnInv, TypedInv, TypeOK, Tables, Rows
  <1> QED
    BY <1>1, <1>2, NoneApart DEF OwnInv, OwnRobot, FilesOwn, RowsOf

LEMMA OwnSteps == OwnInv /\ [Next]_vars => OwnInv'
  <1> SUFFICES ASSUME OwnInv, [Next]_vars PROVE OwnInv'
    OBVIOUS
  <1>1. TypeOK /\ Placed /\ TenancyTypeOK /\ TypedInv'
    BY TypedSteps DEF OwnInv, TypedInv, TypeOK
  <1>2. ASSUME SameRows, UNCHANGED <<providers, requests, robotOf, files>>
        PROVE  OwnRobot' /\ FilesOwn'
    BY <1>2 DEF OwnInv, OwnRobot, FilesOwn, SameRows, RowsOf
  <1>3. UNCHANGED tenants => SameRows
    BY DEF SameRows
  <1>4. CASE HandleRequest /\ UNCHANGED <<adminVars, backupVars>>
    <2>1. UNCHANGED <<tenants, robotOf, files>>
      BY <1>1, <1>4, ServeSteps DEF backupVars
    <2>2. \A t \in Tenants : providers'[t] \in {None, robotOf[t]}
      BY <1>1, <1>4, ServeSteps DEF OwnInv, OwnRobot, RowsOf
    <2>3. \A r \in Requests : requests'[r].robot # None =>
              /\ requests'[r].tenant \in Tenants
              /\ requests'[r].robot = robotOf[requests'[r].tenant]
      BY <1>1, <1>4, <2>2, ServeSteps DEF OwnInv, OwnRobot
    <2> QED
      BY <1>1, <2>1, <2>2, <2>3 DEF OwnInv, OwnRobot, FilesOwn, RowsOf
  <1>5. CASE Restart
    BY <1>1, <1>5, RestartSteps DEF OwnInv, OwnRobot, FilesOwn, RowsOf, backupVars, NoRequest
  <1>6. CASE Verifies
    BY <1>1, <1>2, <1>3, <1>6 DEF Verifies, tenancyVars, OwnInv
  <1>9. CASE \E f \in Files : Removes(f)
    <2>1. \A g \in Files : files'[g] # None => files'[g] = files[g]
      BY <1>1, <1>9 DEF Removes, TypeOK
    <2>2. UNCHANGED <<tenants, providers, requests, robotOf>>
      BY <1>9 DEF Removes, tenancyVars
    <2> QED
      BY <1>1, <2>1, <2>2 DEF OwnInv, OwnRobot, FilesOwn, RowsOf
  <1>7. CASE \E c \in Admins : ShellStep(c)
    <2>1. PICK c \in Admins : ShellStep(c)
      BY <1>7
    <2>2. CASE Quiet(c) \/ Looks(c) \/ Deletes(c) \/ Reads(c)
      BY <1>1, <1>2, <1>3, <2>2 DEF Quiet, Looks, Deletes, Reads, tenancyVars, backupVars, OwnInv
    <2>3. CASE Overwrites(c)
      BY <1>1, <2>3 DEF Overwrites, Placed, OwnInv, OwnRobot, FilesOwn, RowsOf, backupVars
    <2>4. CASE Rotates(c)
      <3>1. SameRows
        BY <1>1, <1>3, <2>4, RotateFacts DEF Rotates
      <3> QED
        BY <1>1, <1>2, <2>4, <3>1 DEF Rotates, OwnInv
    <2>5. CASE \E t \in Tenants, a \in Accounts : Provides(c, t, a)
      <3>1. PICK t \in Tenants, a \in Accounts : Provides(c, t, a)
        BY <2>5
      <3>2. /\ robotOf[t] = None /\ robotOf'[t] = a /\ tenants'[t].robot = a
            /\ \A u \in Tenants \ {t} : tenants'[u] = tenants[u] /\ robotOf'[u] = robotOf[u]
            /\ UNCHANGED <<providers, requests, files>>
        BY <1>1, <3>1, CreateFacts DEF Provides, backupVars
      <3>3. FilesOwn'
        BY <3>2, RowsCreated DEF OwnInv, FilesOwn
      <3>4. \A r \in Requests : requests[r].robot # None => requests[r].tenant # t
        BY <3>2 DEF OwnInv, OwnRobot
      <3>5. OwnRobot'
        BY <3>2, <3>4 DEF OwnInv, OwnRobot, RowsOf
      <3> QED
        BY <1>1, <3>3, <3>5 DEF OwnInv
    <2>6. CASE \E t \in Tenants : Disables(c, t)
      <3>1. PICK t \in Tenants : Disables(c, t)
        BY <2>6
      <3>2. SameRows
        BY <1>1, <3>1, DisableFacts DEF Disables
      <3> QED
        BY <1>1, <1>2, <3>1, <3>2 DEF Disables, backupVars, OwnInv
    <2>7. CASE \E f \in Files : Snapshots(c, f)
      <3>1. PICK f \in Files : Snapshots(c, f)
        BY <2>7
      <3>2. /\ UNCHANGED <<tenants, providers, requests, robotOf>>
            /\ \A g \in Files : files'[g] = IF g = f THEN tenants ELSE files[g]
        BY <1>1, <3>1 DEF Snapshots, tenancyVars, TypeOK
      <3>3. OwnRobot'
        BY <3>2 DEF OwnInv, OwnRobot, RowsOf
      <3>4. FilesOwn'
        BY <3>2 DEF OwnInv, OwnRobot, FilesOwn, RowsOf
      <3> QED
        BY <1>1, <3>3, <3>4 DEF OwnInv
    <2> QED
      BY <2>1, <2>2, <2>3, <2>4, <2>5, <2>6, <2>7 DEF ShellStep
  <1>8. CASE UNCHANGED vars
    BY <1>1, <1>2, <1>3, <1>8 DEF vars, tenancyVars, backupVars, OwnInv
  <1> QED
    BY <1>1, <1>4, <1>5, <1>6, <1>7, <1>8, <1>9, NextKinds DEF Kinds

\* Whatever is restored, rotated, disabled or cached, a tenant's row, its cached provider and
\* its requests stand for the robot it was created with (buildTenantContext).
THEOREM RobotsKept == Spec => []OwnRobot
  <1>1. Init => OwnInv
    BY TypedStarts
    DEF Init, TenancyInit, AdminInit, OwnInv, OwnRobot, FilesOwn, RowsOf, NoRequest
  <1>2. OwnInv => OwnRobot
    BY DEF OwnInv
  <1> QED
    BY <1>1, <1>2, OwnSteps, PTL DEF Spec
-----------------------------------------------------------------------------
(***************************************************************************)
(* The keys.  A restore only ever brings back rows under the key the       *)
(* server runs with, because the machine cannot restart with another       *)
(* without killing the restore.                                            *)
(***************************************************************************)
RestoreUnderKey ==
    \A c \in Admins : command[c].at \in {"restore", "overwrite"} =>
                          RowsUnder(files[command[c].file], masterKey)

KeyInv == TypedInv /\ masterKey \in heldKeys /\ RestoreUnderKey /\ KeysKept

\* Another shell, or one that goes on with its restore, keeps to the file it has read.
LEMMA RestoresStay ==
    ASSUME TypedInv, RestoreUnderKey, Kinds, TypedInv'
    PROVE  RestoreUnderKey'
  <1>1. TypeOK /\ Placed
    BY DEF TypedInv
  <1>2. CASE (HandleRequest /\ UNCHANGED <<adminVars, backupVars>>) \/ Verifies
    <2>1. UNCHANGED <<command, files, masterKey>>
      BY <1>1, <1>2, ServeSteps DEF Verifies, adminVars, backupVars, tenancyVars
    <2> QED
      BY <2>1 DEF RestoreUnderKey
  <1>3. CASE Restart
    BY <1>1, <1>3, RestartSteps DEF RestoreUnderKey, Idle
  <1>5. CASE \E f \in Files : Removes(f)
    <2>1. PICK f \in Files : Removes(f)
      BY <1>5
    <2>2. \A g \in Files : g # f => files'[g] = files[g]
      BY <1>1, <2>1 DEF Removes, TypeOK
    <2> QED
      BY <1>1, <2>1, <2>2 DEF Placed, RestoreUnderKey, Removes, tenancyVars
  <1>4. CASE \E c \in Admins : ShellStep(c)
    <2>1. PICK c \in Admins : ShellStep(c)
      BY <1>4
    <2>2. UNCHANGED masterKey /\ OnlyCommand(c)
      BY <2>1 DEF ShellStep, Quiet, Looks, Deletes, Reads, Overwrites, Rotates, Provides,
                  Disables, Snapshots, tenancyVars
    <2>3. \A f \in Files : files[f] # None => files'[f] = files[f]
      BY <1>1, <2>1 DEF ShellStep, Quiet, Looks, Deletes, Reads, Overwrites, Rotates, Provides,
                        Disables, Snapshots, backupVars, TypeOK
    <2>4. ASSUME command'[c].at \in {"restore", "overwrite"}
          PROVE  \/ /\ command[c].at \in {"restore", "overwrite"}
                    /\ command'[c].file = command[c].file
                 \/ Reads(c)
      BY <2>1, <2>4 DEF ShellStep, Quiet, Looks, Deletes, Reads, Overwrites, Rotates, Provides,
                        Disables, Snapshots, Idle
    <2>5. CASE Reads(c)
      <3>1. UNCHANGED files /\ RowsUnder(files[command'[c].file], masterKey)
        BY <2>5 DEF Reads, MayRestore, FindUndecryptableRows, RowsUnder, backupVars
      <3> QED
        BY <2>2, <3>1 DEF RestoreUnderKey, OnlyCommand
    <2>6. CASE ~Reads(c)
      <3> SUFFICES ASSUME NEW d \in Admins, command'[d].at \in {"restore", "overwrite"}
                   PROVE  RowsUnder(files'[command'[d].file], masterKey)
        BY <2>2 DEF RestoreUnderKey
      <3>1. command[d].at \in {"restore", "overwrite"} /\ command'[d].file = command[d].file
        BY <2>2, <2>4, <2>6 DEF OnlyCommand
      <3>2. command[d].file \in Files /\ files[command[d].file] # None
        BY <1>1, <3>1 DEF Placed
      <3> QED
        BY <2>3, <3>1, <3>2 DEF RestoreUnderKey
    <2> QED
      BY <2>5, <2>6
  <1> QED
    BY <1>2, <1>3, <1>4, <1>5 DEF Kinds

LEMMA KeySteps == KeyInv /\ [Next]_vars => KeyInv'
  <1> SUFFICES ASSUME KeyInv, [Next]_vars PROVE KeyInv'
    OBVIOUS
  <1>1. TypedInv /\ TypeOK /\ Placed /\ TenancyTypeOK /\ TypedInv' /\ masterKey \in MasterKeys
    BY TypedSteps DEF KeyInv, TypedInv, TypeOK, TenancyTypeOK
  <1>2. CASE UNCHANGED vars
    BY <1>1, <1>2 DEF KeyInv, RestoreUnderKey, KeysKept, vars, tenancyVars, adminVars, backupVars
  <1>3. CASE Next
    <2>1. Kinds /\ RestoreUnderKey'
      BY <1>1, <1>3, NextKinds, RestoresStay DEF KeyInv
    <2>2. SUFFICES masterKey' \in heldKeys' /\ KeysKept'
      BY <1>1, <2>1 DEF KeyInv
    <2>3. CASE HandleRequest /\ UNCHANGED <<adminVars, backupVars>>
      <3>1. UNCHANGED <<tenants, masterKey, heldKeys>>
        BY <1>1, <2>3, ServeSteps DEF backupVars
      <3> QED
        BY <3>1 DEF KeyInv, KeysKept
    <2>4. CASE Restart
      BY <1>1, <2>4, RestartSteps DEF KeyInv, KeysKept, backupVars
    <2>5. CASE Verifies
      <3>1. UNCHANGED <<tenants, masterKey>> /\ masterKey \in heldKeys'
        BY <1>1, <2>5 DEF Verifies, KeyInv, tenancyVars, MasterKeys
      <3> QED
        BY <2>5, <3>1 DEF Verifies, RowsUnder, Decrypts, KeysKept
    <2>7. CASE \E f \in Files : Removes(f)
      BY <2>7 DEF Removes, tenancyVars, KeyInv, KeysKept
    <2>6. CASE \E c \in Admins : ShellStep(c)
      <3>1. PICK c \in Admins : ShellStep(c)
        BY <2>6
      <3>2. UNCHANGED masterKey /\ heldKeys \subseteq heldKeys'
        BY <3>1 DEF ShellStep, Quiet, Looks, Deletes, Reads, Overwrites, Rotates, Provides,
                    Disables, Snapshots, tenancyVars, backupVars
      <3>3. KeysKept'
        <4>1. CASE UNCHANGED tenants
          BY <3>2, <4>1 DEF KeyInv, KeysKept
        <4>2. CASE Overwrites(c)
          BY <1>1, <3>2, <4>2 DEF Overwrites, KeyInv, RestoreUnderKey, RowsUnder, Decrypts, KeysKept
        <4>3. CASE Rotates(c) /\ tenants' # tenants
          BY <1>1, <4>3, RotateFacts DEF Rotates, KeysKept, RowsOf
        <4>4. CASE \E t \in Tenants, a \in Accounts : Provides(c, t, a)
          BY <1>1, <3>2, <4>4, CreateFacts DEF Provides, KeyInv, KeysKept, RowsOf
        <4>5. CASE \E t \in Tenants : Disables(c, t)
          BY <1>1, <3>2, <4>5, DisableFacts DEF Disables, KeyInv, KeysKept, RowsOf, SameRows
        <4>6. CASE Quiet(c) \/ Looks(c) \/ Deletes(c) \/ Reads(c) \/ \E f \in Files : Snapshots(c, f)
          BY <4>1, <4>6 DEF Quiet, Looks, Deletes, Reads, Snapshots, tenancyVars
        <4> QED
          BY <3>1, <4>1, <4>2, <4>3, <4>4, <4>5, <4>6 DEF ShellStep
      <3> QED
        BY <3>2, <3>3 DEF KeyInv
    <2> QED
      BY <2>1, <2>3, <2>4, <2>5, <2>6, <2>7 DEF Kinds
  <1> QED
    BY <1>2, <1>3

\* Whatever is rotated, restored or rolled back, the key of every live row is still held,
\* although keys are discarded on the word of verify-key (cmdVerifyKey).
THEOREM KeysHeld == Spec => []KeysKept
  <1>1. Init => KeyInv
    BY TypedStarts
    DEF Init, TenancyInit, AdminInit, KeyInv, RestoreUnderKey, KeysKept, RowsOf, Idle
  <1>2. KeyInv => KeysKept
    BY DEF KeyInv
  <1> QED
    BY <1>1, <1>2, KeySteps, PTL DEF Spec
-----------------------------------------------------------------------------
(***************************************************************************)
(* A tenant that was told to be out.                                       *)
(***************************************************************************)
RevokedInv == OwnInv /\ RevokedStaysOut /\ \A t \in revoked : robotOf[t] # None

LEMMA RevokedSteps == RevokedInv /\ [Next]_vars => RevokedInv'
  <1> SUFFICES ASSUME RevokedInv, [Next]_vars PROVE RevokedInv'
    OBVIOUS
  <1> DEFINE Created == \A t \in revoked : robotOf[t] # None
  <1>1. OwnInv /\ TypeOK /\ Placed /\ TenancyTypeOK /\ OwnInv' /\ revoked \in SUBSET Tenants
    BY OwnSteps DEF RevokedInv, OwnInv, TypedInv, TypeOK, AdminTypeOK
  <1>2. SUFFICES RevokedStaysOut' /\ Created'
    BY <1>1 DEF RevokedInv
  <1>3. ASSUME UNCHANGED <<tenants, robotOf, revoked>> PROVE RevokedStaysOut' /\ Created'
    BY <1>3 DEF RevokedInv, RevokedStaysOut
  <1>4. CASE UNCHANGED vars
    BY <1>3, <1>4 DEF vars, tenancyVars, adminVars
  <1>5. CASE Next
    <2>1. Kinds
      BY <1>1, <1>5, NextKinds
    <2>2. CASE HandleRequest /\ UNCHANGED <<adminVars, backupVars>>
      BY <1>1, <1>3, <2>2, ServeSteps DEF adminVars
    <2>3. CASE Restart
      BY <1>1, <1>3, <2>3, RestartSteps
    <2>4. CASE Verifies \/ \E f \in Files : Removes(f)
      BY <1>3, <2>4 DEF Verifies, Removes, tenancyVars
    <2>5. CASE \E c \in Admins : ShellStep(c)
      <3>1. PICK c \in Admins : ShellStep(c)
        BY <2>5
      <3>2. CASE Quiet(c) \/ Looks(c) \/ Deletes(c) \/ Reads(c) \/ \E f \in Files : Snapshots(c, f)
        BY <1>3, <3>2 DEF Quiet, Looks, Deletes, Reads, Snapshots, tenancyVars
      <3>3. CASE Overwrites(c)
        BY <1>1, <3>3 DEF Overwrites, RevokedInv, RevokedStaysOut
      <3>4. CASE Rotates(c)
        <4>1. Live(tenants') = Live(tenants)
          BY <1>1, <3>4, RotateFacts DEF Rotates
        <4> QED
          BY <3>4, <4>1 DEF Rotates, RevokedInv, RevokedStaysOut
      <3>5. CASE \E t \in Tenants, a \in Accounts : Provides(c, t, a)
        <4>1. PICK t \in Tenants, a \in Accounts : Provides(c, t, a)
          BY <3>5
        <4>2. /\ robotOf[t] = None /\ robotOf'[t] = a /\ a # None
              /\ \A u \in Tenants \ {t} : tenants'[u] = tenants[u] /\ robotOf'[u] = robotOf[u]
              /\ revoked' = revoked /\ t \notin revoked
          BY <1>1, <4>1, CreateFacts, NoneApart DEF Provides, RevokedInv
        <4> QED
          BY <1>1, <4>2 DEF RevokedInv, RevokedStaysOut, Live, RowsOf
      <3>6. CASE \E t \in Tenants : Disables(c, t)
        <4>1. PICK t \in Tenants : Disables(c, t)
          BY <3>6
        <4>2. /\ tenants[t] # None /\ t \notin Live(tenants') /\ Live(tenants') \subseteq Live(tenants)
              /\ revoked' = revoked \cup {t} /\ robotOf' = robotOf
          BY <1>1, <4>1, DisableFacts DEF Disables
        <4> QED
          BY <1>1, <4>2, RowsCreated DEF RevokedInv, RevokedStaysOut
      <3> QED
        BY <3>1, <3>2, <3>3, <3>4, <3>5, <3>6 DEF ShellStep
    <2> QED
      BY <2>1, <2>2, <2>3, <2>4, <2>5 DEF Kinds
  <1> QED
    BY <1>4, <1>5

\* A tenant whose bearer key was disabled is let in again only by a restore (disableTenant).
THEOREM RevokedKeptOut == Spec => []RevokedStaysOut
  <1>1. Init => OwnInv
    BY TypedStarts
    DEF Init, TenancyInit, AdminInit, OwnInv, OwnRobot, FilesOwn, RowsOf, NoRequest
  <1>2. Init => RevokedInv
    BY <1>1 DEF Init, AdminInit, RevokedInv, RevokedStaysOut
  <1>3. RevokedInv => RevokedStaysOut
    BY DEF RevokedInv
  <1> QED
    BY <1>2, <1>3, RevokedSteps, PTL DEF Spec
-----------------------------------------------------------------------------
(***************************************************************************)
(* A tenant whose robot is deleted.  While delete-ssa is at work, a live   *)
(* tenant of its account is one it has still to disable, or came too late. *)
(***************************************************************************)
DeletionsTold ==
    \A c \in Admins : command[c].at = "delete" =>
        \A t \in Live(tenants) : tenants[t].robot = command[c].account =>
                                     t \in command[c].rows \cup late

CutOffInv == TypedInv /\ DeletionsTold /\ DeletedRobotsCutOff

LEMMA CutOffSteps == CutOffInv /\ [Next]_vars => CutOffInv'
  <1> SUFFICES ASSUME CutOffInv, [Next]_vars PROVE CutOffInv'
    OBVIOUS
  <1>1. TypedInv' /\ TypeOK /\ Placed /\ TenancyTypeOK
    BY TypedSteps DEF CutOffInv, TypedInv, TypeOK
  <1>2. \A t \in Live(tenants) : t \in Tenants /\ tenants[t].robot \in Accounts
    BY <1>1 DEF TenancyTypeOK, Tables, Rows, Live, RowsOf
  <1>3. SUFFICES DeletionsTold' /\ DeletedRobotsCutOff'
    BY <1>1 DEF CutOffInv
  <1>4. ASSUME UNCHANGED <<tenants, accounts, command, late>>
        PROVE  DeletionsTold' /\ DeletedRobotsCutOff'
    BY <1>4 DEF CutOffInv, DeletionsTold, DeletedRobotsCutOff
  <1>5. CASE UNCHANGED vars
    BY <1>4, <1>5 DEF vars, tenancyVars, adminVars
  <1>6. CASE Next
    <2>1. Kinds
      BY <1>1, <1>6, NextKinds
    <2>2. CASE HandleRequest /\ UNCHANGED <<adminVars, backupVars>>
      BY <1>1, <1>4, <2>2, ServeSteps DEF adminVars
    <2>3. CASE Restart
      BY <1>1, <2>3, RestartSteps DEF CutOffInv, DeletionsTold, DeletedRobotsCutOff, Idle
    <2>4. CASE Verifies \/ \E f \in Files : Removes(f)
      BY <1>4, <2>4 DEF Verifies, Removes, tenancyVars
    <2>5. CASE \E c \in Admins : ShellStep(c)
      <3>1. PICK c \in Admins : ShellStep(c)
        BY <2>5
      <3>2. CASE Quiet(c)
        BY <1>2, <3>2 DEF Quiet, OnlyCommand, tenancyVars, CutOffInv, DeletionsTold, DeletedRobotsCutOff
      <3>3. CASE Reads(c) \/ \E f \in Files : Snapshots(c, f)
        <4>1. /\ UNCHANGED <<tenants, accounts, late>> /\ OnlyCommand(c)
              /\ command'[c].at # "delete"
          BY <3>3 DEF Reads, Snapshots, tenancyVars
        <4> QED
          BY <4>1 DEF OnlyCommand, CutOffInv, DeletionsTold, DeletedRobotsCutOff
      <3>4. CASE Looks(c)
        <4>1. /\ UNCHANGED <<tenants, accounts, late>> /\ OnlyCommand(c)
              /\ \A t \in Live(tenants) : tenants[t].robot = command'[c].account => t \in command'[c].rows
          BY <3>4 DEF Looks, tenancyVars, FindTenantsByServiceAccountId, Live, RowsOf
        <4> QED
          BY <4>1 DEF OnlyCommand, CutOffInv, DeletionsTold, DeletedRobotsCutOff
      <3>5. CASE Deletes(c)
        <4>1. \A t \in Live(tenants) : tenants[t].robot = command[c].account => t \in late
          BY <3>5 DEF Deletes, CutOffInv, DeletionsTold
        <4>2. UNCHANGED <<tenants, late>> /\ OnlyCommand(c) /\ command'[c].at # "delete"
          BY <3>5 DEF Deletes, tenancyVars, Idle
        <4>3. DeletedRobotsCutOff'
          BY <1>2, <3>5, <4>1, <4>2 DEF Deletes, CutOffInv, DeletedRobotsCutOff
        <4> QED
          BY <4>2, <4>3 DEF OnlyCommand, CutOffInv, DeletionsTold
      <3>6. CASE Overwrites(c)
        <4>1. /\ \A t \in Live(tenants') : BeingDeleted(tenants'[t].robot) => t \in late'
              /\ OnlyCommand(c) /\ command'[c].at # "delete" /\ UNCHANGED accounts
          BY <3>6 DEF Overwrites
        <4> QED
          BY <4>1 DEF OnlyCommand, BeingDeleted, At, DeletionsTold, DeletedRobotsCutOff
      <3>7. CASE Rotates(c)
        <4>1. /\ \A t \in Live(tenants') : t \in Live(tenants) /\ tenants'[t].robot = tenants[t].robot
              /\ OnlyCommand(c) /\ command'[c].at # "delete" /\ UNCHANGED <<accounts, late>>
          BY <1>1, <3>7, RotateFacts DEF Rotates, Idle, SameRows, Live, RowsOf
        <4> QED
          BY <4>1 DEF OnlyCommand, CutOffInv, DeletionsTold, DeletedRobotsCutOff
      <3>8. CASE \E t \in Tenants, a \in Accounts : Provides(c, t, a)
        <4>1. PICK t \in Tenants, a \in Accounts : Provides(c, t, a)
          BY <3>8
        <4>2. /\ tenants'[t].robot = a /\ (BeingDeleted(a) => t \in late') /\ late \subseteq late'
              /\ \A u \in Tenants \ {t} : tenants'[u] = tenants[u]
              /\ UNCHANGED accounts /\ OnlyCommand(c) /\ command'[c] \in {command[c], Idle}
          BY <1>1, <4>1, CreateFacts DEF Provides
        <4>3. \A d \in Admins : command'[d].at = "delete" => command'[d] = command[d]
          BY <4>2 DEF OnlyCommand, Idle
        <4>4. \A u \in Live(tenants') : u = t \/ (u \in Live(tenants) /\ tenants'[u] = tenants[u])
          BY <4>2 DEF Live, RowsOf
        <4>5. DeletionsTold'
          BY <4>2, <4>3, <4>4 DEF BeingDeleted, At, CutOffInv, DeletionsTold
        <4>6. DeletedRobotsCutOff'
          BY <4>2, <4>4 DEF BeingDeleted, CutOffInv, DeletedRobotsCutOff
        <4> QED
          BY <4>5, <4>6
      <3>9. CASE \E t \in Tenants : Disables(c, t)
        <4>1. PICK t \in Tenants : Disables(c, t)
          BY <3>9
        <4>2. /\ t \notin Live(tenants')
              /\ \A u \in Live(tenants') : u \in Live(tenants) /\ tenants'[u].robot = tenants[u].robot
              /\ OnlyCommand(c) /\ UNCHANGED <<accounts, late>>
              /\ command'[c].at = "delete" => /\ command[c].at = "delete"
                                              /\ command'[c].account = command[c].account
                                              /\ command'[c].rows = command[c].rows \ {t}
          BY <1>1, <4>1, DisableFacts DEF Disables, SameRows, Live, RowsOf
        <4>3. DeletionsTold'
          BY <4>2 DEF OnlyCommand, CutOffInv, DeletionsTold
        <4> QED
          BY <4>2, <4>3 DEF CutOffInv, DeletedRobotsCutOff
      <3> QED
        BY <3>1, <3>2, <3>3, <3>4, <3>5, <3>6, <3>7, <3>8, <3>9 DEF ShellStep
    <2> QED
      BY <2>1, <2>2, <2>3, <2>4, <2>5 DEF Kinds
  <1> QED
    BY <1>5, <1>6

\* The bearer key of a tenant whose service account is deleted works no more, but for a row
\* written after delete-ssa had looked (cmdDeleteSsa).
THEOREM DeletedCutOff == Spec => []DeletedRobotsCutOff
  <1>1. Init => CutOffInv
    BY TypedStarts
    DEF Init, TenancyInit, AdminInit, CutOffInv, DeletionsTold, DeletedRobotsCutOff, Live, RowsOf
  <1>2. CutOffInv => DeletedRobotsCutOff
    BY DEF CutOffInv
  <1> QED
    BY <1>1, <1>2, CutOffSteps, PTL DEF Spec
-----------------------------------------------------------------------------
(***************************************************************************)
(* What holds while the operators keep to the runbook.  RowsUnderOneKey is *)
(* inductive, because a row is only added to a table under the server's    *)
(* key.                                                                    *)
(***************************************************************************)
OneKey(table) == \E key \in MasterKeys : RowsUnder(table, key)

LEMMA OneKeyTables ==
    RowsUnderOneKey <=> /\ OneKey(tenants)
                        /\ \A f \in Files : files[f] # None => OneKey(files[f])
  BY DEF RowsUnderOneKey, OneKey

LEMMA OneKeySteps ==
    ASSUME Careful
    PROVE  TypedInv /\ RowsUnderOneKey /\ [Next]_vars => RowsUnderOneKey'
  <1> SUFFICES ASSUME TypedInv, RowsUnderOneKey, [Next]_vars PROVE RowsUnderOneKey'
    OBVIOUS
  <1> DEFINE Backups == \A f \in Files : files[f] # None => OneKey(files[f])
  <1>1. /\ TypeOK /\ Placed /\ TenancyTypeOK /\ masterKey \in MasterKeys
        /\ OneKey(tenants) /\ Backups
    BY OneKeyTables DEF TypedInv, TypeOK, TenancyTypeOK
  <1>2. SUFFICES OneKey(tenants') /\ Backups'
    BY DEF RowsUnderOneKey, OneKey
  <1>3. CASE UNCHANGED vars
    BY <1>1, <1>3 DEF vars, tenancyVars, backupVars
  <1>4. CASE Next
    <2>1. Kinds
      BY <1>1, <1>4, NextKinds
    <2>2. CASE HandleRequest /\ UNCHANGED <<adminVars, backupVars>>
      BY <1>1, <2>2, ServeSteps DEF backupVars
    <2>3. CASE Restart
      BY <1>1, <2>3, RestartSteps DEF backupVars
    <2>4. CASE Verifies
      BY <1>1, <2>4 DEF Verifies, tenancyVars
    <2>6. CASE \E f \in Files : Removes(f)
      <3>1. UNCHANGED tenants /\ \A g \in Files : files'[g] # None => files'[g] = files[g]
        BY <1>1, <2>6 DEF Removes, tenancyVars, TypeOK
      <3> QED
        BY <1>1, <3>1
    <2>5. CASE \E c \in Admins : ShellStep(c)
      <3>1. PICK c \in Admins : ShellStep(c)
        BY <2>5
      <3>2. CASE Quiet(c) \/ Looks(c) \/ Deletes(c) \/ Reads(c)
        BY <1>1, <3>2 DEF Quiet, Looks, Deletes, Reads, tenancyVars, backupVars
      <3>3. CASE Overwrites(c)
        BY <1>1, <3>3 DEF Overwrites, Placed, backupVars
      <3>4. CASE Rotates(c)
        <4>1. UNCHANGED files
          BY <3>4 DEF Rotates
        <4>2. CASE UNCHANGED tenants
          BY <1>1, <4>1, <4>2
        <4>3. CASE tenants' # tenants
          BY <1>1, <3>4, <4>1, <4>3, RotateFacts DEF Rotates, OneKey, RowsUnder, Decrypts, RowsOf
        <4> QED
          BY <4>2, <4>3
      <3>5. CASE \E t \in Tenants, a \in Accounts : Provides(c, t, a) /\ SafeToProvision
        <4>1. PICK t \in Tenants, a \in Accounts : Provides(c, t, a) /\ SafeToProvision
          BY <3>5
        <4>2. /\ tenants'[t].under = masterKey /\ UNCHANGED files
              /\ \A u \in Tenants \ {t} : tenants'[u] = tenants[u]
              /\ RowsUnder(tenants, masterKey)
          BY <1>1, <4>1, CreateFacts DEF Provides, SafeToProvision, backupVars
        <4>3. RowsUnder(tenants', masterKey)
          BY <4>2 DEF RowsUnder, RowsOf, Decrypts
        <4> QED
          BY <1>1, <4>2, <4>3 DEF OneKey
      <3>6. CASE \E t \in Tenants : Disables(c, t)
        <4>1. PICK t \in Tenants : Disables(c, t)
          BY <3>6
        <4>2. /\ \A u \in RowsOf(tenants') : u \in RowsOf(tenants) /\ tenants'[u].under = tenants[u].under
              /\ UNCHANGED files
          BY <1>1, <4>1, DisableFacts DEF Disables, SameRows, RowsOf, backupVars
        <4> QED
          BY <1>1, <4>2 DEF OneKey, RowsUnder, Decrypts
      <3>7. CASE \E f \in Files : Snapshots(c, f)
        <4>1. PICK f \in Files : Snapshots(c, f)
          BY <3>7
        <4>2. /\ UNCHANGED tenants
              /\ \A g \in Files : files'[g] = IF g = f THEN tenants ELSE files[g]
          BY <1>1, <4>1 DEF Snapshots, tenancyVars, TypeOK
        <4> QED
          BY <1>1, <4>2
      <3> QED
        BY <3>1, <3>2, <3>3, <3>4, <3>5, <3>6, <3>7 DEF ShellStep
    <2> QED
      BY <2>1, <2>2, <2>3, <2>4, <2>5, <2>6 DEF Kinds
  <1> QED
    BY <1>3, <1>4

\* A rotation moves all rows or none, and no step mixes keys in a table or a backup
\* (rotateKeyAtomically).
THEOREM TablesUnderOneKey == ASSUME Careful PROVE Spec => []RowsUnderOneKey
  <1>1. Init => TypedInv /\ RowsUnderOneKey
    <2> SUFFICES ASSUME Init PROVE RowsUnderOneKey
      BY TypedStarts
    <2>1. /\ RowsOf(tenants) = {} /\ 1 \in MasterKeys
          /\ \A f \in Files : files[f] = None
      BY TenancyAssumption DEF Init, TenancyInit, RowsOf, MasterKeys
    <2> QED
      BY <2>1, OneKeyTables DEF OneKey, RowsUnder
  <1>2. TypedInv /\ RowsUnderOneKey /\ [Next]_vars => (TypedInv /\ RowsUnderOneKey)'
    BY TypedSteps, OneKeySteps
  <1> QED
    BY <1>1, <1>2, PTL DEF Spec
-----------------------------------------------------------------------------
(***************************************************************************)
(* What is not lost: between the two statements of a restore, its snapshot *)
(* and the older backups stand for the table it is about to replace.       *)
(***************************************************************************)
\* A restore that is about to overwrite the table has put its rows by, those apart that were
\* written since, and those whose backup was taken away.
PutBy ==
    \A c \in Admins : command[c].at = "overwrite" =>
        \A t \in Tenants : robotOf[t] # None => t \in removed \cup exposed \/ InBackup(t)

LostInv == TypedInv /\ PutBy /\ NoTenantLost

LEMMA LostSteps == LostInv /\ [Next]_vars => LostInv'
  <1> SUFFICES ASSUME LostInv, [Next]_vars PROVE LostInv'
    OBVIOUS
  <1> DEFINE Excused == removed \cup exposed
             Kept == \A t \in Tenants : robotOf[t] # None =>
                                            tenants[t] # None \/ t \in Excused \/ InBackup(t)
  <1>1. /\ TypedInv' /\ TypeOK /\ Placed /\ TenancyTypeOK /\ Kept
        /\ \A c \in Admins : command[c].at = "overwrite" =>
               \A t \in Tenants : robotOf[t] # None => t \in Excused \/ InBackup(t)
    BY TypedSteps DEF LostInv, TypedInv, TypeOK, NoTenantLost, RowsOf, PutBy
  <1>2. SUFFICES PutBy' /\ Kept'
    BY <1>1 DEF LostInv, NoTenantLost, RowsOf
  <1>3. ASSUME \A f \in Files : files[f] # None => files'[f] = files[f]
        PROVE  \A t \in Tenants : InBackup(t) => InBackup(t)'
    BY <1>3 DEF InBackup
  <1>4. ASSUME UNCHANGED <<robotOf, files, exposed, removed>>, SameRows,
               \A c \in Admins : command'[c].at = "overwrite" => command[c].at = "overwrite"
        PROVE  PutBy' /\ Kept'
    BY <1>1, <1>3, <1>4 DEF PutBy, SameRows
  <1>5. UNCHANGED tenants => SameRows
    BY DEF SameRows
  <1>6. CASE UNCHANGED vars
    BY <1>4, <1>5, <1>6 DEF vars, tenancyVars, adminVars, backupVars
  <1>7. CASE Next
    <2>1. Kinds
      BY <1>1, <1>7, NextKinds
    <2>2. CASE HandleRequest /\ UNCHANGED <<adminVars, backupVars>>
      BY <1>1, <1>4, <1>5, <2>2, ServeSteps DEF adminVars, backupVars
    <2>3. CASE Restart
      BY <1>1, <1>4, <1>5, <2>3, RestartSteps DEF backupVars, Idle
    <2>4. CASE Verifies
      BY <1>4, <1>5, <2>4 DEF Verifies, tenancyVars
    <2>6. CASE \E f \in Files : Removes(f)
      <3>1. PICK f \in Files : Removes(f)
        BY <2>6
      <3>2. /\ UNCHANGED <<tenants, robotOf, command, exposed>>
            /\ removed' = removed \cup (RowsOf(files[f]) \ RowsElsewhere(f))
            /\ \A g \in Files \ {f} : files'[g] = files[g]
        BY <1>1, <3>1 DEF Removes, tenancyVars, TypeOK
      <3>3. \A t \in Tenants : InBackup(t) => t \in removed' \/ InBackup(t)'
        BY <3>2 DEF InBackup, RowsElsewhere
      <3> QED
        BY <1>1, <3>2, <3>3 DEF PutBy
    <2>5. CASE \E c \in Admins : ShellStep(c)
      <3>1. PICK c \in Admins : ShellStep(c)
        BY <2>5
      <3>2. CASE Quiet(c) \/ Looks(c) \/ Deletes(c) \/ Reads(c)
        <4>1. /\ UNCHANGED <<tenants, robotOf, files, exposed, removed>>
              /\ OnlyCommand(c) /\ command'[c].at # "overwrite"
          BY <3>2 DEF Quiet, Looks, Deletes, Reads, tenancyVars, backupVars, Idle
        <4> QED
          BY <1>4, <1>5, <4>1 DEF OnlyCommand
      <3>3. CASE Overwrites(c)
        <4>1. /\ UNCHANGED <<robotOf, files, exposed, removed>> /\ OnlyCommand(c)
              /\ command[c].at = "overwrite" /\ command'[c].at # "overwrite"
          BY <3>3 DEF Overwrites, backupVars
        <4> QED
          BY <1>1, <1>3, <4>1 DEF PutBy, OnlyCommand
      <3>4. CASE Rotates(c)
        <4>1. SameRows
          BY <1>1, <1>5, <3>4, RotateFacts DEF Rotates
        <4>2. /\ UNCHANGED <<robotOf, files, exposed, removed>>
              /\ OnlyCommand(c) /\ command'[c].at # "overwrite"
          BY <3>4 DEF Rotates, Idle
        <4> QED
          BY <1>4, <4>1, <4>2 DEF OnlyCommand
      <3>5. CASE \E t \in Tenants, a \in Accounts : Provides(c, t, a)
        <4>1. PICK t \in Tenants, a \in Accounts : Provides(c, t, a)
          BY <3>5
        <4>2. /\ tenants'[t] # None /\ UNCHANGED <<files, removed>>
              /\ \A u \in Tenants \ {t} : tenants'[u] = tenants[u] /\ robotOf'[u] = robotOf[u]
              /\ exposed \subseteq exposed'
              /\ (\E d \in Admins : command[d].at = "overwrite") => t \in exposed'
          BY <1>1, <4>1, CreateFacts DEF Provides, At
        <4>3. \A d \in Admins : command'[d].at = "overwrite" => command[d].at = "overwrite"
          BY <4>1 DEF Provides, OnlyCommand, Idle
        <4> QED
          BY <1>1, <1>3, <4>2, <4>3 DEF PutBy
      <3>6. CASE \E t \in Tenants : Disables(c, t)
        <4>1. /\ SameRows /\ UNCHANGED <<robotOf, files, exposed, removed>> /\ OnlyCommand(c)
              /\ command'[c].at # "overwrite"
          BY <1>1, <3>6, DisableFacts DEF Disables, backupVars
        <4> QED
          BY <1>4, <4>1 DEF OnlyCommand
      <3>7. CASE \E f \in Files : Snapshots(c, f)
        <4>1. PICK f \in Files : Snapshots(c, f)
          BY <3>7
        <4>2. /\ UNCHANGED <<tenants, robotOf>> /\ files[f] = None /\ files'[f] = tenants
              /\ \A g \in Files : files[g] # None => files'[g] = files[g]
              /\ exposed' = exposed \ RowsOf(tenants) /\ removed' = removed \ RowsOf(tenants)
          BY <1>1, <4>1 DEF Snapshots, BackedUp, tenancyVars, TypeOK
        <4>3. tenants # None
          BY <1>1, NoneApart DEF TenancyTypeOK
        <4>4. \A t \in Tenants : t \in RowsOf(tenants) => InBackup(t)'
          BY <4>2, <4>3 DEF InBackup, RowsOf
        <4>5. \A t \in Tenants : robotOf[t] # None =>
                                     t \in removed' \cup exposed' \/ InBackup(t)'
          BY <1>1, <1>3, <4>2, <4>4 DEF RowsOf
        <4> QED
          BY <4>2, <4>5 DEF PutBy
      <3> QED
        BY <3>1, <3>2, <3>3, <3>4, <3>5, <3>6, <3>7 DEF ShellStep
    <2> QED
      BY <2>1, <2>2, <2>3, <2>4, <2>5, <2>6 DEF Kinds
  <1> QED
    BY <1>6, <1>7

\* Whatever is restored, rotated, taken away or provisioned in whatever order, the row of every
\* tenant that was created is in the live table or in a backup, unless its last backup was taken
\* away or it was written under a restore that had its snapshot already (cmdRestore).
THEOREM NoneLost == Spec => []NoTenantLost
  <1>1. Init => LostInv
    BY TypedStarts DEF Init, TenancyInit, AdminInit, LostInv, PutBy, NoTenantLost, Idle
  <1>2. LostInv => NoTenantLost
    BY DEF LostInv
  <1> QED
    BY <1>1, <1>2, LostSteps, PTL DEF Spec
=============================================================================
