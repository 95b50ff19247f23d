---------------------------- MODULE TenantAdmin ----------------------------
(***************************************************************************)
(* The commands that provision tenants while the server runs:              *)
(* scripts/tenant-admin.ts, which manages the service accounts at Autodesk *)
(* as well (src/apis/ssa-admin.ts), and scripts/tenant-seed.ts, which only *)
(* writes the table.  One action per statement between two awaits; every   *)
(* call to Autodesk may fail, or take effect and lose its answer.          *)
(*                                                                         *)
(* Abstracted: a service account has one key, made with it or missing.     *)
(***************************************************************************)
EXTENDS Tenancy

CONSTANTS
    Admins,     \* shells in the container, one command at a time each
    Quota,      \* service accounts per Client ID (10)
    Files,      \* names of backup files
    MaxCommands \* commands started in all (bound)

ASSUME AdminAssumption == {Quota, MaxCommands} \subseteq Nat

VARIABLES
    accounts,   \* APS: the status of each service account
    command,    \* what each shell is running
    started,    \* commands started so far
    revoked,    \* history: tenants an operator was told are rejected "from now on"
    late        \* history: live rows made after their account was gone or going

adminVars == <<accounts, command, started, revoked, late>>

AccountStatuses == {"unused", "keyless", "ENABLED", "DISABLED", "deleted"}

\* at: the next statement; rows: tenant rows the command has read; file: its source.
Commands == [at : {"idle", "create", "key", "row", "disable", "delete",
                   "restore", "overwrite", "check", "rotate", "commit"},
             account : Accounts \cup {None}, rows : SUBSET Tenants,
             file : Files \cup {None}]
Idle == [at |-> "idle", account |-> None, rows |-> {}, file |-> None]

AdminTypeOK ==
    /\ accounts \in [Accounts -> AccountStatuses]
    /\ command \in [Admins -> Commands]
    /\ started \in 0..MaxCommands
    /\ revoked \in SUBSET Tenants
    /\ late \in SUBSET Tenants

AdminInit ==
    /\ accounts \in [Accounts -> {"unused", "ENABLED"}]   \* some were made by hand
    /\ command = [c \in Admins |-> Idle]
    /\ started = 0
    /\ revoked = {}
    /\ late = {}

Existing == {a \in Accounts : accounts[a] \notin {"unused", "deleted"}}

At(c, at) == command[c].at = at
Begin(c) == At(c, "idle") /\ started < MaxCommands /\ started' = started + 1
Runs(c, at) == At(c, at) /\ UNCHANGED started
Continue(c, at) == command' = [command EXCEPT ![c].at = at]
Exit(c) == command' = [command EXCEPT ![c] = Idle]

\* Autodesk takes the change or does not, and the answer arrives or does not.
Remote(a, status) == \/ accounts' = [accounts EXCEPT ![a] = status]
                     \/ UNCHANGED accounts

\* delete-ssa has looked for the tenants of the account, or is done with it.
BeingDeleted(a) ==
    \/ accounts[a] = "deleted"
    \/ \E c \in Admins : At(c, "delete") /\ command[c].account = a

\* The row appears, unless the INSERT throws and the command ends in an error.
Provision(c, t, a) ==
    /\ CreateTenant(t, a)
    /\ late' = IF BeingDeleted(a) THEN late \cup {t} ELSE late
    /\ UNCHANGED <<masterKey, providers, requests, revoked>>

(***************************************************************************)
(* tenant-admin create                                                     *)
(***************************************************************************)
\* listServiceAccounts; with the quota reached the command gives up.
ListServiceAccounts(c) ==
    /\ Begin(c)
    /\ Cardinality(Existing) < Quota
    /\ Continue(c, "create")
    /\ UNCHANGED <<tenancyVars, accounts, revoked, late>>

\* Autodesk enforces the quota too.  An error leaves the account, if there is one, unreported.
CreateServiceAccount(c) ==
    /\ Runs(c, "create")
    /\ \/ \E a \in Accounts :
            /\ accounts[a] = "unused"
            /\ Cardinality(Existing) < Quota
            /\ accounts' = [accounts EXCEPT ![a] = "keyless"]
            /\ \/ command' = [command EXCEPT ![c].at = "key", ![c].account = a]
               \/ Exit(c)
       \/ UNCHANGED accounts /\ Exit(c)
    /\ UNCHANGED <<tenancyVars, revoked, late>>

\* A failure here ends the command and leaves the account for the operator to clean up.
CreateServiceAccountKey(c) ==
    /\ Runs(c, "key")
    /\ LET a == command[c].account
       IN \/ /\ accounts[a] \in {"keyless", "ENABLED"}
             /\ accounts' = [accounts EXCEPT ![a] = "ENABLED"]
             /\ Continue(c, "row")
          \/ UNCHANGED accounts /\ Exit(c)
    /\ UNCHANGED <<tenancyVars, revoked, late>>

CreateRow(c, t) ==
    /\ Runs(c, "row")
    /\ \/ Provision(c, t, command[c].account)
       \/ UNCHANGED <<tenancyVars, revoked, late>>
    /\ Exit(c)
    /\ UNCHANGED accounts

(***************************************************************************)
(* tenant-admin disable: the row first, then the account at Autodesk.      *)
(***************************************************************************)
DisableLocally(c, t) ==
    /\ Begin(c)
    /\ DisableTenant(t)
    /\ revoked' = revoked \cup {t}
    /\ command' = [command EXCEPT ![c].at = "disable", ![c].account = tenants[t].robot]
    /\ UNCHANGED <<masterKey, providers, requests, robotOf, accounts, late>>

SetServiceAccountStatus(c) ==
    /\ Runs(c, "disable")
    /\ IF command[c].account \in Existing THEN Remote(command[c].account, "DISABLED")
                                          ELSE UNCHANGED accounts
    /\ Exit(c)
    /\ UNCHANGED <<tenancyVars, revoked, late>>

(***************************************************************************)
(* tenant-admin delete-ssa: the rows that reference the account first.     *)
(***************************************************************************)
LookForTenants(c, a) ==
    /\ Begin(c)
    /\ command' = [command EXCEPT
           ![c].at = "delete", ![c].account = a,
           ![c].rows = FindTenantsByServiceAccountId(a) \cap Live(tenants)]
    /\ UNCHANGED <<tenancyVars, accounts, revoked, late>>

\* One UPDATE per tenant found; a row that is gone by now makes the command throw.
DisableMatching(c, t) ==
    /\ Runs(c, "delete")
    /\ t \in command[c].rows
    /\ IF tenants[t] = None THEN UNCHANGED <<tenants, revoked>> /\ Exit(c)
       ELSE /\ DisableTenant(t)
            /\ revoked' = revoked \cup {t}
            /\ command' = [command EXCEPT ![c].rows = @ \ {t}]
    /\ UNCHANGED <<masterKey, providers, requests, robotOf, accounts, late>>

\* Mutant: remote first, local second.
MayDeleteAtOnce(c) == TRUE

\* Nothing is left to disable.
MayDelete(c) == command[c].rows = {}

DeleteServiceAccount(c) ==
    /\ Runs(c, "delete")
    /\ MayDelete(c)
    /\ IF command[c].account \in Existing THEN Remote(command[c].account, "deleted")
                                          ELSE UNCHANGED accounts
    /\ Exit(c)
    /\ UNCHANGED <<tenancyVars, revoked, late>>

(***************************************************************************)
(* tenant-seed: a service account made by hand, and rows only.             *)
(***************************************************************************)
SeedCreate(c, t, a) ==
    /\ Begin(c)
    /\ accounts[a] = "ENABLED"
    /\ Provision(c, t, a)
    /\ UNCHANGED <<command, accounts>>

SeedDisable(c, t) ==
    /\ Begin(c)
    /\ DisableTenant(t)
    /\ revoked' = revoked \cup {t}
    /\ UNCHANGED <<masterKey, providers, requests, robotOf, accounts, command, late>>

AdminStep(c) ==
    \/ ListServiceAccounts(c) \/ CreateServiceAccount(c) \/ CreateServiceAccountKey(c)
    \/ SetServiceAccountStatus(c) \/ DeleteServiceAccount(c)
    \/ \E t \in Tenants : DisableLocally(c, t) \/ DisableMatching(c, t) \/ SeedDisable(c, t)
    \/ \E a \in Accounts : LookForTenants(c, a)

\* The steps that write a row for a new tenant.
ProvisionStep(c) ==
    \E t \in Tenants : CreateRow(c, t) \/ \E a \in Accounts : SeedCreate(c, t, a)

(***************************************************************************)
(* The bearer key of a tenant whose service account is deleted works no    *)
(* more (tenant-admin.ts:16-20), but for a row that was written once       *)
(* delete-ssa had looked for the account's tenants.                        *)
(***************************************************************************)
DeletedRobotsCutOff ==
    \A t \in Live(tenants) : accounts[tenants[t].robot] = "deleted" => t \in late
=============================================================================
