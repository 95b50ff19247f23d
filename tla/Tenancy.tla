------------------------------ MODULE Tenancy ------------------------------
(***************************************************************************)
(* The tenants of the remote server (src/tenancy): the rows of the tenants *)
(* table, the credential providers a server process caches, and the way of *)
(* a POST /mcp request (src/transport/http.ts) from its bearer key to the  *)
(* context its tools run in.                                               *)
(*                                                                         *)
(* Abstracted: a tenant's id stands for its bearer key and the key's hash; *)
(* a ciphertext is the master key it was made with (AES-GCM decrypts under *)
(* that key only); a robot is its service account and that account's key.  *)
(***************************************************************************)
EXTENDS Naturals, FiniteSets

CONSTANTS
    Tenants,    \* the ids that createTenant may draw
    Accounts,   \* APS service accounts
    MaxKey,     \* master keys are 1..MaxKey, in the order they were generated
    Requests,   \* requests the server handles at a time
    None

VARIABLES
    tenants,    \* the live tenants table
    masterKey,  \* FORMA_MASTER_KEY of the container: of the server and the CLIs in it
    providers,  \* tenantProviderCache: the robot of the cached provider, per tenant
    requests,   \* the requests the server is working on
    robotOf     \* history: the robot each tenant was created with

tenancyVars == <<tenants, masterKey, providers, requests, robotOf>>

MasterKeys == 1..MaxKey
Rows == [robot : Accounts, under : MasterKeys, disabled : BOOLEAN]
Tables == [Tenants -> Rows \cup {None}]

ASSUME TenancyAssumption ==
    /\ MaxKey \in Nat \ {0}
    /\ None \notin Accounts \cup Tenants \cup Rows \cup Tables

\* What a request was answered, or how far it has come.
Statuses == {"none", "authorized", "parsed", "served", "400", "401", "413", "500"}
NoRequest == [tenant |-> None, robot |-> None, status |-> "none"]

TenancyTypeOK ==
    /\ tenants \in Tables
    /\ masterKey \in MasterKeys
    /\ providers \in [Tenants -> Accounts \cup {None}]
    /\ requests \in [Requests -> [tenant : Tenants \cup {None},
                                  robot : Accounts \cup {None}, status : Statuses]]
    /\ robotOf \in [Tenants -> Accounts \cup {None}]

TenancyInit ==
    /\ tenants = [t \in Tenants |-> None]
    /\ masterKey = 1
    /\ providers = [t \in Tenants |-> None]
    /\ requests = [r \in Requests |-> NoRequest]
    /\ robotOf = [t \in Tenants |-> None]

RowsOf(table) == {t \in Tenants : table[t] # None}
Live(table) == {t \in RowsOf(table) : ~table[t].disabled}
Decrypts(row, key) == row.under = key
RowsUnder(table, key) == \A t \in RowsOf(table) : Decrypts(table[t], key)

(***************************************************************************)
(* The store.                                                              *)
(***************************************************************************)
\* A fresh id and bearer key; the private key is encrypted under the process's master key.
CreateTenant(t, robot) ==
    /\ robotOf[t] = None
    /\ tenants' = [tenants EXCEPT
                      ![t] = [robot |-> robot, under |-> masterKey, disabled |-> FALSE]]
    /\ robotOf' = [robotOf EXCEPT ![t] = robot]

\* Mutant: the column is left NULL.
DisableTenantRaw(t) ==
    /\ tenants[t] # None
    /\ tenants' = [tenants EXCEPT ![t].disabled = None]

\* The UPDATE; with no such row disableTenant throws.
DisableTenant(t) ==
    /\ tenants[t] # None
    /\ tenants' = [tenants EXCEPT ![t].disabled = TRUE]

FindTenantsByServiceAccountId(robot) == {t \in RowsOf(tenants) : tenants[t].robot = robot}

(***************************************************************************)
(* A request.                                                              *)
(***************************************************************************)
Answer(r, status) == requests' = [requests EXCEPT ![r].status = status]

\* No Authorization header that reads "Bearer <key>", or a key that is nobody's or disabled.
RefuseBearer(r, t) ==
    /\ requests[r] = NoRequest
    /\ t \notin Live(tenants)
    /\ requests' = [requests EXCEPT ![r] = [tenant |-> t, robot |-> None, status |-> "401"]]
    /\ UNCHANGED <<tenants, masterKey, providers, robotOf>>

\* Mutant: one cached provider for all tenants.
BuildSharedContext(t) ==
    LET cached == {providers[u] : u \in Tenants} \ {None}
    IN IF cached # {} THEN CHOOSE a \in cached : TRUE
       ELSE IF Decrypts(tenants[t], masterKey) THEN tenants[t].robot ELSE None

\* The context of the tenant, from the cached provider or the decrypted credential.
BuildTenantContext(t) ==
    IF providers[t] # None THEN providers[t]
    ELSE IF Decrypts(tenants[t], masterKey) THEN tenants[t].robot ELSE None

\* requireBearer: the row is read and the context built without an await in between; a
\* credential that does not decrypt throws, and the throw is answered with 500.
Authorize(r, t) ==
    /\ requests[r] = NoRequest
    /\ t \in Live(tenants)
    /\ LET robot == BuildTenantContext(t)
       IN /\ providers' = [providers EXCEPT ![t] = robot]
          /\ requests' = [requests EXCEPT
                 ![r] = [tenant |-> t, robot |-> robot,
                         status |-> IF robot = None THEN "500" ELSE "authorized"]]
    /\ UNCHANGED <<tenants, masterKey, robotOf>>

\* express.json(), only after the bearer key was accepted; whatever else it throws is a 500.
ParseBody(r) ==
    /\ requests[r].status = "authorized"
    /\ \E outcome \in {"parsed", "400", "413", "500"} : Answer(r, outcome)
    /\ UNCHANGED <<tenants, masterKey, providers, robotOf>>

\* A server and a transport of its own for each request; any throw is answered with 500.
HandleMcpPost(r) ==
    /\ requests[r].status = "parsed"
    /\ \E outcome \in {"served", "500"} : Answer(r, outcome)
    /\ UNCHANGED <<tenants, masterKey, providers, robotOf>>

Close(r) ==
    /\ requests[r].status \in {"served", "400", "401", "413", "500"}
    /\ requests' = [requests EXCEPT ![r] = NoRequest]
    /\ UNCHANGED <<tenants, masterKey, providers, robotOf>>

HandleRequest ==
    \E r \in Requests :
        \/ \E t \in Tenants : RefuseBearer(r, t) \/ Authorize(r, t)
        \/ RefuseBearer(r, None)
        \/ ParseBody(r)
        \/ HandleMcpPost(r)
        \/ Close(r)

\* The machine stops, or restarts with another secret: the cache and the requests go.
ServerRestarts(key) ==
    /\ masterKey' = key
    /\ providers' = [t \in Tenants |-> None]
    /\ requests' = [r \in Requests |-> NoRequest]
    /\ UNCHANGED <<tenants, robotOf>>

(***************************************************************************)
(* Whatever is restored, rotated, disabled or cached: a tenant's bearer    *)
(* key, its cached provider and its requests only ever stand for the robot *)
(* the tenant was created with (buildTenantContext's isolation).           *)
(***************************************************************************)
OwnRobot ==
    /\ \A t \in RowsOf(tenants) : tenants[t].robot = robotOf[t]
    /\ \A t \in Tenants : providers[t] \in {None, robotOf[t]}
    /\ \A r \in Requests : requests[r].robot # None =>
                              /\ requests[r].tenant \in Tenants
                              /\ requests[r].robot = robotOf[requests[r].tenant]
=============================================================================
