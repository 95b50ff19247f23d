----------------------------- MODULE MCTenants -----------------------------
\* Small instances of TenantBackup, with what it composes, for TLC.
EXTENDS TenantBackup, TLC

Symmetry == Permutations(Tenants) \cup Permutations(Accounts) \cup Permutations(Admins)
              \cup Permutations(Files)
=============================================================================
