----------------------------- MODULE MCAuditLog -----------------------------
(* AuditLog on small sets of model values.                                 *)
EXTENDS AuditLog, TLC

\* Nothing orders processes or directories or treats one of them apart.
Symmetry == Permutations(Processes) \cup Permutations(Dirs)
=============================================================================
