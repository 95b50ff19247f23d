------------------------- MODULE MCMutationPipeline -------------------------
(* MutationPipeline on small sets of model values.                         *)
EXTENDS MutationPipeline, TLC

\* Nothing orders the members of these sets or treats one of them apart.
Symmetry ==
    UNION {Permutations(Requests), Permutations(Processes), Permutations(Tenants),
           Permutations(Tools), Permutations(Payloads), Permutations(Keys)}
=============================================================================
