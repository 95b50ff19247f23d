------------------------- MODULE MCRateGovernance -------------------------
(* RateGovernance on small sets of model values.                           *)
EXTENDS RateGovernance, TLC

\* Nothing orders processes.
Symmetry == Permutations(Processes)
=============================================================================
