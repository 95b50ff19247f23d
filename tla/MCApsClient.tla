---------------------------- MODULE MCApsClient ----------------------------
(* ApsClient on small sets of model values.                                *)
EXTENDS ApsClient, TLC

\* Nothing orders requests or treats one of them apart; for runs without liveness.
Symmetry == Permutations(Requests)
=============================================================================
