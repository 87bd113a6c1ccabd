------------------------------ MODULE MCHandler ------------------------------
(* Handler for TLC: what the configurations need beside constants. *)
EXTENDS Handler, TLC

Symmetry == Permutations(Callbacks)
=============================================================================
