----------------------------- MODULE MCLocalMedia -----------------------------
(* LocalMedia for TLC: what the configurations need beside constants. *)
EXTENDS LocalMedia, TLC

Symmetry == Permutations(Shares)
=============================================================================
