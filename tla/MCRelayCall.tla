----------------------------- MODULE MCRelayCall -----------------------------
(* RelayCall for TLC: components are interchangeable.                         *)
EXTENDS RelayCall, TLC

Symmetry == Permutations(Comps)

OneWait   == {{"answered"}}
=============================================================================
