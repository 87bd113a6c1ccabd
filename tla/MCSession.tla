------------------------------ MODULE MCSession ------------------------------
(* Session for TLC: what the configurations need beside constants. *)
EXTENDS Session, TLC

Symmetry == Permutations(Sockets) \cup Permutations(Msgs)
=============================================================================
