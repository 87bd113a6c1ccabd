------------------------------ MODULE MCConsumer ------------------------------
(* Consumer for TLC: what the configurations need beside constants. *)
EXTENDS Consumer, TLC

Symmetry == Permutations(Sockets) \cup Permutations(Msgs)
=============================================================================
