----------------------------- MODULE MCCalling -----------------------------
(* Calling for TLC: Call objects and calls are interchangeable.              *)
EXTENDS Calling, TLC

Symmetry == Permutations(Objs) \cup Permutations(Legs)

(* The bound on what the application dials: with two calls at the server, a  *)
(* third dial meets nothing that the second does not.                        *)
TwoDials == Cardinality({o \in Objs : obj[o].owner = "application"}) <= 2
=============================================================================
