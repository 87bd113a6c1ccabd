---------------------------- MODULE MCConference ----------------------------
(* Conference for TLC: the channels of a moderator; calls and slots are      *)
(* interchangeable.                                                          *)
EXTENDS Conference, TLC

TwoExtras == <<"chat", "mod">>

Symmetry == Permutations(Calls) \cup Permutations(Slots)
=============================================================================
