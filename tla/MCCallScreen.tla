---------------------------- MODULE MCCallScreen ----------------------------
(* CallScreen for TLC: two users and their direct message room. *)
EXTENDS CallScreen, TLC

OneRoom == {Users}
Symmetry == Permutations(Users)
=============================================================================
