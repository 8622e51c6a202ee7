---------------------------- MODULE MCRoomServer ----------------------------
(* Instances of RoomServer for TLC. *)
EXTENDS RoomServer, TLC

Symmetry == Permutations(Users) \cup Permutations(Requests)
=============================================================================
