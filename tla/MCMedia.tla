------------------------------- MODULE MCMedia -------------------------------
(* Media for TLC: two users, a room of both and a room of one of them.      *)
EXTENDS Media, TLC

CONSTANTS u1, u2, r1, r2, f1

Participants == [r \in Rooms |-> IF r = r1 THEN {u1, u2} ELSE {u1}]
==============================================================================
