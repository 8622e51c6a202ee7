------------------------------- MODULE MCCalls -------------------------------
(* Calls for TLC: a room of three users, in which everybody calls the first *)
(* other participant, and a user who connects twice.                        *)
EXTENDS Calls, TLC

CONSTANTS u1, u2, u3, group, s1, s2, s3, s4, h1, h2

OneRoom == [r \in Rooms |-> <<u1, u2, u3>>]
Owners == [s \in Sockets |-> CASE s = s1 -> u1 [] s = s3 -> u3 [] OTHER -> u2]
Symmetry == Permutations({h1, h2})
==============================================================================
