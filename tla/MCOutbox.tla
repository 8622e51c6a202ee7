------------------------------ MODULE MCOutbox ------------------------------
(* Outbox for TLC: in one room two of a message, a message that the server *)
(* refuses and a reaction, which it does not answer.                       *)
EXTENDS Outbox, TLC

CONSTANTS m1, m2, e1, r1, f1, f2

OneRoom == [m \in Mutations |-> r1]
Symmetry == Permutations({f1, f2})
=============================================================================
