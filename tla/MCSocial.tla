------------------------------ MODULE MCSocial ------------------------------
EXTENDS Social, TLC

CONSTANTS U1, U2, S1, S2

SymmetryOfUsersAndSlots == Permutations({U1, U2}) \cup Permutations({S1, S2})

==============================================================================
