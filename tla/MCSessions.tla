----------------------------- MODULE MCSessions -----------------------------
(* Sessions for TLC: two tabs that share the cookie and make three         *)
(* requests between them; the two of the first tab are alike.              *)
EXTENDS Sessions, TLC

CONSTANTS t1, t2, r1, r2, r3

Owners == [r \in Requests |-> IF r = r3 THEN t2 ELSE t1]
Alike == Permutations({r1, r2})
==============================================================================
