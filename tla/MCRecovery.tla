----------------------------- MODULE MCRecovery -----------------------------
(* Recovery for TLC: one room long enough for a page to be full and for     *)
(* events the client cannot read, a second one to go to after it.           *)
EXTENDS Recovery, TLC

CONSTANTS r1, r2

UnknownType == {<<r1, 2>>}
NewerVersion == {<<r2, 1>>}
StreamLengths == (r1 :> 3) @@ (r2 :> 1) @@ (User :> 2)
=============================================================================
