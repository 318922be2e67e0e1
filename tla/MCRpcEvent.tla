----------------------------- MODULE MCRpcEvent -----------------------------
(***************************************************************************)
(* Small instance of RpcEvent for TLC.                                     *)
(***************************************************************************)
EXTENDS RpcEvent

CONSTANTS e1, e2, e3, w1, w2

\* Events whose slot is reused at once, and after one tick; leases of one tick.
MixedRetention == [c \in Creates |-> IF c = e1 THEN 0 ELSE 1]
ShortLease == [c \in Creates |-> 1]

\* One wait without a timeout and one with.
ForeverAndTimed == [w \in Waits |-> IF w = w1 THEN "none" ELSE "some"]
=============================================================================
