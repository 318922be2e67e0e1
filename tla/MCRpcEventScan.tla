--------------------------- MODULE MCRpcEventScan ---------------------------
(***************************************************************************)
(* Small instances of RpcEventScan for TLC.                                *)
(***************************************************************************)
EXTENDS RpcEventScan, TLC

CONSTANTS e1, e2, e3, e4

MixedRetention == [c \in Creates |-> IF c = e1 THEN 0 ELSE 1]
ShortLease == [c \in Creates |-> 1]
NoWaits == [w \in Waits |-> "none"]

CreateSymmetry == Permutations({e2, e3, e4})
=============================================================================
