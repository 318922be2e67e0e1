------------------------------ MODULE MCZmqRpc ------------------------------
(***************************************************************************)
(* Small instances of ZmqRpc for TLC.                                      *)
(***************************************************************************)
EXTENDS ZmqRpc, TLC

CONSTANTS c1, c2, d1

\* Both calls on one client, from two threads.
OneClient == [c \in Calls |-> d1]

\* A finite timeout only; a finite timeout, and none.
FiniteTimeout == {1}
AnyTimeout == {1, NoDeadline}

CallSymmetry == Permutations({c1, c2})
=============================================================================
