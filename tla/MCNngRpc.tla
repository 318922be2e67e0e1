------------------------------- MODULE MCNngRpc -------------------------------
(***************************************************************************)
(* Small instance of NngRpc for TLC.                                       *)
(***************************************************************************)
EXTENDS NngRpc

CONSTANTS c1, c2, d1

\* Both calls on one client, from two threads.
OneClient == [c \in Calls |-> d1]

\* One call without a deadline, of a good request; one with, of others too.
MCTimeouts == [c \in Calls |-> IF c = c1 THEN {NoDeadline} ELSE {1}]
MCShapes == [c \in Calls |-> IF c = c1 THEN {"good"}
                            ELSE {"good", "undecodable"}]
=============================================================================
