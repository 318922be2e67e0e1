--------------------------- MODULE MCRedisDiscovery ---------------------------
(***************************************************************************)
(* Small instance of RedisDiscovery for TLC.                               *)
(***************************************************************************)
EXTENDS RedisDiscovery

CONSTANTS s1, s2, l1

OwnIds == [s \in Servers |-> IF s = s1 THEN 1 ELSE 2]
=============================================================================
