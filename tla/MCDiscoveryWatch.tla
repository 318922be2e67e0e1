-------------------------- MODULE MCDiscoveryWatch --------------------------
(***************************************************************************)
(* Small instances of DiscoveryWatch for TLC.                              *)
(***************************************************************************)
EXTENDS DiscoveryWatch

CONSTANTS s1, s2, l1

OwnIds == [s \in Servers |-> IF s = s1 THEN 1 ELSE 2]
=============================================================================
