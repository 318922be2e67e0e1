----------------------- MODULE MCFilesystemDiscovery -----------------------
(***************************************************************************)
(* Small instances of FilesystemDiscovery for TLC.                         *)
(***************************************************************************)
EXTENDS FilesystemDiscovery

CONSTANTS s1, s2, l1

\* Two servers of one ID, as when a new one is started before the old ends.
OneId == [s \in Servers |-> 1]
=============================================================================
