--------------------------- MODULE MCRemoteWrite ----------------------------
(* Instances for TLC.                                                      *)
EXTENDS RemoteWrite, TLC

Interchangeable == Permutations(Writes)
=============================================================================
