---------------------------- MODULE MCByohCluster ----------------------------
(***************************************************************************)
(* ByohCluster for TLC.                                                    *)
(***************************************************************************)
EXTENDS ByohCluster

============================================================================
