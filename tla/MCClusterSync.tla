---------------------------- MODULE MCClusterSync ----------------------------
(* Model-checking instance of ClusterSync.                                 *)
EXTENDS ClusterSync
==============================================================================
