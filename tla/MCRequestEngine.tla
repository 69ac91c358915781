--------------------------- MODULE MCRequestEngine ---------------------------
(* Instances of RequestEngine for TLC.                                      *)
EXTENDS RequestEngine, TLC

(* max_connections = -1, the default of globals.                            *)
Unlimited == -1

Symmetry == Permutations(Requests)
=============================================================================
