---------------------------- MODULE MCConfigdIpc ----------------------------
(* Model-checking instances of ConfigdIpc.                                 *)
EXTENDS ConfigdIpc, TLC

(* Clients are interchangeable: no action or safety property names one.    *)
ClientSymmetry == Permutations(Clients)
=============================================================================
