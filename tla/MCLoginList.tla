----------------------------- MODULE MCLoginList -----------------------------
(* Model-checking instances of LoginList.                                  *)
EXTENDS LoginList, TLC

(* No definition tells one struct, address or session id from another.     *)
NodeSymmetry == Permutations(Nodes) \cup Permutations(Sids)
=============================================================================
