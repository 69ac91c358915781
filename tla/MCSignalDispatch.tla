--------------------------- MODULE MCSignalDispatch ---------------------------
(* Model-checking instance of SignalDispatch.                              *)
EXTENDS SignalDispatch

All == <<"SEGV", "TERM", "HUP", "INT", "CHLD">>
=============================================================================
