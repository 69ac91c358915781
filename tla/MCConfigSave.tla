---------------------------- MODULE MCConfigSave ----------------------------
(* Model-checking instance of ConfigSave.                                  *)
EXTENDS ConfigSave

(* Nothing is claimed of a behaviour once a write has failed, config.xml   *)
(* was unlinked or a repair has raced: such a state is not extended.       *)
Unhurt == hurt \subseteq {"error"}
=============================================================================
