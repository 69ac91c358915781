------------------------- MODULE MCFirmwareUpgrade -------------------------
(* Model-checking instance of FirmwareUpgrade.                             *)
EXTENDS FirmwareUpgrade, FiniteSets

(* A behaviour that has met two of the causes is not followed further.     *)
OneCause == Cardinality(causes) <= 1
=============================================================================
