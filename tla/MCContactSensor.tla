--------------------------- MODULE MCContactSensor ---------------------------
(* Small instances of ContactSensor: sensors updated at every physics step, *)
(* at every second and at every third one, lazily or not.                   *)
EXTENDS ContactSensor, TLC

CONSTANTS e1, e2

MCEnvs == {e1, e2}
Symmetry == Permutations(MCEnvs)
=============================================================================
