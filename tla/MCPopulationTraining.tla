------------------------- MODULE MCPopulationTraining -------------------------
(* Instances of PopulationTraining for TLC. *)
EXTENDS PopulationTraining

Std == <<1, 10>>
================================================================================
