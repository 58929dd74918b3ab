----------------------------- MODULE MCEnvStep -------------------------------
(* Instances of EnvStep: two environments, alike but for their names. *)
EXTENDS EnvStep, TLC

Symmetry == Permutations(Envs)
=============================================================================
