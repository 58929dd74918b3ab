-------------------------- MODULE MCNewtonKinematics --------------------------
EXTENDS NewtonKinematics, TLC

Symmetry == Permutations(Envs)
=============================================================================
