\* One asset of every kind in two worlds, under every solver the managers build.
CONSTANTS
    Articulations = {arm}
    RigidObjects = {cube}
    Collections = {bin}
    Envs = {w1, w2}
    Solvers = {"mujoco", "featherstone", "xpbd", "kamino"}
    MaxTime = 2
    arm = arm
    cube = cube
    bin = bin
    w1 = w1
    w2 = w2
SYMMETRY Symmetry
SPECIFICATION KinematicsSpec
INVARIANTS
    ReadsCurrent
    WritesReachSolver
