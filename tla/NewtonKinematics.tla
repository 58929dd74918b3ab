--------------------------- MODULE NewtonKinematics ---------------------------
(***************************************************************************)
(* Body poses on the Newton backend.  A write to an asset changes joint     *)
(* coordinates; the body poses that getters return, collision detection     *)
(* reads and a maximal-coordinate solver integrates follow only when        *)
(* forward kinematics (eval_fk) runs.  The code keeps three independent     *)
(* marks of that debt: a timestamp per asset, consumed by getters, and two   *)
(* masks of NewtonManager (worlds to reset in the solver, articulations to   *)
(* pass through eval_fk), consumed by the next physics step.                *)
(*                                                                         *)
(* A pair <<a, w>> stands for the articulation of asset a in world w.       *)
(* `stale' and `lost' are not state of the program: they record which body  *)
(* poses lag behind the joint coordinates, and which writes a step ran past. *)
(*                                                                         *)
(* The initial condition, the steps and the types are named so that a module *)
(* can extend ArticulationData as well.                                     *)
(***************************************************************************)
EXTENDS Integers

CONSTANTS
    Articulations,      \* the articulations of the scene
    RigidObjects,       \* its single rigid objects
    Collections,        \* its rigid object collections
    Envs,               \* worlds
    Solvers,            \* of "mujoco", "featherstone", "xpbd", "kamino"
    MaxTime             \* bound: physics steps whose update an asset sees

ASSUME TimeAssumption == MaxTime \in Nat
ASSUME SolversAssumption ==
    Solvers \subseteq {"mujoco", "featherstone", "xpbd", "kamino"}

VARIABLES
    solver,         \* the solver the manager was built with
    pipeline,       \* _needs_collision_pipeline
    worldMask,      \* _world_reset_mask, as a set of worlds
    fkMask,         \* _fk_reset_mask, as a set of pairs
    simTimestamp,   \* data._sim_timestamp of every asset, in steps
    fkTimestamp,    \* data._fk_timestamp of the assets that have one
    stale,          \* pairs whose body poses lag behind the coordinates
    written,        \* pairs written since the last physics step
    lost            \* pairs whose write the last physics step did not see

kinematicsVars == <<solver, pipeline, worldMask, fkMask, simTimestamp,
                    fkTimestamp, stale, written, lost>>

Assets == Articulations \cup RigidObjects \cup Collections
\* A collection's body_link_pose_w is its root transforms: joint coordinates
\* themselves, which no forward kinematics stands behind.
Timestamped == Articulations \cup RigidObjects
Pairs == Assets \X Envs
In(worlds) == Assets \X worlds

(***************************************************************************)
(* External: eval_fk recomputes the body poses of the masked articulations  *)
(* from the joint coordinates; SolverKamino.reset does so for whole worlds  *)
(* and restarts the solver's own state (warm starts, multipliers) there.    *)
(***************************************************************************)
EvalFk(poses, mask) == poses \ mask
SolverReset(poses, worlds) == poses \ In(worlds)

\* invalidate_fk with the ids or the mask of the written environments.
Dirtied(a, E) ==
    /\ worldMask' = worldMask \cup E
    /\ fkMask' = fkMask \cup ({a} \X E)

\* invalidate_fk without them: no topology, everything is marked.
AllDirtied ==
    /\ worldMask' = Envs
    /\ fkMask' = Pairs

\* The part of a coordinate writer that is not its call of invalidate_fk.
Moved(a, E) ==
    /\ stale' = stale \cup ({a} \X E)
    /\ written' = written \cup ({a} \X E)
    /\ fkTimestamp' = [b \in Timestamped |->
                          IF b = a THEN -1 ELSE fkTimestamp[b]]

-----------------------------------------------------------------------------
KinematicsInit ==
    /\ solver \in Solvers
    /\ pipeline \in (IF solver \in {"xpbd", "featherstone"} THEN {TRUE}
                                                            ELSE BOOLEAN)
    /\ worldMask = {} /\ fkMask = {}
    /\ simTimestamp = [a \in Assets |-> 0]
    /\ fkTimestamp = [a \in Timestamped |-> 0]
    /\ stale = {} /\ written = {} /\ lost = {}

\* write_root_link_pose / write_root_com_pose of articulations and rigid
\* objects, write_body_link_pose / write_body_com_pose of collections.
WritePose(a, E) ==
    /\ Moved(a, E)
    /\ Dirtied(a, E)
    /\ UNCHANGED <<solver, pipeline, simTimestamp, lost>>

WriteJointPosition(a, E) ==
    /\ a \in Articulations
    /\ Moved(a, E)
    /\ Dirtied(a, E)
    /\ UNCHANGED <<solver, pipeline, simTimestamp, lost>>

\* Positions and velocities in one call; the call marks every world.
WriteJointState(a, E) ==
    /\ a \in Articulations
    /\ Moved(a, E)
    /\ AllDirtied
    /\ UNCHANGED <<solver, pipeline, simTimestamp, lost>>

\* Velocities of rigid objects and collections move no pose but still ask for
\* a solver reset; the velocity writers of articulations ask for nothing.
WriteVelocity(a, E) ==
    /\ a \in RigidObjects \cup Collections
    /\ Dirtied(a, E)
    /\ written' = written \cup ({a} \X E)
    /\ UNCHANGED <<solver, pipeline, simTimestamp, fkTimestamp, stale, lost>>

\* Mutant: forward() consumes the masks, as comments of the asset tests suppose.
ForwardClears ==
    /\ stale' = EvalFk(stale, Pairs)
    /\ worldMask' = {} /\ fkMask' = {}
    /\ UNCHANGED <<solver, pipeline, simTimestamp, fkTimestamp, written, lost>>

\* NewtonManager.forward: environment reset, render, or a getter.
Forward ==
    /\ stale' = EvalFk(stale, Pairs)
    /\ UNCHANGED <<solver, pipeline, worldMask, fkMask, simTimestamp,
                   fkTimestamp, written, lost>>

\* A getter behind _ensure_fk_fresh: link poses, Jacobians, mass matrix.
NeedsForward(a) == fkTimestamp[a] < simTimestamp[a]

Read(a) ==
    /\ NeedsForward(a)
    /\ stale' = EvalFk(stale, Pairs)
    /\ fkTimestamp' = [fkTimestamp EXCEPT ![a] = simTimestamp[a]]
    /\ UNCHANGED <<solver, pipeline, worldMask, fkMask, simTimestamp, written,
                   lost>>

\* Body poses as the solver finds them, after what step() runs before it.
PosesAtSolver ==
    LET reset == IF solver = "kamino" THEN SolverReset(stale, worldMask)
                                      ELSE stale
    IN  IF pipeline THEN EvalFk(reset, fkMask) ELSE reset

\* A solver that detects collisions through the pipeline, or integrates body
\* poses itself, runs past a write whose body pose is still stale; Kamino also
\* past one in a world whose solver state it was not told to restart.
Missed ==
    (IF pipeline \/ solver = "kamino" THEN PosesAtSolver ELSE {})
        \cup (IF solver = "kamino" THEN written \ In(worldMask) ELSE {})

Step ==
    /\ lost' = Missed
    /\ stale' = {}              \* the solver leaves coordinates and poses agreeing
    /\ worldMask' = {} /\ fkMask' = {}
    /\ written' = {}
    /\ UNCHANGED <<solver, pipeline, simTimestamp, fkTimestamp>>

\* Mutant: a timestamp that was invalidated is brought up to date as well.
UpdateValidates(a) ==
    /\ simTimestamp[a] < MaxTime
    /\ simTimestamp' = [simTimestamp EXCEPT ![a] = @ + 1]
    /\ fkTimestamp' = [b \in Timestamped |->
                          IF b = a THEN simTimestamp[a] + 1 ELSE fkTimestamp[b]]
    /\ UNCHANGED <<solver, pipeline, worldMask, fkMask, stale, written, lost>>

\* data.update, after a step: valid poses are current, invalid ones stay so.
UpdateData(a) ==
    /\ simTimestamp[a] < MaxTime
    /\ simTimestamp' = [simTimestamp EXCEPT ![a] = @ + 1]
    /\ fkTimestamp' = [b \in Timestamped |->
                          IF b = a /\ fkTimestamp[b] >= 0 THEN simTimestamp[a] + 1
                                                          ELSE fkTimestamp[b]]
    /\ UNCHANGED <<solver, pipeline, worldMask, fkMask, stale, written, lost>>

\* A hard reset: a new model whose poses are computed once, new masks, and the
\* same asset data, bound again with their timestamps as they were.
StartSimulation ==
    /\ stale' = {} /\ worldMask' = {} /\ fkMask' = {}
    /\ written' = {} /\ lost' = {}
    /\ UNCHANGED <<solver, pipeline, simTimestamp, fkTimestamp>>

\* Writers are called for at least one world (manager_based_rl_env.py:249).
KinematicsNext ==
    \/ \E a \in Assets, E \in (SUBSET Envs) \ {{}} :
          WritePose(a, E) \/ WriteJointPosition(a, E) \/ WriteJointState(a, E)
             \/ WriteVelocity(a, E)
    \/ \E a \in Timestamped : Read(a)
    \/ \E a \in Assets : UpdateData(a)
    \/ Forward \/ Step \/ StartSimulation

KinematicsSpec == KinematicsInit /\ [][KinematicsNext]_kinematicsVars

-----------------------------------------------------------------------------
\* Types: timestamps are either invalid or the asset's own time, never a third
\* value an asset could be left with after a late update.
KinematicsTypeOK ==
    /\ solver \in Solvers
    /\ pipeline \in BOOLEAN
    /\ worldMask \subseteq Envs
    /\ fkMask \subseteq Pairs
    /\ simTimestamp \in [Assets -> 0 .. MaxTime]
    /\ fkTimestamp \in [Timestamped -> {-1} \cup 0 .. MaxTime]
    /\ \A a \in Timestamped : fkTimestamp[a] \in {-1, simTimestamp[a]}
    /\ stale \subseteq Pairs /\ written \subseteq Pairs /\ lost \subseteq Pairs

\* A getter that runs no forward kinematics returns current body poses in every
\* world, whatever other assets wrote, read or stepped since: the timestamp of
\* one asset may be cleared by the debt of another (_ensure_fk_fresh).
ReadsCurrent ==
    \A a \in Timestamped, w \in Envs : <<a, w>> \in stale => NeedsForward(a)

\* No step runs past a write: collision detection and maximal-coordinate solvers
\* see the written poses, and Kamino restarts its state in every written world,
\* also when a read or env.reset's forward has brought the poses up to date in
\* between (NewtonManager.step, NewtonKaminoManager.step).
WritesReachSolver == lost = {}

=============================================================================
